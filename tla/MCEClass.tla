------------------------------ MODULE MCEClass ------------------------------
(***************************************************************************)
(* Instances of EClass, and of its refinement of CharPartition, for TLC.   *)
(***************************************************************************)
EXTENDS EClassPartition, TLC

CONSTANT Situation  \* parts of the instance: [lexemes, same, attrs, projects]

VARIABLE situation  \* the part that is looked at

mcvars == <<pvars, situation>>

MCInit == PInit /\ project = "p" /\ situation \in Situation

\* What is read, marked and unified belongs to the situation.
InSituation ==
    /\ \A t \in DOMAIN tm : \E x \in situation.lexemes :
          t[1] = x.tokid[1] /\ t[2] \in x.tokid[2] .. x.tokid[2] + x.len - 1
    /\ project \in situation.projects
    /\ \A e \in DOMAIN ec : ec[e].attr \cap Attribute \subseteq situation.attrs
    /\ unify.pc # "idle" => <<unify.a, unify.b>> \in situation.same

MCNext ==
    /\ UNCHANGED situation
    /\ PNext
    /\ InSituation'

MCSpec == MCInit /\ [][MCNext]_mcvars /\ WF_mcvars(UnifyStep /\ MCNext)

-----------------------------------------------------------------------------
(* Instances.  Run(f, o, l) is a lexeme; a token is written as the sequence *)
(* of its lexemes, several of them when a macro pasted it together.        *)

Run(f, o, l) == [tokid |-> <<f, o>>, len |-> l]

Chars(x) == [i \in 1 .. x.len |-> Advance(x.tokid, i - 1)]

MCFile == {"w.c", "sys.h"}
MCReadOnly == {"sys.h"}
MCClassId == 1 .. 12

\* The name abc: whole in a read-only header, and pasted as ab ## c and as
\* a ## bc, so that the boundaries of the three only agree when all of them
\* are split into single characters.
Header == Run("sys.h", 0, 3)
AB == Run("w.c", 10, 2)
C == Run("w.c", 13, 1)
A == Run("w.c", 20, 1)
BC == Run("w.c", 22, 2)

HeaderToken == Chars(Header)
PasteAB_C == Chars(AB) \o Chars(C)
PasteA_BC == Chars(A) \o Chars(BC)

\* The name ab in the header and pasted from a and b.
ShortHeader == Run("sys.h", 10, 2)
B == Run("w.c", 30, 1)
ShortToken == Chars(ShortHeader)
PasteA_B == Chars(A) \o Chars(B)

\* A name made of the same lexeme twice, as test/c/c46-double-split.c does:
\* abab from x ## x, where x is ab, and again from the name in the header, a
\* and b.
K == Run("w.c", 0, 2)
Twice == Chars(K) \o Chars(K)
Pieces == Chars(ShortHeader) \o Chars(A) \o Chars(B)

MCLexeme == {Header, AB, C, A, BC, ShortHeader, B, K}
MCToken == {HeaderToken, PasteAB_C, PasteA_BC, ShortToken, PasteA_B, Twice, Pieces}
MCSameName ==
    {<<HeaderToken, PasteAB_C>>, <<PasteAB_C, PasteA_BC>>,
     <<PasteA_BC, HeaderToken>>, <<ShortToken, PasteA_B>>, <<Twice, Pieces>>}
MCAttribute == {"is_ordinary"}
MCProject == {"p", "q"}

\* Three spellings of a name; one seen by two projects that is marked; and
\* one that repeats a lexeme, also marked.
ThreeSpellings ==
    [lexemes |-> {Header, AB, C, A, BC},
     same |-> {<<HeaderToken, PasteAB_C>>, <<PasteAB_C, PasteA_BC>>,
               <<PasteA_BC, HeaderToken>>},
     attrs |-> {}, projects |-> {"p"}]
TwoProjects ==
    [lexemes |-> {ShortHeader, A, B}, same |-> {<<ShortToken, PasteA_B>>},
     attrs |-> MCAttribute, projects |-> MCProject]
RepeatedLexeme ==
    [lexemes |-> {ShortHeader, A, B, K},
     same |-> {<<ShortToken, PasteA_B>>, <<Twice, Pieces>>},
     attrs |-> MCAttribute, projects |-> {"p"}]
MCSituation == {ThreeSpellings, TwoProjects, RepeatedLexeme}

\* The one case in which homogenize fails: a token that repeats a lexeme is
\* homogenized right, which the counters of used characters were made for,
\* unless its first occurrence was matched whole and its second one is split.
LateSplit == unify.b = Pieces /\ RunLen(ShortHeader.tokid) = 2

\* Every call of unify returns, with classes that have pair by pair the same
\* length, as its merging loop relies on, except for a late split.
UnifyReturns ==
    [](unify.pc # "idle" =>
        <>(unify.pc = "idle" \/ (unify.pc = "failed" /\ LateSplit)))

=============================================================================

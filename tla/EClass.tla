------------------------------- MODULE EClass -------------------------------
(***************************************************************************)
(* Equivalence classes of source text, the core of CScout: eclass.cpp,     *)
(* tokid.cpp and the unification half of token.cpp.                        *)
(*                                                                         *)
(* Every character of the analysed files has a Tokid, a file and an        *)
(* offset.  An Eclass stands for a run of len characters that occurs at    *)
(* every one of its members; renaming an identifier rewrites the members   *)
(* of its classes.  The map Tokid::tm leads from the first character of    *)
(* each run to its class.  Token::unify makes two tokens that spell the    *)
(* same name share their classes: it first splits the classes of both      *)
(* until their boundaries agree (Tpart::homogenize) and then merges them   *)
(* pair by pair.  Each iteration of these two loops is a step below;       *)
(* nothing else happens between the steps of one call.                     *)
(*                                                                         *)
(* The deques of parts and the two "used characters" counters of the code  *)
(* only serve to name the next character of each token, so a token is here *)
(* the sequence of its characters' Tokids and both iterators are the       *)
(* number n of the characters consumed.                                    *)
(***************************************************************************)
EXTENDS Integers, Sequences, FiniteSets

CONSTANTS
    File,       \* files of the workspace
    ReadOnly,   \* those for which Fileid::get_readonly() holds
    Lexeme,     \* runs of text the lexer takes for an identifier or number
    Token,      \* tokens the program unifies: sequences of Tokids
    SameName,   \* pairs of tokens that have the same name
    Attribute,  \* attributes the parser sets on tokens (enum e_attribute)
    Project,    \* project names; each is an attribute of its own
    ClassId     \* addresses a new Eclass may get

Tokid == File \X Nat

\* operator+(const Tokid &, int)
Advance(t, k) == <<t[1], t[2] + k>>

AllAttribute == Attribute \cup Project \cup {"is_readonly"}

\* Lexemes are runs of text in one file that do not overlap, and each token
\* is made of characters of lexemes.
ASSUME EClassAssumption ==
    /\ ReadOnly \subseteq File
    /\ Lexeme \subseteq [tokid : Tokid, len : Nat \ {0}]
    /\ \A x, y \in Lexeme : x # y /\ x.tokid[1] = y.tokid[1] =>
          \/ x.tokid[2] + x.len <= y.tokid[2]
          \/ y.tokid[2] + y.len <= x.tokid[2]
    /\ Token \subseteq Seq(Tokid)
    /\ SameName \subseteq Token \X Token
    /\ "is_readonly" \notin Attribute \cup Project

VARIABLES
    tm,         \* Tokid::tm, from Tokids to the class that starts there
    ec,         \* the Eclass objects allocated, by address
    project,    \* Project::current_projid
    unify       \* the activation of Token::unify: [pc, a, b, n]

vars == <<tm, ec, project, unify>>

Eclass == [len : Nat \ {0}, members : SUBSET Tokid, attr : SUBSET AllAttribute]

Idle == [pc |-> "idle", a |-> <<>>, b |-> <<>>, n |-> 0]

TypeOK ==
    /\ DOMAIN tm \subseteq Tokid
    /\ tm \in [DOMAIN tm -> ClassId]
    /\ DOMAIN ec \subseteq ClassId
    /\ ec \in [DOMAIN ec -> Eclass]
    /\ project \in Project
    /\ unify \in [pc : {"idle", "homogenize", "merge", "failed"},
                  a : Token \cup {<<>>}, b : Token \cup {<<>>}, n : Nat]

Init ==
    /\ tm = << >>
    /\ ec = << >>
    /\ project \in Project
    /\ unify = Idle

-----------------------------------------------------------------------------
(* The operations of Eclass                                                *)

RunLen(t) == ec[tm[t]].len

\* Operators whose name ends in Faulty are variants of the one that follows
\* them, each with a plausible bug that the properties below must notice.

InherentFaulty(tokids, skipping) ==     \* forgets set_attribute(is_readonly)
    IF skipping THEN {} ELSE {project}

\* Attributes Eclass::add_tokid sets for new members, given Pdtoken::skipping().
Inherent(tokids, skipping) ==
    (IF \E t \in tokids : t[1] \in ReadOnly THEN {"is_readonly"} ELSE {})
        \cup (IF skipping THEN {} ELSE {project})

MemoryLeft == ClassId \ DOMAIN ec # {}

Fresh == CHOOSE e \in ClassId : e \notin DOMAIN ec

\* The map after set_ec(e) on each of the tokids.
Mapped(tokids, e) ==
    [t \in DOMAIN tm \cup tokids |-> IF t \in tokids THEN e ELSE tm[t]]

\* Members of the class that split(pos) puts the second parts of e into.
SecondParts(e, pos) == {Advance(t, pos) : t \in ec[e].members}

\* Eclass::split
Split(e, pos) ==
    /\ MemoryLeft
    /\ tm' = Mapped(SecondParts(e, pos), Fresh)
    /\ ec' = [x \in DOMAIN ec \cup {Fresh} |->
                CASE x = Fresh -> [len |-> ec[e].len - pos,
                                   members |-> SecondParts(e, pos),
                                   attr |-> ec[e].attr]
                  [] x = e -> [ec[e] EXCEPT !.len = pos]
                  [] OTHER -> ec[x]]

MergeIntoFaulty(dst, src) ==            \* leaves tm leading to src
    /\ ec' = [x \in DOMAIN ec \ {src} |->
                IF x # dst THEN ec[x] ELSE
                [ec[dst] EXCEPT !.members = @ \cup ec[src].members,
                                !.attr = @ \cup ec[src].attr]]
    /\ UNCHANGED tm

MergeIntoReplacesFaulty(dst, src) ==    \* assigns the attributes of src
    /\ tm' = Mapped(ec[src].members, dst)
    /\ ec' = [x \in DOMAIN ec \ {src} |->
                IF x # dst THEN ec[x] ELSE
                [len |-> ec[dst].len,
                 members |-> ec[dst].members \cup ec[src].members,
                 attr |-> ec[src].attr \cup Inherent(ec[src].members, FALSE)]]

\* merge_into; tokens are never unified in a skipped region.
MergeInto(dst, src) ==
    /\ tm' = Mapped(ec[src].members, dst)
    /\ ec' = [x \in DOMAIN ec \ {src} |->
                IF x # dst THEN ec[x] ELSE
                [len |-> ec[dst].len,
                 members |-> ec[dst].members \cup ec[src].members,
                 attr |-> ec[dst].attr \cup ec[src].attr
                            \cup Inherent(ec[src].members, FALSE)]]

\* merge
Merge(x, y) ==
    IF x = y THEN UNCHANGED <<tm, ec>>
    ELSE IF Cardinality(ec[x].members) >= Cardinality(ec[y].members)
    THEN MergeInto(x, y)
    ELSE MergeInto(y, x)

\* set_attribute on each class of a set
Marked(classes, attrs) ==
    [x \in DOMAIN ec |-> IF x \in classes
                         THEN [ec[x] EXCEPT !.attr = @ \cup attrs]
                         ELSE ec[x]]

-----------------------------------------------------------------------------
(* Reading a token: Tokid::constituents                                    *)

\* Number of characters of the run (t, l) the walk over its classes covers
\* before it ends or reaches a character with no class.
Covered(t, l) ==
    LET stops == {k \in 0 .. l :
            \/ k = l
            \/ /\ Advance(t, k) \notin DOMAIN tm
               /\ \/ k = 0
                  \/ \E j \in 0 .. k - 1 : /\ Advance(t, j) \in DOMAIN tm
                                           /\ j + RunLen(Advance(t, j)) = k}
    IN  CHOOSE k \in stops : \A j \in stops : k <= j

\* Classes that start in the first l characters at t.
ClassesIn(t, l) ==
    {tm[s] : s \in {Advance(t, k) : k \in 0 .. l - 1} \cap DOMAIN tm}

\* A token is read from a file: what is covered joins the current project,
\* what is not gets a class of its own.
Read(x, skipping) ==
    /\ unify.pc = "idle"
    /\ LET done    == Covered(x.tokid, x.len)
           start   == Advance(x.tokid, done)
           touched == Marked(ClassesIn(x.tokid, done),
                             IF skipping THEN {} ELSE {project})
       IN  IF done = x.len
           THEN ec' = touched /\ UNCHANGED tm
           ELSE /\ MemoryLeft
                /\ tm' = Mapped({start}, Fresh)
                /\ ec' = [e \in DOMAIN ec \cup {Fresh} |->
                            IF e = Fresh
                            THEN [len |-> x.len - done, members |-> {start},
                                  attr |-> Inherent({start}, skipping)]
                            ELSE touched[e]]
    /\ UNCHANGED <<project, unify>>

-----------------------------------------------------------------------------
(* Tokens: attributes and unification                                      *)

Classes(tok) == {tm[tok[i]] : i \in {j \in DOMAIN tok : tok[j] \in DOMAIN tm}}

\* Every character of tok is in the run of some class: true of any token
\* whose parts were read.
HasClasses(tok) ==
    \A i \in DOMAIN tok : \E t \in DOMAIN tm :
        /\ t[1] = tok[i][1]
        /\ tok[i][2] \in t[2] .. t[2] + RunLen(t) - 1

\* Project::set_current_project, from #pragma project
SetProject(p) ==
    /\ unify.pc = "idle"
    /\ project' = p
    /\ UNCHANGED <<tm, ec, unify>>

\* Token::set_ec_attribute
SetAttribute(tok, attr) ==
    /\ unify.pc = "idle"
    /\ HasClasses(tok)
    /\ ec' = Marked(Classes(tok), {attr})
    /\ UNCHANGED <<tm, project, unify>>

\* Entry of Token::unify: both calls of constituents and the iterators.
UnifyBegin(a, b) ==
    /\ unify.pc = "idle"
    /\ HasClasses(a)
    /\ HasClasses(b)
    /\ ec' = Marked(Classes(a) \cup Classes(b), {project})
    /\ unify' = [pc |-> "homogenize", a |-> a, b |-> b, n |-> 0]
    /\ UNCHANGED <<tm, project>>

\* Next characters of the two tokens; the classes that start there.
NextA == unify.a[unify.n + 1]
NextB == unify.b[unify.n + 1]
MoreA == unify.n < Len(unify.a)
MoreB == unify.n < Len(unify.b)
ClassesFound == NextA \in DOMAIN tm /\ NextB \in DOMAIN tm

Consume(k) == unify' = [unify EXCEPT !.n = @ + k]

HomogenizeEqualFaulty ==                \* forgets to advance the iterators
    /\ unify.pc = "homogenize" /\ MoreA /\ MoreB
    /\ ClassesFound
    /\ RunLen(NextA) = RunLen(NextB)
    /\ UNCHANGED vars

\* One iteration of Tpart::homogenize on classes of the same length.
HomogenizeEqual ==
    /\ unify.pc = "homogenize" /\ MoreA /\ MoreB
    /\ ClassesFound
    /\ RunLen(NextA) = RunLen(NextB)
    /\ Consume(RunLen(NextA))
    /\ UNCHANGED <<tm, ec, project>>

\* One iteration that splits the longer class, of a or of b.
HomogenizeSplit(long, short) ==
    /\ unify.pc = "homogenize" /\ MoreA /\ MoreB
    /\ ClassesFound
    /\ RunLen(short) < RunLen(long)
    /\ Split(tm[long], RunLen(short))
    /\ Consume(RunLen(short))
    /\ UNCHANGED project

HomogenizeEnd ==
    /\ unify.pc = "homogenize"
    /\ ~(MoreA /\ MoreB)
    /\ unify' = [unify EXCEPT !.pc = "merge", !.n = 0]
    /\ UNCHANGED <<tm, ec, project>>

MergePairFaulty ==                      \* stops after the first pair
    /\ unify.pc = "merge" /\ MoreA /\ MoreB
    /\ ClassesFound
    /\ RunLen(NextA) = RunLen(NextB)
    /\ Merge(tm[NextA], tm[NextB])
    /\ Consume(Len(unify.a))
    /\ UNCHANGED project

\* One iteration of the loop that merges the corresponding classes.
MergePair ==
    /\ unify.pc = "merge" /\ MoreA /\ MoreB
    /\ ClassesFound
    /\ RunLen(NextA) = RunLen(NextB)
    /\ Merge(tm[NextA], tm[NextB])
    /\ Consume(RunLen(NextA))
    /\ UNCHANGED project

\* csassert(src->len == dst->len) of merge_into, or the iterator of b running
\* past its end: the error is reported and classes are merged regardless, a
\* state this model does not follow any further.
MergeMismatch ==
    /\ unify.pc = "merge" /\ MoreA
    /\ ~(MoreB /\ ClassesFound /\ RunLen(NextA) = RunLen(NextB))
    /\ unify' = [unify EXCEPT !.pc = "failed"]
    /\ UNCHANGED <<tm, ec, project>>

UnifyEnd ==
    /\ unify.pc = "merge" /\ ~MoreA
    /\ unify' = Idle
    /\ UNCHANGED <<tm, ec, project>>

HomogenizeStep ==
    \/ HomogenizeEqual
    \/ HomogenizeSplit(NextA, NextB)
    \/ HomogenizeSplit(NextB, NextA)
    \/ HomogenizeEnd

UnifyStep == HomogenizeStep \/ MergePair \/ MergeMismatch \/ UnifyEnd

Next ==
    \/ \E p \in Project : SetProject(p)
    \/ \E x \in Lexeme, skipping \in BOOLEAN : Read(x, skipping)
    \/ \E tok \in Token, attr \in Attribute : SetAttribute(tok, attr)
    \/ \E pair \in SameName : UnifyBegin(pair[1], pair[2])
    \/ UnifyStep

Spec == Init /\ [][Next]_vars

\* The loops of unify run to their end once entered: one thread, no waiting.
FairSpec == Spec /\ WF_vars(UnifyStep)

-----------------------------------------------------------------------------
(* Properties                                                              *)

\* Tokid::tm and the member sets are inverse to each other: a class is
\* reached from exactly its members, and no entry of the map leads to a
\* class that merge_into deleted.
MapIsMembership ==
    /\ \A t \in DOMAIN tm : tm[t] \in DOMAIN ec /\ t \in ec[tm[t]].members
    /\ \A e \in DOMAIN ec : \A t \in ec[e].members :
          t \in DOMAIN tm /\ tm[t] = e

\* The runs of two members never share a character, whatever splits and
\* merges came before: a character is renamed through one class only.
NoOverlap ==
    \A s, t \in DOMAIN tm :
        s[1] = t[1] /\ s[2] < t[2] => s[2] + RunLen(s) <= t[2]

\* The classes on a lexeme that was read cover it from its first to its last
\* character, so the walks of constituents and set_ec_attribute never reach
\* a character without a class nor run past the end of the token (their
\* csasserts).
WholeLexemes ==
    \A t \in DOMAIN tm : \E x \in Lexeme :
        /\ x.tokid[1] = t[1]
        /\ x.tokid[2] <= t[2]
        /\ t[2] + RunLen(t) <= x.tokid[2] + x.len
        /\ x.tokid \in DOMAIN tm
        /\ \/ t[2] + RunLen(t) = x.tokid[2] + x.len
           \/ Advance(t, RunLen(t)) \in DOMAIN tm

\* "Read-only; true if any member comes from an ro file": after any splits
\* and merges the attribute says exactly that.
ReadOnlyIffMember ==
    \A e \in DOMAIN ec :
        "is_readonly" \in ec[e].attr <=> \E t \in ec[e].members : t[1] \in ReadOnly

\* The strengthening of these that every step preserves.
Consistent ==
    TypeOK /\ MapIsMembership /\ NoOverlap /\ WholeLexemes /\ ReadOnlyIffMember

\* Unification is for ever: runs that were found to be the same name stay in
\* one class, a class only gets shorter, and neither a split nor a merge
\* loses an attribute (an unwritable or used identifier never becomes a
\* writable or unused one).
NothingForgotten ==
    [][\A s, t \in DOMAIN tm :
        /\ s \in DOMAIN tm'
        /\ tm[s] = tm[t] => tm'[s] = tm'[t]
        /\ RunLen(s)' <= RunLen(s)
        /\ ec[tm[s]].attr \subseteq ec'[tm'[s]].attr]_vars

\* What the merging loop of unify relies on: after homogenize the classes of
\* the two tokens have, pair by pair, the same length.
HomogenizePost == unify.pc # "failed"

=============================================================================

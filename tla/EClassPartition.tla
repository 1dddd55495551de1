--------------------------- MODULE EClassPartition ---------------------------
(***************************************************************************)
(* How the classes of EClass implement CharPartition.  The abstract state  *)
(* is the one the classes denote while no unification is under way; snap   *)
(* keeps it during a call of unify, whose effect becomes visible all at    *)
(* once when it returns.                                                   *)
(***************************************************************************)
EXTENDS EClass

\* Each character of a token belongs to an occurrence of a whole lexeme in
\* it: the parts of a token are what the lexer read, never pieces of it.
ASSUME TokenAssumption ==
    \A tok \in Token : \A i \in DOMAIN tok : \E x \in Lexeme, j \in 0 .. i - 1 :
        /\ i <= j + x.len
        /\ j + x.len <= Len(tok)
        /\ \A m \in 0 .. x.len - 1 : tok[j + 1 + m] = Advance(x.tokid, m)

VARIABLE snap       \* the blocks before the activation of unify

pvars == <<vars, snap>>

\* The characters at position k of the runs of e.
Block(e, k) ==
    [chars |-> {Advance(t, k) : t \in ec[e].members}, attr |-> ec[e].attr]

\* The blocks of characters that the class e stands for.
BlocksOf(e) == {Block(e, k) : k \in 0 .. ec[e].len - 1}

Denoted == UNION {BlocksOf(e) : e \in DOMAIN ec}

PInit == Init /\ snap = {}

PNext == Next /\ snap' = IF unify'.pc = "idle" THEN Denoted' ELSE snap

PSpec == PInit /\ [][PNext]_pvars

Abstract == INSTANCE CharPartition WITH blocks <- snap, current <- project

\* Whatever is read, marked and unified in whatever order, and whichever way
\* the classes are cut and merged for it, the classes are exactly the
\* partition of the characters that chains of unified tokens induce, and
\* carry the attributes given to their characters and no others.
ImplementsCharPartition == Abstract!ASpec

-----------------------------------------------------------------------------
(* What the classes denote in the middle of unify.                         *)

Both == Abstract!CharsIn(unify.a) \cup Abstract!CharsIn(unify.b)

\* The partition that the loops of unify start from.
Given == Abstract!Give(snap, Both, {project})

\* Homogenizing leaves the partition as it is; after the merging loop has
\* come to character n it is the partition with n pairs joined.
Follows ==
    /\ unify.pc = "idle" => snap = Denoted
    /\ unify.pc \in {"homogenize", "merge"} =>
          /\ <<unify.a, unify.b>> \in SameName
          /\ Both \subseteq UNION {bl.chars : bl \in snap}
          /\ \A t \in DOMAIN tm \cap Both : project \in ec[tm[t]].attr
    /\ unify.pc = "homogenize" => Denoted = Given
    /\ unify.pc = "merge" =>
          /\ unify.n <= Len(unify.a)
          /\ Denoted = Abstract!Joined(Given, unify.a, unify.b)[unify.n]

=============================================================================

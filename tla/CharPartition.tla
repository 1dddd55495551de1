---------------------------- MODULE CharPartition ----------------------------
(***************************************************************************)
(* What the equivalence classes of CScout promise, with no classes, runs   *)
(* or maps: the characters of the tokens read so far are partitioned, two  *)
(* characters are in the same block iff a chain of unified tokens leads    *)
(* from one to the other, and a block carries every attribute given to any *)
(* of its characters.  Unifying two tokens happens at once.                *)
(***************************************************************************)
EXTENDS Integers, Sequences

CONSTANTS File, ReadOnly, Lexeme, Token, SameName, Attribute, Project

VARIABLES
    blocks,     \* set of [chars, attr]
    current     \* the current project

avars == <<blocks, current>>

CharsOf(x) == {<<x.tokid[1], x.tokid[2] + k>> : k \in 0 .. x.len - 1}

CharsIn(tok) == {tok[i] : i \in DOMAIN tok}

Known == UNION {bl.chars : bl \in blocks}

Give(bs, chars, attrs) ==
    {IF bl.chars \cap chars = {} THEN bl ELSE [bl EXCEPT !.attr = @ \cup attrs]
        : bl \in bs}

\* The partition with the blocks of two characters made one.
Join(bs, c, d) ==
    LET two == {bl \in bs : c \in bl.chars \/ d \in bl.chars}
    IN  (bs \ two) \cup {[chars |-> UNION {bl.chars : bl \in two},
                          attr  |-> UNION {bl.attr : bl \in two}]}

\* The partitions after each of the joins of a's characters with b's.
Joined(bs, a, b) ==
    LET joined[i \in 0 .. Len(a)] ==
            IF i = 0 THEN bs ELSE Join(joined[i - 1], a[i], b[i])
    IN  joined

AInit == blocks = {} /\ current \in Project

ASetProject(p) == current' = p /\ UNCHANGED blocks

ARead(x, skipping) ==
    LET attrs == IF skipping THEN {} ELSE {current}
        ro    == IF x.tokid[1] \in ReadOnly THEN {"is_readonly"} ELSE {}
    IN  /\ blocks' = Give(blocks, CharsOf(x), attrs)
                \cup {[chars |-> {c}, attr |-> attrs \cup ro]
                        : c \in CharsOf(x) \ Known}
        /\ UNCHANGED current

ASetAttribute(tok, attr) ==
    /\ CharsIn(tok) \subseteq Known
    /\ blocks' = Give(blocks, CharsIn(tok), {attr})
    /\ UNCHANGED current

AUnify(a, b) ==
    LET both == CharsIn(a) \cup CharsIn(b)
    IN  /\ both \subseteq Known
        /\ blocks' = Joined(Give(blocks, both, {current}), a, b)[Len(a)]
        /\ UNCHANGED current

ANext ==
    \/ \E p \in Project : ASetProject(p)
    \/ \E x \in Lexeme, skipping \in BOOLEAN : ARead(x, skipping)
    \/ \E tok \in Token, attr \in Attribute : ASetAttribute(tok, attr)
    \/ \E pair \in SameName : AUnify(pair[1], pair[2])

ASpec == AInit /\ [][ANext]_avars

=============================================================================

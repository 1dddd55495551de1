---------------------------- MODULE RenameProofs ----------------------------
(***************************************************************************)
(* Whatever program is analysed and however often the user changes names   *)
(* and options and saves, text of a read-only file is only rewritten where *)
(* a form offered under the override asked for it, and the table of        *)
(* identifiers only leads to classes that exist.                           *)
(*                                                                         *)
(* The classes that are not identifiers are deleted between the passes, so *)
(* that runs may overlap in the second one and what EClassProofs shows of  *)
(* the first does not last.  What does last is that the map leads from a   *)
(* Tokid to a class it is a member of, and that a class with a member in a *)
(* read-only file is marked.                                               *)
(***************************************************************************)
EXTENDS Rename, EClassProofs

ClassesWhole == \A e \in DOMAIN ec : DOMAIN ec[e] = {"len", "members", "attr"}
MapReaches == \A t \in DOMAIN tm : tm[t] \in DOMAIN ec /\ t \in ec[tm[t]].members
ReadOnlyMarked ==
    \A e \in DOMAIN ec : \A t \in ec[e].members :
        t[1] \in ReadOnly => "is_readonly" \in ec[e].attr
ClassInv == project \in Project /\ ClassesWhole /\ MapReaches /\ ReadOnlyMarked

\* A form may be held for any time: the class it was offered for stays one that
\* it may rename.
Permitted(e) == [class |-> e, override |-> TRUE] \in forms
ReplacedWithReason ==
    \A e \in DOMAIN ids : ids[e].replaced => ~ReadOnlyIdentifier(e) \/ Permitted(e)
FormsOffered == \A f \in forms : f = [class |-> f.class, override |-> TRUE]
IdsInv ==
    /\ IdsAreLive /\ ReplacedWithReason /\ FormsOffered
    /\ \A e \in DOMAIN ids : "replaced" \in DOMAIN ids[e]
    /\ phase = "parse" => DOMAIN ids = {}

\* No step changes what was saved.
TextOriginal == \A x \in Lexemes : text[x] = Original(x)
TextInv ==
    /\ phase # "saved" => TextOriginal
    /\ phase \notin {"parse", "check"} => unify.pc = "idle"

RInv ==
    /\ workspace \in Workspace /\ options \in workspace.options
    /\ pos \in Nat \ {0}
    /\ ClassInv /\ IdsInv /\ TextInv /\ ReadOnlyUntouched

\* A step that deletes no class and gives none that exists the mark of those
\* with a read-only member.
Writable(e) == e \in DOMAIN ec /\ "is_readonly" \notin ec[e].attr
ClassesStay ==
    /\ DOMAIN ec \subseteq DOMAIN ec'
    /\ \A e \in DOMAIN ec : Writable(e) => Writable(e)'

-----------------------------------------------------------------------------
(* The operations on classes                                               *)

LEMMA ClassesSame ==
    ASSUME ClassInv, UNCHANGED <<tm, ec, project>>
    PROVE  ClassInv' /\ ClassesStay
BY DEF ClassInv, ClassesWhole, MapReaches, ReadOnlyMarked, ClassesStay, Writable

\* set_attribute on some of the classes, of attributes given for each
LEMMA AttributesGrow ==
    ASSUME ClassInv, UNCHANGED <<tm, project>>,
           DOMAIN ec' = DOMAIN ec,
           \A e \in DOMAIN ec :
              /\ DOMAIN ec'[e] = DOMAIN ec[e]
              /\ ec'[e].members = ec[e].members
              /\ \A a : a = "is_readonly" => (a \in ec'[e].attr <=> a \in ec[e].attr)
    PROVE  ClassInv' /\ ClassesStay
BY DEF ClassInv, ClassesWhole, MapReaches, ReadOnlyMarked, ClassesStay, Writable

LEMMA MarkAndUnifyKeeps ==
    ASSUME ClassInv, NEW tok, NEW attrs, NEW with, "is_readonly" \notin attrs,
           MarkAndUnify(tok, attrs, with)
    PROVE  ClassInv' /\ ClassesStay
<1> DEFINE seen == IF with = <<>> THEN {} ELSE Classes(tok) \cup Classes(with)
           given(e) == (IF e \in Classes(tok) THEN attrs ELSE {})
                          \cup (IF e \in seen THEN {project} ELSE {})
<1>1. UNCHANGED <<tm, project>> /\ ec' = [e \in DOMAIN ec |-> [ec[e] EXCEPT !.attr = @ \cup given(e)]]
    BY DEF MarkAndUnify
<1>2. \A e : "is_readonly" \notin given(e)
    BY EClassAssumption DEF ClassInv
<1> HIDE DEF given
<1>3. \A e \in DOMAIN ec : /\ DOMAIN ec'[e] = DOMAIN ec[e]
                           /\ ec'[e].members = ec[e].members
                           /\ ec'[e].attr = ec[e].attr \cup given(e)
    BY <1>1 DEF ClassInv, ClassesWhole
<1>4. DOMAIN ec' = DOMAIN ec
    BY <1>1
<1> QED BY <1>1, <1>2, <1>3, <1>4, AttributesGrow

\* A new class does not get the address of a live one.
LEMMA FreshIsNew ==
    ASSUME MemoryLeft
    PROVE  Fresh \notin DOMAIN ec
BY DEF MemoryLeft, Fresh

LEMMA SplitKeeps ==
    ASSUME ClassInv, NEW long \in DOMAIN tm, NEW at, Split(tm[long], at),
           UNCHANGED project
    PROVE  ClassInv' /\ ClassesStay
<1> DEFINE e == tm[long]
           second == SecondParts(e, at)
<1>1. e \in DOMAIN ec /\ Fresh \notin DOMAIN ec
    BY FreshIsNew DEF Split, ClassInv, MapReaches
<1>2. /\ DOMAIN tm' = DOMAIN tm \cup second
      /\ \A t \in DOMAIN tm' : tm'[t] = IF t \in second THEN Fresh ELSE tm[t]
    BY DEF Split, Mapped
<1>3. /\ DOMAIN ec' = DOMAIN ec \cup {Fresh}
      /\ ec'[Fresh] = [len |-> ec[e].len - at, members |-> second, attr |-> ec[e].attr]
      /\ ec'[e] = [ec[e] EXCEPT !.len = at]
      /\ \A x \in DOMAIN ec \ {e} : ec'[x] = ec[x]
    BY <1>1 DEF Split
<1>4. /\ DOMAIN ec'[Fresh] = {"len", "members", "attr"}
      /\ ec'[Fresh].members = second /\ ec'[Fresh].attr = ec[e].attr
    <2> HIDE DEF second, e
    <2> QED BY <1>3
<1>5. \A x \in DOMAIN ec : /\ DOMAIN ec'[x] = {"len", "members", "attr"}
                           /\ ec'[x].members = ec[x].members /\ ec'[x].attr = ec[x].attr
    BY <1>1, <1>3 DEF ClassInv, ClassesWhole
<1>6. \A t \in second : \E s \in ec[e].members : t[1] = s[1]
    BY DEF SecondParts, Advance
<1> HIDE DEF second, e
<1>7. ClassesWhole' /\ ClassesStay
    BY <1>3, <1>4, <1>5 DEF ClassesWhole, ClassesStay, Writable
<1>8. MapReaches'
    BY <1>1, <1>2, <1>3, <1>4, <1>5 DEF ClassInv, MapReaches
<1>9. ReadOnlyMarked'
    BY <1>1, <1>3, <1>4, <1>5, <1>6 DEF ClassInv, ReadOnlyMarked
<1> QED BY <1>7, <1>8, <1>9 DEF ClassInv

LEMMA MergeIntoKeeps ==
    ASSUME ClassInv, NEW dst \in DOMAIN ec, NEW src \in DOMAIN ec, dst # src,
           MergeInto(dst, src), UNCHANGED project
    PROVE  ClassInv'
<1> DEFINE more == ec[src].members
           attr == ec[dst].attr \cup ec[src].attr \cup Inherent(more, FALSE)
<1>1. /\ DOMAIN tm' = DOMAIN tm \cup more
      /\ \A t \in DOMAIN tm' : tm'[t] = IF t \in more THEN dst ELSE tm[t]
    BY DEF MergeInto, Mapped
<1>2. /\ DOMAIN ec' = DOMAIN ec \ {src}
      /\ ec'[dst] = [len |-> ec[dst].len, members |-> ec[dst].members \cup more, attr |-> attr]
      /\ \A x \in DOMAIN ec \ {src, dst} : ec'[x] = ec[x]
    BY DEF MergeInto
<1>3. \A t \in more : t[1] \in ReadOnly => "is_readonly" \in attr
    BY DEF Inherent
<1>4. \A t \in ec[dst].members : t[1] \in ReadOnly => "is_readonly" \in attr
    BY DEF ClassInv, ReadOnlyMarked
<1> HIDE DEF attr
<1>5. /\ DOMAIN ec'[dst] = {"len", "members", "attr"}
      /\ ec'[dst].members = ec[dst].members \cup more /\ ec'[dst].attr = attr
    BY <1>2
<1>6. ClassesWhole'
    BY <1>2, <1>5 DEF ClassInv, ClassesWhole
<1>7. ReadOnlyMarked'
    BY <1>2, <1>3, <1>4, <1>5 DEF ClassInv, ReadOnlyMarked
<1>8. MapReaches'
    BY <1>1, <1>2, <1>5 DEF ClassInv, MapReaches
<1> QED BY <1>6, <1>7, <1>8 DEF ClassInv

LEMMA ReadKeeps ==
    ASSUME ClassInv, NEW x \in Lexeme, Read(x, FALSE)
    PROVE  ClassInv' /\ ClassesStay
<1> DEFINE done    == Covered(x.tokid, x.len)
           start   == Advance(x.tokid, done)
           classes == ClassesIn(x.tokid, done)
           touched == Marked(classes, {project})
           new     == [len |-> x.len - done, members |-> {start}, attr |-> Inherent({start}, FALSE)]
<1>1. /\ DOMAIN touched = DOMAIN ec
      /\ \A e \in DOMAIN ec :
            /\ DOMAIN touched[e] = DOMAIN ec[e]
            /\ touched[e].members = ec[e].members
            /\ \A a : a = "is_readonly" => (a \in touched[e].attr <=> a \in ec[e].attr)
  <2> HIDE DEF classes
  <2>1. \A e \in DOMAIN ec : touched[e] \in {ec[e], [ec[e] EXCEPT !.attr = @ \cup {project}]}
      BY DEF Marked
  <2>2. DOMAIN touched = DOMAIN ec
      BY DEF Marked
  <2>3. \A e \in DOMAIN ec : /\ DOMAIN ec[e] = {"len", "members", "attr"}
                             /\ project # "is_readonly"
      BY EClassAssumption DEF ClassInv, ClassesWhole
  <2> HIDE DEF touched
  <2> QED BY <2>1, <2>2, <2>3
<1> HIDE DEF touched
<1>2. CASE done = x.len
    BY <1>1, <1>2, AttributesGrow DEF Read, touched
<1>3. CASE done # x.len
  <2>1. UNCHANGED project /\ tm' = Mapped({start}, Fresh)
        /\ Fresh \notin DOMAIN ec
      BY <1>3, FreshIsNew DEF Read
  <2>2. ec' = [e \in DOMAIN ec \cup {Fresh} |-> IF e = Fresh THEN new ELSE touched[e]]
      BY <1>3 DEF Read, touched
  <2>3. /\ DOMAIN new = {"len", "members", "attr"} /\ new.members = {start}
        /\ start[1] \in ReadOnly => "is_readonly" \in new.attr
    <3>1. start[1] \in ReadOnly => "is_readonly" \in Inherent({start}, FALSE)
        BY DEF Inherent
    <3> HIDE DEF start, done
    <3> QED BY <3>1
  <2> HIDE DEF new, start
  <2>4. /\ DOMAIN tm' = DOMAIN tm \cup {start}
        /\ \A t \in DOMAIN tm' : tm'[t] = IF t = start THEN Fresh ELSE tm[t]
      BY <2>1 DEF Mapped
  <2>5. /\ DOMAIN ec' = DOMAIN ec \cup {Fresh} /\ ec'[Fresh] = new
        /\ \A e \in DOMAIN ec : ec'[e] = touched[e]
      BY <2>1, <2>2
  <2>6. ClassesWhole' /\ ClassesStay
      BY <1>1, <2>3, <2>5 DEF ClassInv, ClassesWhole, ClassesStay, Writable
  <2>7. MapReaches'
    <3>1. \A e \in DOMAIN ec : e # Fresh /\ ec'[e].members = ec[e].members
        BY <1>1, <2>1, <2>5
    <3>2. \A t \in DOMAIN tm : tm[t] \in DOMAIN ec /\ t \in ec[tm[t]].members
        BY DEF ClassInv, MapReaches
    <3> SUFFICES ASSUME NEW t \in DOMAIN tm'
                 PROVE  tm'[t] \in DOMAIN ec' /\ t \in ec'[tm'[t]].members
        BY DEF MapReaches
    <3>3. CASE t = start
        BY <2>3, <2>4, <2>5, <3>3
    <3>4. CASE t # start
      <4>1. tm'[t] = tm[t] /\ t \in DOMAIN tm
          BY <2>4, <3>4
      <4> QED BY <2>5, <3>1, <3>2, <4>1
    <3> QED BY <3>3, <3>4
  <2>8. ReadOnlyMarked'
      BY <1>1, <2>3, <2>5 DEF ClassInv, ReadOnlyMarked
  <2> QED BY <2>1, <2>6, <2>7, <2>8 DEF ClassInv
<1> QED BY <1>2, <1>3

-----------------------------------------------------------------------------
(* The text of what is not renamed                                         *)

\* Sequences with the same elements
LEMMA SameSequence ==
    ASSUME NEW S, NEW s \in Seq(S), NEW t \in Seq(S), Len(s) = Len(t),
           \A i \in 1 .. Len(s) : s[i] = t[i]
    PROVE  s = t
OBVIOUS

\* By position, what follows it of a text of n characters.
RestOf(char, n) == [k \in 0 .. n |-> [i \in 1 .. n - k |-> char[k + i - 1]]]

LEMMA RestStep ==
    ASSUME NEW n \in Nat, NEW S, NEW char \in [0 .. n -> S], NEW k \in 0 .. n - 1
    PROVE  RestOf(char, n)[k] = <<char[k]>> \o RestOf(char, n)[k + 1]
<1> DEFINE tail == [i \in 1 .. n - (k + 1) |-> char[k + 1 + i - 1]]
           whole == [i \in 1 .. n - k |-> char[k + i - 1]]
<1>1. RestOf(char, n)[k] = whole /\ RestOf(char, n)[k + 1] = tail
    BY DEF RestOf
<1>2. tail \in Seq(S) /\ Len(tail) = n - (k + 1)
    <2>1. n - (k + 1) \in Nat
        OBVIOUS
    <2>2. \A i \in 1 .. n - (k + 1) : char[k + 1 + i - 1] \in S
        OBVIOUS
    <2> QED BY <2>1, <2>2
<1>3. whole \in Seq(S) /\ Len(whole) = n - k
    <2>1. n - k \in Nat
        OBVIOUS
    <2>2. \A i \in 1 .. n - k : char[k + i - 1] \in S
        OBVIOUS
    <2> QED BY <2>1, <2>2
<1>4. <<char[k]>> \in Seq(S) /\ Len(<<char[k]>>) = 1 /\ <<char[k]>>[1] = char[k]
    OBVIOUS
<1>5. \A i \in 1 .. n - (k + 1) : tail[i] = char[k + i]
    OBVIOUS
<1>6. \A i \in 1 .. n - k : whole[i] = char[k + i - 1]
    OBVIOUS
<1> HIDE DEF tail, whole
<1> DEFINE head == <<char[k]>>
<1>7. head \o tail \in Seq(S) /\ Len(head \o tail) = n - k
    <2> HIDE DEF head
    <2> QED BY <1>2, <1>4 DEF head
<1>8. ASSUME NEW i \in 1 .. n - k PROVE (head \o tail)[i] = whole[i]
  <2>1. CASE i = 1
     BY <2>1, <1>2, <1>4, <1>6
  <2>2. CASE i # 1
     <3>1. i - 1 \in 1 .. Len(tail) /\ i = Len(head) + (i - 1)
        BY <1>2, <1>4, <2>2
     <3>2. (head \o tail)[i] = tail[i - 1]
        BY <1>2, <1>4, <2>2
     <3> QED BY <3>1, <3>2, <1>2, <1>5, <1>6
  <2> QED BY <2>1, <2>2
<1>9. head \o tail = whole
  <2> DEFINE both == head \o tail
  <2>1. both \in Seq(S) /\ Len(both) = n - k /\ \A i \in 1 .. n - k : both[i] = whole[i]
      BY <1>7, <1>8
  <2> HIDE DEF both
  <2>2. both = whole
      BY <1>3, <2>1, SameSequence
  <2> QED BY <2>2 DEF both
<1> QED BY <1>1, <1>9

LEMMA RestRecursion ==
    ASSUME NEW n \in Nat, NEW S, NEW char \in [0 .. n -> S]
    PROVE  RestOf(char, n) = [k \in 0 .. n |-> IF k = n THEN <<>>
                                  ELSE <<char[k]>> \o RestOf(char, n)[k + 1]]
<1>1. RestOf(char, n) = [k \in 0 .. n |-> RestOf(char, n)[k]]
    BY DEF RestOf
<1>2. RestOf(char, n)[n] = <<>>
    BY DEF RestOf
<1>3. \A k \in 0 .. n : k # n => RestOf(char, n)[k] = <<char[k]>> \o RestOf(char, n)[k + 1]
  <2> SUFFICES ASSUME NEW k \in 0 .. n - 1
               PROVE  RestOf(char, n)[k] = <<char[k]>> \o RestOf(char, n)[k + 1]
      OBVIOUS
  <2> QED BY RestStep
<1> QED BY <1>1, <1>2, <1>3

\* The last pieces of the text are the same, and so is every earlier one.
LEMMA OnlyRest ==
    ASSUME NEW n \in Nat, NEW S, NEW char \in [0 .. n -> S], NEW part,
           \A k \in 0 .. n : part[k] = IF k = n THEN <<>> ELSE <<char[k]>> \o part[k + 1]
    PROVE  part[0] = RestOf(char, n)[0]
<1> DEFINE rest == RestOf(char, n)
           Wrong == {j \in 0 .. n : part[n - j] # rest[n - j]}
<1> SUFFICES ASSUME part[0] # rest[0] PROVE FALSE
    OBVIOUS
<1>1. n \in Wrong /\ Wrong \in SUBSET Nat
    OBVIOUS
<1>2. PICK m \in Wrong : \A j \in Wrong : m <= j
    BY <1>1, LeastNaturalExists
<1>3. part[n] = <<>> /\ rest[n] = <<>>
  <2>1. n \in 0 .. n
      OBVIOUS
  <2>2. part[n] = <<>>
      BY <2>1
  <2>3. rest[n] = [i \in 1 .. n - n |-> char[n + i - 1]]
      BY <2>1 DEF RestOf
  <2> QED BY <2>2, <2>3
<1>4. m \in 1 .. n /\ m - 1 \in 0 .. n /\ m - 1 \notin Wrong
    BY <1>1, <1>2, <1>3
<1>5. part[n - (m - 1)] = rest[n - (m - 1)]
    BY <1>4
<1>6. n - m \in 0 .. n - 1 /\ n - (m - 1) = (n - m) + 1
    BY <1>4
<1>7. rest[n - m] = <<char[n - m]>> \o rest[(n - m) + 1]
    BY <1>6, RestStep
<1>8. part[n - m] = <<char[n - m]>> \o part[(n - m) + 1]
  <2>1. n - m \in 0 .. n /\ n - m # n
      BY <1>6
  <2> QED BY <2>1
<1> QED BY <1>2, <1>5, <1>6, <1>7, <1>8

\* get_refactored_part copies a lexeme in which no class is replaced.
LEMMA UnreplacedIsCopied ==
    ASSUME NEW x \in Lexeme,
           \A k \in 0 .. x.len - 1 :
              LET t == Advance(x.tokid, k)
              IN  ~(t \in DOMAIN tm /\ IsIdentifier(tm[t]) /\ Replaced(tm[t]))
    PROVE  Rewritten(x) = Original(x)
<1> DEFINE n == x.len
           at(k) == Spelling[Advance(x.tokid, k)]
           char == [k \in 0 .. n |-> at(k)]
           S == {at(k) : k \in 0 .. n}
           step(part, k) ==
                IF k = x.len THEN <<>> ELSE
                LET t == Advance(x.tokid, k)
                IN  IF t \in DOMAIN tm /\ IsIdentifier(tm[t]) /\ Replaced(tm[t])
                    THEN ids[tm[t]].newid \o part[k + RunLen(t)]
                    ELSE <<Spelling[t]>> \o part[k + 1]
           Solves(part) == part = [k \in 0 .. x.len |-> step(part, k)]
           part0 == CHOOSE part : Solves(part)
           Copies(part) == \A k \in 0 .. n :
                part[k] = IF k = n THEN <<>> ELSE <<char[k]>> \o part[k + 1]
<1>1. n \in Nat
    BY EClassAssumption
<1>2. Rewritten(x) = part0[0]
    BY DEF Rewritten
<1>3. \A part, k : k \in 0 .. n => step(part, k) = IF k = n THEN <<>> ELSE <<char[k]>> \o part[k + 1]
    BY <1>1
<1>4. char \in [0 .. n -> S]
    OBVIOUS
<1>5. Original(x) = RestOf(char, n)[0]
  <2>1. RestOf(char, n)[0] = [i \in 1 .. n - 0 |-> char[0 + i - 1]]
      BY <1>1 DEF RestOf
  <2>2. n - 0 = n /\ \A i \in 1 .. n : char[0 + i - 1] = at(i - 1)
      BY <1>1
  <2> QED BY <2>1, <2>2 DEF Original
<1> HIDE DEF char, S, step
<1> DEFINE rest == RestOf(char, n)
<1>6. Solves(rest)
  <2>1. rest = [k \in 0 .. n |-> IF k = n THEN <<>> ELSE <<char[k]>> \o rest[k + 1]]
      BY <1>1, <1>4, RestRecursion
  <2>2. \A k \in 0 .. n : step(rest, k) = IF k = n THEN <<>> ELSE <<char[k]>> \o rest[k + 1]
      BY <1>3
  <2> HIDE DEF rest
  <2>3. [k \in 0 .. n |-> step(rest, k)]
            = [k \in 0 .. n |-> IF k = n THEN <<>> ELSE <<char[k]>> \o rest[k + 1]]
      BY <2>2
  <2> QED BY <2>1, <2>3
<1>7. Solves(part0)
    <2> HIDE DEF Solves, rest
    <2>1. Solves(rest)
        BY <1>6
    <2> QED BY <2>1
<1> HIDE DEF part0
<1>8. Copies(part0)
    BY <1>3, <1>7
<1>9. part0[0] = RestOf(char, n)[0]
    <2> HIDE DEF n
    <2> QED BY <1>1, <1>4, <1>8, OnlyRest
<1> QED BY <1>2, <1>5, <1>9

-----------------------------------------------------------------------------
(* The steps                                                               *)

LEMMA RInvInit == RInit => RInv
<1> SUFFICES ASSUME RInit PROVE RInv
    OBVIOUS
<1>1. ClassInv
    BY DEF RInit, Init, ClassInv, ClassesWhole, MapReaches, ReadOnlyMarked
<1>2. IdsInv
    BY DEF RInit, IdsInv, IdsAreLive, ReplacedWithReason, FormsOffered
<1>3. TextInv
    BY DEF RInit, TextInv, TextOriginal, OriginalText
<1>4. ReadOnlyUntouched
    BY <1>3 DEF RInit, TextInv, TextOriginal, ReadOnlyUntouched
<1> QED BY <1>1, <1>2, <1>3, <1>4 DEF RInv, RInit

\* The texts of a workspace are those it was made with.
LEMMA TextsStay ==
    ASSUME UNCHANGED workspace
    PROVE  /\ Lexemes' = Lexemes
           /\ \A x : Original(x)' = Original(x)
           /\ TextOriginal /\ text' = text => TextOriginal' /\ ReadOnlyUntouched'
<1>1. Lexemes' = Lexemes
    BY DEF Lexemes, Program
<1>2. \A x : Original(x)' = Original(x)
    BY DEF Original, Spelling
<1>3. TextOriginal /\ text' = text => TextOriginal'
    BY <1>1, <1>2 DEF TextOriginal
<1>4. TextOriginal' => ReadOnlyUntouched'
    BY DEF TextOriginal, ReadOnlyUntouched
<1> QED BY <1>1, <1>2, <1>3, <1>4

\* What is left of a step before the end of a session that leaves the table of
\* identifiers, the forms and the text
LEMMA SessionSame ==
    ASSUME RInv, UNCHANGED <<workspace, ids, forms, text>>,
           options' \in workspace.options, phase # "saved", phase' # "saved",
           phase' # "parse" \/ phase = "parse",
           phase' \notin {"parse", "check"} => unify'.pc = "idle",
           pos' \in Nat \ {0}, ClassInv', phase = "parse" \/ ClassesStay
    PROVE  RInv'
<1>1. IdsInv'
    BY DEF RInv, IdsInv, IdsAreLive, ReplacedWithReason, ReadOnlyIdentifier, Permitted,
           FormsOffered, ClassesStay, Writable
<1>2. TextInv' /\ ReadOnlyUntouched'
    BY TextsStay DEF RInv, TextInv
<1> QED BY <1>1, <1>2 DEF RInv

\* What a pass reads are lexemes of the workspace.
LEMMA EventOK ==
    ASSUME RInv
    PROVE  /\ \A i \in DOMAIN Program : Program[i].op = "read" => Program[i].x \in Lexeme
           /\ pos <= Len(Program) => pos \in DOMAIN Program
<1>1. WorkspaceOK(workspace)
    BY RenameAssumption DEF RInv
<1>2. DOMAIN Program = 1 .. Len(Program) /\ Len(Program) \in Nat
  <2>1. PICK S : Program \in Seq(S)
      BY <1>1 DEF WorkspaceOK, Program
  <2> QED BY <2>1
<1>3. \A i \in DOMAIN Program : Program[i].op = "read" => Program[i].x \in Lexeme
    BY <1>1 DEF WorkspaceOK, Program
<1>4. pos \in Nat \ {0}
    BY DEF RInv
<1> QED BY <1>2, <1>3, <1>4

LEMMA EventKeeps ==
    ASSUME RInv, Event, UNCHANGED workspace
    PROVE  RInv'
<1>n. NextEvent
    BY DEF Event, ReadLexeme, ClearDefines, Define, IfDef, Enter, Exit, Expand,
           DefineGlobal, DefineStatic, DefineLocal, Use
<1>p. pos' \in Nat \ {0} /\ UNCHANGED <<options, ids, forms, text, phase>>
    BY <1>n DEF RInv, NextEvent, session
<1>q. phase \in {"parse", "check"}
    BY DEF Event, ReadLexeme, ClearDefines, Define, IfDef, Enter, Exit, Expand,
           DefineGlobal, DefineStatic, DefineLocal, Use, At, Passing
<1> SUFFICES ClassInv' /\ ClassesStay
    BY <1>p, <1>q, SessionSame DEF RInv
<1>1. CASE ReadLexeme
  <2>1. Program[pos].x \in Lexeme
      BY <1>1, EventOK DEF ReadLexeme, At
  <2> QED BY <1>1, <2>1, ReadKeeps DEF ReadLexeme, RInv
<1>2. CASE ClearDefines \/ Enter \/ Exit
    BY <1>2, ClassesSame DEF ClearDefines, Enter, Exit, RInv, vars
<1>3. CASE Define
    BY <1>3, MarkAndUnifyKeeps DEF Define, RInv
<1>4. CASE IfDef
    BY <1>4, MarkAndUnifyKeeps DEF IfDef, RInv
<1>5. CASE Expand
    BY <1>5, MarkAndUnifyKeeps DEF Expand, RInv
<1>6. CASE DefineGlobal
    BY <1>6, MarkAndUnifyKeeps DEF DefineGlobal, RInv
<1>7. CASE DefineStatic
    BY <1>7, MarkAndUnifyKeeps DEF DefineStatic, RInv
<1>8. CASE DefineLocal
    BY <1>8, MarkAndUnifyKeeps DEF DefineLocal, RInv
<1>9. CASE Use
    BY <1>9, MarkAndUnifyKeeps DEF Use, RInv
<1> QED BY <1>1, <1>2, <1>3, <1>4, <1>5, <1>6, <1>7, <1>8, <1>9 DEF Event

LEMMA UnifyKeeps ==
    ASSUME RInv, Unify, UNCHANGED workspace
    PROVE  RInv'
<1>p. phase \in {"parse", "check"}
    BY DEF RInv, TextInv, Unify, HomogenizeStep, HomogenizeSplit, HomogenizeEqual,
           HomogenizeEnd, MergePair, ComparePair, UnifyEnd
<1> SUFFICES ClassInv' /\ (phase = "parse" \/ ClassesStay)
    BY <1>p, SessionSame DEF RInv, Unify, session
<1>1. ASSUME NEW long, NEW short,
             <<long, short>> \in {<<NextA, NextB>>, <<NextB, NextA>>},
             HomogenizeSplit(long, short)
      PROVE  ClassInv' /\ ClassesStay
  <2>1. long \in DOMAIN tm
      BY <1>1 DEF HomogenizeSplit, ClassesFound
  <2> QED BY <1>1, <2>1, SplitKeeps DEF HomogenizeSplit, RInv
<1>2. CASE HomogenizeEqual \/ HomogenizeEnd \/ UnifyEnd \/ ComparePair
    BY <1>2, ClassesSame DEF HomogenizeEqual, HomogenizeEnd, UnifyEnd, ComparePair, RInv
<1>3. CASE phase = "parse" /\ MergePair
  <2>1. tm[NextA] \in DOMAIN ec /\ tm[NextB] \in DOMAIN ec
      BY <1>3 DEF MergePair, ClassesFound, RInv, ClassInv, MapReaches
  <2>2. UNCHANGED project /\ Merge(tm[NextA], tm[NextB])
      BY <1>3 DEF MergePair
  <2>3. ClassInv'
      BY <2>1, <2>2, MergeIntoKeeps, ClassesSame DEF Merge, RInv
  <2> QED BY <1>3, <2>3
<1> QED BY <1>1, <1>2, <1>3 DEF Unify, HomogenizeStep

LEMMA AnalyzeKeeps ==
    ASSUME RInv, Analyze, UNCHANGED workspace
    PROVE  RInv'
<1>1. /\ DOMAIN ec' = Identifiers /\ \A e \in Identifiers : ec'[e] = ec[e]
      /\ DOMAIN tm' = {s \in DOMAIN tm : tm[s] \in Identifiers}
      /\ \A t \in DOMAIN tm' : tm'[t] = tm[t]
      /\ Identifiers \subseteq DOMAIN ec /\ UNCHANGED project
    BY DEF Analyze, Identifiers
<1>2. ClassInv'
    BY <1>1 DEF RInv, ClassInv, ClassesWhole, MapReaches, ReadOnlyMarked
<1>3. /\ DOMAIN ids' = Identifiers
      /\ \A e \in DOMAIN ids' : "replaced" \in DOMAIN ids'[e] /\ ids'[e].replaced = FALSE
    BY DEF Analyze
<1>4. IdsInv'
    BY <1>1, <1>3 DEF Analyze, RInv, IdsInv, IdsAreLive, ReplacedWithReason, FormsOffered
<1>5. UNCHANGED <<options, text, workspace, pos>>
    BY DEF Analyze
<1>6. TextInv' /\ ReadOnlyUntouched'
    BY <1>5, TextsStay DEF RInv, TextInv, Analyze, PassDone
<1> QED BY <1>2, <1>4, <1>5, <1>6 DEF RInv

\* The form of a read-only identifier is only there for those who set the
\* override; a replacement that was made may be changed and switched.
LEMMA PagesKeep ==
    ASSUME RInv, UNCHANGED workspace, NEW e \in DOMAIN ids,
           \/ IdentifierPage(e)
           \/ \E n \in NewName : SetNewId(e, n)
           \/ \E on \in BOOLEAN : SetActive(e, on)
    PROVE  RInv'
<1>1. /\ UNCHANGED <<tm, ec, project, unify, text, pos>>
      /\ phase = "serve" /\ phase' = "serve" /\ options' \in workspace.options
    BY DEF IdentifierPage, SetNewId, SetActive, vars, RInv
<1>2. /\ DOMAIN ids' = DOMAIN ids
      /\ \A x \in DOMAIN ids : "replaced" \in DOMAIN ids'[x]
      /\ \A x \in DOMAIN ids \ {e} : ids'[x] = ids[x]
      /\ \/ ids'[e].replaced => ids[e].replaced
         \/ ~ReadOnlyIdentifier(e) \/ \E f \in forms : f.class = e
    BY DEF IdentifierPage, SetNewId, SetActive, RInv, IdsInv
<1>3. FormsOffered' /\ forms \subseteq forms'
  <2>1. CASE IdentifierPage(e)
    <3>1. WorkspaceOK(workspace)
        BY RenameAssumption DEF RInv
    <3>2. options.override = TRUE
        BY <2>1, <3>1 DEF IdentifierPage, WorkspaceOK, RInv
    <3> QED BY <2>1, <3>2 DEF IdentifierPage, RInv, IdsInv, FormsOffered
  <2>2. CASE forms' = forms
      BY <2>2 DEF RInv, IdsInv, FormsOffered
  <2> QED BY <2>1, <2>2 DEF SetNewId, SetActive
<1>4. ClassInv'
    BY <1>1, ClassesSame DEF RInv
<1>5. ReplacedWithReason'
  <2>1. \A x : ReadOnlyIdentifier(x)' = ReadOnlyIdentifier(x) /\ (Permitted(x) => Permitted(x)')
      BY <1>1, <1>3 DEF ReadOnlyIdentifier, Permitted
  <2>2. (\E f \in forms : f.class = e) => Permitted(e)
      BY DEF RInv, IdsInv, FormsOffered, Permitted
  <2> QED BY <1>2, <2>1, <2>2 DEF RInv, IdsInv, ReplacedWithReason
<1>6. IdsInv'
    BY <1>1, <1>2, <1>3, <1>5 DEF RInv, IdsInv, IdsAreLive
<1>7. TextInv' /\ ReadOnlyUntouched'
    BY <1>1, TextsStay DEF RInv, TextInv
<1> QED BY <1>1, <1>4, <1>6, <1>7 DEF RInv

LEMMA SaveKeeps ==
    ASSUME RInv, Save, UNCHANGED workspace
    PROVE  RInv'
<1>1. /\ UNCHANGED <<tm, ec, project, unify, ids, forms, options, pos>>
      /\ phase' = "saved" /\ text' = [x \in Lexemes |-> Rewritten(x)]
    BY DEF Save, vars
<1>2. ClassInv'
    BY <1>1, ClassesSame DEF RInv
<1>3. IdsInv'
    BY <1>1 DEF RInv, IdsInv, IdsAreLive, ReplacedWithReason, ReadOnlyIdentifier, Permitted,
                FormsOffered
<1>4. Lexemes \subseteq Lexeme
    BY EventOK DEF Lexemes
<1>5. ASSUME NEW x \in Lexemes, x.tokid[1] \in ReadOnly, ~RenamedByOverride(x)
      PROVE  Rewritten(x) = Original(x)
  <2> SUFFICES ASSUME NEW k \in 0 .. x.len - 1,
                      Advance(x.tokid, k) \in DOMAIN tm, Replaced(tm[Advance(x.tokid, k)])
               PROVE  FALSE
      BY <1>4, UnreplacedIsCopied
  <2>1. Advance(x.tokid, k)[1] \in ReadOnly
      BY <1>5 DEF Advance
  <2>2. ReadOnlyIdentifier(tm[Advance(x.tokid, k)])
      BY <2>1 DEF RInv, ClassInv, MapReaches, ReadOnlyMarked, ReadOnlyIdentifier
  <2>3. Permitted(tm[Advance(x.tokid, k)])
      BY <2>2 DEF Replaced, RInv, IdsInv, ReplacedWithReason
  <2> QED BY <1>5, <2>3 DEF Permitted, RenamedByOverride
<1>6. \A x : RenamedByOverride(x)' = RenamedByOverride(x)
    BY <1>1 DEF RenamedByOverride, Replaced
<1>7. ReadOnlyUntouched'
    BY <1>1, <1>5, <1>6, TextsStay DEF ReadOnlyUntouched
<1>8. TextInv'
    BY <1>1 DEF RInv, TextInv, Save, PassDone
<1> QED BY <1>1, <1>2, <1>3, <1>7, <1>8 DEF RInv

LEMMA RInvStep ==
    ASSUME RInv, [RNext /\ UNCHANGED workspace]_rvars
    PROVE  RInv'
<1>w. UNCHANGED workspace
    BY DEF rvars
<1>1. CASE UNCHANGED rvars
  <2>1. /\ UNCHANGED <<tm, ec, project, unify, workspace, options, phase, pos>>
        /\ UNCHANGED <<ids, forms, text>>
      BY <1>1 DEF rvars, vars, session
  <2>2. CASE phase # "saved"
      BY <2>1, <2>2, ClassesSame, SessionSame DEF RInv, TextInv
  <2>3. CASE phase = "saved"
    <3>1. ClassInv'
        BY <2>1, ClassesSame DEF RInv
    <3>2. IdsInv' /\ TextInv'
        BY <2>1, <2>3 DEF RInv, IdsInv, IdsAreLive, ReplacedWithReason, ReadOnlyIdentifier,
                          Permitted, FormsOffered, TextInv
    <3>3. \A x : RenamedByOverride(x)' = RenamedByOverride(x)
        BY <2>1 DEF RenamedByOverride, Replaced
    <3>4. ReadOnlyUntouched'
        BY <2>1, <3>3, TextsStay DEF RInv, ReadOnlyUntouched
    <3> QED BY <2>1, <3>1, <3>2, <3>4 DEF RInv
  <2> QED BY <2>2, <2>3
<1>2. CASE SaveRequest \/ Refuse
  <2>1. /\ UNCHANGED <<tm, ec, project, unify, options, ids, forms, text>>
        /\ phase # "saved" /\ phase' \in {"serve", "check", "write"}
      BY <1>2 DEF SaveRequest, Refuse, vars, session
  <2>2. pos' = 1 \/ pos' = pos
      BY <1>2 DEF SaveRequest, Refuse
  <2>3. unify.pc = "idle"
      BY <1>2 DEF SaveRequest, Refuse, PassDone, RInv, TextInv
  <2> QED BY <1>w, <2>1, <2>2, <2>3, ClassesSame, SessionSame DEF RInv
<1>3. CASE \E o \in workspace.options : SetOptions(o)
  <2>1. /\ UNCHANGED <<tm, ec, project, unify, ids, forms, text, phase, pos>>
        /\ phase = "serve" /\ options' \in workspace.options
      BY <1>3 DEF SetOptions, vars
  <2> QED BY <1>w, <2>1, ClassesSame, SessionSame DEF RInv, TextInv
<1> QED BY <1>w, <1>1, <1>2, <1>3, EventKeeps, UnifyKeeps, AnalyzeKeeps, PagesKeep, SaveKeeps
        DEF RNext

LEMMA RInvAlways == RSpec => []RInv
BY RInvInit, RInvStep, PTL DEF RSpec

\* In any program and session, text of a read-only file is rewritten only where
\* an identifier of it was renamed by a form offered under rename_override_ro,
\* although its identifiers share classes with those of writable files, which are
\* split and merged in both passes, and no handler looks at the mark.
THEOREM ReadOnlyStays == RSpec => []ReadOnlyUntouched
<1>1. RInv => ReadOnlyUntouched
    BY DEF RInv
<1> QED BY <1>1, RInvAlways, PTL

\* The table of identifiers never leads to a class that is gone: only the first
\* pass merges and deletes, and the table is made after it.
THEOREM IdsStayLive == RSpec => []IdsAreLive
<1>1. RInv => IdsAreLive
    BY DEF RInv, IdsInv
<1> QED BY <1>1, RInvAlways, PTL

=============================================================================

------------------------- MODULE ConditionalsProofs -------------------------
(***************************************************************************)
(* Proofs about Conditionals: for any nesting and any conditions the stack *)
(* of bits and the counter skip exactly what C skips.  Proofs about        *)
(* Metrics: for any text, nesting and macros what a file or a function has *)
(* counted is what was read of it, once, and reading follows Conditionals. *)
(***************************************************************************)
EXTENDS Metrics, SequenceTheorems, FiniteSetTheorems, TLAPS

\* What removing the last element of a stack does.
LEMMA PopFacts ==
    ASSUME NEW S, NEW s \in Seq(S), Len(s) > 0
    PROVE  /\ Pop(s) \in Seq(S)
           /\ Len(Pop(s)) = Len(s) - 1
           /\ \A i \in 1 .. Len(s) - 1 : Pop(s)[i] = s[i]
<1> DEFINE n == Len(s) - 1
<1>1. n \in Int /\ n >= 0 /\ 1 \in Int
  OBVIOUS
<1>2. \A i \in 1 .. n : s[i] \in S
  OBVIOUS
<1>. HIDE DEF n
<1>3. /\ SubSeq(s, 1, n) \in Seq(S)
      /\ Len(SubSeq(s, 1, n)) = IF 1 <= n THEN n - 1 + 1 ELSE 0
      /\ \A i \in 1 .. n - 1 + 1 : SubSeq(s, 1, n)[i] = s[1 + i - 1]
  BY <1>1, <1>2, SubSeqProperties
<1>4. /\ SubSeq(s, 1, n) \in Seq(S)
      /\ Len(SubSeq(s, 1, n)) = n
      /\ \A i \in 1 .. n : SubSeq(s, 1, n)[i] = s[i]
  BY <1>1, <1>3
<1>. QED BY <1>4 DEF Pop, n

\* What replacing the last element of a stack does.
LEMMA RetopFacts ==
    ASSUME NEW S, NEW s \in Seq(S), Len(s) > 0, NEW v \in S
    PROVE  /\ Retop(s, v) \in Seq(S)
           /\ Len(Retop(s, v)) = Len(s)
           /\ \A i \in 1 .. Len(s) - 1 : Retop(s, v)[i] = s[i]
           /\ Retop(s, v)[Len(s)] = v
BY DEF Retop

\* What adding an element does.
LEMMA AppendFacts ==
    ASSUME NEW S, NEW s \in Seq(S), NEW v \in S
    PROVE  /\ Append(s, v) \in Seq(S)
           /\ Len(Append(s, v)) = Len(s) + 1
           /\ \A i \in 1 .. Len(s) : Append(s, v)[i] = s[i]
           /\ Append(s, v)[Len(s) + 1] = v
OBVIOUS

\* The invariant says that text is processed exactly when it should be.
LEMMA AgreeImpliesFaithful == Agree => SkipsWhatCSkips
BY DEF Agree, SkipsWhatCSkips, Processing, TakenIfs, TypeOK, OuterOn, InnerOn, CountedOff, Group

\* The invariant says what the counter counts.
LEMMA AgreeImpliesCounts == Agree => SkipLevelCounts
BY DEF Agree, SkipLevelCounts, TakenIfs, TypeOK, OuterOn, InnerOn, CountedOff, Group

\* #if, #ifdef and #ifndef preserve the invariant.
LEMMA IfAgree == ASSUME Agree, NEW res \in BOOLEAN, If(res) PROVE Agree'
<1> DEFINE g == [on |-> Processing /\ res, taken |-> ~Processing \/ res, last |-> FALSE]
<1>1. TypeOK /\ TakenIfs /\ (Processing <=> skiplevel = 0) /\ Processing \in BOOLEAN
  BY AgreeImpliesFaithful DEF Agree, SkipsWhatCSkips, Processing
<1>2. g \in Group
  BY <1>1 DEF Group
<1>3. /\ groups' \in Seq(Group)
      /\ Len(groups') = Len(groups) + 1
      /\ \A i \in 1 .. Len(groups) : groups'[i] = groups[i]
      /\ groups'[Len(groups) + 1] = g
  BY <1>1, <1>2, AppendFacts DEF If, OpenGroup, TypeOK
<1>4. unit' = unit /\ units' = units /\ ignored' = ignored /\ unit
  BY DEF If, progress
<1>5. CASE skiplevel # 0
  <2>1. iftaken' = iftaken /\ skiplevel' = skiplevel + 1 /\ skiplevel > 0
    BY <1>1, <1>5 DEF If, TypeOK
  <2>2. g.on = FALSE /\ g.taken = TRUE
    BY <1>1, <1>5
  <2>7. /\ Len(groups) \in Nat /\ Len(iftaken) \in Nat /\ skiplevel \in Nat
        /\ Len(iftaken) = Len(groups) - (skiplevel - 1)
        /\ Len(iftaken) > 0
    BY <1>1, <2>1 DEF TakenIfs, TypeOK, Agree
  <2>3. TypeOK'
    BY <1>1, <1>3, <1>4, <2>1 DEF TypeOK
  <2>4. TakenIfs'
    <3>1. Len(iftaken') = Len(groups') - (IF skiplevel' > 0 THEN skiplevel' - 1 ELSE 0)
      BY <1>3, <2>1, <2>7
    <3>2. ASSUME NEW i \in 1 .. Len(iftaken')
          PROVE  groups'[i].last \/ iftaken'[i] = groups'[i].taken
      BY <1>1, <1>3, <2>1, <2>7 DEF TakenIfs
    <3>. QED BY <3>1, <3>2 DEF TakenIfs
  <2>5. CountedOff'
    <3>. SUFFICES ASSUME NEW i \in Len(iftaken) + 1 .. Len(groups) + 1
                  PROVE  ~groups'[i].on /\ groups'[i].taken
      BY <1>3, <2>1, <2>7 DEF CountedOff
    <3>1. CASE i = Len(groups) + 1
      BY <3>1, <1>3, <2>2
    <3>2. CASE i # Len(groups) + 1
      BY <3>2, <1>3, <2>7 DEF Agree, CountedOff
    <3>. QED BY <3>1, <3>2
  <2>6. OuterOn' /\ InnerOn' /\ OnIsTaken'
    <3>1. OuterOn'
      BY <1>3, <2>1, <2>7 DEF Agree, OuterOn
    <3>2. InnerOn'
      BY <1>3, <2>1, <2>7 DEF Agree, InnerOn
    <3>3. OnIsTaken'
      BY <1>3, <2>2, <2>7 DEF Agree, OnIsTaken
    <3>. QED BY <3>1, <3>2, <3>3
  <2>. QED
    BY <1>1, <1>4, <2>1, <2>3, <2>4, <2>5, <2>6 DEF Agree, TypeOK
<1>6. CASE skiplevel = 0
  <2>1. /\ iftaken' \in Seq(BOOLEAN)
        /\ Len(iftaken') = Len(iftaken) + 1
        /\ \A i \in 1 .. Len(iftaken) : iftaken'[i] = iftaken[i]
        /\ iftaken'[Len(iftaken) + 1] = res
        /\ skiplevel' = IF res THEN 0 ELSE 1
    BY <1>1, <1>6, AppendFacts, SMTT(30) DEF If, TypeOK
  <2>2. g.on = res /\ g.taken = res /\ Len(groups) = Len(iftaken)
    BY <1>1, <1>6 DEF TakenIfs, TypeOK
  <2>3. TypeOK'
    BY <1>1, <1>3, <1>4, <2>1 DEF TypeOK
  <2>4. TakenIfs'
    BY <1>1, <1>3, <1>6, <2>1, <2>2 DEF TakenIfs, TypeOK
  <2>5. OuterOn'
    BY <1>1, <1>3, <1>6, <2>1, <2>2 DEF OuterOn, Processing, TypeOK
  <2>6. InnerOn' /\ CountedOff' /\ OnIsTaken'
    <3>1. InnerOn'
      BY <1>1, <1>3, <2>1, <2>2 DEF InnerOn, TypeOK
    <3>2. CountedOff'
      BY <1>1, <1>3, <2>1, <2>2 DEF CountedOff, TypeOK
    <3>3. OnIsTaken'
      BY <1>1, <1>3, <2>1, <2>2 DEF Agree, OnIsTaken, TypeOK
    <3>. QED BY <3>1, <3>2, <3>3
  <2>. QED
    BY <1>1, <1>4, <2>1, <2>3, <2>4, <2>5, <2>6 DEF Agree, TypeOK
<1>. QED BY <1>1, <1>5, <1>6 DEF TypeOK

\* The lengths that the invariant relates, while a conditional is open.
LEMMA Lengths ==
    ASSUME Agree
    PROVE  /\ iftaken \in Seq(BOOLEAN) /\ groups \in Seq(Group) /\ skiplevel \in Nat
           /\ Len(groups) \in Nat /\ Len(iftaken) \in Nat
           /\ skiplevel > 1 => Len(iftaken) = Len(groups) - (skiplevel - 1)
           /\ skiplevel <= 1 => Len(iftaken) = Len(groups)
           /\ skiplevel > 0 => Len(iftaken) > 0
           /\ groups # <<>> <=> Len(groups) > 0
           /\ iftaken # <<>> <=> Len(iftaken) > 0
<1>1. TypeOK /\ TakenIfs /\ (skiplevel > 0 => Len(iftaken) > 0)
  BY DEF Agree
<1>2. iftaken \in Seq(BOOLEAN) /\ groups \in Seq(Group) /\ skiplevel \in Nat
  BY <1>1 DEF TypeOK
<1>3. Len(groups) \in Nat /\ Len(iftaken) \in Nat
  BY <1>2
<1>4. (groups # <<>> <=> Len(groups) > 0) /\ (iftaken # <<>> <=> Len(iftaken) > 0)
  BY <1>2, <1>3, EmptySeq
<1>5. Len(iftaken) = Len(groups) - (IF skiplevel > 0 THEN skiplevel - 1 ELSE 0)
  BY <1>1 DEF TakenIfs
<1>. QED BY <1>1, <1>2, <1>3, <1>4, <1>5

\* How #elif and #else change the innermost conditional of C's view.
LEMMA NextGroupFacts ==
    ASSUME groups \in Seq(Group), Len(groups) > 0,
           NEW res \in BOOLEAN, NEW last \in BOOLEAN, NextGroup(res, last)
    PROVE  LET n == Len(groups) IN
           /\ groups' \in Seq(Group)
           /\ Len(groups') = n
           /\ \A i \in 1 .. n - 1 : groups'[i] = groups[i]
           /\ groups'[n].on <=> ~groups[n].taken /\ res
           /\ groups'[n].taken <=> groups[n].taken \/ res
           /\ groups'[n].last = last
<1> DEFINE v == [on |-> ~Top(groups).taken /\ res,
                 taken |-> Top(groups).taken \/ res, last |-> last]
<1>1. groups' = Retop(groups, v)
  BY DEF NextGroup
<1>2. v \in Group
  BY DEF Group
<1>3. /\ v.on <=> ~groups[Len(groups)].taken /\ res
      /\ v.taken <=> groups[Len(groups)].taken \/ res
      /\ v.last = last
  BY DEF Top
<1>. HIDE DEF v
<1>4. /\ Retop(groups, v) \in Seq(Group)
      /\ Len(Retop(groups, v)) = Len(groups)
      /\ \A i \in 1 .. Len(groups) - 1 : Retop(groups, v)[i] = groups[i]
      /\ Retop(groups, v)[Len(groups)] = v
  BY <1>2, RetopFacts
<1>. QED BY <1>1, <1>3, <1>4

\* #elif and #else with no conditional open, or inside a counted one.
LEMMA ContinueSkipped ==
    ASSUME Agree, NEW res \in BOOLEAN, NEW last \in BOOLEAN,
           NextGroup(res, last), UNCHANGED <<code, progress>>,
           groups = <<>> \/ skiplevel > 1
    PROVE  Agree'
<1>1. /\ iftaken' = iftaken /\ skiplevel' = skiplevel
      /\ unit' = unit /\ units' = units /\ ignored' = ignored
  BY DEF code, progress
<1>2. CASE groups = <<>>
  <2>1. groups' = groups
    BY <1>2 DEF NextGroup
  <2>. QED
    BY <1>1, <2>1 DEF Agree, TypeOK, TakenIfs, OuterOn, InnerOn, CountedOff,
                      OnIsTaken
<1>3. CASE groups # <<>> /\ skiplevel > 1
  <2> DEFINE n == Len(groups)
  <2>1. /\ n \in Nat /\ Len(iftaken) \in Nat /\ n > 0
        /\ Len(iftaken) = n - (skiplevel - 1) /\ Len(iftaken) < n
        /\ groups \in Seq(Group)
    BY <1>3, Lengths
  <2>2. groups[n].taken = TRUE
    <3>1. groups[n].taken
      BY <2>1 DEF Agree, CountedOff
    <3>2. groups[n] \in Group
      BY <2>1
    <3>. QED BY <3>1, <3>2 DEF Group
  <2>3. /\ groups' \in Seq(Group)
        /\ Len(groups') = n
        /\ \A i \in 1 .. n - 1 : groups'[i] = groups[i]
        /\ ~groups'[n].on /\ groups'[n].taken
    BY <2>1, <2>2, NextGroupFacts
  <2>. HIDE DEF n
  <2>4. TypeOK'
    BY <1>1, <2>3 DEF Agree, TypeOK
  <2>5. TakenIfs'
    <3>1. Len(iftaken) = n - (IF skiplevel > 0 THEN skiplevel - 1 ELSE 0)
      BY DEF Agree, TakenIfs, n
    <3>2. \A i \in 1 .. Len(iftaken) : groups'[i] = groups[i]
      BY <2>1, <2>3
    <3>. QED BY <1>1, <2>3, <3>1, <3>2 DEF Agree, TakenIfs
  <2>6. OuterOn' /\ InnerOn'
    BY <1>1, <2>1, <2>3 DEF Agree, OuterOn, InnerOn
  <2>7. CountedOff'
    <3>. SUFFICES ASSUME NEW i \in Len(iftaken) + 1 .. n
                  PROVE  ~groups'[i].on /\ groups'[i].taken
      BY <1>1, <2>3 DEF CountedOff
    <3>1. CASE i = n
      BY <3>1, <2>3
    <3>2. CASE i # n
      <4>1. groups'[i] = groups[i]
        BY <3>2, <2>1, <2>3
      <4>2. ~groups[i].on /\ groups[i].taken
        BY DEF Agree, CountedOff, n
      <4>. QED BY <4>1, <4>2
    <3>. QED BY <3>1, <3>2
  <2>8. OnIsTaken'
    <3>. SUFFICES ASSUME NEW i \in 1 .. n
                  PROVE  groups'[i].on => groups'[i].taken
      BY <2>3 DEF OnIsTaken
    <3>1. CASE i = n
      BY <3>1, <2>3
    <3>2. CASE i # n
      <4>1. groups'[i] = groups[i]
        BY <3>2, <2>1, <2>3
      <4>2. groups[i].on => groups[i].taken
        BY DEF Agree, OnIsTaken, n
      <4>. QED BY <4>1, <4>2
    <3>. QED BY <3>1, <3>2
  <2>9. (skiplevel' > 0 => Len(iftaken') > 0)
    BY <1>1, <1>3 DEF Agree
  <2>. QED BY <2>4, <2>5, <2>6, <2>7, <2>8, <2>9 DEF Agree
<1>. QED BY <1>2, <1>3

\* #elif and #else of the conditional that the last bit belongs to.
LEMMA ContinueInnermost ==
    ASSUME Agree, NEW res \in BOOLEAN, NEW last \in BOOLEAN,
           NextGroup(res, last), UNCHANGED progress,
           Len(groups) > 0, skiplevel <= 1,
           iftaken' \in Seq(BOOLEAN), Len(iftaken') = Len(iftaken),
           \A i \in 1 .. Len(iftaken) - 1 : iftaken'[i] = iftaken[i],
           last \/ (iftaken'[Len(iftaken)] <=> groups[Len(groups)].taken \/ res),
           skiplevel' = IF ~groups[Len(groups)].taken /\ res THEN 0 ELSE 1
    PROVE  Agree'
<1> DEFINE n == Len(groups)
<1>1. /\ n \in Nat /\ n > 0 /\ Len(iftaken) = n /\ groups \in Seq(Group)
      /\ unit' = unit /\ units' = units /\ ignored' = ignored
  BY Lengths DEF progress
<1>2. /\ groups' \in Seq(Group)
      /\ Len(groups') = n
      /\ \A i \in 1 .. n - 1 : groups'[i] = groups[i]
      /\ groups'[n].on <=> ~groups[n].taken /\ res
      /\ groups'[n].taken <=> groups[n].taken \/ res
      /\ groups'[n].last = last
  BY <1>1, NextGroupFacts
<1>3. /\ \A i \in 1 .. n - 1 : groups[i].on
      /\ \A i \in 1 .. n : groups[i].last \/ iftaken[i] = groups[i].taken
      /\ \A i \in 1 .. n : groups[i].on => groups[i].taken
  BY <1>1 DEF Agree, OuterOn, TakenIfs, OnIsTaken
<1>4. /\ last \/ (iftaken'[n] <=> groups[n].taken \/ res)
      /\ skiplevel' = IF ~groups[n].taken /\ res THEN 0 ELSE 1
      /\ Len(iftaken') = n
      /\ \A i \in 1 .. n - 1 : iftaken'[i] = iftaken[i]
  BY <1>1
<1>. HIDE DEF n
<1>5. TypeOK'
  BY <1>1, <1>2, <1>4 DEF Agree, TypeOK
<1>6. TakenIfs'
  <2>1. Len(iftaken') = Len(groups') - (IF skiplevel' > 0 THEN skiplevel' - 1 ELSE 0)
    BY <1>1, <1>2, <1>4
  <2>2. ASSUME NEW i \in 1 .. n
        PROVE  groups'[i].last \/ iftaken'[i] = groups'[i].taken
    <3>1. CASE i = n
      <4>1. iftaken'[n] \in BOOLEAN /\ groups'[n] \in Group
        BY <1>1, <1>2, <1>4
      <4>2. groups'[n].taken \in BOOLEAN
        BY <4>1 DEF Group
      <4>3. groups'[n].last \/ (iftaken'[n] <=> groups'[n].taken)
        BY <1>2, <1>4
      <4>. QED BY <3>1, <4>1, <4>2, <4>3
    <3>2. CASE i # n
      <4>1. groups'[i] = groups[i] /\ iftaken'[i] = iftaken[i]
        BY <3>2, <1>1, <1>2, <1>4
      <4>. QED BY <4>1, <1>3
    <3>. QED BY <3>1, <3>2
  <2>. QED BY <2>1, <2>2, <1>4 DEF TakenIfs
<1>7. OuterOn'
  BY <1>1, <1>2, <1>3, <1>4 DEF OuterOn
<1>8. InnerOn' /\ CountedOff'
  BY <1>1, <1>2, <1>4 DEF InnerOn, CountedOff
<1>9. OnIsTaken'
  <2>. SUFFICES ASSUME NEW i \in 1 .. n
                PROVE  groups'[i].on => groups'[i].taken
    BY <1>2 DEF OnIsTaken
  <2>1. CASE i = n
    BY <2>1, <1>2
  <2>2. CASE i # n
    BY <2>2, <1>1, <1>2, <1>3
  <2>. QED BY <2>1, <2>2
<1>10. (skiplevel' > 0 => Len(iftaken') > 0)
  BY <1>1, <1>4
<1>. QED BY <1>5, <1>6, <1>7, <1>8, <1>9, <1>10 DEF Agree

\* #elif preserves the invariant.
LEMMA ElifAgree == ASSUME Agree, NEW res \in BOOLEAN, Elif(res) PROVE Agree'
<1>1. NextGroup(res, FALSE) /\ UNCHANGED progress /\ MayContinue
  BY DEF Elif
<1>2. CASE groups = <<>> \/ skiplevel > 1
  <2>1. UNCHANGED code
    BY <1>2, Lengths DEF Elif
  <2>. QED BY <1>1, <1>2, <2>1, ContinueSkipped
<1>3. CASE ~(groups = <<>> \/ skiplevel > 1)
  <2> DEFINE n == Len(groups)
  <2>1. /\ n \in Nat /\ n > 0 /\ Len(iftaken) = n /\ skiplevel \in Nat /\ skiplevel <= 1
        /\ iftaken \in Seq(BOOLEAN) /\ groups \in Seq(Group) /\ iftaken # <<>>
    BY <1>3, Lengths
  <2>2. iftaken[n] = groups[n].taken /\ iftaken[n] \in BOOLEAN
    BY <1>1, <1>3, <2>1 DEF Agree, TakenIfs, MayContinue, Top
  <2>3. CASE Top(iftaken)
    <3>1. iftaken' = iftaken /\ skiplevel' = 1
      BY <2>1, <2>3 DEF Elif
    <3>2. iftaken[n] /\ groups[n].taken
      BY <2>1, <2>2, <2>3 DEF Top
    <3>. QED BY <1>1, <2>1, <3>1, <3>2, ContinueInnermost
  <2>4. CASE ~Top(iftaken)
    <3>1. iftaken' = Append(Pop(iftaken), res) /\ skiplevel' = IF res THEN 0 ELSE 1
      BY <2>1, <2>4 DEF Elif
    <3>2. ~iftaken[n] /\ ~groups[n].taken
      BY <2>1, <2>2, <2>4 DEF Top
    <3>3. /\ iftaken' \in Seq(BOOLEAN) /\ Len(iftaken') = n
          /\ \A i \in 1 .. n - 1 : iftaken'[i] = iftaken[i]
          /\ iftaken'[n] = res
      <4>1. /\ Pop(iftaken) \in Seq(BOOLEAN) /\ Len(Pop(iftaken)) = n - 1
            /\ \A i \in 1 .. n - 1 : Pop(iftaken)[i] = iftaken[i]
        BY <2>1, PopFacts
      <4>. QED BY <2>1, <3>1, <4>1, AppendFacts
    <3>. QED BY <1>1, <2>1, <3>1, <3>2, <3>3, ContinueInnermost
  <2>. QED BY <2>3, <2>4
<1>. QED BY <1>2, <1>3

\* #else preserves the invariant.
LEMMA ElseAgree == ASSUME Agree, Else PROVE Agree'
<1>1. NextGroup(TRUE, TRUE) /\ UNCHANGED progress /\ MayContinue
  BY DEF Else
<1>2. CASE groups = <<>> \/ skiplevel > 1
  <2>1. UNCHANGED code
    BY <1>2, Lengths DEF Else
  <2>. QED BY <1>1, <1>2, <2>1, ContinueSkipped
<1>3. CASE ~(groups = <<>> \/ skiplevel > 1)
  <2> DEFINE n == Len(groups)
  <2>1. /\ n \in Nat /\ n > 0 /\ Len(iftaken) = n /\ skiplevel \in Nat /\ skiplevel <= 1
        /\ iftaken \in Seq(BOOLEAN) /\ groups \in Seq(Group) /\ iftaken # <<>>
    BY <1>3, Lengths
  <2>2. iftaken[n] = groups[n].taken /\ iftaken[n] \in BOOLEAN
    BY <1>1, <1>3, <2>1 DEF Agree, TakenIfs, MayContinue, Top
  <2>3. iftaken' = iftaken /\ skiplevel' = IF groups[n].taken THEN 1 ELSE 0
    BY <2>1, <2>2 DEF Else, Top
  <2>. QED BY <1>1, <2>1, <2>3, ContinueInnermost
<1>. QED BY <1>2, <1>3

\* #endif preserves the invariant.
LEMMA EndifAgree == ASSUME Agree, Endif PROVE Agree'
<1> DEFINE n == Len(groups)
<1>1. /\ n \in Nat /\ Len(iftaken) \in Nat /\ skiplevel \in Nat
      /\ iftaken \in Seq(BOOLEAN) /\ groups \in Seq(Group)
      /\ unit' = unit /\ units' = units /\ ignored' = ignored /\ unit
  BY Lengths DEF Endif, progress
<1>2. CASE groups = <<>>
  <2>1. groups' = groups /\ iftaken' = iftaken /\ skiplevel' = skiplevel
    BY <1>2, Lengths DEF Endif, CloseGroup, code
  <2>. QED
    BY <1>1, <2>1 DEF Agree, TypeOK, TakenIfs, OuterOn, InnerOn, CountedOff,
                      OnIsTaken
<1>3. CASE groups # <<>>
  <2>1. n > 0 /\ iftaken # <<>>
    BY <1>3, <1>1, Lengths
  <2>2. /\ groups' \in Seq(Group) /\ Len(groups') = n - 1
        /\ \A i \in 1 .. n - 1 : groups'[i] = groups[i]
    <3>1. groups' = Pop(groups)
      BY <1>3 DEF Endif, CloseGroup
    <3>2. /\ Pop(groups) \in Seq(Group) /\ Len(Pop(groups)) = n - 1
          /\ \A i \in 1 .. n - 1 : Pop(groups)[i] = groups[i]
      BY <1>1, <2>1, PopFacts
    <3>. QED BY <3>1, <3>2
  <2>3. OnIsTaken'
    BY <1>1, <2>2 DEF Agree, OnIsTaken
  <2>5. CASE skiplevel > 1
    <3>1. iftaken' = iftaken /\ skiplevel' = skiplevel - 1
      BY <1>1, <2>1, <2>5 DEF Endif
    <3>2. Len(iftaken) = n - (skiplevel - 1) /\ Len(iftaken) > 0
      BY <2>5, <1>1, Lengths
    <3>. HIDE DEF n
    <3>3. TypeOK'
      BY <1>1, <2>2, <2>5, <3>1 DEF Agree, TypeOK
    <3>4. TakenIfs'
      <4>1. Len(iftaken') = Len(groups') - (IF skiplevel' > 0 THEN skiplevel' - 1 ELSE 0)
        BY <1>1, <2>2, <2>5, <3>1, <3>2
      <4>2. \A i \in 1 .. Len(iftaken) : groups'[i] = groups[i]
        BY <1>1, <2>2, <2>5, <3>2
      <4>. QED BY <3>1, <4>1, <4>2 DEF Agree, TakenIfs
    <3>5. OuterOn'
      BY <1>1, <2>2, <2>5, <3>1, <3>2 DEF Agree, OuterOn
    <3>6. InnerOn'
      BY <1>1, <2>2, <2>5, <3>1, <3>2 DEF Agree, InnerOn
    <3>7. CountedOff'
      BY <1>1, <2>2, <2>5, <3>1, <3>2 DEF Agree, CountedOff, n
    <3>. QED
      BY <2>3, <3>1, <3>2, <3>3, <3>4, <3>5, <3>6, <3>7 DEF Agree
  <2>6. CASE ~(skiplevel > 1)
    <3>1. iftaken' = Pop(iftaken) /\ skiplevel' = 0 /\ Len(iftaken) = n
      BY <1>1, <2>1, <2>6, Lengths DEF Endif
    <3>2. /\ iftaken' \in Seq(BOOLEAN) /\ Len(iftaken') = n - 1
          /\ \A i \in 1 .. n - 1 : iftaken'[i] = iftaken[i]
      BY <1>1, <2>1, <3>1, PopFacts
    <3>. HIDE DEF n
    <3>3. TypeOK'
      BY <1>1, <2>2, <3>1, <3>2 DEF Agree, TypeOK
    <3>4. TakenIfs'
      <4>1. \A i \in 1 .. n : groups[i].last \/ iftaken[i] = groups[i].taken
        BY <3>1 DEF Agree, TakenIfs
      <4>2. \A i \in 1 .. n - 1 : groups'[i].last \/ iftaken'[i] = groups'[i].taken
        BY <1>1, <2>2, <3>2, <4>1
      <4>. QED BY <1>1, <2>1, <2>2, <3>1, <3>2, <4>2 DEF TakenIfs
    <3>5. OuterOn' /\ InnerOn' /\ CountedOff'
      BY <1>1, <2>1, <2>2, <3>1, <3>2 DEF Agree, OuterOn, InnerOn, CountedOff
    <3>. QED
      BY <2>3, <3>1, <3>3, <3>4, <3>5 DEF Agree
  <2>. QED BY <2>5, <2>6
<1>. QED BY <1>2, <1>3

\* With no conditional open the invariant says nothing more.
Nothing == iftaken = <<>> /\ groups = <<>> /\ skiplevel = 0
NothingAgrees == TakenIfs /\ OuterOn /\ InnerOn /\ CountedOff /\ OnIsTaken
LEMMA NothingOpen == Nothing => NothingAgrees
<1>. SUFFICES ASSUME Nothing PROVE NothingAgrees
  OBVIOUS
<1>1. Len(iftaken) = 0 /\ Len(groups) = 0 /\ skiplevel = 0
  BY DEF Nothing
<1>2. TakenIfs
  BY <1>1 DEF TakenIfs
<1>3. OuterOn
  BY <1>1 DEF OuterOn
<1>4. InnerOn
  BY <1>1 DEF InnerOn
<1>5. CountedOff
  BY <1>1 DEF CountedOff
<1>6. OnIsTaken
  BY <1>1 DEF OnIsTaken
<1>. QED BY <1>2, <1>3, <1>4, <1>5, <1>6 DEF NothingAgrees

\* Reading a directive preserves the invariant, and stays in the unit.
LEMMA Directive ==
    ASSUME unit, unit' = unit, Agree'
    PROVE  AlwaysAgree'
<1>1. TypeOK'
  BY DEF Agree
<1>. QED BY <1>1, Zenon DEF AlwaysAgree, Between

\* The end of a unit preserves it, inside a skipped group too.
LEMMA EndOfUnitAgree ==
    ASSUME TypeOK, EndOfUnit \/ EndOfUnitSkipping
    PROVE  AlwaysAgree'
<1>1. unit' = FALSE /\ units' = units /\ ignored' = ignored /\ groups' = <<>>
  BY DEF EndOfUnit, EndOfUnitSkipping
<1>2. skiplevel' = skiplevel /\ (skiplevel = 0 => iftaken' = <<>>)
      /\ (iftaken' = <<>> \/ iftaken' = iftaken)
  BY DEF EndOfUnit, EndOfUnitSkipping, code
<1>3. TypeOK'
  <2>1. (iftaken \in Seq(BOOLEAN) /\ skiplevel \in Nat /\ groups \in Seq(Group))'
    <3>1. iftaken \in Seq(BOOLEAN) /\ skiplevel \in Nat
      BY DEF TypeOK
    <3>2. <<>> \in Seq(BOOLEAN)
      OBVIOUS
    <3>3. iftaken' \in Seq(BOOLEAN)
      BY <1>2, <3>1, <3>2, Zenon
    <3>4. <<>> \in Seq(Group)
      OBVIOUS
    <3>5. groups' \in Seq(Group)
      BY <1>1, <3>4, Zenon
    <3>. QED BY <1>2, <3>1, <3>3, <3>5
  <2>2. (unit \in BOOLEAN)'
    BY <1>1, Zenon
  <2>3. (units \in Nat /\ ignored \in Nat)'
    BY <1>1, Zenon DEF TypeOK
  <2>. QED BY <2>1, <2>2, <2>3, Zenon DEF TypeOK
<1>4. Between'
  BY <1>1, <1>2 DEF Between
<1>. QED BY <1>1, <1>3, <1>4, Zenon DEF AlwaysAgree

\* #pragma process preserves it: a unit only starts with nothing left over.
LEMMA ProcessAgree == ASSUME AlwaysAgree, Process PROVE AlwaysAgree'
<1>1. /\ iftaken' = iftaken /\ skiplevel' = skiplevel /\ groups' = groups
      /\ TypeOK /\ ~unit /\ groups = <<>> /\ (skiplevel = 0 => iftaken = <<>>)
      /\ units' = units + 1
  BY DEF AlwaysAgree, Between, Process, code
<1>2. CASE skiplevel >= 1
  <2>1. unit' = unit /\ ignored' = ignored + 1 /\ skiplevel # 0
    BY <1>1, <1>2 DEF Process
  <2>2. TypeOK'
    BY <1>1, <2>1 DEF TypeOK
  <2>3. Between'
    BY <1>1, <2>1 DEF Between
  <2>. QED BY <1>1, <2>1, <2>2, <2>3, Zenon DEF AlwaysAgree
<1>3. CASE ~(skiplevel >= 1)
  <2>1. unit' = TRUE /\ ignored' = ignored /\ skiplevel = 0
    BY <1>1, <1>3 DEF Process, TypeOK
  <2>2. TypeOK'
    <3>1. (iftaken \in Seq(BOOLEAN) /\ skiplevel \in Nat /\ groups \in Seq(Group))'
      BY <1>1 DEF TypeOK
    <3>2. (unit \in BOOLEAN)'
      BY <2>1, Zenon
    <3>3. (units \in Nat /\ ignored \in Nat)'
      BY <1>1, <2>1 DEF TypeOK
    <3>. QED BY <3>1, <3>2, <3>3, Zenon DEF TypeOK
  <2>3. Nothing'
    BY <1>1, <2>1 DEF Nothing
  <2>4. NothingAgrees'
    BY NothingOpen, <2>3, PTL
  <2>5. (skiplevel > 0 => Len(iftaken) > 0)'
    BY <1>1, <2>1
  <2>6. Agree'
    BY <2>2, <2>4, <2>5, Zenon DEF Agree, NothingAgrees
  <2>. QED BY <2>1, <2>2, <2>6, Zenon DEF AlwaysAgree, Between
<1>. QED BY <1>2, <1>3

-----------------------------------------------------------------------------

\* In every unit the stack of bits and the counter stand for C's open
\* conditionals, whatever the units before it left behind.
THEOREM BitsStandForGroups == Spec => []AlwaysAgree
<1>1. Init => AlwaysAgree
  <2>. SUFFICES ASSUME Init PROVE AlwaysAgree
    OBVIOUS
  <2>1. ~unit /\ groups = <<>> /\ iftaken = <<>>
    BY DEF Init
  <2>2. TypeOK
    <3>1. iftaken \in Seq(BOOLEAN) /\ skiplevel \in Nat /\ groups \in Seq(Group)
      BY DEF Init
    <3>2. unit \in BOOLEAN
      BY Zenon DEF Init
    <3>3. units \in Nat /\ ignored \in Nat
      BY DEF Init
    <3>. QED BY <3>1, <3>2, <3>3, Zenon DEF TypeOK
  <2>. QED BY <2>1, <2>2, Zenon DEF AlwaysAgree, Between
<1>2. AlwaysAgree /\ [Next]_vars => AlwaysAgree'
  <2>. SUFFICES ASSUME AlwaysAgree, [Next]_vars PROVE AlwaysAgree'
    OBVIOUS
  <2>. TypeOK /\ (unit => Agree)
    BY DEF AlwaysAgree
  <2>1. ASSUME NEW res \in BOOLEAN, If(res) PROVE AlwaysAgree'
    <3>1. unit /\ unit' = unit
      BY <2>1 DEF If, progress
    <3>. QED BY <2>1, <3>1, IfAgree, Directive
  <2>2. ASSUME NEW res \in BOOLEAN, Elif(res) PROVE AlwaysAgree'
    <3>1. unit /\ unit' = unit
      BY <2>2 DEF Elif, progress
    <3>. QED BY <2>2, <3>1, ElifAgree, Directive
  <2>3. CASE Else
    <3>1. unit /\ unit' = unit
      BY <2>3 DEF Else, progress
    <3>. QED BY <2>3, <3>1, ElseAgree, Directive
  <2>4. CASE Endif
    <3>1. unit /\ unit' = unit
      BY <2>4 DEF Endif, progress
    <3>. QED BY <2>4, <3>1, EndifAgree, Directive
  <2>5. CASE EndOfUnit \/ EndOfUnitSkipping
    BY <2>5, EndOfUnitAgree
  <2>6. CASE Process
    BY <2>6, ProcessAgree
  <2>7. CASE UNCHANGED vars
    BY <2>7 DEF vars, code, progress, AlwaysAgree, Between, Agree, TypeOK, TakenIfs,
                OuterOn, InnerOn, CountedOff, OnIsTaken
  <2>. QED BY <2>1, <2>2, <2>3, <2>4, <2>5, <2>6, <2>7 DEF Next
<1>. QED BY <1>1, <1>2, PTL DEF Spec

\* Whatever the nesting, the conditions and the units before, a unit is
\* processed exactly where C says so.
THEOREM SkippingIsFaithful == Spec => []Faithful
<1>1. AlwaysAgree => Faithful
  BY AgreeImpliesFaithful DEF AlwaysAgree, Faithful
<1>. QED BY <1>1, BitsStandForGroups, PTL

\* skiplevel is the number of conditionals from the outermost one that is not
\* processed inwards, and iftaken holds, for each conditional outside the
\* skipped group, whether one of its groups was processed.
THEOREM BitsAndCounterAreRight == Spec => []BitsAndCounter
<1>1. AlwaysAgree => BitsAndCounter
  BY AgreeImpliesCounts DEF AlwaysAgree, BitsAndCounter, Agree
<1>. QED BY <1>1, BitsStandForGroups, PTL

-----------------------------------------------------------------------------
(* The marks that count *)

\* Small sets are finite.
LEMMA SmallFinite ==
    /\ IsFiniteSet({})
    /\ \A a : IsFiniteSet({a})
    /\ \A a, b : IsFiniteSet({a, b})
    /\ \A a, b, c, d, e : IsFiniteSet({a, b, c, d, e})
<1>1. \A a : IsFiniteSet({a})
  BY FS_Singleton
<1>2. ASSUME NEW a, NEW b, NEW c, NEW d, NEW e
      PROVE  IsFiniteSet({a, b}) /\ IsFiniteSet({a, b, c, d, e})
  <2>1. IsFiniteSet({a} \cup {b})
    BY <1>1, FS_Union
  <2>2. IsFiniteSet({c} \cup {d})
    BY <1>1, FS_Union
  <2>3. IsFiniteSet(({c} \cup {d}) \cup {e})
    BY <1>1, <2>2, FS_Union
  <2>4. IsFiniteSet(({a} \cup {b}) \cup (({c} \cup {d}) \cup {e}))
    BY <2>1, <2>3, FS_Union
  <2>5. {a, b} = {a} \cup {b}
        /\ {a, b, c, d, e} = ({a} \cup {b}) \cup (({c} \cup {d}) \cup {e})
    OBVIOUS
  <2>. QED BY <2>1, <2>4, <2>5
<1>. QED BY <1>1, <1>2, FS_EmptySet

\* The sets of marks that count are finite.
LEMMA MarksFinite ==
    /\ IsFiniteSet(Operator)
    /\ \A n \in Counted : IsFiniteSet(Up[n]) /\ IsFiniteSet(Down(n))
<1>1. IsFiniteSet(Operator)
  BY SmallFinite DEF Operator
<1>2. ASSUME NEW n \in Counted PROVE IsFiniteSet(Up[n])
  <2> DEFINE Marks == (((((({";", "if", "while", "switch", "do"} \cup
                      {"else", "case", "for", "return", "&&"}) \cup
                      {"?", "number", "char", "string", "##"}) \cup
                      {"stringize", "{", "(", "ntoken", "nppdirective"}) \cup
                      {"nppcond", "evaluated #elif", "nppfmacro", "nppomacro", "nincfile"}) \cup
                      {"npfunction", "nffunction", "npvar", "nfvar", "naggregate"}) \cup
                      {"namember", "nenum", "nemember", "+", "*"})
  <2>1. IsFiniteSet(Marks)
    BY SmallFinite, FS_Union
  <2>2. Counted = {"nstmt", "nif", "nelse", "nswitch", "ncase", "nfor", "nwhile",
                   "ndo", "nreturn", "nop", "ncc2op", "nnconst", "nclit", "nstring",
                   "nconcatop", "nstringop", "bracenest", "bracknest", "ntoken",
                   "nppdirective", "nppcond", "nppfmacro", "nppomacro", "nincfile",
                   "npfunction", "nffunction", "npvar", "nfvar", "naggregate",
                   "namember", "nenum", "nemember"}
    BY DEF Counted, Up
  <2>3. /\ Up["nstmt"] \subseteq Marks /\ Up["nif"] \subseteq Marks
        /\ Up["nelse"] \subseteq Marks /\ Up["nswitch"] \subseteq Marks
    BY SMTT(30) DEF Up, Operator
  <2>4. /\ Up["ncase"] \subseteq Marks /\ Up["nfor"] \subseteq Marks
        /\ Up["nwhile"] \subseteq Marks /\ Up["ndo"] \subseteq Marks
    BY SMTT(30) DEF Up, Operator
  <2>5. /\ Up["nreturn"] \subseteq Marks /\ Up["nop"] \subseteq Marks
        /\ Up["ncc2op"] \subseteq Marks /\ Up["nnconst"] \subseteq Marks
    BY SMTT(30) DEF Up, Operator
  <2>6. /\ Up["nclit"] \subseteq Marks /\ Up["nstring"] \subseteq Marks
        /\ Up["nconcatop"] \subseteq Marks /\ Up["nstringop"] \subseteq Marks
    BY SMTT(30) DEF Up, Operator
  <2>7. /\ Up["bracenest"] \subseteq Marks /\ Up["bracknest"] \subseteq Marks
        /\ Up["ntoken"] \subseteq Marks /\ Up["nppdirective"] \subseteq Marks
    BY SMTT(30) DEF Up, Operator
  <2>8. /\ Up["nppcond"] \subseteq Marks /\ Up["nppfmacro"] \subseteq Marks
        /\ Up["nppomacro"] \subseteq Marks /\ Up["nincfile"] \subseteq Marks
    BY SMTT(30) DEF Up, Operator
  <2>9. /\ Up["npfunction"] \subseteq Marks /\ Up["nffunction"] \subseteq Marks
        /\ Up["npvar"] \subseteq Marks /\ Up["nfvar"] \subseteq Marks
    BY SMTT(30) DEF Up, Operator
  <2>10. /\ Up["naggregate"] \subseteq Marks /\ Up["namember"] \subseteq Marks
        /\ Up["nenum"] \subseteq Marks /\ Up["nemember"] \subseteq Marks
    BY SMTT(30) DEF Up, Operator
  <2>11. Up[n] \subseteq Marks
    BY <2>2, <2>3, <2>4, <2>5, <2>6, <2>7, <2>8, <2>9, <2>10, Zenon
  <2>. QED BY <2>1, <2>11, FS_Subset
<1>3. ASSUME NEW n \in Counted PROVE IsFiniteSet(Down(n))
  BY SmallFinite DEF Down
<1>. QED BY <1>1, <1>2, <1>3

-----------------------------------------------------------------------------
(* What a sequence of marks says *)

\* Where the marks of M were read.
Readings(s, M) == {o \in (1 .. Len(s)) \X M : o[2] \in s[o[1]]}

\* How often one of M was read is the number of its readings.
LEMMA TimesIs ==
    ASSUME NEW S, NEW s \in Seq(S), NEW M, IsFiniteSet(M)
    PROVE  /\ IsFiniteSet(Readings(s, M)) /\ Cardinality(Readings(s, M)) \in Nat
           /\ Times(s, M) = Cardinality(Readings(s, M))
<1>1. IsFiniteSet(1 .. Len(s))
  <2>1. 1 \in Int /\ Len(s) \in Int
    OBVIOUS
  <2>. QED BY <2>1, FS_Interval
<1>2. IsFiniteSet((1 .. Len(s)) \X M)
  BY <1>1, FS_Product
<1>3. Readings(s, M) \subseteq (1 .. Len(s)) \X M
  BY DEF Readings
<1>4. Times(s, M) = Cardinality(Readings(s, M))
  BY DEF Times, Readings
<1>. QED BY <1>2, <1>3, <1>4, FS_Subset, FS_CardinalityType

\* It grows by the marks of M in what is read next.
LEMMA TimesAppend ==
    ASSUME NEW S, NEW s \in Seq(S), NEW p \in S, NEW M, IsFiniteSet(M)
    PROVE  /\ Times(s, M) \in Nat
           /\ Cardinality(p \cap M) \in Nat
           /\ Times(Append(s, p), M) = Times(s, M) + Cardinality(p \cap M)
<1> DEFINE n == Len(s)
           t == Append(s, p)
           new == {n + 1} \X (p \cap M)
<1>1. /\ n \in Nat /\ Len(t) = n + 1 /\ t[n + 1] = p
      /\ \A i \in 1 .. n : t[i] = s[i]
  BY AppendProperties
<1>2. IsFiniteSet(p \cap M) /\ Cardinality(p \cap M) \in Nat
  BY FS_Subset, FS_CardinalityType
<1>3. IsFiniteSet(Readings(s, M)) /\ Cardinality(Readings(s, M)) \in Nat
  BY TimesIs
<1>4. IsFiniteSet(new) /\ Cardinality(new) = Cardinality(p \cap M)
  <2>1. IsFiniteSet({n + 1}) /\ Cardinality({n + 1}) = 1
    BY FS_Singleton
  <2>2. IsFiniteSet(new)
        /\ Cardinality(new) = Cardinality({n + 1}) * Cardinality(p \cap M)
    BY <1>2, <2>1, FS_Product
  <2>. HIDE DEF new
  <2>. QED BY <1>2, <2>1, <2>2
<1>5. Readings(t, M) = Readings(s, M) \cup new
  <2>1. ASSUME NEW o \in Readings(t, M) PROVE o \in Readings(s, M) \cup new
    <3>1. /\ o \in (1 .. n + 1) \X M /\ o[1] \in 1 .. n + 1 /\ o[2] \in M
          /\ o = <<o[1], o[2]>> /\ o[2] \in t[o[1]]
      BY <1>1 DEF Readings
    <3>2. CASE o[1] = n + 1
      <4>1. o[2] \in p \cap M
        BY <1>1, <3>1, <3>2
      <4>2. <<n + 1, o[2]>> \in new
        BY <4>1
      <4>. QED BY <3>1, <3>2, <4>2
    <3>3. CASE o[1] # n + 1
      <4>1. o[1] \in 1 .. n
        BY <1>1, <3>1, <3>3
      <4>2. o[2] \in s[o[1]] /\ <<o[1], o[2]>> \in (1 .. n) \X M
        BY <1>1, <3>1, <4>1
      <4>3. o \in (1 .. n) \X M
        BY <3>1, <4>2
      <4>. QED BY <4>2, <4>3 DEF Readings
    <3>. QED BY <3>2, <3>3
  <2>2. ASSUME NEW o \in Readings(s, M) PROVE o \in Readings(t, M)
    <3>1. o \in (1 .. n) \X M /\ o[1] \in 1 .. n /\ o[2] \in s[o[1]]
      BY DEF Readings
    <3>2. o \in (1 .. n + 1) \X M /\ o[2] \in t[o[1]]
      BY <1>1, <3>1
    <3>. QED BY <1>1, <3>2 DEF Readings
  <2>3. ASSUME NEW o \in new PROVE o \in Readings(t, M)
    <3>1. o[1] = n + 1 /\ o[2] \in p /\ o[2] \in M /\ o = <<o[1], o[2]>>
      OBVIOUS
    <3>2. o[1] \in 1 .. n + 1 /\ o[2] \in t[o[1]]
      BY <1>1, <3>1
    <3>3. <<o[1], o[2]>> \in (1 .. n + 1) \X M
      BY <3>1, <3>2
    <3>4. o \in (1 .. n + 1) \X M
      BY <3>1, <3>3
    <3>. QED BY <1>1, <3>2, <3>4 DEF Readings
  <2>. QED BY <2>1, <2>2, <2>3
<1>6. Readings(s, M) \cap new = {}
  <2>1. \A o \in Readings(s, M) : o[1] \in 1 .. n
    BY DEF Readings
  <2>2. \A o \in new : o[1] = n + 1
    OBVIOUS
  <2>3. n + 1 \notin 1 .. n
    BY <1>1
  <2>. QED BY <2>1, <2>2, <2>3
<1>7. Cardinality({}) = 0
  BY FS_EmptySet
<1>. HIDE DEF new, t
<1>8. Cardinality(Readings(t, M)) = Cardinality(Readings(s, M)) + Cardinality(new)
  <2>1. Cardinality(Readings(s, M) \cup new)
          = Cardinality(Readings(s, M)) + Cardinality(new)
            - Cardinality(Readings(s, M) \cap new)
    BY <1>3, <1>4, FS_Union
  <2>2. Cardinality(Readings(t, M)) = Cardinality(Readings(s, M) \cup new)
    BY <1>5, Zenon
  <2>3. Cardinality(Readings(s, M) \cap new) = 0
    BY <1>6, <1>7, Zenon
  <2>. QED BY <1>2, <1>3, <1>4, <2>1, <2>2, <2>3
<1>9. Times(t, M) = Cardinality(Readings(t, M))
      /\ Times(s, M) = Cardinality(Readings(s, M))
  BY DEF Times, Readings
<1>. QED BY <1>2, <1>3, <1>4, <1>8, <1>9 DEF t

\* Of nothing it is zero.
LEMMA TimesEmpty == ASSUME NEW M PROVE Times(<<>>, M) = 0
<1>1. {o \in (1 .. 0) \X M : o[2] \in <<>>[o[1]]} = {}
  OBVIOUS
<1>2. Len(<<>>) = 0
  OBVIOUS
<1>. QED BY <1>1, <1>2, FS_EmptySet DEF Times

\* t is s and one more set of marks, p.
Longer(t, s, p) == t = Append(s, p)

\* A balance is a number, and begins at zero.
LEMMA BalanceIs ==
    ASSUME NEW S, NEW s \in Seq(S), NEW n \in Counted
    PROVE  /\ Times(s, Up[n]) \in Nat /\ Times(s, Down(n)) \in Nat
           /\ Balance(s, n) \in Int /\ Balance(<<>>, n) = 0
<1>1. IsFiniteSet(Up[n]) /\ IsFiniteSet(Down(n))
  BY MarksFinite
<1>2. Times(s, Up[n]) \in Nat /\ Times(s, Down(n)) \in Nat
  BY <1>1, TimesIs
<1>3. Times(<<>>, Up[n]) = 0 /\ Times(<<>>, Down(n)) = 0
  BY TimesEmpty
<1>. QED BY <1>2, <1>3 DEF Balance

\* It changes by the marks that count up and down in what is read next.
LEMMA BalanceAppend ==
    ASSUME NEW S, NEW s \in Seq(S), NEW p \in S, NEW t, Longer(t, s, p),
           NEW n \in Counted
    PROVE  /\ Cardinality(p \cap Up[n]) \in Nat /\ Cardinality(p \cap Down(n)) \in Nat
           /\ Balance(t, n) = Balance(s, n) + Cardinality(p \cap Up[n])
                              - Cardinality(p \cap Down(n))
<1>1. IsFiniteSet(Up[n]) /\ IsFiniteSet(Down(n))
  BY MarksFinite
<1>2. /\ Cardinality(p \cap Up[n]) \in Nat
      /\ Times(t, Up[n]) = Times(s, Up[n]) + Cardinality(p \cap Up[n])
  <2>1. /\ Cardinality(p \cap Up[n]) \in Nat
        /\ Times(Append(s, p), Up[n]) = Times(s, Up[n]) + Cardinality(p \cap Up[n])
    BY <1>1, TimesAppend
  <2>. QED BY <2>1, Zenon DEF Longer
<1>3. /\ Cardinality(p \cap Down(n)) \in Nat
      /\ Times(t, Down(n)) = Times(s, Down(n)) + Cardinality(p \cap Down(n))
  <2>1. /\ Cardinality(p \cap Down(n)) \in Nat
        /\ Times(Append(s, p), Down(n)) = Times(s, Down(n)) + Cardinality(p \cap Down(n))
    BY <1>1, TimesAppend
  <2>. QED BY <2>1, Zenon DEF Longer
<1>4. Times(s, Up[n]) \in Nat /\ Times(s, Down(n)) \in Nat
  BY BalanceIs
<1>. QED BY <1>2, <1>3, <1>4 DEF Balance

\* Reading more leaves the prefixes of what was read.
LEMMA PrefixAppend ==
    ASSUME NEW S, NEW s \in Seq(S), NEW p \in S
    PROVE  /\ \A i \in 1 .. Len(s) : Prefix(Append(s, p), i) = Prefix(s, i)
           /\ Prefix(Append(s, p), Len(s) + 1) = Append(s, p)
           /\ Len(s) > 0 => Prefix(s, Len(s)) = s
<1> DEFINE n == Len(s)
           t == Append(s, p)
<1>1. /\ n \in Nat /\ t \in Seq(S) /\ Len(t) = n + 1 /\ t[n + 1] = p
      /\ \A i \in 1 .. n : t[i] = s[i]
  BY AppendProperties
<1>2. ASSUME NEW u \in Seq(S), NEW i \in 1 .. Len(u)
      PROVE  /\ SubSeq(u, 1, i) \in Seq(S) /\ Len(SubSeq(u, 1, i)) = i
             /\ \A k \in 1 .. i : SubSeq(u, 1, i)[k] = u[k]
  <2>1. \A k \in 1 .. i : u[k] \in S
    OBVIOUS
  <2>2. /\ SubSeq(u, 1, i) \in Seq(S)
        /\ Len(SubSeq(u, 1, i)) = IF 1 <= i THEN i - 1 + 1 ELSE 0
        /\ \A k \in 1 .. i - 1 + 1 : SubSeq(u, 1, i)[k] = u[1 + k - 1]
    <3>1. 1 \in Int /\ i \in Int
      OBVIOUS
    <3>. QED BY <2>1, <3>1, SubSeqProperties
  <2>. QED BY <2>2
<1>3. ASSUME NEW i \in 1 .. n PROVE SubSeq(t, 1, i) = SubSeq(s, 1, i)
  <2>1. i \in 1 .. Len(t)
    BY <1>1
  <2>2. /\ SubSeq(t, 1, i) \in Seq(S) /\ SubSeq(s, 1, i) \in Seq(S)
        /\ Len(SubSeq(t, 1, i)) = i /\ Len(SubSeq(s, 1, i)) = i
        /\ \A k \in 1 .. i : SubSeq(t, 1, i)[k] = t[k]
        /\ \A k \in 1 .. i : SubSeq(s, 1, i)[k] = s[k]
    BY <1>1, <1>2, <2>1
  <2>3. \A k \in 1 .. i : SubSeq(t, 1, i)[k] = SubSeq(s, 1, i)[k]
    BY <1>1, <2>2
  <2>. HIDE DEF t, n
  <2>. QED BY <2>2, <2>3, SeqEqual
<1>4. SubSeq(t, 1, n + 1) = t
  <2>1. n + 1 \in 1 .. Len(t)
    BY <1>1
  <2>2. /\ SubSeq(t, 1, n + 1) \in Seq(S) /\ Len(SubSeq(t, 1, n + 1)) = n + 1
        /\ \A k \in 1 .. n + 1 : SubSeq(t, 1, n + 1)[k] = t[k]
    BY <1>1, <1>2, <2>1
  <2>. HIDE DEF t, n
  <2>. QED BY <1>1, <2>2, SeqEqual
<1>5. n > 0 => SubSeq(s, 1, n) = s
  <2>. SUFFICES ASSUME n > 0 PROVE SubSeq(s, 1, n) = s
    OBVIOUS
  <2>1. n \in 1 .. Len(s)
    BY <1>1
  <2>2. /\ SubSeq(s, 1, n) \in Seq(S) /\ Len(SubSeq(s, 1, n)) = n
        /\ \A k \in 1 .. n : SubSeq(s, 1, n)[k] = s[k]
    BY <1>2, <2>1
  <2>. QED BY <1>1, <2>2, SeqEqual
<1>. QED BY <1>3, <1>4, <1>5 DEF Prefix

\* The greatest of a set, when the set gets one more number.
LEMMA MaxGrows ==
    ASSUME NEW S \in SUBSET Int, NEW k \in Int, IsMaxOf(k, S), NEW b \in Int
    PROVE  /\ IsMaxOf(Greater(k, b), S \cup {b})
           /\ b <= k => IsMaxOf(k, S \cup {b})
           /\ Greater(k, b) \in Int
BY DEF IsMaxOf, Greater

\* What the balance has been.
Peaks(s, n) == {0} \cup {Balance(Prefix(s, i), n) : i \in 1 .. Len(s)}

\* The balances there have been gain the one after what is read next.
LEMMA PeaksAppend ==
    ASSUME NEW S, NEW s \in Seq(S), NEW p \in S, NEW n \in Counted
    PROVE  /\ Peaks(s, n) \in SUBSET Int
           /\ Peaks(Append(s, p), n) = Peaks(s, n) \cup {Balance(Append(s, p), n)}
           /\ Balance(s, n) \in Peaks(s, n)
<1> DEFINE t == Append(s, p)
<1>1. Len(t) = Len(s) + 1 /\ Len(s) \in Nat
  BY AppendProperties
<1>2. ASSUME NEW i \in 1 .. Len(s) PROVE Prefix(s, i) \in Seq(S)
  <2>1. \A k \in 1 .. i : s[k] \in S
    OBVIOUS
  <2>. QED BY <2>1, SubSeqProperties DEF Prefix
<1>3. ASSUME NEW i \in 1 .. Len(s) PROVE Balance(Prefix(s, i), n) \in Int
  BY <1>2, BalanceIs
<1>4. Peaks(s, n) \in SUBSET Int
  BY <1>3 DEF Peaks
<1>5. \A i \in 1 .. Len(s) : Prefix(t, i) = Prefix(s, i)
  BY PrefixAppend
<1>6. Prefix(t, Len(s) + 1) = t
  BY PrefixAppend
<1>. HIDE DEF t
<1>7. Peaks(t, n) \subseteq Peaks(s, n) \cup {Balance(t, n)}
  <2>. SUFFICES ASSUME NEW i \in 1 .. Len(t)
                PROVE  Balance(Prefix(t, i), n) \in Peaks(s, n) \cup {Balance(t, n)}
    BY DEF Peaks
  <2>1. CASE i = Len(s) + 1
    BY <1>6, <2>1
  <2>2. CASE i # Len(s) + 1
    <3>1. i \in 1 .. Len(s)
      BY <1>1, <2>2
    <3>2. Balance(Prefix(t, i), n) = Balance(Prefix(s, i), n)
      BY <1>5, <3>1
    <3>. QED BY <3>1, <3>2 DEF Peaks
  <2>. QED BY <2>1, <2>2
<1>8. Balance(t, n) \in Peaks(t, n)
  <2>1. Len(s) + 1 \in 1 .. Len(t)
    BY <1>1
  <2>2. Balance(Prefix(t, Len(s) + 1), n) \in Peaks(t, n)
    BY <2>1 DEF Peaks
  <2>. QED BY <1>6, <2>2
<1>9. Peaks(s, n) \subseteq Peaks(t, n)
  <2>. SUFFICES ASSUME NEW i \in 1 .. Len(s)
                PROVE  Balance(Prefix(s, i), n) \in Peaks(t, n)
    BY DEF Peaks
  <2>1. i \in 1 .. Len(t)
    BY <1>1
  <2>2. Balance(Prefix(t, i), n) \in Peaks(t, n)
    BY <2>1 DEF Peaks
  <2>. QED BY <1>5, <2>2
<1>10. Balance(s, n) \in Peaks(s, n)
  <2>1. CASE Len(s) = 0
    <3>1. s = <<>>
      BY <2>1, EmptySeq
    <3>2. Balance(s, n) = 0
      BY <3>1, BalanceIs
    <3>. QED BY <3>2 DEF Peaks
  <2>2. CASE Len(s) # 0
    <3>1. Prefix(s, Len(s)) = s /\ Len(s) \in 1 .. Len(s)
      BY <1>1, <2>2, PrefixAppend
    <3>2. Balance(Prefix(s, Len(s)), n) \in Peaks(s, n)
      BY <3>1 DEF Peaks
    <3>. QED BY <3>1, <3>2
  <2>. QED BY <2>1, <2>2
<1>. QED BY <1>4, <1>7, <1>8, <1>9, <1>10 DEF t

\* The tokens since the last semicolon, itself included or not.
Unended(s, i, j) == {k \in 1 .. i : Lexed \in s[k] /\ \A l \in k .. j : ";" \notin s[l]}
Since(s) == Cardinality(Unended(s, Len(s), Len(s)))

\* A token lengthens the statement, and a semicolon begins another.
LEMMA SinceAppend ==
    ASSUME NEW S, NEW s \in Seq(S), NEW p \in S, NEW t, Longer(t, s, p)
    PROVE  /\ Since(s) \in Nat
           /\ \A i \in 1 .. Len(s) :
                 StatementUpTo(t, i) = StatementUpTo(s, i) /\ StatementUpTo(s, i) \in Nat
           /\ StatementUpTo(t, Len(s) + 1) = Since(s) + IF Lexed \in p THEN 1 ELSE 0
           /\ Since(t) = IF ";" \in p THEN 0
                         ELSE Since(s) + IF Lexed \in p THEN 1 ELSE 0
<1> DEFINE n == Len(s)
           more == Since(s) + IF Lexed \in p THEN 1 ELSE 0
<1>1. /\ n \in Nat /\ Len(t) = n + 1 /\ t[n + 1] = p
      /\ \A i \in 1 .. n : t[i] = s[i]
  BY AppendProperties DEF Longer
<1>2. \A i, j : \A u : StatementUpTo(u, i) = Cardinality(Unended(u, i, i - 1))
  BY DEF StatementUpTo, Unended
<1>3. ASSUME NEW u, NEW i \in Nat, NEW j
      PROVE  IsFiniteSet(Unended(u, i, j)) /\ Cardinality(Unended(u, i, j)) \in Nat
  <2>1. Unended(u, i, j) \subseteq 1 .. i
    BY DEF Unended
  <2>2. IsFiniteSet(1 .. i)
    <3>1. 1 \in Int /\ i \in Int
      OBVIOUS
    <3>. QED BY <3>1, FS_Interval
  <2>. QED BY <2>1, <2>2, FS_Subset, FS_CardinalityType
<1>4. ASSUME NEW i \in 1 .. n
      PROVE  StatementUpTo(t, i) = StatementUpTo(s, i) /\ StatementUpTo(s, i) \in Nat
  <2>1. Unended(t, i, i - 1) = Unended(s, i, i - 1)
    <3>1. ASSUME NEW k \in 1 .. i
          PROVE  /\ t[k] = s[k]
                 /\ \A l \in k .. i - 1 : t[l] = s[l]
      BY <1>1
    <3>. QED BY <3>1 DEF Unended
  <2>2. i \in Nat
    BY <1>1
  <2>. QED BY <1>2, <1>3, <2>1, <2>2
<1>5. Unended(t, n + 1, n) = Unended(s, n, n) \cup (IF Lexed \in p THEN {n + 1} ELSE {})
  <2>1. ASSUME NEW k \in 1 .. n
        PROVE  /\ t[k] = s[k]
               /\ \A l \in k .. n : t[l] = s[l]
    BY <1>1
  <2>2. (n + 1) .. n = {} /\ 1 .. n + 1 = (1 .. n) \cup {n + 1} /\ n + 1 \notin 1 .. n
    BY <1>1
  <2>3. ASSUME NEW k \in 1 .. n
        PROVE  k \in Unended(t, n + 1, n) <=> k \in Unended(s, n, n)
    BY <2>1, <2>2 DEF Unended
  <2>4. n + 1 \in Unended(t, n + 1, n) <=> Lexed \in p
    BY <1>1, <2>2 DEF Unended
  <2>5. Unended(t, n + 1, n) \subseteq 1 .. n + 1 /\ Unended(s, n, n) \subseteq 1 .. n
    BY DEF Unended
  <2>. QED BY <2>2, <2>3, <2>4, <2>5
<1>. HIDE DEF n
<1>6. Cardinality(Unended(t, n + 1, n)) = more
  <2>1. IsFiniteSet(Unended(s, n, n)) /\ Since(s) \in Nat /\ n + 1 \notin Unended(s, n, n)
    <3>1. n + 1 \notin Unended(s, n, n)
      <4>1. n \in Nat /\ \A k \in Unended(s, n, n) : k \in 1 .. n
        BY <1>1 DEF Unended
      <4>2. n + 1 \notin 1 .. n
        BY <4>1
      <4>. QED BY <4>1, <4>2
    <3>. QED BY <1>1, <1>3, <3>1 DEF Since, n
  <2>2. CASE Lexed \in p
    <3>1. Unended(t, n + 1, n) = Unended(s, n, n) \cup {n + 1}
      BY <1>5, <2>2
    <3>. QED BY <2>1, <2>2, <3>1, FS_AddElement DEF Since, n
  <2>3. CASE Lexed \notin p
    <3>1. Unended(t, n + 1, n) = Unended(s, n, n)
      BY <1>5, <2>3
    <3>. QED BY <2>1, <2>3, <3>1 DEF Since, n
  <2>. QED BY <2>2, <2>3
<1>7. Since(t) = IF ";" \in p THEN 0 ELSE more
  <2>1. CASE ";" \in p
    <3>1. ASSUME NEW k \in Unended(t, n + 1, n + 1) PROVE FALSE
      <4>1. k \in 1 .. n + 1
        BY DEF Unended
      <4>2. n + 1 \in k .. n + 1
        <5>1. n \in Nat /\ k \in Int /\ k <= n + 1
          BY <1>1, <4>1
        <5>. QED BY <5>1
      <4>3. \A l \in k .. n + 1 : ";" \notin t[l]
        BY DEF Unended
      <4>. QED BY <1>1, <2>1, <4>2, <4>3
    <3>2. Unended(t, n + 1, n + 1) = {}
      BY <3>1
    <3>3. Cardinality(Unended(t, n + 1, n + 1)) = 0
      BY <3>2, FS_EmptySet, Zenon
    <3>. QED BY <1>1, <2>1, <3>3 DEF Since
  <2>2. CASE ";" \notin p
    <3>1. Unended(t, n + 1, n + 1) = Unended(t, n + 1, n)
      <4>1. ASSUME NEW k \in 1 .. n + 1
            PROVE  (\A l \in k .. n + 1 : ";" \notin t[l])
                      <=> (\A l \in k .. n : ";" \notin t[l])
        <5>1. \A l \in k .. n + 1 : l = n + 1 \/ l \in k .. n
          BY <1>1
        <5>2. \A l \in k .. n : l \in k .. n + 1
          BY <1>1
        <5>3. ";" \notin t[n + 1]
          BY <1>1, <2>2
        <5>. QED BY <5>1, <5>2, <5>3
      <4>. QED BY <4>1 DEF Unended
    <3>2. Since(t) = Cardinality(Unended(t, n + 1, n + 1))
      BY <1>1 DEF Since
    <3>. QED BY <1>6, <2>2, <3>1, <3>2
  <2>. QED BY <2>1, <2>2
<1>8. StatementUpTo(t, n + 1) = more
  <2>1. ASSUME NEW i, i = n + 1 PROVE StatementUpTo(t, i) = more
    <3>1. StatementUpTo(t, i) = Cardinality(Unended(t, i, i - 1))
      BY <1>2
    <3>2. i - 1 = n
      BY <1>1, <2>1
    <3>. QED BY <1>6, <2>1, <3>1, <3>2, Zenon
  <2>. QED BY <2>1, Zenon
<1>9. Since(s) \in Nat
  BY <1>1, <1>3 DEF Since, n
<1>. QED BY <1>4, <1>7, <1>8, <1>9 DEF n

\* The lengths of the statements that have ended.
Statements(s) == {0} \cup {StatementUpTo(s, i) : i \in {j \in 1 .. Len(s) : ";" \in s[j]}}

\* A semicolon ends a statement, itself the last of its tokens.
LEMMA StatementsAppend ==
    ASSUME NEW S, NEW s \in Seq(S), NEW p \in S, NEW t, Longer(t, s, p)
    PROVE  /\ Statements(s) \in SUBSET Int
           /\ Statements(t) = IF ";" \in p
                              THEN Statements(s) \cup {Since(s) + IF Lexed \in p THEN 1 ELSE 0}
                              ELSE Statements(s)
<1> DEFINE n == Len(s)
           more == Since(s) + IF Lexed \in p THEN 1 ELSE 0
<1>1. /\ n \in Nat /\ Len(t) = n + 1 /\ t[n + 1] = p
      /\ \A i \in 1 .. n : t[i] = s[i]
  BY AppendProperties DEF Longer
<1>2. /\ \A i \in 1 .. n : StatementUpTo(t, i) = StatementUpTo(s, i)
      /\ \A i \in 1 .. n : StatementUpTo(s, i) \in Nat
      /\ StatementUpTo(t, n + 1) = more
  <2>1. \A i \in 1 .. n : StatementUpTo(t, i) = StatementUpTo(s, i)
                          /\ StatementUpTo(s, i) \in Nat
    BY SinceAppend
  <2>3. StatementUpTo(t, n + 1) = more
    BY SinceAppend, ZenonT(60)
  <2>. QED BY <2>1, <2>3
<1>3. Statements(s) \in SUBSET Int
  <2>1. ASSUME NEW i \in 1 .. n PROVE StatementUpTo(s, i) \in Int
    BY <1>2
  <2>2. ASSUME NEW x \in Statements(s) PROVE x = 0 \/ \E i \in 1 .. n : x = StatementUpTo(s, i)
    BY DEF Statements
  <2>. QED BY <2>1, <2>2
<1>. HIDE DEF n, more
<1>4. ASSUME NEW i \in 1 .. n
      PROVE  i \in 1 .. Len(t) /\ (";" \in t[i] <=> ";" \in s[i])
  <2>1. t[i] = s[i]
    BY <1>1
  <2>2. i \in 1 .. n + 1
    <3>1. n \in Nat
      BY <1>1
    <3>. QED BY <3>1
  <2>. QED BY <1>1, <2>1, <2>2
<1>5. Statements(s) \subseteq Statements(t)
  BY <1>2, <1>4 DEF Statements, n
<1>6. ASSUME NEW i \in 1 .. Len(t) PROVE i \in 1 .. n \/ i = n + 1
  BY <1>1
<1>7. n + 1 \in 1 .. Len(t)
  BY <1>1
<1>8. CASE ";" \in p
  <2>1. more \in Statements(t)
    <3>1. ASSUME NEW i \in 1 .. Len(t), ";" \in t[i]
          PROVE  StatementUpTo(t, i) \in Statements(t)
      BY <3>1 DEF Statements
    <3>. QED BY <1>1, <1>2, <1>7, <1>8, <3>1
  <2>2. Statements(t) \subseteq Statements(s) \cup {more}
    <3>. SUFFICES ASSUME NEW i \in 1 .. Len(t), ";" \in t[i]
                  PROVE  StatementUpTo(t, i) \in Statements(s) \cup {more}
      BY DEF Statements
    <3>1. CASE i \in 1 .. n
      BY <1>2, <1>4, <3>1 DEF Statements, n
    <3>2. CASE i = n + 1
      BY <1>2, <3>2
    <3>. QED BY <1>6, <3>1, <3>2
  <2>3. Statements(t) = Statements(s) \cup {more}
    BY <1>5, <2>1, <2>2
  <2>. QED BY <1>3, <1>8, <2>3 DEF more
<1>9. CASE ";" \notin p
  <2>1. Statements(t) \subseteq Statements(s)
    <3>. SUFFICES ASSUME NEW i \in 1 .. Len(t), ";" \in t[i]
                  PROVE  StatementUpTo(t, i) \in Statements(s)
      BY DEF Statements
    <3>1. i \in 1 .. n
      BY <1>1, <1>6, <1>9
    <3>. QED BY <1>2, <1>4, <3>1 DEF Statements, n
  <2>2. Statements(t) = Statements(s)
    BY <1>5, <2>1
  <2>. QED BY <1>3, <1>9, <2>2 DEF more
<1>. QED BY <1>8, <1>9

\* A meter holds what the marks say, and the length of the statement so far.
Fits(m, s) == Measures(m, s) /\ m.stmtlen = Since(s)

\* What it is to fit, conjunct by conjunct.
LEMMA FitsIs ==
    ASSUME NEW m, NEW s
    PROVE  Fits(m, s) <=>
              /\ \A n \in Counted : m.count[n] = Balance(s, n)
              /\ IsMaxOf(m.longest, Statements(s))
              /\ IsMaxOf(m.braces, Peaks(s, "bracenest"))
              /\ IsMaxOf(m.brackets, Peaks(s, "bracknest"))
              /\ m.operators = {k \in Operator : \E i \in 1 .. Len(s) : k \in s[i]}
              /\ m.stmtlen = Since(s)
BY DEF Fits, Measures, Statements, Peaks

\* Only one mark adds to n.
Only(n, mark) == Up[n] = {mark}

\* The two balances whose peaks are kept count one mark up.
LEMMA BracesCounted ==
    /\ "bracenest" \in Counted /\ "bracknest" \in Counted
    /\ Only("bracenest", "{") /\ Only("bracknest", "(")
BY DEF Counted, Up, Only

\* The peak of the balance of n, in a meter that looks when mark is read.
LEMMA PeakGrows ==
    ASSUME NEW S, NEW s \in Seq(S), NEW p \in S, NEW t, Longer(t, s, p),
           NEW n \in Counted, NEW mark, Only(n, mark), NEW k, k \in Nat, IsMaxOf(k, Peaks(s, n))
    PROVE  /\ (IF mark \in p THEN Greater(k, Balance(t, n)) ELSE k) \in Nat
           /\ IsMaxOf(IF mark \in p THEN Greater(k, Balance(t, n)) ELSE k, Peaks(t, n))
<1> DEFINE b == Balance(t, n)
           old == Balance(s, n)
<1>1. /\ Peaks(s, n) \in SUBSET Int /\ old \in Peaks(s, n)
      /\ Peaks(t, n) = Peaks(s, n) \cup {b}
  BY PeaksAppend DEF Longer
<1>2. /\ old \in Int
      /\ Cardinality(p \cap Up[n]) \in Nat /\ Cardinality(p \cap Down(n)) \in Nat
      /\ b = old + Cardinality(p \cap Up[n]) - Cardinality(p \cap Down(n))
  BY BalanceAppend, BalanceIs
<1>3. b \in Int
  BY <1>2
<1>4. old <= k
  BY <1>1 DEF IsMaxOf
<1>. HIDE DEF b, old
<1>5. IsMaxOf(Greater(k, b), Peaks(s, n) \cup {b})
      /\ (b <= k => IsMaxOf(k, Peaks(s, n) \cup {b}))
  <2>1. k \in Int
    OBVIOUS
  <2>. QED BY <1>1, <1>3, <2>1, MaxGrows
<1>6. Greater(k, b) \in Nat
  BY <1>3 DEF Greater
<1>7. ASSUME mark \notin p PROVE b <= k
  <2>1. p \cap Up[n] = {}
    BY <1>7 DEF Only
  <2>2. Cardinality(p \cap Up[n]) = 0
    BY <2>1, FS_EmptySet, Zenon
  <2>. QED BY <1>2, <1>4, <2>2
<1>8. Peaks(t, n) = Peaks(s, n) \cup {b} /\ k \in Nat
  BY <1>1
<1>9. CASE mark \in p
  BY <1>5, <1>6, <1>8, <1>9, Zenon DEF b
<1>10. CASE mark \notin p
  BY <1>5, <1>7, <1>8, <1>10, Zenon DEF b
<1>. QED BY <1>9, <1>10

\* Counting a mark keeps a meter to what was read.
LEMMA TallyFits ==
    ASSUME NEW S, NEW m \in Meter, NEW s \in Seq(S), NEW p \in S, Fits(m, s)
    PROVE  /\ Tally(m, p) \in Meter
           /\ Append(s, p) \in Seq(S)
           /\ Fits(Tally(m, p), Append(s, p))
<1> DEFINE t == Append(s, p)
           r == Tally(m, p)
           more == m.stmtlen + IF Lexed \in p THEN 1 ELSE 0
           count == [n \in Counted |-> m.count[n] + Cardinality(p \cap Up[n])
                                                 - Cardinality(p \cap Down(n))]
<1>0. Longer(t, s, p)
  BY DEF Longer
<1>1. /\ m.count \in [Counted -> Int] /\ m.stmtlen \in Nat /\ m.longest \in Nat
      /\ m.braces \in Nat /\ m.brackets \in Nat /\ m.operators \in SUBSET Operator
      /\ m.nuop \in Nat
  BY DEF Meter
<1>2. /\ \A n \in Counted : m.count[n] = Balance(s, n)
      /\ IsMaxOf(m.longest, Statements(s))
      /\ IsMaxOf(m.braces, Peaks(s, "bracenest"))
      /\ IsMaxOf(m.brackets, Peaks(s, "bracknest"))
      /\ m.operators = {k \in Operator : \E i \in 1 .. Len(s) : k \in s[i]}
      /\ m.stmtlen = Since(s)
  BY FitsIs
<1>3. /\ t \in Seq(S) /\ Len(t) = Len(s) + 1 /\ t[Len(s) + 1] = p
      /\ \A i \in 1 .. Len(s) : t[i] = s[i]
  BY AppendProperties
<1>4. /\ r.count = count
      /\ r.stmtlen = IF ";" \in p THEN 0 ELSE more
      /\ r.longest = IF ";" \in p THEN Greater(m.longest, more) ELSE m.longest
      /\ r.braces = IF "{" \in p THEN Greater(m.braces, count.bracenest) ELSE m.braces
      /\ r.brackets = IF "(" \in p THEN Greater(m.brackets, count.bracknest) ELSE m.brackets
      /\ r.operators = m.operators \cup (p \cap Operator)
      /\ r.nuop = m.nuop
      /\ r = [count |-> r.count, stmtlen |-> r.stmtlen, longest |-> r.longest,
              braces |-> r.braces, brackets |-> r.brackets,
              operators |-> r.operators, nuop |-> r.nuop]
  <2> DEFINE len == IF Lexed \in p THEN m.stmtlen + 1 ELSE m.stmtlen
  <2>1. len = more
    BY <1>1
  <2>2. r = [count |-> count, stmtlen |-> IF ";" \in p THEN 0 ELSE len,
             longest |-> IF ";" \in p THEN Greater(m.longest, len) ELSE m.longest,
             braces |-> IF "{" \in p THEN Greater(m.braces, count.bracenest) ELSE m.braces,
             brackets |-> IF "(" \in p THEN Greater(m.brackets, count.bracknest) ELSE m.brackets,
             operators |-> m.operators \cup (p \cap Operator),
             nuop |-> m.nuop]
    BY Zenon DEF Tally
  <2>. HIDE DEF r, count, len, more
  <2>. QED BY <2>1, <2>2
<1>5. count \in [Counted -> Int] /\ \A n \in Counted : count[n] = Balance(t, n)
  <2>1. ASSUME NEW n \in Counted PROVE count[n] = Balance(t, n) /\ count[n] \in Int
    <3>1. /\ Balance(s, n) \in Int
          /\ Cardinality(p \cap Up[n]) \in Nat /\ Cardinality(p \cap Down(n)) \in Nat
          /\ Balance(t, n) = Balance(s, n) + Cardinality(p \cap Up[n])
                                           - Cardinality(p \cap Down(n))
      BY <1>0, BalanceAppend, BalanceIs
    <3>2. m.count[n] = Balance(s, n)
      BY <1>2
    <3>3. count[n] = m.count[n] + Cardinality(p \cap Up[n]) - Cardinality(p \cap Down(n))
      OBVIOUS
    <3>. HIDE DEF count, t
    <3>. QED BY <3>1, <3>2, <3>3
  <2>. QED BY <2>1
<1>. HIDE DEF t
<1>6. Since(t) = (IF ";" \in p THEN 0 ELSE more)
      /\ Statements(t) = (IF ";" \in p THEN Statements(s) \cup {more} ELSE Statements(s))
      /\ Statements(s) \in SUBSET Int
  <2>1. Since(t) = IF ";" \in p THEN 0 ELSE Since(s) + IF Lexed \in p THEN 1 ELSE 0
    BY <1>0, SinceAppend, ZenonT(60)
  <2>2. Statements(t) = IF ";" \in p
                        THEN Statements(s) \cup {Since(s) + IF Lexed \in p THEN 1 ELSE 0}
                        ELSE Statements(s)
    BY <1>0, StatementsAppend
  <2>3. Statements(s) \in SUBSET Int
    BY <1>0, StatementsAppend
  <2>. HIDE DEF t
  <2>. QED BY <1>2, <2>1, <2>2, <2>3, Zenon
<1>7. more \in Nat
  BY <1>1
<1>8. IsMaxOf(r.longest, Statements(t)) /\ r.longest \in Nat
  <2>1. m.longest \in Int /\ more \in Int
    BY <1>1, <1>7
  <2>2. IsMaxOf(Greater(m.longest, more), Statements(s) \cup {more})
    BY <1>2, <1>6, <2>1, MaxGrows
  <2>3. Greater(m.longest, more) \in Nat
    BY <1>1, <1>7 DEF Greater
  <2>. HIDE DEF r, t, more
  <2>4. CASE ";" \in p
    BY <1>4, <1>6, <2>2, <2>3, <2>4, Zenon
  <2>5. CASE ";" \notin p
    BY <1>1, <1>2, <1>4, <1>6, <2>5, Zenon
  <2>. QED BY <2>4, <2>5
<1>9. IsMaxOf(r.braces, Peaks(t, "bracenest")) /\ r.braces \in Nat
  <2> DEFINE new == IF "{" \in p THEN Greater(m.braces, Balance(t, "bracenest")) ELSE m.braces
  <2>1. m.braces \in Nat /\ IsMaxOf(m.braces, Peaks(s, "bracenest"))
    BY <1>1, <1>2
  <2>3. "bracenest" \in Counted /\ Only("bracenest", "{")
    BY BracesCounted
  <2>4. new \in Nat /\ IsMaxOf(new, Peaks(t, "bracenest"))
    BY <1>0, <2>1, <2>3, PeakGrows, ZenonT(60)
  <2>2. count.bracenest = Balance(t, "bracenest")
    BY <1>5, BracesCounted
  <2>. HIDE DEF r, t, count
  <2>. QED BY <1>4, <2>2, <2>4, Zenon
<1>10. IsMaxOf(r.brackets, Peaks(t, "bracknest")) /\ r.brackets \in Nat
  <2> DEFINE new == IF "(" \in p THEN Greater(m.brackets, Balance(t, "bracknest")) ELSE m.brackets
  <2>1. m.brackets \in Nat /\ IsMaxOf(m.brackets, Peaks(s, "bracknest"))
    BY <1>1, <1>2
  <2>3. "bracknest" \in Counted /\ Only("bracknest", "(")
    BY BracesCounted
  <2>4. new \in Nat /\ IsMaxOf(new, Peaks(t, "bracknest"))
    BY <1>0, <2>1, <2>3, PeakGrows, ZenonT(60)
  <2>2. count.bracknest = Balance(t, "bracknest")
    BY <1>5, BracesCounted
  <2>. HIDE DEF r, t, count
  <2>. QED BY <1>4, <2>2, <2>4, Zenon
<1>11. r.operators = {k \in Operator : \E i \in 1 .. Len(t) : k \in t[i]}
       /\ r.operators \in SUBSET Operator
  <2>1. ASSUME NEW k \in Operator
        PROVE  (\E i \in 1 .. Len(t) : k \in t[i])
                  <=> k \in p \/ \E i \in 1 .. Len(s) : k \in s[i]
    <3>1. ASSUME NEW i \in 1 .. Len(t) PROVE i \in 1 .. Len(s) \/ i = Len(s) + 1
      BY <1>3
    <3>2. /\ Len(s) + 1 \in 1 .. Len(t)
          /\ \A i \in 1 .. Len(s) : i \in 1 .. Len(t)
      BY <1>3
    <3>. HIDE DEF t
    <3>. QED BY <1>3, <3>1, <3>2
  <2>. HIDE DEF r, t
  <2>. QED BY <1>1, <1>2, <1>4, <2>1
<1>. HIDE DEF r, t, count, more
<1>12. r.stmtlen \in Nat
  <2>1. r.stmtlen = 0 \/ r.stmtlen = more
    BY <1>4, Zenon
  <2>. QED BY <1>7, <2>1
<1>13. r \in Meter
  BY <1>1, <1>4, <1>5, <1>8, <1>9, <1>10, <1>11, <1>12 DEF Meter
<1>14. Fits(r, t)
  BY <1>4, <1>5, <1>6, <1>8, <1>9, <1>10, <1>11, FitsIs, Zenon
<1>. QED BY <1>3, <1>13, <1>14 DEF r, t

\* So does counting nothing.
LEMMA NothingFits == NoMeter \in Meter /\ Fits(NoMeter, <<>>)
<1>1. NoMeter \in Meter
  BY DEF NoMeter, Meter
<1>2. \A n \in Counted : Balance(<<>>, n) = 0
  BY TimesEmpty DEF Balance
<1>3. Since(<<>>) = 0
  <2>1. Unended(<<>>, Len(<<>>), Len(<<>>)) = {}
    BY DEF Unended
  <2>. QED BY <2>1, FS_EmptySet, Zenon DEF Since
<1>4. /\ Statements(<<>>) = {0} /\ Peaks(<<>>, "bracenest") = {0}
      /\ Peaks(<<>>, "bracknest") = {0}
  BY DEF Statements, Peaks
<1>5. IsMaxOf(0, {0})
  BY DEF IsMaxOf
<1>. QED
  <2>1. /\ \A n \in Counted : NoMeter.count[n] = 0
        /\ NoMeter.stmtlen = 0 /\ NoMeter.longest = 0 /\ NoMeter.braces = 0
        /\ NoMeter.brackets = 0 /\ NoMeter.operators = {}
    BY DEF NoMeter
  <2>2. {k \in Operator : \E i \in 1 .. Len(<<>>) : k \in <<>>[i]} = {}
    OBVIOUS
  <2>. QED BY <1>1, <1>2, <1>3, <1>4, <1>5, <2>1, <2>2, FitsIs

-----------------------------------------------------------------------------
(* What is open, and what is complete                                      *)

\* The entries of the stack of files, and of the stack of functions.
Opening == [who : File, pos : Nat \ {0}, time : Nat]
Running == [who : Fun, time : Nat, base : Nat]

\* Of a stack s of the entities X: none is on it twice, unless it was begun
\* again; an entry has one of the times its entity was begun; and those that
\* are complete are those that were begun and whose first time is over.
Once(s, A) == \A i, j \in 1 .. Len(s) : i # j /\ s[i].who = s[j].who => s[i].who \in A
Begun(s, O) == \A i \in 1 .. Len(s) : s[i].time \in 1 .. O[s[i].who]
Ended(s, X, A, O, P) ==
    \A x \in X \ A :
        x \in P <=> O[x] > 0 /\ \A i \in 1 .. Len(s) : s[i].who = x => s[i].time # 1
StackOK(s, X, A, O, P) == Once(s, A) /\ Begun(s, O) /\ Ended(s, X, A, O, P)
StackInv(s, X) == StackOK(s, X, again, opened, processed)

\* The inductive invariant of the stacks.
InputInv ==
    /\ open \in Seq(Opening) /\ expand \in Seq(Item) /\ nesting \in Seq(Running)
    /\ opened \in [Entity -> Nat]
    /\ again \subseteq Entity /\ processed \subseteq Entity
    /\ StackInv(open, File) /\ StackInv(nesting, Fun)

\* Files and functions are different entities.
LEMMA EntitiesApart ==
    /\ File \subseteq Entity /\ Fun \subseteq Entity /\ File \cap Fun = {}
BY MetricsAssumption DEF Entity

\* Of those on top, the first time is the one that is not complete.
LEMMA TopIsFirst ==
    ASSUME NEW S, NEW s \in Seq(S), NEW X, X \subseteq Entity, StackInv(s, X),
           opened \in [Entity -> Nat], Len(s) > 0, Top(s).who \in X \ again
    PROVE  Top(s).who \notin processed <=> Top(s).time = 1
<1> DEFINE n == Len(s)
           x == s[n].who
<1>1. n \in 1 .. Len(s) /\ Top(s) = s[n]
  BY DEF Top
<1>2. x \in X \ again /\ opened[x] \in Nat /\ s[n].time \in 1 .. opened[x]
  BY <1>1 DEF StackInv, StackOK, Begun
<1>3. opened[x] > 0
  BY <1>2
<1>4. \A i \in 1 .. Len(s) : s[i].who = x => i = n
  BY <1>1, <1>2 DEF StackInv, StackOK, Once
<1>5. x \in processed <=> \A i \in 1 .. Len(s) : s[i].who = x => s[i].time # 1
  BY <1>2, <1>3 DEF StackInv, StackOK, Ended
<1>. QED BY <1>1, <1>4, <1>5

\* What is charged is charged to those whose metrics are not complete, and
\* these are the ones for whom it is the first time.
LEMMA CurrentIsFirst ==
    ASSUME InputInv, open # <<>>
    PROVE  /\ FileNow \in File /\ FunNow \subseteq Fun /\ Current \subseteq Entity
           /\ \A x \in Current \ again : x \notin processed <=> x \in First
<1>1. Len(open) > 0 /\ open \in Seq(Opening)
  BY EmptySeq DEF InputInv
<1>2. Top(open) \in Opening /\ FileNow \in File
  <2>1. Top(open) \in Opening
    BY <1>1 DEF Top
  <2>. QED BY <2>1 DEF Opening, FileNow
<1>3. nesting # <<>> => Len(nesting) > 0 /\ Top(nesting) \in Running
  BY EmptySeq DEF InputInv, Top
<1>4. FunNow \subseteq Fun
  BY <1>3 DEF FunNow, Running
<1>5. ASSUME FileNow \notin again PROVE FileNow \notin processed <=> FileNow \in First
  <2>1. FileNow \notin processed <=> Top(open).time = 1
    BY <1>1, <1>2, <1>5, EntitiesApart, TopIsFirst DEF InputInv, FileNow
  <2>2. FileNow \notin FunNow
    BY <1>2, <1>4, EntitiesApart
  <2>. QED BY <2>1, <2>2 DEF First
<1>6. ASSUME NEW x \in FunNow, x \notin again PROVE x \notin processed <=> x \in First
  <2>1. nesting # <<>> /\ x = Top(nesting).who
    BY DEF FunNow
  <2>2. x \in Fun \ again /\ Len(nesting) > 0
    BY <1>3, <1>4, <1>6, <2>1
  <2>3. x \notin processed <=> Top(nesting).time = 1
    BY <2>1, <2>2, EntitiesApart, TopIsFirst DEF InputInv
  <2>4. x # FileNow
    BY <1>2, <2>2, EntitiesApart
  <2>. QED BY <2>1, <2>3, <2>4 DEF First
<1>. QED BY <1>2, <1>4, <1>5, <1>6, EntitiesApart DEF Current

\* What comes next is an item.
LEMMA HereIs ==
    ASSUME InputInv, open # <<>>, ~AtEnd
    PROVE  Here \in Item /\ ItemOK(Here)
<1>1. Len(open) > 0 /\ open \in Seq(Opening) /\ expand \in Seq(Item)
  BY EmptySeq DEF InputInv
<1>2. FileNow \in File /\ Top(open).pos \in Nat \ {0}
  <2>1. Top(open) \in Opening
    BY <1>1 DEF Top
  <2>. QED BY <2>1 DEF Opening, FileNow
<1>3. Here \in Item
  <2>1. CASE expand # <<>>
    BY <1>1, <2>1 DEF Here
  <2>2. CASE expand = <<>>
    <3>1. Text[FileNow] \in Seq(Item)
      BY <1>2, MetricsAssumption
    <3>2. ~(Top(open).pos > Len(Text[FileNow]))
      BY <2>2 DEF AtEnd
    <3>3. Top(open).pos \in 1 .. Len(Text[FileNow])
      BY <1>2, <3>1, <3>2
    <3>. QED BY <2>2, <3>1, <3>3 DEF Here
  <2>. QED BY <2>1, <2>2
<1>. QED BY <1>3, MetricsAssumption

\* Before the end of the file there is an item to read.
LEMMA KindIs ==
    ASSUME InputInv, open # <<>>, Kind # "end of file"
    PROVE  ~AtEnd /\ Here \in Item /\ ItemOK(Here) /\ Kind = Here.do
BY HereIs DEF Kind

\* Moving on in a file.
LEMMA PastItemIs ==
    ASSUME InputInv, open # <<>>
    PROVE  /\ PastItem \in Seq(Opening) /\ Len(PastItem) = Len(open)
           /\ \A i \in 1 .. Len(open) : /\ PastItem[i].who = open[i].who
                                        /\ PastItem[i].time = open[i].time
<1> DEFINE v == [Top(open) EXCEPT !.pos = @ + 1]
<1>1. Len(open) > 0 /\ open \in Seq(Opening)
  BY EmptySeq DEF InputInv
<1>2. Top(open) \in Opening /\ Top(open) = open[Len(open)]
  BY <1>1 DEF Top
<1>3. v \in Opening /\ v.who = Top(open).who /\ v.time = Top(open).time
  BY <1>2 DEF Opening
<1>. HIDE DEF v
<1>4. /\ Retop(open, v) \in Seq(Opening) /\ Len(Retop(open, v)) = Len(open)
      /\ \A i \in 1 .. Len(open) - 1 : Retop(open, v)[i] = open[i]
      /\ Retop(open, v)[Len(open)] = v
  BY <1>1, <1>3, RetopFacts
<1>5. PastItem = Retop(open, v)
  BY DEF PastItem, v
<1>6. ASSUME NEW i \in 1 .. Len(open)
      PROVE  Retop(open, v)[i].who = open[i].who /\ Retop(open, v)[i].time = open[i].time
  <2>1. CASE i = Len(open)
    BY <1>2, <1>3, <1>4, <2>1
  <2>2. CASE i # Len(open)
    <3>1. i \in 1 .. Len(open) - 1
      BY <1>1, <2>2
    <3>. QED BY <1>4, <3>1
  <2>. QED BY <2>1, <2>2
<1>. QED BY <1>4, <1>5, <1>6

\* A stack whose entries are those of another.
Alike(t, s) ==
    Len(t) = Len(s) /\ \A i \in 1 .. Len(s) : t[i].who = s[i].who /\ t[i].time = s[i].time

\* A stack that differs in the positions only is as good.
LEMMA AlikeStack ==
    ASSUME NEW s, NEW t, NEW X, StackInv(s, X), Alike(t, s)
    PROVE  StackInv(t, X)
BY DEF StackInv, StackOK, Once, Begun, Ended, Alike

\* The steps that move on: nothing is begun or ended.
Onward ==
    /\ open' \in Seq(Opening) /\ Alike(open', open)
    /\ expand' \in Seq(Item)
    /\ UNCHANGED <<nesting, opened, again, processed>>

\* Moving on keeps the invariant.
LEMMA OnwardInput == ASSUME InputInv, Onward PROVE InputInv'
<1>1. StackInv(open', File)
  BY AlikeStack DEF InputInv, Onward
<1>2. StackInv(open, File)' /\ StackInv(nesting, Fun)'
  BY <1>1 DEF InputInv, Onward, StackInv
<1>. QED BY <1>2 DEF InputInv, Onward

\* A stack is like itself.
LEMMA AlikeIs == \A s : Alike(s, s)
BY DEF Alike

\* An entity is begun: it is on top, with the next time.
Pushed(t, s, x, O) ==
    /\ Len(t) = Len(s) + 1
    /\ \A i \in 1 .. Len(s) : t[i].who = s[i].who /\ t[i].time = s[i].time
    /\ t[Len(s) + 1].who = x /\ t[Len(s) + 1].time = O[x] + 1
\* x is on the stack s.
On(x, s) == \E i \in 1 .. Len(s) : s[i].who = x

\* Beginning x: it is counted, and begun again if it was on the stack.
LEMMA Push ==
    ASSUME NEW s, Len(s) \in Nat, NEW X, X \subseteq Entity,
           NEW A, NEW O, O \in [Entity -> Nat], NEW P,
           \A i \in 1 .. Len(s) : s[i].who \in X,
           StackOK(s, X, A, O, P), NEW x \in X, NEW t, Pushed(t, s, x, O), NEW B,
           B = IF On(x, s) THEN A \cup {x} ELSE A
    PROVE  StackOK(t, X, B, [O EXCEPT ![x] = @ + 1], P)
<1> DEFINE n == Len(s)
           N == [O EXCEPT ![x] = @ + 1]
<1>1. /\ n \in Nat /\ Len(t) = n + 1 /\ x \in Entity
      /\ \A i \in 1 .. n : t[i].who = s[i].who /\ t[i].time = s[i].time
      /\ t[n + 1].who = x /\ t[n + 1].time = O[x] + 1
  BY DEF Pushed
<1>2. /\ O[x] \in Nat /\ N[x] = O[x] + 1
      /\ \A y \in Entity : y # x => N[y] = O[y]
  BY <1>1
<1>3. ASSUME NEW i \in 1 .. Len(t) PROVE i \in 1 .. n \/ i = n + 1
  BY <1>1
<1>4. A \subseteq B /\ (On(x, s) => x \in B) /\ \A y \in B : y \in A \/ y = x
  OBVIOUS
<1>5. Once(s, A) /\ Begun(s, O) /\ Ended(s, X, A, O, P)
  BY DEF StackOK
<1>. HIDE DEF n, N
<1>6. Once(t, B)
  <2>. SUFFICES ASSUME NEW i \in 1 .. Len(t), NEW j \in 1 .. Len(t), i # j,
                       t[i].who = t[j].who
                PROVE  t[i].who \in B
    BY DEF Once
  <2>1. CASE i \in 1 .. n /\ j \in 1 .. n
    BY <1>1, <1>4, <1>5, <2>1 DEF Once, n
  <2>2. CASE i = n + 1 /\ j \in 1 .. n
    BY <1>1, <1>4, <2>2 DEF On, n
  <2>3. CASE j = n + 1 /\ i \in 1 .. n
    BY <1>1, <1>4, <2>3 DEF On, n
  <2>. QED BY <1>3, <2>1, <2>2, <2>3
<1>7. Begun(t, N)
  <2>. SUFFICES ASSUME NEW i \in 1 .. Len(t) PROVE t[i].time \in 1 .. N[t[i].who]
    BY DEF Begun
  <2>1. CASE i = n + 1
    BY <1>1, <1>2, <2>1
  <2>2. CASE i \in 1 .. n
    <3>1. /\ t[i].time = s[i].time /\ t[i].who = s[i].who /\ s[i].who \in Entity
          /\ s[i].time \in 1 .. O[s[i].who]
      BY <1>1, <1>5, <2>2 DEF Begun, n
    <3>2. N[s[i].who] = O[s[i].who] \/ (s[i].who = x /\ N[x] = O[x] + 1)
      BY <1>2, <3>1
    <3>3. O[s[i].who] \in Nat
      BY <3>1
    <3>. QED BY <1>2, <3>1, <3>2, <3>3
  <2>. QED BY <1>3, <2>1, <2>2
<1>8. Ended(t, X, B, N, P)
  <2>. SUFFICES ASSUME NEW y \in X \ B
                PROVE  y \in P <=>
                         N[y] > 0 /\ \A i \in 1 .. Len(t) : t[i].who = y => t[i].time # 1
    BY DEF Ended
  <2>1. y \notin A /\ y \in Entity /\ O[y] \in Nat
    BY <1>4
  <2>2. y \in P <=> O[y] > 0 /\ \A i \in 1 .. n : s[i].who = y => s[i].time # 1
    BY <1>5, <2>1 DEF Ended, n
  <2>3. (\A i \in 1 .. Len(t) : t[i].who = y => t[i].time # 1)
          <=> /\ \A i \in 1 .. n : s[i].who = y => s[i].time # 1
              /\ y = x => O[x] # 0
    <3>1. n + 1 \in 1 .. Len(t) /\ \A i \in 1 .. n : i \in 1 .. Len(t)
      BY <1>1
    <3>2. (\A i \in 1 .. Len(t) : t[i].who = y => t[i].time # 1)
            <=> /\ \A i \in 1 .. n : t[i].who = y => t[i].time # 1
                /\ t[n + 1].who = y => t[n + 1].time # 1
      BY <1>3, <3>1
    <3>3. (t[n + 1].who = y => t[n + 1].time # 1) <=> (y = x => O[x] # 0)
      BY <1>1, <1>2
    <3>4. (\A i \in 1 .. n : t[i].who = y => t[i].time # 1)
            <=> (\A i \in 1 .. n : s[i].who = y => s[i].time # 1)
      BY <1>1
    <3>. QED BY <3>2, <3>3, <3>4
  <2>4. CASE y # x
    BY <1>2, <2>1, <2>2, <2>3, <2>4
  <2>5. CASE y = x
    <3>1. \A i \in 1 .. n : s[i].who # x
      BY <1>4, <2>5 DEF On, n
    <3>. QED BY <1>2, <2>1, <2>2, <2>3, <2>5, <3>1
  <2>. QED BY <2>4, <2>5
<1>. QED BY <1>6, <1>7, <1>8 DEF StackOK, N

\* An entity has ended: it was on top.
Popped(t, s) ==
    /\ Len(s) > 0 /\ Len(t) = Len(s) - 1
    /\ \A i \in 1 .. Len(s) - 1 : t[i].who = s[i].who /\ t[i].time = s[i].time

\* Ending the last: it is complete.
LEMMA PopStack ==
    ASSUME NEW s, Len(s) \in Nat, NEW X, NEW A, NEW O, NEW P,
           \A i \in 1 .. Len(s) : O[s[i].who] \in Nat,
           StackOK(s, X, A, O, P), NEW t, Popped(t, s)
    PROVE  StackOK(t, X, A, O, P \cup {s[Len(s)].who})
<1> DEFINE n == Len(s)
           x == s[n].who
           Q == P \cup {x}
<1>1. /\ n \in Nat /\ n > 0 /\ Len(t) = n - 1
      /\ \A i \in 1 .. n - 1 : t[i].who = s[i].who /\ t[i].time = s[i].time
  BY DEF Popped
<1>2. Once(s, A) /\ Begun(s, O) /\ Ended(s, X, A, O, P)
  BY DEF StackOK
<1>3. n \in 1 .. n /\ \A i \in 1 .. n : i \in 1 .. n - 1 \/ i = n
  BY <1>1
<1>4. \A i \in 1 .. n - 1 : i \in 1 .. n /\ i # n
  BY <1>1
<1>5. O[x] > 0
  BY <1>2, <1>3 DEF Begun
<1>. HIDE DEF n
<1>6. Once(t, A)
  BY <1>1, <1>2, <1>4 DEF Once, n
<1>7. Begun(t, O)
  BY <1>1, <1>2, <1>4 DEF Begun, n
<1>8. Ended(t, X, A, O, Q)
  <2>. SUFFICES ASSUME NEW y \in X \ A
                PROVE  y \in Q <=>
                         O[y] > 0 /\ \A i \in 1 .. n - 1 : s[i].who = y => s[i].time # 1
    BY <1>1 DEF Ended
  <2>1. y \in P <=> O[y] > 0 /\ \A i \in 1 .. n : s[i].who = y => s[i].time # 1
    BY <1>2 DEF Ended, n
  <2>2. CASE y # x
    BY <1>3, <1>4, <2>1, <2>2
  <2>3. CASE y = x
    <3>1. \A i \in 1 .. n - 1 : s[i].who # x
      BY <1>2, <1>3, <1>4, <2>3 DEF Once, n
    <3>. QED BY <1>5, <2>3, <3>1
  <2>. QED BY <2>2, <2>3
<1>. QED BY <1>6, <1>7, <1>8 DEF StackOK, n

\* What happens to other entities does not matter to a stack.
LEMMA Elsewhere ==
    ASSUME NEW s, NEW X, NEW A, NEW O, NEW P, StackOK(s, X, A, O, P),
           \A i \in 1 .. Len(s) : s[i].who \in X, NEW B, NEW N, NEW Q,
           \A x \in X : (x \in A <=> x \in B) /\ O[x] = N[x] /\ (x \in P <=> x \in Q)
    PROVE  StackOK(s, X, B, N, Q)
BY DEF StackOK, Once, Begun, Ended

\* The entries are entities, and both stacks are as the invariant says.
LEMMA WhoIs ==
    ASSUME InputInv
    PROVE  /\ Len(open) \in Nat /\ Len(nesting) \in Nat
           /\ \A i \in 1 .. Len(open) : open[i].who \in File
           /\ \A i \in 1 .. Len(nesting) : nesting[i].who \in Fun
           /\ \A x \in Entity : opened[x] \in Nat
           /\ StackOK(open, File, again, opened, processed)
           /\ StackOK(nesting, Fun, again, opened, processed)
<1>1. open \in Seq(Opening) /\ nesting \in Seq(Running)
  BY DEF InputInv
<1>2. \A i \in 1 .. Len(open) : open[i] \in Opening
  BY <1>1
<1>3. \A i \in 1 .. Len(nesting) : nesting[i] \in Running
  BY <1>1
<1>4. Len(open) \in Nat /\ Len(nesting) \in Nat
  BY <1>1
<1>5. /\ \A i \in 1 .. Len(open) : open[i].who \in File
      /\ \A i \in 1 .. Len(nesting) : nesting[i].who \in Fun
  BY <1>2, <1>3 DEF Opening, Running
<1>. QED BY <1>4, <1>5 DEF InputInv, StackInv

\* Begun again while it is not over.
Again(x, s) == again' = IF On(x, s) THEN again \cup {x} ELSE again
\* One more beginning of x.
Counts(x) == opened' = [opened EXCEPT ![x] = @ + 1]

\* What the steps of a kind do to the stacks: nothing is begun or ended; a
\* file is opened; a file is closed; a function is entered; one is left.
Stays == open' \in Seq(Opening) /\ Alike(open', open) /\ expand' \in Seq(Item)
Opens ==
    \E file \in File :
        /\ open' \in Seq(Opening) /\ Pushed(open', open, file, opened)
        /\ Counts(file) /\ Again(file, open)
        /\ UNCHANGED <<processed, nesting, expand>>
Closes ==
    /\ open # <<>> /\ open' \in Seq(Opening) /\ Popped(open', open)
    /\ processed' = processed \cup {FileNow}
    /\ UNCHANGED <<opened, again, nesting, expand>>
Enters ==
    \E f \in Fun :
        /\ nesting' \in Seq(Running) /\ Pushed(nesting', nesting, f, opened)
        /\ Counts(f) /\ Again(f, nesting)
        /\ Stays /\ UNCHANGED processed
Leaves ==
    /\ nesting # <<>> /\ nesting' \in Seq(Running) /\ Popped(nesting', nesting)
    /\ processed' = processed \cup {Top(nesting).who}
    /\ Stays /\ UNCHANGED <<opened, again>>

\* Whatever X is begun, sets and counts keep their types.
LEMMA CountsIs ==
    ASSUME InputInv, NEW x \in Entity, NEW s, Counts(x), Again(x, s)
    PROVE  /\ opened' \in [Entity -> Nat] /\ again' \subseteq Entity
           /\ \A y \in Entity : y # x => opened'[y] = opened[y] /\ (y \in again' <=> y \in again)
BY DEF InputInv, Counts, Again

\* Opening a file keeps the invariant.
LEMMA OpensInput == ASSUME InputInv, Opens PROVE InputInv'
<1>1. PICK file \in File :
        /\ open' \in Seq(Opening) /\ Pushed(open', open, file, opened)
        /\ Counts(file) /\ Again(file, open)
        /\ UNCHANGED <<processed, nesting, expand>>
  BY DEF Opens
<1>2. file \in Entity /\ file \notin Fun /\ File \subseteq Entity /\ Fun \subseteq Entity
  BY EntitiesApart
<1>3. /\ opened' \in [Entity -> Nat] /\ again' \subseteq Entity
      /\ \A y \in Entity : y # file => opened'[y] = opened[y] /\ (y \in again' <=> y \in again)
  BY <1>1, <1>2, CountsIs
<1>4. StackOK(open', File, again', [opened EXCEPT ![file] = @ + 1], processed)
  <2>1. again' = IF On(file, open) THEN again \cup {file} ELSE again
    BY <1>1 DEF Again
  <2>2. opened \in [Entity -> Nat]
    BY DEF InputInv
  <2>. QED BY <1>1, <1>2, <2>1, <2>2, WhoIs, Push
<1>5. StackOK(nesting, Fun, again', opened', processed)
  <2>1. \A x \in Fun : (x \in again <=> x \in again') /\ opened[x] = opened'[x]
                       /\ (x \in processed <=> x \in processed)
    BY <1>2, <1>3
  <2>. QED BY <2>1, WhoIs, Elsewhere
<1>. QED BY <1>1, <1>3, <1>4, <1>5 DEF InputInv, StackInv, Counts

\* Closing a file keeps it.
LEMMA ClosesInput == ASSUME InputInv, Closes PROVE InputInv'
<1>1. FileNow \in File /\ FileNow \notin Fun /\ FileNow \in Entity
  BY CurrentIsFirst, EntitiesApart DEF Closes
<1>2. StackOK(open', File, again, opened, processed \cup {open[Len(open)].who})
  <2>1. \A i \in 1 .. Len(open) : opened[open[i].who] \in Nat
    BY WhoIs, EntitiesApart
  <2>. QED BY <2>1, WhoIs, PopStack DEF Closes
<1>3. FileNow = open[Len(open)].who
  BY DEF FileNow, Top
<1>4. StackOK(open', File, again, opened, processed \cup {FileNow})
  BY <1>2, <1>3
<1>5. StackOK(nesting, Fun, again, opened, processed \cup {FileNow})
  <2>1. \A x \in Fun : (x \in again <=> x \in again) /\ opened[x] = opened[x]
                       /\ (x \in processed <=> x \in processed \cup {FileNow})
    BY <1>1
  <2>. QED BY <2>1, WhoIs, Elsewhere
<1>. QED BY <1>1, <1>4, <1>5 DEF InputInv, StackInv, Closes

\* Entering a function keeps it.
LEMMA EntersInput == ASSUME InputInv, Enters PROVE InputInv'
<1>1. PICK f \in Fun :
        /\ nesting' \in Seq(Running) /\ Pushed(nesting', nesting, f, opened)
        /\ Counts(f) /\ Again(f, nesting)
        /\ Stays /\ UNCHANGED processed
  BY DEF Enters
<1>2. f \in Entity /\ f \notin File /\ File \subseteq Entity /\ Fun \subseteq Entity
  BY EntitiesApart
<1>3. /\ opened' \in [Entity -> Nat] /\ again' \subseteq Entity
      /\ \A y \in Entity : y # f => opened'[y] = opened[y] /\ (y \in again' <=> y \in again)
  BY <1>1, <1>2, CountsIs
<1>4. StackOK(nesting', Fun, again', [opened EXCEPT ![f] = @ + 1], processed)
  <2>1. again' = IF On(f, nesting) THEN again \cup {f} ELSE again
    BY <1>1 DEF Again
  <2>2. opened \in [Entity -> Nat]
    BY DEF InputInv
  <2>. QED BY <1>1, <1>2, <2>1, <2>2, WhoIs, Push
<1>5. StackOK(open', File, again', opened', processed)
  <2>1. \A x \in File : (x \in again <=> x \in again') /\ opened[x] = opened'[x]
                        /\ (x \in processed <=> x \in processed)
    BY <1>2, <1>3
  <2>2. StackOK(open', File, again, opened, processed)
    BY <1>1, AlikeStack DEF InputInv, Stays, StackInv
  <2>3. \A i \in 1 .. Len(open') : open'[i].who \in File
    BY <1>1, WhoIs DEF Stays, Alike
  <2>. QED BY <2>1, <2>2, <2>3, Elsewhere
<1>. QED BY <1>1, <1>3, <1>4, <1>5 DEF InputInv, StackInv, Counts, Stays

\* Leaving a function keeps it.
LEMMA LeavesInput == ASSUME InputInv, Leaves PROVE InputInv'
<1> DEFINE f == nesting[Len(nesting)].who
<1>1. f \in Fun /\ f \notin File /\ f \in Entity /\ f = Top(nesting).who
  <2>1. Len(nesting) > 0 /\ Len(nesting) \in Nat
    BY WhoIs DEF Leaves, Popped
  <2>. QED BY <2>1, WhoIs, EntitiesApart DEF Top
<1>2. StackOK(nesting', Fun, again, opened, processed \cup {f})
  <2>1. \A i \in 1 .. Len(nesting) : opened[nesting[i].who] \in Nat
    BY WhoIs, EntitiesApart
  <2>. QED BY <2>1, WhoIs, PopStack DEF Leaves
<1>. HIDE DEF f
<1>3. StackOK(open', File, again, opened, processed \cup {f})
  <2>1. \A x \in File : (x \in again <=> x \in again) /\ opened[x] = opened[x]
                        /\ (x \in processed <=> x \in processed \cup {f})
    BY <1>1
  <2>2. StackOK(open', File, again, opened, processed)
    BY AlikeStack DEF InputInv, Leaves, Stays, StackInv
  <2>3. \A i \in 1 .. Len(open') : open'[i].who \in File
    BY WhoIs DEF Leaves, Stays, Alike
  <2>. QED BY <2>1, <2>2, <2>3, Elsewhere
<1>. QED BY <1>1, <1>2, <1>3 DEF InputInv, StackInv, Leaves, Stays

\* The entries of the stack of statements.
Control == [who : Fun, first : BOOLEAN, macro : BOOLEAN, nested : BOOLEAN]
ControlsInv == controls \in Seq(Control)

\* Moving past an item begins and ends nothing.
LEMMA AdvanceStays ==
    ASSUME InputInv, open # <<>>, Advance
    PROVE  Stays
<1>1. open \in Seq(Opening) /\ expand \in Seq(Item)
  BY DEF InputInv
<1>2. PastItem \in Seq(Opening) /\ Alike(PastItem, open)
  BY PastItemIs DEF Alike
<1>3. expand # <<>> => Tail(expand) \in Seq(Item)
  BY <1>1
<1>4. (expand' = Tail(expand) /\ expand # <<>> /\ open' = open)
      \/ (open' = PastItem /\ expand' = expand)
  BY DEF Advance
<1>. QED BY <1>1, <1>2, <1>3, <1>4, AlikeIs DEF Stays

\* A function that is entered.
LEMMA EnterPushes ==
    ASSUME InputInv, ControlsInv, NEW f \in Fun, Enter(f)
    PROVE  /\ nesting' \in Seq(Running) /\ Pushed(nesting', nesting, f, opened)
           /\ Counts(f) /\ Again(f, nesting)
<1> DEFINE v == [who |-> f, time |-> opened[f] + 1, base |-> Len(controls)]
<1>1. nesting \in Seq(Running) /\ opened[f] \in Nat /\ Len(controls) \in Nat
  BY WhoIs, EntitiesApart DEF InputInv, ControlsInv
<1>2. v \in Running
  BY <1>1 DEF Running
<1>3. nesting' = Append(nesting, v)
  BY DEF Enter
<1>4. v.who = f /\ v.time = opened[f] + 1
  OBVIOUS
<1>. HIDE DEF v
<1>5. /\ nesting' \in Seq(Running) /\ Len(nesting') = Len(nesting) + 1
      /\ \A i \in 1 .. Len(nesting) : nesting'[i] = nesting[i]
      /\ nesting'[Len(nesting) + 1] = v
  BY <1>1, <1>2, <1>3, AppendFacts
<1>6. Pushed(nesting', nesting, f, opened)
  BY <1>4, <1>5 DEF Pushed
<1>7. Counts(f) /\ Again(f, nesting)
  BY Zenon DEF Enter, Counts, Again, On
<1>. QED BY <1>5, <1>6, <1>7

\* A function that is left.
LEMMA LeavePops ==
    ASSUME InputInv, nesting # <<>>, Leave
    PROVE  /\ nesting' \in Seq(Running) /\ Popped(nesting', nesting)
           /\ Top(nesting).who \in Fun
           /\ processed' = processed \cup {Top(nesting).who}
           /\ UNCHANGED <<opened, again, mixed>>
<1>1. nesting \in Seq(Running) /\ Len(nesting) > 0
  BY EmptySeq DEF InputInv
<1>2. nesting' = Pop(nesting) /\ processed' = processed \cup {Top(nesting).who}
      /\ UNCHANGED <<opened, again, mixed>>
  BY Zenon DEF Leave
<1>3. Popped(nesting', nesting) /\ nesting' \in Seq(Running)
  BY <1>1, <1>2, PopFacts DEF Popped
<1>4. Top(nesting) \in Running
  BY <1>1 DEF Top
<1>5. Top(nesting).who \in Fun
  BY <1>4 DEF Running
<1>. QED BY <1>2, <1>3, <1>5

\* Such a step that leaves what is complete alone moves on.
LEMMA StaysIsOnward ==
    ASSUME Stays, UNCHANGED <<nesting, opened, again, processed>>
    PROVE  Onward
BY DEF Stays, Onward

\* So does one that reads nothing.
LEMMA SameStays == ASSUME InputInv, UNCHANGED <<open, expand>> PROVE Stays
BY AlikeIs DEF InputInv, Stays

\* The file that is included or that a unit is of.
LEMMA OpeningIs ==
    ASSUME InputInv, NEW file \in File, NEW s \in Seq(Opening), Alike(s, open),
           open' = Append(s, [who |-> file, pos |-> 1, time |-> opened[file] + 1])
    PROVE  open' \in Seq(Opening) /\ Pushed(open', open, file, opened)
<1> DEFINE v == [who |-> file, pos |-> 1, time |-> opened[file] + 1]
<1>1. opened[file] \in Nat
  BY WhoIs, EntitiesApart
<1>2. v \in Opening
  BY <1>1 DEF Opening
<1>3. v.who = file /\ v.time = opened[file] + 1
  OBVIOUS
<1>. HIDE DEF v
<1>4. /\ open' \in Seq(Opening) /\ Len(open') = Len(s) + 1
      /\ \A i \in 1 .. Len(s) : open'[i] = s[i]
      /\ open'[Len(s) + 1] = v
  <2>1. open' = Append(s, v)
    BY DEF v
  <2>. QED BY <1>2, <2>1, AppendFacts
<1>. QED BY <1>3, <1>4 DEF Pushed, Alike

\* An #include opens a file.
LEMMA IncludeInput == ASSUME InputInv, Include PROVE InputInv'
<1>1. open # <<>> /\ Kind = "include"
  BY DEF Include, ToLex
<1>2. Here.who \in File
  BY <1>1, KindIs DEF ItemOK
<1>3. PastItem \in Seq(Opening) /\ Alike(PastItem, open)
  BY <1>1, PastItemIs DEF Alike
<1>4. UNCHANGED <<expand, processed, nesting>>
  BY DEF Include, functions
<1>5. CASE Skipping
  <2>1. open' = PastItem /\ UNCHANGED <<opened, again>>
    BY <1>5 DEF Include
  <2>2. Onward
    BY <1>3, <1>4, <2>1 DEF Onward, InputInv
  <2>. QED BY <2>2, OnwardInput
<1>6. CASE ~Skipping
  <2> DEFINE file == Here.who
  <2>1. /\ open' = Append(PastItem, [who |-> file, pos |-> 1, time |-> opened[file] + 1])
        /\ Counts(file) /\ Again(file, open)
    BY <1>6, Zenon DEF Include, Counts, Again, On
  <2>2. file \in File
    BY <1>2
  <2>. HIDE DEF file
  <2>3. open' \in Seq(Opening) /\ Pushed(open', open, file, opened)
    BY <1>3, <2>1, <2>2, OpeningIs
  <2>4. Opens
    BY <1>4, <2>1, <2>2, <2>3 DEF Opens
  <2>. QED BY <2>4, OpensInput
<1>. QED BY <1>5, <1>6

\* So does the start of a unit.
LEMMA StartUnitInput == ASSUME InputInv, NEW f \in Mains, StartUnit(f) PROVE InputInv'
<1>1. UNCHANGED <<expand, processed, nesting, again>> /\ open = <<>> /\ f \in File
  BY MetricsAssumption DEF StartUnit, functions
<1>2. CASE unit'
  <2>1. /\ open' = Append(open, [who |-> f, pos |-> 1, time |-> opened[f] + 1])
        /\ open \in Seq(Opening) /\ Alike(open, open)
    BY <1>1, <1>2, AlikeIs DEF StartUnit, InputInv
  <2>2. open' \in Seq(Opening) /\ Pushed(open', open, f, opened)
    BY <1>1, <2>1, OpeningIs
  <2>3. Counts(f)
    BY <1>2 DEF StartUnit, Counts
  <2>4. Again(f, open)
    BY <1>1 DEF Again, On
  <2>5. Opens
    BY <1>1, <2>2, <2>3, <2>4 DEF Opens
  <2>. QED BY <2>5, OpensInput
<1>3. CASE ~unit'
  <2>1. UNCHANGED <<open, opened>>
    BY <1>3 DEF StartUnit
  <2>2. Onward
    BY <1>1, <2>1, SameStays, StaysIsOnward
  <2>. QED BY <2>2, OnwardInput
<1>. QED BY <1>2, <1>3

\* The end of an included file closes it.
LEMMA CloseFileInput == ASSUME InputInv, CloseFile PROVE InputInv'
<1>1. /\ processed' = processed \cup {FileNow} /\ open' = Pop(open) /\ open # <<>>
      /\ UNCHANGED <<opened, again, nesting, expand>>
  BY DEF CloseFile, ToLex, functions, history
<1>2. open \in Seq(Opening) /\ Len(open) > 0
  BY <1>1, EmptySeq DEF InputInv
<1>3. open' \in Seq(Opening) /\ Popped(open', open)
  BY <1>1, <1>2, PopFacts DEF Popped
<1>. QED BY <1>1, <1>3, ClosesInput DEF Closes

\* So does the end of a unit.
LEMMA FinishUnitInput == ASSUME InputInv, FinishUnit PROVE InputInv'
<1>1. /\ processed' = processed \cup {FileNow} /\ open' = <<>> /\ Len(open) = 1
      /\ UNCHANGED <<opened, again, nesting, expand>>
  BY DEF FinishUnit, functions, history
<1>2. open # <<>> /\ open' \in Seq(Opening) /\ Popped(open', open)
  BY <1>1 DEF Popped
<1>. QED BY <1>1, <1>2, ClosesInput DEF Closes

\* The steps that begin and end functions and macros enter and leave them.
LEMMA FunctionInput ==
    ASSUME InputInv, ControlsInv, BeginBody \/ EndBody \/ BeginFunction \/ EndFunction
    PROVE  InputInv'
<1>1. open # <<>> /\ Stays
  <2>1. open # <<>> /\ Advance
    BY DEF BeginBody, EndBody, BeginFunction, EndFunction, ToLex, ToParse
  <2>. QED BY <2>1, AdvanceStays
<1>2. ASSUME NEW f \in Fun, Enter(f), UNCHANGED processed PROVE InputInv'
  BY <1>1, <1>2, EnterPushes, EntersInput DEF Enters
<1>3. ASSUME nesting # <<>>, Leave PROVE InputInv'
  BY <1>1, <1>3, LeavePops, LeavesInput DEF Leaves
<1>4. ASSUME UNCHANGED <<nesting, opened, again, processed>> PROVE InputInv'
  BY <1>1, <1>4, StaysIsOnward, OnwardInput
<1>5. CASE BeginBody
  <2>1. Here.who \in Fun
    BY <1>1, <1>5, KindIs DEF BeginBody, ToLex, ItemOK
  <2>2. UNCHANGED processed /\ (Enter(Here.who) \/ UNCHANGED <<nesting, opened, again>>)
    BY <1>5, Zenon DEF BeginBody
  <2>. QED BY <1>2, <1>4, <2>1, <2>2
<1>6. CASE BeginFunction
  <2>1. Here.who \in Fun
    BY <1>1, <1>6, KindIs DEF BeginFunction, ToParse, ItemOK
  <2>2. UNCHANGED processed /\ Enter(Here.who)
    BY <1>6, Zenon DEF BeginFunction
  <2>. QED BY <1>2, <2>1, <2>2
<1>7. CASE EndBody
  <2>1. (nesting # <<>> /\ Leave) \/ UNCHANGED <<nesting, opened, again, processed>>
    BY <1>7, Zenon DEF EndBody
  <2>. QED BY <1>3, <1>4, <2>1
<1>8. CASE EndFunction
  BY <1>3, <1>8, Zenon DEF EndFunction
<1>. QED BY <1>5, <1>6, <1>7, <1>8

\* The other steps.
Reading == Ask \/ ReadToken \/ ReadText \/ ReadHash \/ UseMacro \/ Define \/ Declare
\* The directives that decide what is skipped, and the steps of statements.
Conditional == (\E res \in BOOLEAN : DoIf(res) \/ DoElif(res)) \/ DoElse \/ DoEndif
Statement == KeywordOf \/ Nest \/ Unnest

\* All other steps move on.
LEMMA OtherInput == ASSUME InputInv, Reading \/ Conditional \/ Statement PROVE InputInv'
<1>1. UNCHANGED <<nesting, opened, again, processed>>
  <2>1. CASE Reading
    BY <2>1 DEF Reading, Ask, ReadToken, ReadText, ReadHash, UseMacro, Define, Declare,
                functions, history
  <2>2. CASE Conditional
    BY <2>2 DEF Conditional, DoIf, DoElif, DoElse, DoEndif, functions, history
  <2>3. CASE Statement
    BY <2>3 DEF Statement, KeywordOf, Nest, Unnest, functions, history
  <2>. QED BY <2>1, <2>2, <2>3
<1>2. CASE Ask
  BY <1>1, <1>2, SameStays, StaysIsOnward, OnwardInput DEF Ask
<1>3. CASE UseMacro
  <2>1. open # <<>> /\ Kind = "use"
    BY <1>3 DEF UseMacro, ToLex
  <2>2. Here.out \in Seq(Item)
    BY <2>1, KindIs DEF ItemOK
  <2>3. open' = PastItem /\ expand' \in Seq(Item)
    BY <1>3, <2>2 DEF UseMacro
  <2>4. Stays
    BY <2>1, <2>3, PastItemIs DEF Stays, Alike
  <2>. QED BY <1>1, <2>4, StaysIsOnward, OnwardInput
<1>4. ASSUME open # <<>>, Advance PROVE InputInv'
  BY <1>1, <1>4, AdvanceStays, StaysIsOnward, OnwardInput
<1>5. CASE ReadToken \/ ReadText \/ ReadHash \/ Define \/ Declare
  BY <1>4, <1>5 DEF ReadToken, ReadText, ReadHash, Define, Declare, ToLex, ToParse
<1>6. CASE Conditional
  BY <1>4, <1>6 DEF Conditional, DoIf, DoElif, DoElse, DoEndif, ToLex
<1>7. CASE Statement
  BY <1>4, <1>7 DEF Statement, KeywordOf, Nest, Unnest, ToParse
<1>. QED BY <1>2, <1>3, <1>5, <1>6, <1>7 DEF Reading

\* Every step is of one of these kinds.
LEMMA NextIs ==
    MetricsNext <=> \/ Reading \/ Conditional \/ Statement
                    \/ Include \/ CloseFile \/ FinishUnit
                    \/ BeginBody \/ EndBody \/ BeginFunction \/ EndFunction
                    \/ \E f \in Mains : StartUnit(f)
BY Zenon DEF MetricsNext, Reading, Conditional, Statement

\* What is being parsed keeps its type.
LEMMA ControlsTyped ==
    ASSUME InputInv, ControlsInv, [MetricsNext]_allVars PROVE ControlsInv'
<1>1. controls' = controls \/ Statement
  <2>1. CASE Reading
    BY <2>1 DEF Reading, Ask, ReadToken, ReadText, ReadHash, UseMacro, Define, Declare, history
  <2>2. CASE Conditional
    BY <2>2 DEF Conditional, DoIf, DoElif, DoElse, DoEndif, history
  <2>3. CASE Include \/ CloseFile \/ FinishUnit
    BY <2>3 DEF Include, CloseFile, FinishUnit, history
  <2>4. CASE BeginBody \/ EndBody \/ BeginFunction \/ EndFunction
    BY <2>4 DEF BeginBody, EndBody, BeginFunction, EndFunction
  <2>5. CASE \E f \in Mains : StartUnit(f)
    BY <2>5 DEF StartUnit
  <2>6. CASE UNCHANGED allVars
    BY <2>6 DEF allVars, metricVars, history
  <2>. QED BY <2>1, <2>2, <2>3, <2>4, <2>5, <2>6, NextIs
<1>2. CASE KeywordOf
  <2> DEFINE v == [who |-> Top(nesting).who, first |-> Top(nesting).time = 1,
                   macro |-> Here.macro, nested |-> FALSE]
  <2>1. /\ open # <<>> /\ nesting # <<>> /\ Kind = "keyword"
        /\ controls' = Append(controls, v)
    BY <1>2 DEF KeywordOf, ToParse, InFunction
  <2>2. Here.macro \in BOOLEAN
    BY <2>1, KindIs DEF ItemOK
  <2>3. Top(nesting).who \in Fun
    <3>1. Len(nesting) > 0 /\ Len(nesting) \in Nat
      BY <2>1, EmptySeq DEF InputInv
    <3>. QED BY <3>1, WhoIs DEF Top
  <2>4. v \in Control
    BY <2>2, <2>3 DEF Control
  <2>. QED BY <2>1, <2>4 DEF ControlsInv
<1>3. ASSUME InStatement PROVE Len(controls) > 0
  <2>1. nesting # <<>> /\ nesting \in Seq(Running) /\ Len(nesting) > 0
    BY <1>3, EmptySeq DEF InStatement, InFunction, InputInv
  <2>2. Top(nesting) \in Running
    BY <2>1 DEF Top
  <2>3. Top(nesting).base \in Nat
    BY <2>2 DEF Running
  <2>. QED BY <1>3, <2>3 DEF InStatement, ControlsInv
<1>4. CASE Nest
  <2>1. Len(controls) > 0 /\ controls' = Retop(controls, [Top(controls) EXCEPT !.nested = TRUE])
    BY <1>3, <1>4 DEF Nest
  <2>2. Top(controls) \in Control
    BY <2>1 DEF ControlsInv, Top
  <2>3. [Top(controls) EXCEPT !.nested = TRUE] \in Control
    BY <2>2 DEF Control
  <2>. QED BY <2>1, <2>3, RetopFacts DEF ControlsInv
<1>5. CASE Unnest
  <2>1. Len(controls) > 0 /\ controls' = Pop(controls)
    BY <1>3, <1>5 DEF Unnest
  <2>. QED BY <2>1, PopFacts DEF ControlsInv
<1>. QED BY <1>1, <1>2, <1>4, <1>5 DEF ControlsInv, Statement

\* At the start nothing is open.
LEMMA InitInput == MetricsInit => InputInv /\ ControlsInv
<1>. SUFFICES ASSUME MetricsInit PROVE InputInv /\ ControlsInv
  OBVIOUS
<1>1. /\ open = <<>> /\ expand = <<>> /\ nesting = <<>> /\ controls = <<>>
      /\ opened = [x \in Entity |-> 0] /\ again = {} /\ processed = {}
  BY DEF MetricsInit
<1>2. ASSUME NEW X \in SUBSET Entity PROVE StackInv(<<>>, X)
  <2>1. \A x \in X : opened[x] = 0
    BY <1>1
  <2>. QED BY <1>1, <2>1 DEF StackInv, StackOK, Once, Begun, Ended
<1>3. StackInv(open, File) /\ StackInv(nesting, Fun)
  BY <1>1, <1>2, EntitiesApart
<1>. QED BY <1>1, <1>3 DEF InputInv, ControlsInv

\* Every step keeps the invariant of the stacks.
LEMMA InputStep ==
    ASSUME InputInv, ControlsInv, [MetricsNext]_allVars
    PROVE  InputInv' /\ ControlsInv'
<1>1. ControlsInv'
  BY ControlsTyped
<1>2. CASE UNCHANGED allVars
  <2>1. UNCHANGED <<open, expand, nesting, opened, again, processed>>
    BY <1>2 DEF allVars, metricVars, input, functions, history
  <2>. QED BY <1>1, <2>1, SameStays, StaysIsOnward, OnwardInput
<1>. QED BY <1>1, <1>2, IncludeInput, CloseFileInput, FinishUnitInput, StartUnitInput,
            FunctionInput, OtherInput, NextIs

\* Counting keeps the type of a meter, whatever it holds.
LEMMA TallyTyped ==
    ASSUME NEW m \in Meter, NEW p PROVE Tally(m, p) \in Meter
<1> DEFINE len == IF Lexed \in p THEN m.stmtlen + 1 ELSE m.stmtlen
           count == [n \in Counted |-> m.count[n] + Cardinality(p \cap Up[n])
                                                 - Cardinality(p \cap Down(n))]
<1>1. /\ m.count \in [Counted -> Int] /\ m.stmtlen \in Nat /\ m.longest \in Nat
      /\ m.braces \in Nat /\ m.brackets \in Nat /\ m.operators \in SUBSET Operator
      /\ m.nuop \in Nat
  BY DEF Meter
<1>2. count \in [Counted -> Int]
  <2>1. ASSUME NEW n \in Counted PROVE count[n] \in Int
    <3>1. IsFiniteSet(Up[n]) /\ IsFiniteSet(Down(n))
      BY MarksFinite
    <3>2. Cardinality(p \cap Up[n]) \in Nat /\ Cardinality(p \cap Down(n)) \in Nat
      BY <3>1, FS_Subset, FS_CardinalityType
    <3>3. m.count[n] \in Int
      BY <1>1
    <3>. QED BY <3>2, <3>3
  <2>. QED BY <2>1
<1>3. len \in Nat
  BY <1>1
<1>4. /\ count["bracenest"] \in Int /\ count["bracknest"] \in Int
  BY <1>2, BracesCounted
<1>. HIDE DEF len, count
<1>5. /\ Greater(m.longest, len) \in Nat
      /\ Greater(m.braces, count.bracenest) \in Nat
      /\ Greater(m.brackets, count.bracknest) \in Nat
  BY <1>1, <1>3, <1>4 DEF Greater
<1>6. Tally(m, p) = [count |-> count, stmtlen |-> IF ";" \in p THEN 0 ELSE len,
             longest |-> IF ";" \in p THEN Greater(m.longest, len) ELSE m.longest,
             braces |-> IF "{" \in p THEN Greater(m.braces, count.bracenest) ELSE m.braces,
             brackets |-> IF "(" \in p THEN Greater(m.brackets, count.bracknest) ELSE m.brackets,
             operators |-> m.operators \cup (p \cap Operator),
             nuop |-> m.nuop]
  BY Zenon DEF Tally, count, len
<1>7. m.operators \cup (p \cap Operator) \in SUBSET Operator
  BY <1>1
<1> DEFINE stmtlen == IF ";" \in p THEN 0 ELSE len
           longest == IF ";" \in p THEN Greater(m.longest, len) ELSE m.longest
           braces == IF "{" \in p THEN Greater(m.braces, count.bracenest) ELSE m.braces
           brackets == IF "(" \in p THEN Greater(m.brackets, count.bracknest) ELSE m.brackets
           operators == m.operators \cup (p \cap Operator)
<1>8. stmtlen \in Nat /\ longest \in Nat /\ braces \in Nat /\ brackets \in Nat
  BY <1>1, <1>3, <1>5
<1>9. Tally(m, p) = [count |-> count, stmtlen |-> stmtlen, longest |-> longest,
                     braces |-> braces, brackets |-> brackets,
                     operators |-> operators, nuop |-> m.nuop]
  BY <1>6, Zenon
<1>. HIDE DEF stmtlen, longest, braces, brackets
<1>. QED BY <1>1, <1>2, <1>7, <1>8, <1>9 DEF Meter

\* The number of different operators is no part of what was read.
LEMMA NuopFits ==
    ASSUME NEW m \in Meter
    PROVE  /\ [m EXCEPT !.nuop = Cardinality(m.operators)] \in Meter
           /\ \A s : Fits(m, s) => Fits([m EXCEPT !.nuop = Cardinality(m.operators)], s)
<1> DEFINE r == [m EXCEPT !.nuop = Cardinality(m.operators)]
<1>1. m.operators \in SUBSET Operator
  BY DEF Meter
<1>2. Cardinality(m.operators) \in Nat
  BY <1>1, MarksFinite, FS_Subset, FS_CardinalityType
<1>3. r \in Meter
  BY <1>2 DEF Meter
<1>4. /\ r.count = m.count /\ r.longest = m.longest /\ r.braces = m.braces
      /\ r.brackets = m.brackets /\ r.operators = m.operators /\ r.stmtlen = m.stmtlen
  BY DEF Meter
<1>. HIDE DEF r
<1>5. ASSUME NEW s, Fits(m, s) PROVE Fits(r, s)
  BY <1>4, <1>5, Zenon DEF Fits, Measures
<1>. QED BY <1>3, <1>5 DEF r

-----------------------------------------------------------------------------
(* The meters *)

\* What an entity has read: a set of marks for each time it was charged.
MarkSets == SUBSET Mark
Read == [pre : Seq(MarkSets), post : Seq(MarkSets)]

\* The meters of an entity fit what it has read, until it is begun again.
MeterInv ==
    /\ pre \in [Entity -> Meter] /\ post \in [Entity -> Meter]
    /\ read \in [Entity -> Read]
    /\ \A x \in Entity \ again : Fits(pre[x], read[x].pre) /\ Fits(post[x], read[x].post)

\* Charging marks.
Charging == open # <<>> /\ \E S \in SUBSET Current : \E p, q \in MarkSets : Charge(S, p, q)

\* Charging keeps the meters fitting.
LEMMA ChargeMeters ==
    ASSUME InputInv, MeterInv, Charging, again \subseteq again'
    PROVE  MeterInv'
<1>1. PICK S \in SUBSET Current : \E p, q \in MarkSets : Charge(S, p, q)
  BY DEF Charging
<1>2. PICK p \in MarkSets, q \in MarkSets : Charge(S, p, q)
  BY <1>1
<1>3. /\ pre' = [x \in Entity |-> IF x \in S \ processed THEN Tally(pre[x], p) ELSE pre[x]]
      /\ post' = [x \in Entity |-> IF x \in S \ processed THEN Tally(post[x], q) ELSE post[x]]
      /\ read' = [x \in Entity |->
                    IF x \in S \cap First
                    THEN [pre |-> Append(read[x].pre, p), post |-> Append(read[x].post, q)]
                    ELSE read[x]]
  BY <1>2, Zenon DEF Charge
<1>4. \A x \in Current \ again : x \notin processed <=> x \in First
  BY CurrentIsFirst DEF Charging
<1>5. ASSUME NEW x \in Entity
      PROVE  /\ pre[x] \in Meter /\ post[x] \in Meter /\ read[x] \in Read
             /\ read[x].pre \in Seq(MarkSets) /\ read[x].post \in Seq(MarkSets)
  BY DEF MeterInv, Read
<1>6. ASSUME NEW x \in Entity
      PROVE  pre'[x] \in Meter /\ post'[x] \in Meter /\ read'[x] \in Read
  <2>1. Tally(pre[x], p) \in Meter /\ Tally(post[x], q) \in Meter
    BY <1>5, TallyTyped
  <2>2. [pre |-> Append(read[x].pre, p), post |-> Append(read[x].post, q)] \in Read
    BY <1>5 DEF Read
  <2>. QED BY <1>3, <1>5, <2>1, <2>2
<1>7. ASSUME NEW x \in Entity \ again'
      PROVE  Fits(pre'[x], read'[x].pre) /\ Fits(post'[x], read'[x].post)
  <2>1. x \in Entity \ again /\ Fits(pre[x], read[x].pre) /\ Fits(post[x], read[x].post)
    BY DEF MeterInv
  <2>2. x \in S => (x \notin processed <=> x \in First)
    BY <1>4, <2>1
  <2>3. CASE x \in S \ processed
    <3>1. pre'[x] = Tally(pre[x], p) /\ post'[x] = Tally(post[x], q)
      BY <1>3, <2>3
    <3>2. read'[x] = [pre |-> Append(read[x].pre, p), post |-> Append(read[x].post, q)]
      BY <1>3, <2>2, <2>3
    <3>3. read'[x].pre = Append(read[x].pre, p) /\ read'[x].post = Append(read[x].post, q)
      BY <3>2
    <3>4. Fits(Tally(pre[x], p), Append(read[x].pre, p))
      BY <1>5, <2>1, TallyFits
    <3>5. Fits(Tally(post[x], q), Append(read[x].post, q))
      BY <1>5, <2>1, TallyFits
    <3>. QED BY <3>1, <3>3, <3>4, <3>5, Zenon
  <2>4. CASE x \notin S \ processed
    BY <1>3, <2>1, <2>2, <2>4
  <2>. QED BY <2>3, <2>4
<1>8. /\ pre' \in [Entity -> Meter] /\ post' \in [Entity -> Meter]
      /\ read' \in [Entity -> Read]
  BY <1>3, <1>6
<1>. QED BY <1>7, <1>8 DEF MeterInv

\* A function's or macro's operators are counted when it is left.
LEMMA LeaveMeters ==
    ASSUME InputInv, MeterInv, nesting # <<>>, Leave, UNCHANGED read
    PROVE  MeterInv'
<1> DEFINE fun == Top(nesting).who
<1>1. fun \in Entity /\ again' = again
  BY LeavePops, EntitiesApart
<1>2. CASE fun \in processed
  <2>1. pre' = pre /\ post' = post
    BY <1>2 DEF Leave, meters
  <2>. QED BY <1>1, <2>1 DEF MeterInv
<1>3. CASE fun \notin processed
  <2>1. /\ pre' = [pre EXCEPT ![fun].nuop = Cardinality(pre[fun].operators)]
        /\ post' = [post EXCEPT ![fun].nuop = Cardinality(post[fun].operators)]
    BY <1>3, Zenon DEF Leave
  <2>. HIDE DEF fun
  <2>2. pre \in [Entity -> Meter] /\ post \in [Entity -> Meter]
    BY DEF MeterInv
  <2>3. pre'[fun] = [pre[fun] EXCEPT !.nuop = Cardinality(pre[fun].operators)]
        /\ post'[fun] = [post[fun] EXCEPT !.nuop = Cardinality(post[fun].operators)]
    BY <1>1, <2>1, <2>2
  <2>4. \A x \in Entity : x # fun => pre'[x] = pre[x] /\ post'[x] = post[x]
    BY <1>1, <2>1, <2>2
  <2>5. /\ pre'[fun] \in Meter /\ post'[fun] \in Meter
        /\ \A s : Fits(pre[fun], s) => Fits(pre'[fun], s)
        /\ \A s : Fits(post[fun], s) => Fits(post'[fun], s)
    <3>1. pre[fun] \in Meter /\ post[fun] \in Meter
      BY <1>1, <2>2
    <3>. QED BY <2>3, <3>1, NuopFits
  <2>6. pre' \in [Entity -> Meter] /\ post' \in [Entity -> Meter]
    <3>1. \A x \in Entity : pre'[x] \in Meter /\ post'[x] \in Meter
      BY <2>2, <2>4, <2>5
    <3>. QED BY <2>1, <2>2, <3>1
  <2>7. ASSUME NEW x \in Entity \ again
        PROVE  Fits(pre'[x], read[x].pre) /\ Fits(post'[x], read[x].post)
    <3>1. Fits(pre[x], read[x].pre) /\ Fits(post[x], read[x].post)
      BY DEF MeterInv
    <3>. QED BY <2>4, <2>5, <3>1
  <2>. QED BY <1>1, <2>6, <2>7 DEF MeterInv
<1>. QED BY <1>2, <1>3

\* So does a step that charges nothing.
LEMMA SameMeters ==
    ASSUME MeterInv, UNCHANGED <<meters, read>>, again \subseteq again'
    PROVE  MeterInv'
BY DEF MeterInv, meters

\* What is charged are sets of marks.
LEMMA TalliedIs == \A k \in Code : Token(k) \in MarkSets /\ Tallied(k) \in MarkSets
BY DEF Token, Tallied, MarkSets, Mark, Apart, Lexed

\* The steps that charge no identifiers, and queue none.
NoId(q) == \A k \in q : k \notin Id
Silent ==
    /\ open # <<>> /\ again \subseteq again' /\ UNCHANGED <<identifiers, processed>>
    /\ \E S \in SUBSET Current : \E p, q \in MarkSets : Charge(S, p, q) /\ NoId(q)

\* Reading a token charges it, and queues it if it is an identifier.
LEMMA TokenCharges ==
    ASSUME InputInv, ReadToken
    PROVE  /\ open # <<>> /\ UNCHANGED <<again, processed, ids>>
           /\ Here.code \in Code
           /\ Current \in SUBSET Current /\ {} \in MarkSets
           /\ Token(Here.code) \in MarkSets /\ Tallied(Here.code) \in MarkSets
           /\ Charging
<1>1. open # <<>> /\ UNCHANGED <<again, processed, ids>> /\ Kind = "token"
  BY DEF ReadToken, ToLex, history
<1>2. Here.code \in Code
  BY <1>1, KindIs DEF ItemOK
<1>3. Current \in SUBSET Current /\ {} \in MarkSets
  BY DEF MarkSets
<1>4. Token(Here.code) \in MarkSets /\ Tallied(Here.code) \in MarkSets
  BY <1>2, TalliedIs
<1>5. Charging
  <2> DEFINE token == Here.code
             returned == expand # <<>> \/ ~Skipping
  <2>1. Charge(Current, IF expand = <<>> THEN Tallied(token) ELSE {},
               IF returned THEN Token(token) ELSE {})
    BY Zenon DEF ReadToken
  <2>2. /\ (IF expand = <<>> THEN Tallied(token) ELSE {}) \in MarkSets
        /\ (IF returned THEN Token(token) ELSE {}) \in MarkSets
    BY <1>3, <1>4
  <2>. QED BY <1>1, <1>3, <2>1, <2>2 DEF Charging
<1>. QED BY <1>1, <1>2, <1>3, <1>4, <1>5

\* The steps that only count.
Counting == Ask \/ ReadText \/ ReadHash \/ UseMacro \/ Define \/ Declare

\* They and the directives charge no identifiers.
LEMMA CountingIs ==
    ASSUME InputInv,
           \/ Counting \/ Conditional \/ Include \/ BeginFunction
    PROVE  Silent
<1>1. open # <<>> /\ UNCHANGED <<identifiers, processed>>
  <2>1. CASE Counting
    BY <2>1 DEF Counting, Ask, ReadText, ReadHash, UseMacro, Define, Declare, ToLex, ToParse
  <2>2. CASE Conditional
    BY <2>2 DEF Conditional, DoIf, DoElif, DoElse, DoEndif, ToLex
  <2>3. CASE Include \/ BeginFunction
    BY <2>3 DEF Include, BeginFunction, ToLex, ToParse
  <2>. QED BY <2>1, <2>2, <2>3
<1>2. \A S \in SUBSET Current : \A p, q \in MarkSets :
        Charge(S, p, q) /\ NoId(q) /\ again \subseteq again' => Silent
  BY <1>1 DEF Silent
<1>3. {} \in SUBSET Current /\ Current \in SUBSET Current /\ {FileNow} \in SUBSET Current
  BY DEF Current
<1>4. /\ {} \in MarkSets /\ {"ntoken"} \in MarkSets /\ {"nppcond"} \in MarkSets
      /\ {"nincfile"} \in MarkSets
      /\ {"nppcond"} \cup {} \in MarkSets
      /\ {"nppcond"} \cup {"evaluated #elif"} \in MarkSets
  BY DEF MarkSets, Mark, Apart, Directives
<1>5. Tallied("#") \cup {"nppdirective"} \in MarkSets
  <2>1. "#" \in Code
    BY DEF Code, Word
  <2>2. {"nppdirective"} \in MarkSets
    BY DEF MarkSets, Mark, Apart, Directives
  <2>3. Tallied("#") \in MarkSets
    BY <2>1, TalliedIs
  <2>. QED BY <2>2, <2>3 DEF MarkSets
<1>6. Kind \in {"text", "use"} => Tallied(Here.code) \in MarkSets
  <2>1. Kind \in {"text", "use"} => Here.code \in Code
    BY <1>1, KindIs DEF ItemOK
  <2>. QED BY <2>1, TalliedIs
<1>7. /\ Kind = "define" => {Here.tally} \in MarkSets
      /\ Kind \in {"begin", "declare"} => {Here.tally} \in MarkSets /\ NoId({Here.tally})
  <2>1. Kind = "define" => Here.tally \in Directives
    BY <1>1, KindIs DEF ItemOK, Directives
  <2>2. Kind = "begin" => Here.tally \in Declared
    BY <1>1, KindIs DEF ItemOK, Declared
  <2>3. Kind = "declare" => Here.tally \in Declared
    BY <1>1, KindIs DEF ItemOK
  <2>. QED BY <2>1, <2>2, <2>3, MetricsAssumption DEF MarkSets, Mark, Apart, NoId
<1>8. NoId({}) /\ NoId({"ntoken"})
  BY MetricsAssumption DEF NoId, Apart
<1>. HIDE DEF MarkSets
<1>9. ASSUME Counting \/ Conditional PROVE again \subseteq again'
  BY <1>9 DEF Counting, Ask, ReadText, ReadHash, UseMacro, Define, Declare, Conditional,
              DoIf, DoElif, DoElse, DoEndif, history
<1>10. CASE Counting
  <2>1. CASE Ask
    BY <1>2, <1>3, <1>4, <1>8, <1>9, <1>10, <2>1 DEF Ask
  <2>2. CASE ReadText
    BY <1>2, <1>3, <1>4, <1>6, <1>8, <1>9, <1>10, <2>2 DEF ReadText, ToLex
  <2>3. CASE ReadHash
    BY <1>2, <1>3, <1>4, <1>5, <1>8, <1>9, <1>10, <2>3 DEF ReadHash
  <2>4. CASE UseMacro
    BY <1>2, <1>3, <1>4, <1>6, <1>8, <1>9, <1>10, <2>4 DEF UseMacro, ToLex
  <2>5. CASE Define
    <3>1. (IF Skipping THEN {} ELSE {Here.tally}) \in MarkSets
      BY <1>4, <1>7, <2>5 DEF Define, ToLex
    <3>. QED BY <1>2, <1>3, <1>4, <1>8, <1>9, <1>10, <2>5, <3>1 DEF Define
  <2>6. CASE Declare
    <3>1. {Here.tally} \in MarkSets /\ NoId({Here.tally})
      BY <1>7, <2>6 DEF Declare, ToParse
    <3>. QED BY <1>2, <1>3, <1>4, <1>9, <1>10, <2>6, <3>1 DEF Declare
  <2>. QED BY <1>10, <2>1, <2>2, <2>3, <2>4, <2>5, <2>6 DEF Counting
<1>11. CASE Conditional
  <2>1. ASSUME NEW res \in BOOLEAN, DoIf(res) PROVE Silent
    <3>1. (IF Skipping THEN {} ELSE {"nppcond"}) \in MarkSets
      BY <1>4
    <3>. QED BY <1>2, <1>3, <1>4, <1>8, <1>9, <1>11, <2>1, <3>1 DEF DoIf
  <2>2. ASSUME NEW res \in BOOLEAN, DoElif(res) PROVE Silent
    <3>1. (IF iftaken = <<>> \/ skiplevel > 1 THEN {}
           ELSE {"nppcond"} \cup (IF Top(iftaken) THEN {} ELSE {"evaluated #elif"}))
            \in MarkSets
      BY <1>4
    <3>. QED BY <1>2, <1>3, <1>4, <1>8, <1>9, <1>11, <2>2, <3>1 DEF DoElif
  <2>3. CASE DoElse \/ DoEndif
    BY <1>2, <1>3, <1>4, <1>8, <1>9, <1>11, <2>3 DEF DoElse, DoEndif
  <2>. QED BY <1>11, <2>1, <2>2, <2>3 DEF Conditional
<1>12. CASE Include
  <2>1. again \subseteq again'
    <3>1. CASE Skipping
      BY <1>12, <3>1 DEF Include
    <3>2. CASE ~Skipping
      <4>1. again' = IF \E i \in 1 .. Len(open) : open[i].who = Here.who
                     THEN again \cup {Here.who} ELSE again
        BY <1>12, <3>2, Zenon DEF Include
      <4>. QED BY <4>1
    <3>. QED BY <3>1, <3>2
  <2>2. Charge({}, {}, {}) \/ Charge({FileNow}, {"nincfile"}, {})
    BY <1>12, Zenon DEF Include
  <2>. QED BY <1>2, <1>3, <1>4, <1>8, <2>1, <2>2
<1>13. CASE BeginFunction
  <2>1. {Here.tally} \in MarkSets /\ NoId({Here.tally})
    BY <1>7, <1>13 DEF BeginFunction, ToParse
  <2>2. again \subseteq again'
    BY <1>13 DEF BeginFunction, Enter
  <2>3. (IF nesting = <<>> THEN {FileNow} ELSE {}) \in SUBSET Current
    BY <1>3
  <2>4. Charge(IF nesting = <<>> THEN {FileNow} ELSE {}, {}, {Here.tally})
    BY <1>13 DEF BeginFunction
  <2>. QED BY <1>2, <1>4, <2>1, <2>2, <2>3, <2>4
<1>. QED BY <1>10, <1>11, <1>12, <1>13

\* The steps that charge nothing.
LEMMA Uncharged ==
    ASSUME Statement \/ BeginBody \/ CloseFile \/ FinishUnit \/ UNCHANGED allVars
           \/ \E f \in Mains : StartUnit(f)
    PROVE  UNCHANGED <<meters, read>> /\ again \subseteq again'
<1>1. CASE Statement
  BY <1>1 DEF Statement, KeywordOf, Nest, Unnest
<1>2. CASE BeginBody
  BY <1>2 DEF BeginBody, Enter
<1>3. CASE CloseFile \/ FinishUnit
  BY <1>3 DEF CloseFile, FinishUnit, history
<1>4. CASE \E f \in Mains : StartUnit(f)
  BY <1>4 DEF StartUnit
<1>5. CASE UNCHANGED allVars
  BY <1>5 DEF allVars, metricVars, history
<1>. QED BY <1>1, <1>2, <1>3, <1>4, <1>5

\* Every step keeps the meters fitting.
LEMMA MeterStep ==
    ASSUME InputInv, MeterInv, [MetricsNext]_allVars
    PROVE  MeterInv'
<1>1. CASE Counting \/ Conditional \/ Include \/ BeginFunction
  <2>1. Charging /\ again \subseteq again'
    BY <1>1, CountingIs DEF Silent, Charging
  <2>. QED BY <2>1, ChargeMeters
<1>5. CASE ReadToken
  BY <1>5, TokenCharges, ChargeMeters
<1>2. CASE Statement \/ BeginBody \/ CloseFile \/ FinishUnit \/ UNCHANGED allVars
           \/ \E f \in Mains : StartUnit(f)
  BY <1>2, Uncharged, SameMeters
<1>3. CASE EndBody
  <2>1. UNCHANGED read /\ (UNCHANGED <<meters, again>> \/ (nesting # <<>> /\ Leave))
    BY <1>3, Zenon DEF EndBody
  <2>. QED BY <2>1, LeaveMeters, SameMeters
<1>4. CASE EndFunction
  BY <1>4, LeaveMeters DEF EndFunction
<1>. QED BY <1>1, <1>2, <1>3, <1>4, <1>5, NextIs DEF Reading, Counting

\* At the start nothing is read or counted.
LEMMA InitMeters == MetricsInit => MeterInv
<1>. SUFFICES ASSUME MetricsInit PROVE MeterInv
  OBVIOUS
<1>1. /\ pre = [x \in Entity |-> NoMeter] /\ post = [x \in Entity |-> NoMeter]
      /\ read = [x \in Entity |-> [pre |-> <<>>, post |-> <<>>]]
  BY DEF MetricsInit
<1>2. [pre |-> <<>>, post |-> <<>>] \in Read
  BY DEF Read
<1>3. \A x \in Entity : pre[x] = NoMeter /\ post[x] = NoMeter
                        /\ read[x].pre = <<>> /\ read[x].post = <<>>
  BY <1>1
<1>. QED BY <1>1, <1>2, <1>3, NothingFits DEF MeterInv

-----------------------------------------------------------------------------
(* Identifiers *)

\* The places of q that hold one of M.
Places(q, M) == {j \in 1 .. Len(q) : q[j] \in M}
\* How many there are.
Hits(q, M) == Cardinality(Places(q, M))

\* An identifier of M is one more.
LEMMA HitsAppend ==
    ASSUME NEW S, NEW q \in Seq(S), NEW i \in S, NEW M
    PROVE  /\ Hits(q, M) \in Nat
           /\ Hits(Append(q, i), M) = Hits(q, M) + IF i \in M THEN 1 ELSE 0
<1> DEFINE n == Len(q)
           t == Append(q, i)
<1>1. /\ n \in Nat /\ Len(t) = n + 1 /\ t[n + 1] = i
      /\ \A j \in 1 .. n : t[j] = q[j]
  BY AppendProperties
<1>2. IsFiniteSet(1 .. n)
  <2>1. 1 \in Int /\ n \in Int
    BY <1>1
  <2>. QED BY <2>1, FS_Interval
<1>3. Places(q, M) \subseteq 1 .. n
  BY DEF Places
<1>4. IsFiniteSet(Places(q, M)) /\ Cardinality(Places(q, M)) \in Nat
  BY <1>2, <1>3, FS_Subset, FS_CardinalityType
<1>5. n + 1 \notin Places(q, M)
  BY <1>1, <1>3
<1>. HIDE DEF t, n
<1>6. \A j \in 1 .. Len(t) : j \in 1 .. n \/ j = n + 1
  BY <1>1
<1>7. n + 1 \in 1 .. Len(t) /\ \A j \in 1 .. n : j \in 1 .. Len(t)
  BY <1>1
<1>8. CASE i \in M
  <2>1. Places(t, M) = Places(q, M) \cup {n + 1}
    BY <1>1, <1>6, <1>7, <1>8 DEF Places, n
  <2>2. Cardinality(Places(q, M) \cup {n + 1}) = Cardinality(Places(q, M)) + 1
    BY <1>4, <1>5, FS_AddElement
  <2>3. Hits(t, M) = Hits(q, M) + 1
    BY <2>1, <2>2, Zenon DEF Hits
  <2>. QED BY <1>4, <1>8, <2>3 DEF Hits, t
<1>9. CASE i \notin M
  <2>1. Places(t, M) = Places(q, M)
    BY <1>1, <1>6, <1>7, <1>9 DEF Places, n
  <2>2. Hits(t, M) = Hits(q, M)
    BY <2>1, Zenon DEF Hits
  <2>. QED BY <1>4, <1>9, <2>2 DEF Hits, t
<1>. QED BY <1>8, <1>9

\* The identifiers that were read, and those in a queue.
IdsRead(s) == {i \in Id : \E k \in 1 .. Len(s) : i \in s[k]}
IdsIn(q) == {i \in Id : \E j \in 1 .. Len(q) : q[j] = i}

\* The queue holds the identifiers that were read, as often as they were.
Queued(q, s) ==
    /\ IdsIn(q) = IdsRead(s)
    /\ \A n \in IdMetric : Hits(q, InClass[n]) = Times(s, InClass[n])

\* The classes of identifiers are finite.
LEMMA ClassesFinite ==
    \A n \in IdMetric : InClass[n] \in SUBSET Id /\ IsFiniteSet(InClass[n])
BY MetricsAssumption, FS_Subset

\* Marks that are no identifiers change nothing.
LEMMA QueuedSame ==
    ASSUME NEW S, NEW s \in Seq(S), NEW p \in S, NoId(p)
    PROVE  /\ IdsRead(Append(s, p)) = IdsRead(s)
           /\ \A n \in IdMetric : Times(Append(s, p), InClass[n]) = Times(s, InClass[n])
<1> DEFINE t == Append(s, p)
<1>1. /\ Len(s) \in Nat /\ Len(t) = Len(s) + 1 /\ t[Len(s) + 1] = p
      /\ \A k \in 1 .. Len(s) : t[k] = s[k]
  BY AppendProperties
<1>2. IdsRead(t) = IdsRead(s)
  <2>1. \A k \in 1 .. Len(t) : k \in 1 .. Len(s) \/ k = Len(s) + 1
    BY <1>1
  <2>2. \A k \in 1 .. Len(s) : k \in 1 .. Len(t)
    BY <1>1
  <2>. HIDE DEF t
  <2>. QED BY <1>1, <2>1, <2>2 DEF IdsRead, NoId
<1>3. ASSUME NEW n \in IdMetric
      PROVE  Times(t, InClass[n]) = Times(s, InClass[n])
  <2>1. p \cap InClass[n] = {}
    BY ClassesFinite DEF NoId
  <2>2. Cardinality(p \cap InClass[n]) = 0
    BY <2>1, FS_EmptySet, Zenon
  <2>3. /\ Times(s, InClass[n]) \in Nat
        /\ Times(t, InClass[n]) = Times(s, InClass[n]) + Cardinality(p \cap InClass[n])
    BY ClassesFinite, TimesAppend
  <2>. QED BY <2>2, <2>3
<1>. QED BY <1>2, <1>3

\* The token that is an identifier is read and queued.
LEMMA QueuedMore ==
    ASSUME NEW S, NEW s \in Seq(S), NEW i \in Id, Token(i) \in S,
           NEW q \in Seq(Id), Queued(q, s)
    PROVE  Queued(Append(q, i), Append(s, Token(i)))
<1> DEFINE p == Token(i)
           t == Append(s, p)
           r == Append(q, i)
<1>1. /\ Len(s) \in Nat /\ Len(t) = Len(s) + 1 /\ t[Len(s) + 1] = p
      /\ \A k \in 1 .. Len(s) : t[k] = s[k]
  BY AppendProperties
<1>2. /\ Len(q) \in Nat /\ Len(r) = Len(q) + 1 /\ r[Len(q) + 1] = i
      /\ \A k \in 1 .. Len(q) : r[k] = q[k]
  BY AppendProperties
<1>3. Lexed \notin Id /\ \A k : k \in p <=> k = i \/ k = Lexed
  BY MetricsAssumption DEF Token, Apart
<1>4. IdsIn(r) = IdsRead(t)
  <2>1. \A k \in 1 .. Len(t) : k \in 1 .. Len(s) \/ k = Len(s) + 1
    BY <1>1
  <2>2. Len(s) + 1 \in 1 .. Len(t) /\ \A k \in 1 .. Len(s) : k \in 1 .. Len(t)
    BY <1>1
  <2>3. \A k \in 1 .. Len(r) : k \in 1 .. Len(q) \/ k = Len(q) + 1
    BY <1>2
  <2>4. Len(q) + 1 \in 1 .. Len(r) /\ \A k \in 1 .. Len(q) : k \in 1 .. Len(r)
    BY <1>2
  <2>. HIDE DEF t, r, p
  <2>5. \A k \in Id : k \in IdsRead(t) <=> k \in IdsRead(s) \/ k = i
    BY <1>1, <1>3, <2>1, <2>2 DEF IdsRead
  <2>6. \A k \in Id : k \in IdsIn(r) <=> k \in IdsIn(q) \/ k = i
    BY <1>2, <2>3, <2>4 DEF IdsIn
  <2>7. IdsIn(q) = IdsRead(s)
    BY DEF Queued
  <2>8. IdsIn(r) \subseteq Id /\ IdsRead(t) \subseteq Id
    BY DEF IdsIn, IdsRead
  <2>9. \A k \in Id : k \in IdsIn(r) <=> k \in IdsRead(t)
    BY <2>5, <2>6, <2>7
  <2>. QED BY <2>8, <2>9
<1>5. ASSUME NEW n \in IdMetric
      PROVE  Hits(r, InClass[n]) = Times(t, InClass[n])
  <2> DEFINE M == InClass[n]
             one == IF i \in M THEN 1 ELSE 0
  <2>1. IsFiniteSet(M) /\ M \in SUBSET Id
    BY ClassesFinite
  <2>2. Cardinality(p \cap M) = one
    <3>1. CASE i \in M
      <4>1. p \cap M = {i}
        BY <1>3, <2>1, <3>1
      <4>2. Cardinality({i}) = 1
        BY FS_Singleton
      <4>3. Cardinality(p \cap M) = 1
        BY <4>1, <4>2, Zenon
      <4>. QED BY <3>1, <4>3
    <3>2. CASE i \notin M
      <4>1. p \cap M = {}
        BY <1>3, <2>1, <3>2
      <4>2. Cardinality(p \cap M) = 0
        BY <4>1, FS_EmptySet, Zenon
      <4>. QED BY <3>2, <4>2
    <3>. QED BY <3>1, <3>2
  <2>3. Times(t, M) = Times(s, M) + Cardinality(p \cap M)
    BY <2>1, TimesAppend
  <2>4. Hits(r, M) = Hits(q, M) + one
    BY HitsAppend
  <2>5. Hits(q, M) = Times(s, M)
    BY DEF Queued
  <2>. HIDE DEF one, M, r, t, p
  <2>6. Hits(r, M) = Times(t, M)
    BY <2>2, <2>3, <2>4, <2>5
  <2>. QED BY <2>6 DEF M
<1>. QED BY <1>4, <1>5 DEF Queued

\* An entity's identifiers wait in the queue, or are summarized.
Zero == [total |-> 0, unique |-> 0]
Waiting(x) == Queued(queue[x], read[x].post) /\ \A n \in IdMetric : ids[x][n] = Zero
Settled(x) == /\ queue[x] = <<>> /\ x \in processed
              /\ \A n \in IdMetric : ids[x][n] = IdTimes(read[x].post, n)

\* A function or macro that is complete.
Complete(x) ==
    /\ queue[x] = <<>>
    /\ pre[x].nuop = Cardinality(pre[x].operators)
    /\ post[x].nuop = Cardinality(post[x].operators)

\* The identifiers read are queued until they are summarized.
IdsInv ==
    /\ queue \in [Entity -> Seq(Id)]
    /\ ids \in [Entity -> [IdMetric -> IdCount]]
    /\ \A x \in Entity \ again : Waiting(x) \/ Settled(x)
    /\ \A x \in processed \cap Fun : Complete(x)

\* Summarizing moves to ids what was queued.
LEMMA SummarizeIs ==
    ASSUME MeterInv, IdsInv, NEW x \in Entity, Summarize(x)
    PROVE  /\ queue' \in [Entity -> Seq(Id)]
           /\ ids' \in [Entity -> [IdMetric -> IdCount]]
           /\ queue'[x] = <<>>
           /\ \A y \in Entity : y # x => queue'[y] = queue[y] /\ ids'[y] = ids[y]
           /\ (x \notin again => \A n \in IdMetric : ids'[x][n] = IdTimes(read[x].post, n))
<1> DEFINE q == queue[x]
           s == read[x].post
           unique(n) == Cardinality({q[j] : j \in Places(q, InClass[n])})
           new(n) == [total |-> ids[x][n].total + Hits(q, InClass[n]),
                      unique |-> IF q = <<>> THEN ids[x][n].unique ELSE unique(n)]
<1>1. q \in Seq(Id) /\ queue \in [Entity -> Seq(Id)] /\ ids[x] \in [IdMetric -> IdCount]
      /\ ids \in [Entity -> [IdMetric -> IdCount]]
  BY DEF IdsInv
<1>2. queue' = [queue EXCEPT ![x] = <<>>] /\ ids' = [ids EXCEPT ![x] = [n \in IdMetric |-> new(n)]]
  BY Zenon DEF Summarize, Hits, Places
<1>3. ASSUME NEW n \in IdMetric
      PROVE  /\ {q[j] : j \in Places(q, InClass[n])} = IdsIn(q) \cap InClass[n]
             /\ Hits(q, InClass[n]) \in Nat /\ unique(n) \in Nat
  <2>1. InClass[n] \in SUBSET Id /\ IsFiniteSet(InClass[n])
    BY ClassesFinite
  <2>2. {q[j] : j \in Places(q, InClass[n])} = IdsIn(q) \cap InClass[n]
    BY <2>1 DEF Places, IdsIn
  <2>3. Hits(q, InClass[n]) \in Nat
    <3>1. IsFiniteSet(1 .. Len(q))
      <4>1. 1 \in Int /\ Len(q) \in Int
        BY <1>1
      <4>. QED BY <4>1, FS_Interval
    <3>2. Places(q, InClass[n]) \subseteq 1 .. Len(q)
      BY DEF Places
    <3>. QED BY <3>1, <3>2, FS_Subset, FS_CardinalityType DEF Hits
  <2>4. unique(n) \in Nat
    <3>1. IdsIn(q) \cap InClass[n] \subseteq InClass[n]
      OBVIOUS
    <3>2. Cardinality(IdsIn(q) \cap InClass[n]) \in Nat
      BY <2>1, <3>1, FS_Subset, FS_CardinalityType
    <3>. QED BY <2>2, <3>2, Zenon
  <2>. QED BY <2>2, <2>3, <2>4
<1>4. ASSUME NEW n \in IdMetric PROVE new(n) \in IdCount
  <2>1. Hits(q, InClass[n]) \in Nat /\ unique(n) \in Nat
    BY <1>3
  <2>2. ids[x][n] \in IdCount
    BY <1>1
  <2>. HIDE DEF unique, q
  <2>. QED BY <2>1, <2>2 DEF IdCount
<1>. HIDE DEF new, unique
<1>5. [n \in IdMetric |-> new(n)] \in [IdMetric -> IdCount]
  BY <1>4
<1>6. /\ queue' \in [Entity -> Seq(Id)] /\ ids' \in [Entity -> [IdMetric -> IdCount]]
      /\ queue'[x] = <<>> /\ ids'[x] = [n \in IdMetric |-> new(n)]
      /\ \A y \in Entity : y # x => queue'[y] = queue[y] /\ ids'[y] = ids[y]
  BY <1>1, <1>2, <1>5
<1>7. ASSUME x \notin again, NEW n \in IdMetric
      PROVE  new(n) = IdTimes(s, n)
  <2> DEFINE M == InClass[n]
  <2>1. {k \in M : \E i \in 1 .. Len(s) : k \in s[i]} = IdsRead(s) \cap M
    BY ClassesFinite DEF IdsRead
  <2>2. IdTimes(s, n) = [total |-> Times(s, M), unique |-> Cardinality(IdsRead(s) \cap M)]
    <3>1. Cardinality({k \in M : \E i \in 1 .. Len(s) : k \in s[i]}) = Cardinality(IdsRead(s) \cap M)
      BY <2>1, Zenon
    <3>. QED BY <3>1, Zenon DEF IdTimes
  <2>3. CASE Waiting(x)
    <3>1. Queued(q, s) /\ ids[x][n] = Zero
      BY <2>3 DEF Waiting
    <3>2. Hits(q, M) = Times(s, M) /\ IdsIn(q) = IdsRead(s)
      BY <3>1 DEF Queued
    <3>3. Hits(q, M) \in Nat
      BY <1>3
    <3>4. unique(n) = Cardinality(IdsRead(s) \cap M)
      <4>1. {q[j] : j \in Places(q, InClass[n])} = IdsRead(s) \cap M
        BY <1>3, <3>2
      <4>. QED BY <4>1, Zenon DEF unique
    <3>5. q = <<>> => Cardinality(IdsRead(s) \cap M) = 0
      <4>. SUFFICES ASSUME q = <<>> PROVE Cardinality(IdsRead(s) \cap M) = 0
        OBVIOUS
      <4>1. IdsIn(q) \cap M = {}
        BY DEF IdsIn
      <4>2. Cardinality(IdsIn(q) \cap M) = 0
        BY <4>1, FS_EmptySet, Zenon
      <4>. QED BY <3>2, <4>2, Zenon
    <3>6. ids[x][n].total = 0 /\ ids[x][n].unique = 0
      BY <3>1 DEF Zero
    <3>. HIDE DEF q, s, M
    <3>7. ids[x][n].total + Hits(q, M) = Times(s, M)
          /\ (IF q = <<>> THEN ids[x][n].unique ELSE unique(n)) = Cardinality(IdsRead(s) \cap M)
      <4>1. ids[x][n].total + Hits(q, M) = Times(s, M)
        BY <3>2, <3>3, <3>6
      <4>2. (IF q = <<>> THEN ids[x][n].unique ELSE unique(n)) = Cardinality(IdsRead(s) \cap M)
        BY <3>4, <3>5, <3>6, Zenon
      <4>. QED BY <4>1, <4>2
    <3>. QED BY <2>2, <3>7, Zenon DEF new, M
  <2>4. CASE Settled(x)
    <3>1. q = <<>> /\ ids[x][n] = IdTimes(s, n)
      BY <2>4 DEF Settled
    <3>2. Hits(q, M) = 0
      <4>1. Places(q, M) = {}
        BY <3>1 DEF Places
      <4>. QED BY <4>1, FS_EmptySet, Zenon DEF Hits
    <3>3. ids[x][n] \in IdCount
      BY <1>1
    <3>4. ids[x][n].total + Hits(q, M) = ids[x][n].total
      BY <3>2, <3>3 DEF IdCount
    <3>5. new(n) = [total |-> ids[x][n].total, unique |-> ids[x][n].unique]
      BY <3>1, <3>4, Zenon DEF new, M
    <3>6. ids[x][n] = [total |-> ids[x][n].total, unique |-> ids[x][n].unique]
      BY <3>3 DEF IdCount
    <3>. QED BY <3>1, <3>5, <3>6, Zenon
  <2>. QED BY <1>7, <2>3, <2>4 DEF IdsInv
<1>8. x \notin again => \A n \in IdMetric : ids'[x][n] = IdTimes(read[x].post, n)
  <2>. SUFFICES ASSUME x \notin again, NEW n \in IdMetric PROVE ids'[x][n] = IdTimes(s, n)
    OBVIOUS
  <2>1. ids'[x][n] = new(n)
    BY <1>6
  <2>. QED BY <1>7, <2>1, Zenon
<1>. QED BY <1>6, <1>8

\* What charging does to one entity.
LEMMA ChargeIs ==
    ASSUME InputInv, MeterInv, open # <<>>, NEW S \in SUBSET Current,
           NEW p \in MarkSets, NEW q \in MarkSets, Charge(S, p, q)
    PROVE  /\ \A x \in Entity \ again :
                 read'[x].post = IF x \in S \ processed THEN Append(read[x].post, q)
                                 ELSE read[x].post
           /\ \A x \in Entity : read[x].post \in Seq(MarkSets)
           /\ \A x \in processed : pre'[x] = pre[x] /\ post'[x] = post[x]
<1>1. /\ pre' = [x \in Entity |-> IF x \in S \ processed THEN Tally(pre[x], p) ELSE pre[x]]
      /\ post' = [x \in Entity |-> IF x \in S \ processed THEN Tally(post[x], q) ELSE post[x]]
      /\ read' = [x \in Entity |->
                    IF x \in S \cap First
                    THEN [pre |-> Append(read[x].pre, p), post |-> Append(read[x].post, q)]
                    ELSE read[x]]
  BY Zenon DEF Charge
<1>2. \A x \in Current \ again : x \notin processed <=> x \in First
  BY CurrentIsFirst
<1>3. ASSUME NEW x \in Entity \ again
      PROVE  read'[x].post = IF x \in S \ processed THEN Append(read[x].post, q)
                             ELSE read[x].post
  <2>1. x \in S => (x \notin processed <=> x \in First)
    BY <1>2
  <2>2. read'[x] = IF x \in S \cap First
                   THEN [pre |-> Append(read[x].pre, p), post |-> Append(read[x].post, q)]
                   ELSE read[x]
    BY <1>1
  <2>. QED BY <2>1, <2>2
<1>4. \A x \in Entity : read[x].post \in Seq(MarkSets)
  BY DEF MeterInv, Read
<1>5. processed \subseteq Entity
  BY DEF InputInv
<1>6. \A x \in processed : pre'[x] = pre[x] /\ post'[x] = post[x]
  BY <1>1, <1>5
<1>. QED BY <1>3, <1>4, <1>6

\* Charging no identifiers keeps the queues.
LEMMA SilentIds ==
    ASSUME InputInv, MeterInv, IdsInv, Silent PROVE IdsInv'
<1>1. open # <<>> /\ again \subseteq again' /\ queue' = queue /\ ids' = ids
      /\ processed' = processed
  BY DEF Silent, identifiers
<1>2. PICK S \in SUBSET Current : \E p, q \in MarkSets : Charge(S, p, q) /\ NoId(q)
  BY DEF Silent
<1>3. PICK p \in MarkSets, q \in MarkSets : Charge(S, p, q) /\ NoId(q)
  BY <1>2
<1>4. /\ \A x \in Entity \ again :
            read'[x].post = IF x \in S \ processed THEN Append(read[x].post, q)
                            ELSE read[x].post
      /\ \A x \in Entity : read[x].post \in Seq(MarkSets)
      /\ \A x \in processed : pre'[x] = pre[x] /\ post'[x] = post[x]
  BY <1>1, <1>3, ChargeIs
<1>5. ASSUME NEW x \in Entity \ again' PROVE (Waiting(x) \/ Settled(x))'
  <2>1. x \in Entity \ again /\ (Waiting(x) \/ Settled(x))
    BY <1>1 DEF IdsInv
  <2>2. CASE x \in S \ processed
    <3>1. read'[x].post = Append(read[x].post, q) /\ Waiting(x)
      BY <1>4, <2>1, <2>2 DEF Settled
    <3>2. Queued(queue[x], read[x].post)
      BY <3>1 DEF Waiting
    <3>3. /\ IdsRead(Append(read[x].post, q)) = IdsRead(read[x].post)
          /\ \A n \in IdMetric : Times(Append(read[x].post, q), InClass[n])
                                   = Times(read[x].post, InClass[n])
      BY <1>3, <1>4, <2>1, QueuedSame
    <3>4. Queued(queue[x], Append(read[x].post, q))
      BY <3>2, <3>3 DEF Queued
    <3>5. Queued(queue'[x], read'[x].post)
      BY <1>1, <3>1, <3>4
    <3>. QED BY <1>1, <3>1, <3>5 DEF Waiting
  <2>3. CASE x \notin S \ processed
    <3>1. read'[x].post = read[x].post
      BY <1>4, <2>1, <2>3
    <3>2. Waiting(x) => Waiting(x)'
      BY <1>1, <3>1 DEF Waiting
    <3>3. Settled(x) => Settled(x)'
      BY <1>1, <3>1 DEF Settled
    <3>. QED BY <2>1, <3>2, <3>3
  <2>. QED BY <2>2, <2>3
<1>6. ASSUME NEW x \in processed' \cap Fun PROVE Complete(x)'
  BY <1>1, <1>4 DEF IdsInv, Complete
<1>. QED BY <1>1, <1>5, <1>6 DEF IdsInv

\* A token that is an identifier is read and queued at once.
LEMMA TokenIds ==
    ASSUME InputInv, MeterInv, IdsInv, ReadToken PROVE IdsInv'
<1> DEFINE token == Here.code
           returned == expand # <<>> \/ ~Skipping
           p == IF expand = <<>> THEN Tallied(token) ELSE {}
           q == IF returned THEN Token(token) ELSE {}
<1>1. /\ open # <<>> /\ again' = again /\ processed' = processed /\ ids' = ids
      /\ token \in Code /\ Current \in SUBSET Current
      /\ {} \in MarkSets /\ Token(token) \in MarkSets /\ Tallied(token) \in MarkSets
  BY TokenCharges
<1>2. /\ Charge(Current, p, q)
      /\ queue' = [x \in Entity |->
                     IF returned /\ token \in Id /\ x \in Current \ processed
                     THEN Append(queue[x], token) ELSE queue[x]]
  BY Zenon DEF ReadToken
<1>3. p \in MarkSets /\ q \in MarkSets
  BY <1>1
<1>4. queue \in [Entity -> Seq(Id)]
  BY DEF IdsInv
<1>5. CASE ~(returned /\ token \in Id)
  <2>1. NoId(q)
    BY <1>5, MetricsAssumption DEF NoId, Token, Apart
  <2>2. queue' = queue
    BY <1>2, <1>4, <1>5
  <2>3. Silent
    BY <1>1, <1>2, <1>3, <2>1, <2>2 DEF Silent, identifiers
  <2>. QED BY <2>3, SilentIds
<1>6. CASE returned /\ token \in Id
  <2>1. q = Token(token)
    BY <1>6
  <2>2. ASSUME NEW x \in Entity
        PROVE  queue'[x] = IF x \in Current \ processed THEN Append(queue[x], token) ELSE queue[x]
    BY <1>2, <1>6
  <2>3. queue' \in [Entity -> Seq(Id)]
    <3>1. ASSUME NEW x \in Entity PROVE queue'[x] \in Seq(Id)
      <4>1. queue[x] \in Seq(Id) /\ Append(queue[x], token) \in Seq(Id)
        BY <1>4, <1>6
      <4>. QED BY <2>2, <4>1
    <3>2. queue' = [x \in Entity |-> queue'[x]]
      BY <1>2
    <3>. QED BY <3>1, <3>2
  <2>. HIDE DEF p, q, token, returned
  <2>4. /\ \A x \in Entity \ again :
              read'[x].post = IF x \in Current \ processed THEN Append(read[x].post, q)
                              ELSE read[x].post
        /\ \A x \in Entity : read[x].post \in Seq(MarkSets)
        /\ \A x \in processed : pre'[x] = pre[x] /\ post'[x] = post[x]
    BY <1>1, <1>2, <1>3, ChargeIs
  <2>5. ASSUME NEW x \in Entity \ again' PROVE (Waiting(x) \/ Settled(x))'
    <3>1. x \in Entity \ again /\ (Waiting(x) \/ Settled(x))
      BY <1>1 DEF IdsInv
    <3>2. CASE x \in Current \ processed
      <4>1. read'[x].post = Append(read[x].post, Token(token)) /\ Waiting(x)
        BY <2>1, <2>4, <3>1, <3>2 DEF Settled
      <4>2. queue'[x] = Append(queue[x], token)
        BY <2>2, <3>2
      <4>3. Queued(queue[x], read[x].post) /\ queue[x] \in Seq(Id)
            /\ read[x].post \in Seq(MarkSets)
        BY <1>4, <2>4, <4>1 DEF Waiting
      <4>4. Queued(Append(queue[x], token), Append(read[x].post, Token(token)))
        BY <1>1, <1>6, <4>3, QueuedMore
      <4>5. Queued(queue'[x], read'[x].post)
        BY <4>1, <4>2, <4>4, Zenon
      <4>. QED BY <1>1, <4>1, <4>5 DEF Waiting
    <3>3. CASE x \notin Current \ processed
      <4>1. read'[x].post = read[x].post /\ queue'[x] = queue[x]
        BY <2>2, <2>4, <3>1, <3>3
      <4>2. Waiting(x) => Waiting(x)'
        BY <1>1, <4>1 DEF Waiting
      <4>3. Settled(x) => Settled(x)'
        BY <1>1, <4>1 DEF Settled
      <4>. QED BY <3>1, <4>2, <4>3
    <3>. QED BY <3>2, <3>3
  <2>6. ASSUME NEW x \in processed' \cap Fun PROVE Complete(x)'
    <3>1. x \in processed /\ x \in Fun /\ Complete(x)
      BY <1>1 DEF IdsInv
    <3>2. queue'[x] = queue[x]
      BY <2>2, <3>1, EntitiesApart
    <3>3. pre'[x] = pre[x] /\ post'[x] = post[x]
      BY <2>4, <3>1
    <3>. QED BY <3>1, <3>2, <3>3 DEF Complete
  <2>. QED BY <1>1, <2>3, <2>5, <2>6 DEF IdsInv
<1>. QED BY <1>5, <1>6

\* Leaving a function summarizes it.
LEMMA LeaveIds ==
    ASSUME InputInv, MeterInv, IdsInv, nesting # <<>>, Leave, UNCHANGED read
    PROVE  IdsInv'
<1>1. PICK fun : fun = Top(nesting).who
  OBVIOUS
<1>2. fun \in Fun /\ fun \in Entity /\ processed' = processed \cup {fun} /\ again' = again
  BY <1>1, LeavePops, EntitiesApart
<1>3. pre \in [Entity -> Meter] /\ post \in [Entity -> Meter] /\ read' = read
  BY DEF MeterInv
<1>4. CASE fun \in processed
  <2>1. pre' = pre /\ post' = post /\ queue' = queue /\ ids' = ids
    BY <1>1, <1>4 DEF Leave, meters, identifiers
  <2>2. processed' = processed
    BY <1>2, <1>4
  <2>. QED BY <1>2, <1>3, <2>1, <2>2 DEF IdsInv, Waiting, Settled, Complete
<1>5. CASE fun \notin processed
  <2>1. /\ pre' = [pre EXCEPT ![fun].nuop = Cardinality(pre[fun].operators)]
        /\ post' = [post EXCEPT ![fun].nuop = Cardinality(post[fun].operators)]
        /\ Summarize(fun)
    BY <1>1, <1>5, Zenon DEF Leave
  <2>2. /\ queue' \in [Entity -> Seq(Id)]
        /\ ids' \in [Entity -> [IdMetric -> IdCount]]
        /\ queue'[fun] = <<>>
        /\ \A y \in Entity : y # fun => queue'[y] = queue[y] /\ ids'[y] = ids[y]
        /\ (fun \notin again => \A n \in IdMetric : ids'[fun][n] = IdTimes(read[fun].post, n))
    BY <1>2, <2>1, SummarizeIs
  <2>3. \A x \in Entity : x # fun => pre'[x] = pre[x] /\ post'[x] = post[x]
    BY <1>2, <1>3, <2>1
  <2>4. /\ pre'[fun] = [pre[fun] EXCEPT !.nuop = Cardinality(pre[fun].operators)]
        /\ post'[fun] = [post[fun] EXCEPT !.nuop = Cardinality(post[fun].operators)]
        /\ pre[fun] \in Meter /\ post[fun] \in Meter
    BY <1>2, <1>3, <2>1
  <2>5. Complete(fun)'
    <3>1. /\ pre'[fun].operators = pre[fun].operators
          /\ pre'[fun].nuop = Cardinality(pre[fun].operators)
          /\ post'[fun].operators = post[fun].operators
          /\ post'[fun].nuop = Cardinality(post[fun].operators)
      BY <2>4 DEF Meter
    <3>. QED BY <2>2, <3>1 DEF Complete
  <2>6. ASSUME NEW x \in Entity \ again' PROVE (Waiting(x) \/ Settled(x))'
    <3>1. CASE x = fun
      <4>1. Settled(x)'
        BY <1>2, <1>3, <2>2, <3>1 DEF Settled
      <4>. QED BY <4>1
    <3>2. CASE x # fun
      <4>1. Waiting(x) \/ Settled(x)
        BY <1>2 DEF IdsInv
      <4>2. queue'[x] = queue[x] /\ ids'[x] = ids[x]
        BY <2>2, <3>2
      <4>. QED BY <1>2, <1>3, <4>1, <4>2 DEF Waiting, Settled
    <3>. QED BY <3>1, <3>2
  <2>7. ASSUME NEW x \in processed' \cap Fun PROVE Complete(x)'
    <3>1. CASE x = fun
      BY <2>5, <3>1
    <3>2. CASE x # fun
      <4>1. Complete(x) /\ x \in Entity
        BY <1>2, <3>2, EntitiesApart DEF IdsInv
      <4>2. queue'[x] = queue[x] /\ pre'[x] = pre[x] /\ post'[x] = post[x]
        BY <2>2, <2>3, <3>2, <4>1
      <4>. QED BY <4>1, <4>2 DEF Complete
    <3>. QED BY <3>1, <3>2
  <2>. QED BY <2>2, <2>6, <2>7 DEF IdsInv
<1>. QED BY <1>4, <1>5

\* The end of a unit summarizes its file.
LEMMA FinishIds ==
    ASSUME InputInv, MeterInv, IdsInv, FinishUnit PROVE IdsInv'
<1>1. open # <<>> /\ processed' = processed \cup {FileNow} /\ Summarize(FileNow)
      /\ UNCHANGED <<meters, read, again>>
  BY DEF FinishUnit, ToLex, history
<1>2. FileNow \in Entity /\ FileNow \notin Fun
  BY <1>1, CurrentIsFirst, EntitiesApart
<1>3. /\ queue' \in [Entity -> Seq(Id)]
      /\ ids' \in [Entity -> [IdMetric -> IdCount]]
      /\ queue'[FileNow] = <<>>
      /\ \A y \in Entity : y # FileNow => queue'[y] = queue[y] /\ ids'[y] = ids[y]
      /\ (FileNow \notin again =>
            \A n \in IdMetric : ids'[FileNow][n] = IdTimes(read[FileNow].post, n))
  BY <1>1, <1>2, SummarizeIs
<1>4. pre' = pre /\ post' = post /\ read' = read /\ again' = again
  BY <1>1 DEF meters
<1>5. PICK file : file = FileNow
  OBVIOUS
<1>6. ASSUME NEW x \in Entity \ again' PROVE (Waiting(x) \/ Settled(x))'
  <2>1. CASE x = file
    <3>1. Settled(x)'
      BY <1>1, <1>3, <1>4, <1>5, <2>1 DEF Settled
    <3>. QED BY <3>1
  <2>2. CASE x # file
    <3>1. Waiting(x) \/ Settled(x)
      BY <1>4 DEF IdsInv
    <3>2. queue'[x] = queue[x] /\ ids'[x] = ids[x]
      BY <1>3, <1>5, <2>2
    <3>. QED BY <1>1, <1>4, <3>1, <3>2 DEF Waiting, Settled
  <2>. QED BY <2>1, <2>2
<1>7. ASSUME NEW x \in processed' \cap Fun PROVE Complete(x)'
  <2>1. x \in processed /\ x # FileNow /\ x \in Entity /\ Complete(x)
    BY <1>1, <1>2, EntitiesApart DEF IdsInv
  <2>2. queue'[x] = queue[x]
    BY <1>3, <2>1
  <2>. QED BY <1>4, <2>1, <2>2 DEF Complete
<1>. QED BY <1>3, <1>6, <1>7 DEF IdsInv

\* The steps that touch no identifier.
LEMMA SameIds ==
    ASSUME IdsInv, UNCHANGED <<identifiers, meters, read>>, again \subseteq again',
           NEW X, X \cap Fun = {}, processed' = processed \cup X
    PROVE  IdsInv'
<1>1. pre' = pre /\ post' = post /\ read' = read /\ queue' = queue /\ ids' = ids
  BY DEF meters, identifiers
<1>2. ASSUME NEW x \in Entity \ again' PROVE (Waiting(x) \/ Settled(x))'
  <2>1. Waiting(x) \/ Settled(x)
    BY DEF IdsInv
  <2>. QED BY <1>1, <2>1 DEF Waiting, Settled
<1>3. ASSUME NEW x \in processed' \cap Fun PROVE Complete(x)'
  <2>1. Complete(x)
    BY DEF IdsInv
  <2>. QED BY <1>1, <2>1 DEF Complete
<1>. QED BY <1>1, <1>2, <1>3 DEF IdsInv

\* Every step keeps the invariant of the identifiers.
LEMMA IdsStep ==
    ASSUME InputInv, MeterInv, IdsInv, [MetricsNext]_allVars PROVE IdsInv'
<1>1. CASE Counting \/ Conditional \/ Include \/ BeginFunction
  BY <1>1, CountingIs, SilentIds
<1>2. CASE ReadToken
  BY <1>2, TokenIds
<1>3. CASE Statement \/ BeginBody \/ UNCHANGED allVars \/ \E f \in Mains : StartUnit(f)
  <2>1. UNCHANGED <<meters, read>> /\ again \subseteq again'
    BY <1>3, Uncharged
  <2>2. UNCHANGED <<identifiers, processed>>
    <3>1. CASE Statement
      BY <3>1 DEF Statement, KeywordOf, Nest, Unnest
    <3>2. CASE BeginBody
      BY <3>2 DEF BeginBody
    <3>3. CASE UNCHANGED allVars
      BY <3>3 DEF allVars, metricVars
    <3>4. CASE \E f \in Mains : StartUnit(f)
      BY <3>4 DEF StartUnit
    <3>. QED BY <1>3, <3>1, <3>2, <3>3, <3>4
  <2>3. {} \cap Fun = {} /\ processed' = processed \cup {}
    BY <2>2
  <2>. QED BY <2>1, <2>2, <2>3, SameIds
<1>4. CASE CloseFile
  <2>1. UNCHANGED <<meters, read>> /\ again \subseteq again'
    BY <1>4, Uncharged
  <2>2. UNCHANGED identifiers /\ processed' = processed \cup {FileNow} /\ open # <<>>
    BY <1>4 DEF CloseFile, ToLex
  <2>3. {FileNow} \cap Fun = {}
    BY <2>2, CurrentIsFirst, EntitiesApart
  <2>. QED BY <2>1, <2>2, <2>3, SameIds
<1>5. CASE FinishUnit
  BY <1>5, FinishIds
<1>6. CASE EndBody
  <2>1. UNCHANGED read
        /\ (UNCHANGED <<meters, again, identifiers, processed>> \/ (nesting # <<>> /\ Leave))
    BY <1>6, Zenon DEF EndBody
  <2>2. CASE nesting # <<>> /\ Leave
    BY <2>1, <2>2, LeaveIds
  <2>3. CASE UNCHANGED <<meters, again, identifiers, processed>>
    <3>1. {} \cap Fun = {} /\ processed' = processed \cup {}
      BY <2>3
    <3>. QED BY <2>1, <2>3, <3>1, SameIds
  <2>. QED BY <2>1, <2>2, <2>3
<1>7. CASE EndFunction
  BY <1>7, LeaveIds DEF EndFunction
<1>. QED BY <1>1, <1>2, <1>3, <1>4, <1>5, <1>6, <1>7, NextIs DEF Reading, Counting

\* At the start no identifier is read.
LEMMA InitIds == MetricsInit => IdsInv
<1>. SUFFICES ASSUME MetricsInit PROVE IdsInv
  OBVIOUS
<1>1. /\ queue = [x \in Entity |-> <<>>]
      /\ ids = [x \in Entity |-> [n \in IdMetric |-> Zero]]
      /\ read = [x \in Entity |-> [pre |-> <<>>, post |-> <<>>]]
      /\ processed = {}
  BY DEF MetricsInit, Zero
<1>2. Zero \in IdCount
  BY DEF Zero, IdCount
<1>3. Queued(<<>>, <<>>)
  <2>1. \A n \in IdMetric : Times(<<>>, InClass[n]) = 0
    BY TimesEmpty
  <2>2. ASSUME NEW n \in IdMetric PROVE Hits(<<>>, InClass[n]) = 0
    <3>1. Places(<<>>, InClass[n]) = {}
      BY DEF Places
    <3>. QED BY <3>1, FS_EmptySet, Zenon DEF Hits
  <2>3. IdsIn(<<>>) = IdsRead(<<>>)
    BY DEF IdsIn, IdsRead
  <2>. QED BY <2>1, <2>2, <2>3 DEF Queued
<1>4. \A x \in Entity : Waiting(x)
  <2>1. \A x \in Entity : queue[x] = <<>> /\ read[x].post = <<>>
                          /\ ids[x] = [n \in IdMetric |-> Zero]
    BY <1>1
  <2>. QED BY <1>3, <2>1 DEF Waiting
<1>. QED BY <1>1, <1>2, <1>4 DEF IdsInv

\* The properties, of the invariants.
LEMMA MetersCountOnce == MeterInv => CountedOnce
BY DEF MeterInv, CountedOnce, Fits

\* With the invariant, what is summarized is what was read.
LEMMA IdsSummarizedOnce == MeterInv /\ IdsInv => SummarizedOnce
<1>. SUFFICES ASSUME MeterInv, IdsInv, NEW x \in Entity \ again
              PROVE  /\ IF queue[x] = <<>>
                        THEN \A n \in IdMetric : ids[x][n] = IdTimes(read[x].post, n)
                        ELSE \A n \in IdMetric :
                               /\ ids[x][n] = [total |-> 0, unique |-> 0]
                               /\ Cardinality({j \in 1 .. Len(queue[x]) :
                                                 queue[x][j] \in InClass[n]})
                                    = IdTimes(read[x].post, n).total
                     /\ x \in processed \cap Fun =>
                           /\ queue[x] = <<>>
                           /\ pre[x].nuop = Cardinality(pre[x].operators)
                           /\ post[x].nuop = Cardinality(post[x].operators)
  BY DEF SummarizedOnce
<1>1. x \in processed \cap Fun => Complete(x)
  BY DEF IdsInv
<1>2. CASE Settled(x)
  BY <1>1, <1>2 DEF Settled, Complete
<1>3. CASE Waiting(x)
  <2> DEFINE s == read[x].post
  <2>1. /\ Queued(queue[x], s) /\ \A n \in IdMetric : ids[x][n] = Zero
    BY <1>3 DEF Waiting
  <2>2. ASSUME NEW n \in IdMetric
        PROVE  /\ Cardinality({j \in 1 .. Len(queue[x]) : queue[x][j] \in InClass[n]})
                    = IdTimes(s, n).total
               /\ queue[x] = <<>> => IdTimes(s, n) = Zero
    <3>1. Hits(queue[x], InClass[n]) = Times(s, InClass[n])
      BY <2>1 DEF Queued
    <3>2. IdTimes(s, n).total = Times(s, InClass[n])
      BY DEF IdTimes
    <3>3. Hits(queue[x], InClass[n])
            = Cardinality({j \in 1 .. Len(queue[x]) : queue[x][j] \in InClass[n]})
      BY Zenon DEF Hits, Places
    <3>4. ASSUME queue[x] = <<>> PROVE IdTimes(s, n) = Zero
      <4>1. Hits(queue[x], InClass[n]) = 0
        <5>1. Places(queue[x], InClass[n]) = {}
          BY <3>4 DEF Places
        <5>. QED BY <5>1, FS_EmptySet, Zenon DEF Hits
      <4>2. {k \in InClass[n] : \E i \in 1 .. Len(s) : k \in s[i]} = {}
        <5>1. IdsRead(s) = {}
          BY <2>1, <3>4 DEF Queued, IdsIn
        <5>. QED BY <5>1, ClassesFinite DEF IdsRead
      <4>3. Cardinality({k \in InClass[n] : \E i \in 1 .. Len(s) : k \in s[i]}) = 0
        BY <4>2, FS_EmptySet, Zenon
      <4>4. Times(s, InClass[n]) = 0
        BY <3>1, <4>1
      <4>. QED BY <4>3, <4>4, Zenon DEF IdTimes, Zero
    <3>. QED BY <3>1, <3>2, <3>3, <3>4, Zenon
  <2>3. CASE queue[x] = <<>>
    <3>1. \A n \in IdMetric : ids[x][n] = IdTimes(s, n)
      BY <2>1, <2>2, <2>3, Zenon
    <3>. QED BY <1>1, <2>3, <3>1 DEF Complete
  <2>4. CASE queue[x] # <<>>
    <3>1. \A n \in IdMetric :
            /\ ids[x][n] = [total |-> 0, unique |-> 0]
            /\ Cardinality({j \in 1 .. Len(queue[x]) : queue[x][j] \in InClass[n]})
                 = IdTimes(s, n).total
      BY <2>1, <2>2, Zenon DEF Zero
    <3>. QED BY <1>1, <2>4, <3>1, Zenon DEF Complete
  <2>. QED BY <2>3, <2>4
<1>. QED BY <1>2, <1>3 DEF IdsInv

\* Whatever is read again, in whatever unit, and however functions and macros
\* are defined inside others, each file and function counts what was read the
\* first time and nothing else, and its identifiers are summarized once.
THEOREM MetersMeasureOnce == MetricsSpec => []MeasuredOnce
<1>1. MetricsInit => InputInv /\ ControlsInv /\ MeterInv /\ IdsInv
  BY InitInput, InitMeters, InitIds
<1>2. InputInv /\ ControlsInv /\ MeterInv /\ IdsInv /\ [MetricsNext]_allVars
        => (InputInv /\ ControlsInv /\ MeterInv /\ IdsInv)'
  BY InputStep, MeterStep, IdsStep
<1>3. InputInv /\ ControlsInv /\ MeterInv /\ IdsInv => MeasuredOnce
  BY MetersCountOnce, IdsSummarizedOnce DEF MeasuredOnce
<1>. QED BY <1>1, <1>2, <1>3, PTL DEF MetricsSpec

-----------------------------------------------------------------------------
(* Nesting *)

\* The statements of c that are f's own, and those that come from macros.
OwnIn(c, f) == {i \in 1 .. Len(c) : /\ c[i].who = f /\ c[i].first
                                    /\ c[i].nested /\ ~c[i].macro}
MacrosIn(c) == {i \in 1 .. Len(c) : c[i].first /\ c[i].macro}

\* They are the sets that the properties speak of.
LEMMA OwnIs == OfMacros = MacrosIn(controls) /\ \A f : Own(f) = OwnIn(controls, f)
BY DEF OfMacros, MacrosIn, Own, OwnIn

\* A set with one more element, or none.
LEMMA PlusOne ==
    ASSUME NEW A, IsFiniteSet(A), NEW n, n \notin A, NEW y \in BOOLEAN, NEW B,
           \A i : i \in B <=> i \in A \/ (y /\ i = n)
    PROVE  /\ Cardinality(A) \in Nat
           /\ Cardinality(B) = Cardinality(A) + IF y THEN 1 ELSE 0
<1>1. Cardinality(A) \in Nat
  BY FS_CardinalityType
<1>2. CASE y
  <2>1. B = A \cup {n}
    BY <1>2
  <2>2. Cardinality(A \cup {n}) = Cardinality(A) + 1
    BY FS_AddElement
  <2>3. Cardinality(B) = Cardinality(A) + 1
    BY <2>1, <2>2, Zenon
  <2>. QED BY <1>1, <1>2, <2>3
<1>3. CASE ~y
  <2>1. B = A
    BY <1>3
  <2>2. Cardinality(B) = Cardinality(A)
    BY <2>1, Zenon
  <2>. QED BY <1>1, <1>3, <2>2
<1>. QED BY <1>2, <1>3

\* Both sets are finite.
LEMMA InFinite ==
    ASSUME NEW c \in Seq(Control)
    PROVE  IsFiniteSet(MacrosIn(c)) /\ \A f : IsFiniteSet(OwnIn(c, f))
<1>1. IsFiniteSet(1 .. Len(c))
  <2>1. 1 \in Int /\ Len(c) \in Int
    OBVIOUS
  <2>. QED BY <2>1, FS_Interval
<1>2. MacrosIn(c) \subseteq 1 .. Len(c) /\ \A f : OwnIn(c, f) \subseteq 1 .. Len(c)
  BY DEF MacrosIn, OwnIn
<1>. QED BY <1>1, <1>2, FS_Subset

\* A statement begins: it is not yet nested.
LEMMA PushControl ==
    ASSUME NEW c \in Seq(Control), NEW v \in Control, ~v.nested, NEW d, d = Append(c, v)
    PROVE  /\ \A f : OwnIn(d, f) = OwnIn(c, f)
           /\ Cardinality(MacrosIn(c)) \in Nat
           /\ Cardinality(MacrosIn(d)) = Cardinality(MacrosIn(c))
                                         + IF v.first /\ v.macro THEN 1 ELSE 0
<1>1. /\ Len(c) \in Nat /\ Len(d) = Len(c) + 1 /\ d[Len(c) + 1] = v
      /\ \A i \in 1 .. Len(c) : d[i] = c[i]
  BY AppendProperties
<1>2. /\ \A i \in 1 .. Len(d) : i \in 1 .. Len(c) \/ i = Len(c) + 1
      /\ \A i \in 1 .. Len(c) : i \in 1 .. Len(d)
      /\ Len(c) + 1 \in 1 .. Len(d) /\ Len(c) + 1 \notin 1 .. Len(c)
  BY <1>1
<1>3. \A f : OwnIn(d, f) = OwnIn(c, f)
  BY <1>1, <1>2 DEF OwnIn
<1>4. \A i : i \in MacrosIn(d) <=> i \in MacrosIn(c) \/ (v.first /\ v.macro /\ i = Len(c) + 1)
  BY <1>1, <1>2 DEF MacrosIn
<1>5. Len(c) + 1 \notin MacrosIn(c) /\ IsFiniteSet(MacrosIn(c))
  BY <1>2, InFinite DEF MacrosIn
<1>6. (v.first /\ v.macro) \in BOOLEAN
  OBVIOUS
<1>7. /\ Cardinality(MacrosIn(c)) \in Nat
      /\ Cardinality(MacrosIn(d)) = Cardinality(MacrosIn(c))
                                    + IF v.first /\ v.macro THEN 1 ELSE 0
  <2>1. PICK y \in BOOLEAN : y <=> v.first /\ v.macro
    BY <1>6
  <2>2. \A i : i \in MacrosIn(d) <=> i \in MacrosIn(c) \/ (y /\ i = Len(c) + 1)
    BY <1>4, <2>1
  <2>3. /\ Cardinality(MacrosIn(c)) \in Nat
        /\ Cardinality(MacrosIn(d)) = Cardinality(MacrosIn(c)) + IF y THEN 1 ELSE 0
    BY <1>5, <2>2, PlusOne
  <2>. QED BY <2>1, <2>3
<1>. QED BY <1>3, <1>7

\* The statement in it begins.
LEMMA NestControl ==
    ASSUME NEW c \in Seq(Control), Len(c) > 0, ~Top(c).nested,
           NEW d, d = Retop(c, [Top(c) EXCEPT !.nested = TRUE]), NEW f
    PROVE  /\ MacrosIn(d) = MacrosIn(c)
           /\ Len(d) = Len(c)
           /\ \A i \in 1 .. Len(c) : /\ d[i].who = c[i].who /\ d[i].first = c[i].first
                                     /\ d[i].macro = c[i].macro
           /\ Cardinality(OwnIn(c, f)) \in Nat
           /\ Cardinality(OwnIn(d, f)) =
                 Cardinality(OwnIn(c, f))
                 + IF Top(c).who = f /\ Top(c).first /\ ~Top(c).macro THEN 1 ELSE 0
<1> DEFINE v == [Top(c) EXCEPT !.nested = TRUE]
           n == Len(c)
<1>1. Top(c) \in Control /\ Top(c) = c[n] /\ n \in Nat /\ n \in 1 .. n
  BY DEF Top
<1>2. /\ v \in Control /\ v.nested /\ v.who = Top(c).who /\ v.first = Top(c).first
      /\ v.macro = Top(c).macro
  BY <1>1 DEF Control
<1>. HIDE DEF v
<1>3. /\ Len(d) = n /\ d[n] = v /\ \A i \in 1 .. n - 1 : d[i] = c[i]
  <2>1. d = Retop(c, v)
    BY DEF v
  <2>2. /\ Len(Retop(c, v)) = Len(c) /\ Retop(c, v)[Len(c)] = v
        /\ \A i \in 1 .. Len(c) - 1 : Retop(c, v)[i] = c[i]
    BY <1>2, RetopFacts
  <2>. QED BY <2>1, <2>2
<1>4. \A i \in 1 .. n : i \in 1 .. n - 1 \/ i = n
  BY <1>1
<1>. HIDE DEF n
<1>5. \A i \in 1 .. n : d[i].who = c[i].who /\ d[i].first = c[i].first /\ d[i].macro = c[i].macro
  BY <1>1, <1>2, <1>3, <1>4
<1>6. MacrosIn(d) = MacrosIn(c)
  BY <1>3, <1>5 DEF MacrosIn, n
<1>7. n \notin OwnIn(c, f) /\ IsFiniteSet(OwnIn(c, f))
  BY <1>1, InFinite DEF OwnIn
<1>8. PICK y \in BOOLEAN : y <=> Top(c).who = f /\ Top(c).first /\ ~Top(c).macro
  OBVIOUS
<1>9. ASSUME NEW i
      PROVE  i \in OwnIn(d, f) <=> i \in OwnIn(c, f) \/ (y /\ i = n)
  <2>1. CASE i \in 1 .. n - 1
    <3>1. i # n
      BY <1>1, <2>1
    <3>. QED BY <1>3, <1>4, <2>1, <3>1 DEF OwnIn, n
  <2>2. CASE i = n
    BY <1>1, <1>2, <1>3, <1>7, <1>8, <2>2 DEF OwnIn, n
  <2>3. CASE i \notin 1 .. n
    BY <1>1, <1>3, <2>3 DEF OwnIn, n
  <2>. QED BY <1>4, <2>1, <2>2, <2>3
<1>10. /\ Cardinality(OwnIn(c, f)) \in Nat
       /\ Cardinality(OwnIn(d, f)) = Cardinality(OwnIn(c, f)) + IF y THEN 1 ELSE 0
  <2>1. \A i : i \in OwnIn(d, f) <=> i \in OwnIn(c, f) \/ (y /\ i = n)
    BY <1>9
  <2>2. PICK B : B = OwnIn(d, f)
    OBVIOUS
  <2>3. \A i : i \in B <=> i \in OwnIn(c, f) \/ (y /\ i = n)
    BY <2>1, <2>2
  <2>4. /\ Cardinality(OwnIn(c, f)) \in Nat
        /\ Cardinality(B) = Cardinality(OwnIn(c, f)) + IF y THEN 1 ELSE 0
    BY <1>7, <2>3, PlusOne
  <2>. QED BY <2>2, <2>4
<1>. QED BY <1>3, <1>5, <1>6, <1>8, <1>10 DEF n

\* The statement is over.
LEMMA PopControl ==
    ASSUME NEW c \in Seq(Control), Len(c) > 0, Top(c).nested,
           NEW d, d = Pop(c), NEW f
    PROVE  /\ Len(d) = Len(c) - 1 /\ \A i \in 1 .. Len(c) - 1 : d[i] = c[i]
           /\ Cardinality(MacrosIn(d)) \in Nat
           /\ Cardinality(MacrosIn(c)) =
                 Cardinality(MacrosIn(d)) + IF Top(c).first /\ Top(c).macro THEN 1 ELSE 0
           /\ Cardinality(OwnIn(d, f)) \in Nat
           /\ Cardinality(OwnIn(c, f)) =
                 Cardinality(OwnIn(d, f))
                 + IF Top(c).who = f /\ Top(c).first /\ ~Top(c).macro THEN 1 ELSE 0
<1> DEFINE n == Len(c)
<1>1. /\ d \in Seq(Control) /\ Len(d) = n - 1 /\ \A i \in 1 .. n - 1 : d[i] = c[i]
  BY PopFacts
<1>2. /\ n \in Nat /\ n \in 1 .. n /\ n \notin 1 .. n - 1 /\ Top(c) = c[n]
      /\ \A i \in 1 .. n : i \in 1 .. n - 1 \/ i = n
      /\ \A i \in 1 .. n - 1 : i \in 1 .. n
  BY DEF Top
<1>. HIDE DEF n
<1>3. n \notin MacrosIn(d) /\ n \notin OwnIn(d, f)
      /\ IsFiniteSet(MacrosIn(d)) /\ IsFiniteSet(OwnIn(d, f))
  <2>1. n \notin MacrosIn(d) /\ n \notin OwnIn(d, f)
    BY <1>1, <1>2 DEF MacrosIn, OwnIn
  <2>2. IsFiniteSet(MacrosIn(d)) /\ IsFiniteSet(OwnIn(d, f))
    BY <1>1, InFinite
  <2>. QED BY <2>1, <2>2
<1>4. PICK y \in BOOLEAN : y <=> Top(c).who = f /\ Top(c).first /\ ~Top(c).macro
  OBVIOUS
<1>5. PICK z \in BOOLEAN : z <=> Top(c).first /\ Top(c).macro
  OBVIOUS
<1>6. \A i : i \in MacrosIn(c) <=> i \in MacrosIn(d) \/ (z /\ i = n)
  BY <1>1, <1>2, <1>5 DEF MacrosIn, n
<1>7. \A i : i \in OwnIn(c, f) <=> i \in OwnIn(d, f) \/ (y /\ i = n)
  BY <1>1, <1>2, <1>4 DEF OwnIn, n
<1>8. /\ Cardinality(MacrosIn(d)) \in Nat
      /\ Cardinality(MacrosIn(c)) = Cardinality(MacrosIn(d)) + IF z THEN 1 ELSE 0
  BY <1>3, <1>6, PlusOne
<1>9. /\ Cardinality(OwnIn(d, f)) \in Nat
      /\ Cardinality(OwnIn(c, f)) = Cardinality(OwnIn(d, f)) + IF y THEN 1 ELSE 0
  BY <1>3, <1>7, PlusOne
<1>. QED BY <1>1, <1>4, <1>5, <1>8, <1>9 DEF n

-----------------------------------------------------------------------------
\* Each function holds the statements from its base up to the base of the
\* next, and these are of its first definition if it is.
Based(s, c) ==
    /\ \A i \in 1 .. Len(s) : /\ s[i].base <= Len(c)
                              /\ \A j \in 1 .. Len(s) : i < j => s[i].base <= s[j].base
    /\ Len(s) = 0 => Len(c) = 0
    /\ Len(s) > 0 => s[1].base = 0
\* A statement belongs to the function it was begun in.
Holds(s, i, k) == s[i].base < k /\ \A j \in 1 .. Len(s) : i < j => k <= s[j].base
Belong(s, c) ==
    \A i \in 1 .. Len(s) : \A k \in 1 .. Len(c) :
        Holds(s, i, k) => c[k].who = s[i].who /\ (c[k].first <=> s[i].time = 1)

\* Above a statement of a macro there are only others of macros.
MacrosLast(c) ==
    \A i, j \in 1 .. Len(c) : i < j /\ c[i].macro /\ c[i].first => c[j].macro

\* The inductive invariant of nesting, while macros and own statements are
\* not mixed.
NestInv ==
    /\ level \in [Fun -> Int] /\ nest \in [Entity -> Nat] /\ deepest \in [Fun -> Nat]
    /\ mixed \in BOOLEAN
    /\ Based(nesting, controls) /\ Belong(nesting, controls)
    /\ ~mixed => /\ again \cap Fun = {} /\ MacrosLast(controls)
                 /\ macronest = Cardinality(MacrosIn(controls))
                 /\ \A f \in Fun : /\ level[f] = Cardinality(OwnIn(controls, f))
                                   /\ nest[f] = deepest[f]

\* The steps that are about neither functions nor statements.
LEMMA SameNest ==
    ASSUME NestInv,
           UNCHANGED <<nesting, controls, level, macronest, nest, deepest, mixed>>,
           NEW X, X \cap Fun = {}, again' \subseteq again \cup X
    PROVE  NestInv'
<1>1. again \cap Fun = {} => again' \cap Fun = {}
  OBVIOUS
<1>. QED BY <1>1 DEF NestInv

\* Entering a function keeps it.
LEMMA EnterNest ==
    ASSUME InputInv, ControlsInv, NestInv, NEW f \in Fun, Enter(f),
           UNCHANGED <<controls, level, macronest, nest, deepest>>
    PROVE  NestInv'
<1> DEFINE s == nesting
           n == Len(nesting)
           b == Len(controls)
           v == [who |-> f, time |-> opened[f] + 1, base |-> b]
<1>1. nesting' = Append(nesting, v) /\ b \in Nat /\ n \in Nat
  BY DEF Enter, ControlsInv, InputInv
<1>2. /\ \E y \in BOOLEAN : mixed' = (mixed \/ y)
      /\ ~mixed' => ~mixed /\ again' = again
  BY DEF Enter
<1>3. /\ Len(nesting') = n + 1 /\ nesting'[n + 1] = v /\ v.base = b
      /\ \A i \in 1 .. n : nesting'[i] = s[i]
  <2>1. v.base = b
    OBVIOUS
  <2>. HIDE DEF v
  <2>. QED BY <1>1, <2>1 DEF InputInv
<1>4. /\ \A i \in 1 .. n + 1 : i \in 1 .. n \/ i = n + 1
      /\ \A i \in 1 .. n : i \in 1 .. n + 1 /\ i < n + 1
      /\ n + 1 \in 1 .. n + 1 /\ \A i \in 1 .. n : ~(n + 1 < i)
  BY <1>1
<1>5. \A i \in 1 .. n : s[i].base \in Nat
  <2>1. \A i \in 1 .. n : s[i] \in Running
    BY DEF InputInv
  <2>. QED BY <2>1 DEF Running
<1>6. Based(s, controls) /\ Belong(s, controls)
  BY DEF NestInv
<1>. HIDE DEF v
<1>7. Based(nesting', controls)
  <2>1. \A i \in 1 .. n + 1 : nesting'[i].base <= b
    BY <1>1, <1>3, <1>4, <1>6 DEF Based
  <2>2. ASSUME NEW i \in 1 .. n + 1, NEW j \in 1 .. n + 1, i < j
        PROVE  nesting'[i].base <= nesting'[j].base
    <3>1. i \in 1 .. n
      BY <1>1, <2>2
    <3>2. CASE j = n + 1
      BY <1>3, <2>1, <3>2
    <3>3. CASE j \in 1 .. n
      BY <1>3, <1>6, <2>2, <3>1, <3>3 DEF Based
    <3>. QED BY <1>4, <3>2, <3>3
  <2>3. nesting'[1].base = 0
    <3>1. CASE n = 0
      BY <1>3, <1>6, <3>1 DEF Based
    <3>2. CASE n # 0
      <4>1. 1 \in 1 .. n /\ n > 0
        BY <1>1, <3>2
      <4>. QED BY <1>3, <1>6, <4>1 DEF Based
    <3>. QED BY <3>1, <3>2
  <2>4. Len(nesting') # 0
    BY <1>1, <1>3
  <2>. QED BY <1>3, <2>1, <2>2, <2>3, <2>4 DEF Based
<1>8. Belong(nesting', controls)
  <2>. SUFFICES ASSUME NEW i \in 1 .. n + 1, NEW k \in 1 .. b, Holds(nesting', i, k)
                PROVE  /\ controls[k].who = nesting'[i].who
                       /\ (controls[k].first <=> nesting'[i].time = 1)
    BY <1>3 DEF Belong
  <2>1. i # n + 1
    BY <1>1, <1>3 DEF Holds
  <2>2. i \in 1 .. n /\ nesting'[i] = s[i]
    BY <1>3, <1>4, <2>1
  <2>3. Holds(s, i, k)
    BY <1>3, <1>4, <2>2 DEF Holds
  <2>. QED BY <1>6, <2>2, <2>3 DEF Belong
<1>. QED BY <1>2, <1>7, <1>8 DEF NestInv

\* So does leaving one.
LEMMA LeaveNest ==
    ASSUME InputInv, ControlsInv, NestInv, nesting # <<>>, Leave,
           Len(controls) = Top(nesting).base,
           UNCHANGED <<controls, level, macronest, nest, deepest>>
    PROVE  NestInv'
<1> DEFINE s == nesting
           n == Len(nesting)
           b == Len(controls)
<1>1. /\ b \in Nat /\ n \in Nat /\ n > 0 /\ nesting \in Seq(Running)
      /\ UNCHANGED <<again, mixed>> /\ nesting' = Pop(nesting)
  <2>1. UNCHANGED <<again, mixed>> /\ nesting' = Pop(nesting)
    BY Zenon DEF Leave
  <2>. QED BY <2>1, EmptySeq DEF ControlsInv, InputInv
<1>2. Len(nesting') = n - 1 /\ \A i \in 1 .. n - 1 : nesting'[i] = s[i]
  BY <1>1, PopFacts
<1>3. Based(s, controls) /\ Belong(s, controls) /\ s[n].base = b
  BY DEF NestInv, Top
<1>4. \A i \in 1 .. n : i \in 1 .. n - 1 \/ i = n
  BY <1>1
<1>5. \A i \in 1 .. n - 1 : i \in 1 .. n
  BY <1>1
<1>6. Based(nesting', controls)
  <2>1. n - 1 = 0 => b = 0
    BY <1>1, <1>3 DEF Based
  <2>2. n - 1 > 0 => nesting'[1].base = 0
    <3>1. n - 1 > 0 => 1 \in 1 .. n - 1 /\ s[1].base = 0
      BY <1>1, <1>3 DEF Based
    <3>. QED BY <1>2, <3>1
  <2>3. ASSUME NEW i \in 1 .. n - 1
        PROVE  /\ nesting'[i].base <= b
               /\ \A j \in 1 .. n - 1 : i < j => nesting'[i].base <= nesting'[j].base
    BY <1>2, <1>3, <1>5 DEF Based
  <2>. QED BY <1>2, <2>1, <2>2, <2>3 DEF Based
<1>7. Belong(nesting', controls)
  <2>. SUFFICES ASSUME NEW i \in 1 .. n - 1, NEW k \in 1 .. b, Holds(nesting', i, k)
                PROVE  /\ controls[k].who = nesting'[i].who
                       /\ (controls[k].first <=> nesting'[i].time = 1)
    BY <1>2 DEF Belong
  <2>1. Holds(s, i, k)
    <3>1. k <= s[n].base
      BY <1>3
    <3>. QED BY <1>2, <1>4, <3>1 DEF Holds
  <2>. QED BY <1>2, <1>3, <1>5, <2>1 DEF Belong
<1>. QED BY <1>1, <1>6, <1>7 DEF NestInv

\* In a function, whose definition is the first one if it is not complete.
LEMMA InFunctionIs ==
    ASSUME InputInv, ControlsInv, NestInv, InFunction
    PROVE  /\ Len(nesting) \in Nat /\ Len(nesting) > 0 /\ Len(controls) \in Nat
           /\ Top(nesting) = nesting[Len(nesting)] /\ Top(nesting).who \in Fun
           /\ Top(nesting).base \in Nat
           /\ \A i \in 1 .. Len(nesting) : nesting[i].base <= Top(nesting).base
           /\ ~mixed => (Unmeasured <=> Top(nesting).time = 1)
<1>1. Len(nesting) \in Nat /\ Len(nesting) > 0 /\ Len(controls) \in Nat
      /\ nesting \in Seq(Running) /\ Top(nesting) = nesting[Len(nesting)]
  BY EmptySeq DEF InputInv, InFunction, ControlsInv, Top
<1>2. \A i \in 1 .. Len(nesting) : nesting[i] \in Running
  BY <1>1
<1>3. Top(nesting) \in Running
  BY <1>1, <1>2
<1>4. Top(nesting).who \in Fun /\ Top(nesting).base \in Nat
  BY <1>3 DEF Running
<1>5. ASSUME NEW i \in 1 .. Len(nesting) PROVE nesting[i].base <= Top(nesting).base
  <2>1. i = Len(nesting) \/ i < Len(nesting)
    BY <1>1
  <2>2. Len(nesting) \in 1 .. Len(nesting)
    BY <1>1
  <2>3. nesting[i].base \in Nat
    BY <1>2 DEF Running
  <2>. QED BY <1>1, <2>1, <2>2, <2>3 DEF NestInv, Based
<1>6. ASSUME ~mixed PROVE Unmeasured <=> Top(nesting).time = 1
  <2>1. Top(nesting).who \in Fun \ again
    BY <1>4, <1>6 DEF NestInv
  <2>. QED BY <1>1, <2>1, EntitiesApart, TopIsFirst DEF InputInv, Unmeasured
<1>. QED BY <1>1, <1>4, <1>5, <1>6

\* ... and in a statement of its own.
LEMMA InStatementIs ==
    ASSUME InputInv, ControlsInv, NestInv, InStatement
    PROVE  /\ Len(controls) \in Nat /\ Len(controls) > 0
           /\ Top(controls) = controls[Len(controls)] /\ Top(controls) \in Control
           /\ Top(controls).who = Top(nesting).who
           /\ Top(controls).first <=> Top(nesting).time = 1
           /\ \A i \in 1 .. Len(nesting) : nesting[i].base <= Len(controls) - 1
<1> DEFINE n == Len(nesting)
           b == Len(controls)
<1>1. /\ n \in Nat /\ n > 0 /\ b \in Nat /\ Top(nesting) = nesting[n]
      /\ Top(nesting).base \in Nat /\ b > Top(nesting).base
      /\ \A i \in 1 .. n : nesting[i].base <= Top(nesting).base
  BY InFunctionIs DEF InStatement
<1>2. b > 0 /\ Top(controls) = controls[b] /\ Top(controls) \in Control
  BY <1>1 DEF Top, ControlsInv
<1>3. Holds(nesting, n, b)
  BY <1>1 DEF Holds
<1>4. n \in 1 .. n /\ b \in 1 .. b
  BY <1>1, <1>2
<1>5. controls[b].who = nesting[n].who /\ (controls[b].first <=> nesting[n].time = 1)
  BY <1>3, <1>4 DEF NestInv, Belong
<1>6. ASSUME NEW i \in 1 .. n PROVE nesting[i].base <= b - 1
  <2>1. nesting[i].base \in Nat
    <3>1. nesting[i] \in Running
      BY DEF InputInv
    <3>. QED BY <3>1 DEF Running
  <2>. QED BY <1>1, <2>1
<1>. QED BY <1>1, <1>2, <1>5, <1>6

\* So does the keyword of a statement.
LEMMA KeywordNest ==
    ASSUME InputInv, ControlsInv, NestInv, KeywordOf PROVE NestInv'
<1> DEFINE v == [who |-> Top(nesting).who, first |-> Top(nesting).time = 1,
                 macro |-> Here.macro, nested |-> FALSE]
           c == controls
           b == Len(controls)
<1>1. /\ InFunction /\ open # <<>> /\ Kind = "keyword"
      /\ macronest' = IF Unmeasured /\ Here.macro THEN macronest + 1 ELSE macronest
      /\ controls' = Append(controls, v)
      /\ mixed' = (mixed \/ (~Here.macro /\ \E i \in 1 .. b : c[i].macro /\ c[i].first))
      /\ UNCHANGED <<nesting, level, nest, deepest, again>>
  BY DEF KeywordOf, ToParse
<1>2. Here.macro \in BOOLEAN
  BY <1>1, KindIs DEF ItemOK
<1>3. /\ Len(nesting) \in Nat /\ Len(nesting) > 0 /\ b \in Nat
      /\ Top(nesting) = nesting[Len(nesting)] /\ Top(nesting).who \in Fun
      /\ ~mixed => (Unmeasured <=> Top(nesting).time = 1)
  BY <1>1, InFunctionIs
<1>4. /\ v \in Control /\ v.who = Top(nesting).who /\ (v.first <=> Top(nesting).time = 1)
      /\ v.macro = Here.macro /\ ~v.nested
  BY <1>2, <1>3 DEF Control
<1>5. c \in Seq(Control)
  BY DEF ControlsInv
<1>. HIDE DEF v
<1>6. /\ Len(controls') = b + 1 /\ controls'[b + 1] = v
      /\ \A i \in 1 .. b : controls'[i] = c[i]
  BY <1>1, <1>4, <1>5, AppendFacts
<1>7. /\ \A i \in 1 .. b + 1 : i \in 1 .. b \/ i = b + 1
      /\ \A i \in 1 .. b : i \in 1 .. b + 1 /\ i < b + 1
      /\ \A i \in 1 .. b + 1 : ~(b + 1 < i)
  BY <1>3
<1>8. Based(nesting, controls')
  <2>1. \A i \in 1 .. Len(nesting) : nesting[i].base <= b + 1
    <3>1. \A i \in 1 .. Len(nesting) : nesting[i] \in Running
      BY DEF InputInv
    <3>2. \A i \in 1 .. Len(nesting) : nesting[i].base \in Nat /\ nesting[i].base <= b
      BY <3>1 DEF Running, NestInv, Based
    <3>. QED BY <1>3, <3>2
  <2>2. Len(nesting) # 0
    BY <1>3
  <2>. QED BY <1>6, <2>1, <2>2 DEF NestInv, Based
<1>9. Belong(nesting, controls')
  <2>. SUFFICES ASSUME NEW i \in 1 .. Len(nesting), NEW k \in 1 .. b + 1, Holds(nesting, i, k)
                PROVE  /\ controls'[k].who = nesting[i].who
                       /\ (controls'[k].first <=> nesting[i].time = 1)
    BY <1>6 DEF Belong
  <2>1. CASE k \in 1 .. b
    BY <1>6, <2>1 DEF NestInv, Belong
  <2>2. CASE k = b + 1
    <3>1. CASE i = Len(nesting)
      BY <1>3, <1>4, <1>6, <2>2, <3>1
    <3>2. CASE i # Len(nesting)
      <4>1. Len(nesting) \in 1 .. Len(nesting) /\ i < Len(nesting)
        BY <1>3, <3>2
      <4>2. k <= nesting[Len(nesting)].base
        BY <4>1 DEF Holds
      <4>3. nesting[Len(nesting)].base <= b
        BY <4>1 DEF NestInv, Based
      <4>4. nesting[Len(nesting)] \in Running
        BY <4>1 DEF InputInv
      <4>. QED BY <1>3, <2>2, <4>2, <4>3, <4>4 DEF Running
    <3>. QED BY <3>1, <3>2
  <2>. QED BY <1>7, <2>1, <2>2
<1>10. mixed' \in BOOLEAN
  BY <1>1
<1>11. ASSUME ~mixed'
       PROVE  /\ again' \cap Fun = {} /\ MacrosLast(controls')
              /\ macronest' = Cardinality(MacrosIn(controls'))
              /\ \A f \in Fun : /\ level'[f] = Cardinality(OwnIn(controls', f))
                                /\ nest'[f] = deepest'[f]
  <2>1. ~mixed /\ (Here.macro \/ \A i \in 1 .. b : ~(c[i].macro /\ c[i].first))
    BY <1>1, <1>11
  <2>2. /\ again \cap Fun = {} /\ MacrosLast(c) /\ macronest = Cardinality(MacrosIn(c))
        /\ \A f \in Fun : level[f] = Cardinality(OwnIn(c, f)) /\ nest[f] = deepest[f]
    BY <2>1 DEF NestInv
  <2>3. MacrosLast(controls')
    <3>. SUFFICES ASSUME NEW i \in 1 .. b + 1, NEW j \in 1 .. b + 1, i < j,
                         controls'[i].macro, controls'[i].first
                  PROVE  controls'[j].macro
      BY <1>6 DEF MacrosLast
    <3>1. i \in 1 .. b
      BY <1>3
    <3>2. CASE j \in 1 .. b
      BY <1>6, <2>2, <3>1, <3>2 DEF MacrosLast
    <3>3. CASE j = b + 1
      BY <1>4, <1>6, <2>1, <3>1, <3>3
    <3>. QED BY <1>7, <3>2, <3>3
  <2>4. /\ \A f : OwnIn(controls', f) = OwnIn(c, f)
        /\ Cardinality(MacrosIn(c)) \in Nat
        /\ Cardinality(MacrosIn(controls')) = Cardinality(MacrosIn(c))
                                              + IF v.first /\ v.macro THEN 1 ELSE 0
    BY <1>1, <1>4, <1>5, PushControl
  <2>5. Unmeasured /\ Here.macro <=> v.first /\ v.macro
    BY <1>3, <1>4, <2>1
  <2>6. macronest' = Cardinality(MacrosIn(controls'))
    BY <1>1, <2>2, <2>4, <2>5
  <2>. QED BY <1>1, <2>2, <2>3, <2>4, <2>6, Zenon
<1>. QED BY <1>1, <1>8, <1>9, <1>10, <1>11 DEF NestInv

\* Which of the two counts, at a statement that is first.
LEMMA WhichCounts ==
    ASSUME InputInv, ControlsInv, NestInv, InStatement, ~mixed
    PROVE  /\ Top(controls).first => Unmeasured
           /\ Unmeasured => Top(controls).first
           /\ Top(controls).first /\ ~Top(controls).macro => macronest = 0
           /\ Top(controls).first /\ Top(controls).macro => macronest # 0
           /\ macronest \in Nat
<1> DEFINE c == controls
           b == Len(controls)
<1>1. /\ b \in Nat /\ b > 0 /\ Top(c) = c[b] /\ Top(c) \in Control
      /\ Top(c).first <=> Top(nesting).time = 1
  BY InStatementIs
<1>2. Unmeasured <=> Top(nesting).time = 1
  BY InFunctionIs DEF InStatement
<1>3. MacrosLast(c) /\ macronest = Cardinality(MacrosIn(c)) /\ IsFiniteSet(MacrosIn(c))
  BY InFinite DEF NestInv, ControlsInv
<1>4. macronest \in Nat
  BY <1>3, FS_CardinalityType
<1>5. ASSUME Top(c).first, ~Top(c).macro PROVE macronest = 0
  <2>1. ASSUME NEW i \in MacrosIn(c) PROVE FALSE
    <3>1. i \in 1 .. b /\ c[i].first /\ c[i].macro
      BY DEF MacrosIn
    <3>2. i < b /\ b \in 1 .. b
      BY <1>1, <1>5, <3>1
    <3>. QED BY <1>1, <1>3, <1>5, <3>1, <3>2 DEF MacrosLast
  <2>2. MacrosIn(c) = {}
    BY <2>1
  <2>. QED BY <1>3, <2>2, FS_EmptySet, Zenon
<1>6. ASSUME Top(c).first, Top(c).macro PROVE macronest # 0
  <2>1. b \in MacrosIn(c)
    BY <1>1, <1>6 DEF MacrosIn
  <2>2. MacrosIn(c) # {}
    BY <2>1
  <2>. QED BY <1>3, <2>2, FS_EmptySet, Zenon
<1>. QED BY <1>1, <1>2, <1>4, <1>5, <1>6

\* So does the start of its body, which is one level deeper.
LEMMA NestNest ==
    ASSUME InputInv, ControlsInv, NestInv, Nest PROVE NestInv'
<1>0. PICK fun : fun = Top(nesting).who
  OBVIOUS
<1> DEFINE c == controls
           b == Len(controls)
           deeper == level[fun] + 1
           own == Top(c).first /\ ~Top(c).macro
           held == Cardinality(OwnIn(c, fun))
           file == FileNow
<1>1. /\ InStatement /\ ~Top(c).nested /\ open # <<>>
      /\ IF Unmeasured /\ macronest = 0
         THEN /\ level' = [level EXCEPT ![fun] = deeper]
              /\ nest' = [nest EXCEPT ![fun] = Greater(@, deeper),
                                      ![file] = Greater(@, deeper)]
         ELSE UNCHANGED <<level, nest>>
      /\ deepest' = IF own THEN [deepest EXCEPT ![fun] = Greater(@, held + 1)] ELSE deepest
      /\ controls' = Retop(c, [Top(c) EXCEPT !.nested = TRUE])
      /\ UNCHANGED <<nesting, macronest, again, mixed>>
  BY <1>0, Zenon DEF Nest, ToParse, OwnIn
<1>2. /\ b \in Nat /\ b > 0 /\ Top(c) \in Control /\ Top(c).who = fun
      /\ fun \in Fun /\ c \in Seq(Control)
  BY <1>0, <1>1, InStatementIs, InFunctionIs DEF InStatement, ControlsInv
<1>3. FileNow \in File /\ FileNow \in Entity /\ FileNow \notin Fun /\ fun \in Entity
      /\ Fun \subseteq Entity
  BY <1>1, <1>2, CurrentIsFirst, EntitiesApart
<1>4. ASSUME NEW f
      PROVE  /\ MacrosIn(controls') = MacrosIn(c)
             /\ Len(controls') = b
             /\ \A i \in 1 .. b : /\ controls'[i].who = c[i].who
                                  /\ controls'[i].first = c[i].first
                                  /\ controls'[i].macro = c[i].macro
             /\ Cardinality(OwnIn(c, f)) \in Nat
             /\ Cardinality(OwnIn(controls', f)) =
                   Cardinality(OwnIn(c, f))
                   + IF Top(c).who = f /\ Top(c).first /\ ~Top(c).macro THEN 1 ELSE 0
  <2>1. PICK d : d = Retop(c, [Top(c) EXCEPT !.nested = TRUE])
    OBVIOUS
  <2>2. d = controls'
    BY <1>1, <2>1
  <2>3. /\ MacrosIn(d) = MacrosIn(c)
        /\ Len(d) = b
        /\ \A i \in 1 .. b : /\ d[i].who = c[i].who
                             /\ d[i].first = c[i].first
                             /\ d[i].macro = c[i].macro
        /\ Cardinality(OwnIn(c, f)) \in Nat
        /\ Cardinality(OwnIn(d, f)) =
              Cardinality(OwnIn(c, f))
              + IF Top(c).who = f /\ Top(c).first /\ ~Top(c).macro THEN 1 ELSE 0
    BY <1>1, <1>2, <2>1, NestControl
  <2>. QED BY <2>2, <2>3, Zenon
<1>5. Based(nesting, controls') /\ Belong(nesting, controls')
  <2>1. Len(controls') = b /\ \A i \in 1 .. b : controls'[i].who = c[i].who
                                                /\ controls'[i].first = c[i].first
    BY <1>4
  <2>. QED BY <2>1 DEF NestInv, Based, Belong
<1>6. level \in [Fun -> Int] /\ nest \in [Entity -> Nat] /\ deepest \in [Fun -> Nat]
  BY DEF NestInv
<1>7. held \in Nat
  BY <1>4
<1>8. /\ level' \in [Fun -> Int]
      /\ \A f \in Fun : level'[f] = IF Unmeasured /\ macronest = 0 /\ f = fun THEN deeper
                                    ELSE level[f]
  <2>1. deeper \in Int
    BY <1>2, <1>6
  <2>. HIDE DEF deeper
  <2>. QED BY <1>1, <1>2, <1>6, <2>1
<1>9. /\ nest' \in [Entity -> Nat]
      /\ \A f \in Fun : nest'[f] = IF Unmeasured /\ macronest = 0 /\ f = fun
                                   THEN Greater(nest[f], deeper) ELSE nest[f]
  <2>1. deeper \in Int
    BY <1>2, <1>6
  <2>2. Greater(nest[fun], deeper) \in Nat /\ Greater(nest[file], deeper) \in Nat
    <3>1. nest[fun] \in Nat /\ nest[file] \in Nat
      BY <1>3, <1>6
    <3>. HIDE DEF deeper, file
    <3>. QED BY <2>1, <3>1 DEF Greater
  <2>3. file \in Entity /\ file \notin Fun /\ fun # file
    BY <1>2, <1>3
  <2>. HIDE DEF deeper, file
  <2>4. CASE Unmeasured /\ macronest = 0
    <3>1. nest' = [nest EXCEPT ![fun] = Greater(@, deeper), ![file] = Greater(@, deeper)]
      BY <1>1, <2>4
    <3>2. nest' \in [Entity -> Nat]
      BY <1>3, <1>6, <2>2, <2>3, <3>1
    <3>3. nest'[fun] = Greater(nest[fun], deeper) /\ \A f \in Fun : f # fun => nest'[f] = nest[f]
      BY <1>3, <1>6, <2>3, <3>1
    <3>. QED BY <2>4, <3>2, <3>3
  <2>5. CASE ~(Unmeasured /\ macronest = 0)
    BY <1>1, <1>6, <2>5
  <2>. QED BY <2>4, <2>5
<1>10. /\ deepest' \in [Fun -> Nat]
       /\ \A f \in Fun : deepest'[f] = IF own /\ f = fun THEN Greater(deepest[f], held + 1)
                                       ELSE deepest[f]
  <2>1. Greater(deepest[fun], held + 1) \in Nat
    <3>1. deepest[fun] \in Nat
      BY <1>2, <1>6
    <3>. HIDE DEF held
    <3>. QED BY <1>7, <3>1 DEF Greater
  <2>. HIDE DEF held, own
  <2>. QED BY <1>1, <1>2, <1>6, <2>1
<1>11. ASSUME ~mixed'
       PROVE  /\ again' \cap Fun = {} /\ MacrosLast(controls')
              /\ macronest' = Cardinality(MacrosIn(controls'))
              /\ \A f \in Fun : /\ level'[f] = Cardinality(OwnIn(controls', f))
                                /\ nest'[f] = deepest'[f]
  <2>1. /\ ~mixed /\ again \cap Fun = {} /\ MacrosLast(c)
        /\ macronest = Cardinality(MacrosIn(c))
        /\ \A f \in Fun : level[f] = Cardinality(OwnIn(c, f)) /\ nest[f] = deepest[f]
    BY <1>1, <1>11 DEF NestInv
  <2>2. own <=> Unmeasured /\ macronest = 0
    BY <1>1, <2>1, WhichCounts
  <2>3. MacrosLast(controls')
    BY <1>4, <2>1 DEF MacrosLast
  <2>4. macronest' = Cardinality(MacrosIn(controls'))
    BY <1>1, <1>4, <2>1
  <2>5. ASSUME NEW f \in Fun
        PROVE  level'[f] = Cardinality(OwnIn(controls', f)) /\ nest'[f] = deepest'[f]
    <3>1. /\ level[f] = Cardinality(OwnIn(c, f)) /\ nest[f] = deepest[f]
          /\ level[fun] = held
      BY <1>2, <2>1
    <3>2. level'[f] = IF own /\ f = fun THEN deeper ELSE level[f]
      BY <1>8, <2>2
    <3>3. /\ Cardinality(OwnIn(controls', f)) =
                Cardinality(OwnIn(c, f)) + IF own /\ f = fun THEN 1 ELSE 0
          /\ Cardinality(OwnIn(c, f)) \in Nat
      <4>1. /\ Cardinality(OwnIn(controls', f)) =
                  Cardinality(OwnIn(c, f))
                  + IF Top(c).who = f /\ Top(c).first /\ ~Top(c).macro THEN 1 ELSE 0
            /\ Cardinality(OwnIn(c, f)) \in Nat
        BY <1>4
      <4>2. Top(c).who = fun
        BY <1>2
      <4>. QED BY <4>1, <4>2
    <3>4. nest'[f] = IF own /\ f = fun THEN Greater(nest[f], deeper) ELSE nest[f]
      BY <1>9, <2>2
    <3>5. deepest'[f] = IF own /\ f = fun THEN Greater(deepest[f], held + 1) ELSE deepest[f]
      BY <1>10
    <3>6. deeper = held + 1
      BY <3>1
    <3>. HIDE DEF own, deeper, held
    <3>7. level'[f] = Cardinality(OwnIn(controls', f))
      <4>1. CASE own /\ f = fun
        <5>1. level'[f] = held + 1
          BY <3>2, <3>6, <4>1
        <5>2. held = Cardinality(OwnIn(c, f))
          BY <4>1, Zenon DEF held
        <5>3. Cardinality(OwnIn(controls', f)) = Cardinality(OwnIn(c, f)) + 1
          BY <3>3, <4>1
        <5>. QED BY <5>1, <5>2, <5>3
      <4>2. CASE ~(own /\ f = fun)
        <5>1. level'[f] = level[f]
          BY <3>2, <4>2
        <5>2. level[f] = Cardinality(OwnIn(c, f))
          BY <3>1
        <5>3. Cardinality(OwnIn(controls', f)) = Cardinality(OwnIn(c, f))
          BY <3>3, <4>2
        <5>. QED BY <5>1, <5>2, <5>3
      <4>. QED BY <4>1, <4>2
    <3>8. nest'[f] = deepest'[f]
      BY <3>1, <3>4, <3>5, <3>6
    <3>. QED BY <3>7, <3>8
  <2>. QED BY <1>1, <2>1, <2>3, <2>4, <2>5
<1>. QED BY <1>1, <1>5, <1>8, <1>9, <1>10, <1>11 DEF NestInv

\* So does its end.
LEMMA UnnestNest ==
    ASSUME InputInv, ControlsInv, NestInv, Unnest PROVE NestInv'
<1>0. PICK fun : fun = Top(nesting).who
  OBVIOUS
<1> DEFINE c == controls
           b == Len(controls)
<1>1. /\ InStatement /\ Top(c).nested
      /\ macronest' = IF Unmeasured /\ macronest # 0 THEN macronest - 1 ELSE macronest
      /\ level' = IF Unmeasured /\ macronest = 0 THEN [level EXCEPT ![fun] = @ - 1] ELSE level
      /\ controls' = Pop(c)
      /\ UNCHANGED <<nesting, nest, again, deepest, mixed>>
  BY <1>0, Zenon DEF Unnest
<1>2. /\ b \in Nat /\ b > 0 /\ Top(c) \in Control /\ Top(c).who = fun
      /\ fun \in Fun /\ c \in Seq(Control)
      /\ \A i \in 1 .. Len(nesting) : nesting[i].base <= b - 1
      /\ Len(nesting) > 0
  BY <1>0, <1>1, InStatementIs, InFunctionIs DEF InStatement, ControlsInv
<1>3. ASSUME NEW f
      PROVE  /\ Len(controls') = b - 1 /\ \A i \in 1 .. b - 1 : controls'[i] = c[i]
             /\ Cardinality(MacrosIn(controls')) \in Nat
             /\ Cardinality(MacrosIn(c)) = Cardinality(MacrosIn(controls'))
                   + IF Top(c).first /\ Top(c).macro THEN 1 ELSE 0
             /\ Cardinality(OwnIn(controls', f)) \in Nat
             /\ Cardinality(OwnIn(c, f)) =
                   Cardinality(OwnIn(controls', f))
                   + IF Top(c).who = f /\ Top(c).first /\ ~Top(c).macro THEN 1 ELSE 0
  BY <1>1, <1>2, PopControl
<1>4. \A i \in 1 .. b - 1 : i \in 1 .. b
  BY <1>2
<1>5. Based(nesting, controls') /\ Belong(nesting, controls')
  <2>1. Len(controls') = b - 1 /\ \A i \in 1 .. b - 1 : controls'[i] = c[i]
    BY <1>3
  <2>2. Len(nesting) # 0
    BY <1>2
  <2>3. Based(nesting, controls')
    BY <1>2, <2>1, <2>2 DEF NestInv, Based
  <2>4. Belong(nesting, controls')
    BY <1>4, <2>1 DEF NestInv, Belong
  <2>. QED BY <2>3, <2>4
<1>6. level' \in [Fun -> Int]
      /\ \A f \in Fun : level'[f] = IF Unmeasured /\ macronest = 0 /\ f = fun
                                    THEN level[f] - 1 ELSE level[f]
  <2>1. level \in [Fun -> Int]
    BY DEF NestInv
  <2>. QED BY <1>1, <1>2, <2>1
<1>7. ASSUME ~mixed'
      PROVE  /\ again' \cap Fun = {} /\ MacrosLast(controls')
             /\ macronest' = Cardinality(MacrosIn(controls'))
             /\ \A f \in Fun : /\ level'[f] = Cardinality(OwnIn(controls', f))
                               /\ nest'[f] = deepest'[f]
  <2>1. /\ ~mixed /\ again \cap Fun = {} /\ MacrosLast(c)
        /\ macronest = Cardinality(MacrosIn(c))
        /\ \A f \in Fun : level[f] = Cardinality(OwnIn(c, f)) /\ nest[f] = deepest[f]
    BY <1>1, <1>7 DEF NestInv
  <2>2. /\ Top(c).first /\ ~Top(c).macro <=> Unmeasured /\ macronest = 0
        /\ Top(c).first /\ Top(c).macro <=> Unmeasured /\ macronest # 0
    BY <1>1, <2>1, WhichCounts
  <2>3. MacrosLast(controls')
    BY <1>3, <1>4, <2>1 DEF MacrosLast
  <2>4. macronest' = Cardinality(MacrosIn(controls'))
    BY <1>1, <1>3, <2>1, <2>2
  <2>5. ASSUME NEW f \in Fun
        PROVE  level'[f] = Cardinality(OwnIn(controls', f)) /\ nest'[f] = deepest'[f]
    <3>1. level[f] = Cardinality(OwnIn(c, f)) /\ nest[f] = deepest[f]
      BY <2>1
    <3>2. /\ Cardinality(OwnIn(controls', f)) \in Nat
          /\ Cardinality(OwnIn(c, f)) =
                   Cardinality(OwnIn(controls', f))
                   + IF Top(c).who = f /\ Top(c).first /\ ~Top(c).macro THEN 1 ELSE 0
      BY <1>3
    <3>3. level'[f] = IF Unmeasured /\ macronest = 0 /\ f = fun THEN level[f] - 1 ELSE level[f]
      BY <1>6
    <3>. QED BY <1>1, <1>2, <2>2, <3>1, <3>2, <3>3
  <2>. QED BY <1>1, <2>1, <2>3, <2>4, <2>5
<1>. QED BY <1>1, <1>5, <1>6, <1>7 DEF NestInv

\* So does every step.
LEMMA NestStep ==
    ASSUME InputInv, ControlsInv, NestInv, [MetricsNext]_allVars PROVE NestInv'
<1> DEFINE same == UNCHANGED <<nesting, controls, level, macronest, nest, deepest, mixed>>
<1>1. ASSUME same, again' = again PROVE NestInv'
  <2>1. {} \cap Fun = {} /\ again' \subseteq again \cup {}
    BY <1>1
  <2>. QED BY <1>1, <2>1, SameNest
<1>2. CASE Reading
  BY <1>1, <1>2 DEF Reading, Ask, ReadToken, ReadText, ReadHash, UseMacro, Define, Declare,
                    functions, history
<1>3. CASE Conditional
  BY <1>1, <1>3 DEF Conditional, DoIf, DoElif, DoElse, DoEndif, functions, history
<1>4. CASE CloseFile \/ FinishUnit
  BY <1>1, <1>4 DEF CloseFile, FinishUnit, functions, history
<1>5. CASE \E f \in Mains : StartUnit(f)
  BY <1>1, <1>5 DEF StartUnit, functions
<1>6. CASE UNCHANGED allVars
  BY <1>1, <1>6 DEF allVars, metricVars, functions, history
<1>7. CASE Include
  <2>1. same /\ open # <<>> /\ Kind = "include"
    BY <1>7 DEF Include, functions, ToLex
  <2>2. Here.who \in File
    BY <2>1, KindIs DEF ItemOK
  <2>3. again' = again \/ again' = again \cup {Here.who}
    <3>1. CASE Skipping
      BY <1>7, <3>1 DEF Include
    <3>2. CASE ~Skipping
      <4>1. again' = IF \E i \in 1 .. Len(open) : open[i].who = Here.who
                     THEN again \cup {Here.who} ELSE again
        BY <1>7, <3>2, Zenon DEF Include
      <4>. QED BY <4>1
    <3>. QED BY <3>1, <3>2
  <2>4. {Here.who} \cap Fun = {} /\ again' \subseteq again \cup {Here.who}
    BY <2>2, <2>3, EntitiesApart
  <2>. QED BY <2>1, <2>4, SameNest
<1>8. CASE BeginBody
  <2>1. open # <<>> /\ Kind = "body" /\ UNCHANGED <<controls, level, macronest, nest, deepest>>
    BY <1>8 DEF BeginBody, ToLex
  <2>2. Here.who \in Fun
    BY <2>1, KindIs DEF ItemOK
  <2>3. Enter(Here.who) \/ UNCHANGED <<nesting, again, mixed>>
    BY <1>8, Zenon DEF BeginBody
  <2>. QED BY <1>1, <2>1, <2>2, <2>3, EnterNest
<1>9. CASE BeginFunction
  <2>1. open # <<>> /\ Kind = "begin" /\ UNCHANGED <<controls, level, macronest, nest, deepest>>
    BY <1>9 DEF BeginFunction, ToParse
  <2>2. Here.who \in Fun
    BY <2>1, KindIs DEF ItemOK
  <2>3. Enter(Here.who)
    BY <1>9, Zenon DEF BeginFunction
  <2>. QED BY <2>1, <2>2, <2>3, EnterNest
<1>10. CASE EndBody
  <2>1. /\ UNCHANGED <<controls, level, macronest, nest, deepest>>
        /\ \/ UNCHANGED <<nesting, again, mixed>>
           \/ nesting # <<>> /\ Len(controls) = Top(nesting).base /\ Leave
    BY <1>10, Zenon DEF EndBody
  <2>. QED BY <1>1, <2>1, LeaveNest
<1>11. CASE EndFunction
  BY <1>11, LeaveNest DEF EndFunction
<1>12. CASE Statement
  BY <1>12, KeywordNest, NestNest, UnnestNest DEF Statement
<1>. QED BY <1>2, <1>3, <1>4, <1>5, <1>6, <1>7, <1>8, <1>9, <1>10, <1>11, <1>12, NextIs

\* At the start nothing is nested.
LEMMA InitNest == MetricsInit => NestInv
<1>. SUFFICES ASSUME MetricsInit PROVE NestInv
  OBVIOUS
<1>1. /\ nesting = <<>> /\ level = [f \in Fun |-> 0] /\ macronest = 0
      /\ nest = [x \in Entity |-> 0] /\ again = {} /\ controls = <<>>
      /\ deepest = [f \in Fun |-> 0] /\ mixed = FALSE
  BY DEF MetricsInit
<1>2. MacrosIn(<<>>) = {} /\ \A f : OwnIn(<<>>, f) = {}
  BY DEF MacrosIn, OwnIn
<1>3. Cardinality(MacrosIn(<<>>)) = 0 /\ \A f : Cardinality(OwnIn(<<>>, f)) = 0
  BY <1>2, FS_EmptySet, Zenon
<1>4. Based(<<>>, <<>>) /\ Belong(<<>>, <<>>) /\ MacrosLast(<<>>)
  BY DEF Based, Belong, MacrosLast
<1>5. \A f \in Fun : level[f] = 0 /\ nest[f] = 0 /\ deepest[f] = 0
  BY <1>1, EntitiesApart
<1>6. level \in [Fun -> Int] /\ nest \in [Entity -> Nat] /\ deepest \in [Fun -> Nat]
  BY <1>1
<1>7. mixed \in BOOLEAN
  BY <1>1, Zenon
<1>8. Based(nesting, controls) /\ Belong(nesting, controls) /\ MacrosLast(controls)
  BY <1>1, <1>4, Zenon
<1>9. /\ again \cap Fun = {} /\ macronest = Cardinality(MacrosIn(controls))
      /\ \A f \in Fun : level[f] = Cardinality(OwnIn(controls, f)) /\ nest[f] = deepest[f]
  BY <1>1, <1>3, <1>5
<1>. QED BY <1>6, <1>7, <1>8, <1>9 DEF NestInv

\* However functions and macros are defined inside others, and files read in
\* their midst: the level of each function is that of its own statements,
\* unless statements of a macro hold others, and its maximum the deepest.
THEOREM NestingIsRight == MetricsSpec => []NestingRight
<1>1. MetricsInit => InputInv /\ ControlsInv /\ NestInv
  BY InitInput, InitNest
<1>2. InputInv /\ ControlsInv /\ NestInv /\ [MetricsNext]_allVars
        => (InputInv /\ ControlsInv /\ NestInv)'
  BY InputStep, NestStep
<1>3. InputInv /\ ControlsInv /\ NestInv => NestingRight
  BY OwnIs DEF NestInv, NestingRight
<1>. QED BY <1>1, <1>2, <1>3, PTL DEF MetricsSpec

-----------------------------------------------------------------------------
(* The directives of Metrics are those of Conditionals                     *)

\* Every step is one of Conditionals, or leaves its variables alone.
LEMMA DirectivesStep == [MetricsNext]_allVars => [Next]_vars
<1>1. ASSUME UNCHANGED vars PROVE [Next]_vars
  BY <1>1
<1>2. CASE Reading
  BY <1>2 DEF Reading, Ask, ReadToken, ReadText, ReadHash, UseMacro, Define, Declare
<1>3. CASE Conditional
  <2>1. ASSUME NEW res \in BOOLEAN, DoIf(res) \/ DoElif(res) PROVE Next
    BY <2>1 DEF DoIf, DoElif, Next
  <2>2. CASE DoElse \/ DoEndif
    BY <2>2 DEF DoElse, DoEndif, Next
  <2>. QED BY <1>3, <2>1, <2>2 DEF Conditional
<1>4. CASE Statement
  BY <1>4 DEF Statement, KeywordOf, Nest, Unnest
<1>5. CASE Include \/ CloseFile
  BY <1>5 DEF Include, CloseFile
<1>6. CASE FinishUnit
  BY <1>6 DEF FinishUnit, Next
<1>7. CASE BeginBody \/ EndBody \/ BeginFunction \/ EndFunction
  BY <1>7 DEF BeginBody, EndBody, BeginFunction, EndFunction
<1>8. CASE \E f \in Mains : StartUnit(f)
  BY <1>8 DEF StartUnit, Next
<1>9. CASE UNCHANGED allVars
  BY <1>9 DEF allVars
<1>. QED BY <1>2, <1>3, <1>4, <1>5, <1>6, <1>7, <1>8, <1>9, NextIs

\* What is measured keeps to the specification of conditional inclusion.
THEOREM MetricsFollowDirectives == MetricsSpec => Spec
<1>1. MetricsInit => Init
  BY DEF MetricsInit
<1>. QED BY <1>1, DirectivesStep, PTL DEF MetricsSpec, Spec

\* Text is measured after the preprocessor exactly where C processes it.
THEOREM MeasuringIsFaithful == MetricsSpec => []Faithful
BY MetricsFollowDirectives, SkippingIsFaithful, PTL

=============================================================================

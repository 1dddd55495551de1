---------------------------- MODULE EClassProofs ----------------------------
(***************************************************************************)
(* Proofs about EClass for any set of files, lexemes, tokens, attributes   *)
(* and classes: the map Tokid::tm and the member sets of the classes agree,*)
(* runs never overlap, lexemes stay covered, read-only classes are marked, *)
(* and what was unified or marked stays so.                                *)
(*                                                                         *)
(* None of the first four is inductive alone.  A split puts the second     *)
(* part of a class at a Tokid that must not be in the map, which is        *)
(* NoOverlap; a token that is read must start where no class is, which     *)
(* takes WholeLexemes; and both speak of RunLen, which means nothing where *)
(* the map leads to a deleted class, which is MapIsMembership.             *)
(***************************************************************************)
EXTENDS EClass, WellFoundedInduction, TLAPS

\* Where a reader would go by induction, the least number that does not have the
\* property is looked at.
LEMMA LeastNaturalExists ==
    ASSUME NEW T \in SUBSET Nat, T # {}
    PROVE  \E m \in T : \A k \in T : m <= k
<1> DEFINE R == OpToRel(<, Nat)
<1>1. \A x, y \in Nat : y < x => <<y, x>> \in R
    BY DEF OpToRel
<1>2. IsWellFoundedOn(R, Nat)
    BY NatLessThanWellFounded
<1> HIDE DEF R
<1>3. PICK m \in T : \A k \in T : ~ (<<k, m>> \in R)
    BY <1>2, WFMin
<1>4. ASSUME NEW k \in T PROVE m <= k
  <2>1. k \in Nat /\ m \in Nat /\ ~(k < m)
      BY Zenon, <1>1, <1>3
  <2> QED BY <2>1
<1> QED BY <1>4

(* Facts about Tokids.                                                     *)

\* Tokid arithmetic: operator+ keeps the file and adds to the offset.
LEMMA AdvanceFacts ==
    ASSUME NEW t \in Tokid, NEW k \in Nat
    PROVE  /\ Advance(t, k) \in Tokid
           /\ Advance(t, k)[1] = t[1]
           /\ Advance(t, k)[2] = t[2] + k
BY DEF Tokid, Advance

\* Two Tokids are the same when their file and offset are.
LEMMA TokidEqual ==
    ASSUME NEW s \in Tokid, NEW t \in Tokid, s[1] = t[1], s[2] = t[2]
    PROVE  s = t
BY DEF Tokid

\* What the map and the class it leads to are.
LEMMA RunFacts ==
    ASSUME TypeOK, MapIsMembership, NEW t \in DOMAIN tm
    PROVE  /\ t \in Tokid /\ t[1] \in File /\ t[2] \in Nat
           /\ tm[t] \in DOMAIN ec /\ t \in ec[tm[t]].members
           /\ RunLen(t) \in Nat \ {0}
           /\ ec[tm[t]] \in Eclass
BY DEF TypeOK, MapIsMembership, Tokid, Eclass, RunLen

\* A new Eclass does not get the address of a live one.
LEMMA FreshFacts ==
    ASSUME MemoryLeft
    PROVE  Fresh \in ClassId /\ Fresh \notin DOMAIN ec
BY DEF MemoryLeft, Fresh

\* The layout of the runs, where they start and how long they are, is all
\* that NoOverlap and WholeLexemes depend on.
LEMMA SameLayout ==
    ASSUME NoOverlap, WholeLexemes,
           DOMAIN tm' = DOMAIN tm,
           \A t \in DOMAIN tm : RunLen(t)' = RunLen(t)
    PROVE  NoOverlap' /\ WholeLexemes'
BY DEF NoOverlap, WholeLexemes

\* set_attribute on some classes: only the attributes change.
LEMMA MarkedConsistent ==
    ASSUME Consistent, NEW classes, NEW attrs \in SUBSET AllAttribute,
           "is_readonly" \notin attrs,
           tm' = tm, ec' = Marked(classes, attrs)
    PROVE  /\ DOMAIN ec' \subseteq ClassId
           /\ ec' \in [DOMAIN ec' -> Eclass]
           /\ MapIsMembership' /\ NoOverlap' /\ WholeLexemes'
           /\ ReadOnlyIffMember'
<1>1. /\ DOMAIN ec' = DOMAIN ec
      /\ \A e \in DOMAIN ec :
            /\ ec[e] \in Eclass
            /\ ec'[e].len = ec[e].len
            /\ ec'[e].members = ec[e].members
            /\ ec'[e] \in Eclass
            /\ "is_readonly" \in ec'[e].attr <=> "is_readonly" \in ec[e].attr
  BY DEF Consistent, TypeOK, Marked, Eclass
<1>2. DOMAIN ec' \subseteq ClassId /\ ec' \in [DOMAIN ec' -> Eclass]
  <2>1. ec' = [x \in DOMAIN ec' |-> ec'[x]]
    BY DEF Marked
  <2> QED BY <1>1, <2>1 DEF Consistent, TypeOK
<1>3. MapIsMembership'
  BY <1>1 DEF Consistent, MapIsMembership
<1>4. \A t \in DOMAIN tm : RunLen(t)' = RunLen(t)
  BY <1>1, RunFacts DEF Consistent, RunLen
<1>5. NoOverlap' /\ WholeLexemes'
  BY <1>4, SameLayout DEF Consistent
<1>6. ReadOnlyIffMember'
  BY <1>1 DEF Consistent, ReadOnlyIffMember
<1> QED BY <1>2, <1>3, <1>5, <1>6

-----------------------------------------------------------------------------
(* Eclass::split.                                                          *)

\* Cutting the class of long at a position inside it keeps every conjunct:
\* the second parts start where no class did.
LEMMA SplitConsistent ==
    ASSUME Consistent, EClassAssumption,
           NEW long \in DOMAIN tm, NEW pos \in Nat \ {0}, pos < RunLen(long),
           Split(tm[long], pos)
    PROVE  /\ DOMAIN tm' \subseteq Tokid
           /\ tm' \in [DOMAIN tm' -> ClassId]
           /\ DOMAIN ec' \subseteq ClassId
           /\ ec' \in [DOMAIN ec' -> Eclass]
           /\ MapIsMembership' /\ NoOverlap' /\ WholeLexemes'
           /\ ReadOnlyIffMember'
<1> DEFINE e == tm[long]
           second == SecondParts(e, pos)
<1>1. TypeOK /\ MapIsMembership /\ NoOverlap /\ WholeLexemes /\ ReadOnlyIffMember
  BY DEF Consistent
<1>2. /\ e \in DOMAIN ec
      /\ ec[e] \in Eclass
      /\ ec[e].len \in Nat /\ pos < ec[e].len
  BY <1>1, RunFacts DEF RunLen
<1>3. Fresh \in ClassId /\ Fresh \notin DOMAIN ec
  BY FreshFacts DEF Split
<1>4. \A t \in ec[e].members :
         /\ t \in DOMAIN tm /\ tm[t] = e /\ t \in Tokid
         /\ Advance(t, pos) \in Tokid
         /\ Advance(t, pos)[1] = t[1]
         /\ Advance(t, pos)[2] = t[2] + pos
  BY SMTT(60), <1>1, <1>2, AdvanceFacts DEF MapIsMembership, TypeOK
<1>5. second \cap DOMAIN tm = {}
  <2> SUFFICES ASSUME NEW t \in ec[e].members, Advance(t, pos) \in DOMAIN tm
               PROVE  FALSE
    BY DEF SecondParts
  <2>1. t[2] + RunLen(t) <= t[2] + pos
    BY SMTT(30), <1>1, <1>4, RunFacts DEF NoOverlap
  <2> QED BY <1>1, <1>2, <1>4, <2>1, RunFacts DEF RunLen
<1>6. \A s \in second : \E t \in ec[e].members : s = Advance(t, pos)
  BY DEF SecondParts
<1>7. /\ DOMAIN tm' = DOMAIN tm \cup second
      /\ \A t \in DOMAIN tm : tm'[t] = tm[t]
      /\ \A t \in second : tm'[t] = Fresh
  BY <1>5 DEF Split, Mapped
<1>8. /\ DOMAIN ec' = DOMAIN ec \cup {Fresh}
      /\ \A x \in DOMAIN ec \ {e} : ec'[x] = ec[x]
      /\ ec'[e].len = pos /\ ec'[e].members = ec[e].members
      /\ ec'[e].attr = ec[e].attr /\ ec'[e] \in Eclass
      /\ ec'[Fresh].len = ec[e].len - pos
      /\ ec'[Fresh].members = second
      /\ ec'[Fresh].attr = ec[e].attr /\ ec'[Fresh] \in Eclass
  <2>1. second \in SUBSET Tokid
    BY <1>4, <1>6
  <2> QED BY <1>2, <1>3, <2>1 DEF Split, Eclass
<1>9. DOMAIN tm' \subseteq Tokid /\ tm' \in [DOMAIN tm' -> ClassId]
  <2>1. tm' = [t \in DOMAIN tm' |-> tm'[t]]
    BY DEF Split, Mapped
  <2> QED BY <1>1, <1>3, <1>4, <1>6, <1>7, <2>1 DEF TypeOK
<1>10. DOMAIN ec' \subseteq ClassId /\ ec' \in [DOMAIN ec' -> Eclass]
  <2>1. ec' = [x \in DOMAIN ec' |-> ec'[x]]
    BY DEF Split
  <2> QED BY <1>1, <1>3, <1>8, <2>1 DEF TypeOK
<1>11. MapIsMembership'
  BY <1>1, <1>2, <1>3, <1>4, <1>5, <1>7, <1>8 DEF MapIsMembership
<1>12. /\ \A t \in DOMAIN tm : tm[t] # e => RunLen(t)' = RunLen(t)
       /\ \A t \in ec[e].members : /\ RunLen(t)' = pos
                                   /\ RunLen(t) = ec[e].len
       /\ \A t \in second : RunLen(t)' = ec[e].len - pos
  BY <1>1, <1>4, <1>5, <1>7, <1>8, RunFacts DEF RunLen, MapIsMembership
\* Every run after the split is the head or the tail of one before it.
<1>13. \A t \in DOMAIN tm' : \E o \in DOMAIN tm :
          /\ o[1] = t[1] /\ o[2] <= t[2]
          /\ t[2] + RunLen(t)' <= o[2] + RunLen(o)
          /\ \/ t = o
             \/ tm[o] = e /\ t = Advance(o, pos)
          /\ \/ t[2] + RunLen(t)' = o[2] + RunLen(o)
             \/ tm[o] = e /\ t = o /\ RunLen(t)' = pos
  <2> SUFFICES ASSUME NEW t \in DOMAIN tm'
               PROVE  \E o \in DOMAIN tm :
                        /\ o[1] = t[1] /\ o[2] <= t[2]
                        /\ t[2] + RunLen(t)' <= o[2] + RunLen(o)
                        /\ \/ t = o
                           \/ tm[o] = e /\ t = Advance(o, pos)
                        /\ \/ t[2] + RunLen(t)' = o[2] + RunLen(o)
                           \/ tm[o] = e /\ t = o /\ RunLen(t)' = pos
    OBVIOUS
  <2>1. CASE t \in DOMAIN tm /\ tm[t] # e
    <3>1. RunLen(t)' = RunLen(t) /\ t[2] \in Nat /\ RunLen(t) \in Nat
      BY <1>1, <1>12, <2>1, RunFacts
    <3> QED BY <2>1, <3>1
  <2>2. CASE t \in DOMAIN tm /\ tm[t] = e
    <3>1. t \in ec[e].members /\ t[2] \in Nat
      BY <1>1, <2>2, RunFacts
    <3>2. RunLen(t)' = pos /\ RunLen(t) = ec[e].len
      BY <1>12, <3>1
    <3> QED BY <1>2, <2>2, <3>1, <3>2
  <2>3. CASE t \in second
    <3>1. PICK o \in ec[e].members : t = Advance(o, pos)
      BY <1>6, <2>3
    <3>2. /\ o \in DOMAIN tm /\ tm[o] = e /\ o[2] \in Nat
          /\ t[1] = o[1] /\ t[2] = o[2] + pos
          /\ RunLen(o) = ec[e].len /\ RunLen(t)' = ec[e].len - pos
      BY <1>1, <1>4, <1>12, <2>3, <3>1, RunFacts
    <3>3. /\ o[2] <= t[2]
          /\ t[2] + RunLen(t)' = o[2] + RunLen(o)
          /\ t[2] + RunLen(t)' <= o[2] + RunLen(o)
      <4>1. /\ ec[e].len \in Int /\ pos \in Int /\ 0 < pos
            /\ RunLen(t)' \in Int
        BY <1>2, <3>2
      <4> HIDE DEF e
      <4> QED BY <3>2, <4>1
    <3> QED BY <3>1, <3>2, <3>3
  <2> QED BY <1>7, <2>1, <2>2, <2>3
<1>14. \A t \in DOMAIN tm' : t \in Tokid /\ t[2] \in Nat /\ RunLen(t)' \in Nat \ {0}
  BY <1>9, <1>10, <1>11 DEF Tokid, RunLen, Eclass, MapIsMembership
<1>15. NoOverlap'
  <2> SUFFICES ASSUME NEW s \in DOMAIN tm', NEW t \in DOMAIN tm',
                      s[1] = t[1], s[2] < t[2]
               PROVE  s[2] + RunLen(s)' <= t[2]
    BY DEF NoOverlap
  <2>1. PICK o \in DOMAIN tm :
          /\ o[1] = s[1] /\ o[2] <= s[2]
          /\ s[2] + RunLen(s)' <= o[2] + RunLen(o)
          /\ s = o \/ (tm[o] = e /\ s = Advance(o, pos))
          /\ \/ s[2] + RunLen(s)' = o[2] + RunLen(o)
             \/ tm[o] = e /\ s = o /\ RunLen(s)' = pos
    BY <1>13
  <2>2. PICK q \in DOMAIN tm :
          /\ q[1] = t[1] /\ q[2] <= t[2]
          /\ t[2] + RunLen(t)' <= q[2] + RunLen(q)
          /\ t = q \/ (tm[q] = e /\ t = Advance(q, pos))
    BY <1>13
  <2>3. /\ o \in Tokid /\ q \in Tokid /\ o[2] \in Nat /\ q[2] \in Nat
        /\ RunLen(o) \in Nat /\ RunLen(q) \in Nat
    BY <1>1, RunFacts
  <2>4. /\ s[2] \in Nat /\ t[2] \in Nat
        /\ RunLen(s)' \in Nat \ {0} /\ RunLen(t)' \in Nat \ {0}
    BY <1>14
  <2>5. CASE o[2] = q[2]
    <3>1. o = q
      BY <2>1, <2>2, <2>3, <2>5, TokidEqual
    <3>2. Advance(o, pos)[2] = o[2] + pos
      BY <2>3, AdvanceFacts
    <3>3. s = o /\ t = Advance(o, pos) /\ tm[o] = e
      BY <2>1, <2>2, <2>3, <3>1, <3>2
    <3>4. s[2] + RunLen(s)' # o[2] + RunLen(o)
      <4>1. RunLen(s)' = pos
        BY <1>1, <1>12, <3>3, RunFacts
      <4>2. RunLen(o) = ec[e].len
        BY <3>3 DEF RunLen
      <4> QED BY <1>2, <2>3, <2>4, <3>3, <4>1, <4>2
    <3>5. RunLen(s)' = pos
      BY <2>1, <3>4
    <3>6. t[2] = s[2] + RunLen(s)'
      BY <3>2, <3>3, <3>5
    <3> QED BY <2>4, <3>6
  <2>6. CASE o[2] < q[2]
    <3>1. o[2] + RunLen(o) <= q[2]
      BY <1>1, <2>1, <2>2, <2>6 DEF NoOverlap
    <3>2. s[2] + RunLen(s)' <= o[2] + RunLen(o) /\ q[2] <= t[2]
      BY <2>1, <2>2
    <3>3. s[2] + RunLen(s)' <= q[2]
      BY SMTT(30), <2>3, <2>4, <3>1, <3>2
    <3> QED BY <2>3, <2>4, <3>2, <3>3
  <2>7. CASE q[2] < o[2]
    <3>1. q[2] + RunLen(q) <= o[2]
      BY <1>1, <2>1, <2>2, <2>7 DEF NoOverlap
    <3>2. o[2] <= s[2] /\ t[2] + RunLen(t)' <= q[2] + RunLen(q)
      BY <2>1, <2>2
    <3> QED BY SMTT(30), <2>3, <2>4, <3>1, <3>2
  <2> QED BY <2>3, <2>5, <2>6, <2>7
<1>16. WholeLexemes'
  <2> SUFFICES ASSUME NEW t \in DOMAIN tm'
               PROVE  \E x \in Lexeme :
                        /\ x.tokid[1] = t[1]
                        /\ x.tokid[2] <= t[2]
                        /\ t[2] + RunLen(t)' <= x.tokid[2] + x.len
                        /\ x.tokid \in DOMAIN tm'
                        /\ \/ t[2] + RunLen(t)' = x.tokid[2] + x.len
                           \/ Advance(t, RunLen(t)') \in DOMAIN tm'
    BY DEF WholeLexemes
  <2>1. PICK o \in DOMAIN tm :
          /\ o[1] = t[1] /\ o[2] <= t[2]
          /\ t[2] + RunLen(t)' <= o[2] + RunLen(o)
          /\ \/ t[2] + RunLen(t)' = o[2] + RunLen(o)
             \/ tm[o] = e /\ t = o /\ RunLen(t)' = pos
    BY <1>13
  <2>2. PICK x \in Lexeme :
          /\ x.tokid[1] = o[1]
          /\ x.tokid[2] <= o[2]
          /\ o[2] + RunLen(o) <= x.tokid[2] + x.len
          /\ x.tokid \in DOMAIN tm
          /\ \/ o[2] + RunLen(o) = x.tokid[2] + x.len
             \/ Advance(o, RunLen(o)) \in DOMAIN tm
    BY <1>1 DEF WholeLexemes
  <2>3. /\ o \in Tokid /\ o[2] \in Nat /\ RunLen(o) \in Nat
        /\ x.tokid \in Tokid /\ x.tokid[2] \in Nat /\ x.len \in Nat
    BY <1>1, RunFacts DEF EClassAssumption, Tokid
  <2>4. /\ x.tokid[1] = t[1] /\ x.tokid[2] <= t[2]
        /\ t[2] + RunLen(t)' <= x.tokid[2] + x.len
        /\ x.tokid \in DOMAIN tm'
    <3>1. t[2] \in Nat /\ RunLen(t)' \in Nat
      BY <1>14
    <3>2. t[2] + RunLen(t)' <= o[2] + RunLen(o) /\ o[2] <= t[2]
      BY <2>1
    <3>3. x.tokid[2] <= o[2] /\ o[2] + RunLen(o) <= x.tokid[2] + x.len
      BY <2>2
    <3>4. x.tokid[2] <= t[2] /\ t[2] + RunLen(t)' <= x.tokid[2] + x.len
      BY SMTT(30), <2>3, <3>1, <3>2, <3>3
    <3> QED BY <1>7, <2>1, <2>2, <3>4
  <2>5. CASE tm[o] = e /\ t = o /\ RunLen(t)' = pos
    <3>1. Advance(t, RunLen(t)') \in DOMAIN tm'
      BY <1>1, <1>7, <2>5, RunFacts DEF SecondParts
    <3> QED BY <2>4, <3>1
  <2>6. CASE t[2] + RunLen(t)' = o[2] + RunLen(o)
    <3>1. Advance(t, RunLen(t)') = Advance(o, RunLen(o))
      BY <2>1, <2>6 DEF Advance
    <3>2. \/ t[2] + RunLen(t)' = x.tokid[2] + x.len
          \/ Advance(t, RunLen(t)') \in DOMAIN tm'
      BY <1>7, <2>2, <2>6, <3>1
    <3> QED BY <2>4, <3>2
  <2> QED BY <2>1, <2>5, <2>6
<1>17. ReadOnlyIffMember'
  <2>1. (\E t \in ec[e].members : t[1] \in ReadOnly)
          <=> (\E t \in second : t[1] \in ReadOnly)
    BY <1>4, <1>6 DEF SecondParts
  <2> QED BY <1>1, <1>2, <1>8, <2>1 DEF ReadOnlyIffMember
<1> QED BY <1>9, <1>10, <1>11, <1>15, <1>16, <1>17

-----------------------------------------------------------------------------
(* merge_into and merge.                                                   *)

\* Merging a class into another of the same length leaves the layout of the
\* runs alone.
LEMMA MergeIntoConsistent ==
    ASSUME Consistent, EClassAssumption,
           NEW dst \in DOMAIN ec, NEW src \in DOMAIN ec, dst # src,
           ec[dst].len = ec[src].len,
           MergeInto(dst, src)
    PROVE  /\ DOMAIN tm' \subseteq Tokid
           /\ tm' \in [DOMAIN tm' -> ClassId]
           /\ DOMAIN ec' \subseteq ClassId
           /\ ec' \in [DOMAIN ec' -> Eclass]
           /\ MapIsMembership' /\ NoOverlap' /\ WholeLexemes'
           /\ ReadOnlyIffMember'
<1> DEFINE attrs == ec[dst].attr \cup ec[src].attr
                      \cup Inherent(ec[src].members, FALSE)
<1>1. TypeOK /\ MapIsMembership /\ NoOverlap /\ WholeLexemes /\ ReadOnlyIffMember
  BY DEF Consistent
<1>2. /\ ec[dst] \in Eclass /\ ec[src] \in Eclass
      /\ dst \in ClassId /\ ec[src].members \subseteq DOMAIN tm
  BY <1>1 DEF TypeOK, MapIsMembership
<1>3. /\ attrs \subseteq AllAttribute
      /\ "is_readonly" \in attrs
            <=> \/ "is_readonly" \in ec[dst].attr \cup ec[src].attr
                \/ \E t \in ec[src].members : t[1] \in ReadOnly
  <2>1. ec[dst].attr \subseteq AllAttribute /\ ec[src].attr \subseteq AllAttribute
    BY <1>2 DEF Eclass
  <2>2. project \in Project /\ "is_readonly" # project
    BY <1>1 DEF TypeOK, EClassAssumption
  <2>3. /\ Inherent(ec[src].members, FALSE) \subseteq AllAttribute
        /\ "is_readonly" \in Inherent(ec[src].members, FALSE)
              <=> \E t \in ec[src].members : t[1] \in ReadOnly
    BY <2>2 DEF Inherent, AllAttribute
  <2> QED BY <2>1, <2>3
<1>4. /\ DOMAIN tm' = DOMAIN tm
      /\ \A t \in DOMAIN tm :
            tm'[t] = IF t \in ec[src].members THEN dst ELSE tm[t]
  BY <1>2 DEF MergeInto, Mapped
<1>5. /\ DOMAIN ec' = DOMAIN ec \ {src}
      /\ \A x \in DOMAIN ec' : x # dst => ec'[x] = ec[x]
      /\ ec'[dst].len = ec[dst].len
      /\ ec'[dst].members = ec[dst].members \cup ec[src].members
      /\ ec'[dst].attr = attrs /\ ec'[dst] \in Eclass
  BY <1>2, <1>3 DEF MergeInto, Eclass
<1>6. DOMAIN tm' \subseteq Tokid /\ tm' \in [DOMAIN tm' -> ClassId]
  <2>1. tm' = [t \in DOMAIN tm' |-> tm'[t]]
    BY DEF MergeInto, Mapped
  <2> QED BY <1>1, <1>2, <1>4, <2>1 DEF TypeOK
<1>7. DOMAIN ec' \subseteq ClassId /\ ec' \in [DOMAIN ec' -> Eclass]
  <2>1. ec' = [x \in DOMAIN ec' |-> ec'[x]]
    BY DEF MergeInto
  <2>2. \A x \in DOMAIN ec' : ec'[x] \in Eclass
    BY <1>1, <1>5 DEF TypeOK
  <2> QED BY <1>1, <1>5, <2>1, <2>2 DEF TypeOK
<1>8. MapIsMembership'
  BY <1>1, <1>2, <1>4, <1>5 DEF MapIsMembership
<1>9. \A t \in DOMAIN tm : RunLen(t)' = RunLen(t)
  BY <1>1, <1>4, <1>5 DEF RunLen, MapIsMembership
<1>10. NoOverlap' /\ WholeLexemes'
  BY <1>1, <1>4, <1>9, SameLayout
<1>11. ReadOnlyIffMember'
  BY <1>1, <1>3, <1>5 DEF ReadOnlyIffMember
<1> QED BY <1>6, <1>7, <1>8, <1>10, <1>11

\* Eclass merge, whichever of the two is the larger.
LEMMA MergeConsistent ==
    ASSUME Consistent, EClassAssumption,
           NEW x \in DOMAIN ec, NEW y \in DOMAIN ec,
           ec[x].len = ec[y].len,
           Merge(x, y)
    PROVE  /\ DOMAIN tm' \subseteq Tokid
           /\ tm' \in [DOMAIN tm' -> ClassId]
           /\ DOMAIN ec' \subseteq ClassId
           /\ ec' \in [DOMAIN ec' -> Eclass]
           /\ MapIsMembership' /\ NoOverlap' /\ WholeLexemes'
           /\ ReadOnlyIffMember'
<1>1. CASE x = y
  BY <1>1 DEF Merge, Consistent, TypeOK, MapIsMembership, NoOverlap,
              WholeLexemes, ReadOnlyIffMember, RunLen
<1>2. CASE x # y
  <2>1. MergeInto(x, y) \/ MergeInto(y, x)
    BY <1>2 DEF Merge
  <2> QED BY <1>2, <2>1, MergeIntoConsistent
<1> QED BY <1>1, <1>2

-----------------------------------------------------------------------------
(* Tokid::constituents, for a token read from a file.                      *)

\* The classes of a lexeme cover all of it or none of it, and in the latter
\* case no class lies inside it.
LEMMA CoveredAllOrNothing ==
    ASSUME Consistent, EClassAssumption, NEW x \in Lexeme
    PROVE  \/ Covered(x.tokid, x.len) = x.len /\ x.tokid \in DOMAIN tm
           \/ /\ Covered(x.tokid, x.len) = 0
              /\ \A t \in DOMAIN tm : t[1] = x.tokid[1] =>
                    \/ t[2] + RunLen(t) <= x.tokid[2]
                    \/ x.tokid[2] + x.len <= t[2]
<1> DEFINE p == x.tokid
           l == x.len
           stops == {k \in 0 .. l :
                \/ k = l
                \/ /\ Advance(p, k) \notin DOMAIN tm
                   /\ \/ k = 0
                      \/ \E j \in 0 .. k - 1 : /\ Advance(p, j) \in DOMAIN tm
                                               /\ j + RunLen(Advance(p, j)) = k}
<1>1. TypeOK /\ MapIsMembership /\ NoOverlap /\ WholeLexemes
  BY DEF Consistent
<1>2. p \in Tokid /\ p[2] \in Nat /\ l \in Nat \ {0}
  BY DEF EClassAssumption, Tokid
<1>3. Covered(p, l) = CHOOSE k \in stops : \A j \in stops : k <= j
  BY DEF Covered
\* The lexeme of a run that shares a character with x is x.
<1>4. \A t \in DOMAIN tm :
         t[1] = p[1] /\ t[2] < p[2] + l /\ p[2] < t[2] + RunLen(t) =>
           /\ p[2] <= t[2]
           /\ t[2] + RunLen(t) <= p[2] + l
           /\ p \in DOMAIN tm
           /\ \/ t[2] + RunLen(t) = p[2] + l
              \/ Advance(t, RunLen(t)) \in DOMAIN tm
  <2> SUFFICES ASSUME NEW t \in DOMAIN tm,
                      t[1] = p[1], t[2] < p[2] + l, p[2] < t[2] + RunLen(t)
               PROVE  /\ p[2] <= t[2]
                      /\ t[2] + RunLen(t) <= p[2] + l
                      /\ p \in DOMAIN tm
                      /\ \/ t[2] + RunLen(t) = p[2] + l
                         \/ Advance(t, RunLen(t)) \in DOMAIN tm
    OBVIOUS
  <2>1. PICK y \in Lexeme :
          /\ y.tokid[1] = t[1]
          /\ y.tokid[2] <= t[2]
          /\ t[2] + RunLen(t) <= y.tokid[2] + y.len
          /\ y.tokid \in DOMAIN tm
          /\ \/ t[2] + RunLen(t) = y.tokid[2] + y.len
             \/ Advance(t, RunLen(t)) \in DOMAIN tm
    BY <1>1 DEF WholeLexemes
  <2>2. /\ t[2] \in Nat /\ RunLen(t) \in Nat \ {0}
        /\ y.tokid[2] \in Nat /\ y.len \in Nat
    BY <1>1, RunFacts DEF EClassAssumption, Tokid
  <2>3. ~(y.tokid[2] + y.len <= p[2]) /\ ~(p[2] + l <= y.tokid[2])
    BY <1>2, <2>1, <2>2
  <2>4. y = x
    BY SMTT(60), <2>1, <2>3 DEF EClassAssumption
  <2> QED BY <2>1, <2>4
<1>5. CASE p \notin DOMAIN tm
  <2>1. Advance(p, 0) = p
    BY <1>2 DEF Advance, Tokid
  <2>2. 0 \in stops /\ \A j \in stops : 0 <= j
    BY <1>2, <1>5, <2>1
  <2>3. Covered(p, l) = 0
    <3>1. \A k \in stops : k \in Nat
      BY <1>2
    <3>2. \A k \in stops : (\A j \in stops : k <= j) => k = 0
      BY <2>2, <3>1
    <3> HIDE DEF stops
    <3>3. \E k \in stops : \A j \in stops : k <= j
      BY <2>2
    <3> QED BY <1>3, <3>2, <3>3
  <2>4. \A t \in DOMAIN tm : t[1] = p[1] =>
          t[2] + RunLen(t) <= p[2] \/ p[2] + l <= t[2]
    BY <1>1, <1>2, <1>4, <1>5, RunFacts
  <2> QED BY <2>3, <2>4
<1>6. CASE p \in DOMAIN tm
  <2>1. ASSUME NEW k \in stops PROVE k = l
    <3> SUFFICES ASSUME k # l PROVE FALSE
      OBVIOUS
    <3>1. k \in Nat /\ k < l /\ Advance(p, k) \notin DOMAIN tm
      BY <1>2
    <3>2. Advance(p, 0) = p
      BY <1>2 DEF Advance, Tokid
    <3>3. PICK j \in 0 .. k - 1 : /\ Advance(p, j) \in DOMAIN tm
                                 /\ j + RunLen(Advance(p, j)) = k
      BY <1>6, <3>1, <3>2
    <3> DEFINE t == Advance(p, j)
    <3>4. t[1] = p[1] /\ t[2] = p[2] + j /\ RunLen(t) \in Nat \ {0}
      <4>1. j \in Nat
        BY <3>1
      <4>2. t[1] = p[1] /\ t[2] = p[2] + j
        BY <1>2, <4>1, AdvanceFacts
      <4> QED BY <1>1, <3>3, <4>2, RunFacts
    <3>5. Advance(t, RunLen(t)) \in DOMAIN tm
      BY SMTT(30), <1>2, <1>4, <3>1, <3>3, <3>4
    <3>6. Advance(t, RunLen(t)) = Advance(p, k)
      <4>1. p[2] + j + RunLen(t) = p[2] + k
        BY <1>2, <3>1, <3>3, <3>4
      <4> QED BY <3>4, <4>1 DEF Advance
    <3> QED BY <3>1, <3>5, <3>6
  <2>2. l \in stops /\ l \in Nat
    BY <1>2
  <2>3. Covered(p, l) = l
    <3> HIDE DEF stops
    <3>1. \E k \in stops : \A j \in stops : k <= j
      BY <2>1, <2>2
    <3> QED BY <1>3, <2>1, <3>1
  <2> QED BY <1>6, <2>3
<1> QED BY <1>5, <1>6

\* Reading a token from a file keeps every conjunct, whether it was seen
\* before or gets its first class.
LEMMA ReadConsistent ==
    ASSUME Consistent, EClassAssumption,
           NEW x \in Lexeme, NEW skipping \in BOOLEAN,
           Read(x, skipping)
    PROVE  Consistent'
<1> DEFINE done    == Covered(x.tokid, x.len)
           start   == Advance(x.tokid, done)
           attrs   == IF skipping THEN {} ELSE {project}
           touched == Marked(ClassesIn(x.tokid, done), attrs)
           new     == [len |-> x.len - done, members |-> {start},
                       attr |-> Inherent({start}, skipping)]
<1>1. TypeOK /\ MapIsMembership /\ NoOverlap /\ WholeLexemes /\ ReadOnlyIffMember
  BY DEF Consistent
<1>2. /\ x.tokid \in Tokid /\ x.tokid[1] \in File /\ x.tokid[2] \in Nat
      /\ x.len \in Nat \ {0}
  BY DEF EClassAssumption, Tokid
<1>3. attrs \in SUBSET AllAttribute /\ "is_readonly" \notin attrs
  BY <1>1 DEF AllAttribute, TypeOK, EClassAssumption
<1>4. project' \in Project /\ unify' = unify /\ project' = project
  BY <1>1 DEF Read, TypeOK
<1>5. CASE done = x.len
  <2>1. tm' = tm /\ ec' = touched
    BY <1>5 DEF Read
  <2>2. /\ DOMAIN ec' \subseteq ClassId
        /\ ec' \in [DOMAIN ec' -> Eclass]
        /\ MapIsMembership' /\ NoOverlap' /\ WholeLexemes'
        /\ ReadOnlyIffMember'
    BY <1>3, <2>1, MarkedConsistent
  <2> QED BY <1>1, <1>4, <2>1, <2>2 DEF Consistent, TypeOK
<1>6. CASE done # x.len
  <2>1. /\ done = 0
        /\ \A t \in DOMAIN tm : t[1] = x.tokid[1] =>
              t[2] + RunLen(t) <= x.tokid[2] \/ x.tokid[2] + x.len <= t[2]
    BY <1>6, CoveredAllOrNothing
  <2>2. start = x.tokid
    BY <1>2, <2>1 DEF Advance, Tokid
  <2>3. Fresh \in ClassId /\ Fresh \notin DOMAIN ec
    BY <1>6, FreshFacts DEF Read
  <2>4. start \notin DOMAIN tm
    BY <1>1, <1>2, <2>1, <2>2, RunFacts
  <2>5. /\ DOMAIN tm' = DOMAIN tm \cup {start}
        /\ tm'[start] = Fresh
        /\ \A t \in DOMAIN tm : tm'[t] = tm[t]
        /\ tm' = [t \in DOMAIN tm' |-> tm'[t]]
    BY <1>6, <2>4 DEF Read, Mapped
  <2>6. new \in Eclass /\ ("is_readonly" \in new.attr <=> start[1] \in ReadOnly)
    <3>1. /\ Inherent({start}, skipping) \subseteq AllAttribute
          /\ "is_readonly" \in Inherent({start}, skipping)
                <=> start[1] \in ReadOnly
      BY <1>1, <1>3 DEF Inherent, AllAttribute
    <3>2. x.len - done \in Nat \ {0}
      BY <1>2, <2>1
    <3> QED BY <1>2, <2>2, <3>1, <3>2 DEF Eclass
  <2>7. \A e \in DOMAIN ec :
           /\ touched[e] \in Eclass
           /\ touched[e].len = ec[e].len
           /\ touched[e].members = ec[e].members
           /\ "is_readonly" \in touched[e].attr <=> "is_readonly" \in ec[e].attr
    BY SMTT(30), <1>1, <1>3 DEF TypeOK, Marked, Eclass
  <2>8. /\ DOMAIN ec' = DOMAIN ec \cup {Fresh}
        /\ ec'[Fresh] = new
        /\ \A e \in DOMAIN ec : ec'[e] = touched[e]
        /\ ec' = [e \in DOMAIN ec' |-> ec'[e]]
    <3> HIDE DEF new, touched
    <3>1. ec' = [e \in DOMAIN ec \cup {Fresh} |->
                   IF e = Fresh THEN new ELSE touched[e]]
      BY <1>6 DEF Read, new, touched, done, start, attrs
    <3> QED BY <2>3, <3>1
  <2> HIDE DEF new, touched
  <2>9. TypeOK'
    <3>1. DOMAIN tm' \subseteq Tokid /\ tm' \in [DOMAIN tm' -> ClassId]
      BY <1>1, <1>2, <2>2, <2>3, <2>5 DEF TypeOK
    <3>2. \A e \in DOMAIN ec' : ec'[e] \in Eclass
      BY <2>6, <2>7, <2>8
    <3>3. DOMAIN ec' \subseteq ClassId /\ ec' \in [DOMAIN ec' -> Eclass]
      BY <1>1, <2>3, <2>8, <3>2 DEF TypeOK
    <3> QED BY <1>1, <1>4, <3>1, <3>3 DEF TypeOK
  <2>10. MapIsMembership'
    <3>1. new.members = {start}
      BY DEF new
    <3> QED BY <1>1, <2>3, <2>4, <2>5, <2>7, <2>8, <3>1 DEF MapIsMembership
  <2>11. /\ \A t \in DOMAIN tm : RunLen(t)' = RunLen(t)
         /\ RunLen(x.tokid)' = x.len
    <3>1. new.len = x.len
      BY <1>2, <2>1 DEF new
    <3>2. RunLen(x.tokid)' = x.len
      BY <2>2, <2>5, <2>8, <3>1 DEF RunLen
    <3>3. \A t \in DOMAIN tm : RunLen(t)' = RunLen(t)
      BY <1>1, <2>5, <2>7, <2>8 DEF RunLen, MapIsMembership
    <3> QED BY <3>2, <3>3
  <2>12. NoOverlap'
    <3> SUFFICES ASSUME NEW s \in DOMAIN tm', NEW t \in DOMAIN tm',
                        s[1] = t[1], s[2] < t[2]
                 PROVE  s[2] + RunLen(s)' <= t[2]
      BY DEF NoOverlap
    <3>1. CASE s \in DOMAIN tm /\ t \in DOMAIN tm
      <4>1. s[2] + RunLen(s) <= t[2] /\ RunLen(s)' = RunLen(s)
        BY <1>1, <2>11, <3>1 DEF NoOverlap
      <4> QED BY <4>1
    <3>2. CASE s = x.tokid /\ t \in DOMAIN tm
      <4>1. /\ RunLen(s)' = x.len /\ s[2] = x.tokid[2] /\ s[1] = x.tokid[1]
            /\ t[2] \in Nat /\ RunLen(t) \in Nat
        BY <1>1, <2>2, <2>11, <3>2, RunFacts
      <4> QED BY <1>2, <2>1, <3>2, <4>1
    <3>3. CASE s \in DOMAIN tm /\ t = x.tokid
      <4>1. /\ RunLen(s)' = RunLen(s) /\ t[2] = x.tokid[2] /\ t[1] = x.tokid[1]
            /\ s[2] \in Nat /\ RunLen(s) \in Nat
        BY <1>1, <2>2, <2>11, <3>3, RunFacts
      <4> QED BY <1>2, <2>1, <3>3, <4>1
    <3>4. CASE s = x.tokid /\ t = x.tokid
      BY <1>2, <2>2, <3>4
    <3> QED BY <2>2, <2>5, <3>1, <3>2, <3>3, <3>4
  <2>13. WholeLexemes'
    <3> SUFFICES ASSUME NEW t \in DOMAIN tm'
                 PROVE  \E y \in Lexeme :
                          /\ y.tokid[1] = t[1]
                          /\ y.tokid[2] <= t[2]
                          /\ t[2] + RunLen(t)' <= y.tokid[2] + y.len
                          /\ y.tokid \in DOMAIN tm'
                          /\ \/ t[2] + RunLen(t)' = y.tokid[2] + y.len
                             \/ Advance(t, RunLen(t)') \in DOMAIN tm'
      BY DEF WholeLexemes
    <3>1. CASE t \in DOMAIN tm
      BY <1>1, <2>5, <2>11, <3>1 DEF WholeLexemes
    <3>2. CASE t = x.tokid
      <4>1. /\ x.tokid[1] = t[1] /\ x.tokid[2] = t[2]
            /\ RunLen(t)' = x.len /\ x.tokid \in DOMAIN tm'
        BY <2>2, <2>5, <2>11, <3>2
      <4> QED BY <1>2, <4>1
    <3> QED BY <2>2, <2>5, <3>1, <3>2
  <2>14. ReadOnlyIffMember'
    <3>1. new.members = {start}
      BY DEF new
    <3> QED BY <1>1, <2>6, <2>7, <2>8, <3>1 DEF ReadOnlyIffMember
  <2> QED BY <2>9, <2>10, <2>12, <2>13, <2>14 DEF Consistent
<1> QED BY <1>5, <1>6

-----------------------------------------------------------------------------
(* The steps of Next, and the theorems.                                    *)

\* At the start there is no class, so nothing to disagree about.
LEMMA InitConsistent == Init => Consistent
<1> SUFFICES ASSUME Init PROVE Consistent
  OBVIOUS
<1>1. DOMAIN tm = {} /\ DOMAIN ec = {}
  BY DEF Init
<1>2. tm = [t \in {} |-> {}] /\ ec = [t \in {} |-> {}]
  BY DEF Init
<1>3. unify \in [pc : {"idle", "homogenize", "merge", "failed"},
                a : Token \cup {<<>>}, b : Token \cup {<<>>}, n : Nat]
  BY DEF Init, Idle
<1> QED BY <1>1, <1>2, <1>3 DEF Init, Consistent, TypeOK, MapIsMembership,
                               NoOverlap, WholeLexemes, ReadOnlyIffMember

\* Steps that change no class leave all that is said about the classes.
LEMMA SameClasses ==
    ASSUME Consistent, UNCHANGED <<tm, ec>>
    PROVE  /\ DOMAIN tm' \subseteq Tokid /\ tm' \in [DOMAIN tm' -> ClassId]
           /\ DOMAIN ec' \subseteq ClassId /\ ec' \in [DOMAIN ec' -> Eclass]
           /\ MapIsMembership' /\ NoOverlap' /\ WholeLexemes'
           /\ ReadOnlyIffMember'
BY DEF Consistent, TypeOK, MapIsMembership, NoOverlap, WholeLexemes,
       ReadOnlyIffMember, RunLen

\* Every step of the program keeps the classes consistent.
LEMMA NextConsistent == EClassAssumption /\ Consistent /\ [Next]_vars => Consistent'
<1> SUFFICES ASSUME EClassAssumption, Consistent, [Next]_vars
             PROVE  Consistent'
  OBVIOUS
<1> DEFINE ClassesOK ==
        /\ DOMAIN tm' \subseteq Tokid /\ tm' \in [DOMAIN tm' -> ClassId]
        /\ DOMAIN ec' \subseteq ClassId /\ ec' \in [DOMAIN ec' -> Eclass]
        /\ MapIsMembership' /\ NoOverlap' /\ WholeLexemes'
        /\ ReadOnlyIffMember'
<1>1. TypeOK /\ MapIsMembership /\ project \in Project
  BY DEF Consistent, TypeOK
<1>2. ASSUME ClassesOK, project' \in Project,
             unify' \in [pc : {"idle", "homogenize", "merge", "failed"},
                         a : Token \cup {<<>>}, b : Token \cup {<<>>}, n : Nat]
      PROVE  Consistent'
  BY <1>2 DEF Consistent, TypeOK
<1>3. unify \in [pc : {"idle", "homogenize", "merge", "failed"},
                a : Token \cup {<<>>}, b : Token \cup {<<>>}, n : Nat]
  BY <1>1 DEF TypeOK
<1>4. /\ Idle \in [pc : {"idle", "homogenize", "merge", "failed"},
                   a : Token \cup {<<>>}, b : Token \cup {<<>>}, n : Nat]
      /\ \A k \in Nat : Consume(k) =>
            unify' \in [pc : {"idle", "homogenize", "merge", "failed"},
                        a : Token \cup {<<>>}, b : Token \cup {<<>>}, n : Nat]
  BY <1>3 DEF Idle, Consume
<1> HIDE DEF ClassesOK
<1>5. ASSUME NEW p \in Project, SetProject(p) PROVE Consistent'
  <2>1. ClassesOK
    BY <1>5, SameClasses DEF SetProject, ClassesOK
  <2> QED BY <1>2, <1>3, <1>5, <2>1 DEF SetProject
<1>6. ASSUME NEW x \in Lexeme, NEW skipping \in BOOLEAN, Read(x, skipping)
      PROVE  Consistent'
  BY <1>6, ReadConsistent
<1>7. ASSUME NEW tok \in Token, NEW attr \in Attribute, SetAttribute(tok, attr)
      PROVE  Consistent'
  <2>1. {attr} \in SUBSET AllAttribute /\ "is_readonly" \notin {attr}
    BY DEF AllAttribute, EClassAssumption
  <2>2. ClassesOK
    BY <1>7, <2>1, MarkedConsistent, <1>1 DEF SetAttribute, ClassesOK, TypeOK
  <2> QED BY <1>1, <1>2, <1>3, <1>7, <2>2 DEF SetAttribute
<1>8. ASSUME NEW pair \in SameName, UnifyBegin(pair[1], pair[2])
      PROVE  Consistent'
  <2>1. {project} \in SUBSET AllAttribute /\ "is_readonly" \notin {project}
    BY <1>1 DEF AllAttribute, EClassAssumption
  <2>2. ClassesOK
    BY <1>8, <2>1, MarkedConsistent, <1>1 DEF UnifyBegin, ClassesOK, TypeOK
  <2>3. pair[1] \in Token /\ pair[2] \in Token
    BY DEF EClassAssumption
  <2> QED BY <1>1, <1>2, <1>8, <2>2, <2>3 DEF UnifyBegin
<1>9. CASE HomogenizeEqual
  <2>1. ClassesOK
    BY <1>9, SameClasses DEF HomogenizeEqual, ClassesOK
  <2>2. RunLen(NextA) \in Nat
    BY <1>1, <1>9, RunFacts DEF HomogenizeEqual, ClassesFound
  <2> QED BY <1>1, <1>2, <1>4, <1>9, <2>1, <2>2 DEF HomogenizeEqual
<1>10. ASSUME NEW long, NEW short,
              <<long, short>> \in {<<NextA, NextB>>, <<NextB, NextA>>},
              HomogenizeSplit(long, short)
       PROVE  Consistent'
  <2>1. long \in DOMAIN tm /\ short \in DOMAIN tm
    BY <1>10 DEF HomogenizeSplit, ClassesFound
  <2>2. RunLen(short) \in Nat \ {0} /\ RunLen(short) < RunLen(long)
    BY <1>1, <1>10, <2>1, RunFacts DEF HomogenizeSplit
  <2>3. ClassesOK
    BY <1>10, <2>1, <2>2, SplitConsistent DEF HomogenizeSplit, ClassesOK
  <2> QED BY <1>1, <1>2, <1>4, <1>10, <2>2, <2>3 DEF HomogenizeSplit
<1>11. CASE HomogenizeEnd
  <2>1. ClassesOK
    BY <1>11, SameClasses DEF HomogenizeEnd, ClassesOK
  <2> QED BY <1>1, <1>2, <1>3, <1>11, <2>1 DEF HomogenizeEnd
<1>12. CASE MergePair
  <2>1. NextA \in DOMAIN tm /\ NextB \in DOMAIN tm /\ RunLen(NextA) \in Nat
    BY <1>1, <1>12, RunFacts DEF MergePair, ClassesFound
  <2>2. /\ tm[NextA] \in DOMAIN ec /\ tm[NextB] \in DOMAIN ec
        /\ ec[tm[NextA]].len = ec[tm[NextB]].len
    BY <1>1, <1>12, <2>1, RunFacts DEF MergePair, RunLen
  <2>3. ClassesOK
    BY <1>12, <2>2, MergeConsistent DEF MergePair, ClassesOK
  <2> QED BY <1>1, <1>2, <1>4, <1>12, <2>1, <2>3 DEF MergePair
<1>13. CASE MergeMismatch
  <2>1. ClassesOK
    BY <1>13, SameClasses DEF MergeMismatch, ClassesOK
  <2> QED BY <1>1, <1>2, <1>3, <1>13, <2>1 DEF MergeMismatch
<1>14. CASE UnifyEnd
  <2>1. ClassesOK
    BY <1>14, SameClasses DEF UnifyEnd, ClassesOK
  <2> QED BY <1>1, <1>2, <1>4, <1>14, <2>1 DEF UnifyEnd
<1>15. CASE UNCHANGED vars
  <2>1. ClassesOK
    BY <1>15, SameClasses DEF vars, ClassesOK
  <2> QED BY <1>1, <1>2, <1>3, <1>15, <2>1 DEF vars
<1>16. CASE HomogenizeStep
  BY <1>9, <1>10, <1>11, <1>16 DEF HomogenizeStep
<1>17. CASE UnifyStep
  BY <1>12, <1>13, <1>14, <1>16, <1>17 DEF UnifyStep
<1> QED BY <1>5, <1>6, <1>7, <1>8, <1>15, <1>17 DEF Next

\* The invariant all the others come from.
THEOREM AlwaysConsistent == Spec => []Consistent
BY InitConsistent, NextConsistent, EClassAssumption, PTL DEF Spec

\* Type correctness of the classes, the map and the state of unify.
THEOREM TypeCorrect == Spec => []TypeOK
<1>1. Consistent => TypeOK
  BY DEF Consistent
<1> QED BY <1>1, AlwaysConsistent, PTL

\* No dangling entry of Tokid::tm, no member that does not know its class.
THEOREM MapAndClassesAgree == Spec => []MapIsMembership
<1>1. Consistent => MapIsMembership
  BY DEF Consistent
<1> QED BY <1>1, AlwaysConsistent, PTL

\* No character of the source is in two runs.
THEOREM RunsNeverOverlap == Spec => []NoOverlap
<1>1. Consistent => NoOverlap
  BY DEF Consistent
<1> QED BY <1>1, AlwaysConsistent, PTL

\* The walks over the classes of a token read before stay on classes.
THEOREM LexemesStayWhole == Spec => []WholeLexemes
<1>1. Consistent => WholeLexemes
  BY DEF Consistent
<1> QED BY <1>1, AlwaysConsistent, PTL

\* A class is marked read-only exactly if one of its members is.
THEOREM ReadOnlyIsExact == Spec => []ReadOnlyIffMember
<1>1. Consistent => ReadOnlyIffMember
  BY DEF Consistent
<1> QED BY <1>1, AlwaysConsistent, PTL

-----------------------------------------------------------------------------
(* What was found to be one name stays one name.                           *)

\* What NothingForgotten says of a step.
Kept ==
    \A s, t \in DOMAIN tm :
        /\ s \in DOMAIN tm'
        /\ tm[s] = tm[t] => tm'[s] = tm'[t]
        /\ RunLen(s)' <= RunLen(s)
        /\ ec[tm[s]].attr \subseteq ec'[tm'[s]].attr

\* Marking a class keeps its length and its attributes.
LEMMA MarkKeeps ==
    ASSUME NEW classes, NEW attrs, NEW e \in DOMAIN ec, ec[e] \in Eclass
    PROVE  /\ Marked(classes, attrs)[e].len = ec[e].len
           /\ ec[e].attr \subseteq Marked(classes, attrs)[e].attr
<1> DEFINE c == ec[e]
<1>1. [c EXCEPT !.attr = @ \cup attrs].len = c.len
      /\ c.attr \subseteq [c EXCEPT !.attr = @ \cup attrs].attr
  BY DEF Eclass
<1>2. Marked(classes, attrs)[e] = c
      \/ Marked(classes, attrs)[e] = [c EXCEPT !.attr = @ \cup attrs]
  BY DEF Marked
<1> HIDE DEF c
<1>3. Marked(classes, attrs)[e].len = c.len
      /\ c.attr \subseteq Marked(classes, attrs)[e].attr
  BY <1>1, <1>2
<1> QED BY <1>3 DEF c

\* Marking classes, or changing nothing.
LEMMA MarkedKept ==
    ASSUME Consistent, tm' = tm, NEW classes, NEW attrs,
           ec' = ec \/ ec' = Marked(classes, attrs)
    PROVE  Kept
<1>1. \A t \in DOMAIN tm : RunLen(t) \in Nat /\ tm[t] \in DOMAIN ec
                           /\ ec[tm[t]] \in Eclass
  BY RunFacts DEF Consistent
<1>2. \A e \in DOMAIN ec : ec[e] \in Eclass =>
          ec'[e].len = ec[e].len /\ ec[e].attr \subseteq ec'[e].attr
  BY MarkKeeps
<1> QED BY <1>1, <1>2 DEF Kept, RunLen

\* A token read for the first time takes nothing from the others.
LEMMA ReadKept ==
    ASSUME Consistent, EClassAssumption,
           NEW x \in Lexeme, NEW skipping \in BOOLEAN,
           Read(x, skipping)
    PROVE  Kept
<1> DEFINE done    == Covered(x.tokid, x.len)
           start   == Advance(x.tokid, done)
           attrs   == IF skipping THEN {} ELSE {project}
           touched == Marked(ClassesIn(x.tokid, done), attrs)
           new     == [len |-> x.len - done, members |-> {start},
                       attr |-> Inherent({start}, skipping)]
<1>1. TypeOK /\ MapIsMembership
  BY DEF Consistent
<1>2. CASE done = x.len
  BY <1>2, MarkedKept DEF Read
<1>3. CASE done # x.len
  <2>1. \A t \in DOMAIN tm : t[1] = x.tokid[1] =>
           t[2] + RunLen(t) <= x.tokid[2] \/ x.tokid[2] + x.len <= t[2]
    BY <1>3, CoveredAllOrNothing
  <2>2. start = x.tokid /\ x.len \in Nat \ {0} /\ x.tokid[2] \in Nat
    BY <1>3, CoveredAllOrNothing DEF Advance, Tokid, EClassAssumption
  <2>3. start \notin DOMAIN tm
    BY <1>1, <2>1, <2>2, RunFacts
  <2>4. Fresh \notin DOMAIN ec
    BY <1>3, FreshFacts DEF Read
  <2>5. /\ DOMAIN tm \subseteq DOMAIN tm'
        /\ \A t \in DOMAIN tm : tm'[t] = tm[t]
    BY <1>3, <2>3 DEF Read, Mapped
  <2>6. \A e \in DOMAIN ec : ec'[e] = touched[e]
    <3> HIDE DEF new, touched
    <3>1. ec' = [e \in DOMAIN ec \cup {Fresh} |->
                   IF e = Fresh THEN new ELSE touched[e]]
      BY <1>3 DEF Read, new, touched, done, start, attrs
    <3> QED BY <2>4, <3>1
  <2>7. \A e \in DOMAIN ec : ec[e] \in Eclass =>
          ec'[e].len = ec[e].len /\ ec[e].attr \subseteq ec'[e].attr
    <3> HIDE DEF attrs, done
    <3> QED BY <2>6, MarkKeeps DEF touched
  <2>8. \A t \in DOMAIN tm : RunLen(t) \in Nat /\ tm[t] \in DOMAIN ec
                             /\ ec[tm[t]] \in Eclass
    BY <1>1, RunFacts
  <2> QED BY <2>5, <2>7, <2>8 DEF Kept, RunLen
<1> QED BY <1>2, <1>3

\* The first parts of a split class stay together, and so do the second.
LEMMA SplitKept ==
    ASSUME Consistent, EClassAssumption,
           NEW long \in DOMAIN tm, NEW pos \in Nat \ {0}, pos < RunLen(long),
           Split(tm[long], pos)
    PROVE  Kept
<1> DEFINE e == tm[long]
<1>1. TypeOK /\ MapIsMembership /\ NoOverlap
  BY DEF Consistent
<1>2. e \in DOMAIN ec /\ ec[e] \in Eclass /\ ec[e].len \in Nat /\ pos < ec[e].len
  BY <1>1, RunFacts DEF RunLen
<1>3. Fresh \notin DOMAIN ec
  BY FreshFacts DEF Split
<1>4. SecondParts(e, pos) \cap DOMAIN tm = {}
  <2> SUFFICES ASSUME NEW t \in ec[e].members, Advance(t, pos) \in DOMAIN tm
               PROVE  FALSE
    BY DEF SecondParts
  <2>1. t \in DOMAIN tm /\ tm[t] = e /\ t \in Tokid /\ t[2] \in Nat
    BY <1>1, <1>2, RunFacts DEF MapIsMembership
  <2>2. Advance(t, pos)[1] = t[1] /\ Advance(t, pos)[2] = t[2] + pos
    BY <2>1, AdvanceFacts
  <2>3. t[2] + RunLen(t) <= t[2] + pos
    BY <1>1, <2>1, <2>2 DEF NoOverlap
  <2> QED BY <1>2, <2>1, <2>3 DEF RunLen
<1>5. /\ DOMAIN tm \subseteq DOMAIN tm'
      /\ \A t \in DOMAIN tm : tm'[t] = tm[t]
  BY <1>4 DEF Split, Mapped
<1>6. /\ \A x \in DOMAIN ec : ec'[x].attr = ec[x].attr
      /\ \A x \in DOMAIN ec : x # e => ec'[x].len = ec[x].len
      /\ ec'[e].len = pos
  BY <1>2, <1>3 DEF Split, Eclass
<1>7. \A t \in DOMAIN tm : RunLen(t) \in Nat /\ tm[t] \in DOMAIN ec
  BY <1>1, RunFacts
<1>8. \A t \in DOMAIN tm : RunLen(t)' <= RunLen(t)
  BY <1>2, <1>5, <1>6, <1>7 DEF RunLen
<1> QED BY <1>5, <1>6, <1>7, <1>8 DEF Kept

\* A merge moves all the members of a class together, and joins attributes.
LEMMA MergeKept ==
    ASSUME Consistent, NEW x \in DOMAIN ec, NEW y \in DOMAIN ec,
           ec[x].len = ec[y].len, Merge(x, y)
    PROVE  Kept
<1>1. TypeOK /\ MapIsMembership
  BY DEF Consistent
<1>2. \A t \in DOMAIN tm : RunLen(t) \in Nat /\ tm[t] \in DOMAIN ec
  BY <1>1, RunFacts
<1>3. CASE x = y
  BY <1>3, MarkedKept DEF Merge
<1>4. ASSUME NEW dst \in DOMAIN ec, NEW src \in DOMAIN ec, dst # src,
             ec[dst].len = ec[src].len, MergeInto(dst, src)
      PROVE  Kept
  <2>1. \A t \in DOMAIN tm : t \in ec[src].members <=> tm[t] = src
    BY <1>1, <1>4 DEF MapIsMembership
  <2>2. /\ DOMAIN tm \subseteq DOMAIN tm'
        /\ \A t \in DOMAIN tm : tm'[t] = IF tm[t] = src THEN dst ELSE tm[t]
    BY <1>4, <2>1 DEF MergeInto, Mapped
  <2>3. /\ \A z \in DOMAIN ec \ {src} : /\ ec'[z].len = ec[z].len
                                       /\ ec[z].attr \subseteq ec'[z].attr
        /\ ec[src].attr \subseteq ec'[dst].attr
    BY <1>4 DEF MergeInto
  <2>4. \A t \in DOMAIN tm : RunLen(t)' = RunLen(t)
    BY <1>2, <1>4, <2>2, <2>3 DEF RunLen
  <2> QED BY <1>2, <1>4, <2>2, <2>3, <2>4 DEF Kept
<1> QED BY <1>3, <1>4 DEF Merge

\* Identifiers that were unified are never separated and attributes are
\* never lost, whatever the program reads or unifies next.
THEOREM UnificationIsForEver == Spec => NothingForgotten
<1>1. EClassAssumption /\ Consistent /\ [Next]_vars => [Kept]_vars
  <2> SUFFICES ASSUME EClassAssumption, Consistent, Next
               PROVE  Kept
    BY DEF Kept
  <2>1. TypeOK /\ MapIsMembership
    BY DEF Consistent
  <2>2. ASSUME UNCHANGED <<tm, ec>> PROVE Kept
    BY <2>2, MarkedKept
  <2>3. ASSUME NEW p \in Project, SetProject(p) PROVE Kept
    BY <2>2, <2>3 DEF SetProject
  <2>4. ASSUME NEW x \in Lexeme, NEW skipping \in BOOLEAN, Read(x, skipping)
        PROVE  Kept
    BY <2>4, ReadKept
  <2>5. ASSUME NEW tok \in Token, NEW attr \in Attribute, SetAttribute(tok, attr)
        PROVE  Kept
    BY <2>5, MarkedKept DEF SetAttribute
  <2>6. ASSUME NEW pair \in SameName, UnifyBegin(pair[1], pair[2]) PROVE Kept
    BY <2>6, MarkedKept DEF UnifyBegin
  <2>7. ASSUME NEW long, NEW short,
               <<long, short>> \in {<<NextA, NextB>>, <<NextB, NextA>>},
               HomogenizeSplit(long, short)
        PROVE  Kept
    <3>1. long \in DOMAIN tm /\ short \in DOMAIN tm
      BY <2>7 DEF HomogenizeSplit, ClassesFound
    <3>2. RunLen(short) \in Nat \ {0} /\ RunLen(short) < RunLen(long)
      BY <2>1, <2>7, <3>1, RunFacts DEF HomogenizeSplit
    <3> QED BY <2>7, <3>1, <3>2, SplitKept DEF HomogenizeSplit
  <2>8. CASE MergePair
    <3>1. NextA \in DOMAIN tm /\ NextB \in DOMAIN tm
      BY <2>8 DEF MergePair, ClassesFound
    <3>2. /\ tm[NextA] \in DOMAIN ec /\ tm[NextB] \in DOMAIN ec
          /\ ec[tm[NextA]].len = ec[tm[NextB]].len
      BY <2>1, <2>8, <3>1, RunFacts DEF MergePair, RunLen
    <3> QED BY <2>8, <3>2, MergeKept DEF MergePair
  <2>9. CASE HomogenizeEqual \/ HomogenizeEnd \/ MergeMismatch \/ UnifyEnd
    BY <2>2, <2>9 DEF HomogenizeEqual, HomogenizeEnd, MergeMismatch, UnifyEnd
  <2>10. CASE UnifyStep
    BY <2>7, <2>8, <2>9, <2>10 DEF UnifyStep, HomogenizeStep
  <2> QED BY <2>3, <2>4, <2>5, <2>6, <2>10 DEF Next
<1>2. NothingForgotten <=> [][Kept]_vars
  BY PTL DEF NothingForgotten, Kept
<1> QED BY <1>1, <1>2, AlwaysConsistent, EClassAssumption, PTL DEF Spec

=============================================================================

------------------------ MODULE EClassPartitionProofs ------------------------
(***************************************************************************)
(* EClass implements CharPartition, for any files, lexemes and tokens.     *)
(*                                                                         *)
(* A block is found again by any of its characters: two blocks that share  *)
(* one are the same (BlocksApart).  Where a run meets a token, all of the  *)
(* run lies in it (RunInToken), so marking the classes of a token marks    *)
(* the blocks it touches, and merging two classes of length l is joining l *)
(* pairs of characters.                                                    *)
(***************************************************************************)
EXTENDS EClassProofs, EClassPartition

\* A Tokid is a file and an offset, however it is come by.
LEMMA AdvanceTwice ==
    ASSUME NEW t \in Tokid, NEW j \in Nat, NEW k \in Nat
    PROVE  Advance(Advance(t, j), k) = Advance(t, j + k)
BY DEF Advance, Tokid

\* No character is in two blocks.
LEMMA BlocksApart ==
    ASSUME Consistent,
           NEW e \in DOMAIN ec, NEW k \in 0 .. ec[e].len - 1,
           NEW f \in DOMAIN ec, NEW j \in 0 .. ec[f].len - 1,
           NEW c \in Block(e, k).chars \cap Block(f, j).chars
    PROVE  e = f /\ k = j
<1>1. TypeOK /\ MapIsMembership /\ NoOverlap
  BY DEF Consistent
<1>2. PICK s \in ec[e].members : c = Advance(s, k)
  BY DEF Block
<1>3. PICK t \in ec[f].members : c = Advance(t, j)
  BY DEF Block
<1>4. /\ s \in DOMAIN tm /\ tm[s] = e /\ s \in Tokid /\ s[2] \in Nat
      /\ t \in DOMAIN tm /\ tm[t] = f /\ t \in Tokid /\ t[2] \in Nat
      /\ RunLen(s) = ec[e].len /\ RunLen(t) = ec[f].len
      /\ RunLen(s) \in Nat \ {0} /\ RunLen(t) \in Nat \ {0}
  BY <1>1, RunFacts DEF MapIsMembership, RunLen
<1>5. /\ k \in Nat /\ k < RunLen(s)
      /\ j \in Nat /\ j < RunLen(t)
  BY <1>4
<1>6. s[1] = t[1] /\ s[2] + k = t[2] + j
  <2>1. c[1] = s[1] /\ c[2] = s[2] + k
    BY <1>2, <1>4, <1>5, AdvanceFacts
  <2>2. c[1] = t[1] /\ c[2] = t[2] + j
    BY <1>3, <1>4, <1>5, AdvanceFacts
  <2> QED BY <2>1, <2>2
<1>7. s[2] = t[2]
  <2>1. ~(s[2] < t[2])
    <3> SUFFICES ASSUME s[2] < t[2] PROVE FALSE
      OBVIOUS
    <3>1. s[2] + RunLen(s) <= t[2]
      BY <1>1, <1>4, <1>6 DEF NoOverlap
    <3> QED BY <1>4, <1>5, <1>6, <3>1
  <2>2. ~(t[2] < s[2])
    <3> SUFFICES ASSUME t[2] < s[2] PROVE FALSE
      OBVIOUS
    <3>1. t[2] + RunLen(t) <= s[2]
      BY <1>1, <1>4, <1>6 DEF NoOverlap
    <3> QED BY <1>4, <1>5, <1>6, <3>1
  <2> QED BY <1>4, <2>1, <2>2
<1>8. s = t
  BY <1>4, <1>6, <1>7, TokidEqual
<1>9. k = j
  BY <1>4, <1>5, <1>6, <1>7
<1> QED BY <1>4, <1>8, <1>9

\* The members of Denoted.
LEMMA DenotedIs ==
    \A bl : bl \in Denoted <=>
        \E e \in DOMAIN ec : \E k \in 0 .. ec[e].len - 1 : bl = Block(e, k)
BY DEF Denoted, BlocksOf

\* The members of Denoted after a step.
LEMMA DenotedNextIs ==
    \A bl : bl \in Denoted' <=>
        \E e \in DOMAIN ec' : \E k \in 0 .. ec'[e].len - 1 : bl = Block(e, k)'
BY DEF Denoted, BlocksOf

\* The lexeme a run lies in is any lexeme that has one of its characters.
LEMMA RunInLexeme ==
    ASSUME Consistent, EClassAssumption,
           NEW t \in DOMAIN tm, NEW k \in Nat, k < RunLen(t),
           NEW x \in Lexeme, NEW q \in Nat, q < x.len,
           Advance(t, k) = Advance(x.tokid, q)
    PROVE  /\ k <= q
           /\ q - k + RunLen(t) <= x.len
           /\ t = Advance(x.tokid, q - k)
           /\ \/ q - k + RunLen(t) = x.len
              \/ Advance(t, RunLen(t)) \in DOMAIN tm
<1> DEFINE at == t[2]
           length == RunLen(t)
           from == x.tokid[2]
           size == x.len
<1>1. TypeOK /\ MapIsMembership /\ WholeLexemes
  BY DEF Consistent
<1>2. /\ at \in Nat /\ length \in Nat \ {0} /\ k < length
      /\ from \in Nat /\ size \in Nat \ {0} /\ q < size
  BY <1>1, RunFacts DEF EClassAssumption, Tokid
<1>3. t \in Tokid /\ x.tokid \in Tokid
  BY <1>1, RunFacts DEF EClassAssumption
<1>4. t[1] = x.tokid[1] /\ at + k = from + q
  BY DEF Advance
<1>5. PICK y \in Lexeme :
        /\ y.tokid[1] = t[1]
        /\ y.tokid[2] <= at
        /\ at + length <= y.tokid[2] + y.len
        /\ \/ at + length = y.tokid[2] + y.len
           \/ Advance(t, length) \in DOMAIN tm
  BY <1>1 DEF WholeLexemes
<1>6. y.tokid[2] \in Nat /\ y.len \in Nat \ {0}
  BY DEF EClassAssumption, Tokid
<1> HIDE DEF at, length, from, size
<1>7. y = x
  <2> DEFINE o == y.tokid[2]
             l == y.len
  <2>1. o \in Nat /\ l \in Nat /\ o <= at /\ at + length <= o + l
    BY <1>5, <1>6
  <2> HIDE DEF o, l
  <2>2. ~(o + l <= from) /\ ~(from + size <= o)
    BY <1>2, <1>4, <2>1
  <2> QED BY <1>4, <1>5, <2>2 DEF EClassAssumption, o, l, from, size
<1>8. from <= at /\ at + length <= from + size
  BY <1>5, <1>7 DEF from, size
<1>9. /\ k <= q /\ q - k + length <= size
      /\ q - k \in Nat /\ at = from + (q - k)
  BY <1>2, <1>4, <1>8
<1>10. t = Advance(x.tokid, q - k)
  <2>1. /\ Advance(x.tokid, q - k) \in Tokid
        /\ Advance(x.tokid, q - k)[1] = x.tokid[1]
        /\ Advance(x.tokid, q - k)[2] = from + (q - k)
    BY <1>3, <1>9, AdvanceFacts DEF from
  <2> QED BY <1>3, <1>4, <1>9, <2>1, TokidEqual DEF at
<1>11. q - k + length = size \/ Advance(t, length) \in DOMAIN tm
  <2>1. at + length = from + size \/ Advance(t, length) \in DOMAIN tm
    BY <1>5, <1>7 DEF from, size
  <2> QED BY <1>2, <1>9, <2>1
<1> QED BY <1>9, <1>10, <1>11 DEF length, size

\* A run that has a character in a token lies in it as a whole.
LEMMA RunInToken ==
    ASSUME Consistent, EClassAssumption, TokenAssumption,
           NEW tok \in Token, NEW i \in DOMAIN tok,
           NEW t \in DOMAIN tm, NEW k \in Nat, k < RunLen(t),
           tok[i] = Advance(t, k)
    PROVE  /\ i - k \in Nat \ {0}
           /\ i - k + RunLen(t) - 1 <= Len(tok)
           /\ \A m \in 0 .. RunLen(t) - 1 :
                 i - k + m \in DOMAIN tok /\ tok[i - k + m] = Advance(t, m)
<1> DEFINE length == RunLen(t)
           last == Len(tok)
<1>1. TypeOK /\ MapIsMembership
  BY DEF Consistent
<1>2. /\ DOMAIN tok = 1 .. last /\ last \in Nat
      /\ i \in Nat \ {0} /\ i <= last
  BY DEF EClassAssumption
<1>3. PICK x \in Lexeme, j \in 0 .. i - 1 :
        /\ i <= j + x.len
        /\ j + x.len <= last
        /\ \A m \in 0 .. x.len - 1 : tok[j + 1 + m] = Advance(x.tokid, m)
  BY DEF TokenAssumption
<1> DEFINE q == i - 1 - j
           size == x.len
<1>4. length \in Nat \ {0} /\ size \in Nat \ {0}
  BY <1>1, RunFacts DEF EClassAssumption
<1>5. t \in Tokid /\ x.tokid \in Tokid
  BY <1>1, RunFacts DEF EClassAssumption
<1> HIDE DEF length, size, last
<1>6. /\ j \in Nat /\ j + size <= last
      /\ q \in Nat /\ q < size /\ j + 1 + q = i
  BY <1>2, <1>3, <1>4 DEF size
<1> HIDE DEF q
<1>7. Advance(t, k) = Advance(x.tokid, q)
  <2>1. q \in 0 .. size - 1
    BY <1>4, <1>6
  <2>2. tok[j + 1 + q] = Advance(x.tokid, q)
    BY <1>3, <2>1 DEF size
  <2> QED BY <1>6, <2>2
<1>8. k <= q /\ q - k + length <= size
  BY <1>4, <1>6, <1>7, RunInLexeme DEF length, size
<1>9. t = Advance(x.tokid, q - k)
  <2>1. q < x.len
    BY <1>6 DEF size
  <2> QED BY ONLY SMTT(60), Consistent, EClassAssumption, t \in DOMAIN tm, k \in Nat,
                  k < RunLen(t), x \in Lexeme, <1>6, <1>7, <2>1, RunInLexeme
<1>10. i - k \in Nat \ {0} /\ i - k + length - 1 <= last
  BY ONLY <1>2, <1>4, <1>6, <1>8, k \in Nat
<1>11. ASSUME NEW m \in 0 .. length - 1
       PROVE  i - k + m \in DOMAIN tok /\ tok[i - k + m] = Advance(t, m)
  <2>1. /\ i - k + m \in 1 .. last
        /\ q - k + m \in 0 .. size - 1
        /\ j + 1 + (q - k + m) = i - k + m
        /\ q - k \in Nat /\ m \in Nat
    <3>1. m \in Nat /\ m <= length - 1
      BY <1>4
    <3>2. q - k \in Nat /\ q - k + m <= size - 1
      BY <1>4, <1>6, <1>8, <3>1
    <3>3. j + 1 + (q - k + m) = i - k + m
      BY <1>2, <1>6, <3>1
    <3>4. i - k + m <= last
      BY <1>2, <1>4, <1>10, <3>1
    <3>5. i - k + m \in 1 .. last
      BY ONLY <1>2, <1>10, <3>1, <3>4
    <3>6. q - k + m \in 0 .. size - 1
      BY ONLY <1>4, <3>1, <3>2
    <3> QED BY ONLY <3>1, <3>2, <3>3, <3>5, <3>6
  <2>2. tok[j + 1 + (q - k + m)] = Advance(x.tokid, q - k + m)
    BY <1>3, <2>1 DEF size
  <2>3. Advance(x.tokid, (q - k) + m) = Advance(t, m)
    BY <1>5, <1>9, <2>1, AdvanceTwice
  <2>4. i - k + m \in DOMAIN tok
    BY <1>2, <2>1
  <2>5. tok[i - k + m] = tok[j + 1 + (q - k + m)]
    BY <2>1
  <2> QED BY Zenon, <2>2, <2>3, <2>4, <2>5
<1> QED BY <1>10, <1>11 DEF length, last

\* So does the run that starts at one of the token's characters.
LEMMA RunFromHere ==
    ASSUME Consistent, EClassAssumption, TokenAssumption,
           NEW tok \in Token, NEW i \in DOMAIN tok,
           NEW t \in DOMAIN tm, tok[i] = t
    PROVE  /\ i + RunLen(t) - 1 <= Len(tok)
           /\ \A m \in 0 .. RunLen(t) - 1 : tok[i + m] = Advance(t, m)
<1>1. t \in Tokid /\ RunLen(t) \in Nat \ {0} /\ i \in Nat
  BY RunFacts DEF Consistent, EClassAssumption
<1>2. tok[i] = Advance(t, 0)
  BY <1>1 DEF Advance, Tokid
<1>3. 0 < RunLen(t) /\ i - 0 = i
  BY <1>1
<1>4. /\ i - 0 + RunLen(t) - 1 <= Len(tok)
      /\ \A m \in 0 .. RunLen(t) - 1 : tok[i - 0 + m] = Advance(t, m)
  BY <1>2, <1>3, RunInToken
<1> QED BY <1>3, <1>4

-----------------------------------------------------------------------------
(* set_attribute on classes, and the blocks it touches.                    *)

\* The characters of a token whose parts were read are in blocks.
LEMMA TokenKnown ==
    ASSUME Consistent, EClassAssumption, NEW tok \in Token, HasClasses(tok)
    PROVE  Abstract!CharsIn(tok) \subseteq UNION {bl.chars : bl \in Denoted}
<1>1. TypeOK /\ MapIsMembership
  BY DEF Consistent
<1> SUFFICES ASSUME NEW i \in DOMAIN tok
             PROVE  \E bl \in Denoted : tok[i] \in bl.chars
  BY DEF Abstract!CharsIn
<1>2. tok[i] \in Tokid
  BY DEF EClassAssumption
<1>3. PICK t \in DOMAIN tm :
        /\ t[1] = tok[i][1]
        /\ tok[i][2] \in t[2] .. t[2] + RunLen(t) - 1
  BY DEF HasClasses
<1> DEFINE k == tok[i][2] - t[2]
<1>4. /\ t \in Tokid /\ t[2] \in Nat /\ tok[i][2] \in Nat
      /\ tm[t] \in DOMAIN ec /\ t \in ec[tm[t]].members
      /\ RunLen(t) \in Nat \ {0} /\ RunLen(t) = ec[tm[t]].len
  BY <1>1, <1>2, RunFacts DEF Tokid, RunLen
<1>5. k \in Nat /\ k < RunLen(t) /\ t[2] + k = tok[i][2]
  BY <1>3, <1>4
<1> HIDE DEF k
<1>6. Advance(t, k) = tok[i]
  BY <1>2, <1>3, <1>4, <1>5, AdvanceFacts, TokidEqual
<1>7. tok[i] \in Block(tm[t], k).chars
  BY <1>4, <1>6 DEF Block
<1>8. k \in 0 .. ec[tm[t]].len - 1
  BY <1>4, <1>5
<1> QED BY <1>4, <1>7, <1>8, DenotedIs

\* A block has a character of a token iff its class starts a run in it.
LEMMA TokenTouches ==
    ASSUME Consistent, EClassAssumption, TokenAssumption,
           NEW tok \in Token,
           NEW e \in DOMAIN ec, NEW k \in 0 .. ec[e].len - 1
    PROVE  Block(e, k).chars \cap Abstract!CharsIn(tok) # {}
              <=> e \in Classes(tok)
<1>1. TypeOK /\ MapIsMembership
  BY DEF Consistent
<1>2. ASSUME NEW i \in DOMAIN tok, NEW t \in ec[e].members,
             tok[i] = Advance(t, k)
      PROVE  e \in Classes(tok)
  <2>1. t \in DOMAIN tm /\ tm[t] = e /\ t \in Tokid
    BY <1>1, RunFacts DEF MapIsMembership
  <2>2. RunLen(t) \in Nat \ {0} /\ RunLen(t) = ec[e].len
    BY <1>1, <2>1, RunFacts DEF RunLen
  <2>3. k \in Nat /\ k < RunLen(t) /\ 0 \in 0 .. RunLen(t) - 1
    BY <2>2
  <2>4. i - k + 0 \in DOMAIN tok /\ tok[i - k + 0] = Advance(t, 0)
    BY <1>2, <2>1, <2>3, RunInToken
  <2>5. Advance(t, 0) = t
    BY <2>1 DEF Advance, Tokid
  <2> QED BY <2>1, <2>4, <2>5 DEF Classes
<1>3. ASSUME e \in Classes(tok)
      PROVE  Block(e, k).chars \cap Abstract!CharsIn(tok) # {}
  <2>1. PICK i \in DOMAIN tok : tok[i] \in DOMAIN tm /\ tm[tok[i]] = e
    BY <1>3 DEF Classes
  <2> DEFINE t == tok[i]
  <2>2. /\ t \in Tokid /\ RunLen(t) \in Nat \ {0} /\ RunLen(t) = ec[e].len
        /\ t \in ec[e].members
    BY <1>1, <2>1, RunFacts DEF RunLen
  <2>3. Advance(t, 0) = t
    BY <2>2 DEF Advance, Tokid
  <2>4. k \in 0 .. RunLen(t) - 1 /\ 0 < RunLen(t)
    BY <2>2
  <2>5. i - 0 + k \in DOMAIN tok /\ tok[i - 0 + k] = Advance(t, k)
    BY <2>1, <2>3, <2>4, RunInToken
  <2>6. Advance(t, k) \in Block(e, k).chars \cap Abstract!CharsIn(tok)
    BY <2>2, <2>5 DEF Block, Abstract!CharsIn
  <2> QED BY <2>6
<1>4. ASSUME Block(e, k).chars \cap Abstract!CharsIn(tok) # {}
      PROVE  e \in Classes(tok)
  <2>1. PICK c : c \in Block(e, k).chars /\ c \in Abstract!CharsIn(tok)
    BY <1>4
  <2>2. PICK i \in DOMAIN tok : c = tok[i]
    BY <2>1 DEF Abstract!CharsIn
  <2>3. PICK t \in ec[e].members : c = Advance(t, k)
    BY <2>1 DEF Block
  <2> QED BY <1>2, <2>2, <2>3
<1> QED BY <1>3, <1>4

\* Marking classes gives the attributes to the blocks that are touched.
LEMMA MarkedGives ==
    ASSUME Consistent, NEW classes, NEW attrs, NEW chars,
           ec' = Marked(classes, attrs),
           \A e \in DOMAIN ec : \A k \in 0 .. ec[e].len - 1 :
              Block(e, k).chars \cap chars # {} <=> e \in classes
    PROVE  Denoted' = Abstract!Give(Denoted, chars, attrs)
<1> DEFINE After(bl) == IF bl.chars \cap chars = {} THEN bl
                         ELSE [bl EXCEPT !.attr = @ \cup attrs]
<1>1. DOMAIN ec' = DOMAIN ec
  BY DEF Marked
<1>2. ASSUME NEW e \in DOMAIN ec
      PROVE  /\ ec'[e].len = ec[e].len
             /\ ec'[e].members = ec[e].members
             /\ ec'[e].attr = IF e \in classes THEN ec[e].attr \cup attrs
                              ELSE ec[e].attr
  <2>1. ec[e] \in Eclass
    BY DEF Consistent, TypeOK
  <2> QED BY <2>1 DEF Marked, Eclass
<1>3. ASSUME NEW e \in DOMAIN ec, NEW k \in 0 .. ec[e].len - 1
      PROVE  Block(e, k)' = After(Block(e, k))
  BY <1>2 DEF Block
<1>4. Abstract!Give(Denoted, chars, attrs) = {After(bl) : bl \in Denoted}
  BY DEF Abstract!Give
<1> HIDE DEF After
<1>5. \A bl : bl \in Denoted' <=>
         \E e \in DOMAIN ec : \E k \in 0 .. ec[e].len - 1 : bl = Block(e, k)'
  <2>1. \A e \in DOMAIN ec : 0 .. ec'[e].len - 1 = 0 .. ec[e].len - 1
    BY <1>2
  <2>2. ASSUME NEW bl
        PROVE  (\E e \in DOMAIN ec' : \E k \in 0 .. ec'[e].len - 1 : bl = Block(e, k)')
                 <=> (\E e \in DOMAIN ec : \E k \in 0 .. ec[e].len - 1 : bl = Block(e, k)')
    BY Zenon, <1>1, <2>1
  <2> QED BY <2>2, DenotedNextIs
<1>6. Denoted' \subseteq {After(bl) : bl \in Denoted}
  BY <1>3, <1>5, DenotedIs
<1>7. {After(bl) : bl \in Denoted} \subseteq Denoted'
  BY <1>3, <1>5, DenotedIs
<1> QED BY <1>4, <1>6, <1>7

-----------------------------------------------------------------------------
(* Eclass::split: the same blocks, found through two classes.              *)

\* Cutting a class in two leaves every character in the block it was in.
LEMMA SplitKeepsBlocks ==
    ASSUME Consistent,
           NEW e \in DOMAIN ec, NEW pos \in Nat \ {0}, pos < ec[e].len,
           Split(e, pos)
    PROVE  Denoted' = Denoted
<1> DEFINE size == ec[e].len
<1>1. ec[e] \in Eclass /\ size \in Nat /\ pos < size
  BY DEF Consistent, TypeOK, Eclass
<1>2. PICK new : new = Fresh /\ new \notin DOMAIN ec
  BY FreshFacts DEF Split
<1>3. /\ DOMAIN ec' = DOMAIN ec \cup {new}
      /\ \A x \in DOMAIN ec \ {e} : ec'[x] = ec[x]
      /\ ec'[e].len = pos /\ ec'[e].members = ec[e].members
      /\ ec'[e].attr = ec[e].attr
      /\ ec'[new].len = size - pos
      /\ ec'[new].members = SecondParts(e, pos)
      /\ ec'[new].attr = ec[e].attr
  BY <1>1, <1>2 DEF Split, Eclass
<1>4. ASSUME NEW x \in DOMAIN ec \ {e}, NEW k PROVE Block(x, k)' = Block(x, k)
  BY <1>3 DEF Block
<1>5. ASSUME NEW k PROVE Block(e, k)' = Block(e, k)
  BY <1>1, <1>3 DEF Block
<1>6. ASSUME NEW k \in Nat PROVE Block(new, k)' = Block(e, pos + k)
  <2>1. {Advance(t, k) : t \in SecondParts(e, pos)}
          = {Advance(t, pos + k) : t \in ec[e].members}
    <3>1. \A t \in ec[e].members :
             Advance(Advance(t, pos), k) = Advance(t, pos + k)
      BY <1>1, AdvanceTwice DEF Eclass
    <3> QED BY <3>1 DEF SecondParts
  <2> QED BY <1>3, <2>1 DEF Block
<1> HIDE DEF size
<1>7. ASSUME NEW bl \in Denoted PROVE bl \in Denoted'
  <2>1. PICK x \in DOMAIN ec : \E k \in 0 .. ec[x].len - 1 : bl = Block(x, k)
    BY DenotedIs
  <2>2. PICK k \in 0 .. ec[x].len - 1 : bl = Block(x, k)
    BY <2>1
  <2>3. CASE x # e
    <3>1. x \in DOMAIN ec' /\ k \in 0 .. ec'[x].len - 1 /\ bl = Block(x, k)'
      BY <1>3, <1>4, <2>2, <2>3
    <3> QED BY <3>1, DenotedNextIs
  <2>4. CASE x = e /\ k < pos
    <3>1. e \in DOMAIN ec' /\ k \in 0 .. ec'[e].len - 1 /\ bl = Block(e, k)'
      BY <1>1, <1>3, <1>5, <2>2, <2>4 DEF size
    <3> QED BY <3>1, DenotedNextIs
  <2>5. CASE x = e /\ ~(k < pos)
    <3>1. k \in 0 .. size - 1
      BY <2>2, <2>5 DEF size
    <3>2. k - pos \in Nat /\ k - pos \in 0 .. (size - pos) - 1 /\ pos + (k - pos) = k
      BY <1>1, <2>5, <3>1
    <3>3. bl = Block(new, k - pos)'
      BY <1>6, <2>2, <2>5, <3>2
    <3> QED BY <1>3, <3>2, <3>3, DenotedNextIs
  <2> QED BY <2>3, <2>4, <2>5
<1>8. ASSUME NEW bl \in Denoted' PROVE bl \in Denoted
  <2>1. PICK x \in DOMAIN ec' : \E k \in 0 .. ec'[x].len - 1 : bl = Block(x, k)'
    BY DenotedNextIs
  <2>2. PICK k \in 0 .. ec'[x].len - 1 : bl = Block(x, k)'
    BY <2>1
  <2>3. CASE x \in DOMAIN ec \ {e}
    <3>1. k \in 0 .. ec[x].len - 1 /\ bl = Block(x, k)
      BY <1>3, <1>4, <2>2, <2>3
    <3> QED BY <2>3, <3>1, DenotedIs
  <2>4. CASE x = e
    <3>1. k \in 0 .. size - 1 /\ bl = Block(e, k)
      BY <1>1, <1>3, <1>5, <2>2, <2>4
    <3> QED BY <1>1, <3>1, DenotedIs DEF size
  <2>5. CASE x = new
    <3>1. k \in 0 .. (size - pos) - 1
      BY <1>3, <2>2, <2>5
    <3>2. k \in Nat /\ pos + k \in 0 .. size - 1
      BY <1>1, <3>1
    <3>3. bl = Block(e, pos + k)
      BY <1>6, <2>2, <2>5, <3>2
    <3> QED BY <1>1, <3>2, <3>3, DenotedIs DEF size
  <2> QED BY <1>3, <2>3, <2>4, <2>5
<1> QED BY <1>7, <1>8

-----------------------------------------------------------------------------
(* Joining pairs of characters.                                            *)

\* What a function that joins pair after pair is.
Joins(f, bs, a, b) ==
    f = [i \in 0 .. Len(a) |->
            IF i = 0 THEN bs ELSE Abstract!Join(f[i - 1], a[i], b[i])]

\* There is one, so Joined is it.
LEMMA JoinedIs ==
    ASSUME NEW bs, NEW a, NEW b, Len(a) \in Nat
    PROVE  Joins(Abstract!Joined(bs, a, b), bs, a, b)
<1> DEFINE JoinsTo(n, f) ==
        f = [i \in 0 .. n |->
                IF i = 0 THEN bs ELSE Abstract!Join(f[i - 1], a[i], b[i])]
      Lacking == {n \in 0 .. Len(a) : ~ \E f : JoinsTo(n, f)}
<1>1. Lacking = {}
  <2> SUFFICES ASSUME Lacking # {} PROVE FALSE
    OBVIOUS
  <2>1. PICK m \in Lacking : \A k \in Lacking : m <= k
    <3>1. Lacking \in SUBSET Nat
      OBVIOUS
    <3> HIDE DEF Lacking
    <3> QED BY <3>1, LeastNaturalExists
  <2>2. m \in 0 .. Len(a) /\ ~ \E f : JoinsTo(m, f)
    BY <2>1
  <2>3. m # 0
    <3>1. JoinsTo(0, [i \in 0 .. 0 |-> bs])
      OBVIOUS
    <3> QED BY <2>2, <3>1
  <2>4. m - 1 \in 0 .. Len(a) /\ m - 1 \notin Lacking
    <3>1. m - 1 \in 0 .. Len(a) /\ ~(m <= m - 1)
      BY <2>2, <2>3
    <3> HIDE DEF Lacking
    <3> QED BY <2>1, <3>1
  <2>5. PICK f : JoinsTo(m - 1, f)
    <3> HIDE DEF JoinsTo
    <3> QED BY <2>4
  <2> DEFINE g == [i \in 0 .. m |->
                      IF i = m THEN Abstract!Join(f[m - 1], a[m], b[m]) ELSE f[i]]
  <2>6. \A i \in 0 .. m - 1 : g[i] = f[i]
    BY <2>2
  <2>7. \A i \in 0 .. m - 1 :
           f[i] = IF i = 0 THEN bs ELSE Abstract!Join(f[i - 1], a[i], b[i])
    BY <2>5
  <2>8. \A i \in 0 .. m :
           g[i] = IF i = 0 THEN bs ELSE Abstract!Join(g[i - 1], a[i], b[i])
    <3> SUFFICES ASSUME NEW i \in 0 .. m
                 PROVE  g[i] = IF i = 0 THEN bs
                               ELSE Abstract!Join(g[i - 1], a[i], b[i])
      OBVIOUS
    <3>1. CASE i = m
      <4>1. g[m] = Abstract!Join(f[m - 1], a[m], b[m])
        BY <2>2
      <4>2. g[m - 1] = f[m - 1]
        BY <2>2, <2>3, <2>6
      <4> QED BY <2>3, <3>1, <4>1, <4>2
    <3>2. CASE i = 0
      BY <2>2, <2>3, <2>6, <2>7, <3>2
    <3>3. CASE i # m /\ i # 0
      <4>1. i \in 0 .. m - 1 /\ i - 1 \in 0 .. m - 1
        BY <2>2, <3>3
      <4> QED BY <2>6, <2>7, <3>3, <4>1
    <3> QED BY <3>1, <3>2, <3>3
  <2>9. JoinsTo(m, g)
    <3>1. g = [i \in 0 .. m |-> g[i]]
      OBVIOUS
    <3> HIDE DEF g
    <3> QED BY <2>8, <3>1
  <2> QED BY <2>2, <2>9
<1>2. \E f : JoinsTo(Len(a), f)
  BY <1>1
<1>3. Abstract!Joined(bs, a, b) = CHOOSE f : JoinsTo(Len(a), f)
  BY DEF Abstract!Joined
<1> HIDE DEF JoinsTo
<1>4. JoinsTo(Len(a), CHOOSE f : JoinsTo(Len(a), f))
  BY <1>2
<1> QED BY <1>3, <1>4 DEF JoinsTo, Joins

\* One pair after the other.
LEMMA JoinedSteps ==
    ASSUME NEW bs, NEW a, NEW b, Len(a) \in Nat
    PROVE  /\ Abstract!Joined(bs, a, b)[0] = bs
           /\ \A i \in 1 .. Len(a) :
                 Abstract!Joined(bs, a, b)[i]
                   = Abstract!Join(Abstract!Joined(bs, a, b)[i - 1], a[i], b[i])
<1> DEFINE f == Abstract!Joined(bs, a, b)
<1>1. Joins(f, bs, a, b)
  BY JoinedIs
<1> HIDE DEF f
<1>2. \A i \in 0 .. Len(a) :
         f[i] = IF i = 0 THEN bs ELSE Abstract!Join(f[i - 1], a[i], b[i])
  BY <1>1 DEF Joins
<1> QED BY <1>2 DEF f

-----------------------------------------------------------------------------
(* Eclass merge: the joins of corresponding characters, one by one.        *)

\* The block of two corresponding characters once they are one.
Merged(x, y, k) ==
    [chars |-> Block(x, k).chars \cup Block(y, k).chars,
     attr  |-> ec[x].attr \cup ec[y].attr]

\* The partition when the first m characters of x and y have been joined.
Stage(x, y, m) ==
    (UNION {BlocksOf(e) : e \in DOMAIN ec \ {x, y}})
    \cup {Block(e, k) : e \in {x, y}, k \in m .. ec[x].len - 1}
    \cup {Merged(x, y, k) : k \in 0 .. m - 1}

\* What a block of that partition is.
LEMMA StageIs ==
    ASSUME NEW x, NEW y, NEW m
    PROVE  \A bl : bl \in Stage(x, y, m) <=>
              \/ \E e \in DOMAIN ec \ {x, y} : \E k \in 0 .. ec[e].len - 1 :
                    bl = Block(e, k)
              \/ \E e \in {x, y} : \E k \in m .. ec[x].len - 1 : bl = Block(e, k)
              \/ \E k \in 0 .. m - 1 : bl = Merged(x, y, k)
BY DEF Stage, BlocksOf

\* Joining one more pair.
LEMMA StageJoin ==
    ASSUME Consistent,
           NEW x \in DOMAIN ec, NEW y \in DOMAIN ec, ec[x].len = ec[y].len,
           NEW m \in 0 .. ec[x].len - 1,
           NEW c \in Block(x, m).chars, NEW d \in Block(y, m).chars
    PROVE  Abstract!Join(Stage(x, y, m), c, d) = Stage(x, y, m + 1)
<1> DEFINE size == ec[x].len
           two == {bl \in Stage(x, y, m) : c \in bl.chars \/ d \in bl.chars}
           S == Stage(x, y, m)
           next == Stage(x, y, m + 1)
<1>1. size \in Nat /\ m \in Nat /\ m < size /\ ec[y].len = size
  BY DEF Consistent, TypeOK, Eclass
<1>2. ASSUME NEW e \in DOMAIN ec, NEW k \in 0 .. ec[e].len - 1,
             c \in Block(e, k).chars \/ d \in Block(e, k).chars
      PROVE  e \in {x, y} /\ k = m
  <2>1. m \in 0 .. ec[x].len - 1 /\ m \in 0 .. ec[y].len - 1
    OBVIOUS
  <2>2. CASE c \in Block(e, k).chars
    BY <2>1, <2>2, BlocksApart
  <2>3. CASE d \in Block(e, k).chars
    BY <2>1, <2>3, BlocksApart
  <2> QED BY <1>2, <2>2, <2>3
<1> HIDE DEF size
\* A block of this stage has one of the two characters iff it is theirs.
<1>3. ASSUME NEW k \in 0 .. m - 1
      PROVE  c \notin Merged(x, y, k).chars /\ d \notin Merged(x, y, k).chars
  <2>1. k \in 0 .. ec[x].len - 1 /\ k \in 0 .. ec[y].len - 1 /\ k # m
    BY <1>1 DEF size
  <2> QED BY <1>2, <2>1 DEF Merged
<1>4. {Block(x, m), Block(y, m)} \subseteq S
  <2>1. m \in m .. ec[x].len - 1
    BY <1>1 DEF size
  <2> QED BY <2>1, StageIs
<1>5. ASSUME NEW bl \in S, c \in bl.chars \/ d \in bl.chars
      PROVE  bl \in {Block(x, m), Block(y, m)}
  <2>1. CASE \E e \in DOMAIN ec \ {x, y} : \E k \in 0 .. ec[e].len - 1 :
                bl = Block(e, k)
    BY <1>2, <1>5, <2>1
  <2>2. CASE \E e \in {x, y} : \E k \in m .. ec[x].len - 1 : bl = Block(e, k)
    <3>1. PICK e \in {x, y}, k \in m .. ec[x].len - 1 : bl = Block(e, k)
      BY <2>2
    <3>2. k \in 0 .. ec[e].len - 1
      BY <1>1, <3>1 DEF size
    <3>3. e \in DOMAIN ec
      BY <3>1
    <3>4. k = m
      BY <1>2, <1>5, <3>1, <3>2, <3>3
    <3> QED BY <3>1, <3>4
  <2>3. CASE \E k \in 0 .. m - 1 : bl = Merged(x, y, k)
    BY <1>3, <1>5, <2>3
  <2> QED BY <2>1, <2>2, <2>3, StageIs
<1>6. two = {Block(x, m), Block(y, m)}
  BY <1>4, <1>5
<1>7. Abstract!Join(S, c, d) = (S \ two) \cup {Merged(x, y, m)}
  <2>1. Abstract!Join(S, c, d) =
           (S \ two) \cup {[chars |-> UNION {bl.chars : bl \in two},
                            attr  |-> UNION {bl.attr : bl \in two}]}
    BY DEF Abstract!Join
  <2>2. UNION {bl.chars : bl \in two} = Block(x, m).chars \cup Block(y, m).chars
    <3> HIDE DEF two
    <3> QED BY <1>6
  <2>3. UNION {bl.attr : bl \in two} = ec[x].attr \cup ec[y].attr
    <3>1. Block(x, m).attr = ec[x].attr /\ Block(y, m).attr = ec[y].attr
      BY DEF Block
    <3> HIDE DEF two
    <3> QED BY <1>6, <3>1
  <2> HIDE DEF two, S
  <2> QED BY <2>1, <2>2, <2>3 DEF Merged
<1>8. ASSUME NEW bl \in next PROVE bl \in (S \ two) \cup {Merged(x, y, m)}
  <2>1. CASE \E e \in DOMAIN ec \ {x, y} : \E k \in 0 .. ec[e].len - 1 :
                bl = Block(e, k)
    <3>1. bl \in S
      BY <2>1, StageIs
    <3>2. c \notin bl.chars /\ d \notin bl.chars
      BY <1>2, <2>1
    <3> QED BY <3>1, <3>2
  <2>2. CASE \E e \in {x, y} : \E k \in m + 1 .. ec[x].len - 1 : bl = Block(e, k)
    <3>1. PICK e \in {x, y}, k \in m + 1 .. ec[x].len - 1 : bl = Block(e, k)
      BY <2>2
    <3>2. k \in m .. ec[x].len - 1 /\ k \in 0 .. ec[e].len - 1 /\ k # m
      BY <1>1, <3>1 DEF size
    <3>3. bl \in S
      BY <3>1, <3>2, StageIs
    <3>4. c \notin bl.chars /\ d \notin bl.chars
      BY <1>2, <3>1, <3>2
    <3> QED BY <3>3, <3>4
  <2>3. CASE \E k \in 0 .. (m + 1) - 1 : bl = Merged(x, y, k)
    <3>1. PICK k \in 0 .. (m + 1) - 1 : bl = Merged(x, y, k)
      BY <2>3
    <3>2. CASE k = m
      BY <3>1, <3>2
    <3>3. CASE k # m
      <4>1. k \in 0 .. m - 1
        BY <1>1, <3>3
      <4>2. bl \in S
        BY <3>1, <4>1, StageIs
      <4>3. c \notin bl.chars /\ d \notin bl.chars
        BY <1>3, <3>1, <4>1
      <4> QED BY <4>2, <4>3
    <3> QED BY <3>2, <3>3
  <2> QED BY <2>1, <2>2, <2>3, StageIs
<1>9. ASSUME NEW bl \in (S \ two) \cup {Merged(x, y, m)} PROVE bl \in next
  <2>1. CASE bl = Merged(x, y, m)
    <3>1. m \in 0 .. (m + 1) - 1
      BY <1>1
    <3> QED BY <2>1, <3>1, StageIs
  <2>2. CASE \E e \in DOMAIN ec \ {x, y} : \E k \in 0 .. ec[e].len - 1 :
                bl = Block(e, k)
    BY <2>2, StageIs
  <2>3. CASE bl \notin two
             /\ \E e \in {x, y} : \E k \in m .. ec[x].len - 1 : bl = Block(e, k)
    <3>1. PICK e \in {x, y}, k \in m .. ec[x].len - 1 : bl = Block(e, k)
      BY <2>3
    <3>2. k # m
      BY <1>6, <2>3, <3>1
    <3>3. k \in m + 1 .. ec[x].len - 1
      BY <1>1, <3>2 DEF size
    <3> QED BY <3>1, <3>3, StageIs
  <2>4. CASE \E k \in 0 .. m - 1 : bl = Merged(x, y, k)
    <3>1. PICK k \in 0 .. m - 1 : bl = Merged(x, y, k)
      BY <2>4
    <3>2. k \in 0 .. (m + 1) - 1
      BY <1>1
    <3> QED BY <3>1, <3>2, StageIs
  <2> QED BY <2>1, <2>2, <2>3, <2>4, StageIs
<1> QED BY <1>7, <1>8, <1>9

\* Before the first pair.
LEMMA StageBegins ==
    ASSUME NEW x \in DOMAIN ec, NEW y \in DOMAIN ec, ec[x].len = ec[y].len
    PROVE  Stage(x, y, 0) = Denoted
<1>1. \A k : k \notin 0 .. 0 - 1
  OBVIOUS
<1>2. ASSUME NEW bl \in Stage(x, y, 0) PROVE bl \in Denoted
  BY <1>1, StageIs, DenotedIs
<1>3. ASSUME NEW bl \in Denoted PROVE bl \in Stage(x, y, 0)
  BY StageIs, DenotedIs
<1> QED BY <1>2, <1>3

\* merge_into after the last pair.
LEMMA MergeIntoStage ==
    ASSUME Consistent,
           NEW x \in DOMAIN ec, NEW y \in DOMAIN ec, ec[x].len = ec[y].len,
           x # y, project \in ec[x].attr,
           NEW dst \in {x, y}, NEW src \in {x, y}, dst # src,
           MergeInto(dst, src)
    PROVE  Denoted' = Stage(x, y, ec[x].len)
<1> DEFINE size == ec[x].len
<1>1. ec[x] \in Eclass /\ ec[y] \in Eclass /\ size \in Nat
  BY DEF Consistent, TypeOK, Eclass
<1>2. /\ DOMAIN ec' = DOMAIN ec \ {src}
      /\ \A e \in DOMAIN ec \ {x, y} : ec'[e] = ec[e]
      /\ ec'[dst].len = size
      /\ ec'[dst].members = ec[x].members \cup ec[y].members
      /\ ec'[dst].attr = ec[dst].attr \cup ec[src].attr
                           \cup Inherent(ec[src].members, FALSE)
  <2> DEFINE new == [len |-> ec[dst].len,
                     members |-> ec[dst].members \cup ec[src].members,
                     attr |-> ec[dst].attr \cup ec[src].attr
                                \cup Inherent(ec[src].members, FALSE)]
  <2>1. /\ new.len = size
        /\ new.members = ec[x].members \cup ec[y].members
        /\ new.attr = ec[dst].attr \cup ec[src].attr
                         \cup Inherent(ec[src].members, FALSE)
    OBVIOUS
  <2> HIDE DEF new
  <2>2. ec' = [e \in DOMAIN ec \ {src} |-> IF e # dst THEN ec[e] ELSE new]
    BY DEF MergeInto, new
  <2>3. dst \in DOMAIN ec \ {src} /\ ec'[dst] = new
    BY <2>2
  <2>4. DOMAIN ec' = DOMAIN ec \ {src} /\ \A e \in DOMAIN ec \ {x, y} : ec'[e] = ec[e]
    BY <2>2
  <2> QED BY <2>1, <2>3, <2>4
\* The attributes the new members bring are those of their class already.
<1>3. Inherent(ec[src].members, FALSE) \subseteq ec[x].attr \cup ec[y].attr
  <2>1. (\E t \in ec[src].members : t[1] \in ReadOnly)
           => "is_readonly" \in ec[src].attr
    BY DEF Consistent, ReadOnlyIffMember
  <2> QED BY <2>1 DEF Inherent
<1>4. ec'[dst].attr = ec[x].attr \cup ec[y].attr
  <2>1. ec[dst].attr \cup ec[src].attr = ec[x].attr \cup ec[y].attr
    OBVIOUS
  <2> QED BY <1>2, <1>3, <2>1
<1>5. ASSUME NEW k PROVE Block(dst, k)' = Merged(x, y, k)
  <2>1. {Advance(t, k) : t \in ec'[dst].members}
           = {Advance(t, k) : t \in ec[x].members}
             \cup {Advance(t, k) : t \in ec[y].members}
    BY <1>2
  <2> QED BY <1>4, <2>1 DEF Block, Merged
<1>6. ASSUME NEW e \in DOMAIN ec \ {x, y}, NEW k PROVE Block(e, k)' = Block(e, k)
  BY <1>2 DEF Block
<1> HIDE DEF size
<1>7. ASSUME NEW bl \in Denoted' PROVE bl \in Stage(x, y, size)
  <2>1. PICK e \in DOMAIN ec' : \E k \in 0 .. ec'[e].len - 1 : bl = Block(e, k)'
    BY DenotedNextIs
  <2>2. PICK k \in 0 .. ec'[e].len - 1 : bl = Block(e, k)'
    BY <2>1
  <2>3. CASE e = dst
    <3>1. k \in 0 .. size - 1 /\ bl = Merged(x, y, k)
      BY <1>2, <1>5, <2>2, <2>3
    <3> QED BY <3>1, StageIs
  <2>4. CASE e # dst
    <3>1. e \in DOMAIN ec \ {x, y}
      BY <1>2, <2>4
    <3>2. k \in 0 .. ec[e].len - 1 /\ bl = Block(e, k)
      BY <1>2, <1>6, <2>2, <3>1
    <3> QED BY <3>1, <3>2, StageIs
  <2> QED BY <2>3, <2>4
<1>8. ASSUME NEW bl \in Stage(x, y, size) PROVE bl \in Denoted'
  <2>1. CASE \E e \in DOMAIN ec \ {x, y} : \E k \in 0 .. ec[e].len - 1 :
                bl = Block(e, k)
    <3>1. PICK e \in DOMAIN ec \ {x, y} : \E k \in 0 .. ec[e].len - 1 :
                bl = Block(e, k)
      BY <2>1
    <3>2. PICK k \in 0 .. ec[e].len - 1 : bl = Block(e, k)
      BY <3>1
    <3>3. e \in DOMAIN ec' /\ k \in 0 .. ec'[e].len - 1 /\ bl = Block(e, k)'
      BY <1>2, <1>6, <3>2
    <3> QED BY <3>3, DenotedNextIs
  <2>2. ~ \E k \in size .. ec[x].len - 1 : TRUE
    BY <1>1 DEF size
  <2>3. CASE \E k \in 0 .. size - 1 : bl = Merged(x, y, k)
    <3>1. PICK k \in 0 .. size - 1 : bl = Merged(x, y, k)
      BY <2>3
    <3>2. dst \in DOMAIN ec' /\ k \in 0 .. ec'[dst].len - 1 /\ bl = Block(dst, k)'
      BY <1>2, <1>5, <3>1
    <3> QED BY <3>2, DenotedNextIs
  <2> QED BY <2>1, <2>2, <2>3, StageIs
<1>9. Denoted' = Stage(x, y, size)
  BY <1>7, <1>8
<1> QED BY <1>9 DEF size

\* A class merged with itself is joined with itself.
LEMMA MergeSameStage ==
    ASSUME Consistent, NEW x \in DOMAIN ec
    PROVE  Denoted = Stage(x, x, ec[x].len)
<1> DEFINE size == ec[x].len
<1>1. size \in Nat
  BY DEF Consistent, TypeOK, Eclass
<1>2. ASSUME NEW k PROVE Merged(x, x, k) = Block(x, k)
  BY DEF Merged, Block
<1>3. ~ \E k \in size .. ec[x].len - 1 : TRUE
  BY <1>1
<1> HIDE DEF size
<1>4. ASSUME NEW bl \in Denoted PROVE bl \in Stage(x, x, size)
  <2>1. PICK e \in DOMAIN ec : \E k \in 0 .. ec[e].len - 1 : bl = Block(e, k)
    BY DenotedIs
  <2>2. CASE e = x
    BY <1>2, <2>1, <2>2, StageIs DEF size
  <2>3. CASE e # x
    BY <2>1, <2>3, StageIs
  <2> QED BY <2>2, <2>3
<1>5. ASSUME NEW bl \in Stage(x, x, size) PROVE bl \in Denoted
  <2>1. CASE \E e \in DOMAIN ec \ {x, x} : \E k \in 0 .. ec[e].len - 1 :
                bl = Block(e, k)
    BY <2>1, DenotedIs
  <2>2. CASE \E k \in 0 .. size - 1 : bl = Merged(x, x, k)
    BY <1>2, <2>2, DenotedIs DEF size
  <2> QED BY <1>3, <2>1, <2>2, StageIs
<1> QED BY <1>4, <1>5 DEF size

\* f joins characters of a and b from the nth on, those of x and y.
JoinsRuns(f, a, b, n, x, y) ==
    \A m \in 0 .. ec[x].len - 1 :
        /\ f[n + m + 1] = Abstract!Join(f[n + m], a[n + m + 1], b[n + m + 1])
        /\ a[n + m + 1] \in Block(x, m).chars
        /\ b[n + m + 1] \in Block(y, m).chars

\* Merging two classes is joining their characters pair by pair.
LEMMA MergeJoins ==
    ASSUME Consistent,
           NEW x \in DOMAIN ec, NEW y \in DOMAIN ec, ec[x].len = ec[y].len,
           project \in ec[x].attr, project \in ec[y].attr,
           Merge(x, y),
           NEW f, NEW a, NEW b, NEW n \in Nat,
           f[n] = Denoted, JoinsRuns(f, a, b, n, x, y)
    PROVE  f[n + ec[x].len] = Denoted'
<1> DEFINE size == ec[x].len
           Wrong == {m \in 0 .. size : f[n + m] # Stage(x, y, m)}
<1>1. size \in Nat
  BY DEF Consistent, TypeOK, Eclass
<1>2. Wrong = {}
  <2> SUFFICES ASSUME Wrong # {} PROVE FALSE
    OBVIOUS
  <2>1. PICK m \in Wrong : \A k \in Wrong : m <= k
    <3>1. Wrong \in SUBSET Nat
      OBVIOUS
    <3> HIDE DEF Wrong
    <3> QED BY <3>1, LeastNaturalExists
  <2>2. m \in 0 .. size /\ f[n + m] # Stage(x, y, m)
    BY <2>1
  <2>3. m # 0
    BY <2>2, StageBegins
  <2>4. m - 1 \in 0 .. size - 1 /\ ~(m <= m - 1) /\ (m - 1) + 1 = m
        /\ n + (m - 1) + 1 = n + m
    BY <1>1, <2>2, <2>3
  <2>5. f[n + (m - 1)] = Stage(x, y, m - 1)
    <3>1. m - 1 \notin Wrong
      <4> HIDE DEF Wrong
      <4> QED BY <2>1, <2>4
    <3>2. m - 1 \in 0 .. size
      BY <1>1, <2>4
    <3> QED BY <3>1, <3>2
  <2>6. /\ f[n + m] = Abstract!Join(f[n + (m - 1)], a[n + m], b[n + m])
        /\ a[n + m] \in Block(x, m - 1).chars
        /\ b[n + m] \in Block(y, m - 1).chars
    BY <2>4 DEF JoinsRuns
  <2>7. Abstract!Join(Stage(x, y, m - 1), a[n + m], b[n + m])
           = Stage(x, y, (m - 1) + 1)
    BY <2>4, <2>6, StageJoin
  <2> QED BY <2>2, <2>4, <2>5, <2>6, <2>7
<1>3. f[n + size] = Stage(x, y, size)
  BY <1>1, <1>2
<1>4. Denoted' = Stage(x, y, size)
  <2>1. CASE x = y
    <3>1. Denoted' = Denoted
      BY <2>1 DEF Merge, Denoted, BlocksOf, Block
    <3> QED BY <2>1, <3>1, MergeSameStage
  <2>2. CASE x # y
    <3>1. MergeInto(x, y) \/ MergeInto(y, x)
      BY <2>2 DEF Merge
    <3> QED BY <2>2, <3>1, MergeIntoStage
  <2> QED BY <2>1, <2>2
<1> QED BY <1>3, <1>4

-----------------------------------------------------------------------------
(* Tokid::constituents.                                                    *)

\* A block has a character of a lexeme iff its class starts a run in it.
LEMMA LexemeTouches ==
    ASSUME Consistent, EClassAssumption, NEW x \in Lexeme,
           NEW e \in DOMAIN ec, NEW k \in 0 .. ec[e].len - 1
    PROVE  Block(e, k).chars \cap Abstract!CharsOf(x) # {}
              <=> e \in ClassesIn(x.tokid, x.len)
<1> DEFINE size == x.len
           length == ec[e].len
<1>1. TypeOK /\ MapIsMembership
  BY DEF Consistent
<1>2. x.tokid \in Tokid /\ size \in Nat \ {0} /\ length \in Nat \ {0}
  BY <1>1 DEF EClassAssumption, TypeOK, Eclass
<1>3. \A t \in ec[e].members :
         t \in DOMAIN tm /\ tm[t] = e /\ RunLen(t) = length /\ t \in Tokid
  BY <1>1, RunFacts DEF MapIsMembership, RunLen
<1>4. k \in Nat /\ k < length
  BY <1>2
<1>5. ASSUME Block(e, k).chars \cap Abstract!CharsOf(x) # {}
      PROVE  e \in ClassesIn(x.tokid, x.len)
  <2>1. PICK c : c \in Block(e, k).chars /\ c \in Abstract!CharsOf(x)
    BY <1>5
  <2>2. PICK t \in ec[e].members : c = Advance(t, k)
    BY <2>1 DEF Block
  <2>3. PICK q \in 0 .. size - 1 : c = Advance(x.tokid, q)
    BY <2>1 DEF Abstract!CharsOf, Advance
  <2> HIDE DEF size, length
  <2>4. q \in Nat /\ q < size
    BY <1>2
  <2>5. k <= q /\ t = Advance(x.tokid, q - k)
    <3>1. /\ t \in DOMAIN tm /\ k < RunLen(t) /\ q < x.len
          /\ Advance(t, k) = Advance(x.tokid, q)
      BY <1>3, <1>4, <2>2, <2>3, <2>4 DEF size
    <3> QED BY <1>4, <2>4, <3>1, RunInLexeme
  <2>6. q - k \in 0 .. size - 1
    BY <1>2, <1>4, <2>4, <2>5
  <2> QED BY <1>3, <2>5, <2>6 DEF ClassesIn, size
<1>6. ASSUME e \in ClassesIn(x.tokid, x.len)
      PROVE  Block(e, k).chars \cap Abstract!CharsOf(x) # {}
  <2>1. PICK j \in 0 .. size - 1 : /\ Advance(x.tokid, j) \in DOMAIN tm
                                   /\ tm[Advance(x.tokid, j)] = e
    BY <1>6 DEF ClassesIn
  <2>2. PICK t \in DOMAIN tm : t = Advance(x.tokid, j) /\ tm[t] = e
    BY <2>1
  <2>3. t \in ec[e].members
    BY <1>1, <2>2 DEF MapIsMembership
  <2> HIDE DEF size, length
  <2>4. j \in Nat /\ j < size /\ 0 \in Nat /\ 0 < length
    BY <1>2
  <2>5. Advance(t, 0) = Advance(x.tokid, j)
    BY <1>3, <2>2, <2>3 DEF Advance, Tokid
  <2>6. j - 0 + RunLen(t) <= x.len
    BY <1>3, <2>3, <2>4, <2>5, RunInLexeme DEF size
  <2>7. j + k \in 0 .. size - 1
    BY <1>2, <1>3, <1>4, <2>3, <2>4, <2>6 DEF size
  <2>8. Advance(t, k) = Advance(x.tokid, j + k)
    BY <1>2, <1>4, <2>2, <2>4, AdvanceTwice
  <2>9. Advance(t, k) \in Block(e, k).chars
    BY <2>3 DEF Block
  <2>10. Advance(t, k) \in Abstract!CharsOf(x)
    BY <2>7, <2>8 DEF Abstract!CharsOf, Advance, size
  <2> QED BY <2>9, <2>10
<1> QED BY <1>5, <1>6

\* The characters of a lexeme that was read are in blocks.
LEMMA LexemeKnown ==
    ASSUME Consistent, EClassAssumption, NEW x \in Lexeme, x.tokid \in DOMAIN tm
    PROVE  Abstract!CharsOf(x) \subseteq UNION {bl.chars : bl \in Denoted}
<1> DEFINE size == x.len
           Char(q) == Advance(x.tokid, q)
           Seen(c) == \E bl \in Denoted : c \in bl.chars
           Unknown == {q \in 0 .. size - 1 : ~Seen(Char(q))}
<1>1. TypeOK /\ MapIsMembership
  BY DEF Consistent
<1>2. x.tokid \in Tokid /\ size \in Nat \ {0}
  BY DEF EClassAssumption
<1>3. ASSUME NEW t \in DOMAIN tm, NEW k \in Nat, k < RunLen(t)
      PROVE  Seen(Advance(t, k))
  <2>1. tm[t] \in DOMAIN ec /\ t \in ec[tm[t]].members /\ RunLen(t) = ec[tm[t]].len
        /\ RunLen(t) \in Nat
    BY <1>1, RunFacts DEF RunLen
  <2>2. k \in 0 .. ec[tm[t]].len - 1
    BY <1>3, <2>1
  <2>3. Advance(t, k) \in Block(tm[t], k).chars
    BY <2>1 DEF Block
  <2> QED BY <2>1, <2>2, <2>3, DenotedIs
<1> HIDE DEF Seen
<1>4. Unknown = {}
  <2> SUFFICES ASSUME Unknown # {} PROVE FALSE
    OBVIOUS
  <2>1. PICK q \in Unknown : \A j \in Unknown : q <= j
    <3>1. Unknown \in SUBSET Nat
      OBVIOUS
    <3> HIDE DEF Unknown
    <3> QED BY <3>1, LeastNaturalExists
  <2>2. q \in 0 .. size - 1 /\ ~Seen(Char(q))
    BY <2>1
  <2>3. \A t \in DOMAIN tm : t \in Tokid /\ RunLen(t) \in Nat \ {0} /\ Advance(t, 0) = t
    BY <1>1, RunFacts DEF Advance, Tokid
  <2>4. \A t \in DOMAIN tm : Seen(t)
    <3> SUFFICES ASSUME NEW t \in DOMAIN tm PROVE Seen(t)
      OBVIOUS
    <3>1. 0 \in Nat /\ 0 < RunLen(t) /\ Advance(t, 0) = t
      BY <2>3
    <3> QED BY <1>3, <3>1
  <2>5. Char(0) = x.tokid
    BY <1>2 DEF Advance, Tokid
  <2> HIDE DEF size
  <2>6. q # 0
    BY <2>2, <2>4, <2>5
  <2>7. q - 1 \in 0 .. size - 1 /\ ~(q <= q - 1)
    BY <1>2, <2>2, <2>6
  <2>8. Seen(Char(q - 1))
    <3>1. q - 1 \notin Unknown
      <4> HIDE DEF Unknown
      <4> QED BY <2>1, <2>7
    <3> QED BY <2>7, <3>1
  <2>9. PICK bl \in Denoted : Char(q - 1) \in bl.chars
    BY <2>8 DEF Seen
  <2>10. PICK e \in DOMAIN ec : \E k \in 0 .. ec[e].len - 1 : bl = Block(e, k)
    BY <2>9, DenotedIs
  <2>11. PICK k \in 0 .. ec[e].len - 1 : bl = Block(e, k)
    BY <2>10
  <2>12. PICK t \in ec[e].members : Char(q - 1) = Advance(t, k)
    BY <2>9, <2>11 DEF Block
  <2> DEFINE length == RunLen(t)
  <2>13. t \in DOMAIN tm /\ length = ec[e].len /\ length \in Nat \ {0} /\ t \in Tokid
    BY <1>1, <2>3, <2>12 DEF MapIsMembership, RunLen
  <2> HIDE DEF length
  <2>14. k \in Nat /\ k < length
    BY <2>11, <2>13
  <2>15. /\ k <= q - 1
         /\ t = Char(q - 1 - k)
         /\ q - 1 - k + length = size \/ Advance(t, length) \in DOMAIN tm
    <3>1. q - 1 \in Nat /\ q - 1 < size
      BY <1>2, <2>7
    <3> QED BY SMTT(60), <2>12, <2>13, <2>14, <3>1, RunInLexeme DEF size, length
  <2>16. q - 1 - k \in Nat /\ k + 1 \in Nat /\ (q - 1 - k) + (k + 1) = q
    BY <1>2, <2>2, <2>7, <2>14, <2>15
  <2>17. Advance(t, k + 1) = Char(q)
    <3>1. Advance(Char(q - 1 - k), k + 1) = Advance(x.tokid, (q - 1 - k) + (k + 1))
      BY <1>2, <2>16, AdvanceTwice
    <3> QED BY <2>15, <2>16, <3>1
  <2>18. CASE k + 1 < length
    BY <1>3, <2>2, <2>13, <2>16, <2>17, <2>18 DEF length
  <2>19. CASE ~(k + 1 < length)
    <3>1. k + 1 = length
      BY <2>13, <2>14, <2>19
    <3>2. q - 1 - k + length # size
      BY <1>2, <2>2, <2>16, <3>1
    <3> QED BY <2>2, <2>4, <2>15, <2>17, <3>1, <3>2
  <2> QED BY <2>18, <2>19
<1>5. \A q \in 0 .. size - 1 : Seen(Char(q))
  BY <1>4
<1>6. \A c \in Abstract!CharsOf(x) : \E q \in 0 .. size - 1 : c = Char(q)
  BY DEF Abstract!CharsOf, Advance
<1> QED BY <1>5, <1>6 DEF Seen

\* Reading a token does to the blocks what it does to the partition.
LEMMA ReadMaps ==
    ASSUME Consistent, EClassAssumption,
           NEW x \in Lexeme, NEW skipping \in BOOLEAN,
           Read(x, skipping), snap = Denoted, snap' = Denoted'
    PROVE  Abstract!ARead(x, skipping)
<1> DEFINE attrs == IF skipping THEN {} ELSE {project}
           ro == IF x.tokid[1] \in ReadOnly THEN {"is_readonly"} ELSE {}
           chars == Abstract!CharsOf(x)
           fresh == {[chars |-> {c}, attr |-> attrs \cup ro]
                        : c \in chars \ Abstract!Known}
           done == Covered(x.tokid, x.len)
<1>1. TypeOK /\ MapIsMembership
  BY DEF Consistent
<1>2. x.tokid \in Tokid /\ x.tokid[2] \in Nat /\ x.len \in Nat \ {0}
  BY DEF EClassAssumption, Tokid
<1>3. Abstract!Known = UNION {bl.chars : bl \in Denoted}
  BY DEF Abstract!Known
<1>4. project' = project
  BY DEF Read
<1>5. SUFFICES Denoted' = Abstract!Give(Denoted, chars, attrs) \cup fresh
  BY <1>4 DEF Abstract!ARead
<1>6. CASE done = x.len
  <2>1. x.tokid \in DOMAIN tm
    BY <1>2, <1>6, CoveredAllOrNothing
  <2>2. ec' = Marked(ClassesIn(x.tokid, x.len), attrs)
    BY <1>6 DEF Read
  <2>3. Denoted' = Abstract!Give(Denoted, chars, attrs)
    <3>1. \A e \in DOMAIN ec : \A k \in 0 .. ec[e].len - 1 :
             Block(e, k).chars \cap chars # {} <=> e \in ClassesIn(x.tokid, x.len)
      BY LexemeTouches
    <3> HIDE DEF attrs, chars
    <3> QED BY <2>2, <3>1, MarkedGives
  <2>4. fresh = {}
    BY <1>3, <2>1, LexemeKnown
  <2> QED BY <2>3, <2>4
<1>7. CASE done # x.len
  <2>1. /\ done = 0
        /\ \A t \in DOMAIN tm : t[1] = x.tokid[1] =>
              t[2] + RunLen(t) <= x.tokid[2] \/ x.tokid[2] + x.len <= t[2]
    BY <1>7, CoveredAllOrNothing
  <2>2. PICK new : new = Fresh /\ new \notin DOMAIN ec
    BY <1>7, FreshFacts DEF Read
  <2>3. Advance(x.tokid, 0) = x.tokid
    BY <1>2 DEF Advance, Tokid
  <2> DEFINE object == [len |-> x.len - 0, members |-> {x.tokid},
                        attr |-> Inherent({x.tokid}, skipping)]
             touched == Marked(ClassesIn(x.tokid, 0), attrs)
  <2>4. ec' = [e \in DOMAIN ec \cup {new} |->
                 IF e = new THEN object ELSE touched[e]]
    BY <1>7, <2>1, <2>2, <2>3 DEF Read
  <2>5. \A e \in DOMAIN ec : touched[e] = ec[e]
    <3>1. ClassesIn(x.tokid, 0) = {}
      BY DEF ClassesIn
    <3> QED BY <3>1 DEF Marked
  <2>6. /\ object.len = x.len /\ object.members = {x.tokid}
        /\ object.attr = attrs \cup ro
    <3>1. Inherent({x.tokid}, skipping) = attrs \cup ro
      BY DEF Inherent
    <3>2. x.len - 0 = x.len
      BY <1>2
    <3> HIDE DEF attrs, ro
    <3> QED BY <3>1, <3>2
  <2> HIDE DEF object, touched, attrs, ro
  <2>7. /\ DOMAIN ec' = DOMAIN ec \cup {new}
        /\ \A e \in DOMAIN ec : ec'[e] = ec[e]
        /\ ec'[new] = object
    BY <2>2, <2>4, <2>5
  <2>8. ASSUME NEW e \in DOMAIN ec, NEW k PROVE Block(e, k)' = Block(e, k)
    BY <2>7 DEF Block
  <2>9. ASSUME NEW k
        PROVE  Block(new, k)' = [chars |-> {Advance(x.tokid, k)}, attr |-> attrs \cup ro]
    <3>1. {Advance(t, k) : t \in {x.tokid}} = {Advance(x.tokid, k)}
      OBVIOUS
    <3> QED BY <2>6, <2>7, <3>1 DEF Block
  \* No block has a character of the lexeme yet.
  <2>10. ASSUME NEW e \in DOMAIN ec, NEW k \in 0 .. ec[e].len - 1
         PROVE  Block(e, k).chars \cap chars = {}
    <3> SUFFICES ASSUME Block(e, k).chars \cap chars # {} PROVE FALSE
      OBVIOUS
    <3>1. e \in ClassesIn(x.tokid, x.len)
      BY LexemeTouches
    <3>2. PICK j \in 0 .. x.len - 1 : Advance(x.tokid, j) \in DOMAIN tm
      BY <3>1 DEF ClassesIn
    <3> DEFINE t == Advance(x.tokid, j)
               from == x.tokid[2]
               size == x.len
               length == RunLen(t)
    <3>3. t[1] = x.tokid[1] /\ t[2] = from + j
      BY DEF Advance
    <3>4. length \in Nat \ {0} /\ from \in Nat /\ size \in Nat /\ j \in Nat /\ j < size
      BY <1>1, <1>2, <3>2, RunFacts
    <3>5. from + j + length <= from \/ from + size <= from + j
      BY <2>1, <3>2, <3>3
    <3> HIDE DEF from, size, length
    <3> QED BY <3>4, <3>5
  <2>11. chars \ Abstract!Known = chars
    <3>1. ASSUME NEW bl \in Denoted PROVE bl.chars \cap chars = {}
      BY <2>10, DenotedIs
    <3> QED BY <1>3, <3>1
  <2>12. Abstract!Give(Denoted, chars, attrs) = Denoted
    <3>1. ASSUME NEW bl \in Denoted PROVE bl.chars \cap chars = {}
      BY <2>10, DenotedIs
    <3> HIDE DEF chars
    <3> QED BY <3>1 DEF Abstract!Give
  <2>13. fresh = {[chars |-> {Advance(x.tokid, k)}, attr |-> attrs \cup ro]
                    : k \in 0 .. x.len - 1}
    <3>1. chars = {Advance(x.tokid, k) : k \in 0 .. x.len - 1}
      BY DEF Abstract!CharsOf, Advance
    <3> HIDE DEF chars
    <3> QED BY <2>11, <3>1
  <2> HIDE DEF fresh, chars
  <2>14. ASSUME NEW bl \in Denoted \cup fresh PROVE bl \in Denoted'
    <3>1. CASE bl \in Denoted
      <4>1. PICK e \in DOMAIN ec : \E k \in 0 .. ec[e].len - 1 : bl = Block(e, k)
        BY <3>1, DenotedIs
      <4>2. e \in DOMAIN ec' /\ \E k \in 0 .. ec'[e].len - 1 : bl = Block(e, k)'
        BY <2>7, <2>8, <4>1
      <4> QED BY <4>2, DenotedNextIs
    <3>2. CASE bl \in fresh
      <4>1. PICK k \in 0 .. x.len - 1 :
               bl = [chars |-> {Advance(x.tokid, k)}, attr |-> attrs \cup ro]
        BY <2>13, <3>2
      <4>2. new \in DOMAIN ec' /\ k \in 0 .. ec'[new].len - 1 /\ bl = Block(new, k)'
        BY <2>6, <2>7, <2>9, <4>1
      <4> QED BY <4>2, DenotedNextIs
    <3> QED BY <3>1, <3>2
  <2>15. ASSUME NEW bl \in Denoted' PROVE bl \in Denoted \cup fresh
    <3>1. PICK e \in DOMAIN ec' : \E k \in 0 .. ec'[e].len - 1 : bl = Block(e, k)'
      BY DenotedNextIs
    <3>2. PICK k \in 0 .. ec'[e].len - 1 : bl = Block(e, k)'
      BY <3>1
    <3>3. CASE e \in DOMAIN ec
      BY <2>7, <2>8, <3>2, <3>3, DenotedIs
    <3>4. CASE e = new
      BY <2>6, <2>7, <2>9, <2>13, <3>2, <3>4
    <3> QED BY <2>7, <3>3, <3>4
  <2> QED BY <2>12, <2>14, <2>15
<1> QED BY <1>6, <1>7

-----------------------------------------------------------------------------
(* The steps: each is a step of the partition or none, and Follows is an   *)
(* invariant.                                                              *)

\* Two tokens of the same name.
LEMMA PairFacts ==
    ASSUME EClassAssumption, NEW a, NEW b, <<a, b>> \in SameName
    PROVE  /\ a \in Token /\ b \in Token
           /\ a \in Seq(Tokid) /\ b \in Seq(Tokid)
BY DEF EClassAssumption

\* The classes alone say what is denoted.
LEMMA SameDenoted == ec' = ec => Denoted' = Denoted
BY DEF Denoted, BlocksOf, Block

\* While unify runs, what it was called with stays.
LEMMA SameCall ==
    ASSUME unify'.a = unify.a, unify'.b = unify.b,
           project' = project, snap' = snap
    PROVE  Both' = Both /\ Given' = Given
<1>1. Both' = Both
  BY DEF Both, Abstract!CharsIn
<1> QED BY <1>1 DEF Given, Abstract!Give

\* The iterators advance, nothing else of the call changes.
LEMMA ConsumeFacts ==
    ASSUME Consistent, NEW k \in Nat, Consume(k)
    PROVE  /\ unify'.pc = unify.pc /\ unify'.a = unify.a /\ unify'.b = unify.b
           /\ unify'.n = unify.n + k
BY DEF Consistent, TypeOK, Consume

\* Calling unify marks all the blocks of both tokens.
LEMMA BeginFollows ==
    ASSUME EClassAssumption, TokenAssumption, Consistent, Follows,
           NEW a \in Token, NEW b \in Token, <<a, b>> \in SameName,
           UnifyBegin(a, b), snap' = snap
    PROVE  Follows'
<1> DEFINE chars == Abstract!CharsIn(a) \cup Abstract!CharsIn(b)
           classes == Classes(a) \cup Classes(b)
<1>1. /\ unify'.pc = "homogenize" /\ unify'.a = a /\ unify'.b = b
      /\ project' = project /\ tm' = tm
      /\ ec' = Marked(classes, {project})
      /\ snap = Denoted
  BY DEF UnifyBegin, Follows
<1>2. Both' = chars
  BY <1>1 DEF Both, Abstract!CharsIn
<1>3. Both' \subseteq UNION {bl.chars : bl \in snap'}
  BY <1>1, <1>2, TokenKnown DEF UnifyBegin
<1>4. ASSUME NEW t \in DOMAIN tm' \cap Both' PROVE project' \in ec'[tm'[t]].attr
  <2>1. t \in DOMAIN tm /\ t \in chars
    BY <1>1, <1>2
  <2>2. tm[t] \in classes
    BY <2>1 DEF Classes, Abstract!CharsIn
  <2>3. tm[t] \in DOMAIN ec /\ ec[tm[t]] \in Eclass
    BY <2>1, RunFacts DEF Consistent
  <2> HIDE DEF classes
  <2>4. ec'[tm[t]].attr = ec[tm[t]].attr \cup {project}
    BY <1>1, <2>2, <2>3 DEF Marked, Eclass
  <2> QED BY <1>1, <2>4
<1>5. Denoted' = Given'
  <2>1. \A e \in DOMAIN ec : \A k \in 0 .. ec[e].len - 1 :
           Block(e, k).chars \cap chars # {} <=> e \in classes
    <3> SUFFICES ASSUME NEW e \in DOMAIN ec, NEW k \in 0 .. ec[e].len - 1
                 PROVE  Block(e, k).chars \cap chars # {} <=> e \in classes
      OBVIOUS
    <3>1. Block(e, k).chars \cap Abstract!CharsIn(a) # {} <=> e \in Classes(a)
      BY TokenTouches
    <3>2. Block(e, k).chars \cap Abstract!CharsIn(b) # {} <=> e \in Classes(b)
      BY TokenTouches
    <3> QED BY <3>1, <3>2
  <2> HIDE DEF chars, classes
  <2>2. Denoted' = Abstract!Give(Denoted, chars, {project})
    BY <1>1, <2>1, MarkedGives
  <2>3. Given' = Abstract!Give(snap', chars, {project})
    BY <1>1, <1>2 DEF Given, Abstract!Give
  <2> QED BY <1>1, <2>2, <2>3
<1>6. <<unify'.a, unify'.b>> \in SameName
  BY <1>1
<1> QED BY <1>1, <1>3, <1>4, <1>5, <1>6 DEF Follows

\* A split of a class on one of the tokens.
LEMMA SplitFollows ==
    ASSUME EClassAssumption, Consistent, Follows, snap' = snap,
           NEW long \in DOMAIN tm, NEW short \in DOMAIN tm, long \in Both,
           unify.pc = "homogenize", HomogenizeSplit(long, short)
    PROVE  Follows'
<1>1. TypeOK /\ MapIsMembership
  BY DEF Consistent
<1> DEFINE pos == RunLen(short)
<1>2. pos \in Nat \ {0} /\ pos < RunLen(long) /\ Split(tm[long], pos)
  BY <1>1, RunFacts DEF HomogenizeSplit
<1>3. /\ unify'.pc = "homogenize" /\ unify'.a = unify.a /\ unify'.b = unify.b
      /\ project' = project
  BY <1>2, ConsumeFacts DEF HomogenizeSplit
<1>4. Both' = Both /\ Given' = Given
  BY <1>3, SameCall
<1>5. PICK e \in DOMAIN ec : e = tm[long]
  BY <1>1, RunFacts
<1>6. project \in ec[e].attr
  BY <1>5 DEF Follows
<1> HIDE DEF pos
<1>7. Denoted' = Denoted
  BY <1>2, <1>5, SplitKeepsBlocks DEF RunLen
<1>8. Kept
  BY <1>2, SplitKept
<1>9. ASSUME NEW t \in DOMAIN tm' \cap Both' PROVE project' \in ec'[tm'[t]].attr
  <2>1. CASE t \in DOMAIN tm
    <3>1. project \in ec[tm[t]].attr
      BY <1>4, <1>9, <2>1 DEF Follows
    <3>2. ec[tm[t]].attr \subseteq ec'[tm'[t]].attr
      BY <1>8, <2>1 DEF Kept
    <3> QED BY <1>3, <3>1, <3>2
  <2>2. CASE t \notin DOMAIN tm
    <3>1. PICK new : new = Fresh /\ new \notin DOMAIN ec
      BY <1>2, FreshFacts DEF Split
    <3>2. t \in SecondParts(e, pos)
      BY <1>2, <1>5, <2>2 DEF Split, Mapped
    <3>3. tm'[t] = new
      BY <1>2, <1>5, <3>1, <3>2 DEF Split, Mapped
    <3>4. ec'[new].attr = ec[e].attr
      BY <1>2, <1>5, <3>1 DEF Split
    <3> QED BY <1>3, <1>6, <3>3, <3>4
  <2> QED BY <2>1, <2>2
<1>10. /\ <<unify'.a, unify'.b>> \in SameName
       /\ Both' \subseteq UNION {bl.chars : bl \in snap'}
       /\ Denoted' = Given'
  BY <1>3, <1>4, <1>7 DEF Follows
<1> QED BY <1>3, <1>9, <1>10 DEF Follows

\* A merge of corresponding classes.
LEMMA MergeFollows ==
    ASSUME EClassAssumption, TokenAssumption, Consistent, Follows,
           MergePair, snap' = snap
    PROVE  Follows'
<1>1. TypeOK /\ MapIsMembership
  BY DEF Consistent
<1>2. PICK a \in Token, b \in Token, n \in Nat :
        /\ a = unify.a /\ b = unify.b /\ n = unify.n
        /\ a \in Seq(Tokid) /\ b \in Seq(Tokid)
  BY <1>1 DEF Follows, MergePair, TypeOK, EClassAssumption
<1>3. PICK s \in DOMAIN tm, t \in DOMAIN tm :
        /\ s = a[n + 1] /\ t = b[n + 1]
        /\ n + 1 \in DOMAIN a /\ n + 1 \in DOMAIN b
        /\ RunLen(s) = RunLen(t) /\ Merge(tm[s], tm[t])
        /\ Consume(RunLen(s))
  BY SMTT(60), <1>2 DEF MergePair, MoreA, MoreB, NextA, NextB, ClassesFound
<1>4. PICK x \in DOMAIN ec, y \in DOMAIN ec :
        /\ x = tm[s] /\ y = tm[t] /\ s \in ec[x].members /\ t \in ec[y].members
        /\ s \in Tokid /\ t \in Tokid
  BY <1>1, RunFacts
<1> DEFINE size == ec[x].len
<1>5. /\ RunLen(s) = size /\ RunLen(t) = size /\ size \in Nat \ {0}
      /\ ec[x].len = ec[y].len /\ Merge(x, y)
  BY <1>1, <1>3, <1>4, RunFacts DEF RunLen
<1> HIDE DEF size
<1>6. /\ unify'.pc = "merge" /\ unify'.a = a /\ unify'.b = b
      /\ unify'.n = n + size /\ project' = project
  BY <1>2, <1>3, <1>5, ConsumeFacts DEF MergePair
<1>7. Both' = Both /\ Given' = Given
  BY <1>2, <1>6, SameCall
<1>8. s \in Both /\ t \in Both
  BY <1>2, <1>3 DEF Both, Abstract!CharsIn
<1>9. project \in ec[x].attr /\ project \in ec[y].attr
  BY <1>3, <1>4, <1>8 DEF Follows, MergePair
<1>10. /\ n + size <= Len(a)
       /\ \A m \in 0 .. size - 1 :
             /\ a[n + m + 1] = Advance(s, m)
             /\ b[n + m + 1] = Advance(t, m)
  <2>1. /\ (n + 1) + RunLen(s) - 1 <= Len(a)
        /\ \A m \in 0 .. RunLen(s) - 1 : a[(n + 1) + m] = Advance(s, m)
    BY SMTT(60), <1>3, RunFromHere
  <2>2. \A m \in 0 .. RunLen(t) - 1 : b[(n + 1) + m] = Advance(t, m)
    <3>1. PICK i \in DOMAIN b : i = n + 1
      BY <1>3
    <3>2. b[i] = t
      BY <1>3, <3>1
    <3>3. \A m \in 0 .. RunLen(t) - 1 : b[i + m] = Advance(t, m)
      BY SMTT(60), <3>2, RunFromHere
    <3> QED BY <3>1, <3>3
  <2>3. \A m \in 0 .. size - 1 : (n + 1) + m = n + m + 1
    BY <1>5
  <2>4. (n + 1) + size - 1 = n + size
    BY <1>5
  <2> QED BY <1>5, <2>1, <2>2, <2>3, <2>4
<1> DEFINE f == Abstract!Joined(Given, a, b)
<1>11. f[n] = Denoted
  BY <1>2 DEF Follows, MergePair
<1>12. ASSUME NEW m \in 0 .. size - 1
       PROVE  /\ f[n + m + 1] = Abstract!Join(f[n + m], a[n + m + 1], b[n + m + 1])
              /\ a[n + m + 1] \in Block(x, m).chars
              /\ b[n + m + 1] \in Block(y, m).chars
  <2>1. Len(a) \in Nat
    BY <1>2
  <2>2. n + m + 1 \in 1 .. Len(a) /\ (n + m + 1) - 1 = n + m
    BY <1>5, <1>10, <2>1
  <2>3. f[n + m + 1] = Abstract!Join(f[(n + m + 1) - 1], a[n + m + 1], b[n + m + 1])
    BY <2>1, <2>2, JoinedSteps
  <2>4. Advance(s, m) \in Block(x, m).chars /\ Advance(t, m) \in Block(y, m).chars
    BY <1>4 DEF Block
  <2> HIDE DEF f
  <2> QED BY <1>10, <2>2, <2>3, <2>4
<1>13. f[n + size] = Denoted'
  <2> HIDE DEF f
  <2>1. PICK g : g = f
    OBVIOUS
  <2>2. g[n] = Denoted /\ JoinsRuns(g, a, b, n, x, y)
    BY <1>11, <1>12, <2>1 DEF JoinsRuns, size
  <2>3. g[n + ec[x].len] = Denoted'
    BY <1>5, <1>9, <2>2, MergeJoins
  <2> QED BY <2>1, <2>3 DEF size
<1>14. Denoted' = Abstract!Joined(Given', unify'.a, unify'.b)[unify'.n]
  BY <1>6, <1>7, <1>13
<1>15. Kept
  BY <1>5, MergeKept
<1>16. DOMAIN tm' = DOMAIN tm
  <2>1. ec[x].members \subseteq DOMAIN tm /\ ec[y].members \subseteq DOMAIN tm
    BY <1>1 DEF MapIsMembership
  <2> QED BY <1>5, <2>1 DEF Merge, MergeInto, Mapped
<1>17. ASSUME NEW q \in DOMAIN tm' \cap Both' PROVE project' \in ec'[tm'[q]].attr
  <2>1. q \in DOMAIN tm /\ q \in Both
    BY <1>7, <1>16
  <2>2. project \in ec[tm[q]].attr
    BY <2>1 DEF Follows, MergePair
  <2>3. ec[tm[q]].attr \subseteq ec'[tm'[q]].attr
    BY <1>15, <2>1 DEF Kept
  <2> QED BY <1>6, <2>2, <2>3
<1>18. /\ <<unify'.a, unify'.b>> \in SameName
       /\ Both' \subseteq UNION {bl.chars : bl \in snap'}
       /\ unify'.n <= Len(unify'.a)
  BY <1>2, <1>6, <1>7, <1>10 DEF Follows, MergePair
<1> QED BY <1>6, <1>14, <1>17, <1>18 DEF Follows

\* The end of unify, where the joins become visible.
LEMMA EndMaps ==
    ASSUME EClassAssumption, Consistent, Follows, UnifyEnd, snap' = Denoted'
    PROVE  \E pair \in SameName : Abstract!AUnify(pair[1], pair[2])
<1>1. PICK a \in Token, b \in Token :
        /\ a = unify.a /\ b = unify.b /\ <<a, b>> \in SameName /\ Len(a) \in Nat
  <2>1. <<unify.a, unify.b>> \in SameName
    BY DEF Follows, UnifyEnd
  <2>2. /\ unify.a \in Token /\ unify.b \in Token
        /\ Len(unify.a) \in Nat
    BY <2>1, PairFacts
  <2> QED BY <2>1, <2>2
<1>2. unify.n = Len(a)
  <2>1. unify.n \in Nat /\ unify.n <= Len(a) /\ ~(unify.n < Len(a))
    BY <1>1 DEF Follows, UnifyEnd, MoreA, Consistent, TypeOK
  <2> QED BY <1>1, <2>1
<1>3. Denoted' = Denoted /\ project' = project
  BY SameDenoted DEF UnifyEnd
<1>4. Denoted = Abstract!Joined(Given, a, b)[Len(a)]
  BY <1>1, <1>2 DEF Follows, UnifyEnd
<1>5. Both = Abstract!CharsIn(a) \cup Abstract!CharsIn(b)
  BY <1>1 DEF Both
<1>6. Both \subseteq Abstract!Known
  BY DEF Follows, UnifyEnd, Abstract!Known
<1>7. Given = Abstract!Give(snap, Abstract!CharsIn(a) \cup Abstract!CharsIn(b), {project})
  BY <1>5 DEF Given
<1>8. Abstract!AUnify(a, b)
  BY <1>3, <1>4, <1>5, <1>6, <1>7 DEF Abstract!AUnify
<1>9. <<a, b>>[1] = a /\ <<a, b>>[2] = b
  OBVIOUS
<1> QED BY <1>1, <1>8, <1>9

\* When no unification is under way there is nothing to follow but snap.
LEMMA IdleFollows ==
    ASSUME unify'.pc = "idle", snap' = Denoted'
    PROVE  Follows'
BY DEF Follows

\* Every step of the program is a step of the partition or leaves it alone.
LEMMA StepMaps ==
    ASSUME EClassAssumption, TokenAssumption, Consistent, Follows, [PNext]_pvars
    PROVE  Follows' /\ [Abstract!ANext]_(Abstract!avars)
<1> DEFINE Stutters == snap' = snap /\ project' = project
           Maps == Abstract!ANext \/ Stutters
<1>1. Maps => [Abstract!ANext]_(Abstract!avars)
  BY DEF Abstract!avars
<1>2. SUFFICES Follows' /\ Maps
  BY <1>1
<1> HIDE DEF Maps
<1>4. TypeOK
  BY DEF Consistent
<1>5. Stutters => Maps
  BY DEF Maps
<1>6. CASE UNCHANGED pvars
  <2>1. tm' = tm /\ ec' = ec /\ project' = project /\ unify' = unify /\ snap' = snap
    BY <1>6 DEF pvars, vars
  <2>2. Both' = Both /\ Given' = Given /\ Denoted' = Denoted
    BY <2>1, SameCall, SameDenoted
  <2>3. Follows'
    BY <2>1, <2>2 DEF Follows
  <2> QED BY <1>5, <2>1, <2>3
<1>7. SUFFICES ASSUME PNext PROVE Follows' /\ Maps
  BY <1>6
<1> DEFINE Snaps == snap' = IF unify'.pc = "idle" THEN Denoted' ELSE snap
<1>8. Next /\ Snaps
  BY <1>7 DEF PNext
<1>9. ASSUME NEW p \in Project, SetProject(p) PROVE Follows' /\ Maps
  <2>1. unify'.pc = "idle" /\ snap' = Denoted'
    BY <1>8, <1>9 DEF SetProject
  <2>2. Denoted' = Denoted /\ snap = Denoted
    BY <1>9, SameDenoted DEF SetProject, Follows
  <2>3. Abstract!ASetProject(p)
    BY <1>9, <2>1, <2>2 DEF SetProject, Abstract!ASetProject
  <2> QED BY <2>1, <2>3, IdleFollows DEF Maps, Abstract!ANext
<1>10. ASSUME NEW x \in Lexeme, NEW skipping \in BOOLEAN, Read(x, skipping)
       PROVE  Follows' /\ Maps
  <2>1. unify'.pc = "idle" /\ snap' = Denoted' /\ snap = Denoted
    BY <1>8, <1>10 DEF Read, Follows
  <2>2. Abstract!ARead(x, skipping)
    BY <1>10, <2>1, ReadMaps
  <2> QED BY <2>1, <2>2, IdleFollows DEF Maps, Abstract!ANext
<1>11. ASSUME NEW tok \in Token, NEW attr \in Attribute, SetAttribute(tok, attr)
       PROVE  Follows' /\ Maps
  <2>1. /\ unify'.pc = "idle" /\ snap' = Denoted' /\ snap = Denoted
        /\ project' = project /\ HasClasses(tok)
        /\ ec' = Marked(Classes(tok), {attr})
    BY <1>8, <1>11 DEF SetAttribute, Follows
  <2>2. Denoted' = Abstract!Give(Denoted, Abstract!CharsIn(tok), {attr})
    <3>1. \A e \in DOMAIN ec : \A k \in 0 .. ec[e].len - 1 :
             Block(e, k).chars \cap Abstract!CharsIn(tok) # {}
                <=> e \in Classes(tok)
      BY TokenTouches
    <3> QED BY <2>1, <3>1, MarkedGives
  <2>3. Abstract!CharsIn(tok) \subseteq Abstract!Known
    BY <2>1, TokenKnown DEF Abstract!Known
  <2>4. Abstract!ASetAttribute(tok, attr)
    BY <2>1, <2>2, <2>3 DEF Abstract!ASetAttribute
  <2> QED BY <2>1, <2>4, IdleFollows DEF Maps, Abstract!ANext
<1>12. ASSUME NEW pair \in SameName, UnifyBegin(pair[1], pair[2])
       PROVE  Follows' /\ Maps
  <2>1. /\ pair[1] \in Token /\ pair[2] \in Token
        /\ <<pair[1], pair[2]>> \in SameName
    <3>1. pair \in Token \X Token
      BY DEF EClassAssumption
    <3>2. pair = <<pair[1], pair[2]>>
      BY <3>1
    <3> QED BY <3>1, <3>2
  <2>2. Stutters
    BY <1>8, <1>12 DEF UnifyBegin
  <2> QED BY <1>5, <1>12, <2>1, <2>2, BeginFollows
<1>13. CASE HomogenizeEqual
  <2>1. /\ unify.pc = "homogenize" /\ NextA \in DOMAIN tm
        /\ Consume(RunLen(NextA)) /\ tm' = tm /\ ec' = ec /\ project' = project
    BY <1>13 DEF HomogenizeEqual, ClassesFound
  <2>2. RunLen(NextA) \in Nat
    BY <2>1, RunFacts DEF Consistent
  <2>3. unify'.pc = "homogenize" /\ unify'.a = unify.a /\ unify'.b = unify.b
    BY <2>1, <2>2, ConsumeFacts
  <2>4. Stutters
    BY <1>8, <2>1, <2>3
  <2>5. Both' = Both /\ Given' = Given
    BY <2>3, <2>4, SameCall
  <2>6. Denoted' = Denoted
    BY <2>1, SameDenoted
  <2>7. Follows'
    BY <2>1, <2>3, <2>4, <2>5, <2>6 DEF Follows
  <2> QED BY <1>5, <2>4, <2>7
<1>14. ASSUME NEW long, NEW short,
              <<long, short>> \in {<<NextA, NextB>>, <<NextB, NextA>>},
              HomogenizeSplit(long, short)
       PROVE  Follows' /\ Maps
  <2>1. /\ long \in DOMAIN tm /\ short \in DOMAIN tm
        /\ unify.pc = "homogenize" /\ project' = project
        /\ Consume(RunLen(short))
    BY <1>14 DEF HomogenizeSplit, ClassesFound
  <2>2. RunLen(short) \in Nat
    BY <2>1, RunFacts DEF Consistent
  <2>3. Stutters
    BY <1>8, <2>1, <2>2, ConsumeFacts
  <2>4. long \in Both
    <3>1. /\ unify.a \in Seq(Tokid) /\ unify.b \in Seq(Tokid)
          /\ unify.n + 1 \in DOMAIN unify.a /\ unify.n + 1 \in DOMAIN unify.b
      <4>1. unify.a \in Token /\ unify.b \in Token
        BY <2>1 DEF Follows, EClassAssumption
      <4>2. unify.n \in Nat
        BY <1>4 DEF TypeOK
      <4> QED BY <1>14, <4>1, <4>2 DEF HomogenizeSplit, MoreA, MoreB, EClassAssumption
    <3> QED BY <1>14, <3>1 DEF NextA, NextB, Both, Abstract!CharsIn
  <2> QED BY <1>5, <1>14, <2>1, <2>3, <2>4, SplitFollows
<1>15. CASE HomogenizeEnd
  <2>1. /\ unify.pc = "homogenize" /\ unify' = [unify EXCEPT !.pc = "merge", !.n = 0]
        /\ tm' = tm /\ ec' = ec /\ project' = project
    BY <1>15 DEF HomogenizeEnd
  <2>2. /\ unify'.pc = "merge" /\ unify'.a = unify.a /\ unify'.b = unify.b
        /\ unify'.n = 0
    BY <1>4, <2>1 DEF TypeOK
  <2>3. Stutters
    BY <1>8, <2>1, <2>2
  <2>4. Both' = Both /\ Given' = Given
    BY <2>2, <2>3, SameCall
  <2>5. Denoted' = Denoted
    BY <2>1, SameDenoted
  <2>6. Len(unify.a) \in Nat
    BY <2>1 DEF Follows, EClassAssumption
  <2>7. Denoted' = Abstract!Joined(Given', unify'.a, unify'.b)[unify'.n]
    <3>1. Abstract!Joined(Given, unify.a, unify.b)[0] = Given
      BY <2>6, JoinedSteps
    <3>2. Denoted = Given
      BY <2>1 DEF Follows
    <3> QED BY <2>2, <2>4, <2>5, <3>1, <3>2
  <2>8. Follows'
    BY <2>1, <2>2, <2>3, <2>4, <2>6, <2>7 DEF Follows
  <2> QED BY <1>5, <2>3, <2>8
<1>16. CASE MergePair
  <2>1. /\ unify.pc = "merge" /\ project' = project
        /\ NextA \in DOMAIN tm /\ Consume(RunLen(NextA))
    BY <1>16 DEF MergePair, ClassesFound
  <2>2. RunLen(NextA) \in Nat
    BY <2>1, RunFacts DEF Consistent
  <2>3. Stutters
    BY <1>8, <2>1, <2>2, ConsumeFacts
  <2> QED BY <1>5, <1>16, <2>3, MergeFollows
<1>17. CASE MergeMismatch
  <2>1. unify'.pc = "failed"
    BY <1>4, <1>17 DEF MergeMismatch, TypeOK
  <2>2. Stutters
    BY <1>8, <1>17, <2>1 DEF MergeMismatch
  <2>3. Follows'
    BY <2>1 DEF Follows
  <2> QED BY <1>5, <2>2, <2>3
<1>18. CASE UnifyEnd
  <2>1. unify'.pc = "idle" /\ snap' = Denoted'
    BY <1>8, <1>18 DEF UnifyEnd, Idle
  <2>2. \E pair \in SameName : Abstract!AUnify(pair[1], pair[2])
    BY <1>18, <2>1, EndMaps
  <2> QED BY <2>1, <2>2, IdleFollows DEF Maps, Abstract!ANext
<1> HIDE DEF Snaps, Stutters
<1>19. CASE HomogenizeStep
  BY <1>13, <1>14, <1>15, <1>19 DEF HomogenizeStep
<1>20. CASE UnifyStep
  BY <1>16, <1>17, <1>18, <1>19, <1>20 DEF UnifyStep
<1> QED BY <1>8, <1>9, <1>10, <1>11, <1>12, <1>20 DEF Next

\* At the start there are no characters.
LEMMA StartMaps == PInit => Consistent /\ Follows /\ Abstract!AInit
<1> SUFFICES ASSUME PInit PROVE Consistent /\ Follows /\ Abstract!AInit
  OBVIOUS
<1>1. Consistent
  BY InitConsistent DEF PInit
<1>2. DOMAIN ec = {} /\ snap = {} /\ unify.pc = "idle" /\ project \in Project
  BY DEF PInit, Init, Idle
<1>3. Denoted = {}
  BY <1>2 DEF Denoted
<1> QED BY <1>1, <1>2, <1>3 DEF Follows, Abstract!AInit

\* The invariant of the refinement: what the classes denote in the midst of
\* a unification.
THEOREM ClassesFollow == PSpec => [](Consistent /\ Follows)
<1>1. Consistent /\ Follows /\ [PNext]_pvars => (Consistent /\ Follows)'
  <2>1. [PNext]_pvars => [Next]_vars
    BY DEF PNext, pvars
  <2> QED BY <2>1, NextConsistent, StepMaps, EClassAssumption, TokenAssumption
<1> QED BY <1>1, StartMaps, PTL DEF PSpec

\* The classes are exactly the partition of the characters that the unified
\* tokens induce, attributes included.
THEOREM ClassesArePartition == PSpec => ImplementsCharPartition
<1>1. Consistent /\ Follows /\ [PNext]_pvars => [Abstract!ANext]_(Abstract!avars)
  BY StepMaps, EClassAssumption, TokenAssumption
<1> QED BY <1>1, StartMaps, ClassesFollow, PTL
        DEF PSpec, ImplementsCharPartition, Abstract!ASpec

=============================================================================

------------------------- MODULE MacroExpandProofs -------------------------
(***************************************************************************)
(* Type correctness of MacroExpand, that what a macro produced hides it,   *)
(* and that no macro calls itself, for every macro table, text and pasting *)
(* of tokens.                                                              *)
(***************************************************************************)
EXTENDS MacroExpand, SequenceTheorems, WellFoundedInduction, TLAPS

-----------------------------------------------------------------------------
(* The inductive invariant                                                 *)

\* Tokens that hide their producer, or that one of M produced
OwnedBy(M) == {t \in Token : t.by # NoMacro => t.by \in t.hs \cup M}
Hidden == OwnedBy({})

Bindings == UNION {[E -> Seq(Hidden)] : E \in SUBSET Value}

\* While subst replaces m its output may hold strings that m produced and that
\* do not hide m yet, as the hide set is added at the end; it holds m.
SubOf(m) ==
    [on : {TRUE}, m : {m}, args : Bindings,
     hs : {hs \in SUBSET Value : m \in hs},
     is : Seq(Value), os : Seq(OwnedBy({m})), known : Bindings]

Activations(D) ==
    [ts : Seq(Hidden), r : Seq(Hidden),
     sub : {NoSub} \cup UNION {SubOf(m) : m \in D}]

GoodStack(D, s) ==
    /\ s \in Seq(Activations(D))
    /\ \A k \in 1 .. Len(s) - 1 : Waits(s[k].sub)

Tables ==
    /\ DOMAIN macros \subseteq Value
    /\ macros \in [DOMAIN macros -> Definition]

IInv ==
    /\ Tables
    /\ text \in Seq(Hidden) /\ out \in Seq(Hidden)
    /\ GoodStack(DOMAIN macros, stack)
    /\ calls \subseteq Value \X Value
    /\ error \in BOOLEAN

-----------------------------------------------------------------------------
(* Tokens and sequences of tokens                                          *)

LEMMA PlainIsHidden ==
    ASSUME NEW v \in Value
    PROVE  Plain(v) \in Hidden
  BY DEF Plain, Hidden, OwnedBy, Token

LEMMA PlainSeqIsHidden ==
    ASSUME NEW s \in Seq(Value)
    PROVE  PlainSeq(s) \in Seq(Hidden)
  <1>1. Len(s) \in Nat /\ DOMAIN s = 1 .. Len(s)
    BY LenProperties
  <1>2. \A i \in 1 .. Len(s) : Plain(s[i]) \in Hidden
    BY ElementOfSeq, PlainIsHidden
  <1>3. PlainSeq(s) \in [1 .. Len(s) -> Hidden]
    BY <1>1, <1>2 DEF PlainSeq
  <1> QED
    BY <1>1, <1>3, SeqDef

LEMMA HiddenIsOwned ==
    ASSUME NEW M, NEW s \in Seq(Hidden)
    PROVE  s \in Seq(OwnedBy(M))
  <1>1. Hidden \subseteq OwnedBy(M)
    BY DEF Hidden, OwnedBy
  <1> QED
    BY <1>1, SeqMonotonic

LEMMA HiddenHides ==
    ASSUME NEW s \in Seq(Hidden)
    PROVE  s \in Seq(Token) /\ Hides(s)
  <1>1. Hidden \subseteq Token
    BY DEF Hidden, OwnedBy
  <1>2. \A i \in 1 .. Len(s) : s[i] \in Hidden
    BY ElementOfSeq
  <1>3. DOMAIN s = 1 .. Len(s)
    BY LenProperties
  <1> QED
    BY <1>1, <1>2, <1>3, SeqMonotonic DEF Hides, Hidden, OwnedBy

LEMMA OwnedIsToken ==
    ASSUME NEW M, NEW s \in Seq(OwnedBy(M))
    PROVE  s \in Seq(Token)
  <1>1. OwnedBy(M) \subseteq Token
    BY DEF OwnedBy
  <1> QED
    BY <1>1, SeqMonotonic

\* A part of a sequence, from its start or later to its end or earlier
LEMMA PartOfSeq ==
    ASSUME NEW S, NEW s \in Seq(S), NEW m \in Nat, m # 0,
           NEW n \in Int, n <= Len(s)
    PROVE  SubSeq(s, m, n) \in Seq(S)
  <1>1. Len(s) \in Nat
    BY LenProperties
  <1>2. \A i \in m .. n : s[i] \in S
    BY <1>1, ElementOfSeq
  <1> QED
    BY <1>2, SubSeqProperties

LEMMA OneOfSeq ==
    ASSUME NEW S, NEW x \in S
    PROVE  <<x>> \in Seq(S)
  OBVIOUS

LEMMA AppendToSeq ==
    ASSUME NEW S, NEW s \in Seq(S), NEW x \in S
    PROVE  Append(s, x) \in Seq(S)
  OBVIOUS

LEMMA GlueOwned ==
    ASSUME NEW M, NEW ls \in Seq(OwnedBy(M)), NEW rs \in Seq(OwnedBy(M)),
           rs # <<>>
    PROVE  Glue(ls, rs) \in Seq(OwnedBy(M))
  <1> DEFINE l == ls[Len(ls)]
             vs == Pasted(l.v, Head(rs).v)
  <1>1. CASE ls = <<>>
    BY <1>1 DEF Glue
  <1>2. CASE ls # <<>>
    <2>1. Len(ls) \in Nat \ {0}
      BY <1>2, EmptySeq
    <2>2. l \in OwnedBy(M) /\ Head(rs) \in OwnedBy(M) /\ Tail(rs) \in Seq(OwnedBy(M))
      BY <2>1, ElementOfSeq, HeadTailProperties
    <2>3. vs \in Seq(Value)
      BY <2>2, MacroExpandAssumption DEF OwnedBy, Token
    <2>4. PlainSeq(vs) \in Seq(OwnedBy(M))
      BY <2>3, PlainSeqIsHidden, HiddenIsOwned
    <2>5. SubSeq(ls, 1, Len(ls) - 1) \in Seq(OwnedBy(M))
      BY <2>1, PartOfSeq
    <2>6. SubSeq(ls, 1, Len(ls) - 1) \o PlainSeq(vs) \in Seq(OwnedBy(M))
      BY <2>4, <2>5, ConcatProperties
    <2>7. SubSeq(ls, 1, Len(ls) - 1) \o PlainSeq(vs) \o Tail(rs) \in Seq(OwnedBy(M))
      BY <2>2, <2>6, ConcatProperties
    <2> QED
      BY <1>2, <2>7 DEF Glue
  <1> QED
    BY <1>1, <1>2

-----------------------------------------------------------------------------
(* The activations                                                         *)

LEMMA TopIsActivation ==
    ASSUME NEW D, GoodStack(D, stack), stack # <<>>
    PROVE  /\ Len(stack) \in Nat \ {0}
           /\ Top \in Activations(D)
           /\ Top.sub.on => Top.sub \in UNION {SubOf(m) : m \in D}
  <1>1. stack \in Seq(Activations(D))
    BY DEF GoodStack
  <1>2. Len(stack) \in Nat \ {0}
    BY <1>1, EmptySeq
  <1>3. Top \in Activations(D)
    BY <1>1, <1>2, ElementOfSeq DEF Top
  <1> QED
    BY <1>2, <1>3 DEF Activations, NoSub

LEMMA RetopKeepsStack ==
    ASSUME NEW D, GoodStack(D, stack), stack # <<>>,
           NEW a \in Activations(D), Retop(a)
    PROVE  GoodStack(D, stack')
  <1>1. stack \in Seq(Activations(D)) /\ Len(stack) \in Nat \ {0}
    BY TopIsActivation DEF GoodStack
  <1>2. /\ stack' \in Seq(Activations(D))
        /\ Len(stack') = Len(stack)
        /\ \A k \in 1 .. Len(stack) - 1 : stack'[k] = stack[k]
    BY <1>1, ExceptSeq DEF Retop
  <1> QED
    BY <1>1, <1>2 DEF GoodStack

\* The first token of the activation that runs, and what follows it
LEMMA FirstAndRest ==
    ASSUME IInv, Expanding, Top.ts # <<>>
    PROVE  /\ stack # <<>>
           /\ Top \in Activations(DOMAIN macros)
           /\ First \in Hidden
           /\ Rest \in Seq(Hidden)
           /\ Following \in Seq(Hidden)
  <1>1. stack # <<>>
    BY DEF Expanding
  <1>2. Top \in Activations(DOMAIN macros)
    BY <1>1, TopIsActivation DEF IInv
  <1>3. Top.ts \in Seq(Hidden)
    BY <1>2 DEF Activations
  <1>4. First \in Hidden /\ Rest \in Seq(Hidden)
    BY <1>3, HeadTailProperties DEF First, Rest
  <1>5. Rest \o text \in Seq(Hidden)
    BY <1>4, ConcatProperties DEF IInv
  <1> QED
    BY <1>1, <1>2, <1>4, <1>5 DEF Following

\* The activation of subst that runs
LEMMA SubFacts ==
    ASSUME IInv, Substituting
    PROVE  /\ stack # <<>>
           /\ Top \in Activations(DOMAIN macros)
           /\ Top.sub.m \in DOMAIN macros
           /\ Top.sub \in SubOf(Top.sub.m)
           /\ Top.sub.is \in Seq(Value)
           /\ Top.sub.os \in Seq(OwnedBy({Top.sub.m}))
           /\ \A v : IsFormal(v) => v \in Value /\ Arg(v) \in Seq(Hidden)
           /\ \A v \in DOMAIN Top.sub.known : Top.sub.known[v] \in Seq(Hidden)
  <1>1. stack # <<>> /\ Top.sub.on
    BY DEF Substituting
  <1>2. /\ Top \in Activations(DOMAIN macros)
        /\ Top.sub \in UNION {SubOf(m) : m \in DOMAIN macros}
    BY <1>1, TopIsActivation DEF IInv
  <1>3. PICK m \in DOMAIN macros : Top.sub \in SubOf(m)
    BY <1>2
  <1>4. Top.sub.m = m
    BY <1>3 DEF SubOf
  <1>5. /\ Top.sub.is \in Seq(Value)
        /\ Top.sub.os \in Seq(OwnedBy({m}))
        /\ Top.sub.args \in Bindings
        /\ Top.sub.known \in Bindings
    BY <1>3 DEF SubOf
  <1>6. \A v : IsFormal(v) => v \in Value /\ Arg(v) \in Seq(Hidden)
    BY <1>5 DEF IsFormal, Arg, Bindings
  <1>7. \A v \in DOMAIN Top.sub.known : Top.sub.known[v] \in Seq(Hidden)
    BY <1>5 DEF Bindings
  <1> QED
    BY <1>1, <1>2, <1>3, <1>4, <1>5, <1>6, <1>7

\* An iteration of subst that leaves is and has made os keeps the invariant.
LEMMA SubNextKeeps ==
    ASSUME IInv, Substituting,
           NEW is \in Seq(Value), NEW os \in Seq(OwnedBy({Top.sub.m})),
           SubNext(is, os), UNCHANGED <<macros, text, out, calls, error>>
    PROVE  IInv'
  <1> DEFINE sub == [Top.sub EXCEPT !.is = is, !.os = os]
             a == [Top EXCEPT !.sub.is = is, !.sub.os = os]
  <1>1. /\ stack # <<>> /\ Top \in Activations(DOMAIN macros)
        /\ Top.sub.m \in DOMAIN macros /\ Top.sub \in SubOf(Top.sub.m)
    BY SubFacts
  <1>2. sub \in SubOf(Top.sub.m)
    BY <1>1 DEF SubOf
  <1>3. a = [Top EXCEPT !.sub = sub]
    BY <1>1 DEF Activations, SubOf
  <1>4. a \in Activations(DOMAIN macros)
    BY <1>1, <1>2, <1>3 DEF Activations
  <1>5. Retop(a)
    BY DEF SubNext
  <1>6. GoodStack(DOMAIN macros, stack')
    BY <1>1, <1>4, <1>5, RetopKeepsStack DEF IInv
  <1> QED
    BY <1>6 DEF IInv, Tables

-----------------------------------------------------------------------------
(* macro_expand                                                            *)

LEMMA InitEstablishes == Init => IInv
  <1> SUFFICES ASSUME Init PROVE IInv
    OBVIOUS
  <1>1. PICK p \in Programs : macros = p.macros /\ text = PlainSeq(p.text)
    BY DEF Init
  <1>2. Tables /\ p.text \in Seq(Value)
    BY <1>1, MacroExpandAssumption DEF Tables
  <1>3. text \in Seq(Hidden)
    BY <1>1, <1>2, PlainSeqIsHidden
  <1>4. GoodStack(DOMAIN macros, <<>>)
    BY EmptySeq DEF GoodStack
  <1> QED
    BY <1>2, <1>3, <1>4, EmptySeq DEF Init, IInv

LEMMA GetNextKeeps == IInv /\ GetNext => IInv'
  <1> SUFFICES ASSUME IInv, GetNext PROVE IInv'
    OBVIOUS
  <1>1. Head(text) \in Hidden /\ text' \in Seq(Hidden)
    BY HeadTailProperties DEF IInv, GetNext
  <1>2. CASE IsName(Head(text).v)
    <2> DEFINE a == [ts |-> <<Head(text)>>, r |-> <<>>, sub |-> NoSub]
    <2>1. a \in Activations(DOMAIN macros)
      BY <1>1, OneOfSeq, EmptySeq DEF Activations
    <2>2. stack' = <<a>>
      BY <1>2 DEF GetNext
    <2>3. GoodStack(DOMAIN macros, stack')
      BY <2>1, <2>2, OneOfSeq DEF GoodStack
    <2> QED
      BY <1>1, <1>2, <2>3 DEF IInv, GetNext, Tables
  <1>3. CASE ~IsName(Head(text).v)
    <2>1. out' \in Seq(Hidden)
      BY <1>1, <1>3, AppendToSeq DEF GetNext, IInv
    <2> QED
      BY <1>1, <1>3, <2>1 DEF IInv, GetNext, Tables
  <1> QED
    BY <1>2, <1>3

LEMMA KeepKeeps == IInv /\ Keep => IInv'
  <1> SUFFICES ASSUME IInv, Keep PROVE IInv'
    OBVIOUS
  <1> DEFINE a == [Top EXCEPT !.ts = Rest, !.r = Append(@, First)]
  <1>1. /\ stack # <<>> /\ Top \in Activations(DOMAIN macros)
        /\ First \in Hidden /\ Rest \in Seq(Hidden)
    BY FirstAndRest DEF Keep
  <1>2. Append(Top.r, First) \in Seq(Hidden)
    BY <1>1, AppendToSeq DEF Activations
  <1>3. a \in Activations(DOMAIN macros)
    BY <1>1, <1>2 DEF Activations
  <1>4. GoodStack(DOMAIN macros, stack')
    BY <1>1, <1>3, RetopKeepsStack DEF IInv, Keep
  <1> QED
    BY <1>4 DEF IInv, Keep, Tables

LEMMA NothingIsBound == << >> \in Bindings
  <1>1. << >> \in Seq(Hidden) /\ Len(<< >>) = 0
    BY EmptySeq
  <1>2. << >> \in [1 .. 0 -> Seq(Hidden)]
    OBVIOUS
  <1>3. 1 .. 0 = {}
    OBVIOUS
  <1> QED
    BY <1>2, <1>3 DEF Bindings

\* The activation of subst for m
LEMMA SubIsSub ==
    ASSUME Tables, NEW m \in DOMAIN macros, NEW args \in Bindings,
           NEW hs \in SUBSET Value, m \in hs
    PROVE  Sub(m, args, hs) \in UNION {SubOf(n) : n \in DOMAIN macros}
  <1>1. macros[m].body \in Seq(Value)
    BY DEF Tables, Definition
  <1>2. << >> \in Bindings
    BY NothingIsBound
  <1>3. Sub(m, args, hs) \in SubOf(m)
    BY <1>1, <1>2, EmptySeq DEF Sub, SubOf
  <1> QED
    BY <1>3

LEMMA ExpandObjectKeeps == IInv /\ ExpandObject => IInv'
  <1> SUFFICES ASSUME IInv, ExpandObject PROVE IInv'
    OBVIOUS
  <1> DEFINE s == Sub(First.v, << >>, First.hs \cup {First.v})
             a == [Top EXCEPT !.ts = Rest, !.sub = s]
  <1>1. /\ stack # <<>> /\ Top \in Activations(DOMAIN macros)
        /\ First \in Hidden /\ Rest \in Seq(Hidden)
    BY FirstAndRest DEF ExpandObject
  <1>2. First.v \in DOMAIN macros /\ First.v \in Value /\ First.hs \subseteq Value
    BY <1>1 DEF ExpandObject, Replaceable, IsMacro, Hidden, OwnedBy, Token
  <1>3. << >> \in Bindings
    BY NothingIsBound
  <1>4. s \in UNION {SubOf(n) : n \in DOMAIN macros}
    BY <1>2, <1>3, SubIsSub DEF IInv
  <1>5. a \in Activations(DOMAIN macros)
    BY <1>1, <1>4 DEF Activations
  <1>6. GoodStack(DOMAIN macros, stack')
    BY <1>1, <1>5, RetopKeepsStack DEF IInv, ExpandObject
  <1> QED
    BY <1>6 DEF IInv, ExpandObject, Tables

LEMMA ExpandNameKeeps == IInv /\ ExpandName => IInv'
  <1> SUFFICES ASSUME IInv, ExpandName PROVE IInv'
    OBVIOUS
  <1> DEFINE read == IF Rest = <<>> /\ Following # <<>> THEN 1 ELSE 0
             ts == Rest \o SubSeq(text, 1, read)
             a == [Top EXCEPT !.ts = ts, !.r = Append(@, First)]
  <1>1. /\ stack # <<>> /\ Top \in Activations(DOMAIN macros)
        /\ First \in Hidden /\ Rest \in Seq(Hidden)
    BY FirstAndRest DEF ExpandName
  <1>2. Len(text) \in Nat /\ (Rest = <<>> /\ Following # <<>> => Len(text) # 0)
    <2>1. Len(text) \in Nat
      BY LenProperties DEF IInv
    <2>2. ASSUME Rest = <<>>, Following # <<>> PROVE text # <<>>
      BY <2>2, EmptySeq, ConcatEmptySeq DEF Following
    <2> QED
      BY <2>1, <2>2, EmptySeq DEF IInv
  <1>3. SubSeq(text, 1, read) \in Seq(Hidden)
    BY <1>2, PartOfSeq DEF IInv
  <1>4. ts \in Seq(Hidden)
    BY <1>1, <1>3, ConcatProperties
  <1>5. Append(Top.r, First) \in Seq(Hidden)
    BY <1>1, AppendToSeq DEF Activations
  <1>6. a \in Activations(DOMAIN macros)
    BY <1>1, <1>4, <1>5 DEF Activations
  <1>7. Retop(a) /\ text' = SubSeq(text, read + 1, Len(text))
    BY DEF ExpandName
  <1>8. GoodStack(DOMAIN macros, stack')
    BY <1>1, <1>6, <1>7, RetopKeepsStack DEF IInv
  <1>9. text' \in Seq(Hidden)
    BY <1>2, <1>7, PartOfSeq DEF IInv
  <1> QED
    BY <1>8, <1>9 DEF IInv, ExpandName, Tables

LEMMA ExpandEndKeeps == IInv /\ ExpandEnd => IInv'
  <1> SUFFICES ASSUME IInv, ExpandEnd PROVE IInv'
    OBVIOUS
  <1>1. Top \in Activations(DOMAIN macros)
    BY TopIsActivation DEF IInv, ExpandEnd, Expanding
  <1>2. out' \in Seq(Hidden)
    BY <1>1, ConcatProperties DEF ExpandEnd, IInv, Activations
  <1>3. GoodStack(DOMAIN macros, <<>>)
    BY EmptySeq DEF GoodStack
  <1> QED
    BY <1>2, <1>3 DEF IInv, ExpandEnd, Tables

-----------------------------------------------------------------------------
(* Calls of function-like macros                                           *)

\* What gather_args is called with
Calling(d, ends) ==
    /\ Expanding /\ Top.ts # <<>> /\ Replaceable(First)
    /\ d = macros[First.v]
    /\ ends \in [DOMAIN d.formals -> 0 .. Len(Following)]

LEMMA FormalFacts ==
    ASSUME IInv, NEW d, NEW ends, Calling(d, ends)
    PROVE  /\ Len(d.formals) \in Nat /\ DOMAIN d.formals = 1 .. Len(d.formals)
           /\ \A i \in DOMAIN d.formals : d.formals[i] \in Value
           /\ Len(Following) \in Nat
           /\ \A i \in DOMAIN d.formals :
                 /\ ends[i] \in 0 .. Len(Following)
                 /\ Before(ends, i) \in Nat
  <1>1. First.v \in DOMAIN macros
    BY DEF Calling, Replaceable, IsMacro
  <1>2. d.formals \in Seq(Value)
    BY <1>1 DEF Calling, IInv, Tables, Definition
  <1>3. Len(d.formals) \in Nat /\ DOMAIN d.formals = 1 .. Len(d.formals)
    BY <1>2, LenProperties
  <1>4. Len(Following) \in Nat
    BY FirstAndRest, LenProperties DEF Calling
  <1>5. \A i \in DOMAIN d.formals : ends[i] \in 0 .. Len(Following)
    BY DEF Calling
  <1>6. \A i \in DOMAIN d.formals : i # 1 => i - 1 \in DOMAIN d.formals
    BY <1>3
  <1>7. \A i \in DOMAIN d.formals : Before(ends, i) \in Nat
    BY <1>4, <1>5, <1>6 DEF Before
  <1> QED
    BY <1>2, <1>3, <1>4, <1>5, <1>7, ElementOfSeq

LEMMA ArgumentsAreBindings ==
    ASSUME IInv, NEW d, NEW ends, Calling(d, ends)
    PROVE  Arguments(d, ends) \in Bindings
  <1> DEFINE formals == {d.formals[i] : i \in DOMAIN d.formals}
             index(x) == CHOOSE i \in DOMAIN d.formals : d.formals[i] = x
             arg(x) == SubSeq(Following, Before(ends, index(x)) + 1, ends[index(x)] - 1)
  <1>1. formals \subseteq Value
    BY FormalFacts
  <1>2. ASSUME NEW x \in formals PROVE arg(x) \in Seq(Hidden)
    <2>1. index(x) \in DOMAIN d.formals
      OBVIOUS
    <2>2. /\ Before(ends, index(x)) \in Nat
          /\ ends[index(x)] \in 0 .. Len(Following)
          /\ Len(Following) \in Nat
      BY <2>1, FormalFacts
    <2>3. Following \in Seq(Hidden)
      BY FirstAndRest DEF Calling
    <2> HIDE DEF index
    <2> QED
      BY <2>2, <2>3, PartOfSeq
  <1>3. Arguments(d, ends) = [x \in formals |-> arg(x)]
    BY DEF Arguments
  <1> HIDE DEF formals, arg
  <1>4. Arguments(d, ends) \in [formals -> Seq(Hidden)]
    BY <1>2, <1>3
  <1> QED
    BY <1>1, <1>4 DEF Bindings

LEMMA TakenIsNat ==
    ASSUME IInv, NEW d, NEW ends, Calling(d, ends)
    PROVE  Taken(d, ends) \in Nat
  <1>1. CASE d.formals = <<>>
    BY <1>1 DEF Taken
  <1>2. CASE d.formals # <<>>
    <2>1. d.formals \in Seq(Value)
      BY DEF Calling, Replaceable, IsMacro, IInv, Tables, Definition
    <2>2. Len(d.formals) \in DOMAIN d.formals
      BY <1>2, <2>1, EmptySeq, FormalFacts
    <2>3. Last(d, ends) \in Nat /\ Len(Following) \in Nat
      BY <2>2, FormalFacts DEF Last
    <2> QED
      BY <1>2, <2>3 DEF Taken
  <1> QED
    BY <1>1, <1>2

LEMMA LeftOver ==
    ASSUME IInv, Expanding, Top.ts # <<>>, NEW k \in Nat
    PROVE  Drop(k) \in Seq(Hidden) /\ TextAfter(k) \in Seq(Hidden)
  <1>1. Rest \in Seq(Hidden) /\ text \in Seq(Hidden)
    BY FirstAndRest DEF IInv
  <1>2. Len(Rest) \in Nat /\ Len(text) \in Nat
    BY <1>1, LenProperties
  <1>3. Drop(k) \in Seq(Hidden)
    BY <1>1, <1>2, PartOfSeq DEF Drop
  <1>4. k > Len(Rest) => SubSeq(text, k - Len(Rest) + 1, Len(text)) \in Seq(Hidden)
    BY <1>1, <1>2, PartOfSeq
  <1> QED
    BY <1>1, <1>3, <1>4 DEF TextAfter

LEMMA RegisterKeepsType ==
    ASSUME IInv, NEW d, NEW ends, Calling(d, ends),
           Register(First.v, {First.by} \cup ArgProducers(d, ends))
    PROVE  calls' \subseteq Value \X Value
  <1>1. First \in Hidden /\ Rest \in Seq(Hidden)
    BY FirstAndRest DEF Calling
  <1>2. First.v \in Value /\ First.by \in Value \cup {NoMacro}
    BY <1>1 DEF Hidden, OwnedBy, Token
  <1>3. DOMAIN Rest = 1 .. Len(Rest)
    BY <1>1, LenProperties
  <1>4. \A i \in DOMAIN Rest : Rest[i].by \in Value \cup {NoMacro}
    BY <1>1, <1>3, ElementOfSeq DEF Hidden, OwnedBy, Token
  <1>5. ArgProducers(d, ends) \subseteq Value \cup {NoMacro}
    BY <1>4 DEF ArgProducers
  <1>6. \A p \in ({First.by} \cup ArgProducers(d, ends)) \ {NoMacro} :
            <<p, First.v>> \in Value \X Value
    BY <1>2, <1>5
  <1> QED
    BY <1>6 DEF Register, IInv

LEMMA ExpandFunctionKeeps == IInv /\ ExpandFunction => IInv'
  <1> SUFFICES ASSUME IInv, ExpandFunction PROVE IInv'
    OBVIOUS
  <1> DEFINE d == macros[First.v]
  <1>1. PICK ends \in [DOMAIN d.formals -> 0 .. Len(Following)] :
            /\ Register(First.v, {First.by} \cup ArgProducers(d, ends))
            /\ text' = TextAfter(Taken(d, ends))
            /\ IF Gathers(d, ends)
               THEN /\ Retop([Top EXCEPT !.ts = Drop(Taken(d, ends)),
                         !.sub = Sub(First.v, Arguments(d, ends),
                                     (First.hs \cap CloseHides(d, ends)) \cup {First.v})])
                    /\ UNCHANGED error
               ELSE /\ Retop([Top EXCEPT !.ts = Drop(Taken(d, ends))])
                    /\ error' = TRUE
    BY DEF ExpandFunction
  <1>2. Calling(d, ends)
    BY DEF Calling, ExpandFunction
  <1> DEFINE ts == Drop(Taken(d, ends))
             hs == (First.hs \cap CloseHides(d, ends)) \cup {First.v}
             s == Sub(First.v, Arguments(d, ends), hs)
  <1>3. /\ stack # <<>> /\ Top \in Activations(DOMAIN macros)
        /\ First \in Hidden
    BY FirstAndRest DEF ExpandFunction
  <1>4. ts \in Seq(Hidden) /\ text' \in Seq(Hidden)
    BY <1>1, <1>2, TakenIsNat, LeftOver DEF ExpandFunction
  <1>5. calls' \subseteq Value \X Value
    BY <1>1, <1>2, RegisterKeepsType
  <1>6. First.v \in DOMAIN macros /\ hs \in SUBSET Value /\ First.v \in hs
    BY <1>3 DEF ExpandFunction, Replaceable, IsMacro, Hidden, OwnedBy, Token
  <1>7. s \in UNION {SubOf(n) : n \in DOMAIN macros}
    BY <1>2, <1>6, ArgumentsAreBindings, SubIsSub DEF IInv
  <1>8. /\ [Top EXCEPT !.ts = ts] \in Activations(DOMAIN macros)
        /\ [Top EXCEPT !.ts = ts, !.sub = s] \in Activations(DOMAIN macros)
    BY <1>3, <1>4, <1>7 DEF Activations
  <1>9. GoodStack(DOMAIN macros, stack') /\ error' \in BOOLEAN
    BY <1>1, <1>3, <1>8, RetopKeepsStack DEF IInv
  <1> QED
    BY <1>4, <1>5, <1>9 DEF IInv, ExpandFunction, Tables

-----------------------------------------------------------------------------
(* subst                                                                   *)

\* An iteration of subst: the token of the body it is at
LEMMA BodyFacts ==
    ASSUME IInv, SubStep
    PROVE  /\ Substituting
           /\ SubHead \in Value /\ SubTail \in Seq(Value)
           /\ SubTail # <<>> => /\ Head(SubTail) \in Value
                                /\ Tail(SubTail) \in Seq(Value)
           /\ Len(SubTail) > 1 => /\ SubTail # <<>> /\ Tail(SubTail) # <<>>
                                  /\ Tail(Tail(SubTail)) \in Seq(Value)
  <1>1. Substituting /\ Top.sub.is \in Seq(Value) /\ Top.sub.is # <<>>
    BY SubFacts DEF SubStep
  <1>2. SubHead \in Value /\ SubTail \in Seq(Value)
    BY <1>1, HeadTailProperties DEF SubHead, SubTail
  <1>3. SubTail # <<>> => /\ Head(SubTail) \in Value
                          /\ Tail(SubTail) \in Seq(Value)
                          /\ Len(Tail(SubTail)) = Len(SubTail) - 1
    BY <1>2, HeadTailProperties
  <1>4. Len(SubTail) > 1 => SubTail # <<>>
    BY <1>2, EmptySeq
  <1>5. ASSUME Len(SubTail) > 1 PROVE Tail(SubTail) # <<>>
    <2>1. Len(Tail(SubTail)) = Len(SubTail) - 1 /\ Len(SubTail) \in Nat
      BY <1>2, <1>3, <1>4, <1>5, LenProperties
    <2>2. Len(Tail(SubTail)) # 0
      BY <2>1, <1>5
    <2> QED
      BY <2>2, EmptySeq
  <1>6. Len(SubTail) > 1 => Tail(Tail(SubTail)) \in Seq(Value)
    BY <1>3, <1>4, <1>5, HeadTailProperties
  <1> QED
    BY <1>1, <1>2, <1>3, <1>4, <1>5, <1>6

\* What an iteration may append to the output
LEMMA Appends ==
    ASSUME IInv, SubStep
    PROVE  /\ Top.sub.os \in Seq(OwnedBy({Top.sub.m}))
           /\ \A s \in Seq(Hidden) : Top.sub.os \o s \in Seq(OwnedBy({Top.sub.m}))
           /\ \A t \in OwnedBy({Top.sub.m}) :
                 Append(Top.sub.os, t) \in Seq(OwnedBy({Top.sub.m}))
  <1>1. Top.sub.os \in Seq(OwnedBy({Top.sub.m}))
    BY BodyFacts, SubFacts
  <1>2. \A s \in Seq(Hidden) : Top.sub.os \o s \in Seq(OwnedBy({Top.sub.m}))
    BY <1>1, HiddenIsOwned, ConcatProperties
  <1>3. \A t \in OwnedBy({Top.sub.m}) :
            Append(Top.sub.os, t) \in Seq(OwnedBy({Top.sub.m}))
    BY <1>1, AppendToSeq
  <1> QED
    BY <1>1, <1>2, <1>3

LEMMA SubstStringizeKeeps == IInv /\ SubstStringize => IInv'
  <1> SUFFICES ASSUME IInv, SubstStringize PROVE IInv'
    OBVIOUS
  <1> DEFINE str == [v |-> StringLiteral, hs |-> {}, by |-> Top.sub.m]
  <1>1. SubStep /\ SubTail # <<>>
    BY DEF SubstStringize, BeforeFormal
  <1>2. Top.sub.m \in Value
    BY <1>1, BodyFacts, SubFacts DEF IInv, Tables
  <1>3. str \in OwnedBy({Top.sub.m})
    BY <1>2, MacroExpandAssumption DEF OwnedBy, Token
  <1> QED
    BY <1>1, <1>3, BodyFacts, Appends, SubNextKeeps DEF SubstStringize

LEMMA SubstPasteKeeps == IInv /\ SubstPaste => IInv'
  <1> SUFFICES ASSUME IInv, SubstPaste PROVE IInv'
    OBVIOUS
  <1> DEFINE right == IF BeforeFormal THEN Arg(Head(SubTail))
                                      ELSE <<Plain(Head(SubTail))>>
             os == IF right = <<>> THEN Top.sub.os ELSE Glue(Top.sub.os, right)
  <1>1. SubStep /\ SubTail # <<>>
    BY DEF SubstPaste
  <1>2. Substituting /\ Head(SubTail) \in Value /\ Tail(SubTail) \in Seq(Value)
    BY <1>1, BodyFacts
  <1>3. right \in Seq(Hidden)
    <2>1. CASE BeforeFormal
      BY <1>2, <2>1, SubFacts DEF BeforeFormal
    <2>2. CASE ~BeforeFormal
      BY <1>2, <2>2, PlainIsHidden, OneOfSeq
    <2> QED
      BY <2>1, <2>2
  <1>4. right \in Seq(OwnedBy({Top.sub.m}))
    BY <1>3, HiddenIsOwned
  <1>5. os \in Seq(OwnedBy({Top.sub.m}))
    BY <1>1, <1>4, Appends, GlueOwned
  <1>6. SubNext(Tail(SubTail), os) /\ UNCHANGED <<macros, text, out, calls, error>>
    BY DEF SubstPaste
  <1> QED
    BY <1>2, <1>5, <1>6, SubNextKeeps

LEMMA SubstCommaKeeps == IInv /\ SubstComma => IInv'
  <1> SUFFICES ASSUME IInv, SubstComma PROVE IInv'
    OBVIOUS
  <1>1. SubStep /\ Len(SubTail) > 1
    BY DEF SubstComma, DropsComma
  <1> QED
    BY <1>1, BodyFacts, Appends, SubNextKeeps DEF SubstComma

LEMMA SubstLeftKeeps == IInv /\ SubstLeft => IInv'
  <1> SUFFICES ASSUME IInv, SubstLeft PROVE IInv'
    OBVIOUS
  <1>1. /\ SubStep /\ IsFormal(SubHead) /\ SubTail # <<>>
        /\ UNCHANGED <<macros, text, out, calls, error>>
    BY DEF SubstLeft, BeforePaste
  <1>2. Substituting /\ Arg(SubHead) \in Seq(Hidden)
    BY <1>1, BodyFacts, SubFacts
  <1>3. CASE Arg(SubHead) # <<>>
    <2>1. SubNext(SubTail, Top.sub.os \o Arg(SubHead))
      BY <1>3 DEF SubstLeft
    <2> QED
      BY <1>1, <1>2, <2>1, BodyFacts, Appends, SubNextKeeps
  <1>4. CASE Arg(SubHead) = <<>> /\ Len(SubTail) > 1 /\ IsFormal(SubTail[2])
    <2>1. SubNext(Tail(Tail(SubTail)), Top.sub.os \o Arg(SubTail[2]))
      BY <1>4 DEF SubstLeft
    <2>2. Arg(SubTail[2]) \in Seq(Hidden)
      BY <1>2, <1>4, SubFacts
    <2> QED
      BY <1>1, <1>2, <1>4, <2>1, <2>2, BodyFacts, Appends, SubNextKeeps
  <1>5. CASE Arg(SubHead) = <<>> /\ ~(Len(SubTail) > 1 /\ IsFormal(SubTail[2]))
    <2>1. SubNext(Tail(SubTail), Top.sub.os)
      BY <1>5 DEF SubstLeft
    <2> QED
      BY <1>1, <1>2, <2>1, BodyFacts, Appends, SubNextKeeps
  <1> QED
    BY <1>3, <1>4, <1>5

LEMMA SubstKnownKeeps == IInv /\ SubstKnown => IInv'
  <1> SUFFICES ASSUME IInv, SubstKnown PROVE IInv'
    OBVIOUS
  <1>1. SubStep /\ Substituting
    BY BodyFacts DEF SubstKnown
  <1>2. Top.sub.known[SubHead] \in Seq(Hidden)
    BY <1>1, SubFacts DEF SubstKnown
  <1> QED
    BY <1>1, <1>2, BodyFacts, Appends, SubNextKeeps DEF SubstKnown

LEMMA SubstTokenKeeps == IInv /\ SubstToken => IInv'
  <1> SUFFICES ASSUME IInv, SubstToken PROVE IInv'
    OBVIOUS
  <1>1. SubStep /\ SubHead \in Value
    BY BodyFacts DEF SubstToken
  <1>2. Plain(SubHead) \in OwnedBy({Top.sub.m})
    BY <1>1, PlainIsHidden DEF Hidden, OwnedBy
  <1> QED
    BY <1>1, <1>2, BodyFacts, Appends, SubNextKeeps DEF SubstToken

LEMMA ArgBeginKeeps == IInv /\ ArgBegin => IInv'
  <1> SUFFICES ASSUME IInv, ArgBegin PROVE IInv'
    OBVIOUS
  <1> DEFINE D == DOMAIN macros
             a == [ts |-> Arg(SubHead), r |-> <<>>, sub |-> NoSub]
  <1>1. SubStep /\ Substituting /\ IsFormal(SubHead)
    BY BodyFacts DEF ArgBegin
  <1>2. Arg(SubHead) \in Seq(Hidden)
    BY <1>1, SubFacts
  <1>3. a \in Activations(D)
    BY <1>2, EmptySeq DEF Activations
  <1>4. stack \in Seq(Activations(D)) /\ Len(stack) \in Nat \ {0}
    BY <1>1, SubFacts, TopIsActivation DEF IInv, GoodStack
  <1>5. stack' = Append(stack, a)
    BY DEF ArgBegin
  <1>6. /\ stack' \in Seq(Activations(D)) /\ Len(stack') = Len(stack) + 1
        /\ \A k \in 1 .. Len(stack) : stack'[k] = stack[k]
    BY <1>3, <1>4, <1>5
  <1>7. Waits(Top.sub)
    BY <1>1 DEF Waits, SubStep, Substituting, SubHead, IsFormal, ArgBegin
  <1>8. \A k \in 1 .. Len(stack) : Waits(stack[k].sub)
    BY <1>4, <1>7 DEF Top, IInv, GoodStack
  <1>9. GoodStack(D, stack')
    BY <1>4, <1>6, <1>8 DEF GoodStack
  <1> QED
    BY <1>9 DEF IInv, ArgBegin, Tables

LEMMA ArgEndKeeps == IInv /\ ArgEnd => IInv'
  <1> SUFFICES ASSUME IInv, ArgEnd PROVE IInv'
    OBVIOUS
  <1> DEFINE D == DOMAIN macros
             n == Len(stack) - 1
             caller == stack[n]
             formal == Head(caller.sub.is)
             known == [x \in DOMAIN caller.sub.known \cup {formal} |->
                         IF x = formal THEN Top.r ELSE caller.sub.known[x]]
             sub == [caller.sub EXCEPT !.is = Tail(@), !.os = @ \o Top.r,
                                       !.known = known]
             a == [caller EXCEPT !.sub.is = Tail(@), !.sub.os = @ \o Top.r,
                                 !.sub.known = known]
             below == SubSeq(stack, 1, Len(stack) - 2)
  <1>1. stack \in Seq(Activations(D)) /\ stack # <<>>
    BY DEF IInv, GoodStack, ArgEnd, Expanding
  <1>2. Len(stack) \in Nat /\ Len(stack) >= 2
    <2>1. Len(stack) \in Nat \ {0}
      BY <1>1, EmptySeq
    <2>2. Len(stack) # 1
      BY DEF ArgEnd, Outermost
    <2>3. \A k \in Nat \ {0} : k # 1 => k \in Nat /\ k >= 2
      OBVIOUS
    <2> QED
      BY <2>1, <2>2, <2>3
  <1>3. Top.r \in Seq(Hidden)
    BY <1>1, TopIsActivation DEF IInv, Activations
  <1>4. caller \in Activations(D) /\ Waits(caller.sub)
    BY <1>1, <1>2, ElementOfSeq DEF IInv, GoodStack
  <1>5. PICK m \in D : caller.sub \in SubOf(m)
    BY <1>4 DEF Activations, Waits, NoSub
  <1>6. /\ caller.sub.is \in Seq(Value) /\ caller.sub.is # <<>>
        /\ caller.sub.os \in Seq(OwnedBy({m}))
        /\ caller.sub.known \in Bindings
    BY <1>4, <1>5 DEF SubOf, Waits
  <1>7. Tail(caller.sub.is) \in Seq(Value) /\ formal \in Value
    BY <1>6, HeadTailProperties
  <1>8. caller.sub.os \o Top.r \in Seq(OwnedBy({m}))
    BY <1>3, <1>6, HiddenIsOwned, ConcatProperties
  <1>9. known \in Bindings
    <2>1. DOMAIN known \subseteq Value
      BY <1>6, <1>7 DEF Bindings
    <2>2. \A x \in DOMAIN known : known[x] \in Seq(Hidden)
      BY <1>3, <1>6 DEF Bindings
    <2>3. known \in [DOMAIN known -> Seq(Hidden)]
      BY <2>2
    <2> HIDE DEF known
    <2> QED
      BY <2>1, <2>3 DEF Bindings
  <1> HIDE DEF known
  <1>10. sub \in SubOf(m)
    BY <1>5, <1>7, <1>8, <1>9 DEF SubOf
  <1>11. a = [caller EXCEPT !.sub = sub]
    BY <1>4, <1>5 DEF Activations, SubOf
  <1>12. a \in Activations(D)
    BY <1>4, <1>10, <1>11 DEF Activations
  <1>13. /\ below \in Seq(Activations(D)) /\ Len(below) = n - 1
         /\ \A k \in 1 .. n - 1 : below[k] = stack[k]
    <2>1. 1 \in Int /\ Len(stack) - 2 \in Int
      BY <1>2
    <2>2. \A i \in 1 .. Len(stack) - 2 : stack[i] \in Activations(D)
      BY <1>1, <1>2, ElementOfSeq
    <2>3. /\ below \in Seq(Activations(D))
          /\ Len(below) = IF 1 <= Len(stack) - 2 THEN Len(stack) - 2 - 1 + 1 ELSE 0
          /\ \A i \in 1 .. Len(stack) - 2 - 1 + 1 : below[i] = stack[1 + i - 1]
      BY <2>1, <2>2, SubSeqProperties
    <2>4. Len(stack) - 2 - 1 + 1 = n - 1 /\ n - 1 \in Nat
      BY <1>2
    <2>5. Len(below) = n - 1
      BY <1>2, <2>3, <2>4
    <2>6. \A i \in 1 .. n - 1 : below[i] = stack[i]
      <3>1. \A i \in 1 .. n - 1 : below[i] = stack[1 + i - 1] /\ 1 + i - 1 = i
        BY <2>3, <2>4
      <3> QED
        BY <3>1
    <2> QED
      BY <2>3, <2>5, <2>6
  <1>14. stack' = Append(below, a)
    BY DEF ArgEnd, known
  <1> HIDE DEF a, below
  <1>15. /\ stack' \in Seq(Activations(D)) /\ Len(stack') = n
         /\ \A k \in 1 .. n - 1 : stack'[k] = stack[k]
    BY <1>2, <1>12, <1>13, <1>14
  <1>16. \A k \in 1 .. n - 1 : Waits(stack[k].sub)
    BY <1>2 DEF GoodStack, IInv
  <1>17. \A k \in 1 .. Len(stack') - 1 : Waits(stack'[k].sub)
    BY <1>15, <1>16
  <1>18. GoodStack(D, stack')
    BY <1>15, <1>17 DEF GoodStack
  <1> QED
    BY <1>18 DEF IInv, ArgEnd, Tables

LEMMA ReplacementIsHidden ==
    ASSUME IInv, Substituting
    PROVE  Replacement \in Seq(Hidden)
  <1> DEFINE m == Top.sub.m
             os == Top.sub.os
             hs == Top.sub.hs
             token(t) == [t EXCEPT !.hs = @ \cup hs,
                                   !.by = IF macros[m].fun THEN m ELSE @]
  <1>1. os \in Seq(OwnedBy({m})) /\ m \in Value /\ hs \subseteq Value /\ m \in hs
    BY SubFacts DEF IInv, Tables, SubOf
  <1>2. ASSUME NEW t \in OwnedBy({m}) PROVE token(t) \in Hidden
    BY <1>1, <1>2 DEF Hidden, OwnedBy, Token
  <1>3. Len(os) \in Nat /\ DOMAIN os = 1 .. Len(os)
    BY <1>1, LenProperties
  <1>4. \A i \in 1 .. Len(os) : os[i] \in OwnedBy({m})
    BY <1>1, ElementOfSeq
  <1>5. Replacement = [i \in 1 .. Len(os) |-> token(os[i])]
    BY <1>3 DEF Replacement
  <1> HIDE DEF token, os
  <1>6. Replacement \in [1 .. Len(os) -> Hidden]
    BY <1>2, <1>4, <1>5
  <1> QED
    BY <1>3, <1>6, SeqDef

LEMMA SubstEndKeeps == IInv /\ SubstEnd => IInv'
  <1> SUFFICES ASSUME IInv, SubstEnd PROVE IInv'
    OBVIOUS
  <1> DEFINE a == [Top EXCEPT !.ts = Replacement \o @, !.sub = NoSub]
  <1>1. Substituting /\ Retop(a)
    BY DEF SubstEnd
  <1>2. stack # <<>> /\ Top \in Activations(DOMAIN macros)
    BY <1>1, SubFacts
  <1>3. Replacement \o Top.ts \in Seq(Hidden)
    BY <1>1, <1>2, ReplacementIsHidden, ConcatProperties DEF Activations
  <1>4. a \in Activations(DOMAIN macros)
    BY <1>2, <1>3 DEF Activations
  <1>5. GoodStack(DOMAIN macros, stack')
    BY <1>1, <1>2, <1>4, RetopKeepsStack DEF IInv
  <1> QED
    BY <1>5 DEF IInv, SubstEnd, Tables

-----------------------------------------------------------------------------
(* The theorems                                                            *)

LEMMA StepKeeps == IInv /\ [Next]_vars => IInv'
  <1> SUFFICES ASSUME IInv, [Next]_vars PROVE IInv'
    OBVIOUS
  <1>1. CASE Next
    BY <1>1, GetNextKeeps, KeepKeeps, ExpandObjectKeeps, ExpandNameKeeps,
       ExpandFunctionKeeps, ExpandEndKeeps, SubstStringizeKeeps,
       SubstPasteKeeps, SubstCommaKeeps, SubstLeftKeeps, SubstKnownKeeps,
       ArgBeginKeeps, ArgEndKeeps, SubstTokenKeeps, SubstEndKeeps DEF Next
  <1>2. CASE UNCHANGED vars
    BY <1>2 DEF vars, IInv, Tables
  <1> QED
    BY <1>1, <1>2

LEMMA BindingsAreArgs ==
    ASSUME NEW b \in Bindings
    PROVE  IsArgs(b)
  <1>1. \A x \in DOMAIN b : b[x] \in Seq(Token)
    BY HiddenHides DEF Bindings
  <1>2. b = [x \in DOMAIN b |-> b[x]] /\ DOMAIN b \subseteq Value
    BY DEF Bindings
  <1> QED
    BY <1>1, <1>2 DEF IsArgs

LEMMA InvariantImpliesType == IInv => TypeOK
  <1> SUFFICES ASSUME IInv PROVE TypeOK
    OBVIOUS
  <1>1. stack \in Seq(Activations(DOMAIN macros))
    BY DEF IInv, GoodStack
  <1>2. DOMAIN stack = 1 .. Len(stack) /\ Len(stack) \in Nat
    BY <1>1, LenProperties
  <1>3. ASSUME NEW k \in DOMAIN stack
        PROVE  /\ DOMAIN stack[k] = {"ts", "r", "sub"}
               /\ stack[k].ts \in Seq(Token) /\ stack[k].r \in Seq(Token)
               /\ stack[k].sub.on => IsSub(stack[k].sub)
               /\ k < Len(stack) => Waits(stack[k].sub)
    <2>1. stack[k] \in Activations(DOMAIN macros)
      BY <1>1, <1>2, ElementOfSeq
    <2>2. stack[k].ts \in Seq(Hidden) /\ stack[k].r \in Seq(Hidden)
      BY <2>1 DEF Activations
    <2>3. ASSUME stack[k].sub.on PROVE IsSub(stack[k].sub)
      <3>1. PICK m \in DOMAIN macros : stack[k].sub \in SubOf(m)
        BY <2>1, <2>3 DEF Activations, NoSub
      <3>2. IsArgs(stack[k].sub.args) /\ IsArgs(stack[k].sub.known)
        BY <3>1, BindingsAreArgs DEF SubOf
      <3>3. stack[k].sub.os \in Seq(Token)
        BY <3>1, OwnedIsToken DEF SubOf
      <3> QED
        BY <3>1, <3>2, <3>3 DEF SubOf, IsSub
    <2>4. k < Len(stack) => Waits(stack[k].sub)
      BY <1>2 DEF IInv, GoodStack
    <2> QED
      BY <2>1, <2>2, <2>3, <2>4, HiddenHides DEF Activations
  <1>4. text \in Seq(Token) /\ out \in Seq(Token)
    BY HiddenHides DEF IInv
  <1> QED
    BY <1>2, <1>3, <1>4 DEF TypeOK, IInv, Tables

LEMMA InvariantImpliesHides == IInv => ProducersHide
  <1> SUFFICES ASSUME IInv PROVE ProducersHide
    OBVIOUS
  <1>1. Hides(text) /\ Hides(out)
    BY HiddenHides DEF IInv
  <1>2. ASSUME NEW k \in DOMAIN stack
        PROVE  Hides(stack[k].ts) /\ Hides(stack[k].r)
    <2>1. stack[k] \in Activations(DOMAIN macros)
      BY ElementOfSeq, LenProperties DEF IInv, GoodStack
    <2> QED
      BY <2>1, HiddenHides DEF Activations
  <1> QED
    BY <1>1, <1>2 DEF ProducersHide

\* The state of an expansion is well-formed, for every macro table and text:
\* every activation but the last waits for the value of a formal of its macro,
\* and that formal is still there when the value comes (the splices of subst).
THEOREM ExpansionIsTyped == Spec => []TypeOK
  <1>1. Init => IInv
    BY InitEstablishes
  <1>2. IInv /\ [Next]_vars => IInv'
    BY StepKeeps
  <1>3. IInv => TypeOK
    BY InvariantImpliesType
  <1> QED
    BY <1>1, <1>2, <1>3, PTL DEF Spec

\* No macro replaces what it produced itself, for every macro table and text:
\* a token hides its producer from the moment subst returns it, whatever it
\* is gathered, pasted and expanded in later.
THEOREM ResultsHideTheirMacro == Spec => []ProducersHide
  <1>1. Init => IInv
    BY InitEstablishes
  <1>2. IInv /\ [Next]_vars => IInv'
    BY StepKeeps
  <1>3. IInv => ProducersHide
    BY InvariantImpliesHides
  <1> QED
    BY <1>1, <1>2, <1>3, PTL DEF Spec

-----------------------------------------------------------------------------
(* Calls of macros                                                         *)
(*                                                                         *)
(* That a token hides its producer says nothing of the tokens gathered     *)
(* after it.  A macro calls itself if its name comes from elsewhere and    *)
(* its brackets or arguments from itself; what rules this out is that each *)
(* token hides the producers of all that follow it.  The result of a call  *)
(* hides what the name and the closing bracket both hide, and each of them *)
(* hides the producers of what is behind the bracket; so the bracket's     *)
(* hide set must have been kept.                                           *)

\* CloseHides is that of some token: not for a macro without parameters, nor
\* when the only argument that is given ends at the closing bracket.
BracketsKept ==
    \A p \in Programs : \A m \in DOMAIN p.macros :
        p.macros[m].fun =>
            /\ p.macros[m].formals # <<>>
            /\ p.macros[m].vararg => Len(p.macros[m].formals) # 2

BracketKept(d) == d.formals # <<>> /\ (d.vararg => Len(d.formals) # 2)

Made(t) == t.by # NoMacro
NoneMade(ts) == \A i \in DOMAIN ts : ~Made(ts[i])
MadeIn(ts, hs) == \A i \in DOMAIN ts : Made(ts[i]) => ts[i].by \in hs

\* Each token hides the producers of those behind it.
Chained(ts) ==
    \A i, j \in DOMAIN ts : i < j /\ Made(ts[j]) => ts[j].by \in ts[i].hs

\* What a subst will give back hides the producers of the tokens behind it,
\* and nothing made the tokens an object-like macro is replaced by.
SubChained(sub, ts) ==
    sub.on => /\ \A v \in DOMAIN sub.args : Chained(sub.args[v])
              /\ MadeIn(ts, sub.hs)
              /\ ~macros[sub.m].fun => DOMAIN sub.args = {} /\ NoneMade(sub.os)

ActivationChained(a) == Chained(a.ts) /\ SubChained(a.sub, a.ts)

CInv ==
    /\ IInv
    /\ \A m \in DOMAIN macros : macros[m].fun => BracketKept(macros[m])
    /\ NoneMade(text)
    /\ \A k \in 1 .. Len(stack) : ActivationChained(stack[k])
    /\ NoSelfCall

\* A part of a sequence and where its elements were
LEMMA PartFacts ==
    ASSUME NEW S, NEW s \in Seq(S), NEW m \in Nat \ {0},
           NEW n \in Int, n <= Len(s)
    PROVE  /\ SubSeq(s, m, n) \in Seq(S)
           /\ DOMAIN SubSeq(s, m, n) = 1 .. Len(SubSeq(s, m, n))
           /\ Len(SubSeq(s, m, n)) = IF m <= n THEN n - m + 1 ELSE 0
           /\ \A i \in DOMAIN SubSeq(s, m, n) :
                 m + i - 1 \in DOMAIN s /\ SubSeq(s, m, n)[i] = s[m + i - 1]
  <1> DEFINE part == SubSeq(s, m, n)
  <1>1. Len(s) \in Nat /\ DOMAIN s = 1 .. Len(s)
    BY LenProperties
  <1>2. \A i \in m .. n : s[i] \in S
    BY <1>1, ElementOfSeq
  <1>3. /\ part \in Seq(S)
        /\ Len(part) = IF m <= n THEN n - m + 1 ELSE 0
        /\ \A i \in 1 .. n - m + 1 : part[i] = s[m + i - 1]
    BY <1>2, SubSeqProperties
  <1>4. DOMAIN part = 1 .. Len(part)
    BY <1>3, LenProperties
  <1> HIDE DEF part
  <1>5. ASSUME NEW i \in DOMAIN part
        PROVE  m + i - 1 \in DOMAIN s /\ part[i] = s[m + i - 1]
    <2>1. i \in 1 .. n - m + 1
      BY <1>3, <1>4
    <2> QED
      BY <1>1, <1>3, <2>1
  <1> QED
    BY <1>3, <1>4, <1>5 DEF part

LEMMA ChainedPart ==
    ASSUME NEW s \in Seq(Hidden), NEW m \in Nat \ {0}, NEW n \in Int, n <= Len(s)
    PROVE  /\ Chained(s) => Chained(SubSeq(s, m, n))
           /\ NoneMade(s) => NoneMade(SubSeq(s, m, n))
           /\ \A hs : MadeIn(s, hs) => MadeIn(SubSeq(s, m, n), hs)
  <1> DEFINE part == SubSeq(s, m, n)
  <1>1. DOMAIN part = 1 .. Len(part) /\ Len(part) \in Nat
    BY PartFacts, LenProperties
  <1>2. \A i \in DOMAIN part : m + i - 1 \in DOMAIN s /\ part[i] = s[m + i - 1]
    BY PartFacts
  <1>3. DOMAIN s = 1 .. Len(s) /\ Len(s) \in Nat
    BY LenProperties
  <1> HIDE DEF part
  <1>4. ASSUME Chained(s), NEW i \in DOMAIN part, NEW j \in DOMAIN part,
               i < j, Made(part[j])
        PROVE  part[j].by \in part[i].hs
    <2>1. m + i - 1 < m + j - 1
      BY <1>1, <1>4
    <2> QED
      BY <1>2, <1>4, <2>1 DEF Chained
  <1> QED
    BY <1>2, <1>4 DEF Chained, NoneMade, MadeIn, part

\* Tokens that are put before others must hide what made those.
LEMMA ChainedConcat ==
    ASSUME NEW s \in Seq(Hidden), NEW t \in Seq(Hidden), Chained(s), Chained(t),
           \A i \in DOMAIN s, j \in DOMAIN t : Made(t[j]) => t[j].by \in s[i].hs
    PROVE  Chained(s \o t)
  <1> DEFINE both == s \o t
  <1>1. /\ both \in Seq(Hidden) /\ Len(both) = Len(s) + Len(t)
        /\ \A i \in 1 .. Len(s) + Len(t) :
              both[i] = IF i <= Len(s) THEN s[i] ELSE t[i - Len(s)]
    BY ConcatProperties
  <1>2. /\ DOMAIN both = 1 .. Len(both)
        /\ DOMAIN s = 1 .. Len(s) /\ Len(s) \in Nat
        /\ DOMAIN t = 1 .. Len(t) /\ Len(t) \in Nat
    BY <1>1, LenProperties
  <1> HIDE DEF both
  <1>3. \A i \in DOMAIN both : \/ i \in DOMAIN s /\ both[i] = s[i]
                               \/ /\ i - Len(s) \in DOMAIN t
                                  /\ both[i] = t[i - Len(s)]
    BY <1>1, <1>2
  <1>4. ASSUME NEW i \in DOMAIN both, NEW j \in DOMAIN both, i < j, Made(both[j])
        PROVE  both[j].by \in both[i].hs
    <2>1. CASE j \in DOMAIN s /\ both[j] = s[j]
      <3>1. i \in DOMAIN s /\ both[i] = s[i]
        BY <1>1, <1>2, <1>4, <2>1
      <3> QED
        BY <1>4, <2>1, <3>1 DEF Chained
    <2>2. CASE j - Len(s) \in DOMAIN t /\ both[j] = t[j - Len(s)]
      <3>1. CASE i \in DOMAIN s /\ both[i] = s[i]
        BY <1>4, <2>2, <3>1
      <3>2. CASE i - Len(s) \in DOMAIN t /\ both[i] = t[i - Len(s)]
        <4>1. i - Len(s) < j - Len(s)
          BY <1>2, <1>4
        <4> QED
          BY <1>4, <2>2, <3>2, <4>1 DEF Chained
      <3> QED
        BY <1>3, <3>1, <3>2
    <2> QED
      BY <1>3, <2>1, <2>2
  <1> QED
    BY <1>4 DEF Chained, both

\* What follows the first token, and what is gathered from the file after it
LEMMA ChainedRest ==
    ASSUME CInv, Expanding, Top.ts # <<>>
    PROVE  /\ ActivationChained(Top)
           /\ Chained(Rest) /\ MadeIn(Rest, First.hs)
           /\ Chained(Following)
  <1>1. /\ stack # <<>> /\ Top \in Activations(DOMAIN macros)
        /\ Rest \in Seq(Hidden) /\ text \in Seq(Hidden)
    BY FirstAndRest DEF CInv, IInv
  <1>2. ActivationChained(Top)
    BY <1>1, TopIsActivation DEF CInv, IInv, Top
  <1>3. Top.ts \in Seq(Hidden) /\ Chained(Top.ts)
    BY <1>1, <1>2 DEF Activations, ActivationChained
  <1> DEFINE ts == Top.ts
  <1>4. /\ DOMAIN ts = 1 .. Len(ts) /\ Len(ts) \in Nat
        /\ DOMAIN Rest = 1 .. Len(Rest) /\ Len(Rest) = Len(ts) - 1
        /\ \A i \in DOMAIN Rest : Rest[i] = ts[i + 1]
    BY <1>1, <1>3, LenProperties, HeadTailProperties DEF Rest
  <1>5. First = ts[1]
    BY DEF First
  <1> HIDE DEF ts
  <1>6. \A i \in DOMAIN Rest : i + 1 \in DOMAIN ts /\ 1 \in DOMAIN ts /\ 1 < i + 1
    BY <1>4
  <1>7. Chained(ts)
    BY <1>3 DEF ts
  <1>8. MadeIn(Rest, First.hs)
    BY <1>4, <1>5, <1>6, <1>7 DEF Chained, MadeIn
  <1>9. Chained(Rest)
    <2>1. \A i, j \in DOMAIN Rest : i < j => i + 1 < j + 1
      BY <1>4
    <2> QED
      BY <1>4, <1>6, <1>7, <2>1 DEF Chained
  <1>10. Chained(Rest \o text)
    <2>1. NoneMade(text)
      BY DEF CInv
    <2>2. Chained(text)
      BY <2>1 DEF Chained, NoneMade
    <2> QED
      BY <1>1, <1>9, <2>1, <2>2, ChainedConcat DEF NoneMade
  <1> QED
    BY <1>2, <1>8, <1>9, <1>10 DEF Following

\* An activation that is put back on the stack
LEMMA RetopKeepsChained ==
    ASSUME CInv, IInv', stack # <<>>, NEW a, Retop(a), ActivationChained(a),
           macros' = macros, NoneMade(text'), NoSelfCall'
    PROVE  CInv'
  <1>1. stack \in Seq(Activations(DOMAIN macros)) /\ Len(stack) \in Nat \ {0}
    BY TopIsActivation DEF GoodStack, CInv, IInv
  <1>2. stack' \in Seq(Activations(DOMAIN macros')) /\ Len(stack') \in Nat
    BY LenProperties DEF GoodStack, IInv
  <1>3. DOMAIN stack = 1 .. Len(stack) /\ DOMAIN stack' = 1 .. Len(stack')
    BY <1>1, <1>2, LenProperties
  <1>4. /\ DOMAIN stack' = DOMAIN stack
        /\ \A k \in DOMAIN stack : stack'[k] = IF k = Len(stack) THEN a ELSE stack[k]
    BY <1>1, <1>3 DEF Retop
  <1>5. \A k \in DOMAIN stack' : ActivationChained(stack'[k])
    BY <1>3, <1>4 DEF CInv
  <1>6. \A b : ActivationChained(b)' <=> ActivationChained(b)
    BY DEF ActivationChained, SubChained
  <1> QED
    BY <1>3, <1>5, <1>6 DEF CInv, NoneMade

LEMMA InitChains ==
    ASSUME BracketsKept, Init
    PROVE  CInv
  <1>1. PICK p \in Programs : macros = p.macros /\ text = PlainSeq(p.text)
    BY DEF Init
  <1>2. \A m \in DOMAIN macros : macros[m].fun => BracketKept(macros[m])
    BY <1>1 DEF BracketsKept, BracketKept
  <1>3. NoneMade(text)
    BY <1>1 DEF NoneMade, PlainSeq, Plain, Made
  <1>4. 1 .. Len(stack) = {}
    BY DEF Init
  <1> QED
    BY <1>2, <1>3, <1>4, InitEstablishes DEF CInv, Init, NoSelfCall

\* A sequence that lost its head
LEMMA NoneMadeTail ==
    ASSUME NEW s \in Seq(Hidden), s # <<>>, NoneMade(s)
    PROVE  NoneMade(Tail(s))
  <1>1. /\ Tail(s) \in Seq(Hidden) /\ Len(Tail(s)) = Len(s) - 1
        /\ \A i \in 1 .. Len(Tail(s)) : Tail(s)[i] = s[i + 1]
    BY HeadTailProperties
  <1>2. DOMAIN s = 1 .. Len(s) /\ DOMAIN Tail(s) = 1 .. Len(Tail(s)) /\ Len(s) \in Nat
    BY <1>1, LenProperties
  <1>3. \A i \in DOMAIN Tail(s) : i + 1 \in DOMAIN s
    BY <1>1, <1>2
  <1> QED
    BY <1>1, <1>2, <1>3 DEF NoneMade

LEMMA GetNextChains ==
    ASSUME CInv, IInv', GetNext
    PROVE  CInv'
  <1>1. NoneMade(text')
    BY NoneMadeTail DEF CInv, IInv, GetNext
  <1>2. \A k \in 1 .. Len(stack') : ActivationChained(stack'[k])
    <2>1. CASE IsName(Head(text).v)
      <3> DEFINE a == [ts |-> <<Head(text)>>, r |-> <<>>, sub |-> NoSub]
      <3>1. stack' = <<a>>
        BY <2>1 DEF GetNext
      <3>2. Chained(<<Head(text)>>)
        BY DEF Chained
      <3>3. ActivationChained(a)
        BY <3>2 DEF ActivationChained, SubChained, NoSub
      <3> HIDE DEF a
      <3> QED
        BY <3>1, <3>3
    <2>2. CASE ~IsName(Head(text).v)
      BY <2>2 DEF GetNext, CInv
    <2> QED
      BY <2>1, <2>2
  <1>3. \A b : ActivationChained(b)' <=> ActivationChained(b)
    BY DEF ActivationChained, SubChained, GetNext
  <1> QED
    BY <1>1, <1>2, <1>3 DEF CInv, NoneMade, GetNext, NoSelfCall

LEMMA ExpandEndChains ==
    ASSUME CInv, IInv', ExpandEnd
    PROVE  CInv'
  <1>1. 1 .. Len(stack') = {}
    BY DEF ExpandEnd
  <1> QED
    BY <1>1 DEF ExpandEnd, CInv, NoneMade, NoSelfCall

\* The fields of an activation of macro_expand that has no subst under it
LEMMA ExpandingTop ==
    ASSUME CInv, Expanding
    PROVE  stack # <<>> /\ DOMAIN Top = {"ts", "r", "sub"} /\ Top.sub = NoSub
  <1>1. stack # <<>> /\ ~Top.sub.on
    BY DEF Expanding
  <1>2. Top \in Activations(DOMAIN macros)
    BY <1>1, TopIsActivation DEF CInv, IInv
  <1>3. DOMAIN Top = {"ts", "r", "sub"}
        /\ Top.sub \in {NoSub} \cup UNION {SubOf(m) : m \in DOMAIN macros}
    BY <1>2 DEF Activations
  <1>4. \A m : \A s \in SubOf(m) : s.on
    BY DEF SubOf
  <1> QED
    BY <1>1, <1>3, <1>4

LEMMA KeepChains ==
    ASSUME CInv, IInv', Keep
    PROVE  CInv'
  <1> DEFINE a == [Top EXCEPT !.ts = Rest, !.r = Append(@, First)]
  <1>1. a.ts = Rest /\ a.sub = NoSub
    BY ExpandingTop DEF Keep
  <1>2. ActivationChained(a)
    BY <1>1, ChainedRest DEF Keep, ActivationChained, SubChained, NoSub
  <1> QED
    BY <1>2, ExpandingTop, RetopKeepsChained DEF Keep, CInv, NoSelfCall, NoneMade

LEMMA ExpandNameChains ==
    ASSUME CInv, IInv', ExpandName
    PROVE  CInv'
  <1> DEFINE read == IF Rest = <<>> /\ Following # <<>> THEN 1 ELSE 0
             ts == Rest \o SubSeq(text, 1, read)
             a == [Top EXCEPT !.ts = ts, !.r = Append(@, First)]
  <1>1. Retop(a) /\ text' = SubSeq(text, read + 1, Len(text)) /\ UNCHANGED <<macros, calls>>
    BY DEF ExpandName
  <1>2. a.ts = ts /\ a.sub = NoSub
    BY ExpandingTop DEF ExpandName
  <1>3. Rest \in Seq(Hidden) /\ text \in Seq(Hidden) /\ Len(text) \in Nat
    BY FirstAndRest, LenProperties DEF CInv, IInv, ExpandName
  <1>4. read \in {0, 1} /\ read <= Len(text)
    <2>1. CASE Rest = <<>> /\ Following # <<>>
      <3>1. text # <<>>
        BY <1>3, <2>1, EmptySeq, ConcatEmptySeq DEF Following
      <3> QED
        BY <1>3, <2>1, <3>1, EmptySeq
    <2>2. CASE ~(Rest = <<>> /\ Following # <<>>)
      BY <1>3, <2>2
    <2> QED
      BY <2>1, <2>2
  <1> HIDE DEF read
  <1>5. NoneMade(text') /\ NoneMade(SubSeq(text, 1, read))
        /\ SubSeq(text, 1, read) \in Seq(Hidden)
    <2>1. NoneMade(text)
      BY DEF CInv
    <2>2. read \in Int /\ read + 1 \in Nat \ {0} /\ Len(text) \in Int /\ Len(text) <= Len(text)
      BY <1>3, <1>4
    <2>3. NoneMade(SubSeq(text, read + 1, Len(text)))
      BY <1>3, <2>1, <2>2, ChainedPart
    <2>4. NoneMade(SubSeq(text, 1, read)) /\ SubSeq(text, 1, read) \in Seq(Hidden)
      BY <1>3, <1>4, <2>1, <2>2, ChainedPart, PartFacts
    <2> QED
      BY <1>1, <2>3, <2>4
  <1>6. Chained(ts)
    <2>1. Chained(Rest)
      BY ChainedRest DEF ExpandName
    <2>2. Chained(SubSeq(text, 1, read))
      BY <1>5 DEF Chained, NoneMade
    <2> QED
      BY <1>3, <1>5, <2>1, <2>2, ChainedConcat DEF NoneMade
  <1> HIDE DEF ts
  <1>7. ActivationChained(a)
    BY <1>2, <1>6 DEF ActivationChained, SubChained, NoSub
  <1> HIDE DEF a
  <1> QED
    BY <1>1, <1>5, <1>7, ExpandingTop, RetopKeepsChained DEF ExpandName, CInv, NoSelfCall, NoneMade

LEMMA ExpandObjectChains ==
    ASSUME CInv, IInv', ExpandObject
    PROVE  CInv'
  <1> DEFINE s == Sub(First.v, << >>, First.hs \cup {First.v})
             a == [Top EXCEPT !.ts = Rest, !.sub = s]
  <1>1. a.ts = Rest /\ a.sub = s
    BY ExpandingTop DEF ExpandObject
  <1>2. Chained(Rest) /\ MadeIn(Rest, First.hs)
    BY ChainedRest DEF ExpandObject
  <1>3. /\ s.hs = First.hs \cup {First.v} /\ s.os = <<>> /\ DOMAIN s.args = {}
    BY DEF Sub
  <1> HIDE DEF s
  <1>4. SubChained(s, Rest)
    BY <1>2, <1>3 DEF SubChained, MadeIn, NoneMade
  <1>5. ActivationChained(a)
    BY <1>1, <1>2, <1>4 DEF ActivationChained
  <1>6. Retop(a) /\ UNCHANGED <<macros, text, calls>>
    BY DEF ExpandObject, s
  <1> HIDE DEF a
  <1> QED
    BY <1>5, <1>6, ExpandingTop, RetopKeepsChained DEF ExpandObject, CInv, NoSelfCall, NoneMade

LEMMA LeastNaturalExists ==
    ASSUME NEW T \in SUBSET Nat, T # {}
    PROVE  \E m \in T : \A k \in T : m <= k
<1> DEFINE R == OpToRel(<, Nat)
<1>1. \A x, y \in Nat : y < x => <<y, x>> \in R
    BY DEF OpToRel
<1>2. IsWellFoundedOn(R, Nat)
    BY NatLessThanWellFounded
<1> HIDE DEF R
<1>3. PICK m \in T : \A k \in T : ~ (<<k, m>> \in R)
    BY <1>2, WFMin
<1>4. ASSUME NEW k \in T PROVE m <= k
  <2>1. k \in Nat /\ m \in Nat /\ ~(k < m)
      BY Zenon, <1>1, <1>3
  <2> QED BY <2>1
<1> QED BY <1>4

\* Where an argument ends, something is after where it starts: the least of
\* the places where it may end exists.
LEMMA ArgEndsLater ==
    ASSUME NEW p \in Nat, NEW terminators, EndOfArg(p, terminators) # 0
    PROVE  EndOfArg(p, terminators) \in Nat /\ p < EndOfArg(p, terminators)
  <1> DEFINE ends == {k \in p + 1 .. Len(Following) :
                        /\ Following[k].v \in terminators
                        /\ Brackets(p + 1, k - 1) = 0}
  <1>1. ends # {} /\ EndOfArg(p, terminators) = CHOOSE k \in ends : \A j \in ends : k <= j
    BY DEF EndOfArg
  <1>2. ends \in SUBSET Nat /\ \A k \in ends : p < k
    OBVIOUS
  <1> HIDE DEF ends
  <1>3. \E k \in ends : \A j \in ends : k <= j
    BY <1>1, <1>2, LeastNaturalExists
  <1>4. EndOfArg(p, terminators) \in ends
    BY <1>1, <1>3
  <1> QED
    BY <1>2, <1>4

\* The token whose hide set is kept is one of those that are taken.
LEMMA CloseIsTaken ==
    ASSUME IInv, NEW d, NEW ends, Calling(d, ends), AreEnds(d, ends),
           Gathers(d, ends), BracketKept(d)
    PROVE  \E e \in 1 .. Taken(d, ends) : CloseHides(d, ends) = Following[e].hs
  <1> DEFINE n == Len(d.formals)
  <1>1. /\ n \in Nat \ {0} /\ DOMAIN d.formals = 1 .. n
        /\ \A i \in 1 .. n : ends[i] \in Nat
    <2>1. d.formals \in Seq(Value) /\ d.formals # <<>>
      BY DEF BracketKept, Calling, Replaceable, IsMacro, IInv, Tables, Definition
    <2> QED
      BY <2>1, EmptySeq, FormalFacts
  <1>2. Taken(d, ends) = ends[n] /\ ends[n] # 0
    BY DEF Gathers, Taken, Last, BracketKept
  <1> HIDE DEF n
  <1>3. CASE ~OmitsLast(d, ends, n)
    <2>1. CloseHides(d, ends) = Following[ends[n]].hs
      <3>1. CloseHides(d, ends) = IF n - 0 <= 0 THEN {} ELSE Following[ends[n - 0]].hs
        BY <1>3 DEF CloseHides, n
      <3>2. n - 0 = n /\ ~(n <= 0)
        BY <1>1
      <3> QED
        BY <3>1, <3>2
    <2> QED
      BY <1>1, <1>2, <2>1
  <1>4. CASE OmitsLast(d, ends, n)
    <2>1. n > 2
      <3>1. n > 1
        BY <1>4 DEF OmitsLast
      <3>2. d.vararg
        BY <1>4, Zenon DEF OmitsLast
      <3>3. n # 2
        BY <3>2, Zenon DEF BracketKept, n
      <3> QED
        BY <1>1, <3>1, <3>3
    <2>2. CloseHides(d, ends) = Following[ends[n - 2]].hs
      <3>1. CloseHides(d, ends) = IF n - 2 <= 0 THEN {} ELSE Following[ends[n - 2]].hs
        BY <1>4 DEF CloseHides, BracketKept, n
      <3> QED
        BY <1>1, <2>1, <3>1
    <2>3. ends[n] = ends[n - 1]
      <3>1. ends[n] = IF Before(ends, n) = 0 THEN 0 ELSE Before(ends, n)
        BY <1>1, <1>4 DEF AreEnds
      <3> QED
        BY <2>1, <3>1 DEF Before
    <2>4. ends[n - 1] = IF ends[n - 2] = 0 THEN 0
                        ELSE EndOfArg(ends[n - 2], Terminators(d, n - 1))
      <3>1. n - 1 \in 1 .. n /\ n - 1 # 1 /\ n - 1 # n /\ n - 1 - 1 = n - 2
        BY <1>1, <2>1
      <3>2. ~OmitsLast(d, ends, n - 1)
        BY <3>1 DEF OmitsLast, n
      <3>3. Before(ends, n - 1) = ends[n - 2]
        BY <3>1 DEF Before
      <3> QED
        BY <1>1, <3>1, <3>2, <3>3 DEF AreEnds
    <2>5. ends[n - 2] \in Nat \ {0} /\ ends[n - 2] < ends[n - 1]
      <3>1. ends[n - 2] \in Nat /\ ends[n - 2] # 0
        BY <1>1, <1>2, <2>1, <2>3, <2>4
      <3> QED
        BY <1>2, <2>3, <2>4, <3>1, ArgEndsLater
    <2>6. ends[n - 2] \in 1 .. Taken(d, ends)
      BY <1>1, <1>2, <2>3, <2>5
    <2> QED
      BY <2>2, <2>6
  <1> QED
    BY <1>3, <1>4

\* What is behind the tokens of a call was made by macros that both the name
\* and the closing bracket hide.
LEMMA DropIsHidden ==
    ASSUME CInv, NEW d, NEW ends, Calling(d, ends), AreEnds(d, ends),
           Gathers(d, ends), BracketKept(d)
    PROVE  MadeIn(Drop(Taken(d, ends)), First.hs \cap CloseHides(d, ends))
  <1> DEFINE k == Taken(d, ends)
             left == Drop(k)
  <1>1. /\ Chained(Rest) /\ MadeIn(Rest, First.hs)
        /\ Rest \in Seq(Hidden) /\ text \in Seq(Hidden)
    BY ChainedRest, FirstAndRest DEF Calling, CInv, IInv
  <1>2. k \in Nat
    BY TakenIsNat DEF CInv
  <1>3. DOMAIN Rest = 1 .. Len(Rest) /\ Len(Rest) \in Nat
    BY <1>1, LenProperties
  <1>4. PICK e \in 1 .. k : CloseHides(d, ends) = Following[e].hs
    BY CloseIsTaken DEF CInv
  <1> HIDE DEF k
  <1>5. /\ DOMAIN left = 1 .. Len(left) /\ Len(left) \in Nat
        /\ \A i \in DOMAIN left : k + 1 + i - 1 \in DOMAIN Rest /\ left[i] = Rest[k + 1 + i - 1]
    <2>1. k + 1 \in Nat \ {0} /\ Len(Rest) \in Int /\ Len(Rest) <= Len(Rest)
      BY <1>2, <1>3
    <2> QED
      BY <1>1, <2>1, PartFacts, LenProperties DEF Drop
  <1> HIDE DEF left
  <1>6. ASSUME NEW i \in DOMAIN left, Made(left[i])
        PROVE  left[i].by \in First.hs /\ left[i].by \in CloseHides(d, ends)
    <2> DEFINE j == k + 1 + i - 1
    <2>1. j \in DOMAIN Rest /\ left[i] = Rest[j]
      BY <1>5
    <2>2. e \in DOMAIN Rest /\ e < j
      BY <1>2, <1>3, <1>5, <2>1
    <2>3. Following[e] = Rest[e]
      BY <1>1, <1>3, <2>2, ConcatProperties DEF Following
    <2> HIDE DEF j
    <2>4. Rest[j].by \in Rest[e].hs
      BY <1>1, <1>6, <2>1, <2>2 DEF Chained
    <2>5. Rest[j].by \in First.hs
      BY <1>1, <1>6, <2>1 DEF MadeIn
    <2> QED
      BY <1>4, <2>1, <2>3, <2>4, <2>5
  <1> QED
    BY <1>6 DEF MadeIn, left, k

LEMMA ArgumentsChained ==
    ASSUME CInv, NEW d, NEW ends, Calling(d, ends)
    PROVE  \A x \in DOMAIN Arguments(d, ends) : Chained(Arguments(d, ends)[x])
  <1> DEFINE formals == {d.formals[i] : i \in DOMAIN d.formals}
             index(x) == CHOOSE i \in DOMAIN d.formals : d.formals[i] = x
             arg(x) == SubSeq(Following, Before(ends, index(x)) + 1, ends[index(x)] - 1)
  <1>1. ASSUME NEW x \in formals PROVE Chained(arg(x))
    <2>1. index(x) \in DOMAIN d.formals
      OBVIOUS
    <2>2. /\ Before(ends, index(x)) \in Nat
          /\ ends[index(x)] \in 0 .. Len(Following)
          /\ Len(Following) \in Nat
      BY <2>1, FormalFacts DEF CInv
    <2>3. Following \in Seq(Hidden) /\ Chained(Following)
      BY FirstAndRest, ChainedRest DEF Calling, CInv
    <2> HIDE DEF index
    <2>4. /\ Before(ends, index(x)) + 1 \in Nat \ {0}
          /\ ends[index(x)] - 1 \in Int /\ ends[index(x)] - 1 <= Len(Following)
      BY <2>2
    <2> QED
      BY <2>3, <2>4, ChainedPart
  <1>2. Arguments(d, ends) = [x \in formals |-> arg(x)]
    BY DEF Arguments
  <1> HIDE DEF formals, arg
  <1> QED
    BY <1>1, <1>2

\* The producers of the tokens of a call are hidden by its name.
LEMMA RegisterIsOther ==
    ASSUME CInv, NEW d, NEW ends, Calling(d, ends),
           Register(First.v, {First.by} \cup ArgProducers(d, ends))
    PROVE  NoSelfCall'
  <1>1. First \in Hidden /\ MadeIn(Rest, First.hs) /\ First.v \notin First.hs
    BY FirstAndRest, ChainedRest DEF Calling, CInv, Replaceable
  <1>2. First.by # NoMacro => First.by \in First.hs
    BY <1>1 DEF Hidden, OwnedBy
  <1>3. \A p \in ArgProducers(d, ends) : p # NoMacro => p \in First.hs
    BY <1>1 DEF ArgProducers, MadeIn, Made
  <1>4. \A p \in ({First.by} \cup ArgProducers(d, ends)) \ {NoMacro} : p # First.v
    BY <1>1, <1>2, <1>3
  <1>5. \A c \in calls' : c \in calls \/ \E p \in ({First.by} \cup ArgProducers(d, ends)) \ {NoMacro} :
                                            c = <<p, First.v>>
    BY DEF Register
  <1> QED
    BY <1>4, <1>5 DEF CInv, NoSelfCall

LEMMA ExpandFunctionChains ==
    ASSUME CInv, IInv', ExpandFunction
    PROVE  CInv'
  <1> DEFINE d == macros[First.v]
  <1>1. PICK ends \in [DOMAIN d.formals -> 0 .. Len(Following)] :
            /\ AreEnds(d, ends)
            /\ Register(First.v, {First.by} \cup ArgProducers(d, ends))
            /\ text' = TextAfter(Taken(d, ends))
            /\ IF Gathers(d, ends)
               THEN /\ Retop([Top EXCEPT !.ts = Drop(Taken(d, ends)),
                         !.sub = Sub(First.v, Arguments(d, ends),
                                     (First.hs \cap CloseHides(d, ends)) \cup {First.v})])
                    /\ UNCHANGED error
               ELSE /\ Retop([Top EXCEPT !.ts = Drop(Taken(d, ends))])
                    /\ error' = TRUE
    BY DEF ExpandFunction
  <1>2. Calling(d, ends) /\ BracketKept(d) /\ Expanding /\ Top.ts # <<>> /\ macros' = macros
    BY DEF Calling, ExpandFunction, CInv, Replaceable, IsMacro
  <1> DEFINE ts == Drop(Taken(d, ends))
             hs == (First.hs \cap CloseHides(d, ends)) \cup {First.v}
             s == Sub(First.v, Arguments(d, ends), hs)
             called == [Top EXCEPT !.ts = ts, !.sub = s]
             dropped == [Top EXCEPT !.ts = ts]
  <1>3. NoSelfCall'
    BY <1>1, <1>2, RegisterIsOther
  <1>4. Taken(d, ends) \in Nat
    BY <1>2, TakenIsNat DEF CInv
  <1>5. /\ Rest \in Seq(Hidden) /\ Len(Rest) \in Nat
        /\ text \in Seq(Hidden) /\ Len(text) \in Nat /\ NoneMade(text)
    BY <1>2, FirstAndRest, LenProperties DEF CInv, IInv
  <1>6. NoneMade(text')
    <2> DEFINE k == Taken(d, ends)
    <2> HIDE DEF k
    <2>1. CASE k > Len(Rest)
      <3>1. k - Len(Rest) + 1 \in Nat \ {0} /\ Len(text) \in Int /\ Len(text) <= Len(text)
        BY <1>4, <1>5, <2>1 DEF k
      <3>2. NoneMade(SubSeq(text, k - Len(Rest) + 1, Len(text)))
        BY <1>5, <3>1, ChainedPart
      <3> QED
        BY <1>1, <2>1, <3>2 DEF TextAfter, k
    <2>2. CASE ~(k > Len(Rest))
      BY <1>1, <1>5, <2>2 DEF TextAfter, k
    <2> QED
      BY <2>1, <2>2
  <1>7. Chained(ts)
    <2>1. Taken(d, ends) + 1 \in Nat \ {0} /\ Len(Rest) \in Int /\ Len(Rest) <= Len(Rest)
      BY <1>4, <1>5
    <2>2. Chained(Rest)
      BY <1>2, ChainedRest
    <2> QED
      BY <1>5, <2>1, <2>2, ChainedPart DEF Drop
  <1>8. DOMAIN Top = {"ts", "r", "sub"} /\ Top.sub = NoSub /\ stack # <<>>
    BY <1>2, ExpandingTop
  <1>9. CASE Gathers(d, ends)
    <2>1. called.ts = ts /\ called.sub = s
      BY <1>8
    <2>2. MadeIn(ts, hs)
      BY <1>1, <1>2, <1>9, DropIsHidden DEF MadeIn
    <2>3. \A x \in DOMAIN Arguments(d, ends) : Chained(Arguments(d, ends)[x])
      BY <1>2, ArgumentsChained
    <2>4. s.hs = hs /\ s.args = Arguments(d, ends) /\ s.m = First.v /\ macros[First.v].fun
      BY DEF Sub, ExpandFunction
    <2> HIDE DEF s, ts, hs
    <2>5. ActivationChained(called)
      BY <1>7, <2>1, <2>2, <2>3, <2>4 DEF ActivationChained, SubChained
    <2>6. Retop(called)
      BY <1>1, <1>9 DEF s, ts, hs
    <2> HIDE DEF called
    <2> QED
      BY <1>2, <1>3, <1>6, <1>8, <2>5, <2>6, RetopKeepsChained
  <1>10. CASE ~Gathers(d, ends)
    <2>1. dropped.ts = ts /\ dropped.sub = NoSub
      BY <1>8
    <2> HIDE DEF ts
    <2>2. ActivationChained(dropped)
      BY <1>7, <2>1 DEF ActivationChained, SubChained, NoSub
    <2>3. Retop(dropped)
      BY <1>1, <1>10 DEF ts
    <2> HIDE DEF dropped
    <2> QED
      BY <1>2, <1>3, <1>6, <1>8, <2>2, <2>3, RetopKeepsChained
  <1> QED
    BY <1>9, <1>10

\* The activation of subst that runs: under an object-like macro no token of
\* the body is a formal, and nothing made the output so far.
LEMMA SubChainedFacts ==
    ASSUME CInv, Substituting
    PROVE  /\ stack # <<>> /\ ActivationChained(Top)
           /\ DOMAIN Top = {"ts", "r", "sub"} /\ Top.sub.on
           /\ \A v : IsFormal(v) => Chained(Arg(v))
           /\ MadeIn(Top.ts, Top.sub.hs)
           /\ ~macros[Top.sub.m].fun =>
                 (\A v : ~IsFormal(v)) /\ NoneMade(Top.sub.os)
  <1>1. stack # <<>> /\ Top \in Activations(DOMAIN macros) /\ Top.sub.on
    BY SubFacts DEF CInv, Substituting
  <1>2. ActivationChained(Top)
    BY <1>1, TopIsActivation DEF CInv, IInv, Top
  <1>3. DOMAIN Top = {"ts", "r", "sub"}
    BY <1>1 DEF Activations
  <1> QED
    BY <1>1, <1>2, <1>3 DEF ActivationChained, SubChained, IsFormal, Arg

LEMMA SubNextChains ==
    ASSUME CInv, IInv', Substituting, NEW is, NEW os, SubNext(is, os),
           UNCHANGED <<macros, text, calls>>,
           ~macros[Top.sub.m].fun => NoneMade(os)
    PROVE  CInv'
  <1> DEFINE a == [Top EXCEPT !.sub.is = is, !.sub.os = os]
  <1>1. /\ stack # <<>> /\ ActivationChained(Top)
        /\ DOMAIN Top = {"ts", "r", "sub"}
    BY SubChainedFacts
  <1>2. Top.sub \in SubOf(Top.sub.m)
    BY SubFacts DEF CInv
  <1>3. a.ts = Top.ts /\ a.sub = [Top.sub EXCEPT !.is = is, !.os = os]
    BY <1>1
  <1>4. /\ a.sub.hs = Top.sub.hs /\ a.sub.args = Top.sub.args /\ a.sub.m = Top.sub.m
        /\ a.sub.on = Top.sub.on /\ a.sub.os = os
    <2> DEFINE sub == [Top.sub EXCEPT !.is = is, !.os = os]
    <2>1. /\ sub.hs = Top.sub.hs /\ sub.args = Top.sub.args /\ sub.m = Top.sub.m
          /\ sub.on = Top.sub.on /\ sub.os = os
      BY <1>2 DEF SubOf
    <2> HIDE DEF sub
    <2> QED
      BY <1>3, <2>1 DEF sub
  <1>5. Retop(a)
    BY DEF SubNext
  <1> HIDE DEF a
  <1>6. ActivationChained(a)
    BY <1>1, <1>3, <1>4 DEF ActivationChained, SubChained
  <1> QED
    BY <1>1, <1>5, <1>6, RetopKeepsChained DEF CInv, NoneMade, NoSelfCall

LEMMA NoneMadeConcat ==
    ASSUME NEW S, NEW s \in Seq(S), NEW t \in Seq(S),
           NoneMade(s), NoneMade(t)
    PROVE  NoneMade(s \o t)
  <1> DEFINE both == s \o t
  <1>1. /\ both \in Seq(S) /\ Len(both) = Len(s) + Len(t)
        /\ \A i \in 1 .. Len(s) + Len(t) :
              both[i] = IF i <= Len(s) THEN s[i] ELSE t[i - Len(s)]
    BY ConcatProperties
  <1>2. /\ DOMAIN both = 1 .. Len(both)
        /\ DOMAIN s = 1 .. Len(s) /\ Len(s) \in Nat
        /\ DOMAIN t = 1 .. Len(t) /\ Len(t) \in Nat
    BY <1>1, LenProperties
  <1> HIDE DEF both
  <1>3. \A i \in DOMAIN both : \/ i \in DOMAIN s /\ both[i] = s[i]
                               \/ /\ i - Len(s) \in DOMAIN t
                                  /\ both[i] = t[i - Len(s)]
    BY <1>1, <1>2
  <1> QED
    BY <1>3 DEF NoneMade, both

\* A token of the body that is appended or pasted as it is
LEMMA PlainIsNotMade ==
    ASSUME NEW v \in Value, NEW M, NEW os \in Seq(OwnedBy(M)), NoneMade(os)
    PROVE  /\ NoneMade(Append(os, Plain(v)))
           /\ NoneMade(Glue(os, <<Plain(v)>>))
  <1> DEFINE one == <<Plain(v)>>
  <1>1. /\ Plain(v) \in OwnedBy(M) /\ one \in Seq(OwnedBy(M)) /\ one # <<>>
        /\ NoneMade(one) /\ Head(one) = Plain(v) /\ Tail(one) = <<>>
    BY PlainIsHidden, OneOfSeq DEF Hidden, OwnedBy, NoneMade, Plain, Made
  <1>2. NoneMade(Append(os, Plain(v)))
    BY <1>1, NoneMadeConcat, AppendIsConcat
  <1> HIDE DEF one
  <1>3. NoneMade(Glue(os, one))
    <2>1. CASE os = <<>>
      BY <1>1, <2>1 DEF Glue
    <2>2. CASE os # <<>>
      <3> DEFINE l == os[Len(os)]
                 vs == Pasted(l.v, Head(one).v)
                 kept == SubSeq(os, 1, Len(os) - 1)
      <3>1. Len(os) \in Nat \ {0}
        BY <2>2, EmptySeq
      <3>2. l \in OwnedBy(M) /\ Head(one) \in OwnedBy(M)
        BY <1>1, <3>1, ElementOfSeq
      <3>3. vs \in Seq(Value)
        BY <3>2, MacroExpandAssumption DEF OwnedBy, Token
      <3>4. PlainSeq(vs) \in Seq(OwnedBy(M)) /\ NoneMade(PlainSeq(vs))
        <4>1. PlainSeq(vs) \in Seq(OwnedBy(M))
          BY <3>3, PlainSeqIsHidden, HiddenIsOwned
        <4>2. NoneMade(PlainSeq(vs))
          BY DEF PlainSeq, Plain, NoneMade, Made
        <4> QED
          BY <4>1, <4>2
      <3>5. /\ kept \in Seq(OwnedBy(M))
            /\ \A i \in DOMAIN kept : 1 + i - 1 \in DOMAIN os /\ kept[i] = os[1 + i - 1]
        BY <3>1, PartFacts
      <3> HIDE DEF kept, vs, l
      <3>6. NoneMade(kept)
        BY <3>5 DEF NoneMade
      <3>7. kept \o PlainSeq(vs) \in Seq(OwnedBy(M)) /\ NoneMade(kept \o PlainSeq(vs))
        BY <3>4, <3>5, <3>6, NoneMadeConcat, ConcatProperties
      <3>8. kept \o PlainSeq(vs) \o Tail(one) = kept \o PlainSeq(vs)
        BY <1>1, <3>7, ConcatEmptySeq
      <3> QED
        BY <2>2, <3>7, <3>8 DEF Glue, kept, vs, l
    <2> QED
      BY <2>1, <2>2
  <1> QED
    BY <1>2, <1>3 DEF one

LEMMA SubstChains ==
    ASSUME CInv, IInv',
           \/ SubstStringize \/ SubstPaste \/ SubstComma
           \/ SubstLeft \/ SubstKnown \/ SubstToken
    PROVE  CInv'
  <1>1. SubStep /\ Substituting /\ UNCHANGED <<macros, text, calls>>
    BY DEF SubstStringize, SubstPaste, SubstComma, SubstLeft, SubstKnown,
           SubstToken, SubStep
  <1>2. SUFFICES \E is, os : SubNext(is, os) /\ (~macros[Top.sub.m].fun => NoneMade(os))
    BY <1>1, SubNextChains
  <1>3. CASE macros[Top.sub.m].fun
    BY <1>3, Zenon DEF SubstStringize, SubstPaste, SubstComma, SubstLeft, SubstKnown, SubstToken
  <1>4. CASE ~macros[Top.sub.m].fun
    <2>1. (\A v : ~IsFormal(v)) /\ NoneMade(Top.sub.os)
      BY <1>1, <1>4, SubChainedFacts
    <2>2. Top.sub.os \in Seq(OwnedBy({Top.sub.m}))
      BY <1>1, SubFacts DEF CInv
    <2>3. CASE SubstToken
      <3>1. NoneMade(Append(Top.sub.os, Plain(SubHead)))
        BY <1>1, <2>1, <2>2, BodyFacts, PlainIsNotMade DEF CInv
      <3> QED
        BY <2>3, <3>1 DEF SubstToken
    <2>4. CASE SubstPaste
      <3>1. SubNext(Tail(SubTail), IF <<Plain(Head(SubTail))>> = <<>> THEN Top.sub.os
                                   ELSE Glue(Top.sub.os, <<Plain(Head(SubTail))>>))
        BY <2>1, <2>4 DEF SubstPaste, BeforeFormal
      <3>2. <<Plain(Head(SubTail))>> # <<>>
        OBVIOUS
      <3>3. NoneMade(Glue(Top.sub.os, <<Plain(Head(SubTail))>>))
        BY <1>1, <2>1, <2>2, <2>4, BodyFacts, PlainIsNotMade DEF CInv, SubstPaste
      <3> QED
        BY <3>1, <3>2, <3>3
    <2> QED
      BY <2>1, <2>3, <2>4 DEF SubstStringize, BeforeFormal, SubstComma, DropsComma,
                              SubstLeft, SubstKnown
  <1> QED
    BY <1>3, <1>4

LEMMA ArgBeginChains ==
    ASSUME CInv, IInv', ArgBegin
    PROVE  CInv'
  <1> DEFINE a == [ts |-> Arg(SubHead), r |-> <<>>, sub |-> NoSub]
  <1>1. SubStep /\ Substituting /\ IsFormal(SubHead)
    BY DEF ArgBegin, SubStep
  <1>2. Chained(Arg(SubHead))
    BY <1>1, SubChainedFacts
  <1>3. ActivationChained(a)
    BY <1>2 DEF ActivationChained, SubChained, NoSub
  <1>4. Arg(SubHead) \in Seq(Hidden)
    BY <1>1, SubFacts DEF CInv
  <1>5. a \in Activations(DOMAIN macros)
    BY <1>4, EmptySeq DEF Activations
  <1>6. stack \in Seq(Activations(DOMAIN macros)) /\ stack' = Append(stack, a)
    BY DEF ArgBegin, CInv, IInv, GoodStack
  <1> HIDE DEF a
  <1>7. /\ Len(stack') = Len(stack) + 1 /\ Len(stack) \in Nat
        /\ \A k \in 1 .. Len(stack) : stack'[k] = stack[k]
        /\ stack'[Len(stack) + 1] = a
    BY <1>5, <1>6, AppendProperties, LenProperties
  <1>8. \A k \in 1 .. Len(stack') : ActivationChained(stack'[k])
    <2>1. \A k \in 1 .. Len(stack') : k \in 1 .. Len(stack) \/ k = Len(stack) + 1
      BY <1>7
    <2> QED
      BY <1>3, <1>7, <2>1 DEF CInv
  <1>9. \A b : ActivationChained(b)' <=> ActivationChained(b)
    BY DEF ActivationChained, SubChained, ArgBegin
  <1> QED
    BY <1>8, <1>9 DEF CInv, NoneMade, ArgBegin, NoSelfCall

\* Only a function-like macro waits for an argument, whose expansion will be
\* marked as its own at the end of subst.
LEMMA ArgEndChains ==
    ASSUME CInv, IInv', ArgEnd
    PROVE  CInv'
  <1> DEFINE D == DOMAIN macros
             n == Len(stack) - 1
             caller == stack[n]
             formal == Head(caller.sub.is)
             known == [x \in DOMAIN caller.sub.known \cup {formal} |->
                         IF x = formal THEN Top.r ELSE caller.sub.known[x]]
             a == [caller EXCEPT !.sub.is = Tail(@), !.sub.os = @ \o Top.r,
                                 !.sub.known = known]
             below == SubSeq(stack, 1, Len(stack) - 2)
  <1>1. stack \in Seq(Activations(D)) /\ Len(stack) \in Nat /\ Len(stack) >= 2
    <2>1. stack \in Seq(Activations(D)) /\ stack # <<>>
      BY DEF CInv, IInv, GoodStack, ArgEnd, Expanding
    <2>2. Len(stack) \in Nat \ {0}
      BY <2>1, EmptySeq
    <2>3. Len(stack) # 1
      BY DEF ArgEnd, Outermost
    <2>4. \A k \in Nat \ {0} : k # 1 => k \in Nat /\ k >= 2
      OBVIOUS
    <2> QED
      BY <2>1, <2>2, <2>3, <2>4
  <1>2. caller \in Activations(D) /\ Waits(caller.sub) /\ ActivationChained(caller)
    BY <1>1, ElementOfSeq DEF CInv, IInv, GoodStack
  <1>3. PICK m \in D : caller.sub \in SubOf(m)
    BY <1>2 DEF Activations, Waits, NoSub
  <1>4. DOMAIN caller = {"ts", "r", "sub"}
    BY <1>2 DEF Activations
  <1>5. caller.sub.on /\ formal \in DOMAIN caller.sub.args
    BY <1>2 DEF Waits
  <1>6. macros[caller.sub.m].fun
    BY <1>2, <1>5 DEF ActivationChained, SubChained
  <1> HIDE DEF known
  <1>7. a.ts = caller.ts /\ a.sub = [caller.sub EXCEPT !.is = Tail(@), !.os = @ \o Top.r,
                                                       !.known = known]
    BY <1>4
  <1>8. /\ a.sub.hs = caller.sub.hs /\ a.sub.args = caller.sub.args
        /\ a.sub.m = caller.sub.m /\ a.sub.on
    <2> DEFINE sub == [caller.sub EXCEPT !.is = Tail(@), !.os = @ \o Top.r, !.known = known]
    <2>1. /\ sub.hs = caller.sub.hs /\ sub.args = caller.sub.args
          /\ sub.m = caller.sub.m /\ sub.on
      BY <1>3 DEF SubOf
    <2> HIDE DEF sub
    <2> QED
      BY <1>7, <2>1 DEF sub
  <1>9. stack' = Append(below, a)
    BY DEF ArgEnd, known
  <1> HIDE DEF a
  <1>10. ActivationChained(a)
    BY <1>2, <1>5, <1>6, <1>7, <1>8 DEF ActivationChained, SubChained
  <1>11. /\ below \in Seq(Activations(D)) /\ DOMAIN below = 1 .. Len(below)
         /\ \A k \in DOMAIN below : 1 + k - 1 \in DOMAIN stack /\ below[k] = stack[1 + k - 1]
    BY <1>1, PartFacts
  <1> HIDE DEF below
  <1>12. \A k \in DOMAIN below : ActivationChained(below[k])
    BY <1>1, <1>11, LenProperties DEF CInv
  <1>13. \A k \in 1 .. Len(stack') : ActivationChained(stack'[k])
    <2>1. Len(below) \in Nat
      BY <1>11, LenProperties
    <2> DEFINE S == {below[k] : k \in DOMAIN below} \cup {a}
    <2>2. below \in Seq(S)
      <3>1. below \in [1 .. Len(below) -> S]
        BY <1>11, LenProperties
      <3> HIDE DEF S
      <3> QED
        BY <2>1, <3>1, SeqDef
    <2>3. a \in S
      OBVIOUS
    <2> HIDE DEF S
    <2>4. /\ Len(stack') = Len(below) + 1
          /\ \A k \in 1 .. Len(below) : stack'[k] = below[k]
          /\ stack'[Len(below) + 1] = a
      BY <1>9, <2>2, <2>3, AppendProperties
    <2>5. \A k \in 1 .. Len(stack') : k \in DOMAIN below \/ k = Len(below) + 1
      BY <1>11, <2>1, <2>4
    <2> QED
      BY <1>10, <1>11, <1>12, <2>4, <2>5
  <1>14. \A b : ActivationChained(b)' <=> ActivationChained(b)
    BY DEF ActivationChained, SubChained, ArgEnd
  <1> QED
    BY <1>13, <1>14 DEF CInv, NoneMade, ArgEnd, NoSelfCall

\* The result of subst: all of it was made by its macro, which hides itself, or
\* none of it was made by any; and it hides what made the tokens after it.
LEMMA SubstEndChains ==
    ASSUME CInv, IInv', SubstEnd
    PROVE  CInv'
  <1> DEFINE m == Top.sub.m
             hs == Top.sub.hs
             os == Top.sub.os
             ts == Replacement \o Top.ts
             a == [Top EXCEPT !.ts = Replacement \o @, !.sub = NoSub]
  <1>1. Substituting /\ UNCHANGED <<macros, text, calls>> /\ Retop(a)
    BY DEF SubstEnd
  <1>2. /\ stack # <<>> /\ ActivationChained(Top) /\ DOMAIN Top = {"ts", "r", "sub"}
        /\ MadeIn(Top.ts, hs)
        /\ ~macros[m].fun => NoneMade(os)
    BY <1>1, SubChainedFacts
  <1>3. Top.ts \in Seq(Hidden) /\ m \in hs /\ os \in Seq(OwnedBy({m}))
    BY <1>1, SubFacts DEF CInv, Activations, SubOf
  <1>4. Replacement \in Seq(Hidden)
    BY <1>1, ReplacementIsHidden DEF CInv
  <1>5. /\ DOMAIN Replacement = DOMAIN os
        /\ \A i \in DOMAIN os : /\ hs \subseteq Replacement[i].hs
                                /\ Replacement[i].by = IF macros[m].fun THEN m ELSE os[i].by
    <2>1. \A i \in DOMAIN os : DOMAIN os[i] = {"v", "hs", "by"}
      BY <1>3, ElementOfSeq, LenProperties DEF OwnedBy, Token
    <2>2. Replacement = [i \in DOMAIN os |->
                [os[i] EXCEPT !.hs = @ \cup hs, !.by = IF macros[m].fun THEN m ELSE @]]
      BY DEF Replacement
    <2> HIDE DEF os, hs, m
    <2> QED
      BY <2>1, <2>2
  <1> HIDE DEF os, hs, m
  <1>6. Chained(Replacement)
    <2>1. CASE macros[m].fun
      BY <1>3, <1>5, <2>1 DEF Chained
    <2>2. CASE ~macros[m].fun
      <3>1. NoneMade(os)
        BY <1>2, <2>2
      <3>2. \A i \in DOMAIN Replacement : i \in DOMAIN os /\ Replacement[i].by = os[i].by
        BY <1>5, <2>2
      <3> QED
        BY <3>1, <3>2 DEF Chained, NoneMade, Made
    <2> QED
      BY <2>1, <2>2
  <1>7. \A i \in DOMAIN Replacement, j \in DOMAIN Top.ts :
            Made(Top.ts[j]) => Top.ts[j].by \in Replacement[i].hs
    <2>1. MadeIn(Top.ts, hs)
      BY <1>2
    <2>2. \A i \in DOMAIN Replacement : hs \subseteq Replacement[i].hs
      BY <1>5
    <2> QED
      BY <2>1, <2>2 DEF MadeIn
  <1>8. Chained(ts)
    BY <1>2, <1>3, <1>4, <1>6, <1>7, ChainedConcat DEF ActivationChained
  <1>9. a.ts = ts /\ a.sub = NoSub
    BY <1>2
  <1> HIDE DEF ts, a
  <1>10. ActivationChained(a)
    <2>1. ~a.sub.on
      BY <1>9 DEF NoSub
    <2> QED
      BY <1>8, <1>9, <2>1 DEF ActivationChained, SubChained
  <1> QED
    BY <1>1, <1>2, <1>10, RetopKeepsChained DEF CInv, NoneMade, NoSelfCall

LEMMA StepChains ==
    ASSUME CInv, [Next]_vars
    PROVE  CInv'
  <1>1. IInv'
    BY StepKeeps DEF CInv
  <1>2. CASE Next
    BY <1>1, <1>2, GetNextChains, KeepChains, ExpandObjectChains,
       ExpandNameChains, ExpandFunctionChains, ExpandEndChains, SubstChains,
       ArgBeginChains, ArgEndChains, SubstEndChains DEF Next
  <1>3. CASE UNCHANGED vars
    BY <1>1, <1>3 DEF vars, CInv, NoneMade, NoSelfCall, ActivationChained, SubChained
  <1> QED
    BY <1>2, <1>3

\* In the graph of calls that macro_expand and arg_token register no macro
\* calls itself, for every text and every table in which gather_args keeps the
\* hide set of a bracket or comma of each call.
THEOREM NoMacroCallsItself ==
    ASSUME BracketsKept
    PROVE  Spec => []NoSelfCall
  <1>1. Init => CInv
    BY InitChains
  <1>2. CInv /\ [Next]_vars => CInv'
    BY StepChains
  <1>3. CInv => NoSelfCall
    BY DEF CInv
  <1> QED
    BY <1>1, <1>2, <1>3, PTL DEF Spec

=============================================================================

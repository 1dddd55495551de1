------------------------------- MODULE Types -------------------------------
(***************************************************************************)
(* Types: the nodes that stand for them (type.h, type2.h, type.cpp) and    *)
(* the parser actions that make them from declarations and follow them     *)
(* through expressions (parse.y).  Which member of which structure a name  *)
(* after "." or "->" is unified with depends on nothing else.              *)
(*                                                                         *)
(* A type is the tree of its nodes; nodes that several types share are the *)
(* subject of Declarations, as are scopes: here all names are declared at  *)
(* file level, once.  Qualifiers have no consequence but for the actions   *)
(* that handle them and are left out of the nodes.                         *)
(*                                                                         *)
(* A program is a sequence of declarations, the trees of their text:       *)
(*   declaration [spec, decls]: specifiers and declarators                 *)
(*   specifier   [k: word, w], [k: ref, key, tag], [k: name, n], [k: typeof, n],*)
(*               [k: def, key, tag, union, list], list of declarations,    *)
(*               [k: enum, key, tag, list], list of [n, v]                 *)
(*   declarator  [n, d], with d of [op: "id"], [op: "*", of],              *)
(*               [op: "[]", of, bound], [op: "()", of, n], [op: "pad"]     *)
(*   bound       [n, v, known], the enumerator n or v, which the code may  *)
(*               be unable to compute                                      *)
(* A token is <<declaration, structure, name>>.  In a second part of each  *)
(* state the same text means what ISO C says (6.2.5, 6.5, 6.7).            *)
(***************************************************************************)
EXTENDS Integers, Sequences, TLC, FiniteSets, SequencesExt, FiniteSetsExt

CONSTANTS
    Program,    \* sequences of declarations
    MaxOps,     \* bound: operands and operators of an expression
    Misread       \* constructs that the code misreads and programs may have

Misreadings == {"unknown_value",   \* an enumerator after one of unknown value
             "unknown_bound",   \* the size of a structure with an array
             "not_pointer",     \* an operand !p
             "null_default",    \* p ?: NULL
             "function_or_null", \* a function as one operand of ?:, 0 the other
             "colon",           \* initializers with "member:", out of order
             "unnamed",         \* a designator that leaves members out by
                                \* going into an unnamed structure
             "long_designator", \* a designator of three components
             "same_count"}      \* structures of equally many members

ASSUME TypesAssumption == MaxOps \in Nat /\ Misread \subseteq Misreadings

VARIABLES
    program,    \* what is parsed
    read,       \* the declarations read
    obj, tag,   \* the tables of the file's block
    lang,       \* history: what the declarations mean in the language
    values,     \* operands on the parser's stack
    ops         \* operands and operators of the expression so far

tvars == <<program, read, obj, tag, lang, values, ops>>

Unknown == -1       \* a CTConst that is not known
NoValue == -2       \* an enumerator without value

Storage(sc, sd, lk) == [sc |-> sc, sd |-> sd, lk |-> lk]
NoStorage == Storage("unspecified", "none", "none")
StorageNamed ==
    [typedef |-> Storage("typedef", "none", "none"),
     extern |-> Storage("unspecified", "none", "external"),
     static |-> Storage("unspecified", "static", "internal"),
     register |-> Storage("unspecified", "auto", "none")]
Qualifier == {"const", "volatile", "inline"}
Signs == {"signed", "unsigned"}

-----------------------------------------------------------------------------
(* Type nodes                                                              *)

Basic(b) == [k |-> "basic", b |-> b, sign |-> "none", st |-> NoStorage]
Abstract == Basic("abstract")
Undeclared == Basic("undeclared")
ArrayOf(t, n) == [k |-> "array", of |-> t, n |-> n]
PointerTo(t) == [k |-> "pointer", of |-> t]
FunctionReturning(t, n) == [k |-> "function", of |-> t, n |-> n]
StructUnion(ordinal, names) ==
    [k |-> "su", ordinal |-> ordinal, names |-> names, union |-> FALSE,
     st |-> NoStorage]
Incomplete(n) == [k |-> "incomplete", tag |-> n, st |-> NoStorage]
Enum == [k |-> "enum", st |-> NoStorage]

Derived(t) == t.k \in {"array", "pointer", "function"}
IsPtr(t) == t.k \in {"array", "pointer"}
IsAbstract(t) == t.k = "basic" /\ t.b = "abstract"
IsBasic(t, b) == t.k = "basic" /\ t.b = b

RECURSIVE Base(_), WithBase(_, _)
Base(t) == IF Derived(t) THEN Base(t.of) ELSE t
WithBase(t, b) == IF Derived(t) THEN [t EXCEPT !.of = WithBase(@, b)] ELSE b

SetAbstract(t, u) == IF IsAbstract(Base(t)) THEN WithBase(t, u) ELSE t

Either(a, b, none) == IF a = none THEN b ELSE a

\* merge_storage_duration, merge_linkage
MergedStorage(s, u) ==
    [sc |-> Either(s.sc, u.sc, "unspecified"), sd |-> Either(s.sd, u.sd, "none"),
     lk |-> Either(s.lk, u.lk, "none")]

SetStorageClass(t, u) ==
    LET s == Base(t).st
        new == Base(u).st
    IN  WithBase(t, [Base(t) EXCEPT !.st =
            [MergedStorage(s, new) EXCEPT
                !.sc = IF s.sc \in {"unspecified", "typedef"} THEN new.sc ELSE s.sc]])

ClearStorageClass(t) == WithBase(t, [Base(t) EXCEPT !.st = NoStorage])

MergedType(a, b) ==
    CASE a \in {"abstract", "undeclared"} -> b
      [] b \in {"abstract", "undeclared"} -> a
      [] {a, b} = {"long", "int"} -> "long"
      [] {a, b} = {"short", "int"} -> "short"
      [] {a, b} = {"long", "double"} -> "ldouble"
      [] {a, b} \in {{"long"}, {"llong", "int"}} -> "llong"
      [] OTHER -> "undeclared"

MergedSign(a, b, t) ==
    IF t \in {"float", "double", "ldouble", "_Bool"} \/ "none" \notin {a, b} THEN "none"
    ELSE Either(a, b, "none")

\* Tbasic::merge and those of the other nodes
MergeBasic(t, b) ==
    CASE t.k = "basic" ->
            LET m == MergedType(t.b, b.b)
            IN  [k |-> "basic", b |-> m, sign |-> MergedSign(t.sign, b.sign, m),
                 st |-> MergedStorage(t.st, b.st)]
      [] t.k \in {"su", "incomplete", "enum"} ->
            [t EXCEPT !.st = MergedStorage(@, b.st)]
      [] t.k = "function" -> Abstract
      [] OTHER -> t

Merge(a, b) == IF a.k = "basic" THEN MergeBasic(b, a) ELSE MergeBasic(a, b)

NoMember == [tok |-> <<>>, t |-> Undeclared]

\* Type::member of a name
RECURSIVE Member(_, _)
Member(t, n) ==
    CASE t.k = "su" /\ n \in DOMAIN t.names -> t.names[n]
      [] t.k = "incomplete" /\ t.tag \in DOMAIN tag ->
            IF tag[t.tag].t.k = "incomplete" THEN NoMember ELSE Member(tag[t.tag].t, n)
      [] OTHER -> NoMember

\* sizeof and alignof of an LP64 machine; 0 stands for unknown
BasicSize == [void |-> 1, char |-> 1, _Bool |-> 1, short |-> 2, int |-> 4, float |-> 4,
              long |-> 8, double |-> 8, llong |-> 8, ldouble |-> 16]
PointerSize == 8

AlignUp(x, a) == IF a <= 1 THEN x ELSE ((x + a - 1) \div a) * a

RECURSIVE AlignOf(_), SizeOf(_)
AlignOf(t) ==
    CASE t.k = "basic" -> IF t.b \in DOMAIN BasicSize THEN BasicSize[t.b] ELSE 0
      [] t.k = "array" -> AlignOf(t.of)
      [] t.k = "pointer" -> PointerSize
      [] t.k = "su" ->
            LET aligns == {AlignOf(t.ordinal[i].t) : i \in DOMAIN t.ordinal}
            IN  IF 0 \in aligns THEN 0 ELSE Max(aligns \cup {1})
      [] OTHER -> 0
SizeOf(t) ==
    CASE t.k = "basic" -> IF t.b \in DOMAIN BasicSize THEN BasicSize[t.b] ELSE 0
      [] t.k = "array" -> IF t.n = Unknown THEN 0 ELSE t.n * SizeOf(t.of)
      [] t.k = "pointer" -> PointerSize
      [] t.k = "su" ->
            LET size(m) == SizeOf(m.t)
                after(end, m) == AlignUp(end, AlignOf(m.t)) + size(m)
                sizes == {size(t.ordinal[i]) : i \in DOMAIN t.ordinal}
            IN  IF AlignOf(t) = 0 \/ t.ordinal = <<>> THEN 0
                ELSE AlignUp(IF t.union THEN Max(sizes)
                             ELSE FoldLeft(after, 0, t.ordinal), AlignOf(t))
      [] OTHER -> 0

-----------------------------------------------------------------------------
(* Declarations                                                            *)
(* env is [at, obj, tag]: the number of the declaration, and the tables.   *)

Token(env, key, n) == <<env.at, key, n>>

Define(env, table, n, tok, t, val) ==
    [env EXCEPT ![table] = (n :> [tok |-> tok, t |-> t, val |-> val]) @@ @]

\* simple_type_qualifier, storage_class, basic_type_name
Word(w) ==
    CASE w \in DOMAIN StorageNamed -> [Abstract EXCEPT !.st = StorageNamed[w]]
      [] w \in Qualifier -> Abstract
      [] w \in Signs -> [Abstract EXCEPT !.sign = w]
      [] OTHER -> Basic(w)

\* completed_typedef
CompletedTypedef(env, n) ==
    LET t == env.obj[n].t
    IN  IF t.k = "incomplete" /\ t.tag \in DOMAIN env.tag THEN env.tag[t.tag].t ELSE t

Bound(env, b) == IF b.n # "" THEN env.obj[b.n].val
                 ELSE IF b.known THEN b.v ELSE Unknown

\* identifier_declarator and the others: from the identifier outwards
RECURSIVE DeclaratorType(_, _)
DeclaratorType(env, d) ==
    CASE d.op = "*" -> SetAbstract(DeclaratorType(env, d.of), PointerTo(Abstract))
      [] d.op = "[]" -> SetAbstract(DeclaratorType(env, d.of),
                                    ArrayOf(Abstract, Bound(env, d.bound)))
      [] d.op = "()" -> SetAbstract(DeclaratorType(env, d.of),
                                    FunctionReturning(Abstract, d.n))
      [] OTHER -> Abstract

\* enumerator_list
Enumerate(env, s) ==
    LET one(a, e) ==
            LET v == IF e.v >= 0 THEN e.v ELSE a.next
            IN  [next |-> v + 1,
                 env |-> Define(a.env, "obj", e.n, Token(env, s.key, e.n),
                                [Basic("int") EXCEPT !.st.sc = "enum"], v)]
    IN  FoldLeft(one, [next |-> 0, env |-> env], s.list).env

\* aggregate_name without a list of members
Referred(env, s) ==
    IF s.tag \in DOMAIN env.tag THEN [env |-> env, t |-> env.tag[s.tag].t]
    ELSE [env |-> Define(env, "tag", s.tag, Token(env, "", s.tag), Incomplete(s.tag), Unknown),
          t |-> Incomplete(s.tag)]

\* A member_declarator, added to those before it in the list
AddMember(env, key, su, t, decl) ==
    IF decl.d.op = "pad" THEN su
    ELSE LET m == [n |-> decl.n, tok |-> Token(env, key, decl.n),
                   t |-> SetAbstract(DeclaratorType(env, decl.d), t)]
         IN  [su EXCEPT !.ordinal = Append(@, m),
                        !.names = (decl.n :> [tok |-> m.tok, t |-> m.t]) @@ @]

\* A structure without a name as a member
Unnamed(t) ==
    IF t.k # "su" THEN Undeclared
    ELSE StructUnion(<<[n |-> "", tok |-> <<>>, t |-> t]>>, t.names)

\* Tsu::merge_with
MergeWith(su, u) == [su EXCEPT !.ordinal = @ \o u.ordinal, !.names = @ @@ u.names]

RECURSIVE Specifiers(_, _)

\* member_declaring_list, a structure of the members of one declaration
MembersOf(spec, m, key) ==
    LET add(su, decl) == AddMember(spec.env, key, su, spec.t, decl)
    IN  [env |-> spec.env,
         t |-> IF m.decls = <<>> THEN Unnamed(spec.t)
               ELSE FoldLeft(add, StructUnion(<<>>, <<>>), m.decls)]

\* member_declaration_list: one after those of the declarations before
Joined(before, one) ==
    [env |-> one.env,
     t |-> CASE one.t.k # "su" -> before
             [] before.k # "su" -> one.t
             [] OTHER -> MergeWith(before, one.t)]
MemberDeclaration(acc, m, key) ==
    Joined(acc.t, MembersOf(Specifiers(acc.env, m.spec), m, key))

\* aggregate_name with a list of members
TypeOfList(list, s) ==
    IF s.list = <<>> THEN [StructUnion(<<>>, <<>>) EXCEPT !.union = s.union]
    ELSE IF list.k = "su" THEN [list EXCEPT !.union = s.union] ELSE list
Tagged(env, s, t) ==
    [env |-> IF s.tag = "" THEN env
             ELSE Define(env, "tag", s.tag, Token(env, s.key, s.tag), t, Unknown),
     t |-> t]
AggregateOf(list, s) == Tagged(list.env, s, TypeOfList(list.t, s))
Aggregate(env, s) ==
    AggregateOf(FoldLeft(LAMBDA acc, m : MemberDeclaration(acc, m, s.key),
                         [env |-> env, t |-> Undeclared], s.list), s)

OneSpecifier(env, s) ==
    CASE s.k = "word" -> [env |-> env, t |-> Word(s.w)]
      [] s.k = "name" -> [env |-> env, t |-> CompletedTypedef(env, s.n)]
      [] s.k = "typeof" -> [env |-> env, t |-> ClearStorageClass(env.obj[s.n].t)]
      [] s.k = "ref" -> Referred(env, s)
      [] s.k = "enum" -> Tagged(Enumerate(env, s), s, Enum)
      [] OTHER -> Aggregate(env, s)

StorageWord(s) == s.k = "word" /\ s.w \in DOMAIN StorageNamed

\* The rules of declaration_specifier and type_specifier, for a specifier s
\* after others: seen are those before it
Specified(acc, s, r) ==
    LET \* what the list before s is: words only, of which one a storage class
        storage == \E i \in DOMAIN acc.seen : StorageWord(acc.seen[i])
        words == \A i \in DOMAIN acc.seen : acc.seen[i].k = "word"
    IN  [env |-> r.env, seen |-> Append(acc.seen, s),
         t |-> CASE s.k = "word" /\ acc.seen = <<>> -> r.t
                 [] s.k = "word" ->
                        IF ~words /\ StorageWord(s) THEN SetStorageClass(acc.t, r.t)
                        ELSE Merge(acc.t, r.t)
                 [] storage -> SetStorageClass(r.t, acc.t)
                 [] s.k \in {"name", "typeof"} -> ClearStorageClass(r.t)
                 [] acc.seen = <<>> -> r.t
                 [] OTHER -> Merge(r.t, acc.t)]
Specify(acc, s) == Specified(acc, s, OneSpecifier(acc.env, s))

Specifiers(env, spec) ==
    FoldLeft(LAMBDA acc, s : Specify(acc, s),
             [env |-> env, seen |-> <<>>, t |-> Abstract], spec)

\* declaring_list: each declarator is declared as soon as it is read
DeclareEach(spec, d) ==
    FoldLeft(LAMBDA e, x : Define(e, "obj", x.n, Token(e, "", x.n),
                                  SetAbstract(DeclaratorType(e, x.d), spec.t), Unknown),
             spec.env, d.decls)
DeclareAll(env, d) == DeclareEach(Specifiers(env, d.spec), d)

-----------------------------------------------------------------------------
(* The language: c is [at, obj, tag, content], where a structure type is   *)
(* its identity, and content has the members of those that are complete.   *)

CBasic(b, sign) == [k |-> "basic", b |-> b, sign |-> sign]
CInt == CBasic("int", "none")
CVoid == CBasic("void", "none")
CEnum == [k |-> "enum"]
CStruct(id) == [k |-> "su", id |-> id]
CPointer(t) == [k |-> "pointer", of |-> t]
CArray(t, n) == [k |-> "array", of |-> t, n |-> n]
CFunction(t) == [k |-> "function", of |-> t]

\* 6.7.2: the type that words denote, in whatever order
CWords(spec) ==
    LET count(w) == Cardinality({i \in DOMAIN spec : spec[i] = [k |-> "word", w |-> w]})
        has(w) == count(w) > 0
        b == CASE has("void") -> "void"   [] has("_Bool") -> "_Bool"
               [] has("char") -> "char"   [] has("float") -> "float"
               [] has("double") -> IF has("long") THEN "ldouble" ELSE "double"
               [] has("short") -> "short" [] count("long") = 1 -> "long"
               [] count("long") = 2 -> "llong"
               [] OTHER -> "int"
    IN  CBasic(b, IF has("unsigned") THEN "unsigned"
                  ELSE IF has("signed") /\ b = "char" THEN "signed" ELSE "none")

\* What a type specifier adds to what is known, and the structure it denotes
CIdentity(c, s) == IF s.tag \in DOMAIN c.tag THEN c.tag[s.tag] ELSE <<c.at, s.key, s.tag>>
CTagged(c, s) == IF s.tag = "" THEN c
                 ELSE [c EXCEPT !.tag = (s.tag :> CIdentity(c, s)) @@ @]

CBound(c, b) == IF b.n = "" THEN b.v ELSE c.obj[b.n].val

\* 6.7.6: the type of the name in a declarator of a given type
RECURSIVE CDeclared(_, _, _)
CDeclared(c, d, t) ==
    CASE d.op = "*" -> CDeclared(c, d.of, CPointer(t))
      [] d.op = "[]" -> CDeclared(c, d.of, CArray(t, CBound(c, d.bound)))
      [] d.op = "()" -> CDeclared(c, d.of, CFunction(t))
      [] OTHER -> t

CObject(t, st, val) == [t |-> t, st |-> st, val |-> val]

\* 6.7.2.2: an enumerator without value is one more than the one before,
\* whose value may not be known here
CEnumerators(c, s) ==
    LET one(a, e) ==
            LET v == IF e.v # NoValue THEN e.v ELSE a.next
            IN  [next |-> IF v = Unknown THEN Unknown ELSE v + 1,
                 c |-> [a.c EXCEPT !.obj = (e.n :> CObject(CInt, "enum", v)) @@ @]]
    IN  FoldLeft(one, [next |-> 0, c |-> c], s.list).c

RECURSIVE CSpecified(_, _)

CMembers(c, s) ==
    LET id == CIdentity(c, s)
        put(a, m) ==
            LET t == CSpecified(a, m.spec)
                new == IF m.decls = <<>> THEN <<[n |-> "", tok |-> <<>>, t |-> t.t]>>
                       ELSE LET named == SelectSeq(m.decls, LAMBDA x : x.d.op # "pad")
                            IN  [i \in DOMAIN named |->
                                    [n |-> named[i].n, tok |-> <<c.at, s.key, named[i].n>>,
                                     t |-> CDeclared(t.c, named[i].d, t.t)]]
            IN  [t.c EXCEPT !.open = Append(Front(@), Last(@) \o new)]
        all == FoldLeft(put, [CTagged(c, s) EXCEPT !.open = Append(@, <<>>)], s.list)
    IN  [all EXCEPT !.open = Front(@),
                    !.content = (id :> [union |-> s.union, list |-> Last(all.open)]) @@ @]

\* 6.7: the storage class apart, one specifier gives the type
CSpecified(c, spec) ==
    LET of == {i \in DOMAIN spec : spec[i].k # "word"}
        s == spec[CHOOSE i \in of : TRUE]
    IN  IF of = {} THEN [c |-> c, t |-> CWords(spec)]
        ELSE CASE s.k \in {"name", "typeof"} -> [c |-> c, t |-> c.obj[s.n].t]
               [] s.k = "ref" -> [c |-> CTagged(c, s), t |-> CStruct(CIdentity(c, s))]
               [] s.k = "enum" -> [c |-> CEnumerators(CTagged(c, s), s), t |-> CEnum]
               [] OTHER -> [c |-> CMembers(c, s), t |-> CStruct(CIdentity(c, s))]

CStorage(spec) ==
    LET at == {i \in DOMAIN spec : StorageWord(spec[i])}
    IN  IF at = {} THEN "none" ELSE spec[CHOOSE i \in at : TRUE].w

CDeclaring(c, d) ==
    LET spec == CSpecified(c, d.spec)
    IN  FoldLeft(LAMBDA a, x : [a EXCEPT !.obj =
                     (x.n :> CObject(CDeclared(a, x.d, spec.t), CStorage(d.spec), Unknown)) @@ @],
                 spec.c, d.decls)

\* 6.2.5: a type that is complete
RECURSIVE CComplete(_, _)
CComplete(c, t) ==
    CASE t.k = "su" -> t.id \in DOMAIN c.content
      [] t.k = "array" -> CComplete(c, t.of)
      [] t.k = "function" -> FALSE
      [] OTHER -> t # CVoid

\* 6.7.2.1 and GNU C: the member a name denotes, perhaps in one without name
RECURSIVE CMember(_, _, _)
CMember(c, t, n) ==
    LET list == c.content[t.id].list
        at == {i \in DOMAIN list : list[i].n = n}
        within == {CMember(c, list[i].t, n) : i \in {j \in DOMAIN list : list[j].n = ""}}
                    \ {NoMember}
    IN  IF at # {} THEN [tok |-> list[Max(at)].tok, t |-> list[Max(at)].t]
        ELSE IF within # {} THEN CHOOSE m \in within : TRUE ELSE NoMember

CHasMembers(c, t) == t.k = "su" /\ t.id \in DOMAIN c.content

\* The layout of the machine's ABI: each member at the first place that suits
CUp(x, a) == CHOOSE y \in x .. x + a - 1 : y % a = 0

RECURSIVE CAlign(_, _), CSize(_, _)
CAlign(c, t) ==
    CASE t.k = "su" -> Max({CAlign(c, m.t) : m \in ToSet(c.content[t.id].list)} \cup {1})
      [] t.k = "array" -> CAlign(c, t.of)
      [] t.k = "pointer" -> 8
      [] t.k = "enum" -> 4
      [] OTHER -> BasicSize[t.b]
CSize(c, t) ==
    CASE t.k = "array" -> t.n * CSize(c, t.of)
      [] t.k = "pointer" -> 8
      [] t.k = "enum" -> 4
      [] t.k = "su" ->
            LET list == c.content[t.id].list
                sizes == {CSize(c, m.t) : m \in ToSet(list)}
                after(end, m) == CUp(end, CAlign(c, m.t)) + CSize(c, m.t)
            IN  CUp(IF c.content[t.id].union THEN Max(sizes \cup {0})
                    ELSE FoldLeft(after, 0, list), CAlign(c, t))
      [] OTHER -> BasicSize[t.b]

-----------------------------------------------------------------------------
(* Reading the declarations of the program                                 *)

Env == [at |-> read + 1, obj |-> obj, tag |-> tag]

TStart ==
    /\ read = 0
    /\ obj = <<>> /\ tag = <<>>
    /\ lang = [at |-> 1, obj |-> <<>>, tag |-> <<>>, content |-> <<>>, open |-> <<>>]
    /\ values = <<>> /\ ops = 0

TInit == program \in Program /\ TStart

ReadDeclaration ==
    /\ read < Len(program)
    /\ LET env == DeclareAll(Env, program[read + 1])
       IN  obj' = env.obj /\ tag' = env.tag
    /\ lang' = [CDeclaring(lang, program[read + 1]) EXCEPT !.at = @ + 1]
    /\ read' = read + 1
    /\ UNCHANGED <<program, values, ops>>

Parsed == read = Len(program)

-----------------------------------------------------------------------------
(* Expressions: the operands that the parser has on its stack, each with   *)
(* the type of the code, t, what it is in the language, c, whether it is   *)
(* an lvalue there or a null pointer constant, and the tokens that the     *)
(* last member access unified and should have.                             *)

Operand(t, c) == [t |-> t, c |-> c, lv |-> FALSE, null |-> FALSE, got |-> <<>>, want |-> <<>>]
Lvalue(t, c) == [Operand(t, c) EXCEPT !.lv = TRUE]

TopValue == Last(values)
Below == values[Len(values) - 1]

Reduced(n, v) == values' = Append(SubSeq(values, 1, Len(values) - n), v)

CIsPtr(c) == c.k \in {"array", "pointer"}
CDecayed(c) == IF c.k = "array" THEN CPointer(c.of)
               ELSE IF c.k = "function" THEN CPointer(c) ELSE c
CArithmetic(c) == c.k = "enum" \/ (c.k = "basic" /\ c.b # "void")

\* primary_expression: a name, a number, a string, (void *)0
PrimaryName(n) ==
    /\ lang.obj[n].st # "typedef"
    /\ Reduced(0, [Operand(obj[n].t, lang.obj[n].t) EXCEPT
                      !.lv = lang.obj[n].st # "enum" /\ lang.obj[n].t.k # "function"])
PrimaryOther ==
    \/ Reduced(0, [Operand(Basic("int"), CInt) EXCEPT !.null = TRUE])
    \/ Reduced(0, Operand(ArrayOf(Basic("char"), Unknown), CArray(CBasic("char", "none"), Unknown)))
    \/ Reduced(0, [Operand(PointerTo(Basic("void")), CPointer(CVoid)) EXCEPT !.null = TRUE])

\* Type::deref, subscript and call
Deref(t) == IF IsPtr(t) THEN t.of ELSE IF t.k = "function" THEN t ELSE Undeclared
Subscript(t) == IF IsPtr(t) THEN t.of ELSE Undeclared
RECURSIVE Call(_)
Call(t) == CASE t.k = "function" -> t.of
             [] t.k = "pointer" -> Call(t.of)
             [] OTHER -> Undeclared
CDeref(c) == IF c.k = "function" THEN c ELSE c.of

Indirection ==      \* *e
    /\ TopValue.c.k \in {"array", "pointer", "function"} /\ TopValue.c # CPointer(CVoid)
    /\ Reduced(1, [Operand(Deref(TopValue.t), CDeref(TopValue.c)) EXCEPT !.lv = TopValue.c.k # "function"])

AddressOf ==        \* &e
    /\ TopValue.lv \/ TopValue.c.k = "function"
    /\ Reduced(1, Operand(PointerTo(TopValue.t), CPointer(TopValue.c)))

FunctionCall ==     \* e(...)
    /\ CDecayed(TopValue.c).k = "pointer" /\ CDecayed(TopValue.c).of.k = "function"
    /\ Reduced(1, Operand(Call(TopValue.t), CDecayed(TopValue.c).of.of))

\* e.n, and e->n, where the code looks in the type that it points to
Accessed(t, c, n, lv) ==
    LET m == Member(t, n)
        want == CMember(lang, c, n)
    IN  [t |-> m.t, c |-> want.t, lv |-> lv, null |-> FALSE, got |-> m.tok, want |-> want.tok]
MemberAccess(n) ==
    /\ CHasMembers(lang, TopValue.c) /\ CMember(lang, TopValue.c, n) # NoMember
    /\ Reduced(1, Accessed(TopValue.t, TopValue.c, n, TopValue.lv))
MemberOfPointed(n) ==
    /\ CIsPtr(TopValue.c) /\ CHasMembers(lang, TopValue.c.of) /\ CMember(lang, TopValue.c.of, n) # NoMember
    /\ Reduced(1, Accessed(Deref(TopValue.t), TopValue.c.of, n, TRUE))

\* -e, e++ and other operators that give the type of their operand; !e and
\* sizeof, of which the code knows the second to be an int
SameType ==
    \/ /\ CArithmetic(TopValue.c) \/ (TopValue.lv /\ TopValue.c.k = "pointer")
       /\ Reduced(1, Operand(TopValue.t, TopValue.c))
    \/ /\ CArithmetic(TopValue.c) \/ (CIsPtr(TopValue.c) /\ "not_pointer" \in Misread)
       /\ Reduced(1, Operand(TopValue.t, CInt))
    \/ /\ CComplete(lang, TopValue.c)
       /\ Reduced(1, Operand(Basic("int"), CInt))

\* (n)e, (n){...}: of a typedef name
Cast(n) ==
    /\ lang.obj[n].st = "typedef"
    /\ LET t == ClearStorageClass(CompletedTypedef(Env, n))
           c == lang.obj[n].t
       IN  \/ /\ c.k \in {"pointer", "basic"} /\ (CIsPtr(TopValue.c) \/ CArithmetic(TopValue.c))
              /\ Reduced(1, Operand(t, c))
           \/ /\ CComplete(lang, c)
              /\ Reduced(0, Lvalue(t, c))

\* e + f, e - f, e[f]
Sum(t, u) == IF IsPtr(u) THEN u ELSE t
Difference(t, u) == IF IsPtr(t) /\ IsPtr(u) THEN Basic("int") ELSE t
Complete(c) == CIsPtr(c) /\ CComplete(lang, c.of)
Addition ==
    /\ \/ CArithmetic(Below.c) /\ CArithmetic(TopValue.c)
       \/ Complete(Below.c) /\ CArithmetic(TopValue.c)
       \/ CArithmetic(Below.c) /\ Complete(TopValue.c)
    /\ Reduced(2, Operand(Sum(Below.t, TopValue.t),
                          CDecayed(IF CIsPtr(TopValue.c) THEN TopValue.c ELSE Below.c)))
Subtraction ==
    \/ /\ Complete(Below.c) /\ CArithmetic(TopValue.c)
       /\ Reduced(2, Operand(Difference(Below.t, TopValue.t), CDecayed(Below.c)))
    \/ /\ Complete(Below.c) /\ Complete(TopValue.c) /\ Below.c.of = TopValue.c.of
       /\ Reduced(2, Operand(Difference(Below.t, TopValue.t), CInt))
Subscription ==
    /\ \/ Complete(Below.c) /\ CArithmetic(TopValue.c)
       \/ CArithmetic(Below.c) /\ Complete(TopValue.c)
    /\ Reduced(2, Lvalue(Subscript(IF IsPtr(Below.t) THEN Below.t ELSE TopValue.t),
                         IF CIsPtr(Below.c) THEN Below.c.of ELSE TopValue.c.of))

\* e < f and the like, e && f
Comparison ==
    /\ \/ CArithmetic(Below.c) /\ CArithmetic(TopValue.c)
       \/ CIsPtr(Below.c) /\ CDecayed(Below.c) = CDecayed(TopValue.c)
    /\ Reduced(2, Operand(Basic("int"), CInt))

\* e = f, (e, f)
Assignment ==
    /\ Below.lv /\ Below.c.k # "array"
    /\ Below.c = CDecayed(TopValue.c) \/ (Below.c.k = "pointer" /\ TopValue.null)
    /\ Reduced(2, Operand(Below.t, Below.c))
Comma == Reduced(2, [TopValue EXCEPT !.lv = FALSE, !.null = FALSE])

\* 6.5.15: the type of a conditional of e and f, and whether it may be one
CConditional(v, w) ==
    LET a == CDecayed(v.c)
        b == CDecayed(w.c)
    IN  IF CIsPtr(a) /\ (w.null \/ b = CPointer(CVoid)) /\ ~v.null
        THEN IF w.null THEN a ELSE b
        ELSE IF CIsPtr(b) /\ (v.null \/ a = CPointer(CVoid)) THEN IF v.null THEN b ELSE a
        ELSE a
CMatch(v, w) ==
    LET a == CDecayed(v.c)
        b == CDecayed(w.c)
    IN  \/ a = b
        \/ CArithmetic(a) /\ CArithmetic(b)
        \/ CIsPtr(a) /\ CIsPtr(b) /\ CPointer(CVoid) \in {a, b}
        \/ CIsPtr(a) /\ w.null
        \/ CIsPtr(b) /\ v.null

\* x ? e : f, and e ?: f
ConditionalTypeFaulty(t, u) ==  \* mutant: of a void pointer and another, the first
    IF t.k = "basic" /\ IsPtr(u) THEN u ELSE t
ConditionalType(t, u) ==
    IF (t.k = "basic" \/ (IsPtr(t) /\ IsBasic(Deref(t), "void"))) /\ IsPtr(u) THEN u ELSE t
OmittedType(t, u) == IF u.k = "basic" /\ IsPtr(t) THEN t ELSE u
Conditional ==
    /\ CMatch(Below, TopValue)
    /\ \/ "function_or_null" \in Misread
       \/ (Below.t.k = "function") = (TopValue.t.k = "function")
    /\ \/ Reduced(2, Operand(ConditionalType(Below.t, TopValue.t), CConditional(Below, TopValue)))
       \/ /\ TopValue.null => CArithmetic(TopValue.c) \/ "null_default" \in Misread
          /\ Reduced(2, Operand(OmittedType(Below.t, TopValue.t), CConditional(Below, TopValue)))

MemberNames == UNION {{m.n : m \in ToSet(lang.content[id].list)} : id \in DOMAIN lang.content}
                \ {""}

TypedefNames == {n \in DOMAIN lang.obj : lang.obj[n].st = "typedef"}

Primary ==
    /\ Len(values) < 2
    /\ \/ \E n \in DOMAIN obj : PrimaryName(n)
       \/ PrimaryOther
Unary ==
    /\ values # <<>>
    /\ \/ Indirection
       \/ AddressOf
       \/ FunctionCall
       \/ \E n \in MemberNames : MemberAccess(n)
       \/ \E n \in MemberNames : MemberOfPointed(n)
       \/ SameType
       \/ \E n \in TypedefNames : Cast(n)
Binary ==
    /\ Len(values) = 2
    /\ \/ Addition
       \/ Subtraction
       \/ Subscription
       \/ Comparison
       \/ Assignment
       \/ Comma
       \/ Conditional

Evaluate ==
    /\ Parsed
    /\ ops < MaxOps
    /\ ops' = ops + 1
    /\ Primary \/ Unary \/ Binary
    /\ UNCHANGED <<program, read, obj, tag, lang>>

TNext == ReadDeclaration \/ Evaluate

TSpec == TInit /\ [][TNext]_tvars

-----------------------------------------------------------------------------
(* What the types are for                                                  *)

\* Without specifier of its own a basic type is int; sign is of characters
Plain(t) ==
    LET b == IF t.b = "abstract" THEN "int" ELSE t.b
    IN  CBasic(b, IF t.sign = "signed" /\ b # "char" THEN "none" ELSE t.sign)

\* A type node stands for a type of the language
RECURSIVE Same(_, _)
Same(t, c) ==
    CASE t.k = "basic" -> Plain(t) = c
      [] t.k = "incomplete" ->
            c.k = "su" /\ t.tag \in DOMAIN lang.tag /\ lang.tag[t.tag] = c.id
      [] t.k = "su" ->
            /\ CHasMembers(lang, c)
            /\ LET list == lang.content[c.id].list
               IN  /\ t.union = lang.content[c.id].union
                   /\ Len(t.ordinal) = Len(list)
                   /\ \A i \in DOMAIN list :
                        /\ t.ordinal[i].tok = list[i].tok
                        /\ Same(t.ordinal[i].t, list[i].t)
            /\ \A n \in MemberNames \cup DOMAIN t.names :
                  Member(t, n).tok = CMember(lang, c, n).tok
      [] t.k = "enum" -> c.k = "enum"
      [] OTHER -> /\ t.k = c.k
                  /\ t.k = "array" => t.n \in {Unknown, c.n}
                  /\ Same(t.of, c.of)

\* An operand can be used as what it is: arithmetic types serve alike, as do
\* arrays and pointers, functions and what points to them, void * and others
RECURSIVE Alike(_, _)
Alike(t, c) ==
    CASE CArithmetic(c) -> t.k = "enum" \/ (t.k = "basic" /\ ~IsBasic(t, "void")
                                              /\ t.b # "undeclared")
      [] c.k = "function" -> t.k = "function" /\ Same(t.of, c.of)
      [] CIsPtr(c) -> \/ IsPtr(t) /\ (Same(t.of, c.of) \/ c.of = CVoid)
                      \/ c.of.k = "function" /\ Alike(t, c.of)
      [] OTHER -> Same(t, c)

\* A size that the code knows is that of the type
SizeRight(t, c) ==
    CComplete(lang, c) /\ "unknown_bound" \notin Misread => SizeOf(t) \in {0, CSize(lang, c)}

StorageRight(t, st) ==
    Base(t).st = IF st = "none" THEN NoStorage
                 ELSE IF st = "enum" THEN [NoStorage EXCEPT !.sc = "enum"]
                 ELSE StorageNamed[st]

\* Every name has the type, the size, the storage class and, for an
\* enumerator, the value that its declaration gives it
DeclaredRight ==
    /\ DOMAIN obj = DOMAIN lang.obj /\ DOMAIN tag = DOMAIN lang.tag
    /\ \A n \in DOMAIN obj :
          LET o == obj[n]
              c == lang.obj[n]
          IN  /\ Same(o.t, c.t)
              /\ SizeRight(o.t, c.t)
              /\ StorageRight(o.t, c.st)
              /\ o.val = c.val

\* C finds in every declaration and expression what the program declares:
\* each name has the type that its specifiers and declarator give it in the
\* language (the reordering of specifiers, abstract types filled in from
\* the inside, structures completed later, unnamed members), and each
\* member that an expression selects is unified with the declaration of
\* the member it selects in the language
TypesRight ==
    /\ values = <<>> => DeclaredRight
    /\ \A i \in DOMAIN values :
          values[i].got = values[i].want /\ Alike(values[i].t, values[i].c)
=============================================================================

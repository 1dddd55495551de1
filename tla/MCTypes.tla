------------------------------ MODULE MCTypes ------------------------------
(***************************************************************************)
(* Types for programs of one to four declarations: every order of the      *)
(* specifiers, every declarator of two derivations, structures that refer  *)
(* to themselves and to each other, unnamed members, enumerators as array  *)
(* bounds and typedefs of all of them.                                     *)
(***************************************************************************)
EXTENDS Initializers

W(w) == [k |-> "word", w |-> w]
TypeName(n) == [k |-> "name", n |-> n]
Typeof(n) == [k |-> "typeof", n |-> n]
Ref(t) == [k |-> "ref", key |-> "", tag |-> t]
Defined(key, t, union, list) ==
    [k |-> "def", key |-> key, tag |-> t, union |-> union, list |-> list]
Enumeration(t, list) == [k |-> "enum", key |-> "", tag |-> t, list |-> list]
Enumerator(n, v) == [n |-> n, v |-> v]

Id == [op |-> "id"]
Ptr(d) == [op |-> "*", of |-> d]
ArrBy(d, b) == [op |-> "[]", of |-> d, bound |-> b]
Arr(d, v) == ArrBy(d, [n |-> "", v |-> v, known |-> TRUE])
Fun(d) == [op |-> "()", of |-> d, n |-> 0]
Pad == [op |-> "pad"]

Decl(spec, decls) == [spec |-> spec, decls |-> decls]
D(n, d) == [n |-> n, d |-> d]
One(spec, n, d) == Decl(spec, <<D(n, d)>>)
OfInt == <<W("int")>>

\* Every order of some words, and of a typedef name or a structure with others
Arrangements(seq) == {[i \in DOMAIN seq |-> seq[p[i]]] :
                        p \in {q \in [DOMAIN seq -> DOMAIN seq] : IsInjective(q)}}
WordLists ==
    {<<"static", "unsigned", "long", "int">>, <<"extern", "const", "long", "long", "unsigned">>,
     <<"typedef", "long", "double">>, <<"signed", "short", "int", "register">>,
     <<"unsigned", "char", "const", "volatile">>, <<"_Bool", "static">>, <<"long", "long", "int">>,
     <<"signed", "char">>, <<"unsigned", "static">>, <<"float", "const">>}
OfWords == {<<One(spec, "x", Id)>> :
                spec \in UNION {Arrangements([i \in DOMAIN l |-> W(l[i])]) : l \in WordLists}}

Point == Defined("p", "s", FALSE, <<Decl(OfInt, <<D("a", Id), D("b", Ptr(Id))>>)>>)
OfNames ==
    {<<One(<<W("typedef"), Point>>, "T", d), One(spec, "x", Id)>> :
        d \in {Id, Ptr(Id)},
        spec \in UNION {Arrangements(l) : l \in
            {<<W("static"), TypeName("T"), W("const")>>, <<W("extern"), TypeName("T")>>}}}
    \cup
    {<<One(spec, "x", Id), One(<<W("static"), Typeof("x")>>, "y", Ptr(Id))>> :
        spec \in Arrangements(<<W("static"), Point, W("const")>>)}

\* A structure and an object of it by a declarator of at most two derivations
Derive(ds) == {Ptr(d) : d \in ds} \cup {Arr(d, 2) : d \in {e \in ds : e.op # "()"}}
                \cup {Fun(d) : d \in {e \in ds : e.op \notin {"[]", "()"}}}
Derived1 == Derive({Id})
OfDeclarators == {<<One(<<Point>>, "x", d)>> : d \in {Id} \cup Derived1 \cup Derive(Derived1)}

Linked(n) == Defined("q", n, FALSE, <<One(<<Ref(n)>>, "a", Ptr(Id)), One(OfInt, "b", Id)>>)
Union == Defined("u", "", TRUE, <<One(<<W("char")>>, "b", Id), One(<<W("double")>>, "c", Id)>>)
OfStructures ==
    {\* a structure that refers to itself, completed after its typedef
     <<One(<<W("typedef"), Ref("s")>>, "T", Id), Decl(<<Linked("s")>>, <<>>),
       One(<<TypeName("T")>>, "x", Ptr(Id))>>,
     <<One(<<W("typedef"), Ref("s")>>, "T", Ptr(Id)), Decl(<<Linked("s")>>, <<>>),
       One(<<TypeName("T")>>, "x", Arr(Id, 3))>>,
     \* two that refer to each other
     <<Decl(<<Ref("t")>>, <<>>),
       Decl(<<Defined("p", "s", FALSE, <<One(<<Ref("t")>>, "a", Ptr(Id)), One(OfInt, "b", Id)>>)>>, <<>>),
       One(<<Defined("q", "t", TRUE, <<One(<<Ref("s")>>, "a", Id), One(<<Ref("s")>>, "c", Ptr(Id))>>)>>, "x", Id)>>,
     \* members without name, of a structure or a union without tag
     <<One(<<Defined("p", "s", FALSE, <<One(<<W("char")>>, "a", Id), Decl(<<Union>>, <<>>),
                                        One(OfInt, "d", Pad)>>)>>, "x", Ptr(Id))>>,
     <<One(<<Defined("p", "", FALSE,
            <<Decl(<<Union>>, <<>>),
              One(<<Defined("v", "t", FALSE, <<One(<<W("short")>>, "a", Arr(Id, 3))>>)>>, "a", Id)>>)>>,
           "x", Id)>>,
     <<One(<<W("typedef"), Defined("u", "", TRUE,
            <<Decl(<<Defined("v", "", FALSE, <<Decl(OfInt, <<D("a", Id), D("b", Id)>>)>>)>>, <<>>),
              One(<<W("long")>>, "c", Arr(Id, 2))>>)>>, "T", Id),
       One(<<TypeName("T")>>, "x", Fun(Ptr(Id)))>>,
     <<One(<<Ref("s")>>, "x", Ptr(Id)), Decl(<<Defined("p", "s", FALSE, <<>>)>>, <<>>)>>}

OfEnumerators ==
    {<<Decl(<<Enumeration(t, list)>>, <<>>),
       One(<<W("char")>>, "x", ArrBy(Id, [n |-> n, v |-> 0, known |-> TRUE])),
       One(<<Point>>, "y", ArrBy(ArrBy(Id, [n |-> "e", v |-> 0, known |-> TRUE]),
                                 [n |-> "", v |-> 2, known |-> k]))>> :
        t \in {"", "t"}, n \in {"e", "f", "g"}, k \in BOOLEAN,
        list \in {<<Enumerator("e", 2), Enumerator("f", NoValue), Enumerator("g", NoValue)>>,
                  <<Enumerator("g", NoValue), Enumerator("e", NoValue), Enumerator("f", 3)>>,
                  <<Enumerator("f", 5), Enumerator("e", 1), Enumerator("g", NoValue)>>}}

\* Aggregates of aggregates, to be initialized
Pair == One(<<W("typedef"), Defined("p", "", FALSE, <<Decl(OfInt, <<D("a", Id), D("b", Id)>>)>>)>>, "T", Id)
OfT(n, d) == One(<<TypeName("T")>>, n, d)
Within(union, list) == <<Defined("q", "", union, list)>>
OfAggregates ==
    {<<Pair, Decl(Within(FALSE, <<OfT("c", Id), One(OfInt, "d", Id)>>), <<D("x", Id)>>)>>,
     <<Pair, OfT("y", Id), One(Within(FALSE, <<OfT("c", Arr(Id, 2)), One(<<W("char")>>, "d", Arr(Id, 2)),
                                               OfT("e", Ptr(Id))>>), "x", Id)>>,
     <<Pair, One(<<Defined("q", "", FALSE,
                    <<One(<<Defined("u", "", TRUE, <<One(OfInt, "c", Id), OfT("d", Id)>>)>>, "e", Id),
                      One(OfInt, "f", Id)>>)>>, "x", Id)>>,
     <<Pair, OfT("x", ArrBy(Id, [n |-> "", v |-> 2, known |-> FALSE])),
       One(<<W("char")>>, "y", Arr(Arr(Id, 2), 2))>>,
     <<Pair, OfT("y", Id), One(Within(FALSE, <<OfT("c", Id), One(OfInt, "d", Id)>>), "x", Arr(Id, 2))>>,
     <<One(Within(FALSE, <<Decl(<<Union>>, <<>>), One(OfInt, "a", Arr(Id, 2))>>), "x", Id)>>}

OfUnknownValue ==
    {<<Decl(<<Enumeration("", <<Enumerator("e", Unknown), Enumerator("f", NoValue)>>)>>, <<>>)>>}

MCProgram == OfWords \cup OfNames \cup OfDeclarators \cup OfStructures \cup OfEnumerators \cup OfAggregates
    \cup IF "unknown_value" \in Misread THEN OfUnknownValue ELSE {}
NoProgram == {}
=============================================================================

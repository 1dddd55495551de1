------------------------------ MODULE MCQueries ------------------------------
(***************************************************************************)
(* Three files, one of them in two copies, read for two projects: f and g  *)
(* of file 1, a function declared in the header 2 and its copy 4, macros   *)
(* of the read-only header 3.                                              *)
(***************************************************************************)
EXTENDS Queries, TLC

\* Regular expressions, and the names (10 ...) and paths (1 ...) they match
MCMatches == ".c" :> {1} @@ "f" :> {11, 13} @@ "h" :> {2, 3, 4} @@ "e'" :> {12} @@ "other" :> {}
MCAccented == {"e'"}
MCBackwards == 10 :> 4 @@ 11 :> 3 @@ 12 :> 1 @@ 13 :> 6 @@ 14 :> 2 @@ 15 :> 5
MCSettings == {[size |-> 2, backwards |-> FALSE], [size |-> 1, backwards |-> TRUE]}

AFile(path, ro, projects, metrics, copies) ==
    [path |-> path, readonly |-> ro, projects |-> projects, metrics |-> metrics,
     copies |-> copies]
Files ==
    <<AFile(2, FALSE, {1, 2}, <<0, 1>>, {1}), AFile(1, FALSE, {1}, <<0, 2>>, {2, 4}),
      AFile(3, TRUE, {2}, <<1, 0>>, {3}), AFile(4, FALSE, {2}, <<0, 2>>, {2, 4})>>

AnId(name, members, attrs, projects) ==
    [name |-> name, members |-> members, attrs |-> attrs, projects |-> projects]
Global == {"ordinary", "lscope"}
Ids ==
    <<AnId(11, {<<1, 40>>, <<2, 0>>, <<4, 0>>}, Global \cup {"cfunction"}, {1, 2}),
      AnId(12, {<<2, 5>>, <<4, 5>>}, Global, {1}),
      AnId(10, {<<1, 3>>, <<1, 9>>, <<1, 25>>}, Global, {1}),
      AnId(13, {<<1, 20>>, <<1, 50>>}, Global \cup {"cfunction"}, {1, 2}),
      AnId(14, {<<3, 0>>, <<1, 12>>}, {"readonly", "macro"}, {1, 2}),
      AnId(15, {<<1, 30>>}, {"ordinary", "cscope"}, {1, 2}),
      AnId(12, {<<1, 35>>}, {"ordinary", "cscope", "declared_unused"}, {1}),
      AnId(10, {<<3, 7>>}, {"readonly", "macro"}, {2})>>

AFun(name, len, site, begin, end, cfun, fscope, calls, metrics) ==
    [name |-> name, len |-> len, site |-> site, begin |-> begin, end |-> end,
     cfun |-> cfun, fscope |-> fscope, calls |-> calls, metrics |-> metrics]
Funs ==
    <<AFun(11, 2, <<2, 0>>, <<1, 2>>, <<1, 15>>, TRUE, FALSE, {2, 4}, <<1, 2>>),
      AFun(13, 1, <<1, 20>>, <<1, 22>>, <<1, 45>>, TRUE, FALSE, {1, 2, 3}, <<2, 2>>),
      AFun(14, 1, <<3, 0>>, <<3, 2>>, <<3, 9>>, FALSE, TRUE, {}, <<0, 1>>),
      \* its name is made of that of f and another
      AFun(10, 4, <<2, 0>>, NoPlace, NoPlace, TRUE, FALSE, {}, <<0, 0>>),
      AFun(12, 1, <<2, 5>>, <<1, 48>>, <<1, 60>>, TRUE, FALSE, {2}, <<0, 2>>)>>

Inc(by, file, direct, required) ==
    [by |-> by, file |-> file, direct |-> direct, required |-> required]
Includes == {Inc(1, 2, TRUE, TRUE), Inc(1, 3, FALSE, TRUE), Inc(2, 3, TRUE, FALSE),
             Inc(1, 4, TRUE, FALSE)}

NoDatabase == [files |-> <<>>, ids |-> <<>>, funs |-> <<>>, includes |-> {}]
MCDatabase ==
    {NoDatabase, [files |-> Files, ids |-> Ids, funs |-> Funs, includes |-> Includes]}

Ask1(page, match, names, bindings) ==
    Page(page, Ones(names) \cup {<<"match", match>>} \cup bindings)

MCForm ==
    {Ask1("xiquery", match, {"lscope", "xfile", "qi"} \cup more, re) :
        match \in {"Y", "L", "E", "T"}, more \in {{}, {"ordinary", "xire"}, {"unused", "xfre"}},
        re \in {{<<"ire", "f">>}, {<<"fre", ".c">>}}}
    \cup {Ask1("xiquery", match, {"cfunction", "unused", button}, {}) :
        match \in {"Y", "E"}, button \in {"qf", "qfun"}}
    \cup {Ask1("xiquery", "E", {"qi"}, {<<"ire", re>>}) : re \in {"(", "e'"}}
    \cup {Ask1("xfunquery", match, {"cfun", "pscope", "qi"} \cup more, re) :
        match \in {"Y", "L"}, more \in {{}, {"defined", "xfure", "xfdre", "xfre", "xfnre"}},
        re \in {{<<v, "f">>} : v \in {"fnre", "fure", "fdre"}} \cup {{<<"fre", "h">>}}}
    \cup {Ask1("xfunquery", match, marks, {}) :
        match \in {"E", "T"}, marks \in {{"cfun", "writable", "fscope", "qf"}, {"macro", "ro", "qi"}}}
    \cup {Ask1("xfunquery", match, {"qi"} \cup down,
               {<<"c1", op>>, <<"n1", 0>>, <<"c2", 3>>, <<"n2", 2>>, <<"order", 2>>} \cup callers) :
        match \in {"Y", "L", "E"}, down \in {{}, {"reverse"}}, op \in 1 .. 2,
        callers \in {{}, {<<"ncallers", 1>>, <<"ncallerop", 3>>}}}
    \cup {Ask1("xfilequery", match, marks, conditions) :
        match \in {"Y", "L"}, marks \in {{"ro"}, {"writable", "xfre", "reverse"}},
        conditions \in {{<<"fre", "h">>}, {<<"c2", 4>>, <<"n2", 1>>, <<"order", 2>>}}}
=============================================================================

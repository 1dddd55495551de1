------------------------------ MODULE Queries -------------------------------
(***************************************************************************)
(* The queries on identifiers, functions and files: IdQuery, FunQuery,     *)
(* FileQuery and MQuery, their pages and links in cscout.cpp, and Pager.   *)
(*                                                                         *)
(* A query lives for one request.  Whatever continues it is a link of the  *)
(* page shown, whose URL spells the query out again: the other pages of a  *)
(* list, and the files listed with the elements found marked in them.      *)
(* Between the page and the link the project and the options may change.   *)
(*                                                                         *)
(* A URL is a page and its variables, a function from the names of those   *)
(* that are given; a variable that matters by being there has the value 1. *)
(* Names and paths are numbers, in the order of their letters.  Regular    *)
(* expressions are external: Matches gives what each of them matches.      *)
(***************************************************************************)
EXTENDS Integers, Sequences, FiniteSets, SequencesExt, FiniteSetsExt

CONSTANTS
    Database,       \* what was analysed: records as in DatabaseOK
    Form,           \* URLs of filled-in forms
    Settings,       \* values of the options [size, backwards]
    Backwards,      \* the order of names read backwards: [names -> Nat]
    Matches,        \* [regular expressions -> SUBSET of names and paths]
    Accented        \* those with letters outside ASCII

VARIABLES
    db,         \* the database
    project,    \* current_project, 0 for all of them
    options,    \* Option::entries_per_page and Option::sort_rev
    asked,      \* the link or form followed before any link to go on with it
    view,       \* the page shown
    told,       \* what its list had so far
    whole       \* told has all of it up to here

qvars == <<db, project, options, asked, view, told, whole>>

Attribute == {"readonly", "macro", "ordinary", "lscope", "cscope", "cfunction",
              "declared_unused"}
Metric == 1 .. 2
NoPlace == <<0, 0>>

DatabaseOK(d) ==
    /\ \A c \in DOMAIN d.ids : d.ids[c].attrs \subseteq Attribute
    \* files copied are unified: see CharPartition
    /\ \A c \in DOMAIN d.ids : \A t \in d.ids[c].members :
          \A g \in d.files[t[1]].copies : <<g, t[2]>> \in d.ids[c].members
    \* a function is declared where an identifier is
    /\ \A f \in DOMAIN d.funs : \E c \in DOMAIN d.ids :
          d.funs[f].site \in d.ids[c].members
    /\ \A f \in DOMAIN d.files : f \in d.files[f].copies

ASSUME QueriesAssumption == \A d \in Database : DatabaseOK(d)

-----------------------------------------------------------------------------
(* The database                                                            *)

\* Operators whose name ends in Faulty are variants of the one that follows
\* them, each with a plausible bug that QueriesRight must notice.

FilesOf(c) == {t[1] : t \in db.ids[c].members}          \* sorted_files
AMember(c) == CHOOSE t \in db.ids[c].members :
                 \A s \in db.ids[c].members :
                    t[1] < s[1] \/ (t[1] = s[1] /\ t[2] <= s[2])

CrossesFiles(c) ==
    Cardinality(FilesOf(c)) > Cardinality(db.files[AMember(c)[1]].copies)

Unused(c) ==
    /\ "declared_unused" \notin db.ids[c].attrs
    /\ \/ Cardinality(db.ids[c].members) = 1
       \/ Cardinality(db.files[AMember(c)[1]].copies)
            = Cardinality(db.ids[c].members)

\* The span of a function's definition has t.
Spans(f, t) ==
    LET b == db.funs[f].begin
        e == db.funs[f].end
    IN  /\ b # NoPlace /\ b[1] = e[1] /\ b[2] < e[2]
        /\ t[1] = b[1] /\ b[2] <= t[2] /\ t[2] <= e[2]

FunctionsWith(c) == {f \in DOMAIN db.funs : \E t \in db.ids[c].members : Spans(f, t)}

ClassAt(t) == CHOOSE c \in DOMAIN db.ids : t \in db.ids[c].members
ClassOf(f) == ClassAt(db.funs[f].site)
Callers(f) == {g \in DOMAIN db.funs : f \in db.funs[g].calls}

-----------------------------------------------------------------------------
(* URLs                                                                    *)

Page(name, bindings) ==
    [page |-> name,
     of |-> [v \in {b[1] : b \in bindings} |->
                (CHOOSE b \in bindings : b[1] = v)[2]]]

Has(u, v) == v \in DOMAIN u.of
Var(u, v, default) == IF Has(u, v) THEN u.of[v] ELSE default
Given(u, names) == names \cap DOMAIN u.of

When(condition, v, value) == IF condition THEN {<<v, value>>} ELSE {}
Ones(names) == {<<v, 1>> : v \in names}

\* Query::url and the server's decoding: letters outside ASCII come back as
\* another one.
Url(re) == IF re \in Accented THEN "other" ELSE re

Compiles(u, names) ==
    \A v \in names : Var(u, v, "") \in DOMAIN Matches \cup {""}

IsMatch(re, name) == name \in Matches[re]

\* Query::apply; 0 is ec_ignore.
Holds(op, a, b) ==
    CASE op = 1 -> a = b [] op = 2 -> a # b [] op = 3 -> a < b [] op = 4 -> a > b
      [] OTHER -> FALSE

-----------------------------------------------------------------------------
(* MQuery                                                                  *)

CName == <<"c1", "c2">>
NName == <<"n1", "n2">>

MQuery(u) ==
    [op |-> [j \in Metric |-> Var(u, CName[j], 0)],
     n |-> [j \in Metric |-> Var(u, NName[j], 0)],
     order |-> Var(u, "order", -1), reverse |-> Has(u, "reverse")]

MParams(m) ==
    UNION {{<<CName[j], m.op[j]>>, <<NName[j], m.n[j]>>} :
              j \in {k \in Metric : m.op[k] # 0}}
    \cup When(m.order # -1, "order", m.order)
    \cup When(m.reverse, "reverse", 1)

MEval(m, match, metrics) ==
    LET set == {j \in Metric : m.op[j] # 0}
        true == {j \in set : Holds(m.op[j], metrics[j], m.n[j])}
    IN  CASE match \in {"L", "T"} -> true = set
          [] match = "E" -> true = {}
          [] OTHER -> true # {}

-----------------------------------------------------------------------------
(* IdQuery                                                                 *)

IdMarks == Attribute \cup {"xfile", "unused", "writable"}
Marked(c, mark) ==
    CASE mark = "xfile" -> CrossesFiles(c)
      [] mark = "unused" -> Unused(c)
      [] mark = "writable" -> "readonly" \notin db.ids[c].attrs
      [] OTHER -> mark \in db.ids[c].attrs

IdQuery(u) ==
    [valid |-> (Has(u, "ec") \/ Has(u, "match")) /\ Compiles(u, {"ire", "fre"}),
     ec |-> Var(u, "ec", 0), match |-> Var(u, "match", ""),
     marks |-> Given(u, IdMarks), exclude |-> Given(u, {"xire", "xfre"}),
     ire |-> Var(u, "ire", ""), fre |-> Var(u, "fre", "")]

IdParamsFaulty(q) ==                    \* forgets xfre
    {<<"qt", "id">>}
    \cup (IF q.ec # 0 THEN {<<"ec", q.ec>>} ELSE {<<"match", q.match>>})
    \cup Ones(q.marks \cup (q.exclude \ {"xfre"}))
    \cup When(q.ire # "", "ire", Url(q.ire)) \cup When(q.fre # "", "fre", Url(q.fre))

IdParams(q) ==                          \* IdQuery::param_url
    {<<"qt", "id">>}
    \cup (IF q.ec # 0 THEN {<<"ec", q.ec>>} ELSE {<<"match", q.match>>})
    \cup Ones(q.marks \cup q.exclude)
    \cup When(q.ire # "", "ire", Url(q.ire)) \cup When(q.fre # "", "fre", Url(q.fre))

\* How the marks of a query match an element that has some of them
MarksMatch(match, marks, all, HasMark(_)) ==
    CASE match = "Y" -> \E a \in marks : HasMark(a)
      [] match = "L" -> \A a \in marks : HasMark(a)
      [] match = "E" -> \A a \in marks : ~HasMark(a)
      [] match = "T" -> \A a \in all : a \in marks <=> HasMark(a)
      [] OTHER -> FALSE

\* The elements whose names, or one of whose names, are asked for
NameMatches(re, exclude, names) ==
    re # "" => (exclude # \E n \in names : IsMatch(re, n))

IdEval(q, c) ==
    IF q.ec # 0 THEN c = q.ec ELSE
    /\ project # 0 => project \in db.ids[c].projects
    /\ NameMatches(q.ire, "xire" \in q.exclude, {db.ids[c].name})
    /\ MarksMatch(q.match, q.marks, IdMarks, LAMBDA a : Marked(c, a))
    /\ NameMatches(q.fre, "xfre" \in q.exclude,
                   {db.files[f].path : f \in FilesOf(c)})

-----------------------------------------------------------------------------
(* FunQuery                                                                *)

FunMarks == {"cfun", "macro", "writable", "ro", "pscope", "fscope", "defined"}
FunHas(f, mark) ==
    LET readonly == "readonly" \in db.ids[ClassOf(f)].attrs
    IN  CASE mark = "cfun" -> db.funs[f].cfun
          [] mark = "macro" -> ~db.funs[f].cfun
          [] mark = "writable" -> ~readonly
          [] mark = "ro" -> readonly
          [] mark = "pscope" -> ~db.funs[f].fscope
          [] mark = "fscope" -> db.funs[f].fscope
          [] mark = "defined" -> db.funs[f].begin # NoPlace

FunRes == {"fnre", "fure", "fdre", "fre"}

FunQuery(u) ==
    [valid |-> (Has(u, "ec") \/ Has(u, "match")) /\ Compiles(u, FunRes),
     ec |-> Var(u, "ec", 0), call |-> Var(u, "call", 0), fid |-> Var(u, "fid", 0),
     match |-> IF Has(u, "ec") THEN "Y" ELSE Var(u, "match", ""),
     marks |-> Given(u, FunMarks), metrics |-> MQuery(u),
     ncallerop |-> IF Has(u, "ncallers") THEN Var(u, "ncallerop", 0) ELSE 0,
     ncallers |-> Var(u, "ncallers", 0),
     re |-> [v \in FunRes |-> Var(u, v, "")],
     exclude |-> Given(u, {"xfnre", "xfure", "xfdre", "xfre"})]

FunParams(q) ==                         \* FunQuery::param_url
    {<<"qt", "fun">>}
    \cup (IF q.ec # 0 THEN {<<"ec", q.ec>>} ELSE {<<"match", q.match>>})
    \cup MParams(q.metrics)
    \cup When(q.call # 0, "call", q.call) \cup When(q.fid # 0, "fid", q.fid)
    \cup Ones(q.marks \cup q.exclude)
    \cup {<<v, Url(q.re[v])>> : v \in {w \in FunRes : q.re[w] # ""}}
    \cup When(q.ncallerop # 0, "ncallers", q.ncallers)
    \cup {<<"ncallerop", q.ncallerop>>}

Names(S) == {db.funs[f].name : f \in S}

FunEval(q, f) ==
    IF q.call # 0 THEN f = q.call
    ELSE IF q.ec # 0 THEN \E t \in db.ids[q.ec].members : Spans(f, t)
    ELSE
    /\ q.fid # 0 => db.funs[f].begin[1] = q.fid
    /\ project # 0 => project \in db.ids[ClassOf(f)].projects
    /\ LET M == MEval(q.metrics, q.match, db.funs[f].metrics)
           A == MarksMatch(q.match, q.marks, FunMarks, LAMBDA a : FunHas(f, a))
       IN  IF q.match = "Y" THEN M \/ A ELSE M /\ A
    /\ q.ncallerop # 0 => Holds(q.ncallerop, Cardinality(Callers(f)), q.ncallers)
    /\ NameMatches(q.re["fnre"], "xfnre" \in q.exclude, Names({f}))
    /\ NameMatches(q.re["fre"], "xfre" \in q.exclude,
                   {db.files[db.funs[f].site[1]].path})
    /\ NameMatches(q.re["fdre"], "xfdre" \in q.exclude, Names(db.funs[f].calls))
    /\ NameMatches(q.re["fure"], "xfure" \in q.exclude, Names(Callers(f)))

-----------------------------------------------------------------------------
(* FileQuery                                                               *)

FileHas(f, mark) == db.files[f].readonly = (mark = "ro")

FileQuery(u) ==
    [valid |-> Has(u, "match") /\ Compiles(u, {"fre"}),
     match |-> Var(u, "match", ""), metrics |-> MQuery(u),
     marks |-> Given(u, {"writable", "ro"}), exclude |-> Given(u, {"xfre"}),
     fre |-> Var(u, "fre", "")]

FileParams(q) ==                        \* FileQuery::param_url
    {<<"match", q.match>>} \cup MParams(q.metrics) \cup Ones(q.marks \cup q.exclude)
    \cup When(q.fre # "", "fre", Url(q.fre))

FileEval(q, f) ==
    /\ project # 0 => project \in db.files[f].projects
    /\ LET M == MEval(q.metrics, q.match, db.files[f].metrics)
       IN  CASE q.match = "Y" -> M \/ \E a \in q.marks : FileHas(f, a)
             [] q.match = "L" -> M /\ \A a \in q.marks : FileHas(f, a)
             [] OTHER -> M
    /\ NameMatches(q.fre, "xfre" \in q.exclude, {db.files[f].path})

-----------------------------------------------------------------------------
(* Lists                                                                   *)

Self(x) == x

\* Sorted by key, elements of equal key as they were put in: by rank.
Sorted(S, By(_), Rank(_)) ==
    LET Before(a) == {b \in S : By(b) < By(a) \/ (By(b) = By(a) /\ Rank(b) < Rank(a))}
    IN  [i \in 1 .. Cardinality(S) |-> CHOOSE a \in S : Cardinality(Before(a)) = i - 1]

\* Query::string_bi_compare
NameKey(name) == IF options.backwards THEN Backwards[name] ELSE name

\* The comparators of MQuery's users: negated, they put a new element before
\* those that equal it.
InOrderOf(m, S, Metrics(_), Name(_), Rank(_)) ==
    LET up == Sorted(S, LAMBDA a : IF m.order = -1 THEN Name(a)
                                   ELSE Metrics(a)[m.order], Rank)
    IN  IF m.reverse THEN Reverse(up) ELSE up

\* Division in C
Quotient(a, b) == IF a < 0 THEN -((-a) \div b) ELSE a \div b

\* Pager: what it lets through, and the links of its end().  base has the
\* URL of the query.
Pages(u, list, base) ==
    LET size  == options.size
        skip  == Var(u, "skip", 0)
        n     == Len(list)
        pages == (n + size - 1) \div size
        this  == Quotient(skip, size)
        Link(kind, s) == [kind |-> kind,
                          url |-> Page(base.page, base.of \cup {<<"skip", s>>})]
    IN  [shown |-> IF skip = -1 THEN list
                   ELSE SubSeq(list, Max({skip, 0}) + 1, Min({skip + size, n})),
         links |->
            IF n <= size THEN {} ELSE
            {Link("prev", skip - size) : s \in {x \in {skip} : x > 0}}
            \cup {Link("page", i * size) :
                    i \in {j \in 0 .. pages - 1 : ~(j = this /\ skip # -1)}}
            \cup {Link("next", skip + size) :
                    s \in {x \in {skip} : x # -1 /\ this + 1 < pages}}
            \cup {Link("all", -1) : s \in {x \in {skip} : x # -1}}]

Nothing == [shown |-> <<>>, links |-> {}]

InProject(f) == project # 0 => project \in db.files[f].projects
Path(f) == db.files[f].path

\* display_files
DisplayFiles(u, S, base, params) ==
    LET list == Sorted({f \in S : InProject(f)}, Path, Path)
        p == Pages(u, list, base)
    IN  [p EXCEPT !.links = @ \cup
            {[kind |-> "marked", url |-> Page("qsrc", params \cup {<<"id", f>>})] :
                f \in Range(p.shown)}]
Base(page, params) == [page |-> page, of |-> params]

XIQuery(u) ==                           \* xiquery_page
    LET q == IdQuery(u)
        params == IdParams(q)
        base(button) == Base("xiquery", params \cup {<<button, 1>>})
        found == {c \in DOMAIN db.ids : IdEval(q, c)}
    IN  IF ~q.valid THEN Nothing
        ELSE IF Has(u, "qi") THEN
            Pages(u, Sorted(found, LAMBDA c : NameKey(db.ids[c].name), Self), base("qi"))
        ELSE IF Has(u, "qf") THEN
            DisplayFiles(u, UNION {FilesOf(c) : c \in found}, base("qf"), params)
        ELSE
            Pages(u, Sorted(UNION {FunctionsWith(c) : c \in found},
                            LAMBDA f : NameKey(db.funs[f].name), Self), base("qi"))

\* Functions are kept by the place of their declaration.
Site(f) == db.funs[f].site[1] * 10000 + db.funs[f].site[2] * 100 + f

XFunQuery(u) ==                         \* xfunquery_page
    LET q == FunQuery(u)
        params == FunParams(q)
        base(button) == Base("xfunquery", params \cup {<<button, 1>>})
        found == {f \in DOMAIN db.funs : FunEval(q, f)}
    IN  IF ~q.valid THEN Nothing
        ELSE IF Has(u, "qi") THEN
            Pages(u, InOrderOf(q.metrics, found, LAMBDA f : db.funs[f].metrics,
                               LAMBDA f : NameKey(db.funs[f].name), Site), base("qi"))
        ELSE DisplayFiles(u, {db.funs[f].site[1] : f \in found}, base("qf"), params)

XFileQuery(u) ==                        \* xfilequery_page
    LET q == FileQuery(u)
        found == {f \in DOMAIN db.files : FileEval(q, f)}
    IN  IF ~q.valid THEN Nothing
        ELSE Pages(u, InOrderOf(q.metrics, found, LAMBDA f : db.files[f].metrics,
                                Path, Self), Base("xfilequery", FileParams(q)))

\* file_hypertext: the identifiers or the functions marked in a file, as
\* pairs of a position and what it links to.  The characters of a marked
\* function's name are passed over with it.
MarkedIds(q, f) ==
    UNION {{<<t[2], c>> : t \in {s \in db.ids[c].members : s[1] = f}} :
              c \in {k \in DOMAIN db.ids : q.valid /\ IdEval(q, k)}}

MarkedFunctions(q, f) ==
    LET At(p) == {g \in DOMAIN db.funs : db.funs[g].site = <<f, p>> /\ FunEval(q, g)}
        sites == {g \in DOMAIN db.funs : db.funs[g].site[1] = f}
        positions == Sorted({db.funs[g].site[2] : g \in sites}, Self, Self)
        Step(s, p) ==
            IF p < s.next \/ At(p) = {} THEN s
            ELSE LET g == Min(At(p))
                 IN  [next |-> p + db.funs[g].len, marks |-> s.marks \cup {<<p, g>>}]
    IN  IF ~q.valid THEN {}
        ELSE FoldLeft(Step, [next |-> 0, marks |-> {}], positions).marks

QSrc(u) ==                              \* query_source_page
    LET marks == IF Var(u, "qt", "id") = "id" THEN MarkedIds(IdQuery(u), u.of["id"])
                 ELSE MarkedFunctions(FunQuery(u), u.of["id"])
    IN  [shown |-> Sorted(marks, LAMBDA m : m[1], LAMBDA m : m[2]), links |-> {}]

\* query_include_page: files are in the order of their numbers.
QInc(u) ==
    LET f == u.of["id"]
        pairs == IF Has(u, "includes") THEN {i \in db.includes : i.by = f}
                 ELSE {i \in db.includes : i.file = f}
        Other(i) == IF Has(u, "includes") THEN i.file ELSE i.by
        fit == {i \in pairs :
                  /\ Has(u, "writable") => ~db.files[Other(i)].readonly
                  /\ Has(u, "direct") => i.direct
                  /\ Has(u, "used") => i.required
                  /\ Has(u, "unused") => ~i.required}
    IN  [shown |-> Sorted({Other(i) : i \in fit}, Self, Self), links |-> {}]

-----------------------------------------------------------------------------
(* Links whose text says what they show                                    *)

Link(title, page, names, bindings) ==
    [title |-> title, url |-> Page(page, Ones(names) \cup bindings)]

AllOf == {<<"match", "L">>}
AnyOf == {<<"match", "Y">>}
ExactlyOf == {<<"match", "T">>}
CallerCount(op, n) == {<<"ncallerop", op>>, <<"ncallers", n>>}

IndexLinks ==                           \* index_page
    {Link("all files", "xfilequery", {"ro", "writable"}, AnyOf),
     Link("read-only files", "xfilequery", {"ro"}, AnyOf),
     Link("writable files", "xfilequery", {"writable"}, AnyOf),
     Link("files containing unused project-scoped writable identifiers", "xiquery",
          {"writable", "lscope", "unused", "qf"}, AllOf),
     Link("files containing unused file-scoped writable identifiers", "xiquery",
          {"writable", "cscope", "unused", "qf"}, AllOf),
     Link("writable .c files without any statements", "xfilequery", {"writable"},
          AllOf \cup {<<"c1", 1>>, <<"n1", 0>>, <<"fre", ".c">>}),
     Link("writable files containing unprocessed lines", "xfilequery",
          {"writable", "reverse"},
          AllOf \cup {<<"c2", 4>>, <<"n2", 0>>, <<"order", 2>>}),
     Link("all functions", "xfunquery", {"writable", "ro", "qi"}, AnyOf),
     Link("project-scoped writable functions", "xfunquery",
          {"writable", "pscope", "qi"}, AllOf),
     Link("file-scoped writable functions", "xfunquery",
          {"writable", "fscope", "qi"}, AllOf),
     Link("writable functions that are not directly called", "xfunquery",
          {"writable", "qi"}, AnyOf \cup CallerCount(1, 0)),
     Link("writable functions that are called exactly once", "xfunquery",
          {"writable", "qi"}, AnyOf \cup CallerCount(1, 1)),
     Link("all identifiers", "xiquery", {"writable", "readonly", "qi"}, AnyOf),
     Link("read-only identifiers", "xiquery", {"readonly", "qi"}, AnyOf),
     Link("writable identifiers", "xiquery", {"writable", "qi"}, AnyOf),
     Link("file-spanning writable identifiers", "xiquery",
          {"writable", "xfile", "qi"}, AllOf),
     Link("unused project-scoped writable identifiers", "xiquery",
          {"writable", "lscope", "unused", "qi"}, AllOf),
     Link("unused file-scoped writable identifiers", "xiquery",
          {"writable", "cscope", "unused", "qi"}, AllOf),
     Link("unused writable macros", "xiquery",
          {"writable", "macro", "unused", "qi"}, AllOf),
     Link("writable variables that should be made static", "xiquery",
          {"writable", "ordinary", "lscope", "qi"},
          ExactlyOf \cup {<<"ire", "">>, <<"fre", "">>}),
     Link("writable functions that should be made static", "xiquery",
          {"writable", "ordinary", "lscope", "cfunction", "qi"},
          ExactlyOf \cup {<<"ire", "">>, <<"fre", "">>})}

FileLinks(f) ==                         \* file_page
    LET id == {<<"id", f>>}
        fid == {<<"fid", f>>, <<"ncallerop", 0>>}
    IN  {Link("source with identifier hyperlinks", "qsrc", {"writable", "readonly"},
              AnyOf \cup id \cup {<<"qt", "id">>}),
         Link("source with project-global writable identifiers", "qsrc",
              {"writable", "lscope"}, AllOf \cup id \cup {<<"qt", "id">>}),
         Link("source with file-local writable identifiers", "qsrc",
              {"writable", "cscope"}, AllOf \cup id \cup {<<"qt", "id">>}),
         Link("source with function declarations", "qsrc", {"writable", "ro"},
              AnyOf \cup id \cup {<<"qt", "fun">>}),
         Link("defined project-scoped functions", "xfunquery", {"pscope", "qi"},
              AllOf \cup fid),
         Link("defined file-scoped functions", "xfunquery", {"fscope", "qi"},
              AllOf \cup fid),
         Link("writable files directly included", "qinc",
              {"direct", "writable", "includes"}, id),
         Link("all files included", "qinc", {"includes"}, id),
         Link("writable files that must be included", "qinc",
              {"includes", "used", "writable"}, id),
         Link("unused files directly included", "qinc",
              {"direct", "unused", "includes"}, id),
         Link("files including the file", "qinc", {}, id)}

\* identifier_page and function_page
ElementLinks ==
    {Link("dependent files", "xiquery", {"qf"}, {<<"ec", c>>}) : c \in DOMAIN db.ids}
    \cup {Link("associated functions", "xfunquery", {"qi"}, {<<"ec", c>>}) :
            c \in DOMAIN db.ids}
    \cup {Link("declaration", "qsrc", {},
               AnyOf \cup {<<"qt", "fun">>, <<"id", db.funs[f].site[1]>>, <<"call", f>>}) :
            f \in DOMAIN db.funs}

\* The variables that the forms have, and the kinds of match they offer:
\* iquery_page, funquery_page and filequery_page with metrics_query_form
IdForm == IdMarks \cup {"ire", "xire", "fre", "xfre", "match", "qi", "qf", "qfun"}
MetricsForm == Range(CName) \cup Range(NName) \cup {"order", "reverse"}
FunForm ==
    FunMarks \cup FunRes \cup MetricsForm
    \cup {"xfnre", "xfure", "xfdre", "xfre", "ncallers", "ncallerop", "match", "qi", "qf"}
FileForm == {"ro", "writable", "fre", "xfre", "match"} \cup MetricsForm

FormOK(u) ==
    \/ u.page = "xiquery" /\ DOMAIN u.of \subseteq IdForm
        /\ u.of["match"] \in {"Y", "L", "E", "T"}
    \/ u.page = "xfunquery" /\ DOMAIN u.of \subseteq FunForm
        /\ u.of["match"] \in {"Y", "L", "E", "T"}
    \/ u.page = "xfilequery" /\ DOMAIN u.of \subseteq FileForm
        /\ u.of["match"] \in {"Y", "L"}

ASSUME FormAssumption == \A u \in Form : FormOK(u)

Links == IndexLinks \cup UNION {FileLinks(f) : f \in DOMAIN db.files}
            \cup ElementLinks \cup {[title |-> "form", url |-> u] : u \in Form}

-----------------------------------------------------------------------------
(* Requests                                                                *)

NoPage == [title |-> "none", url |-> Page("index", {})]
NoView == [url |-> NoPage.url, shown |-> <<>>, links |-> {}, project |-> 0,
           options |-> [size |-> 1, backwards |-> FALSE], fresh |-> TRUE]

QInit ==
    /\ db \in Database
    /\ project = 0
    /\ options \in Settings
    /\ asked = NoPage
    /\ view = NoView
    /\ told = <<>>
    /\ whole = FALSE

\* The page a URL leads to; the answer to the request is in p.
Render(u, p, fresh) ==
    view' = [url |-> u, shown |-> p.shown, links |-> p.links, project |-> project,
             options |-> options, fresh |-> fresh]

Answer(u, fresh) ==
    \/ u.page = "xiquery" /\ Render(u, XIQuery(u), fresh)
    \/ u.page = "xfunquery" /\ Render(u, XFunQuery(u), fresh)
    \/ u.page = "xfilequery" /\ Render(u, XFileQuery(u), fresh)
    \/ u.page = "qsrc" /\ Render(u, QSrc(u), fresh)
    \/ u.page = "qinc" /\ Render(u, QInc(u), fresh)

\* A form or a link of another page, after going back to where it is.
Ask(l) ==
    /\ view = NoView
    /\ Answer(l.url, TRUE)
    /\ asked' = l
    /\ told' = view'.shown
    /\ whole' = TRUE
    /\ UNCHANGED <<db, project, options>>

\* A link to go on with the query
GoOn(l) ==
    /\ l \in view.links
    /\ Answer(l.url, FALSE)
    /\ whole' = \/ l.kind = "next" /\ whole
                \/ l.kind = "page" /\ l.url.of["skip"] = 0
    /\ told' = CASE l.kind = "next" /\ whole -> told \o view'.shown
                 [] l.kind = "page" /\ whole' -> view'.shown
                 [] OTHER -> <<>>
    /\ UNCHANGED <<db, project, options, asked>>

Leave ==
    /\ view # NoView
    /\ view' = NoView /\ asked' = NoPage /\ told' = <<>> /\ whole' = FALSE
    /\ UNCHANGED <<db, project, options>>

\* set_project_page and set_options_page, while a page is still open; bound:
\* one change before its links are followed again.
Settled == view = NoView \/ (project = view.project /\ options = view.options)

SetProject(p) ==
    /\ Settled
    /\ p # project
    /\ project' = p /\ whole' = FALSE /\ told' = <<>>
    /\ UNCHANGED <<db, options, asked, view>>

SetOptions(o) ==
    /\ Settled
    /\ o # options
    /\ options' = o /\ whole' = FALSE /\ told' = <<>>
    /\ UNCHANGED <<db, project, asked, view>>

Projects == {0} \cup UNION {db.files[f].projects : f \in DOMAIN db.files}

QNext ==
    \/ \E l \in Links : Ask(l)
    \/ \E l \in view.links : GoOn(l)
    \/ Leave
    \/ \E p \in Projects : SetProject(p)
    \/ \E o \in Settings : SetOptions(o)

QSpec == QInit /\ [][QNext]_qvars
-----------------------------------------------------------------------------
(* What the queries promise                                                *)

\* Where an identifier occurs, copies of a file counted as one
Occurrences(c) == {<<Min(db.files[t[1]].copies), t[2]>> : t \in db.ids[c].members}

Needless(c) == Cardinality(Occurrences(c)) = 1
                /\ "declared_unused" \notin db.ids[c].attrs
Spreads(c) == Cardinality({o[1] : o \in Occurrences(c)}) > 1
Writable(c) == "readonly" \notin db.ids[c].attrs

\* What marks can say of an element, with the metrics' conditions of a form
True(u, metrics) ==
    {CName[j] : j \in {k \in Metric : Has(u, CName[k]) /\ u.of[CName[k]] # 0
        /\ Holds(u.of[CName[k]], metrics[k], u.of[NName[k]])}}
Set(u) == {v \in Range(CName) : Has(u, v) /\ u.of[v] # 0}
SaidOfId(c) ==
    db.ids[c].attrs \cup {m \in {"xfile"} : Spreads(c)}
    \cup {m \in {"unused"} : Needless(c)} \cup {m \in {"writable"} : Writable(c)}
SaidOfFun(f) == {m \in FunMarks : FunHas(f, m)}
SaidOfFile(f) == {IF db.files[f].readonly THEN "ro" ELSE "writable"}

Fits(u, marks, said, metrics) ==
    LET asks == Given(u, marks) \cup Set(u)
        has == said \cup True(u, metrics)
    IN  CASE u.of["match"] = "Y" -> asks \cap has # {}
          [] u.of["match"] = "L" -> asks \subseteq has
          [] u.of["match"] = "E" -> asks \cap has = {}
          [] u.of["match"] = "T" -> asks = has

\* Some of the names is, or none of them is, one the expression matches.
Among(u, re, not, names) ==
    Var(u, re, "") = "" \/ (names \cap Matches[u.of[re]] # {}) # Has(u, not)

Selected(u) ==
    CASE u.page = "xiquery" ->
            {c \in DOMAIN db.ids :
                /\ Fits(u, IdMarks, SaidOfId(c), <<0, 0>>)
                /\ Among(u, "ire", "xire", {db.ids[c].name})
                /\ Among(u, "fre", "xfre", {Path(f) : f \in FilesOf(c)})}
      [] u.page = "xfunquery" ->
            {f \in DOMAIN db.funs :
                /\ Fits(u, FunMarks, SaidOfFun(f), db.funs[f].metrics)
                /\ Has(u, "ncallers") /\ u.of["ncallerop"] # 0 =>
                      Holds(u.of["ncallerop"], Cardinality(Callers(f)), u.of["ncallers"])
                /\ Among(u, "fnre", "xfnre", Names({f}))
                /\ Among(u, "fre", "xfre", {Path(db.funs[f].site[1])})
                /\ Among(u, "fdre", "xfdre", Names(db.funs[f].calls))
                /\ Among(u, "fure", "xfure", Names(Callers(f)))}
      [] u.page = "xfilequery" ->
            {f \in DOMAIN db.files :
                /\ Fits(u, {"ro", "writable"}, SaidOfFile(f), db.files[f].metrics)
                /\ Among(u, "fre", "xfre", {Path(f)})}

\* What the text of a link promises, the project left aside
Titled(title, u) ==
    LET id == u.of["id"]
        files == DOMAIN db.files
        ids == DOMAIN db.ids
        funs == DOMAIN db.funs
        writable == {c \in ids : Writable(c)}
        Of(a) == {c \in writable : a \in db.ids[c].attrs}
        needless == {c \in writable : Needless(c)}
        rwfuns == {f \in funs : Writable(ClassOf(f))}
        rw == {f \in files : ~db.files[f].readonly}
        Only(S) == {c \in writable : db.ids[c].attrs = S /\ ~Needless(c) /\ ~Spreads(c)}
        included == {i \in db.includes : i.by = id}
    IN  CASE title = "all files" -> files
          [] title = "read-only files" -> files \ rw
          [] title = "writable files" -> rw
          [] title \in {"files containing unused project-scoped writable identifiers",
                        "unused project-scoped writable identifiers"} ->
                needless \cap Of("lscope")
          [] title \in {"files containing unused file-scoped writable identifiers",
                        "unused file-scoped writable identifiers"} ->
                needless \cap Of("cscope")
          [] title = "writable .c files without any statements" ->
                {f \in rw : Path(f) \in Matches[".c"] /\ db.files[f].metrics[1] = 0}
          [] title = "writable files containing unprocessed lines" ->
                {f \in rw : db.files[f].metrics[2] > 0}
          [] title \in {"all functions", "source with function declarations"} -> funs
          [] title = "project-scoped writable functions" ->
                {f \in rwfuns : ~db.funs[f].fscope}
          [] title = "file-scoped writable functions" ->
                {f \in rwfuns : db.funs[f].fscope}
          [] title = "writable functions that are not directly called" ->
                {f \in rwfuns : Callers(f) = {}}
          [] title = "writable functions that are called exactly once" ->
                {f \in rwfuns : Cardinality(Callers(f)) = 1}
          [] title \in {"all identifiers", "source with identifier hyperlinks"} -> ids
          [] title = "read-only identifiers" -> ids \ writable
          [] title = "writable identifiers" -> writable
          [] title = "file-spanning writable identifiers" ->
                {c \in writable : Spreads(c)}
          [] title = "unused writable macros" -> needless \cap Of("macro")
          [] title = "writable variables that should be made static" ->
                Only({"ordinary", "lscope"})
          [] title = "writable functions that should be made static" ->
                Only({"ordinary", "lscope", "cfunction"})
          [] title = "source with project-global writable identifiers" -> Of("lscope")
          [] title = "source with file-local writable identifiers" -> Of("cscope")
          [] title = "defined project-scoped functions" ->
                {f \in funs : db.funs[f].begin[1] = u.of["fid"] /\ ~db.funs[f].fscope}
          [] title = "defined file-scoped functions" ->
                {f \in funs : db.funs[f].begin[1] = u.of["fid"] /\ db.funs[f].fscope}
          [] title = "writable files directly included" ->
                rw \cap {i.file : i \in {j \in included : j.direct}}
          [] title = "all files included" -> {i.file : i \in included}
          [] title = "writable files that must be included" ->
                rw \cap {i.file : i \in {j \in included : j.required}}
          [] title = "unused files directly included" ->
                {i.file : i \in {j \in included : j.direct /\ ~j.required}}
          [] title = "files including the file" ->
                {i.by : i \in {j \in db.includes : j.file = id}}
          [] title = "dependent files" -> {u.of["ec"]}
          [] title = "associated functions" -> FunctionsWith(u.of["ec"])
          [] title = "declaration" -> {u.of["call"]}

\* What is of the project the page was made for.  Lists about one element,
\* and of included files, are not restricted.
OfProject(u, x) ==
    \/ view.project = 0 \/ Has(u, "ec") \/ Has(u, "call") \/ u.page = "qinc"
    \/ view.project \in
          CASE u.page = "xfilequery" -> db.files[x].projects
            [] u.page = "xfunquery" \/ Var(u, "qt", "id") = "fun" ->
                  db.ids[ClassOf(x)].projects
            [] OTHER -> db.ids[x].projects

Elements ==
    {x \in IF asked.title = "form" THEN Selected(asked.url)
           ELSE Titled(asked.title, asked.url) : OfProject(asked.url, x)}

ElementFiles == UNION {IF asked.url.page = "xiquery" THEN FilesOf(x)
                       ELSE {db.funs[x].site[1]} : x \in Elements}
Listed ==
    IF Has(asked.url, "qf")
    THEN {f \in ElementFiles : view.project = 0 \/ view.project \in db.files[f].projects}
    ELSE IF Has(asked.url, "qfun") THEN UNION {FunctionsWith(c) : c \in Elements}
    ELSE Elements

\* A list goes up in what it is sorted by, or down.
Key(x) ==
    LET u == asked.url
        Name(n) == IF view.options.backwards THEN Backwards[n] ELSE n
    IN  IF Has(u, "order")
        THEN (IF u.page = "xfilequery" THEN db.files[x] ELSE db.funs[x]).metrics[u.of["order"]]
        ELSE IF u.page = "qinc" THEN x
        ELSE IF Has(u, "qf") \/ u.page = "xfilequery" THEN Path(x)
        ELSE IF u.page = "xiquery" /\ Has(u, "qi") THEN Name(db.ids[x].name)
        ELSE Name(db.funs[x].name)

InOrderOnce(s) ==
    \A i, j \in DOMAIN s : i < j =>
        /\ s[i] # s[j]
        /\ IF Has(asked.url, "reverse") THEN Key(s[i]) >= Key(s[j])
           ELSE Key(s[i]) <= Key(s[j])

\* What is known not to be so: the links of a list of the functions with an
\* identifier lead to lists of identifiers, and letters outside ASCII are
\* lost in a link.
Astray ==
    ~view.fresh
        /\ \/ Has(asked.url, "qfun")
           \/ \E v \in {"ire"} \cup FunRes : Var(asked.url, v, "") \in Accented

Valid == \A v \in {"ire"} \cup FunRes :
            Var(asked.url, v, "") \in DOMAIN Matches \cup {""}

\* A list shows what the form asked for, or the text of the link promised, for
\* the project chosen when it is shown: nothing else, nothing twice, and in
\* order; read to its end page by page, none of them empty, or all at once, all of it.  The files
\* listed have exactly the elements asked for marked.  This is so however far
\* the links went, and whatever was chosen between them.
QueriesRight ==
    view # NoView /\ ~Astray =>
        IF ~Valid THEN view.shown = <<>>
        ELSE IF view.url.page = "qsrc"
        THEN LET f == view.url.of["id"]
                 Places(x) == IF view.url.of["qt"] = "fun" THEN {db.funs[x].site}
                              ELSE db.ids[x].members
                 right == {x \in Elements : \E t \in Places(x) : t[1] = f}
             IN  /\ {m[1] : m \in Range(view.shown)} =
                        UNION {{t[2] : t \in {s \in Places(x) : s[1] = f}} : x \in right}
                 /\ \A m \in Range(view.shown) : m[2] \in right /\ <<f, m[1]>> \in Places(m[2])
                 /\ \A i, j \in DOMAIN view.shown :
                       i < j => view.shown[i][1] < view.shown[j][1]
        ELSE /\ Range(view.shown) \subseteq Listed
             /\ InOrderOnce(view.shown)
             /\ Var(view.url, "skip", 0) = -1 => Listed \subseteq Range(view.shown)
             /\ whole /\ view.shown = <<>> => Listed = {}
             /\ whole /\ (\A l \in view.links : l.kind # "next") =>
                   InOrderOnce(told) /\ Range(told) = Listed
=============================================================================

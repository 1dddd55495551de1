------------------------------ MODULE CallGraph ------------------------------
(***************************************************************************)
(* The lists and graphs of functions and files that CScout shows: the      *)
(* function lists, call paths, call graphs and file dependency graphs of   *)
(* cscout.cpp, and the marks of call.h and filedetails.h they leave.       *)
(*                                                                         *)
(* By the time pages are asked for the workspace is analysed and does not  *)
(* change; a page walks over it depth first and remembers where it was in  *)
(* flags of the Call and Filedetails objects.  The flags are global: a     *)
(* walk that does not clear them first sees those of an earlier page.      *)
(* Containers of functions are ordered by address and those of files by    *)
(* number, so both are numbers here and a loop goes through them in order. *)
(* A page is the sequence of what it displays: <<x>> is an element of a    *)
(* list or a node of a graph, and <<x, y>> an edge.                        *)
(***************************************************************************)
EXTENDS Integers, Sequences, FiniteSets, SequencesExt, Functions

CONSTANTS
    Fun,            \* functions and macros: addresses of Call objects
    File,           \* numbers of files
    Workspace,      \* workspaces analysed: records as in WorkspaceOK
    Depth,          \* values of the option cgraph_depth
    MaxElements,    \* MAX_BROWSING_GRAPH_ELEMENTS
    MaxPages        \* bound: the pages asked for

ASSUME CallGraphAssumption ==
    /\ IsFiniteSet(Fun) /\ Fun \subseteq Nat
    /\ IsFiniteSet(File) /\ File \subseteq Nat \ {0}
    /\ Depth \subseteq Nat
    /\ MaxElements \in Nat \ {0, 1}
    /\ MaxPages \in Nat

VARIABLES
    ws,         \* the workspace
    depth,      \* Option::cgraph_depth
    visited,    \* Call::visited as the set of its bits
    seen,       \* the files whose Filedetails::visited is set
    printed,    \* the functions whose Call::printed is set
    page,       \* the last page: what was asked, shown, and the depth then
    pages       \* the number of pages asked for

vars == <<ws, depth, visited, seen, printed, page, pages>>

Relation(S) == [S -> SUBSET S]

WorkspaceOK(w) ==
    /\ w.call \in Relation(Fun)         \* Call::call; caller is its inverse
    /\ w.filescoped \subseteq Fun       \* is_file_scoped(): static or a macro
    /\ w.cfun \subseteq Fun             \* is_cfun(): not a macro
    /\ w.home \in [Fun -> File \cup {0}]    \* file of the definition, if any
    /\ w.direct \in Relation(File)      \* includes, is_directly_included()
    /\ w.required \in Relation(File)    \* includes, is_required()
    /\ w.uses \in Relation(File)        \* get_glob_uses()
    /\ w.readonly \subseteq File
    /\ w.browse \in BOOLEAN             \* browse_only

ASSUME WorkspaceAssumption == \A w \in Workspace : WorkspaceOK(w)

NoFlags == [f \in Fun |-> {}]

Init ==
    /\ ws \in Workspace
    /\ depth \in Depth
    /\ visited = NoFlags
    /\ seen = {}
    /\ printed = {}
    /\ page = [request |-> [page |-> "none"], shown |-> << >>, depth |-> depth]
    /\ pages = 0

-----------------------------------------------------------------------------
(* Walks                                                                   *)

InOrder(S) == SetToSortSeq(S, <)

Converse(next) == [y \in DOMAIN next |-> {x \in DOMAIN next : y \in next[x]}]

Concat(S, Seqs(_)) == FlattenSeq([k \in 1 .. Len(S) |-> Seqs(S[k])])

\* call_begin and call_end, or caller_begin and caller_end
Follow(n) == IF n \in {"d", "D"} THEN ws.call ELSE Converse(ws.call)

RECURSIVE VisitFunctions(_, _, _, _, _, _)
\* visit_functions: st holds the marks and what was listed.
VisitFunctions(st, f, next, recurse, level, id) ==
    IF level = 0 THEN st ELSE
    FoldLeft(LAMBDA s, i :
                LET new  == id \notin s.marks[i]
                    item == IF new \/ i = f
                            THEN [s EXCEPT !.listed = Append(@, <<i>>)] ELSE s
                IN  IF recurse /\ new
                    THEN VisitFunctions(item, i, next, recurse, level - 1, id)
                    ELSE item,
             [st EXCEPT !.marks[f] = {id}], InOrder(next[f]))

RECURSIVE VisitFiles(_, _, _, _)
\* visit_include_files, visit_globobj_files: the files seen from f on
VisitFiles(s, f, next, level) ==
    IF level = 0 THEN s ELSE
    FoldLeft(LAMBDA t, i : IF i \in t THEN t
                           ELSE VisitFiles(t, i, next, level - 1),
             s \cup {f}, InOrder(next[f]))

\* Files of the functions that the functions defined in f lead to, in the
\* order visit_fcall_files meets them; calls from and to macros do not count.
CalledFiles(f, next) ==
    LET Targets(g) == SelectSeq(InOrder(next[g]),
                                LAMBDA h : h \in ws.cfun /\ ws.home[h] # 0)
        Homes(g) == [k \in DOMAIN Targets(g) |-> ws.home[Targets(g)[k]]]
    IN  Concat(InOrder({g \in ws.cfun : ws.home[g] = f}), Homes)

RECURSIVE VisitCalledFiles(_, _, _, _)
\* visit_fcall_files: st holds the files seen and the matrix of edges.
VisitCalledFiles(st, f, next, level) ==
    IF level = 0 THEN st ELSE
    FoldLeft(LAMBDA s, i :
                LET t == [s EXCEPT !.edges = @ \cup {<<f, i>>}]
                IN  IF i \in t.seen THEN t
                    ELSE VisitCalledFiles(t, i, next, level - 1),
             [st EXCEPT !.seen = @ \cup {f}], CalledFiles(f, next))

\* A node of a path is printed once, and no more of them after the limit of
\* browsing was passed; the limit is of the elements of one function.
PathNode(s, f) ==
    IF f \in s.printed \/ s.count > MaxElements THEN s
    ELSE [s EXCEPT !.printed = @ \cup {f}, !.shown = Append(@, <<f>>),
                   !.count = IF ws.browse THEN @ + 1 ELSE @]

PathEdge(s, f, g) ==
    [s EXCEPT !.shown = Append(@, <<f, g>>),
              !.count = IF ws.browse THEN @ + 1 ELSE @]

RECURSIVE CallPath(_, _, _, _)
\* call_path: found is its result, count the local variable of that name.
CallPath(st, from, to, nodes) ==
    FoldLeft(LAMBDA s, i :
                IF s.count > MaxElements \/ i \in s.marks THEN s ELSE
                LET below == IF i = to THEN [s EXCEPT !.found = TRUE]
                             ELSE CallPath(s, i, to, nodes)
                    back  == [below EXCEPT !.count = s.count]
                IN  IF ~below.found THEN [back EXCEPT !.found = s.found]
                    ELSE IF nodes THEN PathNode(PathNode(back, from), i)
                    ELSE PathEdge(back, from, i),
             [st EXCEPT !.marks = @ \cup {from}, !.found = FALSE, !.count = 0],
             InOrder(ws.call[from]))

-----------------------------------------------------------------------------
(* Pages                                                                   *)

More == pages < MaxPages

Show(request, shown) ==
    /\ pages' = pages + 1
    /\ page' = [request |-> request, shown |-> shown, depth |-> depth]

\* The number of elements of a page is limited when CScout only browses.
Cut(elements) ==
    IF ws.browse /\ Len(elements) > MaxElements + 1
    THEN SubSeq(elements, 1, MaxElements + 1)
    ELSE elements

Nodes(S) == [k \in 1 .. Len(S) |-> <<S[k]>>]

\* The options page sets the depth.
SetDepth(d) ==
    /\ More
    /\ depth' = d
    /\ UNCHANGED <<ws, visited, seen, printed, page, pages>>

\* Operators whose name ends in Faulty are variants of the one that follows
\* them, each with a plausible bug that the properties below must notice.

\* funlist_page
FunList(f, n) ==
    LET end == VisitFunctions([marks |-> NoFlags, listed |-> << >>], f,
                              Follow(n), n \in {"U", "D"}, depth, 1)
    IN  /\ More
        /\ visited' = end.marks
        /\ Show([page |-> "funlist", f |-> f, n |-> n], end.listed)
        /\ UNCHANGED <<ws, depth, seen, printed>>

\* cpath_page: a walk for the nodes and a walk for the edges
CPath(from, to) ==
    LET start == [marks |-> {}, printed |-> {}, shown |-> << >>,
                  found |-> FALSE, count |-> 0]
        first == CallPath(start, from, to, TRUE)
        end   == CallPath([first EXCEPT !.marks = {}], from, to, FALSE)
    IN  /\ More
        /\ visited' = [f \in Fun |-> IF f \in end.marks THEN {1} ELSE {}]
        /\ printed' = end.printed
        /\ Show([page |-> "cpath", from |-> from, to |-> to], end.shown)
        /\ UNCHANGED <<ws, depth, seen>>

MarksForFaulty(n, f) ==                 \* forgets clear_visit_flags
    LET Walk(marks, dir, id) ==
            VisitFunctions([marks |-> marks, listed |-> << >>], f, Follow(dir),
                           TRUE, depth, id).marks
    IN  CASE n \in {"D", "U"} -> Walk(visited, n, 1)
          [] n = "B" -> Walk(Walk(visited, "D", 1), "U", 2)

\* single_function_graph: the marks for the graph about one function
MarksFor(n, f) ==
    LET Walk(marks, dir, id) ==
            VisitFunctions([marks |-> marks, listed |-> << >>], f, Follow(dir),
                           TRUE, depth, id).marks
    IN  CASE n \in {"D", "U"} -> Walk(NoFlags, n, 1)
          [] n = "B" -> Walk(Walk(NoFlags, "D", 1), "U", 2)

\* single_file_function_graph: those for the functions of one file
MarksOfFile(file) == [g \in Fun |-> IF ws.home[g] = file THEN {1} ELSE {}]

\* What cgraph_page shows, given the marks; only is only_visited.
CallGraphShown(marks, all, only) ==
    LET Scope(g) == all \/ g \notin ws.filescoped
        nodes == InOrder({g \in Fun : Scope(g) /\ (only => marks[g] # {})})
        Edges(g) == LET to == InOrder({h \in ws.call[g] : Scope(h)
                                /\ (only => marks[g] \cap marks[h] # {})})
                    IN  [k \in DOMAIN to |-> <<g, to[k]>>]
    IN  Cut(Nodes(nodes) \o Concat(nodes, Edges))

\* cgraph_page of the whole program
CGraph(all) ==
    /\ More
    /\ Show([page |-> "cgraph", n |-> "none", all |-> all],
            CallGraphShown(visited, all, FALSE))
    /\ UNCHANGED <<ws, depth, visited, seen, printed>>

\* cgraph_page with single_function_graph
CGraphOfFunction(n, f, all) ==
    /\ More
    /\ visited' = MarksFor(n, f)
    /\ Show([page |-> "cgraph", n |-> n, f |-> f, all |-> all],
            CallGraphShown(visited', all, TRUE))
    /\ UNCHANGED <<ws, depth, seen, printed>>

\* cgraph_page with single_file_function_graph
CGraphOfFile(file, all) ==
    /\ More
    /\ visited' = MarksOfFile(file)
    /\ Show([page |-> "cgraph", n |-> "file", f |-> file, all |-> all],
            CallGraphShown(visited', all, TRUE))
    /\ UNCHANGED <<ws, depth, seen, printed>>

\* The relation between files that a graph shows: x is related to the files
\* it includes, has to include, or whose global objects it uses.
FileRelation(gtype) ==
    CASE gtype = "I" -> ws.direct
      [] gtype = "C" -> ws.required
      [] gtype = "G" -> ws.uses

\* The relation single_file_graph follows: for included files "down" leads to
\* the files that depend on this one, for data to those it depends on.
FollowFiles(gtype, n) ==
    IF (gtype = "G") = (n = "D") THEN FileRelation(gtype)
    ELSE Converse(FileRelation(gtype))

\* What fgraph_page shows; an edge is given as the file that depends on the
\* other one first, as it is printed.  For calls every pair of files that is
\* tried counts for the limit.
FileGraphShown(gtype, n, all, only, marks, edges) ==
    LET nodes == InOrder({f \in File : (all \/ f \notin ws.readonly)
                                        /\ (only => f \in marks)})
        Edges(f) ==
            LET to == SelectSeq(nodes, LAMBDA g : g \in FileRelation(gtype)[f])
            IN  [k \in DOMAIN to |-> <<f, to[k]>>]
        Tried(f) ==
            LET to == SelectSeq(nodes, LAMBDA g : g # f)
            IN  [k \in DOMAIN to |->
                    IF <<f, to[k]>> \notin edges THEN << >>
                    ELSE IF n = "D" THEN <<f, to[k]>> ELSE <<to[k], f>>]
    IN  SelectSeq(Cut(Nodes(nodes) \o
                      (IF gtype = "F" THEN Concat(nodes, Tried)
                                      ELSE Concat(nodes, Edges))),
                  LAMBDA e : e # << >>)

\* fgraph_page of all files but the graph of calls
FGraph(gtype, all) ==
    /\ More
    /\ Show([page |-> "fgraph", gtype |-> gtype, n |-> "none", all |-> all],
            FileGraphShown(gtype, "none", all, FALSE, seen, {}))
    /\ UNCHANGED <<ws, depth, visited, seen, printed>>

\* fgraph_page of the calls between all files: the walks start at each file
\* that none of the earlier ones reached.
FGraphOfCalls(n, all) ==
    LET end == FoldLeft(LAMBDA s, f :
                    IF f \in s.seen \/ ~(all \/ f \notin ws.readonly) THEN s
                    ELSE VisitCalledFiles(s, f, Follow(n), depth),
                [seen |-> {}, edges |-> {}], InOrder(File))
    IN  /\ More
        /\ seen' = end.seen
        /\ Show([page |-> "fgraph", gtype |-> "F", n |-> n, all |-> all],
                FileGraphShown("F", n, all, FALSE, end.seen, end.edges))
        /\ UNCHANGED <<ws, depth, visited, printed>>

\* fgraph_page with single_file_graph
FGraphOfFile(gtype, n, f, all) ==
    LET end == IF gtype = "F"
               THEN VisitCalledFiles([seen |-> {}, edges |-> {}], f, Follow(n),
                                     depth)
               ELSE [seen  |-> VisitFiles({}, f, FollowFiles(gtype, n), depth),
                     edges |-> {}]
    IN  /\ More
        /\ seen' = end.seen
        /\ Show([page |-> "fgraph", gtype |-> gtype, n |-> n, f |-> f,
                 all |-> all],
                FileGraphShown(gtype, n, all, TRUE, end.seen, end.edges))
        /\ UNCHANGED <<ws, depth, visited, printed>>

Next ==
    \/ \E d \in Depth : SetDepth(d)
    \/ \E f \in Fun, n \in {"u", "U", "d", "D"} : FunList(f, n)
    \/ \E from, to \in Fun : CPath(from, to)
    \/ \E all \in BOOLEAN :
          \/ CGraph(all)
          \/ \E n \in {"D", "U", "B"}, f \in Fun : CGraphOfFunction(n, f, all)
          \/ \E f \in File : CGraphOfFile(f, all)
          \/ \E gtype \in {"I", "C", "G"} : FGraph(gtype, all)
          \/ \E n \in {"D", "U"} : FGraphOfCalls(n, all)
          \/ \E gtype \in {"I", "C", "G", "F"}, n \in {"D", "U"}, f \in File :
                FGraphOfFile(gtype, n, f, all)

Spec == Init /\ [][Next]_vars

-----------------------------------------------------------------------------
(* Properties.  They say what a page shows in terms of the relations of the *)
(* workspace alone, whatever pages were asked for before.                  *)

\* The least set that has f and is closed under next.
Reach(next, f) ==
    {g \in DOMAIN next : \A X \in SUBSET DOMAIN next :
        f \in X /\ (\A x \in X : next[x] \subseteq X) => g \in X}

\* Those at fewer than d steps from f
Near(next, f, d) ==
    LET near[k \in 0 .. d] ==
            IF k = 0 THEN {}
            ELSE {f} \cup UNION {next[x] : x \in near[k - 1]}
    IN  near[d]

NodesShown == {e[1] : e \in {x \in Range(page.shown) : Len(x) = 1}}
EdgesShown == {e \in Range(page.shown) : Len(e) = 2}
Times(e) == Cardinality({k \in DOMAIN page.shown : page.shown[k] = e})
Once == \A k, j \in DOMAIN page.shown : page.shown[k] = page.shown[j] => k = j

Asked(name) == page.request.page = name

One(condition) == IF condition THEN 1 ELSE 0

\* The list of the direct callers or callees of a function has each of them
\* once.  The list of all of them never goes deeper than the option says, and
\* when that does not limit it has every function that leads to this one or
\* that this one leads to exactly once, and once more below itself if it
\* calls itself; the function asked about is in it only in that case.
ListRight ==
    Asked("funlist") =>
        LET f    == page.request.f
            n    == page.request.n
            next == Follow(n)
            all  == Reach(next, f)
        IN  /\ n \in {"u", "d"} /\ page.depth # 0 =>
                  \A g \in Fun : Times(<<g>>) = One(g \in next[f])
            /\ n \in {"U", "D"} =>
                  NodesShown \subseteq
                      UNION {next[x] : x \in Near(next, f, page.depth)}
            /\ n \in {"U", "D"} /\ page.depth >= Cardinality(Fun) =>
                  \A g \in Fun : Times(<<g>>) =
                      One(g \in all \ {f}) + One(g \in all /\ g \in next[g])

\* A call path page shows something exactly if there is a path; then every
\* edge it shows is a call on a path that it shows from the first function to
\* the second, and its nodes are the ends of its edges, each given once.
PathRight ==
    Asked("cpath") /\ ~ws.browse =>
        LET from  == page.request.from
            to    == page.request.to
            shown == [g \in Fun |-> {h \in Fun : <<g, h>> \in EdgesShown}]
        IN  /\ EdgesShown # {} <=> from # to /\ to \in Reach(ws.call, from)
            /\ \A e \in EdgesShown :
                  /\ e[2] \in ws.call[e[1]]
                  /\ e[1] \in Reach(shown, from)
                  /\ to \in Reach(shown, e[2])
            /\ NodesShown = UNION {{e[1], e[2]} : e \in EdgesShown}
            /\ Once

\* The functions a call graph is about, if the depth does not limit it
Subject(r) ==
    CASE r.n = "none" -> Fun
      [] r.n = "file" -> {g \in Fun : ws.home[g] = r.f}
      [] r.n \in {"D", "U"} -> Reach(Follow(r.n), r.f)
      [] r.n = "B" -> Reach(ws.call, r.f) \cup Reach(Follow("U"), r.f)

CallsAmong(S) == {<<g, h>> \in S \X S : h \in ws.call[g]}

\* A call graph shows the functions it is about, in their scope, and all the
\* calls among those it shows: with a smaller depth fewer functions but still
\* all their calls.  The graph of a function in context shows no others.
CallGraphRight ==
    Asked("cgraph") =>
        LET r == page.request
            subject == {g \in Subject(r) : r.all \/ g \notin ws.filescoped}
        IN  /\ Once
            /\ NodesShown \subseteq subject
            /\ EdgesShown \subseteq CallsAmong(NodesShown)
            /\ ~ws.browse =>
                /\ r.n \in {"none", "file"} \/ page.depth >= Cardinality(Fun) =>
                      NodesShown = subject
                /\ r.n # "B" => EdgesShown = CallsAmong(NodesShown)
            /\ ws.browse => Len(page.shown) <= MaxElements + 1

\* "No edge unless both functions were visited on the same tour as indicated
\* by the corresponding bitmasks" (cscout.cpp): the graph of a function in
\* context shows the calls among its callees and those among its callers.
ContextRight ==
    Asked("cgraph") /\ page.request.n = "B" /\ page.request.all /\ ~ws.browse
        /\ page.depth >= Cardinality(Fun) =>
            EdgesShown = CallsAmong(Reach(ws.call, page.request.f))
                    \cup CallsAmong(Reach(Follow("U"), page.request.f))

\* File x depends on file y.
Depends(gtype) ==
    IF gtype # "F" THEN FileRelation(gtype) ELSE
    [x \in File |-> {y \in File \ {x} : \E g, h \in ws.cfun :
        h \in ws.call[g] /\ ws.home[g] = x /\ ws.home[h] = y}]

\* The direction in which the graph of one file goes
Towards(gtype, n) ==
    IF (gtype \in {"G", "F"}) = (n = "D") THEN Depends(gtype)
    ELSE Converse(Depends(gtype))

\* A file graph shows the files that the file it is about depends on, or that
\* depend on it, or all files, and every dependency among those it shows; the
\* depth limits how far it goes from one file but never hides a dependency,
\* nor anything in the graph of all calls.
FileGraphRight ==
    Asked("fgraph") =>
        LET r == page.request
            single == "f" \in DOMAIN r
            near == IF single THEN Reach(Towards(r.gtype, r.n), r.f) ELSE File
            subject == {f \in near : r.all \/ f \notin ws.readonly}
            among == {<<x, y>> \in NodesShown \X NodesShown :
                        y \in Depends(r.gtype)[x]}
        IN  /\ Once
            /\ NodesShown \subseteq subject
            /\ EdgesShown \subseteq among
            /\ ~ws.browse =>
                /\ ~single \/ page.depth >= Cardinality(File) =>
                      NodesShown = subject
                /\ page.depth # 0 => EdgesShown = among
            /\ ws.browse => Len(page.shown) <= MaxElements + 1

\* Every page shows what the relations say: those of one function or two, and
\* those of graphs.
GraphsRight == ListRight /\ PathRight /\ CallGraphRight /\ FileGraphRight
=============================================================================

---------------------------- MODULE MCWorkspace ----------------------------
(***************************************************************************)
(* Small workspaces: two units a and b, the headers h and g, found in the  *)
(* directories d and e, and the macros m and n; and, in other states, the  *)
(* builds that MCBuildCapture captures, which workspaces come from.        *)
(***************************************************************************)
EXTENDS Workspace, MCBuildCapture

W == <<"s", "w">>
A == <<"s", "a">>
B == <<"s", "b">>
DH == <<"d", "h">>
EH == <<"e", "h">>
DG == <<"d", "g">>
EG == <<"e", "g">>

MCFile == {W, A, B, DH, EH, DG, EG}
MCCopies == {{DH, DG}}

Do(d) == [do |-> d]
Inc(n) == [do |-> "include", name |-> n, quote |-> FALSE, next |-> FALSE]
Quoted(n) == [Inc(n) EXCEPT !.quote = TRUE]
NextInc(n) == [Inc(n) EXCEPT !.next = TRUE]
Def(n, b) == [do |-> "define", name |-> n, body |-> b]
Uses(n) == [do |-> "use", name |-> n]

Path(dirs) == [i \in DOMAIN dirs |-> [do |-> "includepath", dir |-> dirs[i]]]

\* What csmake writes for a unit.
Unit(f, p, dirs, pre) ==
    <<[do |-> "project", project |-> p], Do("clear_include"), Do("clear_defines")>>
    \o Path(dirs) \o pre \o <<[do |-> "process", file |-> f]>>

Lines(S, n) == BoundedSeq(S, n)

\* Who needs whom: two units, one of them also read before the other.
Needs ==
    {W :> w @@ A :> a @@ B :> <<Inc("h"), Uses("m")>> @@ DH :> h @@ DG :> g :
        w \in {Unit(A, "p", <<"d">>, <<>>) \o Unit(B, "q", <<"d">>, <<>>),
               Unit(B, "q", <<"d">>, <<>>) \o Unit(A, "p", <<"d">>, <<Inc("g"), [do |-> "readonly", file |-> DH]>>)},
        a \in {x \o y : x \in {<<Inc("h")>>, <<Inc("g"), Inc("h")>>},
                        y \in Lines({Uses("m"), Uses("n"), Do("provide")}, 2)},
        h \in Lines({Def("m", "n"), Def("m", NoFile), Do("provide"), Inc("g")}, 2),
        g \in {<<>>, <<Def("n", NoFile)>>, <<Do("provide")>>}}

\* Where files are found: a unit processed for two projects with other paths,
\* headers of the same name, some of them read once.
Finds ==
    {W :> Unit(A, "p", <<"d", "e">>, <<>>) \o Unit(A, "q", <<"e", "d">>, pre)
        @@ A :> a @@ DH :> d @@ EH :> e @@ EG :> <<Do("once")>> :
        pre \in {<<>>, <<Inc("g")>>},
        a \in Lines({Inc("h"), NextInc("h"), Inc("g"), Uses("m")}, 2) \cup {<<Quoted("a")>>},
        d \in Lines({Do("once"), NextInc("h"), Inc("g"), Def("m", NoFile)}, 2),
        e \in {<<>>, <<Quoted("h")>>, <<Do("once"), NextInc("h")>>,
                 <<Inc("g"), Inc("g")>>, <<Do("provide")>>}}

\* -include: one command processes b and then a, after a single clear, so that
\* a uses macros of b and of what b includes, which a does not read itself; and
\* two such commands for two projects.
Command(p) == Unit(B, p, <<"d">>, <<>>) \o <<[do |-> "process", file |-> A]>>
Preincludes ==
    {W :> w @@ B :> b @@ A :> a @@ DH :> h @@ DG :> g :
        w \in {Command("p"), Command("p") \o Command("q")},
        b \in {<<Inc("h")>>, <<Def("m", "n")>>, <<Def("m", "n"), Inc("h")>>,
                 <<Inc("g"), Inc("h")>>},
        a \in {x \o <<y>> : x \in {<<Inc("g")>>, <<Inc("h")>>, <<Inc("h"), Inc("g")>>},
                            y \in {Uses("m"), Do("provide")}},
        h \in Lines({Do("once"), Def("m", "n"), Inc("g")}, 2),
        g \in {<<>>, <<Def("n", NoFile)>>, <<Do("once"), Do("provide")>>}}

Quiet == [f \in MCFile |-> <<>>]
MCProgram == Needs \cup Finds \cup Preincludes \cup {Quiet}

\* h is found in e, includes g of d that was read before, and then the next h.
Skips ==
    {W :> Unit(A, "p", <<"d", "e">>, <<>>) @@ A :> <<Inc("g"), Inc("h")>>
        @@ EH :> e @@ DG :> <<Do("once")>> :
        e \in Lines({Inc("g"), NextInc("h"), Do("once"), Do("provide")}, 3)}

MCInit ==
    /\ Init /\ CInit
    /\ menu = {} => ~archives
    /\ text = Quiet \/ menu = {}
MCNext ==
    \/ menu = {} /\ Next /\ UNCHANGED cvars
    \/ menu # {} /\ CNext /\ UNCHANGED vars
MCSpec == MCInit /\ [][MCNext]_<<vars, cvars>>
=============================================================================

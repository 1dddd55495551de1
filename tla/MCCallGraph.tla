----------------------------- MODULE MCCallGraph -----------------------------
(***************************************************************************)
(* Instances of CallGraph for TLC.  In the workspaces function 1 calls 2   *)
(* and 2 calls 4; there may be a function that calls itself, two ways to   *)
(* reach a third, two functions that call each other, and a way back to    *)
(* the first.  Function f is defined in file f, or three in two files, and *)
(* files are related as the functions are.  MCSpec either shows pages of   *)
(* such a workspace, or answers queries on a database of MCQueries.        *)
(***************************************************************************)
EXTENDS CallGraph, MCQueries

MCFun == 1 .. 4
MCFile == 1 .. 4

Always == {<<1, 2>>, <<2, 4>>}
Sometimes == {{<<1, 3>>, <<3, 3>>}, {<<3, 4>>}, {<<3, 2>>}, {<<4, 1>>}}
Calls == {Always \cup UNION S : S \in SUBSET Sometimes}
AllCalls == Always \cup UNION Sometimes

Related(E) == [x \in MCFun |-> {y \in MCFun : <<x, y>> \in E}]

Others(next) == [x \in DOMAIN next |-> next[x] \ {x}]

AWorkspace(E, home, browse) ==
    [call |-> Related(E), filescoped |-> {2, 3}, cfun |-> MCFun \ {3},
     home |-> home, direct |-> Others(Related(E)),
     required |-> Others(Converse(Related(E))),
     uses |-> Others(Related(E)), readonly |-> {2}, browse |-> browse]

\* One file each, or two files; function 4 is only declared.
OneEach == <<1, 2, 3, 4>>
TwoFiles == <<1, 1, 2, 0>>

MCWorkspace ==
    {AWorkspace(E, OneEach, FALSE) : E \in Calls}
        \cup {AWorkspace(AllCalls, TwoFiles, FALSE),
              AWorkspace(AllCalls, OneEach, TRUE)}

MCDepth == {1, 4}
MCMaxElements == 4
MCMaxPages == 2

MCInit ==
    /\ Init /\ QInit
    /\ db = NoDatabase => ~options.backwards
    /\ db # NoDatabase => depth = 1 /\ ws.browse
MCNext ==
    \/ db = NoDatabase /\ Next /\ UNCHANGED qvars
    \/ db # NoDatabase /\ QNext /\ UNCHANGED vars
MCSpec == MCInit /\ [][MCNext]_<<vars, qvars>>
=============================================================================

----------------------------- MODULE MCSession -----------------------------
(***************************************************************************)
(* Two files, an identifier in both and a function called in one of them;  *)
(* an RE that sends every file to another directory, and one that matches  *)
(* the first file only.  In other states, processes that read and save     *)
(* options of every kind.                                                  *)
(***************************************************************************)
EXTENDS Settings

CONSTANTS f, g, f2, g2, all, one, str, blank, id, fun

MCFile == {f, g}
MCPath == {f, g, f2, g2}
MCRE == {all, one}
MCTo == {str}
MCIdentifiers == {id}
MCFunctions == {fun}
MCRenames ==
    [x \in MCRE \X MCTo |->
        [h \in MCFile |-> IF h = f THEN f2 ELSE IF x[1] = all THEN g2 ELSE NoMatch]]
MCOccurs == [r \in {id, fun} |-> IF r = id THEN {f, g} ELSE {g}]

MCPool == <<"re", "to", "tab_width", "show_true", "cgraph_type">>
MCKind ==
    [re |-> "text", to |-> "text", tab_width |-> "integer", show_true |-> "bool",
     cgraph_type |-> "selection"]
MCDefault ==
    [re |-> Empty, to |-> Empty, tab_width |-> "8", show_true |-> "0", cgraph_type |-> "s"]
MCWords ==
    [re |-> {Empty, BadRE, all, one}, to |-> {Empty, str, blank}, tab_width |-> {"4", "8"},
     show_true |-> {"0", "1"}, cgraph_type |-> {"s", "t"}]
MCForms ==
    [re : {Empty, BadRE, all}, to : {Empty, blank}, tab_width : {"0", "4"},
     show_true : {"none", "1"}, cgraph_type : {"t", "none"}]
MCEarlier ==
    {v \in [re : MCWords.re, to : MCWords.to, tab_width : {"4"}, show_true : {"1"},
             cgraph_type : {"s"}] : v.re # one}
\* blank is str after a blank
MCStrip == [t \in {Empty, BadRE, all, one, str, blank} |-> IF t = blank THEN str ELSE t]
MCOldLine == [name |-> "file_msum", value |-> "1"]
MCCommandLine ==
    {<<>>, <<"b">>, <<"M">>, <<"c", "R">>, <<"R", "c">>, <<"s", "other">>, <<"other", "bad">>}

\* The one or the other: in the states of Session the stage is that of no process.
MCInit ==
    \/ /\ Init
       /\ stage = "session" /\ argv = <<>> /\ next = 1
       /\ process_mode = "server" /\ do_merge = FALSE
       /\ values = None /\ compiled = Empty
       /\ lines = NoFile /\ kept = [values |-> Default, upto |-> 0]
    \/ /\ SettingsInit
       /\ mode = "unmodified" /\ asked = [r \in Refactorings |-> "no"]
       /\ option = [re |-> Empty, to |-> str] /\ sfile_re = Empty
       /\ disk = [p \in Path |-> IF p \in File THEN Text(p, {}) ELSE None]
       /\ repl = [h \in File |-> None]
       /\ editing = {} /\ save = Idle /\ running = TRUE /\ saves = 0
MCNext ==
    \/ stage = "session" /\ Next /\ UNCHANGED svars
    \/ stage # "session" /\ SettingsNext /\ UNCHANGED vars
MCSpec == MCInit /\ [][MCNext]_<<vars, svars>>
=============================================================================

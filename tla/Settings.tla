------------------------------ MODULE Settings ------------------------------
(***************************************************************************)
(* How a process of cscout gets its settings (options.cpp, option.cpp and  *)
(* main): the command line, flag by flag; the options, set to defaults,    *)
(* then read line by line from the file that an earlier process may have   *)
(* saved, or died while saving; the page that changes them and the one     *)
(* that saves them.  Processes follow each other and each may end at any   *)
(* point: a refused flag, a port in use and the like are such ends.        *)
(*                                                                         *)
(* Session starts where this ends: it assumes that the rule it finds for   *)
(* the names of saved files is the one in the options.                     *)
(***************************************************************************)
EXTENDS Session, Sequences

CONSTANTS
    Pool,       \* Option::options, without the titles, which nothing is read into
    Kind,       \* its classes: BoolOption, SelectionOption, ...
    Default,    \* what Option::initialize gives it
    Words,      \* what each option may hold: what its operator<< writes
    Forms,      \* what a page may send: a word for each option, or
    Absent,     \* nothing
    Earlier,    \* the values that an earlier version may have saved
    Strip,      \* a text without its leading blanks
    Off, On,    \* the two words of a boolean
    ReOption,   \* sfile_re_string
    NoFile,     \* there is no file of options
    OldLine,    \* a line of an option that this version does not know
    CommandLine \* the flags a process is started with

Option == {Pool[i] : i \in DOMAIN Pool}
Kinds == {"bool", "selection", "text", "integer"}

\* Flags that stand for all: -E, -c, -o, -r and -s exclude each other; a bad
\* one, as -v and -S, ends the process; the others leave these settings alone.
Exclusively == {"E", "c", "o", "r", "s"}
Flag == Exclusively \cup {"R", "M", "b", "bad", "other"}

\* A line of the file
Names == Option \cup {OldLine.name}
Spellings == (UNION {Words[o] : o \in Option}) \cup {OldLine.value}

\* What the options may hold together
Values == {v \in [Option -> UNION {Words[o] : o \in Option}] :
              \A o \in Option : v[o] \in Words[o]}

ASSUME SettingsAssumption ==
    /\ Pool \in Seq(Option)
    /\ \A i, j \in DOMAIN Pool : Pool[i] = Pool[j] => i = j
    /\ Kind \in [Option -> Kinds]
    /\ DOMAIN Words = Option
    /\ Earlier \subseteq Values /\ Default \in Values
    /\ Off # On /\ \A o \in Option : Absent \notin Words[o]
    /\ \A o \in Option :
          /\ Kind[o] = "bool" => Words[o] = {Off, On}
          /\ Kind[o] = "text" => \A t \in Words[o] : Strip[t] \in Words[o]
    /\ \A form \in Forms :
          /\ DOMAIN form = Option
          /\ \A o \in Option :
                /\ Kind[o] = "selection" => form[o] \in Words[o] \cup {Absent}
                /\ Kind[o] = "text" => form[o] \in Words[o]
    /\ ReOption \in Option /\ Kind[ReOption] = "text" /\ Default[ReOption] = Empty
    /\ Words[ReOption] = RE \cup {Empty, BadRE} /\ Strip[Empty] = Empty
    /\ OldLine \in [name : {OldLine.name}, value : {OldLine.value}]
    /\ OldLine.name \notin Option
    /\ NoFile \notin Seq([name : Names, value : Spellings])
    /\ CommandLine \subseteq Seq(Flag)

VARIABLES
    stage,      \* where main is
    argv,       \* its flags
    next,       \* the place of a loop: over the flags, the lines, the options
    process_mode,
    do_merge,
    values,     \* the options' values, or None before Option::initialize
    compiled,   \* CscoutEngine::sfile_re
    lines,      \* the file of options, a name and a word a line, or NoFile
    kept        \* history: the options that were saved last, and how many were

osettings == <<values, compiled>>
svars == <<stage, argv, next, process_mode, do_merge, values, compiled, lines, kept>>

Line(o, v) == [name |-> o, value |-> v[o]]
SavedLines(v) == [i \in DOMAIN Pool |-> Line(Pool[i], v)]

\* There may be a file, of a version that had one more option.
SettingsInit ==
    /\ stage = "down" /\ argv = <<>> /\ next = 1
    /\ process_mode = "server" /\ do_merge = FALSE
    /\ values = None /\ compiled = Empty
    /\ \/ lines = NoFile /\ kept = [values |-> Default, upto |-> 0]
       \/ \E v \in Earlier :
             /\ lines = <<OldLine>> \o SavedLines(v)
             /\ kept = [values |-> v, upto |-> Len(Pool)]

-----------------------------------------------------------------------------
(* The start of a process                                                  *)

Start ==
    /\ stage = "down"
    /\ stage' = "args" /\ argv' \in CommandLine /\ next' = 1
    /\ process_mode' = "server" /\ do_merge' = FALSE
    /\ UNCHANGED <<osettings, lines, kept>>

\* exit, or the end of the process at any time: what is in memory is gone.
End ==
    /\ stage # "down"
    /\ stage' = "down" /\ argv' = <<>> /\ next' = 1
    /\ process_mode' = "server" /\ do_merge' = FALSE
    /\ values' = None /\ compiled' = Empty
    /\ UNCHANGED <<lines, kept>>

Refused(a) == a = "bad" \/ (a \in Exclusively /\ process_mode # "server")

\* parse_args: -R is not refused after another mode.
ParseArg ==
    /\ stage = "args" /\ next \in DOMAIN argv
    /\ LET a == argv[next]
       IN  /\ ~Refused(a)
           /\ process_mode' = IF a \in Exclusively \cup {"R"} THEN a ELSE process_mode
           /\ do_merge' = (do_merge \/ a = "M")
    /\ next' = next + 1
    /\ UNCHANGED <<stage, argv, osettings, lines, kept>>

\* main up to the options: -M merges and exits; only the web server has options.
EndArgs ==
    /\ stage = "args" /\ next \notin DOMAIN argv
    /\ ~do_merge
    /\ next' = 1
    /\ IF process_mode = "server"
       THEN values' = Default /\ stage' = IF lines = NoFile THEN "analyse" ELSE "load"
       ELSE stage' = "analyse" /\ UNCHANGED values
    /\ UNCHANGED <<argv, process_mode, do_merge, compiled, lines, kept>>

LoadLineFaulty ==                   \* a text is read as a word: an empty one takes the next
    /\ stage = "load" /\ next \in DOMAIN lines
    /\ LET o == lines[next].name
           empty == o \in Option /\ Kind[o] = "text" /\ lines[next].value = Empty
       IN  /\ values' = IF o \notin Option \/ empty THEN values
                        ELSE [values EXCEPT ![o] = lines[next].value]
           /\ next' = IF empty THEN next + 2 ELSE next + 1
    /\ UNCHANGED <<stage, argv, process_mode, do_merge, compiled, lines, kept>>

\* Option::load_all takes a name, and lets the option take its value from what
\* follows: a text the rest of the line, another the next word, wherever it is.
\* A word that is no value sets failbit, and the loop then never meets the end
\* of the file.  The words after an unknown name are taken for names themselves;
\* one of a letter is looked up as "", which is a title, and that reads nothing.
LoadLine ==
    /\ stage = "load" /\ next \in DOMAIN lines
    /\ LET o == lines[next].name
           word == lines[next].value
           read == IF Kind[o] = "text" THEN Strip[word] ELSE word
       IN  IF o \notin Option THEN UNCHANGED <<values, stage>>
           ELSE IF read \in Words[o]
                THEN values' = [values EXCEPT ![o] = read] /\ UNCHANGED stage
                ELSE stage' = "stuck" /\ UNCHANGED values
    /\ next' = next + 1
    /\ UNCHANGED <<argv, process_mode, do_merge, compiled, lines, kept>>

\* CscoutEngine::set_sfile_re keeps the rule it has if the new one does not compile.
Compile(re) == IF re \in RE THEN re ELSE compiled

\* The end of options_load, which erases an RE that does not compile
EndLoad ==
    /\ stage = "load" /\ next \notin DOMAIN lines
    /\ values' = [values EXCEPT ![ReOption] = IF @ \in RE THEN @ ELSE Empty]
    /\ compiled' = Compile(values[ReOption])
    /\ stage' = "analyse" /\ next' = 1
    /\ UNCHANGED <<argv, process_mode, do_merge, lines, kept>>

\* The rest of main: every other mode does its work and ends.  In that of -R
\* produce_call_graphs uses options that were never made, which is an end too.
Analyse ==
    /\ stage = "analyse" /\ process_mode = "server"
    /\ stage' = "serve"
    /\ UNCHANGED <<argv, next, process_mode, do_merge, osettings, lines, kept>>

-----------------------------------------------------------------------------
(* The pages                                                               *)

\* Option::set of each class
Set(o, sent) ==
    CASE Kind[o] = "bool" -> IF sent = Absent THEN Off ELSE On
      [] Kind[o] = "selection" -> IF sent = Absent THEN values[o] ELSE sent
      [] Kind[o] = "text" -> sent
      [] Kind[o] = "integer" -> IF sent \in Words[o] THEN sent ELSE values[o]

\* What the form that options_page shows sends when nothing in it is changed
Shown(o) == IF Kind[o] = "bool" /\ values[o] = Off THEN Absent ELSE values[o]

\* set_options_page; after "Cancel" nothing changes.
SubmitOptions(form) ==
    /\ stage = "serve"
    /\ values' = [o \in Option |-> Set(o, form[o])]
    /\ compiled' = Compile(values'[ReOption])
    /\ UNCHANGED <<stage, argv, next, process_mode, do_merge, lines, kept>>

\* save_options_page makes the file empty, and Option::save_all adds the lines,
\* each of which is written at once.  The guard of prohibit_browsers is a variable
\* that -b does not set (options.cpp:184 sets another).
SaveOptions ==
    /\ stage = "serve"
    /\ stage' = "save" /\ next' = 1
    /\ lines' = <<>> /\ kept' = [values |-> values, upto |-> 0]
    /\ UNCHANGED <<argv, process_mode, do_merge, osettings>>

SaveLine ==
    /\ stage = "save" /\ next \in DOMAIN Pool
    /\ lines' = Append(lines, Line(Pool[next], values))
    /\ kept' = [kept EXCEPT !.upto = next]
    /\ next' = next + 1
    /\ UNCHANGED <<stage, argv, process_mode, do_merge, osettings>>

EndSaveOptions ==
    /\ stage = "save" /\ next \notin DOMAIN Pool
    /\ stage' = "serve" /\ next' = 1
    /\ UNCHANGED <<argv, process_mode, do_merge, osettings, lines, kept>>

SettingsNext ==
    \/ Start \/ ParseArg \/ EndArgs \/ LoadLine \/ EndLoad \/ Analyse
    \/ \E form \in Forms : SubmitOptions(form)
    \/ SaveOptions \/ SaveLine \/ EndSaveOptions
    \/ End

SettingsSpec == SettingsInit /\ [][SettingsNext]_svars

-----------------------------------------------------------------------------
(* Properties                                                              *)

SettingsTypeOK ==
    /\ stage \in {"down", "args", "load", "stuck", "analyse", "serve", "save"}
    /\ argv \in Seq(Flag) /\ next \in Nat \ {0}
    /\ process_mode \in Exclusively \cup {"server", "R"} /\ do_merge \in BOOLEAN
    /\ values \in Values \cup {None} /\ compiled \in RE \cup {Empty}
    /\ lines \in Seq([name : Names, value : Spellings]) \cup {NoFile}
    /\ kept \in [values : Values, upto : 0 .. Len(Pool)]

Served == stage \in {"analyse", "serve", "save"} /\ process_mode = "server"

\* Of what was saved an option holds, in the next process, what it held when it
\* was saved, a text without its leading blanks, and an RE that was refused
\* nothing.
Remembered(o) ==
    LET word == kept.values[o]
        text == IF Kind[o] = "text" THEN Strip[word] ELSE word
    IN  IF \E i \in 1 .. kept.upto : Pool[i] = o
        THEN IF o = ReOption /\ text \notin RE THEN Empty ELSE text
        ELSE Default[o]

\* "They will be loaded when CScout is executed again" (save_options_page):
\* whatever the options are, and wherever the process that saved them ended,
\* the next one reads those that were written, all of them, and no other; and
\* it does not read for ever.
Restored ==
    /\ stage # "stuck"
    /\ stage = "analyse" /\ process_mode = "server" =>
          \A o \in Option : values[o] = Remembered(o)

\* The rule by which files are saved is the one the options show, unless that was
\* refused; when the pages are first served it is, as Session assumes.
RuleAgrees ==
    Served =>
        /\ values[ReOption] \in RE => compiled = values[ReOption]
        /\ stage = "analyse" => values[ReOption] # BadRE /\ compiled = values[ReOption]

\* The form with nothing changed leaves the options as they are.
FormFaithful ==
    Served => \A o \in Option : Set(o, Shown(o)) = values[o]

\* Once the flags are read the mode is that of the last of them that sets one,
\* and every one before the last was followed by -R alone.
ModeIsAsked ==
    stage \notin {"down", "args"} =>
        LET modes == {i \in DOMAIN argv : argv[i] \in Exclusively \cup {"R"}}
        IN  /\ \A i, j \in modes : i < j => argv[j] = "R"
            /\ IF modes = {} THEN process_mode = "server"
               ELSE \E i \in modes : argv[i] = process_mode /\ \A j \in modes : j <= i

SettingsRight == Restored /\ RuleAgrees /\ FormFaithful /\ ModeIsAsked

\* The usage message: with -b the server is for browsing only, and its options
\* are not saved.  They are: the variable that the pages look at is not set.
OnlyBrowsed == stage = "save" => ~ \E i \in DOMAIN argv : argv[i] = "b"
=============================================================================

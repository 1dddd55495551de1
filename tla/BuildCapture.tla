---------------------------- MODULE BuildCapture ----------------------------
(***************************************************************************)
(* csmake.pl: make runs several commands at a time, each through a spy     *)
(* that appends what the command does to one file of rules; when make has  *)
(* ended, csmake reads the rules and writes a project for every program,   *)
(* with the compilations of the objects it was linked from.                *)
(*                                                                         *)
(* A command is [tool, args].  An argument is a sequence: <<"file", f>> or *)
(* an option and its values.  The tools themselves, and make, are external *)
(* to the source; what they make of the files is in tree.                  *)
(***************************************************************************)
EXTENDS Integers, Sequences, FiniteSets, SequencesExt

CONSTANTS
    Menus,      \* sets of commands that a build may run
    Kind,       \* the kind of each file: c, h, o, a, so, program or directory
    Object,     \* the object that a source is compiled to without -o
    Library,    \* the file of each <<directory, library>>
    Inside,     \* the file of each <<directory, file>>
    MaxJobs,    \* bound: commands that run at a time (make -j)
    Mistaken    \* what csmake mistakes and builds may do all the same

Mistakes == {"two_sources",     \* one command compiles several sources and links
             "same_offset",     \* so do two commands that start at a time
             "recompiled",      \* an object is compiled again, or from elsewhere
             "moved_over",      \* an object gets a name that was used before
             "archive_updated", \* ar adds to an archive that exists
             "linked_object",   \* gcc links an object or library for later links
             "into_directory",  \* one file is moved into a directory
             "failure_ignored", \* a command fails and make goes on
             "other_name"}      \* a program is installed after ld or mv

ASSUME BuildAssumption ==
    MaxJobs \in Nat /\ Mistaken \subseteq Mistakes

VARIABLES
    menu, archives,     \* the build, and whether csmake has the option -A
    phase,      \* make, read, done or failed
    tree,       \* the files there are: the compilations that went into each
    jobs,       \* the commands that run: [cmd, offset, rules, todo]
    started,    \* those that were started
    rulesfile,  \* $CSCOUT_SPY_TMPDIR/rules
    position,         \* how many of the rules csmake has read
    old,        \* %old: where a file was renamed from
    rule,       \* %rules: the compilations of each object
    makecs,         \* make.cs: the projects written
    past        \* history: the projects there should be, what csmake mistakes,
                \* the names used, renamed and as yet unlinked, installations

cvars == <<menu, archives, phase, tree, jobs, started, rulesfile, position, old, rule,
           makecs, past>>
capture == <<position, old, rule, makecs>>

Abs(f) == [abs |-> TRUE, of |-> f, at |-> 0]          \* abs_path
Spelled(f) == [abs |-> FALSE, of |-> f, at |-> 0]

Has(c, o) == \E i \in DOMAIN c.args : c.args[i][1] = o
Values(c, o) ==
    LET found == SelectSeq(c.args, LAMBDA a : a[1] = o)
    IN  [i \in DOMAIN found |-> found[i][2]]
Named(c, kinds) == SelectSeq(Values(c, "file"), LAMBDA f : Kind[f] \in kinds)
AllAbs(s) == [i \in DOMAIN s |-> Abs(s[i])]
Output(c) == Last(Values(c, "-o"))

-----------------------------------------------------------------------------
(* The spies: the rules of a command                                       *)

BailsOut(c) ==
    \/ Has(c, "-E") \/ Has(c, "-S")
    \/ Has(c, "-M") /\ ~Has(c, "-c")

Searched(c) ==                              \* -l: the first archive found
    LET Of(l) == SelectSeq(Values(c, "-L"),
                   LAMBDA d : <<d, l>> \in DOMAIN Library
                              /\ Library[<<d, l>>] \in DOMAIN tree)
        Found(l) == IF Of(l) = <<>> THEN <<>> ELSE <<Library[<<Of(l)[1], l>>]>>
    IN  FlattenSeq([i \in DOMAIN Values(c, "-l") |-> Found(Values(c, "-l")[i])])

Compiled(c) == Named(c, {"c"})
ObjectOf(c, s, offset) ==
    CASE Has(c, "-c") /\ Has(c, "-o") -> Abs(Output(c))
      [] Has(c, "-c") -> Abs(Object[s])
      [] OTHER -> [abs |-> TRUE, of |-> "csmake-ofile", at |-> offset]

IncludedBy(c) ==                              \* @incfiles
    LET incs == SelectSeq(c.args, LAMBDA a : a[1] \in {"-include", "-imacros"})
    IN  [i \in DOMAIN incs |-> [macros |-> incs[i][1] = "-imacros",
                                file |-> incs[i][2]]]
Remaining(c) ==                             \* @ARGV2, less the sources
    SelectSeq(c.args, LAMBDA a : a[1] \notin
        {"file", "-o", "-L", "-l", "-include", "-imacros", "-MT", "-M", "-MD", "-c"})

CompileRules(c, offset) ==
    [i \in DOMAIN Compiled(c) |->
        [begin |-> "COMPILE", cmd |-> c, lines |-> Remaining(c),
         in |-> Append(IncludedBy(c), [macros |-> FALSE, file |-> Compiled(c)[i]]),
         obj |-> ObjectOf(c, Compiled(c)[i], offset)]]

LinkRule(c, exe, implicit) ==
    [begin |-> "LINK", cmd |-> c, exe |-> exe,
     obj |-> AllAbs(Named(c, {"o"})) \o implicit
             \o AllAbs(Named(c, {"a", "so"})) \o AllAbs(Searched(c))]

GccLinks(c) ==
    /\ ~Has(c, "-c") /\ ~Has(c, "-M")
    /\ Named(c, {"c", "o", "a", "so"}) # <<>>

GccRules(c, offset) ==
    IF BailsOut(c) THEN <<>>
    ELSE CompileRules(c, offset)
         \o IF ~GccLinks(c) THEN <<>>
            ELSE <<LinkRule(c, Spelled(IF Has(c, "-o") THEN Output(c) ELSE "a.out"),
                            [i \in DOMAIN Compiled(c) |->
                                ObjectOf(c, Compiled(c)[i], offset)])>>

LdRules(c) ==
    IF Named(c, {"o", "a", "so"}) = <<>> THEN <<>>
    ELSE <<LinkRule(c, Abs(IF Has(c, "-o") THEN Output(c) ELSE "a.out"), <<>>)>>

\* The first argument of ar is the set of letters of its operation, after which
\* come the member to place others at and a count, when the letters say so.
Operands(c) ==
    LET op == c.args[1][2]
    IN  SubSeq(c.args, 2 + (IF op \cap {"a", "b", "i"} # {} THEN 1 ELSE 0)
                         + (IF "N" \in op THEN 1 ELSE 0), Len(c.args))
AllNames(c) == [i \in DOMAIN Operands(c) |-> Operands(c)[i][2]]
Archive(c) == AllNames(c)[1]
Archived(c) == Tail(AllNames(c)) \o IF "m" \in c.args[1][2] THEN <<Archive(c)>> ELSE <<>>
ArRules(c) ==
    IF c.args[1][2] \cap {"r", "m", "q"} = {} THEN <<>>
    ELSE <<[begin |-> "AR", cmd |-> c, lib |-> Abs(Archive(c)),
            obj |-> AllAbs(Archived(c))]>>

Rename(f, g) == [begin |-> "RENAME", old |-> Abs(f), new |-> Abs(g)]
MvRules(c) ==
    LET f == Values(c, "file")
        dir == Last(f)
    IN  IF Len(f) = 2 THEN <<Rename(f[1], f[2])>>
        ELSE [i \in 1..(Len(f) - 1) |-> Rename(f[i], Inside[<<dir, f[i]>>])]

\* Arguments from i on: -d ends the search, -t takes the next one as the
\* destination, which else is the last one.
Executables(c) ==
    SelectSeq(Values(c, "file"), LAMBDA f : f \in DOMAIN tree /\ Kind[f] \in {"program", "so"})
InstallRules(c) ==
    LET f == Values(c, "file")
        exes == IF Has(c, "-t") THEN Executables(c)
                ELSE Executables([c EXCEPT !.args = Front(@)])
        dest == IF Has(c, "-t") THEN Values(c, "-t")[1] ELSE Last(f)
    IN  IF Has(c, "-d") THEN <<>>
        ELSE [i \in DOMAIN exes |-> [begin |-> "INSTALL", exe |-> Spelled(exes[i]),
                                     dest |-> dest]]

RulesOf(c, offset) ==
    CASE c.tool = "gcc" -> GccRules(c, offset)
      [] c.tool = "ld" -> LdRules(c)
      [] c.tool = "ar" -> ArRules(c)
      [] c.tool = "mv" -> MvRules(c)
      [] c.tool = "install" -> InstallRules(c)
-----------------------------------------------------------------------------
(* External: make and the tools                                            *)

Links(c) == c.tool = "ld" \/ (c.tool = "gcc" /\ ~BailsOut(c) /\ GccLinks(c))
Compiles(c) == c.tool = "gcc" /\ Has(c, "-c") /\ ~BailsOut(c)
Stores(c) == c.tool = "ar" /\ c.args[1][2] \cap {"r", "m", "q"} # {}
Target(c) == IF Has(c, "-o") THEN Output(c) ELSE "a.out"
Moves(c) ==                                 \* pairs <<from, to>>
    LET f == Values(c, "file")
        dir == Last(f)
    IN  IF c.tool # "mv" THEN {}
        ELSE IF Kind[dir] # "directory" THEN {<<f[1], f[2]>>}
        ELSE {<<g, Inside[<<dir, g>>]>> : g \in ToSet(Front(f))}

Inputs(c) ==
    CASE c.tool = "ar" -> ToSet(AllNames(c)) \ {Archive(c)}
      [] c.tool = "mv" -> {m[1] : m \in Moves(c)}
      [] OTHER -> {f \in ToSet(Values(c, "file")) : Kind[f] # "directory"}
Outputs(c) ==
    CASE Compiles(c) -> {ObjectOf(c, s, 0).of : s \in ToSet(Compiled(c))}
      [] Links(c) -> {Target(c)}
      [] Stores(c) -> {Archive(c)}
      [] OTHER -> UNION {{m[1], m[2]} : m \in Moves(c)}
Looks(c) == {Library[dl] : dl \in DOMAIN Library \cap (ToSet(Values(c, "-L")) \X ToSet(Values(c, "-l")))}
Apart(c, d) ==
    /\ Outputs(c) \cap (Outputs(d) \cup Inputs(d) \cup Looks(d)) = {}
    /\ Outputs(d) \cap (Inputs(c) \cup Looks(c)) = {}

Meant(c, s) ==                              \* the compilation of a source
    [in |-> Append(IncludedBy(c), [macros |-> FALSE, file |-> s]),
     lines |-> SelectSeq(c.args, LAMBDA a : a[1] \in {"-D", "-I"})]
Contents(files) == FlattenSeq([i \in DOMAIN files |-> tree[files[i]]])
Linked(c) ==
    Contents(Named(c, {"o"}))
    \o (IF c.tool = "ld" THEN <<>>
        ELSE [i \in DOMAIN Compiled(c) |-> Meant(c, Compiled(c)[i])])
    \o Contents(Named(c, {"a", "so"})) \o Contents(Searched(c))
Put(f, units) == [g \in DOMAIN tree \cup {f} |-> IF g = f THEN units ELSE tree[g]]

Run(c) ==
    tree' =
      CASE Compiles(c) ->
             [g \in DOMAIN tree \cup Outputs(c) |->
                IF g \notin Outputs(c) THEN tree[g]
                ELSE <<Meant(c, CHOOSE s \in ToSet(Compiled(c)) : ObjectOf(c, s, 0).of = g)>>]
        [] Links(c) -> Put(Target(c), Linked(c))
        [] Stores(c) ->
             LET before == IF Archive(c) \in DOMAIN tree THEN tree[Archive(c)] ELSE <<>>
             IN  Put(Archive(c), IF "m" \in c.args[1][2] THEN before
                                 ELSE before \o Contents(Archived(c)))
        [] c.tool = "mv" ->
             LET froms == {m[1] : m \in Moves(c)}
                 tos == {m[2] : m \in Moves(c)}
                 From(g) == (CHOOSE m \in Moves(c) : m[2] = g)[1]
             IN  [g \in (DOMAIN tree \ froms) \cup tos |->
                    IF g \in tos THEN tree[From(g)] ELSE tree[g]]
        [] OTHER -> tree
-----------------------------------------------------------------------------
CInit ==
    /\ menu \in Menus /\ archives \in BOOLEAN /\ phase = "make"
    /\ tree = [f \in {g \in DOMAIN Kind : Kind[g] \in {"c", "h"}} |-> <<>>]
    /\ jobs = {} /\ started = {} /\ rulesfile = <<>>
    /\ position = 0 /\ old = [f \in {} |-> f] /\ rule = [f \in {} |-> <<>>] /\ makecs = <<>>
    /\ past = [projects |-> {}, mistakes |-> {}, names |-> {}, targets |-> {},
               unread |-> {}, programs |-> {}, installed |-> {}, offsets |-> {}]

Met(c) ==                                   \* what is mistaken about a command
    LET implicit == Links(c) /\ c.tool = "gcc" /\ Compiled(c) # <<>>
        f == Values(c, "file")
        When(m, cond) == IF cond THEN {m} ELSE {}
    IN  When("two_sources", implicit /\ Len(Compiled(c)) > 1)
        \cup When("same_offset", implicit /\ Len(rulesfile) \in past.offsets)
        \cup When("recompiled", Compiles(c) /\ Outputs(c) \cap past.names # {})
        \cup When("moved_over",
                \/ (Links(c) \/ Stores(c)) /\ Outputs(c) \cap past.targets # {}
                \/ {m[2] : m \in Moves(c)} \cap past.names # {})
        \cup When("archive_updated", Stores(c) /\ Archive(c) \in DOMAIN tree)
        \cup When("linked_object", Inputs(c) \cap past.unread # {} /\ c.tool # "install")
        \cup When("into_directory",
                c.tool = "mv" /\ Len(f) = 2 /\ Kind[f[2]] = "directory")
        \cup When("other_name", c.tool = "install" /\
                \E r \in ToSet(InstallRules(c)) : r.exe.of \notin past.programs)

\* make starts a command whose inputs exist and which no running one disturbs.
Start(c) ==
    /\ phase = "make" /\ c \notin started /\ Cardinality(jobs) < MaxJobs
    /\ Inputs(c) \subseteq DOMAIN tree /\ \A j \in jobs : Apart(c, j.cmd)
    /\ jobs' = jobs \cup {[cmd |-> c, rules |-> RulesOf(c, Len(rulesfile)),
                           todo |-> IF c.tool = "gcc" THEN <<"run", "record">>
                                    ELSE <<"record", "run">>]}
    /\ started' = started \cup {c}
    /\ past' = [past EXCEPT
                !.mistakes = @ \cup Met(c),
                !.offsets = IF Links(c) /\ c.tool = "gcc" /\ Compiled(c) # <<>>
                            THEN @ \cup {Len(rulesfile)} ELSE @]
    /\ UNCHANGED <<menu, archives, phase, tree, rulesfile, capture>>

Did(j) ==
    jobs' = (jobs \ {j}) \cup IF Len(j.todo) = 1 THEN {} ELSE {[j EXCEPT !.todo = Tail(@)]}

\* One write to a file that every spy opened for appending.
Record(j) ==
    /\ j.todo[1] = "record" /\ Did(j)
    /\ rulesfile' = rulesfile \o j.rules
    /\ UNCHANGED <<menu, archives, phase, tree, started, capture, past>>

Projects(c) ==                              \* the project there should be
    LET units == tree'[Target(c)]
        name == IF c.tool = "ld" THEN Abs(Target(c)) ELSE Spelled(Target(c))
    IN  CASE Links(c) /\ Kind[Target(c)] \in {"program", "so"} /\ units # <<>> ->
                {[cmd |-> c, name |-> name, units |-> units]}
          [] Stores(c) /\ archives /\ tree'[Archive(c)] # <<>> ->
                {[cmd |-> c, name |-> Abs(Archive(c)), units |-> tree'[Archive(c)]]}
          [] OTHER -> {}

Execute(j) ==
    /\ j.todo[1] = "run" /\ Did(j) /\ Run(j.cmd)
    /\ past' = [past EXCEPT
                !.projects = @ \cup Projects(j.cmd),
                !.names = @ \cup Outputs(j.cmd),
                !.targets = @ \cup {m[2] : m \in Moves(j.cmd)},
                !.unread = IF Links(j.cmd) /\ j.cmd.tool = "gcc"
                              /\ Kind[Target(j.cmd)] \in {"o", "so"}
                           THEN @ \cup {Target(j.cmd)} ELSE @,
                !.programs = (@ \ {m[1] : m \in Moves(j.cmd)}) \cup
                    IF Links(j.cmd) /\ j.cmd.tool = "gcc" THEN {Target(j.cmd)} ELSE {},
                !.installed = @ \cup {<<r.exe.of, r.dest>> :
                    r \in {r \in ToSet(j.rules) : r.begin = "INSTALL"}}]
    /\ UNCHANGED <<menu, archives, phase, started, rulesfile, capture>>

\* A command fails, at most one of a build; make goes on, or waits for the others.
Fail(j, ignored) ==
    /\ j.todo[1] = "run" /\ Did(j)
    /\ "failure_ignored" \notin past.mistakes
    /\ phase' = IF ignored THEN phase ELSE "stopping"
    /\ past' = [past EXCEPT !.mistakes = @ \cup {"failure_ignored"}]
    /\ UNCHANGED <<menu, archives, tree, started, rulesfile, capture>>

MakeEnds ==
    /\ phase \in {"make", "stopping"} /\ jobs = {}
    /\ phase' = CASE phase = "stopping" -> "failed"
                  [] rulesfile = <<>> -> "done"
                  [] OTHER -> "read"
    /\ UNCHANGED <<menu, archives, tree, jobs, started, rulesfile, capture, past>>

-----------------------------------------------------------------------------
(* csmake reads the rules                                                  *)

Reading(begin) == phase = "read" /\ position < Len(rulesfile) /\ rulesfile[position + 1].begin = begin
ThisRule == rulesfile[position + 1]
Advance ==
    /\ position' = position + 1
    /\ UNCHANGED <<menu, archives, tree, jobs, started, rulesfile, past>>

OriginalFaulty(f) == IF f \in DOMAIN old THEN old[f] ELSE f    \* one rename only

\* A name's original: as many renames back as there are, which for a name that
\* was moved back and forth is never enough.
Original(f) ==
    FoldLeft(LAMBDA g, h : IF g \in DOMAIN old THEN old[g] ELSE g, f,
             SetToSeq(DOMAIN old))
Endless(f) == Original(f) \in DOMAIN old
Originals(objs) == [i \in DOMAIN objs |-> Original(objs[i])]
HasRule(f) == f \in DOMAIN rule
RuleOf(f) == IF HasRule(f) THEN rule[f] ELSE <<>>
Rules(objs) == FlattenSeq([i \in DOMAIN objs |-> RuleOf(objs[i])])
SetRule(f, units) ==
    rule' = [g \in DOMAIN rule \cup {f} |-> IF g = f THEN units ELSE rule[g]]

Installs(name) ==                           \* %irules, of a pass of its own
    LET found == SelectSeq(rulesfile, LAMBDA r : r.begin = "INSTALL" /\ r.exe = name)
    IN  [i \in DOMAIN found |-> found[i].dest]

CreateProject(name, objs) ==
    LET new == SelectSeq(Originals(objs), HasRule)
    IN  makecs' = IF new = <<>> THEN makecs
              ELSE Append(makecs, [name |-> name, cmd |-> ThisRule.cmd, units |-> Rules(new),
                               installs |-> Installs(name)])

Looping ==                                  \* ancestor does not return
    /\ phase = "read" /\ position < Len(rulesfile) /\ ThisRule.begin \in {"LINK", "AR"}
    /\ \E i \in DOMAIN ThisRule.obj : Endless(ThisRule.obj[i])

ReadRename ==
    /\ Reading("RENAME") /\ Advance
    /\ old' = [f \in DOMAIN old \cup {ThisRule.new} |->
                IF f = ThisRule.new THEN ThisRule.old ELSE old[f]]
    /\ UNCHANGED <<phase, rule, makecs>>

ReadInstall == Reading("INSTALL") /\ Advance /\ UNCHANGED <<phase, old, rule, makecs>>

ReadCompile ==
    /\ Reading("COMPILE") /\ Advance
    /\ SetRule(ThisRule.obj, Append(RuleOf(ThisRule.obj), [in |-> ThisRule.in, lines |-> ThisRule.lines]))
    /\ UNCHANGED <<phase, old, makecs>>

ReadLink ==
    /\ Reading("LINK") /\ ~Looping /\ Advance
    /\ IF Kind[ThisRule.exe.of] \in {"o", "a", "so"} THEN SetRule(ThisRule.exe, Rules(Originals(ThisRule.obj)))
       ELSE UNCHANGED rule
    /\ IF Kind[ThisRule.exe.of] \in {"o", "a"} THEN UNCHANGED makecs
       ELSE CreateProject(ThisRule.exe, ThisRule.obj)
    /\ UNCHANGED <<phase, old>>

ReadAr ==
    /\ Reading("AR") /\ ~Looping /\ Advance
    /\ SetRule(ThisRule.lib, Rules(Originals(ThisRule.obj)))
    /\ IF archives THEN CreateProject(ThisRule.lib, ThisRule.obj) ELSE UNCHANGED makecs
    /\ UNCHANGED <<phase, old>>

ReadEnd ==
    /\ phase = "read" /\ position = Len(rulesfile) /\ phase' = "done"
    /\ UNCHANGED <<menu, archives, tree, jobs, started, rulesfile, capture, past>>

CNext ==
    \/ \E c \in menu : Start(c)
    \/ \E j \in jobs : Record(j) \/ Execute(j) \/ \E ignored \in BOOLEAN : Fail(j, ignored)
    \/ MakeEnds
    \/ ReadRename \/ ReadInstall \/ ReadCompile \/ ReadLink \/ ReadAr \/ ReadEnd

CSpec == CInit /\ [][CNext]_cvars

-----------------------------------------------------------------------------
(* Properties                                                              *)

\* make.cs has exactly one project for each program, shared library and, if
\* asked for, archive that was made, with the compilations that went into it,
\* through archives, combined objects and renames, however commands overlapped;
\* it is told where its program is installed; and the reading of the rules ends.
CaptureExact ==
    past.mistakes \subseteq Mistaken =>
        /\ ~Looping
        /\ phase = "done" =>
            LET full == SelectSeq(makecs, LAMBDA p : p.units # <<>>)
            IN  /\ {[cmd |-> full[i].cmd, name |-> full[i].name, units |-> full[i].units] :
                        i \in DOMAIN full} = past.projects
                /\ Len(full) = Cardinality(past.projects)
                /\ \A i \in DOMAIN full :
                     ToSet(full[i].installs) = {g[2] : g \in {g \in past.installed : g[1] = full[i].name.of}}
=============================================================================

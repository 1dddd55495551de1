----------------------------- MODULE Workspace -----------------------------
(***************************************************************************)
(* The workspace definition file and the compilation units it names:       *)
(* process_include and process_pragma of pdtoken.cpp, the file table of    *)
(* fileid.cpp and filedetails.cpp, the dependencies of fdep.cpp and        *)
(* garbage_collect of engine.cpp.                                          *)
(*                                                                         *)
(* A file is a sequence of lines, and a line is a directive, the           *)
(* definition or use of a macro, or a definition that provides code or     *)
(* data.  A file name is its directory and its name in it.                 *)
(***************************************************************************)
EXTENDS Integers, Sequences, FiniteSets

CONSTANTS
    File,           \* the files, <<directory, name>>
    NoFile,         \* not a file: Fileid()
    WorkspaceFile,  \* the workspace definition file
    Program,        \* what the files may hold: a set of [File -> Seq(line)]
    Project,        \* the projects
    Unspecified,    \* the project before the first #pragma project
    Name,           \* the names of macros
    Copies,         \* sets of files with the same contents (identical_files)
    MaxOpen         \* bound on the files open at a time

ASSUME WorkspaceAssumption ==
    /\ WorkspaceFile \in File /\ NoFile \notin File /\ NoFile \notin Name
    /\ IsFiniteSet(File)
    /\ Unspecified \in Project
    /\ Copies \subseteq SUBSET File
    /\ MaxOpen \in Nat

\* The lines name what there is; a unit to process is a file that exists.
LineIsOf(t, l) ==
    /\ l.do = "process" => l.file \in DOMAIN t
    /\ l.do = "readonly" => l.file \in File
    /\ l.do = "project" => l.project \in Project
    /\ l.do \in {"define", "use"} => l.name \in Name
    /\ l.do = "define" => l.body \in Name \cup {NoFile}
ASSUME ProgramAssumption ==
    \A t \in Program :
        /\ WorkspaceFile \in DOMAIN t /\ DOMAIN t \subseteq File
        /\ \A f \in DOMAIN t :
            Len(t[f]) \in Nat /\ \A i \in 1 .. Len(t[f]) : LineIsOf(t, t[f][i])

VARIABLES
    text,           \* what the files hold
    fi, at,         \* Fchar::fi, and the number of lines read of it
    cs,             \* Fchar::cs: [fi, at] of the files to return to
    root,           \* the unit being processed, or NoFile
    include_path,   \* Pdtoken::include_path
    skipped,        \* Pdtoken::skipped_includes
    offset,         \* ipath_offset of each file
    known,          \* the files that have a Fileid
    collected,      \* those whose garbage_collected is set
    required,       \* those whose required is set
    definers, includers, providers, last_provider,      \* those of Fdep
    includes,       \* Filedetails::includes: [direct, required, lines] of some
                    \* pairs <<includer, included>>
    compilation_unit,   \* the files that are compilation units
    project,        \* Project::current_projid
    projects,       \* the projects in the attributes of each file
    readonly,       \* the files that are marked read-only
    macros,         \* the defined macros: [file, body], or NoFile
    finished,       \* whether unify_identical_files has run
    seen,           \* history since the last unit: the files read, the pairs of files
                    \* that use and that include one another, the providers, the
                    \* sites <<includer, line, included>>, the place in the path
                    \* of each open file, the files with skipped includes; and
                    \* the files read since the include path was last cleared
    truth           \* history of the units so far

files == <<text, fi, at, cs, root>>
search == <<include_path, skipped, offset>>
table == <<known, collected, required, includes, compilation_unit, projects, readonly>>
fdep == <<definers, includers, providers, last_provider>>
other == <<project, macros, finished>>
vars == <<files, search, table, fdep, other, seen, truth>>

Nothing == [read |-> {}, uses |-> {}, incs |-> {}, provs |-> {}, sites |-> {},
            place |-> <<0>>, skips |-> {}, build |-> {}]

Init ==
    /\ text \in Program
    /\ fi = WorkspaceFile /\ at = 0 /\ cs = <<>> /\ root = NoFile
    /\ include_path = <<>> /\ skipped = {} /\ offset = [f \in File |-> 0]
    /\ known = {WorkspaceFile} /\ collected = {} /\ required = {}
    /\ definers = {} /\ includers = {} /\ providers = {} /\ last_provider = NoFile
    /\ includes = [p \in {} |-> 0] /\ compilation_unit = {}
    /\ project = Unspecified /\ projects = [f \in File |-> {}]
    /\ readonly = {WorkspaceFile}
    /\ macros = [n \in Name |-> NoFile]
    /\ finished = FALSE
    /\ seen = Nothing /\ truth = {}

-----------------------------------------------------------------------------
(* Files that are included                                                 *)

\* Filedetails::set_includes: "A false value in the Boolean flags can simply
\* mean don't know and can be later upgraded to true."
Known(inc, p) ==
    IF p \in DOMAIN inc THEN inc[p] ELSE [direct |-> FALSE, required |-> FALSE, lines |-> {}]
SetIncludes(inc, a, b, direct, req, lines) ==
    [p \in DOMAIN inc \cup {<<a, b>>} |->
        IF p # <<a, b>> THEN inc[p]
        ELSE [direct |-> direct \/ Known(inc, p).direct,
              required |-> req \/ Known(inc, p).required,
              lines |-> Known(inc, p).lines \cup lines]]

\* Fchar::push_input and Fdep::add_include.
PushInput(f) ==
    /\ Len(cs) < MaxOpen
    /\ cs' = Append(cs, [fi |-> fi, at |-> at + 1])
    /\ fi' = f /\ at' = 0
    /\ known' = known \cup {f}
    /\ collected' = collected \ {f}
    /\ includers' = includers \cup {<<f, fi>>}
    /\ includes' = SetIncludes(includes, fi, f, TRUE, FALSE, {at + 1})

Line == text[fi][at + 1]
Reads(d) == at < Len(text[fi]) /\ Line.do = d

\* A line that leaves the files alone.
Stay ==
    /\ at' = at + 1
    /\ UNCHANGED <<text, fi, cs, root>>

Exists(f) == f \in DOMAIN text

\* The places process_include looks at, with their index in the path, 0 being
\* the directory of the includer; #include_next starts after the directory in
\* which the current file was found.
Candidates ==
    LET start == IF Line.next THEN offset[fi] + 2 ELSE 1
    IN  {i \in start .. Len(include_path) : Exists(<<include_path[i], Line.name>>)}
        \cup (IF Line.quote /\ ~Line.next /\ Exists(<<fi[1], Line.name>>)
              THEN {0} ELSE {})
Found == CHOOSE i \in Candidates : \A j \in Candidates : i <= j
FoundFile == <<IF Found = 0 THEN fi[1] ELSE include_path[Found], Line.name>>

IncludeError ==
    /\ Reads("include") /\ Candidates = {}
    /\ Stay /\ UNCHANGED <<search, table, fdep, other, seen, truth>>

\* The offset is set for the current file: the one just opened, ...
IncludeOpen ==
    /\ Reads("include") /\ Candidates # {}
    /\ FoundFile \notin skipped
    /\ PushInput(FoundFile)
    /\ offset' = IF Found = 0 THEN offset
                 ELSE [offset EXCEPT ![FoundFile] = Found - 1]
    /\ seen' = [seen EXCEPT !.read = @ \cup {FoundFile},
                            !.build = @ \cup {FoundFile},
                            !.incs = @ \cup {<<FoundFile, fi>>},
                            !.place = Append(@, Found),
                            !.sites = @ \cup {<<fi, at + 1, FoundFile>>}]
    /\ UNCHANGED <<text, root, include_path, skipped, required, compilation_unit,
                   projects, readonly, definers, providers, last_provider,
                   other, truth>>

\* ... or, when that one is skipped, the one that includes it.
IncludeSkipped ==
    /\ Reads("include") /\ Candidates # {}
    /\ FoundFile \in skipped
    /\ offset' = IF Found = 0 THEN offset ELSE [offset EXCEPT ![fi] = Found - 1]
    /\ Stay
    /\ seen' = [seen EXCEPT !.skips = @ \cup {fi}]
    /\ UNCHANGED <<include_path, skipped, table, fdep, other, truth>>

-----------------------------------------------------------------------------
(* Pragmas                                                                 *)

Once ==
    /\ Reads("once")
    /\ skipped' = skipped \cup {fi}
    /\ Stay
    /\ UNCHANGED <<include_path, offset, table, fdep, other, seen, truth>>

IncludePath ==
    /\ Reads("includepath")
    /\ include_path' = Append(include_path, Line.dir)
    /\ Stay
    /\ UNCHANGED <<skipped, offset, table, fdep, other, seen, truth>>

ClearInclude ==
    /\ Reads("clear_include")
    /\ include_path' = <<>> /\ skipped' = {}
    /\ seen' = [seen EXCEPT !.build = {}]
    /\ Stay
    /\ UNCHANGED <<offset, table, fdep, other, truth>>

ClearDefines ==
    /\ Reads("clear_defines")
    /\ macros' = [n \in Name |-> NoFile]
    /\ Stay
    /\ UNCHANGED <<search, table, fdep, project, finished, seen, truth>>

SetProject ==
    /\ Reads("project")
    /\ project' = Line.project
    /\ Stay
    /\ UNCHANGED <<search, table, fdep, macros, finished, seen, truth>>

\* A Fileid is made for the file, whose garbage_collected is false.
SetReadonly ==
    /\ Reads("readonly")
    /\ readonly' = readonly \cup {Line.file}
    /\ known' = known \cup {Line.file}
    /\ Stay
    /\ UNCHANGED <<search, collected, required, includes, compilation_unit,
                   projects, fdep, other, seen, truth>>

Process ==
    /\ Reads("process") /\ root = NoFile
    /\ PushInput(Line.file)
    /\ root' = Line.file
    /\ seen' = [seen EXCEPT !.read = @ \cup {Line.file},
                            !.build = @ \cup {Line.file},
                            !.incs = @ \cup {<<Line.file, fi>>},
                            !.place = Append(@, 0)]
    /\ UNCHANGED <<text, search, required, compilation_unit, projects, readonly,
                   definers, providers, last_provider, other, truth>>

-----------------------------------------------------------------------------
(* Macros and definitions                                                  *)

\* The body of a macro is another name, or NoFile.
Define ==
    /\ Reads("define")
    /\ macros' = [macros EXCEPT ![Line.name] = [file |-> fi, body |-> Line.body]]
    /\ Stay
    /\ UNCHANGED <<search, table, fdep, project, finished, seen, truth>>

\* Fdep::add_def_ref, called by Token::unify for the name that is expanded and
\* for the one in its body.
References(n) ==
    LET m == macros[n]
    IN  IF m = NoFile THEN {}
        ELSE {<<fi, m.file>>}
             \cup (IF m.body # NoFile /\ macros[m.body] # NoFile
                   THEN {<<m.file, macros[m.body].file>>} ELSE {})
Use ==
    /\ Reads("use")
    /\ definers' = definers \cup {r \in References(Line.name) : r[1] # r[2]}
    /\ seen' = [seen EXCEPT !.uses = @ \cup References(Line.name)]
    /\ Stay
    /\ UNCHANGED <<search, table, includers, providers, last_provider, other, truth>>

\* Fdep::add_provider
Provide ==
    /\ Reads("provide")
    /\ providers' = IF fi = last_provider THEN providers ELSE providers \cup {fi}
    /\ last_provider' = fi
    /\ seen' = [seen EXCEPT !.provs = @ \cup {fi}]
    /\ Stay
    /\ UNCHANGED <<search, table, definers, includers, other, truth>>

-----------------------------------------------------------------------------
(* The end of a file                                                       *)

AtEnd == at = Len(text[fi])
SetAttribute(f) == projects' = [projects EXCEPT ![f] = @ \cup {project}]

EndOfInclude ==
    /\ AtEnd /\ cs # <<>> /\ ~(root # NoFile /\ Len(cs) = 1)
    /\ SetAttribute(fi)
    /\ fi' = cs[Len(cs)].fi /\ at' = cs[Len(cs)].at
    /\ cs' = SubSeq(cs, 1, Len(cs) - 1)
    /\ collected' = collected \ {fi'}
    /\ seen' = [seen EXCEPT !.place = SubSeq(@, 1, Len(@) - 1)]
    /\ UNCHANGED <<text, root, search, known, required, includes,
                   compilation_unit, readonly, fdep, other, truth>>

\* mark_required_transitive from some files: it stops at files that are marked.
MarkedFaulty(req, from) ==              \* follows includers only
    LET succ(S) == {f \in File : \E g \in S : <<g, f>> \in includers}
        reach[n \in 0 .. Cardinality(File)] ==
            IF n = 0 THEN from \ req
            ELSE reach[n - 1] \cup (succ(reach[n - 1]) \ req)
    IN  req \cup reach[Cardinality(File)]
Marked(req, from) ==
    LET succ(S) ==
            {f \in File : \E g \in S : <<g, f>> \in definers \cup includers}
        reach[n \in 0 .. Cardinality(File)] ==
            IF n = 0 THEN from \ req
            ELSE reach[n - 1] \cup (succ(reach[n - 1]) \ req)
    IN  req \cup reach[Cardinality(File)]

\* garbage_collect: "touched" are the files that are not marked as collected.
\* input_file_id, which the code compares them with, is set only after the last
\* unit (cscout.cpp:2811), so that it names no file here.
Touched == known \ collected
Stale == required \ Touched      \* left by an earlier unit, and not read by this
Required == Marked(Stale, {root} \cup providers)
Recorded ==
    LET new == {<<root, f>> : f \in Touched \ {root, NoFile}}
        old == DOMAIN includes
    IN  [p \in old \cup new |->
            IF p \in new
            THEN SetIncludes(includes, root, p[2], FALSE, p[2] \in Required, {})[p]
            ELSE includes[p]]

\* What is needed, from the history: the smallest set that holds the unit and
\* what provides for it, and with a file all it uses and all that include it.
Closed(S) == \A r \in seen.uses \cup seen.incs : r[1] \in S => r[2] \in S
Needed ==
    LET s == {S \in SUBSET File : {root} \cup seen.provs \subseteq S /\ Closed(S)}
    IN  CHOOSE S \in s : \A T \in s : S \subseteq T

\* A macro of a stale file, where marking stops, stands for one of a file that it
\* has not reached.
Cut == \E r \in seen.uses : r[1] \in Stale /\ r[2] \notin Stale

\* Fdep::reset
ResetFaulty ==                          \* keeps the last provider
    /\ definers' = {} /\ includers' = {} /\ providers' = {}
    /\ UNCHANGED last_provider
Reset ==
    /\ definers' = {} /\ includers' = {} /\ providers' = {}
    /\ last_provider' = NoFile

\* The end of a unit: garbage_collect, and back to the workspace.
EndOfUnit ==
    /\ AtEnd /\ root # NoFile /\ Len(cs) = 1
    /\ SetAttribute(root)
    /\ compilation_unit' = compilation_unit \cup {root}
    /\ required' = Required
    /\ includes' = Recorded
    /\ Reset
    /\ fi' = cs[1].fi /\ at' = cs[1].at /\ cs' = <<>>
    /\ collected' = (collected \cup Touched) \ {fi'}
    /\ root' = NoFile
    /\ truth' = truth \cup {[root |-> root, proj |-> project, read |-> seen.read,
                             incs |-> seen.incs, sites |-> seen.sites,
                             needed |-> Needed, cut |-> Cut]}
    /\ seen' = [Nothing EXCEPT !.build = seen.build]
    /\ UNCHANGED <<text, search, known, readonly, other>>

\* The end of the workspace: main sets the attribute of its file and then has
\* files with the same contents read again.
Copied == UNION {S \in Copies : Cardinality(S) > 1}
EndOfWorkspace ==
    /\ AtEnd /\ cs = <<>> /\ ~finished
    /\ finished' = TRUE
    /\ LET again == {WorkspaceFile} \cup (Copied \cap known)
       IN  /\ projects' = [f \in File |->
                projects[f] \cup (IF f \in again THEN {project} ELSE {})]
           /\ collected' = collected \ again
    /\ UNCHANGED <<files, search, known, required, includes, compilation_unit,
                   readonly, fdep, project, macros, seen, truth>>

Next ==
    \/ IncludeError \/ IncludeOpen \/ IncludeSkipped
    \/ Once \/ IncludePath \/ ClearInclude \/ ClearDefines
    \/ SetProject \/ SetReadonly \/ Process
    \/ Define \/ Use \/ Provide
    \/ EndOfInclude \/ EndOfUnit \/ EndOfWorkspace

Spec == Init /\ [][Next]_vars

-----------------------------------------------------------------------------
(* The report of warning_report: the lines of a unit none of whose includes *)
(* is required.  Units that others include are left out.                   *)

Included(f, g) == <<f, g>> \in DOMAIN includes
Reported(f) ==
    /\ f \in compilation_unit \ (readonly \cup {WorkspaceFile})
    /\ Cardinality({a \in File : Included(a, f)}) <= 1
At(f, line) ==
    {g \in File : Included(f, g) /\ includes[<<f, g>>].direct
                   /\ line \in includes[<<f, g>>].lines}
Unused(f, line) ==
    At(f, line) # {} /\ \A g \in At(f, line) : ~includes[<<f, g>>].required

-----------------------------------------------------------------------------
(* Properties                                                              *)

UnitsOf(f) == {t \in truth : t.root = f}
Idle == root = NoFile /\ cs = <<>>
Inclusions == seen.incs \cup UNION {t.incs : t \in truth}
Sites == seen.sites \cup UNION {t.sites : t \in truth}

\* A unit is recorded as requiring another file exactly when, in one of the
\* times it was processed, the file was read and provides something for it or
\* is needed, over any number of steps, by what does.  Units whose marking was cut
\* short are left out: the flags of files that they did not read are those of an
\* earlier unit, and mark_required_transitive stops there.
Complete(f) == \A t \in UnitsOf(f) : ~t.cut
RequiredRight(p) ==
    includes[p].required <=> \E t \in UnitsOf(p[1]) : p[2] \in t.read \cap t.needed
RequiredExact ==
    Idle => \A p \in DOMAIN includes :
        p[1] # p[2] /\ p[2] # WorkspaceFile /\ Complete(p[1]) => RequiredRight(p)

\* The files recorded as included are those that were: directly by the file,
\* or in any way by the unit.  Nothing of a unit is recorded for another.
IncludesExact ==
    Idle => \A f \in File, g \in File \ {WorkspaceFile} :
        /\ Included(f, g) <=>
            \/ <<g, f>> \in Inclusions
            \/ f # g /\ \E t \in UnitsOf(f) : g \in t.read
        /\ Included(f, g) =>
            (includes[<<f, g>>].direct <=> <<g, f>> \in Inclusions)

\* The user is told that a line includes nothing needed exactly when none of
\* the files it ever included was needed, whichever files those were each time
\* the unit was processed, and marking was never cut short.
WarningsExact ==
    Idle => \A f \in File : Reported(f) /\ Complete(f) =>
        \A line \in 1 .. Len(text[f]) :
            LET there == {s[3] : s \in {s \in Sites : s[1] = f /\ s[2] = line}}
            IN  Unused(f, line) <=>
                    there # {} /\ \A t \in UnitsOf(f) : there \cap t.read \cap t.needed = {}

\* A file is of the projects whose units read it, and of no other, until files
\* with copies are read again.
ProjectsExact ==
    Idle => \A f \in File \ (Copied \cup {WorkspaceFile}) :
        f \notin seen.read => projects[f] = {t.proj : t \in {t \in truth : f \in t.read}}

\* A file is left out because of #pragma once only when this unit has read it, or
\* one of the same command, which cleared the include path for all of them.
OnlyOnce ==
    Reads("include") /\ Candidates # {} /\ FoundFile \in skipped
        => FoundFile \in seen.build

\* #include_next starts at the directory after the one in which the current
\* file was found: it finds the first file there, and never this one again.
\* The place is lost when an include of the file was left out (see
\* AlwaysGoesOn), and there is none for a file not found in the path.
Here == seen.place[Len(seen.place)]
AfterHere ==
    Found > Here
    /\ \A i \in Here + 1 .. Found - 1 : ~Exists(<<include_path[i], Line.name>>)
NextGoesOn ==
    Reads("include") /\ Line.next /\ Here > 0 /\ Candidates # {} /\ fi \notin seen.skips
        => AfterHere

\* The file that is read for an #include is the one it names, and is read, and
\* what is recorded of the files is what happened.
RecordsExact ==
    /\ RequiredExact /\ IncludesExact /\ ProjectsExact
    /\ NextGoesOn /\ OnlyOnce

\* What csmake does in the workspaces it writes (csmake.pl:217-235), and what the
\* records rely on.  Only the workspace definition file processes units: for a
\* command all its -include files and then the source, each as a unit of its own
\* (csmake.pl:549).  Once for all of them, while no other file is open, it clears
\* the include path and sets it to the one the compiler searches (csmake.pl:611),
\* in which no directory is twice.  It sets the project before it opens a file.  It
\* is not included itself, has no #pragma once of its own, and says of no file that
\* it is read-only before that is read.
Orderly ==
    /\ Reads("include") /\ Candidates # {} => FoundFile # WorkspaceFile
    /\ Reads("once") => fi # WorkspaceFile
    /\ Reads("process") => cs = <<>> /\ Line.file # WorkspaceFile
    /\ Reads("project") => seen.read = {}
    /\ Reads("clear_include") => cs = <<>>
    /\ Reads("includepath") =>
            cs = <<>> /\ \A i \in DOMAIN include_path : include_path[i] # Line.dir
    /\ Reads("readonly") => Line.file \in known

\* "When next is true we start scanning the include path from the directory
\* following the one in which the current file was found" (pdtoken.cpp:691).
AlwaysGoesOn ==
    Reads("include") /\ Line.next /\ Here > 0 /\ Candidates # {} => AfterHere

\* "Transitively: all the files that contain definitions for the above"
\* (fdep.cpp:80), whatever earlier units required.
AlwaysRequired ==
    Idle => \A p \in DOMAIN includes :
        p[1] # p[2] /\ p[2] # WorkspaceFile => RequiredRight(p)
=============================================================================

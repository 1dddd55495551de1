# CScout in TLA+

CScout analyses workspaces of C code: it preprocesses and parses every
compilation unit, finds which pieces of source text are the same identifier
across files, macros and token pasting, and lets the user query and rename
identifiers through a web browser.  These modules model the parts of it that
decide whether what it records, shows and writes is right.  They are checked
with TLC on small instances, and the central invariants are proved with TLAPS
for every instance.

Paths below are relative to the repository; a file without a directory is in
`src/` of it (`eclass.cpp`, `pdtoken.cpp`, `csmake.pl`, ...).

## The system

CScout is one process and one thread.  Its behaviours are hard not because of
concurrency but because of long chains of calls over shared, global, mutable
state: classes of text that are split and merged while they are walked over,
preprocessor state that outlives the file that set it, a symbol table whose
levels mean linkage, flags that one page leaves for the next, and a second pass
over the same text that runs the code of the first with some of its effects
switched off.  Only `csmake` runs processes side by side.

| Component | State | Operations | What makes it correct |
|---|---|---|---|
| Equivalence classes (`eclass`, `tokid`, `token`, `attr`) | `Tokid::tm`, the `Eclass` objects, the current project | read a token, `split`, `merge`, `homogenize`, `unify`, `set_ec_attribute` | map and members agree; runs never overlap; the classes are exactly the closure of "same identifier"; attributes reach every member |
| Character input (`fchar`, `tchar`) and lexer (`pltoken`) | stack of files, lock, putback stack | push, pop, lock, `getnext`, `getnext_analyze` | characters arrive in order, each with its own Tokid; tokens are the longest; a unit ends where its file does |
| Conditional inclusion (`pdtoken`) | `iftaken`, `skiplevel` | `#if` ... `#endif`, end of unit, `#pragma process` | text is skipped exactly when C skips it; units do not influence each other |
| Macro table and expansion (`macro`, `ptoken`, `mcall`) | macro table, hide sets, producers | `#define`, `#undef`, `macro_expand`, `subst`, `glue`, `gather_args` | the result C defines; expansion ends; calls are real |
| Files of the workspace (`pdtoken`, `fileid`, `filedetails`, `fdep`, `engine`) | include path, once-only files, includes, dependencies, projects | `#include`, pragmas, `set_includes`, `mark_required`, `garbage_collect` | the right file is read; what is recorded and reported is what happened |
| Symbol table and parser (`stab`, `parse.y`, `call`, `fcall`) | stack of blocks, `param_block`, labels, the graph of calls | declare, define, use, enter, exit | C's scopes and linkage; one node for one function |
| Types and initializers (`type`, `initializer`, `ctconst`) | nodes of types, stack of initialized elements | specifiers, declarators, expressions, designators | the member a name selects is the one C selects |
| Renaming (`cscout.cpp`, `engine.cpp`) | `Identifier::ids`, `found_clashes` | select identifiers, set and deactivate replacements, check, save | the program keeps its meaning; what is saved is what was asked for |
| Function arguments (`engine.cpp`) | templates, boundaries of arguments | scan, go back, copy | every call is refactored as its template means |
| Saving (`engine.cpp`, `cscout.cpp`) | source files and `.repl` files, `modification_state` | rewrite, check out, delete, rename, check in | no text is lost; messages are true; substitution and hand editing exclude each other |
| Graphs and lists (`cscout.cpp`, `call`, `filedetails`) | marks of functions and files | walk, show | a page shows what the relations say, whatever the last one left |
| Queries (`idquery`, `funquery`, `filequery`, `mquery`, `pager`) | none but the URL | evaluate, list, page, mark | a link continues the query it came from |
| Metrics (`metrics`, `filemetrics`, `funmetrics`, `call`) | meters of each file and function, before and after the preprocessor; queued identifiers; nesting | charge a token, a directive, a declaration; enter, leave; summarize; show | everything is counted once and completely, in the right meters; nesting survives macros; what is shown is what was counted |
| Text of files: metrics, dump, obfuscation (`filemetrics`, `workdb`, `obfuscate`) | state machines over characters | three walks over a file | they agree with the lexical structure of C |
| Options (`options`, `option`, `cscout.cpp`) | mode of operation, the pool of options, the file they are saved in, compiled REs | parse the command line, load, set, show, save | what the program works with is what was asked for last; what was saved is loaded |
| Merging of databases (`dbtoken`, `csmerge/`) | attached and original twins of classes | read, merge, write | the closure of both inputs |
| Build capture (`csmake.pl`) | file of rules | spies append, csmake reads | a project for each program, with what it was made of |
| `#if` expressions (`eval.y`), scripts, support code, MD5 | | | |

The components meet in three places.  The lexer hands the preprocessor tokens
whose parts are Tokids; reading one gives its text a class.  Preprocessor,
macro expansion, symbol table and types call `Token::unify` whenever two tokens
are the same identifier; nothing else connects them with the classes.  After the
last unit `file_analyze` turns classes into identifiers, and the pages, the
second pass and the rewriting of files refer to classes by address.

## Modules

| Module | Models | Instance |
|---|---|---|
| `EClass` | equivalence classes and `Token::unify`, one step per loop iteration | `MCEClass` |
| `CharPartition` | what they promise: a partition of characters, unified at once | |
| `EClassPartition` | the refinement of `CharPartition` by `EClass` | |
| `Rename` | both passes, symbol and macro table, replacements, clash check, save; extends `EClass` | `MCRename` |
| `FileStack` | `Fchar`: the files that are open, the lock, putback, trigraphs, splices | |
| `Lexer` | `getnext_analyze` over `FileStack`, directives that open files, ends of units | `MCLexer` |
| `CharOrder` | what character input promises, which `Lexer` refines | |
| `Conditionals` | `iftaken` and `skiplevel` next to C's view of open conditionals | `MCMetrics` |
| `Metrics` | what lexer, preprocessor and parser count while units are read, and how it is shown; extends `Conditionals` | `MCMetrics` |
| `MacroExpand` | `macro_expand`, `subst`, `gather_args`, `glue`, one step per loop iteration | `MCMacroExpand` |
| `Prosser` | the recursive algorithm they implement | |
| `Workspace` | `#include`, the pragmas, file dependencies, `garbage_collect`, `warning_report` | `MCWorkspace` |
| `BuildCapture` | `csmake`: spies, rules, and the workspaces it writes | `MCBuildCapture` |
| `Declarations` | declarations, scopes, linkage, tags, labels, calls | `MCDeclarations` |
| `Types`, `Initializers` | types of declarations and expressions; designators | `MCTypes` |
| `CallGraph` | function lists, call paths, call and file graphs | `MCCallGraph` |
| `Queries` | query forms, lists, pages, links | `MCQueries` |
| `Session` | the pages of a session, and `file_refactor` operation by operation | `MCSession` |
| `Settings` | command line and options, loaded and saved line by line; extends `Session` | `MCSession` |
| `FunArgs` | templates, the boundaries of arguments, the copy with calls refactored | `MCFunArgs` |
| `FileText` | the walks of `file_analyze`, `file_dump` and `file_obfuscate` | `MCFileText` |
| `MergeDb` | `cscout -M`; extends `EClass` | `MCMergeDb` |

Proofs: `EClassProofs`, `EClassPartitionProofs`, `RenameProofs`,
`LexerProofs`, `ConditionalsProofs`, `MacroExpandProofs`, `WorkspaceProofs` and
`SessionProofs`.

Where two components share no state but fit into one instance (`Workspace` and
`BuildCapture`, `Declarations` and `Types`, `CallGraph` and `Queries`, `Session`
and `Settings`, `Conditionals` and `Metrics`), one run checks both, each in
states in which the other rests.

### EClass

A Tokid is a pair of file and offset.  `tm` is `Tokid::tm`, `ec` the allocated
`Eclass` objects by address (`ClassId`), `project` the current project and
`unify` the activation record of `Token::unify`: the two tokens as sequences of
the Tokids of their characters and the number of characters consumed.  The code
keeps deques of parts and two counters of used characters; both only name the
next character of each token.  Actions: `Read` (`Tokid::constituents` when a
token is read), `SetProject`, `SetAttribute`, `UnifyBegin`, one action per kind
of iteration of `homogenize` (`HomogenizeEqual`, `HomogenizeSplit`,
`HomogenizeEnd`) and of the merging loop (`MergePair`, `MergeMismatch`,
`UnifyEnd`).  `MergeMismatch` is the failing assertion of `merge_into`; the code
reports it and goes on, the model stops there.

`CharPartition` has no classes: a set of blocks of characters with attributes.
`EClassPartition` maps the classes to blocks while no call of `unify` is under
way and keeps the last such partition during a call (`snap`), so that a whole
call is one step of the abstract specification.

### Rename

A `Program` is the sequence of events a pass over the workspace gives rise to:
a lexeme is read, a macro defined or tested, a block entered or left, an
identifier declared or used.  The same program runs in the first pass
(`phase = "parse"`) and in the second (`"check"`), in which names are the
refactored ones and `unify` compares classes but still splits them.  `Analyze`
is `file_analyze`: identifiers go to `ids`, other classes are deleted.
`IdentifierPage`, `SetNewId`, `SetActive`, `SaveRequest`, `Refuse` and `Save` are
the pages, and `SetOptions` sets two options: whether read-only identifiers may be
renamed (`rename_override_ro`, off by default) and whether a save checks for
clashes (`refactor_check_clashes`, on by default).  The page of a read-only
identifier has a form for a new name only while the first is set
(`cscout.cpp:890`), but the handler of the form does not look at the option, nor
at `is_readonly` (`cscout.cpp:836-849`).  So a form works for as long as the user
keeps it, which `forms` remembers.  Without the second option `SaveRequest` skips
the second pass (`phase = "write"`).
`Meaning` is not CScout but C: which declaration each use of the text refers to,
which macro expands it, and which declarations are one object.  The properties
compare the meaning of the text before and after a save.  `NoCapture` and
`NoFalseClash` are stated where no replacement was deactivated: the second pass
takes a name from a replacement whether or not it is active (`token.cpp:159`).
`NoCapture` and `NoDuplicate` are about saves that are checked.
`ReadOnlyUntouched` says that the text of a read-only file stays what it was but
for identifiers that the user renamed in a form for read-only ones.

### FileStack, Lexer and CharOrder

One step is one round of the loops of `getnext` and `simple_getnext`, or one
character `getnext_analyze` looks at.  The file that is read, those to return to,
the cached position of `fifstream`, the putback stack and the lock are the
code's.  `CharOrder` has no positions but the next character of every open file
in translation phases 1 and 2, and of what was read only whether it ends with a
newline, to which the ends of units and the marks of yacc files do not count; it
is refined by mapping the open files (`OpenFiles`).  A directive is one character of the text, and the lexer decides when its line has
been eaten.

### Conditionals

`iftaken` and `skiplevel` are the code's.  `groups` holds what C says of every
open conditional: whether its current group is processed (`on`), whether one of
its groups has been (`taken`) and whether the current one follows `#else`
(`last`).  Conditions are chosen freely; unbalanced `#else`, `#elif` and
`#endif` are included.  `EndOfUnit` and `EndOfUnitSkipping` are the two branches
of `getnext_expand` at the end of a file, `Process` is `#pragma process`.

### Metrics

A file is a sequence of items: a token or directive that the lexer reads, or a
place where an action of the grammar runs.  What a step counts is a set of marks
(`Mark`): the kind of a token, the words of `Directives` and `Declared`, the
identifiers.  `Charge` gives it to the meters of the file that is read and of
the innermost function or function-like macro (`Current`), unless they are
`processed`; `Tally` is `process_token` and the methods that add.  Before the
preprocessor `Pltoken` charges text as the lexer sees it, skipped or not; after
it `parse_lex_real` charges what the parser gets.  `Enter` and `Leave` push and
pop the function that is current, `CloseFile` and `FinishUnit` end a file, and
`Summarize` counts the queued identifiers.  `Nest` and `Unnest` are the two
halves of `increase_nesting` and `decrease_nesting`, `KeywordOf` is
`check_macro_nesting`.  The directives are the steps of `Conditionals` with what
they count.  `read`, `controls` and `deepest` are history: the marks that were
read while an entity was current for the first time, the statements that are
open, and the deepest of a function's own.

`MeasuredOnce` leaves out what is begun again before it has ended (`again`: a
file that includes itself, which is charged until its inner copy ends),
`NestingRight` what follows a statement of a function inside one that a macro
began (`mixed`).

### MacroExpand

`macro_expand` calls `subst` for a replacement, and `subst` calls `macro_expand`
for an argument: `stack` holds the activations of `macro_expand`, each with the
activation of `subst` it waits for in `sub`.  `text` is what the file still
holds; only the outermost activation takes tokens from it (`Following`).  A token
has its value, its hide set (`hs`) and its producer (`by`).  The code's hide sets
hold the tokens that named the macros in their definitions and compare their
parts, which is the macro itself as long as the table does not change; here they
hold names.  `gather_args` is one step: `ends` says where each argument ends.

`Prosser` is the algorithm as published, with hide sets but without producers or
error recovery.  `ImplementsProsser` compares the tokens that come out of every
text whose calls are complete.  One difference remains that the instances do not
show: `glue` gives the tokens it makes an empty hide set, Prosser's the
intersection of those pasted; `subst` adds the macro's own right after.  And the
comment of `macro_expand` says that an object-like macro propagates the producer
of its name, which `subst` does not: the replacement has no producer.

### Workspace and BuildCapture

A file is a sequence of lines; a line is a directive, the definition or use of a
macro, or a definition that provides code or data.  Each action is one line or
the end of a file: `IncludeOpen`, `IncludeSkipped` and `IncludeError` are
`process_include`, `EndOfUnit` is `getnext`'s end of a unit with
`garbage_collect` and all it records.  `seen` and `truth` are history: what was
read, used and included in this unit and in those that ended, which the
properties compare with the tables.

`Orderly` is how `csmake` writes workspaces (`csmake.pl:217-235`): project, then
for a command `clear_include`, `clear_defines`, the path the compiler searches,
and a unit for each `-include` file and for the source (`csmake.pl:549`).  The
records rely on it.  Without it a project that is set after a file was read is
given to that file, files left out for one command stay out for the next, and a
file that `#pragma readonly` names but nobody reads is recorded as included.  TLC
finds `Orderly` to be an invariant of the workspaces of the instance.

The units of one command share their macros and the files that `#pragma once`
leaves out.  So a unit may use a macro of a file that only an earlier unit read.
The flag `required` of such a file is the earlier unit's, and where it is set
`mark_required_transitive` stops (`fdep.cpp:65`), although this unit may need what
lies beyond: its marking is cut short (`cut`).  `RequiredExact` and
`WarningsExact` are about units to which this never happened.

`BuildCapture` has the other side.  Each command of a make is run by a spy that
appends its rules when it starts and when it ends, several at a time; then
csmake reads the rules.  Make and the tools are external.  `Mistaken` names
what csmake takes for something else: it is empty in the run, and
`CaptureExact` fails for each of them with `Menus <- MCMishaps`: one command
that compiles and links several sources, commands that overlap and use the same
`csmake-ofile-<offset>` (`csmake.pl:671-674`), recompiled objects, `mv` onto a
name used before (back and forth, `ancestor` never ends), `ar` on an existing
archive, objects linked by gcc for later links, `mv` of one file into a
directory, failures that make ignores, and `install` of a program that `ld` or
`mv` named.

### Declarations, Types and Initializers

`Declarations` is the stack of constructs the parser is in the middle of, with
the blocks of `stab.cpp` and, as history, the scopes and linkage that ISO C
gives each name.  Programs are not listed but generated: any continuation that
the language allows is taken.  `Types` and `Initializers` read programs that the
instance lists, expressions and initializers that they generate, and do each of
them twice, as the code and as C.  A type is the tree of its nodes; that several
types share nodes matters in `Declarations` only.

### CallGraph and Queries

`CallGraph` walks over fixed relations of functions and files with the flags
that the walks of the pages before left.  `Queries` has the forms, the queries
built from them and from URLs, what they find, the order and the pages of the
lists, and the links; between a page and its link the project and the options
may change (`Settled` bounds how often).  Regular expressions are external.

### Session and FunArgs

The pages of one session are `Substitute`, `Review`, `Edit`, `SetOptions`,
`SaveRequest` and `Exit`; `modification_state` is `mode`.  A save is an
activation of `write_quit_page` (`save`) whose loop runs `file_refactor` one
operation on the disk at a time: `Open`, `Write`, `CheckOut`, `Unlink`,
`Rename`, `CheckIn`.  Each may fail, by a disjunct of its own, and what the page
then says of the file goes to `unopened`, `kept` (the changes are in the `.repl`
file) or `unsure`.  `Exit` is also the end of the process at any point, in the
middle of a save too.  The editor is another process: `HandEdit` may come at any
time after `Edit`, also when CScout has ended.

What a file holds is abstracted to whose text it is and which refactorings it
shows.  The offsets of refactorings are those of the text that was analysed, so a
file that is refactored while it holds anything else is `Spoilt`.  The file
replacement RE is two variables, as in the code: the option, and the RE that was
compiled; the pages set the first even when the second cannot follow.

The instances assume three things that CScout does not enforce, and TLC finds
`NothingLost`, `Exclusive` or `OffsetsAreCurrent` violated without them.  An
editor that was started reports success (`EditorMayFail`): `fedit_page` marks the
file as edited before it runs the command and leaves `modification_state` alone
if the command fails, so that substitution stays allowed, although
`doc/hedit.xml:15-18` calls the two "mutualy exclusive".  No write ends early
(`DiskMayFill`): `file_refactor` does not look at the state of `out`.  And no rule
sends a file to a source file, which the check that refuses saving in place
(`cscout.cpp:2465`) does not look for.

`FunArgs` is the text of such a save: the scan that goes back to the character
after each name it has read, and what it restores; then the copy.

### Settings

A process is a sequence of stages: the flags are read one by one (`ParseArg`),
options get their defaults and the lines of the file (`EndArgs`, `LoadLine`,
`EndLoad`), the workspace is read (`Analyse`), pages are served.  `SubmitOptions`
is the form with any words, present or not; `SaveOptions` opens the file, which
empties it, and `SaveLine` writes one option.  `End` is the end of the process
at any point, and `Start` the next one, which finds what is on the disk.  `kept`
is history: the values at the last save and how many lines were written.

### FileText and MergeDb

`FileText` runs three state machines over the same characters and compares each
with one reading of the text as C.  Its names have one letter.
`MergeDb` reads one database, then the other at twin Tokids, and unifies each
pair of twins; it uses the classes of `EClass`.  The reference is the database of
one analysis of the union of what both shards said.

## Runs

| Run | Shows | Bounds |
|---|---|---|
| `eclass` | the invariant that is proved; that `unify` returns with corresponding classes; that nothing is forgotten; refinement of `CharPartition` | three situations: a name of three characters whole in a read-only header and pasted as `ab##c` and `a##bc`, the smallest case in which the boundaries of all three differ; two projects and an attribute; a token that repeats a lexeme (`test/c/c46-double-split.c`) |
| `rename` | no renaming that is saved changes the meaning; no save is refused without cause; what is saved is what was asked for; identifiers stay live; read-only text stays unless the user overrides it | two units with a global, a static and locals of two names, every pair of edits, two saves, with and without the check; a macro of a read-only header, a pasted name and a tested macro, three edits or deactivations, one save, the override set and reset at any time |
| `metrics` | bits and counter of the conditionals agree with C in every unit, whatever the units before left in them; files and functions are measured once and completely, nesting survives macros, and tables, pages and rows show what was counted | conditionals five deep in three units; two units of four files, one of which includes itself, four functions and a macro, one function nested in another, one in a header, all kinds of statements, every outcome of the conditions |
| `macro_expand` | expansion gives what Prosser's algorithm gives, ends, and never replaces or calls from a macro's own result | every object-like body up to two of `f o (` with every function-like body up to three tokens; every variadic body up to three tokens, and those of four formals and operators; macros that call each other; texts in which a call begins in a replacement and ends in the text |
| `input` | characters and tokens once, in order, longest and at their places; units end with their files; refinement of `CharOrder` | every text of up to four of the characters a construct is made of, with and without trigraphs; one unit with a header and two units, one of them in yacc, or this one after an empty line, with headers two deep, with every way a file can end |
| `workspace` | the right files are read, what is recorded and reported of them is what happened; the projects of a build are its programs | two units, one for two projects, or a command with an `-include` file for two projects, with headers in two directories, up to two lines in each; four menus of up to eight commands, two at a time |
| `declarations` | tokens are unified exactly when they denote one identifier; blocks hold their scope; the graph of calls is the program's; no false errors; types and initialized elements are those of C | twelve kinds of programs of up to eight tokens, four scopes and two units; 230 programs of up to four declarations, expressions of four operands and operators, nine items of initializers |
| `graphs` | every page of functions and files shows what the relations say; every list and marked source what its query asks | four functions in every one of sixteen call relations, two pages, two depths and browse mode; eight identifiers, four files, two settings of the options |
| `session` | hand editing and refactoring exclude each other; no file is lost or refactored at stale offsets; what is saved is what is active; messages say where it is; options and modes are those asked for, in this process and the next | two files, an identifier in both and a function called in one, an RE for both files, one for one and one that does not compile; every failure; two saves; an option of each kind, seven command lines, one process after another that may end anywhere |
| `arguments` | every call that can be found is refactored as its template means; the scan ends | all files of up to five characters, calls of sixty forms under five templates and six wrong ones, two files over four requests |
| `text` | metrics, dump and obfuscation follow the lexical structure of C | all texts of up to four characters, all triples of sixteen pieces |
| `database` | the merged database is that of one analysis of both shards | 3088 pairs of shards, rows rotated and reversed |

Bounds: `ClassId` bounds allocation and is larger than the number of characters
plus lexemes ever live, so it never blocks (a class holds at least one character
at each member).  `edits` and `saves` of a workspace bound a session of `Rename`:
two of each suffice for every pair of replacements and for a save after a refused
one, the first point at which state left by a save can matter.  `MaxSaves` of
`Session` is two for that reason: a save keeps nothing but the disk and the
`.repl` files, and the second meets everything the first can leave.  `MaxDepth`
bounds open conditionals: five are three more than the two levels
`skiplevel > 1` tells apart.  `MaxUnits` bounds the units: what one unit leaves
to the next needs two, and the one after that a third.  `MaxOpen` ends
the behaviours of files that include themselves; the others open no more.  `MaxPages` is two, since a page sees
the marks of the last one only.  `MaxJobs` is two: rules of two commands can be
interleaved, a third adds no new neighbours.  The texts of `input` and `text` are
as long as the longest construct: a trigraph and the character after it; a
comment's two brackets.  Three tokens are the shortest body in which a
function-like macro can call another with an argument except for its closing
bracket, which the text then supplies; four are needed for an operator between
two formals and a token next to them.  The theorems below depend on none of these.

Deadlock checking is off where the modelled behaviour ends: a finished parse, a
saved session, a workspace read to its end.  `declarations` is reduced by the
symmetry of the two names of `Declarations`, which no definition tells apart.

Fairness: the loops of `unify` (`UnifyReturns`), of macro expansion
(`Terminates`) and of the scan for arguments (`ScanEnds`) are weakly fair.  They
run in the only thread and wait for nothing.  No other action is required to
happen; a user need not save.

### Disagreements

Where the code does not do what its comments or documents say, the properties
are stated around it.  TLC shows the difference when a property or constant of a
run's configuration is replaced:

| Configuration | Replace | Shows |
|---|---|---|
| `Rename.cfg` | `Workspace <- RefusedWorkspace`, invariant `RenamesExact` | the second pass splits classes before it compares them (`token.cpp:292`): after a refused save an identifier stands for its first characters only, and a later save writes the new name followed by the rest of the old one |
| `MacroExpand.cfg` | `Programs <- NoParameters`, property `Terminates` | the hide set of the bracket that closes a call is recorded for macros with parameters only (`macro.cpp:184` and the comment at 124), so that `f()` and `g()` that call each other are expanded for ever; the same set is lost when the optional argument of a variadic macro is left out |
| `Workspace.cfg` | `Program <- Skips`, `Menus <- NoMenus`, invariant `AlwaysGoesOn` | `#include_next` in a file one of whose includes was left out by `#pragma once` starts at that one's place (`pdtoken.cpp:800`, against the comment at 691) |
| `Workspace.cfg` | `Program <- Preincludes`, `Menus <- NoMenus`, invariant `AlwaysRequired` | a source that uses a macro of its `-include` file, which stands for one of a header, does not require that header: marking stops at the flag that the `-include` file has as a unit of its own (`fdep.cpp:65`, against the comment at 80), and the include is reported as unused |
| `Session.cfg` | invariant `OnlyBrowsed` | with `-b`, by the usage message, options cannot be saved; they can: the flag sets `opts.browse_only` (`options.cpp:184`), and pages look at a variable `browse_only` (`cscout.cpp:136`) that nothing sets |
| `EClass.cfg` | invariant `HomogenizePost` | a token that repeats a lexeme, its first occurrence matched whole and the second split, cuts the first too (`token.cpp:258`, comment at 226) |
| `Rename.cfg` | `Workspace <- DuplicateWorkspace`, invariant `NoDuplicate` | giving two objects of a block one name is reported on the console but saved (`stab.cpp:262`, `doc/change.xml:31`) |
| `Metrics.cfg` | invariant `NoUnitIgnored` | a unit that ends inside a skipped group makes the later `#pragma process` directives have no effect (`pdtoken.cpp:164`, 1091, `doc/pragma.xml:72`) |
| `CallGraph.cfg` | invariant `ContextRight` | the graph of a function in context lacks calls of functions that are both its callees and its callers (`call.h:202` assigns the flag, the comment at 201 says "Bit-or") |
| `FunArgs.cfg` | property `AllRefactored` | calls after stale characters and `isspace(SPACE)` are missed (`engine.cpp:275`, `fchar.cpp:224`; `doc/funarg.xml:3-4`) |
| `FunArgs.cfg` | `Project <- MCUnchecked` | the page of all refactorings keeps templates unchecked (`cscout.cpp:2444`) |
| `FileText.cfg` | invariant `CharactersCounted` | the first character of every identifier counts twice |
| `MergeDb.cfg` | invariant `FunctionOnce` | a function that both databases know gets two ids if they name its class by different members (`dbtoken.cpp:636`, comment at 632) |
| `Declarations.cfg` | `Known` one of `Mistaken` | the constructs the parser takes for others, among them a structure in a list of its own members (`parse.y:1290`, `doc/concept.xml:12`) |
| `Declarations.cfg` | `Misread` one of `Misreadings` | the same of types and initializers: `!p` keeps the type of `p`, `p ?: NULL` becomes `void *`, a long designator leaves `designated` set and a later element "too many" |
| `Workspace.cfg` | `Menus <- MCMishaps`, `Mistaken` all of `Mistakes` | what csmake mistakes, see above |

Some are only noted.  Of `Session`, whose properties are stated around them: a
check-in that fails is reported with "Changes are saved in" the `.repl` file,
which was renamed before (`engine.cpp:614`, 635); an RE that does not compile
stays in the option (`cscout.cpp:1382`), and the next save uses the one compiled
before, or a null pointer; a refactoring that is deactivated after a save is not
revoked in a file where no other is active, although `doc/op.xml:12-14` offers
the pages as "a way to test and revoke source code changes".  Of `Rename`: a
replacement that was deactivated still takes part in the clash check, a form for
a read-only identifier works after the option that allowed it is reset, and two
tests of a macro that is never defined share a class that `file_analyze` deletes.
Of `Workspace`: a unit that includes itself is left out of what
`garbage_collect` records (`engine.cpp:716`), so that this include is never
required, and the workspace definition file counts as included by every unit,
since `input_file_id` is set after the last (`engine.cpp:718`).  Of `Queries`:
later pages of a list of a function's identifiers show identifiers of all
(`cscout.cpp:493`, 742), letters outside ASCII are lost in links
(`query.cpp:63`), `reverse=0` in a link reverses, and no entries on a page
divides by zero.  Of `FunArgs`: `f()` has one argument, and commas in braces or
brackets separate arguments.  Of `FileText`: a `/` next to a quote, blank or brace
leaves the state machines astray (`SlashesStandAlone`).  Of `MergeDb`:
`csmerge.sh` ends only if the number of databases is a power of two.

Of `Settings`: `Option::initialize` runs in the mode with web pages only
(`cscout.cpp:2776-2782`), but the pages that `-R` writes use the options
(`cscout.cpp:1488`, 1599); after another mode `-R` is not refused, although the
usage message has them exclude each other; a text loses its leading blanks when
it is loaded; a value that does not parse makes `load_all` read for ever
(`option.cpp:141`), since the stream fails without being at its end; and saving
empties the file first, so that the end of the process loses the options not yet
written.

Of `Metrics`: `em_nmacrointoken` and its counterpart are charged to files read
again.  Tokens of skipped groups count before the preprocessor
(`pdtoken.cpp:1338`), although `doc/metrics.xml` has processed text only.  The
words `if` and `else` of `#if` and `#else` are counted as keywords, and an `#elif`
that is evaluated counts twice (`pdtoken.cpp:553`, 621).  `do` ... `while` counts
two statements too many.  What is read after the preprocessor has one token more,
the end of the unit.  Identifiers of a header are counted after the preprocessor
but not summarized, unless the header is also the file of a unit
(`metrics.cpp:455`).  A statement of a function inside one that a macro began is
counted by `macro_nesting` when it ends, not when it begins (`call.h:313`).  A
file that includes itself is charged for the inner copy too, up to its end.
`workdb_rest` fills `FILEMETRICS` whatever tables were asked for, and the page of
a file hides the metrics that are internal for functions.

## Proofs

| Theorem | States | Assumes |
|---|---|---|
| `AlwaysConsistent`, and of its parts `TypeCorrect`, `MapAndClassesAgree`, `RunsNeverOverlap`, `LexemesStayWhole`, `ReadOnlyIsExact` | `EClass!Consistent` | `EClassAssumption` |
| `UnificationIsForEver` | action property `NothingForgotten` | the same |
| `ClassesArePartition`, `ClassesFollow` | `EClass` implements `CharPartition` | the same and `TokenAssumption` |
| `ReadOnlyStays`, `IdsStayLive` | `Rename`: `ReadOnlyUntouched`, `IdsAreLive` | that of `EClass`, `WorkspaceOK` |
| `PlacesStayRight`, `CharactersReadExactly`, `TokensAreLongest` | `Lexer`: `PlacesRight`, `ReadExactly`, `LongestTokens` | `FileStackAssumption`, `LexerAssumption` |
| `InputIsInOrder` | `ImplementsCharOrder`: `Lexer` implements `CharOrder` | the same |
| `BitsStandForGroups`, `SkippingIsFaithful`, `BitsAndCounterAreRight` | `Conditionals`: `AlwaysAgree`, `Faithful` | |
| `MetersMeasureOnce`, `NestingIsRight` | `Metrics`: `MeasuredOnce`, `NestingRight` | `MetricsAssumption` |
| `MetricsFollowDirectives`, `MeasuringIsFaithful` | `Metrics` implements `Conditionals`; `Faithful` of it | |
| `ExpansionIsTyped`, `ResultsHideTheirMacro` | `MacroExpand`: `TypeOK`, `ProducersHide` | `MacroExpandAssumption` |
| `NoMacroCallsItself` | `NoSelfCall` | the same and `BracketsKept` |
| `RecordsAreExact`, `WarningsAreExact` | `Workspace`: `RecordsExact`, `WarningsExact` | `WorkspaceAssumption`, `ProgramAssumption`, `[]Orderly` |
| `SessionIsTyped` | `Session!TypeOK` | |
| `EditingIsExclusive` | `Exclusive` | `EditorTells` |
| `NothingIsLost`, `OffsetsStayCurrent` | `NothingLost`, `OffsetsAreCurrent` | and `DiskHolds`, `SavedElsewhere` |
| `SavesAreAsAsked` | `SavedIsAsked` | and `SavedApart` |
| `SettingsAreRight` | `Settings`: `SettingsRight` | `SettingsAssumption` |

Every invariant was first checked with TLC on the run's instance.  A `CHOOSE` of
a least number (`LeastNaturalExists`) stands for induction throughout: the least
index at which something fails is not the first, and its predecessor contradicts
it.  A recursive function is likewise had from the least length for which there
is none.

**Classes.**  `EClassAssumption` says that lexemes do not overlap; it is what the
lexer delivers.  `Consistent` is the conjunction of the type invariant,
`MapIsMembership`, `NoOverlap`, `WholeLexemes` and `ReadOnlyIffMember`; none is
inductive alone.  A split creates map entries in the middle of members, which is
right only because runs do not overlap; that they do not is preserved because the
entries of a class are exactly its members; and reading a lexeme may give its
rest a new class only because the classes on it leave no gap.  Two lemmas carry
the work, one for `Split` and one for `MergeInto`; each action cites them.

**The partition.**  `Follows` says what the classes denote within a call of
`unify`, where the abstract state stands still: in `homogenize` the partition
before the call with the current project given to both tokens, and after `n`
characters of the merging loop that partition with `n` pairs joined.  Splitting
a class changes no block, since position `k` of a run is position `k - i` of its
rest.  Merging two runs of length `l` joins `l` pairs at once, so the abstract
fold must be the same after `l` steps: joining pairs one by one ends with the
blocks of the runs united position by position, because no character is at two
positions.  `TokenAssumption`, that tokens are made of whole lexemes, gives that
reading all lexemes of a token has put all its characters into the partition.

**Renaming.**  `Rename` uses the classes twice, and deletes those that are no
identifiers between the passes.  So the second pass may read into a run that the
first had whole, and runs may overlap: `Consistent` does not hold there.  What
holds, and suffices for `ReadOnlyUntouched` and `IdsAreLive`, is weaker: map and
members agree, a class has `is_readonly` if a member is read-only, and the
classes in `ids` are live, because a split keeps the class it shortens and the
second pass merges nothing.  No replacement of a read-only class follows from a
guard of the handler, which has none.  The invariant says instead that each one
was made in a form that was offered while the option was set
(`ReplacedWithReason`), and that read-only text differs from the original only
where the user had such a form.

**Characters.**  The two assumptions say that the characters the code writes down
are among those of the texts, and that directives are none of the other kinds of
token.  Places are right because the cached position is: `Sound` holds of the
stream after every `get` and `putback`, and a file that is returned to is sought
to a position that was taken from a sound one.  The order of characters is
`NothingLostOrRepeated` itself, once it is known what a state may put back: at
most two characters, which it does only where nothing else is put back
(`FewPutBack`).  That a token stays in its file is the hard part, since `getnext`
returns from an included file without a sign of it.  It rests on the static
variable `oval`: an included file is left only after a newline, and while a token
that may be put back is read, `oval` is its last character or what was put back
follows it in the same file (`Adjacent`).  `RunsSoFar` says what `update_parts`
has, and `TextSoFar` that what was read is the beginning of what the state of
`getnext_analyze` stands for, so that only the character put back has to be looked
at.  The refinement of `CharOrder` adds `ReadingOn`: every open file is read from
a place that no trigraph and no splice holds (`Boundary`), and `oval` tells whether
what was read ends with a newline.  Then a round of `simple_getnext` passes one
splice or finds the next character that counts (`SimpleReads`), and the next round
begins at such a place again, or the stream has failed and nothing that counts is
left.

**Conditionals.**  Within a unit the invariant is `Agree`, which says more than
the properties: the conditionals around the innermost one with a bit are
processed, that one is unless text is skipped, and those that are only counted
are not.  Between units it is `Between`: either nothing is left of the unit
before, or text is skipped and `process_pragma` ignores what would start another.

**Metrics.**  `MetricsAssumption` says that identifiers are finitely many and no
other words, files are no functions, and items have the fields their kind needs.
The invariant has a part for each kind of state.  `InputInv` is about the stacks
of files and of functions: an entity is complete (`processed`) exactly when it
was begun and its first entry has left the stack; that entry is there once unless
it was begun again (`StackOK`).  `MeterInv` says that the meters of an entity fit
the marks it has read, and that those are what was read while it was not
complete.  The numbers of `Measures` are sums and maxima over all that was read,
so each lemma says how one of them grows when one set of marks is appended:
`TimesAppend`, `BalanceAppend`, `PeaksAppend`, `SinceAppend`, `StatementsAppend`,
and `TallyFits` puts them together.  `IdsInv` follows identifiers: the queue of an
entity holds those it has read, each as often as it was read, until they are
summarized, and a function that is complete has an empty queue.  `NestInv` says
of the statements that are open that those of an activation lie between its base
and the next one's (`Belong`), those of macros last (`MacrosLast`); with it one
counter for all functions is enough, since the functions around the innermost
one are measured again only after its statements have ended.  Every step of
`Metrics` is a step of `Conditionals` or leaves its variables alone
(`DirectivesStep`), so that its theorems hold here.

**Macros.**  `ProducersHide` is about the tokens that wait to be expanded; `IInv`
also follows them through `subst`: into the arguments, into the values of
formals, and into the output, where a string made by `#` already has its
producer but does not hide it yet (`OwnedBy`).  A token's place in a sequence is
the set the sequence is over, and the closure of sequences under `Tail`,
`SubSeq` and concatenation carries types and hiding together.  That no macro
calls itself needs more: each token hides the producers of all tokens behind it
(`CInv`).  The result of a call hides what the name and the closing bracket
both hide, so the bracket's hide set must have been kept: `BracketsKept`
excludes macros without parameters and those whose optional argument can be left
out.  It cannot be dropped.  With `f()` defined as `g` and `g(x)` as `f()(x)`, or
with `f(x,...)` as `g` and `g(x)` as `f(a)(x)`, the text `g(a)` registers a call
from `g` to itself and its expansion does not end.

**Files.**  The invariant of `Workspace` has eleven parts: types (`TypeInv`,
`TableInv`), that the workspace file is open below the unit and everything open
has been read (`StackInv`), that `Fdep` and the file table hold what happened
since the last unit (`FdepInv`, `NearInv`, `TouchedInv`), that what is left out
was read for the same command (`OnceInv`) and files are where the path says
(`PathInv`), and that the tables of includes and projects say of all units what
`truth` does (`TruthInv`, `IncludesInv`, `ProjectsInv`).  The step that matters is
the end of a unit: `mark_required_transitive`, whose depth is bounded by the
number of files, marks the least set that holds the unit and its providers and is
closed under what was used and included, up to files that were marked before: a
round that adds nothing is the last, and every round before it adds a file.  With
these files the set is what is needed unless a macro leads out of them
(`MarkedIsNeeded`), and none of them was read by the unit.  `Touched` is what was
read, although the flags it is made of live from one unit to the next, because
opening a file clears its flag and the end of a unit sets all.  `[]Orderly` is a
hypothesis because it is about the files csmake writes, with or without
`-include`, and the headers they reach, and not about CScout.

**Sessions.**  `Exclusive` follows from `ModeInv`: `modification_state` remembers
which of the two was done, if an editor reports success (`EditorTells`).  That a
file may be deleted is right only because its `.repl` file is complete from
`Write` to `Rename`, that this one is complete only because the text was still
the analysed one when it was read, and that only because a file rewritten in
place has left the queue of a save that ends the session.  `DiskInv` and
`SaveInv` say this, if no write ends early (`DiskHolds`) and no rule sends a file
to a source file (`SavedElsewhere`).  `SavedIsAsked` needs also that no two files
are sent to one place (`SavedApart`), and that each file of the save is in the
queue, being written or where the page says it is.

**Settings.**  `SettingsInv` has three parts: the file holds a beginning of what
the last save was to write (`FileIsSaved`), memory what the lines read so far
say and the defaults for the rest (`MemoryIsRight`), and the mode is that of the
last flag that sets one (`FlagsAreRead`).  The first is what survives the end of
a process, and the second follows from it line by line.

Only model-checked: liveness (`UnifyReturns`, `Terminates`, `ScanEnds`), which the
provers do not do; `ImplementsProsser` and the properties of `CallGraph`,
`FunArgs`, `Types` and `Initializers`, whose modules or references are
`RECURSIVE`; `RenamesExact`, which fails after a refused save; `NoCapture` and
`NoFalseClash`, whose `Meaning` is a recursive reading of any program;
`ShownRight` of `Metrics`, whose sums over sets are folds; and the properties of `BuildCapture`, `MergeDb`, `Declarations`,
`Queries` and `FileText`.

## Not modelled

`#if` expressions (`eval.y`) are the free conditions of `Conditionals`.  The
conversion of tokens to those of the parser (`ctoken.cpp`), the grammar's driver,
attributes, `asm`, `#line`, `#warning` and most pragmas of pages and tests are left
out, as are the metrics that `file_analyze` adds from the graph of calls
(`engine.cpp:136`, 226), those of global objects, the printing of pages, dot and gif
output, the tables of the database but those of text, classes and metrics, the scripts
that only call others, error reporting and MD5.  `MacroExpand` leaves out spaces,
`__LINE__`, `__COUNTER__`, `defined`, `__VA_OPT__` and the heuristics of
`MacroArgProcessor`; `Workspace` nested `#pragma process` and units that set
their own project; `BuildCapture` the options `-s`, `-N` and `-T`, `cscc` and
timing; `Lexer` the option for comments that begin with `;`; `Types` qualifiers,
bit-field sizes and the usual arithmetic conversions, as the code does;
`CallGraph` the pages that explore functions, and graphs from the command line;
`FunArgs` refactoring over files with macros.

## Plan

What a continuation would prove, in this order:

1. `MergeDb`: that lookups find what the merge has unified, which rests on
   `Consistent`.
2. `RenamesExact` of `Rename` for sessions in which no save is refused.
3. `BuildCapture`: that the rules of a command are those of its arguments,
   whatever commands run beside it.
4. `ScopesExact` of `Declarations`.

------------------------------ MODULE Session ------------------------------
(***************************************************************************)
(* A session with the web interface (cscout.cpp): substitutions,           *)
(* deactivation, hand editing, options, save and continue, save and exit;  *)
(* and CscoutEngine::file_refactor, which rewrites the files one operation *)
(* on the disk after the other.  Any of these may fail, and the process    *)
(* may be killed between any two.  The editor is a process of its own.     *)
(*                                                                         *)
(* What is in a refactored file is abstracted to whose text it is and      *)
(* which refactorings it shows.  They are made at the offsets of the text  *)
(* that was analysed: applied to any other they spoil the file.            *)
(***************************************************************************)
EXTENDS Naturals, FiniteSets

CONSTANTS
    File,           \* the files of the workspace, by path
    Path,           \* all paths
    RE,             \* file name REs that compile,
    To,             \* replacement strings,
    Renames,        \* where an RE and a string send a file,
    NoMatch,        \* unless the RE does not match it
    Empty,          \* the RE "": saved in place; compiled: there is none yet
    BadRE,          \* an RE that does not compile
    Identifiers,    \* classes of identifiers,
    Functions,      \* classes of functions whose arguments may be refactored,
    Occurs,         \* and the files they occur in
    EditorMayFail,  \* whether an editor that ran may report failure
    DiskMayFill,    \* whether a write may end early
    MaxSaves        \* bound on the saves of a session

Refactorings == Identifiers \cup Functions

ASSUME SessionAssumption ==
    /\ File \subseteq Path /\ NoMatch \notin Path
    /\ Empty \notin RE /\ BadRE \notin RE /\ BadRE # Empty
    /\ Renames \in [RE \X To -> [File -> Path \cup {NoMatch}]]
    /\ Identifiers \cap Functions = {}
    /\ Occurs \in [Refactorings -> SUBSET File]
    /\ EditorMayFail \in BOOLEAN /\ DiskMayFill \in BOOLEAN /\ MaxSaves \in Nat

VARIABLES
    mode,       \* modification_state
    asked,      \* Identifier::replaced and active, RefFunCall::store
    option,     \* Option::sfile_re_string and sfile_repl_string
    sfile_re,   \* CscoutEngine::sfile_re
    disk,       \* the files
    repl,       \* the files called <path>.repl
    editing,    \* files an editor was started for
    save,       \* the activation of write_quit_page and file_refactor
    running,    \* ~must_exit, and the process was not killed
    saves       \* saves so far

settings == <<option, sfile_re>>
vars == <<mode, asked, option, sfile_re, disk, repl, editing, save, running, saves>>

None == [is |-> "none"]
Text(f, by) == [is |-> "text", of |-> f, by |-> by]     \* complete
Hand(f) == [is |-> "hand", of |-> f]
Part(f) == [is |-> "part", of |-> f]
Spoilt(f) == [is |-> "spoilt", of |-> f]
Contents ==
    {None} \cup {Text(f, by) : f \in File, by \in SUBSET Refactorings}
        \cup {Hand(f) : f \in File} \cup {Part(f) : f \in File}
        \cup {Spoilt(f) : f \in File}

\* The set_options pages and options_load set both or, where the RE does not
\* compile, the first; options_load then clears it.
Options == [re : RE \cup {Empty, BadRE}, to : To]

Activation(label, files, exit) ==
    [at |-> label, file |-> None, files |-> files, queue |-> files, exit |-> exit,
     unopened |-> {}, kept |-> {}, unsure |-> {}]
Idle == Activation("idle", {}, FALSE)
Serving == running /\ save = Idle       \* no page is served while another is

Init ==
    /\ mode = "unmodified" /\ asked = [r \in Refactorings |-> "no"]
    /\ option \in {o \in Options : o.re # BadRE}
    /\ sfile_re = option.re
    \* There may be an older copy of a file where it will be saved.
    /\ \E copied \in BOOLEAN :
          disk = [p \in Path |->
                    LET from == {f \in File : \E x \in DOMAIN Renames : Renames[x][f] = p}
                    IN  IF p \in File THEN Text(p, {})
                        ELSE IF copied /\ from # {} THEN Text(CHOOSE f \in from : TRUE, {})
                        ELSE None]
    /\ repl = [f \in File |-> None] /\ editing = {}
    /\ save = Idle /\ running = TRUE /\ saves = 0

-----------------------------------------------------------------------------
(* The pages                                                               *)

\* identifier_page with a name, function_page with a template: a refactoring
\* that was asked for before keeps whether it is active.
Substitute(r) ==
    /\ Serving
    /\ mode # "hand_edit"
    /\ asked' = [asked EXCEPT ![r] = IF @ = "no" THEN "active" ELSE @]
    /\ mode' = "subst"
    /\ UNCHANGED <<settings, disk, repl, editing, save, running, saves>>

\* xreplacements_page and xfunargrefs_page: the form has all that were asked for.
Review(kind) ==
    /\ Serving
    /\ \E on \in SUBSET {r \in kind : asked[r] # "no"} :
          asked' = [r \in Refactorings |->
                      IF r \notin kind \/ asked[r] = "no" THEN asked[r]
                      ELSE IF r \in on THEN "active" ELSE "inactive"]
    /\ UNCHANGED <<mode, settings, disk, repl, editing, save, running, saves>>

EditFaulty(f) ==                        \* serves the page in every state
    /\ Serving
    /\ mode' = "hand_edit" /\ editing' = editing \cup {f}
    /\ UNCHANGED <<asked, settings, disk, repl, save, running, saves>>

\* fedit_page: the state only changes if the editor command succeeds.
Edit(f) ==
    /\ Serving
    /\ mode # "subst"
    /\ \/ mode' = "hand_edit" /\ editing' = editing \cup {f}
       \/ UNCHANGED <<mode, editing>>
       \/ EditorMayFail /\ editing' = editing \cup {f} /\ UNCHANGED mode
    /\ UNCHANGED <<asked, settings, disk, repl, save, running, saves>>

\* The editor writes the file.
HandEdit(f) ==
    /\ f \in editing
    /\ disk' = [disk EXCEPT ![f] = Hand(f)]
    /\ UNCHANGED <<mode, asked, settings, repl, editing, save, running, saves>>

\* set_options_page: an RE that does not compile stays in the option, and the
\* one that was compiled before stays compiled.
SetOptions ==
    /\ Serving
    /\ option' \in Options
    /\ sfile_re' = IF option'.re \in RE THEN option'.re ELSE sfile_re
    /\ UNCHANGED <<mode, asked, disk, repl, editing, save, running, saves>>

\* Files in which one of kind is active
ToProcess(kind) == UNION {Occurs[r] : r \in {s \in kind : asked[s] = "active"}}

SaveRequestFaulty(exit) ==              \* continues after it saved in place
    /\ Serving
    /\ saves < MaxSaves /\ saves' = saves + 1
    /\ LET files == ToProcess(Identifiers) \cup ToProcess(Functions)
       IN  save' = Activation("next", files, exit)
    /\ UNCHANGED <<mode, asked, settings, disk, repl, editing, running>>

\* write_quit_page up to its loop; the second pass may find a clash.
SaveRequest(exit) ==
    /\ Serving
    /\ saves < MaxSaves /\ saves' = saves + 1
    /\ exit \/ option.re # Empty
    /\ LET renamed == ToProcess(Identifiers)
           files == renamed \cup ToProcess(Functions)
       IN  \/ save' = Activation("next", files, exit)
           \/ renamed # {} /\ UNCHANGED save
    /\ UNCHANGED <<mode, asked, settings, disk, repl, editing, running>>

\* quit_page, or the end of the process at any time
Exit ==
    /\ running
    /\ running' = FALSE
    /\ UNCHANGED <<mode, asked, settings, disk, repl, editing, save, saves>>

-----------------------------------------------------------------------------
(* file_refactor.  Each operation may fail; the message tells where the    *)
(* changes are.  The files are taken in the order of their Fileids.        *)

At(label) == running /\ save.at = label
Goto(label) == save' = [save EXCEPT !.at = label]
\* Tell that the changes are in the .repl file, and go on to the next file.
Keep == save' = [save EXCEPT !.at = "next", !.kept = save.kept \cup {save.file}]

Open(f) ==
    /\ At("next")
    /\ f \in save.queue
    /\ LET this == [save EXCEPT !.file = f, !.queue = @ \ {f}]
       IN  \/ /\ save' = [this EXCEPT !.unopened = save.unopened \cup {f}]
              /\ UNCHANGED repl
           \/ /\ disk[f] # None
              /\ repl' = [repl EXCEPT ![f] = Part(f)]
              /\ save' = [this EXCEPT !.at = "write"]
    /\ UNCHANGED <<mode, asked, settings, disk, editing, running, saves>>

ActiveFaulty(f) ==                      \* ignores that one was deactivated
    {r \in Refactorings : asked[r] # "no" /\ f \in Occurs[r]}

\* The active refactorings in f, which get_refactored_part makes
Active(f) == {r \in Refactorings : asked[r] = "active" /\ f \in Occurs[r]}

Refactored(f) == IF disk[f] = Text(f, {}) THEN Text(f, Active(f)) ELSE Spoilt(f)

\* Where the file is saved; regexec is called with a null pointer when no RE
\* was ever compiled.
Undefined == option.re # Empty /\ sfile_re = Empty
Target(f) == IF option.re = Empty THEN f ELSE Renames[<<sfile_re, option.to>>][f]

Write ==
    /\ At("write")
    /\ \/ repl' = [repl EXCEPT ![save.file] = Refactored(save.file)]
       \/ DiskMayFill /\ UNCHANGED repl
    /\ IF Undefined THEN running' = FALSE /\ UNCHANGED save
       ELSE /\ IF Target(save.file) = NoMatch THEN Keep ELSE Goto("checkout")
            /\ UNCHANGED running
    /\ UNCHANGED <<mode, asked, settings, disk, editing, saves>>

CheckOut ==
    /\ At("checkout")
    /\ Goto("unlink") \/ Keep
    /\ UNCHANGED <<mode, asked, settings, disk, repl, editing, running, saves>>

Unlink ==
    /\ At("unlink")
    /\ LET to == Target(save.file)
       IN  \/ /\ disk[to] # None
              /\ disk' = [disk EXCEPT ![to] = None]
              /\ Goto("rename")
           \/ Keep /\ UNCHANGED disk
    /\ UNCHANGED <<mode, asked, settings, repl, editing, running, saves>>

RenameFaulty ==                         \* removes the .repl file when it fails
    /\ At("rename")
    /\ repl' = [repl EXCEPT ![save.file] = None]
    /\ \/ /\ disk' = [disk EXCEPT ![Target(save.file)] = repl[save.file]]
          /\ Goto("checkin")
       \/ Keep /\ UNCHANGED disk
    /\ UNCHANGED <<mode, asked, settings, editing, running, saves>>

Rename ==
    /\ At("rename")
    /\ \/ /\ disk' = [disk EXCEPT ![Target(save.file)] = repl[save.file]]
          /\ repl' = [repl EXCEPT ![save.file] = None]
          /\ Goto("checkin")
       \/ Keep /\ UNCHANGED <<disk, repl>>
    /\ UNCHANGED <<mode, asked, settings, editing, running, saves>>

\* A failure is reported as if the changes were still in the .repl file.
CheckIn ==
    /\ At("checkin")
    /\ \/ Goto("next")
       \/ save' = [save EXCEPT !.at = "next", !.unsure = @ \cup {save.file}]
    /\ UNCHANGED <<mode, asked, settings, disk, repl, editing, running, saves>>

\* The end of write_quit_page
EndSave ==
    /\ At("next")
    /\ save.queue = {}
    /\ save' = Idle /\ running' = ~save.exit
    /\ UNCHANGED <<mode, asked, settings, disk, repl, editing, saves>>

Next ==
    \/ \E r \in Refactorings : Substitute(r)
    \/ \E kind \in {Identifiers, Functions} : Review(kind)
    \/ \E f \in File : Edit(f) \/ HandEdit(f) \/ Open(f)
    \/ \E exit \in BOOLEAN : SaveRequest(exit)
    \/ SetOptions \/ Exit
    \/ Write \/ CheckOut \/ Unlink \/ Rename \/ CheckIn \/ EndSave

Spec == Init /\ [][Next]_vars

-----------------------------------------------------------------------------
(* Properties                                                              *)

Activations ==
    [at : {"idle", "next", "write", "checkout", "unlink", "rename", "checkin"},
     file : File \cup {None}, files : SUBSET File, queue : SUBSET File, exit : BOOLEAN,
     unopened : SUBSET File, kept : SUBSET File, unsure : SUBSET File]

\* The variables have their types; what is checked out, deleted or renamed to
\* is a path, whatever the options: file_refactor returned when the RE does not
\* match.
TypeOK ==
    /\ mode \in {"unmodified", "subst", "hand_edit"}
    /\ asked \in [Refactorings -> {"no", "active", "inactive"}]
    /\ option \in Options /\ sfile_re \in RE \cup {Empty}
    /\ disk \in [Path -> Contents] /\ repl \in [File -> Contents]
    /\ editing \subseteq File /\ running \in BOOLEAN /\ saves \in 0 .. MaxSaves
    /\ save \in Activations
    /\ save.at \notin {"idle", "next"} => save.file \in File
    /\ save.at \in {"checkout", "unlink", "rename", "checkin"} =>
          ~Undefined /\ Target(save.file) \in Path

\* Files are edited by hand or refactored, never both in a session
\* (modification_state; doc/hedit.xml), through any sequence of pages.
Exclusive == editing # {} => \A r \in Refactorings : asked[r] = "no"

\* Whatever fails and wherever the process ends, each file is complete on the
\* disk, as itself or as its .repl file.
NothingLost ==
    \A f \in File :
        \/ disk[f] = Hand(f)
        \/ \E by \in SUBSET Refactorings : Text(f, by) \in {disk[f], repl[f]}

\* No refactoring is made at the offsets of a text that has moved: not on a
\* file that was edited, and not on one an earlier save has rewritten.
OffsetsAreCurrent ==
    \A f \in File : Spoilt(f) \notin {repl[f]} \cup {disk[p] : p \in Path}

AllDone == running /\ save.at = "next" /\ save.queue = {}
ActiveIn(f) == {r \in Refactorings : asked[r] = "active" /\ f \in Occurs[r]}

\* A file that a save said is kept as .repl is there, complete and refactored, and
\* where it was not to be saved the file itself is still what it was.
ReportedIsInRepl ==
    \A f \in save.kept :
        /\ repl[f] = Text(f, ActiveIn(f))
        /\ option.re # Empty => disk[f] = Text(f, {})

\* At the end of a save a file that no message is about is where the options
\* say, and has the refactorings that are active, all of them and no other; one
\* whose check-in failed too.  Every file of an active one was processed.
SavedIsAsked ==
    AllDone =>
        /\ ReportedIsInRepl
        /\ \A f \in save.files \ (save.unopened \cup save.kept) :
              disk[Target(f)] = Text(f, ActiveIn(f))
        /\ \A f \in File \ save.files : ActiveIn(f) = {}

=============================================================================

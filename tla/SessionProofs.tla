--------------------------- MODULE SessionProofs ---------------------------
(***************************************************************************)
(* Session has its types whatever the options and the failures; substitu-  *)
(* tion and hand editing exclude each other if an editor that was started  *)
(* says so; no file is lost or spoilt if, besides, no write ends early and *)
(* the rules send no file to a source file; and a save does what was asked *)
(* if no rule sends two files to one place.  The options a process reads   *)
(* are those that the last one saved, as far as it came, whatever the      *)
(* flags, the pages and the ends of processes.                             *)
(***************************************************************************)
EXTENDS Settings, SequenceTheorems, TLAPS

\* What the theorems assume of the environment
EditorTells == EditorMayFail = FALSE
DiskHolds == DiskMayFill = FALSE
SavedElsewhere == \A x \in RE \X To : \A f \in File : Renames[x][f] \notin File
SavedApart ==
    \A x \in RE \X To : \A f, g \in File :
        f # g /\ Renames[x][f] = Renames[x][g] => Renames[x][f] = NoMatch

USE SessionAssumption DEF Refactorings

-----------------------------------------------------------------------------
(* Contents                                                                *)

LEMMA ContentsTyped ==
    /\ None \in Contents
    /\ \A f \in File :
          /\ Hand(f) \in Contents /\ Part(f) \in Contents /\ Spoilt(f) \in Contents
          /\ \A by \in SUBSET Refactorings : Text(f, by) \in Contents
BY DEF Contents

LEMMA ContentsDiffer ==
    /\ \A f, g, by : Text(f, by) # Spoilt(g) /\ Text(f, by) # None
    /\ \A g : None # Spoilt(g)
    /\ \A f, g : Hand(f) # Spoilt(g) /\ Part(f) # Spoilt(g) /\ Hand(f) # None
BY DEF Text, Spoilt, None, Hand, Part

LEMMA IdleIs == Idle.at = "idle" /\ Idle.queue = {} /\ Idle.file = None
BY DEF Idle, Activation

LEMMA ActivationTyped ==
    ASSUME NEW files \in SUBSET File, NEW exit \in BOOLEAN
    PROVE  /\ Activation("next", files, exit) \in Activations
           /\ Idle \in Activations
           /\ Activation("next", files, exit).at = "next"
           /\ Activation("next", files, exit).queue = files
           /\ Activation("next", files, exit).exit = exit
BY DEF Activation, Activations, Idle

LEMMA GotoStep ==
    ASSUME save \in Activations,
           NEW to \in {"next", "checkout", "unlink", "rename", "checkin"}, Goto(to)
    PROVE  /\ save' \in Activations
           /\ save'.at = to /\ save'.file = save.file
           /\ save'.queue = save.queue /\ save'.exit = save.exit
           /\ save'.files = save.files /\ save'.kept = save.kept
           /\ save'.unopened = save.unopened
BY DEF Goto, Activations

LEMMA KeepStep ==
    ASSUME save \in Activations, save.file \in File, Keep
    PROVE  /\ save' \in Activations
           /\ save'.at = "next" /\ save'.file = save.file
           /\ save'.queue = save.queue /\ save'.exit = save.exit
           /\ save'.files = save.files /\ save'.unopened = save.unopened
           /\ save'.kept = save.kept \cup {save.file}
BY DEF Keep, Activations

LEMMA CheckInStep ==
    ASSUME save \in Activations, save.file \in File, CheckIn
    PROVE  /\ save' \in Activations
           /\ save'.at = "next" /\ save'.file = save.file
           /\ save'.queue = save.queue /\ save'.exit = save.exit
           /\ save'.files = save.files /\ save'.kept = save.kept
           /\ save'.unopened = save.unopened
<1>1. CASE Goto("next")
    BY <1>1, GotoStep
<1>2. CASE save' = [save EXCEPT !.at = "next", !.unsure = @ \cup {save.file}]
    BY <1>2 DEF Activations
<1> QED BY <1>1, <1>2 DEF CheckIn

LEMMA OpenStep ==
    ASSUME save \in Activations, NEW f \in File, Open(f)
    PROVE  /\ save' \in Activations
           /\ save'.file = f /\ save'.queue = save.queue \ {f}
           /\ save'.exit = save.exit
           /\ save'.files = save.files /\ save'.kept = save.kept
           /\ \/ /\ save'.at = "next" /\ UNCHANGED repl
                 /\ save'.unopened = save.unopened \cup {f}
              \/ /\ save'.at = "write" /\ repl' = [repl EXCEPT ![f] = Part(f)]
                 /\ save'.unopened = save.unopened
                 /\ disk[f] # None
<1> DEFINE this == [save EXCEPT !.file = f, !.queue = @ \ {f}]
<1>1. save.at = "next"
    BY DEF Open, At
<1>2. CASE save' = [this EXCEPT !.unopened = save.unopened \cup {f}] /\ UNCHANGED repl
    BY <1>1, <1>2 DEF Activations
<1>3. CASE /\ disk[f] # None
           /\ repl' = [repl EXCEPT ![f] = Part(f)]
           /\ save' = [this EXCEPT !.at = "write"]
    BY <1>3 DEF Activations
<1> QED BY <1>2, <1>3 DEF Open

LEMMA ToProcessTyped ==
    ASSUME TypeOK
    PROVE  /\ ToProcess(Identifiers) \in SUBSET File
           /\ ToProcess(Functions) \in SUBSET File
           /\ ToProcess(Identifiers) \cup ToProcess(Functions) # {}
                 => \E r \in Refactorings : asked[r] = "active"
BY DEF TypeOK, ToProcess

LEMMA ActiveTyped == \A f : Active(f) \in SUBSET Refactorings
BY DEF Active

-----------------------------------------------------------------------------
(* Type correctness                                                        *)

LEMMA TypeInit == Init => TypeOK
<1> SUFFICES ASSUME Init PROVE TypeOK
    OBVIOUS
<1>1. mode \in {"unmodified", "subst", "hand_edit"}
      /\ asked \in [Refactorings -> {"no", "active", "inactive"}]
      /\ option \in Options /\ sfile_re \in RE \cup {Empty}
      /\ repl \in [File -> Contents]
      /\ editing \subseteq File /\ running \in BOOLEAN /\ saves \in 0 .. MaxSaves
    BY ContentsTyped DEF Init, Options
<1>2. disk \in [Path -> Contents]
  <2>1. PICK copied \in BOOLEAN :
          disk = [p \in Path |->
                    LET from == {f \in File : \E x \in DOMAIN Renames : Renames[x][f] = p}
                    IN  IF p \in File THEN Text(p, {})
                        ELSE IF copied /\ from # {} THEN Text(CHOOSE f \in from : TRUE, {})
                        ELSE None]
      BY DEF Init
  <2>2. ASSUME NEW p \in Path PROVE disk[p] \in Contents
    <3> DEFINE from == {f \in File : \E x \in DOMAIN Renames : Renames[x][f] = p}
    <3>1. from # {} => (CHOOSE f \in from : TRUE) \in File
        OBVIOUS
    <3>2. \A f \in File : Text(f, {}) \in Contents
        BY ContentsTyped
    <3> QED BY <2>1, <3>1, <3>2, ContentsTyped
  <2> QED BY <2>1, <2>2
<1>3. save \in Activations /\ save.at = "idle"
    BY IdleIs DEF Init, Idle, Activation, Activations
<1> QED BY <1>1, <1>2, <1>3 DEF TypeOK

LEMMA TypeStep == TypeOK /\ [Next]_vars => TypeOK'
<1> SUFFICES ASSUME TypeOK, [Next]_vars PROVE TypeOK'
    OBVIOUS
<1> USE DEF TypeOK, settings, Serving, At
<1>1. ASSUME NEW r \in Refactorings, Substitute(r) PROVE TypeOK'
    BY <1>1 DEF Substitute, Target, Undefined
<1>2. ASSUME NEW kind \in {Identifiers, Functions}, Review(kind) PROVE TypeOK'
    BY <1>2 DEF Review, Target, Undefined
<1>3. ASSUME NEW f \in File, Edit(f) PROVE TypeOK'
    BY <1>3 DEF Edit, Target, Undefined
<1>4. ASSUME NEW f \in File, HandEdit(f) PROVE TypeOK'
    BY <1>4, ContentsTyped DEF HandEdit, Target, Undefined
<1>5. ASSUME NEW f \in File, Open(f) PROVE TypeOK'
  <2>1. save' \in Activations /\ save'.file \in File /\ save'.at \in {"next", "write"}
      BY <1>5, OpenStep
  <2>2. repl' \in [File -> Contents]
      BY <1>5, OpenStep, ContentsTyped
  <2> QED BY <1>5, <2>1, <2>2 DEF Open
<1>6. ASSUME NEW exit \in BOOLEAN, SaveRequest(exit) PROVE TypeOK'
  <2>1. saves' \in 0 .. MaxSaves
      BY <1>6 DEF SaveRequest
  <2>2. save' \in Activations /\ save'.at \in {"idle", "next"}
    <3>1. CASE UNCHANGED save
        BY <1>6, <3>1, IdleIs DEF SaveRequest
    <3>2. CASE save' = Activation("next", ToProcess(Identifiers) \cup ToProcess(Functions), exit)
      <4> DEFINE files == ToProcess(Identifiers) \cup ToProcess(Functions)
      <4>1. files \in SUBSET File
          BY ToProcessTyped
      <4> HIDE DEF files
      <4> QED BY <3>2, <4>1, ActivationTyped DEF files
    <3> QED BY <1>6, <3>1, <3>2 DEF SaveRequest
  <2> QED BY <1>6, <2>1, <2>2 DEF SaveRequest
<1>7. CASE SetOptions
  <2>1. save.at = "idle" /\ UNCHANGED save
      BY <1>7, IdleIs DEF SetOptions
  <2> QED BY <1>7, <2>1 DEF SetOptions, Options
<1>8. CASE Exit
    BY <1>8 DEF Exit, Target, Undefined
<1>9. CASE Write
  <2>1. save.file \in File /\ save.at = "write"
      BY <1>9 DEF Write
  <2>2. Refactored(save.file) \in Contents
      BY <2>1, ContentsTyped, ActiveTyped DEF Refactored
  <2>3. repl' \in [File -> Contents]
      BY <1>9, <2>1, <2>2 DEF Write
  <2>4. save' \in Activations /\ save'.file = save.file
        /\ \/ save'.at \in {"write", "next"}
           \/ save'.at = "checkout" /\ ~Undefined /\ Target(save.file) # NoMatch
    <3>1. CASE Undefined
        BY <1>9, <2>1, <3>1 DEF Write
    <3>2. CASE ~Undefined /\ Target(save.file) = NoMatch
        BY <1>9, <2>1, <3>2, KeepStep DEF Write
    <3>3. CASE ~Undefined /\ Target(save.file) # NoMatch
        BY <1>9, <2>1, <3>3, GotoStep DEF Write
    <3> QED BY <3>1, <3>2, <3>3
  <2>5. ~Undefined => Target(save.file) \in Path \cup {NoMatch}
      BY <2>1 DEF Undefined, Target, Options
  <2>6. UNCHANGED settings
        /\ (Undefined' <=> Undefined)
      BY <1>9 DEF Write, Undefined
  <2>7. (~Undefined' /\ Target(save.file)' \in Path) \/ save'.at # "checkout"
      BY <1>9, <2>4, <2>5, <2>6 DEF Write, Target
  <2> QED BY <1>9, <2>1, <2>3, <2>4, <2>7 DEF Write
<1>10. CASE CheckOut
  <2>1. save.file \in File
      BY <1>10 DEF CheckOut
  <2>2. save' \in Activations /\ save'.file = save.file /\ save'.at \in {"next", "unlink"}
      BY <1>10, <2>1, GotoStep, KeepStep DEF CheckOut
  <2> QED BY <1>10, <2>1, <2>2 DEF CheckOut, Target, Undefined
<1>11. CASE Unlink
  <2>1. save.file \in File
      BY <1>11 DEF Unlink
  <2>2. save' \in Activations /\ save'.file = save.file /\ save'.at \in {"next", "rename"}
      BY <1>11, <2>1, GotoStep, KeepStep DEF Unlink
  <2>3. disk' \in [Path -> Contents]
      BY <1>11, ContentsTyped DEF Unlink
  <2> QED BY <1>11, <2>1, <2>2, <2>3 DEF Unlink, Target, Undefined
<1>12. CASE Rename
  <2>1. save.file \in File
      BY <1>12 DEF Rename
  <2>2. save' \in Activations /\ save'.file = save.file /\ save'.at \in {"next", "checkin"}
      BY <1>12, <2>1, GotoStep, KeepStep DEF Rename
  <2>3. disk' \in [Path -> Contents] /\ repl' \in [File -> Contents]
      BY <1>12, <2>1, ContentsTyped DEF Rename
  <2> QED BY <1>12, <2>1, <2>2, <2>3 DEF Rename, Target, Undefined
<1>13. CASE CheckIn
  <2>1. save' \in Activations /\ save'.at = "next"
      BY <1>13, CheckInStep DEF CheckIn
  <2> QED BY <1>13, <2>1 DEF CheckIn
<1>14. CASE EndSave
  <2>1. Idle \in Activations
      BY ActivationTyped
  <2> QED BY <1>14, <2>1, IdleIs DEF EndSave, Activations
<1>15. CASE UNCHANGED vars
    BY <1>15 DEF vars, Target, Undefined
<1> QED BY <1>1, <1>2, <1>3, <1>4, <1>5, <1>6, <1>7, <1>8, <1>9, <1>10, <1>11,
           <1>12, <1>13, <1>14, <1>15 DEF Next

\* Every state has its types, and whatever is checked out, deleted or renamed to
\* is a path: file_refactor returned when the RE did not match, and a page never
\* changes the options under it.
THEOREM SessionIsTyped == Spec => []TypeOK
BY TypeInit, TypeStep, PTL DEF Spec

-----------------------------------------------------------------------------
(* Substitution and hand editing.  modification_state remembers which of   *)
(* the two was done; no page resets it.                                    *)

NothingAsked == \A r \in Refactorings : asked[r] = "no"
ModeInv ==
    /\ mode = "subst" \/ NothingAsked
    /\ mode = "hand_edit" \/ editing = {}

LEMMA ModeInit == Init => ModeInv
BY DEF Init, ModeInv, NothingAsked

LEMMA ModeStep ==
    ASSUME EditorTells, TypeOK, ModeInv, [Next]_vars
    PROVE  ModeInv'
<1> USE DEF ModeInv, NothingAsked
<1>1. ASSUME NEW r \in Refactorings, Substitute(r) PROVE ModeInv'
    BY <1>1 DEF Substitute
<1>2. ASSUME NEW kind \in {Identifiers, Functions}, Review(kind) PROVE ModeInv'
  <2>1. PICK on \in SUBSET {r \in kind : asked[r] # "no"} :
          asked' = [r \in Refactorings |->
                      IF r \notin kind \/ asked[r] = "no" THEN asked[r]
                      ELSE IF r \in on THEN "active" ELSE "inactive"]
      BY <1>2 DEF Review
  <2>2. NothingAsked => NothingAsked'
      BY <2>1
  <2> QED BY <1>2, <2>2 DEF Review
<1>3. ASSUME NEW f \in File, Edit(f) PROVE ModeInv'
    BY <1>3 DEF Edit, EditorTells
<1>4. ASSUME UNCHANGED <<mode, asked, editing>> PROVE ModeInv'
    BY <1>4
<1> QED BY <1>1, <1>2, <1>3, <1>4
        DEF Next, vars, HandEdit, Open, SaveRequest, SetOptions, Exit, Write, CheckOut,
            Unlink, Rename, CheckIn, EndSave

\* A session that refactored a file edits none by hand, and the other way round,
\* through any sequence of pages, if an editor that was started reports success.
THEOREM EditingIsExclusive == ASSUME EditorTells PROVE Spec => []Exclusive
<1>1. Init => TypeOK /\ ModeInv
    BY TypeInit, ModeInit
<1>2. TypeOK /\ ModeInv /\ [Next]_vars => (TypeOK /\ ModeInv)'
    BY TypeStep, ModeStep
<1>3. ModeInv => Exclusive
    BY DEF ModeInv, NothingAsked, Exclusive
<1> QED BY <1>1, <1>2, <1>3, PTL DEF Spec

-----------------------------------------------------------------------------
(* Nothing is lost.  A file is as it was, was edited, or was rewritten in  *)
(* place; the last only in a save that ends the session, and once.  While  *)
(* the old file is gone the new one is complete under its other name.      *)

Complete(f, c) == \E by \in SUBSET Refactorings : c = Text(f, by)

Untouched(f) ==
    \/ disk[f] = Text(f, {})
    \/ f \in editing /\ disk[f] = Hand(f)

Rewritten(f) ==
    /\ option.re = Empty
    /\ running => save.at # "idle" /\ f \notin save.queue
    /\ save.file = f => save.at \notin {"write", "checkout", "unlink"}
    /\ \/ Complete(f, disk[f])
       \/ disk[f] = None /\ Complete(f, repl[f])

DiskInv ==
    /\ \A f \in File : Untouched(f) \/ Rewritten(f)
    /\ \A f \in File : repl[f] \in {None, Part(f)} \/ Complete(f, repl[f])
    /\ \A p \in Path \ File : \A g \in File : disk[p] # Spoilt(g)

SaveInv ==
    /\ save.at \notin {"idle", "next"} => save.file \notin save.queue
    /\ save.at \in {"checkout", "unlink", "rename"} => Complete(save.file, repl[save.file])
    /\ running /\ save.at # "idle" /\ option.re = Empty => save.exit
    /\ save.at = "idle" => save = Idle
    /\ save.queue # {} \/ save.at \notin {"idle", "next"} => ~NothingAsked

LostInv == TypeOK /\ ModeInv /\ DiskInv /\ SaveInv

LEMMA LostInit == Init => LostInv
<1> SUFFICES ASSUME Init PROVE LostInv
    OBVIOUS
<1>1. TypeOK /\ ModeInv
    BY TypeInit, ModeInit
<1>2. SaveInv
    BY IdleIs DEF Init, SaveInv
<1>3. PICK copied \in BOOLEAN :
        disk = [p \in Path |->
                  LET from == {f \in File : \E x \in DOMAIN Renames : Renames[x][f] = p}
                  IN  IF p \in File THEN Text(p, {})
                      ELSE IF copied /\ from # {} THEN Text(CHOOSE f \in from : TRUE, {})
                      ELSE None]
    BY DEF Init
<1>4. ASSUME NEW p \in Path \ File, NEW g \in File PROVE disk[p] # Spoilt(g)
    BY <1>3, ContentsDiffer
<1>5. DiskInv
    BY <1>3, <1>4 DEF Init, DiskInv, Untouched
<1> QED BY <1>1, <1>2, <1>5 DEF LostInv

\* What the steps have in common
LEMMA ServingUntouched ==
    ASSUME DiskInv, Serving
    PROVE  \A f \in File : Untouched(f)
BY IdleIs DEF DiskInv, Serving, Rewritten

LEMMA SavingNotEditing ==
    ASSUME ModeInv, ~NothingAsked
    PROVE  editing = {}
BY DEF ModeInv

LEMMA TargetIs ==
    ASSUME SavedElsewhere, TypeOK, save.at \in {"checkout", "unlink", "rename"}
    PROVE  /\ save.file \in File /\ Target(save.file) \in Path
           /\ option.re = Empty => Target(save.file) = save.file
           /\ option.re # Empty => Target(save.file) \notin File
<1>1. save.file \in File /\ Target(save.file) \in Path /\ ~Undefined
    BY DEF TypeOK
<1>2. ASSUME option.re # Empty PROVE Renames[<<sfile_re, option.to>>][save.file] \notin File
    BY <1>1, <1>2 DEF TypeOK, Undefined, Options, SavedElsewhere
<1> QED BY <1>1, <1>2 DEF Target

LEMMA LostServing ==
    ASSUME LostInv, Serving, UNCHANGED <<disk, repl, save, running>>, editing \subseteq editing'
    PROVE  DiskInv' /\ SaveInv'
<1>1. \A f \in File : Untouched(f)'
    BY ServingUntouched DEF LostInv, Untouched
<1>2. DiskInv'
    BY <1>1 DEF LostInv, DiskInv, Complete
<1>3. save' = Idle
    BY DEF Serving
<1>4. SaveInv'
    BY <1>3, IdleIs DEF SaveInv
<1> QED BY <1>2, <1>4

LEMMA LostSaveRequest ==
    ASSUME LostInv, NEW exit \in BOOLEAN, SaveRequest(exit)
    PROVE  DiskInv' /\ SaveInv'
<1>1. CASE UNCHANGED save
    BY <1>1, LostServing DEF SaveRequest
<1> DEFINE files == ToProcess(Identifiers) \cup ToProcess(Functions)
<1>2. CASE save' = Activation("next", files, exit)
  <2>1. \A f \in File : Untouched(f)'
      BY ServingUntouched DEF LostInv, Untouched, SaveRequest
  <2>2. DiskInv'
      BY <2>1 DEF LostInv, DiskInv, Complete, SaveRequest
  <2>3. files \in SUBSET File /\ (files # {} => ~NothingAsked)
      BY ToProcessTyped DEF LostInv, NothingAsked
  <2>4. save'.at = "next" /\ save'.queue = files /\ save'.exit = exit
    <3> HIDE DEF files
    <3> QED BY <1>2, <2>3, ActivationTyped
  <2>5. option'.re = Empty => exit
      BY DEF SaveRequest, settings
  <2>6. files # {} => ~NothingAsked'
      BY <2>3 DEF SaveRequest, NothingAsked
  <2> QED BY <2>2, <2>4, <2>5, <2>6 DEF SaveInv
<1> QED BY <1>1, <1>2 DEF SaveRequest

LEMMA LostHandEdit ==
    ASSUME LostInv, NEW f \in File, HandEdit(f)
    PROVE  DiskInv' /\ SaveInv'
<1> USE DEF HandEdit, settings
<1>1. ASSUME NEW g \in File PROVE Untouched(g)' \/ Rewritten(g)'
    BY <1>1 DEF LostInv, TypeOK, DiskInv, Untouched, Rewritten, Complete
<1>2. \A p \in Path \ File : disk'[p] = disk[p]
    BY DEF LostInv, TypeOK
<1>3. DiskInv'
    BY <1>1, <1>2 DEF LostInv, DiskInv, Complete
<1>4. SaveInv'
    BY DEF LostInv, SaveInv, Complete, NothingAsked
<1> QED BY <1>3, <1>4

LEMMA LostOpen ==
    ASSUME LostInv, NEW f \in File, Open(f)
    PROVE  DiskInv' /\ SaveInv'
<1>1. /\ UNCHANGED <<asked, option, disk, editing, running>>
      /\ running /\ save.at = "next" /\ f \in save.queue
    BY DEF Open, At, settings
<1>2. /\ save'.file = f /\ save'.queue = save.queue \ {f} /\ save'.exit = save.exit
      /\ save'.at \in {"next", "write"}
      /\ repl' = repl \/ repl' = [repl EXCEPT ![f] = Part(f)]
    BY OpenStep DEF LostInv, TypeOK
<1>3. Untouched(f) /\ ~NothingAsked
    BY <1>1 DEF LostInv, DiskInv, SaveInv, Rewritten
<1>4. ASSUME NEW g \in File PROVE Untouched(g)' \/ Rewritten(g)'
  <2>1. CASE Untouched(g)
      BY <1>1, <2>1 DEF Untouched
  <2>2. CASE Rewritten(g) /\ g # f
    <3>1. repl'[g] = repl[g]
        BY <1>2, <2>2 DEF LostInv, TypeOK
    <3> QED BY <1>1, <1>2, <2>2, <3>1 DEF Rewritten, Complete
  <2> QED BY <1>3, <2>1, <2>2 DEF LostInv, DiskInv
<1>5. \A g \in File : repl'[g] \in {None, Part(g)} \/ Complete(g, repl'[g])
    BY <1>2 DEF LostInv, TypeOK, DiskInv
<1>6. DiskInv'
    BY <1>1, <1>4, <1>5 DEF LostInv, DiskInv, Complete
<1>7. SaveInv'
    BY <1>1, <1>2, <1>3 DEF LostInv, SaveInv, NothingAsked
<1> QED BY <1>6, <1>7

LEMMA LostWrite ==
    ASSUME DiskHolds, LostInv, Write
    PROVE  DiskInv' /\ SaveInv'
<1> DEFINE f == save.file
<1>1. /\ UNCHANGED <<asked, option, disk, editing>>
      /\ running /\ save.at = "write" /\ f \in File
      /\ repl' = [repl EXCEPT ![f] = Refactored(f)]
    BY DEF Write, At, settings, DiskHolds, LostInv, TypeOK
<1>2. /\ save'.file = f /\ save'.queue = save.queue /\ save'.exit = save.exit
      /\ \/ save'.at \in {"next", "checkout"} /\ running'
         \/ save' = save /\ ~running'
  <2>1. CASE Undefined
      BY <2>1 DEF Write
  <2>2. CASE ~Undefined /\ Target(f) = NoMatch
      BY <1>1, <2>2, KeepStep DEF Write, LostInv, TypeOK
  <2>3. CASE ~Undefined /\ Target(f) # NoMatch
      BY <1>1, <2>3, GotoStep DEF Write, LostInv, TypeOK
  <2> QED BY <2>1, <2>2, <2>3
<1>3. f \notin save.queue /\ ~NothingAsked /\ ~Rewritten(f)
    BY <1>1 DEF LostInv, SaveInv, Rewritten
<1>4. disk[f] = Text(f, {})
    BY <1>1, <1>3, SavingNotEditing DEF LostInv, DiskInv, Untouched
<1>5. Complete(f, repl'[f])
    BY <1>1, <1>4, ActiveTyped DEF LostInv, TypeOK, Refactored, Complete
<1>6. ASSUME NEW g \in File PROVE Untouched(g)' \/ Rewritten(g)'
  <2>1. CASE Untouched(g)
      BY <1>1, <2>1 DEF Untouched
  <2>2. CASE Rewritten(g) /\ g # f
    <3>1. repl'[g] = repl[g]
        BY <1>1, <2>2 DEF LostInv, TypeOK
    <3> QED BY <1>1, <1>2, <2>2, <3>1 DEF Rewritten, Complete
  <2> QED BY <1>3, <2>1, <2>2 DEF LostInv, DiskInv
<1>7. \A g \in File : repl'[g] \in {None, Part(g)} \/ Complete(g, repl'[g])
    BY <1>1, <1>5 DEF LostInv, TypeOK, DiskInv
<1>8. DiskInv'
    BY <1>1, <1>6, <1>7 DEF LostInv, DiskInv, Complete
<1>9. SaveInv'
    BY <1>1, <1>2, <1>3, <1>5 DEF LostInv, SaveInv, NothingAsked, Complete
<1> QED BY <1>8, <1>9

LEMMA LostCheckOut ==
    ASSUME LostInv, CheckOut
    PROVE  DiskInv' /\ SaveInv'
<1>1. /\ UNCHANGED <<asked, option, disk, repl, editing, running>>
      /\ running /\ save.at = "checkout" /\ save.file \in File
    BY DEF CheckOut, At, settings, LostInv, TypeOK
<1>2. /\ save'.file = save.file /\ save'.queue = save.queue /\ save'.exit = save.exit
      /\ save'.at \in {"next", "unlink"}
    BY <1>1, GotoStep, KeepStep DEF CheckOut, LostInv, TypeOK
<1>3. ASSUME NEW g \in File PROVE Untouched(g)' \/ Rewritten(g)'
    BY <1>1, <1>2 DEF LostInv, DiskInv, Untouched, Rewritten, Complete
<1>4. DiskInv'
    BY <1>1, <1>3 DEF LostInv, DiskInv, Complete
<1>5. SaveInv'
    BY <1>1, <1>2 DEF LostInv, SaveInv, NothingAsked, Complete
<1> QED BY <1>4, <1>5

LEMMA LostUnlink ==
    ASSUME SavedElsewhere, LostInv, Unlink
    PROVE  DiskInv' /\ SaveInv'
<1> DEFINE f == save.file
           to == Target(f)
<1>1. /\ UNCHANGED <<asked, option, repl, editing, running>>
      /\ running /\ save.at = "unlink" /\ f \in File
    BY DEF Unlink, At, settings, LostInv, TypeOK
<1>2. /\ save'.file = f /\ save'.queue = save.queue /\ save'.exit = save.exit
      /\ \/ save'.at = "next" /\ UNCHANGED disk
         \/ save'.at = "rename" /\ disk' = [disk EXCEPT ![to] = None]
    BY <1>1, GotoStep, KeepStep DEF Unlink, LostInv, TypeOK
<1>3. /\ to \in Path
      /\ option.re = Empty => to = f
      /\ option.re # Empty => to \notin File
    BY <1>1, TargetIs DEF LostInv
<1>4. f \notin save.queue /\ Complete(f, repl[f])
    BY <1>1 DEF LostInv, SaveInv
<1>5. ASSUME NEW g \in File PROVE Untouched(g)' \/ Rewritten(g)'
  <2>1. CASE UNCHANGED disk
      BY <1>1, <1>2, <2>1 DEF LostInv, DiskInv, Untouched, Rewritten, Complete
  <2>2. CASE disk' = [disk EXCEPT ![to] = None] /\ save'.at = "rename" /\ g = to
    <3>1. option.re = Empty /\ g = f /\ disk'[g] = None
        BY <1>3, <2>2 DEF LostInv, TypeOK
    <3>2. Rewritten(g)'
        BY <1>1, <1>2, <1>4, <2>2, <3>1 DEF Rewritten, Complete
    <3> QED BY <3>2
  <2>3. CASE disk' = [disk EXCEPT ![to] = None] /\ g # to
    <3>1. disk'[g] = disk[g]
        BY <2>3, File \subseteq Path DEF LostInv, TypeOK
    <3> QED BY <1>1, <1>2, <3>1 DEF LostInv, DiskInv, Untouched, Rewritten, Complete
  <2> QED BY <1>2, <2>1, <2>2, <2>3
<1>6. \A p \in Path \ File : \A g \in File : disk'[p] # Spoilt(g)
    BY <1>2, ContentsDiffer DEF LostInv, TypeOK, DiskInv
<1>7. DiskInv'
    BY <1>1, <1>5, <1>6 DEF LostInv, DiskInv, Complete
<1>8. SaveInv'
    BY <1>1, <1>2, <1>4 DEF LostInv, SaveInv, NothingAsked, Complete
<1> QED BY <1>7, <1>8

LEMMA LostRename ==
    ASSUME SavedElsewhere, LostInv, Rename
    PROVE  DiskInv' /\ SaveInv'
<1> DEFINE f == save.file
           to == Target(f)
<1>1. /\ UNCHANGED <<asked, option, editing, running>>
      /\ running /\ save.at = "rename" /\ f \in File
    BY DEF Rename, At, settings, LostInv, TypeOK
<1>2. /\ save'.file = f /\ save'.queue = save.queue /\ save'.exit = save.exit
      /\ \/ save'.at = "next" /\ UNCHANGED <<disk, repl>>
         \/ /\ save'.at = "checkin"
            /\ disk' = [disk EXCEPT ![to] = repl[f]]
            /\ repl' = [repl EXCEPT ![f] = None]
    BY <1>1, GotoStep, KeepStep DEF Rename, LostInv, TypeOK
<1>3. /\ to \in Path
      /\ option.re = Empty => to = f
      /\ option.re # Empty => to \notin File
    BY <1>1, TargetIs DEF LostInv
<1>4. f \notin save.queue /\ Complete(f, repl[f])
    BY <1>1 DEF LostInv, SaveInv
<1>5. ASSUME NEW g \in File PROVE Untouched(g)' \/ Rewritten(g)'
  <2>1. CASE UNCHANGED <<disk, repl>>
      BY <1>1, <1>2, <2>1 DEF LostInv, DiskInv, Untouched, Rewritten, Complete
  <2> DEFINE renamed == /\ disk' = [disk EXCEPT ![to] = repl[f]]
                        /\ repl' = [repl EXCEPT ![f] = None]
                        /\ save'.at = "checkin"
  <2>2. CASE renamed /\ g = to
    <3>1. option.re = Empty /\ g = f /\ disk'[g] = repl[f]
        BY <1>3, <2>2 DEF LostInv, TypeOK
    <3>2. Rewritten(g)'
        BY <1>1, <1>2, <1>4, <2>2, <3>1 DEF Rewritten, Complete
    <3> QED BY <3>2
  <2>3. CASE renamed /\ g # to
    <3>1. disk'[g] = disk[g]
        BY <2>3, File \subseteq Path DEF LostInv, TypeOK
    <3>2. CASE g = f
        BY <1>1, <1>3, <2>3, <3>1, <3>2 DEF LostInv, DiskInv, Untouched, Rewritten
    <3>3. CASE g # f
      <4>1. repl'[g] = repl[g]
          BY <2>3, <3>3 DEF LostInv, TypeOK
      <4> QED BY <1>1, <1>2, <2>3, <3>1, <4>1
              DEF LostInv, DiskInv, Untouched, Rewritten, Complete
    <3> QED BY <3>2, <3>3
  <2> QED BY <1>2, <2>1, <2>2, <2>3
<1>6. \A p \in Path \ File : \A g \in File : disk'[p] # Spoilt(g)
    BY <1>2, <1>4, ContentsDiffer DEF LostInv, TypeOK, DiskInv, Complete
<1>7. \A g \in File : repl'[g] \in {None, Part(g)} \/ Complete(g, repl'[g])
    BY <1>1, <1>2 DEF LostInv, TypeOK, DiskInv
<1>8. DiskInv'
    BY <1>5, <1>6, <1>7 DEF DiskInv, Complete
<1>9. SaveInv'
    BY <1>1, <1>2, <1>4 DEF LostInv, SaveInv, NothingAsked, Complete
<1> QED BY <1>8, <1>9

LEMMA LostCheckIn ==
    ASSUME LostInv, CheckIn
    PROVE  DiskInv' /\ SaveInv'
<1>1. /\ UNCHANGED <<asked, option, disk, repl, editing, running>>
      /\ running /\ save.at = "checkin" /\ save.file \in File
    BY DEF CheckIn, At, settings, LostInv, TypeOK
<1>2. /\ save'.file = save.file /\ save'.queue = save.queue /\ save'.exit = save.exit
      /\ save'.at = "next"
    BY <1>1, CheckInStep DEF LostInv, TypeOK
<1>3. ASSUME NEW g \in File PROVE Untouched(g)' \/ Rewritten(g)'
    BY <1>1, <1>2 DEF LostInv, DiskInv, Untouched, Rewritten, Complete
<1>4. DiskInv'
    BY <1>1, <1>3 DEF LostInv, DiskInv, Complete
<1>5. SaveInv'
    BY <1>1, <1>2 DEF LostInv, SaveInv, NothingAsked
<1> QED BY <1>4, <1>5

LEMMA LostEndSave ==
    ASSUME LostInv, EndSave
    PROVE  DiskInv' /\ SaveInv'
<1>1. /\ UNCHANGED <<asked, option, disk, repl, editing>>
      /\ running /\ save.at = "next" /\ save' = Idle /\ running' = ~save.exit
    BY DEF EndSave, At, settings
<1>2. option.re = Empty => ~running'
    BY <1>1 DEF LostInv, SaveInv
<1>3. ASSUME NEW g \in File PROVE Untouched(g)' \/ Rewritten(g)'
    BY <1>1, <1>2, IdleIs DEF LostInv, DiskInv, Untouched, Rewritten, Complete
<1>4. DiskInv'
    BY <1>1, <1>3 DEF LostInv, DiskInv, Complete
<1>5. SaveInv'
    BY <1>1, IdleIs DEF SaveInv
<1> QED BY <1>4, <1>5

LEMMA LostStep ==
    ASSUME EditorTells, DiskHolds, SavedElsewhere, LostInv, [Next]_vars
    PROVE  LostInv'
<1>1. TypeOK' /\ ModeInv'
    BY TypeStep, ModeStep DEF LostInv
<1> SUFFICES DiskInv' /\ SaveInv'
    BY <1>1 DEF LostInv
<1>2. ASSUME NEW r \in Refactorings, Substitute(r) PROVE DiskInv' /\ SaveInv'
    BY <1>2, LostServing DEF Substitute
<1>3. ASSUME NEW kind \in {Identifiers, Functions}, Review(kind) PROVE DiskInv' /\ SaveInv'
    BY <1>3, LostServing DEF Review
<1>4. ASSUME NEW f \in File, Edit(f) PROVE DiskInv' /\ SaveInv'
    BY <1>4, LostServing DEF Edit
<1>5. CASE SetOptions
    BY <1>5, LostServing DEF SetOptions
<1>6. CASE Exit
  <2>1. ASSUME NEW g \in File PROVE Untouched(g)' \/ Rewritten(g)'
      BY <1>6 DEF Exit, settings, LostInv, DiskInv, Untouched, Rewritten, Complete
  <2>2. DiskInv' /\ SaveInv'
      BY <1>6, <2>1 DEF Exit, settings, LostInv, DiskInv, SaveInv, NothingAsked, Complete
  <2> QED BY <2>2
<1>7. CASE UNCHANGED vars
  <2>1. ASSUME NEW g \in File PROVE Untouched(g)' \/ Rewritten(g)'
      BY <1>7 DEF vars, LostInv, DiskInv, Untouched, Rewritten, Complete
  <2>2. DiskInv' /\ SaveInv'
      BY <1>7, <2>1 DEF vars, LostInv, DiskInv, SaveInv, NothingAsked, Complete
  <2> QED BY <2>2
<1> QED BY <1>2, <1>3, <1>4, <1>5, <1>6, <1>7, LostSaveRequest, LostHandEdit, LostOpen,
           LostWrite, LostCheckOut, LostUnlink, LostRename, LostCheckIn, LostEndSave DEF Next

LEMMA LostImplies == LostInv => NothingLost /\ OffsetsAreCurrent
<1> SUFFICES ASSUME LostInv PROVE NothingLost /\ OffsetsAreCurrent
    OBVIOUS
<1>1. ASSUME NEW f \in File
      PROVE  disk[f] = Hand(f) \/ Complete(f, disk[f]) \/ Complete(f, repl[f])
    BY DEF LostInv, DiskInv, Untouched, Rewritten, Complete
<1>2. NothingLost
    BY <1>1 DEF NothingLost, Complete
<1>3. ASSUME NEW f \in File, NEW g \in File PROVE disk[f] # Spoilt(g) /\ repl[f] # Spoilt(g)
    BY ContentsDiffer DEF LostInv, DiskInv, Untouched, Rewritten, Complete
<1>4. OffsetsAreCurrent
    BY <1>3 DEF OffsetsAreCurrent, LostInv, DiskInv
<1> QED BY <1>2, <1>4

\* Whichever operation of a save fails and wherever the process ends, every
\* source file is complete on the disk, as itself or as its .repl file.
THEOREM NothingIsLost ==
    ASSUME EditorTells, DiskHolds, SavedElsewhere
    PROVE  Spec => []NothingLost
<1>1. LostInv /\ [Next]_vars => LostInv'
    BY LostStep
<1> QED BY <1>1, LostInit, LostImplies, PTL DEF Spec

\* No refactoring is made on a text that was edited or already rewritten.
THEOREM OffsetsStayCurrent ==
    ASSUME EditorTells, DiskHolds, SavedElsewhere
    PROVE  Spec => []OffsetsAreCurrent
<1>1. LostInv /\ [Next]_vars => LostInv'
    BY LostStep
<1> QED BY <1>1, LostInit, LostImplies, PTL DEF Spec

-----------------------------------------------------------------------------
(* What a save leaves.  A file is in the queue, is the one in hand, was    *)
(* not opened, is kept or is done.  Nothing an operation does to the file  *)
(* in hand reaches the others if a rule sends no two files to one place.   *)

InHand(f) == save.at \notin {"idle", "next"} /\ save.file = f
InRepl(f) == repl[f] = Text(f, ActiveIn(f))
InPlace(f) ==
    ~Undefined /\ Target(f) \in Path /\ disk[Target(f)] = Text(f, ActiveIn(f))
Finished(f) ==
    f \in save.files \ (save.queue \cup save.unopened \cup save.kept) /\ ~InHand(f)

FilesInv ==
    /\ save.files # {} => ~NothingAsked
    /\ save.queue \subseteq save.files
    /\ save.kept \subseteq save.files \ save.queue
    /\ \A f \in File : InHand(f) => f \in save.files \ (save.queue \cup save.kept)
    /\ save.at # "idle" => \A f \in File \ save.files : ActiveIn(f) = {}

WhereInv ==
    /\ \A f \in File : InHand(f) /\ save.at \in {"checkout", "unlink", "rename"} => InRepl(f)
    /\ \A f \in File : InHand(f) /\ save.at = "checkin" => InPlace(f)
    /\ \A f \in save.kept : InRepl(f)
    /\ \A f \in File : Finished(f) => InPlace(f)

SavedInv == LostInv /\ (running => FilesInv /\ WhereInv)

\* While no save is under way there is nothing to say.
LEMMA IdleSaved ==
    ASSUME save = Idle
    PROVE  FilesInv /\ WhereInv
BY DEF Idle, Activation, FilesInv, WhereInv, InHand, Finished

LEMMA SavedInit == Init => SavedInv
BY LostInit, IdleSaved DEF Init, SavedInv

\* The pages but the one that starts a save, and the end of one
LEMMA SavedServing ==
    ASSUME save' = Idle
    PROVE  FilesInv' /\ WhereInv'
<1>1. save'.at = "idle" /\ save'.files = {} /\ save'.queue = {} /\ save'.kept = {}
    BY DEF Idle, Activation
<1> QED BY <1>1 DEF FilesInv, WhereInv, InHand, Finished

LEMMA SavedSaveRequest ==
    ASSUME SavedInv, NEW exit \in BOOLEAN, SaveRequest(exit)
    PROVE  FilesInv' /\ WhereInv'
<1> DEFINE files == ToProcess(Identifiers) \cup ToProcess(Functions)
<1>1. CASE UNCHANGED save
    BY <1>1, SavedServing DEF SaveRequest, Serving
<1>2. CASE save' = Activation("next", files, exit)
  <2>1. files \in SUBSET File /\ (files # {} => ~NothingAsked)
      BY ToProcessTyped DEF SavedInv, LostInv, NothingAsked
  <2>2. \A f \in File \ files : ActiveIn(f) = {}
      BY DEF ToProcess, ActiveIn
  <2>3. UNCHANGED asked
      BY DEF SaveRequest
  <2> HIDE DEF files
  <2>4. /\ save'.at = "next" /\ save'.queue = files /\ save'.files = files
        /\ save'.kept = {} /\ save'.unopened = {}
      BY <1>2 DEF Activation
  <2> QED BY <2>1, <2>2, <2>3, <2>4
          DEF FilesInv, WhereInv, InHand, Finished, NothingAsked, ActiveIn
<1> QED BY <1>1, <1>2 DEF SaveRequest

LEMMA SavedHandEdit ==
    ASSUME SavedInv, running, NEW f \in File, HandEdit(f)
    PROVE  FilesInv' /\ WhereInv'
<1>1. NothingAsked /\ save.files = {} /\ UNCHANGED <<asked, save>>
    BY DEF HandEdit, SavedInv, FilesInv, LostInv, ModeInv
<1>2. FilesInv'
    BY <1>1 DEF SavedInv, FilesInv, InHand, NothingAsked, ActiveIn
<1>3. save'.files = {}
    BY <1>1
<1> QED BY <1>2, <1>3 DEF FilesInv, WhereInv, Finished

\* While a page is served neither what is active nor where files go changes.
LEMMA SavedSame ==
    ASSUME UNCHANGED <<asked, settings>>
    PROVE  /\ NothingAsked' <=> NothingAsked
           /\ Undefined' <=> Undefined
           /\ \A f : ActiveIn(f)' = ActiveIn(f) /\ Target(f)' = Target(f)
BY DEF settings, NothingAsked, ActiveIn, Undefined, Target

LEMMA SavedOpen ==
    ASSUME SavedInv, running, NEW f \in File, Open(f)
    PROVE  FilesInv' /\ WhereInv'
<1>1. save.at = "next" /\ f \in save.queue /\ UNCHANGED <<asked, settings, disk>>
    BY DEF Open, At
<1>2. /\ save'.file = f /\ save'.queue = save.queue \ {f}
      /\ save'.files = save.files /\ save'.kept = save.kept
      /\ \/ /\ save'.at = "next" /\ UNCHANGED repl
            /\ save'.unopened = save.unopened \cup {f}
         \/ /\ save'.at = "write" /\ repl' = [repl EXCEPT ![f] = Part(f)]
            /\ save'.unopened = save.unopened
    BY OpenStep DEF SavedInv, LostInv, TypeOK
<1>3. FilesInv'
    BY <1>1, <1>2, SavedSame DEF SavedInv, FilesInv, InHand
<1>4. \A g \in File \ {f} : repl'[g] = repl[g]
    BY <1>2 DEF SavedInv, LostInv, TypeOK
<1>5. ASSUME NEW g \in File, Finished(g)' PROVE Finished(g)
    BY <1>1, <1>2, <1>5 DEF Finished, InHand
<1>6. save.kept \subseteq File \ {f}
    BY <1>1 DEF SavedInv, FilesInv, LostInv, TypeOK, Activations
<1>7. WhereInv'
  <2>1. \A g \in save'.kept : InRepl(g)'
      BY <1>1, <1>2, <1>4, <1>6, SavedSame DEF SavedInv, WhereInv, InRepl
  <2>2. \A g \in File : Finished(g)' => InPlace(g)'
      BY <1>1, <1>5, SavedSame DEF SavedInv, WhereInv, InPlace
  <2> QED BY <1>2, <2>1, <2>2 DEF WhereInv, InHand
<1> QED BY <1>3, <1>7

\* The file in hand is still what it was when it is rewritten.
LEMMA WriteRefactors ==
    ASSUME DiskHolds, LostInv, Write
    PROVE  /\ save.file \in File
           /\ repl' = [repl EXCEPT ![save.file] = Text(save.file, ActiveIn(save.file))]
<1> DEFINE f == save.file
<1>1. /\ running /\ save.at = "write" /\ f \in File
      /\ repl' = [repl EXCEPT ![f] = Refactored(f)]
    BY DEF Write, At, DiskHolds, LostInv, TypeOK
<1>2. f \notin save.queue /\ ~NothingAsked /\ ~Rewritten(f)
    BY <1>1 DEF LostInv, SaveInv, Rewritten
<1>3. disk[f] = Text(f, {})
    BY <1>1, <1>2, SavingNotEditing DEF LostInv, DiskInv, Untouched
<1> QED BY <1>1, <1>3 DEF Refactored, Active, ActiveIn

LEMMA SavedWrite ==
    ASSUME DiskHolds, SavedInv, running', Write
    PROVE  FilesInv' /\ WhereInv'
<1> DEFINE f == save.file
<1>1. /\ running /\ save.at = "write" /\ f \in File
      /\ UNCHANGED <<asked, settings, disk>>
    BY DEF Write, At, SavedInv, LostInv, TypeOK
<1>2. /\ save'.file = f /\ save'.queue = save.queue
      /\ save'.files = save.files /\ save'.unopened = save.unopened
      /\ \/ save'.at = "next" /\ save'.kept = save.kept \cup {f}
         \/ save'.at = "checkout" /\ save'.kept = save.kept
  <2>1. ~Undefined /\ save \in Activations
      BY DEF Write, SavedInv, LostInv, TypeOK
  <2>2. CASE Target(f) = NoMatch
      BY <1>1, <2>1, <2>2, KeepStep DEF Write
  <2>3. CASE Target(f) # NoMatch
      BY <1>1, <2>1, <2>3, GotoStep DEF Write
  <2> QED BY <2>2, <2>3
<1>3. repl'[f] = Text(f, ActiveIn(f)) /\ \A g \in File \ {f} : repl'[g] = repl[g]
    BY <1>1, WriteRefactors DEF SavedInv, LostInv, TypeOK
<1>4. f \in save.files \ (save.queue \cup save.kept)
    BY <1>1 DEF SavedInv, FilesInv, InHand
<1>5. FilesInv'
    BY <1>1, <1>2, <1>4, SavedSame DEF SavedInv, FilesInv, InHand
<1>6. save.kept \subseteq File
    BY DEF SavedInv, LostInv, TypeOK, Activations
<1>7. InRepl(f)' /\ \A g \in save.kept : InRepl(g)'
    BY <1>1, <1>2, <1>3, <1>4, <1>6, SavedSame DEF SavedInv, WhereInv, InRepl
<1>8. ASSUME NEW g \in File, Finished(g)' PROVE InPlace(g)'
  <2>1. Finished(g)
      BY <1>1, <1>2, <1>8 DEF Finished, InHand
  <2> QED BY <1>1, <2>1, SavedSame DEF SavedInv, WhereInv, InPlace
<1>9. WhereInv'
    BY <1>2, <1>7, <1>8 DEF WhereInv, InHand
<1> QED BY <1>5, <1>9

\* CheckOut, and a check-in or an operation that failed: the file in hand stays
\* there or is kept.
LEMMA SavedKeep ==
    ASSUME SavedInv, running, save.at \in {"checkout", "unlink", "rename"}, Keep,
           UNCHANGED <<asked, settings, disk, repl>>
    PROVE  FilesInv' /\ WhereInv'
<1>1. PICK f \in File : f = save.file
    BY DEF SavedInv, LostInv, TypeOK
<1>2. /\ save'.at = "next" /\ save'.file = f /\ save'.queue = save.queue
      /\ save'.files = save.files /\ save'.unopened = save.unopened
      /\ save'.kept = save.kept \cup {f}
    BY <1>1, KeepStep DEF SavedInv, LostInv, TypeOK
<1>3. InHand(f) /\ InRepl(f)
    BY <1>1 DEF SavedInv, WhereInv, InHand
<1>4. FilesInv'
    BY <1>2, <1>3, SavedSame DEF SavedInv, FilesInv, InHand
<1>5. \A g \in save'.kept : InRepl(g)'
    BY <1>2, <1>3, SavedSame DEF SavedInv, WhereInv, InRepl
<1>6. ASSUME NEW g \in File, Finished(g)' PROVE InPlace(g)'
  <2>1. Finished(g)
      BY <1>1, <1>2, <1>6 DEF Finished, InHand
  <2> QED BY <2>1, SavedSame DEF SavedInv, WhereInv, InPlace
<1> QED BY <1>2, <1>4, <1>5, <1>6 DEF WhereInv, InHand

LEMMA SavedCheckOut ==
    ASSUME SavedInv, CheckOut
    PROVE  FilesInv' /\ WhereInv'
<1>1. running /\ save.at = "checkout" /\ UNCHANGED <<asked, settings, disk, repl>>
    BY DEF CheckOut, At
<1>2. CASE Keep
    BY <1>1, <1>2, SavedKeep
<1>3. CASE Goto("unlink")
  <2>1. /\ save'.at = "unlink" /\ save'.file = save.file /\ save'.queue = save.queue
        /\ save'.files = save.files /\ save'.unopened = save.unopened
        /\ save'.kept = save.kept
      BY <1>3, GotoStep DEF SavedInv, LostInv, TypeOK
  <2>2. FilesInv'
      BY <1>1, <2>1, SavedSame DEF SavedInv, FilesInv, InHand
  <2>3. WhereInv'
      BY <1>1, <2>1, SavedSame DEF SavedInv, WhereInv, InHand, Finished, InRepl, InPlace
  <2> QED BY <2>2, <2>3
<1> QED BY <1>2, <1>3 DEF CheckOut

\* Two files of a save do not go to the same place.
LEMMA TargetsDiffer ==
    ASSUME SavedApart, TypeOK, ~Undefined,
           NEW f \in File, NEW g \in File, f # g, Target(f) \in Path
    PROVE  Target(g) # Target(f)
<1>1. CASE option.re = Empty
    BY <1>1 DEF Target
<1>2. CASE option.re # Empty
  <2>1. <<sfile_re, option.to>> \in RE \X To
      BY <1>2 DEF TypeOK, Undefined, Options
  <2>2. Target(f) # NoMatch
      OBVIOUS
  <2> QED BY <1>2, <2>1, <2>2 DEF Target, SavedApart
<1> QED BY <1>1, <1>2

LEMMA SavedUnlink ==
    ASSUME SavedApart, SavedInv, Unlink
    PROVE  FilesInv' /\ WhereInv'
<1>1. running /\ save.at = "unlink" /\ UNCHANGED <<asked, settings, repl>>
    BY DEF Unlink, At
<1>2. CASE Keep /\ UNCHANGED disk
    BY <1>1, <1>2, SavedKeep
<1>3. CASE disk' = [disk EXCEPT ![Target(save.file)] = None] /\ Goto("rename")
  <2>1. PICK f \in File : f = save.file /\ Target(f) \in Path /\ ~Undefined
      BY <1>1 DEF SavedInv, LostInv, TypeOK
  <2>2. /\ save'.at = "rename" /\ save'.file = f /\ save'.queue = save.queue
        /\ save'.files = save.files /\ save'.unopened = save.unopened
        /\ save'.kept = save.kept
      BY <1>3, <2>1, GotoStep DEF SavedInv, LostInv, TypeOK
  <2>3. FilesInv'
      BY <1>1, <2>1, <2>2, SavedSame DEF SavedInv, FilesInv, InHand
  <2>4. ASSUME NEW g \in File, Finished(g)' PROVE InPlace(g)'
    <3>1. g # f /\ Finished(g)
        BY <1>1, <2>1, <2>2, <2>4 DEF Finished, InHand
    <3>2. InPlace(g) /\ Target(g) # Target(f)
        BY <1>1, <2>1, <3>1, TargetsDiffer DEF SavedInv, LostInv, WhereInv
    <3>3. disk'[Target(g)] = disk[Target(g)]
        BY <1>3, <2>1, <3>2 DEF InPlace, SavedInv, LostInv, TypeOK
    <3> QED BY <1>1, <3>2, <3>3, SavedSame DEF InPlace
  <2>5. /\ InRepl(f)' /\ \A g \in save'.kept : InRepl(g)'
      BY <1>1, <2>1, <2>2, SavedSame DEF SavedInv, WhereInv, InRepl, InHand
  <2> QED BY <2>2, <2>3, <2>4, <2>5 DEF WhereInv, InHand
<1> QED BY <1>2, <1>3 DEF Unlink

LEMMA SavedRename ==
    ASSUME SavedApart, SavedInv, Rename
    PROVE  FilesInv' /\ WhereInv'
<1>1. running /\ save.at = "rename" /\ UNCHANGED <<asked, settings>>
    BY DEF Rename, At
<1>2. CASE Keep /\ UNCHANGED <<disk, repl>>
    BY <1>1, <1>2, SavedKeep
<1>3. CASE /\ disk' = [disk EXCEPT ![Target(save.file)] = repl[save.file]]
           /\ repl' = [repl EXCEPT ![save.file] = None]
           /\ Goto("checkin")
  <2>1. PICK f \in File : f = save.file /\ Target(f) \in Path /\ ~Undefined
      BY <1>1 DEF SavedInv, LostInv, TypeOK
  <2>2. /\ save'.at = "checkin" /\ save'.file = f /\ save'.queue = save.queue
        /\ save'.files = save.files /\ save'.unopened = save.unopened
        /\ save'.kept = save.kept
      BY <1>3, <2>1, GotoStep DEF SavedInv, LostInv, TypeOK
  <2>3. FilesInv'
      BY <1>1, <2>1, <2>2, SavedSame DEF SavedInv, FilesInv, InHand
  <2>4. ASSUME NEW g \in File, Finished(g)' PROVE InPlace(g)'
    <3>1. g # f /\ Finished(g)
        BY <1>1, <2>1, <2>2, <2>4 DEF Finished, InHand
    <3>2. InPlace(g) /\ Target(g) # Target(f)
        BY <1>1, <2>1, <3>1, TargetsDiffer DEF SavedInv, LostInv, WhereInv
    <3>3. disk'[Target(g)] = disk[Target(g)]
        BY <1>3, <2>1, <3>2 DEF InPlace, SavedInv, LostInv, TypeOK
    <3> QED BY <1>1, <3>2, <3>3, SavedSame DEF InPlace
  <2>5. InPlace(f)'
    <3>1. InRepl(f)
        BY <1>1, <2>1 DEF SavedInv, WhereInv, InHand
    <3>2. disk'[Target(f)] = repl[f]
        BY <1>3, <2>1 DEF SavedInv, LostInv, TypeOK
    <3> QED BY <1>1, <2>1, <3>1, <3>2, SavedSame DEF InPlace, InRepl
  <2>6. \A g \in save'.kept : InRepl(g)'
    <3>1. f \notin save.kept /\ save.kept \subseteq File
        BY <1>1, <2>1 DEF SavedInv, FilesInv, InHand, LostInv, TypeOK, Activations
    <3>2. \A g \in save.kept : repl'[g] = repl[g]
        BY <1>3, <2>1, <3>1 DEF SavedInv, LostInv, TypeOK
    <3> QED BY <1>1, <2>2, <3>2, SavedSame DEF SavedInv, WhereInv, InRepl
  <2> QED BY <2>2, <2>3, <2>4, <2>5, <2>6 DEF WhereInv, InHand
<1> QED BY <1>2, <1>3 DEF Rename

LEMMA SavedCheckIn ==
    ASSUME SavedInv, CheckIn
    PROVE  FilesInv' /\ WhereInv'
<1>1. running /\ save.at = "checkin" /\ UNCHANGED <<asked, settings, disk, repl>>
    BY DEF CheckIn, At
<1>2. PICK f \in File : f = save.file
    BY <1>1 DEF SavedInv, LostInv, TypeOK
<1>3. /\ save'.at = "next" /\ save'.file = f /\ save'.queue = save.queue
      /\ save'.files = save.files /\ save'.unopened = save.unopened
      /\ save'.kept = save.kept
    BY <1>2, CheckInStep DEF SavedInv, LostInv, TypeOK
<1>4. FilesInv'
    BY <1>1, <1>3, SavedSame DEF SavedInv, FilesInv, InHand
<1>5. InPlace(f)
    BY <1>1, <1>2 DEF SavedInv, WhereInv, InHand
<1>6. ASSUME NEW g \in File, Finished(g)' PROVE InPlace(g)'
  <2>1. g = f \/ Finished(g)
      BY <1>1, <1>2, <1>3, <1>6 DEF Finished, InHand
  <2> QED BY <1>1, <1>5, <2>1, SavedSame DEF SavedInv, WhereInv, InPlace
<1>7. \A g \in save'.kept : InRepl(g)'
    BY <1>1, <1>3, SavedSame DEF SavedInv, WhereInv, InRepl
<1> QED BY <1>3, <1>4, <1>6, <1>7 DEF WhereInv, InHand

LEMMA SavedStep ==
    ASSUME EditorTells, DiskHolds, SavedElsewhere, SavedApart, SavedInv, [Next]_vars
    PROVE  SavedInv'
<1>1. LostInv'
    BY LostStep DEF SavedInv
<1> SUFFICES ASSUME running' PROVE FilesInv' /\ WhereInv'
    BY <1>1 DEF SavedInv
<1>2. ASSUME UNCHANGED save, Serving PROVE FilesInv' /\ WhereInv'
    BY <1>2, SavedServing DEF Serving
<1>3. CASE EndSave
    BY <1>3, SavedServing DEF EndSave
<1>4. CASE UNCHANGED vars
  <2>1. FilesInv'
      BY <1>4, SavedSame DEF vars, SavedInv, FilesInv, InHand, settings
  <2>2. WhereInv'
      BY <1>4, SavedSame DEF vars, SavedInv, WhereInv, InHand, Finished, InRepl, InPlace, settings
  <2> QED BY <2>1, <2>2
<1>5. ASSUME NEW f \in File, HandEdit(f) PROVE FilesInv' /\ WhereInv'
    BY <1>5, SavedHandEdit DEF HandEdit
<1>6. ASSUME NEW f \in File, Open(f) PROVE FilesInv' /\ WhereInv'
    BY <1>6, SavedOpen DEF Open, At
<1>7. CASE Exit
    BY <1>7 DEF Exit
<1> QED BY <1>2, <1>3, <1>4, <1>5, <1>6, <1>7, SavedSaveRequest, SavedWrite, SavedCheckOut,
           SavedUnlink, SavedRename, SavedCheckIn
        DEF Next, Substitute, Review, Edit, SetOptions

LEMMA SavedImplies == ASSUME SavedInv PROVE SavedIsAsked
<1> SUFFICES ASSUME AllDone PROVE SavedIsAsked
    BY DEF SavedIsAsked
<1>1. running /\ save.at = "next" /\ save.queue = {} /\ FilesInv /\ WhereInv
    BY DEF AllDone, SavedInv
<1>2. ASSUME NEW f \in save.kept
      PROVE  repl[f] = Text(f, ActiveIn(f)) /\ (option.re # Empty => disk[f] = Text(f, {}))
  <2>1. f \in File /\ editing = {}
      BY <1>1, SavingNotEditing
      DEF FilesInv, SavedInv, LostInv, TypeOK, Activations
  <2>2. option.re # Empty => disk[f] = Text(f, {})
      BY <2>1 DEF SavedInv, LostInv, DiskInv, Untouched, Rewritten
  <2> QED BY <1>1, <2>2 DEF WhereInv, InRepl
<1>3. ASSUME NEW f \in save.files \ (save.unopened \cup save.kept)
      PROVE  disk[Target(f)] = Text(f, ActiveIn(f))
  <2>1. f \in File /\ Finished(f)
      BY <1>1 DEF SavedInv, LostInv, TypeOK, Activations, Finished, InHand
  <2> QED BY <1>1, <2>1 DEF WhereInv, InPlace
<1> QED BY <1>1, <1>2, <1>3 DEF SavedIsAsked, ReportedIsInRepl, FilesInv

\* A save that ends has put every file that no message is about where the options
\* send it, with the refactorings that are active and no other, has left each file
\* it keeps complete as .repl and untouched elsewhere, and has missed none.
THEOREM SavesAreAsAsked ==
    ASSUME EditorTells, DiskHolds, SavedElsewhere, SavedApart
    PROVE  Spec => []SavedIsAsked
<1>1. SavedInv /\ [Next]_vars => SavedInv'
    BY SavedStep
<1> QED BY <1>1, SavedInit, SavedImplies, PTL DEF Spec

HIDE SessionAssumption DEF Refactorings

-----------------------------------------------------------------------------
(* Options                                                                 *)

\* Option o is in the file.
IsKept(o) == \E i \in 1 .. kept.upto : Pool[i] = o
Read(o, word) == IF Kind[o] = "text" THEN Strip[word] ELSE word

\* The lines are those of the options that were saved, and maybe of an unknown one.
FileIsSaved ==
    /\ kept \in [values : Values, upto : 0 .. Len(Pool)]
    /\ lines = NoFile => kept.upto = 0
    /\ lines # NoFile =>
          /\ lines \in Seq([name : Names, value : Spellings])
          /\ \A k \in 1 .. Len(lines) :
                lines[k].name \in Option =>
                    /\ IsKept(lines[k].name)
                    /\ lines[k].value = kept.values[lines[k].name]
          /\ \A i \in 1 .. kept.upto :
                \E k \in 1 .. Len(lines) : lines[k].name = Pool[i]

\* What is in memory, in each stage.
NotServed == values = None /\ compiled = Empty
HasLoaded ==
    /\ values \in Values /\ compiled = Empty
    /\ lines # NoFile /\ next \in 1 .. Len(lines) + 1
    /\ \A o \in Option :
          values[o] = IF \E k \in 1 .. next - 1 : lines[k].name = o
                      THEN Read(o, kept.values[o]) ELSE Default[o]
IsServed ==
    /\ values \in Values /\ compiled \in RE \cup {Empty}
    /\ values[ReOption] \in RE => compiled = values[ReOption]
HasRestored ==
    /\ compiled = values[ReOption] /\ values[ReOption] # BadRE
    /\ \A o \in Option : values[o] = Remembered(o)
IsSaving ==
    /\ lines # NoFile /\ next \in 1 .. Len(Pool) + 1
    /\ kept.upto = next - 1 /\ kept.values = values
MemoryIsRight ==
    /\ stage \in {"down", "args", "load", "analyse", "serve", "save"}
    /\ stage \in {"down", "args"} => NotServed
    /\ stage = "load" => HasLoaded
    /\ stage = "analyse" /\ process_mode = "server" => IsServed /\ HasRestored
    /\ stage = "serve" => IsServed
    /\ stage = "save" => IsServed /\ IsSaving
    /\ stage \in {"load", "serve", "save"} => process_mode = "server"

\* The mode is that of the flags before n.
ModeIsOf(n) ==
    LET modes == {i \in 1 .. n : argv[i] \in Exclusively \cup {"R"}}
    IN  /\ \A i, j \in modes : i < j => argv[j] = "R"
        /\ IF modes = {} THEN process_mode = "server"
           ELSE \E i \in modes : argv[i] = process_mode /\ \A j \in modes : j <= i
FlagsAreRead ==
    /\ argv \in Seq(Flag)
    /\ next \in Nat \ {0}
    /\ stage = "args" => next \in 1 .. Len(argv) + 1 /\ ModeIsOf(next - 1)
    /\ stage \notin {"down", "args"} => ModeIsOf(Len(argv))

SettingsInv == FileIsSaved /\ MemoryIsRight /\ FlagsAreRead

\* The prover does not need to know what is in the assumptions elsewhere.
LEMMA PoolIs ==
    /\ Pool \in Seq(Option) /\ Len(Pool) \in Nat /\ DOMAIN Pool = 1 .. Len(Pool)
    /\ \A i \in 1 .. Len(Pool) : Pool[i] \in Option
    /\ \A o \in Option : \E i \in 1 .. Len(Pool) : Pool[i] = o
    /\ \A i, j \in 1 .. Len(Pool) : Pool[i] = Pool[j] => i = j
BY SettingsAssumption DEF Option

LEMMA ValuesAre ==
    /\ Default \in Values
    /\ \A v \in Values : v \in [Option -> UNION {Words[o] : o \in Option}]
    /\ \A v \in Values : \A o \in Option : v[o] \in Words[o]
    /\ \A v \in Values, o \in Option : \A w \in Words[o] :
          [v EXCEPT ![o] = w] \in Values
<1>1. Default \in Values
  BY SettingsAssumption
<1>2. \A v \in Values : /\ v \in [Option -> UNION {Words[o] : o \in Option}]
                        /\ \A o \in Option : v[o] \in Words[o]
  BY DEF Values
<1>3. ASSUME NEW v \in Values, NEW o \in Option, NEW w \in Words[o]
      PROVE  [v EXCEPT ![o] = w] \in Values
  <2>1. w \in UNION {Words[p] : p \in Option}
    OBVIOUS
  <2>2. [v EXCEPT ![o] = w] \in [Option -> UNION {Words[p] : p \in Option}]
    BY <1>2, <2>1
  <2>3. ASSUME NEW p \in Option PROVE [v EXCEPT ![o] = w][p] \in Words[p]
    BY <1>2
  <2>. QED BY <2>2, <2>3 DEF Values
<1>. QED BY <1>1, <1>2, <1>3

LEMMA WordsAre ==
    /\ \A o \in Option : \A w \in Words[o] : Read(o, w) \in Words[o]
    /\ ReOption \in Option /\ Kind[ReOption] = "text" /\ Default[ReOption] = Empty
    /\ Words[ReOption] = RE \cup {Empty, BadRE}
    /\ Empty \notin RE /\ BadRE \notin RE /\ BadRE # Empty
BY SessionAssumption, SettingsAssumption DEF Read

\* Reading a line or the rest of the flags, the file is what it was.
LEMMA FileStays ==
    ASSUME FileIsSaved, UNCHANGED <<lines, kept>> PROVE FileIsSaved'
BY DEF FileIsSaved, IsKept

LEMMA FlagsStay ==
    ASSUME FlagsAreRead, UNCHANGED <<argv, process_mode>>,
           stage \notin {"down", "args"}, stage' \notin {"down", "args"},
           next' \in Nat \ {0}
    PROVE  FlagsAreRead'
BY DEF FlagsAreRead, ModeIsOf

LEMMA SavedLinesAre ==
    ASSUME NEW v \in Values
    PROVE  LET s == <<OldLine>> \o SavedLines(v)
           IN  /\ s \in Seq([name : Names, value : Spellings])
               /\ Len(s) = Len(Pool) + 1
               /\ s[1] = OldLine
               /\ \A i \in 1 .. Len(Pool) : s[i + 1] = Line(Pool[i], v)
<1> DEFINE L == [name : Names, value : Spellings]
           t == SavedLines(v)
           o == <<OldLine>>
<1>1. OldLine \in L
  <2>1. OldLine.name \in Names /\ OldLine.value \in Spellings
    BY DEF Names, Spellings
  <2>2. OldLine \in [name : {OldLine.name}, value : {OldLine.value}]
    BY SettingsAssumption
  <2>. QED BY <2>1, <2>2
<1>2. ASSUME NEW i \in 1 .. Len(Pool) PROVE Line(Pool[i], v) \in L
  <2>1. Pool[i] \in Option /\ v[Pool[i]] \in Words[Pool[i]]
    BY PoolIs, ValuesAre
  <2>2. Pool[i] \in Names /\ v[Pool[i]] \in Spellings
    BY <2>1 DEF Names, Spellings
  <2>. QED BY <2>2 DEF Line
<1>3. t = [i \in 1 .. Len(Pool) |-> Line(Pool[i], v)]
  BY PoolIs DEF SavedLines
<1>4. t \in Seq(L) /\ Len(t) = Len(Pool) /\ \A i \in 1 .. Len(Pool) : t[i] = Line(Pool[i], v)
  BY <1>2, <1>3, PoolIs
<1>5. o \in Seq(L) /\ Len(o) = 1 /\ o[1] = OldLine
  BY <1>1
<1>. HIDE DEF L, t, o
<1>6. /\ o \o t \in Seq(L)
      /\ Len(o \o t) = Len(o) + Len(t)
      /\ \A i \in 1 .. Len(o) + Len(t) :
            (o \o t)[i] = IF i <= Len(o) THEN o[i] ELSE t[i - Len(o)]
  BY <1>4, <1>5, ConcatProperties
<1>7. Len(Pool) \in Nat
  BY PoolIs
<1>8. Len(o \o t) = Len(Pool) + 1 /\ (o \o t)[1] = OldLine
  BY <1>4, <1>5, <1>6, <1>7
<1>9. ASSUME NEW i \in 1 .. Len(Pool) PROVE (o \o t)[i + 1] = Line(Pool[i], v)
  <2>1. i + 1 \in 1 .. Len(o) + Len(t) /\ ~(i + 1 <= Len(o)) /\ i + 1 - Len(o) = i
    BY <1>4, <1>5, <1>7
  <2>2. (o \o t)[i + 1] = t[i]
    BY <1>6, <2>1
  <2>. QED BY <1>4, <2>2
<1>. QED BY <1>6, <1>8, <1>9 DEF L, t, o

LEMMA SettingsInitInv == SettingsInit => SettingsInv
<1> SUFFICES ASSUME SettingsInit PROVE SettingsInv
  OBVIOUS
<1>1. FileIsSaved
  <2>1. CASE lines = NoFile /\ kept = [values |-> Default, upto |-> 0]
    BY <2>1, ValuesAre, PoolIs DEF FileIsSaved, IsKept
  <2>2. ASSUME NEW v \in Earlier, lines = <<OldLine>> \o SavedLines(v),
               kept = [values |-> v, upto |-> Len(Pool)]
        PROVE  FileIsSaved
    <3>1. v \in Values
      BY SettingsAssumption
    <3>2. /\ lines \in Seq([name : Names, value : Spellings])
          /\ Len(lines) = Len(Pool) + 1 /\ lines[1] = OldLine
          /\ \A i \in 1 .. Len(Pool) : lines[i + 1] = Line(Pool[i], v)
      BY <2>2, <3>1, SavedLinesAre
    <3>3. ASSUME NEW k \in 1 .. Len(lines), lines[k].name \in Option
          PROVE  IsKept(lines[k].name) /\ lines[k].value = v[lines[k].name]
      <4>1. k # 1
        BY <3>2, <3>3, SettingsAssumption
      <4>2. PICK i \in 1 .. Len(Pool) : k = i + 1
        <5>1. k - 1 \in 1 .. Len(Pool) /\ k = k - 1 + 1
          BY <3>2, <4>1, PoolIs
        <5>. QED BY <5>1
      <4>3. lines[k] = Line(Pool[i], v)
        BY <3>2, <4>2
      <4>4. kept.upto = Len(Pool)
        BY <2>2
      <4>. QED BY <4>3, <4>4 DEF Line, IsKept
    <3>4. ASSUME NEW i \in 1 .. Len(Pool)
          PROVE  \E k \in 1 .. Len(lines) : lines[k].name = Pool[i]
      <4>1. i + 1 \in 1 .. Len(lines)
        BY <3>2, PoolIs
      <4>2. lines[i + 1] = Line(Pool[i], v)
        BY <3>2
      <4>3. lines[i + 1].name = Pool[i]
        BY <4>2 DEF Line
      <4>. QED BY <4>1, <4>3
    <3>5. kept \in [values : Values, upto : 0 .. Len(Pool)]
      BY <2>2, <3>1, PoolIs
    <3>6. lines # NoFile
      BY <3>2, SettingsAssumption
    <3>. QED BY <2>2, <3>2, <3>3, <3>4, <3>5, <3>6 DEF FileIsSaved
  <2>. QED BY <2>1, <2>2 DEF SettingsInit
<1>2. MemoryIsRight
  BY DEF SettingsInit, MemoryIsRight, NotServed
<1>3. FlagsAreRead
  BY DEF SettingsInit, FlagsAreRead
<1>. QED BY <1>1, <1>2, <1>3 DEF SettingsInv

LEMMA StartInv == ASSUME SettingsInv, Start PROVE SettingsInv'
<1>1. FileIsSaved'
  BY FileStays DEF SettingsInv, Start
<1>2. MemoryIsRight'
  BY DEF SettingsInv, Start, MemoryIsRight, NotServed, osettings
<1>3. argv' \in Seq(Flag)
  BY SettingsAssumption DEF Start
<1>4. FlagsAreRead'
  BY <1>3 DEF Start, FlagsAreRead, ModeIsOf
<1>. QED BY <1>1, <1>2, <1>4 DEF SettingsInv

LEMMA EndInv == ASSUME SettingsInv, End PROVE SettingsInv'
<1>1. FileIsSaved'
  BY FileStays DEF SettingsInv, End
<1>2. MemoryIsRight'
  BY DEF End, MemoryIsRight, NotServed
<1>3. FlagsAreRead'
  BY DEF End, FlagsAreRead
<1>. QED BY <1>1, <1>2, <1>3 DEF SettingsInv

LEMMA ParseArgInv == ASSUME SettingsInv, ParseArg PROVE SettingsInv'
<1>1. FileIsSaved'
  BY FileStays DEF SettingsInv, ParseArg
<1>2. MemoryIsRight'
  BY DEF SettingsInv, ParseArg, MemoryIsRight, NotServed, osettings
<1>3. /\ stage = "args" /\ stage' = "args" /\ argv' = argv /\ argv \in Seq(Flag)
      /\ next \in 1 .. Len(argv) /\ next' = next + 1
      /\ ModeIsOf(next - 1) /\ ~Refused(argv[next])
      /\ process_mode' = IF argv[next] \in Exclusively \cup {"R"}
                         THEN argv[next] ELSE process_mode
  BY DEF SettingsInv, ParseArg, FlagsAreRead
<1> DEFINE before == {i \in 1 .. next - 1 : argv[i] \in Exclusively \cup {"R"}}
           upto == {i \in 1 .. next : argv[i] \in Exclusively \cup {"R"}}
<1>0. PICK n \in Nat : n = next
  BY <1>3
<1>4. /\ \A i, j \in before : i < j => argv[j] = "R"
      /\ before = {} => process_mode = "server"
      /\ before # {} => \E i \in before : argv[i] = process_mode /\ \A j \in before : j <= i
  BY <1>3 DEF ModeIsOf
<1>5. ASSUME argv[next] \in Exclusively \cup {"R"}
      PROVE  ModeIsOf(n)'
  <2>1. upto = before \cup {next} /\ before \subseteq 1 .. next - 1 /\ next \in Nat
    BY <1>3, <1>5
  <2>2. argv[next] # "R" => process_mode = "server"
    BY <1>3, <1>5 DEF Refused
  <2>3. argv[next] # "R" => before = {}
    <3>1. SUFFICES ASSUME process_mode = "server", before # {} PROVE FALSE
      BY <2>2
    <3>2. PICK i \in before : argv[i] = process_mode
      BY <1>4, <3>1
    <3>. QED BY <3>1, <3>2 DEF Exclusively
  <2>4. \A i, j \in upto : i < j => argv[j] = "R"
    <3> SUFFICES ASSUME NEW i \in upto, NEW j \in upto, i < j PROVE argv[j] = "R"
      OBVIOUS
    <3>1. CASE j = next
      <4>1. i \in before
        BY <2>1, <3>1
      <4>. QED BY <2>3, <3>1, <4>1
    <3>2. CASE j # next
      <4>1. j \in before /\ i \in before
        BY <2>1, <3>2
      <4>. QED BY <1>4, <4>1
    <3>. QED BY <3>1, <3>2
  <2>5. next \in upto /\ process_mode' = argv[next] /\ \A j \in upto : j <= next
    BY <1>3, <1>5, <2>1
  <2>. HIDE DEF before
  <2>. QED BY <1>0, <1>3, <2>4, <2>5 DEF ModeIsOf
<1>6. ASSUME argv[next] \notin Exclusively \cup {"R"}
      PROVE  ModeIsOf(n)'
  <2>1. upto = before
    BY <1>3, <1>6
  <2>2. process_mode' = process_mode
    BY <1>3, <1>6
  <2>. QED BY <1>0, <1>3, <1>4, <2>1, <2>2 DEF ModeIsOf
<1>7. ModeIsOf(n)'
  BY <1>5, <1>6
<1>8. FlagsAreRead'
  <2>1. next' - 1 = n /\ next' \in 1 .. Len(argv') + 1 /\ argv' \in Seq(Flag)
    BY <1>0, <1>3
  <2>2. ModeIsOf(next - 1)'
    BY <1>7, <2>1 DEF ModeIsOf
  <2>. QED BY <1>3, <2>1, <2>2 DEF FlagsAreRead
<1>. QED BY <1>1, <1>2, <1>8 DEF SettingsInv

LEMMA EndArgsInv == ASSUME SettingsInv, EndArgs PROVE SettingsInv'
<1>1. FileIsSaved'
  BY FileStays DEF SettingsInv, EndArgs
<1>2. /\ NotServed /\ FileIsSaved /\ argv \in Seq(Flag) /\ stage = "args"
      /\ next' = 1 /\ process_mode' = process_mode /\ argv' = argv
      /\ compiled' = compiled /\ lines' = lines /\ kept' = kept
  BY DEF SettingsInv, EndArgs, MemoryIsRight, FlagsAreRead
<1>3. MemoryIsRight'
  <2>1. CASE process_mode # "server"
    BY <1>2, <2>1 DEF EndArgs, MemoryIsRight, NotServed
  <2>2. CASE process_mode = "server" /\ lines = NoFile
    <3>1. values' = Default /\ stage' = "analyse" /\ kept.upto = 0 /\ compiled' = Empty
      BY <1>2, <2>2 DEF EndArgs, FileIsSaved, NotServed
    <3>2. \A o \in Option : values'[o] = Remembered(o)'
      BY <1>2, <3>1 DEF Remembered
    <3>3. IsServed' /\ HasRestored'
      BY <1>2, <3>1, <3>2, ValuesAre, WordsAre DEF IsServed, HasRestored
    <3>. QED BY <3>1, <3>3 DEF MemoryIsRight
  <2>3. CASE process_mode = "server" /\ lines # NoFile
    <3>1. values' = Default /\ stage' = "load" /\ compiled' = Empty
      BY <1>2, <2>3 DEF EndArgs, NotServed
    <3>2. Len(lines) \in Nat
      BY <1>2, <2>3 DEF FileIsSaved
    <3>3. HasLoaded'
      BY <1>2, <2>3, <3>1, <3>2, ValuesAre DEF HasLoaded
    <3>. QED BY <1>2, <2>3, <3>1, <3>3 DEF MemoryIsRight
  <2>. QED BY <2>1, <2>2, <2>3
<1>4. FlagsAreRead'
  <2>1. next \in 1 .. Len(argv) + 1 /\ next \notin 1 .. Len(argv) /\ ModeIsOf(next - 1)
    BY DEF SettingsInv, FlagsAreRead, EndArgs
  <2>2. next - 1 = Len(argv)
    BY <1>2, <2>1
  <2>3. ModeIsOf(Len(argv))
    BY <2>1, <2>2
  <2>4. stage' \notin {"down", "args"}
    BY DEF EndArgs
  <2>. QED BY <1>2, <2>3, <2>4 DEF FlagsAreRead, ModeIsOf
<1>. QED BY <1>1, <1>3, <1>4 DEF SettingsInv

LEMMA LoadLineInv == ASSUME SettingsInv, LoadLine PROVE SettingsInv'
<1>1. FileIsSaved'
  BY FileStays DEF SettingsInv, LoadLine
<1>2. /\ HasLoaded /\ FileIsSaved /\ stage = "load" /\ next \in 1 .. Len(lines)
      /\ next' = next + 1 /\ lines # NoFile /\ process_mode = "server"
      /\ UNCHANGED <<argv, process_mode, compiled, lines, kept>>
  <2>1. stage = "load" /\ HasLoaded /\ FileIsSaved /\ process_mode = "server"
    BY DEF SettingsInv, LoadLine, MemoryIsRight
  <2>2. lines # NoFile /\ lines \in Seq([name : Names, value : Spellings])
    BY <2>1 DEF HasLoaded, FileIsSaved
  <2>3. DOMAIN lines = 1 .. Len(lines)
    BY <2>2
  <2>. QED BY <2>1, <2>2, <2>3 DEF LoadLine
<1> DEFINE name == lines[next].name
           word == lines[next].value
<1>3. Len(lines) \in Nat /\ kept.values \in Values
  BY <1>2 DEF FileIsSaved
<1>4. name \in Option => word = kept.values[name] /\ Read(name, word) \in Words[name]
  BY <1>2, <1>3, ValuesAre, WordsAre DEF FileIsSaved
<1>5. /\ stage' = stage
      /\ values' = IF name \in Option THEN [values EXCEPT ![name] = Read(name, word)]
                   ELSE values
  BY <1>4 DEF LoadLine, Read
<1>6. values' \in Values
  BY <1>2, <1>4, <1>5, ValuesAre DEF HasLoaded
<1>7. ASSUME NEW o \in Option
      PROVE  values'[o] = IF \E k \in 1 .. next : lines[k].name = o
                          THEN Read(o, kept.values[o]) ELSE Default[o]
  <2>1. values \in [Option -> UNION {Words[p] : p \in Option}]
    BY <1>2, ValuesAre DEF HasLoaded
  <2>2. CASE o = name
    BY <1>2, <1>4, <1>5, <2>1, <2>2
  <2>3. CASE o # name
    <3>1. values'[o] = values[o]
      BY <1>5, <2>1, <2>3
    <3>2. (\E k \in 1 .. next : lines[k].name = o)
             <=> (\E k \in 1 .. next - 1 : lines[k].name = o)
      BY <1>2, <2>3
    <3>. QED BY <1>2, <3>1, <3>2 DEF HasLoaded
  <2>. QED BY <2>2, <2>3
<1>8. next' \in 1 .. Len(lines) + 1 /\ next' - 1 = next
  BY <1>2, <1>3
<1>9. HasLoaded'
  <2>1. \A o \in Option :
           values'[o] = IF \E k \in 1 .. next' - 1 : lines'[k].name = o
                        THEN Read(o, kept'.values[o]) ELSE Default[o]
    BY <1>2, <1>7, <1>8
  <2>. QED BY <1>2, <1>6, <1>8, <2>1 DEF HasLoaded
<1>10. MemoryIsRight'
  BY <1>2, <1>5, <1>9 DEF MemoryIsRight
<1>11. FlagsAreRead'
  BY <1>2, <1>3, <1>5, FlagsStay DEF SettingsInv
<1>. QED BY <1>1, <1>10, <1>11 DEF SettingsInv

LEMMA EndLoadInv == ASSUME SettingsInv, EndLoad PROVE SettingsInv'
<1>1. FileIsSaved'
  BY FileStays DEF SettingsInv, EndLoad
<1>2. /\ HasLoaded /\ FileIsSaved /\ stage = "load" /\ process_mode = "server"
      /\ stage' = "analyse" /\ next' = 1 /\ lines # NoFile
      /\ next \in 1 .. Len(lines) + 1 /\ next \notin 1 .. Len(lines)
      /\ UNCHANGED <<argv, process_mode, lines, kept>>
      /\ values' = [values EXCEPT ![ReOption] = IF @ \in RE THEN @ ELSE Empty]
      /\ compiled' = Compile(values[ReOption])
  BY DEF SettingsInv, EndLoad, MemoryIsRight, HasLoaded, FileIsSaved
<1>3. next - 1 = Len(lines) /\ kept.values \in Values
  <2>1. Len(lines) \in Nat /\ kept.values \in Values
    BY <1>2 DEF FileIsSaved
  <2>. QED BY <1>2, <2>1
<1>4. \A o \in Option : (\E k \in 1 .. Len(lines) : lines[k].name = o) <=> IsKept(o)
  <2> SUFFICES ASSUME NEW o \in Option
               PROVE  (\E k \in 1 .. Len(lines) : lines[k].name = o) <=> IsKept(o)
    OBVIOUS
  <2>1. ASSUME NEW k \in 1 .. Len(lines), lines[k].name = o PROVE IsKept(o)
    BY <1>2, <2>1 DEF FileIsSaved
  <2>2. ASSUME IsKept(o) PROVE \E k \in 1 .. Len(lines) : lines[k].name = o
    BY <1>2, <2>2 DEF FileIsSaved, IsKept
  <2>. QED BY <2>1, <2>2
<1>5. \A o \in Option : values[o] = IF IsKept(o) THEN Read(o, kept.values[o]) ELSE Default[o]
  BY <1>2, <1>3, <1>4 DEF HasLoaded
<1>6. values \in [Option -> UNION {Words[p] : p \in Option}]
  BY <1>2, ValuesAre DEF HasLoaded
<1>7. values' \in Values
  BY <1>2, WordsAre, ValuesAre DEF HasLoaded
<1>8. ASSUME NEW o \in Option PROVE values'[o] = Remembered(o)
  <2>1. Remembered(o) = IF IsKept(o)
                        THEN IF o = ReOption /\ Read(o, kept.values[o]) \notin RE
                             THEN Empty ELSE Read(o, kept.values[o])
                        ELSE Default[o]
    BY DEF Remembered, IsKept, Read
  <2>2. CASE o # ReOption
    BY <1>2, <1>5, <1>6, <2>1, <2>2
  <2>3. CASE o = ReOption
    <3>1. values'[o] = IF values[o] \in RE THEN values[o] ELSE Empty
      BY <1>2, <1>6, <2>3
    <3>2. CASE IsKept(o)
      BY <1>5, <2>1, <2>3, <3>1, <3>2
    <3>3. CASE ~IsKept(o)
      BY <1>5, <2>1, <2>3, <3>1, <3>3, WordsAre
    <3>. QED BY <3>2, <3>3
  <2>. QED BY <2>2, <2>3
<1>9. /\ compiled' = values'[ReOption] /\ values'[ReOption] # BadRE
      /\ compiled' \in RE \cup {Empty}
  BY <1>2, <1>6, WordsAre DEF Compile, HasLoaded
<1>10. Remembered(ReOption)' = Remembered(ReOption)
       /\ \A o \in Option : Remembered(o)' = Remembered(o)
  BY <1>2 DEF Remembered
<1>11. IsServed' /\ HasRestored'
  BY <1>7, <1>8, <1>9, <1>10 DEF IsServed, HasRestored
<1>12. MemoryIsRight'
  BY <1>2, <1>11 DEF MemoryIsRight
<1>13. FlagsAreRead'
  BY <1>2, FlagsStay DEF SettingsInv
<1>. QED BY <1>1, <1>12, <1>13 DEF SettingsInv

LEMMA AnalyseInv == ASSUME SettingsInv, Analyse PROVE SettingsInv'
<1>1. FileIsSaved'
  BY FileStays DEF SettingsInv, Analyse
<1>2. MemoryIsRight'
  BY DEF SettingsInv, Analyse, MemoryIsRight, IsServed, osettings
<1>3. next \in Nat \ {0}
  BY DEF SettingsInv, FlagsAreRead
<1>4. FlagsAreRead'
  BY <1>3, FlagsStay DEF SettingsInv, Analyse
<1>. QED BY <1>1, <1>2, <1>4 DEF SettingsInv

\* The page of options gives each a value it may hold.
LEMMA SetHolds ==
    ASSUME values \in Values, NEW form \in Forms, NEW o \in Option
    PROVE  Set(o, form[o]) \in Words[o]
<1>1. /\ Kind[o] \in Kinds
      /\ Kind[o] = "bool" => Words[o] = {Off, On}
      /\ Kind[o] = "selection" => form[o] \in Words[o] \cup {Absent}
      /\ Kind[o] = "text" => form[o] \in Words[o]
  BY SettingsAssumption
<1>2. values[o] \in Words[o]
  BY ValuesAre
<1>. QED BY <1>1, <1>2 DEF Set, Kinds

LEMMA SubmitOptionsInv ==
    ASSUME SettingsInv, NEW form \in Forms, SubmitOptions(form) PROVE SettingsInv'
<1>1. FileIsSaved'
  BY FileStays DEF SettingsInv, SubmitOptions
<1>2. /\ IsServed /\ stage = "serve" /\ stage' = "serve" /\ process_mode = "server"
      /\ UNCHANGED <<argv, next, process_mode>>
      /\ values' = [o \in Option |-> Set(o, form[o])]
      /\ compiled' = Compile(values'[ReOption])
  BY DEF SettingsInv, SubmitOptions, MemoryIsRight
<1>3. \A o \in Option : Set(o, form[o]) \in Words[o]
  BY <1>2, SetHolds DEF IsServed
<1>4. values' \in Values
  <2>1. ASSUME NEW o \in Option PROVE Set(o, form[o]) \in UNION {Words[p] : p \in Option}
    BY <1>3
  <2>2. values' \in [Option -> UNION {Words[p] : p \in Option}]
    BY <1>2, <2>1
  <2>. QED BY <1>2, <1>3, <2>2 DEF Values
<1>5. IsServed'
  BY <1>2, <1>4 DEF IsServed, Compile
<1>6. MemoryIsRight'
  BY <1>2, <1>5 DEF MemoryIsRight
<1>7. next \in Nat \ {0}
  BY DEF SettingsInv, FlagsAreRead
<1>8. FlagsAreRead'
  BY <1>2, <1>7, FlagsStay DEF SettingsInv
<1>. QED BY <1>1, <1>6, <1>8 DEF SettingsInv

LEMMA SaveOptionsInv == ASSUME SettingsInv, SaveOptions PROVE SettingsInv'
<1>1. /\ IsServed /\ stage = "serve" /\ stage' = "save" /\ process_mode = "server"
      /\ next' = 1 /\ lines' = <<>> /\ kept' = [values |-> values, upto |-> 0]
      /\ UNCHANGED <<argv, process_mode, values, compiled>>
  BY DEF SettingsInv, SaveOptions, MemoryIsRight, osettings
<1>2. lines' \in Seq([name : Names, value : Spellings]) /\ Len(lines') = 0
  BY <1>1
<1>3. lines' # NoFile
  BY <1>2, SettingsAssumption
<1>4. kept' \in [values : Values, upto : 0 .. Len(Pool)] /\ kept'.upto = 0
      /\ kept'.values = values
  BY <1>1, PoolIs DEF IsServed
<1>5. FileIsSaved'
  BY <1>2, <1>4 DEF FileIsSaved
<1>6. IsSaving'
  BY <1>1, <1>3, <1>4, PoolIs DEF IsSaving
<1>7. MemoryIsRight'
  BY <1>1, <1>6 DEF MemoryIsRight, IsServed
<1>8. FlagsAreRead'
  BY <1>1, FlagsStay DEF SettingsInv
<1>. QED BY <1>5, <1>7, <1>8 DEF SettingsInv

LEMMA SaveLineInv == ASSUME SettingsInv, SaveLine PROVE SettingsInv'
<1> DEFINE L == [name : Names, value : Spellings]
           new == Line(Pool[next], values)
           n == Len(lines)
<1>1. /\ IsServed /\ IsSaving /\ FileIsSaved /\ stage = "save" /\ stage' = "save"
      /\ process_mode = "server" /\ next \in 1 .. Len(Pool)
      /\ lines' = Append(lines, new) /\ kept' = [kept EXCEPT !.upto = next]
      /\ next' = next + 1
      /\ UNCHANGED <<argv, process_mode, values, compiled>>
  BY PoolIs DEF SettingsInv, SaveLine, MemoryIsRight, osettings
<1>2. /\ lines \in Seq(L) /\ kept.values = values /\ kept.upto = next - 1
      /\ kept \in [values : Values, upto : 0 .. Len(Pool)]
  BY <1>1 DEF IsSaving, FileIsSaved
<1>3. kept'.values = values /\ kept'.upto = next
      /\ kept' \in [values : Values, upto : 0 .. Len(Pool)]
  <2>1. next \in 0 .. Len(Pool)
    BY <1>1, PoolIs
  <2>. QED BY <1>1, <1>2, <2>1
<1>4. Pool[next] \in Option /\ new.name = Pool[next] /\ new.value = values[Pool[next]]
  BY <1>1, PoolIs DEF Line
<1>5. new \in L
  <2>1. values[Pool[next]] \in Words[Pool[next]]
    BY <1>1, <1>4, ValuesAre DEF IsServed
  <2>2. Pool[next] \in Names /\ values[Pool[next]] \in Spellings
    BY <1>4, <2>1 DEF Names, Spellings
  <2>. QED BY <2>2 DEF Line
<1>. HIDE DEF new, L
<1>6. /\ lines' \in Seq(L) /\ Len(lines') = n + 1 /\ n \in Nat
      /\ \A k \in 1 .. n : lines'[k] = lines[k]
      /\ lines'[n + 1] = new
  BY <1>1, <1>2, <1>5
<1>7. ASSUME NEW k \in 1 .. Len(lines'), lines'[k].name \in Option
      PROVE  /\ \E i \in 1 .. kept'.upto : Pool[i] = lines'[k].name
             /\ lines'[k].value = values[lines'[k].name]
  <2>1. CASE k \in 1 .. n
    <3>1. IsKept(lines[k].name) /\ lines[k].value = values[lines[k].name]
      BY <1>1, <1>2, <1>6, <1>7, <2>1 DEF FileIsSaved, IsSaving
    <3>2. PICK i \in 1 .. kept.upto : Pool[i] = lines[k].name
      BY <3>1 DEF IsKept
    <3>3. i \in 1 .. kept'.upto
      BY <1>1, <1>2, <1>3
    <3>. QED BY <1>6, <2>1, <3>1, <3>2, <3>3
  <2>2. CASE k = n + 1
    <3>1. next \in 1 .. kept'.upto
      BY <1>1, <1>3
    <3>2. lines'[k] = new
      BY <1>6, <2>2
    <3>. QED BY <1>4, <3>1, <3>2
  <2>. QED BY <1>6, <2>1, <2>2
<1>8. ASSUME NEW i \in 1 .. kept'.upto
      PROVE  \E k \in 1 .. Len(lines') : lines'[k].name = Pool[i]
  <2>1. CASE i = next
    BY <1>4, <1>6, <2>1
  <2>2. CASE i # next
    <3>1. i \in 1 .. kept.upto
      BY <1>1, <1>2, <1>3, <2>2
    <3>2. PICK k \in 1 .. n : lines[k].name = Pool[i]
      BY <1>1, <3>1 DEF FileIsSaved, IsSaving
    <3>3. k \in 1 .. Len(lines') /\ lines'[k] = lines[k]
      BY <1>6
    <3>. QED BY <3>2, <3>3
  <2>. QED BY <2>1, <2>2
<1>9. lines' # NoFile
  BY <1>6, SettingsAssumption DEF L
<1>10. FileIsSaved'
  <2>1. \A k \in 1 .. Len(lines') :
           lines'[k].name \in Option =>
               /\ \E i \in 1 .. kept'.upto : Pool[i] = lines'[k].name
               /\ lines'[k].value = kept'.values[lines'[k].name]
    BY <1>3, <1>7
  <2>. QED BY <1>3, <1>6, <1>8, <1>9, <2>1 DEF FileIsSaved, IsKept, L
<1>11. IsSaving'
  <2>1. next' \in 1 .. Len(Pool) + 1 /\ next' - 1 = next
    BY <1>1, PoolIs
  <2>. QED BY <1>1, <1>3, <1>9, <2>1 DEF IsSaving
<1>12. MemoryIsRight'
  BY <1>1, <1>11 DEF MemoryIsRight, IsServed
<1>13. FlagsAreRead'
  <2>1. next' \in Nat \ {0}
    BY <1>1
  <2>. QED BY <1>1, <2>1, FlagsStay DEF SettingsInv
<1>. QED BY <1>10, <1>12, <1>13 DEF SettingsInv

LEMMA EndSaveOptionsInv == ASSUME SettingsInv, EndSaveOptions PROVE SettingsInv'
<1>1. FileIsSaved'
  BY FileStays DEF SettingsInv, EndSaveOptions
<1>2. MemoryIsRight'
  BY DEF SettingsInv, EndSaveOptions, MemoryIsRight, IsServed, osettings
<1>3. FlagsAreRead'
  BY FlagsStay DEF SettingsInv, EndSaveOptions
<1>. QED BY <1>1, <1>2, <1>3 DEF SettingsInv

LEMMA SettingsStutter == ASSUME SettingsInv, UNCHANGED svars PROVE SettingsInv'
<1>1. UNCHANGED <<stage, argv, next, process_mode, values, compiled, lines, kept>>
  BY DEF svars
<1>2. FileIsSaved'
  BY <1>1, FileStays DEF SettingsInv
<1>3. FlagsAreRead'
  BY <1>1 DEF SettingsInv, FlagsAreRead, ModeIsOf
<1>4. \A o \in Option : Remembered(o)' = Remembered(o)
  BY <1>1 DEF Remembered
<1>5. HasRestored => HasRestored'
  BY <1>1, <1>4 DEF HasRestored
<1>6. MemoryIsRight'
  BY <1>1, <1>5 DEF SettingsInv, MemoryIsRight, NotServed, HasLoaded, IsServed, IsSaving
<1>. QED BY <1>2, <1>3, <1>6 DEF SettingsInv

LEMMA SettingsInvHolds == SettingsSpec => []SettingsInv
<1>1. ASSUME SettingsInv, [SettingsNext]_svars PROVE SettingsInv'
  BY <1>1, StartInv, ParseArgInv, EndArgsInv, LoadLineInv, EndLoadInv, AnalyseInv,
     SubmitOptionsInv, SaveOptionsInv, SaveLineInv, EndSaveOptionsInv, EndInv,
     SettingsStutter DEF SettingsNext
<1>. QED BY <1>1, SettingsInitInv, PTL DEF SettingsSpec

\* What the form shows and sends back unchanged is what the options are.
LEMMA FormGivesValues ==
    ASSUME values \in Values, NEW o \in Option PROVE Set(o, Shown(o)) = values[o]
<1>1. /\ Kind[o] \in Kinds
      /\ Kind[o] = "bool" => Words[o] = {Off, On}
      /\ Absent \notin Words[o] /\ values[o] \in Words[o]
  BY SettingsAssumption, ValuesAre
<1>. QED BY <1>1 DEF Set, Shown, Kinds

\* However processes follow each other and wherever they end, each reads the
\* options that the last one saved, as far as it came, its rule for the names of
\* saved files is the one it shows, the form of options shows what they are, and
\* the mode is the one that was asked for.
THEOREM SettingsAreRight == SettingsSpec => []SettingsRight
<1>1. SettingsInv => SettingsRight
  <2> SUFFICES ASSUME SettingsInv PROVE SettingsRight
    OBVIOUS
  <2>1. Restored
    BY DEF SettingsInv, MemoryIsRight, HasRestored, Restored
  <2>2. Served => IsServed
    BY DEF SettingsInv, MemoryIsRight, Served
  <2>3. RuleAgrees
    BY <2>2 DEF SettingsInv, MemoryIsRight, HasRestored, RuleAgrees, IsServed, Served
  <2>4. FormFaithful
    BY <2>2, FormGivesValues DEF FormFaithful, IsServed
  <2>5. ModeIsAsked
    <3>1. DOMAIN argv = 1 .. Len(argv)
      BY DEF SettingsInv, FlagsAreRead
    <3>. QED BY <3>1 DEF SettingsInv, FlagsAreRead, ModeIsOf, ModeIsAsked
  <2>. QED BY <2>1, <2>3, <2>4, <2>5 DEF SettingsRight
<1>. QED BY <1>1, SettingsInvHolds, PTL

=============================================================================

---------------------------- MODULE Conditionals ----------------------------
(***************************************************************************)
(* Conditional inclusion: process_if, process_ifdef, process_elif,         *)
(* process_else and process_endif of pdtoken.cpp, the end of file in       *)
(* getnext_expand, and the #pragma process that starts the next            *)
(* compilation unit.                                                       *)
(*                                                                         *)
(* The code keeps one stack of bits, iftaken, and one counter, skiplevel:  *)
(* a conditional that opens inside a skipped group is only counted.  What  *)
(* the C standard asks for is kept next to them in groups, one record for  *)
(* every open conditional, and the properties relate the two.              *)
(***************************************************************************)
EXTENDS Integers, Sequences

CONSTANTS
    MaxDepth,           \* bound on the conditionals open at a time
    MaxUnits            \* bound on the #pragma process directives

ASSUME ConditionalsAssumption == MaxDepth \in Nat /\ MaxUnits \in Nat

VARIABLES
    iftaken,    \* Pdtoken::iftaken
    skiplevel,  \* Pdtoken::skiplevel
    unit,       \* whether a compilation unit is being processed
    units,      \* #pragma process directives read
    ignored,    \* those of them that were not carried out
    groups      \* C's view: [on, taken, last] of each open conditional

code == <<iftaken, skiplevel>>
progress == <<unit, units, ignored>>
vars == <<code, progress, groups>>

Group == [on : BOOLEAN, taken : BOOLEAN, last : BOOLEAN]

TypeOK ==
    /\ iftaken \in Seq(BOOLEAN)
    /\ skiplevel \in Nat
    /\ unit \in BOOLEAN
    /\ units \in Nat
    /\ ignored \in Nat
    /\ groups \in Seq(Group)

Init ==
    /\ iftaken = <<>> /\ skiplevel = 0
    /\ unit = FALSE /\ units = 0 /\ ignored = 0
    /\ groups = <<>>

\* The last element of a stack, and the stack with another one in its place
\* or without it.
Top(s) == s[Len(s)]
Retop(s, v) == [s EXCEPT ![Len(s)] = v]
Pop(s) == SubSeq(s, 1, Len(s) - 1)

-----------------------------------------------------------------------------
(* C 6.10.1: a group is processed if the group around it is, its condition *)
(* holds and none of the groups before it was.                             *)

Processing == \A i \in 1 .. Len(groups) : groups[i].on

OpenGroup(res) ==
    groups' = Append(groups, [on |-> Processing /\ res,
                              taken |-> ~Processing \/ res, last |-> FALSE])

NextGroup(res, last) ==
    groups' = IF groups = <<>> THEN <<>>
              ELSE Retop(groups, [on |-> ~Top(groups).taken /\ res,
                                  taken |-> Top(groups).taken \/ res,
                                  last |-> last])

CloseGroup == groups' = IF groups = <<>> THEN <<>> ELSE Pop(groups)

\* There is an #else or #elif here in a program C allows; CScout does not
\* tell when one follows the #else of the same conditional.
MayContinue == groups # <<>> => ~Top(groups).last

-----------------------------------------------------------------------------
(* The directives                                                          *)

\* process_if and process_ifdef; res is the outcome of eval or of the lookup,
\* neither of which happens while skipping.
If(res) ==
    /\ unit /\ Len(groups) < MaxDepth
    /\ IF skiplevel # 0
       THEN skiplevel' = skiplevel + 1 /\ UNCHANGED iftaken
       ELSE /\ iftaken' = Append(iftaken, res)
            /\ skiplevel' = IF res THEN 0 ELSE 1
    /\ OpenGroup(res)
    /\ UNCHANGED progress

\* process_elif
Elif(res) ==
    /\ unit /\ MayContinue
    /\ IF iftaken = <<>> \/ skiplevel > 1
       THEN UNCHANGED code
       ELSE IF Top(iftaken)
       THEN skiplevel' = 1 /\ UNCHANGED iftaken
       ELSE /\ iftaken' = Append(Pop(iftaken), res)
            /\ skiplevel' = IF res THEN 0 ELSE 1
    /\ NextGroup(res, FALSE)
    /\ UNCHANGED progress

ElseFaulty ==                           \* also ends a skip it is nested in
    /\ unit /\ MayContinue
    /\ IF iftaken = <<>>
       THEN UNCHANGED code
       ELSE /\ skiplevel' = IF Top(iftaken) THEN 1 ELSE 0
            /\ UNCHANGED iftaken
    /\ NextGroup(TRUE, TRUE)
    /\ UNCHANGED progress

\* process_else
Else ==
    /\ unit /\ MayContinue
    /\ IF iftaken = <<>> \/ skiplevel > 1
       THEN UNCHANGED code
       ELSE /\ skiplevel' = IF Top(iftaken) THEN 1 ELSE 0
            /\ UNCHANGED iftaken
    /\ NextGroup(TRUE, TRUE)
    /\ UNCHANGED progress

\* process_endif
Endif ==
    /\ unit
    /\ IF iftaken = <<>>
       THEN UNCHANGED code
       ELSE /\ iftaken' = IF skiplevel <= 1 THEN Pop(iftaken) ELSE iftaken
            /\ skiplevel' = IF skiplevel >= 1 THEN skiplevel - 1 ELSE skiplevel
    /\ CloseGroup
    /\ UNCHANGED progress

-----------------------------------------------------------------------------
(* Compilation units                                                       *)

\* The end of a unit outside skipped groups; conditionals that are still open
\* are reported and closed.
EndOfUnit ==
    /\ unit /\ skiplevel = 0
    /\ unit' = FALSE
    /\ iftaken' = <<>>
    /\ groups' = <<>>
    /\ UNCHANGED <<skiplevel, units, ignored>>

\* The end of a unit inside a skipped group: reported, and nothing else.
EndOfUnitSkipping ==
    /\ unit /\ skiplevel # 0
    /\ unit' = FALSE
    /\ groups' = <<>>
    /\ UNCHANGED <<code, units, ignored>>

ProcessFaulty ==                        \* does not ask whether it skips
    /\ ~unit /\ units < MaxUnits
    /\ units' = units + 1
    /\ unit' = TRUE
    /\ UNCHANGED <<ignored, code, groups>>

\* #pragma process in the workspace definition file: process_pragma returns
\* at once while skipping.
Process ==
    /\ ~unit /\ units < MaxUnits
    /\ units' = units + 1
    /\ IF skiplevel >= 1
       THEN ignored' = ignored + 1 /\ UNCHANGED unit
       ELSE unit' = TRUE /\ UNCHANGED ignored
    /\ UNCHANGED <<code, groups>>

Next ==
    \/ \E res \in BOOLEAN : If(res)
    \/ \E res \in BOOLEAN : Elif(res)
    \/ Else
    \/ Endif
    \/ EndOfUnit
    \/ EndOfUnitSkipping
    \/ Process

Spec == Init /\ [][Next]_vars

-----------------------------------------------------------------------------
(* Properties                                                              *)

\* Text is processed exactly when C says so.
SkipsWhatCSkips == skiplevel = 0 <=> Processing

\* "Skiplevel ... >= 1 skipping where value is the number of enclosing #if
\* blocks": those from the outermost one that is not processed inwards.
SkipLevelCounts ==
    skiplevel > 0 =>
        LET outer == Len(groups) - skiplevel + 1
        IN  /\ outer \in 1 .. Len(groups)
            /\ ~groups[outer].on
            /\ \A i \in 1 .. outer - 1 : groups[i].on

\* "Taken #ifs": there is one bit for every conditional that is open outside
\* the skipped group and for the one being skipped, and before its #else it
\* says whether a group of that conditional was processed.
TakenIfs ==
    /\ Len(iftaken) = Len(groups) - (IF skiplevel > 0 THEN skiplevel - 1 ELSE 0)
    /\ \A i \in 1 .. Len(iftaken) :
          groups[i].last \/ iftaken[i] = groups[i].taken

\* Of every unit CScout analyses what C compiles, for any nesting of
\* conditionals, any outcome of their conditions, and whatever the units
\* before it left in iftaken and skiplevel.
Faithful == unit => SkipsWhatCSkips

\* The counter and the stack keep to their comments in every unit: the
\* counter never counts a conditional of a unit that is over.
BitsAndCounter == unit => SkipLevelCounts /\ TakenIfs

\* "Will analyze the C source file": every unit of the workspace is processed.
NoUnitIgnored == ignored = 0

\* The strengthening of these that every step preserves.  In a unit, the
\* conditionals around the innermost one that has a bit are processed, that
\* one is unless text is skipped, and those that are only counted are not.
OuterOn == \A i \in 1 .. Len(iftaken) - 1 : groups[i].on
InnerOn == Len(iftaken) > 0 => (groups[Len(iftaken)].on <=> skiplevel = 0)
CountedOff ==
    \A i \in Len(iftaken) + 1 .. Len(groups) : ~groups[i].on /\ groups[i].taken
OnIsTaken == \A i \in 1 .. Len(groups) : groups[i].on => groups[i].taken

Agree ==
    /\ TypeOK /\ TakenIfs /\ OuterOn /\ InnerOn /\ CountedOff /\ OnIsTaken
    /\ skiplevel > 0 => Len(iftaken) > 0

\* Between units either nothing is left of the one before or text is skipped,
\* so that the next unit never starts with conditionals of another.
Between == ~unit => groups = <<>> /\ (skiplevel = 0 => iftaken = <<>>)

AlwaysAgree == TypeOK /\ (unit => Agree) /\ Between

=============================================================================

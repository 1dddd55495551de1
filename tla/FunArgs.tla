------------------------------ MODULE FunArgs ------------------------------
(***************************************************************************)
(* Refactoring of function arguments: the pages of cscout.cpp that keep a  *)
(* template for a function, and the two passes of engine.cpp over a file   *)
(* that is saved: one finds where the arguments of the calls are, the      *)
(* other copies the file and replaces them.                                *)
(*                                                                         *)
(* A file is a sequence of characters: "f", "g", "h" are letters of names, *)
(* and the class of a letter is the letter; " " is a blank and "nl" a new  *)
(* line; "c" stands for a comment, "=" for an operator whose end is known  *)
(* from the next character only, and ";" for any other character.  A       *)
(* template is a sequence of characters too; what its user means by it is  *)
(* a tree of text, @N, @.N, @+N{...} and @-N{...}.                         *)
(***************************************************************************)
EXTENDS Integers, Sequences, FiniteSets, SequencesExt, FiniteSetsExt, Functions

CONSTANT
    Project     \* workspaces and what their users ask: ProjectOK

Letter == {"f", "g", "h"}
Space == {" ", "nl"}                \* isspace of a character
Number == {"0", "1", "2"}

ProjectOK(p) ==
    /\ \A i \in DOMAIN p.text : Last(p.text[i]) = "nl"      \* the files
    /\ p.renamed \subseteq Letter      \* names with an active replacement
    /\ p.offered \subseteq Letter      \* functions that can be refactored
    /\ p.entered \subseteq Seq(STRING)     \* typed on the page of a function
    /\ p.edited \subseteq Seq(STRING)      \* or on that of all refactorings
    /\ p.requests \in Nat              \* bound: requests of the session

ASSUME ProjectAssumption == \A p \in Project : ProjectOK(p)

NoWrite == [file |-> 0, text |-> << >>]
NoScan == [at |-> 1, ps |-> 0, call |-> 0, fc |-> 0, abv |-> << >>,
           start |-> 0, bracket |-> 0]

VARIABLES
    project,    \* the workspace
    isspace,    \* isspace(SPACE); undefined, as SPACE is not a character
    store,      \* RefFunCall::store
    argbounds,  \* argbounds_map
    mode,       \* where write_quit_page is
    todo,       \* process: the files still to be saved, in their order
    scan,       \* input and variables of establish_argument_boundaries
    written,    \* the last file written and its text
    pages       \* number of requests

vars == <<project, isspace, store, argbounds, mode, todo, scan, written, pages>>

Init ==
    /\ project \in Project
    /\ isspace \in BOOLEAN
    /\ store = << >>
    /\ argbounds = << >>
    /\ mode = "idle"
    /\ todo = << >>
    /\ scan = NoScan
    /\ written = NoWrite
    /\ pages = 0

-----------------------------------------------------------------------------
(* Templates                                                               *)

CharAt(s, p) == IF p \in DOMAIN s THEN s[p] ELSE "end"

\* The first position from p on, inside s, where s has no character of S
Beyond(s, p, S) ==
    CHOOSE k \in p .. Len(s) + 1 :
        CharAt(s, k) \notin S /\ \A j \in p .. k - 1 : s[j] \in S

Value(digits) ==
    FoldLeft(LAMBDA v, d : 10 * v + (CASE d = "0" -> 0 [] d = "1" -> 1 [] OTHER -> 2),
             0, digits)

\* Fault: braces do not nest.
ClosingsFaulty(s, p) == {k \in p .. Len(s) : s[k] = "}"}

\* Where braces that open at p are closed
Closings(s, p) ==
    LET In(b, k) == Cardinality({j \in p .. k : s[j] = b})
    IN  {k \in p .. Len(s) : In("{", k) = In("}", k)}

\* The operator at the beginning of s: whether it is right, its modifier and
\* number, the text in its braces and the text after it.  The number may
\* have blanks and a sign before it, as sscanf allows.
Operator(s) ==
    LET mod == IF CharAt(s, 2) \in {".", "+", "-"} THEN s[2] ELSE "="
        sign == Beyond(s, IF mod = "=" THEN 2 ELSE 3, Space)
        digit == IF CharAt(s, sign) \in {"+", "-"} THEN sign + 1 ELSE sign
        end == Beyond(s, digit, Number)
        val == IF CharAt(s, sign) = "-" THEN 0 ELSE Value(SubSeq(s, digit, end - 1))
        closings == Closings(s, end)
    IN  IF mod \in {"+", "-"}
          THEN IF val > 0 /\ CharAt(s, end) = "{" /\ closings # {}
                 THEN LET close == Min(closings)
                      IN  [ok |-> TRUE, mod |-> mod, n |-> val,
                           braced |-> SubSeq(s, end + 1, close - 1),
                           rest |-> SubSeq(s, close + 1, Len(s))]
                 ELSE [ok |-> FALSE]
          ELSE [ok |-> val > 0, mod |-> mod, n |-> val, braced |-> << >>,
                rest |-> SubSeq(s, end, Len(s))]

RECURSIVE Valid(_)
Valid(s) ==
    IF "@" \notin Range(s) THEN TRUE
    ELSE IF s[1] # "@" THEN Valid(Tail(s))
    ELSE LET o == Operator(s) IN o.ok /\ Valid(o.braced) /\ Valid(o.rest)

ltrim(s) == SubSeq(s, Beyond(s, 1, Space), Len(s))

Pasted(args, n) == IF n <= Len(args) THEN ltrim(args[n]) ELSE << >>

\* function_argument_replace; "abort" is its failed assertion.
RECURSIVE Replaced(_, _)
Replaced(s, args) ==
    IF s = << >> THEN << >>
    ELSE IF s[1] # "@" THEN <<s[1]>> \o Replaced(Tail(s), args)
    ELSE LET o == Operator(s)
         IN  IF ~o.ok THEN <<"abort">>
             ELSE (CASE o.mod = "." ->
                          Pasted(args, o.n)
                            \o FlattenSeq([k \in 1 .. Len(args) - o.n |->
                                   <<",", " ">> \o ltrim(args[o.n + k])])
                     [] o.mod = "+" ->
                          IF o.n <= Len(args) THEN Replaced(o.braced, args) ELSE << >>
                     [] o.mod = "-" ->
                          IF o.n > Len(args) THEN Replaced(o.braced, args) ELSE << >>
                     [] o.mod = "=" -> Pasted(args, o.n))
                  \o Replaced(o.rest, args)

\* The page of function f has a template only where the function can be
\* refactored; the first template of a function is the one that stays.
FunctionPage(f, s) ==
    /\ mode = "idle" /\ pages < project.requests
    /\ f \in project.offered
    /\ Valid(s)
    /\ store' = store @@ [x \in {f} |-> [repl |-> s, active |-> TRUE]]
    /\ pages' = pages + 1
    /\ UNCHANGED <<project, isspace, argbounds, mode, todo, scan, written>>

\* xfunargrefs_page, where every field of the form may have been changed
FunArgRefsPage(repl, active) ==
    /\ mode = "idle" /\ pages < project.requests
    /\ store' = [f \in DOMAIN store |-> [repl |-> repl[f], active |-> f \in active]]
    /\ pages' = pages + 1
    /\ UNCHANGED <<project, isspace, argbounds, mode, todo, scan, written>>

-----------------------------------------------------------------------------
(* Saving                                                                  *)

Active == {f \in DOMAIN store : store[f].active}

\* sorted_files of the classes of replaced names and of refactored functions
Files(classes) ==
    {i \in DOMAIN project.text : classes \cap Range(project.text[i]) # {}}

File == Head(todo)
Text == project.text[File]

NextFile ==
    /\ todo' = Tail(todo)
    /\ mode' = IF Len(todo) = 1 THEN "idle" ELSE "file"

Save ==
    /\ mode = "idle" /\ pages < project.requests
    /\ pages' = pages + 1
    /\ todo' = SetToSortSeq(Files(project.renamed \cup Active), <)
    /\ mode' = IF todo' = << >> THEN "idle" ELSE "file"
    /\ UNCHANGED <<project, isspace, store, argbounds, scan, written>>

FileRefactor ==
    /\ mode = "file"
    /\ mode' = IF DOMAIN store = {} THEN "open" ELSE "top"
    /\ scan' = NoScan
    /\ UNCHANGED <<project, isspace, store, argbounds, todo, written, pages>>

\* Opening the file or the one to write to fails; so nothing is cleared.
OpenFails ==
    /\ mode = "open"
    /\ NextFile
    /\ UNCHANGED <<project, isspace, store, argbounds, scan, written, pages>>

OpenWorks ==
    /\ mode = "open"
    /\ mode' = "copy"
    /\ UNCHANGED <<project, isspace, store, argbounds, todo, scan, written, pages>>

-----------------------------------------------------------------------------
(* The boundaries of arguments                                             *)

\* The next token: where it begins and its length, the character put back
\* that it leaves in ps and where the file is then.  A restored position
\* does not empty ps.
Token ==
    LET first == IF scan.ps # 0 THEN scan.ps ELSE scan.at
        next == IF scan.ps # 0 THEN scan.at ELSE scan.at + 1
        more == CASE CharAt(Text, first) \in Letter -> Letter
                  [] CharAt(Text, first) = " " -> {" "}
                  [] OTHER -> {}
        end == Beyond(Text, next, more)
    IN  IF CharAt(Text, first) \in Letter \cup {" ", "="}
          THEN [first |-> first, char |-> CharAt(Text, first), len |-> 1 + end - next,
                ps |-> end, at |-> end + 1]
          ELSE [first |-> first, char |-> CharAt(Text, first), len |-> 1,
                ps |-> 0, at |-> next]

IsSpace(char) == char = "nl" \/ (char \in {" ", "c"} /\ isspace)

Past(t) == [scan EXCEPT !.at = t.at, !.ps = t.ps]

\* Fault: the position of the name is restored.
RestoredFaulty(t) == [Past(t) EXCEPT !.at = scan.call, !.ps = 0]

\* set_context: the position is that after the lookahead of the name
Restored(t) == [Past(t) EXCEPT !.at = scan.fc]

ScanUnchanged == UNCHANGED <<project, isspace, store, todo, written, pages>>

ScanTop ==
    /\ mode = "top"
    /\ LET t == Token
       IN  IF t.char = "end"
             THEN mode' = "open" /\ UNCHANGED scan
           ELSE IF t.char \in Active /\ t.len = 1
             THEN /\ mode' = "bracket"
                  /\ scan' = [Past(t) EXCEPT !.call = t.first, !.fc = t.at]
             ELSE mode' = mode /\ scan' = Past(t)
    /\ UNCHANGED argbounds
    /\ ScanUnchanged

\* Move just before the first argument.
ScanBracket ==
    /\ mode = "bracket"
    /\ LET t == Token
       IN  \/ /\ t.char \in {"(", "end"}
              /\ mode' = "args"
              /\ scan' = [Past(t) EXCEPT !.abv = << >>, !.start = t.first + 1,
                                         !.bracket = 0]
           \/ t.char # "end" /\ IsSpace(t.char) /\ mode' = mode /\ scan' = Past(t)
           \/ /\ t.char \notin {"(", "end"} /\ ~IsSpace(t.char)
              /\ mode' = "top" /\ scan' = Restored(t)
    /\ UNCHANGED argbounds
    /\ ScanUnchanged

\* Scan to the end of the arguments.
ScanArgs ==
    /\ mode = "args"
    /\ LET t == Token
           abv == Append(scan.abv, [start |-> scan.start, end |-> t.first])
       IN  \/ /\ scan.bracket = 0 /\ t.char = ","
              /\ scan' = [Past(t) EXCEPT !.abv = abv, !.start = t.first + 1]
              /\ UNCHANGED <<mode, argbounds>>
           \/ /\ scan.bracket = 0 /\ t.char = ")"
              /\ argbounds' = argbounds @@ [x \in {<<File, scan.call>>} |-> abv]
              /\ mode' = "top" /\ scan' = Restored(t)
           \/ /\ t.char = "end"
              /\ mode' = "top" /\ scan' = Restored(t)
              /\ UNCHANGED argbounds
           \/ /\ t.char # "end"
              /\ ~(scan.bracket = 0 /\ t.char \in {",", ")"})
              /\ LET change == CASE t.char = "(" -> 1 [] t.char = ")" -> -1 [] OTHER -> 0
                 IN  scan' = [Past(t) EXCEPT !.bracket = @ + change]
              /\ UNCHANGED <<mode, argbounds>>
    /\ ScanUnchanged

-----------------------------------------------------------------------------
(* The copy                                                                *)

NewName == [f |-> "F", g |-> "G", h |-> "H"]

Renamed(char) == IF char \in project.renamed THEN NewName[char] ELSE char

\* The text that get_refactored_part returns from p on until the position is
\* e; "abort" is a failed assertion, and a part that goes beyond e, after
\* which the character that ends an argument would not be the next.
Copied[p \in 1 .. Len(Text) + 1, e \in 1 .. Len(Text) + 1] ==
    IF p >= e THEN (IF p = e THEN << >> ELSE <<"abort">>)
    ELSE IF Text[p] \notin Active \/ <<File, p>> \notin DOMAIN argbounds
      THEN <<Renamed(Text[p])>> \o Copied[p + 1, e]
      ELSE LET bound == argbounds[<<File, p>>]
               args == [k \in DOMAIN bound |-> Copied[bound[k].start, bound[k].end]]
               delimited == \A k \in DOMAIN bound :
                   Text[bound[k].end] = IF k = Len(bound) THEN ")" ELSE ","
           IN  <<Renamed(Text[p])>> \o Copied[p + 1, bound[1].start]
                 \o (IF delimited THEN Replaced(store[Text[p]].repl, args) ELSE <<"abort">>)
                 \o <<")">> \o Copied[Last(bound).end + 1, e]

CopyFile ==
    /\ mode = "copy"
    /\ LET text == Copied[1, Len(Text) + 1]
       IN  IF "abort" \in Range(text)
             THEN mode' = "aborted" /\ UNCHANGED <<todo, argbounds, written>>
             ELSE /\ written' = [file |-> File, text |-> text]
                  /\ argbounds' = << >>
                  /\ NextFile
    /\ UNCHANGED <<project, isspace, store, scan, pages>>

Scanning == FileRefactor \/ ScanTop \/ ScanBracket \/ ScanArgs

Next ==
    \/ \E f \in DOMAIN NewName, s \in project.entered : FunctionPage(f, s)
    \/ \E active \in SUBSET DOMAIN store, repl \in [DOMAIN store -> project.edited] :
           FunArgRefsPage(repl, active)
    \/ Save
    \/ Scanning
    \/ OpenFails
    \/ OpenWorks
    \/ CopyFile

Spec == Init /\ [][Next]_vars /\ WF_vars(Scanning)

-----------------------------------------------------------------------------
(* What refactoring means.  A node of the tree of a template is a record   *)
(* [op, n, text, of]: text, or an operator with a number and a subtree.    *)

RECURSIVE AsTyped(_)
AsTyped(tree) ==
    FlattenSeq([k \in DOMAIN tree |->
        LET node == tree[k]
            number == <<"1", "2">>[node.n]
        IN  CASE node.op = "text" -> node.text
              [] node.op = "=" -> <<"@", number>>
              [] node.op = "." -> <<"@", ".", number>>
              [] OTHER -> <<"@", node.op, number, "{">> \o AsTyped(node.of) \o <<"}">>])

RECURSIVE Meaning(_, _)
Meaning(tree, args) ==
    FlattenSeq([k \in DOMAIN tree |->
        LET node == tree[k]
            exists == node.n <= Len(args)
            from == IF exists THEN SubSeq(args, node.n, Len(args)) ELSE << >>
        IN  CASE node.op = "text" -> node.text
              [] node.op = "=" -> IF exists THEN args[node.n] ELSE << >>
              [] node.op = "." -> FlattenSeq([j \in DOMAIN from |->
                                      (IF j = 1 THEN << >> ELSE <<",", " ">>) \o from[j]])
              [] node.op = "+" -> IF exists THEN Meaning(node.of, args) ELSE << >>
              [] node.op = "-" -> IF exists THEN << >> ELSE Meaning(node.of, args)])

IsName(p) == /\ CharAt(Text, p) \in Letter
             /\ CharAt(Text, p - 1) \notin Letter /\ CharAt(Text, p + 1) \notin Letter

\* A bracket opens after the name at p, blanks, new lines and comments apart.
Opening(p) == Beyond(Text, p + 1, Space \cup {"c"})

In(b, p, q) == Cardinality({k \in p .. q : Text[k] = b})

\* The commas and the bracket that end the arguments of the call at p
Ends(p) ==
    LET level == [q \in Opening(p) .. Len(Text) |->
                     In("(", Opening(p), q) - In(")", Opening(p), q)]
        closing == {q \in DOMAIN level : level[q] = 0}
    IN  IF CharAt(Text, Opening(p)) # "(" \/ closing = {} THEN << >>
        ELSE SetToSortSeq({q \in Opening(p) .. Min(closing) : level[q] = 1 /\ Text[q] = ","}
                              \cup {Min(closing)}, <)

IsCall(p) == IsName(p) /\ Text[p] \in Active /\ Ends(p) # << >>

Meaningful(f) == \E tree \in project.template : AsTyped(tree) = store[f].repl
Tree(f) == CHOOSE tree \in project.template : AsTyped(tree) = store[f].repl

Refactored[p \in 1 .. Len(Text) + 1, e \in 1 .. Len(Text) + 1] ==
    IF p >= e THEN << >>
    ELSE IF ~IsCall(p) THEN <<Renamed(Text[p])>> \o Refactored[p + 1, e]
    ELSE LET ends == Ends(p)
             begin == [k \in DOMAIN ends |-> IF k = 1 THEN Opening(p) ELSE ends[k - 1]]
             args == [k \in DOMAIN ends |-> ltrim(Refactored[begin[k] + 1, ends[k]])]
         IN  <<Renamed(Text[p])>> \o Refactored[p + 1, Opening(p) + 1]
               \o Meaning(Tree(Text[p]), args) \o <<")">>
               \o Refactored[Last(ends) + 1, e]

IsRefactored(file, text) ==
    /\ file = File
    /\ text = Refactored[1, Len(Text) + 1]

\* All calls of the file can be found: what is a blank to C is one to
\* isspace, and no character that was read ahead is left over when a position
\* is restored.
Findable ==
    /\ "=" \notin Range(Text)
    /\ isspace \/ \A p \in DOMAIN Text :
                     IsName(p) /\ Text[p] \in Active
                         => \A q \in p + 1 .. Opening(p) - 1 : Text[q] = "nl"

\* Every template that is used has a meaning, a file is never left half
\* written, and where the calls can be found, what is written has all calls
\* of the active functions refactored as the user of the template meant, and
\* all else as it was but for the renaming of identifiers; also if other
\* files failed before, or functions were refactored otherwise, deactivated
\* and activated again (get_refactored_part).
RefactoredRight ==
    [][mode = "copy" => /\ \A f \in Active : Meaningful(f)
                        /\ mode' # "aborted"
                        /\ Findable => IsRefactored(written'.file, written'.text)]_vars

\* "allows the refactoring of a function's arguments across all identified
\* calls of the function" (doc/funarg.xml): without the exception.
AllRefactored == [][mode = "copy" => IsRefactored(written'.file, written'.text)]_vars

\* The search for arguments ends: going back to the token after each name
\* lets none be read for ever, whatever is in the file
\* (establish_argument_boundaries).
ScanEnds == mode = "file" ~> mode = "open"

=============================================================================

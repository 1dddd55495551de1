----------------------------- MODULE FileStack -----------------------------
(***************************************************************************)
(* Character input: Fchar (fchar.cpp, fchar.h) over fifstream              *)
(* (fifstream.h).                                                          *)
(*                                                                         *)
(* getnext takes a character that was put back, or reads the current file, *)
(* replacing trigraphs and splicing lines.  At the end of a file it makes  *)
(* up a missing newline and then goes back to the file that included it,   *)
(* which is opened again and sought to the place kept on the stack, unless *)
(* the stack is locked at this depth: that is the end of a compilation     *)
(* unit.                                                                   *)
(*                                                                         *)
(* One step is one round of the loops of getnext and simple_getnext.       *)
(***************************************************************************)
EXTENDS Integers, Sequences

CONSTANTS
    Char,           \* the characters
    File,           \* the files
    YaccFile,       \* those of them whose name ends in y
    Text,           \* what the files may hold: a set of [File -> Seq(Char)]
    Trigraphs       \* Fchar::trigraphs_enabled: the values it may have

NL == "\n"
CR == "\r"
EOF == "eof"
Cookie == "cookie"      \* YACC_COOKIE

\* The kinds of tokens; others are the characters or operators they consist of.
Kind == {"space", "op", "identifier", "number", "literal"}

\* The characters that ?? and another one stand for, but for ??/.
Trigraph ==
    [x \in {"=", "'", "(", ")", "!", "<", ">", "-"} |->
        CASE x = "=" -> "#" [] x = "'" -> "^" [] x = "(" -> "["
          [] x = ")" -> "]" [] x = "!" -> "|" [] x = "<" -> "{"
          [] x = ">" -> "}" [] x = "-" -> "~"]

ASSUME FileStackAssumption ==
    /\ {NL, CR, "\\", "?"} \cup {Trigraph[x] : x \in DOMAIN Trigraph} \subseteq Char
    /\ Char \cap ({EOF, Cookie} \cup Kind) = {}
    /\ YaccFile \subseteq File
    /\ Trigraphs \subseteq BOOLEAN
    /\ Text \subseteq [File -> Seq(Char)]

VARIABLES
    text,       \* what the files hold
    trigraphs,  \* Fchar::trigraphs_enabled
    in,         \* Fchar::in: position, end or failure seen, cached position,
                \* whether that one is dirty, and the last character read
    fi,         \* Fchar::fi
    line,       \* Fchar::line_number
    yacc_file,  \* Fchar::yacc_file
    cs,         \* Fchar::cs: [fi, pos, line] of each file to return to
    ps,         \* Fchar::ps: the characters put back, the next one last
    lock,       \* Fchar::stack_lock_size
    oval,       \* the static variable of getnext
    lines,      \* size of Filedetails::processed_lines of each file
    c,          \* the Fchar read: [val, fi, pos]
    getting,    \* whether getnext is being executed
    fresh       \* history: all that was read from files, in order

source == <<text, trigraphs>>
place == <<fi, yacc_file, cs>>
input == <<source, place, in, line, ps, lock, oval, lines, c, getting, fresh>>

-----------------------------------------------------------------------------
(* fifstream.  A stream that has met its end keeps its failure bit, and     *)
(* with it putback, tellg and seekg fail.                                  *)

Offset(i) == IF i.bad THEN -1 ELSE i.pos

Opened == [pos |-> 1, bad |-> FALSE, mypos |-> 0, dirty |-> TRUE, ch |-> EOF]

Tellg(i) == IF i.dirty THEN [i EXCEPT !.dirty = FALSE, !.mypos = Offset(i)] ELSE i

Get(i) ==
    IF i.bad \/ i.pos > Len(text[fi])
    THEN [i EXCEPT !.bad = TRUE, !.dirty = TRUE, !.ch = EOF]
    ELSE [i EXCEPT !.pos = @ + 1, !.mypos = @ + 1, !.ch = text[fi][i.pos]]

PutbackFaulty(i) ==                     \* does not put back the cached position
    [i EXCEPT !.pos = IF i.bad THEN @ ELSE @ - 1]
Putback(i) == [i EXCEPT !.mypos = @ - 1, !.pos = IF i.bad THEN @ ELSE @ - 1]

Seekg(i, pos) ==
    [i EXCEPT !.pos = pos, !.bad = (pos = -1), !.dirty = TRUE]

-----------------------------------------------------------------------------
(* simple_getnext                                                          *)

Value(v, i) == [val |-> v, in |-> i, splice |-> FALSE]
Again(i) == [val |-> NL, in |-> i, splice |-> TRUE]

\* At backslash: a newline, or a return and a newline, are passed over.
Backslash(i) ==
    LET a == Get(i)
        b == Get(a)
    IN  IF a.ch = NL THEN Again(a)
        ELSE IF a.ch = CR
        THEN IF b.ch = NL THEN Again(b) ELSE Value("\\", Putback(Putback(b)))
        ELSE Value("\\", Putback(a))

QuestionFaulty(i) ==                    \* does not splice lines after ??/
    LET a == Get(i)
        b == Get(a)
    IN  IF a.ch # "?" THEN Value("?", Putback(a))
        ELSE IF b.ch = "/" THEN Value("\\", b)
        ELSE IF b.ch \in DOMAIN Trigraph THEN Value(Trigraph[b.ch], b)
        ELSE Value("?", Putback(Putback(b)))

Question(i) ==
    LET a == Get(i)
        b == Get(a)
    IN  IF a.ch # "?" THEN Value("?", Putback(a))
        ELSE IF b.ch = "/" THEN Backslash(b)
        ELSE IF b.ch \in DOMAIN Trigraph THEN Value(Trigraph[b.ch], b)
        ELSE Value("?", Putback(Putback(b)))

\* One round of simple_getnext from the position Tellg has given.
Simple ==
    LET i == Get(Tellg(in))
    IN  IF i.ch = "\\" THEN Backslash(i)
        ELSE IF i.ch = "?" /\ trigraphs THEN Question(i)
        ELSE Value(i.ch, i)

\* set_line_processed, called before the line is counted.
LineProcessed ==
    lines' = [lines EXCEPT ![fi] = IF @ = line - 1 THEN @ + 1 ELSE @]

-----------------------------------------------------------------------------
(* set_input, push_input, set_context and the lock                         *)

SetInput(f) ==
    /\ fi' = f
    /\ yacc_file' = (f \in YaccFile)

Context == [fi |-> fi, pos |-> Tellg(in).mypos, line |-> line]

PushInput(f) ==
    /\ cs' = Append(cs, Context)
    /\ SetInput(f)
    /\ in' = Opened
    /\ line' = 1
    /\ LET cookie == [val |-> Cookie, fi |-> f, pos |-> 0]
       IN  IF f \in YaccFile
           THEN ps' = Append(ps, cookie) /\ fresh' = Append(fresh, cookie)
           ELSE UNCHANGED <<ps, fresh>>

InputInit(f) ==
    /\ text \in Text
    /\ trigraphs \in Trigraphs
    /\ fi = f /\ yacc_file = (f \in YaccFile)
    /\ in = Opened /\ line = 1
    /\ cs = <<>> /\ ps = <<>> /\ lock = 0
    /\ oval = "0"
    /\ lines = [x \in File |-> 0]
    /\ c = [val |-> EOF, fi |-> f, pos |-> 0]
    /\ getting = FALSE
    /\ fresh = <<>>

-----------------------------------------------------------------------------
(* getnext                                                                 *)

\* The character v is read at the place Tellg gave, and returned.
Return(v) ==
    /\ c' = [val |-> v, fi |-> fi, pos |-> Tellg(in).mypos]
    /\ fresh' = Append(fresh, c')
    /\ getting' = FALSE

TakeBack ==
    /\ getting /\ ps # <<>>
    /\ c' = ps[Len(ps)]
    /\ ps' = SubSeq(ps, 1, Len(ps) - 1)
    /\ getting' = FALSE
    /\ UNCHANGED <<source, place, in, line, lock, oval, lines, fresh>>

Reading == getting /\ ps = <<>>
AtEnd == Reading /\ ~Simple.splice /\ Simple.val = EOF

Splice ==
    /\ Reading /\ Simple.splice
    /\ in' = Simple.in
    /\ LineProcessed /\ line' = line + 1
    /\ UNCHANGED <<source, place, ps, lock, oval, c, getting, fresh>>

Deliver ==
    /\ Reading /\ ~Simple.splice /\ Simple.val # EOF
    /\ in' = Simple.in
    /\ Return(Simple.val)
    /\ oval' = Simple.val
    /\ IF Simple.val = NL
       THEN LineProcessed /\ line' = line + 1
       ELSE UNCHANGED <<lines, line>>
    /\ UNCHANGED <<source, place, ps, lock>>

\* "Included file does not end with a newline."
NewlineMissing == oval # NL

\* "Inject a newline to prevent line concatenation"
Inject ==
    /\ AtEnd /\ NewlineMissing
    /\ in' = Simple.in
    /\ Return(NL) /\ oval' = NL
    /\ line' = line + 1
    /\ UNCHANGED <<source, place, ps, lock, lines>>

\* The end of a unit, or of the workspace.
StopsHereFaulty == cs = <<>>            \* pays no heed to the lock
StopsHere == cs = <<>> \/ Len(cs) = lock

End ==
    /\ AtEnd /\ ~NewlineMissing /\ StopsHere
    /\ in' = Simple.in
    /\ Return(EOF)
    /\ UNCHANGED <<source, place, line, ps, lock, oval, lines>>

\* The end of an included file: set_context opens the includer again.
Pop ==
    /\ AtEnd /\ ~NewlineMissing /\ ~StopsHere
    /\ LET fc == cs[Len(cs)]
       IN  /\ SetInput(fc.fi)
           /\ in' = Seekg(Opened, fc.pos)
           /\ line' = fc.line
    /\ cs' = SubSeq(cs, 1, Len(cs) - 1)
    /\ UNCHANGED <<source, ps, lock, oval, lines, c, getting, fresh>>

GetNext == TakeBack \/ Splice \/ Deliver \/ Inject \/ End \/ Pop

-----------------------------------------------------------------------------
(* Properties                                                              *)

\* fifstream's comment: dirty is "True if we can't use mypos".  Every Tokid is
\* made from the cached position, so it may be clean only if it is right.
CachedPosition == ~in.dirty => in.mypos = Offset(in)

\* "We somehow missed a line": the assertion of set_line_processed.
NoLineMissed ==
    Reading /\ (Simple.splice \/ Simple.val = NL) => line - 1 <= lines[fi]

\* Where the program says it is in a file is where it is.
PositionsRight == CachedPosition /\ NoLineMissed

=============================================================================

------------------------------ MODULE FileText ------------------------------
(***************************************************************************)
(* The three walks over the characters of a file once its units are read:  *)
(* file_analyze of engine.cpp measures the file and its functions and      *)
(* drops classes that are no identifiers; then file_dump of workdb.cpp     *)
(* writes its text as database rows, or file_obfuscate of obfuscate.cpp    *)
(* writes it with its names hidden and its comments removed.  None of them *)
(* uses the lexical analyser: each follows comments and literals with a    *)
(* state machine of its own, e_cfile_state.                                *)
(*                                                                         *)
(* Names have one character: "x", "y", "m" and "e" are identifiers, of     *)
(* which "y" is read-only, "m" stands for main and "e" for the error token *)
(* of yacc; "k" is a reserved word, which the lexical analyser gives a     *)
(* class as well.  The functions of the file are its matched braces.       *)
(***************************************************************************)
EXTENDS Integers, Sequences, FiniteSets, SequencesExt, FiniteSetsExt, Functions,
        TLC

CONSTANT
    Project     \* files and the options they are processed with: ProjectOK

Ident == {"x", "y", "m", "e"}
Name == Ident \cup {"k"}
Blank == {" ", "nl"}                \* characters isspace holds of
Table == {"TOKENS", "REST", "COMMENTS", "STRINGS", "LINEPOS"}

ProjectOK(p) ==
    /\ Last(p.text) = "nl"
    /\ p.monitored \subseteq Ident      \* identifiers opts.monitor selects
    /\ p.tables \subseteq Table         \* enabled tables
    /\ p.yacc \in BOOLEAN               \* the path ends in y

ASSUME ProjectAssumption == \A p \in Project : ProjectOK(p)

VARIABLES
    project,    \* the file
    phase,      \* the walk under way
    pos,        \* number of the character that is read next
    calls,      \* the functions of the file
    classes,    \* positions whose token has an equivalence class
    ids,        \* the identifiers kept in ids
    metrics,    \* pre_cpp_metrics of the file (0) and of its functions
    nest,       \* cfun, fun_nesting and the next of the file's functions
    dump,       \* state of file_dump and the rows it wrote
    obf         \* state of CProcessor and its output

vars == <<project, phase, pos, calls, classes, ids, metrics, nest, dump, obf>>

text == project.text
c == text[pos]

-----------------------------------------------------------------------------
(* What the text means in C                                                *)

\* The kind of the lexeme that begins at i, outside comments and literals
Kind(t, i) ==
    LET next == IF i < Len(t) THEN t[i + 1] ELSE "nl"
    IN  CASE t[i] = "/" /\ next = "/" -> "line"
          [] t[i] = "/" /\ next = "*" -> "block"
          [] t[i] = "\"" -> "string"
          [] t[i] = "'" -> "char"
          [] OTHER -> "code"

\* Whether the character at j is escaped in a literal that begins at i
Escaped(t, i, j) ==
    LET plain == {k \in i .. j - 1 : t[k] # "\\"}
    IN  (j - Max(plain)) % 2 = 0

\* Where a lexeme of kind k that begins at i may end
Ends(t, i, k) ==
    CASE k = "line" -> {j \in i + 2 .. Len(t) : t[j] = "nl"}
      [] k = "block" -> {j \in i + 3 .. Len(t) : t[j - 1] = "*" /\ t[j] = "/"}
      [] k = "code" -> {i}
      [] OTHER -> {j \in i + 1 .. Len(t) : t[j] = t[i] /\ ~Escaped(t, i, j)}

\* The lexemes of t; one that never ends is of kind "open"
Lexemes(t) ==
    LET From[i \in 1 .. Len(t) + 1] ==
            IF i > Len(t) THEN << >>
            ELSE LET k == Kind(t, i)
                     ends == Ends(t, i, k)
                 IN  IF ends = {}
                       THEN <<[kind |-> "open", first |-> i, last |-> Len(t)]>>
                       ELSE <<[kind |-> k, first |-> i, last |-> Min(ends)]>>
                                \o From[Min(ends) + 1]
    IN  From[1]

Of(t, k) == {l \in Range(Lexemes(t)) : l.kind = k}
Code(t) == {l.first : l \in Of(t, "code")}

\* The matched braces of the code of t, in the order they are opened: the
\* Calls of the file, which end in their last character
Calls(t) ==
    LET braces == {k \in Code(t) : t[k] \in {"{", "}"}}
        In(b, i, j) == Cardinality({k \in (i .. j) \cap braces : t[k] = b})
        Match(i) == {j \in i .. Len(t) : In("{", i, j) = In("}", i, j)}
        begins == SetToSortSeq({i \in braces : t[i] = "{" /\ Match(i) # {}}, <)
    IN  [n \in DOMAIN begins |->
            [begin |-> begins[n], end |-> Min(Match(begins[n]))]]

-----------------------------------------------------------------------------
(* The state machine that follows comments and literals                    *)

Moves ==
    [normal |-> ("/" :> "slash") @@ ("'" :> "char") @@ ("\"" :> "string"),
     slash |-> ("/" :> "line") @@ ("*" :> "block"),
     line |-> ("nl" :> "normal"),
     block |-> ("*" :> "star"),
     star |-> ("/" :> "normal") @@ ("*" :> "star"),
     char |-> ("'" :> "normal") @@ ("\\" :> "char_escape"),
     string |-> ("\"" :> "normal") @@ ("\\" :> "string_escape"),
     char_escape |-> << >>,
     string_escape |-> << >>]

Otherwise ==
    [normal |-> "normal", slash |-> "normal", line |-> "line",
     block |-> "block", star |-> "block", char |-> "char", string |-> "string",
     char_escape |-> "char", string_escape |-> "string"]

\* The state after character ch in state cs
After(cs, ch) ==
    IF ch \in DOMAIN Moves[cs] THEN Moves[cs][ch] ELSE Otherwise[cs]

-----------------------------------------------------------------------------
(* Metrics                                                                 *)

NoMetrics == [cs |-> "normal", nchar |-> 0, nline |-> 0, nspace |-> 0,
              nlcomment |-> 0, nbcomment |-> 0, nccomment |-> 0,
              nid |-> 0, unique |-> {}]

One(condition) == IF condition THEN 1 ELSE 0

\* Fault: the star of a comment's end stays counted.
CommentCharsFaulty(cs, ch) ==
    CASE cs = "line" -> One(ch # "nl")
      [] cs = "block" -> 1
      [] cs = "star" -> IF ch = "/" THEN 0 ELSE 1
      [] OTHER -> 0

\* By how much a character changes the count of comment characters: the end
\* of a block comment takes its star back
CommentChars(cs, ch) ==
    CASE cs = "line" -> One(ch # "nl")
      [] cs = "block" -> 1
      [] cs = "star" -> IF ch = "/" THEN -1 ELSE 1
      [] OTHER -> 0

\* process_char
Counted(m, ch) ==
    [m EXCEPT !.cs = After(@, ch),
              !.nchar = @ + 1,
              !.nline = @ + One(ch = "nl"),
              !.nspace = @ + One(m.cs = "normal" /\ ch \in Blank),
              !.nlcomment = @ + One(m.cs = "slash" /\ ch = "/"),
              !.nbcomment = @ + One(m.cs = "slash" /\ ch = "*"),
              !.nccomment = @ + CommentChars(m.cs, ch)]

\* process_identifier, for a name of one character
Named(m, id) ==
    [m EXCEPT !.nchar = @ + 1, !.nid = @ + 1, !.unique = @ \cup {id}]

NoNest == [cfun |-> 0, outer |-> << >>, next |-> 1]

\* Leaving the current function at a character after its end
Left(n) ==
    IF n.cfun = 0 \/ pos <= calls[n.cfun].end THEN n
    ELSE IF n.outer = << >> THEN [n EXCEPT !.cfun = 0]
    ELSE [n EXCEPT !.cfun = Last(n.outer), !.outer = Front(@)]

\* Entering the next function of the file
Entered(n) ==
    IF n.next > Len(calls) \/ pos < calls[n.next].begin THEN n
    ELSE [cfun |-> n.next, next |-> n.next + 1,
          outer |-> IF n.cfun = 0 THEN n.outer ELSE Append(n.outer, n.cfun)]

\* The states in which a character may begin a name
MayName(cs) == cs \notin {"block", "string", "line"}

\* One character of file_analyze
Analyze ==
    LET n == Entered(Left(nest))
        seen == MayName(metrics[0].cs) /\ c \in Name /\ pos \in classes
        kept == seen /\ c \in project.monitored
        \* the file and the function that the character counts for
        Count(m) == Counted(IF kept THEN Named(m, c) ELSE m, c)
    IN  /\ phase = "analyze"
        /\ pos <= Len(text)
        /\ pos' = pos + 1
        /\ nest' = n
        /\ metrics' = IF seen /\ c \in Ident \ project.monitored THEN metrics
                      ELSE [f \in DOMAIN metrics |->
                                IF f \in {0, n.cfun} THEN Count(metrics[f])
                                ELSE metrics[f]]
        /\ ids' = IF kept THEN ids \cup {c} ELSE ids
        /\ classes' = IF seen /\ ~kept THEN {p \in classes : text[p] # c}
                      ELSE classes
        /\ UNCHANGED <<project, calls, phase, dump, obf>>

-----------------------------------------------------------------------------
(* Rows of the database                                                    *)

Enabled(table) == table \in project.tables

NoDump == [cs |-> "normal", table |-> "REST", enabled |-> FALSE, start |-> 1,
           chunk |-> << >>, bol |-> 1, at_bol |-> TRUE, line |-> 1,
           rows |-> {}, lines |-> {}, dumped |-> << >>]

Row(table, at, s) == [table |-> table, at |-> at, s |-> s]

\* Chunker::flush, when the characters before position next were read
Flushed(d, next) ==
    [d EXCEPT !.rows = IF d.chunk # << >> /\ d.enabled
                         THEN @ \cup {Row(d.table, d.start, d.chunk)} ELSE @,
              !.chunk = << >>,
              !.start = next]

\* Chunker::start with the characters s that were read already
Started(d, table, s) ==
    [Flushed(d, pos + 1) EXCEPT !.table = table, !.start = @ - Len(s),
                                !.chunk = s, !.enabled = Enabled(table)]

Added(d, ch) == [d EXCEPT !.chunk = Append(@, ch)]

\* What file_dump does with the slash before a character that opens no comment
Unslashed(d) ==
    IF d.cs = "slash" /\ c \notin {"*", "/"}
      THEN [Added(d, "/") EXCEPT !.cs = "normal"] ELSE d

\* insert_eclass, which writes the row of an identifier in IDS
Inserted(d) ==
    IF c \in Range(d.dumped) THEN d ELSE [d EXCEPT !.dumped = Append(@, c)]

\* An identifier
DumpName(d) ==
    LET f == Flushed(Inserted(d), pos + 1)
    IN  IF Enabled("TOKENS")
          THEN [f EXCEPT !.rows = @ \cup {Row("TOKENS", pos, <<c>>)}] ELSE f

\* The lines of the file, written at their first character that is no name
DumpLine(d) ==
    [d EXCEPT !.lines = IF d.at_bol /\ Enabled("LINEPOS")
                          THEN @ \cup {<<d.bol, d.line>>} ELSE @,
              !.at_bol = c = "nl",
              !.bol = IF c = "nl" THEN pos + 1 ELSE @,
              !.line = @ + One(c = "nl")]

\* Any other character, by the state before it and the one after it
DumpChar(d) ==
    LET to == [d EXCEPT !.cs = After(@, c)]
    IN  CASE to.cs = "slash" -> to
          [] to.cs = "string" /\ d.cs = "normal" -> Started(to, "STRINGS", <<c>>)
          [] d.cs = "slash" -> Started(to, "COMMENTS", <<"/", c>>)
          [] to.cs = "normal" /\ d.cs \in {"string", "line", "star"} ->
                Started(Added(to, c), "REST", << >>)
          [] OTHER -> Added(to, c)

\* One character of file_dump
Dump ==
    LET d == Unslashed(dump)
    IN  /\ phase = "dump"
        /\ pos <= Len(text)
        /\ pos' = pos + 1
        /\ dump' = IF MayName(d.cs) /\ c \in Ident /\ pos \in classes
                     THEN DumpName(d) ELSE DumpChar(DumpLine(d))
        /\ UNCHANGED <<project, calls, phase, classes, ids, metrics, nest, obf>>

-----------------------------------------------------------------------------
(* Obfuscation                                                             *)

NoObf == [cs |-> "normal", spaced |-> FALSE, out |-> << >>]

Hidden == Ident \ {"y"}         \* writable, of a kind that is obfuscated

\* The name an identifier gets
Obfuscated(id) ==
    IF id = IF project.yacc THEN "e" ELSE "m" THEN id ELSE "OI_" \o id

\* randspace, which draws blank
Spaced(o, blank) ==
    IF o.spaced THEN o
    ELSE [o EXCEPT !.out = Append(@, blank), !.spaced = TRUE]

\* output_id
OutputId(o, id) ==
    [cs |-> IF o.cs = "slash" THEN "normal" ELSE o.cs,
     spaced |-> FALSE,
     out |-> o.out \o (IF o.cs = "slash" THEN <<"/">> ELSE << >>)
                   \o <<Obfuscated(id)>>]

\* CProcessor::process_char
OutputChar(o, ch, blank) ==
    LET to == [o EXCEPT !.cs = After(@, ch)]
        Out(s) == [to EXCEPT !.out = @ \o s, !.spaced = ch = "nl"]
    IN  CASE o.cs = "normal" /\ ch = " " -> Spaced(to, blank)
          [] o.cs = "normal" /\ ch = "/" -> [to EXCEPT !.spaced = FALSE]
          [] o.cs = "normal" -> Out(<<ch>>)
          [] o.cs = "slash" /\ ch \in {"/", "*"} -> Spaced(to, blank)
          [] o.cs = "slash" -> [to EXCEPT !.out = @ \o <<"/", ch>>]
          [] o.cs = "line" /\ ch = "nl" -> [to EXCEPT !.out = Append(@, ch)]
          [] o.cs \in {"line", "block", "star"} -> to
          [] OTHER -> [to EXCEPT !.out = Append(@, ch)]

\* One character of file_obfuscate
Obfuscate ==
    /\ phase = "obfuscate"
    /\ pos <= Len(text)
    /\ pos' = pos + 1
    /\ IF c \in Hidden /\ pos \in classes
         THEN obf' = OutputId(obf, c)
         ELSE \E blank \in {" ", "tab"} : obf' = OutputChar(obf, c, blank)
    /\ UNCHANGED <<project, calls, phase, classes, ids, metrics, nest, dump>>

-----------------------------------------------------------------------------
(* The phases of a run of cscout                                           *)

Init ==
    /\ project \in Project
    /\ phase = "analyze"
    /\ pos = 1
    /\ calls = Calls(text)
    /\ classes = {p \in Code(text) : text[p] \in Name}
    /\ ids = {}
    /\ metrics = [f \in 0 .. Len(calls) |-> NoMetrics]
    /\ nest = NoNest
    /\ dump = NoDump
    /\ obf = NoObf

\* The end of file_analyze; the mode of cscout decides what comes next
Analyzed ==
    /\ phase = "analyze"
    /\ pos > Len(text)
    /\ phase' \in {"dump", "obfuscate"}
    /\ pos' = 1
    /\ dump' = [dump EXCEPT !.enabled = Enabled("REST")]
    /\ UNCHANGED <<project, calls, classes, ids, metrics, nest, obf>>

\* The end of file_dump and of file_obfuscate
Finish ==
    /\ phase \in {"dump", "obfuscate"}
    /\ pos > Len(text)
    /\ dump' = IF phase = "dump" THEN Flushed(dump, pos) ELSE dump
    /\ phase' = IF phase = "dump" THEN "dumped" ELSE "obfuscated"
    /\ UNCHANGED <<project, calls, pos, classes, ids, metrics, nest, obf>>

Next == Analyze \/ Analyzed \/ Dump \/ Obfuscate \/ Finish

Spec == Init /\ [][Next]_vars

-----------------------------------------------------------------------------
(* Properties                                                              *)

\* Texts the walks are meant for: literals and comments end, and backslashes
\* stand in literals only
WellFormed(t) ==
    /\ Of(t, "open") = {}
    /\ \A p \in Code(t) : t[p] # "\\"
    /\ \A l \in Of(t, "line") : t[l.last - 1] # "\\"

\* A slash that opens no comment is followed by code that the state machines
\* need not look at: all but file_dump take the character after it for granted.
SlashesStandAlone ==
    \A p \in Code(text) :
        text[p] = "/" => text[p + 1] \notin Blank \cup {"\"", "'", "{", "}"}
                                             \cup (Ident \ project.monitored)

\* The metrics of the positions S of t, from what these mean in C
Measured(t, S) ==
    LET Began(k) == Cardinality({l \in Of(t, k) : l.first \in S})
        code == S \cap Code(t)
        names == {p \in code : t[p] \in project.monitored}
        within == UNION {l.first + 2 .. l.last - 1 : l \in Of(t, "line")}
                  \cup UNION {l.first + 2 .. l.last - 2 : l \in Of(t, "block")}
    IN  [nline |-> Cardinality({p \in S : t[p] = "nl"}),
         nspace |-> Cardinality({p \in code : t[p] \in Blank}),
         nlcomment |-> Began("line"),
         nbcomment |-> Began("block"),
         nccomment |-> Cardinality(S \cap within),
         nid |-> Cardinality(names),
         unique |-> {t[p] : p \in names}]

\* The positions that belong to function f: those of functions within it
\* belong to these.
Own(f) ==
    LET Inside(g) == calls[g].begin .. calls[g].end
    IN  Inside(f) \ UNION {Inside(g) : g \in {g \in DOMAIN calls : g > f}}

\* After its analysis the metrics of a file and of each of its functions are
\* those of the C text: lines, blanks of the code, comments and the characters
\* within them, identifiers and distinct identifiers, each counted for the
\* innermost function only.  Exactly the monitored identifiers of the code are
\* kept and have classes.
MetricsRight ==
    (phase \in {"dump", "obfuscate"} /\ pos = 1 /\ SlashesStandAlone) =>
        LET all == Measured(text, DOMAIN text)
        IN  /\ Restrict(metrics[0], DOMAIN all) = all
            /\ \A f \in DOMAIN calls :
                   Restrict(metrics[f], DOMAIN all) = Measured(text, Own(f))
            /\ ids = all.unique
            /\ classes = {p \in Code(text) : text[p] \in project.monitored}

\* The rows of the lexemes of kind k
RowsOf(table, k) ==
    {Row(table, l.first, SubSeq(text, l.first, l.last)) : l \in Of(text, k)}

\* The rows file_dump wrote for a file are those of its text: COMMENTS,
\* STRINGS and TOKENS have its comments, strings and identifiers where they
\* stand, REST has what is between them, without gaps or overlaps, LINEPOS has
\* the offset of each line, and a table that is not enabled has none; each
\* identifier gets one row in IDS.  So
\* csreconst.sh, which puts the rows in the order of their offsets, gets the
\* file back.
DumpRight ==
    (phase = "dumped" /\ (SlashesStandAlone \/ Ident \subseteq project.monitored)) =>
        LET In(table) == {r \in dump.rows : r.table = table}
            tokens == {Row("TOKENS", p, <<text[p]>>) :
                          p \in {p \in Code(text) : text[p] \in project.monitored}}
            others == RowsOf("COMMENTS", "line") \cup RowsOf("COMMENTS", "block")
                      \cup RowsOf("STRINGS", "string") \cup tokens
            Extent(r) == r.at .. r.at + Len(r.s) - 1
            starts == {1} \cup {p + 1 : p \in {p \in DOMAIN text : text[p] = "nl"}}
        IN  /\ \A table \in Table \ {"REST", "LINEPOS"} :
                   In(table) = IF Enabled(table)
                                 THEN {r \in others : r.table = table} ELSE {}
            /\ IsInjective(dump.dumped) /\ {<<id>> : id \in Range(dump.dumped)} = {r.s : r \in tokens}
            /\ \A r \in In("REST") : r.s = SubSeq(text, r.at, r.at + Len(r.s) - 1)
            /\ \A r1, r2 \in In("REST") :
                   r1 # r2 => Extent(r1) \cap Extent(r2) = {}
            /\ UNION {Extent(r) : r \in In("REST")} =
                   IF Enabled("REST")
                     THEN DOMAIN text \ UNION {Extent(r) : r \in others} ELSE {}
            /\ dump.lines =
                   IF Enabled("LINEPOS")
                     THEN {<<p, Cardinality({q \in starts : q <= p})>> :
                               p \in starts \cap DOMAIN text}
                     ELSE {}

\* A text without what C does not need: a run of blanks and comments is one
\* blank, and none stands at the beginning or end of a line.
Canonical(s) ==
    LET blank == {" ", "tab"}
        Join(done, ch) ==
            CASE ch \in blank -> IF done = << >> \/ Last(done) \in Blank THEN done
                                 ELSE Append(done, " ")
              [] ch = "nl" -> IF done # << >> /\ Last(done) = " "
                                THEN Append(Front(done), ch) ELSE Append(done, ch)
              [] OTHER -> Append(done, ch)
    IN  FoldLeft(Join, << >>, s)

\* What an obfuscated text should be, up to its blanks
Obscured ==
    LET Part(l) ==
            CASE l.kind = "line" -> <<" ", "nl">>
              [] l.kind = "block" -> <<" ">>
              [] l.kind = "code" ->
                    IF text[l.first] \in Hidden \cap project.monitored
                      THEN <<Obfuscated(text[l.first])>> ELSE <<text[l.first]>>
              [] OTHER -> SubSeq(text, l.first, l.last)
        ls == Lexemes(text)
    IN  FlattenSeq([i \in DOMAIN ls |-> Part(ls[i])])

\* Whichever blanks randspace draws, the obfuscated file has the tokens of the
\* file, separated where they were, with every writable identifier replaced by
\* that of its class, its literals as they were and no comments.
ObfuscationRight ==
    (phase = "obfuscated" /\ SlashesStandAlone) =>
        Canonical(obf.out) = Canonical(Obscured)

\* What is written of a file, to the database or obfuscated, is its text.
CopiesRight == DumpRight /\ ObfuscationRight

TextRight == MetricsRight /\ CopiesRight

\* NCHAR, the "Number of characters" of a file, is its length.
CharactersCounted ==
    phase \in {"dump", "obfuscate"} => metrics[0].nchar = Len(text)
=============================================================================

------------------------------- MODULE Metrics -------------------------------
(***************************************************************************)
(* Metrics of files and functions: Metrics (metrics.h, metrics.cpp) with   *)
(* FileMetrics and FunMetrics, charged from the three places a token       *)
(* passes, Pltoken::process_metrics before the preprocessor,               *)
(* Pdtoken::getnext and parse_lex_real after it, and from the directives   *)
(* and the grammar's actions.                                              *)
(*                                                                         *)
(* A file is a sequence of items, each a token or a directive the lexical  *)
(* analyser reads, or a place where the parser acts.  One step charges     *)
(* what it counts, as a set of marks, to the file being read and to the    *)
(* innermost function or function-like macro being defined.  The           *)
(* directives are those of Conditionals, whose steps are part of the       *)
(* steps here.                                                             *)
(*                                                                         *)
(* Next to the meters the model keeps what was read: read holds the marks  *)
(* of the first time a file is read or a function is defined.              *)
(***************************************************************************)
EXTENDS Conditionals, FiniteSets, FiniteSetsExt

CONSTANTS
    File,       \* Fileid
    Fun,        \* Call: functions and function-like macros
    Id,         \* Eclass of an identifier; also the token that is one
    Item,       \* what a file or the expansion of a macro consists of
    Text,       \* the items of each file
    Mains,      \* the files that a #pragma process names
    InClass,    \* identifiers counted by each of the metrics IdMetric
    IdLen,      \* Eclass::get_len of each
    ReadOnly,   \* files and identifiers with the attribute is_readonly
    MaxOpen     \* bound on the files open at a time

\* What process_token tells apart; "return" is any keyword that is only
\* counted, "name" any other token.
Keyword == {"if", "else", "switch", "case", "for", "while", "do", "return"}
Operator == {"+", "*", "&&", "?", "##"}
Word == Keyword \cup Operator \cup
        {";", "number", "char", "string", "{", "}", "(", ")", "stringize",
         "#", "name", "space"}
Code == Word \cup Id

\* What is counted apart from tokens.
Directives == {"nppdirective", "nppcond", "evaluated #elif", "nppfmacro",
               "nppomacro", "nincfile"}
Declared == {"npfunction", "nffunction", "npvar", "nfvar", "naggregate",
             "namember", "nenum", "nemember"}
Lexed == "currstmtlen"
Apart == Directives \cup Declared \cup {"ntoken", Lexed}
Mark == Code \cup Apart

IdMetric == {"npid", "nfid", "nid"}

LexerItems == {"token", "text", "#", "use", "include", "if", "elif", "else",
               "endif", "define", "body", "end of body"}
ParserItems == {"begin", "end", "keyword", "nest", "unnest", "declare"}

\* "use" is the name of a macro, code, and its expansion, out.
ItemOK(it) ==
    /\ it.do \in LexerItems \cup ParserItems
    /\ it.do \in {"token", "text", "use"} => it.code \in Code
    /\ it.do = "use" => it.out \in Seq(Item)
    /\ it.do = "include" => it.who \in File
    /\ it.do \in {"body", "begin"} => it.who \in Fun
    /\ it.do = "begin" => it.tally \in {"npfunction", "nffunction"}
    /\ it.do = "define" => it.tally \in {"nppfmacro", "nppomacro"}
    /\ it.do = "declare" => it.tally \in Declared
    /\ it.do = "keyword" => it.macro \in BOOLEAN

ASSUME MetricsAssumption ==
    /\ File \cap Fun = {}
    /\ IsFiniteSet(Id) /\ Id \cap (Word \cup Apart) = {}
    /\ \A it \in Item : ItemOK(it)
    /\ Text \in [File -> Seq(Item)]
    /\ Mains \subseteq File
    /\ InClass \in [IdMetric -> SUBSET Id]
    /\ IdLen \in [Id -> Nat \ {0}]
    /\ ReadOnly \subseteq File \cup Id
    /\ MaxOpen \in Nat

Entity == File \cup Fun

\* The marks that add to a metric and those that take from it: one token may
\* do both, as a for, whose semicolons are no statements, and a do, whose
\* while is no while statement.
Up == [nstmt |-> {";", "if", "while", "switch", "do"},
       nif |-> {"if"}, nelse |-> {"else"}, nswitch |-> {"switch"},
       ncase |-> {"case"}, nfor |-> {"for"}, nwhile |-> {"while"},
       ndo |-> {"do"}, nreturn |-> {"return"},
       nop |-> Operator, ncc2op |-> {"&&", "?"},
       nnconst |-> {"number"}, nclit |-> {"char"}, nstring |-> {"string"},
       nconcatop |-> {"##"}, nstringop |-> {"stringize"},
       bracenest |-> {"{"}, bracknest |-> {"("},
       ntoken |-> {"ntoken"}, nppdirective |-> {"nppdirective"},
       nppcond |-> {"nppcond", "evaluated #elif"},
       nppfmacro |-> {"nppfmacro"}, nppomacro |-> {"nppomacro"},
       nincfile |-> {"nincfile"},
       npfunction |-> {"npfunction"}, nffunction |-> {"nffunction"},
       npvar |-> {"npvar"}, nfvar |-> {"nfvar"},
       naggregate |-> {"naggregate"}, namember |-> {"namember"},
       nenum |-> {"nenum"}, nemember |-> {"nemember"}]
Counted == DOMAIN Up
Down(n) == CASE n = "nstmt" -> {"for"}
             [] n = "nwhile" -> {"do"}
             [] n = "bracenest" -> {"}"}
             [] n = "bracknest" -> {")"}
             [] OTHER -> {}

VARIABLES
    open,       \* the files being read: [who, pos, time], the last on top
    expand,     \* Pdtoken::expand
    asked,      \* whether the parser waits for a token
    pre,        \* pre_cpp_metrics of each file and function
    post,       \* post_cpp_metrics
    queue,      \* queued_identifiers of post_cpp_metrics
    ids,        \* em_npid, em_nfid and em_nid, each with its unique count
    nest,       \* em_maxstmtnest of post_cpp_metrics
    processed,  \* the files and functions whose metrics are complete
    nesting,    \* Call::nesting: [who, time, base], current_fun on top
    level,      \* curr_stmt_nesting
    macronest,  \* Call::macro_nesting
    opened,     \* how often a file was opened or a function defined
    read,       \* the marks of its first time: [pre, post]
    again,      \* those begun again before they had ended
    controls,   \* statements being parsed: [who, first, macro, nested]
    deepest,    \* deepest nesting of each function's own statements
    mixed       \* whether statements of a macro held others

input == <<open, expand, asked>>
meters == <<pre, post>>
identifiers == <<queue, ids>>
functions == <<nesting, level, macronest>>
history == <<opened, again, controls, deepest, mixed>>
metricVars == <<input, meters, identifiers, nest, processed, functions,
                history, read>>
allVars == <<vars, metricVars>>

\* Metrics::Metrics; the values of em_maxstmtlen, em_maxbracenest,
\* em_maxbracknest and em_nuop next to those that only count.
NoMeter == [count |-> [n \in Counted |-> 0], stmtlen |-> 0, longest |-> 0,
            braces |-> 0, brackets |-> 0, operators |-> {}, nuop |-> 0]
Meter == [count : [Counted -> Int], stmtlen : Nat, longest : Nat,
          braces : Nat, brackets : Nat, operators : SUBSET Operator,
          nuop : Nat]
IdCount == [total : Nat, unique : Nat]

MetricsTypeOK ==
    /\ open \in Seq([who : File, pos : Nat, time : Nat])
    /\ expand \in Seq(Item)
    /\ asked \in BOOLEAN
    /\ pre \in [Entity -> Meter] /\ post \in [Entity -> Meter]
    /\ queue \in [Entity -> Seq(Id)]
    /\ ids \in [Entity -> [IdMetric -> IdCount]]
    /\ nest \in [Entity -> Nat]
    /\ processed \subseteq Entity
    /\ nesting \in Seq([who : Fun, time : Nat, base : Nat])
    /\ level \in [Fun -> Int]
    /\ macronest \in Int
    /\ opened \in [Entity -> Nat]
    /\ read \in [Entity -> [pre : Seq(SUBSET Mark), post : Seq(SUBSET Mark)]]
    /\ again \subseteq Entity
    /\ controls \in Seq([who : Fun, first : BOOLEAN, macro : BOOLEAN,
                         nested : BOOLEAN])
    /\ deepest \in [Fun -> Nat]
    /\ mixed \in BOOLEAN

MetricsInit ==
    /\ Init
    /\ open = <<>> /\ expand = <<>> /\ asked = FALSE
    /\ pre = [x \in Entity |-> NoMeter] /\ post = [x \in Entity |-> NoMeter]
    /\ queue = [x \in Entity |-> <<>>]
    /\ ids = [x \in Entity |-> [n \in IdMetric |-> [total |-> 0, unique |-> 0]]]
    /\ nest = [x \in Entity |-> 0]
    /\ processed = {}
    /\ nesting = <<>> /\ level = [f \in Fun |-> 0] /\ macronest = 0
    /\ opened = [x \in Entity |-> 0]
    /\ read = [x \in Entity |-> [pre |-> <<>>, post |-> <<>>]]
    /\ again = {} /\ controls = <<>> /\ deepest = [f \in Fun |-> 0]
    /\ mixed = FALSE

-----------------------------------------------------------------------------
(* Counting                                                                *)

Greater(a, b) == IF a > b THEN a ELSE b

\* process_token and the add_ functions, on the metrics of one region.
Tally(m, e) ==
    LET count == [n \in Counted |->
                    m.count[n] + Cardinality(e \cap Up[n])
                               - Cardinality(e \cap Down(n))]
        stmtlen == IF Lexed \in e THEN m.stmtlen + 1 ELSE m.stmtlen
    IN  [count |-> count,
         stmtlen |-> IF ";" \in e THEN 0 ELSE stmtlen,
         longest |-> IF ";" \in e THEN Greater(m.longest, stmtlen)
                     ELSE m.longest,
         braces |-> IF "{" \in e THEN Greater(m.braces, count.bracenest)
                    ELSE m.braces,
         brackets |-> IF "(" \in e THEN Greater(m.brackets, count.bracknest)
                      ELSE m.brackets,
         operators |-> m.operators \cup (e \cap Operator),
         nuop |-> m.nuop]

FileNow == Top(open).who                \* Fchar::get_fileid()
FunNow == IF nesting = <<>> THEN {} ELSE {Top(nesting).who}
Current == {FileNow} \cup FunNow

\* Those of them whose first reading or definition this is.
First == {x \in {FileNow} : Top(open).time = 1}
         \cup {x \in FunNow : Top(nesting).time = 1}

\* Charge the marks p before the preprocessor and q after it to all of S.
Charge(S, p, q) ==
    /\ pre' = [x \in Entity |-> IF x \in S \ processed
                                THEN Tally(pre[x], p) ELSE pre[x]]
    /\ post' = [x \in Entity |-> IF x \in S \ processed
                                 THEN Tally(post[x], q) ELSE post[x]]
    /\ read' = [x \in Entity |->
                  IF x \in S \cap First
                  THEN [pre |-> Append(read[x].pre, p),
                        post |-> Append(read[x].post, q)]
                  ELSE read[x]]

\* A token c: white space is no token to ntoken, but one to the length of a
\* statement.
Token(c) == {c, Lexed}
Tallied(c) == Token(c) \cup (IF c = "space" THEN {} ELSE {"ntoken"})

\* process_queued_identifiers and summarize_identifiers
Summarize(x) ==
    LET q == queue[x]
        In(n) == {j \in 1 .. Len(q) : q[j] \in InClass[n]}
    IN  /\ ids' = [ids EXCEPT ![x] = [n \in IdMetric |->
                    [total |-> ids[x][n].total + Cardinality(In(n)),
                     unique |-> IF q = <<>> THEN ids[x][n].unique
                                ELSE Cardinality({q[j] : j \in In(n)})]]]
        /\ queue' = [queue EXCEPT ![x] = <<>>]

-----------------------------------------------------------------------------
(* Reading                                                                 *)

Skipping == skiplevel # 0

\* What comes next: of an expansion, or of the file on top.
AtEnd == expand = <<>> /\ Top(open).pos > Len(Text[FileNow])
Here == IF expand # <<>> THEN Head(expand) ELSE Text[FileNow][Top(open).pos]
Kind == IF AtEnd THEN "end of file" ELSE Here.do
ToLex(kind) == unit /\ open # <<>> /\ asked /\ Kind = kind
ToParse(kind) == unit /\ open # <<>> /\ ~asked /\ Kind = kind

PastItem == Retop(open, [Top(open) EXCEPT !.pos = @ + 1])
Advance == IF expand # <<>>
           THEN expand' = Tail(expand) /\ UNCHANGED open
           ELSE open' = PastItem /\ UNCHANGED expand

\* The parser asks for a token, and parse_lex_real counts it where the one
\* before it was read.
Ask ==
    /\ unit /\ open # <<>> /\ ~asked /\ Kind \notin ParserItems
    /\ asked' = TRUE
    /\ Charge(Current, {}, {"ntoken"})
    /\ UNCHANGED <<vars, open, expand, identifiers, nest, processed,
                   functions, history>>

\* A token of the file, or of an expansion: counted before the preprocessor
\* when it is read, and after it when it is not skipped.  White space does
\* not reach the parser.
ReadToken ==
    /\ ToLex("token")
    /\ LET token == Here.code
           returned == expand # <<>> \/ ~Skipping
       IN  /\ Charge(Current, IF expand = <<>> THEN Tallied(token) ELSE {},
                     IF returned THEN Token(token) ELSE {})
           /\ queue' = [x \in Entity |->
                          IF returned /\ token \in Id /\ x \in Current \ processed
                          THEN Append(queue[x], token) ELSE queue[x]]
           /\ asked' = (returned => token = "space")
    /\ Advance
    /\ UNCHANGED <<vars, ids, nest, processed, functions, history>>

\* A token that no one but the preprocessor sees: the rest of a directive, a
\* parameter or the body of a macro, an empty line.
ReadText ==
    /\ ToLex("text")
    /\ Charge(Current, Tallied(Here.code), {})
    /\ Advance
    /\ UNCHANGED <<vars, asked, identifiers, nest, processed, functions,
                   history>>

\* The # of a directive; process_directive counts it before its name is read.
ReadHash ==
    /\ ToLex("#")
    /\ Charge(Current, Tallied("#") \cup {"nppdirective"}, {})
    /\ Advance
    /\ UNCHANGED <<vars, asked, identifiers, nest, processed, functions,
                   history>>

\* An identifier that macro_expand replaces.
UseMacro ==
    /\ ToLex("use") /\ expand = <<>>
    /\ Charge(Current, Tallied(Here.code), {})
    /\ open' = PastItem
    /\ expand' = IF Skipping THEN <<>> ELSE Here.out
    /\ UNCHANGED <<vars, asked, identifiers, nest, processed, functions,
                   history>>

\* process_include: the file is counted as included, pushed and read.
Include ==
    /\ ToLex("include") /\ expand = <<>> /\ Len(open) < MaxOpen
    /\ IF Skipping
       THEN Charge({}, {}, {}) /\ open' = PastItem
            /\ UNCHANGED <<opened, again>>
       ELSE LET file == Here.who
            IN  /\ Charge({FileNow}, {"nincfile"}, {})
                /\ open' = Append(PastItem, [who |-> file, pos |-> 1,
                                             time |-> opened[file] + 1])
                /\ opened' = [opened EXCEPT ![file] = @ + 1]
                /\ again' = IF \E i \in 1 .. Len(open) : open[i].who = file
                            THEN again \cup {file} ELSE again
    /\ UNCHANGED <<vars, asked, expand, identifiers, nest, processed,
                   functions, controls, deepest, mixed>>

CloseFileFaulty ==                      \* its metrics stay incomplete
    /\ Len(open) > 1 /\ ToLex("end of file")
    /\ open' = Pop(open)
    /\ UNCHANGED <<vars, expand, asked, meters, read, identifiers, nest,
                   processed, functions, history>>

\* The end of an included file, in Fchar::getnext.
CloseFile ==
    /\ Len(open) > 1 /\ ToLex("end of file")
    /\ processed' = processed \cup {FileNow}
    /\ open' = Pop(open)
    /\ UNCHANGED <<vars, expand, asked, meters, read, identifiers, nest,
                   functions, history>>

-----------------------------------------------------------------------------
(* Directives                                                              *)

\* process_if and process_ifdef
DoIf(res) ==
    /\ ToLex("if")
    /\ If(res)
    /\ Charge(Current, IF Skipping THEN {} ELSE {"nppcond"}, {})
    /\ Advance
    /\ UNCHANGED <<asked, identifiers, nest, processed, functions, history>>

\* process_elif; process_if counts one that is evaluated once more.
DoElif(res) ==
    /\ ToLex("elif")
    /\ Elif(res)
    /\ Charge(Current,
              IF iftaken = <<>> \/ skiplevel > 1 THEN {}
              ELSE {"nppcond"} \cup (IF Top(iftaken) THEN {}
                                     ELSE {"evaluated #elif"}), {})
    /\ Advance
    /\ UNCHANGED <<asked, identifiers, nest, processed, functions, history>>

\* process_else and process_endif count nothing.
DoElse ==
    /\ ToLex("else") /\ Else
    /\ Charge({}, {}, {}) /\ Advance
    /\ UNCHANGED <<asked, identifiers, nest, processed, functions, history>>

DoEndif ==
    /\ ToLex("endif") /\ Endif
    /\ Charge({}, {}, {}) /\ Advance
    /\ UNCHANGED <<asked, identifiers, nest, processed, functions, history>>

\* process_define, when it has seen what kind of a macro it is.
Define ==
    /\ ToLex("define")
    /\ Charge(Current, IF Skipping THEN {} ELSE {Here.tally}, {})
    /\ Advance
    /\ UNCHANGED <<vars, asked, identifiers, nest, processed, functions,
                   history>>

-----------------------------------------------------------------------------
(* Functions                                                               *)

\* set_current_fun of FCall and of MCall.
Enter(f) ==
    /\ nesting' = Append(nesting, [who |-> f, time |-> opened[f] + 1,
                                   base |-> Len(controls)])
    /\ opened' = [opened EXCEPT ![f] = @ + 1]
    /\ LET inside == \E i \in 1 .. Len(nesting) : nesting[i].who = f
       IN  /\ again' = IF inside THEN again \cup {f} ELSE again
           /\ mixed' = (mixed \/ inside)

\* mark_end and unset_current_fun: the metrics of the first definition are
\* complete.
Leave ==
    LET fun == Top(nesting).who
    IN  /\ nesting' = Pop(nesting)
        /\ processed' = processed \cup {fun}
        /\ IF fun \in processed
           THEN UNCHANGED <<meters, identifiers>>
           ELSE /\ pre' = [pre EXCEPT ![fun].nuop =
                             Cardinality(pre[fun].operators)]
                /\ post' = [post EXCEPT ![fun].nuop =
                              Cardinality(post[fun].operators)]
                /\ Summarize(fun)
        /\ UNCHANGED <<opened, again, mixed>>

\* The body of a function-like macro begins and ends.
BeginBody ==
    /\ ToLex("body")
    /\ IF Skipping
       THEN UNCHANGED <<nesting, opened, again, mixed>>
       ELSE Enter(Here.who)
    /\ Advance
    /\ UNCHANGED <<vars, asked, meters, read, identifiers, nest, processed,
                   level, macronest, controls, deepest>>

EndBody ==
    /\ ToLex("end of body")
    /\ IF Skipping
       THEN UNCHANGED <<nesting, processed, meters, identifiers, opened,
                        again, mixed>>
       ELSE nesting # <<>> /\ Len(controls) = Top(nesting).base /\ Leave
    /\ Advance
    /\ UNCHANGED <<vars, asked, read, nest, level, macronest, controls,
                   deepest>>

\* The { of a function's body has been reduced; a function that is not
\* nested in another counts for the file.
BeginFunction ==
    /\ ToParse("begin")
    /\ Enter(Here.who)
    /\ Charge(IF nesting = <<>> THEN {FileNow} ELSE {}, {}, {Here.tally})
    /\ Advance
    /\ UNCHANGED <<vars, asked, identifiers, nest, processed, level,
                   macronest, controls, deepest>>

\* ... and its }; the statements in it are complete.
EndFunction ==
    /\ ToParse("end")
    /\ nesting # <<>> /\ Len(controls) = Top(nesting).base
    /\ Leave
    /\ Advance
    /\ UNCHANGED <<vars, asked, read, nest, level, macronest, controls,
                   deepest>>

\* A declaration that counts for the file.
Declare ==
    /\ ToParse("declare")
    /\ Charge({FileNow}, {}, {Here.tally})
    /\ Advance
    /\ UNCHANGED <<vars, asked, identifiers, nest, processed, functions,
                   history>>

-----------------------------------------------------------------------------
(* Statements                                                              *)

InFunction == nesting # <<>>
InStatement == InFunction /\ Len(controls) > Top(nesting).base
Unmeasured == Top(nesting).who \notin processed

\* check_macro_nesting, at the keyword of a statement that nests one.
KeywordOf ==
    /\ ToParse("keyword") /\ InFunction
    /\ macronest' = IF Unmeasured /\ Here.macro THEN macronest + 1
                    ELSE macronest
    /\ controls' = Append(controls,
                          [who |-> Top(nesting).who,
                           first |-> Top(nesting).time = 1,
                           macro |-> Here.macro, nested |-> FALSE])
    /\ mixed' = (mixed \/ (~Here.macro /\ \E i \in 1 .. Len(controls) :
                              controls[i].macro /\ controls[i].first))
    /\ Advance
    /\ UNCHANGED <<vars, asked, meters, read, identifiers, nest, processed,
                   nesting, level, opened, again, deepest>>

\* increase_nesting, before the statement that is nested; the maximum of the
\* file counts too.
Nest ==
    /\ ToParse("nest") /\ InStatement /\ ~Top(controls).nested
    /\ LET fun == Top(nesting).who
           deeper == level[fun] + 1
           own == Top(controls).first /\ ~Top(controls).macro
           held == Cardinality({i \in 1 .. Len(controls) :
                                  /\ controls[i].who = fun /\ controls[i].first
                                  /\ controls[i].nested /\ ~controls[i].macro})
       IN  /\ IF Unmeasured /\ macronest = 0
              THEN /\ level' = [level EXCEPT ![fun] = deeper]
                   /\ nest' = [nest EXCEPT ![fun] = Greater(@, deeper),
                                           ![FileNow] = Greater(@, deeper)]
              ELSE UNCHANGED <<level, nest>>
           /\ deepest' = IF own
                         THEN [deepest EXCEPT ![fun] = Greater(@, held + 1)]
                         ELSE deepest
    /\ controls' = Retop(controls, [Top(controls) EXCEPT !.nested = TRUE])
    /\ Advance
    /\ UNCHANGED <<vars, asked, meters, read, identifiers, processed, nesting,
                   macronest, opened, again, mixed>>

UnnestFaulty ==                         \* leaves the function's level too
    /\ ToParse("unnest") /\ InStatement /\ Top(controls).nested
    /\ LET fun == Top(nesting).who
       IN  /\ macronest' = IF Unmeasured /\ macronest # 0 THEN macronest - 1
                           ELSE macronest
           /\ level' = IF Unmeasured THEN [level EXCEPT ![fun] = @ - 1] ELSE level
    /\ controls' = Pop(controls)
    /\ Advance
    /\ UNCHANGED <<vars, asked, meters, read, identifiers, nest, processed,
                   nesting, opened, again, deepest, mixed>>

\* decrease_nesting, after it.
Unnest ==
    /\ ToParse("unnest") /\ InStatement /\ Top(controls).nested
    /\ LET fun == Top(nesting).who
       IN  /\ macronest' = IF Unmeasured /\ macronest # 0 THEN macronest - 1
                           ELSE macronest
           /\ level' = IF Unmeasured /\ macronest = 0
                       THEN [level EXCEPT ![fun] = @ - 1] ELSE level
    /\ controls' = Pop(controls)
    /\ Advance
    /\ UNCHANGED <<vars, asked, meters, read, identifiers, nest, processed,
                   nesting, opened, again, deepest, mixed>>

-----------------------------------------------------------------------------
(* Compilation units                                                       *)

\* #pragma process: set_input opens the unit's file.
StartUnit(f) ==
    /\ open = <<>>
    /\ Process
    /\ IF unit'
       THEN /\ open' = <<[who |-> f, pos |-> 1, time |-> opened[f] + 1]>>
            /\ opened' = [opened EXCEPT ![f] = @ + 1]
       ELSE UNCHANGED <<open, opened>>
    /\ UNCHANGED <<expand, asked, meters, read, identifiers, nest, processed,
                   functions, again, controls, deepest, mixed>>

\* The end of the unit's file; Block::exit of its outermost block then
\* summarizes the identifiers of that file.  The grammar has no unit that
\* ends inside a function.
FinishUnit ==
    /\ Len(open) = 1 /\ ToLex("end of file") /\ nesting = <<>>
    /\ EndOfUnit \/ EndOfUnitSkipping
    /\ processed' = processed \cup {FileNow}
    /\ Summarize(FileNow)
    /\ open' = <<>> /\ asked' = FALSE
    /\ UNCHANGED <<expand, meters, read, nest, functions, history>>

MetricsNext ==
    \/ Ask \/ ReadToken \/ ReadText \/ ReadHash \/ UseMacro
    \/ Include \/ CloseFile
    \/ \E res \in BOOLEAN : DoIf(res) \/ DoElif(res)
    \/ DoElse \/ DoEndif \/ Define
    \/ BeginBody \/ EndBody \/ BeginFunction \/ EndFunction \/ Declare
    \/ KeywordOf \/ Nest \/ Unnest
    \/ \E f \in Mains : StartUnit(f)
    \/ FinishUnit

MetricsSpec == MetricsInit /\ [][MetricsNext]_allVars

-----------------------------------------------------------------------------
(* What is shown                                                           *)

\* The metrics of a file, of a function and of both, in which phases they
\* apply, and those that are only there to derive others.
Common == (Counted \ (Declared \cup {"nincfile"})) \cup IdMetric \cup
          {"maxstmtlen", "maxstmtnest", "maxbracenest", "maxbracknest", "nuop"}
FileMetric == Common \cup Declared \cup {"nincfile"}
FunMetric == Common \cup {"ccycl1", "ccycl2", "ccycl3"}
Internal == {"ncc2op"}
PreOnly == {"nppdirective", "nppcond", "nppfmacro", "nppomacro", "nincfile",
            "nconcatop", "nstringop", "bracenest", "bracknest"}
PostOnly == Declared \cup {"maxstmtnest"}
NotOfFiles == {"bracenest", "bracknest", "nuop"}
Phases == {"pre", "post"}
Applies(n, phase) == n \notin (IF phase = "pre" THEN PostOnly ELSE PreOnly)

\* get_metric
Cyclomatic(m) == m.count.nif + m.count.nswitch + m.count.nfor
                 + m.count.nwhile + m.count.ndo + 1
Value(x, phase, n) ==
    LET m == IF phase = "pre" THEN pre[x] ELSE post[x]
    IN  CASE n \in Counted -> m.count[n]
          [] n \in IdMetric -> IF phase = "pre" THEN 0 ELSE ids[x][n].total
          [] n = "maxstmtnest" -> IF phase = "pre" THEN 0 ELSE nest[x]
          [] n = "maxstmtlen" -> m.longest
          [] n = "maxbracenest" -> m.braces
          [] n = "maxbracknest" -> m.brackets
          [] n = "nuop" -> m.nuop
          [] n = "ccycl1" -> Cyclomatic(m)
          [] n = "ccycl2" -> Cyclomatic(m) + m.count.ncc2op
          [] n = "ccycl3" -> Cyclomatic(m) + m.count.ncc2op
                             - m.count.nswitch + m.count.ncase

\* The page of a file or function, and its two rows in the database, where a
\* metric that does not apply is a dash or NULL.
Page(x) == (IF x \in File THEN FileMetric \ NotOfFiles ELSE FunMetric)
           \ Internal
Columns(x) == (IF x \in File THEN FileMetric ELSE FunMetric) \ Internal
Shown(x) == [n \in Page(x) |->
               [phase \in {p \in Phases : Applies(n, p)} |-> Value(x, phase, n)]]
Row(x, phase) ==
    [n \in {k \in Columns(x) : Applies(k, phase)} |-> Value(x, phase, n)]

\* MetricsCount::add with plus, get_min and get_max; the minimum starts from
\* the largest number there is and the maximum from 0.
Largest == 1000000
Range3(S, phase, n) ==
    LET Value1(x) == Value(x, phase, n)
    IN  [total |-> FoldSet(LAMBDA x, t : t + Value1(x), 0, S),
         min |-> FoldSet(LAMBDA x, t : IF Value1(x) > t THEN t ELSE Value1(x),
                         Largest, S),
         max |-> FoldSet(LAMBDA x, t : IF Value1(x) < t THEN t ELSE Value1(x),
                         0, S)]

\* The tables of the metrics pages.  summarize_files keeps writable and
\* read-only files apart, summarize_functions takes those that are defined.
Known(S) == {x \in S : opened[x] > 0}
RangeTable(S, kind) ==
    [n \in kind \ Internal |->
       [phase \in {p \in Phases : Applies(n, p)} |-> Range3(S, phase, n)]]
Group2(S, readonly) == {x \in S : (x \in ReadOnly) = readonly}
FileTable(readonly) == RangeTable(Group2(Known(File), readonly), FileMetric)
FunTable == RangeTable(Known(Fun), FunMetric)

AddUniqueIdFaulty(i, t) ==              \* takes "no length" for a length
    [once |-> t.once + 1, len |-> t.len + IdLen[i],
     maxlen |-> IF t.maxlen > IdLen[i] THEN t.maxlen ELSE IdLen[i],
     minlen |-> IF t.minlen < IdLen[i] THEN t.minlen ELSE IdLen[i]]

\* add_unique_id for each identifier of S: how many, and their lengths; a
\* smallest length of 0 is none.
AddUniqueId(i, t) ==
    [once |-> t.once + 1, len |-> t.len + IdLen[i],
     maxlen |-> IF t.maxlen > IdLen[i] THEN t.maxlen ELSE IdLen[i],
     minlen |-> IF t.minlen < IdLen[i] /\ t.minlen > 0
                THEN t.minlen ELSE IdLen[i]]
IdSummary(S) ==
    FoldSet(AddUniqueId, [once |-> 0, len |-> 0, maxlen |-> 0, minlen |-> 0], S)
IdRead == {i \in Id : \E x \in Entity : \E k \in 1 .. Len(read[x].post) :
                          i \in read[x].post[k]}
IdTable(readonly) ==
    [n \in IdMetric |-> IdSummary(Group2(IdRead \cap InClass[n], readonly))]

-----------------------------------------------------------------------------
(* What was read                                                           *)

\* How often the marks of M were read.
Times(s, M) == Cardinality({o \in (1 .. Len(s)) \X M : o[2] \in s[o[1]]})
Balance(s, n) == Times(s, Up[n]) - Times(s, Down(n))
Prefix(s, i) == SubSeq(s, 1, i)

\* The tokens from the last semicolon before i up to i.
StatementUpTo(s, i) ==
    Cardinality({j \in 1 .. i : /\ Lexed \in s[j]
                                /\ \A k \in j .. i - 1 : ";" \notin s[k]})

IsMaxOf(n, S) == n \in S /\ \A k \in S : k <= n

\* A meter holds what the marks of s say.
Measures(m, s) ==
    /\ \A n \in Counted : m.count[n] = Balance(s, n)
    /\ IsMaxOf(m.longest, {0} \cup {StatementUpTo(s, i) :
                             i \in {j \in 1 .. Len(s) : ";" \in s[j]}})
    /\ IsMaxOf(m.braces, {0} \cup {Balance(Prefix(s, i), "bracenest") :
                             i \in 1 .. Len(s)})
    /\ IsMaxOf(m.brackets, {0} \cup {Balance(Prefix(s, i), "bracknest") :
                             i \in 1 .. Len(s)})
    /\ m.operators = {k \in Operator : \E i \in 1 .. Len(s) : k \in s[i]}

\* The identifiers of s that count for n: all of them, and different ones.
IdTimes(s, n) == [total |-> Times(s, InClass[n]),
                  unique |-> Cardinality({k \in InClass[n] :
                                 \E i \in 1 .. Len(s) : k \in s[i]})]

-----------------------------------------------------------------------------
(* Properties                                                              *)

\* "This metric is measured the first time a file is encountered", and the
\* same for functions: whatever is read again, in whatever unit, and however
\* functions and macros are defined inside others, what a file or function
\* has counted is what was read the first time, all of it and nothing else.
CountedOnce ==
    \A x \in Entity \ again :
        /\ Measures(pre[x], read[x].pre)
        /\ Measures(post[x], read[x].post)

\* The identifiers and the different operators of a function are summarized
\* once, when it ends; those of a file when the unit that it is the file of
\* ends, be that the first time it is read or a later one.
SummarizedOnce ==
    \A x \in Entity \ again :
        /\ IF queue[x] = <<>>
           THEN \A n \in IdMetric : ids[x][n] = IdTimes(read[x].post, n)
           ELSE \A n \in IdMetric :
                    /\ ids[x][n] = [total |-> 0, unique |-> 0]
                    /\ Cardinality({j \in 1 .. Len(queue[x]) :
                                      queue[x][j] \in InClass[n]})
                         = IdTimes(read[x].post, n).total
        /\ x \in processed \cap Fun =>
              /\ queue[x] = <<>>
              /\ pre[x].nuop = Cardinality(pre[x].operators)
              /\ post[x].nuop = Cardinality(post[x].operators)

MeasuredOnce == CountedOnce /\ SummarizedOnce

\* Unless statements of a macro hold others, the level of nesting of each
\* function is that of its own statements, macro_nesting counts those that
\* come from macros, and the maximum is the deepest there was.
Own(f) == {i \in 1 .. Len(controls) :
              /\ controls[i].who = f /\ controls[i].first
              /\ controls[i].nested /\ ~controls[i].macro}
OfMacros == {i \in 1 .. Len(controls) : controls[i].first /\ controls[i].macro}
NestingRight ==
    ~mixed => /\ macronest = Cardinality(OfMacros)
              /\ \A f \in Fun : /\ level[f] = Cardinality(Own(f))
                                /\ nest[f] = deepest[f]

\* What is shown of files together: each file is in one of the two groups,
\* and the ranges are those of the files and functions in them.
IsRange(r, S, phase, n) ==
    /\ r.total = MapThenSumSet(LAMBDA x : Value(x, phase, n), S)
    /\ S # {} => /\ IsMaxOf(r.max, {0} \cup {Value(x, phase, n) : x \in S})
                 /\ \E x \in S : r.min = Value(x, phase, n)
                 /\ \A x \in S : r.min <= Value(x, phase, n)
TableRight(table, S) ==
    \A n \in DOMAIN table : \A phase \in DOMAIN table[n] :
        IsRange(table[n][phase], S, phase, n)
RangesRight ==
    /\ TableRight(FunTable, Known(Fun))
    /\ TableRight(FileTable(TRUE), Known(File) \cap ReadOnly)
    /\ TableRight(FileTable(FALSE), Known(File) \ ReadOnly)

\* The lengths shown of identifiers are those of the identifiers.
LengthsRight(r, S) ==
    LET L == {IdLen[i] : i \in S}
    IN  /\ r.once = Cardinality(S)
        /\ r.len = MapThenSumSet(LAMBDA i : IdLen[i], S)
        /\ S # {} => r.maxlen = Max(L) /\ r.minlen = Min(L)
IdTablesRight ==
    \A n \in IdMetric :
        /\ LengthsRight(IdTable(TRUE)[n], IdRead \cap InClass[n] \cap ReadOnly)
        /\ LengthsRight(IdTable(FALSE)[n], (IdRead \cap InClass[n]) \ ReadOnly)

\* What was counted is in the database, in the phase it was counted in, apart
\* from the braces and brackets that are left open after the preprocessor.
NothingHidden ==
    \A x \in Known(Entity), phase \in Phases :
        \A n \in Columns(x) \ {"bracenest", "bracknest"} :
            n \notin DOMAIN Row(x, phase) => Value(x, phase, n) = 0

SummariesRight == RangesRight /\ NothingHidden /\ IdTablesRight

=============================================================================

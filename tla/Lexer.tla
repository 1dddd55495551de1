------------------------------- MODULE Lexer -------------------------------
(***************************************************************************)
(* Pltoken::getnext_analyze (pltoken.h) over the characters of FileStack,  *)
(* and the parts of Pdtoken (pdtoken.cpp) that decide where files begin    *)
(* and end: an #include directive, a #pragma process and the end of a unit.*)
(*                                                                         *)
(* A directive is one character of the text.  One step is one character    *)
(* looked at; st is the place in getnext_analyze.                          *)
(***************************************************************************)
EXTENDS FileStack

CONSTANTS
    Main,       \* the workspace definition file
    NoFile,     \* not a file
    Include,    \* the directives #include, and the file of each
    Process     \* the directives #pragma process, and the file of each

Directive == DOMAIN Include \cup DOMAIN Process

\* Directives include files, and are characters of their own.
ASSUME LexerAssumption ==
    /\ Main \in File
    /\ NoFile \notin File
    /\ Include \in [DOMAIN Include -> File]
    /\ Process \in [DOMAIN Process -> File]
    /\ Directive \cap (Kind \cup {NL, EOF, Cookie, ".", "..."}) = {}

VARIABLES
    st,         \* where in getnext_analyze; "done" when it returns, "exit"
                \* when it ended the program, "end" when the workspace is read
    code,       \* Token::code
    chars,      \* the characters of the token so far
    base,       \* base and follow of getnext_analyze: where the run of
    follow,     \* characters began, and where the next one is if it goes on
    parts,      \* Token::parts: runs [fi, pos, len]
    yaccdefs,   \* parse_yacc_defs
    at_bol,     \* Pdtoken::at_bol
    mode,       \* "text", "include" or "eol": who asked for the token
    wanted,     \* in "include", the file to include
    unit,       \* the file of the unit, or NoFile
    eaten       \* history: the characters of all tokens

token == <<st, code, chars, base, follow, parts, yaccdefs>>
driver == <<at_bol, mode, wanted, unit, eaten>>
vars == <<input, token, driver>>

\* All that FileStack's getnext does not change.
rest == <<source, place, in, line, lock, oval, lines, fresh>>

Digit == {"0", "8"}
Letter == {"a", "e", "L", "u", "_"}
Alnum == Letter \cup Digit
Blank == {" ", "\t", CR}
Quote == {"'", "\""}

Operator ==
    {<<x>> : x \in {"+", "-", "&", "|", "!", "%", "*", "=", "^", ">", "<"}}
    \cup {<<x, "=">> : x \in {"+", "-", "&", "|", "!", "%", "*", "=", "^", ">", "<"}}
    \cup {<<x, x>> : x \in {"+", "-", "&", "|", ">", "<"}}
    \cup {<<x, x, "=">> : x \in {">", "<"}}
    \cup {<<"-", ">">>}

Init ==
    /\ InputInit(Main)
    /\ st = "done" /\ code = "space" /\ chars = <<>>
    /\ base = <<Main, 0>> /\ follow = <<Main, 0>> /\ parts = <<>>
    /\ yaccdefs = FALSE
    /\ at_bol = TRUE /\ mode = "text" /\ wanted = NoFile /\ unit = NoFile
    /\ eaten = <<>>

-----------------------------------------------------------------------------
(* What a step of getnext_analyze does with the character it looks at      *)

\* Take it and look at the next one.
More(s) ==
    /\ st' = s /\ chars' = Append(chars, c)
    /\ getting' = TRUE
    /\ UNCHANGED <<code, ps, c>>

\* Take it as the last one.
Accept(k) ==
    /\ st' = "done" /\ code' = k /\ chars' = Append(chars, c)
    /\ UNCHANGED <<getting, ps, c>>

\* Put it back.
AcceptBack(k) ==
    /\ st' = "done" /\ code' = k
    /\ ps' = Append(ps, c)
    /\ UNCHANGED <<chars, getting, c>>

At(s) == ~getting /\ st = s

-----------------------------------------------------------------------------
(* Runs of characters                                                      *)

Tokid(x) == <<x.fi, x.pos>>
Plus(t, n) == <<t[1], t[2] + n>>
Run(b, f) == [fi |-> b[1], pos |-> b[2], len |-> f[2] - b[2]]

StartRun == base' = Tokid(c) /\ follow' = Plus(Tokid(c), 1) /\ parts' = <<>>

\* update_parts, after follow was advanced past the character before.
UpdateParts ==
    IF Tokid(c) = follow
    THEN follow' = Plus(follow, 1) /\ UNCHANGED <<base, parts>>
    ELSE /\ parts' = Append(parts, Run(base, follow))
         /\ base' = Tokid(c) /\ follow' = Plus(Tokid(c), 1)

EndRun == parts' = Append(parts, Run(base, follow)) /\ UNCHANGED <<base, follow>>

NoRun == UNCHANGED <<base, follow, parts>>

-----------------------------------------------------------------------------
(* getnext_analyze                                                         *)

Start ==
    /\ At("start")
    /\ CASE c.val \in {"L", "u"} -> More("prefix") /\ StartRun
         [] c.val \in Letter \ {"L", "u"} -> More("word") /\ StartRun
         [] c.val \in Digit -> More("number") /\ StartRun
         [] c.val = "." -> More("dot") /\ StartRun
         [] c.val \in Quote -> More(c.val) /\ NoRun
         [] c.val = "/" -> More("slash") /\ NoRun
         [] c.val \in Blank -> More("space") /\ NoRun
         [] <<c.val>> \in Operator -> More("operator") /\ NoRun
         [] OTHER -> Accept(c.val) /\ NoRun
    /\ UNCHANGED yaccdefs

\* Operators of one to three characters, and the marks of yacc.
Operators ==
    /\ At("operator")
    /\ LET o == [i \in DOMAIN chars |-> chars[i].val]
           p == Append(o, c.val)
       IN  IF p \in Operator
           THEN IF Append(p, "=") \in Operator THEN More("operator") ELSE Accept("op")
           ELSE IF yacc_file /\ o = <<"%">> /\ c.val \in {"%", "{", "}"}
           THEN Accept("op") ELSE AcceptBack("op")
    /\ yaccdefs' = IF yacc_file /\ chars[1].val = "%" /\ c.val \in {"{", "}"}
                   THEN c.val = "}" ELSE yaccdefs
    /\ NoRun

Slash ==
    /\ At("slash")
    /\ CASE c.val = "=" -> Accept("op")
         [] c.val = "*" -> More("block")
         [] c.val = "/" -> More("line")
         [] OTHER -> AcceptBack("op")
    /\ NoRun /\ UNCHANGED yaccdefs

BlockComment ==
    /\ At("block")
    /\ IF c.val \in {"*", EOF} THEN More("star") ELSE More("block")
    /\ NoRun /\ UNCHANGED yaccdefs

\* "EOF in comment" is a fatal error.
Star ==
    /\ At("star")
    /\ CASE c.val = "/" -> Accept("space")
         [] c.val = "*" -> More("star")
         [] c.val = EOF -> st' = "exit" /\ UNCHANGED <<code, chars, getting, ps, c>>
         [] OTHER -> More("block")
    /\ NoRun /\ UNCHANGED yaccdefs

LineComment ==
    /\ At("line")
    /\ IF c.val \in {NL, EOF} THEN AcceptBack("space") ELSE More("line")
    /\ NoRun /\ UNCHANGED yaccdefs

Space ==
    /\ At("space")
    /\ IF c.val \in Blank THEN More("space") ELSE AcceptBack("space")
    /\ NoRun /\ UNCHANGED yaccdefs

Dot ==
    /\ At("dot")
    /\ CASE c.val \in Digit -> More("number") /\ UpdateParts
         [] c.val = "." -> More("dots") /\ NoRun
         [] OTHER -> AcceptBack(".") /\ NoRun
    /\ UNCHANGED yaccdefs

\* Two characters are put back when the third dot is missing.
Dots ==
    /\ At("dots")
    /\ IF c.val = "."
       THEN Accept("...")
       ELSE /\ ps' = ps \o <<c, chars[2]>>
            /\ st' = "done" /\ code' = "." /\ chars' = <<chars[1]>>
            /\ UNCHANGED <<getting, c>>
    /\ NoRun /\ UNCHANGED yaccdefs

\* L, U, u or u8 may begin a literal; if not, what followed is put back and the
\* identifier read as any other.
Prefix ==
    /\ At("prefix")
    /\ IF c.val \in Quote THEN More(c.val)
       ELSE IF c.val = "8" /\ chars[1].val = "u" THEN More("u8")
       ELSE /\ ps' = Append(ps, c) /\ getting' = TRUE
            /\ st' = "word" /\ UNCHANGED <<code, chars, c>>
    /\ NoRun /\ UNCHANGED yaccdefs

PrefixOfUtf8 ==
    /\ At("u8")
    /\ IF c.val \in Quote THEN More(c.val)
       ELSE /\ ps' = ps \o <<c, chars[2]>> /\ getting' = TRUE
            /\ st' = "word" /\ chars' = <<chars[1]>>
            /\ UNCHANGED <<code, c>>
    /\ NoRun /\ UNCHANGED yaccdefs

Word ==
    /\ At("word")
    /\ IF c.val \in Alnum
       THEN More("word") /\ UpdateParts
       ELSE AcceptBack("identifier") /\ EndRun
    /\ UNCHANGED yaccdefs

Escaped == [q \in Quote |-> IF q = "'" THEN "character escape" ELSE "string escape"]

\* A literal of characters may extend over lines, one of a string may not.
Literal ==
    /\ \E q \in Quote :
         /\ At(q)
         /\ CASE c.val = "\\" -> More(Escaped[q])
              [] c.val \in {q, EOF} \/ (c.val = NL /\ q = "\"") -> Accept("literal")
              [] OTHER -> More(q)
    /\ NoRun /\ UNCHANGED yaccdefs

Escape ==
    /\ \E q \in Quote :
         /\ At(Escaped[q])
         /\ IF c.val = EOF \/ (c.val = NL /\ q = "\"") THEN Accept("literal") ELSE More(q)
    /\ NoRun /\ UNCHANGED yaccdefs

NumberFaulty ==                         \* forgets the exponent
    /\ At("number")
    /\ IF c.val \in Alnum \cup {"."} THEN More("number") /\ UpdateParts
       ELSE AcceptBack("number") /\ EndRun
    /\ UNCHANGED yaccdefs

\* A sign continues the number if it follows an exponent.
Number ==
    /\ \E exp \in BOOLEAN :
         /\ At(IF exp THEN "exponent" ELSE "number")
         /\ CASE ~exp /\ c.val = "e" -> More("exponent") /\ UpdateParts
              [] exp /\ c.val \in {"+", "-"} -> More("number") /\ UpdateParts
              [] (c.val \in Alnum \/ c.val = ".") /\ (exp \/ c.val # "e") ->
                    More("number") /\ UpdateParts
              [] OTHER -> AcceptBack("number") /\ EndRun
    /\ UNCHANGED yaccdefs

Analyze ==
    /\ \/ Start \/ Operators \/ Slash \/ BlockComment \/ Star \/ LineComment
       \/ Space \/ Dot \/ Dots \/ Prefix \/ PrefixOfUtf8 \/ Word
       \/ Literal \/ Escape \/ Number
    /\ UNCHANGED <<rest, driver>>

-----------------------------------------------------------------------------
(* Pdtoken: what is done with a token that was read                        *)

\* Ask for the next token.
Fetch ==
    /\ st' = "start" /\ chars' = <<>> /\ getting' = TRUE
    /\ eaten' = eaten \o chars
    /\ UNCHANGED <<code, base, follow, parts, yaccdefs, c>>

\* getnext_expand: a token that begins no directive.
Pass ==
    /\ st = "done" /\ mode = "text" /\ code # EOF
    /\ ~(at_bol /\ code \in Directive)
    /\ Fetch
    /\ at_bol' = ((at_bol /\ code = "space") \/ code = NL)
    /\ UNCHANGED <<rest, ps, mode, wanted, unit>>

\* process_include: the rest of the line is read first.
IncludeLine ==
    /\ st = "done" /\ mode = "text" /\ at_bol /\ code \in DOMAIN Include
    /\ Fetch
    /\ mode' = "include" /\ wanted' = Include[code]
    /\ UNCHANGED <<rest, ps, at_bol, unit>>

IncludeRest ==
    /\ st = "done" /\ mode = "include" /\ code \notin {NL, EOF}
    /\ Fetch
    /\ UNCHANGED <<rest, ps, at_bol, mode, wanted, unit>>

IncludeFile ==
    /\ st = "done" /\ mode = "include" /\ code \in {NL, EOF}
    /\ PushInput(wanted)
    /\ Fetch
    /\ mode' = "text" /\ wanted' = NoFile /\ at_bol' = TRUE
    /\ UNCHANGED <<source, lock, oval, lines, unit>>

\* process_pragma: the file is read in the middle of the line.
ProcessFile ==
    /\ st = "done" /\ mode = "text" /\ at_bol /\ code \in DOMAIN Process
    /\ unit = NoFile
    /\ PushInput(Process[code])
    /\ lock' = Len(cs')
    /\ Fetch
    /\ unit' = Process[code] /\ at_bol' = TRUE
    /\ UNCHANGED <<source, oval, lines, mode, wanted>>

\* The parser has met the end: the stack is unlocked, and eat_to_eol reads on,
\* from the end of the unit's file to that of the directive.
EndOfUnit ==
    /\ st = "done" /\ mode = "text" /\ code = EOF /\ unit # NoFile
    /\ lock' = 0
    /\ Fetch
    /\ unit' = NoFile /\ mode' = "eol"
    /\ UNCHANGED <<source, place, in, line, oval, lines, fresh, ps, at_bol, wanted>>

EatToEol ==
    /\ st = "done" /\ mode = "eol"
    /\ Fetch
    /\ mode' = IF code \in {NL, EOF} THEN "text" ELSE "eol"
    /\ UNCHANGED <<rest, ps, at_bol, wanted, unit>>

EndOfWorkspace ==
    /\ st = "done" /\ mode = "text" /\ code = EOF /\ unit = NoFile
    /\ st' = "end"
    /\ UNCHANGED <<input, code, chars, base, follow, parts, yaccdefs, driver>>

Drive ==
    \/ Pass \/ IncludeLine \/ IncludeRest \/ IncludeFile
    \/ ProcessFile \/ EndOfUnit \/ EatToEol \/ EndOfWorkspace

Next ==
    \/ GetNext /\ at_bol' = (at_bol \/ fi' # fi)       \* file_switch
       /\ UNCHANGED <<token, mode, wanted, unit, eaten>>
    \/ Analyze
    \/ Drive

Spec == Init /\ [][Next]_vars

-----------------------------------------------------------------------------
(* Properties                                                              *)

Reversed(s) == [i \in 1 .. Len(s) |-> s[Len(s) + 1 - i]]

\* The character that was read and not yet looked at.
Unseen == IF getting \/ st \in {"done", "end"} THEN <<>> ELSE <<c>>

\* Every character is in one token, and in its order, however many are put
\* back, in whatever file.
NothingLostOrRepeated ==
    eaten \o chars \o Unseen \o Reversed(ps) = fresh

\* A token that ends where the line does at the latest stays in one file, and
\* the end of a file is never put back, since a later file would then end there.
TokensStayInFiles ==
    /\ st = "done" /\ code \notin {"space", "literal"} =>
          \A i, j \in DOMAIN chars : chars[i].fi = chars[j].fi
    /\ \A i \in DOMAIN ps : ps[i].val # EOF

\* Runs p name the places of the characters s, one after the other; at is the
\* number of characters before each.
RunsName(p, s) ==
    \E at \in [1 .. Len(p) + 1 -> 0 .. Len(s)] :
        /\ at[1] = 0 /\ at[Len(p) + 1] = Len(s)
        /\ \A k \in 1 .. Len(p) :
             /\ at[k + 1] = at[k] + p[k].len
             /\ \A i \in 1 .. p[k].len :
                  Tokid(s[at[k] + i]) = <<p[k].fi, p[k].pos + i - 1>>

\* The parts of an identifier or number name the places of its characters,
\* wherever lines were spliced in it; all renaming goes by them.
PartsNameCharacters ==
    st = "done" /\ code \in {"identifier", "number"} => RunsName(parts, chars)

\* Where the program says it is, and where a token is, is right.
PlacesRight == PositionsRight /\ PartsNameCharacters

\* A unit ends with the file of its #pragma process, and the workspace with
\* its own, whatever was included and however the files end.
UnitsEndWithTheirFiles ==
    /\ st = "done" /\ code = EOF /\ unit # NoFile => fi = unit
    /\ st = "end" => cs = <<>>

\* Every character is read once and in its order, and the end of a file is the
\* end of what is in it: of tokens and of units.
ReadExactly ==
    NothingLostOrRepeated /\ TokensStayInFiles /\ UnitsEndWithTheirFiles

\* C 6.4.8, with the letters the instances have.
PpNumber(s) ==
    /\ \/ s[1] \in Digit
       \/ Len(s) > 1 /\ s[1] = "." /\ s[2] \in Digit
    /\ \A i \in 2 .. Len(s) :
          s[i] \in Alnum \cup {"."} \/ (s[i] \in {"+", "-"} /\ s[i - 1] = "e")

PpIdentifier(s) == s[1] \in Letter /\ \A i \in DOMAIN s : s[i] \in Alnum

Values(s) == [i \in DOMAIN s |-> s[i].val]

\* C 6.4: the next token is the longest sequence of characters that could be
\* one.  Only the sign after two exponent letters is not taken, as getnext
\* does not look at the second.
LongestTokens ==
    st = "done" /\ code \in {"identifier", "number", "op"} /\ ps # <<>> =>
        LET s == Values(chars)
            l == Append(s, ps[Len(ps)].val)
            twice == \E i \in 2 .. Len(s) : s[i] = "e" /\ s[i - 1] = "e"
        IN  CASE code = "identifier" -> PpIdentifier(s) /\ ~PpIdentifier(l)
              [] code = "number" -> PpNumber(s) /\ (PpNumber(l) => twice)
              [] code = "op" -> l \notin Operator

\* The characters read are those of CharOrder: the place in an open file is that
\* of the next character that counts, and the output is all that was read.
Phase == INSTANCE CharOrder WITH open <- <<>>, out <- <<>>
Reached(f, p) ==
    [fi |-> f, at |-> IF p = -1 THEN Len(text[f]) + 1 ELSE Phase!NextAt(f, p)]
OpenFiles ==
    Append([i \in DOMAIN cs |-> Reached(cs[i].fi, cs[i].pos)], Reached(fi, Offset(in)))
Order == INSTANCE CharOrder WITH open <- OpenFiles, out <- fresh
ImplementsCharOrder == Order!Spec

=============================================================================

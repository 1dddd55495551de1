---------------------------- MODULE LexerProofs ----------------------------
(***************************************************************************)
(* Lexer keeps its places right, reads every character exactly once and    *)
(* makes the longest tokens, for any files, texts and directives.          *)
(*                                                                         *)
(* At most two characters are put back.  The two of them, the character    *)
(* looked at and those of the token are next to each other in what was     *)
(* read (Adjacent), so the static oval is that of the token's last one     *)
(* when a file ends: the end is met after a newline only, and a token that *)
(* may be put back never sees it.  What has been read of a token is the    *)
(* beginning of what its place in getnext_analyze stands for (TextSoFar).  *)
(*                                                                         *)
(* The characters are those of CharOrder, step by step: rounds of          *)
(* simple_getnext begin where no trigraph and no splice is being read      *)
(* (ReadingOn), so each finds the next character that counts.              *)
(***************************************************************************)
EXTENDS Lexer, SequenceTheorems, TLAPS

-----------------------------------------------------------------------------
(* Types                                                                   *)

Fchar == [val : Char \cup {EOF, Cookie}, fi : File, pos : Int]
Stream == [pos : Int, bad : BOOLEAN, mypos : Int, dirty : BOOLEAN,
           ch : Char \cup {EOF}]
Saved == [fi : File, pos : Int, line : Int]
Part == [fi : File, pos : Int, len : Int]

TypeOK ==
    /\ text \in [File -> Seq(Char)] /\ trigraphs \in BOOLEAN
    /\ in \in Stream
    /\ fi \in File /\ line \in Int
    /\ cs \in Seq(Saved) /\ ps \in Seq(Fchar)
    /\ lock \in Nat /\ lines \in [File -> Nat]
    /\ c \in Fchar /\ getting \in BOOLEAN
    /\ chars \in Seq(Fchar) /\ fresh \in Seq(Fchar) /\ eaten \in Seq(Fchar)
    /\ base \in File \X Int /\ follow \in File \X Int /\ parts \in Seq(Part)
    /\ wanted \in File \cup {NoFile} /\ unit \in File \cup {NoFile}
    /\ mode = "include" => wanted \in File

-----------------------------------------------------------------------------
(* The inductive invariant                                                 *)

\* A stream can be read on from where it is, and its cached position is right.
Sound(i) ==
    /\ ~i.bad => i.pos >= 1
    /\ ~i.dirty => i.mypos = Offset(i)

\* The lines of a file that can be read on are all counted.
LinesCounted ==
    /\ ~in.bad => line - 1 <= lines[fi]
    /\ \A k \in DOMAIN cs : cs[k].pos # -1 =>
         cs[k].pos >= 1 /\ cs[k].line - 1 <= lines[cs[k].fi]

\* The unit's file is the one above the place where the stack is locked.
Locked ==
    IF unit = NoFile THEN lock = 0
    ELSE lock \in 1 .. Len(cs) /\ unit = IF lock = Len(cs) THEN fi ELSE cs[lock + 1].fi

\* The end of a file is passed on where the unit or the workspace ends.
EndsMet ==
    /\ ~getting /\ c.val = EOF => StopsHere
    /\ st = "done" /\ code = EOF => StopsHere
    /\ st = "end" => cs = <<>>

Final == {"done", "end", "exit"}

\* Where getnext_analyze may put back the character it looks at.
MayPutBack == {"operator", "slash", "line", "space", "dot", "dots", "prefix",
               "u8", "word", "number", "exponent"}

\* Where the characters so far are of one file.
InOneFile == MayPutBack \ {"line", "space"}

\* A character that another of its file comes after.
Plain(x) == x.val \notin {NL, EOF, Cookie}
LastOf(s) == s[Len(s)]

\* What may be put back, and when.
FewPutBack ==
    /\ Len(ps) <= 2
    /\ \A i \in DOMAIN ps :
         /\ ps[i].val # EOF
         /\ ps[i].val = Cookie => Len(ps) = 1 /\ getting /\ st = "start"
    /\ Len(ps) = 2 =>
         /\ ps[1].fi = ps[2].fi
         /\ \/ (st \in Final \/ (getting /\ st = "start")) /\ ps[2].val = "."
            \/ getting /\ st = "word" /\ ps[2].val = "8"
    /\ ~getting /\ st \notin Final /\ ps # <<>> =>
         /\ Len(ps) = 1
         /\ \/ st = "start" /\ c.val = "."
            \/ st = "word" /\ c.val = "8"
    /\ getting /\ st \notin {"start", "dot", "word"} => ps = <<>>
    /\ st = "done" /\ code \in Directive \cup {NL, EOF} => ps = <<>>
    /\ st \in Final => ~getting
    /\ ~getting /\ c.val = Cookie => st \in Final \cup {"start"}

\* x is followed by what was put back, or by what is in the file.
FollowedBy(x) ==
    IF ps = <<>> THEN fi = x.fi /\ oval = x.val ELSE LastOf(ps).fi = x.fi

Adjacent ==
    /\ st \in MayPutBack =>
         /\ chars # <<>> /\ Plain(LastOf(chars))
         /\ IF getting THEN FollowedBy(LastOf(chars))
            ELSE c.fi = LastOf(chars).fi /\ c.val # EOF
    /\ ~getting /\ st \notin Final /\ Plain(c) => FollowedBy(c)
    /\ ps # <<>> /\ Plain(ps[1]) => fi = ps[1].fi /\ oval = ps[1].val
    /\ st \in InOneFile \/ (st = "done" /\ code \notin {"space", "literal"}) =>
         \A i \in DOMAIN chars : chars[i].fi = chars[1].fi
    /\ st \in InOneFile => \A i \in DOMAIN chars : Plain(chars[i])
    /\ st = "start" => chars = <<>>

\* The runs so far and the current one name the characters so far.
RunsSoFar ==
    /\ st \in {"prefix", "dot"} => Len(chars) = 1
    /\ st = "dots" => Len(chars) = 2 /\ chars[2].val = "."
    /\ st = "u8" => Len(chars) = 2 /\ chars[2].val = "8"
    /\ st \in {"prefix", "dot", "dots", "u8"} =>
         parts = <<>> /\ base = Tokid(chars[1]) /\ follow = Plus(base, 1)
    /\ st \in {"word", "number", "exponent"} =>
         /\ follow[1] = base[1] /\ follow[2] > base[2]
         /\ RunsName(Append(parts, Run(base, follow)), chars)
    /\ PartsNameCharacters

\* The characters so far are the beginning of what the place stands for.
TextSoFar ==
    /\ st \in {"slash", "dot", "prefix"} => Len(chars) = 1
    /\ st = "slash" => chars[1].val = "/"
    /\ st = "dot" => chars[1].val = "."
    /\ st \in {"prefix", "u8"} => Len(chars) >= 1 /\ chars[1].val \in Letter
    /\ st = "word" => chars # <<>> /\ PpIdentifier(Values(chars))
    /\ st \in {"number", "exponent"} => chars # <<>> /\ PpNumber(Values(chars))
    /\ st = "exponent" => LastOf(chars).val = "e"
    /\ st = "number" /\ LastOf(chars).val = "e" =>
         Len(chars) > 1 /\ chars[Len(chars) - 1].val = "e"
    /\ LongestTokens

IInv ==
    /\ TypeOK /\ Sound(in) /\ LinesCounted /\ Locked /\ EndsMet
    /\ FewPutBack /\ Adjacent /\ RunsSoFar /\ NothingLostOrRepeated /\ TextSoFar

-----------------------------------------------------------------------------
(* Streams                                                                 *)

\* What Get leaves: a stream that failed has its position marked dirty, and one
\* that did not can put a character back.
Got(i) == i \in Stream /\ Sound(i) /\ (i.bad => i.dirty) /\ (~i.bad => i.pos >= 2)

LEMMA TellgSound ==
    ASSUME NEW i \in Stream, Sound(i)
    PROVE  LET t == Tellg(i)
           IN  /\ t \in Stream /\ Sound(t) /\ t.mypos = Offset(i)
               /\ t.bad = i.bad /\ t.pos = i.pos
<1>1. Offset(i) \in Int
  BY DEF Stream, Offset
<1>2. CASE i.dirty
  <2>1. Tellg(i) = [i EXCEPT !.dirty = FALSE, !.mypos = Offset(i)]
    BY <1>2 DEF Tellg
  <2>2. /\ Tellg(i) \in Stream /\ Tellg(i).mypos = Offset(i)
        /\ Tellg(i).bad = i.bad /\ Tellg(i).pos = i.pos
    BY <1>1, <2>1 DEF Stream
  <2> QED BY <2>2 DEF Sound, Offset
<1>3. CASE ~i.dirty
  BY <1>3 DEF Sound, Tellg
<1> QED BY <1>2, <1>3

LEMMA GetSound ==
    ASSUME TypeOK, NEW i \in Stream, Sound(i)
    PROVE  LET g == Get(i)
           IN  /\ Got(g)
               /\ i.bad => g.bad
               /\ g.ch = EOF <=> g.bad
               /\ ~g.bad => g.pos = i.pos + 1
<1>1. CASE i.bad \/ i.pos > Len(text[fi])
  BY <1>1 DEF Stream, Sound, Got, Get, Offset
<1>2. CASE ~(i.bad \/ i.pos > Len(text[fi]))
  <2> DEFINE g == Get(i)
  <2>1. text[fi] \in Seq(Char) /\ i.pos \in 1 .. Len(text[fi])
    BY <1>2 DEF TypeOK, Sound, Stream
  <2>2. text[fi][i.pos] \in Char
    BY <2>1, ElementOfSeq
  <2>3. text[fi][i.pos] # EOF
    BY <2>2, FileStackAssumption
  <2>4. g = [i EXCEPT !.pos = i.pos + 1, !.mypos = i.mypos + 1, !.ch = text[fi][i.pos]]
    BY <1>2 DEF Get
  <2>5. i.pos + 1 \in Int /\ i.mypos + 1 \in Int /\ text[fi][i.pos] \in Char \cup {EOF}
    BY <2>2 DEF Stream
  <2> HIDE DEF g
  <2>6. /\ g.pos = i.pos + 1 /\ g.mypos = i.mypos + 1
        /\ g.bad = i.bad /\ g.dirty = i.dirty /\ g.ch = text[fi][i.pos]
    BY <2>4 DEF Stream
  <2>7. g \in Stream
    BY <2>4, <2>5 DEF Stream
  <2>8. ~g.bad /\ g.pos >= 1 /\ g.pos >= 2 /\ (~g.dirty => g.mypos = g.pos)
    BY <1>2, <2>1, <2>6 DEF Stream, Sound, Offset
  <2>9. Got(g) /\ g.ch # EOF
    BY <2>3, <2>6, <2>7, <2>8 DEF Sound, Got, Offset
  <2>10. (i.bad => g.bad) /\ (g.ch = EOF <=> g.bad) /\ (~g.bad => g.pos = i.pos + 1)
    BY <1>2, <2>6, <2>8, <2>9
  <2> QED BY <2>9, <2>10 DEF g
<1> QED BY <1>1, <1>2

LEMMA PutbackSound ==
    ASSUME NEW i \in Stream, Got(i)
    PROVE  LET p == Putback(i)
           IN  /\ p \in Stream /\ Sound(p)
               /\ p.bad = i.bad
               /\ p.bad => p.dirty
               /\ ~i.bad => p.pos = i.pos - 1
<1> DEFINE p == Putback(i)
<1>1. CASE i.bad
  <2>1. p = [i EXCEPT !.mypos = i.mypos - 1, !.pos = i.pos]
    BY <1>1 DEF Putback
  <2>2. i.mypos - 1 \in Int /\ i.pos \in Int /\ i.dirty
    BY <1>1 DEF Stream, Got
  <2> HIDE DEF p
  <2>3. p \in Stream /\ p.bad = i.bad /\ p.dirty = i.dirty
    BY <2>1, <2>2 DEF Stream, Got
  <2> QED BY <1>1, <2>2, <2>3 DEF p, Sound
<1>2. CASE ~i.bad
  <2>1. p = [i EXCEPT !.mypos = i.mypos - 1, !.pos = i.pos - 1]
    BY <1>2 DEF Putback
  <2>2. i.mypos - 1 \in Int /\ i.pos - 1 \in Int
    BY DEF Stream, Got
  <2> HIDE DEF p
  <2>3. /\ p \in Stream /\ p.bad = i.bad /\ p.dirty = i.dirty
        /\ p.pos = i.pos - 1 /\ p.mypos = i.mypos - 1
    BY <2>1, <2>2 DEF Stream, Got
  <2> QED BY <1>2, <2>2, <2>3 DEF p, Sound, Got, Offset, Stream
<1> QED BY <1>1, <1>2

\* Two characters that were got can be put back.
LEMMA TwiceSound ==
    ASSUME TypeOK, NEW i \in Stream, Sound(i)
    PROVE  LET b == Get(Get(i))
           IN  /\ Got(Get(i)) /\ Got(b)
               /\ Putback(Get(i)) \in Stream /\ Sound(Putback(Get(i)))
               /\ Putback(Putback(b)) \in Stream /\ Sound(Putback(Putback(b)))
<1> DEFINE a == Get(i)
           b == Get(a)
           p == Putback(b)
<1>1. Got(a) /\ (i.bad => a.bad) /\ (~a.bad => a.pos = i.pos + 1)
  BY GetSound
<1>2. a \in Stream /\ Sound(a)
  BY <1>1 DEF Got
<1> HIDE DEF a
<1>3. Got(b) /\ (a.bad => b.bad) /\ (~b.bad => b.pos = a.pos + 1)
  BY <1>2, GetSound
<1> HIDE DEF b
<1>4. b \in Stream
  BY <1>3 DEF Got
<1>5. /\ p \in Stream /\ Sound(p) /\ p.bad = b.bad /\ (p.bad => p.dirty)
      /\ (~b.bad => p.pos = b.pos - 1)
  BY <1>3, <1>4, PutbackSound
<1> HIDE DEF p
<1>6. ~p.bad => p.pos >= 2
  <2> SUFFICES ASSUME ~p.bad PROVE p.pos >= 2
    OBVIOUS
  <2>1. ~b.bad /\ ~a.bad /\ ~i.bad
    BY <1>1, <1>3, <1>5
  <2>2. i.pos \in Int /\ i.pos >= 1
    BY <2>1 DEF Stream, Sound
  <2> QED BY <1>1, <1>3, <1>5, <2>1, <2>2
<1>7. Got(p)
  BY <1>5, <1>6 DEF Got
<1>8. Putback(p) \in Stream /\ Sound(Putback(p))
  BY <1>5, <1>7, PutbackSound
<1>9. Putback(a) \in Stream /\ Sound(Putback(a))
  BY <1>1, <1>2, PutbackSound
<1> QED BY <1>1, <1>3, <1>8, <1>9 DEF a, b, p

\* What a round of simple_getnext may have found.
Found(r) ==
    /\ r.in \in Stream /\ Sound(r.in)
    /\ r.val \in Char \cup {EOF} /\ r.splice \in BOOLEAN
    /\ ~r.splice /\ r.val = EOF => r.in.bad

LEMMA CharsOfCode ==
    /\ {"\\", "?", NL, CR} \subseteq Char
    /\ \A x \in DOMAIN Trigraph : Trigraph[x] \in Char
    /\ EOF \notin Char /\ Cookie \notin Char
BY FileStackAssumption

LEMMA BackslashFound ==
    ASSUME TypeOK, NEW i \in Stream, Sound(i)
    PROVE  Found(Backslash(i))
<1> DEFINE a == Get(i)
           b == Get(a)
<1>1. /\ Got(a) /\ Got(b) /\ Putback(a) \in Stream /\ Sound(Putback(a))
      /\ Putback(Putback(b)) \in Stream /\ Sound(Putback(Putback(b)))
  BY TwiceSound
<1> HIDE DEF a, b
<1>2. /\ Found(Again(a)) /\ Found(Again(b))
      /\ Found(Value("\\", Putback(a))) /\ Found(Value("\\", Putback(Putback(b))))
  BY <1>1, CharsOfCode DEF Found, Got, Again, Value
<1>3. Backslash(i) \in {Again(a), Again(b), Value("\\", Putback(a)),
                        Value("\\", Putback(Putback(b)))}
  BY DEF Backslash, a, b
<1> QED BY <1>2, <1>3

LEMMA QuestionFound ==
    ASSUME TypeOK, NEW i \in Stream, Sound(i)
    PROVE  Found(Question(i))
<1> DEFINE a == Get(i)
           b == Get(a)
<1>1. /\ Got(a) /\ Got(b) /\ Putback(a) \in Stream /\ Sound(Putback(a))
      /\ Putback(Putback(b)) \in Stream /\ Sound(Putback(Putback(b)))
  BY TwiceSound
<1> HIDE DEF a, b
<1>2. /\ Found(Value("?", Putback(a))) /\ Found(Value("?", Putback(Putback(b))))
      /\ b.ch \in DOMAIN Trigraph => Found(Value(Trigraph[b.ch], b))
  BY <1>1, CharsOfCode DEF Found, Got, Value
<1>3. Found(Backslash(b))
  BY <1>1, BackslashFound DEF Got
<1>4. \/ Question(i) \in {Value("?", Putback(a)), Value("?", Putback(Putback(b))),
                          Backslash(b)}
      \/ b.ch \in DOMAIN Trigraph /\ Question(i) = Value(Trigraph[b.ch], b)
  BY DEF Question, a, b
<1> QED BY <1>2, <1>3, <1>4

LEMMA SimpleFound ==
    ASSUME TypeOK, Sound(in)
    PROVE  /\ Found(Simple)
           /\ in.bad => ~Simple.splice /\ Simple.val = EOF
<1> DEFINE t == Tellg(in)
           i == Get(t)
<1>1. in \in Stream
  BY DEF TypeOK
<1>2. t \in Stream /\ Sound(t) /\ t.bad = in.bad
  BY <1>1, TellgSound
<1> HIDE DEF t
<1>3. Got(i) /\ (t.bad => i.bad) /\ (i.ch = EOF <=> i.bad)
  BY <1>2, GetSound
<1> HIDE DEF i
<1>4. i \in Stream /\ Sound(i) /\ i.ch \in Char \cup {EOF}
  BY <1>3 DEF Got, Stream
<1>5. Found(Backslash(i)) /\ Found(Question(i))
  BY <1>4, BackslashFound, QuestionFound
<1>6. Found(Value(i.ch, i))
  BY <1>3, <1>4 DEF Found, Value
<1>7. Found(Simple)
  BY <1>5, <1>6 DEF Simple, t, i
<1>8. ASSUME in.bad PROVE ~Simple.splice /\ Simple.val = EOF
  <2>1. i.ch = EOF
    BY <1>2, <1>3, <1>8
  <2>2. Simple = Value(i.ch, i)
    BY <2>1 DEF Simple, EOF, t, i
  <2> QED BY <2>1, <2>2 DEF Value
<1> QED BY <1>7, <1>8

-----------------------------------------------------------------------------
(* What a step of getnext_analyze does with the character                  *)

Taken ==
    /\ chars' = Append(chars, c) /\ ps' = ps
    /\ (getting' /\ st' \notin Final) \/ (~getting' /\ st' = "done")
    /\ st = "start" /\ c.val = "." => getting' /\ st' = "dot"
    /\ st = "word" => getting' /\ st' = "word"
    /\ st' \in MayPutBack => c.val \notin {NL, EOF} /\ (st = "start" => Plain(c))
    /\ st' \in InOneFile \/ (st' = "done" /\ code' \notin {"space", "literal"}) =>
         st \in InOneFile \cup {"start"}
    /\ st' = "done" /\ code' \in Directive \cup {NL, EOF} =>
         code' = c.val /\ st = "start"

GivenBack ==
    /\ st \in MayPutBack /\ chars' = chars /\ ps' = Append(ps, c)
    /\ st = "word" => c.val \notin Alnum
    /\ \/ st = "prefix" /\ getting' /\ st' = "word"
       \/ /\ ~getting' /\ st' = "done"
          /\ \/ code' = "space" /\ st \in {"line", "space"}
             \/ code' \in {"op", ".", "identifier", "number"} /\ st \in InOneFile

TwoGivenBack ==
    /\ chars' = <<chars[1]>> /\ ps' = ps \o <<c, chars[2]>>
    /\ \/ st = "dots" /\ ~getting' /\ st' = "done" /\ code' = "."
       \/ st = "u8" /\ getting' /\ st' = "word"

Stopped == st = "star" /\ chars' = chars /\ ps' = ps /\ ~getting' /\ st' = "exit"

LEMMA OperatorEnds ==
    ASSUME NEW S, NEW o \in Seq(S), NEW x \in S, Append(o, x) \in Operator
    PROVE  x \notin {NL, EOF, Cookie, "."}
<1> DEFINE p == Append(o, x)
           Sign == {"+", "-", "&", "|", "!", "%", "*", "=", "^", ">", "<"}
<1>1. x = p[Len(p)]
  OBVIOUS
<1> HIDE DEF p
<1>2. p \in Operator
  BY DEF p
<1>3. ASSUME NEW y \in Sign, p \in {<<y>>, <<y, "=">>, <<y, y>>, <<y, y, "=">>}
      PROVE  x \in Sign
  <2>1. CASE p = <<y>>
    BY <1>1, <2>1
  <2>2. CASE p = <<y, "=">>
    BY <1>1, <2>2
  <2>3. CASE p = <<y, y>>
    BY <1>1, <2>3
  <2>4. CASE p = <<y, y, "=">>
    BY <1>1, <2>4
  <2> QED BY <1>3, <2>1, <2>2, <2>3, <2>4
<1>4. ASSUME p = <<"-", ">">> PROVE x \in Sign
  BY <1>1, <1>4
<1>5. \/ \E y \in Sign : p \in {<<y>>, <<y, "=">>, <<y, y>>, <<y, y, "=">>}
      \/ p = <<"-", ">">>
  BY <1>2 DEF Operator
<1>6. x \in Sign
  BY <1>3, <1>4, <1>5
<1> QED BY <1>6 DEF NL, EOF, Cookie

LEMMA KindsAreNoDirectives ==
    {"space", "op", "identifier", "number", "literal", ".", "..."}
        \cap (Directive \cup {NL, EOF}) = {}
BY LexerAssumption DEF Kind, NL, EOF

LEMMA AnalyzeMoves ==
    ASSUME Analyze, TypeOK
    PROVE  /\ ~getting /\ st \notin Final /\ st' \notin {"start", "end"}
           /\ UNCHANGED <<rest, driver, c>> /\ getting' \in BOOLEAN
           /\ Taken \/ GivenBack \/ TwoGivenBack \/ Stopped
<1> DEFINE Moves ==
             /\ ~getting /\ st \notin Final /\ st' \notin {"start", "end"}
             /\ c' = c /\ getting' \in BOOLEAN
             /\ Taken \/ GivenBack \/ TwoGivenBack \/ Stopped
<1> SUFFICES Moves
  BY DEF Analyze
<1>1. getting \in BOOLEAN /\ chars \in Seq(Fchar) /\ c \in Fchar
  BY DEF TypeOK
<1> USE DEF At, Final, MayPutBack, InOneFile, Plain
<1> DEFINE Go(s) == /\ c' = c /\ getting' = TRUE /\ st' = s
                    /\ ps' = ps /\ chars' = Append(chars, c)
           Stop(k) == /\ c' = c /\ getting' = FALSE /\ st' = "done" /\ code' = k
                      /\ ps' = ps /\ chars' = Append(chars, c)
           Back(k) == /\ c' = c /\ getting' = FALSE /\ st' = "done" /\ code' = k
                      /\ ps' = Append(ps, c) /\ chars' = chars
<1>2. ASSUME NEW s PROVE More(s) => Go(s)
  BY DEF More
<1>3. ASSUME NEW k, ~getting PROVE Accept(k) => Stop(k)
  BY <1>1, <1>3 DEF Accept
<1>4. ASSUME NEW k, ~getting PROVE AcceptBack(k) => Back(k)
  BY <1>1, <1>4 DEF AcceptBack
<1>5. CASE Slash
  <2>1. ~getting /\ st = "slash"
    BY <1>5 DEF Slash
  <2>2. Go("block") \/ (Go("line") /\ c.val = "/") \/ Stop("op") \/ Back("op")
    BY <1>2, <1>3, <1>4, <1>5, <2>1 DEF Slash
  <2> QED BY <2>1, <2>2, KindsAreNoDirectives DEF Taken, GivenBack, NL, EOF
<1>6. CASE Space
  <2>1. ~getting /\ st = "space"
    BY <1>6 DEF Space
  <2>2. (Go("space") /\ c.val \in Blank) \/ Back("space")
    BY <1>2, <1>4, <1>6, <2>1 DEF Space
  <2> QED BY <2>1, <2>2 DEF Taken, GivenBack, NL, CR, EOF, Blank
<1>7. CASE LineComment
  <2>1. ~getting /\ st = "line"
    BY <1>7 DEF LineComment
  <2>2. (Go("line") /\ c.val \notin {NL, EOF}) \/ Back("space")
    BY <1>2, <1>4, <1>7, <2>1 DEF LineComment
  <2> QED BY <2>1, <2>2 DEF Taken, GivenBack
<1>8. CASE BlockComment
  <2>1. ~getting /\ st = "block"
    BY <1>8 DEF BlockComment
  <2>2. Go("star") \/ Go("block")
    BY <1>2, <1>8, <2>1 DEF BlockComment
  <2> QED BY <2>1, <2>2 DEF Taken
<1>9. CASE Star
  <2>1. ~getting /\ st = "star"
    BY <1>9 DEF Star
  <2>2. \/ Go("star") \/ Go("block") \/ Stop("space")
        \/ st' = "exit" /\ UNCHANGED <<code, chars, getting, ps, c>>
    BY <1>2, <1>3, <1>9, <2>1 DEF Star
  <2>3. CASE st' = "exit" /\ UNCHANGED <<code, chars, getting, ps, c>>
    <3>1. getting' \in BOOLEAN /\ ~getting'
      BY <1>1, <2>1, <2>3
    <3> QED BY <2>1, <2>3, <3>1 DEF Stopped
  <2>4. CASE Go("star") \/ Go("block") \/ Stop("space")
    BY <2>1, <2>4, KindsAreNoDirectives DEF Taken
  <2> QED BY <2>2, <2>3, <2>4
<1>10. CASE Dot
  <2>1. ~getting /\ st = "dot"
    BY <1>10 DEF Dot
  <2>2. (Go("number") /\ c.val \in Digit) \/ (Go("dots") /\ c.val = ".") \/ Back(".")
    BY <1>2, <1>4, <1>10, <2>1 DEF Dot
  <2> QED BY <2>1, <2>2 DEF Taken, GivenBack, Digit, NL, EOF
<1>11. CASE Dots
  <2>1. ~getting /\ st = "dots"
    BY <1>11 DEF Dots
  <2>2. CASE c.val = "."
    <3>1. Stop("...")
      BY <1>3, <1>11, <2>1, <2>2 DEF Dots
    <3> QED BY <2>1, <3>1, KindsAreNoDirectives DEF Taken
  <2>3. CASE c.val # "."
    BY <1>1, <1>11, <2>1, <2>3 DEF Dots, TwoGivenBack
  <2> QED BY <2>2, <2>3
<1>12. CASE Prefix
  <2>1. ~getting /\ st = "prefix"
    BY <1>12 DEF Prefix
  <2>2. \/ \E q \in Quote : Go(q)
        \/ Go("u8") /\ c.val = "8"
        \/ /\ ps' = Append(ps, c) /\ getting' = TRUE
           /\ st' = "word" /\ UNCHANGED <<code, chars, c>>
    BY <1>2, <1>12, <2>1 DEF Prefix
  <2> QED BY <2>1, <2>2 DEF Taken, GivenBack, Quote, NL, EOF
<1>13. CASE PrefixOfUtf8
  <2>1. ~getting /\ st = "u8"
    BY <1>13 DEF PrefixOfUtf8
  <2>2. \/ \E q \in Quote : Go(q)
        \/ /\ ps' = ps \o <<c, chars[2]>> /\ getting' = TRUE
           /\ st' = "word" /\ chars' = <<chars[1]>> /\ UNCHANGED <<code, c>>
    BY <1>2, <1>13, <2>1 DEF PrefixOfUtf8
  <2> QED BY <2>1, <2>2 DEF Taken, TwoGivenBack, Quote
<1>14. CASE Word
  <2>1. ~getting /\ st = "word"
    BY <1>14 DEF Word
  <2>2. (Go("word") /\ c.val \in Alnum) \/ (Back("identifier") /\ c.val \notin Alnum)
    BY <1>2, <1>4, <1>14, <2>1 DEF Word
  <2> QED BY <2>1, <2>2 DEF Taken, GivenBack, Alnum, Letter, Digit, NL, EOF
<1>15. CASE Number
  <2>1. ~getting /\ st \in {"number", "exponent"}
    BY <1>15 DEF Number
  <2>2. \/ \E s \in {"number", "exponent"} :
             Go(s) /\ c.val \in Alnum \cup {"+", "-", "."}
        \/ Back("number")
    BY <1>2, <1>4, <1>15, <2>1 DEF Number, Alnum, Letter
  <2> QED BY <2>1, <2>2 DEF Taken, GivenBack, Alnum, Letter, Digit, NL, EOF
<1>16. CASE Literal \/ Escape
  <2>1. ~getting /\ st \in {"'", "\"", "character escape", "string escape"}
    BY <1>16 DEF Literal, Escape, Quote, Escaped
  <2>2. \/ \E s \in {"'", "\"", "character escape", "string escape"} : Go(s)
        \/ Stop("literal")
    BY <1>2, <1>3, <1>16, <2>1 DEF Literal, Escape, Quote, Escaped
  <2> QED BY <2>1, <2>2, KindsAreNoDirectives DEF Taken
<1>17. CASE Start
  <2>1. ~getting /\ st = "start"
    BY <1>17 DEF Start
  <2>2. \/ More("prefix") /\ c.val \in Letter
        \/ More("word") /\ c.val \in Letter
        \/ More("number") /\ c.val \in Digit
        \/ More("dot") /\ c.val = "."
        \/ More(c.val) /\ c.val \in Quote
        \/ More("slash") /\ c.val = "/"
        \/ More("space") /\ c.val \in Blank
        \/ More("operator") /\ <<c.val>> \in Operator
        \/ Accept(c.val) /\ c.val # "."
    <3>1. CASE c.val = "."
      BY <1>17, <3>1 DEF Start, Letter, Digit, Quote, Blank, CR
    <3>2. CASE c.val # "."
      BY <1>17, <3>2 DEF Start, Letter
    <3> QED BY <3>1, <3>2
  <2>4. \/ Go("prefix") /\ c.val \in Letter
        \/ Go("word") /\ c.val \in Letter
        \/ Go("number") /\ c.val \in Digit
        \/ Go("dot") /\ c.val = "."
        \/ Go(c.val) /\ c.val \in Quote
        \/ Go("slash") /\ c.val = "/"
        \/ Go("space") /\ c.val \in Blank
        \/ Go("operator") /\ <<c.val>> \in Operator
        \/ Stop(c.val) /\ c.val # "."
    BY <1>2, <1>3, <2>1, <2>2
  <2>3. <<c.val>> \in Operator => c.val \notin {NL, EOF, Cookie, "."}
    <3>1. <<>> \in Seq({c.val}) /\ Append(<<>>, c.val) = <<c.val>>
      OBVIOUS
    <3> QED BY <3>1, OperatorEnds
  <2> QED BY <2>1, <2>3, <2>4
          DEF Taken, Letter, Digit, Quote, Blank, NL, CR, EOF, Cookie
<1>18. CASE Operators
  <2>1. ~getting /\ st = "operator"
    BY <1>18 DEF Operators
  <2> DEFINE o == [i \in DOMAIN chars |-> chars[i].val]
  <2>2. \/ Go("operator") /\ Append(o, c.val) \in Operator
        \/ Stop("op") \/ Back("op")
    BY <1>2, <1>3, <1>4, <1>18, <2>1 DEF Operators
  <2>3. Append(o, c.val) \in Operator => c.val \notin {NL, EOF, Cookie}
    <3> DEFINE V == Char \cup {EOF, Cookie}
    <3>1. c.val \in V /\ \A i \in DOMAIN chars : chars[i].val \in V
      <4>1. \A x \in Fchar : x.val \in V
        BY DEF Fchar
      <4>2. \A i \in DOMAIN chars : chars[i] \in Fchar
        BY <1>1, ElementOfSeq
      <4> QED BY <1>1, <4>1, <4>2
    <3>2. o \in Seq(V)
      <4>1. Len(chars) \in Nat /\ DOMAIN chars = 1 .. Len(chars)
        BY <1>1
      <4>2. o \in [1 .. Len(chars) -> V]
        BY <3>1, <4>1
      <4> QED BY <4>1, <4>2, SeqDef
    <3> QED BY <3>1, <3>2, OperatorEnds
  <2> QED BY <2>1, <2>2, <2>3, KindsAreNoDirectives DEF Taken, GivenBack
<1> QED
  BY <1>5, <1>6, <1>7, <1>8, <1>9, <1>10, <1>11, <1>12, <1>13, <1>14, <1>15, <1>16,
     <1>17, <1>18 DEF Analyze

\* What becomes of the current run.
RunStep ==
    /\ NoRun \/ StartRun \/ UpdateParts \/ EndRun
    /\ st' \in {"prefix", "dot"} =>
         st = "start" /\ StartRun /\ chars' = Append(chars, c)
    /\ st' = "dots" =>
         st = "dot" /\ c.val = "." /\ NoRun /\ chars' = Append(chars, c)
    /\ st' = "u8" =>
         st = "prefix" /\ c.val = "8" /\ NoRun /\ chars' = Append(chars, c)
    /\ st' \in {"word", "number", "exponent"} =>
         \/ st = "start" /\ StartRun /\ chars' = Append(chars, c)
         \/ /\ st \in {"dot", "word", "number", "exponent"}
            /\ UpdateParts /\ chars' = Append(chars, c)
         \/ st = "prefix" /\ NoRun /\ chars' = chars
         \/ st = "u8" /\ NoRun /\ chars' = <<chars[1]>>
    /\ st' = "done" /\ code' \in {"identifier", "number"} =>
         st \in {"word", "number", "exponent"} /\ EndRun /\ chars' = chars

LEMMA AnalyzeRuns ==
    ASSUME Analyze, TypeOK
    PROVE  RunStep
<1>1. c.val \notin {"identifier", "number"}
  BY FileStackAssumption DEF TypeOK, Fchar, Kind, EOF, Cookie
<1> DEFINE Go(s) == st' = s /\ chars' = Append(chars, c)
           Stop(k) == st' = "done" /\ code' = k
           Back(k) == st' = "done" /\ code' = k /\ chars' = chars
<1>2. ASSUME NEW s PROVE More(s) => Go(s)
  BY DEF More
<1>3. ASSUME NEW k PROVE Accept(k) => Stop(k)
  BY DEF Accept
<1>4. ASSUME NEW k PROVE AcceptBack(k) => Back(k)
  BY DEF AcceptBack
<1>5. CASE Slash \/ Space \/ LineComment \/ BlockComment \/ Operators
  <2>1. /\ NoRun
        /\ \/ \E s \in {"block", "line", "space", "star", "operator"} : Go(s)
           \/ \E k \in {"op", "space"} : Stop(k)
    BY <1>2, <1>3, <1>4, <1>5
       DEF Slash, Space, LineComment, BlockComment, Operators
  <2> QED BY <2>1 DEF RunStep
<1>6. CASE Star
  <2>1. NoRun /\ (Go("star") \/ Go("block") \/ Stop("space") \/ st' = "exit")
    BY <1>2, <1>3, <1>6 DEF Star
  <2> QED BY <2>1 DEF RunStep
<1>7. CASE Dot
  <2>1. /\ st = "dot"
        /\ \/ Go("number") /\ UpdateParts
           \/ Go("dots") /\ c.val = "." /\ NoRun
           \/ Back(".") /\ NoRun
    BY <1>2, <1>4, <1>7 DEF Dot, At
  <2> QED BY <2>1 DEF RunStep
<1>8. CASE Dots
  <2>1. NoRun /\ (Stop("...") \/ Stop("."))
    BY <1>3, <1>8 DEF Dots
  <2> QED BY <2>1 DEF RunStep
<1>9. CASE Prefix
  <2>1. /\ st = "prefix" /\ NoRun
        /\ \/ \E q \in Quote : Go(q)
           \/ Go("u8") /\ c.val = "8"
           \/ st' = "word" /\ chars' = chars
    BY <1>2, <1>9 DEF Prefix, At
  <2> QED BY <2>1 DEF RunStep, Quote
<1>10. CASE PrefixOfUtf8
  <2>1. /\ st = "u8" /\ NoRun
        /\ \/ \E q \in Quote : Go(q)
           \/ st' = "word" /\ chars' = <<chars[1]>>
    BY <1>2, <1>10 DEF PrefixOfUtf8, At
  <2> QED BY <2>1 DEF RunStep, Quote
<1>11. CASE Word
  <2>1. /\ st = "word"
        /\ (Go("word") /\ UpdateParts) \/ (Back("identifier") /\ EndRun)
    BY <1>2, <1>4, <1>11 DEF Word, At
  <2> QED BY <2>1 DEF RunStep
<1>12. CASE Number
  <2>1. /\ st \in {"number", "exponent"}
        /\ \/ \E s \in {"number", "exponent"} : Go(s) /\ UpdateParts
           \/ Back("number") /\ EndRun
    BY <1>2, <1>4, <1>12 DEF Number, At
  <2> QED BY <2>1 DEF RunStep
<1>13. CASE Literal \/ Escape
  <2>1. /\ NoRun
        /\ \/ \E s \in {"'", "\"", "character escape", "string escape"} : Go(s)
           \/ Stop("literal")
    BY <1>2, <1>3, <1>13 DEF Literal, Escape, Quote, Escaped
  <2> QED BY <2>1 DEF RunStep
<1>14. CASE Start
  <2>1. \/ \E s \in {"prefix", "word", "number", "dot"} : More(s) /\ StartRun
        \/ \E s \in {"'", "\"", "slash", "space", "operator"} : More(s) /\ NoRun
        \/ Accept(c.val) /\ NoRun
    BY <1>14 DEF Start, Quote
  <2>2. \/ \E s \in {"prefix", "word", "number", "dot"} : Go(s) /\ StartRun
        \/ \E s \in {"'", "\"", "slash", "space", "operator"} : Go(s) /\ NoRun
        \/ Stop(c.val) /\ NoRun
    BY <1>2, <1>3, <2>1
  <2>3. st = "start"
    BY <1>14 DEF Start, At
  <2> QED BY <1>1, <2>2, <2>3 DEF RunStep
<1> QED
  BY <1>5, <1>6, <1>7, <1>8, <1>9, <1>10, <1>11, <1>12, <1>13, <1>14 DEF Analyze


-----------------------------------------------------------------------------
(* Types and streams are preserved                                         *)

LEMMA TellgPlace ==
    ASSUME TypeOK, Sound(in)
    PROVE  Tellg(in).mypos \in Int /\ Tellg(in).mypos = Offset(in)
<1>1. in \in Stream
  BY DEF TypeOK
<1>2. Offset(in) \in Int
  BY <1>1 DEF Stream, Offset
<1> QED BY <1>1, <1>2, TellgSound

\* A file is opened again where the stack says.
LEMMA SeekSound ==
    ASSUME NEW p \in Int, p = -1 \/ p >= 1
    PROVE  LET s == Seekg(Opened, p)
           IN  s \in Stream /\ Sound(s) /\ s.bad = (p = -1)
<1> DEFINE s == Seekg(Opened, p)
<1>1. Opened = [pos |-> 1, bad |-> FALSE, mypos |-> 0, dirty |-> TRUE, ch |-> EOF]
  BY DEF Opened
<1>2. /\ s.pos = p /\ s.bad = (p = -1) /\ s.mypos = 0 /\ s.dirty = TRUE /\ s.ch = EOF
      /\ s = [Opened EXCEPT !.pos = p, !.bad = (p = -1), !.dirty = TRUE]
  BY <1>1 DEF Seekg
<1>3. Opened \in Stream /\ (p = -1) \in BOOLEAN
  BY <1>1 DEF Stream
<1>4. s \in Stream
  BY <1>2, <1>3 DEF Stream
<1> HIDE DEF s
<1>5. Sound(s) /\ s.bad = (p = -1)
  BY <1>2 DEF Sound
<1> QED BY <1>4, <1>5 DEF s

LEMMA GetNextTypes ==
    ASSUME TypeOK, Sound(in), LinesCounted, GetNext, UNCHANGED <<token, mode, wanted, unit, eaten>>
    PROVE  TypeOK' /\ Sound(in)'
<1>1. Simple.in \in Stream /\ Sound(Simple.in) /\ Simple.val \in Char \cup {EOF}
  BY SimpleFound DEF Found
<1>2. Tellg(in).mypos \in Int
  BY TellgPlace
<1>3. UNCHANGED <<text, trigraphs, lock, chars, base, follow, parts, st, code>>
  BY DEF GetNext, TakeBack, Splice, Deliver, Inject, End, Pop, source, token
<1> USE DEF TypeOK
<1>4. ASSUME LineProcessed PROVE lines' \in [File -> Nat]
  <2>1. lines[fi] \in Nat /\ lines[fi] + 1 \in Nat
    BY SMTT(30)
  <2>2. \E n \in Nat : lines' = [lines EXCEPT ![fi] = n]
    BY <1>4, <2>1 DEF LineProcessed
  <2> QED BY <2>2
<1>5. ASSUME NEW v \in Char \cup {EOF}, Return(v)
      PROVE  c' \in Fchar /\ fresh' \in Seq(Fchar) /\ getting' \in BOOLEAN
  <2>1. c' \in Fchar
    BY <1>2, <1>5 DEF Return, Fchar
  <2> QED BY <1>5, <2>1, AppendProperties DEF Return
<1>6. CASE TakeBack
  <2>1. Len(ps) \in 1 .. Len(ps)
    BY <1>6 DEF TakeBack
  <2>2. c' \in Fchar
    BY <1>6, <2>1, ElementOfSeq DEF TakeBack
  <2>3. ps' \in Seq(Fchar)
    BY <1>6, SMTT(30) DEF TakeBack
  <2> QED BY <1>3, <1>6, <2>2, <2>3 DEF TakeBack, place, Sound, Offset
<1>7. CASE Splice
  <2>1. lines' \in [File -> Nat]
    BY <1>4, <1>7 DEF Splice
  <2>2. line' \in Int
    BY <1>7 DEF Splice
  <2>3. in' \in Stream /\ Sound(in')
    BY <1>1, <1>7 DEF Splice
  <2>4. UNCHANGED <<fi, cs, ps, c, getting, fresh>>
    BY <1>7 DEF Splice, place
  <2> QED BY <1>3, <2>1, <2>2, <2>3, <2>4 DEF Sound, Offset
<1>8. CASE Deliver
  <2>1. LineProcessed \/ lines' = lines
    BY <1>8 DEF Deliver
  <2>2. lines' \in [File -> Nat]
    BY <1>4, <2>1
  <2>3. line' \in Int
    BY <1>8 DEF Deliver
  <2>4. in' \in Stream /\ Sound(in') /\ Return(Simple.val)
    BY <1>1, <1>8 DEF Deliver
  <2>5. UNCHANGED <<fi, cs, ps>>
    BY <1>8 DEF Deliver, place
  <2> QED BY <1>1, <1>3, <1>5, <2>2, <2>3, <2>4, <2>5 DEF Sound, Offset
<1>9. CASE Inject
  <2>1. NL \in Char \cup {EOF}
    BY CharsOfCode
  <2>2. in' \in Stream /\ Sound(in') /\ Return(NL)
    BY <1>1, <1>9 DEF Inject
  <2>3. line' \in Int
    BY <1>9 DEF Inject
  <2>4. UNCHANGED <<fi, cs, ps, lines>>
    BY <1>9 DEF Inject, place
  <2> QED BY <1>3, <1>5, <2>1, <2>2, <2>3, <2>4 DEF Sound, Offset
<1>10. CASE End
  <2>1. in' \in Stream /\ Sound(in') /\ Return(EOF)
    BY <1>1, <1>10 DEF End
  <2>2. UNCHANGED <<fi, cs, ps, line, lines>>
    BY <1>10 DEF End, place
  <2> QED BY <1>3, <1>5, <2>1, <2>2 DEF Sound, Offset
<1>11. CASE Pop
  <2> DEFINE fc == cs[Len(cs)]
  <2>1. fc \in Saved
    <3>1. Len(cs) \in 1 .. Len(cs)
      BY <1>11 DEF Pop, StopsHere
    <3> QED BY <3>1, ElementOfSeq
  <2>2. cs' \in Seq(Saved)
    BY <1>11, SMTT(30) DEF Pop
  <2>3. fi' = fc.fi /\ line' = fc.line /\ fi' \in File /\ line' \in Int
    BY <1>11, <2>1 DEF Pop, SetInput, Saved
  <2>4. in' = Seekg(Opened, fc.pos) /\ fc.pos \in Int
    BY <1>11, <2>1 DEF Pop, Saved
  <2>5. fc.pos = -1 \/ fc.pos >= 1
    BY <1>11, SMTT(30) DEF Pop, StopsHere, LinesCounted
  <2>6. in' \in Stream /\ Sound(in')
    BY <2>4, <2>5, SeekSound
  <2> QED BY <1>3, <1>11, <2>2, <2>3, <2>6 DEF Pop, Sound, Offset
<1> QED BY <1>6, <1>7, <1>8, <1>9, <1>10, <1>11 DEF GetNext

\* Runs and parts are of files and offsets, whichever way they go on.
LEMMA RunTypes ==
    ASSUME TypeOK, NoRun \/ StartRun \/ UpdateParts \/ EndRun
    PROVE  base' \in File \X Int /\ follow' \in File \X Int /\ parts' \in Seq(Part)
<1>1. base \in File \X Int /\ follow \in File \X Int /\ parts \in Seq(Part) /\ c \in Fchar
  BY DEF TypeOK
<1>2. Tokid(c) \in File \X Int /\ Plus(Tokid(c), 1) \in File \X Int
  BY <1>1 DEF Tokid, Plus, Fchar
<1>3. Plus(follow, 1) \in File \X Int
  BY <1>1 DEF Plus
<1>4. Run(base, follow) \in Part
  BY <1>1 DEF Run, Part
<1>5. Append(parts, Run(base, follow)) \in Seq(Part)
  BY <1>1, <1>4
<1>6. CASE NoRun
  BY <1>1, <1>6 DEF NoRun
<1>7. CASE StartRun
  BY <1>2, <1>7 DEF StartRun
<1>8. CASE UpdateParts
  BY <1>1, <1>2, <1>3, <1>5, <1>8 DEF UpdateParts
<1>9. CASE EndRun
  BY <1>1, <1>5, <1>9 DEF EndRun
<1> QED BY <1>6, <1>7, <1>8, <1>9

LEMMA AnalyzeTypes ==
    ASSUME TypeOK, Sound(in), RunsSoFar, Analyze
    PROVE  TypeOK' /\ Sound(in)'
<1>1. /\ getting' \in BOOLEAN /\ UNCHANGED <<rest, driver, c>>
      /\ Taken \/ GivenBack \/ TwoGivenBack \/ Stopped
      /\ NoRun \/ StartRun \/ UpdateParts \/ EndRun
  BY AnalyzeMoves, AnalyzeRuns DEF RunStep
<1>2. UNCHANGED <<text, trigraphs, in, fi, line, cs, lock, lines, c, fresh, eaten,
                  mode, wanted, unit>>
  BY <1>1 DEF rest, driver, source, place
<1>3. base' \in File \X Int /\ follow' \in File \X Int /\ parts' \in Seq(Part)
  BY <1>1, RunTypes
<1>4. c \in Fchar /\ chars \in Seq(Fchar) /\ ps \in Seq(Fchar)
  BY DEF TypeOK
<1>5. chars' \in Seq(Fchar) /\ ps' \in Seq(Fchar)
  <2>1. CASE Taken
    BY <1>4, <2>1 DEF Taken
  <2>2. CASE GivenBack
    BY <1>4, <2>2 DEF GivenBack
  <2>3. CASE TwoGivenBack
    <3>1. chars[1] \in Fchar /\ chars[2] \in Fchar
      BY <1>4, <2>3, ElementOfSeq DEF TwoGivenBack, RunsSoFar
    <3>2. <<chars[1]>> \in Seq(Fchar) /\ <<c, chars[2]>> \in Seq(Fchar)
      BY <1>4, <3>1
    <3> QED BY <1>4, <2>3, <3>2, ConcatProperties DEF TwoGivenBack
  <2>4. CASE Stopped
    BY <1>4, <2>4 DEF Stopped
  <2> QED BY <1>1, <2>1, <2>2, <2>3, <2>4
<1> QED BY <1>1, <1>2, <1>3, <1>5 DEF TypeOK, Sound, Offset

\* What all steps of Drive but the last do.
LEMMA DriveMoves ==
    ASSUME Drive
    PROVE  /\ st = "done"
           /\ UNCHANGED <<source, oval, lines, code, base, follow, parts, c>>
           /\ \/ /\ Fetch
                 /\ \/ UNCHANGED <<place, in, line, fresh, ps>>
                    \/ IncludeFile
                    \/ ProcessFile
              \/ EndOfWorkspace
<1>1. CASE Pass \/ IncludeLine \/ IncludeRest \/ EatToEol
  BY <1>1 DEF Pass, IncludeLine, IncludeRest, EatToEol, Fetch, rest
<1>2. CASE IncludeFile
  BY <1>2 DEF IncludeFile, Fetch
<1>3. CASE ProcessFile
  BY <1>3 DEF ProcessFile, Fetch
<1>4. CASE EndOfUnit
  BY <1>4 DEF EndOfUnit, Fetch
<1>5. CASE EndOfWorkspace
  BY <1>5 DEF EndOfWorkspace, input
<1> QED BY <1>1, <1>2, <1>3, <1>4, <1>5 DEF Drive

LEMMA PushTypes ==
    ASSUME TypeOK, Sound(in), NEW f \in File, PushInput(f)
    PROVE  /\ in' \in Stream /\ Sound(in') /\ fi' \in File /\ line' \in Int
           /\ cs' \in Seq(Saved) /\ ps' \in Seq(Fchar) /\ fresh' \in Seq(Fchar)
<1>1. Context \in Saved
  BY TellgPlace DEF TypeOK, Context, Saved
<1>2. cs' \in Seq(Saved)
  BY <1>1 DEF TypeOK, PushInput
<1>3. Opened \in Stream /\ Sound(Opened)
  BY DEF Opened, Stream, Sound, Offset
<1>4. [val |-> Cookie, fi |-> f, pos |-> 0] \in Fchar
  BY DEF Fchar
<1> DEFINE cookie == [val |-> Cookie, fi |-> f, pos |-> 0]
<1>5. ps \in Seq(Fchar) /\ fresh \in Seq(Fchar)
  BY DEF TypeOK
<1>6. Append(ps, cookie) \in Seq(Fchar) /\ Append(fresh, cookie) \in Seq(Fchar)
  BY <1>4, <1>5, AppendProperties
<1>7. \/ ps' = Append(ps, cookie) /\ fresh' = Append(fresh, cookie)
      \/ UNCHANGED <<ps, fresh>>
  BY DEF PushInput
<1>8. in' = Opened /\ fi' = f /\ line' = 1
  BY DEF PushInput, SetInput
<1>9. ps' \in Seq(Fchar) /\ fresh' \in Seq(Fchar)
  BY <1>5, <1>6, <1>7
<1> QED BY <1>2, <1>3, <1>8, <1>9

LEMMA DriveTypes ==
    ASSUME TypeOK, Sound(in), Drive
    PROVE  TypeOK' /\ Sound(in)'
<1>1. UNCHANGED <<text, trigraphs, lines, base, follow, parts, c>>
  BY DriveMoves DEF source
<1>2. ASSUME Fetch
      PROVE  getting' \in BOOLEAN /\ chars' \in Seq(Fchar) /\ eaten' \in Seq(Fchar)
  BY <1>2, ConcatProperties DEF Fetch, TypeOK
<1>3. ASSUME rest' = rest \/ UNCHANGED <<source, place, in, line, oval, lines, fresh>>,
             UNCHANGED ps, Fetch, lock' \in Nat, wanted' \in File \cup {NoFile},
             unit' \in File \cup {NoFile}, mode' = "include" => wanted' \in File
      PROVE  TypeOK' /\ Sound(in)'
  <2>1. UNCHANGED <<in, fi, line, cs, fresh>>
    BY <1>3 DEF rest, place
  <2> QED BY <1>1, <1>2, <1>3, <2>1 DEF TypeOK, Sound, Offset
<1>4. CASE Pass
  BY <1>3, <1>4 DEF Pass, TypeOK, rest
<1>5. CASE IncludeLine
  <2>1. Include[code] \in File
    BY <1>5, LexerAssumption DEF IncludeLine
  <2> QED BY <1>3, <1>5, <2>1 DEF IncludeLine, TypeOK, rest
<1>6. CASE IncludeRest
  BY <1>3, <1>6 DEF IncludeRest, TypeOK, rest
<1>7. CASE IncludeFile
  <2>1. wanted \in File
    BY <1>7 DEF IncludeFile, TypeOK
  <2>2. /\ in' \in Stream /\ Sound(in') /\ fi' \in File /\ line' \in Int
        /\ cs' \in Seq(Saved) /\ ps' \in Seq(Fchar) /\ fresh' \in Seq(Fchar)
    BY <1>7, <2>1, PushTypes DEF IncludeFile
  <2>3. Fetch /\ mode' = "text" /\ wanted' = NoFile /\ UNCHANGED <<lock, unit>>
    BY <1>7 DEF IncludeFile
  <2> QED BY <1>1, <1>2, <2>2, <2>3 DEF TypeOK, Sound, Offset
<1>8. CASE ProcessFile
  <2>1. Process[code] \in File
    BY <1>8, LexerAssumption DEF ProcessFile
  <2>2. /\ in' \in Stream /\ Sound(in') /\ fi' \in File /\ line' \in Int
        /\ cs' \in Seq(Saved) /\ ps' \in Seq(Fchar) /\ fresh' \in Seq(Fchar)
    BY <1>8, <2>1, PushTypes DEF ProcessFile
  <2>3. /\ Fetch /\ lock' = Len(cs') /\ unit' = Process[code]
        /\ UNCHANGED <<mode, wanted>>
    BY <1>8 DEF ProcessFile
  <2>4. lock' \in Nat
    BY <2>2, <2>3
  <2> QED BY <1>1, <1>2, <2>1, <2>2, <2>3, <2>4 DEF TypeOK, Sound, Offset
<1>9. CASE EndOfUnit
  BY <1>3, <1>9 DEF EndOfUnit, TypeOK, rest
<1>10. CASE EatToEol
  BY <1>3, <1>10 DEF EatToEol, TypeOK, rest
<1>11. CASE EndOfWorkspace
  BY <1>11 DEF EndOfWorkspace, TypeOK, Sound, Offset, input, driver, source, place
<1> QED
  BY <1>4, <1>5, <1>6, <1>7, <1>8, <1>9, <1>10, <1>11 DEF Drive

-----------------------------------------------------------------------------
(* Lines                                                                   *)

LEMMA LineProcessedCounts ==
    ASSUME TypeOK, LineProcessed
    PROVE  /\ \A f \in File : lines[f] <= lines'[f]
           /\ line - 1 <= lines[fi] => line <= lines'[fi]
<1>1. /\ lines \in [File -> Nat] /\ fi \in File /\ line \in Int
  BY DEF TypeOK
<1>2. lines[fi] \in Nat
  BY <1>1
<1>3. CASE lines[fi] = line - 1
  <2>1. lines' = [lines EXCEPT ![fi] = lines[fi] + 1]
    BY <1>3 DEF LineProcessed
  <2>2. lines'[fi] = lines[fi] + 1 /\ \A f \in File \ {fi} : lines'[f] = lines[f]
    BY <1>1, <2>1
  <2>3. ASSUME NEW f \in File PROVE lines[f] <= lines'[f]
    <3>1. lines[f] \in Nat
      BY <1>1
    <3> QED BY <1>2, <2>2, <3>1
  <2>4. line <= lines'[fi]
    BY <1>1, <1>3, <2>2
  <2> QED BY <2>3, <2>4
<1>4. CASE lines[fi] # line - 1
  <2>1. lines' = [lines EXCEPT ![fi] = lines[fi]]
    BY <1>4 DEF LineProcessed
  <2>2. lines' = lines
    BY <1>1, <2>1
  <2>3. ASSUME NEW f \in File PROVE lines[f] <= lines'[f]
    <3>1. lines[f] \in Nat
      BY <1>1
    <3> QED BY <2>2, <3>1
  <2>4. line - 1 <= lines[fi] => line <= lines[fi]
    BY <1>1, <1>2, <1>4
  <2> QED BY <2>2, <2>3, <2>4
<1> QED BY <1>3, <1>4

\* The places on the stack stay counted as lines go on being counted.
LEMMA StackedLinesCounted ==
    ASSUME TypeOK, LinesCounted, \A f \in File : lines[f] <= lines'[f],
           lines' \in [File -> Nat], NEW k \in DOMAIN cs, cs[k].pos # -1
    PROVE  cs[k].pos >= 1 /\ cs[k].line - 1 <= lines'[cs[k].fi]
<1>1. cs[k] \in Saved
  BY ElementOfSeq, SMTT(30) DEF TypeOK
<1>2. cs[k].fi \in File /\ cs[k].line \in Int
  BY <1>1 DEF Saved
<1>3. lines[cs[k].fi] \in Nat /\ lines'[cs[k].fi] \in Nat
  BY <1>2 DEF TypeOK
<1>4. cs[k].pos >= 1 /\ cs[k].line - 1 <= lines[cs[k].fi]
  BY DEF LinesCounted
<1> QED BY <1>2, <1>3, <1>4

LEMMA GetNextLines ==
    ASSUME TypeOK, TypeOK', Sound(in), LinesCounted, GetNext
    PROVE  LinesCounted'
<1>1. /\ Simple.splice \in BOOLEAN /\ (~Simple.splice /\ Simple.val = EOF => Simple.in.bad)
      /\ in.bad => ~Simple.splice /\ Simple.val = EOF
  BY SimpleFound DEF Found
<1>2. /\ lines' \in [File -> Nat] /\ lines \in [File -> Nat] /\ line \in Int /\ fi \in File
      /\ cs \in Seq(Saved)
  BY DEF TypeOK
<1>3. ASSUME LineProcessed, line' = line + 1, UNCHANGED <<fi, cs>>,
             in.bad => in'.bad
      PROVE  LinesCounted'
  <2>1. \A f \in File : lines[f] <= lines'[f]
    BY <1>3, LineProcessedCounts
  <2>2. ~in'.bad => line' - 1 <= lines'[fi']
    BY <1>2, <1>3, LineProcessedCounts DEF LinesCounted
  <2> QED BY <1>2, <1>3, <2>1, <2>2, StackedLinesCounted DEF LinesCounted
<1>4. CASE TakeBack
  BY <1>4 DEF TakeBack, LinesCounted, place
<1>5. CASE Splice
  <2>1. ~in.bad
    BY <1>1, <1>5 DEF Splice
  <2> QED BY <1>3, <1>5, <2>1 DEF Splice, place
<1>6. CASE Deliver
  <2>1. ~in.bad
    BY <1>1, <1>6 DEF Deliver
  <2>2. CASE Simple.val = NL
    BY <1>3, <1>6, <2>1, <2>2 DEF Deliver, place
  <2>3. CASE Simple.val # NL
    BY <1>6, <2>1, <2>3 DEF Deliver, place, LinesCounted
  <2> QED BY <2>2, <2>3
<1>7. CASE Inject \/ End
  <2>1. in'.bad
    BY <1>1, <1>7 DEF Inject, End, AtEnd
  <2> QED BY <1>7, <2>1 DEF Inject, End, LinesCounted, place
<1>8. CASE Pop
  <2> DEFINE n == Len(cs)
             fc == cs[n]
  <2>1. n \in Nat /\ n >= 1 /\ n \in DOMAIN cs /\ DOMAIN cs = 1 .. n
    BY <1>2, <1>8 DEF Pop, StopsHere
  <2>2. /\ fi' = fc.fi /\ line' = fc.line /\ in' = Seekg(Opened, fc.pos)
        /\ cs' = SubSeq(cs, 1, n - 1) /\ lines' = lines
    BY <1>8 DEF Pop, SetInput
  <2>3. fc.pos \in Int
    <3>1. fc \in Saved
      BY <1>2, <2>1, ElementOfSeq
    <3> QED BY <3>1 DEF Saved
  <2>4. ~in'.bad => fc.pos # -1
    BY <2>2, <2>3, SeekSound, <2>1 DEF LinesCounted
  <2>5. ~in'.bad => line' - 1 <= lines'[fi']
    BY <2>1, <2>2, <2>4 DEF LinesCounted
  <2>6. \A k \in DOMAIN cs' : k \in DOMAIN cs /\ cs'[k] = cs[k]
    BY <1>2, <2>1, <2>2
  <2> QED BY <2>2, <2>5, <2>6 DEF LinesCounted
<1> QED BY <1>4, <1>5, <1>6, <1>7, <1>8 DEF GetNext

LEMMA PushLines ==
    ASSUME TypeOK, TypeOK', Sound(in), LinesCounted, NEW f \in File, PushInput(f),
           lines' = lines
    PROVE  LinesCounted'
<1>1. /\ in' = Opened /\ fi' = f /\ line' = 1 /\ cs' = Append(cs, Context)
  BY DEF PushInput, SetInput
<1>2. lines[f] \in Nat /\ cs \in Seq(Saved) /\ in \in Stream
  BY DEF TypeOK
<1>3. line' - 1 <= lines'[fi']
  BY <1>1, <1>2
<1>4. Context.pos = Offset(in) /\ Context.fi = fi /\ Context.line = line
  BY TellgPlace DEF Context
<1>5. Context.pos # -1 => Context.pos >= 1 /\ Context.line - 1 <= lines[Context.fi]
  BY <1>4 DEF Offset, Sound, LinesCounted
<1>6. Context \in Saved
  BY TellgPlace DEF TypeOK, Context, Saved
<1>7. ASSUME NEW k \in DOMAIN cs'
      PROVE  (k \in DOMAIN cs /\ cs'[k] = cs[k]) \/ cs'[k] = Context
  BY <1>1, <1>2, <1>6, <1>7, AppendProperties
<1> QED BY <1>3, <1>5, <1>7 DEF LinesCounted

LEMMA LinesStayCounted ==
    ASSUME TypeOK, TypeOK', Sound(in), LinesCounted, Next
    PROVE  LinesCounted'
<1>1. CASE GetNext
  BY <1>1, GetNextLines
<1>2. CASE Analyze
  BY <1>2 DEF Analyze, rest, place, LinesCounted
<1>3. CASE Drive
  <2>1. CASE UNCHANGED <<place, in, line, fresh, ps>>
    BY <1>3, <2>1, DriveMoves DEF place, LinesCounted
  <2>2. CASE IncludeFile
    <3>1. wanted \in File /\ PushInput(wanted)
      BY <2>2 DEF IncludeFile, TypeOK
    <3> QED BY <1>3, <3>1, DriveMoves, PushLines
  <2>3. CASE ProcessFile
    <3>1. Process[code] \in File /\ PushInput(Process[code])
      BY <2>3, LexerAssumption DEF ProcessFile
    <3> QED BY <1>3, <3>1, DriveMoves, PushLines
  <2>4. CASE EndOfWorkspace
    BY <2>4 DEF EndOfWorkspace, input, place, LinesCounted
  <2> QED BY <1>3, <2>1, <2>2, <2>3, <2>4, DriveMoves
<1> QED BY <1>1, <1>2, <1>3 DEF Next

-----------------------------------------------------------------------------
(* The lock and the ends of files                                          *)

\* A stack after its top was taken.
LEMMA AllButLast ==
    ASSUME NEW S, NEW s \in Seq(S), s # <<>>
    PROVE  LET t == SubSeq(s, 1, Len(s) - 1)
           IN  /\ t \in Seq(S) /\ Len(t) = Len(s) - 1
               /\ \A k \in 1 .. Len(s) - 1 : t[k] = s[k]
               /\ Len(s) \in 1 .. Len(s) /\ s[Len(s)] \in S
<1> DEFINE n == Len(s)
<1>1. n \in Nat /\ n >= 1
  OBVIOUS
<1>2. \A i \in 1 .. n - 1 : s[i] \in S
  OBVIOUS
<1>3. SubSeq(s, 1, n - 1) \in Seq(S)
  BY <1>1, <1>2
<1>4. Len(SubSeq(s, 1, n - 1)) = n - 1
  BY <1>1, SMTT(30)
<1>5. \A k \in 1 .. n - 1 : SubSeq(s, 1, n - 1)[k] = s[k]
  BY <1>1
<1>6. n \in 1 .. n /\ s[n] \in S
  BY <1>1
<1> QED BY <1>3, <1>4, <1>5, <1>6

LEMMA LockKept ==
    ASSUME TypeOK, TypeOK', Locked, Next
    PROVE  Locked'
<1>1. cs \in Seq(Saved) /\ lock \in Nat /\ Len(cs) \in Nat
  BY DEF TypeOK
<1>2. CASE UNCHANGED <<cs, fi, lock, unit>>
  BY <1>2 DEF Locked
<1>3. CASE GetNext /\ ~Pop /\ UNCHANGED <<token, mode, wanted, unit, eaten>>
  <2>1. UNCHANGED <<cs, fi, lock, unit>>
    BY <1>3 DEF GetNext, TakeBack, Splice, Deliver, Inject, End, place
  <2> QED BY <1>2, <2>1
<1>4. CASE Pop /\ UNCHANGED <<token, mode, wanted, unit, eaten>>
  <2> DEFINE n == Len(cs)
  <2>1. n >= 1 /\ n # lock /\ fi' = cs[n].fi /\ cs' = SubSeq(cs, 1, n - 1)
        /\ cs # <<>> /\ UNCHANGED <<lock, unit>>
    BY <1>1, <1>4 DEF Pop, StopsHere, SetInput
  <2>2. Len(cs') = n - 1 /\ \A k \in 1 .. n - 1 : cs'[k] = cs[k]
    BY <1>1, <2>1, AllButLast
  <2>3. CASE unit = NoFile
    BY <2>1, <2>3 DEF Locked
  <2>4. CASE unit # NoFile
    <3>1. lock \in 1 .. n - 1 /\ unit = cs[lock + 1].fi
      BY <1>1, <2>1, <2>4 DEF Locked
    <3>2. CASE lock = n - 1
      BY <1>1, <2>1, <2>2, <2>4, <3>1, <3>2 DEF Locked
    <3>3. CASE lock # n - 1
      <4>1. lock + 1 \in 1 .. n - 1
        BY <1>1, <3>1, <3>3
      <4> QED BY <1>1, <2>1, <2>2, <2>4, <3>1, <3>3, <4>1 DEF Locked
    <3> QED BY <3>2, <3>3
  <2> QED BY <2>3, <2>4
<1>5. CASE Analyze
  BY <1>2, <1>5 DEF Analyze, rest, place, driver
<1>6. ASSUME NEW f \in File, PushInput(f)
      PROVE  /\ cs' = Append(cs, Context) /\ fi' = f /\ Context.fi = fi
             /\ Len(cs') = Len(cs) + 1 /\ cs'[Len(cs) + 1] = Context
             /\ \A k \in 1 .. Len(cs) : cs'[k] = cs[k]
  BY <1>1, <1>6 DEF PushInput, SetInput, Context
<1>7. CASE Drive
  <2>1. CASE Pass \/ IncludeLine \/ IncludeRest \/ EatToEol \/ EndOfWorkspace
    BY <1>2, <2>1
       DEF Pass, IncludeLine, IncludeRest, EatToEol, EndOfWorkspace, rest, place,
           input, driver
  <2>2. CASE IncludeFile
    <3>1. wanted \in File /\ PushInput(wanted) /\ UNCHANGED <<lock, unit>>
      BY <2>2 DEF IncludeFile, TypeOK
    <3> QED BY <1>1, <1>6, <3>1 DEF Locked
  <2>3. CASE ProcessFile
    <3>1. /\ Process[code] \in File /\ PushInput(Process[code])
          /\ lock' = Len(cs') /\ unit' = Process[code]
      BY <2>3, LexerAssumption DEF ProcessFile
    <3>2. unit' # NoFile
      BY <3>1, LexerAssumption
    <3> QED BY <1>1, <1>6, <3>1, <3>2 DEF Locked
  <2>4. CASE EndOfUnit
    BY <2>4 DEF EndOfUnit, Locked
  <2> QED BY <1>7, <2>1, <2>2, <2>3, <2>4 DEF Drive
<1> QED BY <1>3, <1>4, <1>5, <1>7 DEF Next

\* The kind a token was given, when it ended.
LEMMA EndOfFileToken ==
    ASSUME Analyze, TypeOK, st' = "done", code' = EOF
    PROVE  c.val = EOF
<1>1. Taken \/ GivenBack \/ TwoGivenBack \/ Stopped
  BY AnalyzeMoves
<1>2. CASE Taken
  BY <1>2 DEF Taken
<1>3. CASE GivenBack \/ TwoGivenBack \/ Stopped
  BY <1>3 DEF GivenBack, TwoGivenBack, Stopped, EOF
<1> QED BY <1>1, <1>2, <1>3

LEMMA EndsStayMet ==
    ASSUME TypeOK, TypeOK', Locked, EndsMet, FewPutBack, Next
    PROVE  EndsMet'
<1> USE DEF EndsMet, StopsHere
<1>1. CASE GetNext /\ UNCHANGED <<token, mode, wanted, unit, eaten>>
  <2>1. getting /\ st # "done" /\ st # "end" /\ UNCHANGED <<st, code>>
    BY <1>1 DEF GetNext, TakeBack, Splice, Deliver, Inject, End, Pop, Reading, AtEnd,
                FewPutBack, Final, token
  <2>2. CASE TakeBack
    <3> DEFINE n == Len(ps)
    <3>1. c' = ps[n] /\ ps # <<>> /\ ps \in Seq(Fchar)
      BY <2>2 DEF TakeBack, TypeOK
    <3>2. n \in DOMAIN ps
      BY <3>1
    <3>3. c'.val # EOF
      BY <3>1, <3>2 DEF FewPutBack
    <3> QED BY <2>1, <3>3
  <2>3. CASE Splice \/ Pop
    BY <2>1, <2>3 DEF Splice, Pop, Reading, AtEnd
  <2>4. CASE Deliver \/ Inject
    <3>1. c'.val # EOF
      BY <2>4 DEF Deliver, Inject, Return, NL, EOF
    <3> QED BY <2>1, <3>1
  <2>5. CASE End
    BY <2>1, <2>5 DEF End, place
  <2> QED BY <1>1, <2>2, <2>3, <2>4, <2>5 DEF GetNext
<1>2. CASE Analyze
  <2>1. UNCHANGED <<cs, lock, c>> /\ ~getting /\ st \notin Final
    BY <1>2, AnalyzeMoves DEF TypeOK, rest, place
  <2>2. st' # "end"
    BY <1>2, AnalyzeMoves DEF TypeOK
  <2> QED BY <1>2, <2>1, <2>2, EndOfFileToken
<1>3. CASE Drive
  <2>1. CASE Fetch
    BY <2>1 DEF Fetch
  <2>2. CASE EndOfWorkspace
    <3>1. st = "done" /\ code = EOF /\ unit = NoFile /\ st' = "end" /\ UNCHANGED <<cs, lock, getting, c>>
      BY <2>2 DEF EndOfWorkspace, input, place
    <3>2. lock = 0
      BY <3>1 DEF Locked
    <3>3. cs = <<>>
      BY <3>1, <3>2 DEF TypeOK
    <3> QED BY <3>1, <3>3
  <2> QED BY <1>3, <2>1, <2>2, DriveMoves
<1> QED BY <1>1, <1>2, <1>3 DEF Next

-----------------------------------------------------------------------------
(* What is put back                                                        *)

\* A file is pushed only when nothing was put back.
LEMMA PushedOnEmpty ==
    ASSUME TypeOK, FewPutBack, IncludeFile \/ ProcessFile
    PROVE  /\ ps = <<>>
           /\ \/ ps' = <<>> /\ fresh' = fresh
              \/ \E x \in Fchar : /\ x.val = Cookie /\ ps' = <<x>>
                                  /\ fresh' = Append(fresh, x)
<1>1. st = "done" /\ code \in Directive \cup {NL, EOF}
  BY DEF IncludeFile, ProcessFile, Directive
<1>2. ps = <<>>
  BY <1>1 DEF FewPutBack
<1>3. ASSUME NEW f, PushInput(f), f \in File
      PROVE  \/ ps' = <<>> /\ fresh' = fresh
             \/ \E x \in Fchar : /\ x.val = Cookie /\ ps' = <<x>>
                                 /\ fresh' = Append(fresh, x)
  <2> DEFINE x == [val |-> Cookie, fi |-> f, pos |-> 0]
  <2>1. x \in Fchar /\ x.val = Cookie
    BY <1>3 DEF Fchar
  <2>2. \/ ps' = Append(ps, x) /\ fresh' = Append(fresh, x)
        \/ ps' = ps /\ fresh' = fresh
    BY <1>3 DEF PushInput
  <2> QED BY <1>2, <2>1, <2>2
<1>4. CASE IncludeFile
  BY <1>2, <1>3, <1>4 DEF IncludeFile, TypeOK
<1>5. CASE ProcessFile
  BY <1>2, <1>3, <1>5, LexerAssumption DEF ProcessFile
<1> QED BY <1>4, <1>5

LEMMA NonePutBack ==
    ASSUME ps' = <<>>, st' \in Final => ~getting',
           ~getting' /\ c'.val = Cookie => st' \in Final \cup {"start"}
    PROVE  FewPutBack'
<1>1. Len(ps') = 0 /\ DOMAIN ps' = {}
  OBVIOUS
<1> QED BY <1>1 DEF FewPutBack, Final

LEMMA FewStayPutBack ==
    ASSUME TypeOK, TypeOK', Sound(in), FewPutBack, Adjacent, RunsSoFar, Next
    PROVE  FewPutBack'
<1>1. ps \in Seq(Fchar) /\ c \in Fchar /\ getting \in BOOLEAN
  BY DEF TypeOK
<1>2. CASE TakeBack /\ UNCHANGED <<token, mode, wanted, unit, eaten>>
  <2> DEFINE n == Len(ps)
  <2>1. /\ getting /\ ~getting' /\ ps # <<>> /\ c' = ps[n] /\ UNCHANGED <<st, code>>
        /\ ps' = SubSeq(ps, 1, n - 1)
    BY <1>1, <1>2 DEF TakeBack, token
  <2>2. n \in {1, 2} /\ DOMAIN ps = 1 .. n
    <3>1. n \in Nat /\ n # 0 /\ DOMAIN ps = 1 .. n
      BY <1>1, <2>1
    <3>2. n <= 2
      BY DEF FewPutBack
    <3> QED BY <3>1, <3>2
  <2> HIDE DEF n
  <2>6. Len(ps') = n - 1 /\ \A k \in 1 .. n - 1 : ps'[k] = ps[k]
    BY <1>1, <2>1, AllButLast DEF n
  <2>3. st \in {"start", "dot", "word"}
    BY <2>1 DEF FewPutBack
  <2>4. CASE n = 1
    <3>1. ps' = <<>>
      BY <2>1, <2>4, <2>6, ps' \in Seq(Fchar) DEF TypeOK
    <3>2. c'.val = Cookie => st = "start"
      BY <2>1, <2>2, <2>4 DEF FewPutBack
    <3> QED BY <2>1, <2>3, <3>1, <3>2, NonePutBack DEF Final
  <2>5. CASE n = 2
    <3>1. ps' \in Seq(Fchar) /\ Len(ps') = 1 /\ ps'[1] = ps[1]
      BY <2>5, <2>6 DEF TypeOK
    <3>2. DOMAIN ps' = {1}
      BY <3>1
    <3>3. ps'[1].val \notin {EOF, Cookie}
      BY <2>2, <2>5, <3>1 DEF FewPutBack, n
    <3>4. c' = ps[2] /\ Len(ps) = 2
      BY <2>1, <2>5 DEF n
    <3>5. \/ st = "start" /\ c'.val = "."
          \/ st = "word" /\ c'.val = "8"
      BY <2>3, <3>4 DEF FewPutBack, Final
    <3>6. ~getting' /\ UNCHANGED <<st, code>>
      BY <2>1
    <3> QED BY <3>1, <3>2, <3>3, <3>5, <3>6 DEF FewPutBack, Final, Cookie
  <2> QED BY <2>2, <2>4, <2>5
<1>3. CASE GetNext /\ ~TakeBack /\ UNCHANGED <<token, mode, wanted, unit, eaten>>
  <2>1. getting /\ ps = <<>> /\ ps' = <<>> /\ UNCHANGED <<st, code>>
    BY <1>3 DEF GetNext, Splice, Deliver, Inject, End, Pop, Reading, AtEnd, token
  <2>2. ASSUME NEW v, Return(v) PROVE c'.val = v
    BY <2>2 DEF Return
  <2>3. \/ getting' = getting
        \/ c'.val \in {Simple.val, NL, EOF}
    BY <1>3, <2>2 DEF GetNext, Splice, Deliver, Inject, End, Pop
  <2>4. Simple.val # Cookie /\ NL # Cookie /\ EOF # Cookie
    BY SimpleFound, CharsOfCode DEF Found, NL, EOF, Cookie
  <2>5. st \notin Final
    BY <2>1 DEF FewPutBack
  <2> QED BY <2>1, <2>3, <2>4, <2>5, NonePutBack
<1>4. CASE Analyze
  <2>1. /\ ~getting /\ st \notin Final /\ st' # "start" /\ c' = c /\ getting' \in BOOLEAN
        /\ Taken \/ GivenBack \/ TwoGivenBack \/ Stopped
    BY <1>4, AnalyzeMoves
  <2>2. \A i \in DOMAIN ps : ps[i].val \notin {EOF, Cookie}
    BY <2>1 DEF FewPutBack
  <2>3. \/ ps = <<>>
        \/ Len(ps) = 1 /\ st = "start" /\ c.val = "."
        \/ Len(ps) = 1 /\ st = "word" /\ c.val = "8"
    BY <2>1 DEF FewPutBack
  <2>4. CASE Taken
    <3>1. ps' = ps /\ (~getting' => st' \in Final)
      BY <2>4 DEF Taken, Final
    <3>2. CASE ps = <<>>
      <4>1. st' \in Final => ~getting'
        BY <2>1, <2>4 DEF Taken, Final, MayPutBack
      <4> QED BY <3>1, <3>2, <4>1, NonePutBack
    <3>3. CASE ps # <<>>
      <4>1. getting' /\ st' \in {"dot", "word"} /\ Len(ps) = 1
        BY <2>3, <2>4, <3>3 DEF Taken
      <4> QED BY <2>2, <3>1, <4>1 DEF FewPutBack, Final
    <3> QED BY <3>2, <3>3
  <2>5. CASE GivenBack
    <3>1. ps = <<>>
      BY <2>3, <2>5 DEF GivenBack, MayPutBack, Alnum, Digit
    <3>2. ps' = <<c>> /\ c.val \notin {EOF, Cookie}
      BY <2>1, <2>5, <3>1 DEF GivenBack, Adjacent, FewPutBack, Final, MayPutBack
    <3>3. \/ getting' /\ st' = "word"
          \/ ~getting' /\ st' = "done" /\ code' \notin Directive \cup {NL, EOF}
      BY <2>5, KindsAreNoDirectives DEF GivenBack
    <3> QED BY <2>1, <3>2, <3>3 DEF FewPutBack, Final
  <2>6. CASE TwoGivenBack
    <3>1. ps = <<>> /\ Len(chars) = 2 /\ st \in {"dots", "u8"}
      BY <2>3, <2>6 DEF TwoGivenBack, RunsSoFar
    <3>2. ps' = <<c, chars[2]>>
      BY <2>6, <3>1 DEF TwoGivenBack
    <3>3. c.val \notin {EOF, Cookie} /\ c.fi = chars[2].fi
      BY <2>1, <3>1 DEF Adjacent, FewPutBack, Final, MayPutBack, LastOf
    <3>4. \/ ~getting' /\ st' = "done" /\ code' = "." /\ chars[2].val = "."
          \/ getting' /\ st' = "word" /\ chars[2].val = "8"
      BY <2>6 DEF TwoGivenBack, RunsSoFar
    <3>5. "." \notin Directive \cup {NL, EOF}
      BY KindsAreNoDirectives
    <3> QED BY <2>1, <3>2, <3>3, <3>4, <3>5 DEF FewPutBack, Final, EOF, Cookie
  <2>7. CASE Stopped
    <3>1. ps = <<>> /\ ps' = <<>>
      BY <2>3, <2>7 DEF Stopped
    <3> QED BY <2>7, <3>1 DEF FewPutBack, Stopped, Final
  <2> QED BY <2>1, <2>4, <2>5, <2>6, <2>7
<1>5. CASE Drive
  <2>1. ~getting /\ st = "done" /\ c' = c
    BY <1>5, DriveMoves DEF FewPutBack, Final
  <2>2. CASE Fetch /\ UNCHANGED ps
    <3>1. getting' /\ st' = "start"
      BY <2>2 DEF Fetch
    <3> QED BY <2>1, <2>2, <3>1 DEF FewPutBack, Final
  <2>3. CASE Fetch /\ (IncludeFile \/ ProcessFile)
    <3>1. getting' /\ st' = "start"
      BY <2>3 DEF Fetch
    <3>2. ps' = <<>> \/ \E x \in Fchar : x.val = Cookie /\ ps' = <<x>>
      BY <2>3, PushedOnEmpty
    <3> QED BY <3>1, <3>2 DEF FewPutBack, Final, EOF, Cookie
  <2>4. CASE EndOfWorkspace
    <3>1. UNCHANGED <<ps, c, getting, code>> /\ st' = "end"
      BY <2>4 DEF EndOfWorkspace, input
    <3> QED BY <2>1, <3>1 DEF FewPutBack, Final
  <2> QED BY <1>5, <2>2, <2>3, <2>4, DriveMoves
<1> QED BY <1>2, <1>3, <1>4, <1>5 DEF Next

-----------------------------------------------------------------------------
(* Every character once, in order                                          *)

LEMMA ReversedSeq ==
    ASSUME NEW S, NEW s \in Seq(S)
    PROVE  /\ Reversed(s) \in Seq(S) /\ Len(Reversed(s)) = Len(s)
           /\ \A i \in 1 .. Len(s) : Reversed(s)[i] = s[Len(s) + 1 - i]
<1> DEFINE n == Len(s)
<1>1. n \in Nat /\ s \in [1 .. n -> S]
  OBVIOUS
<1>2. \A i \in 1 .. n : n + 1 - i \in 1 .. n
  BY <1>1
<1>3. Reversed(s) = [i \in 1 .. n |-> s[n + 1 - i]]
  BY DEF Reversed
<1>4. Reversed(s) \in [1 .. n -> S]
  BY <1>1, <1>2, <1>3
<1>5. Reversed(s) \in Seq(S)
  BY <1>1, <1>4, SeqDef
<1>6. DOMAIN Reversed(s) = 1 .. n
  BY <1>3
<1>7. Len(Reversed(s)) = n
  BY <1>1, <1>5, <1>6, LenProperties
<1> QED BY <1>3, <1>5, <1>7

LEMMA ReversedAppend ==
    ASSUME NEW S, NEW s \in Seq(S), NEW x \in S
    PROVE  Reversed(Append(s, x)) = <<x>> \o Reversed(s)
<1> DEFINE n == Len(s)
           a == Append(s, x)
           l == Reversed(a)
           r == <<x>> \o Reversed(s)
<1>1. n \in Nat /\ a \in Seq(S) /\ Len(a) = n + 1 /\ a[n + 1] = x
      /\ \A i \in 1 .. n : a[i] = s[i]
  BY AppendProperties
<1> HIDE DEF a
<1>2. l \in Seq(S) /\ Len(l) = n + 1 /\ \A i \in 1 .. n + 1 : l[i] = a[n + 2 - i]
  BY <1>1, ReversedSeq
<1>3. <<x>> \in Seq(S) /\ Len(<<x>>) = 1 /\ <<x>>[1] = x
  OBVIOUS
<1>4. Reversed(s) \in Seq(S) /\ Len(Reversed(s)) = n
      /\ \A i \in 1 .. n : Reversed(s)[i] = s[n + 1 - i]
  BY ReversedSeq
<1>5. r \in Seq(S) /\ Len(r) = 1 + n
      /\ \A i \in 1 .. 1 + n : r[i] = IF i <= 1 THEN <<x>>[i] ELSE Reversed(s)[i - 1]
  BY <1>3, <1>4, ConcatProperties
<1> HIDE DEF l, r, n
<1>6. ASSUME NEW i \in 1 .. n + 1 PROVE l[i] = r[i]
  <2>1. CASE i = 1
    <3>1. l[1] = a[n + 1]
      BY <1>1, <1>2, <2>1
    <3>2. r[1] = x
      BY <1>1, <1>3, <1>5
    <3> QED BY <1>1, <2>1, <3>1, <3>2
  <2>2. CASE i # 1
    <3>1. i - 1 \in 1 .. n /\ n + 2 - i \in 1 .. n /\ n + 1 - (i - 1) = n + 2 - i
      BY <1>1, <2>2
    <3>2. r[i] = Reversed(s)[i - 1]
      BY <1>1, <1>5, <2>2
    <3>3. Reversed(s)[i - 1] = s[n + 2 - i]
      BY <1>4, <3>1
    <3>4. l[i] = s[n + 2 - i]
      BY <1>1, <1>2, <3>1
    <3> QED BY <3>2, <3>3, <3>4
  <2> QED BY <2>1, <2>2
<1>7. Len(l) = Len(r) /\ Len(l) = n + 1
  BY <1>1, <1>2, <1>5
<1>8. l = r
  BY <1>2, <1>5, <1>6, <1>7, SeqEqual
<1> QED BY <1>8 DEF l, r, a

LEMMA ReversedTop ==
    ASSUME NEW S, NEW s \in Seq(S), s # <<>>
    PROVE  Reversed(s) = <<s[Len(s)]>> \o Reversed(SubSeq(s, 1, Len(s) - 1))
<1> DEFINE n == Len(s)
           t == SubSeq(s, 1, n - 1)
           a == Append(t, s[n])
<1>1. /\ t \in Seq(S) /\ Len(t) = n - 1 /\ \A k \in 1 .. n - 1 : t[k] = s[k]
      /\ n \in 1 .. n /\ s[n] \in S
  BY AllButLast
<1> HIDE DEF t
<1>2. n \in Nat /\ n >= 1
  OBVIOUS
<1>3. /\ a \in Seq(S) /\ Len(a) = n /\ a[n] = s[n]
      /\ \A k \in 1 .. n - 1 : a[k] = t[k]
  BY <1>1, <1>2, AppendProperties
<1> HIDE DEF a
<1>4. \A k \in 1 .. n : a[k] = s[k]
  BY <1>1, <1>2, <1>3
<1>5. a = s
  BY <1>3, <1>4, SeqEqual
<1>6. Reversed(a) = <<s[n]>> \o Reversed(t)
  BY <1>1, ReversedAppend DEF a
<1> QED BY <1>5, <1>6 DEF t

\* The characters of the tokens before and of this one, the one not yet looked
\* at and those put back.
Joined(e, h, u, r) == ((e \o h) \o u) \o r

LEMMA JoinedTaken ==
    ASSUME NEW S, NEW e \in Seq(S), NEW h \in Seq(S), NEW r, NEW x \in S
    PROVE  Joined(e, Append(h, x), <<>>, r) = Joined(e, h, <<x>>, r)
<1>1. <<x>> \in Seq(S)
  OBVIOUS
<1>2. Append(h, x) = h \o <<x>>
  BY AppendIsConcat
<1>3. e \o (h \o <<x>>) = (e \o h) \o <<x>>
  BY <1>1, ConcatAssociative
<1>4. Append(h, x) \in Seq(S) /\ e \o Append(h, x) \in Seq(S)
  BY ConcatProperties
<1>5. (e \o Append(h, x)) \o <<>> = e \o Append(h, x)
  BY <1>4, ConcatEmptySeq
<1> QED BY <1>2, <1>3, <1>5 DEF Joined

LEMMA Around ==
    ASSUME NEW S, NEW a \in Seq(S), NEW y \in Seq(S), NEW r \in Seq(S)
    PROVE  a \o (y \o r) = (a \o y) \o r
BY ConcatAssociative, SMTT(30)

LEMMA JoinedBack ==
    ASSUME NEW S, NEW e \in Seq(S), NEW h \in Seq(S), NEW r \in Seq(S), NEW x \in S
    PROVE  Joined(e, h, <<>>, <<x>> \o r) = Joined(e, h, <<x>>, r)
<1> DEFINE a == e \o h
           y == <<x>>
<1>1. a \in Seq(S) /\ y \in Seq(S)
  BY ConcatProperties
<1>2. a \o <<>> = a
  BY <1>1, ConcatEmptySeq
<1> HIDE DEF a, y
<1>3. a \o (y \o r) = (a \o y) \o r
  BY <1>1, Around, SMTT(20)
<1> QED BY <1>2, <1>3 DEF Joined, a, y

LEMMA JoinedRead ==
    ASSUME NEW S, NEW e \in Seq(S), NEW h \in Seq(S), NEW x \in S
    PROVE  /\ Joined(e, h, <<x>>, <<>>) = Append(Joined(e, h, <<>>, <<>>), x)
           /\ Joined(e, h, <<>>, <<x>>) = Append(Joined(e, h, <<>>, <<>>), x)
<1> DEFINE a == e \o h
<1>1. a \in Seq(S)
  BY ConcatProperties
<1> HIDE DEF a
<1>2. a \o <<x>> \in Seq(S) /\ Append(a, x) = a \o <<x>>
  BY <1>1, ConcatProperties, AppendIsConcat
<1>3. a \o <<>> = a /\ (a \o <<x>>) \o <<>> = a \o <<x>>
  BY <1>1, <1>2, ConcatEmptySeq
<1> QED BY <1>2, <1>3 DEF Joined, a

LEMMA JoinedEaten ==
    ASSUME NEW S, NEW e \in Seq(S), NEW h \in Seq(S), NEW r
    PROVE  Joined(e \o h, <<>>, <<>>, r) = Joined(e, h, <<>>, r)
<1> DEFINE a == e \o h
<1>1. a \in Seq(S)
  BY ConcatProperties
<1> HIDE DEF a
<1>2. a \o <<>> = a
  BY <1>1, ConcatEmptySeq
<1> QED BY <1>2 DEF Joined, a

LEMMA ReversedNone == Reversed(<<>>) = <<>>
BY ReversedSeq, <<>> \in Seq({}), Reversed(<<>>) \in Seq({}), Len(<<>>) = 0

LEMMA ReversedOne ==
    ASSUME NEW S, NEW x \in S
    PROVE  Reversed(<<x>>) = <<x>>
<1> DEFINE y == <<x>>
<1>1. y \in Seq(S) /\ Len(y) = 1
  OBVIOUS
<1> HIDE DEF y
<1>2. Reversed(y) \in Seq(S) /\ Len(Reversed(y)) = 1 /\ Reversed(y)[1] = y[1]
  BY <1>1, ReversedSeq
<1>3. \A i \in 1 .. 1 : Reversed(y)[i] = y[i]
  BY <1>2
<1>4. Reversed(y) = y
  BY <1>1, <1>2, <1>3, SeqEqual
<1> QED BY <1>4 DEF y

LEMMA NothingIsLost ==
    ASSUME TypeOK, TypeOK', FewPutBack, RunsSoFar, NothingLostOrRepeated, Next
    PROVE  NothingLostOrRepeated'
<1>1. /\ eaten \in Seq(Fchar) /\ chars \in Seq(Fchar) /\ ps \in Seq(Fchar)
      /\ fresh \in Seq(Fchar) /\ c \in Fchar /\ c' \in Fchar /\ ps' \in Seq(Fchar)
  BY DEF TypeOK
<1>2. Reversed(ps) \in Seq(Fchar) /\ Reversed(ps') \in Seq(Fchar)
  BY <1>1, ReversedSeq
<1>3. Joined(eaten, chars, Unseen, Reversed(ps)) = fresh
  BY DEF NothingLostOrRepeated, Joined
<1>4. ASSUME Joined(eaten', chars', Unseen', Reversed(ps')) = fresh'
      PROVE  NothingLostOrRepeated'
  BY <1>4 DEF NothingLostOrRepeated, Joined, Reversed
<1>5. ASSUME UNCHANGED <<eaten, chars, ps, fresh>>, Unseen' = Unseen
      PROVE  NothingLostOrRepeated'
  BY <1>3, <1>4, <1>5
<1>6. CASE GetNext /\ UNCHANGED <<token, mode, wanted, unit, eaten>>
  <2>1. getting /\ st \notin {"done", "end"} /\ UNCHANGED <<st, chars, eaten>>
    BY <1>6 DEF GetNext, TakeBack, Splice, Deliver, Inject, End, Pop, Reading, AtEnd,
                FewPutBack, Final, token
  <2>2. Unseen = <<>>
    BY <2>1 DEF Unseen
  <2>3. ~getting' => Unseen' = <<c'>>
    BY <2>1 DEF Unseen
  <2>4. CASE TakeBack
    <3>1. ~getting' /\ Reversed(ps) = <<c'>> \o Reversed(ps') /\ fresh' = fresh
      BY <1>1, <2>4, ReversedTop DEF TakeBack
    <3>2. Joined(eaten, chars, <<>>, <<c'>> \o Reversed(ps'))
             = Joined(eaten, chars, <<c'>>, Reversed(ps'))
      BY <1>1, <1>2, JoinedBack
    <3> QED BY <1>3, <1>4, <2>1, <2>2, <2>3, <3>1, <3>2
  <2>5. CASE Splice \/ Pop
    <3>1. getting' = getting /\ UNCHANGED <<ps, fresh>>
      BY <2>5 DEF Splice, Pop
    <3>2. Unseen' = <<>>
      BY <2>1, <3>1 DEF Unseen
    <3> QED BY <1>5, <2>1, <2>2, <3>1, <3>2
  <2>6. CASE Deliver \/ Inject \/ End
    <3>1. ~getting' /\ fresh' = Append(fresh, c') /\ ps = <<>> /\ ps' = <<>>
      BY <2>6 DEF Deliver, Inject, End, Return, AtEnd, Reading
    <3>2. Joined(eaten, chars, <<c'>>, <<>>) = Append(Joined(eaten, chars, <<>>, <<>>), c')
      BY <1>1, JoinedRead
    <3> QED BY <1>3, <1>4, <2>1, <2>2, <2>3, <3>1, <3>2, ReversedNone
  <2> QED BY <1>6, <2>4, <2>5, <2>6 DEF GetNext
<1>7. CASE Analyze
  <2>1. /\ ~getting /\ st \notin Final /\ c' = c /\ UNCHANGED <<eaten, fresh>>
        /\ Taken \/ GivenBack \/ TwoGivenBack \/ Stopped
    BY <1>7, AnalyzeMoves DEF rest, driver
  <2>2. Unseen = <<c>>
    BY <2>1 DEF Unseen, Final
  <2>3. (getting' \/ st' = "done") => Unseen' = <<>>
    BY DEF Unseen
  <2>4. CASE Taken
    <3>1. Unseen' = <<>> /\ chars' = Append(chars, c) /\ ps' = ps
      BY <2>3, <2>4 DEF Taken
    <3>2. Joined(eaten, Append(chars, c), <<>>, Reversed(ps))
             = Joined(eaten, chars, <<c>>, Reversed(ps))
      BY <1>1, JoinedTaken
    <3> QED BY <1>3, <1>4, <2>1, <2>2, <3>1, <3>2
  <2>5. CASE GivenBack
    <3>1. Unseen' = <<>> /\ chars' = chars /\ ps' = Append(ps, c)
      BY <2>3, <2>5 DEF GivenBack
    <3>2. Reversed(ps') = <<c>> \o Reversed(ps)
      BY <1>1, <3>1, ReversedAppend
    <3>3. Joined(eaten, chars, <<>>, <<c>> \o Reversed(ps))
             = Joined(eaten, chars, <<c>>, Reversed(ps))
      BY <1>1, <1>2, JoinedBack
    <3> QED BY <1>3, <1>4, <2>1, <2>2, <3>1, <3>2, <3>3
  <2>6. CASE TwoGivenBack
    <3> DEFINE h == <<chars[1]>>
               x == chars[2]
               y == <<c>>
    <3>1. Len(chars) = 2 /\ ps = <<>>
      BY <2>1, <2>6 DEF TwoGivenBack, RunsSoFar, FewPutBack
    <3>2. chars[1] \in Fchar /\ x \in Fchar
      <4>1. 1 \in 1 .. Len(chars) /\ 2 \in 1 .. Len(chars)
        BY <3>1
      <4> QED BY <1>1, <4>1, ElementOfSeq
    <3>3. h \in Seq(Fchar) /\ chars = Append(h, x)
      BY <1>1, <3>1, <3>2
    <3>4. Unseen' = <<>> /\ chars' = h /\ ps' = Append(y, x)
      BY <2>3, <2>6, <3>1 DEF TwoGivenBack
    <3>5. y \in Seq(Fchar) /\ Reversed(y) = y
      BY <1>1, ReversedOne
    <3>6. Joined(eaten, chars, <<>>, y) = Joined(eaten, chars, y, <<>>)
      BY <1>1, JoinedRead
    <3>7. Joined(eaten, chars, y, <<>>) = fresh
      BY <1>3, <2>2, <3>1, ReversedNone
    <3> HIDE DEF h, x, y
    <3>8. Reversed(ps') = <<x>> \o y
      BY <3>2, <3>4, <3>5, ReversedAppend
    <3>9. Joined(eaten, h, <<>>, <<x>> \o y) = Joined(eaten, h, <<x>>, y)
      BY <1>1, <3>2, <3>3, <3>5, JoinedBack
    <3>10. Joined(eaten, chars, <<>>, y) = Joined(eaten, h, <<x>>, y)
      BY <1>1, <3>2, <3>3, JoinedTaken
    <3> QED BY <1>4, <2>1, <3>4, <3>6, <3>7, <3>8, <3>9, <3>10
  <2>7. CASE Stopped
    <3>1. Unseen' = Unseen /\ UNCHANGED <<chars, ps>>
      BY <2>1, <2>2, <2>7 DEF Stopped, Unseen
    <3> QED BY <1>5, <2>1, <3>1
  <2> QED BY <2>1, <2>4, <2>5, <2>6, <2>7
<1>8. CASE Drive
  <2>1. st = "done" /\ Unseen = <<>>
    BY <1>8, DriveMoves DEF Unseen
  <2>2. CASE Fetch
    <3>1. eaten' = eaten \o chars /\ chars' = <<>> /\ Unseen' = <<>>
      BY <2>2 DEF Fetch, Unseen
    <3>2. \A r : Joined(eaten \o chars, <<>>, <<>>, r) = Joined(eaten, chars, <<>>, r)
      BY <1>1, JoinedEaten
    <3>3. CASE UNCHANGED <<ps, fresh>>
      BY <1>3, <1>4, <2>1, <3>1, <3>2, <3>3
    <3>4. CASE IncludeFile \/ ProcessFile
      <4>1. ps = <<>>
        BY <3>4, PushedOnEmpty
      <4>2. Joined(eaten, chars, <<>>, <<>>) = fresh
        BY <1>3, <2>1, <4>1, ReversedNone
      <4>3. CASE ps' = <<>> /\ fresh' = fresh
        BY <1>4, <3>1, <3>2, <4>2, <4>3, ReversedNone
      <4>4. ASSUME NEW x \in Fchar, ps' = <<x>>, fresh' = Append(fresh, x)
            PROVE  NothingLostOrRepeated'
        <5>1. Reversed(ps') = <<x>>
          BY <4>4, ReversedOne
        <5>2. Joined(eaten, chars, <<>>, <<x>>) = Append(fresh, x)
          BY <1>1, <4>2, JoinedRead
        <5> QED BY <1>4, <3>1, <3>2, <4>4, <5>1, <5>2
      <4> QED BY <3>4, <4>3, <4>4, PushedOnEmpty
    <3>5. CASE EndOfWorkspace
      BY <2>2, <3>5 DEF EndOfWorkspace, Fetch
    <3> QED BY <1>8, <3>3, <3>4, <3>5, DriveMoves
  <2>3. CASE EndOfWorkspace
    <3>1. UNCHANGED <<eaten, chars, ps, fresh>> /\ Unseen' = <<>>
      BY <2>3 DEF EndOfWorkspace, Unseen, driver, input
    <3> QED BY <1>5, <2>1, <3>1
  <2> QED BY <1>8, <2>2, <2>3, DriveMoves
<1> QED BY <1>6, <1>7, <1>8 DEF Next

-----------------------------------------------------------------------------
(* What is next to what                                                    *)

\* getnext goes on with the character after the token's last.
LEMMA GetNextAdjacent ==
    ASSUME TypeOK, TypeOK', FewPutBack, Adjacent, GetNext,
           UNCHANGED <<token, mode, wanted, unit, eaten>>
    PROVE  Adjacent'
<1>1. /\ ps \in Seq(Fchar) /\ getting /\ st \notin Final
      /\ UNCHANGED <<st, code, chars>>
  BY DEF TypeOK, GetNext, TakeBack, Splice, Deliver, Inject, End, Pop, Reading, AtEnd,
         FewPutBack, token
<1> DEFINE l == LastOf(chars)
<1>2. /\ st \in InOneFile \/ (st = "done" /\ code \notin {"space", "literal"}) =>
           \A i \in DOMAIN chars : chars[i].fi = chars[1].fi
      /\ st \in InOneFile => \A i \in DOMAIN chars : Plain(chars[i])
      /\ st = "start" => chars = <<>>
      /\ st \in MayPutBack => chars # <<>> /\ Plain(l) /\ FollowedBy(l)
  BY <1>1 DEF Adjacent
<1>3. ASSUME st \in MayPutBack /\ ~getting' => c'.fi = l.fi /\ c'.val # EOF,
             st \in MayPutBack /\ getting' =>
               IF ps' = <<>> THEN fi' = l.fi /\ oval' = l.val ELSE LastOf(ps').fi = l.fi,
             ~getting' /\ c'.val \notin {NL, EOF, Cookie} =>
               IF ps' = <<>> THEN fi' = c'.fi /\ oval' = c'.val ELSE LastOf(ps').fi = c'.fi,
             ps' # <<>> /\ ps'[1].val \notin {NL, EOF, Cookie} =>
               fi' = ps'[1].fi /\ oval' = ps'[1].val
      PROVE  Adjacent'
  BY <1>1, <1>2, <1>3 DEF Adjacent, FollowedBy, LastOf, Plain
<1>4. CASE TakeBack
  <2> DEFINE n == Len(ps)
  <2>1. /\ ~getting' /\ ps # <<>> /\ c' = ps[n] /\ ps' = SubSeq(ps, 1, n - 1)
        /\ UNCHANGED <<fi, oval>>
    BY <1>4 DEF TakeBack, place
  <2>2. n \in {1, 2}
    <3>1. n \in Nat /\ n # 0
      BY <1>1, <2>1
    <3>2. n <= 2
      BY DEF FewPutBack
    <3> HIDE DEF n
    <3> QED BY <3>1, <3>2
  <2>3. n \in DOMAIN ps
    BY <1>1, <2>2
  <2>4. /\ ps' \in Seq(Fchar) /\ Len(ps') = n - 1
        /\ \A k \in 1 .. n - 1 : ps'[k] = ps[k]
    BY <1>1, <2>1, AllButLast
  <2>5. st \in MayPutBack => c'.fi = l.fi /\ c'.val # EOF
    <3>1. c'.val # EOF
      BY <2>1, <2>3 DEF FewPutBack
    <3> QED BY <1>2, <2>1, <3>1 DEF FollowedBy, LastOf
  <2>6. Plain(ps[1]) => fi = ps[1].fi /\ oval = ps[1].val
    BY <2>1 DEF Adjacent
  <2>7. CASE n = 1
    <3>1. ps' = <<>>
      BY <2>4, <2>7
    <3> QED BY <1>3, <2>1, <2>5, <2>6, <2>7, <3>1 DEF Plain
  <2>8. CASE n = 2
    <3>1. ps'[1] = ps[1] /\ LastOf(ps') = ps[1] /\ ps' # <<>>
      BY <2>4, <2>8 DEF LastOf
    <3>2. ps[1].fi = ps[2].fi
      BY <2>8 DEF FewPutBack
    <3> QED BY <1>3, <2>1, <2>5, <2>6, <2>8, <3>1, <3>2 DEF Plain
  <2> QED BY <2>2, <2>7, <2>8
<1>5. CASE ~TakeBack
  <2>1. ps = <<>> /\ ps' = <<>>
    BY <1>5 DEF GetNext, Splice, Deliver, Inject, End, Pop, Reading, AtEnd
  <2>2. st \in MayPutBack => fi = l.fi /\ oval = l.val /\ l.val \notin {NL, EOF, Cookie}
    BY <1>2, <2>1 DEF FollowedBy, Plain
  <2>3. CASE Splice
    <3>1. UNCHANGED <<fi, oval, getting>>
      BY <2>3 DEF Splice, place
    <3> QED BY <1>1, <1>3, <2>1, <2>2, <3>1
  <2>4. CASE Deliver
    <3>1. /\ ~getting' /\ c'.fi = fi /\ fi' = fi /\ c'.val = Simple.val
          /\ oval' = c'.val /\ c'.val # EOF
      BY <2>4 DEF Deliver, Return, place
    <3> QED BY <1>3, <2>1, <2>2, <3>1
  <2>5. CASE Inject
    <3>1. ~getting' /\ c'.fi = fi /\ fi' = fi /\ c'.val = NL /\ NL # EOF
      BY <2>5 DEF Inject, Return, place, NL, EOF
    <3> QED BY <1>3, <2>1, <2>2, <3>1
  <2>6. CASE End
    <3>1. ~getting' /\ c'.val = EOF /\ st \notin MayPutBack
      BY <2>2, <2>6 DEF End, Return, NewlineMissing
    <3> QED BY <1>3, <2>1, <3>1
  <2>7. CASE Pop
    <3>1. getting' = getting /\ st \notin MayPutBack
      BY <2>2, <2>7 DEF Pop, NewlineMissing
    <3> QED BY <1>1, <1>3, <2>1, <3>1
  <2> QED BY <1>5, <2>3, <2>4, <2>5, <2>6, <2>7 DEF GetNext
<1> QED BY <1>4, <1>5

LEMMA AnalyzeAdjacent ==
    ASSUME TypeOK, TypeOK', FewPutBack, Adjacent, RunsSoFar, Analyze
    PROVE  Adjacent'
<1>1. /\ ~getting /\ st \notin Final /\ st' # "start"
      /\ UNCHANGED <<c, fi, oval>> /\ getting' \in BOOLEAN
      /\ Taken \/ GivenBack \/ TwoGivenBack \/ Stopped
  BY AnalyzeMoves DEF rest, place
<1>2. /\ ps \in Seq(Fchar) /\ chars \in Seq(Fchar) /\ c \in Fchar
  BY DEF TypeOK
<1>3. /\ st \in MayPutBack =>
           /\ chars # <<>> /\ Plain(LastOf(chars))
           /\ c.fi = LastOf(chars).fi /\ c.val # EOF
      /\ Plain(c) => FollowedBy(c)
      /\ ps # <<>> /\ Plain(ps[1]) => fi = ps[1].fi /\ oval = ps[1].val
      /\ st \in InOneFile =>
           \A i \in DOMAIN chars : chars[i].fi = chars[1].fi /\ Plain(chars[i])
      /\ st = "start" => chars = <<>>
  BY <1>1 DEF Adjacent
<1>4. CASE Taken
  <2>1. chars' = Append(chars, c) /\ ps' = ps /\ (st' = "done" \/ getting')
    BY <1>4 DEF Taken
  <2>2. /\ chars' # <<>> /\ LastOf(chars') = c
        /\ \A i \in DOMAIN chars' :
             (i \in DOMAIN chars /\ chars'[i] = chars[i]) \/ chars'[i] = c
    BY <1>2, <2>1, AppendProperties DEF LastOf
  <2>3. st' \in MayPutBack => Plain(c) /\ getting'
    BY <1>1, <1>4, <2>1 DEF Taken, Plain, FewPutBack, MayPutBack
  <2>4. ASSUME st' \in InOneFile \/ (st' = "done" /\ code' \notin {"space", "literal"})
        PROVE  \A i \in DOMAIN chars' : chars'[i].fi = chars'[1].fi
    <3>1. st \in InOneFile \cup {"start"}
      BY <1>4, <2>4 DEF Taken
    <3>2. CASE st = "start"
      <4>1. chars' = <<c>>
        BY <1>2, <1>3, <2>1, <3>2
      <4> QED BY <4>1
    <3>3. CASE st \in InOneFile
      <4>1. chars # <<>> /\ c.fi = LastOf(chars).fi
        BY <1>3, <3>3 DEF InOneFile
      <4>2. Len(chars) \in DOMAIN chars /\ 1 \in DOMAIN chars
        BY <1>2, <4>1
      <4>3. chars'[1] = chars[1]
        BY <1>2, <2>1, <4>2, AppendProperties
      <4>4. c.fi = chars[1].fi
        BY <1>3, <3>3, <4>1, <4>2 DEF LastOf
      <4> QED BY <1>3, <2>2, <3>3, <4>3, <4>4
    <3> QED BY <3>1, <3>2, <3>3
  <2>5. ASSUME st' \in InOneFile
        PROVE  \A i \in DOMAIN chars' : Plain(chars'[i])
    <3>1. st \in InOneFile \/ chars = <<>>
      BY <1>3, <1>4, <2>5 DEF Taken
    <3>2. Plain(c)
      BY <2>3, <2>5 DEF InOneFile
    <3> QED BY <1>3, <2>2, <3>1, <3>2
  <2>6. Plain(c) => FollowedBy(c)'
    BY <1>1, <1>3, <2>1 DEF FollowedBy
  <2> QED BY <1>1, <1>3, <2>1, <2>2, <2>3, <2>4, <2>5, <2>6
          DEF Adjacent, FollowedBy, LastOf, Plain, Final
<1>5. CASE GivenBack
  <2>1. ps = <<>>
    BY <1>1, <1>5 DEF GivenBack, FewPutBack, MayPutBack, Alnum, Digit
  <2>2. st \in MayPutBack /\ chars' = chars /\ ps' = <<c>>
    BY <1>5, <2>1 DEF GivenBack
  <2>3. ps' # <<>> /\ LastOf(ps') = c /\ ps'[1] = c
    BY <2>2 DEF LastOf
  <2>4. Plain(c) => fi = c.fi /\ oval = c.val
    BY <1>3, <2>1 DEF FollowedBy
  <2>5. CASE st = "prefix" /\ getting' /\ st' = "word"
    <3>1. st \in InOneFile
      BY <2>5 DEF InOneFile, MayPutBack
    <3> QED BY <1>1, <1>3, <2>2, <2>3, <2>4, <2>5, <3>1
            DEF Adjacent, FollowedBy, LastOf, Plain, Final
  <2>6. CASE ~getting' /\ st' = "done"
    <3>1. st' \notin InOneFile \cup MayPutBack \cup {"start"} /\ st' \in Final
      BY <2>6 DEF InOneFile, MayPutBack, Final
    <3>2. code' = "space" \/ st \in InOneFile
      BY <1>5, <2>6 DEF GivenBack
    <3> QED BY <1>1, <1>3, <2>2, <2>3, <2>4, <2>6, <3>1, <3>2
            DEF Adjacent, FollowedBy, LastOf, Plain
  <2> QED BY <1>5, <2>5, <2>6 DEF GivenBack
<1>6. CASE TwoGivenBack
  <2>1. ps = <<>> /\ Len(chars) = 2 /\ st \in {"dots", "u8"} /\ st \in InOneFile
    BY <1>1, <1>6 DEF TwoGivenBack, RunsSoFar, FewPutBack, InOneFile, MayPutBack
  <2>2. /\ ps' = <<c, chars[2]>> /\ chars' = <<chars[1]>>
        /\ (~getting' /\ st' = "done") \/ (getting' /\ st' = "word")
    BY <1>6, <2>1 DEF TwoGivenBack
  <2>3. /\ ps' # <<>> /\ LastOf(ps') = chars[2] /\ ps'[1] = c
        /\ chars' # <<>> /\ LastOf(chars') = chars[1] /\ chars'[1] = chars[1]
        /\ DOMAIN chars' = {1}
    BY <2>2 DEF LastOf
  <2>4. Plain(c) => fi = c.fi /\ oval = c.val
    BY <1>3, <2>1 DEF FollowedBy
  <2>5. chars[2].fi = chars[1].fi /\ Plain(chars[1])
    <3>1. 1 \in DOMAIN chars /\ 2 \in DOMAIN chars
      BY <1>2, <2>1
    <3> QED BY <1>3, <2>1, <3>1
  <2> QED BY <1>1, <2>2, <2>3, <2>4, <2>5
          DEF Adjacent, FollowedBy, LastOf, Plain, Final, MayPutBack
<1>7. CASE Stopped
  <2>1. /\ ps' = ps /\ st' \notin InOneFile \cup MayPutBack \cup {"start", "done"}
        /\ st' \in Final
    BY <1>7 DEF Stopped, InOneFile, MayPutBack, Final
  <2> QED BY <1>1, <1>3, <2>1 DEF Adjacent, Plain
<1> QED BY <1>1, <1>4, <1>5, <1>6, <1>7

LEMMA StaysAdjacent ==
    ASSUME TypeOK, TypeOK', FewPutBack, Adjacent, RunsSoFar, Next
    PROVE  Adjacent'
<1>1. CASE GetNext /\ UNCHANGED <<token, mode, wanted, unit, eaten>>
  BY <1>1, GetNextAdjacent
<1>2. CASE Analyze
  BY <1>2, AnalyzeAdjacent
<1>3. CASE Drive
  <2>1. oval' = oval /\ code' = code
    BY <1>3, DriveMoves
  <2>2. ps # <<>> /\ Plain(ps[1]) => fi = ps[1].fi /\ oval = ps[1].val
    BY DEF Adjacent
  <2>3. ASSUME Fetch, ps' # <<>> /\ Plain(ps'[1]) => fi' = ps'[1].fi /\ oval' = ps'[1].val
        PROVE  Adjacent'
    <3>1. getting' /\ st' = "start" /\ chars' = <<>>
      BY <2>3 DEF Fetch
    <3> QED BY <2>3, <3>1 DEF Adjacent, InOneFile, MayPutBack, Plain
  <2>4. CASE Fetch /\ UNCHANGED <<place, ps>>
    BY <2>1, <2>2, <2>3, <2>4 DEF place
  <2>5. CASE Fetch /\ (IncludeFile \/ ProcessFile)
    <3>1. ps' = <<>> \/ \E x \in Fchar : x.val = Cookie /\ ps' = <<x>>
      BY <2>5, PushedOnEmpty
    <3> QED BY <2>3, <2>5, <3>1 DEF Plain
  <2>6. CASE EndOfWorkspace
    <3>1. UNCHANGED <<ps, fi>> /\ st' = "end"
      BY <2>6 DEF EndOfWorkspace, input, place
    <3> QED BY <2>1, <2>2, <3>1 DEF Adjacent, InOneFile, MayPutBack, Final, Plain
  <2> QED BY <1>3, <2>4, <2>5, <2>6, DriveMoves
<1> QED BY <1>1, <1>2, <1>3 DEF Next

-----------------------------------------------------------------------------
(* Runs of characters                                                      *)

\* Run r names the characters of s after the first a.
Named(r, s, a) == \A i \in 1 .. r.len : Tokid(s[a + i]) = <<r.fi, r.pos + i - 1>>

\* The runs before a character name the same ones after it was taken.
LEMMA NamedStays ==
    ASSUME NEW s \in Seq(Fchar), NEW x \in Fchar, NEW a \in Nat, NEW r \in Part,
           a + r.len <= Len(s), Named(r, s, a)
    PROVE  Named(r, Append(s, x), a)
<1>1. ASSUME NEW i \in 1 .. r.len PROVE Append(s, x)[a + i] = s[a + i]
  <2>1. r.len \in Int /\ Len(s) \in Nat
    BY DEF Part
  <2>2. a + i \in 1 .. Len(s)
    BY <2>1
  <2> QED BY <2>2, AppendProperties
<1> QED BY <1>1 DEF Named

LEMMA RunsAppend ==
    ASSUME NEW q \in Seq(Part), NEW s \in Seq(Fchar), NEW x \in Fchar, RunsName(q, s)
    PROVE  RunsName(Append(q, Run(Tokid(x), Plus(Tokid(x), 1))), Append(s, x))
<1> DEFINE n == Len(q)
           m == Len(s)
           r == Run(Tokid(x), Plus(Tokid(x), 1))
           p == Append(q, r)
           t == Append(s, x)
<1>1. n \in Nat /\ m \in Nat
  OBVIOUS
<1>2. r \in Part /\ r.fi = x.fi /\ r.pos = x.pos /\ r.len = 1
  BY DEF Run, Tokid, Plus, Part, Fchar
<1> HIDE DEF r
<1>3. /\ Len(p) = n + 1 /\ p[n + 1] = r /\ \A k \in 1 .. n : p[k] = q[k]
      /\ Len(t) = m + 1 /\ t[m + 1] = x /\ \A k \in 1 .. n : q[k] \in Part
  BY <1>2, AppendProperties, ElementOfSeq
<1> HIDE DEF p, t
<1>4. PICK at \in [1 .. n + 1 -> 0 .. m] :
        /\ at[1] = 0 /\ at[n + 1] = m
        /\ \A k \in 1 .. n : at[k + 1] = at[k] + q[k].len /\ Named(q[k], s, at[k])
  BY DEF RunsName, Named
<1> DEFINE to == [k \in 1 .. n + 2 |-> IF k = n + 2 THEN m + 1 ELSE at[k]]
<1>5. to \in [1 .. n + 2 -> 0 .. m + 1]
  BY <1>1
<1>6. \A k \in 1 .. n + 1 : to[k] = at[k] /\ at[k] \in 0 .. m
  BY <1>1
<1>7. to[1] = 0 /\ to[n + 2] = m + 1
  BY <1>1, <1>4
<1> HIDE DEF to
<1>8. ASSUME NEW k \in 1 .. n + 1
      PROVE  to[k + 1] = to[k] + p[k].len /\ Named(p[k], t, to[k])
  <2>1. CASE k \in 1 .. n
    <3>1. k + 1 \in 1 .. n + 1 /\ k \in 1 .. n + 1
      BY <1>1, <2>1
    <3>2. to[k] = at[k] /\ to[k + 1] = at[k + 1] /\ at[k] \in Nat /\ at[k + 1] <= m
      BY <1>1, <1>6, <3>1
    <3>3. Named(q[k], t, at[k])
      <4>1. at[k] + q[k].len <= m /\ q[k] \in Part
        BY <1>3, <1>4, <2>1, <3>2
      <4> QED BY <1>4, <2>1, <3>2, <4>1, NamedStays DEF t
    <3> QED BY <1>3, <1>4, <2>1, <3>2, <3>3
  <2>2. CASE k = n + 1
    <3>1. to[k] = m /\ to[k + 1] = m + 1 /\ p[k] = r
      BY <1>1, <1>3, <1>4, <1>6, <1>7, <2>2
    <3>2. Tokid(t[m + 1]) = <<r.fi, r.pos + 1 - 1>>
      BY <1>2, <1>3 DEF Tokid, Fchar
    <3>3. Named(r, t, m)
      BY <1>2, <3>2 DEF Named
    <3> QED BY <1>1, <1>2, <3>1, <3>3
  <2> QED BY <1>1, <2>1, <2>2
<1>9. \E a \in [1 .. Len(p) + 1 -> 0 .. Len(t)] :
        /\ a[1] = 0 /\ a[Len(p) + 1] = Len(t)
        /\ \A k \in 1 .. Len(p) : a[k + 1] = a[k] + p[k].len /\ Named(p[k], t, a[k])
  <2>1. Len(p) + 1 = n + 2 /\ Len(t) = m + 1 /\ 1 .. Len(p) = 1 .. n + 1
    BY <1>1, <1>3
  <2> QED BY <1>5, <1>7, <1>8, <2>1
<1> QED BY <1>9 DEF RunsName, Named, p, t, r

LEMMA OneRun ==
    ASSUME NEW x \in Fchar
    PROVE  RunsName(Append(<<>>, Run(Tokid(x), Plus(Tokid(x), 1))), <<x>>)
<1>1. RunsName(<<>>, <<>>)
  <2> DEFINE at == [k \in 1 .. 1 |-> 0]
  <2>1. at \in [1 .. Len(<<>>) + 1 -> 0 .. Len(<<>>)] /\ at[1] = 0
        /\ at[Len(<<>>) + 1] = Len(<<>>) /\ 1 .. Len(<<>>) = {}
    OBVIOUS
  <2> HIDE DEF at
  <2> QED BY <2>1 DEF RunsName
<1>2. <<>> \in Seq(Part) /\ <<>> \in Seq(Fchar) /\ Append(<<>>, x) = <<x>>
  OBVIOUS
<1> DEFINE q == <<>>
<1> HIDE DEF q
<1>3. RunsName(Append(q, Run(Tokid(x), Plus(Tokid(x), 1))), Append(q, x))
  BY <1>1, <1>2, RunsAppend DEF q
<1> QED BY <1>2, <1>3 DEF q

\* The current run goes on.
LEMMA RunExtends ==
    ASSUME NEW q \in Seq(Part), NEW b \in File \X Int, NEW f \in File \X Int,
           NEW s \in Seq(Fchar), NEW x \in Fchar, f[1] = b[1], f[2] > b[2],
           RunsName(Append(q, Run(b, f)), s), Tokid(x) = f
    PROVE  RunsName(Append(q, Run(b, Plus(f, 1))), Append(s, x))
<1> DEFINE n == Len(q)
           m == Len(s)
           d == f[2] - b[2]
           o == Run(b, f)
           r == Run(b, Plus(f, 1))
           g == Append(q, o)
           p == Append(q, r)
           t == Append(s, x)
<1>1. n \in Nat /\ m \in Nat /\ d \in Nat /\ d >= 1
  OBVIOUS
<1>2. /\ r \in Part /\ r.fi = b[1] /\ r.pos = b[2] /\ r.len = d + 1
      /\ o \in Part /\ o.fi = b[1] /\ o.pos = b[2] /\ o.len = d
  BY DEF Run, Plus, Part
<1> HIDE DEF o, r
<1>3. /\ Len(p) = n + 1 /\ p[n + 1] = r /\ \A k \in 1 .. n : p[k] = q[k]
      /\ Len(g) = n + 1 /\ g[n + 1] = o /\ \A k \in 1 .. n : g[k] = q[k]
      /\ \A k \in 1 .. n : q[k] \in Part
  BY <1>2, AppendProperties, ElementOfSeq
<1>4. /\ Len(t) = m + 1 /\ t[m + 1] = x /\ \A k \in 1 .. m : t[k] = s[k]
  BY AppendProperties
<1> HIDE DEF p, t, g
<1>5. PICK at \in [1 .. n + 2 -> 0 .. m] :
        /\ at[1] = 0 /\ at[n + 2] = m
        /\ \A k \in 1 .. n + 1 : at[k + 1] = at[k] + g[k].len /\ Named(g[k], s, at[k])
  <2>1. Len(g) + 1 = n + 2 /\ 1 .. Len(g) = 1 .. n + 1
    BY <1>1, <1>3
  <2>2. RunsName(g, s)
    BY DEF g, o
  <2>3. PICK at \in [1 .. Len(g) + 1 -> 0 .. Len(s)] :
          /\ at[1] = 0 /\ at[Len(g) + 1] = Len(s)
          /\ \A k \in 1 .. Len(g) : at[k + 1] = at[k] + g[k].len /\ Named(g[k], s, at[k])
    BY <2>2 DEF RunsName, Named
  <2> QED BY <2>1, <2>3
<1> DEFINE to == [k \in 1 .. n + 2 |-> IF k = n + 2 THEN m + 1 ELSE at[k]]
<1>6. to \in [1 .. n + 2 -> 0 .. m + 1]
  BY <1>1
<1>7. \A k \in 1 .. n + 1 : to[k] = at[k] /\ at[k] \in 0 .. m
  BY <1>1
<1>8. to[1] = 0 /\ to[n + 2] = m + 1
  BY <1>1, <1>5
<1> HIDE DEF to, d
<1>9. at[n + 1] + d = m /\ Named(o, s, at[n + 1])
  <2>1. n + 1 \in 1 .. n + 1 /\ (n + 1) + 1 = n + 2
    BY <1>1
  <2>2. at[(n + 1) + 1] = at[n + 1] + o.len /\ Named(o, s, at[n + 1])
    BY <1>3, <1>5, <2>1
  <2> QED BY <1>2, <1>5, <2>1, <2>2
<1>10. ASSUME NEW k \in 1 .. n + 1
       PROVE  to[k + 1] = to[k] + p[k].len /\ Named(p[k], t, to[k])
  <2>1. CASE k \in 1 .. n
    <3>1. k + 1 \in 1 .. n + 1 /\ k \in 1 .. n + 1
      BY <1>1, <2>1
    <3>2. to[k] = at[k] /\ to[k + 1] = at[k + 1] /\ at[k] \in Nat /\ at[k + 1] <= m
      BY <1>1, <1>7, <3>1
    <3>3. g[k] = q[k] /\ p[k] = q[k] /\ q[k] \in Part
      BY <1>3, <2>1
    <3>4. at[k + 1] = at[k] + q[k].len /\ Named(q[k], s, at[k])
      BY <1>5, <3>1, <3>3
    <3>5. Named(q[k], t, at[k])
      BY <3>2, <3>3, <3>4, NamedStays DEF t
    <3> QED BY <3>2, <3>3, <3>4, <3>5
  <2>2. CASE k = n + 1
    <3>1. to[k] = at[n + 1] /\ to[k + 1] = m + 1 /\ p[k] = r /\ at[n + 1] \in 0 .. m
      <4>1. n + 1 \in 1 .. n + 1 /\ k + 1 = n + 2
        BY <1>1, <2>2
      <4> QED BY <1>3, <1>7, <1>8, <2>2, <4>1
    <3>2. m + 1 = at[n + 1] + (d + 1)
      BY <1>1, <1>9, <3>1, SMTT(30)
    <3>3. ASSUME NEW i \in 1 .. d + 1
          PROVE  Tokid(t[at[n + 1] + i]) = <<b[1], b[2] + i - 1>>
      <4>1. CASE i \in 1 .. d
        <5>1. at[n + 1] + i \in 1 .. m
          BY <1>1, <1>9, <3>1, <4>1, SMTT(30)
        <5>2. t[at[n + 1] + i] = s[at[n + 1] + i]
          BY <1>4, <5>1
        <5> QED BY <1>2, <1>9, <4>1, <5>2 DEF Named
      <4>2. CASE i = d + 1
        <5>1. t[at[n + 1] + i] = x
          BY <1>1, <1>4, <1>9, <3>1, <4>2, SMTT(30)
        <5>2. f = <<b[1], b[2] + i - 1>>
          BY <4>2 DEF d
        <5> QED BY <5>1, <5>2
      <4> QED BY <1>1, <4>1, <4>2
    <3>4. Named(r, t, at[n + 1])
      BY <1>2, <3>3 DEF Named
    <3> QED BY <1>2, <3>1, <3>2, <3>4
  <2> HIDE DEF n, m
  <2>3. k \in 1 .. n \/ k = n + 1
    BY <1>1
  <2> QED BY <2>1, <2>2, <2>3
<1>11. \E a \in [1 .. Len(p) + 1 -> 0 .. Len(t)] :
        /\ a[1] = 0 /\ a[Len(p) + 1] = Len(t)
        /\ \A k \in 1 .. Len(p) : a[k + 1] = a[k] + p[k].len /\ Named(p[k], t, a[k])
  <2>1. Len(p) + 1 = n + 2 /\ Len(t) = m + 1 /\ 1 .. Len(p) = 1 .. n + 1
    BY <1>1, <1>3, <1>4
  <2> QED BY <1>6, <1>8, <1>10, <2>1
<1> QED BY <1>11 DEF RunsName, Named, p, t, r

LEMMA RunsStayRight ==
    ASSUME TypeOK, TypeOK', FewPutBack, Adjacent, RunsSoFar, Next
    PROVE  RunsSoFar'
<1> DEFINE Word0 == {"word", "number", "exponent"}
           Begun == {"prefix", "dot", "dots", "u8"}
<1>1. CASE GetNext /\ UNCHANGED <<token, mode, wanted, unit, eaten>>
  <2>1. UNCHANGED <<st, code, chars, base, follow, parts>>
    BY <1>1 DEF token
  <2> QED BY <2>1 DEF RunsSoFar, PartsNameCharacters
<1>2. CASE Drive
  <2>1. st' \in {"start", "end"}
    BY <1>2, DriveMoves DEF Fetch, EndOfWorkspace
  <2> QED BY <2>1 DEF RunsSoFar, PartsNameCharacters
<1>3. CASE Analyze
  <2>1. RunStep /\ c' = c
    BY <1>3, AnalyzeRuns, AnalyzeMoves
  <2>2. /\ chars \in Seq(Fchar) /\ c \in Fchar /\ parts \in Seq(Part)
        /\ base \in File \X Int /\ follow \in File \X Int
    BY DEF TypeOK
  <2>3. st = "start" => chars = <<>>
    BY DEF Adjacent
  <2>4. ASSUME NEW x \in Fchar, parts = <<>>, base = Tokid(x), follow = Plus(base, 1)
        PROVE  /\ follow[1] = base[1] /\ follow[2] > base[2]
               /\ RunsName(Append(parts, Run(base, follow)), <<x>>)
    BY <2>4, OneRun DEF Plus, Tokid, Fchar
  <2>5. st \in Begun =>
          /\ chars[1] \in Fchar /\ parts = <<>>
          /\ base = Tokid(chars[1]) /\ follow = Plus(base, 1)
    <3>1. st \in Begun => chars # <<>>
      BY <2>2 DEF RunsSoFar
    <3> QED BY <2>2, <3>1 DEF RunsSoFar
  <2>6. ASSUME st' \in {"prefix", "dot"}
        PROVE  /\ Len(chars') = 1 /\ parts' = <<>>
               /\ base' = Tokid(chars'[1]) /\ follow' = Plus(base', 1)
    <3>1. chars = <<>> /\ StartRun /\ chars' = Append(chars, c)
      BY <2>1, <2>3, <2>6 DEF RunStep
    <3>2. chars' = <<c>>
      BY <3>1
    <3> QED BY <3>1, <3>2 DEF StartRun
  <2>7. ASSUME st' \in {"dots", "u8"}
        PROVE  /\ Len(chars') = 2 /\ parts' = <<>>
               /\ chars'[2].val = IF st' = "dots" THEN "." ELSE "8"
               /\ base' = Tokid(chars'[1]) /\ follow' = Plus(base', 1)
    <3>1. /\ st \in {"prefix", "dot"} /\ NoRun /\ chars' = Append(chars, c)
          /\ c.val = IF st' = "dots" THEN "." ELSE "8"
      BY <2>1, <2>7 DEF RunStep
    <3>2. Len(chars) = 1
      BY <3>1 DEF RunsSoFar
    <3>3. Len(chars') = 2 /\ chars'[1] = chars[1] /\ chars'[2] = c
      <4> DEFINE t == Append(chars, c)
      <4>1. Len(t) = Len(chars) + 1 /\ t[Len(chars) + 1] = c
            /\ \A i \in 1 .. Len(chars) : t[i] = chars[i]
        BY <2>2, AppendProperties
      <4> HIDE DEF t
      <4>2. Len(t) = 2 /\ t[1] = chars[1] /\ t[2] = c
        BY <3>2, <4>1
      <4> QED BY <3>1, <4>2 DEF t
    <3> QED BY <2>5, <3>1, <3>3 DEF NoRun
  <2>8. ASSUME st' \in Word0
        PROVE  /\ follow'[1] = base'[1] /\ follow'[2] > base'[2]
               /\ RunsName(Append(parts', Run(base', follow')), chars')
    <3>1. CASE st = "start" /\ StartRun /\ chars' = Append(chars, c)
      <4>1. chars' = <<c>> /\ parts' = <<>> /\ base' = Tokid(c) /\ follow' = Plus(base', 1)
        BY <2>2, <2>3, <3>1 DEF StartRun
      <4> QED BY <2>2, <4>1, OneRun DEF Plus, Tokid, Fchar
    <3>2. CASE st \in {"dot"} \cup Word0 /\ UpdateParts /\ chars' = Append(chars, c)
      <4>1. /\ follow[1] = base[1] /\ follow[2] > base[2]
            /\ RunsName(Append(parts, Run(base, follow)), chars)
        <5>1. CASE st = "dot"
          <6>1. chars = <<chars[1]>>
            BY <2>2, <5>1 DEF RunsSoFar
          <6> QED BY <2>4, <2>5, <5>1, <6>1
        <5>2. CASE st \in Word0
          BY <5>2 DEF RunsSoFar
        <5> QED BY <3>2, <5>1, <5>2
      <4>2. CASE Tokid(c) = follow
        <5>1. follow' = Plus(follow, 1) /\ base' = base /\ parts' = parts
          BY <3>2, <4>2 DEF UpdateParts
        <5>2. RunsName(Append(parts, Run(base, Plus(follow, 1))), Append(chars, c))
          BY <2>2, <4>1, <4>2, RunExtends
        <5>3. follow'[1] = base'[1] /\ follow'[2] > base'[2]
          BY <2>2, <4>1, <5>1 DEF Plus
        <5> QED BY <3>2, <5>1, <5>2, <5>3
      <4>3. CASE Tokid(c) # follow
        <5> DEFINE q == Append(parts, Run(base, follow))
        <5>1. parts' = q /\ base' = Tokid(c) /\ follow' = Plus(Tokid(c), 1)
          BY <3>2, <4>3 DEF UpdateParts
        <5>2. q \in Seq(Part)
          BY <5>1 DEF TypeOK
        <5>3. RunsName(q, chars)
          BY <4>1
        <5> HIDE DEF q
        <5>4. RunsName(Append(q, Run(Tokid(c), Plus(Tokid(c), 1))), Append(chars, c))
          BY <2>2, <5>2, <5>3, RunsAppend
        <5>5. follow'[1] = base'[1] /\ follow'[2] > base'[2]
          BY <2>2, <5>1 DEF Plus, Tokid, Fchar
        <5> QED BY <3>2, <5>1, <5>4, <5>5
      <4> QED BY <4>2, <4>3
    <3>3. CASE st = "prefix" /\ NoRun /\ chars' = chars
      <4>1. chars = <<chars[1]>>
        BY <2>2, <3>3 DEF RunsSoFar
      <4> QED BY <2>4, <2>5, <3>3, <4>1 DEF NoRun
    <3>4. CASE st = "u8" /\ NoRun /\ chars' = <<chars[1]>>
      BY <2>4, <2>5, <3>4 DEF NoRun
    <3> QED BY <2>1, <2>8, <3>1, <3>2, <3>3, <3>4 DEF RunStep
  <2>9. ASSUME st' = "done", code' \in {"identifier", "number"}
        PROVE  RunsName(parts', chars')
    <3>1. st \in Word0 /\ EndRun /\ chars' = chars
      BY <2>1, <2>9 DEF RunStep
    <3> QED BY <3>1 DEF EndRun, RunsSoFar
  <2> QED BY <2>6, <2>7, <2>8, <2>9 DEF RunsSoFar, PartsNameCharacters
<1> QED BY <1>1, <1>2, <1>3 DEF Next

-----------------------------------------------------------------------------
(* Tokens                                                                  *)

\* Which characters lead where.
TextStep ==
    /\ st' = "slash" => st = "start" /\ c.val = "/" /\ chars' = Append(chars, c)
    /\ st' = "dot" => st = "start" /\ c.val = "." /\ chars' = Append(chars, c)
    /\ st' = "prefix" => st = "start" /\ c.val \in Letter /\ chars' = Append(chars, c)
    /\ st' = "u8" => st = "prefix" /\ chars' = Append(chars, c)
    /\ st' = "word" =>
         \/ st = "start" /\ c.val \in Letter /\ chars' = Append(chars, c)
         \/ st = "word" /\ c.val \in Alnum /\ chars' = Append(chars, c)
         \/ st = "prefix" /\ chars' = chars
         \/ st = "u8" /\ chars' = <<chars[1]>>
    /\ st' = "exponent" => st = "number" /\ c.val = "e" /\ chars' = Append(chars, c)
    /\ st' = "number" =>
         /\ chars' = Append(chars, c)
         /\ \/ st \in {"start", "dot"} /\ c.val \in Digit
            \/ st = "number" /\ c.val \in Alnum \cup {"."} /\ c.val # "e"
            \/ st = "exponent" /\ c.val \in Alnum \cup {".", "+", "-"}
    /\ st' = "done" /\ code' = "identifier" =>
         st = "word" /\ c.val \notin Alnum /\ chars' = chars /\ ps' = Append(ps, c)
    /\ st' = "done" /\ code' = "number" =>
         /\ chars' = chars /\ ps' = Append(ps, c) /\ c.val \notin Alnum \cup {"."}
         /\ st = "number" \/ (st = "exponent" /\ c.val \notin {"+", "-"})
    /\ st' = "done" /\ code' = "op" =>
         /\ st \in {"operator", "slash"}
         /\ \/ ps' = ps
            \/ /\ chars' = chars /\ ps' = Append(ps, c)
               /\ st = "operator" => Append(Values(chars), c.val) \notin Operator

LEMMA AnalyzeText ==
    ASSUME Analyze, TypeOK
    PROVE  TextStep
<1>1. c.val \notin Kind
  BY FileStackAssumption DEF TypeOK, Fchar, Kind, EOF, Cookie
<1> DEFINE Go(s) == st' = s /\ chars' = Append(chars, c)
           Stop(k) == st' = "done" /\ code' = k /\ ps' = ps
           Back(k) == st' = "done" /\ code' = k /\ chars' = chars /\ ps' = Append(ps, c)
<1>2. ASSUME NEW s PROVE More(s) => Go(s)
  BY DEF More
<1>3. ASSUME NEW k PROVE Accept(k) => Stop(k)
  BY DEF Accept
<1>4. ASSUME NEW k PROVE AcceptBack(k) => Back(k)
  BY DEF AcceptBack
<1> USE DEF At
<1>5. CASE Slash
  <2>1. st = "slash" /\ (Go("block") \/ Go("line") \/ Stop("op") \/ Back("op"))
    BY <1>2, <1>3, <1>4, <1>5 DEF Slash
  <2> QED BY <2>1 DEF TextStep
<1>6. CASE Space \/ LineComment \/ BlockComment \/ Star
  <2>1. \/ \E s \in {"block", "line", "space", "star"} : Go(s)
        \/ st' = "done" /\ code' = "space"
        \/ st' = "exit"
    BY <1>2, <1>3, <1>4, <1>6 DEF Space, LineComment, BlockComment, Star
  <2> QED BY <2>1 DEF TextStep
<1>7. CASE Operators
  <2>1. st = "operator"
    BY <1>7 DEF Operators
  <2>2. \/ Go("operator") \/ Stop("op")
        \/ Back("op") /\ Append(Values(chars), c.val) \notin Operator
    BY <1>2, <1>3, <1>4, <1>7 DEF Operators, Values
  <2> QED BY <2>1, <2>2 DEF TextStep
<1>8. CASE Dot \/ Dots
  <2>1. \/ st = "dot" /\ Go("number") /\ c.val \in Digit
        \/ Go("dots")
        \/ st' = "done" /\ code' \in {".", "..."}
    BY <1>2, <1>3, <1>4, <1>8 DEF Dot, Dots
  <2> QED BY <2>1 DEF TextStep
<1>9. CASE Prefix
  <2>1. /\ st = "prefix"
        /\ \/ \E q \in Quote : Go(q)
           \/ Go("u8")
           \/ st' = "word" /\ chars' = chars
    BY <1>2, <1>9 DEF Prefix
  <2> QED BY <2>1 DEF TextStep, Quote
<1>10. CASE PrefixOfUtf8
  <2>1. /\ st = "u8"
        /\ \/ \E q \in Quote : Go(q)
           \/ st' = "word" /\ chars' = <<chars[1]>>
    BY <1>2, <1>10 DEF PrefixOfUtf8
  <2> QED BY <2>1 DEF TextStep, Quote
<1>11. CASE Word
  <2>1. /\ st = "word"
        /\ (Go("word") /\ c.val \in Alnum) \/ (Back("identifier") /\ c.val \notin Alnum)
    BY <1>2, <1>4, <1>11 DEF Word
  <2> QED BY <2>1 DEF TextStep
<1>12. CASE Number
  <2>1. \/ st = "number" /\ Go("exponent") /\ c.val = "e"
        \/ st = "exponent" /\ Go("number") /\ c.val \in Alnum \cup {".", "+", "-"}
        \/ st = "number" /\ Go("number") /\ c.val \in Alnum \cup {"."} /\ c.val # "e"
        \/ /\ Back("number") /\ c.val \notin Alnum \cup {"."}
           /\ st = "number" \/ (st = "exponent" /\ c.val \notin {"+", "-"})
    BY <1>2, <1>4, <1>12 DEF Number, Alnum, Letter
  <2> QED BY <2>1 DEF TextStep
<1>13. CASE Literal \/ Escape
  <2>1. \/ \E s \in {"'", "\"", "character escape", "string escape"} : Go(s)
        \/ Stop("literal")
    BY <1>2, <1>3, <1>13 DEF Literal, Escape, Quote, Escaped
  <2> QED BY <2>1 DEF TextStep
<1>14. CASE Start
  <2>1. \/ More("prefix") /\ c.val \in Letter
        \/ More("word") /\ c.val \in Letter
        \/ More("number") /\ c.val \in Digit
        \/ More("dot") /\ c.val = "."
        \/ More(c.val) /\ c.val \in Quote
        \/ More("slash") /\ c.val = "/"
        \/ More("space")
        \/ More("operator")
        \/ Accept(c.val)
    BY <1>14 DEF Start, Letter
  <2>2. \/ Go("prefix") /\ c.val \in Letter
        \/ Go("word") /\ c.val \in Letter
        \/ Go("number") /\ c.val \in Digit
        \/ Go("dot") /\ c.val = "."
        \/ \E q \in Quote : Go(q)
        \/ Go("slash") /\ c.val = "/"
        \/ Go("space")
        \/ Go("operator")
        \/ Stop(c.val)
    BY <1>2, <1>3, <2>1
  <2>3. st = "start"
    BY <1>14 DEF Start
  <2> QED BY <1>1, <2>2, <2>3 DEF TextStep, Kind, Quote
<1> QED
  BY <1>5, <1>6, <1>7, <1>8, <1>9, <1>10, <1>11, <1>12, <1>13, <1>14 DEF Analyze

LEMMA ValuesTypes ==
    ASSUME NEW s \in Seq(Fchar)
    PROVE  /\ Values(s) \in Seq(Char \cup {EOF, Cookie}) /\ Len(Values(s)) = Len(s)
           /\ \A i \in 1 .. Len(s) : Values(s)[i] = s[i].val
<1>1. \A i \in 1 .. Len(s) : s[i].val \in Char \cup {EOF, Cookie}
  <2>1. \A i \in 1 .. Len(s) : s[i] \in Fchar
    OBVIOUS
  <2> QED BY <2>1 DEF Fchar
<1> DEFINE n == Len(s)
           v == [i \in 1 .. n |-> s[i].val]
<1>2. n \in Nat /\ Values(s) = v
  BY DEF Values
<1>3. v \in [1 .. n -> Char \cup {EOF, Cookie}]
  BY <1>1
<1> HIDE DEF n
<1>4. v \in Seq(Char \cup {EOF, Cookie}) /\ Len(v) = n
  BY <1>2, <1>3
<1> QED BY <1>2, <1>4 DEF n

LEMMA ValuesAppend ==
    ASSUME NEW s \in Seq(Fchar), NEW x \in Fchar
    PROVE  Values(Append(s, x)) = Append(Values(s), x.val)
<1> DEFINE t == Append(s, x)
           n == Len(s)
           v == Values(s)
           l == Append(v, x.val)
           w == Values(t)
<1>1. n \in Nat /\ t \in Seq(Fchar) /\ Len(t) = n + 1 /\ t[n + 1] = x
      /\ \A i \in 1 .. n : t[i] = s[i]
  BY AppendProperties
<1>2. x.val \in Char \cup {EOF, Cookie}
  BY DEF Fchar
<1>3. v \in Seq(Char \cup {EOF, Cookie}) /\ Len(v) = n /\ \A i \in 1 .. n : v[i] = s[i].val
  BY ValuesTypes
<1> HIDE DEF t, n, v
<1>4. w \in Seq(Char \cup {EOF, Cookie}) /\ Len(w) = n + 1
      /\ \A i \in 1 .. n + 1 : w[i] = t[i].val
  BY <1>1, ValuesTypes
<1>5. l \in Seq(Char \cup {EOF, Cookie}) /\ Len(l) = n + 1 /\ l[n + 1] = x.val
      /\ \A i \in 1 .. n : l[i] = v[i]
  BY <1>2, <1>3, AppendProperties
<1> HIDE DEF w, l
<1>6. \A i \in 1 .. n + 1 : w[i] = l[i]
  BY <1>1, <1>3, <1>4, <1>5
<1>7. w = l
  BY <1>1, <1>4, <1>5, <1>6, SeqEqual
<1> QED BY <1>7 DEF w, l, t, v

\* What a sequence is with one more at its end.
LEMMA OneMore ==
    ASSUME NEW S, NEW s \in Seq(S), NEW y \in S
    PROVE  /\ Len(s) \in Nat /\ Len(Append(s, y)) = Len(s) + 1
           /\ Append(s, y)[Len(s) + 1] = y
           /\ \A i \in 1 .. Len(s) : Append(s, y)[i] = s[i]
  BY AppendProperties

LEMMA NumberGrows ==
    ASSUME NEW S, NEW s \in Seq(S), NEW y \in S, s # <<>>, PpNumber(s),
           y \in Alnum \cup {"."} \/ (y \in {"+", "-"} /\ s[Len(s)] = "e")
    PROVE  PpNumber(Append(s, y))
<1> DEFINE n == Len(s)
           t == Append(s, y)
<1>1. n \in Nat /\ n # 0 /\ Len(t) = n + 1 /\ t[n + 1] = y /\ \A i \in 1 .. n : t[i] = s[i]
  BY OneMore
<1>2. y \in Alnum \cup {"."} \/ (y \in {"+", "-"} /\ s[n] = "e")
  OBVIOUS
<1>3. /\ s[1] \in Digit \/ (n > 1 /\ s[1] = "." /\ s[2] \in Digit)
      /\ \A i \in 2 .. n :
            s[i] \in Alnum \cup {"."} \/ (s[i] \in {"+", "-"} /\ s[i - 1] = "e")
  BY DEF PpNumber
<1> HIDE DEF n, t
<1>4. t[1] \in Digit \/ (Len(t) > 1 /\ t[1] = "." /\ t[2] \in Digit)
  BY <1>1, <1>3
<1>5. ASSUME NEW i \in 2 .. Len(t)
      PROVE  t[i] \in Alnum \cup {"."} \/ (t[i] \in {"+", "-"} /\ t[i - 1] = "e")
  <2>1. CASE i = n + 1
    BY <1>1, <1>2, <2>1
  <2>2. CASE i # n + 1
    <3>1. i \in 2 .. n /\ i \in 1 .. n /\ i - 1 \in 1 .. n
      BY <1>1, <2>2
    <3> QED BY <1>1, <1>3, <3>1
  <2> QED BY <2>1, <2>2
<1> QED BY <1>4, <1>5 DEF PpNumber, t

LEMMA NumberEnds ==
    ASSUME NEW S, NEW s \in Seq(S), NEW y \in S, s # <<>>, y \notin Alnum \cup {"."},
           PpNumber(Append(s, y))
    PROVE  y \in {"+", "-"} /\ s[Len(s)] = "e"
<1> DEFINE n == Len(s)
           t == Append(s, y)
<1>1. n \in Nat /\ n # 0 /\ Len(t) = n + 1 /\ t[n + 1] = y /\ \A i \in 1 .. n : t[i] = s[i]
  BY OneMore
<1>2. \A i \in 2 .. Len(t) :
         t[i] \in Alnum \cup {"."} \/ (t[i] \in {"+", "-"} /\ t[i - 1] = "e")
  BY DEF PpNumber
<1> HIDE DEF n, t
<1>3. n + 1 \in 2 .. Len(t) /\ n + 1 - 1 = n /\ n \in 1 .. n
  BY <1>1
<1>4. y \in {"+", "-"} /\ t[n] = "e"
  BY <1>1, <1>2, <1>3
<1> QED BY <1>1, <1>3, <1>4 DEF n

LEMMA IdentifierGrows ==
    ASSUME NEW S, NEW s \in Seq(S), NEW y \in S, s # <<>>, PpIdentifier(s)
    PROVE  PpIdentifier(Append(s, y)) <=> y \in Alnum
<1> DEFINE n == Len(s)
           t == Append(s, y)
<1>1. n \in Nat /\ n # 0 /\ DOMAIN s = 1 .. n
  OBVIOUS
<1>2. DOMAIN t = 1 .. n + 1 /\ t[n + 1] = y /\ \A i \in 1 .. n : t[i] = s[i]
  BY OneMore
<1>3. s[1] \in Letter /\ \A i \in 1 .. n : s[i] \in Alnum
  BY <1>1 DEF PpIdentifier
<1> HIDE DEF n, t
<1>4. t[1] \in Letter
  BY <1>1, <1>2, <1>3
<1>5. (\A i \in 1 .. n + 1 : t[i] \in Alnum) <=> y \in Alnum
  BY <1>1, <1>2, <1>3
<1> QED BY <1>2, <1>4, <1>5 DEF PpIdentifier, t

LEMMA TwoCharacters ==
    ASSUME NEW x, NEW y
    PROVE  Append(<<x>>, y) = <<x, y>>
<1> DEFINE a == Append(<<x>>, y)
           S == {x, y}
<1>1. <<x>> \in Seq(S) /\ <<x, y>> \in Seq(S) /\ Len(<<x>>) = 1 /\ <<x>>[1] = x
  OBVIOUS
<1>2. a \in Seq(S) /\ Len(a) = 1 + 1 /\ a[1 + 1] = y /\ a[1] = x
  BY <1>1, AppendProperties
<1> HIDE DEF a
<1>3. Len(<<x, y>>) = 2 /\ \A i \in 1 .. 2 : a[i] = <<x, y>>[i]
  BY <1>2
<1>4. a = <<x, y>>
  BY <1>1, <1>2, <1>3, SeqEqual
<1> QED BY <1>4 DEF a

LEMMA NoOperatorOfSlash ==
    ASSUME NEW y PROVE <<"/", y>> \notin Operator
  BY DEF Operator

LEMMA OneCharacter ==
    ASSUME NEW s \in Seq(Fchar), Len(s) = 1
    PROVE  Values(s) = <<s[1].val>>
<1>1. Values(s) = [i \in 1 .. 1 |-> s[i].val]
  BY DEF Values
<1> QED BY <1>1

LEMMA TextStays ==
    ASSUME TypeOK, TypeOK', FewPutBack, Adjacent, RunsSoFar, TextSoFar, Next
    PROVE  TextSoFar'
<1>1. CASE GetNext /\ UNCHANGED <<token, mode, wanted, unit, eaten>>
  <2>1. UNCHANGED <<st, chars>>
    BY <1>1 DEF token
  <2>2. getting
    BY <1>1 DEF GetNext, TakeBack, Splice, Deliver, Inject, End, Pop, Reading, AtEnd
  <2>3. st # "done"
    BY <2>2 DEF FewPutBack, Final
  <2> QED BY <2>1, <2>3 DEF TextSoFar, LongestTokens
<1>2. CASE Drive
  <2>1. st' \in {"start", "end"}
    BY <1>2, DriveMoves DEF Fetch, EndOfWorkspace
  <2> QED BY <2>1 DEF TextSoFar, LongestTokens
<1>3. CASE Analyze
  <2> DEFINE n == Len(chars)
             s == Values(chars)
             t == Append(chars, c)
             l == Append(s, c.val)
  <2>1. TextStep /\ c' = c /\ ~getting /\ st \notin Final
    BY <1>3, AnalyzeText, AnalyzeMoves
  <2>2. chars \in Seq(Fchar) /\ c \in Fchar /\ n \in Nat /\ ps \in Seq(Fchar)
    BY DEF TypeOK
  <2>3. st = "start" => chars = <<>>
    BY DEF Adjacent
  <2>4. /\ c.val \in Char \cup {EOF, Cookie} /\ s \in Seq(Char \cup {EOF, Cookie})
        /\ Len(s) = n /\ \A i \in 1 .. n : s[i] = chars[i].val
    BY <2>2, ValuesTypes DEF Fchar
  <2>5. /\ Len(t) = n + 1 /\ t[n + 1] = c /\ \A i \in 1 .. n : t[i] = chars[i]
        /\ Values(t) = l
    BY <2>2, OneMore, ValuesAppend
  <2>6. st' \in {"slash", "dot", "prefix"} =>
          /\ chars' = <<c>>
          /\ st' = "slash" => c.val = "/"
          /\ st' = "dot" => c.val = "."
          /\ st' = "prefix" => c.val \in Letter
    <3>1. /\ st' \in {"slash", "dot", "prefix"} => st = "start" /\ chars' = t
          /\ st' = "slash" => c.val = "/"
          /\ st' = "dot" => c.val = "."
          /\ st' = "prefix" => c.val \in Letter
      BY <2>1 DEF TextStep
    <3>2. st = "start" => t = <<c>>
      BY <2>3
    <3> HIDE DEF t
    <3> QED BY <3>1, <3>2
  <2>7. st' = "u8" => Len(chars') >= 1 /\ chars'[1].val \in Letter
    <3>1. st' = "u8" => n = 1 /\ chars[1].val \in Letter /\ chars' = t
      BY <2>1 DEF TextStep, TextSoFar
    <3>2. n = 1 => Len(t) >= 1 /\ t[1] = chars[1]
      <4> HIDE DEF n, t
      <4> QED BY <2>5
    <3> QED BY <3>1, <3>2, Zenon
  <2>8. ASSUME NEW x \in Fchar
        PROVE  <<x>> \in Seq(Fchar) /\ Len(<<x>>) = 1 /\ Values(<<x>>) = <<x.val>>
    <3>1. <<x>> \in Seq(Fchar) /\ Len(<<x>>) = 1 /\ <<x>>[1] = x
      OBVIOUS
    <3> QED BY <3>1, OneCharacter
  <2>9. ASSUME NEW x \in Fchar, x.val \in Letter
        PROVE  <<x>> # <<>> /\ PpIdentifier(Values(<<x>>))
    BY <2>8, <2>9 DEF PpIdentifier, Alnum
  <2>10. st' = "word" => chars' # <<>> /\ PpIdentifier(Values(chars'))
    <3>1. CASE st = "start" /\ c.val \in Letter /\ chars' = t
      <4>1. chars' = <<c>>
        BY <2>3, <3>1
      <4> QED BY <2>2, <2>9, <3>1, <4>1
    <3>2. CASE st = "word" /\ c.val \in Alnum /\ chars' = t
      <4>1. chars # <<>> /\ PpIdentifier(s)
        BY <3>2 DEF TextSoFar
      <4>2. s # <<>> /\ t # <<>>
        BY <2>2, <2>4, <2>5, <4>1
      <4>3. PpIdentifier(l)
        BY <2>4, <3>2, <4>1, <4>2, IdentifierGrows
      <4> QED BY <2>5, <3>2, <4>2, <4>3
    <3>3. CASE \/ st = "prefix" /\ chars' = chars
               \/ st = "u8" /\ chars' = <<chars[1]>>
      <4>1. chars[1] \in Fchar /\ chars[1].val \in Letter
        BY <2>2, <3>3 DEF TextSoFar
      <4>2. chars' = <<chars[1]>>
        <5>1. st = "prefix" => chars = <<chars[1]>>
          BY <2>2 DEF TextSoFar
        <5> QED BY <3>3, <5>1
      <4> QED BY <2>9, <4>1, <4>2
    <3>4. st' = "word" =>
            \/ st = "start" /\ c.val \in Letter /\ chars' = t
            \/ st = "word" /\ c.val \in Alnum /\ chars' = t
            \/ st = "prefix" /\ chars' = chars
            \/ st = "u8" /\ chars' = <<chars[1]>>
      BY <2>1 DEF TextStep
    <3> HIDE DEF t, s, l, n
    <3> QED BY <3>1, <3>2, <3>3, <3>4
  <2>11. st = "number" \/ st = "exponent" => chars # <<>> /\ PpNumber(s) /\ s # <<>>
    BY <2>2, <2>4 DEF TextSoFar
  <2>12. st = "exponent" => s[n] = "e" /\ chars[n].val = "e"
    BY <2>2, <2>4, <2>11 DEF TextSoFar, LastOf
  <2>13. st' = "exponent" =>
           /\ chars' # <<>> /\ PpNumber(Values(chars')) /\ LastOf(chars').val = "e"
    <3>1. st' = "exponent" => st = "number" /\ c.val = "e" /\ chars' = t
      BY <2>1 DEF TextStep
    <3>2. st' = "exponent" => PpNumber(l)
      BY <2>4, <2>11, <3>1, NumberGrows DEF Alnum, Letter
    <3>3. t # <<>> /\ LastOf(t) = c
      BY <2>2, <2>5 DEF LastOf
    <3> QED BY <2>5, <3>1, <3>2, <3>3
  <2>14. ASSUME st' = "number"
         PROVE  /\ chars' # <<>> /\ PpNumber(Values(chars'))
                /\ LastOf(chars').val = "e" =>
                     Len(chars') > 1 /\ chars'[Len(chars') - 1].val = "e"
    <3>1. /\ chars' = t
          /\ \/ st \in {"start", "dot"} /\ c.val \in Digit
             \/ st = "number" /\ c.val \in Alnum \cup {"."} /\ c.val # "e"
             \/ st = "exponent" /\ c.val \in Alnum \cup {".", "+", "-"}
      BY <2>1, <2>14 DEF TextStep
    <3>2. t # <<>> /\ LastOf(t) = c
      BY <2>2, <2>5 DEF LastOf
    <3>3. PpNumber(l)
      <4>1. CASE st = "start" /\ c.val \in Digit
        <5>1. t = <<c>>
          BY <2>3, <4>1
        <5>2. l = <<c.val>>
          BY <2>2, <2>5, <2>8, <5>1
        <5> QED BY <4>1, <5>2 DEF PpNumber
      <4>2. CASE st = "dot" /\ c.val \in Digit
        <5>1. n = 1 /\ chars[1].val = "."
          BY <4>2 DEF TextSoFar
        <5>2. s = <<".">>
          BY <2>2, <5>1, OneCharacter
        <5>3. l = <<".", c.val>>
          <6>1. Append(<<".">>, c.val) = <<".", c.val>>
            BY TwoCharacters
          <6> QED BY <5>2, <6>1, Zenon
        <5> QED BY <4>2, <5>3 DEF PpNumber, Alnum
      <4>3. CASE st = "number" /\ c.val \in Alnum \cup {"."}
        BY <2>4, <2>11, <4>3, NumberGrows
      <4>4. CASE st = "exponent" /\ c.val \in Alnum \cup {".", "+", "-"}
        BY <2>4, <2>11, <2>12, <4>4, NumberGrows
      <4> QED BY <3>1, <4>1, <4>2, <4>3, <4>4
    <3>4. c.val = "e" => Len(t) > 1 /\ t[Len(t) - 1].val = "e"
      <4>1. c.val = "e" => st = "exponent"
        BY <3>1 DEF Digit
      <4>2. st = "exponent" => n # 0 /\ chars[n].val = "e"
        BY <2>2, <2>11, <2>12
      <4> HIDE DEF n, t
      <4> QED BY <2>2, <2>5, <4>1, <4>2
    <3> QED BY <2>5, <3>1, <3>2, <3>3, <3>4
  <2>15. ASSUME st' = "done", code' \in {"identifier", "number", "op"}, ps' # <<>>
         PROVE  LongestTokens'
    <3> DEFINE back == chars' = chars /\ ps' = Append(ps, c)
    <3>1. ASSUME back PROVE Values(chars') = s /\ ps'[Len(ps')].val = c.val
      <4>1. Len(ps') = Len(ps) + 1 /\ ps'[Len(ps) + 1] = c
        BY <2>2, <3>1, OneMore
      <4> QED BY <3>1, <4>1
    <3>2. CASE code' = "identifier"
      <4>1. st = "word" /\ c.val \notin Alnum /\ back
        BY <2>1, <2>15, <3>2 DEF TextStep
      <4>2. chars # <<>> /\ PpIdentifier(s)
        BY <4>1 DEF TextSoFar
      <4>3. s # <<>>
        BY <2>2, <2>4, <4>2
      <4>4. ~PpIdentifier(l)
        BY <2>4, <4>1, <4>2, <4>3, IdentifierGrows
      <4> QED BY <3>1, <3>2, <4>1, <4>2, <4>4 DEF LongestTokens
    <3>3. CASE code' = "number"
      <4>1. /\ back /\ c.val \notin Alnum \cup {"."}
            /\ st = "number" \/ (st = "exponent" /\ c.val \notin {"+", "-"})
        BY <2>1, <2>15, <3>3 DEF TextStep
      <4>2. ASSUME PpNumber(l) PROVE \E i \in 2 .. Len(s) : s[i] = "e" /\ s[i - 1] = "e"
        <5>1. c.val \in {"+", "-"} /\ s[n] = "e" /\ n # 0
          BY <2>2, <2>4, <2>11, <4>1, <4>2, NumberEnds
        <5>2. st = "number" /\ chars[n].val = "e"
          BY <2>2, <2>4, <4>1, <5>1
        <5>3. n > 1 /\ chars[n - 1].val = "e"
          BY <5>2 DEF TextSoFar, LastOf
        <5> HIDE DEF n
        <5>4. n \in 2 .. Len(s) /\ s[n - 1] = "e"
          BY <2>2, <2>4, <5>3
        <5> QED BY <5>1, <5>4
      <4>3. PpNumber(s)
        BY <2>11, <4>1
      <4> QED BY <3>1, <3>3, <4>1, <4>2, <4>3 DEF LongestTokens
    <3>4. CASE code' = "op"
      <4>1. /\ st \in {"operator", "slash"}
            /\ \/ ps' = ps
               \/ back /\ (st = "operator" => l \notin Operator)
        BY <2>1, <2>15, <3>4 DEF TextStep
      <4>2. ps = <<>>
        BY <2>1, <4>1 DEF FewPutBack
      <4>3. back /\ (st = "operator" => l \notin Operator)
        BY <2>15, <4>1, <4>2
      <4>4. st = "slash" => l \notin Operator
        <5>1. st = "slash" => n = 1 /\ chars[1].val = "/"
          BY DEF TextSoFar
        <5>2. st = "slash" => s = <<"/">>
          BY <2>2, <5>1, OneCharacter
        <5>3. st = "slash" => l = <<"/", c.val>>
          <6>1. Append(<<"/">>, c.val) = <<"/", c.val>>
            BY TwoCharacters
          <6> QED BY <5>2, <6>1, Zenon
        <5> QED BY <5>3, NoOperatorOfSlash
      <4> QED BY <3>1, <3>4, <4>1, <4>3, <4>4 DEF LongestTokens
    <3> QED BY <2>15, <3>2, <3>3, <3>4
  <2>16. LongestTokens'
    BY <2>15 DEF LongestTokens
  <2>17. /\ st' \in {"slash", "dot", "prefix"} => Len(chars') = 1
         /\ st' = "slash" => chars'[1].val = "/"
         /\ st' = "dot" => chars'[1].val = "."
         /\ st' \in {"prefix", "u8"} => Len(chars') >= 1 /\ chars'[1].val \in Letter
    BY <2>6, <2>7
  <2> HIDE DEF n, s, t, l
  <2> QED BY <2>10, <2>13, <2>14, <2>16, <2>17 DEF TextSoFar
<1> QED BY <1>1, <1>2, <1>3 DEF Next

-----------------------------------------------------------------------------
(* The theorems                                                            *)

LEMMA InitRight == Init => IInv
<1> SUFFICES ASSUME Init PROVE IInv
  OBVIOUS
<1>1. /\ text \in Text /\ trigraphs \in Trigraphs /\ in = Opened /\ fi = Main /\ line = 1
      /\ cs = <<>> /\ ps = <<>> /\ lock = 0 /\ lines = [x \in File |-> 0]
      /\ c = [val |-> EOF, fi |-> Main, pos |-> 0] /\ getting = FALSE /\ fresh = <<>>
      /\ st = "done" /\ code = "space" /\ chars = <<>> /\ eaten = <<>>
      /\ base = <<Main, 0>> /\ follow = <<Main, 0>> /\ parts = <<>>
      /\ mode = "text" /\ wanted = NoFile /\ unit = NoFile
  BY DEF Init, InputInit
<1>2. Main \in File
  BY LexerAssumption
<1>3. Opened \in Stream /\ Sound(Opened)
  BY DEF Opened, Stream, Sound, Offset
<1>4. TypeOK
  <2>1. text \in [File -> Seq(Char)] /\ trigraphs \in BOOLEAN
    BY <1>1, FileStackAssumption
  <2>2. c \in Fchar /\ lines \in [File -> Nat]
    BY <1>1, <1>2 DEF Fchar
  <2>3. /\ cs \in Seq(Saved) /\ ps \in Seq(Fchar) /\ chars \in Seq(Fchar)
        /\ fresh \in Seq(Fchar) /\ eaten \in Seq(Fchar) /\ parts \in Seq(Part)
    BY <1>1
  <2>4. base \in File \X Int /\ follow \in File \X Int
    BY <1>1, <1>2
  <2>5. in \in Stream /\ getting \in BOOLEAN
    BY <1>1, <1>3, Zenon
  <2>7. fi \in File /\ line \in Int /\ lock \in Nat
    BY <1>1, <1>2
  <2>6. /\ wanted \in File \cup {NoFile} /\ unit \in File \cup {NoFile}
        /\ mode = "include" => wanted \in File
    BY <1>1
  <2> QED BY <2>1, <2>2, <2>3, <2>4, <2>5, <2>6, <2>7 DEF TypeOK
<1>5. LinesCounted /\ Locked /\ EndsMet
  BY <1>1, <1>2 DEF LinesCounted, Locked, EndsMet, StopsHere
<1>6. Len(ps) = 0 /\ DOMAIN ps = {} /\ code \notin Directive \cup {NL, EOF}
  BY <1>1, KindsAreNoDirectives
<1>7. FewPutBack
  BY <1>1, <1>6 DEF FewPutBack, Final
<1>8. Adjacent /\ RunsSoFar
  BY <1>1 DEF Adjacent, RunsSoFar, PartsNameCharacters, Final, MayPutBack, InOneFile
<1>9. NothingLostOrRepeated
  <2>1. Unseen = <<>> /\ Reversed(ps) = <<>>
    BY <1>1, ReversedNone DEF Unseen
  <2>2. <<>> \o <<>> = <<>>
    BY <<>> \in Seq({}), ConcatEmptySeq
  <2> QED BY <1>1, <2>1, <2>2 DEF NothingLostOrRepeated
<1>10. TextSoFar
  BY <1>1 DEF TextSoFar, LongestTokens
<1> QED BY <1>1, <1>3, <1>4, <1>5, <1>7, <1>8, <1>9, <1>10 DEF IInv

LEMMA NextRight ==
    ASSUME IInv, Next
    PROVE  IInv'
<1> USE DEF IInv
<1>1. TypeOK' /\ Sound(in)'
  <2>1. CASE GetNext /\ UNCHANGED <<token, mode, wanted, unit, eaten>>
    BY <2>1, GetNextTypes
  <2>2. CASE Analyze
    BY <2>2, AnalyzeTypes
  <2>3. CASE Drive
    BY <2>3, DriveTypes
  <2> QED BY <2>1, <2>2, <2>3 DEF Next
<1>2. LinesCounted'
  BY <1>1, LinesStayCounted
<1>3. Locked' /\ EndsMet'
  BY <1>1, LockKept, EndsStayMet
<1>4. FewPutBack' /\ Adjacent'
  BY <1>1, FewStayPutBack, StaysAdjacent
<1>5. RunsSoFar' /\ NothingLostOrRepeated'
  BY <1>1, RunsStayRight, NothingIsLost
<1>6. TextSoFar'
  BY <1>1, TextStays
<1> QED BY <1>1, <1>2, <1>3, <1>4, <1>5, <1>6

LEMMA StutterRight ==
    ASSUME IInv, UNCHANGED vars
    PROVE  IInv'
<1>1. UNCHANGED <<text, trigraphs, in, fi, line, yacc_file, cs, ps, lock, oval, lines, c,
                  getting, fresh, st, code, chars, base, follow, parts, mode, wanted,
                  unit, eaten>>
  BY DEF vars, input, source, place, token, driver
<1>2. TypeOK' /\ Sound(in)' /\ LinesCounted' /\ Locked' /\ EndsMet'
  BY <1>1, SMTT(30) DEF IInv, TypeOK, Sound, Offset, LinesCounted, Locked, EndsMet, StopsHere
<1>3. FewPutBack' /\ Adjacent'
  BY <1>1 DEF IInv, FewPutBack, Adjacent, FollowedBy, Plain
<1>4. RunsSoFar' /\ NothingLostOrRepeated'
  BY <1>1 DEF IInv, RunsSoFar, PartsNameCharacters, NothingLostOrRepeated, Unseen, Reversed
<1>5. TextSoFar'
  BY <1>1 DEF IInv, TextSoFar, LongestTokens
<1> QED BY <1>2, <1>3, <1>4, <1>5 DEF IInv

\* The invariant that the theorems below rest on holds always.
THEOREM Invariant == Spec => []IInv
<1>1. Init => IInv
  BY InitRight
<1>2. IInv /\ [Next]_vars => IInv'
  BY NextRight, StutterRight
<1> QED BY <1>1, <1>2, PTL DEF Spec

\* Where the program says it is in a file is where it is: the position that
\* fifstream::tellg caches is right whenever it is taken to be, set_line_processed
\* misses no line, and the parts of an identifier or number name the places of
\* its characters, whatever was spliced, put back or included.
THEOREM PlacesStayRight == Spec => []PlacesRight
<1>1. ASSUME IInv PROVE PlacesRight
  <2>1. CachedPosition
    BY <1>1 DEF IInv, Sound, CachedPosition
  <2>2. NoLineMissed
    <3>1. Reading /\ (Simple.splice \/ Simple.val = NL) => ~in.bad
      BY <1>1, SimpleFound DEF IInv, NL, EOF
    <3> QED BY <1>1, <3>1 DEF IInv, LinesCounted, NoLineMissed
  <2>3. PartsNameCharacters
    BY <1>1 DEF IInv, RunsSoFar
  <2> QED BY <2>1, <2>2, <2>3 DEF PlacesRight, PositionsRight
<1> QED BY <1>1, Invariant, PTL

\* Every character that getnext read is in one token, or waits to be, in the
\* order it was read; tokens do not extend over files; and a unit ends with the
\* file of its #pragma process, the workspace with its own.
THEOREM CharactersReadExactly == Spec => []ReadExactly
<1>1. ASSUME IInv PROVE ReadExactly
  <2>1. NothingLostOrRepeated
    BY <1>1 DEF IInv
  <2>2. TokensStayInFiles
    BY <1>1 DEF IInv, Adjacent, FewPutBack, TokensStayInFiles
  <2>3. UnitsEndWithTheirFiles
    <3>1. ASSUME st = "done", code = EOF, unit # NoFile PROVE fi = unit
      <4>1. cs = <<>> \/ Len(cs) = lock
        BY <1>1, <3>1 DEF IInv, EndsMet, StopsHere
      <4>2. lock \in 1 .. Len(cs) /\ unit = IF lock = Len(cs) THEN fi ELSE cs[lock + 1].fi
        BY <1>1, <3>1 DEF IInv, Locked
      <4>3. cs # <<>>
        BY <4>2
      <4> QED BY <4>1, <4>2, <4>3
    <3> QED BY <1>1, <3>1 DEF IInv, EndsMet, UnitsEndWithTheirFiles
  <2> QED BY <2>1, <2>2, <2>3 DEF ReadExactly
<1> QED BY <1>1, Invariant, PTL

\* Each identifier, number and operator is the longest one that begins where it
\* does, but for a sign after two exponent letters: what the states of
\* getnext_analyze have read is always the beginning of one, and the character
\* put back would not continue it.
THEOREM TokensAreLongest == Spec => []LongestTokens
<1>1. IInv => LongestTokens
  BY DEF IInv, TextSoFar
<1> QED BY <1>1, Invariant, PTL

-----------------------------------------------------------------------------
(* Characters that count: trigraphs, splices and what is lost               *)

\* p is where a round of simple_getnext may begin: not in a trigraph or a
\* splice, nor at a character that is lost; -1 is a stream that failed.
Boundary(f, p) ==
    \/ p = -1
    \/ /\ p \in 1 .. Len(text[f]) + 1
       /\ ~Phase!Inside(text[f], p)
       /\ \A j \in 1 .. p - 1 : Phase!SpliceEnd(text[f], j) < p
       /\ p <= Len(text[f]) => ~Phase!Lost(text[f], p)

\* The third characters of trigraphs.
LEMMA StandsFor ==
    /\ DOMAIN Phase!Stands = {"/"} \cup DOMAIN Trigraph
    /\ DOMAIN Trigraph = {"=", "'", "(", ")", "!", "<", ">", "-"}
    /\ Phase!Stands["/"] = "\\"
    /\ \A x \in DOMAIN Trigraph : Phase!Stands[x] = Trigraph[x] /\ Trigraph[x] \notin {"\\", "?", NL, CR}
<1>1. DOMAIN Trigraph = {"=", "'", "(", ")", "!", "<", ">", "-"}
  BY DEF Trigraph
<1>2. DOMAIN Phase!Stands = {"/"} \cup DOMAIN Trigraph
  BY <1>1 DEF Phase!Stands
<1>3. Phase!Stands["/"] = "\\"
  BY DEF Phase!Stands
<1>4. ASSUME NEW x \in DOMAIN Trigraph
      PROVE  Phase!Stands[x] = Trigraph[x] /\ Trigraph[x] \notin {"\\", "?", NL, CR}
  BY <1>1 DEF Phase!Stands, Trigraph, NL, CR
<1> QED BY <1>1, <1>2, <1>3, <1>4

\* Trigraphs do not overlap, and hold no end of line.
LEMMA TrigraphsApart ==
    ASSUME NEW t \in Seq(Char), NEW i \in Nat, Phase!TrigraphAt(t, i)
    PROVE  /\ trigraphs /\ i + 2 <= Len(t)
           /\ t[i] = "?" /\ t[i + 1] = "?" /\ t[i + 2] \in DOMAIN Phase!Stands
           /\ t[i + 2] \notin {"?", "\\", NL, CR}
           /\ ~Phase!TrigraphAt(t, i + 1) /\ ~Phase!TrigraphAt(t, i + 2)
<1>1. /\ trigraphs /\ i + 2 <= Len(t)
      /\ t[i] = "?" /\ t[i + 1] = "?" /\ t[i + 2] \in DOMAIN Phase!Stands
  BY DEF Phase!TrigraphAt
<1>2. t[i + 2] \notin {"?", "\\", NL, CR}
  BY <1>1, StandsFor DEF NL, CR
<1>3. ~Phase!TrigraphAt(t, i + 1)
  <2>1. ASSUME Phase!TrigraphAt(t, i + 1) PROVE t[(i + 1) + 1] = "?"
    BY <2>1 DEF Phase!TrigraphAt
  <2>2. (i + 1) + 1 = i + 2
    OBVIOUS
  <2> QED BY <1>2, <2>1, <2>2
<1>4. ~Phase!TrigraphAt(t, i + 2)
  BY <1>2 DEF Phase!TrigraphAt
<1> QED BY <1>1, <1>2, <1>3, <1>4

\* What is inside a trigraph.
LEMMA InsideIs ==
    ASSUME NEW t \in Seq(Char), NEW i \in Nat \ {0}
    PROVE  /\ Phase!Inside(t, i) <=> \/ i > 1 /\ Phase!TrigraphAt(t, i - 1)
                                     \/ i > 2 /\ Phase!TrigraphAt(t, i - 2)
           /\ Phase!Inside(t, i) => ~Phase!TrigraphAt(t, i)
<1>1. Phase!Inside(t, i) <=> \/ i > 1 /\ Phase!TrigraphAt(t, i - 1)
                             \/ i > 2 /\ Phase!TrigraphAt(t, i - 2)
  BY DEF Phase!Inside
<1>2. ASSUME i > 1, Phase!TrigraphAt(t, i - 1) PROVE ~Phase!TrigraphAt(t, i)
  <2>1. i - 1 \in Nat /\ (i - 1) + 1 = i
    BY <1>2
  <2> QED BY <1>2, <2>1, TrigraphsApart
<1>3. ASSUME i > 2, Phase!TrigraphAt(t, i - 2) PROVE ~Phase!TrigraphAt(t, i)
  <2>1. i - 2 \in Nat /\ (i - 2) + 2 = i
    BY <1>3
  <2> QED BY <1>3, <2>1, TrigraphsApart
<1> QED BY <1>1, <1>2, <1>3

\* The next character is one or three on.
LEMMA AfterIs ==
    ASSUME NEW t \in Seq(Char), NEW i \in 1 .. Len(t)
    PROVE  /\ Phase!After(t, i) \in Nat /\ Phase!After(t, i) > i
           /\ Phase!After(t, i) <= Len(t) + 1
           /\ Phase!After(t, i) = IF Phase!TrigraphAt(t, i) THEN i + 3 ELSE i + 1
<1>1. Phase!TrigraphAt(t, i) => i + 2 <= Len(t)
  BY DEF Phase!TrigraphAt
<1> QED BY <1>1 DEF Phase!After

\* What stands at a backslash, and at an end of line.
LEMMA ValueIs ==
    ASSUME NEW t \in Seq(Char), NEW i \in 1 .. Len(t)
    PROVE  /\ Phase!ValueAt(t, i) = "\\" <=>
                \/ t[i] = "\\"
                \/ Phase!TrigraphAt(t, i) /\ t[i + 2] = "/"
           /\ t[i] # "?" => ~Phase!TrigraphAt(t, i) /\ Phase!ValueAt(t, i) = t[i]
           /\ Phase!TrigraphAt(t, i) => Phase!ValueAt(t, i) = Phase!Stands[t[i + 2]]
<1>1. t[i] # "?" => ~Phase!TrigraphAt(t, i)
  BY DEF Phase!TrigraphAt
<1>2. ASSUME Phase!TrigraphAt(t, i)
      PROVE  /\ Phase!ValueAt(t, i) = Phase!Stands[t[i + 2]]
             /\ t[i] # "\\" /\ (Phase!Stands[t[i + 2]] = "\\" <=> t[i + 2] = "/")
  <2>1. t[i] = "?" /\ t[i + 2] \in DOMAIN Phase!Stands
    BY <1>2 DEF Phase!TrigraphAt
  <2>2. Phase!Stands[t[i + 2]] = "\\" <=> t[i + 2] = "/"
    BY <2>1, StandsFor
  <2> QED BY <1>2, <2>1, <2>2 DEF Phase!ValueAt
<1>3. ~Phase!TrigraphAt(t, i) => Phase!ValueAt(t, i) = t[i]
  BY DEF Phase!ValueAt
<1> QED BY <1>1, <1>2, <1>3

\* Where a splice ends, and what it holds.
LEMMA SpliceIs ==
    ASSUME NEW t \in Seq(Char), NEW i \in 1 .. Len(t)
    PROVE  LET n == Phase!After(t, i)
               e == Phase!SpliceEnd(t, i)
           IN  /\ e = 0 \/ (e \in i + 1 .. Len(t) /\ ~Phase!Inside(t, i) /\ Phase!ValueAt(t, i) = "\\"
                            /\ n <= e /\ t[e] = NL /\ \/ e = n
                                                      \/ e = n + 1 /\ t[n] = CR)
               /\ e = 0 => Phase!Inside(t, i) \/ Phase!ValueAt(t, i) # "\\" \/ n > Len(t)
                           \/ (t[n] # NL /\ ~(t[n] = CR /\ n < Len(t) /\ t[n + 1] = NL))
<1> DEFINE n == Phase!After(t, i)
           e == Phase!SpliceEnd(t, i)
<1>1. n \in Nat /\ n > i /\ n <= Len(t) + 1
  BY AfterIs
<1>2. e = IF Phase!Inside(t, i) \/ Phase!ValueAt(t, i) # "\\" \/ n > Len(t) THEN 0
          ELSE IF t[n] = NL THEN n
          ELSE IF t[n] = CR /\ n < Len(t) /\ t[n + 1] = NL THEN n + 1
          ELSE 0
  BY DEF Phase!SpliceEnd
<1> HIDE DEF n, e
<1>3. e = 0 \/ (e \in i + 1 .. Len(t) /\ ~Phase!Inside(t, i) /\ Phase!ValueAt(t, i) = "\\"
                /\ n <= e /\ t[e] = NL /\ \/ e = n
                                          \/ e = n + 1 /\ t[n] = CR)
  BY <1>1, <1>2
<1>4. e = 0 => Phase!Inside(t, i) \/ Phase!ValueAt(t, i) # "\\" \/ n > Len(t)
               \/ (t[n] # NL /\ ~(t[n] = CR /\ n < Len(t) /\ t[n + 1] = NL))
  BY <1>1, <1>2
<1> QED BY <1>3, <1>4 DEF n, e

\* A character that counts is followed by one that a splice or a trigraph does
\* not hold.
LEMMA AfterCounts ==
    ASSUME NEW t \in Seq(Char), NEW p \in 1 .. Len(t), ~Phase!Inside(t, p),
           \A j \in 1 .. p - 1 : Phase!SpliceEnd(t, j) < p,
           Phase!SpliceEnd(t, p) = 0
    PROVE  LET n == Phase!After(t, p)
           IN  /\ ~Phase!Inside(t, n)
               /\ \A j \in 1 .. n - 1 : Phase!SpliceEnd(t, j) < n
<1> DEFINE n == Phase!After(t, p)
<1>1. /\ n \in Nat /\ n > p /\ n <= Len(t) + 1
      /\ n = IF Phase!TrigraphAt(t, p) THEN p + 3 ELSE p + 1
  BY AfterIs
<1>2. /\ p > 1 => ~Phase!TrigraphAt(t, p - 1)
      /\ p > 2 => ~Phase!TrigraphAt(t, p - 2)
  BY InsideIs
<1> HIDE DEF n
<1>3. CASE Phase!TrigraphAt(t, p)
  <2>1. ~Phase!TrigraphAt(t, p + 1) /\ ~Phase!TrigraphAt(t, p + 2) /\ n = p + 3
    BY <1>1, <1>3, TrigraphsApart
  <2>2. n - 1 = p + 2 /\ n - 2 = p + 1 /\ n \in Nat \ {0}
    BY <2>1
  <2>3. ~Phase!Inside(t, n)
    BY <2>1, <2>2, InsideIs
  <2>4. p + 2 <= Len(t)
    BY <1>3, TrigraphsApart
  <2>5. Phase!Inside(t, p + 1) /\ Phase!Inside(t, p + 2)
    <3>1. (p + 1) - 1 = p /\ (p + 2) - 2 = p /\ p + 1 \in Nat \ {0} /\ p + 2 \in Nat \ {0}
          /\ p + 1 > 1 /\ p + 2 > 2
      OBVIOUS
    <3> QED BY <1>3, <3>1, InsideIs
  <2>6. Phase!SpliceEnd(t, p + 1) = 0 /\ Phase!SpliceEnd(t, p + 2) = 0
    BY <2>5 DEF Phase!SpliceEnd
  <2>7. ASSUME NEW j \in 1 .. n - 1 PROVE Phase!SpliceEnd(t, j) < n
    <3>1. j \in 1 .. p - 1 \/ j = p \/ j = p + 1 \/ j = p + 2
      BY <2>1
    <3>2. ASSUME j \in 1 .. p - 1 PROVE Phase!SpliceEnd(t, j) < n
      <4>1. Phase!SpliceEnd(t, j) < p /\ j \in 1 .. Len(t)
        BY <3>2
      <4>2. Phase!SpliceEnd(t, j) \in Nat
        BY <4>1, SpliceIs
      <4> QED BY <1>1, <4>1, <4>2
    <3> QED BY <1>1, <2>6, <3>1, <3>2
  <2> QED BY <2>3, <2>7 DEF n
<1>4. CASE ~Phase!TrigraphAt(t, p)
  <2>1. n = p + 1
    BY <1>1, <1>4
  <2>2. n - 1 = p /\ n - 2 = p - 1 /\ n \in Nat \ {0} /\ (n > 2 => p > 1)
    BY <2>1
  <2>3. ~Phase!Inside(t, n)
    BY <1>2, <1>4, <2>2, InsideIs
  <2>4. ASSUME NEW j \in 1 .. n - 1 PROVE Phase!SpliceEnd(t, j) < n
    <3>1. j \in 1 .. p - 1 \/ j = p
      BY <2>1
    <3>2. ASSUME j \in 1 .. p - 1 PROVE Phase!SpliceEnd(t, j) < n
      <4>1. Phase!SpliceEnd(t, j) < p /\ j \in 1 .. Len(t)
        BY <3>2
      <4>2. Phase!SpliceEnd(t, j) \in Nat
        BY <4>1, SpliceIs
      <4> QED BY <1>1, <4>1, <4>2
    <3> QED BY <1>1, <3>1, <3>2
  <2> QED BY <2>3, <2>4 DEF n
<1> QED BY <1>3, <1>4

\* What is lost after the character at p: a second question mark, or a return
\* after a backslash.
LEMMA LostIs ==
    ASSUME NEW t \in Seq(Char), NEW p \in 1 .. Len(t), ~Phase!Inside(t, p)
    PROVE  LET n == Phase!After(t, p)
           IN  Phase!Lost(t, n) <=>
                 /\ n = Len(t)
                 /\ \/ trigraphs /\ t[p] = "?" /\ ~Phase!TrigraphAt(t, p) /\ t[n] = "?"
                    \/ t[n] = CR /\ Phase!ValueAt(t, p) = "\\"
<1> DEFINE n == Phase!After(t, p)
<1>1. /\ n \in Nat /\ n > p /\ n <= Len(t) + 1 /\ n > 1
      /\ n = IF Phase!TrigraphAt(t, p) THEN p + 3 ELSE p + 1
  BY AfterIs
<1>2. /\ p > 1 => ~Phase!TrigraphAt(t, p - 1)
      /\ p > 2 => ~Phase!TrigraphAt(t, p - 2)
  BY InsideIs
<1>3. CR # "?"
  BY DEF CR
<1>4. Phase!Lost(t, n) <=>
        /\ n = Len(t) /\ n > 1
        /\ \/ trigraphs /\ t[n] = "?" /\ t[n - 1] = "?"
           \/ t[n] = CR /\ \E j \in 1 .. n - 1 :
                ~Phase!Inside(t, j) /\ Phase!ValueAt(t, j) = "\\" /\ Phase!After(t, j) = n
        /\ ~Phase!Inside(t, n - 1) \/ t[n] = CR
  BY DEF Phase!Lost
<1> HIDE DEF n
<1>5. ASSUME n <= Len(t), NEW j \in 1 .. n - 1, ~Phase!Inside(t, j), Phase!After(t, j) = n
      PROVE  j = p
  <2>1. j \in 1 .. Len(t) /\ n = IF Phase!TrigraphAt(t, j) THEN j + 3 ELSE j + 1
    BY <1>1, <1>5, AfterIs
  <2>2. /\ j > 1 => ~Phase!TrigraphAt(t, j - 1)
        /\ j > 2 => ~Phase!TrigraphAt(t, j - 2)
    BY <1>5, <2>1, InsideIs
  <2>3. CASE Phase!TrigraphAt(t, p) /\ ~Phase!TrigraphAt(t, j)
    <3>1. j = p + 2 /\ j - 2 = p /\ j > 2
      BY <1>1, <2>1, <2>3
    <3> QED BY <2>2, <2>3, <3>1
  <2>4. CASE ~Phase!TrigraphAt(t, p) /\ Phase!TrigraphAt(t, j)
    <3>1. p = j + 2 /\ p - 2 = j /\ p > 2
      BY <1>1, <2>1, <2>4
    <3> QED BY <1>2, <2>4, <3>1
  <2>5. CASE Phase!TrigraphAt(t, p) <=> Phase!TrigraphAt(t, j)
    BY <1>1, <2>1, <2>5
  <2> QED BY <2>3, <2>4, <2>5
<1>6. n <= Len(t) =>
        ((\E j \in 1 .. n - 1 :
            ~Phase!Inside(t, j) /\ Phase!ValueAt(t, j) = "\\" /\ Phase!After(t, j) = n)
         <=> Phase!ValueAt(t, p) = "\\")
  <2>1. p \in 1 .. n - 1 /\ Phase!After(t, p) = n
    BY <1>1 DEF n
  <2> QED BY <1>5, <2>1
<1>7. CASE Phase!TrigraphAt(t, p)
  <2>1. t[p + 2] # "?" /\ n - 1 = p + 2
    BY <1>1, <1>7, TrigraphsApart
  <2> QED BY <1>1, <1>4, <1>6, <1>7, <2>1 DEF n
<1>8. CASE ~Phase!TrigraphAt(t, p)
  <2>1. n - 1 = p
    BY <1>1, <1>8
  <2> QED BY <1>1, <1>3, <1>4, <1>6, <1>8, <2>1 DEF n
<1> QED BY <1>7, <1>8

\* A splice is followed by a place where reading may go on.
LEMMA SplicePassed ==
    ASSUME NEW t \in Seq(Char), NEW p \in 1 .. Len(t), ~Phase!Inside(t, p),
           \A j \in 1 .. p - 1 : Phase!SpliceEnd(t, j) < p,
           Phase!SpliceEnd(t, p) # 0
    PROVE  LET e == Phase!SpliceEnd(t, p)
           IN  /\ e \in p + 1 .. Len(t)
               /\ ~Phase!Inside(t, e + 1)
               /\ \A j \in 1 .. e : Phase!SpliceEnd(t, j) < e + 1
               /\ ~Phase!Lost(t, e + 1)
<1> DEFINE n == Phase!After(t, p)
           e == Phase!SpliceEnd(t, p)
<1>1. /\ n \in Nat /\ n > p /\ n <= Len(t) + 1
      /\ n = IF Phase!TrigraphAt(t, p) THEN p + 3 ELSE p + 1
  BY AfterIs
<1>2. /\ e \in p + 1 .. Len(t) /\ n <= e /\ t[e] = NL
      /\ e = n \/ (e = n + 1 /\ t[n] = CR)
  BY SpliceIs
<1>3. e \in 1 .. Len(t) /\ Phase!SpliceEnd(t, p) = e
  BY <1>2
<1>4. NL # "?" /\ NL # CR /\ CR # "?" /\ NL # "\\" /\ CR # "\\" /\ NL \notin DOMAIN Phase!Stands
  BY StandsFor DEF NL, CR
<1> HIDE DEF n, e
<1>5. ~Phase!TrigraphAt(t, e)
  BY <1>2, <1>4 DEF Phase!TrigraphAt
<1>6. ~Phase!TrigraphAt(t, e - 1)
  <2>1. ASSUME Phase!TrigraphAt(t, e - 1) PROVE t[(e - 1) + 1] = "?"
    BY <2>1 DEF Phase!TrigraphAt
  <2>2. (e - 1) + 1 = e
    BY <1>3
  <2> QED BY <1>2, <1>4, <2>1, <2>2
<1>7. ~Phase!TrigraphAt(t, e - 2)
  <2>1. ASSUME Phase!TrigraphAt(t, e - 2) PROVE t[(e - 2) + 2] \in DOMAIN Phase!Stands
    BY <2>1 DEF Phase!TrigraphAt
  <2>2. (e - 2) + 2 = e
    BY <1>3
  <2> QED BY <1>2, <1>4, <2>1, <2>2
<1>8. ~Phase!Inside(t, e + 1)
  <2>1. (e + 1) - 1 = e /\ (e + 1) - 2 = e - 1 /\ e + 1 \in Nat \ {0}
    BY <1>3
  <2> QED BY <1>5, <1>6, <2>1, InsideIs
<1>9. ASSUME NEW j \in 1 .. e PROVE Phase!SpliceEnd(t, j) < e + 1
  <2>1. j \in 1 .. Len(t)
    BY <1>3
  <2>2. CASE j < p
    <3>1. Phase!SpliceEnd(t, j) < p
      BY <2>2
    <3>2. Phase!SpliceEnd(t, j) \in Nat
      BY <2>1, SpliceIs
    <3> QED BY <1>2, <3>1, <3>2
  <2>3. CASE j = p
    BY <1>3, <2>3
  <2>4. CASE j > p /\ j < n
    <3>1. Phase!TrigraphAt(t, p) /\ (j = p + 1 \/ j = p + 2)
      BY <1>1, <2>4
    <3>2. (j = p + 1 => j - 1 = p) /\ (j = p + 2 => j - 2 = p) /\ j \in Nat \ {0}
          /\ j > 1 /\ (j = p + 2 => j > 2)
      BY <2>4
    <3>3. Phase!Inside(t, j)
      BY <3>1, <3>2, InsideIs
    <3>4. Phase!SpliceEnd(t, j) = 0
      BY <3>3 DEF Phase!SpliceEnd
    <3> QED BY <1>3, <3>4
  <2>5. CASE j >= n
    <3>1. j \in Nat /\ e \in Nat /\ j <= e
      BY <1>3
    <3>4. j = e \/ (j = n /\ t[n] = CR)
      BY <1>1, <1>2, <2>5, <3>1
    <3>2. t[j] \in {NL, CR}
      BY <1>2, <3>4
    <3>3. Phase!ValueAt(t, j) # "\\"
      BY <1>4, <2>1, <3>2, ValueIs
    <3>5. Phase!SpliceEnd(t, j) = 0
      BY <3>3 DEF Phase!SpliceEnd
    <3> QED BY <1>3, <3>5
  <2> QED BY <1>1, <2>1, <2>2, <2>3, <2>4, <2>5
<1>10. ~Phase!Lost(t, e + 1)
  <2>1. ASSUME Phase!Lost(t, e + 1)
        PROVE  \/ t[(e + 1) - 1] = "?"
               \/ \E j \in 1 .. (e + 1) - 1 :
                    ~Phase!Inside(t, j) /\ Phase!ValueAt(t, j) = "\\" /\ Phase!After(t, j) = e + 1
    BY <2>1 DEF Phase!Lost
  <2>2. (e + 1) - 1 = e /\ t[e] # "?"
    BY <1>2, <1>3, <1>4
  <2>3. ASSUME NEW j \in 1 .. e, Phase!ValueAt(t, j) = "\\", Phase!After(t, j) = e + 1
        PROVE  FALSE
    <3>1. j \in 1 .. Len(t)
      BY <1>3
    <3>2. e + 1 = IF Phase!TrigraphAt(t, j) THEN j + 3 ELSE j + 1
      BY <2>3, <3>1, AfterIs
    <3>3. CASE Phase!TrigraphAt(t, j)
      <4>1. j = e - 2
        BY <1>3, <3>2, <3>3
      <4> QED BY <1>7, <3>3, <4>1
    <3>4. CASE ~Phase!TrigraphAt(t, j)
      <4>1. j = e
        BY <1>3, <3>2, <3>4
      <4> QED BY <1>2, <1>4, <2>3, <3>1, <4>1, ValueIs
    <3> QED BY <3>3, <3>4
  <2> QED BY <2>1, <2>2, <2>3
<1>11. /\ e \in p + 1 .. Len(t)
       /\ ~Phase!Inside(t, e + 1)
       /\ \A j \in 1 .. e : Phase!SpliceEnd(t, j) < e + 1
       /\ ~Phase!Lost(t, e + 1)
  BY <1>2, <1>8, <1>9, <1>10
<1> QED BY <1>11 DEF e

\* Where the next character that counts begins.
LEMMA NextIs ==
    ASSUME TypeOK, NEW f \in File, NEW p \in 1 .. Len(text[f]) + 1, Boundary(f, p)
    PROVE  LET t == text[f]
           IN  /\ p = Len(t) + 1 => Phase!NextAt(f, p) = Len(t) + 1
               /\ p <= Len(t) /\ Phase!SpliceEnd(t, p) = 0 => Phase!NextAt(f, p) = p
               /\ p <= Len(t) /\ Phase!SpliceEnd(t, p) # 0 =>
                    Phase!NextAt(f, p) = Phase!NextAt(f, Phase!SpliceEnd(t, p) + 1)
<1> DEFINE t == text[f]
           S(i) == {j \in i .. Len(t) : Phase!Counts(t, j) /\ ~Phase!Lost(t, j)}
           First(i) == IF S(i) = {} THEN Len(t) + 1
                       ELSE CHOOSE j \in S(i) : \A k \in S(i) : j <= k
<1>1. t \in Seq(Char) /\ Len(t) \in Nat
  BY DEF TypeOK
<1>2. \A i : Phase!NextAt(f, i) = First(i)
  BY DEF Phase!NextAt
<1>3. /\ ~Phase!Inside(t, p) /\ \A j \in 1 .. p - 1 : Phase!SpliceEnd(t, j) < p
      /\ p <= Len(t) => ~Phase!Lost(t, p)
  BY DEF Boundary
<1>4. ASSUME p = Len(t) + 1 PROVE First(p) = Len(t) + 1
  BY <1>1, <1>4
<1>5. ASSUME p <= Len(t), Phase!SpliceEnd(t, p) = 0 PROVE First(p) = p
  <2>1. \A j \in 1 .. p : Phase!SpliceEnd(t, j) < p
    BY <1>3, <1>5
  <2>2. Phase!Counts(t, p)
    BY <1>3, <2>1 DEF Phase!Counts
  <2>3. p \in S(p)
    BY <1>3, <1>5, <2>2
  <2>4. \A k \in S(p) : k \in Nat /\ p <= k
    OBVIOUS
  <2> HIDE DEF S
  <2>5. PICK j \in S(p) : (\A k \in S(p) : j <= k) /\ First(p) = j
    BY <2>3, <2>4
  <2> QED BY <2>3, <2>4, <2>5
<1>6. ASSUME p <= Len(t), Phase!SpliceEnd(t, p) # 0
      PROVE  S(p) = S(Phase!SpliceEnd(t, p) + 1)
  <2> DEFINE e == Phase!SpliceEnd(t, p)
  <2>1. e \in p + 1 .. Len(t) /\ p \in 1 .. Len(t)
    BY <1>1, <1>3, <1>6, SplicePassed
  <2>2. ASSUME NEW j \in p .. e PROVE ~Phase!Counts(t, j)
    <3>1. p \in 1 .. j /\ ~(Phase!SpliceEnd(t, p) < j)
      BY <2>1, <2>2
    <3> QED BY <3>1 DEF Phase!Counts
  <2>3. p \in Nat /\ e \in Nat /\ Len(t) \in Nat /\ p < e
    BY <1>1, <2>1
  <2> HIDE DEF e, t
  <2>4. ASSUME NEW j PROVE j \in S(p) <=> j \in S(e + 1)
    BY <2>2, <2>3
  <2> QED BY <2>4 DEF e, t
<1>7. ASSUME p <= Len(t), Phase!SpliceEnd(t, p) # 0
      PROVE  First(p) = First(Phase!SpliceEnd(t, p) + 1)
  <2> HIDE DEF S, t
  <2> QED BY <1>6, <1>7
<1> HIDE DEF First
<1> QED BY <1>2, <1>4, <1>5, <1>7

\* Nothing follows the last character, nor what is lost after it.
LEMMA NextNone ==
    ASSUME TypeOK, NEW f \in File, NEW p \in Nat,
           p > Len(text[f]) \/ Phase!Lost(text[f], p)
    PROVE  Phase!NextAt(f, p) = Len(text[f]) + 1
<1> DEFINE t == text[f]
           S == {j \in p .. Len(t) : Phase!Counts(t, j) /\ ~Phase!Lost(t, j)}
<1>1. t \in Seq(Char) /\ Len(t) \in Nat
  BY DEF TypeOK
<1>2. Phase!Lost(t, p) => p = Len(t)
  BY DEF Phase!Lost
<1>3. S = {}
  BY <1>1, <1>2
<1> QED BY <1>3 DEF Phase!NextAt

\* Reading may begin at the beginning of a file.
LEMMA BoundaryFirst ==
    ASSUME TypeOK, NEW f \in File
    PROVE  Boundary(f, 1)
<1>1. Len(text[f]) \in Nat /\ text[f] \in Seq(Char)
  BY DEF TypeOK
<1>2. ~Phase!Inside(text[f], 1)
  BY <1>1, InsideIs
<1>3. ~Phase!Lost(text[f], 1)
  BY DEF Phase!Lost
<1> QED BY <1>1, <1>2, <1>3 DEF Boundary

-----------------------------------------------------------------------------
(* A round of simple_getnext                                               *)

\* What get and putback do to a stream of the current file.
LEMMA GetReads ==
    ASSUME TypeOK, NEW i \in Stream
    PROVE  LET t == text[fi]
               g == Get(i)
           IN  IF i.bad \/ i.pos > Len(t) THEN g.bad /\ g.ch = EOF
               ELSE ~g.bad /\ g.pos = i.pos + 1 /\ g.ch = t[i.pos]
<1>1. CASE i.bad \/ i.pos > Len(text[fi])
  BY <1>1 DEF Get, Stream
<1>2. CASE ~(i.bad \/ i.pos > Len(text[fi]))
  BY <1>2 DEF Get, Stream
<1> QED BY <1>1, <1>2

\* A backslash before where i is begins a splice or stands for itself; the stream
\* fails only when nothing, or a return alone, is left.
LEMMA BackslashReads ==
    ASSUME TypeOK, NEW i \in Stream, Sound(i), ~i.bad
    PROVE  LET t == text[fi]
               n == i.pos
               r == Backslash(i)
           IN  IF n <= Len(t) /\ t[n] = NL
               THEN r.splice /\ ~r.in.bad /\ r.in.pos = n + 1
               ELSE IF n < Len(t) /\ t[n] = CR /\ t[n + 1] = NL
               THEN r.splice /\ ~r.in.bad /\ r.in.pos = n + 2
               ELSE /\ ~r.splice /\ r.val = "\\"
                    /\ IF n > Len(t) \/ (n = Len(t) /\ t[n] = CR) THEN r.in.bad
                       ELSE ~r.in.bad /\ r.in.pos = n
<1> DEFINE t == text[fi]
           n == i.pos
           a == Get(i)
           b == Get(a)
           p == Putback(a)
           q == Putback(Putback(b))
<1>1. t \in Seq(Char) /\ Len(t) \in Nat /\ n \in Nat /\ n >= 1
  <2>1. t \in Seq(Char)
    BY DEF TypeOK
  <2>2. n \in Int /\ n >= 1
    BY DEF Stream, Sound
  <2> HIDE DEF t, n
  <2> QED BY <2>1, <2>2
<1>2. Got(a) /\ Got(b)
  BY TwiceSound
<1>3. a \in Stream /\ b \in Stream
  BY <1>2 DEF Got
<1>4. IF n > Len(t) THEN a.bad /\ a.ch = EOF
      ELSE ~a.bad /\ a.pos = n + 1 /\ a.ch = t[n]
  BY GetReads
<1>5. IF a.bad \/ a.pos > Len(t) THEN b.bad /\ b.ch = EOF
      ELSE ~b.bad /\ b.pos = a.pos + 1 /\ b.ch = t[a.pos]
  BY <1>3, GetReads
<1>6. p.bad = a.bad /\ (~a.bad => p.pos = a.pos - 1)
  BY <1>2, PutbackSound DEF Got
<1>7. q.bad = b.bad /\ (~b.bad => q.pos = b.pos - 2)
  <2>1. /\ Putback(b) \in Stream /\ Putback(b).bad = b.bad
        /\ ~b.bad => Putback(b).pos = b.pos - 1
    BY <1>2, PutbackSound DEF Got
  <2>2. /\ Putback(Putback(b)).bad = Putback(b).bad
        /\ ~Putback(b).bad => Putback(Putback(b)).pos = Putback(b).pos - 1
    BY <2>1 DEF Putback, Stream
  <2> QED BY <1>3, <2>1, <2>2 DEF Stream
<1>8. Backslash(i) = IF a.ch = NL THEN Again(a)
                     ELSE IF a.ch = CR
                     THEN IF b.ch = NL THEN Again(b) ELSE Value("\\", q)
                     ELSE Value("\\", p)
  BY DEF Backslash
<1>9. EOF # NL /\ EOF # CR /\ NL # CR
  BY DEF EOF, NL, CR
<1> HIDE DEF t, n, a, b, p, q
<1>10. CASE n > Len(t)
  BY <1>1, <1>4, <1>6, <1>8, <1>9, <1>10 DEF Value, t, n
<1>11. CASE n <= Len(t) /\ t[n] = NL
  BY <1>1, <1>4, <1>8, <1>11 DEF Again, t, n
<1>12. CASE n <= Len(t) /\ t[n] \notin {NL, CR}
  BY <1>1, <1>4, <1>6, <1>8, <1>12 DEF Value, t, n
<1>13. CASE n = Len(t) /\ t[n] = CR
  BY <1>1, <1>4, <1>5, <1>7, <1>8, <1>9, <1>13 DEF Value, t, n
<1>14. CASE n < Len(t) /\ t[n] = CR /\ t[n + 1] = NL
  <2>1. Backslash(i) = Again(b) /\ ~b.bad /\ b.pos = n + 2
    BY <1>1, <1>4, <1>5, <1>8, <1>9, <1>14
  <2> QED BY <1>1, <1>9, <1>14, <2>1 DEF Again, t, n
<1>15. CASE n < Len(t) /\ t[n] = CR /\ t[n + 1] # NL
  <2>1. Backslash(i) = Value("\\", q) /\ ~q.bad /\ q.pos = n
    BY <1>1, <1>4, <1>5, <1>7, <1>8, <1>9, <1>15
  <2> QED BY <1>1, <1>9, <1>15, <2>1 DEF Value, t, n
<1> QED BY <1>1, <1>10, <1>11, <1>12, <1>13, <1>14, <1>15

\* What follows a question mark at p makes a trigraph of it or not; p + 1 is
\* where i is.
LEMMA QuestionReads ==
    ASSUME TypeOK, trigraphs, NEW i \in Stream, Sound(i), ~i.bad, NEW p \in Nat \ {0},
           i.pos = p + 1, p <= Len(text[fi]), text[fi][p] = "?"
    PROVE  LET t == text[fi]
               r == Question(i)
           IN  /\ Phase!TrigraphAt(t, p) /\ t[p + 2] = "/" =>
                    \E b \in Stream : /\ Sound(b) /\ ~b.bad /\ b.pos = p + 3
                                      /\ r = Backslash(b)
               /\ Phase!TrigraphAt(t, p) /\ t[p + 2] # "/" =>
                    /\ ~r.splice /\ r.val = Phase!Stands[t[p + 2]]
                    /\ ~r.in.bad /\ r.in.pos = p + 3
               /\ ~Phase!TrigraphAt(t, p) =>
                    /\ ~r.splice /\ r.val = "?"
                    /\ IF p = Len(t) \/ (p + 1 = Len(t) /\ t[p + 1] = "?") THEN r.in.bad
                       ELSE ~r.in.bad /\ r.in.pos = p + 1
<1> DEFINE t == text[fi]
           a == Get(i)
           b == Get(a)
           x == Putback(a)
           q == Putback(Putback(b))
           r == Question(i)
<1>1. t \in Seq(Char) /\ Len(t) \in Nat
  BY DEF TypeOK
<1>2. Got(a) /\ Got(b)
  BY TwiceSound
<1>3. a \in Stream /\ b \in Stream /\ Sound(b)
  BY <1>2 DEF Got
<1>4. IF p = Len(t) THEN a.bad /\ a.ch = EOF
      ELSE ~a.bad /\ a.pos = p + 2 /\ a.ch = t[p + 1]
  <2>1. IF i.bad \/ i.pos > Len(t) THEN a.bad /\ a.ch = EOF
        ELSE ~a.bad /\ a.pos = i.pos + 1 /\ a.ch = t[i.pos]
    BY GetReads
  <2> HIDE DEF a, t
  <2> QED BY <1>1, <2>1 DEF t
<1>5. IF a.bad \/ a.pos > Len(t) THEN b.bad /\ b.ch = EOF
      ELSE ~b.bad /\ b.pos = a.pos + 1 /\ b.ch = t[a.pos]
  BY <1>3, GetReads
<1>6. x.bad = a.bad /\ (~a.bad => x.pos = a.pos - 1)
  BY <1>2, PutbackSound DEF Got
<1>7. q.bad = b.bad /\ (~b.bad => q.pos = b.pos - 2)
  <2>1. /\ Putback(b) \in Stream /\ Putback(b).bad = b.bad
        /\ ~b.bad => Putback(b).pos = b.pos - 1
    BY <1>2, PutbackSound DEF Got
  <2>2. /\ Putback(Putback(b)).bad = Putback(b).bad
        /\ ~Putback(b).bad => Putback(Putback(b)).pos = Putback(b).pos - 1
    BY <2>1 DEF Putback, Stream
  <2> QED BY <1>3, <2>1, <2>2 DEF Stream
<1>8. r = IF a.ch # "?" THEN Value("?", x)
          ELSE IF b.ch = "/" THEN Backslash(b)
          ELSE IF b.ch \in DOMAIN Trigraph THEN Value(Trigraph[b.ch], b)
          ELSE Value("?", q)
  BY DEF Question
<1>9. EOF # "?" /\ EOF # "/" /\ EOF \notin DOMAIN Trigraph
  BY StandsFor DEF EOF
<1>10. Phase!TrigraphAt(t, p) <=> /\ p + 2 <= Len(t) /\ t[p + 1] = "?"
                                  /\ t[p + 2] \in {"/"} \cup DOMAIN Trigraph
  BY StandsFor DEF Phase!TrigraphAt
<1>11. p + 2 <= Len(t) /\ t[p + 1] = "?" => ~a.bad /\ a.pos = p + 2 /\ a.ch = "?"
                                            /\ ~b.bad /\ b.pos = p + 3 /\ b.ch = t[p + 2]
  <2> HIDE DEF t, a, b
  <2> QED BY <1>1, <1>4, <1>5
<1> HIDE DEF t, a, b, x, q, r
<1>12. ASSUME Phase!TrigraphAt(t, p), t[p + 2] = "/" PROVE r = Backslash(b)
  BY <1>8, <1>10, <1>11, <1>12
<1>13. ASSUME Phase!TrigraphAt(t, p), t[p + 2] # "/"
       PROVE  /\ ~r.splice /\ r.val = Phase!Stands[t[p + 2]]
              /\ ~r.in.bad /\ r.in.pos = p + 3
  <2>1. t[p + 2] \in DOMAIN Trigraph
    BY <1>10, <1>13
  <2>2. r = Value(Trigraph[t[p + 2]], b)
    BY <1>8, <1>10, <1>11, <1>13, <2>1
  <2> QED BY <1>10, <1>11, <1>13, <2>1, <2>2, StandsFor DEF Value
<1>14. ASSUME ~Phase!TrigraphAt(t, p)
       PROVE  /\ ~r.splice /\ r.val = "?"
              /\ IF p = Len(t) \/ (p + 1 = Len(t) /\ t[p + 1] = "?") THEN r.in.bad
                 ELSE ~r.in.bad /\ r.in.pos = p + 1
  <2>1. CASE p = Len(t)
    <3>1. r = Value("?", x) /\ x.bad
      BY <1>4, <1>6, <1>8, <1>9, <2>1
    <3> QED BY <2>1, <3>1 DEF Value
  <2>2. CASE p < Len(t) /\ t[p + 1] # "?"
    <3>1. r = Value("?", x) /\ ~x.bad /\ x.pos = p + 1
      BY <1>1, <1>4, <1>6, <1>8, <2>2
    <3> QED BY <1>1, <2>2, <3>1 DEF Value
  <2>3. CASE p + 1 = Len(t) /\ t[p + 1] = "?"
    <3>1. b.bad /\ b.ch = EOF /\ a.ch = "?"
      BY <1>1, <1>4, <1>5, <2>3
    <3>2. r = Value("?", q) /\ q.bad
      BY <1>7, <1>8, <1>9, <3>1
    <3> QED BY <2>3, <3>2 DEF Value
  <2>4. CASE p + 2 <= Len(t) /\ t[p + 1] = "?"
    <3>1. b.ch \notin {"/"} \cup DOMAIN Trigraph /\ a.ch = "?"
      BY <1>10, <1>11, <1>14, <2>4
    <3>2. r = Value("?", q) /\ ~q.bad /\ q.pos = p + 1
      BY <1>7, <1>8, <1>11, <2>4, <3>1
    <3> QED BY <1>1, <2>4, <3>2 DEF Value
  <2>5. p <= Len(t)
    BY DEF t
  <2> QED BY <1>1, <2>1, <2>2, <2>3, <2>4, <2>5
<1>15. Phase!TrigraphAt(t, p) => ~b.bad /\ b.pos = p + 3
  BY <1>10, <1>11
<1> QED BY <1>3, <1>12, <1>13, <1>14, <1>15 DEF t, r

\* A round of simple_getnext passes over the splice that begins where it does,
\* or finds the next character and leaves the stream after it, unless the
\* stream failed, and then nothing that counts is left.
LEMMA SimpleReads ==
    ASSUME TypeOK, Sound(in), ~in.bad, NEW p \in 1 .. Len(text[fi]), in.pos = p,
           ~Phase!Inside(text[fi], p)
    PROVE  LET t == text[fi]
               n == Phase!After(t, p)
               e == Phase!SpliceEnd(t, p)
           IN  /\ e # 0 => Simple.splice /\ ~Simple.in.bad /\ Simple.in.pos = e + 1
               /\ e = 0 =>
                    /\ ~Simple.splice /\ Simple.val = Phase!ValueAt(t, p) /\ Simple.val # EOF
                    /\ IF n > Len(t) \/ Phase!Lost(t, n)
                       THEN ~Simple.in.bad => Simple.in.pos = Len(t) + 1
                       ELSE ~Simple.in.bad /\ Simple.in.pos = n
<1> DEFINE t == text[fi]
           n == Phase!After(t, p)
           e == Phase!SpliceEnd(t, p)
           i == Get(Tellg(in))
<1>1. t \in Seq(Char) /\ Len(t) \in Nat /\ t[p] \in Char
  <2>1. t \in Seq(Char)
    BY DEF TypeOK
  <2> HIDE DEF t
  <2> QED BY <2>1, ElementOfSeq DEF t
<1>2. in \in Stream
  BY DEF TypeOK
<1>3. /\ Tellg(in) \in Stream /\ Sound(Tellg(in))
      /\ ~Tellg(in).bad /\ Tellg(in).pos = p
  BY <1>2, TellgSound
<1>4. i \in Stream /\ Sound(i)
  BY <1>3, GetSound DEF Got
<1>5. ~i.bad /\ i.pos = p + 1 /\ i.ch = t[p]
  BY <1>3, GetReads
<1>6. Simple = IF i.ch = "\\" THEN Backslash(i)
               ELSE IF i.ch = "?" /\ trigraphs THEN Question(i)
               ELSE Value(i.ch, i)
  BY DEF Simple
<1>7. /\ n \in Nat /\ n > p /\ n <= Len(t) + 1
      /\ n = IF Phase!TrigraphAt(t, p) THEN p + 3 ELSE p + 1
  BY <1>1, AfterIs
<1>8. Phase!Lost(t, n) <=>
        /\ n = Len(t)
        /\ \/ trigraphs /\ t[p] = "?" /\ ~Phase!TrigraphAt(t, p) /\ t[n] = "?"
           \/ t[n] = CR /\ Phase!ValueAt(t, p) = "\\"
  BY <1>1, LostIs
<1>9. e = IF Phase!ValueAt(t, p) # "\\" \/ n > Len(t) THEN 0
          ELSE IF t[n] = NL THEN n
          ELSE IF t[n] = CR /\ n < Len(t) /\ t[n + 1] = NL THEN n + 1
          ELSE 0
  BY DEF Phase!SpliceEnd
<1>10. /\ Phase!ValueAt(t, p) = "\\" <=> t[p] = "\\" \/ (Phase!TrigraphAt(t, p) /\ t[p + 2] = "/")
       /\ t[p] # "?" => ~Phase!TrigraphAt(t, p) /\ Phase!ValueAt(t, p) = t[p]
       /\ Phase!TrigraphAt(t, p) => Phase!ValueAt(t, p) = Phase!Stands[t[p + 2]]
  BY <1>1, ValueIs
<1>11. /\ ~Phase!TrigraphAt(t, p) => Phase!ValueAt(t, p) = t[p]
       /\ Phase!TrigraphAt(t, p) => trigraphs /\ t[p] = "?" /\ t[p + 2] \in DOMAIN Phase!Stands
  BY DEF Phase!ValueAt, Phase!TrigraphAt
<1>12. "\\" # EOF /\ "?" # EOF /\ t[p] # EOF /\ (\A x \in DOMAIN Phase!Stands : Phase!Stands[x] # EOF)
       /\ CR # "?"
  BY <1>1, CharsOfCode, StandsFor DEF EOF, CR
<1>13. ASSUME NEW b \in Stream, Sound(b), ~b.bad, b.pos = n, Simple = Backslash(b),
              Phase!ValueAt(t, p) = "\\", trigraphs /\ t[p] = "?" => Phase!TrigraphAt(t, p)
       PROVE  /\ e # 0 => Simple.splice /\ ~Simple.in.bad /\ Simple.in.pos = e + 1
              /\ e = 0 =>
                    /\ ~Simple.splice /\ Simple.val = Phase!ValueAt(t, p) /\ Simple.val # EOF
                    /\ IF n > Len(t) \/ Phase!Lost(t, n)
                       THEN ~Simple.in.bad => Simple.in.pos = Len(t) + 1
                       ELSE ~Simple.in.bad /\ Simple.in.pos = n
  <2> DEFINE r == Backslash(b)
  <2>1. IF n <= Len(t) /\ t[n] = NL
        THEN r.splice /\ ~r.in.bad /\ r.in.pos = n + 1
        ELSE IF n < Len(t) /\ t[n] = CR /\ t[n + 1] = NL
        THEN r.splice /\ ~r.in.bad /\ r.in.pos = n + 2
        ELSE /\ ~r.splice /\ r.val = "\\"
             /\ IF n > Len(t) \/ (n = Len(t) /\ t[n] = CR) THEN r.in.bad
                ELSE ~r.in.bad /\ r.in.pos = n
    BY <1>13, BackslashReads
  <2> HIDE DEF r, t, n, e
  <2>2. Phase!Lost(t, n) <=> n = Len(t) /\ t[n] = CR
    BY <1>8, <1>12, <1>13
  <2>3. Simple = r
    BY <1>13 DEF r
  <2> QED BY <1>1, <1>7, <1>9, <1>12, <1>13, <2>1, <2>2, <2>3
<1> HIDE DEF n, e, i
<1>14. CASE t[p] = "\\"
  <2>1. Simple = Backslash(i) /\ i.pos = n
    BY <1>5, <1>6, <1>7, <1>10, <1>14
  <2> QED BY <1>4, <1>5, <1>10, <1>13, <1>14, <2>1 DEF n, e
<1>15. CASE t[p] = "?" /\ trigraphs
  <2> DEFINE r == Question(i)
  <2>1. Simple = r
    BY <1>5, <1>6, <1>15
  <2>2. /\ Phase!TrigraphAt(t, p) /\ t[p + 2] = "/" =>
             \E b \in Stream : /\ Sound(b) /\ ~b.bad /\ b.pos = p + 3
                               /\ r = Backslash(b)
        /\ Phase!TrigraphAt(t, p) /\ t[p + 2] # "/" =>
             /\ ~r.splice /\ r.val = Phase!Stands[t[p + 2]]
             /\ ~r.in.bad /\ r.in.pos = p + 3
        /\ ~Phase!TrigraphAt(t, p) =>
             /\ ~r.splice /\ r.val = "?"
             /\ IF p = Len(t) \/ (p + 1 = Len(t) /\ t[p + 1] = "?") THEN r.in.bad
                ELSE ~r.in.bad /\ r.in.pos = p + 1
    BY <1>4, <1>5, <1>15, QuestionReads
  <2> HIDE DEF r
  <2>3. CASE Phase!TrigraphAt(t, p) /\ t[p + 2] = "/"
    <3>1. PICK b \in Stream : Sound(b) /\ ~b.bad /\ b.pos = p + 3 /\ r = Backslash(b)
      BY <2>2, <2>3
    <3>2. b.pos = n
      BY <1>7, <2>3, <3>1
    <3> QED BY <1>10, <1>13, <2>1, <2>3, <3>1, <3>2 DEF n, e
  <2>4. CASE Phase!TrigraphAt(t, p) /\ t[p + 2] # "/"
    <3>1. n = p + 3 /\ Phase!ValueAt(t, p) = Phase!Stands[t[p + 2]]
          /\ Phase!ValueAt(t, p) # "\\" /\ Phase!ValueAt(t, p) # EOF
      BY <1>7, <1>10, <1>11, <1>12, <1>15, <2>4
    <3>2. e = 0 /\ ~Phase!Lost(t, n)
      BY <1>8, <1>9, <2>4, <3>1
    <3>3. ~r.splice /\ r.val = Phase!ValueAt(t, p) /\ ~r.in.bad /\ r.in.pos = n
      BY <2>2, <2>4, <3>1
    <3> HIDE DEF t
    <3> QED BY <1>1, <1>7, <2>1, <3>1, <3>2, <3>3 DEF n, e, t
  <2>5. CASE ~Phase!TrigraphAt(t, p)
    <3>1. n = p + 1 /\ Phase!ValueAt(t, p) = "?"
      BY <1>7, <1>11, <1>15, <2>5
    <3>2. e = 0 /\ (Phase!Lost(t, n) <=> n = Len(t) /\ t[n] = "?")
      BY <1>8, <1>9, <1>15, <2>5, <3>1
    <3>3. /\ ~r.splice /\ r.val = "?"
          /\ IF p = Len(t) \/ (p + 1 = Len(t) /\ t[p + 1] = "?") THEN r.in.bad
             ELSE ~r.in.bad /\ r.in.pos = p + 1
      BY <2>2, <2>5
    <3>4. IF n > Len(t) \/ Phase!Lost(t, n) THEN r.in.bad ELSE ~r.in.bad /\ r.in.pos = n
      <4> HIDE DEF t
      <4> QED BY <1>1, <1>7, <3>1, <3>2, <3>3 DEF t
    <3> QED BY <1>12, <2>1, <3>1, <3>2, <3>3, <3>4 DEF n, e
  <2> QED BY <2>3, <2>4, <2>5
<1>16. CASE t[p] # "\\" /\ ~(t[p] = "?" /\ trigraphs)
  <2>1. ~Phase!TrigraphAt(t, p) /\ Phase!ValueAt(t, p) = t[p] /\ n = p + 1
    BY <1>7, <1>11, <1>16
  <2>2. e = 0 /\ ~Phase!Lost(t, n)
    BY <1>8, <1>9, <1>16, <2>1
  <2>3. Simple = Value(t[p], i)
    BY <1>5, <1>6, <1>16
  <2>4. ~Simple.splice /\ Simple.val = t[p] /\ ~Simple.in.bad /\ Simple.in.pos = n
    BY <1>5, <2>1, <2>3 DEF Value
  <2>5. n > Len(t) => n = Len(t) + 1
    BY <1>1, <1>7
  <2> QED BY <1>12, <2>1, <2>2, <2>4, <2>5 DEF n, e
<1> QED BY <1>14, <1>15, <1>16

-----------------------------------------------------------------------------
(* The files that are open                                                 *)

\* What counts in a text depends on the text alone: the abstract input sees in a
\* file what Phase does.
LEMMA OrderSees ==
    /\ \A t, i : Order!ValueAt(t, i) = Phase!ValueAt(t, i) /\ Order!After(t, i) = Phase!After(t, i)
    /\ \A f, i : Order!NextAt(f, i) = Phase!NextAt(f, i)
<1>1. \A t, i : Order!TrigraphAt(t, i) = Phase!TrigraphAt(t, i)
  BY DEF Order!TrigraphAt, Phase!TrigraphAt, Order!Stands, Phase!Stands
<1>2. Order!Stands = Phase!Stands
  BY DEF Order!Stands, Phase!Stands
<1>3. \A t, i : /\ Order!ValueAt(t, i) = Phase!ValueAt(t, i)
                /\ Order!After(t, i) = Phase!After(t, i)
                /\ Order!Inside(t, i) = Phase!Inside(t, i)
  BY <1>1, <1>2 DEF Order!ValueAt, Phase!ValueAt, Order!After, Phase!After, Order!Inside, Phase!Inside
<1>4. \A t, i : Order!SpliceEnd(t, i) = Phase!SpliceEnd(t, i)
  BY <1>3 DEF Order!SpliceEnd, Phase!SpliceEnd
<1>5. \A t, i : Order!Counts(t, i) = Phase!Counts(t, i)
  BY <1>3, <1>4 DEF Order!Counts, Phase!Counts
<1>6. \A t, i : Order!Lost(t, i) = Phase!Lost(t, i)
  BY <1>3 DEF Order!Lost, Phase!Lost
<1>7. ASSUME NEW f, NEW i PROVE Order!NextAt(f, i) = Phase!NextAt(f, i)
  <2> DEFINE S == {j \in i .. Len(text[f]) : Order!Counts(text[f], j) /\ ~Order!Lost(text[f], j)}
             T == {j \in i .. Len(text[f]) : Phase!Counts(text[f], j) /\ ~Phase!Lost(text[f], j)}
  <2>1. S = T
    BY <1>5, <1>6
  <2>2. Order!NextAt(f, i) = IF S = {} THEN Len(text[f]) + 1
                             ELSE CHOOSE j \in S : \A k \in S : j <= k
    BY DEF Order!NextAt
  <2>3. Phase!NextAt(f, i) = IF T = {} THEN Len(text[f]) + 1
                             ELSE CHOOSE j \in T : \A k \in T : j <= k
    BY DEF Phase!NextAt
  <2> HIDE DEF S, T
  <2> QED BY <2>1, <2>2, <2>3
<1> QED BY <1>3, <1>7

\* As no step changes the texts, places that were reached stay so.
LEMMA TextStaysSeen ==
    ASSUME UNCHANGED source, NEW f, NEW p
    PROVE  Reached(f, p)' = Reached(f, p) /\ Boundary(f, p)' = Boundary(f, p)
<1> USE DEF source
<1>1. \A t, i : Phase!TrigraphAt(t, i)' = Phase!TrigraphAt(t, i)
  BY DEF Phase!TrigraphAt, Phase!Stands
<1>2. \A t, i : /\ Phase!ValueAt(t, i)' = Phase!ValueAt(t, i)
                /\ Phase!After(t, i)' = Phase!After(t, i)
                /\ Phase!Inside(t, i)' = Phase!Inside(t, i)
  <2>1. Phase!Stands' = Phase!Stands
    BY DEF Phase!Stands
  <2>2. ASSUME NEW t, NEW i
        PROVE Phase!ValueAt(t, i)' = Phase!ValueAt(t, i) /\ Phase!After(t, i)' = Phase!After(t, i)
    BY <1>1, <2>1 DEF Phase!ValueAt, Phase!After
  <2>3. ASSUME NEW t, NEW i
        PROVE Phase!Inside(t, i)' = Phase!Inside(t, i)
    BY <1>1 DEF Phase!Inside
  <2> QED BY <2>2, <2>3
<1>3. \A t, i : Phase!SpliceEnd(t, i)' = Phase!SpliceEnd(t, i)
  BY <1>2 DEF Phase!SpliceEnd
<1>4. \A t, i : Phase!Counts(t, i)' = Phase!Counts(t, i)
  BY <1>2, <1>3 DEF Phase!Counts
<1>5. \A t, i : Phase!Lost(t, i)' = Phase!Lost(t, i)
  BY <1>2 DEF Phase!Lost
<1>6. Phase!NextAt(f, p)' = Phase!NextAt(f, p)
  <2> DEFINE S == {j \in p .. Len(text[f]) : Phase!Counts(text[f], j) /\ ~Phase!Lost(text[f], j)}
             T == {j \in p .. Len(text[f]) : Phase!Counts(text[f], j)' /\ ~Phase!Lost(text[f], j)'}
  <2>1. S = T
    BY <1>4, <1>5
  <2>2. Phase!NextAt(f, p) = IF S = {} THEN Len(text[f]) + 1
                             ELSE CHOOSE j \in S : \A k \in S : j <= k
    BY DEF Phase!NextAt
  <2>3. Phase!NextAt(f, p)' = IF T = {} THEN Len(text[f]) + 1
                              ELSE CHOOSE j \in T : \A k \in T : j <= k
    BY DEF Phase!NextAt
  <2> HIDE DEF S, T
  <2> QED BY <2>1, <2>2, <2>3
<1>7. Reached(f, p)' = Reached(f, p)
  BY <1>6 DEF Reached
<1>8. Boundary(f, p)' = Boundary(f, p)
  BY <1>2, <1>3, <1>5 DEF Boundary
<1> QED BY <1>7, <1>8

\* The open files when s is the stack and f is read at p.
Files(s, f, p) == Append([i \in DOMAIN s |-> Reached(s[i].fi, s[i].pos)], Reached(f, p))

\* What OpenFiles is now and after a step.
LEMMA FilesNow == OpenFiles = Files(cs, fi, Offset(in))
BY DEF OpenFiles, Files

LEMMA FilesNext ==
    ASSUME UNCHANGED source
    PROVE  OpenFiles' = Files(cs', fi', Offset(in'))
<1>1. \A f, p : Reached(f, p)' = Reached(f, p)
  BY TextStaysSeen
<1> QED BY <1>1 DEF OpenFiles, Files, Offset

\* An open file of the abstract input.
Entry == [fi : File, at : {Reached(f, p).at : f \in File, p \in Int}]

LEMMA ReachedTypes ==
    ASSUME NEW f \in File, NEW p \in Int
    PROVE  Reached(f, p) \in Entry /\ Reached(f, p).fi = f
BY DEF Reached, Entry

\* There is one of them for each place on the stack, and the current one.
LEMMA FilesAre ==
    ASSUME NEW s \in Seq(Saved), NEW f \in File, NEW p \in Int
    PROVE  LET o == Files(s, f, p)
           IN  /\ o \in Seq(Entry) /\ Len(o) = Len(s) + 1 /\ o[Len(s) + 1] = Reached(f, p)
               /\ \A k \in 1 .. Len(s) : o[k] = Reached(s[k].fi, s[k].pos)
<1> DEFINE m == [i \in DOMAIN s |-> Reached(s[i].fi, s[i].pos)]
<1>1. Len(s) \in Nat /\ DOMAIN s = 1 .. Len(s)
  OBVIOUS
<1>2. ASSUME NEW k \in 1 .. Len(s) PROVE Reached(s[k].fi, s[k].pos) \in Entry
  <2>1. s[k] \in Saved
    BY ElementOfSeq
  <2> QED BY <2>1, ReachedTypes DEF Saved
<1>3. m \in Seq(Entry) /\ Len(m) = Len(s) /\ \A k \in 1 .. Len(s) : m[k] = Reached(s[k].fi, s[k].pos)
  <2>1. m = [k \in 1 .. Len(s) |-> Reached(s[k].fi, s[k].pos)]
    BY <1>1
  <2>2. m \in [1 .. Len(s) -> Entry]
    BY <1>2, <2>1
  <2> QED BY <1>1, <2>1, <2>2
<1>4. Reached(f, p) \in Entry
  BY ReachedTypes
<1> HIDE DEF m
<1>5. /\ Append(m, Reached(f, p)) \in Seq(Entry) /\ Len(Append(m, Reached(f, p))) = Len(m) + 1
      /\ \A k \in 1 .. Len(m) : Append(m, Reached(f, p))[k] = m[k]
      /\ Append(m, Reached(f, p))[Len(m) + 1] = Reached(f, p)
  BY <1>3, <1>4, AppendProperties
<1>6. Files(s, f, p) = Append(m, Reached(f, p))
  BY DEF Files, m
<1> QED BY <1>3, <1>5, <1>6

\* A file that is included is above the one that includes it.
LEMMA FilesPushed ==
    ASSUME NEW s \in Seq(Saved), NEW x \in Saved, NEW f \in File, NEW p \in Int
    PROVE  Files(Append(s, x), f, p) = Append(Files(s, x.fi, x.pos), Reached(f, p))
<1> DEFINE a == Files(Append(s, x), f, p)
           o == Files(s, x.fi, x.pos)
           b == Append(o, Reached(f, p))
<1>1. x.fi \in File /\ x.pos \in Int
  BY DEF Saved
<1>2. Append(s, x) \in Seq(Saved) /\ Len(Append(s, x)) = Len(s) + 1
      /\ (\A k \in 1 .. Len(s) : Append(s, x)[k] = s[k]) /\ Append(s, x)[Len(s) + 1] = x
  BY AppendProperties
<1>3. /\ a \in Seq(Entry) /\ Len(a) = Len(s) + 2 /\ a[Len(s) + 2] = Reached(f, p)
      /\ \A k \in 1 .. Len(s) + 1 : a[k] = Reached(Append(s, x)[k].fi, Append(s, x)[k].pos)
  <2>1. /\ a \in Seq(Entry) /\ Len(a) = Len(Append(s, x)) + 1
        /\ a[Len(Append(s, x)) + 1] = Reached(f, p)
        /\ \A k \in 1 .. Len(Append(s, x)) : a[k] = Reached(Append(s, x)[k].fi, Append(s, x)[k].pos)
    BY <1>2, FilesAre
  <2> HIDE DEF a
  <2>2. Len(Append(s, x)) + 1 = Len(s) + 2
    BY <1>2
  <2> QED BY <1>2, <2>1, <2>2
<1>4. /\ o \in Seq(Entry) /\ Len(o) = Len(s) + 1 /\ o[Len(s) + 1] = Reached(x.fi, x.pos)
      /\ \A k \in 1 .. Len(s) : o[k] = Reached(s[k].fi, s[k].pos)
  BY <1>1, FilesAre
<1>5. Reached(f, p) \in Entry
  BY ReachedTypes
<1> HIDE DEF a, o
<1>6. /\ b \in Seq(Entry) /\ Len(b) = Len(s) + 2
      /\ (\A k \in 1 .. Len(s) + 1 : b[k] = o[k]) /\ b[Len(s) + 2] = Reached(f, p)
  <2>1. /\ b \in Seq(Entry) /\ Len(b) = Len(o) + 1
        /\ (\A k \in 1 .. Len(o) : b[k] = o[k]) /\ b[Len(o) + 1] = Reached(f, p)
    BY <1>4, <1>5, AppendProperties
  <2> HIDE DEF b
  <2>2. Len(o) + 1 = Len(s) + 2
    BY <1>4
  <2> QED BY <1>4, <2>1, <2>2
<1> HIDE DEF b
<1>7. ASSUME NEW k \in 1 .. Len(a) PROVE a[k] = b[k]
  <2>1. k \in 1 .. Len(s) \/ k = Len(s) + 1 \/ k = Len(s) + 2
    BY <1>3
  <2>2. CASE k \in 1 .. Len(s)
    <3>1. k \in 1 .. Len(s) + 1
      BY <2>2
    <3> QED BY <1>2, <1>3, <1>4, <1>6, <2>2, <3>1
  <2>3. CASE k = Len(s) + 1
    <3>1. k \in 1 .. Len(s) + 1
      BY <2>3
    <3> QED BY <1>2, <1>3, <1>4, <1>6, <2>3, <3>1
  <2> QED BY <1>3, <1>6, <2>1, <2>2, <2>3
<1>8. a = b
  BY <1>3, <1>6, <1>7, SeqEqual
<1> QED BY <1>8 DEF a, b, o

\* The one below is read again when it is left.
LEMMA FilesPopped ==
    ASSUME NEW s \in Seq(Saved), s # <<>>, NEW f \in File, NEW p \in Int
    PROVE  SubSeq(Files(s, f, p), 1, Len(s))
             = Files(SubSeq(s, 1, Len(s) - 1), s[Len(s)].fi, s[Len(s)].pos)
<1> DEFINE t == SubSeq(s, 1, Len(s) - 1)
           o == Files(s, f, p)
           a == SubSeq(o, 1, Len(s))
           b == Files(t, s[Len(s)].fi, s[Len(s)].pos)
<1>1. /\ t \in Seq(Saved) /\ Len(t) = Len(s) - 1 /\ \A k \in 1 .. Len(s) - 1 : t[k] = s[k]
      /\ Len(s) \in 1 .. Len(s) /\ s[Len(s)] \in Saved
  BY AllButLast
<1>2. s[Len(s)].fi \in File /\ s[Len(s)].pos \in Int
  BY <1>1 DEF Saved
<1>3. /\ o \in Seq(Entry) /\ Len(o) = Len(s) + 1
      /\ \A k \in 1 .. Len(s) : o[k] = Reached(s[k].fi, s[k].pos)
  BY FilesAre
<1> HIDE DEF t, o
<1>4. /\ b \in Seq(Entry) /\ Len(b) = Len(t) + 1 /\ b[Len(t) + 1] = Reached(s[Len(s)].fi, s[Len(s)].pos)
      /\ \A k \in 1 .. Len(t) : b[k] = Reached(t[k].fi, t[k].pos)
  BY <1>1, <1>2, FilesAre
<1> HIDE DEF b
<1>5. a \in Seq(Entry) /\ Len(a) = Len(s) /\ \A k \in 1 .. Len(s) : a[k] = o[k]
  <2>1. \A k \in 1 .. Len(s) : o[k] \in Entry
    BY <1>1, <1>3, ElementOfSeq
  <2>2. /\ a \in Seq(Entry) /\ Len(a) = IF 1 <= Len(s) THEN Len(s) - 1 + 1 ELSE 0
        /\ \A k \in 1 .. Len(s) - 1 + 1 : a[k] = o[1 + k - 1]
    BY <1>1, <2>1, SubSeqProperties
  <2> HIDE DEF a
  <2>3. Len(s) \in Nat /\ Len(s) - 1 + 1 = Len(s) /\ 1 <= Len(s) /\ \A k \in 1 .. Len(s) : 1 + k - 1 = k
    BY <1>1
  <2> QED BY <2>2, <2>3
<1> HIDE DEF a
<1>6. ASSUME NEW k \in 1 .. Len(a) PROVE a[k] = b[k]
  <2>1. k \in 1 .. Len(t) \/ k = Len(s)
    BY <1>1, <1>5
  <2>2. CASE k \in 1 .. Len(t)
    BY <1>1, <1>3, <1>4, <1>5, <2>2
  <2>3. CASE k = Len(s)
    BY <1>1, <1>3, <1>4, <1>5, <2>3
  <2> QED BY <2>1, <2>2, <2>3
<1>7. a = b
  BY <1>1, <1>4, <1>5, <1>6, SeqEqual
<1> QED BY <1>7 DEF a, b, o, t

\* The current one is read on.
LEMMA FilesRead ==
    ASSUME NEW s \in Seq(Saved), NEW f \in File, NEW p \in Int, NEW q \in Int
    PROVE  [Files(s, f, p) EXCEPT ![Len(Files(s, f, p))].at = Reached(f, q).at] = Files(s, f, q)
<1> DEFINE o == Files(s, f, p)
           a == [o EXCEPT ![Len(o)].at = Reached(f, q).at]
           b == Files(s, f, q)
<1>1. /\ o \in Seq(Entry) /\ Len(o) = Len(s) + 1 /\ o[Len(s) + 1] = Reached(f, p)
      /\ \A k \in 1 .. Len(s) : o[k] = Reached(s[k].fi, s[k].pos)
  BY FilesAre
<1>2. /\ b \in Seq(Entry) /\ Len(b) = Len(s) + 1 /\ b[Len(s) + 1] = Reached(f, q)
      /\ \A k \in 1 .. Len(s) : b[k] = Reached(s[k].fi, s[k].pos)
  BY FilesAre
<1>3. [Reached(f, p) EXCEPT !.at = Reached(f, q).at] = Reached(f, q)
  BY DEF Reached
<1> HIDE DEF o, b
<1>4. /\ DOMAIN o = 1 .. Len(s) + 1 /\ DOMAIN b = 1 .. Len(s) + 1 /\ Len(s) \in Nat
      /\ a = [o EXCEPT ![Len(s) + 1] = [o[Len(s) + 1] EXCEPT !.at = Reached(f, q).at]]
  BY <1>1, <1>2
<1>5. a = [o EXCEPT ![Len(s) + 1] = Reached(f, q)]
  BY <1>1, <1>3, <1>4
<1> HIDE DEF a
<1>6. a = [k \in 1 .. Len(s) + 1 |-> IF k = Len(s) + 1 THEN Reached(f, q) ELSE o[k]]
  BY <1>4, <1>5
<1>7. b = [k \in 1 .. Len(s) + 1 |-> b[k]]
  BY <1>2, <1>4
<1>8. \A k \in 1 .. Len(s) + 1 : (IF k = Len(s) + 1 THEN Reached(f, q) ELSE o[k]) = b[k]
  BY <1>1, <1>2, <1>4
<1>9. a = b
  BY <1>6, <1>7, <1>8
<1> QED BY <1>9 DEF a, b, o

-----------------------------------------------------------------------------
(* Steps                                                                   *)

\* Every open file is read from a place where a round may begin, and the static
\* oval tells whether what was read ends with a newline.
ReadingOn ==
    /\ Boundary(fi, Offset(in))
    /\ \A k \in DOMAIN cs : Boundary(cs[k].fi, cs[k].pos)
    /\ Order!AtLineStart <=> oval = NL

\* The end of a file is one too.
LEMMA BoundaryLast ==
    ASSUME TypeOK, NEW f \in File
    PROVE  Boundary(f, Len(text[f]) + 1)
<1> DEFINE t == text[f]
           n == Len(t) + 1
<1>1. t \in Seq(Char) /\ Len(t) \in Nat /\ n \in Nat \ {0} /\ n - 1 = Len(t) /\ n - 2 = Len(t) - 1
  <2>1. t \in Seq(Char)
    BY DEF TypeOK
  <2> HIDE DEF t
  <2> QED BY <2>1
<1> HIDE DEF t
<1>2. ~Phase!TrigraphAt(t, n - 1) /\ ~Phase!TrigraphAt(t, n - 2)
  BY <1>1 DEF Phase!TrigraphAt
<1> HIDE DEF n
<1>3. ~Phase!Inside(t, n)
  BY <1>1, <1>2, InsideIs
<1>4. ASSUME NEW j \in 1 .. n - 1 PROVE Phase!SpliceEnd(t, j) < n
  <2>1. j \in 1 .. Len(t)
    BY <1>1
  <2>2. Phase!SpliceEnd(t, j) \in 0 .. Len(t)
    BY <1>1, <2>1, SpliceIs
  <2> QED BY <1>1, <2>2
<1> QED BY <1>1, <1>3, <1>4 DEF Boundary, t, n

\* What a round of simple_getnext finds is what the abstract input has next.
LEMMA RoundIsRight ==
    ASSUME TypeOK, Sound(in), Boundary(fi, Offset(in))
    PROVE  LET t == text[fi]
               p == Offset(in)
               q == Offset(Simple.in)
               at == Reached(fi, p).at
           IN  /\ p \in Int /\ q \in Int /\ Boundary(fi, q)
               /\ Simple.splice => Reached(fi, q) = Reached(fi, p)
               /\ ~Simple.splice /\ Simple.val # EOF =>
                    /\ p \in 1 .. Len(t) /\ at = p /\ Simple.val = Phase!ValueAt(t, p)
                    /\ Reached(fi, q).at = Phase!NextAt(fi, Phase!After(t, p))
               /\ ~Simple.splice /\ Simple.val = EOF =>
                    /\ q = -1 /\ at = Len(t) + 1 /\ p \in {-1, Len(t) + 1}
                    /\ Reached(fi, q) = Reached(fi, p)
<1> DEFINE t == text[fi]
           p == Offset(in)
           q == Offset(Simple.in)
           n == Phase!After(t, p)
           e == Phase!SpliceEnd(t, p)
<1>1. fi \in File /\ in \in Stream /\ t \in Seq(Char)
  BY DEF TypeOK
<1>2. Len(t) \in Nat
  BY <1>1
<1>3. Found(Simple) /\ (in.bad => ~Simple.splice /\ Simple.val = EOF)
  BY SimpleFound
<1>4. Simple.in \in Stream
  BY <1>3 DEF Found
<1>5. p \in Int /\ q \in Int
  BY <1>1, <1>4 DEF Offset, Stream
<1>6. ~Simple.splice /\ Simple.val = EOF => q = -1
  BY <1>3 DEF Found, Offset
<1>7. q = -1 => Boundary(fi, q) /\ Reached(fi, q) = [fi |-> fi, at |-> Len(t) + 1]
  BY DEF Boundary, Reached
<1>8. CASE in.bad
  <2>1. p = -1 /\ ~Simple.splice /\ Simple.val = EOF
    BY <1>3, <1>8 DEF Offset
  <2>2. Reached(fi, p) = [fi |-> fi, at |-> Len(t) + 1]
    BY <2>1 DEF Reached
  <2> QED BY <1>5, <1>6, <1>7, <2>1, <2>2
<1>9. CASE ~in.bad
  <2>1. p = in.pos /\ p # -1
    BY <1>1, <1>9 DEF Offset, Sound, Stream
  <2>2. /\ p \in 1 .. Len(t) + 1 /\ ~Phase!Inside(t, p)
        /\ \A j \in 1 .. p - 1 : Phase!SpliceEnd(t, j) < p
        /\ p <= Len(t) => ~Phase!Lost(t, p)
    BY <2>1 DEF Boundary
  <2>3. Reached(fi, p) = [fi |-> fi, at |-> Phase!NextAt(fi, p)]
    BY <2>1 DEF Reached
  <2>4. /\ p = Len(t) + 1 => Phase!NextAt(fi, p) = Len(t) + 1
        /\ p <= Len(t) /\ e = 0 => Phase!NextAt(fi, p) = p
        /\ p <= Len(t) /\ e # 0 => Phase!NextAt(fi, p) = Phase!NextAt(fi, e + 1)
    BY <1>1, <2>2, NextIs
  <2>5. CASE p = Len(t) + 1
    <3>1. ~Simple.splice /\ Simple.val = EOF
      <4>1. /\ Tellg(in) \in Stream /\ Tellg(in).pos = Len(t) + 1
        BY <1>1, <2>1, <2>5, TellgSound
      <4>2. Get(Tellg(in)).ch = EOF
        BY <1>2, <4>1, GetReads
      <4>3. Simple = Value(EOF, Get(Tellg(in)))
        BY <4>2 DEF Simple, EOF
      <4> QED BY <4>3 DEF Value
    <3> HIDE DEF p, t
    <3> QED BY <1>5, <1>6, <1>7, <2>3, <2>4, <2>5, <3>1 DEF p, t
  <2>6. CASE p \in 1 .. Len(t)
    <3>1. /\ e # 0 => Simple.splice /\ ~Simple.in.bad /\ Simple.in.pos = e + 1
          /\ e = 0 =>
               /\ ~Simple.splice /\ Simple.val = Phase!ValueAt(t, p) /\ Simple.val # EOF
               /\ IF n > Len(t) \/ Phase!Lost(t, n)
                  THEN ~Simple.in.bad => Simple.in.pos = Len(t) + 1
                  ELSE ~Simple.in.bad /\ Simple.in.pos = n
      BY <1>9, <2>1, <2>2, <2>6, SimpleReads
    <3>2. CASE e # 0
      <4>1. /\ e \in p + 1 .. Len(t) /\ ~Phase!Inside(t, e + 1)
            /\ \A j \in 1 .. e : Phase!SpliceEnd(t, j) < e + 1
            /\ ~Phase!Lost(t, e + 1)
        BY <1>1, <2>2, <2>6, <3>2, SplicePassed
      <4>2. q = e + 1 /\ Simple.splice
        BY <3>1, <3>2 DEF Offset
      <4>3. q # -1 /\ q \in 1 .. Len(t) + 1 /\ q - 1 = e
        <5> HIDE DEF q, e, p, t
        <5> QED BY <1>2, <1>5, <2>6, <4>1, <4>2
      <4>4. Boundary(fi, q)
        BY <4>1, <4>2, <4>3 DEF Boundary
      <4>5. Reached(fi, q) = Reached(fi, p)
        BY <2>3, <2>4, <2>6, <3>2, <4>2, <4>3 DEF Reached
      <4> QED BY <1>5, <4>2, <4>4, <4>5
    <3>3. CASE e = 0
      <4>1. ~Simple.splice /\ Simple.val = Phase!ValueAt(t, p) /\ Simple.val # EOF
        BY <3>1, <3>3
      <4>2. Reached(fi, p).at = p
        BY <2>3, <2>4, <2>6, <3>3
      <4>3. n \in Nat /\ n > p /\ n <= Len(t) + 1
        BY <1>1, <2>6, AfterIs
      <4>4. CASE n > Len(t) \/ Phase!Lost(t, n)
        <5>1. Phase!NextAt(fi, n) = Len(t) + 1
          BY <1>1, <4>3, <4>4, NextNone
        <5>2. q = -1 \/ q = Len(t) + 1
          BY <3>1, <3>3, <4>4 DEF Offset
        <5>3. Boundary(fi, Len(t) + 1) /\ Phase!NextAt(fi, Len(t) + 1) = Len(t) + 1
          <6>1. Boundary(fi, Len(t) + 1)
            BY <1>1, BoundaryLast
          <6>2. Len(t) + 1 \in 1 .. Len(t) + 1
            BY <1>2
          <6> QED BY <1>1, <6>1, <6>2, NextIs
        <5>4. Boundary(fi, q) /\ Reached(fi, q).at = Len(t) + 1
          BY <1>7, <5>2, <5>3 DEF Reached
        <5> QED BY <1>5, <2>6, <4>1, <4>2, <5>1, <5>4
      <4>5. CASE ~(n > Len(t) \/ Phase!Lost(t, n))
        <5>1. q = n
          BY <3>1, <3>3, <4>5 DEF Offset
        <5>2. ~Phase!Inside(t, n) /\ \A j \in 1 .. n - 1 : Phase!SpliceEnd(t, j) < n
          BY <1>1, <2>2, <2>6, <3>3, AfterCounts
        <5>3. n \in 1 .. Len(t) + 1 /\ n # -1
          BY <2>6, <4>3
        <5>4. Boundary(fi, q) /\ Reached(fi, q).at = Phase!NextAt(fi, n)
          BY <4>5, <5>1, <5>2, <5>3 DEF Boundary, Reached
        <5> QED BY <1>5, <2>6, <4>1, <4>2, <5>4
      <4> QED BY <4>4, <4>5
    <3> QED BY <3>2, <3>3
  <2>7. p = Len(t) + 1 \/ p \in 1 .. Len(t)
    BY <1>2, <2>2
  <2> QED BY <2>5, <2>6, <2>7
<1> QED BY <1>8, <1>9

\* The end of a unit and the mark of a yacc file change nothing about whether
\* what was read ends with a newline; another character decides it.
LEMMA LineStartIs ==
    ASSUME fresh \in Seq(Fchar), NEW x \in Fchar, fresh' = Append(fresh, x)
    PROVE  Order!AtLineStart' <=>
             IF x.val \in {EOF, Cookie} THEN Order!AtLineStart ELSE x.val = NL
<1> DEFINE n == Len(fresh)
           s == fresh'
           Ends(i) == s[i].val = NL /\ \A j \in 1 .. n + 1 : j > i => s[j].val \in {EOF, Cookie}
           Ended(i) == fresh[i].val = NL /\ \A j \in 1 .. n : j > i => fresh[j].val \in {EOF, Cookie}
<1>1. n \in Nat /\ DOMAIN fresh = 1 .. n
  OBVIOUS
<1>2. /\ s \in Seq(Fchar) /\ Len(s) = n + 1 /\ s[n + 1] = x
      /\ \A i \in 1 .. n : s[i] = fresh[i]
  BY AppendProperties
<1>3. DOMAIN s = 1 .. n + 1
  BY <1>2
<1>4. Order!AtLineStart <=> \E i \in 1 .. n : Ended(i)
  BY <1>1 DEF Order!AtLineStart
<1>5. Order!AtLineStart' <=> \E i \in 1 .. n + 1 : Ends(i)
  BY <1>3 DEF Order!AtLineStart
<1>6. NL \notin {EOF, Cookie}
  BY DEF NL, EOF, Cookie
<1> HIDE DEF n, s
<1>7. ASSUME NEW i \in 1 .. n PROVE Ends(i) <=> Ended(i) /\ x.val \in {EOF, Cookie}
  <2>1. \A j \in 1 .. n + 1 : j \in 1 .. n \/ j = n + 1
    BY <1>1
  <2>2. n + 1 \in 1 .. n + 1 /\ n + 1 > i /\ 1 .. n \subseteq 1 .. n + 1
    BY <1>1
  <2> QED BY <1>2, <2>1, <2>2
<1>8. Ends(n + 1) <=> x.val = NL
  <2>1. \A j \in 1 .. n + 1 : ~(j > n + 1)
    BY <1>1
  <2> QED BY <1>2, <2>1
<1>9. \A i \in 1 .. n + 1 : i \in 1 .. n \/ i = n + 1
  BY <1>1
<1>10. n + 1 \in 1 .. n + 1 /\ 1 .. n \subseteq 1 .. n + 1
  BY <1>1
<1> HIDE DEF Ends, Ended
<1> QED BY <1>4, <1>5, <1>6, <1>7, <1>8, <1>9, <1>10

\* The current file of the abstract input is that of getnext.
LEMMA CurrentIs ==
    ASSUME TypeOK
    PROVE  /\ Order!Current = Reached(fi, Offset(in)) /\ Order!Current.fi = fi
           /\ Len(OpenFiles) = Len(cs) + 1 /\ OpenFiles[Len(OpenFiles)] = Reached(fi, Offset(in))
           /\ Order!Finished <=> Reached(fi, Offset(in)).at > Len(text[fi])
<1>1. fi \in File /\ Offset(in) \in Int /\ cs \in Seq(Saved)
  BY DEF TypeOK, Offset, Stream
<1>2. /\ Len(OpenFiles) = Len(cs) + 1 /\ OpenFiles[Len(cs) + 1] = Reached(fi, Offset(in))
  BY <1>1, FilesNow, FilesAre
<1>3. Order!Current = Reached(fi, Offset(in))
  BY <1>2 DEF Order!Current
<1>4. Reached(fi, Offset(in)).fi = fi
  BY DEF Reached
<1> QED BY <1>2, <1>3, <1>4 DEF Order!Finished

\* When nothing is read, nothing is read in the abstract input.
LEMMA NotReading ==
    ASSUME ReadingOn, UNCHANGED <<source, place, in, oval, fresh>>
    PROVE  ReadingOn' /\ UNCHANGED <<text, trigraphs, OpenFiles, fresh>>
<1>1. UNCHANGED <<text, trigraphs, fi, cs, in, oval, fresh>> /\ UNCHANGED source
  BY DEF source, place
<1>2. OpenFiles' = OpenFiles
  BY <1>1, FilesNow, FilesNext
<1>3. Offset(in)' = Offset(in)
  BY <1>1 DEF Offset
<1>4. \A f, p : Boundary(f, p)' = Boundary(f, p)
  BY <1>1, TextStaysSeen
<1>5. Order!AtLineStart' <=> Order!AtLineStart
  BY <1>1 DEF Order!AtLineStart
<1> QED BY <1>1, <1>2, <1>3, <1>4, <1>5 DEF ReadingOn

\* What a step that reads leaves.
LEMMA ReadOnRight ==
    ASSUME ReadingOn, UNCHANGED <<source, fi, cs>>, Boundary(fi, Offset(in')),
           Order!AtLineStart' <=> oval' = NL
    PROVE  ReadingOn'
<1>1. \A f, p : Boundary(f, p)' = Boundary(f, p)
  BY TextStaysSeen
<1>2. Offset(in)' = Offset(in')
  BY DEF Offset
<1> QED BY <1>1, <1>2 DEF ReadingOn

\* The characters that getnext returns.
LEMMA ReturnsRight ==
    ASSUME TypeOK, Sound(in), ReadingOn, NEW v \in Char \cup {EOF}, Return(v),
           oval' = IF v = EOF THEN oval ELSE v
    PROVE  /\ fresh' = Append(fresh, [val |-> v, fi |-> fi, pos |-> Offset(in)])
           /\ Order!AtLineStart' <=> oval' = NL
<1> DEFINE x == [val |-> v, fi |-> fi, pos |-> Offset(in)]
<1>1. fresh' = Append(fresh, x)
  BY TellgPlace DEF Return
<1>2. x \in Fchar /\ fresh \in Seq(Fchar)
  BY DEF TypeOK, Fchar, Offset, Stream
<1>3. v # Cookie
  BY CharsOfCode DEF EOF, Cookie
<1>4. Order!AtLineStart' <=> IF v \in {EOF, Cookie} THEN Order!AtLineStart ELSE v = NL
  BY <1>1, <1>2, LineStartIs
<1> QED BY <1>1, <1>3, <1>4 DEF ReadingOn

\* A round of getnext is a step of the abstract input or changes nothing of it:
\* a splice is passed over and a character put back was read before.
LEMMA GetNextReads ==
    ASSUME IInv, ReadingOn, GetNext
    PROVE  /\ ReadingOn'
           /\ Order!Next \/ UNCHANGED <<text, trigraphs, OpenFiles, fresh>>
<1> DEFINE p == Offset(in)
           q == Offset(Simple.in)
           t == text[fi]
           Right == /\ ReadingOn'
                    /\ Order!Next \/ UNCHANGED <<text, trigraphs, OpenFiles, fresh>>
<1>1. TypeOK /\ Sound(in) /\ fi \in File /\ cs \in Seq(Saved)
  BY DEF IInv, TypeOK
<1>2. /\ p \in Int /\ q \in Int /\ Boundary(fi, q)
      /\ Simple.splice => Reached(fi, q) = Reached(fi, p)
      /\ ~Simple.splice /\ Simple.val # EOF =>
           /\ p \in 1 .. Len(t) /\ Reached(fi, p).at = p /\ Simple.val = Phase!ValueAt(t, p)
           /\ Reached(fi, q).at = Phase!NextAt(fi, Phase!After(t, p))
      /\ ~Simple.splice /\ Simple.val = EOF =>
           /\ q = -1 /\ Reached(fi, p).at = Len(t) + 1 /\ p \in {-1, Len(t) + 1}
           /\ Reached(fi, q) = Reached(fi, p)
  BY <1>1, RoundIsRight DEF ReadingOn
<1>3. /\ Order!Current = Reached(fi, p) /\ Order!Current.fi = fi
      /\ Len(OpenFiles) = Len(cs) + 1 /\ OpenFiles[Len(OpenFiles)] = Reached(fi, p)
      /\ Order!Finished <=> Reached(fi, p).at > Len(t)
  BY <1>1, CurrentIs
<1>4. Simple.val \in Char \cup {EOF} /\ Len(t) \in Nat
  BY <1>1, SimpleFound DEF Found, TypeOK
<1>5. ASSUME UNCHANGED <<source, fi, cs>>, in' = Simple.in, Reached(fi, q) = Reached(fi, p)
      PROVE  OpenFiles' = OpenFiles
  BY <1>5, FilesNow, FilesNext DEF Files
<1>6. CASE TakeBack
  BY <1>6, NotReading DEF TakeBack
<1>7. CASE Splice
  <2>1. UNCHANGED <<source, fi, cs, oval, fresh>> /\ in' = Simple.in /\ Simple.splice
    BY <1>7 DEF Splice, place
  <2>2. OpenFiles' = OpenFiles
    BY <1>2, <1>5, <2>1
  <2>3. Order!AtLineStart' <=> oval' = NL
    BY <2>1 DEF ReadingOn, Order!AtLineStart
  <2>4. ReadingOn'
    BY <1>2, <2>1, <2>3, ReadOnRight
  <2> QED BY <2>1, <2>2, <2>4 DEF source
<1>8. CASE Deliver
  <2>1. /\ UNCHANGED <<source, fi, cs>> /\ in' = Simple.in /\ ~Simple.splice /\ Simple.val # EOF
        /\ Return(Simple.val) /\ oval' = Simple.val
    BY <1>8 DEF Deliver, place
  <2>2. /\ fresh' = Append(fresh, [val |-> Simple.val, fi |-> fi, pos |-> p])
        /\ Order!AtLineStart' <=> oval' = NL
    BY <1>1, <1>4, <2>1, ReturnsRight
  <2>3. ReadingOn'
    BY <1>2, <2>1, <2>2, ReadOnRight
  <2>4. OpenFiles' = [OpenFiles EXCEPT ![Len(OpenFiles)].at = Reached(fi, q).at]
    <3>1. OpenFiles' = Files(cs, fi, q) /\ OpenFiles = Files(cs, fi, p)
      BY <2>1, FilesNow, FilesNext
    <3> QED BY <1>1, <1>2, <3>1, FilesRead
  <2>5. /\ Order!Current.fi = fi /\ Order!Current.at = p /\ ~Order!Finished
    <3>1. Reached(fi, p).at = p /\ p <= Len(t)
      BY <1>2, <2>1
    <3> QED BY <1>2, <1>3, <1>4, <3>1
  <2>6. /\ Simple.val = Order!ValueAt(text[fi], p)
        /\ Reached(fi, q).at = Order!NextAt(fi, Order!After(text[fi], p))
    BY <1>2, <2>1, OrderSees
  <2>7. Order!Take
    BY <2>2, <2>4, <2>5, <2>6 DEF Order!Take
  <2> QED BY <2>1, <2>3, <2>7 DEF Order!Next, source
<1>9. CASE Inject \/ End
  <2>1. AtEnd /\ in' = Simple.in /\ UNCHANGED <<source, fi, cs>>
    BY <1>9 DEF Inject, End, place
  <2>2. ~Simple.splice /\ Simple.val = EOF
    BY <2>1 DEF AtEnd
  <2>3. Order!Finished /\ p \in Order!Past
    BY <1>2, <1>3, <1>4, <2>2 DEF Order!Past
  <2>4. OpenFiles' = OpenFiles
    BY <1>2, <1>5, <2>1, <2>2
  <2>5. \A v : [val |-> v, fi |-> fi, pos |-> p] \in Order!Made(v)
    BY <1>3, <2>3 DEF Order!Made
  <2>6. CASE Inject
    <3>1. Return(NL) /\ oval' = NL /\ oval # NL
      BY <2>6 DEF Inject, NewlineMissing
    <3>2. NL \in Char \cup {EOF} /\ NL # EOF
      BY CharsOfCode DEF NL, EOF
    <3>3. /\ fresh' = Append(fresh, [val |-> NL, fi |-> fi, pos |-> p])
          /\ Order!AtLineStart' <=> oval' = NL
      BY <1>1, <3>1, <3>2, ReturnsRight
    <3>4. ReadingOn'
      BY <1>2, <2>1, <3>3, ReadOnRight
    <3>5. Order!EndLine
      BY <2>3, <2>4, <2>5, <3>1, <3>3 DEF Order!EndLine, ReadingOn
    <3> QED BY <2>1, <3>4, <3>5 DEF Order!Next, source
  <2>7. CASE End
    <3>1. Return(EOF) /\ oval' = oval /\ oval = NL
      BY <2>7 DEF End, NewlineMissing
    <3>2. /\ fresh' = Append(fresh, [val |-> EOF, fi |-> fi, pos |-> p])
          /\ Order!AtLineStart' <=> oval' = NL
      BY <1>1, <3>1, ReturnsRight
    <3>3. ReadingOn'
      BY <1>2, <2>1, <3>2, ReadOnRight
    <3>4. Order!EndUnit
      BY <2>3, <2>4, <2>5, <3>1, <3>2 DEF Order!EndUnit, ReadingOn
    <3> QED BY <2>1, <3>3, <3>4 DEF Order!Next, source
  <2> QED BY <1>9, <2>6, <2>7
<1>10. CASE Pop
  <2> DEFINE fc == cs[Len(cs)]
  <2>1. /\ AtEnd /\ oval = NL /\ cs # <<>>
        /\ fi' = fc.fi /\ in' = Seekg(Opened, fc.pos) /\ cs' = SubSeq(cs, 1, Len(cs) - 1)
        /\ UNCHANGED <<source, oval, fresh>>
    BY <1>10 DEF Pop, SetInput, NewlineMissing, StopsHere
  <2>2. /\ Len(cs') = Len(cs) - 1 /\ \A k \in 1 .. Len(cs) - 1 : cs'[k] = cs[k]
        /\ Len(cs) \in 1 .. Len(cs) /\ fc \in Saved /\ cs' \in Seq(Saved)
    BY <1>1, <2>1, AllButLast
  <2>3. Order!Finished /\ Order!AtLineStart
    <3>1. ~Simple.splice /\ Simple.val = EOF
      BY <2>1 DEF AtEnd
    <3> QED BY <1>2, <1>3, <1>4, <2>1, <3>1 DEF ReadingOn
  <2>4. Offset(in') = fc.pos
    BY <2>1 DEF Seekg, Opened, Offset
  <2>5. OpenFiles' = SubSeq(OpenFiles, 1, Len(OpenFiles) - 1)
    <3>1. OpenFiles' = Files(cs', fc.fi, fc.pos) /\ OpenFiles = Files(cs, fi, p)
      BY <2>1, <2>4, FilesNow, FilesNext
    <3>2. Len(OpenFiles) - 1 = Len(cs)
      BY <1>1, <1>3
    <3> QED BY <1>1, <1>2, <2>1, <3>1, <3>2, FilesPopped
  <2>6. Len(OpenFiles) > 1
    BY <1>3, <2>2
  <2>7. Order!Leave
    BY <2>1, <2>3, <2>5, <2>6 DEF Order!Leave
  <2>8. ReadingOn'
    <3>1. \A f, r : Boundary(f, r)' = Boundary(f, r)
      BY <2>1, TextStaysSeen
    <3>2. Offset(in)' = fc.pos
      BY <2>4 DEF Offset
    <3>3. Boundary(fc.fi, fc.pos)
      BY <2>2 DEF ReadingOn
    <3>4. \A k \in DOMAIN cs' : k \in DOMAIN cs /\ cs'[k] = cs[k]
      <4>1. DOMAIN cs' = 1 .. Len(cs) - 1 /\ DOMAIN cs = 1 .. Len(cs) /\ Len(cs) \in Nat
        BY <1>1, <2>2
      <4> QED BY <2>2, <4>1
    <3>5. Order!AtLineStart' <=> Order!AtLineStart
      BY <2>1 DEF Order!AtLineStart
    <3>6. Boundary(fi, Offset(in))'
      BY <2>1, <3>1, <3>2, <3>3
    <3>7. \A k \in DOMAIN cs' : Boundary(cs'[k].fi, cs'[k].pos)
      BY <3>4 DEF ReadingOn
    <3>8. (\A k \in DOMAIN cs : Boundary(cs[k].fi, cs[k].pos))'
      BY <3>1, <3>7
    <3> QED BY <2>1, <3>5, <3>6, <3>8 DEF ReadingOn
  <2> QED BY <2>1, <2>7, <2>8 DEF Order!Next, source
<1> QED BY <1>6, <1>7, <1>8, <1>9, <1>10 DEF GetNext

\* A file that is included is read from its beginning; one of yacc is marked.
LEMMA PushReads ==
    ASSUME IInv, ReadingOn, NEW f \in File, PushInput(f), UNCHANGED <<source, oval>>
    PROVE  ReadingOn' /\ Order!Next
<1> DEFINE p == Offset(in)
           x == [val |-> Cookie, fi |-> f, pos |-> 0]
<1>1. TypeOK /\ Sound(in) /\ fi \in File /\ cs \in Seq(Saved) /\ fresh \in Seq(Fchar)
  BY DEF IInv, TypeOK
<1>2. Context \in Saved /\ Context.fi = fi /\ Context.pos = p
  BY <1>1, TellgPlace DEF TypeOK, Context, Saved
<1>3. cs' = Append(cs, Context) /\ fi' = f /\ in' = Opened
  BY DEF PushInput, SetInput
<1>4. Offset(in') = 1 /\ Offset(in)' = 1
  BY <1>3 DEF Opened, Offset
<1>5. OpenFiles' = Append(OpenFiles, Reached(f, 1))
  <2>1. OpenFiles' = Files(Append(cs, Context), f, 1) /\ OpenFiles = Files(cs, fi, p)
    BY <1>3, <1>4, FilesNow, FilesNext
  <2> QED BY <1>1, <1>2, <2>1, FilesPushed
<1>6. Reached(f, 1) = [fi |-> f, at |-> Order!NextAt(f, 1)]
  BY OrderSees DEF Reached
<1>7. fresh' = fresh \/ fresh' = Append(fresh, x)
  BY DEF PushInput
<1>8. Order!Enter
  BY <1>5, <1>6, <1>7 DEF Order!Enter
<1>9. Order!AtLineStart' <=> Order!AtLineStart
  <2>1. CASE fresh' = fresh
    BY <2>1 DEF Order!AtLineStart
  <2>2. CASE fresh' = Append(fresh, x)
    <3>1. x \in Fchar
      BY DEF Fchar
    <3> QED BY <1>1, <2>2, <3>1, LineStartIs
  <2> QED BY <1>7, <2>1, <2>2
<1>10. \A g, r : Boundary(g, r)' = Boundary(g, r)
  BY TextStaysSeen
<1>11. Boundary(fi, Offset(in))'
  BY <1>1, <1>3, <1>4, <1>10, BoundaryFirst
<1>12. (\A k \in DOMAIN cs : Boundary(cs[k].fi, cs[k].pos))'
  <2>1. ASSUME NEW k \in DOMAIN cs' PROVE Boundary(cs'[k].fi, cs'[k].pos)
    <3>1. DOMAIN cs' = 1 .. Len(cs) + 1 /\ DOMAIN cs = 1 .. Len(cs) /\ Len(cs) \in Nat
          /\ (\A i \in 1 .. Len(cs) : cs'[i] = cs[i]) /\ cs'[Len(cs) + 1] = Context
      BY <1>1, <1>2, <1>3, AppendProperties
    <3>2. CASE k \in 1 .. Len(cs)
      BY <3>1, <3>2 DEF ReadingOn
    <3>3. CASE k = Len(cs) + 1
      BY <1>2, <3>1, <3>3 DEF ReadingOn
    <3> QED BY <3>1, <3>2, <3>3
  <2> QED BY <1>10, <2>1
<1>13. ReadingOn'
  BY <1>9, <1>11, <1>12 DEF ReadingOn
<1> QED BY <1>8, <1>13 DEF Order!Next, source

\* So is every step of the lexer and of its driver.
LEMMA NextReads ==
    ASSUME IInv, ReadingOn, Next
    PROVE  /\ ReadingOn'
           /\ Order!Next \/ UNCHANGED <<text, trigraphs, OpenFiles, fresh>>
<1>1. TypeOK
  BY DEF IInv
<1>2. CASE GetNext
  BY <1>2, GetNextReads
<1>3. CASE Analyze
  <2>1. UNCHANGED <<source, place, in, oval, fresh>>
    BY <1>1, <1>3, AnalyzeMoves DEF rest
  <2> QED BY <2>1, NotReading
<1>4. CASE Drive
  <2>1. UNCHANGED <<source, oval>>
    BY <1>4, DriveMoves
  <2>2. CASE UNCHANGED <<place, in, line, fresh, ps>>
    <3>1. UNCHANGED <<source, place, in, oval, fresh>>
      BY <2>1, <2>2
    <3> QED BY <3>1, NotReading
  <2>3. CASE IncludeFile
    <3>1. wanted \in File /\ PushInput(wanted)
      BY <1>1, <2>3 DEF IncludeFile, TypeOK
    <3> QED BY <2>1, <3>1, PushReads
  <2>4. CASE ProcessFile
    <3>1. Process[code] \in File /\ PushInput(Process[code])
      BY <2>4, LexerAssumption DEF ProcessFile
    <3> QED BY <2>1, <3>1, PushReads
  <2>5. CASE EndOfWorkspace
    <3>1. UNCHANGED <<source, place, in, oval, fresh>>
      BY <2>5 DEF EndOfWorkspace, input
    <3> QED BY <3>1, NotReading
  <2> QED BY <1>4, <2>2, <2>3, <2>4, <2>5, DriveMoves
<1> QED BY <1>2, <1>3, <1>4 DEF Next

\* Reading begins at the beginning of the workspace.
LEMMA InitReads ==
    ASSUME Init, IInv
    PROVE  ReadingOn /\ Order!Init
<1>1. /\ fi = Main /\ in = Opened /\ cs = <<>> /\ oval = "0" /\ fresh = <<>>
      /\ Main \in File
  BY LexerAssumption DEF Init, InputInit
<1>2. Offset(in) = 1
  BY <1>1 DEF Opened, Offset
<1>3. Boundary(fi, Offset(in))
  BY <1>1, <1>2, BoundaryFirst DEF IInv
<1>4. DOMAIN cs = {} /\ DOMAIN fresh = {} /\ oval # NL
  BY <1>1 DEF NL
<1>5. ReadingOn
  BY <1>3, <1>4 DEF ReadingOn, Order!AtLineStart
<1>6. OpenFiles = <<Reached(Main, 1)>>
  <2>1. Files(<<>>, Main, 1) = Append([i \in {} |-> Reached(<<>>[i].fi, <<>>[i].pos)], Reached(Main, 1))
    BY DOMAIN <<>> = {} DEF Files
  <2>2. [i \in {} |-> Reached(<<>>[i].fi, <<>>[i].pos)] = <<>>
    OBVIOUS
  <2> QED BY <1>1, <1>2, <2>1, <2>2, FilesNow
<1>7. Reached(Main, 1) = [fi |-> Main, at |-> Order!NextAt(Main, 1)]
  BY OrderSees DEF Reached
<1>8. Order!Init
  BY <1>1, <1>6, <1>7 DEF Order!Init
<1> QED BY <1>5, <1>8

\* FileStack reads what CharOrder promises: with trigraphs replaced and lines
\* spliced, each character that counts is read once, in its place, the text of an
\* included file in that of its inclusion; a missing newline is made up, and the
\* end of a unit met, at the end of a file only.  simple_getnext reads from places
\* that no trigraph or splice holds (ReadingOn), which putback, the seek of
\* set_context and the failed streams at the end of files all keep.
THEOREM InputIsInOrder == Spec => ImplementsCharOrder
<1>1. Init => ReadingOn /\ Order!Init
  BY InitRight, InitReads
<1>2. IInv /\ ReadingOn /\ [Next]_vars
        => ReadingOn' /\ [Order!Next]_<<text, trigraphs, OpenFiles, fresh>>
  <2>1. ASSUME IInv, ReadingOn, UNCHANGED vars
        PROVE  ReadingOn' /\ UNCHANGED <<text, trigraphs, OpenFiles, fresh>>
    <3>1. UNCHANGED <<source, place, in, oval, fresh>>
      BY <2>1 DEF vars, input
    <3> QED BY <2>1, <3>1, NotReading
  <2> QED BY <2>1, NextReads
<1>3. Spec => []IInv
  BY Invariant
<1> QED BY <1>1, <1>2, <1>3, PTL DEF Spec, ImplementsCharOrder, Order!Spec

=============================================================================

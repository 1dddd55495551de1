------------------------------ MODULE MCMetrics ------------------------------
(***************************************************************************)
(* Metrics on the files of a small workspace: two source files that        *)
(* include a header, one of them a file that includes itself, functions    *)
(* made of every kind of statement, one of them nested in another and one  *)
(* in the header, macros that hold statements, and conditionals with       *)
(* either outcome.  Conditionals runs on its own too, in units of any      *)
(* directives.                                                             *)
(***************************************************************************)
EXTENDS Metrics, SequencesExt

CONSTANTS main, other, header, self, f, g, inner, inline, M, a, b, c, d

MCFile == {main, other, header, self}
MCFun == {f, g, inner, inline, M}
MCId == {a, b, c, d}
MCMains == {main, other}
MCIdLen == (a :> 3) @@ (b :> 1) @@ (c :> 2) @@ (d :> 2)
MCReadOnly == {header, c}
MCInClass == [npid |-> {a, d}, nfid |-> {b}, nid |-> {a, b, c, d}]

\* Items
T(k) == <<[do |-> "token", code |-> k]>>
X(k) == <<[do |-> "text", code |-> k]>>
Do(kind) == <<[do |-> kind]>>
At(kind, who) == <<[do |-> kind, who |-> who]>>
Tal(kind, n) == <<[do |-> kind, tally |-> n]>>
Kw(macro) == <<[do |-> "keyword", macro |-> macro]>>
Hash(word) == Do("#") \o X(word)
NewLine == X("space")

\* The items of a statement: [do |-> kind, part |-> the statements in it].
RECURSIVE Items(_)
Each(s) == FlattenSeq([i \in 1 .. Len(s) |-> Items(s[i])])
Nested(s) == Do("nest") \o Items(s) \o Do("unnest")
Items(s) ==
    LET p == s.part
    IN  CASE s.is = "expression" -> T(a) \o T("+") \o T("number") \o T(";")
          [] s.is = "block" -> T("{") \o Each(p) \o T("}")
          [] s.is = "if" -> T("if") \o Kw(FALSE) \o T("(") \o T(b) \o T("&&")
                            \o T(a) \o T(")") \o Nested(p[1])
          [] s.is = "if else" -> T("if") \o Kw(FALSE) \o T("(") \o T(d)
                            \o T(")") \o Nested(p[1]) \o T("else")
                            \o Items(p[2])
          [] s.is = "while" -> T("while") \o Kw(FALSE) \o T("(") \o T(b)
                            \o T(")") \o Nested(p[1])
          [] s.is = "do" -> T("do") \o Kw(FALSE) \o Nested(p[1])
                            \o T("while") \o T("(") \o T(a) \o T(")") \o T(";")
          [] s.is = "for" -> T("for") \o Kw(FALSE) \o T("(") \o T(";")
                            \o T(";") \o T(")") \o Nested(p[1])
          [] s.is = "switch" -> T("switch") \o Kw(FALSE) \o T("(") \o T(a)
                            \o T(")") \o Nested(p[1])
          [] s.is = "macro" -> <<[do |-> "use", code |-> "name", out |->
                            T("if") \o Kw(TRUE) \o T("(") \o T("space")
                            \o T(c) \o T(")") \o Do("nest") \o T(";")
                            \o Do("unnest")]>>

S(kind, part) == [is |-> kind, part |-> part]
E == S("expression", <<>>)
Body == [x \in {f, inline, g, inner} |->
    CASE x = f -> <<S("if else", <<S("while", <<E>>), S("block", <<E, E>>)>>),
                    S("do", <<S("for", <<E>>)>>)>>
      [] x = g -> <<S("switch", <<S("block", <<S("if", <<E>>)>>)>>),
                    S("while", <<S("macro", <<>>)>>)>>
      [] x = inline -> <<S("if", <<S("if", <<E>>)>>)>>
      [] x = inner -> <<S("while", <<E>>)>>]

RECURSIVE Defining(_, _)
Defining(x, static) ==
    T("{") \o <<[do |-> "begin", who |-> x, tally |-> static]>>
    \o (IF x = f THEN Defining(inner, "nffunction") ELSE <<>>)
    \o Each(Body[x]) \o T("}") \o Do("end")

MacroDefinition ==
    Hash("name") \o X("name") \o Tal("define", "nppfmacro") \o At("body", M)
    \o X("if") \o X("##") \o X(";") \o NewLine \o Do("end of body")

MCText == [x \in MCFile |->
    CASE x = main ->
           MacroDefinition \o Hash("name") \o At("include", header)
           \o Defining(f, "npfunction") \o T("space")
           \o Hash("name") \o At("include", header)
      [] x = other ->
           Hash("name") \o At("include", self)
           \o Hash("if") \o Do("if") \o MacroDefinition
           \o Hash("else") \o Do("else") \o Hash("name") \o Do("endif")
           \o Defining(g, "nffunction")
      [] x = header ->
           Hash("if") \o Do("if") \o X("number") \o NewLine
           \o Defining(inline, "nffunction")
           \o Hash("name") \o Do("elif")
           \o Tal("declare", "npvar") \o T(c) \o T(";")
           \o Hash("name") \o Do("endif")
      [] x = self ->
           T(b) \o Hash("if") \o Do("if") \o Hash("name")
           \o At("include", self) \o Hash("name") \o Do("endif") \o T(";")]

ItemsOf(s) == {s[i] : i \in DOMAIN s}
RECURSIVE Closure(_)
Closure(I) ==
    LET J == I \cup UNION {ItemsOf(it.out) : it \in {k \in I : k.do = "use"}}
    IN  IF J = I THEN I ELSE Closure(J)
MCItem == Closure(UNION {ItemsOf(MCText[x]) : x \in MCFile})

-----------------------------------------------------------------------------
\* Units of a workspace, or units of directives only.
DirectivesOnly == units > 0 /\ \A x \in Entity : opened[x] = 0
MCNext ==
    \/ ~DirectivesOnly /\ MetricsNext
    \/ (units = 0 \/ DirectivesOnly) /\ Next /\ UNCHANGED metricVars
MCSpec == MetricsInit /\ [][MCNext]_allVars

-----------------------------------------------------------------------------
(* Properties                                                              *)

\* How many statements s is, "nested statements are counted recursively",
\* how many decisions, and how many of them are do statements.
RECURSIVE Statements(_), Decisions(_), Dos(_)
SumOver(Op(_), s) == FoldFunctionOnSet(+, 0, [i \in DOMAIN s |-> Op(s[i])], DOMAIN s)
Statements(s) ==
    (CASE s.is = "block" -> 0 [] s.is = "macro" -> 2 [] OTHER -> 1)
    + SumOver(Statements, s.part)
Decisions(s) == (IF s.is \in {"block", "expression"} THEN 0 ELSE 1)
                + SumOver(Decisions, s.part)
Dos(s) == (IF s.is = "do" THEN 1 ELSE 0) + SumOver(Dos, s.part)

\* In the functions of the program, after the preprocessor: the statements
\* (an if and an empty statement for the macro's) are counted as the manual says, but for two more for every do statement,
\* and the cyclomatic complexity is the number of decisions and one.
StatementsRight ==
    \A x \in DOMAIN Body \cap processed :
        /\ Shown(x)["nstmt"]["post"] = SumOver(Statements, Body[x]) + 2 * SumOver(Dos, Body[x])
        /\ Shown(x)["ccycl1"]["post"] = SumOver(Decisions, Body[x]) + 1
        /\ x # g => \A n \in FunMetric \ (IdMetric \cup {"maxstmtnest"}) :
              Value(x, "pre", n) = Value(x, "post", n)
ShownRight == open = <<>> => StatementsRight /\ SummariesRight

=============================================================================

------------------------------ MODULE MCLexer ------------------------------
(***************************************************************************)
(* Texts for Lexer: one family for each construct, all the texts of a few  *)
(* of its characters; and files that include one another.                  *)
(***************************************************************************)
EXTENDS Lexer, SequencesExt

\* A workspace definition file w, a unit u and a yacc unit y, headers h and g.
MCFile == {"w", "u", "h", "g", "y"}
MCChar ==
    {NL, CR, "\\", "?", "/", "=", "8", "e", "+", "-", ".", "a", "L", "u", "'",
     "\"", "*", ">", "%", "{", " ", "#h", "#g", "#u", "#y"}
    \cup {Trigraph[x] : x \in DOMAIN Trigraph}
MCInclude == [x \in {"#h", "#g"} |-> IF x = "#h" THEN "h" ELSE "g"]
MCProcess == [x \in {"#u", "#y"} |-> IF x = "#u" THEN "u" ELSE "y"]

Alone(S) == {[f \in MCFile |-> IF f = "w" THEN s ELSE <<>>] : s \in S}

Constructs ==
    Alone(BoundedSeq({"?", "/", NL, CR, "\\"}, 4))
    \cup Alone(BoundedSeq({"?", "="}, 4))
    \cup Alone(BoundedSeq({"8", "e", "+", ".", "\\", NL}, 4))
    \cup Alone(BoundedSeq({"a", "L", "u", "8", "'"}, 3))
    \cup Alone(BoundedSeq({"u", "8", "\\", NL}, 4))
    \cup Alone(BoundedSeq({"/", "*", NL, "a", "\""}, 4))
    \cup Alone(BoundedSeq({">", "=", "-", "."}, 3))

\* What follows the directive in w, what u and h hold and how they end.
OneUnit ==
    {[w |-> w, u |-> u, h |-> h, g |-> <<>>, y |-> <<>>] :
        w \in {<<"#u", NL, " ", NL, "a">>, <<"#u", "a">>},
        u \in BoundedSeq({"a", NL, "#h"}, 3),
        h \in {<<>>, <<"a">>, <<"\\">>, <<NL>>, <<"'">>, <<"/", "/">>, <<"a", "\\", NL>>}}

\* Two units, one of them in yacc, and headers two deep.
TwoUnits ==
    {[w |-> w, u |-> u, h |-> h, g |-> g, y |-> y] :
        w \in {<<"#y", NL, "#u">>, <<NL, "#y">>}, u \in {<<>>, <<"a">>},
        h \in {<<>>, <<"#g">>, <<"#g", NL>>},
        g \in {<<>>, <<"a">>, <<"/", "*">>},
        y \in {<<>>, <<"%", "{">>, <<"#h", NL, "%", "}">>, <<"#g">>}}

MCText == Constructs \cup OneUnit \cup TwoUnits
=============================================================================

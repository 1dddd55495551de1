----------------------------- MODULE MCFunArgs -----------------------------
(***************************************************************************)
(* Instances of FunArgs for TLC: all short files with one function to be   *)
(* refactored; files of several calls, one within the other, next to each  *)
(* other and broken, with many templates; and two files with two functions *)
(* and a renamed one, over several requests.                               *)
(***************************************************************************)
EXTENDS FunArgs

Verbatim(c) == [op |-> "text", n |-> 1, text |-> c, of |-> << >>]
Op(op, n) == [op |-> op, n |-> n, text |-> << >>, of |-> << >>]
Cond(op, n, of) == [op |-> op, n |-> n, text |-> << >>, of |-> of]
CommaBlank == Verbatim(<<",", " ">>)

Swap == <<Op("=", 2), CommaBlank, Op("=", 1)>>
Default == <<Op("=", 1), Cond("+", 2, <<CommaBlank, Op(".", 2)>>),
             Cond("-", 2, <<CommaBlank, Verbatim(<<"0">>)>>)>>
Nested == <<Verbatim(<<"}">>), Cond("-", 1, << >>),
            Cond("+", 1, <<Cond("+", 2, <<Op("=", 2), Op("=", 2)>>),
                           Cond("-", 2, <<Verbatim(<<"{", "}">>), Op("=", 1)>>)>>)>>
Rest == <<Verbatim(<<";", ",">>), Op(".", 1), Verbatim(<<")">>)>>
Empty == << >>
Trees == {Swap, Default, Nested, Rest, Empty}

Wrong == {<<"@">>, <<"@", "0">>, <<"@", "-", "1">>, <<"@", "+", "1", "{", "@", "}">>,
          <<"@", "+", "2", "{", "{", "}">>, <<"f", "@", ".", "{">>}

Workspace(text, trees, renamed, wrong, requests) ==
    [text |-> text, template |-> trees, renamed |-> renamed, offered |-> {"f", "g"},
     entered |-> {AsTyped(t) : t \in trees} \cup wrong,
     edited |-> {AsTyped(t) : t \in trees}, requests |-> requests]

Line(s) == Append(s, "nl")

\* All short files with one function
Alphabet == {"f", "(", ")", ",", " ", "=", ";"}
Short ==
    {[Workspace(<<Line(<<"f">> \o s)>>, {Swap}, {}, {}, 2) EXCEPT !.offered = {"f"}] :
        s \in UNION {[1 .. n -> Alphabet] : n \in 0 .. 4}}

\* Calls of several forms with every template
Gap == {<< >>, <<"nl">>, <<"nl", "c">>, <<" ">>}
Argument == {<< >>, <<" ", "h", "g">>, <<"(", ",", ")", ";">>, <<"f", "(", "g", ")">>,
             <<"c", "f", " ">>}
Calls ==
    {Line(<<"f">> \o gap \o <<"(">> \o a \o rest \o <<")">>) :
        gap \in Gap, a \in Argument,
        rest \in {<< >>, <<",", "g">>, <<",", "f", "(", "nl", "h", ",", " ", ")", ",">>}}
Various == {Workspace(<<text>>, Trees, {"h"}, Wrong, 2) : text \in Calls}

\* Two files and two functions, one of them renamed
Pair == <<Line(<<"g", "(", "f", ",", "f", "(", "h", ",", "g", "(", ")", ")", ")">>),
          Line(<<"f", "g", "(", ")", ";", "f", "(", "g", "(", "h", ")">>)>>
Long == {Workspace(Pair, {Swap, Rest}, {"f"}, {}, 4)}

MCProject == Short \cup Various \cup Long

\* A template that the page of all refactorings accepts and that is wrong
MCUnchecked == {[w EXCEPT !.edited = @ \cup {<<"@">>}] : w \in Long}

=============================================================================

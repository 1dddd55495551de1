----------------------------- MODULE MCFileText -----------------------------
(***************************************************************************)
(* Model values for FileText.                                              *)
(***************************************************************************)
EXTENDS FileText

Characters == Name \cup {"/", "*", "\"", "'", "\\", "nl", " ", "{", "}", ";"}

\* All short texts, over the characters the state machines tell apart
Short ==
    {Append(t, "nl") : t \in BoundedSeq({"x", "/", "*", "\"", "\\", "nl", " "}, 4)
                             \cup BoundedSeq({"x", "/", "*", "'", "k", "{", "}"}, 4)}

\* Pieces of texts: names next to each other, comments of both kinds with
\* what opens the others in them, literals with escapes, functions
Pieces ==
    {<<"x", " ", "k", ";">>, <<"m", " ", "e">>, <<"y", "/", "x", "*">>,
     <<"/", "/", "x", "\"", "'", "nl">>, <<"/", "*", "*", "/">>,
     <<"/", "*", "/", "*", "nl", " ", "*", "*", "/">>,
     <<"\"", "/", "*", "x", "\\", "\"", "\"">>, <<"\"", "\\", "\\", "\"">>,
     <<"'", "\"", "'">>, <<"'", "\\", "'", "'">>, <<"\"", "'", "/", "/", "\"">>,
     <<"{">>, <<"}">>, <<"{", "x", "}">>, <<" ">>, <<"nl">>}

Long ==
    {Append(p \o q \o r, "nl") : p, q, r \in Pieces}
    \cup {FlattenSeq(<<p, <<"{", " ", "k">>, q, <<"{", "x">>, r, <<"}", "y", "}", "nl">>>>) :
              p, q, r \in Pieces \ {<<"{">>, <<"}">>}}

Text == {t \in Short \cup Long : WellFormed(t)}

\* Every text with all tables, and longer ones with some of the tables, some
\* of the identifiers and as yacc files.  A yacc file loses its main: none has.
MCProject ==
    {[text |-> t, monitored |-> Ident, tables |-> Table, yacc |-> FALSE] : t \in Text}
    \cup {[text |-> t, monitored |-> m, tables |-> b, yacc |-> y] :
              t \in {Append(p \o q, "nl") : p, q \in Pieces} \cap Text,
              m \in {{"x", "m"}, {}}, b \in {Table \ {"REST", "TOKENS"}, {"REST"}, {"STRINGS"}},
              y \in BOOLEAN}
=============================================================================

--------------------------- MODULE MCMacroExpand ---------------------------
(***************************************************************************)
(* Macro tables and sources for MacroExpand, and what Prosser's algorithm  *)
(* makes of them.                                                          *)
(***************************************************************************)
EXTENDS MacroExpand

VARIABLE source     \* the text before anything was read

mcvars == <<vars, source>>
MCInit == Init /\ source = text
MCNext == Next /\ UNCHANGED source
MCSpec == MCInit /\ [][MCNext]_mcvars /\ WF_mcvars(MCNext)

Values(ts) == [i \in DOMAIN ts |-> ts[i].v]

Reference == INSTANCE Prosser

\* The comment of macro_expand says it is an implementation of Prosser's
\* algorithm "with recursion converted to iteration": the tokens that come out
\* of a text whose calls are complete are those of the recursive algorithm.
ImplementsProsser ==
    Done => LET ref == Reference!Expand(macros, [i \in DOMAIN source |->
                            [v |-> source[i].v, hs |-> {}]])
            IN  Reference!IsDefined(ref) => Values(out) = Values(ref) /\ ~error

-----------------------------------------------------------------------------

Name == {"f", "g", "o", "x", "y", "a", "b", "ab"}
MCValue == Name \cup {"(", ")", ",", "#", "##", "string"}

\* a ## b is ab, and any other two names put together are b.
MCPasted(v, w) ==
    CASE v = "a" /\ w = "b" -> <<"ab">>
      [] IsName(v) /\ IsName(w) -> <<"b">>
      [] OTHER -> <<v, w>>

Obj(body) == [fun |-> FALSE, vararg |-> FALSE, formals |-> <<>>, body |-> body]
Fun(formals, body) ==
    [fun |-> TRUE, vararg |-> FALSE, formals |-> formals, body |-> body]
Var(formals, body) ==
    [fun |-> TRUE, vararg |-> TRUE, formals |-> formals, body |-> body]

SeqUpTo(S, n) == UNION {[1 .. k -> S] : k \in 0 .. n}
Every(tables, texts) == {[macros |-> T, text |-> s] : T \in tables, s \in texts}

\* Every pair of an object-like macro o and a macro f(x) with short bodies.
Pairs == Every(
    {[o |-> Obj(b), f |-> Fun(<<"x">>, c)] :
        b \in SeqUpTo({"f", "o", "("}, 2),
        c \in SeqUpTo({"x", "f", "o", "(", ")", "##"}, 3)},
    {<<"f", "(", "o", ")", "(", "a", ")">>,
     <<"o", "(", "f", ")", "(", "o", ")">>})

\* Two arguments, the second optional, and the operators on them.
Lists == Every(
    {[f |-> Var(<<"x", "y">>, c), o |-> Obj(<<"a">>)] :
        c \in SeqUpTo({"x", "y", ",", "#", "##", "f"}, 3)
                \cup [1 .. 4 -> {"x", "y", "#", "##"}]},
    {<<"f", "(", "a", ")">>, <<"f", "(", ",", "b", ",", "o", ")">>})

\* Macros that call each other.
Mutual == Every(
    {[f |-> Fun(<<"x">>, <<"g", "(", "x", ")">>), g |-> Fun(<<"x">>, <<"f", "(", "x", ")">>)],
     [f |-> Fun(<<"x", "y">>, <<"g", "(", "y", ",", "x", ")">>),
      g |-> Fun(<<"x", "y">>, <<"x", "f", "(", "x", "##", "y", ",", "x", ")">>)]},
    {<<"f", "(", "a", ")">>, <<"f", "(", "a", ",", "b", ")">>,
     <<"f", "(", "f", "(", "a", ",", "g", ")", ",", "f", ")", "(", "a", ",", "b", ")">>})

AllPrograms == Pairs \cup Lists \cup Mutual

\* The same without parameters.
NoParameters == Every(
    {[f |-> Fun(<<>>, <<"g", "(", ")">>), g |-> Fun(<<>>, <<"f", "(", ")">>)]},
    {<<"f", "(", ")">>})

=============================================================================

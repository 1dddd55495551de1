----------------------------- MODULE MacroExpand -----------------------------
(***************************************************************************)
(* Macro expansion: macro_expand, subst, gather_args, fill_in and glue of  *)
(* macro.cpp, and the loop of Pdtoken::getnext_expand that feeds them.     *)
(*                                                                         *)
(* macro_expand replaces the macros of a sequence of tokens; subst, which  *)
(* it calls for every replacement, calls it again to expand an argument.   *)
(* The activations are the stack; an action is one iteration of one of     *)
(* their loops.  Tokens carry a hide set, the macros that must not replace *)
(* them again, and the function-like macro that produced them, the caller  *)
(* in the graph of calls when they are replaced in turn.                   *)
(*                                                                         *)
(* Spaces, the macros the program computes (__LINE__, __COUNTER__),        *)
(* defined and __VA_OPT__ do not occur in the texts and bodies here.       *)
(***************************************************************************)
EXTENDS Integers, Sequences, FiniteSets

CONSTANTS
    Value,          \* the values of tokens
    Programs,       \* [macros, text]: macro tables, from names to definitions,
                    \* with the values of a text that uses them
    NoMacro,        \* null, as the producer of a token
    Pasted(_, _),   \* values the lexer makes of two values put together
    StringLiteral   \* the value of a string literal, whatever it holds

IsName(v) == v \notin {"(", ")", ",", "#", "##", StringLiteral}

Definition == [fun : BOOLEAN, vararg : BOOLEAN,
               formals : Seq(Value), body : Seq(Value)]

ASSUME MacroExpandAssumption ==
    /\ \A p \in Programs : /\ DOMAIN p.macros \subseteq Value
                           /\ p.macros \in [DOMAIN p.macros -> Definition]
                           /\ p.text \in Seq(Value)
    /\ NoMacro \notin Value
    /\ \A v, w \in Value : Pasted(v, w) \in Seq(Value)
    /\ StringLiteral \in Value

VARIABLES
    macros,     \* Pdtoken::macros
    text,       \* tokens of the file that were not read yet
    stack,      \* activations of macro_expand: [ts, r, sub]
    out,        \* tokens getnext_expand returned
    calls,      \* edges registered between macros
    error       \* whether Error::error was called

vars == <<macros, text, stack, out, calls, error>>

Token == [v : Value, hs : SUBSET Value, by : Value \cup {NoMacro}]

Plain(v) == [v |-> v, hs |-> {}, by |-> NoMacro]
PlainSeq(s) == [i \in DOMAIN s |-> Plain(s[i])]

\* The activation of subst an activation of macro_expand waits for, if any.
NoSub == [on |-> FALSE]
Sub(m, args, hs) == [on |-> TRUE, m |-> m, args |-> args, hs |-> hs,
                     is |-> macros[m].body, os |-> <<>>, known |-> << >>]

Init ==
    /\ \E p \in Programs : macros = p.macros /\ text = PlainSeq(p.text)
    /\ stack = <<>> /\ out = <<>> /\ calls = {} /\ error = FALSE

-----------------------------------------------------------------------------
(* The activation that runs                                                *)

Top == stack[Len(stack)]
Outermost == Len(stack) = 1
Retop(activation) == stack' = [stack EXCEPT ![Len(stack)] = activation]

\* macro_expand is about to look at its next token.
Expanding == stack # <<>> /\ ~Top.sub.on
First == Head(Top.ts)
Rest == Tail(Top.ts)

FollowingFaulty == Rest \o text         \* every activation gets more tokens

\* What follows First: only the outermost activation gets more tokens from
\* the file (TokenSourceOption::get_more).
Following == IF Outermost THEN Rest \o text ELSE Rest

\* Leaves what follows the first k tokens of Following.
Drop(k) == SubSeq(Rest, k + 1, Len(Rest))
TextAfter(k) ==
    IF k > Len(Rest) THEN SubSeq(text, k - Len(Rest) + 1, Len(text)) ELSE text

IsMacro(t) == t.v \in DOMAIN macros
Replaceable(t) == IsMacro(t) /\ t.v \notin t.hs
IsCall == Following # <<>> /\ Following[1].v = "("

-----------------------------------------------------------------------------
(* gather_args: the arguments in Following, after the bracket at 1         *)

\* Brackets opened minus brackets closed from i to j.
Brackets(i, j) ==
    Cardinality({k \in i .. j : Following[k].v = "("})
        - Cardinality({k \in i .. j : Following[k].v = ")"})

\* What may end the argument for the i-th of d's formals.
Terminators(d, i) ==
    CASE i = Len(d.formals) -> {")"}
      [] d.vararg /\ i = Len(d.formals) - 1 -> {",", ")"}
      [] OTHER -> {","}

\* Where the argument that starts after position p ends, 0 if it does not.
EndOfArg(p, terminators) ==
    LET ends == {k \in p + 1 .. Len(Following) :
                    /\ Following[k].v \in terminators
                    /\ Brackets(p + 1, k - 1) = 0}
    IN  IF ends = {} THEN 0 ELSE CHOOSE k \in ends : \A j \in ends : k <= j

\* The position before the i-th argument, when ends are those of the others.
Before(ends, i) == IF i = 1 THEN 1 ELSE ends[i - 1]

\* The bracket that ends an argument too early for the optional last one
OmitsLast(d, ends, i) ==
    d.vararg /\ i > 1 /\ i = Len(d.formals) /\ Following[Before(ends, i)].v = ")"

\* ends[i] is where the i-th argument ends, the last one with the one before
\* it if it is omitted; 0 from the first argument on that does not end.
AreEnds(d, ends) ==
    \A i \in DOMAIN d.formals :
        ends[i] = IF Before(ends, i) = 0 THEN 0
                  ELSE IF OmitsLast(d, ends, i) THEN Before(ends, i)
                  ELSE EndOfArg(Before(ends, i), Terminators(d, i))

Last(d, ends) == ends[Len(d.formals)]

Arguments(d, ends) ==
    [x \in {d.formals[i] : i \in DOMAIN d.formals} |->
        LET i == CHOOSE i \in DOMAIN d.formals : d.formals[i] = x
        IN  SubSeq(Following, Before(ends, i) + 1, ends[i] - 1)]

\* The number of tokens gather_args takes, and whether it succeeds.
Taken(d, ends) ==
    IF d.formals = <<>> THEN (IF Len(Following) < 2 THEN 1 ELSE 2)
    ELSE IF Last(d, ends) = 0 THEN Len(Following)
    ELSE Last(d, ends)
Gathers(d, ends) ==
    IF d.formals = <<>> THEN Len(Following) >= 2 /\ Following[2].v = ")"
    ELSE Last(d, ends) # 0

CloseHidesFaulty(d, ends) == {}         \* forgets close = t

\* The hide set of close.  It is set when an argument that something follows
\* or the last one was gathered: not for a macro without parameters, and not
\* by the bracket that ends the arguments early.
CloseHides(d, ends) ==
    LET set == Len(d.formals)
                - IF d.formals # <<>> /\ OmitsLast(d, ends, Len(d.formals)) THEN 2 ELSE 0
    IN  IF set <= 0 THEN {} ELSE Following[ends[set]].hs

\* Producers of the arguments' tokens; those read from the file have none.
ArgProducers(d, ends) ==
    {Rest[i].by : i \in {j \in DOMAIN Rest : 1 < j /\ j <= Taken(d, ends)}}

-----------------------------------------------------------------------------
(* macro_expand                                                            *)

\* getnext_expand reads the next token of the file.
GetNext ==
    /\ stack = <<>> /\ text # <<>>
    /\ IF IsName(Head(text).v)
       THEN /\ stack' = <<[ts |-> <<Head(text)>>, r |-> <<>>, sub |-> NoSub]>>
            /\ UNCHANGED out
       ELSE /\ out' = Append(out, Head(text))
            /\ UNCHANGED stack
    /\ text' = Tail(text)
    /\ UNCHANGED <<macros, calls, error>>

\* A token that is no macro's name or hides its macro
Keep ==
    /\ Expanding /\ Top.ts # <<>>
    /\ ~Replaceable(First)
    /\ Retop([Top EXCEPT !.ts = Rest, !.r = Append(@, First)])
    /\ UNCHANGED <<macros, text, out, calls, error>>

ExpandObject ==
    /\ Expanding /\ Top.ts # <<>>
    /\ Replaceable(First)
    /\ ~macros[First.v].fun
    /\ Retop([Top EXCEPT !.ts = Rest,
                         !.sub = Sub(First.v, << >>, First.hs \cup {First.v})])
    /\ UNCHANGED <<macros, text, out, calls, error>>

\* The name of a function-like macro with no bracket after it.  The search
\* for the bracket may have taken a token from the file.
ExpandName ==
    /\ Expanding /\ Top.ts # <<>>
    /\ Replaceable(First)
    /\ macros[First.v].fun /\ ~IsCall
    /\ LET read == IF Rest = <<>> /\ Following # <<>> THEN 1 ELSE 0
       IN  /\ Retop([Top EXCEPT !.ts = Rest \o SubSeq(text, 1, read),
                                !.r = Append(@, First)])
           /\ text' = SubSeq(text, read + 1, Len(text))
    /\ UNCHANGED <<macros, out, calls, error>>

\* Registers the calls from the producers of tokens to m.
Register(m, producers) ==
    calls' = calls \cup {<<p, m>> : p \in producers \ {NoMacro}}

ExpandFunction ==
    /\ Expanding /\ Top.ts # <<>>
    /\ Replaceable(First)
    /\ macros[First.v].fun /\ IsCall
    /\ LET d == macros[First.v]
       IN  \E ends \in [DOMAIN d.formals -> 0 .. Len(Following)] :
           /\ AreEnds(d, ends)
           /\ Register(First.v, {First.by} \cup ArgProducers(d, ends))
           /\ text' = TextAfter(Taken(d, ends))
           /\ IF Gathers(d, ends)
              THEN /\ Retop([Top EXCEPT !.ts = Drop(Taken(d, ends)),
                        !.sub = Sub(First.v, Arguments(d, ends),
                                    (First.hs \cap CloseHides(d, ends)) \cup {First.v})])
                   /\ UNCHANGED error
              ELSE /\ Retop([Top EXCEPT !.ts = Drop(Taken(d, ends))])
                   /\ error' = TRUE
    /\ UNCHANGED <<macros, out>>

\* The outermost activation returns to getnext_expand.
ExpandEnd ==
    /\ Expanding /\ Outermost /\ Top.ts = <<>>
    /\ out' = out \o Top.r
    /\ stack' = <<>>
    /\ UNCHANGED <<macros, text, calls, error>>

-----------------------------------------------------------------------------
(* subst                                                                   *)

Substituting == stack # <<>> /\ Top.sub.on
SubHead == Head(Top.sub.is)
SubTail == Tail(Top.sub.is)
SubStep == Substituting /\ Top.sub.is # <<>>

IsFormal(v) == v \in DOMAIN Top.sub.args
Arg(v) == Top.sub.args[v]

\* The body from is on is left, and os is the output so far.
SubNext(is, os) == Retop([Top EXCEPT !.sub.is = is, !.sub.os = os])

\* glue
Glue(ls, rs) ==
    IF ls = <<>> THEN rs
    ELSE SubSeq(ls, 1, Len(ls) - 1)
            \o PlainSeq(Pasted(ls[Len(ls)].v, Head(rs).v)) \o Tail(rs)

BeforeFormal == SubTail # <<>> /\ IsFormal(Head(SubTail))
BeforePaste == SubTail # <<>> /\ Head(SubTail) = "##"

SubstStringize ==
    /\ SubStep
    /\ SubHead = "#" /\ BeforeFormal
    /\ SubNext(Tail(SubTail),
               Append(Top.sub.os,
                      [v |-> StringLiteral, hs |-> {}, by |-> Top.sub.m]))
    /\ UNCHANGED <<macros, text, out, calls, error>>

\* ## and what follows it; an argument is pasted as it was written.
SubstPaste ==
    /\ SubStep
    /\ SubHead = "##" /\ SubTail # <<>>
    /\ LET right == IF BeforeFormal THEN Arg(Head(SubTail))
                                    ELSE <<Plain(Head(SubTail))>>
       IN  SubNext(Tail(SubTail),
                   IF right = <<>> THEN Top.sub.os ELSE Glue(Top.sub.os, right))
    /\ UNCHANGED <<macros, text, out, calls, error>>

\* gcc: a comma pasted to an optional argument that was not given goes away.
DropsComma ==
    /\ SubHead = "," /\ macros[Top.sub.m].vararg
    /\ BeforePaste /\ Len(SubTail) > 1
    /\ IsFormal(SubTail[2]) /\ Arg(SubTail[2]) = <<>>

SubstComma ==
    /\ SubStep
    /\ DropsComma
    /\ SubNext(Tail(Tail(SubTail)), Top.sub.os)
    /\ UNCHANGED <<macros, text, out, calls, error>>

\* An argument before ##
SubstLeft ==
    /\ SubStep
    /\ IsFormal(SubHead) /\ BeforePaste
    /\ IF Arg(SubHead) # <<>>
       THEN SubNext(SubTail, Top.sub.os \o Arg(SubHead))
       ELSE IF Len(SubTail) > 1 /\ IsFormal(SubTail[2])
       THEN SubNext(Tail(Tail(SubTail)), Top.sub.os \o Arg(SubTail[2]))
       ELSE SubNext(Tail(SubTail), Top.sub.os)
    /\ UNCHANGED <<macros, text, out, calls, error>>

\* Any other argument: its expansion, if it is known already.
SubstKnown ==
    /\ SubStep
    /\ IsFormal(SubHead) /\ ~BeforePaste
    /\ SubHead \in DOMAIN Top.sub.known
    /\ SubNext(SubTail, Top.sub.os \o Top.sub.known[SubHead])
    /\ UNCHANGED <<macros, text, out, calls, error>>

\* Otherwise macro_expand is called with TokenSourceOption::use_supplied,
ArgBegin ==
    /\ SubStep
    /\ IsFormal(SubHead) /\ ~BeforePaste
    /\ SubHead \notin DOMAIN Top.sub.known
    /\ stack' = Append(stack, [ts |-> Arg(SubHead), r |-> <<>>, sub |-> NoSub])
    /\ UNCHANGED <<macros, text, out, calls, error>>

\* and what it returns is kept for the other uses of the argument.
ArgEnd ==
    /\ Expanding /\ ~Outermost /\ Top.ts = <<>>
    /\ LET caller == stack[Len(stack) - 1]
           formal == Head(caller.sub.is)
           known  == [x \in DOMAIN caller.sub.known \cup {formal} |->
                        IF x = formal THEN Top.r ELSE caller.sub.known[x]]
       IN  stack' = Append(SubSeq(stack, 1, Len(stack) - 2),
                           [caller EXCEPT !.sub.is = Tail(@),
                                          !.sub.os = @ \o Top.r,
                                          !.sub.known = known])
    /\ UNCHANGED <<macros, text, out, calls, error>>

SubstToken ==
    /\ SubStep
    /\ ~IsFormal(SubHead) /\ ~DropsComma
    /\ SubHead = "#" => ~BeforeFormal
    /\ SubHead = "##" => SubTail = <<>>
    /\ SubNext(SubTail, Append(Top.sub.os, Plain(SubHead)))
    /\ UNCHANGED <<macros, text, out, calls, error>>

ReplacementFaulty ==                    \* does not hide the macro itself
    [i \in DOMAIN Top.sub.os |->
        [Top.sub.os[i] EXCEPT
            !.hs = @ \cup (Top.sub.hs \ {Top.sub.m}),
            !.by = IF macros[Top.sub.m].fun THEN Top.sub.m ELSE @]]

\* The replacement of sub.m goes back to where its name was.
Replacement ==
    [i \in DOMAIN Top.sub.os |->
        [Top.sub.os[i] EXCEPT
            !.hs = @ \cup Top.sub.hs,
            !.by = IF macros[Top.sub.m].fun THEN Top.sub.m ELSE @]]

SubstEnd ==
    /\ Substituting /\ Top.sub.is = <<>>
    /\ Retop([Top EXCEPT !.ts = Replacement \o @, !.sub = NoSub])
    /\ UNCHANGED <<macros, text, out, calls, error>>

Next ==
    \/ GetNext \/ Keep \/ ExpandObject \/ ExpandName \/ ExpandFunction
    \/ ExpandEnd
    \/ SubstStringize \/ SubstPaste \/ SubstComma \/ SubstLeft
    \/ SubstKnown \/ ArgBegin \/ ArgEnd \/ SubstToken \/ SubstEnd

Done == stack = <<>> /\ text = <<>>

Spec == Init /\ [][Next]_vars

\* One thread that waits for nothing.
FairSpec == Spec /\ WF_vars(Next)

-----------------------------------------------------------------------------
(* Properties                                                              *)

\* The types of the variables: the tables of arguments, and one activation of
\* subst under each activation of macro_expand but the outermost.
IsArgs(args) ==
    DOMAIN args \subseteq Value /\ args \in [DOMAIN args -> Seq(Token)]

IsSub(sub) ==
    /\ sub.m \in DOMAIN macros
    /\ sub.hs \subseteq Value /\ sub.m \in sub.hs
    /\ sub.is \in Seq(Value) /\ sub.os \in Seq(Token)
    /\ IsArgs(sub.args) /\ IsArgs(sub.known)

\* Every activation but the last waits for the expansion of an argument.
Waits(sub) ==
    /\ sub.on /\ sub.is # <<>>
    /\ Head(sub.is) \in DOMAIN sub.args \ DOMAIN sub.known

\* Each activation of macro_expand that is not the last waits in a subst for
\* the value of a formal that was not expanded yet (expanded_args).
TypeOK ==
    /\ DOMAIN macros \subseteq Value /\ macros \in [DOMAIN macros -> Definition]
    /\ text \in Seq(Token) /\ out \in Seq(Token)
    /\ DOMAIN stack = 1 .. Len(stack) /\ Len(stack) \in Nat
    /\ \A k \in DOMAIN stack :
          /\ DOMAIN stack[k] = {"ts", "r", "sub"}
          /\ stack[k].ts \in Seq(Token) /\ stack[k].r \in Seq(Token)
          /\ stack[k].sub.on => IsSub(stack[k].sub)
          /\ k < Len(stack) => Waits(stack[k].sub)
    /\ calls \subseteq Value \X Value
    /\ error \in BOOLEAN

\* A token a function-like macro produced (set_producer at the end of subst)
\* hides that macro wherever it goes, into the arguments of other calls and
\* out of the expansion: no macro ever replaces its own result.
Hides(ts) == \A i \in DOMAIN ts : ts[i].by # NoMacro => ts[i].by \in ts[i].hs
ProducersHide ==
    /\ Hides(text) /\ Hides(out)
    /\ \A k \in DOMAIN stack : Hides(stack[k].ts) /\ Hides(stack[k].r)

\* macro_expand and arg_token register calls from the macro that produced a
\* token to the one that replaces or gathers it: no macro calls itself.
NoSelfCall == \A c \in calls : c[1] # c[2]

\* The loop of macro_expand, which gives subst's result back to itself, always
\* ends, and with it the reading of the text.
Terminates == <>Done

=============================================================================

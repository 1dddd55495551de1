------------------------------ MODULE Prosser ------------------------------
(***************************************************************************)
(* Dave Prosser's algorithm for macro expansion (X3J11/86-196), which the  *)
(* comment of macro_expand names as what it implements.  A token is a      *)
(* record with its value v and its hide set hs.  The algorithm says        *)
(* nothing of calls whose arguments are not complete: a token with value   *)
(* Undefined stands for what comes of them.                                *)
(***************************************************************************)
EXTENDS Integers, Sequences, FiniteSets

CONSTANTS Pasted(_, _), StringLiteral

Undefined == "undefined"
IsDefined(ts) == \A i \in DOMAIN ts : ts[i].v # Undefined

Nesting(ts, k) ==
    Cardinality({i \in 1 .. k : ts[i].v = "("})
        - Cardinality({i \in 1 .. k : ts[i].v = ")"})

\* The bracket that closes the one ts starts with, 0 if there is none.
Closing(ts) ==
    LET ends == {k \in DOMAIN ts : Nesting(ts, k) = 0}
    IN  IF ends = {} THEN 0 ELSE CHOOSE k \in ends : \A j \in ends : k <= j

\* The commas that separate the arguments of the call ts starts with.
RECURSIVE Separators(_, _, _)
Separators(ts, from, most) ==
    LET commas == {k \in from .. Closing(ts) : ts[k].v = "," /\ Nesting(ts, k) = 1}
        first  == CHOOSE k \in commas : \A j \in commas : k <= j
    IN  IF commas = {} \/ most = 0 THEN <<>>
        ELSE <<first>> \o Separators(ts, first + 1, most - 1)

\* The actual arguments; the optional one takes all that is left.
Actuals(ts, d) ==
    LET most == IF d.vararg THEN Len(d.formals) - 1 ELSE Len(ts)
        cuts == <<1>> \o Separators(ts, 2, most) \o <<Closing(ts)>>
    IN  [i \in 1 .. Len(cuts) - 1 |-> SubSeq(ts, cuts[i] + 1, cuts[i + 1] - 1)]

Matches(actuals, d) ==
    \/ Len(actuals) = Len(d.formals)
    \/ d.formals = <<>> /\ actuals = <<<<>>>>
    \/ d.vararg /\ Len(actuals) = Len(d.formals) - 1

Bound(actuals, d) ==
    [x \in {d.formals[i] : i \in DOMAIN d.formals} |->
        LET i == CHOOSE i \in DOMAIN d.formals : d.formals[i] = x
        IN  IF i \in DOMAIN actuals THEN actuals[i] ELSE <<>>]

Paste(ls, rs) ==
    IF ls = <<>> THEN rs ELSE IF rs = <<>> THEN ls ELSE
    LET l  == ls[Len(ls)]
        vs == IF l.v = Undefined THEN <<l.v>> ELSE Pasted(l.v, rs[1].v)
    IN  SubSeq(ls, 1, Len(ls) - 1)
            \o [i \in DOMAIN vs |-> [v |-> vs[i], hs |-> l.hs \cap rs[1].hs]]
            \o Tail(rs)

Hide(hs, ts) == [i \in DOMAIN ts |-> [ts[i] EXCEPT !.hs = @ \cup hs]]

\* subst without the hide set it adds at its end; ap are the actual arguments
\* by formal, and expanded what expand makes of them.
RECURSIVE Subst(_, _, _, _)
Subst(is, ap, expanded, os) ==
    LET h      == Head(is)
        next   == IF Len(is) > 1 THEN is[2] ELSE ""
        after  == IF Len(is) > 1 THEN Tail(Tail(is)) ELSE <<>>
        formal(x) == x \in DOMAIN ap
        literal(x) == <<[v |-> x, hs |-> {}]>>
        go(left, out) == [is |-> left, os |-> out]
        step ==
            CASE h = "#" /\ formal(next) ->
                  go(after, os \o literal(StringLiteral))
              [] h = "##" /\ Len(is) > 1 ->
                  go(after, Paste(os, IF formal(next) THEN ap[next]
                                                      ELSE literal(next)))
              [] h = "," /\ next = "##" /\ after # <<>> /\ formal(Head(after))
                    /\ ap[Head(after)] = <<>> ->
                  go(Tail(after), os)
              [] formal(h) /\ next = "##" /\ ap[h] # <<>> ->
                  go(Tail(is), os \o ap[h])
              [] formal(h) /\ next = "##" /\ ap[h] = <<>> ->
                  IF after # <<>> /\ formal(Head(after))
                  THEN go(Tail(after), os \o ap[Head(after)])
                  ELSE go(after, os)
              [] formal(h) /\ next # "##" -> go(Tail(is), os \o expanded[h])
              [] OTHER -> go(Tail(is), os \o literal(h))
    IN  IF is = <<>> THEN os ELSE Subst(step.is, ap, expanded, step.os)

Keeps(T, ts) ==
    LET h == Head(ts)
    IN  \/ h.v \notin DOMAIN T \/ h.v \in h.hs
        \/ T[h.v].fun /\ (Len(ts) = 1 \/ ts[2].v # "(")

\* expand(TS) for the macros T
RECURSIVE Expand(_, _)
Expand(T, ts) ==
    LET h     == Head(ts)
        rest  == Tail(ts)
        fun   == T[h.v].fun
        close == Closing(rest)
        complete == fun => close # 0 /\ Matches(Actuals(rest, T[h.v]), T[h.v])
        ap    == IF fun THEN Bound(Actuals(rest, T[h.v]), T[h.v]) ELSE << >>
        hs    == {h.v} \cup IF fun THEN h.hs \cap rest[close].hs ELSE h.hs
        after == IF fun THEN SubSeq(rest, close + 1, Len(rest)) ELSE rest
        expanded == [x \in DOMAIN ap |-> Expand(T, ap[x])]
    IN  IF ts = <<>> THEN <<>>
        ELSE IF Keeps(T, ts) THEN <<h>> \o Expand(T, rest)
        ELSE IF ~complete THEN <<[v |-> Undefined, hs |-> {}]>>
        ELSE Expand(T, Hide(hs, Subst(T[h.v].body, ap, expanded, <<>>)) \o after)

=============================================================================

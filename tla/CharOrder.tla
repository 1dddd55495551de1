----------------------------- MODULE CharOrder -----------------------------
(***************************************************************************)
(* What character input promises: translation phases 1 and 2 of C, with    *)
(* return-newline for a newline after a backslash, and the text of an      *)
(* included file in the place of its inclusion, ended by a newline.        *)
(***************************************************************************)
EXTENDS Integers, Sequences

CONSTANTS File, NL, CR, EOF, Cookie

VARIABLES
    text,       \* what the files hold
    trigraphs,  \* whether ??= and its like are replaced
    open,       \* [fi, at] of the files being read, the current one last; at
                \* is where the next character that counts begins
    out         \* the characters read so far, and the ends of units

Stands == [x \in {"=", "/", "'", "(", ")", "!", "<", ">", "-"} |->
    CASE x = "=" -> "#" [] x = "/" -> "\\" [] x = "'" -> "^" [] x = "(" -> "["
      [] x = ")" -> "]" [] x = "!" -> "|" [] x = "<" -> "{" [] x = ">" -> "}"
      [] x = "-" -> "~"]

TrigraphAt(t, i) ==
    /\ trigraphs /\ i + 2 <= Len(t)
    /\ t[i] = "?" /\ t[i + 1] = "?" /\ t[i + 2] \in DOMAIN Stands

Inside(t, i) == \E k \in {1, 2} : i > k /\ TrigraphAt(t, i - k)
ValueAt(t, i) == IF TrigraphAt(t, i) THEN Stands[t[i + 2]] ELSE t[i]
After(t, i) == IF TrigraphAt(t, i) THEN i + 3 ELSE i + 1

\* The last character of the splice that begins at i, or 0.
SpliceEnd(t, i) ==
    LET n == After(t, i)
    IN  IF Inside(t, i) \/ ValueAt(t, i) # "\\" \/ n > Len(t) THEN 0
        ELSE IF t[n] = NL THEN n
        ELSE IF t[n] = CR /\ n < Len(t) /\ t[n + 1] = NL THEN n + 1
        ELSE 0

Counts(t, i) ==
    /\ ~Inside(t, i)
    /\ \A j \in 1 .. i : SpliceEnd(t, j) < i

\* The second of two question marks, and a return after a backslash, are lost
\* at the end of a file: putback fails once the end has been met.
Lost(t, i) ==
    /\ i = Len(t) /\ i > 1
    /\ \/ trigraphs /\ t[i] = "?" /\ t[i - 1] = "?"
       \/ t[i] = CR /\ \E j \in 1 .. i - 1 :
            ~Inside(t, j) /\ ValueAt(t, j) = "\\" /\ After(t, j) = i
    /\ ~Inside(t, i - 1) \/ t[i] = CR

\* Where the next character that counts begins in f, from i on.
NextAt(f, i) ==
    LET t == text[f]
        s == {j \in i .. Len(t) : Counts(t, j) /\ ~Lost(t, j)}
    IN  IF s = {} THEN Len(t) + 1 ELSE CHOOSE j \in s : \A k \in s : j <= k

Current == open[Len(open)]
Finished == Current.at > Len(text[Current.fi])

\* Whether what was read ends with a newline; the end of a unit and the mark of
\* a yacc file are no characters.
AtLineStart ==
    \E i \in DOMAIN out :
        /\ out[i].val = NL
        /\ \A j \in DOMAIN out : j > i => out[j].val \in {EOF, Cookie}

Init ==
    /\ open \in {<<[fi |-> f, at |-> NextAt(f, 1)]>> : f \in File}
    /\ out = <<>>

Take ==
    /\ ~Finished
    /\ LET f == Current.fi
           i == Current.at
       IN  /\ out' = Append(out, [val |-> ValueAt(text[f], i), fi |-> f, pos |-> i])
           /\ open' = [open EXCEPT ![Len(open)].at = NextAt(f, After(text[f], i))]

\* What has no place in the file is at its end, or nowhere.
Past == {-1, Len(text[Current.fi]) + 1}
Made(v) == {[val |-> v, fi |-> Current.fi, pos |-> p] : p \in Past}

EndLine ==
    /\ Finished /\ ~AtLineStart
    /\ \E x \in Made(NL) : out' = Append(out, x)
    /\ UNCHANGED open

Enter ==
    /\ \E f \in File :
         /\ open' = Append(open, [fi |-> f, at |-> NextAt(f, 1)])
         /\ \/ UNCHANGED out
            \/ out' = Append(out, [val |-> Cookie, fi |-> f, pos |-> 0])

Leave ==
    /\ Finished /\ AtLineStart /\ Len(open) > 1
    /\ open' = SubSeq(open, 1, Len(open) - 1)
    /\ UNCHANGED out

EndUnit ==
    /\ Finished /\ AtLineStart
    /\ \E x \in Made(EOF) : out' = Append(out, x)
    /\ UNCHANGED open

Next == (Take \/ EndLine \/ Enter \/ Leave \/ EndUnit) /\ UNCHANGED <<text, trigraphs>>

Spec == Init /\ [][Next]_<<text, trigraphs, open, out>>

=============================================================================

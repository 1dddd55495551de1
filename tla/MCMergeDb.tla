----------------------------- MODULE MCMergeDb -----------------------------
(***************************************************************************)
(* Instances of MergeDb for TLC, and what a merge promises: the result is  *)
(* the database that one analysis of both shards would have written.       *)
(*                                                                         *)
(* A shard reads some words and finds some of them to be the same name;    *)
(* its database is then fixed, except for the order of its rows: each      *)
(* class comes first in some order, and each member first in its class.    *)
(***************************************************************************)
EXTENDS MergeDb

\* A word of the files, with what each shard would say of it.
Word(o, text, a, b) ==
    [tokid |-> <<"f", o>>, text |-> text,
     attached |-> a, original |-> b]

CharsOf(w) == {Advance(w.tokid, k - 1) : k \in DOMAIN w.text}
Spell(ws) == FlattenSeq([i \in DOMAIN ws |-> CharsFrom(ws[i].tokid, Len(ws[i].text))])
Text(words, c) ==
    LET w == CHOOSE x \in words : c \in CharsOf(x)
    IN  w.text[c[2] - w.tokid[2] + 1]

Shared(c, d, blocks) ==
    LET two == {bl \in blocks : c \in bl \/ d \in bl}
    IN  (blocks \ two) \cup {UNION two}

\* The characters of words, in blocks of those that pairs of tokens, written
\* as sequences of words, make the same.
Blocks(words, pairs) ==
    FoldLeft(LAMBDA bs, p :
                LET a == Spell(p[1]) b == Spell(p[2])
                IN  FoldLeft(LAMBDA cs, i : Shared(a[i], b[i], cs), bs,
                             [i \in DOMAIN a |-> i]),
             {{c} : c \in UNION {CharsOf(w) : w \in words}},
             SetToSeq(pairs))

\* The classes of a program of these words and tokens: words as [word, attr,
\* project] that say where an attribute comes from.
Classes_(said, pairs) ==
    LET words   == {s.word : s \in said}
        blocks  == Blocks(words, pairs)
        heads   == {w.tokid : w \in words}
        starts  == {bl \in blocks : bl \cap heads # {}}
        initial == UNION starts
        all     == UNION blocks
        length(c) == CHOOSE l \in 1 .. MaxName :
            /\ Advance(c, l) \notin all \ initial
            /\ \A k \in 1 .. l - 1 : Advance(c, k) \in all \ initial
        class(bl) ==
            LET c    == CHOOSE x \in bl : TRUE
                runs == {Advance(m, k) : m \in bl, k \in 0 .. length(c) - 1}
                by   == {s \in said : CharsOf(s.word) \cap runs # {}}
            IN  [members  |-> bl,
                 name     |-> [i \in 1 .. length(c) |->
                                  Text(words, Advance(c, i - 1))],
                 attr     |-> {s.attr : s \in by},
                 projects |-> {s.project : s \in by}]
    IN  {class(bl) : bl \in starts}

\* The parts of the name of a function, given the classes.
Parts(token, classes) ==
    LET heads == UNION {c.members : c \in classes}
        cs    == FlattenSeq([i \in DOMAIN token |->
                    CharsFrom(token[i].tokid, Len(token[i].text))])
        at    == SelectSeq(cs, LAMBDA c : c \in heads)
        len(c) == Len((CHOOSE x \in classes : c \in x.members).name)
    IN  [i \in DOMAIN at |-> [tokid |-> at[i], len |-> len(at[i])]]

Said(side, proj, words) ==
    {[word |-> w, attr |-> w[side], project |-> proj] : w \in words}

Rotations(s) == {SubSeq(s, i, Len(s)) \o SubSeq(s, 1, i - 1) : i \in DOMAIN s}
Orders(set) ==
    LET s == SetToSeq(set) IN Rotations(s) \cup Rotations(Reverse(s))

\* Each member of a class first, the same choice of position in every class.
MemberOrders(classes) ==
    {[c \in classes |-> LET s == SetToSeq(c.members)
                            k == (i % Len(s)) + 1
                        IN  SubSeq(s, k, Len(s)) \o SubSeq(s, 1, k - 1)]
        : i \in 0 .. 2}

Row(c, members) ==
    [members |-> members, len |-> Len(c.name), name |-> c.name,
     attr |-> c.attr, projects |-> c.projects]

\* The databases of a shard, one for each order of the rows.
Databases(side, proj, words, pairs, functions) ==
    LET said    == Said(side, proj, words)
        classes == Classes_(said, pairs)
        known   == SetToSeq({f \in functions : Range(f.token) \subseteq words})
    IN  {[classes   |-> [i \in DOMAIN order |-> Row(order[i], first[order[i]])],
          functions |-> [i \in DOMAIN known |->
                            [name  |-> known[i].name, token |-> known[i].token,
                             parts |-> Parts(known[i].token, classes)]],
          said |-> said, pairs |-> pairs]
            : order \in Orders(classes), first \in MemberOrders(classes)}

\* One order is enough for the attached database, whose classes are rebuilt
\* as they were.
Some(set) == {CHOOSE d \in set : TRUE}

-----------------------------------------------------------------------------
(* Instances: ab in three places, once pasted from a and b; and abc, whole *)
(* and pasted in two ways.                                                 *)

W1 == Word(0, <<"a", "b">>, "is_macro", "is_ordinary")
W2 == Word(10, <<"a", "b">>, "is_macro", "is_typedef")
A == Word(20, <<"a">>, "is_suetag", "is_ordinary")
B == Word(30, <<"b">>, "is_label", "is_label")
AB == <<A, B>>

X == Word(0, <<"a", "b", "c">>, "is_macro", "is_ordinary")
AB2 == Word(10, <<"a", "b">>, "is_macro", "is_typedef")
C == Word(20, <<"c">>, "is_label", "is_ordinary")
A2 == Word(30, <<"a">>, "is_suetag", "is_ordinary")
BC == Word(40, <<"b", "c">>, "is_enumeration", "is_lscope")

\* Two functions, and one that a macro generated from the same word as the
\* first under another name.
Functions == {[token |-> <<W1>>, name |-> "ab"], [token |-> AB, name |-> "ab"],
              [token |-> <<W1>>, name |-> "ab_t"]}

\* What a shard may have read, [words, pairs, functions].
Readings ==
    {[words |-> words, pairs |-> pairs, functions |-> Functions] :
        words \in {{W1, W2}, {W1, A, B}, {W2, A, B}, {W1, W2, A, B}},
        pairs \in SUBSET {<< <<W1>>, <<W2>> >>, << <<W1>>, AB >>, << <<W2>>, AB >>}}

Misaligned ==
    {[words |-> words, pairs |-> pairs, functions |-> {[token |-> <<A2, BC>>, name |-> "abc"]}] :
        words \in {{X, AB2, C}, {X, A2, BC}, {X, AB2, C, A2, BC}},
        pairs \in SUBSET {<< <<X>>, <<AB2, C>> >>, << <<X>>, <<A2, BC>> >>,
                          << <<AB2, C>>, <<A2, BC>> >>}}

Sensible(readings) ==
    {r \in readings : \A p \in r.pairs :
        Range(p[1]) \cup Range(p[2]) \subseteq r.words}

MCInput ==
    UNION {
        {[attached |-> a, original |-> o] :
            a \in Some(Databases("attached", "p", r.words, r.pairs, r.functions)),
            o \in Databases("original", "q", s.words, s.pairs, s.functions)}
        : <<r, s>> \in (Sensible(Readings) \X Sensible(Readings))
                 \cup (Sensible(Misaligned) \X Sensible(Misaligned))}

MCFile == {"f", "-f"}
MCNegative == {"-f"}
MCTwin == [f \in MCFile |-> IF f = "f" THEN "-f" ELSE "f"]
MCClassId == 1 .. 24

-----------------------------------------------------------------------------
(* Properties                                                              *)

\* The result of the merge in the form of Classes_.
Result ==
    {[members  |-> {r.tokid : r \in {x \in tokens : x.eid = i.eid}},
      name     |-> i.name, attr |-> i.attr,
      projects |-> {p[2] : p \in {x \in idproj : x[1] = i.eid}}] : i \in ids}

\* Merging the databases of two shards gives the database of one analysis of
\* both: the same classes with the same members and names, every class with
\* the attributes and the projects that either shard gave to any part of it,
\* and a row of ids for each class that tokens mentions.
JoinExact ==
    phase = "done" =>
        /\ Result = Classes_(Attached.said \cup Original.said,
                             Attached.pairs \cup Original.pairs)
        /\ {r.eid : r \in tokens} = {i.eid : i \in ids}
        /\ \A r \in tokens : Cardinality({x \in tokens : x.tokid = r.tokid}) = 1

\* Once the original database was read again a Tokid and its twin are in the
\* same class, and the classes that twinning adds for twins that had none
\* hide no class: whatever check_ec or write_eclasses takes is right.
TwinsAgree ==
    phase \notin {"add attached", "add original", "merge"} =>
        \A t \in DOMAIN tm : Entry(twin(t)) =>
            /\ phase = "functions" => tm[t] = tm[twin(t)]
            /\ check_ec(untwin(t)) = tm[untwin(t)]

\* The two growing tokens of merge_eclasses_original always meet at some
\* length, and the classes then match: neither the warning about a missing
\* class nor the assertion of merge_into is ever reached.
NeverMissing ==
    /\ At("merge") /\ BothFound => Common # {}
    /\ unify.pc # "failed"

Function(f) ==
    LET x == IF f[1] = "attached" THEN Attached.functions[f[2]]
             ELSE Original.functions[f[2]]
    IN  <<x.token, x.name>>

\* A function is never taken for another: equal identifiers were given to
\* functions of the same name at the same place only, macro-generated
\* functions that share a file and offset included.
FunctionsApart ==
    \A f, g \in DOMAIN fnmap : fnmap[f] = fnmap[g] => Function(f) = Function(g)

\* What the merge looks up is there and right.
LookupsRight == TwinsAgree /\ NeverMissing /\ FunctionsApart

\* What merging two databases gives is that of one analysis, and nothing that it
\* looks up on the way is missing or another's.
MergeExact == JoinExact /\ LookupsRight

\* "Map old to new functionids using the canonical Tokid representation to
\* keep the map key unique": a function that both databases know by the same
\* token and name has one identifier in the merged one.
FunctionOnce ==
    \A f, g \in DOMAIN fnmap : Function(f) = Function(g) => fnmap[f] = fnmap[g]

=============================================================================

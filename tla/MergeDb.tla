------------------------------ MODULE MergeDb ------------------------------
(***************************************************************************)
(* Merging two databases of identifiers: cscout -M (cscout.cpp and         *)
(* dbtoken.cpp) on the tables that csmerge/eclasses.sql hands to it.       *)
(*                                                                         *)
(* A large workspace is analysed in shards, each into its own database.    *)
(* The same file may appear in many shards, with its names split into      *)
(* different classes in each.  The classes of the attached database are    *)
(* rebuilt first.  Those of the original one are then rebuilt beside them, *)
(* at twin Tokids, whose file identifier is negated, and every pair of     *)
(* twins is unified as two tokens of a program are.  Functions,            *)
(* identifiers and projects are then read again and written in terms of    *)
(* the classes that resulted.                                              *)
(*                                                                         *)
(* The rows of one class, which the query delivers together, are read in   *)
(* one step; the rows of the second reading one at a time.                 *)
(***************************************************************************)
EXTENDS EClass, SequencesExt

CONSTANTS
    Negative,   \* the files with a negated identifier
    Twin,       \* Twin[f], the file with the negated identifier of f
    Input,      \* pairs of databases [attached, original]
    MaxName     \* the length of the longest name

\* A database: classes is the join of tokens and ids in the order of eid, and
\* functions that of functionid and functions.  The members of a class and
\* the classes themselves come in no specified order.
ASSUME MergeAssumption ==
    /\ Negative \subseteq File
    /\ Twin \in [File -> File]
    /\ \A f \in File : Twin[Twin[f]] = f /\ (f \in Negative <=> Twin[f] \notin Negative)
    /\ Project = {"csmerge"}
    /\ MaxName \in Nat

VARIABLES
    job,        \* the databases that are merged
    phase,      \* the pass that runs
    row,        \* the next row of the file it reads
    parts,      \* parts of the function that is being read
    fnid,       \* map from parts and name to the function's new identifier
    fnmap,      \* functionid_to_global_map
    functionid, \* the table of the function's parts
    tokens,     \* the table that write_eclasses wrote
    ids,        \* the table that write_ids wrote
    idproj      \* the table that read_write_idproj wrote

out == <<parts, fnid, fnmap, functionid, tokens, ids, idproj>>
mvars == <<vars, job, phase, row, out>>

-----------------------------------------------------------------------------
(* Tokids and their twins                                                  *)

twin(t) == <<Twin[t[1]], t[2]>>
untwin(t) == IF t[1] \in Negative THEN twin(t) ELSE t

Entry(t) == t \in DOMAIN tm

\* The class of t or of its twin, the shorter of the two.
check_ec(t) ==
    IF ~Entry(twin(t)) \/ (Entry(t) /\ RunLen(t) <= RunLen(twin(t)))
    THEN tm[t]
    ELSE tm[twin(t)]

HasClass(t) == Entry(t) \/ Entry(twin(t))

\* Where the walk over classes that starts at t and goes on at next ends.
Ends(t, Step(_), Known(_)) ==
    LET at[k \in 0 .. MaxName] ==
            \/ k = 0
            \/ \E j \in 0 .. k - 1 : /\ at[j]
                                     /\ Known(Advance(t, j))
                                     /\ j + Step(Advance(t, j)) = k
    IN  {k \in 1 .. MaxName : at[k]}

\* Lengths that a token put together from the classes at t can have.
Lengths(t) == Ends(t, RunLen, Entry)

\* The positions in a name of length l that the walk of read_ids and its like
\* stops at, or those before the first missing class.
Walk(t, l) ==
    LET len(s) == ec[check_ec(s)].len
    IN  {k \in {0} \cup Ends(t, len, HasClass) :
            k < l /\ HasClass(Advance(t, k))}

CharsFrom(t, l) == [i \in 1 .. l |-> Advance(t, i - 1)]

-----------------------------------------------------------------------------
(* The passes and their files                                              *)

Rows(classes) == FlattenSeq([i \in DOMAIN classes |-> classes[i].members])

\* The rows of functionid with the function each belongs to; the last row of
\* a function completes it.
FunctionRows(functions) ==
    FlattenSeq([i \in DOMAIN functions |->
        [j \in DOMAIN functions[i].parts |->
            [functionid |-> i, name |-> functions[i].name,
             part |-> functions[i].parts[j],
             last |-> j = Len(functions[i].parts)]]])

Attached == job.attached
Original == job.original

\* What the current pass reads, in the order of merge_tokens.
File_ ==
    CASE phase = "add attached"  -> Attached.classes
      [] phase = "add original"  -> Original.classes
      [] phase = "merge"         -> Rows(Original.classes)
      [] phase = "functions"     -> FunctionRows(Attached.functions)
      [] phase = "twinning"      -> FunctionRows(Original.functions)
      [] phase = "read ids"      -> Original.classes \o Attached.classes
      [] phase = "write ids"     -> Original.classes \o Attached.classes
      [] phase = "idproj"        -> Attached.classes \o Original.classes
      [] OTHER                   -> <<>>

NextPhase ==
    ("add attached" :> "add original") @@ ("add original" :> "merge")
    @@ ("merge" :> "functions") @@ ("functions" :> "twinning")
    @@ ("twinning" :> "read ids") @@ ("read ids" :> "write ids")
    @@ ("write ids" :> "idproj") @@ ("idproj" :> "done")

At(p) == phase = p /\ unify.pc = "idle" /\ row <= Len(File_)
Item == File_[row]
NextRow == row' = row + 1 /\ UNCHANGED <<job, phase>>

MergeInit ==
    /\ Init
    /\ job \in Input
    /\ phase = "add attached"
    /\ row = 1
    /\ parts = {} /\ fnid = << >> /\ fnmap = << >> /\ functionid = {}
    /\ tokens = {} /\ ids = {} /\ idproj = {}

\* new Eclass(first member, len) and add_tokid for the other members.
NewClass(members, len) ==
    /\ MemoryLeft
    /\ tm' = Mapped(members, Fresh)
    /\ ec' = (Fresh :> [len |-> len, members |-> members,
                        attr |-> Inherent(members, FALSE)]) @@ ec

\* add_eclasses_attached: the rows of a class.
AddAttached ==
    /\ At("add attached")
    /\ NewClass(Range(Item.members), Item.len)
    /\ NextRow
    /\ UNCHANGED <<project, unify, out>>

\* Whether the class that first belongs to in the attached database will do
\* for an original class of length len.
SameClass(first, len) == Entry(first) /\ RunLen(first) = len

\* add_eclasses_original: the first row of a class looks for the same class
\* among the attached ones, and the other rows are added to what it found.
AddOriginal ==
    LET first == Item.members[1]
        rest  == {twin(t) : t \in Range(Item.members) \ {first}}
    IN  /\ At("add original")
        /\ IF SameClass(first, Item.len)
           THEN /\ tm' = Mapped(rest, tm[first])
                /\ ec' = [ec EXCEPT ![tm[first]].members = @ \cup rest]
           ELSE NewClass({twin(t) : t \in Range(Item.members)}, Item.len)
        /\ NextRow
        /\ UNCHANGED <<project, unify, out>>

\* merge_eclasses_original: a row both of whose twins have a class.
BothFound == Entry(Item) /\ Entry(twin(Item))

\* The lengths at which the growing tokens can meet.
Common == Lengths(Item) \cap Lengths(twin(Item))

Shortest(lengths) == CHOOSE l \in lengths : \A k \in lengths : l <= k

MergeRowSkip ==
    /\ At("merge") /\ ~BothFound
    /\ NextRow
    /\ UNCHANGED <<vars, out>>

MergeRowFaulty ==               \* unifies the two classes as they are
    /\ At("merge") /\ BothFound
    /\ LET l == RunLen(twin(Item))
       IN  UnifyBegin(CharsFrom(twin(Item), l), CharsFrom(Item, l))
    /\ NextRow
    /\ UNCHANGED out

\* When the two never meet, the warning about a missing class is followed by
\* a use of that class: a crash, after which there is no step.
MergeRow ==
    /\ At("merge") /\ BothFound /\ Common # {}
    /\ LET l == Shortest(Common)
       IN  UnifyBegin(CharsFrom(twin(Item), l), CharsFrom(Item, l))
    /\ NextRow
    /\ UNCHANGED out

Unifying == UnifyStep /\ UNCHANGED <<job, phase, row, out>>

-----------------------------------------------------------------------------
(* The other tables                                                        *)

\* Tokid::constituents of a part, on the map as it is afterwards.
Constituents(t, l) ==
    {[tokid |-> s, len |-> RunLen(s)] :
        s \in {Advance(t, k) : k \in 0 .. l - 1} \cap DOMAIN tm}

\* complete_functionid: the key and the rows of a function that has all its parts.
Complete(db, all) ==
    LET key == <<Item.name, {[p EXCEPT !.tokid = untwin(@)] : p \in all}>>
        id  == IF key \in DOMAIN fnid THEN fnid[key]
               ELSE Cardinality(DOMAIN fnid) + 1
        len(t) == ec'[check_ec(t)'].len
    IN  /\ fnid' = (key :> id) @@ fnid
        /\ fnmap' = (<<db, Item.functionid>> :> id) @@ fnmap
        /\ functionid' = functionid \cup
              IF key \in DOMAIN fnid THEN {}
              ELSE {[id |-> id, tokid |-> p.tokid, len |-> len(p.tokid)]
                        : p \in key[2]}

\* read_functionid: a row, at the twin Tokid when twinning; a part with no
\* class gets one.
FunctionRow(p, db, start) ==
    LET len     == Item.part.len
        covered == Covered(start, len)
        created == IF covered = len THEN {}
                   ELSE {[tokid |-> Advance(start, covered), len |-> len - covered]}
        all     == parts \cup Constituents(start, covered) \cup created
    IN  /\ At(p)
        /\ IF created = {}
           THEN UNCHANGED <<tm, ec>>
           ELSE NewClass({Advance(start, covered)}, len - covered)
        /\ IF Item.last
           THEN Complete(db, all) /\ parts' = {}
           ELSE parts' = all /\ UNCHANGED <<fnid, fnmap, functionid>>
        /\ NextRow
        /\ UNCHANGED <<project, unify, tokens, ids, idproj>>

\* write_eclasses
Output ==
    {[tokid |-> untwin(t), eid |-> tm[t]] :
        t \in {s \in DOMAIN tm : s[1] \in Negative => ~Entry(twin(s))}}

PhaseEnd ==
    /\ phase \in DOMAIN NextPhase /\ unify.pc = "idle" /\ row > Len(File_)
    /\ phase' = NextPhase[phase]
    /\ row' = 1
    /\ tokens' = IF phase = "twinning" THEN Output ELSE tokens
    /\ UNCHANGED <<vars, job, parts, fnid, fnmap, functionid, ids, idproj>>

\* read_ids: a row gives the attributes of a class and names one member.
ReadId(t) ==
    /\ At("read ids") /\ t \in Range(Item.members)
    /\ ec' = Marked({check_ec(Advance(t, k)) : k \in Walk(t, Item.len)}, Item.attr)
    /\ NextRow
    /\ UNCHANGED <<tm, project, unify, out>>

\* write_ids and dump_id, which writes a class once.
WriteId(t) ==
    LET class(k) == check_ec(Advance(t, k))
        name(k)  == SubSeq(Item.name, k + 1, k + ec[class(k)].len)
        new      == {k \in Walk(t, Item.len) : \A r \in ids : r.eid # class(k)}
    IN  /\ At("write ids") /\ t \in Range(Item.members)
        /\ ids' = ids \cup
              {[eid |-> class(k), name |-> name(k),
               attr |-> ec[class(k)].attr \ Project]
                  : k \in {j \in new : \A i \in new : class(i) = class(j) => j <= i}}
        /\ NextRow
        /\ UNCHANGED <<vars, parts, fnid, fnmap, functionid, tokens, idproj>>

\* read_write_idproj: the projects of a class.
IdProj(t) ==
    /\ At("idproj") /\ t \in Range(Item.members)
    /\ idproj' = idproj \cup
          {<<check_ec(Advance(t, k)), p>> :
              k \in Walk(t, Item.len), p \in Item.projects}
    /\ NextRow
    /\ UNCHANGED <<vars, parts, fnid, fnmap, functionid, tokens, ids>>

MergeNext ==
    \/ AddAttached
    \/ AddOriginal
    \/ MergeRowSkip
    \/ MergeRow
    \/ Unifying
    \/ FunctionRow("functions", "attached", Item.part.tokid)
    \/ FunctionRow("twinning", "original", twin(Item.part.tokid))
    \/ \E t \in DOMAIN tm \cup {twin(s) : s \in DOMAIN tm} :
          ReadId(t) \/ WriteId(t) \/ IdProj(t)
    \/ PhaseEnd

MergeSpec == MergeInit /\ [][MergeNext]_mvars

=============================================================================

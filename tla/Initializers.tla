---------------------------- MODULE Initializers ----------------------------
(***************************************************************************)
(* Initializers (initializer.cpp, parse.y): which element of the object    *)
(* each expression initializes, and which member each designator names.    *)
(* The code follows the text with a stack of the elements being filled;    *)
(* compound literals and statement expressions within an initializer save  *)
(* the stack and start another.                                            *)
(*                                                                         *)
(* The text is read one brace, designator or expression at a time, as long *)
(* as it is C (6.7.9): cursor holds, for each open brace, the object it    *)
(* initializes and the path to the subobject that comes next.              *)
(***************************************************************************)
EXTENDS Types

CONSTANT MaxItems   \* bound: braces, designators and expressions

ASSUME InitializersAssumption == MaxItems \in Nat

VARIABLES
    elements,   \* element_stack
    upcoming,   \* upcoming_element
    contexts,   \* saved_stacks, each with the cursor
    phase,      \* what has been read: "start", "declared", "list" (the next
                \* is an element), "designator", "end", "value"
    aim,        \* history: the type of the object declared
    cursor,     \* history: the braces, each [c, at, parts, colon]
    placed,     \* history: pairs of what the last item was taken for and is
    faults,     \* history: errors reported
    items       \* read so far

ivars == <<elements, upcoming, contexts, phase, aim, cursor, placed, faults, items>>

\* Tincomplete::get_complete_type
Resolved(t) == IF t.k = "incomplete" /\ t.tag \in DOMAIN tag THEN tag[t.tag].t ELSE t

\* Type::member of a position, get_initializer_elements, get_indexed_elements
MemberAt(t, n) ==
    LET of == Resolved(t)
    IN  CASE of.k = "su" -> IF n < Len(of.ordinal) THEN of.ordinal[n + 1].t ELSE Undeclared
          [] of.k = "array" -> of.of
          [] OTHER -> IF n = 0 THEN of ELSE Undeclared
InitializerElements(t) ==
    LET of == Resolved(t)
    IN  CASE of.k = "su" -> IF of.union THEN 1 ELSE Len(of.ordinal)
          [] of.k = "array" -> of.n
          [] OTHER -> 1
IndexedElements(t) ==
    IF Resolved(t).k = "su" THEN Len(Resolved(t).ordinal) ELSE InitializerElements(t)

Element(t, braced) ==
    [pos |-> 0, end |-> IndexedElements(t), space |-> InitializerElements(t), t |-> t,
     braced |-> braced, designated |-> FALSE]

AtTop(es, e) == Append(Front(es), e)
Next1(es) == AtTop(es, [Last(es) EXCEPT !.pos = @ + 1])

\* clear_used_elements
RECURSIVE ClearUsed(_)
ClearUsed(es) ==
    IF es = <<>> THEN es
    ELSE LET top == Last(es)
         IN  IF /\ Len(es) > 1 /\ ~top.designated /\ ~top.braced
                /\ top.space # Unknown /\ top.pos >= top.space
             THEN ClearUsed(Next1(Front(es)))
             ELSE AtTop(es, [top EXCEPT !.designated = FALSE])

\* The element that an expression of type u fits, pushing those it is in
Fits(t, u) ==
    \/ t.k = "su" /\ u.k = "su" /\ InitializerElements(t) = InitializerElements(u)
    \/ IsPtr(u) /\ IsBasic(u.of, "char") /\ IsPtr(t) /\ IsBasic(t.of, "char")
    \/ u.k # "su" /\ t.k \notin {"su", "array"}
RECURSIVE Fitted(_, _)
Fitted(es, u) ==
    LET t == MemberAt(Last(es).t, Last(es).pos)
    IN  IF Fits(t, u) \/ t.k \notin {"su", "array"}
        THEN [es |-> es, fits |-> Fits(t, u)]
        ELSE Fitted(Append(es, Element(t, FALSE)), u)

\* move_top_pos_recursive: <<>> when there is no such member
RECURSIVE MovedTo(_, _)
MovedTo(es, n) ==
    LET of == Resolved(Last(es).t).ordinal
        within(i) == MovedTo(Append(es, Element(of[i].t, FALSE)), n)
        hits == {i \in DOMAIN of : IF of[i].n = "" THEN within(i) # <<>> ELSE of[i].n = n}
        i == Min(hits)
    IN  IF hits = {} THEN <<>>
        ELSE IF of[i].n = "" THEN within(i)
        ELSE AtTop(es, [Last(es) EXCEPT !.pos = i - 1, !.designated = TRUE])

RECURSIVE Unbraced(_)       \* pop the unbraced elements
Unbraced(es) == IF es = <<>> \/ Last(es).braced THEN es ELSE Unbraced(Front(es))

\* The positions from the innermost brace to the top
PathOf(es) == [i \in 1 .. Len(es) - Len(Unbraced(es)) + 1 |-> es[Len(Unbraced(es)) + i - 1].pos]

-----------------------------------------------------------------------------
(* The language                                                            *)

CLength(t) == CASE t.k = "array" -> t.n
                [] t.k = "su" -> Len(lang.content[t.id].list)
                [] OTHER -> 1
CInitialized(t) == IF t.k = "su" /\ lang.content[t.id].union THEN 1 ELSE CLength(t)
CMemberAt(t, i) == CASE t.k = "array" -> t.of
                     [] t.k = "su" -> lang.content[t.id].list[i + 1].t
                     [] OTHER -> t
CAt(t, path) == FoldLeft(CMemberAt, t, path)

\* The subobject after the one at path, <<>> when it was the last
RECURSIVE CAfter(_, _)
CAfter(t, path) ==
    IF path = <<>> THEN <<>>
    ELSE IF Last(path) + 1 < CInitialized(CAt(t, Front(path)))
         THEN Append(Front(path), Last(path) + 1)
    ELSE CAfter(t, Front(path))

CAggregate(t) == t.k \in {"su", "array"}
CString(v) == v.t = ArrayOf(Basic("char"), Unknown)
CCharArray(t) == t.k = "array" /\ t.of.k = "basic" /\ t.of.b = "char"
CFits(t, v) ==
    IF v.c.k = "su" THEN t = v.c
    ELSE IF CString(v) THEN CCharArray(t) \/ t.k = "pointer"
    ELSE ~CAggregate(t) /\ t.k # "function"

\* Where an expression goes that comes when path is next; <<>>: nowhere
RECURSIVE CPlace(_, _, _)
CPlace(t, path, v) ==
    LET at == CAt(t, path)
    IN  IF CFits(at, v) THEN path
        ELSE IF CAggregate(at) /\ CLength(at) > 0 THEN CPlace(t, Append(path, 0), v)
        ELSE <<>>

\* A structure on the way that the code would take for the expression's
RECURSIVE CMistakable(_, _, _)
CMistakable(t, path, v) ==
    LET at == CAt(t, path)
    IN  ~CFits(at, v) /\ CAggregate(at) /\ CLength(at) > 0
        /\ \/ at.k = "su" /\ v.c.k = "su" /\ CInitialized(at) = CInitialized(v.c)
           \/ CMistakable(t, Append(path, 0), v)

RECURSIVE CPath(_, _)       \* the path to a member, through those without name
CPath(t, n) ==
    LET list == IF CHasMembers(lang, t) THEN lang.content[t.id].list ELSE <<>>
        named == {i \in DOMAIN list : list[i].n = n}
        within == {i \in DOMAIN list : list[i].n = "" /\ CPath(list[i].t, n) # <<>>}
    IN  IF named # {} THEN <<Max(named) - 1>>
        ELSE IF within # {} THEN LET i == Min(within)
                                 IN  <<i - 1>> \o CPath(list[i].t, n)
        ELSE <<>>

\* All array bounds but the outermost are known to the code
RECURSIVE Bounded(_)
Bounded(t) == CASE t.k = "array" -> t.n # Unknown /\ Bounded(t.of)
                [] t.k = "su" -> \A i \in DOMAIN t.ordinal : Bounded(t.ordinal[i].t)
                [] OTHER -> TRUE
BoundsKnown(t) == IF t.k = "array" THEN Bounded(t.of) ELSE Bounded(t)

-----------------------------------------------------------------------------
(* The text, item by item                                                  *)

IInit ==
    /\ elements = <<>> /\ upcoming = Undeclared /\ contexts = <<>>
    /\ phase = "start" /\ aim = CVoid /\ cursor = <<>>
    /\ placed = <<>> /\ faults = {} /\ items = 0

Level == Last(cursor)       \* of the innermost brace
NewLevel(c) == [c |-> c, at |-> IF CLength(c) = 0 THEN <<>> ELSE <<0>>, parts |-> <<>>, colon |-> ""]
\* The outermost object, or the subobject that comes next
Next0 == IF cursor = <<>> THEN aim ELSE CAt(Level.c, Level.at)
MoreToCome == phase = "declared" \/ (phase \in {"list", "designator"} /\ Level.at # <<>>)

SetLevel(l) == cursor' = Append(Front(cursor), l)

Item == items < MaxItems /\ items' = items + 1

\* A declaration, before its initializer
Expect(n) ==
    /\ phase = "start"
    /\ Item
    /\ lang.obj[n].st \notin {"typedef", "enum"} /\ CComplete(lang, lang.obj[n].t)
    /\ BoundsKnown(obj[n].t) \/ "unknown_bound" \in Misread
    /\ upcoming' = obj[n].t /\ aim' = lang.obj[n].t
    /\ phase' = "declared"
    /\ UNCHANGED <<elements, contexts, cursor, placed, faults>>

\* initializer_open: a brace for the object, or for what comes next
InitializerOpen ==
    /\ MoreToCome /\ (cursor # <<>> => CAggregate(Next0))
    /\ Item
    /\ LET es == ClearUsed(elements)
           t == IF es = <<>> THEN upcoming ELSE MemberAt(Last(es).t, Last(es).pos)
       IN  /\ elements' = Append(es, Element(t, TRUE))
           /\ placed' = IF es = <<>> THEN <<>> ELSE <<PathOf(es), Level.at>>
    /\ cursor' = Append(cursor, NewLevel(Next0))
    /\ phase' = "list"
    /\ UNCHANGED <<upcoming, contexts, aim, faults>>

\* The end of an initializer of the innermost brace: what comes next, and
\* the lookup of the name in "name: initializer"
Colon(es, level) ==
    IF level.colon = "" THEN <<>>
    ELSE <<Member(Last(es).t, level.colon).tok, CMember(lang, level.c, level.colon).tok>>

\* initializer_close
InitializerClose ==
    /\ phase = "list"
    /\ Item
    /\ LET es == Front(Unbraced(elements))
           outer == Front(cursor)
           level == Last(outer)
       IN  IF outer = <<>> THEN /\ elements' = es /\ cursor' = <<>>
                                /\ phase' = "end" /\ placed' = <<>>
           ELSE /\ elements' = Next1(es)
                /\ cursor' = Append(Front(outer),
                                    [level EXCEPT !.at = CAfter(level.c, @),
                                                  !.parts = <<>>, !.colon = ""])
                /\ placed' = Colon(Next1(es), level)
                /\ phase' = "list"
    /\ UNCHANGED <<upcoming, contexts, aim, faults>>

\* The values that expressions may have: a number, a string, a structure
Values ==
    {Operand(Basic("int"), CInt),
     Operand(ArrayOf(Basic("char"), Unknown), CArray(CBasic("char", "none"), Unknown))}
    \cup {Operand(obj[n].t, lang.obj[n].t) :
            n \in {m \in DOMAIN obj : lang.obj[m].st # "typedef" /\ CHasMembers(lang, lang.obj[m].t)}}

\* initializer: an assignment_expression, of value v, in its place
Assign(v) ==
    /\ phase = "value" \/ (phase \in {"list", "designator"} /\ Level.at # <<>>)
    /\ Item
    /\ LET whole == CCharArray(Level.c) /\ Level.at = <<0>> /\ CString(v)
           path == IF whole THEN <<0>> ELSE CPlace(Level.c, Level.at, v)
           es == ClearUsed(elements)
           full == Last(es).end # Unknown /\ Last(es).pos = Last(es).end
           f == Fitted(es, v.t)
           end == IF full \/ ~f.fits THEN f.es
                  ELSE AtTop(f.es, [Last(f.es) EXCEPT !.pos = @ + 1, !.designated = FALSE])
       IN  /\ path # <<>>
           /\ "same_count" \in Misread \/ ~CMistakable(Level.c, Level.at, v)
           /\ Level.colon # "" => path = Level.at
           /\ elements' = IF full THEN es ELSE end
           /\ placed' = <<PathOf(f.es), path>> \o Colon(elements', Level)
           /\ faults' = IF full THEN {"too many initializers"}
                        ELSE IF f.fits THEN {} ELSE {"incompatible initializer"}
           /\ SetLevel([Level EXCEPT !.at = IF whole THEN <<>> ELSE CAfter(Level.c, path),
                                     !.parts = <<>>, !.colon = ""])
    /\ phase' = "list"
    /\ UNCHANGED <<upcoming, contexts, aim>>

\* A compound literal of type n, or a declaration in a statement expression
ContextSave(n) ==
    /\ phase \in {"list", "designator"} /\ Level.at # <<>> /\ Len(contexts) < 1
    /\ Item
    /\ CComplete(lang, lang.obj[n].t)
    /\ BoundsKnown(CompletedTypedef(Env, n)) \/ "unknown_bound" \in Misread
    /\ contexts' = Append(contexts, [elements |-> elements, upcoming |-> upcoming,
                                     aim |-> aim, cursor |-> cursor])
    /\ elements' = <<>> /\ upcoming' = CompletedTypedef(Env, n)
    /\ aim' = lang.obj[n].t /\ cursor' = <<>>
    /\ phase' = "declared" /\ placed' = <<>>
    /\ UNCHANGED faults

ContextRestore ==
    /\ phase = "end" /\ contexts # <<>>
    /\ Item
    /\ elements' = Last(contexts).elements /\ upcoming' = Last(contexts).upcoming
    /\ aim' = Last(contexts).aim /\ cursor' = Last(contexts).cursor
    /\ contexts' = Front(contexts)
    /\ phase' = "value" /\ placed' = <<>>
    /\ UNCHANGED faults

\* designator: [k], of the innermost brace or of what was designated
DesignateIndex(k) ==
    /\ Item
    /\ \/ /\ phase = "list" /\ Level.c.k = "array" /\ k < Level.c.n
          /\ elements' = AtTop(Unbraced(elements), [Last(Unbraced(elements)) EXCEPT !.pos = k])
          /\ SetLevel([Level EXCEPT !.at = <<k>>, !.parts = <<"index">>])
       \/ /\ phase = "designator" /\ Level.colon = "" /\ Next0.k = "array" /\ k < Next0.n
          /\ Len(Level.parts) < 2 \/ Last(Level.parts) = "index" \/ "long_designator" \in Misread
          /\ elements' = Append(elements,
                [Element(MemberAt(Last(elements).t, Last(elements).pos), FALSE) EXCEPT !.pos = k])
          /\ SetLevel([Level EXCEPT !.at = Append(@, k), !.parts = Append(@, "index")])
    /\ phase' = "designator" /\ placed' = <<>>
    /\ UNCHANGED <<upcoming, contexts, aim, faults>>

\* A member within others without name, of which the code forgets the place
FromFirst(path) == \A i \in 1 .. Len(path) - 1 : path[i] = 0
Parts(path) == [i \in 1 .. Len(path) |-> IF i < Len(path) THEN "unnamed" ELSE "member"]

\* designator: .n, of the innermost brace or of what was designated
Designated(es, t, n, want) ==
    LET to == IF Member(t, n) = NoMember THEN <<>> ELSE MovedTo(es, n)
    IN  /\ elements' = IF to = <<>> THEN es ELSE to
        /\ placed' = <<Member(t, n).tok, want>>
DesignateMember(n) ==
    /\ Item
    /\ \/ LET path == CPath(Level.c, n)
              es == Unbraced(elements)
          IN  /\ phase = "list" /\ path # <<>>
              /\ Len(path) = 1 \/ (FromFirst(path) /\ Level.at = <<0>>) \/ "unnamed" \in Misread
              /\ Designated(es, Last(es).t, n, CMember(lang, Level.c, n).tok)
              /\ SetLevel([Level EXCEPT !.at = path, !.parts = Parts(path)])
       \/ LET path == CPath(Next0, n)
              t == MemberAt(Last(elements).t, Last(elements).pos)
          IN  /\ phase = "designator" /\ Level.colon = "" /\ path # <<>>
              /\ FromFirst(path) \/ "unnamed" \in Misread
              /\ Len(Level.parts) < 2 \/ Last(Level.parts) = "index" \/ "long_designator" \in Misread
              /\ Designated(Append(elements, Element(t, FALSE)), t, n, CMember(lang, Next0, n).tok)
              /\ SetLevel([Level EXCEPT !.at = @ \o path, !.parts = @ \o Parts(path)])
    /\ phase' = "designator"
    /\ UNCHANGED <<upcoming, contexts, aim, faults>>

\* member_name ':', which does nothing before the initializer
MemberColon(n) ==
    /\ Item
    /\ phase = "list"
    /\ CPath(Level.c, n) # <<>>
    /\ Level.at = CPath(Level.c, n) \/ "colon" \in Misread
    /\ SetLevel([Level EXCEPT !.at = CPath(Level.c, n), !.colon = n])
    /\ phase' = "designator" /\ placed' = <<>>
    /\ UNCHANGED <<elements, upcoming, contexts, aim, faults>>

ReadItem ==
    /\ Parsed /\ ops = 0
    /\ \/ \E n \in DOMAIN obj : Expect(n)
       \/ InitializerOpen
       \/ InitializerClose
       \/ \E v \in Values : Assign(v)
       \/ \E n \in TypedefNames : ContextSave(n)
       \/ ContextRestore
       \/ \E k \in 0 .. 2 : DesignateIndex(k)
       \/ \E n \in MemberNames : DesignateMember(n) \/ MemberColon(n)
    /\ UNCHANGED tvars

\* A program is read, and then an expression or an initializer
INext ==
    \/ TNext /\ items = 0 /\ UNCHANGED ivars
    \/ ReadItem

ISpec == TInit /\ IInit /\ [][INext]_<<tvars, ivars>>

-----------------------------------------------------------------------------
\* In an initializer that is C, every expression initializes the element
\* that it initializes in the language, every designator is unified with
\* the member that it names there, and no error is reported: through braces
\* left out, unions, designators that go back or into other elements, and
\* literals and statement expressions with initializers of their own
InitializersRight ==
    /\ \A i \in DOMAIN placed : i % 2 = 1 => placed[i] = placed[i + 1]
    /\ faults = {}
    /\ elements = <<>> <=> cursor = <<>>

AllTypesRight == TypesRight /\ InitializersRight
=============================================================================

------------------------------ MODULE MCRename ------------------------------
(***************************************************************************)
(* Small workspaces for Rename.  Each has files of its own.                *)
(***************************************************************************)
EXTENDS Rename
LOCAL INSTANCE SequencesExt

MCFile == {"s.c", "m.c", "m.h", "r.c", "d.c"}
MCReadOnly == {"m.h"}
MCAttribute == {"is_ordinary", "is_macro", "is_undefined_macro"}
MCProject == {"p"}
MCClassId == 1 .. 16
MCSameName == {}

In(f, o, l) == [tokid |-> <<f, o>>, len |-> l]
CharsOf(xs) == FlattenSeq([k \in DOMAIN xs |-> Chars(xs[k])])

Ev(op) == <<[op |-> op, x |-> <<>>, lex |-> <<>>, tok |-> <<>>]>>
ReadOf(x) == <<[op |-> "read", x |-> x, lex |-> <<>>, tok |-> <<>>]>>

\* The event op on a token, after its lexemes were read.
On(op, xs) ==
    FlattenSeq([k \in DOMAIN xs |-> ReadOf(xs[k])])
        \o <<[op |-> op, x |-> <<>>, lex |-> xs, tok |-> CharsOf(xs)]>>

\* A compilation unit: the pragmas csmake writes around every file.
Unit(body) == Ev("clear_defines") \o Ev("enter") \o body \o Ev("exit")

\* Settings of rename_override_ro and refactor_check_clashes
Defaults == [override |-> FALSE, check |-> TRUE]
Unchecked == [override |-> FALSE, check |-> FALSE]
Overriding == [override |-> TRUE, check |-> TRUE]

LexemesOf(p) == {p[i].x : i \in {j \in DOMAIN p : p[j].op = "read"}}
TokensOf(p) == {p[i].tok : i \in {j \in DOMAIN p : p[j].tok # <<>>}}

-----------------------------------------------------------------------------
(* x; { y; x y; }   in one unit, and in another                            *)
(* #define z   static x; y; x z                                            *)

ScopesProgram ==
    Ev("enter")
    \o Unit(On("global", <<In("s.c", 0, 1)>>)
            \o Ev("enter")
            \o On("local", <<In("s.c", 2, 1)>>)
            \o On("use", <<In("s.c", 4, 1)>>)
            \o On("use", <<In("s.c", 6, 1)>>)
            \o Ev("exit"))
    \o Unit(On("define", <<In("s.c", 14, 1)>>)
            \o On("static", <<In("s.c", 8, 1)>>)
            \o On("global", <<In("s.c", 10, 1)>>)
            \o On("use", <<In("s.c", 12, 1)>>)
            \o On("use", <<In("s.c", 16, 1)>>))
    \o Ev("exit")
ScopesSpelling ==
    [t \in {<<"s.c", o>> : o \in 0 .. 16} |->
        CASE t[2] \in {0, 4, 8, 12} -> "x"
          [] t[2] \in {2, 6, 10} -> "y"
          [] OTHER -> "z"]
Scopes ==
    [program |-> ScopesProgram, spelling |-> ScopesSpelling,
     newname |-> {<<"x">>, <<"y">>, <<"z">>, <<"w">>},
     options |-> {Defaults, Unchecked},
     deactivate |-> FALSE, edits |-> 2, saves |-> 2]

-----------------------------------------------------------------------------
(* ff defined in a read-only header and again, tested and used; u only      *)
(* tested; an object named ab that one macro pastes together and another    *)
(* place spells whole; an object gg.                                        *)

F1 == <<In("m.h", 0, 2)>>
Pasted == <<In("m.c", 8, 1), In("m.c", 10, 1)>>

MacrosProgram ==
    Ev("enter")
    \o Unit(On("define", F1)
            \o On("ifdef", <<In("m.c", 3, 2)>>)
            \o On("ifdef", <<In("m.c", 6, 1)>>)
            \o On("global", Pasted)
            \o On("use", <<In("m.c", 12, 2)>>)
            \o On("define", <<In("m.c", 15, 2)>>)
            \o On("use", <<In("m.c", 18, 2)>>))
    \o Unit(On("define", F1)
            \o On("global", <<In("m.c", 21, 2)>>)
            \o On("use", Pasted)
            \o On("global", <<In("m.c", 24, 2)>>))
    \o Ev("exit")
MacrosSpelling ==
    [t \in {"m.c", "m.h"} \X (0 .. 25) |->
        CASE t[2] \in {8, 12, 21} -> "a"
          [] t[2] \in {10, 13, 22} -> "b"
          [] t[2] = 6 -> "u"
          [] t[2] \in {24, 25} -> "g"
          [] OTHER -> "f"]
\* With g for both pieces of ab the two objects clash.
Macros ==
    [program |-> MacrosProgram, spelling |-> MacrosSpelling,
     newname |-> {<<"g">>, <<"y", "z">>},
     options |-> {Defaults, Overriding},
     deactivate |-> TRUE, edits |-> 3, saves |-> 1]

-----------------------------------------------------------------------------
(* Two objects whose names are of different length                         *)

RefusedProgram ==
    Ev("enter")
    \o Unit(On("global", <<In("r.c", 0, 1)>>) \o On("global", <<In("r.c", 2, 3)>>))
    \o Ev("exit")
RefusedSpelling ==
    [t \in {<<"r.c", o>> : o \in 0 .. 4} |->
        CASE t[2] = 0 -> "x" [] t[2] = 2 -> "a" [] t[2] = 3 -> "b" [] OTHER -> "c"]
Refused ==
    [program |-> RefusedProgram, spelling |-> RefusedSpelling,
     newname |-> {<<"a", "b", "c">>, <<"q">>}, options |-> {Defaults},
     deactivate |-> FALSE, edits |-> 2, saves |-> 2]

-----------------------------------------------------------------------------
(* Two local objects, neither used                                         *)

DuplicateProgram ==
    Ev("enter")
    \o Unit(Ev("enter")
            \o On("local", <<In("d.c", 0, 1)>>) \o On("local", <<In("d.c", 2, 1)>>)
            \o Ev("exit"))
    \o Ev("exit")
DuplicateSpelling ==
    [t \in {<<"d.c", o>> : o \in 0 .. 2} |-> IF t[2] = 0 THEN "x" ELSE "y"]
Duplicate ==
    [program |-> DuplicateProgram, spelling |-> DuplicateSpelling,
     newname |-> {<<"x">>, <<"y">>}, options |-> {Defaults},
     deactivate |-> FALSE, edits |-> 1, saves |-> 1]

-----------------------------------------------------------------------------

MCPrograms == {ScopesProgram, MacrosProgram, RefusedProgram, DuplicateProgram}
MCLexeme == UNION {LexemesOf(p) : p \in MCPrograms}
MCToken == UNION {TokensOf(p) : p \in MCPrograms}

\* In the last two the properties fail; each is for a configuration of its own.
MCWorkspace == {Scopes, Macros}
RefusedWorkspace == {Refused}
DuplicateWorkspace == {Duplicate}

=============================================================================

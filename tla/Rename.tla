------------------------------- MODULE Rename -------------------------------
(***************************************************************************)
(* Renaming identifiers, from the first pass over the source to the saved  *)
(* files: the part of the symbol table and macro table that decides which  *)
(* tokens are unified (stab.cpp, pdtoken.cpp, macro.cpp), the selection of *)
(* identifiers after parsing (file_analyze of engine.cpp), the pages that  *)
(* set options and set, change and deactivate replacements, and            *)
(* write_quit_page of cscout.cpp, which parses everything a second time    *)
(* with the new names (Token::check_clashes), unless the user has turned   *)
(* that off, and refuses to save when two tokens that meet then are not    *)
(* the same identifier.                                                    *)
(*                                                                         *)
(* EClass supplies the classes.  Both passes run the same Program, the     *)
(* events that lexing and parsing the workspace give rise to; in the       *)
(* second Token::unify compares classes instead of merging them, but it    *)
(* still splits them.                                                      *)
(***************************************************************************)
EXTENDS EClass, TLC
LOCAL INSTANCE SequencesExt
LOCAL INSTANCE FiniteSetsExt
LOCAL INSTANCE Functions

CONSTANT Workspace  \* workspaces and their users, records as in WorkspaceOK

Op == {"clear_defines", "define", "ifdef",      \* preprocessor directives
       "enter", "exit",                         \* Block::enter, Block::exit
       "read",                                  \* a lexeme is read
       "global", "static", "local",             \* declarations, by linkage
       "use"}                                   \* an identifier in an expression

\* No token of a program repeats a lexeme: those are EClass's subject, and
\* without them the classes of unified tokens correspond.
WorkspaceOK(w) ==
    /\ w.program \in Seq(Range(w.program))
    /\ \A i \in DOMAIN w.program :       \* events of one pass
          /\ w.program[i].op \in Op /\ IsInjective(w.program[i].tok)
          /\ w.program[i].op = "read" => w.program[i].x \in Lexeme
    /\ DOMAIN w.spelling \subseteq Tokid   \* the characters of the source
    /\ <<>> \notin w.newname              \* what the user types in a form
    /\ w.options \subseteq [override : BOOLEAN, check : BOOLEAN]
                                          \* rename_override_ro and
                                          \* refactor_check_clashes, as they may be
    /\ w.deactivate \in BOOLEAN           \* whether replacements are switched
    /\ w.edits \in Nat /\ w.saves \in Nat \* bounds on changes and save requests

ASSUME RenameAssumption ==
    /\ \A w \in Workspace : WorkspaceOK(w)
    /\ {"is_ordinary", "is_macro", "is_undefined_macro"} \subseteq Attribute

VARIABLES
    workspace,  \* the one that is processed
    options,    \* those in force, one of the workspace's
    phase,      \* "parse", "serve", "check", "write" or "saved"
    pos,        \* next event of the pass
    scope,      \* Block::scope_block: by level, from names to tokens
    macros,     \* Pdtoken::macros: from names to [tok, defined]
    found,      \* Token::found_clashes
    ids,        \* Identifier::ids: from classes to [id, newid, replaced, active]
    forms,      \* history: the forms of read-only identifiers offered so far
    origin,     \* history: the classes of each lexeme when ids was filled
    text,       \* what the files hold, lexeme by lexeme
    edits,      \* replacements made and changed so far
    saves       \* save requests so far

Program == workspace.program
Spelling == workspace.spelling
NewName == workspace.newname

session == <<options, ids, forms, origin, text, edits, saves>>
rvars == <<vars, workspace, phase, pos, scope, macros, found, session>>

Original(x) == [i \in 1 .. x.len |-> Spelling[Advance(x.tokid, i - 1)]]

Lexemes == {Program[i].x : i \in {j \in DOMAIN Program : Program[j].op = "read"}}
OriginalText == [x \in Lexemes |-> Original(x)]

RInit ==
    /\ Init
    /\ workspace \in Workspace
    /\ options \in workspace.options        \* the defaults, or the saved ones
    /\ phase = "parse" /\ pos = 1
    /\ scope = <<>> /\ macros = << >> /\ found = FALSE
    /\ ids = << >> /\ forms = {} /\ origin = << >>
    /\ text = OriginalText
    /\ edits = 0 /\ saves = 0

-----------------------------------------------------------------------------
(* Names                                                                   *)

Val(tok) == [i \in DOMAIN tok |-> Spelling[tok[i]]]

\* The classes that start on the characters of a token, in order.
ClassesInOrder(tok) ==
    LET starts == SetToSortSeq({i \in DOMAIN tok : tok[i] \in DOMAIN tm}, <)
    IN  [k \in DOMAIN starts |-> tm[tok[starts[k]]]]

\* Token::get_refactored_name
RefactoredName(tok) ==
    LET cs == ClassesInOrder(tok)
    IN  IF tok[1] \notin DOMAIN tm \/ ~(Range(cs) \subseteq DOMAIN ids)
        THEN Val(tok)
        ELSE FlattenSeq([k \in DOMAIN cs |->
                IF ids[cs[k]].replaced THEN ids[cs[k]].newid ELSE ids[cs[k]].id])

\* Token::get_name and Token::get_val
Name(tok) == IF phase = "check" THEN RefactoredName(tok) ELSE Val(tok)

-----------------------------------------------------------------------------
(* A pass over the Program                                                 *)

Passing == phase \in {"parse", "check"} /\ unify.pc = "idle"
At(op) == Passing /\ pos <= Len(Program) /\ Program[pos].op = op
Tok == Program[pos].tok
NextEvent == pos' = pos + 1 /\ UNCHANGED <<phase, session>>

\* Marks tok and, when it has a token to be unified with, enters unify.
MarkAndUnify(tok, attrs, with) ==
    LET seen == IF with = <<>> THEN {} ELSE Classes(tok) \cup Classes(with)
    IN  /\ HasClasses(tok) /\ HasClasses(with)
        /\ ec' = [e \in DOMAIN ec |-> [ec[e] EXCEPT !.attr = @
                    \cup (IF e \in Classes(tok) THEN attrs ELSE {})
                    \cup (IF e \in seen THEN {project} ELSE {})]]
        /\ unify' = IF with = <<>> THEN Idle
                    ELSE [pc |-> "homogenize", a |-> with, b |-> tok, n |-> 0]
        /\ UNCHANGED <<tm, project>>

ReadLexeme ==
    /\ At("read")
    /\ Read(Program[pos].x, FALSE)
    /\ NextEvent /\ UNCHANGED <<scope, macros, found>>

\* Pdtoken::macros_clear
ClearDefines ==
    /\ At("clear_defines")
    /\ macros' = << >>
    /\ NextEvent /\ UNCHANGED <<vars, scope, found>>

\* process_define of a macro whose value is the same whenever it is defined;
\* create_undefined_macro may have entered it as undefined before.
Define ==
    /\ At("define")
    /\ LET n == Name(Tok)
       IN  /\ MarkAndUnify(Tok, {"is_macro"},
                           IF n \in DOMAIN macros THEN macros[n].tok ELSE <<>>)
           /\ macros' = (n :> [tok |-> Tok, defined |-> TRUE]) @@ macros
    /\ NextEvent /\ UNCHANGED <<scope, found>>

\* process_ifdef, create_undefined_macro
IfDef ==
    /\ At("ifdef")
    /\ LET n == Name(Tok)
       IN  IF n \in DOMAIN macros
           THEN /\ MarkAndUnify(Tok, {}, macros[n].tok)
                /\ UNCHANGED macros
           ELSE /\ MarkAndUnify(Tok, {"is_undefined_macro"}, <<>>)
                /\ macros' = (n :> [tok |-> Tok, defined |-> FALSE]) @@ macros
    /\ NextEvent /\ UNCHANGED <<scope, found>>

\* Block::enter, Block::exit
Enter ==
    /\ At("enter")
    /\ scope' = Append(scope, << >>)
    /\ NextEvent /\ UNCHANGED <<vars, macros, found>>

Exit ==
    /\ At("exit") /\ scope # <<>>
    /\ scope' = Front(scope)
    /\ NextEvent /\ UNCHANGED <<vars, macros, found>>

\* Pdtoken::macro_is_defined of the name of the token
NamesMacro == Name(Tok) \in DOMAIN macros /\ macros[Name(Tok)].defined

\* macro_expand of an object-like macro: the parser never sees the token.
Expand ==
    /\ \E op \in {"global", "static", "local", "use"} : At(op)
    /\ NamesMacro
    /\ MarkAndUnify(Tok, {}, macros[Name(Tok)].tok)
    /\ NextEvent /\ UNCHANGED <<scope, macros, found>>

lu_block == 1
cu_block == 2
current_block == Len(scope)

Bind(level, n, tok) == [scope EXCEPT ![level] = (n :> tok) @@ @]

\* obj_define at file scope of an object with external linkage, from a
\* declaration without extern.  Linking is simulated by the definitions of
\* lu_block, which lookups do not search.
DefineGlobal ==
    /\ At("global") /\ ~NamesMacro /\ current_block = cu_block
    /\ LET n == Name(Tok)
           known == n \in DOMAIN scope[lu_block]
       IN  /\ MarkAndUnify(Tok, {"is_ordinary"},
                           IF known THEN scope[lu_block][n] ELSE <<>>)
           /\ scope' = IF known THEN Bind(cu_block, n, Tok)
                       ELSE [Bind(cu_block, n, Tok) EXCEPT
                                ![lu_block] = (n :> Tok) @@ @]
    /\ NextEvent /\ UNCHANGED <<macros, found>>

\* obj_define of a static, at file scope
DefineStatic ==
    /\ At("static") /\ ~NamesMacro /\ current_block = cu_block
    /\ LET n == Name(Tok)
       IN  /\ MarkAndUnify(Tok, {"is_ordinary"},
                           IF n \in DOMAIN scope[cu_block]
                           THEN scope[cu_block][n] ELSE <<>>)
           /\ scope' = Bind(cu_block, n, Tok)
    /\ NextEvent /\ UNCHANGED <<macros, found>>

\* obj_define in a block; a second definition is reported and dropped
DefineLocal ==
    /\ At("local") /\ ~NamesMacro /\ current_block > cu_block
    /\ LET n == Name(Tok)
       IN  scope' = IF n \in DOMAIN scope[current_block] THEN scope
                    ELSE Bind(current_block, n, Tok)
    /\ MarkAndUnify(Tok, {"is_ordinary"}, <<>>)
    /\ NextEvent /\ UNCHANGED <<macros, found>>

LookupFaulty(n) ==                      \* only searches the current block
    IF current_block > lu_block /\ n \in DOMAIN scope[current_block]
    THEN scope[current_block][n] ELSE <<>>

\* Block::lookup, <<>> if there is no such name
Lookup(n) ==
    LET levels == {i \in cu_block .. current_block : n \in DOMAIN scope[i]}
    IN  IF levels = {} THEN <<>> ELSE scope[Max(levels)][n]

\* primary_expression
Use ==
    /\ At("use") /\ ~NamesMacro
    /\ MarkAndUnify(Tok, {}, Lookup(Name(Tok)))
    /\ NextEvent /\ UNCHANGED <<scope, macros, found>>

Event ==
    \/ ReadLexeme \/ ClearDefines \/ Define \/ IfDef \/ Expand
    \/ Enter \/ Exit
    \/ DefineGlobal \/ DefineStatic \/ DefineLocal \/ Use

-----------------------------------------------------------------------------
(* Token::unify in either pass                                             *)

\* The loop that compares the classes instead of merging them; it returns at
\* the first difference.
ComparePairFaulty ==                    \* merges what it should compare
    /\ unify.pc = "merge" /\ MoreA /\ MoreB /\ ClassesFound
    /\ Merge(tm[NextA], tm[NextB])
    /\ Consume(RunLen(NextA))
    /\ UNCHANGED <<project, found>>

ComparePair ==
    /\ unify.pc = "merge" /\ MoreA /\ MoreB /\ ClassesFound
    /\ \/ /\ tm[NextA] # tm[NextB]
          /\ found' = TRUE
          /\ unify' = Idle
       \/ /\ tm[NextA] = tm[NextB]
          /\ Consume(RunLen(NextA))
          /\ UNCHANGED found
    /\ UNCHANGED <<tm, ec, project>>

Unify ==
    /\ \/ HomogenizeStep /\ UNCHANGED found
       \/ phase = "parse" /\ MergePair /\ UNCHANGED found
       \/ phase = "check" /\ ComparePair
       \/ UnifyEnd /\ UNCHANGED found
    /\ UNCHANGED <<phase, pos, scope, macros, session>>

-----------------------------------------------------------------------------
(* Between the passes                                                      *)

PassDone == pos > Len(Program) /\ unify.pc = "idle"

\* Attributes::is_identifier
IsIdentifier(e) == ec[e].attr \cap {"is_ordinary", "is_macro"} # {}

Identifiers == {e \in DOMAIN ec : IsIdentifier(e)}

\* The text at some member of the class.
TextOf(e) ==
    LET t == CHOOSE t \in ec[e].members : TRUE
    IN  [i \in 1 .. ec[e].len |-> Spelling[Advance(t, i - 1)]]

Chars(x) == [i \in 1 .. x.len |-> Advance(x.tokid, i - 1)]

\* file_analyze of every file: identifiers enter ids, the other classes go.
Analyze ==
    /\ phase = "parse" /\ PassDone
    /\ ids' = [e \in Identifiers |->
                 [id |-> TextOf(e), newid |-> <<>>, replaced |-> FALSE, active |-> TRUE]]
    /\ tm' = [t \in {s \in DOMAIN tm : tm[s] \in Identifiers} |-> tm[t]]
    /\ ec' = [e \in Identifiers |-> ec[e]]
    /\ origin' = [x \in Lexemes |->
                    LET cs == ClassesInOrder(Chars(x))
                    IN  [k \in DOMAIN cs |-> [class |-> cs[k], was |-> TextOf(cs[k])]]]
    /\ phase' = "serve"
    /\ UNCHANGED <<project, unify, pos, scope, macros, found, options, forms,
                   text, edits, saves>>

\* set_options_page
SetOptions(o) ==
    /\ phase = "serve" /\ options # o
    /\ options' = o
    /\ UNCHANGED <<vars, phase, pos, scope, macros, found, ids, forms, origin,
                   text, edits, saves>>

ReadOnlyIdentifier(e) == "is_readonly" \in ec[e].attr

\* identifier_page of a read-only identifier: it has a form if the override is
\* set when the page is made.  That of a writable one always has.
IdentifierPage(e) ==
    /\ phase = "serve"
    /\ ReadOnlyIdentifier(e) /\ options.override
    /\ forms' = forms \cup {[class |-> e, override |-> options.override]}
    /\ UNCHANGED <<vars, options, phase, pos, scope, macros, found, ids, origin,
                   text, edits, saves>>

\* identifier_page as it receives a form, and the name field of
\* xreplacements_page.  Neither looks at the mark or at the option: what comes
\* is a form that was offered, maybe before the option changed, or the
\* replacements page, which shows whatever is replaced.
SetNewId(e, n) ==
    /\ phase = "serve" /\ edits < workspace.edits
    /\ ~ReadOnlyIdentifier(e) \/ ids[e].replaced \/ \E f \in forms : f.class = e
    /\ ids' = [ids EXCEPT ![e].newid = n, ![e].replaced = TRUE]
    /\ edits' = edits + 1
    /\ UNCHANGED <<vars, options, phase, pos, scope, macros, found, forms, origin,
                   text, saves>>

\* the check box of xreplacements_page
SetActive(e, on) ==
    /\ workspace.deactivate
    /\ phase = "serve" /\ edits < workspace.edits
    /\ ids[e].replaced /\ ids[e].active # on
    /\ ids' = [ids EXCEPT ![e].active = on]
    /\ edits' = edits + 1
    /\ UNCHANGED <<vars, options, phase, pos, scope, macros, found, forms, origin,
                   text, saves>>

Replaced(e) == e \in DOMAIN ids /\ ids[e].replaced /\ ids[e].active

SaveRequestFaulty ==                    \* forgets found_clashes = false
    /\ phase = "serve" /\ saves < workspace.saves
    /\ \/ /\ options.check /\ \E e \in DOMAIN ids : Replaced(e)
          /\ phase' = "check" /\ pos' = 1
       \/ /\ ~options.check \/ ~\E e \in DOMAIN ids : Replaced(e)
          /\ phase' = "write" /\ UNCHANGED pos
    /\ saves' = saves + 1
    /\ UNCHANGED <<vars, options, scope, macros, found, ids, forms, origin, text, edits>>

\* write_quit_page up to the second pass, or past it where there is none
SaveRequest ==
    /\ phase = "serve" /\ saves < workspace.saves
    /\ found' = FALSE
    /\ \/ /\ options.check /\ \E e \in DOMAIN ids : Replaced(e)
          /\ phase' = "check" /\ pos' = 1
       \/ /\ ~options.check \/ ~\E e \in DOMAIN ids : Replaced(e)
          /\ phase' = "write" /\ UNCHANGED pos
    /\ saves' = saves + 1
    /\ UNCHANGED <<vars, options, scope, macros, ids, forms, origin, text, edits>>

RewrittenFaulty(x) ==                   \* does not skip the rest of the old name
    FlattenSeq([k \in 1 .. x.len |->
        LET t == Advance(x.tokid, k - 1)
        IN  IF t \in DOMAIN tm /\ IsIdentifier(tm[t]) /\ Replaced(tm[t])
            THEN ids[tm[t]].newid ELSE <<Spelling[t]>>])

\* get_refactored_part, over the characters of a lexeme
Rewritten(x) ==
    LET part[k \in 0 .. x.len] ==
            IF k = x.len THEN <<>> ELSE
            LET t == Advance(x.tokid, k)
            IN  IF t \in DOMAIN tm /\ IsIdentifier(tm[t]) /\ Replaced(tm[t])
                THEN ids[tm[t]].newid \o part[k + RunLen(t)]
                ELSE <<Spelling[t]>> \o part[k + 1]
    IN  part[0]

\* "Renamed identifier clashes detected. ... No files were saved."
Refuse ==
    /\ phase = "check" /\ PassDone
    /\ found
    /\ phase' = "serve"
    /\ UNCHANGED <<vars, pos, scope, macros, found, session>>

\* file_refactor of every file, and exit
Save ==
    /\ phase = "write" \/ (phase = "check" /\ PassDone)
    /\ ~found
    /\ text' = [x \in Lexemes |-> Rewritten(x)]
    /\ phase' = "saved"
    /\ UNCHANGED <<vars, options, pos, scope, macros, found, ids, forms, origin,
                   edits, saves>>

RNext ==
    \/ Event \/ Unify
    \/ Analyze
    \/ \E o \in workspace.options : SetOptions(o)
    \/ \E e \in DOMAIN ids : IdentifierPage(e)
    \/ \E e \in DOMAIN ids, n \in NewName : SetNewId(e, n)
    \/ \E e \in DOMAIN ids, on \in BOOLEAN : SetActive(e, on)
    \/ SaveRequest \/ Refuse \/ Save

RSpec == RInit /\ [][RNext /\ UNCHANGED workspace]_rvars

-----------------------------------------------------------------------------
(* What the text of a program means: which definition each use refers to   *)
(* and which definitions are of one object.  This is C, not CScout.        *)

Spelt(i, tx) ==
    FlattenSeq([k \in DOMAIN Program[i].lex |-> tx[Program[i].lex[k]]])

Events(ops) == {i \in DOMAIN Program : Program[i].op \in ops}
Declaring == {"global", "static", "local"}

Depth == [i \in DOMAIN Program |->
            Cardinality({j \in Events({"enter"}) : j < i})
                - Cardinality({j \in Events({"exit"}) : j < i})]

\* Where the block that is open at q still is.
Extent == [q \in DOMAIN Program |->
            {p \in DOMAIN Program : p >= q /\ \A j \in q .. p : Depth[j] >= Depth[q]}]

\* The definition of the macro that the name at p is expanded by, or 0.
Macro(p, tx) ==
    LET defines == {q \in Events({"define"}) :
                      /\ q < p /\ Spelt(q, tx) = Spelt(p, tx)
                      /\ ~\E j \in Events({"clear_defines"}) : q < j /\ j < p}
    IN  Max(defines \cup {0})

\* The declaration that the use at p refers to, or 0.
Binding(p, tx) ==
    Max({0} \cup {q \in Events(Declaring) :
            q < p /\ Spelt(q, tx) = Spelt(p, tx) /\ p \in Extent[q]})

\* Pairs of declarations that name one object: with external linkage
\* anywhere, else in one block.
OneObject(ops, tx) ==
    {pair \in Events(ops) \X Events(ops) :
        /\ pair[1] < pair[2]
        /\ Spelt(pair[1], tx) = Spelt(pair[2], tx)
        /\ \/ Program[pair[1]].op = "global" /\ Program[pair[2]].op = "global"
           \/ Depth[pair[1]] = Depth[pair[2]] /\ pair[2] \in Extent[pair[1]]}

Meaning(tx) ==
    [macros |-> [p \in Events(Declaring \cup {"use"}) |-> Macro(p, tx)],
     uses |-> [p \in Events({"use"}) |-> Binding(p, tx)],
     objects |-> OneObject({"global", "static"}, tx)]

OriginalMeaning == Meaning(OriginalText)

\* What the user asked for: every active replacement, nowhere else.
AskedText ==
    [x \in Lexemes |-> FlattenSeq([k \in DOMAIN origin[x] |->
        IF Replaced(origin[x][k].class) THEN ids[origin[x][k].class].newid
                                        ELSE origin[x][k].was])]

-----------------------------------------------------------------------------
(* Properties                                                              *)

\* The check takes the new names whether or not they are active; what it finds
\* says something of the files only when all are.
AllActive == \A e \in DOMAIN ids : ids[e].active

Checked == phase = "saved" /\ options.check

\* "The substitution will globally replace the identifier ... in all ...
\* files, and scopes required for the program to retain its original
\* meaning", and the check verifies "that no accidental clashes were
\* introduced": in a program that was checked and saved every use still refers
\* to its definition, and no two objects of file scope became one.
NoCapture == Checked /\ AllActive => Meaning(text) = OriginalMeaning

\* No block ends up with two definitions of one name.
NoDuplicate ==
    Checked =>
        OneObject({"local"}, text) = OneObject({"local"}, OriginalText)

\* What is saved is what was asked for, whole identifiers at a time.
RenamesExact == phase = "saved" => text = AskedText

\* "Allow the renaming of read-only identifiers": text of a read-only file is
\* rewritten only where the user renamed an identifier of it, by a form that was
\* offered while this option was set.  The handler of the form checks nothing;
\* it is the mark that keeps the form back, and the identifiers of the file share
\* classes with those of writable files, which may have been merged in later.
RenamedByOverride(x) ==
    \E k \in 0 .. x.len - 1 :
        LET t == Advance(x.tokid, k)
        IN  /\ t \in DOMAIN tm /\ Replaced(tm[t])
            /\ [class |-> tm[t], override |-> TRUE] \in forms
ReadOnlyUntouched ==
    \A x \in Lexemes : x.tokid[1] \in ReadOnly =>
        text[x] = Original(x) \/ RenamedByOverride(x)

\* Identifier::ids is indexed by the addresses of classes: none of those goes
\* away, although the second pass runs the code that merges and deletes.
IdsAreLive == DOMAIN ids \subseteq DOMAIN ec

\* "Renamed identifier clashes detected": a save is refused only when the new
\* names do change the meaning of the program.
NoFalseClash ==
    [][phase = "check" /\ phase' = "serve" /\ AllActive =>
        \/ Meaning(AskedText) # OriginalMeaning
        \/ OneObject({"local"}, AskedText) # OneObject({"local"}, OriginalText)]_rvars

=============================================================================

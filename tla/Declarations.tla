---------------------------- MODULE Declarations ----------------------------
(***************************************************************************)
(* Declarations and the symbol table: the parser actions for declarations, *)
(* functions, blocks and identifiers (parse.y), the blocks, parameters and *)
(* labels they keep (stab.cpp), the storage class of types, which types    *)
(* share (type.cpp), and the calls between functions (call.cpp,            *)
(* fcall.cpp).  Tokens that denote one identifier are to be unified:       *)
(* obj_define, tag_define and their callers decide which.                  *)
(*                                                                         *)
(* The parser is a stack of the constructs it is in the middle of; an      *)
(* action is a reduction that has an effect.  The programs are any that    *)
(* the language allows, by the history variables path and decls, which     *)
(* know scopes and linkage as ISO C defines them (6.2.1 - 6.2.3) and       *)
(* nothing of the blocks.                                                  *)
(***************************************************************************)
EXTENDS Integers, Sequences, TLC
LOCAL INSTANCE FiniteSets
LOCAL INSTANCE SequencesExt
LOCAL INSTANCE FiniteSetsExt

CONSTANTS
    Name,       \* the identifiers of the programs
    Subject,    \* what programs are made of: [does, names, tokens, scopes, units]
    Known       \* constructs the code mistakes that programs may contain

Specifier == {"none", "extern", "static", "typedef"}
Feature == {"objects", "uses", "linkage", "parameters", "blocks", "labels", "tags"}

\* The constructs in which the code departs from the language.
Mistaken == {"block_extern",    \* linkage of a declaration in a block
             "shared_type",     \* linkage inherited by a type others share
             "list_in_type",    \* a parameter list before the function's own
             "empty_list",      \* () as the list of the function
             "function_parameter",
             "inner_tag",       \* a tag that hides another
             "open_tag",        \* a structure in a list of its own members
             "nested_function",
             "typedef_again"}

ASSUME DeclarationsAssumption ==
    /\ \A s \in Subject : /\ s.does \subseteq Feature
                          /\ {s.names, s.tokens, s.scopes, s.units} \subseteq Nat
    /\ Known \subseteq Mistaken

VARIABLES
    subject,
    scope_block,        \* Block::scope_block
    param_block,        \* Block::param_block
    param_use, param_seen, param_block_nesting,
    label,              \* Function::label
    storage,            \* Tstorage of every type node made
    rep,                \* classes: the first token that each token is with
    nesting,            \* Call::nesting, its last is Call::current_fun
    fcalls,             \* the FCall that each declaration of a function got
    calls,              \* callers with what they call
    errors,             \* tokens with which an error was reported
    reading,            \* the parser's stack
    path,               \* history: the scopes around the current position
    opened,             \* history: scopes so far
    decls,              \* history: what each token is in the language
    complete,           \* history: what has been defined: tags, functions, labels
    made                \* history: functions with the functions they name

blocks == <<scope_block, param_block, param_use, param_seen,
            param_block_nesting>>
functions == <<label, nesting, fcalls, calls>>
history == <<path, opened, decls, complete, made>>
dvars == <<subject, blocks, functions, storage, rep, errors, reading, history>>

lu_block == 1
cu_block == 2
current_block == Len(scope_block)

NoBlock == [obj |-> << >>, tag |-> << >>, local_label |-> << >>]
Unspecified == [sc |-> "unspecified", sd |-> "none", lk |-> "none"]
StorageOf == [none |-> Unspecified,
              extern |-> [Unspecified EXCEPT !.lk = "external"],
              static |-> [Unspecified EXCEPT !.sd = "static", !.lk = "internal"],
              typedef |-> [Unspecified EXCEPT !.sc = "typedef"]]

\* A type that is no structure, and an Id that is not there
NoStruct == [kind |-> "none"]
NoId == [tok |-> 0, fc |-> 0]

-----------------------------------------------------------------------------
(* The language                                                            *)

Here == Len(decls) + 1      \* the next token

Visible(ns, n) == {i \in DOMAIN decls :
    /\ decls[i].decl /\ decls[i].ns = ns /\ decls[i].n = n
    /\ IsPrefix(decls[i].path, path)}

\* The declaration a name denotes: of the innermost scope, the last
Denoted(ns, n) ==
    LET v == Visible(ns, n)
        inner == {i \in v : \A j \in v : Len(decls[j].path) <= Len(decls[i].path)}
    IN  IF v = {} THEN 0 ELSE Max(inner)

AtFile == Len(path) = 1

\* 6.2.2: the linkage of a declaration here of an object or function
Linkage(n, spec, fn) ==
    LET prior == Denoted("obj", n)
        inherited == IF prior # 0 /\ decls[prior].lk \in {"internal", "external"}
                     THEN decls[prior].lk ELSE "external"
    IN  CASE spec = "typedef" -> "typedef"
          [] spec = "static" -> IF AtFile THEN "internal" ELSE "none"
          [] spec = "extern" \/ fn -> inherited
          [] OTHER -> IF AtFile THEN "external" ELSE "none"

\* An entity is a namespace, where its name is unique, and the name.
Entity(ns, at, n, lk) == CASE lk = "external" -> <<ns, <<>>, n>>
                           [] lk = "internal" -> <<ns, <<at[1]>>, n>>
                           [] OTHER -> <<ns, at, n>>

Declared(ns, at, n, lk, fn, su) ==
    [ns |-> ns, n |-> n, decl |-> TRUE, implicit |-> FALSE, path |-> at, lk |-> lk, fn |-> fn,
     su |-> su, entity |-> Entity(ns, at, n, lk)]

Named(ns, n, entity) ==
    [ns |-> ns, n |-> n, decl |-> FALSE, implicit |-> FALSE, path |-> path,
     lk |-> "none", fn |-> FALSE, su |-> <<>>, entity |-> entity]

\* d may be declared here: its scope has no other meaning for the name, and
\* the declarations of one entity agree.
Legal(d) == \A i \in DOMAIN decls :
    LET e == decls[i]
    IN  (e.decl /\ e.ns = d.ns /\ e.n = d.n) =>
            /\ e.path = d.path => e.entity = d.entity
            /\ e.entity = d.entity =>
                    /\ e.fn = d.fn /\ e.su = d.su
                    /\ \/ d.lk \in {"internal", "external"}
                       \/ d.lk = "typedef" /\ "typedef_again" \in Known
            /\ e.path[1] = d.path[1] => {e.lk, d.lk} # {"external", "internal"}

-----------------------------------------------------------------------------
(* The parser's stack                                                      *)

Top == Last(reading)
Under(k) == reading[Len(reading) - k]
Push(f) == Append(reading, f)
WithTop(r, f) == Append(Front(r), f)
Does(f) == f \in subject.does
RoomFor(k) == Len(decls) + k <= subject.tokens
Usable(n) == Cardinality({decls[i].n : i \in DOMAIN decls} \cup {n}) <= subject.names

\* A scope is opened, by the code as another block and by the language.
Enter ==
    /\ opened < subject.scopes
    /\ scope_block' = Append(scope_block, NoBlock)
    /\ opened' = opened + 1 /\ path' = Append(path, opened + 1)

\* Token::unify of two tokens, of which none is 0
Unified(r, a, b) ==
    IF a = 0 \/ b = 0 THEN r
    ELSE [i \in DOMAIN r |-> IF r[i] \in {r[a], r[b]} THEN Min({r[a], r[b]})
                             ELSE r[i]]

\* Block::lookup, outwards from a level but for lu_block
Lookup(table, n, level) ==
    LET at == {l \in cu_block .. level : n \in DOMAIN scope_block[l][table]}
    IN  IF at = {} THEN NoId ELSE scope_block[Max(at)][table][n]

In(table, n, level) == IF n \in DOMAIN scope_block[level][table]
                       THEN scope_block[level][table][n] ELSE NoId

-----------------------------------------------------------------------------
(* Objects and functions                                                   *)

\* merge_storage_duration, merge_linkage, Tstorage::set_storage_class
Merged(a, b) == IF a = "none" THEN b ELSE a
SetStorageFaulty(s, new) ==
    [sc |-> IF s.sc \in {"unspecified", "typedef"} THEN new.sc ELSE s.sc,
     sd |-> Merged(s.sd, new.sd),
     lk |-> Merged(s.lk, new.lk)]     \* mutant: static does not override

SetStorage(s, new) ==
    [sc |-> IF s.sc \in {"unspecified", "typedef"} THEN new.sc ELSE s.sc,
     sd |-> Merged(s.sd, new.sd),
     lk |-> IF s.lk = "external" /\ new.lk = "internal" THEN "internal"
            ELSE Merged(s.lk, new.lk)]

\* obj_define of the next token, of a type whose node is in st
ObjDefine(n, fn, node, su, level, st) ==
    LET r == Append(rep, Here)
        own == IF st[node].sc = "unspecified" /\ st[node].lk = "none" /\ fn
               THEN [st[node] EXCEPT !.lk = "external"] ELSE st[node]
        prior == Lookup("obj", n, level)
        inherits == own.lk = "external" /\ prior.tok # 0 /\ st[prior.node] # own
        s == IF inherits THEN st[prior.node] ELSE own
        typed == IF inherits THEN [st EXCEPT ![node] = SetStorage(@, s)] ELSE st
        same == In("obj", n, level)
        exported == In("obj", n, lu_block)
        static == level = cu_block /\ (s.lk = "internal" \/ s.sd = "static")
        linked == s.lk = "external" \/
            (s.lk = "none" /\ s.sc = "unspecified" /\ level = cu_block)
        known == IF linked THEN exported.fc ELSE prior.fc
        fc == IF ~fn \/ typed[node].sc = "typedef" THEN 0
              ELSE IF known # 0 THEN known ELSE Here
        id == [tok |-> Here, fn |-> fn, node |-> node, su |-> su, fc |-> fc]
        bound == [scope_block EXCEPT ![level].obj = (n :> id) @@ @]
    IN  IF param_use /\ level = cu_block
        THEN \* an old-style declaration of a parameter
             LET p == param_block.obj
             IN  /\ param_block' = [param_block EXCEPT
                        !.obj = (n :> [id EXCEPT !.fc = 0]) @@ @]
                 /\ rep' = Unified(r, IF n \in DOMAIN p THEN p[n].tok ELSE 0, Here)
                 /\ errors' = IF n \in DOMAIN p THEN errors ELSE errors \cup {Here}
                 /\ storage' = st
                 /\ UNCHANGED <<scope_block, fcalls>>
        ELSE /\ storage' = typed
             /\ UNCHANGED param_block
             /\ IF level # cu_block /\ s.lk # "external" /\ same.tok # 0
                THEN /\ errors' = errors \cup {Here}
                     /\ rep' = r /\ UNCHANGED <<scope_block, fcalls>>
                ELSE /\ errors' = IF static /\ same.tok # 0
                                     /\ typed[same.node] = Unspecified
                                  THEN errors \cup {Here} ELSE errors
                     /\ rep' = Unified(r, IF static THEN same.tok
                                          ELSE IF linked THEN exported.tok
                                          ELSE 0, Here)
                     /\ fcalls' = IF fc = 0 THEN fcalls ELSE fcalls @@ (Here :> fc)
                     /\ scope_block' = IF linked /\ exported.tok = 0
                            THEN [bound EXCEPT ![lu_block].obj = (n :> id) @@ @]
                            ELSE bound

-----------------------------------------------------------------------------
(* Declaration specifiers                                                  *)

\* Where a declaration may begin, and with which storage class
Context == Top.at
SpecifierHere(spec) ==
    /\ Context \in {"unit", "block", "kr", "struct", "list"}
    /\ spec # "none" => /\ Context \in {"unit", "block"}
                        /\ Does("linkage") \/ spec = "typedef"
    /\ spec = "typedef" => Does("objects") /\ (Does("tags") \/ Does("linkage"))

\* clean: no list of parameters since the last Block::param_clear
Declaration(spec, node, su, of) ==
    [at |-> "declaration", spec |-> spec, node |-> node, su |-> su, of |-> of,
     count |-> 0, clean |-> Context # "block" \/ Top.clean]

BeginDeclaration(spec) ==
    /\ SpecifierHere(spec) /\ RoomFor(1)
    /\ storage' = Append(storage, StorageOf[spec])
    /\ reading' = Push(Declaration(spec, Len(storage) + 1, NoStruct, <<>>))
    /\ UNCHANGED <<subject, blocks, functions, rep, errors, history>>

\* The type of a declaration with a structure type t: t itself, or a copy of
\* it when there is a storage class
OfType(st, t, spec) == IF spec = "none" THEN [node |-> t, st |-> st]
    ELSE [node |-> Len(st) + 1, st |-> Append(st, SetStorage(st[t], StorageOf[spec]))]

RedefinesFaulty(same) == same.tok # 0     \* mutant: nor may it be completed
Redefines(same) == same.tok # 0 /\ same.su.kind # "incomplete"

\* tag_define: what becomes of the blocks
TagDefine(n, tok, node, su) ==
    LET id == [tok |-> tok, node |-> node, su |-> su, fc |-> 0]
        same == In("tag", n, current_block)
        again == Redefines(same)
    IN  IF param_use /\ current_block = cu_block
        THEN /\ param_block' = [param_block EXCEPT !.tag = (n :> id) @@ @]
             /\ UNCHANGED <<scope_block, errors>>
        ELSE /\ scope_block' = IF again THEN scope_block
                    ELSE [scope_block EXCEPT ![current_block].tag = (n :> id) @@ @]
             /\ errors' = IF again THEN errors \cup {tok} ELSE errors
             /\ UNCHANGED param_block

TagDeclared(n, entity) ==
    [Declared("tag", path, n, "none", FALSE, <<>>) EXCEPT !.entity = entity]

Open(entity) == \E i \in DOMAIN reading :
    reading[i].at = "struct" /\ reading[i].entity = entity

\* aggregate_name: struct n
BeginTagged(spec, n) ==
    LET id == Lookup("tag", n, current_block)
        d == Denoted("tag", n)
        st == IF id.tok = 0 THEN Append(storage, Unspecified) ELSE storage
        su == IF id.tok = 0 THEN [kind |-> "incomplete", n |-> n, level |-> current_block]
              ELSE id.su
        own == IF id.tok = 0 THEN Len(st) ELSE id.node
        new == IF d = 0 THEN TagDeclared(n, Entity("tag", path, n, "none"))
               ELSE Named("tag", n, decls[d].entity)
    IN  /\ Does("tags") /\ SpecifierHere(spec) /\ RoomFor(1) /\ Usable(n)
        /\ Context = "kr" => d # 0
        /\ d # 0 /\ "open_tag" \notin Known =>
                ~Open(decls[d].entity) \/ decls[d].path = path
        /\ IF id.tok = 0 THEN TagDefine(n, Here, own, su)
           ELSE UNCHANGED <<scope_block, param_block, errors>>
        /\ rep' = Unified(Append(rep, Here), id.tok, Here)
        /\ storage' = OfType(st, own, spec).st
        /\ reading' = Push(Declaration(spec, OfType(st, own, spec).node, su, new.entity))
        /\ decls' = Append(decls, new)
        /\ UNCHANGED <<subject, param_use, param_seen, param_block_nesting,
                       functions, path, opened, complete, made>>

\* struct n { ... }, which the code looks at when it is complete
BeginStruct(spec, n) ==
    LET d == Denoted("tag", n)
        again == d # 0 /\ decls[d].path = path
        entity == IF again THEN decls[d].entity ELSE Entity("tag", path, n, "none")
    IN  /\ Does("tags") /\ SpecifierHere(spec) /\ Context # "kr" /\ RoomFor(1) /\ Usable(n)
        /\ d # 0 /\ ~again => "inner_tag" \in Known
        /\ entity \notin complete
        /\ ~Open(entity)
        /\ reading' = Push(Declaration(spec, 0, NoStruct, entity)) \o
                <<[at |-> "struct", n |-> n, tok |-> Here, entity |-> entity,
                   members |-> << >>]>>
        /\ decls' = Append(decls, TagDeclared(n, entity))
        /\ rep' = Append(rep, Here)
        /\ UNCHANGED <<subject, blocks, functions, storage, errors, path,
                       opened, complete, made>>

EndStruct ==
    LET id == Lookup("tag", Top.n, current_block)
        su == [kind |-> "su", members |-> Top.members]
        own == Len(storage) + 1
        t == OfType(Append(storage, Unspecified), own, Under(1).spec)
    IN  /\ Top.at = "struct"
        /\ TagDefine(Top.n, Top.tok, own, su)
        /\ rep' = Unified(rep, id.tok, Top.tok)
        /\ storage' = t.st
        /\ reading' = WithTop(Front(reading),
                [Under(1) EXCEPT !.node = t.node, !.su = su])
        /\ complete' = complete \cup {Top.entity}
        /\ UNCHANGED <<subject, param_use, param_seen, param_block_nesting,
                       functions, path, opened, decls, made>>

\* A typedef name, whose type completed_typedef copies
BeginTypedefd(spec, n) ==
    LET id == Lookup("obj", n, current_block)
        d == Denoted("obj", n)
        tag == In("tag", id.su.n, current_block)
        su == IF id.su.kind = "incomplete" /\ tag.tok # 0 THEN tag.su ELSE id.su
        st == IF spec = "none" THEN Unspecified
              ELSE SetStorage(storage[id.node], StorageOf[spec])
    IN  /\ SpecifierHere(spec) /\ Context # "kr" /\ RoomFor(1)
        /\ d # 0 /\ decls[d].lk = "typedef"
        /\ id.tok # 0
        /\ rep' = Unified(Append(rep, Here), id.tok, Here)
        /\ storage' = Append(storage, st)
        /\ reading' = Push(Declaration(spec, Len(storage) + 1, su, decls[d].su))
        /\ decls' = Append(decls, Named("obj", n, decls[d].entity))
        /\ UNCHANGED <<subject, blocks, functions, errors, path, opened,
                       complete, made>>

-----------------------------------------------------------------------------
(* Declarators and lists of parameters                                     *)

Declarator(n) ==
    /\ Top.at = "declaration" /\ RoomFor(1) /\ Usable(n)
    /\ Under(1).at = "list" \/ ~Does("linkage") => Top.count = 0
    \* a type that inherited the linkage of the last declarator
    /\ Under(1).at \in {"unit", "block"} /\ Top.count > 0
            => storage[Top.node] = StorageOf[Top.spec] \/ "shared_type" \in Known
    /\ reading' = Push([at |-> "declarator", n |-> n, fn |-> FALSE, lists |-> 0,
                        ids |-> FALSE, kr |-> FALSE, scope |-> 0])
    /\ UNCHANGED <<subject, blocks, functions, storage, rep, errors, history>>

\* ( ), of a function
EmptyList ==
    /\ Top.at = "declarator" /\ Top.lists = 0
    /\ Under(2).at # "struct"
    /\ reading' = WithTop(reading, [Top EXCEPT !.fn = TRUE, !.lists = 1])
    /\ UNCHANGED <<subject, blocks, functions, storage, rep, errors, history>>

\* The list of a function, or of a pointer to one: (*f)(
OpenList(fn) ==
    /\ Does("parameters")
    /\ Top.at = "declarator" /\ ~Top.ids /\ Top.lists < 2
    /\ Top.lists = 1 => /\ fn = Top.fn
                        /\ Top.scope = 0 => "empty_list" \in Known
    /\ fn => Under(2).at # "struct"
    /\ Enter
    /\ reading' = WithTop(reading, [Top EXCEPT !.fn = fn, !.lists = @ + 1,
                    !.scope = IF Top.lists = 0 THEN opened + 1 ELSE @])
                  \o <<[at |-> "list"]>>
    /\ UNCHANGED <<subject, param_block, param_use, param_seen,
                   param_block_nesting, functions, storage, rep, errors, decls,
                   complete, made>>

ParamExitFaulty ==      \* mutant: lists within the list count as well
    /\ IF ~param_use /\ ~param_seen
       THEN param_block' = Last(scope_block) /\ param_seen' = TRUE
       ELSE UNCHANGED <<param_block, param_seen>>
    /\ scope_block' = Front(scope_block)
    /\ UNCHANGED <<param_use, param_block_nesting>>

\* Block::param_exit
ParamExit ==
    /\ IF ~param_use /\ ~param_seen /\ param_block_nesting = current_block - 1
       THEN param_block' = Last(scope_block) /\ param_seen' = TRUE
       ELSE UNCHANGED <<param_block, param_seen>>
    /\ scope_block' = Front(scope_block)
    /\ UNCHANGED <<param_use, param_block_nesting>>

\* The constructs that a closed list leaves unclean: the ones around the
\* declaration that it is of, as far as another list.
Unclean(r) ==
    LET inner == Max({0} \cup {i \in DOMAIN r : r[i].at \in {"list", "kr"}})
    IN  [i \in DOMAIN r |->
            IF i > inner /\ i < Len(r) - 1 /\ r[i].at \in {"declaration", "block"}
            THEN [r[i] EXCEPT !.clean = FALSE] ELSE r[i]]

CloseList ==
    /\ Top.at = "list"
    /\ (\E i \in DOMAIN decls : decls[i].path = path) \/ Under(1).lists = 1
    /\ ParamExit
    /\ path' = Front(path)
    /\ reading' = Unclean(Front(reading))
    /\ UNCHANGED <<subject, functions, storage, rep, errors, opened, decls,
                   complete, made>>

\* The identifiers of an old-style function
OpenIds ==
    /\ Does("parameters")
    /\ Top.at = "declarator" /\ Top.lists = 0
    /\ Under(1).count = 0 /\ Under(2).at = "unit" /\ Under(1).clean
    /\ Enter
    /\ reading' = WithTop(reading, [Top EXCEPT !.fn = TRUE, !.lists = 1,
                    !.ids = TRUE, !.scope = opened + 1]) \o <<[at |-> "ids"]>>
    /\ UNCHANGED <<subject, param_block, param_use, param_seen,
                   param_block_nesting, functions, storage, rep, errors, decls,
                   complete, made>>

Identifier(n) ==
    LET d == Declared("obj", path, n, "none", FALSE, <<>>)
    IN  /\ Top.at = "ids" /\ RoomFor(1) /\ Usable(n)
        /\ Legal(d)
        /\ ObjDefine(n, FALSE, Len(storage) + 1, NoStruct, current_block,
                     Append(storage, Unspecified))
        /\ decls' = Append(decls, d)
        /\ UNCHANGED <<subject, param_use, param_seen, param_block_nesting, label,
                       nesting, calls, reading, path, opened, complete, made>>

CloseIds ==
    /\ Top.at = "ids" /\ \E i \in DOMAIN decls : decls[i].path = path
    /\ ParamExit
    /\ path' = Front(path)
    /\ reading' = Front(reading)
    /\ UNCHANGED <<subject, functions, storage, rep, errors, opened, decls,
                   complete, made>>

ParamUseBegin ==
    /\ Top.at = "declarator" /\ Top.ids /\ ~Top.kr
    /\ param_use' = TRUE
    /\ reading' = WithTop(reading, [Top EXCEPT !.kr = TRUE])
                  \o <<[at |-> "kr", scope |-> Top.scope]>>
    /\ UNCHANGED <<subject, scope_block, param_block, param_seen,
                   param_block_nesting, functions, storage, rep, errors, history>>

ParamUseEnd ==
    /\ Top.at = "kr"
    /\ param_use' = FALSE
    /\ reading' = Front(reading)
    /\ UNCHANGED <<subject, scope_block, param_block, param_seen,
                   param_block_nesting, functions, storage, rep, errors, history>>

-----------------------------------------------------------------------------
(* The end of a declarator, and of a declaration                           *)

\* The declarator would change a type that others have as well.
Inherits(n, node) ==
    LET id == Lookup("obj", n, current_block)
    IN  id.tok # 0 /\ storage[id.node] # Unspecified /\ node # id.node
Shared(node) == \E l \in DOMAIN scope_block : \E t \in {"obj", "tag"} :
    \E n \in DOMAIN scope_block[l][t] : scope_block[l][t][n].node = node

\* The constructs the code treats as the language does, or that are Known
Understood(n, d, node) ==
    /\ Under(2).at \in {"unit", "block"} /\ d.lk \in {"internal", "external"} =>
        /\ Inherits(n, node) /\ Shared(node) => "shared_type" \in Known
        /\ ~AtFile /\ "block_extern" \notin Known =>
                LET id == Lookup("obj", n, current_block)
                IN  id.tok # 0 => storage[id.node].lk = "external"
    /\ Top.fn /\ Under(2).at = "list" => "function_parameter" \in Known

\* Type::declare of the declarator on top, whose type has the node in st
DeclareObject(d, node, st) ==
    /\ Legal(d) /\ Understood(Top.n, d, node) /\ RoomFor(1)
    /\ ObjDefine(Top.n, Top.fn, node, Under(1).su, current_block, st)
    /\ decls' = Append(decls, d)

\* The declarator on top as the language sees it
Declares ==
    LET t == Under(1)
        at == IF Under(2).at = "kr" THEN Append(path, Under(2).scope) ELSE path
        lk == IF Under(2).at \in {"kr", "list"} THEN "none"
              ELSE Linkage(Top.n, t.spec, Top.fn)
        fn == Top.fn /\ Under(2).at \in {"unit", "block"}
    IN  Declared("obj", at, Top.n, lk, fn, t.of)

Declare ==
    /\ Top.at = "declarator" /\ ~Top.ids
    /\ Does("objects") \/ Under(1).of # <<>>
    /\ Under(2).at \in {"unit", "block", "list"}
    /\ Top.fn /\ ~AtFile => Under(1).spec # "static"
    /\ DeclareObject(Declares, Under(1).node, storage)
    /\ reading' = IF Under(2).at = "list"
                  THEN SubSeq(reading, 1, Len(reading) - 2)
                  ELSE WithTop(Front(reading), [Under(1) EXCEPT !.count = @ + 1])
    /\ UNCHANGED <<subject, param_use, param_seen, param_block_nesting, label,
                   nesting, calls, path, opened, complete, made>>

\* The declaration of a parameter after an old-style list that names it
DeclareOld ==
    LET d == Declares
        of == {i \in DOMAIN decls : decls[i].entity = d.entity}
    IN  /\ Top.at = "declarator" /\ Under(2).at = "kr"
        /\ Top.fn => "function_parameter" \in Known
        /\ Cardinality(of) = 1 /\ RoomFor(1)
        /\ ObjDefine(Top.n, Top.fn, Under(1).node, Under(1).su, current_block, storage)
        /\ decls' = Append(decls, d)
        /\ reading' = WithTop(Front(reading), [Under(1) EXCEPT !.count = @ + 1])
        /\ UNCHANGED <<subject, param_use, param_seen, param_block_nesting, label,
                       nesting, calls, path, opened, complete, made>>

\* member_declarator: Tsu::add_member
DeclareMember ==
    LET s == Under(2)
        d == [Declared("member", path, Top.n, "none", FALSE, Under(1).of) EXCEPT
                !.entity = Entity("member", s.entity, Top.n, "none")]
    IN  /\ Top.at = "declarator" /\ s.at = "struct" /\ ~Top.fn /\ RoomFor(1)
        /\ Top.n \notin DOMAIN s.members
        /\ rep' = Append(rep, Here)
        /\ decls' = Append(decls, d)
        /\ reading' = SubSeq(reading, 1, Len(reading) - 3) \o
                <<[s EXCEPT !.members = @ @@ (Top.n :> Here)],
                  [Under(1) EXCEPT !.count = @ + 1]>>
        /\ UNCHANGED <<subject, blocks, functions, storage, errors, path, opened,
                       complete, made>>

\* Block::param_clear, for a level of blocks
ParamClear(level) ==
    /\ param_block' = NoBlock
    /\ param_seen' = FALSE
    /\ param_block_nesting' = level

\* A ';'.  At file level, external_definition calls Block::param_clear.
EndDeclaration ==
    /\ Top.at = "declaration"
    /\ Top.count > 0 \/ Top.of # <<>>
    /\ reading' = Front(reading)
    /\ IF Under(1).at = "unit" THEN ParamClear(current_block)
       ELSE UNCHANGED <<param_block, param_seen, param_block_nesting>>
    /\ UNCHANGED <<subject, scope_block, param_use, functions, storage, rep,
                   errors, history>>

-----------------------------------------------------------------------------
(* Functions and blocks                                                    *)

\* A declarator that a body follows: FCall::set_current_fun
DeclareFunction ==
    LET d == Declares
    IN  /\ Top.at = "declarator" /\ Top.fn /\ Top.lists > 0
        /\ Under(1).count = 0 /\ Under(1).spec # "typedef"
        /\ Under(2).at = "block" => Does("parameters") /\ Under(1).spec = "none"
        /\ Under(2).at \in {"unit", "block"}
        /\ Under(1).clean \/ (IF Under(2).at = "unit" THEN "list_in_type"
                              ELSE "nested_function") \in Known
        /\ d.entity \notin complete
        /\ IF Under(1).spec = "none" /\ ~Top.ids
           THEN \* the parser leaves out the type before the declarator
                DeclareObject(d, Len(storage) + 1, Append(storage, Unspecified))
           ELSE DeclareObject(d, Under(1).node, storage)
        /\ nesting' = Append(nesting, fcalls'[Here])
        /\ complete' = complete \cup {d.entity}
        /\ reading' = SubSeq(reading, 1, Len(reading) - 2) \o
                <<[at |-> "header", of |-> d.entity, scope |-> Top.scope]>>
        /\ UNCHANGED <<subject, param_use, param_seen, param_block_nesting, label,
                       calls, path, opened, made>>

\* function_brace_begin: Block::fn_body_enter.  The scope of the body is that
\* of the parameters.
FnBodyEnter ==
    /\ Top.at = "header"
    /\ opened < subject.scopes \/ Top.scope # 0
    /\ scope_block' = Append(scope_block, param_block)
    /\ param_use' = FALSE
    /\ ParamClear(current_block + 1)
    /\ path' = Append(path, IF Top.scope # 0 THEN Top.scope ELSE opened + 1)
    /\ opened' = IF Top.scope # 0 THEN opened ELSE opened + 1
    /\ reading' = WithTop(reading, [at |-> "block", of |-> Top.of, clean |-> TRUE])
    /\ UNCHANGED <<subject, functions, storage, rep, errors, decls, complete, made>>

\* brace_begin, and the start of a for statement: Block::enter
BlockEnter ==
    /\ Does("blocks") /\ Top.at = "block"
    /\ Enter
    /\ reading' = Push([at |-> "block", of |-> <<>>, clean |-> FALSE])
    /\ UNCHANGED <<subject, param_block, param_use, param_seen,
                   param_block_nesting, functions, storage, rep, errors, decls,
                   complete, made>>

\* Block::exit
Exit == /\ scope_block' = Front(scope_block)
        /\ ParamClear(current_block - 1)
        /\ path' = Front(path)
        /\ UNCHANGED param_use

Cleaned(r) == IF Last(r).at = "block" THEN WithTop(r, [Last(r) EXCEPT !.clean = TRUE])
              ELSE r

BlockExit ==
    /\ Top.at = "block" /\ Top.of = <<>>
    /\ Exit
    /\ reading' = Cleaned(Front(reading))
    /\ UNCHANGED <<subject, functions, storage, rep, errors, opened, decls,
                   complete, made>>

\* The end of a function: Call::unset_current_fun and, of one at file level,
\* Function::exit
FunctionExit ==
    /\ Top.at = "block" /\ Top.of # <<>>
    /\ Exit
    /\ nesting' = Front(nesting)
    /\ reading' = Cleaned(Front(reading))
    /\ \A i \in DOMAIN decls :
            decls[i].ns = "label" /\ IsPrefix(path, decls[i].path)
                => decls[i].entity \in complete
    /\ IF Len(nesting) = 1
       THEN /\ label' = << >>
            /\ errors' = errors \cup {label[n].tok : n \in
                            {m \in DOMAIN label : ~label[m].valid}}
       ELSE UNCHANGED <<label, errors>>
    /\ UNCHANGED <<subject, fcalls, calls, storage, rep, opened, decls, complete,
                   made>>

\* #pragma block_exit, block_enter and process: another unit of the project
NextUnit ==
    /\ Top.at = "unit" /\ -path[1] < subject.units
    /\ scope_block' = WithTop(scope_block, NoBlock)
    /\ ParamClear(cu_block)
    /\ path' = <<path[1] - 1>>
    /\ UNCHANGED <<subject, param_use, functions, storage, rep, errors, reading,
                   opened, decls, complete, made>>


-----------------------------------------------------------------------------
(* Expressions                                                             *)

\* Call::register_call: the current function calls f, as fcalls has it
CurrentFunction ==
    Last(SelectSeq(reading, LAMBDA f : f.at = "block" /\ f.of # <<>>)).of
RegisterCallFaulty(f) == calls' = calls \cup {<<Head(nesting), f>>}  \* mutant
RegisterCall(f) == calls' = calls \cup {<<Last(nesting), f>>}

\* primary_expression: a name, which may be that of a function
Use(n) ==
    LET id == Lookup("obj", n, current_block)
        d == Denoted("obj", n)
    IN  /\ Does("uses") /\ Top.at = "block" /\ RoomFor(1)
        /\ d # 0 /\ decls[d].lk # "typedef"
        /\ rep' = Unified(Append(rep, Here), id.tok, Here)
        /\ IF id.tok = 0
           THEN errors' = errors \cup {Here} /\ UNCHANGED calls
           ELSE /\ UNCHANGED errors
                /\ IF id.fn THEN RegisterCall(id.fc) ELSE UNCHANGED calls
        /\ decls' = Append(decls, Named("obj", n, decls[d].entity))
        /\ made' = IF decls[d].fn
                   THEN made \cup {<<CurrentFunction, decls[d].entity>>} ELSE made
        /\ UNCHANGED <<subject, blocks, label, nesting, fcalls, storage, reading,
                       path, opened, complete>>

\* Tidentifier::call: a call of what is not declared declares it, at file level
ImplicitCall(n) ==
    LET id == Lookup("obj", n, current_block)
        d == [Declared("obj", path, n, "external", TRUE, <<>>) EXCEPT
                !.implicit = TRUE]
    IN  /\ Top.at = "block" /\ Does("linkage") /\ RoomFor(1) /\ Usable(n)
        /\ Denoted("obj", n) = 0 /\ Legal(d)
        /\ IF id.tok = 0
           THEN /\ ObjDefine(n, TRUE, Len(storage) + 1, NoStruct, cu_block,
                             Append(storage, Unspecified))
                /\ RegisterCall(fcalls'[Here])
           ELSE /\ rep' = Unified(Append(rep, Here), id.tok, Here)
                /\ RegisterCall(id.fc)
                /\ UNCHANGED <<scope_block, param_block, storage, fcalls, errors>>
        /\ decls' = Append(decls, d)
        /\ made' = made \cup {<<CurrentFunction, d.entity>>}
        /\ UNCHANGED <<subject, param_use, param_seen, param_block_nesting, label,
                       nesting, reading, path, opened, complete>>

\* Tincomplete::get_complete_type
Completed(su) == IF su.kind # "incomplete" THEN su
                 ELSE LET id == In("tag", su.n, su.level)
                      IN  IF id.tok = 0 THEN su ELSE id.su

\* postfix_expression: n.m or n->m
Access(n, m) ==
    LET id == Lookup("obj", n, current_block)
        d == Denoted("obj", n)
        su == IF id.tok = 0 THEN NoStruct ELSE Completed(id.su)
        member == IF su.kind = "su" /\ m \in DOMAIN su.members THEN su.members[m]
                  ELSE 0
        entity == Entity("member", decls[d].su, m, "none")
    IN  /\ Top.at = "block" /\ Does("tags") /\ RoomFor(2)
        /\ d # 0 /\ decls[d].lk # "typedef" /\ ~decls[d].fn
        /\ decls[d].su \in complete
        /\ \E i \in DOMAIN decls : decls[i].entity = entity
        /\ rep' = Unified(Unified(rep \o <<Here, Here + 1>>, id.tok, Here),
                          member, Here + 1)
        /\ errors' = errors \cup {t \in {Here, Here + 1} :
                                    (IF t = Here THEN id.tok ELSE member) = 0}
        /\ decls' = decls \o <<Named("obj", n, decls[d].entity),
                               Named("member", m, entity)>>
        /\ UNCHANGED <<subject, blocks, functions, storage, reading, path, opened,
                       complete, made>>

-----------------------------------------------------------------------------
(* Labels                                                                  *)

\* local_label_define: __label__ n, where a block begins
LocalLabel(n) ==
    LET d == Declared("label", path, n, "none", FALSE, <<>>)
    IN  /\ Does("labels") /\ Top.at = "block" /\ RoomFor(1) /\ Usable(n)
        /\ \A i \in DOMAIN decls : IsPrefix(path, decls[i].path) =>
                decls[i].ns = "label" /\ decls[i].decl
        /\ Legal(d)
        /\ scope_block' = [scope_block EXCEPT ![current_block].local_label =
                (n :> [tok |-> Here, valid |-> FALSE]) @@ @]
        /\ rep' = Append(rep, Here)
        /\ decls' = Append(decls, d)
        /\ UNCHANGED <<subject, param_block, param_use, param_seen,
                       param_block_nesting, functions, storage, errors, reading,
                       path, opened, complete, made>>

\* The label that a name denotes: a local one, or of the function
LabelEntity(n) == LET d == Denoted("label", n)
                  IN  IF d # 0 THEN decls[d].entity
                      ELSE Entity("label", SubSeq(path, 1, 2), n, "none")

LocalLabelLookup(n) ==
    LET at == {l \in cu_block .. current_block : n \in DOMAIN scope_block[l].local_label}
    IN  IF at = {} THEN 0 ELSE scope_block[Max(at)].local_label[n].tok

FunctionLabel(n) == IF n \in DOMAIN label THEN label[n] ELSE [tok |-> 0, valid |-> FALSE]

\* label_use
LabelUse(n) ==
    LET local == LocalLabelLookup(n)
        old == IF local # 0 THEN local ELSE FunctionLabel(n).tok
    IN  /\ Does("labels") /\ Top.at = "block" /\ RoomFor(1) /\ Usable(n)
        /\ rep' = Unified(Append(rep, Here), old, Here)
        /\ label' = IF old # 0 THEN label
                    ELSE (n :> [tok |-> Here, valid |-> FALSE]) @@ label
        /\ decls' = Append(decls, Named("label", n, LabelEntity(n)))
        /\ UNCHANGED <<subject, blocks, nesting, fcalls, calls, storage, errors,
                       reading, path, opened, complete, made>>

\* label_define
LabelDefine(n) ==
    LET local == LocalLabelLookup(n)
        l == IF local # 0
             THEN scope_block[Max({k \in cu_block .. current_block :
                        n \in DOMAIN scope_block[k].local_label})].local_label[n]
             ELSE FunctionLabel(n)
        new == n :> [tok |-> Here, valid |-> TRUE]
    IN  /\ Does("labels") /\ Top.at = "block" /\ RoomFor(1) /\ Usable(n)
        /\ LabelEntity(n) \notin complete
        /\ rep' = Unified(Append(rep, Here), l.tok, Here)
        /\ errors' = IF l.valid THEN errors \cup {Here} ELSE errors
        /\ IF local # 0
           THEN /\ scope_block' = [scope_block EXCEPT
                        ![current_block].local_label = new @@ @]
                /\ UNCHANGED label
           ELSE label' = new @@ label /\ UNCHANGED scope_block
        /\ decls' = Append(decls, Named("label", n, LabelEntity(n)))
        /\ complete' = complete \cup {LabelEntity(n)}
        /\ UNCHANGED <<subject, param_block, param_use, param_seen,
                       param_block_nesting, nesting, fcalls, calls, storage,
                       reading, path, opened, made>>

-----------------------------------------------------------------------------
DInit ==
    /\ subject \in Subject
    /\ scope_block = <<NoBlock, NoBlock>>
    /\ param_block = NoBlock /\ param_use = FALSE /\ param_seen = FALSE
    /\ param_block_nesting = cu_block
    /\ label = << >> /\ nesting = <<>> /\ fcalls = << >> /\ calls = {}
    /\ storage = <<>> /\ rep = <<>> /\ errors = {}
    /\ reading = <<[at |-> "unit"]>>
    /\ path = <<-1>> /\ opened = 0 /\ decls = <<>>
    /\ complete = {} /\ made = {}

Declaring ==
    \/ \E spec \in Specifier :
          \/ BeginDeclaration(spec)
          \/ \E n \in Name : \/ BeginTagged(spec, n) \/ BeginStruct(spec, n)
                             \/ BeginTypedefd(spec, n)
    \/ EndStruct
    \/ \E n \in Name : Declarator(n) \/ Identifier(n)
    \/ EmptyList \/ \E fn \in BOOLEAN : OpenList(fn)
    \/ CloseList \/ OpenIds \/ CloseIds \/ ParamUseBegin \/ ParamUseEnd
    \/ Declare \/ DeclareOld \/ DeclareMember \/ EndDeclaration

Executing ==
    \/ DeclareFunction \/ FnBodyEnter \/ FunctionExit \/ BlockEnter \/ BlockExit
    \/ \E n \in Name : \/ Use(n) \/ ImplicitCall(n) \/ \E m \in Name : Access(n, m)
                       \/ LocalLabel(n) \/ LabelUse(n) \/ LabelDefine(n)

DNext == Declaring \/ Executing \/ NextUnit

DSpec == DInit /\ [][DNext]_dvars

-----------------------------------------------------------------------------
(* Properties                                                              *)

\* Two tokens are unified when, and only when, they denote one identifier:
\* whatever the order of declarations and uses, units, scopes and labels.  The
\* tag of a structure waits for the end of its members.
NamesResolved ==
    \A i, j \in DOMAIN decls :
        ~Open(decls[i].entity) /\ ~Open(decls[j].entity) =>
            (rep[i] = rep[j] <=> decls[i].entity = decls[j].entity)

\* A block holds the objects that were declared in its scope and no other: the
\* body of a function those of its own list of parameters (stab.h), whatever
\* lists its declarator, its parameters and the declarations before have.
\* Between the declarations at file level nothing is left of parameters
\* (external_definition of parse.y).
ScopesExact ==
    /\ current_block = Len(path) + 1
    /\ Top.at = "unit" =>
        /\ param_block = NoBlock /\ ~param_use /\ ~param_seen
        /\ param_block_nesting = cu_block
        /\ nesting = <<>> /\ label = << >>
    /\ \A l \in cu_block + 1 .. current_block :
           DOMAIN scope_block[l].obj =
               {decls[i].n : i \in {k \in DOMAIN decls :
                   /\ decls[k].decl /\ decls[k].ns = "obj" /\ ~decls[k].implicit
                   /\ decls[k].path = SubSeq(path, 1, l - 1)}}

\* The graph of calls: one function for each function of the program, and a
\* call where a body names it (call.h: "a Call * is stored with each Id").
CallsExact ==
    /\ \A i, j \in DOMAIN fcalls :
            fcalls[i] = fcalls[j] <=> decls[i].entity = decls[j].entity
    /\ \A c \in calls : {c[1], c[2]} \subseteq DOMAIN decls
    /\ {<<decls[c[1]].entity, decls[c[2]].entity>> : c \in calls} = made

\* No error is reported for a program that has none.
NoFalseErrors == errors = {}
=============================================================================

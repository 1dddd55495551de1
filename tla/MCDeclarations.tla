--------------------------- MODULE MCDeclarations ---------------------------
(***************************************************************************)
(* Declarations over two names: programs of several kinds, each with the   *)
(* constructs, names, tokens, scopes and units it may have; and, in other  *)
(* states, Types and Initializers for programs of their own.               *)
(***************************************************************************)
EXTENDS Declarations, MCTypes

CONSTANTS x, y

MCName == {x, y}

Kind(does, names, tokens, scopes, units) ==
    [does |-> does, names |-> names, tokens |-> tokens, scopes |-> scopes,
     units |-> units]

\* Linkage and scopes; parameters; labels; tags; and some of them together
MCSubject ==
    {Kind({"objects", "uses", "linkage", "blocks"}, 1, 4, 3, 1),
     Kind({"objects", "uses", "linkage", "blocks"}, 1, 4, 2, 2),
     Kind({"objects", "uses", "linkage"}, 2, 3, 1, 2),
     Kind({"objects", "uses", "linkage", "parameters"}, 1, 3, 2, 1),
     Kind({"objects", "uses", "parameters"}, 2, 4, 2, 1),
     Kind({"objects", "uses", "parameters"}, 2, 3, 3, 1),
     Kind({"objects", "uses", "parameters"}, 1, 4, 4, 1),
     Kind({"objects", "uses", "parameters", "tags"}, 1, 3, 2, 1),
     Kind({"objects", "tags"}, 1, 5, 2, 1),
     Kind({"tags"}, 1, 8, 1, 1),
     Kind({"labels", "blocks"}, 2, 4, 3, 1),
     Kind({"labels", "blocks"}, 1, 5, 3, 1)}

MCInit ==
    /\ DInit /\ TStart /\ IInit
    /\ \/ program = <<>>
       \/ program \in Program /\ subject = CHOOSE s \in Subject : TRUE
MCNext ==
    \/ program = <<>> /\ DNext /\ UNCHANGED <<tvars, ivars>>
    \/ program # <<>> /\ INext /\ UNCHANGED dvars
MCSpec == MCInit /\ [][MCNext]_<<dvars, tvars, ivars>>

Symmetry == Permutations(MCName)
=============================================================================

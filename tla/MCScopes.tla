--------------------------------- MODULE MCScopes ---------------------------------
(***************************************************************************)
(* An instance of Scopes with two names.  Statements that need nothing     *)
(* else to matter are dearer, so that programs nest up to four deep.       *)
(***************************************************************************)
EXTENDS Scopes, TLC

MCKinds == {"param", "let", "assign", "use", "return", "block", "if", "while", "for"}
MCCost == [k \in MCKinds |-> IF k \in {"let", "block", "if"} THEN 2 ELSE IF k = "use" THEN 1 ELSE 3]
Symmetry == Permutations(Names)

===============================================================================

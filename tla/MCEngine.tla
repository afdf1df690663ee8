------------------------------ MODULE MCEngine ------------------------------
(***************************************************************************)
(* Constants for checking Engine.  Two sessions contend: one runs up to    *)
(* three statements (BEGIN, a statement that fails, COMMIT is the longest  *)
(* path through TxnSlot), the other one, with or without a transaction.    *)
(***************************************************************************)
EXTENDS Engine, TLC

CONSTANTS s1, s2

MCSessions == {s1, s2}
MCStatements == (s1 :> 3) @@ (s2 :> 1)
Symmetry == Permutations(Workers)
=============================================================================

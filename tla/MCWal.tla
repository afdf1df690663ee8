------------------------------- MODULE MCWal --------------------------------
(* Wal for TLC: the transactions are interchangeable, and all properties of  *)
(* the run are safety properties.                                            *)
EXTENDS Wal

Symmetry == Permutations(Txns)
=============================================================================

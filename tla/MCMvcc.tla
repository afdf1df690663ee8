------------------------------- MODULE MCMvcc -------------------------------
(* Small instances of Mvcc for TLC.                                        *)
EXTENDS Mvcc

\* Three transactions of one row each; two of two rows, whose rollbacks may fail
\* half-way.
MCLimits ==
    {[txns |-> 3, rows |-> 1, undoFails |-> FALSE],
     [txns |-> 2, rows |-> 2, undoFails |-> TRUE]}
=============================================================================

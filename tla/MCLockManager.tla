--------------------------- MODULE MCLockManager ---------------------------
(***************************************************************************)
(* Model-checking instance of LockManager, and the graph search of         *)
(* would_deadlock as the code runs it (a stack and a visited set), checked *)
(* against the closed-set definition LockManager uses.                     *)
(***************************************************************************)
EXTENDS LockManager, SequencesExt

\* The while loop of would_deadlock.  Pushing a holder list is order-free here:
\* the answer does not depend on the order, only on what is reached.
RECURSIVE Walk(_, _, _)
Walk(start, stack, visited) ==
    IF stack = <<>> THEN FALSE
    ELSE LET txn_id == Last(stack)
             rest   == Front(stack)
         IN  IF txn_id = start THEN TRUE
             ELSE IF txn_id \in visited THEN Walk(start, rest, visited)
             ELSE Walk(start, rest \o SetToSeq(WaitsOn(txn_id)), visited \cup {txn_id})

\* The stack search and the closed-set definition agree in every reachable state,
\* for every transaction that could be about to wait and every set of blockers.
SearchAgrees ==
    \A t \in Txn : ~Blocked(t) =>
        \A B \in SUBSET (Txn \ {t}) :
            would_deadlock(t, B) = Walk(t, SetToSeq(B), {})
=============================================================================

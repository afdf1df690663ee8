------------------------- MODULE SnapshotIsolation -------------------------
(***************************************************************************)
(* What the engine promises to a transaction: every read of a table        *)
(* returns the rows committed before the transaction began plus its own,   *)
(* a commit publishes all of a transaction's rows at once, and an abort    *)
(* publishes none.  Mvcc is shown to implement this specification.         *)
(***************************************************************************)
CONSTANTS Txn, Row

VARIABLES
    running,    \* the transactions that have begun and not yet ended
    committed,  \* the rows every later transaction sees
    snapshot,   \* per transaction, what was committed when it began
    own,        \* per transaction, the rows it has inserted
    reply       \* per transaction, what its last read returned

siVars == <<running, committed, snapshot, own, reply>>

SIInit ==
    /\ running = {}
    /\ committed = {}
    /\ snapshot = [t \in Txn |-> {}]
    /\ own = [t \in Txn |-> {}]
    /\ reply = [t \in Txn |-> {}]

SIBegin(t) ==
    /\ t \notin running
    /\ running' = running \cup {t}
    /\ snapshot' = [snapshot EXCEPT ![t] = committed]
    /\ UNCHANGED <<committed, own, reply>>

SIInsert(t, row) ==
    /\ t \in running
    /\ row \notin committed
    /\ \A u \in Txn : row \notin own[u]
    /\ own' = [own EXCEPT ![t] = @ \cup {row}]
    /\ UNCHANGED <<running, committed, snapshot, reply>>

SIRead(t) ==
    /\ t \in running
    /\ reply' = [reply EXCEPT ![t] = snapshot[t] \cup own[t]]
    /\ UNCHANGED <<running, committed, snapshot, own>>

SILeave(t) ==
    /\ t \in running
    /\ running' = running \ {t}
    /\ snapshot' = [snapshot EXCEPT ![t] = {}]
    /\ own' = [own EXCEPT ![t] = {}]
    /\ reply' = [reply EXCEPT ![t] = {}]

SICommit(t) == SILeave(t) /\ committed' = committed \cup own[t]
SIAbort(t)  == SILeave(t) /\ UNCHANGED committed

SINext ==
    \E t \in Txn :
        \/ SIBegin(t)
        \/ \E row \in Row : SIInsert(t, row)
        \/ SIRead(t)
        \/ SICommit(t)
        \/ SIAbort(t)

SISpec == SIInit /\ [][SINext]_siVars
=============================================================================

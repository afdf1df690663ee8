---------------------------- MODULE LockManager ----------------------------
(***************************************************************************)
(* The lock manager of crates/txn: strict two-phase locking over rows and  *)
(* tables, a wait-for graph searched before every wait, a condition        *)
(* variable that release_all notifies, and a deadline per acquisition.     *)
(*                                                                         *)
(* One iteration of acquire's loop runs under the state mutex and is one   *)
(* action.  A thread blocked in the condition variable holds no mutex, so  *)
(* other threads' actions interleave there and only there.  Transactions   *)
(* are driven as the TransactionManager drives them: begin hands out the   *)
(* next id, and the end of a transaction (commit or finish_abort, both     *)
(* under the manager's mutex) calls release_all and then prune_finished.   *)
(***************************************************************************)
EXTENDS Naturals, FiniteSets

CONSTANTS
    MaxTxns,     \* bound on the number of transactions begun in a behaviour
    Resource,    \* rows and tables, told apart only by identity
    Timeout      \* wait budget in clock ticks; 0 means wait for ever

ASSUME LockAssumption == MaxTxns \in Nat /\ Timeout \in Nat

VARIABLES
    holders,      \* State.holders: per resource, the granted <<txn, mode>> entries
    held_by,      \* State.held_by: per transaction, the resources it has locks on
    waiting_for,  \* State.waiting_for: the blocked requests, as the graph search sees them
    finished,     \* State.finished: transactions release_all has run for
    request,      \* the arguments of the acquire call a thread is blocked in
    budget,       \* what is left of that call's deadline
    notified,     \* blocked threads a notify_all has woken
    outcome,      \* what the last acquire of a transaction returned
    next_txn_id,  \* TransactionManager.next_txn_id
    active,       \* TransactionManager.active
    ending        \* the transaction between release_all and prune_finished

lockVars == <<holders, held_by, waiting_for, finished>>
callVars == <<request, budget, notified, outcome>>
txnVars  == <<next_txn_id, active, ending>>
vars     == <<lockVars, callVars, txnVars>>

Txn  == 1..MaxTxns
Mode == {"Shared", "Exclusive"}
None == {}                     \* an absent map entry; a present one is a singleton

Requests == Resource \X Mode
MaybeRequest == {None} \cup {{q} : q \in Requests}
Outcomes == {"none", "ok", "LockAfterUnlock", "DeadlockVictim", "LockTimeout"}

conflicts_with(m, n) == ~(m = "Shared" /\ n = "Shared")

conflicting_holders(h, r, m, exclude) ==
    {t \in Txn \ {exclude} :
        \E n \in Mode : <<t, n>> \in h[r] /\ conflicts_with(n, m)}

\* Edges of the wait-for graph: the transactions that t's blocked request waits on.
WaitsOn(t) ==
    {u \in Txn : \E q \in waiting_for[t] :
                    u \in conflicting_holders(holders, q[1], q[2], t)}

-----------------------------------------------------------------------------
(* would_deadlock walks the graph from the blockers and reports whether it *)
(* meets start.  What it visits is the least set that holds the blockers   *)
(* and is closed under WaitsOn, so start is met iff every such set has it. *)

ClosedUnderWaits(C) == \A t \in C : WaitsOn(t) \subseteq C

\* Mutant of would_deadlock: only a blocker that waits directly on start is seen.
DirectDeadlock(start, blockers) == \E b \in blockers : start \in WaitsOn(b)

would_deadlock(start, blockers) ==
    \A C \in SUBSET Txn :
        (blockers \subseteq C /\ ClosedUnderWaits(C)) => start \in C

-----------------------------------------------------------------------------
(* The outcomes of one iteration of acquire's loop, for a call of t on     *)
(* resource r in mode m.  Each ends the call with Return or blocks it.     *)

Return(t, result) ==
    /\ outcome' = [outcome EXCEPT ![t] = result]
    /\ request' = [request EXCEPT ![t] = None]
    /\ waiting_for' = [waiting_for EXCEPT ![t] = None]
    /\ budget' = [budget EXCEPT ![t] = 0]
    /\ notified' = notified \ {t}

AlreadyHeld(t, r, m) == holders[r] \cap {<<t, "Exclusive">>, <<t, m>>} # {}

Blockers(t, r, m) == conflicting_holders(holders, r, m, t)

AcquireHeld(t, r, m) ==
    /\ AlreadyHeld(t, r, m)
    /\ Return(t, "ok")
    /\ UNCHANGED <<holders, held_by>>

\* Mutants of AcquireGrant: an upgrade keeps the old entry; held_by is not told.
GrantKeepsShared(t, r, m) ==
    /\ ~AlreadyHeld(t, r, m)
    /\ Blockers(t, r, m) = {}
    /\ holders' = [holders EXCEPT ![r] = @ \cup {<<t, m>>}]
    /\ held_by' = [held_by EXCEPT ![t] = @ \cup {r}]
    /\ Return(t, "ok")

GrantUnindexed(t, r, m) ==
    /\ ~AlreadyHeld(t, r, m)
    /\ Blockers(t, r, m) = {}
    /\ holders' = [holders EXCEPT ![r] = (@ \ ({t} \X Mode)) \cup {<<t, m>>}]
    /\ Return(t, "ok")
    /\ UNCHANGED held_by

AcquireGrant(t, r, m) ==
    /\ ~AlreadyHeld(t, r, m)
    /\ Blockers(t, r, m) = {}
    /\ holders' = [holders EXCEPT ![r] = (@ \ ({t} \X Mode)) \cup {<<t, m>>}]
    /\ held_by' = [held_by EXCEPT ![t] = @ \cup {r}]
    /\ Return(t, "ok")

AcquireVictim(t, r, m) ==
    /\ ~AlreadyHeld(t, r, m)
    /\ Blockers(t, r, m) # {}
    /\ would_deadlock(t, Blockers(t, r, m))
    /\ Return(t, "DeadlockVictim")
    /\ UNCHANGED <<holders, held_by>>

AcquireTimeout(t, r, m, remaining) ==
    /\ ~AlreadyHeld(t, r, m)
    /\ Blockers(t, r, m) # {}
    /\ ~would_deadlock(t, Blockers(t, r, m))
    /\ Timeout # 0 /\ remaining = 0
    /\ Return(t, "LockTimeout")
    /\ UNCHANGED <<holders, held_by>>

AcquireBlock(t, r, m, remaining) ==
    /\ ~AlreadyHeld(t, r, m)
    /\ Blockers(t, r, m) # {}
    /\ ~would_deadlock(t, Blockers(t, r, m))
    /\ Timeout = 0 \/ remaining # 0
    /\ waiting_for' = [waiting_for EXCEPT ![t] = {<<r, m>>}]
    /\ request' = [request EXCEPT ![t] = {<<r, m>>}]
    /\ budget' = [budget EXCEPT ![t] = remaining]
    /\ notified' = notified \ {t}
    /\ UNCHANGED <<holders, held_by, outcome>>

Attempt(t, r, m, remaining) ==
    \/ AcquireHeld(t, r, m)
    \/ AcquireGrant(t, r, m)
    \/ AcquireVictim(t, r, m)
    \/ AcquireTimeout(t, r, m, remaining)
    \/ AcquireBlock(t, r, m, remaining)

-----------------------------------------------------------------------------
(* The actions. *)

Blocked(t) == request[t] # None

\* A statement of t that was refused a lock is the last one t runs: the session
\* aborts an autocommit transaction at once and refuses further statements of an
\* explicit one until it is rolled back.
MayLock(t) == t \in active /\ ~Blocked(t) /\ outcome[t] \in {"none", "ok"}

\* acquire, entered by a running transaction: the deadline is set here, once.
Acquire(t, r, m) ==
    /\ MayLock(t)
    /\ t \notin finished
    /\ Attempt(t, r, m, Timeout)
    /\ UNCHANGED <<finished, txnVars>>

\* acquire, entered for a transaction that has ended but is still remembered.
AcquireAfterUnlock(t) ==
    /\ t \in finished
    /\ outcome' = [outcome EXCEPT ![t] = "LockAfterUnlock"]
    /\ UNCHANGED <<lockVars, request, budget, notified, txnVars>>

\* A blocked thread wakes (notified, timed out or spuriously) and tries again.
Retry(t) ==
    /\ \E q \in request[t] : Attempt(t, q[1], q[2], budget[t])
    /\ UNCHANGED <<finished, txnVars>>

\* Time passes for every blocked call that has a deadline.
Tick ==
    /\ \E t \in Txn : Blocked(t) /\ budget[t] > 0
    /\ budget' = [t \in Txn |-> IF budget[t] > 0 THEN budget[t] - 1 ELSE 0]
    /\ UNCHANGED <<lockVars, request, notified, outcome, txnVars>>

Begin ==
    /\ ending = None
    /\ next_txn_id \in Txn
    /\ active' = active \cup {next_txn_id}
    /\ next_txn_id' = next_txn_id + 1
    /\ UNCHANGED <<lockVars, callVars, ending>>

\* Mutant of release_all: no waiter is notified.
ReleaseFrom(t) ==
    /\ holders' = [r \in Resource |-> holders[r] \ ({t} \X Mode)]
    /\ held_by' = [held_by EXCEPT ![t] = {}]
    /\ waiting_for' = [waiting_for EXCEPT ![t] = None]
    /\ finished' = finished \cup {t}

ReleaseSilently(t) == ReleaseFrom(t) /\ UNCHANGED notified

release_all(t) ==
    /\ holders' = [r \in Resource |->
                     IF r \in held_by[t] THEN holders[r] \ ({t} \X Mode) ELSE holders[r]]
    /\ held_by' = [held_by EXCEPT ![t] = {}]
    /\ waiting_for' = [waiting_for EXCEPT ![t] = None]
    /\ finished' = finished \cup {t}
    /\ notified' = {u \in Txn : Blocked(u)}

\* commit and finish_abort: the transaction leaves the active set and its locks go.
\* The session's thread makes this call, so t is not blocked in acquire.
End(t) ==
    /\ ending = None
    /\ t \in active /\ ~Blocked(t)
    /\ active' = active \ {t}
    /\ release_all(t)
    /\ ending' = {t}
    /\ UNCHANGED <<request, budget, outcome, next_txn_id>>

\* prune_finished(oldest_active_txn_id()): with no active transaction the watermark
\* is next_txn_id, above every id, and nothing is kept.
PruneFinished ==
    /\ ending # None
    /\ finished' = {id \in finished : \E a \in active : id >= a}
    /\ ending' = None
    /\ UNCHANGED <<holders, held_by, waiting_for, callVars, next_txn_id, active>>

-----------------------------------------------------------------------------
Init ==
    /\ holders = [r \in Resource |-> {}]
    /\ held_by = [t \in Txn |-> {}]
    /\ waiting_for = [t \in Txn |-> None]
    /\ finished = {}
    /\ request = [t \in Txn |-> None]
    /\ budget = [t \in Txn |-> 0]
    /\ notified = {}
    /\ outcome = [t \in Txn |-> "none"]
    /\ next_txn_id = 1
    /\ active = {}
    /\ ending = None

\* Every transaction of the bounded behaviour has run and ended.
Quiescent ==
    /\ next_txn_id > MaxTxns /\ active = {} /\ ending = None
    /\ UNCHANGED vars

Next ==
    \/ \E t \in Txn, r \in Resource, m \in Mode : Acquire(t, r, m)
    \/ \E t \in Txn : AcquireAfterUnlock(t)
    \/ \E t \in Txn : Retry(t)
    \/ Tick
    \/ Begin
    \/ \E t \in Txn : End(t)
    \/ PruneFinished
    \/ Quiescent

Spec == Init /\ [][Next]_vars

\* Scheduling the code can rely on: a woken thread runs, and a transaction that is not
\* blocked ends some day.  Spurious wake-ups and the clock are not relied on.
FairSpec ==
    /\ Spec
    /\ \A t \in Txn : WF_vars(t \in notified /\ Retry(t))
    /\ \A t \in Txn : WF_vars(End(t))
    /\ WF_vars(PruneFinished)

-----------------------------------------------------------------------------
(* Properties. *)

\* Every variable of the lock manager and of the blocked calls stays in its type.
TypeOK ==
    /\ holders \in [Resource -> SUBSET (Txn \X Mode)]
    /\ held_by \in [Txn -> SUBSET Resource]
    /\ waiting_for \in [Txn -> MaybeRequest]
    /\ finished \subseteq Txn
    /\ request \in [Txn -> MaybeRequest]
    /\ budget \in [Txn -> 0..Timeout]
    /\ notified \subseteq Txn
    /\ outcome \in [Txn -> Outcomes]
    /\ next_txn_id \in 1..MaxTxns + 1
    /\ active \subseteq Txn
    /\ ending \in {None} \cup {{t} : t \in Txn}

\* Two entries granted on one resource never conflict unless they belong to the
\* same transaction, and then they are the same entry: an upgrade replaces the
\* shared entry and waits for every other reader (acquire's conflict test).
GrantsCompatible ==
    \A r \in Resource : \A g, h \in holders[r] :
        conflicts_with(g[2], h[2]) => g = h

\* held_by is exactly the inverse of holders.  release_all visits only the
\* resources held_by names, so a grant missing there would never be released.
HeldByAgrees ==
    \A t \in Txn, r \in Resource :
        r \in held_by[t] <=> \E m \in Mode : <<t, m>> \in holders[r]

\* The wait-for graph has no cycle: no set of blocked transactions each of which
\* waits on another of the set.  Waits are checked only when they start, while
\* grants and upgrades made later add edges to waits that already exist.
NoWaitCycle ==
    \A S \in SUBSET Txn :
        S # {} => \E t \in S : WaitsOn(t) \cap S = {}

\* A transaction that has ended holds no lock, waits for none, and cannot be
\* what another transaction waits on (release_all, finished).
EndedHoldNothing ==
    \A t \in Txn \ active :
        /\ held_by[t] = {} /\ waiting_for[t] = None
        /\ \A u \in Txn : t \notin WaitsOn(u)

\* The graph search sees exactly the calls that are blocked: no edge is left by
\* a call that returned (a stale edge would make a victim of an innocent
\* transaction), and no blocked call is missing from the graph.
GraphIsBlockedCalls == waiting_for = request

\* The two tables the lock manager keeps beside its grants and its blocked calls, the
\* index release_all walks and the graph would_deadlock searches, always agree with them.
TablesAgree == HeldByAgrees /\ GraphIsBlockedCalls

\* No wake-up is lost: a call still blocked although nothing blocks it any more
\* has been notified (release_all notifies every waiter, under the mutex).
NoMissedWakeup ==
    \A t \in Txn : (Blocked(t) /\ WaitsOn(t) = {}) => t \in notified

\* Not everyone is stuck: while some call is blocked, either a blocked call has
\* been woken or a transaction that is not blocked still has to end and will
\* release its locks.  It needs the graph search and the notification together.
SomeoneCanRun ==
    (\E t \in Txn : Blocked(t)) =>
        \E t \in active : t \in notified \/ ~Blocked(t)

\* Strict two-phase locking: while a transaction is active it never loses a lock
\* and never has an exclusive lock weakened.
KeepsLocks ==
    \A t \in active' : \A r \in held_by[t] :
        /\ r \in held_by'[t]
        /\ <<t, "Exclusive">> \in holders[r] => <<t, "Exclusive">> \in holders'[r]
StrictTwoPhase == [][KeepsLocks]_vars

\* The deadline of a call is fixed when the call starts: however often it is woken
\* and finds the lock taken again, the time it has left never grows, so that no
\* stream of releases keeps it waiting past its timeout.
DeadlineKept ==
    \A t \in Txn : (Blocked(t) /\ request'[t] # None) => budget'[t] <= budget[t]
DeadlineNotExtended == [][DeadlineKept]_vars

\* Every acquire returns (granted or as a victim) even when it has no deadline:
\* there is no deadlock and no lost wake-up.
EveryCallReturns == \A t \in Txn : Blocked(t) ~> ~Blocked(t)

=============================================================================

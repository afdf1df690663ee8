------------------------- MODULE LockManagerProofs -------------------------
(***************************************************************************)
(* Proofs about LockManager for every number of transactions, every set of *)
(* resources and every timeout.                                            *)
(***************************************************************************)
EXTENDS LockManager, TLAPS

-----------------------------------------------------------------------------
(* Type correctness. *)

LEMMA AttemptType ==
    ASSUME TypeOK, NEW t \in Txn, NEW r \in Resource, NEW m \in Mode,
           NEW b \in 0..Timeout, Attempt(t, r, m, b)
    PROVE  /\ holders' \in [Resource -> SUBSET (Txn \X Mode)]
           /\ held_by' \in [Txn -> SUBSET Resource]
           /\ waiting_for' \in [Txn -> MaybeRequest]
           /\ request' \in [Txn -> MaybeRequest]
           /\ budget' \in [Txn -> 0..Timeout]
           /\ notified' \subseteq Txn
           /\ outcome' \in [Txn -> Outcomes]
<1>1. None \in MaybeRequest /\ {<<r, m>>} \in MaybeRequest
  BY DEF MaybeRequest, Requests
<1>2. {"ok", "DeadlockVictim", "LockTimeout"} \subseteq Outcomes
  BY DEF Outcomes
<1>3. 0 \in 0..Timeout
  BY LockAssumption
<1>4. CASE AcquireHeld(t, r, m)
  BY <1>1, <1>2, <1>3, <1>4 DEF TypeOK, AcquireHeld, Return
<1>5. CASE AcquireGrant(t, r, m)
  BY <1>1, <1>2, <1>3, <1>5 DEF TypeOK, AcquireGrant, Return
<1>6. CASE AcquireVictim(t, r, m)
  BY <1>1, <1>2, <1>3, <1>6 DEF TypeOK, AcquireVictim, Return
<1>7. CASE AcquireTimeout(t, r, m, b)
  BY <1>1, <1>2, <1>3, <1>7 DEF TypeOK, AcquireTimeout, Return
<1>8. CASE AcquireBlock(t, r, m, b)
  BY <1>1, <1>8 DEF TypeOK, AcquireBlock
<1> QED
  BY <1>4, <1>5, <1>6, <1>7, <1>8 DEF Attempt

\* A blocked call's arguments are a resource and a mode.
LEMMA RequestType ==
    ASSUME TypeOK, NEW t \in Txn, NEW q \in request[t]
    PROVE  q[1] \in Resource /\ q[2] \in Mode
BY DEF TypeOK, MaybeRequest, Requests, None

LEMMA TypeStep == TypeOK /\ [Next]_vars => TypeOK'
<1> SUFFICES ASSUME TypeOK, [Next]_vars PROVE TypeOK'
  OBVIOUS
<1>1. ASSUME NEW t \in Txn, NEW r \in Resource, NEW m \in Mode, Acquire(t, r, m)
      PROVE  TypeOK'
  <2>1. Timeout \in 0..Timeout
    BY LockAssumption
  <2> QED
    BY <1>1, <2>1, AttemptType DEF TypeOK, Acquire, txnVars
<1>2. ASSUME NEW t \in Txn, AcquireAfterUnlock(t) PROVE TypeOK'
  BY <1>2 DEF TypeOK, AcquireAfterUnlock, lockVars, txnVars, Outcomes
<1>3. ASSUME NEW t \in Txn, Retry(t) PROVE TypeOK'
  <2>1. PICK q \in request[t] : Attempt(t, q[1], q[2], budget[t])
    BY <1>3 DEF Retry
  <2>2. budget[t] \in 0..Timeout
    BY DEF TypeOK
  <2> QED
    BY <1>3, <2>1, <2>2, RequestType, AttemptType DEF TypeOK, Retry, txnVars
<1>4. CASE Tick
  <2>1. \A t \in Txn : (IF budget[t] > 0 THEN budget[t] - 1 ELSE 0) \in 0..Timeout
    BY LockAssumption DEF TypeOK
  <2> QED
    BY <1>4, <2>1 DEF TypeOK, Tick, lockVars, txnVars
<1>5. CASE Begin
  BY <1>5, LockAssumption DEF TypeOK, Begin, lockVars, callVars, Txn
<1>6. ASSUME NEW t \in Txn, End(t) PROVE TypeOK'
  BY <1>6 DEF TypeOK, End, release_all, MaybeRequest
<1>7. CASE PruneFinished
  BY <1>7 DEF TypeOK, PruneFinished, callVars
<1>8. CASE UNCHANGED vars
  BY <1>8 DEF TypeOK, vars, lockVars, callVars, txnVars
<1> QED
  BY <1>1, <1>2, <1>3, <1>4, <1>5, <1>6, <1>7, <1>8 DEF Next, Quiescent

LEMMA TypeInit == Init => TypeOK
BY LockAssumption DEF Init, TypeOK, MaybeRequest, Outcomes

\* The lock manager's state and the blocked calls stay in their types.
THEOREM TypeCorrect == Spec => []TypeOK
BY TypeInit, TypeStep, PTL DEF Spec

-----------------------------------------------------------------------------
(* The inductive invariant.  None of the safety properties is inductive on *)
(* its own: release_all visits only what held_by names, the graph search   *)
(* walks waiting_for rather than the blocked calls, and a retry is safe    *)
(* only because a blocked transaction is still active.                     *)

\* What the transaction manager guarantees of the callers: an ended or not yet
\* begun transaction has no lock and no blocked call, and ids are never reused.
TxnsOK ==
    /\ \A t \in Txn : t \notin active => held_by[t] = {} /\ request[t] = None
    /\ \A t \in active \cup finished : t < next_txn_id
    /\ active \cap finished = {}

\* The safety properties of LockManager that hold together.
LockInv ==
    /\ GraphIsBlockedCalls
    /\ HeldByAgrees
    /\ GrantsCompatible
    /\ NoWaitCycle
    /\ NoMissedWakeup

IInv == TypeOK /\ TxnsOK /\ LockInv

\* The two facts about a call that returns without a grant: only t's wait goes.
Refused(t) ==
    /\ UNCHANGED <<holders, held_by>>
    /\ waiting_for' = [waiting_for EXCEPT ![t] = None]
    /\ request' = [request EXCEPT ![t] = None]
    /\ notified' = notified \ {t}

\* An iteration of acquire grants, blocks, or leaves only its own wait behind.
LEMMA AttemptCases ==
    ASSUME NEW t, NEW r, NEW m, NEW b, Attempt(t, r, m, b)
    PROVE  AcquireGrant(t, r, m) \/ AcquireBlock(t, r, m, b) \/ Refused(t)
BY DEF Attempt, AcquireHeld, AcquireVictim, AcquireTimeout, Return, Refused

\* The edges of a transaction depend only on its wait and on the grants.
LEMMA WaitsOnIff ==
    ASSUME NEW t \in Txn, NEW u \in Txn
    PROVE  u \in WaitsOn(t) <=>
             /\ u # t
             /\ \E q \in waiting_for[t], n \in Mode :
                    <<u, n>> \in holders[q[1]] /\ conflicts_with(n, q[2])
BY DEF WaitsOn, conflicting_holders

-----------------------------------------------------------------------------
(* The wait-for graph. *)

\* Removing edges makes no cycle.
LEMMA FewerEdges ==
    ASSUME NoWaitCycle, \A u \in Txn : WaitsOn(u)' \subseteq WaitsOn(u)
    PROVE  NoWaitCycle'
<1> SUFFICES ASSUME NEW S \in SUBSET Txn, S # {}
             PROVE  \E t \in S : WaitsOn(t)' \cap S = {}
  BY DEF NoWaitCycle
<1>1. PICK t \in S : WaitsOn(t) \cap S = {}
  BY DEF NoWaitCycle
<1> QED
  BY <1>1

\* A grant adds edges only into the transaction it is made to, which waits for
\* nothing, so it closes no cycle.
LEMMA EdgesToRunning ==
    ASSUME NoWaitCycle, NEW t \in Txn,
           WaitsOn(t)' = {},
           \A u \in Txn : WaitsOn(u)' \subseteq WaitsOn(u) \cup {t}
    PROVE  NoWaitCycle'
<1> SUFFICES ASSUME NEW S \in SUBSET Txn, S # {}
             PROVE  \E u \in S : WaitsOn(u)' \cap S = {}
  BY DEF NoWaitCycle
<1>1. CASE t \in S
  BY <1>1
<1>2. CASE t \notin S
  <2>1. PICK u \in S : WaitsOn(u) \cap S = {}
    BY DEF NoWaitCycle
  <2> QED
    BY <1>2, <2>1
<1> QED
  BY <1>1, <1>2

\* A wait that the search lets through closes no cycle.  The search failed to
\* reach t, so some closed set C holds the blockers and not t; a cycle through t
\* would leave a cycle inside C that was there before.
LEMMA CheckedWait ==
    ASSUME NoWaitCycle, NEW t \in Txn, NEW B \in SUBSET Txn,
           ~would_deadlock(t, B),
           WaitsOn(t)' = B,
           \A u \in Txn \ {t} : WaitsOn(u)' = WaitsOn(u)
    PROVE  NoWaitCycle'
<1> SUFFICES ASSUME NEW S \in SUBSET Txn, S # {}
             PROVE  \E u \in S : WaitsOn(u)' \cap S = {}
  BY DEF NoWaitCycle
<1>1. PICK C \in SUBSET Txn : B \subseteq C /\ ClosedUnderWaits(C) /\ t \notin C
  BY DEF would_deadlock
<1>2. CASE t \notin S
  <2>1. PICK u \in S : WaitsOn(u) \cap S = {}
    BY DEF NoWaitCycle
  <2> QED
    BY <1>2, <2>1
<1>3. CASE t \in S /\ B \cap S = {}
  BY <1>3
<1>4. CASE B \cap S # {}
  <2>1. S \cap C # {} /\ S \cap C \in SUBSET Txn
    BY <1>1, <1>4
  <2>2. PICK u \in S \cap C : WaitsOn(u) \cap (S \cap C) = {}
    BY <2>1 DEF NoWaitCycle
  <2>3. WaitsOn(u) \subseteq C /\ u # t
    BY <1>1, <2>2 DEF ClosedUnderWaits
  <2> QED
    BY <2>2, <2>3
<1> QED
  BY <1>2, <1>3, <1>4

-----------------------------------------------------------------------------
(* One iteration of acquire preserves the invariant.  What the rest of the *)
(* action leaves alone (finished, active, next_txn_id) is in the caller.   *)

\* A call that returns without a grant takes away t's edges and nothing else.
LEMMA RefusedStep ==
    ASSUME TypeOK, LockInv, NEW t \in Txn, Refused(t)
    PROVE  LockInv'
<1> USE DEF Refused
<1>1. waiting_for[t]' = None /\ \A u \in Txn \ {t} : waiting_for[u]' = waiting_for[u]
  BY DEF TypeOK
<1>2. WaitsOn(t)' = {}
  BY <1>1 DEF WaitsOn, None
<1>3. \A u \in Txn \ {t} : WaitsOn(u)' = WaitsOn(u)
  BY <1>1 DEF WaitsOn, conflicting_holders
<1>4. NoWaitCycle'
  BY <1>2, <1>3, FewerEdges DEF LockInv
<1>5. NoMissedWakeup'
  BY <1>3 DEF TypeOK, LockInv, NoMissedWakeup, Blocked
<1>6. GraphIsBlockedCalls'
  BY DEF LockInv, GraphIsBlockedCalls
<1>7. HeldByAgrees' /\ GrantsCompatible'
  BY DEF LockInv, HeldByAgrees, GrantsCompatible
<1> QED
  BY <1>4, <1>5, <1>6, <1>7 DEF LockInv

\* A wait starts only after the search, and only behind a conflicting holder.
LEMMA BlockStep ==
    ASSUME TypeOK, LockInv, NEW t \in Txn, NEW r \in Resource, NEW m \in Mode,
           NEW b, AcquireBlock(t, r, m, b)
    PROVE  LockInv'
<1> USE DEF AcquireBlock
<1>1. /\ waiting_for[t]' = {<<r, m>>}
      /\ \A u \in Txn \ {t} : waiting_for[u]' = waiting_for[u]
  BY DEF TypeOK
<1>2. WaitsOn(t)' = Blockers(t, r, m)
  <2>1. holders' = holders
    OBVIOUS
  <2>2. \A u \in Txn : u \in WaitsOn(t)' <=> u \in Blockers(t, r, m)
    <3> HIDE DEF AcquireBlock
    <3>1. <<r, m>>[1] = r /\ <<r, m>>[2] = m
      OBVIOUS
    <3> QED
      BY <1>1, <2>1, <3>1 DEF WaitsOn, Blockers, conflicting_holders
  <2>3. WaitsOn(t)' \subseteq Txn /\ Blockers(t, r, m) \subseteq Txn
    BY DEF WaitsOn, Blockers, conflicting_holders
  <2> QED
    BY <2>2, <2>3
<1>3. \A u \in Txn \ {t} : WaitsOn(u)' = WaitsOn(u)
  BY <1>1 DEF WaitsOn, conflicting_holders
<1>4. Blockers(t, r, m) \in SUBSET Txn
  BY DEF Blockers, conflicting_holders
<1>5. NoWaitCycle'
  BY <1>2, <1>3, <1>4, CheckedWait DEF LockInv
<1>6. NoMissedWakeup'
  BY <1>2, <1>3 DEF TypeOK, LockInv, NoMissedWakeup, Blocked
<1>7. GraphIsBlockedCalls'
  BY DEF LockInv, GraphIsBlockedCalls
<1>8. HeldByAgrees' /\ GrantsCompatible'
  BY DEF LockInv, HeldByAgrees, GrantsCompatible
<1> QED
  BY <1>5, <1>6, <1>7, <1>8 DEF LockInv

\* A grant.  The edges it adds all lead to t, which stops waiting; the edges it
\* could remove are those to t's replaced shared entry, and the new exclusive
\* entry keeps them.
LEMMA GrantStep ==
    ASSUME TypeOK, LockInv, NEW t \in Txn, NEW r \in Resource, NEW m \in Mode,
           AcquireGrant(t, r, m)
    PROVE  LockInv'
<1> USE DEF AcquireGrant, Return
<1>1. waiting_for[t]' = None /\ \A u \in Txn \ {t} : waiting_for[u]' = waiting_for[u]
  BY DEF TypeOK
<1>2. \A q \in Resource, u \in Txn, n \in Mode :
        <<u, n>> \in holders[q]' <=>
           IF q = r /\ u = t THEN n = m ELSE <<u, n>> \in holders[q]
  BY DEF TypeOK
<1>3. \A n \in Mode : <<t, n>> \in holders[r] => m = "Exclusive"
  BY DEF AlreadyHeld, Mode
<1>4. WaitsOn(t)' = {}
  BY <1>1 DEF WaitsOn, None
<1>5. \A u \in Txn : \A q \in waiting_for[u] : q[1] \in Resource /\ q[2] \in Mode
  BY DEF TypeOK, MaybeRequest, Requests, None
<1>6. ASSUME NEW u \in Txn \ {t}
      PROVE  WaitsOn(u) \subseteq WaitsOn(u)' /\ WaitsOn(u)' \subseteq WaitsOn(u) \cup {t}
  <2>1. WaitsOn(u)' \subseteq Txn /\ WaitsOn(u) \subseteq Txn
    BY DEF WaitsOn
  <2>2. \A v \in Txn \ {t} : v \in WaitsOn(u) <=> v \in WaitsOn(u)'
    BY <1>1, <1>2, <1>5 DEF WaitsOn, conflicting_holders
  <2>3. t \in WaitsOn(u) => t \in WaitsOn(u)'
    BY <1>1, <1>2, <1>3, <1>5 DEF WaitsOn, conflicting_holders, conflicts_with
  <2> QED
    BY <2>1, <2>2, <2>3
<1>7. NoWaitCycle'
  BY <1>4, <1>6, EdgesToRunning DEF LockInv
<1>8. NoMissedWakeup'
  <2> SUFFICES ASSUME NEW u \in Txn, Blocked(u)', WaitsOn(u)' = {}
               PROVE  u \in notified'
    BY DEF NoMissedWakeup
  <2>1. u # t /\ Blocked(u)
    BY DEF TypeOK, Blocked
  <2>2. WaitsOn(u) = {}
    BY <1>6, <2>1
  <2> QED
    BY <2>1, <2>2 DEF LockInv, NoMissedWakeup
<1>9. GraphIsBlockedCalls'
  BY DEF LockInv, GraphIsBlockedCalls
<1>10. HeldByAgrees'
  <2> SUFFICES ASSUME NEW u \in Txn, NEW q \in Resource
               PROVE  q \in held_by[u]' <=> \E n \in Mode : <<u, n>> \in holders[q]'
    BY DEF HeldByAgrees
  <2>1. q \in held_by[u]' <=> q \in held_by[u] \/ (u = t /\ q = r)
    BY DEF TypeOK
  <2> QED
    BY <1>2, <2>1 DEF LockInv, HeldByAgrees
<1>11. GrantsCompatible'
  <2> SUFFICES ASSUME NEW q \in Resource, NEW g \in holders[q]', NEW h \in holders[q]',
                      conflicts_with(g[2], h[2])
               PROVE  g = h
    BY DEF GrantsCompatible
  <2>1. q # r => holders[q]' = holders[q]
    BY DEF TypeOK
  <2>2. CASE q # r
    BY <2>1, <2>2 DEF LockInv, GrantsCompatible
  <2>3. CASE q = r
    <3>1. holders[r]' = (holders[r] \ ({t} \X Mode)) \cup {<<t, m>>}
      BY DEF TypeOK
    <3>2. ASSUME NEW e \in holders[r] \ ({t} \X Mode)
          PROVE  e \in holders[r] /\ ~conflicts_with(e[2], m) /\ ~conflicts_with(m, e[2])
      <4>1. e \in Txn \X Mode /\ e = <<e[1], e[2]>> /\ e[1] # t
        BY DEF TypeOK
      <4> QED
        BY <4>1 DEF Blockers, conflicting_holders, conflicts_with
    <3> QED
      BY <2>3, <3>1, <3>2 DEF LockInv, GrantsCompatible
  <2> QED
    BY <2>2, <2>3
<1> QED
  BY <1>7, <1>8, <1>9, <1>10, <1>11 DEF LockInv

\* One iteration of acquire's loop, whatever its outcome.
LEMMA AttemptStep ==
    ASSUME TypeOK, LockInv, NEW t \in Txn, NEW r \in Resource, NEW m \in Mode,
           NEW b, Attempt(t, r, m, b)
    PROVE  LockInv'
BY AttemptCases, GrantStep, BlockStep, RefusedStep

\* It changes the locks and the wait of its own transaction only.
LEMMA AttemptIsLocal ==
    ASSUME TypeOK, NEW t \in Txn, NEW r \in Resource, NEW m \in Mode,
           NEW b, Attempt(t, r, m, b)
    PROVE  \A u \in Txn \ {t} : held_by[u]' = held_by[u] /\ request[u]' = request[u]
BY AttemptCases DEF TypeOK, AcquireGrant, AcquireBlock, Refused, Return

-----------------------------------------------------------------------------
(* The end of a transaction. *)

\* release_all: every edge into t goes, no other changes, and every blocked call
\* is notified.
LEMMA EndStep ==
    ASSUME TypeOK, LockInv, NEW t \in Txn, End(t)
    PROVE  LockInv'
<1> USE DEF End, release_all
<1>1. /\ waiting_for[t]' = None
      /\ \A u \in Txn \ {t} : waiting_for[u]' = waiting_for[u]
  BY DEF TypeOK
<1>2. \A q \in Resource, u \in Txn, n \in Mode :
        <<u, n>> \in holders[q]' <=> <<u, n>> \in holders[q] /\ u # t
  BY DEF TypeOK, LockInv, HeldByAgrees
<1>3. \A q \in Resource : holders[q]' \subseteq holders[q]
  BY DEF TypeOK
<1>4. \A u \in Txn : \A q \in waiting_for[u] : q[1] \in Resource /\ q[2] \in Mode
  BY DEF TypeOK, MaybeRequest, Requests, None
<1>5. ASSUME NEW u \in Txn PROVE WaitsOn(u)' \subseteq WaitsOn(u)
  <2> HIDE DEF End, release_all
  <2>1. waiting_for[u]' \subseteq waiting_for[u]
    BY <1>1 DEF None
  <2> QED
    BY <1>3, <1>4, <2>1 DEF WaitsOn, conflicting_holders
<1>6. NoWaitCycle'
  BY <1>5, FewerEdges DEF LockInv
<1>7. NoMissedWakeup'
  BY DEF NoMissedWakeup, Blocked
<1>8. GraphIsBlockedCalls'
  <2>1. waiting_for[t] = None
    BY DEF LockInv, GraphIsBlockedCalls, Blocked
  <2> QED
    BY <2>1 DEF TypeOK, LockInv, GraphIsBlockedCalls
<1>9. HeldByAgrees'
  <2>1. \A u \in Txn : held_by[u]' = IF u = t THEN {} ELSE held_by[u]
    BY DEF TypeOK
  <2> HIDE DEF End, release_all
  <2> QED
    BY <1>2, <2>1 DEF LockInv, HeldByAgrees
<1>10. GrantsCompatible'
  <2> HIDE DEF End, release_all
  <2> QED
    BY <1>3 DEF LockInv, GrantsCompatible
<1> QED
  BY <1>6, <1>7, <1>8, <1>9, <1>10 DEF LockInv

\* A step that leaves locks, waits and notifications alone.
LEMMA IdleStep ==
    ASSUME LockInv, UNCHANGED <<holders, held_by, waiting_for, request, notified>>
    PROVE  LockInv'
<1>1. \A t : WaitsOn(t)' = WaitsOn(t) /\ Blocked(t)' = Blocked(t)
  BY DEF WaitsOn, conflicting_holders, Blocked
<1> QED
  BY <1>1 DEF LockInv, GraphIsBlockedCalls, HeldByAgrees, GrantsCompatible,
              NoWaitCycle, NoMissedWakeup

-----------------------------------------------------------------------------
(* Safety. *)

LEMMA InvInit == Init => IInv
<1> SUFFICES ASSUME Init PROVE TxnsOK /\ LockInv
  BY TypeInit DEF IInv
<1> USE DEF Init
<1>1. TxnsOK
  BY DEF TxnsOK
<1>2. \A t \in Txn : WaitsOn(t) = {}
  BY DEF WaitsOn, None
<1>3. NoWaitCycle /\ NoMissedWakeup
  BY <1>2 DEF NoWaitCycle, NoMissedWakeup, Blocked
<1>4. GraphIsBlockedCalls /\ HeldByAgrees /\ GrantsCompatible
  BY DEF GraphIsBlockedCalls, HeldByAgrees, GrantsCompatible
<1> QED
  BY <1>1, <1>3, <1>4 DEF LockInv

LEMMA InvStep == IInv /\ [Next]_vars => IInv'
<1> SUFFICES ASSUME TypeOK, TxnsOK, LockInv, [Next]_vars PROVE TxnsOK' /\ LockInv'
  BY TypeStep DEF IInv
<1>1. ASSUME NEW t \in Txn, NEW r \in Resource, NEW m \in Mode, Acquire(t, r, m)
      PROVE  TxnsOK' /\ LockInv'
  <2>1. t \in active /\ Attempt(t, r, m, Timeout)
    BY <1>1 DEF Acquire, MayLock
  <2>2. \A u \in Txn \ {t} : held_by[u]' = held_by[u] /\ request[u]' = request[u]
    BY <2>1, AttemptIsLocal
  <2> QED
    BY <1>1, <2>1, <2>2, AttemptStep DEF Acquire, TxnsOK, txnVars
<1>2. ASSUME NEW t \in Txn, AcquireAfterUnlock(t) PROVE TxnsOK' /\ LockInv'
  BY <1>2, IdleStep DEF AcquireAfterUnlock, TxnsOK, lockVars, txnVars
<1>3. ASSUME NEW t \in Txn, Retry(t) PROVE TxnsOK' /\ LockInv'
  <2>1. PICK q \in request[t] : Attempt(t, q[1], q[2], budget[t])
    BY <1>3 DEF Retry
  <2>2. t \in active
    BY <2>1 DEF TxnsOK, None
  <2>3. \A u \in Txn \ {t} : held_by[u]' = held_by[u] /\ request[u]' = request[u]
    BY <2>1, RequestType, AttemptIsLocal
  <2>4. LockInv'
    BY <2>1, RequestType, AttemptStep
  <2> QED
    BY <1>3, <2>2, <2>3, <2>4 DEF Retry, TxnsOK, txnVars
<1>4. CASE Tick
  BY <1>4, IdleStep DEF Tick, TxnsOK, lockVars, txnVars
<1>5. CASE Begin
  <2>1. LockInv'
    BY <1>5, IdleStep DEF Begin, lockVars, callVars
  <2>2. TxnsOK'
    BY <1>5 DEF Begin, TypeOK, TxnsOK, Txn, lockVars, callVars
  <2> QED
    BY <2>1, <2>2
<1>6. ASSUME NEW t \in Txn, End(t) PROVE TxnsOK' /\ LockInv'
  <2>1. \A u \in Txn : held_by[u]' = IF u = t THEN {} ELSE held_by[u]
    BY <1>6 DEF End, release_all, TypeOK
  <2>2. TxnsOK'
    BY <1>6, <2>1 DEF End, release_all, TxnsOK, Blocked
  <2> QED
    BY <1>6, <2>2, EndStep
<1>7. CASE PruneFinished
  <2>1. LockInv'
    BY <1>7, IdleStep DEF PruneFinished, callVars
  <2>2. TxnsOK'
    BY <1>7 DEF PruneFinished, TxnsOK, callVars
  <2> QED
    BY <2>1, <2>2
<1>8. CASE UNCHANGED vars
  BY <1>8, IdleStep DEF TxnsOK, vars, lockVars, callVars, txnVars
<1> QED
  BY <1>1, <1>2, <1>3, <1>4, <1>5, <1>6, <1>7, <1>8 DEF Next, Quiescent

LEMMA Invariance == Spec => []IInv
BY InvInit, InvStep, PTL DEF Spec

\* No two transactions ever hold conflicting locks on a resource.
THEOREM LocksExclude == Spec => []GrantsCompatible
<1>1. IInv => GrantsCompatible
  BY DEF IInv, LockInv
<1> QED
  BY <1>1, Invariance, PTL

\* held_by never misses a grant, so release_all leaves no lock behind, and the graph
\* has the blocked calls and no others, so no returned call makes a victim.
THEOREM TablesInStep == Spec => []TablesAgree
<1>1. IInv => TablesAgree
  BY DEF IInv, LockInv, TablesAgree
<1> QED
  BY <1>1, Invariance, PTL

\* The wait-for graph is acyclic for every number of transactions and resources:
\* checking a wait when it starts is enough, although grants add edges later.
THEOREM Acyclic == Spec => []NoWaitCycle
<1>1. IInv => NoWaitCycle
  BY DEF IInv, LockInv
<1> QED
  BY <1>1, Invariance, PTL

\* No wake-up is lost: a blocked call with nothing left to wait on is notified.
THEOREM NoLostWakeup == Spec => []NoMissedWakeup
<1>1. IInv => NoMissedWakeup
  BY DEF IInv, LockInv
<1> QED
  BY <1>1, Invariance, PTL

\* An ended transaction has no lock, no wait and no one waiting on it.
THEOREM EndIsClean == Spec => []EndedHoldNothing
<1>1. IInv => EndedHoldNothing
  <2> SUFFICES ASSUME IInv, NEW t \in Txn \ active
               PROVE  /\ held_by[t] = {} /\ waiting_for[t] = None
                      /\ \A u \in Txn : t \notin WaitsOn(u)
    BY DEF EndedHoldNothing
  <2>1. held_by[t] = {} /\ waiting_for[t] = None
    BY DEF IInv, TxnsOK, LockInv, GraphIsBlockedCalls
  <2>2. \A r \in Resource, n \in Mode : <<t, n>> \notin holders[r]
    BY <2>1 DEF IInv, LockInv, HeldByAgrees
  <2>3. \A u \in Txn : \A q \in waiting_for[u] : q[1] \in Resource
    BY DEF IInv, TypeOK, MaybeRequest, Requests, None
  <2> QED
    BY <2>1, <2>2, <2>3 DEF WaitsOn, conflicting_holders
<1> QED
  BY <1>1, Invariance, PTL

\* While a call is blocked, some transaction can run: the deepest blocked call of
\* the acyclic graph is either woken or behind a transaction that is not blocked.
THEOREM NeverAllStuck == Spec => []SomeoneCanRun
<1>1. IInv => SomeoneCanRun
  <2> SUFFICES ASSUME IInv, NEW b \in Txn, Blocked(b)
               PROVE  \E t \in active : t \in notified \/ ~Blocked(t)
    BY DEF SomeoneCanRun
  <2> DEFINE S == {t \in Txn : Blocked(t)}
  <2>1. PICK t \in S : WaitsOn(t) \cap S = {}
    <3>1. S \in SUBSET Txn /\ S # {}
      OBVIOUS
    <3> QED
      BY <3>1 DEF IInv, LockInv, NoWaitCycle
  <2>2. t \in active
    BY DEF IInv, TxnsOK, Blocked
  <2>3. CASE WaitsOn(t) = {}
    BY <2>2, <2>3 DEF IInv, LockInv, NoMissedWakeup
  <2>4. CASE WaitsOn(t) # {}
    <3>1. PICK u \in WaitsOn(t) : TRUE
      BY <2>4
    <3>2. u \in Txn /\ ~Blocked(u)
      BY <2>1 DEF WaitsOn
    <3>3. \E r \in Resource, n \in Mode : <<u, n>> \in holders[r]
      <4>1. \A q \in waiting_for[t] : q[1] \in Resource
        BY DEF IInv, TypeOK, MaybeRequest, Requests, None
      <4> QED
        BY <3>1, <4>1 DEF WaitsOn, conflicting_holders
    <3>4. u \in active
      BY <3>2, <3>3 DEF IInv, LockInv, HeldByAgrees, TxnsOK
    <3> QED
      BY <3>2, <3>4
  <2> QED
    BY <2>3, <2>4
<1> QED
  BY <1>1, Invariance, PTL

LEMMA AttemptKeepsLocks ==
    ASSUME IInv, NEW t \in Txn, NEW r \in Resource, NEW m \in Mode,
           NEW b, Attempt(t, r, m, b), active' = active
    PROVE  KeepsLocks
<1>1. CASE AcquireGrant(t, r, m)
  <2> SUFFICES ASSUME NEW u \in active, NEW q \in held_by[u]
               PROVE  /\ q \in held_by'[u]
                      /\ <<u, "Exclusive">> \in holders[q] =>
                            <<u, "Exclusive">> \in holders'[q]
    BY DEF KeepsLocks
  <2>1. u \in Txn /\ q \in Resource /\ q \in held_by'[u]
    BY <1>1 DEF IInv, TypeOK, AcquireGrant
  <2>2. <<t, "Exclusive">> \notin holders[r]
    BY <1>1 DEF AcquireGrant, AlreadyHeld
  <2>3. holders'[q] = IF q = r THEN (holders[r] \ ({t} \X Mode)) \cup {<<t, m>>}
                               ELSE holders[q]
    BY <1>1, <2>1 DEF IInv, TypeOK, AcquireGrant
  <2> QED
    BY <2>1, <2>2, <2>3
<1>2. CASE AcquireBlock(t, r, m, b) \/ Refused(t)
  BY <1>2 DEF AcquireBlock, Refused, KeepsLocks
<1> QED
  BY <1>1, <1>2, AttemptCases

\* Locks are only ever lost at the end of the transaction that holds them.
THEOREM TwoPhase == Spec => StrictTwoPhase
<1>1. IInv /\ [Next]_vars => [KeepsLocks]_vars
  <2> SUFFICES ASSUME IInv, Next PROVE KeepsLocks \/ UNCHANGED vars
    OBVIOUS
  <2>1. ASSUME NEW t \in Txn, NEW r \in Resource, NEW m \in Mode, Acquire(t, r, m)
        PROVE  KeepsLocks
    BY <2>1, AttemptKeepsLocks DEF Acquire, txnVars
  <2>2. ASSUME NEW t \in Txn, Retry(t) PROVE KeepsLocks
    <3>1. PICK q \in request[t] : Attempt(t, q[1], q[2], budget[t])
      BY <2>2 DEF Retry
    <3> QED
      BY <2>2, <3>1, RequestType, AttemptKeepsLocks DEF IInv, Retry, txnVars
  <2>3. ASSUME NEW t \in Txn, End(t) PROVE KeepsLocks
    <3> SUFFICES ASSUME NEW u \in active \ {t}, NEW q \in held_by[u]
                 PROVE  /\ q \in held_by'[u]
                        /\ <<u, "Exclusive">> \in holders[q] =>
                              <<u, "Exclusive">> \in holders'[q]
      BY <2>3 DEF KeepsLocks, End
    <3>1. u \in Txn /\ q \in Resource
      BY DEF IInv, TypeOK
    <3>2. q \in held_by'[u]
      BY <2>3, <3>1 DEF End, release_all, IInv, TypeOK
    <3>3. holders'[q] = holders[q] \/ holders'[q] = holders[q] \ ({t} \X Mode)
      BY <2>3, <3>1 DEF End, release_all
    <3> QED
      BY <3>2, <3>3
  <2>4. CASE \/ \E t \in Txn : AcquireAfterUnlock(t)
             \/ Tick \/ Begin \/ PruneFinished
    BY <2>4 DEF AcquireAfterUnlock, Tick, Begin, PruneFinished, lockVars, KeepsLocks
  <2> QED
    BY <2>1, <2>2, <2>3, <2>4 DEF Next, Quiescent
<1> QED
  BY <1>1, Invariance, PTL DEF Spec, StrictTwoPhase

\* An iteration of acquire's loop leaves the other calls' time alone and, if it
\* blocks, keeps what it was given.
LEMMA AttemptBudget ==
    ASSUME TypeOK, NEW t \in Txn, NEW r \in Resource, NEW m \in Mode,
           NEW b \in Nat, Attempt(t, r, m, b)
    PROVE  /\ \A u \in Txn \ {t} : budget'[u] = budget[u]
           /\ request'[t] # None => budget'[t] = b
<1>1. CASE AcquireBlock(t, r, m, b)
  BY <1>1 DEF AcquireBlock, TypeOK
<1>2. CASE \/ AcquireHeld(t, r, m) \/ AcquireGrant(t, r, m) \/ AcquireVictim(t, r, m)
           \/ AcquireTimeout(t, r, m, b)
  BY <1>2 DEF AcquireHeld, AcquireGrant, AcquireVictim, AcquireTimeout, Return, TypeOK, None
<1> QED
  BY <1>1, <1>2 DEF Attempt

\* No step gives a blocked call more time than it had left: the deadline acquire
\* computes on entry is final.
THEOREM DeadlineFixed == Spec => DeadlineNotExtended
<1>1. TypeOK /\ [Next]_vars => [DeadlineKept]_vars
  <2> SUFFICES ASSUME TypeOK, Next PROVE DeadlineKept \/ UNCHANGED vars
    OBVIOUS
  <2>0. \A t \in Txn : budget[t] \in Nat
    BY LockAssumption DEF TypeOK
  <2>1. ASSUME NEW t \in Txn, NEW r \in Resource, NEW m \in Mode, Acquire(t, r, m)
        PROVE  DeadlineKept
    BY <2>0, <2>1, AttemptBudget, LockAssumption DEF Acquire, MayLock, DeadlineKept
  <2>2. ASSUME NEW t \in Txn, Retry(t) PROVE DeadlineKept
    <3>1. PICK q \in request[t] : Attempt(t, q[1], q[2], budget[t])
      BY <2>2 DEF Retry
    <3> QED
      BY <2>0, <3>1, RequestType, AttemptBudget DEF DeadlineKept
  <2>3. CASE Tick
    BY <2>0, <2>3 DEF Tick, DeadlineKept
  <2>4. CASE \/ \E t \in Txn : AcquireAfterUnlock(t) \/ End(t)
             \/ Begin \/ PruneFinished
    BY <2>0, <2>4 DEF AcquireAfterUnlock, End, Begin, PruneFinished, callVars, DeadlineKept
  <2> QED
    BY <2>1, <2>2, <2>3, <2>4 DEF Next, Quiescent
<1> QED
  BY <1>1, TypeCorrect, PTL DEF Spec, DeadlineNotExtended
=============================================================================

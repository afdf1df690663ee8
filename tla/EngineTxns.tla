----------------------------- MODULE EngineTxns -----------------------------
(***************************************************************************)
(* Proofs about Engine: the steps of a worker on its session and its       *)
(* transaction keep SInv and TInv.                                         *)
(***************************************************************************)
EXTENDS EngineSessions

-----------------------------------------------------------------------------
(* Transactions. *)

LEMMA TxnSession ==
    ASSUME SInv, NEW v \in Workers, NEW t, t \in wk[v].txn
    PROVE  wk[v].pc \in Busy /\ t \in TxnIds /\ t[1] = session(v)
<1>1. Shape(wk[v]) /\ wk[v] \in Records
  BY DEF SInv, SType, Shapes
<1>2. wk[v].pc \in Busy
  BY <1>1, Zenon DEF Shape
<1> QED
  BY <1>2, MySession, MyTxn

LEMMA AutoBusy ==
    ASSUME SInv, NEW v \in Workers, wk[v].auto
    PROVE  wk[v].pc \in Busy
BY DEF SInv, Shapes, Shape

\* Steps that leave sessions and transactions as they are.
LEMMA IdleTxns ==
    ASSUME SInv, TInv, UNCHANGED <<slot, mutex, txns, faults, history>>,
           \A v \in Workers : wk'[v] = wk[v] \/ (wk[v].pc \notin Busy /\ wk'[v].pc \notin Busy),
           \A s \in sessions : s \in sessions' \/ Queued("disconnect", s)',
           \A s \in Sessions : Queued("disconnect", s) => Queued("disconnect", s)',
           \A s \in sessions' \ sessions : slot[s].txn = {}
    PROVE  TInv'
<1>1. /\ slot' = slot /\ mutex' = mutex /\ undo' = undo /\ aborting' = aborting /\ locked' = locked
      /\ faults' = faults /\ failed' = failed /\ undoFailed' = undoFailed /\ reloadFailed' = reloadFailed
      /\ active' = active
  BY DEF txns, history, active
<1>2. TType' /\ Faulty'
  BY <1>1, Zenon DEF TInv, TType, Faulty
<1>3. \A v \in Workers : WorkerTxn(v)'
  BY <1>1 DEF TInv, WorkerTxn, Works, At, Busy
<1>4. ASSUME NEW s \in Sessions
      PROVE  SlotTxn(s)'
  <2>1. CASE s \in sessions
    <3>1. ASSUME NEW v \in mutex[s], At(v, "reload") \/ At(v, "install")
          PROVE  At(v, "reload")' \/ At(v, "install")'
      <4>1. v \in Workers /\ wk[v].pc \in Busy
        BY <3>1 DEF SInv, SType, Option, Locks, Held
      <4> QED
        BY <3>1, <4>1, Zenon DEF At
    <3> QED
      BY <1>1, <2>1, <3>1, Zenon DEF TInv, SlotTxn
  <2>2. CASE s \notin sessions
    BY <1>1, <2>2 DEF SlotTxn
  <2> QED
    BY <2>1, <2>2, Zenon
<1>5. \A t \in aborting : Undone(t)'
  BY DEF TInv, Undone, At, Busy
<1>6. ASSUME NEW t \in active \ failed
      PROVE  Owned(t)'
  <2>1. Owned(t)
    BY DEF TInv
  <2>2. CASE \E s \in Sessions : slot[s].txn = {t} /\ (s \in sessions \/ Queued("disconnect", s))
    BY <1>1, <2>2, Zenon DEF Owned
  <2>3. CASE \E v \in Workers : wk[v].auto /\ wk[v].txn = {t}
    BY <2>3, AutoBusy, Zenon DEF Owned
  <2> QED
    BY <2>1, <2>2, <2>3, Zenon DEF Owned
<1> QED
  BY <1>1, <1>2, <1>3, <1>4, <1>5, <1>6, Zenon DEF TInv

\* A step of a worker that is alone in its session can change the transactions of that
\* session only.
LEMMA LocalTxns ==
    ASSUME SInv, SInv', TInv, NEW w \in Workers, InSession(w), Local(w),
           NEW s \in Sessions, s = session(w),
           \A t \in TxnIds : t[1] # s => /\ t \in active' <=> t \in active
                                         /\ t \in aborting' <=> t \in aborting
                                         /\ t \in failed' <=> t \in failed,
           reloadFailed => reloadFailed',
           TType', Faulty', WorkerTxn(w)', SlotTxn(s)',
           \A t \in aborting' : t[1] = s => Undone(t)',
           \A t \in active' \ failed' : t[1] = s => Owned(t)'
    PROVE  TInv'
<1>1. /\ \A v \in Workers \ {w} : wk'[v] = wk[v]
      /\ \A u \in Sessions \ {s} : slot'[u] = slot[u] /\ mutex'[u] = mutex[u]
      /\ jobs' = jobs /\ sessions' = sessions
  BY DEF Local
<1>2. aborting' \subseteq TxnIds /\ active' \subseteq TxnIds
  BY Zenon DEF TType
<1>3. ASSUME NEW v \in Workers \ {w}
      PROVE  WorkerTxn(v)'
  <2>1. SUFFICES ASSUME wk[v].pc \in Busy
                 PROVE  WorkerTxn(v)'
    BY <1>1, Zenon DEF WorkerTxn, Works, At, Busy
  <2>2. PICK u \in Sessions \ {s} : u = session(v)
    BY <2>1, Alone, MyJob, Zenon
  <2>3. \A t \in wk[v].txn : t \in TxnIds /\ t[1] # s
    BY <2>2, TxnSession, Zenon
  <2>4. \A j \in wk[v].job : j.session = u
    BY <2>1, <2>2, MyJob, Zenon DEF session
  <2>5. slot'[u] = slot[u] /\ \A t \in slot[u].txn : t \in TxnIds /\ t[1] # s
    <3>1. slot[u].txn \in Option(TxnIds) /\ \A t \in slot[u].txn : t[1] = u
      BY DEF SInv, SType, Slots, SlotOK
    <3> QED
      BY <3>1, <2>2, <1>1 DEF Option
  <2>6. WorkerTxn(v)
    BY Zenon DEF TInv
  <2>7. Works(v) /\ wk[v].auto => wk[v].txn \subseteq active'
    BY <2>3, <2>6, Zenon DEF WorkerTxn
  <2>8. At(v, "undo") => wk[v].txn \subseteq aborting'
    BY <2>3, <2>6, Zenon DEF WorkerTxn
  <2>9. At(v, "reload") \/ At(v, "install") =>
          /\ wk[v].txn \cap active' \subseteq failed'
          /\ \A j \in wk[v].job : slot'[j.session].txn \cap active' \subseteq failed'
    BY <2>3, <2>4, <2>5, <2>6, Zenon DEF WorkerTxn
  <2> QED
    BY <2>7, <2>8, <2>9, <1>1, Zenon DEF WorkerTxn, Works, At
<1>4. ASSUME NEW u \in Sessions \ {s}
      PROVE  SlotTxn(u)'
  <2>1. SlotTxn(u)
    BY Zenon DEF TInv
  <2>2. \A t \in slot[u].txn : t \in TxnIds /\ t[1] # s
    <3>1. slot[u].txn \in Option(TxnIds) /\ \A t \in slot[u].txn : t[1] = u
      BY Zenon DEF SInv, SType, Slots, SlotOK
    <3> QED
      BY <3>1, Zenon DEF Option
  <2>3. ASSUME NEW v \in mutex[u]
        PROVE  wk'[v] = wk[v]
    <3>1. v \in Workers /\ wk[v].pc \in Busy /\ \A j \in wk[v].job : j.session = u
      BY DEF SInv, SType, Option, Locks, Held
    <3>2. v # w
      BY <3>1, MyJob, Zenon DEF session
    <3> QED
      BY <3>1, <3>2, <1>1, ZenonT(40)
  <2> QED
    BY <2>1, <2>2, <2>3, <1>1, Zenon DEF SlotTxn, At
<1>5. ASSUME NEW t \in aborting', t[1] # s
      PROVE  Undone(t)'
  <2>1. PICK v \in Workers : At(v, "undo") /\ wk[v].txn = {t}
    BY <1>2, <1>5, Zenon DEF TInv, Undone
  <2>2. session(v) = t[1]
    BY <2>1, TxnSession, Zenon
  <2>3. wk'[v] = wk[v]
    BY <1>1, <1>5, <2>2, Zenon
  <2> QED
    BY <2>1, <2>3, Zenon DEF Undone, At
<1>6. ASSUME NEW t \in active' \ failed', t[1] # s
      PROVE  Owned(t)'
  <2>1. Owned(t)
    BY <1>2, <1>6, Zenon DEF TInv
  <2>2. ASSUME NEW u \in Sessions, slot[u].txn = {t}, u \in sessions \/ Queued("disconnect", u)
        PROVE  Owned(t)'
    <3>1. t[1] = u
      BY <2>2 DEF SInv, SlotOK
    <3>2. slot'[u].txn = {t}
      BY <1>1, <1>6, <2>2, <3>1, Zenon
    <3>3. Queued("disconnect", u) => Queued("disconnect", u)'
      <4>1. wk[w].job = {job(w)} /\ job(w).session # u
        BY <1>6, <3>1, MyJob, Zenon DEF session, InSession, At
      <4> QED
        BY <4>1, <1>1, Zenon DEF Queued
    <3> QED
      BY <1>1, <2>2, <3>2, <3>3, ZenonT(40) DEF Owned
  <2>3. ASSUME NEW v \in Workers, wk[v].auto, wk[v].txn = {t}
        PROVE  Owned(t)'
    <3>1. session(v) = t[1]
      BY <2>3, TxnSession, Zenon
    <3>2. wk'[v] = wk[v]
      BY <1>1, <1>6, <3>1, Zenon
    <3> QED
      BY <2>3, <3>2, Zenon DEF Owned
  <2> QED
    BY <2>1, <2>2, <2>3, Zenon DEF Owned
<1> QED
  BY <1>3, <1>4, <1>5, <1>6, Zenon DEF TInv

\* A session that has no transaction can begin one: no id of its is in use but those of
\* the transactions that failed to end, and these are fewer than its ids.
LEMMA IdLeft ==
    ASSUME SInv, TInv, NEW s \in Sessions, mutex[s] = {}, slot[s].txn = {}
    PROVE  /\ NewTxn(s) \in TxnIds /\ NewTxn(s)[1] = s
           /\ NewTxn(s) \notin active /\ NewTxn(s) \notin failed
<1>1. ASSUME NEW t \in active, t[1] = s
      PROVE  t \in failed
  <2>1. SUFFICES ASSUME Owned(t)
                 PROVE  FALSE
    BY <1>1, Zenon DEF TInv
  <2>2. ASSUME NEW u \in Sessions, slot[u].txn = {t}
        PROVE  FALSE
    BY <1>1, <2>2 DEF SInv, SlotOK
  <2>3. ASSUME NEW v \in Workers, wk[v].txn = {t}
        PROVE  FALSE
    <3>1. wk[v].pc \in Busy /\ session(v) = s
      BY <1>1, <2>3, TxnSession, Zenon
    <3> QED
      BY <3>1, MySession, Zenon
  <2> QED
    BY <2>1, <2>2, <2>3, Zenon DEF Owned
<1>2. PICK n \in Nat : n = MaxFaults + 2
  BY EngineBounds
<1>3. \E i \in 1..n : <<s, i>> \notin failed
  <2>1. SUFFICES ASSUME \A i \in 1..n : <<s, i>> \in failed
                 PROVE  FALSE
    OBVIOUS
  <2> DEFINE f == [i \in 1..n |-> <<s, i>>]
  <2>2. f \in Injection(1..n, failed)
    BY <2>1, Zenon DEF Injection, IsInjective
  <2>3. IsFiniteSet(failed) /\ Cardinality(failed) <= faults /\ faults \in 0..MaxFaults
    BY Zenon DEF TInv, Faulty
  <2>4. Cardinality(1..n) <= Cardinality(failed)
    BY <2>2, <2>3, FS_Injection, Zenon
  <2>5. Cardinality(1..n) = n
    BY <1>2, FS_Interval
  <2>6. Cardinality(failed) \in Nat /\ MaxFaults \in Nat
    BY <2>3, FS_CardinalityType, EngineBounds, Zenon
  <2> QED
    BY <1>2, <2>3, <2>4, <2>5, <2>6
<1>4. PICK i \in 1..n : <<s, i>> \notin failed
  BY <1>3, Zenon
<1>5. <<s, i>> \in TxnIds /\ <<s, i>>[1] = s
  BY <1>2, <1>4, Zenon DEF TxnIds
<1>6. \E t \in TxnIds : t[1] = s /\ t \notin active \cup failed /\ {t} # slot[s].txn
  BY <1>1, <1>4, <1>5, Zenon
<1> QED
  BY <1>6, Zenon DEF NewTxn

\* What the invariant says of the transactions of the session that w is alone in.
LEMMA Here ==
    ASSUME SInv, TInv, NEW w \in Workers, InSession(w), NEW t \in TxnIds, t[1] = session(w)
    PROVE  /\ t \in active \ failed =>
                \/ /\ slot[session(w)].txn = {t}
                   /\ session(w) \in sessions \/ Queued("disconnect", session(w))
                \/ wk[w].auto /\ wk[w].txn = {t}
           /\ t \in aborting => At(w, "undo") /\ wk[w].txn = {t}
<1>1. ASSUME NEW v \in Workers, wk[v].txn = {t}
      PROVE  v = w
  BY <1>1, TxnSession, Alone, Zenon
<1>2. ASSUME NEW u \in Sessions, slot[u].txn = {t}
      PROVE  u = session(w)
  BY <1>2, Zenon DEF SInv, SlotOK
<1>3. t \in active \ failed => Owned(t)
  BY DEF TInv
<1>4. t \in aborting => Undone(t)
  BY Zenon DEF TInv
<1> QED
  BY <1>1, <1>2, <1>3, <1>4, Zenon DEF Owned, Undone

\* The worker is done with its job: the session has no transaction but the one in its
\* slot, which is there if a statement was answered.
LEMMA DoneTxns ==
    ASSUME SInv, SInv', TInv, NEW w \in Workers, InSession(w), Local(w), wk'[w] = Ready,
           NEW s \in Sessions, s = session(w),
           \A t \in TxnIds : t[1] # s => /\ t \in active' <=> t \in active
                                         /\ t \in aborting' <=> t \in aborting
                                         /\ t \in failed' <=> t \in failed,
           reloadFailed => reloadFailed', TType', Faulty',
           \A t \in active' \ failed' : t[1] = s =>
               /\ slot'[s].txn = {t}
               /\ s \in sessions \/ (t \in active \ failed /\ slot[s].txn = {t} /\ job(w).kind # "disconnect"),
           \A t \in aborting' : t[1] # s,
           s \in sessions => slot'[s].txn \subseteq active' \/ reloadFailed'
    PROVE  TInv'
<1>1. WorkerTxn(w)'
  BY DEF WorkerTxn, Works, At, Ready
<1>2. SlotTxn(s)'
  BY Zenon DEF SlotTxn, Local
<1>3. ASSUME NEW t \in active' \ failed', t[1] = s
      PROVE  Owned(t)'
  <2>1. slot'[s].txn = {t} /\ sessions' = sessions
    BY <1>3, Zenon DEF Local
  <2>2. CASE s \in sessions
    BY <2>1, <2>2, Zenon DEF Owned
  <2>3. CASE s \notin sessions
    <3>1. t \in active \ failed /\ slot[s].txn = {t} /\ job(w).kind # "disconnect"
      BY <1>3, <2>3, Zenon
    <3>2. t \in TxnIds
      BY <3>1, Zenon DEF TInv, TType
    <3>3. Queued("disconnect", s)
      <4>1. wk[w].auto => slot[s].txn = {}
        BY AutoBusy, MySession, Zenon DEF SInv, SlotOK
      <4> QED
        BY <1>3, <2>3, <3>1, <3>2, <4>1, Here
    <3>4. Queued("disconnect", s)'
      <4>1. wk[w].job = {job(w)}
        BY MyJob, Zenon DEF InSession, At
      <4> QED
        BY <3>1, <3>3, <4>1, Zenon DEF Queued, Local
    <3> QED
      BY <2>1, <3>4, Zenon DEF Owned
  <2> QED
    BY <2>2, <2>3, Zenon
<1> QED
  BY <1>1, <1>2, <1>3, LocalTxns, Zenon

\* The worker goes on with its job.
LEMMA MovedTxns ==
    ASSUME SInv, SInv', TInv, NEW w \in Workers, InSession(w), Local(w), mutex'[session(w)] = {w},
           slot' = slot, NEW s \in Sessions, s = session(w),
           \A kind, u : Queued(kind, u) => Queued(kind, u)',
           \A t \in TxnIds : t[1] # s => /\ t \in active' <=> t \in active
                                         /\ t \in aborting' <=> t \in aborting
                                         /\ t \in failed' <=> t \in failed,
           reloadFailed => reloadFailed', TType', Faulty', WorkerTxn(w)',
           \A t \in active' \ failed' : t[1] = s =>
               \/ t \in active \ failed /\ (wk[w].auto => wk'[w].auto /\ wk'[w].txn = wk[w].txn)
               \/ wk'[w].auto /\ wk'[w].txn = {t},
           \A t \in aborting' : t[1] = s => wk'[w].pc = "undo" /\ wk'[w].txn = {t},
           \/ s \in sessions => slot[s].txn \subseteq active' \/ reloadFailed'
           \/ wk'[w].pc \in {"reload", "install"}
    PROVE  TInv'
<1>1. SlotTxn(s)'
  BY Zenon DEF SlotTxn, Local, At
<1>2. \A t \in aborting' : t[1] = s => Undone(t)'
  BY Zenon DEF Undone, At
<1>3. ASSUME NEW t \in active' \ failed', t[1] = s
      PROVE  Owned(t)'
  <2>1. CASE wk'[w].auto /\ wk'[w].txn = {t}
    BY <2>1, Zenon DEF Owned
  <2>2. CASE t \in active \ failed /\ (wk[w].auto => wk'[w].auto /\ wk'[w].txn = wk[w].txn)
    <3>1. t \in TxnIds
      BY <2>2, Zenon DEF TInv, TType
    <3>2. CASE slot[s].txn = {t} /\ (s \in sessions \/ Queued("disconnect", s))
      BY <3>2, Zenon DEF Owned, Local
    <3>3. CASE wk[w].auto /\ wk[w].txn = {t}
      BY <2>2, <3>3, Zenon DEF Owned
    <3> QED
      BY <1>3, <2>2, <3>1, <3>2, <3>3, Here, Zenon
  <2> QED
    BY <1>3, <2>1, <2>2, Zenon
<1> QED
  BY <1>1, <1>2, <1>3, LocalTxns, Zenon

-----------------------------------------------------------------------------
(* What a worker knows before its step, and what the steps have in common. *)

\* A job that finds its session unlocked.
LEMMA Started ==
    ASSUME SInv, NEW w \in Workers, NEW kind, Starts(w, kind)
    PROVE  /\ InSession(w) /\ wk[w].pc = "lock" /\ wk[w].txn = {} /\ ~wk[w].auto /\ wk[w].fresh = {}
           /\ job(w).kind = kind
<1>1. wk[w] \in Records /\ Shape(wk[w])
  BY Zenon DEF SInv, SType, Shapes
<1>2. At(w, "lock") /\ job(w).kind = kind /\ mutex[session(w)] = {}
  BY Zenon DEF Starts
<1> QED
  BY <1>1, <1>2, Zenon DEF InSession, At, Shape, Busy, Records

\* A client that waits for its statement is still connected.
LEMMA Connected ==
    ASSUME SInv, NEW w \in Workers, InSession(w), job(w).kind = "execute"
    PROVE  session(w) \in sessions
<1>1. session(w) \in Sessions /\ JobOK(job(w), client) /\ session(w) = job(w).session
  BY MyJob, Zenon DEF InSession, At, session
<1> QED
  BY <1>1, Zenon DEF SInv, SlotOK, JobOK

\* A worker that runs a statement, or runs one on its own, was sent it by a client.
LEMMA Running ==
    ASSUME SInv, NEW w \in Workers, Works(w) \/ wk[w].auto
    PROVE  wk[w].pc \in Busy /\ InSession(w) /\ job(w).kind = "execute"
<1>1. Shape(wk[w])
  BY Zenon DEF SInv, Shapes
<1>2. wk[w].pc \in Busy
  BY <1>1, Zenon DEF Shape, Works, Busy
<1>3. wk[w].job = {job(w)}
  BY <1>2, MyJob, Zenon
<1> QED
  BY <1>1, <1>2, <1>3, Zenon DEF Shape, Works, InSession

\* Outside a reload, the transaction of the session exists.
LEMMA SlotActive ==
    ASSUME SInv, TInv, NEW w \in Workers, InSession(w), wk[w].pc \notin {"reload", "install"},
           session(w) \in sessions
    PROVE  slot[session(w)].txn \subseteq active \/ reloadFailed
<1>1. session(w) \in Sessions
  BY MyJob, Zenon DEF InSession, At
<1>2. mutex[session(w)] \in {{}, {w}}
  BY MySession, Zenon DEF InSession
<1> QED
  BY <1>1, <1>2, Zenon DEF TInv, SlotTxn, At

\* A statement is answered.
LEMMA AnswerTxns ==
    ASSUME SInv, TInv, NEW w \in Workers, InSession(w), job(w).kind = "execute",
           NEW ns \in Slots, NEW nv \in Option(TxnIds), Answer(w, ns, nv),
           ns.txn = {} <=> ns.tag \in {"None", "TimedOut"},
           \A t \in ns.txn : t[1] = session(w),
           ns.tag # "TimedOut" => nv = ns.txn,
           NEW s \in Sessions, s = session(w),
           \A t \in TxnIds : t[1] # s => /\ t \in active' <=> t \in active
                                         /\ t \in aborting' <=> t \in aborting
                                         /\ t \in failed' <=> t \in failed,
           reloadFailed => reloadFailed', TType', Faulty',
           \A t \in active' \ failed' : t[1] = s => ns.txn = {t},
           \A t \in aborting' : t[1] # s,
           ns.txn \subseteq active' \/ reloadFailed'
    PROVE  SInv' /\ TInv'
<1>1. SInv' /\ Local(w) /\ wk'[w] = Ready /\ slot'[s] = ns
  BY Answers, Zenon
<1>2. s \in sessions
  BY Connected, Zenon
<1> QED
  BY <1>1, <1>2, DoneTxns

\* What a step with an error for an answer does to the transactions: those of other
\* sessions are kept, and what session s has left is in its slot.
ErrorKeeps(w, s) ==
    /\ \A t \in TxnIds : t[1] # s => /\ t \in active' <=> t \in active
                                     /\ t \in aborting' <=> t \in aborting
                                     /\ t \in failed' <=> t \in failed
    /\ reloadFailed => reloadFailed'
    /\ \A t \in active' \ failed' : t[1] = s =>
           (t \in active \ failed /\ {t} # wk[w].txn) \/ slot[s].txn = {t}
    /\ \A t \in aborting' : t[1] # s
    /\ slot[s].txn \subseteq active' \/ reloadFailed'

\* A statement is answered, and its session keeps its slot.
LEMMA ErrorTxns ==
    ASSUME SInv, TInv, NEW w \in Workers, InSession(w), job(w).kind = "execute",
           AnswerError(w), NEW s \in Sessions, s = session(w), ErrorKeeps(w, s), TType', Faulty'
    PROVE  SInv' /\ TInv'
<1>1. /\ slot[s] \in Slots /\ SlotOK(s) /\ view[s] \in Option(TxnIds)
      /\ s \in sessions
  BY Connected, Zenon DEF SInv, SType
<1>2. client[s] # "gone"
  BY <1>1, Zenon DEF SlotOK
<1>3. Answer(w, slot[s], view[s])
  BY Zenon DEF AnswerError
<1>4. ASSUME NEW t \in active' \ failed', t[1] = s
      PROVE  slot[s].txn = {t}
  <2>1. t \in TxnIds
    BY Zenon DEF TType
  <2>2. CASE t \in active \ failed /\ {t} # wk[w].txn
    BY <1>4, <2>1, <2>2, Here
  <2> QED
    BY <1>4, <2>2, Zenon DEF ErrorKeeps
<1>5. /\ slot[s].txn = {} <=> slot[s].tag \in {"None", "TimedOut"}
      /\ \A t \in slot[s].txn : t[1] = session(w)
      /\ slot[s].tag # "TimedOut" => view[s] = slot[s].txn
  BY <1>1, <1>2, Zenon DEF SlotOK
<1>6. /\ \A t \in TxnIds : t[1] # s => /\ t \in active' <=> t \in active
                                       /\ t \in aborting' <=> t \in aborting
                                       /\ t \in failed' <=> t \in failed
      /\ reloadFailed => reloadFailed'
      /\ \A t \in aborting' : t[1] # s
      /\ slot[s].txn \subseteq active' \/ reloadFailed'
  BY Zenon DEF ErrorKeeps
<1> QED
  BY <1>1, <1>3, <1>4, <1>5, <1>6, AnswerTxns

\* A busy worker goes on with its job and its transaction.
LEMMA Continues ==
    ASSUME SInv, NEW w \in Workers, wk[w].pc \in Busy,
           NEW r \in Records, Shape(r), r.pc \in Busy, wk' = [wk EXCEPT ![w] = r],
           r.job = wk[w].job, r.txn = wk[w].txn, r.auto = wk[w].auto,
           UNCHANGED <<clients, control, slot, idle, jobs, mutex>>
    PROVE  /\ SInv' /\ Local(w) /\ mutex'[session(w)] = {w} /\ wk'[w] = r
           /\ \A kind, u : Queued(kind, u) => Queued(kind, u)'
<1>1. InSession(w)
  BY Zenon DEF InSession
<1>2. /\ wk[w].job = {job(w)} /\ job(w) \in SessionJobs
      /\ session(w) \in Sessions /\ session(w) = job(w).session
  BY MyJob DEF session
<1>3. /\ mutex[session(w)] = {w}
      /\ \A t \in wk[w].txn : t[1] = session(w)
      /\ wk[w].auto => slot[session(w)].tag = "None"
      /\ ~wk[w].auto /\ wk[w].txn # {} => slot[session(w)].txn = wk[w].txn
  BY MySession
<1>4. mutex \in [Sessions -> Option(Workers)]
  BY Zenon DEF SInv, SType
<1>5. LockSession(w)
  BY <1>2, <1>3, <1>4, Zenon DEF LockSession
<1>6. PICK k \in SessionJobs : k = job(w)
  BY <1>2
<1>7. UNCHANGED <<clients, control, slot, idle, jobs>>
  OBVIOUS
<1>8. /\ r.job = {k} /\ k.kind = job(w).kind /\ k.session = session(w)
      /\ \A t \in r.txn : t[1] = session(w)
      /\ r.auto => slot[session(w)].tag = "None"
      /\ ~r.auto /\ r.txn # {} => slot[session(w)].txn = r.txn
  BY <1>2, <1>3, <1>6, Zenon
<1> QED
  BY <1>1, <1>5, <1>7, <1>8, Moves, ZenonT(40)

\* It does so without a change of the transactions' states.
LEMMA KeptTxns ==
    ASSUME SInv, TInv, NEW w \in Workers, wk[w].pc \in Busy,
           NEW r \in Records, Shape(r), r.pc \in Busy, wk' = [wk EXCEPT ![w] = r],
           r.job = wk[w].job, r.txn = wk[w].txn, r.auto = wk[w].auto,
           UNCHANGED <<clients, control, slot, idle, jobs, mutex>>,
           TType', UNCHANGED <<active, aborting, failed, faults, reloadFailed>>,
           \/ r.pc \in {"acquire", "create", "write"} /\ Works(w)
           \/ r.pc = "undo" /\ At(w, "undo")
           \/ r.pc \in {"reload", "install"} /\ wk[w].pc \in {"reload", "install"}
    PROVE  SInv' /\ TInv'
<1>1. /\ SInv' /\ Local(w) /\ mutex'[session(w)] = {w} /\ wk'[w] = r
      /\ \A kind, u : Queued(kind, u) => Queued(kind, u)'
  BY Continues, Zenon
<1>2. InSession(w)
  BY Zenon DEF InSession
<1>3. PICK s \in Sessions : s = session(w)
  BY MyJob, Zenon
<1>4. Faulty'
  BY Zenon DEF TInv, Faulty
<1>5. WorkerTxn(w)'
  <2>1. WorkerTxn(w)
    BY Zenon DEF TInv
  <2> QED
    BY <1>1, <2>1, Zenon DEF WorkerTxn, Works, At
<1>6. \A t \in active' \ failed' : t \in active \ failed /\ (wk[w].auto => wk'[w].auto /\ wk'[w].txn = wk[w].txn)
  BY <1>1, Zenon
<1>7. \A t \in aborting' : t[1] = s => wk'[w].pc = "undo" /\ wk'[w].txn = {t}
  <2>1. ASSUME NEW t \in aborting, t[1] = s
        PROVE  At(w, "undo") /\ wk[w].txn = {t}
    BY <1>2, <1>3, <2>1, Here, ZenonT(40) DEF TInv, TType
  <2> QED
    BY <1>1, <2>1, Zenon DEF At, Works
<1>8. \/ s \in sessions => slot[s].txn \subseteq active' \/ reloadFailed'
      \/ wk'[w].pc \in {"reload", "install"}
  <2>1. CASE wk[w].pc \in {"reload", "install"}
    BY <1>1, <2>1, Zenon DEF Works, At
  <2>2. CASE wk[w].pc \notin {"reload", "install"}
    BY <1>2, <1>3, <2>2, SlotActive, ZenonT(40)
  <2> QED
    BY <2>1, <2>2, Zenon
<1>9. /\ \A t \in TxnIds : t[1] # s => /\ t \in active' <=> t \in active
                                       /\ t \in aborting' <=> t \in aborting
                                       /\ t \in failed' <=> t \in failed
      /\ reloadFailed => reloadFailed'
      /\ slot' = slot
  OBVIOUS
<1>10. mutex'[session(w)] = {w}
  BY <1>1, Zenon
<1> QED
  BY <1>1, <1>2, <1>3, <1>4, <1>5, <1>6, <1>7, <1>8, <1>9, <1>10, MovedTxns, ZenonT(40)

-----------------------------------------------------------------------------
(* The steps of a worker: sessions and transactions. *)

LEMMA SameTxns ==
    ASSUME TInv, UNCHANGED <<txns, faults, failed, undoFailed, reloadFailed>>
    PROVE  /\ TType' /\ Faulty'
           /\ active' = active /\ aborting' = aborting /\ locked' = locked /\ undo' = undo
BY Zenon DEF TInv, TType, Faulty, txns, active

\* Between the steps of a job that waits for nothing, nobody undoes a transaction of
\* the session.
LEMMA NoUndoHere ==
    ASSUME SInv, TInv, NEW w \in Workers, InSession(w), ~At(w, "undo")
    PROVE  \A t \in aborting : t[1] # session(w)
BY Here, ZenonT(40) DEF TInv, TType

LEMMA RefuseStep ==
    ASSUME SInv, TInv, NEW w \in Workers, Refuse(w)
    PROVE  SInv' /\ TInv'
<1>1. /\ Starts(w, "execute") /\ AnswerError(w)
      /\ UNCHANGED <<txns, faults, failed, undoFailed, reloadFailed>>
  BY DEF Refuse, history
<1>2. InSession(w) /\ job(w).kind = "execute" /\ wk[w].pc = "lock" /\ wk[w].txn = {}
  BY <1>1, Started
<1>3. PICK s \in Sessions : s = session(w)
  BY <1>2, MyJob
<1>4. \A t \in aborting : t[1] # s
  BY <1>2, <1>3, NoUndoHere DEF At
<1>5. slot[s].txn \subseteq active \/ reloadFailed
  BY <1>2, <1>3, SlotActive, Connected
<1>6. TType' /\ Faulty' /\ active' = active /\ aborting' = aborting
  BY <1>1, SameTxns
<1> QED
  <2>1. ErrorKeeps(w, s)
    BY <1>1, <1>2, <1>4, <1>5, <1>6, Zenon DEF ErrorKeeps
  <2> QED
    BY <1>1, <1>2, <1>3, <1>6, <2>1, ErrorTxns, Zenon

LEMMA ReportTimeoutStep ==
    ASSUME SInv, TInv, NEW w \in Workers, ReportTimeout(w)
    PROVE  SInv' /\ TInv'
<1>1. /\ Starts(w, "execute") /\ mySlot(w) = TimedOut /\ Answer(w, NoSlot, {})
      /\ UNCHANGED <<txns, faults, failed, undoFailed, reloadFailed>>
  BY Zenon DEF ReportTimeout, history
<1>2. InSession(w) /\ job(w).kind = "execute" /\ wk[w].pc = "lock" /\ wk[w].txn = {}
  BY <1>1, Started, ZenonT(40)
<1>3. PICK s \in Sessions : s = session(w)
  BY <1>2, MyJob
<1>4. \A t \in aborting : t[1] # s
  BY <1>2, <1>3, NoUndoHere DEF At
<1>5. slot[s].txn = {}
  BY <1>1, <1>3 DEF mySlot, TimedOut
<1>6. TType' /\ Faulty' /\ active' = active /\ aborting' = aborting
  BY <1>1, SameTxns, Zenon
<1>7. \A t \in active \ failed : t[1] # s
  BY <1>2, <1>3, <1>5, Here, ZenonT(40) DEF TInv, TType
<1>8. /\ NoSlot \in Slots /\ {} \in Option(TxnIds) /\ NoSlot.txn = {} /\ NoSlot.tag = "None"
  BY DEF NoSlot, Slots, Option
<1> QED
  BY <1>1, <1>2, <1>3, <1>4, <1>6, <1>7, <1>8, AnswerTxns, ZenonT(40)

\* A transaction begins.
LEMMA BeginTxn ==
    ASSUME TInv, NEW t \in TxnIds, t \notin active, undo' = Put(undo, t, <<>>),
           UNCHANGED <<aborting, locked, faults, failed, undoFailed, reloadFailed>>
    PROVE  TType' /\ Faulty' /\ active' = active \cup {t}
<1>1. active' = active \cup {t} /\ \A x \in active' : undo'[x] = IF x = t THEN <<>> ELSE undo[x]
  BY Zenon DEF active, Put
<1>2. TType'
  <2>3. <<>> \in Seq(UndoRecords)
    OBVIOUS
  <2>1. \A x \in active' : undo'[x] \in Seq(UndoRecords)
    BY <1>1, <2>3, Zenon DEF TInv, TType
  <2>2. locked' \in Option(active')
    BY <1>1 DEF TInv, TType, Option
  <2> QED
    BY <1>1, <2>1, <2>2, Zenon DEF TInv, TType
<1> QED
  BY <1>1, <1>2, Zenon DEF TInv, Faulty

LEMMA HandleBeginStep ==
    ASSUME SInv, TInv, NEW w \in Workers, HandleBegin(w)
    PROVE  SInv' /\ TInv'
<1>1. /\ Starts(w, "execute") /\ mySlot(w).txn = {}
      /\ undo' = Put(undo, NewTxn(session(w)), <<>>)
      /\ Answer(w, [tag |-> "Active", txn |-> {NewTxn(session(w))}], {NewTxn(session(w))})
      /\ UNCHANGED <<aborting, locked, faults, failed, undoFailed, reloadFailed>>
  BY Zenon DEF HandleBegin, Runs, history
<1>2. InSession(w) /\ job(w).kind = "execute" /\ wk[w].pc = "lock" /\ wk[w].txn = {}
  BY <1>1, Started, Zenon
<1>3. PICK s \in Sessions : s = session(w)
  BY <1>2, MyJob
<1>4. slot[s].txn = {} /\ mutex[s] = {}
  BY <1>1, <1>3 DEF mySlot, Starts
<1>5. PICK t \in TxnIds : t = NewTxn(s) /\ t[1] = s /\ t \notin active /\ t \notin failed
  BY <1>4, IdLeft, Zenon
<1>6. PICK ns \in Slots : ns = [tag |-> "Active", txn |-> {t}]
  BY Zenon DEF Slots, Option
<1>7. PICK nv \in Option(TxnIds) : nv = {t}
  BY Zenon DEF Option
<1>8. TType' /\ Faulty' /\ active' = active \cup {t}
  BY <1>1, <1>3, <1>5, BeginTxn, ZenonT(40)
<1>9. \A x \in aborting : x[1] # s
  BY <1>2, <1>3, NoUndoHere, Zenon DEF At
<1>10. \A x \in active \ failed : x[1] # s
  BY <1>2, <1>3, <1>4, Here DEF TInv, TType
<1>11. Answer(w, ns, nv)
  BY <1>1, <1>3, <1>5, <1>6, <1>7, ZenonT(40)
<1>12. ns.tag = "Active" /\ ns.txn = {t}
  BY <1>6, Zenon
<1>13. /\ ns.txn = {} <=> ns.tag \in {"None", "TimedOut"}
       /\ \A x \in ns.txn : x[1] = session(w)
       /\ ns.tag # "TimedOut" => nv = ns.txn
       /\ ns.txn \subseteq active'
  BY <1>3, <1>5, <1>7, <1>8, <1>12, ZenonT(40)
<1>14. \A x \in TxnIds : x[1] # s => /\ x \in active' <=> x \in active
                                     /\ x \in aborting' <=> x \in aborting
                                     /\ x \in failed' <=> x \in failed
  BY <1>1, <1>5, <1>8, Zenon
<1>15. /\ \A x \in active' \ failed' : x[1] = s => ns.txn = {x}
       /\ \A x \in aborting' : x[1] # s
  BY <1>1, <1>8, <1>9, <1>10, <1>12, ZenonT(40)
<1>16. reloadFailed => reloadFailed'
  BY <1>1, Zenon
<1> QED
  BY <1>2, <1>3, <1>8, <1>11, <1>13, <1>14, <1>15, <1>16, AnswerTxns, ZenonT(40)

\* txn_for_statement.
LEMMA StartStatementStep ==
    ASSUME SInv, TInv, NEW w \in Workers, StartStatement(w)
    PROVE  SInv' /\ TInv'
<1>1. /\ Starts(w, "execute") /\ mySlot(w).tag \notin {"Aborted", "TimedOut"}
      /\ LockSession(w)
      /\ UNCHANGED <<clients, control, slot, idle, jobs>>
      /\ UNCHANGED <<aborting, locked, faults, failed, undoFailed, reloadFailed>>
  <2>1. mySlot(w) # TimedOut /\ mySlot(w).tag # "Aborted"
    BY DEF StartStatement, Runs
  <2>2. Starts(w, "execute")
    BY Zenon DEF StartStatement, Runs
  <2>3. session(w) \in Sessions
    BY <2>2, Started, MyJob
  <2>4. slot[session(w)] \in Slots /\ SlotOK(session(w))
    BY <2>3, Zenon DEF SInv, SType
  <2>5. mySlot(w).tag # "TimedOut"
    BY <2>1, <2>4, Zenon DEF mySlot, Slots, SlotOK, TimedOut
  <2> QED
    BY <2>1, <2>2, <2>5, Zenon DEF StartStatement, history
<1>2. /\ InSession(w) /\ job(w).kind = "execute" /\ wk[w].pc = "lock" /\ wk[w].txn = {}
      /\ ~wk[w].auto /\ wk[w].fresh = {}
  BY <1>1, Started, Zenon
<1>3. PICK s \in Sessions : s = session(w)
  BY <1>2, MyJob
<1>4. wk[w].job = {job(w)} /\ job(w) \in SessionJobs /\ s = job(w).session /\ s \in sessions
  BY <1>2, <1>3, MyJob, Connected, ZenonT(40) DEF session
<1>5. /\ mutex[s] = {} /\ slot[s] \in Slots /\ SlotOK(s)
      /\ slot[s].tag \notin {"Aborted", "TimedOut"} /\ wk \in [Workers -> Records]
  BY <1>1, <1>3 DEF Starts, SInv, SType, mySlot
<1>6. \A x \in aborting : x[1] # s
  BY <1>2, <1>3, NoUndoHere, Zenon DEF At
<1> DEFINE auto == slot[s].tag = "None"
           t == IF auto THEN NewTxn(s) ELSE The(slot[s].txn)
           pc == IF job(w).stmt = "INSERT" THEN "acquire" ELSE "create"
           r == [wk[w] EXCEPT !.pc = pc, !.txn = {t}, !.auto = auto]
<1>7. /\ undo' = IF auto THEN Put(undo, t, <<>>) ELSE undo
      /\ wk' = [wk EXCEPT ![w].pc = pc, ![w].txn = {t}, ![w].auto = auto]
  BY <1>3, Zenon DEF StartStatement, mySlot
<1>8. /\ t \in TxnIds /\ t[1] = s
      /\ auto => t \notin active /\ t \notin failed
      /\ ~auto => slot[s].txn = {t}
  <2>1. CASE auto
    BY <1>5, <2>1, IdLeft, Zenon DEF SlotOK
  <2>2. CASE ~auto
    <3>1. slot[s].txn # {} /\ slot[s].txn \in Option(TxnIds)
      BY <1>5, <2>2, Zenon DEF SlotOK, Slots
    <3>2. PICK x \in TxnIds : slot[s].txn = {x}
      BY <3>1, Zenon DEF Option
    <3>3. t = x
      BY <2>2, <3>2, TheOne, Zenon
    <3> QED
      BY <1>5, <2>2, <3>2, <3>3, Zenon DEF SlotOK
  <2> QED
    BY <2>1, <2>2, Zenon
<1>9. auto \in BOOLEAN /\ pc \in {"acquire", "create"}
  OBVIOUS
<1> HIDE DEF t, auto, pc
<1>10. r \in Records /\ wk' = [wk EXCEPT ![w] = r]
  <2>1. {t} \in Option(TxnIds) /\ pc \in Pcs /\ wk[w] \in Records
    BY <1>5, <1>8, <1>9, Zenon DEF Option, Pcs, Busy
  <2>2. r \in Records
    BY <1>9, <2>1, Zenon DEF Records
  <2> QED
    BY <1>5, <1>7, <2>2, Zenon
<1>11. /\ r.pc = pc /\ r.job = {job(w)} /\ r.txn = {t} /\ r.auto = auto /\ r.fresh = {}
  BY <1>2, <1>4, <1>5 DEF Records
<1> HIDE DEF r
<1>12. Shape(r) /\ r.pc \in Busy
  <2>1. FlushJob # job(w)
    BY <1>2 DEF FlushJob
  <2> QED
    BY <1>2, <1>9, <1>11, <2>1, ZenonT(40) DEF Shape, Busy
<1>13. PICK k \in SessionJobs : k = job(w)
  BY <1>4, Zenon
<1>14. /\ SInv' /\ Local(w) /\ mutex'[session(w)] = {w} /\ wk'[w] = r
       /\ \A kind, u : Queued(kind, u) => Queued(kind, u)'
  <2>1. /\ r.job = {k} /\ k.kind = job(w).kind /\ k.session = session(w)
        /\ \A x \in r.txn : x[1] = session(w)
        /\ r.auto => slot[session(w)].tag = "None"
        /\ ~r.auto /\ r.txn # {} => slot[session(w)].txn = r.txn
    BY <1>3, <1>4, <1>8, <1>11, <1>13, ZenonT(40) DEF auto
  <2> QED
    BY <1>1, <1>2, <1>10, <1>12, <2>1, Moves, ZenonT(40)
<1>15. /\ TType' /\ Faulty'
       /\ active' = IF auto THEN active \cup {t} ELSE active
  <2>1. CASE auto
    BY <1>1, <1>7, <1>8, <2>1, BeginTxn, ZenonT(40)
  <2>2. CASE ~auto
    BY <1>1, <1>7, <2>2, SameTxns, ZenonT(40) DEF txns
  <2> QED
    BY <2>1, <2>2, Zenon
<1>16. slot[s].txn \subseteq active \/ reloadFailed
  BY <1>2, <1>3, <1>4, SlotActive, Zenon
<1>17. WorkerTxn(w)'
  BY <1>9, <1>11, <1>14, <1>15, Zenon DEF WorkerTxn, At, Works
<1>18. \A x \in active' \ failed' : x[1] = s =>
           \/ x \in active \ failed /\ (wk[w].auto => wk'[w].auto /\ wk'[w].txn = wk[w].txn)
           \/ wk'[w].auto /\ wk'[w].txn = {x}
  BY <1>1, <1>2, <1>11, <1>14, <1>15, ZenonT(40)
<1>19. /\ \A x \in aborting' : x[1] = s => wk'[w].pc = "undo" /\ wk'[w].txn = {x}
       /\ s \in sessions => slot[s].txn \subseteq active' \/ reloadFailed'
       /\ slot' = slot /\ (reloadFailed => reloadFailed')
  BY <1>1, <1>6, <1>15, <1>16, ZenonT(40)
<1>20. \A x \in TxnIds : x[1] # s => /\ x \in active' <=> x \in active
                                     /\ x \in aborting' <=> x \in aborting
                                     /\ x \in failed' <=> x \in failed
  BY <1>1, <1>8, <1>15, Zenon
<1> QED
  BY <1>2, <1>3, <1>14, <1>15, <1>17, <1>18, <1>19, <1>20, MovedTxns, ZenonT(40)

LEMMA GotoRecord ==
    ASSUME SInv, NEW w \in Workers, NEW pc \in Pcs, Goto(w, pc)
    PROVE  \E r \in Records :
              /\ wk' = [wk EXCEPT ![w] = r] /\ r.pc = pc
              /\ r.job = wk[w].job /\ r.txn = wk[w].txn /\ r.auto = wk[w].auto /\ r.fresh = wk[w].fresh
<1> DEFINE r == [wk[w] EXCEPT !.pc = pc]
<1>1. wk \in [Workers -> Records] /\ wk[w] \in Records
  BY DEF SInv, SType
<1>2. r \in Records
  BY <1>1, Zenon DEF Records
<1>3. wk' = [wk EXCEPT ![w] = r]
  BY <1>1, Zenon DEF Goto
<1>4. /\ r.pc = pc /\ r.job = wk[w].job /\ r.txn = wk[w].txn /\ r.auto = wk[w].auto
      /\ r.fresh = wk[w].fresh
  BY <1>1, Zenon DEF Records
<1> QED
  BY <1>2, <1>3, <1>4, ZenonT(40)

\* A statement goes on from one of its steps to the next.
LEMMA StatementGoesOn ==
    ASSUME SInv, TInv, NEW w \in Workers, Works(w), NEW pc \in {"acquire", "create", "write"},
           Goto(w, pc), UNCHANGED <<clients, control, slot, idle, jobs, mutex>>,
           TType', UNCHANGED <<active, aborting, failed, faults, reloadFailed>>
    PROVE  SInv' /\ TInv'
<1>1. pc \in Pcs /\ wk[w].pc \in Busy
  BY Zenon DEF Pcs, Busy, Works
<1>2. PICK r \in Records :
          /\ wk' = [wk EXCEPT ![w] = r] /\ r.pc = pc
          /\ r.job = wk[w].job /\ r.txn = wk[w].txn /\ r.auto = wk[w].auto /\ r.fresh = wk[w].fresh
  BY <1>1, GotoRecord, Zenon
<1>3. Shape(wk[w])
  BY Zenon DEF SInv, Shapes
<1>4. Shape(r) /\ r.pc \in Busy
  BY <1>2, <1>3, ZenonT(40) DEF Shape, Busy, Works
<1>5. r.pc \in {"acquire", "create", "write"} /\ Works(w)
  BY <1>2
<1> QED
  BY <1>1, <1>2, <1>4, <1>5, KeptTxns, ZenonT(40)

LEMMA LockTableStep ==
    ASSUME SInv, TInv, NEW w \in Workers, LockTable(w)
    PROVE  SInv' /\ TInv'
<1>1. /\ Works(w) /\ Goto(w, "write") /\ txn(w) \in active /\ locked' = wk[w].txn
      /\ UNCHANGED <<clients, control, slot, idle, jobs, mutex>>
      /\ UNCHANGED <<undo, aborting, failed, faults, reloadFailed, undoFailed>>
  BY Zenon DEF LockTable, Works, At, state, history
<1>2. Shape(wk[w])
  BY Zenon DEF SInv, Shapes
<1>3. wk[w].txn = {txn(w)}
  BY <1>1, <1>2, MyTxn, ZenonT(40) DEF Shape, Works
<1>4. active' = active
  BY <1>1 DEF active
<1>5. locked' \in Option(active)
  BY <1>1, <1>3 DEF Option
<1>6. TType'
  BY <1>1, <1>4, <1>5, ZenonT(40) DEF TInv, TType
<1> QED
  BY <1>1, <1>4, <1>6, StatementGoesOn, ZenonT(40)

\* A worker's transaction gains or loses before-images.
LEMMA LogTxn ==
    ASSUME TInv, NEW t, NEW log, t \in active => log \in Seq(UndoRecords),
           undo' = [undo EXCEPT ![t] = log],
           UNCHANGED <<aborting, locked, failed, undoFailed, reloadFailed>>
    PROVE  TType' /\ active' = active
<1>1. active' = active
  BY DEF active
<1>2. \A x \in active : undo'[x] \in Seq(UndoRecords)
  <2>1. \A x \in active : undo'[x] = IF x = t THEN log ELSE undo[x]
    BY DEF active
  <2> QED
    BY <2>1, Zenon DEF TInv, TType
<1> QED
  BY <1>1, <1>2 DEF TInv, TType

\* A worker's step that leaves its control as it is.
LEMMA StaysThere ==
    ASSUME SInv, TInv, NEW w \in Workers, Works(w) \/ At(w, "undo"),
           UNCHANGED <<clients, control, state, jobs, wk>>,
           TType', UNCHANGED <<active, aborting, failed, faults, reloadFailed>>
    PROVE  SInv' /\ TInv'
<1>1. wk \in [Workers -> Records] /\ Shape(wk[w]) /\ wk[w].pc \in Busy
  BY Zenon DEF SInv, SType, Shapes, Works, At, Busy
<1>2. PICK r \in Records : r = wk[w]
  BY <1>1, Zenon
<1>3. wk' = [wk EXCEPT ![w] = r]
  BY <1>1, <1>2
<1>4. /\ Shape(r) /\ r.pc \in Busy
      /\ r.job = wk[w].job /\ r.txn = wk[w].txn /\ r.auto = wk[w].auto
  BY <1>1, <1>2, Zenon
<1>5. UNCHANGED <<clients, control, slot, idle, jobs, mutex>>
  BY Zenon DEF state
<1>6. \/ r.pc \in {"acquire", "create", "write"} /\ Works(w)
      \/ r.pc = "undo" /\ At(w, "undo")
  BY <1>2, Zenon DEF Works, At
<1> QED
  BY <1>1, <1>3, <1>4, <1>5, <1>6, KeptTxns, ZenonT(40)

LEMMA SplitRootStep ==
    ASSUME SInv, TInv, heap \in CatalogState, NEW w \in Workers, SplitRoot(w)
    PROVE  SInv' /\ TInv'
<1> DEFINE log == Append(undo[txn(w)], [root |-> heap.root])
<1>1. /\ Works(w) /\ undo' = [undo EXCEPT ![txn(w)] = log]
      /\ UNCHANGED <<clients, control, state, jobs, wk>>
      /\ UNCHANGED <<aborting, locked, failed, undoFailed, reloadFailed>> /\ faults' = faults
  BY Zenon DEF SplitRoot, Works, At, history
<1>2. [root |-> heap.root] \in UndoRecords
  BY Zenon DEF CatalogState, UndoRecords
<1>3. txn(w) \in active => log \in Seq(UndoRecords)
  <2>1. txn(w) \in active => undo[txn(w)] \in Seq(UndoRecords)
    BY DEF TInv, TType
  <2> QED
    BY <1>2, <2>1
<1> HIDE DEF log
<1>4. TType' /\ active' = active
  BY <1>1, <1>3, LogTxn, Zenon
<1> QED
  BY <1>1, <1>4, StaysThere, Zenon

LEMMA CreateTableStep ==
    ASSUME SInv, TInv, NEW w \in Workers, CreateTable(w)
    PROVE  SInv' /\ TInv'
<1>1. PICK n \in Names :
          undo' = IF txn(w) \in active
                  THEN [undo EXCEPT ![txn(w)] = Append(@, [table |-> n])] ELSE undo
  BY Zenon DEF CreateTable
<1>2. /\ Works(w) /\ Goto(w, "write")
      /\ UNCHANGED <<clients, control, slot, idle, jobs, mutex>>
      /\ UNCHANGED <<aborting, locked, failed, undoFailed, reloadFailed>> /\ faults' = faults
  BY Zenon DEF CreateTable, Works, At, history, state
<1>3. TType' /\ active' = active
  <2>1. CASE txn(w) \in active
    <3> DEFINE log == Append(undo[txn(w)], [table |-> n])
    <3>1. undo' = [undo EXCEPT ![txn(w)] = log]
      BY <1>1, <2>1, Zenon
    <3>2. [table |-> n] \in UndoRecords
      BY Zenon DEF UndoRecords
    <3>3. undo[txn(w)] \in Seq(UndoRecords)
      BY <2>1, Zenon DEF TInv, TType
    <3>4. log \in Seq(UndoRecords)
      BY <3>2, <3>3
    <3> HIDE DEF log
    <3> QED
      BY <1>2, <3>1, <3>4, LogTxn, ZenonT(40)
  <2>2. CASE txn(w) \notin active
    BY <1>1, <1>2, <2>2, ZenonT(40) DEF TInv, TType, active
  <2> QED
    BY <2>1, <2>2, Zenon
<1> QED
  BY <1>2, <1>3, StatementGoesOn, Zenon

\* The transaction that w undoes.
LEMMA Undoing ==
    ASSUME SInv, TInv, NEW w \in Workers, At(w, "undo")
    PROVE  /\ wk[w].pc \in Busy /\ InSession(w)
           /\ wk[w].txn = {txn(w)} /\ txn(w) \in TxnIds /\ txn(w) \in active /\ txn(w) \in aborting
           /\ txn(w)[1] = session(w) /\ undo[txn(w)] \in Seq(UndoRecords)
<1>1. Shape(wk[w]) /\ WorkerTxn(w)
  BY Zenon DEF SInv, Shapes, TInv
<1>2. wk[w].pc \in Busy /\ InSession(w)
  BY Zenon DEF At, Busy, InSession
<1>3. wk[w].txn = {txn(w)} /\ txn(w) \in TxnIds
  BY <1>1, MyTxn, Zenon DEF Shape, At
<1>4. txn(w)[1] = session(w)
  BY <1>2, <1>3, MySession, Zenon
<1> QED
  BY <1>1, <1>2, <1>3, <1>4, ZenonT(40) DEF WorkerTxn, TInv, TType

LEMMA UndoRecordStep ==
    ASSUME SInv, TInv, NEW w \in Workers, UndoRecord(w)
    PROVE  SInv' /\ TInv'
<1> DEFINE log == SubSeq(undo[txn(w)], 1, Len(undo[txn(w)]) - 1)
<1>1. /\ At(w, "undo") /\ undo' = [undo EXCEPT ![txn(w)] = log] /\ undo[txn(w)] # <<>>
      /\ UNCHANGED <<clients, control, state, jobs, wk>>
      /\ UNCHANGED <<aborting, locked, failed, undoFailed, reloadFailed>> /\ faults' = faults
  BY Zenon DEF UndoRecord, history
<1>2. undo[txn(w)] \in Seq(UndoRecords)
  BY <1>1, Undoing, Zenon
<1>3. log \in Seq(UndoRecords)
  BY <1>1, <1>2
<1> HIDE DEF log
<1>4. TType' /\ active' = active
  BY <1>1, <1>3, LogTxn, ZenonT(40)
<1> QED
  BY <1>1, <1>4, StaysThere, Zenon

\* A reload goes on from reading the rows to installing them.
LEMMA ReadCatalogStep ==
    ASSUME SInv, TInv, heap \in CatalogState, NEW w \in Workers, ReadCatalog(w)
    PROVE  SInv' /\ TInv'
<1> DEFINE r == [wk[w] EXCEPT !.pc = "install", !.fresh = {heap}]
<1>1. /\ At(w, "reload") /\ wk' = [wk EXCEPT ![w].pc = "install", ![w].fresh = {heap}]
      /\ UNCHANGED <<clients, control, slot, idle, jobs, mutex>>
      /\ UNCHANGED <<txns, faults, failed, undoFailed, reloadFailed>>
  BY Zenon DEF ReadCatalog, state, history
<1>2. wk \in [Workers -> Records] /\ wk[w] \in Records /\ Shape(wk[w]) /\ wk[w].pc \in Busy
  BY <1>1, Zenon DEF SInv, SType, Shapes, At, Busy
<1>3. r \in Records
  <2>1. {heap} \in Option(CatalogState) /\ "install" \in Pcs
    BY DEF Option, Pcs, Busy
  <2> QED
    BY <1>2, <2>1, Zenon DEF Records
<1>4. wk' = [wk EXCEPT ![w] = r]
  BY <1>1, <1>2, Zenon
<1>5. /\ r.pc = "install" /\ r.job = wk[w].job /\ r.txn = wk[w].txn /\ r.auto = wk[w].auto
      /\ r.fresh = {heap}
  BY <1>2, Zenon DEF Records
<1> HIDE DEF r
<1>6. Shape(r) /\ r.pc \in Busy
  BY <1>1, <1>2, <1>5, ZenonT(40) DEF Shape, Busy, At
<1>7. TType' /\ UNCHANGED <<active, aborting, failed, faults, reloadFailed>>
  BY <1>1, SameTxns, Zenon
<1>8. r.pc \in {"reload", "install"} /\ wk[w].pc \in {"reload", "install"}
  BY <1>1, <1>5, Zenon DEF At
<1> QED
  BY <1>1, <1>2, <1>3, <1>4, <1>5, <1>6, <1>7, <1>8, KeptTxns, ZenonT(40)

\* abort_txn, up to the end of begin_abort: for a statement that ran on its own, or for
\* the transaction of a session by a job that starts.
LEMMA AbortStep ==
    ASSUME SInv, TInv, NEW w \in Workers, InSession(w), NEW s \in Sessions, s = session(w),
           NEW t \in TxnIds, Abort(w, {t}),
           \/ Works(w) /\ wk[w].auto /\ wk[w].txn = {t}
           \/ wk[w].pc = "lock" /\ ~wk[w].auto /\ slot[s].txn = {t},
           UNCHANGED <<undo, locked, faults, history>>
    PROVE  SInv' /\ TInv'
<1>1. /\ wk[w].job = {job(w)} /\ job(w) \in SessionJobs /\ job(w).session = s
      /\ job(w).kind \in {"execute", "expire", "disconnect"}
  BY MyJob, Zenon DEF InSession, At, session
<1>2. wk \in [Workers -> Records] /\ wk[w] \in Records /\ Shape(wk[w]) /\ SlotOK(s) /\ WorkerTxn(w)
  BY Zenon DEF SInv, SType, Shapes, TInv
<1>3. /\ t[1] = s /\ ~At(w, "undo") /\ wk[w].pc \notin {"reload", "install"}
      /\ wk[w].auto => slot[s].tag = "None" /\ slot[s].txn = {} /\ job(w).kind = "execute"
      /\ ~wk[w].auto => slot[s].txn = {t}
  <2>1. CASE Works(w) /\ wk[w].auto /\ wk[w].txn = {t}
    BY <1>2, <2>1, Running, MySession, ZenonT(40) DEF Works, At, SlotOK
  <2>2. CASE wk[w].pc = "lock" /\ ~wk[w].auto /\ slot[s].txn = {t}
    BY <1>2, <2>2, Zenon DEF At, SlotOK
  <2> QED
    BY <2>1, <2>2, Zenon
<1>4. \A x \in aborting : x[1] # s
  BY <1>3, NoUndoHere, Zenon
<1>5. s \in sessions => slot[s].txn \subseteq active \/ reloadFailed
  BY <1>3, SlotActive, Zenon
<1>6. CASE /\ {t} \subseteq active \ aborting
           /\ aborting' = aborting \cup {t}
           /\ wk' = [wk EXCEPT ![w] = [Ready EXCEPT !.pc = "undo", !.txn = {t}, !.auto = wk[w].auto,
                                                   !.job = {Job(job(w).kind, session(w), NoStatement)}]]
           /\ LockSession(w)
           /\ UNCHANGED <<clients, control, slot, idle, jobs>>
  <2> DEFINE k == Job(job(w).kind, session(w), NoStatement)
             r == [Ready EXCEPT !.pc = "undo", !.txn = {t}, !.auto = wk[w].auto, !.job = {k}]
  <2>1. k \in SessionJobs /\ k.kind = job(w).kind /\ k.session = s
    BY <1>1, Zenon DEF Job, SessionJobs
  <2> HIDE DEF k
  <2>2. /\ r.pc = "undo" /\ r.txn = {t} /\ r.auto = wk[w].auto /\ r.job = {k} /\ r.fresh = {}
    BY DEF Ready
  <2>3. r \in Records
    <3>1. {t} \in Option(TxnIds) /\ {k} \in Option(Jobs) /\ {} \in Option(CatalogState) /\ "undo" \in Pcs
      BY <2>1, Zenon DEF Option, Jobs, Pcs, Busy
    <3>2. wk[w].auto \in BOOLEAN
      BY <1>2, Zenon DEF Records
    <3> QED
      BY <3>1, <3>2, Zenon DEF Records, Ready
  <2>4. wk' = [wk EXCEPT ![w] = r]
    BY <1>6, Zenon DEF k
  <2> HIDE DEF r
  <2>5. Shape(r) /\ r.pc \in Busy
    <3>1. FlushJob # k
      BY <1>1, <2>1 DEF FlushJob
    <3> QED
      BY <1>3, <2>1, <2>2, <3>1, ZenonT(40) DEF Shape, Busy
  <2>6. /\ SInv' /\ Local(w) /\ mutex'[session(w)] = {w} /\ wk'[w] = r
        /\ \A kind, u : Queued(kind, u) => Queued(kind, u)'
    <3>1. /\ r.job = {k} /\ k.kind = job(w).kind /\ k.session = session(w)
          /\ \A x \in r.txn : x[1] = session(w)
          /\ r.auto => slot[session(w)].tag = "None"
          /\ ~r.auto /\ r.txn # {} => slot[session(w)].txn = r.txn
      BY <1>3, <2>1, <2>2, ZenonT(40)
    <3> QED
      BY <1>6, <2>1, <2>3, <2>4, <2>5, <3>1, Moves, ZenonT(40)
  <2>7. TType' /\ Faulty' /\ active' = active /\ failed' = failed /\ reloadFailed' = reloadFailed
    BY <1>6, ZenonT(40) DEF TInv, TType, Faulty, active, history
  <2>8. WorkerTxn(w)'
    BY <1>6, <2>2, <2>6, ZenonT(40) DEF WorkerTxn, Works, At
  <2>9. \A x \in active' \ failed' : x[1] = s =>
            \/ x \in active \ failed /\ (wk[w].auto => wk'[w].auto /\ wk'[w].txn = wk[w].txn)
            \/ wk'[w].auto /\ wk'[w].txn = {x}
    BY <2>2, <2>6, <2>7, ZenonT(40)
  <2>10. /\ \A x \in aborting' : x[1] = s => wk'[w].pc = "undo" /\ wk'[w].txn = {x}
         /\ s \in sessions => slot[s].txn \subseteq active' \/ reloadFailed'
         /\ slot' = slot /\ (reloadFailed => reloadFailed')
    BY <1>4, <1>5, <1>6, <2>2, <2>6, <2>7, ZenonT(40)
  <2>11. \A x \in TxnIds : x[1] # s => /\ x \in active' <=> x \in active
                                       /\ x \in aborting' <=> x \in aborting
                                       /\ x \in failed' <=> x \in failed
    BY <1>3, <1>6, <2>7, ZenonT(40)
  <2> QED
    BY <2>6, <2>7, <2>8, <2>9, <2>10, <2>11, MovedTxns, ZenonT(40)
<1>7. CASE ~({t} \subseteq active) /\ AbortReturns(w, FALSE) /\ UNCHANGED aborting
  <2>1. ~wk[w].auto /\ wk[w].pc = "lock" /\ wk[w].txn = {} /\ slot[s].txn = {t} /\ wk[w].fresh = {}
    BY <1>2, <1>7, Zenon DEF WorkerTxn, Shape, Busy
  <2>2. /\ TType' /\ Faulty' /\ active' = active /\ aborting' = aborting /\ failed' = failed
        /\ reloadFailed' = reloadFailed
    BY <1>7, SameTxns, ZenonT(40) DEF txns, history
  <2>3. CASE /\ job(w).kind # "execute" /\ Goto(w, "reload") /\ LockSession(w)
             /\ UNCHANGED <<clients, control, slot, idle, jobs>>
    <3>1. PICK r \in Records :
              /\ wk' = [wk EXCEPT ![w] = r] /\ r.pc = "reload"
              /\ r.job = wk[w].job /\ r.txn = wk[w].txn /\ r.auto = wk[w].auto /\ r.fresh = wk[w].fresh
      BY <2>3, GotoRecord DEF Pcs, Busy
    <3>2. Shape(r) /\ r.pc \in Busy
      BY <1>2, <2>1, <3>1, ZenonT(40) DEF Shape, Busy
    <3>3. PICK k \in SessionJobs : k = job(w)
      BY <1>1, Zenon
    <3>4. /\ SInv' /\ Local(w) /\ mutex'[session(w)] = {w} /\ wk'[w] = r
          /\ \A kind, u : Queued(kind, u) => Queued(kind, u)'
      <4>1. /\ r.job = {k} /\ k.kind = job(w).kind /\ k.session = session(w)
            /\ \A x \in r.txn : x[1] = session(w)
            /\ r.auto => slot[session(w)].tag = "None"
            /\ ~r.auto /\ r.txn # {} => slot[session(w)].txn = r.txn
        BY <1>1, <2>1, <3>1, <3>3, ZenonT(40)
      <4> QED
        BY <2>3, <3>1, <3>2, <4>1, Moves, ZenonT(40)
    <3>5. WorkerTxn(w)'
      <4>1. slot'[s].txn \cap active' = {} /\ wk'[w].txn = {} /\ wk'[w].job = {job(w)} /\ wk'[w].pc = "reload"
        BY <1>1, <1>7, <2>1, <2>2, <2>3, <3>1, <3>4, ZenonT(40)
      <4> QED
        BY <1>1, <4>1, Zenon DEF WorkerTxn, Works, At
    <3>6. \A x \in active' \ failed' : x[1] = s =>
              \/ x \in active \ failed /\ (wk[w].auto => wk'[w].auto /\ wk'[w].txn = wk[w].txn)
              \/ wk'[w].auto /\ wk'[w].txn = {x}
      BY <2>1, <2>2, Zenon
    <3>7. /\ \A x \in aborting' : x[1] = s => wk'[w].pc = "undo" /\ wk'[w].txn = {x}
          /\ wk'[w].pc \in {"reload", "install"}
          /\ slot' = slot /\ (reloadFailed => reloadFailed')
      BY <1>4, <2>2, <2>3, <3>1, <3>4, ZenonT(40)
    <3>8. \A x \in TxnIds : x[1] # s => /\ x \in active' <=> x \in active
                                        /\ x \in aborting' <=> x \in aborting
                                        /\ x \in failed' <=> x \in failed
      BY <2>2, ZenonT(40)
    <3> QED
      BY <2>2, <3>4, <3>5, <3>6, <3>7, <3>8, MovedTxns, ZenonT(40)
  <2>4. CASE job(w).kind = "execute" /\ AnswerError(w)
    <3>1. reloadFailed
      BY <1>5, <1>7, <2>1, <2>4, Connected, ZenonT(40)
    <3>2. /\ \A x \in active' \ failed' : x[1] = s =>
                (x \in active \ failed /\ {x} # wk[w].txn) \/ slot[s].txn = {x}
          /\ \A x \in aborting' : x[1] # s
          /\ slot[s].txn \subseteq active' \/ reloadFailed'
          /\ reloadFailed => reloadFailed'
      BY <1>4, <2>1, <2>2, <3>1, Zenon
    <3>3. \A x \in TxnIds : x[1] # s => /\ x \in active' <=> x \in active
                                        /\ x \in aborting' <=> x \in aborting
                                        /\ x \in failed' <=> x \in failed
      BY <2>2, Zenon
    <3>4. ErrorKeeps(w, s)
      BY <3>2, <3>3, Zenon DEF ErrorKeeps
    <3> QED
      BY <1>1, <2>2, <2>4, <3>4, ErrorTxns, Zenon
  <2> QED
    BY <1>7, <2>1, <2>3, <2>4, ZenonT(40) DEF AbortReturns
<1> QED
  BY <1>6, <1>7, Zenon DEF Abort

\* The transaction of a statement that runs.
LEMMA WorkingTxn ==
    ASSUME SInv, TInv, NEW w \in Workers, Works(w)
    PROVE  /\ wk[w].pc \in Busy /\ InSession(w) /\ job(w).kind = "execute" /\ session(w) \in Sessions
           /\ wk[w].txn = {txn(w)} /\ txn(w) \in TxnIds /\ txn(w)[1] = session(w)
           /\ wk[w].auto => txn(w) \in active /\ slot[session(w)].txn = {}
           /\ ~wk[w].auto => slot[session(w)].txn = {txn(w)}
           /\ \A t \in aborting : t[1] # session(w)
           /\ slot[session(w)].txn \subseteq active \/ reloadFailed
<1>1. Shape(wk[w]) /\ WorkerTxn(w)
  BY Zenon DEF SInv, Shapes, TInv
<1>2. wk[w].pc \in Busy /\ InSession(w) /\ job(w).kind = "execute" /\ session(w) \in Sessions
  BY Running, MyJob, Zenon
<1>3. wk[w].txn = {txn(w)} /\ txn(w) \in TxnIds
  BY <1>1, MyTxn, Zenon DEF Shape, Works
<1>4. SlotOK(session(w)) /\ session(w) \in sessions
  BY <1>2, Connected, Zenon DEF SInv
<1>5. \A t \in aborting : t[1] # session(w)
  BY <1>2, NoUndoHere, Zenon DEF Works, At
<1>6. slot[session(w)].txn \subseteq active \/ reloadFailed
  BY <1>2, <1>4, SlotActive, Zenon DEF Works
<1>7. /\ \A t \in wk[w].txn : t[1] = session(w)
      /\ wk[w].auto => slot[session(w)].tag = "None"
      /\ ~wk[w].auto /\ wk[w].txn # {} => slot[session(w)].txn = wk[w].txn
  BY <1>2, MySession, Zenon
<1>8. wk[w].auto => txn(w) \in active /\ slot[session(w)].txn = {}
  BY <1>1, <1>3, <1>4, <1>7, ZenonT(40) DEF WorkerTxn, SlotOK
<1> QED
  BY <1>2, <1>3, <1>5, <1>6, <1>7, <1>8, ZenonT(40)

LEMMA FailStatementStep ==
    ASSUME SInv, TInv, NEW w \in Workers, FailStatement(w)
    PROVE  SInv' /\ TInv'
<1>1. Works(w) /\ UNCHANGED <<undo, locked, faults, history>>
  BY Zenon DEF FailStatement, Works, At
<1>2. PICK s \in Sessions : s = session(w)
  BY <1>1, WorkingTxn, Zenon
<1>3. PICK t \in TxnIds : t = txn(w)
  BY <1>1, WorkingTxn, Zenon
<1>4. /\ InSession(w) /\ job(w).kind = "execute" /\ wk[w].txn = {t} /\ t[1] = s
      /\ ~wk[w].auto => slot[s].txn = {t}
      /\ \A x \in aborting : x[1] # s
      /\ slot[s].txn \subseteq active \/ reloadFailed
  BY <1>1, <1>2, <1>3, WorkingTxn, Zenon
<1>5. CASE wk[w].auto /\ Abort(w, wk[w].txn)
  BY <1>1, <1>2, <1>4, <1>5, AbortStep, ZenonT(40)
<1>6. CASE /\ ~wk[w].auto /\ Answer(w, [tag |-> "Aborted", txn |-> wk[w].txn], view[session(w)])
           /\ UNCHANGED aborting
  <2>1. PICK ns \in Slots : ns = [tag |-> "Aborted", txn |-> {t}]
    BY Zenon DEF Slots, Option
  <2>2. PICK nv \in Option(TxnIds) : nv = view[s]
    BY Zenon DEF SInv, SType
  <2>3. ns.tag = "Aborted" /\ ns.txn = {t} /\ Answer(w, ns, nv)
    BY <1>2, <1>4, <1>6, <2>1, <2>2, ZenonT(40)
  <2>4. nv = {t}
    <3>1. SlotOK(s) /\ s \in sessions /\ slot[s].txn = {t}
      BY <1>2, <1>4, <1>6, Connected, ZenonT(40) DEF SInv
    <3> QED
      BY <2>2, <3>1, Zenon DEF SlotOK
  <2>5. /\ TType' /\ Faulty' /\ active' = active /\ aborting' = aborting /\ failed' = failed
        /\ reloadFailed' = reloadFailed
    BY <1>1, <1>6, SameTxns, Zenon DEF txns, history
  <2>6. /\ ns.txn = {} <=> ns.tag \in {"None", "TimedOut"}
        /\ \A x \in ns.txn : x[1] = session(w)
        /\ ns.tag # "TimedOut" => nv = ns.txn
        /\ ns.txn \subseteq active' \/ reloadFailed'
    BY <1>2, <1>4, <1>6, <2>3, <2>4, <2>5, ZenonT(40)
  <2>7. /\ \A x \in active' \ failed' : x[1] = s => ns.txn = {x}
        /\ \A x \in aborting' : x[1] # s
    <3>1. \A x \in active \ failed : x[1] = s => slot[s].txn = {x}
      BY <1>2, <1>4, <1>6, Here, ZenonT(40) DEF TInv, TType
    <3> QED
      BY <1>4, <1>6, <2>3, <2>5, <3>1, ZenonT(40)
  <2>8. \A x \in TxnIds : x[1] # s => /\ x \in active' <=> x \in active
                                      /\ x \in aborting' <=> x \in aborting
                                      /\ x \in failed' <=> x \in failed
    BY <2>5, Zenon
  <2>9. TType' /\ Faulty' /\ (reloadFailed => reloadFailed')
    BY <2>5, Zenon
  <2>10. InSession(w) /\ job(w).kind = "execute" /\ Answer(w, ns, nv)
    BY <1>4, <2>3, Zenon
  <2> QED
    BY <1>2, <2>6, <2>7, <2>8, <2>9, <2>10, AnswerTxns, ZenonT(40)
<1> QED
  BY <1>5, <1>6, Zenon DEF FailStatement

\* A slot that names a transaction.
LEMMA SlotTxnId ==
    ASSUME SInv, NEW s \in Sessions, slot[s].txn # {}
    PROVE  \E t \in TxnIds : slot[s].txn = {t} /\ t[1] = s
<1>1. slot[s].txn \in Option(TxnIds) /\ \A t \in slot[s].txn : t[1] = s
  BY Zenon DEF SInv, SType, Slots, SlotOK
<1> QED
  BY <1>1, Zenon DEF Option

LEMMA HandleRollbackStep ==
    ASSUME SInv, TInv, NEW w \in Workers, HandleRollback(w)
    PROVE  SInv' /\ TInv'
<1>1. /\ Starts(w, "execute") /\ slot[session(w)].txn # {} /\ Abort(w, slot[session(w)].txn)
      /\ UNCHANGED <<undo, locked, faults, history>>
  BY Zenon DEF HandleRollback, Runs, mySlot
<1>2. InSession(w) /\ wk[w].pc = "lock" /\ ~wk[w].auto
  BY <1>1, Started, Zenon
<1>3. PICK s \in Sessions : s = session(w)
  BY <1>2, MyJob, Zenon
<1>4. PICK t \in TxnIds : slot[s].txn = {t} /\ t[1] = s
  BY <1>1, <1>3, SlotTxnId, Zenon
<1> QED
  BY <1>1, <1>2, <1>3, <1>4, AbortStep, ZenonT(40)

LEMMA EndForSessionStep ==
    ASSUME SInv, TInv, NEW w \in Workers, EndForSession(w)
    PROVE  SInv' /\ TInv'
<1>1. /\ \E kind \in {"expire", "disconnect"} : Starts(w, kind)
      /\ slot[session(w)].txn # {} /\ Abort(w, slot[session(w)].txn)
      /\ UNCHANGED <<undo, locked, faults, history>>
  BY Zenon DEF EndForSession
<1>2. InSession(w) /\ wk[w].pc = "lock" /\ ~wk[w].auto
  BY <1>1, Started, ZenonT(40)
<1>3. PICK s \in Sessions : s = session(w)
  BY <1>2, MyJob, Zenon
<1>4. PICK t \in TxnIds : slot[s].txn = {t} /\ t[1] = s
  BY <1>1, <1>3, SlotTxnId, Zenon
<1> QED
  BY <1>1, <1>2, <1>3, <1>4, AbortStep, ZenonT(40)

\* A transaction ends.
LEMMA EndTxn ==
    ASSUME TInv, NEW t \in active, undo' = Drop(undo, t), locked' = locked \ {t},
           failed' = failed \ {t}, aborting' = aborting \ {t},
           UNCHANGED <<faults, undoFailed, reloadFailed>>
    PROVE  TType' /\ Faulty' /\ active' = active \ {t}
<1>1. active' = active \ {t} /\ \A x \in active' : undo'[x] = undo[x]
  BY Zenon DEF active, Drop
<1>2. TType'
  <2>1. \A x \in active' : undo'[x] \in Seq(UndoRecords)
    BY <1>1, ZenonT(40) DEF TInv, TType
  <2>2. locked' \in Option(active')
    BY <1>1, ZenonT(40) DEF TInv, TType, Option
  <2> QED
    BY <1>1, <2>1, <2>2, ZenonT(40) DEF TInv, TType
<1>3. Faulty'
  <2>1. IsFiniteSet(failed) /\ Cardinality(failed) <= faults /\ faults \in 0 .. MaxFaults
    BY Zenon DEF TInv, Faulty
  <2>2. IsFiniteSet(failed') /\ Cardinality(failed') <= Cardinality(failed)
    BY <2>1, FS_Subset, Zenon
  <2>3. Cardinality(failed) \in Nat /\ Cardinality(failed') \in Nat
    BY <2>1, <2>2, FS_CardinalityType, ZenonT(40)
  <2> QED
    BY <2>1, <2>2, <2>3, EngineBounds DEF Faulty
<1> QED
  BY <1>1, <1>2, <1>3, Zenon

\* COMMIT, and the end of a statement that ran on its own.
LEMMA CommitStep ==
    ASSUME SInv, TInv, NEW w \in Workers, InSession(w), job(w).kind = "execute", ~At(w, "undo"),
           NEW s \in Sessions, s = session(w), NEW t \in active, t[1] = s, CommitTxn(t),
           \/ wk[w].auto /\ wk[w].txn = {t} /\ slot[s] = NoSlot
           \/ ~wk[w].auto /\ slot[s].txn = {t},
           Answer(w, NoSlot, {}), UNCHANGED <<aborting, faults, undoFailed, reloadFailed>>
    PROVE  SInv' /\ TInv'
<1>1. \A x \in aborting : x[1] # s
  BY NoUndoHere, Zenon
<1>2. /\ undo' = Drop(undo, t) /\ locked' = locked \ {t} /\ failed' = failed \ {t}
      /\ aborting' = aborting \ {t}
  BY <1>1, Zenon DEF CommitTxn
<1>3. TType' /\ Faulty' /\ active' = active \ {t}
  BY <1>2, EndTxn, Zenon
<1>4. ASSUME NEW x \in active \ failed, x[1] = s
      PROVE  x = t
  <2>1. x \in TxnIds
    BY Zenon DEF TInv, TType
  <2>2. slot[s].txn = {x} \/ (wk[w].auto /\ wk[w].txn = {x})
    BY <1>4, <2>1, Here, Zenon
  <2>3. NoSlot.txn = {}
    BY Zenon DEF NoSlot
  <2> QED
    BY <2>2, <2>3, Zenon
<1>5. /\ NoSlot \in Slots /\ {} \in Option(TxnIds) /\ NoSlot.txn = {} /\ NoSlot.tag = "None"
  BY Zenon DEF NoSlot, Slots, Option
<1>6. PICK ns \in Slots : ns = NoSlot
  BY <1>5, Zenon
<1>7. PICK nv \in Option(TxnIds) : nv = {}
  BY <1>5, Zenon
<1>8. /\ Answer(w, ns, nv)
      /\ ns.txn = {} <=> ns.tag \in {"None", "TimedOut"}
      /\ \A x \in ns.txn : x[1] = session(w)
      /\ ns.tag # "TimedOut" => nv = ns.txn
      /\ ns.txn \subseteq active'
  BY <1>5, <1>6, <1>7, Zenon
<1>9. \A x \in TxnIds : x[1] # s => /\ x \in active' <=> x \in active
                                    /\ x \in aborting' <=> x \in aborting
                                    /\ x \in failed' <=> x \in failed
  BY <1>2, <1>3, Zenon
<1>10. /\ \A x \in active' \ failed' : x[1] = s => ns.txn = {x}
       /\ \A x \in aborting' : x[1] # s
       /\ reloadFailed => reloadFailed'
  BY <1>1, <1>2, <1>3, <1>4, ZenonT(40)
<1> QED
  BY <1>3, <1>8, <1>9, <1>10, AnswerTxns, ZenonT(40)

\* The client of a statement that runs believes in what its session's slot says.
LEMMA ViewIsSlot ==
    ASSUME SInv, NEW w \in Workers, InSession(w), job(w).kind = "execute",
           slot[session(w)].tag # "TimedOut"
    PROVE  view[session(w)] = slot[session(w)].txn
<1>1. session(w) \in sessions /\ session(w) \in Sessions
  BY Connected, Zenon DEF SInv, SType
<1> QED
  BY <1>1, ZenonT(40) DEF SInv, SlotOK

LEMMA EndStatementStep ==
    ASSUME SInv, TInv, NEW w \in Workers, EndStatement(w)
    PROVE  SInv' /\ TInv'
<1>1. /\ Works(w) /\ AnswerError(w) /\ wk[w].pc = "write"
      /\ UNCHANGED <<aborting, faults, undoFailed, reloadFailed>>
  BY Zenon DEF EndStatement, Works, At, AnswerError, mySlot
<1>2. PICK s \in Sessions : s = session(w)
  BY <1>1, WorkingTxn, Zenon
<1>3. PICK t \in TxnIds : t = txn(w)
  BY <1>1, WorkingTxn, Zenon
<1>4. /\ InSession(w) /\ job(w).kind = "execute" /\ wk[w].txn = {t} /\ t[1] = s
      /\ wk[w].auto => t \in active /\ slot[s].txn = {}
      /\ ~wk[w].auto => slot[s].txn = {t}
      /\ \A x \in aborting : x[1] # s
      /\ slot[s].txn \subseteq active \/ reloadFailed
  BY <1>1, <1>2, <1>3, WorkingTxn, ZenonT(40)
<1>5. CASE wk[w].auto /\ CommitTxn(txn(w))
  <2>1. slot[s].tag = "None" /\ slot[s] \in Slots
    BY <1>1, <1>2, <1>5, WorkingTxn, MySession, ZenonT(40) DEF SInv, SType
  <2>2. slot[s] = NoSlot
    BY <1>4, <1>5, <2>1, Zenon DEF Slots, NoSlot
  <2>3. view[s] = {}
    BY <1>2, <1>4, <1>5, <2>1, ViewIsSlot, ZenonT(40)
  <2>4. Answer(w, NoSlot, {})
    BY <1>1, <1>2, <2>2, <2>3, ZenonT(40) DEF AnswerError
  <2>5. ~At(w, "undo") /\ t \in active /\ CommitTxn(t)
    BY <1>1, <1>3, <1>4, <1>5, ZenonT(40) DEF At
  <2>6. wk[w].auto /\ wk[w].txn = {t} /\ slot[s] = NoSlot
    BY <1>4, <1>5, <2>2, ZenonT(40)
  <2> QED
    BY <1>1, <1>2, <1>4, <2>4, <2>5, <2>6, CommitStep, ZenonT(40)
<1>6. CASE ~wk[w].auto /\ UNCHANGED <<undo, locked, failed, committed>>
  <2>1. /\ TType' /\ Faulty' /\ active' = active /\ aborting' = aborting /\ failed' = failed
        /\ reloadFailed' = reloadFailed
    BY <1>1, <1>6, SameTxns, Zenon DEF txns
  <2>2. /\ \A x \in active' \ failed' : x[1] = s =>
              (x \in active \ failed /\ {x} # wk[w].txn) \/ slot[s].txn = {x}
        /\ \A x \in aborting' : x[1] # s
        /\ slot[s].txn \subseteq active' \/ reloadFailed'
        /\ reloadFailed => reloadFailed'
    BY <1>4, <1>6, <2>1, Zenon
  <2>3. \A x \in TxnIds : x[1] # s => /\ x \in active' <=> x \in active
                                      /\ x \in aborting' <=> x \in aborting
                                      /\ x \in failed' <=> x \in failed
    BY <2>1, Zenon
  <2>4. TType' /\ Faulty' /\ InSession(w) /\ job(w).kind = "execute" /\ AnswerError(w)
    BY <1>1, <1>4, <2>1, ZenonT(40)
  <2>5. ErrorKeeps(w, s)
    BY <2>2, <2>3, Zenon DEF ErrorKeeps
  <2> QED
    BY <1>2, <2>4, <2>5, ErrorTxns, Zenon
<1> QED
  BY <1>5, <1>6, Zenon DEF EndStatement

LEMMA HandleCommitStep ==
    ASSUME SInv, TInv, NEW w \in Workers, HandleCommit(w)
    PROVE  SInv' /\ TInv'
<1>1. /\ Starts(w, "execute") /\ slot[session(w)].tag = "Active" /\ slot[session(w)].txn \subseteq active
      /\ CommitTxn(The(slot[session(w)].txn)) /\ Answer(w, NoSlot, {})
      /\ UNCHANGED <<aborting, faults, undoFailed, reloadFailed>>
  BY Zenon DEF HandleCommit, Runs, mySlot
<1>2. InSession(w) /\ wk[w].pc = "lock" /\ ~wk[w].auto /\ job(w).kind = "execute"
  BY <1>1, Started, Zenon
<1>3. PICK s \in Sessions : s = session(w)
  BY <1>2, MyJob, Zenon
<1>4. PICK t \in TxnIds : slot[s].txn = {t} /\ t[1] = s
  <2>1. slot[s].txn # {}
    BY <1>1, <1>3, ZenonT(40) DEF SInv, SlotOK
  <2> QED
    BY <2>1, SlotTxnId
<1>5. t \in active /\ CommitTxn(t) /\ ~At(w, "undo") /\ ~wk[w].auto /\ slot[s].txn = {t}
  BY <1>1, <1>2, <1>3, <1>4, TheOne, ZenonT(40) DEF At
<1> QED
  BY <1>1, <1>2, <1>3, <1>4, <1>5, CommitStep, ZenonT(40)

\* A commit or an undo fails: the transaction stays, and one more is stuck.
LEMMA FaultTxn ==
    ASSUME TInv, NEW t \in active, Fault, failed' = failed \cup {t}, undo' = undo, locked' = locked,
           aborting' \subseteq aborting, undoFailed' \in BOOLEAN, reloadFailed' = reloadFailed
    PROVE  TType' /\ Faulty' /\ active' = active
<1>1. active' = active
  BY Zenon DEF active
<1>2. TType'
  BY <1>1, Zenon DEF TInv, TType
<1>3. Faulty'
  <2>1. /\ IsFiniteSet(failed) /\ Cardinality(failed) <= faults /\ faults \in 0 .. MaxFaults
        /\ faults < MaxFaults /\ faults' = faults + 1
    BY Zenon DEF TInv, Faulty, Fault
  <2>2. /\ IsFiniteSet(failed')
        /\ Cardinality(failed') = Cardinality(failed) \/ Cardinality(failed') = Cardinality(failed) + 1
    BY <2>1, FS_AddElement, Zenon
  <2>3. Cardinality(failed) \in Nat
    BY <2>1, FS_CardinalityType, Zenon
  <2>4. MaxFaults \in Nat
    BY EngineBounds, Zenon
  <2> QED
    BY <2>1, <2>2, <2>3, <2>4 DEF Faulty
<1> QED
  BY <1>1, <1>2, <1>3, Zenon

LEMMA CommitFailsStep ==
    ASSUME SInv, TInv, NEW w \in Workers, CommitFails(w)
    PROVE  SInv' /\ TInv'
<1> DEFINE ts == IF At(w, "write") THEN wk[w].txn ELSE mySlot(w).txn
<1>1. /\ AnswerError(w) /\ UNCHANGED <<undo, aborting, locked, undoFailed, reloadFailed>>
      /\ \/ ts \subseteq active /\ Fault /\ failed' = failed \cup ts
         \/ UNCHANGED <<faults, failed>>
  BY Zenon DEF CommitFails, txns
<1>2. /\ InSession(w) /\ job(w).kind = "execute" /\ ~At(w, "undo")
      /\ wk[w].pc \notin {"reload", "install"}
      /\ wk[w].txn # {} => ts = wk[w].txn
      /\ \E t \in TxnIds : ts = {t} /\ t[1] = session(w)
      /\ wk[w].auto \/ wk[w].txn = {}
  <2>1. CASE At(w, "write") /\ wk[w].auto
    BY <2>1, WorkingTxn, ZenonT(40) DEF Works, At
  <2>2. CASE Runs(w, {"COMMIT"}) /\ mySlot(w).tag = "Active"
    <3>1. Starts(w, "execute") /\ slot[session(w)].tag = "Active"
      BY <2>2, Zenon DEF Runs, mySlot
    <3>2. InSession(w) /\ wk[w].pc = "lock" /\ ~wk[w].auto /\ job(w).kind = "execute" /\ wk[w].txn = {}
      BY <3>1, Started, ZenonT(40)
    <3>3. PICK s \in Sessions : s = session(w)
      BY <3>2, MyJob
    <3>4. slot[s].txn # {}
      BY <3>1, <3>3, ZenonT(40) DEF SInv, SlotOK
    <3>5. ts = slot[s].txn
      BY <3>2, <3>3, Zenon DEF At, mySlot
    <3> QED
      BY <3>2, <3>3, <3>4, <3>5, SlotTxnId DEF At
  <2> QED
    BY <2>1, <2>2, Zenon DEF CommitFails
<1> HIDE DEF ts
<1>3. PICK s \in Sessions : s = session(w)
  BY <1>2, MyJob, Zenon DEF InSession, At
<1>4. PICK t \in TxnIds : ts = {t} /\ t[1] = s
  BY <1>2, <1>3, Zenon
<1>5. \A x \in aborting : x[1] # s
  BY <1>2, <1>3, NoUndoHere, Zenon
<1>6. slot[s].txn \subseteq active \/ reloadFailed
  BY <1>2, <1>3, SlotActive, Connected, ZenonT(40)
<1>7. CASE ts \subseteq active /\ Fault /\ failed' = failed \cup ts
  <2>1. TType' /\ Faulty' /\ active' = active
    <3>1. t \in active /\ failed' = failed \cup {t} /\ undoFailed' \in BOOLEAN
      BY <1>1, <1>4, <1>7 DEF TInv, TType
    <3> QED
      BY <1>1, <1>7, <3>1, FaultTxn, ZenonT(40)
  <2>2. /\ \A x \in active' \ failed' : x[1] = s =>
              (x \in active \ failed /\ {x} # wk[w].txn) \/ slot[s].txn = {x}
        /\ \A x \in aborting' : x[1] # s
        /\ slot[s].txn \subseteq active' \/ reloadFailed'
        /\ reloadFailed => reloadFailed'
    BY <1>1, <1>2, <1>4, <1>5, <1>6, <1>7, <2>1, ZenonT(40)
  <2>3. \A x \in TxnIds : x[1] # s => /\ x \in active' <=> x \in active
                                      /\ x \in aborting' <=> x \in aborting
                                      /\ x \in failed' <=> x \in failed
    BY <1>1, <1>4, <1>7, <2>1, ZenonT(40)
  <2>4. ErrorKeeps(w, s)
    BY <2>2, <2>3, Zenon DEF ErrorKeeps
  <2> QED
    BY <1>1, <1>2, <1>3, <2>1, <2>4, ErrorTxns, Zenon
<1>8. CASE UNCHANGED <<faults, failed>> /\ ~(ts \subseteq active)
  <2>1. /\ TType' /\ Faulty' /\ active' = active /\ aborting' = aborting /\ failed' = failed
        /\ reloadFailed' = reloadFailed
    BY <1>1, <1>8, SameTxns, Zenon DEF txns
  <2>2. /\ \A x \in active' \ failed' : x[1] = s =>
              (x \in active \ failed /\ {x} # wk[w].txn) \/ slot[s].txn = {x}
        /\ \A x \in aborting' : x[1] # s
        /\ slot[s].txn \subseteq active' \/ reloadFailed'
        /\ reloadFailed => reloadFailed'
    BY <1>2, <1>4, <1>5, <1>6, <1>8, <2>1, Zenon
  <2>3. \A x \in TxnIds : x[1] # s => /\ x \in active' <=> x \in active
                                      /\ x \in aborting' <=> x \in aborting
                                      /\ x \in failed' <=> x \in failed
    BY <2>1
  <2>4. ErrorKeeps(w, s)
    BY <2>2, <2>3, Zenon DEF ErrorKeeps
  <2> QED
    BY <1>1, <1>2, <1>3, <2>1, <2>4, ErrorTxns, Zenon
<1> QED
  BY <1>7, <1>8, ZenonT(40) DEF CommitFails, ts

LEMMA NothingToEndStep ==
    ASSUME SInv, TInv, NEW w \in Workers, NothingToEnd(w)
    PROVE  SInv' /\ TInv'
<1>1. /\ \E kind \in {"expire", "disconnect"} : Starts(w, kind)
      /\ job(w).kind = "disconnect" => slot[session(w)].txn = {}
      /\ Leave(w, slot[session(w)], idle[session(w)])
      /\ UNCHANGED <<txns, faults, failed, undoFailed, reloadFailed>>
  BY Zenon DEF NothingToEnd, Starts, history
<1>2. /\ InSession(w) /\ wk[w].pc = "lock" /\ ~wk[w].auto /\ wk[w].txn = {}
      /\ job(w).kind \in {"expire", "disconnect"}
  BY <1>1, Started, ZenonT(40)
<1>3. PICK s \in Sessions : s = session(w)
  BY <1>2, MyJob
<1>4. /\ slot[s] \in Slots /\ idle[s] \in {"none", "fresh", "overdue"} /\ SlotOK(s)
      /\ slot \in [Sessions -> Slots]
  BY ZenonT(40) DEF SInv, SType
<1>5. /\ SInv' /\ Local(w) /\ wk'[w] = Ready
      /\ s \in sessions => slot'[s] = slot[s]
  <2>1. /\ slot[s].txn = {} <=> slot[s].tag \in {"None", "TimedOut"}
        /\ \A x \in slot[s].txn : x[1] = session(w)
    BY <1>3, <1>4, Zenon DEF SlotOK
  <2> QED
    BY <1>1, <1>2, <1>3, <1>4, <2>1, Leaves, Zenon
<1>6. TType' /\ Faulty' /\ active' = active /\ aborting' = aborting
  BY <1>1, SameTxns
<1>7. \A x \in aborting' : x[1] # s
  BY <1>2, <1>3, <1>6, NoUndoHere, ZenonT(40) DEF At
<1>8. ASSUME NEW x \in active' \ failed', x[1] = s
      PROVE  /\ slot'[s].txn = {x}
             /\ s \in sessions \/ (x \in active \ failed /\ slot[s].txn = {x} /\ job(w).kind # "disconnect")
  <2>1. x \in active \ failed /\ x \in TxnIds
    BY <1>1, <1>6, <1>8, ZenonT(40) DEF TInv, TType
  <2>2. slot[s].txn = {x} /\ (s \in sessions \/ Queued("disconnect", s))
    BY <1>2, <1>3, <1>8, <2>1, Here, ZenonT(40)
  <2>3. job(w).kind = "expire" /\ wk[w].job = {job(w)}
    BY <1>1, <1>2, <1>3, <2>2, MyJob, ZenonT(40)
  <2>4. ASSUME s \notin sessions PROVE ~LastJob(w)
    BY <1>3, <2>2, <2>3, <2>4, ZenonT(40) DEF Queued, LastJob
  <2>5. slot'[s] = slot[s]
    <3>1. slot' = [slot EXCEPT ![s] = IF LastJob(w) THEN NoSlot ELSE slot[s]]
      BY <1>1, <1>3, Zenon DEF Leave
    <3> QED
      BY <1>4, <1>5, <2>4, <3>1, ZenonT(40)
  <2> QED
    BY <2>1, <2>2, <2>3, <2>5, ZenonT(40)
<1>9. s \in sessions => slot'[s].txn \subseteq active' \/ reloadFailed'
  BY <1>1, <1>2, <1>3, <1>5, <1>6, SlotActive, ZenonT(40)
<1>10. /\ \A x \in TxnIds : x[1] # s => /\ x \in active' <=> x \in active
                                        /\ x \in aborting' <=> x \in aborting
                                        /\ x \in failed' <=> x \in failed
       /\ reloadFailed => reloadFailed'
  BY <1>1, <1>6, Zenon
<1> QED
  BY <1>2, <1>3, <1>5, <1>6, <1>7, <1>8, <1>9, <1>10, DoneTxns, ZenonT(40)

\* The undo of a transaction ends, with or without an error, and the worker goes on to
\* the reload.
LEMMA UndoEnds ==
    ASSUME SInv, TInv, NEW w \in Workers, At(w, "undo"), NEW s \in Sessions, s = session(w),
           NEW t \in TxnIds, t = txn(w),
           Goto(w, "reload"), LockSession(w), UNCHANGED <<clients, control, slot, idle, jobs>>,
           TType', Faulty', aborting' = aborting \ {t}, active' \subseteq active, t \in active' => t \in failed',
           \A x \in TxnIds \ {t} : (x \in active' <=> x \in active) /\ (x \in failed' <=> x \in failed),
           reloadFailed' = reloadFailed
    PROVE  SInv' /\ TInv'
<1>1. wk[w].pc \in Busy /\ InSession(w) /\ wk[w].txn = {t} /\ t[1] = s
  BY Undoing, ZenonT(40)
<1>2. PICK r \in Records :
          /\ wk' = [wk EXCEPT ![w] = r] /\ r.pc = "reload"
          /\ r.job = wk[w].job /\ r.txn = wk[w].txn /\ r.auto = wk[w].auto /\ r.fresh = wk[w].fresh
  BY GotoRecord DEF Pcs, Busy
<1>3. Shape(r) /\ r.pc \in Busy
  <2>1. Shape(wk[w])
    BY Zenon DEF SInv, Shapes
  <2> QED
    BY <1>2, <2>1, ZenonT(40) DEF Shape, Busy, At
<1>4. UNCHANGED <<clients, control, slot, idle, jobs, mutex>>
  <2>1. mutex[s] = {w} /\ mutex \in [Sessions -> Option(Workers)]
    BY <1>1, MySession, ZenonT(40) DEF SInv, SType
  <2> QED
    BY <2>1, Zenon DEF LockSession
<1>5. /\ SInv' /\ Local(w) /\ mutex'[session(w)] = {w} /\ wk'[w] = r
      /\ \A kind, u : Queued(kind, u) => Queued(kind, u)'
  BY <1>1, <1>2, <1>3, <1>4, Continues, ZenonT(40)
<1>6. /\ wk[w].job = {job(w)} /\ job(w).session = s /\ SlotOK(s)
      /\ slot[s].txn \subseteq {t}
  <2>1. wk[w].job = {job(w)} /\ job(w).session = s /\ SlotOK(s)
    BY <1>1, MyJob, Zenon DEF session, SInv
  <2> QED
    BY <1>1, <2>1, MySession DEF SlotOK
<1>7. WorkerTxn(w)'
  <2>1. /\ wk'[w].txn = {t} /\ wk'[w].job = {job(w)} /\ wk'[w].pc = "reload"
        /\ slot'[s].txn \subseteq {t}
    BY <1>1, <1>2, <1>5, <1>6, ZenonT(40)
  <2> QED
    BY <1>6, <2>1, Zenon DEF WorkerTxn, Works, At
<1>8. \A x \in active' \ failed' : x[1] = s =>
          \/ x \in active \ failed /\ (wk[w].auto => wk'[w].auto /\ wk'[w].txn = wk[w].txn)
          \/ wk'[w].auto /\ wk'[w].txn = {x}
  <2>1. \A x \in active' : x \in TxnIds
    BY ZenonT(40) DEF TType
  <2> QED
    BY <1>2, <1>5, <2>1, ZenonT(40)
<1>9. \A x \in aborting' : x[1] = s => wk'[w].pc = "undo" /\ wk'[w].txn = {x}
  <2>1. \A x \in aborting : x \in TxnIds
    BY Zenon DEF TInv, TType
  <2>2. \A x \in aborting : x[1] = s => x = t
    BY <1>1, <2>1, Here, ZenonT(40)
  <2> QED
    BY <2>2
<1>10. wk'[w].pc \in {"reload", "install"} /\ slot' = slot /\ (reloadFailed => reloadFailed')
  BY <1>2, <1>5, Zenon
<1>11. \A x \in TxnIds : x[1] # s => /\ x \in active' <=> x \in active
                                     /\ x \in aborting' <=> x \in aborting
                                     /\ x \in failed' <=> x \in failed
  BY <1>1, Zenon
<1> QED
  BY <1>1, <1>5, <1>7, <1>8, <1>9, <1>10, <1>11, MovedTxns, ZenonT(40)

LEMMA FinishAbortStep ==
    ASSUME SInv, TInv, NEW w \in Workers, FinishAbort(w)
    PROVE  SInv' /\ TInv'
<1>1. /\ At(w, "undo") /\ undo' = Drop(undo, txn(w)) /\ aborting' = aborting \ wk[w].txn
      /\ locked' = locked \ wk[w].txn /\ failed' = failed \ wk[w].txn
      /\ Goto(w, "reload") /\ LockSession(w) /\ UNCHANGED <<clients, control, slot, idle, jobs>>
      /\ UNCHANGED <<faults, undoFailed, reloadFailed>>
  BY Zenon DEF FinishAbort, AbortReturns
<1>2. /\ wk[w].txn = {txn(w)} /\ txn(w) \in TxnIds /\ txn(w) \in active /\ session(w) \in Sessions
  BY <1>1, Undoing, MyJob, Zenon
<1>3. PICK s \in Sessions : s = session(w)
  BY <1>2, Zenon
<1>4. PICK t \in active : t = txn(w) /\ t \in TxnIds
  BY <1>2, Zenon
<1>5. /\ undo' = Drop(undo, t) /\ aborting' = aborting \ {t} /\ locked' = locked \ {t}
      /\ failed' = failed \ {t}
  BY <1>1, <1>2, <1>4, Zenon
<1>6. TType' /\ Faulty' /\ active' = active \ {t}
  BY <1>1, <1>5, EndTxn, ZenonT(40)
<1>7. /\ active' \subseteq active /\ (t \in active' => t \in failed') /\ reloadFailed' = reloadFailed
      /\ \A x \in TxnIds \ {t} : (x \in active' <=> x \in active) /\ (x \in failed' <=> x \in failed)
  BY <1>1, <1>5, <1>6, ZenonT(40)
<1> QED
  BY <1>1, <1>3, <1>4, <1>5, <1>6, <1>7, UndoEnds, ZenonT(40)

LEMMA UndoFailsStep ==
    ASSUME SInv, TInv, NEW w \in Workers, UndoFails(w)
    PROVE  SInv' /\ TInv'
<1>1. /\ At(w, "undo") /\ Fault /\ aborting' = aborting \ wk[w].txn
      /\ failed' = failed \cup wk[w].txn /\ undoFailed' = TRUE
      /\ AbortReturns(w, FALSE) /\ UNCHANGED <<undo, locked, reloadFailed>>
  BY Zenon DEF UndoFails
<1>2. /\ wk[w].txn = {txn(w)} /\ txn(w) \in TxnIds /\ txn(w) \in active /\ session(w) \in Sessions
      /\ InSession(w) /\ wk[w].pc \in Busy /\ txn(w)[1] = session(w)
  BY <1>1, Undoing, MyJob, ZenonT(40)
<1>3. PICK s \in Sessions : s = session(w)
  BY <1>2, Zenon
<1>4. PICK t \in active : t = txn(w) /\ t \in TxnIds /\ t[1] = s
  BY <1>2, <1>3, ZenonT(40)
<1>5. aborting' = aborting \ {t} /\ failed' = failed \cup {t} /\ undoFailed' \in BOOLEAN
  BY <1>1, <1>2, <1>4, ZenonT(40)
<1>6. TType' /\ Faulty' /\ active' = active
  BY <1>1, <1>5, FaultTxn, ZenonT(40)
<1>7. /\ active' \subseteq active /\ (t \in active' => t \in failed') /\ reloadFailed' = reloadFailed
      /\ \A x \in TxnIds \ {t} : (x \in active' <=> x \in active) /\ (x \in failed' <=> x \in failed)
  BY <1>1, <1>5, <1>6, ZenonT(40)
<1>8. CASE Goto(w, "reload") /\ LockSession(w) /\ UNCHANGED <<clients, control, slot, idle, jobs>>
  BY <1>1, <1>3, <1>4, <1>5, <1>6, <1>7, <1>8, UndoEnds, ZenonT(40)
<1>9. CASE ~wk[w].auto /\ job(w).kind = "execute" /\ AnswerError(w)
  <2>1. slot[s].txn = {t}
    BY <1>2, <1>3, <1>4, <1>9, MySession, ZenonT(40)
  <2>2. \A x \in aborting' : x[1] # s
    <3>1. \A x \in aborting : x \in TxnIds
      BY Zenon DEF TInv, TType
    <3>2. \A x \in aborting : x[1] = s => wk[w].txn = {x}
      BY <1>2, <1>3, <3>1, Here, Zenon
    <3> QED
      BY <1>2, <1>4, <1>5, <3>2, Zenon
  <2>3. /\ \A x \in active' \ failed' : x[1] = s =>
              (x \in active \ failed /\ {x} # wk[w].txn) \/ slot[s].txn = {x}
        /\ slot[s].txn \subseteq active' \/ reloadFailed'
        /\ reloadFailed => reloadFailed'
    BY <1>1, <1>2, <1>4, <1>5, <1>6, <2>1, ZenonT(40)
  <2>4. \A x \in TxnIds : x[1] # s => /\ x \in active' <=> x \in active
                                      /\ x \in aborting' <=> x \in aborting
                                      /\ x \in failed' <=> x \in failed
    BY <1>4, <1>5, <1>6, Zenon
  <2>5. ErrorKeeps(w, s)
    BY <2>2, <2>3, <2>4, Zenon DEF ErrorKeeps
  <2> QED
    BY <1>2, <1>3, <1>6, <1>9, <2>5, ErrorTxns, Zenon
<1> QED
  BY <1>1, <1>8, <1>9, ZenonT(40) DEF AbortReturns

\* What each caller of reload_catalog does when it returns: no transaction of the
\* session was left but one that is stuck.
LEMMA ReloadReturnsStep ==
    ASSUME SInv, TInv, NEW w \in Workers, wk[w].pc \in {"reload", "install"}, NEW ok \in BOOLEAN,
           ReloadReturns(w, ok), TType', Faulty', UNCHANGED <<active, aborting, failed>>,
           reloadFailed => reloadFailed', ok \/ reloadFailed'
    PROVE  SInv' /\ TInv'
<1>1. InSession(w) /\ wk[w].pc \in Busy /\ ~At(w, "undo")
  BY Zenon DEF InSession, Busy, At
<1>2. PICK s \in Sessions : s = session(w)
  BY <1>1, MyJob, Zenon
<1>3. /\ wk[w].job = {job(w)} /\ job(w).session = s /\ JobOK(job(w), client)
      /\ slot[s] \in Slots /\ idle[s] \in {"none", "fresh", "overdue"} /\ SlotOK(s)
  BY <1>1, <1>2, MyJob, ZenonT(40) DEF session, SInv, SType
<1>4. wk[w].txn \cap active \subseteq failed /\ slot[s].txn \cap active \subseteq failed
  <2>1. WorkerTxn(w)
    BY Zenon DEF TInv
  <2> QED
    BY <1>3, <2>1, Zenon DEF WorkerTxn, At
<1>5. \A x \in active' \ failed' : x[1] # s
  <2>1. \A x \in active : x \in TxnIds
    BY Zenon DEF TInv, TType
  <2>2. \A x \in active \ failed : x[1] = s => slot[s].txn = {x} \/ wk[w].txn = {x}
    BY <1>1, <1>2, <2>1, Here, ZenonT(40)
  <2> QED
    BY <1>4, <2>2, Zenon
<1>6. \A x \in aborting' : x[1] # s
  BY <1>1, <1>2, NoUndoHere
<1>7. \A x \in TxnIds : x[1] # s => /\ x \in active' <=> x \in active
                                    /\ x \in aborting' <=> x \in aborting
                                    /\ x \in failed' <=> x \in failed
  OBVIOUS
<1>8. wk[w].auto => slot[s].txn = {}
  BY <1>1, <1>2, <1>3, MySession, ZenonT(40) DEF SlotOK
<1>9. CASE job(w).kind = "execute" /\ Answer(w, NoSlot, {})
  <2>1. NoSlot \in Slots /\ {} \in Option(TxnIds) /\ NoSlot.txn = {} /\ NoSlot.tag = "None"
    BY ZenonT(40) DEF NoSlot, Slots, Option
  <2> QED
    BY <1>1, <1>2, <1>5, <1>6, <1>7, <1>9, <2>1, AnswerTxns, ZenonT(40)
<1>10. CASE job(w).kind = "execute" /\ (~ok \/ wk[w].auto) /\ AnswerError(w)
  <2>1. \A x \in active' \ failed' : x[1] = s =>
            (x \in active \ failed /\ {x} # wk[w].txn) \/ slot[s].txn = {x}
    BY <1>5, Zenon
  <2>2. slot[s].txn \subseteq active' \/ reloadFailed'
    BY <1>8, <1>10, Zenon
  <2>3. ErrorKeeps(w, s)
    BY <1>6, <1>7, <2>1, <2>2, Zenon DEF ErrorKeeps
  <2> QED
    BY <1>1, <1>2, <1>10, <2>3, ErrorTxns, Zenon
<1>11. CASE job(w).kind = "expire" /\ Leave(w, TimedOut, "none")
  <2>1. TimedOut \in Slots /\ TimedOut.txn = {} /\ TimedOut.tag = "TimedOut"
    BY Zenon DEF TimedOut, Slots, Option
  <2>2. SInv' /\ Local(w) /\ wk'[w] = Ready /\ (s \in sessions => slot'[s] = TimedOut)
    BY <1>1, <1>2, <1>11, <2>1, Leaves, ZenonT(40)
  <2>3. s \in sessions => slot'[s].txn \subseteq active' \/ reloadFailed'
    BY <2>1, <2>2, ZenonT(40)
  <2> QED
    <3>1. /\ \A x \in active' \ failed' : x[1] = s =>
                /\ slot'[s].txn = {x}
                /\ s \in sessions \/ (x \in active \ failed /\ slot[s].txn = {x} /\ job(w).kind # "disconnect")
          /\ s \in sessions => slot'[s].txn \subseteq active' \/ reloadFailed'
      BY <1>5, <2>3, Zenon
    <3> QED
      BY <1>1, <1>2, <1>6, <1>7, <2>2, <3>1, DoneTxns, ZenonT(40)
<1>12. CASE job(w).kind = "disconnect" /\ Leave(w, slot[s], idle[s])
  <2>1. SInv' /\ Local(w) /\ wk'[w] = Ready
    BY <1>1, <1>2, <1>3, <1>12, Leaves, ZenonT(40) DEF SlotOK
  <2>2. s \notin sessions
    BY <1>3, <1>12, Zenon DEF JobOK, SlotOK
  <2> QED
    <3>1. /\ \A x \in active' \ failed' : x[1] = s =>
                /\ slot'[s].txn = {x}
                /\ s \in sessions \/ (x \in active \ failed /\ slot[s].txn = {x} /\ job(w).kind # "disconnect")
          /\ s \in sessions => slot'[s].txn \subseteq active' \/ reloadFailed'
      BY <1>5, <2>2, Zenon
    <3> QED
      BY <1>1, <1>2, <1>6, <1>7, <2>1, <3>1, DoneTxns, ZenonT(40)
<1> QED
  BY <1>2, <1>9, <1>10, <1>11, <1>12, ZenonT(40) DEF ReloadReturns, mySlot

LEMMA InstallCatalogStep ==
    ASSUME SInv, TInv, NEW w \in Workers, InstallCatalog(w)
    PROVE  SInv' /\ TInv'
<1>1. /\ wk[w].pc \in {"reload", "install"} /\ ReloadReturns(w, TRUE)
      /\ UNCHANGED <<txns, faults, failed, undoFailed, reloadFailed>>
  BY ZenonT(40) DEF InstallCatalog, At, history
<1>2. TType' /\ Faulty' /\ active' = active /\ aborting' = aborting
  BY <1>1, SameTxns, ZenonT(40)
<1> QED
  BY <1>1, <1>2, ReloadReturnsStep, Zenon

LEMMA ReloadFailsStep ==
    ASSUME SInv, TInv, NEW w \in Workers, ReloadFails(w)
    PROVE  SInv' /\ TInv'
<1>1. /\ wk[w].pc \in {"reload", "install"} /\ ReloadReturns(w, FALSE) /\ Fault
      /\ UNCHANGED <<undo, aborting, locked, failed, undoFailed>> /\ reloadFailed' = TRUE
  BY ZenonT(40) DEF ReloadFails, At, txns
<1>2. active' = active
  BY <1>1 DEF active
<1>3. TType'
  BY <1>1, <1>2, ZenonT(40) DEF TInv, TType
<1>4. Faulty'
  <2>1. /\ IsFiniteSet(failed) /\ Cardinality(failed) <= faults /\ faults \in 0 .. MaxFaults
        /\ faults < MaxFaults /\ faults' = faults + 1 /\ failed' = failed
    BY <1>1, Zenon DEF TInv, Faulty, Fault
  <2>2. Cardinality(failed) \in Nat /\ MaxFaults \in Nat
    BY <2>1, FS_CardinalityType, EngineBounds, Zenon
  <2> QED
    BY <2>1, <2>2 DEF Faulty
<1> QED
  BY <1>1, <1>2, <1>3, <1>4, ReloadReturnsStep, ZenonT(40)
=============================================================================

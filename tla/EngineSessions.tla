--------------------------- MODULE EngineSessions ---------------------------
(***************************************************************************)
(* Proofs about Engine: sessions, jobs and workers. What a worker's step   *)
(* leaves to the others, and SInv through the steps of the clients, of the *)
(* dispatch thread and of a worker that takes a job.                       *)
(***************************************************************************)
EXTENDS EngineInvariant, FiniteSetTheorems, TLAPS

-----------------------------------------------------------------------------
(* What the invariant says of one worker. *)

\* w has its session to itself: it holds the lock, or is about to take it.
InSession(w) == wk[w].pc \in Busy \/ (At(w, "lock") /\ mutex[session(w)] = {})

\* A step of w changes nothing of other workers and sessions.
Local(w) ==
    /\ \A v \in Workers \ {w} : wk'[v] = wk[v]
    /\ \A u \in Sessions \ {session(w)} : slot'[u] = slot[u] /\ mutex'[u] = mutex[u]
    /\ jobs' = jobs /\ sessions' = sessions
    /\ \A j \in wk'[w].job : j.session = session(w)

LEMMA TheOne ==
    ASSUME NEW x
    PROVE  The({x}) = x
BY DEF The

\* A worker that works for a session has one job, of one of the three kinds.
LEMMA MyJob ==
    ASSUME SInv, NEW w \in Workers, wk[w].pc \in Busy \cup {"lock"}
    PROVE  /\ wk[w].job = {job(w)} /\ job(w) \in SessionJobs
           /\ session(w) \in Sessions /\ job(w).kind \in {"execute", "expire", "disconnect"}
           /\ JobOK(job(w), client)
<1>1. wk[w] \in Records /\ Shape(wk[w]) /\ \A j \in wk[w].job : JobOK(j, client)
  BY DEF SInv, SType, Shapes, JobsOK
<1>2. wk[w].job \in Option(Jobs) /\ wk[w].job # {} /\ FlushJob \notin wk[w].job
  BY <1>1 DEF Records, Shape, Busy
<1>3. PICK j \in Jobs : wk[w].job = {j}
  BY <1>2 DEF Option
<1>4. job(w) = j
  BY <1>3, TheOne, Zenon DEF job
<1>5. j \in SessionJobs
  BY <1>2, <1>3 DEF Jobs
<1> QED
  BY <1>1, <1>3, <1>4, <1>5, Zenon DEF session, SessionJobs

LEMMA MyTxn ==
    ASSUME SInv, NEW w \in Workers, wk[w].txn # {}
    PROVE  wk[w].txn = {txn(w)} /\ txn(w) \in TxnIds
<1>1. wk[w].txn \in Option(TxnIds)
  BY DEF SInv, SType, Records
<1>2. PICK t \in TxnIds : wk[w].txn = {t}
  BY <1>1 DEF Option
<1> QED
  BY <1>2, TheOne, Zenon DEF txn

\* A busy worker and its session's lock and slot.
LEMMA MySession ==
    ASSUME SInv, NEW w \in Workers, wk[w].pc \in Busy
    PROVE  /\ mutex[session(w)] = {w}
           /\ \A t \in wk[w].txn : t[1] = session(w)
           /\ wk[w].auto => slot[session(w)].tag = "None"
           /\ ~wk[w].auto /\ wk[w].txn # {} => slot[session(w)].txn = wk[w].txn
<1>1. job(w) \in wk[w].job
  BY MyJob, Zenon
<1>2. Holds(w)
  BY DEF SInv, Locks
<1> QED
  BY <1>1, <1>2 DEF Holds, session

\* No other worker is busy with the session.
LEMMA Alone ==
    ASSUME SInv, NEW w \in Workers, InSession(w),
           NEW v \in Workers \ {w}, wk[v].pc \in Busy
    PROVE  session(v) # session(w)
<1>1. mutex[session(v)] = {v}
  BY MySession
<1>2. mutex[session(w)] \in {{}, {w}}
  BY MySession DEF InSession
<1> QED
  BY <1>1, <1>2

LEMMA SameWorkers ==
    ASSUME SInv, wk' = wk, mutex' = mutex, slot' = slot
    PROVE  Shapes' /\ Locks'
BY DEF SInv, Shapes, Locks, Holds, Held

-----------------------------------------------------------------------------
(* The three ways in which a worker's step leaves its session. *)

\* The worker stays in the session, with the lock, at another point of its job.
LEMMA Moves ==
    ASSUME SInv, NEW w \in Workers, InSession(w),
           NEW r \in Records, Shape(r), r.pc \in Busy, wk' = [wk EXCEPT ![w] = r],
           NEW k \in SessionJobs, r.job = {k}, k.kind = job(w).kind, k.session = session(w),
           \A t \in r.txn : t[1] = session(w),
           r.auto => slot[session(w)].tag = "None",
           ~r.auto /\ r.txn # {} => slot[session(w)].txn = r.txn,
           LockSession(w), UNCHANGED <<clients, control, slot, idle, jobs>>
    PROVE  /\ SInv' /\ Local(w) /\ mutex'[session(w)] = {w} /\ wk'[w] = r
           /\ \A kind, u : Queued(kind, u) => Queued(kind, u)'
<1>1. wk[w].pc \in Busy \cup {"lock"}
  BY DEF InSession, At
<1>0. PICK s \in Sessions : s = session(w)
  BY <1>1, MyJob, Zenon
<1>2. /\ wk[w].job = {job(w)} /\ s = job(w).session /\ JobOK(job(w), client)
  BY <1>0, <1>1, MyJob, Zenon DEF session
<1>3. /\ mutex \in [Sessions -> Option(Workers)] /\ wk \in [Workers -> Records]
      /\ \A v \in Workers : Shape(wk[v])
  BY DEF SInv, SType, Shapes
<1>4. /\ wk' \in [Workers -> Records] /\ wk'[w] = r
      /\ \A v \in Workers \ {w} : wk'[v] = wk[v]
  BY <1>3, Zenon
<1>5. /\ mutex' \in [Sessions -> Option(Workers)] /\ mutex'[s] = {w}
      /\ \A u \in Sessions \ {s} : mutex'[u] = mutex[u]
  BY <1>0, <1>2, <1>3, Zenon DEF LockSession, Option
<1>6. /\ client' = client /\ view' = view /\ engine' = engine /\ sessions' = sessions
      /\ slot' = slot /\ idle' = idle /\ jobs' = jobs
  BY Zenon DEF clients, control
<1>7. SType'
  BY <1>4, <1>5, <1>6, Zenon DEF SInv, SType
<1>8. Shapes'
  BY <1>3, <1>4, Zenon DEF Shapes
<1>9. Locks'
  <2>1. ASSUME NEW v \in Workers
        PROVE  Holds(v)'
    <3>1. CASE v = w
      BY <3>1, <1>0, <1>4, <1>5, <1>6, Zenon DEF Holds
    <3>2. CASE v # w
      <4>1. SUFFICES ASSUME wk[v].pc \in Busy, NEW j \in wk[v].job
                     PROVE  /\ mutex'[j.session] = {v}
                            /\ \A t \in wk[v].txn : t[1] = j.session
                            /\ wk[v].auto => slot[j.session].tag = "None"
                            /\ ~wk[v].auto /\ wk[v].txn # {} => slot[j.session].txn = wk[v].txn
        BY <3>2, <1>4, <1>6, ZenonT(40) DEF Holds
      <4>2. session(v) # s /\ j.session = session(v) /\ session(v) \in Sessions
        BY <4>1, <3>2, <1>0, Alone, MyJob, Zenon DEF session
      <4>3. mutex'[session(v)] = mutex[session(v)]
        BY <4>2, <1>5
      <4>4. /\ mutex[session(v)] = {v}
            /\ \A t \in wk[v].txn : t[1] = session(v)
            /\ wk[v].auto => slot[session(v)].tag = "None"
            /\ ~wk[v].auto /\ wk[v].txn # {} => slot[session(v)].txn = wk[v].txn
        BY <4>1, MySession, Zenon
      <4> QED
        BY <4>2, <4>3, <4>4, Zenon
    <3> QED
      BY <3>1, <3>2, Zenon
  <2>2. ASSUME NEW u \in Sessions
        PROVE  Held(u)'
    <3>1. CASE u = s
      BY <3>1, <1>0, <1>4, <1>5, Zenon DEF Held
    <3>2. CASE u # s
      <4>1. SUFFICES ASSUME NEW v \in mutex[u]
                     PROVE  wk'[v].pc \in Busy /\ \A j \in wk'[v].job : j.session = u
        BY <3>2, <1>5, Zenon DEF Held
      <4>2. v \in Workers /\ wk[v].pc \in Busy /\ \A j \in wk[v].job : j.session = u
        BY <1>3 DEF SInv, Locks, Held, Option
      <4>3. v # w
        BY <4>2, <3>2, <1>2, Zenon
      <4> QED
        BY <4>2, <4>3, <1>4, Zenon
    <3> QED
      BY <3>1, <3>2, Zenon
  <2> QED
    BY <2>1, <2>2, Zenon DEF Locks
<1>10. \A u \in Sessions : SlotOK(u)'
  BY <1>6 DEF SInv, SlotOK
<1>11. /\ \A v \in Workers : \A j \in wk'[v].job : \E i \in wk[v].job : j.kind = i.kind /\ j.session = i.session
       /\ \A v \in Workers : \A i \in wk[v].job : \E j \in wk'[v].job : j.kind = i.kind /\ j.session = i.session
  BY <1>0, <1>2, <1>4, ZenonT(40)
<1>12. JobsOK'
  <2>1. \A v \in Workers : \A j \in wk'[v].job : JobOK(j, client)
    BY <1>11 DEF SInv, JobsOK, JobOK
  <2>2. \A i \in 1..Len(jobs) : \A v \in Workers : \A j \in wk'[v].job : Apart(jobs[i], j)
    <3>1. SUFFICES ASSUME NEW i \in 1..Len(jobs), NEW v \in Workers, NEW j \in wk'[v].job
                   PROVE  Apart(jobs[i], j)
      OBVIOUS
    <3>2. PICK j0 \in wk[v].job : j.kind = j0.kind /\ j.session = j0.session
      BY <1>11, Zenon
    <3>3. Apart(jobs[i], j0)
      BY Zenon DEF SInv, JobsOK
    <3> QED
      BY <3>2, <3>3, Zenon DEF Apart
  <2>3. \A x, y \in Workers : x # y => \A j \in wk'[x].job, i \in wk'[y].job : Apart(j, i)
    <3>1. SUFFICES ASSUME NEW x \in Workers, NEW y \in Workers, x # y,
                          NEW j \in wk'[x].job, NEW i \in wk'[y].job
                   PROVE  Apart(j, i)
      OBVIOUS
    <3>2. PICK j0 \in wk[x].job : j.kind = j0.kind /\ j.session = j0.session
      BY <1>11
    <3>3. PICK i0 \in wk[y].job : i.kind = i0.kind /\ i.session = i0.session
      BY <1>11, Zenon
    <3>4. Apart(j0, i0)
      BY <3>1, Zenon DEF SInv, JobsOK
    <3> QED
      BY <3>2, <3>3, <3>4, Zenon DEF Apart
  <2>4. /\ \A i \in 1..Len(jobs) : JobOK(jobs[i], client)
        /\ \A i, j \in 1..Len(jobs) : i # j => Apart(jobs[i], jobs[j])
    BY Zenon DEF SInv, JobsOK
  <2> QED
    BY <2>1, <2>2, <2>3, <2>4, <1>6, Zenon DEF JobsOK
<1>13. Answered'
  <2>1. \A u \in Sessions : client[u] = "waiting" => Queued("execute", u)'
    BY <1>6, <1>11 DEF SInv, Answered, Queued
  <2>2. engine # "stopped"
    BY <1>1, Zenon DEF SInv, Answered, Busy
  <2> QED
    BY <2>1, <2>2, <1>6, Zenon DEF Answered
<1>14. FlushLast'
  BY <1>4, <1>6, Zenon DEF SInv, FlushLast, Busy
<1>15. Local(w)
  BY <1>0, <1>4, <1>5, <1>6, Zenon DEF Local
<1>16. ASSUME NEW kind, NEW u, Queued(kind, u)
       PROVE  Queued(kind, u)'
  <2>1. CASE \E i \in DOMAIN jobs : jobs[i].kind = kind /\ jobs[i].session = u
    BY <2>1, <1>6, Zenon DEF Queued
  <2>2. CASE \E v \in Workers : \E j \in wk[v].job : j.kind = kind /\ j.session = u
    <3>0. PICK v \in Workers : \E i \in wk[v].job : i.kind = kind /\ i.session = u
      BY <2>2, Zenon
    <3>1. PICK i \in wk[v].job : i.kind = kind /\ i.session = u
      BY <3>0
    <3>2. PICK j \in wk'[v].job : j.kind = i.kind /\ j.session = i.session
      BY <1>11, Zenon
    <3> QED
      BY <3>1, <3>2, Zenon DEF Queued
  <2> QED
    BY <1>16, <2>1, <2>2, Zenon DEF Queued
<1>17. SInv'
  BY <1>7, <1>8, <1>9, <1>10, <1>12, <1>13, <1>14, Zenon DEF SInv
<1>18. mutex'[session(w)] = {w} /\ wk'[w] = r
  BY <1>0, <1>4, <1>5, Zenon
<1> QED
  BY <1>15, <1>16, <1>17, <1>18, Zenon

\* The worker is done with its job: what Answer and Leave have in common.
LEMMA Finishes ==
    ASSUME SInv, NEW w \in Workers, InSession(w), NEW ns \in Slots,
           wk' = [wk EXCEPT ![w] = Ready], UnlockSession(w),
           slot' = [slot EXCEPT ![session(w)] = ns]
    PROVE  /\ wk' \in [Workers -> Records] /\ wk'[w] = Ready
           /\ \A v \in Workers \ {w} : wk'[v] = wk[v]
           /\ mutex' \in [Sessions -> Option(Workers)] /\ mutex'[session(w)] = {}
           /\ slot' \in [Sessions -> Slots] /\ slot'[session(w)] = ns
           /\ \A u \in Sessions \ {session(w)} : slot'[u] = slot[u] /\ mutex'[u] = mutex[u]
           /\ Shapes' /\ Locks'
<1>1. wk[w].pc \in Busy \cup {"lock"}
  BY Zenon DEF InSession, At
<1>0. PICK s \in Sessions : s = session(w)
  BY <1>1, MyJob, Zenon
<1>2. wk[w].job = {job(w)} /\ s = job(w).session
  BY <1>0, <1>1, MyJob, Zenon DEF session
<1>3. /\ mutex \in [Sessions -> Option(Workers)] /\ wk \in [Workers -> Records]
      /\ slot \in [Sessions -> Slots] /\ \A v \in Workers : Shape(wk[v])
  BY Zenon DEF SInv, SType, Shapes
<1>4. Ready \in Records /\ Shape(Ready)
  BY Zenon DEF Ready, Records, Shape, Option, Pcs, Busy
<1>5. /\ wk' \in [Workers -> Records] /\ wk'[w] = Ready
      /\ \A v \in Workers \ {w} : wk'[v] = wk[v]
  BY <1>3, <1>4, Zenon
<1>6. /\ mutex' \in [Sessions -> Option(Workers)] /\ mutex'[s] = {}
      /\ \A u \in Sessions \ {s} : mutex'[u] = mutex[u]
  BY <1>0, <1>2, <1>3, Zenon DEF UnlockSession, Option
<1>7. /\ slot' \in [Sessions -> Slots] /\ slot'[s] = ns
      /\ \A u \in Sessions \ {s} : slot'[u] = slot[u]
  BY <1>0, <1>3, Zenon
<1>8. Shapes'
  BY <1>3, <1>4, <1>5, Zenon DEF Shapes
<1>9. ASSUME NEW v \in Workers
      PROVE  Holds(v)'
  <2>1. CASE v = w
    BY <2>1, <1>5, Zenon DEF Holds, Ready, Busy
  <2>2. CASE v # w
    <3>1. SUFFICES ASSUME wk[v].pc \in Busy, NEW j \in wk[v].job
                   PROVE  /\ mutex'[j.session] = {v}
                          /\ \A t \in wk[v].txn : t[1] = j.session
                          /\ wk[v].auto => slot'[j.session].tag = "None"
                          /\ ~wk[v].auto /\ wk[v].txn # {} => slot'[j.session].txn = wk[v].txn
      BY <2>2, <1>5, Zenon DEF Holds
    <3>2. session(v) # s /\ j.session = session(v) /\ session(v) \in Sessions
      BY <3>1, <2>2, <1>0, Alone, MyJob DEF session
    <3>3. mutex'[session(v)] = mutex[session(v)] /\ slot'[session(v)] = slot[session(v)]
      BY <3>2, <1>6, <1>7, Zenon
    <3>4. /\ mutex[session(v)] = {v}
          /\ \A t \in wk[v].txn : t[1] = session(v)
          /\ wk[v].auto => slot[session(v)].tag = "None"
          /\ ~wk[v].auto /\ wk[v].txn # {} => slot[session(v)].txn = wk[v].txn
      BY <3>1, MySession, Zenon
    <3> QED
      BY <3>2, <3>3, <3>4, Zenon
  <2> QED
    BY <2>1, <2>2, Zenon
<1>10. ASSUME NEW u \in Sessions
       PROVE  Held(u)'
  <2>1. CASE u = s
    BY <2>1, <1>6, Zenon DEF Held
  <2>2. CASE u # s
    <3>1. SUFFICES ASSUME NEW v \in mutex[u]
                   PROVE  wk'[v].pc \in Busy /\ \A j \in wk'[v].job : j.session = u
      BY <2>2, <1>6, Zenon DEF Held
    <3>2. v \in Workers /\ wk[v].pc \in Busy /\ \A j \in wk[v].job : j.session = u
      BY <1>3 DEF SInv, Locks, Held, Option
    <3>3. v # w
      BY <3>2, <2>2, <1>2, Zenon
    <3> QED
      BY <3>2, <3>3, <1>5, Zenon
  <2> QED
    BY <2>1, <2>2, Zenon
<1>11. Locks'
  BY <1>9, <1>10, Zenon DEF Locks
<1> QED
  BY <1>0, <1>5, <1>6, <1>7, <1>8, <1>11, Zenon

\* A statement is answered.
LEMMA Answers ==
    ASSUME SInv, NEW w \in Workers, InSession(w), job(w).kind = "execute",
           NEW ns \in Slots, NEW nv \in Option(TxnIds), Answer(w, ns, nv),
           ns.txn = {} <=> ns.tag \in {"None", "TimedOut"},
           \A t \in ns.txn : t[1] = session(w),
           ns.tag # "TimedOut" => nv = ns.txn
    PROVE  SInv' /\ Local(w) /\ wk'[w] = Ready /\ slot'[session(w)] = ns
<1>1. wk[w].pc \in Busy \cup {"lock"}
  BY Zenon DEF InSession, At
<1>0. PICK s \in Sessions : s = session(w)
  BY <1>1, MyJob, Zenon
<1>2. /\ wk[w].job = {job(w)} /\ s = job(w).session
      /\ client[s] = "waiting"
  BY <1>0, <1>1, MyJob, Zenon DEF session, JobOK
<1>3. /\ wk' = [wk EXCEPT ![w] = Ready] /\ UnlockSession(w)
      /\ slot' = [slot EXCEPT ![s] = ns]
      /\ client' = [client EXCEPT ![s] = "idle"] /\ view' = [view EXCEPT ![s] = nv]
      /\ idle' = [idle EXCEPT ![s] = IF ns.txn # {} THEN "fresh" ELSE "none"]
      /\ jobs' = jobs /\ engine' = engine /\ sessions' = sessions
  BY <1>0 DEF Answer, control
<1>4. /\ wk' \in [Workers -> Records] /\ wk'[w] = Ready
      /\ \A v \in Workers \ {w} : wk'[v] = wk[v]
      /\ mutex' \in [Sessions -> Option(Workers)]
      /\ slot' \in [Sessions -> Slots] /\ slot'[s] = ns
      /\ \A u \in Sessions \ {s} : slot'[u] = slot[u] /\ mutex'[u] = mutex[u]
      /\ Shapes' /\ Locks'
  BY <1>0, <1>3, Finishes, Zenon
<1>5. /\ client \in [Sessions -> {"new", "waiting", "idle", "gone"}]
      /\ view \in [Sessions -> Option(TxnIds)]
      /\ idle \in [Sessions -> {"none", "fresh", "overdue"}]
  BY Zenon DEF SInv, SType
<1>6. /\ client' \in [Sessions -> {"new", "waiting", "idle", "gone"}] /\ client'[s] = "idle"
      /\ view' \in [Sessions -> Option(TxnIds)] /\ view'[s] = nv
      /\ idle' \in [Sessions -> {"none", "fresh", "overdue"}]
      /\ \A u \in Sessions \ {s} : client'[u] = client[u] /\ view'[u] = view[u]
  BY <1>2, <1>3, <1>5, Zenon
<1>7. SType'
  BY <1>3, <1>4, <1>6, Zenon DEF SInv, SType
<1>8. s \in sessions /\ engine = "open"
  BY <1>2, Zenon DEF SInv, SlotOK
<1>9. \A u \in Sessions : SlotOK(u)'
  <2>1. SlotOK(s)'
    BY <1>0, <1>3, <1>4, <1>6, <1>8, ZenonT(40) DEF SlotOK
  <2>2. \A u \in Sessions \ {s} : SlotOK(u)'
    BY <1>3, <1>4, <1>6 DEF SInv, SlotOK
  <2> QED
    BY <2>1, <2>2, Zenon
<1>10. ASSUME NEW j, JobOK(j, client), Apart(job(w), j)
       PROVE  JobOK(j, client')
  <2>1. j.session # s \/ j.kind # "execute"
    BY <1>10, <1>2, Zenon DEF Apart
  <2>2. client'[j.session] = client[j.session] \/ j.session = s
    BY <1>3
  <2> QED
    BY <1>10, <2>1, <2>2, <1>2, <1>6, Zenon DEF JobOK
<1>11. JobsOK'
  <2>1. \A i \in 1..Len(jobs) : JobOK(jobs[i], client) /\ Apart(job(w), jobs[i])
    BY <1>2 DEF SInv, JobsOK, Apart
  <2>2. \A v \in Workers \ {w} : \A j \in wk[v].job : JobOK(j, client) /\ Apart(job(w), j)
    BY <1>2, Zenon DEF SInv, JobsOK
  <2>3. \A v \in Workers : wk'[v].job \subseteq wk[v].job /\ wk'[w].job = {}
    BY <1>4 DEF Ready
  <2>4. \A v \in Workers : \A j \in wk'[v].job : JobOK(j, client')
    BY <2>2, <2>3, <1>10, Zenon
  <2>5. \A i \in 1..Len(jobs) : JobOK(jobs[i], client')
    BY <2>1, <1>10, Zenon
  <2>6. /\ \A i, k \in 1..Len(jobs) : i # k => Apart(jobs[i], jobs[k])
        /\ \A i \in 1..Len(jobs) : \A v \in Workers : \A j \in wk'[v].job : Apart(jobs[i], j)
        /\ \A x, y \in Workers : x # y => \A j \in wk'[x].job, k \in wk'[y].job : Apart(j, k)
    BY <2>3, ZenonT(40) DEF SInv, JobsOK
  <2> QED
    BY <2>4, <2>5, <2>6, <1>3, Zenon DEF JobsOK
<1>12. Answered'
  <2>1. SUFFICES ASSUME NEW u \in Sessions, client'[u] = "waiting"
                 PROVE  Queued("execute", u)'
    BY <1>3, <1>8, Zenon DEF Answered
  <2>2. u # s /\ client[u] = "waiting"
    BY <2>1, <1>6, Zenon
  <2>3. Queued("execute", u)
    BY <2>2, Zenon DEF SInv, Answered
  <2> QED
    BY <2>2, <2>3, <1>2, <1>3, <1>4 DEF Queued, Ready
<1>13. FlushLast'
  BY <1>3, <1>4, Zenon DEF SInv, FlushLast, Ready
<1>14. Local(w)
  BY <1>0, <1>3, <1>4, Zenon DEF Local, Ready
<1> QED
  BY <1>0, <1>14, <1>4, <1>7, <1>9, <1>11, <1>12, <1>13, Zenon DEF SInv

\* A session's transaction was ended on its behalf, or there was none.
LEMMA Leaves ==
    ASSUME SInv, NEW w \in Workers, InSession(w), job(w).kind \in {"expire", "disconnect"},
           NEW ns \in Slots, NEW ni \in {"none", "fresh", "overdue"}, Leave(w, ns, ni),
           ns.txn = {} <=> ns.tag \in {"None", "TimedOut"},
           \A t \in ns.txn : t[1] = session(w),
           ns.tag = "TimedOut" \/ ns = slot[session(w)]
    PROVE  /\ SInv' /\ Local(w) /\ wk'[w] = Ready
           /\ slot'[session(w)] \in {ns, NoSlot}
           /\ session(w) \in sessions => slot'[session(w)] = ns
<1>1. wk[w].pc \in Busy \cup {"lock"}
  BY Zenon DEF InSession, At
<1>0. PICK s \in Sessions : s = session(w)
  BY <1>1, MyJob, Zenon
<1>2. /\ wk[w].job = {job(w)} /\ s = job(w).session
      /\ client[s] # "new"
  BY <1>0, <1>1, MyJob DEF session, JobOK
<1>3. PICK n : n = IF LastJob(w) THEN NoSlot ELSE ns
  OBVIOUS
<1>4. /\ n \in Slots
      /\ n.txn = {} <=> n.tag \in {"None", "TimedOut"}
      /\ \A t \in n.txn : t[1] = s
      /\ client[s] # "gone" => n.tag = "TimedOut" \/ n = slot[s]
  <2>1. CASE LastJob(w)
    <3>1. n = NoSlot /\ s \notin sessions
      BY <2>1, <1>0, <1>3, Zenon DEF LastJob
    <3>2. client[s] = "gone"
      BY <3>1, <1>2 DEF SInv, SType, SlotOK
    <3> QED
      BY <3>1, <3>2, Zenon DEF NoSlot, Slots, Option
  <2>2. CASE ~LastJob(w)
    BY <2>2, <1>0, <1>3, ZenonT(40)
  <2> QED
    BY <2>1, <2>2, Zenon
<1>5. /\ wk' = [wk EXCEPT ![w] = Ready] /\ UnlockSession(w)
      /\ slot' = [slot EXCEPT ![s] = n]
      /\ idle' = [idle EXCEPT ![s] = IF LastJob(w) THEN "none" ELSE ni]
      /\ client' = client /\ view' = view
      /\ jobs' = jobs /\ engine' = engine /\ sessions' = sessions
  BY <1>0, <1>3 DEF Leave, control, clients
<1>6. /\ wk' \in [Workers -> Records] /\ wk'[w] = Ready
      /\ \A v \in Workers \ {w} : wk'[v] = wk[v]
      /\ mutex' \in [Sessions -> Option(Workers)]
      /\ slot' \in [Sessions -> Slots] /\ slot'[s] = n
      /\ \A u \in Sessions \ {s} : slot'[u] = slot[u] /\ mutex'[u] = mutex[u]
      /\ Shapes' /\ Locks'
  BY <1>0, <1>4, <1>5, Finishes, Zenon
<1>7. SType'
  <2>1. idle' \in [Sessions -> {"none", "fresh", "overdue"}]
    BY <1>5, Zenon DEF SInv, SType
  <2> QED
    BY <2>1, <1>5, <1>6, Zenon DEF SInv, SType
<1>8. \A u \in Sessions : SlotOK(u)'
  <2>1. SlotOK(s)'
    <3>1. SlotOK(s)
      BY ZenonT(40) DEF SInv
    <3> QED
      BY <3>1, <1>4, <1>5, <1>6, Zenon DEF SlotOK
  <2>2. \A u \in Sessions \ {s} : SlotOK(u)'
    <3>1. \A u \in Sessions : SlotOK(u)
      BY Zenon DEF SInv
    <3> QED
      BY <3>1, <1>5, <1>6, Zenon DEF SlotOK
  <2> QED
    BY <2>1, <2>2, Zenon
<1>9. JobsOK'
  <2>1. \A v \in Workers : wk'[v].job \subseteq wk[v].job
    BY <1>6 DEF Ready
  <2> QED
    BY <2>1, <1>5 DEF SInv, JobsOK
<1>10. Answered'
  <2>1. ASSUME NEW u \in Sessions, client[u] = "waiting"
        PROVE  Queued("execute", u)'
    <3>1. Queued("execute", u)
      BY <2>1, Zenon DEF SInv, Answered
    <3> QED
      BY <3>1, <1>2, <1>5, <1>6 DEF Queued
  <2>2. engine # "stopped"
    BY <1>1, Zenon DEF SInv, Answered, Busy
  <2> QED
    BY <2>1, <2>2, <1>5, Zenon DEF Answered
<1>11. FlushLast'
  BY <1>5, <1>6, Zenon DEF SInv, FlushLast, Ready
<1>12. Local(w)
  BY <1>0, <1>5, <1>6, Zenon DEF Local, Ready
<1>13. slot'[s] \in {ns, NoSlot} /\ (s \in sessions => slot'[s] = ns)
  BY <1>0, <1>3, <1>6, Zenon DEF LastJob
<1> QED
  BY <1>0, <1>12, <1>13, <1>6, <1>7, <1>8, <1>9, <1>10, <1>11, ZenonT(40) DEF SInv

-----------------------------------------------------------------------------
(* Clients, the dispatch thread and the queue. *)

\* What a message does to the queue: job m of session s is its last.
LEMMA Sends ==
    ASSUME SInv, NEW m \in Jobs, jobs' = jobs \o <<m>>
    PROVE  /\ jobs' \in Seq(Jobs) /\ Len(jobs') = Len(jobs) + 1 /\ Len(jobs) \in Nat
           /\ \A i \in 1..Len(jobs) : jobs'[i] = jobs[i]
           /\ jobs'[Len(jobs) + 1] = m /\ jobs' # <<>>
           /\ \A kind, s : Queued(kind, s) /\ wk' = wk => Queued(kind, s)'
<1>1. jobs \in Seq(Jobs)
  BY DEF SInv, SType
<1>2. /\ jobs' \in Seq(Jobs) /\ Len(jobs') = Len(jobs) + 1 /\ Len(jobs) \in Nat
      /\ \A i \in 1..Len(jobs) : jobs'[i] = jobs[i]
      /\ jobs'[Len(jobs) + 1] = m
  BY <1>1
<1>3. jobs' # <<>>
  BY <1>2
<1>4. DOMAIN jobs \subseteq DOMAIN jobs' /\ \A i \in DOMAIN jobs : jobs'[i] = jobs[i]
  BY <1>1, <1>2
<1>5. \A kind, s : Queued(kind, s) /\ wk' = wk => Queued(kind, s)'
  BY <1>4 DEF Queued
<1> QED
  BY <1>2, <1>3, <1>5, Zenon

LEMMA ConnectS ==
    ASSUME SInv, NEW s \in Sessions, Connect(s)
    PROVE  SInv'
<1>1. /\ engine = "open" /\ client[s] = "new" /\ sessions' = sessions \cup {s}
      /\ client' = [client EXCEPT ![s] = "idle"]
      /\ view' = view /\ engine' = engine /\ slot' = slot /\ idle' = idle /\ mutex' = mutex
      /\ jobs' = jobs /\ wk' = wk
  BY DEF Connect, state
<1>2. client \in [Sessions -> {"new", "waiting", "idle", "gone"}]
  BY DEF SInv, SType
<1>3. /\ client' \in [Sessions -> {"new", "waiting", "idle", "gone"}]
      /\ client'[s] = "idle" /\ \A u \in Sessions \ {s} : client'[u] = client[u]
  BY <1>1, <1>2, Zenon
<1>4. SType'
  BY <1>1, <1>3 DEF SInv, SType
<1>5. Shapes' /\ Locks'
  BY <1>1, SameWorkers, Zenon
<1>6. \A u \in Sessions : SlotOK(u)'
  BY <1>1, <1>3 DEF SInv, SlotOK
<1>7. ASSUME NEW j, JobOK(j, client)
      PROVE  JobOK(j, client')
  <2>1. client'[j.session] = client[j.session] \/ (j.session = s /\ client'[j.session] = "idle")
    BY <1>1, <1>3
  <2> QED
    BY <2>1, <1>1, <1>7, Zenon DEF JobOK
<1>8. JobsOK'
  BY <1>1, <1>7, ZenonT(40) DEF SInv, JobsOK
<1>9. Answered'
  BY <1>1, <1>3 DEF SInv, Answered, Queued
<1>10. FlushLast'
  BY <1>1, Zenon DEF SInv, FlushLast
<1> QED
  BY <1>4, <1>5, <1>6, <1>8, <1>9, <1>10, ZenonT(40) DEF SInv

LEMMA ExecuteS ==
    ASSUME SInv, NEW s \in Sessions, NEW stmt \in Statements, Execute(s, stmt)
    PROVE  SInv'
<1> DEFINE m == Job("execute", s, stmt)
<1>1. /\ client[s] = "idle" /\ s \in sessions /\ jobs' = jobs \o <<m>>
      /\ client' = [client EXCEPT ![s] = "waiting"]
      /\ view' = view /\ engine' = engine /\ sessions' = sessions
      /\ slot' = slot /\ idle' = idle /\ mutex' = mutex /\ wk' = wk
  BY DEF Execute, Message, Submit, control, state
<1>2. m \in Jobs /\ m.kind = "execute" /\ m.session = s
  BY Zenon DEF Job, Jobs, SessionJobs
<1> HIDE DEF m
<1>3. /\ jobs' \in Seq(Jobs) /\ Len(jobs') = Len(jobs) + 1 /\ Len(jobs) \in Nat
      /\ \A i \in 1..Len(jobs) : jobs'[i] = jobs[i]
      /\ jobs'[Len(jobs) + 1] = m /\ jobs' # <<>>
      /\ \A kind, u : Queued(kind, u) => Queued(kind, u)'
  BY <1>1, <1>2, Sends
<1>4. client \in [Sessions -> {"new", "waiting", "idle", "gone"}]
  BY DEF SInv, SType
<1>5. /\ client' \in [Sessions -> {"new", "waiting", "idle", "gone"}]
      /\ client'[s] = "waiting" /\ \A u \in Sessions \ {s} : client'[u] = client[u]
  BY <1>1, <1>4, Zenon
<1>6. SType'
  BY <1>1, <1>3, <1>5 DEF SInv, SType
<1>7. Shapes' /\ Locks'
  BY <1>1, SameWorkers, ZenonT(40)
<1>8. \A u \in Sessions : SlotOK(u)'
  BY <1>1, <1>5 DEF SInv, SlotOK
<1>9. ASSUME NEW j, JobOK(j, client)
      PROVE  JobOK(j, client') /\ Apart(j, m) /\ Apart(m, j)
  <2>1. client'[j.session] = client[j.session] \/ (j.session = s /\ client'[j.session] = "waiting")
    BY <1>1, <1>5
  <2>2. j.kind = "execute" => j.session # s
    BY <1>1, <1>9, Zenon DEF JobOK
  <2> QED
    BY <2>1, <2>2, <1>1, <1>2, <1>9, Zenon DEF JobOK, Apart
<1>10. JobsOK'
  <2>1. \A v \in Workers : \A j \in wk[v].job : JobOK(j, client') /\ Apart(m, j)
    BY <1>9, Zenon DEF SInv, JobsOK
  <2>2. \A i \in 1..Len(jobs) : JobOK(jobs[i], client') /\ Apart(jobs[i], m) /\ Apart(m, jobs[i])
    BY <1>9, Zenon DEF SInv, JobsOK
  <2>3. JobOK(m, client')
    BY <1>2, <1>5, Zenon DEF JobOK
  <2>4. \A i \in 1..Len(jobs') : i = Len(jobs) + 1 \/ i \in 1..Len(jobs)
    BY <1>3
  <2>5. \A i \in 1..Len(jobs') : JobOK(jobs'[i], client')
    BY <2>2, <2>3, <2>4, <1>3, Zenon
  <2>6. \A i, k \in 1..Len(jobs') : i # k => Apart(jobs'[i], jobs'[k])
    <3>1. \A i, k \in 1..Len(jobs) : i # k => Apart(jobs[i], jobs[k])
      BY Zenon DEF SInv, JobsOK
    <3> QED
      BY <3>1, <2>2, <2>4, <1>3, Zenon
  <2>7. \A i \in 1..Len(jobs') : \A v \in Workers : \A j \in wk[v].job : Apart(jobs'[i], j)
    <3>1. \A i \in 1..Len(jobs) : \A v \in Workers : \A j \in wk[v].job : Apart(jobs[i], j)
      BY Zenon DEF SInv, JobsOK
    <3> QED
      BY <3>1, <2>1, <2>4, <1>3, Zenon
  <2>8. \A v, x \in Workers : v # x => \A j \in wk[v].job, k \in wk[x].job : Apart(j, k)
    BY Zenon DEF SInv, JobsOK
  <2> QED
    BY <2>1, <2>5, <2>6, <2>7, <2>8, <1>1, Zenon DEF JobsOK
<1>11. Answered'
  <2>1. Queued("execute", s)'
    <3>1. Len(jobs) + 1 \in DOMAIN jobs'
      BY <1>3
    <3> QED
      BY <3>1, <1>2, <1>3, Zenon DEF Queued
  <2>2. engine = "open"
    BY <1>1, Zenon DEF SInv, SlotOK
  <2>3. \A u \in Sessions : client'[u] = "waiting" => Queued("execute", u)'
    BY <2>1, <1>3, <1>5, Zenon DEF SInv, Answered
  <2> QED
    BY <2>2, <2>3, <1>1, Zenon DEF Answered
<1>12. FlushLast'
  <2>1. \A i \in 1..Len(jobs') : i = Len(jobs) + 1 \/ i \in 1..Len(jobs)
    BY <1>3
  <2> QED
    BY <2>1, <1>1, <1>2, <1>3, Zenon DEF SInv, FlushLast
<1> QED
  BY <1>6, <1>7, <1>8, <1>10, <1>11, <1>12, ZenonT(40) DEF SInv

\* Jobs that are not statements are added to the queue.
LEMMA Enqueues ==
    ASSUME SInv, NEW ms \in Seq(Jobs), jobs' = jobs \o ms, wk' = wk,
           \A i \in 1..Len(ms) : ms[i].kind # "execute" /\ JobOK(ms[i], client'),
           \A j : JobOK(j, client) => JobOK(j, client')
    PROVE  /\ JobsOK' /\ jobs' \in Seq(Jobs)
           /\ \A kind, s : Queued(kind, s) => Queued(kind, s)'
           /\ engine' = engine /\ (\A i \in 1..Len(ms) : ms[i].kind # "flush") => FlushLast'
<1>1. jobs \in Seq(Jobs) /\ Len(jobs) \in Nat /\ Len(ms) \in Nat
  BY DEF SInv, SType
<1>2. /\ jobs' \in Seq(Jobs) /\ Len(jobs') = Len(jobs) + Len(ms)
      /\ \A i \in 1..Len(jobs) : jobs'[i] = jobs[i]
      /\ \A i \in 1..Len(jobs') : i \in 1..Len(jobs) \/ \E k \in 1..Len(ms) : jobs'[i] = ms[k]
  <2>1. /\ jobs' \in Seq(Jobs) /\ Len(jobs') = Len(jobs) + Len(ms)
        /\ \A i \in 1..Len(jobs) : jobs'[i] = jobs[i]
    BY <1>1
  <2>2. ASSUME NEW i \in 1..Len(jobs'), i \notin 1..Len(jobs)
        PROVE  i - Len(jobs) \in 1..Len(ms) /\ jobs'[i] = ms[i - Len(jobs)]
    BY <1>1, <2>1, <2>2
  <2> QED
    BY <2>1, <2>2, Zenon
<1>3. \A kind, s : Queued(kind, s) => Queued(kind, s)'
  <2>1. DOMAIN jobs \subseteq DOMAIN jobs' /\ \A i \in DOMAIN jobs : jobs'[i] = jobs[i]
    BY <1>1, <1>2
  <2> QED
    BY <2>1, Zenon DEF Queued
<1>4. \A i \in 1..Len(jobs') : i \in 1..Len(jobs) \/ (jobs'[i].kind # "execute" /\ JobOK(jobs'[i], client'))
  BY <1>2
<1>5. JobsOK'
  <2>1. \A v \in Workers : \A j \in wk[v].job : JobOK(j, client')
    BY Zenon DEF SInv, JobsOK
  <2>2. \A i \in 1..Len(jobs') : JobOK(jobs'[i], client')
    BY <1>2, <1>4, Zenon DEF SInv, JobsOK
  <2>3. \A i, k \in 1..Len(jobs') : i # k => Apart(jobs'[i], jobs'[k])
    <3>1. \A i, k \in 1..Len(jobs) : i # k => Apart(jobs[i], jobs[k])
      BY Zenon DEF SInv, JobsOK
    <3>2. SUFFICES ASSUME NEW i \in 1..Len(jobs'), NEW k \in 1..Len(jobs'), i # k,
                          jobs'[i].kind = "execute", jobs'[k].kind = "execute"
                   PROVE  jobs'[i].session # jobs'[k].session
      BY DEF Apart
    <3>3. i \in 1..Len(jobs) /\ k \in 1..Len(jobs)
      BY <3>2, <1>4, Zenon
    <3> QED
      BY <3>1, <3>2, <3>3, <1>2 DEF Apart
  <2>4. \A i \in 1..Len(jobs') : \A v \in Workers : \A j \in wk[v].job : Apart(jobs'[i], j)
    <3>1. \A i \in 1..Len(jobs) : \A v \in Workers : \A j \in wk[v].job : Apart(jobs[i], j)
      BY Zenon DEF SInv, JobsOK
    <3> QED
      BY <3>1, <1>2, <1>4 DEF Apart
  <2>5. \A v, x \in Workers : v # x => \A j \in wk[v].job, k \in wk[x].job : Apart(j, k)
    BY Zenon DEF SInv, JobsOK
  <2> QED
    BY <2>1, <2>2, <2>3, <2>4, <2>5, Zenon DEF JobsOK
<1>6. ASSUME engine' = engine, \A i \in 1..Len(ms) : ms[i].kind # "flush"
      PROVE  FlushLast'
  <2>1. \A i \in 1..Len(jobs') : i \in 1..Len(jobs) \/ jobs'[i].kind # "flush"
    BY <1>2, <1>6, Zenon
  <2> QED
    BY <2>1, <1>2, <1>6, Zenon DEF SInv, FlushLast
<1> QED
  BY <1>2, <1>3, <1>5, <1>6, Zenon

LEMMA DropSessionS ==
    ASSUME SInv, NEW s \in Sessions, DropSession(s)
    PROVE  SInv'
<1> DEFINE m == Job("disconnect", s, NoStatement)
<1>1. /\ client[s] = "idle" /\ s \in sessions /\ jobs' = jobs \o <<m>>
      /\ sessions' = sessions \ {s} /\ view' = [view EXCEPT ![s] = {}]
      /\ client' = [client EXCEPT ![s] = "gone"] /\ engine' = engine
      /\ slot' = slot /\ idle' = idle /\ mutex' = mutex /\ wk' = wk
  BY DEF DropSession, Message, Submit, state
<1>2. m \in Jobs /\ m.kind = "disconnect" /\ m.session = s
  BY Zenon DEF Job, Jobs, SessionJobs
<1> HIDE DEF m
<1>3. /\ client \in [Sessions -> {"new", "waiting", "idle", "gone"}]
      /\ view \in [Sessions -> Option(TxnIds)]
  BY Zenon DEF SInv, SType
<1>4. /\ client' \in [Sessions -> {"new", "waiting", "idle", "gone"}]
      /\ client'[s] = "gone" /\ \A u \in Sessions \ {s} : client'[u] = client[u] /\ view'[u] = view[u]
      /\ view' \in [Sessions -> Option(TxnIds)]
  BY <1>1, <1>3, Zenon DEF Option
<1>5. ASSUME NEW j, JobOK(j, client)
      PROVE  JobOK(j, client')
  <2>1. client'[j.session] = client[j.session] \/ (j.session = s /\ client'[j.session] = "gone")
    BY <1>1, <1>4
  <2> QED
    BY <2>1, <1>1, <1>5, Zenon DEF JobOK
<1>6. /\ JobsOK' /\ jobs' \in Seq(Jobs)
      /\ \A kind, u : Queued(kind, u) => Queued(kind, u)'
      /\ FlushLast'
  <2>1. /\ <<m>> \in Seq(Jobs)
        /\ \A i \in 1..Len(<<m>>) : <<m>>[i] = m
    BY <1>2
  <2>2. JobOK(m, client') /\ m.kind # "execute" /\ m.kind # "flush"
    BY <1>2, <1>4, Zenon DEF JobOK
  <2>3. /\ \A i \in 1..Len(<<m>>) : <<m>>[i].kind # "execute" /\ JobOK(<<m>>[i], client')
        /\ \A i \in 1..Len(<<m>>) : <<m>>[i].kind # "flush"
    BY <2>1, <2>2, Zenon
  <2> QED
    BY <2>1, <2>3, <1>1, <1>5, Enqueues, ZenonT(40)
<1>7. SType'
  BY <1>1, <1>4, <1>6, Zenon DEF SInv, SType
<1>8. Shapes' /\ Locks'
  BY <1>1, SameWorkers, ZenonT(40)
<1>9. \A u \in Sessions : SlotOK(u)'
  BY <1>1, <1>4 DEF SInv, SlotOK
<1>10. Answered'
  <2>1. engine = "open"
    BY <1>1, Zenon DEF SInv, SlotOK
  <2> QED
    BY <2>1, <1>1, <1>4, <1>6, Zenon DEF SInv, Answered
<1> QED
  BY <1>6, <1>7, <1>8, <1>9, <1>10, ZenonT(40) DEF SInv

LEMMA DropEngineS ==
    ASSUME SInv, DropEngine
    PROVE  SInv'
<1>1. /\ engine = "open" /\ \A s \in Sessions : client[s] \in {"new", "gone"}
      /\ jobs' = jobs \o <<FlushJob>> /\ engine' = "flushing"
      /\ client' = client /\ view' = view /\ sessions' = sessions
      /\ slot' = slot /\ idle' = idle /\ mutex' = mutex /\ wk' = wk
  BY DEF DropEngine, Message, Submit, clients, state, FlushJob
<1>2. FlushJob \in Jobs /\ FlushJob.kind = "flush"
  BY DEF FlushJob, Jobs
<1>3. /\ JobsOK' /\ jobs' \in Seq(Jobs)
      /\ \A kind, u : Queued(kind, u) => Queued(kind, u)'
  <2>1. /\ <<FlushJob>> \in Seq(Jobs)
        /\ \A i \in 1..Len(<<FlushJob>>) : <<FlushJob>>[i] = FlushJob
    BY <1>2
  <2>2. JobOK(FlushJob, client') /\ FlushJob.kind # "execute"
    BY <1>2 DEF JobOK
  <2>3. \A i \in 1..Len(<<FlushJob>>) : <<FlushJob>>[i].kind # "execute" /\ JobOK(<<FlushJob>>[i], client')
    BY <2>1, <2>2, Zenon
  <2> QED
    BY <2>1, <2>3, <1>1, Enqueues, Zenon
<1>4. SType'
  BY <1>1, <1>3, Zenon DEF SInv, SType
<1>5. Shapes' /\ Locks'
  BY <1>1, SameWorkers, Zenon
<1>6. \A u \in Sessions : SlotOK(u)'
  BY <1>1, Zenon DEF SInv, SlotOK
<1>7. Answered'
  BY <1>1, <1>3 DEF SInv, Answered
<1>8. FlushLast'
  BY <1>1, Zenon DEF FlushLast
<1> QED
  BY <1>3, <1>4, <1>5, <1>6, <1>7, <1>8, ZenonT(40) DEF SInv

LEMMA TickS ==
    ASSUME SInv, Tick
    PROVE  SInv' /\ \A kind, u : Queued(kind, u) => Queued(kind, u)'
<1>1. PICK due \in SUBSET {s \in Sessions : Expirable(s)} :
        /\ idle' = [s \in Sessions |-> IF s \in due THEN "overdue" ELSE idle[s]]
        /\ \E order \in Bijection(1..Cardinality(due), due) :
              Submit([i \in DOMAIN order |-> Job("expire", order[i], NoStatement)])
  BY Zenon DEF Tick
<1>2. PICK order \in Bijection(1..Cardinality(due), due) :
        Submit([i \in DOMAIN order |-> Job("expire", order[i], NoStatement)])
  BY <1>1
<1> DEFINE ms == [i \in DOMAIN order |-> Job("expire", order[i], NoStatement)]
<1>3. /\ client' = client /\ view' = view /\ engine' = engine /\ sessions' = sessions
      /\ slot' = slot /\ mutex' = mutex /\ wk' = wk /\ jobs' = jobs \o ms
  BY <1>2, Zenon DEF Tick, clients, control, Submit
<1>4. PICK n \in Nat : n = Cardinality(due)
  <2>1. IsFiniteSet(due)
    BY EngineBounds, FS_Subset, Zenon
  <2> QED
    BY <2>1, FS_CardinalityType, Zenon
<1>5. order \in [1..n -> due]
  BY <1>2, <1>4, Zenon DEF Bijection, Injection
<1>6. \A s \in due : s \in Sessions /\ client[s] # "new"
  BY <1>1, Zenon DEF Expirable, SInv, SlotOK
<1>7. ms \in [1..n -> Jobs] /\ \A i \in 1..n : ms[i].kind = "expire" /\ ms[i].session \in due
  BY <1>5, <1>6 DEF Job, Jobs, SessionJobs
<1> HIDE DEF ms
<1>8. ms \in Seq(Jobs) /\ Len(ms) = n
  BY <1>4, <1>7
<1>9. /\ \A i \in 1..Len(ms) : ms[i].kind # "execute" /\ JobOK(ms[i], client')
      /\ \A i \in 1..Len(ms) : ms[i].kind # "flush"
  BY <1>3, <1>6, <1>7, <1>8, Zenon DEF JobOK
<1>10. /\ JobsOK' /\ jobs' \in Seq(Jobs)
       /\ \A kind, u : Queued(kind, u) => Queued(kind, u)'
       /\ FlushLast'
  BY <1>3, <1>8, <1>9, Enqueues, Zenon
<1>11. SType'
  <2>1. idle' \in [Sessions -> {"none", "fresh", "overdue"}]
    BY <1>1 DEF SInv, SType
  <2> QED
    BY <2>1, <1>3, <1>10, Zenon DEF SInv, SType
<1>12. Shapes' /\ Locks'
  BY <1>3, SameWorkers, Zenon
<1>13. \A u \in Sessions : SlotOK(u)'
  BY <1>3, Zenon DEF SInv, SlotOK
<1>14. Answered'
  <2>1. engine # "stopped"
    BY Zenon DEF Tick
  <2> QED
    BY <2>1, <1>3, <1>10, Zenon DEF SInv, Answered
<1> QED
  BY <1>10, <1>11, <1>12, <1>13, <1>14, Zenon DEF SInv

\* run_engine returns, and the workers are joined.
LEMMA StopsS ==
    ASSUME SInv, EngineExits \/ JoinWorkers
    PROVE  SInv'
<1>1. /\ engine # "open" /\ engine' \in {"stopping", "stopped"}
      /\ engine' = "stopped" => jobs = <<>> /\ \A w \in Workers : wk[w].pc = "recv"
      /\ client' = client /\ view' = view /\ sessions' = sessions
      /\ slot' = slot /\ idle' = idle /\ mutex' = mutex /\ wk' = wk /\ jobs' = jobs
  BY Zenon DEF EngineExits, JoinWorkers, clients, state
<1>2. SType'
  BY <1>1 DEF SInv, SType
<1>3. Shapes' /\ Locks'
  BY <1>1, SameWorkers, ZenonT(40)
<1>4. \A u \in Sessions : SlotOK(u)'
  BY <1>1 DEF SInv, SlotOK
<1>5. JobsOK'
  BY <1>1, Zenon DEF SInv, JobsOK
<1>6. Answered'
  BY <1>1, Zenon DEF SInv, Answered, Queued
<1>7. FlushLast'
  BY <1>1, Zenon DEF FlushLast
<1> QED
  BY <1>2, <1>3, <1>4, <1>5, <1>6, <1>7, Zenon DEF SInv

LEMMA TakeJobS ==
    ASSUME SInv, NEW w \in Workers, TakeJob(w)
    PROVE  /\ SInv' /\ \A kind, s : Queued(kind, s) => Queued(kind, s)'
<1> DEFINE h == Head(jobs)
           r == [wk[w] EXCEPT !.job = {h}, !.pc = IF h.kind = "flush" THEN "flush" ELSE "lock"]
<1>1. /\ wk[w].pc = "recv" /\ jobs # <<>> /\ jobs' = Tail(jobs)
      /\ client' = client /\ view' = view /\ engine' = engine /\ sessions' = sessions
      /\ slot' = slot /\ idle' = idle /\ mutex' = mutex
  BY Zenon DEF TakeJob, At, clients, control, state
<1>2. wk \in [Workers -> Records] /\ jobs \in Seq(Jobs)
  BY Zenon DEF SInv, SType
<1>3. h \in Jobs /\ h = jobs[1] /\ Len(jobs) \in Nat /\ Len(jobs) > 0
  BY <1>1, <1>2
<1>4. h.kind = "flush" <=> h = FlushJob
  BY <1>3 DEF Jobs, SessionJobs, FlushJob
<1>5. /\ r \in Records /\ r.job = {h} /\ r.pc \in {"flush", "lock"}
      /\ r.txn = {} /\ r.auto = FALSE /\ r.fresh = {} /\ (r.pc = "flush" <=> h.kind = "flush")
  <2>1. wk[w] \in Records /\ Shape(wk[w]) /\ wk[w].pc = "recv"
    BY <1>1, <1>2, Zenon DEF SInv, Shapes
  <2>2. wk[w].txn = {} /\ wk[w].auto = FALSE /\ wk[w].fresh = {}
    BY <2>1, Zenon DEF Shape, Busy, Records, Option
  <2>3. {h} \in Option(Jobs)
    BY <1>3 DEF Option
  <2> QED
    BY <2>1, <2>2, <2>3, Zenon DEF Records, Pcs
<1>6. wk' = [wk EXCEPT ![w] = r]
  BY <1>2, Zenon DEF TakeJob
<1>7. wk[w].job = {}
  BY <1>1, Zenon DEF SInv, Shapes, Shape
<1> HIDE DEF r, h
<1>8. /\ wk' \in [Workers -> Records] /\ wk'[w] = r
      /\ \A v \in Workers \ {w} : wk'[v] = wk[v]
  BY <1>2, <1>5, <1>6, Zenon
<1>9. /\ jobs' \in Seq(Jobs) /\ Len(jobs') = Len(jobs) - 1
      /\ \A i \in 1..Len(jobs') : i + 1 \in 1..Len(jobs) /\ jobs'[i] = jobs[i + 1] /\ i + 1 # 1
  BY <1>1, <1>2, <1>3
<1>10. SType'
  BY <1>1, <1>8, <1>9, Zenon DEF SInv, SType
<1>11. Shapes'
  <2>1. Shape(r)
    BY <1>4, <1>5, Zenon DEF Shape, Busy
  <2> QED
    BY <2>1, <1>8, Zenon DEF SInv, Shapes
<1>12. Locks'
  <2>1. \A v \in Workers : Holds(v)'
    BY <1>1, <1>5, <1>8 DEF SInv, Locks, Holds, Busy
  <2>2. ASSUME NEW u \in Sessions
        PROVE  Held(u)'
    <3>1. SUFFICES ASSUME NEW v \in mutex[u]
                   PROVE  wk'[v].pc \in Busy /\ \A j \in wk'[v].job : j.session = u
      BY <1>1 DEF Held
    <3>2. v \in Workers /\ wk[v].pc \in Busy /\ \A j \in wk[v].job : j.session = u
      BY DEF SInv, SType, Locks, Held, Option
    <3>3. v # w
      BY <3>2, <1>1, ZenonT(40) DEF Busy
    <3> QED
      BY <3>2, <3>3, <1>8
  <2> QED
    BY <2>1, <2>2, ZenonT(40) DEF Locks
<1>13. \A u \in Sessions : SlotOK(u)'
  BY <1>1 DEF SInv, SlotOK
<1>14. JobsOK'
  <2>1. /\ JobOK(h, client)
        /\ \A i \in 1..Len(jobs') : Apart(jobs[i + 1], h)
        /\ \A v \in Workers : \A j \in wk[v].job : Apart(h, j) /\ Apart(j, h)
    <3>1. 1 \in 1..Len(jobs)
      BY <1>3
    <3>2. \A v \in Workers : \A j \in wk[v].job : Apart(h, j)
      BY <3>1, <1>3, ZenonT(40) DEF SInv, JobsOK
    <3> QED
      BY <3>1, <3>2, <1>3, <1>9, ZenonT(40) DEF SInv, JobsOK, Apart
  <2>2. /\ \A i \in 1..Len(jobs') : JobOK(jobs'[i], client)
        /\ \A i, k \in 1..Len(jobs') : i # k => Apart(jobs'[i], jobs'[k])
    <3>1. /\ \A i \in 1..Len(jobs) : JobOK(jobs[i], client)
          /\ \A i, k \in 1..Len(jobs) : i # k => Apart(jobs[i], jobs[k])
      BY Zenon DEF SInv, JobsOK
    <3>2. \A i, k \in 1..Len(jobs') : i # k => i + 1 # k + 1
      BY <1>3, <1>9
    <3> QED
      BY <3>1, <3>2, <1>9, Zenon
  <2>3. \A v \in Workers : \A j \in wk'[v].job : (v = w /\ j = h) \/ (v # w /\ j \in wk[v].job)
    BY <1>5, <1>8, Zenon
  <2>4. \A v \in Workers : \A j \in wk'[v].job : JobOK(j, client)
    BY <2>1, <2>3, ZenonT(40) DEF SInv, JobsOK
  <2>5. \A i \in 1..Len(jobs') : \A v \in Workers : \A j \in wk'[v].job : Apart(jobs'[i], j)
    BY <2>1, <2>3, <1>9 DEF SInv, JobsOK
  <2>6. \A v, x \in Workers : v # x => \A j \in wk'[v].job, k \in wk'[x].job : Apart(j, k)
    BY <2>1, <2>3 DEF SInv, JobsOK
  <2> QED
    BY <2>2, <2>4, <2>5, <2>6, <1>1, ZenonT(40) DEF JobsOK
<1>15. ASSUME NEW kind, NEW s, Queued(kind, s)
       PROVE  Queued(kind, s)'
  <2>1. CASE \E v \in Workers : \E j \in wk[v].job : j.kind = kind /\ j.session = s
    BY <2>1, <1>7, <1>8, Zenon DEF Queued
  <2>2. ASSUME NEW i \in DOMAIN jobs, jobs[i].kind = kind, jobs[i].session = s
        PROVE  Queued(kind, s)'
    <3>1. CASE i = 1
      <4>1. h \in wk'[w].job /\ h.kind = kind /\ h.session = s
        BY <2>2, <3>1, <1>3, <1>5, <1>8, Zenon
      <4> QED
        BY <4>1, Zenon DEF Queued
    <3>2. CASE i # 1
      <4>1. i - 1 \in DOMAIN jobs' /\ jobs'[i - 1] = jobs[i]
        BY <3>2, <1>2, <1>3, <1>9
      <4> QED
        BY <4>1, <2>2, Zenon DEF Queued
    <3> QED
      BY <3>1, <3>2, Zenon
  <2> QED
    BY <2>1, <2>2, <1>15, Zenon DEF Queued
<1>16. Answered'
  <2>1. engine # "stopped"
    BY <1>1, Zenon DEF SInv, Answered
  <2> QED
    BY <2>1, <1>1, <1>15, Zenon DEF SInv, Answered
<1>17. FlushLast'
  <2>1. engine = "open" => h.kind # "flush"
    BY <1>3 DEF SInv, FlushLast
  <2>2. engine = "open" => \A i \in 1..Len(jobs') : jobs'[i].kind # "flush"
    BY <1>9, Zenon DEF SInv, FlushLast
  <2>3. engine = "open" => \A v \in Workers : wk'[v].pc # "flush"
    BY <2>1, <1>5, <1>8, Zenon DEF SInv, FlushLast
  <2> QED
    BY <2>2, <2>3, <1>1, ZenonT(40) DEF FlushLast
<1> QED
  BY <1>10, <1>11, <1>12, <1>13, <1>14, <1>15, <1>16, <1>17, ZenonT(40) DEF SInv

LEMMA FlushS ==
    ASSUME SInv, NEW w \in Workers, Flush(w)
    PROVE  /\ SInv' /\ \A kind, s : kind # "flush" /\ Queued(kind, s) => Queued(kind, s)'
<1>1. /\ wk[w].pc = "flush" /\ wk' = [wk EXCEPT ![w] = Ready] /\ engine' = "closed"
      /\ client' = client /\ view' = view /\ sessions' = sessions
      /\ slot' = slot /\ idle' = idle /\ mutex' = mutex /\ jobs' = jobs
  BY Zenon DEF Flush, At, clients, state
<1>2. wk \in [Workers -> Records] /\ Shape(wk[w]) /\ wk[w] \in Records
  BY Zenon DEF SInv, SType, Shapes
<1>3. wk[w].job = {FlushJob} /\ FlushJob.kind = "flush"
  BY <1>1, <1>2 DEF Shape, Records, Option, FlushJob
<1>4. Ready \in Records /\ Shape(Ready) /\ Ready.job = {} /\ Ready.pc = "recv"
  BY Zenon DEF Ready, Records, Shape, Option, Pcs, Busy
<1>5. /\ wk' \in [Workers -> Records] /\ wk'[w] = Ready
      /\ \A v \in Workers \ {w} : wk'[v] = wk[v]
  BY <1>1, <1>2, <1>4, Zenon
<1>6. engine # "open" /\ engine # "stopped"
  BY <1>1, Zenon DEF SInv, FlushLast, Answered
<1>7. SType'
  BY <1>1, <1>5, Zenon DEF SInv, SType
<1>8. Shapes'
  BY <1>4, <1>5, Zenon DEF SInv, Shapes
<1>9. Locks'
  <2>1. \A v \in Workers : Holds(v)'
    BY <1>1, <1>4, <1>5 DEF SInv, Locks, Holds, Busy
  <2>2. ASSUME NEW u \in Sessions
        PROVE  Held(u)'
    <3>1. SUFFICES ASSUME NEW v \in mutex[u]
                   PROVE  wk'[v].pc \in Busy /\ \A j \in wk'[v].job : j.session = u
      BY <1>1, Zenon DEF Held
    <3>2. v \in Workers /\ wk[v].pc \in Busy /\ \A j \in wk[v].job : j.session = u
      BY DEF SInv, SType, Locks, Held, Option
    <3>3. v # w
      BY <3>2, <1>1 DEF Busy
    <3> QED
      BY <3>2, <3>3, <1>5, Zenon
  <2> QED
    BY <2>1, <2>2 DEF Locks
<1>10. \A u \in Sessions : SlotOK(u)'
  BY <1>1, <1>6, Zenon DEF SInv, SlotOK
<1>11. JobsOK'
  <2>1. \A v \in Workers : wk'[v].job \subseteq wk[v].job
    BY <1>4, <1>5, Zenon
  <2> QED
    BY <2>1, <1>1, Zenon DEF SInv, JobsOK
<1>12. \A kind, s : kind # "flush" /\ Queued(kind, s) => Queued(kind, s)'
  BY <1>1, <1>3, <1>5, Zenon DEF Queued
<1>13. Answered'
  BY <1>1, <1>12 DEF SInv, Answered
<1>14. FlushLast'
  BY <1>1 DEF FlushLast
<1> QED
  BY <1>7, <1>8, <1>9, <1>10, <1>11, <1>12, <1>13, <1>14, ZenonT(40) DEF SInv
=============================================================================

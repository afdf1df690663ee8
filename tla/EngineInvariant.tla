-------------------------- MODULE EngineInvariant --------------------------
(***************************************************************************)
(* The inductive invariant of Engine.  SInv is about sessions, jobs and    *)
(* workers alone: a session's lock is held by the one worker that is busy  *)
(* with it, that worker's transaction is the session's, and a client has   *)
(* at most one statement in the engine.  TInv adds the transactions: who   *)
(* owns each, which are being undone, and that the ids do not run out.     *)
(* CInv adds the catalog: its rows are the committed tables and those the  *)
(* undo logs name, and its cache differs from its rows only while an abort *)
(* is on its way to the end of its reload.                                 *)
(***************************************************************************)
EXTENDS Engine

SessionJobs == [kind : {"execute", "expire", "disconnect"}, session : Sessions, stmt : Statements \cup {NoStatement}]
FlushJob == [kind |-> "flush"]
Jobs == SessionJobs \cup {FlushJob}

Busy == {"acquire", "create", "write", "undo", "reload", "install"}
Pcs == {"recv", "flush", "lock"} \cup Busy
Records == [pc : Pcs, job : Option(Jobs), txn : Option(TxnIds), auto : BOOLEAN, fresh : Option(CatalogState)]
Slots == [tag : {"None", "Active", "Aborted", "TimedOut"}, txn : Option(TxnIds)]

-----------------------------------------------------------------------------
(* Sessions, jobs and workers. *)

SType ==
    /\ client \in [Sessions -> {"new", "waiting", "idle", "gone"}]
    /\ view \in [Sessions -> Option(TxnIds)]
    /\ engine \in {"open", "flushing", "closed", "stopping", "stopped"}
    /\ sessions \subseteq Sessions
    /\ slot \in [Sessions -> Slots]
    /\ idle \in [Sessions -> {"none", "fresh", "overdue"}]
    /\ mutex \in [Sessions -> Option(Workers)]
    /\ wk \in [Workers -> Records]
    /\ jobs \in Seq(Jobs)

\* What a worker's record holds at each point of its job.
Shape(r) ==
    /\ r.pc = "recv" <=> r.job = {}
    /\ r.pc = "flush" <=> FlushJob \in r.job
    /\ r.pc \notin Busy => r.txn = {}
    /\ r.pc \in {"acquire", "create", "write", "undo"} => r.txn # {}
    /\ r.auto => r.pc \in Busy
    /\ r.pc = "install" <=> r.fresh # {}
    /\ r.auto \/ r.pc \in {"acquire", "create", "write"} => \A j \in r.job : j.kind = "execute"

Shapes == \A w \in Workers : Shape(wk[w])

\* A busy worker holds its session's lock, and its transaction is one of the session's:
\* the one in the slot, or one of its own while the slot has none.
Holds(w) ==
    wk[w].pc \in Busy => \A j \in wk[w].job :
        /\ mutex[j.session] = {w}
        /\ \A t \in wk[w].txn : t[1] = j.session
        /\ wk[w].auto => slot[j.session].tag = "None"
        /\ ~wk[w].auto /\ wk[w].txn # {} => slot[j.session].txn = wk[w].txn

Held(s) == \A w \in mutex[s] : wk[w].pc \in Busy /\ \A j \in wk[w].job : j.session = s

Locks == (\A w \in Workers : Holds(w)) /\ (\A s \in Sessions : Held(s))

\* A slot names a transaction of its session, and the client knows it from its answers,
\* unless the transaction was ended behind its back.
SlotOK(s) ==
    /\ slot[s].txn = {} <=> slot[s].tag \in {"None", "TimedOut"}
    /\ \A t \in slot[s].txn : t[1] = s
    /\ s \in sessions <=> client[s] \in {"idle", "waiting"}
    /\ client[s] = "new" => slot[s].txn = {}
    /\ client[s] # "gone" /\ slot[s].tag # "TimedOut" => view[s] = slot[s].txn
    /\ engine # "open" => client[s] \in {"new", "gone"}

\* What a job says of its client.
JobOK(j, cl) ==
    /\ j.kind = "execute" => cl[j.session] = "waiting"
    /\ j.kind = "expire" => cl[j.session] # "new"
    /\ j.kind = "disconnect" => cl[j.session] = "gone"

\* j and k are not two statements of one client.
Apart(j, k) == j.kind = "execute" /\ k.kind = "execute" => j.session # k.session

JobsOK ==
    /\ \A i \in 1..Len(jobs) : JobOK(jobs[i], client)
    /\ \A w \in Workers : \A j \in wk[w].job : JobOK(j, client)
    /\ \A i, k \in 1..Len(jobs) : i # k => Apart(jobs[i], jobs[k])
    /\ \A i \in 1..Len(jobs) : \A w \in Workers : \A j \in wk[w].job : Apart(jobs[i], j)
    /\ \A w, v \in Workers : w # v => \A j \in wk[w].job, k \in wk[v].job : Apart(j, k)

\* A client that waits has its statement in the engine, which does not stop before.
Answered ==
    /\ \A s \in Sessions : client[s] = "waiting" => Queued("execute", s)
    /\ engine = "stopped" => jobs = <<>> /\ \A w \in Workers : wk[w].pc = "recv"

\* Only the engine's handle asks for a flush.
FlushLast ==
    engine = "open" =>
        /\ \A i \in 1..Len(jobs) : jobs[i].kind # "flush"
        /\ \A w \in Workers : wk[w].pc # "flush"

SInv ==
    /\ SType /\ Shapes /\ Locks
    /\ \A s \in Sessions : SlotOK(s)
    /\ JobsOK /\ Answered /\ FlushLast

-----------------------------------------------------------------------------
(* Transactions. *)

UndoRecords == [root : Roots] \cup [table : Names]

TType ==
    /\ active \subseteq TxnIds
    /\ \A t \in active : undo[t] \in Seq(UndoRecords)
    /\ aborting \subseteq active /\ failed \subseteq active
    /\ locked \in Option(active)
    /\ undoFailed \in BOOLEAN /\ reloadFailed \in BOOLEAN

\* Each transaction that is stuck has cost one of the faults.
Faulty ==
    /\ faults \in 0..MaxFaults
    /\ IsFiniteSet(failed) /\ Cardinality(failed) <= faults

\* The transaction of a busy worker is active while a statement runs on its own and
\* while it is undone, and is not after that unless the undo has failed.
WorkerTxn(w) ==
    /\ Works(w) /\ wk[w].auto => wk[w].txn \subseteq active
    /\ At(w, "undo") => wk[w].txn \subseteq aborting
    /\ At(w, "reload") \/ At(w, "install") =>
          /\ wk[w].txn \cap active \subseteq failed
          /\ \A j \in wk[w].job : slot[j.session].txn \cap active \subseteq failed

\* The transaction in a session's slot exists.
SlotTxn(s) ==
    s \in sessions =>
        \/ slot[s].txn \subseteq active
        \/ reloadFailed
        \/ \E w \in mutex[s] : At(w, "reload") \/ At(w, "install")

Undone(t) == \E w \in Workers : At(w, "undo") /\ wk[w].txn = {t}

TInv ==
    /\ TType /\ Faulty
    /\ \A w \in Workers : WorkerTxn(w)
    /\ \A s \in Sessions : SlotTxn(s)
    /\ \A t \in aborting : Undone(t)
    /\ \A t \in active \ failed : Owned(t)

-----------------------------------------------------------------------------
(* The catalog. *)

Tables(log) == {log[i].table : i \in {j \in DOMAIN log : "table" \in DOMAIN log[j]}}

CType ==
    /\ heap \in CatalogState /\ cache \in CatalogState
    /\ splits \in 0..MaxSplits
    /\ mutation \in Option(Workers)
    /\ \A w \in Workers : At(w, "install") <=> mutation = {w}

\* A transaction creates a name once.
Unique(log) ==
    \A i, j \in DOMAIN log :
        i # j /\ "table" \in DOMAIN log[i] /\ "table" \in DOMAIN log[j] => log[i].table # log[j].table

\* Every table of the heap is committed, or has one before-image.
Logged ==
    /\ heap.tables = committed \cup UNION {Tables(undo[t]) : t \in active}
    /\ \A t \in active : Unique(undo[t]) /\ Tables(undo[t]) \cap committed = {}
    /\ \A t, u \in active : t # u => Tables(undo[t]) \cap Tables(undo[u]) = {}

Stale == \E w \in Workers : At(w, "undo") \/ At(w, "reload")

\* A name in use cannot be created again, and a stale cache is about to be replaced by
\* the rows as they are.
Cached ==
    /\ heap.tables \subseteq cache.tables
    /\ \A w \in Workers : \A c \in wk[w].fresh :
          heap.tables \subseteq c.tables /\ (Stale \/ c = heap)
    /\ Stale \/ cache = heap \/ \E w \in Workers : At(w, "install")

CInv == CType /\ (~undoFailed /\ ~reloadFailed => Logged /\ Cached)

EInv == SInv /\ TInv /\ CInv
=============================================================================

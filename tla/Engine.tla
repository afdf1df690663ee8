------------------------------- MODULE Engine -------------------------------
(***************************************************************************)
(* The engine of crates/engine/src/runtime.rs and worker_pool.rs, with the *)
(* catalog of crates/catalog that it shares between sessions.              *)
(*                                                                         *)
(* Clients send messages over one channel to the dispatch thread, which    *)
(* turns them into jobs for a pool of workers.  That thread waits for      *)
(* nothing but the channel and looks at sessions only when it is empty: a  *)
(* message in the channel is like one not yet sent, so that sending it and *)
(* dispatching it are one step.  The pool's queue is unbounded.            *)
(*                                                                         *)
(* A statement's job                                                       *)
(* locks its session, so the jobs of one session run one at a time, and    *)
(* those of different sessions interleave at every lock they take: the     *)
(* session's, the table's, the catalog's mutation lock and the transaction *)
(* manager's (held for one step).  When no message comes for a tick, the   *)
(* dispatch thread looks for transactions idle too long.                   *)
(*                                                                         *)
(* One table with one index stands for the tables: an INSERT may split the *)
(* index's root, and CREATE TABLE adds a name; a before-image is undone    *)
(* name by name, which is what the page does as long as no two             *)
(* transactions share its slot count (module Catalog has the pages).       *)
(* Locking (LockManager), row visibility (Mvcc) and checkpoints (Recovery) *)
(* have modules of their own.                                              *)
(* Options are sets: {} is None and {x} is Some(x).                        *)
(***************************************************************************)
EXTENDS Naturals, Sequences, FiniteSets, Functions

CONSTANTS Sessions, Workers,
          Names,             \* the tables a client may create
          MaxStatements,     \* bound: statements each session sends
          MaxSplits,         \* bound: root splits
          MaxExpires,        \* bound: expiry jobs of one session at a time
          MaxFaults          \* bound: failed undos, commits, reloads

ASSUME EngineBounds ==
    /\ IsFiniteSet(Sessions) /\ MaxStatements \in [Sessions -> Nat]
    /\ {MaxSplits, MaxExpires, MaxFaults} \subseteq Nat

VARIABLES
    client,     \* what each client is doing
    view,       \* the transaction each client believes it is in, by the answers it got
    sent,       \* statements sent so far, by session
    engine,     \* "open", "flushing", "closed", "stopping" or "stopped"
    sessions,   \* the session table of run_engine
    slot, idle, \* SessionState.txn_slot and idle_since
    mutex,      \* who holds a session's lock
    jobs, wk,   \* the pool's queue, and what each worker is doing
    undo,       \* per active transaction, the before-images of what it wrote
    aborting,   \* active transactions in state Aborted
    locked,     \* the transaction with the table's exclusive lock
    heap,       \* the catalog's rows on its heap pages
    cache,      \* Catalog.state
    mutation,   \* the worker that holds Catalog.mutation
    splits,     \* root pages allocated so far
    faults,
    committed,  \* history: tables whose creator committed
    failed,     \* history: transactions whose last commit or undo failed
    undoFailed, reloadFailed  \* history: whether an undo, a reload has ever failed

clients == <<client, view, sent>>
control == <<engine, sessions>>
state == <<slot, idle, mutex>>
txns == <<undo, aborting, locked>>
catalog == <<heap, cache, mutation, splits>>
history == <<committed, failed, undoFailed, reloadFailed>>
vars == <<clients, control, state, jobs, wk, txns, catalog, faults, history>>

-----------------------------------------------------------------------------
(* Types and the initial state. *)

\* Two ids are enough for a session's transactions, and one more for each that is stuck.
TxnIds == Sessions \X (1..(MaxFaults + 2))
Option(S) == {{}} \cup {{x} : x \in S}
Roots == 0..MaxSplits
CatalogState == [tables : SUBSET Names, root : Roots]

Statements == {"BEGIN", "COMMIT", "ROLLBACK", "INSERT", "CREATE"}
NoStatement == ""
Job(kind, s, stmt) == [kind |-> kind, session |-> s, stmt |-> stmt]
NoSlot == [tag |-> "None", txn |-> {}]
TimedOut == [tag |-> "TimedOut", txn |-> {}]

Ready == [pc |-> "recv", job |-> {}, txn |-> {}, auto |-> FALSE, fresh |-> {}]

Init ==
    /\ client = [s \in Sessions |-> "new"]
    /\ view = [s \in Sessions |-> {}] /\ sent = [s \in Sessions |-> 0]
    /\ engine = "open" /\ sessions = {}
    /\ slot = [s \in Sessions |-> NoSlot]
    /\ idle = [s \in Sessions |-> "none"]
    /\ mutex = [s \in Sessions |-> {}]
    /\ jobs = <<>> /\ wk = [w \in Workers |-> Ready]
    /\ undo = <<>> /\ aborting = {} /\ locked = {}
    /\ heap = [tables |-> {}, root |-> 0] /\ cache = heap
    /\ mutation = {} /\ splits = 0
    /\ faults = 0
    /\ committed = {} /\ failed = {} /\ undoFailed = FALSE /\ reloadFailed = FALSE

active == DOMAIN undo
Drop(f, x) == [y \in DOMAIN f \ {x} |-> f[y]]
Put(f, x, v) == [y \in DOMAIN f \cup {x} |-> IF y = x THEN v ELSE f[y]]
The(option) == CHOOSE x \in option : TRUE

-----------------------------------------------------------------------------
(* Clients: a Database and its SessionHandle. *)

\* dispatch_message for a message that becomes a job.
Submit(newJobs) == jobs' = jobs \o newJobs
Message(m) ==
    /\ Submit(<<m>>)
    /\ UNCHANGED <<state, wk, txns, catalog, faults, history>>

\* A Connect is answered by the dispatch thread itself.
Connect(s) ==
    /\ engine = "open" /\ client[s] = "new"
    /\ sessions' = sessions \cup {s}
    /\ client' = [client EXCEPT ![s] = "idle"]
    /\ UNCHANGED <<view, sent, engine, state, jobs, wk, txns, catalog, faults, history>>

Execute(s, stmt) ==
    /\ client[s] = "idle" /\ sent[s] < MaxStatements[s]
    /\ s \in sessions
    /\ sent' = [sent EXCEPT ![s] = @ + 1]
    /\ Message(Job("execute", s, stmt))
    /\ client' = [client EXCEPT ![s] = "waiting"]
    /\ UNCHANGED <<view, control>>

\* Mutant: a disconnect only forgets the session.
DropSessionOnly(s) ==
    /\ client[s] = "idle" /\ s \in sessions
    /\ sessions' = sessions \ {s}
    /\ client' = [client EXCEPT ![s] = "gone"]
    /\ view' = [view EXCEPT ![s] = {}]
    /\ sent' = [sent EXCEPT ![s] = MaxStatements[s]]
    /\ UNCHANGED <<engine, state, jobs, wk, txns, catalog, faults, history>>

\* A client blocks on every answer, so it can only drop its handle between requests.
DropSession(s) ==
    /\ client[s] = "idle"
    /\ s \in sessions
    /\ sessions' = sessions \ {s}
    /\ Message(Job("disconnect", s, NoStatement))
    /\ client' = [client EXCEPT ![s] = "gone"]
    /\ view' = [view EXCEPT ![s] = {}]
    /\ sent' = [sent EXCEPT ![s] = MaxStatements[s]]
    /\ UNCHANGED engine

\* Drop for EngineHandle, once the last SessionHandle is gone: ask for a flush ...
DropEngine ==
    /\ engine = "open"
    /\ \A s \in Sessions : client[s] \in {"new", "gone"}
    /\ \E s \in Sessions : client[s] = "gone"
    /\ Message([kind |-> "flush"])
    /\ engine' = "flushing"
    /\ UNCHANGED <<clients, sessions>>

-----------------------------------------------------------------------------
(* The dispatch thread on its own. *)

Expiries(s) ==
    Cardinality({i \in DOMAIN jobs : jobs[i] = Job("expire", s, NoStatement)})
      + Cardinality({w \in Workers : Job("expire", s, NoStatement) \in wk[w].job})

\* expire_idle_transaction only peeks: a session locked by a worker is skipped.
Expirable(s) ==
    /\ s \in sessions /\ mutex[s] = {}
    /\ slot[s].txn # {} /\ idle[s] # "none"
    /\ Expiries(s) < MaxExpires

\* No message for TICK_INTERVAL: one expiry job for each session idle for longer than
\* idle_in_transaction_timeout, in the order of the session table's iteration.  Time is
\* seen only here: any of the sessions may be overdue by now.
Tick ==
    /\ engine \in {"open", "flushing"}
    /\ \E due \in SUBSET {s \in Sessions : Expirable(s)} :
         /\ due # {}
         /\ idle' = [s \in Sessions |-> IF s \in due THEN "overdue" ELSE idle[s]]
         /\ \E order \in Bijection(1..Cardinality(due), due) :
              Submit([i \in DOMAIN order |-> Job("expire", order[i], NoStatement)])
    /\ UNCHANGED <<clients, control, slot, mutex, wk, txns, catalog, faults, history>>

\* The last sender is gone and the channel is drained: run_engine returns, which
\* drops the WorkerPool, which drops its sender ...
EngineExits ==
    /\ engine = "closed"
    /\ engine' = "stopping"
    /\ UNCHANGED <<clients, sessions, state, jobs, wk, txns, catalog, faults, history>>

\* Mutant: the workers are not joined.
JoinNobody ==
    /\ engine = "stopping"
    /\ engine' = "stopped"
    /\ UNCHANGED <<clients, sessions, state, jobs, wk, txns, catalog, faults, history>>

\* ... and joins the workers: each leaves its loop when the queue is empty.
JoinWorkers ==
    /\ engine = "stopping" /\ jobs = <<>>
    /\ \A w \in Workers : wk[w].pc = "recv"
    /\ engine' = "stopped"
    /\ UNCHANGED <<clients, sessions, state, jobs, wk, txns, catalog, faults, history>>

-----------------------------------------------------------------------------
(* Workers: taking a job and ending it. *)

At(w, pc) == wk[w].pc = pc
Goto(w, pc) == wk' = [wk EXCEPT ![w].pc = pc]
job(w) == The(wk[w].job)
session(w) == job(w).session
txn(w) == The(wk[w].txn)

TakeJob(w) ==
    /\ At(w, "recv") /\ jobs # <<>>
    /\ jobs' = Tail(jobs)
    /\ wk' = [wk EXCEPT ![w].job = {Head(jobs)},
                       ![w].pc = IF Head(jobs).kind = "flush" THEN "flush" ELSE "lock"]
    /\ UNCHANGED <<clients, control, state, txns, catalog, faults, history>>

\* best_effort_flush, and the answer EngineHandle's Drop waits for before it drops
\* the channel's last sender.
Flush(w) ==
    /\ At(w, "flush")
    /\ wk' = [wk EXCEPT ![w] = Ready]
    /\ engine' = "closed"
    /\ UNCHANGED <<clients, sessions, state, jobs, txns, catalog, faults, history>>

\* Mutant: a job goes ahead although its session is locked.
StartsUnlocked(w, kind) == At(w, "lock") /\ job(w).kind = kind

\* The job's closure starts by locking its session; what it can do there in one step
\* it does in the same step.
Starts(w, kind) == At(w, "lock") /\ job(w).kind = kind /\ mutex[session(w)] = {}
LockSession(w) == mutex' = [mutex EXCEPT ![session(w)] = {w}]
UnlockSession(w) == mutex' = [mutex EXCEPT ![session(w)] = {}]

\* The end of execute_with_params: idle_since restarts if a transaction is open, and
\* the client gets its answer, from which it knows which transaction it is in.
Answer(w, newSlot, newView) ==
    LET s == session(w) IN
    /\ slot' = [slot EXCEPT ![s] = newSlot]
    /\ idle' = [idle EXCEPT ![s] = IF newSlot.txn # {} THEN "fresh" ELSE "none"]
    /\ client' = [client EXCEPT ![s] = "idle"]
    /\ view' = [view EXCEPT ![s] = newView]
    /\ wk' = [wk EXCEPT ![w] = Ready]
    /\ UnlockSession(w)
    /\ UNCHANGED <<sent, control, jobs>>

AnswerError(w) == Answer(w, slot[session(w)], view[session(w)])

Fault == faults < MaxFaults /\ faults' = faults + 1

-----------------------------------------------------------------------------
(* Statements. *)

\* The slot of the session whose statement w runs.
mySlot(w) == slot[session(w)]
Runs(w, stmts) == Starts(w, "execute") /\ job(w).stmt \in stmts  /\ mySlot(w) # TimedOut

\* The ids are handed out again once their transaction has ended.
NewTxn(s) == CHOOSE t \in TxnIds : t[1] = s /\ t \notin active \cup failed /\ {t} # slot[s].txn

\* An error before anything changes: a nested BEGIN, a COMMIT or ROLLBACK with no
\* transaction, a statement in a transaction that has failed (the actions below exclude
\* these), a syntax error, or FlushPoisoned, a flag of the buffer pool's that any
\* statement may find set.
Refuse(w) ==
    /\ Starts(w, "execute")
    /\ AnswerError(w)
    /\ UNCHANGED <<txns, catalog, faults, history>>

\* The client learns that its transaction was aborted while it was idle.
ReportTimeout(w) ==
    /\ Starts(w, "execute")  /\ mySlot(w) = TimedOut
    /\ Answer(w, NoSlot, {})
    /\ UNCHANGED <<txns, catalog, faults, history>>

HandleBegin(w) ==
    /\ Runs(w, {"BEGIN"}) /\ mySlot(w).txn = {}
    /\ LET t == NewTxn(session(w)) IN
         /\ undo' = Put(undo, t, <<>>)
         /\ Answer(w, [tag |-> "Active", txn |-> {t}], {t})
    /\ UNCHANGED <<aborting, locked, catalog, faults, history>>

\* txn_for_statement
StartStatement(w) ==
    /\ Runs(w, {"INSERT", "CREATE"}) /\ mySlot(w).tag # "Aborted"
    /\ LET auto == mySlot(w).tag = "None"
           t == IF auto THEN NewTxn(session(w)) ELSE The(mySlot(w).txn)
       IN  /\ undo' = IF auto THEN Put(undo, t, <<>>) ELSE undo
           /\ wk' = [wk EXCEPT ![w].pc = IF job(w).stmt = "INSERT" THEN "acquire" ELSE "create",
                              ![w].txn = {t}, ![w].auto = auto]
    /\ LockSession(w)
    /\ UNCHANGED <<clients, control, slot, idle, jobs, aborting, locked, catalog, faults, history>>

\* InsertExecutor::init locks the table, for a transaction that EngineShared::run finds
\* active.
LockTable(w) ==
    /\ At(w, "acquire")
    /\ txn(w) \in active
    /\ locked \subseteq wk[w].txn
    /\ locked' = wk[w].txn
    /\ Goto(w, "write")
    /\ UNCHANGED <<clients, control, state, jobs, undo, aborting, catalog, faults, history>>

\* A row splits the root: the new one goes to the catalog's row and to its cache.
SplitRoot(w) ==
    /\ At(w, "write") /\ job(w).stmt = "INSERT"
    /\ mutation = {} /\ splits < MaxSplits
    /\ splits' = splits + 1
    /\ heap' = [heap EXCEPT !.root = splits + 1]
    /\ cache' = [cache EXCEPT !.root = splits + 1]
    /\ undo' = [undo EXCEPT ![txn(w)] = Append(@, [root |-> heap.root])]
    /\ UNCHANGED <<clients, control, state, jobs, wk, aborting, locked, mutation, faults, history>>

\* Catalog::create_table: refused if the name is in the cache.
CreateTable(w) ==
    /\ At(w, "create") /\ mutation = {}
    /\ \E n \in Names \ cache.tables :
         /\ heap' = [heap EXCEPT !.tables = @ \cup {n}]
         /\ cache' = [cache EXCEPT !.tables = @ \cup {n}]
         /\ undo' = IF txn(w) \in active
                    THEN [undo EXCEPT ![txn(w)] = Append(@, [table |-> n])] ELSE undo
    /\ Goto(w, "write")
    /\ UNCHANGED <<clients, control, state, jobs, aborting, locked, mutation, splits, faults, history>>

\* abort_txn returned: only ROLLBACK and COMMIT look at its error, and stop there.
AbortReturns(w, ok) ==
    \/ /\ ok \/ wk[w].auto \/ job(w).kind # "execute"
       /\ Goto(w, "reload")
       /\ LockSession(w)
       /\ UNCHANGED <<clients, control, slot, idle, jobs>>
    \/ /\ ~ok /\ ~wk[w].auto /\ job(w).kind = "execute"
       /\ AnswerError(w)

\* abort_txn, up to the end of begin_abort.
Abort(w, t) ==
    \/ /\ t \subseteq active \ aborting
       /\ aborting' = aborting \cup t
       /\ wk' = [wk EXCEPT ![w] = [Ready EXCEPT !.pc = "undo", !.txn = t, !.auto = wk[w].auto,
                                               !.job = {Job(job(w).kind, session(w), NoStatement)}]]
       /\ LockSession(w)
       /\ UNCHANGED <<clients, control, slot, idle, jobs>>
    \/ /\ ~(t \subseteq active)
       /\ AbortReturns(w, FALSE)
       /\ UNCHANGED aborting

\* Mutant: a lock wait has no timeout.
FailWithoutTimeout(w) ==
    /\ At(w, "create") \/ At(w, "write")
    /\ \/ wk[w].auto /\ Abort(w, wk[w].txn)
       \/ /\ ~wk[w].auto
          /\ Answer(w, [tag |-> "Aborted", txn |-> wk[w].txn], view[session(w)])
          /\ UNCHANGED aborting
    /\ UNCHANGED <<undo, locked, catalog, faults, history>>

\* A bind error, an unknown transaction, a lock timeout, a name that exists, or an
\* error after some of the statement's writes.
FailStatement(w) ==
    /\ \/ At(w, "acquire")
       \/ At(w, "create")
       \/ At(w, "write")
    /\ \/ wk[w].auto /\ Abort(w, wk[w].txn)
       \/ /\ ~wk[w].auto
          /\ Answer(w, [tag |-> "Aborted", txn |-> wk[w].txn], view[session(w)])
          /\ UNCHANGED aborting
    /\ UNCHANGED <<undo, locked, catalog, faults, history>>

\* TransactionManager::commit
CommitTxn(t) ==
    /\ undo' = Drop(undo, t)
    /\ locked' = locked \ {t}
    /\ failed' = failed \ {t}
    /\ committed' = committed \cup {undo[t][i].table : i \in {j \in DOMAIN undo[t] : "table" \in DOMAIN undo[t][j]}}

EndStatement(w) ==
    /\ At(w, "write")
    /\ \/ wk[w].auto /\ CommitTxn(txn(w))
       \/ ~wk[w].auto /\ UNCHANGED <<undo, locked, failed, committed>>
    /\ Answer(w, mySlot(w), view[session(w)])
    /\ UNCHANGED <<aborting, catalog, faults, undoFailed, reloadFailed>>

HandleCommit(w) ==
    /\ Runs(w, {"COMMIT"}) /\ mySlot(w).tag = "Active" /\ mySlot(w).txn \subseteq active
    /\ CommitTxn(The(mySlot(w).txn))
    /\ Answer(w, NoSlot, {})
    /\ UNCHANGED <<aborting, catalog, faults, undoFailed, reloadFailed>>

\* The commit record cannot be appended or flushed: the transaction stays as it is.
CommitFails(w) ==
    /\ \/ At(w, "write") /\ wk[w].auto
       \/ Runs(w, {"COMMIT"}) /\ mySlot(w).tag = "Active"
    /\ LET t == IF At(w, "write") THEN wk[w].txn ELSE mySlot(w).txn IN
         \/ t \subseteq active /\ Fault /\ failed' = failed \cup t
         \/ ~(t \subseteq active) /\ UNCHANGED <<faults, failed>>
    /\ AnswerError(w)
    /\ UNCHANGED <<txns, catalog, committed, undoFailed, reloadFailed>>

\* ROLLBACK, and COMMIT of a transaction in which a statement has failed.
HandleRollback(w) ==
    /\ \/ Runs(w, {"ROLLBACK"})
       \/ Runs(w, {"COMMIT"}) /\ mySlot(w).tag = "Aborted"
    /\ mySlot(w).txn # {}
    /\ Abort(w, mySlot(w).txn)
    /\ UNCHANGED <<undo, locked, catalog, faults, history>>

-----------------------------------------------------------------------------
(* Transactions ended on a session's behalf. *)

\* expire_idle_session checks again what the dispatch thread saw; disconnect_session
\* has only the slot to check.
EndForSession(w) ==
    LET s == session(w) IN
    /\ \/ Starts(w, "expire") /\ idle[s] = "overdue"
       \/ Starts(w, "disconnect")
    /\ slot[s].txn # {}
    /\ Abort(w, slot[s].txn)
    /\ UNCHANGED <<undo, locked, catalog, faults, history>>

\* Such a job ends.  The last one of a disconnected session drops its SessionState.
LastJob(w) ==
    /\ session(w) \notin sessions
    /\ \A i \in DOMAIN jobs : jobs[i].kind = "flush" \/ jobs[i].session # session(w)
    /\ \A j \in UNION {wk[v].job : v \in Workers \ {w}} :
           j.kind = "flush" \/ j.session # session(w)
Leave(w, newSlot, newIdle) ==
    /\ slot' = [slot EXCEPT ![session(w)] = IF LastJob(w) THEN NoSlot ELSE newSlot]
    /\ idle' = [idle EXCEPT ![session(w)] = IF LastJob(w) THEN "none" ELSE newIdle]
    /\ UnlockSession(w)
    /\ wk' = [wk EXCEPT ![w] = Ready]
    /\ UNCHANGED <<clients, control, jobs>>

NothingToEnd(w) ==
    LET s == session(w) IN
    /\ \/ Starts(w, "expire") /\ (slot[s].txn = {} \/ idle[s] # "overdue")
       \/ Starts(w, "disconnect") /\ slot[s].txn = {}
    /\ Leave(w, slot[s], idle[s])
    /\ UNCHANGED <<txns, catalog, faults, history>>

\* PendingAbort::undo restores one before-image after the other, under no lock.
UndoRecord(w) ==
    /\ At(w, "undo") /\ undo[txn(w)] # <<>>
    /\ LET log == undo[txn(w)]
           r == log[Len(log)]
       IN  /\ undo' = [undo EXCEPT ![txn(w)] = SubSeq(log, 1, Len(log) - 1)]
           /\ \/ "root" \in DOMAIN r /\ heap' = [heap EXCEPT !.root = r.root]
              \/ "table" \in DOMAIN r /\ heap' = [heap EXCEPT !.tables = @ \ {r.table}]
    /\ UNCHANGED <<clients, control, state, jobs, wk, aborting, locked, cache, mutation, splits, faults, history>>

\* cancel_abort: the transaction is active again, with its locks.
UndoFails(w) ==
    /\ At(w, "undo") /\ Fault
    /\ aborting' = aborting \ wk[w].txn
    /\ failed' = failed \cup wk[w].txn /\ undoFailed' = TRUE
    /\ AbortReturns(w, FALSE)
    /\ UNCHANGED <<undo, locked, catalog, committed, reloadFailed>>

\* finish_abort releases the locks; the catalog is reloaded after it.
FinishAbort(w) ==
    /\ At(w, "undo") /\ undo[txn(w)] = <<>>
    /\ undo' = Drop(undo, txn(w))
    /\ aborting' = aborting \ wk[w].txn
    /\ locked' = locked \ wk[w].txn
    /\ failed' = failed \ wk[w].txn
    /\ AbortReturns(w, TRUE)
    /\ UNCHANGED <<catalog, faults, committed, undoFailed, reloadFailed>>

-----------------------------------------------------------------------------
(* reload_catalog, and what each caller does when it returns. *)

\* Mutant: an expired session is left with no transaction and no notice of it.
ExpireSilently(w, ok) ==
    \/ /\ job(w).kind = "execute" /\ ok /\ ~wk[w].auto
       /\ Answer(w, NoSlot, {})
    \/ /\ job(w).kind = "execute" /\ (~ok \/ wk[w].auto)
       /\ AnswerError(w)
    \/ /\ job(w).kind # "execute"
       /\ Leave(w, NoSlot, "none")

ReloadReturns(w, ok) ==
    \/ /\ job(w).kind = "execute" /\ ok /\ ~wk[w].auto
       /\ Answer(w, NoSlot, {})
    \/ /\ job(w).kind = "execute" /\ (~ok \/ wk[w].auto)
       /\ AnswerError(w)
    \/ /\ job(w).kind = "expire"
       /\ Leave(w, TimedOut, "none")
    \/ /\ job(w).kind = "disconnect"
       /\ Leave(w, mySlot(w), idle[session(w)])

\* Catalog::reload reads the rows and installs them under the mutation lock, which an
\* undo does not take.
ReadCatalog(w) ==
    /\ At(w, "reload") /\ mutation = {}
    /\ mutation' = {w}
    /\ wk' = [wk EXCEPT ![w].pc = "install", ![w].fresh = {heap}]
    /\ UNCHANGED <<clients, control, state, jobs, txns, heap, cache, splits, faults, history>>

InstallCatalog(w) ==
    /\ At(w, "install")
    /\ cache' = The(wk[w].fresh)
    /\ mutation' = {}
    /\ ReloadReturns(w, TRUE)
    /\ UNCHANGED <<txns, heap, splits, faults, history>>

\* The reload's transaction does not begin, a catalog page cannot be read, or the
\* transaction does not commit after the rows were installed.
ReloadFails(w) ==
    /\ At(w, "reload") \/ At(w, "install")
    /\ Fault
    /\ reloadFailed' = TRUE
    /\ mutation' = mutation \ {w}
    /\ cache' \in {cache} \cup wk[w].fresh
    /\ ReloadReturns(w, FALSE)
    /\ UNCHANGED <<txns, heap, splits, committed, failed, undoFailed>>

-----------------------------------------------------------------------------
(* The specification. *)

Worker(w) ==
    \/ TakeJob(w) \/ Flush(w)
    \/ Refuse(w) \/ ReportTimeout(w) \/ HandleBegin(w) \/ StartStatement(w)
    \/ LockTable(w) \/ SplitRoot(w) \/ CreateTable(w)
    \/ FailStatement(w) \/ EndStatement(w) \/ HandleCommit(w) \/ CommitFails(w)
    \/ HandleRollback(w) \/ EndForSession(w) \/ NothingToEnd(w)
    \/ UndoRecord(w) \/ UndoFails(w) \/ FinishAbort(w)
    \/ ReadCatalog(w) \/ InstallCatalog(w) \/ ReloadFails(w)

\* The engine is gone and its clients with it.
Quiescent == engine = "stopped" /\ UNCHANGED vars

Next ==
    \/ \E s \in Sessions : Connect(s) \/ DropSession(s)
    \/ \E s \in Sessions, stmt \in Statements : Execute(s, stmt)
    \/ DropEngine \/ Tick \/ EngineExits \/ JoinWorkers
    \/ \E w \in Workers : Worker(w)
    \/ Quiescent

Spec == Init /\ [][Next]_vars

-----------------------------------------------------------------------------
(* Properties. *)

\* The shape of the sessions, the workers, the transactions and the catalog.
TypeOK ==
    /\ client \in [Sessions -> {"new", "waiting", "idle", "gone"}]
    /\ view \in [Sessions -> Option(TxnIds)]
    /\ engine \in {"open", "flushing", "closed", "stopping", "stopped"}
    /\ sessions \subseteq Sessions
    /\ slot \in [Sessions -> [tag : {"None", "Active", "Aborted", "TimedOut"}, txn : Option(TxnIds)]]
    /\ idle \in [Sessions -> {"none", "fresh", "overdue"}]
    /\ mutex \in [Sessions -> Option(Workers)]
    /\ \A w \in Workers : wk[w].txn \in Option(TxnIds)
    /\ active \subseteq TxnIds /\ aborting \subseteq active
    /\ locked \in Option(active)
    /\ heap \in CatalogState /\ cache \in CatalogState /\ mutation \in Option(Workers)

Works(w) == wk[w].pc \in {"acquire", "create", "write"}
Ends(w) == At(w, "undo")

\* A statement runs in the transaction its client believes it is in, and on its own
\* only if the client believes it is in none: a transaction that was aborted behind
\* the client's back is reported before anything else runs (TxnSlot::TimedOut).
StatementInItsTxn ==
    \A w \in Workers : Works(w) =>
        view[session(w)] = IF wk[w].auto THEN {} ELSE wk[w].txn

\* A transaction is ended by one worker at a time, and while it is ended no statement
\* of it runs: AbortInProgress cannot reach a client (ADR 0018: "The engine serializes
\* a session's statements behind its SessionState mutex anyway").
EndedByOne ==
    \A w \in Workers : Ends(w) =>
        \A v \in Workers \ {w} : (Works(v) \/ Ends(v)) => wk[v].txn # wk[w].txn

Queued(kind, s) ==
    \/ \E i \in DOMAIN jobs : jobs[i].kind = kind /\ jobs[i].session = s
    \/ \E w \in Workers : \E j \in wk[w].job : j.kind = kind /\ j.session = s

Owned(t) ==
    \/ \E s \in Sessions : slot[s].txn = {t} /\ (s \in sessions \/ Queued("disconnect", s))
    \/ \E w \in Workers : wk[w].auto /\ wk[w].txn = {t}

\* Sessions and transactions correspond.  Somebody will end every active transaction: a
\* statement on its own, a session that is still in the table, or the job of a session
\* that has disconnected; and a session's open transaction exists, so that its
\* statements, COMMIT and ROLLBACK find it.  Only a failed commit, undo or reload
\* breaks this.
SlotsAndTxnsAgree ==
    /\ TypeOK
    /\ \A t \in active \ failed : Owned(t)
    /\ \A s \in sessions : slot[s].txn # {} =>
          slot[s].txn \subseteq active \/ reloadFailed \/ mutex[s] # {}

\* When the engine has stopped, every disconnected session's transaction has been
\* undone, the catalog holds the committed tables and no others, and nobody waits.  An
\* undo that fails is not followed by a reload, and a COMMIT may then succeed: the
\* catalog's cache still has what was undone.
StoppedClean ==
    engine = "stopped" =>
        /\ active \subseteq failed /\ locked \subseteq failed
        /\ \A s \in Sessions : client[s] # "waiting"
        /\ (failed = {} /\ ~undoFailed /\ ~reloadFailed) => heap.tables = committed /\ cache = heap

\* While there is work, some worker can go on without the help of any client: workers
\* never all wait for session locks, the mutation lock and the table lock at once (ADR
\* 0012: a lock wait ends by its timeout, even if the holder's COMMIT is queued behind
\* the waiters).
SomeWorkerGoesOn ==
    (jobs # <<>> \/ \E w \in Workers : ~At(w, "recv")) => \E w \in Workers : ENABLED Worker(w)

=============================================================================

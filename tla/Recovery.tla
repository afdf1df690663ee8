------------------------------ MODULE Recovery ------------------------------
(***************************************************************************)
(* Write-ahead logging, rollback, fuzzy checkpoints and restart recovery:  *)
(* the log manager, the parts of the buffer pool that stamp, flush and     *)
(* list dirty pages, the transaction manager's commit and abort, the two   *)
(* phases of a checkpoint, and analysis, redo and undo after a crash.      *)
(*                                                                         *)
(* An LSN is a position in the log sequence.  A page is an array of slots  *)
(* (byte ranges written as a unit) with a page_lsn; a slot's value is the  *)
(* LSN of the update that wrote it, so every write is told apart.  Page 0  *)
(* is the file header, whose only slot is last_checkpoint_lsn.  The log is *)
(* kept whole and base marks what truncation has removed.                  *)
(*                                                                         *)
(* Table locks make a slot the private property of its writer until that   *)
(* transaction ends; two slots of a page may have different writers, as on *)
(* the catalog's pages.  Torn pages are out of this module: a page write   *)
(* is atomic and durable when it returns.                                  *)
(***************************************************************************)
EXTENDS Naturals, Sequences, FiniteSets

CONSTANTS
    MaxTxns,      \* bound on the user transactions begun
    Pages,        \* number of data pages
    Slots,        \* slots per page
    MaxUpdates,   \* bound on the updates logged by user transactions
    MaxCkpts,     \* bound on the checkpoints started
    MaxCrashes,   \* bound on the crashes
    CkptDuringWrite  \* whether a checkpoint may start between a write's log append
                     \* and the moment the page is marked dirty

ASSUME RecoveryAssumption ==
    /\ {MaxTxns, Pages, MaxUpdates, MaxCkpts, MaxCrashes} \subseteq Nat
    /\ Slots \in Nat \ {0}
    /\ CkptDuringWrite \in BOOLEAN

VARIABLES
    log, durable, base,  \* the records; how many are synced; the first one kept
    mem, disk,           \* the buffer pool's pages and the data file's pages
    mode,                \* "run", or the phase of recovery
    active, aborting,    \* TransactionManager.active and the ones whose undo has begun
    committing,          \* the transaction between its Commit record and its end
    window,              \* per transaction, a change logged but not yet in its page
    cursor,              \* per transaction, where its undo stands
    locks,               \* per slot, its writer
    ckpt, pending,       \* the checkpoint record being written; the checkpoints to finish
    losers, turn, redo,  \* recovery: transactions to undo, the one being undone,
                         \* and the next record to redo
    begun, acked,        \* transactions begun; transactions whose commit returned
    ckpts, crashes       \* how many of the bounded events have happened

logVars  == <<log, durable, base>>
pageVars == <<mem, disk>>
txnVars  == <<active, aborting, committing, window, cursor, locks, begun, acked>>
recVars  == <<mode, losers, turn, redo, crashes>>
ckptVars == <<ckpt, pending, ckpts>>
vars     == <<logVars, pageVars, txnVars, recVars, ckptVars>>

Txn       == 1..MaxTxns
HeaderTxn == 0                 \* the transaction a checkpoint writes the header with
CHECKPOINT_TXN == MaxTxns + 1  \* the id checkpoint records carry
AnyTxn    == Txn \cup {HeaderTxn}
Page      == 0..Pages
Slot      == 1..Slots
Cell      == (1..Pages) \X Slot
None      == {}                \* an absent option; a present one is a singleton

Lsns      == 1..Len(log)
Has(i, kinds) == log[i].kind \in kinds

\* last_lsn_by_txn
last_lsn(t) ==
    LET own == {i \in Lsns : log[i].txn = t}
    IN  IF own = {} THEN 0 ELSE CHOOSE i \in own : \A j \in own : j <= i

\* LogManager::append.
Append1(rec) == log' = Append(log, rec)

Plain(k, t) == [kind |-> k, txn |-> t, prev |-> last_lsn(t)]
UpdateRec(t, p, s, v) ==
    [kind |-> "Update", txn |-> t, prev |-> last_lsn(t),
     page |-> p, slot |-> s, before |-> mem[p].img[s], after |-> v]
ClrRec(t, u) ==
    [kind |-> "Clr", txn |-> t, prev |-> last_lsn(t),
     page |-> u.page, slot |-> u.slot, after |-> u.before, undo_next |-> u.prev]

\* Mutant of CkptEndRec: the checkpoint leaves out the active transactions.
CkptEndWithoutAtt(att, dpt) ==
    [kind |-> "CheckpointEnd", txn |-> CHECKPOINT_TXN, att |-> {}, dpt |-> dpt]
CkptEndRec(att, dpt) == [kind |-> "CheckpointEnd", txn |-> CHECKPOINT_TXN, att |-> att, dpt |-> dpt]
CkptBeginRec == [kind |-> "CheckpointBegin", txn |-> CHECKPOINT_TXN]

\* LogManager::flush: nothing to do when the LSN is durable, else the whole buffer.
FlushedTo(lsn) == IF durable >= lsn THEN durable ELSE Len(log)

\* stamp_write, and the end of PageWriteGuard::write: bytes, page_lsn, dirty mark.
Stamped(pg, s, v, lsn) ==
    [img   |-> [pg.img EXCEPT ![s] = v],
     lsn   |-> lsn,
     since |-> IF pg.since = 0 THEN lsn ELSE pg.since]

dirty_page_table == {<<p, mem[p].since>> : p \in {q \in Page : mem[q].since # 0}}

\* A page latched by a writer in the middle of PageWriteGuard::write.  An undo logs
\* its record before it takes the latch, so its window latches nothing.
Latched(p) == \E t \in AnyTxn \ (aborting \cup losers) : \E w \in window[t] : w.page = p

-----------------------------------------------------------------------------
(* Transactions. *)

Idle == [phase |-> "idle", begin |-> 0, bound |-> 0]

\* The manager's mutex is free.
Free == mode = "run" /\ committing = None /\ ckpt = Idle

Begin(t) ==
    /\ Free
    /\ t = begun + 1
    /\ begun' = t
    /\ active' = active \cup {t}
    /\ Append1(Plain("Begin", t))
    /\ UNCHANGED <<durable, base, pageVars, aborting, committing, window, cursor, locks,
                   acked, recVars, ckptVars>>

Updates == Cardinality({i \in Lsns : Has(i, {"Update"}) /\ log[i].txn # HeaderTxn})

\* PageWriteGuard::write up to its append, under the page's latch.
WriteAppend(t, c) ==
    /\ mode = "run"
    /\ t \in active \ aborting /\ t \notin committing /\ window[t] = None
    /\ locks[c] \subseteq {t}
    /\ ~Latched(c[1])
    /\ Updates < MaxUpdates
    /\ LET lsn == Len(log) + 1
       IN  /\ Append1(UpdateRec(t, c[1], c[2], lsn))
           /\ window' = [window EXCEPT ![t] =
                 {[page |-> c[1], slot |-> c[2], val |-> lsn, lsn |-> lsn]}]
    /\ locks' = [locks EXCEPT ![c] = {t}]
    /\ UNCHANGED <<durable, base, pageVars, active, aborting, committing, cursor, begun,
                   acked, recVars, ckptVars>>

\* A logged change reaches its page: the rest of write, or the stamp_write of an undo.
Apply(t) ==
    /\ \E w \in window[t] :
         /\ t \in aborting \cup losers => ~Latched(w.page)
         /\ mem' = [mem EXCEPT ![w.page] = Stamped(@, w.slot, w.val, w.lsn)]
    /\ window' = [window EXCEPT ![t] = None]
    /\ UNCHANGED <<logVars, disk, active, aborting, committing, cursor, locks, begun, acked,
                   recVars, ckptVars>>

\* commit: the Commit record is appended, then flushed, under the manager's mutex.
CommitAppend(t) ==
    /\ Free
    /\ t \in active \ aborting /\ window[t] = None
    /\ Append1(Plain("Commit", t))
    /\ committing' = {t}
    /\ UNCHANGED <<durable, base, pageVars, active, aborting, window, cursor, locks, begun,
                   acked, recVars, ckptVars>>

Unlocked(t) == [c \in Cell |-> locks[c] \ {t}]

CommitFinish(t) ==
    /\ committing = {t}
    /\ durable' = FlushedTo(last_lsn(t))
    /\ Append1(Plain("End", t))
    /\ active' = active \ {t}
    /\ acked' = acked \cup {t}
    /\ locks' = Unlocked(t)
    /\ committing' = None
    /\ UNCHANGED <<base, pageVars, aborting, window, cursor, begun, recVars, ckptVars>>

BeginAbort(t) ==
    /\ Free
    /\ t \in active \ aborting /\ window[t] = None
    /\ aborting' = aborting \cup {t}
    /\ cursor' = [cursor EXCEPT ![t] = last_lsn(t)]
    /\ UNCHANGED <<logVars, pageVars, active, committing, window, locks, begun, acked,
                   recVars, ckptVars>>

\* Mutant of NextUndo: a CLR is followed to its predecessor, not past what it undid.
NextUndoByPrev(from) ==
    LET walk[i \in 0..Len(log)] ==
          IF i < base \/ i = 0 THEN 0
          ELSE IF Has(i, {"Update"}) THEN i
          ELSE IF Has(i, {"Begin"}) THEN 0 ELSE walk[log[i].prev]
    IN  walk[from]

\* The walk of undo_transaction from an LSN to the next update it has to undo: 0 when
\* it reaches the Begin record, or a record that truncation has removed.
NextUndo(from) ==
    LET walk[i \in 0..Len(log)] ==
          IF i < base \/ i = 0 THEN 0
          ELSE CASE Has(i, {"Update"}) -> i
                 [] Has(i, {"Clr"})    -> walk[log[i].undo_next]
                 [] Has(i, {"Begin"})  -> 0
                 [] OTHER              -> walk[log[i].prev]
    IN  walk[from]

Undoing(t) == (t \in aborting \/ turn = {t}) /\ cursor[t] # 0 /\ window[t] = None

\* One update undone: its CLR is appended; Apply then stamps the page.
UndoAppend(t) ==
    /\ Undoing(t)
    /\ NextUndo(cursor[t]) # 0
    /\ LET u == log[NextUndo(cursor[t])]
       IN  /\ Append1(ClrRec(t, u))
           /\ window' = [window EXCEPT ![t] =
                 {[page |-> u.page, slot |-> u.slot, val |-> u.before, lsn |-> Len(log) + 1]}]
           /\ cursor' = [cursor EXCEPT ![t] = u.prev]
    /\ UNCHANGED <<durable, base, pageVars, active, aborting, committing, locks, begun, acked,
                   recVars, ckptVars>>

UndoEnd(t) ==
    /\ Undoing(t)
    /\ NextUndo(cursor[t]) = 0
    /\ log' = log \o <<Plain("Abort", t), [Plain("End", t) EXCEPT !.prev = Len(log) + 1]>>
    /\ cursor' = [cursor EXCEPT ![t] = 0]
    /\ losers' = losers \ {t}
    /\ turn' = None
    /\ UNCHANGED <<durable, base, pageVars, active, aborting, committing, window, locks,
                   begun, acked, mode, redo, crashes, ckptVars>>

FinishAbort(t) ==
    /\ Free
    /\ t \in aborting /\ cursor[t] = 0
    /\ active' = active \ {t}
    /\ aborting' = aborting \ {t}
    /\ locks' = Unlocked(t)
    /\ UNCHANGED <<logVars, pageVars, committing, window, cursor, begun, acked,
                   recVars, ckptVars>>

-----------------------------------------------------------------------------
(* Page flushes: eviction, flush_all and flush_page.  The log is flushed   *)
(* up to the page's page_lsn first.                                        *)

\* Mutant of Flushed: the page is written without flushing the log first.
FlushedWithoutLog(p) ==
    /\ disk' = [disk EXCEPT ![p] = [img |-> mem[p].img, lsn |-> mem[p].lsn]]
    /\ mem' = [mem EXCEPT ![p].since = 0]
    /\ UNCHANGED durable

Flushed(p) ==
    /\ durable' = FlushedTo(mem[p].lsn)
    /\ disk' = [disk EXCEPT ![p] = [img |-> mem[p].img, lsn |-> mem[p].lsn]]
    /\ mem' = [mem EXCEPT ![p].since = 0]

FlushPage(p) ==
    /\ mode # "analysis"
    /\ mem[p].since # 0
    /\ ~Latched(p)
    /\ Flushed(p)
    /\ UNCHANGED <<log, base, txnVars, recVars, ckptVars>>

-----------------------------------------------------------------------------
(* Checkpoints.  write_checkpoint_record holds the manager's mutex, so no  *)
(* transaction begins or ends inside it, but writers, undos and flushes    *)
(* go on.  finish_checkpoint runs without the mutex: several checkpoints   *)
(* may be finishing at once.                                               *)

CkptBegin ==
    /\ Free /\ ckpts < MaxCkpts
    /\ CkptDuringWrite \/ \A t \in Txn : window[t] = None
    /\ Append1(CkptBeginRec)
    /\ ckpt' = [phase |-> "begun", begin |-> Len(log) + 1, bound |-> Len(log) + 1]
    /\ ckpts' = ckpts + 1
    /\ UNCHANGED <<durable, base, pageVars, txnVars, recVars, pending>>

MinOf(S) == CHOOSE x \in S : \A y \in S : x <= y

\* The two snapshots, the CheckpointEnd record and flush_log_all.
CkptEnd ==
    /\ ckpt.phase = "begun"
    /\ Append1(CkptEndRec({<<t, last_lsn(t)>> : t \in active}, dirty_page_table))
    /\ durable' = Len(log) + 1
    /\ ckpt' = [ckpt EXCEPT !.phase = "ended",
                            !.bound = MinOf({@} \cup {d[2] : d \in dirty_page_table})]
    /\ UNCHANGED <<base, pageVars, txnVars, recVars, ckpts, pending>>

\* set_last_checkpoint_lsn under the header transaction.
CkptHeader ==
    /\ ckpt.phase = "ended"
    /\ log' = log \o <<Plain("Begin", HeaderTxn),
                       [UpdateRec(HeaderTxn, 0, 1, ckpt.begin) EXCEPT !.prev = Len(log) + 1]>>
    /\ window' = [window EXCEPT ![HeaderTxn] =
           {[page |-> 0, slot |-> 1, val |-> ckpt.begin, lsn |-> Len(log) + 2]}]
    /\ ckpt' = [ckpt EXCEPT !.phase = "header"]
    /\ UNCHANGED <<durable, base, pageVars, active, aborting, committing, cursor, locks, begun,
                   acked, recVars, ckpts, pending>>

begin_lsn(t) == MinOf({i \in Lsns : log[i].txn = t})

\* Mutant of truncate_bound: only the checkpoint's own start counts.
BoundIgnoresTables == ckpt.begin

truncate_bound == MinOf({ckpt.bound} \cup {begin_lsn(t) : t \in active})

\* The header transaction commits; the truncation bound is fixed.
CkptCommit ==
    /\ ckpt.phase = "header" /\ window[HeaderTxn] = None
    /\ log' = log \o <<Plain("Commit", HeaderTxn),
                       [Plain("End", HeaderTxn) EXCEPT !.prev = Len(log) + 1]>>
    /\ durable' = Len(log) + 1
    /\ ckpt' = Idle
    /\ pending' = pending \cup {[begin |-> ckpt.begin, bound |-> truncate_bound]}
    /\ UNCHANGED <<base, pageVars, txnVars, recVars, ckpts>>

\* finish_checkpoint: flush the header page if it is dirty ...
CkptFlushHeader(k) ==
    /\ ~Latched(0)
    /\ IF mem[0].since # 0 THEN Flushed(0) ELSE UNCHANGED <<durable, pageVars>>
    /\ pending' = (pending \ {k}) \cup {[bound |-> k.bound]}
    /\ UNCHANGED <<log, base, txnVars, recVars, ckpt, ckpts>>

\* ... and truncate the log.
CkptTruncate(k) ==
    /\ base' = IF k.bound > base THEN k.bound ELSE base
    /\ pending' = pending \ {k}
    /\ UNCHANGED <<log, durable, pageVars, txnVars, recVars, ckpt, ckpts>>

CkptFinish ==
    \E k \in pending : IF "begin" \in DOMAIN k THEN CkptFlushHeader(k) ELSE CkptTruncate(k)

-----------------------------------------------------------------------------
(* Crash and restart.  Of the records not yet flushed any prefix may have  *)
(* reached the disk; the rest of the memory is lost.                       *)

NoWindow == [t \in AnyTxn |-> None]
NoCursor == [t \in AnyTxn |-> 0]
NoLocks  == [c \in Cell |-> None]
Loaded   == [p \in Page |-> [img |-> disk[p].img, lsn |-> disk[p].lsn, since |-> 0]]

Crash ==
    /\ crashes < MaxCrashes
    /\ crashes' = crashes + 1
    /\ \E n \in durable..Len(log) : log' = SubSeq(log, 1, n) /\ durable' = n
    /\ mem' = Loaded
    /\ mode' = "analysis"
    /\ active' = {} /\ aborting' = {} /\ committing' = None
    /\ window' = NoWindow /\ cursor' = NoCursor /\ locks' = NoLocks
    /\ ckpt' = Idle /\ pending' = {}
    /\ losers' = {} /\ turn' = None /\ redo' = 0
    /\ UNCHANGED <<base, disk, begun, acked, ckpts>>

\* iter_from: the records kept, from an LSN on.
IterFrom(from) == {i \in Lsns : i >= base /\ i >= from}

last_checkpoint_lsn == IF mem[0].img[1] = 0 THEN 1 ELSE mem[0].img[1]

Scanned == IterFrom(last_checkpoint_lsn)

\* The tables of the first CheckpointEnd after the starting point; empty if there is none.
SeedOf(table) ==
    LET ends == {i \in Scanned : Has(i, {"CheckpointEnd"})}
    IN  IF ends = {} THEN {} ELSE log[MinOf(ends)][table]

\* The records of t that analysis meets after the last End of t.
Live(t) ==
    LET own == {i \in Scanned : log[i].txn = t}
    IN  {i \in own : \A j \in own : Has(j, {"End"}) => j < i}

\* Mutant of committed: analysis takes every transaction for a committed one.
AssumedCommitted(t) == TRUE

committed(t) == \E i \in Live(t) : Has(i, {"Commit"})

\* What the scan leaves in the transaction table for t: the LSN of its last record, or
\* the checkpoint's entry if it met none; nothing if the last it met was an End.
att(t) ==
    IF Live(t) # {} THEN {CHOOSE i \in Live(t) : \A j \in Live(t) : j <= i}
    ELSE IF \E i \in Scanned : log[i].txn = t THEN None
    ELSE {e[2] : e \in {f \in SeedOf("att") : f[1] = t}}

\* The dirty page table: the checkpoint's entries, and the changes met to other pages
\* (only the smallest LSN is used).
dpt ==
    LET seed == SeedOf("dpt")
    IN  seed \cup {<<log[i].page, i>> : i \in {j \in Scanned :
                      Has(j, {"Update", "Clr"}) /\ \A e \in seed : e[1] # log[j].page}}

Analyze ==
    /\ mode = "analysis"
    /\ losers' = {t \in AnyTxn : att(t) # None /\ ~committed(t)}
    /\ cursor' = [t \in AnyTxn |->
          IF t \in losers' THEN CHOOSE i \in att(t) : TRUE ELSE 0]
    /\ redo' = IF dpt = {} THEN Len(log) + 1 ELSE MinOf(IterFrom(MinOf({d[2] : d \in dpt})))
    /\ mode' = "redo"
    /\ UNCHANGED <<logVars, pageVars, active, aborting, committing, window, locks, begun, acked,
                   turn, crashes, ckptVars>>

\* Mutant of RedoStep: a record that needs no redo is not stepped over.
RedoStuck ==
    /\ mode = "redo" /\ redo <= Len(log)
    /\ LET r == log[redo]
           applies == Has(redo, {"Update", "Clr"}) /\ mem[r.page].lsn < redo
       IN  /\ mem' = IF applies THEN [mem EXCEPT ![r.page] = Stamped(@, r.slot, r.after, redo)]
                     ELSE mem
           /\ redo' = IF applies THEN redo + 1 ELSE redo
    /\ UNCHANGED <<logVars, disk, txnVars, mode, losers, turn, crashes, ckptVars>>

\* One record redone when its page is older than it.
RedoStep ==
    /\ mode = "redo" /\ redo <= Len(log)
    /\ LET r == log[redo]
       IN  mem' = IF Has(redo, {"Update", "Clr"}) /\ mem[r.page].lsn < redo
                  THEN [mem EXCEPT ![r.page] = Stamped(@, r.slot, r.after, redo)]
                  ELSE mem
    /\ redo' = redo + 1
    /\ UNCHANGED <<logVars, disk, txnVars, mode, losers, turn, crashes, ckptVars>>

RedoDone ==
    /\ mode = "redo" /\ redo > Len(log)
    /\ mode' = "undo" /\ redo' = 0
    /\ UNCHANGED <<logVars, pageVars, txnVars, losers, turn, crashes, ckptVars>>

\* The next loser to undo, in the order of a hash table: any.
UndoLoser(t) ==
    /\ mode = "undo"
    /\ turn = None /\ t \in losers
    /\ turn' = {t}
    /\ UNCHANGED <<logVars, pageVars, txnVars, mode, losers, redo, crashes, ckptVars>>

\* The log, then every page, is flushed and the engine opens.
RecoverFinish ==
    /\ mode = "undo" /\ losers = {}
    /\ durable' = Len(log)
    /\ disk' = [p \in Page |-> [img |-> mem[p].img, lsn |-> mem[p].lsn]]
    /\ mem' = [p \in Page |-> [mem[p] EXCEPT !.since = 0]]
    /\ mode' = "run"
    /\ UNCHANGED <<log, base, txnVars, losers, turn, redo, crashes, ckptVars>>

-----------------------------------------------------------------------------

Fresh(img) == [p \in Page |-> [img |-> img, lsn |-> 0]]

Init ==
    /\ log = <<>> /\ durable = 0 /\ base = 1
    /\ disk = Fresh([s \in Slot |-> 0])
    /\ mem = Loaded
    /\ mode = "run"
    /\ active = {} /\ aborting = {} /\ committing = None
    /\ window = NoWindow /\ cursor = NoCursor /\ locks = NoLocks
    /\ ckpt = Idle /\ pending = {}
    /\ losers = {} /\ turn = None /\ redo = 0
    /\ begun = 0 /\ acked = {} /\ ckpts = 0 /\ crashes = 0

\* Every transaction allowed has begun and ended.
Quiescent ==
    /\ mode = "run" /\ begun = MaxTxns /\ active = {} /\ ckpt = Idle
    /\ UNCHANGED vars

Undo(t) == UndoAppend(t) \/ UndoEnd(t)

Recover ==
    \/ Analyze \/ RedoStep \/ RedoDone \/ RecoverFinish
    \/ \E t \in losers : UndoLoser(t)
    \/ \E t \in losers : Undo(t) \/ Apply(t)

Next ==
    \/ \E t \in Txn : \/ Begin(t) \/ CommitAppend(t) \/ CommitFinish(t)
                      \/ BeginAbort(t) \/ FinishAbort(t)
                      \/ \E c \in Cell : WriteAppend(t, c)
    \/ \E t \in aborting : Undo(t)
    \/ \E t \in AnyTxn \ losers : Apply(t)
    \/ \E p \in Page : FlushPage(p)
    \/ CkptBegin \/ CkptEnd \/ CkptHeader \/ CkptCommit \/ CkptFinish
    \/ Crash
    \/ Recover
    \/ Quiescent

Spec == Init /\ [][Next]_vars

\* Recovery runs alone, on the thread that opens the database.
FairSpec == Spec /\ WF_vars(Recover)

-----------------------------------------------------------------------------
(* Properties. *)

Record == [kind : STRING, txn : 0..CHECKPOINT_TXN]

\* Every LSN kept anywhere is one of the log, and every table names known transactions.
TypeOK ==
    /\ \A i \in Lsns : [kind |-> log[i].kind, txn |-> log[i].txn] \in Record
    /\ durable \in 0..Len(log) /\ base \in 1..(Len(log) + 1)
    /\ disk \in [Page -> [img : [Slot -> 0..Len(log)], lsn : 0..Len(log)]]
    /\ mem \in [Page -> [img : [Slot -> 0..Len(log)], lsn : 0..Len(log), since : 0..Len(log)]]
    /\ mode \in {"run", "analysis", "redo", "undo"}
    /\ active \subseteq Txn /\ aborting \subseteq active
    /\ committing \in SUBSET active /\ Cardinality(committing) <= 1
    /\ \A t \in AnyTxn : window[t] = None \/ \E w \in [page : Page, slot : Slot,
                                     val : 0..Len(log), lsn : Lsns] : window[t] = {w}
    /\ cursor \in [AnyTxn -> 0..Len(log)]
    /\ locks \in [Cell -> SUBSET active]
    /\ losers \subseteq AnyTxn /\ turn \in SUBSET losers /\ redo \in 0..(Len(log) + 1)
    /\ begun \in 0..MaxTxns /\ acked \subseteq 1..begun
    /\ ckpts \in 0..MaxCkpts /\ crashes \in 0..MaxCrashes

Committed == {log[i].txn : i \in {j \in Lsns : Has(j, {"Commit"})}}

LastOf(S) == IF S = {} THEN 0 ELSE CHOOSE i \in S : \A j \in S : j <= i

ChangesTo(p, s, kinds) ==
    {i \in Lsns : Has(i, kinds) /\ log[i].page = p /\ log[i].slot = s}

\* Durability and atomicity, across any number of crashes: once the engine is open, a
\* slot no running transaction has locked holds the last committed write to it: no
\* committed write is lost and no write of a rolled-back or crashed transaction is left.
CommittedState ==
    mode = "run" =>
        \A c \in Cell : locks[c] = None =>
            mem[c[1]].img[c[2]] =
                LastOf({i \in ChangesTo(c[1], c[2], {"Update"}) : log[i].txn \in Committed})

\* The two rules of write-ahead logging.  No page on disk holds a change, or a page_lsn,
\* whose log record is not on disk (flushing a page flushes the log up to its page_lsn
\* first); and a commit that has returned to the client has its record on disk, so that
\* it survives every later crash (commit flushes the log before it ends the transaction).
WriteAheadRule ==
    /\ TypeOK
    /\ \A p \in Page : disk[p].lsn <= durable /\ \A s \in Slot : disk[p].img[s] <= durable
    /\ \A t \in acked : \E i \in 1..durable : Has(i, {"Commit"}) /\ log[i].txn = t

\* Truncation removes nothing a restart needs: a removed change is on the disk's page,
\* its transaction has ended in the durable log, and the checkpoint the header on disk
\* names is still there.
TruncationSafe ==
    /\ \A i \in 1..(base - 1) :
         /\ Has(i, {"Update", "Clr"}) => disk[log[i].page].lsn >= i
         /\ log[i].txn \in AnyTxn =>
              \E j \in 1..durable : Has(j, {"End", "Commit"}) /\ log[j].txn = log[i].txn
    /\ base = 1 \/ disk[0].img[1] >= base

\* A change is compensated at most once, however often rollback is interrupted by a
\* crash and started again, and the changes of a committed transaction never are.
CompensatedOnce ==
    \A i \in Lsns : Has(i, {"Clr"}) =>
        /\ log[i].txn \notin Committed \ {HeaderTxn}
        /\ \A j \in Lsns : Has(j, {"Clr"}) /\ log[j].undo_next = log[i].undo_next => i = j

\* A restart always ends with the engine open.
RecoveryCompletes == mode # "run" ~> mode = "run"
=============================================================================

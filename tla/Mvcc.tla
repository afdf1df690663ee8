-------------------------------- MODULE Mvcc --------------------------------
(***************************************************************************)
(* Multi-version reads over two-phase-locked inserts: the transaction      *)
(* manager, the version store, a table heap with one index, and the scan   *)
(* and insert executors, interleaved at the mutexes and page latches the   *)
(* code takes.  The table's exclusive lock is a variable here; LockManager *)
(* models how it is granted.                                               *)
(*                                                                         *)
(* A session runs one statement at a time, so a transaction is one thread. *)
(* The transaction manager's mutex is held from the start of a commit or   *)
(* finish_abort to its end, but the readers' visibility checks take only   *)
(* the version store's mutex and fall between its steps.                   *)
(***************************************************************************)
EXTENDS Naturals, Sequences, FiniteSets

CONSTANTS
    MaxTxns,     \* bound on the transactions begun
    MaxRows,     \* bound on the rows a transaction inserts
    Limits,      \* the instances explored: the transactions, the rows of each, and
                 \* whether a page access during a rollback can return an error
    MaxPages,    \* bound on the heap pages allocated
    PageCap,     \* the most rows that fit in a page
    CommitAfterFailedUndo, \* whether a client commits after such an error
    RepeatAborts \* whether a row id may be rolled back again while it awaits pruning

ASSUME MvccAssumption ==
    /\ {MaxTxns, MaxRows} \subseteq Nat /\ MaxPages \in Nat \ {0} /\ PageCap \in Nat
    /\ {CommitAfterFailedUndo, RepeatAborts} \subseteq BOOLEAN
    /\ Limits \subseteq [txns : 0..MaxTxns, rows : 0..MaxRows, undoFails : BOOLEAN]

VARIABLES
    limits,                \* the member of Limits this behaviour keeps to
    next_txn_id, next_ts,  \* TransactionManager's counters
    active,                \* TransactionManager.active
    aborting,              \* the active transactions whose state is Aborted
    read_ts,               \* Transaction.read_ts
    chained, chains,       \* StoreState.chains: its keys, and the chains
    write_sets,            \* StoreState.write_sets
    prune_candidates,      \* StoreState.prune_candidates as <<timestamp, rid>> pairs
    page, link,            \* per heap page, its slots and its next_page_id
    pages,                 \* heap pages allocated so far
    index,                 \* the entries of the table's index
    undo,                  \* per transaction, its updates that are not undone yet
    table_lock,            \* the holder of the table's exclusive lock
    pc, cur,               \* per transaction, where its statement is and its cursor
    inserted,              \* per transaction, the rows inserted so far
    out,                   \* per transaction, the rows its running scan has produced
    failed,                \* sessions whose slot is Aborted(txn)
    half_undone,           \* the transactions with an undo that returned an error
    result,                \* per transaction, what its last SELECT returned
    ending                 \* <<phase, txn>> while the manager's mutex is held to end txn

tmVars    == <<limits, next_txn_id, next_ts, active, aborting, read_ts, ending>>
storeVars == <<chained, chains, write_sets, prune_candidates>>
dataVars  == <<page, link, pages, index, undo, table_lock>>
stmtVars  == <<pc, cur, inserted, out, failed, half_undone, result>>
vars      == <<tmVars, storeVars, dataVars, stmtVars>>

Txn  == 1..MaxTxns
Page == 1..MaxPages
Rid  == Page \X (1..PageCap)
Row  == Txn \X (1..MaxRows)    \* a row is named by its inserter and a count
None == {}                     \* an absent option; a present one is a singleton
NoPage == 0                    \* NO_NEXT_PAGE
FirstPage == 1

\* Later transactions insert smaller keys, so that their index entries fall on
\* both sides of a running scan's position.
Key(row) == MaxTxns - row[1]

EntryOf(row, rid) == [key |-> Key(row), rid |-> rid]

\* sort_key order: by key, then by rid.
Before(d, e) ==
    \/ d.key < e.key
    \/ d.key = e.key /\ d.rid[1] < e.rid[1]
    \/ d.key = e.key /\ d.rid[1] = e.rid[1] /\ d.rid[2] < e.rid[2]

-----------------------------------------------------------------------------
(* Version chains, newest version first.  end_ts is never set by the code  *)
(* at hand (there is no DELETE), so a version is its creator and begin_ts. *)

Version == [creator : Txn, begin_ts : SUBSET Nat]

is_globally_visible(v, ts) == \E b \in v.begin_ts : b <= ts

\* Mutant of visible_version_for: a transaction does not see its own versions.
VisibleIfCommitted(chain, t, ts) ==
    \E i \in 1..Len(chain) : is_globally_visible(chain[i], ts)

visible_version_for(chain, t, ts) ==
    \E i \in 1..Len(chain) :
        chain[i].creator = t \/ is_globally_visible(chain[i], ts)

\* A row id without a chain is visible to everyone.
is_visible_to(rid, t, ts) == rid \in chained => visible_version_for(chains[rid], t, ts)

mark_committed(chain, t, ts) ==
    [i \in 1..Len(chain) |->
        IF chain[i].creator = t THEN [chain[i] EXCEPT !.begin_ts = {ts}] ELSE chain[i]]

remove_creator(chain, t) == SelectSeq(chain, LAMBDA v : v.creator # t)

is_prunable(chain, watermark) ==
    chain # <<>> => is_globally_visible(Head(chain), watermark)

record_insert(t, rid) ==
    /\ chained' = chained \cup {rid}
    /\ chains' = [chains EXCEPT ![rid] = <<[creator |-> t, begin_ts |-> None]>> \o @]
    /\ write_sets' = [write_sets EXCEPT ![t] = @ \cup {rid}]
    /\ UNCHANGED prune_candidates

commit_versions(t, ts) ==
    /\ chains' = [r \in Rid |-> IF r \in write_sets[t] \cap chained
                                THEN mark_committed(chains[r], t, ts) ELSE chains[r]]
    /\ prune_candidates' = prune_candidates \cup ({ts} \X write_sets[t])
    /\ write_sets' = [write_sets EXCEPT ![t] = {}]
    /\ UNCHANGED chained

abort_versions(t, ts) ==
    LET left(r)  == remove_creator(chains[r], t)
        emptied == {r \in write_sets[t] \cap chained : left(r) = <<>>}
    IN  /\ chains' = [r \in Rid |-> IF r \in write_sets[t] \cap chained
                                    THEN left(r) ELSE chains[r]]
        /\ prune_candidates' = prune_candidates \cup ({ts} \X emptied)
        /\ write_sets' = [write_sets EXCEPT ![t] = {}]
        /\ UNCHANGED chained

\* Mutant of prune: a candidate stamped with the watermark itself is kept, and lost.
PruneBelow(watermark) ==
    LET due     == {c \in prune_candidates : c[1] < watermark}
        dropped == {r \in chained : is_prunable(chains[r], watermark)
                                    /\ \E c \in due : c[2] = r}
    IN  /\ prune_candidates' = prune_candidates \ due
        /\ chained' = chained \ dropped
        /\ chains' = [r \in Rid |-> IF r \in dropped THEN <<>> ELSE chains[r]]
        /\ UNCHANGED write_sets

prune(watermark) ==
    LET due     == {c \in prune_candidates : c[1] <= watermark}
        dropped == {r \in chained : is_prunable(chains[r], watermark)
                                    /\ \E c \in due : c[2] = r}
    IN  /\ prune_candidates' = prune_candidates \ due
        /\ chained' = chained \ dropped
        /\ chains' = [r \in Rid |-> IF r \in dropped THEN <<>> ELSE chains[r]]
        /\ UNCHANGED write_sets

oldest_active_read_ts ==
    IF active = {} THEN next_ts
    ELSE CHOOSE ts \in {read_ts[t] : t \in active} : \A u \in active : ts <= read_ts[u]

-----------------------------------------------------------------------------
(* Transactions. *)

Idle(t) == t \in active /\ pc[t] = "idle"

\* A session may run another statement unless its slot is Aborted.
MayRun(t) == Idle(t) /\ t \notin failed

Begin ==
    /\ ending = None
    /\ next_txn_id <= limits.txns
    /\ next_txn_id' = next_txn_id + 1
    /\ next_ts' = next_ts + 1
    /\ active' = active \cup {next_txn_id}
    /\ read_ts' = [read_ts EXCEPT ![next_txn_id] = next_ts]
    /\ UNCHANGED <<limits, aborting, ending, storeVars, dataVars, stmtVars>>

\* commit, up to the removal from the active set.  A commit whose log flush fails
\* returns before any of this and leaves the transaction as it was.
Commit(t) ==
    /\ ending = None
    /\ MayRun(t)
    /\ CommitAfterFailedUndo \/ t \notin half_undone
    /\ next_ts' = next_ts + 1
    /\ commit_versions(t, next_ts)
    /\ active' = active \ {t}
    /\ result' = [result EXCEPT ![t] = {}]
    /\ undo' = [undo EXCEPT ![t] = <<>>]
    /\ ending' = {<<"prune", t>>}
    /\ UNCHANGED <<limits, next_txn_id, aborting, read_ts, page, link, pages, index, table_lock,
                   pc, cur, inserted, out, failed, half_undone>>

\* ROLLBACK, or the abort that follows a statement that returned an error.
BeginAbort(t) ==
    /\ ending = None
    /\ t \in active \ aborting
    /\ pc[t] \in {"idle", "place", "index", "corrupt"}
    /\ RepeatAborts \/ \A c \in prune_candidates : c[2] \notin write_sets[t]
    /\ aborting' = aborting \cup {t}
    /\ failed' = IF pc[t] = "idle" THEN failed ELSE failed \cup {t}
    /\ pc' = [pc EXCEPT ![t] = "undo"]
    /\ result' = [result EXCEPT ![t] = {}]
    /\ UNCHANGED <<limits, next_txn_id, next_ts, active, read_ts, ending, storeVars, dataVars,
                   cur, inserted, out, half_undone>>

\* Mutant of UndoStep: index entries are left in place.
UndoKeepsEntries(t) ==
    /\ pc[t] = "undo"
    /\ undo[t] # <<>>
    /\ LET op == undo[t][Len(undo[t])]
       IN  /\ page' = IF op[1] = "slot"
                      THEN [page EXCEPT ![op[2]] = SubSeq(@, 1, Len(@) - 1)] ELSE page
           /\ link' = IF op[1] = "link" THEN [link EXCEPT ![op[2]] = NoPage] ELSE link
    /\ undo' = [undo EXCEPT ![t] = SubSeq(@, 1, Len(@) - 1)]
    /\ UNCHANGED <<tmVars, storeVars, pages, index, table_lock, stmtVars>>

\* One update undone, under its page's latch and without the manager's mutex.
UndoStep(t) ==
    /\ pc[t] = "undo"
    /\ undo[t] # <<>>
    /\ LET op == undo[t][Len(undo[t])]
       IN  /\ page' = IF op[1] = "slot"
                      THEN [page EXCEPT ![op[2]] = SubSeq(@, 1, Len(@) - 1)] ELSE page
           /\ link' = IF op[1] = "link" THEN [link EXCEPT ![op[2]] = NoPage] ELSE link
           /\ index' = IF op[1] = "entry" THEN index \ {op[2]} ELSE index
    /\ undo' = [undo EXCEPT ![t] = SubSeq(@, 1, Len(@) - 1)]
    /\ UNCHANGED <<tmVars, storeVars, pages, table_lock, stmtVars>>

\* cancel_abort: the undo returned an error, and the transaction is Growing again.
CancelAbort(t) ==
    /\ limits.undoFails
    /\ ending = None
    /\ pc[t] = "undo" /\ undo[t] # <<>>
    /\ aborting' = aborting \ {t}
    /\ pc' = [pc EXCEPT ![t] = "idle"]
    /\ half_undone' = half_undone \cup {t}
    /\ UNCHANGED <<limits, next_txn_id, next_ts, active, read_ts, ending, storeVars, dataVars,
                   cur, inserted, out, failed, result>>

\* Mutant of FinishAbort: the undo stops one update short.
FinishAbortEarly(t) ==
    /\ ending = None
    /\ pc[t] = "undo" /\ Len(undo[t]) <= 1
    /\ active' = active \ {t}
    /\ aborting' = aborting \ {t}
    /\ abort_versions(t, next_ts)
    /\ pc' = [pc EXCEPT ![t] = "idle"]
    /\ ending' = {<<"prune", t>>}
    /\ UNCHANGED <<limits, next_txn_id, next_ts, read_ts, dataVars, cur, inserted, out, failed, half_undone, result>>

\* finish_abort, up to abort_versions.
FinishAbort(t) ==
    /\ ending = None
    /\ pc[t] = "undo" /\ undo[t] = <<>>
    /\ active' = active \ {t}
    /\ aborting' = aborting \ {t}
    /\ abort_versions(t, next_ts)
    /\ pc' = [pc EXCEPT ![t] = "idle"]
    /\ ending' = {<<"prune", t>>}
    /\ UNCHANGED <<limits, next_txn_id, next_ts, read_ts, dataVars, cur, inserted, out, failed, half_undone, result>>

\* The rest of commit and of finish_abort: prune the chains, then release the locks.
EndPrune ==
    /\ \E t \in Txn : ending = {<<"prune", t>>} /\ ending' = {<<"release", t>>}
    /\ prune(oldest_active_read_ts)
    /\ UNCHANGED <<limits, next_txn_id, next_ts, active, aborting, read_ts, dataVars, stmtVars>>

EndRelease ==
    /\ \E t \in Txn : ending = {<<"release", t>>} /\ table_lock' = table_lock \ {t}
    /\ ending' = None
    /\ UNCHANGED <<limits, next_txn_id, next_ts, active, aborting, read_ts, storeVars,
                   page, link, pages, index, undo, stmtVars>>

-----------------------------------------------------------------------------
(* INSERT: the table lock, then the first page of the chain with room (row *)
(* sizes differ, so a page that is not empty may be too full for this      *)
(* row), then the index.  The version is recorded under the page's latch.  *)

InsertLock(t) ==
    /\ MayRun(t)
    /\ inserted[t] < limits.rows
    /\ table_lock \subseteq {t}
    /\ table_lock' = {t}
    /\ pc' = [pc EXCEPT ![t] = "place"]
    /\ cur' = [cur EXCEPT ![t] = <<FirstPage>>]
    /\ UNCHANGED <<tmVars, storeVars, page, link, pages, index, undo,
                   inserted, out, failed, half_undone, result>>

InsertPlace(t) ==
    LET p   == cur[t][1]
        row == <<t, inserted[t] + 1>>
        rid == <<p, Len(page[p]) + 1>>
    IN  /\ pc[t] = "place"
        /\ Len(page[p]) < PageCap
        /\ page' = [page EXCEPT ![p] = Append(@, row)]
        /\ record_insert(t, rid)
        /\ undo' = [undo EXCEPT ![t] = Append(@, <<"slot", p>>)]
        /\ inserted' = [inserted EXCEPT ![t] = @ + 1]
        /\ pc' = [pc EXCEPT ![t] = "index"]
        /\ cur' = [cur EXCEPT ![t] = <<EntryOf(row, rid)>>]
        /\ UNCHANGED <<tmVars, link, pages, index, table_lock, out, failed, half_undone, result>>

InsertNextPage(t) ==
    LET p == cur[t][1]
    IN  /\ pc[t] = "place"
        /\ page[p] # <<>>
        /\ link[p] # NoPage
        /\ cur' = [cur EXCEPT ![t] = <<link[p]>>]
        /\ UNCHANGED <<tmVars, storeVars, dataVars, pc, inserted, out, failed, half_undone, result>>

\* append_page_after: allocation is never undone, the link is.
InsertAppendPage(t) ==
    LET p == cur[t][1]
    IN  /\ pc[t] = "place"
        /\ page[p] # <<>>
        /\ link[p] = NoPage
        /\ pages < MaxPages
        /\ pages' = pages + 1
        /\ link' = [link EXCEPT ![p] = pages + 1]
        /\ undo' = [undo EXCEPT ![t] = Append(@, <<"link", p>>)]
        /\ cur' = [cur EXCEPT ![t] = <<pages + 1>>]
        /\ UNCHANGED <<tmVars, storeVars, page, index, table_lock,
                       pc, inserted, out, failed, half_undone, result>>

InsertIndex(t) ==
    /\ pc[t] = "index"
    /\ index' = index \cup {cur[t][1]}
    /\ undo' = [undo EXCEPT ![t] = Append(@, <<"entry", cur[t][1]>>)]
    /\ pc' = [pc EXCEPT ![t] = "idle"]
    /\ cur' = [cur EXCEPT ![t] = <<>>]
    /\ UNCHANGED <<tmVars, storeVars, page, link, pages, table_lock,
                   inserted, out, failed, half_undone, result>>
-----------------------------------------------------------------------------
(* SELECT by table scan: copy a tuple out under the page latch, then ask   *)
(* the version store; by index scan: an entry under the leaf's latch, then *)
(* the version store, then the tuple under the page latch.                 *)

SelectStart(t, how, at) ==
    /\ MayRun(t)
    /\ pc' = [pc EXCEPT ![t] = how]
    /\ cur' = [cur EXCEPT ![t] = at]
    /\ out' = [out EXCEPT ![t] = <<>>]
    /\ UNCHANGED <<tmVars, storeVars, dataVars, inserted, failed, half_undone, result>>

SeqStart(t)   == SelectStart(t, "seq", <<FirstPage, 1>>)
IndexStart(t) == SelectStart(t, "idx", <<>>)

SelectEnd(t) ==
    /\ result' = [result EXCEPT ![t] = {out[t][i] : i \in 1..Len(out[t])}]
    /\ pc' = [pc EXCEPT ![t] = "idle"]
    /\ cur' = [cur EXCEPT ![t] = <<>>]
    /\ UNCHANGED <<tmVars, storeVars, dataVars, inserted, out, failed, half_undone>>

\* The statement moves on to another point of its loop; no row is produced.
Advance(t, where, at) ==
    /\ pc' = [pc EXCEPT ![t] = where]
    /\ cur' = [cur EXCEPT ![t] = at]
    /\ UNCHANGED <<tmVars, storeVars, dataVars, inserted, out, failed, half_undone, result>>

Produce(t, row, where, at) ==
    /\ out' = [out EXCEPT ![t] = Append(@, row)]
    /\ pc' = [pc EXCEPT ![t] = where]
    /\ cur' = [cur EXCEPT ![t] = at]
    /\ UNCHANGED <<tmVars, storeVars, dataVars, inserted, failed, half_undone, result>>

SeqRead(t) ==
    LET p == cur[t][1]
        s == cur[t][2]
    IN  /\ pc[t] = "seq"
        /\ \/ s <= Len(page[p]) /\ Advance(t, "seqcheck", <<p, s, page[p][s]>>)
           \/ s > Len(page[p]) /\ link[p] # NoPage /\ Advance(t, "seq", <<link[p], 1>>)
           \/ s > Len(page[p]) /\ link[p] = NoPage /\ SelectEnd(t)

SeqCheck(t) ==
    LET rid  == <<cur[t][1], cur[t][2]>>
        next == <<cur[t][1], cur[t][2] + 1>>
    IN  /\ pc[t] = "seqcheck"
        /\ IF is_visible_to(rid, t, read_ts[t])
           THEN Produce(t, cur[t][3], "seq", next)
           ELSE Advance(t, "seq", next)

IndexRead(t) ==
    LET ahead == {e \in index : \A i \in 1..Len(cur[t]) : Before(cur[t][i], e)}
    IN  /\ pc[t] = "idx"
        /\ \/ ahead = {} /\ SelectEnd(t)
           \/ \E e \in ahead : /\ \A d \in ahead : d = e \/ Before(e, d)
                               /\ Advance(t, "idxcheck", <<e>>)

IndexCheck(t) ==
    /\ pc[t] = "idxcheck"
    /\ IF is_visible_to(cur[t][1].rid, t, read_ts[t])
       THEN Advance(t, "idxget", cur[t])
       ELSE Advance(t, "idx", cur[t])

IndexGet(t) ==
    LET rid == cur[t][1].rid
    IN  /\ pc[t] = "idxget"
        /\ IF rid[2] <= Len(page[rid[1]])
           THEN Produce(t, page[rid[1]][rid[2]], "idx", cur[t])
           ELSE Advance(t, "corrupt", cur[t])

-----------------------------------------------------------------------------
Init ==
    /\ limits \in Limits
    /\ next_txn_id = 1 /\ next_ts = 0
    /\ active = {} /\ aborting = {}
    /\ read_ts = [t \in Txn |-> 0]
    /\ ending = None
    /\ chained = {} /\ chains = [r \in Rid |-> <<>>]
    /\ write_sets = [t \in Txn |-> {}]
    /\ prune_candidates = {}
    /\ page = [p \in Page |-> <<>>] /\ link = [p \in Page |-> NoPage]
    /\ pages = 1
    /\ index = {}
    /\ undo = [t \in Txn |-> <<>>]
    /\ table_lock = None
    /\ pc = [t \in Txn |-> "idle"] /\ cur = [t \in Txn |-> <<>>]
    /\ inserted = [t \in Txn |-> 0]
    /\ out = [t \in Txn |-> <<>>]
    /\ failed = {} /\ half_undone = {}
    /\ result = [t \in Txn |-> {}]

\* The bounds are used up: every transaction has ended, or an insert needs a page
\* beyond MaxPages.
Quiescent ==
    /\ \/ next_txn_id > limits.txns /\ active = {} /\ ending = None
       \/ pages = MaxPages /\ \E t \in Txn : pc[t] = "place" /\ link[cur[t][1]] = NoPage
    /\ UNCHANGED vars

Step(t) ==
    \/ Commit(t) \/ BeginAbort(t) \/ UndoStep(t) \/ CancelAbort(t) \/ FinishAbort(t)
    \/ InsertLock(t) \/ InsertPlace(t) \/ InsertNextPage(t) \/ InsertAppendPage(t)
    \/ InsertIndex(t)
    \/ SeqStart(t) \/ SeqRead(t) \/ SeqCheck(t)
    \/ IndexStart(t) \/ IndexRead(t) \/ IndexCheck(t) \/ IndexGet(t)

Next ==
    \/ Begin
    \/ \E t \in Txn : Step(t)
    \/ EndPrune
    \/ EndRelease
    \/ Quiescent

Spec == Init /\ [][Next]_vars

-----------------------------------------------------------------------------
(* The mapping to SnapshotIsolation.  Nothing is recorded on the side: the *)
(* abstract state is read off the heap, the chains and the timestamps.     *)

\* Where the rows of the table are, and which of them are committed.
Located == {r \in Rid : r[2] <= Len(page[r[1]])}
RowAt(r) == page[r[1]][r[2]]
CommittedBy(r, ts) ==
    r \in chained => \E i \in 1..Len(chains[r]) : is_globally_visible(chains[r][i], ts)

\* A transaction has left the abstract system once its rollback has begun, and a
\* rollback that fails does not bring it back: of what it reads before the retry
\* nothing is promised.
Running == active \ (aborting \cup half_undone)
CommittedRows(ts) == {RowAt(r) : r \in {q \in Located : CommittedBy(q, ts)}}
OwnRows(t) == {RowAt(r) : r \in {q \in Located : RowAt(q)[1] = t}}

SI == INSTANCE SnapshotIsolation WITH
    running   <- Running,
    committed <- CommittedRows(next_ts),
    snapshot  <- [t \in Txn |-> IF t \in Running THEN CommittedRows(read_ts[t]) ELSE {}],
    own       <- [t \in Txn |-> IF t \in Running THEN OwnRows(t) ELSE {}],
    reply     <- [t \in Txn |-> IF t \in Running THEN result[t] ELSE {}]

-----------------------------------------------------------------------------
(* Properties. *)

\* Every variable stays in its type; a cursor is as long as its statement's
\* position needs.
TypeOK ==
    /\ limits \in Limits
    /\ next_txn_id \in 1..MaxTxns + 1 /\ next_ts \in Nat
    /\ aborting \subseteq active /\ active \subseteq Txn /\ failed \subseteq Txn
    /\ half_undone \subseteq Txn
    /\ read_ts \in [Txn -> Nat]
    /\ ending \in {None} \cup {{<<ph, t>>} : ph \in {"prune", "release"}, t \in Txn}
    /\ chained \subseteq Rid /\ DOMAIN chains = Rid
    /\ \A r \in Rid : \A i \in 1..Len(chains[r]) : chains[r][i] \in Version
    /\ write_sets \in [Txn -> SUBSET Rid]
    /\ \A c \in prune_candidates : c[1] \in Nat /\ c[2] \in Rid
    /\ DOMAIN page = Page /\ link \in [Page -> Page \cup {NoPage}] /\ pages \in Page
    /\ \A p \in Page : Len(page[p]) <= PageCap /\ \A i \in 1..Len(page[p]) : page[p][i] \in Row
    /\ \A e \in index : e.rid \in Rid
    /\ table_lock \in {None} \cup {{t} : t \in Txn}
    /\ inserted \in [Txn -> 0..MaxRows]
    /\ result \in [Txn -> SUBSET Row]
    /\ \A t \in Txn : Len(cur[t]) = CASE pc[t] = "seqcheck" -> 3
                                      [] pc[t] = "seq" -> 2
                                      [] pc[t] \in {"place", "index", "idxcheck", "idxget"} -> 1
                                      [] OTHER -> Len(cur[t])

\* The whole stack gives snapshot isolation: reads return exactly the rows
\* committed before begin plus the transaction's own, whatever commits, aborts,
\* prunes and reuses row ids between the copy of a tuple and its visibility check.
ImplementsSnapshotIsolation == SI!SISpec

\* Memory is reclaimed: with no transaction active the store holds no chain, no
\* write set and no prune candidate, whatever mix of commits and aborts led there.
ChainsReclaimed ==
    (active = {} /\ ending = None) =>
        chained = {} /\ prune_candidates = {} /\ \A t \in Txn : write_sets[t] = {}

\* The heap and the index agree on the rows of every transaction that is between
\* statements: each row has exactly one entry and each entry leads to its row.  And
\* an index scan never meets a visible entry whose heap row is missing
\* (IndexScanExecutor::next's CorruptTuple), although the check and the read of the
\* heap are not atomic and a rollback removes rows in between.
IndexAgrees ==
    /\ TypeOK
    /\ \A t \in Txn : pc[t] # "corrupt"
    /\ (half_undone \cap active = {} /\ \A t \in Txn : pc[t] \notin {"index", "undo"}) =>
         index = {EntryOf(RowAt(r), r) : r \in Located}

\* A transaction's writes are all-or-nothing: once it has ended, by COMMIT or by a
\* ROLLBACK that may have failed and been retried, the table holds all of its rows
\* or none.
AllOrNothing ==
    \A t \in Txn :
        (t < next_txn_id /\ t \notin active) =>
            LET kept == {n \in 1..inserted[t] : \E r \in Located : RowAt(r) = <<t, n>>}
            IN  kept = {} \/ kept = 1..inserted[t]
=============================================================================

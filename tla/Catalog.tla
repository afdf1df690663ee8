------------------------------ MODULE Catalog -------------------------------
(* The catalog (catalog/src/catalog.rs) on its two heaps of slotted pages    *)
(* (storage/src/heap.rs), shared by the sessions: CREATE TABLE, CREATE INDEX *)
(* on one table, INSERT into it with the index roots it moves, COMMIT, and   *)
(* ROLLBACK, which restores before-images record by record and then reloads  *)
(* the catalog.  Each step is what a session does under one page latch.      *)
(*                                                                           *)
(* Rows of a heap have one size, so a page has room for PageSlots of them    *)
(* and its data_used follows from its slot count.  A B+tree (module BTree)   *)
(* is the set of rows it leads to from a root.  Waiting for locks is in      *)
(* module LockManager, failing undo in Mvcc and Engine.                      *)
EXTENDS Naturals, FiniteSetsExt, SequencesExt

CONSTANTS
    Txns,           \* transactions, each of a session of its own
    TableNames,     \* names for CREATE TABLE
    IndexNames,     \* names for CREATE INDEX
    PageSlots,      \* rows a heap page has room for
    MaxStatements,  \* bound: statements of all transactions
    MaxPages,       \* bound: heap pages
    MaxRoots,       \* bound: root pages of B+trees
    MaxRows,        \* bound: rows of the table
    Races           \* what a run lets overlap with a rollback, see MayStart, MayUndo

ASSUME CatalogAssumption ==
    /\ {PageSlots, MaxStatements, MaxPages, MaxRoots, MaxRows} \subseteq Nat
    /\ Races \subseteq {"shared heap", "stale cache"}

VARIABLES
    pages,      \* the catalog's heap pages; page 0 is the header
    header,     \* page 0: the first page of each heap, 0 for none
    rows,       \* the rows of the table
    trees,      \* what each root leads to; a page of zeroes is an empty leaf
    roots,      \* root pages allocated so far; none is used again
    cache,      \* CatalogState
    mutation,   \* Catalog.mutation: its holder
    lock,       \* the holder of the table's exclusive lock
    txn,        \* the transactions
    op          \* what each session is doing

store == <<pages, header, rows, trees, roots>>
vars == <<store, cache, mutation, lock, txn, op>>

Heaps == {"tables", "indexes"}
Row(n, id, root) == [name |-> n, id |-> id, root |-> root]
EmptyPage == [slot |-> [i \in 1 .. PageSlots |-> {}], count |-> 0, next |-> 0]
The(option) == CHOOSE x \in option : TRUE

Idle == [pc |-> "idle"]
NewTxn == [status |-> "new", undo |-> <<>>, made |-> {}, statements |-> 0,
           moved |-> FALSE, overtaken |-> FALSE]

(* insert_table and insert_index.                                            *)
Cached(c, h, r, rid) ==
    [c EXCEPT !.rows[h] = {x \in @ : x.row.name # r.name} \cup {[row |-> r, rid |-> rid]},
              !.next[h] = Max({@, r.id + 1})]

NoCache == [rows |-> [h \in Heaps |-> {}], next |-> [h \in Heaps |-> 0],
            first |-> [h \in Heaps |-> 0]]

(* A new database after Catalog::open, which makes the heap of the tables.   *)
(* The table of the INSERTs is in none of the pages: it was created before.  *)
Init ==
    /\ pages = <<EmptyPage>>
    /\ header = [tables |-> 1, indexes |-> 0]
    /\ rows = {} /\ roots = 0 /\ trees = [r \in 1 .. MaxRoots |-> {}]
    /\ cache = [NoCache EXCEPT !.first["tables"] = 1]
    /\ mutation = {} /\ lock = {}
    /\ txn = [t \in Txns |-> NewTxn]
    /\ op = [t \in Txns |-> Idle]

-----------------------------------------------------------------------------
(* Logged writes: each appends its before-image to the transaction's records.*)

Rec(part, at, before) == [part |-> part, at |-> at, before |-> before]

Log(t, recs) == [txn EXCEPT ![t].undo = @ \o recs]

Finish(t) == op' = [op EXCEPT ![t] = Idle]

(* A statement that returns an error: nothing but ROLLBACK may follow.       *)
Fail(t) ==
    /\ Finish(t)
    /\ mutation' = mutation \ {t}
    /\ txn' = [txn EXCEPT ![t].status = "failed"]
    /\ UNCHANGED <<store, cache, lock>>

(* Has t changed what is cached?                                             *)
Changed(t) == txn[t].made # {} \/ txn[t].moved

(* In the passing run no statement starts while rows of a heap are undone,   *)
(* nor between the end of an undo, which frees the locks, and its reload.    *)
MayStart(t) ==
    /\ op[t] = Idle /\ txn[t].status \in {"new", "active"}
    /\ SumFunction([u \in Txns |-> txn[u].statements]) < MaxStatements
    /\ \A u \in Txns :
        /\ txn[u].status = "undo" /\ txn[u].made # {} => "shared heap" \in Races
        /\ txn[u].status = "reload" /\ Changed(u) => "stale cache" \in Races

Started(t) == [txn EXCEPT ![t].status = "active", ![t].statements = @ + 1]

-----------------------------------------------------------------------------
(* CREATE TABLE: create_table holds the mutation lock from the duplicate     *)
(* check to the change of the cached state.                                  *)

(* Mutant of Taken: the check is left to the binder, which has no lock.      *)
NeverTaken(h, n) == FALSE
Taken(h, n) == \E x \in cache.rows[h] : x.row.name = n

Insertion(h, n, root) ==
    [pc |-> "heap", heap |-> h, row |-> Row(n, cache.next[h], root), page |-> 0, new |-> 0]

CreateTable(t, n) ==
    /\ MayStart(t)
    /\ mutation = {}
    /\ IF Taken("tables", n)
       THEN /\ txn' = [Started(t) EXCEPT ![t].status = "failed"]
            /\ UNCHANGED <<store, cache, mutation, lock, op>>
       ELSE /\ mutation' = {t}
            /\ txn' = Started(t)
            /\ op' = [op EXCEPT ![t] = Insertion("tables", n, 0)]
            /\ UNCHANGED <<store, cache, lock>>

(* CREATE INDEX: the table's exclusive lock, build_index from its rows, and  *)
(* then create_index_with_root, which takes the mutation lock.               *)
RootsLeft == roots < MaxRoots
NewRoot == roots + 1

(* Mutant of LockTable: build_index reads the table without its lock.        *)
NoTableLock(t) == UNCHANGED lock
LockTable(t) == lock \subseteq {t} /\ lock' = {t}

CreateIndex(t, n) ==
    /\ MayStart(t)
    /\ LockTable(t)
    /\ RootsLeft
    /\ roots' = NewRoot
    /\ trees' = [trees EXCEPT ![NewRoot] = rows]
    /\ txn' = [Started(t) EXCEPT ![t].undo = Append(@, Rec("tree", NewRoot, {}))]
    /\ op' = [op EXCEPT ![t] = [pc |-> "register", name |-> n, root |-> NewRoot]]
    /\ UNCHANGED <<pages, header, rows, cache, mutation>>

RegisterIndex(t) ==
    /\ op[t].pc = "register"
    /\ mutation = {}
    /\ IF Taken("indexes", op[t].name) THEN Fail(t)
       ELSE /\ mutation' = {t}
            /\ op' = [op EXCEPT ![t] = Insertion("indexes", op[t].name, op[t].root)]
            /\ UNCHANGED <<store, cache, lock, txn>>

-----------------------------------------------------------------------------
(* Both go on with ensure_catalog_heap or ensure_index_catalog_heap and with *)
(* insert_tuple, which goes through the pages one latch at a time.           *)

NoRoomForPages == Len(pages) >= MaxPages

EnsureHeap(t) ==
    LET h == op[t].heap
        known == IF cache.first[h] # 0 THEN cache.first[h] ELSE header[h]
        first == IF known # 0 THEN known ELSE Len(pages) + 1
    IN
    /\ op[t].pc = "heap"
    /\ first <= MaxPages
    /\ op' = [op EXCEPT ![t].pc = "walk", ![t].page = first]
    /\ cache' = [cache EXCEPT !.first[h] = first]
    /\ IF known # 0 THEN UNCHANGED <<pages, header, txn>>
       ELSE /\ pages' = Append(pages, EmptyPage)
            /\ header' = [header EXCEPT ![h] = first]
            /\ txn' = Log(t, <<Rec("header", h, 0)>>)
    /\ UNCHANGED <<rows, trees, roots, mutation, lock>>

HasRoom(p) == pages[p].count < PageSlots

(* The transactions whose rows in this heap are followed by a row of t.      *)
Overtakes(t, log) ==
    [u \in Txns |-> [log[u] EXCEPT
        !.overtaken = @ \/ (u # t /\ \E x \in log[u].made : x[1] = op[t].heap)]]

(* SlottedPage::insert: the row, its slot, then the count.                   *)
InsertTuple(t) ==
    LET p == op[t].page
        i == pages[p].count + 1
        recs == <<Rec("slot", <<p, i>>, pages[p].slot[i]), Rec("count", p, i - 1)>>
    IN
    /\ op[t].pc = "walk" /\ HasRoom(p)
    /\ pages' = [pages EXCEPT ![p].slot[i] = {op[t].row}, ![p].count = i]
    /\ txn' = Overtakes(t, [Log(t, recs) EXCEPT
                    ![t].made = @ \cup {<<op[t].heap, op[t].row.name>>}])
    /\ op' = [op EXCEPT ![t].pc = "install", ![t].new = i]
    /\ UNCHANGED <<header, rows, trees, roots, cache, mutation, lock>>

(* Mutant of Following: the page to look at next is not moved on.            *)
StayingOn(p) == IF pages[p].next = 0 THEN 0 ELSE p
Following(p) == pages[p].next

NextPage(t) ==
    LET next == Following(op[t].page) IN
    /\ op[t].pc = "walk" /\ ~HasRoom(op[t].page)
    /\ op' = [op EXCEPT ![t].pc = IF next = 0 THEN "append" ELSE "walk",
                        ![t].page = IF next = 0 THEN @ ELSE next]
    /\ UNCHANGED <<store, cache, mutation, lock, txn>>

(* append_page_after: the new page, and then, under the latch of the page it *)
(* follows, the link, which is not looked at again.                          *)
AppendPage(t) ==
    /\ op[t].pc = "append" /\ ~NoRoomForPages
    /\ pages' = Append(pages, EmptyPage)
    /\ op' = [op EXCEPT ![t].pc = "link", ![t].new = Len(pages) + 1]
    /\ UNCHANGED <<header, rows, trees, roots, cache, mutation, lock, txn>>

LinkFrom(t) == op[t].page

LinkPage(t) ==
    /\ op[t].pc = "link"
    /\ pages' = [pages EXCEPT ![LinkFrom(t)].next = op[t].new]
    /\ txn' = Log(t, <<Rec("next", LinkFrom(t), pages[LinkFrom(t)].next)>>)
    /\ op' = [op EXCEPT ![t].pc = "walk", ![t].page = op[t].new]
    /\ UNCHANGED <<header, rows, trees, roots, cache, mutation, lock>>

(* new_page fails: in append_page_after, in the creation of the catalog's    *)
(* own heap or in that of the new table.                                     *)
NewPageFails(t) ==
    /\ \/ op[t].pc = "append"
       \/ op[t].pc = "heap" /\ (op[t].heap = "tables" \/ cache.first[op[t].heap] = 0)
    /\ Fail(t)

Install(t) ==
    /\ op[t].pc = "install"
    /\ cache' = Cached(cache, op[t].heap, op[t].row, <<op[t].page, op[t].new>>)
    /\ mutation' = {}
    /\ Finish(t)
    /\ UNCHANGED <<store, lock, txn>>

-----------------------------------------------------------------------------
(* INSERT: the lock, the indexes of the table as cached, the row, and an     *)
(* entry in each of the indexes; a root that moved is written to its row.    *)

Insert(t) ==
    LET row == Cardinality(rows) + 1
        targets == {[id |-> x.row.id, root |-> x.row.root] : x \in cache.rows["indexes"]}
    IN
    /\ MayStart(t)
    /\ lock \subseteq {t} /\ lock' = {t}
    /\ row <= MaxRows
    /\ rows' = rows \cup {row}
    /\ txn' = [Started(t) EXCEPT ![t].undo = Append(@, Rec("rows", 0, rows))]
    /\ op' = [op EXCEPT ![t] = IF targets = {} THEN Idle
                               ELSE [pc |-> "entry", row |-> row, targets |-> targets]]
    /\ UNCHANGED <<pages, header, trees, roots, cache, mutation>>

AfterTarget(t, target) ==
    IF op[t].targets = {target} THEN Idle
    ELSE [op[t] EXCEPT !.pc = "entry", !.targets = @ \ {target}]

(* BTreeIndex::insert, with or without a new root above the old one.         *)
InsertEntry(t, target) ==
    LET new == trees[target.root] \cup {op[t].row} IN
    /\ op[t].pc = "entry" /\ target \in op[t].targets
    /\ \/ /\ trees' = [trees EXCEPT ![target.root] = new]
          /\ txn' = Log(t, <<Rec("tree", target.root, trees[target.root])>>)
          /\ op' = [op EXCEPT ![t] = AfterTarget(t, target)]
          /\ UNCHANGED roots
       \/ /\ RootsLeft
          /\ roots' = NewRoot
          /\ trees' = [trees EXCEPT ![NewRoot] = new]
          /\ txn' = Log(t, <<Rec("tree", NewRoot, {})>>)
          /\ op' = [op EXCEPT ![t] = [pc |-> "root", row |-> op[t].row,
                        targets |-> op[t].targets, target |-> target, new |-> NewRoot]]
    /\ UNCHANGED <<pages, header, rows, cache, mutation, lock>>

(* update_index_root_page, all of it under the mutation lock.                *)
UpdateRoot(t) ==
    LET found == {x \in cache.rows["indexes"] : x.row.id = op[t].target.id}
        x == The(found)
        at == pages[x.rid[1]].slot[x.rid[2]]
    IN
    /\ op[t].pc = "root"
    /\ mutation = {}
    /\ IF found = {} \/ at = {} \/ x.rid[2] > pages[x.rid[1]].count THEN Fail(t)
       ELSE /\ pages' = [pages EXCEPT ![x.rid[1]].slot[x.rid[2]] =
                                        {[The(at) EXCEPT !.root = op[t].new]}]
            /\ txn' = [Log(t, <<Rec("slot", x.rid, at)>>) EXCEPT ![t].moved = TRUE]
            /\ cache' = Cached(cache, "indexes", [x.row EXCEPT !.root = op[t].new], x.rid)
            /\ op' = [op EXCEPT ![t] = AfterTarget(t, op[t].target)]
            /\ UNCHANGED <<header, rows, trees, roots, mutation, lock>>

-----------------------------------------------------------------------------
(* COMMIT and ROLLBACK.                                                      *)

Commit(t) ==
    /\ op[t] = Idle /\ txn[t].status = "active"
    /\ txn' = [txn EXCEPT ![t].status = "committed", ![t].undo = <<>>]
    /\ lock' = lock \ {t}
    /\ UNCHANGED <<store, cache, mutation, op>>

(* In the passing run no row of another transaction has come after a row of  *)
(* t in a heap, and none is on its way.                                      *)
MayUndo(t) ==
    \/ "shared heap" \in Races
    \/ /\ ~txn[t].overtaken
       /\ \A u \in Txns, x \in txn[t].made :
            op[u].pc \in {"heap", "walk", "append", "link"} => op[u].heap # x[1]

Rollback(t) ==
    /\ op[t] = Idle /\ txn[t].status \in {"active", "failed"}
    /\ MayUndo(t)
    /\ txn' = [txn EXCEPT ![t].status = "undo"]
    /\ UNCHANGED <<store, cache, mutation, lock, op>>

UndoRecord(t) ==
    LET r == Last(txn[t].undo) IN
    /\ txn[t].status = "undo" /\ txn[t].undo # <<>>
    /\ txn' = [txn EXCEPT ![t].undo = Front(@)]
    /\ pages' = CASE r.part = "slot" -> [pages EXCEPT ![r.at[1]].slot[r.at[2]] = r.before]
                  [] r.part = "count" -> [pages EXCEPT ![r.at].count = r.before]
                  [] r.part = "next" -> [pages EXCEPT ![r.at].next = r.before]
                  [] OTHER -> pages
    /\ header' = IF r.part = "header" THEN [header EXCEPT ![r.at] = r.before] ELSE header
    /\ trees' = IF r.part = "tree" THEN [trees EXCEPT ![r.at] = r.before] ELSE trees
    /\ rows' = IF r.part = "rows" THEN r.before ELSE rows
    /\ UNCHANGED <<roots, cache, mutation, lock, op>>

(* finish_abort releases the locks; the reload comes after it.               *)
FinishAbort(t) ==
    /\ txn[t].status = "undo" /\ txn[t].undo = <<>>
    /\ txn' = [txn EXCEPT ![t].status = "reload"]
    /\ lock' = lock \ {t}
    /\ UNCHANGED <<store, cache, mutation, op>>

Reload(t) ==
    /\ txn[t].status = "reload" /\ op[t] = Idle
    /\ mutation = {} /\ mutation' = {t}
    /\ op' = [op EXCEPT ![t] = [pc |-> "load", heap |-> "tables", page |-> cache.first["tables"],
                    fresh |-> [NoCache EXCEPT !.first["tables"] = cache.first["tables"]]]]
    /\ UNCHANGED <<store, cache, lock, txn>>

(* The rows TableIter buffers of a page, as they are inserted into a state.  *)
Loaded(c, h, p) ==
    FoldLeft(LAMBDA d, i : IF pages[p].slot[i] = {} THEN d
                           ELSE Cached(d, h, The(pages[p].slot[i]), <<p, i>>),
             c, [i \in 1 .. pages[p].count |-> i])

(* Mutant of IndexHeap: the page remembered in the state is used.            *)
IndexHeapCached == cache.first["indexes"]
IndexHeap == header["indexes"]

LoadPage(t) ==
    LET o == op[t]
        fresh == Loaded(o.fresh, o.heap, o.page)
        next == Following(o.page)
    IN
    /\ o.pc = "load"
    /\ \/ /\ next # 0
          /\ op' = [op EXCEPT ![t].fresh = fresh, ![t].page = next]
          /\ UNCHANGED <<cache, mutation, txn>>
       \/ /\ next = 0 /\ o.heap = "tables" /\ IndexHeap # 0
          /\ op' = [op EXCEPT ![t].heap = "indexes", ![t].page = IndexHeap,
                              ![t].fresh = [fresh EXCEPT !.first["indexes"] = IndexHeap]]
          /\ UNCHANGED <<cache, mutation, txn>>
       \/ /\ next = 0 /\ (o.heap = "indexes" \/ IndexHeap = 0)
          /\ cache' = fresh
          /\ mutation' = {}
          /\ txn' = [txn EXCEPT ![t].status = "aborted"]
          /\ Finish(t)
    /\ UNCHANGED <<store, lock>>

-----------------------------------------------------------------------------
(* What a session does on its own once it has started something.             *)
Step(t) ==
    \/ RegisterIndex(t) \/ EnsureHeap(t) \/ InsertTuple(t) \/ NextPage(t) \/ AppendPage(t)
    \/ LinkPage(t) \/ NewPageFails(t) \/ Install(t) \/ UpdateRoot(t)
    \/ op[t].pc = "entry" /\ \E target \in op[t].targets : InsertEntry(t, target)
    \/ UndoRecord(t) \/ FinishAbort(t) \/ Reload(t) \/ LoadPage(t)

Quiescent ==
    /\ \A t \in Txns : op[t] = Idle /\ txn[t].status \notin {"undo", "reload"}
    /\ UNCHANGED vars

Next ==
    \/ \E t \in Txns :
        \/ \E n \in TableNames : CreateTable(t, n)
        \/ \E n \in IndexNames : CreateIndex(t, n)
        \/ Insert(t) \/ Commit(t) \/ Rollback(t) \/ Step(t)
    \/ Quiescent

Spec == Init /\ [][Next]_vars /\ \A t \in Txns : WF_vars(Step(t))

-----------------------------------------------------------------------------
(* Properties.                                                               *)

Statuses == {"new", "active", "failed", "undo", "reload", "committed", "aborted"}

(* Every variable has its type; no page counts more rows than it has room    *)
(* for, and pages are only linked to later ones.                             *)
TypeOK ==
    /\ \A p \in DOMAIN pages : /\ pages[p].count \in 0 .. PageSlots
                               /\ pages[p].next \in {0} \cup p + 1 .. Len(pages)
    /\ \A h \in Heaps : header[h] \in 0 .. Len(pages) /\ cache.first[h] \in 0 .. Len(pages)
    /\ rows \subseteq 1 .. MaxRows /\ roots \in 0 .. MaxRoots
    /\ \A r \in DOMAIN trees : trees[r] \subseteq 1 .. MaxRows
    /\ Cardinality(mutation) <= 1 /\ mutation \subseteq Txns
    /\ Cardinality(lock) <= 1 /\ lock \subseteq Txns
    /\ \A t \in Txns : txn[t].status \in Statuses /\ txn[t].overtaken \in BOOLEAN

(* The state a reload would read now.                                        *)
OnPages ==
    LET chain(h) ==
            LET from[p \in 0 .. Len(pages)] ==
                    IF p = 0 THEN <<>> ELSE <<p>> \o from[pages[p].next]
            IN from[header[h]]
        load(c, h) == FoldLeft(LAMBDA d, p : Loaded(d, h, p), c, chain(h))
    IN load(load([NoCache EXCEPT !.first = header], "tables"), "indexes")

(* Every row on the pages of a heap, one by one.                             *)
RowsOnPages(h) ==
    LET from[p \in 0 .. Len(pages)] ==
            IF p = 0 THEN <<>>
            ELSE SubSeq([i \in 1 .. PageSlots |-> pages[p].slot[i]], 1, pages[p].count)
                    \o from[pages[p].next]
    IN from[header[h]]

(* CREATE TABLE and CREATE INDEX are all or nothing: what a committed        *)
(* transaction created is on the pages that can be reached from the header,  *)
(* also while others are rolled back; what a rolled-back one created is not; *)
(* and no two rows have the same name or the same id.                        *)
CommittedSurvives ==
    \A h \in Heaps :
        LET all == RowsOnPages(h)
            names == {The(all[i]).name : i \in DOMAIN all}
        IN  /\ \A t \in Txns : \A x \in txn[t].made :
                    x[1] = h => /\ txn[t].status = "committed" => x[2] \in names
                                /\ txn[t].status = "aborted" =>
                                    \/ x[2] \notin names
                                    \/ \E u \in Txns \ {t} : x \in txn[u].made
            /\ \A i, j \in DOMAIN all : i # j =>
                    The(all[i]).name # The(all[j]).name /\ The(all[i]).id # The(all[j]).id

(* The cached state is what is on the pages whenever no session is changing  *)
(* either: ids, roots, row positions and first pages.                        *)
CatalogAgrees ==
    TypeOK /\ ((mutation = {} /\ \A t \in Txns : txn[t].status \in {"undo", "reload"} => ~Changed(t))
        => cache = OnPages)

(* An index is absent, or it is present and complete: when nobody has the    *)
(* table's lock, the root that an index row names leads to every row of the  *)
(* table, whatever CREATE INDEX, INSERT and ROLLBACK came in between.        *)
IndexesComplete ==
    lock = {} => \A x \in OnPages.rows["indexes"] : trees[x.row.root] = rows

(* Every statement and every rollback that has begun ends, although sessions *)
(* wait for the mutation lock while they hold the table's: the walk through  *)
(* a heap reaches its end, and no error path keeps the mutation lock.        *)
EveryStatementEnds ==
    \A t \in Txns :
        (op[t] # Idle \/ txn[t].status \in {"undo", "reload"})
            ~> (op[t] = Idle /\ txn[t].status \notin {"undo", "reload"})
=============================================================================

------------------------------- MODULE BTree -------------------------------
(* The B+tree index (storage/src/btree.rs) under its users: one writing      *)
(* transaction at a time (InsertExecutor holds the table lock exclusively),  *)
(* which may commit or be rolled back record by record, and a reader that    *)
(* takes no table lock and protects itself by page latches alone.            *)
(*                                                                           *)
(* Data.  An index entry is a number 10 * k + r: key k, row r.  Sort keys    *)
(* (key and rid) compare like these numbers when no key is a prefix of       *)
(* another (module Query has the bytes), and the bare key 10 * k sorts before*)
(* every entry of its key, as a proper prefix does.  Sizes are counted in    *)
(* units of which a page holds Capacity; a unit count includes the slot.     *)
EXTENDS Integers, FiniteSets, SequencesExt

CONSTANTS
    Entries,        \* the entries that may be inserted
    Size,           \* leaf size of every entry, slot included
    Capacity,       \* units in a page
    MaxPages,       \* bound: pages of the file
    Queries,        \* the reads that may be made: <<operation, start, end>>
    MaxEvents,      \* bound: reads and rollbacks of a behaviour
    UndoOverlaps    \* may reads overlap with a rollback and its reload?

ASSUME SizesPositive ==
    /\ Entries \subseteq Nat \ {0} /\ Capacity \in Nat /\ MaxPages \in Nat \ {0}
    /\ Size \in [Entries -> Nat \ {0}] /\ UndoOverlaps \in BOOLEAN

VARIABLES
    pages,      \* page id -> node
    npages,     \* pages allocated so far; ids are never reused
    row,        \* the root page in the index's row of the catalog heap
    cache,      \* the root page in the catalog in memory
    committed,  \* entries of committed transactions
    mine,       \* entries of the running transaction
    log,        \* before-images of the running transaction, oldest first
    w,          \* the writer: its place in InsertExecutor::next and insert
    r,          \* the reader: its place in a get or a range scan
    events      \* reads and rollbacks begun

tree == <<pages, npages, row, cache>>
txn == <<committed, mine, log>>
vars == <<pages, npages, row, cache, committed, mine, log, w, r, events>>

PageIds == 1 .. MaxPages
Key(e) == (e \div 10) * 10
Top == 10 + CHOOSE e \in Entries : \A f \in Entries : f <= e
CatalogRow == 0

-----------------------------------------------------------------------------
(* Nodes.  The slot array may hold more slots than the count in the header   *)
(* shows; a page of zeros reads as an empty leaf without a right neighbour.  *)

Zeroed == [kind |-> "leaf", count |-> 0, slots |-> <<>>, tail |-> {}]

Slot(k, child) == [key |-> k, child |-> child]

Visible(n) == SubSeq(n.slots, 1, n.count)

(* MAX_KEY_SIZE leaves room for the child pointer of an internal entry.      *)
EntrySize(kind, k) == IF kind = "leaf" THEN Size[k] ELSE Size[k] + 1
MaxLeafEntry == Capacity - 1
MaxInternalPushUp == Capacity

Used(kind, s) == FoldLeft(LAMBDA sum, x : sum + EntrySize(kind, x.key), 0, s)

WillFit(n, size) == Used(n.kind, Visible(n)) + size <= Capacity

UpperBound(s, k) == Cardinality({i \in DOMAIN s : s[i].key <= k})
LowerBound(s, k) == Cardinality({i \in DOMAIN s : s[i].key < k})

Only(S) == CHOOSE x \in S : TRUE

(* The child at position i: the tail is the leftmost one.  Internal nodes    *)
(* always have a tail (TreeWellFormed), so CorruptPage is never returned.    *)
Child(n, i) == IF i = 0 THEN Only(n.tail) ELSE Visible(n)[i].child

ChildForKey(n, k) == Child(n, UpperBound(Visible(n), k))

Clamp(i, lo, hi) == IF i < lo THEN lo ELSE IF i > hi THEN hi ELSE i

(* The first position at which half of the bytes are reached.                *)
BalancedPoint(kind, s) ==
    CHOOSE i \in DOMAIN s :
        /\ Used(kind, SubSeq(s, 1, i)) >= Used(kind, s) \div 2
        /\ \A j \in 1 .. i - 1 : Used(kind, SubSeq(s, 1, j)) < Used(kind, s) \div 2

(* How many entries stay in the left leaf; which entry of an internal node   *)
(* moves up.                                                                 *)
LeafSplitPoint(s) == Clamp(BalancedPoint("leaf", s), 1, Len(s) - 1)

InternalSplitPoint(s) ==
    IF Len(s) >= 3 THEN Clamp(BalancedPoint("internal", s), 2, Len(s) - 1)
                   ELSE BalancedPoint("internal", s)

Insorted(s, x) == InsertAt(s, UpperBound(s, x.key) + 1, x)

Rebuilt(kind, tail, s) ==
    [kind |-> kind, count |-> Len(s), slots |-> s, tail |-> tail]

Overflows(kind, s) == Used(kind, s) > Capacity

(* Node::insert_at: the images of the node after each write that shows: the  *)
(* slots are shifted, the new slot is written, the header counts it.         *)
Shifted(n, i) ==
    IF i > n.count THEN n
    ELSE [n EXCEPT !.slots = SubSeq(@, 1, i) \o SubSeq(@, i, n.count)]

SlotWritten(n, i, x) ==
    [n EXCEPT !.slots = SubSeq(@, 1, i - 1) \o <<x>> \o SubSeq(@, i + 1, Len(@))]

Counted(n) == [n EXCEPT !.count = @ + 1]

Before(p, n) == [page |-> p, image |-> n]

-----------------------------------------------------------------------------
Quiet == [pc |-> "ready", entry |-> 0, path |-> <<>>, cur |-> 0, sep |-> 0, right |-> 0]

Idle == [pc |-> "idle", op |-> "range", lo |-> 0, hi |-> Top, page |-> 0, held |-> {},
         after |-> 0, out |-> <<>>, must |-> {}]

(* BTreeIndex::create made page 1, an empty leaf, and CREATE INDEX committed. *)
Init ==
    /\ pages = [p \in PageIds |-> Zeroed]
    /\ npages = 1
    /\ row = 1 /\ cache = 1
    /\ committed = {} /\ mine = {} /\ log = <<>>
    /\ w = Quiet
    /\ r = Idle
    /\ events = 0

-----------------------------------------------------------------------------
(* The writer.  path holds its latched ancestors; "down": cur is the page it *)
(* waits to latch; "push": cur is the latched node just split, whose right   *)
(* sibling and separator go to the parent.                                   *)

WriteLatched == Range(w.path) \cup (IF w.pc = "push" THEN {w.cur} ELSE {})

ReadLatched == r.held

Stored == committed \cup mine

Write(p, images) ==
    /\ pages' = [pages EXCEPT ![p] = Last(images)]
    /\ log' = log \o [i \in 1 .. Len(images) - 1 |-> Before(p, images[i])]

(* The latch is held from the first write to the last, so they are one step. *)
InsertSlot(p, x) ==
    LET n == pages[p]
        i == UpperBound(Visible(n), x.key) + 1
        shifted == Shifted(n, i)
        written == SlotWritten(shifted, i, x)
    IN Write(p, (IF shifted = n THEN <<n>> ELSE <<n, shifted>>) \o <<written, Counted(written)>>)

(* A new right page is written first, then the left one is cut.  Nobody can  *)
(* reach the new page before the left one is unlatched.                      *)
WriteBoth(left, leftNode, right, rightNode) ==
    /\ npages' = npages + 1
    /\ pages' = [pages EXCEPT ![right] = rightNode, ![left] = leftNode]
    /\ log' = log \o <<Before(right, pages[right]), Before(left, pages[left])>>

Fail == w' = [Quiet EXCEPT !.pc = "failed"]

Inserted == w' = Quiet /\ mine' = mine \cup {w.entry}

StartInsert(e) ==
    /\ w.pc = "ready"
    /\ e \notin Stored
    /\ IF Size[e] > MaxLeafEntry
       THEN Fail
       ELSE w' = [Quiet EXCEPT !.pc = "down", !.entry = e, !.cur = cache]
    /\ UNCHANGED <<tree, txn, r, events>>

AtLeaf == w.pc = "down" /\ pages[w.cur].kind = "leaf" /\ w.cur \notin ReadLatched
LeafFits == WillFit(pages[w.cur], Size[w.entry])

Descend ==
    LET n == pages[w.cur] IN
    /\ w.pc = "down"
    /\ w.cur \notin ReadLatched
    /\ n.kind = "internal"
    /\ w' = [w EXCEPT
            !.path = IF WillFit(n, MaxInternalPushUp) THEN <<w.cur>> ELSE Append(@, w.cur),
            !.cur = ChildForKey(n, w.entry)]
    /\ UNCHANGED <<tree, txn, r, events>>

InsertInLeaf ==
    /\ AtLeaf /\ LeafFits
    /\ InsertSlot(w.cur, Slot(w.entry, 0))
    /\ Inserted
    /\ UNCHANGED <<npages, row, cache, committed, r, events>>

SplitLeaf ==
    LET n == pages[w.cur]
        all == Insorted(Visible(n), Slot(w.entry, 0))
        mid == LeafSplitPoint(all)
        left == SubSeq(all, 1, mid)
        rest == SubSeq(all, mid + 1, Len(all))
        right == npages + 1
    IN
    /\ AtLeaf /\ ~LeafFits
    /\ npages < MaxPages
    /\ IF Overflows("leaf", left)
       THEN /\ npages' = right
            /\ Write(right, <<pages[right], Rebuilt("leaf", n.tail, rest)>>)
            /\ Fail
       ELSE /\ WriteBoth(w.cur, Rebuilt("leaf", {right}, left),
                         right, Rebuilt("leaf", n.tail, rest))
            /\ w' = [w EXCEPT !.pc = "push", !.sep = rest[1].key, !.right = right]
    /\ UNCHANGED <<row, cache, committed, mine, r, events>>

Parent == pages[Last(w.path)]
ParentFits == w.path # <<>> /\ WillFit(Parent, EntrySize("internal", w.sep))

PushUp ==
    /\ w.pc = "push" /\ ParentFits
    /\ InsertSlot(Last(w.path), Slot(w.sep, w.right))
    /\ Inserted
    /\ UNCHANGED <<npages, row, cache, committed, r, events>>

(* Mutant: the new internal node starts with the old node's leftmost child.  *)
OldTail(n, x) == n.tail
PushedChild(n, x) == {x.child}

(* The entry in the middle moves up; its child is the leftmost of the new    *)
(* right node.  The child's latch is dropped once the parent is cut.  Here   *)
(* neither half can overflow: the entry that crosses the middle leaves both. *)
SplitInternal ==
    LET all == Insorted(Visible(Parent), Slot(w.sep, w.right))
        at == InternalSplitPoint(all)
        right == npages + 1
    IN
    /\ w.pc = "push" /\ w.path # <<>> /\ ~ParentFits
    /\ npages < MaxPages
    /\ WriteBoth(Last(w.path), Rebuilt("internal", Parent.tail, SubSeq(all, 1, at - 1)),
                 right, Rebuilt("internal", PushedChild(Parent, all[at]),
                                SubSeq(all, at + 1, Len(all))))
    /\ w' = [w EXCEPT !.cur = Last(w.path), !.path = Front(@), !.sep = all[at].key,
                      !.right = right]
    /\ UNCHANGED <<row, cache, committed, mine, r, events>>

(* No ancestor is left: a new root above the node that was split last.       *)
GrowRoot ==
    LET root == npages + 1 IN
    /\ w.pc = "push" /\ w.path = <<>>
    /\ npages < MaxPages
    /\ npages' = root
    /\ Write(root, <<pages[root], Rebuilt("internal", {w.cur}, <<Slot(w.sep, w.right)>>)>>)
    /\ w' = [w EXCEPT !.pc = "publish", !.cur = root]
    /\ UNCHANGED <<row, cache, committed, mine, r, events>>

(* InsertExecutor::next, update_index_root_page: the row, then the cache.    *)
PublishRoot ==
    /\ w.pc = "publish"
    /\ log' = Append(log, Before(CatalogRow, row))
    /\ row' = w.cur /\ cache' = w.cur
    /\ Inserted
    /\ UNCHANGED <<pages, npages, committed, r, events>>

(* The buffer pool has no frame for a new page: the insert returns an error, *)
(* which drops its latches.                                                  *)
NewPageFails ==
    /\ \/ AtLeaf /\ ~LeafFits
       \/ w.pc = "push" /\ ~ParentFits
    /\ Fail
    /\ UNCHANGED <<tree, txn, r, events>>

-----------------------------------------------------------------------------
(* The end of the transaction.                                               *)

Commit ==
    /\ w.pc = "ready" /\ mine # {}
    /\ committed' = Stored
    /\ mine' = {} /\ log' = <<>>
    /\ UNCHANGED <<tree, w, r, events>>

Rollback ==
    /\ \/ w.pc = "failed"
       \/ w.pc = "ready" /\ mine # {}
    /\ events < MaxEvents
    /\ events' = events + 1
    /\ UndoOverlaps \/ r.pc \in {"idle", "done"}
    /\ w' = [Quiet EXCEPT !.pc = "undo"]
    /\ UNCHANGED <<tree, txn, r>>

(* TransactionManager::begin_abort and BufferPool::undo_write: the records   *)
(* of the transaction in reverse, each under the latch of its page.          *)
UndoRecord ==
    LET rec == Last(log) IN
    /\ w.pc = "undo" /\ log # <<>>
    /\ log' = Front(log)
    /\ IF rec.page = CatalogRow
       THEN row' = rec.image /\ UNCHANGED pages
       ELSE /\ rec.page \notin ReadLatched
            /\ pages' = [pages EXCEPT ![rec.page] = rec.image]
            /\ UNCHANGED row
    /\ UNCHANGED <<npages, cache, committed, mine, w, r, events>>

Reload ==
    /\ w.pc = "undo" /\ log = <<>>
    /\ cache' = row
    /\ mine' = {}
    /\ w' = Quiet
    /\ UNCHANGED <<pages, npages, row, committed, log, r, events>>

Writer ==
    \/ Descend \/ InsertInLeaf \/ SplitLeaf \/ PushUp \/ SplitInternal \/ GrowRoot
    \/ PublishRoot \/ NewPageFails

-----------------------------------------------------------------------------
(* The reader.  "down": page is fetched next, held is the parent whose latch *)
(* is dropped then; "leaf": page is the leaf it reads next.                  *)

InRange(e, lo, hi) == lo <= Key(e) /\ Key(e) < hi

(* IndexScanExecutor::init, range_scan and get: a start key or none, an end  *)
(* key or none; get reads the entries of one key.                            *)
StartRead(op, lo, hi) ==
    /\ r.pc \in {"idle", "done"} /\ events < MaxEvents
    /\ UndoOverlaps \/ w.pc # "undo"
    /\ events' = events + 1
    /\ r' = [Idle EXCEPT !.pc = "down", !.op = op, !.lo = lo, !.hi = hi, !.page = cache,
                         !.after = lo, !.must = {e \in committed : InRange(e, lo, hi)}]
    /\ UNCHANGED <<tree, txn, w>>

(* descend_to_leaf couples its latches; leftmost_leaf, without a start key,  *)
(* does not.  Both return the leaf's id with the latch dropped.              *)
ReadDown ==
    LET n == pages[r.page] IN
    /\ r.pc = "down"
    /\ r.page \notin WriteLatched
    /\ r' = IF n.kind = "leaf" THEN [r EXCEPT !.pc = "leaf", !.held = {}]
            ELSE IF r.lo = 0 THEN [r EXCEPT !.page = Child(n, 0)]
            ELSE [r EXCEPT !.page = ChildForKey(n, r.lo), !.held = {r.page}]
    /\ UNCHANGED <<tree, txn, w, events>>

(* Mutant of NextLeaf: the end of a leaf is noted, but the scan stays there.  *)
SameLeaf(tail, held) == IF tail = {} THEN [r EXCEPT !.pc = "done", !.held = {}] ELSE r

NextLeaf(tail, held) ==
    IF tail = {} THEN [r EXCEPT !.pc = "done", !.held = {}]
    ELSE [r EXCEPT !.page = Only(tail), !.held = held]

(* scan_leaf and its callers: one entry, the first above the last returned,  *)
(* or the next leaf.                                                         *)
ScanLeaf ==
    LET n == pages[r.page]
        above == SelectSeq(Visible(n), LAMBDA x : x.key > r.after)
    IN
    /\ r.pc = "leaf" /\ r.op = "range"
    /\ r.page \notin WriteLatched
    /\ r' = IF above = <<>> THEN NextLeaf(n.tail, {})
            ELSE IF Key(above[1].key) >= r.hi THEN [r EXCEPT !.pc = "done"]
            ELSE [r EXCEPT !.out = Append(@, above[1].key), !.after = above[1].key]
    /\ UNCHANGED <<tree, txn, w, events>>

(* Mutant: goes on to the next leaf only if this one had a match.            *)
GetWhileMatching(s, k) ==
    /\ LowerBound(s, k) < Len(s)
    /\ \A i \in LowerBound(s, k) + 1 .. Len(s) : Key(s[i].key) = k
RanOffTheEnd(s, k) == \A i \in LowerBound(s, k) + 1 .. Len(s) : Key(s[i].key) = k

(* get: every match of a leaf; the latch is kept until the next one is had.  *)
GetLeaf ==
    LET n == pages[r.page]
        s == Visible(n)
        found == SelectSeq(s, LAMBDA x : Key(x.key) = r.lo)
        got == [i \in DOMAIN found |-> found[i].key]
    IN
    /\ r.pc = "leaf" /\ r.op = "get"
    /\ r.page \notin WriteLatched
    /\ r' = [IF RanOffTheEnd(s, r.lo) THEN NextLeaf(n.tail, {r.page})
             ELSE [r EXCEPT !.pc = "done", !.held = {}] EXCEPT !.out = @ \o got]
    /\ UNCHANGED <<tree, txn, w, events>>

Reader == ReadDown \/ ScanLeaf \/ GetLeaf

(* Between calls everything may rest.                                        *)
Quiescent ==
    /\ w.pc \in {"ready", "failed"} /\ r.pc \in {"idle", "done"}
    /\ UNCHANGED vars

Next ==
    \/ \E e \in Entries : StartInsert(e)
    \/ Writer
    \/ Commit \/ Rollback \/ UndoRecord \/ Reload
    \/ \E q \in Queries : StartRead(q[1], q[2], q[3])
    \/ Reader
    \/ Quiescent

(* A thread in the middle of a call goes on when its latch is free.          *)
Spec == Init /\ [][Next]_vars /\ WF_vars(Reader) /\ WF_vars(Writer)

-----------------------------------------------------------------------------
(* check_invariants, with a bound on the depth so that it ends on a cycle.   *)

RECURSIVE CheckNode(_, _, _, _)
CheckNode(p, low, high, depth) ==
    LET n == pages[p]
        s == Visible(n)
        bound(i) == IF i = 0 THEN low ELSE IF i > Len(s) THEN high ELSE s[i].key
    IN
    /\ ~Overflows(n.kind, s)
    /\ \A i \in DOMAIN s : low <= s[i].key /\ s[i].key < high
    /\ \A i \in 2 .. Len(s) : s[i - 1].key < s[i].key
    /\ n.kind = "internal" =>
        /\ n.tail # {} /\ depth > 0
        /\ \A i \in 0 .. Len(s) : CheckNode(Child(n, i), bound(i), bound(i + 1), depth - 1)

RECURSIVE LeavesBelow(_, _)
LeavesBelow(p, depth) ==
    LET n == pages[p] IN
    IF n.kind = "leaf" THEN << <<p, depth>> >>
    ELSE FlattenSeq([i \in 1 .. n.count + 1 |-> LeavesBelow(Child(n, i - 1), depth + 1)])

RECURSIVE Chain(_, _)
Chain(p, limit) ==
    IF pages[p].tail = {} \/ limit = 0 THEN <<p>>
    ELSE <<p>> \o Chain(Only(pages[p].tail), limit - 1)

-----------------------------------------------------------------------------
(* Properties.                                                               *)

(* Every variable has its type.                                              *)
TypeOK ==
    /\ \A p \in PageIds : /\ pages[p].kind \in {"leaf", "internal"}
                          /\ pages[p].count \in 0 .. Len(pages[p].slots)
                          /\ pages[p].tail \subseteq 1 .. npages
    /\ npages \in PageIds /\ row \in 1 .. npages /\ cache \in 1 .. npages
    /\ committed \subseteq Entries /\ mine \subseteq Entries \ committed
    /\ w.pc \in {"ready", "down", "push", "publish", "failed", "undo"}
    /\ r.pc \in {"idle", "down", "leaf", "done"} /\ events \in 0 .. MaxEvents
    /\ WriteLatched \cap r.held = {}

(* Whenever no insert is half done, before and after splits of every level,  *)
(* and again after a rollback, the tree passes check_invariants: sorted      *)
(* nodes within their inherited bounds and their page, leaves of one depth,  *)
(* each reached once, linked in key order; and the leaves hold the entries   *)
(* of the committed and the running transaction, no other and none lost.     *)
TreeWellFormed ==
    TypeOK /\ (w.pc \in {"ready", "down"} =>
        /\ CheckNode(cache, 0, Top, MaxPages)
        /\ LET below == LeavesBelow(cache, 0)
               leaves == [i \in DOMAIN below |-> below[i][1]]
           IN /\ \A i \in DOMAIN below : below[i][2] = below[1][2]
              /\ IsInjective(leaves)
              /\ Chain(leaves[1], MaxPages) = leaves
              /\ UNION {{s.key : s \in Range(Visible(pages[p]))} : p \in Range(leaves)} = Stored)

(* A finished get or range scan has returned every entry that was committed  *)
(* when it began and lies in its range, each once and in key order, whatever *)
(* splits moved entries and grew the root while it held no latch.            *)
ReadsComplete ==
    r.pc = "done" =>
        /\ r.must \subseteq Range(r.out)
        /\ \A i \in 2 .. Len(r.out) : r.out[i - 1] < r.out[i]
        /\ \A i \in DOMAIN r.out : InRange(r.out[i], r.lo, r.hi)

(* A read that has begun returns: the leaf chain it follows ends, and no     *)
(* order of latches lets it and the insert wait for each other.              *)
EveryReadReturns == r.pc # "idle" ~> r.pc = "done"
=============================================================================

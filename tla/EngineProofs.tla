---------------------------- MODULE EngineProofs ----------------------------
(***************************************************************************)
(* Proofs about Engine, for any number of sessions, workers, tables and    *)
(* statements, whatever fails: the catalog, the invariant of               *)
(* EngineInvariant, and the properties that follow from it.                *)
(***************************************************************************)
EXTENDS EngineTxns

-----------------------------------------------------------------------------
(* The tables an undo log names. *)

LEMMA RecordKinds ==
    ASSUME NEW r \in UndoRecords
    PROVE  \/ "root" \in DOMAIN r /\ "table" \notin DOMAIN r /\ r.root \in Roots
           \/ "table" \in DOMAIN r /\ "root" \notin DOMAIN r /\ r.table \in Names
  BY DEF UndoRecords

LEMMA NewRecords ==
    ASSUME NEW x
    PROVE  /\ "table" \notin DOMAIN [root |-> x]
           /\ "table" \in DOMAIN [table |-> x] /\ [table |-> x].table = x
  OBVIOUS

LEMMA EmptyLog == Tables(<<>>) = {} /\ Unique(<<>>)
  BY DEF Tables, Unique

LEMMA TableOfLog ==
    ASSUME NEW log, NEW n
    PROVE  n \in Tables(log) <=> \E i \in DOMAIN log : "table" \in DOMAIN log[i] /\ log[i].table = n
  BY Zenon DEF Tables

\* What a record adds to a log.
LEMMA AppendRecord ==
    ASSUME NEW log \in Seq(UndoRecords), NEW r \in UndoRecords, Unique(log)
    PROVE  /\ "table" \notin DOMAIN r =>
                 Tables(Append(log, r)) = Tables(log) /\ Unique(Append(log, r))
           /\ "table" \in DOMAIN r /\ r.table \notin Tables(log) =>
                 Tables(Append(log, r)) = Tables(log) \cup {r.table} /\ Unique(Append(log, r))
<1> DEFINE new == Append(log, r)
<1>1. PICK k : k = Len(log) + 1
  OBVIOUS
<1>2. /\ DOMAIN new = DOMAIN log \cup {k} /\ new[k] = r /\ k \notin DOMAIN log
      /\ \A i \in DOMAIN log : new[i] = log[i]
  BY <1>1
<1> HIDE DEF new
<1>3. \A n : n \in Tables(new) <=> n \in Tables(log) \/ ("table" \in DOMAIN r /\ r.table = n)
  <2> TAKE n
  <2>1. n \in Tables(new) <=> \E i \in DOMAIN new : "table" \in DOMAIN new[i] /\ new[i].table = n
    BY TableOfLog, Zenon
  <2>2. n \in Tables(log) <=> \E i \in DOMAIN log : "table" \in DOMAIN log[i] /\ log[i].table = n
    BY TableOfLog, Zenon
  <2> QED
    BY <1>2, <2>1, <2>2, Zenon
<1>4. "table" \notin DOMAIN r \/ r.table \notin Tables(log) => Unique(new)
  <2>1. "table" \in DOMAIN r => (r.table \in Tables(log) <=>
            \E i \in DOMAIN log : "table" \in DOMAIN log[i] /\ log[i].table = r.table)
    BY TableOfLog, ZenonT(40)
  <2> QED
    BY <1>2, <2>1, Zenon DEF Unique
<1>5. "table" \notin DOMAIN r => Tables(new) = Tables(log)
  BY <1>3, Zenon
<1>6. "table" \in DOMAIN r => Tables(new) = Tables(log) \cup {r.table}
  BY <1>3, Zenon
<1> QED
  BY <1>4, <1>5, <1>6, Zenon DEF new

\* What the undo of the last record takes from a log.
LEMMA UndoLast ==
    ASSUME NEW log \in Seq(UndoRecords), log # <<>>, Unique(log)
    PROVE  LET r == log[Len(log)]
               rest == SubSeq(log, 1, Len(log) - 1)
           IN  /\ r \in UndoRecords /\ Unique(rest)
               /\ "table" \notin DOMAIN r => Tables(rest) = Tables(log)
               /\ "table" \in DOMAIN r => r.table \in Tables(log) /\ Tables(rest) = Tables(log) \ {r.table}
<1> DEFINE r == log[Len(log)]
           rest == SubSeq(log, 1, Len(log) - 1)
<1>1. PICK k : k = Len(log)
  OBVIOUS
<1>2. Len(log) \in Nat /\ Len(log) > 0 /\ DOMAIN log = 1..Len(log)
  OBVIOUS
<1>3. Len(log) - 1 \in Nat /\ DOMAIN rest = 1..(Len(log) - 1) /\ \A i \in DOMAIN rest : rest[i] = log[i]
  BY <1>2
<1>a. DOMAIN log = DOMAIN rest \cup {k} /\ k \notin DOMAIN rest /\ log[k] = r
  BY <1>1, <1>2, <1>3
<1>b. r \in UndoRecords
  BY <1>2
<1> HIDE DEF r, rest
<1>4. \A n : n \in Tables(log) <=> n \in Tables(rest) \/ ("table" \in DOMAIN r /\ r.table = n)
  <2> TAKE n
  <2>1. n \in Tables(rest) <=> \E i \in DOMAIN rest : "table" \in DOMAIN rest[i] /\ rest[i].table = n
    BY TableOfLog, Zenon
  <2>2. n \in Tables(log) <=> \E i \in DOMAIN log : "table" \in DOMAIN log[i] /\ log[i].table = n
    BY TableOfLog, Zenon
  <2> QED
    BY <1>3, <1>a, <2>1, <2>2, ZenonT(40)
<1>5. "table" \in DOMAIN r => r.table \notin Tables(rest)
  <2>1. "table" \in DOMAIN r => (r.table \in Tables(rest) <=>
            \E i \in DOMAIN rest : "table" \in DOMAIN rest[i] /\ rest[i].table = r.table)
    BY TableOfLog, ZenonT(40)
  <2> QED
    BY <1>3, <1>a, <2>1, Zenon DEF Unique
<1>6. Unique(rest)
  BY <1>3, <1>a, Zenon DEF Unique
<1>7. "table" \notin DOMAIN r => Tables(rest) = Tables(log)
  BY <1>4, Zenon
<1>8. "table" \in DOMAIN r => r.table \in Tables(log) /\ Tables(rest) = Tables(log) \ {r.table}
  BY <1>4, <1>5, Zenon
<1> QED
  BY <1>b, <1>6, <1>7, <1>8, ZenonT(40) DEF r, rest

-----------------------------------------------------------------------------
(* The catalog. *)

\* The rows, name by name.
LEMMA RowNames ==
    ASSUME Logged
    PROVE  \A n : n \in heap.tables <=> n \in committed \/ \E t \in active : n \in Tables(undo[t])
<1>1. heap.tables = committed \cup UNION {Tables(undo[t]) : t \in active}
  BY DEF Logged
<1> HIDE DEF Tables
<1> QED
  BY <1>1

LEMMA LoggedNext ==
    ASSUME \A n : n \in heap'.tables <=> n \in committed' \/ \E t \in active' : n \in Tables(undo'[t]),
           \A t \in active' : Unique(undo'[t]) /\ Tables(undo'[t]) \cap committed' = {},
           \A t, u \in active' : t # u => Tables(undo'[t]) \cap Tables(undo'[u]) = {}
    PROVE  Logged'
<1>1. heap'.tables = committed' \cup UNION {Tables(undo'[t]) : t \in active'}
  OBVIOUS
<1> QED
  BY <1>1, Zenon DEF Logged, Unique, Tables

\* The logs name the same tables as before: a transaction may be new or gone if its log
\* names none.
LEMMA SameLogs ==
    ASSUME Logged, heap'.tables = heap.tables, committed' = committed,
           \A t \in active' : \/ t \in active /\ Tables(undo'[t]) = Tables(undo[t]) /\ Unique(undo'[t])
                              \/ t \notin active /\ undo'[t] = <<>>,
           \A t \in active : t \in active' \/ undo[t] = <<>>
    PROVE  Logged'
<1>1. \A t \in active' : IF t \in active THEN Tables(undo'[t]) = Tables(undo[t]) /\ Unique(undo'[t])
                                         ELSE Tables(undo'[t]) = {} /\ Unique(undo'[t])
  BY EmptyLog, Zenon
<1>2. \A t \in active : t \in active' \/ Tables(undo[t]) = {}
  BY EmptyLog, Zenon
<1>3. \A n : n \in heap'.tables <=> n \in committed' \/ \E t \in active' : n \in Tables(undo'[t])
  BY <1>1, <1>2, RowNames, ZenonT(40)
<1>4. \A t \in active' : Unique(undo'[t]) /\ Tables(undo'[t]) \cap committed' = {}
  BY <1>1, Zenon DEF Logged
<1>5. \A t, u \in active' : t # u => Tables(undo'[t]) \cap Tables(undo'[u]) = {}
  BY <1>1, Zenon DEF Logged
<1> QED
  BY <1>3, <1>4, <1>5, LoggedNext, Zenon

\* CREATE TABLE adds a name that no row has to its transaction's log.
LEMMA CreatesName ==
    ASSUME Logged, NEW n, n \notin heap.tables, heap'.tables = heap.tables \cup {n},
           committed' = committed, NEW t \in active, active' = active, Unique(undo'[t]),
           Tables(undo'[t]) = Tables(undo[t]) \cup {n},
           \A u \in active : u # t => undo'[u] = undo[u]
    PROVE  Logged'
<1>1. n \notin committed /\ \A u \in active : n \notin Tables(undo[u])
  BY RowNames, Zenon
<1>2. \A u \in active : \A x : x \in Tables(undo'[u]) <=> x \in Tables(undo[u]) \/ (u = t /\ x = n)
  <2> TAKE u \in active
  <2>1. CASE u = t
    BY <2>1, Zenon
  <2>2. CASE u # t
    BY <2>2, Zenon
  <2> QED
    BY <2>1, <2>2, Zenon
<1>3. \A x : x \in heap'.tables <=> x \in committed' \/ \E u \in active' : x \in Tables(undo'[u])
  <2>1. \A x : x \in heap'.tables <=> x \in heap.tables \/ x = n
    BY Zenon
  <2> QED
    BY <1>2, <2>1, RowNames, ZenonT(40)
<1>4. \A u \in active' : Unique(undo'[u]) /\ Tables(undo'[u]) \cap committed' = {}
  <2>1. \A u \in active : Unique(undo'[u])
    BY Zenon DEF Logged
  <2>2. \A u \in active : Tables(undo[u]) \cap committed = {}
    BY Zenon DEF Logged
  <2>3. \A u \in active : Tables(undo'[u]) \cap committed = {}
    BY <1>1, <1>2, <2>2, ZenonT(40)
  <2> QED
    BY <2>1, <2>3, Zenon
<1>5. \A u, v \in active' : u # v => Tables(undo'[u]) \cap Tables(undo'[v]) = {}
  <2>1. \A u, v \in active : u # v => Tables(undo[u]) \cap Tables(undo[v]) = {}
    BY Zenon DEF Logged
  <2>2. ASSUME NEW u \in active, NEW v \in active, u # v, NEW x \in Tables(undo'[u]) PROVE x \notin Tables(undo'[v])
    <3>1. x \in Tables(undo[u]) \/ (u = t /\ x = n)
      BY <1>2, <2>2, ZenonT(40)
    <3>2. CASE x = n
      BY <1>1, <1>2, <2>2, <3>1, <3>2, ZenonT(40)
    <3>3. CASE x # n
      BY <1>2, <2>1, <2>2, <3>1, <3>3, ZenonT(40)
    <3> QED
      BY <3>2, <3>3
  <2> QED
    BY <2>2, Zenon
<1> QED
  BY <1>3, <1>4, <1>5, LoggedNext, ZenonT(40)

\* Undoing it takes the name from both.
LEMMA RemovesName ==
    ASSUME Logged, NEW n, heap'.tables = heap.tables \ {n}, committed' = committed,
           NEW t \in active, active' = active, Unique(undo'[t]), n \in Tables(undo[t]),
           Tables(undo'[t]) = Tables(undo[t]) \ {n},
           \A u \in active : u # t => undo'[u] = undo[u]
    PROVE  Logged'
<1>1. n \notin committed /\ \A u \in active : u # t => n \notin Tables(undo[u])
  BY Zenon DEF Logged
<1>2. \A u \in active : \A x : x \in Tables(undo'[u]) <=> x \in Tables(undo[u]) /\ x # n
  <2> TAKE u \in active
  <2>1. CASE u = t
    BY <2>1, Zenon
  <2>2. CASE u # t
    BY <1>1, <2>2, Zenon
  <2> QED
    BY <2>1, <2>2, Zenon
<1>3. \A x : x \in heap'.tables <=> x \in committed' \/ \E u \in active' : x \in Tables(undo'[u])
  <2>1. \A x : x \in heap'.tables <=> x \in heap.tables /\ x # n
    BY Zenon
  <2> QED
    BY <1>1, <1>2, <2>1, RowNames, ZenonT(40)
<1>4. \A u \in active' : Unique(undo'[u]) /\ Tables(undo'[u]) \cap committed' = {}
  <2>1. \A u \in active : Unique(undo'[u])
    BY Zenon DEF Logged
  <2>2. \A u \in active : Tables(undo[u]) \cap committed = {}
    BY Zenon DEF Logged
  <2>3. \A u \in active : Tables(undo'[u]) \cap committed = {}
    BY <1>2, <2>2, Zenon
  <2> QED
    BY <2>1, <2>3, Zenon
<1>5. \A u, v \in active' : u # v => Tables(undo'[u]) \cap Tables(undo'[v]) = {}
  <2>1. \A u, v \in active : u # v => Tables(undo[u]) \cap Tables(undo[v]) = {}
    BY Zenon DEF Logged
  <2> QED
    BY <1>2, <2>1, Zenon
<1> QED
  BY <1>3, <1>4, <1>5, LoggedNext, ZenonT(40)

\* A commit makes its transaction's tables committed ones.
LEMMA CommitsNames ==
    ASSUME Logged, NEW t \in active, heap' = heap, active' = active \ {t},
           committed' = committed \cup Tables(undo[t]),
           \A u \in active' : undo'[u] = undo[u]
    PROVE  Logged'
<1>1. \A u \in active' : u \in active /\ undo'[u] = undo[u] /\ Tables(undo[u]) \cap Tables(undo[t]) = {}
  BY Zenon DEF Logged
<1>2. \A x : x \in heap'.tables <=> x \in committed' \/ \E u \in active' : x \in Tables(undo'[u])
  <2>1. \A x : x \in committed' <=> x \in committed \/ x \in Tables(undo[t])
    BY Zenon
  <2> QED
    BY <1>1, <2>1, RowNames, ZenonT(40)
<1>3. \A u \in active' : Unique(undo'[u]) /\ Tables(undo'[u]) \cap committed' = {}
  BY <1>1, Zenon DEF Logged
<1>4. \A u, v \in active' : u # v => Tables(undo'[u]) \cap Tables(undo'[v]) = {}
  BY <1>1, Zenon DEF Logged
<1> QED
  BY <1>2, <1>3, <1>4, LoggedNext, ZenonT(40)

\* The reloads under way are the same.
SameReloads ==
    \A v \in Workers : (wk'[v].pc = "install" <=> wk[v].pc = "install") /\ wk'[v].fresh = wk[v].fresh

\* A worker that does not install the catalog, and does not start to.
LEMMA Elsewhere ==
    ASSUME SInv, SInv', NEW w \in Workers, \A v \in Workers \ {w} : wk'[v] = wk[v],
           wk[w].pc # "install", wk'[w].pc # "install"
    PROVE  SameReloads
<1>1. Shape(wk[w]) /\ Shape(wk'[w])
  <2>1. \A v \in Workers : Shape(wk'[v])
    BY Zenon DEF SInv, Shapes, Shape
  <2> QED
    BY <2>1, ZenonT(40) DEF SInv, Shapes
<1>2. wk[w].fresh = {} /\ wk'[w].fresh = {}
  BY <1>1, Zenon DEF Shape
<1> QED
  BY <1>2, Zenon DEF SameReloads

LEMMA SameCType ==
    ASSUME CType, UNCHANGED catalog, SameReloads
    PROVE  CType'
  BY Zenon DEF CType, catalog, SameReloads, At

LEMMA SameCached ==
    ASSUME Cached, UNCHANGED <<heap, cache>>, SameReloads, Stale => Stale'
    PROVE  Cached'
<1>1. \A v \in Workers : \A c \in wk'[v].fresh : heap'.tables \subseteq c.tables /\ (Stale' \/ c = heap')
  <2>1. \A v \in Workers : wk'[v].fresh = wk[v].fresh
    BY Zenon DEF SameReloads
  <2>2. \A v \in Workers : \A c \in wk[v].fresh : heap.tables \subseteq c.tables /\ (Stale \/ c = heap)
    BY Zenon DEF Cached
  <2>3. heap' = heap
    OBVIOUS
  <2> TAKE v \in Workers
  <2> TAKE c \in wk'[v].fresh
  <2>4. heap.tables \subseteq c.tables /\ (Stale \/ c = heap)
    <3>1. c \in wk[v].fresh
      BY <2>1, Zenon
    <3> QED
      BY <2>2, <3>1, Zenon
  <2> QED
    BY <2>3, <2>4, Zenon
<1>2. Stale' \/ cache' = heap' \/ \E v \in Workers : At(v, "install")'
  <2>1. \A v \in Workers : At(v, "install") => At(v, "install")'
    BY Zenon DEF SameReloads, At
  <2> QED
    BY <2>1, Zenon DEF Cached
<1> QED
  BY <1>1, <1>2, Zenon DEF Cached

\* A step of one worker that leaves the catalog alone.
LEMMA SameCatalog ==
    ASSUME SInv, SInv', CInv, NEW w \in Workers, \A v \in Workers \ {w} : wk'[v] = wk[v],
           wk[w].pc # "install", wk'[w].pc # "install",
           wk[w].pc \in {"undo", "reload"} => wk'[w].pc \in {"undo", "reload"},
           UNCHANGED <<catalog, undoFailed, reloadFailed>>, Logged => Logged'
    PROVE  CInv'
<1>1. SameReloads
  BY Elsewhere, Zenon
<1>2. CType'
  BY <1>1, SameCType, Zenon DEF CInv
<1>3. \A v \in Workers : At(v, "undo") \/ At(v, "reload") => (At(v, "undo") \/ At(v, "reload"))'
  BY Zenon DEF At
<1>4. Stale => Stale'
  BY <1>3, Zenon DEF Stale
<1>5. heap' = heap /\ cache' = cache
  BY DEF catalog
<1>6. Cached => Cached'
  BY <1>1, <1>4, <1>5, SameCached, ZenonT(40)
<1> QED
  BY <1>2, <1>6, Zenon DEF CInv

\* A step of no worker, or of one that only takes or ends a job.
LEMMA IdleCatalog ==
    ASSUME SInv, SInv', CInv,
           \A v \in Workers : wk'[v] = wk[v] \/ (wk[v].pc \notin Busy /\ wk'[v].pc \notin Busy),
           UNCHANGED <<undo, catalog, history>>
    PROVE  CInv'
<1>1. /\ undo' = undo /\ active' = active /\ UNCHANGED catalog /\ heap' = heap /\ cache' = cache
      /\ committed' = committed /\ undoFailed' = undoFailed /\ reloadFailed' = reloadFailed
  BY ZenonT(40) DEF catalog, history, active
<1>2. \A v \in Workers : Shape(wk[v]) /\ Shape(wk'[v])
  BY Zenon DEF SInv, Shapes, Shape
<1>3. SameReloads
  BY <1>2, Zenon DEF SameReloads, Shape, Busy
<1>4. Stale => Stale'
  BY Zenon DEF Stale, At, Busy
<1>5. CType'
  BY <1>1, <1>3, SameCType, ZenonT(40) DEF CInv
<1>6. Cached => Cached'
  BY <1>1, <1>3, <1>4, SameCached, ZenonT(40)
<1>7. Logged => Logged'
  BY <1>1, Zenon DEF Logged
<1> QED
  BY <1>1, <1>5, <1>6, <1>7, ZenonT(40) DEF CInv

\* A worker's step leaves the other workers alone.
LEMMA OnlyMine ==
    ASSUME SInv, NEW w \in Workers
    PROVE  /\ \A a, b : Answer(w, a, b) \/ Leave(w, a, b) =>
                 wk'[w].pc = "recv" /\ \A v \in Workers \ {w} : wk'[v] = wk[v]
           /\ \A pc \in Pcs : Goto(w, pc) =>
                 wk'[w].pc = pc /\ \A v \in Workers \ {w} : wk'[v] = wk[v]
           /\ \A ok \in BOOLEAN : AbortReturns(w, ok) =>
                 /\ wk'[w].pc \in {"reload", "recv"} /\ (ok => wk'[w].pc = "reload")
                 /\ \A v \in Workers \ {w} : wk'[v] = wk[v]
           /\ \A t : Abort(w, t) =>
                 wk'[w].pc \in {"undo", "reload", "recv"} /\ \A v \in Workers \ {w} : wk'[v] = wk[v]
<1>1. wk \in [Workers -> Records]
  BY DEF SInv, SType
<1>2. ASSUME NEW r, wk' = [wk EXCEPT ![w] = r]
      PROVE  wk'[w] = r /\ \A v \in Workers \ {w} : wk'[v] = wk[v]
  BY <1>1, <1>2, Zenon
<1>3. ASSUME NEW a, NEW b, Answer(w, a, b)
      PROVE  wk'[w].pc = "recv" /\ \A v \in Workers \ {w} : wk'[v] = wk[v]
  BY <1>2, <1>3, ZenonT(40) DEF Answer, Ready
<1>4. ASSUME NEW a, NEW b, Leave(w, a, b)
      PROVE  wk'[w].pc = "recv" /\ \A v \in Workers \ {w} : wk'[v] = wk[v]
  BY <1>2, <1>4, ZenonT(40) DEF Leave, Ready
<1>5. ASSUME NEW pc \in Pcs, Goto(w, pc)
      PROVE  wk'[w].pc = pc /\ \A v \in Workers \ {w} : wk'[v] = wk[v]
  <2>1. PICK r \in Records : wk' = [wk EXCEPT ![w] = r] /\ r.pc = pc
    BY <1>5, GotoRecord, ZenonT(40)
  <2> QED
    BY <1>2, <2>1, Zenon
<1>6. "reload" \in Pcs
  BY Zenon DEF Pcs, Busy
<1>7. ASSUME NEW ok \in BOOLEAN, AbortReturns(w, ok)
      PROVE  /\ wk'[w].pc \in {"reload", "recv"} /\ (ok => wk'[w].pc = "reload")
             /\ \A v \in Workers \ {w} : wk'[v] = wk[v]
  BY <1>3, <1>5, <1>6, <1>7, ZenonT(40) DEF AbortReturns, AnswerError
<1>8. ASSUME NEW t, Abort(w, t)
      PROVE  wk'[w].pc \in {"undo", "reload", "recv"} /\ \A v \in Workers \ {w} : wk'[v] = wk[v]
  <2>1. CASE AbortReturns(w, FALSE)
    BY <1>7, <2>1, Zenon
  <2>2. CASE wk' = [wk EXCEPT ![w] = [Ready EXCEPT !.pc = "undo", !.txn = t, !.auto = wk[w].auto,
                                    !.job = {Job(job(w).kind, session(w), NoStatement)}]]
    BY <1>2, <2>2, Zenon DEF Ready
  <2> QED
    BY <1>8, <2>1, <2>2, ZenonT(40) DEF Abort
<1> QED
  BY <1>3, <1>4, <1>5, <1>7, <1>8, ZenonT(40)

LEMMA LogsStay ==
    ASSUME UNCHANGED <<undo, catalog, committed>>, Logged
    PROVE  Logged'
<1>1. undo' = undo /\ active' = active /\ heap' = heap /\ committed' = committed
  BY DEF catalog, active
<1> QED
  BY <1>1, Zenon DEF Logged

LEMMA LogBegins ==
    ASSUME NEW t, t \notin active, undo' = Put(undo, t, <<>>), UNCHANGED <<catalog, committed>>, Logged
    PROVE  Logged'
<1>1. active' = active \cup {t} /\ \A x \in active' : undo'[x] = IF x = t THEN <<>> ELSE undo[x]
  BY Zenon DEF active, Put
<1>2. \A x \in active' : \/ x \in active /\ Tables(undo'[x]) = Tables(undo[x]) /\ Unique(undo'[x])
                         \/ x \notin active /\ undo'[x] = <<>>
  <2> TAKE x \in active'
  <2>1. CASE x \in active
    <3>1. undo'[x] = undo[x] /\ Unique(undo[x])
      BY <1>1, <2>1, ZenonT(40) DEF Logged
    <3> QED
      BY <2>1, <3>1, Zenon
  <2>2. CASE x \notin active
    BY <1>1, <2>2, Zenon
  <2> QED
    BY <2>1, <2>2, Zenon
<1>3. heap'.tables = heap.tables /\ committed' = committed
  BY Zenon DEF catalog
<1> QED
  BY <1>1, <1>2, <1>3, SameLogs, ZenonT(40)

-----------------------------------------------------------------------------
(* The catalog, action by action. *)

\* A step from a session's lock that neither begins nor ends a transaction's log.
LEMMA QuietC ==
    ASSUME SInv, CInv, SInv', NEW w \in Workers, wk[w].pc \notin {"undo", "reload", "install"},
           \/ Refuse(w) \/ ReportTimeout(w) \/ LockTable(w) \/ FailStatement(w) \/ CommitFails(w)
           \/ HandleRollback(w) \/ EndForSession(w) \/ NothingToEnd(w)
    PROVE  CInv'
<1>1. UNCHANGED <<undo, catalog, committed, undoFailed, reloadFailed>>
  BY Zenon DEF Refuse, ReportTimeout, LockTable, FailStatement, CommitFails, HandleRollback, EndForSession,
         NothingToEnd, txns, history
<1>2. \/ \E a, b : Answer(w, a, b) \/ Leave(w, a, b)
      \/ \E t : Abort(w, t)
      \/ Goto(w, "write")
  BY Zenon DEF Refuse, ReportTimeout, LockTable, FailStatement, CommitFails, HandleRollback, EndForSession,
         NothingToEnd, AnswerError
<1>3. "write" \in Pcs
  BY Zenon DEF Pcs, Busy
<1>4. wk'[w].pc \in {"undo", "reload", "recv", "write"} /\ \A v \in Workers \ {w} : wk'[v] = wk[v]
  BY <1>2, <1>3, OnlyMine, ZenonT(40)
<1>5. Logged => Logged'
  BY <1>1, LogsStay, ZenonT(40)
<1> QED
  BY <1>1, <1>4, <1>5, SameCatalog, ZenonT(40)

LEMMA BeginC ==
    ASSUME SInv, TInv, CInv, SInv', NEW w \in Workers, HandleBegin(w) \/ StartStatement(w)
    PROVE  CInv'
<1>1. /\ Starts(w, "execute") /\ UNCHANGED <<catalog, committed, undoFailed, reloadFailed>>
      /\ \/ undo' = undo
         \/ /\ undo' = Put(undo, NewTxn(session(w)), <<>>)
            /\ mySlot(w).txn = {} \/ mySlot(w).tag = "None"
  BY Zenon DEF HandleBegin, StartStatement, Runs, history
<1>2. wk[w].pc = "lock" /\ session(w) \in Sessions /\ mutex[session(w)] = {}
  BY <1>1, Started, MyJob, ZenonT(40) DEF Starts
<1>3. undo' = undo \/ (undo' = Put(undo, NewTxn(session(w)), <<>>) /\ NewTxn(session(w)) \notin active)
  <2>1. SlotOK(session(w))
    BY <1>2, Zenon DEF SInv
  <2>2. mySlot(w).tag = "None" => mySlot(w).txn = {}
    BY <2>1, Zenon DEF SlotOK, mySlot
  <2> QED
    BY <1>1, <1>2, <2>2, IdLeft, ZenonT(40) DEF mySlot
<1>4. Logged => Logged'
  BY <1>1, <1>3, LogsStay, LogBegins, ZenonT(40)
<1>5. \A v \in Workers \ {w} : wk'[v] = wk[v]
  <2>1. CASE HandleBegin(w)
    BY <2>1, OnlyMine, ZenonT(40) DEF HandleBegin
  <2>2. CASE StartStatement(w)
    <3>1. wk \in [Workers -> Records]
      BY Zenon DEF SInv, SType
    <3> QED
      BY <2>2, <3>1, ZenonT(40) DEF StartStatement
  <2> QED
    BY <2>1, <2>2, ZenonT(40)
<1>6. wk'[w].pc \in {"recv", "acquire", "create"}
  <2>1. CASE HandleBegin(w)
    BY <2>1, OnlyMine, ZenonT(40) DEF HandleBegin
  <2>2. CASE StartStatement(w)
    <3>1. wk \in [Workers -> Records] /\ wk[w] \in Records
      BY Zenon DEF SInv, SType
    <3> QED
      BY <2>2, <3>1, ZenonT(40) DEF StartStatement, Records
  <2> QED
    BY <2>1, <2>2, ZenonT(40)
<1> QED
  BY <1>1, <1>2, <1>4, <1>5, <1>6, SameCatalog, ZenonT(40)

LEMMA CommitC ==
    ASSUME SInv, TInv, CInv, SInv', NEW w \in Workers, EndStatement(w) \/ HandleCommit(w)
    PROVE  CInv'
<1>1. /\ UNCHANGED <<catalog, undoFailed, reloadFailed>> /\ heap' = heap
      /\ \E a, b : Answer(w, a, b)
  BY Zenon DEF EndStatement, HandleCommit, catalog
<1>2. \/ UNCHANGED <<undo, catalog, committed>>
      \/ \E t \in active : CommitTxn(t)
  <2>1. CASE EndStatement(w) /\ wk[w].auto
    <3>1. Works(w)
      BY <2>1, Zenon DEF EndStatement, Works, At
    <3>2. txn(w) \in active
      BY <2>1, <3>1, WorkingTxn, ZenonT(40)
    <3> QED
      BY <2>1, <3>2, Zenon DEF EndStatement
  <2>2. CASE EndStatement(w) /\ ~wk[w].auto
    BY <2>2, Zenon DEF EndStatement
  <2>3. CASE HandleCommit(w)
    <3>1. /\ Starts(w, "execute") /\ mySlot(w).tag = "Active" /\ mySlot(w).txn \subseteq active
          /\ CommitTxn(The(mySlot(w).txn))
      BY <2>3, Zenon DEF HandleCommit, Runs
    <3>2. session(w) \in Sessions
      BY <3>1, Started, MyJob, ZenonT(40)
    <3>3. mySlot(w).txn # {}
      BY <3>1, <3>2, ZenonT(40) DEF SInv, SlotOK, mySlot
    <3>4. PICK t \in TxnIds : mySlot(w).txn = {t}
      BY <3>2, <3>3, SlotTxnId, ZenonT(40) DEF mySlot
    <3>5. The(mySlot(w).txn) = t
      BY <3>4, TheOne, Zenon
    <3> QED
      BY <3>1, <3>4, <3>5, ZenonT(40)
  <2> QED
    BY <2>1, <2>2, <2>3, ZenonT(40)
<1>3. Logged => Logged'
  <2>1. ASSUME NEW t \in active, CommitTxn(t), Logged PROVE Logged'
    <3>1. active' = active \ {t} /\ \A u \in active' : undo'[u] = undo[u]
      BY <2>1, Zenon DEF CommitTxn, Drop, active
    <3>2. committed' = committed \cup Tables(undo[t])
      BY <2>1, Zenon DEF CommitTxn, Tables
    <3> QED
      BY <1>1, <2>1, <3>1, <3>2, CommitsNames, ZenonT(40)
  <2> QED
    BY <1>2, <2>1, LogsStay, ZenonT(40)
<1>4. wk'[w].pc = "recv" /\ \A v \in Workers \ {w} : wk'[v] = wk[v]
  BY <1>1, OnlyMine, ZenonT(40)
<1>5. wk[w].pc \in {"write", "lock"}
  BY Started DEF EndStatement, HandleCommit, Runs, At
<1> QED
  BY <1>1, <1>3, <1>4, <1>5, SameCatalog, ZenonT(40)

\* With the mutation lock free, no reload is between its two steps.
LEMMA NoInstall ==
    ASSUME SInv, CType, mutation = {}
    PROVE  \A v \in Workers : wk[v].pc # "install" /\ wk[v].fresh = {}
<1>1. \A v \in Workers : wk[v].pc # "install"
  BY Zenon DEF CType, At
<1> QED
  BY <1>1 DEF SInv, Shapes, Shape

\* The rows and the cache change alike, under the mutation lock.
LEMMA BothChange ==
    ASSUME SInv, SInv', CInv, mutation = {}, UNCHANGED <<mutation, undoFailed, reloadFailed>>,
           heap' \in CatalogState, cache' \in CatalogState, splits' \in 0..MaxSplits,
           cache = heap => cache' = heap',
           heap.tables \subseteq cache.tables => heap'.tables \subseteq cache'.tables,
           \A v \in Workers : wk'[v].pc # "install" /\ (wk[v].pc \in {"undo", "reload"} => wk'[v] = wk[v]),
           ~undoFailed /\ ~reloadFailed /\ Logged /\ Cached => Logged'
    PROVE  CInv'
<1>1. \A v \in Workers : wk[v].pc # "install" /\ wk[v].fresh = {} /\ wk'[v].fresh = {}
  <2>1. \A v \in Workers : Shape(wk'[v])
    BY ZenonT(40) DEF SInv, Shapes, Shape
  <2>2. \A v \in Workers : wk[v].pc # "install" /\ wk[v].fresh = {}
    BY NoInstall, Zenon DEF CInv
  <2> QED
    BY <2>1, <2>2, ZenonT(40) DEF Shape
<1>2. CType'
  <2>1. \A v \in Workers : At(v, "install")' <=> mutation' = {v}
    BY <1>1, Zenon DEF At
  <2>2. mutation' \in Option(Workers)
    BY Zenon DEF CInv, CType
  <2> QED
    BY <2>1, <2>2, ZenonT(40) DEF CType
<1>3. Stale => Stale'
  BY Zenon DEF Stale, At
<1>4. Cached => Cached'
  <2>1. SUFFICES ASSUME Cached PROVE Cached'
    OBVIOUS
  <2>2. heap'.tables \subseteq cache'.tables
    BY <2>1, Zenon DEF Cached
  <2>3. Stale' \/ cache' = heap'
    BY <1>1, <1>3, <2>1, ZenonT(40) DEF Cached, At
  <2> QED
    BY <1>1, <2>2, <2>3, ZenonT(40) DEF Cached
<1> QED
  BY <1>2, <1>4, Zenon DEF CInv

\* A log gets a record.
LEMMA LogWritten ==
    ASSUME NEW t, NEW log, undo' = [undo EXCEPT ![t] = log]
    PROVE  active' = active /\ \A u \in active : undo'[u] = IF u = t THEN log ELSE undo[u]
  BY Zenon DEF active

LEMMA SplitRootC ==
    ASSUME SInv, TInv, CInv, SInv', NEW w \in Workers, SplitRoot(w)
    PROVE  CInv'
<1>1. /\ mutation = {} /\ UNCHANGED <<mutation, committed, undoFailed, reloadFailed>> /\ wk' = wk
      /\ splits < MaxSplits /\ splits' = splits + 1
      /\ heap' = [heap EXCEPT !.root = splits + 1] /\ cache' = [cache EXCEPT !.root = splits + 1]
      /\ undo' = [undo EXCEPT ![txn(w)] = Append(undo[txn(w)], [root |-> heap.root])]
  BY Zenon DEF SplitRoot, history
<1>2. heap \in CatalogState /\ cache \in CatalogState /\ splits \in 0..MaxSplits /\ MaxSplits \in Nat
  BY EngineBounds, Zenon DEF CInv, CType
<1>3. splits' \in 0..MaxSplits /\ splits + 1 \in Roots
  BY <1>1, <1>2 DEF Roots
<1>4. /\ heap' \in CatalogState /\ heap'.tables = heap.tables
      /\ cache' \in CatalogState /\ cache'.tables = cache.tables
  BY <1>1, <1>2, <1>3, ZenonT(40) DEF CatalogState
<1>5. Logged => Logged'
  <2>1. SUFFICES ASSUME Logged PROVE Logged'
    OBVIOUS
  <2> DEFINE log == Append(undo[txn(w)], [root |-> heap.root])
  <2>2. active' = active /\ \A u \in active : undo'[u] = IF u = txn(w) THEN log ELSE undo[u]
    BY <1>1, LogWritten, ZenonT(40)
  <2>3. txn(w) \in active => Tables(log) = Tables(undo[txn(w)]) /\ Unique(log)
    <3>1. SUFFICES ASSUME txn(w) \in active PROVE Tables(log) = Tables(undo[txn(w)]) /\ Unique(log)
      OBVIOUS
    <3>2. undo[txn(w)] \in Seq(UndoRecords) /\ Unique(undo[txn(w)])
      BY <2>1, <3>1, ZenonT(40) DEF TInv, TType, Logged
    <3>3. [root |-> heap.root] \in UndoRecords
      BY <1>2, Zenon DEF CatalogState, UndoRecords
    <3>4. "table" \notin DOMAIN [root |-> heap.root]
      BY NewRecords, Zenon
    <3> QED
      BY <3>2, <3>3, <3>4, AppendRecord, ZenonT(40)
  <2> HIDE DEF log
  <2>4. \A u \in active : Unique(undo[u])
    BY <2>1, Zenon DEF Logged
  <2>5. \A u \in active' : u \in active /\ Tables(undo'[u]) = Tables(undo[u]) /\ Unique(undo'[u])
    BY <2>2, <2>3, <2>4, ZenonT(40)
  <2> QED
    BY <1>1, <1>4, <2>1, <2>2, <2>5, SameLogs, ZenonT(40)
<1>6. \A v \in Workers : wk'[v].pc # "install"
  BY <1>1, NoInstall, ZenonT(40) DEF CInv
<1>7. cache = heap => cache' = heap'
  BY <1>1, Zenon
<1>8. /\ heap.tables \subseteq cache.tables => heap'.tables \subseteq cache'.tables
      /\ \A v \in Workers : wk'[v].pc # "install" /\ (wk[v].pc \in {"undo", "reload"} => wk'[v] = wk[v])
  BY <1>1, <1>4, <1>6, ZenonT(40)
<1> QED
  BY <1>1, <1>3, <1>4, <1>5, <1>7, <1>8, BothChange, ZenonT(40)

LEMMA CreateTableC ==
    ASSUME SInv, TInv, CInv, SInv', NEW w \in Workers, CreateTable(w)
    PROVE  CInv'
<1>1. /\ At(w, "create") /\ Goto(w, "write") /\ mutation = {} /\ splits' = splits
      /\ UNCHANGED <<mutation, committed, undoFailed, reloadFailed>>
  BY Zenon DEF CreateTable, history
<1>2. PICK n \in Names \ cache.tables :
          /\ heap' = [heap EXCEPT !.tables = @ \cup {n}] /\ cache' = [cache EXCEPT !.tables = @ \cup {n}]
          /\ undo' = IF txn(w) \in active
                     THEN [undo EXCEPT ![txn(w)] = Append(@, [table |-> n])] ELSE undo
  BY Zenon DEF CreateTable
<1>3. heap \in CatalogState /\ cache \in CatalogState /\ splits' \in 0..MaxSplits
  BY <1>1 DEF CInv, CType
<1>4. /\ heap' \in CatalogState /\ heap'.tables = heap.tables \cup {n}
      /\ cache' \in CatalogState /\ cache'.tables = cache.tables \cup {n}
  BY <1>2, <1>3, Zenon DEF CatalogState
<1>5. ~undoFailed /\ ~reloadFailed /\ Logged /\ Cached => Logged'
  <2>1. SUFFICES ASSUME ~reloadFailed, Logged, Cached PROVE Logged'
    OBVIOUS
  <2>2. Works(w)
    BY <1>1 DEF Works, At
  <2>3. txn(w) \in active
    BY <2>1, <2>2, WorkingTxn
  <2> DEFINE log == Append(undo[txn(w)], [table |-> n])
  <2>4. undo' = [undo EXCEPT ![txn(w)] = log]
    BY <1>2, <2>3, ZenonT(40)
  <2>5. active' = active /\ \A u \in active : undo'[u] = IF u = txn(w) THEN log ELSE undo[u]
    BY <2>4, LogWritten, ZenonT(40)
  <2>6. n \notin heap.tables
    BY <1>2, <2>1, ZenonT(40) DEF Cached
  <2>7. n \notin Tables(undo[txn(w)])
    BY <2>1, <2>3, <2>6, RowNames, ZenonT(40)
  <2>8. Tables(log) = Tables(undo[txn(w)]) \cup {n} /\ Unique(log)
    <3>1. undo[txn(w)] \in Seq(UndoRecords) /\ Unique(undo[txn(w)])
      BY <2>1, <2>3, ZenonT(40) DEF TInv, TType, Logged
    <3>2. [table |-> n] \in UndoRecords
      BY Zenon DEF UndoRecords
    <3>3. "table" \in DOMAIN [table |-> n] /\ [table |-> n].table = n
      BY NewRecords, Zenon
    <3> QED
      BY <2>7, <3>1, <3>2, <3>3, AppendRecord, ZenonT(40)
  <2> HIDE DEF log
  <2>9. /\ undo'[txn(w)] = log
        /\ \A u \in active : u # txn(w) => undo'[u] = undo[u]
    BY <2>3, <2>5, ZenonT(40)
  <2> QED
    BY <1>1, <1>4, <2>1, <2>3, <2>5, <2>6, <2>8, <2>9, CreatesName, ZenonT(40)
<1>6. \A v \in Workers : wk'[v].pc # "install" /\ (wk[v].pc \in {"undo", "reload"} => wk'[v] = wk[v])
  <2>1. \A v \in Workers : wk[v].pc # "install"
    BY <1>1, NoInstall, ZenonT(40) DEF CInv
  <2>2. "write" \in Pcs
    BY Zenon DEF Pcs, Busy
  <2>3. wk'[w].pc = "write" /\ \A v \in Workers \ {w} : wk'[v] = wk[v]
    BY <1>1, <2>2, OnlyMine, ZenonT(40)
  <2> QED
    BY <1>1, <2>1, <2>3, ZenonT(40) DEF At
<1>7. cache = heap => cache' = heap'
  BY <1>2, Zenon
<1>8. heap.tables \subseteq cache.tables => heap'.tables \subseteq cache'.tables
  BY <1>4, Zenon
<1> QED
  BY <1>1, <1>3, <1>4, <1>5, <1>6, <1>7, <1>8, BothChange, ZenonT(40)

LEMMA UndoRecordC ==
    ASSUME SInv, TInv, CInv, SInv', NEW w \in Workers, UndoRecord(w)
    PROVE  CInv'
<1> DEFINE log == undo[txn(w)]
           r == log[Len(log)]
           rest == SubSeq(log, 1, Len(log) - 1)
<1>1. /\ At(w, "undo") /\ log # <<>> /\ undo' = [undo EXCEPT ![txn(w)] = rest]
      /\ UNCHANGED <<wk, cache, mutation, splits, committed, undoFailed, reloadFailed>>
      /\ \/ "root" \in DOMAIN r /\ heap' = [heap EXCEPT !.root = r.root]
         \/ "table" \in DOMAIN r /\ heap' = [heap EXCEPT !.tables = heap.tables \ {r.table}]
  BY Zenon DEF UndoRecord, history
<1>2. log \in Seq(UndoRecords) /\ txn(w) \in active
  BY <1>1, Undoing, Zenon
<1>3. r \in UndoRecords
  BY <1>1, <1>2
<1>4. \/ "root" \in DOMAIN r /\ "table" \notin DOMAIN r /\ r.root \in Roots
         /\ heap' = [heap EXCEPT !.root = r.root]
      \/ "table" \in DOMAIN r /\ "root" \notin DOMAIN r
         /\ heap' = [heap EXCEPT !.tables = heap.tables \ {r.table}]
  BY <1>1, <1>3, RecordKinds, ZenonT(40)
<1>5. Unique(log) => /\ Unique(rest)
                     /\ "table" \notin DOMAIN r => Tables(rest) = Tables(log)
                     /\ "table" \in DOMAIN r => r.table \in Tables(log) /\ Tables(rest) = Tables(log) \ {r.table}
  BY <1>1, <1>2, UndoLast, ZenonT(40)
<1>6. active' = active /\ \A u \in active : undo'[u] = IF u = txn(w) THEN rest ELSE undo[u]
  BY <1>1, LogWritten, Zenon
<1> HIDE DEF rest, r
<1>7. heap \in CatalogState
  BY Zenon DEF CInv, CType
<1>8. /\ heap' \in CatalogState
      /\ "table" \notin DOMAIN r => heap'.tables = heap.tables
      /\ "table" \in DOMAIN r => heap'.tables = heap.tables \ {r.table}
  BY <1>4, <1>7, ZenonT(40) DEF CatalogState
<1>9. CType'
  BY <1>1, <1>8, ZenonT(40) DEF CInv, CType, At
<1>10. Logged => Logged'
  <2>1. SUFFICES ASSUME Logged PROVE Logged'
    OBVIOUS
  <2>2. \A u \in active : Unique(undo[u])
    BY <2>1, Zenon DEF Logged
  <2>3. Unique(log)
    BY <1>2, <2>2, ZenonT(40)
  <2>4. undo'[txn(w)] = rest /\ \A u \in active : u # txn(w) => undo'[u] = undo[u]
    BY <1>2, <1>6, ZenonT(40)
  <2>5. CASE "table" \notin DOMAIN r
    <3>1. \A u \in active' : u \in active /\ Tables(undo'[u]) = Tables(undo[u]) /\ Unique(undo'[u])
      BY <1>5, <1>6, <2>2, <2>3, <2>4, <2>5, ZenonT(40)
    <3> QED
      BY <1>1, <1>6, <1>8, <2>1, <2>5, <3>1, SameLogs, ZenonT(40)
  <2>6. CASE "table" \in DOMAIN r
    <3>1. PICK n : n = r.table
      OBVIOUS
    <3>2. /\ heap'.tables = heap.tables \ {n} /\ n \in Tables(undo[txn(w)]) /\ Unique(undo'[txn(w)])
          /\ Tables(undo'[txn(w)]) = Tables(undo[txn(w)]) \ {n}
      BY <1>5, <1>8, <2>3, <2>4, <2>6, <3>1, ZenonT(40)
    <3> QED
      BY <1>1, <1>2, <1>6, <2>1, <2>4, <3>2, RemovesName, ZenonT(40)
  <2> QED
    BY <2>5, <2>6, ZenonT(40)
<1>11. Stale'
  BY <1>1, Zenon DEF Stale, At
<1>12. heap'.tables \subseteq heap.tables
  BY <1>8, ZenonT(40)
<1>13. Cached => Cached'
  <2>1. SUFFICES ASSUME Cached PROVE Cached'
    OBVIOUS
  <2>2. heap'.tables \subseteq cache'.tables
    BY <1>1, <1>12, <2>1, ZenonT(40) DEF Cached
  <2>3. \A v \in Workers : \A c \in wk'[v].fresh : heap'.tables \subseteq c.tables
    <3>1. \A v \in Workers : \A c \in wk[v].fresh : heap.tables \subseteq c.tables
      BY <2>1, Zenon DEF Cached
    <3> QED
      BY <1>1, <1>12, <3>1, ZenonT(40)
  <2> QED
    BY <1>11, <2>2, <2>3, ZenonT(40) DEF Cached
<1> QED
  BY <1>1, <1>9, <1>10, <1>13, ZenonT(40) DEF CInv

LEMMA FinishAbortC ==
    ASSUME SInv, TInv, CInv, SInv', NEW w \in Workers, FinishAbort(w)
    PROVE  CInv'
<1>1. /\ wk[w].pc = "undo" /\ undo[txn(w)] = <<>> /\ undo' = Drop(undo, txn(w))
      /\ UNCHANGED <<catalog, committed, undoFailed, reloadFailed>> /\ AbortReturns(w, TRUE)
  BY Zenon DEF FinishAbort, At
<1>2. wk'[w].pc = "reload" /\ \A v \in Workers \ {w} : wk'[v] = wk[v]
  BY <1>1, OnlyMine, Zenon
<1>3. Logged => Logged'
  <2>1. SUFFICES ASSUME Logged PROVE Logged'
    OBVIOUS
  <2>2. active' = active \ {txn(w)} /\ \A x \in active' : undo'[x] = undo[x]
    BY <1>1, Zenon DEF active, Drop
  <2>3. \A x \in active' : x \in active /\ Tables(undo'[x]) = Tables(undo[x]) /\ Unique(undo'[x])
    <3>1. \A x \in active : Unique(undo[x])
      BY <2>1, Zenon DEF Logged
    <3> QED
      BY <2>2, <3>1, ZenonT(40)
  <2>4. \A x \in active : x \in active' \/ undo[x] = <<>>
    BY <1>1, <2>2, Zenon
  <2>5. heap'.tables = heap.tables /\ committed' = committed
    BY <1>1, Zenon DEF catalog
  <2> QED
    BY <2>1, <2>3, <2>4, <2>5, SameLogs, ZenonT(40)
<1> QED
  BY <1>1, <1>2, <1>3, SameCatalog, ZenonT(40)

LEMMA UndoFailsC ==
    ASSUME SInv, CInv, SInv', NEW w \in Workers, UndoFails(w)
    PROVE  CInv'
<1>1. wk[w].pc = "undo" /\ undoFailed' /\ UNCHANGED catalog /\ AbortReturns(w, FALSE)
  BY Zenon DEF UndoFails, At
<1>2. wk'[w].pc # "install" /\ \A v \in Workers \ {w} : wk'[v] = wk[v]
  BY <1>1, OnlyMine, Zenon
<1>3. CType'
  BY <1>1, <1>2, Elsewhere, SameCType, ZenonT(40) DEF CInv
<1> QED
  BY <1>1, <1>3, Zenon DEF CInv

\* The one worker between the two steps of a reload.
LEMMA OneInstalls ==
    ASSUME SInv, CType, NEW w \in Workers, wk[w].pc = "install"
    PROVE  /\ mutation = {w} /\ \E c \in CatalogState : wk[w].fresh = {c}
           /\ \A v \in Workers \ {w} : wk[v].pc # "install" /\ wk[v].fresh = {}
<1>1. mutation = {w} /\ \A v \in Workers \ {w} : wk[v].pc # "install"
  BY Zenon DEF CType, At
<1>2. \A v \in Workers : Shape(wk[v]) /\ wk[v] \in Records
  BY Zenon DEF SInv, Shapes, SType
<1>3. \A v \in Workers \ {w} : wk[v].fresh = {}
  BY <1>1, <1>2, Zenon DEF Shape
<1>4. \E c \in CatalogState : wk[w].fresh = {c}
  BY <1>2, Zenon DEF Shape, Records, Option
<1> QED
  BY <1>1, <1>3, <1>4, ZenonT(40)

LEMMA ReadCatalogC ==
    ASSUME SInv, CInv, SInv', NEW w \in Workers, ReadCatalog(w)
    PROVE  CInv'
<1>1. /\ mutation = {} /\ mutation' = {w}
      /\ wk' = [wk EXCEPT ![w].pc = "install", ![w].fresh = {heap}]
      /\ UNCHANGED <<undo, heap, cache, splits, committed, undoFailed, reloadFailed>>
  BY DEF ReadCatalog, txns, history
<1>2. wk \in [Workers -> Records] /\ wk[w] \in Records
  BY Zenon DEF SInv, SType
<1>3. \A v \in Workers : wk[v].pc # "install" /\ wk[v].fresh = {}
  BY <1>1, NoInstall, Zenon DEF CInv
<1>4. \A v \in Workers \ {w} : wk'[v] = wk[v]
  BY <1>1, <1>2
<1>5. wk'[w].pc = "install" /\ wk'[w].fresh = {heap}
  BY <1>1, <1>2, ZenonT(40) DEF Records
<1>6. \A v \in Workers : At(v, "install")' <=> v = w
  BY <1>3, <1>4, <1>5 DEF At
<1>7. CType'
  <2>1. \A v \in Workers : At(v, "install")' <=> mutation' = {v}
    BY <1>1, <1>6, Zenon
  <2>2. mutation' \in Option(Workers)
    BY <1>1, Zenon DEF Option
  <2> QED
    BY <1>1, <2>1, <2>2, ZenonT(40) DEF CInv, CType
<1>8. Logged => Logged'
  BY <1>1, Zenon DEF Logged, active
<1>9. Cached => Cached'
  <2>1. SUFFICES ASSUME Cached PROVE Cached'
    OBVIOUS
  <2>2. \A v \in Workers : \A c \in wk'[v].fresh : c = heap
    BY <1>3, <1>4, <1>5, ZenonT(40)
  <2>3. heap'.tables \subseteq cache'.tables
    BY <1>1, <2>1, ZenonT(40) DEF Cached
  <2>4. \A v \in Workers : \A c \in wk'[v].fresh : heap'.tables \subseteq c.tables /\ (Stale' \/ c = heap')
    BY <1>1, <2>2, ZenonT(40)
  <2>5. \E v \in Workers : At(v, "install")'
    BY <1>6, Zenon
  <2> QED
    BY <2>3, <2>4, <2>5, ZenonT(40) DEF Cached
<1> QED
  BY <1>1, <1>7, <1>8, <1>9, ZenonT(40) DEF CInv

\* How a reload's worker leaves.
LEMMA ReloadLeaves ==
    ASSUME SInv, NEW w \in Workers, NEW ok, ReloadReturns(w, ok)
    PROVE  wk'[w].pc = "recv" /\ \A v \in Workers \ {w} : wk'[v] = wk[v]
<1>1. \E a, b : Answer(w, a, b) \/ Leave(w, a, b)
  BY Zenon DEF ReloadReturns, AnswerError
<1> QED
  BY <1>1, OnlyMine, ZenonT(40)

LEMMA InstallCatalogC ==
    ASSUME SInv, CInv, SInv', NEW w \in Workers, InstallCatalog(w)
    PROVE  CInv'
<1>1. /\ wk[w].pc = "install" /\ cache' = The(wk[w].fresh) /\ mutation' = {} /\ ReloadReturns(w, TRUE)
      /\ UNCHANGED <<undo, heap, splits, committed, undoFailed, reloadFailed>>
  BY Zenon DEF InstallCatalog, At, txns, history
<1>2. wk'[w].pc = "recv" /\ \A v \in Workers \ {w} : wk'[v] = wk[v]
  BY <1>1, ReloadLeaves, Zenon
<1>3. CType
  BY Zenon DEF CInv
<1>4. \A v \in Workers \ {w} : wk[v].pc # "install" /\ wk[v].fresh = {}
  BY <1>1, <1>3, OneInstalls, ZenonT(40)
<1>5. PICK c \in CatalogState : wk[w].fresh = {c}
  BY <1>1, <1>3, OneInstalls, ZenonT(40)
<1>6. cache' = c
  BY <1>1, <1>5, TheOne, ZenonT(40)
<1>7. \A v \in Workers : wk'[v].pc # "install"
  BY <1>2, <1>4, ZenonT(40)
<1>8. \A v \in Workers : wk'[v].fresh = {}
  <2>1. \A v \in Workers : Shape(wk'[v])
    BY ZenonT(40) DEF SInv, Shapes, Shape
  <2> QED
    BY <1>7, <2>1, ZenonT(40) DEF Shape
<1>9. CType'
  <2>1. \A v \in Workers : At(v, "install")' <=> mutation' = {v}
    BY <1>1, <1>7, ZenonT(40) DEF At
  <2>2. mutation' \in Option(Workers)
    BY <1>1, ZenonT(40) DEF Option
  <2> QED
    BY <1>1, <1>3, <1>6, <2>1, <2>2, ZenonT(40) DEF CType
<1>10. Logged => Logged'
  BY <1>1, ZenonT(40) DEF Logged, active
<1>11. Stale => Stale'
  BY <1>1, <1>2, ZenonT(40) DEF Stale, At
<1>12. Cached => Cached'
  <2>1. SUFFICES ASSUME Cached PROVE Cached'
    OBVIOUS
  <2>2. heap.tables \subseteq c.tables /\ (Stale \/ c = heap)
    BY <1>5, <2>1, ZenonT(40) DEF Cached
  <2>3. heap'.tables \subseteq cache'.tables /\ (Stale' \/ cache' = heap')
    BY <1>1, <1>6, <1>11, <2>2, ZenonT(40)
  <2> QED
    BY <1>8, <2>3, ZenonT(40) DEF Cached
<1> QED
  BY <1>1, <1>9, <1>10, <1>12, ZenonT(40) DEF CInv

LEMMA ReloadFailsC ==
    ASSUME SInv, CInv, SInv', NEW w \in Workers, ReloadFails(w)
    PROVE  CInv'
<1>1. /\ wk[w].pc \in {"reload", "install"} /\ reloadFailed' /\ mutation' = mutation \ {w}
      /\ cache' \in {cache} \cup wk[w].fresh /\ heap' = heap /\ splits' = splits /\ ReloadReturns(w, FALSE)
  BY Zenon DEF ReloadFails, At
<1>2. wk'[w].pc = "recv" /\ \A v \in Workers \ {w} : wk'[v] = wk[v]
  BY <1>1, ReloadLeaves, ZenonT(40)
<1>3. CType /\ wk[w] \in Records
  BY Zenon DEF CInv, SInv, SType
<1>4. cache' \in CatalogState
  BY <1>1, <1>3 DEF CType, Records, Option
<1>5. mutation' \in Option(Workers)
  BY <1>1, <1>3 DEF CType, Option
<1>6. \A v \in Workers : At(v, "install")' <=> mutation' = {v}
  <2>1. CASE wk[w].pc = "install"
    BY <1>1, <1>2, <1>3, <2>1, OneInstalls, ZenonT(40) DEF At
  <2>2. CASE wk[w].pc = "reload"
    BY <1>1, <1>2, <1>3, <2>2, ZenonT(40) DEF CType, At, Option
  <2> QED
    BY <1>1, <2>1, <2>2, ZenonT(40)
<1>7. CType'
  BY <1>1, <1>3, <1>4, <1>5, <1>6, ZenonT(40) DEF CType
<1> QED
  BY <1>1, <1>7, ZenonT(40) DEF CInv

-----------------------------------------------------------------------------
(* Clients, the dispatch thread and idle workers, with the transactions and the catalog. *)

LEMMA IdleStep ==
    ASSUME SInv, TInv, CInv, SInv', UNCHANGED <<slot, mutex, txns, catalog, faults, history>>,
           \A v \in Workers : wk'[v] = wk[v] \/ (wk[v].pc \notin Busy /\ wk'[v].pc \notin Busy),
           \A s \in sessions : s \in sessions' \/ Queued("disconnect", s)',
           \A s \in Sessions : Queued("disconnect", s) => Queued("disconnect", s)',
           \A s \in sessions' \ sessions : slot[s].txn = {}
    PROVE  EInv'
<1>1. TInv'
  BY IdleTxns, Zenon
<1>2. UNCHANGED <<undo, catalog, history>>
  BY Zenon DEF txns
<1>3. CInv'
  BY <1>2, IdleCatalog, Zenon
<1> QED
  BY <1>1, <1>3, Zenon DEF EInv

LEMMA ConnectStep ==
    ASSUME SInv, TInv, CInv, NEW s \in Sessions, Connect(s)
    PROVE  EInv'
<1>1. /\ client[s] = "new" /\ sessions' = sessions \cup {s} /\ wk' = wk /\ jobs' = jobs
      /\ UNCHANGED <<slot, mutex, txns, catalog, faults, history>>
  BY ZenonT(40) DEF Connect, state
<1>2. SInv' /\ slot[s].txn = {}
  BY <1>1, ConnectS DEF SInv, SlotOK
<1>3. \A u \in Sessions : Queued("disconnect", u) => Queued("disconnect", u)'
  BY <1>1, Zenon DEF Queued
<1>4. /\ \A u \in sessions : u \in sessions' \/ Queued("disconnect", u)'
      /\ \A u \in sessions' \ sessions : slot[u].txn = {}
  BY <1>1, <1>2, Zenon
<1>5. \A v \in Workers : wk'[v] = wk[v] \/ (wk[v].pc \notin Busy /\ wk'[v].pc \notin Busy)
  BY <1>1, Zenon
<1> QED
  BY <1>1, <1>2, <1>3, <1>4, <1>5, IdleStep, ZenonT(40)

\* A job is queued, and no other session leaves the table.
LEMMA QueueStep ==
    ASSUME SInv, TInv, CInv, SInv', NEW ms \in Seq(Jobs), jobs' = jobs \o ms, wk' = wk,
           UNCHANGED <<slot, mutex, txns, catalog, faults, history>>, sessions' \subseteq sessions,
           \A s \in sessions \ sessions' : \E i \in 1..Len(ms) : ms[i].kind = "disconnect" /\ ms[i].session = s
    PROVE  EInv'
<1>1. jobs \in Seq(Jobs) /\ Len(jobs) \in Nat /\ Len(ms) \in Nat
  BY DEF SInv, SType
<1>2. /\ DOMAIN jobs' = 1..(Len(jobs) + Len(ms)) /\ DOMAIN jobs = 1..Len(jobs)
      /\ \A i \in 1..Len(jobs) : jobs'[i] = jobs[i]
      /\ \A i \in 1..Len(ms) : jobs'[Len(jobs) + i] = ms[i]
  BY <1>1
<1>3. /\ \A i \in DOMAIN jobs : i \in DOMAIN jobs' /\ jobs'[i] = jobs[i]
      /\ \A i \in 1..Len(ms) : Len(jobs) + i \in DOMAIN jobs' /\ jobs'[Len(jobs) + i] = ms[i]
  BY <1>1, <1>2
<1>4. \A u \in Sessions : Queued("disconnect", u) => Queued("disconnect", u)'
  BY <1>3, Zenon DEF Queued
<1>5. \A u \in sessions : u \in sessions' \/ Queued("disconnect", u)'
  <2>1. SUFFICES ASSUME NEW u \in sessions \ sessions' PROVE Queued("disconnect", u)'
    OBVIOUS
  <2>2. PICK i \in 1..Len(ms) : ms[i].kind = "disconnect" /\ ms[i].session = u
    BY Zenon
  <2>3. PICK k \in DOMAIN jobs' : jobs'[k] = ms[i]
    BY <1>3, Zenon
  <2> QED
    BY <2>2, <2>3, ZenonT(40) DEF Queued
<1>6. \A u \in sessions' \ sessions : slot[u].txn = {}
  BY Zenon
<1>7. \A v \in Workers : wk'[v] = wk[v] \/ (wk[v].pc \notin Busy /\ wk'[v].pc \notin Busy)
  BY Zenon
<1> QED
  BY <1>4, <1>5, <1>6, <1>7, IdleStep, ZenonT(40)

LEMMA ExecuteStep ==
    ASSUME SInv, TInv, CInv, NEW s \in Sessions, NEW stmt \in Statements, Execute(s, stmt)
    PROVE  EInv'
<1> DEFINE ms == <<Job("execute", s, stmt)>>
<1>1. /\ jobs' = jobs \o ms /\ wk' = wk /\ sessions' = sessions
      /\ UNCHANGED <<slot, mutex, txns, catalog, faults, history>>
  BY Zenon DEF Execute, Message, Submit, state, control
<1>2. ms \in Seq(Jobs)
  <2>1. Job("execute", s, stmt) \in Jobs
    BY Zenon DEF Job, Jobs, SessionJobs
  <2> QED
    BY <2>1
<1>3. SInv'
  BY ExecuteS, Zenon
<1> HIDE DEF ms
<1> QED
  BY <1>1, <1>2, <1>3, QueueStep, ZenonT(40)

LEMMA DropSessionStep ==
    ASSUME SInv, TInv, CInv, NEW s \in Sessions, DropSession(s)
    PROVE  EInv'
<1> DEFINE m == Job("disconnect", s, NoStatement)
<1>1. /\ jobs' = jobs \o <<m>> /\ wk' = wk /\ sessions' = sessions \ {s}
      /\ UNCHANGED <<slot, mutex, txns, catalog, faults, history>>
  BY Zenon DEF DropSession, Message, Submit, state
<1>2. m \in Jobs /\ m.kind = "disconnect" /\ m.session = s
  BY Zenon DEF Job, Jobs, SessionJobs
<1>3. SInv'
  BY DropSessionS, Zenon
<1> HIDE DEF m
<1>4. <<m>> \in Seq(Jobs) /\ 1 \in 1..Len(<<m>>) /\ <<m>>[1] = m
  BY <1>2
<1>5. \A u \in sessions \ sessions' : \E i \in 1..Len(<<m>>) : <<m>>[i].kind = "disconnect" /\ <<m>>[i].session = u
  BY <1>1, <1>2, <1>4, Zenon
<1> QED
  BY <1>1, <1>3, <1>4, <1>5, QueueStep, ZenonT(40)

LEMMA DropEngineStep ==
    ASSUME SInv, TInv, CInv, DropEngine
    PROVE  EInv'
<1>1. /\ jobs' = jobs \o <<FlushJob>> /\ wk' = wk /\ sessions' = sessions
      /\ UNCHANGED <<slot, mutex, txns, catalog, faults, history>>
  BY Zenon DEF DropEngine, Message, Submit, state, FlushJob
<1>2. <<FlushJob>> \in Seq(Jobs)
  BY DEF Jobs
<1>3. SInv'
  BY DropEngineS, Zenon
<1> QED
  BY <1>1, <1>2, <1>3, QueueStep, ZenonT(40)

LEMMA TickStep ==
    ASSUME SInv, TInv, CInv, Tick
    PROVE  EInv'
<1>1. /\ wk' = wk /\ sessions' = sessions
      /\ UNCHANGED <<slot, mutex, txns, catalog, faults, history>>
  BY Zenon DEF Tick, control
<1>2. SInv' /\ \A u \in Sessions : Queued("disconnect", u) => Queued("disconnect", u)'
  BY TickS, Zenon
<1>3. /\ \A u \in sessions : u \in sessions' \/ Queued("disconnect", u)'
      /\ \A u \in sessions' \ sessions : slot[u].txn = {}
  BY <1>1, Zenon
<1>4. \A v \in Workers : wk'[v] = wk[v] \/ (wk[v].pc \notin Busy /\ wk'[v].pc \notin Busy)
  BY <1>1, Zenon
<1> QED
  BY <1>1, <1>2, <1>3, <1>4, IdleStep, ZenonT(40)

LEMMA StopsStep ==
    ASSUME SInv, TInv, CInv, EngineExits \/ JoinWorkers
    PROVE  EInv'
<1>1. /\ wk' = wk /\ jobs' = jobs /\ sessions' = sessions
      /\ UNCHANGED <<slot, mutex, txns, catalog, faults, history>>
  BY Zenon DEF EngineExits, JoinWorkers, state
<1>2. SInv'
  BY StopsS, Zenon
<1>3. \A u \in Sessions : Queued("disconnect", u) => Queued("disconnect", u)'
  BY <1>1, Zenon DEF Queued
<1>4. /\ \A u \in sessions : u \in sessions' \/ Queued("disconnect", u)'
      /\ \A u \in sessions' \ sessions : slot[u].txn = {}
  BY <1>1, Zenon
<1>5. \A v \in Workers : wk'[v] = wk[v] \/ (wk[v].pc \notin Busy /\ wk'[v].pc \notin Busy)
  BY <1>1, Zenon
<1> QED
  BY <1>1, <1>2, <1>3, <1>4, <1>5, IdleStep, ZenonT(40)

LEMMA TakeOrFlushStep ==
    ASSUME SInv, TInv, CInv, NEW w \in Workers, TakeJob(w) \/ Flush(w)
    PROVE  EInv'
<1>1. /\ sessions' = sessions /\ UNCHANGED <<slot, mutex, txns, catalog, faults, history>>
      /\ wk[w].pc \in {"recv", "flush"}
  BY Zenon DEF TakeJob, Flush, At, state, control
<1>2. SInv' /\ \A u \in Sessions : Queued("disconnect", u) => Queued("disconnect", u)'
  BY TakeJobS, FlushS
<1>3. wk \in [Workers -> Records] /\ wk[w] \in Records
  BY Zenon DEF SInv, SType
<1>4. wk'[w].pc \in {"recv", "flush", "lock"}
  <2>1. CASE TakeJob(w)
    BY <1>3, <2>1, Zenon DEF TakeJob, Records
  <2>2. CASE Flush(w)
    BY <1>3, <2>2, Zenon DEF Flush, Ready
  <2> QED
    BY <2>1, <2>2, Zenon
<1>5. \A v \in Workers \ {w} : wk'[v] = wk[v]
  <2>1. CASE TakeJob(w)
    BY <1>3, <2>1, Zenon DEF TakeJob
  <2>2. CASE Flush(w)
    BY <1>3, <2>2, Zenon DEF Flush
  <2> QED
    BY <2>1, <2>2, Zenon
<1>6. \A v \in Workers : wk'[v] = wk[v] \/ (wk[v].pc \notin Busy /\ wk'[v].pc \notin Busy)
  BY <1>1, <1>4, <1>5, ZenonT(40) DEF Busy
<1>7. /\ \A u \in sessions : u \in sessions' \/ Queued("disconnect", u)'
      /\ \A u \in sessions' \ sessions : slot[u].txn = {}
  BY <1>1, Zenon
<1> QED
  BY <1>1, <1>2, <1>6, <1>7, IdleStep, ZenonT(40)

-----------------------------------------------------------------------------
(* The invariant. *)

LEMMA InitS ==
    ASSUME Init
    PROVE  SInv
<1>1. /\ client = [s \in Sessions |-> "new"] /\ view = [s \in Sessions |-> {}]
      /\ engine = "open" /\ sessions = {} /\ slot = [s \in Sessions |-> NoSlot]
      /\ idle = [s \in Sessions |-> "none"] /\ mutex = [s \in Sessions |-> {}]
      /\ jobs = <<>> /\ wk = [w \in Workers |-> Ready]
  BY Zenon DEF Init
<1>2. NoSlot \in Slots /\ NoSlot.txn = {} /\ NoSlot.tag = "None"
  BY Zenon DEF NoSlot, Slots, Option
<1>3. /\ Ready \in Records /\ Ready.pc = "recv" /\ Ready.job = {} /\ Ready.txn = {}
      /\ ~Ready.auto /\ Ready.fresh = {}
  BY Zenon DEF Ready, Records, Pcs, Option
<1>4. \A w \in Workers : wk[w] = Ready
  BY <1>1, Zenon
<1>5. SType
  <2>1. {} \in Option(TxnIds) /\ {} \in Option(Workers)
    BY Zenon DEF Option
  <2> QED
    BY <1>1, <1>2, <1>3, <2>1 DEF SType
<1>6. Shapes
  BY <1>3, <1>4, ZenonT(40) DEF Shapes, Shape, Busy
<1>7. Locks
  BY <1>1, <1>3, <1>4, ZenonT(40) DEF Locks, Holds, Held, Busy
<1>8. \A s \in Sessions : SlotOK(s)
  BY <1>1, <1>2, ZenonT(40) DEF SlotOK
<1>9. JobsOK /\ FlushLast
  BY <1>1, <1>3, <1>4 DEF JobsOK, FlushLast
<1>10. Answered
  BY <1>1, Zenon DEF Answered
<1> QED
  BY <1>5, <1>6, <1>7, <1>8, <1>9, <1>10 DEF SInv

LEMMA InitInv ==
    ASSUME Init
    PROVE  EInv
<1>1. /\ sessions = {} /\ undo = <<>> /\ aborting = {} /\ locked = {}
      /\ heap = [tables |-> {}, root |-> 0] /\ cache = heap /\ mutation = {} /\ splits = 0 /\ faults = 0
      /\ committed = {} /\ failed = {} /\ undoFailed = FALSE /\ reloadFailed = FALSE
      /\ wk = [w \in Workers |-> Ready]
  BY Zenon DEF Init
<1>2. active = {}
  BY <1>1 DEF active
<1>3. \A w \in Workers : wk[w].pc = "recv" /\ wk[w].fresh = {}
  BY <1>1 DEF Ready
<1>4. TInv
  <2>1. TType
    BY <1>1, <1>2, ZenonT(40) DEF TType, Option
  <2>2. Faulty
    <3>1. IsFiniteSet(failed) /\ Cardinality(failed) = 0 /\ MaxFaults \in Nat
      BY <1>1, FS_EmptySet, EngineBounds, ZenonT(40)
    <3> QED
      BY <1>1, <3>1 DEF Faulty
  <2>3. \A w \in Workers : WorkerTxn(w)
    BY <1>3, Zenon DEF WorkerTxn, Works, At
  <2> QED
    BY <1>1, <1>2, <2>1, <2>2, <2>3, ZenonT(40) DEF TInv, SlotTxn
<1>5. CInv
  <2>1. CType
    <3>1. MaxSplits \in Nat
      BY EngineBounds, Zenon
    <3> QED
      BY <1>1, <1>3, <3>1 DEF CType, CatalogState, Roots, Option, At
  <2>2. Logged
    BY <1>1, <1>2, ZenonT(40) DEF Logged
  <2>3. Cached
    BY <1>1, <1>3, Zenon DEF Cached
  <2> QED
    BY <2>1, <2>2, <2>3, ZenonT(40) DEF CInv
<1> QED
  BY <1>4, <1>5, InitS, ZenonT(40) DEF EInv

LEMMA WorkerStep ==
    ASSUME EInv, NEW w \in Workers, Worker(w)
    PROVE  EInv'
<1>1. SInv /\ TInv /\ CInv /\ heap \in CatalogState
  BY Zenon DEF EInv, CInv, CType
<1>2. CASE TakeJob(w) \/ Flush(w)
  BY <1>1, <1>2, TakeOrFlushStep, ZenonT(40)
<1>3. CASE \/ Refuse(w) \/ ReportTimeout(w) \/ LockTable(w) \/ FailStatement(w) \/ CommitFails(w)
           \/ HandleRollback(w) \/ EndForSession(w) \/ NothingToEnd(w)
  <2>1. SInv' /\ TInv'
    BY <1>1, <1>3, RefuseStep, ReportTimeoutStep, LockTableStep, FailStatementStep, CommitFailsStep,
       HandleRollbackStep, EndForSessionStep, NothingToEndStep, ZenonT(40)
  <2>2. wk[w].pc \in {"lock", "acquire", "create", "write"}
    BY <1>3, ZenonT(40) DEF Refuse, ReportTimeout, LockTable, FailStatement, CommitFails, HandleRollback,
                EndForSession, NothingToEnd, Runs, Starts, At
  <2>3. CInv'
    BY <1>1, <1>3, <2>1, <2>2, QuietC, ZenonT(40)
  <2> QED
    BY <2>1, <2>3, Zenon DEF EInv
<1>4. CASE HandleBegin(w) \/ StartStatement(w)
  <2>1. SInv' /\ TInv'
    BY <1>1, <1>4, HandleBeginStep, StartStatementStep, ZenonT(40)
  <2> QED
    BY <1>1, <1>4, <2>1, BeginC, ZenonT(40) DEF EInv
<1>5. CASE EndStatement(w) \/ HandleCommit(w)
  <2>1. SInv' /\ TInv'
    BY <1>1, <1>5, EndStatementStep, HandleCommitStep, Zenon
  <2> QED
    BY <1>1, <1>5, <2>1, CommitC, Zenon DEF EInv
<1>6. CASE SplitRoot(w)
  BY <1>1, <1>6, SplitRootStep, SplitRootC, ZenonT(40) DEF EInv
<1>7. CASE CreateTable(w)
  BY <1>1, <1>7, CreateTableStep, CreateTableC, ZenonT(40) DEF EInv
<1>8. CASE UndoRecord(w)
  BY <1>1, <1>8, UndoRecordStep, UndoRecordC, Zenon DEF EInv
<1>9. CASE UndoFails(w)
  BY <1>1, <1>9, UndoFailsStep, UndoFailsC, ZenonT(40) DEF EInv
<1>10. CASE FinishAbort(w)
  BY <1>1, <1>10, FinishAbortStep, FinishAbortC, Zenon DEF EInv
<1>11. CASE ReadCatalog(w)
  BY <1>1, <1>11, ReadCatalogStep, ReadCatalogC, ZenonT(40) DEF EInv
<1>12. CASE InstallCatalog(w)
  BY <1>1, <1>12, InstallCatalogStep, InstallCatalogC, Zenon DEF EInv
<1>13. CASE ReloadFails(w)
  BY <1>1, <1>13, ReloadFailsStep, ReloadFailsC, Zenon DEF EInv
<1> QED
  BY <1>2, <1>3, <1>4, <1>5, <1>6, <1>7, <1>8, <1>9, <1>10, <1>11, <1>12, <1>13, ZenonT(40) DEF Worker

LEMMA StutterInv ==
    ASSUME EInv, UNCHANGED vars
    PROVE  EInv'
<1>1. SInv /\ TInv /\ CInv
  BY Zenon DEF EInv
<1>2. /\ client' = client /\ view' = view /\ engine' = engine /\ sessions' = sessions
      /\ slot' = slot /\ idle' = idle /\ mutex' = mutex /\ jobs' = jobs /\ wk' = wk
      /\ UNCHANGED <<slot, mutex, txns, catalog, faults, history>>
  BY Zenon DEF vars, clients, control, state
<1>3. SInv'
  <2>1. SType' /\ JobsOK' /\ FlushLast'
    BY <1>1, <1>2, ZenonT(40) DEF SInv, SType, JobsOK, FlushLast
  <2>2. Shapes' /\ Locks'
    BY <1>1, <1>2, SameWorkers, ZenonT(40)
  <2>3. \A s \in Sessions : SlotOK(s)'
    BY <1>1, <1>2, ZenonT(40) DEF SInv, SlotOK
  <2>4. Answered'
    BY <1>1, <1>2, ZenonT(40) DEF SInv, Answered, Queued
  <2> QED
    BY <2>1, <2>2, <2>3, <2>4, ZenonT(40) DEF SInv
<1>4. \A u \in Sessions : Queued("disconnect", u) => Queued("disconnect", u)'
  BY <1>2, Zenon DEF Queued
<1>5. /\ \A u \in sessions : u \in sessions' \/ Queued("disconnect", u)'
      /\ \A u \in sessions' \ sessions : slot[u].txn = {}
      /\ \A v \in Workers : wk'[v] = wk[v] \/ (wk[v].pc \notin Busy /\ wk'[v].pc \notin Busy)
  BY <1>2, Zenon
<1> QED
  BY <1>1, <1>2, <1>3, <1>4, <1>5, IdleStep, ZenonT(40)

LEMMA StepInv ==
    ASSUME EInv, [Next]_vars
    PROVE  EInv'
<1>1. SInv /\ TInv /\ CInv
  BY Zenon DEF EInv
<1>2. ASSUME NEW s \in Sessions, Connect(s) PROVE EInv'
  BY <1>1, <1>2, ConnectStep, ZenonT(40)
<1>3. ASSUME NEW s \in Sessions, DropSession(s) PROVE EInv'
  BY <1>1, <1>3, DropSessionStep, Zenon
<1>4. ASSUME NEW s \in Sessions, NEW stmt \in Statements, Execute(s, stmt) PROVE EInv'
  BY <1>1, <1>4, ExecuteStep, ZenonT(40)
<1>5. CASE DropEngine
  BY <1>1, <1>5, DropEngineStep, ZenonT(40)
<1>6. CASE Tick
  BY <1>1, <1>6, TickStep, Zenon
<1>7. CASE EngineExits \/ JoinWorkers
  BY <1>1, <1>7, StopsStep, ZenonT(40)
<1>8. ASSUME NEW w \in Workers, Worker(w) PROVE EInv'
  BY <1>8, WorkerStep, Zenon
<1>9. CASE UNCHANGED vars
  BY <1>9, StutterInv, Zenon
<1> QED
  BY <1>2, <1>3, <1>4, <1>5, <1>6, <1>7, <1>8, <1>9, ZenonT(40) DEF Next, Quiescent

\* The sessions' locks, the transactions and the catalog stay in the relations of
\* EngineInvariant through every interleaving of the workers, the clients and the
\* dispatch thread, whatever fails (run_engine, EngineShared, reload_catalog).
THEOREM EngineInvariantHolds == Spec => []EInv
<1>1. Init => EInv
  BY InitInv, Zenon
<1>2. EInv /\ [Next]_vars => EInv'
  BY StepInv, Zenon
<1> QED
  BY <1>1, <1>2, PTL DEF Spec

-----------------------------------------------------------------------------
(* The properties. *)

\* A statement runs in the transaction its client believes it is in: txn_for_statement
\* takes it from the slot, and no answer or expiry changes the slot without the client
\* learning of it first (TxnSlot::TimedOut).
THEOREM StatementsInTheirTxn == Spec => []StatementInItsTxn
<1>1. ASSUME SInv, NEW w \in Workers, Works(w)
      PROVE  view[session(w)] = IF wk[w].auto THEN {} ELSE wk[w].txn
  <2>1. Shape(wk[w]) /\ Holds(w) /\ wk[w].pc \in {"acquire", "create", "write"} /\ wk[w].pc \in Busy
    BY <1>1, Zenon DEF SInv, Shapes, Locks, Works, Busy
  <2>2. InSession(w)
    BY <2>1, Zenon DEF InSession, At
  <2>3. wk[w].job = {job(w)} /\ session(w) = job(w).session /\ session(w) \in Sessions
    BY <1>1, <2>1, MyJob, Zenon DEF session
  <2>4. job(w).kind = "execute" /\ wk[w].txn # {}
    BY <1>1, <2>1, <2>3, ZenonT(40) DEF Shape, Works
  <2>5. /\ wk[w].auto => slot[session(w)].tag = "None"
        /\ ~wk[w].auto => slot[session(w)].txn = wk[w].txn
    BY <2>1, <2>3, <2>4, ZenonT(40) DEF Holds
  <2>6. SlotOK(session(w))
    BY <1>1, <2>3, ZenonT(40) DEF SInv
  <2>7. slot[session(w)].tag # "TimedOut" /\ (wk[w].auto => slot[session(w)].txn = {})
    BY <2>4, <2>5, <2>6, ZenonT(40) DEF SlotOK
  <2>8. view[session(w)] = slot[session(w)].txn
    BY <1>1, <2>2, <2>4, <2>7, ViewIsSlot, ZenonT(40)
  <2> QED
    BY <2>5, <2>7, <2>8, ZenonT(40)
<1>2. EInv => StatementInItsTxn
  BY <1>1, ZenonT(40) DEF StatementInItsTxn, EInv
<1> QED
  BY <1>2, EngineInvariantHolds, PTL

\* A transaction is ended by one worker at a time, and while it is ended no statement
\* of it runs: abort_txn is only called under the session's lock, and the undo that it
\* starts keeps that lock until the reload is over.
THEOREM OneEndsIt == Spec => []EndedByOne
<1>1. ASSUME SInv, NEW w \in Workers, Ends(w), NEW v \in Workers \ {w}, Works(v) \/ Ends(v)
      PROVE  wk[v].txn # wk[w].txn
  <2>1. /\ Shape(wk[w]) /\ Holds(w) /\ wk[w].pc \in Busy /\ wk[w].txn # {} /\ InSession(w)
        /\ Shape(wk[v]) /\ Holds(v) /\ wk[v].pc \in Busy /\ wk[v].txn # {} /\ InSession(v)
    BY <1>1, ZenonT(40) DEF SInv, Shapes, Locks, Works, Ends, At, Busy, Shape, InSession
  <2>2. /\ wk[w].job = {job(w)} /\ wk[v].job = {job(v)}
    BY <1>1, <2>1, MyJob, Zenon
  <2>3. /\ mutex[job(w).session] = {w} /\ \A t \in wk[w].txn : t[1] = job(w).session
        /\ mutex[job(v).session] = {v} /\ \A t \in wk[v].txn : t[1] = job(v).session
    BY <2>1, <2>2, Zenon DEF Holds
  <2> QED
    BY <1>1, <2>1, <2>3
<1>2. EInv => EndedByOne
  BY <1>1, Zenon DEF EndedByOne, EInv
<1> QED
  BY <1>2, EngineInvariantHolds, PTL

\* Sessions and transactions correspond: somebody will end every active transaction,
\* and a session's open transaction exists (EngineShared.sessions, TransactionManager's
\* active table), unless a commit, an undo or a reload has failed.
THEOREM SlotsMatchTxns == Spec => []SlotsAndTxnsAgree
<1>1. ASSUME EInv PROVE SlotsAndTxnsAgree
  <2>1. SInv /\ TInv /\ CInv
    BY <1>1, ZenonT(40) DEF EInv
  <2>2. \A w \in Workers : wk[w].txn \in Option(TxnIds)
    BY <2>1 DEF SInv, SType, Records
  <2>3. TypeOK
    BY <2>1, <2>2, ZenonT(40) DEF TypeOK, SInv, SType, Slots, TInv, TType, CInv, CType
  <2>4. \A t \in active \ failed : Owned(t)
    BY <2>1, Zenon DEF TInv
  <2>5. \A s \in sessions : slot[s].txn # {} => slot[s].txn \subseteq active \/ reloadFailed \/ mutex[s] # {}
    <3>1. \A s \in sessions : s \in Sessions /\ SlotTxn(s)
      BY <2>1, ZenonT(40) DEF SInv, SType, TInv
    <3> QED
      BY <3>1, ZenonT(40) DEF SlotTxn
  <2> QED
    BY <2>3, <2>4, <2>5, ZenonT(40) DEF SlotsAndTxnsAgree
<1> QED
  BY <1>1, EngineInvariantHolds, PTL

\* When the engine has stopped, every disconnected session's transaction has been
\* undone, nobody waits for an answer, and the catalog holds the committed tables and
\* no others, on its pages and in its cache (Drop for EngineHandle and WorkerPool).
THEOREM StopsClean == Spec => []StoppedClean
<1>1. ASSUME EInv, engine = "stopped" PROVE StoppedClean
  <2>1. SInv /\ TInv /\ CInv
    BY <1>1, Zenon DEF EInv
  <2>2. jobs = <<>> /\ \A w \in Workers : wk[w].pc = "recv"
    BY <1>1, <2>1 DEF SInv, Answered
  <2>3. \A w \in Workers : wk[w].job = {} /\ ~wk[w].auto /\ wk[w].fresh = {}
    BY <2>1, <2>2, ZenonT(40) DEF SInv, Shapes, Shape, Busy
  <2>4. \A s \in Sessions : client[s] \in {"new", "gone"} /\ s \notin sessions
    BY <1>1, <2>1, ZenonT(40) DEF SInv, SlotOK
  <2>5. \A s : ~Queued("disconnect", s)
    BY <2>2, <2>3 DEF Queued
  <2>6. \A t : ~Owned(t)
    BY <2>3, <2>4, <2>5, ZenonT(40) DEF Owned
  <2>7. active \subseteq failed
    BY <2>1, <2>6, ZenonT(40) DEF TInv
  <2>8. locked \subseteq failed
    BY <2>1, <2>7, ZenonT(40) DEF TInv, TType, Option
  <2>9. ASSUME failed = {}, ~undoFailed, ~reloadFailed PROVE heap.tables = committed /\ cache = heap
    <3>1. Logged /\ Cached
      BY <2>1, <2>9, Zenon DEF CInv
    <3>2. active = {}
      BY <2>7, <2>9, Zenon
    <3>3. \A n : n \in heap.tables <=> n \in committed
      BY <3>1, <3>2, RowNames, ZenonT(40)
    <3>4. heap.tables = committed
      BY <3>3, Zenon
    <3>5. cache = heap
      BY <2>2, <3>1, Zenon DEF Cached, Stale, At
    <3> QED
      BY <3>4, <3>5, Zenon
  <2> QED
    BY <2>4, <2>7, <2>8, <2>9, ZenonT(40) DEF StoppedClean
<1>2. EInv => StoppedClean
  BY <1>1, Zenon DEF StoppedClean
<1> QED
  BY <1>2, EngineInvariantHolds, PTL
=============================================================================

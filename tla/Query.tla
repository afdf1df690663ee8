------------------------------- MODULE Query -------------------------------
(* The path of a statement over one table: its parameters are typed and      *)
(* substituted (planner/src/parameters.rs), it is bound (binder.rs), planned *)
(* and optimized (plan.rs, optimizer.rs), and run by the executors over the  *)
(* heap or an index, whose keys are the memcomparable encoding of values.    *)
(*                                                                           *)
(* Data.  A byte is a number below Base; an Integer has IntWidth bytes, a    *)
(* BigInt and a Double have BigWidth.  A value is <<type, payload>>: a number*)
(* is a payload of one, a Double its bit pattern (sign, magnitude, the       *)
(* largest magnitude being NaN), a Varchar the sequence of its bytes.  Names *)
(* are column numbers.  Every row is visible (module Mvcc has visibility),   *)
(* the leaves of an index are one sequence (module BTree has the pages), and *)
(* the n-th row lies on page Pages[n].                                       *)
EXTENDS Integers, FiniteSets, SequencesExt

CONSTANTS
    Base, IntWidth, BigWidth,
    Schemas,        \* the tables: sequences of column types
    Values,         \* the values a client may send as a parameter
    Rows,           \* the VALUES rows of INSERT: sequences of expressions
    Wheres,         \* the WHERE clauses of SELECT
    Pages,          \* the page of every row, in heap order
    MaxIndexes      \* bound: indexes of the table

ASSUME WidthsPositive ==
    /\ Base \in Nat \ {0, 1} /\ IntWidth \in Nat \ {0} /\ BigWidth \in Nat \ {0}

VARIABLES
    schema,     \* the column types
    rows,       \* the rows as the statements gave them
    heap,       \* the rows as the heap holds them, encoded
    indexes,    \* the indexes, in the order of their ids
    stmt        \* the statement of the session: none, prepared, running, ended

vars == <<schema, rows, heap, indexes, stmt>>

Null == <<"null", <<>>>>
Value(t, n) == <<t, <<n>>>>
Number(v) == v[2][1]

Lit(v) == [k |-> "lit", v |-> v]
Col(i) == [k |-> "col", i |-> i]
Param(n) == [k |-> "param", n |-> n]
Not(e) == [k |-> "not", e |-> e]
Neg(e) == [k |-> "neg", e |-> e]
IsNull(e, negated) == [k |-> "null", e |-> e, negated |-> negated]
Bin(op, l, r) == [k |-> "bin", op |-> op, l |-> l, r |-> r]

Comparisons == {"=", "<>", "<", "<=", ">", ">="}

-----------------------------------------------------------------------------
(* Bytes.                                                                    *)

Half(w) == Base^w \div 2
BigEndian(n, w) == [i \in 1 .. w |-> (n \div Base^(w - i)) % Base]
LittleEndian(n, w) == Reverse(BigEndian(n, w))
FromBigEndian(s) == FoldLeft(LAMBDA a, b : a * Base + b, 0, s)
Signed(n, w) == IF n >= Half(w) THEN n - Base^w ELSE n

(* The byte-wise order of the keys.                                          *)
Before(a, b) ==
    \E i \in 1 .. Len(b) :
        /\ Len(a) >= i - 1 /\ SubSeq(a, 1, i - 1) = SubSeq(b, 1, i - 1)
        /\ Len(a) = i - 1 \/ a[i] < b[i]

Width(t) ==
    CASE t = "bool" -> 1
      [] t = "int" -> IntWidth
      [] t \in {"big", "dbl"} -> BigWidth

-----------------------------------------------------------------------------
(* Values and their order (types/src/value.rs).                              *)

Magnitude(v) == Number(v) % Half(BigWidth)
IsNaN(v) == v[1] = "dbl" /\ Magnitude(v) = Half(BigWidth) - 1

(* What a number stands for; a Double's bits are a sign and a magnitude.     *)
Meaning(v) ==
    IF v[1] = "dbl" /\ Number(v) >= Half(BigWidth) THEN -Magnitude(v) ELSE Number(v)

(* Value::compare: nothing for NULL and NaN, a mismatch is checked apart.    *)
Compare(a, b) ==
    CASE Null \in {a, b} \/ IsNaN(a) \/ IsNaN(b) -> {}
      [] a[1] = "str" -> {IF a = b THEN 0 ELSE IF Before(a[2], b[2]) THEN -1 ELSE 1}
      [] OTHER -> {IF Meaning(a) = Meaning(b) THEN 0
                   ELSE IF Meaning(a) < Meaning(b) THEN -1 ELSE 1}

MatchesComparison(op, o) ==
    CASE op = "=" -> o = 0
      [] op = "<>" -> o # 0
      [] op = "<" -> o = -1
      [] op = "<=" -> o # 1
      [] op = ">" -> o = 1
      [] op = ">=" -> o # -1

-----------------------------------------------------------------------------
(* Keys (types/src/memcomparable.rs).                                        *)

(* Mutant of FlipSign: two's complement bytes are written as they are.       *)
KeepSign(n, w) == n % Base^w

(* The sign bit flipped, in w bytes.                                         *)
FlipSign(n, w) == (n + Half(w)) % Base^w

(* -0.0 is 0.0; other negative numbers have all bits flipped, the rest the   *)
(* sign bit set.                                                             *)
OrderPreservingBits(v) ==
    IF Number(v) > Half(BigWidth) THEN Base^BigWidth - 1 - Number(v)
    ELSE Magnitude(v) + Half(BigWidth)

Encodable(v) == ~IsNaN(v)

Encode(v) ==
    CASE v = Null -> <<0>>
      [] v[1] \in {"bool", "str"} -> <<1>> \o v[2]
      [] v[1] \in {"int", "big"} -> <<1>> \o BigEndian(FlipSign(Number(v), Width(v[1])), Width(v[1]))
      [] v[1] = "dbl" -> <<1>> \o BigEndian(OrderPreservingBits(v), BigWidth)

FromOrderPreservingBits(n) ==
    IF n >= Half(BigWidth) THEN n - Half(BigWidth) ELSE Base^BigWidth - 1 - n

(* decode_memcomparable: the value and the bytes it took, or nothing.        *)
Decode(bytes, t) ==
    LET w == IF t = "str" THEN Len(bytes) - 1 ELSE Width(t)
        field == SubSeq(bytes, 2, w + 1)
        n == FromBigEndian(field)
    IN  CASE bytes = <<>> -> {}
          [] bytes # <<>> /\ bytes[1] = 0 -> {<<Null, 1>>}
          [] bytes # <<>> /\ bytes[1] > 1 -> {}
          [] OTHER ->
                IF Len(bytes) <= w THEN {}
                ELSE {<<CASE t = "str" -> <<t, field>>
                          [] t = "bool" -> Value(t, IF n = 0 THEN 0 ELSE 1)
                          [] t \in {"int", "big"} -> Value(t, Signed(FlipSign(n, w), w))
                          [] t = "dbl" -> Value(t, FromOrderPreservingBits(n)),
                        w + 1>>}

-----------------------------------------------------------------------------
(* Rows as the heap holds them (types/src/tuple.rs): which columns are NULL, *)
(* and the little-endian bytes of the others; a Varchar has its length first.*)

FieldBytes(v) ==
    CASE v = Null -> <<>>
      [] v[1] = "str" -> LittleEndian(Len(v[2]), 1) \o v[2]
      [] OTHER -> LittleEndian(Number(v) % Base^Width(v[1]), Width(v[1]))

EncodeTuple(values) ==
    [nulls |-> {i \in DOMAIN values : values[i] = Null},
     bytes |-> FlattenSeq([i \in DOMAIN values |-> FieldBytes(values[i])])]

(* Tuple::decode: the fields are found by the column types; nothing when the *)
(* bytes end early.                                                          *)
DecodeTuple(tuple, types) ==
    LET Field(acc, i) ==
            LET at == acc.at + (IF types[i] = "str" THEN 1 ELSE 0)
                len == IF types[i] # "str" THEN Width(types[i])
                       ELSE IF at <= Len(tuple.bytes) THEN tuple.bytes[at] ELSE 0
                field == SubSeq(tuple.bytes, at + 1, at + len)
                n == FromBigEndian(Reverse(field))
            IN  CASE ~acc.ok -> acc
                  [] i \in tuple.nulls -> [acc EXCEPT !.values = Append(@, Null)]
                  [] at + len > Len(tuple.bytes) -> [acc EXCEPT !.ok = FALSE]
                  [] OTHER ->
                        [ok |-> TRUE, at |-> at + len,
                         values |-> Append(acc.values,
                             CASE types[i] = "str" -> <<"str", field>>
                               [] types[i] = "bool" -> Value("bool", IF n = 0 THEN 0 ELSE 1)
                               [] types[i] \in {"int", "big"} -> Value(types[i], Signed(n, len))
                               [] types[i] = "dbl" -> Value("dbl", n))]
        all == FoldLeft(Field, [ok |-> TRUE, at |-> 0, values |-> <<>>],
                        [i \in DOMAIN types |-> i])
    IN  IF all.ok THEN {all.values} ELSE {}

-----------------------------------------------------------------------------
(* Expressions (executor/src/expression.rs).                                 *)

Failure == <<"failure", <<>>>>
Truth(b) == Value("bool", IF b THEN 1 ELSE 0)
True == Truth(TRUE)
False == Truth(FALSE)

(* unary minus of the least Integer wraps, as in a build without overflow    *)
(* checks.                                                                   *)
Negated(v) ==
    CASE v[1] = "dbl" -> Value("dbl", (Number(v) + Half(BigWidth)) % Base^BigWidth)
      [] v[1] \in {"int", "big"} ->
            Value(v[1], Signed((-Number(v)) % Base^Width(v[1]), Width(v[1])))
      [] v = Null -> Null
      [] OTHER -> Failure

And3(a, b) ==
    IF ~({a, b} \subseteq {True, False, Null}) THEN Failure
    ELSE IF False \in {a, b} THEN False ELSE IF {a, b} = {True} THEN True ELSE Null

Or3(a, b) ==
    IF ~({a, b} \subseteq {True, False, Null}) THEN Failure
    ELSE IF True \in {a, b} THEN True ELSE IF {a, b} = {False} THEN False ELSE Null

Compared(op, a, b) ==
    IF Null \notin {a, b} /\ a[1] # b[1] THEN Failure
    ELSE IF Compare(a, b) = {} THEN Null
    ELSE Truth(\E o \in Compare(a, b) : MatchesComparison(op, o))

RECURSIVE Evaluate(_, _)
Evaluate(e, tuple) ==
    CASE e.k = "lit" -> e.v
      [] e.k = "col" -> IF e.i \in DOMAIN tuple THEN tuple[e.i] ELSE Failure
      [] e.k = "not" ->
            (LET v == Evaluate(e.e, tuple)
             IN  CASE v = Null -> Null
                   [] v \in {True, False} -> Truth(v = False)
                   [] OTHER -> Failure)
      [] e.k = "neg" -> Negated(Evaluate(e.e, tuple))
      [] e.k = "null" ->
            (LET v == Evaluate(e.e, tuple)
             IN  IF v = Failure THEN v ELSE Truth((v = Null) # e.negated))
      [] e.k = "bin" ->
            (LET l == Evaluate(e.l, tuple)
                 r == Evaluate(e.r, tuple)
             IN  CASE Failure \in {l, r} -> Failure
                   [] e.op = "and" -> And3(l, r)
                   [] e.op = "or" -> Or3(l, r)
                   [] e.op \in Comparisons -> Compared(e.op, l, r)
                   [] OTHER -> Failure)

-----------------------------------------------------------------------------
(* Binding (planner/src/binder.rs).  A bound expression has a type, or none  *)
(* when it is NULL; an error has a reason.                                   *)

Bound(e, t) == [ok |-> TRUE, e |-> e, t |-> t, why |-> ""]
Refused(why) == [ok |-> FALSE, e |-> Lit(Null), t |-> {}, why |-> why]

TypeOf(v) == IF v = Null THEN {} ELSE {v[1]}

(* coerce_literal_to_column: a BigInt literal becomes an Integer if it fits. *)
CoerceLiteral(v, t) ==
    IF v[1] = "big" /\ t = "int"
    THEN IF Number(v) \in -Half(IntWidth) .. Half(IntWidth) - 1
         THEN Bound(Lit(Value("int", Number(v))), {"int"})
         ELSE Refused("out of range")
    ELSE Bound(Lit(v), TypeOf(v))

(* coerce_comparison_operands, one side: x is compared with other.           *)
CoerceOperand(x, other) ==
    IF x.e.k = "lit" /\ other.e.k = "col"
    THEN CoerceLiteral(x.e.v, CHOOSE t \in other.t : TRUE) ELSE x

BindBinary(op, left, right) ==
    LET l == CoerceOperand(left, right)
        r == CoerceOperand(right, left)
    IN  CASE ~l.ok -> l
          [] ~r.ok -> r
          [] op \in {"and", "or"} /\ l.t \cup r.t \subseteq {"bool"} ->
                Bound(Bin(op, l.e, r.e), {"bool"})
          [] op \in Comparisons /\ Cardinality(l.t \cup r.t) <= 1 ->
                Bound(Bin(op, l.e, r.e), {"bool"})
          [] OTHER -> Refused("type mismatch")

RECURSIVE BindExpr(_, _)
BindExpr(e, types) ==
    CASE e.k = "lit" -> Bound(e, TypeOf(e.v))
      [] e.k = "col" ->
            IF e.i \in DOMAIN types THEN Bound(e, {types[e.i]}) ELSE Refused("unknown column")
      [] e.k = "param" -> Refused("undefined parameter")
      [] e.k \in {"not", "neg", "null"} ->
            (LET b == BindExpr(e.e, types)
                 whole == [e EXCEPT !.e = b.e]
             IN  CASE ~b.ok -> b
                   [] e.k = "null" \/ (e.k = "not" /\ b.t \subseteq {"bool"}) ->
                         Bound(whole, {"bool"})
                   [] e.k = "neg" /\ b.t # {} /\ b.t \subseteq {"int", "big", "dbl"} ->
                         Bound(whole, b.t)
                   [] OTHER -> Refused("type mismatch"))
      [] e.k = "bin" ->
            (LET l == BindExpr(e.l, types)
                 r == BindExpr(e.r, types)
             IN  IF ~l.ok THEN l ELSE IF ~r.ok THEN r ELSE BindBinary(e.op, l, r))

(* bind_select: the WHERE clause must be Boolean.                            *)
BindWhere(e, types) ==
    LET b == BindExpr(e, types)
    IN  IF b.ok /\ ~(b.t \subseteq {"bool"}) THEN Refused("type mismatch") ELSE b

(* bind_insert, one value: bound without columns, a literal coerced to the   *)
(* column, and of the column's type or NULL.                                 *)
BindValue(e, t) ==
    LET b == BindExpr(e, <<>>)
        c == IF b.ok /\ b.e.k = "lit" THEN CoerceLiteral(b.e.v, t) ELSE b
    IN  IF c.ok /\ ~(c.t \subseteq {t}) THEN Refused("type mismatch") ELSE c

-----------------------------------------------------------------------------
(* Parameters (planner/src/parameters.rs).                                   *)

ColumnType(e, types) ==
    IF e.k = "col" /\ e.i \in DOMAIN types THEN {types[e.i]} ELSE {}

(* collect_expr, collect_binary: the placeholders from left to right, each   *)
(* with the type of the column it is compared with, if it is.                *)
RECURSIVE Collect(_, _)
Collect(e, types) ==
    LET Side(x, other) ==
            IF x.k = "param" THEN <<[n |-> x.n, t |-> ColumnType(other, types)]>>
            ELSE Collect(x, types)
    IN  CASE e.k = "param" -> <<[n |-> e.n, t |-> {}]>>
          [] e.k \in {"lit", "col"} -> <<>>
          [] e.k \in {"not", "neg", "null"} -> Collect(e.e, types)
          [] e.k = "bin" -> Side(e.l, e.r) \o Side(e.r, e.l)

(* collect_insert: a placeholder takes the type of its column; values beyond *)
(* the columns are not looked at.                                            *)
CollectRow(row, types) ==
    FlattenSeq([j \in DOMAIN row.exprs \cap DOMAIN row.cols |->
        IF row.exprs[j].k = "param" THEN <<[n |-> row.exprs[j].n, t |-> {types[row.cols[j]]}]>>
        ELSE Collect(row.exprs[j], <<>>)])

MaxParameter(found) == Max({0} \cup {found[i].n : i \in DOMAIN found})

(* record, finalize: the first type found counts; a gap in the numbers is an *)
(* error.                                                                    *)
InferTypes(found) ==
    LET first(n) == {found[i].t : i \in {j \in DOMAIN found : found[j].n = n /\ found[j].t # {}
                        /\ \A h \in 1 .. j - 1 : found[h].n = n => found[h].t = {}}}
    IN  IF \E n \in 1 .. MaxParameter(found) : \A i \in DOMAIN found : found[i].n # n THEN {}
        ELSE {[n \in 1 .. MaxParameter(found) |-> UNION first(n)]}

RECURSIVE Substitute(_, _)
Substitute(e, values) ==
    CASE e.k = "param" -> Lit(values[e.n])
      [] e.k \in {"lit", "col"} -> e
      [] e.k \in {"not", "neg", "null"} -> [e EXCEPT !.e = Substitute(@, values)]
      [] e.k = "bin" -> [e EXCEPT !.l = Substitute(@, values), !.r = Substitute(@, values)]

(* dummy_value_for_describe.                                                 *)
DummyValue(t) ==
    IF t \in {{}, {"str"}} THEN <<"str", <<>>>> ELSE Value(CHOOSE u \in t : TRUE, 0)

(* Mutant of Described: the statement is not bound with dummy values.        *)
DescribedUnbound(where, types) == InferTypes(Collect(where, types))

(* EngineShared::describe of a SELECT: the parameter types, if the statement *)
(* binds with dummy values of those types.                                   *)
Described(where, types) ==
    {p \in InferTypes(Collect(where, types)) :
        BindWhere(Substitute(where, [n \in DOMAIN p |-> DummyValue(p[n])]), types).ok}

(* decode_param: a parameter arrives as a value of the type described, as a  *)
(* Varchar when none was, or as NULL.                                        *)
DecodedParams(p) == {v \in Values : v = Null \/ v[1] \in (IF p = {} THEN {"str"} ELSE p)}

-----------------------------------------------------------------------------
(* Planning (plan.rs, optimizer.rs).  A plan is a filter over a scan of the  *)
(* heap, or of the keys from start up to end in an index.                    *)

(* The entries of a leaf are ordered by the key followed by the rid.         *)
RidBytes(n) == LittleEndian(Pages[n], 2)
SortKey(entry) == entry.key \o RidBytes(entry.rid)

IndexesOn(c) == {i \in DOMAIN indexes : indexes[i].col = c}

RECURSIVE FlattenAnd(_)
FlattenAnd(e) ==
    IF e.k = "bin" /\ e.op = "and" THEN FlattenAnd(e.l) \o FlattenAnd(e.r) ELSE <<e>>

ColumnAndLiteral(e) ==
    /\ e.k = "bin" /\ e.op \in Comparisons \ {"<>"}
    /\ e.l.k = "col" /\ e.r.k = "lit"

Successor(bytes) == Append(bytes, 0)

StartOf(e) ==
    CASE e.op \in {"=", ">="} -> {Encode(e.r.v)}
      [] e.op = ">" -> {Successor(Encode(e.r.v))}
      [] OTHER -> {}

(* Mutant of EndOf: the end of an inclusive comparison leaves its bound out. *)
EndOfExclusive(e) == IF e.op \in {"=", "<=", "<"} THEN {Encode(e.r.v)} ELSE {}

EndOf(e) ==
    CASE e.op \in {"=", "<="} -> {Successor(Encode(e.r.v))}
      [] e.op = "<" -> {Encode(e.r.v)}
      [] OTHER -> {}

(* index_scan_bounds, IndexScanRule: the first conjunct on an indexed column *)
(* chooses the index, every conjunct on its column tightens the bounds.      *)
Optimize(filter) ==
    LET cs == FlattenAnd(filter)
        usable == {i \in DOMAIN cs : ColumnAndLiteral(cs[i]) /\ IndexesOn(cs[i].l.i) # {}}
        column == cs[Min(usable)].l.i
        on == {c \in ToSet(cs) : ColumnAndLiteral(c) /\ c.l.i = column /\ Encodable(c.r.v)}
        starts == UNION {StartOf(c) : c \in on}
        ends == UNION {EndOf(c) : c \in on}
    IN  IF usable = {} THEN [filter |-> filter, index |-> {}, start |-> {}, end |-> {}]
        ELSE [filter |-> filter, index |-> {Min(IndexesOn(column))},
              start |-> {b \in starts : \A o \in starts : ~Before(b, o)},
              end |-> {b \in ends : \A o \in ends : ~Before(o, b)}]

(* decode_bound, render_index_cond: the comparisons EXPLAIN shows for the    *)
(* bounds of an index scan, or that they cannot be decoded.                  *)
Undecodable == {<<"undecodable", Null>>}

(* Mutant of BoundShown: the trailing zero byte is not told from the value.  *)
BoundShownPlain(bytes, t, open, closed) == {<<closed, d[1]>> : d \in Decode(bytes, t)}

BoundShown(bytes, t, open, closed) ==
    IF \E d \in Decode(bytes, t) : d[2] = Len(bytes) \/ (d[2] + 1 = Len(bytes) /\ Last(bytes) = 0)
    THEN {<<IF d[2] = Len(bytes) THEN closed ELSE open, d[1]>> : d \in Decode(bytes, t)}
    ELSE Undecodable

ExplainCond(plan) ==
    LET t == schema[indexes[CHOOSE i \in plan.index : TRUE].col]
        parts == UNION {BoundShown(s, t, ">", ">=") : s \in plan.start}
                 \cup UNION {BoundShown(e, t, "<=", "<") : e \in plan.end}
    IN  CASE \E s \in plan.start, e \in plan.end : e = Successor(s) ->
                {<<"=", d[1]>> : d \in UNION {Decode(s, t) : s \in plan.start}}
          [] OTHER -> IF Undecodable \subseteq parts THEN Undecodable ELSE parts

-----------------------------------------------------------------------------
(* What SQL says, without types, plans and encodings: the value of a scalar  *)
(* expression in a row, and whether a predicate is known to be b.            *)

RECURSIVE Scalar(_, _), Holds(_, _, _)
Scalar(e, row) ==
    CASE e.k = "lit" -> e.v
      [] e.k = "col" -> row[e.i]
      [] e.k = "neg" ->
            (LET v == Scalar(e.e, row)
             IN  CASE v = Null -> Null
                   [] v[1] = "dbl" -> Negated(v)
                   [] OTHER -> Value(v[1], -Number(v)))
      [] OTHER -> IF Holds(e, row, TRUE) THEN True ELSE IF Holds(e, row, FALSE) THEN False ELSE Null

Holds(e, row, b) ==
    CASE e.k \in {"lit", "col"} -> Scalar(e, row) = Truth(b)
      [] e.k = "not" -> Holds(e.e, row, ~b)
      [] e.k = "null" -> ((Scalar(e.e, row) = Null) # e.negated) = b
      [] e.k = "bin" /\ e.op = "and" ->
            IF b THEN Holds(e.l, row, b) /\ Holds(e.r, row, b)
            ELSE Holds(e.l, row, b) \/ Holds(e.r, row, b)
      [] e.k = "bin" /\ e.op = "or" ->
            IF b THEN Holds(e.l, row, b) \/ Holds(e.r, row, b)
            ELSE Holds(e.l, row, b) /\ Holds(e.r, row, b)
      [] OTHER -> \E o \in Compare(Scalar(e.l, row), Scalar(e.r, row)) : MatchesComparison(e.op, o) = b

(* The value a statement gives to a column of type t.                        *)
Given(e, t) == LET v == Scalar(e, <<>>) IN IF v = Null THEN Null ELSE <<t, v[2]>>

-----------------------------------------------------------------------------
(* Statements.                                                               *)

None == [st |-> "none"]

Init ==
    /\ schema \in Schemas
    /\ rows = <<>> /\ heap = <<>> /\ indexes = <<>> /\ stmt = None

ParamLists(p) == {ps \in [DOMAIN p -> Values] : \A n \in DOMAIN p : ps[n] \in DecodedParams(p[n])}

(* BTreeIndex::insert: an entry goes after the entries that are not greater. *)
InsertEntry(entries, key, rid) ==
    LET new == [key |-> key, rid |-> rid]
        below == {i \in DOMAIN entries : ~Before(SortKey(new), SortKey(entries[i]))}
    IN  InsertAt(entries, Cardinality(below) + 1, new)

(* CREATE INDEX: bind_create_index, build_index.  A row whose key cannot be  *)
(* encoded fails the statement.                                              *)
CreateIndex(c) ==
    LET tuple(n) == CHOOSE v \in DecodeTuple(heap[n], schema) : TRUE
        Build(entries, n) == InsertEntry(entries, Encode(tuple(n)[c]), n)
    IN  /\ stmt = None /\ Len(indexes) < MaxIndexes
        /\ \A n \in DOMAIN heap : DecodeTuple(heap[n], schema) # {} /\ Encodable(tuple(n)[c])
        /\ indexes' = Append(indexes, [col |-> c,
               entries |-> FoldLeft(Build, <<>>, [n \in DOMAIN heap |-> n])])
        /\ UNCHANGED <<schema, rows, heap, stmt>>

(* bind_insert: the expression of column c, NULL when the statement does not *)
(* name the column; of a column named twice the last value counts.           *)
ValueFor(row, exprs, c) ==
    LET at == {j \in DOMAIN row.cols : row.cols[j] = c}
    IN  IF at = {} THEN Lit(Null) ELSE exprs[Max(at)]

(* The row bound, or nothing: the number of values and every value must fit. *)
BindRow(row, exprs) ==
    IF \/ Len(exprs) # Len(row.cols)
       \/ \E j \in DOMAIN row.cols : ~BindValue(exprs[j], schema[row.cols[j]]).ok
    THEN {}
    ELSE {[c \in DOMAIN schema |-> BindValue(ValueFor(row, exprs, c), schema[c]).e]}

(* INSERT: bind_insert, InsertExecutor::next.  A key that cannot be encoded  *)
(* fails the statement, and its transaction takes the row back.              *)
Insert(row, params) ==
    LET exprs == [j \in DOMAIN row.exprs |-> Substitute(row.exprs[j], params)]
        rid == Len(heap) + 1
    IN  /\ stmt = None /\ rid \in DOMAIN Pages
        /\ \E bound \in BindRow(row, exprs) :
             LET values == [c \in DOMAIN bound |-> Evaluate(bound[c], <<>>)]
             IN  /\ \A c \in DOMAIN values : values[c] # Failure
                 /\ \A i \in DOMAIN indexes : Encodable(values[indexes[i].col])
                 /\ heap' = Append(heap, EncodeTuple(values))
                 /\ indexes' = [i \in DOMAIN indexes |-> [indexes[i] EXCEPT
                        !.entries = InsertEntry(@, Encode(values[indexes[i].col]), rid)]]
        /\ rows' = Append(rows, [c \in DOMAIN schema |->
               Given(ValueFor(row, exprs, c), schema[c])])
        /\ UNCHANGED <<schema, stmt>>

(* Parse of the extended protocol: StatementParser::parse_sql.               *)
Prepare(where) ==
    /\ stmt = None
    /\ \E p \in Described(where, schema) :
         stmt' = [st |-> "prepared", where |-> where, types |-> {p}]
    /\ UNCHANGED <<schema, rows, heap, indexes>>

(* A simple query is bound as it stands, without parameters.                 *)
Query(where) ==
    /\ stmt = None
    /\ stmt' = [st |-> "prepared", where |-> where, types |-> {}]
    /\ UNCHANGED <<schema, rows, heap, indexes>>

(* execute_impl, execute_bound: parameters are substituted if there are any, *)
(* the statement is bound and optimized, the executors are initialized.      *)
Execute(params) ==
    LET where == stmt.where
        text == IF params = <<>> THEN where ELSE Substitute(where, params)
        b == BindWhere(text, schema)
        plan == Optimize(b.e)
    IN  /\ stmt.st = "prepared"
        /\ stmt' = IF b.ok
                   THEN [st |-> "running", where |-> text, plan |-> plan,
                         after |-> IF plan.index = {} THEN {<<0>>} ELSE plan.start, out |-> <<>>]
                   ELSE [st |-> "rejected", why |-> b.why, types |-> stmt.types, params |-> params]
        /\ UNCHANGED <<schema, rows, heap, indexes>>

(* SeqScanExecutor::next, IndexScanExecutor::next: the next row and where    *)
(* the scan then stands, or nothing.  The index scan takes the first entry   *)
(* after the last one's sort key and stops at a key that reaches the end.    *)
Fetched ==
    IF stmt.plan.index = {}
    THEN {<<n, <<n>>>> : n \in {m \in DOMAIN heap : stmt.after = {<<m - 1>>}}}
    ELSE LET entries == indexes[CHOOSE i \in stmt.plan.index : TRUE].entries
             left == {i \in DOMAIN entries :
                        \A a \in stmt.after : Before(a, SortKey(entries[i]))}
         IN  {<<entries[i].rid, SortKey(entries[i])>> :
                i \in {j \in left : j = Min(left)
                        /\ \A e \in stmt.plan.end : Before(entries[j].key, e)}}

(* FilterExecutor::next above the scan, ProjectionExecutor above the filter. *)
NextRow ==
    /\ stmt.st = "running"
    /\ \E f \in Fetched :
         LET tuple == DecodeTuple(heap[f[1]], schema)
             keep == {Evaluate(stmt.plan.filter, t) : t \in tuple}
         IN  stmt' = IF tuple = {} \/ Failure \in keep
                     THEN [st |-> "broken"]
                     ELSE [stmt EXCEPT !.after = {f[2]},
                             !.out = IF True \in keep
                                     THEN @ \o <<<<f[1], CHOOSE t \in tuple : TRUE>>>> ELSE @]
    /\ UNCHANGED <<schema, rows, heap, indexes>>

EndOfScan ==
    /\ stmt.st = "running" /\ Fetched = {}
    /\ stmt' = [st |-> "done", where |-> stmt.where, plan |-> stmt.plan, out |-> stmt.out]
    /\ UNCHANGED <<schema, rows, heap, indexes>>

(* The response is sent and the session takes its next statement.           *)
Close ==
    /\ stmt.st \in {"done", "rejected"}
    /\ stmt' = None
    /\ UNCHANGED <<schema, rows, heap, indexes>>

Next ==
    \/ \E c \in DOMAIN schema : CreateIndex(c)
    \/ \E row \in {r \in Rows : ToSet(r.cols) \subseteq DOMAIN schema} :
         \E p \in InferTypes(CollectRow(row, schema)) :
            \E params \in ParamLists(p) : Insert(row, params)
    \/ \E where \in Wheres : Prepare(where) \/ Query(where)
    \/ stmt.st = "prepared" /\
         \E params \in {<<>>} \cup UNION {ParamLists(p) : p \in stmt.types} : Execute(params)
    \/ NextRow \/ EndOfScan \/ Close

Spec == Init /\ [][Next]_vars

-----------------------------------------------------------------------------
TypeOK ==
    /\ schema \in Schemas /\ Len(rows) = Len(heap) /\ Len(heap) <= Len(Pages)
    /\ Len(indexes) <= MaxIndexes
    /\ stmt.st \in {"none", "prepared", "running", "done", "rejected", "broken"}

(* A SELECT that was accepted returns every row whose predicate is true and  *)
(* no other, once, with the values that were inserted, whatever plan the     *)
(* optimizer chose; neither evaluation nor decoding can fail (optimizer.rs,  *)
(* memcomparable.rs, binder.rs, expression.rs, index_scan.rs, tuple.rs).     *)
SelectAgrees ==
    /\ stmt.st # "broken"
    /\ stmt.st = "done" =>
         /\ ToSet(stmt.out) = {<<n, rows[n]>> : n \in {m \in DOMAIN rows : Holds(stmt.where, rows[m], TRUE)}}
         /\ IsInjective(stmt.out)

(* A statement that was described and is executed with parameters of the     *)
(* types described, none of them NULL, is not refused, except for a number   *)
(* that does not fit its column (describe, infer_parameter_types).           *)
DescribedBinds ==
    stmt.st = "rejected" /\ stmt.types # {} /\ Null \notin ToSet(stmt.params)
        /\ {Len(p) : p \in stmt.types} = {Len(stmt.params)}
    => stmt.why = "out of range"

(* Every index has one entry for every row, and its entries are in the order *)
(* of the values, NULL first, equal values in any order (btree.rs            *)
(* leaf_sort_key, memcomparable.rs).                                         *)
IndexFaithful ==
    /\ TypeOK
    /\ \A i \in DOMAIN indexes :
         LET es == indexes[i].entries
             val(j) == rows[es[j].rid][indexes[i].col]
         IN  /\ Len(es) = Len(rows) /\ {es[j].rid : j \in DOMAIN es} = DOMAIN rows
             /\ \A j, k \in DOMAIN es :
                  j < k => val(j) = Null \/ Compare(val(j), val(k)) \in {{-1}, {0}}

(* The condition EXPLAIN shows for an index scan is true of exactly the      *)
(* values whose keys lie within the bounds of the scan (explain.rs           *)
(* render_index_cond); bounds that come from a NULL literal apart.           *)
ExplainAgrees ==
    stmt.st = "running" /\ stmt.plan.index # {} =>
        LET cond == ExplainCond(stmt.plan)
            t == schema[indexes[CHOOSE i \in stmt.plan.index : TRUE].col]
        IN  /\ Undecodable \cap cond = {}
            /\ (\A c \in cond : c[2] # Null) =>
              \A v \in {u \in Values : u[1] = t /\ Encodable(u)} :
                  (\A c \in cond : \E o \in Compare(v, c[2]) : MatchesComparison(c[1], o))
                  <=> (/\ \A s \in stmt.plan.start : ~Before(Encode(v), s)
                       /\ \A e \in stmt.plan.end : Before(Encode(v), e))
=============================================================================

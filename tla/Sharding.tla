------------------------------ MODULE Sharding ------------------------------
(***************************************************************************)
(* Which shards a WHERE clause can touch: package cond (conditions, the    *)
(* two sharding algorithms) and package topo.  A pure algorithm: the       *)
(* optimizer of module ShardedQuery calls it.                              *)
(*                                                                         *)
(* Data.  Columns are named by strings, values are integers of at most two *)
(* digits; Text stands for every string that is not a number.  A slice of  *)
(* table indexes is a set: no function of the package repeats an index     *)
(* unless it was given one twice.  A nil Condition and a panic are values  *)
(* of their own.                                                           *)
(***************************************************************************)
EXTENDS Integers, Sequences, FiniteSets, SequencesExt, FiniteSetsExt, TLC

(***************************************************************************)
(* The conditions, and the outcomes of the functions that return one.      *)
(***************************************************************************)
Text == -1000
Ops == {"eq", "ne", "gt", "ge", "lt", "le", "like"}
NilCondition == [kind |-> "nil"]
Error == [kind |-> "err"]
Panic == [kind |-> "panic"]
TrueCondition == [kind |-> "true"]
FalseCondition == [kind |-> "false"]
KeyCondition(k, o, v) == [kind |-> "key", key |-> k, op |-> o, value |-> v]
ComplexCondition(o, cs) == [kind |-> "complex", op |-> o, conds |-> cs]
TableIndexSlice(S) == [kind |-> "slice", tables |-> S]

Failed(c) == c.kind \in {"err", "panic"}
IsAnd(c) == c.kind = "complex" /\ c.op = "and"
IsOr(c) == c.kind = "complex" /\ c.op = "or"
Composable(c) == c.kind \in {"key", "complex"}
FirstOf(c, o) == IF c.kind = "complex" /\ c.op = o THEN c.conds ELSE <<c>>

RECURSIVE And(_, _)

(***************************************************************************)
(* What a condition has become after And(cond2) was called on it: an AND   *)
(* appends the members of another AND to itself, in place.                 *)
(***************************************************************************)
AfterAnd(c, d) ==
  IF IsAnd(c) /\ IsAnd(d) THEN ComplexCondition("and", c.conds \o d.conds) ELSE c

(***************************************************************************)
(* for _, cd := range ds { result = append(result, cond.And(cd)) }: where  *)
(* And returned the receiver, the result holds the receiver as the last    *)
(* call leaves it; where it returned a copy, as it was at the time.        *)
(***************************************************************************)
AndEach(c, ds) ==
  LET receiver[i \in 0..Len(ds)] ==
        IF i = 0 THEN c ELSE AfterAnd(receiver[i - 1], ds[i])
  IN  [i \in DOMAIN ds |-> IF IsAnd(c) /\ IsAnd(ds[i]) THEN receiver[Len(ds)]
                           ELSE And(receiver[i - 1], ds[i])]

KeyAnd(c, d) ==
  IF ~Composable(d) THEN NilCondition
  ELSE IF IsOr(d) THEN ComplexCondition("or", AndEach(c, d.conds))
  ELSE ComplexCondition("and", <<c>> \o FirstOf(d, "and"))

KeyOr(c, d) ==
  IF ~Composable(d) THEN NilCondition
  ELSE ComplexCondition("or", <<c>> \o FirstOf(d, "or"))

ComplexAnd(c, d) ==
  IF ~Composable(d) THEN NilCondition
  ELSE IF IsOr(c) /\ IsOr(d)
       THEN ComplexCondition("or", FlattenSeq([i \in DOMAIN c.conds |-> AndEach(c.conds[i], d.conds)]))
  ELSE IF IsOr(c) THEN ComplexCondition("or", [i \in DOMAIN c.conds |-> And(c.conds[i], d)])
  ELSE IF IsOr(d) THEN ComplexCondition("or", AndEach(c, d.conds))
  ELSE ComplexCondition("and", c.conds \o FirstOf(d, "and"))

ComplexOr(c, d) ==
  IF ~Composable(d) THEN NilCondition
  ELSE ComplexCondition("or", FirstOf(c, "or") \o FirstOf(d, "or"))

(***************************************************************************)
(* Slices of table indexes combine as sets, and with TRUE and FALSE.       *)
(***************************************************************************)
SliceAnd(c, d) ==
  CASE d.kind = "true" -> c
    [] d.kind = "false" -> d
    [] d.kind = "slice" -> TableIndexSlice(c.tables \cap d.tables)
    [] OTHER -> NilCondition

SliceOr(c, d) ==
  CASE d.kind = "true" -> d
    [] d.kind = "false" -> c
    [] d.kind = "slice" -> TableIndexSlice(c.tables \cup d.tables)
    [] OTHER -> NilCondition

(***************************************************************************)
(* Condition.And and Condition.Or; a method call on a nil Condition        *)
(* panics.                                                                 *)
(***************************************************************************)
And(c, d) ==
  CASE c.kind = "key" -> KeyAnd(c, d)
    [] c.kind = "complex" -> ComplexAnd(c, d)
    [] c.kind = "true" -> d
    [] c.kind = "false" -> c
    [] c.kind = "slice" -> SliceAnd(c, d)
    [] OTHER -> Panic

Or(c, d) ==
  CASE c.kind = "key" -> KeyOr(c, d)
    [] c.kind = "complex" -> ComplexOr(c, d)
    [] c.kind = "true" -> c
    [] c.kind = "false" -> d
    [] c.kind = "slice" -> SliceOr(c, d)
    [] OTHER -> Panic

(***************************************************************************)
(* Expressions: a comparison of two operands (columns, values or things    *)
(* getValue cannot evaluate), AND, OR, BETWEEN, IN, LIKE, parentheses and  *)
(* constants.                                                              *)
(***************************************************************************)
Col(k) == [t |-> "col", name |-> k]
Val(v) == [t |-> "val", v |-> v]
Opaque == [t |-> "opaque"]
Cmp(l, o, r) == [t |-> "cmp", op |-> o, l |-> l, r |-> r]
Logic(l, o, r) == [t |-> "logic", op |-> o, l |-> l, r |-> r]
Between(k, n, lo, hi) == [t |-> "between", col |-> k, not |-> n, lo |-> lo, hi |-> hi]
In(k, n, vs) == [t |-> "in", col |-> k, not |-> n, list |-> vs]
Like(k, v) == [t |-> "like", col |-> k, v |-> v]
Paren(e) == [t |-> "paren", e |-> e]

Compare(o, x, y) ==
  CASE o = "eq" -> x = y [] o = "ne" -> x # y
    [] o = "lt" -> x < y [] o = "le" -> x <= y
    [] o = "gt" -> x > y [] o = "ge" -> x >= y

Mirror(o) ==
  CASE o = "lt" -> "gt" [] o = "le" -> "ge" [] o = "gt" -> "lt" [] o = "ge" -> "le" [] OTHER -> o

Constant(b) == IF b THEN TrueCondition ELSE FalseCondition

(* With neither side a column and one that has no value, the key is nil and
   naming it panics. *)
ParseCompareExpression(e) ==
  CASE e.l.t = "col" /\ e.r.t = "col" -> TrueCondition
    [] e.l.t = "val" /\ e.r.t = "val" -> Constant(Compare(e.op, e.l.v, e.r.v))
    [] e.l.t = "col" /\ e.r.t = "val" -> KeyCondition(e.l.name, e.op, e.r.v)
    [] e.l.t = "val" /\ e.r.t = "col" -> KeyCondition(e.r.name, Mirror(e.op), e.l.v)
    [] e.l.t # "col" /\ e.r.t # "col" -> Panic
    [] OTHER -> Error

(* Both sides are parsed before they are combined; an error ends it. *)
ParseLogicalCondition(o, l, r) ==
  IF Failed(l) THEN l ELSE IF Failed(r) THEN r
  ELSE IF o = "or" THEN Or(l, r) ELSE And(l, r)

ParseLikeCondition(e) == KeyCondition(e.col, "like", e.v)

ParseBetweenCondition(e) ==
  IF e.not
  THEN ComplexCondition("or", <<KeyCondition(e.col, "lt", e.lo), KeyCondition(e.col, "gt", e.hi)>>)
  ELSE ComplexCondition("and", <<KeyCondition(e.col, "ge", e.lo), KeyCondition(e.col, "le", e.hi)>>)

(* IN is a disjunction of equalities, NOT IN one of inequalities. *)
ParseInCondition(e) ==
  ComplexCondition("or", [i \in DOMAIN e.list |->
                            KeyCondition(e.col, IF e.not THEN "ne" ELSE "eq", e.list[i])])

ParseValCondition(e) == IF e.t = "val" THEN Constant(e.v # 0) ELSE Error

RECURSIVE ParseCondition(_)
ParseCondition(e) ==
  CASE e.t = "cmp" -> ParseCompareExpression(e)
    [] e.t = "logic" -> ParseLogicalCondition(e.op, ParseCondition(e.l), ParseCondition(e.r))
    [] e.t = "like" -> ParseLikeCondition(e)
    [] e.t = "between" -> ParseBetweenCondition(e)
    [] e.t = "in" -> ParseInCondition(e)
    [] e.t = "paren" -> ParseCondition(e.e)
    [] OTHER -> ParseValCondition(e)

(***************************************************************************)
(* The topology: which database holds which table.  conf[i] is a set of    *)
(* table indexes (one number or a range) or {} for a malformed entry.      *)
(***************************************************************************)
ParseTopology(conf) ==
  LET dbs == 0 .. Cardinality(DOMAIN conf) - 1
      Entry(i) == IF i \in DOMAIN conf THEN conf[i] ELSE {}
      all == UNION {Entry(i) : i \in dbs}
      count == FoldFunction(LAMBDA s, n : n + Cardinality(s), 0, conf)
  IN  IF \/ \E i \in dbs : Entry(i) = {}
         \/ Max(all \cup {0}) # count - 1
      THEN Error
      ELSE [kind |-> "topology", dbs |-> [i \in dbs |-> Entry(i)], all |-> all, len |-> count,
            db |-> [t \in all |-> Max({i \in dbs : t \in Entry(i)})]]

(***************************************************************************)
(* The ranges of NumberRange are configured by two numbers with a unit; a  *)
(* missing number stands for text that is none.                            *)
(***************************************************************************)
ParseNumber(n, unit) ==
  CASE n = Text -> Error
    [] unit = "K" -> [kind |-> "number", n |-> n * 1000]
    [] unit = "M" -> [kind |-> "number", n |-> n * 10000]
    [] OTHER -> [kind |-> "number", n |-> n]

ParseNumberRange(r) ==
  LET from == ParseNumber(r[1], r[3])
      to == ParseNumber(r[2], r[3])
  IN  IF Failed(from) \/ Failed(to) THEN Error
      ELSE IF to.n <= from.n THEN Error ELSE [kind |-> "range", range |-> <<from.n, to.n>>]

ParseNumberRangeConfig(conf) ==
  LET parsed == [i \in DOMAIN conf |-> ParseNumberRange(conf[i])]
  IN  IF \E i \in DOMAIN conf : Failed(parsed[i]) THEN Error
      ELSE [kind |-> "ranges", ranges |-> [i \in DOMAIN conf |-> parsed[i].range]]

NewShardingAlgorithm(rule, topology, walk) ==
  LET ranges == ParseNumberRangeConfig(rule.ranges)
  IN  IF Failed(topology) \/ Failed(ranges) \/ rule.name \notin {"NumberMod", "NumberRange"} THEN Error
      ELSE [kind |-> "algorithm", name |-> rule.name, key |-> rule.key, ranges |-> ranges.ranges,
            allowFullScan |-> rule.allowFullScan, topology |-> topology, walk |-> walk]

(***************************************************************************)
(* The sharding algorithms.  alg: the algorithm and its sharding column,   *)
(* topology and ranges.                                                    *)
(***************************************************************************)
GoMod(v, n) == IF v >= 0 THEN v % n ELSE -((-v) % n)

AllShards(alg) == TableIndexSlice(alg.topology.all)

\* Mutant: LE is taken for LT.
NumberModShardBelow(alg, c) ==
  CASE c.op = "eq" -> TableIndexSlice({GoMod(c.value, alg.topology.len)})
    [] c.op = "le" /\ c.value < alg.topology.len - 1 -> TableIndexSlice(0 .. c.value - 1)
    [] OTHER -> TrueCondition

NumberModShard(alg, c) ==
  LET n == alg.topology.len
      v == c.value
      idx == GoMod(v, n)
  IN  CASE c.op = "eq" -> TableIndexSlice({idx})
        [] c.op = "ne" -> TableIndexSlice(alg.topology.all \ {idx})
        [] c.op = "lt" -> IF v < n THEN TableIndexSlice(0 .. v - 1) ELSE TrueCondition
        [] c.op = "le" -> IF v < n - 1 THEN TableIndexSlice(0 .. v) ELSE TrueCondition
        [] c.op \in {"gt", "ge"} -> TrueCondition
        [] OTHER -> TableIndexSlice({})

(* The values strictly or not between the bounds, reduced modulo n, unless
   there are at least n of them; a pair of operators the code does not know
   gives no table. *)
NumberModShardRange(alg, c1, c2) ==
  LET n == alg.topology.len
      lo == c1.value + (IF c1.op = "gt" THEN 1 ELSE 0)
      hi == c2.value - (IF c2.op = "lt" THEN 1 ELSE 0)
      Bounds(a, b) == c1.op \in a /\ c2.op \in b
  IN  IF Bounds({"gt", "ge"}, {"lt", "le"})
      THEN IF hi - lo + 1 >= n THEN TrueCondition
           ELSE TableIndexSlice({GoMod(i, n) : i \in lo .. hi})
      ELSE IF Bounds({"ne"}, {"lt", "le"})
      THEN IF c1.value >= n - 1 \/ c2.value - (IF c2.op = "lt" THEN 1 ELSE 0) >= n + c1.value THEN TrueCondition
           ELSE TableIndexSlice({i % n : i \in 0 .. c2.value - 1 \ {c1.value}})
      ELSE TableIndexSlice({})

NumberRangeShard(alg, c) ==
  LET v == c.value
      Where(P(_)) == TableIndexSlice({i \in DOMAIN alg.ranges : P(alg.ranges[i])})
  IN  CASE c.op = "eq" -> Where(LAMBDA r : r[1] <= v /\ v < r[2])
        [] c.op = "ne" -> TrueCondition
        [] c.op = "lt" -> Where(LAMBDA r : r[1] < v)
        [] c.op = "le" -> Where(LAMBDA r : r[1] <= v)
        [] c.op = "gt" -> Where(LAMBDA r : r[2] > v)
        [] c.op = "ge" -> Where(LAMBDA r : r[2] >= v)
        [] OTHER -> TableIndexSlice({})

(* The first range, in the order the map is walked, that holds the value:
   where two meet, either. *)
Calculate(alg, v, walk) ==
  LET hits == {i \in DOMAIN alg.ranges : alg.ranges[i][1] <= v /\ v <= alg.ranges[i][2]}
  IN  IF hits = {} THEN -1 ELSE IF walk = "up" THEN Min(hits) ELSE Max(hits)

CalculateRange(alg, begin, end) ==
  LET start == Calculate(alg, begin, alg.walk["begin"])
      stop == Calculate(alg, end, alg.walk["end"])
  IN  IF (start = -1 /\ stop = -1) \/ stop < start THEN FalseCondition
      ELSE TableIndexSlice(start .. stop)

NumberRangeShardRange(alg, c1, c2) ==
  LET Bounds(a, b) == c1.op \in a /\ c2.op \in b
      Where(P(_)) == TableIndexSlice({i \in DOMAIN alg.ranges : P(alg.ranges[i])})
  IN  CASE Bounds({"gt", "ge"}, {"lt", "le"}) -> CalculateRange(alg, c1.value, c2.value)
        [] Bounds({"ne"}, {"lt"}) -> Where(LAMBDA r : r[1] < c2.value)
        [] Bounds({"ne"}, {"le"}) -> Where(LAMBDA r : r[1] <= c2.value)
        [] OTHER -> TableIndexSlice({})

(* A column that is not the sharding key says nothing about the shards; a
   value that is no number is an error. *)
AlgorithmShard(alg, c) ==
  IF c.key # alg.key THEN TrueCondition
  ELSE IF c.value = Text THEN Error
  ELSE IF alg.name = "NumberMod" THEN NumberModShard(alg, c) ELSE NumberRangeShard(alg, c)

ShardRange(alg, c1, c2) ==
  IF c1.key # alg.key THEN TrueCondition
  ELSE IF Text \in {c1.value, c2.value} THEN Error
  ELSE IF alg.name = "NumberMod" THEN NumberModShardRange(alg, c1, c2)
  ELSE NumberRangeShardRange(alg, c1, c2)

KeyShard(alg, c) ==
  LET s == AlgorithmShard(alg, c)
  IN  IF s.kind = "true" THEN AllShards(alg) ELSE s

(***************************************************************************)
(* Two conditions on one column, joined by AND: shards of the stronger, of *)
(* the range between them, none, or nil where the code has no case for the *)
(* pair of operators.  The pair is sorted, so EQ comes first, lower bounds *)
(* before upper ones and NE last.                                          *)
(***************************************************************************)
AndEQ(alg, k1, k2) ==
  IF k2.op = "like" THEN NilCondition
  ELSE IF Compare(k2.op, k1.value, k2.value) THEN KeyShard(alg, k1) ELSE FalseCondition

AndUpper(alg, k1, k2) ==   \* k1 is LT or LE, k2 comes after it
  LET below == KeyCondition(k1.key, "lt", k1.value)
  IN  CASE k2.op = "ne" /\ k2.value >= k1.value -> KeyShard(alg, IF k2.value > k1.value THEN k1 ELSE below)
        [] k2.op = "ne" /\ k2.value < k1.value -> ShardRange(alg, k1, k2)
        [] k2.op = "lt" -> KeyShard(alg, IF k2.value <= k1.value THEN k2 ELSE k1)
        [] k2.op = "le" -> KeyShard(alg, IF k2.value < k1.value THEN k2 ELSE k1)
        [] OTHER -> NilCondition

AndLower(alg, k1, k2) ==   \* k1 is GT or GE, k2 comes after it
  LET strict == k1.op = "gt" \/ k2.op = "lt"
      empty == k2.value < k1.value \/ (k2.value = k1.value /\ strict)
      later == k2.value > k1.value \/ (k2.value = k1.value /\ k2.op = "gt" /\ k1.op = "ge")
  IN  CASE k2.op = "ne" -> TrueCondition
        [] k2.op \in {"lt", "le"} /\ empty -> FalseCondition
        [] k2.op \in {"lt", "le"} /\ ~empty /\ k2.value > k1.value -> ShardRange(alg, k1, k2)
        [] k2.op \in {"gt", "ge"} -> KeyShard(alg, IF later THEN k2 ELSE k1)
        [] OTHER -> NilCondition

AndKeys(alg, k1, k2) ==
  CASE k1.op = "eq" -> AndEQ(alg, k1, k2)
    [] k1.op \in {"lt", "le"} -> AndUpper(alg, k1, k2)
    [] k1.op \in {"gt", "ge"} -> AndLower(alg, k1, k2)
    [] OTHER -> NilCondition

(* Or of what was combined so far with one more key.  What was combined is no
   KeyCondition any more from the third key on: k1 is then a nil pointer, and
   its Or with a slice is nil. *)
OrShards(s1, s2) ==
  IF Failed(s1) THEN s1 ELSE IF Failed(s2) THEN s2 ELSE IF s1 = NilCondition THEN NilCondition ELSE Or(s1, s2)
OrKeys(alg, c, k) ==
  IF Failed(c) THEN c
  ELSE OrShards(IF c.kind = "key" THEN KeyShard(alg, c) ELSE NilCondition, KeyShard(alg, k))

OpRank(o) ==
  CASE o = "eq" -> 1 [] o = "ge" -> 2 [] o = "gt" -> 3 [] o = "le" -> 4
    [] o = "like" -> 5 [] o = "lt" -> 6 [] o = "ne" -> 7

(* The place of a number of at most two digits among the printed numbers:
   "-" comes before the digits, and "1" before "10" before "2". *)
Printed(v) ==
  LET n == IF v < 0 THEN -v ELSE v
      place == IF n < 10 THEN 11 * n ELSE 11 * (n \div 10) + 1 + (n % 10)
  IN  IF v < 0 THEN place - 1000 ELSE place

ConditionLess(alg, c, d) ==   \* "key" "op" "value" as text
  \/ c.key # d.key /\ d.key = alg.key      \* the other column's name is the smaller
  \/ c.key = d.key /\ OpRank(c.op) < OpRank(d.op)
  \/ c.key = d.key /\ c.op = d.op /\ Printed(c.value) < Printed(d.value)

RECURSIVE AndPairs(_, _)
AndPairs(alg, ks) ==
  CASE Len(ks) = 0 -> <<>>
    [] Len(ks) = 1 -> <<KeyShard(alg, ks[1])>>
    [] OTHER -> IF ks[1].key # ks[2].key
                THEN <<KeyShard(alg, ks[1])>> \o AndPairs(alg, Tail(ks))
                ELSE <<AndKeys(alg, ks[1], ks[2])>> \o AndPairs(alg, SubSeq(ks, 3, Len(ks)))

KeyGroup(alg, c, keys) ==
  IF Len(keys) <= 1 THEN [i \in DOMAIN keys |-> KeyShard(alg, keys[i])]
  ELSE IF c.op = "and" THEN AndPairs(alg, keys)
  ELSE <<FoldLeft(LAMBDA acc, k : OrKeys(alg, acc, k), keys[1], Tail(keys))>>

(* What all parts together say; nil panics. *)
Conclude(alg, whole) ==
  CASE whole.kind = "true" -> AllShards(alg)
    [] whole.kind = "false" -> TableIndexSlice({})
    [] whole.kind \in {"slice", "err", "panic"} -> whole
    [] OTHER -> Panic

Combine(alg, op, parts) ==
  IF \E i \in DOMAIN parts : Failed(parts[i]) THEN SelectSeq(parts, Failed)[1]
  ELSE IF parts = <<>> THEN Panic
  ELSE Conclude(alg, FoldLeft(LAMBDA d, e : IF Failed(d) THEN d ELSE IF op = "and" THEN And(d, e) ELSE Or(d, e),
                              parts[1], Tail(parts)))

OfKind(c, k) == SelectSeq(c.conds, LAMBDA d : d.kind = k)
SortedKeys(alg, c) == SortSeq(OfKind(c, "key"), LAMBDA d, e : ConditionLess(alg, d, e))

(* The nested conditions are sharded first, and an error of theirs ends it;
   then one FALSE, or TRUE, decides. *)
RECURSIVE ComplexShard(_, _)
ComplexShard(alg, c) ==
  LET inner == OfKind(c, "complex")
      nested == [i \in DOMAIN inner |-> ComplexShard(alg, inner[i])]
  IN  IF \E i \in DOMAIN nested : Failed(nested[i]) THEN SelectSeq(nested, Failed)[1]
      ELSE IF c.op = "and" /\ OfKind(c, "false") # <<>> THEN TableIndexSlice({})
      ELSE IF c.op = "or" /\ OfKind(c, "true") # <<>> THEN AllShards(alg)
      ELSE Combine(alg, c.op, nested \o KeyGroup(alg, c, SortedKeys(alg, c)))

(* What the optimizer asks: the shards of a parsed WHERE clause. *)
Shard(alg, c) ==
  CASE c.kind = "key" -> KeyShard(alg, c)
    [] c.kind = "complex" -> ComplexShard(alg, c)
    [] c.kind = "true" -> AllShards(alg)
    [] c.kind = "false" -> TableIndexSlice({})
    [] OTHER -> Panic

(***************************************************************************)
(* The reference: what the WHERE clause means for a row, and where the     *)
(* rows are.                                                               *)
(***************************************************************************)
Operand(x, row) == IF x.t = "col" THEN row[x.name] ELSE x.v

RECURSIVE Holds(_, _)
Holds(e, row) ==
  CASE e.t = "cmp" -> Compare(e.op, Operand(e.l, row), Operand(e.r, row))
    [] e.t = "logic" -> IF e.op = "and" THEN Holds(e.l, row) /\ Holds(e.r, row)
                        ELSE Holds(e.l, row) \/ Holds(e.r, row)
    [] e.t = "between" -> e.not # (e.lo <= row[e.col] /\ row[e.col] <= e.hi)
    [] e.t = "in" -> e.not # (row[e.col] \in Range(e.list))
    [] e.t = "paren" -> Holds(e.e, row)
    [] e.t = "val" -> e.v # 0
    [] OTHER -> FALSE

(* An INSERT sends a row to the shard of its key. *)
Home(alg, row) ==
  LET s == KeyShard(alg, KeyCondition(alg.key, "eq", row[alg.key]))
  IN  IF s.kind = "slice" THEN s.tables \cap alg.topology.all ELSE {}
=============================================================================

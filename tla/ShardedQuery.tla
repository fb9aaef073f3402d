---------------------------- MODULE ShardedQuery ----------------------------
(***************************************************************************)
(* One statement on a sharded table, from the optimizer to the answer:     *)
(* packages optimize and plan.  The WHERE clause gives the shards (module  *)
(* Sharding), the shards give one plan per database, the plans of a query  *)
(* run concurrently and their results are merged; the plans of a write run *)
(* one after the other, under a global transaction when there are several. *)
(*                                                                         *)
(* The databases are external: they answer a SELECT by its meaning, or     *)
(* fail.  A row is its key and one more column, both integers.             *)
(***************************************************************************)
EXTENDS Sharding

CONSTANTS
  Cases   \* [rule, topology, rows, stmt]: a sharding rule, a configured topology, the
          \* rows of the logical table and the statement a client sends: in the binary
          \* protocol or not, with an XID or not, inside a transaction of his or not

VARIABLES
  stmt,      \* the statement
  alg,       \* the rule, its topology and the orders in which Go walks the map of ranges
  tables,    \* table index -> its rows
  before,    \* the rows when the statement arrived
  stage,     \* "new", "running", "merging", "answered"
  plan,      \* [kind, dbs]: dbs[d] are the tables to visit in database d
  todo,      \* databases whose plan has not ended; for a write the tables left
  results,   \* what came through the result channel, in order
  cells,     \* merging: the rows of each result not taken yet,
  turn,      \*   the result a row was last taken from,
  skipped,   \*   the rows passed over because of the offset,
  merged,    \*   and the rows taken
  global,    \* the transaction around the statement: none, the client's own ("client"),
             \*   or the global one of a write on several databases ("begun"), and its end
  undo,      \* databases whose branch is committed and not yet undone
  answer

merging == <<cells, turn, skipped, merged>>
vars == <<stmt, alg, tables, before, stage, plan, todo, results, cells, turn, skipped, merged,
          global, undo, answer>>

Null == -5000   \* before every value, printed or not
NoLimit == [offset |-> 0, count |-> -1]
NoPlan == [kind |-> "none", dbs |-> <<>>]
NoAnswer == [kind |-> "none"]
Topology == alg.topology
FirstDB == 0   \* executors[0]

(***************************************************************************)
(* Package optimize.                                                       *)
(***************************************************************************)
(* The databases the shards are in, with their tables; an index that no table
   has leads to a database that does not exist. *)
ShardMap(shards) ==
  [d \in {Topology.db[t] : t \in shards} |-> {t \in shards : Topology.db[t] = d}]

Planned(kind, dbs) == [kind |-> kind, dbs |-> dbs]

PlanShards(s, single, multi) ==
  IF Failed(s) THEN s
  ELSE IF Cardinality(s.tables) = Topology.len /\ ~alg.allowFullScan THEN Error
  ELSE IF ~(s.tables \subseteq Topology.all) THEN Error
  ELSE LET m == ShardMap(s.tables)
       IN  Planned(IF Cardinality(DOMAIN m) = 1 THEN single ELSE multi, m)

OptimizeByCondition(c, single, multi) ==
  IF Failed(c) THEN c ELSE PlanShards(Shard(alg, c), single, multi)

OptimizeSelect ==
  CASE stmt.table = "global" -> Planned("direct", FirstDB :> {})
    [] stmt.table = "unknown" -> Error
    [] OTHER -> OptimizeByCondition(ParseCondition(stmt.where), "query", "multiQuery")

OptimizeUpdate ==
  IF stmt.table # "sharded" THEN Error
  ELSE OptimizeByCondition(ParseCondition(stmt.where), "write", "multiWrite")

OptimizeDelete ==
  IF stmt.table # "sharded" THEN Error
  ELSE OptimizeByCondition(ParseCondition(stmt.where), "write", "multiWrite")

\* Mutant: the shard is always that of a generated id.
OptimizeInsertGenerated == Planned("insert", ShardMap({GoMod(stmt.nextID, Topology.len)}))

(* findPkIndex, from 1; 0 when the statement does not name the primary key. *)
FindPkIndex ==
  IF stmt.pk \in ToSet(stmt.columns) THEN CHOOSE i \in DOMAIN stmt.columns : stmt.columns[i] = stmt.pk ELSE 0

(* The parameters of a prepared INSERT: the cells written as ?, row by row. *)
Args ==
  LET marked == SelectSeq(stmt.columns, LAMBDA c : c \in stmt.params)
  IN  FlattenSeq([i \in DOMAIN stmt.rows |-> [j \in DOMAIN marked |-> stmt.rows[i][marked[j]]]])

(* getPkValue: the cell of the first row; of a prepared statement the parameter
   with the number of the column, whichever cell that one is for. *)
GetPkValue(i) == IF stmt.binary THEN Args[i] ELSE stmt.rows[1][stmt.columns[i]]

(* Only the first row is looked at, and its primary key, which need not be the
   sharding key: the algorithm then answers with every shard.  Without one an
   id is generated for the choice of the shard and is not written into the
   statement. *)
OptimizeInsert ==
  LET i == FindPkIndex
      s == KeyShard(alg, KeyCondition(stmt.pk, "eq", IF i = 0 THEN stmt.nextID ELSE GetPkValue(i)))
  IN  IF stmt.table # "sharded" THEN Error
      ELSE IF stmt.binary /\ i > Len(Args) THEN Panic
      ELSE IF Failed(s) THEN Error
      ELSE IF Cardinality(s.tables) = Topology.len /\ ~alg.allowFullScan THEN Error
      ELSE IF ~(s.tables \subseteq Topology.all) \/ Cardinality(DOMAIN ShardMap(s.tables)) # 1 THEN Error
      ELSE Planned("insert", ShardMap(s.tables))

(* One direct plan per table, all of which share the table name of the
   statement: when they run, it names the table that was planned last. *)
OptimizeCreateIndex ==
  IF stmt.table = "unknown" THEN Error
  ELSE IF stmt.table = "global" THEN Planned("direct", FirstDB :> {})
  ELSE Planned("index", Topology.dbs)

OptimizeDropIndex ==
  IF stmt.table = "unknown" THEN Error
  ELSE IF stmt.table = "global" THEN Planned("direct", FirstDB :> {})
  ELSE Planned("index", Topology.dbs)

(* The first table the first database holds stands for the logical one. *)
OptimizeShowTableStatus == Planned("direct", FirstDB :> IF stmt.table = "sharded" THEN {Min(Topology.dbs[FirstDB])} ELSE {})
OptimizeShowTableMeta == Planned("direct", FirstDB :> IF stmt.table = "sharded" THEN {Min(Topology.dbs[FirstDB])} ELSE {})
OptimizeShowTables == Planned("showTables", FirstDB :> {})

Optimize ==
  CASE stmt.type = "select" -> OptimizeSelect
    [] stmt.type = "insert" -> OptimizeInsert
    [] stmt.type = "update" -> OptimizeUpdate
    [] stmt.type = "delete" -> OptimizeDelete
    [] stmt.type = "showStatus" -> OptimizeShowTableStatus
    [] stmt.type = "showTables" -> OptimizeShowTables
    [] stmt.type = "showMeta" -> OptimizeShowTableMeta
    [] stmt.type = "createIndex" -> OptimizeCreateIndex
    [] stmt.type = "dropIndex" -> OptimizeDropIndex
    [] OTHER -> Error

(***************************************************************************)
(* External: what a database answers.                                      *)
(***************************************************************************)
Matches(S) == {r \in S : Holds(stmt.where, r)}

(* The columns of ORDER BY, of which the later ones break ties. *)
RowLess(order, r, s) ==
  \E i \in DOMAIN order :
    /\ \A j \in 1 .. i - 1 : r[order[j].col] = s[order[j].col]
    /\ IF order[i].desc THEN r[order[i].col] > s[order[i].col] ELSE r[order[i].col] < s[order[i].col]

ByKey == <<[col |-> "id", desc |-> FALSE, named |-> TRUE]>>
ByTable == <<[col |-> "b", desc |-> FALSE, named |-> TRUE]>>
OrderOf(order) == IF order = <<>> THEN ByKey ELSE order \o ByKey
Sorted(S, order) ==
  [i \in 1 .. Cardinality(S) |->
     CHOOSE r \in S : Cardinality({s \in S : RowLess(OrderOf(order), s, r)}) = i - 1]
FirstN(s, n) == SubSeq(s, 1, IF n < Len(s) THEN n ELSE Len(s))

(***************************************************************************)
(* plan.QueryOnSingleDBPlan: one SELECT with LIMIT offset + count, or a    *)
(* UNION ALL of one per table, ordered as a whole.                         *)
(***************************************************************************)
CastLimit == stmt.limit # NoLimit
GenerateSelect(t) ==
  LET rows == Sorted(Matches(tables[t]), stmt.order)
  IN  IF CastLimit THEN FirstN(rows, stmt.limit.offset + stmt.limit.count) ELSE rows

(* An aggregate gives one row per table.  The ORDER BY of the union names the
   key unless the query runs on several databases, where the aggregate was
   noticed; a union of aggregates has no such column. *)
Generate(ts) ==
  IF stmt.agg = "none"
  THEN [kind |-> "rows", rows |-> Sorted(UNION {ToSet(GenerateSelect(t)) : t \in ts}, stmt.order)]
  ELSE IF Cardinality(ts) > 1 /\ plan.kind = "query" /\ stmt.order = <<>> THEN Error
  ELSE [kind |-> "rows",
        rows |-> Sorted({[id |-> Cardinality(Matches(tables[t])), b |-> t] : t \in ts}, ByTable)]

(***************************************************************************)
(* plan.mergeResult: rows are taken from the results of several databases, *)
(* which are in the order of their names, one at a time.                   *)
(***************************************************************************)
(* A column of ORDER BY that is not named as a column of the result is taken
   to be the first one. *)
CastOrderByItems(order) ==
  [i \in DOMAIN order |-> IF order[i].named THEN order[i] ELSE [order[i] EXCEPT !.col = "id"]]

Open == {i \in DOMAIN cells : cells[i] # <<>>}

\* Mutant: the cells of one result are taken before those of the next.
FirstCell == Min(Open)

(* compare: a column of the text protocol is its bytes, of the binary one a
   number; nil comes first. *)
CompareValue(v) == IF v = Null \/ stmt.binary THEN v ELSE Printed(v)

(* OrderByCells.Less. *)
CellLess(order, r, s) ==
  RowLess(order, [c \in DOMAIN r |-> CompareValue(r[c])], [c \in DOMAIN s |-> CompareValue(s[c])])

(* compareOrderByCells: the smallest head, of equal ones the first. *)
CompareOrderByCells ==
  LET order == CastOrderByItems(stmt.order)
  IN  Min({i \in Open : \A j \in Open : ~CellLess(order, Head(cells[j]), Head(cells[i]))})

(* Without ORDER BY a row is taken from each result in turn. *)
NextInTurn ==
  IF \E i \in Open : i > turn THEN Min({i \in Open : i > turn}) ELSE Min(Open)

(* COUNT is added up, into a row of the binary protocol only: on a row of the
   text protocol the sum is written past the end of a nil slice.  The other
   aggregates are left as they come. *)
AggregateResult(res) ==
  IF Failed(res) \/ stmt.agg # "count" THEN res
  ELSE IF res.rows = <<>> \/ ~stmt.binary THEN Panic
  ELSE [res EXCEPT !.rows = <<[res.rows[1] EXCEPT !.id = FoldLeft(LAMBDA n, r : n + r.id, 0, res.rows)]>>]

(***************************************************************************)
(* Actions.                                                                *)
(***************************************************************************)
(* With a configuration that cannot be parsed the program does not start. *)
Init ==
  /\ \E c \in Cases, w \in [{"begin", "end"} -> {"up", "down"}] :
       /\ alg = NewShardingAlgorithm(c.rule, ParseTopology(c.topology), w)
       /\ ~Failed(alg)
       /\ c.rule.name = "NumberMod" => w["begin"] = "up" /\ w["end"] = "up"   \* walks no map
       /\ stmt = c.stmt
       /\ tables = [t \in alg.topology.all |-> {r \in c.rows : Home(alg, r) = {t}}]
  /\ before = tables
  /\ stage = "new"
  /\ plan = NoPlan
  /\ todo = <<>>
  /\ results = <<>>
  /\ cells = <<>> /\ turn = 0 /\ skipped = 0 /\ merged = <<>>
  /\ global = "none"
  /\ undo = {}
  /\ answer = NoAnswer

Answer(a) == stage' = "answered" /\ answer' = a

OwnGlobal(p) == p.kind = "multiWrite" /\ ~stmt.inTx /\ ~stmt.hint

(* The statement is planned, or refused.  Outside a transaction of the client
   a write on several databases that carries no XID begins a global transaction
   of its own, which may fail; a query on none has no first plan to take the
   limit from. *)
Plan ==
  /\ stage = "new"
  /\ LET p == Optimize
     IN  IF Failed(p)
         THEN Answer(p) /\ UNCHANGED <<plan, todo, global>>
         ELSE IF p.kind = "multiQuery" /\ p.dbs = <<>>
         THEN Answer(Panic) /\ UNCHANGED <<plan, todo, global>>
         ELSE \/ /\ OwnGlobal(p)
                 /\ Answer(Error) /\ UNCHANGED <<plan, todo, global>>
              \/ /\ plan' = p
                 /\ todo' = p.dbs
                 /\ stage' = "running"
                 /\ global' = IF stmt.inTx THEN "client" ELSE IF OwnGlobal(p) THEN "begun" ELSE "none"
                 /\ UNCHANGED answer
  /\ UNCHANGED <<stmt, alg, tables, before, merging, results, undo>>

(* A direct plan: one statement on one database, answered as it comes. *)
Direct ==
  /\ stage = "running" /\ plan.kind = "direct"
  /\ \E a \in {[kind |-> "ok"], Error} : Answer(a)
  /\ UNCHANGED <<stmt, alg, tables, before, merging, plan, todo, results, global, undo>>

(* The query of one database returns, or fails. *)
Query(d) ==
  /\ stage = "running" /\ plan.kind \in {"query", "multiQuery"}
  /\ d \in DOMAIN todo
  /\ \E r \in {Generate(todo[d]), Error} :
       results' = Append(results, [db |-> d, result |-> r])
  /\ todo' = [e \in DOMAIN todo \ {d} |-> todo[e]]
  /\ UNCHANGED <<stmt, alg, tables, before, merging, stage, plan, global, undo, answer>>

(* All are back: the first error of the channel, the result of the only
   database, or the results to merge, by database name. *)
Collect ==
  /\ stage = "running" /\ plan.kind \in {"query", "multiQuery"}
  /\ todo = <<>>
  /\ LET errs == SelectSeq(results, LAMBDA r : Failed(r.result))
         byName == SortSeq(results, LAMBDA r, s : r.db < s.db)
     IN  IF errs # <<>> THEN Answer(errs[1].result) /\ UNCHANGED cells
         ELSE IF plan.kind = "query" THEN Answer(results[1].result) /\ UNCHANGED cells
         ELSE /\ cells' = [i \in DOMAIN byName |-> byName[i].result.rows]
              /\ stage' = "merging"
              /\ UNCHANGED answer
  /\ UNCHANGED <<stmt, alg, tables, before, plan, todo, results, turn, skipped, merged, global, undo>>

BeforeOffset == skipped < stmt.limit.offset
Full == CastLimit /\ Len(merged) = stmt.limit.count
Ended == stmt.order # <<>> /\ Full /\ merged # <<>>

(* With ORDER BY, a database that returned no row leaves a nil cell: the first
   comparison dereferences it, or the count of what is left does (not made
   when no row is wanted). *)
HasNilCell ==
  /\ stmt.order # <<>> /\ turn = 0 /\ skipped = 0
  /\ Open # DOMAIN cells
  /\ Open # {} \/ stmt.limit.count # 0

(* A NULL of the binary protocol is decoded to no value at all, and the order
   column of the row that comes next is read through it. *)
HasNilValue ==
  /\ stmt.binary /\ ~Ended
  /\ \E i \in Open, o \in ToSet(CastOrderByItems(stmt.order)) : Head(cells[i])[o.col] = Null

NilCell ==
  /\ stage = "merging" /\ (HasNilCell \/ HasNilValue)
  /\ Answer(Panic)
  /\ UNCHANGED <<stmt, alg, tables, before, plan, todo, results, merging, global, undo>>

(* One row is taken from result i; it is passed over, kept, or dropped. *)
TakeFrom(i, skip, keep) ==
  /\ cells' = [cells EXCEPT ![i] = Tail(@)]
  /\ turn' = i
  /\ skipped' = IF skip THEN skipped + 1 ELSE skipped
  /\ merged' = IF keep /\ ~skip THEN Append(merged, Head(cells[i])) ELSE merged
  /\ UNCHANGED <<stmt, alg, tables, before, stage, plan, todo, results, global, undo, answer>>

Merging == stage = "merging" /\ Open # {} /\ ~HasNilCell /\ ~HasNilValue

MergeWithoutOrderByAndLimit ==
  /\ Merging /\ stmt.order = <<>> /\ ~CastLimit
  /\ TakeFrom(NextInTurn, FALSE, TRUE)

MergeWithLimit ==   \* goes on after the limit and keeps no more
  /\ Merging /\ stmt.order = <<>> /\ CastLimit
  /\ TakeFrom(NextInTurn, BeforeOffset, ~Full)

MergeWithOrderBy ==
  /\ Merging /\ stmt.order # <<>> /\ ~CastLimit
  /\ TakeFrom(CompareOrderByCells, FALSE, TRUE)

MergeWithOrderByAndLimit ==   \* ends when the count is reached, which zero never is
  /\ Merging /\ stmt.order # <<>> /\ CastLimit
  /\ ~Ended
  /\ TakeFrom(CompareOrderByCells, BeforeOffset, TRUE)

Merged ==
  /\ stage = "merging"
  /\ ~HasNilCell
  /\ Open = {} \/ Ended
  /\ Answer(AggregateResult([kind |-> "rows", rows |-> merged]))
  /\ UNCHANGED <<stmt, alg, tables, before, plan, todo, results, merging, global, undo>>

(***************************************************************************)
(* Writes.  The plan of a database runs one statement per table in a local *)
(* transaction and commits it; one that fails returns at once and leaves   *)
(* its transaction open.  Here the tables of a database change when it     *)
(* commits; inside a transaction of the client nothing is committed before *)
(* he ends it.  results holds the rows affected.  No statement of the plan *)
(* carries the hints of the client's statement, so without a global        *)
(* transaction of its own a write registers no branch.                     *)
(***************************************************************************)
Writing == stage = "running" /\ plan.kind \in {"write", "multiWrite"}
Affected(ts) == Cardinality(UNION {Matches(tables[t]) : t \in ts})

(* No assignment is refused, the one of the sharding key neither. *)
Updated(S) == (S \ Matches(S)) \cup {[r EXCEPT ![stmt.set.col] = stmt.set.value] : r \in Matches(S)}
Deleted(S) == S \ Matches(S)
Write(S) == IF stmt.type = "delete" THEN Deleted(S) ELSE Updated(S)
UniqueKeys(S) == Cardinality({r.id : r \in S}) = Cardinality(S)
Wrote(ts) == [t \in DOMAIN tables |-> IF t \in ts THEN Write(tables[t]) ELSE tables[t]]

(* A branch of a global transaction that is being rolled back cannot be
   registered any more. *)
WriteTables(d) ==
  /\ d \in DOMAIN todo
  /\ global # "rollingback"
  /\ \A t \in todo[d] : UniqueKeys(Write(tables[t]))
  /\ tables' = Wrote(todo[d])
  /\ results' = Append(results, [db |-> d, result |-> [kind |-> "ok", affected |-> Affected(todo[d])]])
  /\ todo' = [e \in DOMAIN todo \ {d} |-> todo[e]]
  /\ undo' = IF global = "begun" THEN undo \cup {d} ELSE undo
  /\ UNCHANGED <<stmt, alg, before, merging, stage, plan, global, answer>>

UpdateExecute(d) == Writing /\ stmt.type = "update" /\ WriteTables(d)
DeleteExecute(d) == Writing /\ stmt.type = "delete" /\ WriteTables(d)

(* What of the tables of d is written although the plan returns an error:
   nothing; all, where the answer to COMMIT is lost; in a transaction of the
   client the tables before the one that failed. *)
WrittenAnyway(d) ==
  IF stmt.inTx THEN SUBSET todo[d] \ {todo[d]}
  ELSE IF global = "rollingback" THEN {{}} ELSE {{}, todo[d]}

\* Mutant: the deferred function commits the global transaction.
WriteFailsCommitted(d) ==
  /\ Writing
  /\ d \in DOMAIN todo
  /\ global' = "committed" /\ undo' = {}
  /\ Answer(Error)
  /\ UNCHANGED <<stmt, alg, tables, before, merging, plan, todo, results>>

(* The deferred function rolls the global transaction back; that this failed
   is only logged. *)
WriteFails(d) ==
  /\ Writing
  /\ d \in DOMAIN todo
  /\ \E ts \in WrittenAnyway(d) :
       /\ \A t \in ts : UniqueKeys(Write(tables[t]))
       /\ tables' = Wrote(ts)
       /\ undo' = IF ts # {} /\ global = "begun" THEN undo \cup {d} ELSE undo
  /\ \/ global = "begun" /\ global' = "rollingback"
     \/ UNCHANGED global
  /\ Answer(Error)
  /\ UNCHANGED <<stmt, alg, before, merging, plan, todo, results>>

(* The deferred function commits the global transaction; if that fails, or the
   transaction is being rolled back already, the answer is still OK. *)
EndMulti ==
  /\ todo = <<>>
  /\ \/ global = "begun" /\ global' = "committed" /\ undo' = {}
     \/ UNCHANGED <<global, undo>>
  /\ Answer([kind |-> "ok", affected |-> FoldLeft(LAMBDA n, r : n + r.result.affected, 0, results)])
  /\ UNCHANGED <<stmt, alg, tables, before, merging, plan, todo, results>>

MultiUpdateExecute == Writing /\ stmt.type = "update" /\ EndMulti
MultiDeleteExecute == Writing /\ stmt.type = "delete" /\ EndMulti

(* The global transaction was not ended in time (TransactionManager). *)
GlobalTimeout ==
  /\ global = "begun"
  /\ global' = "rollingback"
  /\ UNCHANGED <<stmt, alg, tables, before, merging, stage, plan, todo, results, undo, answer>>

(* The transaction manager undoes a branch (TransactionManager). *)
Undo(d) ==
  /\ global = "rollingback" /\ d \in undo
  /\ undo' = undo \ {d}
  /\ tables' = [t \in DOMAIN tables |-> IF t \in plan.dbs[d] THEN before[t] ELSE tables[t]]
  /\ UNCHANGED <<stmt, alg, before, merging, stage, plan, todo, results, global, answer>>

(* The client ends his transaction, whatever the statement was answered with
   (module Serving has the ways in which this fails). *)
EndTransaction ==
  /\ stage = "answered" /\ global = "client"
  /\ \/ global' = "committed" /\ UNCHANGED tables
     \/ global' = "rolledback" /\ tables' = before
  /\ UNCHANGED <<stmt, alg, before, merging, stage, plan, todo, results, undo, answer>>

Insert ==
  /\ stage = "running" /\ plan.kind = "insert"
  /\ LET t == Min(UNION Range(plan.dbs))   \* the first of the only database
     IN  \/ /\ tables' = [tables EXCEPT ![t] = @ \cup ToSet(stmt.rows)]
            /\ Answer([kind |-> "ok", affected |-> Len(stmt.rows)])
         \/ Answer(Error) /\ UNCHANGED tables
  /\ UNCHANGED <<stmt, alg, before, merging, plan, todo, results, global, undo>>

(* CREATE INDEX and DROP INDEX: every plan names the table planned last, which
   the databases that do not hold it refuse; the last outcome is the answer. *)
Index ==
  /\ stage = "running" /\ plan.kind = "index"
  /\ \E d \in DOMAIN plan.dbs :
       /\ results' = <<[db |-> d, result |-> [kind |-> "ok", indexed |-> {Max(plan.dbs[d])}]]>>
       /\ \E a \in {[kind |-> "ok"], Error} : Answer(a)
  /\ UNCHANGED <<stmt, alg, tables, before, merging, plan, todo, global, undo>>

(* Numbered tables are shown by the first logical name they contain, once. *)
FilterTable(x) == IF x.numbered THEN x.logical ELSE x.name
Shown == {[numbered |-> TRUE, logical |-> "sharded", name |-> "sharded_n", n |-> t] : t \in Topology.dbs[FirstDB]}
         \cup {[numbered |-> FALSE, logical |-> "sharded", name |-> "global", n |-> 0]}

ShowTables ==
  /\ stage = "running" /\ plan.kind = "showTables"
  /\ \E a \in {[kind |-> "ok", names |-> {FilterTable(x) : x \in Shown}], Error} : Answer(a)
  /\ UNCHANGED <<stmt, alg, tables, before, merging, plan, todo, results, global, undo>>

(* The statement is answered and the transaction around it ended. *)
Settled == stage = "answered" /\ global \notin {"client", "begun"} /\ (global = "rollingback" => undo = {})

Finished == Settled /\ UNCHANGED vars

Next ==
  \/ Plan \/ Direct \/ Collect \/ NilCell \/ Merged \/ Insert \/ Index
  \/ MergeWithoutOrderByAndLimit \/ MergeWithLimit \/ MergeWithOrderBy \/ MergeWithOrderByAndLimit
  \/ MultiUpdateExecute \/ MultiDeleteExecute \/ ShowTables \/ Finished
  \/ GlobalTimeout \/ EndTransaction
  \/ \E d \in DOMAIN Topology.dbs : Query(d) \/ UpdateExecute(d) \/ DeleteExecute(d) \/ WriteFails(d) \/ Undo(d)

Spec == Init /\ [][Next]_vars

(***************************************************************************)
(* Properties.                                                             *)
(***************************************************************************)
(***************************************************************************)
(* The WHERE clauses whose shards are too few, by the alternatives of      *)
(* their disjunctive normal form.                                          *)
(***************************************************************************)
Alternatives(c) == {FirstOf(a, "and") : a \in ToSet(FirstOf(c, "or"))}

(* key < x AND key <> y with y < x: And asks ShardRange for LT and NE, a pair
   it does not know. *)
UpperAndNot(g) ==
  \E k1, k2 \in ToSet(g) : k1.op \in {"lt", "le"} /\ k2.op = "ne" /\ k2.key = k1.key /\ k2.value < k1.value

(* key <> x by modulus: the whole table of x is left out, and with it the
   other rows it holds. *)
ModulusAndNot(g) == alg.name = "NumberMod" /\ \E k \in ToSet(g) : k.key = alg.key /\ k.op = "ne"

(* key > x AND key <= y by ranges: y lies beyond the last range, or where two
   ranges meet and the first is found; or the ranges do not increase with the
   number of the table, and the tables between the two are others. *)
Increasing == \A i, j \in DOMAIN alg.ranges : i < j => alg.ranges[i][1] < alg.ranges[j][1]
CutRange(g) ==
  /\ alg.name = "NumberRange"
  /\ \E k1, k2 \in ToSet(g) :
       /\ k1.op \in {"gt", "ge"} /\ k2.op \in {"lt", "le"}
       /\ \/ ~Increasing
          \/ Calculate(alg, k2.value, "up") = -1
          \/ k2.op = "le" /\ Calculate(alg, k2.value, "up") # Calculate(alg, k2.value, "down")

(* key < x by modulus where x is not above zero: no table is visited, although
   a negative multiple of their number is kept in the first. *)
BelowZero(g) ==
  /\ alg.name = "NumberMod"
  /\ \E k \in ToSet(g) : k.key = alg.key /\ ((k.op = "lt" /\ k.value <= 0) \/ (k.op = "le" /\ k.value < 0))

(* (a AND b) AND ((c AND d) OR e): the first alternative is appended to the
   receiver, from which the second is then made. *)
SharedReceiver(e) ==
  /\ e.t = "logic" /\ e.op = "and"
  /\ LET l == ParseCondition(e.l)
         r == ParseCondition(e.r)
     IN  /\ IsOr(r) /\ \E d \in ToSet(r.conds) : IsAnd(d)
         /\ Composable(l) /\ \E c \in ToSet(FirstOf(l, "or")) : IsAnd(c)

KnownLoss ==
  \/ SharedReceiver(stmt.where)
  \/ \E g \in Alternatives(ParseCondition(stmt.where)) :
       \A k \in ToSet(g) : k.kind = "key" /\ (UpperAndNot(g) \/ ModulusAndNot(g) \/ CutRange(g) \/ BelowZero(g))

(* Every table that holds a row the WHERE clause selects is visited, whatever
   the shape of the clause, the algorithm, its ranges, the topology and the
   sign of the keys, apart from the five shapes of KnownLoss. *)
RoutesToEveryMatch ==
  plan.kind \in {"query", "multiQuery", "write", "multiWrite"} /\ ~KnownLoss
    => \A t \in Topology.all : Matches(before[t]) # {} => \E d \in DOMAIN plan.dbs : t \in plan.dbs[d]

(***************************************************************************)
(* The logical table as one table.                                         *)
(***************************************************************************)
LogicalTable == UNION Range(before)
Expected == Sorted(Matches(LogicalTable), stmt.order)
Window == FirstN(SubSeq(Expected, stmt.limit.offset + 1, Len(Expected)), stmt.limit.count)
SameOrder(r, s) == \A i \in DOMAIN stmt.order : r[stmt.order[i].col] = s[stmt.order[i].col]

(* ORDER BY a number of the text protocol, where the rows of a database come in
   the order of the numbers and are merged by that of their bytes. *)
PrintedOrder ==
  /\ plan.kind = "multiQuery" /\ ~stmt.binary
  /\ \E i \in DOMAIN stmt.order : \E r, s \in Matches(LogicalTable) :
       r[stmt.order[i].col] < s[stmt.order[i].col]
         /\ CompareValue(r[stmt.order[i].col]) > CompareValue(s[stmt.order[i].col])

(* What is left unmerged: LIMIT on one database when it skips rows or spans
   tables, LIMIT 0 with ORDER BY, an ORDER BY item not named as in the result,
   and numbers compared as text. *)
Unmerged ==
  \/ PrintedOrder
  \/ CastLimit /\ plan.kind = "query" /\ (stmt.limit.offset > 0 \/ \E d \in DOMAIN plan.dbs : Cardinality(plan.dbs[d]) > 1)
  \/ CastLimit /\ stmt.order # <<>> /\ stmt.limit.count = 0
  \/ \E i \in DOMAIN stmt.order : ~stmt.order[i].named

(* A query over the shards answers as one table would: the selected rows, each
   once, in the order asked for, and of those the window of LIMIT; COUNT
   answers their number. *)
QueryAnswersAsOneTable ==
  answer.kind = "rows" /\ ~KnownLoss /\ ~Unmerged =>
    CASE stmt.agg = "count" -> Len(answer.rows) = 1 /\ answer.rows[1].id = Len(Expected)
      [] stmt.agg = "none" ->
           LET want == IF CastLimit THEN Window ELSE Expected
           IN  /\ Len(answer.rows) = Len(want)
               /\ IsInjective(answer.rows)
               /\ ToSet(answer.rows) \subseteq ToSet(Expected)
               /\ stmt.order # <<>> => \A i \in DOMAIN want : SameOrder(answer.rows[i], want[i])
      [] OTHER -> TRUE

(* Writes nothing makes atomic: on several databases with an XID, which is
   registered nowhere, and in a transaction of the client, who commits what a
   failed statement has left in it. *)
Unguarded ==
  \/ stmt.hint /\ plan.kind = "multiWrite" /\ global = "none"
  \/ stmt.inTx /\ answer.kind # "ok" /\ global = "committed"

AllWritten == \A t \in Topology.all : tables[t] = Write(before[t])

(* A write on the shards happens everywhere or nowhere, whatever fails in
   between: once the transaction around it has ended, all selected rows are
   written or none is.  Answered with success all are, and counted, unless
   the transaction was rolled back all the same: that its Commit failed, or
   that it had run out of time, is only logged.  Answered with an error none
   is, unless the plan had one database, whose answer to COMMIT was lost. *)
WriteIsAtomic ==
  Settled /\ plan.kind \in {"write", "multiWrite"} /\ ~KnownLoss /\ ~Unguarded =>
    /\ AllWritten \/ tables = before
    /\ answer.kind = "ok" /\ global \in {"none", "committed"} =>
         AllWritten /\ answer.affected = Cardinality(Matches(LogicalTable))
    /\ answer.kind # "ok" /\ global # "none" => tables = before

(* Statements that put a row elsewhere: an INSERT of several rows, without the
   primary key, of a table sharded by another column, or prepared with a value
   before its parameters; an UPDATE of the sharding key. *)
Displacing ==
  \/ /\ stmt.type = "insert"
     /\ \/ Len(stmt.rows) > 1
        \/ FindPkIndex = 0
        \/ stmt.pk # alg.key
        \/ stmt.binary /\ FindPkIndex <= Len(Args) /\ GetPkValue(FindPkIndex) # stmt.rows[1][stmt.pk]
  \/ stmt.type = "update" /\ stmt.set.col = alg.key

(* A row is where a query by its key looks for it, whatever was written. *)
RowsAreFoundByKey == \A t \in Topology.all : \A r \in tables[t] : t \in Home(alg, r)

(* The statements of Displacing are the only ones that lead a row away from
   home: no other write, failed, timed out or undone, under both algorithms. *)
RowsAreAtHome == ~Displacing => RowsAreFoundByKey
=============================================================================

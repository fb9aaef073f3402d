----------------------------- MODULE UndoImages -----------------------------
(***************************************************************************)
(* What automatic rollback does to the rows of one table: statements of    *)
(* global transactions take a before and an after image, register the rows *)
(* of the images as locked and store the images as an undo log             *)
(* (filter/dt, filter/dt/exec); a rollback compares the images with the    *)
(* table and puts the rows back (dt/mysql_undo_executor.go,                *)
(* dt/mysql_undo_log_manager.go).  Beside them, clients write the table    *)
(* without a global transaction, with or without a GlobalLock hint.        *)
(*                                                                         *)
(* A row has its key, column "id", and one other column, "v".  The         *)
(* database is external: committed rows, row locks until a local           *)
(* transaction ends, and its default isolation level, REPEATABLE READ: a   *)
(* statement and a read FOR UPDATE work on the rows as they are, a plain   *)
(* read on the snapshot of the local transaction's first plain read and on *)
(* the rows the transaction itself has changed.  The transaction manager   *)
(* is reduced to what this table sees of it; module TransactionManager has *)
(* its protocol.                                                           *)
(***************************************************************************)
EXTENDS Integers, Sequences, FiniteSets, Functions

CONSTANTS
  Pks,       \* the possible keys, numbers
  Values,    \* the possible values of "v", positive numbers
  Micros,    \* the values that are times with a fraction of a second; the one below is the time without it
  Xids,      \* the global transactions
  Writers,   \* the other clients
  Workloads, \* bound: w[a] is what a runs, for some w in Workloads: a global transaction a sequence of local
             \*   transactions [auto, stmts], another client one statement
  Tables     \* the initial tables

NoRow == 0
NoLimit == 0
Nobody == "nobody"

ASSUME ValuesArePositive == /\ Pks \subseteq Nat \ {NoRow} /\ Values \subseteq Nat \ {NoRow}
                            /\ \A v \in Micros : v \in Values /\ v - 1 \in Values \ Micros
ASSUME NobodyRuns == Nobody \notin Xids \cup Writers /\ Xids \cap Writers = {}

VARIABLES
  table,    \* the committed rows, NoRow where there is none
  rowLock,  \* the database's row locks
  glock,    \* the lock keys in etcd
  undoLog,  \* undoLog[x]: the committed undo logs of x, by id
  sess,     \* sess[x]: the connection on which x runs its statements
  snapshot, \* snapshot[x]: the table the plain reads of x's local transaction see, None before the first
  writer,   \* writer[w]: [pc, stmt]
  status,   \* status[x] of the global transaction
  undo,     \* undo[x]: the running Undo
  orig,     \* history: orig[x][p] is what row p held before the first committed write of x,
  wild,     \*   the rows somebody wrote without the protection of images and locks, or that lost it, and
            \*   those an after image shows as they were in an older snapshot,
  dirty     \*   the transactions whose Undo was refused by what it found in the table

vars == <<table, rowLock, glock, undoLog, sess, snapshot, writer, status, undo, orig, wild, dirty>>

-----------------------------------------------------------------------------
(* Rows, images and their encoding.                                          *)

None == <<>>

(* What the rows of f, and for all others those of g, hold. *)
Over(f, g) == [p \in DOMAIN f \cup DOMAIN g |-> IF p \in DOMAIN f THEN f[p] ELSE g[p]]

(* BuildTableRecords: the rows of S the database returns, nil when there is none. *)
Image(S, t) == [p \in {q \in S \cap Pks : t[q] # NoRow} |-> t[p]]

(* The rows a WHERE clause selects whose first parameter is the key: s.rows, *)
(* and the other column: s.vals.                                             *)
Where(rows, s, t) == {p \in rows \cap Pks : t[p] \in s.vals}

(* A prepared statement's condition is executed with the last of its         *)
(* parameters, the one of LIMIT among them though the condition has no LIMIT.*)
LastParameters(s) == IF s.limitParam THEN {s.limit} ELSE s.rows

(* The images of an UPDATE or a DELETE are of all the rows of its WHERE      *)
(* clause; its LIMIT is not part of the SELECT.                              *)
QueryBeforeImage(s, t) == Image(Where(s.rows, s, t), t)
PrepareBeforeImage(s, t) == Image(Where(LastParameters(s), s, t), t)
ProcessBefore(s, t) == IF s.binary THEN PrepareBeforeImage(s, t) ELSE QueryBeforeImage(s, t)

(* convertField and convertPbField: the undo log keeps times to the second. *)
Converted(v) == IF v \in Micros THEN v - 1 ELSE v
convertTableRecords(image) == [p \in DOMAIN image |-> Converted(image[p])]
DecodeSqlUndoLog(l) == [l EXCEPT !.before = convertTableRecords(@), !.after = convertTableRecords(@)]

BuildLockKeyFirst(image) == {p \in DOMAIN image : \A q \in DOMAIN image : p <= q}
BuildLockKey(image) == DOMAIN image

-----------------------------------------------------------------------------
(* The key values of an INSERT.  Columns count from 0, parameters from 1.    *)

Columns == <<"id", "v">>
Position(c, cols) == CHOOSE i \in 0..Len(cols) - 1 : cols[i + 1] = c

(* A statement that does not name the key column falls back on where the table has it. *)
getPKIndex(s) == IF "id" \in Range(s.cols) THEN Position("id", s.cols) ELSE Position("id", Columns)

QueryPKValues(s) == {l[getPKIndex(s) + 1] : l \in {k \in Range(s.lists) : getPKIndex(s) < Len(k)}}

(* The parameter is found by its number modulo the number of columns named. *)
Parameter(s, i) == s.lists[((i - 1) \div Len(s.lists[1])) + 1][((i - 1) % Len(s.lists[1])) + 1]
Parameters(s) == 1..Len(s.lists) * Len(s.lists[1])
PreparePKValues(s) == {Parameter(s, i) : i \in {j \in Parameters(s) : j % Len(s.cols) = getPKIndex(s) + 1}}

DividesByZero(s) == s.cols = <<>>

(* An empty IN () is a syntax error. *)
QueryInsertFails(s) == QueryPKValues(s) = {}
PrepareInsertFails(s) == DividesByZero(s) \/ PreparePKValues(s) = {}
InsertFails(s) == IF s.binary THEN PrepareInsertFails(s) ELSE QueryInsertFails(s)
getPKValuesByColumn(s) == IF s.binary THEN PreparePKValues(s) ELSE QueryPKValues(s)

(* Statements whose images are those of the rows they write. *)
Supported(s) ==
  \/ s.op = "delete" /\ s.limit = NoLimit
  \/ s.op = "update" /\ DOMAIN s.set = {"v"} /\ ~(s.binary /\ s.limitParam)
  \/ s.op = "insert" /\ s.dup = "error" /\ (s.cols = <<>> \/ "id" \in Range(s.cols))

-----------------------------------------------------------------------------
(* What is run: statements the parser accepts, for the columns of the table. *)

IsWrite(s) ==
  \/ /\ s.op \in {"update", "delete"} /\ s.vals \subseteq Values
     /\ s.limitParam => s.limit # NoLimit
     /\ s.op = "update" => \/ DOMAIN s.set = {"v"} /\ s.set["v"] \in Values
                           \/ DOMAIN s.set = {"id"} /\ s.set["id"] \in Pks
  \/ /\ s.op = "insert" /\ s.cols \in Seq(Range(Columns)) /\ s.lists \in Seq(Seq(Pks \cup Values))
     /\ \A i \in DOMAIN s.lists : Len(s.lists[i]) = Len(IF s.cols = <<>> THEN Columns ELSE s.cols)

IsScript(script) ==
  /\ script \in Seq(Range(script))
  /\ \A i \in DOMAIN script :
       /\ script[i].auto \in BOOLEAN /\ script[i].stmts \in Seq(Range(script[i].stmts))
       /\ \A j \in DOMAIN script[i].stmts : script[i].stmts[j].op = "select" \/ IsWrite(script[i].stmts[j])

ASSUME WorkloadsAreRun == \A w \in Workloads : /\ \A x \in Xids : IsScript(w[x])
                                               /\ \A a \in Writers : IsWrite(w[a])
ASSUME TablesHoldRows == Tables \subseteq [Pks -> Values \cup {NoRow}]

-----------------------------------------------------------------------------
(* What the database does with a statement.                                  *)

Field(s, l, c, default) ==
  LET cols == IF s.cols = <<>> THEN Columns ELSE s.cols
  IN IF c \in Range(cols) THEN l[Position(c, cols) + 1] ELSE default

(* The keys the rows of an INSERT get: their own, or any that is free. *)
InsertedAt(s, t) ==
  {k \in [DOMAIN s.lists -> Pks] :
     /\ \A i, j \in DOMAIN k : k[i] = k[j] => i = j
     /\ \A i \in DOMAIN k : /\ k[i] = Field(s, s.lists[i], "id", k[i])
                            /\ t[k[i]] # NoRow => s.dup = "update"}

(* The rows an UPDATE or a DELETE takes: all of its WHERE clause, or as many as its LIMIT. *)
Taken(s, t) == LET W == Where(s.rows, s, t)
               IN IF s.limit = NoLimit \/ Cardinality(W) <= s.limit THEN {W} ELSE {S \in SUBSET W : Cardinality(S) = s.limit}

(* The tables a statement may leave, none when it fails. *)
Results(s, t) ==
  CASE s.op = "delete" -> {[p \in Pks |-> IF p \in S THEN NoRow ELSE t[p]] : S \in Taken(s, t)}
    [] s.op = "update" /\ DOMAIN s.set = {"v"} -> {[p \in Pks |-> IF p \in S THEN s.set["v"] ELSE t[p]] : S \in Taken(s, t)}
    [] s.op = "update" /\ DOMAIN s.set = {"id"} ->
         LET q == s.set["id"]
         IN {IF S \subseteq {q} THEN t ELSE [t EXCEPT ![q] = t[CHOOSE p \in S : TRUE], ![CHOOSE p \in S : TRUE] = NoRow] :
               S \in {U \in Taken(s, t) : U \subseteq {q} \/ (Cardinality(U) = 1 /\ t[q] = NoRow)}}
    [] s.op = "insert" ->
         {[p \in Pks |-> IF \E i \in DOMAIN k : k[i] = p
                         THEN Field(s, s.lists[CHOOSE i \in DOMAIN k : k[i] = p], "v", 1) ELSE t[p]] : k \in InsertedAt(s, t)}

(* The rows a statement wrote, those it wrote what they held included. *)
Written(s, t, u) == {p \in Pks : t[p] # u[p]} \cup (IF s.op = "insert" THEN {} ELSE Where(s.rows, s, t))
RowsRead(s) == Pks \cap IF s.binary THEN LastParameters(s) ELSE s.rows
Lockable(o, S) == \A p \in S : rowLock[p] \in {o, Nobody}
Lock(o, S) == [p \in Pks |-> IF p \in S THEN o ELSE rowLock[p]]
Unlocked(o) == [p \in Pks |-> IF rowLock[p] = o THEN Nobody ELSE rowLock[p]]

-----------------------------------------------------------------------------
(* A statement of a global transaction, between two of which the session is  *)
(* at "stmt".  A local transaction that is "auto" is each of its steps.      *)

Running(x) == sess[x].pc # "over" /\ status[x] = "begin"
Tx(x) == sess[x].script[sess[x].tx]
InTx(x) == Running(x) /\ sess[x].tx <= Len(sess[x].script)
Stmt(x) == Tx(x).stmts[sess[x].st]
At(x, pc) == InTx(x) /\ sess[x].pc = pc /\ sess[x].st <= Len(Tx(x).stmts)
View(x) == Over(sess[x].buf, table)

(* What a plain read shows; of the transaction's own writes only those that *)
(* changed a row.                                                           *)
ReadView(x) == IF snapshot[x] = None THEN View(x) ELSE snapshot[x]
Read(x) == [snapshot EXCEPT ![x] = IF Tx(x).auto THEN None ELSE ReadView(x)]
Changed(x, t) == [snapshot EXCEPT ![x] = [p \in DOMAIN @ |-> IF t[p] # View(x)[p] THEN t[p] ELSE @[p]]]

Covered(x) == Supported(Stmt(x)) /\ ~Tx(x).auto

Step(x, pc) == [sess EXCEPT ![x].pc = pc]

(* processBefore...: rows of an UPDATE or a DELETE are read FOR UPDATE, *)
(* which locks them until the local transaction ends.                   *)
PreHandle(x) ==
  /\ At(x, "stmt") /\ Stmt(x).op \in {"update", "delete", "insert"}
  /\ IF Stmt(x).op = "insert"
     THEN sess' = [Step(x, "execute") EXCEPT ![x].before = None] /\ UNCHANGED rowLock
     ELSE /\ Lockable(x, RowsRead(Stmt(x)))
          /\ rowLock' = IF Tx(x).auto THEN rowLock ELSE Lock(x, RowsRead(Stmt(x)))
          /\ sess' = [Step(x, "execute") EXCEPT ![x].before = ProcessBefore(Stmt(x), View(x))]
  /\ UNCHANGED <<table, glock, undoLog, snapshot, writer, status, undo, orig, wild, dirty>>

Execute(x) ==
  /\ At(x, "execute")
  /\ \E t \in Results(Stmt(x), View(x)) :
       LET S == Written(Stmt(x), View(x), t)
       IN /\ Lockable(x, S)
          /\ IF Tx(x).auto
             THEN table' = t /\ sess' = Step(x, "image") /\ UNCHANGED rowLock
             ELSE /\ sess' = [Step(x, "image") EXCEPT ![x].buf = Over(Restrict(t, S), @)]
                  /\ rowLock' = Lock(x, S)
                  /\ UNCHANGED table
          /\ snapshot' = Changed(x, t)
          /\ wild' = IF Covered(x) THEN wild ELSE wild \cup S
  /\ UNCHANGED <<glock, undoLog, writer, status, undo, orig, dirty>>

(* AfterImage: the rows of the before image, by key, or those inserted, in a  *)
(* plain read.  A row of the before image that the statement left as it was   *)
(* (by its LIMIT, or writing what it held) may be older in the snapshot.      *)
AfterKeys(x) == IF Stmt(x).op = "insert" THEN getPKValuesByColumn(Stmt(x)) ELSE DOMAIN sess[x].before
AfterImageEarly(x) == IF Stmt(x).op = "insert" THEN Image(AfterKeys(x), ReadView(x)) ELSE sess[x].before
AfterImage(x) == IF Stmt(x).op = "delete" THEN None ELSE Image(AfterKeys(x), ReadView(x))
Older(x) == {p \in AfterKeys(x) \cap Pks : Stmt(x).op # "delete" /\ ReadView(x)[p] # View(x)[p]}

QueryAfterImage(x) ==
  /\ At(x, "image")
  /\ Stmt(x).op = "insert" => ~InsertFails(Stmt(x))
  /\ sess' = [Step(x, "register") EXCEPT ![x].after = AfterImage(x)]
  /\ snapshot' = IF Stmt(x).op = "delete" \/ AfterKeys(x) = {} THEN snapshot ELSE Read(x)
  /\ wild' = wild \cup Older(x) \cup IF Covered(x) THEN {} ELSE DOMAIN AfterImage(x) \cup DOMAIN sess[x].before
  /\ UNCHANGED <<table, rowLock, glock, undoLog, writer, status, undo, orig, dirty>>

LockKeys(x) == BuildLockKey(IF Stmt(x).op = "delete" THEN sess[x].before ELSE sess[x].after)

(* registerBranchTransaction: all the rows are free or the transaction's own. *)
RegistersAnyway(x) == LockKeys(x) \subseteq Pks
Registers(x) == \A p \in LockKeys(x) : glock[p] \in {x, Nobody}

RegisterBranch(x) ==
  /\ At(x, "register") /\ Registers(x)
  /\ glock' = [p \in Pks |-> IF p \in LockKeys(x) THEN x ELSE glock[p]]
  /\ sess' = Step(x, "log")
  /\ UNCHANGED <<table, rowLock, undoLog, snapshot, writer, status, undo, orig, wild, dirty>>

BuildUndoItem(x) == [op |-> Stmt(x).op, before |-> sess[x].before, after |-> sess[x].after, keys |-> LockKeys(x)]
InsertUndoLog(x) ==
  /\ At(x, "log")
  /\ LET s == [sess EXCEPT ![x].pc = "stmt", ![x].st = @ + 1, ![x].before = None, ![x].after = None]
     IN IF Tx(x).auto
        THEN undoLog' = [undoLog EXCEPT ![x] = Append(@, BuildUndoItem(x))] /\ sess' = s
        ELSE sess' = [s EXCEPT ![x].logs = Append(@, BuildUndoItem(x))] /\ UNCHANGED undoLog
  /\ UNCHANGED <<table, rowLock, glock, snapshot, writer, status, undo, orig, wild, dirty>>

(* processQuerySelectForUpdate: the rows are answered once the retries are *)
(* over, lockable or not.  A SELECT without FOR UPDATE is a plain read.    *)
RowsLockedBy(s) == IF s.forUpdate THEN s.rows ELSE {}
Select(x) ==
  /\ At(x, "stmt") /\ Stmt(x).op = "select"
  /\ Lockable(x, RowsLockedBy(Stmt(x)))
  /\ rowLock' = IF Tx(x).auto THEN rowLock ELSE Lock(x, RowsLockedBy(Stmt(x)))
  /\ snapshot' = IF Stmt(x).forUpdate THEN snapshot ELSE Read(x)
  /\ sess' = [sess EXCEPT ![x].st = @ + 1]
  /\ UNCHANGED <<table, glock, undoLog, writer, status, undo, orig, wild, dirty>>

LocalCommit(x) ==
  /\ InTx(x) /\ sess[x].pc = "stmt" /\ sess[x].st > Len(Tx(x).stmts)
  /\ table' = View(x)
  /\ undoLog' = [undoLog EXCEPT ![x] = @ \o sess[x].logs]
  /\ rowLock' = Unlocked(x)
  /\ sess' = [sess EXCEPT ![x].tx = @ + 1, ![x].st = 1, ![x].buf = None, ![x].logs = <<>>]
  /\ snapshot' = [snapshot EXCEPT ![x] = None]
  /\ orig' = [orig EXCEPT ![x] = Over(@, Restrict(table, DOMAIN sess[x].buf))]
  /\ UNCHANGED <<glock, writer, status, undo, wild, dirty>>

(* Any step may fail: a refused registration, a lock wait, a duplicate key, a  *)
(* lost connection.  The client then rolls the local transaction back and runs *)
(* nothing more.                                                               *)
LocalRollback(x) ==
  /\ InTx(x) /\ (sess[x].pc # "stmt" \/ sess[x].st > 1)
  /\ rowLock' = Unlocked(x)
  /\ sess' = [sess EXCEPT ![x].pc = "over", ![x].buf = None, ![x].logs = <<>>, ![x].before = None, ![x].after = None]
  /\ snapshot' = [snapshot EXCEPT ![x] = None]
  /\ UNCHANGED <<table, glock, undoLog, writer, status, undo, orig, wild, dirty>>

-----------------------------------------------------------------------------
(* Other clients.                                                            *)

(* GlobalLockExecutor.Executable: the rows selected now have no lock key; the *)
(* statement runs later.                                                      *)
GlobalLockKeys(s) == BuildLockKey(ProcessBefore(s, table))
IsLockable(keys) == \A p \in keys : glock[p] = Nobody
CheckGlobalLock(w) ==
  /\ writer[w].pc = "stmt" /\ writer[w].stmt.hint
  /\ writer' = [writer EXCEPT ![w].pc = IF IsLockable(GlobalLockKeys(writer[w].stmt)) THEN "execute" ELSE "over"]
  /\ UNCHANGED <<table, rowLock, glock, undoLog, sess, snapshot, status, undo, orig, wild, dirty>>

Write(w) ==
  /\ writer[w].pc = IF writer[w].stmt.hint THEN "execute" ELSE "stmt"
  /\ \E t \in Results(writer[w].stmt, table) :
       /\ Lockable(w, Written(writer[w].stmt, table, t))
       /\ table' = t
       /\ wild' = wild \cup Written(writer[w].stmt, table, t)
  /\ writer' = [writer EXCEPT ![w].pc = "over"]
  /\ UNCHANGED <<rowLock, glock, undoLog, sess, snapshot, status, undo, orig, dirty>>

-----------------------------------------------------------------------------
(* The end of a global transaction: its client asks for it between two local *)
(* transactions (module TransactionManager has the timer that does not wait).*)

BetweenTxs(x) == ~InTx(x) \/ (sess[x].pc = "stmt" /\ sess[x].st = 1)
HeldBy(x) == {p \in Pks : glock[p] = x}

(* A row key is deleted whoever holds it. *)
Released(keys) == [p \in Pks |-> IF p \in keys THEN Nobody ELSE glock[p]]

GlobalCommit(x) ==
  /\ status[x] = "begin" /\ sess[x].tx > Len(sess[x].script)
  /\ status' = [status EXCEPT ![x] = "committing"]
  /\ glock' = Released(HeldBy(x))
  /\ UNCHANGED <<table, rowLock, undoLog, sess, snapshot, writer, undo, orig, wild, dirty>>

DeleteUndoLogByXID(x) ==
  /\ status[x] = "committing"
  /\ undoLog' = [undoLog EXCEPT ![x] = <<>>]
  /\ status' = [status EXCEPT ![x] = "committed"]
  /\ UNCHANGED <<table, rowLock, glock, sess, snapshot, writer, undo, orig, wild, dirty>>

GlobalRollback(x) ==
  /\ status[x] = "begin" /\ BetweenTxs(x)
  /\ status' = [status EXCEPT ![x] = "rollbacking"]
  /\ UNCHANGED <<table, rowLock, glock, undoLog, sess, snapshot, writer, undo, orig, wild, dirty>>

-----------------------------------------------------------------------------
(* Undo: one local transaction over all the logs of x, the last one first.   *)

NoUndo == [pc |-> "idle", i |-> 0, buf |-> None, snap |-> None, keys |-> {}]
Log(x) == DecodeSqlUndoLog(undoLog[x][undo[x].i])

UndoBegin(x) ==
  /\ status[x] = "rollbacking" /\ undo[x].pc = "idle"
  /\ undo' = [undo EXCEPT ![x] = [NoUndo EXCEPT !.pc = "check", !.i = Len(undoLog[x])]]
  /\ UNCHANGED <<table, rowLock, glock, undoLog, sess, snapshot, writer, status, orig, wild, dirty>>

(* queryCurrentRecords reads without locking: the snapshot of the first such *)
(* read, and what this Undo wrote.                                           *)
Snapshot(x) == IF undo[x].snap = None THEN table ELSE undo[x].snap
UndoRows(l) == IF l.op = "insert" THEN l.after ELSE l.before
CurrentRecords(x, l) == Image(DOMAIN UndoRows(l), Over(undo[x].buf, Snapshot(x)))

dataValidationAndGoOn(x, l) ==
  CASE l.before # None /\ l.after = None -> "goOn"
    [] l.before = l.after -> "stop"
    [] CurrentRecords(x, l) = l.after -> "goOn"
    [] CurrentRecords(x, l) = l.before -> "stop"
    [] OTHER -> "dirty"

Reads(l) == l.before # l.after /\ l.after # None

(* A failed Undo is rolled back and tried again, but the lock keys of the logs *)
(* it had executed are returned with the error, and branchRollback releases    *)
(* them: their rows are no longer protected.                                   *)
ExecutedKeys(x) == UNION {undoLog[x][i].keys : i \in undo[x].i + 1..Len(undoLog[x])}
RollBackUndo(x) ==
  /\ undo' = [undo EXCEPT ![x] = NoUndo]
  /\ rowLock' = Unlocked(x)
  /\ glock' = Released(ExecutedKeys(x))
  /\ wild' = wild \cup ExecutedKeys(x)
Refused(x) == RollBackUndo(x) /\ dirty' = dirty \cup {x}

ValidateData(x) ==
  /\ undo[x].pc = "check" /\ undo[x].i > 0
  /\ LET verdict == dataValidationAndGoOn(x, Log(x))
         snap == IF Reads(Log(x)) THEN Snapshot(x) ELSE undo[x].snap
     IN CASE verdict = "goOn" -> /\ undo' = [undo EXCEPT ![x].pc = "undo", ![x].snap = snap]
                                 /\ UNCHANGED <<rowLock, glock, wild, dirty>>
          [] verdict = "stop" -> /\ undo' = [undo EXCEPT ![x].i = @ - 1, ![x].snap = snap]
                                 /\ UNCHANGED <<rowLock, glock, wild, dirty>>
          [] verdict = "dirty" -> Refused(x)
  /\ UNCHANGED <<table, undoLog, sess, snapshot, writer, status, orig>>

(* The undo statements: DELETE, INSERT or UPDATE each row by its key. *)
BuildUndoSql(l, t) ==
  [p \in DOMAIN UndoRows(l) |-> CASE l.op = "insert" -> NoRow
                                  [] l.op = "delete" -> l.before[p]
                                  [] l.op = "update" -> IF t[p] = NoRow THEN NoRow ELSE l.before[p]]
DuplicateKey(l, t) == l.op = "delete" /\ \E p \in DOMAIN l.before : t[p] # NoRow

UndoExecute(x) ==
  /\ undo[x].pc = "undo"
  /\ Lockable(x, DOMAIN UndoRows(Log(x)))
  /\ LET t == Over(undo[x].buf, table)
     IN IF DuplicateKey(Log(x), t)
        THEN Refused(x)
        ELSE /\ undo' = [undo EXCEPT ![x].pc = "check", ![x].i = @ - 1, ![x].buf = Over(BuildUndoSql(Log(x), t), @)]
             /\ rowLock' = Lock(x, DOMAIN UndoRows(Log(x)))
             /\ UNCHANGED <<glock, wild, dirty>>
  /\ UNCHANGED <<table, undoLog, sess, snapshot, writer, status, orig>>

(* A statement of the Undo, or its COMMIT, fails; the branch is tried again. *)
UndoFails(x) ==
  /\ undo[x].pc \in {"check", "undo"}
  /\ RollBackUndo(x)
  /\ UNCHANGED <<table, undoLog, sess, snapshot, writer, status, orig, dirty>>

UndoCommit(x) ==
  /\ undo[x].pc = "check" /\ undo[x].i = 0
  /\ table' = Over(undo[x].buf, table)
  /\ undoLog' = [undoLog EXCEPT ![x] = <<>>]
  /\ rowLock' = Unlocked(x)
  /\ undo' = [undo EXCEPT ![x] = [NoUndo EXCEPT !.pc = "release", !.keys = ExecutedKeys(x)]]
  /\ UNCHANGED <<glock, sess, snapshot, writer, status, orig, wild, dirty>>

(* The lock keys of the logs, and of branches that left none. *)
ReleaseLockKeys(x) ==
  /\ undo[x].pc = "release"
  /\ glock' = Released(undo[x].keys \cup HeldBy(x))
  /\ status' = [status EXCEPT ![x] = "rollbacked"]
  /\ undo' = [undo EXCEPT ![x] = NoUndo]
  /\ UNCHANGED <<table, rowLock, undoLog, sess, snapshot, writer, orig, wild, dirty>>

-----------------------------------------------------------------------------
NewSession(script) ==
  [script |-> script, tx |-> 1, st |-> 1, pc |-> "stmt", before |-> None, after |-> None, buf |-> None, logs |-> <<>>]

Init ==
  /\ table \in Tables
  /\ rowLock = [p \in Pks |-> Nobody] /\ glock = [p \in Pks |-> Nobody]
  /\ undoLog = [x \in Xids |-> <<>>]
  /\ \E w \in Workloads : /\ sess = [x \in Xids |-> NewSession(w[x])]
                          /\ writer = [a \in Writers |-> [pc |-> "stmt", stmt |-> w[a]]]
  /\ snapshot = [x \in Xids |-> None]
  /\ status = [x \in Xids |-> "begin"]
  /\ undo = [x \in Xids |-> NoUndo]
  /\ orig = [x \in Xids |-> None] /\ wild = {} /\ dirty = {}

Statement(x) == \/ PreHandle(x) \/ Execute(x) \/ QueryAfterImage(x) \/ RegisterBranch(x) \/ InsertUndoLog(x)
                \/ Select(x) \/ LocalCommit(x) \/ LocalRollback(x)
Undo(x) == UndoBegin(x) \/ ValidateData(x) \/ UndoExecute(x) \/ UndoFails(x) \/ UndoCommit(x) \/ ReleaseLockKeys(x)

Next == \/ \E x \in Xids : Statement(x) \/ GlobalCommit(x) \/ DeleteUndoLogByXID(x) \/ GlobalRollback(x) \/ Undo(x)
        \/ \E w \in Writers : CheckGlobalLock(w) \/ Write(w)

Spec == Init /\ [][Next]_vars

-----------------------------------------------------------------------------
(* The transactions with images of all they write, under a local transaction. *)
Protected(x) == \A i \in DOMAIN sess[x].script :
                  LET tx == sess[x].script[i]
                  IN ~tx.auto /\ \A j \in DOMAIN tx.stmts : tx.stmts[j].op = "select" \/ Supported(tx.stmts[j])

(* When the Undo of a transaction is committed (dt/mysql_undo_log_manager.go)  *)
(* and its lock keys are still held, each row it wrote holds what it held      *)
(* before the transaction's first write, whatever its statements did to it and *)
(* in how many local transactions.  Times are the same to the second: a        *)
(* fraction is not restored, and a change of the fraction alone is not undone. *)
(* Rows somebody wrote without images and locks, and rows an after image shows *)
(* as they were in an older snapshot, are not covered.                         *)
RollbackRestores ==
  \A x \in Xids : undo[x].pc = "release" /\ Protected(x) =>
    \A p \in DOMAIN orig[x] \ wild : Converted(table[p]) = Converted(orig[x][p])

(* An Undo is refused ("Has dirty records when undo.", or a duplicate key)     *)
(* only where somebody wrote a row of the transaction without images and       *)
(* locks, an after image of the transaction was read from a snapshot older     *)
(* than its row, or the transaction stored a fraction of a second the undo log *)
(* drops.                                                                      *)
RefusedForCause ==
  \A x \in dirty : Protected(x) => \E p \in DOMAIN orig[x] : p \in wild \/ table[p] \in Micros

(* The lock keys built from the images cover every row that a statement wrote  *)
(* and committed, from the local commit to the end of the global transaction   *)
(* or to a failed Undo.                                                        *)
LockKeysCoverWrites ==
  \A x \in Xids : status[x] \in {"begin", "rollbacking"} /\ Protected(x) =>
    \A p \in DOMAIN orig[x] \ wild : glock[p] = x
=============================================================================

-------------------------- MODULE UndoImagesProofs --------------------------
(***************************************************************************)
(* For any table, any statements and any number of global transactions and *)
(* other clients: the lock keys of a global transaction cover what it      *)
(* wrote, a committed Undo puts back what the transaction found, and an    *)
(* Undo is refused only for a cause.                                       *)
(***************************************************************************)
EXTENDS UndoImages, SequenceTheorems, TLAPS

\* Rows, by their keys.
Images == UNION {[S -> Nat] : S \in SUBSET Pks}

UndoItems == [op : {"update", "delete", "insert"}, before : Images, after : Images, keys : SUBSET Pks]
Scripts == {w[x] : w \in Workloads, x \in Xids}
Statements == {w[a] : w \in Workloads, a \in Writers}
Stages == {"execute", "image", "register", "log"}

Sessions == [script : Scripts, tx : Nat \ {0}, st : Nat \ {0}, pc : {"stmt", "over"} \cup Stages,
             before : Images, after : Images, buf : Images, logs : Seq(UndoItems)]

\* The type invariant.
UndoTypeOK ==
  /\ table \in [Pks -> Nat]
  /\ rowLock \in [Pks -> Xids \cup {Nobody}]
  /\ glock \in [Pks -> Xids \cup {Nobody}]
  /\ undoLog \in [Xids -> Seq(UndoItems)]
  /\ sess \in [Xids -> Sessions]
  /\ snapshot \in [Xids -> {None} \cup [Pks -> Nat]]
  /\ writer \in [Writers -> [pc : {"stmt", "execute", "over"}, stmt : Statements]]
  /\ status \in [Xids -> {"begin", "committing", "committed", "rollbacking", "rollbacked"}]
  /\ undo \in [Xids -> [pc : {"idle", "check", "undo", "release"}, i : Nat, buf : Images, snap : Images,
                        keys : SUBSET Pks]]
  /\ orig \in [Xids -> Images]
  /\ wild \subseteq Pks

\* A statement is being executed only in a local transaction of a global
\* transaction that is not decided; what is not committed is the work of such
\* a local transaction, or of a running Undo.
PhaseOf(x) ==
  /\ sess[x].pc \in Stages => /\ status[x] = "begin" /\ sess[x].tx \in DOMAIN sess[x].script
                              /\ sess[x].st \in DOMAIN Tx(x).stmts /\ IsWrite(Stmt(x))
  /\ \/ ~Running(x)
     \/ sess[x].tx \notin DOMAIN sess[x].script
     \/ Tx(x).auto
     \/ sess[x].pc = "stmt" /\ sess[x].st = 1
     => sess[x].buf = None /\ sess[x].logs = <<>>
  /\ undo[x].pc # "idle" => status[x] = "rollbacking"
  /\ undo[x].pc \in {"idle", "release"} => undo[x].buf = None
  /\ undo[x].pc \in {"check", "undo"} => undo[x].i <= Len(undoLog[x])
  /\ undo[x].pc = "undo" => undo[x].i > 0
Phases == \A x \in Xids : PhaseOf(x)

\* What is not committed is locked in the database.
RowsLocked ==
  \A x \in Xids : \A p \in DOMAIN sess[x].buf \cup DOMAIN undo[x].buf : rowLock[p] = x

\* From the before image to the after image the rows of the statement are
\* locked in the database, and nobody changes them: the before image shows what
\* the statement finds.
BeforeHolds ==
  \A x \in Xids :
    /\ sess[x].pc \in {"execute", "image"} /\ Stmt(x).op # "insert"
    /\ ~Tx(x).auto /\ Supported(Stmt(x))
    => /\ \A p \in RowsRead(Stmt(x)) : rowLock[p] = x
       /\ DOMAIN sess[x].before \subseteq RowsRead(Stmt(x))
       /\ sess[x].pc = "execute" => /\ DOMAIN sess[x].before = Where(Stmt(x).rows, Stmt(x), View(x))
                                    /\ \A p \in DOMAIN sess[x].before : sess[x].before[p] = View(x)[p]
       /\ Stmt(x).op = "update" => \A p \in DOMAIN sess[x].before : View(x)[p] # NoRow

\* The rows x has locked with lock keys, and those that lost the protection.
Kept(x) == HeldBy(x) \cup wild
Undecided(x) == status[x] \in {"begin", "rollbacking"}

\* The lock keys in the undo logs are held.
KeysHeld ==
  \A x \in Xids : Undecided(x) =>
    /\ \A i \in DOMAIN undoLog[x] : undoLog[x][i].keys \subseteq Kept(x)
    /\ \A i \in DOMAIN sess[x].logs : sess[x].logs[i].keys \subseteq Kept(x)
    /\ sess[x].pc = "log" => LockKeys(x) \subseteq Kept(x)
    /\ undo[x].keys \subseteq Kept(x)

\* The keys of the rows of an INSERT that has key values.
InsertedKeys(s) == {Field(s, s.lists[i], "id", NoRow) : i \in DOMAIN s.lists}

\* The rows of the statement that is being executed, if its images show them.
Pending(x) ==
  CASE sess[x].pc = "image" /\ Covered(x) -> IF Stmt(x).op = "insert"
                                             THEN {p \in InsertedKeys(Stmt(x)) : sess[x].buf[p] # NoRow}
                                             ELSE DOMAIN sess[x].before
    [] sess[x].pc = "register" /\ Covered(x) -> LockKeys(x)
    [] OTHER -> {}

\* What a transaction wrote has lock keys, is about to get them, or has no
\* protection.
WritesKept ==
  \A x \in Xids : Undecided(x) =>
    /\ DOMAIN sess[x].buf \subseteq Kept(x) \cup Pending(x)
    /\ DOMAIN orig[x] \subseteq Kept(x)

UndoInv == UndoTypeOK /\ Phases /\ RowsLocked /\ BeforeHolds /\ KeysHeld /\ WritesKept

---------------------------------------------------------------------------
(* Rows and statements.                                                      *)

\* What it means to be an image.
LEMMA ImageShape ==
  /\ \A f \in Images : DOMAIN f \subseteq Pks /\ f \in [DOMAIN f -> Nat]
  /\ \A S \in SUBSET Pks : [S -> Nat] \subseteq Images
  /\ None \in Images /\ DOMAIN None = {}
BY DEF Images, None

\* A statement that a script or a client runs is one the parser accepts.
LEMMA ScriptsRun ==
  /\ \A sc \in Scripts : IsScript(sc)
  /\ \A s \in Statements : IsWrite(s)
BY WorkloadsAreRun DEF Scripts, Statements

\* The rows of one image laid over others.
LEMMA OverRows ==
  ASSUME NEW f \in Images, NEW g \in Images
  PROVE  /\ Over(f, g) \in Images
         /\ DOMAIN Over(f, g) = DOMAIN f \cup DOMAIN g
         /\ \A p \in DOMAIN f : Over(f, g)[p] = f[p]
         /\ \A p \in DOMAIN g \ DOMAIN f : Over(f, g)[p] = g[p]
<1>1. DOMAIN f \cup DOMAIN g \in SUBSET Pks
  BY ImageShape
<1>2. Over(f, g) \in [DOMAIN f \cup DOMAIN g -> Nat]
  BY ImageShape DEF Over
<1> QED
  BY <1>1, <1>2, ImageShape DEF Over

\* The rows of an image laid over a table.
LEMMA OverTable ==
  ASSUME NEW f \in Images, NEW t \in [Pks -> Nat]
  PROVE  /\ Over(f, t) \in [Pks -> Nat]
         /\ \A p \in DOMAIN f : Over(f, t)[p] = f[p]
         /\ \A p \in Pks \ DOMAIN f : Over(f, t)[p] = t[p]
BY ImageShape DEF Over

\* A table without the rows outside S.
LEMMA RestrictTable ==
  ASSUME NEW S \in SUBSET Pks, NEW t \in [Pks -> Nat]
  PROVE  /\ Restrict(t, S) \in Images /\ DOMAIN Restrict(t, S) = S
         /\ \A p \in S : Restrict(t, S)[p] = t[p]
<1>1. Restrict(t, S) \in [S -> Nat]
  BY DEF Restrict
<1> QED BY <1>1, ImageShape DEF Restrict

\* The rows of S that exist.
LEMMA ImageRows ==
  ASSUME NEW S, NEW t \in [Pks -> Nat]
  PROVE  /\ Image(S, t) \in Images
         /\ DOMAIN Image(S, t) = {p \in S \cap Pks : t[p] # NoRow}
         /\ \A p \in DOMAIN Image(S, t) : Image(S, t)[p] = t[p]
<1>1. Image(S, t) \in [{p \in S \cap Pks : t[p] # NoRow} -> Nat]
  BY DEF Image
<1>2. {p \in S \cap Pks : t[p] # NoRow} \in SUBSET Pks
  OBVIOUS
<1> QED BY <1>1, <1>2, ImageShape DEF Image

\* The numbers the table may hold.
LEMMA RowNumbers == /\ Pks \subseteq Nat /\ Values \subseteq Nat
                    /\ NoRow \notin Pks \cup Values
BY ValuesArePositive DEF NoRow

\* The columns an INSERT has values for, and its values.
LEMMA InsertShape ==
  ASSUME NEW s, IsWrite(s), s.op = "insert"
  PROVE  /\ s.cols \in Seq({"id", "v"}) /\ Columns \in Seq({"id", "v"})
         /\ Len(Columns) = 2 /\ Columns[1] = "id" /\ Columns[2] = "v"
         /\ s.lists \in Seq(Seq(Pks \cup Values))
         /\ \A i \in DOMAIN s.lists : /\ s.lists[i] \in Seq(Pks \cup Values)
                                      /\ Len(s.lists[i]) = Len(IF s.cols = <<>> THEN Columns ELSE s.cols)
<1>1. Range(Columns) = {"id", "v"}
  <2>1. DOMAIN Columns = {1, 2}
    BY DEF Columns
  <2> QED BY <2>1 DEF Columns, Range
<1>2. Columns \in Seq({"id", "v"})
  BY DEF Columns
<1> QED BY <1>1, <1>2 DEF IsWrite, Columns

\* A column that is among cols has a position in them.
LEMMA PositionFound ==
  ASSUME NEW cols \in Seq({"id", "v"}), NEW c \in Range(cols)
  PROVE  Position(c, cols) \in 0..Len(cols) - 1 /\ cols[Position(c, cols) + 1] = c
<1>1. PICK j \in DOMAIN cols : cols[j] = c
  BY DEF Range
<1>2. j - 1 \in 0..Len(cols) - 1 /\ cols[(j - 1) + 1] = c
  BY <1>1
<1> QED BY <1>2 DEF Position

\* The fields of a row of an INSERT.
LEMMA FieldsAreRows ==
  ASSUME NEW s, IsWrite(s), s.op = "insert", NEW i \in DOMAIN s.lists, NEW c, NEW d \in Nat,
         d # NoRow
  PROVE  Field(s, s.lists[i], c, d) \in Nat \ {NoRow}
<1> DEFINE cols == IF s.cols = <<>> THEN Columns ELSE s.cols
<1>1. /\ cols \in Seq({"id", "v"})
      /\ s.lists[i] \in Seq(Pks \cup Values) /\ Len(s.lists[i]) = Len(cols)
  BY InsertShape
<1>2. Field(s, s.lists[i], c, d) = IF c \in Range(cols) THEN s.lists[i][Position(c, cols) + 1] ELSE d
  BY DEF Field
<1> HIDE DEF cols
<1>3. CASE c \in Range(cols)
  <2>1. Position(c, cols) + 1 \in DOMAIN s.lists[i]
    BY <1>1, <1>3, PositionFound
  <2>2. s.lists[i][Position(c, cols) + 1] \in Pks \cup Values
    BY <1>1, <2>1
  <2> QED BY <1>2, <1>3, <2>2, RowNumbers
<1> QED BY <1>2, <1>3

\* A statement leaves a table, and writes all the rows it changes.
LEMMA ResultsAreTables ==
  ASSUME NEW s, IsWrite(s), NEW t \in [Pks -> Nat], NEW u \in Results(s, t)
  PROVE  /\ u \in [Pks -> Nat]
         /\ Written(s, t, u) \subseteq Pks
         /\ \A p \in Pks \ Written(s, t, u) : u[p] = t[p]
<1>1. \A S \in Taken(s, t) : S \subseteq Pks
  BY DEF Taken, Where
<1>2. CASE s.op = "delete"
  <2>1. Results(s, t) = {[p \in Pks |-> IF p \in S THEN NoRow ELSE t[p]] : S \in Taken(s, t)}
    BY <1>2 DEF Results
  <2>2. u \in [Pks -> Nat]
    BY <2>1 DEF NoRow
  <2> QED BY <2>2 DEF Written, Where
<1>3. CASE s.op = "update" /\ DOMAIN s.set = {"v"}
  <2>1. Results(s, t) = {[p \in Pks |-> IF p \in S THEN s.set["v"] ELSE t[p]] : S \in Taken(s, t)}
    BY <1>3 DEF Results
  <2>2. s.set["v"] \in Nat
    BY <1>3, RowNumbers DEF IsWrite
  <2>3. u \in [Pks -> Nat]
    BY <2>1, <2>2
  <2> QED BY <2>3 DEF Written, Where
<1>4. CASE s.op = "update" /\ DOMAIN s.set = {"id"}
  <2> DEFINE q == s.set["id"]
             Moves(S) == IF S \subseteq {q} THEN t
                         ELSE [t EXCEPT ![q] = t[CHOOSE p \in S : TRUE], ![CHOOSE p \in S : TRUE] = NoRow]
  <2>1. Results(s, t) = {Moves(S) : S \in {U \in Taken(s, t) : U \subseteq {q} \/ (Cardinality(U) = 1 /\ t[q] = NoRow)}}
    BY <1>4 DEF Results
  <2>2. PICK S \in Taken(s, t) : u = Moves(S)
    BY <2>1
  <2>3. CASE S \subseteq {q}
    BY <2>2, <2>3 DEF Written, Where
  <2>4. CASE ~(S \subseteq {q})
    <3>1. (CHOOSE p \in S : TRUE) \in S
      BY <2>4
    <3>2. u \in [Pks -> Nat]
      BY <1>1, <2>2, <2>4, <3>1 DEF NoRow
    <3> QED BY <3>2 DEF Written, Where
  <2> QED BY <2>3, <2>4
<1>5. CASE s.op = "insert"
  <2> DEFINE Row(k) == [p \in Pks |-> IF \E i \in DOMAIN k : k[i] = p
                          THEN Field(s, s.lists[CHOOSE i \in DOMAIN k : k[i] = p], "v", 1) ELSE t[p]]
  <2>1. PICK k \in InsertedAt(s, t) : u = Row(k)
    BY <1>5 DEF Results
  <2>2. k \in [DOMAIN s.lists -> Pks]
    BY <2>1 DEF InsertedAt
  <2>3. ASSUME NEW p \in Pks, \E i \in DOMAIN k : k[i] = p
        PROVE  Field(s, s.lists[CHOOSE i \in DOMAIN k : k[i] = p], "v", 1) \in Nat
    <3>1. (CHOOSE i \in DOMAIN k : k[i] = p) \in DOMAIN s.lists
      BY <2>2, <2>3
    <3> QED BY <3>1, <1>5, FieldsAreRows DEF NoRow
  <2>4. u \in [Pks -> Nat]
    BY <2>1, <2>3
  <2> QED BY <1>5, <2>4 DEF Written
<1> QED
  BY <1>2, <1>3, <1>4, <1>5 DEF IsWrite

\* An undo log read from the database is an undo log of the same rows.
LEMMA LogIsItem ==
  ASSUME UndoTypeOK, NEW x \in Xids, undo[x].i \in DOMAIN undoLog[x]
  PROVE  /\ Log(x) \in UndoItems
         /\ DOMAIN Log(x).before = DOMAIN undoLog[x][undo[x].i].before
         /\ DOMAIN Log(x).after = DOMAIN undoLog[x][undo[x].i].after
         /\ Log(x).op = undoLog[x][undo[x].i].op /\ Log(x).keys = undoLog[x][undo[x].i].keys
<1> DEFINE l == undoLog[x][undo[x].i]
<1>1. l \in UndoItems
  BY DEF UndoTypeOK
<1>2. \A v \in Nat : Converted(v) \in Nat
  BY ValuesArePositive DEF Converted
<1>3. ASSUME NEW f \in Images PROVE convertTableRecords(f) \in Images /\ DOMAIN convertTableRecords(f) = DOMAIN f
  <2>1. convertTableRecords(f) \in [DOMAIN f -> Nat]
    BY <1>2, ImageShape DEF convertTableRecords
  <2> QED BY <2>1, ImageShape
<1>4. Log(x) = [l EXCEPT !.before = convertTableRecords(l.before), !.after = convertTableRecords(l.after)]
  BY DEF Log, DecodeSqlUndoLog
<1> HIDE DEF l
<1>5. l.before \in Images /\ l.after \in Images
  BY <1>1 DEF UndoItems
<1>6. /\ convertTableRecords(l.before) \in Images /\ DOMAIN convertTableRecords(l.before) = DOMAIN l.before
      /\ convertTableRecords(l.after) \in Images /\ DOMAIN convertTableRecords(l.after) = DOMAIN l.after
  BY <1>3, <1>5
<1> QED BY <1>1, <1>4, <1>6 DEF UndoItems, l

\* The undo statements write the rows of the log.
LEMMA UndoSqlRows ==
  ASSUME NEW l \in UndoItems, NEW t
  PROVE  BuildUndoSql(l, t) \in Images /\ DOMAIN BuildUndoSql(l, t) = DOMAIN UndoRows(l)
<1>1. UndoRows(l) \in Images /\ l.before \in Images /\ l.op \in {"update", "delete", "insert"}
  BY DEF UndoItems, UndoRows
<1>2. l.op # "insert" => UndoRows(l) = l.before
  BY DEF UndoRows
<1>3. BuildUndoSql(l, t) \in [DOMAIN UndoRows(l) -> Nat]
  BY <1>1, <1>2, ImageShape DEF BuildUndoSql, NoRow
<1> QED BY <1>1, <1>3, ImageShape

\* What a session sees is a table.
LEMMA ViewIsTable ==
  ASSUME UndoTypeOK, NEW x \in Xids
  PROVE  /\ View(x) \in [Pks -> Nat]
         /\ \A p \in DOMAIN sess[x].buf : View(x)[p] = sess[x].buf[p]
         /\ \A p \in Pks \ DOMAIN sess[x].buf : View(x)[p] = table[p]
<1>1. sess[x].buf \in Images /\ table \in [Pks -> Nat]
  BY DEF UndoTypeOK, Sessions
<1> QED BY <1>1, OverTable DEF View

\* A plain read shows a table.
LEMMA ReadIsTable ==
  ASSUME UndoTypeOK, NEW x \in Xids
  PROVE  ReadView(x) \in [Pks -> Nat]
BY ViewIsTable DEF ReadView, UndoTypeOK

\* What a session reads and changes leaves its snapshot a table.
LEMMA SnapshotIsTable ==
  ASSUME UndoTypeOK, NEW x \in Xids
  PROVE  /\ Read(x) \in [Xids -> {None} \cup [Pks -> Nat]]
         /\ \A t \in [Pks -> Nat] : Changed(x, t) \in [Xids -> {None} \cup [Pks -> Nat]]
<1>1. snapshot \in [Xids -> {None} \cup [Pks -> Nat]] /\ DOMAIN None = {}
  BY ImageShape DEF UndoTypeOK
<1>2. ReadView(x) \in [Pks -> Nat]
  BY ReadIsTable
<1>3. ASSUME NEW t \in [Pks -> Nat]
      PROVE  Changed(x, t) \in [Xids -> {None} \cup [Pks -> Nat]]
  <2> DEFINE c == [p \in DOMAIN snapshot[x] |-> IF t[p] # View(x)[p] THEN t[p] ELSE snapshot[x][p]]
  <2>1. CASE snapshot[x] = None
    <3>1. c = None
      BY <1>1, <2>1 DEF None
    <3> QED BY <1>1, <3>1 DEF Changed
  <2>2. CASE snapshot[x] \in [Pks -> Nat]
    <3>1. c \in [Pks -> Nat]
      BY <2>2
    <3> QED BY <1>1, <3>1 DEF Changed
  <2> QED BY <1>1, <2>1, <2>2
<1> QED BY <1>1, <1>2, <1>3 DEF Read

\* The images of a statement.
LEMMA ImagesAreImages ==
  ASSUME UndoTypeOK, NEW x \in Xids
  PROVE  /\ ProcessBefore(Stmt(x), View(x)) \in Images
         /\ AfterImage(x) \in Images
         /\ sess[x].pc \in Stages => LockKeys(x) \subseteq Pks
<1>1. sess[x].before \in Images /\ sess[x].after \in Images
  BY DEF UndoTypeOK, Sessions
<1> QED
  BY <1>1, ViewIsTable, ReadIsTable, ImageRows, ImageShape
  DEF ProcessBefore, PrepareBeforeImage, QueryBeforeImage, AfterImage, LockKeys, BuildLockKey

\* A session at a statement: the statement is one of its script.
LEMMA AtStatement ==
  ASSUME UndoTypeOK, NEW x \in Xids, NEW pc, At(x, pc)
  PROVE  /\ sess[x].tx \in DOMAIN sess[x].script /\ sess[x].st \in DOMAIN Tx(x).stmts
         /\ Tx(x).auto \in BOOLEAN
         /\ Stmt(x).op = "select" \/ IsWrite(Stmt(x))
<1>1. /\ IsScript(sess[x].script) /\ sess[x].tx \in Nat \ {0} /\ sess[x].st \in Nat \ {0}
      /\ sess[x].tx <= Len(sess[x].script) /\ sess[x].st <= Len(Tx(x).stmts)
  BY ScriptsRun DEF UndoTypeOK, At, InTx, Sessions
<1>2. sess[x].tx \in DOMAIN sess[x].script
  BY <1>1 DEF IsScript
<1>3. sess[x].st \in DOMAIN Tx(x).stmts
  BY <1>1, <1>2 DEF IsScript, Tx
<1> QED BY <1>1, <1>2, <1>3 DEF IsScript, Tx, Stmt

---------------------------------------------------------------------------
(* Types.                                                                    *)

\* The step of a session, as what becomes of its record.
LEMMA SessionRecord ==
  ASSUME UndoTypeOK, NEW x \in Xids
  PROVE  /\ PreHandle(x) => sess' = [sess EXCEPT ![x] = [sess[x] EXCEPT !.pc = "execute",
              !.before = IF Stmt(x).op = "insert" THEN None ELSE ProcessBefore(Stmt(x), View(x))]]
         /\ QueryAfterImage(x) => sess' = [sess EXCEPT ![x] = [sess[x] EXCEPT !.pc = "register", !.after = AfterImage(x)]]
         /\ RegisterBranch(x) => sess' = [sess EXCEPT ![x] = [sess[x] EXCEPT !.pc = "log"]]
         /\ InsertUndoLog(x) => sess' = [sess EXCEPT ![x] = [sess[x] EXCEPT !.pc = "stmt", !.st = sess[x].st + 1,
              !.before = None, !.after = None,
              !.logs = IF Tx(x).auto THEN sess[x].logs ELSE Append(sess[x].logs, BuildUndoItem(x))]]
         /\ Select(x) => sess' = [sess EXCEPT ![x] = [sess[x] EXCEPT !.st = sess[x].st + 1]]
         /\ LocalCommit(x) => sess' = [sess EXCEPT ![x] = [sess[x] EXCEPT !.tx = sess[x].tx + 1, !.st = 1,
              !.buf = None, !.logs = <<>>]]
         /\ LocalRollback(x) => sess' = [sess EXCEPT ![x] = [sess[x] EXCEPT !.pc = "over",
              !.buf = None, !.logs = <<>>, !.before = None, !.after = None]]
<1>0. sess \in [Xids -> Sessions] BY DEF UndoTypeOK
<1>1. PreHandle(x) => sess' = [sess EXCEPT ![x] = [sess[x] EXCEPT !.pc = "execute",
              !.before = IF Stmt(x).op = "insert" THEN None ELSE ProcessBefore(Stmt(x), View(x))]]
  BY <1>0 DEF PreHandle, Step, Sessions
<1>2. QueryAfterImage(x) => sess' = [sess EXCEPT ![x] = [sess[x] EXCEPT !.pc = "register", !.after = AfterImage(x)]]
  BY <1>0 DEF QueryAfterImage, Step, Sessions
<1>3. RegisterBranch(x) => sess' = [sess EXCEPT ![x] = [sess[x] EXCEPT !.pc = "log"]]
  BY <1>0 DEF RegisterBranch, Step, Sessions
<1>4. InsertUndoLog(x) => sess' = [sess EXCEPT ![x] = [sess[x] EXCEPT !.pc = "stmt", !.st = sess[x].st + 1,
              !.before = None, !.after = None,
              !.logs = IF Tx(x).auto THEN sess[x].logs ELSE Append(sess[x].logs, BuildUndoItem(x))]]
  BY <1>0 DEF InsertUndoLog, Sessions
<1>5. Select(x) => sess' = [sess EXCEPT ![x] = [sess[x] EXCEPT !.st = sess[x].st + 1]]
  BY <1>0 DEF Select, Sessions
<1>6. LocalCommit(x) => sess' = [sess EXCEPT ![x] = [sess[x] EXCEPT !.tx = sess[x].tx + 1, !.st = 1,
              !.buf = None, !.logs = <<>>]]
  BY <1>0 DEF LocalCommit, Sessions
<1>7. LocalRollback(x) => sess' = [sess EXCEPT ![x] = [sess[x] EXCEPT !.pc = "over",
              !.buf = None, !.logs = <<>>, !.before = None, !.after = None]]
  BY <1>0 DEF LocalRollback, Sessions
<1> QED BY <1>1, <1>2, <1>3, <1>4, <1>5, <1>6, <1>7

\* PreHandle leaves the other sessions alone, and of its own what is not named first.
LEMMA PreHandleFields ==
  ASSUME UndoTypeOK, NEW x \in Xids, PreHandle(x)
  PROVE  /\ \A y \in Xids \ {x} : sess'[y] = sess[y]
         /\ sess'[x].pc = "execute"
         /\ sess'[x].before = (IF Stmt(x).op = "insert" THEN None ELSE ProcessBefore(Stmt(x), View(x)))
         /\ sess'[x].script = sess[x].script /\ sess'[x].tx = sess[x].tx /\ sess'[x].st = sess[x].st
         /\ sess'[x].after = sess[x].after /\ sess'[x].buf = sess[x].buf /\ sess'[x].logs = sess[x].logs
<1>1. sess' = [sess EXCEPT ![x] = [sess[x] EXCEPT !.pc = "execute",
    !.before = IF Stmt(x).op = "insert" THEN None ELSE ProcessBefore(Stmt(x), View(x))]]
  BY SessionRecord
<1>2. sess \in [Xids -> Sessions]
  BY DEF UndoTypeOK
<1> QED BY <1>1, <1>2 DEF Sessions

\* QueryAfterImage leaves the other sessions alone, and of its own what is not named first.
LEMMA QueryAfterImageFields ==
  ASSUME UndoTypeOK, NEW x \in Xids, QueryAfterImage(x)
  PROVE  /\ \A y \in Xids \ {x} : sess'[y] = sess[y]
         /\ sess'[x].pc = "register" /\ sess'[x].after = AfterImage(x)
         /\ sess'[x].script = sess[x].script /\ sess'[x].tx = sess[x].tx /\ sess'[x].st = sess[x].st
         /\ sess'[x].before = sess[x].before /\ sess'[x].buf = sess[x].buf
         /\ sess'[x].logs = sess[x].logs
<1>1. sess' = [sess EXCEPT ![x] = [sess[x] EXCEPT !.pc = "register", !.after = AfterImage(x)]]
  BY SessionRecord
<1>2. sess \in [Xids -> Sessions]
  BY DEF UndoTypeOK
<1> QED BY <1>1, <1>2 DEF Sessions

\* RegisterBranch leaves the other sessions alone, and of its own what is not named first.
LEMMA RegisterBranchFields ==
  ASSUME UndoTypeOK, NEW x \in Xids, RegisterBranch(x)
  PROVE  /\ \A y \in Xids \ {x} : sess'[y] = sess[y]
         /\ sess'[x].pc = "log" /\ sess'[x].script = sess[x].script /\ sess'[x].tx = sess[x].tx
         /\ sess'[x].st = sess[x].st /\ sess'[x].before = sess[x].before
         /\ sess'[x].after = sess[x].after /\ sess'[x].buf = sess[x].buf /\ sess'[x].logs = sess[x].logs
<1>1. sess' = [sess EXCEPT ![x] = [sess[x] EXCEPT !.pc = "log"]]
  BY SessionRecord
<1>2. sess \in [Xids -> Sessions]
  BY DEF UndoTypeOK
<1> QED BY <1>1, <1>2 DEF Sessions

\* InsertUndoLog leaves the other sessions alone, and of its own what is not named first.
LEMMA InsertUndoLogFields ==
  ASSUME UndoTypeOK, NEW x \in Xids, InsertUndoLog(x)
  PROVE  /\ \A y \in Xids \ {x} : sess'[y] = sess[y]
         /\ sess'[x].st = sess[x].st + 1 /\ sess'[x].pc = "stmt" /\ sess'[x].before = None
         /\ sess'[x].after = None
         /\ sess'[x].logs = (IF Tx(x).auto THEN sess[x].logs ELSE Append(sess[x].logs, BuildUndoItem(x)))
         /\ sess'[x].script = sess[x].script /\ sess'[x].tx = sess[x].tx /\ sess'[x].buf = sess[x].buf
<1>1. sess' = [sess EXCEPT ![x] = [sess[x] EXCEPT !.pc = "stmt", !.st = sess[x].st + 1,
    !.before = None, !.after = None,
    !.logs = IF Tx(x).auto THEN sess[x].logs ELSE Append(sess[x].logs, BuildUndoItem(x))]]
  BY SessionRecord
<1>2. sess \in [Xids -> Sessions]
  BY DEF UndoTypeOK
<1> QED BY <1>1, <1>2 DEF Sessions

\* Select leaves the other sessions alone, and of its own what is not named first.
LEMMA SelectFields ==
  ASSUME UndoTypeOK, NEW x \in Xids, Select(x)
  PROVE  /\ \A y \in Xids \ {x} : sess'[y] = sess[y]
         /\ sess'[x].st = sess[x].st + 1 /\ sess'[x].script = sess[x].script /\ sess'[x].tx = sess[x].tx
         /\ sess'[x].pc = sess[x].pc /\ sess'[x].before = sess[x].before
         /\ sess'[x].after = sess[x].after /\ sess'[x].buf = sess[x].buf /\ sess'[x].logs = sess[x].logs
<1>1. sess' = [sess EXCEPT ![x] = [sess[x] EXCEPT !.st = sess[x].st + 1]]
  BY SessionRecord
<1>2. sess \in [Xids -> Sessions]
  BY DEF UndoTypeOK
<1> QED BY <1>1, <1>2 DEF Sessions

\* LocalCommit leaves the other sessions alone, and of its own what is not named first.
LEMMA LocalCommitFields ==
  ASSUME UndoTypeOK, NEW x \in Xids, LocalCommit(x)
  PROVE  /\ \A y \in Xids \ {x} : sess'[y] = sess[y]
         /\ sess'[x].tx = sess[x].tx + 1 /\ sess'[x].st = 1 /\ sess'[x].buf = None
         /\ sess'[x].logs = <<>> /\ sess'[x].script = sess[x].script /\ sess'[x].pc = sess[x].pc
         /\ sess'[x].before = sess[x].before /\ sess'[x].after = sess[x].after
<1>1. sess' = [sess EXCEPT ![x] = [sess[x] EXCEPT !.tx = sess[x].tx + 1, !.st = 1,
    !.buf = None, !.logs = <<>>]]
  BY SessionRecord
<1>2. sess \in [Xids -> Sessions]
  BY DEF UndoTypeOK
<1> QED BY <1>1, <1>2 DEF Sessions

\* LocalRollback leaves the other sessions alone, and of its own what is not named first.
LEMMA LocalRollbackFields ==
  ASSUME UndoTypeOK, NEW x \in Xids, LocalRollback(x)
  PROVE  /\ \A y \in Xids \ {x} : sess'[y] = sess[y]
         /\ sess'[x].pc = "over" /\ sess'[x].before = None /\ sess'[x].after = None
         /\ sess'[x].buf = None /\ sess'[x].logs = <<>> /\ sess'[x].script = sess[x].script
         /\ sess'[x].tx = sess[x].tx /\ sess'[x].st = sess[x].st
<1>1. sess' = [sess EXCEPT ![x] = [sess[x] EXCEPT !.pc = "over",
    !.buf = None, !.logs = <<>>, !.before = None, !.after = None]]
  BY SessionRecord
<1>2. sess \in [Xids -> Sessions]
  BY DEF UndoTypeOK
<1> QED BY <1>1, <1>2 DEF Sessions

\* The step that executes the statement.
LEMMA ExecuteRecord ==
  ASSUME UndoTypeOK, Phases, NEW x \in Xids, Execute(x)
  PROVE  \E t \in Results(Stmt(x), View(x)) : LET S == Written(Stmt(x), View(x), t) IN
           /\ t \in [Pks -> Nat] /\ S \subseteq Pks
           /\ IsWrite(Stmt(x))
           /\ \A p \in Pks \ S : t[p] = View(x)[p]
           /\ Lockable(x, S)
           /\ wild' = IF Covered(x) THEN wild ELSE wild \cup S
           /\ snapshot' = Changed(x, t)
           /\ sess' = [sess EXCEPT ![x] = [sess[x] EXCEPT !.pc = "image",
                !.buf = IF Tx(x).auto THEN sess[x].buf ELSE Over(Restrict(t, S), sess[x].buf)]]
           /\ \A y \in Xids \ {x} : sess'[y] = sess[y]
           /\ sess'[x].pc = "image" /\ sess'[x].script = sess[x].script /\ sess'[x].tx = sess[x].tx
           /\ sess'[x].st = sess[x].st /\ sess'[x].before = sess[x].before /\ sess'[x].after = sess[x].after
           /\ sess'[x].buf = IF Tx(x).auto THEN sess[x].buf ELSE Over(Restrict(t, S), sess[x].buf)
           /\ sess'[x].logs = sess[x].logs
           /\ rowLock' = IF Tx(x).auto THEN rowLock ELSE Lock(x, S)
           /\ table' = IF Tx(x).auto THEN t ELSE table
           /\ Restrict(t, S) \in Images /\ DOMAIN Restrict(t, S) = S
           /\ Over(Restrict(t, S), sess[x].buf) \in Images
           /\ DOMAIN Over(Restrict(t, S), sess[x].buf) = S \cup DOMAIN sess[x].buf
           /\ \A p \in S : Over(Restrict(t, S), sess[x].buf)[p] = t[p]
           /\ \A p \in DOMAIN sess[x].buf \ S : Over(Restrict(t, S), sess[x].buf)[p] = sess[x].buf[p]
<1>1. PICK t \in Results(Stmt(x), View(x)) :
        LET S == Written(Stmt(x), View(x), t)
        IN /\ Lockable(x, S)
           /\ IF Tx(x).auto
              THEN table' = t /\ sess' = Step(x, "image") /\ UNCHANGED rowLock
              ELSE /\ sess' = [Step(x, "image") EXCEPT ![x].buf = Over(Restrict(t, S), @)]
                   /\ rowLock' = Lock(x, S)
                   /\ UNCHANGED table
           /\ snapshot' = Changed(x, t)
           /\ wild' = IF Covered(x) THEN wild ELSE wild \cup S
  BY DEF Execute
<1> DEFINE S == Written(Stmt(x), View(x), t)
<1>2. IsWrite(Stmt(x))
  BY DEF Execute, At, Phases, PhaseOf, Stages
<1>3. t \in [Pks -> Nat] /\ S \subseteq Pks /\ \A p \in Pks \ S : t[p] = View(x)[p]
  BY <1>2, ViewIsTable, ResultsAreTables
<1>4. sess \in [Xids -> Sessions] /\ sess[x].buf \in Images
  BY DEF UndoTypeOK, Sessions
<1>5. /\ Restrict(t, S) \in Images /\ DOMAIN Restrict(t, S) = S
      /\ \A p \in S : Restrict(t, S)[p] = t[p]
  BY <1>3, RestrictTable
<1> HIDE DEF S
<1>6. /\ Over(Restrict(t, S), sess[x].buf) \in Images
      /\ DOMAIN Over(Restrict(t, S), sess[x].buf) = S \cup DOMAIN sess[x].buf
      /\ \A p \in S : Over(Restrict(t, S), sess[x].buf)[p] = t[p]
      /\ \A p \in DOMAIN sess[x].buf \ S : Over(Restrict(t, S), sess[x].buf)[p] = sess[x].buf[p]
  BY <1>4, <1>5, OverRows
<1>7. sess' = [sess EXCEPT ![x] = [sess[x] EXCEPT !.pc = "image",
                !.buf = IF Tx(x).auto THEN sess[x].buf ELSE Over(Restrict(t, S), sess[x].buf)]]
  <2>1. CASE Tx(x).auto
    BY <1>1, <1>4, <2>1 DEF Step, Sessions
  <2>2. CASE ~Tx(x).auto
    <3>1. sess' = [Step(x, "image") EXCEPT ![x].buf = Over(Restrict(t, S), @)]
      BY <1>1, <2>2 DEF S
    <3> QED BY <1>4, <2>2, <3>1 DEF Step, Sessions
  <2> QED BY <2>1, <2>2
<1>8. /\ \A y \in Xids \ {x} : sess'[y] = sess[y]
      /\ sess'[x].pc = "image" /\ sess'[x].script = sess[x].script /\ sess'[x].tx = sess[x].tx
      /\ sess'[x].st = sess[x].st /\ sess'[x].before = sess[x].before /\ sess'[x].after = sess[x].after
      /\ sess'[x].buf = IF Tx(x).auto THEN sess[x].buf ELSE Over(Restrict(t, S), sess[x].buf)
      /\ sess'[x].logs = sess[x].logs
  <2> DEFINE b == IF Tx(x).auto THEN sess[x].buf ELSE Over(Restrict(t, S), sess[x].buf)
  <2>1. sess' = [sess EXCEPT ![x] = [sess[x] EXCEPT !.pc = "image", !.buf = b]]
    BY <1>7
  <2> HIDE DEF b
  <2>2. /\ \A y \in Xids \ {x} : sess'[y] = sess[y]
        /\ sess'[x].pc = "image" /\ sess'[x].script = sess[x].script /\ sess'[x].tx = sess[x].tx
        /\ sess'[x].st = sess[x].st /\ sess'[x].before = sess[x].before /\ sess'[x].after = sess[x].after
        /\ sess'[x].buf = b /\ sess'[x].logs = sess[x].logs
    BY <1>4, <2>1 DEF Sessions
  <2> QED BY <2>2 DEF b
<1> QED BY <1>1, <1>2, <1>3, <1>5, <1>6, <1>7, <1>8 DEF S

\* A session's steps keep the types.
LEMMA SessionTypes ==
  ASSUME UndoTypeOK, Phases, NEW x \in Xids, Statement(x)
  PROVE  UndoTypeOK'
<1>0. /\ sess \in [Xids -> Sessions] /\ None \in Images /\ <<>> \in Seq(UndoItems)
      /\ View(x) \in [Pks -> Nat]
      /\ ProcessBefore(Stmt(x), View(x)) \in Images /\ AfterImage(x) \in Images
      /\ sess[x].st + 1 \in Nat \ {0} /\ sess[x].tx + 1 \in Nat \ {0} /\ 1 \in Nat \ {0}
  <2>1. sess[x].st \in Nat \ {0} /\ sess[x].tx \in Nat \ {0}
    BY DEF UndoTypeOK, Sessions
  <2>2. sess \in [Xids -> Sessions] /\ <<>> \in Seq(UndoItems)
    BY DEF UndoTypeOK
  <2>3. None \in Images
    BY ImageShape
  <2> QED BY <2>1, <2>2, <2>3, ViewIsTable, ImagesAreImages
<1>1. CASE PreHandle(x)
  <2>1. sess' \in [Xids -> Sessions]
    <3> DEFINE b == IF Stmt(x).op = "insert" THEN None ELSE ProcessBefore(Stmt(x), View(x))
    <3>1. sess' = [sess EXCEPT ![x] = [sess[x] EXCEPT !.pc = "execute", !.before = b]]
      BY <1>1, SessionRecord
    <3>2. b \in Images
      BY <1>0
    <3> HIDE DEF b
    <3> QED BY <1>0, <3>1, <3>2 DEF Sessions, Stages
  <2>2. rowLock' \in [Pks -> Xids \cup {Nobody}]
    BY <1>1 DEF PreHandle, UndoTypeOK, Lock
  <2> QED BY <1>1, <2>1, <2>2 DEF PreHandle, UndoTypeOK
<1>2. CASE Execute(x)
  <2>1. PICK t \in Results(Stmt(x), View(x)) : LET S == Written(Stmt(x), View(x), t) IN
           /\ t \in [Pks -> Nat] /\ S \subseteq Pks
           /\ wild' = IF Covered(x) THEN wild ELSE wild \cup S
           /\ snapshot' = Changed(x, t)
           /\ sess' = [sess EXCEPT ![x] = [sess[x] EXCEPT !.pc = "image",
                !.buf = IF Tx(x).auto THEN sess[x].buf ELSE Over(Restrict(t, S), sess[x].buf)]]
           /\ rowLock' = IF Tx(x).auto THEN rowLock ELSE Lock(x, S)
           /\ table' = IF Tx(x).auto THEN t ELSE table
           /\ Over(Restrict(t, S), sess[x].buf) \in Images
    BY <1>2, ExecuteRecord
  <2>2. sess' \in [Xids -> Sessions]
    <3> DEFINE b == IF Tx(x).auto THEN sess[x].buf ELSE Over(Restrict(t, Written(Stmt(x), View(x), t)), sess[x].buf)
    <3>1. sess' = [sess EXCEPT ![x] = [sess[x] EXCEPT !.pc = "image", !.buf = b]]
      BY <2>1
    <3>2. b \in Images
      BY <1>0, <2>1 DEF Sessions
    <3> HIDE DEF b
    <3> QED BY <1>0, <3>1, <3>2 DEF Sessions, Stages
  <2>3. rowLock' \in [Pks -> Xids \cup {Nobody}]
    BY <2>1 DEF UndoTypeOK, Lock
  <2>4. snapshot' \in [Xids -> {None} \cup [Pks -> Nat]]
    BY <2>1, SnapshotIsTable
  <2> QED BY <1>2, <2>1, <2>2, <2>3, <2>4 DEF Execute, UndoTypeOK
<1>3. CASE QueryAfterImage(x)
  <2>1. DOMAIN AfterImage(x) \cup DOMAIN sess[x].before \subseteq Pks
    BY <1>0, ImageShape DEF Sessions
  <2>2. sess' \in [Xids -> Sessions]
    <3>1. sess' = [sess EXCEPT ![x] = [sess[x] EXCEPT !.pc = "register", !.after = AfterImage(x)]]
      BY <1>3, SessionRecord
    <3> QED BY <1>0, <3>1 DEF Sessions, Stages
  <2>3. snapshot' \in [Xids -> {None} \cup [Pks -> Nat]] /\ Older(x) \subseteq Pks
    BY <1>3, SnapshotIsTable DEF QueryAfterImage, UndoTypeOK, Older
  <2> QED BY <1>3, <2>1, <2>2, <2>3 DEF QueryAfterImage, UndoTypeOK
<1>4. CASE RegisterBranch(x)
  <2>1. sess' \in [Xids -> Sessions]
    <3>1. sess' = [sess EXCEPT ![x] = [sess[x] EXCEPT !.pc = "log"]]
      BY <1>4, SessionRecord
    <3> QED BY <1>0, <3>1 DEF Sessions, Stages
  <2> QED BY <1>4, <2>1 DEF RegisterBranch, UndoTypeOK
<1>5. CASE InsertUndoLog(x)
  <2>1. IsWrite(Stmt(x)) /\ LockKeys(x) \subseteq Pks
    BY <1>5, ImagesAreImages DEF InsertUndoLog, At, Phases, PhaseOf, Stages
  <2>2. BuildUndoItem(x) \in UndoItems
    BY <1>0, <2>1 DEF BuildUndoItem, UndoItems, IsWrite, Sessions
  <2>3. /\ Append(sess[x].logs, BuildUndoItem(x)) \in Seq(UndoItems)
        /\ Append(undoLog[x], BuildUndoItem(x)) \in Seq(UndoItems)
    BY <1>0, <2>2 DEF Sessions, UndoTypeOK
  <2>4. sess' \in [Xids -> Sessions]
    <3>1. sess' = [sess EXCEPT ![x] = [sess[x] EXCEPT !.pc = "stmt", !.st = sess[x].st + 1,
            !.before = None, !.after = None,
            !.logs = IF Tx(x).auto THEN sess[x].logs ELSE Append(sess[x].logs, BuildUndoItem(x))]]
      BY <1>5, SessionRecord
    <3>2. (IF Tx(x).auto THEN sess[x].logs ELSE Append(sess[x].logs, BuildUndoItem(x))) \in Seq(UndoItems)
      BY <1>0, <2>3 DEF Sessions
    <3> QED BY <1>0, <3>1, <3>2 DEF Sessions
  <2>5. undoLog' \in [Xids -> Seq(UndoItems)]
    BY <1>5, <2>3 DEF InsertUndoLog, UndoTypeOK
  <2> QED BY <1>5, <2>4, <2>5 DEF InsertUndoLog, UndoTypeOK
<1>6. CASE Select(x)
  <2>1. sess' \in [Xids -> Sessions]
    <3>1. sess' = [sess EXCEPT ![x] = [sess[x] EXCEPT !.st = sess[x].st + 1]]
      BY <1>6, SessionRecord
    <3> QED BY <1>0, <3>1 DEF Sessions
  <2>2. rowLock' \in [Pks -> Xids \cup {Nobody}]
    BY <1>6 DEF Select, UndoTypeOK, Lock
  <2>3. snapshot' \in [Xids -> {None} \cup [Pks -> Nat]]
    BY <1>6, SnapshotIsTable DEF Select, UndoTypeOK
  <2> QED BY <1>6, <2>1, <2>2, <2>3 DEF Select, UndoTypeOK
<1>7. CASE LocalCommit(x)
  <2>1. undoLog[x] \o sess[x].logs \in Seq(UndoItems)
    BY <1>0 DEF UndoTypeOK, Sessions
  <2>2. Over(orig[x], Restrict(table, DOMAIN sess[x].buf)) \in Images
    <3>1. orig[x] \in Images /\ table \in [Pks -> Nat] /\ DOMAIN sess[x].buf \in SUBSET Pks
      BY <1>0, ImageShape DEF UndoTypeOK, Sessions
    <3> QED BY <3>1, RestrictTable, OverRows
  <2>3. sess' \in [Xids -> Sessions]
    <3>1. sess' = [sess EXCEPT ![x] = [sess[x] EXCEPT !.tx = sess[x].tx + 1, !.st = 1,
            !.buf = None, !.logs = <<>>]]
      BY <1>7, SessionRecord
    <3> QED BY <1>0, <3>1 DEF Sessions
  <2>4. rowLock' \in [Pks -> Xids \cup {Nobody}]
    BY <1>7 DEF LocalCommit, UndoTypeOK, Unlocked
  <2> QED BY <1>7, <1>0, <2>1, <2>2, <2>3, <2>4 DEF LocalCommit, UndoTypeOK
<1>8. CASE LocalRollback(x)
  <2>1. sess' \in [Xids -> Sessions]
    <3>1. sess' = [sess EXCEPT ![x] = [sess[x] EXCEPT !.pc = "over",
            !.buf = None, !.logs = <<>>, !.before = None, !.after = None]]
      BY <1>8, SessionRecord
    <3> QED BY <1>0, <3>1 DEF Sessions
  <2>2. rowLock' \in [Pks -> Xids \cup {Nobody}]
    BY <1>8 DEF LocalRollback, UndoTypeOK, Unlocked
  <2> QED BY <1>8, <2>1, <2>2 DEF LocalRollback, UndoTypeOK
<1> QED
  BY <1>1, <1>2, <1>3, <1>4, <1>5, <1>6, <1>7, <1>8 DEF Statement

\* The check of an undo log goes on, passes the log over or refuses the Undo.
LEMMA ValidateRecord ==
  ASSUME NEW x, ValidateData(x)
  PROVE  LET snap == IF Reads(Log(x)) THEN Snapshot(x) ELSE undo[x].snap IN
         \/ /\ dataValidationAndGoOn(x, Log(x)) = "goOn"
            /\ undo' = [undo EXCEPT ![x].pc = "undo", ![x].snap = snap]
            /\ UNCHANGED <<rowLock, glock, wild, dirty>>
         \/ /\ dataValidationAndGoOn(x, Log(x)) = "stop"
            /\ undo' = [undo EXCEPT ![x].i = @ - 1, ![x].snap = snap]
            /\ UNCHANGED <<rowLock, glock, wild, dirty>>
         \/ dataValidationAndGoOn(x, Log(x)) = "dirty" /\ Refused(x)
<1>1. dataValidationAndGoOn(x, Log(x)) \in {"goOn", "stop", "dirty"}
  BY DEF dataValidationAndGoOn
<1> QED BY <1>1 DEF ValidateData

\* What is left of the record of an Undo that is not refused.
LEMMA ValidateFields ==
  ASSUME UndoTypeOK, NEW x \in Xids, ValidateData(x), ~Refused(x)
  PROVE  /\ UNCHANGED <<rowLock, glock, wild, dirty>>
         /\ \/ dataValidationAndGoOn(x, Log(x)) = "goOn" /\ undo'[x].pc = "undo" /\ undo'[x].i = undo[x].i
            \/ dataValidationAndGoOn(x, Log(x)) = "stop" /\ undo'[x].pc = "check" /\ undo'[x].i = undo[x].i - 1
         /\ undo'[x].buf = undo[x].buf /\ undo'[x].keys = undo[x].keys
         /\ undo'[x].snap = IF Reads(Log(x)) THEN Snapshot(x) ELSE undo[x].snap
<1> DEFINE snap == IF Reads(Log(x)) THEN Snapshot(x) ELSE undo[x].snap
<1>0. /\ undo \in [Xids -> [pc : {"idle", "check", "undo", "release"}, i : Nat, buf : Images, snap : Images, keys : SUBSET Pks]]
      /\ undo[x].pc = "check"
  BY DEF UndoTypeOK, ValidateData
<1>1. /\ UNCHANGED <<rowLock, glock, wild, dirty>>
      /\ \/ dataValidationAndGoOn(x, Log(x)) = "goOn" /\ undo' = [undo EXCEPT ![x].pc = "undo", ![x].snap = snap]
         \/ dataValidationAndGoOn(x, Log(x)) = "stop" /\ undo' = [undo EXCEPT ![x].i = @ - 1, ![x].snap = snap]
  BY ValidateRecord
<1> HIDE DEF snap
<1>2. /\ \/ dataValidationAndGoOn(x, Log(x)) = "goOn" /\ undo'[x].pc = "undo" /\ undo'[x].i = undo[x].i
         \/ dataValidationAndGoOn(x, Log(x)) = "stop" /\ undo'[x].pc = "check" /\ undo'[x].i = undo[x].i - 1
      /\ undo'[x].buf = undo[x].buf /\ undo'[x].keys = undo[x].keys /\ undo'[x].snap = snap
  BY <1>0, <1>1
<1> QED BY <1>1, <1>2 DEF snap

\* The steps of an Undo, and of the decision before it.
LEMMA UndoTypes ==
  ASSUME UndoTypeOK, Phases, NEW x \in Xids,
         GlobalCommit(x) \/ DeleteUndoLogByXID(x) \/ GlobalRollback(x) \/ Undo(x)
  PROVE  UndoTypeOK'
<1>0. /\ undo[x] \in [pc : {"idle", "check", "undo", "release"}, i : Nat, buf : Images, snap : Images, keys : SUBSET Pks]
      /\ None \in Images /\ NoUndo \in [pc : {"idle"}, i : {0}, buf : {None}, snap : {None}, keys : {{}}]
      /\ table \in Images /\ <<>> \in Seq(UndoItems)
  <2>1. table \in Images
    BY ImageShape DEF UndoTypeOK
  <2> QED BY <2>1, ImageShape DEF UndoTypeOK, NoUndo
<1>1. ExecutedKeys(x) \subseteq Pks
  <2>1. \A i \in undo[x].i + 1..Len(undoLog[x]) : undoLog[x][i] \in UndoItems
    BY <1>0 DEF UndoTypeOK
  <2> QED BY <2>1 DEF ExecutedKeys, UndoItems
<1>2. ASSUME RollBackUndo(x), UNCHANGED <<table, undoLog, sess, snapshot, writer, status, orig>> PROVE UndoTypeOK'
  BY <1>0, <1>1, <1>2 DEF RollBackUndo, Released, Unlocked, UndoTypeOK
<1>3. CASE GlobalCommit(x) \/ DeleteUndoLogByXID(x) \/ GlobalRollback(x)
  <2>1. CASE GlobalCommit(x)
    BY <2>1 DEF GlobalCommit, UndoTypeOK, Released
  <2>2. CASE DeleteUndoLogByXID(x)
    BY <2>2, <1>0 DEF DeleteUndoLogByXID, UndoTypeOK
  <2>3. CASE GlobalRollback(x)
    BY <2>3 DEF GlobalRollback, UndoTypeOK
  <2> QED BY <1>3, <2>1, <2>2, <2>3
<1>4. CASE UndoBegin(x)
  <2>1. Len(undoLog[x]) \in Nat
    BY DEF UndoTypeOK
  <2>2. undo' = [undo EXCEPT ![x] = [NoUndo EXCEPT !.pc = "check", !.i = Len(undoLog[x])]]
    BY <1>4 DEF UndoBegin
  <2>3. [NoUndo EXCEPT !.pc = "check", !.i = Len(undoLog[x])]
          \in [pc : {"check"}, i : Nat, buf : Images, snap : Images, keys : SUBSET Pks]
    BY <1>0, <2>1 DEF NoUndo
  <2> HIDE DEF NoUndo
  <2> QED BY <1>4, <2>2, <2>3 DEF UndoBegin, UndoTypeOK
<1>5. CASE ValidateData(x)
  <2>1. Snapshot(x) \in Images
    BY <1>0 DEF Snapshot
  <2>2. CASE undo' = [undo EXCEPT ![x].pc = "undo", ![x].snap = IF Reads(Log(x)) THEN Snapshot(x) ELSE undo[x].snap]
             /\ UNCHANGED <<rowLock, glock, wild, dirty>>
    BY <1>5, <1>0, <2>1, <2>2 DEF ValidateData, UndoTypeOK
  <2>3. CASE undo' = [undo EXCEPT ![x].i = @ - 1, ![x].snap = IF Reads(Log(x)) THEN Snapshot(x) ELSE undo[x].snap]
             /\ UNCHANGED <<rowLock, glock, wild, dirty>>
    <3>1. undo[x].i - 1 \in Nat
      BY <1>5, <1>0 DEF ValidateData
    <3> QED BY <1>5, <1>0, <2>1, <2>3, <3>1 DEF ValidateData, UndoTypeOK
  <2> QED BY <1>5, <1>2, <2>2, <2>3, ValidateRecord DEF ValidateData, Refused
<1>6. CASE UndoExecute(x)
  <2>1. CASE Refused(x)
    BY <1>6, <1>2, <2>1 DEF UndoExecute, Refused
  <2>2. CASE ~Refused(x)
    <3>1. undo[x].i \in DOMAIN undoLog[x] /\ undo[x].i - 1 \in Nat
      BY <1>6, <1>0 DEF UndoExecute, Phases, PhaseOf, UndoTypeOK
    <3>2. \A t : Over(BuildUndoSql(Log(x), t), undo[x].buf) \in Images
      BY <1>0, <3>1, LogIsItem, UndoSqlRows, OverRows
    <3>3. /\ undo' = [undo EXCEPT ![x].pc = "check", ![x].i = @ - 1,
                        ![x].buf = Over(BuildUndoSql(Log(x), Over(undo[x].buf, table)), @)]
          /\ rowLock' = Lock(x, DOMAIN UndoRows(Log(x)))
          /\ UNCHANGED <<glock, wild, dirty>>
      BY <1>6, <2>2 DEF UndoExecute
    <3> QED BY <1>6, <1>0, <3>1, <3>2, <3>3 DEF UndoExecute, UndoTypeOK, Lock
  <2> QED BY <2>1, <2>2
<1>7. CASE UndoFails(x)
  BY <1>7, <1>2 DEF UndoFails
<1>8. CASE UndoCommit(x)
  <2>1. Over(undo[x].buf, table) \in [Pks -> Nat]
    BY <1>0, OverTable DEF UndoTypeOK
  <2> QED BY <1>8, <1>0, <1>1, <2>1 DEF UndoCommit, UndoTypeOK, Unlocked
<1>9. CASE ReleaseLockKeys(x)
  BY <1>9, <1>0 DEF ReleaseLockKeys, UndoTypeOK, Released
<1> QED
  BY <1>3, <1>4, <1>5, <1>6, <1>7, <1>8, <1>9 DEF Undo

\* What the other clients do keeps the types.
LEMMA WriterTypes ==
  ASSUME UndoTypeOK, NEW w \in Writers, CheckGlobalLock(w) \/ Write(w)
  PROVE  UndoTypeOK'
<1>1. CASE CheckGlobalLock(w)
  BY <1>1 DEF CheckGlobalLock, UndoTypeOK
<1>2. CASE Write(w)
  <2>1. PICK t \in Results(writer[w].stmt, table) :
          table' = t /\ wild' = wild \cup Written(writer[w].stmt, table, t)
    BY <1>2 DEF Write
  <2>2. IsWrite(writer[w].stmt)
    BY ScriptsRun DEF UndoTypeOK
  <2>3. t \in [Pks -> Nat] /\ Written(writer[w].stmt, table, t) \subseteq Pks
    BY <2>1, <2>2, ResultsAreTables DEF UndoTypeOK
  <2> QED BY <1>2, <2>1, <2>3 DEF Write, UndoTypeOK
<1> QED BY <1>1, <1>2

---------------------------------------------------------------------------
(* What a step leaves alone.                                                 *)

\* The statements of one session do not touch another, nor any Undo.
LEMMA StatementFrame ==
  ASSUME UndoTypeOK, Phases, NEW x \in Xids, Statement(x)
  PROVE  /\ status[x] = "begin" /\ sess[x].pc # "over" /\ sess[x].tx \in DOMAIN sess[x].script
         /\ UNCHANGED <<writer, status, undo>>
         /\ sess'[x].script = sess[x].script
         /\ \A y \in Xids \ {x} : sess'[y] = sess[y] /\ undoLog'[y] = undoLog[y] /\ orig'[y] = orig[y]
<1>1. InTx(x) /\ UNCHANGED <<writer, status, undo>>
  BY DEF Statement, PreHandle, Execute, QueryAfterImage, RegisterBranch, InsertUndoLog, Select,
         LocalCommit, LocalRollback, At
<1>2. sess[x].tx \in DOMAIN sess[x].script
  <2>1. IsScript(sess[x].script) /\ sess[x].tx \in Nat \ {0} /\ sess[x].tx <= Len(sess[x].script)
    BY <1>1, ScriptsRun DEF UndoTypeOK, Sessions, InTx
  <2> QED BY <2>1 DEF IsScript
<1>3. \A y \in Xids \ {x} : undoLog'[y] = undoLog[y] /\ orig'[y] = orig[y]
  BY DEF Statement, PreHandle, Execute, QueryAfterImage, RegisterBranch, InsertUndoLog, Select,
         LocalCommit, LocalRollback, UndoTypeOK
<1>4. sess'[x].script = sess[x].script /\ \A y \in Xids \ {x} : sess'[y] = sess[y]
  <2>1. CASE Execute(x)
    BY <2>1, ExecuteRecord
  <2>2. CASE ~Execute(x)
    BY <2>2, PreHandleFields, QueryAfterImageFields, RegisterBranchFields, InsertUndoLogFields,
       SelectFields, LocalCommitFields, LocalRollbackFields DEF Statement
  <2> QED BY <2>1, <2>2
<1> QED BY <1>1, <1>2, <1>3, <1>4 DEF InTx, Running

\* Deciding and undoing a global transaction does not touch any session, nor
\* another Undo.
LEMMA UndoFrame ==
  ASSUME UndoTypeOK, Phases, NEW x \in Xids,
         GlobalCommit(x) \/ DeleteUndoLogByXID(x) \/ GlobalRollback(x) \/ Undo(x)
  PROVE  /\ UNCHANGED <<writer, sess, orig>>
         /\ \A y \in Xids \ {x} : undo'[y] = undo[y] /\ status'[y] = status[y] /\ undoLog'[y] = undoLog[y]
<1>1. CASE Undo(x)
  <2>2. CASE ValidateData(x)
    <3>1. UNCHANGED <<writer, sess, orig, status, undoLog>>
      BY <2>2 DEF ValidateData
    <3>2. \A y \in Xids \ {x} : undo'[y] = undo[y]
      <4>1. \/ \E snap : undo' = [undo EXCEPT ![x].pc = "undo", ![x].snap = snap]
            \/ \E snap : undo' = [undo EXCEPT ![x].i = @ - 1, ![x].snap = snap]
            \/ undo' = [undo EXCEPT ![x] = NoUndo]
        BY <2>2, ValidateRecord DEF Refused, RollBackUndo
      <4> QED BY <4>1 DEF UndoTypeOK
    <3> QED BY <3>1, <3>2
  <2>3. CASE UndoExecute(x)
    BY <2>3 DEF UndoExecute, Refused, RollBackUndo, UndoTypeOK
  <2> QED BY <1>1, <2>2, <2>3 DEF Undo, UndoBegin, UndoFails, UndoCommit, ReleaseLockKeys, RollBackUndo, UndoTypeOK
<1>2. CASE ~Undo(x)
  BY <1>2 DEF GlobalCommit, DeleteUndoLogByXID, GlobalRollback, UndoTypeOK
<1> QED BY <1>1, <1>2

\* Other clients touch neither.
LEMMA WriterFrame ==
  ASSUME NEW w \in Writers, CheckGlobalLock(w) \/ Write(w)
  PROVE  UNCHANGED <<rowLock, glock, undoLog, sess, status, undo, orig>> /\ wild \subseteq wild'
BY DEF CheckGlobalLock, Write

\* What was said of a session that is not touched is still true.
LEMMA SessionStays ==
  ASSUME NEW x, sess'[x] = sess[x]
  PROVE  /\ Tx(x)' = Tx(x) /\ Stmt(x)' = Stmt(x) /\ LockKeys(x)' = LockKeys(x)
         /\ Protected(x)' = Protected(x)
BY DEF Tx, Stmt, LockKeys, Protected

---------------------------------------------------------------------------
(* Phases.                                                                   *)

\* A session's steps keep its phase.
LEMMA SessionPhases ==
  ASSUME UndoTypeOK, Phases, NEW x \in Xids, Statement(x)
  PROVE  Phases'
<1>0. /\ sess \in [Xids -> Sessions] /\ PhaseOf(x) /\ status[x] = "begin" /\ UNCHANGED <<status, undo>>
      /\ sess[x].pc # "over" /\ sess[x].tx \in DOMAIN sess[x].script /\ undo[x].pc = "idle"
      /\ Running(x)
  BY StatementFrame DEF UndoTypeOK, Phases, PhaseOf, Running
<1>1. ASSUME NEW y \in Xids \ {x} PROVE PhaseOf(y)'
  <2>1. PhaseOf(y) /\ sess'[y] = sess[y] /\ undoLog'[y] = undoLog[y] /\ UNCHANGED <<status, undo>>
    BY StatementFrame DEF Phases
  <2> QED BY <2>1, SessionStays DEF PhaseOf, Running
<1>2. CASE PreHandle(x)
  <2>1. /\ sess'[x].pc = "execute" /\ sess'[x].script = sess[x].script /\ sess'[x].tx = sess[x].tx
        /\ sess'[x].st = sess[x].st /\ sess'[x].buf = sess[x].buf /\ sess'[x].logs = sess[x].logs
    BY <1>2, PreHandleFields
  <2>2. Tx(x)' = Tx(x) /\ Stmt(x)' = Stmt(x)
    BY <2>1 DEF Tx, Stmt
  <2>3. sess[x].st \in DOMAIN Tx(x).stmts /\ IsWrite(Stmt(x))
    BY <1>2, AtStatement DEF PreHandle
  <2>4. PhaseOf(x)'
    BY <1>0, <1>2, <2>1, <2>2, <2>3 DEF PhaseOf, Running, PreHandle
  <2> QED BY <1>1, <2>4 DEF Phases
<1>3. CASE Execute(x)
  <2>1. /\ sess'[x].pc = "image" /\ sess'[x].script = sess[x].script /\ sess'[x].tx = sess[x].tx
        /\ sess'[x].st = sess[x].st /\ sess'[x].logs = sess[x].logs
        /\ Tx(x).auto => sess'[x].buf = sess[x].buf
    BY <1>3, ExecuteRecord
  <2>2. Tx(x)' = Tx(x) /\ Stmt(x)' = Stmt(x)
    BY <2>1 DEF Tx, Stmt
  <2>3. PhaseOf(x)'
    BY <1>0, <1>3, <2>1, <2>2 DEF PhaseOf, Running, Execute, At, Stages
  <2> QED BY <1>1, <2>3 DEF Phases
<1>4. CASE QueryAfterImage(x) \/ RegisterBranch(x)
  <2>1. /\ sess'[x].pc \in {"register", "log"} /\ sess'[x].script = sess[x].script /\ sess'[x].tx = sess[x].tx
        /\ sess'[x].st = sess[x].st /\ sess'[x].logs = sess[x].logs /\ sess'[x].buf = sess[x].buf
    BY <1>4, QueryAfterImageFields, RegisterBranchFields
  <2>2. Tx(x)' = Tx(x) /\ Stmt(x)' = Stmt(x)
    BY <2>1 DEF Tx, Stmt
  <2>3. PhaseOf(x)'
    BY <1>0, <1>4, <2>1, <2>2 DEF PhaseOf, Running, QueryAfterImage, RegisterBranch, At, Stages
  <2> QED BY <1>1, <2>3 DEF Phases
<1>5. CASE InsertUndoLog(x) \/ Select(x)
  <2>1. /\ sess'[x].pc = "stmt" /\ sess'[x].script = sess[x].script /\ sess'[x].tx = sess[x].tx
        /\ sess'[x].st = sess[x].st + 1 /\ sess'[x].buf = sess[x].buf
        /\ Tx(x).auto => sess'[x].logs = sess[x].logs
    BY <1>5, InsertUndoLogFields, SelectFields DEF Select, At
  <2>2. Tx(x)' = Tx(x)
    BY <2>1 DEF Tx
  <2>3. sess[x].st + 1 # 1
    BY <1>0 DEF Sessions
  <2>4. PhaseOf(x)'
    BY <1>0, <2>1, <2>2, <2>3 DEF PhaseOf, Running, Stages
  <2> QED BY <1>1, <2>4 DEF Phases
<1>6. CASE LocalCommit(x) \/ LocalRollback(x)
  <2>1. sess'[x].pc \in {"stmt", "over"} /\ sess'[x].buf = None /\ sess'[x].logs = <<>>
    BY <1>6, LocalCommitFields, LocalRollbackFields DEF LocalCommit
  <2>2. PhaseOf(x)'
    BY <1>0, <2>1 DEF PhaseOf, Stages
  <2> QED BY <1>1, <2>2 DEF Phases
<1> QED BY <1>2, <1>3, <1>4, <1>5, <1>6 DEF Statement

\* Decisions and Undo keep the phases.
LEMMA UndoPhases ==
  ASSUME UndoTypeOK, Phases, NEW x \in Xids,
         GlobalCommit(x) \/ DeleteUndoLogByXID(x) \/ GlobalRollback(x) \/ Undo(x)
  PROVE  Phases'
<1>0. /\ UNCHANGED sess /\ PhaseOf(x) /\ sess[x] \in Sessions
      /\ undo \in [Xids -> [pc : {"idle", "check", "undo", "release"}, i : Nat, buf : Images, snap : Images, keys : SUBSET Pks]]
      /\ status \in [Xids -> {"begin", "committing", "committed", "rollbacking", "rollbacked"}]
      /\ Tx(x)' = Tx(x) /\ Stmt(x)' = Stmt(x)
  BY UndoFrame, SessionStays DEF UndoTypeOK, Phases
<1>1. ASSUME NEW y \in Xids \ {x} PROVE PhaseOf(y)'
  <2>1. PhaseOf(y) /\ UNCHANGED sess /\ undo'[y] = undo[y] /\ status'[y] = status[y] /\ undoLog'[y] = undoLog[y]
    BY UndoFrame DEF Phases
  <2> QED BY <2>1, SessionStays DEF PhaseOf, Running
<1>2. ASSUME undo'[x] = NoUndo, status'[x] = status[x] PROVE PhaseOf(x)'
  BY <1>0, <1>2 DEF PhaseOf, NoUndo, Running
<1>3. PhaseOf(x)'
  <2>1. CASE GlobalCommit(x)
    <3>1. /\ sess[x].tx \notin DOMAIN sess[x].script
          /\ status'[x] = "committing" /\ UNCHANGED <<undo, undoLog>> /\ status[x] = "begin"
      <4>1. IsScript(sess[x].script) /\ sess[x].tx \in Nat /\ sess[x].tx > Len(sess[x].script)
        BY <1>0, <2>1, ScriptsRun DEF GlobalCommit, Sessions
      <4> QED BY <4>1, <1>0, <2>1 DEF GlobalCommit, IsScript
    <3> QED BY <1>0, <3>1 DEF PhaseOf, Running
  <2>2. CASE DeleteUndoLogByXID(x)
    <3>1. /\ status[x] = "committing" /\ status'[x] = "committed" /\ UNCHANGED undo
      BY <1>0, <2>2 DEF DeleteUndoLogByXID
    <3> QED BY <1>0, <3>1 DEF PhaseOf, Running
  <2>3. CASE GlobalRollback(x)
    <3>1. /\ status[x] = "begin" /\ status'[x] = "rollbacking" /\ UNCHANGED <<undo, undoLog>>
      BY <1>0, <2>3 DEF GlobalRollback
    <3>2. /\ ~Running(x) \/ sess[x].tx \notin DOMAIN sess[x].script \/ (sess[x].pc = "stmt" /\ sess[x].st = 1)
          /\ sess[x].pc \notin Stages
      <4>1. IsScript(sess[x].script) /\ sess[x].tx \in Nat
        BY <1>0, ScriptsRun DEF Sessions
      <4>2. ~(sess[x].tx <= Len(sess[x].script)) => sess[x].tx \notin DOMAIN sess[x].script
        BY <4>1 DEF IsScript
      <4> QED BY <1>0, <2>3, <4>2 DEF GlobalRollback, BetweenTxs, InTx, Running, PhaseOf, Stages
    <3> QED BY <1>0, <3>1, <3>2 DEF PhaseOf, Running
  <2>4. CASE UndoBegin(x)
    <3>1. /\ undo'[x].pc = "check" /\ undo'[x].i = Len(undoLog[x]) /\ status[x] = "rollbacking"
          /\ UNCHANGED <<status, undoLog>>
      BY <1>0, <2>4 DEF UndoBegin, NoUndo
    <3>2. Len(undoLog[x]) \in Nat
      BY DEF UndoTypeOK
    <3> QED BY <1>0, <3>1, <3>2 DEF PhaseOf, Running
  <2>5. CASE ValidateData(x)
    <3>1. UNCHANGED <<status, undoLog>> /\ undo[x].pc = "check" /\ undo[x].i > 0
      BY <2>5 DEF ValidateData
    <3>2. CASE Refused(x)
      BY <1>0, <1>2, <3>1, <3>2 DEF Refused, RollBackUndo
    <3>3. CASE ~Refused(x)
      <4>1. /\ undo'[x].pc \in {"undo", "check"}
            /\ undo'[x].i = IF undo'[x].pc = "undo" THEN undo[x].i ELSE undo[x].i - 1
        BY <1>0, <2>5, <3>1, <3>3, ValidateRecord
      <4>2. Len(undoLog[x]) \in Nat /\ undo[x].i \in Nat
        BY <1>0 DEF UndoTypeOK
      <4> QED BY <1>0, <3>1, <4>1, <4>2 DEF PhaseOf, Running
    <3> QED BY <3>2, <3>3
  <2>6. CASE UndoExecute(x)
    <3>1. UNCHANGED <<status, undoLog>> /\ undo[x].pc = "undo"
      BY <2>6 DEF UndoExecute
    <3>2. CASE Refused(x)
      BY <1>0, <1>2, <3>1, <3>2 DEF Refused, RollBackUndo
    <3>3. CASE ~Refused(x)
      <4>1. undo'[x].pc = "check" /\ undo'[x].i = undo[x].i - 1
        BY <1>0, <2>6, <3>3 DEF UndoExecute
      <4>2. Len(undoLog[x]) \in Nat /\ undo[x].i \in Nat
        BY <1>0 DEF UndoTypeOK
      <4> QED BY <1>0, <3>1, <4>1, <4>2 DEF PhaseOf, Running
    <3> QED BY <3>2, <3>3
  <2>7. CASE UndoFails(x)
    BY <1>0, <1>2, <2>7 DEF UndoFails, RollBackUndo
  <2>8. CASE UndoCommit(x)
    <3>1. undo'[x].pc = "release" /\ undo'[x].buf = None /\ UNCHANGED status /\ undo[x].pc = "check"
      BY <1>0, <2>8 DEF UndoCommit, NoUndo
    <3> QED BY <1>0, <3>1 DEF PhaseOf, Running
  <2>9. CASE ReleaseLockKeys(x)
    <3>1. /\ status'[x] = "rollbacked" /\ status[x] = "rollbacking"
          /\ undo'[x].pc = "idle" /\ undo'[x].buf = None
      BY <1>0, <2>9 DEF ReleaseLockKeys, NoUndo, PhaseOf
    <3> QED BY <1>0, <3>1 DEF PhaseOf, Running
  <2> QED BY <2>1, <2>2, <2>3, <2>4, <2>5, <2>6, <2>7, <2>8, <2>9 DEF Undo
<1> QED BY <1>1, <1>3 DEF Phases

---------------------------------------------------------------------------
(* Row locks of the database.                                                *)

\* The row stays as it is, and locked by x.
Untouched(x, p) == rowLock'[p] = x /\ table'[p] = table[p]

\* No statement of another transaction or client changes a row x has locked.
LEMMA StatementsKeepLocked ==
  ASSUME UndoTypeOK, Phases, RowsLocked, NEW y \in Xids, Statement(y),
         NEW x \in Xids, x # y, NEW p \in Pks, rowLock[p] = x
  PROVE  Untouched(x, p)
<1>0. p \notin DOMAIN sess[y].buf /\ x # Nobody /\ table \in [Pks -> Nat] /\ View(y)[p] = table[p]
  BY ViewIsTable, NobodyRuns DEF RowsLocked, UndoTypeOK
<1>1. CASE PreHandle(y)
  BY <1>0, <1>1 DEF PreHandle, Lock, Lockable, Untouched
<1>2. CASE Execute(y)
  <2>1. PICK t \in Results(Stmt(y), View(y)) : LET S == Written(Stmt(y), View(y), t) IN
           /\ \A q \in Pks \ S : t[q] = View(y)[q]
           /\ Lockable(y, S)
           /\ rowLock' = IF Tx(y).auto THEN rowLock ELSE Lock(y, S)
           /\ table' = IF Tx(y).auto THEN t ELSE table
    BY <1>2, ExecuteRecord
  <2> DEFINE S == Written(Stmt(y), View(y), t)
  <2>2. p \notin S
    BY <1>0, <2>1 DEF Lockable
  <2> HIDE DEF S
  <2>3. t[p] = View(y)[p]
    BY <2>1, <2>2 DEF S
  <2>4. rowLock' = IF Tx(y).auto THEN rowLock ELSE Lock(y, S)
    BY <2>1 DEF S
  <2> QED BY <1>0, <2>1, <2>2, <2>3, <2>4 DEF Lock, Untouched
<1>3. CASE Select(y)
  BY <1>0, <1>3 DEF Select, Lock, Lockable, Untouched
<1>4. CASE LocalCommit(y)
  BY <1>0, <1>4 DEF LocalCommit, Unlocked, Untouched
<1>5. CASE LocalRollback(y)
  BY <1>0, <1>5 DEF LocalRollback, Unlocked, Untouched
<1> QED
  BY <1>1, <1>2, <1>3, <1>4, <1>5
  DEF Statement, QueryAfterImage, RegisterBranch, InsertUndoLog, Untouched

\* Neither does the Undo of another global transaction.
LEMMA UndosKeepLocked ==
  ASSUME UndoTypeOK, RowsLocked, NEW y \in Xids,
         GlobalCommit(y) \/ DeleteUndoLogByXID(y) \/ GlobalRollback(y) \/ Undo(y),
         NEW x \in Xids, x # y, NEW p \in Pks, rowLock[p] = x
  PROVE  Untouched(x, p)
<1>0. p \notin DOMAIN undo[y].buf /\ x # Nobody /\ table \in [Pks -> Nat]
  BY NobodyRuns DEF RowsLocked, UndoTypeOK
<1>1. ASSUME RollBackUndo(y), UNCHANGED table PROVE Untouched(x, p)
  BY <1>0, <1>1 DEF RollBackUndo, Unlocked, Untouched
<1>2. CASE ValidateData(y)
  BY <1>1, <1>2, ValidateRecord DEF ValidateData, Refused, Untouched
<1>3. CASE UndoExecute(y)
  BY <1>0, <1>1, <1>3 DEF UndoExecute, Refused, Lock, Lockable, Untouched
<1>4. CASE UndoFails(y)
  BY <1>1, <1>4 DEF UndoFails
<1>5. CASE UndoCommit(y)
  <2>1. Over(undo[y].buf, table)[p] = table[p]
    <3>1. undo[y].buf \in Images
      BY DEF UndoTypeOK
    <3> QED BY <1>0, <3>1, OverTable
  <2> QED BY <1>0, <1>5, <2>1 DEF UndoCommit, Unlocked, Untouched
<1> QED
  BY <1>2, <1>3, <1>4, <1>5
  DEF Undo, GlobalCommit, DeleteUndoLogByXID, GlobalRollback, UndoBegin, ReleaseLockKeys, Untouched

\* Nor do other clients.
LEMMA WritersKeepLocked ==
  ASSUME UndoTypeOK, NEW w \in Writers, CheckGlobalLock(w) \/ Write(w),
         NEW x \in Xids, NEW p \in Pks, rowLock[p] = x
  PROVE  Untouched(x, p)
<1>1. CASE CheckGlobalLock(w)
  BY <1>1 DEF CheckGlobalLock, Untouched
<1>2. CASE Write(w)
  <2>1. PICK t \in Results(writer[w].stmt, table) :
          Lockable(w, Written(writer[w].stmt, table, t)) /\ table' = t
    BY <1>2 DEF Write
  <2>2. IsWrite(writer[w].stmt)
    BY ScriptsRun DEF UndoTypeOK
  <2>3. \A q \in Pks \ Written(writer[w].stmt, table, t) : t[q] = table[q]
    <3>1. table \in [Pks -> Nat]
      BY DEF UndoTypeOK
    <3> QED BY <2>1, <2>2, <3>1, ResultsAreTables
  <2>4. p \notin Written(writer[w].stmt, table, t)
    BY <2>1, NobodyRuns DEF Lockable
  <2> QED BY <1>2, <2>1, <2>3, <2>4 DEF Write, Untouched
<1> QED BY <1>1, <1>2

\* A session locks what it writes until it commits or gives up.
LEMMA SessionKeepsLocked ==
  ASSUME UndoTypeOK, Phases, NEW x \in Xids, Statement(x), ~LocalCommit(x), ~LocalRollback(x),
         NEW p \in Pks, rowLock[p] = x
  PROVE  rowLock'[p] = x
BY DEF Statement, PreHandle, Execute, QueryAfterImage, RegisterBranch, InsertUndoLog, Select, Lock

\* What is not committed stays locked.
LEMMA RowsLockedNext ==
  ASSUME UndoTypeOK, Phases, RowsLocked, Next
  PROVE  RowsLocked'
<1>0. /\ \A x \in Xids : DOMAIN sess[x].buf \cup DOMAIN undo[x].buf \subseteq Pks
      /\ DOMAIN None = {}
  BY ImageShape DEF UndoTypeOK, Sessions
<1>1. ASSUME NEW x \in Xids, Statement(x) PROVE RowsLocked'
  <2>1. ASSUME NEW y \in Xids \ {x}, NEW p \in DOMAIN sess'[y].buf \cup DOMAIN undo'[y].buf PROVE rowLock'[p] = y
    BY <1>0, <1>1, <2>1, StatementFrame, StatementsKeepLocked DEF RowsLocked, Untouched
  <2>2. ASSUME NEW p \in DOMAIN sess'[x].buf \cup DOMAIN undo'[x].buf PROVE rowLock'[p] = x
    <3>1. undo[x].pc = "idle" /\ UNCHANGED undo /\ DOMAIN undo[x].buf = {}
      BY <1>0, <1>1, StatementFrame DEF Phases, PhaseOf
    <3>2. CASE LocalCommit(x) \/ LocalRollback(x)
      BY <1>0, <2>2, <3>1, <3>2, LocalCommitFields, LocalRollbackFields
    <3>3. CASE Execute(x)
      <4>1. PICK t \in Results(Stmt(x), View(x)) : LET S == Written(Stmt(x), View(x), t) IN
             /\ sess'[x].buf = IF Tx(x).auto THEN sess[x].buf ELSE Over(Restrict(t, S), sess[x].buf)
             /\ DOMAIN Over(Restrict(t, S), sess[x].buf) = S \cup DOMAIN sess[x].buf
             /\ rowLock' = IF Tx(x).auto THEN rowLock ELSE Lock(x, S)
             /\ S \subseteq Pks
        BY <3>3, ExecuteRecord
      <4> QED BY <1>0, <2>2, <3>1, <4>1 DEF RowsLocked, Lock
    <3>4. CASE ~Execute(x) /\ ~LocalCommit(x) /\ ~LocalRollback(x)
      <4>1. sess'[x].buf = sess[x].buf
        BY <1>1, <3>4, PreHandleFields, QueryAfterImageFields, RegisterBranchFields, InsertUndoLogFields,
           SelectFields DEF Statement
      <4> QED BY <1>0, <1>1, <2>2, <3>1, <3>4, <4>1, SessionKeepsLocked DEF RowsLocked
    <3> QED BY <3>2, <3>3, <3>4
  <2> QED BY <2>1, <2>2 DEF RowsLocked
<1>2. ASSUME NEW x \in Xids, GlobalCommit(x) \/ DeleteUndoLogByXID(x) \/ GlobalRollback(x) \/ Undo(x)
      PROVE RowsLocked'
  <2>1. ASSUME NEW y \in Xids \ {x}, NEW p \in DOMAIN sess'[y].buf \cup DOMAIN undo'[y].buf PROVE rowLock'[p] = y
    BY <1>0, <1>2, <2>1, UndoFrame, UndosKeepLocked DEF RowsLocked, Untouched
  <2>2. ASSUME NEW p \in DOMAIN sess'[x].buf \cup DOMAIN undo'[x].buf PROVE rowLock'[p] = x
    <3>0. UNCHANGED sess /\ DOMAIN undo = Xids /\ PhaseOf(x) /\ undo[x].pc \in {"idle", "check", "undo", "release"}
      BY <1>2, UndoFrame DEF UndoTypeOK, Phases
    <3>1. undo[x].pc # "idle" => DOMAIN sess[x].buf = {}
      BY <1>0, <3>0 DEF PhaseOf, Running
    <3>2. ASSUME RollBackUndo(x), undo[x].pc # "idle" PROVE FALSE
      BY <1>0, <2>2, <3>0, <3>1, <3>2 DEF RollBackUndo, NoUndo
    <3>3. CASE ValidateData(x)
      <4>1. undo[x].pc = "check" /\ DOMAIN undo'[x].buf = DOMAIN undo[x].buf /\ UNCHANGED rowLock
        BY <3>2, <3>3, ValidateFields DEF ValidateData, Refused
      <4> QED BY <2>2, <3>0, <4>1 DEF RowsLocked
    <3>4. CASE UndoExecute(x)
      <4>1. ~Refused(x) /\ undo[x].pc = "undo"
        BY <3>2, <3>4 DEF UndoExecute, Refused
      <4>2. undo'[x].buf = Over(BuildUndoSql(Log(x), Over(undo[x].buf, table)), undo[x].buf)
            /\ rowLock' = Lock(x, DOMAIN UndoRows(Log(x)))
        BY <3>4, <4>1 DEF UndoExecute, UndoTypeOK
      <4>3. undo[x].i \in DOMAIN undoLog[x]
        BY <3>0, <4>1 DEF PhaseOf, UndoTypeOK
      <4>4. DOMAIN undo'[x].buf = DOMAIN UndoRows(Log(x)) \cup DOMAIN undo[x].buf
        <5>1. Log(x) \in UndoItems /\ undo[x].buf \in Images
          BY <4>3, LogIsItem DEF UndoTypeOK
        <5> DEFINE f == BuildUndoSql(Log(x), Over(undo[x].buf, table))
        <5>2. f \in Images /\ DOMAIN f = DOMAIN UndoRows(Log(x))
          BY <5>1, UndoSqlRows
        <5> HIDE DEF f
        <5>3. DOMAIN Over(f, undo[x].buf) = DOMAIN f \cup DOMAIN undo[x].buf
          BY <5>1, <5>2, OverRows
        <5> QED BY <4>2, <5>2, <5>3 DEF f
      <4>5. DOMAIN UndoRows(Log(x)) \subseteq Pks
        <5>1. Log(x).before \in Images /\ Log(x).after \in Images
          BY <4>3, LogIsItem DEF UndoItems
        <5> QED BY <5>1, ImageShape DEF UndoRows
      <4> QED BY <1>0, <2>2, <3>0, <3>1, <4>1, <4>2, <4>4, <4>5 DEF RowsLocked, Lock
    <3>5. CASE UndoCommit(x)
      <4>1. undo'[x].buf = None /\ undo[x].pc = "check"
        BY <3>0, <3>5 DEF UndoCommit, NoUndo
      <4> QED BY <1>0, <2>2, <3>0, <3>1, <4>1
    <3>6. CASE UndoBegin(x) \/ ReleaseLockKeys(x)
      <4>1. undo'[x].buf = None /\ UNCHANGED rowLock
        <5>1. CASE UndoBegin(x)
          BY <3>0, <5>1 DEF UndoBegin, NoUndo
        <5>2. CASE ReleaseLockKeys(x)
          BY <3>0, <5>2 DEF ReleaseLockKeys, NoUndo
        <5> QED BY <3>6, <5>1, <5>2
      <4> QED BY <1>0, <2>2, <3>0, <4>1 DEF RowsLocked
    <3>7. CASE UndoFails(x)
      BY <3>2, <3>7 DEF UndoFails
    <3>8. CASE GlobalCommit(x) \/ DeleteUndoLogByXID(x) \/ GlobalRollback(x)
      BY <2>2, <3>0, <3>8 DEF GlobalCommit, DeleteUndoLogByXID, GlobalRollback, RowsLocked
    <3> QED BY <1>2, <3>3, <3>4, <3>5, <3>6, <3>7, <3>8 DEF Undo
  <2> QED BY <2>1, <2>2 DEF RowsLocked
<1>3. ASSUME NEW w \in Writers, CheckGlobalLock(w) \/ Write(w) PROVE RowsLocked'
  BY <1>3, WriterFrame DEF RowsLocked
<1> QED BY <1>1, <1>2, <1>3 DEF Next

---------------------------------------------------------------------------
(* The images of supported statements.                                       *)

\* A supported UPDATE or DELETE reads and writes the rows of its WHERE clause.
LEMMA SupportedRows ==
  ASSUME NEW s, IsWrite(s), Supported(s), s.op # "insert", NEW t \in [Pks -> Nat]
  PROVE  /\ RowsRead(s) = s.rows \cap Pks
         /\ Where(s.rows, s, t) = {p \in RowsRead(s) : t[p] \in s.vals}
         /\ NoRow \notin s.vals
         /\ DOMAIN ProcessBefore(s, t) = Where(s.rows, s, t)
         /\ \A p \in Where(s.rows, s, t) : ProcessBefore(s, t)[p] = t[p]
         /\ \A u \in Results(s, t) :
              /\ Written(s, t, u) = Where(s.rows, s, t)
              /\ s.op = "update" => \A p \in Pks : u[p] # t[p] => u[p] # NoRow
<1>1. s.binary => LastParameters(s) = s.rows
  BY DEF IsWrite, Supported, LastParameters
<1>2. RowsRead(s) = s.rows \cap Pks
  BY <1>1 DEF RowsRead
<1>3. Where(s.rows, s, t) = {p \in RowsRead(s) : t[p] \in s.vals} /\ NoRow \notin s.vals
  BY <1>2, RowNumbers DEF Where, IsWrite
<1>4. ProcessBefore(s, t) = Image(Where(s.rows, s, t), t)
  BY <1>1 DEF ProcessBefore, PrepareBeforeImage, QueryBeforeImage
<1>5. /\ DOMAIN ProcessBefore(s, t) = Where(s.rows, s, t)
      /\ \A p \in Where(s.rows, s, t) : ProcessBefore(s, t)[p] = t[p]
  <2>1. DOMAIN Image(Where(s.rows, s, t), t) = {p \in Where(s.rows, s, t) \cap Pks : t[p] # NoRow}
    BY ImageRows
  <2>2. \A p \in Where(s.rows, s, t) : p \in Pks /\ t[p] # NoRow
    BY <1>2, <1>3
  <2>3. DOMAIN Image(Where(s.rows, s, t), t) = Where(s.rows, s, t)
    BY <2>1, <2>2
  <2>4. \A p \in Where(s.rows, s, t) : Image(Where(s.rows, s, t), t)[p] = t[p]
    BY <2>3, ImageRows
  <2> QED BY <1>4, <2>3, <2>4
<1>6. ASSUME NEW u \in Results(s, t)
      PROVE  /\ Written(s, t, u) = Where(s.rows, s, t)
             /\ s.op = "update" => \A p \in Pks : u[p] # t[p] => u[p] # NoRow
  <2>1. \A S \in Taken(s, t) : S \subseteq Where(s.rows, s, t)
    BY DEF Taken
  <2>2. CASE s.op = "delete"
    <3>1. PICK S \in Taken(s, t) : u = [p \in Pks |-> IF p \in S THEN NoRow ELSE t[p]]
      BY <2>2 DEF Results
    <3> QED BY <2>1, <2>2, <3>1 DEF Written
  <2>3. CASE s.op = "update"
    <3>1. DOMAIN s.set = {"v"} /\ s.set["v"] # NoRow
      BY <2>3, RowNumbers DEF Supported, IsWrite
    <3>2. PICK S \in Taken(s, t) : u = [p \in Pks |-> IF p \in S THEN s.set["v"] ELSE t[p]]
      BY <2>3, <3>1 DEF Results
    <3> QED BY <2>1, <2>3, <3>1, <3>2 DEF Written
  <2> QED BY <2>2, <2>3 DEF IsWrite
<1> QED BY <1>2, <1>3, <1>5, <1>6

\* A supported INSERT writes rows that are not there, with the keys it names.
LEMMA SupportedInsert ==
  ASSUME NEW s, IsWrite(s), Supported(s), s.op = "insert", NEW t \in [Pks -> Nat], NEW u \in Results(s, t),
         NEW p \in Written(s, t, u)
  PROVE  p \in InsertedKeys(s) /\ u[p] # NoRow /\ t[p] = NoRow
<1>1. PICK k \in InsertedAt(s, t) : u = [q \in Pks |-> IF \E i \in DOMAIN k : k[i] = q
               THEN Field(s, s.lists[CHOOSE i \in DOMAIN k : k[i] = q], "v", 1) ELSE t[q]]
  BY DEF Results
<1>2. k \in [DOMAIN s.lists -> Pks] /\ p \in Pks /\ \E i \in DOMAIN k : k[i] = p
  BY <1>1 DEF InsertedAt, Written
<1> DEFINE j == CHOOSE i \in DOMAIN k : k[i] = p
<1>3. j \in DOMAIN s.lists /\ k[j] = p
  BY <1>2
<1>4. u[p] = Field(s, s.lists[j], "v", 1)
  BY <1>1, <1>2
<1> HIDE DEF j
<1>5. p = Field(s, s.lists[j], "id", p) /\ t[p] = NoRow
  BY <1>1, <1>2, <1>3 DEF InsertedAt, Supported
<1>6. Field(s, s.lists[j], "id", p) = Field(s, s.lists[j], "id", NoRow)
  <2>1. "id" \in Range(IF s.cols = <<>> THEN Columns ELSE s.cols)
    <3>1. "id" \in Range(Columns)
      BY InsertShape DEF Range
    <3> QED BY <3>1 DEF Supported
  <2> QED BY <2>1 DEF Field
<1>7. u[p] # NoRow
  BY <1>3, <1>4, FieldsAreRows DEF NoRow
<1> QED BY <1>3, <1>5, <1>6, <1>7 DEF InsertedKeys

\* The rows a statement has read stay as they were, until it has its images.
LEMMA BeforeHoldsNext ==
  ASSUME UndoTypeOK, Phases, RowsLocked, BeforeHolds, Next, UndoTypeOK'
  PROVE  BeforeHolds'
<1> DEFINE Open(x) == /\ sess[x].pc \in {"execute", "image"} /\ Stmt(x).op # "insert"
                      /\ ~Tx(x).auto /\ Supported(Stmt(x))
           Holds(x) == /\ \A p \in RowsRead(Stmt(x)) : rowLock[p] = x
                       /\ DOMAIN sess[x].before \subseteq RowsRead(Stmt(x))
                       /\ sess[x].pc = "execute" => /\ DOMAIN sess[x].before = Where(Stmt(x).rows, Stmt(x), View(x))
                                                    /\ \A p \in DOMAIN sess[x].before : sess[x].before[p] = View(x)[p]
                       /\ Stmt(x).op = "update" => \A p \in DOMAIN sess[x].before : View(x)[p] # NoRow
<1>0. \A x \in Xids : RowsRead(Stmt(x)) \subseteq Pks
  BY DEF RowsRead
<1>1. ASSUME NEW x \in Xids, sess'[x] = sess[x],
             \A p \in Pks : rowLock[p] = x => Untouched(x, p),
             Open(x)'
      PROVE  Holds(x)'
  <2>1. Open(x) /\ Tx(x)' = Tx(x) /\ Stmt(x)' = Stmt(x)
    BY <1>1, SessionStays
  <2>2. Holds(x) /\ IsWrite(Stmt(x))
    BY <2>1 DEF BeforeHolds, Phases, PhaseOf, Stages
  <2>3. \A p \in RowsRead(Stmt(x)) : rowLock'[p] = x /\ View(x)'[p] = View(x)[p]
    <3> SUFFICES ASSUME NEW p \in RowsRead(Stmt(x)) PROVE rowLock'[p] = x /\ View(x)'[p] = View(x)[p]
      OBVIOUS
    <3>1. p \in Pks /\ rowLock'[p] = x /\ table'[p] = table[p]
      BY <1>0, <1>1, <2>2 DEF Untouched
    <3>2. /\ \A q \in DOMAIN sess[x].buf : View(x)'[q] = sess'[x].buf[q]
          /\ \A q \in Pks \ DOMAIN sess[x].buf : View(x)'[q] = table'[q]
      <4>1. sess'[x].buf \in Images /\ table' \in [Pks -> Nat]
        BY DEF UndoTypeOK, Sessions
      <4> QED BY <1>1, <4>1, OverTable DEF View
    <3> QED BY <1>1, <3>1, <3>2, ViewIsTable
  <2>4. RowsRead(Stmt(x))' = RowsRead(Stmt(x))
    BY <2>1 DEF RowsRead, LastParameters
  <2>5. Where(Stmt(x).rows, Stmt(x), View(x))' = Where(Stmt(x).rows, Stmt(x), View(x))
    <3>1. /\ View(x) \in [Pks -> Nat] /\ View(x)' \in [Pks -> Nat]
      BY ViewIsTable, OverTable DEF UndoTypeOK, Sessions, View
    <3>2. /\ Where(Stmt(x).rows, Stmt(x), View(x)) = {p \in RowsRead(Stmt(x)) : View(x)[p] \in Stmt(x).vals}
          /\ Where(Stmt(x).rows, Stmt(x), View(x)') = {p \in RowsRead(Stmt(x)) : View(x)'[p] \in Stmt(x).vals}
      BY <2>1, <2>2, <3>1, SupportedRows
    <3> QED BY <2>1, <2>3, <3>2 DEF Where
  <2> QED BY <1>1, <2>1, <2>2, <2>3, <2>4, <2>5
<1>2. ASSUME NEW x \in Xids, Statement(x), Open(x)' PROVE Holds(x)'
  <2>1. CASE PreHandle(x)
    <3>1. /\ sess'[x].pc = "execute" /\ sess'[x].script = sess[x].script /\ sess'[x].tx = sess[x].tx
          /\ sess'[x].st = sess[x].st /\ sess'[x].buf = sess[x].buf /\ UNCHANGED table
          /\ sess'[x].before = (IF Stmt(x).op = "insert" THEN None ELSE ProcessBefore(Stmt(x), View(x)))
      BY <2>1, PreHandleFields DEF PreHandle
    <3>2. Tx(x)' = Tx(x) /\ Stmt(x)' = Stmt(x) /\ View(x)' = View(x) /\ RowsRead(Stmt(x))' = RowsRead(Stmt(x))
      BY <3>1 DEF Tx, Stmt, View, RowsRead, LastParameters
    <3>3. ~Tx(x).auto /\ Supported(Stmt(x)) /\ Stmt(x).op # "insert" /\ IsWrite(Stmt(x))
      BY <1>2, <2>1, <3>2, AtStatement DEF PreHandle
    <3>4. /\ DOMAIN sess'[x].before = Where(Stmt(x).rows, Stmt(x), View(x))
          /\ \A p \in DOMAIN sess'[x].before : sess'[x].before[p] = View(x)[p]
      BY <3>1, <3>3, ViewIsTable, SupportedRows
    <3>5. /\ Where(Stmt(x).rows, Stmt(x), View(x)) = {p \in RowsRead(Stmt(x)) : View(x)[p] \in Stmt(x).vals}
          /\ NoRow \notin Stmt(x).vals
      BY <3>3, ViewIsTable, SupportedRows
    <3>6. Where(Stmt(x).rows, Stmt(x), View(x))' = Where(Stmt(x).rows, Stmt(x), View(x))
      BY <3>2 DEF Where
    <3>7. \A p \in RowsRead(Stmt(x)) : rowLock'[p] = x
      BY <1>0, <2>1, <3>3 DEF PreHandle, Lock
    <3> QED BY <3>2, <3>4, <3>5, <3>6, <3>7
  <2>2. CASE Execute(x)
    <3>1. PICK t \in Results(Stmt(x), View(x)) : LET S == Written(Stmt(x), View(x), t) IN
             /\ \A p \in Pks \ S : t[p] = View(x)[p]
             /\ sess'[x].pc = "image" /\ sess'[x].script = sess[x].script /\ sess'[x].tx = sess[x].tx
             /\ sess'[x].st = sess[x].st /\ sess'[x].before = sess[x].before
             /\ sess'[x].buf = IF Tx(x).auto THEN sess[x].buf ELSE Over(Restrict(t, S), sess[x].buf)
             /\ rowLock' = IF Tx(x).auto THEN rowLock ELSE Lock(x, S)
             /\ table' = IF Tx(x).auto THEN t ELSE table
             /\ Over(Restrict(t, S), sess[x].buf) \in Images
             /\ DOMAIN Over(Restrict(t, S), sess[x].buf) = S \cup DOMAIN sess[x].buf
             /\ \A p \in S : Over(Restrict(t, S), sess[x].buf)[p] = t[p]
             /\ \A p \in DOMAIN sess[x].buf \ S : Over(Restrict(t, S), sess[x].buf)[p] = sess[x].buf[p]
      BY <2>2, ExecuteRecord
    <3>2. Tx(x)' = Tx(x) /\ Stmt(x)' = Stmt(x) /\ RowsRead(Stmt(x))' = RowsRead(Stmt(x))
      BY <3>1 DEF Tx, Stmt, RowsRead, LastParameters
    <3>3. Open(x) /\ IsWrite(Stmt(x)) /\ sess[x].pc = "execute"
      BY <1>2, <2>2, <3>2 DEF Execute, At, Phases, PhaseOf, Stages
    <3>4. Holds(x)
      BY <3>3 DEF BeforeHolds
    <3>5. \A p \in RowsRead(Stmt(x)) : rowLock'[p] = x
      BY <1>0, <3>1, <3>3, <3>4 DEF Lock
    <3>6. \A p \in Pks : View(x)'[p] = t[p]
      <4> DEFINE S == Written(Stmt(x), View(x), t)
                 b == Over(Restrict(t, S), sess[x].buf)
      <4>1. View(x)' = Over(b, table)
        BY <3>1, <3>3 DEF View
      <4>2. /\ b \in Images /\ DOMAIN b = S \cup DOMAIN sess[x].buf
            /\ \A q \in S : b[q] = t[q]
            /\ \A q \in DOMAIN sess[x].buf \ S : b[q] = sess[x].buf[q]
            /\ \A p \in Pks \ S : t[p] = View(x)[p]
        BY <3>1
      <4> HIDE DEF b, S
      <4>3. /\ \A p \in DOMAIN b : Over(b, table)[p] = b[p]
            /\ \A p \in Pks \ DOMAIN b : Over(b, table)[p] = table[p]
        BY <4>2, OverTable DEF UndoTypeOK
      <4> QED BY <4>1, <4>2, <4>3, ViewIsTable
    <3>7. Stmt(x).op = "update" => \A p \in DOMAIN sess[x].before : t[p] # NoRow
      <4>1. Stmt(x).op = "update" => \A p \in Pks : t[p] # View(x)[p] => t[p] # NoRow
        BY <3>3, ViewIsTable, SupportedRows
      <4> QED BY <1>0, <3>4, <4>1
    <3> QED BY <1>0, <3>1, <3>2, <3>4, <3>5, <3>6, <3>7
  <2>3. CASE ~PreHandle(x) /\ ~Execute(x)
    <3>1. sess'[x].pc \notin {"execute", "image"}
      BY <1>2, <2>3, QueryAfterImageFields, RegisterBranchFields, InsertUndoLogFields,
         SelectFields, LocalCommitFields, LocalRollbackFields
      DEF Statement, Select, LocalCommit, At
    <3> QED BY <1>2, <3>1
  <2> QED BY <2>1, <2>2, <2>3
<1>3. ASSUME NEW y \in Xids, Statement(y), NEW x \in Xids, Open(x)' PROVE Holds(x)'
  <2>1. CASE x = y
    BY <1>2, <1>3, <2>1
  <2>2. CASE x # y
    BY <1>1, <1>3, <2>2, StatementFrame, StatementsKeepLocked
  <2> QED BY <2>1, <2>2
<1>4. ASSUME NEW y \in Xids, GlobalCommit(y) \/ DeleteUndoLogByXID(y) \/ GlobalRollback(y) \/ Undo(y),
             NEW x \in Xids, Open(x)'
      PROVE  Holds(x)'
  <2>0. UNCHANGED sess
    BY <1>4, UndoFrame
  <2>1. CASE x = y
    <3>1. status[x] = "begin"
      BY <1>4, <2>0 DEF Phases, PhaseOf, Stages
    <3>2. UNCHANGED <<table, rowLock>>
      BY <1>4, <2>1, <3>1 DEF GlobalCommit, DeleteUndoLogByXID, GlobalRollback, Undo, UndoBegin, ValidateData,
         UndoExecute, UndoFails, UndoCommit, ReleaseLockKeys, Phases, PhaseOf
    <3> QED BY <1>1, <1>4, <2>0, <3>2 DEF Untouched
  <2>2. CASE x # y
    BY <1>1, <1>4, <2>0, <2>2, UndosKeepLocked
  <2> QED BY <2>1, <2>2
<1>5. ASSUME NEW w \in Writers, CheckGlobalLock(w) \/ Write(w), NEW x \in Xids, Open(x)' PROVE Holds(x)'
  BY <1>1, <1>5, WriterFrame, WritersKeepLocked
<1>6. \A x \in Xids : Open(x)' => Holds(x)'
  BY <1>3, <1>4, <1>5 DEF Next
<1> QED BY <1>6 DEF BeforeHolds

---------------------------------------------------------------------------
(* Lock keys.                                                                *)

\* Nobody releases a lock key of a transaction that is not decided, unless its
\* row loses the protection.
LEMMA KeptStays ==
  ASSUME UndoTypeOK, Phases, KeysHeld, Next, NEW x \in Xids, Undecided(x)'
  PROVE  Undecided(x) /\ Kept(x) \subseteq Kept(x)'
<1>0. /\ status \in [Xids -> {"begin", "committing", "committed", "rollbacking", "rollbacked"}]
      /\ glock \in [Pks -> Xids \cup {Nobody}] /\ x # Nobody
  BY NobodyRuns DEF UndoTypeOK
<1>1. ASSUME NEW y \in Xids, Statement(y) PROVE Undecided(x) /\ Kept(x) \subseteq Kept(x)'
  <2>1. UNCHANGED status
    BY <1>1, StatementFrame
  <2>2. wild \subseteq wild'
    BY <1>1 DEF Statement, PreHandle, Execute, QueryAfterImage, RegisterBranch, InsertUndoLog, Select,
                LocalCommit, LocalRollback
  <2>3. \A p \in HeldBy(x) : glock'[p] = x
    <3>1. CASE RegisterBranch(y)
      BY <1>0, <3>1 DEF RegisterBranch, Registers, HeldBy
    <3>2. CASE ~RegisterBranch(y)
      BY <1>1, <3>2 DEF Statement, PreHandle, Execute, QueryAfterImage, InsertUndoLog, Select,
                LocalCommit, LocalRollback, HeldBy
    <3> QED BY <3>1, <3>2
  <2> QED BY <2>1, <2>2, <2>3 DEF Undecided, Kept, HeldBy
<1>2. ASSUME NEW y \in Xids, GlobalCommit(y) \/ DeleteUndoLogByXID(y) \/ GlobalRollback(y) \/ Undo(y)
      PROVE  Undecided(x) /\ Kept(x) \subseteq Kept(x)'
  <2>1. ASSUME RollBackUndo(y), UNCHANGED status PROVE Undecided(x) /\ Kept(x) \subseteq Kept(x)'
    BY <1>0, <2>1 DEF RollBackUndo, Released, Undecided, Kept, HeldBy
  <2>2. CASE GlobalCommit(y)
    <3>1. x # y /\ Undecided(x)
      BY <1>0, <2>2 DEF GlobalCommit, Undecided
    <3> QED BY <1>0, <2>2, <3>1 DEF GlobalCommit, Released, Kept, HeldBy
  <2>3. CASE DeleteUndoLogByXID(y) \/ GlobalRollback(y) \/ UndoBegin(y) \/ UndoCommit(y)
    BY <1>0, <2>3 DEF DeleteUndoLogByXID, GlobalRollback, UndoBegin, UndoCommit, Undecided, Kept, HeldBy
  <2>4. CASE ValidateData(y)
    <3>1. CASE Refused(y)
      BY <2>1, <2>4, <3>1 DEF ValidateData, Refused
    <3>2. CASE ~Refused(y)
      BY <2>4, <3>2, ValidateFields DEF ValidateData, Undecided, Kept, HeldBy
    <3> QED BY <3>1, <3>2
  <2>5. CASE UndoExecute(y)
    <3>1. CASE Refused(y)
      BY <2>1, <2>5, <3>1 DEF UndoExecute, Refused
    <3>2. CASE ~Refused(y)
      BY <2>5, <3>2 DEF UndoExecute, Undecided, Kept, HeldBy
    <3> QED BY <3>1, <3>2
  <2>6. CASE UndoFails(y)
    BY <2>1, <2>6 DEF UndoFails
  <2>7. CASE ReleaseLockKeys(y)
    <3>1. x # y /\ Undecided(x)
      BY <1>0, <2>7 DEF ReleaseLockKeys, Undecided
    <3>2. Undecided(y)
      BY <2>7 DEF ReleaseLockKeys, Phases, PhaseOf, Undecided
    <3>3. undo[y].keys \subseteq Kept(y)
      BY <3>2 DEF KeysHeld
    <3> QED BY <1>0, <2>7, <3>1, <3>3 DEF ReleaseLockKeys, Released, Kept, HeldBy
  <2> QED BY <1>2, <2>2, <2>3, <2>4, <2>5, <2>6, <2>7 DEF Undo
<1>3. ASSUME NEW w \in Writers, CheckGlobalLock(w) \/ Write(w)
      PROVE  Undecided(x) /\ Kept(x) \subseteq Kept(x)'
  BY <1>3, WriterFrame DEF Undecided, Kept, HeldBy
<1> QED BY <1>1, <1>2, <1>3 DEF Next

\* The lock keys in the undo logs stay held.
LEMMA KeysHeldNext ==
  ASSUME UndoTypeOK, Phases, KeysHeld, Next
  PROVE  KeysHeld'
<1> DEFINE Held(x) == /\ \A i \in DOMAIN undoLog[x] : undoLog[x][i].keys \subseteq Kept(x)
                      /\ \A i \in DOMAIN sess[x].logs : sess[x].logs[i].keys \subseteq Kept(x)
                      /\ sess[x].pc = "log" => LockKeys(x) \subseteq Kept(x)
                      /\ undo[x].keys \subseteq Kept(x)
<1>1. ASSUME NEW x \in Xids, Undecided(x)', sess'[x] = sess[x], undoLog'[x] = undoLog[x], undo'[x].keys \subseteq undo[x].keys
      PROVE  Held(x)'
  <2>1. Held(x) /\ Kept(x) \subseteq Kept(x)' /\ LockKeys(x)' = LockKeys(x)
    BY <1>1, KeptStays, SessionStays DEF KeysHeld
  <2> QED BY <1>1, <2>1
<1>2. ASSUME NEW x \in Xids, Undecided(x)', Statement(x) PROVE Held(x)'
  <2>0. /\ Held(x) /\ Kept(x) \subseteq Kept(x)' /\ UNCHANGED undo
        /\ undoLog[x] \in Seq(UndoItems) /\ sess[x].logs \in Seq(UndoItems)
    BY <1>2, KeptStays, StatementFrame DEF KeysHeld, UndoTypeOK, Sessions
  <2>1. CASE PreHandle(x) \/ Execute(x) \/ QueryAfterImage(x) \/ Select(x) \/ LocalRollback(x)
    <3>1. /\ sess'[x].logs = sess[x].logs \/ sess'[x].logs = <<>>
          /\ sess'[x].pc # "log"
      BY <2>1, PreHandleFields, ExecuteRecord, QueryAfterImageFields, SelectFields, LocalRollbackFields
      DEF Select, At
    <3>2. UNCHANGED undoLog
      BY <2>1 DEF PreHandle, Execute, QueryAfterImage, Select, LocalRollback
    <3> QED BY <2>0, <3>1, <3>2
  <2>2. CASE RegisterBranch(x)
    <3>1. sess'[x].logs = sess[x].logs /\ UNCHANGED undoLog
      BY <2>2, RegisterBranchFields DEF RegisterBranch
    <3>2. LockKeys(x)' = LockKeys(x)
      BY <2>2, RegisterBranchFields DEF LockKeys, Stmt, Tx
    <3>3. LockKeys(x) \subseteq Pks
      BY <2>2, ImagesAreImages DEF RegisterBranch, At, Stages
    <3>4. LockKeys(x) \subseteq Kept(x)'
      BY <2>2, <3>3 DEF RegisterBranch, Kept, HeldBy
    <3> QED BY <2>0, <3>1, <3>2, <3>4
  <2>3. CASE InsertUndoLog(x)
    <3>1. /\ sess'[x].logs = IF Tx(x).auto THEN sess[x].logs ELSE Append(sess[x].logs, BuildUndoItem(x))
          /\ sess'[x].pc = "stmt"
      BY <2>3, InsertUndoLogFields
    <3>2. undoLog'[x] = IF Tx(x).auto THEN Append(undoLog[x], BuildUndoItem(x)) ELSE undoLog[x]
      BY <2>3 DEF InsertUndoLog, UndoTypeOK
    <3>3. BuildUndoItem(x).keys \subseteq Kept(x)
      BY <2>0, <2>3 DEF InsertUndoLog, At, BuildUndoItem
    <3>4. ASSUME NEW s \in Seq(UndoItems), \A i \in DOMAIN s : s[i].keys \subseteq Kept(x)
          PROVE  \A i \in DOMAIN Append(s, BuildUndoItem(x)) : Append(s, BuildUndoItem(x))[i].keys \subseteq Kept(x)
      BY <3>3, <3>4
    <3> QED BY <2>0, <3>1, <3>2, <3>4
  <2>4. CASE LocalCommit(x)
    <3>1. /\ sess'[x].logs = <<>> /\ sess'[x].pc = "stmt"
          /\ undoLog'[x] = undoLog[x] \o sess[x].logs
      BY <2>4, LocalCommitFields DEF LocalCommit, UndoTypeOK
    <3> DEFINE n == Len(undoLog[x])
               s == undoLog[x] \o sess[x].logs
    <3>2. /\ s \in Seq(UndoItems) /\ Len(s) = n + Len(sess[x].logs)
          /\ \A i \in 1..Len(s) : s[i] = IF i <= n THEN undoLog[x][i] ELSE sess[x].logs[i - n]
      BY <2>0, ConcatProperties
    <3>3. undoLog'[x] = s
      BY <3>1
    <3> HIDE DEF s
    <3>4. ASSUME NEW i \in DOMAIN s PROVE s[i].keys \subseteq Kept(x)
      <4>1. i \in 1..Len(s) /\ n \in Nat /\ DOMAIN undoLog[x] = 1..n /\ DOMAIN sess[x].logs = 1..Len(sess[x].logs)
        <5>1. DOMAIN s = 1..Len(s)
          BY <3>2
        <5>2. n \in Nat /\ DOMAIN undoLog[x] = 1..n /\ DOMAIN sess[x].logs = 1..Len(sess[x].logs)
          BY <2>0
        <5> QED BY <3>4, <5>1, <5>2
      <4> HIDE DEF n
      <4>2. CASE i <= n
        <5>1. i \in DOMAIN undoLog[x] /\ s[i] = undoLog[x][i]
          BY <3>2, <4>1, <4>2
        <5> QED BY <2>0, <5>1
      <4>3. CASE ~(i <= n)
        <5>1. i - n \in DOMAIN sess[x].logs /\ s[i] = sess[x].logs[i - n]
          <6>1. Len(sess[x].logs) \in Nat
            BY <2>0
          <6> QED BY <3>2, <4>1, <4>3, <6>1
        <5> QED BY <2>0, <5>1
      <4> QED BY <4>2, <4>3
    <3> QED BY <2>0, <3>1, <3>3, <3>4
  <2> QED BY <1>2, <2>1, <2>2, <2>3, <2>4 DEF Statement
<1>3. ASSUME NEW x \in Xids, Undecided(x)',
             GlobalCommit(x) \/ DeleteUndoLogByXID(x) \/ GlobalRollback(x) \/ Undo(x)
      PROVE  Held(x)'
  <2>0. /\ Held(x) /\ Kept(x) \subseteq Kept(x)' /\ UNCHANGED sess /\ LockKeys(x)' = LockKeys(x)
        /\ DOMAIN undo = Xids /\ DOMAIN status = Xids
    BY <1>3, KeptStays, UndoFrame, SessionStays DEF KeysHeld, UndoTypeOK
  <2>1. CASE UndoCommit(x)
    <3>1. undoLog'[x] = <<>> /\ undo'[x].keys = ExecutedKeys(x)
      BY <2>0, <2>1 DEF UndoCommit, NoUndo, UndoTypeOK
    <3>2. ExecutedKeys(x) \subseteq Kept(x)
      <4>1. undo[x].i = 0 /\ undoLog[x] \in Seq(UndoItems)
        BY <2>1 DEF UndoCommit, UndoTypeOK
      <4> QED BY <2>0, <4>1 DEF ExecutedKeys
    <3> QED BY <2>0, <3>1, <3>2
  <2>2. CASE ~UndoCommit(x)
    <3>1. undoLog'[x] = undoLog[x]
      BY <1>3, <2>0, <2>2 DEF GlobalCommit, DeleteUndoLogByXID, GlobalRollback, Undo, UndoBegin, ValidateData,
         UndoExecute, UndoFails, ReleaseLockKeys, Undecided
    <3>2. undo'[x].keys \subseteq undo[x].keys
      <4>1. ASSUME undo' = [undo EXCEPT ![x] = NoUndo] PROVE undo'[x].keys \subseteq undo[x].keys
        BY <2>0, <4>1 DEF NoUndo
      <4>2. CASE ValidateData(x)
        BY <4>1, <4>2, ValidateFields DEF Refused, RollBackUndo
      <4>3. CASE UndoExecute(x)
        <5>1. CASE Refused(x)
          BY <4>1, <5>1 DEF Refused, RollBackUndo
        <5>2. CASE ~Refused(x)
          <6>1. undo' = [undo EXCEPT ![x].pc = "check", ![x].i = @ - 1,
                           ![x].buf = Over(BuildUndoSql(Log(x), Over(undo[x].buf, table)), @)]
            BY <4>3, <5>2 DEF UndoExecute
          <6> QED BY <6>1 DEF UndoTypeOK
        <5> QED BY <5>1, <5>2
      <4>4. CASE UndoBegin(x)
        BY <2>0, <4>4 DEF UndoBegin, NoUndo
      <4> QED BY <1>3, <2>2, <4>1, <4>2, <4>3, <4>4
          DEF Undo, UndoFails, ReleaseLockKeys, RollBackUndo, GlobalCommit, DeleteUndoLogByXID, GlobalRollback
    <3> QED BY <1>1, <1>3, <2>0, <3>1, <3>2
  <2> QED BY <2>1, <2>2
<1>4. ASSUME NEW x \in Xids, Undecided(x)' PROVE Held(x)'
  <2>1. ASSUME NEW y \in Xids, Statement(y) PROVE Held(x)'
    BY <1>1, <1>2, <1>4, <2>1, StatementFrame
  <2>2. ASSUME NEW y \in Xids, GlobalCommit(y) \/ DeleteUndoLogByXID(y) \/ GlobalRollback(y) \/ Undo(y) PROVE Held(x)'
    <3>1. CASE x = y
      BY <1>3, <1>4, <2>2, <3>1
    <3>2. CASE x # y
      BY <1>1, <1>4, <2>2, <3>2, UndoFrame
    <3> QED BY <3>1, <3>2
  <2>3. ASSUME NEW w \in Writers, CheckGlobalLock(w) \/ Write(w) PROVE Held(x)'
    BY <1>1, <1>4, <2>3, WriterFrame
  <2> QED BY <2>1, <2>2, <2>3 DEF Next
<1> QED BY <1>4 DEF KeysHeld

\* Counting parameters by the columns of a row.
LEMMA ModSum ==
  ASSUME NEW n \in Nat \ {0}, NEW q \in Nat, NEW r \in 0..n - 1
  PROVE  (q * n + r) % n = r /\ (q * n + r) \div n = q
<1>1. (q * n + r) % n = r
  OBVIOUS
<1>2. (q * n + r) \div n = q
  OBVIOUS
<1> QED BY <1>1, <1>2

\* Multiplication is monotone.
LEMMA TimesMonotone ==
  ASSUME NEW n \in Nat, NEW a \in Nat, NEW b \in Nat, a <= b
  PROVE  a * n \in Nat /\ b * n \in Nat /\ a * n <= b * n
<1>1. (b - a) * n >= 0
  OBVIOUS
<1> QED BY <1>1

\* The number of the parameter for column p, counted from 0, of row i.
LEMMA ParameterNumber ==
  ASSUME NEW n \in Nat \ {0}, NEW len \in Nat, NEW i \in 1..len, NEW p \in 0..n - 1, p + 1 < n
  PROVE  LET j == (i - 1) * n + (p + 1)
         IN j \in 1..len * n /\ j % n = p + 1 /\ (j - 1) % n = p /\ (j - 1) \div n = i - 1
<1> DEFINE q == i - 1
           a == q * n
<1>1. q \in Nat /\ q + 1 <= len /\ a \in Nat
  BY TimesMonotone
<1>2. p + 1 \in 0..n - 1
  OBVIOUS
<1> HIDE DEF q
<1>3. (a + (p + 1)) % n = p + 1 /\ (a + p) % n = p /\ (a + p) \div n = q
  BY <1>2, <1>1, ModSum
<1>4. (q + 1) * n <= len * n /\ len * n \in Nat
  BY <1>1, TimesMonotone
<1>5. (q + 1) * n = a + n
  BY <1>1
<1> HIDE DEF a
<1>6. a + (p + 1) \in 1..len * n /\ (a + (p + 1)) - 1 = a + p
  <2> DEFINE m == len * n
  <2>1. a + n <= m /\ m \in Nat
    BY <1>4, <1>5
  <2> HIDE DEF m
  <2>2. a + (p + 1) \in 1..m /\ (a + (p + 1)) - 1 = a + p
    BY <1>1, <2>1
  <2> QED BY <2>2 DEF m
<1> QED BY <1>1, <1>3, <1>6 DEF a, q

\* The key values of a supported INSERT that does not fail are those of all the
\* rows it writes.
LEMMA KeysAreFound ==
  ASSUME NEW s, IsWrite(s), s.op = "insert", Supported(s), ~InsertFails(s)
  PROVE  InsertedKeys(s) \subseteq getPKValuesByColumn(s)
<1> SUFFICES ASSUME NEW i \in DOMAIN s.lists PROVE Field(s, s.lists[i], "id", NoRow) \in getPKValuesByColumn(s)
  BY DEF InsertedKeys
<1> DEFINE cols == IF s.cols = <<>> THEN Columns ELSE s.cols
           pos == Position("id", cols)
           n == Len(cols)
<1>1. /\ cols \in Seq({"id", "v"}) /\ s.lists \in Seq(Seq(Pks \cup Values))
      /\ \A k \in DOMAIN s.lists : s.lists[k] \in Seq(Pks \cup Values) /\ Len(s.lists[k]) = n
  BY InsertShape
<1>2. "id" \in Range(cols)
  <2>1. "id" \in Range(Columns)
    BY InsertShape DEF Range
  <2> QED BY <2>1 DEF Supported
<1>3. pos \in 0..n - 1 /\ n \in Nat
  BY <1>1, <1>2, PositionFound
<1>4. getPKIndex(s) = pos
  <2>1. s.cols = <<>> => "id" \notin Range(s.cols)
    BY DEF Range
  <2> QED BY <1>2, <2>1 DEF getPKIndex
<1>5. Field(s, s.lists[i], "id", NoRow) = s.lists[i][pos + 1]
  BY <1>2 DEF Field
<1>6. CASE ~s.binary
  <2>1. s.lists[i] \in {k \in Range(s.lists) : getPKIndex(s) < Len(k)}
    BY <1>1, <1>3, <1>4 DEF Range
  <2> QED BY <1>4, <1>5, <1>6, <2>1 DEF getPKValuesByColumn, QueryPKValues
<1>7. CASE s.binary
  <2>1. s.cols = cols /\ PreparePKValues(s) # {}
    BY <1>7 DEF InsertFails, PrepareInsertFails, DividesByZero
  <2>2. 1 \in DOMAIN s.lists /\ Len(s.lists) \in Nat /\ i \in 1..Len(s.lists) /\ Len(s.lists[1]) = n
    BY <1>1
  <2> HIDE DEF cols, pos, n
  <2>3. n \in Nat \ {0}
    BY <1>3
  <2>4. Parameters(s) = 1..Len(s.lists) * n
    BY <2>2 DEF Parameters
  <2>5. PreparePKValues(s) = {Parameter(s, j) : j \in {k \in Parameters(s) : k % n = pos + 1}}
    BY <1>4, <2>1 DEF PreparePKValues, n
  <2>6. pos + 1 \in 0..n - 1
    <3>1. PICK j \in Parameters(s) : j % n = pos + 1
      BY <2>1, <2>5
    <3>2. j \in Nat
      BY <2>2, <2>3, <2>4, <3>1
    <3> QED BY <1>3, <2>3, <3>1, <3>2
  <2> DEFINE j == (i - 1) * n + (pos + 1)
  <2>7. j \in Parameters(s) /\ j % n = pos + 1 /\ (j - 1) % n = pos /\ (j - 1) \div n = i - 1
    <3> DEFINE len == Len(s.lists)
    <3>1. pos + 1 < n /\ len \in Nat /\ i \in 1..len
      BY <1>3, <2>2, <2>3, <2>6
    <3> HIDE DEF len
    <3>2. j \in 1..len * n /\ j % n = pos + 1 /\ (j - 1) % n = pos /\ (j - 1) \div n = i - 1
      BY <1>3, <2>3, <3>1, ParameterNumber
    <3> QED BY <2>4, <3>2 DEF len
  <2> HIDE DEF j
  <2>8. Parameter(s, j) = s.lists[i][pos + 1]
    <3>1. ((j - 1) \div n) + 1 = i /\ ((j - 1) % n) + 1 = pos + 1
      BY <1>3, <2>2, <2>7
    <3> QED BY <2>2, <3>1 DEF Parameter
  <2> QED BY <1>5, <1>7, <2>5, <2>7, <2>8 DEF getPKValuesByColumn
<1> QED BY <1>6, <1>7

\* A protected transaction runs supported statements in local transactions.
LEMMA ProtectedStatement ==
  ASSUME Phases, NEW x \in Xids, Protected(x), sess[x].pc \in Stages
  PROVE  ~Tx(x).auto /\ Supported(Stmt(x)) /\ IsWrite(Stmt(x))
<1>1. /\ sess[x].tx \in DOMAIN sess[x].script /\ sess[x].st \in DOMAIN Tx(x).stmts /\ IsWrite(Stmt(x))
  BY DEF Phases, PhaseOf
<1>2. ~Tx(x).auto /\ (Stmt(x).op = "select" \/ Supported(Stmt(x)))
  BY <1>1 DEF Protected, Tx, Stmt
<1> QED BY <1>1, <1>2 DEF IsWrite

\* An after image shows the rows as they are, or the row loses its protection.
LEMMA ReadsNow ==
  ASSUME NEW x \in Xids, QueryAfterImage(x), Stmt(x).op # "delete"
  PROVE  /\ AfterImage(x) = Image(AfterKeys(x), ReadView(x))
         /\ \A p \in (Pks \cap AfterKeys(x)) \ wild' : ReadView(x)[p] = View(x)[p]
BY DEF QueryAfterImage, Older, AfterImage

\* What is written gets its lock keys before it is committed.
LEMMA WritesKeptNext ==
  ASSUME UndoTypeOK, Phases, BeforeHolds, KeysHeld, WritesKept, Next
  PROVE  WritesKept'
<1> DEFINE Covering(x) == /\ DOMAIN sess[x].buf \subseteq Kept(x) \cup Pending(x)
                          /\ DOMAIN orig[x] \subseteq Kept(x)
<1>0. /\ \A x \in Xids : DOMAIN sess[x].buf \subseteq Pks
      /\ DOMAIN None = {}
  BY ImageShape DEF UndoTypeOK, Sessions
<1>1. ASSUME NEW x \in Xids, Undecided(x)', sess'[x] = sess[x], orig'[x] = orig[x]
      PROVE  Covering(x)'
  <2>1. Undecided(x) /\ Kept(x) \subseteq Kept(x)'
    BY <1>1, KeptStays
  <2>2. Pending(x)' = Pending(x)
    BY <1>1, SessionStays DEF Pending, Covered
  <2> QED BY <1>1, <2>1, <2>2 DEF WritesKept
<1>2. ASSUME NEW x \in Xids, Undecided(x)', Statement(x) PROVE Covering(x)'
  <2>0. /\ Kept(x) \subseteq Kept(x)' /\ Covering(x)
        /\ sess'[x].script = sess[x].script
    <3>1. sess'[x].script = sess[x].script /\ Undecided(x) /\ Kept(x) \subseteq Kept(x)'
      BY <1>2, KeptStays, StatementFrame
    <3> QED BY <3>1 DEF WritesKept
  <2>1. ASSUME sess[x].pc \in {"stmt", "execute", "log"}, sess'[x].buf \in {sess[x].buf, None}, orig'[x] = orig[x]
        PROVE  Covering(x)'
    BY <1>0, <2>0, <2>1 DEF Pending
  <2>2. CASE PreHandle(x)
    BY <2>1, <2>2, PreHandleFields DEF PreHandle, At
  <2>3. CASE Execute(x)
    <3>1. PICK t \in Results(Stmt(x), View(x)) : LET S == Written(Stmt(x), View(x), t) IN
             /\ sess'[x].pc = "image" /\ sess'[x].script = sess[x].script /\ sess'[x].tx = sess[x].tx
             /\ sess'[x].st = sess[x].st /\ sess'[x].before = sess[x].before
             /\ sess'[x].buf = IF Tx(x).auto THEN sess[x].buf ELSE Over(Restrict(t, S), sess[x].buf)
             /\ DOMAIN Over(Restrict(t, S), sess[x].buf) = S \cup DOMAIN sess[x].buf
             /\ \A p \in S : Over(Restrict(t, S), sess[x].buf)[p] = t[p]
             /\ wild' = (IF Covered(x) THEN wild ELSE wild \cup S) /\ IsWrite(Stmt(x))
      BY <2>3, ExecuteRecord
    <3> DEFINE S == Written(Stmt(x), View(x), t)
    <3>2. Stmt(x)' = Stmt(x) /\ Tx(x)' = Tx(x) /\ orig'[x] = orig[x] /\ sess[x].pc = "execute"
      BY <2>3, <3>1 DEF Stmt, Tx, Execute, At
    <3>5. DOMAIN sess[x].buf \subseteq Kept(x)
      BY <2>0, <3>2 DEF Pending
    <3>c. CASE ~Covered(x)
      <4>1. DOMAIN sess'[x].buf \subseteq S \cup DOMAIN sess[x].buf /\ S \subseteq wild'
        BY <3>1, <3>c
      <4> QED BY <2>0, <3>2, <3>5, <4>1 DEF Kept
    <3> SUFFICES ASSUME Covered(x) PROVE Covering(x)'
      BY <3>c
    <3>3. ~Tx(x).auto /\ Supported(Stmt(x)) /\ IsWrite(Stmt(x)) /\ Covered(x)'
      BY <3>1, <3>2 DEF Covered
    <3>4. /\ DOMAIN sess'[x].buf = S \cup DOMAIN sess[x].buf
          /\ \A p \in S : sess'[x].buf[p] = t[p]
      BY <3>1, <3>3
    <3>6. S \subseteq Pending(x)'
      <4>1. CASE Stmt(x).op = "insert"
        <5>1. \A p \in S : p \in InsertedKeys(Stmt(x)) /\ t[p] # NoRow
          BY <3>3, <4>1, ViewIsTable, SupportedInsert
        <5>2. InsertedKeys(Stmt(x))' = InsertedKeys(Stmt(x))
          BY <3>2 DEF InsertedKeys, Field
        <5> QED BY <3>1, <3>2, <3>3, <3>4, <4>1, <5>1, <5>2 DEF Pending
      <4>2. CASE Stmt(x).op # "insert"
        <5>1. S = Where(Stmt(x).rows, Stmt(x), View(x))
          BY <3>3, <4>2, ViewIsTable, SupportedRows
        <5>2. S \subseteq DOMAIN sess[x].before
          BY <3>2, <3>3, <4>2, <5>1 DEF BeforeHolds
        <5> QED BY <3>1, <3>2, <3>3, <4>2, <5>2 DEF Pending
      <4> QED BY <4>1, <4>2
    <3> QED BY <2>0, <3>2, <3>4, <3>5, <3>6
  <2>4. CASE QueryAfterImage(x)
    <3>1. /\ sess'[x].pc = "register" /\ sess'[x].before = sess[x].before /\ sess'[x].after = AfterImage(x)
          /\ sess'[x].buf = sess[x].buf /\ orig' = orig /\ sess[x].pc = "image"
          /\ Stmt(x)' = Stmt(x) /\ Tx(x)' = Tx(x)
      BY <2>4, QueryAfterImageFields DEF QueryAfterImage, At, Stmt, Tx
    <3>c. CASE ~Covered(x)
      BY <2>0, <3>1, <3>c DEF Pending
    <3> SUFFICES ASSUME Covered(x) PROVE Covering(x)'
      BY <3>c
    <3>2. ~Tx(x).auto /\ Supported(Stmt(x)) /\ IsWrite(Stmt(x)) /\ Covered(x)'
      BY <3>1 DEF Covered, Phases, PhaseOf, Stages
    <3>3. Pending(x)' = DOMAIN (IF Stmt(x).op = "delete" THEN sess[x].before ELSE AfterImage(x))
      BY <3>1, <3>2 DEF Pending, LockKeys, BuildLockKey
    <3>4. DOMAIN sess[x].buf \cap Pending(x) \subseteq Pending(x)' \cup wild'
      <4> SUFFICES ASSUME NEW p \in DOMAIN sess[x].buf, p \in Pending(x), p \notin wild' PROVE p \in Pending(x)'
        OBVIOUS
      <4>1. p \in Pks /\ View(x)[p] = sess[x].buf[p]
        BY <1>0, ViewIsTable
      <4>2. CASE Stmt(x).op = "delete"
        BY <3>1, <3>3, <4>2 DEF Pending
      <4>3. CASE Stmt(x).op = "update"
        <5>1. p \in DOMAIN sess[x].before /\ View(x)[p] # NoRow
          BY <3>1, <3>2, <4>3 DEF Pending, BeforeHolds
        <5>2. AfterImage(x) = Image(DOMAIN sess[x].before, ReadView(x)) /\ ReadView(x)[p] = View(x)[p]
          <6>1. AfterKeys(x) = DOMAIN sess[x].before
            BY <4>3 DEF AfterKeys
          <6>2. p \in (Pks \cap AfterKeys(x)) \ wild' /\ Stmt(x).op # "delete"
            BY <4>1, <4>3, <5>1, <6>1
          <6> QED BY <2>4, <6>1, <6>2, ReadsNow
        <5>3. p \in DOMAIN Image(DOMAIN sess[x].before, ReadView(x))
          <6>1. DOMAIN Image(DOMAIN sess[x].before, ReadView(x)) = {q \in DOMAIN sess[x].before \cap Pks : ReadView(x)[q] # NoRow}
            BY ReadIsTable, ImageRows
          <6> QED BY <4>1, <5>1, <5>2, <6>1
        <5> QED BY <3>3, <4>3, <5>2, <5>3
      <4>4. CASE Stmt(x).op = "insert"
        <5>1. p \in InsertedKeys(Stmt(x)) /\ sess[x].buf[p] # NoRow
          BY <3>1, <4>4 DEF Pending
        <5>2. p \in getPKValuesByColumn(Stmt(x))
          BY <2>4, <3>2, <4>4, <5>1, KeysAreFound DEF QueryAfterImage
        <5>3. AfterImage(x) = Image(getPKValuesByColumn(Stmt(x)), ReadView(x)) /\ ReadView(x)[p] = View(x)[p]
          <6>1. AfterKeys(x) = getPKValuesByColumn(Stmt(x))
            BY <4>4 DEF AfterKeys
          <6>2. p \in (Pks \cap AfterKeys(x)) \ wild' /\ Stmt(x).op # "delete"
            BY <4>1, <4>4, <5>2, <6>1
          <6> QED BY <2>4, <6>1, <6>2, ReadsNow
        <5>4. p \in DOMAIN Image(getPKValuesByColumn(Stmt(x)), ReadView(x))
          <6> DEFINE K == getPKValuesByColumn(Stmt(x))
          <6>1. DOMAIN Image(K, ReadView(x)) = {q \in K \cap Pks : ReadView(x)[q] # NoRow}
            BY ReadIsTable, ImageRows
          <6> QED BY <4>1, <5>1, <5>2, <5>3, <6>1
        <5> QED BY <3>3, <4>4, <5>3, <5>4
      <4> QED BY <3>2, <4>2, <4>3, <4>4 DEF IsWrite
    <3> QED BY <2>0, <3>1, <3>4 DEF Kept
  <2>5. CASE RegisterBranch(x)
    <3>1. sess'[x].buf = sess[x].buf /\ sess[x].pc = "register" /\ orig' = orig
      BY <2>5, RegisterBranchFields DEF RegisterBranch, At
    <3>2. LockKeys(x) \subseteq Pks
      BY <3>1, ImagesAreImages DEF Stages
    <3>3. LockKeys(x) \subseteq Kept(x)'
      BY <2>5, <3>2 DEF RegisterBranch, Kept, HeldBy
    <3> QED BY <2>0, <3>1, <3>3 DEF Pending
  <2>6. CASE InsertUndoLog(x)
    BY <2>1, <2>6, InsertUndoLogFields DEF InsertUndoLog, At
  <2>7. CASE Select(x)
    BY <2>1, <2>7, SelectFields DEF Select, At
  <2>8. CASE LocalCommit(x)
    <3>1. sess'[x].buf = None /\ sess[x].pc = "stmt"
      BY <2>8, LocalCommitFields DEF LocalCommit
    <3>2. DOMAIN sess[x].buf \subseteq Kept(x)
      BY <2>0, <3>1 DEF Pending
    <3>3. DOMAIN orig'[x] = DOMAIN orig[x] \cup DOMAIN sess[x].buf
      <4>1. orig'[x] = Over(orig[x], Restrict(table, DOMAIN sess[x].buf))
        BY <2>8 DEF LocalCommit, UndoTypeOK
      <4> QED BY <4>1 DEF Over, Restrict
    <3> QED BY <1>0, <2>0, <3>1, <3>2, <3>3
  <2>9. CASE LocalRollback(x)
    <3>1. sess'[x].buf = None /\ orig' = orig
      BY <2>9, LocalRollbackFields DEF LocalRollback
    <3> QED BY <1>0, <2>0, <3>1
  <2> QED BY <1>2, <2>2, <2>3, <2>4, <2>5, <2>6, <2>7, <2>8, <2>9 DEF Statement
<1>3. ASSUME NEW x \in Xids, Undecided(x)' PROVE Covering(x)'
  <2>1. ASSUME NEW y \in Xids, Statement(y) PROVE Covering(x)'
    BY <1>1, <1>2, <1>3, <2>1, StatementFrame
  <2>2. ASSUME NEW y \in Xids, GlobalCommit(y) \/ DeleteUndoLogByXID(y) \/ GlobalRollback(y) \/ Undo(y) PROVE Covering(x)'
    BY <1>1, <1>3, <2>2, UndoFrame
  <2>3. ASSUME NEW w \in Writers, CheckGlobalLock(w) \/ Write(w) PROVE Covering(x)'
    BY <1>1, <1>3, <2>3, WriterFrame
  <2> QED BY <2>1, <2>2, <2>3 DEF Next
<1> QED BY <1>3 DEF WritesKept

\* At first nothing is written.
LEMMA InitUndoInv == Init => UndoInv
<1> SUFFICES ASSUME Init PROVE UndoInv
  OBVIOUS
<1>0. /\ None \in Images /\ DOMAIN None = {} /\ <<>> \in Seq(UndoItems) /\ DOMAIN <<>> = {}
      /\ \A t \in Tables : t \in [Pks -> Nat]
  BY ImageShape, TablesHoldRows, RowNumbers DEF NoRow
<1>1. PICK w \in Workloads : /\ sess = [x \in Xids |-> NewSession(w[x])]
                             /\ writer = [a \in Writers |-> [pc |-> "stmt", stmt |-> w[a]]]
  BY DEF Init
<1>2. \A x \in Xids : /\ sess[x].pc = "stmt" /\ sess[x].buf = None /\ sess[x].logs = <<>>
                      /\ undo[x] = NoUndo /\ status[x] = "begin" /\ orig[x] = None /\ undoLog[x] = <<>>
  BY <1>1 DEF Init, NewSession
<1>3. UndoTypeOK
  <2>1. sess \in [Xids -> Sessions]
    BY <1>0, <1>1 DEF NewSession, Sessions, Scripts
  <2>2. writer \in [Writers -> [pc : {"stmt", "execute", "over"}, stmt : Statements]]
    BY <1>1 DEF Statements
  <2>3. undo \in [Xids -> [pc : {"idle", "check", "undo", "release"}, i : Nat, buf : Images, snap : Images, keys : SUBSET Pks]]
    BY <1>0 DEF Init, NoUndo
  <2> QED BY <1>0, <2>1, <2>2, <2>3 DEF Init, UndoTypeOK
<1>4. Phases
  BY <1>2 DEF Phases, PhaseOf, NoUndo, Stages
<1>5. RowsLocked /\ BeforeHolds
  BY <1>0, <1>2 DEF RowsLocked, BeforeHolds, NoUndo
<1>6. KeysHeld
  BY <1>0, <1>2 DEF KeysHeld, NoUndo
<1>7. WritesKept
  BY <1>0, <1>2 DEF WritesKept
<1> QED BY <1>3, <1>4, <1>5, <1>6, <1>7 DEF UndoInv

\* Every step keeps the invariant.
LEMMA UndoInvNext == UndoInv /\ [Next]_vars => UndoInv'
<1> SUFFICES ASSUME UndoInv, [Next]_vars PROVE UndoInv'
  OBVIOUS
<1>1. CASE Next
  <2>1. UndoTypeOK' /\ Phases'
    <3>1. ASSUME NEW x \in Xids, Statement(x) PROVE UndoTypeOK' /\ Phases'
      BY <3>1, SessionTypes, SessionPhases DEF UndoInv
    <3>2. ASSUME NEW x \in Xids, GlobalCommit(x) \/ DeleteUndoLogByXID(x) \/ GlobalRollback(x) \/ Undo(x)
          PROVE  UndoTypeOK' /\ Phases'
      BY <3>2, UndoTypes, UndoPhases DEF UndoInv
    <3>3. ASSUME NEW w \in Writers, CheckGlobalLock(w) \/ Write(w) PROVE UndoTypeOK' /\ Phases'
      <4>1. UndoTypeOK'
        BY <3>3, WriterTypes DEF UndoInv
      <4>2. Phases'
        BY <3>3, WriterFrame, SessionStays DEF UndoInv, Phases, PhaseOf, Running
      <4> QED BY <4>1, <4>2
    <3> QED BY <1>1, <3>1, <3>2, <3>3 DEF Next
  <2>2. RowsLocked' /\ BeforeHolds' /\ KeysHeld' /\ WritesKept'
    BY <1>1, <2>1, RowsLockedNext, BeforeHoldsNext, KeysHeldNext, WritesKeptNext DEF UndoInv
  <2> QED BY <2>1, <2>2 DEF UndoInv
<1>2. CASE UNCHANGED vars
  <2>1. UndoTypeOK'
    BY <1>2 DEF vars, UndoInv, UndoTypeOK
  <2>2. Phases' /\ RowsLocked'
    BY <1>2, SessionStays DEF vars, UndoInv, Phases, PhaseOf, Running, RowsLocked
  <2>3. BeforeHolds'
    BY <1>2 DEF vars, UndoInv, BeforeHolds, Stmt, Tx, View
  <2>4. KeysHeld'
    BY <1>2 DEF vars, UndoInv, KeysHeld, Undecided, Kept, HeldBy, LockKeys, Stmt, Tx
  <2>5. WritesKept'
    <3>1. ASSUME NEW x \in Xids PROVE Pending(x)' = Pending(x)
      BY <1>2, SessionStays DEF vars, Pending, Covered
    <3> QED BY <1>2, <3>1 DEF vars, UndoInv, WritesKept, Undecided, Kept, HeldBy
  <2> QED BY <2>1, <2>2, <2>3, <2>4, <2>5 DEF UndoInv
<1> QED BY <1>1, <1>2

\* Between a local commit and the end of the global transaction, the lock keys
\* built from the images cover every row that was written.
THEOREM LockKeysCover == Spec => []LockKeysCoverWrites
<1>1. UndoInv => LockKeysCoverWrites
  BY ImageShape DEF UndoInv, UndoTypeOK, WritesKept, LockKeysCoverWrites, Undecided, Kept, HeldBy
<1> QED BY <1>1, InitUndoInv, UndoInvNext, PTL DEF Spec

---------------------------------------------------------------------------
(* What a row held, from log to log.                                         *)

\* The image shows that row p held v.
Shows(image, p, v) == IF v = NoRow THEN p \notin DOMAIN image ELSE p \in DOMAIN image /\ image[p] = v

\* The log says that row p held a before its statement and b after it.
Turns(l, p, a, b) ==
  IF p \in DOMAIN UndoRows(l)
  THEN Shows(l.before, p, a) /\ Shows(l.after, p, b) /\ (l.op = "update" => b # NoRow)
  ELSE a = b

\* h is what row p held before the first of the logs and after each of them.
Follows(logs, p, h) ==
  /\ h \in [0..Len(logs) -> Nat]
  /\ \A i \in 1..Len(logs) : Turns(logs[i], p, h[i - 1], h[i])

Undoing(x) == undo[x].pc \in {"check", "undo"}
FirstHeld(x, p) == IF p \in DOMAIN orig[x] THEN orig[x][p] ELSE table[p]

\* The committed logs of x tell what row p held, from before the first write of
\* x until now; Undo has gone back to what it held after the log it is at,
\* times to the second.
Committed(x, p) ==
  \E h \in [0..Len(undoLog[x]) -> Nat] :
    /\ Follows(undoLog[x], p, h)
    /\ h[0] = FirstHeld(x, p) /\ h[Len(undoLog[x])] = table[p]
    /\ Undoing(x) => Converted(h[undo[x].i]) = Converted(Over(undo[x].buf, table)[p])

\* Row p held a before the statement x is executing.
HeldBefore(x, p, a) ==
  LET v == View(x)[p]
      s == Stmt(x)
  IN CASE sess[x].pc \in {"stmt", "execute", "over"} -> a = v
       [] sess[x].pc = "image" /\ s.op = "insert" ->
            IF p \in InsertedKeys(s) THEN a = NoRow /\ v # NoRow ELSE a = v
       [] sess[x].pc = "image" /\ s.op # "insert" ->
            IF p \in DOMAIN sess[x].before
            THEN a = sess[x].before[p] /\ a # NoRow /\ (v = NoRow <=> s.op = "delete") ELSE a = v
       [] sess[x].pc \in {"register", "log"} -> Turns(BuildUndoItem(x), p, a, v)

\* So do the logs of its local transaction.
Uncommitted(x, p) ==
  \E h \in [0..Len(sess[x].logs) -> Nat] :
    /\ Follows(sess[x].logs, p, h)
    /\ h[0] = table[p] /\ HeldBefore(x, p, h[Len(sess[x].logs)])

Histories ==
  \A x \in Xids : Protected(x) /\ Undecided(x) /\ undo[x].pc # "release" =>
    \A p \in Pks \ wild : Committed(x, p) /\ Uncommitted(x, p)

\* The log is of the kind of its statement, and what it changes has a lock key.
Sound(l, unprotected) ==
  /\ l.op = "insert" => l.before = None
  /\ l.op = "delete" => l.after = None
  /\ l.op = "update" => DOMAIN l.after \subseteq DOMAIN l.before
  /\ DOMAIN UndoRows(l) \subseteq l.keys \cup unprotected

LogsSound ==
  \A x \in Xids :
    /\ \A i \in DOMAIN undoLog[x] : Sound(undoLog[x][i], wild)
    /\ \A i \in DOMAIN sess[x].logs : Sound(sess[x].logs[i], wild)
    /\ sess[x].pc \in {"register", "log"} => Sound(BuildUndoItem(x), wild)
    /\ sess[x].pc \in {"execute", "image"} /\ Stmt(x).op = "insert" => sess[x].before = None

\* Undo writes rows with lock keys, to the second, and its snapshot shows what
\* the table holds in them.
Undos ==
  \A x \in Xids :
    /\ Undecided(x) => DOMAIN undo[x].buf \subseteq Kept(x)
    /\ \A p \in DOMAIN undo[x].buf : undo[x].buf[p] \notin Micros
    /\ Undoing(x) /\ undo[x].snap # None =>
         /\ undo[x].snap \in [Pks -> Nat]
         /\ \A p \in HeldBy(x) \ wild : undo[x].snap[p] = table[p]

\* It writes the rows of the logs it has gone back over.
UndoneRows ==
  \A x \in Xids : Undoing(x) =>
    \A p \in DOMAIN undo[x].buf : \E k \in undo[x].i + 1..Len(undoLog[x]) : p \in DOMAIN UndoRows(undoLog[x][k])

\* What a log changes is written.
LogsWritten ==
  \A x \in Xids : Protected(x) =>
    /\ \A i \in DOMAIN undoLog[x] : DOMAIN UndoRows(undoLog[x][i]) \subseteq DOMAIN orig[x]
    /\ \A i \in DOMAIN sess[x].logs : DOMAIN UndoRows(sess[x].logs[i]) \subseteq DOMAIN sess[x].buf
    /\ sess[x].pc \in {"register", "log"} => DOMAIN UndoRows(BuildUndoItem(x)) \subseteq DOMAIN sess[x].buf
    /\ sess[x].pc = "image" => /\ DOMAIN sess[x].before \subseteq DOMAIN sess[x].buf
                               /\ Stmt(x).op = "insert" => InsertedKeys(Stmt(x)) \subseteq DOMAIN sess[x].buf

\* An Undo that was refused is refused again: the logs after the one that does
\* not fit change nothing.
Refuses(x, j) ==
  LET l == DecodeSqlUndoLog(undoLog[x][j])
      now == Image(DOMAIN UndoRows(l), table)
  IN /\ \A k \in j + 1..Len(undoLog[x]) : UndoRows(undoLog[x][k]) = None
     /\ Undoing(x) => undo[x].i >= j /\ undo[x].buf = None /\ (undo[x].pc = "undo" => undo[x].i > j)
     /\ ~(l.before # None /\ l.after = None) /\ l.before # l.after /\ now # l.after /\ now # l.before
Stuck ==
  dirty \subseteq Xids /\ \A x \in dirty : Protected(x) /\ DOMAIN orig[x] \cap wild = {} =>
    /\ status[x] = "rollbacking" /\ undo[x].pc # "release"
    /\ \E p \in DOMAIN orig[x] : table[p] \in Micros
    /\ \E j \in DOMAIN undoLog[x] : Refuses(x, j)

---------------------------------------------------------------------------
(* Logs and what they hold.                                                  *)

\* A time to the second is one, and no row becomes one by it.
LEMMA ToTheSecond ==
  ASSUME NEW v \in Nat
  PROVE  /\ Converted(v) \in Nat \ Micros /\ Converted(Converted(v)) = Converted(v)
         /\ Converted(v) = NoRow <=> v = NoRow
         /\ v \notin Micros => Converted(v) = v
BY ValuesArePositive DEF Converted, NoRow

\* A log that is read back is the one written, times to the second.
LEMMA ReadBack ==
  ASSUME NEW l \in UndoItems
  PROVE  LET d == DecodeSqlUndoLog(l) IN
         /\ d.op = l.op /\ d.keys = l.keys
         /\ DOMAIN d.before = DOMAIN l.before /\ \A p \in DOMAIN l.before : d.before[p] = Converted(l.before[p])
         /\ DOMAIN d.after = DOMAIN l.after /\ \A p \in DOMAIN l.after : d.after[p] = Converted(l.after[p])
         /\ DOMAIN UndoRows(d) = DOMAIN UndoRows(l)
<1> DEFINE d == DecodeSqlUndoLog(l)
<1>1. /\ d.op = l.op /\ d.keys = l.keys /\ d.before = convertTableRecords(l.before)
      /\ d.after = convertTableRecords(l.after)
  BY DEF DecodeSqlUndoLog, UndoItems
<1> HIDE DEF d
<1>2. /\ DOMAIN d.before = DOMAIN l.before /\ \A p \in DOMAIN l.before : d.before[p] = Converted(l.before[p])
      /\ DOMAIN d.after = DOMAIN l.after /\ \A p \in DOMAIN l.after : d.after[p] = Converted(l.after[p])
  BY <1>1 DEF convertTableRecords
<1>3. DOMAIN UndoRows(d) = DOMAIN UndoRows(l)
  BY <1>1, <1>2 DEF UndoRows
<1> QED BY <1>1, <1>2, <1>3 DEF d

\* The logs of two sequences, one after the other.
LEMMA Joined ==
  ASSUME NEW a \in Seq(UndoItems), NEW b \in Seq(UndoItems)
  PROVE  /\ a \o b \in Seq(UndoItems) /\ Len(a \o b) = Len(a) + Len(b)
         /\ \A i \in DOMAIN (a \o b) :
              \/ i \in DOMAIN a /\ i <= Len(a) /\ (a \o b)[i] = a[i]
              \/ i - Len(a) \in DOMAIN b /\ i > Len(a) /\ (a \o b)[i] = b[i - Len(a)]
<1> DEFINE s == a \o b
<1>1. /\ s \in Seq(UndoItems) /\ Len(s) = Len(a) + Len(b)
      /\ \A i \in 1..Len(s) : s[i] = IF i <= Len(a) THEN a[i] ELSE b[i - Len(a)]
  BY ConcatProperties
<1>2. DOMAIN a = 1..Len(a) /\ DOMAIN b = 1..Len(b) /\ Len(a) \in Nat /\ Len(b) \in Nat
  OBVIOUS
<1>3. DOMAIN s = 1..Len(s)
  BY <1>1
<1> HIDE DEF s
<1>4. ASSUME NEW i \in DOMAIN s
      PROVE  \/ i \in DOMAIN a /\ i <= Len(a) /\ s[i] = a[i]
             \/ i - Len(a) \in DOMAIN b /\ i > Len(a) /\ s[i] = b[i - Len(a)]
  BY <1>1, <1>2, <1>3
<1> QED BY <1>1, <1>4 DEF s

\* More unprotected rows leave a log sound.
LEMMA SoundGrows ==
  ASSUME NEW l, NEW v, NEW w, v \subseteq w, Sound(l, v)
  PROVE  Sound(l, w)
BY DEF Sound

\* Rows that lost the protection do not get it back.
LEMMA WildGrows ==
  ASSUME UndoTypeOK, Next
  PROVE  wild \subseteq wild'
<1>1. ASSUME NEW x \in Xids, Statement(x) PROVE wild \subseteq wild'
  BY <1>1 DEF Statement, PreHandle, Execute, QueryAfterImage, RegisterBranch, InsertUndoLog, Select,
              LocalCommit, LocalRollback
<1>2. ASSUME NEW x \in Xids, GlobalCommit(x) \/ DeleteUndoLogByXID(x) \/ GlobalRollback(x) \/ Undo(x)
      PROVE  wild \subseteq wild'
  <2>1. CASE ValidateData(x)
    BY <2>1, ValidateRecord DEF Refused, RollBackUndo
  <2>2. CASE UndoExecute(x)
    BY <2>2 DEF UndoExecute, Refused, RollBackUndo
  <2> QED BY <1>2, <2>1, <2>2 DEF GlobalCommit, DeleteUndoLogByXID, GlobalRollback, Undo, UndoBegin, UndoFails,
      UndoCommit, ReleaseLockKeys, RollBackUndo
<1>3. ASSUME NEW w \in Writers, CheckGlobalLock(w) \/ Write(w) PROVE wild \subseteq wild'
  BY <1>3, WriterFrame
<1> QED BY <1>1, <1>2, <1>3 DEF Next

\* The steps of a rollback.
LEMMA RollbackSteps ==
  ASSUME UndoTypeOK, Phases, NEW x \in Xids, Undecided(x)',
         GlobalCommit(x) \/ DeleteUndoLogByXID(x) \/ GlobalRollback(x) \/ Undo(x)
  PROVE  /\ Undecided(x)
         /\ \/ UndoCommit(x)
            \/ /\ UNCHANGED <<table, undoLog>>
               /\ \/ GlobalRollback(x) /\ UNCHANGED <<undo, wild, dirty, glock>>
                  \/ /\ UndoBegin(x) /\ UNCHANGED <<wild, dirty, glock>> /\ undo[x].pc = "idle"
                     /\ undo'[x].pc = "check" /\ undo'[x].i = Len(undoLog[x])
                     /\ undo'[x].buf = None /\ undo'[x].snap = None
                  \/ /\ RollBackUndo(x) /\ undo[x].pc \in {"check", "undo"}
                     /\ undo'[x].pc = "idle" /\ undo'[x].buf = None
                  \/ /\ ValidateData(x) /\ ~Refused(x) /\ undo[x].pc = "check"
                  \/ /\ UndoExecute(x) /\ ~Refused(x) /\ undo[x].pc = "undo"
                     /\ UNCHANGED <<wild, dirty, glock>>
                     /\ ~DuplicateKey(Log(x), Over(undo[x].buf, table))
                     /\ undo'[x].pc = "check" /\ undo'[x].i = undo[x].i - 1 /\ undo'[x].snap = undo[x].snap
                     /\ undo'[x].buf = Over(BuildUndoSql(Log(x), Over(undo[x].buf, table)), undo[x].buf)
<1>0. /\ undo \in [Xids -> [pc : {"idle", "check", "undo", "release"}, i : Nat, buf : Images, snap : Images, keys : SUBSET Pks]]
      /\ status \in [Xids -> {"begin", "committing", "committed", "rollbacking", "rollbacked"}]
  BY DEF UndoTypeOK
<1>1. ~GlobalCommit(x) /\ ~DeleteUndoLogByXID(x) /\ ~ReleaseLockKeys(x)
  BY <1>0 DEF GlobalCommit, DeleteUndoLogByXID, ReleaseLockKeys, Undecided
<1>2. ASSUME Undo(x) PROVE Undecided(x)
  <2>1. UNCHANGED status
    BY <1>1, <1>2 DEF Undo, UndoBegin, ValidateData, UndoExecute, UndoFails, UndoCommit
  <2> QED BY <2>1 DEF Undecided
<1>3. CASE GlobalRollback(x)
  BY <1>3 DEF GlobalRollback, Undecided
<1>4. CASE UndoBegin(x)
  <2>1. undo'[x] = [NoUndo EXCEPT !.pc = "check", !.i = Len(undoLog[x])]
    BY <1>0, <1>4 DEF UndoBegin
  <2>2. /\ undo'[x].pc = "check" /\ undo'[x].i = Len(undoLog[x])
        /\ undo'[x].buf = None /\ undo'[x].snap = None
    BY <2>1 DEF NoUndo
  <2> QED BY <1>2, <1>4, <2>2 DEF UndoBegin, Undo
<1>5. ASSUME RollBackUndo(x) PROVE undo'[x].pc = "idle" /\ undo'[x].buf = None
  BY <1>0, <1>5 DEF RollBackUndo, NoUndo
<1>6. CASE ValidateData(x)
  BY <1>2, <1>5, <1>6 DEF ValidateData, Refused, Undo
<1>7. CASE UndoExecute(x) /\ Refused(x)
  BY <1>2, <1>5, <1>7 DEF UndoExecute, Refused, Undo
<1>8. CASE UndoExecute(x) /\ ~Refused(x)
  <2>1. /\ undo' = [undo EXCEPT ![x].pc = "check", ![x].i = @ - 1,
                      ![x].buf = Over(BuildUndoSql(Log(x), Over(undo[x].buf, table)), @)]
        /\ UNCHANGED <<glock, wild, dirty>> /\ ~DuplicateKey(Log(x), Over(undo[x].buf, table))
    BY <1>8 DEF UndoExecute
  <2>2. /\ undo'[x].pc = "check" /\ undo'[x].i = undo[x].i - 1 /\ undo'[x].snap = undo[x].snap
        /\ undo'[x].buf = Over(BuildUndoSql(Log(x), Over(undo[x].buf, table)), undo[x].buf)
    BY <1>0, <2>1
  <2> QED BY <1>2, <1>8, <2>1, <2>2 DEF UndoExecute, Undo
<1>9. CASE UndoFails(x)
  BY <1>2, <1>5, <1>9 DEF UndoFails, Undo
<1> QED BY <1>1, <1>2, <1>3, <1>4, <1>6, <1>7, <1>8, <1>9 DEF Undo

\* The item of the undo log is made of what the session keeps.
LEMMA ItemStays ==
  ASSUME NEW x, sess'[x] = sess[x]
  PROVE  BuildUndoItem(x)' = BuildUndoItem(x)
BY SessionStays DEF BuildUndoItem

\* What a statement logs.
LEMMA ItemFields ==
  ASSUME NEW x
  PROVE  /\ BuildUndoItem(x).op = Stmt(x).op /\ BuildUndoItem(x).keys = LockKeys(x)
         /\ BuildUndoItem(x).before = sess[x].before /\ BuildUndoItem(x).after = sess[x].after
BY DEF BuildUndoItem

\* The logs of a transaction are sound, from the after image on.
LEMMA LogsSoundNext ==
  ASSUME UndoInv, LogsSound, Next
  PROVE  LogsSound'
<1> DEFINE Here(x) == /\ \A i \in DOMAIN undoLog[x] : Sound(undoLog[x][i], wild)
                      /\ \A i \in DOMAIN sess[x].logs : Sound(sess[x].logs[i], wild)
                      /\ sess[x].pc \in {"register", "log"} => Sound(BuildUndoItem(x), wild)
                      /\ sess[x].pc \in {"execute", "image"} /\ Stmt(x).op = "insert" => sess[x].before = None
<1>0. UndoTypeOK /\ Phases /\ BeforeHolds /\ wild \subseteq wild'
  BY WildGrows DEF UndoInv
<1>1. ASSUME NEW x \in Xids, sess'[x] = sess[x], undoLog'[x] = undoLog[x] \/ undoLog'[x] = <<>> PROVE Here(x)'
  <2>1. Here(x) /\ Stmt(x)' = Stmt(x) /\ BuildUndoItem(x)' = BuildUndoItem(x)
    BY <1>1, SessionStays, ItemStays DEF LogsSound
  <2> QED BY <1>0, <1>1, <2>1, SoundGrows
<1>2. ASSUME NEW x \in Xids, Statement(x) PROVE Here(x)'
  <2>0. /\ Here(x) /\ undoLog[x] \in Seq(UndoItems) /\ sess[x].logs \in Seq(UndoItems)
        /\ DOMAIN undoLog = Xids
    BY <1>0 DEF LogsSound, UndoTypeOK, Sessions
  <2>1. CASE PreHandle(x) \/ Select(x) \/ LocalRollback(x) \/ Execute(x)
    <3>1. /\ sess'[x].logs = sess[x].logs \/ sess'[x].logs = <<>>
          /\ sess'[x].pc \notin {"register", "log"}
          /\ undoLog' = undoLog
      BY <1>0, <2>1, PreHandleFields, ExecuteRecord, SelectFields, LocalRollbackFields
      DEF Select, At, PreHandle, Execute, LocalRollback
    <3>2. sess'[x].pc \in {"execute", "image"} /\ Stmt(x)'.op = "insert" => sess'[x].before = None
      <4>1. CASE PreHandle(x)
        BY <1>0, <4>1, PreHandleFields DEF Stmt, Tx
      <4>2. CASE Execute(x)
        BY <1>0, <2>0, <4>2, ExecuteRecord DEF Stmt, Tx, Execute, At
      <4>3. CASE Select(x) \/ LocalRollback(x)
        BY <1>0, <4>3, SelectFields, LocalRollbackFields DEF Select, At
      <4> QED BY <2>1, <4>1, <4>2, <4>3
    <3> QED BY <1>0, <2>0, <3>1, <3>2, SoundGrows
  <2>2. CASE QueryAfterImage(x)
    <3>1. /\ sess'[x].pc = "register" /\ sess'[x].before = sess[x].before /\ sess'[x].after = AfterImage(x)
          /\ sess'[x].logs = sess[x].logs /\ undoLog' = undoLog /\ sess[x].pc = "image"
          /\ Stmt(x)' = Stmt(x)
      BY <1>0, <2>2, QueryAfterImageFields DEF QueryAfterImage, At, Stmt, Tx
    <3> DEFINE l == BuildUndoItem(x)'
    <3>2. l.op = Stmt(x).op /\ l.before = sess[x].before /\ l.after = AfterImage(x) /\ l.keys = LockKeys(x)'
      BY <3>1 DEF BuildUndoItem
    <3>3. l.keys = DOMAIN (IF Stmt(x).op = "delete" THEN sess[x].before ELSE AfterImage(x))
      BY <3>1, <3>2 DEF LockKeys, BuildLockKey
    <3> HIDE DEF l
    <3>4. Stmt(x).op \in {"insert", "update", "delete"} /\ DOMAIN sess[x].before \subseteq Pks
      BY <1>0, <3>1, ImageShape DEF Phases, PhaseOf, Stages, IsWrite, UndoTypeOK, Sessions
    <3>5. ASSUME Stmt(x).op = "insert" PROVE Sound(l, wild')
      BY <2>0, <3>1, <3>2, <3>3, <3>5 DEF Sound, UndoRows
    <3>6. ASSUME Stmt(x).op = "delete" PROVE Sound(l, wild')
      BY <3>2, <3>3, <3>6 DEF Sound, UndoRows, AfterImage
    <3>7. ASSUME Stmt(x).op = "update" PROVE Sound(l, wild')
      <4>1. AfterImage(x) = Image(DOMAIN sess[x].before, ReadView(x))
        BY <3>7 DEF AfterImage, AfterKeys
      <4>2. DOMAIN Image(DOMAIN sess[x].before, ReadView(x)) = {p \in DOMAIN sess[x].before \cap Pks : ReadView(x)[p] # NoRow}
        BY <1>0, ReadIsTable, ImageRows
      <4>3. DOMAIN sess[x].before \subseteq DOMAIN AfterImage(x) \cup wild'
        <5>1. CASE Covered(x)
          <6>1. \A p \in DOMAIN sess[x].before : View(x)[p] # NoRow
            BY <1>0, <3>1, <3>7, <5>1 DEF BeforeHolds, Covered
          <6>2. \A p \in DOMAIN sess[x].before \ wild' : ReadView(x)[p] = View(x)[p]
            <7>1. AfterKeys(x) = DOMAIN sess[x].before /\ Stmt(x).op # "delete"
              BY <3>7 DEF AfterKeys
            <7> QED BY <2>2, <3>4, <7>1, ReadsNow
          <6> QED BY <3>4, <4>1, <4>2, <6>1, <6>2
        <5>2. CASE ~Covered(x)
          BY <2>2, <5>2 DEF QueryAfterImage
        <5> QED BY <5>1, <5>2
      <4>4. DOMAIN AfterImage(x) \subseteq DOMAIN sess[x].before
        BY <4>1, <4>2
      <4> QED BY <3>2, <3>3, <3>7, <4>3, <4>4 DEF Sound, UndoRows
    <3>8. Sound(BuildUndoItem(x)', wild')
      BY <3>4, <3>5, <3>6, <3>7 DEF l
    <3> QED BY <1>0, <2>0, <3>1, <3>8, SoundGrows
  <2>3. CASE RegisterBranch(x)
    <3>1. /\ sess'[x].pc = "log" /\ sess'[x].logs = sess[x].logs /\ undoLog' = undoLog /\ sess[x].pc = "register"
          /\ BuildUndoItem(x)' = BuildUndoItem(x)
      BY <1>0, <2>3, RegisterBranchFields DEF RegisterBranch, At, BuildUndoItem, LockKeys, Stmt, Tx
    <3> QED BY <1>0, <2>0, <3>1, SoundGrows
  <2>4. CASE InsertUndoLog(x)
    <3> DEFINE l == BuildUndoItem(x)
    <3>1. /\ sess'[x].logs = IF Tx(x).auto THEN sess[x].logs ELSE Append(sess[x].logs, l)
          /\ sess'[x].pc = "stmt" /\ sess[x].pc = "log"
          /\ undoLog'[x] = IF Tx(x).auto THEN Append(undoLog[x], l) ELSE undoLog[x]
      BY <1>0, <2>0, <2>4, InsertUndoLogFields DEF InsertUndoLog, At
    <3>2. Sound(l, wild')
      BY <1>0, <2>0, <3>1, SoundGrows
    <3> HIDE DEF l
    <3>3. ASSUME NEW s \in Seq(UndoItems), \A i \in DOMAIN s : Sound(s[i], wild)
          PROVE  \A i \in DOMAIN Append(s, l) : Sound(Append(s, l)[i], wild')
      BY <1>0, <3>2, <3>3, SoundGrows
    <3> QED BY <1>0, <2>0, <3>1, <3>3, SoundGrows
  <2>5. CASE LocalCommit(x)
    <3>1. /\ sess'[x].logs = <<>> /\ sess'[x].pc = "stmt"
          /\ undoLog'[x] = undoLog[x] \o sess[x].logs
      BY <1>0, <2>0, <2>5, LocalCommitFields DEF LocalCommit
    <3>2. \A i \in DOMAIN undoLog'[x] : Sound(undoLog'[x][i], wild')
      BY <1>0, <2>0, <3>1, Joined, SoundGrows
    <3>3. DOMAIN sess'[x].logs = {}
      BY <3>1
    <3> QED BY <3>1, <3>2, <3>3
  <2> HIDE DEF Here
  <2> QED BY <1>2, <2>1, <2>2, <2>3, <2>4, <2>5 DEF Statement
<1>3. ASSUME NEW x \in Xids PROVE Here(x)'
  <2>1. ASSUME NEW y \in Xids, Statement(y) PROVE Here(x)'
    BY <1>0, <1>1, <1>2, <2>1, StatementFrame
  <2>2. ASSUME NEW y \in Xids, GlobalCommit(y) \/ DeleteUndoLogByXID(y) \/ GlobalRollback(y) \/ Undo(y) PROVE Here(x)'
    <3>1. undoLog'[x] = undoLog[x] \/ undoLog'[x] = <<>>
      BY <2>2 DEF GlobalCommit, DeleteUndoLogByXID, GlobalRollback, Undo, UndoBegin, ValidateData,
         UndoExecute, UndoFails, UndoCommit, ReleaseLockKeys, UndoInv, UndoTypeOK
    <3>2. sess'[x] = sess[x]
      BY <1>0, <2>2, UndoFrame
    <3> QED BY <1>1, <3>1, <3>2
  <2>3. ASSUME NEW w \in Writers, CheckGlobalLock(w) \/ Write(w) PROVE Here(x)'
    BY <1>1, <2>3, WriterFrame
  <2> QED BY <2>1, <2>2, <2>3 DEF Next
<1> QED BY <1>3 DEF LogsSound

\* A row with a lock key is changed only by the transaction that has it, unless
\* it loses its protection.
LEMMA TableMoves ==
  ASSUME UndoInv, Undos, Next, NEW x \in Xids, NEW p \in HeldBy(x) \ wild', table'[p] # table[p]
  PROVE  LocalCommit(x) \/ UndoCommit(x)
<1>0. /\ UndoTypeOK /\ Phases /\ wild \subseteq wild' /\ p \in Pks /\ glock[p] = x
      /\ table \in [Pks -> Nat]
  BY WildGrows DEF UndoInv, HeldBy, UndoTypeOK
<1>t. UndoTypeOK /\ Phases
  BY DEF UndoInv
<1>1. ASSUME NEW y \in Xids, p \in Kept(y) PROVE y = x
  BY <1>0, <1>1 DEF Kept, HeldBy
<1>2. ASSUME NEW y \in Xids, Statement(y) PROVE LocalCommit(x)
  <2>1. CASE LocalCommit(y)
    <3>1. p \in DOMAIN sess[y].buf
      BY <1>0, <2>1, ViewIsTable DEF LocalCommit
    <3>2. DOMAIN sess[y].buf \subseteq Kept(y)
      BY <2>1 DEF LocalCommit, InTx, Running, UndoInv, WritesKept, Undecided, Pending
    <3> QED BY <1>1, <2>1, <3>1, <3>2
  <2>2. CASE Execute(y)
    <3>1. PICK t \in Results(Stmt(y), View(y)) : LET S == Written(Stmt(y), View(y), t) IN
             /\ \A q \in Pks \ S : t[q] = View(y)[q]
             /\ wild' = IF Covered(y) THEN wild ELSE wild \cup S
             /\ table' = IF Tx(y).auto THEN t ELSE table
      BY <1>t, <2>2, ExecuteRecord
    <3>2. Tx(y).auto /\ ~Covered(y) /\ table' = t
      <4>1. ASSUME ~Tx(y).auto PROVE FALSE
        <5>1. table' = table
          BY <3>1, <4>1
        <5> QED BY <5>1
      <4> QED BY <3>1, <4>1 DEF Covered
    <3>3. sess[y].buf = None
      BY <1>0, <3>2 DEF Phases, PhaseOf
    <3>4. View(y)[p] = table[p]
      BY <1>0, <3>3, ViewIsTable, ImageShape
    <3> QED BY <1>0, <3>1, <3>2, <3>4
  <2> QED BY <1>2, <2>1, <2>2 DEF Statement, PreHandle, QueryAfterImage, RegisterBranch, InsertUndoLog,
      Select, LocalRollback
<1>3. ASSUME NEW y \in Xids, GlobalCommit(y) \/ DeleteUndoLogByXID(y) \/ GlobalRollback(y) \/ Undo(y)
      PROVE  UndoCommit(x)
  <2>1. UndoCommit(y)
    BY <1>3 DEF GlobalCommit, DeleteUndoLogByXID, GlobalRollback, Undo, UndoBegin, ValidateData,
         UndoExecute, UndoFails, ReleaseLockKeys
  <2>2. p \in DOMAIN undo[y].buf
    <3>1. undo[y].buf \in Images /\ table' = Over(undo[y].buf, table)
      BY <1>0, <2>1 DEF UndoCommit, UndoTypeOK
    <3> QED BY <1>0, <3>1, OverTable
  <2>3. Undecided(y)
    BY <1>0, <2>1 DEF UndoCommit, Phases, PhaseOf, Undecided
  <2> QED BY <1>1, <2>1, <2>2, <2>3 DEF Undos
<1>4. ASSUME NEW w \in Writers, CheckGlobalLock(w) \/ Write(w) PROVE FALSE
  <2>1. Write(w)
    BY <1>4 DEF CheckGlobalLock
  <2>2. PICK t \in Results(writer[w].stmt, table) :
           table' = t /\ wild' = wild \cup Written(writer[w].stmt, table, t)
    BY <2>1 DEF Write
  <2>3. p \in Written(writer[w].stmt, table, t)
    BY <1>0, <2>2 DEF Written
  <2> QED BY <1>0, <2>2, <2>3
<1> QED BY <1>2, <1>3, <1>4 DEF Next

\* A transaction that is being rolled back gets no new lock keys.
LEMMA HeldStays ==
  ASSUME UndoTypeOK, Next, NEW x \in Xids, status[x] = "rollbacking"
  PROVE  HeldBy(x)' \subseteq HeldBy(x)
<1>0. x # Nobody /\ glock \in [Pks -> Xids \cup {Nobody}]
  BY NobodyRuns DEF UndoTypeOK
<1>r. ASSUME NEW keys, glock' = Released(keys) PROVE HeldBy(x)' \subseteq HeldBy(x)
  BY <1>0, <1>r DEF Released, HeldBy
<1>u. ASSUME glock' = glock PROVE HeldBy(x)' \subseteq HeldBy(x)
  BY <1>u DEF HeldBy
<1>1. ASSUME NEW y \in Xids, Statement(y) PROVE HeldBy(x)' \subseteq HeldBy(x)
  <2>1. CASE RegisterBranch(y)
    <3>1. y # x
      BY <2>1 DEF RegisterBranch, At, InTx, Running
    <3> QED BY <1>0, <2>1, <3>1 DEF RegisterBranch, HeldBy
  <2>2. CASE ~RegisterBranch(y)
    BY <1>1, <1>u, <2>2 DEF Statement, PreHandle, Execute, QueryAfterImage, InsertUndoLog, Select,
              LocalCommit, LocalRollback
  <2> QED BY <2>1, <2>2
<1>2. ASSUME NEW y \in Xids, GlobalCommit(y) \/ DeleteUndoLogByXID(y) \/ GlobalRollback(y) \/ Undo(y)
      PROVE  HeldBy(x)' \subseteq HeldBy(x)
  <2>1. CASE ValidateData(y)
    BY <1>r, <1>u, <2>1, ValidateRecord DEF Refused, RollBackUndo
  <2>2. CASE UndoExecute(y)
    BY <1>r, <1>u, <2>2 DEF UndoExecute, Refused, RollBackUndo
  <2> QED BY <1>2, <1>r, <1>u, <2>1, <2>2 DEF GlobalCommit, DeleteUndoLogByXID, GlobalRollback, Undo, UndoBegin,
      UndoFails, UndoCommit, ReleaseLockKeys, RollBackUndo
<1>3. ASSUME NEW w \in Writers, CheckGlobalLock(w) \/ Write(w) PROVE HeldBy(x)' \subseteq HeldBy(x)
  BY <1>3, <1>u, WriterFrame
<1> QED BY <1>1, <1>2, <1>3 DEF Next

\* What Undo puts in a row is NoRow or what the log shows before the statement.
LEMMA UndoSqlValues ==
  ASSUME NEW l \in UndoItems, NEW t
  PROVE  LET d == DecodeSqlUndoLog(l) IN
         /\ DOMAIN BuildUndoSql(d, t) = DOMAIN UndoRows(l)
         /\ \A p \in DOMAIN UndoRows(l) :
              /\ l.op = "insert" => BuildUndoSql(d, t)[p] = NoRow
              /\ l.op = "delete" => p \in DOMAIN l.before /\ BuildUndoSql(d, t)[p] = Converted(l.before[p])
              /\ l.op = "update" => /\ p \in DOMAIN l.before
                                    /\ BuildUndoSql(d, t)[p] = IF t[p] = NoRow THEN NoRow ELSE Converted(l.before[p])
              /\ BuildUndoSql(d, t)[p] \notin Micros
<1> DEFINE d == DecodeSqlUndoLog(l)
<1>1. /\ d.op = l.op /\ l.op \in {"insert", "delete", "update"}
      /\ DOMAIN d.before = DOMAIN l.before /\ \A p \in DOMAIN l.before : d.before[p] = Converted(l.before[p])
      /\ DOMAIN UndoRows(d) = DOMAIN UndoRows(l)
  BY ReadBack DEF UndoItems
<1> HIDE DEF d
<1>2. \A p \in DOMAIN UndoRows(l) : l.op # "insert" => p \in DOMAIN l.before
  BY DEF UndoRows
<1>3. \A p \in DOMAIN l.before : l.before[p] \in Nat
  BY ImageShape DEF UndoItems
<1>4. \A p \in DOMAIN l.before : Converted(l.before[p]) \notin Micros
  BY <1>3, ToTheSecond
<1>5. NoRow \notin Micros
  BY ValuesArePositive DEF NoRow
<1>6. /\ DOMAIN BuildUndoSql(d, t) = DOMAIN UndoRows(l)
      /\ \A p \in DOMAIN UndoRows(l) :
           BuildUndoSql(d, t)[p] = CASE l.op = "insert" -> NoRow
                                     [] l.op = "delete" -> d.before[p]
                                     [] l.op = "update" -> IF t[p] = NoRow THEN NoRow ELSE d.before[p]
  BY <1>1 DEF BuildUndoSql
<1>7. ASSUME NEW p \in DOMAIN UndoRows(l)
      PROVE  /\ l.op = "insert" => BuildUndoSql(d, t)[p] = NoRow
             /\ l.op = "delete" => p \in DOMAIN l.before /\ BuildUndoSql(d, t)[p] = Converted(l.before[p])
             /\ l.op = "update" => /\ p \in DOMAIN l.before
                                   /\ BuildUndoSql(d, t)[p] = IF t[p] = NoRow THEN NoRow ELSE Converted(l.before[p])
  BY <1>1, <1>2, <1>6
<1>8. ASSUME NEW p \in DOMAIN UndoRows(l) PROVE BuildUndoSql(d, t)[p] \notin Micros
  BY <1>1, <1>4, <1>5, <1>7
<1> QED BY <1>6, <1>7, <1>8 DEF d

\* An Undo keeps to the rows with lock keys, and reads what the table holds.
LEMMA UndosNext ==
  ASSUME UndoInv, LogsSound, Undos, Next
  PROVE  Undos'
<1> DEFINE Buffer(x) == \A p \in DOMAIN undo[x].buf : undo[x].buf[p] \notin Micros
           Snap(x) == Undoing(x) /\ undo[x].snap # None =>
                        /\ undo[x].snap \in [Pks -> Nat]
                        /\ \A p \in HeldBy(x) \ wild : undo[x].snap[p] = table[p]
           Goal(x) == /\ Undecided(x) => DOMAIN undo[x].buf \subseteq Kept(x)
                      /\ Buffer(x) /\ Snap(x)
<1>0. UndoTypeOK /\ Phases /\ KeysHeld /\ wild \subseteq wild' /\ DOMAIN None = {}
  BY WildGrows, ImageShape DEF UndoInv
<1>1. ASSUME NEW x \in Xids, undo'[x] = undo[x] PROVE Goal(x)'
  <2>0. Goal(x) /\ (Undoing(x)' <=> Undoing(x))
    BY <1>1 DEF Undos, Undoing
  <2>1. Undecided(x)' => DOMAIN undo[x].buf \subseteq Kept(x)'
    BY <1>0, <2>0, KeptStays
  <2>2. ASSUME Undoing(x), NEW p \in HeldBy(x)' \ wild' PROVE p \in HeldBy(x) \ wild /\ table'[p] = table[p]
    <3>1. status[x] = "rollbacking" /\ undo'[x].pc # "release"
      BY <1>0, <1>1, <2>2 DEF Phases, PhaseOf, Undoing
    <3>2. p \in HeldBy(x) \ wild
      BY <1>0, <2>2, <3>1, HeldStays
    <3>3. ~LocalCommit(x)
      BY <3>1 DEF LocalCommit, InTx, Running
    <3>4. ~UndoCommit(x)
      <4>1. ASSUME UndoCommit(x) PROVE undo'[x] = [NoUndo EXCEPT !.pc = "release", !.keys = ExecutedKeys(x)]
        BY <1>0, <4>1 DEF UndoCommit, UndoTypeOK
      <4>2. UndoCommit(x) => undo'[x].pc = "release"
        BY <4>1 DEF NoUndo
      <4> QED BY <3>1, <4>2
    <3> QED BY <2>2, <3>2, <3>3, <3>4, TableMoves
  <2>3. Snap(x)'
    BY <1>1, <2>0, <2>2
  <2> QED BY <1>1, <2>0, <2>1, <2>3
<1>2. ASSUME NEW x \in Xids, GlobalCommit(x) \/ DeleteUndoLogByXID(x) \/ GlobalRollback(x) \/ Undo(x) PROVE Goal(x)'
  <2>1. ASSUME undo'[x].buf = None, undo'[x].snap = None \/ undo'[x].pc \in {"idle", "release"} PROVE Goal(x)'
    BY <1>0, <2>1 DEF Undoing
  <2>2. CASE ~Undecided(x)'
    <3>1. UndoTypeOK /\ ~GlobalRollback(x) /\ ~UndoBegin(x) /\ ~ValidateData(x) /\ ~UndoExecute(x) /\ ~UndoFails(x) /\ ~UndoCommit(x)
      BY <1>0, <2>2 DEF GlobalRollback, UndoBegin, ValidateData, UndoExecute, UndoFails, UndoCommit,
         Undecided, Phases, PhaseOf, UndoTypeOK
    <3>2. CASE ReleaseLockKeys(x)
      <4>1. undo'[x] = NoUndo
        BY <1>0, <3>2 DEF ReleaseLockKeys, UndoTypeOK
      <4> QED BY <2>1, <4>1 DEF NoUndo
    <3>3. CASE GlobalCommit(x) \/ DeleteUndoLogByXID(x)
      BY <1>1, <3>3 DEF GlobalCommit, DeleteUndoLogByXID
    <3> QED BY <1>2, <3>1, <3>2, <3>3 DEF Undo
  <2> SUFFICES ASSUME Undecided(x)' PROVE Goal(x)'
    BY <2>2
  <2>0. Goal(x) /\ Undecided(x) /\ Kept(x) \subseteq Kept(x)' /\ table \in [Pks -> Nat] /\ undo[x].buf \in Images
    BY <1>0, KeptStays DEF Undos, UndoTypeOK
  <2>3. CASE UndoCommit(x)
    <3>1. undo'[x].buf = None /\ undo'[x].pc = "release"
      BY <1>0, <2>3 DEF UndoCommit, NoUndo, UndoTypeOK
    <3> QED BY <2>1, <3>1
  <2>4. CASE GlobalRollback(x) /\ UNCHANGED <<undo, wild, dirty, glock>>
    BY <1>1, <2>4
  <2>5. CASE ValidateData(x) /\ ~Refused(x) /\ UNCHANGED table
    <3>1. /\ UNCHANGED <<table, glock, wild>> /\ undo'[x].buf = undo[x].buf /\ undo[x].pc = "check"
          /\ undo'[x].snap \in {table, undo[x].snap} /\ (undo[x].snap # None => undo'[x].snap = undo[x].snap)
      BY <1>0, <2>5, ValidateFields DEF ValidateData, Snapshot
    <3>2. Snap(x)'
      BY <2>0, <3>1 DEF Undoing, HeldBy
    <3> QED BY <2>0, <3>1, <3>2
  <2>6. CASE /\ UndoExecute(x) /\ undo[x].pc = "undo" /\ UNCHANGED <<table, undoLog, wild, dirty, glock>>
             /\ undo'[x].pc = "check" /\ undo'[x].i = undo[x].i - 1 /\ undo'[x].snap = undo[x].snap
             /\ undo'[x].buf = Over(BuildUndoSql(Log(x), Over(undo[x].buf, table)), undo[x].buf)
    <3> DEFINE l == undoLog[x][undo[x].i]
               t == Over(undo[x].buf, table)
               sql == BuildUndoSql(Log(x), t)
    <3>1. undo[x].i \in DOMAIN undoLog[x] /\ l \in UndoItems
      BY <1>0, <2>6 DEF Phases, PhaseOf, UndoTypeOK
    <3>2. DOMAIN UndoRows(l) \subseteq Kept(x)
      BY <2>0, <3>1 DEF LogsSound, Sound, UndoInv, KeysHeld, Kept
    <3>3. DOMAIN sql = DOMAIN UndoRows(l) /\ \A p \in DOMAIN UndoRows(l) : sql[p] \notin Micros
      BY <3>1, UndoSqlValues DEF Log
    <3> HIDE DEF sql, l, t
    <3>4. /\ DOMAIN undo'[x].buf = DOMAIN sql \cup DOMAIN undo[x].buf
          /\ \A p \in DOMAIN undo'[x].buf : undo'[x].buf[p] = IF p \in DOMAIN sql THEN sql[p] ELSE undo[x].buf[p]
      BY <2>6 DEF Over, sql, t
    <3>5. Buffer(x)'
      BY <2>0, <3>3, <3>4
    <3>6. Snap(x)'
      BY <2>0, <2>6 DEF Undoing, HeldBy
    <3> QED BY <2>0, <3>2, <3>3, <3>4, <3>5, <3>6
  <2> HIDE DEF Goal
  <2> QED BY <1>0, <1>2, <2>1, <2>3, <2>4, <2>5, <2>6, RollbackSteps
<1>3. ASSUME NEW x \in Xids PROVE Goal(x)'
  <2>1. ASSUME NEW y \in Xids, Statement(y) PROVE Goal(x)'
    BY <1>0, <1>1, <2>1, StatementFrame
  <2>2. ASSUME NEW y \in Xids, GlobalCommit(y) \/ DeleteUndoLogByXID(y) \/ GlobalRollback(y) \/ Undo(y) PROVE Goal(x)'
    <3>1. CASE x = y
      BY <1>2, <2>2, <3>1
    <3>2. CASE x # y
      BY <1>0, <1>1, <2>2, <3>2, UndoFrame
    <3> QED BY <3>1, <3>2
  <2>3. ASSUME NEW w \in Writers, CheckGlobalLock(w) \/ Write(w) PROVE Goal(x)'
    BY <1>1, <2>3, WriterFrame
  <2> QED BY <2>1, <2>2, <2>3 DEF Next
<1> QED BY <1>3 DEF Undos

\* A parameter belongs to one of the rows, and to the column before the one
\* after it.
LEMMA RowOfParameter ==
  ASSUME NEW n \in Nat \ {0}, NEW len \in Nat, NEW j \in 1..len * n, NEW p \in 0..n - 1, j % n = p + 1
  PROVE  ((j - 1) \div n) + 1 \in 1..len /\ (j - 1) % n = p
<1> DEFINE q == j \div n
           m == len * n
<1>0. m \in Nat /\ j \in Nat \ {0} /\ j <= m
  BY TimesMonotone
<1> HIDE DEF m
<1>1. q \in Nat /\ j = q * n + (p + 1)
  BY <1>0
<1>2. p + 1 \in 0..n - 1
  BY <1>0
<1>3. q * n \in Nat
  BY <1>1, TimesMonotone
<1> HIDE DEF q
<1>4. j - 1 = q * n + p
  BY <1>1, <1>3
<1>5. (j - 1) % n = p /\ (j - 1) \div n = q
  BY <1>1, <1>4, ModSum
<1>6. q < len
  <2>1. ASSUME len <= q PROVE FALSE
    <3>1. len * n <= q * n
      BY <1>1, <2>1, TimesMonotone
    <3>2. m <= q * n
      BY <3>1 DEF m
    <3> QED BY <1>0, <1>1, <1>3, <3>2
  <2> QED BY <1>1, <2>1
<1> QED BY <1>1, <1>5, <1>6

---------------------------------------------------------------------------
(* What statements do to the rows of their images.                           *)

\* The key values found for a supported INSERT are those of rows it inserts.
LEMMA KeysAreInserted ==
  ASSUME NEW s, IsWrite(s), s.op = "insert", Supported(s), ~InsertFails(s)
  PROVE  getPKValuesByColumn(s) \subseteq InsertedKeys(s)
<1> DEFINE cols == IF s.cols = <<>> THEN Columns ELSE s.cols
           pos == Position("id", cols)
           n == Len(cols)
<1>1. /\ cols \in Seq({"id", "v"}) /\ s.lists \in Seq(Seq(Pks \cup Values))
      /\ \A k \in DOMAIN s.lists : s.lists[k] \in Seq(Pks \cup Values) /\ Len(s.lists[k]) = n
  BY InsertShape
<1>2. "id" \in Range(cols)
  <2>1. "id" \in Range(Columns)
    BY InsertShape DEF Range
  <2> QED BY <2>1 DEF Supported
<1>3. pos \in 0..n - 1 /\ n \in Nat
  BY <1>1, <1>2, PositionFound
<1>4. getPKIndex(s) = pos
  <2>1. s.cols = <<>> => "id" \notin Range(s.cols)
    BY DEF Range
  <2> QED BY <1>2, <2>1 DEF getPKIndex
<1>5. \A i \in DOMAIN s.lists : s.lists[i][pos + 1] \in InsertedKeys(s)
  BY <1>2 DEF Field, InsertedKeys
<1>6. CASE ~s.binary
  <2>1. QueryPKValues(s) \subseteq InsertedKeys(s)
    BY <1>4, <1>5 DEF QueryPKValues, Range
  <2> QED BY <1>6, <2>1 DEF getPKValuesByColumn
<1>7. CASE s.binary
  <2>1. s.cols = cols
    BY <1>7 DEF InsertFails, PrepareInsertFails, DividesByZero
  <2> HIDE DEF cols, pos, n
  <2>2. n \in Nat \ {0}
    BY <1>3
  <2>3. ASSUME NEW j \in Parameters(s), j % n = pos + 1 PROVE Parameter(s, j) \in InsertedKeys(s)
    <3>1. Len(s.lists) \in Nat /\ j \in 1..Len(s.lists) * Len(s.lists[1])
      BY <1>1 DEF Parameters
    <3>2. Len(s.lists) # 0
      <4>1. Len(s.lists) = 0 => Len(s.lists) * Len(s.lists[1]) = 0
        <5>1. ASSUME Len(s.lists) = 0 PROVE s.lists = <<>>
          BY <1>1, <5>1
        <5> QED BY <5>1
      <4> QED BY <3>1, <4>1
    <3>3. Len(s.lists[1]) = n /\ DOMAIN s.lists = 1..Len(s.lists)
      BY <1>1, <3>1, <3>2
    <3> DEFINE len == Len(s.lists)
    <3>4. len \in Nat /\ j \in 1..len * n
      BY <3>1, <3>3
    <3> HIDE DEF len
    <3>5. ((j - 1) \div n) + 1 \in 1..len /\ (j - 1) % n = pos
      BY <1>3, <2>2, <2>3, <3>4, RowOfParameter
    <3>6. Parameter(s, j) = s.lists[((j - 1) \div n) + 1][pos + 1]
      BY <3>3, <3>5 DEF Parameter
    <3> QED BY <1>5, <3>3, <3>5, <3>6 DEF len
  <2>4. PreparePKValues(s) \subseteq InsertedKeys(s)
    BY <1>4, <2>1, <2>3 DEF PreparePKValues, n
  <2> QED BY <1>7, <2>4 DEF getPKValuesByColumn
<1> QED BY <1>6, <1>7

\* A supported INSERT writes all the rows it has key values for.
LEMMA InsertWrites ==
  ASSUME NEW s, IsWrite(s), Supported(s), s.op = "insert", NEW t \in [Pks -> Nat], NEW u \in Results(s, t),
         NEW p \in InsertedKeys(s)
  PROVE  p \in Pks /\ u[p] # NoRow /\ t[p] = NoRow
<1>1. PICK k \in InsertedAt(s, t) : u = [q \in Pks |-> IF \E i \in DOMAIN k : k[i] = q
               THEN Field(s, s.lists[CHOOSE i \in DOMAIN k : k[i] = q], "v", 1) ELSE t[q]]
  BY DEF Results
<1>2. PICK j \in DOMAIN s.lists : p = Field(s, s.lists[j], "id", NoRow)
  BY DEF InsertedKeys
<1>3. k \in [DOMAIN s.lists -> Pks]
  BY <1>1 DEF InsertedAt
<1>4. Field(s, s.lists[j], "id", k[j]) = Field(s, s.lists[j], "id", NoRow)
  <2>1. "id" \in Range(IF s.cols = <<>> THEN Columns ELSE s.cols)
    <3>1. "id" \in Range(Columns)
      BY InsertShape DEF Range
    <3> QED BY <3>1 DEF Supported
  <2> QED BY <2>1 DEF Field
<1>5. k[j] = p /\ p \in Pks /\ t[p] = NoRow
  BY <1>1, <1>2, <1>3, <1>4 DEF InsertedAt, Supported
<1> DEFINE c == CHOOSE i \in DOMAIN k : k[i] = p
<1>6. c \in DOMAIN s.lists
  BY <1>2, <1>3, <1>5
<1>7. u[p] = Field(s, s.lists[c], "v", 1)
  BY <1>1, <1>2, <1>3, <1>5
<1> HIDE DEF c
<1>8. u[p] # NoRow
  BY <1>6, <1>7, FieldsAreRows DEF NoRow
<1> QED BY <1>5, <1>8

\* A supported DELETE leaves no row of its WHERE clause.
LEMMA DeleteClears ==
  ASSUME NEW s, Supported(s), s.op = "delete", NEW t \in [Pks -> Nat], NEW u \in Results(s, t),
         NEW p \in Where(s.rows, s, t)
  PROVE  u[p] = NoRow
<1>1. Taken(s, t) = {Where(s.rows, s, t)}
  BY DEF Taken, Supported
<1>2. u = [q \in Pks |-> IF q \in Where(s.rows, s, t) THEN NoRow ELSE t[q]]
  BY <1>1 DEF Results
<1> QED BY <1>2 DEF Where

\* What a supported statement turns the rows into that its session sees.
LEMMA ExecuteTurns ==
  ASSUME UndoInv, LogsSound, NEW x \in Xids, Execute(x), Covered(x)
  PROVE  \E t \in [Pks -> Nat] : \E S \in SUBSET Pks :
           /\ sess'[x].pc = "image" /\ sess'[x].before = sess[x].before /\ sess'[x].logs = sess[x].logs
           /\ Stmt(x)' = Stmt(x) /\ Tx(x)' = Tx(x) /\ UNCHANGED <<table, wild, undoLog, orig>>
           /\ \A p \in Pks : View(x)'[p] = t[p]
           /\ DOMAIN sess'[x].buf = S \cup DOMAIN sess[x].buf
           /\ Stmt(x).op = "insert" =>
                /\ InsertedKeys(Stmt(x)) \subseteq S /\ sess[x].before = None
                /\ \A p \in InsertedKeys(Stmt(x)) : View(x)[p] = NoRow /\ t[p] # NoRow
                /\ \A p \in Pks \ InsertedKeys(Stmt(x)) : t[p] = View(x)[p]
           /\ Stmt(x).op # "insert" =>
                /\ DOMAIN sess[x].before = S
                /\ \A p \in S : /\ sess[x].before[p] = View(x)[p] /\ View(x)[p] # NoRow
                                /\ t[p] = NoRow <=> Stmt(x).op = "delete"
                /\ \A p \in Pks \ S : t[p] = View(x)[p]
<1>0. UndoTypeOK /\ Phases /\ BeforeHolds /\ ~Tx(x).auto /\ Supported(Stmt(x)) /\ sess[x].pc = "execute"
      /\ View(x) \in [Pks -> Nat]
  BY ViewIsTable DEF UndoInv, Covered, Execute, At
<1>1. PICK t \in Results(Stmt(x), View(x)) : LET S == Written(Stmt(x), View(x), t) IN
             /\ t \in [Pks -> Nat] /\ S \subseteq Pks
             /\ IsWrite(Stmt(x))
             /\ \A p \in Pks \ S : t[p] = View(x)[p]
             /\ wild' = (IF Covered(x) THEN wild ELSE wild \cup S)
             /\ sess'[x].pc = "image" /\ sess'[x].script = sess[x].script /\ sess'[x].tx = sess[x].tx
             /\ sess'[x].st = sess[x].st /\ sess'[x].before = sess[x].before /\ sess'[x].logs = sess[x].logs
             /\ sess'[x].buf = IF Tx(x).auto THEN sess[x].buf ELSE Over(Restrict(t, S), sess[x].buf)
             /\ table' = IF Tx(x).auto THEN t ELSE table
             /\ Over(Restrict(t, S), sess[x].buf) \in Images
             /\ DOMAIN Over(Restrict(t, S), sess[x].buf) = S \cup DOMAIN sess[x].buf
             /\ \A p \in S : Over(Restrict(t, S), sess[x].buf)[p] = t[p]
             /\ \A p \in DOMAIN sess[x].buf \ S : Over(Restrict(t, S), sess[x].buf)[p] = sess[x].buf[p]
  BY <1>0, ExecuteRecord
<1> DEFINE S == Written(Stmt(x), View(x), t)
           b == Over(Restrict(t, S), sess[x].buf)
<1>2. /\ t \in [Pks -> Nat] /\ S \in SUBSET Pks /\ IsWrite(Stmt(x))
      /\ \A p \in Pks \ S : t[p] = View(x)[p]
      /\ sess'[x].buf = b /\ table' = table
      /\ b \in Images /\ DOMAIN b = S \cup DOMAIN sess[x].buf
      /\ \A p \in S : b[p] = t[p]
      /\ \A p \in DOMAIN sess[x].buf \ S : b[p] = sess[x].buf[p]
  BY <1>0, <1>1
<1>3. /\ sess'[x].pc = "image" /\ sess'[x].before = sess[x].before /\ sess'[x].logs = sess[x].logs
      /\ Stmt(x)' = Stmt(x) /\ Tx(x)' = Tx(x) /\ UNCHANGED <<table, wild, undoLog, orig>>
  BY <1>1, <1>2 DEF Stmt, Tx, Execute
<1>4. ASSUME Stmt(x).op = "insert"
      PROVE  /\ InsertedKeys(Stmt(x)) \subseteq S /\ sess[x].before = None
             /\ \A p \in InsertedKeys(Stmt(x)) : View(x)[p] = NoRow /\ t[p] # NoRow
             /\ \A p \in Pks \ InsertedKeys(Stmt(x)) : t[p] = View(x)[p]
  <2>1. \A p \in InsertedKeys(Stmt(x)) : p \in Pks /\ View(x)[p] = NoRow /\ t[p] # NoRow
    BY <1>0, <1>1, <1>4, InsertWrites
  <2>2. InsertedKeys(Stmt(x)) \subseteq S
    BY <2>1 DEF Written
  <2>3. \A p \in S : p \in InsertedKeys(Stmt(x))
    BY <1>0, <1>1, <1>4, SupportedInsert
  <2>4. sess[x].before = None
    BY <1>0, <1>4 DEF LogsSound
  <2> QED BY <1>2, <2>1, <2>2, <2>3, <2>4
<1>5. ASSUME Stmt(x).op # "insert"
      PROVE  /\ DOMAIN sess[x].before = S
             /\ \A p \in S : /\ sess[x].before[p] = View(x)[p] /\ View(x)[p] # NoRow
                             /\ t[p] = NoRow <=> Stmt(x).op = "delete"
             /\ \A p \in Pks \ S : t[p] = View(x)[p]
  <2> DEFINE W == Where(Stmt(x).rows, Stmt(x), View(x))
  <2>1. /\ W = {p \in RowsRead(Stmt(x)) : View(x)[p] \in Stmt(x).vals} /\ NoRow \notin Stmt(x).vals
        /\ S = W
        /\ Stmt(x).op = "update" => \A p \in Pks : t[p] # View(x)[p] => t[p] # NoRow
    BY <1>0, <1>1, <1>5, SupportedRows
  <2>2. DOMAIN sess[x].before = W /\ \A p \in W : sess[x].before[p] = View(x)[p]
    BY <1>0, <1>5 DEF BeforeHolds
  <2>3. \A p \in W : View(x)[p] # NoRow
    BY <2>1
  <2>4. Stmt(x).op = "delete" => \A p \in W : t[p] = NoRow
    BY <1>0, <1>1, DeleteClears
  <2>5. Stmt(x).op \in {"update", "delete"}
    BY <1>2, <1>5 DEF IsWrite
  <2>6. Stmt(x).op = "update" => \A p \in W : t[p] # NoRow
    BY <1>2, <2>1, <2>3
  <2> HIDE DEF W, S
  <2> QED BY <1>2, <2>1, <2>2, <2>3, <2>4, <2>5, <2>6
<1> HIDE DEF S, b
<1>6. \A p \in Pks : View(x)'[p] = t[p]
  <2>1. View(x)' = Over(b, table)
    BY <1>2 DEF View
  <2>2. /\ \A p \in DOMAIN b : Over(b, table)[p] = b[p]
        /\ \A p \in Pks \ DOMAIN b : Over(b, table)[p] = table[p]
    BY <1>0, <1>2, OverTable DEF UndoTypeOK
  <2> QED BY <1>0, <1>2, <2>1, <2>2, ViewIsTable
<1>7. DOMAIN sess'[x].buf = S \cup DOMAIN sess[x].buf
  BY <1>2
<1> QED BY <1>2, <1>3, <1>4, <1>5, <1>6, <1>7

\* The after image of a supported statement.
LEMMA AfterTurns ==
  ASSUME UndoInv, LogsSound, NEW x \in Xids, QueryAfterImage(x), Covered(x)
  PROVE  /\ sess'[x].pc = "register" /\ sess[x].pc = "image" /\ sess'[x].logs = sess[x].logs
         /\ sess'[x].buf = sess[x].buf /\ UNCHANGED <<table, undoLog, orig>> /\ Tx(x)' = Tx(x)
         /\ BuildUndoItem(x)'.op = Stmt(x).op /\ BuildUndoItem(x)'.before = sess[x].before
         /\ Stmt(x).op \in {"insert", "update", "delete"}
         /\ Stmt(x).op = "insert" =>
              /\ sess[x].before = None
              /\ DOMAIN BuildUndoItem(x)'.after \subseteq InsertedKeys(Stmt(x))
              /\ \A p \in Pks \ wild' : p \in DOMAIN BuildUndoItem(x)'.after <=>
                   p \in InsertedKeys(Stmt(x)) /\ View(x)[p] # NoRow
         /\ Stmt(x).op = "update" => \A p \in Pks \ wild' :
              p \in DOMAIN BuildUndoItem(x)'.after <=> p \in DOMAIN sess[x].before /\ View(x)[p] # NoRow
         /\ Stmt(x).op = "delete" => BuildUndoItem(x)'.after = None
         /\ \A p \in DOMAIN BuildUndoItem(x)'.after \ wild' : BuildUndoItem(x)'.after[p] = View(x)[p]
<1>0. UndoTypeOK /\ Phases /\ View(x) \in [Pks -> Nat] /\ ReadView(x) \in [Pks -> Nat]
  BY ViewIsTable, ReadIsTable DEF UndoInv
<1>1. /\ sess'[x].pc = "register" /\ sess'[x].before = sess[x].before /\ sess'[x].after = AfterImage(x)
      /\ sess'[x].buf = sess[x].buf /\ UNCHANGED <<table, undoLog, orig>> /\ sess[x].pc = "image"
      /\ Stmt(x)' = Stmt(x) /\ Tx(x)' = Tx(x) /\ sess'[x].logs = sess[x].logs
      /\ Stmt(x).op = "insert" => ~InsertFails(Stmt(x))
  BY <1>0, QueryAfterImageFields DEF QueryAfterImage, At, Stmt, Tx
<1> DEFINE l == BuildUndoItem(x)'
<1>2. l.op = Stmt(x).op /\ l.before = sess[x].before /\ l.after = AfterImage(x)
  BY <1>1 DEF BuildUndoItem
<1> HIDE DEF l
<1>3. IsWrite(Stmt(x)) /\ Supported(Stmt(x)) /\ Stmt(x).op \in {"insert", "update", "delete"}
      /\ DOMAIN sess[x].before \subseteq Pks
  BY <1>0, <1>1, ImageShape DEF Covered, Phases, PhaseOf, Stages, IsWrite, UndoTypeOK, Sessions
<1>4. \A K : /\ DOMAIN Image(K, ReadView(x)) = {p \in K \cap Pks : ReadView(x)[p] # NoRow}
             /\ \A p \in DOMAIN Image(K, ReadView(x)) : Image(K, ReadView(x))[p] = ReadView(x)[p]
  BY <1>0, ImageRows
<1>5. Stmt(x).op = "delete" => AfterImage(x) = None
  BY DEF AfterImage
<1>6. ASSUME NEW K, AfterKeys(x) = K, Stmt(x).op # "delete"
      PROVE  /\ DOMAIN AfterImage(x) \subseteq K
             /\ \A p \in Pks \ wild' : p \in DOMAIN AfterImage(x) <=> p \in K /\ View(x)[p] # NoRow
             /\ \A p \in DOMAIN AfterImage(x) \ wild' : AfterImage(x)[p] = View(x)[p]
  <2>1. /\ AfterImage(x) = Image(K, ReadView(x))
        /\ \A p \in (Pks \cap K) \ wild' : ReadView(x)[p] = View(x)[p]
    BY <1>6, ReadsNow
  <2>2. /\ DOMAIN AfterImage(x) = {p \in K \cap Pks : ReadView(x)[p] # NoRow}
        /\ \A p \in DOMAIN AfterImage(x) : AfterImage(x)[p] = ReadView(x)[p]
    BY <1>4, <2>1
  <2> QED BY <2>1, <2>2
<1>7. ASSUME Stmt(x).op = "insert" PROVE AfterKeys(x) = InsertedKeys(Stmt(x)) /\ sess[x].before = None
  <2>1. InsertedKeys(Stmt(x)) \subseteq getPKValuesByColumn(Stmt(x))
    BY <1>1, <1>3, <1>7, KeysAreFound
  <2>2. getPKValuesByColumn(Stmt(x)) \subseteq InsertedKeys(Stmt(x))
    BY <1>1, <1>3, <1>7, KeysAreInserted
  <2>3. sess[x].before = None
    BY <1>1, <1>7 DEF LogsSound
  <2> QED BY <1>7, <2>1, <2>2, <2>3 DEF AfterKeys
<1>8. ASSUME Stmt(x).op = "update" PROVE AfterKeys(x) = DOMAIN sess[x].before
  BY <1>8 DEF AfterKeys
<1>9. DOMAIN None = {}
  BY ImageShape
<1>10. \A p \in DOMAIN AfterImage(x) \ wild' : AfterImage(x)[p] = View(x)[p]
  BY <1>5, <1>6, <1>9
<1>11. Stmt(x).op = "insert" =>
         /\ DOMAIN AfterImage(x) \subseteq InsertedKeys(Stmt(x))
         /\ \A p \in Pks \ wild' : p \in DOMAIN AfterImage(x) <=> p \in InsertedKeys(Stmt(x)) /\ View(x)[p] # NoRow
  BY <1>6, <1>7
<1>12. Stmt(x).op = "update" =>
         \A p \in Pks \ wild' : p \in DOMAIN AfterImage(x) <=> p \in DOMAIN sess[x].before /\ View(x)[p] # NoRow
  BY <1>6, <1>8
<1> QED BY <1>1, <1>2, <1>3, <1>5, <1>7, <1>10, <1>11, <1>12 DEF l

\* What was true of the rows a log names stays so.
LEMMA LogsWrittenNext ==
  ASSUME UndoInv, LogsSound, LogsWritten, Next
  PROVE  LogsWritten'
<1> DEFINE Logged(x) == \A i \in DOMAIN undoLog[x] : DOMAIN UndoRows(undoLog[x][i]) \subseteq DOMAIN orig[x]
           Local(x) == \A i \in DOMAIN sess[x].logs : DOMAIN UndoRows(sess[x].logs[i]) \subseteq DOMAIN sess[x].buf
           Item(x) == sess[x].pc \in {"register", "log"} => DOMAIN UndoRows(BuildUndoItem(x)) \subseteq DOMAIN sess[x].buf
           Open(x) == sess[x].pc = "image" =>
                        /\ DOMAIN sess[x].before \subseteq DOMAIN sess[x].buf
                        /\ Stmt(x).op = "insert" => InsertedKeys(Stmt(x)) \subseteq DOMAIN sess[x].buf
           Here(x) == Logged(x) /\ Local(x) /\ Item(x) /\ Open(x)
<1>0. UndoTypeOK /\ Phases /\ DOMAIN None = {} /\ DOMAIN <<>> = {}
  BY ImageShape DEF UndoInv
<1>1. ASSUME NEW x \in Xids, sess'[x] = sess[x], undoLog'[x] = undoLog[x] \/ undoLog'[x] = <<>>, orig'[x] = orig[x],
             Here(x)
      PROVE  Here(x)'
  <2>1. Stmt(x)' = Stmt(x) /\ BuildUndoItem(x)' = BuildUndoItem(x)
    BY <1>1, SessionStays, ItemStays
  <2>2. InsertedKeys(Stmt(x))' = InsertedKeys(Stmt(x))
    BY <2>1 DEF InsertedKeys, Field
  <2> QED BY <1>0, <1>1, <2>1, <2>2
<1>2. ASSUME NEW x \in Xids, Statement(x), Protected(x), Here(x) PROVE Here(x)'
  <2>0. /\ undoLog[x] \in Seq(UndoItems) /\ sess[x].logs \in Seq(UndoItems)
        /\ DOMAIN undoLog = Xids /\ DOMAIN orig = Xids /\ sess[x].buf \in Images /\ orig[x] \in Images
        /\ table \in [Pks -> Nat]
    BY <1>0 DEF UndoTypeOK, Sessions
  <2>c. sess[x].pc \in Stages => Covered(x)
    BY <1>0, <1>2, ProtectedStatement DEF Covered
  <2>1. CASE PreHandle(x) \/ Select(x) \/ LocalRollback(x)
    <3>1. /\ (sess'[x].logs = sess[x].logs /\ sess'[x].buf = sess[x].buf) \/ sess'[x].logs = <<>>
          /\ sess'[x].pc \notin {"register", "log", "image"}
          /\ undoLog' = undoLog /\ orig' = orig
      BY <1>0, <2>1, PreHandleFields, SelectFields, LocalRollbackFields
      DEF Select, At, PreHandle, LocalRollback
    <3> QED BY <1>0, <1>2, <3>1
  <2>2. CASE Execute(x)
    <3>0. Covered(x)
      BY <2>2, <2>c DEF Execute, At, Stages
    <3>1. PICK S \in SUBSET Pks :
            /\ sess'[x].pc = "image" /\ sess'[x].before = sess[x].before /\ sess'[x].logs = sess[x].logs
            /\ Stmt(x)' = Stmt(x) /\ UNCHANGED <<undoLog, orig>>
            /\ DOMAIN sess'[x].buf = S \cup DOMAIN sess[x].buf
            /\ Stmt(x).op = "insert" => InsertedKeys(Stmt(x)) \subseteq S /\ sess[x].before = None
            /\ Stmt(x).op # "insert" => DOMAIN sess[x].before = S
      BY <2>2, <3>0, ExecuteTurns
    <3>2. InsertedKeys(Stmt(x))' = InsertedKeys(Stmt(x))
      BY <3>1 DEF InsertedKeys, Field
    <3>3. Logged(x)' /\ Item(x)'
      BY <1>2, <3>1
    <3>4. Local(x)'
      BY <1>2, <3>1
    <3>5. Open(x)'
      BY <1>0, <3>1, <3>2
    <3> QED BY <3>3, <3>4, <3>5
  <2>3. CASE QueryAfterImage(x)
    <3>0. Covered(x)
      BY <2>3, <2>c DEF QueryAfterImage, At, Stages
    <3> DEFINE l == BuildUndoItem(x)'
    <3>1. /\ sess'[x].pc = "register" /\ sess[x].pc = "image" /\ sess'[x].logs = sess[x].logs
          /\ sess'[x].buf = sess[x].buf /\ UNCHANGED <<undoLog, orig>>
          /\ l.op = Stmt(x).op /\ l.before = sess[x].before
          /\ Stmt(x).op = "insert" => DOMAIN l.after \subseteq InsertedKeys(Stmt(x))
      BY <2>3, <3>0, AfterTurns
    <3> HIDE DEF l
    <3>2. DOMAIN UndoRows(l) \subseteq DOMAIN sess[x].buf
      BY <1>2, <3>1 DEF UndoRows
    <3>3. Item(x)'
      BY <3>1, <3>2 DEF l
    <3> QED BY <1>2, <3>1, <3>3
  <2>4. CASE RegisterBranch(x)
    <3>1. /\ sess'[x].pc = "log" /\ sess'[x].logs = sess[x].logs /\ sess'[x].buf = sess[x].buf
          /\ UNCHANGED <<undoLog, orig>> /\ sess[x].pc = "register"
          /\ BuildUndoItem(x)' = BuildUndoItem(x)
      BY <1>0, <2>4, RegisterBranchFields DEF RegisterBranch, At, BuildUndoItem, LockKeys, Stmt, Tx
    <3> QED BY <1>2, <3>1
  <2>5. CASE InsertUndoLog(x)
    <3>0. ~Tx(x).auto /\ sess[x].pc = "log"
      BY <2>5, <2>c DEF InsertUndoLog, At, Stages, Covered
    <3> DEFINE l == BuildUndoItem(x)
    <3>1. /\ sess'[x].logs = Append(sess[x].logs, l) /\ sess'[x].buf = sess[x].buf
          /\ sess'[x].pc = "stmt" /\ orig' = orig /\ undoLog' = undoLog
      BY <1>0, <2>5, <3>0, InsertUndoLogFields DEF InsertUndoLog
    <3>2. DOMAIN UndoRows(l) \subseteq DOMAIN sess[x].buf
      BY <1>2, <3>0
    <3> HIDE DEF l
    <3>3. Local(x)'
      BY <1>2, <2>0, <3>1, <3>2
    <3> QED BY <1>2, <3>1, <3>3
  <2>6. CASE LocalCommit(x)
    <3>1. /\ sess'[x].logs = <<>> /\ sess'[x].pc = "stmt"
          /\ undoLog'[x] = undoLog[x] \o sess[x].logs
          /\ orig'[x] = Over(orig[x], Restrict(table, DOMAIN sess[x].buf))
      BY <1>0, <2>0, <2>6, LocalCommitFields DEF LocalCommit
    <3>2. DOMAIN orig'[x] = DOMAIN orig[x] \cup DOMAIN sess[x].buf
      BY <3>1 DEF Over, Restrict
    <3>3. Logged(x)'
      BY <1>2, <2>0, <3>1, <3>2, Joined
    <3> QED BY <1>0, <3>1, <3>3
  <2> HIDE DEF Here
  <2> QED BY <1>2, <2>1, <2>2, <2>3, <2>4, <2>5, <2>6 DEF Statement
<1>3. ASSUME NEW x \in Xids, Protected(x)' PROVE Here(x)'
  <2>1. ASSUME NEW y \in Xids, Statement(y) PROVE Here(x)'
    <3>1. Protected(x)
      <4>1. sess'[x].script = sess[x].script
        BY <1>0, <2>1, StatementFrame
      <4> QED BY <1>3, <4>1 DEF Protected
    <3>2. Here(x)
      BY <3>1 DEF LogsWritten
    <3> QED BY <1>0, <1>1, <1>2, <2>1, <3>1, <3>2, StatementFrame
  <2>2. ASSUME NEW y \in Xids, GlobalCommit(y) \/ DeleteUndoLogByXID(y) \/ GlobalRollback(y) \/ Undo(y) PROVE Here(x)'
    <3>1. undoLog'[x] = undoLog[x] \/ undoLog'[x] = <<>>
      BY <2>2 DEF GlobalCommit, DeleteUndoLogByXID, GlobalRollback, Undo, UndoBegin, ValidateData,
         UndoExecute, UndoFails, UndoCommit, ReleaseLockKeys, UndoInv, UndoTypeOK
    <3>2. sess'[x] = sess[x] /\ orig'[x] = orig[x]
      BY <1>0, <2>2, UndoFrame
    <3>3. Here(x)
      BY <1>3, <3>2, SessionStays DEF LogsWritten
    <3> QED BY <1>1, <3>1, <3>2, <3>3
  <2>3. ASSUME NEW w \in Writers, CheckGlobalLock(w) \/ Write(w) PROVE Here(x)'
    <3>1. sess'[x] = sess[x] /\ orig'[x] = orig[x] /\ undoLog'[x] = undoLog[x]
      BY <2>3, WriterFrame
    <3>2. Here(x)
      BY <1>3, <3>1, SessionStays DEF LogsWritten
    <3> QED BY <1>1, <3>1, <3>2
  <2> QED BY <2>1, <2>2, <2>3 DEF Next
<1> QED BY <1>3 DEF LogsWritten

---------------------------------------------------------------------------
(* What the logs tell stays true.                                            *)

\* Logs without row p tell that it holds what it held.
LEMMA Flat ==
  ASSUME NEW logs \in Seq(UndoItems), NEW p, NEW v \in Nat, \A i \in DOMAIN logs : p \notin DOMAIN UndoRows(logs[i])
  PROVE  \E h \in [0..Len(logs) -> Nat] : Follows(logs, p, h) /\ (\A k \in 0..Len(logs) : h[k] = v)
<1> DEFINE h == [k \in 0..Len(logs) |-> v]
<1>1. h \in [0..Len(logs) -> Nat] /\ \A k \in 0..Len(logs) : h[k] = v
  OBVIOUS
<1>2. \A i \in 1..Len(logs) : i - 1 \in 0..Len(logs) /\ i \in 0..Len(logs) /\ i \in DOMAIN logs
  OBVIOUS
<1> HIDE DEF h
<1>3. Follows(logs, p, h)
  BY <1>1, <1>2 DEF Follows, Turns
<1> QED BY <1>1, <1>3

\* What is written and not committed is not overwritten by another.
LEMMA BufferedStays ==
  ASSUME UndoInv, Next, NEW x \in Xids, ~Statement(x), NEW p \in DOMAIN sess[x].buf
  PROVE  table'[p] = table[p]
<1>0. UndoTypeOK /\ Phases /\ RowsLocked /\ p \in Pks /\ rowLock[p] = x
  BY ImageShape DEF UndoInv, RowsLocked, UndoTypeOK, Sessions
<1>1. ASSUME NEW y \in Xids, Statement(y) PROVE table'[p] = table[p]
  BY <1>0, <1>1, StatementsKeepLocked DEF Untouched
<1>2. ASSUME NEW y \in Xids, GlobalCommit(y) \/ DeleteUndoLogByXID(y) \/ GlobalRollback(y) \/ Undo(y)
      PROVE  table'[p] = table[p]
  <2>1. CASE y # x
    BY <1>0, <1>2, <2>1, UndosKeepLocked DEF Untouched
  <2>2. CASE y = x
    <3>1. status[x] = "begin"
      BY <1>0, ImageShape DEF Phases, PhaseOf, Running
    <3>2. ~UndoCommit(y)
      BY <1>0, <2>2, <3>1 DEF UndoCommit, Phases, PhaseOf
    <3> QED BY <1>2, <3>2 DEF GlobalCommit, DeleteUndoLogByXID, GlobalRollback, Undo, UndoBegin, ValidateData,
         UndoExecute, UndoFails, ReleaseLockKeys
  <2> QED BY <2>1, <2>2
<1>3. ASSUME NEW w \in Writers, CheckGlobalLock(w) \/ Write(w) PROVE table'[p] = table[p]
  BY <1>0, <1>3, WritersKeepLocked DEF Untouched
<1> QED BY <1>1, <1>2, <1>3 DEF Next

\* The committed logs, while others run.
LEMMA CommittedStays ==
  ASSUME UndoInv, Undos, LogsWritten, Next, NEW x \in Xids, Undecided(x), Protected(x), NEW p \in Pks \ wild',
         undoLog'[x] = undoLog[x], orig'[x] = orig[x], undo'[x] = undo[x], ~LocalCommit(x), ~UndoCommit(x),
         Committed(x, p)
  PROVE  Committed(x, p)'
<1>0. /\ UndoTypeOK /\ p \notin wild /\ undoLog[x] \in Seq(UndoItems) /\ table \in [Pks -> Nat]
      /\ undo[x].buf \in Images /\ undo[x].i \in Nat /\ orig[x] \in Images
  BY WildGrows DEF UndoInv, UndoTypeOK
<1>1. UndoTypeOK' /\ Phases
  BY UndoInvNext DEF UndoInv
<1>2. table' \in [Pks -> Nat]
  BY <1>1 DEF UndoTypeOK
<1>3. /\ p \in DOMAIN undo[x].buf => Over(undo[x].buf, table)[p] = undo[x].buf[p] /\ Over(undo[x].buf, table')[p] = undo[x].buf[p]
      /\ p \notin DOMAIN undo[x].buf => Over(undo[x].buf, table)[p] = table[p] /\ Over(undo[x].buf, table')[p] = table'[p]
  <2>1. p \in Pks
    OBVIOUS
  <2>2. /\ p \in DOMAIN undo[x].buf => Over(undo[x].buf, table)[p] = undo[x].buf[p]
        /\ p \notin DOMAIN undo[x].buf => Over(undo[x].buf, table)[p] = table[p]
    BY <1>0, <2>1, OverTable
  <2>3. /\ p \in DOMAIN undo[x].buf => Over(undo[x].buf, table')[p] = undo[x].buf[p]
        /\ p \notin DOMAIN undo[x].buf => Over(undo[x].buf, table')[p] = table'[p]
    BY <1>0, <1>2, <2>1, OverTable
  <2> QED BY <2>2, <2>3
<1>4. Undoing(x)' <=> Undoing(x)
  BY DEF Undoing
<1>5. CASE table'[p] = table[p]
  <2>1. FirstHeld(x, p)' = FirstHeld(x, p)
    BY <1>5 DEF FirstHeld
  <2>2. Over(undo[x].buf, table)'[p] = Over(undo[x].buf, table)[p]
    BY <1>3, <1>5
  <2> QED BY <1>4, <1>5, <2>1, <2>2 DEF Committed
<1>6. CASE table'[p] # table[p]
  <2>1. p \notin Kept(x)
    BY <1>0, <1>6, TableMoves DEF Kept
  <2>2. p \notin DOMAIN orig[x]
    BY <2>1 DEF UndoInv, WritesKept
  <2>3. \A i \in DOMAIN undoLog[x] : p \notin DOMAIN UndoRows(undoLog[x][i])
    BY <2>2 DEF LogsWritten
  <2>4. p \notin DOMAIN undo[x].buf
    BY <2>1 DEF Undos
  <2>5. PICK v \in Nat : v = table'[p]
    BY <1>2
  <2>6. PICK h \in [0..Len(undoLog[x]) -> Nat] : Follows(undoLog[x], p, h) /\ (\A k \in 0..Len(undoLog[x]) : h[k] = v)
    <3> DEFINE L == undoLog[x]
    <3>1. L \in Seq(UndoItems) /\ \A i \in DOMAIN L : p \notin DOMAIN UndoRows(L[i])
      BY <1>0, <2>3
    <3> HIDE DEF L
    <3>2. \E h \in [0..Len(L) -> Nat] : Follows(L, p, h) /\ (\A k \in 0..Len(L) : h[k] = v)
      BY ONLY <3>1, v \in Nat, Flat
    <3> QED BY <3>2 DEF L
  <2>7. FirstHeld(x, p)' = table'[p]
    BY <2>2 DEF FirstHeld
  <2>8. Undoing(x) => undo[x].i \in 0..Len(undoLog[x])
    BY <1>0, <1>1 DEF Undoing, Phases, PhaseOf
  <2>9. 0 \in 0..Len(undoLog[x]) /\ Len(undoLog[x]) \in 0..Len(undoLog[x])
    BY <1>0
  <2> QED BY <1>3, <1>4, <2>4, <2>5, <2>6, <2>7, <2>8, <2>9 DEF Committed
<1> QED BY <1>5, <1>6

\* The logs that are not committed, while others run.
LEMMA UncommittedStays ==
  ASSUME UndoInv, LogsWritten, Next, NEW x \in Xids, Protected(x), NEW p \in Pks,
         sess'[x] = sess[x], ~Statement(x), Uncommitted(x, p)
  PROVE  Uncommitted(x, p)'
<1>0. /\ UndoTypeOK /\ UndoTypeOK' /\ sess[x].logs \in Seq(UndoItems) /\ table \in [Pks -> Nat]
      /\ sess[x].pc \in {"stmt", "over"} \cup Stages
  BY UndoInvNext DEF UndoInv, UndoTypeOK, Sessions
<1>1. /\ p \in DOMAIN sess[x].buf => View(x)'[p] = View(x)[p] /\ table'[p] = table[p]
      /\ p \notin DOMAIN sess[x].buf => View(x)'[p] = table'[p]
      /\ p \notin DOMAIN sess[x].buf => View(x)[p] = table[p]
  <2>1. sess'[x].buf \in Images /\ table' \in [Pks -> Nat]
    BY <1>0 DEF UndoTypeOK, Sessions
  <2>2. /\ \A q \in DOMAIN sess[x].buf : View(x)'[q] = sess'[x].buf[q]
        /\ \A q \in Pks \ DOMAIN sess[x].buf : View(x)'[q] = table'[q]
    BY <2>1, OverTable DEF View
  <2> QED BY <1>0, <2>2, ViewIsTable, BufferedStays
<1>2. /\ Stmt(x)' = Stmt(x) /\ BuildUndoItem(x)' = BuildUndoItem(x)
      /\ InsertedKeys(Stmt(x))' = InsertedKeys(Stmt(x))
  BY SessionStays, ItemStays DEF InsertedKeys, Field
<1>3. ASSUME table'[p] = table[p], NEW a PROVE HeldBefore(x, p, a)' <=> HeldBefore(x, p, a)
  <2>1. View(x)'[p] = View(x)[p]
    BY <1>1, <1>3
  <2> QED BY <1>2, <2>1 DEF HeldBefore
<1>4. CASE table'[p] = table[p]
  BY <1>3, <1>4 DEF Uncommitted
<1>5. CASE table'[p] # table[p]
  <2>1. p \notin DOMAIN sess[x].buf
    BY <1>1, <1>5
  <2>2. \A i \in DOMAIN sess[x].logs : p \notin DOMAIN UndoRows(sess[x].logs[i])
    BY <2>1 DEF LogsWritten
  <2>3. PICK v \in Nat : v = table'[p]
    BY <1>0 DEF UndoTypeOK
  <2>4. PICK h \in [0..Len(sess[x].logs) -> Nat] :
          Follows(sess[x].logs, p, h) /\ (\A k \in 0..Len(sess[x].logs) : h[k] = v)
    <3> DEFINE L == sess[x].logs
    <3>1. L \in Seq(UndoItems) /\ \A i \in DOMAIN L : p \notin DOMAIN UndoRows(L[i])
      BY <1>0, <2>2
    <3> HIDE DEF L
    <3>2. \E h \in [0..Len(L) -> Nat] : Follows(L, p, h) /\ (\A k \in 0..Len(L) : h[k] = v)
      BY <3>1, Flat
    <3> QED BY <3>2 DEF L
  <2>5. View(x)'[p] = v
    BY <1>1, <2>1, <2>3
  <2>6. HeldBefore(x, p, v)'
    <3>1. sess[x].pc = "image" => p \notin DOMAIN sess[x].before /\ (Stmt(x).op = "insert" => p \notin InsertedKeys(Stmt(x)))
      BY <2>1 DEF LogsWritten
    <3>2. sess[x].pc \in {"register", "log"} => p \notin DOMAIN UndoRows(BuildUndoItem(x))
      BY <2>1 DEF LogsWritten
    <3>3. CASE sess[x].pc \in {"stmt", "execute", "over"}
      BY <2>5, <3>3 DEF HeldBefore
    <3>4. CASE sess[x].pc = "image"
      BY <1>2, <2>5, <3>1, <3>4 DEF HeldBefore
    <3>5. CASE sess[x].pc \in {"register", "log"}
      BY <1>2, <2>5, <3>2, <3>5 DEF HeldBefore, Turns
    <3> QED BY <1>0, <3>3, <3>4, <3>5 DEF Stages
  <2>7. 0 \in 0..Len(sess[x].logs) /\ Len(sess[x].logs) \in 0..Len(sess[x].logs)
    BY <1>0
  <2> QED BY <2>3, <2>4, <2>6, <2>7 DEF Uncommitted
<1> QED BY <1>4, <1>5

\* No logs tell what a row holds.
LEMMA NoLogs ==
  ASSUME NEW p, NEW v \in Nat
  PROVE  \E h \in [0..Len(<<>>) -> Nat] : Follows(<<>>, p, h) /\ h[0] = v /\ h[Len(<<>>)] = v
<1> DEFINE h == [k \in 0..0 |-> v]
<1>1. h \in [0..0 -> Nat] /\ h[0] = v /\ Len(<<>>) = 0
  OBVIOUS
<1> HIDE DEF h
<1>2. Follows(<<>>, p, h)
  BY <1>1 DEF Follows
<1> QED BY <1>1, <1>2

\* One more log tells what its statement did to the row.
LEMMA OneMore ==
  ASSUME NEW logs \in Seq(UndoItems), NEW l \in UndoItems, NEW p, NEW h, Follows(logs, p, h), NEW v \in Nat,
         Turns(l, p, h[Len(logs)], v)
  PROVE  \E g \in [0..Len(Append(logs, l)) -> Nat] :
           Follows(Append(logs, l), p, g) /\ g[0] = h[0] /\ g[Len(Append(logs, l))] = v
<1> DEFINE n == Len(logs)
           s == Append(logs, l)
           g == [k \in 0..n + 1 |-> IF k <= n THEN h[k] ELSE v]
<1>1. n \in Nat /\ s \in Seq(UndoItems) /\ Len(s) = n + 1 /\ s[n + 1] = l /\ \A i \in 1..n : s[i] = logs[i]
  OBVIOUS
<1>2. h \in [0..n -> Nat] /\ \A i \in 1..n : Turns(logs[i], p, h[i - 1], h[i])
  BY DEF Follows
<1> HIDE DEF n, s
<1>3. g \in [0..n + 1 -> Nat]
  BY <1>1, <1>2
<1>4. g[0] = h[0] /\ g[n + 1] = v /\ \A k \in 0..n : g[k] = h[k]
  BY <1>1
<1> HIDE DEF g
<1>5. ASSUME NEW i \in 1..n + 1 PROVE Turns(s[i], p, g[i - 1], g[i])
  <2>1. CASE i \in 1..n
    <3>1. i \in 0..n /\ i - 1 \in 0..n
      BY <1>1, <2>1
    <3>2. g[i - 1] = h[i - 1] /\ g[i] = h[i] /\ s[i] = logs[i]
      BY <1>1, <1>4, <2>1, <3>1
    <3> QED BY <1>2, <2>1, <3>2
  <2>2. CASE i = n + 1
    <3>1. i - 1 = n /\ n \in 0..n
      BY <1>1, <2>2
    <3>2. g[i - 1] = h[n] /\ g[i] = v /\ s[i] = l
      BY <1>1, <1>4, <2>2, <3>1
    <3> QED BY <3>2 DEF n
  <2> QED BY <1>1, <2>1, <2>2
<1>6. Follows(s, p, g)
  BY <1>1, <1>3, <1>5 DEF Follows
<1> QED BY <1>1, <1>3, <1>4, <1>6 DEF s

\* The logs of a local transaction go on where those before it end.
LEMMA GoesOn ==
  ASSUME NEW a \in Seq(UndoItems), NEW b \in Seq(UndoItems), NEW p, NEW h, NEW g,
         Follows(a, p, h), Follows(b, p, g), h[Len(a)] = g[0]
  PROVE  \E f \in [0..Len(a \o b) -> Nat] :
           Follows(a \o b, p, f) /\ f[0] = h[0] /\ f[Len(a \o b)] = g[Len(b)]
<1> DEFINE n == Len(a)
           m == Len(b)
           s == a \o b
           f == [k \in 0..n + m |-> IF k <= n THEN h[k] ELSE g[k - n]]
<1>1. n \in Nat /\ m \in Nat /\ Len(s) = n + m
      /\ \A i \in 1..n + m : s[i] = IF i <= n THEN a[i] ELSE b[i - n]
  BY ConcatProperties
<1>2. /\ h \in [0..n -> Nat] /\ \A i \in 1..n : Turns(a[i], p, h[i - 1], h[i])
      /\ g \in [0..m -> Nat] /\ \A i \in 1..m : Turns(b[i], p, g[i - 1], g[i])
      /\ h[n] = g[0]
  BY DEF Follows
<1> HIDE DEF n, m, s
<1>3. f \in [0..n + m -> Nat]
  BY <1>1, <1>2
<1>4. /\ \A k \in 0..n : f[k] = h[k]
      /\ \A k \in 0..m : f[n + k] = g[k]
  <2>1. ASSUME NEW k \in 0..n PROVE f[k] = h[k]
    BY <1>1
  <2>2. ASSUME NEW k \in 0..m PROVE f[n + k] = g[k]
    <3>1. CASE k = 0
      BY <1>1, <1>2, <3>1
    <3>2. CASE k # 0
      <4>1. n + k \in 0..n + m /\ ~(n + k <= n) /\ (n + k) - n = k
        BY <1>1, <3>2
      <4> QED BY <4>1
    <3> QED BY <3>1, <3>2
  <2> QED BY <2>1, <2>2
<1> HIDE DEF f
<1>5. ASSUME NEW i \in 1..n + m PROVE Turns(s[i], p, f[i - 1], f[i])
  <2>1. CASE i <= n
    <3>1. i \in 1..n /\ i \in 0..n /\ i - 1 \in 0..n
      BY <1>1, <2>1
    <3>2. f[i - 1] = h[i - 1] /\ f[i] = h[i] /\ s[i] = a[i]
      BY <1>1, <1>4, <3>1
    <3> QED BY <1>2, <3>1, <3>2
  <2>2. CASE ~(i <= n)
    <3> DEFINE j == i - n
    <3>1. j \in 1..m /\ j \in 0..m /\ j - 1 \in 0..m /\ i = n + j /\ i - 1 = n + (j - 1)
      BY <1>1, <2>2
    <3>2. s[i] = b[j]
      BY <1>1, <2>2
    <3> HIDE DEF j
    <3>3. f[i - 1] = g[j - 1] /\ f[i] = g[j]
      BY <1>4, <3>1
    <3> QED BY <1>2, <3>1, <3>2, <3>3
  <2> QED BY <2>1, <2>2
<1>6. Follows(s, p, f)
  BY <1>1, <1>3, <1>5 DEF Follows
<1>7. f[0] = h[0] /\ f[n + m] = g[m]
  BY <1>1, <1>4
<1> QED BY <1>1, <1>3, <1>6, <1>7 DEF s, m

\* The statements of a protected transaction, and what its logs tell.
LEMMA OwnStatements ==
  ASSUME UndoInv, LogsSound, Next, NEW x \in Xids, Statement(x), Protected(x), NEW p \in Pks, p \notin wild',
         Committed(x, p), Uncommitted(x, p)
  PROVE  Committed(x, p)' /\ Uncommitted(x, p)'
<1>0. /\ UndoTypeOK /\ Phases /\ undoLog[x] \in Seq(UndoItems) /\ sess[x].logs \in Seq(UndoItems)
      /\ DOMAIN undoLog = Xids /\ DOMAIN orig = Xids /\ sess[x].buf \in Images /\ orig[x] \in Images
      /\ table \in [Pks -> Nat] /\ View(x) \in [Pks -> Nat] /\ DOMAIN None = {}
  BY ViewIsTable, ImageShape DEF UndoInv, UndoTypeOK, Sessions
<1>c. sess[x].pc \in Stages => Covered(x)
  BY <1>0, ProtectedStatement DEF Covered
<1>s. ASSUME UNCHANGED <<table, undoLog, orig>> PROVE Committed(x, p)'
  <2>1. UNCHANGED undo
    BY <1>0, StatementFrame
  <2> QED BY <1>s, <2>1 DEF Committed, FirstHeld, Undoing
<1>h. ASSUME sess'[x].logs = sess[x].logs, UNCHANGED <<table, undoLog, orig>>,
             \A a \in Nat : HeldBefore(x, p, a) => HeldBefore(x, p, a)'
      PROVE  Committed(x, p)' /\ Uncommitted(x, p)'
  <2>1. PICK h \in [0..Len(sess[x].logs) -> Nat] :
          /\ Follows(sess[x].logs, p, h)
          /\ h[0] = table[p] /\ HeldBefore(x, p, h[Len(sess[x].logs)])
    BY DEF Uncommitted
  <2>2. h[Len(sess[x].logs)] \in Nat
    BY <1>0, <2>1
  <2>3. HeldBefore(x, p, h[Len(sess[x].logs)])'
    <3> DEFINE a == h[Len(sess[x].logs)]
    <3>1. PICK b \in Nat : b = a
      BY <2>2
    <3>2. HeldBefore(x, p, b)'
      BY <1>h, <2>1, <3>1
    <3> QED BY <1>h, <3>1, <3>2
  <2> QED BY <1>h, <1>s, <2>1, <2>3 DEF Uncommitted
<1>1. CASE PreHandle(x) \/ Select(x)
  <2>1. /\ sess[x].pc = "stmt" /\ sess'[x].pc \in {"stmt", "execute"} /\ sess'[x].logs = sess[x].logs
        /\ sess'[x].buf = sess[x].buf /\ UNCHANGED <<table, undoLog, orig>>
    BY <1>0, <1>1, PreHandleFields, SelectFields DEF PreHandle, Select, At
  <2>2. View(x)' = View(x)
    BY <2>1 DEF View
  <2>3. \A a \in Nat : HeldBefore(x, p, a) => HeldBefore(x, p, a)'
    BY <2>1, <2>2 DEF HeldBefore
  <2> QED BY <1>h, <2>1, <2>3
<1>2. CASE Execute(x)
  <2>0. Covered(x) /\ sess[x].pc = "execute"
    BY <1>2, <1>c DEF Execute, At, Stages
  <2>1. PICK t \in [Pks -> Nat] : \E S \in SUBSET Pks :
           /\ sess'[x].pc = "image" /\ sess'[x].before = sess[x].before /\ sess'[x].logs = sess[x].logs
           /\ Stmt(x)' = Stmt(x) /\ UNCHANGED <<table, undoLog, orig>>
           /\ \A q \in Pks : View(x)'[q] = t[q]
           /\ Stmt(x).op = "insert" =>
                /\ \A q \in InsertedKeys(Stmt(x)) : View(x)[q] = NoRow /\ t[q] # NoRow
                /\ \A q \in Pks \ InsertedKeys(Stmt(x)) : t[q] = View(x)[q]
           /\ Stmt(x).op # "insert" =>
                /\ DOMAIN sess[x].before = S
                /\ \A q \in S : /\ sess[x].before[q] = View(x)[q] /\ View(x)[q] # NoRow
                                /\ t[q] = NoRow <=> Stmt(x).op = "delete"
                /\ \A q \in Pks \ S : t[q] = View(x)[q]
    BY <1>2, <2>0, ExecuteTurns
  <2>2. InsertedKeys(Stmt(x))' = InsertedKeys(Stmt(x))
    BY <2>1 DEF InsertedKeys, Field
  <2>3. ASSUME NEW a \in Nat, HeldBefore(x, p, a) PROVE HeldBefore(x, p, a)'
    <3>1. a = View(x)[p] /\ View(x)'[p] = t[p]
      BY <2>0, <2>1, <2>3 DEF HeldBefore
    <3>2. CASE Stmt(x).op = "insert"
      BY <2>1, <2>2, <3>1, <3>2 DEF HeldBefore
    <3>3. CASE Stmt(x).op # "insert"
      BY <2>1, <3>1, <3>3 DEF HeldBefore
    <3> QED BY <3>2, <3>3
  <2> QED BY <1>h, <2>1, <2>3
<1>3. CASE QueryAfterImage(x)
  <2>0. Covered(x)
    BY <1>3, <1>c DEF QueryAfterImage, At, Stages
  <2> DEFINE l == BuildUndoItem(x)'
  <2>1. /\ sess'[x].pc = "register" /\ sess[x].pc = "image" /\ sess'[x].logs = sess[x].logs
        /\ sess'[x].buf = sess[x].buf /\ UNCHANGED <<table, undoLog, orig>>
        /\ l.op = Stmt(x).op /\ l.before = sess[x].before
        /\ Stmt(x).op \in {"insert", "update", "delete"}
        /\ Stmt(x).op = "insert" => sess[x].before = None
        /\ Stmt(x).op = "insert" => (p \in DOMAIN l.after <=> p \in InsertedKeys(Stmt(x)) /\ View(x)[p] # NoRow)
        /\ Stmt(x).op = "update" => (p \in DOMAIN l.after <=> p \in DOMAIN sess[x].before /\ View(x)[p] # NoRow)
        /\ Stmt(x).op = "delete" => l.after = None
        /\ p \in DOMAIN l.after => l.after[p] = View(x)[p]
    BY <1>3, <2>0, AfterTurns
  <2>2. View(x)' = View(x)
    BY <2>1 DEF View
  <2> HIDE DEF l
  <2>3. ASSUME NEW a \in Nat, HeldBefore(x, p, a) PROVE Turns(l, p, a, View(x)[p])
    <3>1. CASE Stmt(x).op = "insert"
      <4>1. IF p \in InsertedKeys(Stmt(x)) THEN a = NoRow /\ View(x)[p] # NoRow ELSE a = View(x)[p]
        BY <2>1, <2>3, <3>1 DEF HeldBefore
      <4>2. UndoRows(l) = l.after
        BY <2>1, <3>1 DEF UndoRows
      <4>3. l.before = None /\ l.op = "insert"
        BY <2>1, <3>1
      <4>4. p \in DOMAIN l.after <=> p \in InsertedKeys(Stmt(x)) /\ View(x)[p] # NoRow
        BY <2>1, <3>1
      <4>5. p \in DOMAIN l.after => l.after[p] = View(x)[p]
        BY <2>1
      <4>6. p \notin DOMAIN l.before
        BY <1>0, <4>3
      <4> QED BY <4>1, <4>2, <4>3, <4>4, <4>5, <4>6 DEF Turns, Shows
    <3>2. CASE Stmt(x).op # "insert"
      <4>1. IF p \in DOMAIN sess[x].before
            THEN a = sess[x].before[p] /\ a # NoRow /\ (View(x)[p] = NoRow <=> Stmt(x).op = "delete") ELSE a = View(x)[p]
        BY <2>1, <2>3, <3>2 DEF HeldBefore
      <4>2. UndoRows(l) = l.before
        BY <2>1, <3>2 DEF UndoRows
      <4> QED BY <1>0, <2>1, <3>2, <4>1, <4>2 DEF Turns, Shows
    <3> QED BY <3>1, <3>2
  <2>4. ASSUME NEW a \in Nat, HeldBefore(x, p, a) PROVE HeldBefore(x, p, a)'
    BY <2>1, <2>2, <2>3, <2>4 DEF HeldBefore, l
  <2> QED BY <1>h, <2>1, <2>4
<1>4. CASE RegisterBranch(x)
  <2>1. /\ sess'[x].pc = "log" /\ sess'[x].logs = sess[x].logs /\ sess'[x].buf = sess[x].buf
        /\ UNCHANGED <<table, undoLog, orig>> /\ sess[x].pc = "register"
        /\ BuildUndoItem(x)' = BuildUndoItem(x)
    BY <1>0, <1>4, RegisterBranchFields DEF RegisterBranch, At, BuildUndoItem, LockKeys, Stmt, Tx
  <2>2. View(x)' = View(x)
    BY <2>1 DEF View
  <2>3. \A a \in Nat : HeldBefore(x, p, a) => HeldBefore(x, p, a)'
    BY <2>1, <2>2 DEF HeldBefore
  <2> QED BY <1>h, <2>1, <2>3
<1>5. CASE InsertUndoLog(x)
  <2>0. ~Tx(x).auto /\ sess[x].pc = "log"
    BY <1>5, <1>c DEF InsertUndoLog, At, Stages, Covered
  <2> DEFINE l == BuildUndoItem(x)
             s == Append(sess[x].logs, l)
  <2>1. /\ sess'[x].logs = s /\ sess'[x].buf = sess[x].buf
        /\ sess'[x].pc = "stmt" /\ UNCHANGED <<table, undoLog, orig>>
    BY <1>0, <1>5, <2>0, InsertUndoLogFields DEF InsertUndoLog
  <2>2. l \in UndoItems
    <3>1. LockKeys(x) \subseteq Pks
      BY <1>0, <2>0, ImagesAreImages DEF Stages
    <3>2. Stmt(x).op \in {"update", "delete", "insert"}
      BY <1>0, <2>0 DEF Phases, PhaseOf, Stages, IsWrite
    <3>3. sess[x].before \in Images /\ sess[x].after \in Images
      BY <1>0 DEF UndoTypeOK, Sessions
    <3> QED BY <3>1, <3>2, <3>3 DEF UndoItems, BuildUndoItem
  <2>3. View(x)' = View(x) /\ View(x)[p] \in Nat
    BY <1>0, <2>1 DEF View
  <2>4. PICK h \in [0..Len(sess[x].logs) -> Nat] :
          /\ Follows(sess[x].logs, p, h)
          /\ h[0] = table[p] /\ HeldBefore(x, p, h[Len(sess[x].logs)])
    BY DEF Uncommitted
  <2>5. Turns(l, p, h[Len(sess[x].logs)], View(x)[p])
    BY <2>0, <2>4 DEF HeldBefore
  <2> HIDE DEF l
  <2>6. \E g \in [0..Len(s) -> Nat] : Follows(s, p, g) /\ g[0] = h[0] /\ g[Len(s)] = View(x)[p]
    <3> DEFINE L == sess[x].logs
               v == View(x)[p]
    <3>1. L \in Seq(UndoItems) /\ Follows(L, p, h) /\ v \in Nat /\ Turns(l, p, h[Len(L)], v) /\ l \in UndoItems
      BY <1>0, <2>2, <2>3, <2>4, <2>5
    <3> HIDE DEF L, v
    <3>2. \E g \in [0..Len(Append(L, l)) -> Nat] :
            Follows(Append(L, l), p, g) /\ g[0] = h[0] /\ g[Len(Append(L, l))] = v
      BY ONLY <3>1, OneMore
    <3> QED BY <3>2 DEF L, v
  <2> HIDE DEF s
  <2>7. PICK g \in [0..Len(s) -> Nat] : Follows(s, p, g) /\ g[0] = table[p] /\ g[Len(s)] = View(x)[p]
    BY <2>4, <2>6
  <2>8. \A a : a = View(x)[p] => a = View(x)'[p]
    BY <2>3
  <2>9. ASSUME NEW b, b = View(x)'[p] PROVE HeldBefore(x, p, b)'
    BY <2>1, <2>9 DEF HeldBefore
  <2>10. PICK b : b = View(x)'[p]
    OBVIOUS
  <2>11. HeldBefore(x, p, b)' /\ g[Len(s)] = b
    BY <2>3, <2>7, <2>9, <2>10
  <2>12. Uncommitted(x, p)'
    BY <2>1, <2>7, <2>11 DEF Uncommitted
  <2> QED BY <1>s, <2>1, <2>12
<1>6. ASSUME sess'[x].buf = None, sess'[x].logs = <<>>, sess'[x].pc \in {"stmt", "over"} PROVE Uncommitted(x, p)'
  <2>1. table' \in [Pks -> Nat]
    BY UndoInvNext DEF UndoInv, UndoTypeOK
  <2>2. PICK v \in Nat : v = table'[p]
    BY <2>1
  <2>3. None \in Images
    BY ImageShape
  <2>4. View(x)'[p] = table'[p]
    <3>1. View(x)' = Over(None, table')
      BY <1>6 DEF View
    <3>2. Over(None, table')[p] = table'[p]
      BY <1>0, <2>1 DEF Over
    <3> QED BY <3>1, <3>2
  <2>5. HeldBefore(x, p, v)'
    BY <1>6, <2>2, <2>4 DEF HeldBefore
  <2>6. PICK h \in [0..Len(<<>>) -> Nat] : Follows(<<>>, p, h) /\ h[0] = v /\ h[Len(<<>>)] = v
    BY NoLogs
  <2> QED BY <1>6, <2>2, <2>5, <2>6 DEF Uncommitted
<1>7. CASE LocalRollback(x)
  <2>1. /\ sess'[x].buf = None /\ sess'[x].logs = <<>> /\ sess'[x].pc = "over"
        /\ UNCHANGED <<table, undoLog, orig>>
    BY <1>0, <1>7, LocalRollbackFields DEF LocalRollback
  <2> QED BY <1>6, <1>s, <2>1
<1>8. CASE LocalCommit(x)
  <2>1. /\ sess'[x].buf = None /\ sess'[x].logs = <<>> /\ sess'[x].pc = "stmt" /\ sess[x].pc = "stmt"
        /\ undoLog'[x] = undoLog[x] \o sess[x].logs /\ table' = View(x)
        /\ orig'[x] = Over(orig[x], Restrict(table, DOMAIN sess[x].buf)) /\ status[x] = "begin"
    BY <1>0, <1>8, LocalCommitFields DEF LocalCommit, InTx, Running
  <2>2. ~Undoing(x)'
    <3>1. undo' = undo
      BY <1>0, StatementFrame
    <3> QED BY <1>0, <2>1, <3>1 DEF Undoing, Phases, PhaseOf
  <2>3. PICK h \in [0..Len(undoLog[x]) -> Nat] :
          Follows(undoLog[x], p, h) /\ h[0] = FirstHeld(x, p) /\ h[Len(undoLog[x])] = table[p]
    BY DEF Committed
  <2>4. PICK g \in [0..Len(sess[x].logs) -> Nat] :
          Follows(sess[x].logs, p, g) /\ g[0] = table[p] /\ g[Len(sess[x].logs)] = View(x)[p]
    BY <2>1 DEF Uncommitted, HeldBefore
  <2>5. PICK f \in [0..Len(undoLog[x] \o sess[x].logs) -> Nat] :
          /\ Follows(undoLog[x] \o sess[x].logs, p, f) /\ f[0] = h[0]
          /\ f[Len(undoLog[x] \o sess[x].logs)] = g[Len(sess[x].logs)]
    <3> DEFINE a == undoLog[x]
               b == sess[x].logs
    <3>1. a \in Seq(UndoItems) /\ b \in Seq(UndoItems) /\ Follows(a, p, h) /\ Follows(b, p, g) /\ h[Len(a)] = g[0]
      BY <1>0, <2>3, <2>4
    <3> HIDE DEF a, b
    <3>2. \E f \in [0..Len(a \o b) -> Nat] : Follows(a \o b, p, f) /\ f[0] = h[0] /\ f[Len(a \o b)] = g[Len(b)]
      BY ONLY <3>1, GoesOn
    <3> QED BY <3>2 DEF a, b
  <2>6. FirstHeld(x, p)' = FirstHeld(x, p)
    <3>1. DOMAIN sess[x].buf \subseteq Pks
      BY <1>0, ImageShape
    <3>2. /\ Restrict(table, DOMAIN sess[x].buf) \in Images
          /\ DOMAIN Restrict(table, DOMAIN sess[x].buf) = DOMAIN sess[x].buf
          /\ \A q \in DOMAIN sess[x].buf : Restrict(table, DOMAIN sess[x].buf)[q] = table[q]
      BY <1>0, <3>1, RestrictTable
    <3> DEFINE r == Restrict(table, DOMAIN sess[x].buf)
    <3>3. /\ DOMAIN orig'[x] = DOMAIN orig[x] \cup DOMAIN sess[x].buf
          /\ \A q \in DOMAIN orig[x] : orig'[x][q] = orig[x][q]
          /\ \A q \in DOMAIN sess[x].buf \ DOMAIN orig[x] : orig'[x][q] = r[q]
      <4>1. r \in Images /\ DOMAIN r = DOMAIN sess[x].buf /\ orig'[x] = Over(orig[x], r)
        BY <2>1, <3>2
      <4> HIDE DEF r
      <4>2. /\ DOMAIN Over(orig[x], r) = DOMAIN orig[x] \cup DOMAIN r
            /\ \A q \in DOMAIN orig[x] : Over(orig[x], r)[q] = orig[x][q]
            /\ \A q \in DOMAIN r \ DOMAIN orig[x] : Over(orig[x], r)[q] = r[q]
        BY <1>0, <4>1, OverRows
      <4> QED BY <4>1, <4>2
    <3>4. p \notin DOMAIN sess[x].buf => View(x)[p] = table[p]
      BY <1>0, ViewIsTable
    <3> QED BY <2>1, <3>2, <3>3, <3>4 DEF FirstHeld
  <2>7. Committed(x, p)'
    BY <2>1, <2>2, <2>3, <2>4, <2>5, <2>6 DEF Committed
  <2> QED BY <1>6, <2>1, <2>7
<1> QED BY <1>1, <1>2, <1>3, <1>4, <1>5, <1>7, <1>8 DEF Statement

\* What an Undo reads of a row with a lock key is what it finds in it.
LEMMA UndoReads ==
  ASSUME UndoInv, Undos, LogsWritten, NEW x \in Xids, Protected(x), Undoing(x), undo[x].i > 0
  PROVE  LET l == undoLog[x][undo[x].i]
             cur == Over(undo[x].buf, table)
             now == CurrentRecords(x, Log(x)) IN
         /\ undo[x].i \in 1..Len(undoLog[x]) /\ l \in UndoItems /\ cur \in [Pks -> Nat]
         /\ DOMAIN now \subseteq DOMAIN UndoRows(l)
         /\ \A p \in DOMAIN UndoRows(l) \ wild :
              /\ p \in Pks /\ p \in HeldBy(x)
              /\ p \in DOMAIN now <=> cur[p] # NoRow
              /\ p \in DOMAIN now => now[p] = cur[p]
<1> DEFINE l == undoLog[x][undo[x].i]
           cur == Over(undo[x].buf, table)
           seen == Over(undo[x].buf, Snapshot(x))
           now == CurrentRecords(x, Log(x))
<1>0. /\ UndoTypeOK /\ Phases /\ table \in [Pks -> Nat] /\ undo[x].buf \in Images /\ undoLog[x] \in Seq(UndoItems)
      /\ undo[x].i \in Nat
  BY DEF UndoInv, UndoTypeOK
<1>1. undo[x].i \in 1..Len(undoLog[x]) /\ undo[x].i \in DOMAIN undoLog[x] /\ l \in UndoItems
  BY <1>0 DEF Phases, PhaseOf, Undoing
<1>2. /\ cur \in [Pks -> Nat]
      /\ \A p \in DOMAIN undo[x].buf : cur[p] = undo[x].buf[p]
      /\ \A p \in Pks \ DOMAIN undo[x].buf : cur[p] = table[p]
  BY <1>0, OverTable
<1>3. Snapshot(x) \in [Pks -> Nat] /\ \A p \in HeldBy(x) \ wild : Snapshot(x)[p] = table[p]
  BY <1>0 DEF Snapshot, Undos, HeldBy
<1>4. /\ seen \in [Pks -> Nat]
      /\ \A p \in DOMAIN undo[x].buf : seen[p] = undo[x].buf[p]
      /\ \A p \in Pks \ DOMAIN undo[x].buf : seen[p] = Snapshot(x)[p]
  BY <1>0, <1>3, OverTable
<1>5. DOMAIN UndoRows(Log(x)) = DOMAIN UndoRows(l)
  BY <1>1, ReadBack DEF Log
<1> HIDE DEF cur, seen, l
<1>6. now = Image(DOMAIN UndoRows(l), seen)
  BY <1>5 DEF CurrentRecords, seen
<1> HIDE DEF now
<1>7. /\ DOMAIN now = {p \in DOMAIN UndoRows(l) \cap Pks : seen[p] # NoRow}
      /\ \A p \in DOMAIN now : now[p] = seen[p]
  BY <1>4, <1>6, ImageRows
<1>8. ASSUME NEW p \in DOMAIN UndoRows(l) \ wild PROVE p \in Pks /\ p \in HeldBy(x) /\ seen[p] = cur[p]
  <2>1. p \in DOMAIN orig[x]
    BY <1>1 DEF LogsWritten, l
  <2>2. Undecided(x)
    BY <1>0 DEF Phases, PhaseOf, Undoing, Undecided
  <2>3. p \in HeldBy(x) /\ p \in Pks
    BY <2>1, <2>2 DEF UndoInv, WritesKept, Kept, HeldBy
  <2> QED BY <1>2, <1>3, <1>4, <2>3
<1>9. ASSUME NEW p \in DOMAIN UndoRows(l) \ wild
      PROVE  /\ p \in Pks /\ p \in HeldBy(x)
             /\ p \in DOMAIN now <=> cur[p] # NoRow
             /\ p \in DOMAIN now => now[p] = cur[p]
  BY <1>7, <1>8
<1>10. DOMAIN now \subseteq DOMAIN UndoRows(l)
  BY <1>7
<1> QED BY <1>1, <1>2, <1>9, <1>10 DEF l, cur, now

\* A log that is passed over changed nothing of the row that Undo would see.
LEMMA StopsRight ==
  ASSUME UndoInv, LogsSound, Undos, LogsWritten, NEW x \in Xids, Protected(x), Undoing(x), undo[x].i > 0,
         dataValidationAndGoOn(x, Log(x)) = "stop", NEW p \in Pks \ wild, NEW a \in Nat, NEW b \in Nat,
         Turns(undoLog[x][undo[x].i], p, a, b), Converted(b) = Converted(Over(undo[x].buf, table)[p])
  PROVE  Converted(a) = Converted(Over(undo[x].buf, table)[p])
<1> DEFINE l == undoLog[x][undo[x].i]
           d == Log(x)
           cur == Over(undo[x].buf, table)
           now == CurrentRecords(x, Log(x))
<1>1. /\ l \in UndoItems /\ cur \in [Pks -> Nat]
      /\ p \in DOMAIN UndoRows(l) => /\ p \in DOMAIN now <=> cur[p] # NoRow
                                     /\ p \in DOMAIN now => now[p] = cur[p]
  BY UndoReads
<1>2. /\ DOMAIN d.before = DOMAIN l.before /\ \A q \in DOMAIN l.before : d.before[q] = Converted(l.before[q])
      /\ DOMAIN d.after = DOMAIN l.after /\ \A q \in DOMAIN l.after : d.after[q] = Converted(l.after[q])
  BY <1>1, ReadBack DEF Log
<1>3. d.before = d.after \/ now = d.before
  BY DEF dataValidationAndGoOn
<1>4. /\ \A v \in Nat : Converted(Converted(v)) = Converted(v)
      /\ NoRow \in Nat /\ Converted(NoRow) = NoRow
  BY ToTheSecond DEF NoRow
<1> HIDE DEF l, d, cur, now
<1>5. CASE p \notin DOMAIN UndoRows(l)
  BY <1>5 DEF Turns, l, cur
<1>6. CASE p \in DOMAIN UndoRows(l)
  <2>1. Shows(l.before, p, a) /\ Shows(l.after, p, b) /\ Converted(b) = Converted(cur[p])
    BY <1>6 DEF Turns, l, cur
  <2>2. CASE d.before = d.after
    <3>1. Converted(a) = Converted(b)
      BY <1>2, <2>1, <2>2 DEF Shows
    <3> QED BY <2>1, <3>1 DEF cur
  <2>3. CASE now = d.before
    <3>1. CASE p \in DOMAIN l.before
      <4>1. now[p] = cur[p] /\ d.before[p] = Converted(a)
        BY <1>1, <1>2, <1>6, <2>1, <2>3, <3>1 DEF Shows
      <4>2. cur[p] = Converted(a)
        BY <2>3, <4>1
      <4> QED BY <1>4, <4>2 DEF cur
    <3>2. CASE p \notin DOMAIN l.before
      <4>1. a = NoRow
        BY <2>1, <3>2 DEF Shows
      <4>2. cur[p] = NoRow
        BY <1>1, <1>2, <1>6, <2>3, <3>2
      <4> QED BY <4>1, <4>2 DEF cur
    <3> QED BY <3>1, <3>2
  <2> QED BY <1>3, <2>2, <2>3
<1> QED BY <1>5, <1>6

\* The undo statements of a log put the row back to what it held before it.
LEMMA UndoesRight ==
  ASSUME NEW l \in UndoItems, NEW S, Sound(l, S), NEW t \in [Pks -> Nat], NEW p \in Pks, NEW a \in Nat, NEW b \in Nat,
         Turns(l, p, a, b), Converted(b) = Converted(t[p])
  PROVE  LET sql == BuildUndoSql(DecodeSqlUndoLog(l), t) IN
         IF p \in DOMAIN sql THEN Converted(a) = Converted(sql[p]) ELSE Converted(a) = Converted(t[p])
<1> DEFINE sql == BuildUndoSql(DecodeSqlUndoLog(l), t)
<1>1. /\ DOMAIN sql = DOMAIN UndoRows(l)
      /\ \A q \in DOMAIN UndoRows(l) :
              /\ l.op = "insert" => sql[q] = NoRow
              /\ l.op = "delete" => q \in DOMAIN l.before /\ sql[q] = Converted(l.before[q])
              /\ l.op = "update" => /\ q \in DOMAIN l.before
                                    /\ sql[q] = IF t[q] = NoRow THEN NoRow ELSE Converted(l.before[q])
  BY UndoSqlValues
<1>2. l.op \in {"insert", "update", "delete"}
  BY DEF UndoItems
<1> HIDE DEF sql
<1>3. CASE p \notin DOMAIN UndoRows(l)
  BY <1>1, <1>3 DEF Turns, sql
<1>4. CASE p \in DOMAIN UndoRows(l)
  <2>1. Shows(l.before, p, a) /\ (l.op = "update" => b # NoRow)
    BY <1>4 DEF Turns
  <2>2. CASE l.op = "insert"
    <3>1. a = NoRow
      BY <2>1, <2>2, ImageShape DEF Sound, Shows
    <3>2. sql[p] = NoRow
      BY <1>1, <1>4, <2>2
    <3> QED BY <1>1, <1>4, <3>1, <3>2 DEF sql
  <2>3. CASE l.op = "delete" \/ l.op = "update"
    <3>1. p \in DOMAIN l.before /\ l.before[p] = a
      BY <1>1, <1>4, <2>1, <2>3 DEF Shows
    <3>2. l.op = "update" => t[p] # NoRow
      <4>1. t[p] \in Nat
        OBVIOUS
      <4> QED BY <2>1, <4>1, ToTheSecond
    <3>3. sql[p] = Converted(a)
      BY <1>1, <1>4, <2>3, <3>1, <3>2
    <3>4. Converted(sql[p]) = Converted(a)
      BY <3>3, ToTheSecond
    <3> QED BY <1>1, <1>4, <3>4 DEF sql
  <2> QED BY <1>2, <2>2, <2>3
<1> QED BY <1>3, <1>4

\* The steps of its rollback, and what its committed logs tell.
LEMMA OwnUndo ==
  ASSUME UndoInv, LogsSound, Undos, LogsWritten, Next, NEW x \in Xids, Protected(x), Undecided(x)', undo'[x].pc # "release",
         GlobalCommit(x) \/ DeleteUndoLogByXID(x) \/ GlobalRollback(x) \/ Undo(x), NEW p \in Pks \ wild',
         Committed(x, p)
  PROVE  Committed(x, p)'
<1>0. /\ UndoTypeOK /\ Phases /\ undoLog[x] \in Seq(UndoItems) /\ table \in [Pks -> Nat] /\ DOMAIN None = {}
      /\ p \in Pks \ wild /\ undo[x].buf \in Images /\ undo[x].i \in Nat
  BY ImageShape, WildGrows DEF UndoInv, UndoTypeOK
<1>1. ~UndoCommit(x)
  <2>1. ASSUME UndoCommit(x) PROVE undo'[x] = [NoUndo EXCEPT !.pc = "release", !.keys = ExecutedKeys(x)]
    BY <1>0, <2>1 DEF UndoCommit, UndoTypeOK
  <2>2. UndoCommit(x) => undo'[x].pc = "release"
    BY <2>1 DEF NoUndo
  <2> QED BY <2>2
<1> DEFINE cur == Over(undo[x].buf, table)
<1>2. PICK h \in [0..Len(undoLog[x]) -> Nat] :
        /\ Follows(undoLog[x], p, h)
        /\ h[0] = FirstHeld(x, p) /\ h[Len(undoLog[x])] = table[p]
        /\ Undoing(x) => Converted(h[undo[x].i]) = Converted(cur[p])
  BY DEF Committed
<1>3. orig' = orig
  BY <1>0, UndoFrame
<1>4. ASSUME UNCHANGED <<table, undoLog>>,
             Undoing(x)' => Converted(h[undo'[x].i]) = Converted(Over(undo'[x].buf, table)[p])
      PROVE  Committed(x, p)'
  <2>1. FirstHeld(x, p)' = FirstHeld(x, p)
    BY <1>3, <1>4 DEF FirstHeld
  <2> QED BY <1>2, <1>4, <2>1 DEF Committed
<1>5. ASSUME Undoing(x), undo[x].i > 0
      PROVE  /\ undo[x].i \in 1..Len(undoLog[x]) /\ undoLog[x][undo[x].i] \in UndoItems
             /\ h[undo[x].i - 1] \in Nat /\ h[undo[x].i] \in Nat
             /\ Turns(undoLog[x][undo[x].i], p, h[undo[x].i - 1], h[undo[x].i])
             /\ Converted(h[undo[x].i]) = Converted(cur[p])
  <2>1. undo[x].i \in 1..Len(undoLog[x])
    BY <1>0, <1>5 DEF Phases, PhaseOf, Undoing
  <2>2. undo[x].i - 1 \in 0..Len(undoLog[x]) /\ undo[x].i \in 0..Len(undoLog[x])
    BY <2>1
  <2> QED BY <1>0, <1>2, <1>5, <2>1, <2>2 DEF Follows
<1>6. CASE GlobalRollback(x) /\ UNCHANGED <<undo, table, undoLog>>
  BY <1>2, <1>4, <1>6 DEF Undoing
<1>7. CASE /\ undo'[x].i = Len(undoLog[x]) /\ undo'[x].buf = None /\ UNCHANGED <<table, undoLog>>
  <2>1. Over(None, table)[p] = table[p]
    BY <1>0 DEF Over
  <2> QED BY <1>2, <1>4, <1>7, <2>1
<1>8. CASE undo'[x].pc = "idle" /\ UNCHANGED <<table, undoLog>>
  BY <1>4, <1>8 DEF Undoing
<1>9. CASE ValidateData(x) /\ ~Refused(x) /\ undo[x].pc = "check" /\ UNCHANGED <<table, undoLog>>
  <2>0. Undoing(x) /\ undo[x].i > 0
    BY <1>9 DEF Undoing, ValidateData
  <2>1. /\ \/ undo'[x].i = undo[x].i
           \/ dataValidationAndGoOn(x, Log(x)) = "stop" /\ undo'[x].i = undo[x].i - 1
        /\ undo'[x].buf = undo[x].buf
    BY <1>0, <1>9, ValidateFields
  <2>2. CASE undo'[x].i = undo[x].i
    BY <1>2, <1>4, <1>9, <2>0, <2>1, <2>2
  <2>3. CASE dataValidationAndGoOn(x, Log(x)) = "stop" /\ undo'[x].i = undo[x].i - 1
    <3>1. Converted(h[undo[x].i - 1]) = Converted(cur[p])
      <4> DEFINE a == h[undo[x].i - 1]
                 b == h[undo[x].i]
      <4>1. a \in Nat /\ b \in Nat /\ Turns(undoLog[x][undo[x].i], p, a, b) /\ Converted(b) = Converted(cur[p])
        BY <1>5, <2>0
      <4> HIDE DEF a, b
      <4>2. Converted(a) = Converted(cur[p])
        BY <1>0, <2>0, <2>3, <4>1, StopsRight
      <4> QED BY <4>2 DEF a
    <3> QED BY <1>4, <1>9, <2>1, <2>3, <3>1
  <2> QED BY <2>1, <2>2, <2>3
<1>10. CASE /\ undo[x].pc = "undo" /\ UNCHANGED <<table, undoLog>>
            /\ undo'[x].pc = "check" /\ undo'[x].i = undo[x].i - 1
            /\ undo'[x].buf = Over(BuildUndoSql(Log(x), Over(undo[x].buf, table)), undo[x].buf)
  <2>0. Undoing(x) /\ undo[x].i > 0
    BY <1>0, <1>10 DEF Undoing, Phases, PhaseOf
  <2> DEFINE l == undoLog[x][undo[x].i]
             a == h[undo[x].i - 1]
             b == h[undo[x].i]
             sql == BuildUndoSql(DecodeSqlUndoLog(l), cur)
  <2>1. /\ a \in Nat /\ b \in Nat /\ Turns(l, p, a, b) /\ Converted(b) = Converted(cur[p]) /\ l \in UndoItems
        /\ undo[x].i \in DOMAIN undoLog[x]
    BY <1>0, <1>5, <2>0
  <2>2. Sound(l, wild)
    BY <2>1 DEF LogsSound
  <2>3. /\ cur \in [Pks -> Nat]
        /\ p \in DOMAIN undo[x].buf => cur[p] = undo[x].buf[p]
        /\ p \notin DOMAIN undo[x].buf => cur[p] = table[p]
    BY <1>0, OverTable
  <2>4. undo'[x].buf = Over(sql, undo[x].buf)
    BY <1>10 DEF Log
  <2>p. p \in Pks
    BY <1>0
  <2>u. undo'[x].i = undo[x].i - 1 /\ UNCHANGED <<table, undoLog>>
    BY <1>10
  <2> HIDE DEF l, a, b, cur
  <2>5. IF p \in DOMAIN sql THEN Converted(a) = Converted(sql[p]) ELSE Converted(a) = Converted(cur[p])
    BY ONLY <2>1, <2>2, <2>3, <2>p, UndoesRight DEF sql
  <2> HIDE DEF sql
  <2>6. Over(undo'[x].buf, table)[p] = IF p \in DOMAIN sql THEN sql[p] ELSE cur[p]
    <3>1. /\ DOMAIN undo'[x].buf = DOMAIN sql \cup DOMAIN undo[x].buf
          /\ p \in DOMAIN undo'[x].buf => undo'[x].buf[p] = IF p \in DOMAIN sql THEN sql[p] ELSE undo[x].buf[p]
      BY <2>4 DEF Over
    <3>2. Over(undo'[x].buf, table)[p] = IF p \in DOMAIN undo'[x].buf THEN undo'[x].buf[p] ELSE table[p]
      BY <1>0 DEF Over
    <3> QED BY <2>3, <3>1, <3>2
  <2>7. Converted(a) = Converted(Over(undo'[x].buf, table)[p])
    BY <2>5, <2>6
  <2> QED BY <1>4, <2>u, <2>7 DEF a
<1> HIDE DEF cur
<1> QED BY <1>0, <1>1, <1>6, <1>7, <1>8, <1>9, <1>10, RollbackSteps

\* The logs go on telling what each protected row held.
LEMMA HistoriesNext ==
  ASSUME UndoInv, LogsSound, Undos, LogsWritten, Histories, Next
  PROVE  Histories'
<1>0. UndoTypeOK /\ Phases /\ KeysHeld /\ wild \subseteq wild'
  BY WildGrows DEF UndoInv
<1> SUFFICES ASSUME NEW x \in Xids, Protected(x)', Undecided(x)', undo'[x].pc # "release", NEW p \in Pks \ wild'
             PROVE  Committed(x, p)' /\ Uncommitted(x, p)'
  BY DEF Histories
<1>1. Undecided(x)
  BY <1>0, KeptStays
<1>2. ASSUME NEW y \in Xids, Statement(y) PROVE Committed(x, p)' /\ Uncommitted(x, p)'
  <2>1. /\ undo'[x] = undo[x] /\ Protected(x)
        /\ y # x => sess'[x] = sess[x] /\ undoLog'[x] = undoLog[x] /\ orig'[x] = orig[x]
    BY <1>0, <1>2, StatementFrame DEF Protected
  <2>2. Committed(x, p) /\ Uncommitted(x, p)
    BY <1>0, <1>1, <2>1 DEF Histories
  <2>3. CASE Statement(x)
    BY <2>1, <2>2, <2>3, OwnStatements
  <2>4. CASE ~Statement(x)
    <3>1. ~LocalCommit(x) /\ y # x
      BY <1>2, <2>4 DEF Statement
    <3>2. ~UndoCommit(x)
      <4>1. ASSUME UndoCommit(x) PROVE undo'[x] = [NoUndo EXCEPT !.pc = "release", !.keys = ExecutedKeys(x)]
        BY <1>0, <4>1 DEF UndoCommit, UndoTypeOK
      <4>2. UndoCommit(x) => undo'[x].pc = "release"
        BY <4>1 DEF NoUndo
      <4> QED BY <4>2
    <3> QED BY <1>1, <2>1, <2>2, <2>4, <3>1, <3>2, CommittedStays, UncommittedStays
  <2> QED BY <2>3, <2>4
<1>3. ~UndoCommit(x)
  <2>1. ASSUME UndoCommit(x) PROVE undo'[x] = [NoUndo EXCEPT !.pc = "release", !.keys = ExecutedKeys(x)]
    BY <1>0, <2>1 DEF UndoCommit, UndoTypeOK
  <2>2. UndoCommit(x) => undo'[x].pc = "release"
    BY <2>1 DEF NoUndo
  <2> QED BY <2>2
<1>4. CASE ~\E y \in Xids : Statement(y)
  <2>1. ~Statement(x) /\ ~LocalCommit(x)
    BY <1>4 DEF Statement
  <2>2. UNCHANGED <<sess, orig>>
    <3>1. ASSUME NEW y \in Xids, GlobalCommit(y) \/ DeleteUndoLogByXID(y) \/ GlobalRollback(y) \/ Undo(y)
          PROVE  UNCHANGED <<sess, orig>>
      BY <1>0, <3>1, UndoFrame
    <3> QED BY <1>4, <3>1, WriterFrame DEF Next
  <2>3. Protected(x)
    BY <2>2, SessionStays
  <2>4. CASE GlobalCommit(x) \/ DeleteUndoLogByXID(x) \/ GlobalRollback(x) \/ Undo(x)
    <3>1. undo[x].pc # "release"
      <4>1. CASE undo[x].pc = "release"
        <5>1. ReleaseLockKeys(x) \/ undo' = undo
          BY <2>4, <4>1 DEF Undo, UndoBegin, ValidateData, UndoExecute, UndoFails, UndoCommit,
             GlobalCommit, DeleteUndoLogByXID, GlobalRollback
        <5>2. ~ReleaseLockKeys(x)
          BY <1>0 DEF ReleaseLockKeys, Undecided, UndoTypeOK
        <5> QED BY <4>1, <5>1, <5>2
      <4> QED BY <4>1
    <3>2. Committed(x, p) /\ Uncommitted(x, p)
      BY <1>0, <1>1, <2>3, <3>1 DEF Histories
    <3> QED BY <2>1, <2>2, <2>3, <2>4, <3>2, OwnUndo, UncommittedStays
  <2>5. CASE ~(GlobalCommit(x) \/ DeleteUndoLogByXID(x) \/ GlobalRollback(x) \/ Undo(x))
    <3>1. undoLog'[x] = undoLog[x] /\ undo'[x] = undo[x]
      <4>1. ASSUME NEW y \in Xids, GlobalCommit(y) \/ DeleteUndoLogByXID(y) \/ GlobalRollback(y) \/ Undo(y)
            PROVE  undoLog'[x] = undoLog[x] /\ undo'[x] = undo[x]
        BY <1>0, <2>5, <4>1, UndoFrame
      <4> QED BY <1>4, <4>1, WriterFrame DEF Next
    <3>2. Committed(x, p) /\ Uncommitted(x, p)
      BY <1>0, <1>1, <2>3, <3>1 DEF Histories
    <3> QED BY <1>1, <1>3, <2>1, <2>2, <2>3, <3>1, <3>2, CommittedStays, UncommittedStays
  <2> QED BY <2>4, <2>5
<1> QED BY <1>2, <1>4

---------------------------------------------------------------------------
(* Refusals.                                                                 *)

\* An Undo writes the rows of the logs it has gone back over.
LEMMA UndoneRowsNext ==
  ASSUME UndoInv, UndoneRows, Next
  PROVE  UndoneRows'
<1>0. UndoTypeOK /\ Phases /\ DOMAIN None = {}
  BY ImageShape DEF UndoInv
<1> DEFINE Rows(x) == \A p \in DOMAIN undo[x].buf : \E k \in undo[x].i + 1..Len(undoLog[x]) : p \in DOMAIN UndoRows(undoLog[x][k])
<1> SUFFICES ASSUME NEW x \in Xids, Undoing(x)' PROVE Rows(x)'
  BY DEF UndoneRows
<1>1. ASSUME undo'[x] = undo[x], undoLog'[x] = undoLog[x] PROVE Rows(x)'
  BY <1>1 DEF UndoneRows, Undoing
<1>2. ASSUME NEW y \in Xids, Statement(y) PROVE Rows(x)'
  <2>1. undo' = undo /\ status[y] = "begin" /\ (y # x => undoLog'[x] = undoLog[x])
    BY <1>0, <1>2, StatementFrame
  <2>2. x # y
    BY <1>0, <2>1 DEF Phases, PhaseOf, Undoing
  <2> QED BY <1>1, <2>1, <2>2
<1>3. ASSUME NEW y \in Xids, GlobalCommit(y) \/ DeleteUndoLogByXID(y) \/ GlobalRollback(y) \/ Undo(y) PROVE Rows(x)'
  <2>1. CASE x # y
    BY <1>0, <1>1, <1>3, <2>1, UndoFrame
  <2>2. CASE x = y
    <3>0. Undecided(x)'
      <4>1. Phases'
        BY UndoInvNext DEF UndoInv
      <4> QED BY <4>1 DEF Phases, PhaseOf, Undoing, Undecided
    <3>1. CASE UndoCommit(x)
      <4>1. undo'[x] = [NoUndo EXCEPT !.pc = "release", !.keys = ExecutedKeys(x)]
        BY <1>0, <3>1 DEF UndoCommit, UndoTypeOK
      <4>2. undo'[x].pc = "release"
        BY <4>1 DEF NoUndo
      <4> QED BY <4>2 DEF Undoing
    <3>2. CASE GlobalRollback(x) /\ UNCHANGED <<undo, undoLog>>
      BY <1>1, <3>2
    <3>3. CASE undo'[x].buf = None
      BY <1>0, <3>3
    <3>4. CASE ValidateData(x) /\ ~Refused(x) /\ undo[x].pc = "check" /\ UNCHANGED undoLog
      <4>1. undo'[x].i \in {undo[x].i, undo[x].i - 1} /\ undo'[x].buf = undo[x].buf /\ undo[x].i \in Nat
        BY <1>0, <3>4, ValidateFields DEF UndoTypeOK
      <4>2. Rows(x) /\ undoLog[x] \in Seq(UndoItems)
        BY <1>0, <3>4 DEF UndoneRows, Undoing, UndoTypeOK
      <4>3. \A k \in undo[x].i + 1..Len(undoLog[x]) : k \in undo'[x].i + 1..Len(undoLog[x])
        BY <4>1, <4>2
      <4> QED BY <3>4, <4>1, <4>2, <4>3
    <3>5. CASE /\ undo[x].pc = "undo" /\ UNCHANGED undoLog
               /\ undo'[x].i = undo[x].i - 1
               /\ undo'[x].buf = Over(BuildUndoSql(Log(x), Over(undo[x].buf, table)), undo[x].buf)
      <4>1. Rows(x) /\ undoLog[x] \in Seq(UndoItems) /\ undo[x].i \in 1..Len(undoLog[x])
        BY <1>0, <3>5 DEF UndoneRows, Undoing, UndoTypeOK, Phases, PhaseOf
      <4>2. Log(x) \in UndoItems /\ DOMAIN BuildUndoSql(Log(x), Over(undo[x].buf, table)) = DOMAIN UndoRows(undoLog[x][undo[x].i])
        <5>1. undo[x].i \in DOMAIN undoLog[x] /\ undoLog[x][undo[x].i] \in UndoItems
          BY <4>1
        <5>2. Log(x) \in UndoItems
          BY <1>0, <5>1, LogIsItem
        <5>3. DOMAIN BuildUndoSql(Log(x), Over(undo[x].buf, table)) = DOMAIN UndoRows(undoLog[x][undo[x].i])
          BY <5>1, UndoSqlValues DEF Log
        <5> QED BY <5>2, <5>3
      <4> DEFINE sql == BuildUndoSql(Log(x), Over(undo[x].buf, table))
      <4>3. DOMAIN undo'[x].buf = DOMAIN sql \cup DOMAIN undo[x].buf
        BY <3>5 DEF Over
      <4> HIDE DEF sql
      <4>4. /\ \A k \in undo[x].i + 1..Len(undoLog[x]) : k \in undo'[x].i + 1..Len(undoLog[x])
            /\ undo[x].i \in undo'[x].i + 1..Len(undoLog[x])
        BY <3>5, <4>1
      <4>5. DOMAIN sql = DOMAIN UndoRows(undoLog[x][undo[x].i])
        BY <4>2 DEF sql
      <4> QED BY <3>5, <4>1, <4>3, <4>4, <4>5
    <3> HIDE DEF Rows
    <3> QED BY <1>0, <1>3, <2>2, <3>0, <3>1, <3>2, <3>3, <3>4, <3>5, RollbackSteps
  <2> QED BY <2>1, <2>2
<1>4. ASSUME NEW w \in Writers, CheckGlobalLock(w) \/ Write(w) PROVE Rows(x)'
  BY <1>1, <1>4, WriterFrame
<1> QED BY <1>2, <1>3, <1>4 DEF Next

\* Two images of the same rows that hold the same are the same.
LEMMA SameImage ==
  ASSUME NEW f \in Images, NEW g \in Images, DOMAIN f = DOMAIN g, \A p \in DOMAIN f : f[p] = g[p]
  PROVE  f = g
<1>1. f \in [DOMAIN f -> Nat] /\ g \in [DOMAIN f -> Nat]
  BY ImageShape
<1> QED BY <1>1

\* While no row of a protected transaction has lost its protection, its Undo
\* finds each row as the logs tell it, and is at the last log that changed
\* anything.
LEMMA UndoFinds ==
  ASSUME UndoInv, LogsSound, Undos, UndoneRows, LogsWritten, Histories, NEW x \in Xids, Protected(x),
         Undoing(x), undo[x].i > 0, DOMAIN orig[x] \cap (wild \cup ExecutedKeys(x)) = {}
  PROVE  LET l == undoLog[x][undo[x].i] IN
         /\ \A k \in undo[x].i + 1..Len(undoLog[x]) : UndoRows(undoLog[x][k]) = None
         /\ ~DuplicateKey(Log(x), Over(undo[x].buf, table))
         /\ CurrentRecords(x, Log(x)) = Image(DOMAIN UndoRows(Log(x)), table)
         /\ DOMAIN UndoRows(l) \subseteq DOMAIN orig[x]
         /\ (\A p \in DOMAIN UndoRows(l) : table[p] \notin Micros) => CurrentRecords(x, Log(x)) = Log(x).after
<1> DEFINE i == undo[x].i
           l == undoLog[x][undo[x].i]
           d == Log(x)
           cur == Over(undo[x].buf, table)
           now == CurrentRecords(x, Log(x))
<1>0. /\ UndoTypeOK /\ Phases /\ table \in [Pks -> Nat] /\ undoLog[x] \in Seq(UndoItems) /\ undo[x].buf \in Images
      /\ None \in Images /\ DOMAIN None = {} /\ i \in Nat /\ Undecided(x) /\ undo[x].pc # "release"
  BY ImageShape DEF UndoInv, UndoTypeOK, Undoing, Undecided, Phases, PhaseOf
<1>1. /\ i \in 1..Len(undoLog[x]) /\ i \in DOMAIN undoLog[x] /\ l \in UndoItems /\ cur \in [Pks -> Nat]
      /\ DOMAIN now \subseteq DOMAIN UndoRows(l)
      /\ \A p \in DOMAIN UndoRows(l) \ wild :
              /\ p \in Pks
              /\ p \in DOMAIN now <=> cur[p] # NoRow
              /\ p \in DOMAIN now => now[p] = cur[p]
  BY <1>0, UndoReads
<1>2. ASSUME NEW k \in i + 1..Len(undoLog[x]) PROVE DOMAIN UndoRows(undoLog[x][k]) = {} /\ UndoRows(undoLog[x][k]) \in Images
  <2>1. k \in DOMAIN undoLog[x] /\ undoLog[x][k] \in UndoItems
    BY <1>0
  <2>2. DOMAIN UndoRows(undoLog[x][k]) \subseteq undoLog[x][k].keys \cup wild
    BY <2>1 DEF LogsSound, Sound
  <2>3. undoLog[x][k].keys \subseteq ExecutedKeys(x)
    BY DEF ExecutedKeys
  <2>4. DOMAIN UndoRows(undoLog[x][k]) \subseteq DOMAIN orig[x]
    BY <2>1 DEF LogsWritten
  <2>5. UndoRows(undoLog[x][k]) \in Images
    BY <2>1 DEF UndoRows, UndoItems
  <2> QED BY <2>2, <2>3, <2>4, <2>5
<1>3. \A k \in i + 1..Len(undoLog[x]) : UndoRows(undoLog[x][k]) = None
  BY <1>0, <1>2, SameImage
<1>4. DOMAIN undo[x].buf = {}
  BY <1>2 DEF UndoneRows
<1>5. \A p \in Pks : cur[p] = table[p]
  BY <1>0, <1>4, OverTable
<1>6. DOMAIN UndoRows(l) \subseteq DOMAIN orig[x]
  BY <1>1 DEF LogsWritten
<1>7. Sound(l, wild)
  BY <1>1 DEF LogsSound
<1>8. /\ DOMAIN d.before = DOMAIN l.before /\ d.op = l.op
      /\ DOMAIN d.after = DOMAIN l.after /\ \A q \in DOMAIN l.after : d.after[q] = Converted(l.after[q])
      /\ DOMAIN UndoRows(d) = DOMAIN UndoRows(l) /\ d.after \in Images
  <2>1. d.after \in Images
    BY <1>0, <1>1, LogIsItem DEF UndoItems
  <2> QED BY <1>1, <2>1, ReadBack DEF Log
<1>9. ASSUME NEW p \in DOMAIN UndoRows(l)
      PROVE  \E a, b \in Nat : Turns(l, p, a, b) /\ Converted(b) = Converted(table[p])
  <2>1. p \in Pks \ wild
    BY <1>1, <1>6
  <2>2. PICK h \in [0..Len(undoLog[x]) -> Nat] :
          Follows(undoLog[x], p, h) /\ Converted(h[i]) = Converted(cur[p])
    BY <1>0, <2>1 DEF Histories, Committed
  <2>3. i \in 0..Len(undoLog[x]) /\ i - 1 \in 0..Len(undoLog[x])
    BY <1>1
  <2>4. h[i] \in Nat /\ h[i - 1] \in Nat /\ Turns(l, p, h[i - 1], h[i])
    BY <1>1, <2>2, <2>3 DEF Follows
  <2> QED BY <1>5, <2>1, <2>2, <2>4
<1>n. now \in Images
  <2>1. Over(undo[x].buf, Snapshot(x)) \in [Pks -> Nat]
    <3>1. Snapshot(x) \in [Pks -> Nat]
      BY <1>0 DEF Snapshot, Undos
    <3> QED BY <1>0, <3>1, OverTable
  <2> QED BY <2>1, ImageRows DEF CurrentRecords
<1>d. ~DuplicateKey(d, cur)
  <2> SUFFICES ASSUME d.op = "delete", NEW p \in DOMAIN d.before, cur[p] # NoRow PROVE FALSE
    BY DEF DuplicateKey
  <2>1. p \in DOMAIN UndoRows(l) /\ l.after = None
    BY <1>7, <1>8 DEF UndoRows, Sound
  <2>2. PICK a, b \in Nat : Turns(l, p, a, b) /\ Converted(b) = Converted(table[p])
    BY <1>9, <2>1
  <2>3. b = NoRow
    BY <1>0, <2>1, <2>2 DEF Turns, Shows
  <2>4. p \in Pks /\ table[p] \in Nat
    BY <1>0, <1>1, <1>6, <2>1
  <2>5. table[p] = NoRow
    BY <2>2, <2>3, <2>4, ToTheSecond
  <2> QED BY <1>5, <2>4, <2>5
<1>e. now = Image(DOMAIN UndoRows(d), table)
  <2> DEFINE m == Image(DOMAIN UndoRows(d), table)
  <2>1. m \in Images /\ DOMAIN m = {p \in DOMAIN UndoRows(d) \cap Pks : table[p] # NoRow} /\ \A p \in DOMAIN m : m[p] = table[p]
    <3> DEFINE S == DOMAIN UndoRows(d)
    <3>0. table \in [Pks -> Nat]
      BY <1>0
    <3> HIDE DEF S
    <3>1. /\ Image(S, table) \in Images /\ DOMAIN Image(S, table) = {p \in S \cap Pks : table[p] # NoRow}
          /\ \A p \in DOMAIN Image(S, table) : Image(S, table)[p] = table[p]
      BY ONLY <3>0, ImageRows
    <3> QED BY <3>1 DEF S
  <2>2. \A p \in DOMAIN UndoRows(l) : p \notin wild /\ p \in Pks
    BY <1>1, <1>6
  <2> HIDE DEF now, m, d, cur
  <2>3. DOMAIN now = DOMAIN m /\ \A p \in DOMAIN now : now[p] = m[p]
    BY <1>1, <1>5, <1>8, <2>1, <2>2
  <2>4. now = m
    BY <1>n, <2>1, <2>3, SameImage
  <2> QED BY <2>4 DEF m
<1>f. ASSUME \A p \in DOMAIN UndoRows(l) : table[p] \notin Micros PROVE now = d.after
  <2>0. DOMAIN l.after \subseteq DOMAIN UndoRows(l)
    <3>1. l.op \in {"insert", "update", "delete"}
      BY <1>1 DEF UndoItems
    <3> QED BY <1>0, <1>7, <3>1 DEF Sound, UndoRows
  <2>1. ASSUME NEW p \in DOMAIN UndoRows(l)
        PROVE  (p \in DOMAIN now <=> p \in DOMAIN d.after) /\ (p \in DOMAIN now => now[p] = d.after[p])
    <3>1. PICK a, b \in Nat : Turns(l, p, a, b) /\ Converted(b) = Converted(table[p])
      BY <1>9, <2>1
    <3>2. /\ p \in Pks /\ table[p] \in Nat
          /\ p \in DOMAIN now <=> table[p] # NoRow
          /\ p \in DOMAIN now => now[p] = table[p]
      BY <1>0, <1>1, <1>5, <1>6
    <3>3. Converted(b) = table[p] /\ (b = NoRow <=> table[p] = NoRow)
      BY <1>f, <3>1, <3>2, ToTheSecond
    <3>4. Shows(l.after, p, b)
      BY <3>1 DEF Turns
    <3> HIDE DEF now, d
    <3> QED BY <1>8, <3>2, <3>3, <3>4 DEF Shows
  <2>2. DOMAIN now = DOMAIN d.after
    BY <1>1, <1>8, <2>0, <2>1
  <2> HIDE DEF now, d
  <2>3. \A p \in DOMAIN now : now[p] = d.after[p]
    BY <1>1, <2>1
  <2> QED BY <1>8, <1>n, <2>2, <2>3, SameImage
<1> QED BY <1>3, <1>6, <1>d, <1>e, <1>f

\* A refusal of a protected transaction whose rows kept their protection.
LEMMA RefusalHasCause ==
  ASSUME UndoInv, LogsSound, Undos, UndoneRows, LogsWritten, Histories, NEW x \in Xids, Protected(x),
         ValidateData(x) \/ UndoExecute(x), Refused(x), x \notin dirty,
         DOMAIN orig[x] \cap wild' = {}
  PROVE  /\ \E p \in DOMAIN orig[x] : table[p] \in Micros
         /\ \E j \in DOMAIN undoLog[x] : Refuses(x, j)'
<1> DEFINE i == undo[x].i
           l == undoLog[x][undo[x].i]
           d == Log(x)
           now == CurrentRecords(x, Log(x))
<1>0. /\ UndoTypeOK /\ Phases /\ undoLog[x] \in Seq(UndoItems) /\ i \in Nat /\ Undoing(x) /\ i > 0
      /\ wild' = wild \cup ExecutedKeys(x) /\ UNCHANGED <<table, undoLog>> /\ dirty' # dirty
      /\ undo' = [undo EXCEPT ![x] = NoUndo] /\ DOMAIN undo = Xids
  BY DEF UndoInv, UndoTypeOK, Undoing, Phases, PhaseOf, ValidateData, UndoExecute, Refused, RollBackUndo
<1>1. /\ \A k \in i + 1..Len(undoLog[x]) : UndoRows(undoLog[x][k]) = None
      /\ ~DuplicateKey(d, Over(undo[x].buf, table))
      /\ now = Image(DOMAIN UndoRows(d), table)
      /\ DOMAIN UndoRows(l) \subseteq DOMAIN orig[x]
      /\ (\A p \in DOMAIN UndoRows(l) : table[p] \notin Micros) => now = d.after
  BY <1>0, UndoFinds
<1>2. i \in DOMAIN undoLog[x]
  BY <1>0 DEF Undoing, Phases, PhaseOf
<1>3. ValidateData(x)
  <2>1. ASSUME UndoExecute(x) PROVE FALSE
    BY <1>0, <1>1, <2>1 DEF UndoExecute
  <2> QED BY <2>1
<1>4. dataValidationAndGoOn(x, d) = "dirty"
  BY <1>0, <1>3, ValidateRecord
<1>5. ~(d.before # None /\ d.after = None) /\ d.before # d.after /\ now # d.after /\ now # d.before
  BY <1>4 DEF dataValidationAndGoOn
<1>6. \E p \in DOMAIN orig[x] : table[p] \in Micros
  BY <1>1, <1>5
<1>7. ~Undoing(x)'
  <2>1. undo'[x] = NoUndo
    BY <1>0
  <2> QED BY <2>1 DEF Undoing, NoUndo
<1>8. PICK j \in DOMAIN undoLog[x] : j = i
  BY <1>2
<1>9. Refuses(x, j)'
  <2>1. d = DecodeSqlUndoLog(undoLog[x][j])
    BY <1>8 DEF Log
  <2> HIDE DEF d, now
  <2> QED BY <1>0, <1>1, <1>5, <1>7, <1>8, <2>1 DEF Refuses
<1> QED BY <1>6, <1>9

\* A step of a rollback whose Undo is refused again and again.
LEMMA RefusedAgain ==
  ASSUME UndoInv, Undos, LogsWritten, NEW x \in Xids, Protected(x), Undecided(x)', DOMAIN orig[x] \cap wild = {},
         GlobalCommit(x) \/ DeleteUndoLogByXID(x) \/ GlobalRollback(x) \/ Undo(x),
         NEW j \in DOMAIN undoLog[x], Refuses(x, j)
  PROVE  /\ ~UndoCommit(x)
         /\ Undoing(x)' => undo'[x].i >= j /\ undo'[x].buf = None /\ (undo'[x].pc = "undo" => undo'[x].i > j)
<1>0. /\ UndoTypeOK /\ Phases /\ undoLog[x] \in Seq(UndoItems) /\ undo[x].i \in Nat /\ undo[x].buf \in Images
      /\ j \in 1..Len(undoLog[x]) /\ table \in [Pks -> Nat] /\ None \in Images /\ DOMAIN None = {}
  BY ImageShape DEF UndoInv, UndoTypeOK
<1>1. /\ \A k \in j + 1..Len(undoLog[x]) : UndoRows(undoLog[x][k]) = None
      /\ Undoing(x) => undo[x].i >= j /\ undo[x].buf = None /\ (undo[x].pc = "undo" => undo[x].i > j)
  BY DEF Refuses
<1>2. ~UndoCommit(x)
  BY <1>0, <1>1 DEF UndoCommit, Undoing
<1> DEFINE Good == Undoing(x)' => undo'[x].i >= j /\ undo'[x].buf = None /\ (undo'[x].pc = "undo" => undo'[x].i > j)
<1>3. ASSUME GlobalRollback(x) /\ UNCHANGED undo PROVE Good
  BY <1>1, <1>3 DEF Undoing
<1>4. ASSUME undo'[x].i = Len(undoLog[x]) /\ undo'[x].buf = None /\ undo'[x].pc = "check" PROVE Good
  BY <1>0, <1>4
<1>5. ASSUME undo'[x].pc = "idle" PROVE Good
  BY <1>5 DEF Undoing
<1>6. ASSUME ValidateData(x) /\ ~Refused(x) /\ undo[x].pc = "check" PROVE Good
  <2>1. /\ \/ dataValidationAndGoOn(x, Log(x)) = "goOn" /\ undo'[x].pc = "undo" /\ undo'[x].i = undo[x].i
           \/ dataValidationAndGoOn(x, Log(x)) = "stop" /\ undo'[x].pc = "check" /\ undo'[x].i = undo[x].i - 1
        /\ undo'[x].buf = undo[x].buf
    BY <1>0, <1>6, ValidateFields
  <2>2. Undoing(x) /\ undo[x].i > 0
    BY <1>6 DEF Undoing, ValidateData
  <2>3. undo[x].i # j
    <3> SUFFICES ASSUME undo[x].i = j PROVE FALSE
      OBVIOUS
    <3> DEFINE l == undoLog[x][undo[x].i]
               d == Log(x)
               cur == Over(undo[x].buf, table)
               now == CurrentRecords(x, Log(x))
               m == Image(DOMAIN UndoRows(d), table)
    <3>1. /\ l \in UndoItems
          /\ DOMAIN now \subseteq DOMAIN UndoRows(l)
          /\ \A p \in DOMAIN UndoRows(l) \ wild :
               /\ p \in Pks
               /\ p \in DOMAIN now <=> cur[p] # NoRow
               /\ p \in DOMAIN now => now[p] = cur[p]
      BY <2>2, UndoReads
    <3>2. \A p \in Pks : cur[p] = table[p]
      BY <1>0, <1>1, <2>2 DEF Over
    <3>3. DOMAIN UndoRows(l) \subseteq DOMAIN orig[x] /\ DOMAIN UndoRows(d) = DOMAIN UndoRows(l)
      BY <1>0, <3>1, ReadBack DEF LogsWritten, Log
    <3>4. \A p \in DOMAIN UndoRows(l) : p \notin wild
      BY <3>3
    <3>5. now \in Images
      <4>1. Snapshot(x) \in [Pks -> Nat]
        BY <1>0, <2>2 DEF Snapshot, Undos
      <4>2. Over(undo[x].buf, Snapshot(x)) \in [Pks -> Nat]
        BY <1>0, <4>1, OverTable
      <4> QED BY <4>2, ImageRows DEF CurrentRecords
    <3>6. m \in Images /\ DOMAIN m = {p \in DOMAIN UndoRows(d) \cap Pks : table[p] # NoRow} /\ \A p \in DOMAIN m : m[p] = table[p]
      <4> DEFINE S == DOMAIN UndoRows(d)
      <4>0. table \in [Pks -> Nat]
        BY <1>0
      <4> HIDE DEF S
      <4>1. /\ Image(S, table) \in Images /\ DOMAIN Image(S, table) = {p \in S \cap Pks : table[p] # NoRow}
            /\ \A p \in DOMAIN Image(S, table) : Image(S, table)[p] = table[p]
        BY ONLY <4>0, ImageRows
      <4> QED BY <4>1 DEF S
    <3>7. now = m
      <4> HIDE DEF now, m, d, cur, l
      <4>1. DOMAIN now = DOMAIN m /\ \A p \in DOMAIN now : now[p] = m[p]
        BY <3>1, <3>2, <3>3, <3>4, <3>6
      <4>2. m \in Images
        BY <3>6
      <4> QED BY ONLY <3>5, <4>1, <4>2, SameImage
    <3>8. ~(d.before # None /\ d.after = None) /\ d.before # d.after /\ m # d.after /\ m # d.before
      BY DEF Refuses, Log
    <3>9. dataValidationAndGoOn(x, d) = "dirty"
      BY <3>7, <3>8 DEF dataValidationAndGoOn
    <3> QED BY <2>1, <3>9
  <2> QED BY <1>0, <1>1, <2>1, <2>2, <2>3
<1>7. ASSUME undo[x].pc = "undo", undo'[x].pc = "check", undo'[x].i = undo[x].i - 1,
             undo'[x].buf = Over(BuildUndoSql(Log(x), Over(undo[x].buf, table)), undo[x].buf)
      PROVE  Good
  <2>1. Undoing(x) /\ undo[x].i > j /\ undo[x].buf = None
    BY <1>1, <1>7 DEF Undoing
  <2>2. undo[x].i \in j + 1..Len(undoLog[x]) /\ undo[x].i \in DOMAIN undoLog[x]
    BY <1>0, <1>7, <2>1 DEF Phases, PhaseOf
  <2>3. undoLog[x][undo[x].i] \in UndoItems /\ UndoRows(undoLog[x][undo[x].i]) = None
    BY <1>0, <1>1, <2>2
  <2> DEFINE sql == BuildUndoSql(Log(x), Over(undo[x].buf, table))
  <2>4. sql \in Images /\ DOMAIN sql = {}
    <3>1. Log(x) \in UndoItems
      BY <1>0, <2>2, LogIsItem
    <3>2. DOMAIN UndoRows(Log(x)) = {}
      BY <1>0, <2>3, ReadBack DEF Log
    <3> QED BY <3>1, <3>2, UndoSqlRows
  <2> HIDE DEF sql
  <2>5. Over(sql, None) \in Images /\ DOMAIN Over(sql, None) = {}
    BY <1>0, <2>4, OverRows
  <2>6. undo'[x].buf = None
    <3> DEFINE o == Over(sql, None)
    <3>0. o \in Images /\ None \in Images /\ DOMAIN o = DOMAIN None /\ \A q \in DOMAIN o : o[q] = None[q]
      BY <1>0, <2>5
    <3> HIDE DEF o
    <3>1. o = None
      BY ONLY <3>0, SameImage
    <3> QED BY <1>7, <2>1, <3>1 DEF sql, o
  <2>7. undo[x].i - 1 >= j
    BY <1>0, <2>1
  <2> QED BY <1>7, <2>6, <2>7
<1> HIDE DEF Good
<1>8. Good
  BY <1>0, <1>2, <1>3, <1>4, <1>5, <1>6, <1>7, RollbackSteps DEF Good
<1> QED BY <1>2, <1>8 DEF Good

\* An image shows only its rows.
LEMMA ImageOf ==
  ASSUME NEW S, NEW t, NEW u, \A p \in S \cap Pks : t[p] = u[p]
  PROVE  Image(S, t) = Image(S, u)
<1>1. {q \in S \cap Pks : t[q] # NoRow} = {q \in S \cap Pks : u[q] # NoRow}
  OBVIOUS
<1> QED BY <1>1 DEF Image

\* Only an Undo that is refused makes a transaction a refused one.
LEMMA WhoIsRefused ==
  ASSUME Next, NEW x, x \in dirty', x \notin dirty
  PROVE  x \in Xids /\ (ValidateData(x) \/ UndoExecute(x)) /\ Refused(x)
<1>1. ASSUME NEW y \in Xids, Statement(y) PROVE FALSE
  BY <1>1 DEF Statement, PreHandle, Execute, QueryAfterImage, RegisterBranch, InsertUndoLog, Select,
              LocalCommit, LocalRollback
<1>2. ASSUME NEW y \in Xids, GlobalCommit(y) \/ DeleteUndoLogByXID(y) \/ GlobalRollback(y) \/ Undo(y)
      PROVE  x = y /\ (ValidateData(y) \/ UndoExecute(y)) /\ Refused(y)
  <2>1. CASE ValidateData(y)
    <3>1. dirty' = dirty \/ Refused(y)
      BY <2>1, ValidateRecord
    <3> QED BY <2>1, <3>1 DEF Refused
  <2>2. CASE UndoExecute(y)
    BY <2>2 DEF UndoExecute, Refused
  <2> QED BY <1>2, <2>1, <2>2 DEF GlobalCommit, DeleteUndoLogByXID, GlobalRollback, Undo, UndoBegin, UndoFails,
             UndoCommit, ReleaseLockKeys
<1>3. ASSUME NEW w \in Writers, CheckGlobalLock(w) \/ Write(w) PROVE FALSE
  BY <1>3 DEF CheckGlobalLock, Write
<1> QED BY <1>1, <1>2, <1>3 DEF Next

\* Scripts stay, and what was written first does not change.
LEMMA HistoryStays ==
  ASSUME UndoTypeOK, Phases, Next, NEW x \in Xids
  PROVE  /\ Protected(x)' = Protected(x) /\ DOMAIN orig[x] \subseteq DOMAIN orig'[x]
         /\ ~Statement(x) => orig'[x] = orig[x]
<1>1. ASSUME NEW y \in Xids, Statement(y)
      PROVE  /\ Protected(x)' = Protected(x) /\ DOMAIN orig[x] \subseteq DOMAIN orig'[x]
             /\ ~Statement(x) => orig'[x] = orig[x]
  <2>1. /\ sess'[x].script = sess[x].script
        /\ x # y => orig'[x] = orig[x]
    BY <1>1, StatementFrame
  <2>2. CASE LocalCommit(x)
    <3>1. orig'[x] = Over(orig[x], Restrict(table, DOMAIN sess[x].buf))
      BY <2>2 DEF LocalCommit, UndoTypeOK
    <3>2. DOMAIN orig[x] \subseteq DOMAIN orig'[x]
      BY <3>1 DEF Over
    <3> QED BY <2>1, <2>2, <3>2 DEF Protected, Statement
  <2>3. CASE ~LocalCommit(x) /\ x = y
    <3>1. orig' = orig
      BY <1>1, <2>3 DEF Statement, PreHandle, Execute, QueryAfterImage, RegisterBranch, InsertUndoLog, Select,
                        LocalRollback
    <3> QED BY <2>1, <3>1 DEF Protected
  <2> QED BY <2>1, <2>2, <2>3 DEF Protected
<1>2. ASSUME NEW y \in Xids, GlobalCommit(y) \/ DeleteUndoLogByXID(y) \/ GlobalRollback(y) \/ Undo(y)
      PROVE  UNCHANGED <<sess, orig>>
  BY <1>2, UndoFrame
<1>3. CASE UNCHANGED <<sess, orig>>
  BY <1>3, SessionStays
<1> QED BY <1>1, <1>2, <1>3, WriterFrame DEF Next

\* A refused transaction whose rows kept their protection stored a fraction of
\* a second, and stays refused: nobody else changes its rows.
LEMMA StuckNext ==
  ASSUME UndoInv, LogsSound, Undos, UndoneRows, LogsWritten, Histories, Stuck, Next
  PROVE  Stuck'
<1>0. /\ UndoTypeOK /\ Phases /\ KeysHeld /\ WritesKept /\ wild \subseteq wild' /\ dirty \subseteq Xids
      /\ status \in [Xids -> {"begin", "committing", "committed", "rollbacking", "rollbacked"}]
      /\ undo \in [Xids -> [pc : {"idle", "check", "undo", "release"}, i : Nat, buf : Images, snap : Images, keys : SUBSET Pks]]
  BY WildGrows DEF UndoInv, UndoTypeOK, Stuck
<1>1. dirty' \subseteq Xids
  BY <1>0, WhoIsRefused
<1> SUFFICES ASSUME NEW x \in Xids, x \in dirty', Protected(x)', DOMAIN orig'[x] \cap wild' = {}
             PROVE  /\ status'[x] = "rollbacking" /\ undo'[x].pc # "release"
                    /\ \E p \in DOMAIN orig'[x] : table'[p] \in Micros
                    /\ \E j \in DOMAIN undoLog'[x] : Refuses(x, j)'
  BY <1>1 DEF Stuck
<1>2. /\ Protected(x) /\ DOMAIN orig[x] \subseteq DOMAIN orig'[x] /\ (~Statement(x) => orig'[x] = orig[x])
      /\ DOMAIN orig[x] \cap wild' = {} /\ DOMAIN orig[x] \cap wild = {}
  BY <1>0, HistoryStays
<1>3. CASE x \notin dirty
  <2>1. (ValidateData(x) \/ UndoExecute(x)) /\ Refused(x)
    BY <1>3, WhoIsRefused
  <2>2. /\ \E p \in DOMAIN orig[x] : table[p] \in Micros
        /\ \E j \in DOMAIN undoLog[x] : Refuses(x, j)'
    BY <1>2, <1>3, <2>1, RefusalHasCause
  <2>3. /\ UNCHANGED <<table, undoLog, status, orig>> /\ undo[x].pc \in {"check", "undo"}
        /\ undo' = [undo EXCEPT ![x] = NoUndo]
    BY <2>1 DEF ValidateData, UndoExecute, Refused, RollBackUndo
  <2>4. undo'[x].pc = "idle"
    BY <1>0, <2>3 DEF NoUndo
  <2>5. status[x] = "rollbacking"
    BY <1>0, <2>3 DEF Phases, PhaseOf
  <2> QED BY <2>2, <2>3, <2>4, <2>5
<1>4. CASE x \in dirty
  <2>1. status[x] = "rollbacking" /\ undo[x].pc # "release"
    BY <1>2, <1>4 DEF Stuck
  <2>2. PICK q \in DOMAIN orig[x] : table[q] \in Micros
    BY <1>2, <1>4 DEF Stuck
  <2>3. PICK j \in DOMAIN undoLog[x] : Refuses(x, j)
    BY <1>2, <1>4 DEF Stuck
  <2> DEFINE l == DecodeSqlUndoLog(undoLog[x][j])
             Going == Undoing(x) => undo[x].i >= j /\ undo[x].buf = None /\ (undo[x].pc = "undo" => undo[x].i > j)
  <2>4. /\ \A k \in j + 1..Len(undoLog[x]) : UndoRows(undoLog[x][k]) = None
        /\ Going
        /\ ~(l.before # None /\ l.after = None) /\ l.before # l.after
        /\ Image(DOMAIN UndoRows(l), table) # l.after /\ Image(DOMAIN UndoRows(l), table) # l.before
    BY <2>3 DEF Refuses
  <2>5. ~Statement(x) /\ ~LocalCommit(x) /\ ~UndoCommit(x) /\ orig'[x] = orig[x]
    <3>1. ~Statement(x)
      BY <1>0, <2>1, StatementFrame
    <3>2. j \in Nat /\ j > 0 /\ undo[x].i \in Nat
      BY <1>0 DEF UndoTypeOK
    <3>3. ~UndoCommit(x)
      <4>1. UndoCommit(x) => undo[x].pc = "check" /\ undo[x].i = 0
        BY DEF UndoCommit
      <4> QED BY <2>4, <3>2, <4>1 DEF Undoing
    <3> QED BY <1>2, <3>1, <3>3 DEF Statement
  <2>6. \A p \in DOMAIN orig[x] : table'[p] = table[p]
    <3> SUFFICES ASSUME NEW p \in DOMAIN orig[x] PROVE table'[p] = table[p]
      OBVIOUS
    <3>1. p \in HeldBy(x) \ wild'
      BY <1>0, <1>2, <2>1 DEF WritesKept, Kept, Undecided
    <3> QED BY <2>5, <3>1, TableMoves
  <2>7. undoLog'[x] = undoLog[x] /\ status'[x] = "rollbacking" /\ undo'[x].pc # "release" /\ Going'
    <3>1. CASE GlobalCommit(x) \/ DeleteUndoLogByXID(x) \/ GlobalRollback(x) \/ Undo(x)
      <4>1. Undo(x) /\ ~ReleaseLockKeys(x)
        BY <2>1, <3>1 DEF GlobalCommit, DeleteUndoLogByXID, GlobalRollback, ReleaseLockKeys
      <4>2. UNCHANGED status
        BY <2>5, <4>1 DEF Undo, UndoBegin, ValidateData, UndoExecute, UndoFails
      <4>3. Undecided(x)' /\ Undecided(x)
        BY <2>1, <4>2 DEF Undecided
      <4>4. Going'
        BY <1>2, <2>3, <3>1, <4>3, RefusedAgain
      <4>5. UNCHANGED undoLog /\ undo'[x].pc # "release"
        <5>1. ValidateData(x) /\ ~Refused(x) => undo'[x].pc # "release"
          BY <1>0, ValidateFields
        <5>2. GlobalRollback(x) => FALSE
          BY <2>1 DEF GlobalRollback
        <5> QED BY <1>0, <2>5, <3>1, <4>3, <5>1, <5>2, RollbackSteps
      <4> QED BY <2>1, <4>2, <4>4, <4>5
    <3>2. CASE ~(GlobalCommit(x) \/ DeleteUndoLogByXID(x) \/ GlobalRollback(x) \/ Undo(x))
      <4>1. undoLog'[x] = undoLog[x] /\ undo'[x] = undo[x] /\ status'[x] = status[x]
        <5>1. ASSUME NEW y \in Xids, GlobalCommit(y) \/ DeleteUndoLogByXID(y) \/ GlobalRollback(y) \/ Undo(y)
              PROVE  undoLog'[x] = undoLog[x] /\ undo'[x] = undo[x] /\ status'[x] = status[x]
          BY <1>0, <3>2, <5>1, UndoFrame
        <5>2. ASSUME NEW y \in Xids, Statement(y)
              PROVE  undoLog'[x] = undoLog[x] /\ undo'[x] = undo[x] /\ status'[x] = status[x]
          BY <1>0, <2>5, <5>2, StatementFrame
        <5> QED BY <5>1, <5>2, WriterFrame DEF Next
      <4> QED BY <2>1, <2>4, <4>1 DEF Undoing
    <3> QED BY <3>1, <3>2
  <2>8. Image(DOMAIN UndoRows(l), table') = Image(DOMAIN UndoRows(l), table)
    <3>1. undoLog[x][j] \in UndoItems
      BY <1>0 DEF UndoTypeOK
    <3>2. DOMAIN UndoRows(l) \subseteq DOMAIN orig[x]
      BY <1>2, <3>1, ReadBack DEF LogsWritten
    <3>3. \A p \in DOMAIN UndoRows(l) \cap Pks : table'[p] = table[p]
      BY <2>6, <3>2
    <3> DEFINE S == DOMAIN UndoRows(l)
    <3> HIDE DEF S
    <3>4. ASSUME NEW u, \A p \in S \cap Pks : u[p] = table[p] PROVE Image(S, u) = Image(S, table)
      BY <3>4, ImageOf
    <3> QED BY <3>3, <3>4 DEF S
  <2>9. Refuses(x, j)'
    <3>1. l' = l
      BY <2>7
    <3> HIDE DEF l
    <3>2. /\ \A k \in j + 1..Len(undoLog'[x]) : UndoRows(undoLog'[x][k]) = None
          /\ Going'
          /\ ~(l'.before # None /\ l'.after = None) /\ l'.before # l'.after
          /\ Image(DOMAIN UndoRows(l'), table') # l'.after /\ Image(DOMAIN UndoRows(l'), table') # l'.before
      BY <2>4, <2>7, <2>8, <3>1
    <3> QED BY <3>2 DEF Refuses, l
  <2> QED BY <2>2, <2>5, <2>6, <2>7, <2>9
<1> QED BY <1>3, <1>4

---------------------------------------------------------------------------
(* Rollbacks.                                                                *)

\* The Undo that is committed has gone back to what the transaction found, and
\* its rows stay so until their lock keys are released.
LEMMA RestoredNext ==
  ASSUME UndoInv, LogsSound, Undos, LogsWritten, Histories, RollbackRestores, Next
  PROVE  RollbackRestores'
<1>0. /\ UndoTypeOK /\ Phases /\ WritesKept /\ wild \subseteq wild' /\ orig \in [Xids -> Images] /\ table \in [Pks -> Nat]
      /\ undo \in [Xids -> [pc : {"idle", "check", "undo", "release"}, i : Nat, buf : Images, snap : Images, keys : SUBSET Pks]]
  BY WildGrows DEF UndoInv, UndoTypeOK
<1> SUFFICES ASSUME NEW x \in Xids, undo'[x].pc = "release", Protected(x)', NEW p \in DOMAIN orig'[x] \ wild'
             PROVE  Converted(table'[p]) = Converted(orig'[x][p])
  BY DEF RollbackRestores
<1>1. Undecided(x) /\ status[x] = "rollbacking" /\ (undo[x].pc = "release" \/ UndoCommit(x))
  <2>1. Phases'
    BY UndoInvNext DEF UndoInv
  <2>2. status'[x] = "rollbacking" /\ Undecided(x)'
    BY <2>1 DEF Phases, PhaseOf, Undecided
  <2>3. ASSUME NEW y \in Xids, Statement(y) PROVE undo'[x] = undo[x]
    BY <1>0, <2>3, StatementFrame
  <2>4. ASSUME NEW y \in Xids, GlobalCommit(y) \/ DeleteUndoLogByXID(y) \/ GlobalRollback(y) \/ Undo(y)
        PROVE  undo'[x] = undo[x] \/ UndoCommit(x)
    <3>1. CASE x # y
      BY <1>0, <2>4, <3>1, UndoFrame
    <3>2. CASE x = y
      <4>1. ValidateData(x) /\ ~Refused(x) => undo'[x].pc # "release"
        BY <1>0, ValidateFields
      <4> QED BY <1>0, <2>2, <2>4, <3>2, <4>1, RollbackSteps
    <3> QED BY <3>1, <3>2
  <2>5. undo[x].pc = "release" \/ UndoCommit(x)
    BY <2>3, <2>4, WriterFrame DEF Next
  <2>6. status[x] = "rollbacking"
    BY <1>0, <2>5 DEF Phases, PhaseOf, UndoCommit
  <2> QED BY <2>5, <2>6 DEF Undecided
<1>2. Protected(x) /\ orig'[x] = orig[x] /\ ~LocalCommit(x)
  <2>1. ~Statement(x)
    BY <1>0, <1>1, StatementFrame
  <2> QED BY <1>0, <2>1, HistoryStays DEF Statement
<1>3. p \in DOMAIN orig[x] \ wild /\ p \in HeldBy(x) \ wild' /\ p \in Pks
  <2>1. p \in DOMAIN orig[x] \ wild
    BY <1>0, <1>2
  <2>2. p \in Pks
    BY <1>0, <2>1, ImageShape
  <2> QED BY <1>0, <1>1, <2>1, <2>2 DEF WritesKept, Kept
<1>4. CASE undo[x].pc = "release"
  <2>1. ~UndoCommit(x)
    BY <1>4 DEF UndoCommit
  <2>2. table'[p] = table[p]
    BY <1>2, <1>3, <2>1, TableMoves
  <2> QED BY <1>2, <1>3, <1>4, <2>2 DEF RollbackRestores
<1>5. CASE UndoCommit(x)
  <2>1. undo[x].pc = "check" /\ undo[x].i = 0 /\ table' = Over(undo[x].buf, table)
    BY <1>5 DEF UndoCommit
  <2>2. Committed(x, p)
    BY <1>1, <1>2, <1>3, <2>1 DEF Histories
  <2>3. PICK h \in [0..Len(undoLog[x]) -> Nat] :
          h[0] = FirstHeld(x, p) /\ Converted(h[undo[x].i]) = Converted(Over(undo[x].buf, table)[p])
    BY <2>1, <2>2 DEF Committed, Undoing
  <2>4. FirstHeld(x, p) = orig[x][p]
    BY <1>3 DEF FirstHeld
  <2> QED BY <1>2, <2>1, <2>3, <2>4
<1> QED BY <1>1, <1>4, <1>5

\* The inductive invariant of rollbacks.
RollbackInv == /\ UndoInv /\ LogsSound /\ Undos /\ UndoneRows /\ LogsWritten /\ Histories /\ Stuck
               /\ RollbackRestores

\* At first there is nothing to undo.
LEMMA InitRollbackInv == Init => RollbackInv
<1> SUFFICES ASSUME Init PROVE RollbackInv
  OBVIOUS
<1>1. UndoInv /\ None \in Images /\ DOMAIN None = {} /\ table \in [Pks -> Nat] /\ dirty = {}
  BY InitUndoInv, ImageShape DEF UndoInv, UndoTypeOK, Init
<1>2. ASSUME NEW x \in Xids
      PROVE  /\ undoLog[x] = <<>> /\ undo[x].pc = "idle" /\ undo[x].buf = None /\ orig[x] = None
             /\ sess[x].pc = "stmt" /\ sess[x].logs = <<>> /\ sess[x].buf = None
  BY DEF Init, NewSession, NoUndo
<1>3. LogsSound /\ Undos /\ UndoneRows /\ LogsWritten /\ Stuck /\ RollbackRestores
  BY <1>1, <1>2 DEF LogsSound, Undos, UndoneRows, LogsWritten, Stuck, RollbackRestores, Undoing
<1>4. Histories
  <2> SUFFICES ASSUME NEW x \in Xids, NEW p \in Pks PROVE Committed(x, p) /\ Uncommitted(x, p)
    BY DEF Histories
  <2>1. table[p] \in Nat /\ FirstHeld(x, p) = table[p] /\ View(x)[p] = table[p]
    BY <1>1, <1>2 DEF FirstHeld, View, Over
  <2>2. HeldBefore(x, p, table[p])
    BY <1>2, <2>1 DEF HeldBefore
  <2> DEFINE v == table[p]
  <2>3. v \in Nat
    BY <2>1
  <2> HIDE DEF v
  <2>4. PICK h \in [0..Len(<<>>) -> Nat] : Follows(<<>>, p, h) /\ h[0] = v /\ h[Len(<<>>)] = v
    BY ONLY <2>3, NoLogs
  <2>5. Committed(x, p)
    BY <1>2, <2>1, <2>4 DEF Committed, Undoing, v
  <2>6. Uncommitted(x, p)
    BY <1>2, <2>2, <2>4 DEF Uncommitted, v
  <2> QED BY <2>5, <2>6
<1> QED BY <1>1, <1>3, <1>4 DEF RollbackInv

\* What is said of a state is said of it when nothing happens.
LEMMA RollbackInvStays == RollbackInv /\ UNCHANGED vars => RollbackInv'
<1> SUFFICES ASSUME RollbackInv, UNCHANGED vars PROVE RollbackInv'
  OBVIOUS
<1>1. UNCHANGED <<table, rowLock, glock, undoLog, sess, writer, status, undo, orig, wild, dirty>>
  BY DEF vars
<1>2. UndoInv'
  BY UndoInvNext DEF RollbackInv
<1>3. \A x : /\ UNCHANGED <<Tx(x), Stmt(x), LockKeys(x), BuildUndoItem(x), HeldBy(x), Kept(x), Undecided(x), Undoing(x), View(x)>>
             /\ Protected(x)' = Protected(x)
  BY <1>1 DEF Tx, Stmt, LockKeys, BuildUndoItem, HeldBy, Kept, Undecided, Undoing, View, Protected
<1>4. LogsSound' /\ Undos' /\ UndoneRows' /\ LogsWritten' /\ RollbackRestores'
  BY <1>1, <1>3 DEF RollbackInv, LogsSound, Undos, UndoneRows, LogsWritten, RollbackRestores
<1>5. Stuck'
  <2>1. \A x, j : Refuses(x, j)' = Refuses(x, j)
    BY <1>1, <1>3 DEF Refuses
  <2> QED BY <1>1, <1>3, <2>1 DEF RollbackInv, Stuck
<1>6. Histories'
  <2>1. \A x, p : Committed(x, p)' = Committed(x, p)
    BY <1>1, <1>3 DEF Committed, FirstHeld
  <2>2. \A x, p, a : HeldBefore(x, p, a)' = HeldBefore(x, p, a)
    <3> TAKE x, p, a
    <3> DEFINE i == BuildUndoItem(x)
               s == Stmt(x)
               v == View(x)
    <3>1. i' = i /\ s' = s /\ v' = v /\ sess' = sess
      BY <1>1, <1>3
    <3>2. Turns(i, p, a, v[p])' = Turns(i, p, a, v[p])
      BY <3>1 DEF Turns, Shows, UndoRows
    <3>3. InsertedKeys(s)' = InsertedKeys(s)
      BY <3>1 DEF InsertedKeys, Field
    <3> HIDE DEF i, s, v
    <3> QED BY <3>1, <3>2, <3>3 DEF HeldBefore, i, s, v
  <2>3. \A x, p : Uncommitted(x, p)' = Uncommitted(x, p)
    BY <1>1, <2>2 DEF Uncommitted
  <2> QED BY <1>1, <1>3, <2>1, <2>3 DEF RollbackInv, Histories
<1> QED BY <1>2, <1>4, <1>5, <1>6 DEF RollbackInv

\* The invariant of rollbacks is inductive.
LEMMA RollbackInvNext == RollbackInv /\ [Next]_vars => RollbackInv'
<1>1. ASSUME RollbackInv, Next PROVE RollbackInv'
  <2>1. UndoInv'
    BY <1>1, UndoInvNext DEF RollbackInv
  <2>2. LogsSound' /\ Undos' /\ UndoneRows' /\ LogsWritten'
    BY <1>1, LogsSoundNext, UndosNext, UndoneRowsNext, LogsWrittenNext DEF RollbackInv
  <2>3. Histories' /\ Stuck' /\ RollbackRestores'
    BY <1>1, HistoriesNext, StuckNext, RestoredNext DEF RollbackInv
  <2> QED BY <2>1, <2>2, <2>3 DEF RollbackInv
<1> QED BY <1>1, RollbackInvStays

\* A committed Undo (dt/mysql_undo_log_manager.go) has put back each row that
\* the transaction wrote, nobody wrote without images and locks and no after
\* image shows as it was in an older snapshot: it holds what it held before the
\* transaction's first write, times to the second.
THEOREM RollbacksRestore == Spec => []RollbackRestores
<1>1. RollbackInv => RollbackRestores
  BY DEF RollbackInv
<1> QED BY InitRollbackInv, RollbackInvNext, <1>1, PTL DEF Spec

\* dataValidationAndGoOn (dt/mysql_undo_executor.go) refuses the Undo of a
\* transaction only where a row it wrote lost its protection, was read for an
\* after image from a snapshot older than the row, or holds a time with a
\* fraction of a second.
THEOREM RefusalsHaveCause == Spec => []RefusedForCause
<1>1. RollbackInv => RefusedForCause
  BY DEF RollbackInv, Stuck, RefusedForCause
<1> QED BY InitRollbackInv, RollbackInvNext, <1>1, PTL DEF Spec
=============================================================================

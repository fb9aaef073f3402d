----------------------------- MODULE LockProofs -----------------------------
(***************************************************************************)
(* Global locks, for any number of global transactions, branches and rows: *)
(* a locked row has a branch that can release it (LockInv), a write that   *)
(* may be rolled back is locked, and phase two unlocks only the rows of    *)
(* its own global transaction (SteadyInv).  Both rest on PInv, and on      *)
(* Apart: Undo releases the rows of all branches in its database.          *)
(***************************************************************************)
EXTENDS DecisionProofs

\* Every branch of a global transaction is in a database of its own.  A row
\* key begins with the name of its database, so no two of them name one row.
Apart ==
  \A b, c \in Branch : b # c /\ XidOf[b] = XidOf[c] =>
    /\ RowsOf[b] \cap RowsOf[c] = {}
    /\ AT(b) /\ AT(c) => ResOf[b] # ResOf[c]

\* A locked row has a branch of its owner that is not deleted, or was given
\* up and is listed as dead.
Owned ==
  \A r \in Row, x \in XID : rowKey[r] = x =>
    \E b \in BranchesOf(x) : r \in RowsOf[b] /\ (Exists(b) \/ b \in deadKey)

\* A registration asks for all the rows of its branch to be free: its global
\* transaction cannot hold one of them already.
Asking ==
  \A b \in Branch : thread[b].pc = "filterRowKeys"
    => thread[b].keep \cup thread[b].rows = RowsOf[b]

\* The lk/ keys of an undecided transaction name every row it has locked,
\* until its commit takes them over; from then on it locks nothing new, and
\* once the rows are deleted it holds none.
Recorded ==
  \A x \in XID :
    /\ gs[x] = "Begin" => \A r \in Row : rowKey[r] = x =>
         \/ <<x, r>> \in lockKey
         \/ thread[x].pc = "releaseRows" /\ r \in thread[x].rows
    /\ thread[x].to = "Committing" => \A r \in Row : <<x, r>> \notin lockKey
    /\ \/ gs[x] = "Committing"
       \/ thread[x].to = "Committing" /\ thread[x].pc # "releaseRows"
       => \A r \in Row : rowKey[r] # x

\* The lk/ keys the branch worker is about to delete are of no more use.
Spent ==
  \A x \in XID, r \in Row : <<x, r>> \in thread[BQ].lks =>
    /\ rowKey[r] # x
    /\ \A b \in BranchesOf(x) : r \in RowsOf[b] => bs[b] # "Unborn"

\* A rolled back branch is deleted after all its rows are unlocked.
Discharged ==
  /\ thread[BQ].pc # "release" => thread[BQ].rows = {}
  /\ bw.pc = "release" => bw.rows = RowsOf[bw.b]
  /\ bw.pc = "delete" /\ bw.st = "PhaseTwoRollbacking" =>
       \A r \in RowsOf[bw.b] \ thread[BQ].rows : rowKey[r] # XidOf[bw.b]

\* Only TCC branches report a failed phase one, and what is dead is deleted.
Reported ==
  /\ \A b \in Branch : bs[b] = "PhaseOneFailed" \/ thread[b].pc = "put" => ~AT(b)
  /\ \A b \in deadKey : bs[b] = "Gone"

LockInv == Owned /\ Asking /\ Recorded /\ Spent /\ Discharged /\ Reported

\* Who locks and unlocks rows.
LEMMA LockMoves ==
  ASSUME Patient, TypeOK, CallShape, Shape, Calls, [TMNext]_tmVars
  PROVE  \/ UNCHANGED <<rowKey, lockKey>>
         \/ \E b \in Branch : BranchRegistered(b)
         \/ \E x \in XID : ClientCommit(x) /\ GlobalCommit(x, x)
         \/ \E x \in XID : Driver(x) /\ ReleaseRows(x)
         \/ \E r \in Row : Driver(BQ) /\ ReleaseRow(BQ, r)
         \/ Driver(BQ) /\ ReleaseTxn(BQ)
<1> DEFINE Goal == \/ UNCHANGED <<rowKey, lockKey>>
                   \/ \E b \in Branch : BranchRegistered(b)
                   \/ \E x \in XID : ClientCommit(x) /\ GlobalCommit(x, x)
                   \/ \E x \in XID : Driver(x) /\ ReleaseRows(x)
                   \/ \E r \in Row : Driver(BQ) /\ ReleaseRow(BQ, r)
                   \/ Driver(BQ) /\ ReleaseTxn(BQ)
<1> SUFFICES Goal
  OBVIOUS
<1>1. ASSUME NEW b \in Branch, PhaseOne(b) PROVE Goal
  BY <1>1 DEF PhaseOne, BranchStart, BranchRegister, AddBranchSession,
     InsertUndoLog, LocalCommit, LocalAbort, TryFails, BranchReport, vars
<1>2. ASSUME NEW x \in XID, Client(x) PROVE Goal
  BY <1>2 DEF Client, ClientEnds, GlobalBegin, AddGlobalSession, ClientCommit,
     ClientRollback, GlobalRollback, ClientVanishes, Tick, vars
<1>3. CASE Timeout
  BY <1>3 DEF Timeout, TimeoutRollback, GlobalRollback, TimeoutRequeue, TimeoutKeys,
     TimeoutDelete, DeleteGlobalSession, vars
<1>4. CASE PhaseTwoWork
  BY <1>4 DEF PhaseTwoWork, BranchCommit, BranchRollback, PhaseTwoFails, ReleaseUndone,
     UndoAnswerLost, BranchRelease, BranchDelete, DeadUnlock, DeadBranch,
     ReleaseLockKeys, DeleteBranchSession, SetBranchSessionDead, vars
<1>5. CASE Recovery
  BY <1>5 DEF Recovery, Elect, RecoverRollback, GlobalRollback, RecoverKeys, RecoverDelete,
     DeleteGlobalSession, RecoverBranches, RecoverBranch, WatchBranchSessions, vars
<1>6. ASSUME NEW t \in Thread, Driver(t) PROVE Goal
  <2>1. Request(t) /\ CallOf(t, thread[t])
    BY <1>6 DEF Driver, Calls
  <2>2. CASE ReleaseRows(t)
    <3>1. t \in XID
      BY <2>1, <2>2, ThreadAssumption DEF ReleaseRows, CallOf
    <3> QED BY <1>6, <2>2, <3>1
  <2>3. CASE ReleaseTxn(t) \/ \E r \in Row : ReleaseRow(t, r)
    <3>1. t = BQ
      BY <2>1, <2>3, ThreadAssumption DEF ReleaseTxn, ReleaseRow, CallOf, DecisionPc
    <3> QED BY <1>6, <2>3, <3>1
  <2> QED
    BY <2>1, <2>2, <2>3 DEF Request, FilterRowKey, CommitGetGlobal, GetBranchSessionKeys,
       MarkBranchSession, ReportPut, ReportDelete, Unindex
<1>7. ASSUME NEW t \in Thread, Decide(t) PROVE Goal
  BY <1>7 DEF Decide, DecideTxn
<1>8. CASE Crash \/ ListDeadBranchSession \/ WatchBreaks \/ UNCHANGED tmVars
  BY <1>8 DEF Crash, CallsFail, ListDeadBranchSession, WatchBreaks, tmVars, vars
<1>9. ASSUME NEW x \in XID, NextGlobalSession(x) PROVE Goal
  BY <1>9 DEF NextGlobalSession, vars
<1>10. ASSUME NEW i \in queue, NextBranchSession(i) PROVE Goal
  BY <1>10 DEF NextBranchSession, vars
<1>11. ASSUME NEW t \in Thread, DriverFails(t) PROVE Goal
  BY <1>11 DEF DriverFails, Patient
<1>12. CASE DeletePanics
  BY <1>12 DEF DeletePanics, Patient
<1> QED
  BY <1>1, <1>2, <1>3, <1>4, <1>5, <1>6, <1>7, <1>8, <1>9, <1>10, <1>11, <1>12
  DEF TMNext

\* A registration of branch b locks the rows it asked for.
LEMMA Locks ==
  ASSUME TypeOK, CallShape, Shape, Calls, Turns, PhaseOneOK, NEW b \in Branch, BranchRegistered(b)
  PROVE  /\ thread[b].pc = "filterRowKeys" /\ thread[b].b = b /\ thread[b].rows = {}
         /\ bs[b] = "Unborn" /\ client[XidOf[b]] = "active" /\ gs[XidOf[b]] = "Begin"
         /\ \/ UNCHANGED <<rowKey, lockKey, bs>>
            \/ /\ bs'[b] = "Registered"
               /\ \A r \in Row : rowKey'[r] = IF r \in thread[b].keep THEN XidOf[b] ELSE rowKey[r]
               /\ \A r \in thread[b].keep : rowKey[r] = None
               /\ lockKey' = lockKey \cup ({XidOf[b]} \X thread[b].keep)
<1> USE Goroutines
<1>1. /\ thread[b].pc = "filterRowKeys" /\ thread[b].rows = {}
      /\ AddBranchTxn(b)
  BY DEF BranchRegistered, AddBranchTxn
<1>2. thread[b].b = b /\ bs[b] = "Unborn" /\ client[XidOf[b]] = "active" /\ gs[XidOf[b]] = "Begin"
  BY <1>1, BusyBranch DEF PhaseOneOK
<1> QED
  BY <1>1, <1>2 DEF AddBranchTxn, Comparisons, LockOps, TypeOK

\* Branch b of x is registered and locks row r.
Takes(b, x, r) ==
  /\ BranchRegistered(b) /\ XidOf[b] = x /\ r \in thread[b].keep
  /\ thread[b].pc = "filterRowKeys" /\ thread[b].rows = {}
  /\ bs[b] = "Unborn" /\ bs'[b] = "Registered" /\ <<x, r>> \in lockKey'
  /\ client[x] = "active" /\ gs[x] = "Begin"

\* A row is newly locked only by a registration.
LEMMA NewLock ==
  ASSUME Patient, TypeOK, CallShape, Shape, PInv, [TMNext]_tmVars, NEW r \in Row, NEW x \in XID,
         rowKey'[r] = x, rowKey[r] # x
  PROVE  \E b \in Branch : Takes(b, x, r)
<1> USE NoneAssumption
<1>1. PICK b \in Branch : BranchRegistered(b)
  <2>1. ASSUME NEW y \in XID, ReleaseRows(y) PROVE FALSE
    BY <2>1 DEF ReleaseRows, TypeOK
  <2>2. ASSUME NEW q \in Row, ReleaseRow(BQ, q) PROVE FALSE
    BY <2>2 DEF ReleaseRow, TypeOK
  <2>3. ASSUME NEW y \in XID, GlobalCommit(y, y) PROVE FALSE
    BY <2>3 DEF GlobalCommit
  <2> QED BY <2>1, <2>2, <2>3, LockMoves DEF PInv, ReleaseTxn
<1> QED
  BY <1>1, Locks DEF PInv, Takes

\* A branch that was registered stays so, and none is registered twice.
LEMMA BornStays ==
  ASSUME TypeOK, SessionStep, NEW b \in Branch, bs[b] # "Unborn"
  PROVE  bs'[b] # "Unborn"
<1> USE DEF TypeOK
<1>1. ASSUME NEW c \in Branch, \/ Born(c) \/ Failed(c) \/ Dropped(c) \/ Unindexed(c)
                               \/ Ended(c) \/ GivenUp(c) PROVE bs'[b] # "Unborn"
  BY <1>1 DEF Born, Failed, Dropped, Unindexed, Ended, GivenUp
<1>2. ASSUME NEW y \in XID, NEW to \in {"Committing", "Rollbacking"},
             Opened(y) \/ Forgotten(y) \/ Settled(y, to) PROVE bs'[b] # "Unborn"
  BY <1>2 DEF Opened, Forgotten, Settled, PhaseTwo
<1>3. CASE UNCHANGED <<gs, bs, branchKey>>
  BY <1>3
<1> QED
  BY <1>1, <1>2, <1>3 DEF SessionStep

\* The owner of a row has begun, and its branch with that row is registered.
LEMMA OwnerIsBorn ==
  ASSUME Apart, PInv, Owned, Reported, NEW r \in Row, NEW x \in XID, rowKey[r] = x,
         NEW b \in BranchesOf(x), r \in RowsOf[b]
  PROVE  bs[b] # "Unborn" /\ gs[x] # "Unborn" /\ (Exists(b) \/ b \in deadKey)
<1>1. PICK c \in BranchesOf(x) : r \in RowsOf[c] /\ (Exists(c) \/ c \in deadKey)
  BY DEF Owned
<1>2. c = b
  BY <1>1 DEF Apart, BranchesOf
<1>3. bs[b] # "Unborn"
  BY <1>1, <1>2 DEF Exists, Reported
<1> QED
  BY <1>1, <1>2, <1>3 DEF PInv, Statuses, Allowed, BranchesOf

\* The list of the dead branches only grows.
LEMMA DeadStay ==
  ASSUME Patient, Shape, [TMNext]_tmVars, TypeOK
  PROVE  /\ deadKey \subseteq deadKey'
         /\ \A b \in deadKey' \ deadKey : bs'[b] = "Gone"
<1>1. [Next]_vars
  BY StoreStep
<1>2. ASSUME NEW b \in Branch, SetBranchSessionDead(b)
      PROVE  /\ deadKey \subseteq deadKey'
             /\ \A c \in deadKey' \ deadKey : bs'[c] = "Gone"
  BY <1>2 DEF SetBranchSessionDead, TypeOK
<1>3. CASE UNCHANGED deadKey
  BY <1>3
<1> QED
  BY <1>1, <1>2, <1>3 DEF Next, AddGlobalSession, DeleteGlobalSession, CallsFail,
     Request, FilterRowKey, ReleaseRow, ReleaseRows, CommitGetGlobal,
     GetBranchSessionKeys, MarkBranchSession, ReportPut, ReportDelete, Unindex,
     ReleaseTxn, AddBranchTxn, DecideTxn, GlobalCommit, GlobalRollback,
     AddBranchSession, BranchReport, DeleteBranchSession, ReleaseLockKeys, vars

\* A branch is deleted when its rows are free, or is listed as dead.
LEMMA OwnedNext ==
  ASSUME Patient, TypeOK, CallShape, Shape, PInv, LockInv, SessionStep, [TMNext]_tmVars
  PROVE  Owned'
<1> SUFFICES ASSUME NEW r \in Row, NEW x \in XID, rowKey'[r] = x
             PROVE  \E b \in BranchesOf(x) : r \in RowsOf[b] /\ (Exists(b)' \/ b \in deadKey')
  BY DEF Owned, Exists, BranchesOf
<1>1. CASE rowKey[r] # x
  <2>1. PICK b \in Branch : Takes(b, x, r)
    BY <1>1, NewLock
  <2>2. r \in RowsOf[b]
    BY <2>1 DEF Takes, LockInv, Asking
  <2> QED BY <2>1, <2>2 DEF Takes, BranchesOf, Exists
<1>2. CASE rowKey[r] = x
  <2>1. PICK b \in BranchesOf(x) : r \in RowsOf[b] /\ (Exists(b) \/ b \in deadKey)
    BY <1>2 DEF LockInv, Owned
  <2>2. b \in Branch /\ XidOf[b] = x
    BY DEF BranchesOf
  <2>3. CASE b \in deadKey
    BY <2>1, <2>3, DeadStay
  <2>4. CASE Exists(b)
    <3> USE DEF TypeOK, Exists
    <3>1. ASSUME NEW c \in Branch, Dropped(c) PROVE Exists(b)'
      BY <2>1, <2>2, <2>4, <3>1 DEF Dropped, LockInv, Reported, AT
    <3>2. ASSUME NEW c \in Branch, Ended(c) PROVE Exists(b)'
      <4>1. CASE c = b
        <5>1. /\ bw.pc = "delete" /\ bw.b = b /\ bs[b] = bw.st /\ thread[BQ].rows = {}
              /\ bw.st \in {"PhaseTwoCommitting", "PhaseTwoRollbacking"}
          BY <3>2, <4>1, IdleFields DEF Ended
        <5>2. CASE bw.st = "PhaseTwoRollbacking"
          BY <1>2, <2>1, <2>2, <5>1, <5>2 DEF LockInv, Discharged
        <5>3. CASE bw.st = "PhaseTwoCommitting"
          <6>1. gs[x] = "Committing"
            BY <2>2, <5>1, <5>3 DEF PInv, Statuses, Allowed
          <6> QED BY <1>2, <6>1 DEF LockInv, Recorded
        <5> QED BY <5>1, <5>2, <5>3
      <4> QED BY <2>2, <2>4, <3>2, <4>1 DEF Ended
    <3>3. ASSUME NEW c \in Branch, GivenUp(c) PROVE Exists(b)' \/ b \in deadKey'
      BY <2>2, <2>4, <3>3 DEF GivenUp
    <3>4. ASSUME NEW c \in Branch, Born(c) \/ Failed(c) \/ Unindexed(c) PROVE Exists(b)'
      BY <2>2, <2>4, <3>4 DEF Born, Failed, Unindexed
    <3>5. ASSUME NEW y \in XID, NEW to \in {"Committing", "Rollbacking"},
                 Opened(y) \/ Forgotten(y) \/ Settled(y, to) PROVE Exists(b)'
      BY <2>2, <2>4, <3>5 DEF Opened, Forgotten, Settled, PhaseTwo
    <3>6. UNCHANGED <<gs, bs, branchKey>> => Exists(b)'
      BY <2>4
    <3> QED BY <2>1, <2>4, <3>1, <3>2, <3>3, <3>4, <3>5, <3>6 DEF SessionStep
  <2> QED BY <2>1, <2>3, <2>4
<1> QED
  BY <1>1, <1>2

\* A registration finds none of its rows locked by its own transaction.
LEMMA AskingNext ==
  ASSUME Patient, Apart, TypeOK, CallShape, Shape, PInv, LockInv, SessionStep, [TMNext]_tmVars
  PROVE  Asking'
<1> SUFFICES ASSUME NEW b \in Branch, thread'[b].pc = "filterRowKeys"
             PROVE  thread'[b].keep \cup thread'[b].rows = RowsOf[b]
  BY DEF Asking
<1> USE Goroutines
<1>0. thread'[b] # Idle
  BY IdleFields
<1>1. CASE thread'[b] = thread[b]
  BY <1>1 DEF LockInv, Asking
<1>2. CASE Driver(b)
  <2>1. PICK r \in Row : FilterRowKey(b, r)
    <3>1. Request(b)
      BY <1>2 DEF Driver
    <3>2. thread[b].pc = "filterRowKeys"
      BY <1>0, <1>2, RequestEffect DEF Driver, Reports, Looks, Collects, GoesOn
    <3> QED
      BY <3>1, <3>2 DEF Request, ReleaseRow, ReleaseRows, CommitGetGlobal,
         GetBranchSessionKeys, MarkBranchSession, ReportPut, ReportDelete, Unindex, ReleaseTxn
  <2>2. thread[b].pc = "filterRowKeys" /\ r \in thread[b].rows
    BY <2>1 DEF FilterRowKey
  <2>3. /\ thread[b].b = b /\ bs[b] = "Unborn"
        /\ thread[b].keep \cup thread[b].rows = RowsOf[b]
    BY <2>2 DEF PInv, Calls, CallOf, PhaseOneOK, LockInv, Asking
  <2>4. rowKey[r] # XidOf[b]
    BY <2>2, <2>3, OwnerIsBorn, XidOfAssumption DEF LockInv, BranchesOf
  <2>5. /\ thread'[b].rows = thread[b].rows \ {r}
        /\ thread'[b].keep = thread[b].keep \cup {r}
    BY <2>1, <2>3, <2>4 DEF FilterRowKey, TypeOK, Call
  <2> QED BY <2>2, <2>3, <2>5
<1>3. CASE Starts(b)
  <2>1. AddBranchSession(b, b)
    <3>1. AddBranchSession(b, b) \/ BranchReport(b, b)
      BY <1>3, Kinds DEF Starts
    <3> QED BY <3>1, StartEffect DEF Begins
  <2> QED BY <2>1 DEF AddBranchSession, Idle, TypeOK
<1> QED
  BY <1>0, <1>1, <1>2, <1>3, ThreadMoves

\* The requests of a commit of x.
LEMMA CommitMoves ==
  ASSUME Patient, TypeOK, CallShape, Shape, PInv, [TMNext]_tmVars, NEW x \in XID,
         thread'[x].to = "Committing"
  PROVE  \/ thread'[x] = thread[x]
         \/ client[x] = "active" /\ thread[x] = Idle /\ GlobalCommit(x, x)
         \/ ReleaseRows(x)
         \/ /\ thread[x].to = "Committing" /\ thread[x].pc # "releaseRows"
            /\ thread'[x].pc # "releaseRows"
            /\ UNCHANGED <<rowKey, lockKey>>
<1> USE Goroutines, Kinds
<1>0. thread'[x] # Idle
  BY DEF Idle
<1>1. CASE Driver(x)
  <2>1. /\ Request(x) /\ CallOf(x, thread[x]) /\ Only(x)
        /\ Reports(x) \/ Looks(x) \/ Collects(x)
    BY <1>1, RequestEffect DEF Driver, PInv, Calls
  <2>2. thread[x].pc \in {"idle"} \cup DecisionPc
    BY <2>1 DEF CallOf
  <2>3. CASE thread[x].pc = "releaseRows"
    BY <2>1, <2>3 DEF Request, FilterRowKey, ReleaseRow, CommitGetGlobal, GetBranchSessionKeys,
       MarkBranchSession, ReportPut, ReportDelete, Unindex, ReleaseTxn
  <2>4. CASE thread[x].pc # "releaseRows"
    <3>1. thread[x].to = "Committing" /\ thread'[x].pc # "releaseRows"
      BY <1>0, <2>1, <2>2, <2>4 DEF Reports, Looks, Collects, GoesOn, DecisionPc
    <3>2. UNCHANGED <<rowKey, lockKey>>
      BY <2>1, <2>2, <2>4 DEF Request, FilterRowKey, ReleaseRow, ReleaseRows, CommitGetGlobal,
         GetBranchSessionKeys, MarkBranchSession, ReportPut, ReportDelete, Unindex,
         ReleaseTxn, DecisionPc
    <3> QED BY <2>4, <3>1, <3>2
  <2> QED BY <2>3, <2>4
<1>2. CASE Starts(x)
  <2>1. ClientEnds(x) /\ (GlobalCommit(x, x) \/ GlobalRollback(x, x))
    BY <1>2 DEF Starts
  <2>2. client[x] = "active" /\ thread[x] = Idle
    BY <2>1 DEF ClientEnds, ClientCommit, ClientRollback, ClientVanishes, GlobalCommit,
       GlobalRollback
  <2> QED BY <2>1, <2>2, StartEffect
<1> QED
  BY <1>0, <1>1, <1>2, ThreadMoves

\* A commit that is in progress at its first request after the lk/ keys.
LEMMA ReleaseGoesOn ==
  ASSUME Patient, TypeOK, CallShape, Shape, PInv, [TMNext]_tmVars, NEW x \in XID,
         thread[x].pc = "releaseRows"
  PROVE  thread'[x] = thread[x] \/ ReleaseRows(x)
<1> USE Goroutines, Kinds
<1>1. thread[x] # Idle /\ thread[x].to = "Committing"
  BY IdleFields DEF PInv, Calls, CallOf
<1>2. ASSUME Driver(x) PROVE ReleaseRows(x)
  BY <1>2 DEF Driver, Request, FilterRowKey, ReleaseRow, CommitGetGlobal, GetBranchSessionKeys,
       MarkBranchSession, ReportPut, ReportDelete, Unindex, ReleaseTxn
<1>3. ~Decide(x)
  BY DecideEffect DEF Decide
<1>4. ~Starts(x)
  BY <1>1 DEF Starts, GlobalCommit, GlobalRollback
<1> QED
  BY <1>1, <1>2, <1>3, <1>4, ThreadMoves, ThreadStops

\* The lk/ keys of an undecided transaction are complete, and its commit
\* releases what they name.
LEMMA RecordedNext ==
  ASSUME Patient, Apart, TypeOK, CallShape, Shape, PInv, LockInv, SessionStep, [TMNext]_tmVars
  PROVE  Recorded'
<1> SUFFICES ASSUME NEW x \in XID, NEW r \in Row
             PROVE  /\ gs'[x] = "Begin" /\ rowKey'[r] = x
                         => \/ <<x, r>> \in lockKey'
                            \/ thread'[x].pc = "releaseRows" /\ r \in thread'[x].rows
                    /\ thread'[x].to = "Committing" => <<x, r>> \notin lockKey'
                    /\ \/ gs'[x] = "Committing"
                       \/ thread'[x].to = "Committing" /\ thread'[x].pc # "releaseRows"
                       => rowKey'[r] # x
  BY DEF Recorded
<1> USE Goroutines, Kinds
<1>i. /\ gs[x] = "Begin" /\ rowKey[r] = x
           => \/ <<x, r>> \in lockKey
              \/ thread[x].pc = "releaseRows" /\ r \in thread[x].rows
      /\ thread[x].to = "Committing" => <<x, r>> \notin lockKey
      /\ \/ gs[x] = "Committing"
         \/ thread[x].to = "Committing" /\ thread[x].pc # "releaseRows"
         => rowKey[r] # x
  BY DEF LockInv, Recorded
<1>t. thread[x] # Idle => client[x] = "done"
  BY DEF PInv, Turns
<1>b. ASSUME NEW b \in Branch, BranchRegistered(b)
      PROVE  thread'[x] = thread[x] /\ UNCHANGED gs
  BY <1>b, RegisterEffect DEF BranchRegistered, Only
<1>d. Idle.to = "Begin" /\ Idle.pc = "idle"
  BY DEF Idle
<1>c. ASSUME GlobalCommit(x, x)
      PROVE  /\ <<x, r>> \notin lockKey'
             /\ <<x, r>> \in lockKey => thread'[x].pc = "releaseRows" /\ r \in thread'[x].rows
  BY <1>c DEF GlobalCommit, Idle, TypeOK
<1>s. ASSUME gs'[x] = "Begin", rowKey[r] = x PROVE gs[x] = "Begin"
  <2>1. gs[x] # "Unborn"
    <3>1. PICK b \in BranchesOf(x) : r \in RowsOf[b]
      BY <1>s DEF LockInv, Owned
    <3> QED BY <1>s, <3>1, OwnerIsBorn DEF LockInv
  <2>2. ASSUME NEW t \in Thread, Decide(t), thread[t].x = x PROVE FALSE
    <3>1. gs'[x] = thread[t].to /\ thread[t].pc = "getBranches"
      BY <2>2, DecideEffect DEF Decide, TypeOK
    <3> QED BY <1>s, <3>1 DEF PInv, Calls, CallOf, DecisionPc
  <2> QED BY <1>s, <2>1, <2>2, StatusMoves
<1>1. ASSUME gs'[x] = "Begin", rowKey'[r] = x
      PROVE  \/ <<x, r>> \in lockKey'
             \/ thread'[x].pc = "releaseRows" /\ r \in thread'[x].rows
  <2>1. CASE rowKey[r] # x
    BY <1>1, <2>1, NewLock DEF Takes
  <2>2. CASE rowKey[r] = x /\ <<x, r>> \in lockKey
    <3>1. ASSUME NEW y \in XID, y # x, GlobalCommit(y, y) PROVE <<x, r>> \in lockKey'
      BY <2>2, <3>1 DEF GlobalCommit
    <3>2. ASSUME NEW b \in Branch, BranchRegistered(b) PROVE <<x, r>> \in lockKey'
      BY <2>2, <3>2, Locks DEF PInv
    <3>3. ASSUME ReleaseTxn(BQ) PROVE <<x, r>> \in lockKey'
      BY <2>2, <3>3 DEF ReleaseTxn, LockInv, Spent
    <3>4. ASSUME NEW y \in XID, ReleaseRows(y) PROVE <<x, r>> \in lockKey'
      BY <2>2, <3>4 DEF ReleaseRows
    <3>5. ASSUME NEW q \in Row, ReleaseRow(BQ, q) PROVE <<x, r>> \in lockKey'
      BY <2>2, <3>5 DEF ReleaseRow
    <3> QED BY <1>c, <2>2, <3>1, <3>2, <3>3, <3>4, <3>5, LockMoves DEF PInv
  <2>3. CASE rowKey[r] = x /\ thread[x].pc = "releaseRows" /\ r \in thread[x].rows
    <3>1. ~ReleaseRows(x)
      BY <1>1, <2>3, NoneAssumption DEF ReleaseRows
    <3> QED BY <2>3, <3>1, ReleaseGoesOn
  <2> QED BY <1>i, <1>s, <1>1, <2>1, <2>2, <2>3
<1>2. ASSUME thread'[x].to = "Committing" PROVE <<x, r>> \notin lockKey'
  <2>1. CASE GlobalCommit(x, x)
    BY <1>c, <2>1
  <2>2. CASE ~GlobalCommit(x, x)
    <3>1. thread[x].to = "Committing" /\ <<x, r>> \notin lockKey
      <4>1. ReleaseRows(x) => thread[x].to = "Committing"
        BY DEF ReleaseRows, PInv, Calls, CallOf
      <4> QED BY <1>i, <1>2, <2>2, <4>1, CommitMoves
    <3>2. ASSUME NEW b \in Branch, BranchRegistered(b) PROVE <<x, r>> \notin lockKey'
      <4>1. client[XidOf[b]] = "active" /\ (lockKey' = lockKey \/
              lockKey' = lockKey \cup ({XidOf[b]} \X thread[b].keep))
        BY <3>2, Locks DEF PInv
      <4>2. XidOf[b] # x
        BY <1>t, <1>d, <3>1, <4>1
      <4> QED BY <3>1, <4>1, <4>2
    <3>3. CASE UNCHANGED lockKey
      BY <3>1, <3>3
    <3> QED
      BY <3>1, <3>2, <3>3, LockMoves DEF PInv, GlobalCommit, ReleaseTxn, ReleaseRows, ReleaseRow
  <2> QED BY <2>1, <2>2
<1>3. ASSUME rowKey'[r] = x,
             \/ gs'[x] = "Committing"
             \/ thread'[x].to = "Committing" /\ thread'[x].pc # "releaseRows"
      PROVE  FALSE
  <2>1. rowKey[r] = x
    <3> SUFFICES ASSUME rowKey[r] # x PROVE FALSE
      OBVIOUS
    <3>1. PICK b \in Branch : Takes(b, x, r)
      BY <1>3, NewLock
    <3>2. thread[x] = Idle /\ thread'[x] = thread[x] /\ gs'[x] = "Begin"
      BY <1>t, <1>b, <3>1 DEF Takes
    <3> QED BY <1>d, <1>3, <3>2
  <2>2. CASE gs'[x] = "Committing"
    <3>1. PICK t \in Thread : Decide(t) /\ thread[t].x = x
      <4>1. GlobalBegin(x) => gs'[x] = "Begin"
        BY DEF GlobalBegin, AddGlobalSession, TypeOK
      <4> QED BY <1>i, <2>1, <2>2, <4>1, StatusMoves
    <3>2. gs'[x] = thread[t].to /\ thread[t].pc = "getBranches"
      BY <3>1, DecideEffect DEF Decide, TypeOK
    <3>3. t = x
      BY <2>2, <3>1, <3>2, Deciding DEF PInv, DecisionPc, Calls, CallOf
    <3> QED BY <1>i, <2>1, <2>2, <3>2, <3>3
  <2>3. CASE thread'[x].to = "Committing" /\ thread'[x].pc # "releaseRows"
    <3>1. CASE client[x] = "active" /\ thread[x] = Idle /\ GlobalCommit(x, x)
      BY <1>c, <1>d, <1>i, <2>1, <2>3, <3>1 DEF PInv, Turns
    <3>2. CASE ReleaseRows(x)
      <4>1. thread[x].pc = "releaseRows" /\ r \notin thread[x].rows
        BY <1>3, <3>2, NoneAssumption DEF ReleaseRows
      <4>2. thread[x].to = "Committing" /\ gs[x] = "Begin"
        BY <4>1, Deciding DEF PInv, Calls, CallOf, Turns, DecisionPc
      <4> QED BY <1>i, <2>1, <4>1, <4>2
    <3> QED BY <1>i, <2>1, <2>3, <3>1, <3>2, CommitMoves
  <2> QED BY <1>3, <2>2, <2>3
<1> QED
  BY <1>1, <1>2, <1>3

\* The branch worker unlocks rows one by one and remembers whose they were.
LEMMA WorkerReleases ==
  ASSUME TypeOK, Calls, Driver(BQ)
  PROVE  \/ \E r \in Row : ReleaseRow(BQ, r)
         \/ thread'[BQ] = Idle /\ thread[BQ].rows = {}
         \/ thread'[BQ] = Idle /\ thread[BQ].pc = "unindex"
<1>1. Request(BQ) /\ thread[BQ].pc \in {"idle", "unindex", "release"} /\ BQ \in Thread
  BY Goroutines DEF Driver, Calls, CallOf
<1> QED
  BY <1>1 DEF Request, FilterRowKey, ReleaseRows, CommitGetGlobal, GetBranchSessionKeys,
     MarkBranchSession, ReportPut, ReportDelete, Unindex, ReleaseTxn, Return, TypeOK

\* A call of the branch worker starts with nothing to delete from lk/.
LEMMA WorkerStarts ==
  ASSUME TypeOK
  PROVE  /\ DeleteBranchSession(BQ, bw.b)
              => thread'[BQ].lks = {} /\ thread'[BQ].rows = {} /\ thread'[BQ].pc = "unindex"
         /\ \A rows : ReleaseLockKeys(BQ, rows)
              => thread'[BQ].lks = {} /\ thread'[BQ].rows = rows /\ thread'[BQ].pc = "release"
<1>1. thread \in [Thread -> Call] /\ BQ \in Thread
  BY Goroutines DEF TypeOK
<1>2. DeleteBranchSession(BQ, bw.b)
        => thread'[BQ].lks = {} /\ thread'[BQ].rows = {} /\ thread'[BQ].pc = "unindex"
  BY <1>1 DEF DeleteBranchSession, Idle
<1>3. ASSUME NEW rows, ReleaseLockKeys(BQ, rows)
      PROVE  thread'[BQ].lks = {} /\ thread'[BQ].rows = rows /\ thread'[BQ].pc = "release"
  BY <1>1, <1>3 DEF ReleaseLockKeys, Idle
<1> QED
  BY <1>2, <1>3

\* What the worker is about to delete from the lk/ keys stays useless.
LEMMA SpentNext ==
  ASSUME Patient, Apart, TypeOK, CallShape, Shape, PInv, LockInv, SessionStep, [TMNext]_tmVars
  PROVE  Spent'
<1> SUFFICES ASSUME NEW x \in XID, NEW r \in Row, <<x, r>> \in thread'[BQ].lks
             PROVE  /\ rowKey'[r] # x
                    /\ \A b \in BranchesOf(x) : r \in RowsOf[b] => bs'[b] # "Unborn"
  BY DEF Spent, BranchesOf
<1> USE Goroutines, Kinds, NoneAssumption
<1>0. thread'[BQ] # Idle /\ Idle.lks = {}
  BY DEF Idle
<1>1. ASSUME rowKey[r] # x, \A b \in BranchesOf(x) : r \in RowsOf[b] => bs[b] # "Unborn"
      PROVE  /\ rowKey'[r] # x
             /\ \A b \in BranchesOf(x) : r \in RowsOf[b] => bs'[b] # "Unborn"
  <2>1. ASSUME rowKey'[r] = x PROVE FALSE
    <3>1. PICK b \in Branch : Takes(b, x, r)
      BY <1>1, <2>1, NewLock
    <3>2. r \in RowsOf[b]
      BY <3>1 DEF Takes, LockInv, Asking
    <3> QED BY <1>1, <3>1, <3>2 DEF Takes, BranchesOf
  <2>2. \A b \in BranchesOf(x) : r \in RowsOf[b] => bs'[b] # "Unborn"
    BY <1>1, BornStays DEF BranchesOf
  <2> QED BY <2>1, <2>2
<1>2. CASE <<x, r>> \in thread[BQ].lks
  BY <1>1, <1>2 DEF LockInv, Spent
<1>3. CASE <<x, r>> \notin thread[BQ].lks
  <2>1. PICK q \in Row : ReleaseRow(BQ, q)
    <3>1. ASSUME Starts(BQ) PROVE FALSE
      <4>1. DeleteBranchSession(BQ, bw.b) \/ \E rows : ReleaseLockKeys(BQ, rows)
        BY <3>1 DEF Starts
      <4> QED BY <4>1, WorkerStarts
    <3> QED BY <1>0, <1>3, <3>1, ThreadMoves, WorkerReleases DEF PInv
  <2>2. q = r /\ rowKey[r] = x /\ rowKey' = [rowKey EXCEPT ![r] = None]
    BY <1>3, <2>1 DEF ReleaseRow, TypeOK, Call
  <2>3. UNCHANGED bs
    BY <2>1 DEF ReleaseRow
  <2>4. \A b \in BranchesOf(x) : r \in RowsOf[b] => bs[b] # "Unborn"
    BY <2>2, OwnerIsBorn DEF LockInv
  <2> QED BY <2>2, <2>3, <2>4 DEF TypeOK
<1> QED
  BY <1>2, <1>3

\* The undo logs of a branch are its own.
LEMMA OwnLogs ==
  ASSUME Apart, PInv, NEW b \in Branch, AT(b), undo \in SUBSET Branch
  PROVE  RowsToRelease(b, UndoLogs(XidOf[b], ResOf[b])) = RowsOf[b]
<1> DEFINE L == UndoLogs(XidOf[b], ResOf[b])
<1>1. L \subseteq {b}
  BY DEF UndoLogs, Apart, PInv, Databases
<1>2. CASE L = {}
  BY <1>2 DEF RowsToRelease
<1>3. CASE L = {b}
  BY <1>3 DEF RowsToRelease
<1> HIDE DEF L
<1> QED
  BY <1>1, <1>2, <1>3 DEF L

\* The worker has rows to unlock only while it is unlocking them.
LEMMA ReleaseEnds ==
  ASSUME TypeOK, CallShape, Shape, Calls, Discharged, [TMNext]_tmVars,
         thread'[BQ].pc # "release"
  PROVE  thread'[BQ].rows = {}
<1> USE Goroutines, Kinds
<1>1. CASE thread'[BQ] = Idle
  BY <1>1, IdleFields
<1>2. CASE thread'[BQ] = thread[BQ]
  BY <1>2 DEF Discharged
<1>3. CASE Driver(BQ)
  <2>1. ASSUME NEW r \in Row, ReleaseRow(BQ, r) PROVE FALSE
    BY <2>1 DEF ReleaseRow, TypeOK, Call
  <2> QED BY <1>1, <1>3, <2>1, WorkerReleases
<1>4. CASE Starts(BQ)
  BY <1>4, WorkerStarts DEF Starts
<1> QED
  BY <1>1, <1>2, <1>3, <1>4, ThreadMoves

\* After the rows of a rolled back branch are unlocked, none is locked again
\* for its global transaction.
LEMMA DischargedNext ==
  ASSUME Patient, Apart, TypeOK, CallShape, Shape, PInv, LockInv, SessionStep, [TMNext]_tmVars
  PROVE  Discharged'
<1> USE Goroutines, Kinds, NoneAssumption
<1>0. /\ bw \in [pc : {"idle", "work", "release", "delete", "unlock", "dead"},
                 b : Branch \cup {None},
                 st : {"Begin", "PhaseTwoCommitting", "PhaseTwoRollbacking"},
                 by : Thread \cup {None}, rows : SUBSET Row, logs : BOOLEAN]
      /\ bw.pc # "idle" => bw.b \in Branch
      /\ bw.pc = "work" => bw.st # "Begin"
      /\ undo \in SUBSET Branch
  BY DEF Shape, SystemTypeOK, Handles
<1>d. Discharged
  BY DEF LockInv
<1>n. NoWork.pc = "idle"
  BY DEF NoWork
<1>r. thread'[BQ].pc # "release" => thread'[BQ].rows = {}
  BY <1>d, ReleaseEnds DEF PInv
<1>1. ASSUME UNCHANGED bw PROVE Discharged'
  <2> SUFFICES ASSUME bw.pc = "delete", bw.st = "PhaseTwoRollbacking",
                      NEW r \in RowsOf[bw.b], r \notin thread'[BQ].rows,
                      rowKey'[r] = XidOf[bw.b]
               PROVE  FALSE
    BY <1>d, <1>r, <1>1 DEF Discharged
  <2>1. bw.b \in Branch /\ r \in Row /\ XidOf[bw.b] \in XID
    BY <1>0, RowsOfAssumption, XidOfAssumption
  <2>2. gs[XidOf[bw.b]] = "Rollbacking"
    BY <2>1 DEF PInv, Work, Hand, Statuses, Allowed
  <2>3. rowKey[r] = XidOf[bw.b]
    <3> SUFFICES ASSUME rowKey[r] # XidOf[bw.b] PROVE FALSE
      OBVIOUS
    <3>1. PICK b \in Branch : Takes(b, XidOf[bw.b], r)
      BY <2>1, NewLock
    <3> QED BY <2>2, <3>1 DEF Takes
  <2>4. r \in thread[BQ].rows
    BY <1>d, <2>3 DEF Discharged
  <2>5. thread[BQ] # Idle /\ thread'[BQ] # thread[BQ]
    BY <2>4, IdleFields
  <2>6. ~Starts(BQ) /\ ~Decide(BQ)
    BY <2>5, DecideEffect DEF Starts, ReleaseLockKeys, DeleteBranchSession, Decide, PInv, Calls, CallOf
  <2>7. Driver(BQ)
    <3>1. ~LeaderDies
      BY <1>1, <1>n DEF LeaderDies
    <3> QED BY <2>5, <2>6, <3>1, ThreadMoves, ThreadStops
  <2>8. thread[BQ].pc # "unindex"
    BY <1>d, <2>4 DEF Discharged
  <2>9. PICK q \in Row : ReleaseRow(BQ, q)
    BY <2>4, <2>7, <2>8, WorkerReleases DEF PInv
  <2>10. q = r /\ rowKey'[r] = None
    BY <2>1, <2>4, <2>9 DEF ReleaseRow, TypeOK, Call
  <2> QED BY <2>1, <2>10
<1>2. ASSUME bw'.pc \notin {"release", "delete"} PROVE Discharged'
  BY <1>r, <1>2 DEF Discharged
<1>3. CASE BranchRollback
  <2>1. /\ bw'.pc = "release" /\ bw'.b = bw.b
        /\ bw'.rows = IF AT(bw.b) THEN RowsToRelease(bw.b, UndoLogs(XidOf[bw.b], ResOf[bw.b])) ELSE {}
        /\ bw.b \in Branch
    BY <1>0, <1>3 DEF BranchRollback
  <2>2. bw'.rows = RowsOf[bw.b]
    <3>1. CASE AT(bw.b)
      BY <1>0, <2>1, <3>1, OwnLogs
    <3>2. CASE ~AT(bw.b)
      BY <2>1, <3>2 DEF AT
    <3> QED BY <3>1, <3>2
  <2> QED BY <1>r, <2>1, <2>2 DEF Discharged
<1>4. CASE BranchRelease
  <2>1. /\ bw.pc = "release" /\ bw.rows = RowsOf[bw.b]
        /\ bw'.pc = "delete" /\ bw'.b = bw.b
        /\ IF bw.rows = {} THEN UNCHANGED vars ELSE ReleaseLockKeys(BQ, bw.rows)
    BY <1>0, <1>d, <1>4 DEF BranchRelease, Discharged
  <2>2. RowsOf[bw.b] \ thread'[BQ].rows = {}
    BY <2>1, WorkerStarts
  <2> QED BY <1>r, <2>1, <2>2 DEF Discharged
<1>5. CASE BranchCommit
  <2>1. bw'.pc = "delete" /\ bw'.st # "PhaseTwoRollbacking"
    BY <1>0, <1>5 DEF BranchCommit
  <2> QED BY <1>r, <2>1 DEF Discharged
<1>6. CASE PhaseTwoWork
  <2>1. CASE PhaseTwoFails \/ UndoAnswerLost \/ BranchDelete \/ DeadUnlock \/ DeadBranch
    <3>1. bw'.pc \notin {"release", "delete"}
      BY <1>0, <1>n, <2>1 DEF PhaseTwoFails, UndoAnswerLost, Requeue, BranchDelete,
         DeadUnlock, DeadBranch
    <3> QED BY <1>2, <3>1
  <2> QED BY <1>3, <1>4, <1>5, <1>6, <2>1 DEF PhaseTwoWork
<1>7. ASSUME NEW i \in queue, NextBranchSession(i) PROVE Discharged'
  <2>1. bw'.pc \notin {"release", "delete"}
    BY <1>7 DEF NextBranchSession, NoWork
  <2> QED BY <1>2, <2>1
<1>8. ASSUME NEW e \in lead.branches, RecoverBranch(e) PROVE Discharged'
  <2>1. bw'.st = "Begin" /\ e.pc # "release" /\ bw'.pc = e.pc
    BY <1>8 DEF RecoverBranch, NoWork, Shape, SystemTypeOK
  <2> QED BY <1>r, <2>1 DEF Discharged
<1>9. CASE LeaderDies
  BY <1>2, <1>9, <1>n DEF LeaderDies
<1>10. CASE Elect \/ RecoverBranches \/ WatchBranchSessions \/ ListDeadBranchSession
  BY <1>1, <1>10 DEF Elect, RecoverBranches, WatchBranchSessions, ListDeadBranchSession
<1>11. ASSUME NEW t \in Thread, Decide(t) PROVE Discharged'
  BY <1>1, <1>11 DEF Decide
<1> QED
  BY <1>1, <1>6, <1>7, <1>8, <1>9, <1>10, <1>11, WorkMoves

\* Only the filter of a TCC branch reports.
LEMMA ReportedNext ==
  ASSUME Patient, TypeOK, CallShape, Shape, PInv, LockInv, SessionStep, [TMNext]_tmVars
  PROVE  Reported'
<1> USE Goroutines
<1>1. ASSUME NEW b \in Branch, thread'[b].pc = "put" PROVE ~AT(b)
  <2>0. thread'[b] # Idle
    BY <1>1, IdleFields
  <2>1. CASE thread'[b] = thread[b]
    BY <1>1, <2>1 DEF LockInv, Reported
  <2>2. CASE Driver(b)
    BY <1>1, <2>0, <2>2, RequestEffect DEF Driver, Reports, Looks, Collects, GoesOn
  <2>3. CASE PhaseOne(b)
    <3>1. CASE AddBranchSession(b, b) \/ AddBranchTxn(b)
      BY <1>1, <2>0, <3>1, StartEffect, RegisterEffect DEF Begins
    <3>2. CASE UNCHANGED thread
      BY <2>1, <3>2
    <3> QED
      BY <2>3, <3>1, <3>2 DEF PhaseOne, BranchStart, BranchRegister, BranchRegistered,
         InsertUndoLog, LocalCommit, LocalAbort, TryFails, vars
  <2> QED BY <2>1, <2>2, <2>3, BranchMoves DEF PInv
<1>2. ASSUME NEW b \in Branch, bs'[b] = "PhaseOneFailed" PROVE ~AT(b)
  <2>1. CASE bs[b] = "PhaseOneFailed"
    BY <2>1 DEF LockInv, Reported
  <2>2. CASE bs[b] # "PhaseOneFailed"
    <3> USE DEF TypeOK
    <3>1. ASSUME NEW c \in Branch, Failed(c) PROVE ~AT(b)
      BY <1>2, <2>2, <3>1 DEF Failed, LockInv, Reported
    <3>2. ASSUME NEW c \in Branch, \/ Born(c) \/ Dropped(c) \/ Unindexed(c)
                                   \/ Ended(c) \/ GivenUp(c) PROVE FALSE
      BY <1>2, <2>2, <3>2 DEF Born, Dropped, Unindexed, Ended, GivenUp
    <3>3. ASSUME NEW y \in XID, NEW to \in {"Committing", "Rollbacking"},
                 Opened(y) \/ Forgotten(y) \/ Settled(y, to) PROVE FALSE
      BY <1>2, <2>2, <3>3 DEF Opened, Forgotten, Settled, PhaseTwo
    <3> QED BY <1>2, <2>2, <3>1, <3>2, <3>3 DEF SessionStep
  <2> QED BY <2>1, <2>2
<1>3. ASSUME NEW b \in deadKey' PROVE bs'[b] = "Gone"
  BY DeadStay, GoneForever DEF LockInv, Reported, TypeOK
<1> QED
  BY <1>1, <1>2, <1>3 DEF Reported, AT

\* Nothing is locked at first.
LEMMA InitLockInv == TMInit => LockInv
BY NoneAssumption, Goroutines DEF TMInit, Init, LockInv, Owned, Asking, Recorded, Spent,
   Discharged, Reported, Idle, NoWork

\* Every step keeps the invariant about locks.
LEMMA LockInvNext ==
  ASSUME Patient, Apart, IndInv, Shape, PInv, LockInv, [TMNext]_tmVars
  PROVE  LockInv'
<1>1. SessionStep
  BY SessionSteps DEF IndInv
<1> QED
  BY <1>1, OwnedNext, AskingNext, RecordedNext, SpentNext, DischargedNext, ReportedNext
  DEF LockInv, IndInv

\* A locked row always has somebody who will unlock it.
THEOREM LocksAreReleasable ==
  ASSUME Patient, Apart PROVE TMSpec => []LocksHaveReleasers
<1>1. TMInv /\ PInv /\ LockInv /\ [TMNext]_tmVars => LockInv'
  BY LockInvNext DEF TMInv
<1>2. LockInv => LocksHaveReleasers
  BY DEF LockInv, Owned, LocksHaveReleasers
<1> QED
  BY <1>1, <1>2, InitLockInv, SystemInvariance, PatientInvariance, PTL DEF TMSpec

---------------------------------------------------------------------------
(***************************************************************************)
(* Isolation                                                               *)
(*                                                                         *)
(* As long as the leader lives, and Undo does not fail halfway, a global   *)
(* transaction holds the locks of all its branches from their registration *)
(* until it commits or the branch is rolled back.                          *)
(***************************************************************************)
\* The leader does not crash, and Undo fails as a whole or not at all.
Steady == Faults \cap {"lateCrash", "undoError"} = {}

\* The rows of b were unlocked although b was not rolled back, as configured.
Released(b) == /\ Unlock /\ "dead" \in Faults
               /\ b \in deadKey \/ (bw.b = b /\ bw.pc = "dead")

\* A branch is rolled back once.
Once ==
  /\ \A b \in Branch : <<b, "rollback">> \in second /\ bs[b] # "Gone"
       => bw.b = b /\ bw.pc \in {"release", "delete"}
  /\ bw.pc \in {"unlock", "dead"} => "dead" \in Faults

\* The global transaction of a registered branch holds its locks.
Held ==
  \A b \in Branch : \A r \in RowsOf[b] :
    /\ bs[b] # "Unborn" /\ <<b, "rollback">> \notin second /\ ~Released(b)
    /\ gs[XidOf[b]] \in {"Begin", "Rollbacking"} /\ ~CommitCalled(XidOf[b])
    => rowKey[r] = XidOf[b]

\* The branch worker unlocks rows of its branch, which the branch holds.
Unlocks ==
  /\ bw.pc = "release" => \A r \in RowsOf[bw.b] : rowKey[r] = XidOf[bw.b]
  /\ thread[BQ].pc = "release" =>
       /\ bw.pc \in {"delete", "dead"} /\ bs[bw.b] = "PhaseTwoRollbacking"
       /\ bw.pc = "dead" => Unlock
       /\ \A r \in thread[BQ].rows : r \in RowsOf[bw.b] /\ rowKey[r] = XidOf[bw.b]

\* What the lk/ keys of an undecided transaction name is locked by it, and so
\* is what its commit unlocks.
Named ==
  \A x \in XID, r \in Row :
    \/ <<x, r>> \in lockKey /\ gs[x] \in {"Unborn", "Begin"}
    \/ thread[x].pc = "releaseRows" /\ r \in thread[x].rows
    => rowKey[r] = x

\* The index of an undecided transaction names no deleted branch, unless its
\* filter is about to delete the index key; a decision finds every branch.
Indexed ==
  /\ \A b \in Branch : gs[XidOf[b]] = "Begin" /\ b \in branchKey /\ bs[b] = "Gone"
       => thread[b].pc = "unindex"
  /\ \A t \in Thread : thread[t].pc = "getBranches" => \A b \in thread[t].keys : Exists(b)
  /\ \A b \in Branch : local[b] = "committed" => bs[b] # "Unborn"

SteadyInv == Working /\ Once /\ Held /\ Unlocks /\ Named /\ Indexed

\* The leader goes on working.
LEMMA SteadyLeader ==
  ASSUME Patient, Steady, Shape, Leads, Working, [TMNext]_tmVars
  PROVE  Working' /\ ~Recovery
<1>0. /\ lead \in [st : {"down", "global", "branch", "watching", "deaf"},
              sessions : SUBSET [x : XID, pc : {"rollback", "keys", "delete"}],
              branches : SUBSET [b : Branch, pc : {"delete", "unlock"}],
              replay : SUBSET Item]
      /\ lead.st \in {"watching", "deaf"} /\ lead.sessions = {}
  BY DEF Shape, SystemTypeOK, Leads, Working
<1>r. ~Recovery
  BY <1>0 DEF Recovery, Elect, RecoverRollback, RecoverKeys, RecoverDelete, RecoverBranches,
     RecoverBranch, WatchBranchSessions
<1>1. CASE UNCHANGED lead
  BY <1>1, <1>r DEF Working
<1>2. ASSUME NEW y \in XID, Client(y) \/ NextGlobalSession(y) PROVE UNCHANGED lead
  BY <1>2 DEF Client, ClientEnds, GlobalBegin, ClientCommit, ClientRollback,
     ClientVanishes, Tick, NextGlobalSession, leading
<1>3. ASSUME NEW b \in Branch, PhaseOne(b) PROVE UNCHANGED lead
  BY <1>3 DEF PhaseOne, BranchStart, BranchRegister, BranchRegistered,
     InsertUndoLog, LocalCommit, LocalAbort, TryFails, leading
<1>4. Timeout => UNCHANGED lead
  BY DEF Timeout, TimeoutRollback, TimeoutRequeue, TimeoutKeys, TimeoutDelete
<1>5. PhaseTwoWork => UNCHANGED lead
  BY DEF PhaseTwoWork, BranchCommit, BranchRollback, PhaseTwoFails, UndoAnswerLost,
     BranchRelease, BranchDelete, DeadUnlock, DeadBranch
<1>6. ASSUME NEW t \in Thread, Driver(t) \/ Decide(t) PROVE UNCHANGED lead
  BY <1>0, <1>6 DEF Driver, Fatal, Decide, leading
<1>7. ASSUME NEW i \in queue, NextBranchSession(i) PROVE UNCHANGED lead
  BY <1>7 DEF NextBranchSession
<1>8. CASE WatchBreaks
  BY <1>0, <1>8, <1>r DEF WatchBreaks, Working
<1>9. ~Crash /\ ~DeletePanics /\ ~ListDeadBranchSession /\ \A t \in Thread : ~DriverFails(t)
  BY <1>0 DEF Crash, DeletePanics, ListDeadBranchSession, DriverFails, Patient, Steady
<1>10. CASE UNCHANGED tmVars
  BY <1>1, <1>10 DEF tmVars, leading
<1> QED
  BY <1>r, <1>1, <1>2, <1>3, <1>4, <1>5, <1>6, <1>7, <1>8, <1>9, <1>10 DEF TMNext

\* What the branch worker of a living leader does.
LEMMA SteadyWork ==
  ASSUME Patient, Steady, TypeOK, Shape, Leads, Working, [TMNext]_tmVars
  PROVE  /\ ~LeaderDies
         /\ \/ UNCHANGED <<bw, second>>
            \/ \E i \in queue : NextBranchSession(i)
            \/ PhaseTwoWork
<1>1. Working' /\ ~Recovery
  BY SteadyLeader
<1>2. ~LeaderDies
  BY <1>1 DEF LeaderDies, Working, Down
<1>3. ~ListDeadBranchSession
  BY DEF ListDeadBranchSession, Working
<1> QED
  BY <1>1, <1>2, <1>3, WorkMoves DEF Recovery, Decide, database

\* A branch of a leader that works is deleted after phase two.
LEMMA SteadyHand ==
  ASSUME Shape, PInv, Working, bw.pc # "idle"
  PROVE  /\ bw.b \in Branch /\ bw.st \in {"PhaseTwoCommitting", "PhaseTwoRollbacking"}
         /\ bw.pc \in {"work", "release", "delete", "unlock", "dead"}
         /\ bw.pc # "unlock" /\ bw.pc # "dead" => bs[bw.b] = bw.st
         /\ bw.pc = "delete" => <<bw.b, Verdict(bw.st)>> \in second
         /\ bs[bw.b] = "PhaseTwoRollbacking" => gs[XidOf[bw.b]] = "Rollbacking"
         /\ Exists(bw.b)
<1>1. /\ bw.b \in Branch /\ bw.st \in {"PhaseTwoCommitting", "PhaseTwoRollbacking"}
      /\ bw.pc \in {"work", "release", "delete", "unlock", "dead"}
  BY DEF Shape, Handles, SystemTypeOK, Working
<1>2. bw.pc # "unlock" /\ bw.pc # "dead" => bs[bw.b] = bw.st
  BY <1>1 DEF PInv, Work, Hand
<1>3. bs[bw.b] \in {"PhaseTwoCommitting", "PhaseTwoRollbacking"}
  BY <1>1, <1>2 DEF PInv, Work, Hand
<1>4. bs[bw.b] = "PhaseTwoRollbacking" => gs[XidOf[bw.b]] = "Rollbacking"
  BY <1>1 DEF PInv, Statuses, Allowed
<1> QED
  BY <1>1, <1>2, <1>3, <1>4 DEF PInv, Work, Hand, Exists

\* A branch that was rolled back is deleted before the worker does anything else.
LEMMA OnceNext ==
  ASSUME Patient, Steady, TypeOK, CallShape, Shape, PInv, SteadyInv, SessionStep, [TMNext]_tmVars
  PROVE  Once'
<1>m. \/ UNCHANGED <<bw, second>>
      \/ \E i \in queue : NextBranchSession(i)
      \/ PhaseTwoWork
  BY SteadyWork DEF PInv, SteadyInv
<1>0. bw \in [pc : {"idle", "work", "release", "delete", "unlock", "dead"},
              b : Branch \cup {None},
              st : {"Begin", "PhaseTwoCommitting", "PhaseTwoRollbacking"},
              by : Thread \cup {None}, rows : SUBSET Row, logs : BOOLEAN]
  BY DEF Shape, SystemTypeOK
<1>n. NoWork.pc = "idle"
  BY DEF NoWork
<1>1. ASSUME bw'.pc \in {"unlock", "dead"} PROVE "dead" \in Faults
  <2>1. ASSUME NEW i \in queue, NextBranchSession(i) PROVE "dead" \in Faults
    BY <1>1, <2>1 DEF NextBranchSession, NoWork
  <2>2. CASE PhaseTwoWork
    BY <1>0, <1>n, <1>1, <2>2 DEF PhaseTwoWork, BranchCommit, BranchRollback, PhaseTwoFails,
       UndoAnswerLost, Requeue, BranchRelease, BranchDelete, DeadUnlock, DeadBranch,
       SteadyInv, Once
  <2> QED BY <1>m, <1>1, <2>1, <2>2 DEF SteadyInv, Once
<1>2. ASSUME NEW b \in Branch, <<b, "rollback">> \in second', bs'[b] # "Gone"
      PROVE  bw'.b = b /\ bw'.pc \in {"release", "delete"}
  <2>1. bs[b] # "Gone"
    BY <1>2, GoneForever
  <2>2. CASE <<b, "rollback">> \in second
    <3>1. bw.b = b /\ bw.pc \in {"release", "delete"}
      BY <2>1, <2>2 DEF SteadyInv, Once
    <3>2. ~BranchDelete
      <4>1. Exists(b)
        BY <3>1, SteadyHand DEF SteadyInv
      <4> QED BY <1>2, <3>1, <4>1 DEF BranchDelete, DeleteBranchSession, TypeOK
    <3>3. ASSUME NEW i \in queue, NextBranchSession(i) PROVE FALSE
      BY <1>n, <3>1, <3>3 DEF NextBranchSession
    <3>4. CASE PhaseTwoWork
      BY <1>0, <3>1, <3>2, <3>4 DEF PhaseTwoWork, BranchCommit, BranchRollback, PhaseTwoFails,
         UndoAnswerLost, BranchRelease, DeadUnlock, DeadBranch
    <3> QED BY <1>m, <3>1, <3>3, <3>4
  <2>3. CASE <<b, "rollback">> \notin second
    <3>1. BranchCommit \/ BranchRollback
      <4>1. ~UndoAnswerLost
        BY DEF UndoAnswerLost, Steady
      <4>2. ASSUME NEW c \in Branch, LocalCommit(c) PROVE FALSE
        BY <1>2, <2>3, <4>2 DEF LocalCommit
      <4> QED BY <1>2, <2>3, <4>1, <4>2, DatabaseMoves DEF database
    <3>2. ~BranchCommit
      BY <1>2, <2>3 DEF BranchCommit, Executed
    <3>3. second' = second \cup {<<bw.b, "rollback">>}
      BY <3>1, <3>2 DEF BranchRollback, Rollback, Executed
    <3>4. bw'.b = bw.b /\ bw'.pc = "release"
      BY <1>0, <3>1, <3>2 DEF BranchRollback
    <3> QED BY <1>2, <2>3, <3>3, <3>4
  <2> QED BY <2>2, <2>3
<1> QED
  BY <1>1, <1>2 DEF Once

\* A commit that has begun goes on until it is recorded.
LEMMA CommitStays ==
  ASSUME Patient, TypeOK, CallShape, Shape, PInv, SteadyInv, [TMNext]_tmVars, NEW x \in XID,
         CommitCalled(x), gs'[x] \in {"Begin", "Rollbacking"}
  PROVE  CommitCalled(x)'
<1> USE Goroutines, Kinds
<1>1. PICK t \in Thread : thread[t].x = x /\ thread[t].to = "Committing"
  <2>1. ASSUME gs[x] = "Committing" PROVE FALSE
    <3>1. ASSUME NEW t \in Thread, Decide(t), thread[t].x = x PROVE FALSE
      BY <2>1, <3>1, DecideEffect, Deciding DEF Decide, DecisionPc, PInv
    <3> QED BY <2>1, <3>1, StatusMoves
  <2> QED BY <2>1 DEF CommitCalled
<1>2. thread[t].pc \in DecisionPc
  BY <1>1, NoneAssumption DEF PInv, Calls, CallOf
<1>3. t = x /\ gs[x] = "Begin"
  BY <1>1, <1>2, Deciding DEF PInv, Calls, CallOf, DecisionPc
<1>4. thread[x] # Idle
  BY <1>2, <1>3, IdleFields DEF DecisionPc
<1>5. Driver(x) => Looks(x) \/ Collects(x)
  BY <1>2, <1>3, RequestEffect DEF Driver, Reports, DecisionPc
<1>6. ASSUME thread'[x] = Idle PROVE FALSE
  <2>1. ASSUME Driver(x) PROVE FALSE
    <3>1. CASE Looks(x)
      BY <1>1, <1>2, <1>3, <1>6, <3>1, IdleFields DEF Looks, GoesOn, DecisionPc
    <3>2. CASE Collects(x)
      BY <1>3, <1>6, <3>2, IdleFields DEF Collects, GoesOn, SteadyInv, Indexed
    <3> QED BY <1>5, <2>1, <3>1, <3>2
  <2>2. ASSUME Decide(x) PROVE FALSE
    BY <1>1, <1>3, <2>2, DecideEffect DEF Decide, TypeOK
  <2> QED BY <1>4, <1>6, <2>1, <2>2, ThreadStops
<1>7. thread'[x].x = x /\ thread'[x].to = "Committing"
  <2>1. CASE Driver(x)
    BY <1>1, <1>3, <1>5, <1>6, <2>1 DEF Looks, Collects, GoesOn
  <2>2. ~Starts(x)
    BY <1>4 DEF Starts, GlobalCommit, GlobalRollback
  <2> QED BY <1>1, <1>3, <1>6, <2>1, <2>2, ThreadMoves
<1> QED
  BY <1>7 DEF CommitCalled

\* What was unlocked when a rollback was given up stays so.
LEMMA ReleasedStays ==
  ASSUME Patient, Steady, TypeOK, CallShape, Shape, PInv, SteadyInv, [TMNext]_tmVars,
         NEW b \in Branch, Released(b)
  PROVE  Released(b)'
<1>1. CASE b \in deadKey
  BY <1>1, DeadStay DEF Released
<1>2. CASE bw.b = b /\ bw.pc = "dead"
  <2>0. bw # NoWork
    BY <1>2 DEF NoWork
  <2>1. UNCHANGED bw \/ PhaseTwoWork
    BY <2>0, SteadyWork DEF PInv, SteadyInv, NextBranchSession
  <2>2. CASE PhaseTwoWork
    <3>1. DeadBranch
      BY <1>2, <2>2 DEF PhaseTwoWork, BranchCommit, BranchRollback, PhaseTwoFails,
         UndoAnswerLost, BranchRelease, BranchDelete, DeadUnlock
    <3>2. b \in deadKey'
      BY <1>2, <3>1 DEF DeadBranch, SetBranchSessionDead, Patient
    <3> QED BY <3>2 DEF Released
  <2> QED BY <1>2, <2>1, <2>2 DEF Released
<1> QED
  BY <1>1, <1>2 DEF Released

\* Who unlocks a row of x.
LEMMA UnlockedBy ==
  ASSUME Patient, TypeOK, CallShape, Shape, PInv, SteadyInv, [TMNext]_tmVars,
         NEW r \in Row, NEW x \in XID, rowKey[r] = x, rowKey'[r] # x
  PROVE  \/ /\ ReleaseRows(x) /\ thread[x].pc = "releaseRows"
            /\ r \in thread[x].rows /\ thread[x].to = "Committing" /\ thread[x].x = x
            /\ gs[x] = "Begin"
         \/ /\ ReleaseRow(BQ, r) /\ thread[BQ].pc = "release" /\ Driver(BQ)
            /\ r \in thread[BQ].rows /\ r \in RowsOf[bw.b] /\ XidOf[bw.b] = x
            /\ bw.b \in Branch /\ gs[x] = "Rollbacking"
<1> USE Goroutines, Kinds, NoneAssumption
<1>1. ASSUME NEW y \in XID, ReleaseRows(y)
      PROVE  y = x /\ r \in thread[x].rows /\ thread[x].pc = "releaseRows"
  BY <1>1 DEF ReleaseRows, SteadyInv, Named
<1>2. ASSUME NEW q \in Row, ReleaseRow(BQ, q)
      PROVE  q = r /\ thread[BQ].pc = "release" /\ r \in thread[BQ].rows
  BY <1>2 DEF ReleaseRow, TypeOK
<1>3. ASSUME NEW b \in Branch, BranchRegistered(b) PROVE FALSE
  BY <1>3, Locks DEF PInv
<1>4. \/ ReleaseRows(x) /\ r \in thread[x].rows /\ thread[x].pc = "releaseRows"
      \/ /\ ReleaseRow(BQ, r) /\ thread[BQ].pc = "release" /\ r \in thread[BQ].rows
         /\ Driver(BQ)
  BY <1>1, <1>2, <1>3, LockMoves DEF PInv, GlobalCommit, ReleaseTxn
<1>5. ASSUME thread[x].pc = "releaseRows"
      PROVE  thread[x].to = "Committing" /\ thread[x].x = x /\ gs[x] = "Begin"
  BY <1>5, Deciding DEF PInv, Calls, CallOf, DecisionPc
<1>6. ASSUME thread[BQ].pc = "release", r \in thread[BQ].rows
      PROVE  /\ r \in RowsOf[bw.b] /\ XidOf[bw.b] = x
             /\ bw.b \in Branch /\ gs[x] = "Rollbacking"
  <2>1. /\ r \in RowsOf[bw.b] /\ XidOf[bw.b] = x /\ bw.pc # "idle"
        /\ bs[bw.b] = "PhaseTwoRollbacking"
    BY <1>6 DEF SteadyInv, Unlocks
  <2> QED BY <2>1, SteadyHand DEF SteadyInv
<1> QED
  BY <1>4, <1>5, <1>6

\* A branch is registered together with its locks.
LEMMA Registers ==
  ASSUME Patient, TypeOK, CallShape, Shape, PInv, LockInv, SessionStep, [TMNext]_tmVars,
         NEW b \in Branch, bs[b] = "Unborn", bs'[b] # "Unborn", NEW r \in RowsOf[b]
  PROVE  rowKey'[r] = XidOf[b]
<1> USE Goroutines, RowsOfAssumption
<1>1. thread[b].pc = "filterRowKeys" /\ thread'[b] = Idle
  <2> USE DEF TypeOK
  <2>1. ASSUME NEW c \in Branch, \/ Born(c) \/ Failed(c) \/ Dropped(c) \/ Unindexed(c)
                                 \/ Ended(c) \/ GivenUp(c)
        PROVE thread[b].pc = "filterRowKeys" /\ thread'[b] = Idle
    BY <2>1 DEF Born, Failed, Dropped, Unindexed, Ended, GivenUp
  <2>2. ASSUME NEW y \in XID, NEW to \in {"Committing", "Rollbacking"},
               Opened(y) \/ Forgotten(y) \/ Settled(y, to) PROVE FALSE
    BY <2>2 DEF Opened, Forgotten, Settled
  <2> QED BY <2>1, <2>2 DEF SessionStep
<1>2. ~Driver(b)
  BY <1>1, RequestEffect, IdleFields DEF Driver, Reports, Looks, Collects, GoesOn
<1>3. PhaseOne(b)
  BY <1>1, <1>2, BranchMoves, IdleFields DEF PInv
<1>4. BranchRegistered(b)
  <2>1. ~AddBranchSession(b, b) /\ ~BranchReport(b, b)
    BY <1>1, IdleFields DEF AddBranchSession, BranchReport
  <2>2. ~UNCHANGED bs
    OBVIOUS
  <2> QED
    BY <1>3, <2>1, <2>2 DEF PhaseOne, BranchStart, BranchRegister, InsertUndoLog,
       LocalCommit, LocalAbort, TryFails, vars
<1>5. /\ thread[b].rows = {}
      /\ \A q \in Row : rowKey'[q] = IF q \in thread[b].keep THEN XidOf[b] ELSE rowKey[q]
  BY <1>4, Locks DEF PInv
<1>6. thread[b].keep = RowsOf[b]
  BY <1>1, <1>5 DEF LockInv, Asking
<1> QED
  BY <1>5, <1>6

\* A rollback that has not been executed still holds its locks.
LEMMA HoldsYet ==
  ASSUME Shape, PInv, LockInv, SteadyInv, bw.pc \in {"work", "unlock"},
         bs[bw.b] = "PhaseTwoRollbacking", NEW r \in RowsOf[bw.b]
  PROVE  rowKey[r] = XidOf[bw.b]
<1> USE Goroutines, Kinds
<1>1. bw.b \in Branch /\ gs[XidOf[bw.b]] = "Rollbacking" /\ XidOf[bw.b] \in XID
  BY SteadyHand, XidOfAssumption DEF SteadyInv
<1>2. ~CommitCalled(XidOf[bw.b])
  <2>1. ASSUME NEW t \in Thread, thread[t].x = XidOf[bw.b] PROVE FALSE
    <3>1. thread[t].pc \in DecisionPc
      BY <1>1, <2>1, NoneAssumption DEF PInv, Calls, CallOf
    <3>2. t \in {XidOf[bw.b], GQ}
      BY <2>1, <3>1, ThreadAssumption DEF PInv, Calls, CallOf, DecisionPc
    <3> QED BY <1>1, <2>1, <3>2 DEF PInv, Turns
  <2> QED BY <1>1, <2>1 DEF CommitCalled
<1>3. ~Released(bw.b) /\ <<bw.b, "rollback">> \notin second
  BY <1>1 DEF Released, LockInv, Reported, SteadyInv, Once
<1> QED
  BY <1>1, <1>2, <1>3 DEF SteadyInv, Held

\* Locks are kept.
LEMMA HeldNext ==
  ASSUME Patient, Steady, Apart, TypeOK, CallShape, Shape, PInv, LockInv, SteadyInv,
         SessionStep, [TMNext]_tmVars
  PROVE  Held'
<1> SUFFICES ASSUME NEW b \in Branch, NEW r \in RowsOf[b], bs'[b] # "Unborn",
                    <<b, "rollback">> \notin second', ~Released(b)',
                    gs'[XidOf[b]] \in {"Begin", "Rollbacking"}, ~CommitCalled(XidOf[b])',
                    rowKey'[r] # XidOf[b]
             PROVE  FALSE
  BY DEF Held
<1>b. bs[b] # "Unborn"
  BY Registers
<1> DEFINE x == XidOf[b]
<1>0. x \in XID /\ r \in Row
  BY XidOfAssumption, RowsOfAssumption
<1>1. gs[x] \in {"Begin", "Rollbacking"}
  <2>1. bs[b] \in Allowed(gs[x])
    BY <1>b DEF PInv, Statuses
  <2> QED BY <1>0, <2>1, BeginsOnce DEF Allowed
<1>2. ~CommitCalled(x)
  BY <1>0, CommitStays
<1>3. ~Released(b)
  BY ReleasedStays
<1>4. <<b, "rollback">> \notin second
  <2>1. second \subseteq second'
    BY DatabaseMoves DEF database, LocalCommit, BranchCommit, BranchRollback, UndoAnswerLost,
       Rollback, Executed
  <2> QED BY <2>1
<1>5. rowKey[r] = x
  BY <1>b, <1>1, <1>2, <1>3, <1>4 DEF SteadyInv, Held
<1>6. CASE thread[x].to = "Committing" /\ thread[x].x = x
  BY <1>0, <1>2, <1>6, Goroutines DEF CommitCalled
<1>7. CASE /\ thread[BQ].pc = "release" /\ bw.b \in Branch
           /\ r \in RowsOf[bw.b] /\ XidOf[bw.b] = x
  <2>1. bw.b = b
    BY <1>7 DEF Apart
  <2>2. bw.pc \in {"delete", "dead"} /\ bs[b] = "PhaseTwoRollbacking" /\ (bw.pc = "dead" => Unlock)
    BY <1>7, <2>1 DEF SteadyInv, Unlocks
  <2>3. bw.pc # "delete"
    BY <1>4, <2>1, <2>2, SteadyHand DEF SteadyInv, Verdict
  <2> QED BY <1>3, <2>1, <2>2, <2>3 DEF Released, SteadyInv, Once
<1> HIDE DEF x
<1> QED
  BY <1>0, <1>5, <1>6, <1>7, UnlockedBy DEF x

\* The worker unlocks only rows its branch holds.
LEMMA UnlocksNext ==
  ASSUME Patient, Steady, Apart, TypeOK, CallShape, Shape, PInv, LockInv, SteadyInv,
         SessionStep, [TMNext]_tmVars
  PROVE  Unlocks'
<1> USE Goroutines, Kinds
<1>m. \/ UNCHANGED <<bw, second>>
      \/ \E i \in queue : NextBranchSession(i)
      \/ PhaseTwoWork
  BY SteadyWork DEF PInv, SteadyInv
<1>0. bw \in [pc : {"idle", "work", "release", "delete", "unlock", "dead"},
              b : Branch \cup {None},
              st : {"Begin", "PhaseTwoCommitting", "PhaseTwoRollbacking"},
              by : Thread \cup {None}, rows : SUBSET Row, logs : BOOLEAN]
  BY DEF Shape, SystemTypeOK
<1>n. NoWork.pc = "idle"
  BY DEF NoWork
<1>r. \A b \in Branch : XidOf[b] \in XID /\ RowsOf[b] \subseteq Row
  BY XidOfAssumption, RowsOfAssumption
<1>1. ASSUME bw'.pc = "release", NEW r \in RowsOf[bw'.b] PROVE rowKey'[r] = XidOf[bw'.b]
  <2>1. CASE UNCHANGED bw
    <3>1. /\ bw.b \in Branch /\ rowKey[r] = XidOf[bw.b] /\ gs[XidOf[bw.b]] = "Rollbacking"
      BY <1>1, <2>1, SteadyHand DEF SteadyInv, Unlocks, PInv, Work, Hand
    <3>2. thread[BQ].pc # "release"
      BY <1>1, <2>1 DEF SteadyInv, Unlocks
    <3> QED BY <1>r, <1>1, <2>1, <3>1, <3>2, UnlockedBy
  <2>2. ASSUME NEW i \in queue, NextBranchSession(i) PROVE FALSE
    BY <1>1, <2>2 DEF NextBranchSession, NoWork
  <2>3. CASE PhaseTwoWork
    <3>1. BranchRollback
      BY <1>0, <1>n, <1>1, <2>3 DEF PhaseTwoWork, BranchCommit, PhaseTwoFails, UndoAnswerLost,
         Requeue, BranchRelease, BranchDelete, DeadUnlock, DeadBranch
    <3>2. bw.pc = "work" /\ bw'.b = bw.b /\ bw.st = "PhaseTwoRollbacking" /\ UNCHANGED rowKey
      BY <1>0, <3>1 DEF BranchRollback, vars
    <3>3. bs[bw.b] = "PhaseTwoRollbacking"
      BY <3>2 DEF PInv, Work, Hand
    <3> QED BY <1>1, <3>2, <3>3, HoldsYet
  <2> QED BY <1>m, <2>1, <2>2, <2>3
<1>2. ASSUME thread'[BQ].pc = "release"
      PROVE  /\ bw'.pc \in {"delete", "dead"} /\ bs'[bw'.b] = "PhaseTwoRollbacking"
             /\ bw'.pc = "dead" => Unlock
             /\ \A r \in thread'[BQ].rows : r \in RowsOf[bw'.b] /\ rowKey'[r] = XidOf[bw'.b]
  <2>0. thread'[BQ] # Idle
    BY <1>2, IdleFields
  <2>1. ASSUME thread[BQ].pc = "release"
        PROVE  /\ bw.pc \in {"delete", "dead"} /\ bs[bw.b] = "PhaseTwoRollbacking"
               /\ bw.pc = "dead" => Unlock
               /\ \A r \in thread[BQ].rows : r \in RowsOf[bw.b] /\ rowKey[r] = XidOf[bw.b]
               /\ UNCHANGED bw /\ bs'[bw.b] = bs[bw.b]
               /\ bw.b \in Branch /\ gs[XidOf[bw.b]] = "Rollbacking"
    <3>1. /\ bw.pc \in {"delete", "dead"} /\ bs[bw.b] = "PhaseTwoRollbacking"
          /\ bw.pc = "dead" => Unlock
          /\ \A r \in thread[BQ].rows : r \in RowsOf[bw.b] /\ rowKey[r] = XidOf[bw.b]
      BY <2>1 DEF SteadyInv, Unlocks
    <3>2. thread[BQ] # Idle
      BY <2>1, IdleFields
    <3>3. UNCHANGED bw
      BY <1>m, <3>1, <3>2 DEF NextBranchSession, PhaseTwoWork, BranchCommit, BranchRollback,
         PhaseTwoFails, UndoAnswerLost, BranchRelease, BranchDelete, DeadUnlock, DeadBranch
    <3>4. bw.b \in Branch /\ gs[XidOf[bw.b]] = "Rollbacking"
      BY <3>1, SteadyHand DEF SteadyInv
    <3>5. bs'[bw.b] = bs[bw.b]
      BY <3>1, <3>3, <3>4, PhaseTwoStays DEF InPhaseTwo
    <3> QED BY <3>1, <3>3, <3>4, <3>5
  <2>2. CASE thread'[BQ] = thread[BQ]
    <3>1. ASSUME NEW r \in thread[BQ].rows, rowKey'[r] # XidOf[bw.b] PROVE FALSE
      <4>1. r \in Row /\ rowKey[r] = XidOf[bw.b] /\ XidOf[bw.b] \in XID
        BY <1>r, <1>2, <2>1, <2>2
      <4>2. ReleaseRow(BQ, r)
        BY <1>2, <2>1, <2>2, <3>1, <4>1, UnlockedBy
      <4>3. thread'[BQ].rows = thread[BQ].rows \ {r}
        BY <4>2 DEF ReleaseRow, TypeOK, Call
      <4> QED BY <2>2, <4>3
    <3> QED BY <1>2, <2>1, <2>2, <3>1
  <2>3. CASE Driver(BQ)
    <3>1. thread[BQ].pc = "release" /\ \E q \in Row : ReleaseRow(BQ, q)
      BY <2>0, <2>3, WorkerReleases DEF PInv, ReleaseRow
    <3>2. PICK q \in Row : ReleaseRow(BQ, q)
      BY <3>1
    <3>3. thread'[BQ].rows = thread[BQ].rows \ {q} /\ rowKey' = [rowKey EXCEPT ![q] = None]
      BY <3>2 DEF ReleaseRow, TypeOK, Call
    <3>4. \A r \in thread'[BQ].rows : rowKey'[r] = rowKey[r]
      BY <1>r, <2>1, <3>1, <3>3 DEF TypeOK
    <3> QED BY <2>1, <3>1, <3>3, <3>4
  <2>4. CASE Starts(BQ)
    <3>1. PhaseTwoWork /\ bw.pc # "idle" /\ \E rows : ReleaseLockKeys(BQ, rows)
      BY <1>2, <2>4, WorkerStarts DEF Starts
    <3>2. PICK rows : ReleaseLockKeys(BQ, rows)
      BY <3>1
    <3>3. /\ thread[BQ] = Idle /\ thread'[BQ].rows = rows /\ rows # {}
          /\ thread'[BQ].pc = "release" /\ UNCHANGED <<bs, rowKey>>
      BY <1>2, <3>2, WorkerStarts DEF ReleaseLockKeys
    <3>4. ~UNCHANGED vars
      BY <2>0, <3>3 DEF vars
    <3>5. ~BranchCommit /\ ~BranchRollback /\ ~UndoAnswerLost
      BY <3>4 DEF BranchCommit, BranchRollback, UndoAnswerLost, Steady
    <3>6. ~PhaseTwoFails
      <4> SUFFICES ASSUME PhaseTwoFails PROVE FALSE
        OBVIOUS
      <4> DEFINE L == UndoLogs(XidOf[bw.b], ResOf[bw.b])
      <4>1. PICK S \in SUBSET L :
              /\ S # {} => bw.st = "PhaseTwoRollbacking" /\ AT(bw.b) /\ S # L
              /\ ReleaseUndone(S)
        BY DEF PhaseTwoFails, Steady
      <4>2. S # {}
        BY <3>4, <4>1 DEF ReleaseUndone
      <4>3. \A c \in L : c = bw.b
        <5>1. bw.b \in Branch /\ AT(bw.b)
          BY <3>1, <4>1, <4>2, SteadyHand DEF SteadyInv
        <5>2. \A c \in L : c \in Branch /\ AT(c) /\ XidOf[c] = XidOf[bw.b] /\ ResOf[c] = ResOf[bw.b]
          BY DEF UndoLogs, PInv, Databases, Shape, SystemTypeOK
        <5> QED BY <5>1, <5>2 DEF Apart
      <4> QED BY <4>1, <4>2, <4>3
    <3>7. CASE BranchRelease
      <4>1. /\ bw.pc = "release" /\ bw.rows = RowsOf[bw.b] /\ bw'.pc = "delete" /\ bw'.b = bw.b
            /\ ReleaseLockKeys(BQ, bw.rows)
        BY <1>0, <3>4, <3>7 DEF BranchRelease, LockInv, Discharged
      <4>2. rows = bw.rows
        BY <3>3, <4>1, WorkerStarts
      <4>3. bs[bw.b] = "PhaseTwoRollbacking"
        BY <4>1 DEF PInv, Work, Hand
      <4> QED BY <3>3, <4>1, <4>2, <4>3 DEF SteadyInv, Unlocks
    <3>8. CASE DeadUnlock
      <4>1. /\ bw.pc = "unlock" /\ bw'.pc = "dead" /\ bw'.b = bw.b /\ Unlock
            /\ ReleaseLockKeys(BQ, RowsOf[bw.b])
        BY <1>0, <3>4, <3>8 DEF DeadUnlock
      <4>2. rows = RowsOf[bw.b]
        BY <3>3, <4>1, WorkerStarts
      <4>3. bs[bw.b] = "PhaseTwoRollbacking"
        BY <4>1 DEF PInv, Work, Hand
      <4> QED BY <3>3, <4>1, <4>2, <4>3, HoldsYet
    <3>9. ~BranchDelete /\ ~DeadBranch
      BY <3>3, <3>4, <2>0, WorkerStarts DEF BranchDelete, DeadBranch, SetBranchSessionDead
    <3> QED BY <3>1, <3>5, <3>6, <3>7, <3>8, <3>9 DEF PhaseTwoWork
  <2> QED BY <2>0, <2>2, <2>3, <2>4, ThreadMoves
<1> QED
  BY <1>1, <1>2 DEF Unlocks

\* What an undecided transaction recorded is what it holds.
LEMMA NamedNext ==
  ASSUME Patient, Steady, TypeOK, CallShape, Shape, PInv, LockInv, SteadyInv, SessionStep,
         Calls', [TMNext]_tmVars
  PROVE  Named'
<1> SUFFICES ASSUME NEW x \in XID, NEW r \in Row,
                    \/ <<x, r>> \in lockKey' /\ gs'[x] \in {"Unborn", "Begin"}
                    \/ thread'[x].pc = "releaseRows" /\ r \in thread'[x].rows,
                    rowKey'[r] # x
             PROVE  FALSE
  BY DEF Named
<1> USE Goroutines, Kinds
<1>1. ASSUME \/ <<x, r>> \in lockKey /\ gs[x] \in {"Unborn", "Begin"}
             \/ /\ thread[x].pc = "releaseRows" /\ r \in thread[x].rows
                /\ thread'[x] = thread[x]
      PROVE  FALSE
  <2>1. rowKey[r] = x
    BY <1>1 DEF SteadyInv, Named
  <2>2. gs[x] # "Rollbacking"
    BY <1>1, Deciding DEF PInv, Calls, CallOf, DecisionPc
  <2>3. ReleaseRows(x) /\ thread[x].to = "Committing"
    BY <2>1, <2>2, UnlockedBy
  <2>4. <<x, r>> \notin lockKey
    BY <2>3 DEF LockInv, Recorded
  <2>5. thread'[x].pc = "getGlobal"
    BY <2>3 DEF ReleaseRows, TypeOK, Call
  <2> QED BY <1>1, <2>3, <2>4, <2>5 DEF ReleaseRows
<1>2. CASE <<x, r>> \in lockKey' /\ gs'[x] \in {"Unborn", "Begin"}
  <2>1. gs[x] \in {"Unborn", "Begin"}
    BY <1>2, DecidedStays DEF Decided, TypeOK, GlobalStatus
  <2>2. <<x, r>> \notin lockKey
    BY <1>1, <2>1
  <2>3. ASSUME NEW b \in Branch, BranchRegistered(b) PROVE FALSE
    BY <1>2, <2>2, <2>3, Locks DEF PInv
  <2> QED BY <1>2, <2>2, <2>3, LockMoves DEF PInv, GlobalCommit, ReleaseRows, ReleaseRow, ReleaseTxn
<1>3. CASE thread'[x].pc = "releaseRows" /\ r \in thread'[x].rows
  <2>1. thread'[x].to = "Committing"
    BY <1>3 DEF Calls, CallOf
  <2>2. CASE thread'[x] = thread[x]
    BY <1>1, <1>3, <2>2
  <2>3. CASE client[x] = "active" /\ GlobalCommit(x, x)
    <3>1. <<x, r>> \in lockKey
      BY <1>3, <2>3 DEF GlobalCommit, TypeOK
    <3>2. gs[x] = "Begin"
      BY <2>3 DEF PInv, Turns
    <3> QED BY <1>1, <3>1, <3>2
  <2>4. CASE ReleaseRows(x)
    BY <1>3, <2>4 DEF ReleaseRows, TypeOK, Call
  <2> QED BY <1>3, <2>1, <2>2, <2>3, <2>4, CommitMoves
<1> QED
  BY <1>2, <1>3

\* A filter that has deleted its branch goes on to the index key.
LEMMA UnindexGoesOn ==
  ASSUME Patient, TypeOK, CallShape, Shape, PInv, [TMNext]_tmVars, NEW b \in Branch,
         thread[b].pc = "unindex", b \in branchKey'
  PROVE  thread'[b].pc = "unindex"
<1> USE Goroutines
<1>1. thread[b] # Idle /\ local[b] = "aborted" /\ thread[b].b = b
  BY IdleFields, BusyBranch DEF PInv, PhaseOneOK
<1>2. ~Driver(b)
  BY <1>1, RequestEffect DEF Driver, Reports, Looks, Collects
<1>3. ~PhaseOne(b)
  BY <1>1 DEF PhaseOne, BranchStart, BranchRegister, BranchRegistered, AddBranchTxn,
     InsertUndoLog, LocalCommit, LocalAbort, TryFails
<1> QED
  BY <1>2, <1>3, BranchMoves DEF PInv

\* No branch an undecided transaction has listed is deleted.
LEMMA ListedStays ==
  ASSUME TypeOK, CallShape, Shape, PInv, SteadyInv, SessionStep,
         NEW t \in Thread, thread[t].pc = "getBranches", NEW b \in thread[t].keys
  PROVE  Exists(b)'
<1>1. /\ thread[t].x \in XID /\ gs[thread[t].x] = "Begin" /\ Quiescent(thread[t].x)
      /\ b \in BranchesOf(thread[t].x)
  BY Deciding DEF PInv, Lists, DecisionPc
<1>2. b \in Branch /\ gs[XidOf[b]] = "Begin" /\ thread[b] = Idle
  BY <1>1 DEF BranchesOf, Quiescent, InFlight
<1>3. Exists(b)
  BY DEF SteadyInv, Indexed
<1> USE DEF TypeOK, Exists
<1>4. ASSUME NEW c \in Branch, Dropped(c) PROVE Exists(b)'
  BY <1>2, <1>3, <1>4, IdleFields DEF Dropped, PInv, PhaseOneOK
<1>5. ASSUME NEW c \in Branch, Ended(c) \/ GivenUp(c) PROVE Exists(b)'
  <2>1. c # b
    BY <1>2, <1>5 DEF Ended, GivenUp, PInv, Statuses, Allowed
  <2> QED BY <1>2, <1>3, <1>5, <2>1 DEF Ended, GivenUp
<1>6. ASSUME NEW c \in Branch, Born(c) \/ Failed(c) \/ Unindexed(c) PROVE Exists(b)'
  BY <1>2, <1>3, <1>6 DEF Born, Failed, Unindexed
<1>7. ASSUME NEW y \in XID, NEW to \in {"Committing", "Rollbacking"},
             Opened(y) \/ Forgotten(y) \/ Settled(y, to) PROVE Exists(b)'
  BY <1>2, <1>3, <1>7 DEF Opened, Forgotten, Settled, PhaseTwo
<1>8. UNCHANGED <<gs, bs, branchKey>> => Exists(b)'
  BY <1>3
<1> QED
  BY <1>4, <1>5, <1>6, <1>7, <1>8 DEF SessionStep

\* The index of an undecided transaction is true, but for deletions under way.
LEMMA IndexedNext ==
  ASSUME Patient, Steady, TypeOK, CallShape, Shape, PInv, SteadyInv, SessionStep, [TMNext]_tmVars
  PROVE  Indexed'
<1> USE Goroutines
<1>i. Indexed
  BY DEF SteadyInv
<1>1. ASSUME NEW b \in Branch, gs'[XidOf[b]] = "Begin", b \in branchKey', bs'[b] = "Gone"
      PROVE  thread'[b].pc = "unindex"
  <2>0. XidOf[b] \in XID
    BY XidOfAssumption
  <2>1. gs[XidOf[b]] \in {"Unborn", "Begin"}
    BY <1>1, <2>0, DecidedStays DEF Decided, TypeOK, GlobalStatus
  <2>2. ASSUME bs[b] = "Gone", b \in branchKey PROVE thread'[b].pc = "unindex"
    <3>1. gs[XidOf[b]] = "Begin"
      BY <2>1, <2>2 DEF PInv, Statuses, Allowed
    <3> QED BY <1>i, <1>1, <2>2, <3>1, UnindexGoesOn DEF Indexed
  <2> USE DEF TypeOK
  <2>3. ASSUME NEW c \in Branch, Dropped(c) PROVE thread'[b].pc = "unindex"
    <3>1. ~(bw.pc = "delete" /\ bw.st = "Begin")
      BY SteadyHand DEF SteadyInv
    <3> QED BY <1>1, <2>2, <2>3, <3>1 DEF Dropped
  <2>4. ASSUME NEW c \in Branch, Ended(c) \/ GivenUp(c) PROVE thread'[b].pc = "unindex"
    <3>1. c # b
      BY <2>1, <2>4 DEF Ended, GivenUp, PInv, Statuses, Allowed
    <3> QED BY <1>1, <2>2, <2>4, <3>1 DEF Ended, GivenUp
  <2>5. ASSUME NEW c \in Branch, Born(c) \/ Failed(c) \/ Unindexed(c)
        PROVE  thread'[b].pc = "unindex"
    BY <1>1, <2>2, <2>5 DEF Born, Failed, Unindexed
  <2>6. ASSUME NEW y \in XID, NEW to \in {"Committing", "Rollbacking"},
               Opened(y) \/ Forgotten(y) \/ Settled(y, to) PROVE thread'[b].pc = "unindex"
    BY <1>1, <2>2, <2>6 DEF Opened, Forgotten, Settled, PhaseTwo
  <2> QED BY <1>1, <2>2, <2>3, <2>4, <2>5, <2>6 DEF SessionStep
<1>2. ASSUME NEW t \in Thread, thread'[t].pc = "getBranches", NEW b \in thread'[t].keys
      PROVE  Exists(b)'
  <2>0. thread'[t] # Idle
    BY <1>2, IdleFields
  <2>1. CASE thread[t].pc = "getBranches" /\ b \in thread[t].keys
    BY <2>1, ListedStays
  <2>2. CASE Driver(t)
    <3>1. Collects(t) /\ UNCHANGED bs
      BY <1>2, <2>0, <2>2, RequestEffect DEF Driver, Reports, Looks, GoesOn
    <3>2. CASE thread[t].pc = "getKeys" /\ thread'[t].keys = Keys(thread[t].x)
      <4>1. /\ thread[t].x \in XID /\ gs[thread[t].x] = "Begin" /\ Quiescent(thread[t].x)
        BY <3>2, Deciding DEF PInv, DecisionPc
      <4>2. b \in branchKey /\ b \in Branch /\ gs[XidOf[b]] = "Begin" /\ thread[b] = Idle
        BY <3>2, <4>1 DEF Keys, BranchesOf, Quiescent, InFlight
      <4>3. bs[b] \notin {"Unborn", "Gone"}
        BY <1>i, <4>2, IdleFields DEF Indexed, PInv, PhaseOneOK
      <4> QED BY <3>1, <4>3 DEF Exists
    <3> QED BY <1>2, <2>0, <2>1, <3>1, <3>2 DEF Collects
  <2>3. CASE Starts(t)
    BY <1>2, <2>3, StartEffect, WorkerStarts DEF Starts, Begins
  <2> QED BY <1>2, <2>0, <2>1, <2>2, <2>3, ThreadMoves
<1>3. ASSUME NEW b \in Branch, local'[b] = "committed" PROVE bs'[b] # "Unborn"
  <2>1. CASE local[b] = "committed"
    BY <1>i, <2>1, BornStays DEF Indexed
  <2>2. CASE local[b] # "committed"
    <3>1. ~Driver(b)
      BY <1>3, <2>2 DEF Driver, LeaderDies, phaseOne
    <3>2. LocalCommit(b)
      BY <1>3, <2>2, <3>1, BranchMoves DEF PInv, PhaseOne, BranchStart, BranchRegister,
         BranchRegistered, InsertUndoLog, LocalAbort, TryFails, Shape, SystemTypeOK
    <3>3. bs[b] # "Unborn" /\ UNCHANGED bs
      BY <3>2 DEF LocalCommit, PInv, PhaseOneOK, vars
    <3> QED BY <3>3
  <2> QED BY <2>1, <2>2
<1> QED
  BY <1>1, <1>2, <1>3 DEF Indexed, Exists

\* Nothing is written or queued at first.
LEMMA InitSteadyInv == TMInit => SteadyInv
BY NoneAssumption, Goroutines DEF TMInit, Init, SteadyInv, Working, Once, Held, Unlocks, Named,
   Indexed, Idle, NoWork, Elected, Down

\* Every step keeps the invariant about writes and their locks.
LEMMA SteadyInvNext ==
  ASSUME Patient, Steady, Apart, IndInv, Shape, PInv, LockInv, SteadyInv, [TMNext]_tmVars
  PROVE  SteadyInv'
<1>1. SessionStep /\ Calls'
  BY SessionSteps, CallsNext DEF IndInv, PInv
<1>2. Working'
  BY SteadyLeader DEF PInv, SteadyInv
<1> QED
  BY <1>1, <1>2, OnceNext, HeldNext, UnlocksNext, NamedNext, IndexedNext DEF SteadyInv, IndInv

\* Both invariants hold always.
LEMMA SteadyInvariance ==
  ASSUME Patient, Apart, Steady PROVE TMSpec => [](LockInv /\ SteadyInv)
<1>1. TMInv /\ PInv /\ LockInv /\ SteadyInv /\ [TMNext]_tmVars => LockInv' /\ SteadyInv'
  BY LockInvNext, SteadyInvNext DEF TMInv
<1> QED
  BY <1>1, InitLockInv, InitSteadyInv, SystemInvariance, PatientInvariance, PTL DEF TMSpec

\* Isolation: as long as a write may be rolled back, its rows are locked by its
\* global transaction.
THEOREM Isolation ==
  ASSUME Patient, Apart, Steady, ~(Unlock /\ "dead" \in Faults)
  PROVE  TMSpec => []WritesAreLocked
<1>1. TMInv /\ PInv /\ SteadyInv => WritesAreLocked
  <2> SUFFICES ASSUME Shape, PInv, SteadyInv, NEW b \in writes, NEW r \in RowsOf[b],
                      gs[XidOf[b]] \in {"Begin", "Rollbacking"}, ~CommitCalled(XidOf[b])
               PROVE  rowKey[r] = XidOf[b]
    BY DEF WritesAreLocked, TMInv
  <2>1. b \in Branch /\ bs[b] # "Unborn" /\ <<b, "rollback">> \notin second
    BY DEF Shape, SystemTypeOK, PInv, Databases, SteadyInv, Indexed
  <2> QED BY <2>1 DEF SteadyInv, Held, Released
<1> QED
  BY <1>1, SteadyInvariance, SystemInvariance, PatientInvariance, PTL

\* The branch worker never unlocks a row that another global transaction holds.
THEOREM WorkerReleasesOwn ==
  ASSUME Patient, Apart, Steady PROVE TMSpec => ReleasesOwnLocks
<1>1. SteadyInv => \A r \in Row : ReleaseRow(BQ, r) /\ bw.b # None
                                    => rowKey[r] \in {None, XidOf[bw.b]}
  BY DEF SteadyInv, Unlocks, ReleaseRow
<1> QED
  BY <1>1, SteadyInvariance, PTL DEF TMSpec, ReleasesOwnLocks
=============================================================================

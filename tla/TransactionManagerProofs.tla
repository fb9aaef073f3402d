---------------------- MODULE TransactionManagerProofs ----------------------
(***************************************************************************)
(* Two things about the whole system.  With any faults, every behaviour of *)
(* it is one of the storage driver, so the theorems of EtcdStoreProofs     *)
(* hold of it.  And under the faults of Patient, the sessions of global    *)
(* transactions and of their branches: the inductive invariant PInv, what  *)
(* every step does to the sessions in etcd (SessionStep), and that phase   *)
(* one and the statuses keep their part of the invariant.  DecisionProofs  *)
(* proves the other parts and what follows.                                *)
(***************************************************************************)
EXTENDS TransactionManager, EtcdStoreProofs

\* The workers of the leader know what they are working on, and only the
\* recovery works on a branch that is not in phase two.
Handles ==
  /\ gq.pc # "idle" => gq.x \in XID
  /\ bw.pc # "idle" => bw.b \in Branch
  /\ bw.pc = "work" => bw.st # "Begin"
  /\ bw.pc # "idle" /\ lead.st # "branch" => bw.st # "Begin"

Shape == SystemTypeOK /\ Handles

\* The goroutines of the system are goroutines of the driver.
LEMMA Goroutines == /\ Branch \subseteq Thread
                    /\ XID \subseteq Thread
                    /\ GQ \in Thread
                    /\ BQ \in Thread
BY ThreadAssumption

\* Phase one calls the driver or leaves the store alone.
LEMMA PhaseOneSteps ==
  ASSUME NEW b \in Branch, PhaseOne(b) PROVE [Next]_vars
BY Goroutines
DEF PhaseOne, BranchStart, BranchRegister, BranchRegistered, InsertUndoLog,
    LocalCommit, LocalAbort, TryFails, Next

\* So do the clients.
LEMMA ClientSteps ==
  ASSUME NEW x \in XID, Client(x) \/ NextGlobalSession(x) PROVE [Next]_vars
BY Goroutines
DEF Client, ClientEnds, GlobalBegin, ClientCommit, ClientRollback,
    ClientVanishes, Tick, NextGlobalSession, Next

\* branchRollback releases rows of branches.
LEMMA ReleasedRows ==
  ASSUME NEW b \in Branch, NEW L \in SUBSET Branch
  PROVE  RowsToRelease(b, L) \in SUBSET Row
<1>1. \A c \in L : RowsOf[c] \in SUBSET Row
  BY RowsOfAssumption
<1>2. UNION {RowsOf[c] : c \in L} \in SUBSET Row
  BY <1>1, Zenon
<1> QED
  BY <1>2, RowsOfAssumption DEF RowsToRelease

\* Undo changes what is stored in databases and nothing else.
LEMMA RollbackShape ==
  ASSUME Shape, NEW b \in Branch, NEW L, Rollback(b, L)
  PROVE  /\ undo' \in SUBSET Branch
         /\ writes' \in SUBSET Branch
         /\ over' \in SUBSET (Branch \X Branch)
         /\ second' \in SUBSET (Branch \X {"commit", "rollback"})
BY DEF Shape, SystemTypeOK, Rollback, Undone, Executed

\* The death of the leader leaves no work behind.
LEMMA LeaderDiesShape == Shape /\ LeaderDies => Shape'
BY DEF Shape, SystemTypeOK, Handles, LeaderDies, NoWork, NoTimer, Down,
       phaseOne, database

\* What Updates hands to the queue are items.
LEMMA UpdatesAreItems ==
  ASSUME NEW t \in Thread, TypeOK PROVE Updates(t) \in SUBSET Item
BY DEF Updates, PhaseTwo, Item, TypeOK, Call

\* Every step keeps the shape of the variables of the system.
LEMMA ShapeNext == Shape /\ TypeOK /\ [TMNext]_tmVars => Shape'
<1> SUFFICES ASSUME Shape, TypeOK, [TMNext]_tmVars PROVE Shape'
  OBVIOUS
<1> USE Goroutines
    DEF Shape, SystemTypeOK, Handles, phaseOne, database, leading
<1>1. ASSUME NEW b \in Branch, BranchStart(b) PROVE Shape'
  BY <1>1 DEF BranchStart
<1>2. ASSUME NEW b \in Branch, BranchRegister(b) PROVE Shape'
  BY <1>2 DEF BranchRegister
<1>3. ASSUME NEW b \in Branch, BranchRegistered(b) PROVE Shape'
  BY <1>3 DEF BranchRegistered
<1>4. ASSUME NEW b \in Branch, InsertUndoLog(b) PROVE Shape'
  BY <1>4 DEF InsertUndoLog
<1>5. ASSUME NEW b \in Branch, LocalCommit(b) PROVE Shape'
  BY <1>5 DEF LocalCommit
<1>6. ASSUME NEW b \in Branch, LocalAbort(b) PROVE Shape'
  BY <1>6 DEF LocalAbort
<1>7. ASSUME NEW b \in Branch, TryFails(b) PROVE Shape'
  BY <1>7 DEF TryFails
<1>8. ASSUME NEW x \in XID, GlobalBegin(x) PROVE Shape'
  BY <1>8 DEF GlobalBegin
<1>9. ASSUME NEW x \in XID, ClientCommit(x) PROVE Shape'
  BY <1>9 DEF ClientCommit
<1>10. ASSUME NEW x \in XID, ClientRollback(x) PROVE Shape'
  BY <1>10 DEF ClientRollback
<1>11. ASSUME NEW x \in XID, ClientVanishes(x) PROVE Shape'
  BY <1>11 DEF ClientVanishes
<1>12. ASSUME NEW x \in XID, Tick(x) PROVE Shape'
  BY <1>12 DEF Tick
<1>13. ASSUME NEW x \in XID, NextGlobalSession(x) PROVE Shape'
  BY <1>13 DEF NextGlobalSession, NoTimer
<1>14. ASSUME NEW i \in queue, NextBranchSession(i) PROVE Shape'
  <2>1. PICK pc \in {"work", "unlock"} :
          bw' = [NoWork EXCEPT !.pc = pc, !.b = i.b, !.st = i.st, !.by = i.by]
    BY <1>14 DEF NextBranchSession
  <2>2. i \in Item
    OBVIOUS
  <2> QED
    BY <1>14, <2>1, <2>2 DEF NextBranchSession, NoWork, Item
<1>15. ASSUME TimeoutRollback PROVE Shape'
  BY <1>15 DEF TimeoutRollback
<1>16. ASSUME TimeoutRequeue PROVE Shape'
  BY <1>16 DEF TimeoutRequeue, NoTimer
<1>17. ASSUME TimeoutKeys PROVE Shape'
  BY <1>17 DEF TimeoutKeys, NoTimer
<1>18. ASSUME TimeoutDelete PROVE Shape'
  BY <1>18 DEF TimeoutDelete, NoTimer
<1>19. ASSUME BranchCommit PROVE Shape'
  BY <1>19 DEF BranchCommit, UndoLogs, Executed
<1>20. ASSUME BranchRollback PROVE Shape'
  <2> DEFINE L == UndoLogs(XidOf[bw.b], ResOf[bw.b])
             rows == IF AT(bw.b) THEN RowsToRelease(bw.b, L) ELSE {}
  <2>1. bw.b \in Branch /\ bw.pc = "work"
    BY <1>20 DEF BranchRollback
  <2>2. L \in SUBSET Branch
    BY DEF UndoLogs
  <2>3. rows \in SUBSET Row
    <3> HIDE DEF L
    <3> QED BY <2>1, <2>2, ReleasedRows
  <2>4. bw' = [bw EXCEPT !.pc = "release", !.logs = (L # {}), !.rows = rows]
    BY <1>20 DEF BranchRollback
  <2>5. /\ undo' \in SUBSET Branch
        /\ writes' \in SUBSET Branch
        /\ over' \in SUBSET (Branch \X Branch)
        /\ second' \in SUBSET (Branch \X {"commit", "rollback"})
    BY <1>20, <2>1, RollbackShape DEF BranchRollback
  <2>6. UNCHANGED <<phaseOne, expired, timer, gq, queue, lead>>
    BY <1>20 DEF BranchRollback
  <2> QED
    <3> HIDE DEF L, rows
    <3> QED BY <2>1, <2>3, <2>4, <2>5, <2>6
<1>21. ASSUME PhaseTwoFails PROVE Shape'
  BY <1>21 DEF PhaseTwoFails, Requeue, NoWork, Item
<1>22. ASSUME UndoAnswerLost PROVE Shape'
  <2>1. bw.b \in Branch
    BY <1>22 DEF UndoAnswerLost
  <2>2. /\ undo' \in SUBSET Branch
        /\ writes' \in SUBSET Branch
        /\ over' \in SUBSET (Branch \X Branch)
        /\ second' \in SUBSET (Branch \X {"commit", "rollback"})
    BY <1>22, <2>1, RollbackShape DEF UndoAnswerLost
  <2> QED
    BY <1>22, <2>2 DEF UndoAnswerLost, Requeue, NoWork, Item
<1>23. ASSUME BranchRelease PROVE Shape'
  BY <1>23 DEF BranchRelease
<1>24. ASSUME BranchDelete PROVE Shape'
  BY <1>24 DEF BranchDelete, NoWork
<1>25. ASSUME DeadUnlock PROVE Shape'
  BY <1>25 DEF DeadUnlock
<1>26. ASSUME DeadBranch PROVE Shape'
  BY <1>26 DEF DeadBranch, NoWork
<1>27. ASSUME NEW t \in Thread, Driver(t) PROVE Shape'
  BY <1>27, LeaderDiesShape DEF Driver
<1>28. ASSUME NEW t \in Thread, Decide(t) PROVE Shape'
  <2>1. queue' \in SUBSET Item
    BY <1>28, UpdatesAreItems DEF Decide
  <2>2. lead.replay \cup Updates(t) \in SUBSET Item
    BY UpdatesAreItems
  <2>3. lead' = IF lead.st = "branch"
                  THEN [lead EXCEPT !.replay = lead.replay \cup Updates(t)]
                  ELSE lead
    BY <1>28 DEF Decide
  <2> QED
    BY <1>28, <2>1, <2>2, <2>3 DEF Decide
<1>29. ASSUME NEW t \in Thread, DriverFails(t) PROVE Shape'
  <2>1. CASE LeaderDies
    BY <2>1, LeaderDiesShape
  <2>2. CASE ~LeaderDies
    <3>1. /\ UNCHANGED <<client, database, expired, timer, gq, lead>>
          /\ local' = IF t \in Branch /\ thread[t].pc = "filterRowKeys"
                       THEN [local EXCEPT ![t] = "aborted"] ELSE local
      BY <1>29, <2>2 DEF DriverFails
    <3>2. CASE UNCHANGED <<queue, bw>>
      BY <3>1, <3>2
    <3>3. CASE /\ Working
               /\ bw.pc = "delete"
               /\ Requeue
      BY <3>1, <3>3 DEF Working, Requeue, NoWork, Item
    <3> QED
      BY <1>29, <2>2, <3>2, <3>3 DEF DriverFails
  <2> QED
    BY <2>1, <2>2
<1>30. ASSUME Elect PROVE Shape'
  BY <1>30 DEF Elect, Down, RecoveredTimer
<1>31. ASSUME NEW x \in XID, RecoverRollback(x) PROVE Shape'
  <2>1. CASE LeaderDies
    BY <2>1, LeaderDiesShape
  <2>2. CASE ~LeaderDies
    BY <1>31, <2>2 DEF RecoverRollback
  <2> QED
    BY <2>1, <2>2
<1>32. ASSUME NEW x \in XID, RecoverKeys(x) PROVE Shape'
  BY <1>32 DEF RecoverKeys
<1>33. ASSUME NEW x \in XID, RecoverDelete(x) PROVE Shape'
  BY <1>33 DEF RecoverDelete
<1>34. ASSUME RecoverBranches PROVE Shape'
  <2> DEFINE failed == {b \in Branch : bs[b] = "PhaseOneFailed"}
  <2>1. PICK D \in SUBSET {b \in Branch : bs[b] = "PhaseTwoRollbacking"} :
          /\ queue' = {[b |-> b, st |-> bs[b], by |-> None] :
                         b \in {c \in Branch \ D : InPhaseTwo(c)}}
          /\ lead' = [lead EXCEPT !.st = "branch",
                        !.branches = [b : failed, pc : {"delete"}]
                                       \cup [b : D, pc : {"unlock"}]]
    BY <1>34 DEF RecoverBranches
  <2>2. queue' \in SUBSET Item
    BY <2>1 DEF InPhaseTwo, Item
  <2>3. [b : failed, pc : {"delete"}] \cup [b : D, pc : {"unlock"}]
          \in SUBSET [b : Branch, pc : {"delete", "unlock"}]
    OBVIOUS
  <2>4. /\ lead' \in [st : {"down", "global", "branch", "watching", "deaf"},
              sessions : SUBSET [x : XID, pc : {"rollback", "keys", "delete"}],
              branches : SUBSET [b : Branch, pc : {"delete", "unlock"}],
              replay : SUBSET Item]
        /\ lead'.st = "branch"
    <3> HIDE DEF failed
    <3> QED BY <2>1, <2>3
  <2> QED
    BY <1>34, <2>2, <2>4 DEF RecoverBranches
<1>35. ASSUME NEW e \in lead.branches, RecoverBranch(e) PROVE Shape'
  BY <1>35 DEF RecoverBranch, NoWork
<1>36. ASSUME WatchBranchSessions PROVE Shape'
  <2>1. queue' \in SUBSET Item
    BY <1>36 DEF WatchBranchSessions
  <2>2. lead' = Elected /\ bw = NoWork /\ UNCHANGED bw
    BY <1>36 DEF WatchBranchSessions
  <2> QED
    BY <1>36, <2>1, <2>2 DEF WatchBranchSessions, Elected, Down, NoWork
<1>37. ASSUME Crash PROVE Shape'
  BY <1>37 DEF Crash, LeaderDies, NoWork, NoTimer, Down
<1>38. ASSUME DeletePanics PROVE Shape'
  BY <1>38 DEF DeletePanics, LeaderDies, NoWork, NoTimer, Down
<1>39. ASSUME ListDeadBranchSession PROVE Shape'
  BY <1>39 DEF ListDeadBranchSession
<1>40. ASSUME WatchBreaks PROVE Shape'
  BY <1>40 DEF WatchBreaks
<1>41. CASE UNCHANGED tmVars
  BY <1>41 DEF tmVars
<1> QED
  BY <1>1, <1>2, <1>3, <1>4, <1>5, <1>6, <1>7, <1>8, <1>9, <1>10, <1>11,
     <1>12, <1>13, <1>14, <1>15, <1>16, <1>17, <1>18, <1>19, <1>20, <1>21,
     <1>22, <1>23, <1>24, <1>25, <1>26, <1>27, <1>28, <1>29, <1>30, <1>31,
     <1>32, <1>33, <1>34, <1>35, <1>36, <1>37, <1>38, <1>39, <1>40, <1>41
  DEF TMNext, PhaseOne, Client, ClientEnds, Timeout, PhaseTwoWork, Recovery

---------------------------------------------------------------------------
\* The workers of the leader, its timeouts and its recovery call the driver or
\* leave the store alone.
LEMMA TimeoutSteps == Shape /\ Timeout => [Next]_vars
BY Goroutines
DEF Shape, Handles, Timeout, TimeoutRollback, TimeoutRequeue, TimeoutKeys,
    TimeoutDelete, Next

\* The phase two worker calls the driver or leaves the store alone.
LEMMA PhaseTwoSteps == Shape /\ PhaseTwoWork => [Next]_vars
<1> SUFFICES ASSUME Shape, PhaseTwoWork PROVE [Next]_vars
  OBVIOUS
<1> USE Goroutines DEF Shape, Handles
<1>1. ASSUME NEW rows \in SUBSET Row, ReleaseLockKeys(BQ, rows)
      PROVE  [Next]_vars
  BY <1>1 DEF Next
<1>2. CASE PhaseTwoFails \/ UndoAnswerLost
  <2>1. bw.b \in Branch
    BY <1>2 DEF PhaseTwoFails, UndoAnswerLost
  <2>2. PICK S \in SUBSET UndoLogs(XidOf[bw.b], ResOf[bw.b]) :
          ReleaseUndone(S)
    BY <1>2 DEF PhaseTwoFails, UndoAnswerLost
  <2>3. S \in SUBSET Branch
    BY DEF UndoLogs, SystemTypeOK
  <2>4. RowsToRelease(bw.b, S) \in SUBSET Row
    BY <2>1, <2>3, ReleasedRows
  <2> QED
    BY <1>1, <2>2, <2>4 DEF ReleaseUndone
<1>3. CASE BranchRelease
  BY <1>1, <1>3 DEF BranchRelease, SystemTypeOK
<1>4. CASE DeadUnlock
  BY <1>1, <1>4, RowsOfAssumption DEF DeadUnlock
<1>5. CASE BranchDelete \/ DeadBranch
  BY <1>5 DEF BranchDelete, DeadBranch, Next
<1>6. CASE BranchCommit \/ BranchRollback
  BY <1>6 DEF BranchCommit, BranchRollback
<1> QED
  BY <1>2, <1>3, <1>4, <1>5, <1>6 DEF PhaseTwoWork

\* The recovery of a new leader calls the driver or leaves the store alone.
LEMMA RecoverySteps == Shape /\ Recovery => [Next]_vars
BY Goroutines
DEF Recovery, Elect, RecoverRollback, RecoverKeys, RecoverDelete,
    RecoverBranches, RecoverBranch, WatchBranchSessions, Next

\* The requests of calls in progress are steps of the driver, whether they succeed or fail.
LEMMA DriverSteps ==
  ASSUME NEW t \in Thread, Driver(t) \/ Decide(t) \/ DriverFails(t)
  PROVE  [Next]_vars
BY DEF Driver, Decide, DriverFails, Next

\* A crash ends calls, and a panic ends the call it happens in.
LEMMA CrashSteps == Crash \/ DeletePanics => [Next]_vars
BY Goroutines DEF Crash, DeletePanics, Next

\* Every step of the system is a step of the driver.
LEMMA StoreStep == Shape /\ [TMNext]_tmVars => [Next]_vars
<1> SUFFICES ASSUME Shape, [TMNext]_tmVars PROVE [Next]_vars
  OBVIOUS
<1>1. CASE UNCHANGED tmVars
  BY <1>1 DEF tmVars
<1>2. CASE ListDeadBranchSession \/ WatchBreaks
  BY <1>2 DEF ListDeadBranchSession, WatchBreaks
<1>3. CASE \E i \in queue : NextBranchSession(i)
  BY <1>3 DEF NextBranchSession
<1> QED
  BY <1>1, <1>2, <1>3, PhaseOneSteps, ClientSteps, TimeoutSteps,
     PhaseTwoSteps, RecoverySteps, DriverSteps, CrashSteps DEF TMNext

---------------------------------------------------------------------------
(***************************************************************************)
(* Theorems                                                                *)
(***************************************************************************)
TMInv == IndInv /\ Shape

\* The invariant of the driver and the shape of the rest of the system hold
\* together, whatever faults happen.
THEOREM SystemInvariance == TMSpec => []TMInv
<1>1. TMInit => TMInv
  BY InitIndInv DEF TMInit, TMInv, Shape, SystemTypeOK, Handles, NoTimer,
     NoWork, Elected, Down
<1>2. TMInv /\ [TMNext]_tmVars => TMInv'
  BY ShapeNext, StoreStep, TypeNext, IndInvNext DEF TMInv, IndInv
<1> QED
  BY <1>1, <1>2, PTL DEF TMSpec

\* The whole system is type correct.
THEOREM SystemTypeCorrect == TMSpec => []TMTypeOK
<1>1. TMInv => TMTypeOK
  BY DEF TMInv, IndInv, Shape, TMTypeOK
<1> QED
  BY <1>1, SystemInvariance, PTL

\* Whatever the clients, the workers and the recovery do, and whatever
\* faults happen, the storage driver is only used as EtcdStore says.
THEOREM SystemUsesDriver == TMSpec => Spec
<1>1. TMInit => Init
  BY DEF TMInit
<1>2. TMInv /\ [TMNext]_tmVars => [Next]_vars
  BY StoreStep DEF TMInv
<1> QED
  BY <1>1, <1>2, SystemInvariance, PTL DEF TMSpec, Spec

\* In the whole system, a branch is born only while its global session is in
\* status Begin.
THEOREM SystemBornWhileBegin == TMSpec => RegisterOnlyWhileBegin
BY SystemUsesDriver, BornWhileBegin

\* In the whole system, the decision finds every Registered branch: its key is
\* indexed under its global session.
THEOREM SystemRegisteredIsIndexed == TMSpec => []RegisteredIsIndexed
BY SystemUsesDriver, RegisteredAlwaysIndexed

\* In the whole system, no branch ever takes over a row another global
\* transaction has locked.
THEOREM SystemNoTakeover == TMSpec => LocksPassThroughFree
BY SystemUsesDriver, NoTakeover

---------------------------------------------------------------------------
(* The sessions.                                                             *)

\* The faults under which a decision is final and complete: the timeout of a
\* global transaction does not pass while it is in use, a client does not roll
\* back while its branches run, etcd answers, the leader crashes only when no
\* client is active, and serves the clients itself.  Databases and services
\* may fail, rollbacks be given up, and the watch break or start late.
Patient ==
  Faults \cap {"timeout", "clientRace", "etcdError", "crash", "standby"} = {}

\* The points at which a call of GlobalCommit or GlobalRollback may be.
DecisionPc == {"releaseRows", "getGlobal", "getKeys", "getBranches"}

\* A call c that goroutine t may be executing.
CallOf(t, c) ==
  /\ c.pc = "idle" => c = Idle
  /\ c.pc # "getBranches" => c.keys = {} /\ c.puts = {}
  /\ IF c.pc \in DecisionPc THEN c.to \in {"Committing", "Rollbacking"}
                             ELSE c.x = None
  /\ c.pc \in {"releaseRows", "getGlobal"} => c.to = "Committing"
  /\ t \in Branch =>
       /\ c.pc \in {"idle", "filterRowKeys", "put", "delete", "unindex"}
       /\ c.pc # "idle" => c.b = t
  /\ t \in XID =>
       /\ c.pc \in {"idle"} \cup DecisionPc
       /\ c.pc # "idle" => c.x = t
  /\ t = GQ =>
       /\ c.pc \in {"idle", "getKeys", "getBranches"}
       /\ c.pc # "idle" => c.to = "Rollbacking"
  /\ t = BQ => c.pc \in {"idle", "unindex", "release"}

\* Every goroutine executes a call it may execute.
Calls == \A t \in Thread : CallOf(t, thread[t])

\* What is in the record of a goroutine that executes no call.
LEMMA IdleFields ==
  /\ Idle.pc = "idle" /\ Idle.x = None /\ Idle.b = None
  /\ Idle.rows = {} /\ Idle.keys = {} /\ Idle.puts = {}
BY DEF Idle

\* A step in which no goroutine but t moves.
Only(t) == \A u \in Thread \ {t} : thread'[u] = thread[u]

\* A call that goes on at pc, on the same branch or global transaction.
GoesOn(t, pc) ==
  /\ thread'[t].pc = pc
  /\ thread'[t].x = thread[t].x
  /\ thread'[t].b = thread[t].b
  /\ thread'[t].to = thread[t].to
  /\ pc # "getBranches" => /\ thread'[t].keys = thread[t].keys
                           /\ thread'[t].puts = thread[t].puts

\* A request that has no effect on the branch sessions and their index.
Looks(t) ==
  \/ thread[t].pc = "filterRowKeys" /\ GoesOn(t, "filterRowKeys")
  \/ thread[t].pc = "release" /\ (GoesOn(t, "release") \/ thread'[t] = Idle)
  \/ thread[t].pc = "releaseRows" /\ GoesOn(t, "getGlobal")
  \/ /\ thread[t].pc = "getGlobal"
     /\ IF gs[thread[t].x] = "Begin" THEN GoesOn(t, "getKeys")
                                     ELSE thread'[t] = Idle

\* A request of a decision.
Collects(t) ==
  \/ /\ thread[t].pc = "getKeys"
     /\ GoesOn(t, "getBranches")
     /\ thread'[t].keys = Keys(thread[t].x)
     /\ thread'[t].puts = thread[t].puts
  \/ /\ thread[t].pc = "getBranches"
     /\ \E b \in thread[t].keys :
          IF Exists(b)
            THEN /\ GoesOn(t, "getBranches")
                 /\ thread'[t].keys = thread[t].keys \ {b}
                 /\ thread'[t].puts = IF bs[b] = "Registered"
                                        THEN thread[t].puts \cup {b}
                                        ELSE thread[t].puts
            ELSE thread'[t] = Idle

\* A request that changes a branch session or its index key.
Reports(t) ==
  LET b == thread[t].b
  IN  \/ /\ thread[t].pc = "put" /\ GoesOn(t, "delete")
         /\ bs' = [bs EXCEPT ![b] = "PhaseOneFailed"]
         /\ UNCHANGED branchKey
      \/ /\ thread[t].pc = "delete"
         /\ IF Exists(b)
              THEN GoesOn(t, "unindex") /\ bs' = [bs EXCEPT ![b] = "Gone"]
              ELSE thread'[t] = Idle /\ UNCHANGED bs
         /\ UNCHANGED branchKey
      \/ /\ thread[t].pc = "unindex" /\ thread'[t] = Idle
         /\ UNCHANGED bs
         /\ branchKey' = branchKey \ {b}

\* The requests of calls in progress.
LEMMA RequestEffect ==
  ASSUME TypeOK, CallShape, NEW t \in Thread, Request(t)
  PROVE  /\ Only(t) /\ UNCHANGED <<gs, ver, deadKey>>
         /\ Reports(t) \/ ((Looks(t) \/ Collects(t)) /\ UNCHANGED <<bs, branchKey>>)
<1> DEFINE Goal == /\ Only(t) /\ UNCHANGED <<gs, ver, deadKey>>
                   /\ \/ Reports(t)
                      \/ (Looks(t) \/ Collects(t)) /\ UNCHANGED <<bs, branchKey>>
<1>0. thread \in [Thread -> Call] /\ \A u \in Thread : thread[u] \in Call
  BY DEF TypeOK
<1> SUFFICES Goal
  OBVIOUS
<1>1. ASSUME NEW r \in Row, FilterRowKey(t, r) \/ ReleaseRow(t, r) PROVE Goal
  BY <1>0, <1>1 DEF FilterRowKey, ReleaseRow, Only, Looks, GoesOn, Call
<1>2. CASE ReleaseRows(t)
  BY <1>0, <1>2 DEF ReleaseRows, Only, Looks, GoesOn, Call
<1>3. CASE CommitGetGlobal(t)
  BY <1>0, <1>3 DEF CommitGetGlobal, Return, Only, Looks, GoesOn, Call
<1>4. CASE GetBranchSessionKeys(t)
  BY <1>0, <1>4 DEF GetBranchSessionKeys, Only, Collects, GoesOn, Call
<1>5. ASSUME NEW b \in Branch, MarkBranchSession(t, b) PROVE Goal
  <2>1. CASE ~Exists(b)
    BY <1>0, <1>5, <2>1 DEF MarkBranchSession, Return, Only, Collects
  <2>2. CASE Exists(b)
    <3> DEFINE puts == IF bs[b] = "Registered" THEN thread[t].puts \cup {b}
                                               ELSE thread[t].puts
    <3>1. /\ thread[t].pc = "getBranches" /\ b \in thread[t].keys
          /\ thread' = [thread EXCEPT ![t] = [thread[t] EXCEPT
                          !.keys = thread[t].keys \ {b}, !.puts = puts]]
          /\ UNCHANGED <<gs, ver, deadKey, bs, branchKey>>
      BY <1>0, <1>5, <2>2 DEF MarkBranchSession
    <3>2. /\ Only(t) /\ GoesOn(t, "getBranches")
          /\ thread'[t].keys = thread[t].keys \ {b} /\ thread'[t].puts = puts
      <4> HIDE DEF puts
      <4> QED BY <1>0, <3>1 DEF Only, GoesOn, Call
    <3> QED
      BY <2>2, <3>1, <3>2 DEF Collects
  <2> QED
    BY <2>1, <2>2
<1>6. CASE ReportPut(t)
  BY <1>0, <1>6 DEF ReportPut, Only, Reports, GoesOn, Call
<1>7. CASE ReportDelete(t)
  <2>1. CASE Exists(thread[t].b)
    BY <1>0, <1>7, <2>1 DEF ReportDelete, Only, Reports, GoesOn, Call
  <2>2. CASE ~Exists(thread[t].b)
    BY <1>0, <1>7, <2>2 DEF ReportDelete, Return, Only, Reports
  <2> QED
    BY <2>1, <2>2
<1>8. CASE Unindex(t)
  BY <1>0, <1>8 DEF Unindex, Return, Only, Reports
<1>9. CASE ReleaseTxn(t)
  BY <1>0, <1>9 DEF ReleaseTxn, Return, Only, Looks
<1> QED
  BY <1>1, <1>2, <1>3, <1>4, <1>5, <1>6, <1>7, <1>8, <1>9 DEF Request

\* A goroutine starts a call.
Begins(t, pc, x, b) ==
  /\ Only(t)
  /\ thread[t] = Idle
  /\ thread'[t].pc = pc /\ thread'[t].x = x /\ thread'[t].b = b
  /\ thread'[t].keys = {} /\ thread'[t].puts = {}

\* The first requests of calls that change no session.
LEMMA StartEffect ==
  ASSUME TypeOK, NEW t \in Thread
  PROVE  /\ \A b \in Branch : AddBranchSession(t, b)
              => /\ Begins(t, "filterRowKeys", None, b)
                 /\ bs[b] = "Unborn" /\ gs[XidOf[b]] = "Begin"
                 /\ UNCHANGED <<gs, bs, branchKey>>
         /\ \A b \in Branch : BranchReport(t, b)
              => /\ \/ bs[b] = "Registered" /\ Begins(t, "put", None, b)
                    \/ bs[b] = "PhaseOneFailed" /\ Begins(t, "delete", None, b)
                 /\ UNCHANGED <<gs, bs, branchKey>>
         /\ \A x \in XID : GlobalCommit(t, x)
              => /\ \E pc \in {"getGlobal", "releaseRows"} : Begins(t, pc, x, None)
                 /\ thread'[t].to = "Committing"
                 /\ UNCHANGED <<gs, bs, branchKey>>
         /\ \A x \in XID : GlobalRollback(t, x)
              => /\ Begins(t, "getKeys", x, None) /\ thread'[t].to = "Rollbacking"
                 /\ gs[x] = "Begin"
                 /\ UNCHANGED <<gs, bs, branchKey>>
         /\ \A rows : ReleaseLockKeys(t, rows)
              => /\ Begins(t, "release", None, None)
                 /\ UNCHANGED <<gs, bs, branchKey>>
<1> USE DEF TypeOK, Begins, Only, Idle
<1>1. \A b \in Branch : AddBranchSession(t, b)
        => /\ Begins(t, "filterRowKeys", None, b)
           /\ bs[b] = "Unborn" /\ gs[XidOf[b]] = "Begin"
           /\ UNCHANGED <<gs, bs, branchKey>>
  BY DEF AddBranchSession
<1>2. \A b \in Branch : BranchReport(t, b)
        => /\ \/ bs[b] = "Registered" /\ Begins(t, "put", None, b)
              \/ bs[b] = "PhaseOneFailed" /\ Begins(t, "delete", None, b)
           /\ UNCHANGED <<gs, bs, branchKey>>
  BY DEF BranchReport
<1>3. \A x \in XID : GlobalCommit(t, x)
        => /\ \E pc \in {"getGlobal", "releaseRows"} : Begins(t, pc, x, None)
           /\ thread'[t].to = "Committing"
           /\ UNCHANGED <<gs, bs, branchKey>>
  BY DEF GlobalCommit
<1>4. \A x \in XID : GlobalRollback(t, x)
        => /\ Begins(t, "getKeys", x, None) /\ thread'[t].to = "Rollbacking"
           /\ gs[x] = "Begin"
           /\ UNCHANGED <<gs, bs, branchKey>>
  BY DEF GlobalRollback
<1>5. \A rows : ReleaseLockKeys(t, rows)
        => Begins(t, "release", None, None) /\ UNCHANGED <<gs, bs, branchKey>>
  BY DEF ReleaseLockKeys
<1> QED
  BY <1>1, <1>2, <1>3, <1>4, <1>5

\* DeleteBranchSession of branch b, up to its index key.
LEMMA DeleteEffect ==
  ASSUME TypeOK, NEW t \in Thread, NEW b \in Branch, DeleteBranchSession(t, b)
  PROVE  /\ Begins(t, "unindex", None, b)
         /\ bs' = [bs EXCEPT ![b] = "Gone"]
         /\ UNCHANGED <<gs, branchKey>>
BY DEF TypeOK, Begins, Only, Idle, DeleteBranchSession

\* The last request of a registration.
LEMMA RegisterEffect ==
  ASSUME TypeOK, CallShape, NEW t \in Thread, AddBranchTxn(t)
  PROVE  /\ thread[t].pc = "filterRowKeys"
         /\ Only(t) /\ thread'[t] = Idle
         /\ IF Comparisons(t)
              THEN /\ bs' = [bs EXCEPT ![thread[t].b] = "Registered"]
                   /\ branchKey' = branchKey \cup {thread[t].b}
              ELSE UNCHANGED <<bs, branchKey>>
         /\ UNCHANGED gs
BY DEF TypeOK, CallShape, AddBranchTxn, Return, Only, IndexOps

\* The last request of a decision.
LEMMA DecideEffect ==
  ASSUME TypeOK, CallShape, NEW t \in Thread, DecideTxn(t)
  PROVE  /\ thread[t].pc = "getBranches" /\ thread[t].keys = {}
         /\ Only(t) /\ thread'[t] = Idle
         /\ gs' = [gs EXCEPT ![thread[t].x] = thread[t].to]
         /\ bs' = [b \in Branch |-> IF b \in thread[t].puts
                                     THEN PhaseTwo(thread[t].to) ELSE bs[b]]
         /\ UNCHANGED branchKey
BY DEF TypeOK, CallShape, DecideTxn, Return, Only

---------------------------------------------------------------------------
\* A goroutine that moves to a call it may execute.
LEMMA CallsKept ==
  ASSUME Calls, NEW t \in Thread, Only(t), CallOf(t, thread'[t])
  PROVE  Calls'
BY DEF Calls, CallOf, Only

\* Any goroutine may be idle.
LEMMA IdleIsCallOf == ASSUME NEW t PROVE CallOf(t, Idle)
BY IdleFields DEF CallOf, DecisionPc

\* The goroutines of different kinds are different.
LEMMA Kinds ==
  /\ GQ # BQ
  /\ \A b \in Branch : b \notin XID /\ b # GQ /\ b # BQ
  /\ \A x \in XID : x \notin Branch /\ x # GQ /\ x # BQ
BY GoroutineAssumption

\* Every goroutine calls only what the code it runs calls, whatever faults
\* happen: filters register and report, clients and GQ decide, BQ deletes.
LEMMA CallsNext ==
  ASSUME TypeOK, CallShape, Shape, Calls, [TMNext]_tmVars PROVE Calls'
<1> USE Goroutines
<1>0. ASSUME UNCHANGED thread PROVE Calls'
  BY <1>0 DEF Calls, CallOf
<1>1. ASSUME NEW b \in Branch, PhaseOne(b) PROVE Calls'
  <2>1. CASE UNCHANGED thread
    BY <1>0, <2>1
  <2>2. CASE AddBranchSession(b, b) \/ BranchReport(b, b)
    <3>1. \E pc \in {"filterRowKeys", "put", "delete"} : Begins(b, pc, None, b)
      BY <2>2, StartEffect
    <3>2. Only(b) /\ CallOf(b, thread'[b])
      BY <3>1, Kinds DEF Begins, CallOf, DecisionPc
    <3> QED BY <3>2, CallsKept
  <2>3. CASE AddBranchTxn(b)
    BY <2>3, RegisterEffect, IdleIsCallOf, CallsKept
  <2> QED
    BY <1>1, <2>1, <2>2, <2>3 DEF PhaseOne, BranchStart, BranchRegister,
       BranchRegistered, InsertUndoLog, LocalCommit, LocalAbort, TryFails, vars
<1>2. ASSUME NEW t \in XID \cup {GQ}, NEW x \in XID, t \in XID => t = x,
             GlobalRollback(t, x)
      PROVE  Calls'
  <2>1. Only(t) /\ CallOf(t, thread'[t])
    BY <1>2, StartEffect, Kinds DEF Begins, CallOf, DecisionPc
  <2> QED BY <2>1, CallsKept
<1>3. ASSUME NEW x \in XID, Client(x) PROVE Calls'
  <2>1. CASE UNCHANGED thread
    BY <1>0, <2>1
  <2>2. CASE GlobalCommit(x, x)
    <3>1. Only(x) /\ CallOf(x, thread'[x])
      BY <2>2, StartEffect, Kinds DEF Begins, CallOf, DecisionPc
    <3> QED BY <3>1, CallsKept
  <2> QED
    BY <1>2, <1>3, <2>1, <2>2 DEF Client, ClientEnds, GlobalBegin, AddGlobalSession,
       ClientCommit, ClientRollback, ClientVanishes, Tick, vars
<1>4. ASSUME Timeout PROVE Calls'
  <2>1. CASE TimeoutRollback
    <3>1. gq.x \in XID
      BY <2>1 DEF TimeoutRollback, Shape, Handles
    <3>2. GlobalRollback(GQ, gq.x) \/ UNCHANGED thread
      BY <2>1 DEF TimeoutRollback, vars
    <3> QED BY <1>0, <1>2, <3>1, <3>2, Kinds
  <2>2. CASE TimeoutRequeue \/ TimeoutKeys \/ TimeoutDelete
    BY <1>0, <2>2 DEF TimeoutRequeue, TimeoutKeys, TimeoutDelete,
       DeleteGlobalSession, vars
  <2> QED BY <1>4, <2>1, <2>2 DEF Timeout
<1>5. ASSUME NEW rows, ReleaseLockKeys(BQ, rows) PROVE Calls'
  <2>1. Only(BQ) /\ CallOf(BQ, thread'[BQ])
    BY <1>5, StartEffect, Kinds DEF Begins, CallOf, DecisionPc
  <2> QED BY <2>1, CallsKept
<1>6. ASSUME PhaseTwoWork PROVE Calls'
  <2>1. CASE BranchDelete
    <3>1. CASE UNCHANGED thread
      BY <1>0, <3>1
    <3>2. CASE DeleteBranchSession(BQ, bw.b)
      <4>1. bw.b \in Branch
        BY <2>1 DEF BranchDelete, Shape, Handles
      <4>2. Only(BQ) /\ CallOf(BQ, thread'[BQ])
        BY <3>2, <4>1, DeleteEffect, Kinds DEF Begins, CallOf, DecisionPc
      <4> QED BY <4>2, CallsKept
    <3> QED BY <2>1, <3>1, <3>2 DEF BranchDelete, vars
  <2>2. CASE PhaseTwoFails \/ UndoAnswerLost
    BY <1>0, <1>5, <2>2 DEF PhaseTwoFails, UndoAnswerLost, ReleaseUndone, vars
  <2>3. CASE BranchRelease \/ DeadUnlock
    BY <1>0, <1>5, <2>3 DEF BranchRelease, DeadUnlock, vars
  <2>4. CASE BranchCommit \/ BranchRollback \/ DeadBranch
    BY <1>0, <2>4 DEF BranchCommit, BranchRollback, DeadBranch,
       SetBranchSessionDead, vars
  <2> QED BY <1>6, <2>1, <2>2, <2>3, <2>4 DEF PhaseTwoWork
<1>7. ASSUME Recovery PROVE Calls'
  <2>1. ASSUME NEW x \in XID, RecoverRollback(x) PROVE Calls'
    <3>1. GlobalRollback(GQ, x) \/ UNCHANGED thread
      BY <2>1 DEF RecoverRollback, vars
    <3> QED BY <1>0, <1>2, <3>1, Kinds
  <2>2. CASE \A x \in XID : ~RecoverRollback(x)
    BY <1>0, <1>7, <2>2 DEF Recovery, Elect, RecoverKeys, RecoverDelete,
       RecoverBranches, RecoverBranch, WatchBranchSessions, DeleteGlobalSession, vars
  <2> QED BY <2>1, <2>2
<1>8. ASSUME NEW t \in Thread, Driver(t) PROVE Calls'
  <2>1. /\ Only(t) /\ CallOf(t, thread[t])
        /\ Reports(t) \/ Looks(t) \/ Collects(t)
    BY <1>8, RequestEffect DEF Driver, Calls
  <2>2. CallOf(t, thread'[t])
    BY <2>1, IdleIsCallOf, IdleFields DEF Reports, Looks, Collects, GoesOn,
       CallOf, DecisionPc
  <2> QED BY <2>1, <2>2, CallsKept
<1>9. ASSUME NEW t \in Thread, Decide(t) PROVE Calls'
  BY <1>9, DecideEffect, IdleIsCallOf, CallsKept DEF Decide
<1>10. ASSUME NEW T \in SUBSET Thread, CallsFail(T) PROVE Calls'
  <2>1. \A t \in Thread : thread'[t] \in {Idle, thread[t]}
    BY <1>10 DEF CallsFail
  <2>2. \A t \in Thread : CallOf(t, thread'[t])
    BY <2>1, IdleIsCallOf DEF Calls
  <2> QED BY <2>2 DEF Calls, CallOf
<1>11. CASE ListDeadBranchSession \/ WatchBreaks \/ UNCHANGED tmVars
  BY <1>0, <1>11 DEF ListDeadBranchSession, WatchBreaks, tmVars, vars
<1>12. ASSUME NEW x \in XID, NextGlobalSession(x) PROVE Calls'
  BY <1>0, <1>12 DEF NextGlobalSession, vars
<1>13. ASSUME NEW i \in queue, NextBranchSession(i) PROVE Calls'
  BY <1>0, <1>13 DEF NextBranchSession, vars
<1>14. ASSUME NEW t \in Thread, DriverFails(t) PROVE Calls'
  BY <1>10, <1>14 DEF DriverFails
<1>15. CASE Crash \/ DeletePanics
  BY <1>10, <1>15 DEF Crash, DeletePanics
<1> QED
  BY <1>1, <1>3, <1>4, <1>6, <1>7, <1>8, <1>9, <1>11, <1>12, <1>13, <1>14, <1>15
  DEF TMNext

\* A rollback of x will fail at a branch that is indexed and was deleted, and
\* during the recovery that is fatal.
Stuck(x) == /\ gs[x] = "Begin" /\ x \in expired
            /\ \E b \in Keys(x) : bs[b] = "Gone"

\* The recovery will roll back x if it has timed out, or is doing it.
Pending(x) == [x |-> x, pc |-> "rollback"] \in lead.sessions \/ thread[GQ].x = x

\* The client of x has ended its transaction, or disappeared.
Over(x) == client[x] = "done" /\ thread[x] = Idle

\* Clients, timeouts and recovery take turns: the client of x is at work only
\* while x is in status Begin, no branch of x is in phase one once the client
\* is through, and the timeout and the recovery roll back x only after that.
\* A new leader may have queued a timeout too early, or have listed x as
\* undecided while its client was active: it is then bound to die in its
\* recovery, on a session that is Stuck.
Turns ==
  \A x \in XID :
    /\ client[x] = "idle" <=> gs[x] = "Unborn"
    /\ client[x] = "active" => gs[x] = "Begin"
    /\ client[x] # "active" => Quiescent(x)
    /\ thread[x] # Idle => client[x] = "done"
    /\ x \in expired \/ x \in {gq.x, thread[GQ].x} => Over(x)
    /\ x \in {thread[x].x, thread[GQ].x} => gs[x] = "Begin"
    /\ timer[x] = "due" => \/ Over(x)
                           \/ /\ lead.st = "global"
                              /\ \E y \in XID : Stuck(y) /\ Pending(y)
    /\ timer[x] # "off" => gs[x] # "Unborn"
    /\ [x |-> x, pc |-> "rollback"] \in lead.sessions
         => \/ gs[x] = "Begin" /\ Over(x) /\ thread[GQ].x # x
            \/ \E y \in XID : Stuck(y) /\ Pending(y)
    /\ lead.st = "down" => (client[x] # "active" /\ thread[x] = Idle) \/ \E y \in XID : Stuck(y)

\* How far phase one of a branch is, and what that says of its session and of
\* its key in the index.
PhaseOneOK ==
  \A b \in Branch :
    /\ local[b] \in {"none", "open"} => bs[b] = "Unborn"
    /\ local[b] \in {"registered", "logged"} => bs[b] = "Registered" /\ thread[b] = Idle
    /\ thread[b].pc = "filterRowKeys" => local[b] = "open"
    /\ thread[b].pc \in {"put", "delete", "unindex"} => local[b] = "aborted"
    /\ thread[b].pc = "put" => bs[b] = "Registered"
    /\ thread[b].pc = "delete" => bs[b] \in {"PhaseOneFailed", "Gone"}
    /\ bs[b] = "PhaseOneFailed" => thread[b].pc = "delete"
    /\ Exists(b) => b \in branchKey
    /\ b \in branchKey => bs[b] # "Unborn"
    /\ \A t \in Thread : thread[t].pc = "unindex" /\ thread[t].b = b => bs[b] = "Gone"

\* The statuses a branch may have when its global session has status s.
Allowed(s) ==
  IF s = "Begin" THEN {"Registered", "PhaseOneFailed", "Gone"}
  ELSE IF s = "Committing" THEN {"PhaseTwoCommitting", "Gone"}
  ELSE IF s = "Rollbacking" THEN {"PhaseTwoRollbacking", "Gone"}
  ELSE IF s = "Gone" THEN {"Gone"} ELSE {}

\* The statuses of a global session and of its branches agree.
Statuses == \A b \in Branch : bs[b] # "Unborn" => bs[b] \in Allowed(gs[XidOf[b]])

\* A decision in progress will write exactly the branches that are Registered.
Lists ==
  \A t \in Thread : thread[t].pc = "getBranches" =>
    /\ thread[t].keys \subseteq BranchesOf(thread[t].x)
    /\ \A b \in BranchesOf(thread[t].x) :
         bs[b] = "Registered" => b \in thread[t].keys \cup thread[t].puts
    /\ \A b \in thread[t].puts : XidOf[b] = thread[t].x /\ bs[b] = "Registered"

\* The outcome a branch with status st in phase two executes.
Verdict(st) == IF st = "PhaseTwoCommitting" THEN "commit" ELSE "rollback"

\* The items of branchSessionQueue, and those the watch will add to it.
Items == queue \cup lead.replay

\* What an item says of its branch is true.
Tallies == \A i \in Items : bs[i.b] = i.st

\* No branch is in the queue twice, or in the queue and with the worker.
Alone ==
  /\ \A i, j \in Items : i.b = j.b => i = j
  /\ bw.pc # "idle" => \A i \in Items : i.b # bw.b

\* What the recovery has to do, one by one: delete branches whose phase one
\* failed, give up rollbacks that took too long.
Charges ==
  \A e \in lead.branches :
    /\ e.pc = "delete" => bs[e.b] \in {"PhaseOneFailed", "Gone"}
    /\ e.pc = "unlock" => /\ bs[e.b] = "PhaseTwoRollbacking"
                          /\ e.b # bw.b
                          /\ \A i \in Items : i.b # e.b

\* What the branch worker has in hand, and has executed already.
Hand ==
  /\ bw.pc \in {"work", "release"} => bs[bw.b] = bw.st
  /\ bw.pc \in {"unlock", "dead"} => bs[bw.b] = "PhaseTwoRollbacking"
  /\ bw.pc = "delete" =>
       \/ bw.st = "Begin" /\ bs[bw.b] \in {"PhaseOneFailed", "Gone"}
       \/ bs[bw.b] = bw.st /\ <<bw.b, Verdict(bw.st)>> \in second
  /\ bw.pc = "release" => bw.st = "PhaseTwoRollbacking" /\ <<bw.b, "rollback">> \in second

\* The work of phase two.
Work == Tallies /\ Alone /\ Charges /\ Hand

\* The decision on x has been made.
Decided(x) == gs[x] \in {"Committing", "Rollbacking", "Gone"}
\* No branch of x is left.
Empty(x) == \A b \in BranchesOf(x) : ~Exists(b)

\* The timeout and the recovery look for branches only of sessions that are
\* decided, and delete only sessions that have none.
Sessions ==
  /\ gq.pc \in {"keys", "delete"} => Decided(gq.x)
  /\ gq.pc = "delete" => Empty(gq.x)
  /\ \A s \in lead.sessions : /\ s.pc \in {"keys", "delete"} => Decided(s.x)
                              /\ s.pc = "delete" => Empty(s.x)

\* What a leader works on in which part of its life.  While it recovers, a
\* rollback works on a list of branches that is still complete.
Leads ==
  /\ lead.st # "global" => lead.sessions = {}
  /\ lead.st # "branch" => lead.replay = {} /\ lead.branches = {}
  /\ ~Working => gq = NoTimer
  /\ lead.st \in {"down", "branch"} => thread[GQ] = Idle
  /\ lead.st \in {"down", "global"} => queue = {} /\ bw = NoWork /\ thread[BQ] = Idle
  /\ lead.st = "global" /\ thread[GQ] # Idle =>
       LET x == thread[GQ].x
       IN  /\ x \in expired
           /\ thread[GQ].keys \subseteq Keys(x)
           /\ thread[GQ].pc = "getBranches"
                => \A b \in Keys(x) : bs[b] = "Gone" => b \in thread[GQ].keys

\* What is in the databases: only what was committed there, with an undo log
\* as long as it may be rolled back; nothing of a branch that executed the
\* rollback.
Databases ==
  \A b \in Branch :
    /\ b \in undo \cup writes
         => local[b] = "committed" /\ AT(b) /\ gs[XidOf[b]] # "Unborn"
    /\ b \in writes /\ gs[XidOf[b]] \in {"Begin", "Rollbacking"} => b \in undo
    /\ <<b, "rollback">> \in second => /\ b \notin undo /\ b \notin writes
                                       /\ Decided(XidOf[b])

\* The inductive invariant.
PInv == /\ Calls /\ Turns /\ PhaseOneOK /\ Statuses /\ Lists /\ Work
        /\ Sessions /\ Leads /\ Databases

\* What a step does to the sessions in the store.
Born(b) ==
  /\ bs[b] = "Unborn" /\ gs[XidOf[b]] = "Begin" /\ thread[b].pc = "filterRowKeys"
  /\ thread'[b] = Idle
  /\ bs' = [bs EXCEPT ![b] = "Registered"] /\ UNCHANGED gs
  /\ branchKey' = branchKey \cup {b}

\* The failure of phase one is reported before the decision.
Failed(b) ==
  /\ bs[b] = "Registered" /\ gs[XidOf[b]] = "Begin"
  /\ thread[b].pc = "put" /\ thread'[b].pc = "delete"
  /\ bs' = [bs EXCEPT ![b] = "PhaseOneFailed"] /\ UNCHANGED <<gs, branchKey>>

\* A branch whose phase one failed is deleted, by its filter or by the recovery.
Dropped(b) ==
  /\ bs[b] = "PhaseOneFailed"
  /\ thread'[b].pc = "unindex" \/ (bw.pc = "delete" /\ bw.st = "Begin")
  /\ bs' = [bs EXCEPT ![b] = "Gone"] /\ UNCHANGED <<gs, branchKey>>

\* The worker deletes a branch that has executed the decision.
Ended(b) ==
  /\ bw.pc = "delete" /\ bw.b = b /\ bs[b] = bw.st /\ bw' = NoWork
  /\ thread[BQ] = Idle
  /\ bs[b] \in {"PhaseTwoCommitting", "PhaseTwoRollbacking"}
  /\ <<b, Verdict(bs[b])>> \in second
  /\ bs' = [bs EXCEPT ![b] = "Gone"] /\ UNCHANGED <<gs, branchKey>>

\* The worker gives up a rollback.
GivenUp(b) ==
  /\ bw.pc = "dead" /\ bw.b = b /\ bs[b] = "PhaseTwoRollbacking" /\ bw' = NoWork
  /\ b \in deadKey'
  /\ bs' = [bs EXCEPT ![b] = "Gone"] /\ UNCHANGED <<gs, branchKey>>

\* A global transaction begins.
Opened(x) ==
  /\ gs[x] = "Unborn"
  /\ gs' = [gs EXCEPT ![x] = "Begin"] /\ UNCHANGED <<bs, branchKey>>

\* A decision is recorded on the global session and on its branches.
Settled(x, to) ==
  /\ gs[x] = "Begin"
  /\ gs' = [gs EXCEPT ![x] = to]
  /\ bs' = [b \in Branch |-> IF XidOf[b] = x /\ bs[b] = "Registered"
                               THEN PhaseTwo(to) ELSE bs[b]]
  /\ Quiescent(x) /\ \A b \in BranchesOf(x) : bs[b] # "PhaseOneFailed"
  /\ UNCHANGED branchKey

\* A global session without branches is deleted.
Forgotten(x) ==
  /\ gs[x] \in {"Committing", "Rollbacking"} /\ Empty(x)
  /\ gs' = [gs EXCEPT ![x] = "Gone"] /\ UNCHANGED <<bs, branchKey>>

\* The index key of a deleted branch is deleted.
Unindexed(b) ==
  /\ bs[b] = "Gone"
  /\ \E t \in Thread : thread[t].pc = "unindex" /\ thread[t].b = b
  /\ branchKey' = branchKey \ {b} /\ UNCHANGED <<gs, bs>>

\* All a step can do to the sessions and the index.
SessionStep ==
  \/ UNCHANGED <<gs, bs, branchKey>>
  \/ \E b \in Branch : \/ Born(b) \/ Failed(b) \/ Dropped(b) \/ Ended(b)
                       \/ GivenUp(b) \/ Unindexed(b)
  \/ \E x \in XID : \/ Opened(x) \/ Forgotten(x)
                    \/ \E to \in {"Committing", "Rollbacking"} : Settled(x, to)

\* While a branch is in phase one its client waits for it, and nothing is
\* decided.
LEMMA InFlightBegin ==
  ASSUME Turns, NEW b \in Branch, InFlight(b)
  PROVE  client[XidOf[b]] = "active" /\ gs[XidOf[b]] = "Begin"
<1>1. XidOf[b] \in XID /\ b \in BranchesOf(XidOf[b])
  BY XidOfAssumption DEF BranchesOf
<1> QED
  BY <1>1 DEF Turns, Quiescent

\* The same of a call in progress.
LEMMA BusyBranch ==
  ASSUME Calls, Turns, NEW b \in Branch, thread[b].pc # "idle"
  PROVE  client[XidOf[b]] = "active" /\ gs[XidOf[b]] = "Begin" /\ thread[b].b = b
<1>1. thread[b] # Idle /\ thread[b].b = b
  BY IdleFields, Goroutines DEF Calls, CallOf
<1> QED
  BY <1>1, InFlightBegin DEF InFlight

\* While a decision is being made the client is through.
LEMMA Deciding ==
  ASSUME Calls, CallShape, Turns, NEW t \in Thread, thread[t].pc \in DecisionPc
  PROVE  LET x == thread[t].x
         IN  /\ x \in XID /\ t \in {x, GQ}
             /\ gs[x] = "Begin" /\ client[x] = "done" /\ Quiescent(x)
             /\ t = GQ => thread[x] = Idle
<1> DEFINE x == thread[t].x
<1>1. x \in XID
  BY DEF CallShape, DecisionPc
<1>2. t \in {x, GQ}
  BY Goroutines, ThreadAssumption DEF Calls, CallOf, DecisionPc
<1>3. gs[x] = "Begin"
  BY <1>1, <1>2 DEF Turns
<1>4. client[x] = "done" /\ (t = GQ => thread[x] = Idle)
  <2>1. CASE t = GQ
    BY <1>1, <2>1 DEF Turns, Over
  <2>2. CASE t = x
    <3>1. thread[x] # Idle
      BY <2>2, IdleFields DEF DecisionPc
    <3> QED BY <1>1, <2>2, <3>1, Kinds DEF Turns
  <2> QED BY <1>2, <2>1, <2>2
<1>5. Quiescent(x)
  BY <1>1, <1>4 DEF Turns
<1> QED
  BY <1>1, <1>2, <1>3, <1>4, <1>5

---------------------------------------------------------------------------
(***************************************************************************)
(* What every step does to the sessions                                    *)
(***************************************************************************)
\* What phase one does to the sessions.
LEMMA PhaseOneSession ==
  ASSUME TypeOK, CallShape, RevisionGuards, RegisteringIsFresh, PInv,
         NEW b \in Branch, PhaseOne(b)
  PROVE  SessionStep
<1>1. CASE AddBranchTxn(b)
  <2>1. thread[b].pc = "filterRowKeys" /\ thread[b].b = b /\ b \in Thread
    BY <1>1, Goroutines DEF AddBranchTxn, PInv, Calls, CallOf
  <2>2. CASE Comparisons(b)
    <3>1. gs[XidOf[b]] = "Begin" /\ bs[b] = "Unborn"
      BY <2>1, <2>2 DEF Comparisons, RevisionGuards, RegisteringIsFresh
    <3>2. Born(b)
      BY <1>1, <2>1, <2>2, <3>1, RegisterEffect DEF Born
    <3> QED BY <3>2 DEF SessionStep
  <2>3. CASE ~Comparisons(b)
    BY <1>1, <2>1, <2>3, RegisterEffect DEF SessionStep
  <2> QED BY <2>2, <2>3
<1>2. CASE UNCHANGED <<gs, bs, branchKey>>
  BY <1>2 DEF SessionStep
<1>3. CASE AddBranchSession(b, b) \/ BranchReport(b, b)
  BY <1>2, <1>3, StartEffect, Goroutines
<1> QED
  BY <1>1, <1>2, <1>3 DEF PhaseOne, BranchStart, BranchRegister, BranchRegistered,
     InsertUndoLog, LocalCommit, LocalAbort, TryFails, vars

\* What requests of calls in progress do to them.
LEMMA DriverSession ==
  ASSUME TypeOK, CallShape, PInv, NEW t \in Thread, Driver(t)
  PROVE  SessionStep
<1>1. UNCHANGED gs /\ (Reports(t) \/ UNCHANGED <<bs, branchKey>>)
  BY RequestEffect DEF Driver
<1>2. CASE Reports(t)
  <2> DEFINE b == thread[t].b
  <2>1. CASE thread[t].pc \in {"put", "delete"}
    <3>1. t \in Branch /\ b = t
      BY <2>1, ThreadAssumption DEF PInv, Calls, CallOf, DecisionPc
    <3>2. gs[XidOf[b]] = "Begin"
      BY <2>1, <3>1, BusyBranch DEF PInv
    <3>3. CASE thread[t].pc = "put"
      <4>1. Failed(b)
        BY <1>1, <1>2, <3>1, <3>2, <3>3 DEF Reports, Failed, GoesOn, PInv, PhaseOneOK
      <4> QED BY <3>1, <4>1 DEF SessionStep
    <3>4. CASE thread[t].pc = "delete"
      <4>1. bs[b] \in {"PhaseOneFailed", "Gone"}
        BY <3>1, <3>4 DEF PInv, PhaseOneOK
      <4>2. Dropped(b) \/ UNCHANGED <<gs, bs, branchKey>>
        BY <1>1, <1>2, <3>1, <3>4, <4>1 DEF Reports, Dropped, Exists, GoesOn
      <4> QED BY <3>1, <4>2 DEF SessionStep
    <3> QED BY <2>1, <3>3, <3>4
  <2>2. CASE thread[t].pc = "unindex"
    <3>1. b \in Branch /\ bs[b] = "Gone"
      BY <2>2 DEF CallShape, PInv, PhaseOneOK
    <3>2. Unindexed(b)
      BY <1>1, <1>2, <2>2, <3>1 DEF Reports, Unindexed
    <3> QED BY <3>1, <3>2 DEF SessionStep
  <2> QED BY <1>2, <2>1, <2>2 DEF Reports
<1> QED
  BY <1>1, <1>2 DEF SessionStep

\* What a decision does to them.
LEMMA DecideSession ==
  ASSUME TypeOK, CallShape, PInv, NEW t \in Thread, DecideTxn(t)
  PROVE  /\ Settled(thread[t].x, thread[t].to) /\ thread[t].x \in XID
         /\ thread[t].to \in {"Committing", "Rollbacking"}
         /\ \A b \in Branch : b \in thread[t].puts
              <=> XidOf[b] = thread[t].x /\ bs[b] = "Registered"
<1> DEFINE x == thread[t].x
<1>1. thread[t].pc = "getBranches" /\ thread[t].keys = {}
  BY DecideEffect
<1>2. x \in XID /\ gs[x] = "Begin" /\ Quiescent(x) /\ t \in {x, GQ}
  BY <1>1, Deciding DEF PInv, DecisionPc
<1>3. \A b \in Branch : b \in thread[t].puts <=> XidOf[b] = x /\ bs[b] = "Registered"
  BY <1>1 DEF PInv, Lists, BranchesOf
<1>4. \A b \in BranchesOf(x) : bs[b] # "PhaseOneFailed"
  BY <1>2, IdleFields DEF Quiescent, InFlight, PInv, PhaseOneOK, BranchesOf
<1>5. thread[t].to \in {"Committing", "Rollbacking"}
  BY <1>1 DEF PInv, Calls, CallOf, DecisionPc
<1>6. Settled(x, thread[t].to)
  BY <1>2, <1>3, <1>4, DecideEffect DEF Settled
<1> QED
  BY <1>2, <1>3, <1>5, <1>6

\* What clients and timeouts do to them.
LEMMA ClientSession ==
  ASSUME TypeOK, Shape, PInv, NEW x \in XID, Client(x)
  PROVE  SessionStep
<1>1. CASE GlobalBegin(x)
  <2>1. Opened(x)
    BY <1>1 DEF GlobalBegin, AddGlobalSession, Opened
  <2> QED BY <2>1 DEF SessionStep
<1>2. CASE UNCHANGED <<gs, bs, branchKey>>
  BY <1>2 DEF SessionStep
<1>3. CASE GlobalCommit(x, x) \/ GlobalRollback(x, x)
  BY <1>2, <1>3, StartEffect, Goroutines
<1> QED
  BY <1>1, <1>2, <1>3 DEF Client, ClientEnds, ClientCommit, ClientRollback,
     ClientVanishes, Tick, vars

\* The deletion of a decided session without branches.
LEMMA DeleteSession ==
  ASSUME NEW x \in XID, DeleteGlobalSession(x), Decided(x), Empty(x)
  PROVE  SessionStep
<1>1. Forgotten(x)
  BY DEF DeleteGlobalSession, Forgotten, Decided
<1> QED
  BY <1>1 DEF SessionStep

\* What the goroutine of globalSessionQueue does to the sessions.
LEMMA TimeoutSession ==
  ASSUME TypeOK, Shape, PInv, Timeout
  PROVE  SessionStep
<1>1. CASE TimeoutDelete
  <2>1. gq.x \in XID /\ Decided(gq.x) /\ Empty(gq.x)
    BY <1>1 DEF TimeoutDelete, Shape, Handles, PInv, Sessions
  <2>2. DeleteGlobalSession(gq.x) \/ UNCHANGED vars
    BY <1>1 DEF TimeoutDelete
  <2> QED BY <2>1, <2>2, DeleteSession DEF SessionStep, vars
<1>2. CASE TimeoutRollback
  <2>1. gq.x \in XID
    BY <1>2 DEF TimeoutRollback, Shape, Handles
  <2>2. GlobalRollback(GQ, gq.x) \/ UNCHANGED vars
    BY <1>2 DEF TimeoutRollback
  <2> QED BY <2>1, <2>2, StartEffect, Goroutines DEF SessionStep, vars
<1>3. CASE TimeoutRequeue \/ TimeoutKeys
  BY <1>3 DEF TimeoutRequeue, TimeoutKeys, SessionStep, vars
<1> QED
  BY <1>1, <1>2, <1>3 DEF Timeout

\* What the branch worker does to them.
LEMMA WorkSession ==
  ASSUME TypeOK, Shape, PInv, PhaseTwoWork
  PROVE  SessionStep
<1>0. CASE UNCHANGED <<gs, bs, branchKey>>
  BY <1>0 DEF SessionStep
<1>1. CASE BranchDelete
  <2>1. /\ bw.b \in Branch /\ bw.pc = "delete"
        /\ \/ bw.st = "Begin" /\ bs[bw.b] \in {"PhaseOneFailed", "Gone"}
           \/ bs[bw.b] = bw.st /\ bw.st # "Begin" /\ <<bw.b, Verdict(bs[bw.b])>> \in second
    BY <1>1 DEF BranchDelete, Shape, Handles, PInv, Work, Hand, TypeOK, BranchStatus
  <2>2. CASE DeleteBranchSession(BQ, bw.b)
    <3>1. /\ bs' = [bs EXCEPT ![bw.b] = "Gone"] /\ UNCHANGED <<gs, branchKey>>
          /\ Exists(bw.b)
      BY <2>1, <2>2, DeleteEffect, Goroutines DEF DeleteBranchSession
    <3>2. Dropped(bw.b) \/ Ended(bw.b)
      BY <1>1, <2>1, <3>1 DEF BranchDelete, Exists, Dropped, Ended, Shape, SystemTypeOK
    <3> QED BY <2>1, <3>2 DEF SessionStep
  <2> QED BY <1>0, <1>1, <2>2 DEF BranchDelete, vars
<1>2. CASE DeadBranch
  <2>1. bw.b \in Branch /\ bs[bw.b] = "PhaseTwoRollbacking"
    BY <1>2 DEF DeadBranch, Shape, Handles, PInv, Work, Hand
  <2>2. CASE SetBranchSessionDead(bw.b)
    <3>1. GivenUp(bw.b)
      BY <1>2, <2>1, <2>2 DEF DeadBranch, SetBranchSessionDead, GivenUp
    <3> QED BY <2>1, <3>1 DEF SessionStep
  <2> QED BY <1>0, <1>2, <2>2 DEF DeadBranch, vars
<1>3. ASSUME NEW rows, ReleaseLockKeys(BQ, rows) PROVE SessionStep
  BY <1>0, <1>3, StartEffect, Goroutines
<1>4. CASE PhaseTwoFails \/ UndoAnswerLost
  BY <1>0, <1>3, <1>4 DEF PhaseTwoFails, UndoAnswerLost, ReleaseUndone, vars
<1>5. CASE BranchRelease \/ DeadUnlock
  BY <1>0, <1>3, <1>5 DEF BranchRelease, DeadUnlock, vars
<1>6. CASE BranchCommit \/ BranchRollback
  BY <1>0, <1>6 DEF BranchCommit, BranchRollback, vars
<1> QED
  BY <1>1, <1>2, <1>4, <1>5, <1>6 DEF PhaseTwoWork

\* What the recovery does to them.
LEMMA RecoverySession ==
  ASSUME TypeOK, Shape, PInv, Recovery
  PROVE  SessionStep
<1>0. CASE UNCHANGED <<gs, bs, branchKey>>
  BY <1>0 DEF SessionStep
<1>1. ASSUME NEW x \in XID, RecoverDelete(x) PROVE SessionStep
  <2>1. Decided(x) /\ Empty(x)
    BY <1>1 DEF RecoverDelete, PInv, Sessions
  <2> QED BY <1>0, <1>1, <2>1, DeleteSession DEF RecoverDelete, vars
<1>2. ASSUME NEW x \in XID, RecoverRollback(x) PROVE SessionStep
  <2>1. GlobalRollback(GQ, x) \/ UNCHANGED vars
    BY <1>2 DEF RecoverRollback
  <2> QED BY <1>0, <2>1, StartEffect, Goroutines DEF vars
<1>3. CASE \A x \in XID : ~RecoverDelete(x) /\ ~RecoverRollback(x)
  BY <1>0, <1>3 DEF Recovery, Elect, RecoverKeys, RecoverBranches, RecoverBranch,
     WatchBranchSessions, vars
<1> QED
  BY <1>1, <1>2, <1>3

\* Every step does one of these things to the sessions.
LEMMA SessionSteps ==
  ASSUME TypeOK, CallShape, RevisionGuards, RegisteringIsFresh, Shape, PInv,
         [TMNext]_tmVars
  PROVE  SessionStep
<1>0. CASE UNCHANGED <<gs, bs, branchKey>>
  BY <1>0 DEF SessionStep
<1>1. ASSUME NEW b \in Branch, PhaseOne(b) PROVE SessionStep
  BY <1>1, PhaseOneSession
<1>2. ASSUME NEW x \in XID, Client(x) PROVE SessionStep
  BY <1>2, ClientSession
<1>3. ASSUME NEW t \in Thread, Driver(t) PROVE SessionStep
  BY <1>3, DriverSession
<1>4. ASSUME NEW t \in Thread, Decide(t) PROVE SessionStep
  BY <1>4, DecideSession DEF Decide, SessionStep
<1>5. ASSUME NEW t \in Thread, DriverFails(t) PROVE SessionStep
  BY <1>0, <1>5 DEF DriverFails, CallsFail
<1>6. ASSUME NEW x \in XID, NextGlobalSession(x) PROVE SessionStep
  BY <1>0, <1>6 DEF NextGlobalSession, vars
<1>7. ASSUME NEW i \in queue, NextBranchSession(i) PROVE SessionStep
  BY <1>0, <1>7 DEF NextBranchSession, vars
<1>8. CASE Crash \/ DeletePanics \/ ListDeadBranchSession \/ WatchBreaks
           \/ UNCHANGED tmVars
  BY <1>0, <1>8 DEF Crash, DeletePanics, ListDeadBranchSession, WatchBreaks,
     CallsFail, tmVars, vars
<1> QED
  BY <1>1, <1>2, <1>3, <1>4, <1>5, <1>6, <1>7, <1>8, TimeoutSession, WorkSession,
     RecoverySession DEF TMNext

---------------------------------------------------------------------------
(***************************************************************************)
(* Statuses and phase one                                                  *)
(***************************************************************************)
\* The status of a branch agrees with the status of its global transaction.
LEMMA StatusesNext ==
  ASSUME TypeOK, SessionStep, Statuses
  PROVE  Statuses'
<1> USE XidOfAssumption DEF TypeOK, Statuses, Allowed
<1>1. CASE UNCHANGED <<gs, bs, branchKey>>
  BY <1>1
<1>2. ASSUME NEW b \in Branch, Born(b) \/ Failed(b) \/ Dropped(b) \/ Ended(b)
                               \/ GivenUp(b) \/ Unindexed(b)
      PROVE  Statuses'
  BY <1>2 DEF Born, Failed, Dropped, Ended, GivenUp, Unindexed, BranchStatus
<1>3. ASSUME NEW x \in XID, Opened(x) PROVE Statuses'
  BY <1>3 DEF Opened
<1>4. ASSUME NEW x \in XID, Forgotten(x) PROVE Statuses'
  BY <1>4 DEF Forgotten, Empty, Exists, BranchesOf
<1>5. ASSUME NEW x \in XID, NEW to \in {"Committing", "Rollbacking"}, Settled(x, to)
      PROVE  Statuses'
  BY <1>5 DEF Settled, PhaseTwo, BranchesOf
<1> QED
  BY <1>1, <1>2, <1>3, <1>4, <1>5 DEF SessionStep

\* A branch session that was deleted stays deleted, an index key goes only
\* after its branch.
LEMMA GoneForever ==
  ASSUME TypeOK, SessionStep, NEW b \in Branch
  PROVE  /\ bs[b] = "Gone" => bs'[b] = "Gone"
         /\ (Exists(b) => b \in branchKey) => (Exists(b) => b \in branchKey)'
         /\ (b \in branchKey => bs[b] # "Unborn") => (b \in branchKey => bs[b] # "Unborn")'
<1> USE DEF TypeOK, Exists
<1>1. ASSUME NEW c \in Branch, Born(c) \/ Failed(c) \/ Dropped(c) \/ Ended(c)
                               \/ GivenUp(c) \/ Unindexed(c)
      PROVE  /\ bs[b] = "Gone" => bs'[b] = "Gone"
             /\ (Exists(b) => b \in branchKey) => (Exists(b) => b \in branchKey)'
             /\ (b \in branchKey => bs[b] # "Unborn") => (b \in branchKey => bs[b] # "Unborn")'
  BY <1>1 DEF Born, Failed, Dropped, Ended, GivenUp, Unindexed
<1>2. ASSUME NEW x \in XID, NEW to, Opened(x) \/ Forgotten(x) \/ Settled(x, to)
      PROVE  /\ bs[b] = "Gone" => bs'[b] = "Gone"
             /\ (Exists(b) => b \in branchKey) => (Exists(b) => b \in branchKey)'
             /\ (b \in branchKey => bs[b] # "Unborn") => (b \in branchKey => bs[b] # "Unborn")'
  BY <1>2 DEF Opened, Forgotten, Settled, PhaseTwo
<1>3. CASE UNCHANGED <<gs, bs, branchKey>>
  BY <1>3
<1> QED
  BY <1>1, <1>2, <1>3 DEF SessionStep

\* Only the filter that serves branch b moves it.
LEMMA BranchMoves ==
  ASSUME Patient, TypeOK, CallShape, Shape, Calls, [TMNext]_tmVars, NEW b \in Branch
  PROVE  \/ thread'[b] = thread[b] /\ local'[b] = local[b]
         \/ PhaseOne(b)
         \/ Driver(b)
<1> DEFINE Goal == \/ thread'[b] = thread[b] /\ local'[b] = local[b]
                   \/ PhaseOne(b)
                   \/ Driver(b)
<1> SUFFICES Goal
  OBVIOUS
<1> USE Goroutines, Kinds
<1>0. local \in [Branch -> {"none", "open", "registered", "logged", "committed", "aborted"}]
  BY DEF Shape, SystemTypeOK
<1>1. ASSUME NEW c \in Branch \ {b}, PhaseOne(c) PROVE Goal
  <2>1. local'[b] = local[b]
    BY <1>0, <1>1 DEF PhaseOne, BranchStart, BranchRegister, BranchRegistered,
     InsertUndoLog, LocalCommit, LocalAbort, TryFails
  <2>2. thread'[b] = thread[b]
    <3>1. CASE AddBranchTxn(c) \/ AddBranchSession(c, c) \/ BranchReport(c, c)
      BY <3>1, RegisterEffect, StartEffect DEF Only, Begins
    <3> QED
      BY <1>1, <3>1 DEF PhaseOne, BranchStart, BranchRegister, BranchRegistered,
         InsertUndoLog, LocalCommit, LocalAbort, TryFails, vars
  <2> QED BY <2>1, <2>2
<1>2. ASSUME NEW t \in Thread \ {b}, Only(t), UNCHANGED local PROVE Goal
  BY <1>2 DEF Only
<1>3. ASSUME NEW x \in XID, Client(x) PROVE Goal
  <2>1. UNCHANGED local
    BY <1>3 DEF Client, ClientEnds, GlobalBegin, ClientCommit, ClientRollback,
       ClientVanishes, Tick, phaseOne
  <2>2. CASE GlobalCommit(x, x) \/ GlobalRollback(x, x)
    BY <1>2, <2>1, <2>2, StartEffect DEF Begins
  <2>3. CASE UNCHANGED thread
    BY <2>1, <2>3
  <2> QED BY <1>3, <2>2, <2>3 DEF Client, ClientEnds, GlobalBegin, AddGlobalSession,
       ClientCommit, ClientRollback, ClientVanishes, Tick, vars
<1>4. ASSUME Timeout PROVE Goal
  <2>1. UNCHANGED local
    BY <1>4 DEF Timeout, TimeoutRollback, TimeoutRequeue, TimeoutKeys, TimeoutDelete,
       phaseOne
  <2>2. CASE TimeoutRollback
    BY <1>2, <2>1, <2>2, StartEffect DEF TimeoutRollback, Begins, vars, Shape, Handles
  <2> QED BY <1>4, <2>1, <2>2 DEF Timeout, TimeoutRequeue, TimeoutKeys, TimeoutDelete,
       DeleteGlobalSession, vars
<1>5. ASSUME PhaseTwoWork PROVE Goal
  <2>1. UNCHANGED local
    BY <1>5 DEF PhaseTwoWork, BranchCommit, BranchRollback, PhaseTwoFails,
       UndoAnswerLost, BranchRelease, BranchDelete, DeadUnlock, DeadBranch, phaseOne
  <2>2. \/ UNCHANGED thread
        \/ \E rows : ReleaseLockKeys(BQ, rows)
        \/ bw.b \in Branch /\ DeleteBranchSession(BQ, bw.b)
    BY <1>5 DEF PhaseTwoWork, BranchCommit, BranchRollback, PhaseTwoFails,
       UndoAnswerLost, BranchRelease, BranchDelete, DeadUnlock, DeadBranch,
       ReleaseUndone, SetBranchSessionDead, vars, Shape, Handles
  <2> QED BY <1>2, <2>1, <2>2, StartEffect, DeleteEffect DEF Begins
<1>6. ASSUME Recovery PROVE Goal
  <2>1. UNCHANGED local
    BY <1>6 DEF Recovery, Elect, RecoverRollback, RecoverKeys, RecoverDelete,
       RecoverBranches, RecoverBranch, WatchBranchSessions, LeaderDies, phaseOne
  <2>2. UNCHANGED thread \/ \E x \in XID : GlobalRollback(GQ, x)
    BY <1>6 DEF Recovery, Elect, RecoverRollback, RecoverKeys, RecoverDelete,
       RecoverBranches, RecoverBranch, WatchBranchSessions, DeleteGlobalSession, vars
  <2> QED BY <1>2, <2>1, <2>2, StartEffect DEF Begins
<1>7. ASSUME NEW t \in Thread \ {b}, Driver(t) PROVE Goal
  BY <1>2, <1>7, RequestEffect DEF Driver, LeaderDies, phaseOne
<1>8. ASSUME NEW t \in Thread, Decide(t) PROVE Goal
  <2>1. t # b /\ Only(t)
    BY <1>8, DecideEffect DEF Decide, Calls, CallOf
  <2> QED BY <1>2, <1>8, <2>1 DEF Decide, phaseOne
<1>9. CASE Crash
  BY <1>9 DEF Crash, CallsFail, LeaderDies, phaseOne
<1>10. CASE ListDeadBranchSession \/ WatchBreaks \/ UNCHANGED tmVars
  BY <1>10 DEF ListDeadBranchSession, WatchBreaks, tmVars, vars, phaseOne
<1>11. ASSUME NEW x \in XID, NextGlobalSession(x) PROVE Goal
  BY <1>11 DEF NextGlobalSession, vars, phaseOne
<1>12. ASSUME NEW i \in queue, NextBranchSession(i) PROVE Goal
  BY <1>12 DEF NextBranchSession, vars, phaseOne
<1>13. ASSUME NEW t \in Thread, DriverFails(t) \/ DeletePanics PROVE Goal
  BY <1>13 DEF DriverFails, DeletePanics, Patient
<1>14. CASE DeletePanics
  BY <1>14 DEF DeletePanics, Patient
<1>15. CASE PhaseOne(b) \/ Driver(b)
  BY <1>15
<1> QED
  BY <1>1, <1>3, <1>4, <1>5, <1>6, <1>7, <1>8, <1>9, <1>10, <1>11, <1>12, <1>13,
     <1>14, <1>15 DEF TMNext

\* The calls a goroutine t starts, and where.
Starts(t) ==
  \/ t \in Branch /\ (AddBranchSession(t, t) \/ BranchReport(t, t))
  \/ t \in XID /\ ClientEnds(t) /\ (GlobalCommit(t, t) \/ GlobalRollback(t, t))
  \/ /\ t = GQ /\ GlobalRollback(GQ, gq.x) /\ gq.x \in XID /\ TimeoutRollback
  \/ /\ t = GQ
     /\ \E x \in XID : x \in expired /\ GlobalRollback(GQ, x) /\ RecoverRollback(x)
  \/ t = BQ /\ PhaseTwoWork /\ bw.pc # "idle" /\ \E rows : ReleaseLockKeys(BQ, rows)
  \/ t = BQ /\ PhaseTwoWork /\ bw.pc # "idle" /\ bw.b \in Branch /\ DeleteBranchSession(BQ, bw.b)

\* A goroutine that is in a call after a step was there, goes on in it or has
\* started it.
LEMMA ThreadMoves ==
  ASSUME TypeOK, CallShape, Shape, [TMNext]_tmVars,
         NEW t \in Thread, thread'[t] # Idle
  PROVE  thread'[t] = thread[t] \/ Driver(t) \/ Starts(t)
<1> DEFINE Goal == thread'[t] = thread[t] \/ Driver(t) \/ Starts(t)
<1> SUFFICES Goal
  OBVIOUS
<1> USE Goroutines
<1>0. ASSUME UNCHANGED thread PROVE Goal
  BY <1>0
<1>1. ASSUME NEW b \in Branch, PhaseOne(b) PROVE Goal
  <2>1. CASE AddBranchSession(b, b) \/ BranchReport(b, b)
    BY <2>1, StartEffect DEF Begins, Only, Starts
  <2>2. CASE AddBranchTxn(b)
    BY <2>2, RegisterEffect DEF Only
  <2> QED
    BY <1>1, <2>1, <2>2 DEF PhaseOne, BranchStart, BranchRegister,
       BranchRegistered, InsertUndoLog, LocalCommit, LocalAbort, TryFails, vars
<1>2. ASSUME NEW x \in XID, Client(x) PROVE Goal
  <2>1. CASE ClientEnds(x) /\ (GlobalCommit(x, x) \/ GlobalRollback(x, x))
    <3>1. Only(x)
      BY <2>1, StartEffect DEF Begins
    <3> QED BY <2>1, <3>1 DEF Only, Starts
  <2> QED
    BY <1>2, <2>1 DEF Client, ClientEnds, GlobalBegin, AddGlobalSession,
       ClientCommit, ClientRollback, ClientVanishes, Tick, vars
<1>3. ASSUME Timeout PROVE Goal
  <2>1. CASE TimeoutRollback
    <3>1. gq.x \in XID
      BY <2>1 DEF TimeoutRollback, Shape, Handles
    <3>2. GlobalRollback(GQ, gq.x) \/ UNCHANGED thread
      BY <2>1 DEF TimeoutRollback, vars
    <3>3. CASE GlobalRollback(GQ, gq.x)
      <4>1. Only(GQ)
        BY <3>1, <3>3, StartEffect DEF Begins
      <4> QED BY <2>1, <3>1, <3>3, <4>1 DEF Only, Starts
    <3> QED BY <3>2, <3>3
  <2> QED
    BY <1>3, <2>1 DEF Timeout, TimeoutRequeue, TimeoutKeys, TimeoutDelete,
       DeleteGlobalSession, vars
<1>4. ASSUME NEW rows, PhaseTwoWork, ReleaseLockKeys(BQ, rows), bw.pc # "idle" PROVE Goal
  <2>1. Only(BQ)
    BY <1>4, StartEffect DEF Begins
  <2> QED BY <1>4, <2>1 DEF Only, Starts
<1>5. ASSUME PhaseTwoWork PROVE Goal
  <2>1. CASE BranchDelete
    <3>1. bw.b \in Branch /\ bw.pc # "idle"
      BY <2>1 DEF BranchDelete, Shape, Handles
    <3>2. CASE DeleteBranchSession(BQ, bw.b)
      <4>1. Only(BQ)
        BY <3>1, <3>2, DeleteEffect DEF Begins
      <4> QED BY <1>5, <3>1, <3>2, <4>1 DEF Only, Starts
    <3> QED BY <2>1, <3>2 DEF BranchDelete, vars
  <2>2. CASE PhaseTwoFails \/ UndoAnswerLost \/ BranchRelease \/ DeadUnlock
    BY <1>4, <1>5, <2>2 DEF PhaseTwoFails, UndoAnswerLost, ReleaseUndone, BranchRelease,
       DeadUnlock, vars
  <2>3. CASE BranchCommit \/ BranchRollback \/ DeadBranch
    BY <2>3 DEF BranchCommit, BranchRollback, DeadBranch, SetBranchSessionDead, vars
  <2> QED BY <1>5, <2>1, <2>2, <2>3 DEF PhaseTwoWork
<1>6. ASSUME Recovery PROVE Goal
  <2>1. ASSUME NEW x \in XID, RecoverRollback(x) PROVE Goal
    <3>1. (x \in expired /\ GlobalRollback(GQ, x)) \/ UNCHANGED thread
      BY <2>1 DEF RecoverRollback, vars
    <3>2. CASE x \in expired /\ GlobalRollback(GQ, x)
      <4>1. Only(GQ)
        BY <3>2, StartEffect DEF Begins
      <4> QED BY <2>1, <3>2, <4>1 DEF Only, Starts
    <3> QED BY <3>1, <3>2
  <2>2. CASE \A x \in XID : ~RecoverRollback(x)
    BY <1>6, <2>2 DEF Recovery, Elect, RecoverKeys, RecoverDelete,
       RecoverBranches, RecoverBranch, WatchBranchSessions, DeleteGlobalSession, vars
  <2> QED BY <2>1, <2>2
<1>7. ASSUME NEW u \in Thread, Driver(u) PROVE Goal
  <2>1. Only(u)
    BY <1>7, RequestEffect DEF Driver
  <2> QED BY <1>7, <2>1 DEF Only
<1>8. ASSUME NEW u \in Thread, Decide(u) PROVE Goal
  <2>1. Only(u) /\ thread'[u] = Idle
    BY <1>8, DecideEffect DEF Decide
  <2> QED BY <2>1 DEF Only
<1>9. ASSUME NEW T, CallsFail(T) PROVE Goal
  BY <1>9 DEF CallsFail
<1>10. CASE ListDeadBranchSession \/ WatchBreaks \/ UNCHANGED tmVars
  BY <1>10 DEF ListDeadBranchSession, WatchBreaks, tmVars, vars
<1>11. ASSUME NEW x \in XID, NextGlobalSession(x) PROVE Goal
  BY <1>11 DEF NextGlobalSession, vars
<1>12. ASSUME NEW i \in queue, NextBranchSession(i) PROVE Goal
  BY <1>12 DEF NextBranchSession, vars
<1>13. ASSUME NEW u \in Thread, DriverFails(u) PROVE Goal
  BY <1>9, <1>13 DEF DriverFails
<1>14. CASE Crash \/ DeletePanics
  BY <1>9, <1>14 DEF Crash, DeletePanics
<1> QED
  BY <1>1, <1>2, <1>3, <1>5, <1>6, <1>7, <1>8, <1>10, <1>11, <1>12, <1>13, <1>14
  DEF TMNext

\* PhaseOneOK for branch b, without its last part.
Phased(b) ==
  /\ local[b] \in {"none", "open"} => bs[b] = "Unborn"
  /\ local[b] \in {"registered", "logged"} => bs[b] = "Registered" /\ thread[b] = Idle
  /\ thread[b].pc = "filterRowKeys" => local[b] = "open"
  /\ thread[b].pc \in {"put", "delete", "unindex"} => local[b] = "aborted"
  /\ thread[b].pc = "put" => bs[b] = "Registered"
  /\ thread[b].pc = "delete" => bs[b] \in {"PhaseOneFailed", "Gone"}
  /\ bs[b] = "PhaseOneFailed" => thread[b].pc = "delete"

\* A branch that does not move stays in its phase.
LEMMA PhasedStill ==
  ASSUME TypeOK, PInv, SessionStep, NEW b \in Branch, Phased(b),
         thread'[b] = thread[b], local'[b] = local[b]
  PROVE  Phased(b)'
<1> USE IdleFields DEF TypeOK, Phased
<1>1. CASE bs'[b] = bs[b]
  BY <1>1
<1>2. ASSUME NEW c \in Branch, Born(c) \/ Failed(c) \/ Dropped(c) \/ Ended(c)
                               \/ GivenUp(c) \/ Unindexed(c)
      PROVE  Phased(b)'
  BY <1>1, <1>2 DEF Born, Failed, Dropped, Ended, GivenUp, Unindexed
<1>3. ASSUME NEW x \in XID, Opened(x) \/ Forgotten(x) PROVE Phased(b)'
  BY <1>1, <1>3 DEF Opened, Forgotten
<1>4. ASSUME NEW x \in XID, NEW to, Settled(x, to) PROVE Phased(b)'
  <2>1. bs'[b] = IF XidOf[b] = x /\ bs[b] = "Registered" THEN PhaseTwo(to) ELSE bs[b]
    BY <1>4 DEF Settled
  <2>2. XidOf[b] = x => ~InFlight(b)
    BY <1>4 DEF Settled, Quiescent, BranchesOf
  <2> QED BY <1>1, <2>1, <2>2 DEF InFlight, LocalOpen, PhaseTwo
<1> QED
  BY <1>1, <1>2, <1>3, <1>4 DEF SessionStep

\* Phase one moves its branch.
LEMMA PhasedMoves ==
  ASSUME Patient, TypeOK, CallShape, Shape, PInv, RevisionGuards, RegisteringIsFresh,
         NEW b \in Branch, Phased(b), PhaseOne(b)
  PROVE  Phased(b)'
<1> USE Goroutines, IdleFields DEF Phased
<1>0. /\ local \in [Branch -> {"none", "open", "registered", "logged", "committed", "aborted"}]
      /\ bs \in [Branch -> BranchStatus]
  BY DEF Shape, SystemTypeOK, TypeOK
<1>c. /\ thread[b].pc = "idle" => thread[b] = Idle
      /\ thread[b].pc # "idle" => thread[b].b = b
  BY DEF PInv, Calls, CallOf
<1>1. CASE BranchStart(b) \/ InsertUndoLog(b) \/ LocalCommit(b) \/ LocalAbort(b)
  <2>1. CASE BranchStart(b)
    BY <1>0, <2>1 DEF BranchStart, vars
  <2>2. CASE InsertUndoLog(b) \/ LocalCommit(b) \/ LocalAbort(b)
    BY <1>0, <2>2 DEF InsertUndoLog, LocalCommit, LocalAbort, vars
  <2> QED BY <1>1, <2>1, <2>2
<1>2. CASE BranchRegister(b)
  <2>1. CASE AddBranchSession(b, b) /\ UNCHANGED local
    <3>1. UNCHANGED <<gs, bs, branchKey>> /\ thread'[b].pc = "filterRowKeys"
      BY <2>1, StartEffect DEF Begins
    <3> QED BY <1>2, <2>1, <3>1 DEF BranchRegister
  <2>2. CASE UNCHANGED vars /\ local' = [local EXCEPT ![b] = "aborted"]
    BY <1>0, <1>2, <2>2 DEF BranchRegister, vars
  <2> QED BY <1>2, <2>1, <2>2 DEF BranchRegister
<1>3. CASE BranchRegistered(b)
  <2>1. /\ thread[b].pc = "filterRowKeys" /\ thread[b].b = b /\ thread'[b] = Idle
        /\ IF Comparisons(b) THEN bs' = [bs EXCEPT ![b] = "Registered"]
                             ELSE UNCHANGED bs
    BY <1>3, <1>c, RegisterEffect DEF BranchRegistered
  <2>2. local' = [local EXCEPT ![b] = IF Comparisons(b) THEN "registered" ELSE "aborted"]
    BY <1>3 DEF BranchRegistered, Patient
  <2> QED BY <1>0, <2>1, <2>2
<1>4. CASE TryFails(b)
  <2>1. bs[b] = "Registered" /\ thread[b] = Idle
    BY <1>4 DEF TryFails
  <2>2. local'[b] = "aborted"
    BY <1>0, <1>4 DEF TryFails
  <2>3. BranchReport(b, b)
    BY <1>4, <2>1 DEF TryFails, Patient
  <2>4. UNCHANGED bs /\ thread'[b].pc = "put"
    BY <2>1, <2>3, StartEffect DEF Begins
  <2> QED BY <2>1, <2>2, <2>4
<1> QED
  BY <1>1, <1>2, <1>3, <1>4 DEF PhaseOne

\* So do the requests of its reports.
LEMMA PhasedDriven ==
  ASSUME TypeOK, CallShape, Shape, PInv, NEW b \in Branch, Phased(b), Driver(b)
  PROVE  Phased(b)'
<1> USE Goroutines, IdleFields DEF Phased
<1>1. UNCHANGED local
  BY DEF Driver, LeaderDies, phaseOne
<1>2. /\ thread[b].pc \in {"filterRowKeys", "put", "delete", "unindex", "idle"}
      /\ thread[b].pc # "idle" => thread[b].b = b
  BY DEF PInv, Calls, CallOf
<1>3. Reports(b) \/ ((Looks(b) \/ Collects(b)) /\ UNCHANGED <<bs, branchKey>>)
  BY RequestEffect DEF Driver
<1>4. bs \in [Branch -> BranchStatus]
  BY DEF TypeOK
<1>5. CASE Reports(b)
  BY <1>1, <1>2, <1>4, <1>5 DEF Reports, GoesOn, Exists
<1>6. CASE (Looks(b) \/ Collects(b)) /\ UNCHANGED <<bs, branchKey>>
  BY <1>1, <1>2, <1>4, <1>6 DEF Looks, Collects, GoesOn
<1> QED
  BY <1>3, <1>5, <1>6

\* A call at "unindex" works on a branch that is deleted.
LEMMA UnindexNext ==
  ASSUME TypeOK, CallShape, Shape, PInv, SessionStep, [TMNext]_tmVars,
         NEW t \in Thread, NEW b \in Branch, thread'[t].pc = "unindex", thread'[t].b = b
  PROVE  bs'[b] = "Gone"
<1> USE Goroutines
<1>0. thread'[t] # Idle
  BY IdleFields
<1>1. CASE thread'[t] = thread[t]
  BY <1>1, GoneForever DEF PInv, PhaseOneOK
<1>2. CASE Driver(t)
  <2>1. Reports(t)
    BY <1>0, <1>2, RequestEffect DEF Driver, Looks, Collects, GoesOn
  <2>2. thread[t].b = b /\ bs'[b] = "Gone"
    BY <1>0, <2>1 DEF Reports, GoesOn, TypeOK
  <2> QED BY <2>2
<1>3. CASE t = BQ /\ bw.b \in Branch /\ DeleteBranchSession(BQ, bw.b)
  <2>1. thread'[BQ].b = bw.b /\ bs' = [bs EXCEPT ![bw.b] = "Gone"]
    BY <1>3, DeleteEffect DEF Begins
  <2> QED BY <1>3, <2>1 DEF TypeOK
<1>4. CASE Starts(t)
  BY <1>3, <1>4, StartEffect DEF Starts, Begins
<1> QED
  BY <1>0, <1>1, <1>2, <1>4, ThreadMoves

\* The phases of all branches.
LEMMA PhaseOneNext ==
  ASSUME Patient, TypeOK, CallShape, RevisionGuards, RegisteringIsFresh, Shape, PInv,
         SessionStep, [TMNext]_tmVars
  PROVE  PhaseOneOK'
<1> SUFFICES ASSUME NEW b \in Branch
             PROVE  /\ Phased(b)'
                    /\ (Exists(b) => b \in branchKey)'
                    /\ (b \in branchKey => bs[b] # "Unborn")'
                    /\ \A t \in Thread : thread'[t].pc = "unindex" /\ thread'[t].b = b
                                           => bs'[b] = "Gone"
  BY DEF PhaseOneOK, Phased
<1>1. Phased(b)
  BY DEF PInv, PhaseOneOK, Phased
<1>2. Phased(b)'
  BY <1>1, BranchMoves, PhasedStill, PhasedMoves, PhasedDriven DEF PInv
<1>3. /\ (Exists(b) => b \in branchKey)'
      /\ (b \in branchKey => bs[b] # "Unborn")'
  BY GoneForever DEF PInv, PhaseOneOK
<1> QED
  BY <1>2, <1>3, UnindexNext
=============================================================================

--------------------------- MODULE DecisionProofs ---------------------------
(***************************************************************************)
(* A decision is final, complete and executed, for any number of global    *)
(* transactions, branches and rows, under the faults of Patient: the rest  *)
(* of the proof that PInv of TransactionManagerProofs is an invariant      *)
(* (clients, timeouts and the leader take turns on a transaction that is   *)
(* not decided), the refinement of GlobalTransaction, and the safety       *)
(* properties that follow.                                                 *)
(***************************************************************************)
EXTENDS TransactionManagerProofs

---------------------------------------------------------------------------
(***************************************************************************)
(* Clients, timeouts and recovery take turns                               *)
(***************************************************************************)
\* A client moves only by its own requests.
LEMMA ClientMoves ==
  ASSUME Shape, [TMNext]_tmVars, NEW x \in XID
  PROVE  \/ client'[x] = client[x]
         \/ GlobalBegin(x) /\ client'[x] \in {"active", "done"}
         \/ ClientEnds(x) /\ client'[x] = "done" /\ client[x] = "active"
<1> DEFINE Goal == \/ client'[x] = client[x]
                   \/ GlobalBegin(x) /\ client'[x] \in {"active", "done"}
                   \/ ClientEnds(x) /\ client'[x] = "done" /\ client[x] = "active"
<1> SUFFICES Goal
  OBVIOUS
<1>0. client \in [XID -> {"idle", "active", "done"}]
  BY DEF Shape, SystemTypeOK
<1>1. ASSUME NEW y \in XID, Client(y) PROVE Goal
  BY <1>0, <1>1 DEF Client, ClientEnds, GlobalBegin, ClientCommit, ClientRollback,
     ClientVanishes, Tick, phaseOne
<1>2. ASSUME NEW b \in Branch, PhaseOne(b) PROVE Goal
  BY <1>2 DEF PhaseOne, BranchStart, BranchRegister, BranchRegistered,
     InsertUndoLog, LocalCommit, LocalAbort, TryFails
<1>3. CASE Timeout
  BY <1>3 DEF Timeout, TimeoutRollback, TimeoutRequeue, TimeoutKeys, TimeoutDelete,
     phaseOne
<1>4. CASE PhaseTwoWork
  BY <1>4 DEF PhaseTwoWork, BranchCommit, BranchRollback, PhaseTwoFails,
     UndoAnswerLost, BranchRelease, BranchDelete, DeadUnlock, DeadBranch, phaseOne
<1>5. CASE Recovery
  BY <1>5 DEF Recovery, Elect, RecoverRollback, RecoverKeys, RecoverDelete,
     RecoverBranches, RecoverBranch, WatchBranchSessions, LeaderDies, phaseOne
<1>6. ASSUME NEW t \in Thread, Driver(t) \/ Decide(t) \/ DriverFails(t) PROVE Goal
  BY <1>6 DEF Driver, Decide, DriverFails, LeaderDies, phaseOne
<1>7. CASE Crash \/ DeletePanics \/ ListDeadBranchSession \/ WatchBreaks
           \/ UNCHANGED tmVars
  BY <1>7 DEF Crash, DeletePanics, ListDeadBranchSession, WatchBreaks, tmVars,
     LeaderDies, phaseOne
<1>8. ASSUME NEW y \in XID, NextGlobalSession(y) PROVE Goal
  BY <1>8 DEF NextGlobalSession, phaseOne
<1>9. ASSUME NEW i \in queue, NextBranchSession(i) PROVE Goal
  BY <1>9 DEF NextBranchSession, phaseOne
<1> QED
  BY <1>1, <1>2, <1>3, <1>4, <1>5, <1>6, <1>7, <1>8, <1>9 DEF TMNext

\* A goroutine that executes no call has no request to make.
LEMMA IdleRests == ASSUME NEW t \in Thread, Driver(t) \/ Decide(t) PROVE thread[t] # Idle
BY IdleFields DEF Driver, Decide, DecideTxn, Request, FilterRowKey, ReleaseRow, ReleaseRows,
   CommitGetGlobal, GetBranchSessionKeys, MarkBranchSession, ReportPut, ReportDelete,
   Unindex, ReleaseTxn

\* A client that is through with its transaction stays so.
LEMMA OverStays ==
  ASSUME TypeOK, CallShape, Shape, [TMNext]_tmVars, NEW x \in XID, Over(x)
  PROVE  Over(x)'
<1> USE Goroutines, Kinds
<1>1. client'[x] = "done"
  BY ClientMoves DEF Over, GlobalBegin
<1>2. ~Starts(x)
  BY DEF Starts, Over, ClientEnds, ClientCommit, ClientRollback, ClientVanishes
<1>3. ~Driver(x)
  BY IdleRests DEF Over
<1>4. thread'[x] = Idle
  BY <1>2, <1>3, ThreadMoves DEF Over
<1> QED
  BY <1>1, <1>4 DEF Over

\* Between two requests of its client a global transaction is quiet, and
\* after the last one it stays quiet.
LEMMA QuietStays ==
  ASSUME Patient, TypeOK, CallShape, Shape, PInv, [TMNext]_tmVars, NEW x \in XID,
         client'[x] # "active"
  PROVE  Quiescent(x)'
<1> USE Goroutines, Kinds
<1> SUFFICES ASSUME NEW b \in Branch, XidOf[b] = x
             PROVE  ~InFlight(b)'
  BY DEF Quiescent, BranchesOf
<1>1. CASE client[x] # "active"
  <2>1. ~InFlight(b)
    BY <1>1 DEF PInv, Turns, Quiescent, BranchesOf
  <2>2. ~Driver(b)
    BY <2>1, IdleRests DEF InFlight
  <2>3. ~PhaseOne(b)
    BY <1>1, <2>1, IdleFields DEF InFlight, LocalOpen, PhaseOne, BranchStart, BranchRegister,
       BranchRegistered, AddBranchTxn, InsertUndoLog, LocalCommit, LocalAbort,
       TryFails, Patient
  <2>4. thread'[b] = thread[b] /\ local'[b] = local[b]
    BY <2>2, <2>3, BranchMoves DEF PInv
  <2> QED BY <2>1, <2>4 DEF InFlight, LocalOpen
<1>2. CASE client[x] = "active"
  <2>1. ClientEnds(x)
    BY <1>2, ClientMoves DEF GlobalBegin
  <2>2. Quiescent(x) /\ UNCHANGED local
    BY <2>1 DEF ClientEnds, ClientCommit, ClientRollback, ClientVanishes, Patient
  <2>3. UNCHANGED thread \/ GlobalCommit(x, x) \/ GlobalRollback(x, x)
    BY <2>1 DEF ClientEnds, ClientCommit, ClientRollback, ClientVanishes, vars
  <2>4. thread'[b] = thread[b]
    BY <2>3, StartEffect DEF Begins, Only
  <2> QED BY <2>2, <2>4 DEF InFlight, LocalOpen, Quiescent, BranchesOf
<1> QED
  BY <1>1, <1>2

\* Who changes the status of a global transaction.
LEMMA StatusMoves ==
  ASSUME TypeOK, CallShape, Shape, PInv, [TMNext]_tmVars, NEW x \in XID
  PROVE  \/ gs'[x] = gs[x]
         \/ gs[x] = "Unborn" /\ GlobalBegin(x)
         \/ \E t \in Thread : Decide(t) /\ thread[t].x = x
         \/ Decided(x) /\ gs'[x] = "Gone"
<1> DEFINE Goal == \/ gs'[x] = gs[x]
                   \/ gs[x] = "Unborn" /\ GlobalBegin(x)
                   \/ \E t \in Thread : Decide(t) /\ thread[t].x = x
                   \/ Decided(x) /\ gs'[x] = "Gone"
<1> SUFFICES Goal
  OBVIOUS
<1> USE Goroutines
<1>0. gs \in [XID -> GlobalStatus]
  BY DEF TypeOK
<1>1. ASSUME NEW y \in XID, DeleteGlobalSession(y), Decided(y) PROVE Goal
  BY <1>0, <1>1 DEF DeleteGlobalSession
<1>2. ASSUME NEW y \in XID, Client(y) PROVE Goal
  <2>1. CASE GlobalCommit(y, y) \/ GlobalRollback(y, y)
    BY <2>1, StartEffect
  <2> QED BY <1>0, <1>2, <2>1 DEF Client, ClientEnds, GlobalBegin, AddGlobalSession,
       ClientCommit, ClientRollback, ClientVanishes, Tick, vars
<1>3. ASSUME NEW b \in Branch, PhaseOne(b) PROVE Goal
  <2>1. CASE AddBranchSession(b, b) \/ BranchReport(b, b) \/ AddBranchTxn(b)
    BY <2>1, StartEffect, RegisterEffect
  <2> QED BY <1>3, <2>1 DEF PhaseOne, BranchStart, BranchRegister, BranchRegistered,
     InsertUndoLog, LocalCommit, LocalAbort, TryFails, vars
<1>4. CASE Timeout
  <2>1. CASE TimeoutDelete
    <3>1. gq.x \in XID /\ Decided(gq.x)
      BY <2>1 DEF TimeoutDelete, Shape, Handles, PInv, Sessions
    <3> QED BY <1>1, <2>1, <3>1 DEF TimeoutDelete, vars
  <2> QED BY <1>4, <2>1 DEF Timeout, TimeoutRollback, TimeoutRequeue, TimeoutKeys,
     GlobalRollback, vars
<1>5. CASE PhaseTwoWork
  BY <1>5 DEF PhaseTwoWork, BranchCommit, BranchRollback, PhaseTwoFails, ReleaseUndone,
     UndoAnswerLost, BranchRelease, BranchDelete, DeadUnlock, DeadBranch,
     ReleaseLockKeys, DeleteBranchSession, SetBranchSessionDead, vars
<1>6. CASE Recovery
  <2>1. ASSUME NEW y \in XID, RecoverDelete(y) PROVE Goal
    BY <1>1, <2>1 DEF RecoverDelete, PInv, Sessions, vars
  <2> QED BY <1>6, <2>1 DEF Recovery, Elect, RecoverRollback, RecoverKeys,
     RecoverBranches, RecoverBranch, WatchBranchSessions, GlobalRollback, vars
<1>7. ASSUME NEW t \in Thread, Driver(t) PROVE Goal
  BY <1>7, RequestEffect DEF Driver
<1>8. ASSUME NEW t \in Thread, Decide(t) PROVE Goal
  BY <1>0, <1>8, DecideEffect DEF Decide
<1>9. ASSUME NEW T, CallsFail(T) PROVE Goal
  BY <1>9 DEF CallsFail
<1>10. CASE ListDeadBranchSession \/ WatchBreaks \/ UNCHANGED tmVars
  BY <1>10 DEF ListDeadBranchSession, WatchBreaks, tmVars, vars
<1>11. ASSUME NEW y \in XID, NextGlobalSession(y) PROVE Goal
  BY <1>11 DEF NextGlobalSession, vars
<1>12. ASSUME NEW i \in queue, NextBranchSession(i) PROVE Goal
  BY <1>12 DEF NextBranchSession, vars
<1>13. ASSUME NEW t \in Thread, DriverFails(t) PROVE Goal
  BY <1>9, <1>13 DEF DriverFails
<1>14. CASE Crash \/ DeletePanics
  BY <1>9, <1>14 DEF Crash, DeletePanics
<1> QED
  BY <1>2, <1>3, <1>4, <1>5, <1>6, <1>7, <1>8, <1>10, <1>11, <1>12, <1>13, <1>14
  DEF TMNext

\* The status of a global transaction whose client is active, or that some
\* goroutine is deciding, is Begin.
LEMMA BeginStays ==
  ASSUME TypeOK, CallShape, Shape, PInv, [TMNext]_tmVars, NEW x \in XID
  PROVE  /\ client'[x] = "idle" <=> gs'[x] = "Unborn"
         /\ client'[x] = "active" => gs'[x] = "Begin"
         /\ x \in {thread'[x].x, thread'[GQ].x} => gs'[x] = "Begin"
<1> USE Goroutines, Kinds, NoneAssumption
<1>t. /\ client[x] = "idle" <=> gs[x] = "Unborn"
      /\ client[x] = "active" => gs[x] = "Begin"
      /\ x \in {thread[x].x, thread[GQ].x} => gs[x] = "Begin"
      /\ thread[GQ].x = x => Over(x)
  BY DEF PInv, Turns
<1>d. ASSUME NEW t \in Thread, Decide(t), thread[t].x = x
      PROVE  /\ t \in {x, GQ} /\ gs[x] = "Begin" /\ client[x] = "done"
             /\ gs'[x] \in {"Committing", "Rollbacking"} /\ thread'[t] = Idle
  <2>1. thread[t].pc = "getBranches" /\ thread'[t] = Idle
        /\ gs'[x] = thread[t].to
    BY <1>d, DecideEffect DEF Decide, TypeOK
  <2>2. thread[t].to \in {"Committing", "Rollbacking"}
    BY <2>1 DEF PInv, Calls, CallOf, DecisionPc
  <2> QED BY <1>d, <2>1, <2>2, Deciding DEF PInv, DecisionPc
<1>g. ASSUME GlobalBegin(x) PROVE gs'[x] = "Begin" /\ client'[x] # "idle" /\ UNCHANGED thread
  BY <1>g DEF GlobalBegin, AddGlobalSession, TypeOK, Shape, SystemTypeOK
<1>1. /\ client'[x] = "idle" <=> gs'[x] = "Unborn"
      /\ client'[x] = "active" => gs'[x] = "Begin"
  BY <1>t, <1>d, <1>g, ClientMoves, StatusMoves DEF Decided
<1>2. ASSUME NEW u \in {x, GQ}, thread'[u].x = x PROVE gs'[x] = "Begin"
  <2>0. thread'[u] # Idle
    BY <1>2, IdleFields
  <2>1. CASE thread'[u] = thread[u]
    <3>1. gs[x] = "Begin" /\ thread[u] # Idle
      BY <1>t, <1>2, <2>0, <2>1
    <3>2. \A t \in Thread : ~(Decide(t) /\ thread[t].x = x)
      <4> SUFFICES ASSUME NEW t \in Thread, Decide(t), thread[t].x = x PROVE FALSE
        OBVIOUS
      <4>1. t \in {x, GQ} /\ t # u
        BY <1>d, <2>0
      <4>2. thread[GQ].x = x /\ thread[x] # Idle
        BY <1>2, <2>1, <3>1, <4>1, IdleRests
      <4> QED BY <1>t, <4>2 DEF Over
    <3> QED BY <3>1, <3>2, StatusMoves DEF Decided
  <2>2. CASE Driver(u)
    <3>1. UNCHANGED gs /\ (Reports(u) \/ Looks(u) \/ Collects(u))
      BY <2>2, RequestEffect DEF Driver
    <3>2. thread[u].x = x
      BY <1>2, <2>0, <3>1 DEF Reports, Looks, Collects, GoesOn
    <3> QED BY <1>t, <1>2, <3>1, <3>2
  <2>3. CASE Starts(u)
    <3>1. CASE u = x
      <4>1. client[x] = "active" /\ (GlobalCommit(x, x) \/ GlobalRollback(x, x))
        BY <2>3, <3>1 DEF Starts, ClientEnds, ClientCommit, ClientRollback, ClientVanishes
      <4> QED BY <1>t, <4>1, StartEffect
    <3>2. CASE u = GQ
      <4>1. PICK y \in XID : GlobalRollback(GQ, y)
        BY <2>3, <3>2 DEF Starts
      <4>2. thread'[GQ].x = y /\ gs[y] = "Begin" /\ UNCHANGED gs
        BY <4>1, StartEffect DEF Begins
      <4> QED BY <1>2, <3>2, <4>2
    <3> QED BY <3>1, <3>2
  <2> QED BY <2>0, <2>1, <2>2, <2>3, ThreadMoves
<1> QED
  BY <1>1, <1>2

\* What happens to expired, to the items of globalSessionQueue and to the
\* goroutine that works on them.
LEMMA TimerMoves ==
  ASSUME TypeOK, Shape, PInv, [TMNext]_tmVars, NEW x \in XID
  PROVE  /\ x \in expired' => x \in expired \/ Tick(x)
         /\ x \in expired => x \in expired'
         /\ gq'.x = x => gq.x = x \/ NextGlobalSession(x)
         /\ \/ timer'[x] \in {timer[x], "off"}
            \/ timer'[x] = "waiting" /\ (GlobalBegin(x) \/ gq.x = x)
            \/ Elect /\ timer'[x] = RecoveredTimer(x)
<1> DEFINE Goal == /\ x \in expired' => x \in expired \/ Tick(x)
                   /\ x \in expired => x \in expired'
                   /\ gq'.x = x => gq.x = x \/ NextGlobalSession(x)
                   /\ \/ timer'[x] \in {timer[x], "off"}
                      \/ timer'[x] = "waiting" /\ (GlobalBegin(x) \/ gq.x = x)
                      \/ Elect /\ timer'[x] = RecoveredTimer(x)
<1> SUFFICES Goal
  OBVIOUS
<1>0. /\ timer \in [XID -> {"off", "waiting", "due"}]
      /\ gq \in [pc : {"idle", "rollback", "requeue", "keys", "delete"},
                 x : XID \cup {None}]
      /\ NoTimer.x = None
  BY DEF Shape, SystemTypeOK, NoTimer
<1> HIDE DEF Goal
<1>u. ASSUME UNCHANGED <<expired, timer, gq>> PROVE Goal
  BY <1>u DEF Goal
<1>l. ASSUME LeaderDies PROVE Goal
  BY <1>0, <1>l, NoneAssumption DEF LeaderDies, Goal
<1>1. ASSUME NEW y \in XID, Client(y) PROVE Goal
  BY <1>0, <1>1 DEF Goal, Client, ClientEnds, GlobalBegin, ClientCommit, ClientRollback,
     ClientVanishes, Tick, leading
<1>2. ASSUME NEW b \in Branch, PhaseOne(b) PROVE Goal
  BY <1>u, <1>2 DEF PhaseOne, BranchStart, BranchRegister, BranchRegistered,
     InsertUndoLog, LocalCommit, LocalAbort, TryFails, leading
<1>3. CASE Timeout
  BY <1>0, <1>3, NoneAssumption DEF Goal, Timeout, TimeoutRollback, TimeoutRequeue,
     TimeoutKeys, TimeoutDelete
<1>4. CASE PhaseTwoWork
  BY <1>u, <1>4 DEF PhaseTwoWork, BranchCommit, BranchRollback, PhaseTwoFails,
     UndoAnswerLost, BranchRelease, BranchDelete, DeadUnlock, DeadBranch
<1>5. CASE Recovery
  <2>1. CASE Elect
    BY <1>0, <2>1 DEF Goal, Elect
  <2> QED BY <1>u, <1>l, <1>5, <2>1 DEF Recovery, RecoverRollback, RecoverKeys,
     RecoverDelete, RecoverBranches, RecoverBranch, WatchBranchSessions
<1>6. ASSUME NEW t \in Thread, Driver(t) \/ Decide(t) \/ DriverFails(t) PROVE Goal
  BY <1>u, <1>l, <1>6 DEF Driver, Decide, DriverFails, leading
<1>7. CASE Crash \/ DeletePanics \/ ListDeadBranchSession \/ WatchBreaks
           \/ UNCHANGED tmVars
  BY <1>u, <1>l, <1>7 DEF Crash, DeletePanics, ListDeadBranchSession, WatchBreaks,
     tmVars, leading
<1>8. ASSUME NEW y \in XID, NextGlobalSession(y) PROVE Goal
  <2>1. timer' = [timer EXCEPT ![y] = "off"] /\ gq = NoTimer /\ UNCHANGED expired
    BY <1>8 DEF NextGlobalSession
  <2>2. gq'.x \in {y, None}
    BY <1>0, <1>8 DEF NextGlobalSession
  <2> QED BY <1>0, <1>8, <2>1, <2>2, NoneAssumption DEF Goal
<1>9. ASSUME NEW i \in queue, NextBranchSession(i) PROVE Goal
  BY <1>u, <1>9 DEF NextBranchSession
<1> QED
  BY <1>1, <1>2, <1>3, <1>4, <1>5, <1>6, <1>7, <1>8, <1>9 DEF TMNext

\* The recovery has yet to look at x, which it listed with status Begin.
Asked(x) == [x |-> x, pc |-> "rollback"] \in lead.sessions

\* Why the leader dies.
Dies ==
  /\ LeaderDies /\ thread'[GQ] = Idle /\ thread'[BQ] = Idle
  /\ \/ \A x \in XID : client[x] # "active" /\ thread[x] = Idle
     \/ /\ \E x \in XID : Asked(x) /\ x \in expired /\ gs[x] \in {"Committing", "Gone"}
        /\ UNCHANGED vars
     \/ Driver(GQ) /\ Fatal(GQ)

\* The recovery looks at x.
Looked(x) ==
  /\ \A y \in XID : Asked(y)' <=> Asked(y) /\ y # x
  /\ \/ x \in expired /\ GlobalRollback(GQ, x)
     \/ (x \in expired => gs[x] = "Rollbacking") /\ UNCHANGED vars

\* What happens to the leader.
LEMMA LeadMoves ==
  ASSUME Patient, TypeOK, CallShape, Shape, Leads, [TMNext]_tmVars
  PROVE  \/ lead'.st = lead.st /\ \A y \in XID : Asked(y)' <=> Asked(y)
         \/ lead'.st = lead.st /\ \E x \in XID : Looked(x)
         \/ Dies
         \/ Elect
         \/ RecoverBranches
         \/ /\ lead.st \in {"branch", "watching"} /\ lead'.st \in {"watching", "deaf"}
            /\ \A y \in XID : Asked(y)' => Asked(y)
<1> DEFINE Goal == \/ lead'.st = lead.st /\ \A y \in XID : Asked(y)' <=> Asked(y)
                   \/ lead'.st = lead.st /\ \E x \in XID : Looked(x)
                   \/ Dies
                   \/ Elect
                   \/ RecoverBranches
                   \/ /\ lead.st \in {"branch", "watching"} /\ lead'.st \in {"watching", "deaf"}
                      /\ \A y \in XID : Asked(y)' => Asked(y)
<1> SUFFICES Goal
  OBVIOUS
<1>0. lead \in [st : {"down", "global", "branch", "watching", "deaf"},
              sessions : SUBSET [x : XID, pc : {"rollback", "keys", "delete"}],
              branches : SUBSET [b : Branch, pc : {"delete", "unlock"}],
              replay : SUBSET Item]
  BY DEF Shape, SystemTypeOK
<1>u. ASSUME lead'.st = lead.st, lead'.sessions = lead.sessions PROVE Goal
  BY <1>u DEF Asked
<1>1. ASSUME NEW y \in XID, Client(y) PROVE Goal
  BY <1>u, <1>1 DEF Client, ClientEnds, GlobalBegin, ClientCommit, ClientRollback,
     ClientVanishes, Tick, leading
<1>2. ASSUME NEW b \in Branch, PhaseOne(b) PROVE Goal
  BY <1>u, <1>2 DEF PhaseOne, BranchStart, BranchRegister, BranchRegistered,
     InsertUndoLog, LocalCommit, LocalAbort, TryFails, leading
<1>3. CASE Timeout
  BY <1>u, <1>3 DEF Timeout, TimeoutRollback, TimeoutRequeue, TimeoutKeys, TimeoutDelete
<1>4. CASE PhaseTwoWork
  BY <1>u, <1>4 DEF PhaseTwoWork, BranchCommit, BranchRollback, PhaseTwoFails,
     UndoAnswerLost, BranchRelease, BranchDelete, DeadUnlock, DeadBranch
<1>5. CASE Recovery
  <2>1. ASSUME NEW x \in XID, RecoverRollback(x) PROVE Goal
    <3>1. CASE LeaderDies /\ UNCHANGED vars /\ x \in expired /\ gs[x] \in {"Committing", "Gone"}
      <4>1. thread[GQ] = Idle /\ Asked(x)
        BY <2>1 DEF RecoverRollback, Asked
      <4>2. lead.st = "global" /\ thread[BQ] = Idle
        BY <4>1 DEF Leads, Asked
      <4> QED BY <3>1, <4>1, <4>2 DEF Dies, vars
    <3>2. CASE /\ \/ x \in expired /\ GlobalRollback(GQ, x)
                  \/ (x \in expired => gs[x] = "Rollbacking") /\ UNCHANGED vars
               /\ lead' = [lead EXCEPT !.sessions = @ \ {[x |-> x, pc |-> "rollback"]}]
      <4>1. lead'.st = lead.st /\ lead'.sessions = lead.sessions \ {[x |-> x, pc |-> "rollback"]}
        BY <1>0, <3>2
      <4>2. \A y \in XID : Asked(y)' <=> Asked(y) /\ y # x
        BY <4>1 DEF Asked
      <4> QED BY <3>2, <4>1, <4>2 DEF Looked
    <3> QED BY <2>1, <3>1, <3>2 DEF RecoverRollback
  <2>2. ASSUME NEW x \in XID, RecoverKeys(x) \/ RecoverDelete(x) PROVE Goal
    <3>1. /\ lead'.st = lead.st
          /\ \A s : s.pc = "rollback" => (s \in lead'.sessions <=> s \in lead.sessions)
      BY <1>0, <2>2 DEF RecoverKeys, RecoverDelete
    <3> QED BY <3>1 DEF Asked
  <2>3. ASSUME NEW e \in lead.branches, RecoverBranch(e) PROVE Goal
    BY <1>0, <1>u, <2>3 DEF RecoverBranch
  <2>4. CASE WatchBranchSessions
    BY <1>0, <2>4 DEF WatchBranchSessions, Elected, Down, Asked
  <2> QED BY <1>5, <2>1, <2>2, <2>3, <2>4 DEF Recovery
<1>6. ASSUME NEW t \in Thread, Driver(t) PROVE Goal
  <2>1. CASE Fatal(t)
    <3>1. t = GQ /\ lead.st = "global" /\ thread'[GQ] = Idle /\ LeaderDies
      BY <1>6, <2>1 DEF Driver, Fatal
    <3>2. Only(GQ)
      BY <1>6, <3>1, RequestEffect, Goroutines DEF Driver
    <3>3. thread'[BQ] = Idle
      BY <3>1, <3>2, Goroutines, Kinds DEF Only, Leads
    <3>4. Driver(GQ) /\ Fatal(GQ)
      BY <1>6, <2>1, <3>1
    <3> QED BY <3>1, <3>3, <3>4 DEF Dies
  <2> QED BY <1>u, <1>6, <2>1 DEF Driver, leading
<1>7. ASSUME NEW t \in Thread, Decide(t) PROVE Goal
  BY <1>0, <1>u, <1>7 DEF Decide
<1>8. CASE Crash
  <2>1. /\ CallsFail({GQ, BQ}) /\ LeaderDies
        /\ \A x \in XID : client[x] # "active" /\ thread[x] = Idle
    BY <1>8 DEF Crash, Patient
  <2>2. thread'[GQ] = Idle /\ thread'[BQ] = Idle
    BY <2>1, Goroutines DEF CallsFail
  <2> QED BY <2>1, <2>2 DEF Dies
<1>9. CASE ListDeadBranchSession \/ WatchBreaks \/ UNCHANGED tmVars
  <2>1. CASE WatchBreaks
    BY <1>0, <2>1 DEF WatchBreaks, Asked
  <2> QED BY <1>0, <1>u, <1>9, <2>1 DEF ListDeadBranchSession, tmVars, leading
<1>10. ASSUME NEW y \in XID, NextGlobalSession(y) PROVE Goal
  BY <1>u, <1>10 DEF NextGlobalSession
<1>11. ASSUME NEW i \in queue, NextBranchSession(i) PROVE Goal
  BY <1>u, <1>11 DEF NextBranchSession
<1>12. ASSUME NEW t \in Thread, DriverFails(t) \/ DeletePanics PROVE Goal
  BY <1>12 DEF DriverFails, DeletePanics, Patient
<1>13. CASE DeletePanics
  BY <1>13 DEF DeletePanics, Patient
<1> QED
  BY <1>1, <1>2, <1>3, <1>4, <1>5, <1>6, <1>7, <1>8, <1>9, <1>10, <1>11, <1>12, <1>13
  DEF TMNext

\* An index key of a transaction whose client is through, while no branch is
\* deleted by the leader.
LEMMA KeysStay ==
  ASSUME TypeOK, PInv, SessionStep, NEW x \in XID, Over(x), thread[BQ] = Idle,
         NEW b \in Keys(x)
  PROVE  b \in Keys(x)'
<1>1. b \in Branch /\ XidOf[b] = x /\ b \in branchKey
  BY DEF Keys, BranchesOf
<1>2. ~Unindexed(b)
  <2> SUFFICES ASSUME NEW t \in Thread, thread[t].pc = "unindex", thread[t].b = b
               PROVE  FALSE
    BY DEF Unindexed
  <2>1. t \in Branch /\ t = b
    BY IdleFields, ThreadAssumption DEF PInv, Calls, CallOf, DecisionPc
  <2> QED BY <1>1, <2>1, BusyBranch DEF PInv, Over
<1>3. b \in branchKey'
  BY <1>1, <1>2 DEF SessionStep, Born, Failed, Dropped, Ended, GivenUp, Unindexed,
     Opened, Settled, Forgotten
<1> QED
  BY <1>1, <1>3 DEF Keys, BranchesOf

\* A rollback that will be fatal stays so until it is.
LEMMA StuckStays ==
  ASSUME TypeOK, CallShape, Shape, PInv, SessionStep, [TMNext]_tmVars, NEW x \in XID,
         Stuck(x), lead.st \in {"down", "global"}
  PROVE  Stuck(x)'
<1> USE Goroutines, Kinds
<1>1. PICK b \in Keys(x) : bs[b] = "Gone"
  BY DEF Stuck
<1>2. /\ b \in Branch /\ Over(x) /\ thread[BQ] = Idle
      /\ x \in expired /\ x \in expired' /\ gs[x] = "Begin"
  BY TimerMoves DEF Keys, BranchesOf, Stuck, PInv, Turns, Leads
<1>3. b \in Keys(x)' /\ bs'[b] = "Gone"
  BY <1>1, <1>2, KeysStay, GoneForever
<1>4. \A t \in Thread : ~(Decide(t) /\ thread[t].x = x)
  <2> SUFFICES ASSUME NEW t \in Thread, Decide(t), thread[t].x = x PROVE FALSE
    OBVIOUS
  <2>1. thread[t].pc = "getBranches" /\ thread[t].keys = {} /\ thread[t] # Idle
    BY DecideEffect, IdleRests DEF Decide
  <2>2. t = GQ
    BY <1>2, <2>1, Deciding DEF PInv, DecisionPc, Over
  <2> QED BY <1>1, <1>2, <2>1, <2>2 DEF PInv, Leads
<1>5. gs'[x] = "Begin"
  BY <1>2, <1>4, StatusMoves DEF Decided
<1> QED
  BY <1>2, <1>3, <1>5 DEF Stuck

\* How calls end.
LEMMA ThreadStops ==
  ASSUME Patient, TypeOK, CallShape, Shape, [TMNext]_tmVars,
         NEW t \in XID \cup {GQ, BQ}, thread'[t] = Idle, thread[t] # Idle
  PROVE  Driver(t) \/ Decide(t) \/ (LeaderDies /\ t \in {GQ, BQ})
<1> DEFINE Goal == Driver(t) \/ Decide(t) \/ (LeaderDies /\ t \in {GQ, BQ})
<1> SUFFICES Goal
  OBVIOUS
<1> USE Goroutines, Kinds
<1>0. ASSUME NEW u \in Thread \ {t}, Only(u) PROVE FALSE
  BY <1>0 DEF Only
<1>1. ASSUME NEW b \in Branch, PhaseOne(b) PROVE Goal
  <2>1. CASE AddBranchSession(b, b) \/ BranchReport(b, b) \/ AddBranchTxn(b)
    BY <1>0, <2>1, StartEffect, RegisterEffect DEF Begins
  <2> QED
    BY <1>1, <2>1 DEF PhaseOne, BranchStart, BranchRegister,
       BranchRegistered, InsertUndoLog, LocalCommit, LocalAbort, TryFails, vars
<1>g. ASSUME NEW u \in XID \cup {GQ}, NEW x \in XID, GlobalCommit(u, x) \/ GlobalRollback(u, x)
      PROVE  Goal
  BY <1>0, <1>g, StartEffect DEF Begins
<1>2. ASSUME NEW x \in XID, Client(x) PROVE Goal
  BY <1>2, <1>g DEF Client, ClientEnds, GlobalBegin, AddGlobalSession,
     ClientCommit, ClientRollback, ClientVanishes, Tick, vars
<1>3. ASSUME Timeout PROVE Goal
  <2>1. CASE TimeoutRollback
    BY <2>1, <1>g DEF TimeoutRollback, Shape, Handles, vars
  <2> QED
    BY <1>3, <2>1 DEF Timeout, TimeoutRequeue, TimeoutKeys, TimeoutDelete,
       DeleteGlobalSession, vars
<1>4. ASSUME NEW rows, ReleaseLockKeys(BQ, rows) PROVE Goal
  BY <1>0, <1>4, StartEffect DEF Begins
<1>5. ASSUME PhaseTwoWork PROVE Goal
  <2>1. CASE BranchDelete
    <3>1. bw.b \in Branch
      BY <2>1 DEF BranchDelete, Shape, Handles
    <3> QED BY <1>0, <2>1, <3>1, DeleteEffect DEF BranchDelete, vars, Begins
  <2>2. CASE PhaseTwoFails \/ UndoAnswerLost \/ BranchRelease \/ DeadUnlock
    BY <1>4, <2>2 DEF PhaseTwoFails, UndoAnswerLost, ReleaseUndone, BranchRelease,
       DeadUnlock, vars
  <2>3. CASE BranchCommit \/ BranchRollback \/ DeadBranch
    BY <2>3 DEF BranchCommit, BranchRollback, DeadBranch, SetBranchSessionDead, vars
  <2> QED BY <1>5, <2>1, <2>2, <2>3 DEF PhaseTwoWork
<1>6. ASSUME Recovery PROVE Goal
  BY <1>6, <1>g DEF Recovery, Elect, RecoverRollback, RecoverKeys, RecoverDelete,
     RecoverBranches, RecoverBranch, WatchBranchSessions, DeleteGlobalSession, vars
<1>7. ASSUME NEW u \in Thread \ {t}, Driver(u) PROVE Goal
  BY <1>0, <1>7, RequestEffect DEF Driver
<1>8. ASSUME NEW u \in Thread \ {t}, Decide(u) PROVE Goal
  BY <1>0, <1>8, DecideEffect DEF Decide
<1>15. CASE Driver(t) \/ Decide(t)
  BY <1>15
<1>9. CASE Crash
  <2>1. CallsFail({GQ, BQ}) /\ LeaderDies
    BY <1>9 DEF Crash
  <2>2. t \in Thread /\ thread'[t] = IF t \in {GQ, BQ} THEN Idle ELSE thread[t]
    BY <2>1, Zenon DEF CallsFail
  <2> QED BY <2>1, <2>2
<1>10. CASE ListDeadBranchSession \/ WatchBreaks \/ UNCHANGED tmVars
  BY <1>10 DEF ListDeadBranchSession, WatchBreaks, tmVars, vars
<1>11. ASSUME NEW x \in XID, NextGlobalSession(x) PROVE Goal
  BY <1>11 DEF NextGlobalSession, vars
<1>12. ASSUME NEW i \in queue, NextBranchSession(i) PROVE Goal
  BY <1>12 DEF NextBranchSession, vars
<1>13. ASSUME NEW u \in Thread, DriverFails(u) PROVE Goal
  BY <1>13 DEF DriverFails, Patient
<1>14. CASE DeletePanics
  BY <1>14 DEF DeletePanics, Patient
<1> QED
  BY <1>1, <1>2, <1>3, <1>5, <1>6, <1>7, <1>8, <1>9, <1>10, <1>11, <1>12, <1>13, <1>14, <1>15
  DEF TMNext

\* The recovery comes to it before it is through.
LEMMA PendingStays ==
  ASSUME Patient, TypeOK, CallShape, Shape, PInv, SessionStep, [TMNext]_tmVars, NEW x \in XID,
         Stuck(x), Pending(x), lead.st = "global", lead'.st # "down"
  PROVE  lead'.st = "global" /\ Pending(x)'
<1> USE Goroutines, Kinds
<1>1. /\ Asked(x) \/ thread[GQ].x = x
      /\ x \in expired /\ gs[x] = "Begin" /\ ~Dies
  BY DEF Pending, Asked, Stuck, Dies, LeaderDies, Down
<1>2. ~RecoverBranches
  <2>1. RecoverBranches => lead.sessions = {} /\ thread[GQ] = Idle
    BY DEF RecoverBranches
  <2> QED BY <1>1, <2>1, IdleFields, NoneAssumption DEF Asked
<1>3. lead'.st = "global"
  <2>1. ~Elect
    BY DEF Elect
  <2> QED BY <1>1, <1>2, <2>1, LeadMoves DEF PInv
<1> SUFFICES Pending(x)'
  BY <1>3
<1>d. ~LeaderDies
  BY DEF LeaderDies, Down
<1>4. CASE thread[GQ].x = x
  <2>1. thread[GQ] # Idle
    BY <1>4, IdleFields, NoneAssumption
  <2>2. CASE thread'[GQ] = Idle
    <3>1. ~Decide(GQ)
      <4> SUFFICES ASSUME Decide(GQ) PROVE FALSE
        OBVIOUS
      <4>1. thread[GQ].pc = "getBranches" /\ thread[GQ].keys = {}
        BY DecideEffect DEF Decide
      <4> QED BY <1>4, <2>1, <4>1 DEF PInv, Leads, Stuck
    <3>2. ~Driver(GQ)
      <4>1. Driver(GQ) => LeaderDies
        BY <2>2 DEF Driver, Fatal
      <4> QED BY <1>d, <4>1
    <3> QED BY <2>1, <2>2, <3>1, <3>2, <1>d, ThreadStops
  <2>3. CASE thread'[GQ] # Idle
    <3>1. CASE Driver(GQ)
      <4>1. Reports(GQ) \/ Looks(GQ) \/ Collects(GQ)
        BY <3>1, RequestEffect DEF Driver
      <4>2. thread'[GQ].x = x
        BY <1>4, <2>3, <4>1 DEF Reports, Looks, Collects, GoesOn
      <4> QED BY <4>2 DEF Pending
    <3>2. ~Starts(GQ)
      BY <2>1 DEF Starts, GlobalRollback
    <3> QED BY <1>4, <2>3, <3>1, <3>2, ThreadMoves DEF Pending
  <2> QED BY <2>2, <2>3
<1>5. CASE Asked(x)
  <2>1. CASE Asked(x)'
    BY <2>1 DEF Asked, Pending
  <2>2. CASE Looked(x)
    <3>1. thread'[GQ].x = x
      BY <1>1, <2>2, StartEffect DEF Looked, Begins
    <3> QED BY <3>1 DEF Pending
  <2> QED BY <1>1, <1>2, <1>5, <2>1, <2>2, LeadMoves DEF PInv, Looked, Elect
<1> QED
  BY <1>1, <1>4, <1>5

\* Some rollback of the recovery will be fatal.
Doomed == \E y \in XID : Stuck(y) /\ Pending(y)

\* A leader that will die in its recovery stays in it until it does.
LEMMA DoomedStays ==
  ASSUME Patient, TypeOK, CallShape, Shape, PInv, SessionStep, [TMNext]_tmVars,
         Doomed, lead.st = "global", lead'.st # "down"
  PROVE  lead'.st = "global" /\ Doomed'
BY StuckStays, PendingStays DEF Doomed

\* A leader that dies.
LEMMA DiesTurns ==
  ASSUME Patient, TypeOK, CallShape, Shape, PInv, SessionStep, [TMNext]_tmVars, Dies
  PROVE  \/ \A x \in XID : client'[x] # "active" /\ thread'[x] = Idle
         \/ \E y \in XID : Stuck(y)'
<1> USE Goroutines, Kinds
<1>1. CASE \A x \in XID : client[x] # "active" /\ thread[x] = Idle
  <2> SUFFICES ASSUME NEW x \in XID PROVE client'[x] # "active" /\ thread'[x] = Idle
    OBVIOUS
  <2>1. UNCHANGED client
    BY DEF Dies, LeaderDies, phaseOne
  <2>2. ~Starts(x)
    BY <1>1 DEF Starts, ClientEnds, ClientCommit, ClientRollback, ClientVanishes
  <2>3. ~Driver(x)
    BY <1>1, IdleRests
  <2>4. thread'[x] = Idle
    BY <1>1, <2>2, <2>3, ThreadMoves
  <2> QED BY <1>1, <2>1, <2>4
<1>2. ASSUME NEW x \in XID, Asked(x), gs[x] \in {"Committing", "Gone"}
      PROVE  \E y \in XID : Stuck(y)'
  <2>1. lead.st = "global"
    BY <1>2 DEF PInv, Leads, Asked
  <2>2. PICK y \in XID : Stuck(y)
    BY <1>2 DEF PInv, Turns, Asked
  <2> QED BY <2>1, <2>2, StuckStays
<1>3. ASSUME Driver(GQ), Fatal(GQ) PROVE \E y \in XID : Stuck(y)'
  <2> DEFINE x == thread[GQ].x
  <2>1. lead.st = "global" /\ thread'[GQ] = Idle /\ thread[GQ] # Idle
    BY <1>3, IdleRests DEF Fatal
  <2>2. thread[GQ].pc \in {"getKeys", "getBranches"} /\ x \in XID /\ gs[x] = "Begin"
    BY <2>1, Deciding DEF PInv, Calls, CallOf, DecisionPc
  <2>3. x \in expired /\ thread[GQ].keys \subseteq Keys(x)
    BY <2>1 DEF PInv, Leads
  <2>4. Collects(GQ)
    BY <1>3, <2>2, RequestEffect DEF Driver, Looks, Reports
  <2>5. PICK b \in thread[GQ].keys : ~Exists(b)
    BY <2>1, <2>4, IdleFields DEF Collects, GoesOn
  <2>6. b \in Keys(x) /\ b \in Branch /\ bs[b] = "Gone"
    BY <2>3, <2>5 DEF Keys, BranchesOf, Exists, PInv, PhaseOneOK
  <2>7. Stuck(x)
    BY <2>2, <2>3, <2>6 DEF Stuck
  <2> QED BY <2>1, <2>2, <2>7, StuckStays
<1> QED
  BY <1>1, <1>2, <1>3 DEF Dies

\* Clients, timeouts and the recovery take turns.
LEMMA TurnsNext ==
  ASSUME Patient, TypeOK, CallShape, Shape, PInv, SessionStep, [TMNext]_tmVars
  PROVE  Turns'
<1> USE Goroutines, Kinds
<1> SUFFICES ASSUME NEW x \in XID
             PROVE  /\ client'[x] = "idle" <=> gs'[x] = "Unborn"
                    /\ client'[x] = "active" => gs'[x] = "Begin"
                    /\ x \in {thread'[x].x, thread'[GQ].x} => gs'[x] = "Begin"
                    /\ client'[x] # "active" => Quiescent(x)'
                    /\ thread'[x] # Idle => client'[x] = "done"
                    /\ x \in expired' \/ x \in {gq'.x, thread'[GQ].x} => Over(x)'
                    /\ timer'[x] = "due" => Over(x)' \/ (lead'.st = "global" /\ Doomed')
                    /\ timer'[x] # "off" => gs'[x] # "Unborn"
                    /\ Asked(x)' => (gs'[x] = "Begin" /\ Over(x)' /\ thread'[GQ].x # x) \/ Doomed'
                    /\ lead'.st = "down" => \/ client'[x] # "active" /\ thread'[x] = Idle
                                            \/ \E y \in XID : Stuck(y)'
  BY DEF Turns, Asked, Doomed
<1>t. /\ client[x] = "idle" <=> gs[x] = "Unborn"
      /\ thread[x] # Idle => client[x] = "done"
      /\ x \in expired \/ x \in {gq.x, thread[GQ].x} => Over(x)
      /\ timer[x] = "due" => Over(x) \/ (lead.st = "global" /\ Doomed)
      /\ timer[x] # "off" => gs[x] # "Unborn"
      /\ Asked(x) => (gs[x] = "Begin" /\ Over(x) /\ thread[GQ].x # x) \/ Doomed
      /\ lead.st = "down" => \/ client[x] # "active" /\ thread[x] = Idle
                             \/ \E y \in XID : Stuck(y)
  BY DEF PInv, Turns, Asked, Doomed
<1>1. /\ client'[x] = "idle" <=> gs'[x] = "Unborn"
      /\ client'[x] = "active" => gs'[x] = "Begin"
      /\ x \in {thread'[x].x, thread'[GQ].x} => gs'[x] = "Begin"
  BY BeginStays
<1>2. client'[x] # "active" => Quiescent(x)'
  BY QuietStays
<1>3. thread'[x] # Idle => client'[x] = "done"
  <2>1. CASE thread[x] # Idle
    BY <1>t, <2>1, ClientMoves DEF GlobalBegin
  <2>2. CASE thread[x] = Idle /\ thread'[x] # Idle
    <3>1. ~Driver(x)
      BY <2>2, IdleRests
    <3>2. ClientEnds(x)
      BY <2>2, <3>1, ThreadMoves DEF Starts
    <3> QED BY <3>2 DEF ClientEnds, ClientCommit, ClientRollback, ClientVanishes,
         Shape, SystemTypeOK
  <2> QED BY <2>1, <2>2
<1>4. x \in expired' \/ x \in {gq'.x, thread'[GQ].x} => Over(x)'
  <2> SUFFICES ASSUME x \in expired' \/ x \in {gq'.x, thread'[GQ].x}, ~Over(x)
               PROVE  Over(x)'
    BY OverStays
  <2>1. CASE Tick(x)
    BY <2>1 DEF Tick, Patient, Over, phaseOne, vars
  <2>2. ~NextGlobalSession(x)
    BY <1>t DEF NextGlobalSession, Due, Working
  <2>3. thread'[GQ].x # x
    <3> SUFFICES ASSUME thread'[GQ].x = x PROVE FALSE
      OBVIOUS
    <3>1. thread'[GQ] # Idle /\ thread[GQ].x # x
      BY <1>t, IdleFields, NoneAssumption
    <3>2. ~Driver(GQ)
      BY <3>1, RequestEffect DEF Driver, Reports, Looks, Collects, GoesOn
    <3>3. PICK y \in XID : GlobalRollback(GQ, y) /\ (y = gq.x \/ y \in expired)
      BY <3>1, <3>2, ThreadMoves DEF Starts
    <3>4. thread'[GQ].x = y
      BY <3>3, StartEffect DEF Begins
    <3> QED BY <1>t, <3>3, <3>4
  <2> QED BY <1>t, <2>1, <2>2, <2>3, TimerMoves
<1>e. ASSUME Elect
      PROVE  /\ lead'.st = "global" /\ UNCHANGED <<gs, thread>> /\ thread[GQ] = Idle
             /\ gs[x] = "Begin" => Over(x)' \/ Doomed'
  <2>1. /\ lead.st = "down" /\ lead'.st = "global" /\ UNCHANGED <<vars, client, expired>>
        /\ \A y \in XID : gs[y] = "Begin" => Asked(y)'
    BY <1>e DEF Elect, Down, Asked, phaseOne
  <2>2. ASSUME NEW y \in XID, Stuck(y) PROVE Doomed'
    <3>1. Stuck(y)' /\ Asked(y)'
      BY <2>1, <2>2, StuckStays DEF Stuck
    <3> QED BY <3>1 DEF Doomed, Pending, Asked
  <2>3. ASSUME client[x] # "active", thread[x] = Idle, gs[x] = "Begin" PROVE Over(x)'
    <3>1. client[x] = "done"
      BY <1>t, <2>3 DEF Shape, SystemTypeOK
    <3> QED BY <2>1, <2>3, <3>1 DEF Over, vars
  <2> QED BY <1>t, <2>1, <2>2, <2>3 DEF PInv, Leads, vars
<1>5. timer'[x] = "due" => Over(x)' \/ (lead'.st = "global" /\ Doomed')
  <2> SUFFICES ASSUME timer'[x] = "due" PROVE Over(x)' \/ (lead'.st = "global" /\ Doomed')
    OBVIOUS
  <2>1. CASE Elect
    BY <1>e, <2>1 DEF Elect, RecoveredTimer
  <2>2. CASE timer[x] = "due" /\ ~Elect
    <3>1. CASE Over(x)
      BY <3>1, OverStays
    <3>2. CASE lead.st = "global" /\ Doomed
      <4>1. ~Dies
        BY DEF Dies, LeaderDies
      <4>2. RecoverBranches => lead'.st = "branch"
        BY DEF RecoverBranches, Shape, SystemTypeOK
      <4>3. lead'.st # "down"
        BY <2>2, <3>2, <4>1, <4>2, LeadMoves DEF PInv
      <4> QED BY <3>2, <4>3, DoomedStays
    <3> QED BY <1>t, <2>2, <3>1, <3>2
  <2> QED BY <2>1, <2>2, TimerMoves
<1>6. timer'[x] # "off" => gs'[x] # "Unborn"
  <2>1. CASE GlobalBegin(x)
    BY <2>1 DEF GlobalBegin, AddGlobalSession, TypeOK
  <2>2. gs[x] # "Unborn" => gs'[x] # "Unborn"
    BY <1>1, <1>t, ClientMoves
  <2>3. timer'[x] # "off" /\ ~GlobalBegin(x) => gs[x] # "Unborn"
    BY <1>t, TimerMoves DEF RecoveredTimer, Over
  <2> QED BY <2>1, <2>2, <2>3
<1>7. Asked(x)' => (gs'[x] = "Begin" /\ Over(x)' /\ thread'[GQ].x # x) \/ Doomed'
  <2> SUFFICES ASSUME Asked(x)', ~Doomed'
               PROVE  gs'[x] = "Begin" /\ Over(x)' /\ thread'[GQ].x # x
    OBVIOUS
  <2>1. CASE Elect
    BY <1>e, <2>1, IdleFields, NoneAssumption DEF Elect, Asked, Down
  <2>2. CASE ~Elect
    <3>1. ~Dies /\ ~RecoverBranches
      <4>1. lead'.sessions # {}
        BY DEF Asked
      <4>2. ~Dies
        BY <4>1 DEF Dies, LeaderDies, Down
      <4>3. RecoverBranches => lead.sessions = {} /\ lead'.sessions = lead.sessions
        BY DEF RecoverBranches, Shape, SystemTypeOK
      <4> QED BY <4>1, <4>2, <4>3
    <3>2. Asked(x) /\ ~Looked(x)
      BY <2>2, <3>1, LeadMoves DEF PInv, Looked
    <3>3. lead.st = "global" /\ gq = NoTimer /\ lead'.st = "global"
      BY <2>2, <3>1, <3>2, LeadMoves DEF PInv, Leads, Asked, Working
    <3>4. gs[x] = "Begin" /\ Over(x) /\ thread[GQ].x # x
      BY <1>t, <3>2, <3>3, DoomedStays
    <3>5. gs'[x] = "Begin"
      <4>1. ASSUME NEW t \in Thread, Decide(t), thread[t].x = x PROVE FALSE
        <5>1. thread[t].pc = "getBranches" /\ thread[t] # Idle
          BY <4>1, DecideEffect, IdleRests DEF Decide
        <5>2. t \in {x, GQ}
          BY <4>1, <5>1, Deciding DEF PInv, DecisionPc
        <5> QED BY <3>4, <4>1, <5>1, <5>2 DEF Over
      <4> QED BY <3>4, <4>1, StatusMoves DEF Decided
    <3>6. thread'[GQ].x # x
      <4> SUFFICES ASSUME thread'[GQ].x = x PROVE FALSE
        OBVIOUS
      <4>1. thread'[GQ] # Idle
        BY IdleFields, NoneAssumption
      <4>2. ~Driver(GQ)
        BY <3>4, <4>1, RequestEffect DEF Driver, Reports, Looks, Collects, GoesOn
      <4>3. PICK y \in XID : GlobalRollback(GQ, y) /\ y \in expired /\ RecoverRollback(y)
        BY <3>3, <3>4, <4>1, <4>2, ThreadMoves, NoneAssumption DEF Starts, NoTimer
      <4>4. y = x
        BY <4>3, StartEffect DEF Begins
      <4>5. lead'.sessions = lead.sessions \ {[x |-> x, pc |-> "rollback"]}
        BY <3>1, <3>3, <4>3, <4>4 DEF RecoverRollback, Shape, SystemTypeOK, LeaderDies, Down
      <4> QED BY <4>5 DEF Asked
    <3> QED BY <3>4, <3>5, <3>6, OverStays
  <2> QED BY <2>1, <2>2
<1>8. lead'.st = "down" => \/ client'[x] # "active" /\ thread'[x] = Idle
                           \/ \E y \in XID : Stuck(y)'
  <2> SUFFICES ASSUME lead'.st = "down", ~Dies
               PROVE  \/ client'[x] # "active" /\ thread'[x] = Idle
                      \/ \E y \in XID : Stuck(y)'
    BY DiesTurns
  <2>1. ~Elect /\ ~RecoverBranches
    BY DEF Elect, RecoverBranches, Down, Shape, SystemTypeOK
  <2>2. lead.st = "down"
    BY <2>1, LeadMoves DEF PInv
  <2>3. CASE client[x] # "active" /\ thread[x] = Idle
    <3>1. client'[x] # "active"
      BY <2>2, <2>3, ClientMoves DEF GlobalBegin, Patient
    <3>2. ~Starts(x)
      BY <2>3 DEF Starts, ClientEnds, ClientCommit, ClientRollback, ClientVanishes
    <3>3. ~Driver(x)
      BY <2>3, IdleRests
    <3>4. thread'[x] = Idle
      BY <2>3, <3>2, <3>3, ThreadMoves
    <3> QED BY <3>1, <3>4
  <2> QED BY <1>t, <2>2, <2>3, StuckStays
<1> QED
  BY <1>1, <1>2, <1>3, <1>4, <1>5, <1>6, <1>7, <1>8

---------------------------------------------------------------------------
(***************************************************************************)
(* The list of a decision                                                  *)
(***************************************************************************)
\* The list of a decision stays complete: no branch of a transaction that is
\* being decided registers, fails or is decided by somebody else.
LEMMA ListsNext ==
  ASSUME TypeOK, CallShape, Shape, PInv, SessionStep, [TMNext]_tmVars
  PROVE  Lists'
<1> USE Goroutines, Kinds
<1> SUFFICES ASSUME NEW t \in Thread, thread'[t].pc = "getBranches"
             PROVE  /\ thread'[t].keys \subseteq BranchesOf(thread'[t].x)
                    /\ \A b \in BranchesOf(thread'[t].x) :
                         bs'[b] = "Registered" => b \in thread'[t].keys \cup thread'[t].puts
                    /\ \A b \in thread'[t].puts :
                         XidOf[b] = thread'[t].x /\ bs'[b] = "Registered"
  BY DEF Lists, BranchesOf
<1>0. thread'[t] # Idle /\ \A b \in Branch : bs[b] \in BranchStatus
  BY IdleFields DEF TypeOK
<1>1. CASE thread'[t] = thread[t]
  <2> DEFINE x == thread[t].x
  <2>1. /\ x \in XID /\ t \in {x, GQ} /\ Quiescent(x)
    BY <1>1, Deciding DEF PInv, DecisionPc
  <2>2. gs'[x] = "Begin"
    BY <1>1, <2>1, BeginStays
  <2>3. /\ thread[t].keys \subseteq BranchesOf(x)
        /\ \A b \in BranchesOf(x) :
             bs[b] = "Registered" => b \in thread[t].keys \cup thread[t].puts
        /\ \A b \in thread[t].puts : XidOf[b] = x /\ bs[b] = "Registered"
        /\ thread[t].puts \subseteq Branch
    BY <1>1 DEF PInv, Lists, TypeOK, Call
  <2>4. ASSUME NEW b \in Branch, XidOf[b] = x
        PROVE  bs'[b] = "Registered" <=> bs[b] = "Registered"
    <3>1. thread[b] = Idle
      BY <2>1, <2>4 DEF Quiescent, InFlight, BranchesOf
    <3>2. ASSUME NEW c \in Branch, Born(c) \/ Failed(c) \/ Dropped(c) \/ Ended(c)
                                   \/ GivenUp(c) \/ Unindexed(c)
          PROVE  bs'[b] = "Registered" <=> bs[b] = "Registered"
      BY <3>1, <3>2, IdleFields DEF Born, Failed, Dropped, Ended, GivenUp, Unindexed, TypeOK
    <3>3. ASSUME NEW y \in XID, Opened(y) \/ Forgotten(y)
          PROVE  bs'[b] = bs[b]
      BY <3>3 DEF Opened, Forgotten
    <3>4. ASSUME NEW y \in XID, NEW to \in {"Committing", "Rollbacking"}, Settled(y, to)
          PROVE  bs'[b] = bs[b]
      <4>1. y # x
        BY <2>1, <2>2, <3>4 DEF Settled, TypeOK
      <4> QED BY <2>4, <3>4, <4>1 DEF Settled
    <3> QED BY <3>2, <3>3, <3>4 DEF SessionStep
  <2> QED BY <1>1, <2>3, <2>4 DEF BranchesOf
<1>2. CASE Driver(t)
  <2>1. Collects(t) /\ UNCHANGED bs
    BY <1>0, <1>2, RequestEffect DEF Driver, Reports, Looks, GoesOn
  <2>2. CASE thread[t].pc = "getKeys"
    <3>1. thread'[t].x = thread[t].x /\ thread'[t].keys = Keys(thread[t].x)
          /\ thread'[t].puts = {}
      BY <2>1, <2>2 DEF Collects, GoesOn, PInv, Calls, CallOf
    <3>2. \A b \in Branch : bs[b] = "Registered" => b \in branchKey
      BY DEF PInv, PhaseOneOK, Exists
    <3> QED BY <2>1, <3>1, <3>2 DEF Keys, BranchesOf
  <2>3. CASE thread[t].pc = "getBranches"
    <3>1. PICK b \in thread[t].keys :
            /\ thread'[t].x = thread[t].x
            /\ thread'[t].keys = thread[t].keys \ {b}
            /\ thread'[t].puts = IF bs[b] = "Registered" THEN thread[t].puts \cup {b}
                                                         ELSE thread[t].puts
      BY <1>0, <2>1, <2>3 DEF Collects, GoesOn
    <3> QED BY <2>1, <2>3, <3>1 DEF PInv, Lists, BranchesOf
  <2> QED BY <2>1, <2>2, <2>3 DEF Collects
<1>3. ~Starts(t)
  BY StartEffect, DeleteEffect DEF Starts, Begins
<1> QED
  BY <1>0, <1>1, <1>2, <1>3, ThreadMoves

---------------------------------------------------------------------------
(***************************************************************************)
(* The leader                                                              *)
(***************************************************************************)
\* The state of the leader and its workers, without their calls.
Offices ==
  /\ lead.st # "global" => lead.sessions = {}
  /\ lead.st # "branch" => lead.replay = {} /\ lead.branches = {}
  /\ ~Working => gq = NoTimer
  /\ lead.st \in {"down", "global"} => queue = {} /\ bw = NoWork

\* Every step keeps the parts of the leader apart.
LEMMA OfficesNext ==
  ASSUME Patient, TypeOK, Shape, Offices, [TMNext]_tmVars
  PROVE  Offices'
<1> USE DEF Offices, Working
<1>0. lead \in [st : {"down", "global", "branch", "watching", "deaf"},
              sessions : SUBSET [x : XID, pc : {"rollback", "keys", "delete"}],
              branches : SUBSET [b : Branch, pc : {"delete", "unlock"}],
              replay : SUBSET Item]
  BY DEF Shape, SystemTypeOK
<1>n. NoTimer.pc = "idle" /\ NoWork.pc = "idle"
  BY DEF NoTimer, NoWork
<1>u. ASSUME UNCHANGED <<gq, queue, bw, lead>> PROVE Offices'
  BY <1>u
<1>l. ASSUME LeaderDies PROVE Offices'
  BY <1>l DEF LeaderDies, Down
<1>1. ASSUME NEW y \in XID, Client(y) PROVE Offices'
  BY <1>u, <1>1 DEF Client, ClientEnds, GlobalBegin, ClientCommit, ClientRollback,
     ClientVanishes, Tick, leading
<1>2. ASSUME NEW b \in Branch, PhaseOne(b) PROVE Offices'
  BY <1>u, <1>2 DEF PhaseOne, BranchStart, BranchRegister, BranchRegistered,
     InsertUndoLog, LocalCommit, LocalAbort, TryFails, leading
<1>3. CASE Timeout
  <2>1. gq.pc # "idle" /\ UNCHANGED <<queue, bw, lead>>
    BY <1>3 DEF Timeout, TimeoutRollback, TimeoutRequeue, TimeoutKeys, TimeoutDelete
  <2> QED BY <1>n, <2>1
<1>4. CASE PhaseTwoWork
  <2>1. bw.pc # "idle" /\ UNCHANGED <<gq, lead>>
    BY <1>4 DEF PhaseTwoWork, BranchCommit, BranchRollback, PhaseTwoFails,
       UndoAnswerLost, BranchRelease, BranchDelete, DeadUnlock, DeadBranch
  <2> QED BY <1>n, <2>1
<1>5. CASE Recovery
  <2>1. ASSUME NEW x \in XID, RecoverRollback(x) \/ RecoverKeys(x) \/ RecoverDelete(x)
        PROVE  Offices'
    BY <1>0, <1>l, <2>1 DEF RecoverRollback, RecoverKeys, RecoverDelete
  <2>2. CASE Elect
    BY <2>2 DEF Elect, Down
  <2>3. CASE RecoverBranches
    BY <1>0, <2>3 DEF RecoverBranches
  <2>4. ASSUME NEW e \in lead.branches, RecoverBranch(e) PROVE Offices'
    BY <1>0, <2>4 DEF RecoverBranch
  <2>5. CASE WatchBranchSessions
    BY <2>5 DEF WatchBranchSessions, Elected, Down
  <2> QED BY <1>5, <2>1, <2>2, <2>3, <2>4, <2>5 DEF Recovery
<1>6. ASSUME NEW t \in Thread, Driver(t) PROVE Offices'
  BY <1>u, <1>l, <1>6 DEF Driver, leading
<1>7. ASSUME NEW t \in Thread, Decide(t) PROVE Offices'
  BY <1>0, <1>7 DEF Decide
<1>8. CASE Crash \/ UNCHANGED tmVars
  BY <1>u, <1>l, <1>8 DEF Crash, tmVars, leading
<1>9. CASE ListDeadBranchSession \/ WatchBreaks
  BY <1>0, <1>9 DEF ListDeadBranchSession, WatchBreaks
<1>10. ASSUME NEW y \in XID, NextGlobalSession(y) PROVE Offices'
  BY <1>10 DEF NextGlobalSession
<1>11. ASSUME NEW i \in queue, NextBranchSession(i) PROVE Offices'
  BY <1>11 DEF NextBranchSession
<1>12. ASSUME NEW t \in Thread, DriverFails(t) PROVE Offices'
  BY <1>12 DEF DriverFails, Patient
<1>13. CASE DeletePanics
  BY <1>13 DEF DeletePanics, Patient
<1> QED
  BY <1>1, <1>2, <1>3, <1>4, <1>5, <1>6, <1>7, <1>8, <1>9, <1>10, <1>11, <1>12, <1>13
  DEF TMNext

\* What a rollback of the recovery knows.
Foresees ==
  lead.st = "global" /\ thread[GQ] # Idle =>
    LET x == thread[GQ].x
    IN  /\ x \in expired
        /\ thread[GQ].keys \subseteq Keys(x)
        /\ thread[GQ].pc = "getBranches"
             => \A b \in Keys(x) : bs[b] = "Gone" => b \in thread[GQ].keys

\* No branch of a quiet transaction that is not decided is deleted.
LEMMA QuietKeys ==
  ASSUME TypeOK, PInv, SessionStep, NEW x \in XID, Over(x), gs[x] = "Begin",
         NEW b \in Branch, XidOf[b] = x, b \in branchKey', bs'[b] = "Gone"
  PROVE  b \in branchKey /\ bs[b] = "Gone"
<1>1. thread[b] = Idle
  <2>1. Quiescent(x)
    BY DEF PInv, Turns, Over
  <2> QED BY <2>1 DEF Quiescent, InFlight, BranchesOf
<1>2. bs[b] \in {"Unborn", "Registered", "Gone"}
  BY <1>1, IdleFields DEF PInv, Statuses, Allowed, PhaseOneOK
<1>3. ASSUME NEW c \in Branch, Born(c) \/ Failed(c) \/ Dropped(c) \/ Ended(c)
                               \/ GivenUp(c) \/ Unindexed(c)
      PROVE  b \in branchKey /\ bs[b] = "Gone"
  <2>1. /\ b \in branchKey' => b \in branchKey \/ (c = b /\ Born(b))
        /\ bs'[b] = "Gone" => bs[b] = "Gone" \/ (c = b /\ bs[b] \notin {"Registered", "Unborn"})
    BY <1>3 DEF Born, Failed, Dropped, Ended, GivenUp, Unindexed, TypeOK
  <2> QED BY <1>1, <1>2, <2>1, IdleFields DEF Born
<1>4. ASSUME NEW y \in XID, NEW to, Opened(y) \/ Forgotten(y) \/ Settled(y, to)
      PROVE  b \in branchKey /\ bs[b] = "Gone"
  BY <1>4 DEF Opened, Forgotten, Settled, PhaseTwo
<1> QED
  BY <1>3, <1>4 DEF SessionStep

\* Every step keeps the list of a rollback of the recovery complete.
LEMMA ForeseesNext ==
  ASSUME Patient, TypeOK, CallShape, Shape, PInv, SessionStep, [TMNext]_tmVars
  PROVE  Foresees'
<1> USE Goroutines, Kinds
<1> SUFFICES ASSUME lead'.st = "global", thread'[GQ] # Idle
             PROVE  Foresees'
  BY DEF Foresees
<1>1. lead.st = "global" /\ gq = NoTimer /\ thread[BQ] = Idle
  <2>1. ~Dies
    BY DEF Dies
  <2>2. Elect => thread'[GQ] = thread[GQ] /\ lead.st = "down"
    BY DEF Elect, vars
  <2>3. RecoverBranches => lead'.st = "branch"
    BY DEF RecoverBranches, Shape, SystemTypeOK
  <2>4. lead.st = "global"
    BY <2>1, <2>2, <2>3, LeadMoves DEF PInv, Leads
  <2> QED BY <2>4 DEF PInv, Leads, Working
<1>2. CASE thread[GQ] # Idle
  <2>1. PICK x \in XID : x = thread[GQ].x /\ gs[x] = "Begin"
    BY <1>2, Deciding DEF PInv, Calls, CallOf, DecisionPc
  <2>2. /\ x \in expired /\ x \in expired' /\ Over(x)
        /\ thread[GQ].keys \subseteq Keys(x)
        /\ thread[GQ].pc = "getBranches"
             => \A b \in Keys(x) : bs[b] = "Gone" => b \in thread[GQ].keys
    BY <1>1, <1>2, <2>1, TimerMoves DEF PInv, Leads, Turns
  <2>3. CASE thread'[GQ] = thread[GQ]
    <3>1. \A b \in Keys(x) : b \in Keys(x)'
      BY <1>1, <2>2, KeysStay
    <3>2. \A b \in Keys(x)' : bs'[b] = "Gone" => b \in Keys(x) /\ bs[b] = "Gone"
      BY <2>1, <2>2, QuietKeys DEF Keys, BranchesOf
    <3> QED BY <2>1, <2>2, <2>3, <3>1, <3>2 DEF Foresees, Keys
  <2>4. CASE Driver(GQ)
    <3>1. Collects(GQ) /\ UNCHANGED <<bs, branchKey>>
      BY <1>2, <2>4, RequestEffect DEF Driver, Reports, Looks, PInv, Calls, CallOf
    <3>2. CASE thread[GQ].pc = "getKeys"
      <4>1. thread'[GQ].x = x /\ thread'[GQ].keys = Keys(x)
        BY <2>1, <3>1, <3>2 DEF Collects, GoesOn
      <4> QED BY <2>2, <3>1, <4>1 DEF Foresees, Keys
    <3>3. CASE thread[GQ].pc = "getBranches"
      <4>1. PICK b \in thread[GQ].keys :
              /\ thread'[GQ].x = x /\ Exists(b)
              /\ thread'[GQ].keys = thread[GQ].keys \ {b}
        BY <2>1, <3>1, <3>3 DEF Collects, GoesOn
      <4> QED BY <2>2, <3>1, <3>3, <4>1 DEF Foresees, Keys, Exists
    <3> QED BY <3>1, <3>2, <3>3 DEF Collects
  <2>5. ~Starts(GQ)
    BY <1>2 DEF Starts, GlobalRollback
  <2> QED BY <2>3, <2>4, <2>5, ThreadMoves
<1>3. CASE thread[GQ] = Idle
  <2>1. ~Driver(GQ)
    BY <1>3, IdleRests
  <2>2. PICK y \in XID : y \in expired /\ GlobalRollback(GQ, y)
    BY <1>1, <1>3, <2>1, ThreadMoves, NoneAssumption DEF Starts, NoTimer
  <2>3. thread'[GQ].x = y /\ thread'[GQ].keys = {} /\ thread'[GQ].pc = "getKeys"
    BY <2>2, StartEffect DEF Begins
  <2>4. y \in expired'
    BY <2>2, TimerMoves
  <2> QED BY <2>3, <2>4 DEF Foresees
<1> QED
  BY <1>2, <1>3

\* The leader works on one thing at a time, and a rollback of the recovery
\* knows every deleted branch it has still to read.
LEMMA LeadsNext ==
  ASSUME Patient, TypeOK, CallShape, Shape, PInv, SessionStep, [TMNext]_tmVars
  PROVE  Leads'
<1> USE Goroutines, Kinds
<1>1. Offices'
  BY OfficesNext DEF PInv, Leads, Offices
<1>2. ASSUME lead'.st \in {"down", "branch"}, thread'[GQ] # Idle PROVE FALSE
  <2>1. ~Dies /\ ~Elect
    BY <1>2 DEF Dies, Elect, Down
  <2>2. RecoverBranches => thread[GQ] = Idle /\ UNCHANGED thread
    BY DEF RecoverBranches, vars
  <2>3. lead.st \in {"down", "branch"}
    BY <1>2, <2>1, <2>2, LeadMoves DEF PInv
  <2>4. thread[GQ] = Idle /\ gq = NoTimer /\ lead.sessions = {}
    BY <2>3 DEF PInv, Leads, Working
  <2>5. ~Driver(GQ) /\ ~Starts(GQ)
    BY <2>4, IdleRests DEF Starts, NoTimer, TimeoutRollback, RecoverRollback
  <2> QED BY <1>2, <2>4, <2>5, ThreadMoves
<1>3. ASSUME lead'.st \in {"down", "global"}, thread'[BQ] # Idle PROVE FALSE
  <2>1. ~Dies
    BY <1>3 DEF Dies
  <2>2. Elect => lead.st = "down"
    BY DEF Elect
  <2>3. RecoverBranches => lead'.st = "branch"
    BY DEF RecoverBranches, Shape, SystemTypeOK
  <2>4. lead.st \in {"down", "global"}
    BY <1>3, <2>1, <2>2, <2>3, LeadMoves DEF PInv
  <2>5. thread[BQ] = Idle /\ bw = NoWork
    BY <2>4 DEF PInv, Leads
  <2>6. ~Driver(BQ) /\ ~Starts(BQ)
    BY <2>5, IdleRests DEF Starts, NoWork
  <2> QED BY <1>3, <2>5, <2>6, ThreadMoves
<1>4. Foresees'
  BY ForeseesNext
<1> QED
  BY <1>1, <1>2, <1>3, <1>4 DEF Leads, Offices, Foresees


---------------------------------------------------------------------------
(***************************************************************************)
(* Decided sessions                                                        *)
(***************************************************************************)
\* A decision is final, and a decided transaction gets no new branches.
LEMMA DecidedStays ==
  ASSUME TypeOK, SessionStep, NEW x \in XID, Decided(x)
  PROVE  Decided(x)' /\ (Empty(x) => Empty(x)')
<1>1. Decided(x)'
  BY DEF SessionStep, Born, Failed, Dropped, Ended, GivenUp, Unindexed,
     Opened, Settled, Forgotten, Decided, TypeOK
<1>2. ASSUME NEW b \in Branch, XidOf[b] = x, ~Exists(b) PROVE ~Exists(b)'
  <2>1. ASSUME NEW c \in Branch, Born(c) \/ Failed(c) \/ Dropped(c) \/ Ended(c)
                                 \/ GivenUp(c) \/ Unindexed(c)
        PROVE  ~Exists(b)'
    BY <1>2, <2>1 DEF Born, Failed, Dropped, Ended, GivenUp, Unindexed, Decided, Exists, TypeOK
  <2>2. ASSUME NEW y \in XID, NEW to, Opened(y) \/ Forgotten(y) \/ Settled(y, to)
        PROVE  ~Exists(b)'
    BY <1>2, <2>2 DEF Opened, Forgotten, Settled, Exists
  <2>3. CASE UNCHANGED <<gs, bs, branchKey>>
    BY <1>2, <2>3 DEF Exists
  <2> QED BY <2>1, <2>2, <2>3 DEF SessionStep
<1> QED
  BY <1>1, <1>2 DEF Empty, BranchesOf

\* Where the sessions to be deleted come from.
LEMMA SessionMoves ==
  ASSUME Patient, TypeOK, Shape, [TMNext]_tmVars
  PROVE  /\ \/ gq' = gq \/ gq'.pc \in {"idle", "rollback", "requeue"}
            \/ \E x \in XID : Due(x) /\ gs[x] \notin {"Begin", "Gone"}
                              /\ gq'.pc = "keys" /\ gq'.x = x
            \/ gq.pc = "keys" /\ gq'.x = gq.x /\ Keys(gq.x) = {}
         /\ \/ lead'.sessions \subseteq lead.sessions
            \/ \A s \in lead'.sessions :
                 s.pc = "rollback" \/ (s.pc = "keys" /\ gs[s.x] \in {"Committing", "Rollbacking"})
            \/ \E x \in XID : /\ Keys(x) = {} /\ [x |-> x, pc |-> "keys"] \in lead.sessions
                              /\ \A s \in lead'.sessions : s \in lead.sessions \/ s.x = x
<1> DEFINE Goal == /\ \/ gq' = gq \/ gq'.pc \in {"idle", "rollback", "requeue"}
                      \/ \E x \in XID : Due(x) /\ gs[x] \notin {"Begin", "Gone"}
                                        /\ gq'.pc = "keys" /\ gq'.x = x
                      \/ gq.pc = "keys" /\ gq'.x = gq.x /\ Keys(gq.x) = {}
                   /\ \/ lead'.sessions \subseteq lead.sessions
                      \/ \A s \in lead'.sessions :
                           s.pc = "rollback" \/ (s.pc = "keys" /\ gs[s.x] \in {"Committing", "Rollbacking"})
                      \/ \E x \in XID : /\ Keys(x) = {} /\ [x |-> x, pc |-> "keys"] \in lead.sessions
                                        /\ \A s \in lead'.sessions : s \in lead.sessions \/ s.x = x
<1> SUFFICES Goal
  OBVIOUS
<1>0. /\ lead \in [st : {"down", "global", "branch", "watching", "deaf"},
              sessions : SUBSET [x : XID, pc : {"rollback", "keys", "delete"}],
              branches : SUBSET [b : Branch, pc : {"delete", "unlock"}],
              replay : SUBSET Item]
      /\ gq \in [pc : {"idle", "rollback", "requeue", "keys", "delete"},
                 x : XID \cup {None}]
  BY DEF Shape, SystemTypeOK
<1>n. NoTimer.pc = "idle"
  BY DEF NoTimer
<1> HIDE DEF Goal
<1>u. ASSUME UNCHANGED gq \/ gq'.pc \in {"idle", "rollback", "requeue"},
             lead'.sessions \subseteq lead.sessions
      PROVE  Goal
  BY <1>u DEF Goal
<1>s. UNCHANGED lead => lead'.sessions \subseteq lead.sessions
  OBVIOUS
<1>l. ASSUME LeaderDies PROVE Goal
  BY <1>u, <1>l, <1>n DEF LeaderDies, Down
<1>1. ASSUME NEW y \in XID, Client(y) PROVE Goal
  BY <1>u, <1>1 DEF Client, ClientEnds, GlobalBegin, ClientCommit, ClientRollback,
     ClientVanishes, Tick, leading
<1>2. ASSUME NEW b \in Branch, PhaseOne(b) PROVE Goal
  BY <1>u, <1>2 DEF PhaseOne, BranchStart, BranchRegister, BranchRegistered,
     InsertUndoLog, LocalCommit, LocalAbort, TryFails, leading
<1>3. CASE Timeout
  <2>1. CASE TimeoutRollback \/ TimeoutRequeue \/ TimeoutDelete
    BY <1>0, <1>n, <1>u, <1>s, <2>1 DEF TimeoutRollback, TimeoutRequeue, TimeoutDelete
  <2>2. CASE TimeoutKeys
    <3>1. /\ gq.pc = "keys" /\ UNCHANGED lead
          /\ gq' = IF Keys(gq.x) = {} THEN [gq EXCEPT !.pc = "delete"] ELSE NoTimer
      BY <2>2 DEF TimeoutKeys, Patient
    <3>2. CASE Keys(gq.x) = {}
      <4>1. gq'.x = gq.x
        BY <1>0, <3>1, <3>2
      <4> QED BY <1>s, <3>1, <3>2, <4>1 DEF Goal
    <3> QED BY <1>n, <1>u, <1>s, <3>1, <3>2
  <2> QED BY <1>3, <2>1, <2>2 DEF Timeout
<1>4. CASE PhaseTwoWork
  BY <1>u, <1>s, <1>4 DEF PhaseTwoWork, BranchCommit, BranchRollback, PhaseTwoFails,
     UndoAnswerLost, BranchRelease, BranchDelete, DeadUnlock, DeadBranch
<1>5. CASE Recovery
  <2>1. ASSUME NEW x \in XID, RecoverRollback(x) \/ RecoverDelete(x) PROVE Goal
    <3>1. CASE LeaderDies
      BY <1>l, <3>1
    <3>2. CASE ~LeaderDies
      <4>1. UNCHANGED gq /\ \E s : lead' = [lead EXCEPT !.sessions = @ \ {s}]
        BY <2>1, <3>2 DEF RecoverRollback, RecoverDelete
      <4>2. lead'.sessions \subseteq lead.sessions
        BY <1>0, <4>1
      <4> QED BY <1>u, <4>1, <4>2
    <3> QED BY <3>1, <3>2
  <2>2. ASSUME NEW x \in XID, RecoverKeys(x) PROVE Goal
    <3> DEFINE s == [x |-> x, pc |-> "keys"]
    <3>1. /\ s \in lead.sessions /\ UNCHANGED gq
          /\ lead'.sessions = (lead.sessions \ {s}) \cup
                IF Keys(x) = {} THEN {[s EXCEPT !.pc = "delete"]} ELSE {}
      BY <1>0, <2>2 DEF RecoverKeys
    <3>2. CASE Keys(x) = {}
      <4>1. \A z \in lead'.sessions : z \in lead.sessions \/ z.x = x
        BY <3>1
      <4> QED BY <3>1, <3>2, <4>1 DEF Goal
    <3>3. CASE Keys(x) # {}
      BY <1>u, <3>1, <3>3
    <3> QED BY <3>2, <3>3
  <2>3. CASE Elect
    <3>1. UNCHANGED gq /\ lead'.sessions =
            [x : {x \in XID : gs[x] = "Begin"}, pc : {"rollback"}]
              \cup [x : {x \in XID : gs[x] \in {"Committing", "Rollbacking"}}, pc : {"keys"}]
      BY <2>3 DEF Elect, Down
    <3>2. \A s \in lead'.sessions :
            s.pc = "rollback" \/ (s.pc = "keys" /\ gs[s.x] \in {"Committing", "Rollbacking"})
      BY <3>1
    <3> QED BY <3>1, <3>2 DEF Goal
  <2>4. CASE RecoverBranches
    BY <1>0, <1>u, <2>4 DEF RecoverBranches
  <2>5. ASSUME NEW e \in lead.branches, RecoverBranch(e) PROVE Goal
    BY <1>0, <1>u, <2>5 DEF RecoverBranch
  <2>6. CASE WatchBranchSessions
    BY <1>u, <2>6 DEF WatchBranchSessions, Elected, Down
  <2> QED BY <1>5, <2>1, <2>2, <2>3, <2>4, <2>5, <2>6 DEF Recovery
<1>6. ASSUME NEW t \in Thread, Driver(t) PROVE Goal
  BY <1>u, <1>s, <1>l, <1>6 DEF Driver, leading
<1>7. ASSUME NEW t \in Thread, Decide(t) PROVE Goal
  BY <1>0, <1>u, <1>7 DEF Decide
<1>8. CASE Crash \/ UNCHANGED tmVars
  BY <1>u, <1>s, <1>l, <1>8 DEF Crash, tmVars, leading
<1>9. CASE ListDeadBranchSession \/ WatchBreaks
  BY <1>0, <1>u, <1>9 DEF ListDeadBranchSession, WatchBreaks
<1>10. ASSUME NEW y \in XID, NextGlobalSession(y) PROVE Goal
  <2>1. /\ Due(y) /\ UNCHANGED lead
        /\ gq' = IF gs[y] = "Begin" THEN [pc |-> "rollback", x |-> y]
                 ELSE IF gs[y] = "Gone" THEN NoTimer ELSE [pc |-> "keys", x |-> y]
    BY <1>10 DEF NextGlobalSession, Patient
  <2>2. CASE gs[y] \notin {"Begin", "Gone"}
    BY <1>s, <2>1, <2>2 DEF Goal
  <2> QED BY <1>n, <1>s, <1>u, <2>1, <2>2
<1>11. ASSUME NEW i \in queue, NextBranchSession(i) PROVE Goal
  BY <1>u, <1>s, <1>11 DEF NextBranchSession
<1>12. ASSUME NEW t \in Thread, DriverFails(t) PROVE Goal
  BY <1>12 DEF DriverFails, Patient
<1>13. CASE DeletePanics
  BY <1>13 DEF DeletePanics, Patient
<1> QED
  BY <1>1, <1>2, <1>3, <1>4, <1>5, <1>6, <1>7, <1>8, <1>9, <1>10, <1>11, <1>12, <1>13
  DEF TMNext

\* A global session the leader is about to delete is decided, and its
\* branches are deleted.
LEMMA SessionsNext ==
  ASSUME Patient, TypeOK, Shape, PInv, SessionStep, [TMNext]_tmVars
  PROVE  Sessions'
<1>1. ASSUME NEW x \in XID, Keys(x) = {} PROVE Empty(x)
  BY <1>1 DEF Keys, Empty, BranchesOf, PInv, PhaseOneOK
<1>2. /\ gq.pc # "idle" => gq.x \in XID
      /\ gq'.pc # "idle" => gq'.x \in XID
      /\ \A s \in lead.sessions \cup lead'.sessions : s.x \in XID
  BY ShapeNext DEF Shape, Handles, SystemTypeOK
<1>3. ASSUME NEW x \in XID, gq'.x = x, gq'.pc \in {"keys", "delete"}
      PROVE  Decided(x)' /\ (gq'.pc = "delete" => Empty(x)')
  <2>1. CASE gq' = gq \/ (gq.pc = "keys" /\ gq'.x = gq.x /\ Keys(gq.x) = {})
    <3>1. Decided(x) /\ (gq'.pc = "delete" => Empty(x))
      BY <1>1, <1>3, <2>1 DEF PInv, Sessions
    <3> QED BY <3>1, DecidedStays
  <2>2. CASE Due(x) /\ gs[x] \notin {"Begin", "Gone"} /\ gq'.pc = "keys"
    <3>1. gs[x] # "Unborn"
      BY <2>2 DEF Due, PInv, Turns
    <3>2. Decided(x)
      BY <2>2, <3>1 DEF TypeOK, GlobalStatus, Decided
    <3> QED BY <2>2, <3>2, DecidedStays
  <2> QED BY <1>3, <2>1, <2>2, SessionMoves
<1>4. ASSUME NEW x \in XID, NEW s \in lead'.sessions, s.x = x, s.pc \in {"keys", "delete"}
      PROVE  Decided(x)' /\ (s.pc = "delete" => Empty(x)')
  <2>1. CASE s \in lead.sessions
    <3>1. Decided(x) /\ (s.pc = "delete" => Empty(x))
      BY <1>4, <2>1 DEF PInv, Sessions
    <3> QED BY <3>1, DecidedStays
  <2>2. CASE s.pc = "keys" /\ gs[s.x] \in {"Committing", "Rollbacking"}
    BY <1>4, <2>2, DecidedStays DEF Decided
  <2>3. CASE Keys(x) = {} /\ [x |-> x, pc |-> "keys"] \in lead.sessions
    <3>1. Decided(x) /\ Empty(x)
      BY <1>1, <2>3 DEF PInv, Sessions
    <3> QED BY <3>1, DecidedStays
  <2> QED BY <1>4, <2>1, <2>2, <2>3, SessionMoves
<1> QED
  BY <1>2, <1>3, <1>4 DEF Sessions, Decided, Empty, BranchesOf, Exists

---------------------------------------------------------------------------
(***************************************************************************)
(* The work of phase two                                                   *)
(***************************************************************************)
\* Only the branch worker changes the status of a branch in phase two, when
\* it is through with it.
LEMMA PhaseTwoStays ==
  ASSUME TypeOK, SessionStep, NEW b \in Branch
  PROVE  /\ InPhaseTwo(b) /\ (bw'.pc # "idle" \/ bw.b # b \/ bw.pc \notin {"delete", "dead"})
              => bs'[b] = bs[b]
         /\ bs[b] \in {"PhaseOneFailed", "Gone"} => bs'[b] \in {"PhaseOneFailed", "Gone"}
<1> DEFINE Goal == /\ InPhaseTwo(b) /\ (bw'.pc # "idle" \/ bw.b # b \/ bw.pc \notin {"delete", "dead"})
                         => bs'[b] = bs[b]
                   /\ bs[b] \in {"PhaseOneFailed", "Gone"} => bs'[b] \in {"PhaseOneFailed", "Gone"}
<1> USE DEF TypeOK, InPhaseTwo
<1>1. ASSUME NEW c \in Branch, Born(c) \/ Failed(c) \/ Dropped(c) \/ Unindexed(c) PROVE Goal
  BY <1>1 DEF Born, Failed, Dropped, Unindexed
<1>2. ASSUME NEW c \in Branch, Ended(c) \/ GivenUp(c) PROVE Goal
  BY <1>2 DEF Ended, GivenUp, NoWork
<1>3. ASSUME NEW x \in XID, NEW to, Opened(x) \/ Forgotten(x) \/ Settled(x, to) PROVE Goal
  BY <1>3 DEF Opened, Forgotten, Settled
<1>4. CASE UNCHANGED <<gs, bs, branchKey>>
  BY <1>4
<1> QED
  BY <1>1, <1>2, <1>3, <1>4 DEF SessionStep

\* Who changes what the branch worker has to do.
LEMMA WorkMoves ==
  ASSUME Patient, TypeOK, Shape, [TMNext]_tmVars
  PROVE  \/ /\ UNCHANGED <<queue, bw, second>>
            /\ lead'.replay = lead.replay /\ lead'.branches = lead.branches
         \/ \E i \in queue : NextBranchSession(i)
         \/ PhaseTwoWork
         \/ LeaderDies
         \/ Elect \/ RecoverBranches \/ WatchBranchSessions
         \/ \E e \in lead.branches : RecoverBranch(e)
         \/ \E t \in Thread : Decide(t)
         \/ ListDeadBranchSession
<1> DEFINE Goal == \/ /\ UNCHANGED <<queue, bw, second>>
                      /\ lead'.replay = lead.replay /\ lead'.branches = lead.branches
                   \/ \E i \in queue : NextBranchSession(i)
                   \/ PhaseTwoWork
                   \/ LeaderDies
                   \/ Elect \/ RecoverBranches \/ WatchBranchSessions
                   \/ \E e \in lead.branches : RecoverBranch(e)
                   \/ \E t \in Thread : Decide(t)
                   \/ ListDeadBranchSession
<1> SUFFICES Goal
  OBVIOUS
<1>0. /\ lead \in [st : {"down", "global", "branch", "watching", "deaf"},
              sessions : SUBSET [x : XID, pc : {"rollback", "keys", "delete"}],
              branches : SUBSET [b : Branch, pc : {"delete", "unlock"}],
              replay : SUBSET Item]
  BY DEF Shape, SystemTypeOK
<1>u. ASSUME UNCHANGED <<queue, bw, second>>,
             lead'.replay = lead.replay, lead'.branches = lead.branches
      PROVE  Goal
  BY <1>u
<1>1. ASSUME NEW y \in XID, Client(y) PROVE Goal
  BY <1>u, <1>1 DEF Client, ClientEnds, GlobalBegin, ClientCommit, ClientRollback,
     ClientVanishes, Tick, leading, database
<1>2. ASSUME NEW b \in Branch, PhaseOne(b) PROVE Goal
  BY <1>u, <1>2 DEF PhaseOne, BranchStart, BranchRegister, BranchRegistered,
     InsertUndoLog, LocalCommit, LocalAbort, TryFails, leading, database
<1>3. CASE Timeout
  BY <1>u, <1>3 DEF Timeout, TimeoutRollback, TimeoutRequeue, TimeoutKeys, TimeoutDelete,
     database
<1>5. ASSUME NEW x \in XID, RecoverRollback(x) \/ RecoverKeys(x) \/ RecoverDelete(x) PROVE Goal
  <2>1. CASE LeaderDies
    BY <2>1
  <2>2. CASE ~LeaderDies
    BY <1>0, <1>u, <1>5, <2>2 DEF RecoverRollback, RecoverKeys, RecoverDelete, database
  <2> QED BY <2>1, <2>2
<1>6. ASSUME NEW t \in Thread, Driver(t) PROVE Goal
  <2>1. LeaderDies \/ UNCHANGED <<database, leading>>
    BY <1>6 DEF Driver
  <2> QED BY <1>u, <2>1 DEF leading, database
<1>8. CASE Crash \/ UNCHANGED tmVars
  <2>1. LeaderDies \/ UNCHANGED <<database, leading>>
    BY <1>8 DEF Crash, tmVars
  <2> QED BY <1>u, <2>1 DEF leading, database
<1>9. CASE WatchBreaks
  BY <1>0, <1>u, <1>9 DEF WatchBreaks, database
<1>10. ASSUME NEW y \in XID, NextGlobalSession(y) PROVE Goal
  BY <1>u, <1>10 DEF NextGlobalSession, database
<1>12. ASSUME NEW t \in Thread, DriverFails(t) PROVE Goal
  BY <1>12 DEF DriverFails, Patient
<1>13. CASE DeletePanics
  BY <1>13 DEF DeletePanics, Patient
<1> QED
  BY <1>1, <1>2, <1>3, <1>5, <1>6, <1>8, <1>9, <1>10, <1>12, <1>13 DEF TMNext, Recovery

\* What the branch worker and its queue hold is true of the store, and
\* nothing is in two places.
LEMMA WorkNext ==
  ASSUME Patient, TypeOK, CallShape, Shape, PInv, SessionStep, [TMNext]_tmVars
  PROVE  Work'
<1>0. /\ queue \in SUBSET Item /\ lead.replay \in SUBSET Item
      /\ lead.branches \in SUBSET [b : Branch, pc : {"delete", "unlock"}]
      /\ bw \in [pc : {"idle", "work", "release", "delete", "unlock", "dead"},
                 b : Branch \cup {None},
                 st : {"Begin", "PhaseTwoCommitting", "PhaseTwoRollbacking"},
                 by : Thread \cup {None}, rows : SUBSET Row, logs : BOOLEAN]
      /\ bw.pc # "idle" => bw.b \in Branch
      /\ bw.pc = "work" => bw.st # "Begin"
      /\ \A b \in Branch : bs[b] # "Begin"
  BY DEF Shape, SystemTypeOK, Handles, TypeOK, BranchStatus
<1>i. \A i \in Items : i.b \in Branch /\ InPhaseTwo(i.b) /\ bs[i.b] = i.st
  BY <1>0 DEF Items, Item, PInv, Work, Tallies, InPhaseTwo
<1>w. Tallies /\ Alone /\ Charges /\ Hand
  BY DEF PInv, Work
<1>n. NoWork.pc = "idle" /\ NoWork.b = None
  BY DEF NoWork
<1>s. \A b \in Branch :
        /\ InPhaseTwo(b) /\ (bw'.pc # "idle" \/ bw.b # b \/ bw.pc \notin {"delete", "dead"})
              => bs'[b] = bs[b]
        /\ bs[b] \in {"PhaseOneFailed", "Gone"} => bs'[b] \in {"PhaseOneFailed", "Gone"}
  BY PhaseTwoStays
<1>1. ASSUME UNCHANGED <<queue, bw, second>>,
             lead'.replay = lead.replay, lead'.branches = lead.branches
      PROVE  Work'
  <2>1. UNCHANGED Items
    BY <1>1 DEF Items
  <2>2. \A b \in Branch : InPhaseTwo(b) => bs'[b] = bs[b]
    <3>1. UNCHANGED bw => bw.pc \notin {"delete", "dead"} \/ bw'.pc # "idle"
      OBVIOUS
    <3> QED BY <1>1, <1>s, <3>1
  <2>3. Tallies'
    BY <1>i, <2>1, <2>2 DEF Tallies
  <2>4. Alone'
    BY <1>w, <1>1, <2>1 DEF Alone
  <2>5. Charges'
    BY <1>0, <1>w, <1>1, <1>s, <2>1, <2>2 DEF Charges, InPhaseTwo
  <2>6. Hand'
    BY <1>0, <1>w, <1>1, <1>s, <2>2 DEF Hand, InPhaseTwo
  <2> QED BY <2>3, <2>4, <2>5, <2>6 DEF Work
<1>2. ASSUME NEW i \in queue, NextBranchSession(i) PROVE Work'
  <2>1. PICK pc \in {"work", "unlock"} :
          /\ pc = "unlock" => i.st = "PhaseTwoRollbacking"
          /\ bw' = [NoWork EXCEPT !.pc = pc, !.b = i.b, !.st = i.st, !.by = i.by]
    BY <1>2 DEF NextBranchSession
  <2>2. /\ bw'.pc = pc /\ bw'.b = i.b /\ bw'.st = i.st
    BY <2>1 DEF NoWork
  <2>3. /\ lead.replay = {} /\ lead.branches = {} /\ UNCHANGED <<lead, bs>>
        /\ queue' = queue \ {i}
    BY <1>2 DEF NextBranchSession, Working, PInv, Leads, vars
  <2>4. i \in Items /\ Items' = Items \ {i}
    BY <1>2, <2>3 DEF Items
  <2>5. Tallies' /\ Charges'
    BY <1>w, <2>3, <2>4 DEF Tallies, Charges
  <2>6. Alone'
    BY <1>w, <2>2, <2>4 DEF Alone
  <2>7. Hand'
    BY <1>i, <2>1, <2>2, <2>3, <2>4 DEF Hand
  <2> QED BY <2>5, <2>6, <2>7 DEF Work
<1>3. CASE PhaseTwoWork
  <2>1. UNCHANGED lead /\ bw.pc # "idle" /\ bw.b \in Branch
    BY <1>0, <1>3 DEF PhaseTwoWork, BranchCommit, BranchRollback, PhaseTwoFails,
       UndoAnswerLost, BranchRelease, BranchDelete, DeadUnlock, DeadBranch
  <2>2. second \subseteq second'
    BY <1>3 DEF PhaseTwoWork, BranchCommit, BranchRollback, PhaseTwoFails,
       UndoAnswerLost, BranchRelease, BranchDelete, DeadUnlock, DeadBranch,
       Executed, Rollback, database
  <2>3. \A i \in Items : bs'[i.b] = i.st
    BY <1>i, <1>s, <1>w, <2>1 DEF Alone
  <2>4. \A e \in lead.branches :
          /\ e.b \in Branch
          /\ e.pc = "delete" => bs'[e.b] \in {"PhaseOneFailed", "Gone"}
          /\ e.pc = "unlock" => bs'[e.b] = "PhaseTwoRollbacking" /\ e.b # bw.b
    BY <1>0, <1>s, <1>w DEF Charges, InPhaseTwo
  <2>5. ASSUME UNCHANGED <<queue, bs>>, bw'.b = bw.b, bw'.st = bw.st, Hand' PROVE Work'
    <3>1. Items' = Items
      BY <2>1, <2>5 DEF Items
    <3>2. Tallies' /\ Alone'
      BY <1>w, <2>1, <2>3, <2>5, <3>1 DEF Tallies, Alone
    <3>3. Charges'
      BY <1>w, <2>1, <2>4, <2>5, <3>1 DEF Charges
    <3> QED BY <2>5, <3>2, <3>3 DEF Work
  <2>6. ASSUME queue' = queue, bw' = NoWork PROVE Work'
    <3>1. Items' = Items
      BY <2>1, <2>6 DEF Items
    <3>2. Tallies' /\ Alone'
      BY <1>n, <1>w, <2>3, <2>6, <3>1 DEF Tallies, Alone
    <3>3. Charges'
      BY <1>n, <1>w, <2>1, <2>4, <2>6, <3>1, NoneAssumption DEF Charges
    <3>4. Hand'
      BY <1>n, <2>6 DEF Hand
    <3> QED BY <3>2, <3>3, <3>4 DEF Work
  <2>7. ASSUME Requeue, bw.pc = "work" PROVE Work'
    <3> DEFINE k == [b |-> bw.b, st |-> bw.st, by |-> bw.by]
    <3>1. Items' = Items \cup {k} /\ bw' = NoWork /\ k.b = bw.b /\ k.st = bw.st
      BY <2>1, <2>7 DEF Items, Requeue
    <3>2. bs[bw.b] = bw.st /\ InPhaseTwo(bw.b)
      BY <1>0, <1>w, <2>7 DEF Hand, InPhaseTwo
    <3>3. bs'[bw.b] = bw.st
      BY <1>s, <2>1, <2>7, <3>2
    <3> HIDE DEF k
    <3>4. Tallies'
      BY <2>3, <3>1, <3>3 DEF Tallies
    <3>5. Alone'
      BY <1>n, <1>w, <2>1, <3>1 DEF Alone
    <3>6. Charges'
      BY <1>n, <1>w, <2>1, <2>4, <3>1, NoneAssumption DEF Charges
    <3>7. Hand'
      BY <1>n, <3>1 DEF Hand
    <3> QED BY <3>4, <3>5, <3>6, <3>7 DEF Work
  <2>8. CASE BranchCommit
    <3>1. /\ UNCHANGED <<queue, bs>> /\ bw'.b = bw.b /\ bw'.st = bw.st
          /\ bw'.pc = "delete" /\ bw.st = "PhaseTwoCommitting" /\ bw.pc = "work"
          /\ <<bw.b, "commit">> \in second'
      BY <1>0, <2>8 DEF BranchCommit, vars, Executed
    <3>2. Hand'
      BY <1>w, <3>1 DEF Hand, Verdict
    <3> QED BY <2>5, <3>1, <3>2
  <2>9. CASE BranchRollback
    <3>1. /\ UNCHANGED <<queue, bs>> /\ bw'.b = bw.b /\ bw'.st = bw.st
          /\ bw'.pc = "release" /\ bw.st = "PhaseTwoRollbacking" /\ bw.pc = "work"
          /\ <<bw.b, "rollback">> \in second'
      <4> HIDE DEF RowsToRelease
      <4> QED BY <1>0, <2>9 DEF BranchRollback, vars, Executed, Rollback
    <3>2. Hand'
      BY <1>w, <3>1 DEF Hand
    <3> QED BY <2>5, <3>1, <3>2
  <2>10. CASE PhaseTwoFails \/ UndoAnswerLost
    BY <2>7, <2>10 DEF PhaseTwoFails, UndoAnswerLost
  <2>11. CASE BranchRelease
    <3>1. /\ UNCHANGED <<queue, second, bs>> /\ bw'.b = bw.b /\ bw'.st = bw.st
          /\ bw'.pc = "delete" /\ bw.pc = "release"
      BY <1>0, <2>11 DEF BranchRelease, ReleaseLockKeys, vars, database
    <3>2. Hand'
      BY <1>w, <3>1 DEF Hand, Verdict
    <3> QED BY <2>5, <3>1, <3>2
  <2>12. CASE DeadUnlock
    <3>1. /\ UNCHANGED <<queue, second, bs>> /\ bw'.b = bw.b /\ bw'.st = bw.st
          /\ bw'.pc = "dead" /\ bw.pc = "unlock"
      BY <1>0, <2>12 DEF DeadUnlock, ReleaseLockKeys, vars, database
    <3>2. Hand'
      BY <1>w, <3>1 DEF Hand
    <3> QED BY <2>5, <3>1, <3>2
  <2>13. CASE BranchDelete \/ DeadBranch
    BY <2>6, <2>13 DEF BranchDelete, DeadBranch
  <2> QED
    BY <1>3, <2>8, <2>9, <2>10, <2>11, <2>12, <2>13 DEF PhaseTwoWork
<1>4. CASE LeaderDies
  <2>1. Items' = {} /\ lead'.branches = {} /\ bw'.pc = "idle"
    BY <1>4, <1>n DEF LeaderDies, Down, Items
  <2> QED BY <2>1 DEF Work, Tallies, Alone, Charges, Hand
<1>5. CASE Elect
  <2>1. /\ queue' = {} /\ bw' = NoWork /\ lead'.replay = {} /\ lead'.branches = {}
    BY <1>5 DEF Elect, Down, PInv, Leads
  <2>2. Items' = {}
    BY <2>1 DEF Items
  <2> QED BY <1>n, <2>1, <2>2 DEF Work, Tallies, Alone, Charges, Hand
<1>6. CASE RecoverBranches
  <2>1. PICK D \in SUBSET {b \in Branch : bs[b] = "PhaseTwoRollbacking"} :
          /\ queue' = {[b |-> b, st |-> bs[b], by |-> None] :
                         b \in {c \in Branch \ D : InPhaseTwo(c)}}
          /\ lead' = [lead EXCEPT
                        !.st = "branch",
                        !.branches = [b : {b \in Branch : bs[b] = "PhaseOneFailed"},
                                      pc : {"delete"}] \cup [b : D, pc : {"unlock"}]]
    BY <1>6 DEF RecoverBranches
  <2>2. lead.replay = {} /\ bw = NoWork /\ UNCHANGED <<bs, bw>>
    BY <1>6 DEF RecoverBranches, PInv, Leads, vars
  <2>3. /\ lead'.replay = {}
        /\ lead'.branches = [b : {b \in Branch : bs[b] = "PhaseOneFailed"},
                             pc : {"delete"}] \cup [b : D, pc : {"unlock"}]
    BY <2>1, <2>2 DEF Shape, SystemTypeOK
  <2>4. Items' = {[b |-> b, st |-> bs[b], by |-> None] :
                    b \in {c \in Branch \ D : InPhaseTwo(c)}}
    BY <2>1, <2>3 DEF Items
  <2>5. Tallies' /\ Alone'
    BY <1>n, <2>2, <2>4 DEF Tallies, Alone
  <2>6. Charges'
    BY <1>n, <2>2, <2>3, <2>4, NoneAssumption DEF Charges
  <2>7. Hand'
    BY <1>n, <2>2 DEF Hand
  <2> QED BY <2>5, <2>6, <2>7 DEF Work
<1>7. CASE WatchBranchSessions
  <2>1. /\ Items' = Items /\ lead'.branches = {} /\ UNCHANGED <<bs, bw, second>> /\ bw = NoWork
    BY <1>7 DEF WatchBranchSessions, Elected, Down, Items, vars, database
  <2> QED BY <1>n, <1>w, <2>1 DEF Work, Tallies, Alone, Charges, Hand
<1>8. ASSUME NEW e \in lead.branches, RecoverBranch(e) PROVE Work'
  <2>1. /\ lead'.branches = lead.branches \ {e} /\ lead'.replay = lead.replay
        /\ UNCHANGED <<bs, queue>>
        /\ bw'.pc = e.pc /\ bw'.b = e.b /\ bw'.st = "Begin"
    BY <1>8 DEF RecoverBranch, NoWork, vars, Shape, SystemTypeOK
  <2>2. Items' = Items /\ e.b \in Branch /\ e.pc \in {"delete", "unlock"}
    BY <1>0, <2>1 DEF Items
  <2>3. Tallies'
    BY <1>w, <2>1, <2>2 DEF Tallies
  <2>4. \A i \in Items : i.b # e.b
    BY <1>i, <1>w, <2>2 DEF Charges, InPhaseTwo
  <2>5. Alone'
    BY <1>w, <2>1, <2>2, <2>4 DEF Alone
  <2>6. \A d \in lead'.branches : d.pc = "unlock" => d.b # e.b
    <3> SUFFICES ASSUME NEW d \in lead.branches, d # e, d.pc = "unlock", d.b = e.b
                 PROVE  FALSE
      BY <2>1
    <3>1. e.pc = "delete"
      BY <1>0, <2>2
    <3> QED BY <1>w, <3>1 DEF Charges
  <2>7. Charges'
    BY <1>w, <2>1, <2>2, <2>6 DEF Charges
  <2>8. Hand'
    BY <1>w, <2>1, <2>2 DEF Hand, Charges
  <2> QED BY <2>3, <2>5, <2>7, <2>8 DEF Work
<1>9. ASSUME NEW t \in Thread, Decide(t) PROVE Work'
  <2>1. /\ \A b \in Branch : b \in thread[t].puts
              <=> XidOf[b] = thread[t].x /\ bs[b] = "Registered"
        /\ bs' = [b \in Branch |-> IF b \in thread[t].puts
                                    THEN PhaseTwo(thread[t].to) ELSE bs[b]]
        /\ UNCHANGED <<bw, second>>
    BY <1>9, DecideSession, DecideEffect DEF Decide, database
  <2>2. \A i \in Updates(t) : /\ i.b \in Branch /\ bs[i.b] = "Registered"
                              /\ bs'[i.b] = i.st
    BY <2>1 DEF Updates, Exists, TypeOK, Call
  <2>3. \A i, j \in Updates(t) : i.b = j.b => i = j
    BY DEF Updates
  <2>4. Items' \subseteq Items \cup Updates(t) /\ lead'.branches = lead.branches
    BY <1>9 DEF Decide, Items, Shape, SystemTypeOK
  <2>5. \A b \in Branch : bs[b] # "Registered" => bs'[b] = bs[b]
    BY <2>1
  <2>6. \A i \in Items : bs[i.b] # "Registered" /\ bs'[i.b] = i.st
    BY <1>i, <2>5 DEF InPhaseTwo
  <2>7. Tallies'
    BY <2>2, <2>4, <2>6 DEF Tallies
  <2>8. bw.pc # "idle" => bs[bw.b] # "Registered"
    BY <1>0, <1>w DEF Hand
  <2>9. Alone'
    <3>1. \A i, j \in Items' : i.b = j.b => i = j
      BY <1>w, <2>2, <2>3, <2>4, <2>6 DEF Alone
    <3>2. bw.pc # "idle" => \A i \in Items' : i.b # bw.b
      BY <1>w, <2>2, <2>4, <2>8 DEF Alone
    <3> QED BY <2>1, <3>1, <3>2 DEF Alone
  <2>10. Charges'
    <3> SUFFICES ASSUME NEW e \in lead.branches
                 PROVE  /\ e.pc = "delete" => bs'[e.b] \in {"PhaseOneFailed", "Gone"}
                        /\ e.pc = "unlock" => /\ bs'[e.b] = "PhaseTwoRollbacking"
                                              /\ e.b # bw'.b
                                              /\ \A i \in Items' : i.b # e.b
      BY <2>4 DEF Charges
    <3>1. e.b \in Branch /\ e.pc \in {"delete", "unlock"}
      BY <1>0
    <3>2. bs[e.b] # "Registered" /\ bs'[e.b] = bs[e.b]
      BY <1>w, <2>5, <3>1 DEF Charges
    <3>3. e.pc = "unlock" => \A i \in Items' : i.b # e.b
      BY <1>w, <2>2, <2>4, <3>2 DEF Charges
    <3> QED BY <1>w, <2>1, <3>2, <3>3 DEF Charges
  <2>11. Hand'
    BY <1>0, <1>w, <2>1, <2>5, <2>8 DEF Hand
  <2> QED BY <2>7, <2>9, <2>10, <2>11 DEF Work
<1>10. CASE ListDeadBranchSession
  <2>1. /\ Items' \subseteq Items /\ lead'.branches = lead.branches
        /\ UNCHANGED <<bs, bw, second>>
    BY <1>10 DEF ListDeadBranchSession, Items, vars, database, Shape, SystemTypeOK
  <2>2. Tallies' /\ Alone'
    BY <1>w, <2>1 DEF Tallies, Alone
  <2>3. Charges'
    BY <1>w, <2>1 DEF Charges
  <2>4. Hand'
    BY <1>w, <2>1 DEF Hand
  <2> QED BY <2>2, <2>3, <2>4 DEF Work
<1> QED
  BY <1>1, <1>2, <1>3, <1>4, <1>5, <1>6, <1>7, <1>8, <1>9, <1>10, WorkMoves

---------------------------------------------------------------------------
(***************************************************************************)
(* Databases                                                               *)
(***************************************************************************)
\* Only phase one of a branch and the branch worker write to databases.
LEMMA DatabaseMoves ==
  ASSUME Patient, [TMNext]_tmVars
  PROVE  \/ UNCHANGED database
         \/ \E b \in Branch : LocalCommit(b)
         \/ BranchCommit \/ BranchRollback \/ UndoAnswerLost
<1>1. ASSUME NEW y \in XID, Client(y) \/ NextGlobalSession(y) PROVE UNCHANGED database
  BY <1>1 DEF Client, ClientEnds, GlobalBegin, ClientCommit, ClientRollback,
     ClientVanishes, Tick, NextGlobalSession
<1>2. ASSUME NEW b \in Branch, PhaseOne(b) PROVE UNCHANGED database \/ LocalCommit(b)
  BY <1>2 DEF PhaseOne, BranchStart, BranchRegister, BranchRegistered,
     InsertUndoLog, LocalAbort, TryFails
<1>3. CASE Timeout
  BY <1>3 DEF Timeout, TimeoutRollback, TimeoutRequeue, TimeoutKeys, TimeoutDelete
<1>4. CASE PhaseTwoWork
  BY <1>4 DEF PhaseTwoWork, PhaseTwoFails, BranchRelease, BranchDelete, DeadUnlock, DeadBranch
<1>5. CASE Recovery
  BY <1>5 DEF Recovery, Elect, RecoverRollback, RecoverKeys, RecoverDelete, RecoverBranches,
     RecoverBranch, WatchBranchSessions, LeaderDies
<1>6. ASSUME NEW t \in Thread, Driver(t) \/ Decide(t) PROVE UNCHANGED database
  BY <1>6 DEF Driver, Decide, LeaderDies
<1>7. CASE Crash \/ ListDeadBranchSession \/ WatchBreaks \/ UNCHANGED tmVars
  BY <1>7 DEF Crash, LeaderDies, ListDeadBranchSession, WatchBreaks, tmVars
<1>8. ASSUME NEW i \in queue, NextBranchSession(i) PROVE UNCHANGED database
  BY <1>8 DEF NextBranchSession
<1>9. ASSUME NEW t \in Thread, DriverFails(t) PROVE FALSE
  BY <1>9 DEF DriverFails, Patient
<1>10. CASE DeletePanics
  BY <1>10 DEF DeletePanics, Patient
<1> QED
  BY <1>1, <1>2, <1>3, <1>4, <1>5, <1>6, <1>7, <1>8, <1>9, <1>10 DEF TMNext

\* A committed local transaction stays committed.
LEMMA CommittedStays ==
  ASSUME Patient, TypeOK, CallShape, Shape, PInv, [TMNext]_tmVars,
         NEW b \in Branch, local[b] = "committed"
  PROVE  local'[b] = "committed"
<1>1. CASE Driver(b)
  BY <1>1 DEF Driver, LeaderDies, phaseOne
<1>2. CASE PhaseOne(b)
  <2>1. thread[b].pc # "filterRowKeys"
    BY DEF PInv, PhaseOneOK
  <2>2. ~AddBranchTxn(b)
    BY <2>1, RegisterEffect, Goroutines
  <2> QED
    BY <1>2, <2>2 DEF PhaseOne, BranchStart, BranchRegister, BranchRegistered,
       InsertUndoLog, LocalCommit, LocalAbort, TryFails
<1> QED
  BY <1>1, <1>2, BranchMoves DEF PInv

\* A status that allows a rollback is not reached from one that does not.
LEMMA BeginsOnce ==
  ASSUME TypeOK, SessionStep, NEW x \in XID
  PROVE  /\ gs[x] # "Unborn" => gs'[x] # "Unborn"
         /\ gs'[x] \in {"Begin", "Rollbacking"}
              => gs[x] \in {"Unborn", "Begin", "Rollbacking"}
<1> DEFINE Goal == /\ gs[x] # "Unborn" => gs'[x] # "Unborn"
                   /\ gs'[x] \in {"Begin", "Rollbacking"}
                        => gs[x] \in {"Unborn", "Begin", "Rollbacking"}
<1> USE DEF TypeOK
<1>1. ASSUME NEW c \in Branch, \/ Born(c) \/ Failed(c) \/ Dropped(c) \/ Unindexed(c)
                               \/ Ended(c) \/ GivenUp(c) PROVE Goal
  BY <1>1 DEF Born, Failed, Dropped, Unindexed, Ended, GivenUp
<1>2. ASSUME NEW y \in XID, NEW to \in {"Committing", "Rollbacking"},
             Opened(y) \/ Forgotten(y) \/ Settled(y, to) PROVE Goal
  BY <1>2 DEF Opened, Forgotten, Settled
<1>3. CASE UNCHANGED <<gs, bs, branchKey>>
  BY <1>3
<1> QED
  BY <1>1, <1>2, <1>3 DEF SessionStep

\* What is in the databases agrees with phase one and with the decisions.
LEMMA DatabasesNext ==
  ASSUME Patient, TypeOK, CallShape, Shape, PInv, SessionStep, [TMNext]_tmVars
  PROVE  Databases'
<1>0. \A b \in Branch : XidOf[b] \in XID
  BY XidOfAssumption
<1>d. Databases
  BY DEF PInv
<1>1. \A b \in Branch : local[b] = "committed" => local'[b] = "committed"
  BY CommittedStays
<1>2. \A b \in Branch : Decided(XidOf[b]) => Decided(XidOf[b])'
  BY <1>0, DecidedStays
<1>3. \A b \in Branch :
        /\ gs[XidOf[b]] # "Unborn" => gs'[XidOf[b]] # "Unborn"
        /\ gs'[XidOf[b]] \in {"Begin", "Rollbacking"}
             => gs[XidOf[b]] \in {"Unborn", "Begin", "Rollbacking"}
  BY <1>0, BeginsOnce
<1>4. CASE UNCHANGED database
  BY <1>d, <1>1, <1>2, <1>3, <1>4 DEF Databases, database, AT
<1>5. ASSUME NEW c \in Branch, LocalCommit(c) PROVE Databases'
  <2>1. gs[XidOf[c]] = "Begin"
    BY <1>5, InFlightBegin DEF PInv, LocalCommit, InFlight, LocalOpen
  <2>2. UNCHANGED <<gs, second>> /\ local'[c] = "committed"
    BY <1>5 DEF LocalCommit, vars, Shape, SystemTypeOK
  <2>3. /\ undo' = IF AT(c) THEN undo \cup {c} ELSE undo
        /\ writes' = IF AT(c) THEN writes \cup {c} ELSE writes
    BY <1>5 DEF LocalCommit
  <2> QED
    BY <1>d, <1>1, <2>1, <2>2, <2>3 DEF Databases, Decided, AT
<1>6. ASSUME bw.pc = "work"
      PROVE  bw.b \in Branch /\ gs[XidOf[bw.b]] =
               IF bw.st = "PhaseTwoCommitting" THEN "Committing" ELSE "Rollbacking"
  <2>1. bw.b \in Branch /\ bs[bw.b] = bw.st
        /\ bw.st \in {"PhaseTwoCommitting", "PhaseTwoRollbacking"}
    BY <1>6 DEF Shape, Handles, SystemTypeOK, PInv, Work, Hand
  <2>2. bs[bw.b] \in Allowed(gs[XidOf[bw.b]])
    BY <2>1 DEF PInv, Statuses
  <2> QED BY <2>1, <2>2 DEF Allowed
<1>7. CASE BranchCommit
  <2>1. /\ bw.b \in Branch /\ gs[XidOf[bw.b]] = "Committing" /\ UNCHANGED <<gs, writes>>
        /\ undo' = undo \ UndoLogs(XidOf[bw.b], ResOf[bw.b])
        /\ second' = second \cup {<<bw.b, "commit">>}
    BY <1>6, <1>7 DEF BranchCommit, vars, Executed
  <2> QED
    BY <1>d, <1>1, <2>1 DEF Databases, UndoLogs, Decided, AT
<1>8. CASE BranchRollback \/ UndoAnswerLost
  <2> DEFINE L == UndoLogs(XidOf[bw.b], ResOf[bw.b])
  <2>1. /\ bw.b \in Branch /\ gs[XidOf[bw.b]] = "Rollbacking" /\ Rollback(bw.b, L)
    BY <1>6, <1>8 DEF BranchRollback, UndoAnswerLost
  <2>2. UNCHANGED gs
    BY <1>8 DEF BranchRollback, UndoAnswerLost, ReleaseUndone, ReleaseLockKeys, vars
  <2>3. second' = second \cup {<<bw.b, "rollback">>}
    BY <2>1 DEF Rollback, Executed
  <2>4. bw.b \in undo \cup writes => bw.b \in L /\ AT(bw.b)
    BY <1>d, <2>1 DEF Databases, UndoLogs
  <2>5. /\ undo' \subseteq undo /\ writes' \subseteq writes
        /\ \A c \in writes' : c \in undo => c \in undo'
        /\ bw.b \notin undo' /\ bw.b \notin writes'
    BY <2>1, <2>4 DEF Rollback, Undone
  <2> HIDE DEF L
  <2> QED
    BY <1>d, <1>1, <2>1, <2>2, <2>3, <2>5 DEF Databases, Decided, AT
<1> QED
  BY <1>4, <1>5, <1>7, <1>8, DatabaseMoves

\* The initial state.
LEMMA InitPInv == TMInit => PInv
<1> SUFFICES ASSUME TMInit PROVE PInv
  OBVIOUS
<1> USE DEF TMInit, Init
<1>0. \A t \in Thread : thread[t] = Idle
  OBVIOUS
<1>1. Calls
  BY <1>0, IdleIsCallOf DEF Calls
<1>2. \A x \in XID : /\ client[x] = "idle" /\ gs[x] = "Unborn" /\ thread[x] = Idle
                     /\ timer[x] = "off"
  BY Goroutines
<1>3. \A b \in Branch : /\ bs[b] = "Unborn" /\ local[b] = "none" /\ thread[b] = Idle
  BY Goroutines
<1>4. /\ lead.sessions = {} /\ lead.branches = {} /\ lead.replay = {} /\ lead.st = "watching"
      /\ gq.x = None /\ gq.pc = "idle" /\ bw.pc = "idle" /\ thread[GQ] = Idle /\ expired = {}
  BY Goroutines DEF Elected, Down, NoTimer, NoWork
<1>5. Turns
  BY <1>2, <1>3, <1>4, IdleFields, NoneAssumption DEF Turns, Quiescent, InFlight, LocalOpen, BranchesOf
<1>6. PhaseOneOK
  BY <1>0, <1>3, IdleFields DEF PhaseOneOK, Exists
<1>7. Statuses
  BY <1>3 DEF Statuses
<1>8. Lists
  BY <1>0, IdleFields DEF Lists
<1>9. Work
  BY <1>4 DEF Work, Tallies, Alone, Charges, Hand, Items
<1>10. Sessions
  BY <1>4 DEF Sessions
<1>11. Leads
  BY <1>4 DEF Leads, Working
<1>12. Databases
  BY DEF Databases
<1> QED
  BY <1>1, <1>5, <1>6, <1>7, <1>8, <1>9, <1>10, <1>11, <1>12 DEF PInv

\* The invariant and what a step does.
LEMMA PInvNext ==
  ASSUME Patient, TMInv, PInv, [TMNext]_tmVars
  PROVE  PInv' /\ SessionStep
<1>1. TypeOK /\ CallShape /\ RevisionGuards /\ RegisteringIsFresh /\ Shape
  BY DEF TMInv, IndInv
<1>2. SessionStep
  BY <1>1, SessionSteps
<1>3. Calls'
  BY <1>1, CallsNext DEF PInv
<1>4. Turns' /\ PhaseOneOK' /\ Lists' /\ Work'
  BY <1>1, <1>2, TurnsNext, PhaseOneNext, ListsNext, WorkNext
<1>5. Statuses'
  BY <1>1, <1>2, StatusesNext DEF PInv
<1>6. Sessions' /\ Leads' /\ Databases'
  BY <1>1, <1>2, SessionsNext, LeadsNext, DatabasesNext
<1> QED
  BY <1>2, <1>3, <1>4, <1>5, <1>6 DEF PInv

\* The invariant holds, for any number of global transactions, branches and
\* rows.
THEOREM PatientInvariance == ASSUME Patient PROVE TMSpec => []PInv
<1>1. TMInit => PInv
  BY InitPInv
<1>2. TMInv /\ PInv /\ [TMNext]_tmVars => PInv'
  BY PInvNext
<1> QED
  BY <1>1, <1>2, SystemInvariance, PTL DEF TMSpec

---------------------------------------------------------------------------
(***************************************************************************)
(* The abstract specification and the theorems                             *)
(***************************************************************************)
\* What the abstract specification says of branch b.
PartOf(b) == IF bs[b] = "Unborn" THEN "none"
             ELSE IF bs[b] \in {"PhaseOneFailed", "Gone"} THEN "ended"
             ELSE "enlisted"

\* A step of the branch worker that executes an outcome is a step Execute.
LEMMA ExecuteStep ==
  ASSUME Patient, TypeOK, Shape, PInv,
         BranchCommit \/ BranchRollback \/ UndoAnswerLost
  PROVE  \E b \in Branch : GT!Execute(b)
<1> DEFINE to == IF bw.st = "PhaseTwoCommitting" THEN "Committing" ELSE "Rollbacking"
<1>0. bw.pc = "work"
  BY DEF BranchCommit, BranchRollback, UndoAnswerLost
<1>1. /\ bw.b \in Branch /\ bs[bw.b] = bw.st
      /\ bw.st \in {"PhaseTwoCommitting", "PhaseTwoRollbacking"}
  BY <1>0 DEF Shape, Handles, SystemTypeOK, PInv, Work, Hand
<1>2. bs[bw.b] \in Allowed(gs[XidOf[bw.b]])
  BY <1>1 DEF PInv, Statuses
<1>3. gs[XidOf[bw.b]] = to
  BY <1>1, <1>2 DEF Allowed
<1>4. UNCHANGED <<gs, bs>>
  BY DEF BranchCommit, BranchRollback, UndoAnswerLost, ReleaseUndone, ReleaseLockKeys, vars
<1>5. second' = second \cup {<<bw.b, GT!Outcome(to)>>}
  BY <1>1 DEF BranchCommit, BranchRollback, UndoAnswerLost, Rollback, Executed, GT!Outcome
<1>6. GT!Execute(bw.b)
  BY <1>1, <1>3, <1>4, <1>5 DEF GT!Execute
<1> QED
  BY <1>1, <1>6

\* Any other step is a step of the abstract specification on the sessions.
LEMMA AbstractStep ==
  ASSUME TypeOK, PInv, SessionStep, UNCHANGED second
  PROVE  [GT!GTNext]_(GT!gtVars)
<1> DEFINE Part == [b \in Branch |-> PartOf(b)]
<1>0. /\ bs \in [Branch -> BranchStatus] /\ DOMAIN gs = XID
      /\ \A b \in Branch : XidOf[b] \in XID
  BY XidOfAssumption DEF TypeOK
<1>s. \A b \in Branch : bs[b] # "Unborn" => bs[b] \in Allowed(gs[XidOf[b]])
  BY DEF PInv, Statuses
<1>p. ASSUME NEW b \in Branch, NEW s \in BranchStatus, bs' = [bs EXCEPT ![b] = s]
      PROVE  Part' = [Part EXCEPT ![b] = IF s = "Unborn" THEN "none"
                                         ELSE IF s \in {"PhaseOneFailed", "Gone"} THEN "ended"
                                         ELSE "enlisted"]
  BY <1>0, <1>p DEF PartOf
<1>1. ASSUME NEW b \in Branch, Born(b) PROVE GT!Enlist(b)
  <2>1. Part' = [Part EXCEPT ![b] = "enlisted"] /\ PartOf(b) = "none"
    BY <1>1, <1>p DEF Born, BranchStatus, PartOf
  <2> QED BY <1>1, <2>1 DEF Born, GT!Enlist, PartOf
<1>2. ASSUME NEW b \in Branch, Failed(b) PROVE GT!Withdraw(b)
  <2>1. Part' = [Part EXCEPT ![b] = "ended"] /\ PartOf(b) = "enlisted"
    BY <1>2, <1>p DEF Failed, BranchStatus, PartOf
  <2> QED BY <1>2, <2>1 DEF Failed, GT!Withdraw, PartOf
<1>3. ASSUME NEW b \in Branch, Dropped(b) PROVE UNCHANGED GT!gtVars
  <2>1. Part' = Part
    BY <1>0, <1>3 DEF Dropped, PartOf
  <2> QED BY <1>3, <2>1 DEF Dropped, GT!gtVars, PartOf
<1>4. ASSUME NEW b \in Branch, Ended(b) PROVE GT!End(b)
  <2>1. Part' = [Part EXCEPT ![b] = "ended"] /\ PartOf(b) = "enlisted"
    BY <1>4, <1>p DEF Ended, BranchStatus, PartOf
  <2>2. /\ gs[XidOf[b]] \in {"Committing", "Rollbacking"}
        /\ Verdict(bs[b]) = GT!Outcome(gs[XidOf[b]])
    BY <1>4, <1>s DEF Ended, Allowed, Verdict, GT!Outcome
  <2> QED BY <1>4, <2>1, <2>2 DEF Ended, GT!End, PartOf
<1>5. ASSUME NEW b \in Branch, GivenUp(b) PROVE GT!GiveUp(b)
  <2>1. Part' = [Part EXCEPT ![b] = "ended"] /\ PartOf(b) = "enlisted"
    BY <1>5, <1>p DEF GivenUp, BranchStatus, PartOf
  <2>2. gs[XidOf[b]] = "Rollbacking"
    BY <1>5, <1>s DEF GivenUp, Allowed
  <2> QED BY <1>5, <2>1, <2>2 DEF GivenUp, GT!GiveUp, PartOf
<1>6. ASSUME NEW x \in XID, Opened(x) PROVE GT!Begin(x)
  BY <1>6 DEF Opened, GT!Begin
<1>7. ASSUME NEW x \in XID, NEW to \in {"Committing", "Rollbacking"}, Settled(x, to)
      PROVE  GT!Decide(x, to)
  <2>1. Part' = Part
    BY <1>0, <1>7 DEF Settled, PartOf, PhaseTwo
  <2> QED BY <1>7, <2>1 DEF Settled, GT!Decide, PartOf
<1>8. ASSUME NEW x \in XID, Forgotten(x) PROVE GT!Forget(x)
  <2>1. \A b \in Branch : XidOf[b] = x => PartOf(b) # "enlisted"
    BY <1>0, <1>8 DEF Forgotten, Empty, BranchesOf, Exists, PartOf
  <2> QED BY <1>8, <2>1 DEF Forgotten, GT!Forget, PartOf
<1>9. CASE UNCHANGED <<gs, bs>>
  BY <1>9 DEF GT!gtVars
<1> QED
  BY <1>1, <1>2, <1>3, <1>4, <1>5, <1>6, <1>7, <1>8, <1>9
  DEF SessionStep, Unindexed, GT!GTNext

\* The transaction manager implements GlobalTransaction: Commit and Rollback
\* of etcd.go record one decision, the branch worker executes it on every
\* branch and no other, and a session is deleted after its branches.
THEOREM Refinement == ASSUME Patient PROVE TMSpec => ImplementsGlobalTransaction
<1>1. TMInit => GT!GTInit
  BY DEF TMInit, Init, GT!GTInit
<1>2. TMInv /\ PInv /\ [TMNext]_tmVars => [GT!GTNext]_(GT!gtVars)
  <2> SUFFICES ASSUME TMInv, PInv, [TMNext]_tmVars PROVE [GT!GTNext]_(GT!gtVars)
    OBVIOUS
  <2>1. TypeOK /\ Shape /\ SessionStep
    BY PInvNext DEF TMInv, IndInv
  <2>2. \/ UNCHANGED second
        \/ BranchCommit \/ BranchRollback \/ UndoAnswerLost
    BY DatabaseMoves DEF LocalCommit, database
  <2>3. CASE UNCHANGED second
    BY <2>1, <2>3, AbstractStep
  <2>4. CASE BranchCommit \/ BranchRollback \/ UndoAnswerLost
    BY <2>1, <2>4, ExecuteStep DEF GT!GTNext
  <2> QED BY <2>2, <2>3, <2>4
<1> QED
  BY <1>1, <1>2, SystemInvariance, PatientInvariance, PTL
  DEF TMSpec, ImplementsGlobalTransaction, GT!GTSpec

\* The list of branches a decision works on is complete: none stays Registered.
THEOREM NoOrphans == ASSUME Patient PROVE TMSpec => []NoOrphan
<1>1. PInv => NoOrphan
  BY DEF PInv, Statuses, Allowed, NoOrphan
<1> QED
  BY <1>1, PatientInvariance, PTL

\* A global session is deleted only when all its branches are.
THEOREM DeletesLast == ASSUME Patient PROVE TMSpec => []DeletedLast
<1>1. PInv => DeletedLast
  BY DEF PInv, Statuses, Allowed, DeletedLast, Exists
<1> QED
  BY <1>1, PatientInvariance, PTL

\* A branch that was rolled back has left neither a write nor an undo log in
\* its database.
THEOREM RollbacksUndo == ASSUME Patient PROVE TMSpec => []RollbackUndoes
<1>1. PInv => RollbackUndoes
  BY DEF PInv, Databases, RollbackUndoes
<1> QED
  BY <1>1, PatientInvariance, PTL

\* The theorems about GlobalTransaction, for what the transaction manager
\* implements.
GTP == INSTANCE GlobalTransactionProofs WITH
        status <- gs,
        part   <- [b \in Branch |->
                     IF bs[b] = "Unborn" THEN "none"
                     ELSE IF bs[b] \in {"PhaseOneFailed", "Gone"} THEN "ended"
                     ELSE "enlisted"],
        result <- second

\* Global transactions are atomic in the whole system: no two branches of one
\* execute different outcomes.
THEOREM SystemAtomicity == ASSUME Patient PROVE TMSpec => []GT!OneOutcome
<1>1. GT!GTInit => GTP!GTInit
  BY DEF GT!GTInit, GTP!GTInit
<1>2. [GT!GTNext]_(GT!gtVars) => [GTP!GTNext]_(GTP!gtVars)
  BY DEF GT!Begin, GTP!Begin, GT!Enlist, GTP!Enlist, GT!Withdraw, GTP!Withdraw, GT!Decide, GTP!Decide, GT!Execute, GTP!Execute, GT!End, GTP!End, GT!GiveUp, GTP!GiveUp, GT!Forget, GTP!Forget, GT!Outcome, GTP!Outcome, GT!GTNext, GTP!GTNext, GT!gtVars, GTP!gtVars
<1>3. TMSpec => GT!GTInit /\ [][GT!GTNext]_(GT!gtVars)
  BY Refinement DEF ImplementsGlobalTransaction, GT!GTSpec
<1>4. GTP!GTSpec => []GTP!OneOutcome
  BY GTP!Atomicity, XidOfAssumption
<1>5. GTP!OneOutcome <=> GT!OneOutcome
  BY DEF GTP!OneOutcome, GT!OneOutcome
<1> QED BY <1>1, <1>2, <1>3, <1>4, <1>5, PTL DEF GTP!GTSpec

---------------------------------------------------------------------------
(***************************************************************************)
(* No work of phase two is lost                                            *)
(***************************************************************************)
\* The watch is not told to start late.
Replayed == "listDead" \notin Faults

\* A branch enters phase two by a decision that has listed it.
LEMMA PhaseTwoBegins ==
  ASSUME TypeOK, CallShape, Shape, PInv, SessionStep, [TMNext]_tmVars,
         NEW b \in Branch, InPhaseTwo(b)', ~InPhaseTwo(b)
  PROVE  \E t \in Thread : Decide(t) /\ b \in thread[t].puts /\ bs[b] = "Registered"
<1> USE DEF TypeOK, InPhaseTwo
<1>1. ASSUME NEW c \in Branch, \/ Born(c) \/ Failed(c) \/ Dropped(c) \/ Unindexed(c)
                               \/ Ended(c) \/ GivenUp(c) PROVE FALSE
  BY <1>1 DEF Born, Failed, Dropped, Unindexed, Ended, GivenUp
<1>2. ASSUME NEW y \in XID, Opened(y) \/ Forgotten(y) PROVE FALSE
  BY <1>2 DEF Opened, Forgotten
<1>3. PICK x \in XID, to \in {"Committing", "Rollbacking"} : Settled(x, to)
  BY <1>1, <1>2 DEF SessionStep
<1>4. XidOf[b] = x /\ bs[b] = "Registered" /\ gs[x] = "Begin" /\ gs'[x] = to
  BY <1>3 DEF Settled
<1>5. PICK t \in Thread : Decide(t) /\ thread[t].x = x
  BY <1>4, StatusMoves DEF Decided
<1>6. b \in thread[t].puts
  BY <1>4, <1>5, DecideSession DEF Decide
<1> QED
  BY <1>4, <1>5, <1>6

\* Where the work on phase two of branch b is.
Charged(b) == b \in {bw.b} \cup {i.b : i \in queue \cup lead.replay}
                        \cup {e.b : e \in lead.branches}

\* Whatever takes an item away does its work or puts it back.
LEMMA QueuedNext ==
  ASSUME Patient, Replayed, TypeOK, CallShape, Shape, PInv, SessionStep,
         [TMNext]_tmVars, PhaseTwoIsQueued
  PROVE  PhaseTwoIsQueued'
<1> SUFFICES ASSUME lead'.st \in {"branch", "watching"},
                    NEW b \in Branch, InPhaseTwo(b)'
             PROVE  Charged(b)'
  BY DEF PhaseTwoIsQueued, Charged
<1>0. /\ lead \in [st : {"down", "global", "branch", "watching", "deaf"},
              sessions : SUBSET [x : XID, pc : {"rollback", "keys", "delete"}],
              branches : SUBSET [b : Branch, pc : {"delete", "unlock"}],
              replay : SUBSET Item]
      /\ bw.pc # "idle" => bw.b \in Branch
      /\ bw \in [pc : {"idle", "work", "release", "delete", "unlock", "dead"},
                 b : Branch \cup {None},
                 st : {"Begin", "PhaseTwoCommitting", "PhaseTwoRollbacking"},
                 by : Thread \cup {None}, rows : SUBSET Row, logs : BOOLEAN]
  BY DEF Shape, SystemTypeOK, Handles
<1>n. ~LeaderDies /\ ~Elect
  <2>1. CASE LeaderDies
    BY <2>1 DEF LeaderDies, Down
  <2>2. CASE Elect
    <3>1. lead'.st = "global"
      BY <2>2 DEF Elect, Down
    <3> QED BY <3>1
  <2> QED BY <2>1, <2>2
<1>1. CASE RecoverBranches
  <2>1. PICK D \in SUBSET {c \in Branch : bs[c] = "PhaseTwoRollbacking"} :
          /\ queue' = {[b |-> c, st |-> bs[c], by |-> None] :
                         c \in {a \in Branch \ D : InPhaseTwo(a)}}
          /\ lead' = [lead EXCEPT
                        !.st = "branch",
                        !.branches = [b : {c \in Branch : bs[c] = "PhaseOneFailed"},
                                      pc : {"delete"}] \cup [b : D, pc : {"unlock"}]]
    BY <1>1 DEF RecoverBranches
  <2>2. InPhaseTwo(b)
    BY <1>1 DEF RecoverBranches, vars, InPhaseTwo
  <2>3. CASE b \in D
    <3>1. [b |-> b, pc |-> "unlock"] \in lead'.branches
      BY <1>0, <2>1, <2>3
    <3> QED BY <3>1 DEF Charged
  <2>4. CASE b \notin D
    <3>1. [b |-> b, st |-> bs[b], by |-> None] \in queue'
      BY <2>1, <2>2, <2>4
    <3> QED BY <3>1 DEF Charged
  <2> QED BY <2>3, <2>4
<1>2. CASE ~RecoverBranches
  <2>1. lead.st \in {"branch", "watching"}
    BY <1>n, <1>2, LeadMoves DEF Dies, PInv
  <2>2. ASSUME NEW t \in Thread, Decide(t) PROVE Charged(b)'
    <3>1. CASE InPhaseTwo(b)
      <4>1. Charged(b)
        BY <2>1, <3>1 DEF PhaseTwoIsQueued, Charged
      <4>2. /\ UNCHANGED bw /\ queue \subseteq queue' /\ lead.replay \subseteq lead'.replay
            /\ lead'.branches = lead.branches
        BY <1>0, <2>2 DEF Decide
      <4> QED BY <4>1, <4>2 DEF Charged
    <3>2. CASE ~InPhaseTwo(b)
      <4>1. PICK u \in Thread : Decide(u) /\ b \in thread[u].puts /\ bs[b] = "Registered"
        BY <3>2, PhaseTwoBegins
      <4> DEFINE i == [b |-> b, st |-> PhaseTwo(thread[u].to), by |-> u]
      <4>2. i \in Updates(u)
        BY <4>1 DEF Updates, Exists
      <4>3. i \in queue' \cup lead'.replay
        <5> HIDE DEF i
        <5> QED BY <1>0, <2>1, <4>1, <4>2 DEF Decide
      <4> QED BY <4>3 DEF Charged
    <3> QED BY <3>1, <3>2
  <2>3. CASE \A t \in Thread : ~Decide(t)
    <3>1. InPhaseTwo(b) /\ Charged(b)
      BY <2>1, <2>3, PhaseTwoBegins DEF PhaseTwoIsQueued, Charged
    <3>2. CASE /\ UNCHANGED <<queue, bw, second>>
               /\ lead'.replay = lead.replay /\ lead'.branches = lead.branches
      BY <3>1, <3>2 DEF Charged
    <3>3. ASSUME NEW i \in queue, NextBranchSession(i) PROVE Charged(b)'
      <4>1. /\ queue' = queue \ {i} /\ UNCHANGED lead /\ bw'.b = i.b /\ bw.b = None
        BY <3>3 DEF NextBranchSession, NoWork
      <4> QED BY <3>1, <4>1, NoneAssumption DEF Charged
    <3>4. CASE PhaseTwoWork
      <4>1. UNCHANGED lead
        BY <3>4 DEF PhaseTwoWork, BranchCommit, BranchRollback, PhaseTwoFails,
           UndoAnswerLost, BranchRelease, BranchDelete, DeadUnlock, DeadBranch
      <4>2. CASE queue' = queue /\ bw'.b = bw.b
        BY <3>1, <4>1, <4>2 DEF Charged
      <4>3. CASE Requeue
        <5>1. [b |-> bw.b, st |-> bw.st, by |-> bw.by] \in queue' /\ queue \subseteq queue'
          BY <4>3 DEF Requeue
        <5> QED BY <3>1, <4>1, <5>1 DEF Charged
      <4>4. CASE BranchDelete \/ DeadBranch
        <5>1. b # bw.b
          BY <1>0, <4>4 DEF BranchDelete, DeadBranch, DeleteBranchSession,
             SetBranchSessionDead, InPhaseTwo, Exists, TypeOK, Patient, vars
        <5>2. queue' = queue
          BY <4>4 DEF BranchDelete, DeadBranch
        <5> QED BY <3>1, <4>1, <5>1, <5>2 DEF Charged
      <4>5. BranchCommit \/ BranchRollback \/ BranchRelease \/ DeadUnlock
              => queue' = queue /\ bw'.b = bw.b
        BY <1>0 DEF BranchCommit, BranchRollback, BranchRelease, DeadUnlock
      <4> QED
        BY <3>4, <4>2, <4>3, <4>4, <4>5 DEF PhaseTwoWork, PhaseTwoFails, UndoAnswerLost
    <3>6. CASE WatchBranchSessions
      <4>1. /\ queue' = queue \cup lead.replay /\ lead.branches = {} /\ UNCHANGED bw
        BY <3>6 DEF WatchBranchSessions
      <4> QED BY <3>1, <4>1 DEF Charged
    <3>7. ASSUME NEW e \in lead.branches, RecoverBranch(e) PROVE Charged(b)'
      <4>1. /\ lead'.branches = lead.branches \ {e} /\ lead'.replay = lead.replay
            /\ queue' = queue /\ bw'.b = e.b /\ bw.b = None
        BY <1>0, <3>7 DEF RecoverBranch, NoWork
      <4> QED BY <3>1, <4>1, NoneAssumption DEF Charged
    <3>8. ~ListDeadBranchSession
      BY DEF ListDeadBranchSession, Replayed
    <3> QED
      BY <1>n, <1>2, <2>3, <3>2, <3>3, <3>4, <3>6, <3>7, <3>8, WorkMoves
  <2> QED BY <2>2, <2>3
<1> QED
  BY <1>1, <1>2

\* No work of phase two is lost, across crashes and the start of the watch.
THEOREM PhaseTwoIsNeverLost ==
  ASSUME Patient, Replayed PROVE TMSpec => []PhaseTwoIsQueued
<1>1. TMInit => PhaseTwoIsQueued
  BY DEF TMInit, Init, PhaseTwoIsQueued, InPhaseTwo
<1>2. TMInv /\ PInv /\ PhaseTwoIsQueued /\ [TMNext]_tmVars => PhaseTwoIsQueued'
  BY PInvNext, QueuedNext DEF TMInv, IndInv
<1> QED
  BY <1>1, <1>2, SystemInvariance, PatientInvariance, PTL DEF TMSpec

---------------------------------------------------------------------------
(***************************************************************************)
(* Timeouts                                                                *)
(***************************************************************************)
\* Nothing goes wrong between a process and etcd, and the leader serves the
\* clients itself.
Answered == Faults \cap {"etcdError", "standby"} = {}

\* The timeouts: a session that is undecided has an item in the queue or is
\* in the hands of the goroutine of the queue; an item belongs to a session;
\* and the goroutine looks for branches only of sessions it found decided.
Armed ==
  /\ \A x \in XID :
       /\ lead.st # "down" /\ gs[x] = "Begin" => timer[x] # "off" \/ gq.x = x
       /\ timer[x] # "off" => gs[x] # "Unborn"
  /\ gq.pc # "idle" => gs[gq.x] # "Unborn"
  /\ gq.pc \in {"keys", "delete"} => gs[gq.x] # "Begin"

\* With any faults, a status changes by GlobalBegin or leaves Begin for good.
LEMMA GlobalMoves ==
  ASSUME TypeOK, CallShape, Calls, Shape, [TMNext]_tmVars, NEW x \in XID
  PROVE  \/ gs'[x] = gs[x]
         \/ GlobalBegin(x) /\ gs'[x] = "Begin"
         \/ gs'[x] \in {"Committing", "Rollbacking", "Gone"}
<1> DEFINE Goal == \/ gs'[x] = gs[x]
                   \/ GlobalBegin(x) /\ gs'[x] = "Begin"
                   \/ gs'[x] \in {"Committing", "Rollbacking", "Gone"}
<1> SUFFICES Goal
  OBVIOUS
<1> USE Goroutines
<1>0. gs \in [XID -> {"Unborn", "Begin", "Committing", "Rollbacking", "Gone"}]
  BY DEF TypeOK, GlobalStatus
<1>1. ASSUME NEW b \in Branch, PhaseOne(b) PROVE Goal
  BY <1>1, StartEffect, RegisterEffect DEF PhaseOne, BranchStart, BranchRegister,
     BranchRegistered, InsertUndoLog, LocalCommit, LocalAbort, TryFails, vars
<1>2. ASSUME NEW y \in XID, Client(y) PROVE Goal
  <2>1. CASE GlobalBegin(y)
    BY <1>0, <2>1 DEF GlobalBegin, AddGlobalSession
  <2>2. CASE ClientEnds(y) \/ Tick(y)
    BY <2>2, StartEffect DEF ClientEnds, ClientCommit, ClientRollback, ClientVanishes, Tick, vars
  <2> QED BY <1>2, <2>1, <2>2 DEF Client
<1>3. ASSUME NEW y \in XID, DeleteGlobalSession(y) PROVE Goal
  BY <1>0, <1>3 DEF DeleteGlobalSession
<1>4. CASE Timeout
  <2>1. CASE TimeoutRollback
    <3>1. gq.x \in XID
      BY <2>1 DEF TimeoutRollback, Shape, Handles
    <3> QED BY <2>1, <3>1, StartEffect DEF TimeoutRollback, vars
  <2>2. CASE TimeoutRequeue \/ TimeoutKeys
    BY <2>2 DEF TimeoutRequeue, TimeoutKeys, vars
  <2>3. CASE TimeoutDelete
    <3>1. gq.x \in XID
      BY <2>3 DEF TimeoutDelete, Shape, Handles
    <3> QED BY <1>3, <2>3, <3>1 DEF TimeoutDelete, vars
  <2> QED BY <1>4, <2>1, <2>2, <2>3 DEF Timeout
<1>5. CASE PhaseTwoWork
  BY <1>5 DEF PhaseTwoWork, BranchCommit, BranchRollback, PhaseTwoFails,
     UndoAnswerLost, ReleaseUndone, ReleaseLockKeys, BranchRelease, BranchDelete,
     DeleteBranchSession, DeadUnlock, DeadBranch, SetBranchSessionDead, vars
<1>6. CASE Recovery
  <2>1. ASSUME NEW y \in XID, RecoverRollback(y) PROVE Goal
    BY <2>1, StartEffect DEF RecoverRollback, vars
  <2>2. ASSUME NEW y \in XID, RecoverDelete(y) PROVE Goal
    BY <1>3, <2>2 DEF RecoverDelete, vars
  <2> QED
    BY <1>6, <2>1, <2>2 DEF Recovery, Elect, RecoverKeys, RecoverBranches,
       RecoverBranch, WatchBranchSessions, vars
<1>7. ASSUME NEW t \in Thread, Driver(t) PROVE Goal
  BY <1>7, RequestEffect DEF Driver
<1>8. ASSUME NEW t \in Thread, Decide(t) PROVE Goal
  <2>1. thread[t].pc = "getBranches" /\ gs' = [gs EXCEPT ![thread[t].x] = thread[t].to]
    BY <1>8, DecideEffect DEF Decide
  <2>2. thread[t].to \in {"Committing", "Rollbacking"}
    BY <2>1 DEF Calls, CallOf, DecisionPc
  <2> QED BY <1>0, <2>1, <2>2
<1>9. ASSUME NEW t \in Thread, DriverFails(t) PROVE Goal
  BY <1>9 DEF DriverFails, CallsFail
<1>10. CASE Crash \/ DeletePanics
  BY <1>10 DEF Crash, DeletePanics, CallsFail
<1>11. CASE ListDeadBranchSession \/ WatchBreaks \/ UNCHANGED tmVars
  BY <1>11 DEF ListDeadBranchSession, WatchBreaks, tmVars, vars
<1>12. ASSUME NEW y \in XID, NextGlobalSession(y) PROVE Goal
  BY <1>12 DEF NextGlobalSession, vars
<1>13. ASSUME NEW i \in queue, NextBranchSession(i) PROVE Goal
  BY <1>13 DEF NextBranchSession, vars
<1> QED
  BY <1>1, <1>2, <1>4, <1>5, <1>6, <1>7, <1>8, <1>9, <1>10, <1>11, <1>12, <1>13
  DEF TMNext

\* Who changes the timeouts.
LEMMA ArmedMoves ==
  ASSUME Answered, Shape, [TMNext]_tmVars
  PROVE  \/ UNCHANGED <<timer, gq>> /\ lead'.st = lead.st
         \/ UNCHANGED <<timer, gq>> /\ lead.st # "down"
         \/ \E x \in XID : GlobalBegin(x) \/ NextGlobalSession(x)
         \/ Timeout
         \/ LeaderDies
         \/ Elect
<1> DEFINE Goal == \/ UNCHANGED <<timer, gq>> /\ lead'.st = lead.st
                   \/ UNCHANGED <<timer, gq>> /\ lead.st # "down"
                   \/ \E x \in XID : GlobalBegin(x) \/ NextGlobalSession(x)
                   \/ Timeout
                   \/ LeaderDies
                   \/ Elect
<1> SUFFICES Goal
  OBVIOUS
<1>0. lead \in [st : {"down", "global", "branch", "watching", "deaf"},
              sessions : SUBSET [x : XID, pc : {"rollback", "keys", "delete"}],
              branches : SUBSET [b : Branch, pc : {"delete", "unlock"}],
              replay : SUBSET Item]
  BY DEF Shape, SystemTypeOK
<1>u. ASSUME UNCHANGED <<timer, gq>>, lead'.st = lead.st PROVE Goal
  BY <1>u
<1>1. ASSUME NEW b \in Branch, PhaseOne(b) PROVE Goal
  BY <1>u, <1>1 DEF PhaseOne, BranchStart, BranchRegister, BranchRegistered,
     InsertUndoLog, LocalCommit, LocalAbort, TryFails, leading
<1>2. ASSUME NEW x \in XID, Client(x) PROVE Goal
  BY <1>u, <1>2 DEF Client, ClientEnds, ClientCommit, ClientRollback, ClientVanishes,
     Tick, leading
<1>3. CASE PhaseTwoWork
  BY <1>u, <1>3 DEF PhaseTwoWork, BranchCommit, BranchRollback, PhaseTwoFails,
     UndoAnswerLost, BranchRelease, BranchDelete, DeadUnlock, DeadBranch
<1>4. CASE Recovery
  <2>1. ASSUME NEW x \in XID, RecoverRollback(x) \/ RecoverKeys(x) \/ RecoverDelete(x) PROVE Goal
    <3>1. CASE LeaderDies
      BY <3>1
    <3>2. CASE ~LeaderDies
      BY <1>0, <1>u, <2>1, <3>2 DEF RecoverRollback, RecoverKeys, RecoverDelete
    <3> QED BY <3>1, <3>2
  <2>2. CASE RecoverBranches \/ WatchBranchSessions
    BY <2>2 DEF RecoverBranches, WatchBranchSessions
  <2>3. ASSUME NEW e \in lead.branches, RecoverBranch(e) PROVE Goal
    BY <1>0, <1>u, <2>3 DEF RecoverBranch
  <2> QED BY <1>4, <2>1, <2>2, <2>3 DEF Recovery
<1>5. ASSUME NEW t \in Thread, Driver(t) PROVE Goal
  BY <1>u, <1>5 DEF Driver, leading
<1>6. ASSUME NEW t \in Thread, Decide(t) PROVE Goal
  BY <1>0, <1>u, <1>6 DEF Decide
<1>7. CASE Crash \/ ListDeadBranchSession \/ WatchBreaks \/ UNCHANGED tmVars
  BY <1>0, <1>u, <1>7 DEF Crash, ListDeadBranchSession, WatchBreaks, tmVars, leading
<1>8. ASSUME NEW t \in Thread, DriverFails(t) \/ DeletePanics PROVE Goal
  BY <1>8 DEF DriverFails, DeletePanics, Answered
<1>9. ASSUME NEW i \in queue, NextBranchSession(i) PROVE Goal
  BY <1>u, <1>9 DEF NextBranchSession
<1> QED
  BY <1>1, <1>2, <1>3, <1>4, <1>5, <1>6, <1>7, <1>8, <1>9, Goroutines DEF TMNext

\* Every step keeps the timeouts armed.
LEMMA ArmedNext ==
  ASSUME Answered, TypeOK, CallShape, Calls, Shape, Armed, [TMNext]_tmVars
  PROVE  Armed'
<1>0. /\ gq \in [pc : {"idle", "rollback", "requeue", "keys", "delete"}, x : XID \cup {None}]
      /\ gq.pc # "idle" => gq.x \in XID
      /\ timer \in [XID -> {"off", "waiting", "due"}]
  BY DEF Shape, Handles, SystemTypeOK
<1>1. \A x \in XID : \/ gs'[x] = gs[x]
                     \/ GlobalBegin(x) /\ gs'[x] = "Begin"
                     \/ gs'[x] \in {"Committing", "Rollbacking", "Gone"}
  BY GlobalMoves
<1>2. ASSUME NEW x \in XID, GlobalBegin(x) PROVE Armed'
  <2>1. /\ gs[x] = "Unborn" /\ gs' = [gs EXCEPT ![x] = "Begin"]
        /\ timer' = [timer EXCEPT ![x] = "waiting"] /\ UNCHANGED <<gq, lead>>
    BY <1>2 DEF GlobalBegin, AddGlobalSession, Answered
  <2> QED BY <1>0, <2>1 DEF Armed, TypeOK
<1>3. ASSUME \A x \in XID : ~GlobalBegin(x), UNCHANGED <<timer, gq>>,
             lead.st # "down" \/ lead'.st = lead.st
      PROVE  Armed'
  BY <1>0, <1>1, <1>3 DEF Armed
<1>4. ASSUME NEW x \in XID, NextGlobalSession(x) PROVE Armed'
  <2>1. /\ gq.x = None /\ Due(x) /\ timer' = [timer EXCEPT ![x] = "off"]
        /\ UNCHANGED <<gs, lead>>
        /\ gq' = IF gs[x] = "Begin" THEN [pc |-> "rollback", x |-> x]
                 ELSE IF gs[x] = "Gone" THEN NoTimer
                 ELSE [pc |-> "keys", x |-> x]
    BY <1>4 DEF NextGlobalSession, NoTimer, Answered, vars
  <2>2. gs[x] # "Unborn"
    BY <2>1 DEF Due, Armed
  <2> QED BY <1>0, <2>1, <2>2, NoneAssumption DEF Armed, NoTimer
<1>5. CASE Timeout
  <2>1. UNCHANGED <<lead, client>> /\ \A x \in XID : ~GlobalBegin(x)
    <3>1. UNCHANGED <<lead, client>>
      BY <1>5 DEF Timeout, TimeoutRollback, TimeoutRequeue, TimeoutKeys, TimeoutDelete,
         phaseOne
    <3>2. client \in [XID -> {"idle", "active", "done"}]
      BY DEF Shape, SystemTypeOK
    <3> QED BY <3>1, <3>2 DEF GlobalBegin
  <2>2. CASE TimeoutRollback
    BY <1>0, <1>1, <2>1, <2>2 DEF TimeoutRollback, Armed
  <2>3. CASE TimeoutRequeue
    BY <1>0, <2>1, <2>3 DEF TimeoutRequeue, Armed, NoTimer, vars
  <2>4. CASE TimeoutKeys
    BY <1>0, <2>1, <2>4 DEF TimeoutKeys, Armed, NoTimer, vars
  <2>5. CASE TimeoutDelete
    BY <1>0, <1>1, <2>1, <2>5 DEF TimeoutDelete, Armed, NoTimer
  <2> QED BY <1>5, <2>2, <2>3, <2>4, <2>5 DEF Timeout
<1>6. CASE LeaderDies
  BY <1>0, <1>6 DEF LeaderDies, Down, Armed, NoTimer
<1>7. CASE Elect
  <2>1. /\ timer' = [x \in XID |-> RecoveredTimer(x)] /\ UNCHANGED <<gs, gq>>
    BY <1>7 DEF Elect, vars
  <2> QED BY <1>0, <2>1 DEF Armed, RecoveredTimer
<1> QED
  BY <1>2, <1>3, <1>4, <1>5, <1>6, <1>7, ArmedMoves

\* The leader never forgets the timeout of an undecided global transaction,
\* even if it crashes at any time, transactions outlive their timeout or
\* clients race with their branches.
THEOREM TimeoutsStayArmed == ASSUME Answered PROVE TMSpec => []TimeoutIsArmed
<1>1. TMInit => Calls /\ Armed
  BY InitPInv DEF PInv, TMInit, Init, Armed, NoTimer
<1>2. TMInv /\ Calls /\ Armed /\ [TMNext]_tmVars => Calls' /\ Armed'
  BY CallsNext, ArmedNext DEF TMInv, IndInv
<1>3. Armed => TimeoutIsArmed
  BY DEF Armed, TimeoutIsArmed, Working
<1> QED
  BY <1>1, <1>2, <1>3, SystemInvariance, PTL DEF TMSpec
=============================================================================

------------------------ MODULE TransactionManager ------------------------
(***************************************************************************)
(* Distributed transactions end to end: the clients of global              *)
(* transactions (pkg/filter/dt), the local transactions that are their     *)
(* branches, and the leader of the transaction managers                    *)
(* (pkg/dt/transaction_manger.go), which runs phase two and the timeouts.  *)
(* All of them work on the store of EtcdStore, one etcd request at a time. *)
(*                                                                         *)
(* A branch is AT if its LockKey names rows and TCC if it names none.  The *)
(* client of x calls the driver as goroutine x, the filter that serves     *)
(* branch b as goroutine b, the two queue workers of the leader as GQ and  *)
(* BQ.                                                                     *)
(***************************************************************************)
EXTENDS EtcdStore

CONSTANTS GQ,      \* the goroutine of globalSessionQueue
          BQ,      \* the goroutine of branchSessionQueue
          ResOf,   \* the data source of a branch
          Unlock,  \* rollbackRetryTimeoutUnlockEnable
          Faults   \* what the environment may do, see FaultNames

FaultNames ==
  {"timeout",    \* a global transaction may outlive its timeout while in use
   "clientRace", \* a client may roll back while its branches are running
   "etcdError",  \* a request to etcd may fail, or its answer be lost
   "dbError",    \* phase two may fail at the database or at the service
   "undoError",  \* Undo may fail after it has executed undo logs
   "dead",       \* a rollback may be retried for too long
   "crash",      \* the leader may crash; it is then elected again
   "lateCrash",  \* the leader may crash while no client is active
   "standby",    \* a global transaction may begin on another process
   "listDead",   \* the dead branches may be listed before the watch starts
   "watchError"} \* the watch of the branch sessions may break

ASSUME ThreadAssumption == Thread = Branch \cup XID \cup {GQ, BQ}
ASSUME GoroutineAssumption ==
  /\ Branch \cap XID = {}
  /\ {GQ, BQ} \cap (Branch \cup XID) = {}
  /\ GQ # BQ
ASSUME UnlockAssumption == Unlock \in BOOLEAN
ASSUME FaultsAssumption == Faults \subseteq FaultNames

VARIABLES client,   \* per global transaction: "idle", "active" or "done"
          local,    \* per branch: progress of its phase one
          undo,     \* branches whose undo log is committed in their database
          writes,   \* branches whose writes are in their database
          over,     \* <<c, d>>: d has written a row after c
          second,   \* phase-two outcomes executed, <<branch, outcome>>
          expired,  \* global transactions older than their timeout
          timer,    \* per global transaction: its item in globalSessionQueue
          gq,       \* what the goroutine GQ is doing
          queue,    \* branchSessionQueue
          bw,       \* what the goroutine BQ is doing
          lead      \* the leader

phaseOne  == <<client, local>>
database  == <<undo, writes, over, second>>
leading   == <<expired, timer, gq, queue, bw, lead>>
tmVars    == <<vars, phaseOne, database, leading>>

AT(b) == RowsOf[b] # {}

InPhaseTwo(b) == bs[b] \in {"PhaseTwoCommitting", "PhaseTwoRollbacking"}

\* Items of branchSessionQueue: the status the session had when it was read,
\* and who wrote it ("by" keeps items for the same branch apart).
Item == [b  : Branch,
         st : {"PhaseTwoCommitting", "PhaseTwoRollbacking"},
         by : Thread \cup {None}]

NoWork == [pc |-> "idle", b |-> None, st |-> "Begin", by |-> None,
           rows |-> {}, logs |-> FALSE]
NoTimer == [pc |-> "idle", x |-> None]
Down == [st |-> "down", sessions |-> {}, branches |-> {}, replay |-> {}]

\* A leader that has finished its recovery and whose watch has started.
Elected == [Down EXCEPT !.st = "watching"]

TMInit == /\ Init
          /\ client = [x \in XID |-> "idle"]
          /\ local = [b \in Branch |-> "none"]
          /\ undo = {}
          /\ writes = {}
          /\ over = {}
          /\ second = {}
          /\ expired = {}
          /\ timer = [x \in XID |-> "off"]
          /\ gq = NoTimer
          /\ queue = {}
          /\ bw = NoWork
          /\ lead = Elected

---------------------------------------------------------------------------
(***************************************************************************)
(* Phase one                                                               *)
(***************************************************************************)
\* The local transaction of an AT branch holds the row locks of its database.
LocalOpen(b) == local[b] \in {"open", "registered", "logged"}

InFlight(b) == LocalOpen(b) \/ thread[b] # Idle

Quiescent(x) == \A b \in BranchesOf(x) : ~InFlight(b)

\* Begin, by the HTTP filter: the timeout is queued in the process that
\* served the request, and only the leader works on its queue.  If the answer
\* of etcd is lost the request ends with an error and nothing is queued.
GlobalBegin(x) ==
  /\ client[x] = "idle"
  /\ AddGlobalSession(x)
  /\ \/ /\ lead.st # "down"
        /\ client' = [client EXCEPT ![x] = "active"]
        /\ timer' = [timer EXCEPT ![x] = "waiting"]
     \/ /\ "standby" \in Faults
        /\ client' = [client EXCEPT ![x] = "active"]
        /\ UNCHANGED timer
     \/ /\ "etcdError" \in Faults
        /\ client' = [client EXCEPT ![x] = "done"]
        /\ UNCHANGED timer
  /\ UNCHANGED <<local, database, expired, gq, queue, bw, lead>>

\* The statement of an AT branch has run in its local transaction; a TCC
\* request has arrived at the filter.  Branches of a transaction may run at
\* once.
BranchStart(b) ==
  /\ local[b] = "none"
  /\ \/ client[XidOf[b]] = "active"
     \/ client[XidOf[b]] # "idle" /\ "clientRace" \in Faults
  /\ \A c \in Branch : LocalOpen(c) => RowsOf[c] \cap RowsOf[b] = {}
  /\ local' = [local EXCEPT ![b] = "open"]
  /\ UNCHANGED <<vars, client, database, leading>>

\* registerBranchTransaction, handleHttp1BranchRegister: without a session in
\* status Begin the error aborts the statement or the request.
BranchRegister(b) ==
  /\ local[b] = "open"
  /\ thread[b] = Idle
  /\ \/ AddBranchSession(b, b) /\ UNCHANGED local
     \/ /\ gs[XidOf[b]] # "Begin" \/ "etcdError" \in Faults
        /\ local' = [local EXCEPT ![b] = "aborted"]
        /\ UNCHANGED vars
  /\ UNCHANGED <<client, database, leading>>

\* The end of AddBranchSession.  The answer may be lost.
BranchRegistered(b) ==
  /\ AddBranchTxn(b)
  /\ \/ local' = [local EXCEPT ![b] = IF Comparisons(b) THEN "registered"
                                                        ELSE "aborted"]
     \/ /\ "etcdError" \in Faults
        /\ local' = [local EXCEPT ![b] = "aborted"]
  /\ UNCHANGED <<client, database, leading>>

\* InsertUndoLogWithNormal, in the local transaction.
InsertUndoLog(b) ==
  /\ AT(b)
  /\ local[b] = "registered"
  /\ local' = [local EXCEPT ![b] = "logged"]
  /\ UNCHANGED <<vars, client, database, leading>>

\* The local transaction commits, with its undo log; a TCC try succeeds.
LocalCommit(b) ==
  /\ local[b] = IF AT(b) THEN "logged" ELSE "registered"
  /\ local' = [local EXCEPT ![b] = "committed"]
  /\ undo' = IF AT(b) THEN undo \cup {b} ELSE undo
  /\ writes' = IF AT(b) THEN writes \cup {b} ELSE writes
  /\ over' = over \cup {c \in writes : RowsOf[c] \cap RowsOf[b] # {}} \X {b}
  /\ UNCHANGED <<vars, client, second, leading>>

\* The local transaction rolls back: nothing tells the transaction manager.
LocalAbort(b) ==
  /\ AT(b)
  /\ local[b] \in {"registered", "logged"}
  /\ local' = [local EXCEPT ![b] = "aborted"]
  /\ UNCHANGED <<vars, client, database, leading>>

\* A TCC try fails: handleHttp1BranchEnd reports it.
TryFails(b) ==
  /\ ~AT(b)
  /\ local[b] = "registered"
  /\ local' = [local EXCEPT ![b] = "aborted"]
  /\ \/ BranchReport(b, b)
     \/ /\ \/ bs[b] \notin {"Registered", "PhaseOneFailed"}
           \/ "etcdError" \in Faults
        /\ UNCHANGED vars
  /\ UNCHANGED <<client, database, leading>>

\* handleHttp1GlobalEnd with a response of status 200.  The response comes
\* after the requests the client has made.
ClientCommit(x) ==
  /\ client[x] = "active"
  /\ Quiescent(x)
  /\ client' = [client EXCEPT ![x] = "done"]
  /\ \/ GlobalCommit(x, x)
     \/ "etcdError" \in Faults /\ UNCHANGED vars
  /\ UNCHANGED <<local, database, leading>>

\* handleHttp1GlobalEnd with any other response, among them the one the
\* listener makes up when the client does not answer.
ClientRollback(x) ==
  /\ client[x] = "active"
  /\ Quiescent(x) \/ "clientRace" \in Faults
  /\ client' = [client EXCEPT ![x] = "done"]
  /\ \/ GlobalRollback(x, x)
     \/ (gs[x] # "Begin" \/ "etcdError" \in Faults) /\ UNCHANGED vars
  /\ UNCHANGED <<local, database, leading>>

\* The client disappears between two requests and never ends its transaction.
ClientVanishes(x) ==
  /\ client[x] = "active"
  /\ Quiescent(x)
  /\ client' = [client EXCEPT ![x] = "done"]
  /\ UNCHANGED <<vars, local, database, leading>>

---------------------------------------------------------------------------
(***************************************************************************)
(* Timeouts: the goroutine of globalSessionQueue                           *)
(***************************************************************************)
Working == lead.st \in {"watching", "deaf"}

\* The timeout of x passes.
Tick(x) ==
  /\ client[x] # "idle"
  /\ x \notin expired
  /\ \/ "timeout" \in Faults
     \/ client[x] = "done" /\ thread[x] = Idle /\ Quiescent(x)
  /\ expired' = expired \cup {x}
  /\ UNCHANGED <<vars, phaseOne, database, timer, gq, queue, bw, lead>>

\* Mutant: the item never becomes due.
DueNever(x) == timer[x] = "due"

\* The delay of an item of the queue is over.
Due(x) == timer[x] = "due" \/ (timer[x] = "waiting" /\ x \in expired)

\* processNextGlobalSession, up to the read of the session.  An item whose
\* session cannot be read is dropped.
NextGlobalSession(x) ==
  /\ Working
  /\ gq = NoTimer
  /\ thread[GQ] = Idle
  /\ Due(x)
  /\ timer' = [timer EXCEPT ![x] = "off"]
  /\ \/ gq' = IF gs[x] = "Begin" THEN [pc |-> "rollback", x |-> x]
              ELSE IF gs[x] = "Gone" THEN NoTimer
              ELSE [pc |-> "keys", x |-> x]
     \/ "etcdError" \in Faults /\ gq' = NoTimer
  /\ UNCHANGED <<vars, phaseOne, database, expired, queue, bw, lead>>

\* The call of Rollback.  The item is queued again when it returns.
TimeoutRollback ==
  /\ gq.pc = "rollback"
  /\ \/ GlobalRollback(GQ, gq.x)
     \/ (gs[gq.x] # "Begin" \/ "etcdError" \in Faults) /\ UNCHANGED vars
  /\ gq' = [gq EXCEPT !.pc = "requeue"]
  /\ UNCHANGED <<phaseOne, database, expired, timer, queue, bw, lead>>

TimeoutRequeue ==
  /\ gq.pc = "requeue"
  /\ thread[GQ] = Idle
  /\ timer' = [timer EXCEPT ![gq.x] = "waiting"]
  /\ gq' = NoTimer
  /\ UNCHANGED <<vars, phaseOne, database, expired, queue, bw, lead>>

\* Mutant: the branches are not looked at.
TimeoutKeysIgnored ==
  /\ gq.pc = "keys"
  /\ gq' = [gq EXCEPT !.pc = "delete"]
  /\ UNCHANGED <<vars, phaseOne, database, expired, timer, queue, bw, lead>>

\* A decided session with branches left is dropped from the queue; an error
\* of GetBranchSessionKeys is logged and treated as "no branches".
TimeoutKeys ==
  /\ gq.pc = "keys"
  /\ \/ gq' = IF Keys(gq.x) = {}
                THEN [gq EXCEPT !.pc = "delete"] ELSE NoTimer
     \/ "etcdError" \in Faults /\ gq' = [gq EXCEPT !.pc = "delete"]
  /\ UNCHANGED <<vars, phaseOne, database, expired, timer, queue, bw, lead>>

TimeoutDelete ==
  /\ gq.pc = "delete"
  /\ \/ DeleteGlobalSession(gq.x)
     \/ (gs[gq.x] = "Gone" \/ "etcdError" \in Faults) /\ UNCHANGED vars
  /\ gq' = NoTimer
  /\ UNCHANGED <<phaseOne, database, expired, timer, queue, bw, lead>>

---------------------------------------------------------------------------
(***************************************************************************)
(* Phase two: the goroutine of branchSessionQueue                          *)
(***************************************************************************)
\* processNextBranchSession takes an item, in any order: the queue is a FIFO
\* and items that fail go to its end.
NextBranchSession(i) ==
  /\ Working
  /\ bw = NoWork
  /\ thread[BQ] = Idle
  /\ i \in queue
  /\ queue' = queue \ {i}
  /\ \E pc \in {"work", "unlock"} :
       /\ pc = "unlock" => "dead" \in Faults /\ i.st = "PhaseTwoRollbacking"
       /\ bw' = [NoWork EXCEPT !.pc = pc, !.b = i.b, !.st = i.st, !.by = i.by]
  /\ UNCHANGED <<vars, phaseOne, database, expired, timer, gq, lead>>

\* The undo logs of global transaction x in a database.
UndoLogs(x, res) == {c \in undo : XidOf[c] = x /\ ResOf[c] = res}

\* A branch has executed an outcome: the database or, for a TCC branch, the
\* service that was sent the confirm or cancel request has answered.
Executed(b, outcome) == second' = second \cup {<<b, outcome>>}

\* DeleteUndoLogByXID, or the confirm request of a TCC branch.
BranchCommit ==
  /\ bw.pc = "work"
  /\ bw.st = "PhaseTwoCommitting"
  /\ undo' = undo \ UndoLogs(XidOf[bw.b], ResOf[bw.b])
  /\ Executed(bw.b, "commit")
  /\ bw' = [bw EXCEPT !.pc = "delete"]
  /\ UNCHANGED <<vars, phaseOne, writes, over>>
  /\ UNCHANGED <<expired, timer, gq, queue, lead>>

\* Nobody else has written over what L wrote: what dataValidationAndGoOn
\* finds out by comparing the rows with the after images.
Clean(L) == \A c \in L, d \in Branch : <<c, d>> \in over => d \in L

\* Undo waits for the row locks it needs in the database, and for undo logs
\* of x that are not committed yet.
UndoBlocked(x, res, L) ==
  \E c \in Branch :
    /\ LocalOpen(c)
    /\ \/ \E d \in L : RowsOf[c] \cap RowsOf[d] # {}
       \/ XidOf[c] = x /\ ResOf[c] = res /\ local[c] = "logged"

\* Mutant: the before images are not restored.
NotUndone(L) == writes

\* The writes left after the execution of the undo logs L.
Undone(L) == writes \ L

\* Mutant: without undo logs nothing is released.
RowsOfLogsOnly(b, L) == UNION {RowsOf[c] : c \in L}

\* The rows branchRollback releases after an Undo that found the logs L: those
\* of the logs, or the LockKey of the session if there was no log.
RowsToRelease(b, L) ==
  IF L = {} THEN RowsOf[b] ELSE UNION {RowsOf[c] : c \in L}

\* Undo in one database transaction, or the cancel request of a TCC branch.
Rollback(b, L) ==
  /\ IF AT(b)
       THEN /\ ~UndoBlocked(XidOf[b], ResOf[b], L)
            /\ Clean(L)
            /\ undo' = undo \ L
            /\ writes' = Undone(L)
            /\ over' = {p \in over : p[1] \notin L /\ p[2] \notin L}
       ELSE UNCHANGED <<undo, writes, over>>
  /\ Executed(b, "rollback")

BranchRollback ==
  LET L == UndoLogs(XidOf[bw.b], ResOf[bw.b])
  IN  /\ bw.pc = "work"
      /\ bw.st = "PhaseTwoRollbacking"
      /\ Rollback(bw.b, L)
      /\ bw' = [bw EXCEPT !.pc = "release",
                          !.logs = L # {},
                          !.rows = IF AT(bw.b) THEN RowsToRelease(bw.b, L)
                                               ELSE {}]
      /\ UNCHANGED <<vars, phaseOne, expired, timer, gq, queue, lead>>

\* An item that was not completed goes back to the queue.
Requeue ==
  /\ queue' = queue \cup {[b |-> bw.b, st |-> bw.st, by |-> bw.by]}
  /\ bw' = NoWork

\* What branchRollback does with the lock keys of a failed Undo.
ReleaseUndone(S) ==
  IF S = {} THEN UNCHANGED vars
            ELSE ReleaseLockKeys(BQ, RowsToRelease(bw.b, S))

\* A failed phase two.  Undo may have executed the logs S when one fails, or
\* when it cannot delete them: the database rolls everything back, but the
\* lock keys of S are returned, and released.
PhaseTwoFails ==
  LET L == UndoLogs(XidOf[bw.b], ResOf[bw.b])
      rollback == bw.st = "PhaseTwoRollbacking" /\ AT(bw.b)
  IN  /\ bw.pc = "work"
      /\ \/ Faults \cap {"dbError", "undoError"} # {}
         \/ rollback /\ ~Clean(L)
      /\ \E S \in SUBSET L :
           /\ S # {} => /\ rollback
                        /\ "undoError" \in Faults \/ (~Clean(L) /\ S # L)
           /\ ReleaseUndone(S)
      /\ Requeue
      /\ UNCHANGED <<phaseOne, database, expired, timer, gq, lead>>

\* The transaction of Undo commits and its answer is lost.
UndoAnswerLost ==
  LET L == UndoLogs(XidOf[bw.b], ResOf[bw.b])
  IN  /\ "undoError" \in Faults
      /\ bw.pc = "work"
      /\ bw.st = "PhaseTwoRollbacking"
      /\ AT(bw.b)
      /\ Rollback(bw.b, L)
      /\ ReleaseUndone(L)
      /\ Requeue
      /\ UNCHANGED <<phaseOne, expired, timer, gq, lead>>

\* ReleaseLockKeys after Undo, then DeleteBranchSession.
BranchRelease ==
  /\ bw.pc = "release"
  /\ IF bw.rows = {} THEN UNCHANGED vars ELSE ReleaseLockKeys(BQ, bw.rows)
  /\ bw' = [bw EXCEPT !.pc = "delete", !.rows = {}]
  /\ UNCHANGED <<phaseOne, database, expired, timer, gq, queue, lead>>

\* Mutant: a completed item goes back to the queue as well.
BranchDeleteRequeues ==
  /\ bw.pc = "delete"
  /\ thread[BQ] = Idle
  /\ \/ DeleteBranchSession(BQ, bw.b)
     \/ ~Exists(bw.b) /\ UNCHANGED vars
  /\ Requeue
  /\ UNCHANGED <<phaseOne, database, expired, timer, gq, lead>>

BranchDelete ==
  /\ bw.pc = "delete"
  /\ thread[BQ] = Idle
  /\ \/ DeleteBranchSession(BQ, bw.b)
     \/ ~Exists(bw.b) /\ UNCHANGED vars
  /\ bw' = NoWork
  /\ UNCHANGED <<phaseOne, database, expired, timer, gq, queue, lead>>

\* A rollback that is given up: its rows are unlocked if so configured.
DeadUnlock ==
  /\ bw.pc = "unlock"
  /\ IF Unlock /\ AT(bw.b) THEN ReleaseLockKeys(BQ, RowsOf[bw.b])
                           ELSE UNCHANGED vars
  /\ bw' = [bw EXCEPT !.pc = "dead"]
  /\ UNCHANGED <<phaseOne, database, expired, timer, gq, queue, lead>>

DeadBranch ==
  /\ bw.pc = "dead"
  /\ thread[BQ] = Idle
  /\ \/ SetBranchSessionDead(bw.b)
     \/ "etcdError" \in Faults /\ Working /\ UNCHANGED vars
  /\ bw' = NoWork
  /\ UNCHANGED <<phaseOne, database, expired, timer, gq, queue, lead>>
---------------------------------------------------------------------------
(***************************************************************************)
(* The leader: crash, election, recovery, watch                            *)
(***************************************************************************)
\* The process of the leader dies, with its queues and calls.
LeaderDies ==
  /\ lead' = Down
  /\ queue' = {}
  /\ timer' = [x \in XID |-> "off"]
  /\ gq' = NoTimer
  /\ bw' = NoWork
  /\ UNCHANGED <<phaseOne, database, expired>>

\* A crash at any time, or a request of the recovery that fails: log.Fatal.
Crash ==
  /\ \/ "crash" \in Faults
     \/ "etcdError" \in Faults /\ lead.st \in {"global", "branch"}
     \/ /\ "lateCrash" \in Faults
        /\ \A x \in XID : client[x] # "active" /\ thread[x] = Idle
  /\ lead.st # "down"
  /\ CallsFail({GQ, BQ})
  /\ LeaderDies

\* Mutant: only sessions that have timed out are queued.
TimerIfExpired(x) == IF gs[x] = "Begin" /\ x \in expired THEN "due" ELSE "off"

\* The item the recovery queues for x.
RecoveredTimer(x) == IF gs[x] = "Begin" THEN "due" ELSE "off"

\* LeaderElection and the ListGlobalSession of processGlobalSessions.  Every
\* session in status Begin is queued; the delay that is left, a number of
\* milliseconds, is used as nanoseconds, so the item is due at once.
Elect ==
  /\ lead.st = "down"
  /\ lead' = [Down EXCEPT
                !.st = "global",
                !.sessions = [x : {x \in XID : gs[x] = "Begin"},
                              pc : {"rollback"}]
                        \cup [x : {x \in XID : gs[x] \in {"Committing",
                                                          "Rollbacking"}},
                              pc : {"keys"}]]
  /\ timer' = [x \in XID |-> RecoveredTimer(x)]
  /\ UNCHANGED <<vars, phaseOne, database, expired, gq, queue, bw>>

\* A session that was Begin in the list is rolled back if it has timed out by
\* now; the error of a rollback that finds it committed or deleted is fatal.
RecoverRollback(x) ==
  LET s == [x |-> x, pc |-> "rollback"]
  IN  /\ s \in lead.sessions
      /\ thread[GQ] = Idle
      /\ \/ /\ \/ x \in expired /\ GlobalRollback(GQ, x)
               \/ /\ x \in expired => gs[x] = "Rollbacking"
                  /\ UNCHANGED vars
            /\ lead' = [lead EXCEPT !.sessions = @ \ {s}]
            /\ UNCHANGED <<phaseOne, database, expired, timer, gq, queue, bw>>
         \/ /\ x \in expired
            /\ gs[x] \in {"Committing", "Gone"}
            /\ LeaderDies
            /\ UNCHANGED vars

RecoverKeys(x) ==
  LET s == [x |-> x, pc |-> "keys"]
  IN  /\ s \in lead.sessions
      /\ thread[GQ] = Idle
      /\ lead' = [lead EXCEPT !.sessions =
                    (@ \ {s}) \cup IF Keys(x) = {}
                                    THEN {[s EXCEPT !.pc = "delete"]} ELSE {}]
      /\ UNCHANGED <<vars, phaseOne, database, expired, timer, gq, queue, bw>>

RecoverDelete(x) ==
  LET s == [x |-> x, pc |-> "delete"]
  IN  /\ s \in lead.sessions
      /\ thread[GQ] = Idle
      /\ \/ DeleteGlobalSession(x)
         \/ gs[x] = "Gone" /\ UNCHANGED vars
      /\ lead' = [lead EXCEPT !.sessions = @ \ {s}]
      /\ UNCHANGED <<phaseOne, database, expired, timer, gq, queue, bw>>

\* ListBranchSession of processBranchSessions: the branches in phase two are
\* queued, the others that need a request are handled one by one.  The watch
\* will start at the revision of this list, so what is written from now on
\* is replayed.
RecoverBranches ==
  /\ lead.st = "global"
  /\ lead.sessions = {}
  /\ thread[GQ] = Idle
  /\ \E D \in SUBSET {b \in Branch : bs[b] = "PhaseTwoRollbacking"} :
       /\ D # {} => "dead" \in Faults
       /\ queue' = {[b |-> b, st |-> bs[b], by |-> None] :
                      b \in {c \in Branch \ D : InPhaseTwo(c)}}
       /\ lead' = [lead EXCEPT
                     !.st = "branch",
                     !.branches =
                       [b : {b \in Branch : bs[b] = "PhaseOneFailed"},
                        pc : {"delete"}]
                       \cup [b : D, pc : {"unlock"}]]
  /\ UNCHANGED <<vars, phaseOne, database, expired, timer, gq, bw>>

RecoverBranch(e) ==
  /\ lead.st = "branch"
  /\ e \in lead.branches
  /\ bw = NoWork
  /\ thread[BQ] = Idle
  /\ lead' = [lead EXCEPT !.branches = @ \ {e}]
  /\ bw' = [NoWork EXCEPT !.pc = e.pc, !.b = e.b]
  /\ UNCHANGED <<vars, phaseOne, database, expired, timer, gq, queue>>

\* The HTTP API lists the dead branches: ListDeadBranchSession overwrites the
\* revision the watch will start at.
ListDeadBranchSession ==
  /\ "listDead" \in Faults
  /\ lead.st = "branch"
  /\ lead.replay # {}
  /\ lead' = [lead EXCEPT !.replay = {}]
  /\ UNCHANGED <<vars, phaseOne, database, expired, timer, gq, queue, bw>>

\* Mutant: the watch starts at the current revision.
WatchFromNow ==
  /\ lead.st = "branch"
  /\ lead.branches = {}
  /\ bw = NoWork
  /\ thread[BQ] = Idle
  /\ lead' = Elected
  /\ UNCHANGED <<vars, phaseOne, database, expired, timer, gq, queue, bw>>

WatchBranchSessions ==
  /\ lead.st = "branch"
  /\ lead.branches = {}
  /\ bw = NoWork
  /\ thread[BQ] = Idle
  /\ lead' = Elected
  /\ queue' = queue \cup lead.replay
  /\ UNCHANGED <<vars, phaseOne, database, expired, timer, gq, bw>>

\* startWatching returns on an error without a word to anyone.
WatchBreaks ==
  /\ "watchError" \in Faults
  /\ lead.st = "watching"
  /\ lead' = [lead EXCEPT !.st = "deaf"]
  /\ UNCHANGED <<vars, phaseOne, database, expired, timer, gq, queue, bw>>

---------------------------------------------------------------------------
(***************************************************************************)
(* The requests of calls in progress                                       *)
(***************************************************************************)
\* Mutant: updates are dropped like creations and deletions.
NoUpdates(t) == {}

\* An etcd event is handed to the queue if it updates an existing key.
Updates(t) == {[b |-> b, st |-> PhaseTwo(thread[t].to), by |-> t] :
                 b \in {c \in thread[t].puts : Exists(c)}}

\* The last request of a decision, and the watch of the leader that sees it.
Decide(t) ==
  /\ DecideTxn(t)
  /\ queue' = IF lead.st = "watching" THEN queue \cup Updates(t) ELSE queue
  /\ lead' = IF lead.st = "branch"
               THEN [lead EXCEPT !.replay = @ \cup Updates(t)] ELSE lead
  /\ UNCHANGED <<phaseOne, database, expired, timer, gq, bw>>

\* A rollback of the recovery that finds a branch deleted is fatal.
Fatal(t) == t = GQ /\ lead.st = "global" /\ thread'[t] = Idle

Driver(t) ==
  /\ Request(t)
  /\ IF Fatal(t) THEN LeaderDies ELSE UNCHANGED <<phaseOne, database, leading>>

\* A request of a call in progress fails.  A registration that fails aborts
\* its branch.  The branch worker goes on after it failed to release locks,
\* unless they came from the session itself; during the recovery every
\* failure is fatal.
DriverFails(t) ==
  /\ "etcdError" \in Faults
  /\ thread[t] # Idle
  /\ CallsFail({t})
  /\ IF t \in {GQ, BQ} /\ ~Working
       THEN LeaderDies
       ELSE /\ local' = IF t \in Branch /\ thread[t].pc = "filterRowKeys"
                          THEN [local EXCEPT ![t] = "aborted"] ELSE local
            /\ IF t = BQ /\ bw.pc = "delete" /\ ~bw.logs
                 THEN Requeue
                 ELSE UNCHANGED <<queue, bw>>
            /\ UNCHANGED <<client, database, expired, timer, gq, lead>>

\* The first request of DeleteBranchSession fails: it dereferences the nil
\* response, and nothing recovers the panic of the worker.
DeletePanics ==
  /\ "etcdError" \in Faults
  /\ bw.pc = "delete"
  /\ thread[BQ] = Idle
  /\ CallsFail({GQ})
  /\ LeaderDies

---------------------------------------------------------------------------
PhaseOne(b) ==
  \/ BranchStart(b)
  \/ BranchRegister(b)
  \/ BranchRegistered(b)
  \/ InsertUndoLog(b)
  \/ LocalCommit(b)
  \/ LocalAbort(b)
  \/ TryFails(b)

ClientEnds(x) == ClientCommit(x) \/ ClientRollback(x) \/ ClientVanishes(x)

Client(x) == GlobalBegin(x) \/ ClientEnds(x) \/ Tick(x)

Timeout == TimeoutRollback \/ TimeoutRequeue \/ TimeoutKeys \/ TimeoutDelete

PhaseTwoWork ==
  \/ BranchCommit
  \/ BranchRollback
  \/ PhaseTwoFails
  \/ UndoAnswerLost
  \/ BranchRelease
  \/ BranchDelete
  \/ DeadUnlock
  \/ DeadBranch

Recovery ==
  \/ Elect
  \/ \E x \in XID : RecoverRollback(x) \/ RecoverKeys(x) \/ RecoverDelete(x)
  \/ RecoverBranches
  \/ \E e \in lead.branches : RecoverBranch(e)
  \/ WatchBranchSessions

TMNext ==
  \/ \E b \in Branch : PhaseOne(b)
  \/ \E x \in XID : Client(x) \/ NextGlobalSession(x)
  \/ \E i \in queue : NextBranchSession(i)
  \/ \E t \in Thread : Driver(t) \/ Decide(t) \/ DriverFails(t)
  \/ Timeout
  \/ PhaseTwoWork
  \/ Recovery
  \/ Crash
  \/ DeletePanics
  \/ ListDeadBranchSession
  \/ WatchBreaks

TMSpec == TMInit /\ [][TMNext]_tmVars

\* What the program and the databases go on doing: requests are answered, a
\* local transaction that was started ends, time passes, and the workers of
\* the leader take their queues in turn.  A client ends its transaction or
\* disappears.
Fairness ==
  /\ \A t \in Thread : WF_tmVars(Driver(t) \/ Decide(t))
  /\ \A b \in Branch : WF_tmVars(PhaseOne(b) /\ local[b] # "none")
  /\ \A x \in XID : /\ WF_tmVars(ClientEnds(x))
                    /\ WF_tmVars(Tick(x))
                    /\ WF_tmVars(NextGlobalSession(x))
  /\ \A b \in Branch :
       SF_tmVars(\E i \in queue : i.b = b /\ NextBranchSession(i))
  /\ WF_tmVars(Timeout)
  /\ WF_tmVars(PhaseTwoWork)
  /\ WF_tmVars(Recovery)

FairSpec == TMSpec /\ Fairness

---------------------------------------------------------------------------
(***************************************************************************)
(* Properties                                                              *)
(***************************************************************************)
\* The types of the variables this module adds to those of EtcdStore.
SystemTypeOK ==
  /\ client \in [XID -> {"idle", "active", "done"}]
  /\ local \in [Branch -> {"none", "open", "registered", "logged",
                          "committed", "aborted"}]
  /\ undo \in SUBSET Branch
  /\ writes \in SUBSET Branch
  /\ over \in SUBSET (Branch \X Branch)
  /\ second \in SUBSET (Branch \X {"commit", "rollback"})
  /\ expired \in SUBSET XID
  /\ timer \in [XID -> {"off", "waiting", "due"}]
  /\ gq \in [pc : {"idle", "rollback", "requeue", "keys", "delete"},
            x : XID \cup {None}]
  /\ queue \in SUBSET Item
  /\ bw \in [pc : {"idle", "work", "release", "delete", "unlock", "dead"},
            b : Branch \cup {None},
            st : {"Begin", "PhaseTwoCommitting", "PhaseTwoRollbacking"},
            by : Thread \cup {None}, rows : SUBSET Row, logs : BOOLEAN]
  /\ lead \in [st : {"down", "global", "branch", "watching", "deaf"},
              sessions : SUBSET [x : XID, pc : {"rollback", "keys", "delete"}],
              branches : SUBSET [b : Branch, pc : {"delete", "unlock"}],
              replay : SUBSET Item]

\* Type invariant of the whole system.
TMTypeOK == TypeOK /\ SystemTypeOK

\* The transaction manager implements GlobalTransaction: decisions are final,
\* phase two executes the recorded decision on every branch and no other, and
\* a global session is deleted only after its branches.
GT == INSTANCE GlobalTransaction WITH
        status <- gs,
        part   <- [b \in Branch |->
                     IF bs[b] = "Unborn" THEN "none"
                     ELSE IF bs[b] \in {"PhaseOneFailed", "Gone"} THEN "ended"
                     ELSE "enlisted"],
        result <- second

ImplementsGlobalTransaction == GT!GTSpec

\* Once the decision is recorded no branch is left Registered: the list of
\* branches a decision works on is complete, and phase two will see them all.
NoOrphan ==
  \A b \in Branch : gs[XidOf[b]] \in {"Committing", "Rollbacking"}
                        => bs[b] # "Registered"

\* A global session is deleted only when all its branches are.
DeletedLast ==
  \A b \in Branch : gs[XidOf[b]] = "Gone" => ~Exists(b)

\* No work is lost: from the moment the new leader has listed the branches,
\* every branch in phase two is in its queue, among the events the watch will
\* replay, or in the hands of the worker.
PhaseTwoIsQueued ==
  lead.st \in {"branch", "watching"} =>
    \A b \in Branch : InPhaseTwo(b) =>
      b \in {bw.b} \cup {i.b : i \in queue \cup lead.replay}
              \cup {e.b : e \in lead.branches}

\* Some call of GlobalCommit(x) has begun to release the locks of x.
CommitCalled(x) ==
  \/ gs[x] = "Committing"
  \/ \E t \in Thread : thread[t].x = x /\ thread[t].to = "Committing"

\* Isolation: a row that contains a write of a global transaction which may
\* still be rolled back is locked by that transaction.
WritesAreLocked ==
  \A b \in writes : \A r \in RowsOf[b] :
    gs[XidOf[b]] \in {"Begin", "Rollbacking"} /\ ~CommitCalled(XidOf[b])
      => rowKey[r] = XidOf[b]

\* A rolled back branch has left nothing behind, neither a write nor an undo
\* log.
RollbackUndoes ==
  \A b \in Branch : <<b, "rollback">> \in second /\ bs[b] = "Gone"
     => b \notin undo /\ b \notin writes

\* "Branch session phase one rollbacked": an AT branch for which the rollback
\* finds no undo log has rolled back its local transaction, so that its lock
\* may be released and its session deleted.  (The transaction may still be
\* open when a timeout decides; it then commits a write nobody will undo.)
NoLogMeansAborted ==
  bw.pc = "release" /\ bw.st = "PhaseTwoRollbacking" /\ AT(bw.b) /\ ~bw.logs
    => local[bw.b] = "aborted"

\* A locked row has somebody who will unlock it: a branch of the owner that
\* is not deleted (or was given up, and is listed as dead), or a commit that
\* is releasing it.
LocksHaveReleasers ==
  \A r \in Row, x \in XID : rowKey[r] = x =>
    \/ \E b \in BranchesOf(x) : r \in RowsOf[b] /\ (Exists(b) \/ b \in deadKey)
    \/ \E t \in Thread : thread[t].x = x /\ r \in thread[t].rows

\* The worker that rolls back a branch only ever releases rows its own global
\* transaction has locked, although ReleaseLockKeys does not look at owners.
ReleasesOwnLocks ==
  [][\A r \in Row : ReleaseRow(BQ, r) /\ bw.b # None
                      => rowKey[r] \in {None, XidOf[bw.b]}]_tmVars

\* The leader never forgets the timeout of an undecided global transaction.
TimeoutIsArmed ==
  Working => \A x \in XID : gs[x] = "Begin" => timer[x] # "off" \/ gq.x = x

\* Phase two completes: the branches of a decided transaction are deleted.
PhaseTwoCompletes ==
  \A b \in Branch :
    gs[XidOf[b]] \in {"Committing", "Rollbacking"} ~> ~Exists(b)

\* Every global transaction is decided, by its client or by its timeout.
EventuallyDecided == \A x \in XID : gs[x] = "Begin" ~> gs[x] # "Begin"

\* No lock is held forever.
LocksAreReleased ==
  \A r \in Row, x \in XID : rowKey[r] = x ~> rowKey[r] # x
=============================================================================

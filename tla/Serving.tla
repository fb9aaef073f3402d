------------------------------ MODULE Serving ------------------------------
(* How the statements of one connection are served by the sharding and the *)
(* read/write splitting executors: the circuit breaker in front of them,   *)
(* the choice of a master or a slave of a database group, the pings that   *)
(* decide which databases are running, and transactions whose children in  *)
(* several groups are begun as needed and committed concurrently.          *)
(*                                                                         *)
(* The connection is the one accepted last, so that the id its handler     *)
(* ends with is its own (module LocalTransactions has the other case).     *)
(* Other connections are seen through the breaker only.  A statement       *)
(* outside a transaction holds its backend connection only while it runs   *)
(* and is one step.  Writes outside a transaction go to one group (several *)
(* groups are the subject of ShardedQuery).                                *)
EXTENDS Integers, Sequences, FiniteSets

CONSTANTS
  Group, DB,
  Configs,                         \* configurations, one of which is served
  ReadWeight, WriteWeight,         \* weights of the databases
  ErrorThreshold, SuccessThreshold,
  MaxOthers,                       \* statements of others in flight
  None

ASSUME ServingAssumption ==
  /\ IsFiniteSet(Group) /\ None \notin DB
  /\ {ErrorThreshold, SuccessThreshold} \subseteq Nat \ {0}
  /\ \A c \in Configs :
       /\ c.mode \in {"SHD", "RWS"} /\ c.times \in Nat \ {0}
       /\ c.algorithm \in {"Random", "RoundRobin", "RandomWeight"}
       /\ c.capacity \in Nat \ {0}  \* of each connection pool
       /\ c.changes \in Nat      \* bound: times a server goes away or comes back
       /\ c.modulus \in Nat \ {0}  \* bound: a multiple of the lengths of the lists
       /\ c.masters \in [Group -> Seq(DB)] /\ c.slaves \in [Group -> Seq(DB)]
       \* read/write splitting serves the group that has masters
       /\ c.mode = "RWS" => \E g \in Group : c.masters[g] # <<>>
  /\ {ReadWeight, WriteWeight} \subseteq [DB -> Nat]

VARIABLES
  config,                       \* the configuration
  status, pingCount,            \* of each database, as the proxy sees it
  up, changes,                  \* whether each server answers
  bad,                          \* pings of each database that failed in a row
  counter,                      \* readCounter and writeCounter of each group
  free,                         \* connections in the pool of each database
  breaker, others,              \* the filter; statements of others in flight
  pc, req,                      \* the handler and its statement
  inTx, child,                  \* localTransactionMap; the children, by group
  fate,                         \* what became of the children at the servers
  wrote,                        \* groups the transaction has written to
  leaked,                       \* connections whose transaction was overwritten
  answer                        \* the last answer to the client

dbVars  == <<status, pingCount, bad>>
envVars == <<up, changes>>
txVars  == <<inTx, child, fate>>
vars == <<config, dbVars, envVars, counter, free, breaker, others, pc, req,
          txVars, wrote, leaked, answer>>

NoChild == [g \in Group |-> None]
NoFate  == [g \in Group |-> "none"]
Closed  == [state |-> "closed", errors |-> 0, successes |-> 0,
            old |-> FALSE, timers |-> 0]
NoReq   == [op |-> "none", groups |-> {}, todo |-> {}, err |-> FALSE,
            picked |-> 0]
Used    == UNION {{config.masters[g][i] : i \in DOMAIN config.masters[g]} \cup
                  {config.slaves[g][i] : i \in DOMAIN config.slaves[g]} : g \in Group}

Init ==
  /\ config \in Configs
  /\ status = [d \in DB |-> "Running"]
  /\ pingCount = [d \in DB |-> 0]
  /\ up = [d \in DB |-> TRUE]
  /\ changes = 0
  /\ bad = [d \in DB |-> 0]
  /\ counter = [g \in Group |-> [read |-> 0, write |-> 0]]
  /\ free = [d \in DB |-> config.capacity]
  /\ breaker = Closed
  /\ others = 0
  /\ pc = "idle"
  /\ req = NoReq
  /\ inTx = FALSE
  /\ child = NoChild
  /\ fate = NoFate
  /\ wrote = {}
  /\ leaked = [d \in DB |-> 0]
  /\ answer = <<"none", "ok">>

-----------------------------------------------------------------------------
(* The servers and the pings.                                              *)

ServerDown(d) ==
  /\ up[d] /\ d \in Used /\ changes < config.changes
  /\ up' = [up EXCEPT ![d] = FALSE]
  /\ changes' = changes + 1
  /\ fate' = [g \in Group |-> IF child[g] = d /\ fate[g] = "open" THEN "lost" ELSE fate[g]]
  /\ UNCHANGED <<config, leaked, dbVars, counter, free, breaker, others, pc, req,
                 inTx, child, wrote, answer>>

ServerUp(d) ==
  /\ ~up[d] /\ changes < config.changes
  /\ up' = [up EXCEPT ![d] = TRUE]
  /\ changes' = changes + 1
  /\ UNCHANGED <<config, leaked, dbVars, counter, free, breaker, others, pc, req,
                 txVars, wrote, answer>>

\* A failing ping counts towards the change of a running database, a
\* successful one against it; for a database that is not running the other
\* way round.
Counted(d) == pingCount[d] + (IF (status[d] = "Running") = up[d] THEN -1 ELSE 1)

\* At a multiple of times the count starts again, and the status changes if
\* the count was positive.  (In Go, n % times is zero exactly when it is
\* zero in TLA+.)
ChangesStatus(n) == n % config.times = 0 /\ n > 0

\* Mutant: the count starts again only when the status changes.
PingCountKept(d) == IF ChangesStatus(Counted(d)) THEN 0 ELSE Counted(d)

PingCount(d) ==
  IF Counted(d) % config.times = 0 THEN 0 ELSE Counted(d)

\* A ping waits for a connection of the pool.
Ping(d) ==
  /\ d \in Used /\ free[d] > 0
  /\ pingCount' = [pingCount EXCEPT ![d] = PingCount(d)]
  /\ status' = [status EXCEPT ![d] =
       IF ~ChangesStatus(Counted(d)) THEN @
       ELSE IF @ = "Running" THEN "Unknown" ELSE "Running"]
  /\ bad' = [bad EXCEPT ![d] = IF up[d] THEN 0
                               ELSE IF @ < 2 * config.times - 1 THEN @ + 1 ELSE @]
  /\ UNCHANGED <<config, leaked, envVars, counter, free, breaker, others, pc, req,
                 txVars, wrote, answer>>

-----------------------------------------------------------------------------
(* The circuit breaker.                                                    *)

changeState(state, timers) ==
  [state |-> state, errors |-> 0, successes |-> 0, old |-> FALSE, timers |-> timers]

OpenBreaker(b) == changeState("open", b.timers + 1)

\* Errors whose last one is older than the timeout are forgotten.
Errors(b) == IF b.old THEN 0 ELSE b.errors

\* Mutant: an error opens the breaker in every state but closed.
PostErrorAnywhere(b) ==
  IF b.state # "closed" \/ Errors(b) + 1 = ErrorThreshold THEN OpenBreaker(b)
  ELSE [b EXCEPT !.errors = Errors(b) + 1, !.old = FALSE]

PostError(b) ==
  CASE b.state = "closed" ->
         IF Errors(b) + 1 = ErrorThreshold THEN OpenBreaker(b)
         ELSE [b EXCEPT !.errors = Errors(b) + 1, !.old = FALSE]
    [] b.state = "halfOpen" -> OpenBreaker(b)
    [] b.state = "open" -> [b EXCEPT !.errors = Errors(b)]

PostSuccess(b) ==
  IF b.state # "halfOpen" THEN b
  ELSE IF b.successes + 1 = SuccessThreshold THEN changeState("closed", b.timers)
  ELSE [b EXCEPT !.successes = @ + 1]

PostHandle(b, err) ==
  IF ~config.breaker THEN b ELSE IF err THEN PostError(b) ELSE PostSuccess(b)

Timer ==
  /\ breaker.timers > 0
  /\ breaker' = changeState("halfOpen", breaker.timers - 1)
  /\ UNCHANGED <<config, leaked, dbVars, envVars, counter, free, others, pc, req,
                 txVars, wrote, answer>>

ErrorsAge ==
  /\ breaker.errors > 0 /\ ~breaker.old
  /\ breaker' = [breaker EXCEPT !.old = TRUE]
  /\ UNCHANGED <<config, leaked, dbVars, envVars, counter, free, others, pc, req,
                 txVars, wrote, answer>>

OtherPreHandle ==
  /\ config.breaker /\ breaker.state # "open" /\ others < MaxOthers
  /\ others' = others + 1
  /\ UNCHANGED <<config, leaked, dbVars, envVars, counter, free, breaker, pc, req,
                 txVars, wrote, answer>>

OtherPostHandle(err) ==
  /\ others > 0
  /\ others' = others - 1
  /\ breaker' = PostHandle(breaker, err)
  /\ UNCHANGED <<config, leaked, dbVars, envVars, counter, free, pc, req,
                 txVars, wrote, answer>>

-----------------------------------------------------------------------------
(* The choice of a database.  Panic is an index out of range, a division   *)
(* by zero, Intn(0) or a nil database.                                     *)

Panic == "panic"

ASSUME PanicAssumption == Panic \notin DB

IsRunning(d) == status[d] = "Running"

\* The running databases of a list are known by their positions in it.
Available(list) == {i \in DOMAIN list : IsRunning(list[i])}
getAvailableMasters(g) == Available(config.masters[g])
getAvailableSlaves(g)  == Available(config.slaves[g])
Elements(list, A) == {list[i] : i \in A}
Masters(g) == Elements(config.masters[g], getAvailableMasters(g))
Slaves(g)  == Elements(config.slaves[g], getAvailableSlaves(g))

\* The database with this index among the running ones of a list.
At(list, index) ==
  LET A == Available(list)
      I == {i \in A : Cardinality({h \in A : h < i}) = index}
  IN  IF I = {} THEN {Panic} ELSE Elements(list, I)

Weighted(dbs, weight) ==
  LET W == {d \in dbs : weight[d] > 0}
  IN  IF W = {} THEN {Panic} ELSE W

MasterOf(g) ==
  LET n == Cardinality(getAvailableMasters(g))
  IN  CASE n = 0 -> {Panic}
        [] n = 1 \/ config.algorithm = "Random" -> Masters(g)
        [] n > 1 /\ config.algorithm = "RoundRobin" ->
             At(config.masters[g], counter[g].write % n)
        [] n > 1 /\ config.algorithm = "RandomWeight" -> Weighted(Masters(g), WriteWeight)

randomWeight(g) ==
  IF Cardinality(getAvailableMasters(g)) + Cardinality(getAvailableSlaves(g)) = 1
  THEN At(config.slaves[g], 0)
  ELSE Weighted(Masters(g) \cup Slaves(g), ReadWeight)

\* Mutant: reads do not fall back to the masters.
SlaveOnly(g) == IF Slaves(g) = {} THEN {Panic} ELSE Slaves(g)

\* The index of a slave is taken modulo the number of all masters.
SlaveOf(g) ==
  LET n == Cardinality(getAvailableSlaves(g))
  IN  CASE config.algorithm = "RandomWeight" -> randomWeight(g)
        [] OTHER ->
             IF n = 0 THEN MasterOf(g)
             ELSE IF n = 1 \/ config.algorithm = "Random" THEN Slaves(g)
             ELSE IF config.masters[g] = <<>> THEN {Panic}
             ELSE At(config.slaves[g], counter[g].read % Len(config.masters[g]))

\* Only the read/write splitting executor asks for a slave.
FromSlave == config.mode = "RWS" /\ req.op = "read"
Pick(g) == IF FromSlave THEN SlaveOf(g) ELSE MasterOf(g)

\* A counter moves when its list has several running databases.
Counters(g) ==
  LET toSlave == FromSlave /\ getAvailableSlaves(g) # {}
      running == IF toSlave THEN getAvailableSlaves(g) ELSE getAvailableMasters(g)
      which == IF toSlave THEN "read" ELSE "write"
  IN  IF config.algorithm # "RoundRobin" \/ Cardinality(running) < 2 THEN counter
      ELSE [counter EXCEPT ![g][which] = (@ + 1) % config.modulus]

-----------------------------------------------------------------------------
(* A statement.                                                            *)

Children == {g \in Group : child[g] # None}
Groups(op) ==
  CASE op \in {"begin", "commit", "rollback", "rollbackTo"} -> {{}}
    [] config.mode = "RWS" -> {{CHOOSE g \in Group : config.masters[g] # <<>>}}
    [] op = "write" /\ ~inTx -> {{g} : g \in Group}
    [] OTHER -> SUBSET Group \ {{}}

Ends(op) == op \in {"commit", "rollback"} \/ (op = "rollbackTo" /\ config.mode = "SHD")

\* What is left to do for a statement, group by group.
Todo(op, groups) ==
  CASE op = "begin" -> IF config.mode = "SHD" THEN {}
                       ELSE {CHOOSE g \in Group : config.masters[g] # <<>>}
    [] op \in {"commit", "rollback", "rollbackTo"} -> Children
    [] OTHER -> groups

NeedsTx(op) == op \in {"commit", "rollback", "rollbackTo"}

PreHandle(op) ==
  /\ pc = "idle"
  /\ IF breaker.state = "open"
     THEN /\ answer' = <<op, "refused">>
          /\ UNCHANGED <<pc, req>>
     ELSE /\ \E G \in Groups(op) :
               req' = [op |-> op, groups |-> G, todo |-> Todo(op, G),
                       err |-> NeedsTx(op) /\ ~inTx, picked |-> 0]
          /\ pc' = "run"
          /\ answer' = <<op, "pending">>
  /\ IF ~inTx THEN wrote' = {} /\ fate' = NoFate
     ELSE UNCHANGED <<wrote, fate>>
  /\ UNCHANGED <<config, leaked, dbVars, envVars, counter, free, breaker, others,
                 inTx, child>>

\* One group of the statement is done.  Reads go on after an error, since
\* they run concurrently; writes stop at the first one.  The failed pings of
\* the database picked are remembered.
Done(g, ok, d) ==
  req' = [req EXCEPT !.todo = IF ~ok /\ req.op = "write" THEN {} ELSE @ \ {g},
                     !.err = @ \/ ~ok,
                     !.picked = IF d = None THEN 0 ELSE bad[d]]

\* A panic in a goroutine of a read of several groups ends the process.
Panics ==
  pc' = IF req.op = "read" /\ Cardinality(req.groups) > 1 THEN "dead" ELSE "panic"

OutsideTx(g) ==
  /\ pc = "run" /\ g \in req.todo /\ req.op \in {"read", "write"} /\ ~inTx
  /\ counter' = Counters(g)
  /\ \E d \in Pick(g) :
       \/ d = Panic /\ Panics /\ UNCHANGED req
       \/ d # Panic /\ free[d] > 0 /\ Done(g, up[d], d) /\ UNCHANGED pc
  /\ UNCHANGED <<config, leaked, dbVars, envVars, free, breaker, others, txVars,
                 wrote, answer>>

BeginsChild(g) ==
  /\ pc = "run" /\ g \in req.todo
  /\ req.op = "begin" \/ (inTx /\ child[g] = None)

\* The entry of the connection in localTransactionMap is overwritten: nobody
\* commits or rolls back the children it had, and their connections never
\* come back to the pools.
Holders(d) == {g \in Group : child[g] = d}
Store ==
  /\ leaked' = [d \in DB |-> leaked[d] + Cardinality(Holders(d))]
  /\ wrote' = {}

\* The first statement of a transaction in a group, or BEGIN of the
\* read/write splitting executor, takes a connection of the first running
\* master.
BeginChild(g) ==
  /\ BeginsChild(g)
  /\ \E d \in At(config.masters[g], 0) :
       \/ d = Panic /\ Panics /\ UNCHANGED <<req, txVars, free, wrote, leaked>>
       \/ /\ d # Panic /\ free[d] > 0
          /\ IF up[d]
             THEN /\ free' = [free EXCEPT ![d] = @ - 1]
                  /\ inTx' = TRUE
                  /\ IF req.op = "begin"
                     THEN /\ Store /\ Done(g, TRUE, d)
                          /\ child' = [NoChild EXCEPT ![g] = d]
                          /\ fate' = [NoFate EXCEPT ![g] = "open"]
                     ELSE /\ req' = [req EXCEPT !.picked = bad[d]]
                          /\ child' = [child EXCEPT ![g] = d]
                          /\ fate' = [fate EXCEPT ![g] = "open"]
                          /\ UNCHANGED <<wrote, leaked>>
             ELSE Done(g, FALSE, d) /\ UNCHANGED <<txVars, free, wrote, leaked>>
          /\ UNCHANGED pc
  /\ UNCHANGED <<config, dbVars, envVars, counter, breaker, others, answer>>

\* The goroutines of a read of several groups store their children in one
\* map; the runtime ends the process when it sees two of them at it.
MapRace ==
  /\ req.op = "read"
  /\ Cardinality({g \in Group : BeginsChild(g)}) > 1
  /\ pc' = "dead"
  /\ UNCHANGED <<config, leaked, dbVars, envVars, counter, free, breaker, others, req,
                 txVars, wrote, answer>>

\* A statement of a transaction, or ROLLBACK TO, on the connection of a child.
InTx(g) ==
  /\ pc = "run" /\ g \in req.todo /\ child[g] # None
  /\ req.op \in {"read", "write", "rollbackTo"} /\ ~Ends(req.op)
  /\ Done(g, fate[g] = "open", None)
  /\ UNCHANGED <<config, leaked, dbVars, envVars, counter, free, breaker, others, pc,
                 txVars, wrote, answer>>

\* Mutant: after an error the connection is not put back.
EndChildIfOpen(g, end) ==
  /\ fate' = [fate EXCEPT ![g] = IF @ = "open" THEN end ELSE @]
  /\ free' = [free EXCEPT ![child[g]] = IF fate[g] = "open" THEN @ + 1 ELSE @]
  /\ child' = [child EXCEPT ![g] = None]

\* A child ends and its connection goes back to the pool, whatever the
\* server answered.
EndChild(g, end) ==
  /\ fate' = [fate EXCEPT ![g] = IF @ = "open" THEN end ELSE @]
  /\ free' = [free EXCEPT ![child[g]] = @ + 1]
  /\ child' = [child EXCEPT ![g] = None]

\* Mutant: the error of a child is logged and forgotten.
CommitForgetsError(g) ==
  /\ pc = "run" /\ g \in req.todo /\ req.op = "commit" /\ inTx
  /\ EndChild(g, "committed")
  /\ req' = [req EXCEPT !.todo = @ \ {g}]
  /\ UNCHANGED <<config, leaked, dbVars, envVars, counter, breaker, others, pc, inTx,
                 wrote, answer>>

Commit(g) ==
  /\ pc = "run" /\ g \in req.todo /\ req.op = "commit" /\ inTx
  /\ EndChild(g, "committed")
  /\ req' = [req EXCEPT !.todo = @ \ {g}, !.err = @ \/ fate[g] # "open"]
  /\ UNCHANGED <<config, leaked, dbVars, envVars, counter, breaker, others, pc, inTx,
                 wrote, answer>>

\* The server goes away after it has committed and before it has answered.
CommitUnanswered(g) ==
  /\ pc = "run" /\ g \in req.todo /\ req.op = "commit" /\ inTx
  /\ fate[g] = "open" /\ changes < config.changes
  /\ changes' = changes + 1
  /\ up' = [up EXCEPT ![child[g]] = FALSE]
  /\ EndChild(g, "committed")
  /\ req' = [req EXCEPT !.todo = @ \ {g}, !.err = TRUE]
  /\ UNCHANGED <<config, leaked, dbVars, counter, breaker, others, pc, inTx,
                 wrote, answer>>

Rollback(g) ==
  /\ \/ pc = "run" /\ Ends(req.op) /\ req.op # "commit"
     \/ pc = "closing"
  /\ g \in req.todo
  /\ EndChild(g, "rolledback")
  /\ req' = [req EXCEPT !.todo = @ \ {g}, !.err = @ \/ fate[g] # "open"]
  /\ UNCHANGED <<config, leaked, dbVars, envVars, counter, breaker, others, pc, inTx,
                 wrote, answer>>

\* All groups are done: the transaction is stored or forgotten, the filters
\* see the result and the client is answered.
Finish ==
  /\ pc = "run" /\ req.todo = {}
  /\ breaker' = PostHandle(breaker, req.err)
  /\ answer' = <<req.op, IF req.err THEN "error" ELSE "ok">>
  /\ inTx' = (~Ends(req.op) /\ (inTx \/ (req.op = "begin" /\ ~req.err)))
  /\ IF req.op = "begin" /\ config.mode = "SHD"
     THEN Store /\ child' = NoChild /\ fate' = NoFate
     ELSE /\ wrote' = IF req.op = "write" /\ inTx /\ ~req.err
                      THEN wrote \cup req.groups ELSE wrote
          /\ UNCHANGED <<leaked, child, fate>>
  /\ pc' = "idle"
  /\ req' = NoReq
  /\ UNCHANGED <<config, dbVars, envVars, counter, free, others>>

\* The deferred functions of a statement that panics: the filters see no
\* error, and the handler ends with the transaction of the connection.
Recover ==
  /\ pc = "panic"
  /\ breaker' = PostHandle(breaker, FALSE)
  /\ pc' = "closing"
  /\ req' = [NoReq EXCEPT !.todo = Children]
  /\ UNCHANGED <<config, leaked, dbVars, envVars, counter, free, others, txVars, wrote,
                 answer>>

Disconnect ==
  /\ pc = "idle"
  /\ pc' = "closing"
  /\ req' = [NoReq EXCEPT !.todo = Children]
  /\ UNCHANGED <<config, leaked, dbVars, envVars, counter, free, breaker, others, txVars,
                 wrote, answer>>

ConnectionClosed ==
  /\ pc = "closing" /\ req.todo = {}
  /\ pc' = "gone"
  /\ inTx' = FALSE
  /\ req' = NoReq
  /\ UNCHANGED <<config, leaked, dbVars, envVars, counter, free, breaker, others, child,
                 fate, wrote, answer>>

Connect ==
  /\ pc = "gone"
  /\ pc' = "idle"
  /\ answer' = <<"none", "ok">>
  /\ UNCHANGED <<config, leaked, dbVars, envVars, counter, free, breaker, others, req,
                 txVars, wrote>>

Next ==
  \/ \E d \in DB : ServerDown(d) \/ ServerUp(d) \/ Ping(d)
  \/ Timer \/ ErrorsAge \/ OtherPreHandle
  \/ \E err \in BOOLEAN : OtherPostHandle(err)
  \/ \E op \in {"begin", "commit", "rollback", "rollbackTo", "read", "write"} : PreHandle(op)
  \/ \E g \in Group : \/ OutsideTx(g) \/ BeginChild(g) \/ InTx(g)
                      \/ Commit(g) \/ CommitUnanswered(g) \/ Rollback(g)
  \/ MapRace \/ Finish \/ Recover \/ Disconnect \/ ConnectionClosed \/ Connect

Spec == Init /\ [][Next]_vars

-----------------------------------------------------------------------------
(* Properties.                                                             *)

\* COMMIT over several groups is answered with OK only if every group the
\* transaction wrote to has committed, and ROLLBACK only if none has,
\* although the children end concurrently and their servers come and go.
\* (After an error some may have committed.  What was written before a
\* second BEGIN belongs to the transaction it overwrites.)
CommitIsWhole ==
  /\ answer = <<"commit", "ok">> => \A g \in wrote : fate[g] = "committed"
  /\ answer = <<"rollback", "ok">> => \A g \in Group : fate[g] # "committed"

\* When the connection has no transaction, all backend connections are back
\* in their pools: after commits and rollbacks that fail in some groups,
\* refusals by the breaker, panics and the end of the connection.  Only those
\* of a transaction that a second BEGIN has overwritten are missing.
ConnectionsComeBack ==
  pc \in {"idle", "gone"} /\ ~inTx => \A d \in DB : free[d] + leaked[d] = config.capacity

\* "Borrowed connections should be returned when not in use": with no
\* transaction on the connection every pool is full.  (A BEGIN inside a
\* transaction breaks it.)
BorrowedAreReturned ==
  pc \in {"idle", "gone"} /\ ~inTx => \A d \in DB : free[d] = config.capacity

\* No statement is sent to a database, and no transaction begun on it, when
\* its last 2 * times - 1 pings have failed, whatever the count was when
\* they began.
DeadAreAvoided == req.picked < 2 * config.times - 1

\* Exactly while the breaker is open a timer is going to half-open it:
\* answers of statements that were in flight when it opened neither leave
\* it open for ever nor start a second timer.
OpenHasTimer == breaker.timers = IF breaker.state = "open" THEN 1 ELSE 0

\* The shapes in which a choice fails although a database is running.
NoMaster(g) == getAvailableMasters(g) = {}
RoundRobinShape(g) ==
  /\ config.algorithm = "RoundRobin" /\ FromSlave
  /\ Len(config.masters[g]) > Cardinality(getAvailableSlaves(g))
  /\ Cardinality(getAvailableSlaves(g)) > 1
WeightShape(g) ==
  /\ config.algorithm = "RandomWeight"
  /\ \/ /\ FromSlave /\ getAvailableSlaves(g) = {}
        /\ Cardinality(getAvailableMasters(g)) = 1
     \/ IF FromSlave THEN \A d \in Masters(g) \cup Slaves(g) : ReadWeight[d] = 0
                     ELSE \A d \in Masters(g) : WriteWeight[d] = 0

\* A statement panics for lack of a database only if no master of a group
\* it needs is running (and, for a read of the read/write splitting
\* executor, no slave either), apart from two shapes: round robin with more
\* masters than running slaves, and a weighted choice with only a master
\* left or without weights.
PanicHasCause ==
  [][pc = "run" /\ pc' \in {"panic", "dead"} =>
       \E g \in req.groups \cup req.todo :
         \/ NoMaster(g) /\ (FromSlave /\ ~inTx => getAvailableSlaves(g) = {})
         \/ RoundRobinShape(g) \/ WeightShape(g) \/ MapRace]_vars
=============================================================================

--------------------------- MODULE ServingProofs ---------------------------
(***************************************************************************)
(* Theorems about Serving, for any configurations, groups and databases,   *)
(* any thresholds of the breaker and any pools: connections come back,     *)
(* commits over several groups are whole, an open breaker has a timer,     *)
(* dead databases are avoided, and a choice that panics has a cause.       *)
(* Only the last two depend on which database the load balancing picks.    *)
(***************************************************************************)
EXTENDS Serving, FiniteSetTheorems, TLAPS

---------------------------------------------------------------------------
(***************************************************************************)
(* The circuit breaker                                                     *)
(***************************************************************************)
BreakerOK ==
  /\ breaker = [state |-> breaker.state, errors |-> breaker.errors,
                successes |-> breaker.successes, old |-> breaker.old,
                timers |-> breaker.timers]
  /\ breaker.state \in {"closed", "open", "halfOpen"}
  /\ OpenHasTimer

\* The result of a statement opens the breaker with a timer, closes it
\* without one, or leaves both alone.
LEMMA PostHandleKeeps ==
  ASSUME BreakerOK, NEW err \in BOOLEAN, breaker' = PostHandle(breaker, err)
  PROVE  BreakerOK'
<1> USE ServingAssumption DEF BreakerOK, OpenHasTimer
<1>1. CASE ~config.breaker
  BY <1>1 DEF PostHandle
<1>2. CASE config.breaker /\ err
  <2>1. breaker' = PostError(breaker)
    BY <1>2 DEF PostHandle
  <2>3. CASE breaker' = OpenBreaker(breaker) /\ breaker.state # "open"
    BY <2>3 DEF OpenBreaker, changeState
  <2>4. CASE breaker' = [breaker EXCEPT !.errors = Errors(breaker) + 1, !.old = FALSE]
    BY <2>4
  <2>5. CASE breaker' = [breaker EXCEPT !.errors = Errors(breaker)]
    BY <2>5
  <2> QED BY <2>1, <2>3, <2>4, <2>5 DEF PostError
<1>3. CASE config.breaker /\ ~err
  <2>1. breaker' = PostSuccess(breaker)
    BY <1>3 DEF PostHandle
  <2>2. CASE breaker' = changeState("closed", breaker.timers) /\ breaker.state = "halfOpen"
    BY <2>2 DEF changeState
  <2>3. CASE breaker' = [breaker EXCEPT !.successes = breaker.successes + 1]
    BY <2>3
  <2>4. CASE breaker' = breaker
    BY <2>4
  <2> QED BY <2>1, <2>2, <2>3, <2>4 DEF PostSuccess
<1> QED
  BY <1>1, <1>2, <1>3

\* Every step keeps the timer of the breaker.
LEMMA BreakerNext == BreakerOK /\ req.err \in BOOLEAN /\ [Next]_vars => BreakerOK'
<1> SUFFICES ASSUME BreakerOK, req.err \in BOOLEAN, [Next]_vars PROVE BreakerOK'
  OBVIOUS
<1>0. ASSUME UNCHANGED breaker PROVE BreakerOK'
  BY <1>0 DEF BreakerOK, OpenHasTimer
<1>1. CASE Timer
  BY <1>1 DEF Timer, changeState, BreakerOK, OpenHasTimer
<1>2. CASE ErrorsAge
  BY <1>2 DEF ErrorsAge, BreakerOK, OpenHasTimer
<1>3. ASSUME NEW err \in BOOLEAN, OtherPostHandle(err) PROVE BreakerOK'
  BY <1>3, PostHandleKeeps DEF OtherPostHandle
<1>4. CASE Finish \/ Recover
  BY <1>4, PostHandleKeeps DEF Finish, Recover
<1>5. ASSUME NEW d \in DB, ServerDown(d) \/ ServerUp(d) \/ Ping(d) PROVE BreakerOK'
  BY <1>0, <1>5 DEF ServerDown, ServerUp, Ping
<1>6. ASSUME NEW g \in Group, \/ OutsideTx(g) \/ BeginChild(g) \/ InTx(g)
                              \/ Commit(g) \/ CommitUnanswered(g) \/ Rollback(g)
      PROVE  BreakerOK'
  BY <1>0, <1>6 DEF OutsideTx, BeginChild, InTx, Commit, CommitUnanswered, Rollback
<1>7. ASSUME NEW op, PreHandle(op) PROVE BreakerOK'
  BY <1>0, <1>7 DEF PreHandle
<1>8. CASE MapRace \/ Disconnect \/ ConnectionClosed \/ Connect \/ OtherPreHandle
  BY <1>0, <1>8 DEF MapRace, Disconnect, ConnectionClosed, Connect, OtherPreHandle
<1>9. CASE UNCHANGED vars
  BY <1>0, <1>9 DEF vars
<1> QED
  BY <1>1, <1>2, <1>3, <1>4, <1>5, <1>6, <1>7, <1>8, <1>9 DEF Next

---------------------------------------------------------------------------
(***************************************************************************)
(* Pools, children and their fates                                         *)
(***************************************************************************)
\* The variables are functions and records of the expected shape.
Formed ==
  /\ free \in [DB -> Int] /\ leaked \in [DB -> Int]
  /\ child = [g \in Group |-> child[g]]
  /\ fate = [g \in Group |-> fate[g]]
  /\ req = [op |-> req.op, groups |-> req.groups, todo |-> req.todo,
            err |-> req.err, picked |-> req.picked]
  /\ req.err \in BOOLEAN
  /\ wrote \subseteq Group

\* A connection is in its pool, held by a child, or was held by one when its
\* transaction was overwritten.
Balance ==
  \A d \in DB : free[d] + Cardinality(Holders(d)) + leaked[d] = config.capacity

\* Without a transaction there are no children.
NoStray == ~inTx => Children = {}

\* What ends a transaction still has to end all the children that are left.
Ending == pc = "closing" \/ (pc = "run" /\ Ends(req.op)) => req.todo = Children

\* BEGIN works on one group at most, and is through with it when it fails.
Beginning ==
  pc = "run" /\ req.op = "begin" =>
    /\ \A g, h \in req.todo : g = h
    /\ req.todo # {} => ~req.err

\* The client is not answered while a statement is running.
Answering == pc \in {"run", "panic", "dead"} => answer[2] = "pending"

\* A group the transaction has written to has a child, until COMMIT ends it.
Writing ==
  /\ inTx /\ pc # "closing" /\ ~(pc = "run" /\ Ends(req.op)) => wrote \subseteq Children
  /\ pc = "run" /\ ~inTx => wrote = {}
  /\ pc = "run" /\ req.op = "write" /\ inTx /\ ~req.err
       => req.groups \subseteq req.todo \cup Children
  /\ pc = "run" /\ req.op = "commit" /\ ~req.err
       => \A g \in wrote : g \in req.todo \/ fate[g] = "committed"

\* Nothing is committed but by COMMIT.
Fates ==
  (inTx \/ pc = "run") /\ ~(pc = "run" /\ req.op = "commit")
    => \A g \in Group : fate[g] # "committed"

\* A COMMIT or ROLLBACK without a transaction fails.
Failing == pc = "run" /\ NeedsTx(req.op) /\ ~inTx => req.err

ServingInv == /\ Formed /\ Balance /\ NoStray /\ Ending /\ Beginning
              /\ Answering /\ Writing /\ Fates /\ Failing /\ CommitIsWhole

\* A pool changes by one.
LEMMA PoolChanges ==
  ASSUME NEW f \in [DB -> Int], NEW m, NEW k \in Int
  PROVE  [f EXCEPT ![m] = f[m] + k] \in [DB -> Int] /\ [f EXCEPT ![m] = f[m] - k] \in [DB -> Int]
<1>1. CASE m \in DB
  BY <1>1
<1>2. CASE m \notin DB
  <2>1. [f EXCEPT ![m] = f[m] + k] = f /\ [f EXCEPT ![m] = f[m] - k] = f
    BY <1>2
  <2> QED BY <2>1
<1> QED BY <1>1, <1>2

\* The number of groups that hold a connection is a number.
LEMMA HoldersFinite ==
  ASSUME NEW d
  PROVE  IsFiniteSet(Holders(d)) /\ Cardinality(Holders(d)) \in Nat
<1>1. IsFiniteSet(Holders(d))
  BY ServingAssumption, FS_Subset DEF Holders
<1> QED BY <1>1, FS_CardinalityType

\* A child takes a connection of m.
LEMMA BalanceTaken ==
  ASSUME Formed, Balance, NEW g \in Group, NEW m, child[g] = None,
         UNCHANGED <<config, leaked>>, child' = [child EXCEPT ![g] = m],
         free' = [free EXCEPT ![m] = free[m] - 1]
  PROVE  Balance'
<1> SUFFICES ASSUME NEW d \in DB
             PROVE  free'[d] + Cardinality(Holders(d)') + leaked[d] = config.capacity
  BY DEF Balance, Holders
<1>0. /\ free[d] \in Int /\ leaked[d] \in Int
      /\ free[d] + Cardinality(Holders(d)) + leaked[d] = config.capacity
      /\ free \in [DB -> Int]
  BY DEF Formed, Balance
<1>1. g \notin Holders(d)
  BY ServingAssumption DEF Holders
<1>2. CASE d = m
  <2>1. Holders(d)' = Holders(d) \cup {g}
    BY <1>2 DEF Holders, Formed
  <2>2. Cardinality(Holders(d)') = Cardinality(Holders(d)) + 1
    BY <1>1, <2>1, HoldersFinite, FS_AddElement
  <2>3. free'[d] = free[d] - 1
    BY <1>0, <1>2
  <2> QED BY <1>0, <2>2, <2>3, HoldersFinite
<1>3. CASE d # m
  <2>1. Holders(d)' = Holders(d)
    BY <1>1, <1>3 DEF Holders, Formed
  <2>2. free'[d] = free[d]
    BY <1>0, <1>3
  <2> QED BY <1>0, <2>1, <2>2
<1> QED BY <1>2, <1>3

\* A child gives its connection back.
LEMMA BalanceGiven ==
  ASSUME Formed, Balance, NEW g \in Group,
         UNCHANGED <<config, leaked>>, child' = [child EXCEPT ![g] = None],
         free' = [free EXCEPT ![child[g]] = free[child[g]] + 1]
  PROVE  Balance'
<1> SUFFICES ASSUME NEW d \in DB
             PROVE  free'[d] + Cardinality(Holders(d)') + leaked[d] = config.capacity
  BY DEF Balance, Holders
<1>0. /\ free[d] \in Int /\ leaked[d] \in Int
      /\ free[d] + Cardinality(Holders(d)) + leaked[d] = config.capacity
      /\ free \in [DB -> Int] /\ d # None
  BY ServingAssumption DEF Formed, Balance
<1>2. CASE d = child[g]
  <2>1. Holders(d)' = Holders(d) \ {g} /\ g \in Holders(d)
    BY <1>0, <1>2 DEF Holders, Formed
  <2>2. Cardinality(Holders(d)') = Cardinality(Holders(d)) - 1
    BY <2>1, HoldersFinite, FS_RemoveElement
  <2>3. free'[d] = free[d] + 1
    BY <1>0, <1>2
  <2> QED BY <1>0, <2>2, <2>3, HoldersFinite
<1>3. CASE d # child[g]
  <2>1. Holders(d)' = Holders(d)
    BY <1>0, <1>3 DEF Holders, Formed
  <2>2. free'[d] = free[d]
    BY <1>0, <1>3
  <2> QED BY <1>0, <2>1, <2>2
<1> QED BY <1>2, <1>3

\* A transaction is overwritten by one without children.
LEMMA BalanceStored ==
  ASSUME Formed, Balance, UNCHANGED <<config, free>>, child' = NoChild,
         leaked' = [d \in DB |-> leaked[d] + Cardinality(Holders(d))]
  PROVE  Balance' /\ leaked' \in [DB -> Int]
<1>1. ASSUME NEW d \in DB
      PROVE  /\ free'[d] + Cardinality(Holders(d)') + leaked'[d] = config.capacity
             /\ leaked[d] + Cardinality(Holders(d)) \in Int
  <2>1. Holders(d)' = {}
    BY ServingAssumption DEF Holders, NoChild
  <2>2. Cardinality(Holders(d)') = 0
    BY <2>1, FS_EmptySet
  <2>3. leaked'[d] = leaked[d] + Cardinality(Holders(d))
    OBVIOUS
  <2>4. /\ free[d] \in Int /\ leaked[d] \in Int
        /\ free[d] + Cardinality(Holders(d)) + leaked[d] = config.capacity
    BY DEF Formed, Balance
  <2> QED BY <2>2, <2>3, <2>4, HoldersFinite
<1> QED BY <1>1 DEF Balance

\* A transaction is overwritten by one whose child takes a connection of m.
LEMMA BalanceOverwritten ==
  ASSUME Formed, Balance, NEW g \in Group, NEW m, UNCHANGED config,
         child' = [NoChild EXCEPT ![g] = m],
         free' = [free EXCEPT ![m] = free[m] - 1],
         leaked' = [d \in DB |-> leaked[d] + Cardinality(Holders(d))]
  PROVE  Balance' /\ leaked' \in [DB -> Int]
<1>1. ASSUME NEW d \in DB
      PROVE  /\ free'[d] + Cardinality(Holders(d)') + leaked'[d] = config.capacity
             /\ leaked[d] + Cardinality(Holders(d)) \in Int
  <2>1. leaked'[d] = leaked[d] + Cardinality(Holders(d))
    OBVIOUS
  <2>2. /\ free[d] \in Int /\ leaked[d] \in Int /\ free \in [DB -> Int]
        /\ free[d] + Cardinality(Holders(d)) + leaked[d] = config.capacity
    BY DEF Formed, Balance
  <2>3. CASE d = m
    <3>1. Holders(d)' = {g}
      BY <2>3, ServingAssumption DEF Holders, NoChild
    <3>2. Cardinality(Holders(d)') = 1
      BY <3>1, FS_Singleton
    <3>3. free'[d] = free[d] - 1
      BY <2>2, <2>3
    <3> QED BY <2>1, <2>2, <3>2, <3>3, HoldersFinite
  <2>4. CASE d # m
    <3>1. Holders(d)' = {}
      BY <2>4, ServingAssumption DEF Holders, NoChild
    <3>2. Cardinality(Holders(d)') = 0
      BY <3>1, FS_EmptySet
    <3>3. free'[d] = free[d]
      BY <2>2, <2>4
    <3> QED BY <2>1, <2>2, <3>2, <3>3, HoldersFinite
  <2> QED BY <2>3, <2>4
<1> QED BY <1>1 DEF Balance

\* A step that leaves the statement, its transaction and the pools alone.
LEMMA Aside ==
  ASSUME ServingInv,
         UNCHANGED <<config, free, pc, req, inTx, child, wrote, leaked, answer>>,
         fate' = [g \in Group |-> fate'[g]],
         \A g \in Group : fate'[g] = "committed" <=> fate[g] = "committed"
  PROVE  ServingInv'
<1> USE DEF ServingInv
<1>1. Formed'
  BY DEF Formed
<1>2. Balance'
  BY DEF Balance, Holders
<1>3. NoStray' /\ Ending' /\ Beginning' /\ Answering' /\ Failing'
  BY DEF NoStray, Ending, Beginning, Answering, Failing, Children, Ends, NeedsTx
<1>4. Children' = Children /\ Children \subseteq Group
  BY DEF Children
<1>5. Writing' /\ CommitIsWhole'
  BY <1>4 DEF Writing, CommitIsWhole, Formed, Ends
<1>6. Fates'
  BY DEF Fates
<1> QED
  BY <1>1, <1>2, <1>3, <1>5, <1>6

\* Which groups a statement has to work on.
LEMMA TodoOf ==
  ASSUME NEW op, NEW G
  PROVE  /\ op \in {"commit", "rollback", "rollbackTo"} => Todo(op, G) = Children
         /\ op \in {"read", "write"} => Todo(op, G) = G
         /\ op = "begin" => \A g, h \in Todo(op, G) : g = h
BY DEF Todo

\* The breaker refuses a statement, or it starts.
LEMMA PreHandleKeeps ==
  ASSUME ServingInv,
         NEW op \in {"begin", "commit", "rollback", "rollbackTo", "read", "write"},
         PreHandle(op)
  PROVE  ServingInv'
<1> USE DEF ServingInv
<1>0. /\ pc = "idle"
      /\ UNCHANGED <<config, leaked, free, inTx, child>>
      /\ (IF inTx THEN UNCHANGED <<wrote, fate>>
                  ELSE wrote' = {} /\ fate' = [g \in Group |-> "none"])
  BY DEF PreHandle, NoFate
<1>1. Children' = Children /\ Children \subseteq Group
  BY <1>0 DEF Children
<1>2. Balance' /\ NoStray'
  BY <1>0, <1>1 DEF Balance, Holders, NoStray
<1>3. CASE UNCHANGED <<pc, req>> /\ answer' = <<op, "refused">>
  <2>1. Formed'
    BY <1>0, <1>3 DEF Formed
  <2>2. Ending' /\ Beginning' /\ Answering' /\ Failing' /\ CommitIsWhole'
    BY <1>0, <1>3 DEF Ending, Beginning, Answering, Failing, CommitIsWhole
  <2>3. Writing' /\ Fates'
    BY <1>0, <1>1, <1>3 DEF Writing, Fates
  <2> QED BY <1>2, <2>1, <2>2, <2>3
<1>4. CASE /\ pc' = "run" /\ answer' = <<op, "pending">>
           /\ \E G \in Groups(op) :
                req' = [op |-> op, groups |-> G, todo |-> Todo(op, G),
                        err |-> NeedsTx(op) /\ ~inTx, picked |-> 0]
  <2>1. PICK G : req' = [op |-> op, groups |-> G, todo |-> Todo(op, G),
                         err |-> NeedsTx(op) /\ ~inTx, picked |-> 0]
    BY <1>4
  <2>2. /\ req'.op = op /\ req'.groups = G /\ req'.todo = Todo(op, G)
        /\ req'.err <=> (NeedsTx(op) /\ ~inTx)
        /\ req'.err \in BOOLEAN
        /\ req' = [op |-> req'.op, groups |-> req'.groups, todo |-> req'.todo,
                   err |-> req'.err, picked |-> req'.picked]
    BY <2>1
  <2>3. Formed'
    BY <1>0, <2>2 DEF Formed
  <2>4. Ending' /\ Beginning'
    BY <1>0, <1>1, <1>4, <2>2, TodoOf DEF Ending, Beginning, Ends, NeedsTx
  <2>5. Answering' /\ Failing' /\ CommitIsWhole'
    BY <1>0, <1>4, <2>2 DEF Answering, Failing, CommitIsWhole, NeedsTx
  <2>6. Fates'
    BY <1>0, <1>4, <2>2 DEF Fates
  <2>7. Writing'
    <3>1. inTx => wrote \subseteq Children
      BY <1>0 DEF Writing
    <3>2. op = "write" => G = Todo(op, G)
      BY TodoOf
    <3>3. op = "commit" => Todo(op, G) = Children
      BY TodoOf
    <3> QED
      BY <1>0, <1>1, <1>4, <2>2, <3>1, <3>2, <3>3 DEF Writing, NeedsTx
  <2> QED BY <1>2, <2>3, <2>4, <2>5, <2>6, <2>7
<1> QED
  BY <1>3, <1>4 DEF PreHandle

\* A child ends, by COMMIT, by ROLLBACK or with the connection.
LEMMA EndChildKeeps ==
  ASSUME ServingInv, NEW g \in Group, Commit(g) \/ CommitUnanswered(g) \/ Rollback(g)
  PROVE  ServingInv'
<1> USE DEF ServingInv
<1> DEFINE end == IF pc = "run" /\ req.op = "commit" THEN "committed" ELSE "rolledback"
<1>0. /\ pc = "closing" \/ (pc = "run" /\ Ends(req.op))
      /\ g \in req.todo
      /\ EndChild(g, end)
      /\ UNCHANGED <<config, pc, inTx, wrote, leaked, answer>>
  BY DEF Commit, CommitUnanswered, Rollback, Ends
<1>1. /\ req' = [op |-> req.op, groups |-> req.groups, todo |-> req.todo \ {g},
                 err |-> req'.err, picked |-> req.picked]
      /\ req'.err \in BOOLEAN
      /\ req.err \/ fate[g] # "open" => req'.err
  BY DEF Commit, CommitUnanswered, Rollback, Formed
<1>2. /\ req'.op = req.op /\ req'.groups = req.groups /\ req'.todo = req.todo \ {g}
      /\ req' = [op |-> req'.op, groups |-> req'.groups, todo |-> req'.todo,
                 err |-> req'.err, picked |-> req'.picked]
  BY <1>1
<1> HIDE DEF end
<1>3. /\ child' = [child EXCEPT ![g] = None]
      /\ free' = [free EXCEPT ![child[g]] = free[child[g]] + 1]
      /\ fate' = [fate EXCEPT ![g] = IF fate[g] = "open" THEN end ELSE fate[g]]
  BY <1>0 DEF EndChild
<1>4. Children' = Children \ {g}
  BY <1>3 DEF Children, Formed
<1>5. Formed'
  <2>1. free' \in [DB -> Int]
    <3>1. free \in [DB -> Int] /\ 1 \in Int
      BY DEF Formed
    <3>2. [free EXCEPT ![child[g]] = free[child[g]] + 1] \in [DB -> Int]
      BY <3>1, PoolChanges
    <3> QED BY <1>3, <3>2
  <2>2. child' = [h \in Group |-> child'[h]] /\ fate' = [h \in Group |-> fate'[h]]
    BY <1>3 DEF Formed
  <2> QED BY <1>0, <1>1, <1>2, <2>1, <2>2 DEF Formed
<1>6. Balance'
  BY <1>0, <1>3, BalanceGiven
<1>7. NoStray' /\ Ending'
  BY <1>0, <1>2, <1>4 DEF NoStray, Ending, Ends
<1>8. Beginning' /\ Answering'
  BY <1>0, <1>2 DEF Beginning, Answering, Ends
<1>9. Failing'
  BY <1>0, <1>1, <1>2 DEF Failing, NeedsTx
<1>10. \A h \in Group : /\ fate[h] = "committed" => fate'[h] = "committed"
                        /\ end # "committed" /\ fate'[h] = "committed" => fate[h] = "committed"
                        /\ h # g => fate'[h] = fate[h]
  BY <1>3 DEF Formed
<1>11. Writing'
  <2>1. pc = "run" /\ req.op = "commit" /\ ~req'.err => fate'[g] = "committed"
    BY <1>1, <1>3 DEF end, Formed
  <2>2. Ends(req.op)' = Ends(req.op)
    BY <1>0, <1>2 DEF Ends
  <2>3. pc = "run" => req.op # "write" /\ req.op # "begin"
    BY <1>0 DEF Ends
  <2>4. wrote \subseteq Group
    BY DEF Formed
  <2>5. pc = "run" /\ req.op = "commit" /\ ~req'.err
          => \A h \in wrote : h \in req'.todo \/ fate'[h] = "committed"
    BY <1>1, <1>2, <1>10, <2>1, <2>4 DEF Writing
  <2> QED BY <1>0, <1>2, <2>2, <2>3, <2>5 DEF Writing
<1>12. Fates'
  BY <1>0, <1>2, <1>10 DEF Fates, end
<1>13. CommitIsWhole'
  <2>1. end = "committed" => answer[2] = "pending"
    BY DEF end, Answering
  <2>2. wrote \subseteq Group
    BY DEF Formed
  <2> QED BY <1>0, <1>10, <2>1, <2>2 DEF CommitIsWhole
<1> QED
  BY <1>5, <1>6, <1>7, <1>8, <1>9, <1>11, <1>12, <1>13

\* A statement that ends no transaction is through with a group.
LEMMA DoneKeeps ==
  ASSUME ServingInv, NEW g, NEW ok \in BOOLEAN, NEW d,
         pc = "run", g \in req.todo, ~Ends(req.op), Done(g, ok, d),
         UNCHANGED <<config, free, pc, inTx, child, fate, wrote, leaked, answer>>,
         req.op = "write" /\ inTx /\ ok => g \in Children
  PROVE  ServingInv'
<1> USE DEF ServingInv
<1>1. /\ req' = [op |-> req.op, groups |-> req.groups, todo |-> req'.todo,
                 err |-> req.err \/ ~ok, picked |-> req'.picked]
      /\ req'.todo = IF ~ok /\ req.op = "write" THEN {} ELSE req.todo \ {g}
  <2>1. req' = [[[req EXCEPT !.todo = IF ~ok /\ req.op = "write" THEN {} ELSE req.todo \ {g}]
                      EXCEPT !.err = (req.err \/ ~ok)]
                      EXCEPT !.picked = IF d = None THEN 0 ELSE bad[d]]
    BY DEF Done
  <2> QED BY <2>1 DEF Formed
<1>2. /\ req'.op = req.op /\ req'.groups = req.groups /\ req'.err \in BOOLEAN
      /\ req'.err <=> (req.err \/ ~ok)
      /\ req' = [op |-> req'.op, groups |-> req'.groups, todo |-> req'.todo,
                 err |-> req'.err, picked |-> req'.picked]
  <2>1. PICK e \in BOOLEAN : e = (req.err \/ ~ok)
    OBVIOUS
  <2>2. req' = [op |-> req.op, groups |-> req.groups, todo |-> req'.todo,
                err |-> e, picked |-> req'.picked]
    BY <1>1, <2>1
  <2>3. req'.op = req.op /\ req'.groups = req.groups /\ req'.err = e
    BY <2>2
  <2> QED BY <2>1, <2>2, <2>3
<1>3. Children' = Children
  BY DEF Children
<1>4. Formed' /\ Balance' /\ NoStray'
  BY <1>2, <1>3 DEF Formed, Balance, Holders, NoStray
<1>5. Ending' /\ Answering' /\ Failing' /\ CommitIsWhole'
  BY <1>2 DEF Ending, Answering, Failing, CommitIsWhole, Ends, NeedsTx
<1>6. Beginning'
  BY <1>1, <1>2 DEF Beginning
<1>7. Writing'
  <2>1. pc' # "closing" /\ Ends(req.op)' = Ends(req.op) /\ req.op # "commit"
    BY <1>2 DEF Ends
  <2>2. req.op = "write" /\ inTx /\ ~req'.err => req.groups \subseteq req'.todo \cup Children
    BY <1>1, <1>2 DEF Writing
  <2> QED BY <1>2, <1>3, <2>1, <2>2 DEF Writing
<1>8. Fates'
  BY <1>2 DEF Fates
<1> QED
  BY <1>4, <1>5, <1>6, <1>7, <1>8

\* A statement that panics.
LEMMA PanicKeeps ==
  ASSUME ServingInv, pc = "run", ~Ends(req.op), pc' \in {"panic", "dead"},
         UNCHANGED <<config, req, inTx, child, fate, free, wrote, leaked, answer>>
  PROVE  ServingInv'
<1> USE DEF ServingInv
<1>1. Children' = Children
  BY DEF Children
<1>2. Formed' /\ Balance' /\ NoStray'
  BY <1>1 DEF Formed, Balance, Holders, NoStray
<1>3. Ending' /\ Beginning' /\ Answering' /\ Failing' /\ CommitIsWhole'
  BY DEF Ending, Beginning, Answering, Failing, CommitIsWhole
<1>4. req.op # "commit"
  BY DEF Ends
<1>5. Writing' /\ Fates'
  BY <1>1, <1>4 DEF Writing, Fates
<1> QED
  BY <1>2, <1>3, <1>5

\* A child begins in a transaction.
LEMMA ChildKeeps ==
  ASSUME ServingInv, NEW g \in Group, NEW d, NEW p, pc = "run", g \in req.todo,
         child[g] = None, inTx, req.op # "begin", ~Ends(req.op),
         child' = [child EXCEPT ![g] = d], fate' = [fate EXCEPT ![g] = "open"],
         free' = [free EXCEPT ![d] = free[d] - 1], inTx' = TRUE,
         UNCHANGED <<config, pc, wrote, leaked, answer>>,
         req' = [req EXCEPT !.picked = p]
  PROVE  ServingInv'
<1> USE DEF ServingInv
<1>1. /\ req'.op = req.op /\ req'.groups = req.groups /\ req'.err = req.err
      /\ req' = [op |-> req'.op, groups |-> req'.groups, todo |-> req'.todo,
                 err |-> req'.err, picked |-> req'.picked]
      /\ req'.todo = req.todo
  BY DEF Formed
<1>2. Children \subseteq Children' /\ Ends(req.op)' = Ends(req.op)
  BY <1>1 DEF Children, Formed, Ends
<1>3. Formed'
  <2>1. free' \in [DB -> Int]
    <3>1. free \in [DB -> Int] /\ 1 \in Int
      BY DEF Formed
    <3>2. [free EXCEPT ![d] = free[d] - 1] \in [DB -> Int]
      BY <3>1, PoolChanges
    <3> QED BY <3>2
  <2>2. child' = [h \in Group |-> child'[h]] /\ fate' = [h \in Group |-> fate'[h]]
    BY DEF Formed
  <2> QED BY <1>1, <2>1, <2>2 DEF Formed
<1>4. Balance'
  BY BalanceTaken
<1>5. NoStray' /\ Ending' /\ Answering' /\ Failing' /\ Beginning'
  BY <1>1, <1>2 DEF NoStray, Ending, Answering, Failing, Beginning, Ends
<1>6. \A h \in Group : fate'[h] = "committed" => fate[h] = "committed"
  BY DEF Formed
<1>7. req.op # "commit"
  BY DEF Ends
<1>8. Writing'
  <2>1. wrote \subseteq Children
    BY DEF Writing
  <2>2. req.op = "write" /\ ~req.err => req.groups \subseteq req'.todo \cup Children'
    BY <1>1, <1>2 DEF Writing
  <2> QED BY <1>1, <1>2, <1>7, <2>1, <2>2 DEF Writing
<1>9. Fates'
  BY <1>1, <1>6, <1>7 DEF Fates
<1>10. CommitIsWhole'
  BY DEF CommitIsWhole, Answering
<1> QED BY <1>3, <1>4, <1>5, <1>8, <1>9, <1>10

\* BEGIN makes a transaction of one child, and overwrites the one there was.
LEMMA BegunKeeps ==
  ASSUME ServingInv, NEW g \in Group, NEW d, pc = "run", g \in req.todo,
         req.op = "begin", Store, Done(g, TRUE, d),
         child' = [NoChild EXCEPT ![g] = d], fate' = [NoFate EXCEPT ![g] = "open"],
         free' = [free EXCEPT ![d] = free[d] - 1], inTx' = TRUE,
         UNCHANGED <<config, pc, answer>>
  PROVE  ServingInv'
<1> USE DEF ServingInv
<1>1. /\ req'.op = "begin" /\ req'.groups = req.groups /\ req'.err = req.err
      /\ req' = [op |-> req'.op, groups |-> req'.groups, todo |-> req'.todo,
                 err |-> req'.err, picked |-> req'.picked]
      /\ req'.todo = req.todo \ {g}
  <2>1. req' = [[[req EXCEPT !.todo = req.todo \ {g}] EXCEPT !.err = (req.err \/ FALSE)]
                      EXCEPT !.picked = IF d = None THEN 0 ELSE bad[d]]
    BY DEF Done
  <2> QED BY <2>1 DEF Formed
<1>2. wrote' = {} /\ leaked' = [e \in DB |-> leaked[e] + Cardinality(Holders(e))]
  BY DEF Store
<1>3. Balance' /\ leaked' \in [DB -> Int]
  BY <1>2, BalanceOverwritten
<1>4. Formed'
  <2>1. free' \in [DB -> Int]
    <3>1. free \in [DB -> Int] /\ 1 \in Int
      BY DEF Formed
    <3>2. [free EXCEPT ![d] = free[d] - 1] \in [DB -> Int]
      BY <3>1, PoolChanges
    <3> QED BY <3>2
  <2>2. child' = [h \in Group |-> child'[h]] /\ fate' = [h \in Group |-> fate'[h]]
    BY DEF NoChild, NoFate
  <2> QED BY <1>1, <1>2, <1>3, <2>1, <2>2 DEF Formed
<1>5. NoStray' /\ Ending' /\ Answering' /\ Failing' /\ Beginning'
  BY <1>1 DEF NoStray, Ending, Answering, Failing, Beginning, Ends, NeedsTx
<1>6. Writing'
  BY <1>1, <1>2 DEF Writing
<1>7. Fates'
  BY DEF Fates, NoFate
<1>8. CommitIsWhole'
  BY DEF CommitIsWhole, Answering
<1> QED BY <1>3, <1>4, <1>5, <1>6, <1>7, <1>8

\* The first statement of a transaction in a group, or BEGIN.
LEMMA BeginChildKeeps ==
  ASSUME ServingInv, NEW g \in Group, BeginChild(g)
  PROVE  ServingInv'
<1> USE DEF ServingInv
<1>0. /\ pc = "run" /\ g \in req.todo
      /\ req.op = "begin" \/ (inTx /\ child[g] = None)
      /\ UNCHANGED <<config, answer>>
  BY DEF BeginChild, BeginsChild
<1>1. ~Ends(req.op)
  BY <1>0 DEF Children, Ending, Ends
<1>2. CASE Panics /\ UNCHANGED <<req, txVars, free, wrote, leaked>>
  BY <1>0, <1>1, <1>2, PanicKeeps DEF Panics, txVars
<1>3. ASSUME NEW d, Done(g, FALSE, d), UNCHANGED <<txVars, free, wrote, leaked, pc>>
      PROVE  ServingInv'
  BY <1>0, <1>1, <1>3, DoneKeeps DEF txVars
<1>4. ASSUME NEW d, free' = [free EXCEPT ![d] = free[d] - 1], inTx' = TRUE, UNCHANGED pc,
             IF req.op = "begin"
             THEN /\ Store /\ Done(g, TRUE, d)
                  /\ child' = [NoChild EXCEPT ![g] = d]
                  /\ fate' = [NoFate EXCEPT ![g] = "open"]
             ELSE /\ req' = [req EXCEPT !.picked = bad[d]]
                  /\ child' = [child EXCEPT ![g] = d]
                  /\ fate' = [fate EXCEPT ![g] = "open"]
                  /\ UNCHANGED <<wrote, leaked>>
      PROVE  ServingInv'
  <2>1. CASE req.op = "begin"
    BY <1>0, <1>4, <2>1, BegunKeeps
  <2>2. CASE req.op # "begin"
    BY <1>0, <1>1, <1>4, <2>2, ChildKeeps
  <2> QED BY <2>1, <2>2
<1> QED
  BY <1>2, <1>3, <1>4 DEF BeginChild

\* A statement outside a transaction, in one group.
LEMMA OutsideTxKeeps ==
  ASSUME ServingInv, NEW g \in Group, OutsideTx(g)
  PROVE  ServingInv'
<1>0. /\ pc = "run" /\ g \in req.todo /\ ~inTx /\ ~Ends(req.op) /\ req.op # "begin"
      /\ UNCHANGED <<config, free, inTx, child, fate, wrote, leaked, answer>>
  BY DEF OutsideTx, Ends, txVars
<1>1. CASE Panics /\ UNCHANGED req
  BY <1>0, <1>1, PanicKeeps DEF Panics
<1>2. ASSUME NEW d, Done(g, up[d], d), UNCHANGED pc
      PROVE  ServingInv'
  <2>1. CASE up[d]
    BY <1>0, <1>2, <2>1, DoneKeeps DEF Done
  <2>2. CASE ~up[d]
    BY <1>0, <1>2, <2>2, DoneKeeps DEF Done
  <2> QED BY <2>1, <2>2
<1> QED
  BY <1>1, <1>2 DEF OutsideTx

\* A statement in a transaction, in one group.
LEMMA InTxKeeps ==
  ASSUME ServingInv, NEW g \in Group, InTx(g)
  PROVE  ServingInv'
<1>1. /\ pc = "run" /\ g \in req.todo /\ ~Ends(req.op) /\ req.op # "begin"
      /\ Done(g, fate[g] = "open", None)
      /\ UNCHANGED <<config, free, pc, inTx, child, fate, wrote, leaked, answer>>
      /\ g \in Children
  BY DEF InTx, txVars, Children
<1> QED
  BY <1>1, DoneKeeps

\* The answer to the client.
LEMMA FinishKeeps ==
  ASSUME ServingInv, Finish
  PROVE  ServingInv'
<1> USE DEF ServingInv
<1>0. /\ pc = "run" /\ req.todo = {} /\ pc' = "idle" /\ req' = NoReq
      /\ UNCHANGED <<config, free>>
      /\ answer' = <<req.op, IF req.err THEN "error" ELSE "ok">>
      /\ inTx' = (~Ends(req.op) /\ (inTx \/ (req.op = "begin" /\ ~req.err)))
  BY DEF Finish
<1>1. Ending' /\ Beginning' /\ Answering' /\ Failing'
  BY <1>0 DEF Ending, Beginning, Answering, Failing
<1>2. CASE req.op = "begin" /\ config.mode = "SHD"
  <2>1. Store /\ child' = NoChild /\ fate' = NoFate
    BY <1>2 DEF Finish
  <2>2. wrote' = {} /\ leaked' = [d \in DB |-> leaked[d] + Cardinality(Holders(d))]
    BY <2>1 DEF Store
  <2>3. Balance' /\ leaked' \in [DB -> Int]
    BY <1>0, <2>1, <2>2, BalanceStored
  <2>4. Formed'
    BY <1>0, <2>1, <2>2, <2>3 DEF Formed, NoReq, NoChild, NoFate
  <2>5. NoStray' /\ Writing' /\ Fates'
    BY <1>0, <2>1, <2>2 DEF NoStray, Children, Writing, Fates, NoChild, NoFate
  <2>6. CommitIsWhole'
    BY <1>0, <1>2 DEF CommitIsWhole
  <2> QED BY <1>1, <2>3, <2>4, <2>5, <2>6
<1>3. CASE ~(req.op = "begin" /\ config.mode = "SHD")
  <2>0. /\ UNCHANGED <<child, fate, leaked>>
        /\ wrote' = IF req.op = "write" /\ inTx /\ ~req.err
                    THEN wrote \cup req.groups ELSE wrote
    BY <1>3 DEF Finish
  <2>1. Children' = Children /\ Children \subseteq Group
    BY <2>0 DEF Children
  <2>2. Ends(req.op) => Children = {}
    BY <1>0 DEF Ending
  <2>3. req.op = "write" /\ inTx /\ ~req.err => req.groups \subseteq Children
    BY <1>0 DEF Writing
  <2>4. wrote \subseteq Group
    BY DEF Formed
  <2>5. Formed'
    BY <1>0, <2>0, <2>1, <2>3, <2>4 DEF Formed, NoReq
  <2>6. Balance'
    BY <1>0, <2>0 DEF Balance, Holders
  <2>7. NoStray'
    BY <1>0, <2>1, <2>2 DEF NoStray
  <2>8. Writing'
    BY <1>0, <2>0, <2>1, <2>2, <2>3 DEF Writing
  <2>9. Fates'
    BY <1>0, <2>0 DEF Fates, Ends
  <2>10. CommitIsWhole'
    BY <1>0, <2>0, <2>4 DEF CommitIsWhole, Writing, Fates
  <2> QED BY <1>1, <2>5, <2>6, <2>7, <2>8, <2>9, <2>10
<1> QED
  BY <1>2, <1>3

\* The connection ends, because of a panic or because the client leaves.
LEMMA ClosingKeeps ==
  ASSUME ServingInv, Recover \/ Disconnect \/ ConnectionClosed \/ Connect
  PROVE  ServingInv'
<1> USE DEF ServingInv
<1>0. /\ UNCHANGED <<config, free, child, fate, wrote, leaked>>
      /\ wrote \subseteq Group
  BY DEF Recover, Disconnect, ConnectionClosed, Connect, txVars, Formed
<1>1. Children' = Children
  BY <1>0 DEF Children
<1>2. Balance'
  BY <1>0 DEF Balance, Holders
<1>3. CASE Recover \/ Disconnect
  <2>1. /\ pc' = "closing" /\ UNCHANGED <<inTx, answer>>
        /\ req' = [NoReq EXCEPT !.todo = Children]
        /\ pc \in {"idle", "panic"}
    BY <1>3 DEF Recover, Disconnect, txVars
  <2>2. /\ req'.todo = Children /\ req'.err = FALSE
        /\ req' = [op |-> req'.op, groups |-> req'.groups, todo |-> req'.todo,
                   err |-> req'.err, picked |-> req'.picked]
    BY <2>1 DEF NoReq
  <2>3. Formed'
    BY <1>0, <2>2 DEF Formed
  <2>4. NoStray' /\ Ending'
    BY <1>1, <2>1, <2>2 DEF NoStray, Ending
  <2>5. Beginning' /\ Answering' /\ Failing' /\ CommitIsWhole'
    BY <1>0, <2>1 DEF Beginning, Answering, Failing, CommitIsWhole
  <2>6. Writing' /\ Fates'
    BY <1>0, <2>1 DEF Writing, Fates
  <2> QED BY <1>2, <2>3, <2>4, <2>5, <2>6
<1>4. CASE ConnectionClosed
  <2>1. /\ pc = "closing" /\ req.todo = {} /\ pc' = "gone" /\ inTx' = FALSE /\ req' = NoReq
        /\ UNCHANGED answer
    BY <1>4 DEF ConnectionClosed
  <2>2. Formed' /\ NoStray' /\ Ending'
    BY <1>0, <1>1, <2>1 DEF Formed, NoStray, Ending, NoReq
  <2>3. Beginning' /\ Answering' /\ Failing' /\ CommitIsWhole'
    BY <1>0, <2>1 DEF Beginning, Answering, Failing, CommitIsWhole
  <2>4. Writing' /\ Fates'
    BY <1>0, <2>1 DEF Writing, Fates
  <2> QED BY <1>2, <2>2, <2>3, <2>4
<1>5. CASE Connect
  <2>1. /\ pc = "gone" /\ pc' = "idle" /\ UNCHANGED <<req, inTx>>
        /\ answer' = <<"none", "ok">>
    BY <1>5 DEF Connect, txVars
  <2>2. Formed' /\ NoStray' /\ Ending'
    BY <1>0, <1>1, <2>1 DEF Formed, NoStray, Ending
  <2>3. Beginning' /\ Answering' /\ Failing' /\ CommitIsWhole'
    BY <1>0, <2>1 DEF Beginning, Answering, Failing, CommitIsWhole
  <2>4. Writing' /\ Fates'
    BY <1>0, <1>1, <2>1 DEF Writing, Fates
  <2> QED BY <1>2, <2>2, <2>3, <2>4
<1> QED
  BY <1>3, <1>4, <1>5

\* Every step keeps the invariant.
LEMMA ServingNext == ServingInv /\ [Next]_vars => ServingInv'
<1> SUFFICES ASSUME ServingInv, [Next]_vars PROVE ServingInv'
  OBVIOUS
<1>0. ASSUME UNCHANGED <<config, free, pc, req, txVars, wrote, leaked, answer>>
      PROVE  ServingInv'
  BY <1>0, Aside DEF ServingInv, Formed, txVars
<1>1. ASSUME NEW d \in DB, ServerDown(d) PROVE ServingInv'
  <2>1. /\ fate' = [g \in Group |-> IF child[g] = d /\ fate[g] = "open" THEN "lost" ELSE fate[g]]
        /\ UNCHANGED <<config, free, pc, req, inTx, child, wrote, leaked, answer>>
    BY <1>1 DEF ServerDown
  <2>2. fate' = [g \in Group |-> fate'[g]]
    BY <2>1
  <2>3. \A g \in Group : fate'[g] = "committed" <=> fate[g] = "committed"
    BY <2>1
  <2> QED BY <2>1, <2>2, <2>3, Aside
<1>2. ASSUME NEW d \in DB, ServerUp(d) \/ Ping(d) PROVE ServingInv'
  BY <1>0, <1>2 DEF ServerUp, Ping
<1>3. CASE \/ Timer \/ ErrorsAge \/ OtherPreHandle
           \/ \E err \in BOOLEAN : OtherPostHandle(err)
  BY <1>0, <1>3 DEF Timer, ErrorsAge, OtherPreHandle, OtherPostHandle
<1>4. ASSUME NEW op \in {"begin", "commit", "rollback", "rollbackTo", "read", "write"},
             PreHandle(op)
      PROVE  ServingInv'
  BY <1>4, PreHandleKeeps
<1>5. ASSUME NEW g \in Group, \/ OutsideTx(g) \/ BeginChild(g) \/ InTx(g)
                              \/ Commit(g) \/ CommitUnanswered(g) \/ Rollback(g)
      PROVE  ServingInv'
  BY <1>5, OutsideTxKeeps, BeginChildKeeps, InTxKeeps, EndChildKeeps
<1>6. CASE MapRace
  <2>1. \E g \in Group : BeginsChild(g)
    <3>1. SUFFICES ASSUME {g \in Group : BeginsChild(g)} = {} PROVE FALSE
      OBVIOUS
    <3>2. Cardinality({g \in Group : BeginsChild(g)}) = 0
      BY <3>1, FS_EmptySet
    <3> QED BY <1>6, <3>2 DEF MapRace
  <2>2. pc = "run" /\ ~Ends(req.op) /\ pc' = "dead"
    BY <1>6, <2>1 DEF MapRace, BeginsChild, Ends
  <2> QED BY <1>6, <2>2, PanicKeeps DEF MapRace, txVars
<1>7. CASE Finish
  BY <1>7, FinishKeeps
<1>8. CASE Recover \/ Disconnect \/ ConnectionClosed \/ Connect
  BY <1>8, ClosingKeeps
<1>9. CASE UNCHANGED vars
  BY <1>0, <1>9 DEF vars
<1> QED
  BY <1>1, <1>2, <1>3, <1>4, <1>5, <1>6, <1>7, <1>8, <1>9 DEF Next

\* The invariant holds of the proxy when it starts.
LEMMA ServingInit == Init => ServingInv /\ BreakerOK
<1> SUFFICES ASSUME Init PROVE ServingInv /\ BreakerOK
  OBVIOUS
<1>1. Children = {}
  BY DEF Init, NoChild, Children
<1>0. config.capacity \in Int
  BY ServingAssumption DEF Init
<1>2. Formed
  BY <1>0 DEF Init, NoChild, NoFate, NoReq, Formed
<1>3. Balance
  <2> SUFFICES ASSUME NEW d \in DB
               PROVE  free[d] + Cardinality(Holders(d)) + leaked[d] = config.capacity
    BY DEF Balance
  <2>1. Holders(d) = {}
    BY ServingAssumption DEF Init, NoChild, Holders
  <2>2. Cardinality(Holders(d)) = 0
    BY <2>1, FS_EmptySet
  <2>3. free[d] = config.capacity /\ config.capacity \in Int /\ leaked[d] = 0
    BY <1>0 DEF Init
  <2> QED BY <2>2, <2>3
<1>4. NoStray /\ Ending /\ Beginning /\ Answering /\ Failing /\ CommitIsWhole
  BY <1>1 DEF Init, NoStray, Ending, Beginning, Answering, Failing, CommitIsWhole
<1>5. Writing /\ Fates
  BY DEF Init, Writing, Fates, NoFate
<1>6. BreakerOK
  BY DEF Init, Closed, BreakerOK, OpenHasTimer
<1> QED
  BY <1>2, <1>3, <1>4, <1>5, <1>6 DEF ServingInv

\* Both invariants hold of every behaviour.
LEMMA ServingInvariance == Spec => [](ServingInv /\ BreakerOK)
<1>1. ServingInv /\ BreakerOK /\ [Next]_vars => (ServingInv /\ BreakerOK)'
  BY ServingNext, BreakerNext DEF ServingInv, Formed
<1> QED
  BY <1>1, ServingInit, PTL DEF Spec

---------------------------------------------------------------------------
(***************************************************************************)
(* The choice of a database                                                *)
(***************************************************************************)
\* The configuration is one of those that are served.
LEMMA ConfigFacts ==
  ASSUME config \in Configs
  PROVE  /\ config.mode \in {"SHD", "RWS"} /\ config.times \in Nat \ {0}
         /\ config.algorithm \in {"Random", "RoundRobin", "RandomWeight"}
         /\ config.modulus \in Nat \ {0}
         /\ config.masters \in [Group -> Seq(DB)] /\ config.slaves \in [Group -> Seq(DB)]
         /\ config.mode = "RWS" => \E g \in Group : config.masters[g] # <<>>
BY ServingAssumption

\* The running databases of a list are databases that run, and are finitely
\* many.
LEMMA AvailableFacts ==
  ASSUME NEW list \in Seq(DB)
  PROVE  /\ \A i \in Available(list) : i \in Nat /\ list[i] \in DB /\ IsRunning(list[i])
         /\ IsFiniteSet(Available(list))
         /\ Cardinality(Available(list)) \in Nat
         /\ Cardinality(Available(list)) = 0 <=> Available(list) = {}
<1>1. \A i \in Available(list) : i \in Nat /\ list[i] \in DB /\ IsRunning(list[i])
  BY DEF Available
<1>2. IsFiniteSet(1..Len(list))
  BY FS_Interval
<1>3. Available(list) \in SUBSET (1..Len(list))
  BY DEF Available
<1>4. IsFiniteSet(Available(list))
  BY <1>2, <1>3, FS_Subset
<1> QED
  BY <1>1, <1>4, FS_CardinalityType, FS_EmptySet

\* At picks a running database of its list, or panics.
LEMMA AtRuns ==
  ASSUME NEW list \in Seq(DB), NEW k, NEW d \in At(list, k), d # Panic
  PROVE  d \in DB /\ IsRunning(d)
<1>1. \E i \in Available(list) : d = list[i]
  BY DEF At, Elements
<1> QED
  BY <1>1, AvailableFacts

\* Whatever is picked for a statement or for a transaction is running.
LEMMA PickRuns ==
  ASSUME config \in Configs, NEW g \in Group,
         NEW d \in Pick(g) \cup At(config.masters[g], 0), d # Panic
  PROVE  d \in DB /\ IsRunning(d)
<1>1. config.masters[g] \in Seq(DB) /\ config.slaves[g] \in Seq(DB)
  BY ConfigFacts
<1>2. \A e \in Masters(g) \cup Slaves(g) : e \in DB /\ IsRunning(e)
  BY <1>1, AvailableFacts DEF Masters, Slaves, Elements, getAvailableMasters, getAvailableSlaves
<1>3. \A k : \A e \in At(config.masters[g], k) \cup At(config.slaves[g], k) :
        e # Panic => e \in DB /\ IsRunning(e)
  BY <1>1, AtRuns
<1>4. \A e \in MasterOf(g) : e # Panic => e \in DB /\ IsRunning(e)
  <2> DEFINE n == Cardinality(getAvailableMasters(g))
  <2>1. n \in Nat
    BY <1>1, AvailableFacts DEF getAvailableMasters
  <2> HIDE DEF n
  <2>2. \A e \in Weighted(Masters(g), WriteWeight) : e # Panic => e \in Masters(g)
    BY DEF Weighted
  <2>3. \/ MasterOf(g) = {Panic} \/ MasterOf(g) = Masters(g)
        \/ MasterOf(g) = At(config.masters[g], counter[g].write % n)
        \/ MasterOf(g) = Weighted(Masters(g), WriteWeight)
    <3>1. CASE n = 0
      BY <3>1, <2>1 DEF MasterOf, n
    <3>2. CASE n = 1 \/ (n > 1 /\ config.algorithm = "Random")
      BY <3>2, <2>1 DEF MasterOf, n
    <3>3. CASE n > 1 /\ config.algorithm = "RoundRobin"
      BY <3>3, <2>1 DEF MasterOf, n
    <3>4. CASE n > 1 /\ config.algorithm = "RandomWeight"
      BY <3>4, <2>1 DEF MasterOf, n
    <3> QED BY <2>1, <3>1, <3>2, <3>3, <3>4, ConfigFacts
  <2> QED BY <1>2, <1>3, <2>2, <2>3
<1>5. \A e \in randomWeight(g) : e # Panic => e \in DB /\ IsRunning(e)
  BY <1>2, <1>3 DEF randomWeight, Weighted
<1>6. \A e \in SlaveOf(g) : e # Panic => e \in DB /\ IsRunning(e)
  BY <1>2, <1>3, <1>4, <1>5 DEF SlaveOf
<1> QED
  BY <1>3, <1>4, <1>6 DEF Pick

\* Between -t and t the multiples of t are -t, 0 and t.
LEMMA Multiples ==
  ASSUME NEW t \in Nat \ {0}, NEW n \in (-t)..t
  PROVE  n % t = 0 <=> n \in {-t, 0, t}
<1>1. 0 % t = 0
  OBVIOUS
<1>2. t % t = 0 /\ (-t) % t = 0
  OBVIOUS
<1>3. n > 0 /\ n < t => n % t = n
  OBVIOUS
<1>4. n < 0 /\ n > -t => n % t = n + t
  OBVIOUS
<1> QED
  BY <1>1, <1>2, <1>3, <1>4

\* A database as the pings see it: fewer than times pings count for or
\* against a change, and a running database has failed at most times - 1
\* pings in a row more than the count says, since the count was not below
\* -(times - 1) when they began.
Counts(d) ==
  /\ pingCount[d] \in (1 - config.times)..(config.times - 1)
  /\ bad[d] \in Nat
  /\ IsRunning(d) => bad[d] <= config.times - 1 + pingCount[d]

Pings ==
  /\ pingCount = [d \in DB |-> pingCount[d]]
  /\ bad = [d \in DB |-> bad[d]]
  /\ status \in [DB -> {"Running", "Unknown"}]
  /\ up \in [DB -> BOOLEAN]
  /\ \A d \in DB : Counts(d)

\* The database that was picked last had not failed too many pings.
Picked == req.picked \in Nat /\ DeadAreAvoided

PickInv == config \in Configs /\ Pings /\ Picked

\* A running database has failed fewer than 2 * times - 1 pings in a row.
LEMMA RunningIsFresh ==
  ASSUME config \in Configs, Pings, NEW d \in DB, IsRunning(d)
  PROVE  bad[d] \in Nat /\ bad[d] < 2 * config.times - 1
<1>1. Counts(d) /\ config.times \in Nat
  BY ConfigFacts DEF Pings
<1> QED
  BY <1>1 DEF Counts

\* A ping counts and changes the status as the bound on failed pings needs.
LEMMA PingCounts ==
  ASSUME PickInv, NEW d \in DB, Ping(d)
  PROVE  Pings'
<1> DEFINE t == config.times
           n == Counted(d)
<1>0. /\ config' = config /\ config \in Configs /\ t \in Nat \ {0}
      /\ pingCount[d] \in (1 - t)..(t - 1) /\ bad[d] \in Nat
      /\ status[d] \in {"Running", "Unknown"} /\ up[d] \in BOOLEAN
      /\ status[d] = "Running" => bad[d] <= t - 1 + pingCount[d]
  BY ConfigFacts DEF PickInv, Pings, Counts, Ping, IsRunning
<1>1. /\ pingCount'[d] = IF n % t = 0 THEN 0 ELSE n
      /\ status'[d] = IF ~(n % t = 0 /\ n > 0) THEN status[d]
                      ELSE IF status[d] = "Running" THEN "Unknown" ELSE "Running"
      /\ bad'[d] = IF up[d] THEN 0 ELSE IF bad[d] < 2 * t - 1 THEN bad[d] + 1 ELSE bad[d]
  BY DEF PickInv, Pings, Ping, PingCount, ChangesStatus
<1>2. \A e \in DB \ {d} : /\ pingCount'[e] = pingCount[e] /\ status'[e] = status[e]
                          /\ bad'[e] = bad[e]
  BY DEF PickInv, Pings, Ping
<1>3. /\ pingCount' = [e \in DB |-> pingCount'[e]] /\ bad' = [e \in DB |-> bad'[e]]
      /\ status' \in [DB -> {"Running", "Unknown"}] /\ up' \in [DB -> BOOLEAN]
  BY DEF PickInv, Pings, Ping, envVars
<1>4. n \in (-t)..t /\ n \in Int
  <2>1. n = pingCount[d] - 1 \/ n = pingCount[d] + 1
    BY <1>0 DEF Counted
  <2> QED BY <1>0, <2>1
<1>5. n % t = 0 <=> n \in {-t, 0, t}
  BY <1>0, <1>4, Multiples
<1>6. Counts(d)'
  <2> SUFFICES /\ pingCount'[d] \in (1 - t)..(t - 1)
               /\ bad'[d] \in Nat
               /\ status'[d] = "Running" => bad'[d] <= t - 1 + pingCount'[d]
    BY <1>0 DEF Counts, IsRunning
  <2>1. pingCount'[d] \in (1 - t)..(t - 1) /\ bad'[d] \in Nat
    <3> HIDE DEF n, t
    <3> QED BY <1>0, <1>1, <1>4, <1>5
  <2>2. CASE up[d]
    <3>1. bad'[d] = 0
      BY <1>1, <2>2
    <3> HIDE DEF n, t
    <3> QED BY <1>0, <2>1, <3>1
  <2>3. CASE ~up[d] /\ status[d] = "Running"
    <3>1. n = pingCount[d] + 1
      BY <2>3 DEF Counted
    <3> HIDE DEF n, t
    <3> QED BY <1>0, <1>1, <1>4, <1>5, <2>1, <2>3, <3>1
  <2>4. CASE ~up[d] /\ status[d] = "Unknown"
    <3>1. n = pingCount[d] - 1
      BY <1>0, <2>4 DEF Counted
    <3> HIDE DEF n, t
    <3>2. ~(n % t = 0 /\ n > 0)
      BY <1>0, <1>4, <1>5, <3>1
    <3> QED BY <1>1, <2>1, <2>4, <3>2
  <2> QED BY <1>0, <2>2, <2>3, <2>4
<1>7. ASSUME NEW e \in DB \ {d} PROVE Counts(e)'
  BY <1>0, <1>2, <1>7 DEF PickInv, Pings, Counts, IsRunning
<1> QED
  BY <1>3, <1>6, <1>7 DEF Pings

\* A statement remembers a database that it picked while it was running.
LEMMA DonePicks ==
  ASSUME PickInv, Formed, NEW g, NEW ok, NEW d, config' = config, Done(g, ok, d),
         d = None \/ (d \in DB /\ IsRunning(d))
  PROVE  Picked'
<1>1. req'.picked = IF d = None THEN 0 ELSE bad[d]
  BY DEF Done, Formed
<1>2. config.times \in Nat \ {0}
  BY ConfigFacts DEF PickInv
<1>3. d # None => bad[d] \in Nat /\ bad[d] < 2 * config.times - 1
  BY RunningIsFresh DEF PickInv
<1>4. 0 < 2 * config.times - 1
  BY <1>2
<1> QED
  BY <1>1, <1>3, <1>4 DEF Picked, DeadAreAvoided

\* Every step keeps the bound on the failed pings of what is picked.
LEMMA PickNext == Formed /\ PickInv /\ [Next]_vars => PickInv'
<1> SUFFICES ASSUME Formed, PickInv, [Next]_vars PROVE PickInv'
  OBVIOUS
<1>0. config' = config
  BY DEF Next, vars, ServerDown, ServerUp, Ping, Timer, ErrorsAge, OtherPreHandle,
         OtherPostHandle, PreHandle, OutsideTx, BeginChild, InTx, Commit,
         CommitUnanswered, Rollback, MapRace, Finish, Recover, Disconnect,
         ConnectionClosed, Connect
<1>1. ASSUME UNCHANGED <<dbVars, envVars>> PROVE Pings'
  BY <1>0, <1>1 DEF PickInv, Pings, Counts, IsRunning, dbVars, envVars
<1>2. ASSUME UNCHANGED dbVars, up' \in [DB -> BOOLEAN] PROVE Pings'
  BY <1>0, <1>2 DEF PickInv, Pings, Counts, IsRunning, dbVars
<1>3. ASSUME req'.picked = req.picked PROVE Picked'
  BY <1>0, <1>3 DEF PickInv, Picked, DeadAreAvoided
<1>4. ASSUME req'.picked = 0 PROVE Picked'
  BY <1>0, <1>4, ConfigFacts DEF PickInv, Picked, DeadAreAvoided
<1>5. ASSUME NEW d \in DB, ServerDown(d) \/ ServerUp(d) PROVE PickInv'
  <2>1. UNCHANGED <<dbVars, req>> /\ up' \in [DB -> BOOLEAN]
    BY <1>5 DEF ServerDown, ServerUp, PickInv, Pings
  <2> QED BY <1>0, <1>2, <1>3, <2>1 DEF PickInv
<1>6. ASSUME NEW d \in DB, Ping(d) PROVE PickInv'
  <2>1. UNCHANGED req
    BY <1>6 DEF Ping
  <2> QED BY <1>0, <1>3, <1>6, <2>1, PingCounts DEF PickInv
<1>7. CASE \/ Timer \/ ErrorsAge \/ OtherPreHandle \/ MapRace \/ Connect
           \/ \E err \in BOOLEAN : OtherPostHandle(err)
  <2>1. UNCHANGED <<dbVars, envVars, req>>
    BY <1>7 DEF Timer, ErrorsAge, OtherPreHandle, MapRace, Connect, OtherPostHandle
  <2> QED BY <1>0, <1>1, <1>3, <2>1 DEF PickInv
<1>8. ASSUME NEW op, PreHandle(op) PROVE PickInv'
  <2>1. UNCHANGED <<dbVars, envVars>> /\ (req' = req \/ req'.picked = 0)
    BY <1>8 DEF PreHandle
  <2> QED BY <1>0, <1>1, <1>3, <1>4, <2>1 DEF PickInv
<1>9. CASE Finish \/ Recover \/ Disconnect \/ ConnectionClosed
  <2>1. UNCHANGED <<dbVars, envVars>> /\ req'.picked = 0
    <3>1. CASE Finish \/ ConnectionClosed
      <4>1. UNCHANGED <<dbVars, envVars>> /\ req' = NoReq
        BY <3>1 DEF Finish, ConnectionClosed
      <4> QED BY <4>1 DEF NoReq
    <3>2. CASE Recover \/ Disconnect
      <4>1. UNCHANGED <<dbVars, envVars>> /\ req' = [NoReq EXCEPT !.todo = Children]
        BY <3>2 DEF Recover, Disconnect
      <4> QED BY <4>1 DEF NoReq
    <3> QED BY <1>9, <3>1, <3>2
  <2> QED BY <1>0, <1>1, <1>4, <2>1 DEF PickInv
<1>10. ASSUME NEW g \in Group, Commit(g) \/ Rollback(g) \/ CommitUnanswered(g)
       PROVE  PickInv'
  <2>1. UNCHANGED dbVars /\ up' \in [DB -> BOOLEAN]
    BY <1>10 DEF Commit, Rollback, CommitUnanswered, envVars, PickInv, Pings
  <2>2. req'.picked = req.picked
    BY <1>10 DEF Commit, Rollback, CommitUnanswered, Formed
  <2> QED BY <1>0, <1>2, <1>3, <2>1, <2>2 DEF PickInv
<1>11. ASSUME NEW g \in Group, InTx(g) PROVE PickInv'
  <2>1. UNCHANGED <<dbVars, envVars>> /\ Done(g, fate[g] = "open", None)
    BY <1>11 DEF InTx
  <2> QED BY <1>0, <1>1, <2>1, DonePicks DEF PickInv
<1>12. ASSUME NEW g \in Group, OutsideTx(g) PROVE PickInv'
  <2>1. UNCHANGED <<dbVars, envVars>>
    BY <1>12 DEF OutsideTx
  <2>2. PICK d \in Pick(g) : UNCHANGED req \/ (d # Panic /\ Done(g, up[d], d))
    BY <1>12 DEF OutsideTx
  <2>3. CASE d # Panic /\ Done(g, up[d], d)
    <3>1. d \in DB /\ IsRunning(d)
      BY <2>3, PickRuns DEF PickInv
    <3> QED BY <1>0, <1>1, <2>1, <2>3, <3>1, DonePicks DEF PickInv
  <2> QED BY <1>0, <1>1, <1>3, <2>1, <2>2, <2>3 DEF PickInv
<1>13. ASSUME NEW g \in Group, BeginChild(g) PROVE PickInv'
  <2>1. UNCHANGED <<dbVars, envVars>>
    BY <1>13 DEF BeginChild
  <2>2. PICK d \in At(config.masters[g], 0) :
          \/ UNCHANGED req
          \/ d # Panic /\ (Done(g, TRUE, d) \/ Done(g, FALSE, d))
          \/ d # Panic /\ req' = [req EXCEPT !.picked = bad[d]]
    BY <1>13 DEF BeginChild
  <2>3. CASE d # Panic
    <3>1. d \in DB /\ IsRunning(d)
      BY <2>3, PickRuns DEF PickInv
    <3>2. CASE Done(g, TRUE, d) \/ Done(g, FALSE, d)
      BY <1>0, <1>1, <2>1, <3>1, <3>2, DonePicks DEF PickInv
    <3>3. CASE req' = [req EXCEPT !.picked = bad[d]]
      <4>1. req'.picked = bad[d]
        BY <3>3 DEF Formed
      <4>2. Picked'
        BY <1>0, <3>1, <4>1, RunningIsFresh DEF Picked, DeadAreAvoided, PickInv
      <4> QED BY <1>0, <1>1, <2>1, <4>2 DEF PickInv
    <3> QED BY <1>0, <1>1, <1>3, <2>1, <2>2, <3>2, <3>3 DEF PickInv
  <2> QED BY <1>0, <1>1, <1>3, <2>1, <2>2, <2>3 DEF PickInv
<1>14. CASE UNCHANGED vars
  <2>1. UNCHANGED <<dbVars, envVars, req>>
    BY <1>14 DEF vars
  <2> QED BY <1>0, <1>1, <1>3, <2>1 DEF PickInv
<1> QED
  BY <1>5, <1>6, <1>7, <1>8, <1>9, <1>10, <1>11, <1>12, <1>13, <1>14 DEF Next

\* All databases are running and none has failed a ping when the proxy starts.
LEMMA PickInit == Init => PickInv
<1> SUFFICES ASSUME Init PROVE PickInv
  OBVIOUS
<1>1. config \in Configs /\ config.times \in Nat \ {0}
  BY ConfigFacts DEF Init
<1>2. ASSUME NEW d \in DB PROVE Counts(d)
  BY <1>1 DEF Init, Counts
<1>3. Pings
  BY <1>2 DEF Init, Pings
<1>4. Picked
  BY <1>1 DEF Init, NoReq, Picked, DeadAreAvoided
<1> QED
  BY <1>1, <1>3, <1>4 DEF PickInv

\* The bound on failed pings holds of every behaviour.
LEMMA PickInvariance == Spec => []PickInv
<1>1. ServingInv => Formed
  BY DEF ServingInv
<1> QED
  BY <1>1, PickInit, PickNext, ServingInvariance, PTL DEF Spec

---------------------------------------------------------------------------
(***************************************************************************)
(* Panics                                                                  *)
(***************************************************************************)
\* Every index below the number of running databases is that of one of them.
LEMMA Ranks ==
  ASSUME NEW A \in SUBSET Nat, IsFiniteSet(A), NEW k \in Nat, k < Cardinality(A)
  PROVE  \E i \in A : Cardinality({h \in A : h < i}) = k
<1> DEFINE Below(i) == {h \in A : h < i}
           T == 0..(Cardinality(A) - 1)
           rank == [i \in A |-> Cardinality(Below(i))]
<1>1. Cardinality(A) \in Nat
  BY FS_CardinalityType
<1>2. \A i \in A : IsFiniteSet(Below(i)) /\ Cardinality(Below(i)) \in Nat
  BY FS_Subset, FS_CardinalityType
<1>3. ASSUME NEW i \in A PROVE rank[i] \in T
  <2>1. Cardinality(A \ {i}) = Cardinality(A) - 1 /\ IsFiniteSet(A \ {i})
    BY FS_RemoveElement
  <2>2. Below(i) \in SUBSET (A \ {i})
    OBVIOUS
  <2>3. Cardinality(Below(i)) <= Cardinality(A \ {i})
    BY <2>1, <2>2, FS_Subset
  <2> QED BY <1>1, <1>2, <2>1, <2>3
<1>4. ASSUME NEW i \in A, NEW j \in A, i < j PROVE rank[i] < rank[j]
  <2>1. /\ IsFiniteSet(Below(i) \cup {i})
        /\ Cardinality(Below(i) \cup {i}) = Cardinality(Below(i)) + 1
    BY <1>2, FS_AddElement
  <2>2. Below(i) \cup {i} \in SUBSET Below(j)
    <3>1. \A h \in A : h \in Int
      OBVIOUS
    <3>2. \A h \in A : h < i \/ h = i => h < j
      BY <1>4, <3>1
    <3> QED BY <3>2
  <2>3. Cardinality(Below(i) \cup {i}) <= Cardinality(Below(j))
    BY <1>2, <2>2, FS_Subset
  <2> HIDE DEF Below
  <2> QED BY <1>2, <2>1, <2>3
<1>5. rank \in Injection(A, T)
  <2>1. rank \in [A -> T]
    BY <1>3
  <2>2. ASSUME NEW i \in A, NEW j \in A, rank[i] = rank[j] PROVE i = j
    <3>1. rank[i] \in Int /\ rank[j] \in Int /\ i \in Int /\ j \in Int
      BY <1>3
    <3> HIDE DEF rank
    <3> QED BY <1>4, <2>2, <3>1
  <2> HIDE DEF rank, T
  <2> QED BY <2>1, <2>2 DEF Injection, IsInjective
<1>6. IsFiniteSet(T) /\ Cardinality(T) = Cardinality(A)
  <2>1. 0 \in Int /\ Cardinality(A) - 1 \in Int /\ ~(0 > Cardinality(A) - 1)
    BY <1>1
  <2>2. IsFiniteSet(T) /\ Cardinality(T) = Cardinality(A) - 1 - 0 + 1
    BY <2>1, FS_Interval
  <2> QED BY <1>1, <2>2
<1>7. rank \in Surjection(A, T)
  <2> HIDE DEF rank, T
  <2> QED BY <1>5, <1>6, FS_Injection
<1>8. k \in T
  BY <1>1
<1>9. PICK i \in A : rank[i] = k
  <2> HIDE DEF rank, T
  <2> QED BY <1>7, <1>8 DEF Surjection
<1> QED
  BY <1>9

\* An index is out of range only if it is not below the number of running
\* databases.
LEMMA AtPanics ==
  ASSUME NEW list \in Seq(DB), NEW k \in Nat, Panic \in At(list, k)
  PROVE  k >= Cardinality(Available(list))
<1> SUFFICES ASSUME k < Cardinality(Available(list)) PROVE FALSE
  BY AvailableFacts
<1>1. Available(list) \in SUBSET Nat /\ IsFiniteSet(Available(list))
  BY AvailableFacts
<1>2. \E i \in Available(list) : Cardinality({h \in Available(list) : h < i}) = k
  BY <1>1, Ranks
<1>3. \E i \in Available(list) : Panic = list[i]
  BY <1>2 DEF At, Elements
<1> QED
  BY <1>3, AvailableFacts, PanicAssumption

\* A weighted choice panics only without weights.
LEMMA WeightedPanics ==
  ASSUME NEW dbs \in SUBSET DB, NEW weight \in [DB -> Nat], Panic \in Weighted(dbs, weight)
  PROVE  \A d \in dbs : weight[d] = 0
<1>1. {d \in dbs : weight[d] > 0} = {}
  BY PanicAssumption DEF Weighted
<1> QED
  BY <1>1

\* The counters are counts, and read/write splitting reads from the group
\* that has masters.
ChoiceInv ==
  /\ config \in Configs
  /\ counter \in [Group -> [read : Nat, write : Nat]]
  /\ pc = "run" /\ config.mode = "RWS" /\ req.op = "read"
       => \A g \in req.todo : config.masters[g] # <<>>

\* A master is missing only if none is running or none has a weight.
LEMMA MasterPanics ==
  ASSUME ChoiceInv, NEW g \in Group, Panic \in MasterOf(g)
  PROVE  \/ NoMaster(g)
         \/ /\ config.algorithm = "RandomWeight"
            /\ \A d \in Masters(g) : WriteWeight[d] = 0
<1> DEFINE n == Cardinality(getAvailableMasters(g))
<1>1. config.masters[g] \in Seq(DB)
  BY ConfigFacts DEF ChoiceInv
<1>2. n \in Nat /\ (n = 0 <=> NoMaster(g)) /\ n = Cardinality(Available(config.masters[g]))
  BY <1>1, AvailableFacts DEF getAvailableMasters, NoMaster
<1>3. Masters(g) \in SUBSET DB /\ Panic \notin Masters(g)
  BY <1>1, AvailableFacts, PanicAssumption DEF Masters, Elements, getAvailableMasters
<1>4. counter[g].write \in Nat
  BY DEF ChoiceInv
<1> HIDE DEF n
<1>5. CASE n = 1 \/ (n > 1 /\ config.algorithm = "Random")
  <2>1. MasterOf(g) = Masters(g)
    BY <1>2, <1>5 DEF MasterOf, n
  <2> QED BY <1>3, <2>1
<1>6. CASE n > 1 /\ config.algorithm = "RoundRobin"
  <2>1. MasterOf(g) = At(config.masters[g], counter[g].write % n)
    BY <1>2, <1>6 DEF MasterOf, n
  <2>2. counter[g].write % n \in Nat /\ counter[g].write % n < n
    BY <1>2, <1>4, <1>6
  <2> QED BY <1>1, <1>2, <2>1, <2>2, AtPanics
<1>7. CASE n > 1 /\ config.algorithm = "RandomWeight"
  <2>1. MasterOf(g) = Weighted(Masters(g), WriteWeight)
    BY <1>2, <1>7 DEF MasterOf, n
  <2>2. WriteWeight \in [DB -> Nat]
    BY ServingAssumption
  <2> QED BY <1>3, <1>7, <2>1, <2>2, WeightedPanics
<1>8. CASE n = 0
  BY <1>2, <1>8
<1> QED
  BY <1>2, <1>5, <1>6, <1>7, <1>8, ConfigFacts DEF ChoiceInv

\* A choice panics without a running database, or in one of the two shapes.
LEMMA PickPanics ==
  ASSUME ChoiceInv, NEW g \in Group, pc = "run", g \in req.todo, Panic \in Pick(g)
  PROVE  \/ NoMaster(g) /\ (FromSlave => getAvailableSlaves(g) = {})
         \/ RoundRobinShape(g) \/ WeightShape(g)
<1>1. CASE ~FromSlave
  BY <1>1, MasterPanics DEF Pick, WeightShape
<1>2. CASE FromSlave
  <2> DEFINE n == Cardinality(getAvailableSlaves(g))
             m == Cardinality(getAvailableMasters(g))
  <2>1. config.masters[g] \in Seq(DB) /\ config.slaves[g] \in Seq(DB)
    BY ConfigFacts DEF ChoiceInv
  <2>2. /\ n \in Nat /\ (n = 0 <=> getAvailableSlaves(g) = {})
        /\ n = Cardinality(Available(config.slaves[g]))
        /\ m \in Nat /\ (m = 0 <=> NoMaster(g))
    BY <2>1, AvailableFacts DEF getAvailableSlaves, getAvailableMasters, NoMaster
  <2>3. Masters(g) \in SUBSET DB /\ Slaves(g) \in SUBSET DB /\ Panic \notin Slaves(g)
    BY <2>1, AvailableFacts, PanicAssumption
       DEF Masters, Slaves, Elements, getAvailableMasters, getAvailableSlaves
  <2>4. Panic \in SlaveOf(g)
    BY <1>2 DEF Pick
  <2>5. CASE config.algorithm = "RandomWeight"
    <3>1. Panic \in randomWeight(g)
      BY <2>4, <2>5 DEF SlaveOf
    <3>2. CASE m + n = 1
      <4>1. Panic \in At(config.slaves[g], 0)
        BY <3>1, <3>2 DEF randomWeight
      <4>2. 0 >= n
        BY <2>1, <2>2, <4>1, AtPanics
      <4>3. getAvailableSlaves(g) = {} /\ m = 1
        <5> HIDE DEF m, n
        <5> QED BY <2>2, <3>2, <4>2
      <4> QED BY <1>2, <2>5, <4>3 DEF WeightShape
    <3>3. CASE m + n # 1
      <4>1. Panic \in Weighted(Masters(g) \cup Slaves(g), ReadWeight)
        BY <3>1, <3>3 DEF randomWeight
      <4>2. ReadWeight \in [DB -> Nat]
        BY ServingAssumption
      <4>3. \A d \in Masters(g) \cup Slaves(g) : ReadWeight[d] = 0
        BY <2>3, <4>1, <4>2, WeightedPanics
      <4> QED BY <1>2, <2>5, <4>3 DEF WeightShape
    <3> QED BY <3>2, <3>3
  <2>6. CASE config.algorithm # "RandomWeight" /\ n = 0
    <3>1. Panic \in MasterOf(g)
      BY <2>4, <2>6 DEF SlaveOf
    <3> QED BY <2>2, <2>6, <3>1, MasterPanics
  <2>7. CASE config.algorithm # "RandomWeight" /\ (n = 1 \/ config.algorithm = "Random") /\ n # 0
    <3>1. SlaveOf(g) = Slaves(g)
      BY <2>7 DEF SlaveOf
    <3> QED BY <2>3, <2>4, <3>1
  <2>8. CASE config.algorithm = "RoundRobin" /\ n \notin {0, 1}
    <3>1. config.masters[g] # <<>>
      BY <1>2 DEF FromSlave, ChoiceInv
    <3> DEFINE l == Len(config.masters[g])
               k == counter[g].read % l
    <3>2. Panic \in At(config.slaves[g], k)
      BY <2>4, <2>8, <3>1 DEF SlaveOf
    <3>3. l \in Nat \ {0} /\ counter[g].read \in Nat
      BY <2>1, <3>1 DEF ChoiceInv
    <3>4. k \in Nat /\ k < l
      BY <3>3
    <3>5. k >= n
      BY <2>1, <2>2, <3>2, <3>4, AtPanics
    <3>6. l > n /\ n > 1
      <4> HIDE DEF n, k, l
      <4> QED BY <2>2, <2>8, <3>3, <3>4, <3>5
    <3> QED BY <1>2, <2>8, <3>6 DEF RoundRobinShape
  <2> QED BY <2>5, <2>6, <2>7, <2>8, ConfigFacts DEF ChoiceInv
<1> QED
  BY <1>1, <1>2

\* Every step keeps the counters and what is read.
LEMMA ChoiceNext == Formed /\ ChoiceInv /\ [Next]_vars => ChoiceInv'
<1> SUFFICES ASSUME Formed, ChoiceInv, [Next]_vars PROVE ChoiceInv'
  OBVIOUS
<1>0. config' = config
  BY DEF Next, vars, ServerDown, ServerUp, Ping, Timer, ErrorsAge, OtherPreHandle,
         OtherPostHandle, PreHandle, OutsideTx, BeginChild, InTx, Commit,
         CommitUnanswered, Rollback, MapRace, Finish, Recover, Disconnect,
         ConnectionClosed, Connect
<1>1. ASSUME UNCHANGED <<counter, pc, req>> PROVE ChoiceInv'
  BY <1>0, <1>1 DEF ChoiceInv
<1>2. ASSUME UNCHANGED counter, pc' # "run" PROVE ChoiceInv'
  BY <1>0, <1>2 DEF ChoiceInv
<1>3. ASSUME counter' \in [Group -> [read : Nat, write : Nat]], UNCHANGED pc,
             req'.op = req.op, req'.todo \subseteq req.todo
      PROVE  ChoiceInv'
  BY <1>0, <1>3 DEF ChoiceInv
<1>4. ASSUME NEW g, NEW ok, NEW d, Done(g, ok, d)
      PROVE  req'.op = req.op /\ req'.todo \subseteq req.todo
  BY <1>4 DEF Done, Formed
<1>5. ASSUME NEW d \in DB, ServerDown(d) \/ ServerUp(d) \/ Ping(d) PROVE ChoiceInv'
  BY <1>1, <1>5 DEF ServerDown, ServerUp, Ping
<1>6. CASE \/ Timer \/ ErrorsAge \/ OtherPreHandle
           \/ \E err \in BOOLEAN : OtherPostHandle(err)
  BY <1>1, <1>6 DEF Timer, ErrorsAge, OtherPreHandle, OtherPostHandle
<1>7. CASE MapRace \/ Finish \/ Recover \/ Disconnect \/ ConnectionClosed \/ Connect
  BY <1>2, <1>7 DEF MapRace, Finish, Recover, Disconnect, ConnectionClosed, Connect
<1>8. ASSUME NEW op \in {"begin", "commit", "rollback", "rollbackTo", "read", "write"},
             PreHandle(op)
      PROVE  ChoiceInv'
  <2>1. counter' = counter
    BY <1>8 DEF PreHandle
  <2>2. CASE breaker.state = "open"
    BY <1>1, <1>8, <2>1, <2>2 DEF PreHandle
  <2>3. CASE breaker.state # "open"
    <3>1. PICK G \in Groups(op) :
            req' = [op |-> op, groups |-> G, todo |-> Todo(op, G),
                    err |-> NeedsTx(op) /\ ~inTx, picked |-> 0]
      BY <1>8, <2>3 DEF PreHandle
    <3>2. CASE config.mode = "RWS" /\ op = "read"
      <4> DEFINE m == CHOOSE g \in Group : config.masters[g] # <<>>
      <4>1. config.masters[m] # <<>>
        BY <3>2, ConfigFacts DEF ChoiceInv
      <4>2. Todo(op, G) = G
        BY <3>2 DEF Todo
      <4>3. Groups(op) = {{m}}
        BY <3>2 DEF Groups
      <4>4. req'.todo = {m}
        BY <3>1, <4>2, <4>3
      <4> HIDE DEF m
      <4> QED BY <1>0, <2>1, <4>1, <4>4 DEF ChoiceInv
    <3>3. CASE ~(config.mode = "RWS" /\ op = "read")
      <4>1. req'.op = op
        BY <3>1
      <4> QED BY <1>0, <2>1, <3>3, <4>1 DEF ChoiceInv
    <3> QED BY <3>2, <3>3
  <2> QED BY <2>2, <2>3
<1>9. ASSUME NEW g \in Group, Commit(g) \/ CommitUnanswered(g) \/ Rollback(g)
      PROVE  ChoiceInv'
  <2>1. UNCHANGED <<counter, pc>> /\ req'.op = req.op /\ req'.todo \subseteq req.todo
    BY <1>9 DEF Commit, CommitUnanswered, Rollback, Formed
  <2> QED BY <1>3, <2>1 DEF ChoiceInv
<1>10. ASSUME NEW g \in Group, InTx(g) PROVE ChoiceInv'
  <2>1. UNCHANGED <<counter, pc>> /\ Done(g, fate[g] = "open", None)
    BY <1>10 DEF InTx
  <2> QED BY <1>3, <1>4, <2>1 DEF ChoiceInv
<1>11. ASSUME NEW g \in Group, BeginChild(g) PROVE ChoiceInv'
  <2>1. counter' = counter
    BY <1>11 DEF BeginChild
  <2>2. PICK d \in At(config.masters[g], 0) :
          \/ Panics
          \/ UNCHANGED pc /\ (Done(g, TRUE, d) \/ Done(g, FALSE, d))
          \/ UNCHANGED pc /\ req' = [req EXCEPT !.picked = bad[d]]
    BY <1>11 DEF BeginChild
  <2>3. CASE Panics
    BY <1>2, <2>1, <2>3 DEF Panics
  <2>4. CASE UNCHANGED pc /\ (Done(g, TRUE, d) \/ Done(g, FALSE, d))
    BY <1>3, <1>4, <2>1, <2>4 DEF ChoiceInv
  <2>5. CASE UNCHANGED pc /\ req' = [req EXCEPT !.picked = bad[d]]
    <3>1. req'.op = req.op /\ req'.todo = req.todo
      BY <2>5 DEF Formed
    <3> QED BY <1>3, <2>1, <2>5, <3>1 DEF ChoiceInv
  <2> QED BY <2>2, <2>3, <2>4, <2>5
<1>12. ASSUME NEW g \in Group, OutsideTx(g) PROVE ChoiceInv'
  <2>1. counter' \in [Group -> [read : Nat, write : Nat]]
    <3>1. counter' = Counters(g) /\ counter \in [Group -> [read : Nat, write : Nat]]
      BY <1>12 DEF OutsideTx, ChoiceInv
    <3>2. PICK which \in {"read", "write"} :
            \/ counter' = counter
            \/ counter' = [counter EXCEPT ![g][which] = (counter[g][which] + 1) % config.modulus]
      BY <3>1 DEF Counters
    <3>3. config.modulus \in Nat \ {0} /\ counter[g] \in [read : Nat, write : Nat]
      BY <3>1, ConfigFacts DEF ChoiceInv
    <3>4. counter[g][which] \in Nat
      BY <3>3
    <3>5. (counter[g][which] + 1) % config.modulus \in Nat
      BY <3>3, <3>4
    <3>6. [counter[g] EXCEPT ![which] = (counter[g][which] + 1) % config.modulus]
            \in [read : Nat, write : Nat]
      BY <3>3, <3>5
    <3> QED BY <3>1, <3>2, <3>6
  <2>2. PICK d \in Pick(g) : \/ Panics
                             \/ UNCHANGED pc /\ Done(g, up[d], d)
    BY <1>12 DEF OutsideTx
  <2>3. CASE Panics
    BY <1>0, <2>1, <2>3 DEF Panics, ChoiceInv
  <2> QED BY <1>3, <1>4, <2>1, <2>2, <2>3
<1>13. CASE UNCHANGED vars
  BY <1>1, <1>13 DEF vars
<1> QED
  BY <1>5, <1>6, <1>7, <1>8, <1>9, <1>10, <1>11, <1>12, <1>13 DEF Next

\* The counters are counts, and reads go where masters are, in every behaviour.
LEMMA ChoiceInvariance == Spec => []ChoiceInv
<1>1. Init => ChoiceInv
  BY DEF Init, ChoiceInv
<1>2. ServingInv => Formed
  BY DEF ServingInv
<1> QED
  BY <1>1, <1>2, ChoiceNext, ServingInvariance, PTL DEF Spec

\* A step that panics does so for one of the causes.
LEMMA CauseOfPanic ==
  ASSUME ChoiceInv, [Next]_vars, pc = "run", pc' \in {"panic", "dead"}
  PROVE  \E g \in req.groups \cup req.todo :
           \/ NoMaster(g) /\ (FromSlave /\ ~inTx => getAvailableSlaves(g) = {})
           \/ RoundRobinShape(g) \/ WeightShape(g) \/ MapRace
<1>1. CASE MapRace
  <2>1. \E g \in Group : BeginsChild(g)
    <3>1. SUFFICES ASSUME {g \in Group : BeginsChild(g)} = {} PROVE FALSE
      OBVIOUS
    <3>2. Cardinality({g \in Group : BeginsChild(g)}) = 0
      BY <3>1, FS_EmptySet
    <3> QED BY <1>1, <3>2 DEF MapRace
  <2> QED BY <1>1, <2>1 DEF BeginsChild
<1>2. ASSUME NEW g \in Group, OutsideTx(g)
      PROVE  g \in req.todo /\ Panic \in Pick(g)
  BY <1>2 DEF OutsideTx
<1>3. ASSUME NEW g \in Group, BeginChild(g)
      PROVE  /\ g \in req.todo /\ NoMaster(g)
             /\ ~(FromSlave /\ ~inTx)
  <2>1. g \in req.todo /\ ~(FromSlave /\ ~inTx)
    BY <1>3 DEF BeginChild, BeginsChild, FromSlave
  <2>2. Panic \in At(config.masters[g], 0)
    BY <1>3 DEF BeginChild
  <2>3. config.masters[g] \in Seq(DB)
    BY ConfigFacts DEF ChoiceInv
  <2>4. 0 >= Cardinality(Available(config.masters[g]))
    BY <2>2, <2>3, AtPanics
  <2>5. Available(config.masters[g]) = {}
    BY <2>3, <2>4, AvailableFacts
  <2> QED BY <2>1, <2>5 DEF NoMaster, getAvailableMasters
<1>4. \/ MapRace
      \/ \E g \in Group : OutsideTx(g) \/ BeginChild(g)
  BY DEF Next, vars, ServerDown, ServerUp, Ping, Timer, ErrorsAge, OtherPreHandle,
         OtherPostHandle, PreHandle, InTx, Commit, CommitUnanswered, Rollback, Finish,
         Recover, Disconnect, ConnectionClosed, Connect
<1> QED
  BY <1>1, <1>2, <1>3, <1>4, PickPanics

---------------------------------------------------------------------------
(***************************************************************************)
(* Theorems                                                                *)
(***************************************************************************)
\* Exactly while the circuit breaker is open a timer is going to half-open
\* it, for every threshold and however many statements of others were in
\* flight when it opened.
THEOREM BreakerHasTimer == Spec => []OpenHasTimer
<1>1. BreakerOK => OpenHasTimer
  BY DEF BreakerOK
<1> QED
  BY <1>1, ServingInvariance, PTL

\* A connection without a transaction leaves every pool full, however the
\* children of its transactions ended in the groups, except for those of
\* transactions that another BEGIN had overwritten.
THEOREM ConnectionsReturn == Spec => []ConnectionsComeBack
<1>1. ServingInv => ConnectionsComeBack
  <2> SUFFICES ASSUME ServingInv, ~inTx, NEW d \in DB
               PROVE  free[d] + leaked[d] = config.capacity
    BY DEF ConnectionsComeBack
  <2>1. Holders(d) = {}
    BY ServingAssumption DEF ServingInv, NoStray, Children, Holders
  <2>2. Cardinality(Holders(d)) = 0
    BY <2>1, FS_EmptySet
  <2> QED BY <2>2, ServingAssumption DEF ServingInv, Balance, Formed
<1> QED
  BY <1>1, ServingInvariance, PTL

\* COMMIT of a transaction over any groups is answered with OK only if each
\* group it wrote to has committed, and ROLLBACK only if none has.
THEOREM CommitsAreWhole == Spec => []CommitIsWhole
<1>1. ServingInv => CommitIsWhole
  BY DEF ServingInv
<1> QED
  BY <1>1, ServingInvariance, PTL

\* No statement is sent to a database, and no transaction begun on it, when
\* its last 2 * times - 1 pings have failed: for every number of pings that
\* change a status, every load balancing algorithm and every list of
\* databases, whenever the servers go away and come back.
THEOREM DeadAreNotPicked == Spec => []DeadAreAvoided
<1>1. PickInv => DeadAreAvoided
  BY DEF PickInv, Picked
<1> QED
  BY <1>1, PickInvariance, PTL

\* A statement panics for lack of a database only if none that it may use is
\* running, or in one of the two shapes, or when two goroutines meet in the
\* map of children: for every list of databases, weights and counters.
THEOREM PanicsHaveCause == Spec => PanicHasCause
<1>1. ChoiceInv /\ [Next]_vars =>
        (pc = "run" /\ pc' \in {"panic", "dead"} =>
           \E g \in req.groups \cup req.todo :
             \/ NoMaster(g) /\ (FromSlave /\ ~inTx => getAvailableSlaves(g) = {})
             \/ RoundRobinShape(g) \/ WeightShape(g) \/ MapRace)
  BY CauseOfPanic
<1> QED
  BY <1>1, ChoiceInvariance, PTL DEF Spec, PanicHasCause
=============================================================================

-------------------------- MODULE EtcdStoreProofs --------------------------
(***************************************************************************)
(* Proofs about the storage driver, for any sets of transactions,          *)
(* branches, rows and goroutines, and any sequence of calls, failed calls  *)
(* and crashes.                                                            *)
(***************************************************************************)
EXTENDS EtcdStore, TLAPS

USE XidOfAssumption, RowsOfAssumption, NoneAssumption

\* A call on a branch or on a global transaction knows which one.
CallShape ==
  \A t \in Thread :
    /\ thread[t].pc \in {"filterRowKeys", "put", "delete", "unindex"}
         => thread[t].b \in Branch
    /\ thread[t].pc \in {"releaseRows", "getGlobal", "getKeys", "getBranches"}
         => thread[t].x \in XID

\* The branch of a registration in progress does not exist, and nobody else
\* is registering it.
RegisteringIsFresh ==
  \A t \in Thread : thread[t].pc = "filterRowKeys" =>
    /\ bs[thread[t].b] = "Unborn"
    /\ \A u \in Thread \ {t} :
         thread[u].pc = "filterRowKeys" => thread[u].b # thread[t].b

\* The revision a registration carries is one the global session has had, and
\* as long as it is the current one the status is still Begin.
RevisionGuards ==
  \A t \in Thread : thread[t].pc = "filterRowKeys" =>
    /\ thread[t].rev <= ver[XidOf[thread[t].b]]
    /\ thread[t].rev = ver[XidOf[thread[t].b]]
         => gs[XidOf[thread[t].b]] = "Begin"

\* Calls on an existing branch hold a branch that was registered once, and an
\* index key is deleted only after its branch.
HandlesExist ==
  \A t \in Thread :
    /\ thread[t].pc \in {"put", "delete"} => bs[thread[t].b] # "Unborn"
    /\ thread[t].pc = "unindex"
         => bs[thread[t].b] \notin {"Unborn", "Registered"}
    /\ \A b \in thread[t].puts : bs[b] # "Unborn"

IndInv == /\ TypeOK
          /\ CallShape
          /\ RegisteringIsFresh
          /\ RevisionGuards
          /\ HandlesExist
          /\ RegisteredIsIndexed

---------------------------------------------------------------------------
\* The state of a goroutine that is not in a call is well formed.
LEMMA IdleIsCall == Idle \in Call
BY DEF Idle, Call

\* The initial state satisfies the invariant: no keys and no calls.
LEMMA InitIndInv == Init => IndInv
BY IdleIsCall DEF Init, IndInv, TypeOK, CallShape, RegisteringIsFresh,
   RevisionGuards, HandlesExist, RegisteredIsIndexed, Idle, GlobalStatus,
   BranchStatus

\* Every step of the driver preserves the type invariant.
LEMMA TypeNext == TypeOK /\ CallShape /\ [Next]_vars => TypeOK'
<1> SUFFICES ASSUME TypeOK, CallShape, [Next]_vars PROVE TypeOK'
  OBVIOUS
<1> USE IdleIsCall DEF TypeOK
<1>1. ASSUME NEW x \in XID, AddGlobalSession(x)
      PROVE  TypeOK'
  BY <1>1 DEF AddGlobalSession, GlobalStatus, BranchStatus, Call, Idle
<1>2. ASSUME NEW x \in XID, DeleteGlobalSession(x)
      PROVE  TypeOK'
  BY <1>2 DEF DeleteGlobalSession, GlobalStatus, BranchStatus, Call, Idle
<1>3. ASSUME NEW b \in Branch, SetBranchSessionDead(b)
      PROVE  TypeOK'
  BY <1>3 DEF SetBranchSessionDead, GlobalStatus, BranchStatus, Call, Idle
<1>4. ASSUME NEW t \in Thread, NEW r \in Row, FilterRowKey(t, r)
      PROVE  TypeOK'
  <2> DEFINE keep == IF rowKey[r] = XidOf[thread[t].b]
                       THEN thread[t].keep ELSE thread[t].keep \cup {r}
             c == [thread[t] EXCEPT !.rows = @ \ {r}, !.keep = keep]
  <2>1. keep \in SUBSET Row
    BY DEF Call
  <2>2. c \in Call
    <3> HIDE DEF keep
    <3> QED BY <2>1 DEF Call
  <2>3. thread' = [thread EXCEPT ![t] = c]
    BY <1>4 DEF FilterRowKey
  <2> QED
    BY <1>4, <2>2, <2>3 DEF FilterRowKey
<1>5. ASSUME NEW t \in Thread, NEW r \in Row, ReleaseRow(t, r)
      PROVE  TypeOK'
  <2> DEFINE lks == IF rowKey[r] = None THEN thread[t].lks
                      ELSE thread[t].lks \cup {<<rowKey[r], r>>}
             c == [thread[t] EXCEPT !.rows = @ \ {r}, !.lks = lks]
  <2>1. lks \in SUBSET (XID \X Row)
    BY DEF Call
  <2>2. c \in Call
    <3> HIDE DEF lks
    <3> QED BY <2>1 DEF Call
  <2>3. thread' = [thread EXCEPT ![t] = c]
    BY <1>5 DEF ReleaseRow
  <2> QED
    BY <1>5, <2>2, <2>3 DEF ReleaseRow
<1>6. ASSUME NEW t \in Thread, ReleaseRows(t)
      PROVE  TypeOK'
  <2> DEFINE c == [thread[t] EXCEPT !.pc = "getGlobal", !.rows = {}]
  <2>1. c \in Call
    BY DEF Call
  <2>2. thread' = [thread EXCEPT ![t] = c]
    BY <1>6 DEF ReleaseRows
  <2> QED
    BY <1>6, <2>1, <2>2 DEF ReleaseRows
<1>7. ASSUME NEW t \in Thread, CommitGetGlobal(t)
      PROVE  TypeOK'
  BY <1>7 DEF CommitGetGlobal, Return, GlobalStatus, BranchStatus, Call, Idle
<1>8. ASSUME NEW t \in Thread, GetBranchSessionKeys(t)
      PROVE  TypeOK'
  <2> DEFINE c == [thread[t] EXCEPT !.pc = "getBranches",
                                    !.keys = Keys(thread[t].x)]
  <2>1. c \in Call
    BY DEF Call, Keys
  <2>2. thread' = [thread EXCEPT ![t] = c]
    BY <1>8 DEF GetBranchSessionKeys
  <2> QED
    BY <1>8, <2>1, <2>2 DEF GetBranchSessionKeys
<1>9. ASSUME NEW t \in Thread, NEW b \in Branch, MarkBranchSession(t, b)
      PROVE  TypeOK'
  BY <1>9 DEF MarkBranchSession, Return, Exists, GlobalStatus, BranchStatus,
     Call, Idle
<1>10. ASSUME NEW t \in Thread, ReportPut(t)
      PROVE  TypeOK'
  <2>1. bs' \in [Branch -> BranchStatus]
    BY <1>10 DEF ReportPut, BranchStatus
  <2>2. [thread[t] EXCEPT !.pc = "delete"] \in Call
    BY DEF Call
  <2> QED
    BY <1>10, <2>1, <2>2 DEF ReportPut
<1>11. ASSUME NEW t \in Thread, ReportDelete(t)
      PROVE  TypeOK'
  <2>1. CASE Exists(thread[t].b)
    <3>1. bs' \in [Branch -> BranchStatus]
      BY <1>11, <2>1 DEF ReportDelete, BranchStatus
    <3>2. [thread[t] EXCEPT !.pc = "unindex"] \in Call
      BY DEF Call
    <3> QED
      BY <1>11, <2>1, <3>1, <3>2 DEF ReportDelete
  <2>2. CASE ~Exists(thread[t].b)
    BY <1>11, <2>2 DEF ReportDelete, Return
  <2> QED
    BY <2>1, <2>2
<1>12. ASSUME NEW t \in Thread, Unindex(t)
      PROVE  TypeOK'
  BY <1>12 DEF Unindex, Return, GlobalStatus, BranchStatus, Call, Idle
<1>13. ASSUME NEW t \in Thread, ReleaseTxn(t)
      PROVE  TypeOK'
  BY <1>13 DEF ReleaseTxn, Return, GlobalStatus, BranchStatus, Call, Idle
<1>14. ASSUME NEW t \in Thread, AddBranchTxn(t)
      PROVE  TypeOK'
  <2>1. thread' \in [Thread -> Call]
    BY <1>14 DEF AddBranchTxn, Return
  <2>2. thread[t] \in Call
    OBVIOUS
  <2>3. thread[t].keep \in SUBSET Row
    BY <2>2 DEF Call
  <2>4. CASE Comparisons(t) /\ thread[t].b \in Branch
    <3>1. bs' \in [Branch -> BranchStatus] /\ branchKey' \in SUBSET Branch
      BY <1>14, <2>4 DEF AddBranchTxn, IndexOps, BranchStatus
    <3>2. XidOf[thread[t].b] \in XID
      BY <2>4
    <3>3. rowKey' \in [Row -> XID \cup {None}]
      BY <1>14, <2>4, <3>2 DEF AddBranchTxn
    <3>4. lockKey' \in SUBSET (XID \X Row)
      BY <1>14, <2>4, <3>2, <2>3 DEF AddBranchTxn, LockOps
    <3> QED
      BY <1>14, <2>1, <3>1, <3>3, <3>4 DEF AddBranchTxn
  <2>5. CASE ~Comparisons(t)
    BY <1>14, <2>1, <2>5 DEF AddBranchTxn
  <2> QED
    BY <1>14, <2>4, <2>5 DEF AddBranchTxn, CallShape
<1>15. ASSUME NEW t \in Thread, DecideTxn(t)
      PROVE  TypeOK'
  <2>1. thread' \in [Thread -> Call]
    BY <1>15 DEF DecideTxn, Return
  <2>2. thread[t] \in Call
    OBVIOUS
  <2>3. gs' \in [XID -> GlobalStatus]
    BY <1>15, <2>2 DEF DecideTxn, GlobalStatus, Call
  <2>4. PhaseTwo(thread[t].to) \in BranchStatus
    BY DEF PhaseTwo, BranchStatus
  <2>5. bs' \in [Branch -> BranchStatus]
    BY <1>15, <2>4 DEF DecideTxn
  <2> QED
    BY <1>15, <2>1, <2>3, <2>5 DEF DecideTxn
<1>16. ASSUME NEW T \in SUBSET Thread, CallsFail(T)
      PROVE  TypeOK'
  BY <1>16 DEF CallsFail, GlobalStatus, BranchStatus, Call, Idle
<1>17. ASSUME NEW t \in Thread, NEW x \in XID, GlobalCommit(t, x)
      PROVE  TypeOK'
  BY <1>17 DEF GlobalCommit, GlobalStatus, BranchStatus, Call, Idle
<1>18. ASSUME NEW t \in Thread, NEW x \in XID, GlobalRollback(t, x)
      PROVE  TypeOK'
  BY <1>18 DEF GlobalRollback, GlobalStatus, BranchStatus, Call, Idle
<1>19. ASSUME NEW t \in Thread, NEW b \in Branch, AddBranchSession(t, b)
      PROVE  TypeOK'
  BY <1>19 DEF AddBranchSession, GlobalStatus, BranchStatus, Call, Idle
<1>20. ASSUME NEW t \in Thread, NEW b \in Branch, BranchReport(t, b)
      PROVE  TypeOK'
  BY <1>20 DEF BranchReport, GlobalStatus, BranchStatus, Call, Idle
<1>21. ASSUME NEW t \in Thread, NEW b \in Branch, DeleteBranchSession(t, b)
      PROVE  TypeOK'
  BY <1>21 DEF DeleteBranchSession, Exists, GlobalStatus, BranchStatus, Call,
     Idle
<1>22. ASSUME NEW t \in Thread, NEW rows \in SUBSET Row, ReleaseLockKeys(t,
   rows)
      PROVE  TypeOK'
  BY <1>22 DEF ReleaseLockKeys, GlobalStatus, BranchStatus, Call, Idle
<1>23. CASE UNCHANGED vars
  BY <1>23 DEF vars
<1> QED
  BY <1>1, <1>2, <1>3, <1>4, <1>5, <1>6, <1>7, <1>8, <1>9, <1>10, <1>11,
     <1>12, <1>13, <1>14, <1>15, <1>16, <1>17, <1>18, <1>19, <1>20, <1>21,
     <1>22, <1>23 DEF Next, Request

\* Every step of the driver preserves the rest of the invariant.
LEMMA IndInvNext == IndInv /\ TypeOK' /\ [Next]_vars => IndInv'
<1> SUFFICES ASSUME IndInv, TypeOK', [Next]_vars PROVE IndInv'
  OBVIOUS
<1> USE DEF IndInv, TypeOK
<1>1. ASSUME NEW x \in XID, AddGlobalSession(x)
      PROVE  IndInv'
  BY <1>1 DEF AddGlobalSession, CallShape, RegisteringIsFresh, RevisionGuards,
     HandlesExist, RegisteredIsIndexed, Call, Idle
<1>2. ASSUME NEW x \in XID, DeleteGlobalSession(x)
      PROVE  IndInv'
  BY <1>2 DEF DeleteGlobalSession, CallShape, RegisteringIsFresh,
     RevisionGuards, HandlesExist, RegisteredIsIndexed, Call, Idle
<1>3. ASSUME NEW b \in Branch, SetBranchSessionDead(b)
      PROVE  IndInv'
  BY <1>3 DEF SetBranchSessionDead, CallShape, RegisteringIsFresh,
     RevisionGuards, HandlesExist, RegisteredIsIndexed, Call, Idle
<1>4. ASSUME NEW t \in Thread, NEW r \in Row, FilterRowKey(t, r)
      PROVE  IndInv'
  <2> USE DEF FilterRowKey, Call, Idle
  <2>1. CallShape'
    BY <1>4 DEF CallShape
  <2>2. RegisteringIsFresh'
    BY <1>4 DEF CallShape, RegisteringIsFresh
  <2>3. RevisionGuards'
    BY <1>4 DEF CallShape, RevisionGuards
  <2>4. HandlesExist'
    BY <1>4 DEF CallShape, RegisteringIsFresh, HandlesExist
  <2>5. RegisteredIsIndexed'
    BY <1>4 DEF CallShape, HandlesExist, RegisteredIsIndexed
  <2> QED
    BY <2>1, <2>2, <2>3, <2>4, <2>5
<1>5. ASSUME NEW t \in Thread, NEW r \in Row, ReleaseRow(t, r)
      PROVE  IndInv'
  <2> USE DEF ReleaseRow, Call, Idle
  <2>1. CallShape'
    BY <1>5 DEF CallShape
  <2>2. RegisteringIsFresh'
    BY <1>5 DEF CallShape, RegisteringIsFresh
  <2>3. RevisionGuards'
    BY <1>5 DEF CallShape, RevisionGuards
  <2>4. HandlesExist'
    BY <1>5 DEF CallShape, RegisteringIsFresh, HandlesExist
  <2>5. RegisteredIsIndexed'
    BY <1>5 DEF CallShape, HandlesExist, RegisteredIsIndexed
  <2> QED
    BY <2>1, <2>2, <2>3, <2>4, <2>5
<1>6. ASSUME NEW t \in Thread, ReleaseRows(t)
      PROVE  IndInv'
  BY <1>6 DEF ReleaseRows, CallShape, RegisteringIsFresh, RevisionGuards,
     HandlesExist, RegisteredIsIndexed, Call, Idle
<1>7. ASSUME NEW t \in Thread, CommitGetGlobal(t)
      PROVE  IndInv'
  <2> USE DEF CommitGetGlobal, Return, Call, Idle
  <2>0. \A u \in Thread : \/ thread'[u] = thread[u]
                          \/ u = t /\ thread'[u].pc # "filterRowKeys"
    BY <1>7
  <2>1. CallShape'
    BY <1>7 DEF CallShape
  <2>2. RegisteringIsFresh'
    BY <1>7, <2>0 DEF CallShape, RegisteringIsFresh, HandlesExist
  <2>3. RevisionGuards'
    BY <1>7, <2>0 DEF CallShape, RevisionGuards
  <2>4. HandlesExist'
    BY <1>7 DEF CallShape, RegisteringIsFresh, HandlesExist
  <2>5. RegisteredIsIndexed'
    BY <1>7 DEF CallShape, HandlesExist, RegisteredIsIndexed
  <2> QED
    BY <2>1, <2>2, <2>3, <2>4, <2>5
<1>8. ASSUME NEW t \in Thread, GetBranchSessionKeys(t)
      PROVE  IndInv'
  <2> USE DEF GetBranchSessionKeys, Call, Idle
  <2>1. CallShape'
    BY <1>8 DEF CallShape
  <2>2. RegisteringIsFresh'
    BY <1>8 DEF CallShape, RegisteringIsFresh
  <2>3. RevisionGuards'
    BY <1>8 DEF CallShape, RevisionGuards
  <2>4. HandlesExist'
    BY <1>8 DEF CallShape, RegisteringIsFresh, HandlesExist
  <2>5. RegisteredIsIndexed'
    BY <1>8 DEF CallShape, HandlesExist, RegisteredIsIndexed
  <2> QED
    BY <2>1, <2>2, <2>3, <2>4, <2>5
<1>9. ASSUME NEW t \in Thread, NEW b \in Branch, MarkBranchSession(t, b)
      PROVE  IndInv'
  <2> USE DEF MarkBranchSession, Return, Exists, Call, Idle
  <2>1. CallShape'
    BY <1>9 DEF CallShape
  <2>2. RegisteringIsFresh'
    BY <1>9 DEF CallShape, RegisteringIsFresh
  <2>3. RevisionGuards'
    BY <1>9 DEF CallShape, RevisionGuards
  <2>4. HandlesExist'
    BY <1>9 DEF CallShape, RegisteringIsFresh, HandlesExist
  <2>5. RegisteredIsIndexed'
    BY <1>9 DEF CallShape, HandlesExist, RegisteredIsIndexed
  <2> QED
    BY <2>1, <2>2, <2>3, <2>4, <2>5
<1>10. ASSUME NEW t \in Thread, ReportPut(t)
      PROVE  IndInv'
  <2> USE DEF ReportPut, Call, Idle
  <2>0. \A u \in Thread : \/ thread'[u] = thread[u]
                          \/ u = t /\ thread'[u].pc # "filterRowKeys"
    BY <1>10
  <2>1. CallShape'
    BY <1>10 DEF CallShape
  <2>2. RegisteringIsFresh'
    BY <1>10, <2>0 DEF CallShape, RegisteringIsFresh, HandlesExist
  <2>3. RevisionGuards'
    BY <1>10, <2>0 DEF CallShape, RevisionGuards
  <2>4. HandlesExist'
    BY <1>10 DEF CallShape, RegisteringIsFresh, HandlesExist
  <2>5. RegisteredIsIndexed'
    BY <1>10 DEF CallShape, HandlesExist, RegisteredIsIndexed
  <2> QED
    BY <2>1, <2>2, <2>3, <2>4, <2>5
<1>11. ASSUME NEW t \in Thread, ReportDelete(t)
      PROVE  IndInv'
  <2> USE DEF ReportDelete, Return, Exists, Call, Idle
  <2>0. \A u \in Thread : \/ thread'[u] = thread[u]
                          \/ u = t /\ thread'[u].pc # "filterRowKeys"
    BY <1>11
  <2>1. CallShape'
    BY <1>11 DEF CallShape
  <2>2. RegisteringIsFresh'
    BY <1>11, <2>0 DEF CallShape, RegisteringIsFresh, HandlesExist
  <2>3. RevisionGuards'
    BY <1>11, <2>0 DEF CallShape, RevisionGuards
  <2>4. HandlesExist'
    BY <1>11 DEF CallShape, RegisteringIsFresh, HandlesExist
  <2>5. RegisteredIsIndexed'
    BY <1>11 DEF CallShape, HandlesExist, RegisteredIsIndexed
  <2> QED
    BY <2>1, <2>2, <2>3, <2>4, <2>5
<1>12. ASSUME NEW t \in Thread, Unindex(t)
      PROVE  IndInv'
  BY <1>12 DEF Unindex, Return, CallShape, RegisteringIsFresh, RevisionGuards,
     HandlesExist, RegisteredIsIndexed, Call, Idle
<1>13. ASSUME NEW t \in Thread, ReleaseTxn(t)
      PROVE  IndInv'
  BY <1>13 DEF ReleaseTxn, Return, CallShape, RegisteringIsFresh,
     RevisionGuards, HandlesExist, RegisteredIsIndexed, Call, Idle
<1>14. ASSUME NEW t \in Thread, AddBranchTxn(t)
      PROVE  IndInv'
  BY <1>14 DEF AddBranchTxn, Comparisons, LockOps, IndexOps, Return, CallShape,
     RegisteringIsFresh, RevisionGuards, HandlesExist, RegisteredIsIndexed,
     Call, Idle
<1>15. ASSUME NEW t \in Thread, DecideTxn(t)
      PROVE  IndInv'
  BY <1>15 DEF DecideTxn, Return, PhaseTwo, CallShape, RegisteringIsFresh,
     RevisionGuards, HandlesExist, RegisteredIsIndexed, Call, Idle
<1>16. ASSUME NEW T \in SUBSET Thread, CallsFail(T)
      PROVE  IndInv'
  BY <1>16 DEF CallsFail, CallShape, RegisteringIsFresh, RevisionGuards,
     HandlesExist, RegisteredIsIndexed, Call, Idle
<1>17. ASSUME NEW t \in Thread, NEW x \in XID, GlobalCommit(t, x)
      PROVE  IndInv'
  <2>1. /\ thread'[t].pc \in {"getGlobal", "releaseRows"}
        /\ thread'[t].x = x
        /\ thread'[t].puts = {}
        /\ \A u \in Thread \ {t} : thread'[u] = thread[u]
        /\ UNCHANGED <<gs, ver, bs, branchKey>>
    BY <1>17 DEF GlobalCommit, Idle
  <2>2. CallShape'
    BY <2>1 DEF CallShape
  <2>3. RegisteringIsFresh'
    BY <2>1 DEF RegisteringIsFresh
  <2>4. RevisionGuards'
    BY <2>1 DEF RevisionGuards
  <2>5. HandlesExist'
    BY <2>1 DEF HandlesExist
  <2>6. RegisteredIsIndexed'
    BY <2>1 DEF RegisteredIsIndexed
  <2> QED
    BY <2>2, <2>3, <2>4, <2>5, <2>6
<1>18. ASSUME NEW t \in Thread, NEW x \in XID, GlobalRollback(t, x)
      PROVE  IndInv'
  BY <1>18 DEF GlobalRollback, CallShape, RegisteringIsFresh, RevisionGuards,
     HandlesExist, RegisteredIsIndexed, Call, Idle
<1>19. ASSUME NEW t \in Thread, NEW b \in Branch, AddBranchSession(t, b)
      PROVE  IndInv'
  BY <1>19 DEF AddBranchSession, CallShape, RegisteringIsFresh,
     RevisionGuards, HandlesExist, RegisteredIsIndexed, Call, Idle
<1>20. ASSUME NEW t \in Thread, NEW b \in Branch, BranchReport(t, b)
      PROVE  IndInv'
  BY <1>20 DEF BranchReport, CallShape, RegisteringIsFresh, RevisionGuards,
     HandlesExist, RegisteredIsIndexed, Call, Idle
<1>21. ASSUME NEW t \in Thread, NEW b \in Branch, DeleteBranchSession(t, b)
      PROVE  IndInv'
  BY <1>21 DEF DeleteBranchSession, Exists, CallShape, RegisteringIsFresh,
     RevisionGuards, HandlesExist, RegisteredIsIndexed, Call, Idle
<1>22. ASSUME NEW t \in Thread, NEW rows \in SUBSET Row, ReleaseLockKeys(t,
   rows)
      PROVE  IndInv'
  BY <1>22 DEF ReleaseLockKeys, CallShape, RegisteringIsFresh, RevisionGuards,
     HandlesExist, RegisteredIsIndexed, Call, Idle
<1>23. CASE UNCHANGED vars
  BY <1>23 DEF vars, CallShape, RegisteringIsFresh, RevisionGuards,
     HandlesExist, RegisteredIsIndexed
<1> QED
  BY <1>1, <1>2, <1>3, <1>4, <1>5, <1>6, <1>7, <1>8, <1>9, <1>10, <1>11,
     <1>12, <1>13, <1>14, <1>15, <1>16, <1>17, <1>18, <1>19, <1>20, <1>21,
     <1>22, <1>23 DEF Next, Request

---------------------------------------------------------------------------
\* The invariant holds in every state, whoever calls the driver.
THEOREM Invariance == Spec => []IndInv
<1>1. IndInv /\ [Next]_vars => IndInv'
  BY TypeNext, IndInvNext DEF IndInv
<1> QED
  BY InitIndInv, <1>1, PTL DEF Spec

\* Type correctness of the driver and of the keys it writes.
THEOREM TypeCorrect == Spec => []TypeOK
<1>1. IndInv => TypeOK
  BY DEF IndInv
<1> QED
  BY Invariance, <1>1, PTL

\* A Registered branch is always in the index of its global transaction: no
\* interleaving and no failure between the two deletes of
\* DeleteBranchSession hides it from GlobalCommit and GlobalRollback.
THEOREM RegisteredAlwaysIndexed == Spec => []RegisteredIsIndexed
<1>1. IndInv => RegisteredIsIndexed
  BY DEF IndInv
<1> QED
  BY Invariance, <1>1, PTL

\* The guard of AddBranchSession does its work: a branch is born only while
\* the status of its global session is Begin.
THEOREM BornWhileBegin == Spec => RegisterOnlyWhileBegin
<1> DEFINE Born == \A b \in Branch : bs[b] = "Unborn" /\ bs'[b] # "Unborn"
                                       => gs[XidOf[b]] = "Begin"
<1>1. IndInv /\ [Next]_vars => [Born]_vars
  <2> SUFFICES ASSUME IndInv, Next, NEW b \in Branch,
                      bs[b] = "Unborn", bs'[b] # "Unborn"
               PROVE  gs[XidOf[b]] = "Begin"
    OBVIOUS
  <2> USE DEF IndInv, TypeOK
  <2>1. ASSUME NEW t \in Thread, AddBranchTxn(t)
        PROVE  gs[XidOf[b]] = "Begin"
    BY <2>1 DEF AddBranchTxn, Comparisons, CallShape, RevisionGuards
  <2>2. ASSUME NEW t \in Thread, DecideTxn(t) PROVE FALSE
    BY <2>2 DEF DecideTxn, HandlesExist
  <2>3. ASSUME NEW t \in Thread, ReportPut(t) \/ ReportDelete(t) PROVE FALSE
    BY <2>3 DEF ReportPut, ReportDelete, CallShape, HandlesExist, Exists,
       Return
  <2>4. ASSUME NEW c \in Branch, SetBranchSessionDead(c) PROVE FALSE
    BY <2>4 DEF SetBranchSessionDead
  <2>5. ASSUME NEW t \in Thread, NEW c \in Branch, DeleteBranchSession(t, c)
        PROVE  FALSE
    BY <2>5 DEF DeleteBranchSession, Exists
  <2>6. UNCHANGED bs \/ gs[XidOf[b]] = "Begin"
    BY <2>1, <2>2, <2>3, <2>4, <2>5
    DEF Next, Request, AddGlobalSession, DeleteGlobalSession, FilterRowKey,
        ReleaseRow, ReleaseRows, CommitGetGlobal, GetBranchSessionKeys,
        MarkBranchSession, Unindex, ReleaseTxn, CallsFail, GlobalCommit,
        GlobalRollback, AddBranchSession, BranchReport, ReleaseLockKeys
  <2> QED
    BY <2>6
<1>2. Spec => [][Born]_vars
  BY Invariance, <1>1, PTL DEF Spec
<1> QED
  BY <1>2 DEF RegisterOnlyWhileBegin

\* Locks are never taken over: notFound in the guard of AddBranchSession.
THEOREM NoTakeover == Spec => LocksPassThroughFree
<1> DEFINE Free == \A r \in Row : rowKey[r] # rowKey'[r]
                                    => rowKey[r] = None \/ rowKey'[r] = None
<1>1. IndInv /\ [Next]_vars => [Free]_vars
  <2> SUFFICES ASSUME IndInv, Next, NEW r \in Row, rowKey[r] # rowKey'[r],
                      rowKey[r] # None
               PROVE  rowKey'[r] = None
    OBVIOUS
  <2> USE DEF IndInv, TypeOK
  <2>1. ASSUME NEW t \in Thread, AddBranchTxn(t) PROVE FALSE
    BY <2>1 DEF AddBranchTxn, Comparisons
  <2>2. ASSUME NEW t \in Thread, ReleaseRows(t) PROVE rowKey'[r] = None
    BY <2>2 DEF ReleaseRows
  <2>3. ASSUME NEW t \in Thread, NEW s \in Row, ReleaseRow(t, s)
        PROVE  rowKey'[r] = None
    BY <2>3 DEF ReleaseRow
  <2> QED
    BY <2>1, <2>2, <2>3
    DEF Next, Request, AddGlobalSession, DeleteGlobalSession, FilterRowKey,
        CommitGetGlobal, GetBranchSessionKeys, MarkBranchSession, ReportPut,
        ReportDelete, Unindex, ReleaseTxn, DecideTxn, SetBranchSessionDead,
        CallsFail, GlobalCommit, GlobalRollback, AddBranchSession,
        BranchReport, DeleteBranchSession, ReleaseLockKeys
<1>2. Spec => [][Free]_vars
  BY Invariance, <1>1, PTL DEF Spec
<1> QED
  BY <1>2 DEF LocksPassThroughFree
=============================================================================

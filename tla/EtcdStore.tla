----------------------------- MODULE EtcdStore -----------------------------
(***************************************************************************)
(* The storage driver of the distributed transaction manager               *)
(* (pkg/dt/storage/etcd/etcd.go), called by any number of goroutines of    *)
(* any number of dbpack processes.                                         *)
(*                                                                         *)
(* Every request to etcd is atomic, and is one action here; what a call    *)
(* keeps in its local variables between two requests is the record         *)
(* thread[t].  A call and its first request are one action, because        *)
(* nothing the call does before that request is visible to anyone.         *)
(*                                                                         *)
(* The keys of the store:                                                  *)
(*    gs/${app}/${id}      the global session   gs[x]                      *)
(*    bs/${app}/${id}      the branch session   bs[b]                      *)
(*    bs/${XID}/${id}      the index of the branches of a global session:  *)
(*                         b \in branchKey                                 *)
(*    ${rowKey}            a locked row, rowKey[r] is its owner            *)
(*    lk/${XID}/${rowKey}  the rows a global session has locked: lockKey   *)
(*    dead/${BranchID}     the branches given up: deadKey                  *)
(***************************************************************************)
EXTENDS Naturals, FiniteSets

CONSTANTS XID,      \* global transactions
          Branch,   \* branch transactions
          Row,      \* row keys, "resource ^^^ table ^^^ primary key"
          Thread,   \* the goroutines that call the driver
          XidOf,    \* the global transaction of a branch
          RowsOf,   \* the row keys in the LockKey of a branch
          None      \* no value

ASSUME XidOfAssumption  == XidOf \in [Branch -> XID]
ASSUME RowsOfAssumption == RowsOf \in [Branch -> SUBSET Row]
ASSUME NoneAssumption   == None \notin XID /\ None \notin Branch

VARIABLES gs,         \* global session status; "Unborn", "Gone": no such key
          ver,        \* number of changes of the key of gs[x]: its ModRevision
          bs,         \* branch session status
          branchKey,  \* index keys
          rowKey,     \* owner of the lock of a row, or None
          lockKey,    \* lk/ keys, as pairs of a global transaction and a row
          deadKey,    \* dead/ keys
          thread      \* the call each goroutine is executing

vars == <<gs, ver, bs, branchKey, rowKey, lockKey, deadKey, thread>>

GlobalStatus == {"Unborn", "Begin", "Committing", "Rollbacking", "Gone"}

BranchStatus == {"Unborn", "Registered", "PhaseOneFailed",
                 "PhaseTwoCommitting", "PhaseTwoRollbacking", "Gone"}

\* What a call keeps between two requests.  rows: row keys still to be read
\* or deleted; keep: row keys that must not exist; lks: lk/ keys to delete;
\* keys: branches still to be read; puts: branches to mark.
Call == [pc   : {"idle", "filterRowKeys", "releaseRows", "getGlobal",
                 "getKeys", "getBranches", "put", "delete", "unindex",
                 "release"},
         x    : XID \cup {None},
         b    : Branch \cup {None},
         to   : {"Begin", "Committing", "Rollbacking"},
         rev  : Nat,
         rows : SUBSET Row,
         keep : SUBSET Row,
         lks  : SUBSET (XID \X Row),
         keys : SUBSET Branch,
         puts : SUBSET Branch]

Idle == [pc |-> "idle", x |-> None, b |-> None, to |-> "Begin", rev |-> 0,
         rows |-> {}, keep |-> {}, lks |-> {}, keys |-> {}, puts |-> {}]

Init == /\ gs = [x \in XID |-> "Unborn"]
        /\ ver = [x \in XID |-> 0]
        /\ bs = [b \in Branch |-> "Unborn"]
        /\ branchKey = {}
        /\ rowKey = [r \in Row |-> None]
        /\ lockKey = {}
        /\ deadKey = {}
        /\ thread = [t \in Thread |-> Idle]

---------------------------------------------------------------------------
(***************************************************************************)
(* Helpers                                                                 *)
(***************************************************************************)
BranchesOf(x) == {b \in Branch : XidOf[b] = x}

\* A branch session key exists.
Exists(b) == bs[b] \notin {"Unborn", "Gone"}

Return(t) == thread' = [thread EXCEPT ![t] = Idle]

---------------------------------------------------------------------------
(***************************************************************************)
(* AddGlobalSession: one put of a fresh key.                               *)
(***************************************************************************)
AddGlobalSession(x) ==
  /\ gs[x] = "Unborn"
  /\ gs' = [gs EXCEPT ![x] = "Begin"]
  /\ ver' = [ver EXCEPT ![x] = @ + 1]
  /\ UNCHANGED <<bs, branchKey, rowKey, lockKey, deadKey, thread>>

(***************************************************************************)
(* AddBranchSession: read the global session and its ModRevision, give up  *)
(* unless its status is Begin, read the rows one by one to find those the  *)
(* transaction does not hold yet, and register in one etcd transaction     *)
(* guarded by "the global session has not changed" and "nobody holds these *)
(* rows".  The branch id is fresh: nobody else is registering b.           *)
(***************************************************************************)
AddBranchSession(t, b) ==
  /\ thread[t] = Idle
  /\ bs[b] = "Unborn"
  /\ \A u \in Thread : thread[u].pc = "filterRowKeys" => thread[u].b # b
  /\ gs[XidOf[b]] = "Begin"
  /\ thread' = [thread EXCEPT ![t] =
                  [Idle EXCEPT !.pc = "filterRowKeys", !.b = b,
                               !.rev = ver[XidOf[b]], !.rows = RowsOf[b]]]
  /\ UNCHANGED <<gs, ver, bs, branchKey, rowKey, lockKey, deadKey>>

\* One iteration of getRowKeyValues, and what filterRowKeys does with it.
FilterRowKey(t, r) ==
  /\ thread[t].pc = "filterRowKeys"
  /\ r \in thread[t].rows
  /\ thread' = [thread EXCEPT
                  ![t].rows = @ \ {r},
                  ![t].keep = IF rowKey[r] = XidOf[thread[t].b]
                                THEN @ ELSE @ \cup {r}]
  /\ UNCHANGED <<gs, ver, bs, branchKey, rowKey, lockKey, deadKey>>

\* Mutants of the guard of the registration.
ComparisonsIgnoringRevision(t) ==
  \A r \in thread[t].keep : rowKey[r] = None

ComparisonsIgnoringRows(t) ==
  ver[XidOf[thread[t].b]] = thread[t].rev

\* The If part of the registering transaction.
Comparisons(t) ==
  /\ ver[XidOf[thread[t].b]] = thread[t].rev
  /\ \A r \in thread[t].keep : rowKey[r] = None

\* The lk/ keys the registering transaction puts.
LockOps(x, rows) == {x} \X rows

\* Mutant: the session is put without its index key.
NoIndexOps(b) == {}

\* The bs/xid/id index key it puts.
IndexOps(b) == {b}

AddBranchTxn(t) ==
  LET b == thread[t].b
      x == XidOf[b]
      keep == thread[t].keep
  IN  /\ thread[t].pc = "filterRowKeys"
      /\ thread[t].rows = {}
      /\ Return(t)
      /\ IF Comparisons(t)
           THEN /\ bs' = [bs EXCEPT ![b] = "Registered"]
                /\ branchKey' = branchKey \cup IndexOps(b)
                /\ lockKey' = lockKey \cup LockOps(x, keep)
                /\ rowKey' = [r \in Row |->
                                IF r \in keep THEN x ELSE rowKey[r]]
           ELSE UNCHANGED <<bs, branchKey, rowKey, lockKey>>
      /\ UNCHANGED <<gs, ver, deadKey>>

---------------------------------------------------------------------------
(***************************************************************************)
(* GlobalCommit and GlobalRollback.  A commit first releases the locks of  *)
(* the transaction (releaseGlobalLocks: delete the lk/ prefix, then the    *)
(* rows it named); both then read the global session, give up unless its   *)
(* status is Begin, list the index, read every branch and mark the         *)
(* Registered ones in one unconditional etcd transaction.                  *)
(***************************************************************************)
GlobalCommit(t, x) ==
  LET rows == {r \in Row : <<x, r>> \in lockKey}
  IN  /\ thread[t] = Idle
      /\ lockKey' = lockKey \ ({x} \X Row)
      /\ thread' = [thread EXCEPT ![t] =
                      [Idle EXCEPT !.pc = IF rows = {} THEN "getGlobal"
                                                       ELSE "releaseRows",
                                   !.x = x, !.to = "Committing",
                                   !.rows = rows]]
      /\ UNCHANGED <<gs, ver, bs, branchKey, rowKey, deadKey>>

\* The second request of releaseGlobalLocks, whoever holds the rows by now.
ReleaseRows(t) ==
  /\ thread[t].pc = "releaseRows"
  /\ rowKey' = [r \in Row |-> IF r \in thread[t].rows THEN None ELSE rowKey[r]]
  /\ thread' = [thread EXCEPT ![t].pc = "getGlobal", ![t].rows = {}]
  /\ UNCHANGED <<gs, ver, bs, branchKey, lockKey, deadKey>>

\* GetGlobalSession of a commit.
CommitGetGlobal(t) ==
  /\ thread[t].pc = "getGlobal"
  /\ IF gs[thread[t].x] = "Begin"
       THEN thread' = [thread EXCEPT ![t].pc = "getKeys"]
       ELSE Return(t)
  /\ UNCHANGED <<gs, ver, bs, branchKey, rowKey, lockKey, deadKey>>

GlobalRollback(t, x) ==
  /\ thread[t] = Idle
  /\ gs[x] = "Begin"
  /\ thread' = [thread EXCEPT ![t] =
                  [Idle EXCEPT !.pc = "getKeys", !.x = x,
                               !.to = "Rollbacking"]]
  /\ UNCHANGED <<gs, ver, bs, branchKey, rowKey, lockKey, deadKey>>

\* Mutant: the loop over the index stops one short.
KeysButOne(x) ==
  LET all == branchKey \cap BranchesOf(x)
  IN  IF all = {} THEN {} ELSE all \ {CHOOSE b \in all : TRUE}

\* The values under the index prefix of x.
Keys(x) == branchKey \cap BranchesOf(x)

GetBranchSessionKeys(t) ==
  /\ thread[t].pc = "getKeys"
  /\ thread' = [thread EXCEPT ![t].pc = "getBranches",
                              ![t].keys = Keys(thread[t].x)]
  /\ UNCHANGED <<gs, ver, bs, branchKey, rowKey, lockKey, deadKey>>

\* One iteration of commitBranchSessions or rollbackBranchSessions: a branch
\* that is not found ends the call with an error.
MarkBranchSession(t, b) ==
  /\ thread[t].pc = "getBranches"
  /\ b \in thread[t].keys
  /\ IF Exists(b)
       THEN thread' = [thread EXCEPT
                         ![t].keys = @ \ {b},
                         ![t].puts = IF bs[b] = "Registered"
                                       THEN @ \cup {b} ELSE @]
       ELSE Return(t)
  /\ UNCHANGED <<gs, ver, bs, branchKey, rowKey, lockKey, deadKey>>

\* Mutant: rollbackBranchSessions copied from commitBranchSessions.
PhaseTwoCommits(to) == "PhaseTwoCommitting"

\* The status a decision gives to the branches it marked.
PhaseTwo(to) ==
  IF to = "Committing" THEN "PhaseTwoCommitting" ELSE "PhaseTwoRollbacking"

\* Mutant: the status a finished global session never has in the store.
DecideTxnFinished(t) ==
  /\ thread[t].pc = "getBranches"
  /\ thread[t].keys = {}
  /\ gs' = [gs EXCEPT ![thread[t].x] = "Finished"]
  /\ ver' = [ver EXCEPT ![thread[t].x] = @ + 1]
  /\ bs' = [b \in Branch |-> IF b \in thread[t].puts
                               THEN PhaseTwo(thread[t].to) ELSE bs[b]]
  /\ Return(t)
  /\ UNCHANGED <<branchKey, rowKey, lockKey, deadKey>>

DecideTxn(t) ==
  /\ thread[t].pc = "getBranches"
  /\ thread[t].keys = {}
  /\ gs' = [gs EXCEPT ![thread[t].x] = thread[t].to]
  /\ ver' = [ver EXCEPT ![thread[t].x] = @ + 1]
  /\ bs' = [b \in Branch |-> IF b \in thread[t].puts
                               THEN PhaseTwo(thread[t].to) ELSE bs[b]]
  /\ Return(t)
  /\ UNCHANGED <<branchKey, rowKey, lockKey, deadKey>>

DeleteGlobalSession(x) ==
  /\ gs[x] \notin {"Unborn", "Gone"}
  /\ gs' = [gs EXCEPT ![x] = "Gone"]
  /\ ver' = [ver EXCEPT ![x] = @ + 1]
  /\ UNCHANGED <<bs, branchKey, rowKey, lockKey, deadKey, thread>>

---------------------------------------------------------------------------
(***************************************************************************)
(* BranchReport(b, PhaseOneFailed), the only status it is called with:     *)
(* read the branch, overwrite it if it was Registered, then delete it.     *)
(***************************************************************************)
BranchReport(t, b) ==
  /\ thread[t] = Idle
  /\ bs[b] \in {"Registered", "PhaseOneFailed"}
  /\ thread' = [thread EXCEPT ![t] =
                  [Idle EXCEPT !.pc = IF bs[b] = "Registered" THEN "put"
                                                              ELSE "delete",
                               !.b = b]]
  /\ UNCHANGED <<gs, ver, bs, branchKey, rowKey, lockKey, deadKey>>

ReportPut(t) ==
  /\ thread[t].pc = "put"
  /\ bs' = [bs EXCEPT ![thread[t].b] = "PhaseOneFailed"]
  /\ thread' = [thread EXCEPT ![t].pc = "delete"]
  /\ UNCHANGED <<gs, ver, branchKey, rowKey, lockKey, deadKey>>

(***************************************************************************)
(* DeleteBranchSession: delete the branch, and, if it was there, its index *)
(* key, in two requests.                                                   *)
(***************************************************************************)
DeleteBranchSession(t, b) ==
  /\ thread[t] = Idle
  /\ Exists(b)
  /\ bs' = [bs EXCEPT ![b] = "Gone"]
  /\ thread' = [thread EXCEPT ![t] = [Idle EXCEPT !.pc = "unindex", !.b = b]]
  /\ UNCHANGED <<gs, ver, branchKey, rowKey, lockKey, deadKey>>

\* The same request at the end of BranchReport.
ReportDelete(t) ==
  LET b == thread[t].b
  IN  /\ thread[t].pc = "delete"
      /\ IF Exists(b)
           THEN /\ bs' = [bs EXCEPT ![b] = "Gone"]
                /\ thread' = [thread EXCEPT ![t].pc = "unindex"]
           ELSE Return(t) /\ UNCHANGED bs
      /\ UNCHANGED <<gs, ver, branchKey, rowKey, lockKey, deadKey>>

Unindex(t) ==
  /\ thread[t].pc = "unindex"
  /\ branchKey' = branchKey \ {thread[t].b}
  /\ Return(t)
  /\ UNCHANGED <<gs, ver, bs, rowKey, lockKey, deadKey>>

---------------------------------------------------------------------------
(***************************************************************************)
(* ReleaseLockKeys: delete the rows one by one, whoever holds them, then   *)
(* delete the lk/ keys they named in one etcd transaction.                 *)
(***************************************************************************)
ReleaseLockKeys(t, rows) ==
  /\ thread[t] = Idle
  /\ rows # {}
  /\ thread' = [thread EXCEPT ![t] =
                  [Idle EXCEPT !.pc = "release", !.rows = rows]]
  /\ UNCHANGED <<gs, ver, bs, branchKey, rowKey, lockKey, deadKey>>

ReleaseRow(t, r) ==
  /\ thread[t].pc = "release"
  /\ r \in thread[t].rows
  /\ rowKey' = [rowKey EXCEPT ![r] = None]
  /\ thread' = [thread EXCEPT
                  ![t].rows = @ \ {r},
                  ![t].lks = IF rowKey[r] = None THEN @
                             ELSE @ \cup {<<rowKey[r], r>>}]
  /\ UNCHANGED <<gs, ver, bs, branchKey, lockKey, deadKey>>

ReleaseTxn(t) ==
  /\ thread[t].pc = "release"
  /\ thread[t].rows = {}
  /\ lockKey' = lockKey \ thread[t].lks
  /\ Return(t)
  /\ UNCHANGED <<gs, ver, bs, branchKey, rowKey, deadKey>>

\* SetBranchSessionDead: one etcd transaction; the index key stays.
SetBranchSessionDead(b) ==
  /\ bs[b] # "Unborn"
  /\ deadKey' = deadKey \cup {b}
  /\ bs' = [bs EXCEPT ![b] = "Gone"]
  /\ UNCHANGED <<gs, ver, branchKey, rowKey, lockKey, thread>>

---------------------------------------------------------------------------
\* A request of a call fails, or the process of several calls dies: the calls
\* are abandoned, what their earlier requests did stays.
CallsFail(T) ==
  /\ thread' = [t \in Thread |-> IF t \in T THEN Idle ELSE thread[t]]
  /\ UNCHANGED <<gs, ver, bs, branchKey, rowKey, lockKey, deadKey>>

\* The requests of the calls that have already started, but the last one of a
\* registration and of a decision.
Request(t) ==
  \/ \E r \in Row : FilterRowKey(t, r) \/ ReleaseRow(t, r)
  \/ ReleaseRows(t)
  \/ CommitGetGlobal(t)
  \/ GetBranchSessionKeys(t)
  \/ \E b \in Branch : MarkBranchSession(t, b)
  \/ ReportPut(t)
  \/ ReportDelete(t)
  \/ Unindex(t)
  \/ ReleaseTxn(t)

\* Any call by anyone.
Next ==
  \/ \E x \in XID : AddGlobalSession(x) \/ DeleteGlobalSession(x)
  \/ \E b \in Branch : SetBranchSessionDead(b)
  \/ \E T \in SUBSET Thread : CallsFail(T)
  \/ \E t \in Thread :
       \/ Request(t)
       \/ AddBranchTxn(t)
       \/ DecideTxn(t)
       \/ \E x \in XID : GlobalCommit(t, x) \/ GlobalRollback(t, x)
       \/ \E b \in Branch :
            \/ AddBranchSession(t, b)
            \/ BranchReport(t, b)
            \/ DeleteBranchSession(t, b)
       \/ \E rows \in SUBSET Row : ReleaseLockKeys(t, rows)

Spec == Init /\ [][Next]_vars

---------------------------------------------------------------------------
(***************************************************************************)
(* Properties: true whoever calls the driver and in whatever order.        *)
(***************************************************************************)

\* Type invariant: statuses, keys and local variables of calls are what the
\* code can store in them.
TypeOK ==
  /\ gs \in [XID -> GlobalStatus]
  /\ ver \in [XID -> Nat]
  /\ bs \in [Branch -> BranchStatus]
  /\ branchKey \in SUBSET Branch
  /\ rowKey \in [Row -> XID \cup {None}]
  /\ lockKey \in SUBSET (XID \X Row)
  /\ deadKey \in SUBSET Branch
  /\ thread \in [Thread -> Call]

\* A branch is born only while its global session is stored with status
\* Begin, although AddBranchSession looked at that status several requests
\* earlier and a commit, a rollback or a delete may have come in between.
RegisterOnlyWhileBegin ==
  [][\A b \in Branch : bs[b] = "Unborn" /\ bs'[b] # "Unborn"
                         => gs[XidOf[b]] = "Begin"]_vars

\* A lock never goes from one global transaction directly to another:
\* AddBranchSession never overwrites a row somebody locked after
\* filterRowKeys had read it.
LocksPassThroughFree ==
  [][\A r \in Row : rowKey[r] # rowKey'[r]
                      => rowKey[r] = None \/ rowKey'[r] = None]_vars

\* A Registered branch is in the index of its global transaction, so the
\* GetBranchSessionKeys of a later commit or rollback finds it: the two
\* deletes of DeleteBranchSession leave an index key without a branch, never
\* the opposite.
RegisteredIsIndexed ==
  \A b \in Branch : bs[b] = "Registered" => b \in branchKey
=============================================================================

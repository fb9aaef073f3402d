------------------------- MODULE GlobalTransaction -------------------------
(***************************************************************************)
(* What a distributed transaction promises, without etcd, queues, locks    *)
(* and databases: branches enlist while it is open, one decision is made,  *)
(* every branch enlisted executes that decision and no other, and the      *)
(* transaction is forgotten after its last branch.                         *)
(***************************************************************************)
CONSTANTS XID, Branch, XidOf

VARIABLES status,  \* of a global transaction
          part,    \* of a branch: "none", "enlisted" or "ended"
          result   \* <<branch, outcome>>: the outcomes that were executed

gtVars == <<status, part, result>>

Outcome(s) == IF s = "Committing" THEN "commit" ELSE "rollback"

GTInit == /\ status = [x \in XID |-> "Unborn"]
          /\ part = [b \in Branch |-> "none"]
          /\ result = {}

Begin(x) ==
  /\ status[x] = "Unborn"
  /\ status' = [status EXCEPT ![x] = "Begin"]
  /\ UNCHANGED <<part, result>>

Enlist(b) ==
  /\ status[XidOf[b]] = "Begin"
  /\ part[b] = "none"
  /\ part' = [part EXCEPT ![b] = "enlisted"]
  /\ UNCHANGED <<status, result>>

\* A branch whose phase one failed leaves before the decision.
Withdraw(b) ==
  /\ status[XidOf[b]] = "Begin"
  /\ part[b] = "enlisted"
  /\ part' = [part EXCEPT ![b] = "ended"]
  /\ UNCHANGED <<status, result>>

Decide(x, s) ==
  /\ status[x] = "Begin"
  /\ status' = [status EXCEPT ![x] = s]
  /\ UNCHANGED <<part, result>>

\* A branch executes the decision; it may do so again after a failure.
Execute(b) ==
  /\ status[XidOf[b]] \in {"Committing", "Rollbacking"}
  /\ part[b] = "enlisted"
  /\ result' = result \cup {<<b, Outcome(status[XidOf[b]])>>}
  /\ UNCHANGED <<status, part>>

End(b) ==
  /\ status[XidOf[b]] \in {"Committing", "Rollbacking"}
  /\ part[b] = "enlisted"
  /\ <<b, Outcome(status[XidOf[b]])>> \in result
  /\ part' = [part EXCEPT ![b] = "ended"]
  /\ UNCHANGED <<status, result>>

\* A rollback, never a commit, may be given up.
GiveUp(b) ==
  /\ status[XidOf[b]] = "Rollbacking"
  /\ part[b] = "enlisted"
  /\ part' = [part EXCEPT ![b] = "ended"]
  /\ UNCHANGED <<status, result>>

Forget(x) ==
  /\ status[x] \in {"Committing", "Rollbacking"}
  /\ \A b \in Branch : XidOf[b] = x => part[b] # "enlisted"
  /\ status' = [status EXCEPT ![x] = "Gone"]
  /\ UNCHANGED <<part, result>>

GTNext ==
  \/ \E x \in XID : \/ Begin(x)
                    \/ \E s \in {"Committing", "Rollbacking"} : Decide(x, s)
                    \/ Forget(x)
  \/ \E b \in Branch : \/ Enlist(b)
                       \/ Withdraw(b)
                       \/ Execute(b)
                       \/ End(b)
                       \/ GiveUp(b)

GTSpec == GTInit /\ [][GTNext]_gtVars

---------------------------------------------------------------------------
\* Atomicity: no two branches of a global transaction execute different
\* outcomes, what processNextBranchSession does for a whole transaction.
OneOutcome ==
  \A b, c \in Branch : XidOf[b] = XidOf[c]
     => ~(<<b, "commit">> \in result /\ <<c, "rollback">> \in result)
=============================================================================

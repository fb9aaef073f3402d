---------------------- MODULE GlobalTransactionProofs ----------------------
(***************************************************************************)
(* The abstract specification is atomic: the decision is recorded before   *)
(* any branch executes it, never changes, and outlives the branches.       *)
(***************************************************************************)
EXTENDS GlobalTransaction, TLAPS

\* Outcomes were executed only after a decision, and agree with it as long as
\* it is stored.
ResultsFollowDecision ==
  \A b \in Branch, o \in {"commit", "rollback"} : <<b, o>> \in result =>
    /\ status[XidOf[b]] \notin {"Unborn", "Begin"}
    /\ status[XidOf[b]] \in {"Committing", "Rollbacking"}
         => o = Outcome(status[XidOf[b]])

AtomicInv == /\ DOMAIN status = XID
             /\ ResultsFollowDecision
             /\ OneOutcome

\* Every step of the abstract transaction keeps the invariant: an outcome is
\* executed while the decision it follows is stored.
LEMMA AtomicStep ==
  ASSUME XidOf \in [Branch -> XID], AtomicInv, [GTNext]_gtVars
  PROVE  AtomicInv'
<1> USE DEF AtomicInv, ResultsFollowDecision, OneOutcome
<1>1. ASSUME NEW x \in XID, Begin(x) PROVE AtomicInv'
  BY <1>1 DEF Begin
<1>2. ASSUME NEW x \in XID, NEW s \in {"Committing", "Rollbacking"},
             Decide(x, s)
      PROVE  AtomicInv'
  BY <1>2 DEF Decide
<1>3. ASSUME NEW x \in XID, Forget(x) PROVE AtomicInv'
  BY <1>3 DEF Forget
<1>4. ASSUME NEW b \in Branch, Execute(b) PROVE AtomicInv'
  <2>1. UNCHANGED status /\ XidOf[b] \in XID
    BY <1>4 DEF Execute
  <2>2. \A c \in Branch, o \in {"commit", "rollback"} :
          <<c, o>> \in result' =>
            <<c, o>> \in result \/ (c = b /\ o = Outcome(status[XidOf[b]]))
    BY <1>4 DEF Execute
  <2>3. status[XidOf[b]] \in {"Committing", "Rollbacking"}
    BY <1>4 DEF Execute
  <2>4. ResultsFollowDecision'
    BY <2>1, <2>2, <2>3
  <2>5. OneOutcome'
    <3> SUFFICES ASSUME NEW c \in Branch, NEW d \in Branch,
                        XidOf[c] = XidOf[d],
                        <<c, "commit">> \in result',
                        <<d, "rollback">> \in result'
                 PROVE  FALSE
      OBVIOUS
    <3>1. CASE <<c, "commit">> \in result /\ <<d, "rollback">> \in result
      BY <3>1
    <3>2. CASE XidOf[c] = XidOf[b]
      BY <2>1, <2>3, <2>4, <3>2 DEF Outcome
    <3> QED
      BY <2>2, <3>1, <3>2
  <2> QED
    BY <2>1, <2>4, <2>5
<1>5. ASSUME NEW b \in Branch,
             Enlist(b) \/ Withdraw(b) \/ End(b) \/ GiveUp(b)
      PROVE  AtomicInv'
  BY <1>5 DEF Enlist, Withdraw, End, GiveUp
<1>6. CASE UNCHANGED gtVars
  BY <1>6 DEF gtVars
<1> QED
  BY <1>1, <1>2, <1>3, <1>4, <1>5, <1>6 DEF GTNext

\* Atomicity of the abstract specification: no two branches of a global
\* transaction execute different outcomes.
THEOREM Atomicity ==
  ASSUME XidOf \in [Branch -> XID]
  PROVE  GTSpec => []OneOutcome
<1>1. GTInit => AtomicInv
  BY DEF GTInit, AtomicInv, ResultsFollowDecision, OneOutcome
<1>2. AtomicInv /\ [GTNext]_gtVars => AtomicInv'
  BY AtomicStep
<1>3. AtomicInv => OneOutcome
  BY DEF AtomicInv
<1> QED
  BY <1>1, <1>2, <1>3, PTL DEF GTSpec
=============================================================================

------------------------------ MODULE Rebalance ------------------------------
(***************************************************************************)
(* SpotReplacement composed with the handling of rebalance recommendations *)
(* (SpotTermination has that handler's steps): what the swaps of the group *)
(* do with an instance that the other handler took out of it.              *)
(*                                                                         *)
(* Of all the steps of an invocation for a rebalance recommendation only   *)
(* one changes anything, and it has its effect only on an instance that is *)
(* a member at that moment: the invocation is that one step here.  A       *)
(* detached instance keeps running and keeps its tags.                     *)
(***************************************************************************)
EXTENDS SpotReplacement

CONSTANTS
  Actions,        \* what is done with the instance; "auto" depends on its group's hooks
  MaxRebalances   \* bound on the recommendations

ASSUME RebalanceAssumption ==
  Actions \subseteq {"detach", "terminate"} /\ MaxRebalances \in Nat

VARIABLE rebalances   \* history: the instances taken out of the group

rebalanceVars == <<vars, rebalances>>

RebalanceInit == Init /\ rebalances = 0

\* Mutant: both actions decrement the capacity.
ExecuteWithDecrement(s, action) ==
  /\ rebalances < MaxRebalances
  /\ rebalances' = rebalances + 1
  /\ s \in members /\ ec2[s] = "running"
  /\ members' = members \ {s}
  /\ desired' = desired - 1
  /\ IF action = "detach" THEN UNCHANGED ec2 ELSE Terminate(s)
  /\ UNCHANGED <<target, events, maxSize, suspended, queue, pc, jobVars, cron, histVars>>

\* executeAction for a live spot member: detachInstance or terminateInstance, neither
\* of which decrements the capacity.
ExecuteAction(s, action) ==
  /\ rebalances < MaxRebalances
  /\ rebalances' = rebalances + 1
  /\ s \in members /\ ec2[s] = "running"
  /\ members' = members \ {s}
  /\ IF action = "detach" THEN UNCHANGED ec2 ELSE Terminate(s)
  /\ UNCHANGED <<target, events, desired, maxSize, suspended, queue, pc, jobVars,
                 cron, histVars>>

RebalanceNext ==
  \/ Next /\ UNCHANGED rebalances
  \/ \E s \in Spot, action \in Actions : ExecuteAction(s, action)

RebalanceSpec == RebalanceInit /\ [][RebalanceNext]_rebalanceVars
FairRebalanceSpec == RebalanceSpec /\ Fairness

----------------------------------------------------------------------------
(* Properties, beside those of SpotReplacement.                            *)

RebalanceTypeOK == TypeOK /\ rebalances \in 0 .. MaxRebalances

\* A detached instance is a spare one, which the next replacement takes instead of
\* launching another: the group has at most one running spot instance launched for it
\* and not attached, plus one for each rebalance and for each scan that failed.
SparesBounded ==
  Cardinality(Unattached(members)) <= 1 + blindScans + rebalances

\* Only one thing can stop replacement for good: a running spot instance that is not
\* attached and was launched for an instance that EC2 no longer describes.  Every
\* later swap finds it, and cannot get its swap candidate.
Blocked == \E s \in Unattached(members) : ec2[target[s]] = "gone"
ReplacedOrBlocked == <>[](Replaced \/ Exhausted \/ Blocked)
=============================================================================

------------------------ MODULE SpotTermination_proofs ------------------------
(***************************************************************************)
(* Theorems about SpotTermination, for any number of instances and notices *)
(* and any bounds on faults.                                               *)
(***************************************************************************)
EXTENDS SpotTermination, FiniteSetTheorems, TLAPS

\* Only spot instances are terminated by a notice, so a swap retires no draining one.
TypeInv == TypeOK /\ draining \subseteq Spot

\* An instance whose handler sleeps cannot get into the group any more: it has no tag
\* by which to be found, and the queue's handler does not hold it.
LateInv ==
  \A n \in Notice :
    step[n] = "sleep" =>
      \/ n.id \in caught \/ faults > 0
      \/ n.id \notin tagged /\ held # n.id /\ n.id \notin members

TerminationInv == TypeInv /\ LateInv /\ DetachedBeforeTerminated

\* The capacity is a number.
LEMMA CapacityIsNatural == Capacity \in Nat
BY TerminationAssumption, FS_CardinalityType DEF Capacity

\* Initially nothing is being terminated.
LEMMA InitialInv == Init => TerminationInv
BY CapacityIsNatural, TerminationAssumption
DEF Init, TerminationInv, TypeInv, TypeOK, LateInv, DetachedBeforeTerminated, Instance,
    States, Steps

\* A step that changes nothing but the invocation's place, and does not lead to the
\* late termination.
LEMMA QuietStep ==
  ASSUME TerminationInv, NEW n \in Notice, NEW to \in Steps \ {"untag", "sleep"},
         step' = [step EXCEPT ![n] = to], faults' \in {faults, faults + 1},
         UNCHANGED <<config, ec2, tagged, members, draining, desired, enabled, warned,
                     retags, held, readded, caught>>
  PROVE  TerminationInv'
<1> USE DEF TerminationInv, TypeInv, TypeOK
<1>1. TypeInv'
  OBVIOUS
<1>2. LateInv'
  BY DEF LateInv, Notice
<1>3. DetachedBeforeTerminated'
  BY DEF DetachedBeforeTerminated, Notice
<1> QED
  BY <1>1, <1>2, <1>3

\* The steps of the handler of a notice.
LEMMA HandlerStep ==
  ASSUME TerminationInv, NEW n \in Notice, Handle(n) \/ Warn(n) \/ Crash(n)
  PROVE  TerminationInv'
<1> USE TerminationAssumption
    DEF TerminationInv, TypeInv, TypeOK, LateInv, DetachedBeforeTerminated, Step, Steps,
        Notice, Instance, States, Fault, groupVars, ownerVars, swapVars
<1>1. CASE IsInAutoSpottingASG(n)
  <2>1. PICK to \in {"matched", "done"} :
          step' = [step EXCEPT ![n] = to] /\ faults' \in {faults, faults + 1}
    BY <1>1 DEF IsInAutoSpottingASG
  <2> QED
    BY <1>1, <2>1, QuietStep DEF IsInAutoSpottingASG
<1>2. CASE ExecuteAction(n)
  <2>1. PICK to \in {"done", "terminate", "detach"} :
          step' = [step EXCEPT ![n] = to] /\ faults' \in {faults, faults + 1}
    BY <1>2 DEF ExecuteAction
  <2> QED
    BY <1>2, <2>1, QuietStep DEF ExecuteAction
<1>3. CASE DetachInstance(n)
  <2>1. \A m \in Notice : m.id = n.id => m.id \notin members'
    BY <1>3 DEF DetachInstance
  <2>2. TypeOK' /\ draining' \subseteq Spot
    BY <1>3 DEF DetachInstance, CanDetach
  <2>3. LateInv'
    BY <1>3 DEF DetachInstance
  <2>4. DetachedBeforeTerminated'
    BY <1>3, <2>1 DEF DetachInstance
  <2> QED
    BY <2>2, <2>3, <2>4
<1>4. CASE DetachFails(n)
  BY <1>4 DEF DetachFails
<1>5. CASE TerminateInstance(n)
  BY <1>5 DEF TerminateInstance, TerminateMember, CanDetach, Terminate
<1>6. CASE TerminateFails(n)
  BY <1>6 DEF TerminateFails
<1>7. CASE DeleteTag(n)
  BY <1>7 DEF DeleteTag
<1>8. CASE DelayedTermination(n)
  BY <1>8 DEF DelayedTermination, Terminate
<1>9. CASE Warn(n)
  BY <1>9 DEF Warn
<1>10. CASE Crash(n)
  BY <1>10 DEF Crash
<1> QED
  BY <1>1, <1>2, <1>3, <1>4, <1>5, <1>6, <1>7, <1>8, <1>9, <1>10 DEF Handle

\* The steps of EC2, the group and the queue's handler that concern an instance.
LEMMA EnvironmentStep ==
  ASSUME TerminationInv, NEW i \in Instance,
         Aws(i) \/ FindUnattached(i) \/ SwapWithGroupMember(i)
  PROVE  TerminationInv'
<1> USE TerminationAssumption
    DEF TerminationInv, TypeInv, TypeOK, LateInv, DetachedBeforeTerminated, Notice,
        Instance, States, groupVars, ownerVars, swapVars, Terminate
<1>1. CASE Reclaim(i)
  BY <1>1 DEF Reclaim
<1>2. CASE LaunchOnDemand(i)
  BY <1>2 DEF LaunchOnDemand
<1>3. CASE RemoveTerminated(i)
  BY <1>3 DEF RemoveTerminated
<1>4. CASE CompleteHook(i)
  BY <1>4 DEF CompleteHook
<1>5. CASE FindUnattached(i)
  BY <1>5 DEF FindUnattached
<1>6. CASE SwapWithGroupMember(i)
  BY <1>6 DEF SwapWithGroupMember
<1> QED
  BY <1>1, <1>2, <1>3, <1>4, <1>5, <1>6 DEF Aws

\* Every step keeps the invariant.
LEMMA TerminationStep == TerminationInv /\ [Next]_vars => TerminationInv'
<1> SUFFICES ASSUME TerminationInv, [Next]_vars PROVE TerminationInv'
  OBVIOUS
<1>1. ASSUME NEW n \in Notice, Handle(n) \/ Warn(n) \/ Crash(n) PROVE TerminationInv'
  BY <1>1, HandlerStep
<1>2. ASSUME NEW i \in Instance, Aws(i) PROVE TerminationInv'
  BY <1>2, EnvironmentStep
<1>3. CASE Retag
  BY <1>3
  DEF Retag, TerminationInv, TypeInv, TypeOK, LateInv, DetachedBeforeTerminated,
      groupVars, swapVars
<1>6. CASE GiveUp
  BY <1>6, TerminationAssumption
  DEF GiveUp, TerminationInv, TypeInv, TypeOK, LateInv, DetachedBeforeTerminated,
      Notice, Instance, groupVars, ownerVars
<1>4. ASSUME NEW i \in Instance, FindUnattached(i) \/ SwapWithGroupMember(i)
      PROVE  TerminationInv'
  BY <1>4, EnvironmentStep DEF Swap
<1>5. CASE UNCHANGED vars
  BY <1>5
  DEF vars, TerminationInv, TypeInv, TypeOK, LateInv, DetachedBeforeTerminated
<1> QED
  BY <1>1, <1>2, <1>3, <1>4, <1>5, <1>6 DEF Next, Swap

\* So the invariant always holds.
LEMMA TerminationInvariant == Spec => []TerminationInv
BY InitialInv, TerminationStep, PTL DEF Spec

\* The late termination hits a member of the group only if the queue's handler had
\* found the instance before its tag was removed, or a call failed.
THEOREM LateTerminationIsSafe == Spec => []LateTerminationSafe
<1>1. TerminationInv => LateTerminationSafe
  BY DEF TerminationInv, LateInv, LateTerminationSafe
<1> QED
  BY <1>1, TerminationInvariant, PTL

\* An instance is terminated late only once it has left the group, whichever errors
\* its handlers meet, unless the queue's handler attached it again.
THEOREM DetachedFirst == Spec => []DetachedBeforeTerminated
<1>1. TerminationInv => DetachedBeforeTerminated
  BY DEF TerminationInv
<1> QED
  BY <1>1, TerminationInvariant, PTL

\* Every variable has its type, whichever invocations run at a time.
THEOREM TerminationTypes == Spec => []TypeOK
<1>1. TerminationInv => TypeOK
  BY DEF TerminationInv, TypeInv
<1> QED
  BY <1>1, TerminationInvariant, PTL

----------------------------------------------------------------------------
(* The termination hook.                                                   *)

\* Without a fault no invocation detaches an instance past the hook.
Hooked == config.hook /\ config.action # "detach" /\ faults = 0
HookInv == Hooked => \A n \in Notice : step[n] \notin {"detach", "untag", "sleep"}

\* The hook counts at most until the first fault.
LEMMA HookedBefore ==
  ASSUME TerminationInv, [Next]_vars, Hooked'
  PROVE  Hooked
<1>1. faults \in Nat
  BY DEF TerminationInv, TypeInv, TypeOK
<1>2. faults' \in {faults, faults + 1}
  BY DEF Next, Handle, IsInAutoSpottingASG, ExecuteAction, DetachInstance, DetachFails,
         TerminateInstance, TerminateFails, DeleteTag, DelayedTermination, Warn, Crash, Aws,
         Reclaim, LaunchOnDemand, RemoveTerminated, CompleteHook, Retag, Swap, GiveUp,
         FindUnattached, SwapWithGroupMember, Fault, vars
<1>3. config' = config
  BY DEF Next, Handle, IsInAutoSpottingASG, ExecuteAction, DetachInstance, DetachFails,
         TerminateInstance, TerminateFails, DeleteTag, DelayedTermination, Warn, Crash, Aws,
         Reclaim, LaunchOnDemand, RemoveTerminated, CompleteHook, Retag, Swap, GiveUp,
         FindUnattached, SwapWithGroupMember, ownerVars, vars
<1> QED
  BY <1>1, <1>2, <1>3 DEF Hooked

\* Every step keeps the invocations from going past the hook.
LEMMA HookStep == TerminationInv /\ HookInv /\ [Next]_vars => HookInv'
<1> SUFFICES ASSUME TerminationInv, HookInv, [Next]_vars, Hooked'
             PROVE  (\A m \in Notice : step[m] \notin {"detach", "untag", "sleep"})'
  BY DEF HookInv
<1>1. Hooked /\ \A m \in Notice : step[m] \notin {"detach", "untag", "sleep"}
  BY HookedBefore DEF HookInv
<1>2. faults = 0 /\ faults' = 0 /\ config.hook /\ config.action \in {"auto", "terminate"}
      /\ step \in [Notice -> Steps]
  <2>1. config \in Config
    BY DEF TerminationInv, TypeInv, TypeOK
  <2>2. config.action \in {"auto", "detach", "terminate"}
    BY <2>1, TerminationAssumption DEF Config
  <2> QED
    BY <1>1, <2>2 DEF Hooked, TerminationInv, TypeInv, TypeOK
<1>3. ASSUME NEW n \in Notice, Handle(n)
      PROVE  (\A m \in Notice : step[m] \notin {"detach", "untag", "sleep"})'
  <2>1. ~Fault("api")
    BY <1>2 DEF Fault
  <2>2. CASE IsInAutoSpottingASG(n)
    BY <1>1, <1>2, <2>1, <2>2 DEF IsInAutoSpottingASG, Step
  <2>3. CASE ExecuteAction(n)
    BY <1>1, <1>2, <2>1, <2>3 DEF ExecuteAction, Step
  <2>4. CASE DetachInstance(n) \/ DetachFails(n) \/ DeleteTag(n) \/ DelayedTermination(n)
    BY <1>1, <2>4 DEF DetachInstance, DetachFails, DeleteTag, DelayedTermination, Step
  <2>5. CASE TerminateInstance(n) \/ TerminateFails(n)
    BY <1>1, <1>2, <2>5 DEF TerminateInstance, TerminateFails, Step
  <2> QED
    BY <1>3, <2>2, <2>3, <2>4, <2>5 DEF Handle
<1>4. ASSUME NEW n \in Notice, Warn(n) \/ Crash(n)
      PROVE  (\A m \in Notice : step[m] \notin {"detach", "untag", "sleep"})'
  BY <1>1, <1>2, <1>4 DEF Warn, Crash, Step
<1>5. ASSUME NEW i \in Instance, Aws(i) PROVE UNCHANGED step
  BY <1>5 DEF Aws, Reclaim, LaunchOnDemand, RemoveTerminated, CompleteHook
<1>6. CASE Retag \/ Swap \/ UNCHANGED vars
  <2>1. UNCHANGED step
    BY <1>6 DEF Retag, Swap, GiveUp, FindUnattached, SwapWithGroupMember, vars
  <2> QED
    BY <1>1, <2>1
<1> QED
  BY <1>1, <1>3, <1>4, <1>5, <1>6 DEF Next

\* A live spot instance leaves a group with a termination hook only through the hook
\* (getAction, terminateInstance), as long as no call fails.
THEOREM HookIsHonoured == Spec => HookHonoured
<1>1. Init => HookInv
  BY DEF Init, HookInv
<1>2. TerminationInv /\ HookInv /\ [Next]_vars =>
        [\A i \in Spot :
           /\ i \in members \ members' /\ ec2[i] = "running"
           /\ config.hook /\ config.action # "detach" /\ faults = 0
           => i \in draining]_vars
  <2> SUFFICES ASSUME TerminationInv, HookInv, [Next]_vars, NEW i \in Spot,
                      i \in members \ members', ec2[i] = "running", Hooked
               PROVE  i \in draining
    BY DEF Hooked
  <2>1. \A n \in Notice : step[n] # "detach"
    BY DEF HookInv
  <2>2. ASSUME NEW n \in Notice, Handle(n) \/ Warn(n) \/ Crash(n) PROVE UNCHANGED members
    <3>1. ~DetachInstance(n)
      BY <2>1 DEF DetachInstance, Step
    <3>2. TerminateInstance(n) => UNCHANGED members
      BY DEF TerminateInstance, TerminateMember, Hooked
    <3> QED
      BY <2>2, <3>1, <3>2 DEF Handle, IsInAutoSpottingASG, ExecuteAction, DetachFails,
         TerminateFails, DeleteTag, DelayedTermination, Warn, Crash, groupVars
  <2>3. ASSUME NEW j \in Instance, Aws(j) PROVE i \in draining
    BY <2>3 DEF Aws, Reclaim, LaunchOnDemand, RemoveTerminated, CompleteHook, groupVars
  <2>4. CASE Retag \/ GiveUp \/ UNCHANGED vars
    BY <2>4 DEF Retag, GiveUp, vars, groupVars
  <2>5. ASSUME NEW j \in Instance, FindUnattached(j) \/ SwapWithGroupMember(j)
        PROVE  i \in draining
    BY <2>5, TerminationAssumption DEF FindUnattached, SwapWithGroupMember, groupVars
  <2> QED
    BY <2>2, <2>3, <2>4, <2>5 DEF Next, Swap
<1> QED
  BY <1>1, <1>2, HookStep, TerminationInvariant, PTL DEF Spec, HookHonoured
=============================================================================

--------------------------- MODULE SpotTermination ---------------------------
(***************************************************************************)
(* The handling of interruption warnings and rebalance recommendations of  *)
(* the spot instances of ONE AutoScaling group (core/spot_termination.go   *)
(* and processEventInstance in core/main.go).                              *)
(*                                                                         *)
(* EventBridge invokes the function once for each notice, directly, so     *)
(* the notices of one instance are handled concurrently, and a failed      *)
(* invocation is tried again.  Meanwhile EC2 reclaims the instance, the    *)
(* group replaces it, and the queue's handler (module SpotReplacement)     *)
(* swaps unattached spot instances in: here it is one that first finds     *)
(* such an instance by its tag and later attaches it.                      *)
(***************************************************************************)
EXTENDS Integers, FiniteSets

CONSTANTS
  Spot,            \* the spot instances of the group
  Fresh,           \* identities of the on-demand instances it may launch
  NoInstance,      \* a nil instance
  Actions,         \* the values of TerminationNotificationAction considered
  FaultKinds,      \* the kinds of fault that may be injected
  MaxFaults,       \* bound on the injected faults
  MaxRetags        \* bound on the owner's changes of the group's tags

ASSUME TerminationAssumption ==
  /\ IsFiniteSet(Spot) /\ IsFiniteSet(Fresh) /\ Spot \cap Fresh = {}
  /\ NoInstance \notin Spot \cup Fresh
  /\ Actions \subseteq {"auto", "detach", "terminate"}
  /\ FaultKinds \subseteq {"crash", "api"}
  /\ MaxFaults \in Nat /\ MaxRetags \in Nat

VARIABLES
  config,    \* the settings, and whether the group has a termination hook
  ec2,       \* the EC2 state of each instance
  tagged,    \* the instances with the tag launched-for-asg
  members,   \* the group's instances
  draining,  \* the members whose termination waits for the lifecycle hook
  desired,   \* the group's DesiredCapacity
  enabled,   \* the group's tags match the filters
  warned,    \* the instances that EC2 will reclaim
  step,      \* the step of the invocation for each notice
  held,      \* the instance that the queue's handler found and will attach
  faults,    \* history: the number of faults
  retags,    \* history: the number of changes of the group's tags
  readded,   \* history: the instances attached again by the queue's handler
  caught     \* history: those found or attached before their tag was removed

vars == <<config, ec2, tagged, members, draining, desired, enabled, warned, step, held,
          faults, retags, readded, caught>>

Instance == Spot \cup Fresh
Notice   == [id : Spot, type : {"SII", "IRR"}]
States   == {"unborn", "running", "terminated"}
Steps    == {"none", "noticed", "matched", "detach", "terminate", "untag",
             "sleep", "done"}
Capacity == Cardinality(Spot)

Config   == [action : Actions, hook : BOOLEAN, ignoreRebalance : BOOLEAN]

Init ==
  /\ config \in Config
  /\ ec2 = [i \in Instance |-> IF i \in Spot THEN "running" ELSE "unborn"]
  /\ tagged = Spot /\ members = Spot /\ draining = {}
  /\ desired = Capacity
  /\ enabled \in BOOLEAN
  /\ warned = {}
  /\ step = [n \in Notice |-> "none"]
  /\ held = NoInstance
  /\ faults = 0 /\ retags = 0 /\ readded = {} /\ caught = {}

groupVars  == <<members, draining, desired>>
ownerVars  == <<config, enabled, retags>>
swapVars   == <<held, readded, caught>>

----------------------------------------------------------------------------
(* Faults, and the steps of an invocation.                                 *)

Fault(kind) ==
  /\ kind \in FaultKinds /\ faults < MaxFaults
  /\ faults' = faults + 1

\* The invocation for notice n is at one step and goes on to another.
Step(n, from, to) == step[n] = from /\ step' = [step EXCEPT ![n] = to]

\* Instances described as members of the group, the draining ones included.
InGroup(i) == i \in members

Terminate(S) ==
  ec2' = [i \in Instance |-> IF i \in S /\ ec2[i] = "running" THEN "terminated"
                             ELSE ec2[i]]

----------------------------------------------------------------------------
(* The handler.                                                            *)

\* processEventInstance drops rebalance recommendations when told to;
\* IsInAutoSpottingASG reads the name of the instance's group, then its tags.  (It
\* reads the name again in the next step, so nothing is lost by taking these two
\* reads for one.)
IsInAutoSpottingASG(n) ==
  LET handled == ~(n.type = "IRR" /\ config.ignoreRebalance) IN
  /\ \/ /\ Step(n, "noticed", IF handled /\ InGroup(n.id) /\ enabled
                                THEN "matched" ELSE "done")
        /\ UNCHANGED faults
     \/ Fault("api") /\ Step(n, "noticed", "done")
  /\ UNCHANGED <<ec2, tagged, groupVars, ownerVars, warned, swapVars>>

\* Mutant: the hook looked for is the one of launches, which the group lacks.
LaunchHookSought(n) ==
  /\ InGroup(n.id)
  /\ Step(n, "matched", IF config.action = "terminate" THEN "terminate" ELSE "detach")
  /\ UNCHANGED <<ec2, tagged, groupVars, ownerVars, warned, swapVars, faults>>

\* Mutant: "auto" is not told from the other actions.
ActionUnresolved(n) ==
  /\ Step(n, "matched", IF InGroup(n.id) THEN config.action ELSE "done")
  /\ UNCHANGED <<ec2, tagged, groupVars, ownerVars, warned, swapVars, faults>>

\* executeAction reads the group's name again and chooses the action.  A failure to
\* read the group's lifecycle hooks counts as having none.
ExecuteAction(n) ==
  LET terminates == \/ config.action = "terminate"
                    \/ config.action = "auto" /\ config.hook
  IN
  /\ \/ ~InGroup(n.id) /\ Step(n, "matched", "done") /\ UNCHANGED faults
     \/ /\ InGroup(n.id)
        /\ Step(n, "matched", IF terminates THEN "terminate" ELSE "detach")
        /\ UNCHANGED faults
     \/ Fault("api") /\ Step(n, "matched", "done")
     \/ config.action = "auto" /\ InGroup(n.id) /\ Fault("api") /\ Step(n, "matched", "detach")
  /\ UNCHANGED <<ec2, tagged, groupVars, ownerVars, warned, swapVars>>

\* DetachInstances succeeds for a member that is not being terminated.
CanDetach(i) == i \in members \ draining /\ ec2[i] = "running"

\* detachInstance, without a decrement of the capacity.  After a rebalance
\* recommendation that is all; after an interruption warning the tag is removed and
\* the instance terminated.
DetachInstance(n) ==
  /\ CanDetach(n.id)
  /\ Step(n, "detach", IF n.type = "IRR" THEN "done" ELSE "untag")
  /\ members' = members \ {n.id}
  /\ UNCHANGED <<ec2, tagged, draining, desired, ownerVars, warned, swapVars, faults>>

\* Mutant: the error is only logged.
DetachErrorIgnored(n) ==
  /\ Step(n, "detach", IF n.type = "IRR" THEN "done" ELSE "untag")
  /\ \/ ~CanDetach(n.id) /\ UNCHANGED faults
     \/ Fault("api")
  /\ UNCHANGED <<ec2, tagged, groupVars, ownerVars, warned, swapVars>>

DetachFails(n) ==
  /\ Step(n, "detach", "done")
  /\ \/ ~CanDetach(n.id) /\ UNCHANGED faults
     \/ Fault("api")
  /\ UNCHANGED <<ec2, tagged, groupVars, ownerVars, warned, swapVars>>

\* TerminateInstanceInAutoScalingGroup, with a hook to wait for or without.
TerminateMember(i) ==
  /\ CanDetach(i)
  /\ IF config.hook
     THEN draining' = draining \cup {i} /\ UNCHANGED <<members, ec2>>
     ELSE members' = members \ {i} /\ Terminate({i}) /\ UNCHANGED draining

\* Mutant: terminateInstance decrements the capacity.
TerminateWithDecrement(n) ==
  /\ Step(n, "terminate", "done")
  /\ TerminateMember(n.id)
  /\ desired' = desired - 1
  /\ UNCHANGED <<tagged, ownerVars, warned, swapVars, faults>>

\* terminateInstance, without a decrement of the capacity.
TerminateInstance(n) ==
  /\ Step(n, "terminate", "done")
  /\ TerminateMember(n.id)
  /\ UNCHANGED <<tagged, desired, ownerVars, warned, swapVars, faults>>

TerminateFails(n) ==
  /\ Step(n, "terminate", "done")
  /\ \/ ~CanDetach(n.id) /\ UNCHANGED faults
     \/ Fault("api")
  /\ UNCHANGED <<ec2, tagged, groupVars, ownerVars, warned, swapVars>>

\* Mutant: the condition on the event's type is the wrong way round.
TagKept(n) ==
  /\ Step(n, "untag", "sleep")
  /\ caught' = caught \cup ({n.id} \cap (members \cup {held}))
  /\ UNCHANGED <<ec2, tagged, groupVars, ownerVars, warned, held, readded, faults>>

\* deleteTagInstanceLaunchedForAsg; a failure is only logged.
DeleteTag(n) ==
  /\ Step(n, "untag", "sleep")
  /\ \/ tagged' = tagged \ {n.id} /\ UNCHANGED faults
     \/ Fault("api") /\ UNCHANGED tagged
  /\ caught' = caught \cup ({n.id} \cap (members \cup {held}))
  /\ UNCHANGED <<ec2, groupVars, ownerVars, warned, held, readded>>

\* delayedTermination, 14 minutes later.
DelayedTermination(n) ==
  /\ Step(n, "sleep", "done")
  /\ \/ Terminate({n.id}) /\ UNCHANGED faults
     \/ Fault("api") /\ UNCHANGED ec2
  /\ UNCHANGED <<tagged, groupVars, ownerVars, warned, swapVars>>

\* The function dies or reaches its time limit, which is a minute longer than the
\* delay; the invocation is tried again, or was the last attempt.
Crash(n) ==
  /\ Fault("crash")
  /\ step[n] \notin {"none", "noticed", "done"}
  /\ \E to \in {"noticed", "done"} : step' = [step EXCEPT ![n] = to]
  /\ UNCHANGED <<ec2, tagged, groupVars, ownerVars, warned, swapVars>>

----------------------------------------------------------------------------
(* EC2, the group, its owner, and the queue's handler.                     *)

\* EC2 warns of an interruption, or recommends to rebalance some time before that.
Warn(n) ==
  /\ ec2[n.id] = "running"
  /\ n.type = "IRR" => n.id \notin warned
  /\ Step(n, "none", "noticed")
  /\ warned' = IF n.type = "SII" THEN warned \cup {n.id} ELSE warned
  /\ UNCHANGED <<ec2, tagged, groupVars, ownerVars, swapVars, faults>>

Reclaim(i) ==
  /\ i \in warned /\ ec2[i] = "running"
  /\ Terminate({i})
  /\ UNCHANGED <<tagged, groupVars, ownerVars, warned, step, swapVars, faults>>

\* The group launches an on-demand instance while it is below its capacity.  (The
\* identity of one that was terminated is used again.)
LaunchOnDemand(i) ==
  /\ i \in Fresh \ members
  /\ Cardinality(members \ draining) < desired
  /\ members' = members \cup {i}
  /\ ec2' = [ec2 EXCEPT ![i] = "running"]
  /\ UNCHANGED <<tagged, draining, desired, ownerVars, warned, step, swapVars, faults>>

\* The health check finds a member terminated.
RemoveTerminated(i) ==
  /\ i \in members /\ ec2[i] = "terminated"
  /\ members' = members \ {i} /\ draining' = draining \ {i}
  /\ UNCHANGED <<ec2, tagged, desired, ownerVars, warned, step, swapVars, faults>>

\* The lifecycle hook is completed, or times out.
CompleteHook(i) ==
  /\ i \in draining
  /\ members' = members \ {i} /\ draining' = draining \ {i}
  /\ Terminate({i})
  /\ UNCHANGED <<tagged, desired, ownerVars, warned, step, swapVars, faults>>

Retag ==
  /\ retags < MaxRetags
  /\ enabled' = ~enabled /\ retags' = retags + 1
  /\ UNCHANGED <<config, ec2, tagged, groupVars, warned, step, swapVars, faults>>

\* The queue's handler finds a running, unattached instance tagged for the group.
FindUnattached(i) ==
  /\ held = NoInstance
  /\ i \in tagged \ members /\ ec2[i] = "running"
  /\ held' = i
  /\ UNCHANGED <<ec2, tagged, groupVars, ownerVars, warned, step, readded, caught, faults>>

\* It swaps it against an on-demand member.
SwapWithGroupMember(i) ==
  /\ held # NoInstance /\ ec2[held] = "running" /\ held \notin members
  /\ i \in members \cap Fresh
  /\ members' = (members \cup {held}) \ {i}
  /\ Terminate({i})
  /\ readded' = readded \cup {held} /\ held' = NoInstance
  /\ UNCHANGED <<tagged, draining, desired, ownerVars, warned, step, caught, faults>>

\* It fails, for one of the reasons that SpotReplacement has.
GiveUp ==
  /\ held # NoInstance
  /\ held' = NoInstance
  /\ UNCHANGED <<ec2, tagged, groupVars, ownerVars, warned, step, readded, caught, faults>>

----------------------------------------------------------------------------
Handle(n) ==
  \/ IsInAutoSpottingASG(n) \/ ExecuteAction(n)
  \/ DetachInstance(n) \/ DetachFails(n) \/ TerminateInstance(n) \/ TerminateFails(n)
  \/ DeleteTag(n) \/ DelayedTermination(n)

Aws(i) == Reclaim(i) \/ LaunchOnDemand(i) \/ RemoveTerminated(i) \/ CompleteHook(i)

Swap == GiveUp \/ \E i \in Instance : FindUnattached(i) \/ SwapWithGroupMember(i)

Next ==
  \/ \E n \in Notice : Handle(n) \/ Warn(n) \/ Crash(n)
  \/ \E i \in Instance : Aws(i)
  \/ Retag \/ Swap

Spec == Init /\ [][Next]_vars

\* Every invocation proceeds, and the group and EC2 do what they announce.
FairSpec ==
  /\ Spec
  /\ \A n \in Notice : WF_vars(Handle(n))
  /\ \A i \in Instance : WF_vars(Aws(i))

----------------------------------------------------------------------------
(* Properties.                                                             *)

TypeOK ==
  /\ config \in Config
  /\ ec2 \in [Instance -> States]
  /\ tagged \subseteq Spot /\ warned \subseteq Spot
  /\ members \subseteq Instance /\ draining \subseteq members
  /\ desired \in Nat /\ enabled \in BOOLEAN
  /\ step \in [Notice -> Steps]
  /\ held \in Spot \cup {NoInstance}
  /\ faults \in Nat /\ retags \in Nat
  /\ readded \subseteq Spot /\ caught \subseteq Spot

\* The late termination goes past the group.  It hits a member only if the queue's
\* handler had found the instance before its tag was removed, or some call failed:
\* the instance that sleeps here is not picked up and attached meanwhile.
LateTerminationSafe ==
  \A n \in Notice :
    step[n] = "sleep" /\ n.id \in members => n.id \in caught \/ faults > 0

\* An instance that the handler detached before it terminates it is a member again
\* only if the queue's handler attached it.
DetachedBeforeTerminated ==
  \A n \in Notice :
    step[n] \in {"untag", "sleep"} /\ n.id \in members => n.id \in readded

\* With a termination hook, and unless told to detach, a live spot instance leaves the
\* group only through the hook, whichever notices are handled at a time; a failure
\* to read the hooks is excepted.
HookHonoured ==
  [][\A i \in Spot :
       /\ i \in members \ members' /\ ec2[i] = "running"
       /\ config.hook /\ config.action # "detach" /\ faults = 0
       => i \in draining]_vars

\* Whatever notices come, and however their handlers and retries interleave, the group
\* gets back to its full capacity of live instances.
Recovered ==
  Cardinality({i \in members \ draining : ec2[i] = "running"}) = Capacity
CapacityRecovered == <>[]Recovered
=============================================================================

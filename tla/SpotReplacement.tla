-------------------------- MODULE SpotReplacement --------------------------
(***************************************************************************)
(* The replacement of on-demand instances by spot instances in ONE enabled *)
(* AutoScaling group, as core/main.go, instance_actions.go, autoscaling.go *)
(* and region.go perform it, together with the parts of AWS it talks to.   *)
(*                                                                         *)
(* Three kinds of Lambda invocation run concurrently on the group:         *)
(*   - an EC2 state-change event, delivered directly, which only queues a  *)
(*     message (DeliverEvent, LifecycleHookEvent);                         *)
(*   - the cron run, which queues a message for one on-demand instance and *)
(*     then resumes the group's scaling processes (CronEventAction,        *)
(*     OutdatedCronEventAction, ResumeProcesses);                          *)
(*   - the consumer of the FIFO queue, which performs the swap.  Messages  *)
(*     of one group are served one at a time (the queue's message group),  *)
(*     so there is one such handler: pc is its program counter.            *)
(*                                                                         *)
(* The handler works from snap, the description of the group it read when  *)
(* it started, while instance states are read again at each step.          *)
(***************************************************************************)
EXTENDS Integers, Sequences, FiniteSets

CONSTANTS
  OD,             \* identities of on-demand instances
  Spot,           \* identities of spot instances
  NoInstance,     \* a nil instance
  InitialOD,      \* the on-demand instances the group starts with
  Protected,      \* instances protected from scale-in or from termination
  MinOnDemand,    \* asg.config.MinOnDemand, as a number of instances
  MinSize,        \* the group's MinSize
  OwnerMax,       \* the MaxSize the group's owner configured
  EventDriven,    \* not DisableEventBasedInstanceReplacement
  LifecycleHooks, \* instances complete a launch lifecycle hook themselves
  OutdatedScans,  \* a cron run may act on less than, or not on, the present group
  FaultKinds,     \* the kinds of fault that may be injected
  MaxFaults,      \* bound on the injected faults
  MaxScalings,    \* bound on the scaling decisions
  MaxLosses,      \* bound on the instances lost
  MaxQueue        \* bound on the length of the queue

Instance == OD \cup Spot
AllFaults == {"crash", "api", "timeout", "launch", "scan", "event", "describe"}

ASSUME InstanceAssumption ==
  /\ OD \cap Spot = {}
  /\ NoInstance \notin Instance
  /\ IsFiniteSet(OD) /\ IsFiniteSet(Spot)
  /\ InitialOD \subseteq OD
  /\ Protected \subseteq OD
ASSUME NumberAssumption ==
  /\ MinOnDemand \in Nat /\ MinSize \in Nat /\ OwnerMax \in Nat
  /\ MaxFaults \in Nat /\ MaxScalings \in Nat /\ MaxLosses \in Nat
  /\ MaxQueue \in Nat
  /\ MinSize <= Cardinality(InitialOD)
  /\ Cardinality(InitialOD) <= OwnerMax
ASSUME SwitchAssumption ==
  /\ EventDriven \in BOOLEAN /\ LifecycleHooks \in BOOLEAN /\ OutdatedScans \in BOOLEAN
  /\ FaultKinds \subseteq AllFaults

VARIABLES
  ec2,          \* the EC2 state of each instance
  target,       \* the tag launched-for-replacing-instance of each spot instance
  events,       \* state-change events not delivered yet
  members,      \* the group's instances
  desired,      \* its DesiredCapacity
  maxSize,      \* its MaxSize
  suspended,    \* its Terminate and AZRebalance processes are suspended
  queue,        \* the group's messages in the FIFO queue, the head in flight
  pc,           \* the step of the queue's handler
  snap,         \* the group as the handler read it when it started
  spot,         \* the handler's spot instance
  od,           \* the on-demand instance it swaps out
  raised,       \* it has increased MaxSize and will set it back
  counted,      \* the running on-demand instances it counted
  missed,       \* history: the running members it did not know of when it counted
  cron,         \* the step of the cron run
  wanted,       \* history: the capacity the owner or a policy asked for last
  faults,       \* history: the number of API calls that went wrong, and crashes
  blindScans,   \* history: how many scans for unattached instances failed
  overlapped,   \* history: a scaling decision fell within a run of the handler
  scalings,     \* history: the number of scaling decisions
  losses        \* history: the number of instances lost

ec2Vars  == <<ec2, target, events>>
asgVars  == <<members, desired, maxSize, suspended>>
jobVars  == <<snap, spot, od, raised, counted, missed>>
histVars == <<wanted, faults, blindScans, overlapped, scalings, losses>>
vars == <<ec2Vars, asgVars, queue, pc, jobVars, cron, histVars>>

States   == {"unborn", "pending", "running", "terminated", "gone"}
Live     == {"pending", "running"}
Steps    == {"idle", "check", "find", "boot", "candidate", "suspend", "raise",
             "attach", "inservice", "retire", "discard", "restore", "return"}
Group    == [members : SUBSET Instance, desired : Nat, max : Nat]
Message  == [id : Instance, state : States]
NoGroup  == [members |-> {}, desired |-> 0, max |-> 0]
ThisGroup == [members |-> members, desired |-> desired, max |-> maxSize]

----------------------------------------------------------------------------
(* What the handlers compute from the descriptions they hold.             *)

\* An injected fault, within the bound.
Fault(kind) ==
  /\ kind \in FaultKinds
  /\ faults < MaxFaults
  /\ faults' = faults + 1

\* Running and on-demand among a set of instances (alreadyRunningInstanceCount).
Running(S)  == {i \in S : ec2[i] = "running"}
RunningOnDemand(S) == Running(S) \cap OD

\* Mutants: the comparison with MinOnDemand is off by one, either way.
NeedReplaceAtMinimum(S) ==
  \/ Running(S) = {}
  \/ Cardinality(RunningOnDemand(S)) >= MinOnDemand
NeedReplaceAboveNext(S) ==
  \/ Running(S) = {}
  \/ Cardinality(RunningOnDemand(S)) > MinOnDemand + 1

\* needReplaceOnDemandInstances: an empty group always needs replacement.
NeedReplaceOnDemandInstances(S) ==
  \/ Running(S) = {}
  \/ Cardinality(RunningOnDemand(S)) > MinOnDemand

\* asg.scanInstances: each of the members S is described in turn, and one for which the
\* call fails is left out, as if it were not there.  Instance i was described just
\* before, which is used again if i comes first: alone, it is not left out.
ScanInstances(S, i, seen) ==
  /\ S = {i} => seen = S
  /\ \/ seen = S /\ UNCHANGED faults
     \/ seen # S /\ Fault("describe")

\* shouldBeReplacedWithSpot, with S the members of the group that were described.
\* The group's name is a tag of the instance, which EC2 still reports for a
\* terminated instance until it forgets it.
ShouldBeReplacedWithSpot(i, S) ==
  /\ i \in OD
  /\ ec2[i] # "gone"
  /\ NeedReplaceOnDemandInstances(S)
  /\ i \notin Protected

\* findUnattachedInstanceLaunchedForThisASG: pending or running, tagged for the
\* group, and not among the members the handler knows.
Unattached(S) ==
  {s \in Spot : ec2[s] \in Live /\ target[s] # NoInstance /\ s \notin S}

\* UpdateAutoScalingGroup: a MaxSize below the desired capacity lowers the latter.
SetAutoScalingMaxSize(m) ==
  /\ maxSize' = m
  /\ desired' = IF desired > m THEN m ELSE desired

\* TerminateInstances has no effect on an instance that is already terminated.
Terminate(i) == ec2' = [ec2 EXCEPT ![i] = IF @ \in Live THEN "terminated" ELSE @]

\* The message has the state in which its sender knows the instance.
SendMessage(i, state) ==
  /\ Len(queue) < MaxQueue
  /\ queue' = Append(queue, [id |-> i, state |-> state])

----------------------------------------------------------------------------
Init ==
  /\ ec2 = [i \in Instance |-> IF i \in InitialOD THEN "running" ELSE "unborn"]
  /\ target = [s \in Spot |-> NoInstance]
  /\ events = {}
  /\ members = InitialOD
  /\ desired = Cardinality(InitialOD)
  /\ maxSize = OwnerMax
  /\ suspended = FALSE
  /\ queue = << >>
  /\ pc = "idle"
  /\ snap = NoGroup /\ spot = NoInstance /\ od = NoInstance
  /\ raised = FALSE /\ counted = {} /\ missed = {}
  /\ cron = "idle"
  /\ wanted = Cardinality(InitialOD)
  /\ faults = 0 /\ blindScans = 0 /\ overlapped = FALSE
  /\ scalings = 0 /\ losses = 0

----------------------------------------------------------------------------
(* AWS: the AutoScaling group and EC2.                                     *)

\* The group launches on-demand instances while it is below its capacity.
LaunchOnDemand(i) ==
  /\ i \in OD /\ ec2[i] = "unborn"
  /\ Cardinality(members) < desired
  /\ ec2' = [ec2 EXCEPT ![i] = "pending"]
  /\ members' = members \cup {i}
  /\ UNCHANGED <<target, events, desired, maxSize, suspended, queue, pc, jobVars,
                 cron, histVars>>

\* An instance starts running; EventBridge will report it.  (The event of a spot
\* instance is ignored by the handler unless it comes through the queue.)
StartRunning(i) ==
  /\ ec2[i] = "pending"
  /\ ec2' = [ec2 EXCEPT ![i] = "running"]
  /\ events' = events \cup ({i} \cap OD)
  /\ UNCHANGED <<target, asgVars, queue, pc, jobVars, cron, histVars>>

\* The group terminates a member when it is above its capacity, unless the
\* Terminate process is suspended.
ScaleIn(i) ==
  /\ ~suspended
  /\ i \in members \ Protected
  /\ Cardinality(members) > desired
  /\ members' = members \ {i}
  /\ Terminate(i)
  /\ UNCHANGED <<target, events, desired, maxSize, suspended, queue, pc, jobVars,
                 cron, histVars>>

\* A terminated member leaves the group, by the same process.
RemoveTerminated(i) ==
  /\ ~suspended
  /\ i \in members /\ ec2[i] = "terminated"
  /\ members' = members \ {i}
  /\ UNCHANGED <<ec2Vars, desired, maxSize, suspended, queue, pc, jobVars, cron,
                 histVars>>

\* EC2 stops describing a terminated instance after about an hour, longer than the
\* 15 minutes a run of the handler can last.
Forget(i) ==
  /\ ec2[i] = "terminated" /\ i \notin members
  /\ pc = "idle"
  /\ ec2' = [ec2 EXCEPT ![i] = "gone"]
  /\ UNCHANGED <<target, events, asgVars, queue, pc, jobVars, cron, histVars>>

\* A scaling policy or the owner sets the capacity, within the current limits.
SetDesired(d) ==
  /\ scalings < MaxScalings
  /\ d # desired /\ MinSize <= d /\ d <= maxSize
  /\ desired' = d /\ wanted' = d
  /\ scalings' = scalings + 1
  /\ overlapped' = (overlapped \/ pc # "idle")
  /\ UNCHANGED <<ec2Vars, members, maxSize, suspended, queue, pc, jobVars, cron,
                 faults, blindScans, losses>>

\* The owner attaches a spot instance by hand before the handler does.
OwnerAttaches(s) ==
  /\ scalings < MaxScalings
  /\ s \notin members /\ ec2[s] = "running" /\ desired < maxSize
  /\ members' = members \cup {s}
  /\ desired' = desired + 1 /\ wanted' = wanted + 1
  /\ scalings' = scalings + 1
  /\ overlapped' = (overlapped \/ pc # "idle")
  /\ UNCHANGED <<ec2Vars, maxSize, suspended, queue, pc, jobVars, cron, faults,
                 blindScans, losses>>

\* An instance fails, its owner terminates it, or EC2 reclaims its spot capacity.
LoseInstance(i) ==
  /\ losses < MaxLosses
  /\ ec2[i] \in Live
  /\ Terminate(i)
  /\ losses' = losses + 1
  /\ UNCHANGED <<target, events, asgVars, queue, pc, jobVars, cron, wanted, faults,
                 blindScans, overlapped, scalings>>

----------------------------------------------------------------------------
(* The Lambda invocations that only queue messages.                        *)

\* EventHandler on a direct state-change event: the message is queued when the
\* instance should be replaced; nothing happens in the disabled mode.
DeliverEvent(i) ==
  /\ i \in events
  /\ events' = events \ {i}
  /\ \E seen \in SUBSET members :
       /\ ScanInstances(members, i, seen)
       /\ IF EventDriven /\ ShouldBeReplacedWithSpot(i, seen)
            THEN SendMessage(i, ec2[i])
            ELSE UNCHANGED queue
  /\ UNCHANGED <<ec2, target, asgVars, pc, jobVars, cron, wanted, blindScans,
                 overlapped, scalings, losses>>

\* The asynchronous invocation fails and the event is lost.
LoseEvent(i) ==
  /\ i \in events
  /\ Fault("event")
  /\ events' = events \ {i}
  /\ UNCHANGED <<ec2, target, asgVars, queue, pc, jobVars, cron, wanted,
                 blindScans, overlapped, scalings, losses>>

\* handleLifecycleHookEvent: a spot instance not attached yet tried to complete a
\* lifecycle action of the group; it is queued whatever the replacement mode.
LifecycleHookEvent(s) ==
  /\ LifecycleHooks
  /\ ec2[s] = "running" /\ s \in Unattached(members)
  /\ SendMessage(s, ec2[s])
  /\ UNCHANGED <<ec2Vars, asgVars, pc, jobVars, cron, histVars>>

\* cronEventAction and the action it returns: queue a message for any running,
\* unprotected on-demand member (which getAnyUnprotectedOnDemandInstance returns
\* depends on the iteration order of a map), or skip.
CronEventAction ==
  LET candidates == RunningOnDemand(members) \ Protected IN
  /\ cron = "idle"
  /\ cron' = "resume"
  /\ IF NeedReplaceOnDemandInstances(members) /\ candidates # {}
       THEN \E i \in candidates : SendMessage(i, "running")
       ELSE UNCHANGED queue
  /\ UNCHANGED <<ec2Vars, asgVars, pc, jobVars, histVars>>

\* cronEventAction of a goroutine whose scans other ones disturbed (RegionScan), or that
\* acts on what it read a while ago: it knows some members only, so that it may take the
\* minimum for smaller than it is, and the instance it chooses has left or died since.
OutdatedCronEventAction ==
  /\ OutdatedScans
  /\ cron = "idle"
  /\ cron' = "resume"
  /\ \E i \in OD \ Protected :
       ec2[i] \in {"running", "terminated"} /\ SendMessage(i, "running")
  /\ UNCHANGED <<ec2Vars, asgVars, pc, jobVars, histVars>>

\* Mutant: the run that replaces nothing does not resume the processes.
ResumeOnlyAfterReplacement ==
  /\ cron = "resume"
  /\ cron' = "idle"
  /\ suspended' = (suspended /\ ~NeedReplaceOnDemandInstances(members))
  /\ UNCHANGED <<ec2Vars, members, desired, maxSize, queue, pc, jobVars, histVars>>

\* processEnabledAutoScalingGroups resumes the processes whatever the action did.
ResumeProcesses ==
  /\ cron = "resume"
  /\ cron' = "idle"
  /\ suspended' = FALSE
  /\ UNCHANGED <<ec2Vars, members, desired, maxSize, queue, pc, jobVars, histVars>>

\* The cron invocation dies before it resumes them.
CronCrash ==
  /\ cron = "resume"
  /\ Fault("crash")
  /\ cron' = "idle"
  /\ UNCHANGED <<ec2Vars, asgVars, queue, pc, jobVars, wanted, blindScans,
                 overlapped, scalings, losses>>

----------------------------------------------------------------------------
(* The handler of the queue's messages.                                    *)

\* The handler is at one step and goes on to another.
Step(from, to) == pc = from /\ pc' = to

\* EventHandler on a message: processEventInstance returns at once in the
\* disabled mode, otherwise handleNewInstanceLaunch reads the group.
ReceiveMessage ==
  /\ queue # << >>
  /\ Step("idle", IF EventDriven THEN "check" ELSE "return")
  /\ snap' = IF EventDriven THEN ThisGroup ELSE NoGroup
  /\ UNCHANGED <<ec2Vars, asgVars, queue, spot, od, raised, counted, missed, cron,
                 histVars>>

\* The instance is not there, not running, not to be replaced, or attached: the
\* handler has nothing to do.
SkipInstance ==
  LET m == Head(queue) IN
  /\ Step("check", "return")
  /\ \/ /\ \/ ec2[m.id] = "gone"
           \/ m.state # "running"
           \/ m.id \in Spot /\ (target[m.id] = NoInstance \/ m.id \in snap.members)
        /\ UNCHANGED faults
     \/ /\ m.id \in OD
        /\ \E seen \in SUBSET snap.members :
             /\ ScanInstances(snap.members, m.id, seen)
             /\ ~ShouldBeReplacedWithSpot(m.id, seen)
     \/ Fault("api")
  /\ UNCHANGED <<ec2Vars, asgVars, queue, jobVars, cron, wanted, blindScans,
                 overlapped, scalings, losses>>

\* handleNewOnDemandInstanceLaunch goes on to look for a spot instance.
CheckOnDemand ==
  LET m == Head(queue) IN
  /\ Step("check", "find")
  /\ m.state = "running"
  /\ \E seen \in SUBSET snap.members :
       /\ ScanInstances(snap.members, m.id, seen)
       /\ ShouldBeReplacedWithSpot(m.id, seen)
  /\ UNCHANGED <<ec2Vars, asgVars, queue, jobVars, cron, wanted, blindScans,
                 overlapped, scalings, losses>>

\* handleNewSpotInstanceLaunch takes the instance of the message.
CheckSpot ==
  LET m == Head(queue) IN
  /\ Step("check", "candidate")
  /\ m.id \in Spot /\ m.state = "running" /\ ec2[m.id] # "gone"
  /\ target[m.id] # NoInstance /\ m.id \notin snap.members
  /\ spot' = m.id
  /\ UNCHANGED <<ec2Vars, asgVars, queue, snap, od, raised, counted, missed, cron,
                 histVars>>

\* Mutant: instances that are attached already are not left out.
FindAnyInstance ==
  /\ Step("find", "boot")
  /\ \E s \in Unattached({}) : spot' = s
  /\ UNCHANGED <<ec2Vars, asgVars, queue, snap, od, raised, counted, missed, cron,
                 histVars>>

\* Any unattached instance launched for the group is used again, whichever
\* on-demand instance it was launched for.
FindUnattachedInstance ==
  /\ Step("find", "boot")
  /\ \E s \in Unattached(snap.members) : spot' = s
  /\ UNCHANGED <<ec2Vars, asgVars, queue, snap, od, raised, counted, missed, cron,
                 histVars>>

\* Mutant: it launches without looking for an unattached instance first.
LaunchWithoutLooking ==
  LET i == Head(queue).id IN
  /\ Step("find", "boot")
  /\ \E s \in Spot :
       /\ ec2[s] = "unborn"
       /\ ec2' = [ec2 EXCEPT ![s] = "pending"]
       /\ target' = [target EXCEPT ![s] = i]
       /\ spot' = s
  /\ UNCHANGED <<events, asgVars, queue, snap, od, raised, counted, missed, cron, histVars>>

\* CreateFleet launches a spot instance tagged for the group and for the instance
\* of the message.  Failing to scan counts as finding nothing.
LaunchSpotReplacement ==
  LET i == Head(queue).id IN
  /\ Step("find", "boot")
  /\ \/ Unattached(snap.members) = {} /\ UNCHANGED <<faults, blindScans>>
     \/ Fault("scan") /\ blindScans' = blindScans + 1
  /\ \E s \in Spot :
       /\ ec2[s] = "unborn"
       /\ ec2' = [ec2 EXCEPT ![s] = "pending"]
       /\ target' = [target EXCEPT ![s] = i]
       /\ spot' = s
  /\ UNCHANGED <<events, asgVars, queue, snap, od, raised, counted, missed, cron, wanted,
                 overlapped, scalings, losses>>

\* No capacity, or no identity left in this instance of the model.
LaunchFails ==
  /\ Step("find", "return")
  /\ Unattached(snap.members) = {}
  /\ \/ Fault("launch")
     \/ (\A s \in Spot : ec2[s] # "unborn") /\ UNCHANGED faults
  /\ UNCHANGED <<ec2Vars, asgVars, queue, jobVars, cron, wanted, blindScans,
                 overlapped, scalings, losses>>

\* WaitUntilInstanceRunning, then scanInstance.
WaitUntilRunning ==
  /\ Step("boot", "candidate")
  /\ ec2[spot] = "running"
  /\ UNCHANGED <<ec2Vars, asgVars, queue, jobVars, cron, histVars>>

\* The instance was terminated meanwhile, or the wait timed out: give up and leave
\* the instance as it is.
WaitFails ==
  /\ Step("boot", "return")
  /\ \/ ec2[spot] \notin Live /\ UNCHANGED faults
     \/ Fault("timeout")
  /\ UNCHANGED <<ec2Vars, asgVars, queue, jobVars, cron, wanted, blindScans,
                 overlapped, scalings, losses>>

\* Mutant: the candidate is the spot instance itself.
SwapCandidateIsSpot ==
  /\ Step("candidate", "suspend")
  /\ od' = spot
  /\ \E seen \in SUBSET snap.members :
       /\ ScanInstances(snap.members, target[spot], seen)
       /\ ShouldBeReplacedWithSpot(target[spot], seen)
       /\ counted' = RunningOnDemand(seen)
       /\ missed' = Running(snap.members) \ seen
  /\ UNCHANGED <<ec2Vars, asgVars, queue, snap, spot, raised, cron, wanted,
                 blindScans, overlapped, scalings, losses>>

\* getSwapCandidate: the instance the spot instance was launched for.
GetSwapCandidate ==
  /\ Step("candidate", "suspend")
  /\ od' = target[spot]
  /\ \E seen \in SUBSET snap.members :
       /\ ScanInstances(snap.members, target[spot], seen)
       /\ ShouldBeReplacedWithSpot(target[spot], seen)
       /\ counted' = RunningOnDemand(seen)
       /\ missed' = Running(snap.members) \ seen
  /\ UNCHANGED <<ec2Vars, asgVars, queue, snap, spot, raised, cron, wanted,
                 blindScans, overlapped, scalings, losses>>

\* It cannot be described any more: the handler fails and leaves the spot instance.
CandidateMissing ==
  /\ Step("candidate", "return")
  /\ \/ ec2[target[spot]] = "gone" /\ UNCHANGED faults
     \/ Fault("api")
  /\ UNCHANGED <<ec2Vars, asgVars, queue, jobVars, cron, wanted, blindScans,
                 overlapped, scalings, losses>>

\* It should not be replaced (a failing DescribeInstanceAttribute counts as
\* protected): the spot instance will be terminated.
CandidateRejected ==
  /\ Step("candidate", "discard")
  /\ ec2[target[spot]] # "gone"
  /\ \/ \E seen \in SUBSET snap.members :
          /\ ScanInstances(snap.members, target[spot], seen)
          /\ ~ShouldBeReplacedWithSpot(target[spot], seen)
     \/ Fault("api")
  /\ UNCHANGED <<ec2Vars, asgVars, queue, jobVars, cron, wanted, blindScans,
                 overlapped, scalings, losses>>

\* swapWithGroupMember suspends the processes; a failure is only logged.
SuspendProcesses ==
  /\ Step("suspend", "raise")
  /\ \/ suspended' = TRUE /\ UNCHANGED faults
     \/ Fault("api") /\ UNCHANGED suspended
  /\ UNCHANGED <<ec2Vars, members, desired, maxSize, queue, jobVars, cron, wanted,
                 blindScans, overlapped, scalings, losses>>

\* It increases MaxSize if the group, as read at the start, is at its maximum, and
\* will set the value it read back; a failure is ignored.
RaiseMaxSize ==
  /\ Step("raise", "attach")
  /\ raised' = (snap.desired = snap.max)
  /\ \/ /\ IF raised' THEN SetAutoScalingMaxSize(snap.max + 1)
                      ELSE UNCHANGED <<maxSize, desired>>
        /\ UNCHANGED faults
     \/ raised' /\ Fault("api") /\ UNCHANGED <<maxSize, desired>>
  /\ UNCHANGED <<ec2Vars, members, suspended, queue, snap, spot, od, counted,
                 missed, cron, wanted, blindScans, overlapped, scalings, losses>>

\* attachSpotInstance: AttachInstances adds the instance to the group and one to
\* its capacity, unless the group is full.
AttachSpotInstance ==
  /\ Step("attach", "inservice")
  /\ \/ /\ spot \notin members
        /\ ec2[spot] = "running"
        /\ desired < maxSize
        /\ members' = members \cup {spot}
        /\ desired' = desired + 1
     \/ spot \in members /\ UNCHANGED <<members, desired>>
  /\ UNCHANGED <<ec2Vars, maxSize, suspended, queue, jobVars, cron, histVars>>

\* Mutant: the error of attachSpotInstance is not checked.
AttachErrorIgnored ==
  /\ Step("attach", "retire")
  /\ \/ /\ spot \notin members
        /\ ec2[spot] # "running" \/ desired >= maxSize
        /\ UNCHANGED faults
     \/ Fault("api")
  /\ UNCHANGED <<ec2Vars, asgVars, queue, jobVars, cron, wanted, blindScans,
                 overlapped, scalings, losses>>

AttachFails ==
  /\ Step("attach", "discard")
  /\ \/ /\ spot \notin members
        /\ ec2[spot] # "running" \/ desired >= maxSize
        /\ UNCHANGED faults
     \/ Fault("api")
  /\ UNCHANGED <<ec2Vars, asgVars, queue, jobVars, cron, wanted, blindScans,
                 overlapped, scalings, losses>>

\* waitForInstanceStatus "InService", which gives up after six tries.
WaitForInService ==
  /\ Step("inservice", "retire")
  /\ spot \in members /\ ec2[spot] = "running"
  /\ UNCHANGED <<ec2Vars, asgVars, queue, jobVars, cron, histVars>>

InServiceTimeout ==
  /\ Step("inservice", "discard")
  /\ \/ /\ spot \notin members \/ ec2[spot] # "running"
        /\ faults' = faults + 1
     \/ Fault("timeout")
  /\ UNCHANGED <<ec2Vars, asgVars, queue, jobVars, cron, wanted, blindScans,
                 overlapped, scalings, losses>>

\* instance.terminate on the spot instance, by EC2 and not through the group; the
\* result is ignored.
TerminateSpot ==
  /\ Step("discard", "restore")
  /\ \/ Terminate(spot) /\ UNCHANGED faults
     \/ Fault("api") /\ UNCHANGED ec2
  /\ UNCHANGED <<target, events, asgVars, queue, jobVars, cron, wanted, blindScans,
                 overlapped, scalings, losses>>

\* Mutant: decreaseCapacity is false.
TerminateWithoutDecrement ==
  /\ Step("retire", "restore")
  /\ od \in members /\ desired > MinSize
  /\ members' = members \ {od}
  /\ Terminate(od)
  /\ UNCHANGED <<target, events, desired, maxSize, suspended, queue, jobVars, cron,
                 histVars>>

\* terminateInstanceInAutoScalingGroup on the on-demand instance, with a decrement
\* of the capacity, which the group refuses below its MinSize.  (The wait for it
\* to be in service is only a delay.)
TerminateOnDemand ==
  /\ Step("retire", "restore")
  /\ od \in members /\ desired > MinSize
  /\ members' = members \ {od}
  /\ desired' = desired - 1
  /\ Terminate(od)
  /\ UNCHANGED <<target, events, maxSize, suspended, queue, jobVars, cron, histVars>>

TerminateOnDemandFails ==
  /\ Step("retire", "restore")
  /\ \/ od \notin members \/ desired <= MinSize
     \/ "api" \in FaultKinds /\ faults < MaxFaults
  /\ faults' = faults + 1
  /\ UNCHANGED <<ec2Vars, asgVars, queue, jobVars, cron, wanted, blindScans,
                 overlapped, scalings, losses>>

\* Mutant: MaxSize is not set back.
MaxSizeNotRestored ==
  /\ Step("restore", "return")
  /\ UNCHANGED <<ec2Vars, asgVars, queue, jobVars, cron, histVars>>

\* The deferred setAutoScalingMaxSize.
RestoreMaxSize ==
  /\ Step("restore", "return")
  /\ \/ /\ IF raised THEN SetAutoScalingMaxSize(snap.max)
                     ELSE UNCHANGED <<maxSize, desired>>
        /\ UNCHANGED faults
     \/ raised /\ Fault("api") /\ UNCHANGED <<maxSize, desired>>
  /\ UNCHANGED <<ec2Vars, members, suspended, queue, jobVars, cron, wanted,
                 blindScans, overlapped, scalings, losses>>

ForgetJob ==
  /\ pc' = "idle"
  /\ snap' = NoGroup /\ spot' = NoInstance /\ od' = NoInstance
  /\ raised' = FALSE /\ counted' = {} /\ missed' = {}

\* The deferred sqsDeleteMessage; the queue deletes the message of a handler that
\* returns in any case, whatever error it met.
DeleteMessage ==
  /\ pc = "return"
  /\ ForgetJob
  /\ queue' = Tail(queue)
  /\ UNCHANGED <<ec2Vars, asgVars, cron, histVars>>

\* The Lambda function times out or dies at any step: nothing deferred runs, and
\* the message becomes visible again.
Crash ==
  /\ pc # "idle"
  /\ Fault("crash")
  /\ ForgetJob
  /\ UNCHANGED <<ec2Vars, asgVars, queue, cron, wanted, blindScans, overlapped,
                 scalings, losses>>

----------------------------------------------------------------------------
Aws ==
  \/ \E i \in Instance : \/ LaunchOnDemand(i) \/ StartRunning(i) \/ ScaleIn(i)
                         \/ RemoveTerminated(i) \/ Forget(i) \/ LoseInstance(i)
  \/ \E d \in MinSize .. maxSize : SetDesired(d)
  \/ \E s \in Spot : OwnerAttaches(s)

Events ==
  \/ \E i \in OD : DeliverEvent(i) \/ LoseEvent(i)
  \/ \E s \in Spot : LifecycleHookEvent(s)

Cron == CronEventAction \/ OutdatedCronEventAction \/ ResumeProcesses

Handler ==
  \/ ReceiveMessage \/ SkipInstance \/ CheckOnDemand \/ CheckSpot
  \/ FindUnattachedInstance \/ LaunchSpotReplacement \/ LaunchFails
  \/ WaitUntilRunning \/ WaitFails
  \/ GetSwapCandidate \/ CandidateMissing \/ CandidateRejected
  \/ SuspendProcesses \/ RaiseMaxSize \/ AttachSpotInstance \/ AttachFails
  \/ WaitForInService \/ InServiceTimeout \/ TerminateSpot
  \/ TerminateOnDemand \/ TerminateOnDemandFails \/ RestoreMaxSize
  \/ DeleteMessage

Next == Aws \/ Events \/ Cron \/ CronCrash \/ Handler \/ Crash

Spec == Init /\ [][Next]_vars

\* EC2 boots instances and forgets the dead; the group keeps its capacity; the
\* schedule fires for ever and the queue invokes the handler while it has
\* messages.  Nothing is assumed of faults, losses and scaling decisions.
Fairness ==
  /\ \A i \in Instance : /\ WF_vars(StartRunning(i)) /\ WF_vars(ScaleIn(i))
                         /\ WF_vars(RemoveTerminated(i)) /\ WF_vars(Forget(i))
                         /\ WF_vars(LaunchOnDemand(i))
  /\ \A i \in OD : WF_vars(DeliverEvent(i))
  /\ WF_vars(Cron)
  /\ WF_vars(Handler)

FairSpec == Spec /\ Fairness

----------------------------------------------------------------------------
(* Properties.                                                             *)

TypeOK ==
  /\ ec2 \in [Instance -> States]
  /\ target \in [Spot -> OD \cup {NoInstance}]
  /\ events \subseteq OD
  /\ members \subseteq Instance
  /\ desired \in Nat /\ maxSize \in Nat /\ suspended \in BOOLEAN
  /\ queue \in Seq(Message)
  /\ pc \in Steps
  /\ snap \in Group
  /\ spot \in Spot \cup {NoInstance}
  /\ od \in OD \cup {NoInstance}
  /\ raised \in BOOLEAN /\ counted \subseteq OD /\ missed \subseteq Instance
  /\ cron \in {"idle", "resume"}
  /\ wanted \in Nat
  /\ faults \in Nat /\ blindScans \in Nat /\ overlapped \in BOOLEAN
  /\ scalings \in Nat /\ losses \in Nat

\* A message may be delivered any number of times, its handler may die after
\* CreateFleet, and several messages may stand for one instance: still the group
\* has at most one running spot instance launched for it and not attached, plus
\* one for each scan for such instances that failed.
OneSpareInstance ==
  Cardinality(Unattached(members)) <= 1 + blindScans

\* Between two runs of the handler the group's MaxSize is the one its owner set,
\* up to one for each crash or failed API call: a run that starts from an
\* increased MaxSize increases it again, and sets the increased one back.
MaxSizeRatchet ==
  pc = "idle" => maxSize \in OwnerMax .. OwnerMax + faults

\* A swap does not change the capacity of the group: between two runs of the
\* handler DesiredCapacity exceeds what was asked for by at most one for each
\* crash or failed call, and falls below it only if a scaling decision fell within
\* a run (the decrement that ends the swap is relative to that decision).
CapacityBand ==
  pc = "idle" => /\ desired <= wanted + faults
                 /\ overlapped \/ desired >= wanted

\* The handler counts on-demand instances long before it terminates one, and counts
\* only those it can describe.  Unless one of those it counted has left since, it
\* leaves at least MinOnDemand of them running in the group, but in one case: it could
\* describe none of the running members, which it takes for an empty group.  Missing
\* some of them does no harm.
MinOnDemandKept ==
  [][/\ pc = "retire" /\ pc' = "restore"
     /\ od \in RunningOnDemand(members) /\ ec2'[od] = "terminated"
     /\ counted \subseteq RunningOnDemand(members)
     => \/ Cardinality(RunningOnDemand(members)') >= MinOnDemand
        \/ counted = {} /\ missed # {}]_vars

\* The on-demand instance is terminated only with its replacement in the group: at
\* that step the spot instance is a member, unless it died since it was in service.
ReplacedBeforeRetired ==
  [][/\ pc # "idle" /\ od \in members /\ od \notin members' /\ pc # pc'
     => spot \in members \/ ec2[spot] \notin Live]_vars

\* Replacement goes on until it is done: eventually no more on-demand instances
\* run than are to be kept, those its owner protected aside, as long as this
\* instance of the model has identities of spot instances left.
Replaced ==
  \/ Cardinality(RunningOnDemand(members)) <= MinOnDemand
  \/ RunningOnDemand(members) \subseteq Protected
Exhausted == \A s \in Spot : ec2[s] # "unborn"
EventuallyReplaced == <>[](Replaced \/ Exhausted)

\* The processes that a swap suspends are resumed, by some later cron run, again
\* and again.
ProcessesResumed == []<>~suspended

\* The swaps of a group are a replacement as GroupCapacity describes it: between the
\* handler's attaching the spot instance and its terminating the on-demand one, the
\* former is the newcomer; crashes and failed calls are the slips.
Alive    == {i \in Instance : ec2[i] \in Live}
Newcomer == IF pc \in {"inservice", "retire"} THEN spot ELSE NoInstance
Swap == INSTANCE GroupCapacity WITH
  None <- NoInstance, live <- Alive, capacity <- desired, asked <- wanted,
  newcomer <- Newcomer, slips <- faults, disturbed <- overlapped
KeepsCapacity == Swap!Spec

----------------------------------------------------------------------------
(* Inductive invariants.                                                   *)

\* MaxSizeRatchet: until the handler increases MaxSize, its snapshot is accurate;
\* then the limit is at most one above the snapshot, and above what is allowed
\* between two runs only while it has not been set back.
MaxSizeInv ==
  LET Allowed == OwnerMax .. OwnerMax + faults IN
  /\ pc \in {"check", "find", "boot", "candidate", "suspend", "raise"}
       => snap.max = maxSize /\ ~raised
  /\ pc = "idle" => ~raised
  /\ ~raised => maxSize \in Allowed
  /\ raised => snap.max \in Allowed /\ maxSize \in {snap.max, snap.max + 1}
  /\ pc = "return" => maxSize \in Allowed

\* CapacityBand: between attaching and terminating, the capacity includes one
\* instance more.  What the handler does not know of, while no scaling decision
\* falls within its run, is not attached, and the capacity asked for is within the
\* limit it sets back.
CapacityInv ==
  LET inSwap == IF pc \in {"inservice", "retire"} THEN 1 ELSE 0 IN
  /\ desired <= maxSize
  /\ desired <= wanted + faults + inSwap
  /\ overlapped \/ desired >= wanted + inSwap
  /\ \A i \in members : ec2[i] # "unborn"
  /\ pc \in {"check", "find"} => overlapped \/ members \cap Spot \subseteq snap.members
  /\ pc \in {"boot", "candidate", "suspend", "raise", "attach"}
       => overlapped \/ spot \notin members
  /\ pc \notin {"idle", "return"} => overlapped \/ wanted <= snap.max

\* ReplacedBeforeRetired: what was attached is a member until it dies.
JoinedInv == pc \in {"inservice", "retire"} => spot \in members \/ ec2[spot] \notin Live

=============================================================================

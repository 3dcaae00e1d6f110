----------------------- MODULE SpotReplacement_proofs -----------------------
(***************************************************************************)
(* Theorems about SpotReplacement, for every value of its constants.       *)
(***************************************************************************)
EXTENDS SpotReplacement, FiniteSetTheorems, TLAPS

(***************************************************************************)
(* Type correctness.  It needs to know what the handler's variables hold   *)
(* at each of its steps: it has a message, an on-demand message where it    *)
(* launches, and a spot instance from then on.                             *)
(***************************************************************************)
HoldsSpot == {"boot", "candidate", "suspend", "raise", "attach", "inservice",
              "retire", "discard", "restore"}
HoldsOnDemand == {"suspend", "raise", "attach", "inservice", "retire"}

JobInv ==
  /\ pc # "idle" => queue # << >>
  /\ pc = "find" => Head(queue).id \in OD
  /\ pc \in HoldsSpot => spot \in Spot
  /\ pc \in HoldsOnDemand => od \in OD

TypeInv == TypeOK /\ JobInv

\* The initial size of the group is a number.
LEMMA InitialCardinality == Cardinality(InitialOD) \in Nat
<1>1. IsFiniteSet(InitialOD)
  BY FS_Subset, InstanceAssumption
<1> QED
  BY <1>1, FS_CardinalityType

\* Initially the variables are well typed.
LEMMA InitTypeInv == Init => TypeInv
<1> SUFFICES ASSUME Init PROVE TypeInv
  OBVIOUS
<1>1. TypeOK
  <2>1. ec2 \in [Instance -> States] /\ target \in [Spot -> OD \cup {NoInstance}]
    BY DEF Init, States
  <2>2. /\ events \subseteq OD /\ members \subseteq Instance
        /\ counted \subseteq OD /\ missed \subseteq Instance
    BY InstanceAssumption DEF Init, Instance
  <2>3. desired \in Nat /\ maxSize \in Nat /\ wanted \in Nat
    BY InitialCardinality, NumberAssumption DEF Init
  <2>4. snap \in Group
    BY DEF Init, Group, NoGroup
  <2>5. queue \in Seq(Message)
    BY DEF Init
  <2> QED
    BY <2>1, <2>2, <2>3, <2>4, <2>5 DEF Init, TypeOK, Steps
<1>2. JobInv
  BY DEF Init, JobInv, HoldsSpot, HoldsOnDemand
<1> QED
  BY <1>1, <1>2 DEF TypeInv

\* What a message appended to the queue does to it.
LEMMA SendMessageKeeps ==
  ASSUME TypeOK, NEW i \in Instance, NEW state \in States, SendMessage(i, state)
  PROVE  /\ queue' \in Seq(Message)
         /\ queue' # << >>
         /\ queue # << >> => Head(queue') = Head(queue)
<1>1. [id |-> i, state |-> state] \in Message
  BY DEF Message
<1>2. queue \in Seq(Message)
  BY DEF TypeOK
<1> QED
  BY <1>1, <1>2 DEF SendMessage

\* Every step keeps the types, and what the handler holds at its steps.
LEMMA NextTypeInv == TypeInv /\ [Next]_vars => TypeInv'
<1> SUFFICES ASSUME TypeInv, [Next]_vars PROVE TypeInv'
  OBVIOUS
<1> USE InstanceAssumption, NumberAssumption
<1> USE DEF TypeInv, TypeOK, JobInv, HoldsSpot, HoldsOnDemand, Instance, States,
            Live, Steps, Group, ec2Vars, asgVars, jobVars, histVars
<1>1. ASSUME NEW i \in Instance, LaunchOnDemand(i) PROVE TypeInv'
  BY <1>1 DEF LaunchOnDemand, Terminate
<1>2. ASSUME NEW i \in Instance, StartRunning(i) PROVE TypeInv'
  BY <1>2 DEF StartRunning
<1>3. ASSUME NEW i \in Instance, ScaleIn(i) PROVE TypeInv'
  BY <1>3 DEF ScaleIn, Terminate
<1>4. ASSUME NEW i \in Instance, RemoveTerminated(i) PROVE TypeInv'
  BY <1>4 DEF RemoveTerminated
<1>5. ASSUME NEW i \in Instance, Forget(i) PROVE TypeInv'
  BY <1>5 DEF Forget
<1>6. ASSUME NEW i \in Instance, LoseInstance(i) PROVE TypeInv'
  BY <1>6 DEF LoseInstance, Terminate
<1>7. ASSUME NEW d \in MinSize .. maxSize, SetDesired(d) PROVE TypeInv'
  BY <1>7 DEF SetDesired
<1>8. ASSUME NEW s \in Spot, OwnerAttaches(s) PROVE TypeInv'
  BY <1>8 DEF OwnerAttaches
<1>9. ASSUME NEW i \in OD, DeliverEvent(i) PROVE TypeInv'
  BY <1>9, SendMessageKeeps DEF DeliverEvent, ScanInstances, Fault
<1>10. ASSUME NEW i \in OD, LoseEvent(i) PROVE TypeInv'
  BY <1>10 DEF LoseEvent, Fault
<1>11. ASSUME NEW s \in Spot, LifecycleHookEvent(s) PROVE TypeInv'
  BY <1>11, SendMessageKeeps DEF LifecycleHookEvent
<1>12. CASE CronEventAction \/ OutdatedCronEventAction
  <2>1. UNCHANGED queue \/ \E i \in Instance : SendMessage(i, "running")
    BY <1>12 DEF CronEventAction, OutdatedCronEventAction, RunningOnDemand
  <2>2. /\ cron' \in {"idle", "resume"}
        /\ UNCHANGED <<ec2Vars, asgVars, pc, jobVars, histVars>>
    BY <1>12 DEF CronEventAction, OutdatedCronEventAction
  <2>3. CASE UNCHANGED queue
    BY <2>2, <2>3
  <2>4. ASSUME NEW i \in Instance, SendMessage(i, "running") PROVE TypeInv'
    BY <2>2, <2>4, SendMessageKeeps
  <2> QED
    BY <2>1, <2>3, <2>4
<1>13. CASE ResumeProcesses
  BY <1>13 DEF ResumeProcesses
<1>14. CASE CronCrash
  BY <1>14 DEF CronCrash, Fault
<1>15. CASE ReceiveMessage
  BY <1>15 DEF ReceiveMessage, Step, ThisGroup, NoGroup
<1>16. CASE SkipInstance
  BY <1>16 DEF SkipInstance, ScanInstances, Step, Fault
<1>17. CASE CheckOnDemand
  BY <1>17 DEF CheckOnDemand, ScanInstances, Step, Fault, ShouldBeReplacedWithSpot
<1>18. CASE CheckSpot
  BY <1>18 DEF CheckSpot, Step
<1>19. CASE FindUnattachedInstance
  BY <1>19 DEF FindUnattachedInstance, Step, Unattached
<1>20. CASE LaunchSpotReplacement
  BY <1>20 DEF LaunchSpotReplacement, Step, Fault
<1>21. CASE LaunchFails
  BY <1>21 DEF LaunchFails, Step, Fault
<1>22. CASE WaitUntilRunning
  BY <1>22 DEF WaitUntilRunning, Step
<1>23. CASE WaitFails
  BY <1>23 DEF WaitFails, Step, Fault
<1>24. CASE GetSwapCandidate
  <2>1. PICK seen \in SUBSET snap.members :
          /\ ScanInstances(snap.members, target[spot], seen)
          /\ target[spot] \in OD
          /\ counted' = RunningOnDemand(seen)
          /\ missed' = Running(snap.members) \ seen
    BY <1>24 DEF GetSwapCandidate, ShouldBeReplacedWithSpot
  <2>2. faults' \in Nat
    BY <2>1 DEF ScanInstances, Fault
  <2>3. counted' \subseteq OD
    BY <2>1 DEF RunningOnDemand
  <2>4. missed' \subseteq Instance
    BY <2>1 DEF Running
  <2> QED
    BY <1>24, <2>1, <2>2, <2>3, <2>4 DEF GetSwapCandidate, Step
<1>25. CASE CandidateMissing
  BY <1>25 DEF CandidateMissing, Step, Fault
<1>26. CASE CandidateRejected
  BY <1>26 DEF CandidateRejected, ScanInstances, Step, Fault
<1>27. CASE SuspendProcesses
  <2>1. suspended' \in BOOLEAN
    BY <1>27, Zenon DEF SuspendProcesses
  <2>2. JobInv'
    BY <1>27 DEF SuspendProcesses, Step
  <2> QED
    BY <2>1, <2>2, <1>27 DEF SuspendProcesses, Step, Fault
<1>28. CASE RaiseMaxSize
  BY <1>28 DEF RaiseMaxSize, Step, SetAutoScalingMaxSize, Fault
<1>29. CASE AttachSpotInstance
  BY <1>29 DEF AttachSpotInstance, Step
<1>30. CASE AttachFails
  BY <1>30 DEF AttachFails, Step, Fault
<1>31. CASE WaitForInService
  BY <1>31 DEF WaitForInService, Step
<1>32. CASE InServiceTimeout
  BY <1>32 DEF InServiceTimeout, Step, Fault
<1>33. CASE TerminateSpot
  BY <1>33 DEF TerminateSpot, Step, Terminate, Fault
<1>34. CASE TerminateOnDemand
  BY <1>34 DEF TerminateOnDemand, Step, Terminate
<1>35. CASE TerminateOnDemandFails
  BY <1>35 DEF TerminateOnDemandFails, Step
<1>36. CASE RestoreMaxSize
  BY <1>36 DEF RestoreMaxSize, Step, SetAutoScalingMaxSize, Fault
<1>37. CASE DeleteMessage
  <2>1. snap' \in Group /\ queue' \in Seq(Message)
    BY <1>37 DEF DeleteMessage, ForgetJob, Group, NoGroup
  <2> QED
    BY <2>1, <1>37 DEF DeleteMessage, ForgetJob
<1>38. CASE Crash
  <2>1. snap' \in Group
    <3>1. NoGroup \in Group
      BY DEF NoGroup, Group
    <3> QED
      BY <3>1, <1>38 DEF Crash, ForgetJob
  <2>2. pc' = "idle" /\ spot' = NoInstance /\ od' = NoInstance
        /\ raised' = FALSE /\ counted' = {} /\ missed' = {} /\ faults' \in Nat
    BY <1>38 DEF Crash, ForgetJob, Fault
  <2>3. UNCHANGED <<ec2Vars, asgVars, queue, cron, wanted, blindScans, overlapped,
                    scalings, losses>>
    BY <1>38 DEF Crash
  <2> QED
    BY <2>1, <2>2, <2>3
<1>39. CASE UNCHANGED vars
  BY <1>39 DEF vars
<1> QED
  BY <1>1, <1>2, <1>3, <1>4, <1>5, <1>6, <1>7, <1>8, <1>9, <1>10, <1>11,
     <1>12, <1>13, <1>14, <1>15, <1>16, <1>17, <1>18, <1>19, <1>20, <1>21,
     <1>22, <1>23, <1>24, <1>25, <1>26, <1>27, <1>28, <1>29, <1>30, <1>31,
     <1>32, <1>33, <1>34, <1>35, <1>36, <1>37, <1>38, <1>39
  DEF Next, Aws, Events, Cron, Handler

\* The state is well typed in every group, however invocations, events and faults
\* interleave: at each step the handler holds the instances that its code there uses.
THEOREM TypeCorrect == Spec => []TypeOK
<1>1. Spec => []TypeInv
  BY InitTypeInv, NextTypeInv, PTL DEF Spec
<1> QED
  BY <1>1, PTL DEF TypeInv

(***************************************************************************)
(* MaxSize.  MaxSizeInv follows the increase through the handler's run: a   *)
(* crash or a failed call in the middle of it is what turns the temporary  *)
(* increase into one that a later run takes for the owner's limit.         *)
(***************************************************************************)
LEMMA InitMaxSizeInv == Init => MaxSizeInv
BY NumberAssumption DEF Init, MaxSizeInv

\* Every step keeps the limit as the handler and its faults account for it.
LEMMA NextMaxSizeInv == TypeInv /\ MaxSizeInv /\ [Next]_vars => MaxSizeInv'
<1> SUFFICES ASSUME TypeInv /\ MaxSizeInv, [Next]_vars PROVE MaxSizeInv'
  OBVIOUS
<1> USE NumberAssumption
<1> USE DEF TypeInv, TypeOK, Group, MaxSizeInv, Steps,
            ec2Vars, asgVars, jobVars, histVars
<1>1. ASSUME NEW i \in Instance, LaunchOnDemand(i) PROVE MaxSizeInv'
  BY <1>1 DEF LaunchOnDemand, Terminate
<1>2. ASSUME NEW i \in Instance, StartRunning(i) PROVE MaxSizeInv'
  BY <1>2 DEF StartRunning
<1>3. ASSUME NEW i \in Instance, ScaleIn(i) PROVE MaxSizeInv'
  BY <1>3 DEF ScaleIn, Terminate
<1>4. ASSUME NEW i \in Instance, RemoveTerminated(i) PROVE MaxSizeInv'
  BY <1>4 DEF RemoveTerminated
<1>5. ASSUME NEW i \in Instance, Forget(i) PROVE MaxSizeInv'
  BY <1>5 DEF Forget
<1>6. ASSUME NEW i \in Instance, LoseInstance(i) PROVE MaxSizeInv'
  BY <1>6 DEF LoseInstance, Terminate
<1>7. ASSUME NEW d \in MinSize .. maxSize, SetDesired(d) PROVE MaxSizeInv'
  BY <1>7 DEF SetDesired
<1>8. ASSUME NEW s \in Spot, OwnerAttaches(s) PROVE MaxSizeInv'
  BY <1>8 DEF OwnerAttaches
<1>9. ASSUME NEW i \in OD, DeliverEvent(i) PROVE MaxSizeInv'
  BY <1>9 DEF DeliverEvent, ScanInstances, Fault
<1>10. ASSUME NEW i \in OD, LoseEvent(i) PROVE MaxSizeInv'
  BY <1>10 DEF LoseEvent, Fault
<1>11. ASSUME NEW s \in Spot, LifecycleHookEvent(s) PROVE MaxSizeInv'
  BY <1>11 DEF LifecycleHookEvent
<1>12. CASE CronEventAction \/ OutdatedCronEventAction
  BY <1>12 DEF CronEventAction, OutdatedCronEventAction
<1>13. CASE ResumeProcesses
  BY <1>13 DEF ResumeProcesses
<1>14. CASE CronCrash
  BY <1>14 DEF CronCrash, Fault
<1>15. CASE ReceiveMessage
  BY <1>15 DEF ReceiveMessage, Step, ThisGroup, NoGroup
<1>16. CASE SkipInstance
  BY <1>16 DEF SkipInstance, ScanInstances, Step, Fault
<1>17. CASE CheckOnDemand
  BY <1>17 DEF CheckOnDemand, ScanInstances, Step, Fault
<1>18. CASE CheckSpot
  BY <1>18 DEF CheckSpot, Step
<1>19. CASE FindUnattachedInstance
  BY <1>19 DEF FindUnattachedInstance, Step
<1>20. CASE LaunchSpotReplacement
  BY <1>20 DEF LaunchSpotReplacement, Step, Fault
<1>21. CASE LaunchFails
  BY <1>21 DEF LaunchFails, Step, Fault
<1>22. CASE WaitUntilRunning
  BY <1>22 DEF WaitUntilRunning, Step
<1>23. CASE WaitFails
  BY <1>23 DEF WaitFails, Step, Fault
<1>24. CASE GetSwapCandidate
  BY <1>24 DEF GetSwapCandidate, ScanInstances, Step, Fault
<1>25. CASE CandidateMissing
  BY <1>25 DEF CandidateMissing, Step, Fault
<1>26. CASE CandidateRejected
  BY <1>26 DEF CandidateRejected, ScanInstances, Step, Fault
<1>27. CASE SuspendProcesses
  BY <1>27 DEF SuspendProcesses, Step, Fault
<1>28. CASE RaiseMaxSize
  BY <1>28 DEF RaiseMaxSize, Step, Fault, SetAutoScalingMaxSize
<1>29. CASE AttachSpotInstance
  BY <1>29 DEF AttachSpotInstance, Step
<1>30. CASE AttachFails
  BY <1>30 DEF AttachFails, Step, Fault
<1>31. CASE WaitForInService
  BY <1>31 DEF WaitForInService, Step
<1>32. CASE InServiceTimeout
  BY <1>32 DEF InServiceTimeout, Step, Fault
<1>33. CASE TerminateSpot
  BY <1>33 DEF TerminateSpot, Step, Fault
<1>34. CASE TerminateOnDemand
  BY <1>34 DEF TerminateOnDemand, Step
<1>35. CASE TerminateOnDemandFails
  BY <1>35 DEF TerminateOnDemandFails, Step
<1>36. CASE RestoreMaxSize
  BY <1>36 DEF RestoreMaxSize, Step, Fault, SetAutoScalingMaxSize
<1>37. CASE DeleteMessage
  BY <1>37 DEF DeleteMessage, ForgetJob, NoGroup
<1>38. CASE Crash
  BY <1>38 DEF Crash, ForgetJob, Fault, NoGroup
<1>39. CASE UNCHANGED vars
  BY <1>39 DEF vars
<1> QED
  BY <1>1, <1>2, <1>3, <1>4, <1>5, <1>6, <1>7, <1>8, <1>9, <1>10, <1>11,
     <1>12, <1>13, <1>14, <1>15, <1>16, <1>17, <1>18, <1>19, <1>20, <1>21,
     <1>22, <1>23, <1>24, <1>25, <1>26, <1>27, <1>28, <1>29, <1>30, <1>31,
     <1>32, <1>33, <1>34, <1>35, <1>36, <1>37, <1>38, <1>39
  DEF Next, Aws, Events, Cron, Handler

\* A run of the handler leaves MaxSize as the owner set it, but for one more for
\* each crash or failed call so far.
THEOREM MaxSizeBounded == Spec => []MaxSizeRatchet
<1>1. Spec => []TypeInv
  BY InitTypeInv, NextTypeInv, PTL DEF Spec
<1>2. Spec => []MaxSizeInv
  BY <1>1, InitMaxSizeInv, NextMaxSizeInv, PTL DEF Spec
<1>3. MaxSizeInv => MaxSizeRatchet
  BY DEF MaxSizeInv, MaxSizeRatchet
<1> QED
  BY <1>2, <1>3, PTL

(***************************************************************************)
(* Capacity.  CapacityInv adds to the band the instance that is attached    *)
(* and not yet made up for by a termination, and what makes the clamp of    *)
(* setAutoScalingMaxSize and the tolerated double attachment harmless.      *)
(***************************************************************************)
LEMMA InitCapacityInv == Init => CapacityInv
BY InitialCardinality, InstanceAssumption, NumberAssumption
DEF Init, CapacityInv, Instance

\* Every step keeps the capacity as the handler and its faults account for it.
LEMMA NextCapacityInv == TypeInv /\ MaxSizeInv /\ CapacityInv /\ [Next]_vars => CapacityInv'
<1> SUFFICES ASSUME TypeInv /\ MaxSizeInv /\ CapacityInv, [Next]_vars PROVE CapacityInv'
  OBVIOUS
<1> USE NumberAssumption, InstanceAssumption
<1> USE DEF TypeInv, TypeOK, Group, MaxSizeInv, CapacityInv, JobInv, HoldsSpot, Instance, Live,
             Steps,
            ec2Vars, asgVars, jobVars, histVars
<1>1. ASSUME NEW i \in Instance, LaunchOnDemand(i) PROVE CapacityInv'
  BY <1>1 DEF LaunchOnDemand, Terminate
<1>2. ASSUME NEW i \in Instance, StartRunning(i) PROVE CapacityInv'
  BY <1>2 DEF StartRunning
<1>3. ASSUME NEW i \in Instance, ScaleIn(i) PROVE CapacityInv'
  BY <1>3 DEF ScaleIn, Terminate
<1>4. ASSUME NEW i \in Instance, RemoveTerminated(i) PROVE CapacityInv'
  BY <1>4 DEF RemoveTerminated
<1>5. ASSUME NEW i \in Instance, Forget(i) PROVE CapacityInv'
  BY <1>5 DEF Forget
<1>6. ASSUME NEW i \in Instance, LoseInstance(i) PROVE CapacityInv'
  BY <1>6 DEF LoseInstance, Terminate
<1>7. ASSUME NEW d \in MinSize .. maxSize, SetDesired(d) PROVE CapacityInv'
  <2>1. CASE pc = "idle"
    <3>1. overlapped' = (overlapped \/ FALSE)
      BY <2>1, <1>7 DEF SetDesired
    <3>2. /\ d \in Int /\ d <= maxSize
          /\ desired' = d /\ wanted' = d
          /\ maxSize' = maxSize /\ members' = members /\ ec2' = ec2
          /\ snap' = snap /\ faults' = faults /\ pc' = "idle"
      BY <2>1, <1>7 DEF SetDesired
    <3>3. /\ desired' <= maxSize' /\ desired' <= wanted' + faults'
          /\ desired' >= wanted'
      BY <3>2, faults \in Nat
    <3>4. \A i \in members' : ec2'[i] # "unborn"
      BY <3>2
    <3> QED
      BY <3>2, <3>3, <3>4
  <2>2. CASE pc # "idle"
    <3>1. overlapped'
      BY <2>2, <1>7 DEF SetDesired
    <3> QED
      BY <2>2, <3>1, <1>7 DEF SetDesired
  <2> QED
    BY <2>1, <2>2
<1>8. ASSUME NEW s \in Spot, OwnerAttaches(s) PROVE CapacityInv'
  <2>1. CASE pc = "idle"
    <3>1. overlapped' = (overlapped \/ FALSE)
      BY <2>1, <1>8 DEF OwnerAttaches
    <3> QED
      BY <2>1, <3>1, <1>8 DEF OwnerAttaches
  <2>2. CASE pc # "idle"
    <3>1. overlapped'
      BY <2>2, <1>8 DEF OwnerAttaches
    <3> QED
      BY <2>2, <3>1, <1>8 DEF OwnerAttaches
  <2> QED
    BY <2>1, <2>2
<1>9. ASSUME NEW i \in OD, DeliverEvent(i) PROVE CapacityInv'
  BY <1>9 DEF DeliverEvent, ScanInstances, Fault
<1>10. ASSUME NEW i \in OD, LoseEvent(i) PROVE CapacityInv'
  BY <1>10 DEF LoseEvent, Fault
<1>11. ASSUME NEW s \in Spot, LifecycleHookEvent(s) PROVE CapacityInv'
  BY <1>11 DEF LifecycleHookEvent
<1>12. CASE CronEventAction \/ OutdatedCronEventAction
  BY <1>12 DEF CronEventAction, OutdatedCronEventAction
<1>13. CASE ResumeProcesses
  BY <1>13 DEF ResumeProcesses
<1>14. CASE CronCrash
  BY <1>14 DEF CronCrash, Fault
<1>15. CASE ReceiveMessage
  BY <1>15 DEF ReceiveMessage, Step, ThisGroup, NoGroup
<1>16. CASE SkipInstance
  BY <1>16 DEF SkipInstance, ScanInstances, Step, Fault
<1>17. CASE CheckOnDemand
  BY <1>17 DEF CheckOnDemand, ScanInstances, Step, Fault
<1>18. CASE CheckSpot
  BY <1>18 DEF CheckSpot, Step
<1>19. CASE FindUnattachedInstance
  BY <1>19 DEF FindUnattachedInstance, Step, Unattached
<1>20. CASE LaunchSpotReplacement
  BY <1>20 DEF LaunchSpotReplacement, Step, Fault, Unattached
<1>21. CASE LaunchFails
  BY <1>21 DEF LaunchFails, Step, Fault
<1>22. CASE WaitUntilRunning
  BY <1>22 DEF WaitUntilRunning, Step
<1>23. CASE WaitFails
  BY <1>23 DEF WaitFails, Step, Fault
<1>24. CASE GetSwapCandidate
  BY <1>24 DEF GetSwapCandidate, ScanInstances, Step, Fault
<1>25. CASE CandidateMissing
  BY <1>25 DEF CandidateMissing, Step, Fault
<1>26. CASE CandidateRejected
  BY <1>26 DEF CandidateRejected, ScanInstances, Step, Fault
<1>27. CASE SuspendProcesses
  BY <1>27 DEF SuspendProcesses, Step, Fault
<1>28. CASE RaiseMaxSize
  BY <1>28 DEF RaiseMaxSize, Step, Fault, SetAutoScalingMaxSize
<1>29. CASE AttachSpotInstance
  BY <1>29 DEF AttachSpotInstance, Step
<1>30. CASE AttachFails
  BY <1>30 DEF AttachFails, Step, Fault
<1>31. CASE WaitForInService
  BY <1>31 DEF WaitForInService, Step
<1>32. CASE InServiceTimeout
  BY <1>32 DEF InServiceTimeout, Step, Fault
<1>33. CASE TerminateSpot
  BY <1>33 DEF TerminateSpot, Step, Fault, Terminate
<1>34. CASE TerminateOnDemand
  BY <1>34 DEF TerminateOnDemand, Step, Terminate
<1>35. CASE TerminateOnDemandFails
  BY <1>35 DEF TerminateOnDemandFails, Step
<1>36. CASE RestoreMaxSize
  BY <1>36 DEF RestoreMaxSize, Step, Fault, SetAutoScalingMaxSize
<1>37. CASE DeleteMessage
  BY <1>37 DEF DeleteMessage, ForgetJob, NoGroup
<1>38. CASE Crash
  BY <1>38 DEF Crash, ForgetJob, Fault, NoGroup
<1>39. CASE UNCHANGED vars
  BY <1>39 DEF vars
<1> QED
  BY <1>1, <1>2, <1>3, <1>4, <1>5, <1>6, <1>7, <1>8, <1>9, <1>10, <1>11,
     <1>12, <1>13, <1>14, <1>15, <1>16, <1>17, <1>18, <1>19, <1>20, <1>21,
     <1>22, <1>23, <1>24, <1>25, <1>26, <1>27, <1>28, <1>29, <1>30, <1>31,
     <1>32, <1>33, <1>34, <1>35, <1>36, <1>37, <1>38, <1>39
  DEF Next, Aws, Events, Cron, Handler

\* A swap keeps the capacity asked for, but for one more for each crash or failed
\* call, and but for scaling decisions that fall within a run of the handler.
THEOREM CapacityKept == Spec => []CapacityBand
<1>1. Spec => []TypeInv
  BY InitTypeInv, NextTypeInv, PTL DEF Spec
<1>2. Spec => []MaxSizeInv
  BY <1>1, InitMaxSizeInv, NextMaxSizeInv, PTL DEF Spec
<1>3. Spec => []CapacityInv
  BY <1>1, <1>2, InitCapacityInv, NextCapacityInv, PTL DEF Spec
<1>4. TypeInv /\ CapacityInv => CapacityBand
  BY DEF TypeInv, TypeOK, CapacityInv, CapacityBand
<1> QED
  BY <1>1, <1>3, <1>4, PTL

(***************************************************************************)
(* The refinement of GroupCapacity.  Most steps of the handler change       *)
(* nothing that GroupCapacity speaks of, or only add a fault.              *)
(***************************************************************************)
LEMMA InitJoinedInv == Init => JoinedInv
BY DEF Init, JoinedInv

\* Every step leaves what was attached in the group until it dies.
LEMMA NextJoinedInv == TypeInv /\ JoinedInv /\ [Next]_vars => JoinedInv'
<1> SUFFICES ASSUME TypeInv, JoinedInv, [Next]_vars PROVE JoinedInv'
  OBVIOUS
<1> USE InstanceAssumption
<1> USE DEF TypeInv, TypeOK, JobInv, HoldsSpot, JoinedInv, Instance, Live, States,
            ec2Vars, asgVars, jobVars, histVars
<1>1. CASE Aws
  <2>1. ASSUME NEW i \in Instance, LaunchOnDemand(i) PROVE JoinedInv'
    BY <2>1 DEF LaunchOnDemand
  <2>2. ASSUME NEW i \in Instance, StartRunning(i) PROVE JoinedInv'
    BY <2>2 DEF StartRunning
  <2>3. ASSUME NEW i \in Instance, ScaleIn(i) PROVE JoinedInv'
    BY <2>3 DEF ScaleIn, Terminate
  <2>4. ASSUME NEW i \in Instance, RemoveTerminated(i) PROVE JoinedInv'
    BY <2>4 DEF RemoveTerminated
  <2>5. ASSUME NEW i \in Instance, Forget(i) PROVE JoinedInv'
    BY <2>5 DEF Forget
  <2>6. ASSUME NEW i \in Instance, LoseInstance(i) PROVE JoinedInv'
    BY <2>6 DEF LoseInstance, Terminate
  <2>7. ASSUME NEW d \in MinSize .. maxSize, SetDesired(d) PROVE JoinedInv'
    BY <2>7 DEF SetDesired
  <2>8. ASSUME NEW s \in Spot, OwnerAttaches(s) PROVE JoinedInv'
    BY <2>8 DEF OwnerAttaches
  <2> QED
    BY <1>1, <2>1, <2>2, <2>3, <2>4, <2>5, <2>6, <2>7, <2>8 DEF Aws
<1>2. CASE Events \/ Cron \/ CronCrash
  BY <1>2 DEF Events, DeliverEvent, LoseEvent, LifecycleHookEvent, Cron,
              CronEventAction, OutdatedCronEventAction, ResumeProcesses, CronCrash
<1>3. CASE Handler
  <2>1. pc' \notin {"inservice", "retire"} \/ AttachSpotInstance \/ WaitForInService
    BY <1>3 DEF Handler, ReceiveMessage, SkipInstance, CheckOnDemand, CheckSpot,
         FindUnattachedInstance, LaunchSpotReplacement, LaunchFails, WaitUntilRunning, WaitFails,
         GetSwapCandidate, CandidateMissing, CandidateRejected, SuspendProcesses, RaiseMaxSize,
         AttachFails, InServiceTimeout, TerminateSpot, TerminateOnDemand,
         TerminateOnDemandFails, RestoreMaxSize, DeleteMessage, ForgetJob, Step
  <2>2. CASE AttachSpotInstance
    BY <2>2 DEF AttachSpotInstance, Step
  <2>3. CASE WaitForInService
    BY <2>3 DEF WaitForInService, Step
  <2> QED
    BY <2>1, <2>2, <2>3
<1>4. CASE Crash
  BY <1>4 DEF Crash, ForgetJob
<1>5. CASE UNCHANGED vars
  BY <1>5 DEF vars
<1> QED
  BY <1>1, <1>2, <1>3, <1>4, <1>5 DEF Next

\* An on-demand instance is terminated only with its replacement in the group, unless
\* that died (terminateInstanceInAutoScalingGroup after attachSpotInstance).
THEOREM ReplacedFirst == Spec => ReplacedBeforeRetired
<1>1. Spec => []TypeInv
  BY InitTypeInv, NextTypeInv, PTL DEF Spec
<1>2. Spec => []JoinedInv
  BY <1>1, InitJoinedInv, NextJoinedInv, PTL DEF Spec
<1>3. TypeInv /\ JoinedInv /\ [Next]_vars =>
        [pc # "idle" /\ od \in members /\ od \notin members' /\ pc # pc'
           => spot \in members \/ ec2[spot] \notin Live]_vars
  <2> SUFFICES ASSUME TypeInv, JoinedInv, [Next]_vars, pc # "idle", od \in members,
                      od \notin members', pc # pc'
               PROVE  spot \in members \/ ec2[spot] \notin Live
    BY DEF vars
  <2>1. TerminateOnDemand
    BY DEF Next, Aws, LaunchOnDemand, StartRunning, ScaleIn, RemoveTerminated, Forget,
         LoseInstance, SetDesired, OwnerAttaches, Events, DeliverEvent, LoseEvent,
         LifecycleHookEvent, Cron, CronEventAction, OutdatedCronEventAction,
         ResumeProcesses, CronCrash,
         Handler, ReceiveMessage, SkipInstance, CheckOnDemand, CheckSpot,
         FindUnattachedInstance, LaunchSpotReplacement, LaunchFails, WaitUntilRunning, WaitFails,
         GetSwapCandidate, CandidateMissing, CandidateRejected, SuspendProcesses, RaiseMaxSize,
         AttachSpotInstance, AttachFails, WaitForInService, InServiceTimeout, TerminateSpot,
         TerminateOnDemandFails, RestoreMaxSize, DeleteMessage, Crash, vars, asgVars
  <2> QED
    BY <2>1 DEF TerminateOnDemand, Step, JoinedInv
<1> QED
  BY <1>1, <1>2, <1>3, PTL DEF Spec, ReplacedBeforeRetired

\* What a step of GroupCapacity is.
SwapStep == [Swap!Next]_(Swap!vars)

\* A step that changes nothing of the group, and is at most a fault.
Quiet ==
  /\ UNCHANGED <<ec2, members, desired, wanted, overlapped>>
  /\ \/ faults' = faults /\ UNCHANGED Newcomer
     \/ faults' = faults + 1 /\ Newcomer' \in {Newcomer, NoInstance}

\* A quiet step is a slip, or nothing.
LEMMA QuietStep == Quiet => SwapStep
<1> SUFFICES ASSUME Quiet PROVE SwapStep
  OBVIOUS
<1>1. UNCHANGED Alive
  BY DEF Quiet, Alive
<1>2. CASE faults' = faults /\ UNCHANGED Newcomer
  BY <1>1, <1>2 DEF Quiet, SwapStep, Swap!vars
<1>3. CASE faults' = faults + 1 /\ Newcomer' \in {Newcomer, NoInstance}
  BY <1>1, <1>3 DEF Quiet, SwapStep, Swap!Next, Swap!Slip
<1> QED
  BY <1>2, <1>3 DEF Quiet

\* The owner's changes are within a run of the handler or not.
LEMMA DisturbStep ==
  ASSUME TypeInv, overlapped' = (overlapped \/ pc # "idle"), UNCHANGED pc
  PROVE  Swap!Disturb
<1>1. overlapped \in BOOLEAN
  BY DEF TypeInv, TypeOK
<1>2. Newcomer # NoInstance => pc # "idle"
  BY DEF Newcomer
<1>3. overlapped' \in {overlapped, TRUE}
  BY <1>1, Zenon
<1>4. Newcomer # NoInstance => overlapped'
  BY <1>2, Zenon
<1> QED
  BY <1>3, <1>4 DEF Swap!Disturb

\* GroupCapacity counts as this module does.
LEMMA SameCount == \A S : Swap!Cardinality(S) = Cardinality(S)
BY DEF Swap!Cardinality, Cardinality

\* What AWS does is allowed by GroupCapacity.
LEMMA AwsSwaps ==
  ASSUME TypeInv, CapacityInv, Aws
  PROVE  SwapStep
<1> USE InstanceAssumption
<1> USE DEF TypeInv, TypeOK, Instance, States, ec2Vars, asgVars, jobVars, histVars
<1>1. ASSUME NEW i \in Instance, LaunchOnDemand(i) PROVE SwapStep
  <2>1. Alive' = Alive \cup {i} /\ UNCHANGED Newcomer
    BY <1>1 DEF LaunchOnDemand, Alive, Newcomer, Live
  <2>2. Swap!Launch(i)
    BY <1>1, <2>1, SameCount DEF LaunchOnDemand, Swap!Launch
  <2> QED
    BY <1>1, <2>2 DEF LaunchOnDemand, SwapStep, Swap!Next
<1>2. ASSUME NEW i \in Instance, StartRunning(i) PROVE SwapStep
  <2>1. UNCHANGED <<Alive, Newcomer>>
    BY <1>2 DEF StartRunning, Alive, Newcomer, Live
  <2> QED
    BY <1>2, <2>1 DEF StartRunning, SwapStep, Swap!vars
<1>3. ASSUME NEW i \in Instance, ScaleIn(i) PROVE SwapStep
  <2>1. Alive' = Alive \ {i} /\ UNCHANGED Newcomer
    BY <1>3 DEF ScaleIn, Terminate, Alive, Newcomer, Live
  <2>2. Swap!ScaleIn(i)
    BY <1>3, <2>1, SameCount DEF ScaleIn, Swap!ScaleIn
  <2> QED
    BY <2>2 DEF SwapStep, Swap!Next
<1>4. ASSUME NEW i \in Instance, RemoveTerminated(i) PROVE SwapStep
  <2>1. i \notin Alive /\ UNCHANGED <<Alive, Newcomer>>
    BY <1>4 DEF RemoveTerminated, Alive, Newcomer, Live
  <2>2. Swap!Drop(i)
    BY <1>4, <2>1 DEF RemoveTerminated, Swap!Drop
  <2> QED
    BY <2>2 DEF SwapStep, Swap!Next
<1>5. ASSUME NEW i \in Instance, Forget(i) PROVE SwapStep
  <2>1. UNCHANGED <<Alive, Newcomer>>
    BY <1>5 DEF Forget, Alive, Newcomer, Live
  <2> QED
    BY <1>5, <2>1 DEF Forget, SwapStep, Swap!vars
<1>6. ASSUME NEW i \in Instance, LoseInstance(i) PROVE SwapStep
  <2>1. Alive' = Alive \ {i} /\ UNCHANGED Newcomer
    BY <1>6 DEF LoseInstance, Terminate, Alive, Newcomer, Live
  <2>2. Swap!Die(i)
    BY <1>6, <2>1 DEF LoseInstance, Swap!Die
  <2> QED
    BY <2>2 DEF SwapStep, Swap!Next
<1>7. ASSUME NEW d \in MinSize .. maxSize, SetDesired(d) PROVE SwapStep
  <2>1. UNCHANGED <<Alive, Newcomer>>
    BY <1>7 DEF SetDesired, Alive, Newcomer
  <2>2. Swap!Disturb
    BY <1>7, DisturbStep DEF SetDesired
  <2>3. d \in Nat
    BY NumberAssumption
  <2>4. Swap!Scale
    BY <1>7, <2>1, <2>2, <2>3 DEF SetDesired, Swap!Scale
  <2> QED
    BY <2>4 DEF SwapStep, Swap!Next
<1>8. ASSUME NEW s \in Spot, OwnerAttaches(s) PROVE SwapStep
  <2>1. UNCHANGED <<Alive, Newcomer>>
    BY <1>8 DEF OwnerAttaches, Alive, Newcomer
  <2>2. Swap!Disturb
    BY <1>8, DisturbStep DEF OwnerAttaches
  <2>3. Swap!OwnerAttaches(s)
    BY <1>8, <2>1, <2>2 DEF OwnerAttaches, Swap!OwnerAttaches
  <2> QED
    BY <2>3 DEF SwapStep, Swap!Next
<1> QED
  BY <1>1, <1>2, <1>3, <1>4, <1>5, <1>6, <1>7, <1>8 DEF Aws

\* What the handler does is allowed by GroupCapacity.
LEMMA HandlerSwaps ==
  ASSUME TypeInv, MaxSizeInv, CapacityInv, JoinedInv, Handler
  PROVE  SwapStep
<1> USE InstanceAssumption
<1> USE DEF TypeInv, TypeOK, JobInv, HoldsSpot, HoldsOnDemand, Instance, ec2Vars, asgVars,
            jobVars, histVars
<1>1. CASE ReceiveMessage \/ SkipInstance \/ CheckOnDemand \/ CheckSpot
             \/ FindUnattachedInstance \/ WaitUntilRunning
  <2>1. pc \notin {"inservice", "retire"} /\ pc' \notin {"inservice", "retire"}
    BY <1>1 DEF ReceiveMessage, SkipInstance, CheckOnDemand, CheckSpot,
         FindUnattachedInstance, WaitUntilRunning, Step
  <2>2. UNCHANGED <<ec2, members, desired, wanted, overlapped>> /\ faults' \in {faults, faults + 1}
    BY <1>1 DEF ReceiveMessage, SkipInstance, CheckOnDemand, CheckSpot,
         FindUnattachedInstance, WaitUntilRunning, ScanInstances, Fault
  <2> QED
    BY <2>1, <2>2, QuietStep DEF Quiet, Newcomer
<1>2. CASE LaunchFails \/ WaitFails \/ GetSwapCandidate \/ CandidateMissing
             \/ CandidateRejected \/ SuspendProcesses \/ AttachFails
  <2>1. pc \notin {"inservice", "retire"} /\ pc' \notin {"inservice", "retire"}
    BY <1>2 DEF LaunchFails, WaitFails, GetSwapCandidate, CandidateMissing,
         CandidateRejected, SuspendProcesses, AttachFails, Step
  <2>2. UNCHANGED <<ec2, members, desired, wanted, overlapped>> /\ faults' \in {faults, faults + 1}
    BY <1>2 DEF LaunchFails, WaitFails, GetSwapCandidate, CandidateMissing,
         CandidateRejected, SuspendProcesses, AttachFails, ScanInstances, Fault
  <2> QED
    BY <2>1, <2>2, QuietStep DEF Quiet, Newcomer
<1>3. CASE LaunchSpotReplacement
  <2>1. PICK s \in Spot : ec2' = [ec2 EXCEPT ![s] = "pending"]
    BY <1>3 DEF LaunchSpotReplacement
  <2>2. Alive' = Alive \cup {s} /\ UNCHANGED Newcomer
    BY <1>3, <2>1 DEF LaunchSpotReplacement, Alive, Newcomer, Live, Step
  <2>3. faults' \in {faults, faults + 1}
    BY <1>3 DEF LaunchSpotReplacement, Fault
  <2>4. Swap!LaunchSpot(s)
    BY <1>3, <2>2, <2>3 DEF LaunchSpotReplacement, Swap!LaunchSpot
  <2> QED
    BY <2>4 DEF SwapStep, Swap!Next
<1>4. CASE RaiseMaxSize
  <2>1. desired' = desired
    BY <1>4 DEF RaiseMaxSize, Step, SetAutoScalingMaxSize, MaxSizeInv, CapacityInv, Group
  <2>2. UNCHANGED <<ec2, members, wanted, overlapped, Newcomer>>
    BY <1>4 DEF RaiseMaxSize, Step, Newcomer
  <2>3. faults' \in {faults, faults + 1}
    BY <1>4 DEF RaiseMaxSize, Fault
  <2> QED
    BY <2>1, <2>2, <2>3, QuietStep DEF Quiet
<1>5. CASE AttachSpotInstance
  <2>1. UNCHANGED Alive /\ Newcomer = NoInstance /\ Newcomer' = spot /\ spot \in Spot
    BY <1>5 DEF AttachSpotInstance, Step, Alive, Newcomer
  <2>2. CASE spot \in members /\ UNCHANGED <<members, desired>>
    <3>1. overlapped
      BY <1>5, <2>2 DEF AttachSpotInstance, Step, CapacityInv
    <3>2. Swap!Adopt(spot)
      BY <1>5, <2>1, <2>2, <3>1 DEF AttachSpotInstance, Swap!Adopt
    <3> QED
      BY <2>1, <3>2 DEF SwapStep, Swap!Next
  <2>3. CASE ~(spot \in members /\ UNCHANGED <<members, desired>>)
    <3>1. /\ spot \notin members /\ spot \in Alive
          /\ members' = members \cup {spot} /\ desired' = desired + 1
      BY <1>5, <2>1, <2>3 DEF AttachSpotInstance, Alive, Live
    <3>2. Swap!Join(spot)
      BY <1>5, <2>1, <3>1 DEF AttachSpotInstance, Swap!Join
    <3> QED
      BY <2>1, <3>2 DEF SwapStep, Swap!Next
  <2> QED
    BY <2>2, <2>3
<1>6. CASE WaitForInService
  <2>1. UNCHANGED <<ec2, members, desired, wanted, overlapped, faults, Newcomer>>
    BY <1>6 DEF WaitForInService, Step, Newcomer
  <2> QED
    BY <2>1, QuietStep DEF Quiet
<1>7. CASE InServiceTimeout \/ TerminateOnDemandFails
  <2>1. faults' = faults + 1 /\ Newcomer' = NoInstance
    BY <1>7 DEF InServiceTimeout, TerminateOnDemandFails, Step, Fault, Newcomer
  <2>2. UNCHANGED <<ec2, members, desired, wanted, overlapped>>
    BY <1>7 DEF InServiceTimeout, TerminateOnDemandFails
  <2> QED
    BY <2>1, <2>2, QuietStep DEF Quiet
<1>8. CASE TerminateSpot
  <2>1. UNCHANGED <<members, desired, wanted, overlapped, Newcomer>>
    BY <1>8 DEF TerminateSpot, Step, Newcomer
  <2>2. CASE Terminate(spot) /\ UNCHANGED faults
    <3>1. Alive' = Alive \ {spot} /\ spot \in Spot
      BY <1>8, <2>2 DEF TerminateSpot, Step, Terminate, Alive, Live
    <3>2. Swap!Die(spot)
      BY <2>1, <2>2, <3>1 DEF Swap!Die
    <3> QED
      BY <3>1, <3>2 DEF SwapStep, Swap!Next
  <2>3. CASE Fault("api") /\ UNCHANGED ec2
    BY <2>1, <2>3, QuietStep DEF Quiet, Fault
  <2> QED
    BY <1>8, <2>2, <2>3 DEF TerminateSpot
<1>9. CASE TerminateOnDemand
  <2>1. /\ Newcomer = spot /\ Newcomer' = NoInstance /\ spot # NoInstance
        /\ Alive' = Alive \ {od} /\ od \in OD
    BY <1>9 DEF TerminateOnDemand, Step, Terminate, Newcomer, Alive, Live
  <2>2. spot \in members \/ spot \notin Alive
    BY <1>9 DEF TerminateOnDemand, Step, JoinedInv, Alive
  <2>3. Swap!Retire(od)
    BY <1>9, <2>1, <2>2 DEF TerminateOnDemand, Swap!Retire
  <2> QED
    BY <2>1, <2>3 DEF SwapStep, Swap!Next
<1>10. CASE RestoreMaxSize
  <2>1. /\ UNCHANGED <<ec2, members, wanted, overlapped, Newcomer, Alive>>
        /\ Newcomer = NoInstance
    BY <1>10 DEF RestoreMaxSize, Step, Newcomer, Alive
  <2>2. CASE desired' = desired
    <3>1. faults' \in {faults, faults + 1}
      BY <1>10 DEF RestoreMaxSize, Fault
    <3> QED
      BY <2>1, <2>2, <3>1, QuietStep DEF Quiet
  <2>3. CASE desired' # desired
    <3>1. desired' = snap.max /\ desired > snap.max /\ UNCHANGED faults
      BY <1>10, <2>3 DEF RestoreMaxSize, SetAutoScalingMaxSize
    <3>2. desired' \in Nat /\ desired' < desired
      BY <3>1 DEF Group
    <3>3. overlapped \/ wanted <= desired'
      BY <1>10, <3>1 DEF RestoreMaxSize, Step, CapacityInv
    <3>4. Swap!Trim
      BY <2>1, <3>1, <3>2, <3>3 DEF Swap!Trim
    <3> QED
      BY <3>4 DEF SwapStep, Swap!Next
  <2> QED
    BY <2>2, <2>3
<1>11. CASE DeleteMessage
  <2>1. UNCHANGED <<ec2, members, desired, wanted, overlapped, faults, Newcomer>>
    BY <1>11 DEF DeleteMessage, ForgetJob, Newcomer
  <2> QED
    BY <2>1, QuietStep DEF Quiet
<1> QED
  BY <1>1, <1>2, <1>3, <1>4, <1>5, <1>6, <1>7, <1>8, <1>9, <1>10, <1>11 DEF Handler

\* So is every step.
LEMMA NextSwaps ==
  TypeInv /\ MaxSizeInv /\ CapacityInv /\ JoinedInv /\ [Next]_vars => SwapStep
<1> SUFFICES ASSUME TypeInv, MaxSizeInv, CapacityInv, JoinedInv, [Next]_vars PROVE SwapStep
  OBVIOUS
<1>1. CASE Aws
  BY <1>1, AwsSwaps
<1>2. CASE Events \/ Cron \/ CronCrash
  <2>1. UNCHANGED <<ec2, members, desired, wanted, overlapped, Newcomer>>
    BY <1>2 DEF Events, DeliverEvent, LoseEvent, LifecycleHookEvent, Cron,
         CronEventAction, OutdatedCronEventAction,
         ResumeProcesses, CronCrash, Newcomer, ec2Vars, asgVars, jobVars, histVars
  <2>2. faults' \in {faults, faults + 1}
    BY <1>2 DEF Events, DeliverEvent, LoseEvent, LifecycleHookEvent, Cron,
         CronEventAction, OutdatedCronEventAction,
         ResumeProcesses, CronCrash, ScanInstances, Fault, histVars
  <2> QED
    BY <2>1, <2>2, QuietStep DEF Quiet
<1>3. CASE Handler
  BY <1>3, HandlerSwaps
<1>4. CASE Crash
  <2>1. faults' = faults + 1 /\ Newcomer' = NoInstance
    BY <1>4 DEF Crash, ForgetJob, Fault, Newcomer
  <2>2. UNCHANGED <<ec2, members, desired, wanted, overlapped>>
    BY <1>4 DEF Crash, ec2Vars, asgVars
  <2> QED
    BY <2>1, <2>2, QuietStep DEF Quiet
<1>5. CASE UNCHANGED vars
  <2>1. UNCHANGED <<ec2, members, desired, wanted, overlapped, faults, Newcomer>>
    BY <1>5 DEF vars, ec2Vars, asgVars, jobVars, histVars, Newcomer
  <2> QED
    BY <2>1, QuietStep DEF Quiet
<1> QED
  BY <1>1, <1>2, <1>3, <1>4, <1>5 DEF Next

\* The handler's runs, whatever interferes with them, are replacements as GroupCapacity
\* describes them.
THEOREM SwapsKeepCapacity == Spec => KeepsCapacity
<1>1. Init => Swap!Init
  <2> SUFFICES ASSUME Init PROVE Swap!Init
    OBVIOUS
  <2>1. Alive = members
    BY InstanceAssumption DEF Init, Alive, Live, Instance
  <2> QED
    BY <2>1, InitialCardinality, InstanceAssumption DEF Init, Newcomer, Swap!Init
<1>2. Spec => []TypeInv
  BY InitTypeInv, NextTypeInv, PTL DEF Spec
<1>3. Spec => []MaxSizeInv
  BY <1>2, InitMaxSizeInv, NextMaxSizeInv, PTL DEF Spec
<1>4. Spec => []CapacityInv
  BY <1>2, <1>3, InitCapacityInv, NextCapacityInv, PTL DEF Spec
<1>5. Spec => []JoinedInv
  BY <1>2, InitJoinedInv, NextJoinedInv, PTL DEF Spec
<1>6. TypeInv /\ MaxSizeInv /\ CapacityInv /\ JoinedInv /\ [Next]_vars => [Swap!Next]_(Swap!vars)
  BY NextSwaps DEF SwapStep
<1> QED
  BY <1>1, <1>2, <1>3, <1>4, <1>5, <1>6, PTL DEF Spec, KeepsCapacity, Swap!Spec

(***************************************************************************)
(* The life of an instance, and who is a member.                           *)
(***************************************************************************)
Dead == {"terminated", "gone"}
Born == {"running"} \cup Dead

\* The steps that change the state of an instance, or the members.
Effects ==
  \/ \E i \in Instance : LaunchOnDemand(i) \/ StartRunning(i) \/ ScaleIn(i)
                         \/ RemoveTerminated(i) \/ Forget(i) \/ LoseInstance(i)
  \/ \E s \in Spot : OwnerAttaches(s)
  \/ LaunchSpotReplacement \/ AttachSpotInstance \/ TerminateSpot \/ TerminateOnDemand

\* The other steps leave instances and members alone.
LEMMA OtherSteps ==
  ASSUME [Next]_vars, ~Effects
  PROVE  UNCHANGED <<ec2, members, target>>
<1> USE DEF ec2Vars, asgVars
<1>1. CASE Aws
  BY <1>1 DEF Aws, Effects, SetDesired
<1>2. CASE Events \/ Cron \/ CronCrash
  BY <1>2 DEF Events, DeliverEvent, LoseEvent, LifecycleHookEvent, Cron,
       CronEventAction, OutdatedCronEventAction, ResumeProcesses, CronCrash
<1>3. CASE ReceiveMessage \/ SkipInstance \/ CheckOnDemand \/ CheckSpot
             \/ FindUnattachedInstance \/ WaitUntilRunning \/ LaunchFails \/ WaitFails
             \/ GetSwapCandidate \/ CandidateMissing \/ CandidateRejected \/ AttachFails
  BY <1>3 DEF ReceiveMessage, SkipInstance, CheckOnDemand, CheckSpot,
       FindUnattachedInstance, WaitUntilRunning, LaunchFails, WaitFails, GetSwapCandidate,
       CandidateMissing, CandidateRejected, AttachFails
<1>4. CASE SuspendProcesses \/ RaiseMaxSize \/ WaitForInService \/ InServiceTimeout
             \/ TerminateOnDemandFails \/ RestoreMaxSize \/ DeleteMessage \/ Crash
  BY <1>4 DEF SuspendProcesses, RaiseMaxSize, WaitForInService, InServiceTimeout,
       TerminateOnDemandFails, RestoreMaxSize, DeleteMessage, Crash
<1>5. CASE UNCHANGED vars
  BY <1>5 DEF vars
<1> QED
  BY <1>1, <1>2, <1>3, <1>4, <1>5 DEF Next, Handler, Effects

\* Who is born is never unborn or pending again, the dead stay dead, and nobody who is
\* born joins the group but the spot instances that are attached to it.
LEMMA LifeStep ==
  ASSUME TypeInv, [Next]_vars, NEW i \in Instance
  PROVE  /\ ec2[i] \in Born => ec2'[i] \in Born
         /\ ec2[i] \in Dead => ec2'[i] \in Dead
         /\ i \in OD /\ ec2[i] \in Born /\ i \in members' => i \in members
<1> USE InstanceAssumption
<1> USE DEF TypeInv, TypeOK, JobInv, HoldsSpot, HoldsOnDemand, Instance, States, Born, Dead, Live
<1> DEFINE Goal == /\ ec2[i] \in Born => ec2'[i] \in Born
                   /\ ec2[i] \in Dead => ec2'[i] \in Dead
                   /\ i \in OD /\ ec2[i] \in Born /\ i \in members' => i \in members
<1>1. ASSUME NEW j \in Instance, LaunchOnDemand(j) \/ StartRunning(j) PROVE Goal
  BY <1>1 DEF LaunchOnDemand, StartRunning, asgVars
<1>2. ASSUME NEW j \in Instance, ScaleIn(j) \/ RemoveTerminated(j) PROVE Goal
  BY <1>2 DEF ScaleIn, RemoveTerminated, Terminate, ec2Vars
<1>3. ASSUME NEW j \in Instance, Forget(j) \/ LoseInstance(j) PROVE Goal
  BY <1>3 DEF Forget, LoseInstance, Terminate, asgVars
<1>4. ASSUME NEW s \in Spot, OwnerAttaches(s) PROVE Goal
  BY <1>4 DEF OwnerAttaches, ec2Vars
<1>5. CASE LaunchSpotReplacement
  BY <1>5 DEF LaunchSpotReplacement, asgVars
<1>6. CASE AttachSpotInstance
  BY <1>6 DEF AttachSpotInstance, Step, ec2Vars
<1>7. CASE TerminateSpot
  BY <1>7 DEF TerminateSpot, Terminate, Step, asgVars
<1>8. CASE TerminateOnDemand
  BY <1>8 DEF TerminateOnDemand, Terminate, Step
<1>9. CASE ~Effects
  BY <1>9, OtherSteps
<1> QED
  BY <1>1, <1>2, <1>3, <1>4, <1>5, <1>6, <1>7, <1>8, <1>9 DEF Effects

(***************************************************************************)
(* One spare instance.  A spot instance that the handler's snapshot has and *)
(* the group has not is dead.                                              *)
(***************************************************************************)
SpareInv ==
  /\ \A i \in members : ec2[i] # "unborn"
  /\ pc \in {"check", "find"} =>
       \A s \in Spot \cap snap.members : s \in members \/ ec2[s] \in Dead
  /\ OneSpareInstance

\* No step but the launch adds to the spare instances.
LEMMA SparesStep ==
  ASSUME TypeInv, [Next]_vars, ~LaunchSpotReplacement
  PROVE  Unattached(members)' \subseteq Unattached(members)
<1> USE InstanceAssumption
<1> USE DEF TypeInv, TypeOK, JobInv, HoldsSpot, HoldsOnDemand, Instance, States, Live, Unattached
<1> DEFINE Goal == Unattached(members)' \subseteq Unattached(members)
<1>1. ASSUME NEW j \in Instance, LaunchOnDemand(j) \/ StartRunning(j) PROVE Goal
  BY <1>1 DEF LaunchOnDemand, StartRunning, asgVars
<1>2. ASSUME NEW j \in Instance, ScaleIn(j) \/ RemoveTerminated(j) PROVE Goal
  BY <1>2 DEF ScaleIn, RemoveTerminated, Terminate, ec2Vars
<1>3. ASSUME NEW j \in Instance, Forget(j) \/ LoseInstance(j) PROVE Goal
  BY <1>3 DEF Forget, LoseInstance, Terminate, asgVars
<1>4. ASSUME NEW s \in Spot, OwnerAttaches(s) PROVE Goal
  BY <1>4 DEF OwnerAttaches, ec2Vars
<1>5. CASE AttachSpotInstance
  BY <1>5 DEF AttachSpotInstance, Step, ec2Vars
<1>6. CASE TerminateSpot
  BY <1>6 DEF TerminateSpot, Terminate, Step, asgVars
<1>7. CASE TerminateOnDemand
  BY <1>7 DEF TerminateOnDemand, Terminate, Step
<1>8. CASE ~Effects
  BY <1>8, OtherSteps
<1> QED
  BY <1>1, <1>2, <1>3, <1>4, <1>5, <1>6, <1>7, <1>8 DEF Effects

\* A spot instance that leaves the group is terminated.
LEMMA LeaveStep ==
  ASSUME TypeInv, [Next]_vars,
         NEW s \in Spot, s \in members, ec2[s] # "unborn", s \notin members'
  PROVE  ec2'[s] \in Dead
<1> USE InstanceAssumption
<1> USE DEF TypeInv, TypeOK, JobInv, HoldsOnDemand, Instance, States, Live, Dead
<1>1. ASSUME NEW j \in Instance, ScaleIn(j) \/ RemoveTerminated(j) PROVE ec2'[s] \in Dead
  BY <1>1 DEF ScaleIn, RemoveTerminated, Terminate, ec2Vars
<1>2. CASE TerminateOnDemand
  BY <1>2 DEF TerminateOnDemand, Step
<1>3. ASSUME NEW j \in Instance,
             LaunchOnDemand(j) \/ StartRunning(j) \/ Forget(j) \/ LoseInstance(j)
      PROVE  members \subseteq members'
  BY <1>3 DEF LaunchOnDemand, StartRunning, Forget, LoseInstance, asgVars
<1>4. ASSUME NEW t \in Spot, OwnerAttaches(t) PROVE members \subseteq members'
  BY <1>4 DEF OwnerAttaches
<1>5. CASE LaunchSpotReplacement \/ AttachSpotInstance \/ TerminateSpot
  BY <1>5 DEF LaunchSpotReplacement, AttachSpotInstance, TerminateSpot, asgVars
<1>6. CASE ~Effects
  BY <1>6, OtherSteps
<1> QED
  BY <1>1, <1>2, <1>3, <1>4, <1>5, <1>6 DEF Effects

\* The handler's snapshot is taken when it starts and kept until it ends.
LEMMA SnapStep ==
  ASSUME [Next]_vars
  PROVE  \/ ReceiveMessage \/ DeleteMessage \/ Crash
         \/ /\ UNCHANGED snap
            /\ pc' \in {"check", "find"} => pc \in {"check", "find"}
<1> USE DEF jobVars, Step
<1>1. CASE Aws
  <2>1. UNCHANGED <<snap, pc>>
    BY <1>1 DEF Aws, LaunchOnDemand, StartRunning, ScaleIn, RemoveTerminated, Forget,
         LoseInstance, SetDesired, OwnerAttaches
  <2> QED
    BY <2>1
<1>2. CASE Events \/ Cron \/ CronCrash
  <2>1. UNCHANGED <<snap, pc>>
    BY <1>2 DEF Events, DeliverEvent, LoseEvent, LifecycleHookEvent, Cron,
         CronEventAction, OutdatedCronEventAction, ResumeProcesses, CronCrash
  <2> QED
    BY <2>1
<1>3. CASE SkipInstance \/ CheckOnDemand \/ CheckSpot
             \/ FindUnattachedInstance \/ WaitUntilRunning \/ LaunchFails \/ WaitFails
             \/ GetSwapCandidate \/ CandidateMissing \/ CandidateRejected \/ AttachFails
  BY <1>3 DEF SkipInstance, CheckOnDemand, CheckSpot,
       FindUnattachedInstance, WaitUntilRunning, LaunchFails, WaitFails, GetSwapCandidate,
       CandidateMissing, CandidateRejected, AttachFails
<1>4. CASE SuspendProcesses \/ RaiseMaxSize \/ WaitForInService \/ InServiceTimeout
             \/ TerminateOnDemandFails \/ RestoreMaxSize \/ LaunchSpotReplacement
             \/ AttachSpotInstance \/ TerminateSpot \/ TerminateOnDemand
  <2>1. UNCHANGED snap /\ pc # "idle" /\ pc' \notin {"idle", "check", "find"}
    BY <1>4 DEF SuspendProcesses, RaiseMaxSize, WaitForInService, InServiceTimeout,
         TerminateOnDemandFails, RestoreMaxSize, LaunchSpotReplacement,
         AttachSpotInstance, TerminateSpot, TerminateOnDemand
  <2> QED
    BY <2>1
<1>5. CASE UNCHANGED vars
  BY <1>5 DEF vars
<1> QED
  BY <1>1, <1>2, <1>3, <1>4, <1>5 DEF Next, Handler

\* Only a launch is a blind scan.
LEMMA BlindStep ==
  ASSUME [Next]_vars, ~LaunchSpotReplacement
  PROVE  UNCHANGED blindScans
<1> USE DEF histVars
<1>1. CASE Aws
  BY <1>1 DEF Aws, LaunchOnDemand, StartRunning, ScaleIn, RemoveTerminated, Forget,
       LoseInstance, SetDesired, OwnerAttaches
<1>2. CASE Events \/ Cron \/ CronCrash
  BY <1>2 DEF Events, DeliverEvent, LoseEvent, LifecycleHookEvent, Cron,
       CronEventAction, OutdatedCronEventAction, ResumeProcesses, CronCrash
<1>3. CASE ReceiveMessage \/ SkipInstance \/ CheckOnDemand \/ CheckSpot
             \/ FindUnattachedInstance \/ WaitUntilRunning \/ LaunchFails \/ WaitFails
             \/ GetSwapCandidate \/ CandidateMissing \/ CandidateRejected \/ AttachFails
  BY <1>3 DEF ReceiveMessage, SkipInstance, CheckOnDemand, CheckSpot,
       FindUnattachedInstance, WaitUntilRunning, LaunchFails, WaitFails, GetSwapCandidate,
       CandidateMissing, CandidateRejected, AttachFails
<1>4. CASE SuspendProcesses \/ RaiseMaxSize \/ WaitForInService \/ InServiceTimeout
             \/ TerminateOnDemandFails \/ RestoreMaxSize
             \/ AttachSpotInstance \/ TerminateSpot \/ TerminateOnDemand
             \/ DeleteMessage \/ Crash
  BY <1>4 DEF SuspendProcesses, RaiseMaxSize, WaitForInService, InServiceTimeout,
       TerminateOnDemandFails, RestoreMaxSize,
       AttachSpotInstance, TerminateSpot, TerminateOnDemand, DeleteMessage, Crash
<1>5. CASE UNCHANGED vars
  BY <1>5 DEF vars
<1> QED
  BY <1>1, <1>2, <1>3, <1>4, <1>5 DEF Next, Handler

\* Sets of spot instances can be counted.
LEMMA SparesFinite ==
  ASSUME NEW S \in SUBSET Spot
  PROVE  IsFiniteSet(S) /\ Cardinality(S) \in Nat
BY InstanceAssumption, FS_Subset, FS_CardinalityType

\* There are no spare instances to start with.
LEMMA InitSpareInv == Init => SpareInv
<1> SUFFICES ASSUME Init PROVE SpareInv
  OBVIOUS
<1>1. Unattached(members) = {}
  BY DEF Init, Unattached
<1>2. Cardinality(Unattached(members)) = 0
  BY <1>1, FS_EmptySet
<1> QED
  BY <1>2, InstanceAssumption DEF Init, SpareInv, OneSpareInstance, Instance

\* Every step keeps the spare instances few.
LEMMA NextSpareInv == TypeInv /\ SpareInv /\ [Next]_vars => SpareInv'
<1> SUFFICES ASSUME TypeInv, SpareInv, [Next]_vars PROVE SpareInv'
  OBVIOUS
<1>1. ASSUME NEW i \in members' PROVE ec2'[i] # "unborn"
  <2> USE DEF TypeInv, TypeOK, Instance
  <2>1. CASE i \in members /\ UNCHANGED ec2
    BY <2>1 DEF SpareInv
  <2>2. ASSUME NEW j \in Instance, LaunchOnDemand(j) \/ StartRunning(j) \/ ScaleIn(j)
                \/ RemoveTerminated(j) \/ Forget(j) \/ LoseInstance(j)
        PROVE  ec2'[i] # "unborn"
    BY <2>2 DEF SpareInv, LaunchOnDemand, StartRunning, ScaleIn, RemoveTerminated, Forget,
         LoseInstance, Terminate, ec2Vars, asgVars
  <2>3. ASSUME NEW s \in Spot, OwnerAttaches(s) PROVE ec2'[i] # "unborn"
    BY <2>3 DEF SpareInv, OwnerAttaches, ec2Vars
  <2>4. CASE LaunchSpotReplacement \/ AttachSpotInstance \/ TerminateSpot \/ TerminateOnDemand
    BY <2>4 DEF SpareInv, LaunchSpotReplacement, AttachSpotInstance, TerminateSpot,
         TerminateOnDemand, Terminate, ec2Vars, asgVars
  <2>5. CASE ~Effects
    BY <2>1, <2>5, OtherSteps
  <2> QED
    BY <2>2, <2>3, <2>4, <2>5 DEF Effects
<1>2. ASSUME pc' \in {"check", "find"}, NEW s \in Spot, s \in snap'.members
      PROVE  s \in members' \/ ec2'[s] \in Dead
  <2>1. CASE ReceiveMessage
    BY <1>2, <2>1 DEF ReceiveMessage, Step, ThisGroup, asgVars
  <2>2. CASE ~ReceiveMessage
    <3>1. UNCHANGED snap /\ pc \in {"check", "find"}
      BY <1>2, <2>2, SnapStep DEF DeleteMessage, Crash, ForgetJob
    <3>2. s \in members \/ ec2[s] \in Dead
      BY <1>2, <3>1 DEF SpareInv
    <3> QED
      BY <3>2, LeaveStep, LifeStep DEF Instance, SpareInv
  <2> QED
    BY <2>1, <2>2
<1>3. OneSpareInstance'
  <2> DEFINE now == Unattached(members)
             then == Unattached(members)'
  <2>1. now \subseteq Spot /\ then \subseteq Spot
    BY DEF Unattached
  <2>2. /\ IsFiniteSet(now) /\ Cardinality(now) \in Nat
        /\ IsFiniteSet(then) /\ Cardinality(then) \in Nat
    BY <2>1, SparesFinite
  <2>3. Cardinality(now) <= 1 + blindScans /\ blindScans \in Nat
    BY DEF SpareInv, OneSpareInstance, TypeInv, TypeOK
  <2>4. CASE ~LaunchSpotReplacement
    <3>1. Cardinality(then) <= Cardinality(now)
      BY <2>2, <2>4, SparesStep, FS_Subset
    <3>2. UNCHANGED blindScans
      BY <2>4, BlindStep
    <3>3. Cardinality(then) <= 1 + blindScans
      <4> HIDE DEF now, then
      <4> QED
        BY <2>2, <2>3, <3>1
    <3> QED
      BY <3>2, <3>3 DEF OneSpareInstance
  <2>5. CASE LaunchSpotReplacement
    <3>1. PICK s \in Spot : /\ ec2' = [ec2 EXCEPT ![s] = "pending"]
                            /\ target' = [target EXCEPT ![s] = Head(queue).id]
      BY <2>5 DEF LaunchSpotReplacement
    <3>2. then \subseteq now \cup {s}
      BY <2>5, <3>1 DEF LaunchSpotReplacement, Unattached, asgVars, TypeInv, TypeOK, Instance
    <3>3. Cardinality(then) <= Cardinality(now) + 1
      <4> HIDE DEF now, then
      <4>1. IsFiniteSet(now \cup {s})
        BY <2>2, FS_AddElement
      <4>2. Cardinality(now \cup {s}) \in {Cardinality(now), Cardinality(now) + 1}
        BY <2>2, FS_AddElement
      <4>3. Cardinality(then) <= Cardinality(now \cup {s}) /\ Cardinality(now \cup {s}) \in Nat
        BY <3>2, <4>1, FS_Subset, FS_CardinalityType
      <4> QED
        BY <2>2, <4>2, <4>3
    <3>4. CASE blindScans' = blindScans + 1
      <4>1. Cardinality(then) <= 1 + (blindScans + 1)
        <5> HIDE DEF now, then
        <5> QED
          BY <2>2, <2>3, <3>3
      <4> QED
        BY <3>4, <4>1 DEF OneSpareInstance
    <3>5. CASE Unattached(snap.members) = {} /\ UNCHANGED blindScans
      <4>1. now = {}
        BY <2>5, <3>5 DEF LaunchSpotReplacement, Step, SpareInv, Unattached, Dead, Live
      <4>2. Cardinality(now) = 0
        BY <4>1, FS_EmptySet
      <4>3. Cardinality(then) <= 1 + blindScans
        <5> HIDE DEF now, then
        <5> QED
          BY <2>2, <2>3, <3>3, <4>2
      <4> QED
        BY <3>5, <4>3 DEF OneSpareInstance
    <3> QED
      BY <2>5, <3>4, <3>5 DEF LaunchSpotReplacement
  <2> QED
    BY <2>4, <2>5
<1> QED
  BY <1>1, <1>2, <1>3 DEF SpareInv

\* However often messages are delivered and handlers die, the group has at most one
\* spare spot instance, plus one for each scan that failed.
THEOREM SparesAreFew == Spec => []OneSpareInstance
<1>1. Spec => []TypeInv
  BY InitTypeInv, NextTypeInv, PTL DEF Spec
<1>2. Spec => []SpareInv
  BY <1>1, InitSpareInv, NextSpareInv, PTL DEF Spec
<1>3. SpareInv => OneSpareInstance
  BY DEF SpareInv
<1> QED
  BY <1>2, <1>3, PTL

(***************************************************************************)
(* The minimum of on-demand instances.  Whoever a message or a tag names    *)
(* has been running: if such an instance is a member now it was one in the  *)
(* handler's snapshot, and counted there if it is running and described.   *)
(***************************************************************************)
NamedInv ==
  /\ \A s \in Spot : target[s] # NoInstance => ec2[target[s]] \in Born
  /\ \A k \in 1 .. Len(queue) :
       queue[k].id \in OD /\ queue[k].state = "running" => ec2[queue[k].id] \in Born
  /\ pc = "find" => Head(queue).state = "running"

\* Initially nobody is named.
LEMMA InitNamedInv == Init => NamedInv
BY DEF Init, NamedInv

\* Somebody sends a message, about an instance that has been running if it says so.
MessageSent ==
  \E i \in Instance, state \in States :
    SendMessage(i, state) /\ (state = "running" => ec2[i] \in Born)

\* A message that is sent about a running instance names one that is born.
LEMMA MessageNamed ==
  ASSUME TypeInv, NamedInv, MessageSent, NEW k \in 1 .. Len(queue'),
         queue'[k].id \in OD, queue'[k].state = "running"
  PROVE  ec2[queue'[k].id] \in Born
<1> PICK i \in Instance, state \in States :
      SendMessage(i, state) /\ (state = "running" => ec2[i] \in Born)
  BY DEF MessageSent
<1>1. [id |-> i, state |-> state] \in Message
  BY DEF Message
<1>2. queue \in Seq(Message)
  BY DEF TypeInv, TypeOK
<1>3. /\ queue' = Append(queue, [id |-> i, state |-> state])
      /\ Len(queue') = Len(queue) + 1
      /\ queue'[Len(queue) + 1] = [id |-> i, state |-> state]
      /\ \A j \in 1 .. Len(queue) : queue'[j] = queue[j]
  BY <1>1, <1>2 DEF SendMessage
<1>4. CASE k = Len(queue) + 1
  BY <1>3, <1>4
<1>5. CASE k # Len(queue) + 1
  <2>1. k \in 1 .. Len(queue)
    BY <1>2, <1>3, <1>5
  <2> QED
    BY <1>3, <2>1 DEF NamedInv
<1> QED
  BY <1>4, <1>5

\* What the queue becomes.
LEMMA QueueStep ==
  ASSUME TypeInv, [Next]_vars
  PROVE  \/ UNCHANGED queue
         \/ queue # << >> /\ queue' = Tail(queue) /\ pc' = "idle"
         \/ MessageSent /\ UNCHANGED pc
<1> USE DEF Instance
<1>1. CASE Aws
  BY <1>1 DEF Aws, LaunchOnDemand, StartRunning, ScaleIn, RemoveTerminated, Forget,
       LoseInstance, SetDesired, OwnerAttaches
<1>2. CASE Events
  BY <1>2 DEF Events, DeliverEvent, LoseEvent, LifecycleHookEvent, MessageSent, Born,
       TypeInv, TypeOK
<1>3. CASE Cron \/ CronCrash
  BY <1>3 DEF Cron, CronEventAction, OutdatedCronEventAction, ResumeProcesses, CronCrash,
       RunningOnDemand, Running, MessageSent, Born, Dead, States, TypeInv, TypeOK
<1>4. CASE Handler /\ ~DeleteMessage
  BY <1>4 DEF Handler, ReceiveMessage, SkipInstance, CheckOnDemand, CheckSpot,
       FindUnattachedInstance, LaunchSpotReplacement, LaunchFails, WaitUntilRunning, WaitFails,
       GetSwapCandidate, CandidateMissing, CandidateRejected, SuspendProcesses, RaiseMaxSize,
       AttachSpotInstance, AttachFails, WaitForInService, InServiceTimeout, TerminateSpot,
       TerminateOnDemand, TerminateOnDemandFails, RestoreMaxSize
<1>5. CASE DeleteMessage
  BY <1>5 DEF DeleteMessage, ForgetJob, TypeInv, JobInv
<1>6. CASE Crash
  BY <1>6 DEF Crash
<1>7. CASE UNCHANGED vars
  BY <1>7 DEF vars
<1> QED
  BY <1>1, <1>2, <1>3, <1>4, <1>5, <1>6, <1>7 DEF Next

\* Only a launch names an instance in a tag.
LEMMA TargetStep ==
  ASSUME TypeInv, [Next]_vars, ~LaunchSpotReplacement
  PROVE  UNCHANGED target
<1> USE DEF ec2Vars
<1>1. CASE Aws
  BY <1>1 DEF Aws, LaunchOnDemand, StartRunning, ScaleIn, RemoveTerminated, Forget,
       LoseInstance, SetDesired, OwnerAttaches
<1>2. CASE AttachSpotInstance \/ TerminateSpot \/ TerminateOnDemand
  BY <1>2 DEF AttachSpotInstance, TerminateSpot, TerminateOnDemand
<1>3. CASE ~Effects
  BY <1>3, OtherSteps
<1> QED
  BY <1>1, <1>2, <1>3 DEF Effects, Aws

\* The handler looks for a spot instance only after the check.
LEMMA FindStep ==
  ASSUME [Next]_vars, pc' = "find", ~CheckOnDemand
  PROVE  pc = "find"
<1>1. CASE Aws
  BY <1>1 DEF Aws, LaunchOnDemand, StartRunning, ScaleIn, RemoveTerminated, Forget,
       LoseInstance, SetDesired, OwnerAttaches
<1>2. CASE Events \/ Cron \/ CronCrash
  BY <1>2 DEF Events, DeliverEvent, LoseEvent, LifecycleHookEvent, Cron,
       CronEventAction, OutdatedCronEventAction, ResumeProcesses, CronCrash
<1>3. CASE Handler
  BY <1>3 DEF Handler, ReceiveMessage, SkipInstance, CheckSpot,
       FindUnattachedInstance, LaunchSpotReplacement, LaunchFails, WaitUntilRunning, WaitFails,
       GetSwapCandidate, CandidateMissing, CandidateRejected, SuspendProcesses, RaiseMaxSize,
       AttachSpotInstance, AttachFails, WaitForInService, InServiceTimeout, TerminateSpot,
       TerminateOnDemand, TerminateOnDemandFails, RestoreMaxSize, DeleteMessage, ForgetJob, Step
<1>4. CASE Crash \/ UNCHANGED vars
  BY <1>4 DEF Crash, ForgetJob, vars
<1> QED
  BY <1>1, <1>2, <1>3, <1>4 DEF Next

\* Every step keeps that who is named has been running.
LEMMA NextNamedInv == TypeInv /\ NamedInv /\ [Next]_vars => NamedInv'
<1> SUFFICES ASSUME TypeInv, NamedInv, [Next]_vars PROVE NamedInv'
  OBVIOUS
<1>0. queue \in Seq(Message) /\ target \in [Spot -> OD \cup {NoInstance}]
  BY DEF TypeInv, TypeOK
<1>1. ASSUME NEW s \in Spot, target'[s] # NoInstance PROVE ec2'[target'[s]] \in Born
  <2>1. CASE ~LaunchSpotReplacement
    BY <1>0, <1>1, <2>1, TargetStep, LifeStep DEF NamedInv, Instance
  <2>2. CASE LaunchSpotReplacement
    <3> DEFINE m == Head(queue)
    <3>1. queue # << >> /\ m.id \in OD /\ m.state = "running"
      BY <2>2 DEF LaunchSpotReplacement, Step, TypeInv, JobInv, NamedInv
    <3>2. 1 \in 1 .. Len(queue) /\ m = queue[1]
      BY <1>0, <3>1
    <3>3. ec2[m.id] \in Born
      BY <3>1, <3>2 DEF NamedInv
    <3>4. target'[s] = m.id \/ target'[s] = target[s]
      BY <1>0, <2>2 DEF LaunchSpotReplacement
    <3>5. target'[s] \in Instance /\ ec2[target'[s]] \in Born
      BY <1>0, <1>1, <3>1, <3>3, <3>4 DEF NamedInv, Instance
    <3> QED
      BY <3>5, LifeStep
  <2> QED
    BY <2>1, <2>2
<1>2. ASSUME NEW k \in 1 .. Len(queue'), queue'[k].id \in OD, queue'[k].state = "running"
      PROVE  ec2'[queue'[k].id] \in Born
  <2>1. ec2[queue'[k].id] \in Born
    <3>1. CASE UNCHANGED queue
      BY <1>2, <3>1 DEF NamedInv
    <3>2. CASE queue # << >> /\ queue' = Tail(queue)
      <4>1. k + 1 \in 1 .. Len(queue) /\ queue'[k] = queue[k + 1]
        BY <1>0, <1>2, <3>2
      <4> QED
        BY <1>2, <4>1 DEF NamedInv
    <3>3. CASE MessageSent
      BY <1>2, <3>3, MessageNamed
    <3> QED
      BY <3>1, <3>2, <3>3, QueueStep
  <2> QED
    BY <1>2, <2>1, LifeStep DEF Instance
<1>3. ASSUME pc' = "find" PROVE Head(queue').state = "running"
  <2>1. CASE CheckOnDemand
    BY <2>1 DEF CheckOnDemand
  <2>2. CASE ~CheckOnDemand
    <3>1. pc = "find"
      BY <1>3, <2>2, FindStep
    <3>2. queue # << >> /\ Head(queue).state = "running"
      BY <3>1 DEF TypeInv, JobInv, NamedInv
    <3> QED
      BY <1>0, <1>3, <3>2, QueueStep, SendMessageKeeps DEF TypeInv, MessageSent
  <2> QED
    BY <2>1, <2>2
<1> QED
  BY <1>1, <1>2, <1>3 DEF NamedInv

\* What the handler holds while it swaps.
CountedInv ==
  /\ pc \notin {"idle", "return"} =>
       /\ \A s \in Spot : target[s] \in members => target[s] \in snap.members
       /\ Head(queue).id \in OD /\ Head(queue).state = "running" /\ Head(queue).id \in members
            => Head(queue).id \in snap.members
  /\ pc \in HoldsOnDemand =>
       /\ ec2[od] \in Born
       /\ \/ Cardinality(counted) > MinOnDemand
          \/ counted = {} /\ missed # {}
          \/ od \notin members \/ ec2[od] \in Dead

\* Initially the handler holds nothing.
LEMMA InitCountedInv == Init => CountedInv
BY DEF Init, CountedInv, HoldsOnDemand

\* A run goes on from where it was, with the same snapshot and, in the swap, with the
\* same instance to swap out.
LEMMA RunStep ==
  ASSUME [Next]_vars
  PROVE  /\ pc' \notin {"idle", "return"} /\ ~ReceiveMessage =>
              pc \notin {"idle", "return"} /\ UNCHANGED snap
         /\ pc' \in HoldsOnDemand /\ ~GetSwapCandidate =>
              pc \in HoldsOnDemand /\ UNCHANGED <<od, counted, missed>>
<1> USE DEF jobVars, Step, HoldsOnDemand
<1>1. CASE Aws
  <2>1. UNCHANGED <<jobVars, pc>>
    BY <1>1 DEF Aws, LaunchOnDemand, StartRunning, ScaleIn, RemoveTerminated, Forget,
         LoseInstance, SetDesired, OwnerAttaches
  <2> QED
    BY <2>1
<1>2. CASE Events \/ Cron \/ CronCrash
  <2>1. UNCHANGED <<jobVars, pc>>
    BY <1>2 DEF Events, DeliverEvent, LoseEvent, LifecycleHookEvent, Cron,
         CronEventAction, OutdatedCronEventAction, ResumeProcesses, CronCrash
  <2> QED
    BY <2>1
<1>3. CASE ReceiveMessage \/ SkipInstance \/ CheckOnDemand \/ CheckSpot
             \/ FindUnattachedInstance \/ WaitUntilRunning \/ LaunchFails \/ WaitFails
  BY <1>3 DEF ReceiveMessage, SkipInstance, CheckOnDemand, CheckSpot,
       FindUnattachedInstance, WaitUntilRunning, LaunchFails, WaitFails
<1>4. CASE LaunchSpotReplacement \/ GetSwapCandidate \/ CandidateMissing \/ CandidateRejected
  BY <1>4 DEF LaunchSpotReplacement, GetSwapCandidate, CandidateMissing, CandidateRejected
<1>5. CASE SuspendProcesses \/ RaiseMaxSize \/ WaitForInService \/ InServiceTimeout
             \/ TerminateOnDemandFails \/ RestoreMaxSize
  BY <1>5 DEF SuspendProcesses, RaiseMaxSize, WaitForInService, InServiceTimeout,
       TerminateOnDemandFails, RestoreMaxSize
<1>6. CASE AttachSpotInstance \/ AttachFails \/ TerminateSpot \/ TerminateOnDemand
  BY <1>6 DEF AttachSpotInstance, AttachFails, TerminateSpot, TerminateOnDemand
<1>7. CASE DeleteMessage \/ Crash
  BY <1>7 DEF DeleteMessage, Crash, ForgetJob
<1>8. CASE UNCHANGED vars
  <2>1. UNCHANGED <<jobVars, pc>>
    BY <1>8 DEF vars
  <2> QED
    BY <2>1
<1> QED
  BY <1>1, <1>2, <1>3, <1>4, <1>5, <1>6, <1>7, <1>8 DEF Next, Handler

\* The message in flight stays the same while its handler runs.
LEMMA HeadStep ==
  ASSUME TypeInv, [Next]_vars, pc # "idle", pc' # "idle"
  PROVE  Head(queue') = Head(queue)
<1>1. queue # << >>
  BY DEF TypeInv, JobInv
<1>2. UNCHANGED queue \/ MessageSent
  BY QueueStep
<1> QED
  BY <1>1, <1>2, SendMessageKeeps DEF TypeInv, MessageSent

\* Every step keeps what the handler holds true to the group.
LEMMA NextCountedInv == TypeInv /\ NamedInv /\ CountedInv /\ [Next]_vars => CountedInv'
<1> SUFFICES ASSUME TypeInv, NamedInv, CountedInv, [Next]_vars PROVE CountedInv'
  OBVIOUS
<1> USE InstanceAssumption
<1>0. queue \in Seq(Message) /\ target \in [Spot -> OD \cup {NoInstance}] /\ members \subseteq Instance
  BY DEF TypeInv, TypeOK
<1>h. ASSUME pc # "idle"
      PROVE  Head(queue).state = "running" /\ Head(queue).id \in OD => ec2[Head(queue).id] \in Born
  <2>1. queue # << >>
    BY <1>h DEF TypeInv, JobInv
  <2>2. 1 \in 1 .. Len(queue) /\ Head(queue) = queue[1]
    BY <1>0, <2>1
  <2> QED
    BY <2>2 DEF NamedInv
<1>m. NoInstance \notin members'
  BY NextTypeInv DEF TypeInv, TypeOK
<1>1. ASSUME pc' \notin {"idle", "return"}, NEW s \in Spot, target'[s] \in members'
      PROVE  target'[s] \in snap'.members
  <2>1. CASE ReceiveMessage
    BY <1>1, <2>1 DEF ReceiveMessage, Step, ThisGroup, asgVars, ec2Vars
  <2>2. CASE ~ReceiveMessage
    <3>1. pc \notin {"idle", "return"} /\ UNCHANGED snap
      BY <1>1, <2>2, RunStep
    <3>2. CASE target'[s] = target[s]
      <4>1. target[s] \in OD /\ ec2[target[s]] \in Born
        BY <1>0, <1>1, <3>2, <1>m DEF NamedInv
      <4>2. target[s] \in members
        BY <1>1, <3>2, <4>1, LifeStep DEF Instance
      <4> QED
        BY <3>1, <3>2, <4>2 DEF CountedInv
    <3>3. CASE target'[s] # target[s]
      <4>1. LaunchSpotReplacement
        BY <3>3, TargetStep
      <4>2. /\ target'[s] = Head(queue).id
            /\ Head(queue).id \in OD /\ Head(queue).state = "running"
            /\ members' = members
        BY <1>0, <3>3, <4>1 DEF LaunchSpotReplacement, Step, TypeInv, JobInv, NamedInv, asgVars
      <4> QED
        BY <1>1, <3>1, <4>2 DEF CountedInv
    <3> QED
      BY <3>2, <3>3
  <2> QED
    BY <2>1, <2>2
<1>2. ASSUME pc' \notin {"idle", "return"}, Head(queue').id \in OD,
             Head(queue').state = "running", Head(queue').id \in members'
      PROVE  Head(queue').id \in snap'.members
  <2>1. CASE ReceiveMessage
    BY <1>2, <2>1 DEF ReceiveMessage, Step, ThisGroup, asgVars, ec2Vars
  <2>2. CASE ~ReceiveMessage
    <3>1. pc \notin {"idle", "return"} /\ UNCHANGED snap
      BY <1>2, <2>2, RunStep
    <3>2. Head(queue') = Head(queue)
      BY <1>2, <3>1, HeadStep
    <3>3. ec2[Head(queue).id] \in Born
      BY <1>2, <1>h, <3>1, <3>2
    <3>4. Head(queue).id \in members
      BY <1>2, <3>2, <3>3, LifeStep DEF Instance
    <3> QED
      BY <1>2, <3>1, <3>2, <3>4 DEF CountedInv
  <2> QED
    BY <2>1, <2>2
<1>3. ASSUME pc' \in HoldsOnDemand
      PROVE  /\ ec2'[od'] \in Born
             /\ \/ Cardinality(counted') > MinOnDemand
                \/ counted' = {} /\ missed' # {}
                \/ od' \notin members' \/ ec2'[od'] \in Dead
  <2>1. CASE GetSwapCandidate
    <3>1. /\ spot \in Spot /\ od' = target[spot] /\ pc = "candidate"
          /\ UNCHANGED <<ec2, members>>
      BY <2>1 DEF GetSwapCandidate, Step, TypeInv, JobInv, HoldsSpot, ec2Vars, asgVars
    <3>2. PICK seen \in SUBSET snap.members :
            /\ od' \in OD
            /\ NeedReplaceOnDemandInstances(seen)
            /\ counted' = RunningOnDemand(seen)
            /\ missed' = Running(snap.members) \ seen
      BY <2>1, <3>1 DEF GetSwapCandidate, ShouldBeReplacedWithSpot
    <3>3. ec2[od'] \in Born
      BY <3>1, <3>2 DEF NamedInv, Instance
    <3>4. CASE Running(seen) = {}
      <4>1. counted' = {}
        BY <3>2, <3>4 DEF RunningOnDemand
      <4>2. od' \in members => od' \in snap.members
        BY <3>1 DEF CountedInv
      <4>3. ASSUME od' \in members, ec2[od'] = "running" PROVE missed' # {}
        BY <3>2, <3>4, <4>2, <4>3 DEF Running
      <4> QED
        BY <3>1, <3>3, <4>1, <4>3 DEF Born
    <3>5. CASE Cardinality(RunningOnDemand(seen)) > MinOnDemand
      BY <3>1, <3>2, <3>3, <3>5
    <3> QED
      BY <3>2, <3>4, <3>5 DEF NeedReplaceOnDemandInstances
  <2>2. CASE ~GetSwapCandidate
    <3>1. pc \in HoldsOnDemand /\ UNCHANGED <<od, counted, missed>>
      BY <1>3, <2>2, RunStep
    <3>2. od \in OD
      BY <3>1 DEF TypeInv, JobInv
    <3>3. /\ ec2[od] \in Born
          /\ \/ Cardinality(counted) > MinOnDemand
             \/ counted = {} /\ missed # {}
             \/ od \notin members \/ ec2[od] \in Dead
      BY <3>1 DEF CountedInv
    <3>4. ec2'[od] \in Born /\ (od \notin members' \/ od \in members)
          /\ (ec2[od] \in Dead => ec2'[od] \in Dead)
      BY <3>2, <3>3, LifeStep DEF Instance
    <3> QED
      BY <3>1, <3>3, <3>4
  <2> QED
    BY <2>1, <2>2
<1> QED
  BY <1>1, <1>2, <1>3 DEF CountedInv

\* The swap leaves as many of the counted instances as are to be kept.
LEMMA KeptStep ==
  ASSUME TypeInv, CountedInv, TerminateOnDemand, od \in RunningOnDemand(members),
         counted \subseteq RunningOnDemand(members), counted # {} \/ missed = {}
  PROVE  Cardinality(RunningOnDemand(members)') >= MinOnDemand
<1> USE InstanceAssumption, NumberAssumption
<1> DEFINE kept == RunningOnDemand(members)'
<1>1. pc \in HoldsOnDemand
  BY DEF TerminateOnDemand, Step, HoldsOnDemand
<1>2. Cardinality(counted) > MinOnDemand
  BY <1>1 DEF CountedInv, RunningOnDemand, Running, Dead
<1>3. counted \ {od} \subseteq kept
  BY DEF TerminateOnDemand, Terminate, RunningOnDemand, Running, TypeInv, TypeOK, Instance
<1>4. kept \subseteq OD /\ counted \subseteq OD
  BY DEF RunningOnDemand, TypeInv, TypeOK
<1>5. IsFiniteSet(kept) /\ IsFiniteSet(counted)
  BY <1>4, FS_Subset
<1> HIDE DEF kept
<1>6. /\ Cardinality(counted) \in Nat /\ Cardinality(kept) \in Nat
      /\ IsFiniteSet(counted \ {od}) /\ Cardinality(counted \ {od}) \in Nat
  BY <1>5, FS_CardinalityType, FS_RemoveElement
<1>7. Cardinality(counted \ {od}) \in {Cardinality(counted), Cardinality(counted) - 1}
  BY <1>5, FS_RemoveElement
<1>8. Cardinality(counted \ {od}) <= Cardinality(kept)
  BY <1>3, <1>5, FS_Subset
<1>9. Cardinality(kept) >= MinOnDemand
  BY <1>2, <1>6, <1>7, <1>8
<1> QED
  BY <1>9 DEF kept

\* Only the swap ends this way.
LEMMA MinimumStep ==
  ASSUME TypeInv, CountedInv, [Next]_vars
  PROVE  [/\ pc = "retire" /\ pc' = "restore"
          /\ od \in RunningOnDemand(members) /\ ec2'[od] = "terminated"
          /\ counted \subseteq RunningOnDemand(members)
          => \/ Cardinality(RunningOnDemand(members)') >= MinOnDemand
             \/ counted = {} /\ missed # {}]_vars
<1> SUFFICES ASSUME pc = "retire", pc' = "restore",
                    od \in RunningOnDemand(members), ec2'[od] = "terminated",
                    counted \subseteq RunningOnDemand(members),
                    counted # {} \/ missed = {}
             PROVE  Cardinality(RunningOnDemand(members)') >= MinOnDemand
  OBVIOUS
<1>1. ec2' # ec2
  BY DEF RunningOnDemand, Running
<1>2. TerminateOnDemand
  BY <1>1 DEF Next, Aws, LaunchOnDemand, StartRunning, ScaleIn, RemoveTerminated, Forget,
       LoseInstance, SetDesired, OwnerAttaches, Events, DeliverEvent, LoseEvent,
       LifecycleHookEvent, Cron, CronEventAction, OutdatedCronEventAction,
       ResumeProcesses, CronCrash,
       Handler, ReceiveMessage, SkipInstance, CheckOnDemand, CheckSpot,
       FindUnattachedInstance, LaunchSpotReplacement, LaunchFails, WaitUntilRunning, WaitFails,
       GetSwapCandidate, CandidateMissing, CandidateRejected, SuspendProcesses, RaiseMaxSize,
       AttachSpotInstance, AttachFails, WaitForInService, InServiceTimeout, TerminateSpot,
       TerminateOnDemandFails, RestoreMaxSize, DeleteMessage, ForgetJob, Crash, vars,
       Step, ec2Vars
<1> QED
  BY <1>2, KeptStep

\* The handler leaves the on-demand instances that are to be kept, as it counted them
\* some steps before, whichever members it could not describe, unless it could describe
\* none of those that were running (needReplaceOnDemandInstances).
THEOREM MinimumLeft == Spec => MinOnDemandKept
<1>1. Spec => []TypeInv
  BY InitTypeInv, NextTypeInv, PTL DEF Spec
<1>2. Spec => []NamedInv
  BY <1>1, InitNamedInv, NextNamedInv, PTL DEF Spec
<1>3. Spec => []CountedInv
  BY <1>1, <1>2, InitCountedInv, NextCountedInv, PTL DEF Spec
<1> QED
  BY <1>1, <1>3, MinimumStep, PTL DEF Spec, MinOnDemandKept
=============================================================================

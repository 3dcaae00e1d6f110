-------------------------- MODULE Container_proofs --------------------------
(***************************************************************************)
(* A container selects groups as GroupSelection specifies, for all options *)
(* and all sequences of events, and its cron runs respect the metering.    *)
(***************************************************************************)
EXTENDS Container, WellFoundedInduction, TLAPS

----------------------------------------------------------------------------
(* The selection of groups, for all options, tags and groups.              *)

\* The container has the options, or the options with the defaults filled in.
ConfigInv == config \in {options, WithDefaults(options)}

SelectionInv == TypeOK /\ ConfigInv /\ OnlyRequestedGroups

\* Globs are matched as the documentation says.
LEMMA MatchingTags ==
  ASSUME NEW g \in Group, NEW asked \in SUBSET Tag
  PROVE  IsASGWithMatchingTags(g, asked)
           <=> \A t \in asked : /\ g.tags[t.key] # Absent
                                /\ t.value = "*" \/ t.value = g.tags[t.key]
<1>1. ASSUME NEW t \in asked
      PROVE  TagsMatch(g.tags[t.key], t.value)
               <=> /\ g.tags[t.key] # Absent
                   /\ t.value = "*" \/ t.value = g.tags[t.key]
  <2>1. g.tags[t.key] \in Values \cup {Absent}
    BY DEF Group, Tag
  <2>2. g.tags[t.key] # Absent => g.tags[t.key] # "["
    BY <2>1, FilterAssumption
  <2> QED
    BY <2>2 DEF TagsMatch
<1> QED
  BY <1>1 DEF IsASGWithMatchingTags

\* Filling in the defaults changes neither the meaning of the mode nor given filters.
LEMMA DefaultsKeepMeaning ==
  ASSUME NEW c \in Config, c.filter.blank => c.filter.tags = {}
  PROVE  /\ WithDefaults(c) \in Config
         /\ WithDefaults(WithDefaults(c)) = WithDefaults(c)
         /\ WithDefaults(c).mode = "opt-out" <=> c.mode = "opt-out"
         /\ ~c.filter.blank => WithDefaults(c).filter = c.filter
         /\ c.filter.blank =>
              WithDefaults(c).filter.tags
                = SpotEnabled(IF c.mode = "opt-out" THEN "false" ELSE "true")
<1>1. \A v \in {"true", "false"} : SpotEnabled(v) \in SUBSET Tag
  BY FilterAssumption DEF SpotEnabled, Tag, Globs
<1>2. CASE c.filter.blank
  BY <1>1, <1>2 DEF WithDefaults, OptInFilterMode, Config, Filter
<1>3. CASE ~c.filter.blank
  BY <1>3 DEF WithDefaults, OptInFilterMode, Config, Filter
<1> QED
  BY <1>2, <1>3 DEF Config, Filter

\* The options that the environment gives are a Config.
LEMMA OptionsAreConfig ==
  ASSUME TypeOK
  PROVE  /\ options \in Config
         /\ options.filter.blank => options.filter.tags = {}
BY FilterAssumption DEF TypeOK, Config

\* A container with filters selects what was requested.
LEMMA SelectsRequested ==
  ASSUME TypeOK, NEW c \in {options, WithDefaults(options)}, c.filter.tags # {}
  PROVE  /\ IsInAutoSpottingASG(group, c) => Requested(group)
         /\ \A u \in BOOLEAN : FindMatchingASG(group, c, u) => Requested(group)
<1> DEFINE asked == RequestedTags
<1>1. c.filter.tags = asked /\ c \in Config /\ (c.mode = "opt-out" <=> options.mode = "opt-out")
  BY OptionsAreConfig, DefaultsKeepMeaning DEF RequestedTags
<1>2. asked \in SUBSET Tag
  BY <1>1 DEF Config, Filter
<1>3. IsASGWithMatchingTags(group, asked)
        <=> \A t \in asked : /\ group.tags[t.key] # Absent
                             /\ t.value = "*" \/ t.value = group.tags[t.key]
  BY <1>2, MatchingTags, FilterAssumption DEF TypeOK
<1>4. Requested(group) <=> (IsASGWithMatchingTags(group, asked) <=> options.mode # "opt-out")
  BY <1>3 DEF Requested
<1>5. (OptInFilterMode(c.mode) = IsASGWithMatchingTags(group, asked)) => Requested(group)
  BY <1>1, <1>4 DEF OptInFilterMode, IsASGWithMatchingTags
<1> QED
  BY <1>1, <1>5 DEF IsInAutoSpottingASG, FindMatchingASG, TagsToFilterASGsBy

\* A container starts with its options.
LEMMA SelectionInitial == Init => SelectionInv
BY FilterAssumption DEF Init, SelectionInv, TypeOK, ConfigInv, OnlyRequestedGroups, Config

\* No event, and no change of the group, makes it select a group not asked for.
LEMMA SelectionStep == SelectionInv /\ [Next]_vars => SelectionInv'
<1> SUFFICES ASSUME SelectionInv, [Next]_vars PROVE SelectionInv'
  OBVIOUS
<1> USE DEF SelectionInv
<1>0. WithDefaults(config) = WithDefaults(options) /\ WithDefaults(options) \in Config
  BY OptionsAreConfig, DefaultsKeepMeaning DEF ConfigInv
<1>u. ASSUME NEW c, IsEnabled(c) PROVE \E u \in BOOLEAN : FindMatchingASG(group, c, u)
  BY <1>u DEF IsEnabled, IsStackUpdating
<1>1. CASE ProcessCronEvent
  <2>1. TypeOK' /\ ConfigInv'
    BY <1>1, <1>0 DEF ProcessCronEvent, Answer, TypeOK, ConfigInv
  <2>2. ASSUME acted' # "nothing", config'.filter.tags # {} PROVE Requested(group)
    <3>1. config' = WithDefaults(options)
      BY <1>1, <1>0 DEF ProcessCronEvent
    <3>2. PICK u \in BOOLEAN : FindMatchingASG(group, config', u)
      BY <1>1, <1>u, <2>2 DEF ProcessCronEvent, Answer
    <3> QED
      BY <3>1, <3>2, <2>2, SelectsRequested
  <2>3. OnlyRequestedGroups'
    BY <1>1, <2>2 DEF ProcessCronEvent, OnlyRequestedGroups, Requested, RequestedTags
  <2> QED
    BY <2>1, <2>3
<1>2. CASE HandleNewInstanceLaunch
  <2>1. TypeOK' /\ ConfigInv'
    BY <1>2 DEF HandleNewInstanceLaunch, Answer, TypeOK, ConfigInv
  <2>2. ASSUME acted' # "nothing", config.filter.tags # {} PROVE Requested(group)
    <3>1. PICK u \in BOOLEAN : FindMatchingASG(group, config, u)
      BY <1>2, <1>u, <2>2 DEF HandleNewInstanceLaunch, Answer
    <3> QED
      BY <3>1, <2>2, SelectsRequested DEF ConfigInv
  <2>3. OnlyRequestedGroups'
    BY <1>2, <2>2 DEF HandleNewInstanceLaunch, OnlyRequestedGroups, Requested, RequestedTags
  <2> QED
    BY <2>1, <2>3
<1>3. CASE HandleTermination
  <2>1. TypeOK' /\ ConfigInv'
    BY <1>3 DEF HandleTermination, Answer, TypeOK, ConfigInv
  <2>2. ASSUME acted' # "nothing", config.filter.tags # {} PROVE Requested(group)
    BY <1>3, <2>2, SelectsRequested DEF HandleTermination, Answer, ConfigInv
  <2>3. OnlyRequestedGroups'
    BY <1>3, <2>2 DEF HandleTermination, OnlyRequestedGroups, Requested, RequestedTags
  <2> QED
    BY <2>1, <2>3
<1>4. CASE ColdStart
  BY <1>4, OptionsAreConfig DEF ColdStart, TypeOK, ConfigInv, OnlyRequestedGroups
<1>5. CASE ChangeGroup
  BY <1>5 DEF ChangeGroup, TypeOK, ConfigInv, OnlyRequestedGroups
<1>6. CASE UNCHANGED vars
  BY <1>6 DEF vars, TypeOK, ConfigInv, OnlyRequestedGroups, Requested, RequestedTags
<1> QED
  BY <1>1, <1>2, <1>3, <1>4, <1>5, <1>6 DEF Next

\* Whatever the options, the tags and the sequence of events and restarts, a container
\* that has filters acts only on the groups that its options ask for.
THEOREM SelectionIsRequested == Spec => []OnlyRequestedGroups
<1>1. Spec => []SelectionInv
  BY SelectionInitial, SelectionStep, PTL DEF Spec
<1>2. SelectionInv => OnlyRequestedGroups
  BY DEF SelectionInv
<1> QED
  BY <1>1, <1>2, PTL

\* A container's Config stays well formed, whatever it has served.
THEOREM SelectionTypes == Spec => []TypeOK
<1>1. Spec => []SelectionInv
  BY SelectionInitial, SelectionStep, PTL DEF Spec
<1>2. SelectionInv => TypeOK
  BY DEF SelectionInv
<1> QED
  BY <1>1, <1>2, PTL

----------------------------------------------------------------------------
(* The container.                                                          *)

\* What the Fargate task was told last is in the parameter, unless it could not be
\* written there.
Recorded == refused /\ ~unmarked => parameter = "failure"

----------------------------------------------------------------------------
\* Every step of the container is one of the selection, which most leave as it is.
LEMMA StepSelects == [ContainerNext]_cvars => [Next]_vars
<1> SUFFICES ASSUME [ContainerNext]_cvars PROVE [Next]_vars
  OBVIOUS
<1> USE DEF Next, Skipped
<1>1. ASSUME acted' = "nothing", UNCHANGED <<options, config, group>> PROVE Next
  BY <1>1 DEF HandleNewInstanceLaunch, Answer
<1>2. CASE Bill
  BY <1>1, <1>2 DEF Bill
<1>3. CASE ServeCron
  BY <1>3 DEF ServeCron, ProcessCronEvent, Answer
<1>4. ASSUME HandleLaunch, UNCHANGED <<options, config, group>> PROVE Next
  BY <1>1, <1>4 DEF HandleLaunch, HandleNewInstanceLaunch, Answer
<1>5. CASE ServeLaunch
  BY <1>4, <1>5 DEF ServeLaunch
<1>6. CASE ServeLifecycleHook
  BY <1>1, <1>6 DEF ServeLifecycleHook, HandleNewInstanceLaunch, Answer
<1>7. CASE ServeTermination
  BY <1>1, <1>7 DEF ServeTermination, HandleTermination, Answer
<1>8. CASE ServeUnknown
  BY <1>1, <1>8 DEF ServeUnknown
<1>9. CASE \E m \in Message : ServeMessage(m)
  BY <1>4, <1>9 DEF ServeMessage
<1>10. CASE DeleteMessage
  BY <1>1, <1>10 DEF DeleteMessage
<1>11. CASE Restart
  BY <1>11 DEF Restart
<1>12. CASE Retag
  BY <1>12 DEF Retag
<1>13. CASE Tick
  BY <1>1, <1>13 DEF Tick
<1>14. CASE UNCHANGED cvars
  BY <1>14 DEF cvars, vars
<1> QED
  BY <1>2, <1>3, <1>5, <1>6, <1>7, <1>8, <1>9, <1>10, <1>11, <1>12, <1>13, <1>14
     DEF ContainerNext

\* Whatever is configured besides the filters, and whatever fails: the container
\* implements GroupSelection.
THEOREM ContainerSelects == ContainerSpec => SelectsAsSpecified
<1>1. ContainerInit => Init
  BY DEF ContainerInit
<1> QED
  BY <1>1, StepSelects, PTL DEF ContainerSpec, SelectsAsSpecified, Spec

\* So a container that has filters acts only on the groups its options ask for.
THEOREM ContainerOnlyRequested == ContainerSpec => []OnlyRequestedGroups
BY ContainerSelects, SelectionIsRequested, PTL DEF SelectsAsSpecified

----------------------------------------------------------------------------

\* A container starts well typed.
LEMMA ContainerTypesInitial == ContainerInit => ContainerTypeOK
<1>1. 0 \in 0 .. 2 * Hours - 1 /\ 0 \in 0 .. MaxFaults
  BY ContainerAssumption
<1>2. ContainerInit => TypeOK
  BY SelectionInitial DEF ContainerInit, SelectionInv
<1> QED
  BY <1>1, <1>2 DEF ContainerInit, ContainerTypeOK

\* No event breaks the types, if the selection keeps its own.
LEMMA ContainerTypesStep ==
  ASSUME ContainerTypeOK, TypeOK', [ContainerNext]_cvars
  PROVE  ContainerTypeOK'
<1> USE DEF ContainerTypeOK, Fault, Skipped, billing, messages, Serve, ConvertRawEvent
<1>0. Fault \/ UNCHANGED faults => faults' \in 0 .. MaxFaults
  BY ContainerAssumption
<1>1. CASE Bill
  <2>1. /\ Fault \/ UNCHANGED faults
        /\ parameter' \in {parameter, "success", "failure"}
        /\ refused' \in BOOLEAN /\ unmarked' \in BOOLEAN
    BY <1>1 DEF Bill, PutSSMParameter
  <2> QED
    BY <1>0, <1>1, <2>1 DEF Bill
<1>2. CASE ServeCron
  BY <1>0, <1>2 DEF ServeCron, FailedFromFargate, SendMessage
<1>3. CASE ServeLaunch
  BY <1>3 DEF ServeLaunch, HandleLaunch, SendMessage
<1>4. CASE ServeLifecycleHook
  BY <1>4 DEF ServeLifecycleHook, SendMessage
<1>5. CASE ServeTermination
  BY <1>5 DEF ServeTermination
<1>6. CASE ServeUnknown
  BY <1>6 DEF ServeUnknown
<1>7. CASE \E m \in Message : ServeMessage(m)
  BY <1>7, ContainerAssumption DEF ServeMessage, HandleLaunch, SendMessage
<1>8. CASE DeleteMessage
  BY <1>8 DEF DeleteMessage
<1>9. CASE Restart
  BY <1>9 DEF Restart
<1>10. CASE Retag
  BY <1>10 DEF Retag
<1>11. CASE Tick
  <2>1. now' \in 0 .. 2 * Hours - 1
    BY <1>11, ContainerAssumption DEF Tick
  <2> QED
    BY <1>11, <2>1 DEF Tick
<1>12. CASE UNCHANGED cvars
  BY <1>12 DEF cvars, vars
<1> QED
  BY <1>1, <1>2, <1>3, <1>4, <1>5, <1>6, <1>7, <1>8, <1>9, <1>10, <1>11, <1>12
     DEF ContainerNext

\* The container's state is well typed after every sequence of events.
THEOREM ContainerTypes == ContainerSpec => []ContainerTypeOK
<1>1. ContainerSpec => []TypeOK
  BY ContainerSelects, SelectionTypes, PTL DEF SelectsAsSpecified
<1>2. TypeOK' /\ ContainerTypeOK /\ [ContainerNext]_cvars => ContainerTypeOK'
  BY ContainerTypesStep
<1> QED
  BY <1>1, <1>2, ContainerTypesInitial, PTL DEF ContainerSpec

\* Only the Fargate task changes what is recorded, and that to what it was told.
LEMMA RecordedStep ==
  ASSUME Recorded, [ContainerNext]_cvars
  PROVE  Recorded'
<1> USE DEF Recorded, billing
<1>1. CASE Bill
  BY <1>1 DEF Bill, PutSSMParameter
<1>2. CASE UNCHANGED billing
  BY <1>2
<1> QED
  BY <1>1, <1>2
     DEF ContainerNext, ServeCron, ServeLaunch, ServeLifecycleHook, ServeTermination,
         ServeUnknown, ServeMessage, DeleteMessage, Restart, Retag, Tick, cvars

\* A cron run that replaces has read the record.
LEMMA CronStepMetered ==
  ASSUME Recorded, [ContainerNext]_cvars
  PROVE  [event' = "cron" /\ acted' = "queue" => ~setup.stable \/ ~refused \/ unmarked]_cvars
<1> SUFFICES ASSUME event' = "cron", acted' = "queue", ~UNCHANGED cvars
             PROVE  ~setup.stable \/ ~refused \/ unmarked
  OBVIOUS
<1>1. ServeCron
  BY DEF ContainerNext, Bill, ServeLaunch, ServeLifecycleHook, ServeTermination, Serve,
         ServeUnknown, ServeMessage, DeleteMessage, Restart, ColdStart, Retag, ChangeGroup, Tick
<1> QED
  BY <1>1 DEF ServeCron, FailedFromFargate, Recorded, Skipped

\* For all schedules, options and faults, the cron runs of a stable build replace nothing
\* after a bill was refused and that could be recorded.
THEOREM CronRunsMetered == ContainerSpec => NoFreeRide
<1>1. ContainerInit => Recorded
  BY DEF ContainerInit, Recorded
<1>2. Recorded /\ [ContainerNext]_cvars => Recorded'
  BY RecordedStep
<1>3. Recorded /\ [ContainerNext]_cvars
        => [event' = "cron" /\ acted' = "queue" => ~setup.stable \/ ~refused \/ unmarked]_cvars
  BY CronStepMetered
<1> QED
  BY <1>1, <1>2, <1>3, PTL DEF ContainerSpec, NoFreeRide

----------------------------------------------------------------------------
(* The messages.                                                           *)

\* A message that an instance was replaced for is in the queue only until its handler
\* ends, or it is sent once more.
SwappedAreServed == \A m \in swapped \cap queue : event = "queue" /\ m = receipt

\* A message is sent anew, or none, by an event that is not from the queue.
LEMMA SendingKeepsServed ==
  ASSUME SwappedAreServed, event # "queue", event' # "queue",
         SendMessage \/ UNCHANGED messages
  PROVE  SwappedAreServed'
<1>1. swapped \cap queue = {}
  BY DEF SwappedAreServed
<1>2. CASE SendMessage
  BY <1>1, <1>2 DEF SendMessage, SwappedAreServed
<1>3. CASE UNCHANGED messages
  BY <1>1, <1>3 DEF messages, SwappedAreServed
<1> QED
  BY <1>2, <1>3

\* The deletion of the message, deferred to the end of the handler, comes before
\* anything else is served, or it does not come and the swap does not count.
LEMMA ServedStep ==
  ASSUME ContainerTypeOK, SwappedAreServed, [ContainerNext]_cvars
  PROVE  SwappedAreServed'
<1> USE DEF Skipped, Serve, ConvertRawEvent
<1>1. CASE UNCHANGED <<messages, event, receipt>>
  BY <1>1 DEF messages, SwappedAreServed
<1>2. CASE ServeCron
  BY <1>2, SendingKeepsServed DEF ServeCron
<1>3. CASE ServeLaunch
  BY <1>3, SendingKeepsServed DEF ServeLaunch, HandleLaunch
<1>4. CASE ServeLifecycleHook
  BY <1>4, SendingKeepsServed DEF ServeLifecycleHook
<1>5. CASE ServeTermination
  BY <1>5, SendingKeepsServed DEF ServeTermination
<1>6. CASE ServeUnknown
  <2>1. swapped \cap queue = {} /\ UNCHANGED messages
    BY <1>6 DEF ServeUnknown, SwappedAreServed
  <2> QED
    BY <2>1 DEF messages, SwappedAreServed
<1>7. CASE \E m \in Message : ServeMessage(m)
  <2>1. PICK m \in Message : ServeMessage(m)
    BY <1>7
  <2>2. swapped \cap queue = {} /\ m # NoReceipt
    BY <2>1, ContainerAssumption DEF ServeMessage, SwappedAreServed
  <2>3. UNCHANGED queue /\ swapped' \subseteq swapped \cup {m}
    BY <2>1, <2>2 DEF ServeMessage, HandleLaunch, messages
  <2> QED
    BY <2>1, <2>2, <2>3 DEF ServeMessage, SwappedAreServed
<1>8. CASE DeleteMessage
  BY <1>8 DEF DeleteMessage, SwappedAreServed
<1>9. CASE Restart
  BY <1>9 DEF Restart, SwappedAreServed
<1>10. Bill \/ Retag \/ Tick \/ UNCHANGED cvars => UNCHANGED <<messages, event, receipt>>
  BY DEF Bill, Retag, Tick, cvars
<1> QED
  BY <1>1, <1>2, <1>3, <1>4, <1>5, <1>6, <1>7, <1>8, <1>9, <1>10 DEF ContainerNext

\* For any number of messages, and whenever invocations die: a swap is started only with
\* a message that is in the queue, and once for each, if its handler comes to its end.
THEOREM SwapsFromQueue == ContainerSpec => OneSwapPerMessage
<1>1. ContainerInit => SwappedAreServed
  BY DEF ContainerInit, SwappedAreServed
<1>2. ContainerTypeOK /\ SwappedAreServed /\ [ContainerNext]_cvars
        => [acted' = "replace" => receipt' \in queue /\ receipt' \notin swapped]_cvars
  <2> SUFFICES ASSUME ContainerTypeOK, SwappedAreServed, [ContainerNext]_cvars,
                      ~UNCHANGED cvars, acted' = "replace"
               PROVE  receipt' \in queue /\ receipt' \notin swapped
    OBVIOUS
  <2> USE DEF Skipped, Serve, ConvertRawEvent
  <2>1. CASE ServeLaunch
    BY <2>1 DEF ServeLaunch, HandleLaunch
  <2>2. CASE \E m \in Message : ServeMessage(m)
    BY <2>2, ContainerAssumption DEF ServeMessage, HandleLaunch, SwappedAreServed
  <2> QED
    BY <2>1, <2>2
       DEF ContainerNext, Bill, ServeCron, ServeLifecycleHook, ServeTermination,
           ServeUnknown, DeleteMessage, Restart, ColdStart, Retag, ChangeGroup, Tick
<1>3. ContainerTypeOK /\ SwappedAreServed /\ [ContainerNext]_cvars => SwappedAreServed'
  BY ServedStep
<1> QED
  BY <1>1, <1>2, <1>3, ContainerTypes, PTL DEF ContainerSpec, OneSwapPerMessage

----------------------------------------------------------------------------
(* The schedule.  The full hours are the even numbers: the last one at or   *)
(* before t, and its place in the crontab's round of hours.                *)

\* A set of integers that has a lower bound has a least element.
LEMMA LeastElement ==
  ASSUME NEW t \in Int, NEW U \in SUBSET Int, U # {}, \A u \in U : t <= u
  PROVE  \E u \in U : \A v \in U : u <= v
<1> DEFINE T == {u - t : u \in U}
<1>1. T \subseteq Nat /\ T # {}
  <2>1. \A u \in U : u - t \in Nat
    OBVIOUS
  <2>2. T \subseteq Nat
    BY <2>1
  <2>3. T # {}
    OBVIOUS
  <2> QED
    BY <2>2, <2>3
<1>2. PICK x \in T : \A y \in T : ~(<<y, x>> \in OpToRel(<, Nat))
  <2> HIDE DEF T
  <2> QED
    BY <1>1, WFMin, NatLessThanWellFounded
<1>3. ASSUME NEW y \in T PROVE x <= y
  <2> HIDE DEF T
  <2>1. x \in Nat /\ y \in Nat
    BY <1>1
  <2>2. y < x => <<y, x>> \in OpToRel(<, Nat)
    BY <2>1 DEF OpToRel
  <2>3. ~(y < x)
    BY <1>2, <2>2, Zenon
  <2> QED
    BY <2>1, <2>3
<1>4. PICK u \in U : x = u - t
  OBVIOUS
<1>5. ASSUME NEW v \in U PROVE u <= v
  <2>1. v - t \in T /\ u \in Int /\ v \in Int
    OBVIOUS
  <2>2. u - t <= v - t
    BY <1>3, <1>4, <2>1
  <2> QED
    BY <2>1, <2>2
<1> QED
  BY <1>5

\* What the quotient and the remainder are.
LEMMA Division ==
  ASSUME NEW n \in Int, n > 0, NEW x \in Int
  PROVE  /\ x \div n \in Int /\ x % n \in 0 .. n - 1
         /\ x = n * (x \div n) + (x % n)
<1>1. x \div n \in Int /\ x % n \in 0 .. n - 1
  OBVIOUS
<1>2. x = n * (x \div n) + (x % n)
  OBVIOUS
<1> QED
  BY <1>1, <1>2

\* A number below n that a multiple of n is added to.
LEMMA Remainder ==
  ASSUME NEW n \in Int, n > 0, NEW q \in Int, NEW r \in 0 .. n - 1
  PROVE  (n * q + r) % n = r
<1> DEFINE x == n * q + r
           p == x \div n
<1>1. x \in Int /\ p \in Int /\ x % n \in 0 .. n - 1 /\ x = n * p + (x % n)
  <2>1. x \in Int
    OBVIOUS
  <2> HIDE DEF x
  <2> QED
    BY <2>1, Division DEF p
<1>2. n * (p - q) = r - (x % n)
  BY <1>1
<1>3. p - q = 0
  <2>1. CASE p - q >= 1
    <3>1. n * (p - q) >= n
      BY <2>1, <1>1
    <3> QED
      BY <3>1, <1>1, <1>2
  <2>2. CASE p - q <= -1
    <3>1. n * (p - q) <= -n
      BY <2>2, <1>1
    <3> QED
      BY <3>1, <1>1, <1>2
  <2> QED
    BY <2>1, <2>2, <1>1
<1> QED
  BY <1>1, <1>2, <1>3

\* The last full hour before a time, and the one an hour earlier.
LEMMA FullHour ==
  ASSUME NEW t \in Int
  PROVE  /\ t \div 2 \in Int /\ 2 * (t \div 2) <= t /\ t <= 2 * (t \div 2) + 1
         /\ (t - 2) \div 2 = t \div 2 - 1
OBVIOUS
\* sched.Next: twice the first hour after the present one that the crontab names.  It
\* is less than a round of hours away.
LEMMA NextHour ==
  ASSUME NEW s \in SUBSET (0 .. Hours - 1), s # {}, NEW t \in Int
  PROVE  \E m \in t \div 2 + 1 .. t \div 2 + Hours :
           /\ NextTime(s, t) = 2 * m /\ m % Hours \in s
           /\ \A k \in t \div 2 + 1 .. t \div 2 + Hours : k % Hours \in s => m <= k
<1> DEFINE e == t \div 2
           later == {u \in t + 1 .. t + 2 * Hours : u % 2 = 0 /\ (u \div 2) % Hours \in s}
<1>0. Hours \in Int /\ Hours > 0
  BY ContainerAssumption
<1>1. e \in Int /\ 2 * e <= t /\ t <= 2 * e + 1
  BY FullHour
<1>2. ASSUME NEW u \in later
      PROVE  /\ u = 2 * (u \div 2)
             /\ u \div 2 \in e + 1 .. e + Hours /\ (u \div 2) % Hours \in s
  <2>1. u \in Int /\ u % 2 = 0 /\ t + 1 <= u /\ u <= t + 2 * Hours /\ (u \div 2) % Hours \in s
    BY <1>0
  <2>2. u = 2 * (u \div 2) /\ u \div 2 \in Int
    BY <2>1
  <2> QED
    BY <1>0, <1>1, <2>1, <2>2
<1>3. ASSUME NEW k \in e + 1 .. e + Hours, k % Hours \in s
      PROVE  2 * k \in later
  <2>1. k \in Int /\ (2 * k) \div 2 = k /\ (2 * k) % 2 = 0
    BY <1>0, <1>1
  <2>2. 2 * k \in t + 1 .. t + 2 * Hours
    BY <1>0, <1>1, <2>1
  <2> QED
    BY <1>3, <2>1, <2>2
<1>4. \E k \in e + 1 .. e + Hours : k % Hours \in s
  <2>1. PICK h \in s : h \in 0 .. Hours - 1
    OBVIOUS
  <2> DEFINE d == h - (e + 1)
             k == e + 1 + (d % Hours)
             q == d \div Hours
  <2>2. d \in Int
    BY <1>0, <1>1, <2>1
  <2>3. q \in Int /\ d % Hours \in 0 .. Hours - 1 /\ d = Hours * q + (d % Hours)
    <3> HIDE DEF d
    <3> QED
      BY <1>0, <2>2, Division
  <2>4. k = Hours * (-q) + h
    BY <1>0, <1>1, <2>1, <2>3
  <2>5. k % Hours = h
    <3>1. -q \in Int
      BY <2>3
    <3>2. (Hours * (-q) + h) % Hours = h
      BY <1>0, <2>1, <3>1, Remainder
    <3> HIDE DEF k
    <3> QED
      BY <2>4, <3>2
  <2>6. k \in e + 1 .. e + Hours
    BY <1>0, <1>1, <2>3
  <2> QED
    BY <2>1, <2>5, <2>6
<1>5. PICK u \in later : \A v \in later : u <= v
  <2>1. later \subseteq Int /\ \A v \in later : t <= v
    BY <1>0
  <2>2. later # {}
    BY <1>3, <1>4
  <2> HIDE DEF later
  <2> QED
    BY <2>1, <2>2, LeastElement
<1>6. NextTime(s, t) \in later /\ \A v \in later : NextTime(s, t) <= v
  <2>1. NextTime(s, t) = CHOOSE w \in later : \A v \in later : w <= v
    BY DEF NextTime
  <2> HIDE DEF later
  <2> QED
    BY <1>5, <2>1, Zenon
<1> DEFINE m == NextTime(s, t) \div 2
<1>7. NextTime(s, t) = 2 * m /\ m \in e + 1 .. e + Hours /\ m % Hours \in s
  BY <1>2, <1>6
<1>8. ASSUME NEW k \in e + 1 .. e + Hours, k % Hours \in s PROVE m <= k
  <2>1. 2 * m <= 2 * k
    BY <1>3, <1>6, <1>7, <1>8
  <2> QED
    BY <1>0, <1>1, <1>7, <2>1
<1> QED
  BY <1>7, <1>8

\* insideSchedule: the full hour at or before t, and the one after it, are both named.
LEMMA Inside ==
  ASSUME NEW s \in SUBSET (0 .. Hours - 1), s # {}, NEW t \in Int, NEW tz \in Int
  PROVE  InsideSchedule(t, s, tz) <=> \A k \in {0, 1} : ((t + tz) \div 2 + k) % Hours \in s
<1> DEFINE e == (t + tz) \div 2
           Named(m) == m % Hours \in s
<1>0. Hours \in Int /\ Hours > 0
  BY ContainerAssumption
<1>1. e \in Int /\ (t + tz - 2) \div 2 = e - 1 /\ t + tz \in Int /\ t + tz - 2 \in Int
  BY FullHour
<1>2. PICK a \in e .. e + Hours - 1 :
        /\ NextTime(s, t + tz - 2) = 2 * a /\ Named(a)
        /\ \A k \in e .. e + Hours - 1 : Named(k) => a <= k
  <2>1. e - 1 + 1 = e /\ e - 1 + Hours = e + Hours - 1
    BY <1>0, <1>1
  <2> QED
    BY <1>1, <2>1, NextHour
<1>3. PICK b \in e + 1 .. e + Hours :
        /\ NextTime(s, t + tz) = 2 * b /\ Named(b)
        /\ \A k \in e + 1 .. e + Hours : Named(k) => b <= k
  BY <1>1, NextHour
<1>4. InsideSchedule(t, s, tz) <=> b = a + 1
  BY <1>0, <1>1, <1>2, <1>3 DEF InsideSchedule
<1>5. b = a + 1 <=> Named(e) /\ Named(e + 1)
  <2> HIDE DEF e, Named
  <2>1. ASSUME Named(e), Named(e + 1) PROVE b = a + 1
    BY <1>0, <1>1, <1>2, <1>3, <2>1
  <2>2. ASSUME b = a + 1 PROVE a = e
    BY <1>0, <1>1, <1>2, <1>3, <2>2
  <2>3. ASSUME b = a + 1 PROVE Named(e) /\ Named(e + 1)
    BY <1>2, <1>3, <2>2, <2>3
  <2> QED
    BY <2>1, <2>3
<1>6. e + 0 = e
  BY <1>1
<1> QED
  BY <1>4, <1>5, <1>6
\* cronRunAction, with whatever is tagged and configured.
LEMMA RunOnSchedule ==
  ASSUME ContainerTypeOK, WithinSchedule
  PROVE  OnSchedule
<1> DEFINE s     == Loaded(tags.crontab, setup.crontab)
           tz    == Loaded(tags.timezone, setup.timezone)
           state == Loaded(tags.state, setup.state)
           inside == \A k \in {0, 1} : ((now + tz) \div 2 + k) % Hours \in s
<1>1. setup \in Setup /\ tags \in Override /\ now \in Int
  BY ContainerAssumption DEF ContainerTypeOK
<1>2. s \in Crontab /\ tz \in Timezone
  BY <1>1 DEF Setup, Override, Loaded
<1>3. /\ s # Invalid /\ tz # Invalid
      /\ \/ state = "on" /\ InsideSchedule(now, s, tz)
         \/ state = "off" /\ ~InsideSchedule(now, s, tz)
  BY DEF WithinSchedule, CronRunAction
<1>4. s \in SUBSET (0 .. Hours - 1) /\ s # {} /\ tz \in Int
  <2> HIDE DEF s, tz, state
  <2>1. s \in SUBSET (0 .. Hours - 1) /\ s # {}
    <3>1. s # Invalid
      BY <1>3
    <3>2. s \in (SUBSET (0 .. Hours - 1)) \ {{}}
      BY <1>2, <3>1, Zenon DEF Crontab
    <3> QED
      BY <3>2
  <2>2. tz \in Int
    BY <1>2, <1>3, Zenon DEF Timezone
  <2> QED
    BY <2>1, <2>2
<1>5. InsideSchedule(now, s, tz) <=> inside
  <2> HIDE DEF s, tz
  <2> QED
    BY <1>1, <1>4, Inside
<1>6. s # Invalid /\ tz # Invalid /\ state = (IF inside THEN "on" ELSE "off")
  <2> HIDE DEF s, tz, state, inside
  <2> QED
    BY <1>3, <1>5
<1> QED
  BY <1>6 DEF OnSchedule, Loaded

\* For every crontab, every timezone and every number of hours after which schedules
\* repeat themselves: a cron run replaces only on schedule.
THEOREM CronRunsOnSchedule == ContainerSpec => ScheduleKept
<1>1. ContainerTypeOK /\ [ContainerNext]_cvars
        => [event' = "cron" /\ acted' = "queue" => OnSchedule]_cvars
  <2> SUFFICES ASSUME ContainerTypeOK, [ContainerNext]_cvars, ~UNCHANGED cvars,
                      event' = "cron", acted' = "queue"
               PROVE  OnSchedule
    OBVIOUS
  <2>1. ServeCron
    BY DEF ContainerNext, Bill, ServeLaunch, ServeLifecycleHook, ServeTermination, Serve,
           ServeUnknown, ServeMessage, DeleteMessage, Restart, ColdStart, Retag, ChangeGroup, Tick
  <2>2. WithinSchedule
    BY <2>1 DEF ServeCron, Skipped
  <2> QED
    BY <2>2, RunOnSchedule
<1> QED
  BY <1>1, ContainerTypes, PTL DEF ContainerSpec, ScheduleKept
=============================================================================

# A verification development for AutoSpotting

AutoSpotting replaces the on-demand instances of AWS AutoScaling groups by
compatible spot instances. It runs as a Lambda function that a schedule, EC2
events and an SQS queue invoke. This directory holds TLA+ modules translated
from its Go source (`src/core`), the TLC runs that check them on small
instances, and proofs for all instances. `PROJECT.json` maps every definition
to the lines it models.

- [Inventory](#inventory)
- [Modules](#modules)
- [Runs](#runs), [bounds](#bounds), [fairness](#fairness)
- [Proofs](#proofs)
- [Disagreements with the documentation](#disagreements-with-the-documentation)
- [Not modelled](#not-modelled)
- [Plan](#plan)

## Inventory

| part | state it keeps | operations | what is hard |
|---|---|---|---|
| Replacement of an instance (`main.go`, `instance_actions.go`, `autoscaling.go`) | nothing between invocations but what AWS stores: the group's members, DesiredCapacity, MaxSize and suspended processes, the instances and their tags | check, find or launch a spot instance, wait, choose what to swap out, suspend, raise MaxSize, attach, wait, terminate, restore MaxSize | crashes between any two steps, redelivery, failing calls, time-outs, a description of the group read minutes before it is used |
| Queue (`region.go`, the stack's template) | one FIFO message group for each AutoScaling group | send, receive, delete | at-least-once delivery, one consumer for each group |
| Cron run (`region.go`, `autoscaling.go`) | the regions, the enabled groups, a catalogue of instances | scan, decide, send a message, resume the group's processes | goroutines of all groups share the region; runs concurrently with the queue's handler |
| Minimum of on-demand instances (`autoscaling_configuration.go`) | the group's configuration, loaded at each decision | two options, two tags, their ranges and priority | rounding, a minimum that depends on a size that changes |
| Spot interruption and rebalance handling (`spot_termination.go`) | nothing but what AWS stores | check the group, detach or terminate, remove the tag, terminate later | two events for one instance, a delay almost as long as the Lambda function's time limit |
| Selection of groups (`region.go`) | the tag filters | match in opt-in and opt-out mode | empty filters, globs |
| Catalogue of instances (`instance_manager.go`, `region.go`) | a map under a lock, one for a region, replaced as a whole by each scan | add, get, iterate | the goroutines of all groups share it, and each empties it under the others |
| Schedule (`schedule.go`) | none | inside or outside a crontab interval | last and only hours of an interval, time zones |
| Events (`instance_events.go`, `main.go`) | the receipt handle and the filters, in the Config that all events of a container share | parse and route | what an earlier event left in the Config |
| Compatibility and prices (`instance_queries.go`, `spot_price.go`) | the prices read at the start of a run | filter and sort instance types | surcharges, zero prices, allow and deny lists, prices and settings that could not be read |
| Launch template conversion (`instance_conversion.go`) | a temporary launch template, named after the on-demand instance | build it, use it for one CreateFleet, delete it | a template left behind is used again; volumes come from three places |
| Metering (`marketplace_metering.go`) | a status in the parameter store | the hourly task bills and writes it, cron runs read it | a bill refused, a status that cannot be written or read |
| CodeDeploy, connections, start-up | none | call other services | nothing a model would add to |

The parts meet in AWS. An EC2 event (directly) or a cron run only puts a message
on the group's queue; the queue's handler does everything else, one message at a
time for each group. The cron run resumes the processes that the handler
suspends. Spot interruptions detach instances that the handler may find again by
their tag.

## Modules

**SpotReplacement** is the core: one enabled group, the part of AWS around it and
the three kinds of Lambda invocation.

| variable | code |
|---|---|
| `ec2`, `target` | the instances' states; the tag `launched-for-replacing-instance` |
| `members`, `desired`, `maxSize`, `suspended` | the AutoScaling group |
| `events`, `queue` | EC2 events under way; the group's FIFO messages, the head in flight |
| `pc`, `snap`, `spot`, `od`, `raised`, `counted` | the queue's handler: its step, the `*autoscaling.Group` it read (`asg`), the instances of the swap, the deferred restore, the on-demand instances it counted |
| `missed` | history: the running members that the handler could not describe when it counted |
| `cron` | the step of a cron run |
| `wanted`, `faults`, `blindScans`, `overlapped`, `scalings`, `losses` | history, for the properties and the bounds |

Each action is one AWS call of the handler with the local computation up to it,
or one early return. What abstracts from the code:

- One group has one message group, and the visibility time-out of the queue is
  the time limit of the function (`template.yaml:459`, `:536-559`): a message is
  delivered again only once its handler is dead, so one handler is enough. The
  messages a handler has finished with are deleted whether or not it failed.
- An event or a cron run reads the group and sends at most one message, with no
  write in between: each is one atomic step, except that a cron run resumes
  processes in a second one. That it may act on less than the group, or on what the
  group was when it was described, is an action of its own, switched on by
  `OutdatedScans`: `OutdatedCronEventAction` queues any unprotected on-demand instance
  that runs or did so, whatever the minimum. RegionScan has how it comes to that.
- Instance states are read afresh at each step of the handler; the group is the
  snapshot taken when the message was received, as in the code.
- Wherever the code counts on-demand instances it describes the members one by one, and
  ignores an error: such a member is left out (`ScanInstances`, the fault "describe").
  A count that is too small stops the swap, but a group that looks empty needs no
  minimum (`autoscaling.go:127-131`), and its last on-demand instance is replaced.
- The minimum is a number, `MinOnDemand`. How the settings and the size of the group
  make that number is the module MinOnDemand's, where every count is exact.
- `Forget` (EC2 no longer describes a terminated instance) takes an hour, and a
  handler lives for 15 minutes at most: it happens between handlers.
- Scale-in and termination protection are one set, `Protected`: the code treats
  them alike. The schedule always allows the run. Some instance type is
  compatible, or else `LaunchFails`.
- The owner's MaxSize is constant; a scaling decision changes DesiredCapacity.

**MinOnDemand** counts instances instead of naming them and has the settings in
full: `-min_on_demand_number`, `-min_on_demand_percentage` and the two tags, each
possibly out of range. `Evaluate` loads the configuration and decides; `Replace`
is the end of the swap, any number of changes later. `smallest` remembers how small
the group has been, for `OptionNumberKept`. The percentage is an
integer; `math.Floor(x + .5)` of a quotient by 100 is exact in floating point for
these, and is an integer division here.

**SpotTermination** is the direct invocations for interruption warnings (`SII`) and
rebalance recommendations (`IRR`) of one group's spot instances. `step[n]` is the
program counter of the invocation for notice `n`, so that both notices of one
instance, and those of different instances, run concurrently and are retried;
`members`, `draining` (waiting for the termination hook), `desired` and `enabled`
(the tags match the filters) are the group, `tagged` has the instances with the
tag `launched-for-asg`. Each action is one AWS call of `executeAction`,
`detachInstance`, `terminateInstance`, `deleteTagInstanceLaunchedForAsg` and
`delayedTermination`, or its failure.

- The queue's handler is reduced to finding an instance by its tag, and later
  attaching it or giving up (`FindUnattached`, `SwapWithGroupMember`, `GiveUp`).
- The two reads in `IsInAutoSpottingASG` are one step; `executeAction` repeats the
  first of them in the next.
- EC2's two minutes and the 14 minutes' delay are not timed: the instance may be
  reclaimed, or not, before any step.
- The identity of a terminated on-demand instance is used again for a later one, so
  that the group can always replace what it lost.

**Rebalance** composes rebalance recommendations with SpotReplacement (EXTENDS it):
of such an invocation one step changes anything, and it becomes an action,
`ExecuteAction`, that can fall between any two steps of a swap. Interruptions need
no such composition for what SpotReplacement says of the group: an interrupted
instance is lost (`LoseInstance`), whoever terminates it.

**GroupSelection** is the choice of groups. `options` is what the function is
configured with and `config` the `Config` of one container, which a cron run changes
for good when it fills in the defaults (`main.go:64-109`); `group` is any group,
`acted` what the last event did to it. A filter is a blank option or a set of
key=pattern pairs (text without a `=` contributes none), and a pattern is a value,
`*`, or a malformed glob. Launches and cron runs share
`findMatchingASGsInPageOfResults`; interruptions have a copy of the filter
(`spot_termination.go:217-261`), which is modelled separately. One group is enough:
each is selected without regard to the others.

**GroupCapacity** is the abstract specification of a replacement: a newcomer joins
the group and its capacity, then one on-demand instance leaves both, and everything
that can go wrong in between is a `Slip`. It knows of no messages, snapshots, limits
or suspended processes. SpotReplacement implements it (`KeepsCapacity`): `live` is
the set of live instances (`Alive`), `capacity` and `asked` are `desired` and
`wanted`, the `newcomer` is the spot instance between the handler's attaching it and
its terminating the on-demand one (`Newcomer`), and the slips are the faults.

**RegionScan** is a cron run in one region. Each enabled group has a goroutine, with
its program counter, its position in the group and what it has found (`a.instances`);
`catalog` is `r.instances`, which they share. `scanInstance` replaces the catalogue
by an empty one, calls DescribeInstances and adds what it gets to what is the
catalogue by then: three steps (`Lookup`, `Describe`, `LookupAgain`), between which
other goroutines do the same. Only members that do not run or that are gone are
missing from the catalogue in the first place. A goroutine scans its group once to
choose an instance and again before it sends a message for it. The minimum is
computed by MinOnDemand's `LoadedMinOnDemand` (INSTANCE with parameters).

- Instances keep their EC2 state; a swap turns an on-demand instance into a spot one
  under the same name, and the handler's own scan is one step, because it has a
  catalogue and a thread of its own.
- The write of `FinalRecap`, a map without a lock, is a step: when two goroutines are
  about to make it, the run may end there (`ConcurrentMapWrites`). Other outcomes of
  the race are those of one write after the other.

**SpotLaunch** is `launchSpotReplacement` for one on-demand instance, called again
and again: the launch template, the list of compatible types with all its conditions
and the prices as read, CreateFleet, and the deletion of the template. `seen`,
`known` and `loaded` are what the handler read or failed to read at its start, and
`template` is the one in EC2. A volume is a device, a type and a size; the
conversion of its type (io1 to io2, gp2 to gp3) and the three sources of mappings
are modelled in full. Prices are integers; so are memory and throughput. EC2 takes
security groups in one way only: with the network interfaces, by their ids or by their
names (`ids` and `names` of a template); and it needs an image. Ids of a launch template
that are added to the instance's change neither; that ids may then occur twice is not
modelled.

**Container** EXTENDS GroupSelection with the rest of a container: how each event is
parsed and routed, the options that disable it, the receipt handle that the shared
Config keeps, the group's schedule, and the metering. An event is one step, because a
container serves one at a time, and what its handler does to a group is one of
"queue", "replace" and "terminate". Only a message of the queue takes two: its deletion
is deferred to the end of the handler (`main.go:479`, `:549`), which may be minutes
after the swap, and is the action `DeleteMessage`; with `Restart` the invocation dies
before it, and the message is served again. No other event is served in between, but
time goes by, groups are tagged and bills are written. When the handler returns before
it defers the deletion, or that fails, Lambda deletes the message, as the function never
returns an error (`autospotting.go:74`). `swapped` remembers for which messages an
instance was replaced. Time goes by in half hours and a schedule is a
set of hours, repeated; a time zone is a shift in half hours. `Bill` is the hourly
Fargate task.

**MC...** modules give TLC its sets and symmetries; **..._proofs** modules hold
the theorems.

## Runs

| run | question |
|---|---|
| `swap_disturbed` | Do the capacity, the on-demand minimum and the order of attaching and terminating survive a scaling decision, the loss of an instance and a fault at any step? Cron runs may act on outdated scans. Is every step one that GroupCapacity allows? |
| `swap_liveness` | Is the on-demand instance replaced in the end, whatever single fault happens, and are suspended processes resumed? Do duplicate messages, lifecycle-hook messages and a fault ever launch a second spare instance, or move MaxSize by more than one? |
| `minimum_kept` | Does the group keep the on-demand instances its settings ask for, over a sequence of replacements and changes, and no more in the end? |
| `termination` | With both notices of an instance handled concurrently, two faults and a change of tags: can the late termination hit a member of the group, is everything detached before it is terminated, are termination hooks honoured, and does the group get back to its capacity? |
| `rebalance` | Swaps with a rebalance recommendation and a fault at any step: how many spare instances, what capacity, and can anything but one known situation stop replacement? |
| `container` | Any sequence of events, restarts, bills and hours: is a group touched that the options do not ask for, an instance swapped without its message, the schedule left, a refused bill ignored, or do cron runs stay blocked? |
| `cron_scan` | What do goroutines miss that empty the catalogue under each other, what do they queue because of it, and does the handler's own check still keep the minimum? |
| `launch` | Prices and configuration change and calls fail around the launches for one instance: is the instance dearer or lesser than the one it replaces, is an old template used twice, are volumes lost or added? |
| `swap_cron_mode`, `rebalance_stuck`, `selection_left_alone`, `minimum_larger` | Each refutes one statement of the documentation, see [below](#disagreements-with-the-documentation). |

Properties of SpotReplacement:

- `CapacityBand`: between two runs of the handler DesiredCapacity is what the
  owner asked for, up to one more for each fault, and less only when a scaling
  decision fell within a run.
- `MaxSizeRatchet`: MaxSize is the owner's, up to one more for each fault.
- `OneSpareInstance`: at most one live spot instance of the group is unattached,
  plus one for each scan that failed.
- `MinOnDemandKept`: a handler that terminates an on-demand instance leaves
  `MinOnDemand` others running, unless one it had counted has left since, or it could
  describe no running member and took the group for an empty one. Both are real, and the
  run reaches them; with some of the members described the minimum is kept.
- `ReplacedBeforeRetired`: when it does, the replacement is a member, or died.
- `KeepsCapacity`: every step is one of GroupCapacity's, or none of its concern.
- `EventuallyReplaced`, `ProcessesResumed`: liveness.

Of MinOnDemand: `MinimumKept` (a valid number, or else a valid percentage, as documented;
the reference is the exact share, not the code's rounding), `OptionNumberKept` and
`AllReplaced`. That a percentage larger than a valid number is applied, against the
documentation, is what `minimum_larger` shows; `MinimumKept` asks nothing of the
percentage then. `AllReplaced` is about the minimum in force as the code loads it
(`LoadedMinOnDemand`): with it as the reference the replacements go on to their end, and
`MinimumKept` says whether that end is right. A number larger than the present size of the group counts as invalid, which lets a small group
lose all its on-demand instances: `OptionNumberKept` says that this is the only case.

Of SpotTermination:

- `LateTerminationSafe`: an instance that waits for its termination is a member of
  the group only if the queue's handler had found it before its tag was removed, or
  some call failed. The exception is real: the delay is longer than a swap.
- `DetachedBeforeTerminated`: it is a member only if it was attached again.
- `HookHonoured`: with a termination hook, no live spot instance leaves the group
  past the hook, unless the action is to detach or a call failed.
- `CapacityRecovered` (liveness).

Of Rebalance: `SparesBounded` (`OneSpareInstance`, with one more for each
recommendation), `CapacityBand`, and `ReplacedOrBlocked`: replacement goes on to its
end unless an unattached spot instance was launched for an instance that is
forgotten. That situation is what `rebalance_stuck` reaches without any fault.

Of Container:

- `OnlyRequestedGroups`, for containers that have filters, and `SelectsAsSpecified`:
  with its schedule, messages and failures the container implements GroupSelection.
- `OneSwapPerMessage`: an instance is replaced only for a message of the queue, and
  once for each, unless the invocation died between the swap and the deletion of the
  message. What the second handler finds and does then is SpotReplacement's.
- `ScheduleKept`: the reference is the hours of the crontab, the code compares two
  successors. The last hour of an interval is outside of it.
- `NoFreeRide`, `CronResumes`: after a refused bill no cron run of a stable build
  replaces anything, and blocked cron runs resume.

Of RegionScan: `MissedOnlyIfRaced` (what exactly a scan can miss), `QueuedRightly` (a
message that the minimum does not allow takes two disturbed scans),
`MinimumKeptByHandler` (such messages do no harm) and `RunEnds`.

Of SpotLaunch: `NeverDearer` (with prices that were not read, and old templates),
`StaleOncePerLeak`, `AsGood`, `TemplateUsable` and `VolumesKept`. The references are
what an instance ends up with in EC2, not the conditions of the code. `TemplateUsable`
excepts templates without an image, after a failed load, and those of groups whose launch
template names its security groups. `VolumesKept` compares the device, the type and the
size of a volume; the conversions drop others of its fields, as the key it is encrypted
with and its throughput.

### Bounds

- Instances: two or three on-demand, two or three spot identities. One swap needs
  one of each; the third lets a second swap start from what the first left
  behind. `EventuallyReplaced` says nothing once all spot identities are used up.
- `MaxFaults` 1 or 2: one fault leaves the debris, a second one hits the run that
  meets it. `swap_disturbed` has one fault with one loss and one scaling decision.
- `MaxQueue` 1 or 2: the queue holds a duplicate of the message in flight.
- `OutdatedScans` in `swap_disturbed` only: where liveness is checked, cron runs see the
  group as it is, because one that is disturbed each time may miss an instance for ever.
  The theorems about SpotReplacement and Rebalance hold with outdated scans.
- `OwnerMax` is the capacity at the start or one above it, so that groups that
  are at their maximum and groups that are not both occur. In `swap_disturbed` the
  group starts at its `MinSize` with room to grow: a scaling decision in a swap can
  bring it back to the minimum, at which it refuses the decrement that ends the swap.
- In SpotTermination, one instance with both notices, two faults and two on-demand
  instances for replacements: instances recover independently, and the theorems cover
  any number of them. EC2 warns of each instance once.
- In Rebalance, one recommendation, in a group of one that can be replaced three
  times.
- In Container, a tag of two values, two filters (none, and a glob with a value) in
  both modes, three groups, three setups of the other options (with and without
  billing, events and rebalance recommendations, the schedule on and off), three sets
  of tags for the schedule, days of three hours, one message, two faults. Billing-only
  mode and disabled regions only take steps away, and the theorems have them.
- In `selection_left_alone`, two keys, three values, all groups, no filter.
- In RegionScan, two groups, of four members and of one, in two initial conditions: a
  member of each is missing from the catalogue, or none is unless the region's
  description fails. The minimum of the first group falls by one as soon as one member
  is missed; the instance of the second is to be replaced. Two runs, so that the second
  starts with messages queued; one failing call.
- In SpotLaunch, five types that differ from the present one in one respect each, six
  configurations (templates and launch configurations, with and without interfaces, names
  of security groups, lists, thresholds and mappings) and three price lists: everything cheap, everything
  dear by the surcharge only, and the present type not offered. Two changes and two
  faults: one leaves a template behind, the other hits the launch that uses it.
- In MinOnDemand, MaxSize 4 with the percentages 16, 17, 34, 75 and 100: shares on
  both sides of a half; numbers below, within and above the group's size.
- `swap_liveness` has one fault, so `OneSpareInstance` and `MaxSizeRatchet` are checked
  with one; the theorems have any number.

### Fairness

Weak fairness on the handler as a whole, on the cron run, on the delivery of each
event, and on the steps EC2 and the group take by themselves. SQS invokes the
function while it has messages, EventBridge fires the schedule for ever, and the
group keeps its capacity. Nothing is assumed of faults, losses, scaling
decisions, rebalance recommendations or lifecycle hooks. In Container the
Fargate task is weakly fair, as a schedule, and so is the end of a handler, which the
function's time limit enforces; the cron event is strongly fair, because Lambda keeps an
event that meets a busy container and tries it again, however many messages come in
between. In RegionScan each
goroutine is weakly fair, but not the handler or the schedule. In SpotTermination every
invocation and every step of the group and of EC2 is weakly fair; nothing is assumed
of notices, faults, the owner or the queue's handler. Its run and `cron_scan` switch
the deadlock check off, because the system rests once all notices have been handled,
or the bounded number of cron runs have ended.
`EventuallyReplaced` holds after a lost event only
because the cron run is there.

## Proofs

`SpotReplacement_proofs` proves, for every group, every number of instances and
every bound:

- `TypeCorrect`: needs `JobInv`, what the handler holds at each of its steps (a
  message from "check" on, an on-demand one at "find", a spot instance after).
- `MaxSizeBounded`: `MaxSizeRatchet` speaks of the moments between two runs only.
  `MaxSizeInv` adds that until the handler raises the limit its snapshot is the
  present limit, and from then on the limit is the snapshot or one more.
- `CapacityKept`: `CapacityInv` adds the instance that is counted twice between
  attaching and terminating, that an instance that is attached was not a member
  (unless the owner attached it during the run), and that the restored limit
  does not cut the capacity.

- `ReplacedFirst`: by `JoinedInv`, what was attached is a member until it dies.
- `SwapsKeepCapacity`, the refinement: one lemma for each action of SpotReplacement
  says which action of GroupCapacity it is. The type invariant is needed for members
  and capacity, `CapacityInv` for the restored limit that trims the capacity (`Trim`)
  and for an instance that is attached already (`Adopt`), `JoinedInv` for `Retire`.
- `SparesAreFew`: only the launch adds a spare instance, and it looks at a snapshot of
  the group: `SpareInv` says that a spot instance which that has and the group has not
  is dead.
- `MinimumLeft`: `NamedInv` says that whatever a message or a tag names has been
  running once, so that it was a member in the handler's snapshot if it is one now;
  `CountedInv`, that what is replaced was then counted among more than `MinOnDemand`,
  or has left or died since, or that no running member was known (`missed`).

`GroupCapacity_proofs` proves `BandKept`, for GroupCapacity on its own: the capacity
is what was asked for, with one more for each slip (`BandInv` adds the newcomer).

`MinOnDemand_proofs` proves `MinimumIsKept` and `OptionNumberIsKept` for every setting
and every size. The invariant `KeptInv` looks past the swap under way: what it leaves
must be enough from the decision on. The lemma `ShareIsNearest` bounds the rounding.

`SpotTermination_proofs` proves `LateTerminationIsSafe`, `DetachedFirst` and
`HookIsHonoured` for any number of instances, notices and faults. `LateInv` carries
the first one: while the invocation sleeps without a fault, the instance has lost its
tag, or was caught before; what has no tag and is not held cannot be found. The second
needs that only spot instances drain, the third that with a hook no invocation gets to
its detachment (`HookInv`).

`Rebalance_proofs` proves, for any number of rebalance recommendations at any step of a
swap, that the spare instances stay few (`SparesStayFew`) and that the capacity, MaxSize
and the minimum are kept as they are without them (`RebalancesKeepCapacity`,
`RebalancesKeepMaxSize`, `RebalancesKeepMinimum`). A step of the composition is a step of
a swap or takes an instance out (`ComposedStep`), and taking one out disturbs none of the
swaps' invariants (`TakenOutKeeps`), but for `SpareInv`, which fails: the handler's
snapshot may have an instance that the group has lost since and that is alive. `Overlooked`
is the set of these, and `OverlookedInv` bounds it by the recommendations, so that the next
launch adds at most one spare instance to one for each. `ReplacedBeforeRetired` does not
hold of the composition, as a recommendation may take the newcomer out before the
on-demand instance is terminated; so it does not implement GroupCapacity either.

`RegionScan_proofs` proves what goroutines can do to each other, for any number of
groups, members and runs. `ScanInv` says what is queued, in the catalogue, or found: only
members that are there. `RaceInv` follows a goroutine in a pass that nothing disturbed:
what it has looked up it has found (`CompleteInv`), what it knows is right (`RightInv`),
and what it chose in such a pass its group could spare (`NeededInv`). `MissesOnlyIfRaced`
and `QueuesRightly` follow. `HandlerKeepsMinimum` needs no race: `MinimumInv` says that
whatever was replaced, the group keeps its minimum, because the handler counts for
itself (`KeptCount`, `ReplaceKeeps`).

`Container_proofs` proves `SelectionIsRequested` of GroupSelection, for every set of keys,
values and options. The container's Config is the options or the options with the defaults
(`ConfigInv`), and the lemma `DefaultsKeepMeaning` says that both ask for the same
groups once there are filters. Container implements GroupSelection (`ContainerSelects`),
which carries that theorem over to it (`ContainerOnlyRequested`); `CronRunsMetered` needs
that the parameter records a refused bill (`Recorded`), `SwapsFromQueue` that a
message an instance was replaced for is in the queue only while its handler has not ended
(`SwappedAreServed`). `CronRunsOnSchedule` is about arithmetic: the next full hour of a crontab is
the least one that follows (`LeastElement`, from well-founded induction on the naturals),
there is one within a day (`NextHour`), and the successors of now and of an hour ago are
an hour apart exactly if the crontab names the present hour and the next (`Inside`).

`SpotLaunch_proofs` proves all of `launch`'s properties for every table of types,
prices, mappings and configurations: `StaleOnce` by `Accounts` (an outdated template
that is still there has been counted as a leak, but not yet as an outdated instance),
`LaunchedNeverDearer` and `LaunchedAsGood` by `Fits` (what the types on the list, and
later the instance, satisfy), `TemplatesUsable` by `Faulted` (a load that failed was a
fault, and what is unusable was made after one, or names its groups), `VolumesAreKept` by
`VolumesInv` and a lemma for each source of mappings.

The proofs assume only the constants' assumptions (`InstanceAssumption`,
`NumberAssumption`, `SwitchAssumption`, `SettingsAssumption`, `SizeAssumption`,
`TerminationAssumption`, `RebalanceAssumption`, `FilterAssumption`, `ContainerAssumption`,
`GroupAssumption`, `SettingAssumption`, `TypeAssumption`, `MarketAssumption`,
`VolumeAssumption`); `BandKept` also that no spot instance is
called `None`. The inductive invariants were checked with TLC first.

Every invariant and every action property that a run checks is a theorem, and so are the
two refinements. Only model-checked are the liveness properties, `EventuallyReplaced`,
`ProcessesResumed`, `AllReplaced`, `CapacityRecovered`, `ReplacedOrBlocked`, `CronResumes`
and `RunEnds`: they depend on fairness, which the prover does not treat. The four
statements that runs refute are refuted by TLC's counterexamples.

## Disagreements with the documentation

- `swap_cron_mode`: disabling events also disables the cron mode it is said to
  force (config.go:117-118).
- `rebalance_stuck`: an instance that a rebalance detached keeps its tags, is found
  by every later swap, and blocks them all once the instance it was launched for is
  forgotten ("continuously attempt", README.md:109-111).
- `selection_left_alone`: a container that has not served a cron run has no default
  filter, and handles interruptions in groups without any tag
  (spot_termination.go:215-216).
- `minimum_larger`: of the two tags for the minimum the larger value counts, where
  START.md:356-358 says that the percentage is ignored if the number is valid.

The passing properties leave room for more of the kind, and say how much:
`MinOnDemandKept` for a group that looks empty to a handler whose calls fail;
`CapacityBand` for a spot instance that is attached but not in service in time and is
terminated behind the group's back, with DesiredCapacity one too high;
`MaxSizeRatchet` for the temporary MaxSize that survives a crash and that the retry
takes for the owner's; `OnlyRequestedGroups`, by the same lack of a default filter,
for launches in the opt-out mode; `NeverDearer` for types without a price, which the
surcharge for EBS makes candidates (then EC2's own price limit holds, without the
surcharge); `VolumesKept` for volumes of the image that the group maps to no device,
and that come back because such a mapping is skipped.

Met on the way, and modelled as the code has it:

- A group's tag for the multiplier of the on-demand price is loaded
  (autoscaling_configuration.go:430) and never used, as prices take the option's
  (region.go:245); config.go:189 says that the tag overrides the option.
- The names of security groups in a launch template without network interfaces are added
  to the ids of the instance's (instance_conversion.go:326), which EC2 refuses: every
  launch of a spot instance for such a group fails.
- The error of a member that cannot be described is ignored (autoscaling.go:194), so that
  a group whose members all cannot be looks empty and below no minimum.
- A launch template that leaves out the type of a volume, or the size of a gp2 volume,
  ends every handler of its group with a nil dereference (`CreatePanics`).
- `handleLifecycleHookEvent` does not look at `DisableEventBasedInstanceReplacement`.
- Events replace instances outside of the schedule as well, although config.go:48-49
  says that it "will only run inside this time interval".
- Interruptions are handled in regions that are not enabled.
- A list of allowed types makes the list of disallowed ones count for nothing.
- The tags for the bidding policy and the price buffer are written into the region's
  shared configuration, by all goroutines; `getPriceToBid`, which would read it, is
  never called.

## Not modelled

- CodeDeploy deployments: they are started in another service and change nothing of
  the group here.
- Connections, start-up, logging, and the text of tags: pure I/O. Globs and the lists of
  regions, types and tags enter as sets.
- The order of the list of types and its bias: a preference given to CreateFleet, which
  may launch any of them. Generations of types, which only shape that order.
- Fields that the conversion copies unchanged, the tags of the new instance (what
  SpotReplacement needs of them is `target`), and the patch of Beanstalk's user data.
- The lock of the catalogue: it guards single calls. An iteration that is abandoned keeps
  it, but every scan makes a new catalogue and nothing ever waits on the old one.
- Days of the week in a schedule; paging of AWS calls.
- The total of savings that a warm Lambda container accumulates: it is only logged there,
  and billed by the Fargate task, which starts afresh each hour. That a failed fetch of
  prices makes savings larger is left out: a bill's size is an input.

## Plan

1. Done: theorems for RegionScan, Rebalance and `ScheduleKept`.
2. Done: cron runs that act on outdated scans, in SpotReplacement.
3. SpotLaunch's outcome as the launch step of SpotReplacement: a price limit of an old
   template as one more reason for `LaunchFails`.
4. Two regions' cron runs in one container, with the metering between them.

---------------------------- MODULE MinOnDemand ----------------------------
(***************************************************************************)
(* How many on-demand instances a group keeps: the minimum that            *)
(* core/autoscaling_configuration.go computes from two tags of the group   *)
(* and two options of the command line, and its use by                     *)
(* needReplaceOnDemandInstances, while the group grows and shrinks.        *)
(*                                                                         *)
(* Instances are counted here, not named: SpotReplacement has the steps of *)
(* a swap, with a constant minimum.  Percentages are integers, for which   *)
(* the source's floating-point computation is exact.                       *)
(***************************************************************************)
EXTENDS Integers

CONSTANTS
  TagNumbers,      \* the values of the tag for the number, or Unset
  TagPercentages,  \* the values of the tag for the percentage, or Unset
  CliNumbers,      \* the values of -min_on_demand_number, 0 when not given
  CliPercentages,  \* the values of -min_on_demand_percentage, 0 when not given
  Unset,           \* the group has no such tag
  MaxSize,         \* the group's MaxSize
  MaxChanges       \* bound on the changes of the group and of its tags

ASSUME SettingsAssumption ==
  /\ TagNumbers \subseteq Int \cup {Unset}
  /\ TagPercentages \subseteq Int \cup {Unset}
  /\ CliNumbers \subseteq Int /\ CliPercentages \subseteq Int
  /\ Unset \notin Int
ASSUME SizeAssumption == MaxSize \in Nat /\ MaxChanges \in Nat

VARIABLES
  tagNumber, tagPercentage, cliNumber, cliPercentage,
  onDemand,     \* the on-demand instances running in the group
  booting,      \* those that are pending
  spots,        \* its spot instances
  minOnDemand,  \* asg.config.MinOnDemand, as last loaded
  pc,           \* the handler has decided to swap an instance, or not
  changes,      \* history: the number of changes so far
  disturbances, \* history: of these, changes of tags and on-demand instances lost
  smallest      \* history: the smallest size the group has had

settings == <<tagNumber, tagPercentage, cliNumber, cliPercentage>>
group == <<onDemand, booting, spots>>
vars == <<settings, group, minOnDemand, pc, changes, disturbances, smallest>>

\* a.instances.count(): every member, running or not.
Count == onDemand + booting + spots

----------------------------------------------------------------------------
\* Mutant: the share is rounded down.
RoundedDown(percentage, n) == (n * percentage) \div 100

\* math.Floor(n * percentage / 100 + .5)
Share(percentage, n) == (2 * n * percentage + 100) \div 200

InRange(percentage) == 0 <= percentage /\ percentage <= 100

\* loadNumberOnDemand and loadPercentageOnDemand accept the tag.
NumberLoads == tagNumber # Unset /\ 0 <= tagNumber /\ tagNumber <= MaxSize
PercentageLoads == tagPercentage # Unset /\ InRange(tagPercentage)

\* Mutant: the range of the number is not checked.
AnyDefaultNumberLoads == cliNumber # 0

\* Mutant: the number must be less than the size of the group.
LesserDefaultNumberLoads == cliNumber > 0 /\ cliNumber < Count

\* loadDefaultConfig: the number, within the present size of the group, or else
\* the percentage.
DefaultNumberLoads == cliNumber > 0 /\ cliNumber <= Count
DefaultConfig ==
  CASE DefaultNumberLoads -> cliNumber
    [] ~DefaultNumberLoads /\ InRange(cliPercentage) -> Share(cliPercentage, Count)
    [] OTHER -> 0

\* Mutant: the value loaded last is taken.
SetMinOnDemand(new, found, current) == new

\* setMinOnDemandIfLarger
SetMinOnDemandIfLarger(new, found, current) ==
  IF ~found \/ new > current THEN new ELSE current

\* loadConfigFromTags, after loadDefaultConfig: the number first, whatever the
\* default, then the percentage.
LoadedMinOnDemand ==
  LET number == IF NumberLoads
                  THEN SetMinOnDemandIfLarger(tagNumber, FALSE, DefaultConfig)
                  ELSE DefaultConfig
  IN IF PercentageLoads
       THEN SetMinOnDemandIfLarger(Share(tagPercentage, Count), NumberLoads, number)
       ELSE number

\* Mutants: the comparison is off by one, either way.
NeedReplaceAtMinimum == onDemand >= minOnDemand'
NeedReplaceAboveNext == onDemand > minOnDemand' + 1

\* needReplaceOnDemandInstances, with an instance that runs to be replaced.
NeedReplaceOnDemandInstances == onDemand > minOnDemand'

----------------------------------------------------------------------------
Init ==
  /\ tagNumber \in TagNumbers /\ tagPercentage \in TagPercentages
  /\ cliNumber \in CliNumbers /\ cliPercentage \in CliPercentages
  /\ onDemand \in 0 .. MaxSize /\ booting = 0 /\ spots = 0
  /\ minOnDemand = 0
  /\ pc = "idle"
  /\ changes = 0 /\ disturbances = 0 /\ smallest = Count

\* The configuration is loaded and a running on-demand instance is chosen
\* (belongsToEnabledASG, asgNeedsReplacement), on the group as it is now.
Evaluate ==
  /\ pc = "idle"
  /\ minOnDemand' = LoadedMinOnDemand
  /\ pc' = IF onDemand > 0 /\ NeedReplaceOnDemandInstances THEN "swap" ELSE "idle"
  /\ UNCHANGED <<settings, group, changes, disturbances, smallest>>

\* The swap ends, long after: the spot instance is in the group and the on-demand
\* instance is not, unless none is left.
Replace ==
  /\ pc = "swap"
  /\ pc' = "idle"
  /\ IF onDemand > 0 THEN onDemand' = onDemand - 1 /\ spots' = spots + 1
                     ELSE UNCHANGED <<onDemand, spots>>
  /\ UNCHANGED <<settings, booting, minOnDemand, changes, disturbances, smallest>>

----------------------------------------------------------------------------
(* The group and its owner.                                                *)

Change == changes < MaxChanges /\ changes' = changes + 1

\* The group launches an on-demand instance.
Launch ==
  /\ Change
  /\ Count < MaxSize
  /\ booting' = booting + 1
  /\ UNCHANGED <<settings, onDemand, spots, minOnDemand, pc, disturbances, smallest>>

Boot ==
  /\ booting > 0
  /\ booting' = booting - 1 /\ onDemand' = onDemand + 1
  /\ UNCHANGED <<settings, spots, minOnDemand, pc, changes, disturbances, smallest>>

Shrink == smallest' = IF Count - 1 < smallest THEN Count - 1 ELSE smallest

\* A spot instance is lost, or scaled in.
LoseSpot ==
  /\ Change
  /\ spots > 0 /\ spots' = spots - 1
  /\ Shrink
  /\ UNCHANGED <<settings, onDemand, booting, minOnDemand, pc, disturbances>>

LoseOnDemand ==
  /\ Change
  /\ onDemand > 0 /\ onDemand' = onDemand - 1
  /\ Shrink
  /\ disturbances' = disturbances + 1
  /\ UNCHANGED <<settings, booting, spots, minOnDemand, pc>>

Retag ==
  /\ Change
  /\ tagNumber' \in TagNumbers /\ tagPercentage' \in TagPercentages
  /\ disturbances' = disturbances + 1
  /\ UNCHANGED <<cliNumber, cliPercentage, group, minOnDemand, pc, smallest>>

Next == Evaluate \/ Replace \/ Launch \/ Boot \/ LoseSpot \/ LoseOnDemand \/ Retag

Spec == Init /\ [][Next]_vars

\* Messages and cron runs keep evaluating the group, swaps end, instances boot.
Fairness == WF_vars(Evaluate) /\ WF_vars(Replace) /\ WF_vars(Boot)

FairSpec == Spec /\ Fairness

----------------------------------------------------------------------------
(* Properties.                                                             *)

TypeOK ==
  /\ tagNumber \in TagNumbers /\ tagPercentage \in TagPercentages
  /\ cliNumber \in CliNumbers /\ cliPercentage \in CliPercentages
  /\ onDemand \in Nat /\ booting \in Nat /\ spots \in Nat
  /\ minOnDemand \in Nat
  /\ pc \in {"idle", "swap"}
  /\ changes \in Nat /\ disturbances \in Nat
  /\ smallest \in Nat

\* The owner has left the tags alone, and no on-demand instance was lost.
Steady == disturbances = 0

\* At least m of the group's instances are on-demand, or all are.
AtLeast(m) == onDemand + booting >= m \/ spots = 0

\* At least the percentage of them is, to the nearest integer.
AtLeastShare(percentage) ==
  200 * (onDemand + booting) > 2 * Count * percentage - 100

\* However the group grows and spot instances come and go while instances are
\* replaced one after the other, each on a decision taken some time before, it
\* keeps the on-demand instances that its tag for the number asks for, without a valid
\* one the tag for the percentage, and without either and without a number on the
\* command line the percentage given there (the priority of START.md:360-370).
MinimumKept ==
  Steady =>
    /\ NumberLoads => AtLeast(tagNumber)
    /\ PercentageLoads /\ ~NumberLoads => AtLeastShare(tagPercentage)
    /\ ~NumberLoads /\ ~PercentageLoads /\ cliNumber <= 0 /\ InRange(cliPercentage)
         => AtLeastShare(cliPercentage)

\* The number of the command line is kept as well, in place of tags, by a group that
\* has never been smaller than that number: one that has may lose all its on-demand
\* instances, as a number beyond its size counts as invalid.
OptionNumberKept ==
  Steady /\ ~NumberLoads /\ ~PercentageLoads /\ 0 < cliNumber /\ cliNumber <= smallest
    => AtLeast(cliNumber)

\* When the group and its tags stop changing, all on-demand instances beyond the
\* minimum are replaced in the end.
AllReplaced == <>[](onDemand <= LoadedMinOnDemand)

\* START.md:356-358: "the percentage will be ignored if autospotting_min_on_demand_number
\* is present and valid", so that in the end no more are left than that number.  Not so:
\* setMinOnDemandIfLarger takes the larger of the two.
PercentageIgnored == <>[](NumberLoads => onDemand <= tagNumber)

=============================================================================

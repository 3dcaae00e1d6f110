--------------------------- MODULE GroupSelection ---------------------------
(***************************************************************************)
(* Which AutoScaling groups the program acts on: the filters of            *)
(* core/region.go, their copy in core/spot_termination.go, and the         *)
(* defaults that core/main.go fills in.                                    *)
(*                                                                         *)
(* A Lambda container starts from the configured options and serves a      *)
(* sequence of events with one Config, which a cron run changes: the       *)
(* selection of a group depends on what the container has served before.   *)
(*                                                                         *)
(* One group stands for all, as each is selected on its own.               *)
(***************************************************************************)
EXTENDS Naturals

CONSTANTS
  Keys, Values,   \* keys and values of tags
  Absent,         \* the value of a tag that a group does not have
  Groups,         \* the groups considered
  Filters,        \* the values of the option tag_filters considered
  Modes           \* the values of the option tag_filtering_mode considered

Globs == Values \cup {"*", "["}   \* patterns: a value, any value, a malformed one
Tag   == [key : Keys, value : Globs]
\* An option is blank, or the set of its parts of the form key=value.
Filter == [blank : BOOLEAN, tags : SUBSET Tag]

Group  == [tags : [Keys -> Values \cup {Absent}], mixed : BOOLEAN,
           stack : {"none", "complete", "updating"}]
Config == [filter : Filter, mode : Modes \cup {"opt-in", "opt-out"}]

ASSUME FilterAssumption ==
  /\ "spot-enabled" \in Keys /\ {"true", "false"} \subseteq Values
  /\ Absent \notin Values /\ Values \cap {"*", "["} = {}
  /\ Filters \subseteq Filter
  /\ \A f \in Filters : f.blank => f.tags = {}
  /\ Modes \subseteq STRING
  /\ Groups \subseteq Group

VARIABLES
  options,  \* the options the function is configured with
  config,   \* the Config of the container
  group,    \* the group
  acted     \* what the last event did to the group

vars == <<options, config, group, acted>>

SpotEnabled(v) == {[key |-> "spot-enabled", value |-> v]}

Init ==
  /\ options \in [filter : Filters, mode : Modes]
  /\ config = options
  /\ group \in Groups
  /\ acted = "nothing"

----------------------------------------------------------------------------
(* The filters.                                                            *)

\* tagsMatch: the pattern is matched as a glob; a malformed one matches nothing.
TagsMatch(value, glob) ==
  value # Absent /\ glob # "[" /\ glob \in {value, "*"}

\* Mutant: one matching tag is enough.
AnyMatchingTag(g, tagsToMatch) ==
  \E t \in tagsToMatch : TagsMatch(g.tags[t.key], t.value)

\* isASGWithMatchingTags: as many tags match as there are.
IsASGWithMatchingTags(g, tagsToMatch) ==
  \A t \in tagsToMatch : TagsMatch(g.tags[t.key], t.value)

OptInFilterMode(mode) == mode # "opt-out"

\* setupAsgFilters, for the cron run and the handlers of launches.
TagsToFilterASGsBy(f) == IF f.tags = {} THEN SpotEnabled("true") ELSE f.tags

\* findMatchingASGsInPageOfResults.
FindMatchingASG(g, c, updating) ==
  /\ ~g.mixed
  /\ OptInFilterMode(c.mode) = IsASGWithMatchingTags(g, TagsToFilterASGsBy(c.filter))
  /\ ~updating

\* IsInAutoSpottingASG, for interruptions: it takes the filters as they are.
IsInAutoSpottingASG(g, c) ==
  OptInFilterMode(c.mode) = IsASGWithMatchingTags(g, c.filter.tags)

\* isStackUpdating: a stack that cannot be described does not count as updating.
IsStackUpdating(g) ==
  IF g.stack = "updating" THEN {TRUE, FALSE} ELSE {FALSE}

\* Mutant: a mode that is neither of the two is left empty.
ModeLeftEmpty(c) ==
  LET mode == IF OptInFilterMode(c.mode) THEN "" ELSE "opt-out" IN
  [mode |-> mode,
   filter |-> IF ~c.filter.blank THEN c.filter
              ELSE [blank |-> FALSE,
                    tags  |-> SpotEnabled(IF mode = "opt-out" THEN "false" ELSE "true")]]

\* addDefaultFilteringMode, then addDefaultFilter.
WithDefaults(c) ==
  LET mode == IF OptInFilterMode(c.mode) THEN "opt-in" ELSE "opt-out" IN
  [mode   |-> mode,
   filter |-> IF ~c.filter.blank THEN c.filter
              ELSE [blank |-> FALSE,
                    tags  |-> SpotEnabled(IF mode = "opt-out" THEN "false" ELSE "true")]]

----------------------------------------------------------------------------
(* The events a container serves.                                          *)

\* An event is answered by a, or by nothing for reasons of its own.
Answer(a) == acted' \in {a, "nothing"}

IsEnabled(c) == \E updating \in IsStackUpdating(group) : FindMatchingASG(group, c, updating)

\* ProcessCronEvent: the defaults are filled in for good, then regions are processed.
ProcessCronEvent ==
  /\ config' = WithDefaults(config)
  /\ Answer(IF IsEnabled(config') THEN "queue" ELSE "nothing")
  /\ UNCHANGED <<options, group>>

\* handleNewInstanceLaunch and handleLifecycleHookEvent: a message is sent, or handled.
HandleNewInstanceLaunch ==
  /\ \E a \in {"queue", "replace"} : Answer(IF IsEnabled(config) THEN a ELSE "nothing")
  /\ UNCHANGED <<options, config, group>>

\* processEventInstance for an interruption or a rebalance recommendation.
HandleTermination ==
  /\ Answer(IF IsInAutoSpottingASG(group, config) THEN "terminate" ELSE "nothing")
  /\ UNCHANGED <<options, config, group>>

\* A new container starts.
ColdStart ==
  /\ config' = options
  /\ acted' = "nothing"
  /\ UNCHANGED <<options, group>>

\* The group is tagged, or otherwise changed.
ChangeGroup ==
  /\ group' \in Groups
  /\ acted' = "nothing"
  /\ UNCHANGED <<options, config>>

Next ==
  \/ ProcessCronEvent \/ HandleNewInstanceLaunch \/ HandleTermination
  \/ ColdStart \/ ChangeGroup

Spec == Init /\ [][Next]_vars

----------------------------------------------------------------------------
(* Properties.                                                             *)

TypeOK ==
  /\ options \in [filter : Filters, mode : Modes]
  /\ config \in Config
  /\ group \in Groups
  /\ acted \in {"nothing", "queue", "replace", "terminate"}

\* The groups that the options ask for: those with all of the tags, or in the opt-out
\* mode the others; the tags default to spot-enabled=true, and to spot-enabled=false in
\* the opt-out mode.
RequestedTags ==
  IF ~options.filter.blank THEN options.filter.tags
  ELSE SpotEnabled(IF options.mode = "opt-out" THEN "false" ELSE "true")
Requested(g) ==
  LET matches == \A t \in RequestedTags : /\ g.tags[t.key] # Absent
                                          /\ t.value = "*" \/ t.value = g.tags[t.key]
  IN matches <=> options.mode # "opt-out"

\* Nothing happens to a group that was not asked for, whatever sequence of events and
\* restarts the container has gone through, as long as it has filters: those of the
\* options, or the default ones once a cron run has filled them in.
OnlyRequestedGroups ==
  acted # "nothing" /\ config.filter.tags # {} => Requested(group)

----------------------------------------------------------------------------
(* What the documentation says of the program.                             *)

\* "If the ASG does not have the required tags, it is not an AutoSpotting ASG and
\* should be left alone" (spot_termination.go:216), by default the tag
\* spot-enabled=true (START.md:333-334).
LeftAlone == acted = "terminate" => Requested(group)
=============================================================================

---------------------------- MODULE MCContainer ----------------------------
(* An instance of Container for TLC: days of three hours, tagged groups and *)
(* one that is not, and schedules with an interval or without.             *)
EXTENDS Container

SpotEnabledTag(v) == [key |-> "spot-enabled", value |-> v]
MCFilters ==
  {[blank |-> TRUE, tags |-> {}],
   [blank |-> FALSE, tags |-> {SpotEnabledTag("*"), SpotEnabledTag("true")}]}

Tagged(v) == [tags |-> [k \in Keys |-> v], mixed |-> FALSE, stack |-> "none"]
MCGroups == {Tagged("true"), [Tagged("false") EXCEPT !.mixed = TRUE],
             [Tagged(Absent) EXCEPT !.stack = "updating"]}

Default == [stable |-> TRUE, BillingOnly |-> FALSE, enabled |-> TRUE, eventBased |-> TRUE,
            rebalance |-> TRUE, SavingsCut |-> 5,
            crontab |-> {0, 1, 2}, timezone |-> 0, state |-> "on"]
MCSetups == {Default,
             [Default EXCEPT !.crontab = {0, 1}, !.timezone = 3, !.state = "off", !.rebalance = FALSE],
             [Default EXCEPT !.stable = FALSE, !.eventBased = FALSE, !.crontab = {1, 2}]}
MCOverrides == {[crontab |-> Unset, timezone |-> Unset, state |-> Unset],
                [crontab |-> {0, 1}, timezone |-> -1, state |-> "on"],
                [crontab |-> Invalid, timezone |-> Unset, state |-> "off"]}
\* A loss that is less than a unit, one that is not, and a gain.
MCSavings == {-10, -30, 100}
=============================================================================

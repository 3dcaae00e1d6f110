--------------------------- MODULE GroupCapacity ----------------------------
(***************************************************************************)
(* What the replacement of its instances promises an AutoScaling group:    *)
(* a newcomer joins the group and its capacity, and then at most one       *)
(* on-demand instance leaves both; whatever else goes wrong in between is   *)
(* a slip.  SpotReplacement implements this.                               *)
(***************************************************************************)
EXTENDS Integers, FiniteSets

CONSTANTS
  OD,       \* the on-demand instances
  Spot,     \* the spot instances
  None      \* no newcomer

VARIABLES
  live,       \* the instances that are launched and not terminated
  members,    \* the group's instances
  capacity,   \* its capacity
  asked,      \* the capacity that the owner or a policy asked for last
  newcomer,   \* the instance that joined, and has not yet been made up for
  slips,      \* how many things went wrong
  disturbed   \* the capacity was changed in the middle of a replacement

vars == <<live, members, capacity, asked, newcomer, slips, disturbed>>

Init ==
  /\ members \subseteq OD /\ live = members
  /\ capacity \in Nat /\ asked = capacity
  /\ newcomer = None
  /\ slips = 0 /\ disturbed = FALSE

\* The owner or a policy changes the capacity, perhaps with an instance of their own.
Disturb == disturbed' \in {disturbed, TRUE} /\ (newcomer # None => disturbed')
Scale ==
  /\ asked' \in Nat /\ capacity' = asked'
  /\ Disturb
  /\ UNCHANGED <<live, members, newcomer, slips>>
OwnerAttaches(s) ==
  /\ members' = members \cup {s}
  /\ asked' = asked + 1 /\ capacity' = capacity + 1
  /\ Disturb
  /\ UNCHANGED <<live, newcomer, slips>>

\* The group keeps to its capacity.
Launch(i) ==
  /\ Cardinality(members) < capacity
  /\ members' = members \cup {i} /\ live' = live \cup {i}
  /\ UNCHANGED <<capacity, asked, newcomer, slips, disturbed>>
ScaleIn(i) ==
  /\ Cardinality(members) > capacity
  /\ members' = members \ {i} /\ live' = live \ {i}
  /\ UNCHANGED <<capacity, asked, newcomer, slips, disturbed>>
Drop(i) ==
  /\ i \notin live
  /\ members' = members \ {i}
  /\ UNCHANGED <<live, capacity, asked, newcomer, slips, disturbed>>

\* Instances come and go outside of the group.
LaunchSpot(s) ==
  /\ live' = live \cup {s}
  /\ slips' \in {slips, slips + 1}
  /\ UNCHANGED <<members, capacity, asked, newcomer, disturbed>>
Die(i) ==
  /\ live' = live \ {i}
  /\ UNCHANGED <<members, capacity, asked, newcomer, slips, disturbed>>

\* The newcomer joins; one that is a member already was attached by someone else.
Join(s) ==
  /\ newcomer = None /\ newcomer' = s
  /\ s \in live \ members
  /\ members' = members \cup {s} /\ capacity' = capacity + 1
  /\ UNCHANGED <<live, asked, slips, disturbed>>
Adopt(s) ==
  /\ newcomer = None /\ newcomer' = s
  /\ s \in members /\ disturbed
  /\ UNCHANGED <<live, members, capacity, asked, slips, disturbed>>

\* An on-demand instance makes room for the newcomer, which is in the group unless it
\* died there.
Retire(o) ==
  /\ newcomer # None /\ newcomer' = None
  /\ newcomer \in members \/ newcomer \notin live
  /\ o \in members /\ members' = members \ {o} /\ live' = live \ {o}
  /\ capacity' = capacity - 1
  /\ UNCHANGED <<asked, slips, disturbed>>

\* Something goes wrong; the replacement may end there.
Slip ==
  /\ slips' = slips + 1
  /\ newcomer' \in {newcomer, None}
  /\ UNCHANGED <<live, members, capacity, asked, disturbed>>

\* The limit of the group is set back, and cuts off what earlier slips have left.
Trim ==
  /\ newcomer = None
  /\ capacity' \in Nat /\ capacity' < capacity
  /\ disturbed \/ asked <= capacity'
  /\ UNCHANGED <<live, members, asked, newcomer, slips, disturbed>>

Next ==
  \/ \E i \in OD \cup Spot : Die(i) \/ Drop(i) \/ ScaleIn(i)
  \/ Scale \/ Slip \/ Trim
  \/ \E o \in OD : Launch(o) \/ Retire(o)
  \/ \E s \in Spot : OwnerAttaches(s) \/ LaunchSpot(s) \/ Join(s) \/ Adopt(s)

Spec == Init /\ [][Next]_vars

----------------------------------------------------------------------------
\* Without a newcomer, the capacity is the one asked for, but for one more for each slip
\* and but for changes in the middle of a replacement.
Band ==
  newcomer = None => /\ capacity <= asked + slips
                     /\ disturbed \/ capacity >= asked
=============================================================================

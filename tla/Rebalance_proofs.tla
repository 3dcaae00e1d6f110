-------------------------- MODULE Rebalance_proofs --------------------------
(***************************************************************************)
(* What SpotReplacement guarantees holds also with the handler of rebalance *)
(* recommendations at work, which takes spot instances out of the group    *)
(* behind the back of the swaps.                                           *)
(***************************************************************************)
EXTENDS Rebalance, SpotReplacement_proofs

\* A step of the composition is one of the swaps', or takes an instance out.
LEMMA ComposedStep ==
  ASSUME [RebalanceNext]_rebalanceVars
  PROVE  \/ [Next]_vars /\ UNCHANGED rebalances
         \/ \E s \in Spot, action \in Actions : ExecuteAction(s, action)
BY DEF RebalanceNext, rebalanceVars

\* What the action does: the instance is out of the group, and runs or is terminated.
LEMMA TakenOut ==
  ASSUME TypeInv, NEW s \in Spot, NEW action \in Actions, ExecuteAction(s, action)
  PROVE  /\ ec2[s] = "running" /\ s \in members /\ members' = members \ {s}
         /\ rebalances < MaxRebalances /\ rebalances' = rebalances + 1
         /\ ec2' \in [Instance -> States]
         /\ ec2'[s] \in {"running", "terminated"}
         /\ \A i \in Instance \ {s} : ec2'[i] = ec2[i]
         /\ UNCHANGED <<target, events, desired, maxSize, suspended, queue, pc, jobVars,
                        cron, histVars>>
BY DEF TypeInv, TypeOK, ExecuteAction, Terminate, Instance, States, Live

----------------------------------------------------------------------------
(* Type correctness, and the invariants of the swaps.  An instance that is  *)
(* taken out only makes the group smaller, and is not an on-demand one.    *)

RebalanceTypeInv == TypeInv /\ rebalances \in 0 .. MaxRebalances

\* The composition starts well typed.
LEMMA RebalanceTypesInitial == RebalanceInit => RebalanceTypeInv
BY InitTypeInv, RebalanceAssumption DEF RebalanceInit, RebalanceTypeInv

\* Its steps keep the types, those of the swaps as they do alone.
LEMMA RebalanceTypesStep ==
  RebalanceTypeInv /\ [RebalanceNext]_rebalanceVars => RebalanceTypeInv'
<1> SUFFICES ASSUME RebalanceTypeInv, [RebalanceNext]_rebalanceVars PROVE RebalanceTypeInv'
  OBVIOUS
<1> USE DEF RebalanceTypeInv
<1>1. CASE [Next]_vars /\ UNCHANGED rebalances
  BY <1>1, NextTypeInv
<1>2. ASSUME NEW s \in Spot, NEW action \in Actions, ExecuteAction(s, action)
      PROVE  RebalanceTypeInv'
  <2>1. TypeOK'
    BY <1>2, TakenOut DEF TypeInv, TypeOK, jobVars, histVars
  <2>2. JobInv'
    BY <1>2, TakenOut DEF TypeInv, JobInv, jobVars
  <2>3. rebalances' \in 0 .. MaxRebalances
    BY <1>2, TakenOut, RebalanceAssumption
  <2> QED
    BY <2>1, <2>2, <2>3 DEF TypeInv
<1> QED
  BY <1>1, <1>2, ComposedStep

\* Taking an instance out disturbs none of the invariants of the swaps.
LEMMA TakenOutKeeps ==
  ASSUME TypeInv, NEW s \in Spot, NEW action \in Actions, ExecuteAction(s, action)
  PROVE  /\ MaxSizeInv => MaxSizeInv'
         /\ CapacityInv => CapacityInv'
         /\ NamedInv => NamedInv'
         /\ CountedInv => CountedInv'
<1> USE DEF jobVars, histVars
<1>1. MaxSizeInv => MaxSizeInv'
  BY TakenOut DEF MaxSizeInv
<1>2. CapacityInv => CapacityInv'
  BY TakenOut DEF CapacityInv, TypeInv, TypeOK
<1>3. ASSUME NEW i \in OD
      PROVE  (ec2[i] \in Born => ec2'[i] \in Born) /\ (ec2[i] \in Dead => ec2'[i] \in Dead)
  BY <1>3, TakenOut, InstanceAssumption DEF Instance
<1>4. NamedInv => NamedInv'
  BY <1>3, TakenOut DEF NamedInv, TypeInv, TypeOK
<1>5. CountedInv => CountedInv'
  BY <1>3, TakenOut DEF CountedInv, TypeInv, TypeOK, JobInv, HoldsOnDemand
<1> QED
  BY <1>1, <1>2, <1>4, <1>5

\* So the swaps keep their invariants in the composition.
SwapsInv == MaxSizeInv /\ CapacityInv /\ NamedInv /\ CountedInv

\* The invariants of the swaps hold initially.
LEMMA SwapsInvInitial == RebalanceInit => SwapsInv
BY InitMaxSizeInv, InitCapacityInv, InitNamedInv, InitCountedInv DEF RebalanceInit, SwapsInv

\* And every step of the composition keeps them.
LEMMA SwapsInvStep ==
  RebalanceTypeInv /\ SwapsInv /\ [RebalanceNext]_rebalanceVars => SwapsInv'
BY ComposedStep, TakenOutKeeps, NextMaxSizeInv, NextCapacityInv, NextNamedInv, NextCountedInv
   DEF RebalanceTypeInv, SwapsInv
----------------------------------------------------------------------------
(* The spare instances.  The handler may know, from its snapshot, instances *)
(* that were taken out since, which it therefore does not take for spare   *)
(* ones: not more than were taken out altogether.                          *)

Overlooked == {s \in Spot \cap snap.members : s \notin members /\ ec2[s] \notin Dead}

OverlookedInv == pc \in {"check", "find"} => Cardinality(Overlooked) <= rebalances

SparesInv == OverlookedInv /\ SparesBounded

\* There are no spare instances to start with.
LEMMA SparesInvInitial == RebalanceInit => SparesInv
<1> SUFFICES ASSUME RebalanceInit PROVE SparesInv
  OBVIOUS
<1>1. Unattached(members) = {} /\ pc = "idle" /\ blindScans = 0 /\ rebalances = 0
  BY DEF RebalanceInit, Init, Unattached
<1> QED
  BY <1>1, FS_EmptySet DEF SparesInv, OverlookedInv, SparesBounded

\* A set of spot instances grows by one instance at most.
LEMMA OneMore ==
  ASSUME NEW S \in SUBSET Spot, NEW T \in SUBSET Spot, NEW s \in Spot, T \subseteq S \cup {s}
  PROVE  Cardinality(T) <= Cardinality(S) + 1
<1>1. IsFiniteSet(S) /\ Cardinality(S) \in Nat /\ Cardinality(T) \in Nat
  BY SparesFinite
<1>2. /\ IsFiniteSet(S \cup {s})
      /\ Cardinality(S \cup {s}) \in {Cardinality(S), Cardinality(S) + 1}
  BY <1>1, FS_AddElement
<1>3. Cardinality(T) <= Cardinality(S \cup {s})
  BY <1>2, FS_Subset
<1> QED
  BY <1>1, <1>2, <1>3

\* The handler of the queue overlooks more instances only as they are taken out.
LEMMA OverlookedStep ==
  ASSUME RebalanceTypeInv, CapacityInv, SparesInv, [RebalanceNext]_rebalanceVars
  PROVE  OverlookedInv'
<1> SUFFICES ASSUME pc' \in {"check", "find"} PROVE Cardinality(Overlooked') <= rebalances'
  BY DEF OverlookedInv
<1> USE DEF RebalanceTypeInv
<1>0. /\ Overlooked \in SUBSET Spot /\ Overlooked' \in SUBSET Spot
      /\ rebalances \in Nat
  BY RebalanceAssumption DEF Overlooked
<1>1. CASE [Next]_vars /\ UNCHANGED rebalances
  <2>1. CASE ReceiveMessage
    <3>1. Overlooked' = {}
      BY <2>1 DEF ReceiveMessage, ThisGroup, NoGroup, Overlooked, asgVars
    <3> QED
      BY <1>0, <1>1, <3>1, FS_EmptySet
  <2>2. CASE ~ReceiveMessage
    <3>1. UNCHANGED snap /\ pc \in {"check", "find"}
      BY <1>1, <2>2, SnapStep DEF DeleteMessage, Crash, ForgetJob
    <3>2. ASSUME NEW s \in Overlooked' PROVE s \in Overlooked
      <4>1. s \in Spot /\ s \in snap.members /\ s \notin members' /\ ec2'[s] \notin Dead
        BY <3>1, <3>2 DEF Overlooked
      <4>2. ec2[s] \notin Dead
        BY <1>1, <4>1, LifeStep DEF Instance
      <4>3. s \notin members
        BY <1>1, <4>1, LeaveStep DEF CapacityInv
      <4> QED
        BY <4>1, <4>2, <4>3 DEF Overlooked
    <3>3. Cardinality(Overlooked') <= Cardinality(Overlooked)
      BY <1>0, <3>2, SparesFinite, FS_Subset
    <3>4. /\ Cardinality(Overlooked) <= rebalances
          /\ Cardinality(Overlooked) \in Nat /\ Cardinality(Overlooked') \in Nat
      BY <1>0, <3>1, SparesFinite DEF SparesInv, OverlookedInv
    <3> QED
      BY <1>0, <1>1, <3>3, <3>4
  <2> QED
    BY <2>1, <2>2
<1>2. ASSUME NEW s \in Spot, NEW action \in Actions, ExecuteAction(s, action)
      PROVE  Cardinality(Overlooked') <= rebalances'
  <2>1. rebalances' = rebalances + 1 /\ pc \in {"check", "find"}
    BY <1>2, TakenOut
  <2>2. Overlooked' \subseteq Overlooked \cup {s}
    BY <1>2, TakenOut DEF Overlooked, Instance, jobVars
  <2>3. Cardinality(Overlooked') <= Cardinality(Overlooked) + 1
    BY <1>0, <2>2, OneMore
  <2>4. /\ Cardinality(Overlooked) <= rebalances
        /\ Cardinality(Overlooked) \in Nat /\ Cardinality(Overlooked') \in Nat
    BY <1>0, <2>1, SparesFinite DEF SparesInv, OverlookedInv
  <2> QED
    BY <1>0, <2>1, <2>3, <2>4
<1> QED
  BY <1>1, <1>2, ComposedStep

\* A launch adds a spare instance: either the scan failed, or the spare ones were all
\* overlooked.  Taking an instance out may add one; nothing else does.
LEMMA SparesBoundedStep ==
  ASSUME RebalanceTypeInv, SparesInv, [RebalanceNext]_rebalanceVars
  PROVE  SparesBounded'
<1> USE DEF RebalanceTypeInv
<1> DEFINE now == Unattached(members)
           then == Unattached(members)'
<1>0. /\ now \in SUBSET Spot /\ then \in SUBSET Spot
      /\ Cardinality(now) \in Nat /\ Cardinality(then) \in Nat
      /\ blindScans \in Nat /\ rebalances \in Nat
      /\ Cardinality(now) <= 1 + blindScans + rebalances
  <2>1. now \in SUBSET Spot /\ then \in SUBSET Spot
    BY DEF Unattached
  <2>2. blindScans \in Nat /\ rebalances \in Nat
    BY RebalanceAssumption DEF TypeInv, TypeOK
  <2> QED
    BY <2>1, <2>2, SparesFinite DEF SparesInv, SparesBounded
<1>1. ASSUME Cardinality(then) <= 1 + blindScans' + rebalances' PROVE SparesBounded'
  BY <1>1 DEF SparesBounded
<1>2. CASE [Next]_vars /\ UNCHANGED rebalances /\ ~LaunchSpotReplacement
  <2>1. then \subseteq now /\ UNCHANGED blindScans
    BY <1>2, SparesStep, BlindStep
  <2>2. Cardinality(then) <= Cardinality(now)
    BY <1>0, <2>1, SparesFinite, FS_Subset
  <2>3. Cardinality(then) <= 1 + blindScans' + rebalances'
    <3> HIDE DEF now, then
    <3> QED
      BY <1>0, <1>2, <2>1, <2>2
  <2> QED
    BY <1>1, <2>3
<1>3. CASE LaunchSpotReplacement /\ UNCHANGED rebalances
  <2>1. PICK s \in Spot : /\ ec2' = [ec2 EXCEPT ![s] = "pending"]
                          /\ target' = [target EXCEPT ![s] = Head(queue).id]
    BY <1>3 DEF LaunchSpotReplacement
  <2>2. then \subseteq now \cup {s}
    BY <1>3, <2>1 DEF LaunchSpotReplacement, Unattached, asgVars, TypeInv, TypeOK, Instance
  <2>3. Cardinality(then) <= Cardinality(now) + 1
    <3> HIDE DEF now, then
    <3> QED
      BY <1>0, <2>2, OneMore
  <2>4. CASE blindScans' = blindScans + 1
    <3>1. Cardinality(then) <= 1 + blindScans' + rebalances'
      <4> HIDE DEF now, then
      <4> QED
        BY <1>0, <1>3, <2>3, <2>4
    <3> QED
      BY <1>1, <3>1
  <2>5. CASE Unattached(snap.members) = {} /\ UNCHANGED blindScans
    <3>1. pc = "find"
      BY <1>3 DEF LaunchSpotReplacement, Step
    <3>2. now \subseteq Overlooked
      BY <2>5 DEF Unattached, Overlooked, Live, Dead
    <3>3. /\ Overlooked \in SUBSET Spot /\ Cardinality(Overlooked) \in Nat
          /\ Cardinality(Overlooked) <= rebalances
      <4>1. Overlooked \in SUBSET Spot
        BY DEF Overlooked
      <4> QED
        BY <3>1, <4>1, SparesFinite DEF SparesInv, OverlookedInv
    <3>4. Cardinality(now) <= Cardinality(Overlooked)
      BY <3>2, <3>3, SparesFinite, FS_Subset
    <3>5. Cardinality(then) <= 1 + blindScans' + rebalances'
      <4> HIDE DEF now, then
      <4> QED
        BY <1>0, <1>3, <2>3, <2>5, <3>3, <3>4
    <3> QED
      BY <1>1, <3>5
  <2> QED
    BY <1>3, <2>4, <2>5 DEF LaunchSpotReplacement
<1>4. ASSUME NEW s \in Spot, NEW action \in Actions, ExecuteAction(s, action)
      PROVE  SparesBounded'
  <2>1. rebalances' = rebalances + 1 /\ UNCHANGED blindScans
    BY <1>4, TakenOut DEF histVars
  <2>2. then \subseteq now \cup {s}
    BY <1>4, TakenOut DEF Unattached, Instance
  <2>3. Cardinality(then) <= Cardinality(now) + 1
    <3> HIDE DEF now, then
    <3> QED
      BY <1>0, <2>2, OneMore
  <2>4. Cardinality(then) <= 1 + blindScans' + rebalances'
    <3> HIDE DEF now, then
    <3> QED
      BY <1>0, <2>1, <2>3
  <2> QED
    BY <1>1, <2>4
<1> QED
  BY <1>2, <1>3, <1>4, ComposedStep

----------------------------------------------------------------------------
RebalanceInv == RebalanceTypeInv /\ SwapsInv /\ SparesInv

\* The invariants of the composition, together.
LEMMA Composed == RebalanceSpec => []RebalanceInv
<1>1. RebalanceInit => RebalanceInv
  BY RebalanceTypesInitial, SwapsInvInitial, SparesInvInitial DEF RebalanceInv
<1>2. RebalanceInv /\ [RebalanceNext]_rebalanceVars => RebalanceInv'
  BY RebalanceTypesStep, SwapsInvStep, OverlookedStep, SparesBoundedStep
     DEF RebalanceInv, SwapsInv, SparesInv
<1> QED
  BY <1>1, <1>2, PTL DEF RebalanceSpec

\* Whatever is taken out of the group, and when: the composition is well typed.
THEOREM RebalanceTypes == RebalanceSpec => []RebalanceTypeOK
<1>1. RebalanceInv => RebalanceTypeOK
  BY DEF RebalanceInv, RebalanceTypeInv, RebalanceTypeOK, TypeInv
<1> QED
  BY <1>1, Composed, PTL

\* Detached instances and launches together leave few spare ones: one, and one more for
\* each rebalance and for each scan that failed.
THEOREM SparesStayFew == RebalanceSpec => []SparesBounded
<1>1. RebalanceInv => SparesBounded
  BY DEF RebalanceInv, SparesInv
<1> QED
  BY <1>1, Composed, PTL

\* Neither action of the rebalance handler changes what the swaps do to the capacity of
\* the group: it stays in the band that they keep it in.
THEOREM RebalancesKeepCapacity == RebalanceSpec => []CapacityBand
<1>1. RebalanceInv => CapacityBand
  BY DEF RebalanceInv, RebalanceTypeInv, TypeInv, TypeOK, SwapsInv, CapacityInv, CapacityBand
<1> QED
  BY <1>1, Composed, PTL

\* Nor do they change what the swaps do to its MaxSize.
THEOREM RebalancesKeepMaxSize == RebalanceSpec => []MaxSizeRatchet
<1>1. RebalanceInv => MaxSizeRatchet
  BY DEF RebalanceInv, SwapsInv, MaxSizeInv, MaxSizeRatchet
<1> QED
  BY <1>1, Composed, PTL

\* And the swaps leave the on-demand instances that are to be kept, unless the handler
\* could describe none of the running members when it counted them.
THEOREM RebalancesKeepMinimum == RebalanceSpec => MinOnDemandKept
<1>1. RebalanceInv /\ [RebalanceNext]_rebalanceVars =>
        [/\ pc = "retire" /\ pc' = "restore"
         /\ od \in RunningOnDemand(members) /\ ec2'[od] = "terminated"
         /\ counted \subseteq RunningOnDemand(members)
         => \/ Cardinality(RunningOnDemand(members)') >= MinOnDemand
            \/ counted = {} /\ missed # {}]_vars
  <2> SUFFICES ASSUME RebalanceInv, [RebalanceNext]_rebalanceVars,
                      pc = "retire", pc' = "restore"
               PROVE  [/\ od \in RunningOnDemand(members) /\ ec2'[od] = "terminated"
                       /\ counted \subseteq RunningOnDemand(members)
                       => \/ Cardinality(RunningOnDemand(members)') >= MinOnDemand
                          \/ counted = {} /\ missed # {}]_vars
    OBVIOUS
  <2>1. [Next]_vars
    BY ComposedStep, TakenOut DEF RebalanceInv, RebalanceTypeInv
  <2> QED
    BY <2>1, MinimumStep DEF RebalanceInv, RebalanceTypeInv, SwapsInv
<1> QED
  BY <1>1, Composed, PTL DEF RebalanceSpec, MinOnDemandKept
=============================================================================

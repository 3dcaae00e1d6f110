------------------------- MODULE MinOnDemand_proofs -------------------------
(***************************************************************************)
(* The minimum of on-demand instances is kept in groups of every size and  *)
(* for every setting.                                                      *)
(***************************************************************************)
EXTENDS MinOnDemand, TLAPS

\* The instances that stay on-demand once the swap under way is done.
Kept == IF pc = "swap" THEN onDemand + booting - 1 ELSE onDemand + booting

\* k instances out of n are enough for the percentage.
KeepsShare(percentage, k, n) == 200 * k > 2 * (n * percentage) - 100

\* smallest is what its name says.
NeverLarger == smallest <= Count

\* The number of the command line has always been valid for the group.
OptionNumberCounts ==
  ~NumberLoads /\ ~PercentageLoads /\ 0 < cliNumber /\ cliNumber <= smallest

(***************************************************************************)
(* MinimumKept is not inductive: a swap that was decided on will be done    *)
(* whatever happens meanwhile, so the instances it leaves must be enough    *)
(* from the decision on, and each launch that raises the share must bring   *)
(* an on-demand instance.  Nor is OptionNumberKept, for the same reason.    *)
(***************************************************************************)
KeptInv ==
  Steady =>
    /\ pc = "swap" => onDemand > 0
    /\ NumberLoads => Kept >= tagNumber \/ (spots = 0 /\ pc = "idle")
    /\ PercentageLoads => KeepsShare(tagPercentage, Kept, Count)
    /\ ~NumberLoads /\ ~PercentageLoads /\ cliNumber <= 0 /\ InRange(cliPercentage)
         => KeepsShare(cliPercentage, Kept, Count)
    /\ OptionNumberCounts => Kept >= cliNumber \/ (spots = 0 /\ pc = "idle")

----------------------------------------------------------------------------
\* Share is the nearest integer: it is never half an instance below the exact
\* value, and it is a number of the group's instances.
LEMMA ShareIsNearest ==
  ASSUME NEW percentage \in Int, NEW n \in Nat, InRange(percentage)
  PROVE  /\ Share(percentage, n) \in Nat
         /\ KeepsShare(percentage, Share(percentage, n), n)
<1> DEFINE m == n * percentage
<1>1. m \in Nat /\ 2 * n * percentage = 2 * m
  BY DEF InRange
<1>2. Share(percentage, n) = (2 * m + 100) \div 200
  BY <1>1 DEF Share
<1> HIDE DEF m
<1>3. (2 * m + 100) \div 200 \in Nat /\ 200 * ((2 * m + 100) \div 200) > 2 * m - 100
  BY <1>1
<1> QED
  BY <1>2, <1>3 DEF KeepsShare, m

\* A percentage of more instances is not less.
LEMMA TimesMonotonic ==
  ASSUME NEW a \in Nat, NEW b \in Nat, NEW p \in Nat, a <= b
  PROVE  a * p <= b * p
<1>1. PICK d \in Nat : b = a + d
  <2>1. b - a \in Nat /\ b = a + (b - a)
    OBVIOUS
  <2> QED
    BY <2>1
<1>2. d * p \in Nat /\ a * p \in Nat
  BY <1>1
<1>3. (a + d) * p = a * p + d * p
  BY <1>1
<1> QED
  BY <1>1, <1>2, <1>3

\* A sum of three numbers is one.
LEMMA SumIsNatural ==
  ASSUME NEW a \in Nat, NEW b \in Nat, NEW c \in Nat
  PROVE  a + b + c \in Nat
OBVIOUS

\* What is kept and what is counted are numbers.
LEMMA CountType ==
  /\ TypeOK => Kept \in Int /\ Count \in Nat
  /\ TypeOK' => Kept' \in Int /\ Count' \in Nat
<1>1. TypeOK => Kept \in Int /\ Count \in Nat
  BY DEF TypeOK, Kept, Count
<1>2. TypeOK' => Kept' \in Int /\ Count' \in Nat
  <2> SUFFICES ASSUME TypeOK' PROVE Kept' \in Int /\ Count' \in Nat
    OBVIOUS
  <2>1. onDemand' \in Nat /\ booting' \in Nat /\ spots' \in Nat
    BY DEF TypeOK
  <2>2. onDemand' + booting' + spots' \in Nat
    BY <2>1, SumIsNatural
  <2>3. onDemand' + booting' \in Int /\ onDemand' + booting' - 1 \in Int
    BY <2>1
  <2>4. Kept' = IF pc' = "swap" THEN onDemand' + booting' - 1 ELSE onDemand' + booting'
    BY DEF Kept
  <2>5. Count' = onDemand' + booting' + spots'
    BY DEF Count
  <2> QED
    BY <2>2, <2>3, <2>4, <2>5
<1> QED
  BY <1>1, <1>2

\* What is loaded is a natural number, no less than the tag for the number, the
\* share of the tag for the percentage and, with neither tag and no number on the
\* command line, the share of the percentage given there.
LEMMA LoadedIsEnough ==
  ASSUME TypeOK
  PROVE  /\ LoadedMinOnDemand \in Nat
         /\ NumberLoads => LoadedMinOnDemand >= tagNumber
         /\ PercentageLoads => LoadedMinOnDemand >= Share(tagPercentage, Count)
         /\ ~NumberLoads /\ ~PercentageLoads /\ cliNumber <= 0
              /\ InRange(cliPercentage)
              => LoadedMinOnDemand = Share(cliPercentage, Count)
         /\ NeverLarger /\ OptionNumberCounts => LoadedMinOnDemand = cliNumber
<1>1. Count \in Nat /\ cliNumber \in Int /\ cliPercentage \in Int
  BY SettingsAssumption DEF TypeOK, Count
<1>2. InRange(cliPercentage) => Share(cliPercentage, Count) \in Nat
  BY <1>1, ShareIsNearest
<1>3. DefaultConfig \in Nat
  BY <1>1, <1>2 DEF DefaultConfig, DefaultNumberLoads
<1>4. NumberLoads => tagNumber \in Nat
  BY SettingsAssumption DEF TypeOK, NumberLoads
<1>5. PercentageLoads => Share(tagPercentage, Count) \in Nat
  <2>1. PercentageLoads => tagPercentage \in Int /\ InRange(tagPercentage)
    BY SettingsAssumption DEF TypeOK, PercentageLoads
  <2> QED
    BY <1>1, <2>1, ShareIsNearest
<1>6. ~NumberLoads /\ ~PercentageLoads => LoadedMinOnDemand = DefaultConfig
  BY DEF LoadedMinOnDemand
<1>7. cliNumber <= 0 /\ InRange(cliPercentage)
        => DefaultConfig = Share(cliPercentage, Count)
  BY <1>1 DEF DefaultConfig, DefaultNumberLoads
<1>8. /\ LoadedMinOnDemand \in Nat
      /\ NumberLoads => LoadedMinOnDemand >= tagNumber
      /\ PercentageLoads => LoadedMinOnDemand >= Share(tagPercentage, Count)
  <2> DEFINE share == Share(tagPercentage, Count)
  <2>1. PercentageLoads => share \in Nat
    BY <1>5
  <2> HIDE DEF share
  <2>2. LoadedMinOnDemand =
          LET number == IF NumberLoads THEN tagNumber ELSE DefaultConfig
          IN IF PercentageLoads
               THEN IF ~NumberLoads \/ share > number THEN share ELSE number
               ELSE number
    BY DEF LoadedMinOnDemand, SetMinOnDemandIfLarger, share
  <2>3. /\ LoadedMinOnDemand \in Nat
        /\ NumberLoads => LoadedMinOnDemand >= tagNumber
        /\ PercentageLoads => LoadedMinOnDemand >= share
    BY <1>3, <1>4, <2>1, <2>2
  <2> QED
    BY <2>3 DEF share
<1>9. NeverLarger /\ OptionNumberCounts => LoadedMinOnDemand = cliNumber
  <2>1. NeverLarger /\ OptionNumberCounts => DefaultNumberLoads
    BY <1>1 DEF NeverLarger, OptionNumberCounts, DefaultNumberLoads, TypeOK
  <2>2. DefaultNumberLoads => DefaultConfig = cliNumber
    BY DEF DefaultConfig
  <2> QED
    BY <1>6, <2>1, <2>2 DEF OptionNumberCounts
<1> QED
  BY <1>6, <1>7, <1>8, <1>9

----------------------------------------------------------------------------

\* The invariant holds initially.
LEMMA InitKeptInv == Init => TypeOK /\ NeverLarger /\ KeptInv
<1> SUFFICES ASSUME Init PROVE TypeOK /\ NeverLarger /\ KeptInv
  OBVIOUS
<1>1. TypeOK
  BY SizeAssumption DEF Init, TypeOK, Count
<1>2. ASSUME NEW p \in Int, InRange(p) PROVE KeepsShare(p, Kept, Count)
  <2>1. Kept = onDemand /\ Count = onDemand /\ onDemand \in Nat
    BY <1>1 DEF Init, Kept, Count, TypeOK
  <2>2. p * onDemand <= 100 * onDemand
    BY <1>2, <2>1, TimesMonotonic DEF InRange
  <2>3. p * onDemand = onDemand * p /\ onDemand * p \in Int
    BY <2>1
  <2> QED
    BY <2>1, <2>2, <2>3 DEF KeepsShare
<1>3. KeptInv
  BY <1>2, SettingsAssumption DEF Init, KeptInv, PercentageLoads
<1>4. NeverLarger
  BY <1>1 DEF Init, NeverLarger, Count, TypeOK
<1> QED
  BY <1>1, <1>3, <1>4

\* Steps that leave the settings alone.
LEMMA SettingsKept ==
  ASSUME UNCHANGED settings
  PROVE  /\ NumberLoads' = NumberLoads
         /\ PercentageLoads' = PercentageLoads
         /\ tagNumber' = tagNumber /\ tagPercentage' = tagPercentage
         /\ cliNumber' = cliNumber /\ cliPercentage' = cliPercentage
BY DEF settings, NumberLoads, PercentageLoads, InRange

\* As many instances kept, of no more, or one more, of one more, are still enough.
LEMMA ShareKept ==
  ASSUME NEW p \in Int, InRange(p),
         NEW k \in Int, NEW n \in Nat, NEW k1 \in Int, NEW n1 \in Nat,
         KeepsShare(p, k, n),
         \/ k1 >= k /\ n1 <= n
         \/ k1 = k + 1 /\ n1 = n + 1
  PROVE  KeepsShare(p, k1, n1)
<1>1. p \in Nat /\ p <= 100
  BY DEF InRange
<1>2. CASE k1 >= k /\ n1 <= n
  <2>1. n1 * p <= n * p
    BY <1>1, <1>2, TimesMonotonic
  <2>2. n1 * p \in Int /\ n * p \in Int
    BY <1>1
  <2> QED
    BY <1>2, <2>1, <2>2 DEF KeepsShare
<1>3. CASE k1 = k + 1 /\ n1 = n + 1
  <2>1. n1 * p = n * p + p
    BY <1>1, <1>3
  <2>2. n * p \in Int
    BY <1>1
  <2> QED
    BY <1>1, <1>3, <2>1, <2>2 DEF KeepsShare
<1> QED
  BY <1>2, <1>3

\* A step that keeps the settings, disturbs nothing, and keeps as many on-demand
\* instances of no more, or adds one, keeps the invariant.
LEMMA StepKeepsInv ==
  ASSUME TypeOK, TypeOK', KeptInv,
         UNCHANGED settings, UNCHANGED disturbances,
         Steady => \/ Kept' >= Kept /\ Count' <= Count
                   \/ Kept' = Kept + 1 /\ Count' = Count + 1,
         Steady => (pc' = "swap" => onDemand' > 0),
         spots = 0 /\ pc = "idle" => spots' = 0 /\ pc' = "idle",
         smallest' <= smallest
  PROVE  KeptInv'
<1> SUFFICES ASSUME Steady' PROVE KeptInv'
  BY DEF KeptInv
<1>1. Steady
  BY DEF Steady
<1>2. PercentageLoads => tagPercentage \in Int /\ InRange(tagPercentage)
  BY SettingsAssumption DEF TypeOK, PercentageLoads
<1>3. cliPercentage \in Int
  BY SettingsAssumption DEF TypeOK
<1>4. NumberLoads => tagNumber \in Nat
  BY SettingsAssumption DEF TypeOK, NumberLoads
<1>5. Kept \in Int /\ Kept' \in Int /\ Count \in Nat /\ Count' \in Nat
  BY CountType
<1>6. ASSUME NEW p \in Int, InRange(p), KeepsShare(p, Kept, Count)
      PROVE  KeepsShare(p, Kept', Count')
  BY <1>1, <1>5, <1>6, ShareKept
<1>7. (NumberLoads => Kept >= tagNumber \/ (spots = 0 /\ pc = "idle"))'
  <2>1. SUFFICES ASSUME NumberLoads
                 PROVE  Kept' >= tagNumber \/ (spots' = 0 /\ pc' = "idle")
    BY SettingsKept
  <2>2. Kept >= tagNumber \/ (spots = 0 /\ pc = "idle")
    BY <1>1, <2>1 DEF KeptInv
  <2>3. Kept' >= Kept
    BY <1>1, <1>5
  <2> QED
    BY <1>4, <1>5, <2>1, <2>2, <2>3
<1>8. (PercentageLoads => KeepsShare(tagPercentage, Kept, Count))'
  <2>1. PercentageLoads => KeepsShare(tagPercentage, Kept', Count')
    BY <1>1, <1>2, <1>6 DEF KeptInv
  <2> QED
    BY <2>1, SettingsKept
<1>9. (~NumberLoads /\ ~PercentageLoads /\ cliNumber <= 0 /\ InRange(cliPercentage)
         => KeepsShare(cliPercentage, Kept, Count))'
  <2>1. ~NumberLoads /\ ~PercentageLoads /\ cliNumber <= 0
          /\ InRange(cliPercentage)
          => KeepsShare(cliPercentage, Kept', Count')
    BY <1>1, <1>3, <1>6 DEF KeptInv
  <2> QED
    BY <2>1, SettingsKept DEF InRange
<1>10. pc' = "swap" => onDemand' > 0
  BY <1>1
<1>11. (OptionNumberCounts => Kept >= cliNumber \/ (spots = 0 /\ pc = "idle"))'
  <2>1. SUFFICES ASSUME OptionNumberCounts'
                 PROVE  Kept' >= cliNumber \/ (spots' = 0 /\ pc' = "idle")
    BY SettingsKept
  <2>2. cliNumber \in Int /\ smallest \in Int /\ smallest' \in Int
    BY SettingsAssumption DEF TypeOK
  <2>3. OptionNumberCounts
    BY <2>1, <2>2, SettingsKept DEF OptionNumberCounts
  <2>4. Kept >= cliNumber \/ (spots = 0 /\ pc = "idle")
    BY <1>1, <2>3 DEF KeptInv
  <2>5. Kept' >= Kept
    BY <1>1, <1>5
  <2> QED
    BY <1>5, <2>2, <2>4, <2>5
<1> QED
  BY <1>7, <1>8, <1>9, <1>10, <1>11 DEF KeptInv

\* No step makes the group smaller than it remembers.
LEMMA NextNeverLarger ==
  ASSUME TypeOK, NeverLarger, [Next]_vars
  PROVE  NeverLarger'
<1> USE DEF TypeOK, NeverLarger, Count
<1>1. CASE Shrink /\ Count' = Count - 1
  <2>1. smallest' <= Count - 1
    BY <1>1 DEF Shrink
  <2> QED
    BY <1>1, <2>1
<1>2. CASE smallest' = smallest /\ Count' \in {Count, Count + 1}
  BY <1>2
<1>3. CASE LoseSpot
  BY <1>1, <1>3 DEF LoseSpot
<1>4. CASE LoseOnDemand
  BY <1>1, <1>4 DEF LoseOnDemand
<1>5. CASE Evaluate
  BY <1>2, <1>5 DEF Evaluate, group
<1>6. CASE Replace
  BY <1>2, <1>6 DEF Replace
<1>7. CASE Launch
  BY <1>2, <1>7 DEF Launch
<1>8. CASE Boot
  BY <1>2, <1>8 DEF Boot
<1>9. CASE Retag
  BY <1>2, <1>9 DEF Retag, group
<1>10. CASE UNCHANGED vars
  BY <1>2, <1>10 DEF vars, group
<1> QED
  BY <1>3, <1>4, <1>5, <1>6, <1>7, <1>8, <1>9, <1>10 DEF Next

\* Each step keeps the invariant: a replacement by the test made before it.
LEMMA NextKeptInv ==
  ASSUME TypeOK, NeverLarger, KeptInv, [Next]_vars
  PROVE  TypeOK' /\ KeptInv'
<1>0. smallest' <= smallest
  BY DEF TypeOK, Next, vars, Evaluate, Replace, Launch, Boot, LoseSpot, LoseOnDemand, Retag, Shrink, Count
<1>1. LoadedMinOnDemand \in Nat
  BY LoadedIsEnough
<1>2. TypeOK'
  <2> USE DEF TypeOK, settings, group, vars, Change
  <2>1. CASE Evaluate
    BY <1>1, <2>1 DEF Evaluate
  <2>2. CASE Replace
    BY <2>2 DEF Replace
  <2>3. CASE Launch
    BY <2>3 DEF Launch
  <2>4. CASE Boot
    BY <2>4 DEF Boot
  <2>5. CASE LoseSpot
    BY <2>5 DEF LoseSpot, Shrink, Count
  <2>6. CASE LoseOnDemand
    BY <2>6 DEF LoseOnDemand, Shrink, Count
  <2>7. CASE Retag
    BY <2>7 DEF Retag
  <2>8. CASE UNCHANGED vars
    BY <2>8
  <2> QED
    BY <2>1, <2>2, <2>3, <2>4, <2>5, <2>6, <2>7, <2>8 DEF Next
<1>3. PercentageLoads => tagPercentage \in Int /\ InRange(tagPercentage)
  BY SettingsAssumption DEF TypeOK, PercentageLoads
<1>4. cliPercentage \in Int /\ cliNumber \in Int
  BY SettingsAssumption DEF TypeOK
<1>5. NumberLoads => tagNumber \in Nat
  BY SettingsAssumption DEF TypeOK, NumberLoads
<1>6. CASE Evaluate
  <2>1. CASE pc' = "swap"
    <3>1. /\ pc = "idle" /\ onDemand > LoadedMinOnDemand /\ onDemand > 0
          /\ UNCHANGED settings /\ UNCHANGED group /\ disturbances' = disturbances
      BY <1>6, <2>1 DEF Evaluate, NeedReplaceOnDemandInstances
    <3>2. Kept' = onDemand + booting - 1 /\ Count' = Count /\ Count \in Nat
      BY <2>1, <3>1 DEF Kept, Count, group, TypeOK
    <3>3. Kept' >= LoadedMinOnDemand /\ Kept' \in Int
      BY <1>1, <3>1, <3>2 DEF TypeOK
    <3>4. ASSUME NEW p \in Int, InRange(p), LoadedMinOnDemand >= Share(p, Count)
          PROVE  KeepsShare(p, Kept', Count')
      <4>1. /\ Share(p, Count) \in Nat
            /\ KeepsShare(p, Share(p, Count), Count)
        BY <3>2, <3>4, ShareIsNearest
      <4>2. Count * p \in Int
        BY <3>2, <3>4
      <4>3. Kept' >= Share(p, Count)
        BY <1>1, <3>3, <3>4, <4>1
      <4> QED
        BY <3>2, <3>3, <4>1, <4>2, <4>3 DEF KeepsShare
    <3>5. NumberLoads => Kept' >= tagNumber
      BY <1>1, <1>5, <3>3, LoadedIsEnough
    <3>6. PercentageLoads => KeepsShare(tagPercentage, Kept', Count')
      BY <1>3, <3>4, LoadedIsEnough
    <3>7. ~NumberLoads /\ ~PercentageLoads /\ cliNumber <= 0 /\ InRange(cliPercentage)
            => KeepsShare(cliPercentage, Kept', Count')
      <4>1. SUFFICES ASSUME ~NumberLoads, ~PercentageLoads, cliNumber <= 0,
                            InRange(cliPercentage)
                     PROVE  LoadedMinOnDemand >= Share(cliPercentage, Count)
        BY <1>4, <3>4
      <4> QED
        BY <1>1, <4>1, LoadedIsEnough
    <3>8. onDemand' > 0
      BY <3>1 DEF group
    <3>9. (NumberLoads => Kept >= tagNumber \/ (spots = 0 /\ pc = "idle"))'
      BY <3>1, <3>5, SettingsKept
    <3>10. (PercentageLoads => KeepsShare(tagPercentage, Kept, Count))'
      BY <3>1, <3>6, SettingsKept
    <3>11. (~NumberLoads /\ ~PercentageLoads /\ cliNumber <= 0
              /\ InRange(cliPercentage) => KeepsShare(cliPercentage, Kept, Count))'
      BY <3>1, <3>7, SettingsKept DEF InRange
    <3>12. (OptionNumberCounts => Kept >= cliNumber \/ (spots = 0 /\ pc = "idle"))'
      <4>1. OptionNumberCounts' => OptionNumberCounts
        BY <1>6, <3>1, SettingsKept DEF Evaluate, OptionNumberCounts
      <4> QED
        BY <1>1, <3>1, <3>3, <4>1, LoadedIsEnough, SettingsKept
    <3> QED
      BY <1>2, <3>8, <3>9, <3>10, <3>11, <3>12 DEF KeptInv
  <2>2. CASE pc' = "idle"
    <3>1. UNCHANGED <<settings, group, pc, disturbances>>
      BY <1>6, <2>2 DEF Evaluate
    <3>2. Kept' = Kept /\ Count' = Count /\ Kept \in Int /\ Count \in Int
      BY <3>1 DEF Kept, Count, group, TypeOK
    <3> QED
      BY <1>0, <1>2, <2>2, <3>1, <3>2, StepKeepsInv DEF group
  <2> QED
    BY <1>6, <2>1, <2>2 DEF Evaluate
<1>7. CASE Replace
  <2>1. Steady => Kept' = Kept /\ Count' = Count /\ Kept \in Int /\ Count \in Int
    BY <1>7 DEF Replace, Kept, Count, TypeOK, KeptInv
  <2> QED
    BY <1>0, <1>2, StepKeepsInv, <1>7, <2>1 DEF Replace
<1>8. CASE Launch
  <2>1. Kept' = Kept + 1 /\ Count' = Count + 1
    BY <1>8 DEF Launch, Kept, Count, TypeOK
  <2> QED
    BY <1>0, <1>2, StepKeepsInv, <1>8, <2>1 DEF Launch, KeptInv, group
<1>9. CASE Boot
  <2>1. Kept' = Kept /\ Count' = Count /\ Kept \in Int /\ Count \in Int
    BY <1>9 DEF Boot, Kept, Count, TypeOK
  <2>2. onDemand' > 0
    BY <1>9 DEF Boot, TypeOK
  <2> QED
    BY <1>0, <1>2, StepKeepsInv, <1>9, <2>1, <2>2 DEF Boot
<1>10. CASE LoseSpot
  <2>1. Kept' = Kept /\ Count' <= Count /\ Kept \in Int
    BY <1>10 DEF LoseSpot, Kept, Count, TypeOK
  <2>2. spots # 0
    BY <1>10 DEF LoseSpot, TypeOK
  <2> QED
    BY <1>0, <1>2, StepKeepsInv, <1>10, <2>1, <2>2 DEF LoseSpot, KeptInv
<1>11. CASE LoseOnDemand
  <2>1. ~Steady'
    BY <1>11 DEF LoseOnDemand, Steady, TypeOK
  <2> QED
    BY <1>2, <2>1 DEF KeptInv
<1>12. CASE Retag
  <2>1. ~Steady'
    BY <1>12 DEF Retag, Steady, TypeOK
  <2> QED
    BY <1>2, <2>1 DEF KeptInv
<1>13. CASE UNCHANGED vars
  <2>1. Kept' = Kept /\ Count' = Count /\ Kept \in Int /\ Count \in Int
    BY <1>13 DEF vars, group, Kept, Count, TypeOK
  <2> QED
    BY <1>0, <1>2, <1>13, <2>1, StepKeepsInv DEF vars, group, KeptInv
<1> QED
  BY <1>2, <1>6, <1>7, <1>8, <1>9, <1>10, <1>11, <1>12, <1>13 DEF Next

\* The invariant implies both promises.
LEMMA KeptInvImplies ==
  ASSUME TypeOK, KeptInv
  PROVE  MinimumKept /\ OptionNumberKept
<1> SUFFICES ASSUME Steady PROVE MinimumKept /\ OptionNumberKept
  BY DEF MinimumKept, OptionNumberKept
<1>1. onDemand + booting >= Kept /\ onDemand + booting \in Int /\ Kept \in Int
  BY DEF Kept, TypeOK
<1>2. NumberLoads => AtLeast(tagNumber)
  BY <1>1, SettingsAssumption DEF KeptInv, AtLeast, NumberLoads, TypeOK
<1>3. ASSUME NEW p \in Int, KeepsShare(p, Kept, Count) PROVE AtLeastShare(p)
  <2>1. Count * p \in Int /\ 2 * Count * p = 2 * (Count * p)
    BY CountType
  <2> QED
    BY <1>1, <1>3, <2>1 DEF KeepsShare, AtLeastShare
<1>4. PercentageLoads => AtLeastShare(tagPercentage)
  BY <1>3, SettingsAssumption DEF KeptInv, PercentageLoads, TypeOK
<1>5. ~NumberLoads /\ ~PercentageLoads /\ cliNumber <= 0 /\ InRange(cliPercentage)
        => AtLeastShare(cliPercentage)
  BY <1>3, SettingsAssumption DEF KeptInv, TypeOK
<1>6. OptionNumberCounts => AtLeast(cliNumber)
  BY <1>1, SettingsAssumption DEF KeptInv, AtLeast, TypeOK
<1> QED
  BY <1>2, <1>4, <1>5, <1>6 DEF MinimumKept, OptionNumberKept, OptionNumberCounts

\* So the invariant holds for all settings and sizes.
LEMMA InvariantHolds == Spec => [](TypeOK /\ NeverLarger /\ KeptInv)
<1>1. Init => TypeOK /\ NeverLarger /\ KeptInv
  BY InitKeptInv
<1>2. TypeOK /\ NeverLarger /\ KeptInv /\ [Next]_vars => (TypeOK /\ NeverLarger /\ KeptInv)'
  BY NextKeptInv, NextNeverLarger
<1> QED
  BY <1>1, <1>2, PTL DEF Spec

\* For all settings and all sizes of the group, the on-demand instances that the
\* settings ask for are kept, however launches, losses of spot instances and
\* replacements follow one another.
THEOREM MinimumIsKept == Spec => []MinimumKept
<1>1. Spec => [](TypeOK /\ NeverLarger /\ KeptInv)
  BY InvariantHolds
<1>2. TypeOK /\ NeverLarger /\ KeptInv => MinimumKept
  BY KeptInvImplies
<1> QED
  BY <1>1, <1>2, PTL

\* For all of them too, so is the number given on the command line, by a group that
\* has never been smaller.
THEOREM OptionNumberIsKept == Spec => []OptionNumberKept
<1>1. Spec => [](TypeOK /\ NeverLarger /\ KeptInv)
  BY InvariantHolds
<1>2. TypeOK /\ NeverLarger /\ KeptInv => OptionNumberKept
  BY KeptInvImplies
<1> QED
  BY <1>1, <1>2, PTL

\* What is counted, loaded and remembered stays in its range.
THEOREM MinOnDemandTypes == Spec => []TypeOK
<1>1. Spec => [](TypeOK /\ NeverLarger /\ KeptInv)
  BY InvariantHolds
<1> QED
  BY <1>1, PTL

=============================================================================

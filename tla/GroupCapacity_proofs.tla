------------------------ MODULE GroupCapacity_proofs ------------------------
(***************************************************************************)
(* A group that is treated as GroupCapacity says keeps the capacity asked  *)
(* for, whatever its size.                                                 *)
(***************************************************************************)
EXTENDS GroupCapacity, TLAPS

\* The newcomer counts for one instance that was not asked for.
BandInv ==
  LET extra == IF newcomer = None THEN 0 ELSE 1 IN
  /\ capacity \in Int /\ asked \in Nat /\ slips \in Nat
  /\ capacity <= asked + slips + extra
  /\ disturbed \/ capacity >= asked + extra

\* The sums that the band is a comparison of.
LEMMA Sums ==
  \A a, b \in Nat : a \in Int /\ a <= a + b + 0 /\ a <= a + b + 1 /\ a >= a + 0
OBVIOUS

\* Every step keeps the capacity in the band.
LEMMA BandStep ==
  ASSUME None \notin Spot, BandInv, [Next]_vars
  PROVE  BandInv'
<1> USE DEF BandInv
<1>1. CASE Scale
  <2>1. asked' \in Nat /\ capacity' = asked' /\ UNCHANGED <<newcomer, slips>>
    BY <1>1 DEF Scale
  <2>2. newcomer # None => disturbed'
    BY <1>1, Zenon DEF Scale, Disturb
  <2>3. slips \in Nat
    OBVIOUS
  <2>4. /\ asked' \in Int /\ asked' <= asked' + slips + 0
        /\ asked' <= asked' + slips + 1 /\ asked' >= asked' + 0
    BY <2>1, <2>3, Sums
  <2>5. CASE newcomer = None
    BY <2>1, <2>3, <2>4, <2>5
  <2>6. CASE newcomer # None
    BY <2>1, <2>2, <2>3, <2>4, <2>6
  <2> QED
    BY <2>5, <2>6
<1>2. CASE Slip
  BY <1>2 DEF Slip
<1>3. CASE Trim
  BY <1>3 DEF Trim
<1>4. CASE \E i \in OD \cup Spot : ScaleIn(i) \/ Drop(i) \/ Die(i)
  BY <1>4 DEF ScaleIn, Drop, Die
<1>5. CASE \E o \in OD : Launch(o) \/ Retire(o)
  BY <1>5 DEF Launch, Retire
<1>6. ASSUME NEW s \in Spot, OwnerAttaches(s) PROVE BandInv'
  <2>1. /\ asked' = asked + 1 /\ capacity' = capacity + 1
        /\ UNCHANGED <<newcomer, slips>>
    BY <1>6 DEF OwnerAttaches
  <2>2. disturbed => disturbed'
    BY <1>6, Zenon DEF OwnerAttaches, Disturb
  <2> QED
    BY <2>1, <2>2
<1>7. CASE \E s \in Spot : LaunchSpot(s) \/ Join(s) \/ Adopt(s)
  BY <1>7 DEF LaunchSpot, Join, Adopt
<1>8. CASE UNCHANGED vars
  BY <1>8 DEF vars
<1> QED
  BY <1>1, <1>2, <1>3, <1>4, <1>5, <1>6, <1>7, <1>8 DEF Next

\* The promise keeps the capacity in its band: what CapacityBand says of the code.
THEOREM BandKept == ASSUME None \notin Spot PROVE Spec => []Band
<1>1. Init => BandInv
  BY DEF Init, BandInv
<1>2. BandInv => Band
  BY DEF BandInv, Band
<1> QED
  BY <1>1, <1>2, BandStep, PTL DEF Spec
=============================================================================

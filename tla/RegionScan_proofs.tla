------------------------- MODULE RegionScan_proofs -------------------------
(***************************************************************************)
(* What the goroutines of a cron run can miss and queue, and that the      *)
(* handler of their messages keeps each group's minimum nevertheless, for  *)
(* any number of groups, members, runs and failures.                       *)
(***************************************************************************)
EXTENDS RegionScan, FiniteSetTheorems, TLAPS

\* What is true of an instance, and what a goroutine may know of it at most.
Kind(i) == IF i \in onDemand THEN "on-demand" ELSE "spot"
Right(k, S) == \A i \in S : k[i] \in {"absent", Kind(i)}

\* The instances of a group that may be queued.
Replaceable(g) == {i \in Actual(g) : ec2[i] = "running" /\ i \in OnDemand}

\* The position of a goroutine, and what it holds at each step.
PlaceInv(g) ==
  /\ pc[g] \in {"describe", "again"} => next[g] \in DOMAIN Listed[g]
  /\ pc[g] = "done" => /\ pass[g] = 1 /\ next[g] = 1 /\ found[g] = Nothing
                       /\ raced[g] = {}
  /\ pc[g] = "recap" => pass[g] = 1
  /\ pc[g] = "recap" \/ pass[g] = 2 => chosen[g] \in Replaceable(g)
  /\ queue[g] \subseteq Replaceable(g)

\* What is in the catalogue, and what a goroutine has found, are instances that are
\* there; on-demand ones were so at first.
CatalogInv ==
  \A i \in Instance : /\ catalog[i] # "absent" => i \in Described
                      /\ catalog[i] = "on-demand" => i \in OnDemand
FoundInv(g) ==
  \A i \in Instance : /\ found[g][i] # "absent" => i \in Actual(g)
                      /\ found[g][i] = "on-demand" => i \in OnDemand

\* A goroutine that nothing disturbed in one of its passes knows nothing wrong.
RightInv(g) ==
  pc[g] # "done" /\ raced[g] # {1, 2}
    => Right(catalog, Members(g)) /\ Right(found[g], Members(g))

\* In a pass that nothing disturbed it has found what it has looked up, and what it
\* has just described is in the catalogue.
CompleteInv(g) ==
  pass[g] \notin raced[g] =>
    /\ pc[g] \in {"scan", "describe", "again"} =>
         \A k \in 1 .. next[g] - 1 :
           Listed[g][k] \in Actual(g) => found[g][Listed[g][k]] # "absent"
    /\ pc[g] = "again" => (Current(g) \in Described => catalog[Current(g)] # "absent")

\* If nothing disturbed its first pass, there is an instance to replace.
NeededInv(g) ==
  (pc[g] = "recap" \/ pass[g] = 2) /\ 1 \notin raced[g]
    => NeedReplaceOnDemandInstances(g, Description(Actual(g)))

ScanInv ==
  /\ TypeOK /\ CatalogInv
  /\ \A g \in Group : PlaceInv(g) /\ FoundInv(g)
RaceInv ==
  \A g \in Group : RightInv(g) /\ CompleteInv(g) /\ NeededInv(g)

----------------------------------------------------------------------------
\* The list of a group is a finite sequence of its members.
LEMMA ListedType ==
  ASSUME NEW g \in Group
  PROVE  /\ Len(Listed[g]) \in Nat
         /\ DOMAIN Listed[g] = 1 .. Len(Listed[g])
         /\ \A k \in 1 .. Len(Listed[g]) : Listed[g][k] \in Instance /\ Listed[g][k] \in Members(g)
         /\ Members(g) \subseteq Instance
<1>1. Listed[g] \in Seq(Instance)
  BY GroupAssumption
<1>2. Len(Listed[g]) \in Nat /\ Listed[g] \in [1 .. Len(Listed[g]) -> Instance]
  BY <1>1
<1> QED
  BY <1>2 DEF Members

\* No step of the cron run or of the handlers changes the state of an instance.
LEMMA NothingBoots == [Next]_vars => UNCHANGED ec2
<1> SUFFICES ASSUME [Next]_vars PROVE UNCHANGED ec2
  OBVIOUS
<1> USE DEF truth
<1>1. CASE ProcessRegion \/ ConcurrentMapWrites
  BY <1>1 DEF ProcessRegion, ConcurrentMapWrites
<1>2. ASSUME NEW g \in Group, Goroutine(g) PROVE UNCHANGED ec2
  BY <1>2 DEF Goroutine, Lookup, Describe, LookupAgain, SkipRun, CronEventAction,
       AppendRecap, SendMessage, ResumeProcesses
<1>3. ASSUME NEW g \in Group, HandleMessage(g) PROVE UNCHANGED ec2
  BY <1>3 DEF HandleMessage
<1>4. CASE UNCHANGED vars
  BY <1>4 DEF vars
<1> QED
  BY <1>1, <1>2, <1>3, <1>4 DEF Next

\* The invariants hold initially.
LEMMA InitScanInv == Init => ScanInv
<1> SUFFICES ASSUME Init PROVE ScanInv
  OBVIOUS
<1>1. TypeOK
  BY ListedType, GroupAssumption DEF Init, TypeOK, Knowledge, Nothing, Steps
<1>2. CatalogInv
  BY DEF Init, CatalogInv, Nothing
<1>3. ASSUME NEW g \in Group PROVE PlaceInv(g) /\ FoundInv(g)
  BY DEF Init, PlaceInv, FoundInv, Nothing
<1> QED
  BY <1>1, <1>2, <1>3 DEF ScanInv
\* One more disturbed pass, or one more member found, is of the type of the others.
Passes == SUBSET {1, 2}

\* The passes that a goroutine has raced in are passes.
LEMMA RacedType ==
  ASSUME TypeOK
  PROVE  /\ raced \in [Group -> Passes]
         /\ \A g \in Group : raced[g] \cup {pass[g]} \in Passes
<1>1. \A g \in Group : raced[g] \in Passes /\ pass[g] \in {1, 2}
  BY DEF TypeOK, Passes
<1> QED
  BY <1>1 DEF TypeOK, Passes

\* What a goroutine finds is knowledge of instances.
LEMMA KeepType ==
  ASSUME TypeOK, NEW g \in Group, Current(g) \in Instance, Keep(g)
  PROVE  found' \in [Group -> Knowledge]
<1> DEFINE Kinds == {"absent", "spot", "on-demand"}
<1>1. found \in [Group -> [Instance -> Kinds]] /\ catalog \in [Instance -> Kinds]
  BY DEF TypeOK, Knowledge
<1>2. found' = found \/ found' = [found EXCEPT ![g][Current(g)] = catalog[Current(g)]]
  BY DEF Keep
<1> HIDE DEF Kinds
<1>3. found' \in [Group -> [Instance -> Kinds]]
  BY <1>1, <1>2
<1> QED
  BY <1>3 DEF Kinds, Knowledge

\* The positions, the catalogue and what is found stay what they are to be.
LEMMA NextScanInv == ScanInv /\ [Next]_vars => ScanInv'
<1> SUFFICES ASSUME ScanInv, [Next]_vars PROVE ScanInv'
  OBVIOUS
<1> USE ListedType
<1>1. TypeOK /\ CatalogInv /\ \A g \in Group : PlaceInv(g) /\ FoundInv(g)
  BY DEF ScanInv
<1>2. CASE ProcessRegion
  <2>1. TypeOK'
    BY <1>1, <1>2 DEF ProcessRegion, TypeOK, Steps, Knowledge, Description, Nothing, truth,
       job, Failure
  <2>2. CatalogInv'
    BY <1>1, <1>2 DEF ProcessRegion, TypeOK, CatalogInv, Description, Nothing, truth,
       Described
  <2>3. ASSUME NEW h \in Group PROVE PlaceInv(h)' /\ FoundInv(h)'
    BY <1>1, <1>2 DEF ProcessRegion, TypeOK, PlaceInv, FoundInv, truth, job, Replaceable,
       Actual, Described
  <2> QED
    BY <2>1, <2>2, <2>3 DEF ScanInv
<1>3. CASE ConcurrentMapWrites
  <2>1. TypeOK'
    BY <1>1, <1>3 DEF ConcurrentMapWrites, TypeOK, Steps, Knowledge, Nothing, truth
  <2>2. CatalogInv'
    BY <1>1, <1>3 DEF ConcurrentMapWrites, CatalogInv, truth, Described
  <2>3. ASSUME NEW h \in Group PROVE PlaceInv(h)' /\ FoundInv(h)'
    BY <1>1, <1>3 DEF ConcurrentMapWrites, TypeOK, PlaceInv, FoundInv, truth, Replaceable,
       Actual, Described, Nothing
  <2> QED
    BY <2>1, <2>2, <2>3 DEF ScanInv
<1>4. ASSUME NEW g \in Group, Lookup(g) PROVE ScanInv'
  <2>1. TypeOK'
    <3>1. next[g] \in 1 .. Len(Listed[g]) /\ Current(g) \in Instance
      BY <1>1, <1>4 DEF Lookup, TypeOK, Current
    <3>2. catalog' \in Knowledge
      BY <1>1, <1>4 DEF Lookup, TypeOK, Knowledge, Nothing
    <3>3. next' = next \/ next' = [next EXCEPT ![g] = @ + 1]
      BY <1>4 DEF Lookup, Keep
    <3>4. next' \in [Group -> Nat] /\ \A h \in Group : next'[h] \in 1 .. Len(Listed[h]) + 1
      <4>1. next[g] + 1 \in Nat /\ next[g] + 1 \in 1 .. Len(Listed[g]) + 1
        BY <3>1
      <4>2. next \in [Group -> Nat] /\ \A h \in Group : next[h] \in 1 .. Len(Listed[h]) + 1
        BY <1>1 DEF TypeOK
      <4> QED
        BY <3>3, <4>1, <4>2
    <3>5. raced' \in [Group -> SUBSET {1, 2}]
      <4>1. raced' = raced \/ raced' = [h \in Group |-> IF h # g /\ pc[h] = "again"
                                                       THEN raced[h] \cup {pass[h]} ELSE raced[h]]
        BY <1>4 DEF Lookup
      <4>2. raced' \in [Group -> Passes]
        BY <1>1, <4>1, RacedType
      <4> QED
        BY <4>2 DEF Passes
    <3>6. found' \in [Group -> Knowledge]
      <4>1. CASE Keep(g)
        BY <1>1, <3>1, <4>1, KeepType
      <4> QED
        BY <1>1, <1>4, <4>1 DEF Lookup, TypeOK
    <3>7. pc' \in [Group -> Steps]
      BY <1>1, <1>4 DEF Lookup, Keep, Goto, TypeOK, Steps
    <3> QED
      BY <1>1, <1>4, <3>2, <3>4, <3>5, <3>6, <3>7 DEF Lookup, TypeOK, truth
  <2>2. CatalogInv'
    BY <1>1, <1>4 DEF Lookup, CatalogInv, truth, Described, Nothing
  <2>3. ASSUME NEW h \in Group PROVE PlaceInv(h)' /\ FoundInv(h)'
    BY <1>1, <1>4 DEF Lookup, Keep, Goto, Current, Known, TypeOK, CatalogInv, PlaceInv,
       FoundInv, truth, Replaceable, Actual, Described, Knowledge
  <2> QED
    BY <2>1, <2>2, <2>3 DEF ScanInv
<1>5. ASSUME NEW g \in Group, Describe(g) PROVE ScanInv'
  <2>1. TypeOK'
    <3>1. Current(g) \in Instance
      BY <1>1, <1>5 DEF Describe, PlaceInv, Current
    <3>2. catalog' \in Knowledge
      BY <1>1, <1>5, <3>1 DEF Describe, TypeOK, Knowledge, Description
    <3>3. raced' \in [Group -> SUBSET {1, 2}] /\ failures' \in Nat
      <4>1. raced' = raced \/ raced' = [raced EXCEPT ![g] = @ \cup {pass[g]}]
        BY <1>5 DEF Describe
      <4>2. raced' \in [Group -> Passes]
        BY <1>1, <4>1, RacedType
      <4> QED
        BY <1>1, <1>5, <4>2 DEF Describe, TypeOK, Failure, Passes
    <3> QED
      BY <1>1, <1>5, <3>2, <3>3 DEF Describe, Goto, TypeOK, Steps, truth, job
  <2>2. CatalogInv'
    BY <1>1, <1>5 DEF Describe, CatalogInv, truth, Described, Description, TypeOK,
       Knowledge, PlaceInv, Current
  <2>3. ASSUME NEW h \in Group PROVE PlaceInv(h)' /\ FoundInv(h)'
    BY <1>1, <1>5 DEF Describe, Goto, TypeOK, PlaceInv, FoundInv, truth, job, Replaceable,
       Actual, Described
  <2> QED
    BY <2>1, <2>2, <2>3 DEF ScanInv
<1>6. ASSUME NEW g \in Group, LookupAgain(g) PROVE ScanInv'
  <2>1. TypeOK'
    <3>1. next[g] \in 1 .. Len(Listed[g]) /\ Current(g) \in Instance
      BY <1>1, <1>6 DEF LookupAgain, PlaceInv, TypeOK, Current
    <3>2. next' \in [Group -> Nat] /\ \A h \in Group : next'[h] \in 1 .. Len(Listed[h]) + 1
      BY <1>1, <1>6, <3>1 DEF LookupAgain, Keep, TypeOK
    <3>3. found' \in [Group -> Knowledge]
      <4>1. CASE Keep(g)
        BY <1>1, <3>1, <4>1, KeepType
      <4> QED
        BY <1>1, <1>6, <4>1 DEF LookupAgain, TypeOK
    <3>4. pc' \in [Group -> Steps]
      BY <1>1, <1>6 DEF LookupAgain, Keep, Goto, TypeOK, Steps
    <3> QED
      BY <1>1, <1>6, <3>2, <3>3, <3>4 DEF LookupAgain, TypeOK, truth
  <2>2. CatalogInv'
    BY <1>1, <1>6 DEF LookupAgain, CatalogInv, truth, Described
  <2>3. ASSUME NEW h \in Group PROVE PlaceInv(h)' /\ FoundInv(h)'
    BY <1>1, <1>6 DEF LookupAgain, Keep, Goto, Current, Known, TypeOK, CatalogInv,
       PlaceInv, FoundInv, truth, Replaceable, Actual, Described, Knowledge
  <2> QED
    BY <2>1, <2>2, <2>3 DEF ScanInv
<1>7. ASSUME NEW g \in Group, SkipRun(g) PROVE ScanInv'
  <2>1. TypeOK' /\ CatalogInv'
    BY <1>1, <1>7 DEF SkipRun, Goto, TypeOK, Steps, truth, job, CatalogInv, Described
  <2>2. ASSUME NEW h \in Group PROVE PlaceInv(h)' /\ FoundInv(h)'
    BY <1>1, <1>7 DEF SkipRun, Goto, TypeOK, PlaceInv, FoundInv, truth, job, Replaceable,
       Actual, Described
  <2> QED
    BY <2>1, <2>2 DEF ScanInv
<1>8. ASSUME NEW g \in Group, CronEventAction(g) PROVE ScanInv'
  <2>1. PICK i \in UnprotectedOnDemandInstances(found[g]) : chosen' = [chosen EXCEPT ![g] = i]
    BY <1>8 DEF CronEventAction
  <2>2. i \in Replaceable(g)
    BY <1>1 DEF UnprotectedOnDemandInstances, RunningOnDemand, Running, Known, FoundInv,
       Replaceable
  <2>3. TypeOK' /\ CatalogInv'
    BY <1>1, <1>8, <2>1, <2>2 DEF CronEventAction, Goto, TypeOK, Steps, truth, CatalogInv,
       Described, Replaceable, Actual
  <2>4. ASSUME NEW h \in Group PROVE PlaceInv(h)' /\ FoundInv(h)'
    BY <1>1, <1>8, <2>1, <2>2 DEF CronEventAction, ScanDone, Goto, TypeOK, PlaceInv,
       FoundInv, truth, Replaceable, Actual, Described
  <2> QED
    BY <2>3, <2>4 DEF ScanInv
<1>9. ASSUME NEW g \in Group, AppendRecap(g) PROVE ScanInv'
  <2>1. TypeOK' /\ CatalogInv'
    BY <1>1, <1>9 DEF AppendRecap, Goto, TypeOK, Steps, Knowledge, Nothing, truth,
       CatalogInv, Described
  <2>2. ASSUME NEW h \in Group PROVE PlaceInv(h)' /\ FoundInv(h)'
    BY <1>1, <1>9 DEF AppendRecap, Goto, TypeOK, PlaceInv, FoundInv, truth, Replaceable,
       Actual, Described, Nothing
  <2> QED
    BY <2>1, <2>2 DEF ScanInv
<1>10. ASSUME NEW g \in Group, SendMessage(g) PROVE ScanInv'
  <2>1. chosen[g] \in Replaceable(g)
    BY <1>1, <1>10 DEF SendMessage, ScanDone, PlaceInv
  <2>2. TypeOK' /\ CatalogInv'
    BY <1>1, <1>10, <2>1 DEF SendMessage, Goto, TypeOK, Steps, truth, job, CatalogInv,
       Described, Replaceable, Actual
  <2>3. ASSUME NEW h \in Group PROVE PlaceInv(h)' /\ FoundInv(h)'
    BY <1>1, <1>10, <2>1 DEF SendMessage, Goto, TypeOK, PlaceInv, FoundInv, truth, job,
       Replaceable, Actual, Described
  <2> QED
    BY <2>2, <2>3 DEF ScanInv
<1>11. ASSUME NEW g \in Group, ResumeProcesses(g) PROVE ScanInv'
  <2>1. TypeOK' /\ CatalogInv'
    BY <1>1, <1>11 DEF ResumeProcesses, Goto, TypeOK, Steps, Knowledge, Nothing, truth,
       CatalogInv, Described
  <2>2. ASSUME NEW h \in Group PROVE PlaceInv(h)' /\ FoundInv(h)'
    BY <1>1, <1>11 DEF ResumeProcesses, Goto, TypeOK, PlaceInv, FoundInv, truth,
       Replaceable, Actual, Described, Nothing
  <2> QED
    BY <2>1, <2>2 DEF ScanInv
<1>12. ASSUME NEW g \in Group, HandleMessage(g) PROVE ScanInv'
  <2>1. TypeOK' /\ CatalogInv'
    <3>1. queue' \in [Group -> SUBSET OnDemand] /\ \A h \in Group : queue'[h] \subseteq Members(h)
      BY <1>1, <1>12 DEF HandleMessage, TypeOK
    <3>2. onDemand' \subseteq OnDemand /\ replaced' \subseteq OnDemand
      BY <1>1, <1>12 DEF HandleMessage, Replace, TypeOK
    <3>3. raced' \in [Group -> SUBSET {1, 2}]
      BY <1>1, <1>12 DEF HandleMessage, Replace, TypeOK
    <3>4. failures' \in Nat
      BY <1>1, <1>12 DEF HandleMessage, Failure, TypeOK
    <3>5. blind' = blind \/ blind' = [blind EXCEPT ![g] = TRUE]
      BY <1>12, Zenon DEF HandleMessage
    <3>6. blind' \in [Group -> BOOLEAN]
      BY <1>1, <3>5 DEF TypeOK
    <3> QED
      BY <1>1, <1>12, <3>1, <3>2, <3>3, <3>4, <3>6
         DEF HandleMessage, TypeOK, job, CatalogInv, Described
  <2>2. ASSUME NEW h \in Group PROVE PlaceInv(h)' /\ FoundInv(h)'
    BY <1>1, <1>12 DEF HandleMessage, Replace, TypeOK, PlaceInv, FoundInv, job,
       Replaceable, Actual, Described
  <2> QED
    BY <2>1, <2>2 DEF ScanInv
<1>13. CASE UNCHANGED vars
  BY <1>1, <1>13 DEF vars, truth, job, ScanInv, TypeOK, CatalogInv, PlaceInv, FoundInv,
     Replaceable, Actual, Described, Current
<1> QED
  BY <1>2, <1>3, <1>4, <1>5, <1>6, <1>7, <1>8, <1>9, <1>10, <1>11, <1>12, <1>13
     DEF Next, Goroutine
----------------------------------------------------------------------------
\* What a group needs depends on the states of its instances only.
LEMMA NeedFrame ==
  ASSUME NEW g \in Group, UNCHANGED ec2,
         \A i \in Members(g) : i \in onDemand' <=> i \in onDemand
  PROVE  /\ Description(Actual(g))' = Description(Actual(g))
         /\ NeedReplaceOnDemandInstances(g, Description(Actual(g)))
              => NeedReplaceOnDemandInstances(g, Description(Actual(g)))'
<1>1. Actual(g)' = Actual(g) /\ Described' = Described /\ Actual(g) \subseteq Members(g)
  BY DEF Actual, Described
<1>2. Description(Actual(g))' = Description(Actual(g))
  BY <1>1 DEF Description
<1> DEFINE k == Description(Actual(g))
<1>3. Running(Known(k))' = Running(Known(k)) /\ RunningOnDemand(k)' = RunningOnDemand(k)
  BY <1>2 DEF Running, Known, RunningOnDemand
<1>4. Known(k)' = Known(k)
  BY <1>2 DEF Known
<1> QED
  BY <1>2, <1>3, <1>4 DEF NeedReplaceOnDemandInstances

\* A goroutine touches nothing of another, but for the catalogue, which may be emptied
\* under one that has just described a member.
LEMMA Apart ==
  ASSUME TypeOK, NEW g \in Group, NEW h \in Group, h # g, Goroutine(g)
  PROVE  /\ pc'[h] = pc[h] /\ pass'[h] = pass[h] /\ next'[h] = next[h]
         /\ found'[h] = found[h]
         /\ \/ raced'[h] = raced[h]
            \/ pc[h] = "again" /\ raced'[h] = raced[h] \cup {pass[h]}
<1> USE DEF TypeOK, job, Goto
<1>1. CASE Lookup(g)
  BY <1>1 DEF Lookup, Keep
<1>2. CASE Describe(g) \/ LookupAgain(g)
  BY <1>2 DEF Describe, LookupAgain, Keep
<1>3. CASE SkipRun(g) \/ CronEventAction(g) \/ AppendRecap(g)
  BY <1>3 DEF SkipRun, CronEventAction, AppendRecap
<1>4. CASE SendMessage(g) \/ ResumeProcesses(g)
  BY <1>4 DEF SendMessage, ResumeProcesses
<1> QED
  BY <1>1, <1>2, <1>3, <1>4 DEF Goroutine

\* Instances are replaced by the handler only.
LEMMA NoSwap ==
  ASSUME NEW g \in Group, Goroutine(g)
  PROVE  UNCHANGED onDemand
BY DEF Goroutine, Lookup, Describe, LookupAgain, SkipRun, CronEventAction, AppendRecap,
   SendMessage, ResumeProcesses, truth

\* What it finds it takes from the catalogue, and what it writes there is true.
LEMMA Learned ==
  ASSUME TypeOK, NEW g \in Group, PlaceInv(g), Goroutine(g), NEW i \in Instance
  PROVE  /\ catalog'[i] \in {catalog[i], "absent", Kind(i)}
         /\ found'[g][i] \in {found[g][i], catalog[i], "absent"}
<1> USE DEF TypeOK, Knowledge, job, truth, Nothing
<1>1. CASE Lookup(g)
  BY <1>1, ListedType DEF Lookup, Keep, Current
<1>2. CASE Describe(g)
  BY <1>2, ListedType DEF Describe, Description, Kind, Current, PlaceInv
<1>3. CASE LookupAgain(g)
  BY <1>3, ListedType DEF LookupAgain, Keep, Current, PlaceInv
<1>4. CASE SkipRun(g) \/ CronEventAction(g) \/ AppendRecap(g)
  BY <1>4 DEF SkipRun, CronEventAction, AppendRecap
<1>5. CASE SendMessage(g) \/ ResumeProcesses(g)
  BY <1>5 DEF SendMessage, ResumeProcesses
<1> QED
  BY <1>1, <1>2, <1>3, <1>4, <1>5 DEF Goroutine

\* A disturbance stays with a goroutine until it ends.
LEMMA RacedGrows ==
  ASSUME TypeOK, NEW g \in Group, Goroutine(g), pc'[g] # "done"
  PROVE  pc[g] # "done" /\ raced[g] \subseteq raced'[g]
<1> USE DEF TypeOK, job, Goto
<1>1. CASE Lookup(g)
  BY <1>1 DEF Lookup, Keep
<1>2. CASE Describe(g) \/ LookupAgain(g)
  BY <1>2 DEF Describe, LookupAgain, Keep
<1>3. CASE SkipRun(g) \/ CronEventAction(g) \/ AppendRecap(g)
  BY <1>3 DEF SkipRun, CronEventAction, AppendRecap, ScanDone
<1>4. CASE SendMessage(g) \/ ResumeProcesses(g)
  BY <1>4 DEF SendMessage, ResumeProcesses, ScanDone
<1> QED
  BY <1>1, <1>2, <1>3, <1>4 DEF Goroutine

\* A goroutine leaves what others have found right.
LEMMA GoroutineRight ==
  ASSUME ScanInv, NEW g \in Group, Goroutine(g), NEW h \in Group, RightInv(h)
  PROVE  RightInv(h)'
<1> SUFFICES ASSUME pc'[h] # "done", raced'[h] # {1, 2}, NEW i \in Members(h)
             PROVE  catalog'[i] \in {"absent", Kind(i)} /\ found'[h][i] \in {"absent",
             Kind(i)}
  <2>1. UNCHANGED onDemand
    BY NoSwap
  <2> QED
    BY <2>1 DEF RightInv, Right, Kind
<1>1. TypeOK /\ PlaceInv(g) /\ i \in Instance /\ raced'[h] \in SUBSET {1, 2}
  <2>1. TypeOK'
    BY NextScanInv DEF Next, ScanInv
  <2> QED
    BY <2>1, ListedType DEF ScanInv, TypeOK
<1>2. pc[h] # "done" /\ raced[h] \subseteq raced'[h]
  BY <1>1, Apart, RacedGrows
<1>3. raced[h] # {1, 2}
  BY <1>1, <1>2
<1>4. catalog[i] \in {"absent", Kind(i)} /\ found[h][i] \in {"absent", Kind(i)}
  BY <1>2, <1>3 DEF RightInv, Right
<1> QED
  BY <1>1, <1>4, Learned, Apart
\* A goroutine that takes an instance out of the catalogue disturbs all those that have
\* just described one.
LEMMA CatalogKept ==
  ASSUME TypeOK, CatalogInv, NEW g \in Group, PlaceInv(g), Goroutine(g),
         NEW h \in Group, h # g,
         pc[h] = "again", NEW i \in Instance, catalog[i] # "absent"
  PROVE  catalog'[i] # "absent" \/ pass[h] \in raced'[h]
<1>1. CASE Lookup(g)
  BY <1>1 DEF Lookup, TypeOK
<1>2. CASE Describe(g)
  <2>1. Current(g) \in Instance /\ pass[h] \in {1, 2}
    BY <1>2, ListedType DEF Describe, Current, PlaceInv, TypeOK
  <2>2. catalog'[i] # "absent" \/ i = Current(g)
    BY <1>2, <2>1 DEF Describe, TypeOK, Knowledge
  <2> QED
    BY <1>2, <2>1, <2>2, ListedType DEF Describe, TypeOK, Knowledge, Description, CatalogInv
<1>3. CASE LookupAgain(g)
  BY <1>3 DEF LookupAgain
<1>4. CASE SkipRun(g) \/ CronEventAction(g) \/ AppendRecap(g)
  BY <1>4 DEF SkipRun, CronEventAction, AppendRecap
<1>5. CASE SendMessage(g) \/ ResumeProcesses(g)
  BY <1>5 DEF SendMessage, ResumeProcesses
<1> QED
  BY <1>1, <1>2, <1>3, <1>4, <1>5 DEF Goroutine

\* What an undisturbed pass has found is exactly what there is.
LEMMA FoundAll ==
  ASSUME ScanInv, NEW g \in Group, RightInv(g), CompleteInv(g),
         ScanDone(g, pass[g]), pass[g] \notin raced[g]
  PROVE  Known(found[g]) = Actual(g) /\ found[g] = Description(Actual(g))
<1>1. TypeOK /\ FoundInv(g)
  BY DEF ScanInv
<1>2. found[g] \in Knowledge /\ Actual(g) \subseteq Members(g) /\ Actual(g) \subseteq Described
  BY <1>1 DEF TypeOK, Actual
<1>3. ASSUME NEW i \in Actual(g) PROVE i \in Instance /\ found[g][i] # "absent"
  <2>1. PICK k \in 1 .. Len(Listed[g]) : Listed[g][k] = i
    BY <1>2, ListedType DEF Members
  <2>2. next[g] \in Nat /\ next[g] > Len(Listed[g]) /\ Len(Listed[g]) \in Nat
    BY <1>1, ListedType DEF ScanDone, TypeOK
  <2>3. k \in 1 .. next[g] - 1
    BY <2>1, <2>2
  <2> QED
    BY <1>2, <2>1, <2>3, ListedType DEF CompleteInv, ScanDone
<1>4. Known(found[g]) = Actual(g)
  BY <1>1, <1>3 DEF Known, FoundInv
<1>5. ASSUME NEW i \in Instance PROVE found[g][i] = Description(Actual(g))[i]
  <2>1. raced[g] # {1, 2} /\ pc[g] # "done"
    BY <1>1 DEF TypeOK, ScanDone
  <2>2. CASE i \in Actual(g)
    BY <1>2, <1>3, <2>1, <2>2 DEF RightInv, Right, Kind, Description
  <2>3. CASE i \notin Actual(g)
    BY <1>1, <2>3 DEF FoundInv, Description
  <2> QED
    BY <2>2, <2>3
<1> QED
  BY <1>2, <1>4, <1>5 DEF Knowledge, Description

\* A goroutine leaves what others have found complete.
LEMMA GoroutineComplete ==
  ASSUME ScanInv, NEW g \in Group, Goroutine(g), NEW h \in Group, CompleteInv(h)
  PROVE  CompleteInv(h)'
<1>1. TypeOK /\ PlaceInv(g) /\ PlaceInv(h) /\ CatalogInv
  BY DEF ScanInv
<1>2. UNCHANGED ec2 /\ Actual(h)' = Actual(h) /\ Described' = Described
  BY NothingBoots DEF Actual, Described, Next
<1> USE ListedType
<1>3. CASE h # g
  <2>1. /\ pc'[h] = pc[h] /\ pass'[h] = pass[h] /\ next'[h] = next[h] /\ found'[h] = found[h]
        /\ raced'[h] = raced[h] \/ (pc[h] = "again" /\ pass[h] \in raced'[h])
    BY <1>1, <1>3, Apart
  <2>2. CASE pc[h] = "again"
    <3>1. Current(h)' = Current(h) /\ Current(h) \in Instance
      BY <1>1, <2>1, <2>2 DEF Current, PlaceInv
    <3>2. catalog[Current(h)] # "absent" => catalog'[Current(h)] # "absent" \/ pass[h] \in raced'[h]
      BY <1>1, <1>3, <2>2, <3>1, CatalogKept
    <3> QED
      BY <1>2, <2>1, <2>2, <3>1, <3>2 DEF CompleteInv
  <2>3. CASE pc[h] # "again"
    BY <1>2, <2>1, <2>3 DEF CompleteInv
  <2> QED
    BY <2>2, <2>3
<1>4. CASE h = g
  <2>1. CASE Lookup(g)
    <3>1. next[g] \in 1 .. Len(Listed[g]) /\ Current(g) \in Instance /\ pc[g] = "scan"
      BY <1>1, <2>1 DEF Lookup, Current, TypeOK
    <3>2. CASE Current(g) \in Known(catalog)
      <4>1. pass'[g] = pass[g] /\ raced'[g] = raced[g] /\ pc'[g] = "scan" /\ next'[g] = next[g] + 1
        BY <1>1, <2>1, <3>2 DEF Lookup, Keep, Goto, TypeOK
      <4>2. \A i \in Instance : found[g][i] # "absent" => found'[g][i] # "absent"
        BY <1>1, <2>1, <3>1, <3>2 DEF Lookup, Keep, TypeOK, Knowledge, Known
      <4>3. Current(g) \in Actual(g) => found'[g][Current(g)] # "absent"
        BY <1>1, <2>1, <3>1, <3>2 DEF Lookup, Keep, TypeOK, Knowledge, Known, Actual
      <4>4. ASSUME pass[g] \notin raced[g], NEW k \in 1 .. next'[g] - 1, Listed[g][k] \in Actual(g)
            PROVE  found'[g][Listed[g][k]] # "absent"
        <5>1. k \in 1 .. Len(Listed[g]) /\ Listed[g][k] \in Instance
          BY <3>1, <4>1
        <5>2. k = next[g] \/ k \in 1 .. next[g] - 1
          BY <3>1, <4>1
        <5> QED
          BY <1>4, <3>1, <4>2, <4>3, <4>4, <5>1, <5>2 DEF CompleteInv, Current
      <4> QED
        BY <1>2, <1>4, <4>1, <4>4 DEF CompleteInv
    <3>3. CASE Current(g) \notin Known(catalog)
      <4>1. pass'[g] = pass[g] /\ raced'[g] = raced[g] /\ pc'[g] = "describe"
            /\ next'[g] = next[g] /\ found'[g] = found[g]
        BY <1>1, <2>1, <3>3 DEF Lookup, Goto, TypeOK
      <4> QED
        BY <1>2, <1>4, <3>1, <4>1 DEF CompleteInv
    <3> QED
      BY <3>2, <3>3
  <2>2. CASE Describe(g)
    BY <1>1, <1>2, <1>4, <2>2
       DEF Describe, Goto, Current, CompleteInv, PlaceInv, TypeOK, Knowledge, Description,
       job
  <2>3. CASE LookupAgain(g)
    BY <1>1, <1>2, <1>4, <2>3
       DEF LookupAgain, Keep, Goto, Current, CompleteInv, PlaceInv, TypeOK, Knowledge,
       Known, Actual
  <2>4. CASE AppendRecap(g)
    BY <1>1, <1>4, <2>4 DEF AppendRecap, Goto, CompleteInv, TypeOK
  <2>5. CASE SkipRun(g) \/ CronEventAction(g) \/ SendMessage(g) \/ ResumeProcesses(g)
    BY <1>1, <1>4, <2>5 DEF SkipRun, CronEventAction, SendMessage, ResumeProcesses, Goto,
       CompleteInv, TypeOK
  <2> QED
    BY <2>1, <2>2, <2>3, <2>4, <2>5 DEF Goroutine
<1> QED
  BY <1>3, <1>4

\* A need to replace that a goroutine found is not undone by a goroutine.
LEMMA GoroutineNeeded ==
  ASSUME ScanInv, NEW g \in Group, Goroutine(g), NEW h \in Group,
         RightInv(h), CompleteInv(h), NeededInv(h)
  PROVE  NeededInv(h)'
<1>1. TypeOK /\ PlaceInv(g)
  BY DEF ScanInv
<1>2. NeedReplaceOnDemandInstances(h, Description(Actual(h)))
        => NeedReplaceOnDemandInstances(h, Description(Actual(h)))'
  BY NothingBoots, NoSwap, NeedFrame DEF Next
<1>3. CASE h # g
  <2>1. pc'[h] = pc[h] /\ pass'[h] = pass[h] /\ raced[h] \subseteq raced'[h]
    BY <1>1, <1>3, Apart
  <2> QED
    BY <1>2, <2>1 DEF NeededInv
<1>4. CASE h = g /\ CronEventAction(g)
  <2>1. ScanDone(g, 1) /\ NeedReplaceOnDemandInstances(g, found[g])
    BY <1>4 DEF CronEventAction
  <2>2. UNCHANGED raced
    BY <1>4 DEF CronEventAction
  <2>3. 1 \notin raced[g] => found[g] = Description(Actual(g))
    BY <2>1, <1>4, FoundAll DEF ScanDone
  <2> QED
    BY <1>2, <1>4, <2>1, <2>2, <2>3 DEF NeededInv
<1>5. CASE h = g /\ ~CronEventAction(g)
  <2>1. CASE pc'[g] = "done"
    BY <1>1, <1>5, <2>1, ListedType DEF NeededInv, Goroutine, ResumeProcesses, Lookup,
       Describe,
       LookupAgain, SkipRun, AppendRecap, SendMessage, Keep, Goto, TypeOK
  <2>2. CASE pc'[g] # "done"
    <3>1. raced[g] \subseteq raced'[g]
      BY <1>1, <2>2, RacedGrows
    <3>2. pc'[g] = "recap" \/ pass'[g] = 2 => pc[g] = "recap" \/ pass[g] = 2
      BY <1>1, <1>5, <2>2 DEF Goroutine, ResumeProcesses, Lookup, Describe,
         LookupAgain, SkipRun, AppendRecap, SendMessage, Keep, Goto, TypeOK, job
    <3> QED
      BY <1>2, <1>5, <3>1, <3>2 DEF NeededInv
  <2> QED
    BY <2>1, <2>2
<1> QED
  BY <1>3, <1>4, <1>5
\* A replacement is a disturbance of the group's own goroutine, and of no other.
LEMMA HandlerRaces ==
  ASSUME ScanInv, NEW g \in Group, HandleMessage(g), NEW h \in Group,
         RightInv(h), CompleteInv(h), NeededInv(h)
  PROVE  RightInv(h)' /\ CompleteInv(h)' /\ NeededInv(h)'
<1>1. TypeOK /\ PlaceInv(g) /\ PlaceInv(h)
  BY DEF ScanInv
<1>2. UNCHANGED <<ec2, catalog, pc, pass, next, found>>
  BY DEF HandleMessage, job
<1>3. Actual(h)' = Actual(h) /\ Described' = Described /\ Current(h)' = Current(h)
  BY <1>2 DEF Actual, Described, Current
<1>4. CASE UNCHANGED <<onDemand, raced>>
  <2>1. NeedReplaceOnDemandInstances(h, Description(Actual(h)))
          => NeedReplaceOnDemandInstances(h, Description(Actual(h)))'
    BY <1>2, <1>4, NeedFrame
  <2> QED
    BY <1>2, <1>3, <1>4, <2>1 DEF RightInv, Right, Kind, CompleteInv, NeededInv
<1>5. ASSUME NEW i \in queue[g], Replace(g, i)
      PROVE  RightInv(h)' /\ CompleteInv(h)' /\ NeededInv(h)'
  <2>1. i \in Members(g)
    BY <1>1 DEF TypeOK
  <2>2. CASE h = g
    <3>1. pc[h] = "done" \/ raced'[h] = {1, 2}
      BY <1>1, <1>5, <2>2 DEF Replace, TypeOK
    <3> QED
      BY <1>1, <1>2, <3>1 DEF RightInv, CompleteInv, NeededInv, PlaceInv, TypeOK
  <2>3. CASE h # g
    <3>1. raced'[h] = raced[h] /\ \A j \in Members(h) : j \in onDemand' <=> j \in onDemand
      BY <1>1, <1>5, <2>1, <2>3, GroupAssumption DEF Replace, TypeOK
    <3>2. NeedReplaceOnDemandInstances(h, Description(Actual(h)))
            => NeedReplaceOnDemandInstances(h, Description(Actual(h)))'
      BY <1>2, <3>1, NeedFrame
    <3> QED
      BY <1>2, <1>3, <3>1, <3>2 DEF RightInv, Right, Kind, CompleteInv, NeededInv
  <2> QED
    BY <2>2, <2>3
<1> QED
  BY <1>4, <1>5 DEF HandleMessage

\* Nothing is found and nothing raced for initially.
LEMMA InitRaceInv == Init => RaceInv
BY DEF Init, RaceInv, RightInv, CompleteInv, NeededInv

\* No goroutine knows anything wrong but by what was counted as a disturbance: the
\* others' emptying the catalogue, a failed call or a replacement.
LEMMA NextRaceInv == ScanInv /\ RaceInv /\ [Next]_vars => RaceInv'
<1> SUFFICES ASSUME ScanInv, RaceInv, [Next]_vars, NEW h \in Group
             PROVE  RightInv(h)' /\ CompleteInv(h)' /\ NeededInv(h)'
  BY DEF RaceInv
<1>1. TypeOK /\ PlaceInv(h) /\ RightInv(h) /\ CompleteInv(h) /\ NeededInv(h)
  BY DEF ScanInv, RaceInv
<1>2. CASE ProcessRegion
  <2>1. pass'[h] = 1 /\ next'[h] = 1 /\ found'[h] = Nothing /\ raced'[h] = {} /\ pc'[h] = "scan"
    BY <1>1, <1>2 DEF ProcessRegion, PlaceInv, TypeOK, job
  <2>2. RightInv(h)'
    BY <1>1, <1>2, <2>1, ListedType
       DEF ProcessRegion, RightInv, Right, Kind, Description, Nothing, truth
  <2> QED
    BY <2>1, <2>2 DEF CompleteInv, NeededInv
<1>3. CASE ConcurrentMapWrites
  <2>1. pc'[h] = "done" /\ pass'[h] = 1
    BY <1>3 DEF ConcurrentMapWrites
  <2> QED
    BY <2>1 DEF RightInv, CompleteInv, NeededInv
<1>4. ASSUME NEW g \in Group, Goroutine(g)
      PROVE  RightInv(h)' /\ CompleteInv(h)' /\ NeededInv(h)'
  BY <1>1, <1>4, GoroutineRight, GoroutineComplete, GoroutineNeeded
<1>5. ASSUME NEW g \in Group, HandleMessage(g)
      PROVE  RightInv(h)' /\ CompleteInv(h)' /\ NeededInv(h)'
  BY <1>1, <1>5, HandlerRaces
<1>6. CASE UNCHANGED vars
  <2>1. UNCHANGED <<ec2, onDemand, catalog, pc, pass, next, found, raced>>
    BY <1>6 DEF vars, truth, job
  <2>2. NeedReplaceOnDemandInstances(h, Description(Actual(h)))
          => NeedReplaceOnDemandInstances(h, Description(Actual(h)))'
    BY <2>1, NeedFrame
  <2> QED
    BY <1>1, <2>1, <2>2 DEF RightInv, Right, Kind, CompleteInv, NeededInv, Current, Actual,
       Described
<1> QED
  BY <1>2, <1>3, <1>4, <1>5, <1>6 DEF Next

----------------------------------------------------------------------------

\* The invariants of the scan hold in every run.
LEMMA ScanInvariant == Spec => [](ScanInv /\ RaceInv)
<1>1. Spec => []ScanInv
  BY InitScanInv, NextScanInv, PTL DEF Spec
<1> QED
  BY <1>1, InitRaceInv, NextRaceInv, PTL DEF Spec

\* The state of the cron run and of the handlers is always of its type: what is queued
\* are on-demand members of their group.
THEOREM ScanTypes == Spec => []TypeOK
BY ScanInvariant, PTL DEF ScanInv

\* A pass of a goroutine misses no member unless it was disturbed between the
\* description of one and its second look-up, or a call failed.
THEOREM MissesOnlyIfRaced == Spec => []MissedOnlyIfRaced
<1>1. ScanInv /\ RaceInv => MissedOnlyIfRaced
  BY FoundAll DEF MissedOnlyIfRaced, RaceInv
<1> QED
  BY <1>1, ScanInvariant, PTL

\* The messages that the minimum of the group does not allow come of two disturbed
\* passes only.
LEMMA QueuedStep ==
  ASSUME ScanInv, RaceInv, [Next]_vars, NEW g \in Group,
         queue'[g] \ queue[g] # {}, raced[g] # {1, 2}
  PROVE  NeedReplaceOnDemandInstances(g, Description(Actual(g)))
<1>1. TypeOK /\ PlaceInv(g) /\ RightInv(g) /\ CompleteInv(g) /\ NeededInv(g)
  BY DEF ScanInv, RaceInv
<1>2. SendMessage(g)
  <2> USE <1>1 DEF TypeOK
  <2>1. ~ProcessRegion /\ ~ConcurrentMapWrites /\ ~UNCHANGED vars
    BY DEF ProcessRegion, ConcurrentMapWrites, vars
  <2>2. ASSUME NEW h \in Group, HandleMessage(h) PROVE FALSE
    BY <2>2 DEF HandleMessage
  <2>3. ASSUME NEW h \in Group, Goroutine(h), ~SendMessage(g) PROVE FALSE
    BY <2>3 DEF Goroutine, Lookup, Describe, LookupAgain, SkipRun, CronEventAction,
       AppendRecap,
       SendMessage, ResumeProcesses
  <2> QED
    BY <2>1, <2>2, <2>3 DEF Next
<1>3. pass[g] = 2 /\ ScanDone(g, pass[g])
  BY <1>2 DEF SendMessage, ScanDone
<1>4. CASE 1 \notin raced[g]
  BY <1>1, <1>3, <1>4 DEF NeededInv
<1>5. CASE 2 \notin raced[g]
  <2>1. found[g] = Description(Actual(g))
    BY <1>1, <1>3, <1>5, FoundAll
  <2>2. NeedReplaceOnDemandInstances(g, found[g])
    BY <1>1, <1>2 DEF SendMessage, TypeOK
  <2> QED
    BY <2>1, <2>2
<1> QED
  BY <1>1, <1>4, <1>5 DEF TypeOK

\* Whatever the other goroutines and runs do: unless both of its passes were raced, a
\* cron run queues an instance only of a group that has more on-demand ones than it keeps.
THEOREM QueuesRightly == Spec => QueuedRightly
<1>1. ScanInv /\ RaceInv /\ [Next]_vars
        => \A g \in Group : queue'[g] \ queue[g] # {} /\ raced[g] # {1, 2}
             => NeedReplaceOnDemandInstances(g, Description(Actual(g)))
  BY QueuedStep
<1> QED
  BY <1>1, ScanInvariant, PTL DEF Spec, QueuedRightly
(***************************************************************************)
(* The minimum of a group.                                                 *)
(***************************************************************************)

\* The minimum is a number, whatever the settings.
LEMMA MinimumType ==
  ASSUME NEW g \in Group, NEW size \in Nat
  PROVE  Minimum(g, size)!LoadedMinOnDemand \in Int
<1> DEFINE s == Setting[g]
<1>1. /\ s.tagNumber \in Int \cup {Unset} /\ s.tagPercentage \in Int \cup {Unset}
      /\ s.cliNumber \in Int /\ s.cliPercentage \in Int
  BY SettingAssumption
<1>2. \A percentage \in Int, n \in Int : (2 * n * percentage + 100) \div 200 \in Int
  OBVIOUS
<1>3. Minimum(g, size)!Count \in Int
  BY DEF Minimum!Count
<1>4. Minimum(g, size)!DefaultConfig \in Int
  BY <1>1, <1>2, <1>3 DEF Minimum!DefaultConfig, Minimum!Share
<1> QED
  BY <1>1, <1>2, <1>3, <1>4
     DEF Minimum!LoadedMinOnDemand, Minimum!NumberLoads, Minimum!PercentageLoads,
         Minimum!SetMinOnDemandIfLarger, Minimum!Share

\* A group has finitely many members.
LEMMA MembersFinite ==
  ASSUME NEW g \in Group
  PROVE  IsFiniteSet(Members(g))
<1>1. IsFiniteSet(1 .. Len(Listed[g])) /\ DOMAIN Listed[g] = 1 .. Len(Listed[g])
  BY ListedType, FS_Interval
<1>2. Listed[g] \in [1 .. Len(Listed[g]) -> Members(g)]
  <2>1. Listed[g] \in Seq(Instance)
    BY GroupAssumption
  <2> QED
    BY <2>1, ListedType
<1>3. Listed[g] \in Surjection(1 .. Len(Listed[g]), Members(g))
  BY <1>1, <1>2 DEF Members, Surjection
<1> QED
  BY <1>1, <1>3, FS_Surjection

\* The running on-demand instances that a group has, among all its members.
Kept(g) == {i \in Actual(g) \cap onDemand : ec2[i] = "running"}

\* Somebody who describes all of a group counts what there is.
LEMMA KeptCount ==
  ASSUME NEW g \in Group
  PROVE  /\ Known(Description(Actual(g))) = Actual(g)
         /\ RunningOnDemand(Description(Actual(g))) = Kept(g)
         /\ IsFiniteSet(Kept(g)) /\ Cardinality(Kept(g)) \in Nat
         /\ IsFiniteSet(Actual(g)) /\ Cardinality(Actual(g)) \in Nat
<1>1. Known(Description(Actual(g))) = Actual(g)
  BY ListedType DEF Known, Description, Actual
<1>2. RunningOnDemand(Description(Actual(g))) = Kept(g)
  BY <1>1, ListedType DEF RunningOnDemand, Running, Description, Kept, Actual
<1>3. Kept(g) \in SUBSET Members(g) /\ Actual(g) \in SUBSET Members(g)
  BY DEF Kept, Actual
<1> QED
  BY <1>1, <1>2, <1>3, MembersFinite, FS_Subset, FS_CardinalityType

\* A replacement leaves the minimum, as its handler finds all that there is.
LEMMA ReplaceKeeps ==
  ASSUME ScanInv, NEW g \in Group, NEW i \in queue[g], i \in onDemand, Replace(g, i),
         UNCHANGED ec2, NeedReplaceOnDemandInstances(g, Description(Actual(g)))
  PROVE  Cardinality(Kept(g)') >= Minimum(g, Cardinality(Actual(g)))!LoadedMinOnDemand
<1> DEFINE minimum == Minimum(g, Cardinality(Actual(g)))!LoadedMinOnDemand
<1>1. i \in Kept(g) /\ i \in Running(Actual(g))
  BY DEF ScanInv, PlaceInv, Replaceable, Kept, Running
<1>2. Cardinality(Kept(g)) > minimum
  BY <1>1, KeptCount DEF NeedReplaceOnDemandInstances
<1>3. Kept(g)' = Kept(g) \ {i}
  BY DEF Replace, Kept, Actual, Described
<1>4. Cardinality(Kept(g)') = Cardinality(Kept(g)) - 1
  BY <1>1, <1>3, KeptCount, FS_RemoveElement
<1>5. minimum \in Int /\ Cardinality(Kept(g)) \in Nat
  BY KeptCount, MinimumType
<1> HIDE DEF minimum
<1>6. Cardinality(Kept(g)') >= minimum
  BY <1>2, <1>4, <1>5
<1> QED
  BY <1>6 DEF minimum

\* As long as a group's handlers have described all of it, what they replaced leaves the
\* minimum that the group's settings give for its size.
MinimumInv(g) ==
  Members(g) \cap replaced # {} /\ ~blind[g]
    => Cardinality(Kept(g)) >= Minimum(g, Cardinality(Actual(g)))!LoadedMinOnDemand

\* Nothing is replaced initially.
LEMMA InitMinimumInv == Init => \A g \in Group : MinimumInv(g)
BY DEF Init, MinimumInv

\* Every step keeps the minimum: a replacement by the test its handler has made.
LEMMA NextMinimumInv ==
  ASSUME ScanInv, [Next]_vars, NEW h \in Group, MinimumInv(h)
  PROVE  MinimumInv(h)'
<1>1. UNCHANGED ec2 /\ Actual(h)' = Actual(h)
  BY NothingBoots DEF Actual, Described
<1>2. CASE UNCHANGED <<onDemand, replaced, blind>>
  BY <1>1, <1>2 DEF MinimumInv, Kept
<1>3. ASSUME NEW g \in Group, HandleMessage(g) PROVE MinimumInv(h)'
  <2>1. PICK i \in queue[g], missed \in {{}} \cup {{j} : j \in Actual(g)} :
          /\ IF missed = {} THEN UNCHANGED <<failures, blind>>
                            ELSE Failure /\ blind' = [blind EXCEPT ![g] = TRUE]
          /\ IF /\ i \in onDemand
                /\ NeedReplaceOnDemandInstances(g, Description(Actual(g) \ missed))
               THEN Replace(g, i)
               ELSE UNCHANGED <<onDemand, replaced, raced>>
    BY <1>3 DEF HandleMessage
  <2>2. i \in Members(g) /\ blind \in [Group -> BOOLEAN]
    BY DEF ScanInv, TypeOK
  <2>3. CASE h # g
    <3>1. blind'[h] = blind[h]
      BY <2>1, <2>2, <2>3
    <3>2. Kept(h)' = Kept(h) /\ Members(h) \cap replaced' = Members(h) \cap replaced
      BY <1>1, <2>1, <2>2, <2>3, GroupAssumption DEF Replace, Kept, Actual
    <3> QED
      BY <1>1, <3>1, <3>2 DEF MinimumInv
  <2>4. CASE h = g /\ missed # {}
    <3>1. blind'[g]
      BY <2>1, <2>2, <2>4
    <3> QED
      BY <2>4, <3>1 DEF MinimumInv
  <2>5. CASE h = g /\ missed = {}
    <3>1. UNCHANGED blind
      BY <2>1, <2>5
    <3>2. Actual(g) \ missed = Actual(g)
      BY <2>5
    <3>3. CASE i \in onDemand /\ NeedReplaceOnDemandInstances(g, Description(Actual(g)))
      BY <1>1, <2>1, <2>5, <3>2, <3>3, ReplaceKeeps DEF MinimumInv
    <3>4. CASE ~(i \in onDemand /\ NeedReplaceOnDemandInstances(g, Description(Actual(g))))
      BY <1>2, <2>1, <3>1, <3>2, <3>4
    <3> QED
      BY <3>3, <3>4
  <2> QED
    BY <2>3, <2>4, <2>5
<1>4. ASSUME NEW g \in Group, Goroutine(g) PROVE MinimumInv(h)'
  <2>1. UNCHANGED <<replaced, blind>>
    BY <1>4 DEF Goroutine, Lookup, Describe, LookupAgain, SkipRun, CronEventAction,
       AppendRecap,
       SendMessage, ResumeProcesses
  <2> QED
    BY <1>2, <1>4, <2>1, NoSwap
<1>5. CASE ProcessRegion \/ ConcurrentMapWrites \/ UNCHANGED vars
  BY <1>2, <1>5 DEF ProcessRegion, ConcurrentMapWrites, vars, truth
<1> QED
  BY <1>3, <1>4, <1>5 DEF Next

\* Whatever is queued, and however often: no group is left with fewer on-demand instances
\* than its settings ask for, if the handlers of its messages could describe its members.
THEOREM HandlerKeepsMinimum == Spec => []MinimumKeptByHandler
<1>1. Spec => []ScanInv
  BY ScanInvariant, PTL
<1>2. ScanInv /\ (\A g \in Group : MinimumInv(g)) /\ [Next]_vars => (\A g \in Group : MinimumInv(g))'
  BY NextMinimumInv
<1>3. (\A g \in Group : MinimumInv(g)) => MinimumKeptByHandler
  BY KeptCount DEF MinimumInv, MinimumKeptByHandler
<1> QED
  BY <1>1, <1>2, <1>3, InitMinimumInv, PTL DEF Spec
=============================================================================

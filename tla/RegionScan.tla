----------------------------- MODULE RegionScan -----------------------------
(***************************************************************************)
(* The cron run in one region, and the handler of the messages it sends.   *)
(*                                                                         *)
(* processEnabledAutoScalingGroups starts a goroutine per enabled group.   *)
(* The goroutines share the region's catalogue of instances, and each of   *)
(* them replaces it as a whole whenever it looks up a member that is not   *)
(* there (scanInstance), so that one group's search empties the catalogue  *)
(* under the others.  A goroutine scans its group twice: to choose an      *)
(* instance, and again before it queues a message for it.                  *)
(*                                                                         *)
(* Instances keep their EC2 state here (SpotReplacement has them change);  *)
(* a swap puts a spot instance in the place of an on-demand one under the  *)
(* same name.                                                              *)
(***************************************************************************)
EXTENDS Integers, Sequences, FiniteSets

CONSTANTS
  Group,        \* the enabled groups of the region
  Instance,     \* their instances
  OnDemand,     \* those that are on-demand at first
  InitialEc2,   \* the EC2 states the instances may be in
  Listed,       \* for each group, its instances in the order of its description
  Leaving,      \* the instances in a lifecycle state Terminating
  Protected,    \* the instances protected from termination or scale-in
  Setting,      \* for each group, its settings of the minimum
  NoInstance,   \* a nil instance
  Unset,        \* the group has no such tag
  MaxSize,      \* the MaxSize of the groups
  MaxRuns,      \* bound on the cron runs
  MaxFailures   \* bound on the calls that fail

Members(g) == {Listed[g][k] : k \in DOMAIN Listed[g]}

ASSUME GroupAssumption ==
  /\ Listed \in [Group -> Seq(Instance)]
  /\ \A g, h \in Group : g # h => Members(g) \cap Members(h) = {}
  /\ NoInstance \notin Instance
  /\ InitialEc2 \subseteq [Instance -> {"running", "pending", "stopped", "gone"}]
  /\ OnDemand \cup Leaving \cup Protected \subseteq Instance
  /\ MaxRuns \in Nat /\ MaxFailures \in Nat
ASSUME SettingAssumption ==
  /\ Unset \notin Int
  /\ \A g \in Group :
       /\ Setting[g].tagNumber \in Int \cup {Unset}
       /\ Setting[g].tagPercentage \in Int \cup {Unset}
       /\ Setting[g].cliNumber \in Int /\ Setting[g].cliPercentage \in Int

VARIABLES
  ec2,        \* the EC2 state of each instance, "stopped" standing for any other
  onDemand,   \* the instances that are on-demand
  catalog,    \* r.instances, shared by the goroutines: what is known of each instance
  pc,         \* the step of each group's goroutine
  pass,       \* it scans its group for the first or the second time
  next,       \* the position in the group of the member it looks up
  found,      \* a.instances, what it has found of each member
  chosen,     \* the instance it will queue a message for
  queue,      \* the messages of each group in the FIFO queue
  runs,       \* history: the number of cron runs started
  failures,   \* history: the number of calls that failed
  blind,      \* history: a description failed in a handler of the group's messages
  raced,      \* history: the passes of each goroutine that something disturbed
  replaced    \* history: the instances replaced

truth == <<ec2, onDemand>>
job   == <<pass, next, found, chosen>>
vars  == <<truth, catalog, pc, job, queue, runs, failures, blind, raced, replaced>>

Steps     == {"scan", "describe", "again", "recap", "resume", "done"}
Knowledge == [Instance -> {"absent", "spot", "on-demand"}]
Nothing   == [i \in Instance |-> "absent"]

Described  == {i \in Instance : ec2[i] # "gone"}
Running(S) == {i \in S : ec2[i] = "running"}

\* What DescribeInstances reports of the instances in S, and what k is about.
Description(S) == [i \in Instance |->
  IF i \notin S \cap Described THEN "absent"
  ELSE IF i \in onDemand THEN "on-demand" ELSE "spot"]
Known(k) == {i \in Instance : k[i] # "absent"}

\* The members of a group that a scan ought to find.
Actual(g) == (Members(g) \cap Described) \ Leaving

----------------------------------------------------------------------------
\* The minimum for a group of a size, as loadDefaultConfig and loadConfigFromTags
\* compute it.
Minimum(g, size) == INSTANCE MinOnDemand WITH
  TagNumbers <- {}, TagPercentages <- {}, CliNumbers <- {}, CliPercentages <- {},
  MaxChanges <- 0,
  tagNumber <- Setting[g].tagNumber, tagPercentage <- Setting[g].tagPercentage,
  cliNumber <- Setting[g].cliNumber, cliPercentage <- Setting[g].cliPercentage,
  onDemand <- size, booting <- 0, spots <- 0, minOnDemand <- 0, pc <- "idle",
  changes <- 0, disturbances <- 0, smallest <- size

RunningOnDemand(k) == {i \in Running(Known(k)) : k[i] = "on-demand"}

\* needReplaceOnDemandInstances, on what is known of the group.
NeedReplaceOnDemandInstances(g, k) ==
  \/ Running(Known(k)) = {}
  \/ Cardinality(RunningOnDemand(k)) >
       Minimum(g, Cardinality(Known(k)))!LoadedMinOnDemand

\* Mutant: spot instances are not left out.
AnyUnprotectedInstances(k) == Running(Known(k)) \ Protected

\* getAnyUnprotectedOnDemandInstance: any, in the order of a map.
UnprotectedOnDemandInstances(k) == RunningOnDemand(k) \ Protected

\* A call may fail, within the bound.
Failure == failures < MaxFailures /\ failures' = failures + 1

Goto(g, step) == pc' = [pc EXCEPT ![g] = step]

\* It has looked up all members, in this pass.
ScanDone(g, p) == pc[g] = "scan" /\ next[g] > Len(Listed[g]) /\ pass[g] = p

Current(g) == Listed[g][next[g]]

----------------------------------------------------------------------------
Init ==
  /\ ec2 \in InitialEc2
  /\ onDemand = OnDemand
  /\ catalog = Nothing
  /\ pc = [g \in Group |-> "done"]
  /\ pass = [g \in Group |-> 1] /\ next = [g \in Group |-> 1]
  /\ found = [g \in Group |-> Nothing] /\ chosen = [g \in Group |-> NoInstance]
  /\ raced = [g \in Group |-> {}]
  /\ queue = [g \in Group |-> {}]
  /\ runs = 0 /\ failures = 0
  /\ blind = [g \in Group |-> FALSE]
  /\ replaced = {}

\* processRegion: the catalogue is filled with the instances that run or boot, with
\* none if they cannot be described, and a goroutine is started for each group.
ProcessRegion ==
  /\ \A g \in Group : pc[g] = "done"
  /\ runs < MaxRuns /\ runs' = runs + 1
  /\ \/ /\ catalog' = Description({i \in Instance : ec2[i] \in {"running", "pending"}})
        /\ UNCHANGED failures
     \/ catalog' = Nothing /\ Failure
  /\ pc' = [g \in Group |-> "scan"]
  /\ UNCHANGED <<truth, job, raced, queue, blind, replaced>>

\* A member that is there joins a.instances, unless it is leaving the group.
Keep(g) ==
  /\ found' = IF Current(g) \in Leaving THEN found
              ELSE [found EXCEPT ![g][Current(g)] = catalog[Current(g)]]
  /\ next' = [next EXCEPT ![g] = @ + 1]
  /\ Goto(g, "scan")

\* scanInstances looks a member up; when it is missing, scanInstance replaces the
\* catalogue by an empty one.
Lookup(g) ==
  /\ pc[g] = "scan" /\ next[g] <= Len(Listed[g])
  /\ IF Current(g) \in Known(catalog)
       THEN Keep(g) /\ UNCHANGED <<catalog, raced>>
       ELSE /\ catalog' = Nothing
            /\ raced' = [h \in Group |-> IF h # g /\ pc[h] = "again"
                                           THEN raced[h] \cup {pass[h]} ELSE raced[h]]
            /\ Goto(g, "describe")
            /\ UNCHANGED <<next, found>>
  /\ UNCHANGED <<truth, pass, chosen, queue, runs, failures, blind, replaced>>

\* scanInstance adds the instance to what is the catalogue by then; its error is
\* ignored.
Describe(g) ==
  /\ pc[g] = "describe"
  /\ Goto(g, "again")
  /\ \/ /\ catalog' = [catalog EXCEPT ![Current(g)] = Description({Current(g)})[Current(g)]]
        /\ UNCHANGED <<failures, raced>>
     \/ /\ Failure
        /\ raced' = [raced EXCEPT ![g] = @ \cup {pass[g]}]
        /\ UNCHANGED catalog
  /\ UNCHANGED <<truth, job, queue, runs, blind, replaced>>

\* Mutants: the second look-up is left out, or the scan repeated until it succeeds.
NotLookedUpAgain(g) ==
  /\ pc[g] = "again"
  /\ next' = [next EXCEPT ![g] = @ + 1] /\ Goto(g, "scan")
  /\ UNCHANGED <<truth, catalog, pass, found, chosen, queue, runs, failures, blind, raced, replaced>>
RetriedUntilFound(g) ==
  /\ pc[g] = "again"
  /\ IF Current(g) \in Known(catalog) THEN Keep(g) ELSE Goto(g, "describe") /\ UNCHANGED <<next, found>>
  /\ UNCHANGED <<truth, catalog, pass, chosen, queue, runs, failures, blind, raced, replaced>>

\* The member is looked up again, and left out if it is still missing.
LookupAgain(g) ==
  /\ pc[g] = "again"
  /\ IF Current(g) \in Known(catalog)
       THEN Keep(g)
       ELSE next' = [next EXCEPT ![g] = @ + 1] /\ Goto(g, "scan") /\ UNCHANGED found
  /\ UNCHANGED <<truth, catalog, pass, chosen, queue, runs, failures, blind, raced, replaced>>

\* cronEventAction, within the group's schedule: nothing to replace, or an instance.
SkipRun(g) ==
  /\ ScanDone(g, 1)
  /\ \/ ~NeedReplaceOnDemandInstances(g, found[g])
     \/ UnprotectedOnDemandInstances(found[g]) = {}
  /\ Goto(g, "resume")
  /\ UNCHANGED <<truth, catalog, job, queue, runs, failures, blind, raced, replaced>>

CronEventAction(g) ==
  /\ ScanDone(g, 1)
  /\ NeedReplaceOnDemandInstances(g, found[g])
  /\ \E i \in UnprotectedOnDemandInstances(found[g]) : chosen' = [chosen EXCEPT ![g] = i]
  /\ Goto(g, "recap")
  /\ UNCHANGED <<truth, catalog, pass, next, found, queue, runs, failures, blind, raced, replaced>>

\* It appends a line to FinalRecap; then belongsToEnabledASG scans the group anew.
AppendRecap(g) ==
  /\ pc[g] = "recap"
  /\ pass' = [pass EXCEPT ![g] = 2] /\ next' = [next EXCEPT ![g] = 1]
  /\ found' = [found EXCEPT ![g] = Nothing]
  /\ Goto(g, "scan")
  /\ UNCHANGED <<truth, catalog, chosen, queue, runs, failures, blind, raced, replaced>>

\* FinalRecap is a map that nothing protects: two goroutines that write it at once
\* may end the invocation.
ConcurrentMapWrites ==
  /\ \E g, h \in Group : g # h /\ pc[g] = "recap" /\ pc[h] = "recap"
  /\ pc' = [g \in Group |-> "done"]
  /\ pass' = [g \in Group |-> 1] /\ next' = [g \in Group |-> 1]
  /\ found' = [g \in Group |-> Nothing] /\ chosen' = [g \in Group |-> NoInstance]
  /\ raced' = [g \in Group |-> {}]
  /\ UNCHANGED <<truth, catalog, queue, runs, failures, blind, replaced>>

\* Mutant: the message is sent without the second look at the minimum.
SentUnchecked(g) ==
  /\ ScanDone(g, 2)
  /\ Goto(g, "resume")
  /\ queue' = [queue EXCEPT ![g] = @ \cup {chosen[g]}]
  /\ UNCHANGED <<truth, catalog, job, runs, failures, blind, raced, replaced>>

\* handleNewOnDemandInstanceLaunch: the message is sent if the instance should still
\* be replaced.
SendMessage(g) ==
  /\ ScanDone(g, 2)
  /\ Goto(g, "resume")
  /\ queue' = IF NeedReplaceOnDemandInstances(g, found[g])
                THEN [queue EXCEPT ![g] = @ \cup {chosen[g]}] ELSE queue
  /\ UNCHANGED <<truth, catalog, job, runs, failures, blind, raced, replaced>>

\* The group's processes are resumed, and the goroutine ends.
ResumeProcesses(g) ==
  /\ pc[g] = "resume"
  /\ Goto(g, "done")
  /\ pass' = [pass EXCEPT ![g] = 1] /\ next' = [next EXCEPT ![g] = 1]
  /\ found' = [found EXCEPT ![g] = Nothing] /\ chosen' = [chosen EXCEPT ![g] = NoInstance]
  /\ raced' = [raced EXCEPT ![g] = {}]
  /\ UNCHANGED <<truth, catalog, queue, runs, failures, blind, replaced>>

\* The swap of i in the group g; what its goroutine may know of i is out of date.
Replace(g, i) ==
  /\ onDemand' = onDemand \ {i}
  /\ replaced' = replaced \cup {i}
  /\ raced' = [raced EXCEPT ![g] = IF pc[g] = "done" THEN {} ELSE {1, 2}]

\* Mutant: the handler relies on the sender's check.
HandledUnchecked(g) ==
  \E i \in queue[g] :
    /\ queue' = [queue EXCEPT ![g] = @ \ {i}]
    /\ IF i \in onDemand THEN Replace(g, i) ELSE UNCHANGED <<onDemand, replaced, raced>>
    /\ UNCHANGED <<ec2, catalog, pc, job, runs, failures, blind>>

\* The handler of a message, which has a catalogue of its own and scans the group in
\* its only thread: it finds all members, but those it fails to describe.
HandleMessage(g) ==
  \E i \in queue[g], missed \in {{}} \cup {{j} : j \in Actual(g)} :
    /\ queue' = [queue EXCEPT ![g] = @ \ {i}]
    /\ IF missed = {} THEN UNCHANGED <<failures, blind>>
                      ELSE Failure /\ blind' = [blind EXCEPT ![g] = TRUE]
    /\ IF /\ i \in onDemand
          /\ NeedReplaceOnDemandInstances(g, Description(Actual(g) \ missed))
         THEN Replace(g, i)
         ELSE UNCHANGED <<onDemand, replaced, raced>>
    /\ UNCHANGED <<ec2, catalog, pc, job, runs>>

Goroutine(g) ==
  \/ Lookup(g) \/ Describe(g) \/ LookupAgain(g)
  \/ SkipRun(g) \/ CronEventAction(g) \/ AppendRecap(g) \/ SendMessage(g)
  \/ ResumeProcesses(g)

Next ==
  \/ ProcessRegion \/ ConcurrentMapWrites
  \/ \E g \in Group : Goroutine(g) \/ HandleMessage(g)

Spec == Init /\ [][Next]_vars

\* Goroutines are scheduled; nothing else is assumed.
FairSpec == Spec /\ \A g \in Group : WF_vars(Goroutine(g))

----------------------------------------------------------------------------
(* Properties.                                                             *)

TypeOK ==
  /\ ec2 \in InitialEc2 /\ onDemand \subseteq OnDemand
  /\ catalog \in Knowledge /\ found \in [Group -> Knowledge]
  /\ pc \in [Group -> Steps]
  /\ pass \in [Group -> {1, 2}]
  /\ next \in [Group -> Nat] /\ \A g \in Group : next[g] \in 1 .. Len(Listed[g]) + 1
  /\ chosen \in [Group -> Instance \cup {NoInstance}]
  /\ queue \in [Group -> SUBSET OnDemand] /\ \A g \in Group : queue[g] \subseteq Members(g)
  /\ runs \in Nat /\ failures \in Nat
  /\ blind \in [Group -> BOOLEAN] /\ raced \in [Group -> SUBSET {1, 2}]
  /\ replaced \subseteq OnDemand

\* However often the goroutines empty the catalogue under each other, one that has
\* scanned its group misses none of its members, unless another emptied it just
\* between the description of a member and its second look-up, or a call failed.
MissedOnlyIfRaced ==
  \A g \in Group :
    ScanDone(g, pass[g]) /\ pass[g] \notin raced[g]
      => Known(found[g]) = Actual(g)

\* A message that the minimum does not allow is sent only if both scans were
\* disturbed: one that was complete is enough to prevent it.
QueuedRightly ==
  [][\A g \in Group :
       queue'[g] \ queue[g] # {} /\ raced[g] # {1, 2}
         => NeedReplaceOnDemandInstances(g, Description(Actual(g)))]_vars

\* Whatever the goroutines got wrong and queued, over several runs: no group is left
\* with fewer running on-demand instances than its settings ask for, unless a
\* description failed in the very handler of one of its messages.
MinimumKeptByHandler ==
  \A g \in Group :
    Members(g) \cap replaced # {} /\ ~blind[g] =>
      Cardinality(RunningOnDemand(Description(Actual(g))))
        >= Minimum(g, Cardinality(Actual(g)))!LoadedMinOnDemand

\* A goroutine comes to its end although others keep emptying the catalogue, and
\* members cannot be found: the cron run returns.
RunEnds == \A g \in Group : pc[g] = "scan" ~> pc[g] = "done"

=============================================================================

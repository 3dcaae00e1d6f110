----------------------------- MODULE Container -----------------------------
(***************************************************************************)
(* A Lambda container from the start of the function to its end: how each  *)
(* event is routed, what the other options and the group's schedule allow, *)
(* and the check of the metering, whose outcome the hourly Fargate task    *)
(* leaves in an SSM parameter.  The selection of groups, with the Config   *)
(* that the events share, is that of GroupSelection.                       *)
(*                                                                         *)
(* A container serves one event at a time, in one step; but the message of *)
(* the queue that brought it is deleted only when its handler ends, in a   *)
(* step of its own, and before that step the invocation may die.  Time     *)
(* goes by in half hours, and the schedule repeats itself.                 *)
(***************************************************************************)
EXTENDS GroupSelection, Integers

CONSTANTS
  Setups,       \* the values of the other options considered
  Overrides,    \* the group's tags for the schedule considered
  Unset,        \* the group has no such tag
  Invalid,      \* a value that cannot be parsed
  Hours,        \* the number of hours after which schedules repeat themselves
  Message,      \* messages, or rather receipt handles, of the group's queue
  NoReceipt,    \* sqsReceiptHandle is empty
  Savings,      \* what the spot instances may save by the hour, in thousandths of $
  MaxFaults     \* bound on the faults, and on the hours that make a loss

\* A schedule names hours; a timezone is an offset in half hours.
Crontab  == ((SUBSET (0 .. Hours - 1)) \ {{}}) \cup {Invalid}
Timezone == Int \cup {Invalid}
State    == {"on", "off", "other"}
Setup ==
  [stable : BOOLEAN, BillingOnly : BOOLEAN, enabled : BOOLEAN, eventBased : BOOLEAN,
   rebalance : BOOLEAN, SavingsCut : Nat,
   crontab : Crontab, timezone : Timezone, state : State]
Override ==
  [crontab : Crontab \cup {Unset}, timezone : Timezone \cup {Unset}, state : State \cup {Unset}]

ASSUME ContainerAssumption ==
  /\ Setups \subseteq Setup /\ Overrides \subseteq Override
  /\ Hours \in Nat \ {0} /\ Savings \subseteq Int /\ MaxFaults \in Nat
  /\ NoReceipt \notin Message

VARIABLES
  setup,      \* the other options of the function
  tags,       \* the group's tags for the schedule
  now,        \* the time
  receipt,    \* config.sqsReceiptHandle
  queue,      \* the messages in the group's queue
  parameter,  \* the status of the metering in SSM
  event,      \* what was served last: a cron run, a message of the queue, whose handler
              \* has not come to its end, or another event
  blocked,    \* the last cron run ended at the check of the metering
  refused,    \* history: the last call of MeterUsage failed
  unmarked,   \* history: the last status could not be written
  swapped,    \* history: messages that an instance was replaced for, since they were
              \* sent, by a handler that has not died
  faults      \* history: the number of faults

billing == <<parameter, refused, unmarked>>
messages == <<queue, swapped>>
cvars == <<vars, setup, tags, now, receipt, messages, billing, event, blocked, faults>>

Fault == faults < MaxFaults /\ faults' = faults + 1

----------------------------------------------------------------------------
(* The schedule.                                                           *)

\* Mutant: a time that is in the schedule is its own successor.
NextOrSame(s, t) ==
  LET later == {u \in t .. t + 2 * Hours : u % 2 = 0 /\ (u \div 2) % Hours \in s}
  IN CHOOSE u \in later : \A v \in later : u <= v

\* sched.Next: the first full hour after t that the crontab names.
NextTime(s, t) ==
  LET later == {u \in t + 1 .. t + 2 * Hours : u % 2 = 0 /\ (u \div 2) % Hours \in s}
  IN CHOOSE u \in later : \A v \in later : u <= v

\* insideSchedule
InsideSchedule(t, s, tz) == NextTime(s, t + tz) = NextTime(s, t + tz - 2) + 2

\* cronRunAction
CronRunAction(t, s, tz, state) ==
  /\ s # Invalid /\ tz # Invalid
  /\ \/ state = "on" /\ InsideSchedule(t, s, tz)
     \/ state = "off" /\ ~InsideSchedule(t, s, tz)

\* LoadCronSchedule, LoadCronTimezone and LoadCronScheduleState: the tag, or else the
\* option.
Loaded(tag, option) == IF tag = Unset THEN option ELSE tag
WithinSchedule ==
  CronRunAction(now, Loaded(tags.crontab, setup.crontab),
                Loaded(tags.timezone, setup.timezone), Loaded(tags.state, setup.state))

----------------------------------------------------------------------------
(* The metering.                                                           *)

\* int64(savings * SavingsCut): the fraction is cut off, towards zero.
Units(savings) ==
  IF savings >= 0 THEN (savings * setup.SavingsCut) \div 100
  ELSE -(((-savings) * setup.SavingsCut) \div 100)

\* Mutant: the status is not marked as good again.
OnlyFailuresMarked(status) ==
  \/ parameter' = (IF status = "failure" THEN status ELSE parameter)
       /\ unmarked' = FALSE /\ UNCHANGED faults
  \/ UNCHANGED parameter /\ unmarked' = TRUE /\ Fault

\* putSSMParameter; a failure is only logged.
PutSSMParameter(status) ==
  \/ parameter' = status /\ unmarked' = FALSE /\ UNCHANGED faults
  \/ UNCHANGED parameter /\ unmarked' = TRUE /\ Fault

\* Mutant: an error is taken for a status that is missing.
FailedUnlessError(failed) ==
  \/ failed = (parameter = "failure") /\ UNCHANGED faults
  \/ failed = FALSE /\ Fault

\* failedFromFargate; a missing parameter is no failure, any other error is one.
FailedFromFargate(failed) ==
  \/ failed = (parameter = "failure") /\ UNCHANGED faults
  \/ failed = TRUE /\ Fault

\* The hourly task: ProcessCronEvent outside of Lambda, with BillingOnly.  Regions or
\* instances that cannot be described save nothing; a loss is not accepted.
Bill ==
  /\ setup.stable
  /\ \/ /\ \E s \in Savings : Units(s) >= 0
        /\ refused' = FALSE /\ PutSSMParameter("success")
     \/ /\ \E s \in Savings : Units(s) < 0
        /\ refused' = TRUE /\ parameter' = "failure" /\ unmarked' = FALSE /\ Fault
     \/ /\ refused' = TRUE /\ parameter' = "failure" /\ unmarked' = FALSE /\ Fault
     \/ /\ refused' = TRUE /\ UNCHANGED parameter /\ unmarked' = TRUE /\ Fault
  /\ acted' = "nothing"
  /\ UNCHANGED <<options, config, group, setup, tags, now, receipt, messages, event, blocked>>

----------------------------------------------------------------------------
(* The events.                                                             *)

\* sqsSendMessageOnInstanceLaunch
SendMessage ==
  \E m \in Message \ queue :
    m # receipt' /\ queue' = queue \cup {m} /\ swapped' = swapped \ {m}

\* Mutant: the handle of the last message is kept.
KeptReceipt(r) == receipt' = IF r = NoReceipt THEN receipt ELSE r

\* convertRawEventToCloudwatchEvent, for an event from the queue or not.
ConvertRawEvent(r) == receipt' = r

\* The next event is served when the handler of the last one has ended.
Serve(kind) == event # "queue" /\ event' = kind

\* The group is found, and there is something to do for the event.
Skipped == acted' = "nothing" /\ UNCHANGED messages

\* A cron run: nothing is done when the regions cannot be listed, when the metering
\* failed, in billing-only mode, in a region that is not enabled or off schedule.
ServeCron ==
  /\ Serve("cron") /\ ConvertRawEvent(NoReceipt)
  /\ config' = WithDefaults(config)
  /\ \/ Skipped /\ Fault /\ UNCHANGED blocked
     \/ \E failed \in BOOLEAN :
          /\ IF setup.stable THEN FailedFromFargate(failed) ELSE ~failed /\ UNCHANGED faults
          /\ blocked' = failed
          /\ \/ Skipped
             \/ /\ ~failed /\ ~setup.BillingOnly /\ setup.enabled
                /\ IsEnabled(config') /\ WithinSchedule
                /\ SendMessage /\ acted' = "queue"
  /\ UNCHANGED <<options, group, setup, tags, now, billing>>

\* The launch of an on-demand instance, reported by EC2: without the receipt handle of a
\* message the handler only sends one, with it it replaces, and leaves the deletion of
\* the message to its end.
HandleLaunch ==
  \/ Skipped
  \/ /\ setup.eventBased /\ setup.enabled /\ IsEnabled(config)
     /\ IF receipt' = NoReceipt
          THEN SendMessage /\ acted' = "queue"
          ELSE swapped' = swapped \cup {receipt'} /\ acted' = "replace" /\ UNCHANGED queue

ServeLaunch ==
  /\ Serve("other") /\ ConvertRawEvent(NoReceipt)
  /\ HandleLaunch
  /\ UNCHANGED <<options, config, group, setup, tags, now, billing, blocked, faults>>

\* A message of the queue, for the first time or again.
ServeMessage(m) ==
  /\ m \in queue
  /\ Serve("queue") /\ ConvertRawEvent(m)
  /\ HandleLaunch
  /\ UNCHANGED <<options, config, group, setup, tags, now, billing, blocked, faults>>

\* The handler ends, with or without an error, and its message is deleted: by the
\* deferred sqsDeleteMessage, or else by Lambda, which is never told of an error.
DeleteMessage ==
  /\ event = "queue" /\ event' = "other"
  /\ queue' = queue \ {receipt}
  /\ acted' = "nothing"
  /\ UNCHANGED <<options, config, group, setup, tags, now, receipt, billing, swapped, blocked,
                 faults>>

\* Mutant: the group of the event is not looked up among the enabled ones.
AnyGroupsLifecycleHook ==
  /\ Serve("other") /\ ConvertRawEvent(NoReceipt)
  /\ \/ Skipped
     \/ setup.enabled /\ SendMessage /\ acted' = "queue"
  /\ UNCHANGED <<options, config, group, setup, tags, now, billing, blocked, faults>>

\* A failed lifecycle action, reported by CloudTrail.
ServeLifecycleHook ==
  /\ Serve("other") /\ ConvertRawEvent(NoReceipt)
  /\ \/ Skipped
     \/ setup.enabled /\ IsEnabled(config) /\ SendMessage /\ acted' = "queue"
  /\ UNCHANGED <<options, config, group, setup, tags, now, billing, blocked, faults>>

\* An interruption or a recommendation to rebalance, in whatever region.
ServeTermination ==
  \E kind \in {"interruption", "rebalance"} :
    /\ Serve("other") /\ ConvertRawEvent(NoReceipt)
    /\ \/ Skipped
       \/ /\ kind = "interruption" \/ setup.rebalance
          /\ IsInAutoSpottingASG(group, config)
          /\ acted' = "terminate" /\ UNCHANGED messages
    /\ UNCHANGED <<options, config, group, setup, tags, now, billing, blocked, faults>>

\* parseEventData fails, or the event lacks what its kind requires.
ServeUnknown ==
  /\ \E r \in queue \cup {NoReceipt} :
       /\ Serve(IF r = NoReceipt THEN "other" ELSE "queue") /\ ConvertRawEvent(r)
  /\ Skipped
  /\ UNCHANGED <<options, config, group, setup, tags, now, billing, blocked, faults>>

\* The container is shut down, or the invocation dies, by a panic or for taking too long,
\* which leaves its message in the queue; another container serves the next event.
Restart ==
  /\ ColdStart
  /\ receipt' = NoReceipt /\ event' = "other"
  /\ swapped' = IF event = "queue" THEN swapped \ {receipt} ELSE swapped
  /\ UNCHANGED <<setup, tags, now, queue, billing, blocked, faults>>

Retag ==
  /\ ChangeGroup
  /\ tags' \in Overrides
  /\ UNCHANGED <<setup, now, receipt, messages, billing, event, blocked, faults>>

Tick ==
  /\ now' = (now + 1) % (2 * Hours)
  /\ acted' = "nothing"
  /\ UNCHANGED <<options, config, group, setup, tags, receipt, messages, billing, event, blocked,
                 faults>>

ContainerInit ==
  /\ Init
  /\ setup \in Setups /\ tags \in Overrides
  /\ now = 0 /\ receipt = NoReceipt /\ queue = {} /\ swapped = {}
  /\ parameter = "absent" /\ refused = FALSE /\ unmarked = FALSE
  /\ event = "other" /\ blocked = FALSE /\ faults = 0

ContainerNext ==
  \/ Bill
  \/ ServeCron \/ ServeLaunch \/ ServeLifecycleHook \/ ServeTermination \/ ServeUnknown
  \/ \E m \in Message : ServeMessage(m)
  \/ DeleteMessage \/ Restart \/ Retag \/ Tick

ContainerSpec == ContainerInit /\ [][ContainerNext]_cvars

\* The schedules of the cron event and of the Fargate task go on for ever.  A handler
\* ends, or is ended by the time limit, and a cron event that meets a busy container
\* waits in Lambda's own queue, however many messages there are.
FairContainerSpec ==
  ContainerSpec /\ SF_cvars(ServeCron) /\ WF_cvars(Bill) /\ WF_cvars(DeleteMessage)

----------------------------------------------------------------------------
(* Properties.                                                             *)

ContainerTypeOK ==
  /\ TypeOK
  /\ setup \in Setups /\ tags \in Overrides
  /\ now \in 0 .. 2 * Hours - 1
  /\ receipt \in Message \cup {NoReceipt}
  /\ queue \subseteq Message /\ swapped \subseteq Message
  /\ parameter \in {"absent", "success", "failure"}
  /\ event \in {"cron", "queue", "other"}
  /\ blocked \in BOOLEAN /\ refused \in BOOLEAN /\ unmarked \in BOOLEAN
  /\ faults \in 0 .. MaxFaults

\* The container, with all its other conditions, selects groups as GroupSelection says:
\* no option, schedule or failure makes it act on a group in another way.
SelectsAsSpecified == Spec

\* An instance is replaced only by the handler of a message that is in the queue, and for
\* each message once, unless the invocation died before it could delete the message:
\* neither an event that is not from the queue, nor a handle left in the shared Config,
\* nor a message served again starts a second swap.
OneSwapPerMessage ==
  [][acted' = "replace" => receipt' \in queue /\ receipt' \notin swapped]_cvars

\* The group's crontab names the full hour at or before now and the next one, in its
\* timezone, just when the state is "on".
OnSchedule ==
  LET s     == IF tags.crontab # Unset THEN tags.crontab ELSE setup.crontab
      tz    == IF tags.timezone # Unset THEN tags.timezone ELSE setup.timezone
      state == IF tags.state # Unset THEN tags.state ELSE setup.state
      inside == \A k \in {0, 1} : ((now + tz) \div 2 + k) % Hours \in s
  IN s # Invalid /\ tz # Invalid /\ state = (IF inside THEN "on" ELSE "off")

\* A cron run queues nothing outside the hours of the group, from the beginning of each
\* one but the last of an interval to its end, in the group's timezone; with the state
\* "off" nothing inside of them, and nothing at all with settings it cannot read.
ScheduleKept == [][event' = "cron" /\ acted' = "queue" => OnSchedule]_cvars

\* A stable build's cron run replaces nothing after the last bill was refused, unless
\* that could not be recorded; not even when the record cannot be read.
NoFreeRide ==
  [][event' = "cron" /\ acted' = "queue" => ~setup.stable \/ ~refused \/ unmarked]_cvars

\* No failure of the metering or of the parameter store blocks the cron runs for good,
\* once the bills are accepted again.
CronResumes == blocked ~> ~blocked
=============================================================================

----------------------------- MODULE MCServices -----------------------------
(***************************************************************************)
(* Instances of DigestDelivery, PaidRequests, MonitorLease, Occurrences    *)
(* and AiTracking for TLC.  They share no state in these models, so that a *)
(* behaviour moves one of them, which focus names, and leaves the others where they  *)
(* started: the states of the instances add up and do not multiply.        *)
(* Digests are delivered on three instances and occurrences launched on    *)
(* two, each large in one direction; the configuration gives the paid      *)
(* requests their size.                                                    *)
(***************************************************************************)
EXTENDS PaidRequests, TLC

CONSTANTS p1, p2,       \* flush passes, journals, executions, launches
          a0, a1, a2,   \* alerts, destinations, targets, keywords, a launch
          r1, r2, r3,   \* paid requests
          none,
          TrackerFaults \* executions of the prompt tracker that break off

\* Three requests of two processes, each of which may pay for two.
ThreeRequests == {r1, r2, r3}
TwoJournals == {p1, p2}

VARIABLES
  focus,                                                           \* what moves
  alert, send, deliverable, pass, workflow, attempt, arrived,      \* DigestDelivery
  job, rec, op, owner, worker, proof, late, posted,                \* MonitorLease
  now, schedule, member, active, busy, run, edits,                 \* Occurrences
  plan, launch, sweep,
  tracked, sample, ledger, exec, expired, bought, told, faults     \* AiTracking

\* An alert for one destination, whose send is attempted twice.
Retried == INSTANCE DigestDelivery WITH
  Alerts <- {a0}, Destinations <- {a0}, Passes <- {p1, p2}, NoPass <- none,
  MaxAttempts <- 2, job <- workflow

\* An alert for two destinations.
TwoDestinations == INSTANCE DigestDelivery WITH
  Alerts <- {a0}, Destinations <- {a1, a2}, Passes <- {p1, p2}, NoPass <- none,
  MaxAttempts <- 1, job <- workflow

\* Two alerts in one digest, or in two.
TwoAlerts == INSTANCE DigestDelivery WITH
  Alerts <- {a1, a2}, Destinations <- {a0}, Passes <- {p1, p2}, NoPass <- none,
  MaxAttempts <- 1, job <- workflow

\* A job with one target, executed twice.
Monitor == INSTANCE MonitorLease WITH
  Targets <- {a0}, Workers <- {p1, p2}, Nobody <- none, sent <- posted

\* Two runs of two keywords, whose schedule changes twice, and one launch at a time.
TwoKeywords == INSTANCE Occurrences WITH
  Keywords <- {a1, a2}, Launchers <- {a0}, Ids <- 1..2, Last <- 1, Times <- {0},
  Interval <- 1, MaxEdits <- 2, row <- run

\* Two runs of one keyword, and two launches at a time.
TwoLaunches == INSTANCE Occurrences WITH
  Keywords <- {a0}, Launchers <- {p1, p2}, Ids <- 1..2, Last <- 1, Times <- {0, 1},
  Interval <- 1, MaxEdits <- 1, row <- run

\* A queued and a live sample, under two executions.
Tracker == INSTANCE AiTracking WITH
  Samples <- {r1, r2}, Queued <- {r1}, Workers <- {p1, p2},
  Answers <- {"answer_present", "failed"}, MaxFaults <- TrackerFaults,
  run <- tracked, posted <- bought

digestVars == <<alert, send, deliverable, pass, workflow, attempt, arrived>>
monitorVars == <<job, rec, op, owner, worker, proof, late, posted>>
occurrenceVars == <<now, schedule, member, active, busy, run, edits, plan, launch, sweep>>
trackerVars == <<tracked, sample, ledger, exec, expired, bought, told, faults>>

ServicesInit ==
  /\ \/ focus \in {"retried", "paid", "monitor", "keywords", "launches", "tracker"} /\ Retried!Init
     \/ focus = "destinations" /\ TwoDestinations!Init
     \/ focus = "alerts" /\ TwoAlerts!Init
  /\ Init
  /\ Monitor!Init
  /\ Tracker!Init
  /\ \/ focus = "launches" /\ TwoLaunches!Init
     \/ focus = "keywords" /\ TwoKeywords!Init
     \/ focus \notin {"keywords", "launches"} /\ TwoKeywords!Init /\ schedule.time = 0

DigestNext ==
  /\ \/ focus = "retried" /\ Retried!Next
     \/ focus = "destinations" /\ TwoDestinations!Next
     \/ focus = "alerts" /\ TwoAlerts!Next
  /\ UNCHANGED <<focus, paidVars, monitorVars, occurrenceVars, trackerVars>>

\* Requests are interchangeable: they are begun in one order, not in all.
InOrder == /\ row[r2] # NoRow => row[r1] # NoRow
           /\ row[r3] # NoRow => row[r2] # NoRow

PaidNext ==
  /\ focus = "paid" /\ Next /\ InOrder'
  /\ UNCHANGED <<focus, digestVars, monitorVars, occurrenceVars, trackerVars>>

MonitorNext ==
  /\ focus = "monitor" /\ Monitor!Next
  /\ UNCHANGED <<focus, digestVars, paidVars, occurrenceVars, trackerVars>>

OccurrenceNext ==
  /\ \/ focus = "keywords" /\ TwoKeywords!Next
     \/ focus = "launches" /\ TwoLaunches!Next
  /\ UNCHANGED <<focus, digestVars, paidVars, monitorVars, trackerVars>>

TrackerNext ==
  /\ focus = "tracker" /\ Tracker!Next
  /\ UNCHANGED <<focus, digestVars, paidVars, monitorVars, occurrenceVars>>

ServicesNext == DigestNext \/ PaidNext \/ MonitorNext \/ OccurrenceNext \/ TrackerNext

servicesVars == <<focus, digestVars, paidVars, monitorVars, occurrenceVars, trackerVars>>

ServicesSpec == ServicesInit /\ [][ServicesNext]_servicesVars

Interchangeable == Permutations({p1, p2}) \cup Permutations({a1, a2})

-----------------------------------------------------------------------------
(* The properties of the modules, each about the instances it speaks of;    *)
(* those of PaidRequests are its own.                                       *)

\* A destination is sent an alert once, however attempts, flush passes and
\* recoveries overlap (digest-send-fence.ts).
SentOnce ==
  /\ focus = "retried" => Retried!SentOnce
  /\ focus = "destinations" => TwoDestinations!SentOnce
  /\ focus = "alerts" => TwoAlerts!SentOnce

\* An alert that is pending again was sent to nobody (digest-reconcile.ts and
\* the trigger fence_digest_reclaim).
PendingIsUnsent ==
  /\ focus = "retried" => Retried!PendingIsUnsent
  /\ focus = "destinations" => TwoDestinations!PendingIsUnsent
  /\ focus = "alerts" => TwoAlerts!PendingIsUnsent

\* An alert recorded as digested arrived somewhere (digest-delivery.ts).
DigestedArrived ==
  /\ focus = "retried" => Retried!DigestedArrived
  /\ focus = "destinations" => TwoDestinations!DigestedArrived
  /\ focus = "alerts" => TwoAlerts!DigestedArrived

\* A monitored target is freed only with nothing open (ownership.ts).
FreedWhenProven == Monitor!FreedWhenProven

\* A complete monitor job holds no target (progress.ts).
CompleteIsFreed == Monitor!CompleteIsFreed

\* A monitor job is not given up while a request that never left holds its
\* target: runtime.ts says that recovery handles failures before the send.
UnsentIsReleased == Monitor!UnsentIsReleased

\* A run that has ended is not brought back by a launch or a sweep that read it
\* before (materialize.ts, finalize.ts).
FinishedStays ==
  [][/\ focus = "keywords" => TwoKeywords!EndedStays
     /\ focus = "launches" => TwoLaunches!EndedStays]_occurrenceVars

\* A run is replaced only if nothing of its work was attempted and nobody
\* skipped or cancelled it (occurrence-replacement.ts).
WorkIsNotRepeated ==
  /\ focus = "keywords" => TwoKeywords!WorkIsNotRepeated
  /\ focus = "launches" => TwoLaunches!WorkIsNotRepeated

\* A paused or archived schedule starts nothing (materialize.ts,
\* persist-occurrence.ts, reconcile-schedule.ts).
PausedIsQuiet ==
  /\ focus = "keywords" => TwoKeywords!PausedIsQuiet
  /\ focus = "launches" => TwoLaunches!PausedIsQuiet

\* A sample that ended as free was not sent, and nobody is about to send it
\* (stores/samples.ts, stores/runs.ts).
FreeIsUnsent == Tracker!FreeIsUnsent

\* A tracking run that may be repeated owes nothing (retry-policy.ts).
RetryIsSafe == Tracker!RetryIsSafe

\* A tracking run is open while it has work and closed when it has none
\* (finishRun, cancelTrackingRun).
RunMatchesSamples == Tracker!RunMatchesSamples

\* A purchase whose answer arrived is kept, also when executions overlap
\* (sample.test.ts:88-95).
AnswerIsKept == Tracker!AnswerIsKept

\* A run that was brought forward keeps its targets while nothing changes:
\* schedules.mdx:63 says that it starts the planned occurrence.
RunNowKept ==
  /\ focus = "keywords" => TwoKeywords!RunNowKept
  /\ focus = "launches" => TwoLaunches!RunNowKept
=============================================================================

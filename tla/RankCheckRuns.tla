--------------------------- MODULE RankCheckRuns ---------------------------
(***************************************************************************)
(* The life of rank-check runs in the database: run rows, their items, the *)
(* checks linked to the items and the queued-batch tasks of those checks,  *)
(* as changed by every actor that touches them: the planner's launch, the  *)
(* per-item Temporal workflow with its activities, the dispatcher and the  *)
(* queued-batch worker, the cancel command, the stale-check sweep and the  *)
(* run reconciler.                                                         *)
(*                                                                         *)
(* One action is one database transaction (or one statement, where the     *)
(* code runs outside a transaction).  A value that the code reads in one   *)
(* step and uses in a later one is kept in a variable: cancel[r].list (the *)
(* linked checks a cancel command read first) and sweep (what the          *)
(* reconciler read of a run).  Where the code reads the run's status       *)
(* without locking the row and finalises with it a few statements later,   *)
(* the status is chosen from ActiveRunStatuses: a status that is no longer *)
(* the stored one makes the finaliser's compare-and-set miss.              *)
(***************************************************************************)
EXTENDS RunContract

CONSTANTS Keywords,
          KeywordOf,      \* KeywordOf[i]: the keyword item i checks
          ScheduledRuns,  \* items have notBefore: the dispatcher runs them
          PlannedRuns,    \* scheduled runs not launched yet at the start
          MaxClaims,      \* RANK_CHECK_ITEM_CLAIM_MAX_ATTEMPTS
          MaxTries,       \* maximumAttempts of runRankCheckActivity
          MaxCancels,     \* bound: cancel commands per run
          Faults          \* which of FaultKinds may happen

\* create_lost: all attempts of createRunningRankCheckActivity fail.
\* cancel_crash: the web process dies between the commit of a cancel command
\*   and the closing of the checks it listed.
\* keyword_paused: a keyword is archived or its market paused.
FaultKinds == {"create_lost", "cancel_crash", "keyword_paused"}

ASSUME RunsAssumption ==
  /\ Runs # {}
  /\ KeywordOf \in [Items -> Keywords]
  /\ ScheduledRuns \subseteq Runs
  /\ PlannedRuns \subseteq ScheduledRuns
  /\ MaxClaims \in Nat \ {0}
  /\ MaxTries \in Nat \ {0}
  /\ MaxCancels \in Nat
  /\ Faults \subseteq FaultKinds

VARIABLES
  run,       \* run[r]: status, outcome and the stored counters
  item,      \* item[i]: status, blockedReason, claimAttempts, claim lease
  check,     \* check[i]: the linked rank check ("none": rankCheckId is null)
  task,      \* task[i]: the queued batch that holds item i's check
  flow,      \* flow[i]: where the rankCheckWorkflow of item i stands
  attempt,   \* attempt[i][n]: attempt n of item i's runRankCheckActivity
  sends,     \* sends[i]: times the provider was called for item i (history)
  evidence,  \* evidence[i]: a provider result of i is kept for recovery
  cancel,    \* cancel[r]: the cancel command running on r
  sweep,     \* the reconciler's current run and what it read of it
  runnable   \* runnable[k]: not archived, and its market is active

dbvars == <<run, item, check, task>>
flowvars == <<flow, attempt, sends, evidence>>
vars == <<dbvars, flowvars, cancel, sweep, runnable>>

Reasons == {"none", "claim_lost", "send_unconfirmed", "unrunnable"}
Leases == {"none", "live", "expired"}
CheckStatuses == {"none", "running", "completed", "failed", "deferred"}
TerminalCheckStatuses == {"completed", "failed", "deferred"}
TaskStates == {"none", "prepared", "submitted", "completed", "failed", "deferred"}
ActiveTaskStates == {"prepared", "submitted"}
FlowStates == {"idle", "create", "busy", "call", "fail", "discard", "done"}
AttemptStates == {"none", "started", "won", "sent", "kept", "lost", "thrown",
                  "over"}
Tries == 1..MaxTries

NoGroups == [i \in Items |-> Absent]
NoSweep == [pc |-> "idle", run |-> CHOOSE r \in Runs : TRUE,
            status |-> "queued", groups |-> NoGroups]

TypeOK ==
  /\ run \in [Runs -> [status : RunStatuses,
                       outcome : RunOutcomes \cup {NoOutcome},
                       tally : [Counters -> Nat]]]
  /\ item \in [Items -> [status : ItemStatuses, reason : Reasons,
                         attempts : Nat, lease : Leases]]
  /\ check \in [Items -> [status : CheckStatuses, attempts : {0, 1}]]
  /\ task \in [Items -> TaskStates]
  /\ flow \in [Items -> FlowStates]
  /\ attempt \in [Items -> [Tries -> AttemptStates]]
  /\ sends \in [Items -> Nat]
  /\ evidence \in [Items -> BOOLEAN]
  /\ cancel \in [Runs -> [pc : {"idle", "read", "close"},
                          list : SUBSET Items, used : Nat]]
  /\ sweep \in [pc : {"idle", "listed", "counted"}, run : Runs,
                status : RunStatuses, groups : [Items -> ItemStatuses]]
  /\ runnable \in [Keywords -> BOOLEAN]

NoTally == [c \in Counters |-> 0]

Init ==
  /\ run = [r \in Runs |-> [status |-> IF r \in PlannedRuns THEN "planned"
                                                             ELSE "queued",
                            outcome |-> NoOutcome, tally |-> NoTally]]
  /\ item = [i \in Items |-> [status |-> IF RunOf[i] \in PlannedRuns
                                         THEN Absent ELSE "queued",
                              reason |-> "none", attempts |-> 0,
                              lease |-> "none"]]
  /\ check = [i \in Items |-> [status |-> "none", attempts |-> 0]]
  /\ task = [i \in Items |-> "none"]
  /\ flow = [i \in Items |-> "idle"]
  /\ attempt = [i \in Items |-> [n \in Tries |-> "none"]]
  /\ sends = [i \in Items |-> 0]
  /\ evidence = [i \in Items |-> FALSE]
  /\ cancel = [r \in Runs |-> [pc |-> "idle", list |-> {}, used |-> 0]]
  /\ sweep = NoSweep
  /\ runnable = [k \in Keywords |-> TRUE]

Scheduled(i) == RunOf[i] \in ScheduledRuns
Linked(i) == check[i].status # "none"
RunStatusOf(i) == run[RunOf[i]].status
ItemStatusOf == [i \in Items |-> item[i].status]

ClaimableAgain(i) == check[i].status = "running"

\* The check row lets an attempt take the paid call.
Claimable(i) ==
  check[i].status = "running" /\ check[i].attempts = 0

KeywordBusyInRun(i) ==
  \E j \in Items \ {i} : /\ KeywordOf[j] = KeywordOf[i] /\ RunOf[j] = RunOf[i]
                         /\ item[j].status = "running"

\* The keyword has a running item other than i: the partial unique index
\* rank_check_run_items_keywordId_running_key would refuse a second one.
KeywordBusy(i) ==
  \E j \in Items \ {i} : /\ KeywordOf[j] = KeywordOf[i]
                         /\ item[j].status = "running"

-----------------------------------------------------------------------------
(* What every settling transaction does: one item gets a terminal status,  *)
(* the run's counter for it goes up, and the run is finalised if nothing   *)
(* is pending any more.                                                    *)

Count(row, counter) == [row EXCEPT !.tally[counter] = @ + 1]

Closed(i, status, reason) ==
  [item EXCEPT ![i].status = status, ![i].reason = reason, ![i].lease = "none"]

SettleUncounted(i, status, reason, counter, seenStatus) ==
  /\ item' = Closed(i, status, reason)
  /\ run' = [run EXCEPT ![RunOf[i]] =
               FinalizeRankCheckRun(RunOf[i], run[RunOf[i]],
                                    [j \in Items |-> item'[j].status], seenStatus)]

SettleItem(i, status, reason, counter, seenStatus) ==
  /\ item' = Closed(i, status, reason)
  /\ run' = [run EXCEPT ![RunOf[i]] =
               FinalizeRankCheckRun(RunOf[i], Count(run[RunOf[i]], counter),
                                    [j \in Items |-> item'[j].status], seenStatus)]

\* Variants of this code with a fault a change could introduce; the runs that
\* check a property find it violated when the definition is replaced by its
\* variant.  They are not part of the specification.
ApplyUnlessCancelling(i, to) ==
  IF item[i].status \in PendingItemStatuses /\ RunStatusOf(i) # "cancelling"
  THEN SettleItem(i, to, item[i].reason, to, RunStatusOf(i))
  ELSE UNCHANGED <<item, run>>

ApplyToSettledItem(i, to) == SettleItem(i, to, item[i].reason, to, RunStatusOf(i))

CloseCheckAsItem(i, status) ==
  check' = [check EXCEPT ![i].status =
              IF status = "failed" /\ cancel[RunOf[i]].pc # "idle" THEN "cancelled"
                                                                   ELSE status]

\* applyRunItemTransition: the run row is locked before its status is read.
ApplyRunItemTransition(i, to) ==
  IF item[i].status \in PendingItemStatuses
  THEN SettleItem(i, to, item[i].reason, to, RunStatusOf(i))
  ELSE UNCHANGED <<item, run>>

CloseCheck(i, status) ==
  check' = [check EXCEPT ![i].status = status]

MarkRankCheckRunStarted(r) ==
  run' = [run EXCEPT ![r].status = IF @ = "queued" THEN "running" ELSE @]

-----------------------------------------------------------------------------
(* The planner: planned occurrences and their launch.                      *)

\* Whether a keyword is in progress: some waiting or running item, an active
\* task, or a keyword whose latest check runs (which check is the latest one
\* is not modelled: with an older one running it may be either way).
KeywordHeld(k) ==
  \E j \in Items : /\ KeywordOf[j] = k
                   /\ \/ /\ item[j].status \in PendingItemStatuses
                         /\ RunStatusOf(j) \in {"queued", "running"}
                      \/ task[j] \in ActiveTaskStates
KeywordMayRun(k) ==
  \E j \in Items : KeywordOf[j] = k /\ check[j].status = "running"

Launchable(r) ==
  LET free == {i \in ItemsOf(r) : runnable[KeywordOf[i]] /\ ~KeywordHeld(KeywordOf[i])}
  IN  {S \in SUBSET free : \A i \in free \ S : KeywordMayRun(KeywordOf[i])}

\* Items are created for the runnable members that are not in progress; with
\* none of them left the occurrence completes without items.
LaunchPlannedRun(r) ==
  /\ run[r].status \in {"planned", "blocked"}
  /\ \E launched \in Launchable(r) :
       LET skipped == Cardinality(ItemsOf(r) \ launched)
       IN  IF launched = {}
           THEN /\ run' = [run EXCEPT ![r].status = "completed",
                                      ![r].outcome = "deferred",
                                      ![r].tally["skipped"] = skipped]
                /\ UNCHANGED item
           ELSE /\ run' = [run EXCEPT ![r].status = "queued",
                                      ![r].tally["skipped"] = skipped]
                /\ item' = [i \in Items |->
                              IF i \in launched
                              THEN [item[i] EXCEPT !.status = "queued"]
                              ELSE item[i]]
  /\ UNCHANGED <<check, task, flowvars, cancel, sweep, runnable>>

SetRun(r, from, to, outcome) ==
  /\ run[r].status = from
  /\ run' = [run EXCEPT ![r].status = to, ![r].outcome = outcome]
  /\ UNCHANGED <<item, check, task, flowvars, cancel, sweep, runnable>>

BlockPlannedRun(r) == SetRun(r, "planned", "blocked", NoOutcome)
ExpireBlockedRun(r) == SetRun(r, "blocked", "completed", "deferred")
SkipPlannedRun(r) == SetRun(r, "planned", "cancelled", NoOutcome)

PauseKeyword(k) ==
  /\ "keyword_paused" \in Faults
  /\ runnable[k]
  /\ runnable' = [runnable EXCEPT ![k] = FALSE]
  /\ UNCHANGED <<dbvars, flowvars, cancel, sweep>>

-----------------------------------------------------------------------------
(* The rankCheckWorkflow of one item of a manual run.  Temporal starts it  *)
(* at most once per item (REJECT_DUPLICATE) and retries its activities; a  *)
(* worker may still be executing an attempt that Temporal has given up.    *)

StartRunItem(i) ==
  /\ ~Scheduled(i)
  /\ flow[i] = "idle"
  /\ item[i].status = "queued"
  /\ flow' = [flow EXCEPT ![i] = "create"]
  /\ UNCHANGED <<dbvars, attempt, sends, evidence, cancel, sweep, runnable>>

FlowTo(i, from, to) ==
  /\ flow[i] = from
  /\ flow' = [flow EXCEPT ![i] = to]

\* The check, its link and the start of the run are one transaction.
CreateRunningRankCheck(i) ==
  /\ FlowTo(i, "create", "call")
  /\ item[i].status = "queued"
  /\ ~KeywordBusy(i)
  /\ item' = [item EXCEPT ![i].status = "running"]
  /\ check' = [check EXCEPT ![i].status = "running"]
  /\ MarkRankCheckRunStarted(RunOf[i])
  /\ attempt' = [attempt EXCEPT ![i][1] = "started"]
  /\ UNCHANGED <<task, sends, evidence, cancel, sweep, runnable>>

\* The link hits the running-item index; the transaction is rolled back.
CreateHitsBusyKeyword(i) ==
  /\ FlowTo(i, "create", "busy")
  /\ item[i].status = "queued"
  /\ KeywordBusy(i)
  /\ UNCHANGED <<dbvars, attempt, sends, evidence, cancel, sweep, runnable>>

DeferRunItemForBusyKeyword(i) ==
  /\ FlowTo(i, "busy", "done")
  /\ KeywordBusy(i)
  /\ item[i].status = "queued"
  /\ \E s \in ActiveRunStatuses : SettleItem(i, "deferred", "none", "deferred", s)
  /\ UNCHANGED <<check, task, attempt, sends, evidence, cancel, sweep, runnable>>

\* Nothing to defer: the unique-index error is thrown and Temporal retries.
RetryAfterBusyKeyword(i) ==
  /\ FlowTo(i, "busy", "create")
  /\ ~KeywordBusy(i) \/ item[i].status # "queued"
  /\ UNCHANGED <<dbvars, attempt, sends, evidence, cancel, sweep, runnable>>

\* The item was closed before its check existed, or every attempt failed
\* for a reason of its own (no price quote, database unreachable).
CreateGivesUp(i) ==
  /\ FlowTo(i, "create", "done")
  /\ item[i].status # "queued" \/ "create_lost" \in Faults
  /\ UNCHANGED <<dbvars, attempt, sends, evidence, cancel, sweep, runnable>>

\* Attempt n of runRankCheckActivity is the one the workflow waits for.
Awaited(i, n) ==
  flow[i] = "call" /\ \A m \in Tries : m > n => attempt[i][m] = "none"

\* What the workflow does when attempt n ends; later attempts it no longer
\* waits for end without an effect on it.
FlowAfter(i, n, to) ==
  flow' = [flow EXCEPT ![i] = IF Awaited(i, n) THEN to ELSE @]

StepAttempt(i, n, from, to) ==
  /\ attempt[i][n] = from
  /\ attempt' = [attempt EXCEPT ![i][n] = to]

\* guardPaidCall: the workflow ends whether or not the check could be closed.
StopUnrunnable(i, n) ==
  /\ ~runnable[KeywordOf[i]]
  /\ StepAttempt(i, n, "started", "over")
  /\ FlowAfter(i, n, "done")
  /\ IF Claimable(i)
     THEN /\ CloseCheck(i, "failed")
          /\ IF item[i].status = "running"
             THEN \E s \in ActiveRunStatuses :
                    SettleItem(i, "cancelled", "unrunnable", "cancelled", s)
             ELSE UNCHANGED <<run, item>>
     ELSE UNCHANGED <<run, item, check>>
  /\ UNCHANGED <<task, sends, evidence, cancel, sweep, runnable>>

\* The paid-call fence, a compare-and-set on the check row.  The trigger
\* measurement_worker_claim_immutable also wants the item to be running.
ClaimPaidCall(i, n) ==
  /\ StepAttempt(i, n, "started", "won")
  /\ Claimable(i)
  /\ item[i].status = "running"
  /\ check' = [check EXCEPT ![i].attempts = 1]
  /\ UNCHANGED <<run, item, task, flow, sends, evidence, cancel, sweep, runnable>>

\* An attempt that finds the fence taken blocks the item in a statement of
\* its own (no counter), or fails when the item is no longer running.
LosePaidCall(i, n) ==
  /\ ~Claimable(i)
  /\ IF item[i].status = "running"
     THEN /\ StepAttempt(i, n, "started", "lost")
          /\ item' = Closed(i, "blocked", "send_unconfirmed")
          /\ UNCHANGED flow
     ELSE /\ StepAttempt(i, n, "started", "over")
          /\ FlowAfter(i, n, "fail")
          /\ UNCHANGED item
  /\ UNCHANGED <<run, check, task, sends, evidence, cancel, sweep, runnable>>

\* It then reads the run and finalises it outside any transaction.
FinalizeAfterLostCall(i, n) ==
  /\ StepAttempt(i, n, "lost", "over")
  /\ FlowAfter(i, n, "fail")
  /\ \E s \in ActiveRunStatuses :
       run' = [run EXCEPT ![RunOf[i]] =
                 FinalizeRankCheckRun(RunOf[i], @, ItemStatusOf, s)]
  /\ UNCHANGED <<item, check, task, sends, evidence, cancel, sweep, runnable>>

SendPaidCall(i, n) ==
  /\ StepAttempt(i, n, "won", "sent")
  /\ sends' = [sends EXCEPT ![i] = @ + 1]
  /\ UNCHANGED <<dbvars, flow, evidence, cancel, sweep, runnable>>

\* persistRankCheck first keeps the result for recovery, in a statement of its
\* own that may fail without consequences.
RetainRankResult(i, n) ==
  /\ StepAttempt(i, n, "sent", "kept")
  /\ \E kept \in {evidence[i], TRUE} : evidence' = [evidence EXCEPT ![i] = kept]
  /\ UNCHANGED <<dbvars, flow, sends, cancel, sweep, runnable>>

\* The product transaction; a check that is closed already keeps its verdict,
\* and the kept result waits for the recovery sweep.
PersistRankCheck(i, n) ==
  /\ StepAttempt(i, n, "kept", "over")
  /\ FlowAfter(i, n, "done")
  /\ IF check[i].status = "running"
     THEN /\ CloseCheck(i, "completed")
          /\ ApplyRunItemTransition(i, "completed")
          /\ evidence' = [evidence EXCEPT ![i] = FALSE]
     ELSE UNCHANGED <<run, item, check, evidence>>
  /\ UNCHANGED <<task, sends, cancel, sweep, runnable>>

\* Temporal stops waiting for attempt n: the next one starts, if any is left.
Retry(i, n) ==
  IF n + 1 \in Tries
  THEN /\ attempt' = [attempt EXCEPT ![i] = [@ EXCEPT ![n + 1] = "started"]]
       /\ UNCHANGED flow
  ELSE /\ flow' = [flow EXCEPT ![i] = "fail"]
       /\ UNCHANGED attempt

\* A timeout or a lost worker; attempt n may still be executing somewhere.
AttemptTimesOut(i, n) ==
  /\ Awaited(i, n)
  /\ attempt[i][n] \in {"started", "won", "sent", "kept", "lost", "thrown"}
  /\ Retry(i, n)
  /\ UNCHANGED <<dbvars, sends, evidence, cancel, sweep, runnable>>

\* The winning attempt throws.  A plain error is retried, a typed one makes
\* the workflow defer or fail the check.
PaidCallFails(i, n) ==
  /\ \E from \in {"won", "sent", "kept"} : StepAttempt(i, n, from, "thrown")
  /\ \E to \in {"call", "discard", "fail"} : FlowAfter(i, n, to)
  /\ UNCHANGED <<dbvars, sends, evidence, cancel, sweep, runnable>>

FailRankCheck(i) ==
  /\ FlowTo(i, "fail", "done")
  /\ IF check[i].status = "running"
     THEN CloseCheck(i, "failed") /\ ApplyRunItemTransition(i, "failed")
     ELSE UNCHANGED <<run, item, check>>
  /\ UNCHANGED <<task, attempt, sends, evidence, cancel, sweep, runnable>>

DiscardRankCheck(i) ==
  /\ FlowTo(i, "discard", "done")
  /\ IF check[i].status = "running"
     THEN /\ check' = [check EXCEPT ![i] = [status |-> "deferred", attempts |-> 0]]
          /\ ApplyRunItemTransition(i, "deferred")
     ELSE UNCHANGED <<run, item, check>>
  /\ UNCHANGED <<task, attempt, sends, evidence, cancel, sweep, runnable>>

\* Every attempt of the closing activity fails: the workflow ends without it.
ClosingActivityLost(i) ==
  /\ \E from \in {"fail", "discard"} : FlowTo(i, from, "done")
  /\ UNCHANGED <<dbvars, attempt, sends, evidence, cancel, sweep, runnable>>

-----------------------------------------------------------------------------
(* The dispatcher: claims on the items of scheduled runs.  A page of claims *)
(* is one transaction that locks run, item and keyword (SKIP LOCKED); here  *)
(* a page holds one item.                                                   *)

ClaimableRun(r) == run[r].status \in {"queued", "running"}
DueQueued(i) == Scheduled(i) /\ item[i].status = "queued"
ClaimExpired(i) ==
  item[i].status = "running" /\ ~Linked(i) /\ item[i].lease = "expired"

Candidate(i) ==
  /\ ClaimableRun(RunOf[i])
  /\ DueQueued(i) \/ ClaimExpired(i)
  /\ ~KeywordBusy(i)

\* claimCandidateRun: the finaliser is told that the run is running.
CancelUnrunnableCandidate(i) ==
  /\ Candidate(i)
  /\ ~runnable[KeywordOf[i]]
  /\ SettleItem(i, "cancelled", "unrunnable", "cancelled", "running")
  /\ UNCHANGED <<check, task, flowvars, cancel, sweep, runnable>>

Claim(i) ==
  /\ Candidate(i)
  /\ runnable[KeywordOf[i]]
  /\ item' = [item EXCEPT ![i].status = "running", ![i].lease = "live",
                          ![i].attempts = @ + 1]
  /\ MarkRankCheckRunStarted(RunOf[i])
  /\ UNCHANGED <<check, task, flowvars, cancel, sweep, runnable>>

ClaimQueued(i) == DueQueued(i) /\ Claim(i)
ReclaimExpired(i) ==
  /\ ClaimExpired(i)
  /\ item[i].attempts + 1 <= MaxClaims
  /\ Claim(i)

BlockClaimLost(i) ==
  /\ Candidate(i)
  /\ ClaimExpired(i)
  /\ runnable[KeywordOf[i]]
  /\ item[i].attempts + 1 > MaxClaims
  /\ SettleItem(i, "blocked", "claim_lost", "skipped", "running")
  /\ UNCHANGED <<check, task, flowvars, cancel, sweep, runnable>>

\* RANK_CHECK_ITEM_CLAIM_LEASE_MS pass before the claimer links a check.
ExpireLease(i) ==
  /\ item[i].lease = "live"
  /\ item' = [item EXCEPT ![i].lease = "expired"]
  /\ UNCHANGED <<run, check, task, flowvars, cancel, sweep, runnable>>

-----------------------------------------------------------------------------
(* The queued batch of a claimed item (a batch of one task).  "submitted"   *)
(* stands for every active state from submitting to persisting.             *)

LinkClaimed(i, checkStatus) ==
  /\ item[i].status = "running"
  /\ ~Linked(i)
  /\ item[i].lease = "live"
  /\ check' = [check EXCEPT ![i].status = checkStatus]

PrepareBatch(i) ==
  /\ LinkClaimed(i, "running")
  /\ item' = [item EXCEPT ![i].lease = "none"]
  /\ task' = [task EXCEPT ![i] = "prepared"]
  /\ UNCHANGED <<run, flowvars, cancel, sweep, runnable>>

\* No budget, no price quote, or the queue is switched off: the batch is
\* stored as deferred and the item is settled in the same transaction.
PrepareDeferredBatch(i) ==
  /\ LinkClaimed(i, "deferred")
  /\ ApplyRunItemTransition(i, "deferred")
  /\ task' = [task EXCEPT ![i] = "deferred"]
  /\ UNCHANGED <<flowvars, cancel, sweep, runnable>>

SubmitBatchAgain(i) ==
  /\ task[i] \in ActiveTaskStates
  /\ ClaimableRun(RunOf[i])
  /\ task' = [task EXCEPT ![i] = "submitted"]
  /\ sends' = [sends EXCEPT ![i] = IF @ < 3 THEN @ + 1 ELSE @]
  /\ UNCHANGED <<run, item, check, flow, attempt, evidence, cancel, sweep, runnable>>

\* claimQueuedSubmission locks the run row; the claim is followed by the POST.
SubmitBatch(i) ==
  /\ task[i] = "prepared"
  /\ ClaimableRun(RunOf[i])
  /\ task' = [task EXCEPT ![i] = "submitted"]
  /\ sends' = [sends EXCEPT ![i] = @ + 1]
  /\ UNCHANGED <<run, item, check, flow, attempt, evidence, cancel, sweep, runnable>>

\* The check gets the verdict and the task follows it; a check that somebody
\* else closed keeps its own and the task follows that.
SettleTask(i, verdict) ==
  /\ IF check[i].status = "running"
     THEN /\ CloseCheck(i, verdict)
          /\ task' = [task EXCEPT ![i] = verdict]
          /\ ApplyRunItemTransition(i, verdict)
     ELSE /\ task' = [task EXCEPT ![i] = check[i].status]
          /\ UNCHANGED <<run, item, check>>

\* The retrieved result of a submitted task is kept before it is persisted.
RetainBatchResult(i) ==
  /\ task[i] = "submitted"
  /\ evidence' = [evidence EXCEPT ![i] = TRUE]
  /\ UNCHANGED <<dbvars, flow, attempt, sends, cancel, sweep, runnable>>

PersistBatchResult(i) ==
  /\ task[i] = "submitted"
  /\ \/ /\ SettleTask(i, "completed")
        /\ evidence' = [evidence EXCEPT ![i] = @ /\ check[i].status # "running"]
     \/ SettleTask(i, "failed") /\ UNCHANGED evidence
  /\ UNCHANGED <<flow, attempt, sends, cancel, sweep, runnable>>

\* Queue deadline, refused submission or cancelled workflow; a task whose cost
\* is already known fails instead of being deferred.
DeferBatch(i) ==
  /\ \/ task[i] \in ActiveTaskStates /\ SettleTask(i, "deferred")
     \/ task[i] = "submitted" /\ SettleTask(i, "failed")
  /\ UNCHANGED <<flowvars, cancel, sweep, runnable>>

-----------------------------------------------------------------------------
(* Maintenance: stale checks and the run reconciler.                        *)

MarkStaleCheckOnly(i) ==
  /\ check[i].status = "running"
  /\ task[i] = "none"
  /\ check' = [check EXCEPT ![i] = [status |-> "failed", attempts |-> 0]]
  /\ UNCHANGED <<run, item, task, flowvars, cancel, sweep, runnable>>

MarkStaleUnclaimedCheck(i) ==
  /\ Claimable(i)
  /\ task[i] = "none"
  /\ check' = [check EXCEPT ![i] = [status |-> "failed", attempts |-> 0]]
  /\ ApplyRunItemTransition(i, "failed")
  /\ UNCHANGED <<task, flowvars, cancel, sweep, runnable>>

\* markStaleRunningChecks closes checks without a queued task, at any time
\* the check is old enough.
MarkStaleRunningCheck(i) ==
  /\ check[i].status = "running"
  /\ task[i] = "none"
  /\ check' = [check EXCEPT ![i] = [status |-> "failed", attempts |-> 0]]
  /\ ApplyRunItemTransition(i, "failed")
  /\ UNCHANGED <<task, flowvars, cancel, sweep, runnable>>

PurgeResultsOnly(i) ==
  /\ task[i] \in {"completed", "failed"}
  /\ task' = [task EXCEPT ![i] = "none"]
  /\ UNCHANGED <<run, item, check, flowvars, cancel, sweep, runnable>>

\* purgeExpiredQueuedRankCheckBatches: a batch that ended long ago is deleted
\* with its tasks, if its costs are settled.
PurgeBatch(i) ==
  /\ task[i] \in TaskStates \ (ActiveTaskStates \cup {"none"})
  /\ task' = [task EXCEPT ![i] = "none"]
  /\ UNCHANGED <<run, item, check, flowvars, cancel, sweep, runnable>>

RecoverCountersOnly(i) ==
  /\ item' = Closed(i, "completed", item[i].reason)
  /\ run' = [run EXCEPT ![RunOf[i]].tally =
               RunCountsFromItemGroups(RunOf[i], [ItemStatusOf EXCEPT ![i] = "completed"])]

\* recoverRunItem: a restored result makes the item completed, whatever it was
\* (a cancelled item stays), and rewrites the run's counters; with nothing
\* pending it writes the final row, over a row that was final already, too.
RecoverRunItem(i) ==
  IF item[i].status = "cancelled"
  THEN UNCHANGED <<run, item>>
  ELSE LET statuses == [ItemStatusOf EXCEPT ![i] = "completed"]
           r == RunOf[i]
       IN  /\ item' = Closed(i, "completed", item[i].reason)
           /\ run' = [run EXCEPT ![r] =
                        IF PendingRunItems(r, statuses) = {}
                        THEN FinalRunData(r, statuses, @.status)
                        ELSE [@ EXCEPT !.tally = RunCountsFromItemGroups(r, statuses)]]

\* A result of a queued batch is taken only with its task still there.
Restorable(i) ==
  check[i].status # "completed" /\ (Scheduled(i) => task[i] # "none")

RestoreIntoAnyRun(i) ==
  /\ evidence[i]
  /\ evidence' = [evidence EXCEPT ![i] = FALSE]
  /\ IF Restorable(i)
     THEN /\ CloseCheck(i, "completed")
          /\ task' = [task EXCEPT ![i] = IF @ = "none" THEN @ ELSE "completed"]
          /\ RecoverRunItem(i)
     ELSE UNCHANGED dbvars
  /\ UNCHANGED <<flow, attempt, sends, cancel, sweep, runnable>>

\* restoreRetainedRankResult, well after the result was kept: a completed
\* check needs none, a cancelled run takes none.
RestoreRetainedResult(i) ==
  /\ evidence[i]
  /\ evidence' = [evidence EXCEPT ![i] = FALSE]
  /\ IF Restorable(i) /\ RunStatusOf(i) \notin {"cancelled", "cancelling"}
     THEN /\ CloseCheck(i, "completed")
          /\ task' = [task EXCEPT ![i] = IF @ = "none" THEN @ ELSE "completed"]
          /\ RecoverRunItem(i)
     ELSE UNCHANGED dbvars
  /\ UNCHANGED <<flow, attempt, sends, cancel, sweep, runnable>>

\* The kept result expires or no longer fits its keyword.
LoseRetainedResult(i) ==
  /\ evidence[i]
  /\ evidence' = [evidence EXCEPT ![i] = FALSE]
  /\ UNCHANGED <<dbvars, flow, attempt, sends, cancel, sweep, runnable>>

\* reconcileRankCheckRuns lists a run, counts its items in a second query and
\* writes in a third statement.
SweepList(r) ==
  /\ sweep.pc = "idle"
  /\ run[r].status \in ActiveRunStatuses \cup {"blocked"}
  /\ sweep' = [pc |-> "listed", run |-> r, status |-> run[r].status,
               groups |-> NoGroups]
  /\ UNCHANGED <<dbvars, flowvars, cancel, runnable>>

SweepCount ==
  /\ sweep.pc = "listed"
  /\ sweep' = [sweep EXCEPT !.pc = "counted",
                            !.groups = [i \in Items |->
                               IF RunOf[i] = sweep.run THEN item[i].status
                                                       ELSE Absent]]
  /\ UNCHANGED <<dbvars, flowvars, cancel, runnable>>

OverwriteTally(row, counts) == [row EXCEPT !.tally = counts]

GreatestTally(row, counts) ==
  [row EXCEPT !.tally = [c \in Counters |->
                           IF counts[c] > row.tally[c] THEN counts[c]
                                                       ELSE row.tally[c]]]

SweepWrite ==
  /\ sweep.pc = "counted"
  /\ LET r == sweep.run
     IN  run' = [run EXCEPT ![r] =
                   IF PendingRunItems(r, sweep.groups) = {}
                   THEN FinalizeRankCheckRun(r, @, sweep.groups, sweep.status)
                   ELSE IF @.status = sweep.status
                        THEN GreatestTally(@, RunCountsFromItemGroups(r, sweep.groups))
                        ELSE @]
  /\ sweep' = NoSweep
  /\ UNCHANGED <<item, check, task, flowvars, cancel, runnable>>

-----------------------------------------------------------------------------
(* The cancel command: one transaction that reads and then writes, followed *)
(* by one transaction per check that was linked when it read.               *)

LinkedRunning(r) == {i \in ItemsOf(r) : item[i].status = "running" /\ Linked(i)}

CancelRead(r) ==
  /\ cancel[r].pc = "idle"
  /\ cancel[r].used < MaxCancels
  /\ cancel' = [cancel EXCEPT
       ![r].pc = IF run[r].status \in {"cancelled", "cancelling"}
                 THEN IF LinkedRunning(r) = {} THEN "idle" ELSE "close"
                 ELSE "read",
       ![r].list = LinkedRunning(r),
       ![r].used = @ + 1]
  /\ UNCHANGED <<dbvars, flowvars, sweep, runnable>>

Cancellable(i) ==
  item[i].status = "queued" \/ (item[i].status = "running" /\ ~Linked(i))

\* What cancelRankCheckRun makes of the run row: cancelling, the cancelled
\* items counted, and finalised if that left nothing pending.
CancelledRun(r, cancelled) ==
  FinalizeRankCheckRun(r,
    [run[r] EXCEPT !.status = "cancelling",
                   !.tally["cancelled"] = @ + Cardinality(cancelled)],
    [i \in Items |-> IF i \in cancelled THEN "cancelled" ELSE item[i].status],
    "cancelling")

CancelCommit(r) ==
  LET cancelled == {i \in ItemsOf(r) : Cancellable(i)}
      resume == [cancel EXCEPT
                   ![r].pc = IF cancel[r].list = {} THEN "idle" ELSE "close"]
  IN
  /\ cancel[r].pc = "read"
  /\ \/ /\ run[r].status = "planned"
        /\ run' = [run EXCEPT ![r].status = "cancelled"]
        /\ cancel' = [cancel EXCEPT ![r].pc = "idle", ![r].list = {}]
        /\ UNCHANGED <<item, task>>
     \/ /\ run[r].status \in {"blocked", "queued", "running"}
        /\ item' = [i \in Items |->
                      IF i \in cancelled
                      THEN [item[i] EXCEPT !.status = "cancelled", !.lease = "none"]
                      ELSE item[i]]
        /\ task' = [i \in Items |->
                      IF RunOf[i] = r /\ task[i] = "prepared" THEN "deferred"
                                                              ELSE task[i]]
        /\ run' = [run EXCEPT ![r] = CancelledRun(r, cancelled)]
        /\ cancel' = resume
     \/ /\ run[r].status \in {"cancelling", "completed", "cancelled"}
        /\ cancel' = [cancel EXCEPT ![r].pc = "idle", ![r].list = {}]
        /\ UNCHANGED <<run, item, task>>
  /\ UNCHANGED <<check, flowvars, sweep, runnable>>

\* Cancels the item's workflow, which may fail, and closes its check.
CloseRankCheckAsCancelled(r, i) ==
  /\ cancel[r].pc = "close"
  /\ i \in cancel[r].list
  /\ \E to \in {flow[i], "done"} :
       flow' = [flow EXCEPT ![i] = IF @ = "idle" THEN @ ELSE to]
  /\ IF check[i].status = "running"
     THEN /\ CloseCheck(i, "failed")
          /\ IF item[i].status = "running"
             THEN \E s \in ActiveRunStatuses :
                    SettleItem(i, "cancelled", "none", "cancelled", s)
             ELSE UNCHANGED <<run, item>>
     ELSE UNCHANGED <<run, item, check>>
  /\ cancel' = [cancel EXCEPT
       ![r].list = @ \ {i},
       ![r].pc = IF cancel[r].list = {i} THEN "idle" ELSE "close"]
  /\ UNCHANGED <<task, attempt, sends, evidence, sweep, runnable>>

\* The process dies, or closing one check throws and ends the loop.
CancelCrash(r) ==
  /\ "cancel_crash" \in Faults
  /\ cancel[r].pc = "close"
  /\ cancel' = [cancel EXCEPT ![r].pc = "idle", ![r].list = {}]
  /\ UNCHANGED <<dbvars, flowvars, sweep, runnable>>

-----------------------------------------------------------------------------
PlannerStep ==
  \/ \E r \in Runs : \/ LaunchPlannedRun(r) \/ BlockPlannedRun(r)
                     \/ ExpireBlockedRun(r) \/ SkipPlannedRun(r)
  \/ \E k \in Keywords : PauseKeyword(k)

WorkflowStep(i) ==
  \/ StartRunItem(i) \/ CreateRunningRankCheck(i) \/ CreateHitsBusyKeyword(i)
  \/ DeferRunItemForBusyKeyword(i) \/ RetryAfterBusyKeyword(i)
  \/ CreateGivesUp(i) \/ FailRankCheck(i) \/ DiscardRankCheck(i)
  \/ ClosingActivityLost(i)

AttemptStep(i, n) ==
  \/ StopUnrunnable(i, n) \/ ClaimPaidCall(i, n) \/ LosePaidCall(i, n)
  \/ FinalizeAfterLostCall(i, n) \/ SendPaidCall(i, n)
  \/ RetainRankResult(i, n) \/ PersistRankCheck(i, n)
  \/ AttemptTimesOut(i, n) \/ PaidCallFails(i, n)

DispatcherStep(i) ==
  \/ CancelUnrunnableCandidate(i) \/ ClaimQueued(i) \/ ReclaimExpired(i)
  \/ BlockClaimLost(i) \/ ExpireLease(i)

BatchStep(i) ==
  \/ PrepareBatch(i) \/ PrepareDeferredBatch(i) \/ SubmitBatch(i)
  \/ RetainBatchResult(i) \/ PersistBatchResult(i) \/ DeferBatch(i)

MaintenanceStep ==
  \/ \E i \in Items : \/ MarkStaleRunningCheck(i) \/ PurgeBatch(i)
                      \/ RestoreRetainedResult(i) \/ LoseRetainedResult(i)
  \/ \E r \in Runs : SweepList(r)
  \/ SweepCount
  \/ SweepWrite

CancelStep(r) ==
  \/ CancelRead(r) \/ CancelCommit(r) \/ CancelCrash(r)
  \/ \E i \in Items : CloseRankCheckAsCancelled(r, i)

Next ==
  \/ PlannerStep
  \/ \E i \in Items : \/ WorkflowStep(i)
                      \/ \E n \in Tries : AttemptStep(i, n)
                      \/ DispatcherStep(i)
                      \/ BatchStep(i)
  \/ MaintenanceStep
  \/ \E r \in Runs : CancelStep(r)

Spec == Init /\ [][Next]_vars


-----------------------------------------------------------------------------
(* Safety.                                                                 *)

\* A run that is over has no unfinished target: whatever the order in which
\* launches, settlements, cancel commands and the reconciler touch the run,
\* its row is not closed over a queued or running item (finalize.ts).
TerminalRunSettled ==
  \A i \in Items : RunStatusOf(i) \in TerminalRunStatuses =>
                     item[i].status \notin PendingItemStatuses

\* The item and its check never contradict each other: work that is still
\* paid for has an open item or one blocked as unconfirmed, a completed item
\* has a completed check, and a result is recorded on the item unless a
\* second attempt had already given it up (items.ts, runner-persistence.ts).
ItemMatchesCheck ==
  \A i \in Items :
    LET unconfirmed == item[i].status = "blocked" /\ item[i].reason = "send_unconfirmed"
    IN  /\ check[i].status = "running" => item[i].status = "running" \/ unconfirmed
        /\ check[i].status \in {"completed", "deferred"} =>
             item[i].status = check[i].status \/ unconfirmed
        /\ item[i].status \in {"completed", "running"} /\ Linked(i) =>
             check[i].status = item[i].status

\* Retries, worker restarts and two attempts alive at the same time never
\* buy the same target twice (worker-claim.ts, queued-submit-claim.ts).
PaidOnce == \A i \in Items : sends[i] <= 1

\* "A cancelled item bought nothing" (cancel.ts:32): an item cancelled with a
\* named reason is stored with a zero cost, so it must never have been sent.
FreeCancelIsUnpaid ==
  \A i \in Items : item[i].status = "cancelled" /\ item[i].reason = "unrunnable"
                     => sends[i] = 0

\* No verdict is lost from the counters: the stored counters of a finished run
\* with items are those of its items, and an unfinished run counts at least
\* the verdicts given (skipped aside: an item blocked by a lost paid call is
\* counted later), whatever counters the reconciler writes from an old read.
CountersMatchItems ==
  \A r \in Runs :
    LET counts == RunCountsFromItemGroups(r, ItemStatusOf)
    IN  TotalCount(r, ItemStatusOf) > 0 =>
          /\ \A c \in Counters \ {"skipped"} : run[r].tally[c] >= counts[c]
          /\ run[r].status \in TerminalRunStatuses => run[r].tally = counts

\* A finished run reports what its targets call for, also after a late result
\* was restored into it or two writers finished it (finalize.ts,
\* recovery-run-item.ts).  Where runs.mdx:141-144 and status.ts disagree about
\* what they call for (see GuideIsFollowed), either will do.
OutcomesExplained ==
  \A r \in Runs :
    LET verdicts == Verdicts(r, ItemStatusOf)
    IN  run[r].status \in TerminalRunStatuses /\ verdicts # {}
          => ReportedBy(run[r]) \in AcceptedReports(verdicts)

\* A finished run with a completed target has the outcome that the guide gives
\* it: "Cancelled targets do not prevent the remaining completed targets from
\* producing `succeeded`" (runs.mdx:147-148).
GuideIsFollowed ==
  \A r \in Runs :
    LET verdicts == Verdicts(r, ItemStatusOf)
    IN  run[r].status \in TerminalRunStatuses /\ "completed" \in verdicts
          => ReportedBy(run[r]) = GuideReport(verdicts)

\* Two runs that want the same keyword never check it at the same time,
\* whichever of the dispatcher and the manual workflow gets there first
\* (items-claim-query.ts:57-63 and the index rank_check_run_items_keywordId_
\* running_key).
OneRunningItemPerKeyword ==
  \A i, j \in {m \in Items : item[m].status = "running"} :
    KeywordOf[i] = KeywordOf[j] => i = j

(* Action properties.                                                      *)

\* A finished run keeps its status: no late settlement, second cancel command
\* or stale reconciler write changes its row.  Only a restored result does,
\* and never that of a cancelled run.
TerminalRunFrozen ==
  [][\A r \in Runs : run[r].status \in TerminalRunStatuses =>
       \/ run'[r] = run[r]
       \/ /\ run[r].status = "completed" /\ run'[r].status = "completed"
          /\ \E i \in ItemsOf(r) : /\ item[i].status # "completed"
                                   /\ item'[i].status = "completed"]_vars

\* A target gets one verdict: what comes later leaves the item as it is, but
\* for the restored result of a paid call, which completes it.
OneVerdict ==
  [][\A i \in Items : item[i].status \in TerminalItemStatuses =>
       \/ item'[i] = item[i]
       \/ /\ item[i].status \in {"failed", "deferred", "blocked"}
          /\ item'[i].status = "completed"
          /\ sends[i] = 1
          /\ RunStatusOf(i) \notin {"cancelling", "cancelled"}]_vars

(* Liveness.                                                               *)

\* What keeps running: the Temporal workflows of started items, the dispatcher
\* with its workers, the deadline and stale sweeps, the purge of batches that
\* cost nothing and the reconciler, which lists every unfinished run again and
\* again.  No fairness for an attempt's provider call and for attempts nobody
\* waits for: workers may vanish.
Fairness ==
  /\ \A i \in Items :
       /\ WF_vars(StartRunItem(i))
       /\ WF_vars(CreateRunningRankCheck(i))
       /\ WF_vars(CreateHitsBusyKeyword(i))
       /\ WF_vars(DeferRunItemForBusyKeyword(i))
       /\ WF_vars(RetryAfterBusyKeyword(i))
       /\ WF_vars(ClaimQueued(i) \/ CancelUnrunnableCandidate(i)
                    \/ ReclaimExpired(i) \/ BlockClaimLost(i))
       /\ WF_vars(ExpireLease(i))
       /\ WF_vars(DeferBatch(i))
       /\ WF_vars(MarkStaleRunningCheck(i))
       /\ WF_vars(sends[i] = 0 /\ PurgeBatch(i))
  /\ \A r \in Runs : /\ SF_vars(SweepList(r))
                     /\ WF_vars(CancelCommit(r))
                     /\ WF_vars(\E i \in Items : CloseRankCheckAsCancelled(r, i))
  /\ WF_vars(SweepCount)
  /\ WF_vars(SweepWrite)

FairSpec == Spec /\ Fairness

\* A launched run ends, whatever its workers, its commands and the sweeps do.
LaunchedRunEnds ==
  \A r \in Runs : run[r].status \in ActiveRunStatuses
                    ~> run[r].status \in TerminalRunStatuses


-----------------------------------------------------------------------------
(* What the documentation says and the code does not do.                   *)

\* docs/guides/runs.mdx:120, of the status cancelling: "Cancellation was
\* requested and the run is waiting for its remaining work to settle."  A
\* queued check of such a run has an active task, or a command that closes it.
CancellingAwaitsWork ==
  \A i \in Items :
    RunStatusOf(i) = "cancelling" /\ check[i].status = "running" /\ task[i] # "none"
      => task[i] \in ActiveTaskStates \/ i \in cancel[RunOf[i]].list

=============================================================================

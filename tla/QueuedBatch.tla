---------------------------- MODULE QueuedBatch ----------------------------
(***************************************************************************)
(* One queued batch of rank checks (lib/rank-check/queued-*.ts and         *)
(* lib/temporal/queued-rank-check-workflow.ts) from the moment it is       *)
(* prepared: submission attempts that may overlap, a provider whose answer *)
(* may be lost, inspections that poll for finished tasks, persisters that  *)
(* hold a lease on a task while they fetch and store its result, cleanup   *)
(* after the queue deadline, and the cancellation of the run.              *)
(*                                                                         *)
(* Every action is one database transaction, one call to the provider, or  *)
(* one read whose result an actor acts upon later.  An actor that dies     *)
(* takes no more steps; one that is merely slow takes them late.           *)
(***************************************************************************)
EXTENDS Naturals, FiniteSets

CONSTANTS Tasks,        \* queued_rank_check_tasks of the batch
          Submitters,   \* attempts of the submission activity
          Inspectors,   \* attempts of the inspection activity
          Persisters,   \* attempts of the result activity
          Cleaners,     \* executions of deferQueuedRankCheckBatch
          NoOwner,      \* a task without a lease
          Faults,       \* which of PossibleFaults may happen
          MaxDisturbances  \* how many of cancellation, mode change and end of
                           \* the workflow meet in one behaviour

PossibleFaults == {"cancel", "cancel_crash", "cutover", "legacy",
                   "workflow_cancelled", "connection_removed"}

ASSUME BatchAssumption ==
  /\ IsFiniteSet(Tasks) /\ Tasks # {}
  /\ NoOwner \notin Persisters
  /\ Faults \subseteq PossibleFaults
  /\ MaxDisturbances \in Nat

VARIABLES
  batch,      \* state of the batch row
  task,       \* task rows
  check,      \* check[t]: status of the rank check of task t
  taken,      \* tasks that the provider took (external)
  posted,     \* how often the batch was posted (history)
  reply,      \* the answer to the post, as the submitter received it
  submitter, inspector, persister, cleaner,   \* where each attempt stands
  flow,       \* the batch workflow: "submit", "poll" or "ended"
  mode,       \* scheduler mode of this deployment
  expired,    \* the queue deadline has passed
  cancelled,  \* the run of the batch was cancelled
  closing     \* checks that the cancel command still has to close

rows == <<batch, task, check>>
calls == <<taken, posted, reply>>
attempts == <<submitter, inspector, persister, cleaner>>
world == <<flow, mode, expired, cancelled, closing>>
vars == <<rows, calls, attempts, world>>

TerminalStates == {"completed", "deferred", "failed"}
ActiveTaskStates == {"prepared", "submitting", "submitted", "ambiguous",
                     "ready", "provider_failed", "persisting"}
ActiveBatchStates == {"prepared", "submitting", "submitted", "ambiguous", "ready"}
Unsent == {"prepared", "submitting"}
Outstanding == {"submitting", "submitted", "ambiguous"}
Persistable == {"ready", "provider_failed", "persisting"}

\* charge: a positive cost of the task is known; error: an error is stored.
TaskRow == [state : ActiveTaskStates \cup TerminalStates,
            error : BOOLEAN, charge : BOOLEAN,
            owner : Persisters \cup {NoOwner}, live : BOOLEAN]

NewTask == [state |-> "prepared", error |-> FALSE, charge |-> FALSE,
            owner |-> NoOwner, live |-> FALSE]

\* What the answer says of one task: "charged" is refused at a cost.
Answers == {"accepted", "refused", "charged", "unknown"}
NoReply == [t \in Tasks |-> "none"]

SubmitterPhases == {"idle", "claimed", "refused", "fenced", "answered", "done"}
NoLook == [phase |-> "idle"]
Looks == {NoLook} \cup
         [phase : {"read", "polled"}, saw : ActiveBatchStates, pending : SUBSET Tasks]
NoWork == [phase |-> "idle"]
Works == {NoWork, [phase |-> "closing"]} \cup
         [phase : {"claimed"}, task : Tasks, error : BOOLEAN, closed : BOOLEAN]
NoSweep == [phase |-> "idle"]
Sweeps == {NoSweep, [phase |-> "closing"]} \cup
          [phase : {"read"}, charged : SUBSET Tasks]

BatchTypeOK ==
  /\ batch \in ActiveBatchStates \cup TerminalStates
  /\ task \in [Tasks -> TaskRow]
  /\ check \in [Tasks -> {"running"} \cup TerminalStates]
  /\ taken \in SUBSET Tasks
  /\ posted \in Nat
  /\ reply \in [Tasks -> Answers \cup {"none"}]
  /\ submitter \in [Submitters -> SubmitterPhases]
  /\ inspector \in [Inspectors -> Looks]
  /\ persister \in [Persisters -> Works]
  /\ cleaner \in [Cleaners -> Sweeps]
  /\ flow \in {"submit", "poll", "ended"}
  /\ mode \in {"dispatch", "cutover", "legacy"}
  /\ expired \in BOOLEAN
  /\ cancelled \in BOOLEAN
  /\ closing \in SUBSET Tasks

Init ==
  /\ batch = "prepared"
  /\ task = [t \in Tasks |-> NewTask]
  /\ check = [t \in Tasks |-> "running"]
  /\ taken = {}
  /\ posted = 0
  /\ reply = NoReply
  /\ submitter = [s \in Submitters |-> "idle"]
  /\ inspector = [n \in Inspectors |-> NoLook]
  /\ persister = [p \in Persisters |-> NoWork]
  /\ cleaner = [c \in Cleaners |-> NoSweep]
  /\ flow = "submit"
  /\ mode = "dispatch"
  /\ expired = FALSE
  /\ cancelled = FALSE
  /\ closing = {}

-----------------------------------------------------------------------------
(* Rows.                                                                    *)

Active(t) == task[t].state \in ActiveTaskStates

\* Retrieving what was paid for goes on in cutover mode, nothing else does.
AllowPaidRetrieval ==
  \/ mode = "dispatch"
  \/ mode = "cutover" /\ batch \in {"ambiguous", "ready", "submitted", "submitting"}

\* Tasks in one of the states from get the given state and error flag.
Move(from, state, error) ==
  task' = [t \in Tasks |->
             IF task[t].state \in from
             THEN [task[t] EXCEPT !.state = state, !.error = error] ELSE task[t]]

MarkAmbiguous ==
  /\ Move(Unsent, "ambiguous", TRUE)
  /\ batch' = IF batch \in Unsent THEN "ambiguous" ELSE batch
  /\ UNCHANGED check

MarkDefiniteFailure ==
  /\ Move(Unsent, "provider_failed", TRUE)
  /\ batch' = IF batch \in ActiveBatchStates THEN "ready" ELSE batch
  /\ UNCHANGED check

Release(row, state) == [row EXCEPT !.state = state, !.owner = NoOwner, !.live = FALSE]

\* Here and below: variants with a fault a change could introduce, which the
\* runs tell from the code.  They are not part of the specification.
LeaseNeverRunsOut(t) ==
  task[t].state \in {"ready", "provider_failed"} /\ task[t].owner = NoOwner

\* claimQueuedPersistenceLease: a free task, or one whose lease ran out.
LeaseFree(t) ==
  \/ task[t].state \in {"ready", "provider_failed"} /\ task[t].owner = NoOwner
  \/ task[t].state = "persisting" /\ task[t].owner # NoOwner /\ ~task[t].live

\* The cleanup closes a task unless somebody holds a lease on it.
Closable(t) ==
  /\ Active(t)
  /\ IF task[t].state \in Persistable THEN LeaseFree(t) ELSE task[t].owner = NoOwner

\* reconcileTaskAtDeadline: a task with a known charge fails at that cost, any
\* other is deferred; a check that was closed before keeps its verdict.
VerdictAtDeadline(t, charged) ==
  IF check[t] # "running" THEN check[t]
  ELSE IF t \in charged THEN "failed" ELSE "deferred"

ReconcileTasks(charged) ==
  /\ task' = [t \in Tasks |-> IF Closable(t)
                              THEN Release(task[t], VerdictAtDeadline(t, charged))
                              ELSE task[t]]
  /\ check' = [t \in Tasks |-> IF Closable(t) THEN VerdictAtDeadline(t, charged)
                               ELSE check[t]]

TerminalBatchState(taskRows) ==
  IF \E t \in Tasks : taskRows[t].state = "failed" THEN "failed"
  ELSE IF \E t \in Tasks : taskRows[t].state = "deferred" THEN "deferred"
  ELSE "completed"

\* finalizeQueuedBatchState: a batch none of whose tasks is active ends once.
Finalized(taskRows) ==
  IF batch \in ActiveBatchStates /\ \A t \in Tasks : taskRows[t].state \in TerminalStates
  THEN TerminalBatchState(taskRows) ELSE batch

\* deferQueuedRankCheckBatch, where nothing can come between its transactions.
DeferBatch ==
  /\ ReconcileTasks({t \in Tasks : task[t].charge})
  /\ batch' = Finalized(task')

-----------------------------------------------------------------------------
(* The submission activity.                                                 *)

ToPoll == flow' = IF flow = "submit" THEN "poll" ELSE flow
Step(s, phase) == submitter' = [submitter EXCEPT ![s] = phase]
Returns(s) ==
  /\ Step(s, "done")
  /\ ToPoll
  /\ reply' = IF submitter[s] = "answered" THEN NoReply ELSE reply
  /\ UNCHANGED <<taken, posted, inspector, persister, cleaner, mode, expired,
                 cancelled, closing>>

SubmitClaimsAgain(s) ==
  /\ submitter[s] = "idle"
  /\ flow = "submit"
  /\ mode = "dispatch"
  /\ batch \in Unsent
  /\ ~cancelled
  /\ batch' = "submitting"
  /\ Move({"prepared"}, "submitting", FALSE)
  /\ Step(s, "claimed")
  /\ UNCHANGED <<check, calls, inspector, persister, cleaner, world>>

\* One attempt gets the claim on a prepared batch, if its run still wants it.
SubmitClaims(s) ==
  /\ submitter[s] = "idle"
  /\ flow = "submit"
  /\ mode = "dispatch"
  /\ batch = "prepared"
  /\ ~cancelled
  /\ batch' = "submitting"
  /\ Move({"prepared"}, "submitting", FALSE)
  /\ Step(s, "claimed")
  /\ UNCHANGED <<check, calls, inspector, persister, cleaner, world>>

\* A refusal was recorded: nothing was sent, whoever reads it next.
RefusalRecorded == \E s \in Submitters : submitter[s] = "refused"

\* A later attempt never posts: a claim without an answer is ambiguous, unless
\* its refusal was recorded.
SubmitResumes(s) ==
  /\ submitter[s] = "idle"
  /\ flow = "submit"
  /\ mode = "dispatch"
  /\ batch # "prepared"
  /\ IF batch # "submitting" THEN UNCHANGED rows
     ELSE IF RefusalRecorded THEN DeferBatch ELSE MarkAmbiguous
  /\ Returns(s)

\* Submission disabled: what was paid for stays, the rest is deferred.
SubmitDisabled(s) ==
  /\ submitter[s] = "idle"
  /\ flow = "submit"
  /\ mode # "dispatch"
  /\ IF AllowPaidRetrieval /\ ~(batch = "submitting" /\ RefusalRecorded)
     THEN UNCHANGED rows ELSE DeferBatch
  /\ Returns(s)

\* Admission, key or rate limit refuse the claimed batch before it is sent.
SubmitIsRefused(s) ==
  /\ submitter[s] = "claimed"
  /\ Step(s, "refused")
  /\ UNCHANGED <<rows, calls, inspector, persister, cleaner, world>>

\* The batch is given up unsent, also when access is denied at the claim.
SubmitDefers(s) ==
  /\ \/ submitter[s] \in {"claimed", "refused"}
     \/ submitter[s] = "idle" /\ flow = "submit" /\ mode = "dispatch" /\ batch = "prepared"
  /\ DeferBatch
  /\ Returns(s)

\* Any other error before the batch was sent.
SubmitFailsUnsent(s) ==
  /\ submitter[s] = "claimed"
  /\ MarkDefiniteFailure
  /\ Returns(s)

\* The tags are stored while every task is still submitting, and the paid-call
\* fence is passed.
SubmitFences(s) ==
  /\ submitter[s] = "claimed"
  /\ \A t \in Tasks : task[t].state = "submitting"
  /\ Step(s, "fenced")
  /\ UNCHANGED <<rows, calls, inspector, persister, cleaner, world>>

\* The POST.  The provider takes some of the tasks, and answers.
SubmitPosts(s) ==
  /\ submitter[s] = "fenced"
  /\ posted' = posted + 1
  /\ taken' \in SUBSET Tasks
  /\ \E answer \in [Tasks -> Answers] :
       /\ \A t \in Tasks : /\ answer[t] = "accepted" => t \in taken'
                           /\ answer[t] \in {"refused", "charged"} => t \notin taken'
       /\ reply' = answer
  /\ Step(s, "answered")
  /\ UNCHANGED <<rows, inspector, persister, cleaner, world>>

\* The answer never arrived, was not understood or could not be stored.
SubmitIsAmbiguous(s) ==
  /\ submitter[s] = "answered"
  /\ MarkAmbiguous
  /\ Returns(s)

StateAfterAnswer(answer) ==
  IF answer = "accepted" THEN "submitted"
  ELSE IF answer = "refused" THEN "provider_failed" ELSE answer

StateAfter(answer) ==
  CASE answer = "accepted" -> "submitted"
    [] answer = "unknown"  -> "ambiguous"
    [] OTHER               -> "provider_failed"

\* persistQueuedSubmissionResult
SubmitPersists(s) ==
  /\ submitter[s] = "answered"
  /\ task' = [t \in Tasks |->
                IF task[t].state = "submitting"
                THEN [task[t] EXCEPT !.state = StateAfter(reply[t]),
                                     !.error = reply[t] # "accepted",
                                     !.charge = reply[t] \in {"accepted", "charged"}]
                ELSE task[t]]
  /\ batch' = IF batch = "submitting" THEN "submitted" ELSE batch
  /\ UNCHANGED check
  /\ Returns(s)

-----------------------------------------------------------------------------
(* The inspection activity.                                                 *)

Look(n, look) == inspector' = [inspector EXCEPT ![n] = look]

InspectReads(n) ==
  /\ inspector[n] = NoLook
  /\ flow = "poll"
  /\ ~expired
  /\ AllowPaidRetrieval
  /\ batch \in ActiveBatchStates
  /\ Look(n, [phase |-> "read", saw |-> batch,
              pending |-> {t \in Tasks : task[t].state \in Outstanding}])
  /\ UNCHANGED <<rows, calls, submitter, persister, cleaner, world>>

\* Tasks the provider lists as finished (some of those it took) become ready,
\* if they are still outstanding.
InspectMarksReady(n) ==
  /\ inspector[n].phase = "read"
  /\ \E S \in SUBSET (inspector[n].pending \cap taken) :
       task' = [t \in Tasks |->
                  IF t \in S /\ task[t].state \in Outstanding
                  THEN [task[t] EXCEPT !.state = "ready", !.error = FALSE] ELSE task[t]]
  /\ Look(n, [inspector[n] EXCEPT !.phase = "polled"])
  /\ UNCHANGED <<batch, check, calls, submitter, persister, cleaner, world>>

\* failUnrecoverableTasks: the connection is gone or the provider's list failed.
InspectFailsTasks(n) ==
  /\ "connection_removed" \in Faults
  /\ inspector[n].phase = "read"
  /\ inspector[n].pending # {}
  /\ Move(Outstanding, "provider_failed", TRUE)
  /\ batch' = IF batch \in ActiveBatchStates THEN "ready" ELSE batch
  /\ Look(n, [inspector[n] EXCEPT !.phase = "polled"])
  /\ UNCHANGED <<check, calls, submitter, persister, cleaner, world>>

InspectedState(saw) ==
  IF \E t \in Tasks : task[t].state \in Persistable THEN "ready"
  ELSE IF \E t \in Tasks : task[t].state \in {"ambiguous", "submitting"} THEN "ambiguous"
  ELSE saw

\* The state is written over the one that was read, if it is still there.
InspectWrites(n) ==
  /\ inspector[n].phase = "polled"
  /\ batch' = IF \A t \in Tasks : ~Active(t) THEN Finalized(task)
              ELSE IF batch = inspector[n].saw THEN InspectedState(inspector[n].saw)
              ELSE batch
  /\ Look(n, NoLook)
  /\ UNCHANGED <<task, check, calls, submitter, persister, cleaner, world>>

-----------------------------------------------------------------------------
(* The result activity.                                                     *)

Work(p, work) == persister' = [persister EXCEPT ![p] = work]

\* claimQueuedResultTask: the lease, and the task as it was when it was claimed.
PersisterClaims(p, t) ==
  /\ persister[p].phase \in {"idle", "closing"}
  /\ persister[p].phase = "idle" => flow = "poll" /\ AllowPaidRetrieval
  /\ ~expired
  /\ LeaseFree(t)
  /\ task' = [task EXCEPT ![t] = [@ EXCEPT !.state = "persisting", !.owner = p, !.live = TRUE]]
  /\ Work(p, [phase |-> "claimed", task |-> t, error |-> task[t].error,
              closed |-> check[t] # "running"])
  /\ UNCHANGED <<batch, check, calls, submitter, inspector, cleaner, world>>

OwnsLease(p, t) ==
  task[t].state = "persisting" /\ task[t].owner = p /\ task[t].live

Persisted(p) ==
  /\ Work(p, [phase |-> "closing"])
  /\ UNCHANGED <<batch, calls, submitter, inspector, cleaner, world>>

\* reconcileTaskWithRankCheck: the task follows a check that somebody closed.
FollowCheck(p, t) ==
  /\ task' = IF OwnsLease(p, t) /\ check[t] # "running"
             THEN [task EXCEPT ![t] = Release(@, check[t])] ELSE task
  /\ UNCHANGED check

StoreVerdictUnguarded(p, t, verdict) ==
  IF check[t] = "running"
  THEN /\ task' = IF OwnsLease(p, t) THEN [task EXCEPT ![t] = Release(@, verdict)] ELSE task
       /\ check' = [check EXCEPT ![t] = verdict]
  ELSE FollowCheck(p, t)

\* The verdict is stored by the holder of the lease, into a running check.
StoreVerdict(p, t, verdict) ==
  IF OwnsLease(p, t) /\ check[t] = "running"
  THEN /\ task' = [task EXCEPT ![t] = Release(@, verdict)]
       /\ check' = [check EXCEPT ![t] = verdict]
  ELSE FollowCheck(p, t)

PersisterCompletes(p) ==
  /\ persister[p].phase = "claimed"
  /\ ~persister[p].closed /\ ~persister[p].error
  /\ StoreVerdict(p, persister[p].task, "completed")
  /\ Persisted(p)

\* A stored error, or a result that is refused, unusable or undecided.
PersisterFails(p) ==
  /\ persister[p].phase = "claimed"
  /\ ~persister[p].closed
  /\ StoreVerdict(p, persister[p].task, "failed")
  /\ Persisted(p)

PersisterFollows(p) ==
  /\ persister[p].phase = "claimed"
  /\ persister[p].closed
  /\ FollowCheck(p, persister[p].task)
  /\ Persisted(p)

\* A pending result, an aborted attempt or missing evidence: the lease is given
\* back, if it is still held.
PersisterReleases(p) ==
  /\ persister[p].phase = "claimed"
  /\ LET t == persister[p].task
     IN  task' = IF OwnsLease(p, t)
                 THEN [task EXCEPT ![t] =
                         Release(@, IF persister[p].error THEN "provider_failed" ELSE "ready")]
                 ELSE task
  /\ UNCHANGED check
  /\ Persisted(p)

PersisterFinalizes(p) ==
  /\ persister[p].phase = "closing"
  /\ batch' = Finalized(task)
  /\ Work(p, NoWork)
  /\ UNCHANGED <<task, check, calls, submitter, inspector, cleaner, world>>

-----------------------------------------------------------------------------
(* Cleanup: deferQueuedRankCheckBatch, by the workflow, by an activity that *)
(* may no longer retrieve, or by the deadline maintenance.                  *)

CleanupDue == \/ expired
              \/ ~AllowPaidRetrieval
              \/ flow = "ended" /\ "workflow_cancelled" \in Faults

CleanerReads(c) ==
  /\ cleaner[c] = NoSweep
  /\ CleanupDue
  /\ batch \in ActiveBatchStates
  /\ cleaner' = [cleaner EXCEPT ![c] =
                   [phase |-> "read",
                    charged |-> {t \in Tasks : Active(t) /\ task[t].charge}]]
  /\ UNCHANGED <<rows, calls, submitter, inspector, persister, world>>

\* The charges are those of the read, everything else is read under the lock.
CleanerReconciles(c) ==
  /\ cleaner[c].phase = "read"
  /\ ReconcileTasks(cleaner[c].charged)
  /\ cleaner' = [cleaner EXCEPT ![c] = [phase |-> "closing"]]
  /\ UNCHANGED <<batch, calls, submitter, inspector, persister, world>>

CleanerFinalizes(c) ==
  /\ cleaner[c].phase = "closing"
  /\ batch' = Finalized(task)
  /\ cleaner' = [cleaner EXCEPT ![c] = NoSweep]
  /\ UNCHANGED <<task, check, calls, submitter, inspector, persister, world>>

-----------------------------------------------------------------------------
(* Time, the workflow, the deployment and the run.                          *)

Disturbed ==
  Cardinality({d \in 1..3 : \/ d = 1 /\ cancelled
                            \/ d = 2 /\ mode # "dispatch"
                            \/ d = 3 /\ flow = "ended"})

DeadlinePasses ==
  /\ ~expired
  /\ expired' = TRUE
  /\ UNCHANGED <<rows, calls, attempts, flow, mode, cancelled, closing>>

LeaseExpires(t) ==
  /\ task[t].live
  /\ task' = [task EXCEPT ![t].live = FALSE]
  /\ UNCHANGED <<batch, check, calls, attempts, world>>

\* An activity failed for good, or the workflow was cancelled.
WorkflowEnds ==
  /\ flow # "ended"
  /\ Disturbed < MaxDisturbances
  /\ flow' = "ended"
  /\ UNCHANGED <<rows, calls, attempts, mode, expired, cancelled, closing>>

ChangeMode(m) ==
  /\ m \in Faults
  /\ mode = "dispatch"
  /\ Disturbed < MaxDisturbances
  /\ mode' = m
  /\ UNCHANGED <<rows, calls, attempts, flow, expired, cancelled, closing>>

\* cancelRankCheckRun: only a batch nobody claimed is deferred.
CancelRun ==
  /\ "cancel" \in Faults
  /\ ~cancelled
  /\ Disturbed < MaxDisturbances
  /\ cancelled' = TRUE
  /\ closing' = {t \in Tasks : check[t] = "running"}
  /\ IF batch = "prepared"
     THEN batch' = "deferred" /\ Move({"prepared"}, "deferred", TRUE)
     ELSE UNCHANGED <<batch, task>>
  /\ UNCHANGED <<check, calls, attempts, flow, mode, expired>>

CloseRankCheckAsCancelled(t) ==
  /\ t \in closing
  /\ check' = IF check[t] = "running" THEN [check EXCEPT ![t] = "failed"] ELSE check
  /\ closing' = closing \ {t}
  /\ UNCHANGED <<batch, task, calls, attempts, flow, mode, expired, cancelled>>

CancelCrashes ==
  /\ "cancel_crash" \in Faults
  /\ closing # {}
  /\ closing' = {}
  /\ UNCHANGED <<rows, calls, attempts, flow, mode, expired, cancelled>>

-----------------------------------------------------------------------------
SubmitStep(s) ==
  \/ SubmitClaims(s) \/ SubmitResumes(s) \/ SubmitDisabled(s) \/ SubmitIsRefused(s)
  \/ SubmitDefers(s) \/ SubmitFailsUnsent(s) \/ SubmitFences(s) \/ SubmitPosts(s)
  \/ SubmitIsAmbiguous(s) \/ SubmitPersists(s)

InspectStep(n) ==
  InspectReads(n) \/ InspectMarksReady(n) \/ InspectFailsTasks(n) \/ InspectWrites(n)

PersistStep(p) ==
  \/ \E t \in Tasks : PersisterClaims(p, t)
  \/ PersisterCompletes(p) \/ PersisterFails(p) \/ PersisterFollows(p)
  \/ PersisterReleases(p) \/ PersisterFinalizes(p)

CleanerStep(c) == CleanerReads(c) \/ CleanerReconciles(c) \/ CleanerFinalizes(c)

Next ==
  \/ \E s \in Submitters : SubmitStep(s)
  \/ \E n \in Inspectors : InspectStep(n)
  \/ \E p \in Persisters : PersistStep(p)
  \/ \E c \in Cleaners : CleanerStep(c)
  \/ \E t \in Tasks : LeaseExpires(t) \/ CloseRankCheckAsCancelled(t)
  \/ \E m \in {"cutover", "legacy"} : ChangeMode(m)
  \/ DeadlinePasses \/ WorkflowEnds \/ CancelRun \/ CancelCrashes

Spec == Init /\ [][Next]_vars

\* The deadline passes and leases run out with time; the maintenance workflow
\* runs on a schedule.  Nothing is assumed of the batch workflow, its activity
\* attempts or the provider: all of them may stop.
FairSpec ==
  /\ Spec
  /\ WF_vars(DeadlinePasses)
  /\ \A t \in Tasks : WF_vars(LeaseExpires(t))
  /\ \A c \in Cleaners : WF_vars(expired /\ CleanerStep(c))

-----------------------------------------------------------------------------
(* Properties.                                                              *)

\* A batch keeps its promises (BatchPromise): it is posted at most once,
\* however often its submission is retried; a task keeps its first verdict,
\* whoever of persister, cleanup and cancel command comes late; only posted
\* tasks are completed; the batch ends once, when all of them have a verdict.
Promise ==
  INSTANCE BatchPromise
    WITH verdict <- [t \in Tasks |-> IF Active(t) THEN "open" ELSE task[t].state],
         report <- IF batch \in ActiveBatchStates THEN "open" ELSE batch

PromiseSpec == Promise!Spec

\* Only the cancel command closes a check behind the back of its task, and only
\* it may leave a settled task with a running check: a persister that lost its
\* lease closes nothing (queued-persistence-lease.ts).
TaskAndCheckAgree ==
  \A t \in Tasks :
    /\ task[t].state = "completed" <=> check[t] = "completed"
    /\ Active(t) => check[t] = "running" \/ cancelled
    /\ ~Active(t) => check[t] = task[t].state \/ cancelled

\* Whatever stops or is lost - the answer to the POST, a persister with its
\* lease, the workflow itself - the batch ends: the deadline maintenance closes
\* every task that nobody holds, again and again.
BatchEnds == <>(batch \in TerminalStates)

\* "records a known paid deadline charge once in canonical failed spend"
\* (queued-lifecycle.test.ts): a task whose charge is known is not deferred as
\* if it had been free.
KnownChargeIsRecorded ==
  \A t \in Tasks : task[t].charge => task[t].state # "deferred"

=============================================================================

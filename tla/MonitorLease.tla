---------------------------- MODULE MonitorLease ----------------------------
(***************************************************************************)
(* One job of the local monitor worker (lib/local-monitor-worker/) and the *)
(* measurement run it launches (lib/local-monitoring-store/).  Activity    *)
(* executions claim the job with a lease, one after another; one that lost *)
(* its lease goes on until a check stops it.  The first one admits the run *)
(* and sends each target's paid request once; later ones only continue:    *)
(* they free targets whose request was never sent, reconcile requests      *)
(* whose answer was lost, and collect results, under a lease per target.   *)
(***************************************************************************)
EXTENDS Naturals, FiniteSets

CONSTANTS Targets,   \* targets of the job
          Workers,   \* activity executions; a worker is also its lease token
          Nobody     \* no worker

VARIABLES
  job,       \* the launch intent: state, reason, lease and whether it has a run
  rec,       \* rec[t]: the submission record of the run's item for t
  op,        \* op[t]: its paid operation, with dispatch lease and fence
  owner,     \* owner[t]: the row that keeps t from being measured again
  worker,    \* worker[w]: where execution w stands
  proof,     \* proof[t]: retained evidence of the provider's answer (external)
  late,      \* the collection deadline has passed
  sent       \* targets whose request was sent (history)

monitorVars == <<job, rec, op, owner, worker, proof, late, sent>>

NoItem == [status |-> "none", outcome |-> "none", settled |-> FALSE,
           collected |-> FALSE, cancelled |-> FALSE]
NoOp == [state |-> "none", live |-> FALSE, fenced |-> FALSE]
Free == [held |-> FALSE, version |-> 0, token |-> Nobody, live |-> FALSE]
NoWork == [at |-> "idle", todo |-> {}, now |-> {}, saw |-> 0, blocked |-> {}]

Init ==
  /\ job = [state |-> "queued", reason |-> "none", owner |-> Nobody, live |-> FALSE,
            run |-> FALSE]
  /\ rec = [t \in Targets |-> NoItem]
  /\ op = [t \in Targets |-> NoOp]
  /\ owner = [t \in Targets |-> Free]
  /\ worker = [w \in Workers |-> NoWork]
  /\ proof = [t \in Targets |-> "none"]
  /\ late = FALSE
  /\ sent = {}

items == <<rec, op, owner, proof>>
At(w, phase) == worker[w].at = phase
Goes(w, phase) == worker' = [worker EXCEPT ![w].at = phase]
TurnsTo(w, t, phase) == worker' = [worker EXCEPT ![w] = [@ EXCEPT !.at = phase, !.now = {t}]]

\* w is done with target t, which it could not bring forward if blocked.
Leaves(w, t, phase, blocked) ==
  worker' = [worker EXCEPT ![w] =
               [worker[w] EXCEPT !.at = phase, !.todo = @ \ {t}, !.now = {}, !.saw = 0,
                                 !.blocked = IF blocked THEN @ \cup {t} ELSE @]]
Ends(w) == worker' = [worker EXCEPT ![w] = [NoWork EXCEPT !.at = "done"]]

-----------------------------------------------------------------------------
(* The job.                                                                 *)

Terminal == {"complete", "blocked"}

\* assertMonitorClaim
Holds(w) == job.state = "running" /\ job.owner = w /\ job.live

Becomes(state, reason) ==
  job' = [job EXCEPT !.state = state, !.reason = reason, !.owner = Nobody, !.live = FALSE]

Claim(w) ==
  /\ At(w, "idle")
  /\ job.state \notin Terminal
  /\ ~job.live
  /\ job' = [job EXCEPT !.state = "running", !.owner = w, !.live = TRUE]
  /\ Goes(w, "prepare")
  /\ UNCHANGED <<items, late, sent>>

\* A run that exists is only continued; "failed": any error, or the command ran
\* out in the queue; "revoked": the actor lost access.
Prepare(w) ==
  /\ At(w, "prepare")
  /\ \E next \in {"continue", "admit", "failed", "revoked"} :
       /\ next \in {"continue", "admit"} => Holds(w)
       /\ next = "continue" => job.run
       /\ next = "admit" => ~job.run
       /\ Goes(w, next)
  /\ UNCHANGED <<job, items, late, sent>>

\* The catch block of executeMonitorJob.
Fail(w) ==
  /\ worker[w].at \in {"failed", "revoked"}
  /\ IF Holds(w) /\ (~job.run \/ At(w, "revoked"))
     THEN Becomes("blocked", IF job.run THEN "access_revoked" ELSE "admission_refused")
     ELSE UNCHANGED job
  /\ Ends(w)
  /\ UNCHANGED <<items, late, sent>>

\* admitLocalMeasurementRun: the run, its items, their paid operations and the
\* owner rows in one transaction, whose commit may be reported as failed.
Admit(w) ==
  /\ At(w, "admit")
  /\ Holds(w)
  /\ ~job.run
  /\ job' = [job EXCEPT !.run = TRUE]
  /\ rec' = [t \in Targets |-> [NoItem EXCEPT !.status = "claimed"]]
  /\ op' = [t \in Targets |-> [state |-> "intended", live |-> TRUE, fenced |-> FALSE]]
  /\ owner' = [t \in Targets |-> [held |-> TRUE, version |-> 0, token |-> w, live |-> TRUE]]
  /\ worker' = [worker EXCEPT ![w].at = "submit", ![w].todo = Targets]
       \/ Goes(w, "failed")
  /\ UNCHANGED <<proof, late, sent>>

AdmitFails(w) ==
  /\ At(w, "admit")
  /\ Goes(w, "failed")
  /\ UNCHANGED <<job, items, late, sent>>

-----------------------------------------------------------------------------
(* Sending, once, by the execution that admitted the run.                   *)

\* Any failure before the POST; it is not repeated.
SubmitFails(w, t) ==
  /\ \/ At(w, "submit") /\ t \in worker[w].todo
     \/ worker[w].at \in {"fenced", "answered", "recorded"} /\ t \in worker[w].now
  /\ Leaves(w, t, "submit", FALSE)
  /\ UNCHANGED <<job, items, late, sent>>

\* beforeDispatch: native fence and projection in one transaction.
Fence(w, t) ==
  /\ At(w, "submit")
  /\ t \in worker[w].todo
  /\ Holds(w)
  /\ rec[t].status = "claimed"
  /\ owner[t].held /\ owner[t].version = 0 /\ owner[t].token = w /\ owner[t].live
  /\ op[t] = [state |-> "intended", live |-> TRUE, fenced |-> FALSE]
  /\ op' = [op EXCEPT ![t].fenced = TRUE]
  /\ rec' = [rec EXCEPT ![t].status = "unknown_acceptance"]
  /\ TurnsTo(w, t, "fenced")
  /\ UNCHANGED <<job, owner, proof, late, sent>>

\* The POST.  What the provider answered may be retained as proof, whether or
\* not the answer arrives here.
Post(w, t) ==
  /\ At(w, "fenced")
  /\ t \in worker[w].now
  /\ rec[t].status = "unknown_acceptance" /\ ~rec[t].cancelled
  /\ sent' = sent \cup {t}
  /\ \E answer \in {"accepted", "rejected"} :
       proof' = [proof EXCEPT ![t] = answer] \/ UNCHANGED proof
  /\ Goes(w, "answered")
  /\ UNCHANGED <<job, rec, op, owner, late>>

\* The outcome event, with what arrived.
Record(w, t) ==
  /\ At(w, "answered")
  /\ t \in worker[w].now
  /\ op[t].fenced /\ op[t].state # "zero"
  /\ rec[t].status = "unknown_acceptance" /\ rec[t].outcome = "none"
  /\ \E answer \in (IF proof[t] = "none" THEN {"accepted", "rejected", "unknown"}
                    ELSE {proof[t], "unknown"}) :
       rec' = [rec EXCEPT ![t].outcome = answer,
                          ![t].status = IF answer = "unknown" THEN @ ELSE answer]
  /\ Goes(w, "recorded")
  /\ UNCHANGED <<job, op, owner, proof, late, sent>>

\* Here and below: variants with a fault a change could introduce, which the
\* runs tell from the code.  They are not part of the specification.
ProvenByAnswer(item, paid) ==
  item.settled /\ paid.state = "settled" /\ item.status \in {"accepted", "rejected"}

\* releaseProvenLocalOwner: answer, cost and, for accepted work, result are known.
Proven(item, paid) ==
  /\ item.settled
  /\ paid.state = "settled"
  /\ item.status = "rejected" \/ (item.status = "accepted" /\ item.collected)

\* The row of a target passes to a version that nobody holds a lease of.
Unleased(row) == [row EXCEPT !.version = @ + 1, !.token = Nobody, !.live = FALSE]

\* settleLocalItemInTransaction: the meter, the record, the end of the sender's
\* lease, and releaseProvenLocalOwner.  A cost may stay unknown.
SettleItem(t) ==
  /\ rec[t].outcome # "none"
  /\ op[t].fenced /\ op[t].state # "zero"
  /\ rec' = [rec EXCEPT ![t].settled = TRUE]
  /\ IF rec[t].settled THEN UNCHANGED op
     ELSE \E state \in {"settled", "pending"} :
            /\ state = "settled" => rec[t].outcome # "unknown"
            /\ op' = [op EXCEPT ![t].state = IF @ = "settled" THEN @ ELSE state]
  /\ owner' = [owner EXCEPT ![t] =
                 IF ~@.held THEN @
                 ELSE IF Proven(rec'[t], op'[t]) THEN Free
                 ELSE IF rec[t].settled THEN @
                 ELSE Unleased(@)]

Settle(w, t) ==
  /\ At(w, "recorded")
  /\ t \in worker[w].now
  /\ SettleItem(t)
  /\ Leaves(w, t, "submit", FALSE)
  /\ UNCHANGED <<job, proof, late, sent>>

SubmitEnds(w) ==
  /\ At(w, "submit")
  /\ worker[w].todo = {}
  /\ Goes(w, "continue")
  /\ UNCHANGED <<job, items, late, sent>>

-----------------------------------------------------------------------------
(* Continuing the retained run, target by target.                           *)

Continue(w) ==
  /\ At(w, "continue")
  /\ IF Holds(w)
     THEN worker' = [worker EXCEPT ![w].at = "items", ![w].todo = Targets, ![w].blocked = {}]
     ELSE Goes(w, "failed")
  /\ UNCHANGED <<job, items, late, sent>>

ContinueRevoked(w) ==
  /\ At(w, "continue")
  /\ Goes(w, "revoked")
  /\ UNCHANGED <<job, items, late, sent>>

\* isUnsentLocalProjection
LooksUnsent(t) ==
  /\ rec[t].status \in {"claimed", "cancelled", "unknown_acceptance"}
  /\ rec[t].outcome = "none" /\ ~rec[t].settled /\ ~rec[t].collected

\* A retained attempt: the fence wrote its identifier, which stays.
HasAttempt(t) == rec[t].status \notin {"claimed", "cancelled"}

Collectable(t) ==
  rec[t].settled /\ rec[t].outcome = "accepted" /\ ~rec[t].collected

\* An error on the way blocks the target, in this execution.
ItemFails(w, t) ==
  /\ \/ At(w, "items") /\ t \in worker[w].todo
     \/ worker[w].at \in {"release", "lease_collect", "lease_reconcile"} /\ t \in worker[w].now
  /\ ~Holds(w)
  /\ Leaves(w, t, "items", TRUE)
  /\ UNCHANGED <<job, items, late, sent>>

\* continueMonitorItem up to its decision: the lease of the target is free.
ReadItem(w, t) ==
  /\ At(w, "items")
  /\ t \in worker[w].todo
  /\ Holds(w)
  /\ IF ~owner[t].held \/ owner[t].live THEN Leaves(w, t, "items", FALSE)
     ELSE IF Collectable(t) /\ late THEN Leaves(w, t, "items", TRUE)
     ELSE worker' = [worker EXCEPT ![w] =
            [@ EXCEPT !.now = {t}, !.saw = owner[t].version,
                      !.at = IF LooksUnsent(t) THEN "release"
                             ELSE IF Collectable(t) THEN "lease_collect"
                             ELSE "lease_reconcile"]]
  /\ UNCHANGED <<job, items, late, sent>>

\* cancelUnsentPaidAttempt proves that nothing was sent while the lease of the
\* operation is live and no fence was passed.
Cancellable(t) == op[t].state = "intended" /\ op[t].live /\ ~op[t].fenced

MayBeSent(t) == op[t].fenced

\* releaseExpiredUnsentMonitorItem: cancelled as free and released; a request
\* that may have been sent is reconciled instead.
ReleaseUnsent(w, t) ==
  /\ At(w, "release")
  /\ t \in worker[w].now
  /\ Holds(w)
  /\ IF ~owner[t].held THEN Leaves(w, t, "items", TRUE) /\ UNCHANGED <<rec, op, owner>>
     ELSE IF ~LooksUnsent(t) \/ owner[t].live \/ MayBeSent(t)
     THEN /\ IF HasAttempt(t) THEN Goes(w, "lease_reconcile")
             ELSE Leaves(w, t, "items", FALSE)
          /\ UNCHANGED <<rec, op, owner>>
     ELSE IF Cancellable(t)
     THEN /\ op' = [op EXCEPT ![t].state = "zero"]
          /\ rec' = [rec EXCEPT ![t].status = "cancelled", ![t].cancelled = TRUE]
          /\ owner' = [owner EXCEPT ![t] = Free]
          /\ Leaves(w, t, "items", FALSE)
     ELSE Leaves(w, t, "items", TRUE) /\ UNCHANGED <<rec, op, owner>>
  /\ UNCHANGED <<job, proof, late, sent>>

\* claimLocalContinuation, compared with the version that was read.
Lease(w, t) ==
  /\ worker[w].at \in {"lease_collect", "lease_reconcile"}
  /\ t \in worker[w].now
  /\ IF owner[t].held /\ owner[t].version = worker[w].saw /\ ~owner[t].live
     THEN /\ owner' = [owner EXCEPT ![t] = [held |-> TRUE, version |-> @.version + 1,
                                            token |-> w, live |-> TRUE]]
          /\ worker' = [worker EXCEPT ![w].saw = @ + 1,
                          ![w].at = IF @ = "lease_collect" THEN "collect" ELSE "reconcile"]
     ELSE Leaves(w, t, "items", TRUE) /\ UNCHANGED owner
  /\ UNCHANGED <<job, rec, op, proof, late, sent>>

OwnsRow(w, t) == owner[t].held /\ owner[t].token = w /\ owner[t].version = worker[w].saw
HoldsRow(w, t) == OwnsRow(w, t) /\ owner[t].live

\* Retained evidence replaces an unknown outcome, and is accounted for anew.
Reconcile(w, t) ==
  /\ At(w, "reconcile")
  /\ t \in worker[w].now
  /\ op[t].fenced
  /\ HoldsRow(w, t)
  /\ IF rec[t].outcome \in {"none", "unknown"} /\ proof[t] # "none"
     THEN rec' = [rec EXCEPT ![t].outcome = proof[t], ![t].status = proof[t],
                             ![t].settled = FALSE]
     ELSE rec[t].outcome # "none" /\ UNCHANGED rec
  /\ Goes(w, "account")
  /\ UNCHANGED <<job, op, owner, proof, late, sent>>

\* Accounting after the evidence is durable; it asks for no lease.
Account(w, t) ==
  /\ At(w, "account")
  /\ t \in worker[w].now
  /\ SettleItem(t)
  /\ Goes(w, IF rec[t].outcome = "unknown" THEN "unlease_blocked" ELSE "unlease")
  /\ UNCHANGED <<job, proof, late, sent>>

\* The provider is asked for the results of the accepted task.
Collect(w, t) ==
  /\ At(w, "collect")
  /\ t \in worker[w].now
  /\ Holds(w) /\ HoldsRow(w, t)
  /\ \E next \in {"persist", "unlease"} : Goes(w, next)
  /\ UNCHANGED <<job, items, late, sent>>

\* One observation per item; a replay changes nothing.
Persist(w, t) ==
  /\ At(w, "persist")
  /\ t \in worker[w].now
  /\ rec[t].settled
  /\ rec[t].collected \/ HoldsRow(w, t)
  /\ rec' = [rec EXCEPT ![t].collected = TRUE]
  /\ owner' = [owner EXCEPT ![t] = IF Proven(rec'[t], op[t]) THEN Free ELSE @]
  /\ Goes(w, "unlease")
  /\ UNCHANGED <<job, op, proof, late, sent>>

\* No proof, a lost lease, a provider error, a failed transaction.
LeasedItemFails(w, t) ==
  /\ worker[w].at \in {"reconcile", "account", "collect", "persist"}
  /\ t \in worker[w].now
  /\ Goes(w, "unlease_blocked")
  /\ UNCHANGED <<job, items, late, sent>>

\* releaseMonitorContinuationLease, in the finally block.
Unlease(w, t) ==
  /\ worker[w].at \in {"unlease", "unlease_blocked"}
  /\ t \in worker[w].now
  /\ owner' = [owner EXCEPT ![t] =
                 IF OwnsRow(w, t) THEN Unleased(@) ELSE @]
  /\ Leaves(w, t, "items", At(w, "unlease_blocked"))
  /\ UNCHANGED <<job, rec, op, proof, late, sent>>

-----------------------------------------------------------------------------
(* The verdict on the job.                                                  *)

DoneUncollected(t) ==
  \/ rec[t].status = "cancelled" /\ op[t].state = "zero"
  \/ rec[t].settled /\ op[t].state = "settled" /\ rec[t].status \in {"accepted", "rejected"}

\* The resolution of the item is "complete" or "cancelled".
Done(t) ==
  /\ ~owner[t].held
  /\ \/ rec[t].status = "cancelled" /\ op[t].state = "zero"
     \/ Proven(rec[t], op[t])

\* monitorProgress
Progress(blocked) ==
  LET cleanup == \E t \in Targets \ blocked :
                   rec[t].status \in {"claimed", "cancelled"} /\ owner[t].held
      outstanding == \E t \in Targets : ~Done(t) /\ rec[t].status # "unknown_acceptance"
  IN  IF \A t \in Targets : Done(t) THEN "complete"
      ELSE IF (late /\ ~cleanup) \/ (blocked # {} /\ ~outstanding) THEN "blocked"
      ELSE "pending"

\* The run is read in a transaction of its own.
ReadRun(w) ==
  /\ At(w, "items")
  /\ worker[w].todo = {}
  /\ Goes(w, Progress(worker[w].blocked))
  /\ UNCHANGED <<job, items, late, sent>>

\* A pending job keeps its lease for the poll interval.
Conclude(w) ==
  /\ worker[w].at \in Terminal \cup {"pending"}
  /\ IF ~Holds(w) \/ At(w, "pending") THEN UNCHANGED job
     ELSE Becomes(worker[w].at, IF At(w, "complete") THEN "none"
                                ELSE IF worker[w].blocked # {} THEN "provider_evidence_required"
                                ELSE "unavailable")
  /\ Ends(w)
  /\ UNCHANGED <<items, late, sent>>

-----------------------------------------------------------------------------
(* Time, and the user.  An execution that dies takes no more steps.         *)

JobLeaseExpires ==
  /\ job.live
  /\ job' = [job EXCEPT !.live = FALSE]
  /\ UNCHANGED <<items, worker, late, sent>>

\* The lease of the operation, which the sender's owner row was given too.
DispatchLeaseExpires(t) ==
  /\ op[t].live
  /\ op' = [op EXCEPT ![t].live = FALSE]
  /\ owner' = [owner EXCEPT ![t].live = @ /\ owner[t].version # 0]
  /\ UNCHANGED <<job, rec, worker, proof, late, sent>>

RowLeaseExpires(t) ==
  /\ owner[t].live /\ owner[t].version # 0
  /\ owner' = [owner EXCEPT ![t].live = FALSE]
  /\ UNCHANGED <<job, rec, op, worker, proof, late, sent>>

CollectionEnds ==
  /\ ~late
  /\ late' = TRUE
  /\ UNCHANGED <<job, items, worker, sent>>

\* cancelLocalMeasurementRun
CancelRun ==
  /\ job.run
  /\ \E t \in Targets : ~rec[t].cancelled
  /\ rec' = [t \in Targets |->
               [rec[t] EXCEPT !.cancelled = TRUE,
                              !.status = IF @ = "claimed" THEN "cancelled" ELSE @]]
  /\ UNCHANGED <<job, op, owner, worker, proof, late, sent>>

WorkerStep(w) ==
  \/ Claim(w) \/ Prepare(w) \/ Fail(w) \/ Admit(w) \/ AdmitFails(w) \/ SubmitEnds(w)
  \/ Continue(w) \/ ContinueRevoked(w) \/ ReadRun(w) \/ Conclude(w)

TargetStep(w, t) ==
  \/ SubmitFails(w, t) \/ Fence(w, t) \/ Post(w, t) \/ Record(w, t) \/ Settle(w, t)
  \/ ItemFails(w, t) \/ ReadItem(w, t) \/ ReleaseUnsent(w, t) \/ Lease(w, t)
  \/ Reconcile(w, t) \/ Account(w, t) \/ Collect(w, t) \/ Persist(w, t)
  \/ LeasedItemFails(w, t) \/ Unlease(w, t)

Next ==
  \/ \E w \in Workers : WorkerStep(w) \/ \E t \in Targets : TargetStep(w, t)
  \/ \E t \in Targets : DispatchLeaseExpires(t) \/ RowLeaseExpires(t)
  \/ JobLeaseExpires \/ CollectionEnds \/ CancelRun

Spec == Init /\ [][Next]_monitorVars

-----------------------------------------------------------------------------
(* Properties.                                                              *)

\* A target may be measured - and paid for - again only when nothing is open
\* from this run, however many executions overlap: its request was cancelled
\* and is not going to be sent, or its answer, cost and result are known
\* ("Partial accepted IDs cannot remove the remaining unknown acceptance gate").
FreedWhenProven ==
  \A t \in Targets : job.run /\ ~owner[t].held =>
    \/ /\ rec[t].status = "cancelled" /\ op[t].state = "zero"
       /\ t \notin sent
       /\ \A w \in Workers : At(w, "fenced") => t \notin worker[w].now
    \/ /\ rec[t].settled /\ op[t].state = "settled"
       /\ rec[t].status = "rejected" \/ (rec[t].status = "accepted" /\ rec[t].collected)

\* A job is reported complete only if no target of its run is held any more,
\* although the run is read before the job is written.
CompleteIsFreed ==
  job.state = "complete" => job.run /\ \A t \in Targets : ~owner[t].held

\* "The following recovery also handles pre-send failures" (runtime.ts): a job
\* is not given up for lack of evidence while a request that provably never
\* left still holds its target.
UnsentIsReleased ==
  job.state = "blocked" /\ job.reason \in {"provider_evidence_required", "unavailable"}
    => \A t \in Targets : owner[t].held => op[t].fenced

=============================================================================

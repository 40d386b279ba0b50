--------------------------- MODULE DigestDelivery ---------------------------
(***************************************************************************)
(* Delivery of alert digests (lib/alerts/digest*.ts and the workflow in    *)
(* lib/temporal/alert-delivery-workflows.ts) for the alerts of one rule.   *)
(* A flush pass claims pending alerts under a token of its own and starts  *)
(* a workflow; the workflow sends the digest to each destination by an     *)
(* activity that is retried, so that attempts overlap; a later pass        *)
(* recovers claims that grew old.  Row locks and the send rows fence the   *)
(* senders against each other, a database trigger fences the release.      *)
(***************************************************************************)
EXTENDS Naturals, FiniteSets

CONSTANTS Alerts,        \* alerts of the rule
          Destinations,  \* recipients, endpoints and channels of its digest
          Passes,        \* flush passes; a pass is also its claim token
          NoPass,        \* an alert without an owner
          MaxAttempts    \* attempts of one send activity

VARIABLES
  alert,        \* alert[a]: delivery state, owner, submission started, claim old
  send,         \* send[a][d]: the row of alert_digest_sends
  deliverable,  \* alerts that are neither resolved nor snoozed
  pass,         \* pass[p]: what the flush pass does, with the alerts it read
  job,          \* job[p]: the workflow that delivers the digest of pass p
  attempt,      \* attempt[p][d][k]: the k-th attempt to send it to d
  arrived       \* arrived[a][d]: how often a digest with a reached d (history)

digestVars == <<alert, send, deliverable, pass, job, attempt, arrived>>

Tries == 1..MaxAttempts
States == {"digest_pending", "digesting", "digested", "dead_letter", "skipped", "suppressed"}
NoRow == [state |-> "none", owner |-> NoPass]
Idle == [phase |-> "idle", ids |-> {}]
NoJob == [phase |-> "none", ids |-> {}, left |-> {}, to |-> {}, try |-> 0, outcomes |-> {}]

Init ==
  /\ alert = [a \in Alerts |-> [state |-> "digest_pending", owner |-> NoPass,
                                started |-> FALSE, old |-> FALSE]]
  /\ send = [a \in Alerts |-> [d \in Destinations |-> NoRow]]
  /\ deliverable = Alerts
  /\ pass = [p \in Passes |-> Idle]
  /\ job = [p \in Passes |-> NoJob]
  /\ attempt = [p \in Passes |-> [d \in Destinations |-> [k \in Tries |-> "idle"]]]
  /\ arrived = [a \in Alerts |-> [d \in Destinations |-> 0]]

-----------------------------------------------------------------------------
(* Rows.                                                                    *)

Owned(p, a) == alert[a].state = "digesting" /\ alert[a].owner = p

Leaves(a, state) == [alert[a] EXCEPT !.state = state, !.owner = NoPass, !.old = FALSE]

\* Alerts of ids that p still owns get a state that nobody delivers from.
Terminalize(p, ids, state) ==
  alert' = [a \in Alerts |-> IF a \in ids /\ Owned(p, a) THEN Leaves(a, state) ELSE alert[a]]

\* The trigger fence_digest_reclaim lets an alert return to digest_pending only
\* if no submission was started.
MayReturn(a) == ~alert[a].started

Unskipped(row, p) == IF row.owner = p /\ row.state = "skipped" THEN NoRow ELSE row

\* The alerts of back return to digest_pending, those of out are skipped.
Return(p, back, out) ==
  /\ alert' = [a \in Alerts |-> IF a \in back THEN Leaves(a, "digest_pending")
                                ELSE IF a \in out THEN Leaves(a, "skipped") ELSE alert[a]]
  /\ send' = [a \in Alerts |-> IF a \in back
                               THEN [d \in Destinations |-> Unskipped(send[a][d], p)]
                               ELSE send[a]]

-----------------------------------------------------------------------------
(* The flush pass.                                                          *)

Pass(p, phase, ids) == pass' = [pass EXCEPT ![p] = [phase |-> phase, ids |-> ids]]

\* recoverStaleDigestClaims, a page S of the old claims in one transaction:
\* what was never submitted is pending again, anything else is a dead letter.
PassRecovers(p) ==
  /\ pass[p].phase = "idle"
  /\ \E S \in SUBSET {a \in Alerts : alert[a].state = "digesting" /\ alert[a].old} :
       /\ S # {}
       /\ alert' = [a \in Alerts |->
                      IF a \notin S THEN alert[a]
                      ELSE Leaves(a, IF alert[a].started THEN "dead_letter" ELSE "digest_pending")]
       /\ send' = [a \in Alerts |->
                     IF a \notin S THEN send[a]
                     ELSE [d \in Destinations |->
                             IF ~alert[a].started THEN Unskipped(send[a][d], alert[a].owner)
                             ELSE IF send[a][d] = [state |-> "submitting", owner |-> alert[a].owner]
                             THEN [send[a][d] EXCEPT !.state = "unknown"] ELSE send[a][d]]]
  /\ Pass(p, "recovered", {})
  /\ UNCHANGED <<deliverable, job, attempt, arrived>>

\* What cannot be delivered is skipped; a page of the rest is read.
PassReads(p) ==
  /\ pass[p].phase \in {"idle", "recovered"}
  /\ alert' = [a \in Alerts |->
                 IF alert[a].state = "digest_pending" /\ a \notin deliverable
                 THEN Leaves(a, "skipped") ELSE alert[a]]
  /\ \E ids \in SUBSET {a \in deliverable : alert[a].state = "digest_pending"} :
       ids # {} /\ Pass(p, "read", ids)
  /\ UNCHANGED <<send, deliverable, job, attempt, arrived>>

\* claimPendingDigest: those of them that are still pending.
PassClaims(p) ==
  /\ pass[p].phase = "read"
  /\ LET mine == {a \in pass[p].ids \cap deliverable : alert[a].state = "digest_pending"}
     IN  /\ alert' = [a \in Alerts |->
                        IF a \in mine THEN [state |-> "digesting", owner |-> p,
                                            started |-> FALSE, old |-> FALSE]
                        ELSE alert[a]]
         /\ Pass(p, IF mine = pass[p].ids THEN "claimed" ELSE "release", pass[p].ids)
  /\ UNCHANGED <<send, deliverable, job, attempt, arrived>>

\* The daily budget of the rule is used up.
PassSuppresses(p) ==
  /\ pass[p].phase = "claimed"
  /\ Terminalize(p, pass[p].ids, "suppressed")
  /\ Pass(p, "done", {})
  /\ UNCHANGED <<send, deliverable, job, attempt, arrived>>

PassEnqueues(p) ==
  /\ pass[p].phase = "claimed"
  /\ job' = [job EXCEPT ![p].phase = "queued", ![p].ids = pass[p].ids]
  /\ Pass(p, "done", {})
  /\ UNCHANGED <<alert, send, deliverable, attempt, arrived>>

\* The start of the workflow is reported as failed, rightly or not.
PassFails(p) ==
  /\ pass[p].phase = "claimed"
  /\ \/ UNCHANGED job
     \/ job' = [job EXCEPT ![p].phase = "queued", ![p].ids = pass[p].ids]
  /\ Pass(p, "release", pass[p].ids)
  /\ UNCHANGED <<alert, send, deliverable, attempt, arrived>>

\* releaseUnsubmittedDigestClaim
ReleaseUnsubmitted(p, ids) ==
  Return(p, {a \in ids : Owned(p, a) /\ ~alert[a].started}, {})

PassReleases(p) ==
  /\ pass[p].phase = "release"
  /\ ReleaseUnsubmitted(p, pass[p].ids)
  /\ Pass(p, "done", {})
  /\ UNCHANGED <<deliverable, job, attempt, arrived>>

-----------------------------------------------------------------------------
(* The workflow.                                                            *)

\* The workflow goes on to a destination, or to the end when none is left.
GoOn(p, j) ==
  IF j.left = {}
  THEN /\ job' = [job EXCEPT ![p] = [j EXCEPT !.phase = "finalize", !.to = {}, !.try = 0]]
       /\ UNCHANGED attempt
  ELSE \E d \in j.left :
         /\ job' = [job EXCEPT ![p] = [j EXCEPT !.phase = "deliver", !.to = {d}, !.try = 1,
                                               !.left = @ \ {d}]]
         /\ attempt' = [attempt EXCEPT ![p][d][1] = "started"]

\* The claim is renewed, for all alerts or none, and the digest is built for
\* those that can be delivered.
Prepare(p) ==
  /\ job[p].phase = "queued"
  /\ LET ids == job[p].ids
     IN  IF \A a \in ids : Owned(p, a)
         THEN /\ alert' = [a \in Alerts |->
                             IF a \notin ids THEN alert[a]
                             ELSE IF a \in deliverable THEN [alert[a] EXCEPT !.old = FALSE]
                             ELSE Leaves(a, "skipped")]
              /\ IF ids \cap deliverable = {}
                 THEN job' = [job EXCEPT ![p] = NoJob] /\ UNCHANGED attempt
                 ELSE GoOn(p, [job[p] EXCEPT !.ids = ids \cap deliverable,
                                             !.left = Destinations])
         ELSE job' = [job EXCEPT ![p] = NoJob] /\ UNCHANGED <<alert, attempt>>
  /\ UNCHANGED <<send, deliverable, pass, arrived>>

PrepareFails(p) ==
  /\ job[p].phase = "queued"
  /\ ReleaseUnsubmitted(p, job[p].ids)
  /\ UNCHANGED <<deliverable, pass, job, attempt, arrived>>

\* An attempt ends with an outcome.  The workflow hears of it only if it still
\* waits for that attempt; the outcome "limited" makes it try again.
Report(p, d, k, outcome) ==
  LET over == [attempt EXCEPT ![p][d][k] = "over"]
      next == [job[p] EXCEPT !.outcomes = @ \cup {outcome}]
  IN  IF ~(job[p].to = {d} /\ job[p].try = k)
      THEN attempt' = over /\ UNCHANGED job
      ELSE IF outcome = "limited" /\ k < MaxAttempts
      THEN /\ attempt' = [over EXCEPT ![p][d][k + 1] = "started"]
           /\ job' = [job EXCEPT ![p].try = k + 1]
      ELSE IF next.left = {}
      THEN /\ attempt' = over
           /\ job' = [job EXCEPT ![p] = [next EXCEPT !.phase = "finalize", !.to = {}, !.try = 0]]
      ELSE \E e \in next.left :
             /\ attempt' = [over EXCEPT ![p][e][1] = "started"]
             /\ job' = [job EXCEPT ![p] = [next EXCEPT !.to = {e}, !.try = 1, !.left = @ \ {e}]]

\* The attempt that is waited for is given up; it may go on all the same.
AttemptTimesOut(p) ==
  /\ job[p].phase = "deliver"
  /\ \E d \in job[p].to :
       IF job[p].try < MaxAttempts
       THEN /\ job' = [job EXCEPT ![p].try = @ + 1]
            /\ attempt' = [attempt EXCEPT ![p][d][job[p].try + 1] = "started"]
       ELSE GoOn(p, [job[p] EXCEPT !.outcomes = @ \cup {"failed"}])
  /\ UNCHANGED <<alert, send, deliverable, pass, arrived>>

\* Here and below: variants with a fault a change could introduce, which the
\* runs tell from the code.  They are not part of the specification.
RefusalOfOwner(p, d) ==
  IF \E a \in job[p].ids : ~Owned(p, a) THEN "refused" ELSE "null"

\* begin of the send fence: null, or the outcome without a send.
Refusal(p, d) ==
  LET ids == job[p].ids
      rows == {send[a][d] : a \in ids}
      all(state) == rows = {[state |-> state, owner |-> p]}
  IN  IF (\E a \in ids : ~Owned(p, a)) \/ (\E row \in rows : row.owner \notin {p, NoPass})
      THEN "refused"
      ELSE IF all("accepted") THEN "delivered"
      ELSE IF all("failed") THEN "failed"
      ELSE IF rows = {NoRow} \/ all("retryable") THEN "null"
      ELSE "unknown"

AttemptBegins(p, d, k) ==
  /\ attempt[p][d][k] = "started"
  /\ IF Refusal(p, d) = "null"
     THEN /\ alert' = [a \in Alerts |->
                         IF a \in job[p].ids
                         THEN [alert[a] EXCEPT !.started = TRUE, !.old = FALSE] ELSE alert[a]]
          /\ send' = [a \in Alerts |->
                        IF a \in job[p].ids
                        THEN [send[a] EXCEPT ![d] = [state |-> "submitting", owner |-> p]]
                        ELSE send[a]]
          /\ attempt' = [attempt EXCEPT ![p][d][k] = "sending"]
          /\ UNCHANGED job
     ELSE /\ Report(p, d, k, Refusal(p, d))
          /\ UNCHANGED <<alert, send>>
  /\ UNCHANGED <<deliverable, pass, arrived>>

\* What a send may come to: a gate refuses it (a retry must not say so), it is
\* taken, rejected, limited by rate, or nobody knows.
Results(p, k) ==
  {"delivered", "failed", "limited", "unknown"}
  \cup (IF k = 1 THEN {"skipped"} ELSE {"retried"})
  \cup (IF k = 1 /\ ~(job[p].ids \subseteq deliverable) THEN {"refused"} ELSE {})

AttemptSends(p, d, k) ==
  /\ attempt[p][d][k] = "sending"
  /\ \E result \in Results(p, k) :
       /\ attempt' = [attempt EXCEPT ![p][d][k] = result]
       /\ \/ /\ result \in {"delivered", "unknown"}
             /\ arrived' = [a \in Alerts |-> IF a \in job[p].ids
                                             THEN [arrived[a] EXCEPT ![d] = @ + 1]
                                             ELSE arrived[a]]
          \/ result # "delivered" /\ UNCHANGED arrived
  /\ UNCHANGED <<alert, send, deliverable, pass, job>>

RowState(result) ==
  CASE result = "delivered" -> "accepted"
    [] result = "limited"   -> "retryable"
    [] result \in {"skipped", "retried", "refused"} -> "skipped"
    [] OTHER -> result

ExposedUnlessKnown == {"submitting", "unknown", "retryable"}

Exposed == {"submitting", "accepted", "unknown", "retryable"}

\* finish of the send fence.  A skip that leaves nothing exposed takes the mark
\* of the submission back.
AttemptFinishes(p, d, k) ==
  LET result == attempt[p][d][k]
      ids == job[p].ids
      mine == {a \in ids : send[a][d] = [state |-> "submitting", owner |-> p]}
      after == [a \in Alerts |->
                  IF a \in mine THEN [send[a] EXCEPT ![d].state = RowState(result)] ELSE send[a]]
      clear == /\ mine = ids
               /\ RowState(result) = "skipped"
               /\ \A a \in ids : \A e \in Destinations : after[a][e].state \notin Exposed
  IN  /\ result \in {"delivered", "failed", "limited", "unknown", "skipped", "retried", "refused"}
      /\ send' = after
      /\ alert' = [a \in Alerts |-> IF clear /\ a \in ids /\ Owned(p, a)
                                    THEN [alert[a] EXCEPT !.started = FALSE] ELSE alert[a]]
      /\ Report(p, d, k, IF mine = ids THEN result ELSE "unknown")
      /\ UNCHANGED <<deliverable, pass, arrived>>

DeliveredUnlessFailed(outcomes) ==
  IF "failed" \in outcomes THEN "dead_letter"
  ELSE IF outcomes \subseteq {"skipped", "refused", "retried"} THEN "skipped" ELSE "digested"

DeliveryStateForOutcomes(outcomes) ==
  IF "delivered" \in outcomes THEN "digested"
  ELSE IF \E o \in outcomes : o \notin {"skipped", "refused", "retried"} THEN "dead_letter"
  ELSE "skipped"

\* A digest that nobody can have got goes back to a later flush; what cannot be
\* delivered any more is skipped (releaseStaleDigest).
Finalize(p) ==
  LET state == DeliveryStateForOutcomes(job[p].outcomes)
      owned == {a \in job[p].ids : Owned(p, a)}
  IN  /\ job[p].phase = "finalize"
      /\ IF state = "skipped" /\ "refused" \in job[p].outcomes /\ "retried" \notin job[p].outcomes
         THEN Return(p, {a \in owned \cap deliverable : MayReturn(a)}, owned \ deliverable)
         ELSE Terminalize(p, job[p].ids, state) /\ UNCHANGED send
      /\ job' = [job EXCEPT ![p] = [NoJob EXCEPT !.ids = job[p].ids]]
      /\ UNCHANGED <<deliverable, pass, attempt, arrived>>

-----------------------------------------------------------------------------
(* Time, and the people who resolve, snooze and wake alerts.                *)

ClaimGrowsOld(a) ==
  /\ alert[a].state = "digesting"
  /\ ~alert[a].old
  /\ alert' = [alert EXCEPT ![a].old = TRUE]
  /\ UNCHANGED <<send, deliverable, pass, job, attempt, arrived>>

Snooze(a) ==
  /\ deliverable' = IF a \in deliverable THEN deliverable \ {a} ELSE deliverable \cup {a}
  /\ UNCHANGED <<alert, send, pass, job, attempt, arrived>>

PassStep(p) ==
  \/ PassRecovers(p) \/ PassReads(p) \/ PassClaims(p) \/ PassSuppresses(p)
  \/ PassEnqueues(p) \/ PassFails(p) \/ PassReleases(p)

WorkflowStep(p) == Prepare(p) \/ PrepareFails(p) \/ AttemptTimesOut(p) \/ Finalize(p)

SendStep(p) ==
  \E d \in Destinations, k \in Tries :
    AttemptBegins(p, d, k) \/ AttemptSends(p, d, k) \/ AttemptFinishes(p, d, k)

Next ==
  \/ \E p \in Passes : PassStep(p) \/ WorkflowStep(p) \/ SendStep(p)
  \/ \E a \in Alerts : ClaimGrowsOld(a) \/ Snooze(a)

Spec == Init /\ [][Next]_digestVars

-----------------------------------------------------------------------------
(* Properties.                                                              *)

\* However attempts, passes and recoveries overlap, a destination is sent an
\* alert once (digest-send-fence.ts: the row lock serializes submission with
\* reclaim).
SentOnce == \A a \in Alerts, d \in Destinations : arrived[a][d] <= 1

\* An alert that is pending again was never sent to anybody: neither the
\* recovery nor the release of a stale digest requeues what may have arrived.
PendingIsUnsent ==
  \A a \in Alerts : alert[a].state = "digest_pending"
                       => \A d \in Destinations : arrived[a][d] = 0

\* An alert is recorded as digested only if some destination got it, even if
\* its outcome comes from an attempt other than the one that sent it.
DigestedArrived ==
  \A a \in Alerts : alert[a].state = "digested"
                       => \E d \in Destinations : arrived[a][d] = 1

=============================================================================

------------------------ MODULE DigestDeliveryProofs ------------------------
(***************************************************************************)
(* Proofs about DigestDelivery, for any number of alerts, destinations,    *)
(* flush passes and attempts: a destination is sent an alert once, a       *)
(* pending alert was sent to nobody, and a digested one arrived.           *)
(*                                                                         *)
(* An attempt has a send in hand from the moment its fence is passed until *)
(* it records the result.  The row of the send belongs to its pass in the  *)
(* meantime, and says that the alert may arrive, so that no other attempt  *)
(* passes the fence; the alert is marked as started or lost for good, so   *)
(* that nobody returns it to the pending ones.                             *)
(***************************************************************************)
EXTENDS DigestDelivery, TLAPS

RowStates == {"none", "submitting", "accepted", "unknown", "retryable", "skipped", "failed"}
ResultStates == {"delivered", "failed", "limited", "unknown", "skipped", "retried", "refused"}
AttemptStates == {"idle", "started", "sending", "over"} \cup ResultStates
PassPhases == {"idle", "recovered", "read", "claimed", "release", "done"}
JobPhases == {"none", "queued", "deliver", "finalize"}

Claim == [state : States, owner : Passes \cup {NoPass}, started : BOOLEAN, old : BOOLEAN]
SendRow == [state : RowStates, owner : Passes \cup {NoPass}]
Flush == [phase : PassPhases, ids : SUBSET Alerts]
Job == [phase : JobPhases, ids : SUBSET Alerts, left : SUBSET Destinations,
        to : SUBSET Destinations, try : Nat, outcomes : SUBSET (ResultStates)]

DigestTypeOK ==
  /\ alert \in [Alerts -> Claim]
  /\ send \in [Alerts -> [Destinations -> SendRow]]
  /\ deliverable \in SUBSET Alerts
  /\ pass \in [Passes -> Flush]
  /\ job \in [Passes -> Job]
  /\ attempt \in [Passes -> [Destinations -> [Tries -> AttemptStates]]]
  /\ arrived \in [Alerts -> [Destinations -> Nat]]

\* A send that is under way, or whose result is not recorded yet.
InHand(state) == state \in {"sending"} \cup ResultStates

\* An alert that is lost for delivery, or held by pass p with its mark.
Safe(a, p) ==
  \/ alert[a].state \notin {"digest_pending", "digesting"}
  \/ Owned(p, a) /\ alert[a].started

\* What an attempt has in hand for alert a.
HandKept(p, d, k, a) ==
  /\ send[a][d].owner = p /\ send[a][d].state \in {"submitting", "unknown"}
  /\ Safe(a, p)
  /\ attempt[p][d][k] = "delivered" => arrived[a][d] = 1
  /\ attempt[p][d][k] \notin {"delivered", "unknown"} => arrived[a][d] = 0

HandsKept ==
  \A p \in Passes, d \in Destinations, k \in Tries :
    InHand(attempt[p][d][k]) => \A a \in job[p].ids : HandKept(p, d, k, a)

\* One attempt at most has the send of an alert to a destination in hand.
OneHand ==
  \A p \in Passes, d \in Destinations : \A k, l \in Tries :
    InHand(attempt[p][d][k]) /\ InHand(attempt[p][d][l]) /\ job[p].ids # {} => k = l

\* What the row of a send says of its arrival.
RowKept(a, d) ==
  /\ send[a][d].state = "none" => send[a][d].owner = NoPass
  /\ send[a][d].state = "accepted" => arrived[a][d] = 1
  /\ send[a][d].state \notin Exposed => arrived[a][d] = 0
  /\ send[a][d].state = "retryable" => arrived[a][d] = 0
  /\ arrived[a][d] <= 1

RowsKept == \A a \in Alerts, d \in Destinations : RowKept(a, d)

\* An alert without the mark was exposed to nobody.
MarksKept ==
  \A a \in Alerts :
    /\ alert[a].state = "digest_pending" => ~alert[a].started
    /\ alert[a].state \in {"digest_pending", "digesting"} /\ ~alert[a].started =>
         \A d \in Destinations : send[a][d].state \notin Exposed

\* A pass has one workflow, which begins before its attempts.
Early(p) == pass[p].phase \in {"idle", "recovered", "read", "claimed"}
Quiet(p) == \A d \in Destinations, k \in Tries : attempt[p][d][k] = "idle"

JobsKept ==
  \A p \in Passes :
    /\ Early(p) => job[p] = NoJob
    /\ Early(p) \/ job[p].phase = "queued" => Quiet(p) /\ job[p].outcomes = {}
    /\ "delivered" \in job[p].outcomes =>
         \E d \in Destinations : \A a \in job[p].ids : arrived[a][d] = 1

DigestInv ==
  /\ DigestTypeOK /\ HandsKept /\ OneHand /\ RowsKept /\ MarksKept /\ JobsKept
  /\ DigestedArrived

-----------------------------------------------------------------------------
(* Rows, jobs and attempts.                                                *)

\* The tokens of the passes are told from no token.
Tokens == NoPass \notin Passes

AttemptTable == [Passes -> [Destinations -> [Tries -> AttemptStates]]]

Put(f, p, d, k, x) == [f EXCEPT ![p][d][k] = x]

LEMMA AttemptSet ==
  ASSUME NEW f \in AttemptTable, NEW p \in Passes, NEW d \in Destinations, NEW k,
         NEW x \in AttemptStates, NEW g, g = Put(f, p, d, k, x)
  PROVE  /\ g \in AttemptTable
         /\ \A q \in Passes, e \in Destinations, l \in Tries :
              g[q][e][l] = IF q = p /\ e = d /\ l = k THEN x ELSE f[q][e][l]
PROOF
  <1>1. PICK row : row = [f[p][d] EXCEPT ![k] = x]
    OBVIOUS
  <1>2. row \in [Tries -> AttemptStates] /\ \A l \in Tries : row[l] = IF l = k THEN x ELSE f[p][d][l]
    BY <1>1 DEF AttemptTable
  <1>3. PICK rows : rows = [f[p] EXCEPT ![d] = row]
    OBVIOUS
  <1>4. /\ rows \in [Destinations -> [Tries -> AttemptStates]]
        /\ \A e \in Destinations : rows[e] = IF e = d THEN row ELSE f[p][e]
    BY <1>2, <1>3 DEF AttemptTable
  <1>5. g = [f EXCEPT ![p] = rows]
    BY <1>1, <1>3 DEF Put
  <1>6. /\ g \in AttemptTable
        /\ \A q \in Passes : g[q] = IF q = p THEN rows ELSE f[q]
    BY <1>4, <1>5 DEF AttemptTable
  <1> QED
    BY <1>2, <1>4, <1>6

\* What becomes of the attempts of p while none gets a send in hand.
NoNewHand(p) ==
  \A q \in Passes, e \in Destinations, l \in Tries :
    \/ attempt'[q][e][l] = attempt[q][e][l]
    \/ q = p /\ attempt'[q][e][l] \in {"started", "over"}

\* What becomes of the workflow of p when it goes on.
GoesOn(p, ids, outcomes) ==
  /\ job' \in [Passes -> Job] /\ \A q \in Passes \ {p} : job'[q] = job[q]
  /\ job'[p].ids = ids /\ job'[p].outcomes = outcomes

LEMMA WorkflowGoesOn ==
  ASSUME DigestTypeOK, NEW p \in Passes, NEW j \in Job, GoOn(p, j)
  PROVE  /\ GoesOn(p, j.ids, j.outcomes) /\ job'[p].phase \in {"deliver", "finalize"}
         /\ attempt' \in AttemptTable /\ NoNewHand(p)
PROOF
  <1>1. job \in [Passes -> Job] /\ attempt \in AttemptTable
    BY DEF DigestTypeOK, AttemptTable
  <1>2. CASE j.left = {}
    <2>1. PICK x : x = [j EXCEPT !.phase = "finalize", !.to = {}, !.try = 0]
      OBVIOUS
    <2>2. x \in Job /\ x.ids = j.ids /\ x.outcomes = j.outcomes /\ x.phase = "finalize"
      BY <2>1 DEF Job, JobPhases
    <2>3. job' = [job EXCEPT ![p] = x] /\ attempt' = attempt
      BY <1>2, <2>1 DEF GoOn
    <2> QED
      BY <1>1, <2>2, <2>3 DEF GoesOn, NoNewHand
  <1>3. CASE j.left # {}
    <2>1. PICK d \in j.left :
            /\ job' = [job EXCEPT ![p] = [j EXCEPT !.phase = "deliver", !.to = {d}, !.try = 1,
                                                   !.left = @ \ {d}]]
            /\ attempt' = [attempt EXCEPT ![p][d][1] = "started"]
      BY <1>3 DEF GoOn
    <2>2. PICK x : x = [j EXCEPT !.phase = "deliver", !.to = {d}, !.try = 1, !.left = @ \ {d}]
      OBVIOUS
    <2>3. d \in Destinations
      BY <2>1 DEF Job
    <2>4. x \in Job /\ x.ids = j.ids /\ x.outcomes = j.outcomes /\ x.phase = "deliver"
      BY <2>2, <2>3 DEF Job, JobPhases
    <2>a. attempt' = Put(attempt, p, d, 1, "started")
      BY <2>1 DEF Put
    <2>5. attempt' \in AttemptTable /\ NoNewHand(p)
      BY <1>1, <2>a, <2>3, AttemptSet DEF NoNewHand, AttemptStates
    <2> QED
      BY <1>1, <2>1, <2>2, <2>4, <2>5 DEF GoesOn
  <1> QED
    BY <1>2, <1>3

\* An attempt that reports is over; the workflow may hear of its outcome.
LEMMA AttemptReports ==
  ASSUME DigestTypeOK, NEW p \in Passes, NEW d \in Destinations, NEW k \in Tries,
         NEW outcome \in ResultStates, Report(p, d, k, outcome), MaxAttempts \in Nat
  PROVE  /\ \E heard \in SUBSET {outcome} : GoesOn(p, job[p].ids, job[p].outcomes \cup heard)
         /\ job'[p].phase \in {job[p].phase, "finalize"}
         /\ attempt' \in AttemptTable /\ NoNewHand(p)
         /\ attempt'[p][d][k] \in {"over", "started"}
PROOF
  <1>1. job \in [Passes -> Job] /\ job[p] \in Job /\ attempt \in AttemptTable
    BY DEF DigestTypeOK, AttemptTable
  <1>2. PICK over : over = [attempt EXCEPT ![p][d][k] = "over"]
    OBVIOUS
  <1>3. /\ over \in AttemptTable
        /\ \A q \in Passes, e \in Destinations, l \in Tries :
             over[q][e][l] = IF q = p /\ e = d /\ l = k THEN "over" ELSE attempt[q][e][l]
    <2>1. over = Put(attempt, p, d, k, "over")
      BY <1>2 DEF Put
    <2> QED
      BY <1>1, <2>1, AttemptSet DEF AttemptStates
  <1>4. PICK next : next = [job[p] EXCEPT !.outcomes = @ \cup {outcome}]
    OBVIOUS
  <1>5. /\ next \in Job /\ next.ids = job[p].ids /\ next.outcomes = job[p].outcomes \cup {outcome}
        /\ next.phase = job[p].phase /\ next.left = job[p].left
    BY <1>1, <1>4 DEF Job
  <1>6. ASSUME NEW e \in Destinations, NEW l, attempt' = [over EXCEPT ![p][e][l] = "started"]
        PROVE  /\ attempt' \in AttemptTable /\ NoNewHand(p)
               /\ attempt'[p][d][k] \in {"over", "started"}
    <2>1. PICK f \in AttemptTable : f = over
      BY <1>3
    <2>2. PICK g : g = attempt'
      OBVIOUS
    <2>3. g = Put(f, p, e, l, "started")
      BY <1>6, <2>1, <2>2 DEF Put
    <2>4. /\ g \in AttemptTable
          /\ \A q \in Passes, e1 \in Destinations, l1 \in Tries :
               g[q][e1][l1] = IF q = p /\ e1 = e /\ l1 = l THEN "started" ELSE f[q][e1][l1]
      BY <2>3, AttemptSet DEF AttemptStates
    <2> QED
      BY <1>3, <2>1, <2>2, <2>4 DEF NoNewHand
  <1>7. ASSUME attempt' = over
        PROVE  /\ attempt' \in AttemptTable /\ NoNewHand(p)
               /\ attempt'[p][d][k] \in {"over", "started"}
    BY <1>3, <1>7 DEF NoNewHand
  <1>8. CASE attempt' = over /\ job' = job
    <2>1. GoesOn(p, job[p].ids, job[p].outcomes \cup {})
      BY <1>1, <1>8 DEF GoesOn
    <2> QED
      BY <1>7, <1>8, <2>1
  <1>9. CASE /\ attempt' = [over EXCEPT ![p][d][k + 1] = "started"]
             /\ job' = [job EXCEPT ![p].try = k + 1]
    <2>1. PICK x : x = [job[p] EXCEPT !.try = k + 1]
      OBVIOUS
    <2>2. k + 1 \in Nat
      BY DEF Tries
    <2>3. x \in Job /\ x.ids = job[p].ids /\ x.outcomes = job[p].outcomes /\ x.phase = job[p].phase
      BY <1>1, <2>1, <2>2 DEF Job
    <2>4. job' = [job EXCEPT ![p] = x]
      BY <1>1, <1>9, <2>1
    <2>5. GoesOn(p, job[p].ids, job[p].outcomes \cup {}) /\ job'[p].phase = job[p].phase
      BY <1>1, <2>3, <2>4 DEF GoesOn
    <2> QED
      BY <1>6, <1>9, <2>5
  <1>10. CASE /\ attempt' = over
              /\ job' = [job EXCEPT ![p] = [next EXCEPT !.phase = "finalize", !.to = {}, !.try = 0]]
    <2>1. PICK x : x = [next EXCEPT !.phase = "finalize", !.to = {}, !.try = 0]
      OBVIOUS
    <2>2. x \in Job /\ x.ids = next.ids /\ x.outcomes = next.outcomes /\ x.phase = "finalize"
      BY <1>5, <2>1 DEF Job, JobPhases
    <2>3. GoesOn(p, job[p].ids, job[p].outcomes \cup {outcome}) /\ job'[p].phase = "finalize"
      BY <1>1, <1>5, <1>10, <2>1, <2>2 DEF GoesOn
    <2> QED
      BY <1>7, <1>10, <2>3
  <1>11. ASSUME NEW e \in next.left,
                attempt' = [over EXCEPT ![p][e][1] = "started"],
                job' = [job EXCEPT ![p] = [next EXCEPT !.to = {e}, !.try = 1, !.left = @ \ {e}]]
         PROVE  /\ GoesOn(p, job[p].ids, job[p].outcomes \cup {outcome})
                /\ job'[p].phase = job[p].phase
                /\ attempt' \in AttemptTable /\ NoNewHand(p)
                /\ attempt'[p][d][k] \in {"over", "started"}
    <2>1. PICK x : x = [next EXCEPT !.to = {e}, !.try = 1, !.left = @ \ {e}]
      OBVIOUS
    <2>2. e \in Destinations
      BY <1>5 DEF Job
    <2>3. x \in Job /\ x.ids = next.ids /\ x.outcomes = next.outcomes /\ x.phase = next.phase
      BY <1>5, <2>1, <2>2 DEF Job
    <2>4. GoesOn(p, job[p].ids, job[p].outcomes \cup {outcome}) /\ job'[p].phase = job[p].phase
      BY <1>1, <1>5, <1>11, <2>1, <2>3 DEF GoesOn
    <2> QED
      BY <1>6, <1>11, <2>2, <2>4
  <1> QED
    BY <1>2, <1>4, <1>8, <1>9, <1>10, <1>11 DEF Report

-----------------------------------------------------------------------------
(* Steps that send nothing: claims change hands.                           *)

Live == {"digest_pending", "digesting"}

\* A claim stays, is lost for delivery, or returns or is taken unmarked.
ClaimMoves(a) ==
  \/ /\ alert'[a].state = alert[a].state /\ alert'[a].owner = alert[a].owner
     /\ alert'[a].started = alert[a].started
  \/ alert'[a].state \notin Live
  \/ /\ alert[a].state \in Live /\ ~alert[a].started
     /\ alert'[a].state \in Live /\ ~alert'[a].started

\* A row stays, is taken back after a skip, or records that nobody knows.
RowMoves(a, d) ==
  \/ send'[a][d] = send[a][d]
  \/ send[a][d].state = "skipped" /\ send'[a][d] = NoRow
  \/ /\ send[a][d].state = "submitting" /\ send'[a][d].state = "unknown"
     /\ send'[a][d].owner = send[a][d].owner

\* A send that is in hand was in hand before.
HandsStay ==
  \A q \in Passes, d \in Destinations, k \in Tries :
    InHand(attempt'[q][d][k]) =>
      attempt'[q][d][k] = attempt[q][d][k] /\ job'[q].ids = job[q].ids

LEMMA ClaimsKept ==
  ASSUME DigestInv, DigestTypeOK', arrived' = arrived, HandsStay,
         \A a \in Alerts : ClaimMoves(a),
         \A a \in Alerts, d \in Destinations : RowMoves(a, d),
         \A a \in Alerts : alert'[a].state = "digested" =>
           alert[a].state = "digested" \/ \E d \in Destinations : arrived[a][d] = 1,
         JobsKept'
  PROVE  DigestInv'
PROOF
  <1>1. /\ DigestTypeOK /\ HandsKept /\ OneHand /\ RowsKept /\ MarksKept /\ JobsKept
        /\ DigestedArrived
    BY DEF DigestInv
  <1>2. HandsKept'
    <2> SUFFICES ASSUME NEW p \in Passes, NEW d \in Destinations, NEW k \in Tries,
                        InHand(attempt'[p][d][k]), NEW a \in job'[p].ids
                 PROVE  HandKept(p, d, k, a)'
      BY DEF HandsKept
    <2>1. /\ attempt'[p][d][k] = attempt[p][d][k] /\ a \in job[p].ids /\ a \in Alerts
      BY <1>1 DEF HandsStay, DigestTypeOK, Job
    <2>2. HandKept(p, d, k, a)
      BY <1>1, <2>1 DEF HandsKept
    <2>3. ClaimMoves(a) /\ RowMoves(a, d)
      BY <2>1
    <2>4. Safe(a, p)'
      BY <2>2, <2>3 DEF HandKept, ClaimMoves, Safe, Owned, Live
    <2>5. send'[a][d].owner = p /\ send'[a][d].state \in {"submitting", "unknown"}
      BY <2>2, <2>3 DEF HandKept, RowMoves
    <2> QED
      BY <2>1, <2>2, <2>4, <2>5 DEF HandKept
  <1>3. OneHand'
    BY <1>1 DEF OneHand, HandsStay
  <1>4. RowsKept'
    <2> SUFFICES ASSUME NEW a \in Alerts, NEW d \in Destinations  PROVE RowKept(a, d)'
      BY DEF RowsKept
    <2>1. RowKept(a, d) /\ RowMoves(a, d)
      BY <1>1 DEF RowsKept
    <2>2. arrived[a][d] \in Nat
      BY <1>1 DEF DigestTypeOK
    <2> QED
      BY <2>1, <2>2 DEF RowKept, RowMoves, NoRow, Exposed
  <1>5. MarksKept'
    <2> SUFFICES ASSUME NEW a \in Alerts
                 PROVE  /\ alert'[a].state = "digest_pending" => ~alert'[a].started
                        /\ alert'[a].state \in Live /\ ~alert'[a].started =>
                             \A d \in Destinations : send'[a][d].state \notin Exposed
      BY DEF MarksKept, Live
    <2>1. /\ alert[a].state = "digest_pending" => ~alert[a].started
          /\ alert[a].state \in Live /\ ~alert[a].started =>
               \A d \in Destinations : send[a][d].state \notin Exposed
          /\ ClaimMoves(a)
      BY <1>1 DEF MarksKept, Live
    <2>2. \A d \in Destinations :
            send[a][d].state \notin Exposed => send'[a][d].state \notin Exposed
      BY DEF RowMoves, NoRow, Exposed
    <2> QED
      BY <2>1, <2>2 DEF ClaimMoves, Live
  <1>6. DigestedArrived'
    BY <1>1 DEF DigestedArrived
  <1> QED
    BY <1>2, <1>3, <1>4, <1>5, <1>6 DEF DigestInv

\* No workflow moves, and no pass back to where it has none.
LEMMA WorkflowsStay ==
  ASSUME JobsKept, UNCHANGED <<job, attempt, arrived>>, \A p \in Passes : Early(p)' => Early(p)
  PROVE  JobsKept' /\ HandsStay
PROOF
  <1>1. JobsKept'
    BY DEF JobsKept, Quiet
  <1> QED
    BY <1>1 DEF HandsStay

\* The workflow of p moves, and its attempts get no send in hand; the alerts of
\* its job change only before it has any.
LEMMA WorkflowMoves ==
  ASSUME DigestTypeOK, JobsKept, NEW p \in Passes, NEW ids, NEW outcomes,
         UNCHANGED <<pass, arrived>>, ~Early(p),
         GoesOn(p, ids, outcomes), NoNewHand(p),
         job'[p].phase = "queued" => FALSE,
         ids = job[p].ids \/ Quiet(p),
         "delivered" \in outcomes =>
           \E d \in Destinations : \A a \in ids : arrived[a][d] = 1
  PROVE  JobsKept' /\ HandsStay
PROOF
  <1>1. JobsKept'
    <2> SUFFICES ASSUME NEW q \in Passes
                 PROVE  /\ Early(q)' => job'[q] = NoJob
                        /\ Early(q)' \/ job'[q].phase = "queued" =>
                             Quiet(q)' /\ job'[q].outcomes = {}
                        /\ "delivered" \in job'[q].outcomes =>
                             \E d \in Destinations : \A a \in job'[q].ids : arrived'[a][d] = 1
      BY DEF JobsKept
    <2>1. CASE q = p
      <3>1. ~Early(q)' /\ job'[q].phase # "queued"
        BY <2>1 DEF Early
      <3> QED
        BY <2>1, <3>1 DEF GoesOn
    <2>2. CASE q # p
      <3>1. job'[q] = job[q] /\ (Early(q)' <=> Early(q))
        BY <2>2 DEF GoesOn, Early
      <3>2. Quiet(q) => Quiet(q)'
        BY <2>2 DEF Quiet, NoNewHand
      <3> QED
        BY <3>1, <3>2 DEF JobsKept
    <2> QED
      BY <2>1, <2>2
  <1>2. HandsStay
    <2> SUFFICES ASSUME NEW q \in Passes, NEW d \in Destinations, NEW k \in Tries,
                        InHand(attempt'[q][d][k])
                 PROVE  attempt'[q][d][k] = attempt[q][d][k] /\ job'[q].ids = job[q].ids
      BY DEF HandsStay
    <2>1. attempt'[q][d][k] = attempt[q][d][k]
      BY DEF NoNewHand, InHand, ResultStates
    <2>2. q = p => ids = job[p].ids
      BY <2>1 DEF Quiet, InHand, ResultStates
    <2> QED
      BY <2>1, <2>2 DEF GoesOn
  <1> QED
    BY <1>1, <1>2

\* What one pass does to its own state.
LEMMA PassMoved ==
  ASSUME DigestTypeOK, NEW p \in Passes, NEW phase \in PassPhases, NEW ids \in SUBSET Alerts,
         Pass(p, phase, ids)
  PROVE  /\ pass' \in [Passes -> Flush]
         /\ pass'[p].phase = phase
         /\ \A q \in Passes \ {p} : pass'[q] = pass[q]
PROOF
  <1>1. [phase |-> phase, ids |-> ids] \in Flush
    BY DEF Flush
  <1> QED
    BY <1>1 DEF DigestTypeOK, Pass

\* Leaving makes a claim of the state that is left to.
LEMMA Left ==
  ASSUME DigestTypeOK, NEW a \in Alerts, NEW state \in States
  PROVE  /\ Leaves(a, state) \in Claim /\ Leaves(a, state).state = state
         /\ Leaves(a, state).started = alert[a].started
PROOF
  BY DEF DigestTypeOK, Claim, Leaves

LEMMA Terminalized ==
  ASSUME DigestTypeOK, NEW p \in Passes, NEW ids, NEW state \in States \ Live,
         Terminalize(p, ids, state)
  PROVE  /\ alert' \in [Alerts -> Claim]
         /\ \A a \in Alerts : /\ ClaimMoves(a)
                              /\ \/ alert'[a] = alert[a]
                                 \/ a \in ids /\ alert'[a].state = state
PROOF
  <1>1. alert \in [Alerts -> Claim]
    BY DEF DigestTypeOK
  <1>2. \A a \in Alerts : /\ Leaves(a, state) \in Claim
                          /\ Leaves(a, state).state = state
    BY Left
  <1>3. \A a \in Alerts : \/ alert'[a] = alert[a]
                          \/ a \in ids /\ alert'[a] = Leaves(a, state)
    BY DEF Terminalize
  <1>4. alert' \in [Alerts -> Claim]
    BY <1>1, <1>2 DEF Terminalize
  <1> QED
    BY <1>2, <1>3, <1>4 DEF ClaimMoves

\* Rows that a pass skipped and takes back.
LEMMA Unskips ==
  ASSUME DigestTypeOK, NEW a \in Alerts, NEW p, Tokens
  PROVE  /\ [d \in Destinations |-> Unskipped(send[a][d], p)] \in [Destinations -> SendRow]
         /\ \A d \in Destinations : \/ Unskipped(send[a][d], p) = send[a][d]
                                    \/ /\ send[a][d].state = "skipped"
                                       /\ Unskipped(send[a][d], p) = NoRow
PROOF
  <1>1. NoRow \in SendRow
    BY DEF NoRow, SendRow, RowStates
  <1> QED
    BY <1>1 DEF DigestTypeOK, Unskipped

LEMMA Returned ==
  ASSUME DigestTypeOK, Tokens, NEW p, NEW back, NEW out, Return(p, back, out),
         \A a \in back \cap Alerts : alert[a].state \in Live /\ ~alert[a].started
  PROVE  /\ alert' \in [Alerts -> Claim] /\ send' \in [Alerts -> [Destinations -> SendRow]]
         /\ \A a \in Alerts : ClaimMoves(a) /\ \A d \in Destinations : RowMoves(a, d)
         /\ \A a \in Alerts : alert'[a].state = "digested" => alert[a].state = "digested"
PROOF
  <1>1. alert \in [Alerts -> Claim] /\ send \in [Alerts -> [Destinations -> SendRow]]
    BY DEF DigestTypeOK
  <1>2. ASSUME NEW a \in Alerts
        PROVE  /\ alert'[a] \in Claim /\ ClaimMoves(a)
               /\ alert'[a].state = "digested" => alert[a].state = "digested"
    <2>1. /\ Leaves(a, "digest_pending") \in Claim /\ Leaves(a, "skipped") \in Claim
          /\ Leaves(a, "digest_pending").state = "digest_pending"
          /\ Leaves(a, "digest_pending").started = alert[a].started
          /\ Leaves(a, "skipped").state = "skipped"
      BY Left DEF States
    <2>2. alert'[a] = IF a \in back THEN Leaves(a, "digest_pending")
                      ELSE IF a \in out THEN Leaves(a, "skipped") ELSE alert[a]
      BY DEF Return
    <2> QED
      BY <1>1, <2>1, <2>2 DEF ClaimMoves, Live
  <1>3. alert' \in [Alerts -> Claim]
    <2>1. PICK f : f = alert'
      OBVIOUS
    <2>2. f = [a \in Alerts |-> f[a]]
      BY <2>1 DEF Return
    <2> QED
      BY <1>2, <2>1, <2>2
  <1>4. ASSUME NEW a \in Alerts
        PROVE  /\ send'[a] \in [Destinations -> SendRow]
               /\ \A d \in Destinations : RowMoves(a, d)
    <2>1. send'[a] = IF a \in back THEN [d \in Destinations |-> Unskipped(send[a][d], p)]
                     ELSE send[a]
      BY DEF Return
    <2> QED
      BY <1>1, <2>1, Unskips DEF RowMoves
  <1>5. send' \in [Alerts -> [Destinations -> SendRow]]
    <2>1. PICK f : f = send'
      OBVIOUS
    <2>2. f = [a \in Alerts |-> f[a]]
      BY <2>1 DEF Return
    <2> QED
      BY <1>4, <2>1, <2>2
  <1> QED
    BY <1>2, <1>3, <1>4, <1>5

LEMMA RecoverStep ==
  ASSUME Tokens, DigestInv, NEW p \in Passes, PassRecovers(p)
  PROVE  DigestInv'
PROOF
  <1>1. /\ DigestTypeOK /\ JobsKept /\ UNCHANGED <<deliverable, job, attempt, arrived>>
        /\ alert \in [Alerts -> Claim] /\ send \in [Alerts -> [Destinations -> SendRow]]
    BY DEF DigestInv, DigestTypeOK, PassRecovers
  <1>2. PICK S \in SUBSET {a \in Alerts : alert[a].state = "digesting" /\ alert[a].old} :
          /\ alert' = [a \in Alerts |->
                         IF a \notin S THEN alert[a]
                         ELSE Leaves(a, IF alert[a].started THEN "dead_letter"
                                        ELSE "digest_pending")]
          /\ send' = [a \in Alerts |->
                        IF a \notin S THEN send[a]
                        ELSE [d \in Destinations |->
                                IF ~alert[a].started THEN Unskipped(send[a][d], alert[a].owner)
                                ELSE IF send[a][d] = [state |-> "submitting",
                                                      owner |-> alert[a].owner]
                                THEN [send[a][d] EXCEPT !.state = "unknown"]
                                ELSE send[a][d]]]
    BY DEF PassRecovers
  <1>3. ASSUME NEW a \in Alerts
        PROVE  /\ alert'[a] \in Claim /\ ClaimMoves(a)
               /\ alert'[a].state = "digested" => alert[a].state = "digested"
    <2>1. /\ Leaves(a, "digest_pending") \in Claim /\ Leaves(a, "dead_letter") \in Claim
          /\ Leaves(a, "digest_pending").state = "digest_pending"
          /\ Leaves(a, "digest_pending").started = alert[a].started
          /\ Leaves(a, "dead_letter").state = "dead_letter"
      BY <1>1, Left DEF States
    <2>2. \/ alert'[a] = alert[a]
          \/ alert'[a] = Leaves(a, "dead_letter")
          \/ /\ alert[a].state = "digesting" /\ ~alert[a].started
             /\ alert'[a] = Leaves(a, "digest_pending")
      BY <1>2
    <2> QED
      BY <1>1, <2>1, <2>2 DEF ClaimMoves, Live
  <1>4. ASSUME NEW a \in Alerts
        PROVE  /\ send'[a] \in [Destinations -> SendRow]
               /\ \A d \in Destinations : RowMoves(a, d)
    <2>1. CASE a \notin S
      BY <1>1, <1>2, <2>1 DEF RowMoves
    <2>2. CASE a \in S /\ ~alert[a].started
      <3>1. PICK q : q = alert[a].owner
        OBVIOUS
      <3>2. send'[a] = [d \in Destinations |-> Unskipped(send[a][d], q)]
        BY <1>2, <2>2, <3>1
      <3>3. /\ [d \in Destinations |-> Unskipped(send[a][d], q)] \in [Destinations -> SendRow]
            /\ \A d \in Destinations : \/ Unskipped(send[a][d], q) = send[a][d]
                                       \/ /\ send[a][d].state = "skipped"
                                          /\ Unskipped(send[a][d], q) = NoRow
        <4>1. NoRow \in SendRow
          BY DEF NoRow, SendRow, RowStates
        <4> QED
          BY <1>1, <4>1 DEF Unskipped
      <3>4. \A d \in Destinations : send'[a][d] = Unskipped(send[a][d], q)
        BY <3>2
      <3> QED
        BY <3>2, <3>3, <3>4 DEF RowMoves
    <2>3. CASE a \in S /\ alert[a].started
      <3>1. ASSUME NEW d \in Destinations
            PROVE  send'[a][d] \in SendRow /\ RowMoves(a, d)
        <4>1. PICK row : row = [send[a][d] EXCEPT !.state = "unknown"]
          OBVIOUS
        <4>2. send[a][d] \in SendRow
          BY <1>1
        <4>3. row \in SendRow /\ row.state = "unknown" /\ row.owner = send[a][d].owner
          BY <4>1, <4>2 DEF SendRow, RowStates
        <4>4. \/ send'[a][d] = send[a][d]
              \/ send[a][d].state = "submitting" /\ send'[a][d] = row
          BY <1>2, <2>3, <4>1
        <4> QED
          BY <4>2, <4>3, <4>4 DEF RowMoves
      <3>2. PICK f : f = send'[a]
        OBVIOUS
      <3>3. f = [d \in Destinations |-> f[d]]
        BY <1>2, <2>3, <3>2
      <3> QED
        BY <3>1, <3>2, <3>3
    <2> QED
      BY <2>1, <2>2, <2>3
  <1>5. alert' \in [Alerts -> Claim]
    <2>1. PICK f : f = alert'
      OBVIOUS
    <2>2. f = [a \in Alerts |-> f[a]]
      BY <1>2, <2>1
    <2> QED
      BY <1>3, <2>1, <2>2
  <1>6. send' \in [Alerts -> [Destinations -> SendRow]]
    <2>1. PICK f : f = send'
      OBVIOUS
    <2>2. f = [a \in Alerts |-> f[a]]
      BY <1>2, <2>1
    <2> QED
      BY <1>4, <2>1, <2>2
  <1>7. /\ pass' \in [Passes -> Flush] /\ pass'[p].phase = "recovered"
        /\ \A q \in Passes \ {p} : pass'[q] = pass[q]
    BY <1>1, PassMoved DEF PassRecovers, PassPhases
  <1>8. \A q \in Passes : Early(q)' => Early(q)
    BY <1>7 DEF Early, PassRecovers
  <1>9. JobsKept' /\ HandsStay
    BY <1>1, <1>8, WorkflowsStay
  <1>10. DigestTypeOK'
    BY <1>1, <1>5, <1>6, <1>7 DEF DigestTypeOK
  <1> QED
    BY <1>1, <1>3, <1>4, <1>9, <1>10, ClaimsKept

LEMMA ReadStep ==
  ASSUME DigestInv, NEW p \in Passes, PassReads(p)
  PROVE  DigestInv'
PROOF
  <1>1. /\ DigestTypeOK /\ JobsKept /\ UNCHANGED <<send, deliverable, job, attempt, arrived>>
        /\ alert \in [Alerts -> Claim]
    BY DEF DigestInv, DigestTypeOK, PassReads
  <1>2. ASSUME NEW a \in Alerts
        PROVE  /\ alert'[a] \in Claim /\ ClaimMoves(a)
               /\ alert'[a].state = "digested" => alert[a].state = "digested"
    <2>1. Leaves(a, "skipped") \in Claim /\ Leaves(a, "skipped").state = "skipped"
      BY <1>1, Left DEF States
    <2>2. alert'[a] = alert[a] \/ alert'[a] = Leaves(a, "skipped")
      BY DEF PassReads
    <2> QED
      BY <1>1, <2>1, <2>2 DEF ClaimMoves, Live
  <1>3. alert' \in [Alerts -> Claim]
    <2>1. PICK f : f = alert'
      OBVIOUS
    <2>2. f = [a \in Alerts |-> f[a]]
      BY <2>1 DEF PassReads
    <2> QED
      BY <1>2, <2>1, <2>2
  <1>4. PICK ids \in SUBSET Alerts : Pass(p, "read", ids)
    BY <1>1 DEF PassReads, DigestTypeOK
  <1>5. /\ pass' \in [Passes -> Flush] /\ pass'[p].phase = "read"
        /\ \A q \in Passes \ {p} : pass'[q] = pass[q]
    BY <1>1, <1>4, PassMoved DEF PassPhases
  <1>6. \A q \in Passes : Early(q)' => Early(q)
    BY <1>5 DEF Early, PassReads
  <1>7. JobsKept' /\ HandsStay
    BY <1>1, <1>6, WorkflowsStay
  <1>8. DigestTypeOK' /\ \A a \in Alerts, d \in Destinations : RowMoves(a, d)
    BY <1>1, <1>3, <1>5 DEF DigestTypeOK, RowMoves
  <1> QED
    BY <1>1, <1>2, <1>7, <1>8, ClaimsKept

LEMMA ClaimStep ==
  ASSUME DigestInv, NEW p \in Passes, PassClaims(p)
  PROVE  DigestInv'
PROOF
  <1>1. /\ DigestTypeOK /\ JobsKept /\ MarksKept
        /\ UNCHANGED <<send, deliverable, job, attempt, arrived>>
        /\ alert \in [Alerts -> Claim] /\ pass[p].ids \in SUBSET Alerts
    BY DEF DigestInv, DigestTypeOK, PassClaims, Flush
  <1>a. PICK mine :
          mine = {a \in pass[p].ids \cap deliverable : alert[a].state = "digest_pending"}
    OBVIOUS
  <1>b. PICK phase \in {"claimed", "release"} :
          phase = IF mine = pass[p].ids THEN "claimed" ELSE "release"
    OBVIOUS
  <1>2. /\ mine = {a \in pass[p].ids \cap deliverable : alert[a].state = "digest_pending"}
        /\ alert' = [a \in Alerts |->
                       IF a \in mine THEN [state |-> "digesting", owner |-> p,
                                           started |-> FALSE, old |-> FALSE]
                       ELSE alert[a]]
        /\ Pass(p, phase, pass[p].ids)
    BY <1>a, <1>b DEF PassClaims
  <1>3. PICK claim : claim = [state |-> "digesting", owner |-> p, started |-> FALSE, old |-> FALSE]
    OBVIOUS
  <1>4. claim \in Claim /\ claim.state = "digesting" /\ ~claim.started
    BY <1>3 DEF Claim, States
  <1>5. alert' = [a \in Alerts |-> IF a \in mine THEN claim ELSE alert[a]]
    BY <1>2, <1>3
  <1>6. alert' \in [Alerts -> Claim]
    BY <1>1, <1>4, <1>5
  <1>7. ASSUME NEW a \in Alerts
        PROVE  /\ ClaimMoves(a)
               /\ alert'[a].state = "digested" => alert[a].state = "digested"
    BY <1>1, <1>2, <1>4, <1>5 DEF ClaimMoves, Live, MarksKept
  <1>8. /\ pass' \in [Passes -> Flush] /\ pass'[p].phase = phase
        /\ \A q \in Passes \ {p} : pass'[q] = pass[q]
    BY <1>1, <1>2, PassMoved DEF PassPhases
  <1>9. \A q \in Passes : Early(q)' => Early(q)
    BY <1>8 DEF Early, PassClaims
  <1>10. JobsKept' /\ HandsStay
    BY <1>1, <1>9, WorkflowsStay
  <1>11. DigestTypeOK' /\ \A a \in Alerts, d \in Destinations : RowMoves(a, d)
    BY <1>1, <1>6, <1>8 DEF DigestTypeOK, RowMoves
  <1> QED
    BY <1>1, <1>7, <1>10, <1>11, ClaimsKept

LEMMA SuppressStep ==
  ASSUME DigestInv, NEW p \in Passes, PassSuppresses(p)
  PROVE  DigestInv'
PROOF
  <1>1. /\ DigestTypeOK /\ JobsKept
        /\ UNCHANGED <<send, deliverable, job, attempt, arrived>>
        /\ Terminalize(p, pass[p].ids, "suppressed") /\ Pass(p, "done", {})
    BY DEF DigestInv, PassSuppresses
  <1>2. /\ alert' \in [Alerts -> Claim]
        /\ \A a \in Alerts : /\ ClaimMoves(a)
                             /\ alert'[a] = alert[a] \/ alert'[a].state = "suppressed"
    BY <1>1, Terminalized DEF States, Live
  <1>3. /\ pass' \in [Passes -> Flush] /\ pass'[p].phase = "done"
        /\ \A q \in Passes \ {p} : pass'[q] = pass[q]
    BY <1>1, PassMoved DEF PassPhases
  <1>4. \A q \in Passes : Early(q)' => Early(q)
    BY <1>3 DEF Early
  <1>5. JobsKept' /\ HandsStay
    BY <1>1, <1>4, WorkflowsStay
  <1>6. DigestTypeOK' /\ \A a \in Alerts, d \in Destinations : RowMoves(a, d)
    BY <1>1, <1>2, <1>3 DEF DigestTypeOK, RowMoves
  <1> QED
    BY <1>1, <1>2, <1>5, <1>6, ClaimsKept

\* A claim that was not submitted returns, by the pass or by its workflow.
LEMMA ReleaseStep ==
  ASSUME Tokens, DigestInv, NEW p \in Passes, PassReleases(p) \/ PrepareFails(p)
  PROVE  DigestInv'
PROOF
  <1>1. /\ DigestTypeOK /\ JobsKept
        /\ UNCHANGED <<deliverable, job, attempt, arrived>>
    BY DEF DigestInv, PassReleases, PrepareFails
  <1>2. PICK ids : Return(p, {a \in ids : Owned(p, a) /\ ~alert[a].started}, {})
    BY DEF PassReleases, PrepareFails, ReleaseUnsubmitted
  <1>3. /\ alert' \in [Alerts -> Claim] /\ send' \in [Alerts -> [Destinations -> SendRow]]
        /\ \A a \in Alerts : ClaimMoves(a) /\ \A d \in Destinations : RowMoves(a, d)
        /\ \A a \in Alerts : alert'[a].state = "digested" => alert[a].state = "digested"
    BY <1>1, <1>2, Returned DEF Owned, Live
  <1>4. /\ pass' \in [Passes -> Flush]
        /\ \A q \in Passes : pass'[q] = pass[q] \/ pass'[q].phase = "done"
    <2>1. CASE PassReleases(p)
      BY <1>1, <2>1, PassMoved DEF PassReleases, PassPhases
    <2>2. CASE PrepareFails(p)
      BY <1>1, <2>2 DEF PrepareFails, DigestTypeOK
    <2> QED
      BY <2>1, <2>2
  <1>5. \A q \in Passes : Early(q)' => Early(q)
    BY <1>4 DEF Early
  <1>6. JobsKept' /\ HandsStay
    BY <1>1, <1>5, WorkflowsStay
  <1>7. DigestTypeOK'
    BY <1>1, <1>3, <1>4 DEF DigestTypeOK
  <1> QED
    BY <1>1, <1>3, <1>6, <1>7, ClaimsKept

\* A pass without a workflow starts one, for no attempt yet.
LEMMA EnqueueStep ==
  ASSUME DigestInv, NEW p \in Passes, PassEnqueues(p) \/ PassFails(p)
  PROVE  DigestInv'
PROOF
  <1>1. /\ DigestTypeOK /\ JobsKept /\ job \in [Passes -> Job] /\ pass[p] \in Flush
        /\ UNCHANGED <<alert, send, deliverable, attempt, arrived>> /\ Early(p)
    BY DEF DigestInv, DigestTypeOK, PassEnqueues, PassFails, Early
  <1>2. job[p] = NoJob /\ Quiet(p)
    BY <1>1 DEF JobsKept
  <1>3. /\ pass' \in [Passes -> Flush] /\ pass'[p].phase \in {"done", "release"}
        /\ \A q \in Passes \ {p} : pass'[q] = pass[q]
    BY <1>1, PassMoved DEF PassEnqueues, PassFails, PassPhases, Flush
  <1>4. /\ job' \in [Passes -> Job] /\ \A q \in Passes \ {p} : job'[q] = job[q]
        /\ job'[p].outcomes = {}
    <2>1. CASE job' = job
      BY <1>1, <1>2, <2>1 DEF NoJob
    <2>2. CASE job' = [job EXCEPT ![p].phase = "queued", ![p].ids = pass[p].ids]
      <3>1. PICK x : x = [job[p] EXCEPT !.phase = "queued", !.ids = pass[p].ids]
        OBVIOUS
      <3>a. job[p] \in Job /\ job[p].outcomes = {}
        BY <1>1, <1>2 DEF NoJob
      <3>2. x \in Job /\ x.outcomes = {}
        BY <1>1, <3>a, <3>1 DEF Job, JobPhases, Flush
      <3>3. job' = [job EXCEPT ![p] = x]
        BY <1>1, <2>2, <3>1
      <3> QED
        BY <1>1, <3>2, <3>3
    <2> QED
      BY <2>1, <2>2 DEF PassEnqueues, PassFails
  <1>5. JobsKept'
    <2> SUFFICES ASSUME NEW q \in Passes
                 PROVE  /\ Early(q)' => job'[q] = NoJob
                        /\ Early(q)' \/ job'[q].phase = "queued" =>
                             Quiet(q)' /\ job'[q].outcomes = {}
                        /\ "delivered" \in job'[q].outcomes =>
                             \E d \in Destinations : \A a \in job'[q].ids : arrived'[a][d] = 1
      BY DEF JobsKept
    <2>1. Quiet(q)' <=> Quiet(q)
      BY <1>1 DEF Quiet
    <2>2. CASE q = p
      BY <1>2, <1>3, <1>4, <2>1, <2>2 DEF Early
    <2>3. CASE q # p
      <3>1. job'[q] = job[q] /\ (Early(q)' <=> Early(q))
        BY <1>3, <1>4, <2>3 DEF Early
      <3> QED
        BY <1>1, <2>1, <3>1 DEF JobsKept
    <2> QED
      BY <2>2, <2>3
  <1>6. HandsStay
    <2>1. \A d \in Destinations, k \in Tries : ~InHand(attempt[p][d][k])
      BY <1>2 DEF Quiet, InHand, ResultStates
    <2> QED
      BY <1>1, <1>4, <2>1 DEF HandsStay
  <1>7. /\ DigestTypeOK' /\ \A a \in Alerts, d \in Destinations : RowMoves(a, d)
        /\ \A a \in Alerts : ClaimMoves(a)
    BY <1>1, <1>3, <1>4 DEF DigestTypeOK, RowMoves, ClaimMoves
  <1> QED
    BY <1>1, <1>5, <1>6, <1>7, ClaimsKept

LEMMA PrepareStep ==
  ASSUME DigestInv, NEW p \in Passes, Prepare(p)
  PROVE  DigestInv'
PROOF
  <1>1. /\ DigestTypeOK /\ JobsKept /\ job \in [Passes -> Job] /\ job[p] \in Job
        /\ alert \in [Alerts -> Claim] /\ attempt \in AttemptTable
        /\ UNCHANGED <<send, deliverable, pass, arrived>> /\ job[p].phase = "queued"
    BY DEF DigestInv, DigestTypeOK, Prepare, AttemptTable
  <1>2. ~Early(p) /\ Quiet(p) /\ job[p].outcomes = {}
    BY <1>1 DEF JobsKept, NoJob
  <1>3. ASSUME NEW a \in Alerts
        PROVE  /\ alert'[a] \in Claim /\ ClaimMoves(a)
               /\ alert'[a].state = "digested" => alert[a].state = "digested"
    <2>1. Leaves(a, "skipped") \in Claim /\ Leaves(a, "skipped").state = "skipped"
      BY <1>1, Left DEF States
    <2>2. PICK claim : claim = [alert[a] EXCEPT !.old = FALSE]
      OBVIOUS
    <2>3. /\ claim \in Claim /\ claim.state = alert[a].state /\ claim.owner = alert[a].owner
          /\ claim.started = alert[a].started
      BY <1>1, <2>2 DEF Claim
    <2>4. alert'[a] = alert[a] \/ alert'[a] = Leaves(a, "skipped") \/ alert'[a] = claim
      BY <2>2 DEF Prepare
    <2> QED
      BY <1>1, <2>1, <2>3, <2>4 DEF ClaimMoves, Live
  <1>4. alert' \in [Alerts -> Claim]
    <2>1. PICK f : f = alert'
      OBVIOUS
    <2>2. f = alert \/ f = [a \in Alerts |-> f[a]]
      BY <2>1 DEF Prepare
    <2> QED
      BY <1>1, <1>3, <2>1, <2>2
  <1>5. /\ \E ids : GoesOn(p, ids, {})
        /\ job'[p].phase # "queued" /\ attempt' \in AttemptTable /\ NoNewHand(p)
    <2>1. CASE job' = [job EXCEPT ![p] = NoJob] /\ attempt' = attempt
      <3>1. NoJob \in Job /\ NoJob.phase = "none" /\ NoJob.outcomes = {}
        <4>1. 0 \in Nat
          OBVIOUS
        <4> QED
          BY <4>1 DEF NoJob, Job, JobPhases
      <3>2. GoesOn(p, NoJob.ids, {})
        BY <1>1, <2>1, <3>1 DEF GoesOn
      <3> QED
        BY <1>1, <2>1, <3>1, <3>2 DEF NoNewHand
    <2>2. CASE GoOn(p, [job[p] EXCEPT !.ids = job[p].ids \cap deliverable,
                                      !.left = Destinations])
      <3>1. PICK j : j = [job[p] EXCEPT !.ids = job[p].ids \cap deliverable,
                                        !.left = Destinations]
        OBVIOUS
      <3>2. j \in Job /\ j.outcomes = {} /\ GoOn(p, j)
        BY <1>1, <1>2, <2>2, <3>1 DEF Job
      <3>3. /\ GoesOn(p, j.ids, j.outcomes) /\ job'[p].phase \in {"deliver", "finalize"}
            /\ attempt' \in AttemptTable /\ NoNewHand(p)
        BY <1>1, <3>2, WorkflowGoesOn
      <3> QED
        BY <3>2, <3>3
    <2> QED
      BY <2>1, <2>2 DEF Prepare
  <1>6. JobsKept' /\ HandsStay
    <2>1. PICK ids : GoesOn(p, ids, {})
      BY <1>5
    <2>2. PICK outcomes : outcomes = {}
      OBVIOUS
    <2>3. GoesOn(p, ids, outcomes) /\ "delivered" \notin outcomes
      BY <2>1, <2>2
    <2> QED
      BY <1>1, <1>2, <1>5, <2>3, WorkflowMoves
  <1>7. DigestTypeOK' /\ \A a \in Alerts, d \in Destinations : RowMoves(a, d)
    BY <1>1, <1>4, <1>5 DEF DigestTypeOK, RowMoves, GoesOn, AttemptTable
  <1> QED
    BY <1>1, <1>3, <1>6, <1>7, ClaimsKept

\* An attempt that is given up fails, or is followed by another one.
LEMMA TimeOutStep ==
  ASSUME MaxAttempts \in Nat, DigestInv, NEW p \in Passes, AttemptTimesOut(p)
  PROVE  DigestInv'
PROOF
  <1>1. /\ DigestTypeOK /\ JobsKept /\ job \in [Passes -> Job] /\ job[p] \in Job
        /\ attempt \in AttemptTable
        /\ UNCHANGED <<alert, send, deliverable, pass, arrived>> /\ job[p].phase = "deliver"
    BY DEF DigestInv, DigestTypeOK, AttemptTimesOut, AttemptTable
  <1>2. ~Early(p)
    BY <1>1 DEF JobsKept, NoJob
  <1>3. PICK d \in job[p].to :
          IF job[p].try < MaxAttempts
          THEN /\ job' = [job EXCEPT ![p].try = @ + 1]
               /\ attempt' = [attempt EXCEPT ![p][d][job[p].try + 1] = "started"]
          ELSE GoOn(p, [job[p] EXCEPT !.outcomes = @ \cup {"failed"}])
    BY DEF AttemptTimesOut
  <1>4. d \in Destinations
    BY <1>1 DEF Job
  <1>5. PICK outcomes \in {job[p].outcomes, job[p].outcomes \cup {"failed"}} :
          /\ GoesOn(p, job[p].ids, outcomes) /\ job'[p].phase # "queued"
          /\ attempt' \in AttemptTable /\ NoNewHand(p)
    <2>1. CASE /\ job' = [job EXCEPT ![p].try = @ + 1]
               /\ attempt' = [attempt EXCEPT ![p][d][job[p].try + 1] = "started"]
      <3>1. PICK x : x = [job[p] EXCEPT !.try = @ + 1]
        OBVIOUS
      <3>2. /\ x \in Job /\ x.ids = job[p].ids /\ x.outcomes = job[p].outcomes
            /\ x.phase = "deliver"
        BY <1>1, <3>1 DEF Job
      <3>3. job' = [job EXCEPT ![p] = x]
        BY <1>1, <2>1, <3>1
      <3>4. GoesOn(p, job[p].ids, job[p].outcomes) /\ job'[p].phase # "queued"
        BY <1>1, <3>2, <3>3 DEF GoesOn
      <3>5. PICK k : k = job[p].try + 1
        OBVIOUS
      <3>6. attempt' = Put(attempt, p, d, k, "started")
        BY <2>1, <3>5 DEF Put
      <3>7. attempt' \in AttemptTable /\ NoNewHand(p)
        BY <1>1, <1>4, <3>6, AttemptSet DEF NoNewHand, AttemptStates
      <3> QED
        BY <3>4, <3>7
    <2>2. CASE GoOn(p, [job[p] EXCEPT !.outcomes = @ \cup {"failed"}])
      <3>1. PICK j : j = [job[p] EXCEPT !.outcomes = @ \cup {"failed"}]
        OBVIOUS
      <3>2. /\ j \in Job /\ j.ids = job[p].ids /\ j.outcomes = job[p].outcomes \cup {"failed"}
            /\ GoOn(p, j)
        BY <1>1, <2>2, <3>1 DEF Job, ResultStates
      <3>3. /\ GoesOn(p, j.ids, j.outcomes) /\ job'[p].phase \in {"deliver", "finalize"}
            /\ attempt' \in AttemptTable /\ NoNewHand(p)
        BY <1>1, <3>2, WorkflowGoesOn
      <3> QED
        BY <3>2, <3>3
    <2> QED
      BY <1>3, <2>1, <2>2
  <1>6. "delivered" \in outcomes =>
          \E e \in Destinations : \A a \in job[p].ids : arrived[a][e] = 1
    BY <1>1, <1>5 DEF JobsKept
  <1>7. JobsKept' /\ HandsStay
    <2>1. PICK ids : ids = job[p].ids
      OBVIOUS
    <2> QED
      BY <1>1, <1>2, <1>5, <1>6, <2>1, WorkflowMoves
  <1>8. /\ DigestTypeOK' /\ \A a \in Alerts, e \in Destinations : RowMoves(a, e)
        /\ \A a \in Alerts : ClaimMoves(a)
    BY <1>1, <1>5 DEF DigestTypeOK, RowMoves, ClaimMoves, GoesOn, AttemptTable
  <1> QED
    BY <1>1, <1>7, <1>8, ClaimsKept

LEMMA FinalizeStep ==
  ASSUME Tokens, DigestInv, NEW p \in Passes, Finalize(p)
  PROVE  DigestInv'
PROOF
  <1>1. /\ DigestTypeOK /\ JobsKept /\ job \in [Passes -> Job] /\ job[p] \in Job
        /\ UNCHANGED <<deliverable, pass, attempt, arrived>> /\ job[p].phase = "finalize"
        /\ send \in [Alerts -> [Destinations -> SendRow]]
    BY DEF DigestInv, DigestTypeOK, Finalize
  <1>2. ~Early(p)
    BY <1>1 DEF JobsKept, NoJob
  <1>3. PICK x : x = [NoJob EXCEPT !.ids = job[p].ids]
    OBVIOUS
  <1>4. x \in Job /\ x.ids = job[p].ids /\ x.outcomes = {} /\ x.phase = "none"
    <2>1. 0 \in Nat
      OBVIOUS
    <2> QED
      BY <1>1, <1>3, <2>1 DEF NoJob, Job, JobPhases
  <1>5. GoesOn(p, x.ids, x.outcomes) /\ job'[p].phase = "none" /\ NoNewHand(p)
    BY <1>1, <1>3, <1>4 DEF Finalize, GoesOn, NoNewHand
  <1>6. JobsKept' /\ HandsStay
    <2>1. "delivered" \notin x.outcomes
      BY <1>4
    <2> QED
      BY <1>1, <1>2, <1>4, <1>5, <2>1, WorkflowMoves
  <1>7. PICK state : state = DeliveryStateForOutcomes(job[p].outcomes)
    OBVIOUS
  <1>8. /\ state \in States \ Live
        /\ state = "digested" => "delivered" \in job[p].outcomes
    BY <1>7 DEF DeliveryStateForOutcomes, States, Live
  <1>9. /\ alert' \in [Alerts -> Claim] /\ send' \in [Alerts -> [Destinations -> SendRow]]
        /\ \A a \in Alerts : ClaimMoves(a) /\ \A d \in Destinations : RowMoves(a, d)
        /\ \A a \in Alerts : alert'[a].state = "digested" =>
              alert[a].state = "digested" \/ \E d \in Destinations : arrived[a][d] = 1
    <2>1. CASE \E out : Return(p, {a \in {b \in job[p].ids : Owned(p, b)} \cap deliverable :
                                   MayReturn(a)}, out)
      <3>1. PICK back, out :
              /\ back = {a \in {b \in job[p].ids : Owned(p, b)} \cap deliverable : MayReturn(a)}
              /\ Return(p, back, out)
        BY <2>1
      <3>2. \A a \in back \cap Alerts : alert[a].state \in Live /\ ~alert[a].started
        BY <3>1 DEF Owned, MayReturn, Live
      <3> QED
        BY <1>1, <3>1, <3>2, Returned
    <2>2. CASE Terminalize(p, job[p].ids, state) /\ send' = send
      <3>1. PICK ids : ids = job[p].ids
        OBVIOUS
      <3>2. /\ alert' \in [Alerts -> Claim]
            /\ \A a \in Alerts : /\ ClaimMoves(a)
                                 /\ \/ alert'[a] = alert[a]
                                    \/ a \in ids /\ alert'[a].state = state
        BY <1>1, <1>8, <2>2, <3>1, Terminalized
      <3>3. "delivered" \in job[p].outcomes =>
              \E d \in Destinations : \A a \in ids : arrived[a][d] = 1
        BY <1>1, <3>1 DEF JobsKept
      <3> QED
        BY <1>1, <1>8, <2>2, <3>2, <3>3 DEF RowMoves
    <2> QED
      BY <1>7, <2>1, <2>2 DEF Finalize
  <1>10. DigestTypeOK'
    BY <1>1, <1>5, <1>9 DEF DigestTypeOK, GoesOn
  <1> QED
    BY <1>1, <1>6, <1>9, <1>10, ClaimsKept

-----------------------------------------------------------------------------
(* The send itself: its fence, the request, and the record of its result.  *)

\* While an attempt is under way its pass has a workflow that is not about to
\* begin.
LEMMA Busy ==
  ASSUME JobsKept, NEW p \in Passes, NEW d \in Destinations, NEW k \in Tries,
         attempt[p][d][k] # "idle"
  PROVE  ~Early(p) /\ job[p].phase # "queued"
PROOF
  BY DEF JobsKept, Quiet

\* What the fence finds when it lets the attempt pass, and when it answers that
\* the digest was delivered.
LEMMA Fenced ==
  ASSUME NEW p \in Passes, NEW d \in Destinations, DigestTypeOK, RowsKept
  PROVE  /\ Refusal(p, d) = "null" =>
              \A a \in job[p].ids : /\ Owned(p, a) /\ arrived[a][d] = 0
                                   /\ send[a][d].state \in {"none", "retryable"}
         /\ Refusal(p, d) = "delivered" => \A a \in job[p].ids : arrived[a][d] = 1
         /\ Refusal(p, d) # "null" => Refusal(p, d) \in ResultStates
PROOF
  <1>1. PICK rows : rows = {send[a][d] : a \in job[p].ids}
    OBVIOUS
  <1>2. ASSUME NEW row, rows = {row}
        PROVE  \A a \in job[p].ids : send[a][d] = row
    BY <1>1, <1>2
  <1>3. job[p].ids \subseteq Alerts
    BY DEF DigestTypeOK, Job
  <1>4. ASSUME NEW a \in job[p].ids
        PROVE  /\ send[a][d].state = "accepted" => arrived[a][d] = 1
               /\ send[a][d].state \in {"none", "retryable"} => arrived[a][d] = 0
    BY <1>3 DEF RowsKept, RowKept, Exposed
  <1>5. ASSUME Refusal(p, d) = "null"
        PROVE  \A a \in job[p].ids : /\ Owned(p, a) /\ arrived[a][d] = 0
                                     /\ send[a][d].state \in {"none", "retryable"}
    <2>1. /\ \A a \in job[p].ids : Owned(p, a)
          /\ rows = {NoRow} \/ rows = {[state |-> "retryable", owner |-> p]}
      BY <1>1, <1>5 DEF Refusal
    <2>2. \A a \in job[p].ids : send[a][d].state \in {"none", "retryable"}
      <3>1. PICK row : rows = {row} /\ row.state \in {"none", "retryable"}
        <4>1. NoRow.state = "none" /\ [state |-> "retryable", owner |-> p].state = "retryable"
          BY DEF NoRow
        <4> QED
          BY <2>1, <4>1
      <3>2. \A a \in job[p].ids : send[a][d] = row
        BY <1>2, <3>1
      <3> QED
        BY <3>1, <3>2
    <2> QED
      BY <1>4, <2>1, <2>2
  <1>6. ASSUME Refusal(p, d) = "delivered"
        PROVE  \A a \in job[p].ids : arrived[a][d] = 1
    <2>1. rows = {[state |-> "accepted", owner |-> p]}
      BY <1>1, <1>6 DEF Refusal
    <2>2. PICK row : row = [state |-> "accepted", owner |-> p]
      OBVIOUS
    <2> QED
      BY <1>2, <1>4, <2>1, <2>2
  <1>7. Refusal(p, d) \in {"null"} \cup ResultStates
    BY <1>1 DEF Refusal, ResultStates
  <1> QED
    BY <1>5, <1>6, <1>7

\* An attempt that the fence turns away reports the outcome it finds.
LEMMA TurnedAwayStep ==
  ASSUME MaxAttempts \in Nat, DigestInv,
         NEW p \in Passes, NEW d \in Destinations, NEW k \in Tries,
         AttemptBegins(p, d, k), Refusal(p, d) # "null"
  PROVE  DigestInv'
PROOF
  <1>1. /\ DigestTypeOK /\ JobsKept /\ RowsKept /\ attempt[p][d][k] = "started"
        /\ UNCHANGED <<alert, send, deliverable, pass, arrived>>
        /\ Report(p, d, k, Refusal(p, d))
    BY DEF DigestInv, AttemptBegins
  <1>2. PICK outcome : outcome = Refusal(p, d)
    OBVIOUS
  <1>3. /\ outcome \in ResultStates /\ Report(p, d, k, outcome)
        /\ outcome = "delivered" => \A a \in job[p].ids : arrived[a][d] = 1
    BY <1>1, <1>2, Fenced
  <1>4. PICK heard \in SUBSET {outcome} : GoesOn(p, job[p].ids, job[p].outcomes \cup heard)
    BY <1>1, <1>3, AttemptReports
  <1>5. /\ job'[p].phase \in {job[p].phase, "finalize"}
        /\ attempt' \in AttemptTable /\ NoNewHand(p)
    BY <1>1, <1>3, AttemptReports
  <1>6. ~Early(p) /\ job'[p].phase # "queued"
    BY <1>1, <1>5, Busy
  <1>7. "delivered" \in job[p].outcomes \cup heard =>
          \E e \in Destinations : \A a \in job[p].ids : arrived[a][e] = 1
    BY <1>1, <1>3, <1>4 DEF JobsKept
  <1>8. JobsKept' /\ HandsStay
    <2>1. PICK ids, outcomes : ids = job[p].ids /\ outcomes = job[p].outcomes \cup heard
      OBVIOUS
    <2> QED
      BY <1>1, <1>4, <1>5, <1>6, <1>7, <2>1, WorkflowMoves
  <1>9. /\ DigestTypeOK' /\ \A a \in Alerts, e \in Destinations : RowMoves(a, e)
        /\ \A a \in Alerts : ClaimMoves(a)
    BY <1>1, <1>4, <1>5 DEF DigestTypeOK, RowMoves, ClaimMoves, GoesOn, AttemptTable
  <1> QED
    BY <1>1, <1>8, <1>9, ClaimsKept

\* An attempt that passes the fence takes the send in hand.
LEMMA BeginStep ==
  ASSUME MaxAttempts \in Nat, DigestInv,
         NEW p \in Passes, NEW d \in Destinations, NEW k \in Tries,
         AttemptBegins(p, d, k), Refusal(p, d) = "null"
  PROVE  DigestInv'
PROOF
  <1>1. /\ DigestTypeOK /\ HandsKept /\ OneHand /\ RowsKept /\ MarksKept /\ JobsKept
        /\ DigestedArrived
    BY DEF DigestInv
  <1>2. /\ alert \in [Alerts -> Claim] /\ send \in [Alerts -> [Destinations -> SendRow]]
        /\ attempt \in AttemptTable
    BY <1>1 DEF DigestTypeOK, AttemptTable
  <1>3. PICK ids \in SUBSET Alerts : ids = job[p].ids
    BY <1>1 DEF DigestTypeOK, Job
  <1>4. PICK row : row = [state |-> "submitting", owner |-> p]
    OBVIOUS
  <1>5. row \in SendRow /\ row.state = "submitting" /\ row.owner = p
    BY <1>4 DEF SendRow, RowStates
  <1>6. /\ alert' = [a \in Alerts |->
                       IF a \in ids THEN [alert[a] EXCEPT !.started = TRUE, !.old = FALSE]
                       ELSE alert[a]]
        /\ send' = [a \in Alerts |->
                      IF a \in ids THEN [send[a] EXCEPT ![d] = row] ELSE send[a]]
        /\ attempt' = Put(attempt, p, d, k, "sending")
        /\ attempt[p][d][k] = "started"
        /\ UNCHANGED <<deliverable, pass, job, arrived>>
    BY <1>3, <1>4 DEF AttemptBegins, Put
  <1>7. /\ attempt' \in AttemptTable
        /\ \A q \in Passes, e \in Destinations, l \in Tries :
             attempt'[q][e][l] = IF q = p /\ e = d /\ l = k THEN "sending" ELSE attempt[q][e][l]
    <2>1. PICK f, g : f \in AttemptTable /\ f = attempt /\ g = attempt'
      BY <1>2, <1>6
    <2>2. g = Put(f, p, d, k, "sending") /\ "sending" \in AttemptStates
      BY <1>2, <1>6, <2>1 DEF AttemptStates
    <2>3. /\ g \in AttemptTable
          /\ \A q \in Passes, e \in Destinations, l \in Tries :
               g[q][e][l] = IF q = p /\ e = d /\ l = k THEN "sending" ELSE f[q][e][l]
      BY <2>1, <2>2, AttemptSet
    <2> QED
      BY <2>1, <2>3
  <1>8. \A a \in ids : /\ Owned(p, a) /\ arrived[a][d] = 0
                       /\ send[a][d].state \in {"none", "retryable"}
    BY <1>1, <1>3, Fenced
  <1>9. ASSUME NEW a \in Alerts
        PROVE  /\ alert'[a] \in Claim
               /\ alert'[a].state = alert[a].state /\ alert'[a].owner = alert[a].owner
               /\ alert'[a].started = (a \in ids \/ alert[a].started)
    <2>1. PICK claim : claim = [alert[a] EXCEPT !.started = TRUE, !.old = FALSE]
      OBVIOUS
    <2>2. /\ claim \in Claim /\ claim.state = alert[a].state /\ claim.owner = alert[a].owner
          /\ claim.started = TRUE
      BY <1>2, <2>1 DEF Claim
    <2>3. alert'[a] = IF a \in ids THEN claim ELSE alert[a]
      BY <1>6, <2>1
    <2>4. alert[a].started \in BOOLEAN /\ alert[a] \in Claim
      BY <1>2 DEF Claim
    <2>5. CASE a \in ids
      BY <2>2, <2>3, <2>5
    <2>6. CASE a \notin ids
      BY <2>3, <2>4, <2>6
    <2> QED
      BY <2>5, <2>6
  <1>10. ASSUME NEW a \in Alerts
         PROVE  /\ send'[a] \in [Destinations -> SendRow]
                /\ \A e \in Destinations :
                     send'[a][e] = IF a \in ids /\ e = d THEN row ELSE send[a][e]
    BY <1>2, <1>5, <1>6
  <1>11. DigestTypeOK'
    <2>1. alert' \in [Alerts -> Claim]
      <3>1. PICK f : f = alert'
        OBVIOUS
      <3>2. f = [a \in Alerts |-> f[a]]
        BY <1>6, <3>1
      <3> QED
        BY <1>9, <3>1, <3>2
    <2>2. send' \in [Alerts -> [Destinations -> SendRow]]
      <3>1. PICK f : f = send'
        OBVIOUS
      <3>2. f = [a \in Alerts |-> f[a]]
        BY <1>6, <3>1
      <3> QED
        BY <1>10, <3>1, <3>2
    <2> QED
      BY <1>1, <1>6, <1>7, <2>1, <2>2 DEF DigestTypeOK, AttemptTable
  \* No other attempt has it in hand.
  <1>12. ASSUME NEW q \in Passes, NEW l \in Tries, InHand(attempt[q][d][l]),
                NEW a \in job[q].ids, a \in ids
         PROVE  FALSE
    <2>1. HandKept(q, d, l, a)
      BY <1>1, <1>12 DEF HandsKept
    <2> QED
      BY <1>8, <1>12, <2>1 DEF HandKept
  <1>13. HandsKept'
    <2> SUFFICES ASSUME NEW q \in Passes, NEW e \in Destinations, NEW l \in Tries,
                        InHand(attempt'[q][e][l]), NEW a \in job[q].ids
                 PROVE  HandKept(q, e, l, a)'
      BY <1>6 DEF HandsKept
    <2>1. a \in Alerts
      BY <1>1 DEF DigestTypeOK, Job
    <2>2. CASE q = p /\ e = d /\ l = k
      <3>1. a \in ids /\ attempt'[q][e][l] = "sending"
        BY <1>3, <1>7, <2>2
      <3>2. Owned(p, a)' /\ alert'[a].started
        BY <1>8, <1>9, <2>1, <3>1 DEF Owned
      <3>3. send'[a][d] = row /\ arrived'[a][d] = 0
        BY <1>6, <1>8, <1>10, <2>1, <3>1
      <3> QED
        BY <1>5, <2>2, <3>1, <3>2, <3>3 DEF HandKept, Safe
    <2>3. CASE ~(q = p /\ e = d /\ l = k)
      <3>1. attempt'[q][e][l] = attempt[q][e][l]
        BY <1>7, <2>3
      <3>2. HandKept(q, e, l, a)
        BY <1>1, <3>1 DEF HandsKept
      <3>3. ~(a \in ids /\ e = d)
        BY <1>12, <3>1
      <3>4. send'[a][e] = send[a][e] /\ arrived'[a][e] = arrived[a][e]
        BY <1>6, <1>10, <2>1, <3>3
      <3>5. Safe(a, q)'
        BY <1>9, <2>1, <3>2 DEF HandKept, Safe, Owned
      <3> QED
        BY <3>1, <3>2, <3>4, <3>5 DEF HandKept
    <2> QED
      BY <2>2, <2>3
  <1>14. OneHand'
    <2> SUFFICES ASSUME NEW q \in Passes, NEW e \in Destinations, NEW l \in Tries, NEW m \in Tries,
                        InHand(attempt'[q][e][l]), InHand(attempt'[q][e][m]), job[q].ids # {}
                 PROVE  l = m
      BY <1>6 DEF OneHand
    <2>1. CASE q = p /\ e = d
      <3>1. PICK a : a \in ids
        BY <1>3, <2>1
      <3>2. \A n \in Tries \ {k} : ~InHand(attempt'[p][d][n])
        BY <1>3, <1>7, <1>12, <3>1
      <3> QED
        BY <2>1, <3>2
    <2>2. CASE ~(q = p /\ e = d)
      BY <1>1, <1>7, <2>2 DEF OneHand
    <2> QED
      BY <2>1, <2>2
  <1>15. RowsKept'
    <2> SUFFICES ASSUME NEW a \in Alerts, NEW e \in Destinations  PROVE RowKept(a, e)'
      BY DEF RowsKept
    <2>1. RowKept(a, e)
      BY <1>1 DEF RowsKept
    <2> QED
      BY <1>5, <1>6, <1>10, <2>1 DEF RowKept, Exposed
  <1>16. MarksKept'
    <2> SUFFICES ASSUME NEW a \in Alerts
                 PROVE  /\ alert'[a].state = "digest_pending" => ~alert'[a].started
                        /\ alert'[a].state \in Live /\ ~alert'[a].started =>
                             \A e \in Destinations : send'[a][e].state \notin Exposed
      BY DEF MarksKept, Live
    <2>1. CASE a \in ids
      <3>1. alert'[a].started /\ alert'[a].state = "digesting"
        BY <1>8, <1>9, <2>1 DEF Owned
      <3> QED
        BY <3>1
    <2>2. CASE a \notin ids
      <3>1. /\ alert'[a].started = alert[a].started /\ alert'[a].state = alert[a].state
            /\ \A e \in Destinations : send'[a][e] = send[a][e]
        <4>1. alert[a].started \in BOOLEAN
          BY <1>2 DEF Claim
        <4> QED
          BY <1>6, <1>10, <2>2, <4>1
      <3> QED
        BY <1>1, <3>1 DEF MarksKept, Live
    <2> QED
      BY <2>1, <2>2
  <1>17. JobsKept'
    <2>1. ~Early(p) /\ job[p].phase # "queued"
      BY <1>1, <1>6, Busy
    <2>2. \A q \in Passes \ {p} : Quiet(q) => Quiet(q)'
      BY <1>7 DEF Quiet
    <2>3. \A q \in Passes : Early(q)' <=> Early(q)
      BY <1>6 DEF Early
    <2> QED
      BY <1>1, <1>6, <2>1, <2>2, <2>3 DEF JobsKept
  <1>18. DigestedArrived'
    BY <1>1, <1>6, <1>9 DEF DigestedArrived
  <1> QED
    BY <1>11, <1>13, <1>14, <1>15, <1>16, <1>17, <1>18 DEF DigestInv

\* The request is made: what the attempt has in hand may arrive.
LEMMA SendStepKeeps ==
  ASSUME DigestInv, NEW p \in Passes, NEW d \in Destinations, NEW k \in Tries,
         AttemptSends(p, d, k)
  PROVE  DigestInv'
PROOF
  <1>1. /\ DigestTypeOK /\ HandsKept /\ OneHand /\ RowsKept /\ MarksKept /\ JobsKept
        /\ DigestedArrived
    BY DEF DigestInv
  <1>2. /\ arrived \in [Alerts -> [Destinations -> Nat]] /\ attempt \in AttemptTable
    BY <1>1 DEF DigestTypeOK, AttemptTable
  <1>3. PICK ids \in SUBSET Alerts : ids = job[p].ids
    BY <1>1 DEF DigestTypeOK, Job
  <1>4. PICK result \in Results(p, k), came \in BOOLEAN :
          /\ attempt' = Put(attempt, p, d, k, result)
          /\ came => result \in {"delivered", "unknown"}
          /\ ~came => result # "delivered"
          /\ arrived' = IF came
                        THEN [a \in Alerts |-> IF a \in ids
                                               THEN [arrived[a] EXCEPT ![d] = @ + 1]
                                               ELSE arrived[a]]
                        ELSE arrived
    <2>1. PICK result \in Results(p, k) :
            /\ attempt' = [attempt EXCEPT ![p][d][k] = result]
            /\ \/ /\ result \in {"delivered", "unknown"}
                  /\ arrived' = [a \in Alerts |-> IF a \in job[p].ids
                                                  THEN [arrived[a] EXCEPT ![d] = @ + 1]
                                                  ELSE arrived[a]]
               \/ result # "delivered" /\ UNCHANGED arrived
      BY DEF AttemptSends
    <2> QED
      BY <1>3, <2>1 DEF Put
  <1>5. /\ result \in ResultStates /\ attempt[p][d][k] = "sending"
        /\ UNCHANGED <<alert, send, deliverable, pass, job>>
    BY <1>4 DEF AttemptSends, Results, ResultStates
  <1>6. /\ attempt' \in AttemptTable
        /\ \A q \in Passes, e \in Destinations, l \in Tries :
             attempt'[q][e][l] = IF q = p /\ e = d /\ l = k THEN result ELSE attempt[q][e][l]
    <2>1. PICK f, g : f \in AttemptTable /\ f = attempt /\ g = attempt'
      BY <1>2, <1>4, <1>5
    <2>2. g = Put(f, p, d, k, result) /\ result \in AttemptStates
      BY <1>2, <1>4, <1>5, <2>1 DEF AttemptStates
    <2>3. /\ g \in AttemptTable
          /\ \A q \in Passes, e \in Destinations, l \in Tries :
               g[q][e][l] = IF q = p /\ e = d /\ l = k THEN result ELSE f[q][e][l]
      BY <2>1, <2>2, AttemptSet
    <2> QED
      BY <2>1, <2>3
  <1>7. \A a \in ids : HandKept(p, d, k, a) /\ arrived[a][d] = 0
    BY <1>1, <1>3, <1>5 DEF HandsKept, HandKept, InHand
  <1>8. ASSUME NEW a \in Alerts
        PROVE  /\ arrived'[a] \in [Destinations -> Nat]
               /\ \A e \in Destinations :
                    arrived'[a][e] = IF came /\ a \in ids /\ e = d THEN 1 ELSE arrived[a][e]
    <2>1. CASE came /\ a \in ids
      <3>1. arrived'[a] = [arrived[a] EXCEPT ![d] = @ + 1]
        BY <1>4, <2>1
      <3>2. arrived[a] \in [Destinations -> Nat]
        BY <1>2
      <3> QED
        BY <1>7, <2>1, <3>1, <3>2
    <2>2. CASE ~(came /\ a \in ids)
      BY <1>2, <1>4, <2>2
    <2> QED
      BY <2>1, <2>2
  <1>9. DigestTypeOK'
    <2>1. PICK f : f = arrived'
      OBVIOUS
    <2>2. f = [a \in Alerts |-> f[a]]
      BY <1>2, <1>4, <2>1
    <2>3. arrived' \in [Alerts -> [Destinations -> Nat]]
      BY <1>8, <2>1, <2>2
    <2> QED
      BY <1>1, <1>5, <1>6, <2>3 DEF DigestTypeOK, AttemptTable
  <1>10. \A q \in Passes, e \in Destinations, l \in Tries :
           InHand(attempt'[q][e][l]) => InHand(attempt[q][e][l])
    BY <1>5, <1>6 DEF InHand
  <1>11. HandsKept'
    <2> SUFFICES ASSUME NEW q \in Passes, NEW e \in Destinations, NEW l \in Tries,
                        InHand(attempt'[q][e][l]), NEW a \in job[q].ids
                 PROVE  HandKept(q, e, l, a)'
      BY <1>5 DEF HandsKept
    <2>1. a \in Alerts /\ HandKept(q, e, l, a) /\ InHand(attempt[q][e][l])
      BY <1>1, <1>10 DEF DigestTypeOK, Job, HandsKept
    <2>2. Safe(a, q)'
      BY <1>5, <2>1 DEF HandKept, Safe, Owned
    <2>3. CASE q = p /\ e = d /\ l = k
      <3>1. attempt'[q][e][l] = result /\ a \in ids
        BY <1>3, <1>6, <2>3
      <3>2. arrived'[a][d] = IF came THEN 1 ELSE 0
        BY <1>7, <1>8, <2>1, <3>1
      <3> QED
        BY <1>4, <1>5, <2>1, <2>2, <2>3, <3>1, <3>2 DEF HandKept
    <2>4. CASE ~(q = p /\ e = d /\ l = k)
      <3>1. attempt'[q][e][l] = attempt[q][e][l]
        BY <1>6, <2>4
      <3>2. ~(a \in ids /\ e = d)
        <4> SUFFICES ASSUME a \in ids, e = d  PROVE FALSE
          OBVIOUS
        <4>1. q = p
          BY <1>7, <2>1 DEF HandKept
        <4>2. l = k
          BY <1>1, <1>5, <2>1, <4>1 DEF OneHand, InHand
        <4> QED
          BY <2>4, <4>1, <4>2
      <3>3. arrived'[a][e] = arrived[a][e]
        BY <1>8, <2>1, <3>2
      <3> QED
        BY <1>5, <2>1, <2>2, <3>1, <3>3 DEF HandKept
    <2> QED
      BY <2>3, <2>4
  <1>12. OneHand'
    BY <1>1, <1>5, <1>10 DEF OneHand
  <1>13. RowsKept'
    <2> SUFFICES ASSUME NEW a \in Alerts, NEW e \in Destinations  PROVE RowKept(a, e)'
      BY DEF RowsKept
    <2>1. RowKept(a, e)
      BY <1>1 DEF RowsKept
    <2>2. a \in ids => send[a][d].state \in {"submitting", "unknown"}
      BY <1>7 DEF HandKept
    <2> QED
      BY <1>5, <1>8, <2>1, <2>2 DEF RowKept, Exposed
  <1>14. MarksKept'
    BY <1>1, <1>5 DEF MarksKept
  \* What has arrived has not arrived twice.
  <1>15. \A a \in Alerts, e \in Destinations : arrived[a][e] = 1 => arrived'[a][e] = 1
    BY <1>8
  <1>16. JobsKept'
    <2>1. ~Early(p) /\ job[p].phase # "queued"
      BY <1>1, <1>5, Busy
    <2>2. \A q \in Passes \ {p} : Quiet(q) => Quiet(q)'
      BY <1>6 DEF Quiet
    <2>3. \A q \in Passes : /\ Early(q)' <=> Early(q)
                            /\ job[q].ids \subseteq Alerts
      BY <1>1, <1>5 DEF Early, DigestTypeOK, Job
    <2>4. \A q \in Passes, e \in Destinations :
            (\A a \in job[q].ids : arrived[a][e] = 1) => \A a \in job[q].ids : arrived'[a][e] = 1
      BY <1>15, <2>3
    <2> QED
      BY <1>1, <1>5, <2>1, <2>2, <2>3, <2>4 DEF JobsKept
  <1>17. DigestedArrived'
    BY <1>1, <1>5, <1>15 DEF DigestedArrived
  <1> QED
    BY <1>9, <1>11, <1>12, <1>13, <1>14, <1>16, <1>17 DEF DigestInv

\* The result is recorded in the rows that the attempt still has in hand, and
\* reported if those are all of its digest.
LEMMA FinishStep ==
  ASSUME MaxAttempts \in Nat, DigestInv,
         NEW p \in Passes, NEW d \in Destinations, NEW k \in Tries,
         AttemptFinishes(p, d, k)
  PROVE  DigestInv'
PROOF
  <1>1. /\ DigestTypeOK /\ HandsKept /\ OneHand /\ RowsKept /\ MarksKept /\ JobsKept
        /\ DigestedArrived /\ UNCHANGED <<deliverable, pass, arrived>>
    BY DEF DigestInv, AttemptFinishes
  <1>2. /\ alert \in [Alerts -> Claim] /\ send \in [Alerts -> [Destinations -> SendRow]]
        /\ attempt \in AttemptTable
    BY <1>1 DEF DigestTypeOK, AttemptTable
  <1>3. PICK ids \in SUBSET Alerts : ids = job[p].ids
    BY <1>1 DEF DigestTypeOK, Job
  <1>4. PICK result : result = attempt[p][d][k]
    OBVIOUS
  <1>5. PICK mine : mine = {a \in ids : send[a][d] = [state |-> "submitting", owner |-> p]}
    OBVIOUS
  <1>6. PICK after : after = [a \in Alerts |->
                               IF a \in mine THEN [send[a] EXCEPT ![d].state = RowState(result)]
                               ELSE send[a]]
    OBVIOUS
  <1>7. PICK clear \in BOOLEAN :
          clear = (/\ mine = ids
                   /\ RowState(result) = "skipped"
                   /\ \A a \in ids : \A e \in Destinations : after[a][e].state \notin Exposed)
    OBVIOUS
  <1>8. /\ result \in ResultStates /\ send' = after
        /\ alert' = [a \in Alerts |-> IF clear /\ a \in ids /\ Owned(p, a)
                                      THEN [alert[a] EXCEPT !.started = FALSE] ELSE alert[a]]
        /\ Report(p, d, k, IF mine = ids THEN result ELSE "unknown")
    BY <1>3, <1>4, <1>5, <1>6, <1>7 DEF AttemptFinishes, ResultStates
  <1>9. InHand(attempt[p][d][k])
    BY <1>4, <1>8 DEF InHand
  <1>10. \A a \in ids : HandKept(p, d, k, a)
    BY <1>1, <1>3, <1>9 DEF HandsKept
  <1>11. PICK outcome \in ResultStates :
           /\ Report(p, d, k, outcome)
           /\ outcome = "delivered" => result = "delivered"
    BY <1>8 DEF ResultStates
  <1>12. PICK heard \in SUBSET {outcome} : GoesOn(p, job[p].ids, job[p].outcomes \cup heard)
    BY <1>1, <1>11, AttemptReports
  <1>13. /\ job'[p].phase \in {job[p].phase, "finalize"}
         /\ attempt' \in AttemptTable /\ NoNewHand(p)
         /\ attempt'[p][d][k] \in {"over", "started"}
    BY <1>1, <1>11, AttemptReports
  <1>14. JobsKept' /\ HandsStay
    <2>1. ~Early(p) /\ job'[p].phase # "queued"
      BY <1>1, <1>9, <1>13, Busy DEF InHand, ResultStates
    <2>2. "delivered" \in job[p].outcomes \cup heard =>
            \E e \in Destinations : \A a \in job[p].ids : arrived[a][e] = 1
      <3>1. CASE "delivered" \in job[p].outcomes
        BY <1>1, <3>1 DEF JobsKept
      <3>2. CASE "delivered" \in heard
        BY <1>3, <1>4, <1>10, <1>11, <1>12, <3>2 DEF HandKept
      <3> QED
        BY <3>1, <3>2
    <2>3. PICK all, outcomes : all = job[p].ids /\ outcomes = job[p].outcomes \cup heard
      OBVIOUS
    <2> QED
      BY <1>1, <1>12, <1>13, <2>1, <2>2, <2>3, WorkflowMoves
  \* The rows: those in hand get the state of the result, and stay with p.
  <1>15. /\ RowState(result) \in RowStates \ {"none", "submitting"}
         /\ RowState(result) = "accepted" => result = "delivered"
         /\ RowState(result) \notin {"accepted", "unknown"} => result \notin {"delivered", "unknown"}
    BY <1>8 DEF RowState, ResultStates, RowStates
  <1>16. ASSUME NEW a \in Alerts
         PROVE  /\ send'[a] \in [Destinations -> SendRow]
                /\ \A e \in Destinations :
                     IF a \in mine /\ e = d
                     THEN /\ send'[a][e].state = RowState(result)
                          /\ send'[a][e].owner = send[a][e].owner
                     ELSE send'[a][e] = send[a][e]
    <2>1. CASE a \in mine
      <3>1. PICK row : row = [send[a][d] EXCEPT !.state = RowState(result)]
        OBVIOUS
      <3>2. send[a][d] \in SendRow /\ send[a] \in [Destinations -> SendRow]
        BY <1>2
      <3>3. row \in SendRow /\ row.state = RowState(result) /\ row.owner = send[a][d].owner
        BY <1>15, <3>1, <3>2 DEF SendRow
      <3>4. send'[a] = [send[a] EXCEPT ![d] = row]
        BY <1>6, <1>8, <2>1, <3>1, <3>2
      <3> QED
        BY <2>1, <3>2, <3>3, <3>4
    <2>2. CASE a \notin mine
      BY <1>2, <1>6, <1>8, <2>2
    <2> QED
      BY <2>1, <2>2
  \* The claims: the mark is taken back, or nothing changes.
  <1>17. ASSUME NEW a \in Alerts
         PROVE  /\ alert'[a] \in Claim
                /\ alert'[a].state = alert[a].state /\ alert'[a].owner = alert[a].owner
                /\ \/ alert'[a].started = alert[a].started
                   \/ clear /\ a \in ids /\ Owned(p, a)
    <2>1. PICK claim : claim = [alert[a] EXCEPT !.started = FALSE]
      OBVIOUS
    <2>2. claim \in Claim /\ claim.state = alert[a].state /\ claim.owner = alert[a].owner
      BY <1>2, <2>1 DEF Claim
    <2>3. \/ alert'[a] = alert[a]
          \/ clear /\ a \in ids /\ Owned(p, a) /\ alert'[a] = claim
      BY <1>8, <2>1
    <2> QED
      BY <1>2, <2>2, <2>3
  <1>18. DigestTypeOK'
    <2>1. alert' \in [Alerts -> Claim]
      <3>1. PICK f : f = alert'
        OBVIOUS
      <3>2. f = [a \in Alerts |-> f[a]]
        BY <1>8, <3>1
      <3> QED
        BY <1>17, <3>1, <3>2
    <2>2. send' \in [Alerts -> [Destinations -> SendRow]]
      <3>1. PICK f : f = send'
        OBVIOUS
      <3>2. f = [a \in Alerts |-> f[a]]
        BY <1>6, <1>8, <3>1
      <3> QED
        BY <1>16, <3>1, <3>2
    <2> QED
      BY <1>1, <1>12, <1>13, <2>1, <2>2 DEF DigestTypeOK, AttemptTable, GoesOn
  <1>19. HandsKept'
    <2> SUFFICES ASSUME NEW q \in Passes, NEW e \in Destinations, NEW l \in Tries,
                        InHand(attempt'[q][e][l]), NEW a \in job'[q].ids
                 PROVE  HandKept(q, e, l, a)'
      BY DEF HandsKept
    <2>1. attempt'[q][e][l] = attempt[q][e][l] /\ a \in job[q].ids
      BY <1>14 DEF HandsStay
    <2>2. a \in Alerts /\ HandKept(q, e, l, a)
      BY <1>1, <2>1 DEF DigestTypeOK, Job, HandsKept
    <2>3. ~(q = p /\ e = d /\ a \in ids)
      <3>1. l # k \/ q # p \/ e # d
        BY <1>13 DEF InHand, ResultStates
      <3> QED
        BY <1>1, <1>9, <2>1, <3>1 DEF OneHand
    <2>4. send'[a][e] = send[a][e]
      <3>1. ~(a \in mine /\ e = d)
        BY <1>5, <2>2, <2>3 DEF HandKept
      <3> QED
        BY <1>16, <2>2, <3>1
    <2>5. Safe(a, q)'
      <3>1. CASE alert'[a].started = alert[a].started
        BY <1>17, <2>2, <3>1 DEF HandKept, Safe, Owned
      <3>2. CASE clear /\ a \in ids /\ Owned(p, a)
        <4>1. q = p
          BY <2>2, <3>2 DEF HandKept, Safe, Owned
        <4>2. send[a][e].state \in Exposed /\ send[a][e] = after[a][e]
          BY <1>8, <2>2, <2>4 DEF HandKept, Exposed
        <4> QED
          BY <1>7, <3>2, <4>2
      <3> QED
        BY <1>17, <2>2, <3>1, <3>2
    <2> QED
      BY <1>1, <2>1, <2>2, <2>4, <2>5 DEF HandKept
  <1>20. OneHand'
    BY <1>1, <1>14 DEF OneHand, HandsStay
  <1>21. RowsKept'
    <2> SUFFICES ASSUME NEW a \in Alerts, NEW e \in Destinations  PROVE RowKept(a, e)'
      BY DEF RowsKept
    <2>1. RowKept(a, e) /\ arrived'[a][e] = arrived[a][e]
      BY <1>1 DEF RowsKept
    <2>2. CASE a \in mine /\ e = d
      <3>1. /\ send'[a][e].state = RowState(result)
            /\ result = "delivered" => arrived[a][e] = 1
            /\ result \notin {"delivered", "unknown"} => arrived[a][e] = 0
        BY <1>4, <1>5, <1>10, <1>16, <2>2 DEF HandKept
      <3> QED
        BY <1>15, <2>1, <3>1 DEF RowKept, Exposed
    <2>3. CASE ~(a \in mine /\ e = d)
      <3>1. send'[a][e] = send[a][e]
        BY <1>16, <2>3
      <3> QED
        BY <2>1, <3>1 DEF RowKept
    <2> QED
      BY <2>2, <2>3
  <1>22. MarksKept'
    <2> SUFFICES ASSUME NEW a \in Alerts
                 PROVE  /\ alert'[a].state = "digest_pending" => ~alert'[a].started
                        /\ alert'[a].state \in Live /\ ~alert'[a].started =>
                             \A e \in Destinations : send'[a][e].state \notin Exposed
      BY DEF MarksKept, Live
    <2>1. CASE clear /\ a \in ids /\ Owned(p, a)
      BY <1>7, <1>8, <1>17, <2>1 DEF Owned
    <2>2. CASE alert'[a].started = alert[a].started
      <3>1. /\ alert[a].state = "digest_pending" => ~alert[a].started
            /\ alert[a].state \in Live /\ ~alert[a].started =>
                 \A e \in Destinations : send[a][e].state \notin Exposed
        BY <1>1 DEF MarksKept, Live
      <3>2. a \in mine => send[a][d].state \in Exposed
        BY <1>5 DEF Exposed
      <3> QED
        BY <1>16, <1>17, <2>2, <3>1, <3>2
    <2> QED
      BY <1>17, <2>1, <2>2
  <1>23. DigestedArrived'
    BY <1>1, <1>17 DEF DigestedArrived
  <1> QED
    BY <1>14, <1>18, <1>19, <1>20, <1>21, <1>22, <1>23 DEF DigestInv

LEMMA TimeStep ==
  ASSUME DigestInv,
         \/ \E a \in Alerts : ClaimGrowsOld(a) \/ Snooze(a)
         \/ UNCHANGED digestVars
  PROVE  DigestInv'
PROOF
  <1>1. /\ DigestTypeOK /\ JobsKept /\ alert \in [Alerts -> Claim]
        /\ UNCHANGED <<send, pass, job, attempt, arrived>>
    BY DEF DigestInv, DigestTypeOK, ClaimGrowsOld, Snooze, digestVars
  <1>2. /\ alert' \in [Alerts -> Claim]
        /\ \A a \in Alerts : /\ alert'[a].state = alert[a].state
                             /\ alert'[a].owner = alert[a].owner
                             /\ alert'[a].started = alert[a].started
    <2>1. ASSUME NEW a \in Alerts, ClaimGrowsOld(a)
          PROVE  /\ alert' \in [Alerts -> Claim]
                 /\ \A b \in Alerts : /\ alert'[b].state = alert[b].state
                                      /\ alert'[b].owner = alert[b].owner
                                      /\ alert'[b].started = alert[b].started
      <3>1. PICK claim : claim = [alert[a] EXCEPT !.old = TRUE]
        OBVIOUS
      <3>2. /\ claim \in Claim /\ claim.state = alert[a].state /\ claim.owner = alert[a].owner
            /\ claim.started = alert[a].started
        BY <1>1, <3>1 DEF Claim
      <3>3. alert' = [alert EXCEPT ![a] = claim]
        BY <1>1, <2>1, <3>1 DEF ClaimGrowsOld
      <3> QED
        BY <1>1, <3>2, <3>3
    <2> QED
      BY <1>1, <2>1 DEF Snooze, digestVars
  <1>3. deliverable' \in SUBSET Alerts
    BY <1>1 DEF DigestTypeOK, ClaimGrowsOld, Snooze, digestVars
  <1>4. JobsKept' /\ HandsStay
    BY <1>1, WorkflowsStay DEF Early
  <1>5. DigestTypeOK' /\ \A a \in Alerts, d \in Destinations : RowMoves(a, d)
    BY <1>1, <1>2, <1>3 DEF DigestTypeOK, RowMoves
  <1>6. \A a \in Alerts : ClaimMoves(a)
    BY <1>2 DEF ClaimMoves
  <1> QED
    BY <1>1, <1>2, <1>4, <1>5, <1>6, ClaimsKept

-----------------------------------------------------------------------------
(* The invariant and the theorems.                                          *)

LEMMA DigestInit ==
  ASSUME Tokens, Init
  PROVE  DigestInv
PROOF
  <1>1. /\ \A a \in Alerts : alert[a] = [state |-> "digest_pending", owner |-> NoPass,
                                        started |-> FALSE, old |-> FALSE]
        /\ \A a \in Alerts, d \in Destinations : send[a][d] = NoRow /\ arrived[a][d] = 0
        /\ \A p \in Passes : pass[p] = Idle /\ job[p] = NoJob
        /\ \A p \in Passes, d \in Destinations, k \in Tries : attempt[p][d][k] = "idle"
    BY DEF Init
  <1>2. DigestTypeOK
    <2>1. /\ [state |-> "digest_pending", owner |-> NoPass, started |-> FALSE, old |-> FALSE]
               \in Claim
          /\ NoRow \in SendRow /\ Idle \in Flush /\ "idle" \in AttemptStates
      BY DEF Claim, States, NoRow, SendRow, RowStates, Idle, Flush, PassPhases, AttemptStates
    <2>2. NoJob \in Job /\ 0 \in Nat
      <3>1. 0 \in Nat
        OBVIOUS
      <3> QED
        BY <3>1 DEF NoJob, Job, JobPhases
    <2> QED
      BY <2>1, <2>2 DEF Init, DigestTypeOK
  <1>3. HandsKept /\ OneHand
    BY <1>1 DEF HandsKept, OneHand, InHand, ResultStates
  <1>4. RowsKept /\ MarksKept /\ DigestedArrived
    BY <1>1 DEF RowsKept, RowKept, MarksKept, DigestedArrived, NoRow, Exposed
  <1>5. JobsKept
    BY <1>1 DEF JobsKept, Early, Quiet, Idle, NoJob
  <1> QED
    BY <1>2, <1>3, <1>4, <1>5 DEF DigestInv

LEMMA DigestStep ==
  ASSUME Tokens, MaxAttempts \in Nat, DigestInv, [Next]_digestVars
  PROVE  DigestInv'
PROOF
  <1>1. ASSUME NEW p \in Passes, PassStep(p)  PROVE DigestInv'
    BY <1>1, RecoverStep, ReadStep, ClaimStep, SuppressStep, EnqueueStep, ReleaseStep
       DEF PassStep
  <1>2. ASSUME NEW p \in Passes, WorkflowStep(p)  PROVE DigestInv'
    BY <1>2, PrepareStep, ReleaseStep, TimeOutStep, FinalizeStep DEF WorkflowStep
  <1>3. ASSUME NEW p \in Passes, SendStep(p)  PROVE DigestInv'
    BY <1>3, TurnedAwayStep, BeginStep, SendStepKeeps, FinishStep DEF SendStep
  <1>4. CASE (\E a \in Alerts : ClaimGrowsOld(a) \/ Snooze(a)) \/ UNCHANGED digestVars
    BY <1>4, TimeStep
  <1> QED
    BY <1>1, <1>2, <1>3, <1>4 DEF Next

LEMMA DigestInvariant ==
  ASSUME Tokens, MaxAttempts \in Nat
  PROVE  Spec => []DigestInv
PROOF
  <1>1. Init => DigestInv
    BY DigestInit
  <1>2. DigestInv /\ [Next]_digestVars => DigestInv'
    BY DigestStep
  <1> QED
    BY <1>1, <1>2, PTL DEF Spec

\* However attempts, flush passes and recoveries overlap, no destination is sent
\* an alert twice: the attempt that passed the fence (digest-send-fence.ts)
\* keeps every other one from sending until it records its result, and what it
\* records tells the next one whether the digest may have arrived.
THEOREM DigestsAreSentOnce ==
  ASSUME Tokens, MaxAttempts \in Nat
  PROVE  Spec => []SentOnce
PROOF
  <1>1. DigestInv => SentOnce
    BY DEF DigestInv, RowsKept, RowKept, SentOnce
  <1> QED
    BY <1>1, DigestInvariant, PTL

\* An alert that a recovery, a release or a finalisation gave back to the flush
\* was sent to nobody: its mark says so, and a mark is taken back only after
\* the rows of all destinations say so too.
THEOREM PendingWasNotSent ==
  ASSUME Tokens, MaxAttempts \in Nat
  PROVE  Spec => []PendingIsUnsent
PROOF
  <1>1. DigestInv => PendingIsUnsent
    BY DEF DigestInv, RowsKept, RowKept, MarksKept, PendingIsUnsent
  <1> QED
    BY <1>1, DigestInvariant, PTL

\* An alert is recorded as digested only if a destination got its digest,
\* whichever attempt the workflow heard that from.
THEOREM DigestedHasArrived ==
  ASSUME Tokens, MaxAttempts \in Nat
  PROVE  Spec => []DigestedArrived
PROOF
  <1>1. DigestInv => DigestedArrived
    BY DEF DigestInv
  <1> QED
    BY <1>1, DigestInvariant, PTL

=============================================================================

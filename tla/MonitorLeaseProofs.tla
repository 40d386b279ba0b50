------------------------- MODULE MonitorLeaseProofs -------------------------
(***************************************************************************)
(* Proofs about MonitorLease, for any number of targets and of executions  *)
(* of the activity: a target of a run is freed only when nothing is open   *)
(* from it, and a job is complete only when all of its targets are freed.  *)
(*                                                                         *)
(* A request is sent by an execution that wrote the fence of its operation *)
(* before.  The fence is never taken back, and a target is cancelled as    *)
(* unsent only without it; the evidence that frees a target is final,      *)
(* because only the holder of the target may still change it.              *)
(***************************************************************************)
EXTENDS MonitorLease, TLAPS

JobStates == {"queued", "running", "complete", "blocked"}
Blockers == {"none", "access_revoked", "admission_refused", "provider_evidence_required",
             "unavailable"}
Statuses == {"none", "claimed", "cancelled", "unknown_acceptance", "accepted", "rejected"}
Outcomes == {"none", "accepted", "rejected", "unknown"}
Before == {"idle", "prepare", "admit", "failed", "revoked", "done"}
Sending == {"fenced", "answered", "recorded"}
After == {"submit", "continue", "items", "release", "lease_collect", "lease_reconcile",
          "collect", "reconcile", "account", "persist", "unlease", "unlease_blocked",
          "complete", "blocked", "pending"}

Intent == [state : JobStates, reason : Blockers, owner : Workers \cup {Nobody},
           live : BOOLEAN, run : BOOLEAN]
Item == [status : Statuses, outcome : Outcomes, settled : BOOLEAN, collected : BOOLEAN,
         cancelled : BOOLEAN]
Operation == [state : {"none", "intended", "settled", "pending", "zero"}, live : BOOLEAN,
              fenced : BOOLEAN]
Row == [held : BOOLEAN, version : Nat, token : Workers \cup {Nobody}, live : BOOLEAN]
Work == [at : Before \cup Sending \cup After, todo : SUBSET Targets, now : SUBSET Targets,
         saw : Nat, blocked : SUBSET Targets]

MonitorTypeOK ==
  /\ job \in Intent
  /\ rec \in [Targets -> Item]
  /\ op \in [Targets -> Operation]
  /\ owner \in [Targets -> Row]
  /\ worker \in [Workers -> Work]
  /\ proof \in [Targets -> {"none", "accepted", "rejected"}]
  /\ late \in BOOLEAN
  /\ sent \in SUBSET Targets

\* An execution goes beyond the admission only with a run.
RunsExist == \A w \in Workers : worker[w].at \notin Before => job.run

\* Who sends, and what was sent, is fenced; there is no fence before the run.
FencedFirst ==
  /\ \A w \in Workers : worker[w].at \in Sending => \A t \in worker[w].now : op[t].fenced
  /\ \A t \in sent : op[t].fenced
  /\ \A t \in Targets : op[t].fenced => job.run

\* What frees a target.
Freed(t) ==
  \/ rec[t].status = "cancelled" /\ op[t].state = "zero" /\ ~op[t].fenced
  \/ Proven(rec[t], op[t])

TargetsKept ==
  \A t \in Targets : /\ rec[t].settled => rec[t].outcome # "none"
                     /\ job.run /\ ~owner[t].held => Freed(t)

\* An execution that is to report the job complete saw the run so.
SawComplete ==
  \A w \in Workers : At(w, "complete") => \A t \in Targets : ~owner[t].held

MonitorInv ==
  /\ MonitorTypeOK /\ RunsExist /\ FencedFirst /\ TargetsKept /\ SawComplete
  /\ CompleteIsFreed

-----------------------------------------------------------------------------
(* What a step does to the targets and to the executions.                   *)

\* A fence stays, a freed target stays free, and is free for a reason.
TargetMoves(t) ==
  /\ op[t].fenced => op'[t].fenced
  /\ ~owner[t].held => ~owner'[t].held
  /\ rec'[t].settled => rec'[t].outcome # "none"
  /\ ~owner'[t].held => Freed(t)'

\* An execution moves on; what it is to send is fenced.
WorkerMoves(v) ==
  \/ worker'[v] = worker[v]
  \/ /\ worker'[v].at \notin Before => job.run
     /\ worker'[v].at \in Sending => \A t \in worker'[v].now : op'[t].fenced
     /\ worker'[v].at = "complete" => job.run /\ \A t \in Targets : ~owner[t].held

\* Steps that leave the targets to themselves.
LEMMA WorkersMove ==
  ASSUME MonitorInv, MonitorTypeOK', UNCHANGED <<items, sent>>, job'.run = job.run,
         job'.state = "complete" =>
           job.state = "complete" \/ (job.run /\ \A t \in Targets : ~owner[t].held),
         \A v \in Workers : WorkerMoves(v)
  PROVE  MonitorInv'
PROOF
  <1>1. /\ RunsExist /\ FencedFirst /\ TargetsKept /\ SawComplete /\ CompleteIsFreed
        /\ rec' = rec /\ op' = op /\ owner' = owner /\ sent' = sent
    BY DEF MonitorInv, items
  <1>2. RunsExist'
    BY <1>1 DEF RunsExist, WorkerMoves
  <1>3. FencedFirst'
    BY <1>1 DEF FencedFirst, WorkerMoves
  <1>4. TargetsKept'
    BY <1>1 DEF TargetsKept, Freed, Proven
  <1>5. SawComplete'
    BY <1>1 DEF SawComplete, WorkerMoves, At
  <1>6. CompleteIsFreed'
    BY <1>1 DEF CompleteIsFreed
  <1> QED
    BY <1>2, <1>3, <1>4, <1>5, <1>6 DEF MonitorInv

\* Steps of a run on its targets.
LEMMA TargetsMove ==
  ASSUME MonitorInv, MonitorTypeOK', job' = job, job.run,
         \A t \in Targets : TargetMoves(t),
         \A v \in Workers : WorkerMoves(v),
         \A t \in sent' : op'[t].fenced
  PROVE  MonitorInv'
PROOF
  <1>1. /\ MonitorTypeOK /\ RunsExist /\ FencedFirst /\ TargetsKept /\ SawComplete
        /\ CompleteIsFreed
    BY DEF MonitorInv
  <1>2. RunsExist'
    BY <1>1 DEF RunsExist
  <1>3. FencedFirst'
    <2>1. \A v \in Workers : worker'[v].at \in Sending => \A t \in worker'[v].now : op'[t].fenced
      <3> SUFFICES ASSUME NEW v \in Workers, worker'[v].at \in Sending, NEW t \in worker'[v].now
                   PROVE  op'[t].fenced
        OBVIOUS
      <3>1. CASE worker'[v] = worker[v]
        <4>1. t \in Targets /\ op[t].fenced
          BY <1>1, <3>1 DEF FencedFirst, MonitorTypeOK, Work
        <4> QED
          BY <4>1 DEF TargetMoves
      <3>2. CASE worker'[v] # worker[v]
        BY <3>2 DEF WorkerMoves
      <3> QED
        BY <3>1, <3>2
    <2> QED
      BY <1>1, <2>1 DEF FencedFirst
  <1>4. TargetsKept'
    BY DEF TargetsKept, TargetMoves
  <1>5. SawComplete'
    BY <1>1 DEF SawComplete, WorkerMoves, At, TargetMoves
  <1>6. CompleteIsFreed'
    BY <1>1 DEF CompleteIsFreed, TargetMoves
  <1> QED
    BY <1>2, <1>3, <1>4, <1>5, <1>6 DEF MonitorInv

\* A target that a step leaves alone.
LEMMA TargetStays ==
  ASSUME TargetsKept, job.run, NEW t \in Targets,
         op'[t] = op[t], owner'[t].held = owner[t].held, rec'[t] = rec[t]
  PROVE  TargetMoves(t)
PROOF
  BY DEF TargetsKept, TargetMoves, Freed, Proven

\* Where an execution goes.
LEMMA Going ==
  ASSUME MonitorTypeOK, NEW w \in Workers, NEW phase \in Before \cup Sending \cup After,
         Goes(w, phase)
  PROVE  /\ worker' \in [Workers -> Work]
         /\ \A v \in Workers \ {w} : worker'[v] = worker[v]
         /\ worker'[w].at = phase /\ worker'[w].now = worker[w].now
PROOF
  <1>1. PICK x : x = [worker[w] EXCEPT !.at = phase]
    OBVIOUS
  <1>2. worker \in [Workers -> Work] /\ worker[w] \in Work
    BY DEF MonitorTypeOK
  <1>3. x \in Work /\ x.at = phase /\ x.now = worker[w].now
    BY <1>1, <1>2 DEF Work
  <1>4. worker' = [worker EXCEPT ![w] = x]
    BY <1>1, <1>2 DEF Goes
  <1> QED
    BY <1>2, <1>3, <1>4

LEMMA Leaving ==
  ASSUME MonitorTypeOK, NEW w \in Workers, NEW t, NEW phase \in After, NEW stuck \in BOOLEAN,
         t \in Targets, Leaves(w, t, phase, stuck)
  PROVE  /\ worker' \in [Workers -> Work]
         /\ \A v \in Workers \ {w} : worker'[v] = worker[v]
         /\ worker'[w].at = phase
PROOF
  <1>1. worker \in [Workers -> Work] /\ worker[w] \in Work /\ 0 \in Nat
    BY DEF MonitorTypeOK
  <1>2. ASSUME NEW x, x \in Work, x.at = phase, worker' = [worker EXCEPT ![w] = x]
        PROVE  /\ worker' \in [Workers -> Work]
               /\ \A v \in Workers \ {w} : worker'[v] = worker[v]
               /\ worker'[w].at = phase
    BY <1>1, <1>2
  <1>3. PICK b : b = IF stuck THEN worker[w].blocked \cup {t} ELSE worker[w].blocked
    OBVIOUS
  <1>4. PICK x : x = [worker[w] EXCEPT !.at = phase, !.todo = @ \ {t}, !.now = {}, !.saw = 0,
                                       !.blocked = b]
    OBVIOUS
  <1>5. x \in Work /\ x.at = phase
    BY <1>1, <1>3, <1>4 DEF Work
  <1>6. worker' = [worker EXCEPT ![w] = x]
    BY <1>3, <1>4 DEF Leaves
  <1> QED
    BY <1>2, <1>5, <1>6

LEMMA Ending ==
  ASSUME MonitorTypeOK, NEW w \in Workers, Ends(w)
  PROVE  /\ worker' \in [Workers -> Work]
         /\ \A v \in Workers \ {w} : worker'[v] = worker[v]
         /\ worker'[w].at = "done"
PROOF
  <1>1. PICK x : x = [NoWork EXCEPT !.at = "done"]
    OBVIOUS
  <1>2. worker \in [Workers -> Work] /\ 0 \in Nat
    BY DEF MonitorTypeOK
  <1>3. x \in Work /\ x.at = "done"
    BY <1>1, <1>2 DEF Work, NoWork, Before
  <1> QED
    BY <1>1, <1>2, <1>3 DEF Ends

\* An execution that goes on to a phase in which it does not send.
LEMMA MovesOn ==
  ASSUME RunsExist, NEW w \in Workers, \A v \in Workers \ {w} : worker'[v] = worker[v],
         worker'[w].at \in After \ {"complete"} => job.run,
         worker'[w].at \in Before \cup (After \ {"complete"})
  PROVE  \A v \in Workers : WorkerMoves(v)
PROOF
  BY DEF WorkerMoves, Before, Sending, After

LEMMA JobTaken ==
  ASSUME MonitorTypeOK, NEW w \in Workers,
         job' = [job EXCEPT !.state = "running", !.owner = w, !.live = TRUE]
  PROVE  job' \in Intent /\ job'.run = job.run /\ job'.state = "running"
PROOF
  BY DEF MonitorTypeOK, Intent, JobStates

LEMMA JobLeft ==
  ASSUME MonitorTypeOK, NEW state \in JobStates, NEW reason \in Blockers,
         Becomes(state, reason)
  PROVE  job' \in Intent /\ job'.run = job.run /\ job'.state = state
PROOF
  BY DEF MonitorTypeOK, Intent, Becomes

-----------------------------------------------------------------------------
(* Steps of an execution that leave the targets to themselves.              *)

LEMMA ClaimKeeps ==
  ASSUME MonitorInv, NEW w \in Workers, Claim(w)
  PROVE  MonitorInv'
PROOF
  <1>1. MonitorTypeOK /\ RunsExist /\ UNCHANGED <<items, late, sent>>
    BY DEF MonitorInv, Claim
  <1>2. job' \in Intent /\ job'.run = job.run /\ job'.state = "running"
    BY <1>1, JobTaken DEF Claim
  <1>3. /\ worker' \in [Workers -> Work] /\ \A v \in Workers \ {w} : worker'[v] = worker[v]
        /\ worker'[w].at = "prepare"
    BY <1>1, Going DEF Claim, Before
  <1>4. \A v \in Workers : WorkerMoves(v)
    BY <1>1, <1>3, MovesOn DEF Before, After
  <1>5. MonitorTypeOK'
    BY <1>1, <1>2, <1>3 DEF MonitorTypeOK, items
  <1> QED
    BY <1>1, <1>2, <1>4, <1>5, WorkersMove

\* An execution ends, and may conclude the job.
LEMMA EndKeeps ==
  ASSUME MonitorInv, NEW w \in Workers, Fail(w) \/ Conclude(w)
  PROVE  MonitorInv'
PROOF
  <1>1. /\ MonitorTypeOK /\ RunsExist /\ SawComplete
        /\ UNCHANGED <<items, late, sent>> /\ Ends(w)
    BY DEF MonitorInv, Fail, Conclude
  <1>2. /\ job' \in Intent /\ job'.run = job.run
        /\ job'.state = "complete" => job.state = "complete" \/ At(w, "complete")
    <2>1. CASE job' = job
      BY <1>1, <2>1 DEF MonitorTypeOK
    <2>2. CASE Fail(w) /\ job' # job
      <3>1. PICK reason \in Blockers : Becomes("blocked", reason)
        BY <2>2 DEF Fail, Blockers
      <3> QED
        BY <1>1, <3>1, JobLeft DEF JobStates
    <2>3. CASE Conclude(w) /\ job' # job
      <3>a. PICK state : state = worker[w].at
        OBVIOUS
      <3>1. PICK reason \in Blockers :
                 reason = IF At(w, "complete") THEN "none"
                          ELSE IF worker[w].blocked # {} THEN "provider_evidence_required"
                          ELSE "unavailable"
        BY DEF Blockers
      <3>2. Becomes(state, reason) /\ worker[w].at \in {"complete", "blocked"}
        BY <2>3, <3>a, <3>1 DEF Conclude, Terminal, At
      <3> QED
        BY <1>1, <3>a, <3>2, JobLeft DEF JobStates, At
    <2> QED
      BY <2>1, <2>2, <2>3
  <1>3. /\ worker' \in [Workers -> Work] /\ \A v \in Workers \ {w} : worker'[v] = worker[v]
        /\ worker'[w].at = "done"
    BY <1>1, Ending
  <1>4. \A v \in Workers : WorkerMoves(v)
    BY <1>1, <1>3, MovesOn DEF Before, After
  <1>5. MonitorTypeOK'
    BY <1>1, <1>2, <1>3 DEF MonitorTypeOK, items
  <1>6. At(w, "complete") => job.run /\ \A t \in Targets : ~owner[t].held
    BY <1>1 DEF SawComplete, RunsExist, At, Before
  <1> QED
    BY <1>1, <1>2, <1>4, <1>5, <1>6, WorkersMove

\* An execution goes on to another phase of its own.
LEMMA GoKeeps ==
  ASSUME MonitorInv, NEW w \in Workers,
         \/ Prepare(w) \/ AdmitFails(w) \/ SubmitEnds(w) \/ Continue(w) \/ ContinueRevoked(w)
         \/ \E t \in Targets : SubmitFails(w, t) \/ ItemFails(w, t) \/ ReadItem(w, t)
                               \/ Collect(w, t) \/ LeasedItemFails(w, t)
  PROVE  MonitorInv'
PROOF
  <1>1. /\ MonitorTypeOK /\ RunsExist /\ UNCHANGED <<job, items, late, sent>>
        /\ worker \in [Workers -> Work] /\ worker[w] \in Work
    BY DEF MonitorInv, MonitorTypeOK, Prepare, AdmitFails, SubmitEnds, Continue, ContinueRevoked,
       SubmitFails, ItemFails, ReadItem, Collect, LeasedItemFails
  <1>2. /\ worker' \in [Workers -> Work] /\ \A v \in Workers \ {w} : worker'[v] = worker[v]
        /\ worker'[w].at \in Before \cup (After \ {"complete"})
        /\ worker'[w].at \in After => job.run
    <2>1. CASE Prepare(w)
      <3>1. PICK next \in {"continue", "admit", "failed", "revoked"} :
              Goes(w, next) /\ (next = "continue" => job.run)
        BY <2>1 DEF Prepare
      <3> QED
        BY <1>1, <3>1, Going DEF Before, After
    <2>2. CASE AdmitFails(w) \/ ContinueRevoked(w)
      <3>1. PICK next \in {"failed", "revoked"} : Goes(w, next)
        BY <2>2 DEF AdmitFails, ContinueRevoked
      <3> QED
        BY <1>1, <3>1, Going DEF Before, After
    <2>3. CASE SubmitEnds(w)
      <3>1. job.run
        BY <1>1, <2>3 DEF SubmitEnds, At, RunsExist, Before
      <3> QED
        BY <1>1, <2>3, <3>1, Going DEF SubmitEnds, After
    <2>4. CASE Continue(w)
      <3>1. job.run
        BY <1>1, <2>4 DEF Continue, At, RunsExist, Before
      <3>2. CASE Goes(w, "failed")
        BY <1>1, <3>2, Going DEF Before, After
      <3>3. CASE worker' = [worker EXCEPT ![w].at = "items", ![w].todo = Targets,
                                          ![w].blocked = {}]
        <4>1. PICK x : x = [worker[w] EXCEPT !.at = "items", !.todo = Targets, !.blocked = {}]
          OBVIOUS
        <4>2. x \in Work /\ x.at = "items"
          BY <1>1, <4>1 DEF Work, After
        <4>3. worker' = [worker EXCEPT ![w] = x]
          BY <1>1, <3>3, <4>1
        <4> QED
          BY <1>1, <3>1, <4>2, <4>3 DEF After
      <3> QED
        BY <2>4, <3>2, <3>3 DEF Continue
    <2>5. ASSUME NEW t \in Targets, SubmitFails(w, t) \/ ItemFails(w, t)
          PROVE  /\ worker' \in [Workers -> Work]
                 /\ \A v \in Workers \ {w} : worker'[v] = worker[v]
                 /\ worker'[w].at \in After \ {"complete"} /\ job.run
      <3>1. job.run
        BY <1>1, <2>5 DEF SubmitFails, ItemFails, At, RunsExist, Before
      <3>2. PICK phase \in {"submit", "items"}, stuck \in BOOLEAN : Leaves(w, t, phase, stuck)
        BY <2>5 DEF SubmitFails, ItemFails
      <3> QED
        BY <1>1, <3>1, <3>2, Leaving DEF After
    <2>6. ASSUME NEW t \in Targets, ReadItem(w, t)
          PROVE  /\ worker' \in [Workers -> Work]
                 /\ \A v \in Workers \ {w} : worker'[v] = worker[v]
                 /\ worker'[w].at \in After \ {"complete"} /\ job.run
      <3>1. job.run
        BY <1>1, <2>6 DEF ReadItem, At, RunsExist, Before
      <3>2. CASE \E stuck \in BOOLEAN : Leaves(w, t, "items", stuck)
        BY <1>1, <3>1, <3>2, Leaving DEF After
      <3>3. CASE worker' = [worker EXCEPT ![w] =
                   [@ EXCEPT !.now = {t}, !.saw = owner[t].version,
                             !.at = IF LooksUnsent(t) THEN "release"
                                    ELSE IF Collectable(t) THEN "lease_collect"
                                    ELSE "lease_reconcile"]]
        <4>1. PICK phase \in {"release", "lease_collect", "lease_reconcile"} :
                phase = IF LooksUnsent(t) THEN "release"
                        ELSE IF Collectable(t) THEN "lease_collect" ELSE "lease_reconcile"
          OBVIOUS
        <4>2. PICK x : x = [worker[w] EXCEPT !.now = {t}, !.saw = owner[t].version, !.at = phase]
          OBVIOUS
        <4>3. owner[t].version \in Nat
          BY <1>1 DEF MonitorTypeOK, Row
        <4>4. x \in Work /\ x.at = phase
          BY <1>1, <4>2, <4>3 DEF Work, After
        <4>5. worker' = [worker EXCEPT ![w] = x]
          BY <1>1, <3>3, <4>1, <4>2
        <4> QED
          BY <1>1, <3>1, <4>4, <4>5 DEF After
      <3> QED
        BY <2>6, <3>2, <3>3 DEF ReadItem
    <2>7. ASSUME NEW t \in Targets, Collect(w, t) \/ LeasedItemFails(w, t)
          PROVE  /\ worker' \in [Workers -> Work]
                 /\ \A v \in Workers \ {w} : worker'[v] = worker[v]
                 /\ worker'[w].at \in After \ {"complete"} /\ job.run
      <3>1. job.run
        BY <1>1, <2>7 DEF Collect, LeasedItemFails, At, RunsExist, Before
      <3>2. PICK phase \in {"persist", "unlease", "unlease_blocked"} : Goes(w, phase)
        BY <2>7 DEF Collect, LeasedItemFails
      <3> QED
        BY <1>1, <3>1, <3>2, Going DEF After
    <2> QED
      BY <2>1, <2>2, <2>3, <2>4, <2>5, <2>6, <2>7
  <1>3. \A v \in Workers : WorkerMoves(v)
    BY <1>1, <1>2, MovesOn
  <1>4. MonitorTypeOK'
    BY <1>1, <1>2 DEF MonitorTypeOK, items
  <1> QED
    BY <1>1, <1>3, <1>4, WorkersMove

\* The run that is read decides what the execution will report.
LEMMA ReadRunKeeps ==
  ASSUME MonitorInv, NEW w \in Workers, ReadRun(w)
  PROVE  MonitorInv'
PROOF
  <1>1. /\ MonitorTypeOK /\ RunsExist /\ UNCHANGED <<job, items, late, sent>> /\ job.run
    BY DEF MonitorInv, ReadRun, RunsExist, At, Before
  <1>2. PICK verdict \in {"complete", "blocked", "pending"} :
          /\ Goes(w, verdict)
          /\ verdict = "complete" => \A t \in Targets : Done(t)
    BY DEF ReadRun, Progress
  <1>3. /\ worker' \in [Workers -> Work] /\ \A v \in Workers \ {w} : worker'[v] = worker[v]
        /\ worker'[w].at = verdict
    BY <1>1, <1>2, Going DEF After
  <1>4. \A v \in Workers : WorkerMoves(v)
    BY <1>1, <1>2, <1>3 DEF WorkerMoves, Sending, Done
  <1>5. MonitorTypeOK'
    BY <1>1, <1>3 DEF MonitorTypeOK, items
  <1> QED
    BY <1>1, <1>4, <1>5, WorkersMove

\* Leases of the job expire, and the deadline passes.
LEMMA ClockKeeps ==
  ASSUME MonitorInv, JobLeaseExpires \/ CollectionEnds \/ UNCHANGED monitorVars
  PROVE  MonitorInv'
PROOF
  <1>1. MonitorTypeOK /\ UNCHANGED <<items, worker, sent>>
    BY DEF MonitorInv, JobLeaseExpires, CollectionEnds, monitorVars, items
  <1>2. job' \in Intent /\ job'.run = job.run /\ job'.state = job.state
    BY <1>1 DEF JobLeaseExpires, CollectionEnds, monitorVars, MonitorTypeOK, Intent
  <1>3. MonitorTypeOK'
    BY <1>1, <1>2 DEF MonitorTypeOK, items, JobLeaseExpires, CollectionEnds, monitorVars
  <1>4. \A v \in Workers : WorkerMoves(v)
    BY <1>1 DEF WorkerMoves
  <1> QED
    BY <1>1, <1>2, <1>3, <1>4, WorkersMove

-----------------------------------------------------------------------------
(* Steps on the targets.                                                    *)

\* A step on one target leaves the others alone.
LEMMA OneTarget ==
  ASSUME TargetsKept, job.run, NEW t \in Targets, TargetMoves(t),
         \A u \in Targets \ {t} :
           op'[u] = op[u] /\ owner'[u].held = owner[u].held /\ rec'[u] = rec[u]
  PROVE  \A u \in Targets : TargetMoves(u)
PROOF
  BY TargetStays

\* Whoever is beyond the admission works on a run.
LEMMA AtWork ==
  ASSUME MonitorInv, NEW w \in Workers, worker[w].at \in Sending \cup After
  PROVE  job.run
PROOF
  BY DEF MonitorInv, RunsExist, Before, Sending, After

LEMMA FenceKeeps ==
  ASSUME MonitorInv, NEW w \in Workers, NEW t \in Targets, Fence(w, t)
  PROVE  MonitorInv'
PROOF
  <1>1. /\ MonitorTypeOK /\ TargetsKept /\ FencedFirst
        /\ UNCHANGED <<job, owner, proof, late, sent>> /\ owner[t].held
        /\ rec \in [Targets -> Item] /\ rec[t] \in Item
        /\ op \in [Targets -> Operation] /\ op[t] \in Operation
        /\ worker \in [Workers -> Work] /\ worker[w] \in Work
    BY DEF MonitorInv, MonitorTypeOK, Fence
  <1>2. job.run
    BY AtWork DEF Fence, At, After
  <1>3. PICK x : x = [op[t] EXCEPT !.fenced = TRUE]
    OBVIOUS
  <1>4. x \in Operation /\ x.fenced /\ op' = [op EXCEPT ![t] = x]
    BY <1>1, <1>3 DEF Fence, Operation
  <1>5. PICK y : y = [rec[t] EXCEPT !.status = "unknown_acceptance"]
    OBVIOUS
  <1>6. /\ y \in Item /\ y.settled = rec[t].settled /\ y.outcome = rec[t].outcome
        /\ rec' = [rec EXCEPT ![t] = y]
    BY <1>1, <1>5 DEF Fence, Item, Statuses
  <1>7. PICK z : z = [worker[w] EXCEPT !.at = "fenced", !.now = {t}]
    OBVIOUS
  <1>8. /\ z \in Work /\ z.at = "fenced" /\ z.now = {t}
        /\ worker' = [worker EXCEPT ![w] = z]
    BY <1>1, <1>7 DEF Fence, TurnsTo, Work, Sending
  <1>9. TargetMoves(t)
    BY <1>1, <1>4, <1>6 DEF TargetMoves, TargetsKept
  <1>10. \A u \in Targets : TargetMoves(u)
    BY <1>1, <1>2, <1>4, <1>6, <1>9, OneTarget
  <1>11. \A v \in Workers : WorkerMoves(v)
    BY <1>1, <1>2, <1>4, <1>8 DEF WorkerMoves
  <1>12. MonitorTypeOK'
    BY <1>1, <1>4, <1>6, <1>8 DEF MonitorTypeOK
  <1>13. \A u \in sent' : op'[u].fenced
    BY <1>1, <1>10 DEF FencedFirst, TargetMoves, MonitorTypeOK
  <1> QED
    BY <1>1, <1>2, <1>10, <1>11, <1>12, <1>13, TargetsMove

LEMMA PostKeeps ==
  ASSUME MonitorInv, NEW w \in Workers, NEW t \in Targets, Post(w, t)
  PROVE  MonitorInv'
PROOF
  <1>1. /\ MonitorTypeOK /\ TargetsKept /\ FencedFirst
        /\ UNCHANGED <<job, rec, op, owner, late>> /\ sent' = sent \cup {t}
    BY DEF MonitorInv, Post
  <1>2. job.run
    BY AtWork DEF Post, At, Sending
  <1>3. op[t].fenced
    BY <1>1 DEF Post, At, Sending, FencedFirst
  <1>4. /\ worker' \in [Workers -> Work] /\ \A v \in Workers \ {w} : worker'[v] = worker[v]
        /\ worker'[w].at = "answered" /\ worker'[w].now = worker[w].now
    BY <1>1, Going DEF Post, Sending
  <1>5. proof' \in [Targets -> {"none", "accepted", "rejected"}]
    BY <1>1 DEF Post, MonitorTypeOK
  <1>6. \A u \in Targets : TargetMoves(u)
    BY <1>1, <1>2, TargetStays
  <1>7. \A v \in Workers : WorkerMoves(v)
    BY <1>1, <1>2, <1>4 DEF WorkerMoves, FencedFirst, Post, At, Sending
  <1>8. MonitorTypeOK'
    BY <1>1, <1>4, <1>5 DEF MonitorTypeOK
  <1>9. \A u \in sent' : op'[u].fenced
    BY <1>1, <1>3 DEF FencedFirst
  <1> QED
    BY <1>1, <1>2, <1>6, <1>7, <1>8, <1>9, TargetsMove

LEMMA RecordKeeps ==
  ASSUME MonitorInv, NEW w \in Workers, NEW t \in Targets, Record(w, t)
  PROVE  MonitorInv'
PROOF
  <1>1. /\ MonitorTypeOK /\ RunsExist /\ TargetsKept /\ FencedFirst
        /\ UNCHANGED <<job, op, owner, proof, late, sent>>
        /\ rec \in [Targets -> Item] /\ rec[t] \in Item
        /\ rec[t].status = "unknown_acceptance" /\ rec[t].outcome = "none"
    BY DEF MonitorInv, MonitorTypeOK, Record
  <1>2. job.run
    BY AtWork DEF Record, At, Sending
  <1>3. PICK answer \in {"accepted", "rejected", "unknown"} :
          rec' = [rec EXCEPT ![t].outcome = answer,
                             ![t].status = IF answer = "unknown" THEN @ ELSE answer]
    BY <1>1 DEF Record, MonitorTypeOK
  <1>4. PICK status : status = IF answer = "unknown" THEN rec[t].status ELSE answer
    OBVIOUS
  <1>5. PICK x : x = [rec[t] EXCEPT !.outcome = answer, !.status = status]
    OBVIOUS
  <1>6. x \in Item /\ x.outcome = answer /\ rec' = [rec EXCEPT ![t] = x]
    BY <1>1, <1>3, <1>4, <1>5 DEF Item, Statuses, Outcomes
  <1>7. owner[t].held
    BY <1>1, <1>2 DEF TargetsKept, Freed, Proven
  <1>8. TargetMoves(t)
    BY <1>1, <1>6, <1>7 DEF TargetMoves
  <1>9. \A u \in Targets : TargetMoves(u)
    BY <1>1, <1>2, <1>6, <1>8, OneTarget
  <1>10. /\ worker' \in [Workers -> Work] /\ \A v \in Workers \ {w} : worker'[v] = worker[v]
         /\ worker'[w].at = "recorded" /\ worker'[w].now = worker[w].now
    BY <1>1, Going DEF Record, Sending
  <1>11. \A v \in Workers : WorkerMoves(v)
    BY <1>1, <1>2, <1>10 DEF WorkerMoves, FencedFirst, Record, At, Sending
  <1>12. MonitorTypeOK'
    BY <1>1, <1>6, <1>10 DEF MonitorTypeOK
  <1> QED
    BY <1>1, <1>2, <1>9, <1>11, <1>12, TargetsMove DEF FencedFirst

\* The row of a target that is released by one who had it keeps holding it.
LEMMA RowUnleased ==
  ASSUME MonitorTypeOK, NEW t \in Targets
  PROVE  Unleased(owner[t]) \in Row /\ Unleased(owner[t]).held = owner[t].held
PROOF
  <1>1. owner[t] \in Row /\ owner[t].version + 1 \in Nat
    BY DEF MonitorTypeOK, Row
  <1> QED
    BY <1>1 DEF Unleased, Row

LEMMA FreeRow ==
  Free \in Row /\ ~Free.held
PROOF
  <1>1. 0 \in Nat
    OBVIOUS
  <1> QED
    BY <1>1 DEF Free, Row

\* Accounting frees a target only for its evidence.
LEMMA ItemSettled ==
  ASSUME MonitorTypeOK, TargetsKept, job.run, NEW t \in Targets, SettleItem(t)
  PROVE  /\ rec' \in [Targets -> Item] /\ op' \in [Targets -> Operation]
         /\ owner' \in [Targets -> Row] /\ \A u \in Targets : TargetMoves(u)
PROOF
  <1>1. /\ rec \in [Targets -> Item] /\ rec[t] \in Item
        /\ op \in [Targets -> Operation] /\ op[t] \in Operation
        /\ owner \in [Targets -> Row] /\ owner[t] \in Row
        /\ rec[t].outcome # "none" /\ op[t].fenced /\ op[t].state # "zero"
    BY DEF MonitorTypeOK, SettleItem
  <1>2. PICK x : x = [rec[t] EXCEPT !.settled = TRUE]
    OBVIOUS
  <1>3. /\ x \in Item /\ x.settled /\ x.outcome = rec[t].outcome /\ x.status = rec[t].status
        /\ x.collected = rec[t].collected /\ rec' = [rec EXCEPT ![t] = x]
    BY <1>1, <1>2 DEF SettleItem, Item
  <1>4. PICK y \in Operation :
          /\ op' = [op EXCEPT ![t] = y] /\ y.fenced
          /\ rec[t].settled => y.state = op[t].state
    <2>1. CASE op' = op /\ rec[t].settled
      <3>1. op' = [op EXCEPT ![t] = op[t]]
        BY <1>1, <2>1
      <3> QED
        BY <1>1, <3>1
    <2>2. CASE ~rec[t].settled
      <3>1. PICK state \in {"settled", "pending"} :
              op' = [op EXCEPT ![t].state = IF @ = "settled" THEN @ ELSE state]
        BY <2>2 DEF SettleItem
      <3>2. PICK next : next = IF op[t].state = "settled" THEN op[t].state ELSE state
        OBVIOUS
      <3>3. PICK y : y = [op[t] EXCEPT !.state = next]
        OBVIOUS
      <3>4. y \in Operation /\ y.fenced /\ op' = [op EXCEPT ![t] = y]
        BY <1>1, <3>1, <3>2, <3>3 DEF Operation
      <3> QED
        BY <2>2, <3>4
    <2> QED
      BY <2>1, <2>2 DEF SettleItem
  <1>5. rec'[t] = x /\ op'[t] = y
    BY <1>1, <1>3, <1>4
  <1>6. PICK row \in Row :
          /\ owner' = [owner EXCEPT ![t] = row]
          /\ ~owner[t].held => ~row.held
          /\ ~row.held => ~owner[t].held \/ Proven(x, y)
    <2>1. PICK row : row = IF ~owner[t].held THEN owner[t]
                           ELSE IF Proven(rec'[t], op'[t]) THEN Free
                           ELSE IF rec[t].settled THEN owner[t]
                           ELSE Unleased(owner[t])
      OBVIOUS
    <2>2. owner' = [owner EXCEPT ![t] = row]
      BY <2>1 DEF SettleItem
    <2> QED
      BY <1>1, <1>5, <2>1, <2>2, FreeRow, RowUnleased
  <1>7. owner'[t] = row
    BY <1>1, <1>6
  <1>8. ~row.held => Proven(x, y)
    <2>1. CASE ~owner[t].held
      <3>1. Proven(rec[t], op[t])
        BY <1>1, <2>1 DEF TargetsKept, Freed
      <3> QED
        BY <1>3, <1>4, <3>1 DEF Proven
    <2> QED
      BY <1>6, <2>1
  <1>9. TargetMoves(t)
    BY <1>1, <1>3, <1>4, <1>5, <1>6, <1>7, <1>8 DEF TargetMoves, Freed
  <1>10. \A u \in Targets : TargetMoves(u)
    BY <1>1, <1>3, <1>4, <1>6, <1>9, OneTarget
  <1> QED
    BY <1>1, <1>3, <1>4, <1>6, <1>10

LEMMA SettleKeeps ==
  ASSUME MonitorInv, NEW w \in Workers, NEW t \in Targets, Settle(w, t) \/ Account(w, t)
  PROVE  MonitorInv'
PROOF
  <1>1. /\ MonitorTypeOK /\ RunsExist /\ TargetsKept /\ FencedFirst
        /\ UNCHANGED <<job, proof, late, sent>> /\ SettleItem(t)
    BY DEF MonitorInv, Settle, Account
  <1>2. job.run
    BY AtWork DEF Settle, Account, At, Sending, After
  <1>3. /\ rec' \in [Targets -> Item] /\ op' \in [Targets -> Operation]
        /\ owner' \in [Targets -> Row] /\ \A u \in Targets : TargetMoves(u)
    BY <1>1, <1>2, ItemSettled
  <1>4. /\ worker' \in [Workers -> Work] /\ \A v \in Workers \ {w} : worker'[v] = worker[v]
        /\ worker'[w].at \in After \ {"complete"}
    <2>1. CASE Settle(w, t)
      BY <1>1, <2>1, Leaving DEF Settle, After
    <2>2. CASE Account(w, t)
      <3>1. PICK phase \in {"unlease", "unlease_blocked"} : Goes(w, phase)
        BY <2>2 DEF Account
      <3> QED
        BY <1>1, <3>1, Going DEF After
    <2> QED
      BY <2>1, <2>2
  <1>5. \A v \in Workers : WorkerMoves(v)
    BY <1>1, <1>2, <1>4, MovesOn
  <1>6. MonitorTypeOK'
    BY <1>1, <1>3, <1>4 DEF MonitorTypeOK
  <1>7. \A u \in sent' : op'[u].fenced
    BY <1>1, <1>3 DEF FencedFirst, TargetMoves, MonitorTypeOK
  <1> QED
    BY <1>1, <1>2, <1>3, <1>5, <1>6, <1>7, TargetsMove

\* A request that is cancelled as unsent has no fence, so that nobody sends it.
LEMMA ReleaseKeeps ==
  ASSUME MonitorInv, NEW w \in Workers, NEW t \in Targets, ReleaseUnsent(w, t)
  PROVE  MonitorInv'
PROOF
  <1>1. /\ MonitorTypeOK /\ RunsExist /\ TargetsKept /\ FencedFirst
        /\ UNCHANGED <<job, proof, late, sent>>
        /\ rec \in [Targets -> Item] /\ rec[t] \in Item
        /\ op \in [Targets -> Operation] /\ op[t] \in Operation
        /\ owner \in [Targets -> Row]
    BY DEF MonitorInv, MonitorTypeOK, ReleaseUnsent
  <1>2. job.run
    BY AtWork DEF ReleaseUnsent, At, After
  <1>3. /\ worker' \in [Workers -> Work] /\ \A v \in Workers \ {w} : worker'[v] = worker[v]
        /\ worker'[w].at \in After \ {"complete"}
    <2>1. CASE \E stuck \in BOOLEAN : Leaves(w, t, "items", stuck)
      BY <1>1, <2>1, Leaving DEF After
    <2>2. CASE Goes(w, "lease_reconcile")
      BY <1>1, <2>2, Going DEF After
    <2> QED
      BY <2>1, <2>2 DEF ReleaseUnsent
  <1>4. CASE UNCHANGED <<rec, op, owner>>
    <2>1. \A u \in Targets : TargetMoves(u)
      BY <1>1, <1>2, <1>4, TargetStays
    <2>2. \A v \in Workers : WorkerMoves(v)
      BY <1>1, <1>2, <1>3, MovesOn
    <2>3. MonitorTypeOK'
      BY <1>1, <1>3, <1>4 DEF MonitorTypeOK
    <2> QED
      BY <1>1, <1>2, <1>4, <2>1, <2>2, <2>3, TargetsMove DEF FencedFirst
  <1>5. CASE /\ op' = [op EXCEPT ![t].state = "zero"]
             /\ rec' = [rec EXCEPT ![t].status = "cancelled", ![t].cancelled = TRUE]
             /\ owner' = [owner EXCEPT ![t] = Free]
             /\ LooksUnsent(t) /\ ~op[t].fenced
    <2>1. PICK x : x = [rec[t] EXCEPT !.status = "cancelled", !.cancelled = TRUE]
      OBVIOUS
    <2>2. /\ x \in Item /\ x.status = "cancelled" /\ x.settled = rec[t].settled
          /\ rec' = [rec EXCEPT ![t] = x]
      BY <1>1, <1>5, <2>1 DEF Item, Statuses
    <2>3. PICK y : y = [op[t] EXCEPT !.state = "zero"]
      OBVIOUS
    <2>4. y \in Operation /\ y.state = "zero" /\ ~y.fenced /\ op' = [op EXCEPT ![t] = y]
      BY <1>1, <1>5, <2>3 DEF Operation
    <2>5. TargetMoves(t)
      BY <1>1, <1>5, <2>2, <2>4, FreeRow DEF TargetMoves, Freed, LooksUnsent
    <2>6. \A u \in Targets : TargetMoves(u)
      BY <1>1, <1>2, <1>5, <2>2, <2>4, <2>5, OneTarget
    <2>7. \A v \in Workers : WorkerMoves(v)
      BY <1>1, <1>2, <1>3, MovesOn
    <2>8. MonitorTypeOK'
      BY <1>1, <1>3, <1>5, <2>2, <2>4, FreeRow DEF MonitorTypeOK
    <2>9. \A u \in sent' : op'[u].fenced
      BY <1>1, <2>6 DEF FencedFirst, TargetMoves, MonitorTypeOK
    <2> QED
      BY <1>1, <1>2, <2>6, <2>7, <2>8, <2>9, TargetsMove
  <1> QED
    BY <1>4, <1>5 DEF ReleaseUnsent, MayBeSent

\* Leases come and go; nobody's lease makes a held target free.
LEMMA LeaseKeeps ==
  ASSUME MonitorInv, NEW w \in Workers, NEW t \in Targets, Lease(w, t) \/ Unlease(w, t)
  PROVE  MonitorInv'
PROOF
  <1>1. /\ MonitorTypeOK /\ RunsExist /\ TargetsKept /\ FencedFirst
        /\ UNCHANGED <<job, rec, op, proof, late, sent>>
        /\ owner \in [Targets -> Row] /\ owner[t] \in Row
        /\ worker \in [Workers -> Work] /\ worker[w] \in Work
    BY DEF MonitorInv, MonitorTypeOK, Lease, Unlease
  <1>2. job.run
    BY AtWork DEF Lease, Unlease, After
  <1>3. /\ worker' \in [Workers -> Work] /\ \A v \in Workers \ {w} : worker'[v] = worker[v]
        /\ worker'[w].at \in After \ {"complete"}
    <2>1. CASE \E stuck \in BOOLEAN : Leaves(w, t, "items", stuck)
      BY <1>1, <2>1, Leaving DEF After
    <2>2. CASE worker' = [worker EXCEPT ![w].saw = @ + 1,
                            ![w].at = IF @ = "lease_collect" THEN "collect" ELSE "reconcile"]
      <3>1. PICK phase \in {"collect", "reconcile"} :
              phase = IF worker[w].at = "lease_collect" THEN "collect" ELSE "reconcile"
        OBVIOUS
      <3>a. PICK seen \in Nat : seen = worker[w].saw + 1
        BY <1>1 DEF Work
      <3>2. PICK x : x = [worker[w] EXCEPT !.saw = seen, !.at = phase]
        OBVIOUS
      <3>3. x \in Work /\ x.at = phase
        BY <1>1, <3>2 DEF Work, After
      <3>4. worker' = [worker EXCEPT ![w] = x]
        BY <1>1, <2>2, <3>1, <3>a, <3>2
      <3> QED
        BY <1>1, <3>3, <3>4 DEF After
    <2> QED
      BY <2>1, <2>2 DEF Lease, Unlease, At
  <1>4. PICK row \in Row : owner' = [owner EXCEPT ![t] = row] /\ row.held = owner[t].held
    <2>1. CASE owner' = owner \/ owner' = [owner EXCEPT ![t] = owner[t]]
      BY <1>1, <2>1
    <2>2. CASE owner' = [owner EXCEPT ![t] = Unleased(owner[t])]
      BY <1>1, <2>2, RowUnleased
    <2>3. CASE /\ owner[t].held
               /\ owner' = [owner EXCEPT ![t] = [held |-> TRUE, version |-> @.version + 1,
                                                token |-> w, live |-> TRUE]]
      <3>1. PICK row : row = [held |-> TRUE, version |-> owner[t].version + 1,
                              token |-> w, live |-> TRUE]
        OBVIOUS
      <3>2. row \in Row /\ row.held
        BY <1>1, <3>1 DEF Row
      <3> QED
        BY <2>3, <3>1, <3>2
    <2> QED
      BY <2>1, <2>2, <2>3 DEF Lease, Unlease
  <1>5. \A u \in Targets : TargetMoves(u)
    BY <1>1, <1>2, <1>4, TargetStays
  <1>6. \A v \in Workers : WorkerMoves(v)
    BY <1>1, <1>2, <1>3, MovesOn
  <1>7. MonitorTypeOK'
    BY <1>1, <1>3, <1>4 DEF MonitorTypeOK
  <1> QED
    BY <1>1, <1>2, <1>5, <1>6, <1>7, TargetsMove DEF FencedFirst

\* Evidence is replaced, and a result recorded, while the target is held, or
\* what freed it stays.
LEMMA EvidenceKeeps ==
  ASSUME MonitorInv, NEW w \in Workers, NEW t \in Targets, Reconcile(w, t) \/ Persist(w, t)
  PROVE  MonitorInv'
PROOF
  <1>1. /\ MonitorTypeOK /\ RunsExist /\ TargetsKept /\ FencedFirst
        /\ UNCHANGED <<job, op, proof, late, sent>>
        /\ rec \in [Targets -> Item] /\ rec[t] \in Item
        /\ owner \in [Targets -> Row] /\ owner[t] \in Row
    BY DEF MonitorInv, MonitorTypeOK, Reconcile, Persist
  <1>2. job.run
    BY AtWork DEF Reconcile, Persist, At, After
  <1>3. PICK phase \in {"account", "unlease"} : Goes(w, phase)
    BY DEF Reconcile, Persist
  <1>4. /\ worker' \in [Workers -> Work] /\ \A v \in Workers \ {w} : worker'[v] = worker[v]
        /\ worker'[w].at = phase
    BY <1>1, <1>3, Going DEF After
  <1>5. \A v \in Workers : WorkerMoves(v)
    BY <1>1, <1>2, <1>4, MovesOn DEF After
  <1>6. PICK x \in Item, row \in Row :
          /\ rec' = [rec EXCEPT ![t] = x] /\ owner' = [owner EXCEPT ![t] = row]
          /\ x.settled => x.outcome # "none"
          /\ \/ row.held /\ owner[t].held
             \/ Proven(x, op[t])
             \/ ~owner[t].held /\ ~row.held /\ x.status = rec[t].status
          /\ ~owner[t].held => ~row.held
    <2>1. CASE Reconcile(w, t)
      <3>1. owner' = [owner EXCEPT ![t] = owner[t]] /\ owner[t].held
        BY <1>1, <2>1 DEF Reconcile, HoldsRow, OwnsRow
      <3>2. CASE rec' = rec
        <4>1. rec' = [rec EXCEPT ![t] = rec[t]]
          BY <1>1, <3>2
        <4> QED
          BY <1>1, <3>1, <4>1 DEF TargetsKept
      <3>3. CASE rec' = [rec EXCEPT ![t].outcome = proof[t], ![t].status = proof[t],
                                    ![t].settled = FALSE]
        <4>1. PICK x : x = [rec[t] EXCEPT !.outcome = proof[t], !.status = proof[t],
                                          !.settled = FALSE]
          OBVIOUS
        <4>2. proof[t] \in {"none", "accepted", "rejected"}
          BY <1>1 DEF MonitorTypeOK
        <4>3. x \in Item /\ ~x.settled /\ rec' = [rec EXCEPT ![t] = x]
          BY <1>1, <3>3, <4>1, <4>2 DEF Item, Statuses, Outcomes
        <4> QED
          BY <1>1, <3>1, <4>3
      <3> QED
        BY <2>1, <3>2, <3>3 DEF Reconcile
    <2>2. CASE Persist(w, t)
      <3>1. PICK x : x = [rec[t] EXCEPT !.collected = TRUE]
        OBVIOUS
      <3>2. /\ x \in Item /\ x.settled = rec[t].settled /\ x.outcome = rec[t].outcome
            /\ x.status = rec[t].status /\ rec' = [rec EXCEPT ![t] = x]
        BY <1>1, <2>2, <3>1 DEF Persist, Item
      <3>3. PICK row : row = IF Proven(rec'[t], op[t]) THEN Free ELSE owner[t]
        OBVIOUS
      <3>4. row \in Row /\ owner' = [owner EXCEPT ![t] = row]
        BY <1>1, <2>2, <3>3, FreeRow DEF Persist
      <3>5. rec'[t] = x
        BY <1>1, <3>2
      <3> QED
        BY <1>1, <3>2, <3>3, <3>4, <3>5, FreeRow DEF TargetsKept
    <2> QED
      BY <2>1, <2>2
  <1>7. rec'[t] = x /\ owner'[t] = row /\ op'[t] = op[t]
    BY <1>1, <1>6
  <1>8. ~row.held => (x.status = "cancelled" /\ op[t].state = "zero" /\ ~op[t].fenced)
                     \/ Proven(x, op[t])
    <2>1. CASE ~owner[t].held /\ ~row.held /\ Reconcile(w, t)
      BY <2>1 DEF Reconcile, HoldsRow, OwnsRow
    <2>2. CASE ~owner[t].held /\ ~row.held /\ Persist(w, t)
      <3>1. PICK z : z = [rec[t] EXCEPT !.collected = TRUE]
        OBVIOUS
      <3>2. z.settled = rec[t].settled /\ z.status = rec[t].status /\ z.collected
        BY <1>1, <3>1 DEF Item
      <3>3. x = z
        BY <1>1, <1>7, <2>2, <3>1 DEF Persist
      <3>4. Freed(t)
        BY <1>1, <1>2, <2>2 DEF TargetsKept
      <3> QED
        BY <3>2, <3>3, <3>4 DEF Freed, Proven
    <2> QED
      BY <1>6, <2>1, <2>2
  <1>9. TargetMoves(t)
    BY <1>6, <1>7, <1>8 DEF TargetMoves, Freed
  <1>10. \A u \in Targets : TargetMoves(u)
    BY <1>1, <1>2, <1>6, <1>9, OneTarget
  <1>11. MonitorTypeOK'
    BY <1>1, <1>4, <1>6 DEF MonitorTypeOK
  <1> QED
    BY <1>1, <1>2, <1>5, <1>10, <1>11, TargetsMove DEF FencedFirst

-----------------------------------------------------------------------------
(* Time, the user, and the admission.                                       *)

LEMMA ExpiryKeeps ==
  ASSUME MonitorInv, NEW t \in Targets, DispatchLeaseExpires(t) \/ RowLeaseExpires(t)
  PROVE  MonitorInv'
PROOF
  <1>1. /\ MonitorTypeOK /\ TargetsKept /\ FencedFirst
        /\ UNCHANGED <<job, rec, worker, proof, late, sent>>
        /\ op \in [Targets -> Operation] /\ op[t] \in Operation
        /\ owner \in [Targets -> Row] /\ owner[t] \in Row
    BY DEF MonitorInv, MonitorTypeOK, DispatchLeaseExpires, RowLeaseExpires
  <1>2. PICK live \in BOOLEAN : owner' = [owner EXCEPT ![t].live = live]
    <2>1. PICK live \in BOOLEAN : live = (owner[t].live /\ owner[t].version # 0)
      OBVIOUS
    <2> QED
      BY <2>1 DEF DispatchLeaseExpires, RowLeaseExpires
  <1>3. PICK row : row = [owner[t] EXCEPT !.live = live]
    OBVIOUS
  <1>4. row \in Row /\ row.held = owner[t].held /\ owner' = [owner EXCEPT ![t] = row]
    BY <1>1, <1>2, <1>3 DEF Row
  <1>5. PICK y \in Operation :
          /\ op' = [op EXCEPT ![t] = y]
          /\ y.fenced = op[t].fenced /\ y.state = op[t].state
    <2>1. CASE op' = op
      BY <1>1, <2>1
    <2>2. CASE op' = [op EXCEPT ![t].live = FALSE]
      <3>1. PICK y : y = [op[t] EXCEPT !.live = FALSE]
        OBVIOUS
      <3>2. /\ y \in Operation /\ y.fenced = op[t].fenced /\ y.state = op[t].state
            /\ op' = [op EXCEPT ![t] = y]
        BY <1>1, <2>2, <3>1 DEF Operation
      <3> QED
        BY <3>2
    <2> QED
      BY <2>1, <2>2 DEF DispatchLeaseExpires, RowLeaseExpires
  <1>6. MonitorTypeOK'
    BY <1>1, <1>4, <1>5 DEF MonitorTypeOK
  <1>7. \A v \in Workers : WorkerMoves(v)
    BY <1>1 DEF WorkerMoves
  <1>8. \A u \in Targets : /\ op'[u].fenced = op[u].fenced /\ op'[u].state = op[u].state
                          /\ owner'[u].held = owner[u].held /\ rec'[u] = rec[u]
    BY <1>1, <1>4, <1>5
  <1>9. CASE job.run
    <2>1. \A u \in Targets : TargetMoves(u)
      BY <1>1, <1>8, <1>9 DEF TargetMoves, TargetsKept, Freed, Proven
    <2>2. \A u \in sent' : op'[u].fenced
      BY <1>1, <1>8 DEF FencedFirst, MonitorTypeOK
    <2> QED
      BY <1>1, <1>6, <1>7, <1>9, <2>1, <2>2, TargetsMove
  <1>10. CASE ~job.run
    <2>1. /\ RunsExist' /\ TargetsKept' /\ SawComplete' /\ CompleteIsFreed'
      <3>1. RunsExist /\ SawComplete /\ CompleteIsFreed
        BY DEF MonitorInv
      <3> QED
        BY <1>1, <1>8, <1>10, <3>1
           DEF RunsExist, TargetsKept, SawComplete, CompleteIsFreed, At
    <2>2. FencedFirst'
      <3>1. \A v \in Workers : worker[v].now \subseteq Targets
        BY <1>1 DEF MonitorTypeOK, Work
      <3> QED
        BY <1>1, <1>8, <3>1 DEF FencedFirst, MonitorTypeOK
    <2> QED
      BY <1>6, <2>1, <2>2 DEF MonitorInv
  <1> QED
    BY <1>9, <1>10

LEMMA CancelKeeps ==
  ASSUME MonitorInv, CancelRun
  PROVE  MonitorInv'
PROOF
  <1>1. /\ MonitorTypeOK /\ TargetsKept /\ FencedFirst /\ job.run
        /\ UNCHANGED <<job, op, owner, worker, proof, late, sent>>
        /\ rec \in [Targets -> Item]
    BY DEF MonitorInv, MonitorTypeOK, CancelRun
  <1>2. ASSUME NEW t \in Targets
        PROVE  /\ rec'[t] \in Item
               /\ rec'[t].settled = rec[t].settled /\ rec'[t].outcome = rec[t].outcome
               /\ rec'[t].collected = rec[t].collected
               /\ rec[t].status # "claimed" => rec'[t].status = rec[t].status
    <2>1. PICK status \in Statuses :
            status = IF rec[t].status = "claimed" THEN "cancelled" ELSE rec[t].status
      BY <1>1 DEF Item, Statuses
    <2>2. PICK x : x = [rec[t] EXCEPT !.cancelled = TRUE, !.status = status]
      OBVIOUS
    <2>3. /\ x \in Item /\ x.status = status
          /\ x.settled = rec[t].settled /\ x.outcome = rec[t].outcome
          /\ x.collected = rec[t].collected
      BY <1>1, <2>2 DEF Item
    <2>4. rec'[t] = x
      BY <2>1, <2>2 DEF CancelRun
    <2> QED
      BY <2>1, <2>3, <2>4
  <1>3. rec' \in [Targets -> Item]
    <2>1. PICK f : f = rec'
      OBVIOUS
    <2>2. f = [t \in Targets |-> f[t]]
      BY <2>1 DEF CancelRun
    <2> QED
      BY <1>2, <2>1, <2>2
  <1>4. \A t \in Targets : TargetMoves(t)
    BY <1>1, <1>2 DEF TargetMoves, TargetsKept, Freed, Proven
  <1>5. \A v \in Workers : WorkerMoves(v)
    BY <1>1 DEF WorkerMoves
  <1>6. MonitorTypeOK'
    BY <1>1, <1>3 DEF MonitorTypeOK
  <1> QED
    BY <1>1, <1>4, <1>5, <1>6, TargetsMove DEF FencedFirst

\* The admission starts from a clean sheet: no fence was written before.
LEMMA AdmitKeeps ==
  ASSUME MonitorInv, NEW w \in Workers, Admit(w)
  PROVE  MonitorInv'
PROOF
  <1>1. /\ MonitorTypeOK /\ RunsExist /\ FencedFirst /\ ~job.run
        /\ job.state = "running" /\ UNCHANGED <<proof, late, sent>>
        /\ worker \in [Workers -> Work] /\ worker[w] \in Work
    BY DEF MonitorInv, MonitorTypeOK, Admit, Holds
  <1>2. job' \in Intent /\ job'.run /\ job'.state = "running"
    BY <1>1 DEF Admit, MonitorTypeOK, Intent
  <1>3. /\ rec' \in [Targets -> Item] /\ \A t \in Targets : ~rec'[t].settled
    <2>1. PICK x : x = [NoItem EXCEPT !.status = "claimed"]
      OBVIOUS
    <2>2. x \in Item /\ ~x.settled
      BY <2>1 DEF NoItem, Item, Statuses, Outcomes
    <2>3. rec' = [t \in Targets |-> x]
      BY <2>1 DEF Admit
    <2> QED
      BY <2>2, <2>3
  <1>4. op' \in [Targets -> Operation] /\ \A t \in Targets : ~op'[t].fenced
    BY DEF Admit, Operation
  <1>5. owner' \in [Targets -> Row] /\ \A t \in Targets : owner'[t].held
    <2>1. PICK row : row = [held |-> TRUE, version |-> 0, token |-> w, live |-> TRUE]
      OBVIOUS
    <2>2. 0 \in Nat
      OBVIOUS
    <2>3. row \in Row /\ row.held
      BY <2>1, <2>2 DEF Row
    <2>4. owner' = [t \in Targets |-> row]
      BY <2>1 DEF Admit
    <2> QED
      BY <2>3, <2>4
  <1>6. /\ worker' \in [Workers -> Work] /\ \A v \in Workers \ {w} : worker'[v] = worker[v]
        /\ worker'[w].at \in {"submit", "failed"}
    <2>1. CASE worker' = [worker EXCEPT ![w].at = "submit", ![w].todo = Targets]
      <3>1. PICK x : x = [worker[w] EXCEPT !.at = "submit", !.todo = Targets]
        OBVIOUS
      <3>2. x \in Work /\ x.at = "submit"
        BY <1>1, <3>1 DEF Work, After
      <3>3. worker' = [worker EXCEPT ![w] = x]
        BY <1>1, <2>1, <3>1
      <3> QED
        BY <1>1, <3>2, <3>3
    <2>2. CASE Goes(w, "failed")
      BY <1>1, <2>2, Going DEF Before
    <2> QED
      BY <2>1, <2>2 DEF Admit
  <1>7. MonitorTypeOK'
    BY <1>1, <1>2, <1>3, <1>4, <1>5, <1>6 DEF MonitorTypeOK
  <1>8. \A v \in Workers : worker'[v].at \in Before \cup {"submit"}
    BY <1>1, <1>6 DEF RunsExist, Before
  <1>9. RunsExist' /\ SawComplete' /\ CompleteIsFreed'
    BY <1>2, <1>8 DEF RunsExist, SawComplete, CompleteIsFreed, At, Before
  <1>10. FencedFirst'
    <2>1. \A t \in sent : FALSE
      BY <1>1 DEF FencedFirst, MonitorTypeOK
    <2> QED
      BY <1>1, <1>2, <1>8, <2>1 DEF FencedFirst, Before, Sending
  <1>11. TargetsKept'
    BY <1>3, <1>5 DEF TargetsKept
  <1> QED
    BY <1>7, <1>9, <1>10, <1>11 DEF MonitorInv

-----------------------------------------------------------------------------
(* The invariant and the theorems.                                          *)

LEMMA MonitorInit ==
  ASSUME Init
  PROVE  MonitorInv
PROOF
  <1>1. /\ job.state = "queued" /\ ~job.run /\ sent = {}
        /\ \A t \in Targets : rec[t] = NoItem /\ op[t] = NoOp
        /\ \A w \in Workers : worker[w].at = "idle"
    BY DEF Init, NoWork
  <1>2. MonitorTypeOK
    <2>1. 0 \in Nat
      OBVIOUS
    <2>2. NoItem \in Item /\ NoOp \in Operation /\ Free \in Row /\ NoWork \in Work
      BY <2>1 DEF NoItem, Item, Statuses, Outcomes, NoOp, Operation, Free, Row, NoWork, Work,
         Before
    <2>3. job \in Intent
      BY DEF Init, Intent, JobStates, Blockers
    <2> QED
      BY <2>2, <2>3 DEF Init, MonitorTypeOK
  <1>3. RunsExist /\ FencedFirst
    BY <1>1 DEF RunsExist, FencedFirst, Before, Sending, NoOp
  <1>4. TargetsKept /\ SawComplete /\ CompleteIsFreed
    BY <1>1 DEF TargetsKept, SawComplete, CompleteIsFreed, At, NoItem
  <1> QED
    BY <1>2, <1>3, <1>4 DEF MonitorInv

LEMMA MonitorStep ==
  ASSUME MonitorInv, [Next]_monitorVars
  PROVE  MonitorInv'
PROOF
  <1>1. ASSUME NEW w \in Workers, WorkerStep(w)  PROVE MonitorInv'
    BY <1>1, ClaimKeeps, GoKeeps, EndKeeps, AdmitKeeps, ReadRunKeeps DEF WorkerStep
  <1>2. ASSUME NEW w \in Workers, NEW t \in Targets, TargetStep(w, t)  PROVE MonitorInv'
    BY <1>2, GoKeeps, FenceKeeps, PostKeeps, RecordKeeps, SettleKeeps, ReleaseKeeps, LeaseKeeps,
       EvidenceKeeps DEF TargetStep
  <1>3. ASSUME NEW t \in Targets, DispatchLeaseExpires(t) \/ RowLeaseExpires(t)
        PROVE  MonitorInv'
    BY <1>3, ExpiryKeeps
  <1>4. CASE JobLeaseExpires \/ CollectionEnds \/ UNCHANGED monitorVars
    BY <1>4, ClockKeeps
  <1>5. CASE CancelRun
    BY <1>5, CancelKeeps
  <1> QED
    BY <1>1, <1>2, <1>3, <1>4, <1>5 DEF Next

LEMMA MonitorInvariant == Spec => []MonitorInv
PROOF
  <1>1. Init => MonitorInv
    BY MonitorInit
  <1>2. MonitorInv /\ [Next]_monitorVars => MonitorInv'
    BY MonitorStep
  <1> QED
    BY <1>1, <1>2, PTL DEF Spec

\* A target may be measured and paid for again only when nothing is open from
\* this run, however many executions of the activity overlap: its request was
\* cancelled and nobody will send it, or answer, cost and result are known
\* (releaseExpiredUnsentMonitorItem, releaseProvenLocalOwner).
THEOREM FreedTargetsAreProven == Spec => []FreedWhenProven
PROOF
  <1>1. MonitorInv => FreedWhenProven
    <2> SUFFICES ASSUME MonitorInv, NEW t \in Targets, job.run, ~owner[t].held
                 PROVE  \/ /\ rec[t].status = "cancelled" /\ op[t].state = "zero"
                           /\ t \notin sent
                           /\ \A w \in Workers : At(w, "fenced") => t \notin worker[w].now
                        \/ /\ rec[t].settled /\ op[t].state = "settled"
                           /\ \/ rec[t].status = "rejected"
                              \/ rec[t].status = "accepted" /\ rec[t].collected
      BY DEF FreedWhenProven
    <2>1. Freed(t)
      BY DEF MonitorInv, TargetsKept
    <2>2. CASE rec[t].status = "cancelled" /\ op[t].state = "zero" /\ ~op[t].fenced
      BY <2>2 DEF MonitorInv, FencedFirst, At, Sending
    <2>3. CASE Proven(rec[t], op[t])
      BY <2>3 DEF Proven
    <2> QED
      BY <2>1, <2>2, <2>3 DEF Freed
  <1> QED
    BY <1>1, MonitorInvariant, PTL

\* A job is reported complete only when no target of its run is held any more,
\* although the run is read in one transaction and the job is written in
\* another (monitorProgress): a target that is free is never held again.
THEOREM CompleteJobsAreFreed == Spec => []CompleteIsFreed
PROOF
  <1>1. MonitorInv => CompleteIsFreed
    BY DEF MonitorInv
  <1> QED
    BY <1>1, MonitorInvariant, PTL

=============================================================================

---------------------------- MODULE BatchPromise ----------------------------
(***************************************************************************)
(* What a queued batch promises, without attempts, leases or polling: its  *)
(* tasks are posted to the provider at most once, every task gets one      *)
(* verdict and keeps it, only a posted task can be completed, and the      *)
(* batch is closed once, when every task has its verdict, with the state   *)
(* these verdicts call for.  QueuedBatch implements this.                  *)
(***************************************************************************)
EXTENDS Naturals

CONSTANT Tasks

VARIABLES verdict,   \* verdict[t]: "open" or a member of Verdicts
          report,    \* the batch: "open" or a member of Verdicts
          posted     \* the provider was sent the batch

promise == <<verdict, report, posted>>

Verdicts == {"completed", "failed", "deferred"}

Init ==
  /\ verdict = [t \in Tasks |-> "open"]
  /\ report = "open"
  /\ posted = 0

Post ==
  /\ posted = 0
  /\ posted' = 1
  /\ UNCHANGED <<verdict, report>>

\* Tasks that had no verdict get one.
Decide ==
  /\ verdict' \in [Tasks -> Verdicts \cup {"open"}]
  /\ \A t \in Tasks :
       /\ verdict[t] # "open" => verdict'[t] = verdict[t]
       /\ verdict'[t] = "completed" => posted = 1
  /\ UNCHANGED posted

StayOpen == report' = report

\* The worst verdict names the batch: failed, then deferred, then completed.
Close ==
  /\ report = "open"
  /\ \A t \in Tasks : verdict'[t] # "open"
  /\ report' \in Verdicts
  /\ report' = "failed" <=> \E t \in Tasks : verdict'[t] = "failed"
  /\ report' = "completed" <=> \A t \in Tasks : verdict'[t] = "completed"

Next == Post \/ (Decide /\ (StayOpen \/ Close))

Spec == Init /\ [][Next]_promise

=============================================================================

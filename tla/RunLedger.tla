----------------------------- MODULE RunLedger -----------------------------
(***************************************************************************)
(* What rank-check runs promise to whoever pays for them and reads their   *)
(* reports, without workers, leases, batches or commands:                  *)
(*   - a run is opened over a set of targets, and is closed once;          *)
(*   - every target gets one verdict and is paid for at most once; the     *)
(*     verdict is corrected only to "completed", when it was paid for;     *)
(*   - a run is closed only when every target has its verdict, with the    *)
(*     report that these verdicts call for.  Where the guide and the code  *)
(*     disagree about it, either will do.                                  *)
(* RankCheckRuns implements this (RankCheckRunsLedger).                    *)
(***************************************************************************)
EXTENDS RunContract

VARIABLES phase,     \* phase[r]: "planned", "open" or "closed"
          report,    \* report[r]: NoOutcome until the run is closed
          verdict,   \* verdict[i]: Absent, "open" or a terminal item status
          paid       \* paid[i]: the provider was called for the target

ledger == <<phase, report, verdict, paid>>

OpenTargets(r) == {i \in ItemsOf(r) : verdict[i] = "open"}

Init ==
  /\ phase \in [Runs -> {"planned", "open"}]
  /\ report = [r \in Runs |-> NoOutcome]
  /\ verdict = [i \in Items |->
                  IF phase[RunOf[i]] = "planned" THEN Absent ELSE "open"]
  /\ paid = [i \in Items |-> FALSE]

Open(r) ==
  /\ phase[r] = "planned"
  /\ phase' = [phase EXCEPT ![r] = "open"]
  /\ \E S \in (SUBSET ItemsOf(r)) \ {{}} :
       verdict' = [i \in Items |-> IF i \in S THEN "open" ELSE verdict[i]]
  /\ UNCHANGED <<report, paid>>

\* A planned run that never starts.
Drop(r) ==
  /\ phase[r] = "planned"
  /\ phase' = [phase EXCEPT ![r] = "closed"]
  /\ \E why \in {"deferred", "cancelled"} : report' = [report EXCEPT ![r] = why]
  /\ UNCHANGED <<verdict, paid>>

\* Targets S get their verdicts together.
Decide(r, S) ==
  /\ phase[r] = "open"
  /\ S \subseteq OpenTargets(r)
  /\ \E given \in [S -> TerminalItemStatuses] :
       verdict' = [i \in Items |-> IF i \in S THEN given[i] ELSE verdict[i]]
  /\ UNCHANGED paid

StayOpen(r) == UNCHANGED <<phase, report>>

Close(r) ==
  /\ \A i \in ItemsOf(r) : verdict'[i] # "open"
  /\ phase' = [phase EXCEPT ![r] = "closed"]
  /\ \E told \in AcceptedReports(Verdicts(r, verdict')) :
       report' = [report EXCEPT ![r] = told]

\* A paid target turns out to have a result after all.
Correct(r, i) ==
  /\ phase[r] # "planned"
  /\ RunOf[i] = r
  /\ paid[i]
  /\ verdict[i] \in {"failed", "deferred", "blocked"}
  /\ verdict' = [verdict EXCEPT ![i] = "completed"]
  /\ UNCHANGED paid

Pay(i) ==
  /\ verdict[i] # Absent
  /\ ~paid[i]
  /\ paid' = [paid EXCEPT ![i] = TRUE]
  /\ UNCHANGED <<phase, report, verdict>>

Next ==
  \/ \E r \in Runs :
       \/ Open(r)
       \/ Drop(r)
       \/ \E S \in SUBSET ItemsOf(r) : Decide(r, S) /\ (StayOpen(r) \/ Close(r))
       \/ \E i \in Items :
            Correct(r, i) /\ (Close(r) \/ (phase[r] = "open" /\ StayOpen(r)))
  \/ \E i \in Items : Pay(i)

Spec == Init /\ [][Next]_ledger

=============================================================================

------------------------ MODULE RankCheckRunsLedger ------------------------
(***************************************************************************)
(* The refinement mapping from the rows of the database to the ledger.     *)
(***************************************************************************)
EXTENDS RankCheckRuns

Phase(status) ==
  CASE status \in {"planned", "blocked"} -> "planned"
    [] status \in ActiveRunStatuses -> "open"
    [] status \in TerminalRunStatuses -> "closed"

Ledger == INSTANCE RunLedger WITH
  phase   <- [r \in Runs |-> Phase(run[r].status)],
  report  <- [r \in Runs |-> ReportedBy(run[r])],
  verdict <- [i \in Items |-> IF item[i].status \in PendingItemStatuses
                              THEN "open" ELSE item[i].status],
  paid    <- [i \in Items |-> sends[i] > 0]

\* Every behaviour of the runs, with retries, lost leases, sweeps and cancel
\* commands in any order, keeps the ledger's promises.
LedgerSpec == Ledger!Spec

=============================================================================

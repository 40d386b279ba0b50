---------------------------- MODULE RunContract ----------------------------
(***************************************************************************)
(* The vocabulary of rank-check runs (lib/rank-check/runs/contract.ts) and *)
(* the pure arithmetic that turns the statuses of a run's items into the   *)
(* counters, the status and the outcome stored on the run row              *)
(* (counts.ts, status.ts, terminal-state.ts, finalize.ts).                 *)
(*                                                                         *)
(* An item that its run did not materialise has the status Absent: there   *)
(* is no row for it, so no counter counts it.                              *)
(***************************************************************************)
EXTENDS Naturals, FiniteSets

CONSTANTS Runs,       \* rank_check_runs rows
          Items,      \* rank_check_run_items rows (one per run and keyword)
          RunOf       \* RunOf[i]: the run that item i belongs to

ASSUME ContractAssumption ==
  /\ IsFiniteSet(Items)
  /\ RunOf \in [Items -> Runs]

Absent == "absent"

RunStatuses == {"planned", "blocked", "queued", "running", "cancelling",
                "completed", "cancelled"}
ActiveRunStatuses == {"queued", "running", "cancelling"}
TerminalRunStatuses == {"completed", "cancelled"}

NoOutcome == "none"
RunOutcomes == {"succeeded", "partial", "failed", "deferred"}

PendingItemStatuses == {"queued", "running"}
TerminalItemStatuses == {"completed", "failed", "deferred", "cancelled",
                         "skipped", "blocked"}
ItemStatuses == PendingItemStatuses \cup TerminalItemStatuses \cup {Absent}

Counters == {"completed", "failed", "deferred", "cancelled", "skipped"}

ItemsOf(r) == {i \in Items : RunOf[i] = r}

-----------------------------------------------------------------------------
(* statuses is a function from items to item statuses.                     *)

\* The item statuses a counter counts: a blocked item counts as skipped.
CountedBy(c) == IF c = "skipped" THEN {"skipped", "blocked"} ELSE {c}

RunCountsFromItemGroups(r, statuses) ==
  [c \in Counters |->
     Cardinality({i \in ItemsOf(r) : statuses[i] \in CountedBy(c)})]

TotalCount(r, statuses) ==
  Cardinality({i \in ItemsOf(r) : statuses[i] # Absent})

PendingRunItems(r, statuses) ==
  {i \in ItemsOf(r) : statuses[i] \in PendingItemStatuses}

\* Here and below: variants with a fault a change could introduce, which the
\* runs tell from the code.  They are not part of the specification.
OutcomeFailedFirst(counts, total) ==
  CASE counts.completed = total /\ total # 0 -> "succeeded"
    [] counts.failed > 0 \/ counts.skipped > 0 -> "failed"
    [] counts.completed > 0 -> "partial"
    [] OTHER -> IF counts.cancelled > 0 THEN "cancelled" ELSE "deferred"

\* The outcome of a run from its counts; "cancelled" is not a RunOutcome and
\* is normalised away by NormalizeTerminalRunState.
OutcomeFromCounts(counts, total) ==
  CASE total = 0 -> "deferred"
    [] total # 0 /\ counts.cancelled > 0 ->
         IF counts.completed > 0 THEN "partial" ELSE "cancelled"
    [] total # 0 /\ counts.cancelled = 0 /\ counts.completed > 0 ->
         IF counts.completed < total THEN "partial" ELSE "succeeded"
    [] OTHER ->
         IF counts.failed > 0 \/ counts.skipped > 0 THEN "failed"
                                                    ELSE "deferred"

\* A terminal row whose outcome is "cancelled" becomes a cancelled run
\* without an outcome.
NormalizeTerminalRunState(status, outcome) ==
  IF outcome = "cancelled" THEN [status |-> "cancelled", outcome |-> NoOutcome]
                           ELSE [status |-> status, outcome |-> outcome]

\* The row a finalised run gets, from the item statuses the finaliser read.
FinalRunData(r, statuses, seenStatus) ==
  LET counts == RunCountsFromItemGroups(r, statuses)
      ending == IF seenStatus = "cancelling" THEN "cancelled" ELSE "completed"
      final  == NormalizeTerminalRunState(
                  ending, OutcomeFromCounts(counts, TotalCount(r, statuses)))
  IN  [status |-> final.status, outcome |-> final.outcome, tally |-> counts]

FinalizeWhatIsCounted(r, row, statuses, seenStatus) ==
  IF seenStatus \in ActiveRunStatuses /\ row.status = seenStatus
  THEN FinalRunData(r, statuses, seenStatus)
  ELSE row

FinalizeWithoutCompare(r, row, statuses, seenStatus) ==
  IF seenStatus \in ActiveRunStatuses /\ PendingRunItems(r, statuses) = {}
  THEN FinalRunData(r, statuses, seenStatus)
  ELSE row

\* finalizeRankCheckRun: row is the run row as stored, seenStatus the status
\* the caller read before.  Nothing happens unless that status is active, no
\* item is pending, and the stored status is still the one that was read.
FinalizeRankCheckRun(r, row, statuses, seenStatus) ==
  IF /\ seenStatus \in ActiveRunStatuses
     /\ PendingRunItems(r, statuses) = {}
     /\ row.status = seenStatus
  THEN FinalRunData(r, statuses, seenStatus)
  ELSE row


-----------------------------------------------------------------------------
(* References for outcomes, in terms of the verdicts themselves: what a run *)
(* reports when its items ended with the statuses in verdicts.              *)

Verdicts(r, statuses) ==
  {statuses[i] : i \in {j \in ItemsOf(r) : statuses[j] # Absent}}

\* As status.ts and the table of status.test.ts have it.
Report(verdicts) ==
  CASE verdicts = {"completed"} -> "succeeded"
    [] "completed" \in verdicts /\ verdicts # {"completed"} -> "partial"
    [] "completed" \notin verdicts /\ "cancelled" \in verdicts -> "cancelled"
    [] OTHER -> IF verdicts \cap {"failed", "skipped", "blocked"} # {}
                THEN "failed" ELSE "deferred"

\* As the guide has it (runs.mdx:141-144): cancelled targets count for nothing,
\* unless there are no others.
GuideReport(verdicts) ==
  LET others == verdicts \ {"cancelled"}
  IN  CASE verdicts = {"cancelled"} -> "cancelled"
        [] others = {"completed"} -> "succeeded"
        [] "completed" \in others /\ others # {"completed"} -> "partial"
        [] OTHER -> IF others \cap {"failed", "skipped", "blocked"} # {}
                    THEN "failed" ELSE "deferred"

\* The two agree unless completed, failed or deferred targets stand beside
\* cancelled ones, where neither is taken to be right.
AcceptedReports(verdicts) == {Report(verdicts), GuideReport(verdicts)}

\* How a stored row reads: a cancelled run has no outcome.
ReportedBy(row) ==
  IF row.status = "cancelled" /\ row.outcome = NoOutcome THEN "cancelled"
                                                         ELSE row.outcome


\* What a finaliser writes reads as the report that the items call for, and is
\* a cancelled run exactly when somebody cancelled it or the items say so.
OutcomeExplained(r, statuses, seenStatus) ==
  LET row    == [status |-> seenStatus, outcome |-> NoOutcome, tally |-> {}]
      report == Report(Verdicts(r, statuses))
      final  == FinalizeRankCheckRun(r, row, statuses, seenStatus)
  IN  seenStatus \in ActiveRunStatuses /\ PendingRunItems(r, statuses) = {} =>
        /\ ReportedBy(final) = report
        /\ final.status = "cancelled" <=> seenStatus = "cancelling" \/ report = "cancelled"

=============================================================================

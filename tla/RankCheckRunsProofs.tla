------------------------ MODULE RankCheckRunsProofs ------------------------
(***************************************************************************)
(* Theorems about RankCheckRuns, for every set of runs, items and keywords *)
(* and every bound: its types are right, a stored outcome is the one the   *)
(* items call for, a finished run has no unfinished target, and no target  *)
(* is paid for twice. RankCheckRunsTargets goes on from here with what     *)
(* becomes of targets and runs.                                            *)
(***************************************************************************)
EXTENDS RankCheckRuns, FiniteSetTheorems, TLAPS

-----------------------------------------------------------------------------
(***************************************************************************)
(* What the arithmetic of RunContract computes, for every set of items.    *)
(***************************************************************************)

\* The items that a counter counts.
CountedItems(r, statuses, c) == {i \in ItemsOf(r) : statuses[i] \in CountedBy(c)}
Materialised(r, statuses) == {i \in ItemsOf(r) : statuses[i] # Absent}

-----------------------------------------------------------------------------
\* A counter is a natural number, zero exactly when no item has one of its
\* statuses (counts.ts).
LEMMA CounterCounts ==
  ASSUME NEW r, NEW statuses, NEW c \in Counters
  PROVE  /\ RunCountsFromItemGroups(r, statuses)[c] \in Nat
         /\ RunCountsFromItemGroups(r, statuses)[c] = 0
              <=> CountedItems(r, statuses, c) = {}
PROOF
  <1> DEFINE C == CountedItems(r, statuses, c)
  <1>1. RunCountsFromItemGroups(r, statuses)[c] = Cardinality(C)
    BY DEF RunCountsFromItemGroups, CountedItems
  <1>2. C \in SUBSET Items
    BY DEF CountedItems, ItemsOf
  <1>3. IsFiniteSet(C)
    BY <1>2, ContractAssumption, FS_Subset
  <1>4. Cardinality(C) \in Nat
    BY <1>3, FS_CardinalityType
  <1>5. Cardinality(C) = 0 <=> C = {}
    BY <1>3, FS_EmptySet
  <1> QED
    BY <1>1, <1>4, <1>5

\* The total counts the materialised items.
LEMMA TotalCounts ==
  ASSUME NEW r, NEW statuses
  PROVE  /\ IsFiniteSet(Materialised(r, statuses))
         /\ TotalCount(r, statuses) = Cardinality(Materialised(r, statuses))
         /\ TotalCount(r, statuses) \in Nat
         /\ TotalCount(r, statuses) = 0 <=> Materialised(r, statuses) = {}
PROOF
  <1> DEFINE M == Materialised(r, statuses)
  <1>1. M \in SUBSET Items
    BY DEF Materialised, ItemsOf
  <1>2. IsFiniteSet(M)
    BY <1>1, ContractAssumption, FS_Subset
  <1>3. TotalCount(r, statuses) = Cardinality(M)
    BY DEF TotalCount, Materialised
  <1>4. Cardinality(M) \in Nat /\ (Cardinality(M) = 0 <=> M = {})
    BY <1>2, FS_CardinalityType, FS_EmptySet
  <1> QED
    BY <1>2, <1>3, <1>4

\* Fewer items completed than there are exactly when another verdict occurs.
LEMMA CompletedBelowTotal ==
  ASSUME NEW r, NEW statuses
  PROVE  RunCountsFromItemGroups(r, statuses)["completed"] < TotalCount(r, statuses)
           <=> \E i \in Materialised(r, statuses) : statuses[i] # "completed"
PROOF
  <1> DEFINE M == Materialised(r, statuses)
             C == CountedItems(r, statuses, "completed")
  <1>1. C = {i \in M : statuses[i] = "completed"}
    BY DEF CountedItems, Materialised, CountedBy, Absent
  <1>2. IsFiniteSet(M) /\ TotalCount(r, statuses) = Cardinality(M)
    BY TotalCounts
  <1>3. C \in SUBSET M
    BY <1>1
  <1>4. IsFiniteSet(C) /\ Cardinality(C) <= Cardinality(M)
          /\ (Cardinality(M) = Cardinality(C) => M = C)
    BY <1>2, <1>3, FS_Subset
  <1>5. Cardinality(C) \in Nat /\ Cardinality(M) \in Nat
    BY <1>2, <1>4, FS_CardinalityType
  <1>6. Cardinality(C) < Cardinality(M) <=> C # M
    BY <1>4, <1>5
  <1>7. C # M <=> \E i \in M : statuses[i] # "completed"
    BY <1>1
  <1>8. RunCountsFromItemGroups(r, statuses)["completed"] = Cardinality(C)
    BY DEF RunCountsFromItemGroups, CountedItems, Counters
  <1> QED
    BY <1>2, <1>6, <1>7, <1>8

-----------------------------------------------------------------------------
\* How each comparison of the code reads in terms of the verdicts given.
LEMMA CountersReadVerdicts ==
  ASSUME NEW r, NEW statuses
  PROVE  LET counts == RunCountsFromItemGroups(r, statuses)
             total == TotalCount(r, statuses)
             verdicts == Verdicts(r, statuses)
         IN  /\ counts["completed"] > 0 <=> "completed" \in verdicts
             /\ counts["cancelled"] > 0 <=> "cancelled" \in verdicts
             /\ counts["failed"] > 0 <=> "failed" \in verdicts
             /\ counts["skipped"] > 0 <=> verdicts \cap {"skipped", "blocked"} # {}
             /\ total = 0 <=> verdicts = {}
             /\ counts["completed"] < total <=> verdicts \ {"completed"} # {}
PROOF
  <1> DEFINE M == Materialised(r, statuses)
             N(c) == RunCountsFromItemGroups(r, statuses)[c]
             V == Verdicts(r, statuses)
  <1>1. V = {statuses[i] : i \in M}
    BY DEF Verdicts, Materialised
  <1>2. ASSUME NEW c \in Counters
        PROVE  N(c) > 0 <=> V \cap CountedBy(c) # {}
    <2>1. N(c) \in Nat /\ (N(c) = 0 <=> CountedItems(r, statuses, c) = {})
      BY <1>2, CounterCounts
    <2>2. Absent \notin CountedBy(c)
      BY <1>2 DEF Counters, CountedBy, Absent
    <2>3. CountedItems(r, statuses, c) = {i \in M : statuses[i] \in CountedBy(c)}
      BY <2>2 DEF CountedItems, Materialised
    <2>4. CountedItems(r, statuses, c) # {} <=> V \cap CountedBy(c) # {}
      BY <1>1, <2>3
    <2> QED
      BY <2>1, <2>4
  <1>3. /\ CountedBy("completed") = {"completed"}
        /\ CountedBy("cancelled") = {"cancelled"}
        /\ CountedBy("failed") = {"failed"}
        /\ CountedBy("skipped") = {"skipped", "blocked"}
    BY DEF CountedBy
  <1>4. /\ N("completed") > 0 <=> "completed" \in V
        /\ N("cancelled") > 0 <=> "cancelled" \in V
        /\ N("failed") > 0 <=> "failed" \in V
        /\ N("skipped") > 0 <=> V \cap {"skipped", "blocked"} # {}
    BY <1>2, <1>3 DEF Counters
  <1>5. TotalCount(r, statuses) = 0 <=> V = {}
    BY <1>1, TotalCounts
  <1>6. N("completed") < TotalCount(r, statuses) <=> V \ {"completed"} # {}
    BY <1>1, CompletedBelowTotal
  <1> QED
    BY <1>4, <1>5, <1>6

\* The comparison chain of outcomeFromCounts gives the report that the
\* verdicts call for (status.ts).
LEMMA OutcomeIsReport ==
  ASSUME NEW r, NEW statuses
  PROVE  OutcomeFromCounts(RunCountsFromItemGroups(r, statuses), TotalCount(r, statuses))
           = Report(Verdicts(r, statuses))
PROOF
  <1> DEFINE N(c) == RunCountsFromItemGroups(r, statuses)[c]
             T == TotalCount(r, statuses)
             V == Verdicts(r, statuses)
             outcome == OutcomeFromCounts(RunCountsFromItemGroups(r, statuses), T)
  <1>1. /\ N("completed") > 0 <=> "completed" \in V
        /\ N("cancelled") > 0 <=> "cancelled" \in V
        /\ N("failed") > 0 <=> "failed" \in V
        /\ N("skipped") > 0 <=> V \cap {"skipped", "blocked"} # {}
        /\ T = 0 <=> V = {}
        /\ N("completed") < T <=> V \ {"completed"} # {}
    BY CountersReadVerdicts
  <1>2. N("cancelled") \in Nat
    BY CounterCounts DEF Counters
  <1>3. CASE V = {}
    <2>1. outcome = "deferred"
      BY <1>1, <1>3 DEF OutcomeFromCounts
    <2>2. Report(V) = "deferred"
      BY <1>3 DEF Report
    <2> QED
      BY <2>1, <2>2
  <1>4. CASE V # {} /\ "cancelled" \in V
    <2>1. outcome = IF "completed" \in V THEN "partial" ELSE "cancelled"
      BY <1>1, <1>4 DEF OutcomeFromCounts
    <2>2. Report(V) = IF "completed" \in V THEN "partial" ELSE "cancelled"
      BY <1>4 DEF Report
    <2> QED
      BY <2>1, <2>2
  <1>5. CASE V # {} /\ "cancelled" \notin V /\ "completed" \in V
    <2>1. outcome = IF V \ {"completed"} # {} THEN "partial" ELSE "succeeded"
      BY <1>1, <1>2, <1>5 DEF OutcomeFromCounts
    <2>2. Report(V) = IF V \ {"completed"} # {} THEN "partial" ELSE "succeeded"
      <3>1. V \ {"completed"} # {} <=> V # {"completed"}
        BY <1>5
      <3> QED
        BY <1>5, <3>1 DEF Report
    <2> QED
      BY <2>1, <2>2
  <1>6. CASE V # {} /\ "cancelled" \notin V /\ "completed" \notin V
    <2>1. outcome = IF N("failed") > 0 \/ N("skipped") > 0 THEN "failed" ELSE "deferred"
      BY <1>1, <1>2, <1>6 DEF OutcomeFromCounts
    <2>2. (N("failed") > 0 \/ N("skipped") > 0)
            <=> V \cap {"failed", "skipped", "blocked"} # {}
      BY <1>1
    <2>3. V # {"completed"}
      BY <1>6
    <2>4. Report(V) = IF V \cap {"failed", "skipped", "blocked"} # {}
                      THEN "failed" ELSE "deferred"
      BY <1>6, <2>3 DEF Report
    <2> QED
      BY <2>1, <2>2, <2>4
  <1> QED
    BY <1>3, <1>4, <1>5, <1>6

\* The table of the guide gives the same reports, unless targets with other
\* verdicts stand beside cancelled ones (runs.mdx:141-144, status.ts).
LEMMA GuideAgreesUnlessCancelled ==
  ASSUME NEW V, "cancelled" \notin V \/ V = {"cancelled"}
  PROVE  AcceptedReports(V) = {Report(V)}
PROOF
  <1>1. CASE V = {"cancelled"}
    BY <1>1 DEF AcceptedReports, Report, GuideReport
  <1>2. CASE "cancelled" \notin V
    <2>1. V \ {"cancelled"} = V /\ V # {"cancelled"}
      BY <1>2
    <2>2. GuideReport(V) = Report(V)
      BY <1>2, <2>1 DEF Report, GuideReport
    <2> QED
      BY <2>2 DEF AcceptedReports
  <1> QED
    BY <1>1, <1>2

-----------------------------------------------------------------------------
\* What a finaliser stores reads as the report of the items, and the run is
\* stored as cancelled exactly when a cancel command was seen or the report
\* says so, for every run, every set of items and all their statuses
\* (finalize.ts, terminal-state.ts).  The report is the code's own table, of
\* status.test.ts:31-38, not the guide's.
THEOREM EveryOutcomeExplained ==
  ASSUME NEW r, NEW statuses, NEW seen \in ActiveRunStatuses
  PROVE  OutcomeExplained(r, statuses, seen)
PROOF
  <1> DEFINE row == [status |-> seen, outcome |-> NoOutcome, tally |-> {}]
             report == Report(Verdicts(r, statuses))
             ending == IF seen = "cancelling" THEN "cancelled" ELSE "completed"
             stored == NormalizeTerminalRunState(ending, report)
             final == FinalizeRankCheckRun(r, row, statuses, seen)
  <1>1. SUFFICES ASSUME PendingRunItems(r, statuses) = {}
                 PROVE  /\ ReportedBy(final) = report
                        /\ final.status = "cancelled"
                             <=> seen = "cancelling" \/ report = "cancelled"
    BY DEF OutcomeExplained
  <1>2. final = FinalRunData(r, statuses, seen)
    BY <1>1 DEF FinalizeRankCheckRun
  <1>3. final.status = stored.status /\ final.outcome = stored.outcome
    BY <1>2, OutcomeIsReport DEF FinalRunData
  <1>4. report \in {"succeeded", "partial", "cancelled", "failed", "deferred"}
    BY DEF Report
  <1>5. CASE report = "cancelled"
    BY <1>3, <1>5 DEF NormalizeTerminalRunState, ReportedBy, NoOutcome
  <1>6. CASE report # "cancelled"
    <2>1. stored.status = ending /\ stored.outcome = report
      BY <1>6 DEF NormalizeTerminalRunState
    <2>2. report # NoOutcome
      BY <1>4 DEF NoOutcome
    <2> QED
      BY <1>3, <1>6, <2>1, <2>2 DEF ReportedBy
  <1> QED
    BY <1>5, <1>6

-----------------------------------------------------------------------------
(***************************************************************************)
(* The rows are well formed: every transaction keeps the types of what it  *)
(* writes.                                                                 *)
(***************************************************************************)

RunRow == [status : RunStatuses, outcome : RunOutcomes \cup {NoOutcome},
           tally : [Counters -> Nat]]
ItemRow == [status : ItemStatuses, reason : Reasons, attempts : Nat, lease : Leases]

-----------------------------------------------------------------------------
(* Rows that a finaliser writes.                                           *)

LEMMA CountsType ==
  ASSUME NEW r, NEW statuses
  PROVE  RunCountsFromItemGroups(r, statuses) \in [Counters -> Nat]
PROOF
  <1>1. \A c \in Counters : RunCountsFromItemGroups(r, statuses)[c] \in Nat
    BY CounterCounts
  <1> QED
    BY <1>1 DEF RunCountsFromItemGroups

\* The final row of a run is well-formed and terminal (finalize.ts).
LEMMA FinalRow ==
  ASSUME NEW r, NEW statuses, NEW seen
  PROVE  /\ FinalRunData(r, statuses, seen) \in RunRow
         /\ FinalRunData(r, statuses, seen).status \in TerminalRunStatuses
PROOF
  <1> DEFINE counts == RunCountsFromItemGroups(r, statuses)
             report == OutcomeFromCounts(counts, TotalCount(r, statuses))
             ending == IF seen = "cancelling" THEN "cancelled" ELSE "completed"
             stored == NormalizeTerminalRunState(ending, report)
  <1>1. report \in RunOutcomes \cup {"cancelled"}
    BY OutcomeIsReport DEF Report, RunOutcomes
  <1>2. /\ stored.status \in TerminalRunStatuses
        /\ stored.outcome \in RunOutcomes \cup {NoOutcome}
    BY <1>1 DEF NormalizeTerminalRunState, TerminalRunStatuses, NoOutcome
  <1>3. counts \in [Counters -> Nat]
    BY CountsType
  <1>4. FinalRunData(r, statuses, seen) =
          [status |-> stored.status, outcome |-> stored.outcome, tally |-> counts]
    BY DEF FinalRunData
  <1> QED
    BY <1>2, <1>3, <1>4 DEF RunRow, RunStatuses, TerminalRunStatuses

\* A finaliser leaves the row alone or, with no item pending, makes it final.
LEMMA FinalizedRow ==
  ASSUME NEW r, NEW statuses, NEW seen, NEW row \in RunRow
  PROVE  LET after == FinalizeRankCheckRun(r, row, statuses, seen)
         IN  /\ after \in RunRow
             /\ \/ after = row
                \/ /\ after.status \in TerminalRunStatuses
                   /\ PendingRunItems(r, statuses) = {}
PROOF
  BY FinalRow DEF FinalizeRankCheckRun

\* Item i gets a status and loses its claim; the other items stay.
ItemClosed(i, status, reason) ==
  /\ item' \in [Items -> ItemRow]
  /\ \A j \in Items \ {i} : item'[j] = item[j]
  /\ item'[i] = [status |-> status, reason |-> reason,
                 attempts |-> item[i].attempts, lease |-> "none"]

\* The run of item i is finalised, or keeps its status.
RunSettled(i) ==
  /\ run' \in [Runs -> RunRow]
  /\ \A r \in Runs \ {RunOf[i]} : run'[r] = run[r]
  /\ \/ run'[RunOf[i]].status = run[RunOf[i]].status
     \/ /\ run'[RunOf[i]].status \in TerminalRunStatuses
        /\ \A j \in ItemsOf(RunOf[i]) : item'[j].status \notin PendingItemStatuses

LEMMA ClosedItem ==
  ASSUME TypeOK, NEW i \in Items, NEW status \in ItemStatuses, NEW reason \in Reasons,
         item' = Closed(i, status, reason)
  PROVE  ItemClosed(i, status, reason)
PROOF
  <1>1. item \in [Items -> ItemRow]
    BY DEF TypeOK, ItemRow
  <1> QED
    BY <1>1 DEF Closed, ItemClosed, ItemRow, Leases

\* Settling an item closes it, counts it and finalises its run if it can.
LEMMA SettledItem ==
  ASSUME TypeOK, NEW i \in Items, NEW status \in TerminalItemStatuses,
         NEW reason \in Reasons, NEW counter \in Counters, NEW seen,
         SettleItem(i, status, reason, counter, seen)
  PROVE  ItemClosed(i, status, reason) /\ RunSettled(i)
PROOF
  <1> DEFINE r == RunOf[i]
             statuses == [j \in Items |-> item'[j].status]
             counted == Count(run[r], counter)
  <1>1. r \in Runs /\ run \in [Runs -> RunRow]
    BY ContractAssumption DEF TypeOK, RunRow
  <1>2. counted \in RunRow /\ counted.status = run[r].status
    BY <1>1 DEF Count, RunRow
  <1>3. ItemClosed(i, status, reason)
    BY ClosedItem DEF SettleItem, ItemStatuses
  <1>4. run' = [run EXCEPT ![r] = FinalizeRankCheckRun(r, counted, statuses, seen)]
    BY DEF SettleItem
  <1>5. /\ run'[r] \in RunRow
        /\ \/ run'[r] = counted
           \/ /\ run'[r].status \in TerminalRunStatuses
              /\ PendingRunItems(r, statuses) = {}
    BY <1>1, <1>2, <1>4, FinalizedRow
  <1>6. PendingRunItems(r, statuses) = {} =>
          \A j \in ItemsOf(r) : item'[j].status \notin PendingItemStatuses
    BY DEF PendingRunItems, ItemsOf
  <1> QED
    BY <1>1, <1>2, <1>3, <1>4, <1>5, <1>6 DEF RunSettled

\* An applied transition settles an open item and changes nothing otherwise.
LEMMA AppliedTransition ==
  ASSUME TypeOK, NEW i \in Items, NEW to \in {"completed", "failed", "deferred"},
         ApplyRunItemTransition(i, to)
  PROVE  /\ IF item[i].status \in PendingItemStatuses
            THEN ItemClosed(i, to, item[i].reason)
            ELSE item' = item /\ run' = run
         /\ item' \in [Items -> ItemRow]
         /\ RunSettled(i)
PROOF
  <1>1. /\ to \in TerminalItemStatuses /\ to \in Counters
        /\ item[i].reason \in Reasons
    BY DEF TerminalItemStatuses, Counters, TypeOK
  <1>2. CASE item[i].status \in PendingItemStatuses
    <2>1. PICK reason \in Reasons : reason = item[i].reason
      BY <1>1
    <2>2. PICK seen : seen = RunStatusOf(i)
      OBVIOUS
    <2>3. SettleItem(i, to, reason, to, seen)
      BY <1>2, <2>1, <2>2 DEF ApplyRunItemTransition
    <2>4. ItemClosed(i, to, reason) /\ RunSettled(i)
      BY <1>1, <2>3, SettledItem
    <2> QED
      BY <1>2, <2>1, <2>4 DEF ItemClosed
  <1>3. CASE item[i].status \notin PendingItemStatuses
    BY <1>3 DEF ApplyRunItemTransition, TypeOK, RunRow, ItemRow, RunSettled
  <1> QED
    BY <1>2, <1>3

-----------------------------------------------------------------------------
(* Types.                                                                  *)

RowTypes ==
  /\ run \in [Runs -> RunRow]
  /\ item \in [Items -> ItemRow]
  /\ check \in [Items -> [status : CheckStatuses, attempts : {0, 1}]]
  /\ task \in [Items -> TaskStates]

FlowTypes ==
  /\ flow \in [Items -> FlowStates]
  /\ attempt \in [Items -> [Tries -> AttemptStates]]
  /\ sends \in [Items -> Nat]
  /\ evidence \in [Items -> BOOLEAN]

CancelRow == [pc : {"idle", "read", "close"}, list : SUBSET Items, used : Nat]
SweepRow == [pc : {"idle", "listed", "counted"}, run : Runs,
             status : RunStatuses, groups : [Items -> ItemStatuses]]

SideTypes ==
  /\ cancel \in [Runs -> CancelRow]
  /\ sweep \in SweepRow
  /\ runnable \in [Keywords -> BOOLEAN]

LEMMA TypeParts ==
  /\ TypeOK <=> RowTypes /\ FlowTypes /\ SideTypes
  /\ TypeOK' <=> RowTypes' /\ FlowTypes' /\ SideTypes'
PROOF
  BY DEF TypeOK, RowTypes, FlowTypes, SideTypes, RunRow, ItemRow, CancelRow, SweepRow

LEMMA NoSweepType == NoSweep \in SweepRow
PROOF
  BY RunsAssumption DEF NoSweep, NoGroups, SweepRow, RunStatuses, ItemStatuses

LEMMA InitTypes == Init => TypeOK
PROOF
  <1> SUFFICES ASSUME Init PROVE TypeOK
    OBVIOUS
  <1>1. RowTypes
    BY DEF Init, RowTypes, RunRow, ItemRow, NoTally, RunStatuses, ItemStatuses,
           PendingItemStatuses, NoOutcome, Absent, Reasons, Leases, CheckStatuses,
           TaskStates
  <1>2. FlowTypes
    BY DEF Init, FlowTypes, FlowStates, AttemptStates
  <1>3. SideTypes
    BY NoSweepType DEF Init, SideTypes, CancelRow
  <1> QED
    BY <1>1, <1>2, <1>3, TypeParts

\* Moving an attempt or a workflow keeps the types of what they move.
LEMMA AttemptMoved ==
  ASSUME FlowTypes, NEW i \in Items, NEW n, NEW from, NEW to \in AttemptStates,
         StepAttempt(i, n, from, to)
  PROVE  attempt' \in [Items -> [Tries -> AttemptStates]]
PROOF
  <1>1. attempt[i] \in [Tries -> AttemptStates]
    BY DEF FlowTypes
  <1>2. [attempt[i] EXCEPT ![n] = to] \in [Tries -> AttemptStates]
    BY <1>1
  <1>3. attempt' = [attempt EXCEPT ![i] = [attempt[i] EXCEPT ![n] = to]]
    BY DEF StepAttempt
  <1> QED
    BY <1>2, <1>3 DEF FlowTypes

LEMMA FlowMoved ==
  ASSUME FlowTypes, NEW i \in Items, NEW n, NEW from, NEW to \in FlowStates,
         FlowTo(i, from, to) \/ FlowAfter(i, n, to)
  PROVE  flow' \in [Items -> FlowStates]
PROOF
  <1>1. CASE FlowTo(i, from, to)
    BY <1>1 DEF FlowTypes, FlowTo
  <1>2. CASE FlowAfter(i, n, to)
    <2>1. PICK next : next = IF Awaited(i, n) THEN to ELSE flow[i]
      OBVIOUS
    <2>2. next \in FlowStates
      BY <2>1 DEF FlowTypes
    <2>3. flow' = [flow EXCEPT ![i] = next]
      BY <1>2, <2>1 DEF FlowAfter
    <2> QED
      BY <2>2, <2>3 DEF FlowTypes
  <1> QED
    BY <1>1, <1>2

\* A closed check keeps its type.
LEMMA ClosedCheck ==
  ASSUME RowTypes, NEW i \in Items, NEW status \in CheckStatuses, CloseCheck(i, status)
  PROVE  check' \in [Items -> [status : CheckStatuses, attempts : {0, 1}]]
PROOF
  BY DEF RowTypes, CloseCheck

\* The rows after a transition that is settled or applied.
LEMMA SettledRows ==
  ASSUME TypeOK, NEW i \in Items
  PROVE  /\ \A status \in TerminalItemStatuses, reason \in Reasons, counter \in Counters :
              \A seen : SettleItem(i, status, reason, counter, seen) =>
                          run' \in [Runs -> RunRow] /\ item' \in [Items -> ItemRow]
         /\ \A to \in {"completed", "failed", "deferred"} :
              ApplyRunItemTransition(i, to) =>
                run' \in [Runs -> RunRow] /\ item' \in [Items -> ItemRow]
PROOF
  BY SettledItem, AppliedTransition DEF ItemClosed, RunSettled

\* A launch completes the run without items or queues items of its own.
LEMMA Launched ==
  ASSUME TypeOK, NEW r \in Runs, LaunchPlannedRun(r)
  PROVE  /\ run' \in [Runs -> RunRow] /\ item' \in [Items -> ItemRow]
         /\ \A q \in Runs \ {r} : run'[q] = run[q]
         /\ \/ /\ run'[r].status = "completed" /\ run'[r].outcome = "deferred"
               /\ item' = item
            \/ /\ run'[r].status = "queued" /\ run'[r].outcome = run[r].outcome
               /\ \E i \in ItemsOf(r) : item'[i].status = "queued"
               /\ \A i \in Items :
                    \/ item'[i] = item[i]
                    \/ RunOf[i] = r /\ item'[i] = [item[i] EXCEPT !.status = "queued"]
PROOF
  <1>1. run \in [Runs -> RunRow] /\ item \in [Items -> ItemRow]
    BY TypeParts DEF RowTypes
  <1>2. PICK launched \in Launchable(r) :
          LET skipped == Cardinality(ItemsOf(r) \ launched)
          IN  IF launched = {}
              THEN /\ run' = [run EXCEPT ![r].status = "completed",
                                         ![r].outcome = "deferred",
                                         ![r].tally["skipped"] = skipped]
                   /\ UNCHANGED item
              ELSE /\ run' = [run EXCEPT ![r].status = "queued",
                                         ![r].tally["skipped"] = skipped]
                   /\ item' = [i \in Items |->
                                 IF i \in launched
                                 THEN [item[i] EXCEPT !.status = "queued"]
                                 ELSE item[i]]
    BY DEF LaunchPlannedRun
  <1>3. launched \subseteq ItemsOf(r)
    BY DEF Launchable
  <1>4. PICK skipped \in Nat : skipped = Cardinality(ItemsOf(r) \ launched)
    <2>1. ItemsOf(r) \ launched \in SUBSET Items
      BY DEF ItemsOf
    <2> QED
      BY <2>1, ContractAssumption, FS_Subset, FS_CardinalityType
  <1> DEFINE tally == [run[r].tally EXCEPT !["skipped"] = skipped]
  <1>5. /\ run[r].status \in RunStatuses
        /\ run[r].outcome \in RunOutcomes \cup {NoOutcome}
        /\ tally \in [Counters -> Nat]
        /\ run[r] = [status |-> run[r].status, outcome |-> run[r].outcome,
                     tally |-> run[r].tally]
    BY <1>1, <1>4 DEF RunRow
  <1>6. CASE launched = {}
    <2>1. run'[r] = [status |-> "completed", outcome |-> "deferred", tally |-> tally]
      BY <1>1, <1>2, <1>4, <1>5, <1>6
    <2>2. run'[r] \in RunRow
      BY <1>5, <2>1 DEF RunRow, RunStatuses, RunOutcomes
    <2> HIDE DEF tally
    <2>3. run' = [run EXCEPT ![r] = run'[r]]
      BY <1>1, <1>2, <1>6
    <2> QED
      BY <1>1, <1>2, <1>6, <2>1, <2>2, <2>3
  <1>7. CASE launched # {}
    <2>1. run'[r] = [status |-> "queued", outcome |-> run[r].outcome, tally |-> tally]
      BY <1>1, <1>2, <1>4, <1>5, <1>7
    <2>2. run'[r] \in RunRow
      BY <1>5, <2>1 DEF RunRow, RunStatuses
    <2> HIDE DEF tally
    <2>3. run' = [run EXCEPT ![r] = run'[r]]
      BY <1>1, <1>2, <1>7
    <2>4. \A i \in Items : [item[i] EXCEPT !.status = "queued"] \in ItemRow
      BY <1>1 DEF ItemRow, ItemStatuses, PendingItemStatuses
    <2>5. \A i \in Items : IF i \in launched
                           THEN item'[i] = [item[i] EXCEPT !.status = "queued"]
                           ELSE item'[i] = item[i]
      BY <1>1, <1>2, <1>7
    <2>6. item' \in [Items -> ItemRow]
      BY <1>1, <1>2, <1>7, <2>4
    <2>7. \E i \in ItemsOf(r) : item'[i].status = "queued"
      BY <1>1, <1>3, <1>7, <2>5 DEF ItemRow, ItemsOf
    <2> QED
      BY <1>1, <1>3, <2>1, <2>2, <2>3, <2>5, <2>6, <2>7 DEF ItemsOf
  <1> QED
    BY <1>6, <1>7

LEMMA PlannerTypes ==
  ASSUME TypeOK, PlannerStep
  PROVE  TypeOK'
PROOF
  <1>1. RowTypes /\ FlowTypes /\ SideTypes
    BY TypeParts
  <1>2. ASSUME NEW r \in Runs, LaunchPlannedRun(r)
        PROVE  TypeOK'
    <2>1. FlowTypes' /\ SideTypes'
      BY <1>1, <1>2 DEF LaunchPlannedRun, flowvars, FlowTypes, SideTypes
    <2>2. RowTypes'
      BY <1>1, <1>2, Launched DEF LaunchPlannedRun, RowTypes
    <2> QED
      BY <2>1, <2>2, TypeParts
  <1>3. ASSUME NEW r \in Runs, NEW from, NEW to \in RunStatuses,
               NEW outcome \in RunOutcomes \cup {NoOutcome}, SetRun(r, from, to, outcome)
        PROVE  TypeOK'
    <2>1. FlowTypes' /\ SideTypes'
      BY <1>1, <1>3 DEF SetRun, flowvars, FlowTypes, SideTypes
    <2>2. run' \in [Runs -> RunRow]
      BY <1>1, <1>3 DEF SetRun, RowTypes, RunRow
    <2>3. RowTypes'
      BY <1>1, <1>3, <2>2 DEF SetRun, RowTypes
    <2> QED
      BY <2>1, <2>3, TypeParts
  <1>4. ASSUME NEW k \in Keywords, PauseKeyword(k)
        PROVE  TypeOK'
    BY <1>1, <1>4, TypeParts DEF PauseKeyword, dbvars, flowvars, RowTypes, FlowTypes, SideTypes
  <1>5. \A r \in Runs : BlockPlannedRun(r) \/ ExpireBlockedRun(r) \/ SkipPlannedRun(r) => TypeOK'
    BY <1>3 DEF BlockPlannedRun, ExpireBlockedRun, SkipPlannedRun, RunStatuses,
                RunOutcomes, NoOutcome
  <1> QED
    BY <1>2, <1>4, <1>5 DEF PlannerStep

LEMMA UnchangedTypes ==
  ASSUME TypeOK
  PROVE  /\ UNCHANGED dbvars => RowTypes'
         /\ UNCHANGED <<run, item, check>> /\ task' \in [Items -> TaskStates] => RowTypes'
         /\ UNCHANGED flowvars => FlowTypes'
         /\ UNCHANGED <<cancel, sweep, runnable>> => SideTypes'
PROOF
  BY TypeParts DEF dbvars, flowvars, RowTypes, FlowTypes, SideTypes

\* A check that is closed and an item to which the verdict is applied.
LEMMA ClosedWith ==
  ASSUME TypeOK, NEW i \in Items, NEW to \in {"completed", "failed", "deferred"},
         ApplyRunItemTransition(i, to), task' \in [Items -> TaskStates],
         NEW row \in [status : CheckStatuses, attempts : {0, 1}],
         CloseCheck(i, to) \/ check' = [check EXCEPT ![i] = row]
  PROVE  RowTypes'
PROOF
  <1>1. check' \in [Items -> [status : CheckStatuses, attempts : {0, 1}]]
    BY TypeParts, ClosedCheck DEF RowTypes, CheckStatuses
  <1>2. run' \in [Runs -> RunRow] /\ item' \in [Items -> ItemRow]
    BY SettledRows
  <1> QED
    BY <1>1, <1>2 DEF RowTypes

LEMMA WorkflowTypes ==
  ASSUME TypeOK, NEW i \in Items, WorkflowStep(i)
  PROVE  TypeOK'
PROOF
  <1>1. RowTypes /\ FlowTypes /\ SideTypes
    BY TypeParts
  <1>2. ASSUME StartRunItem(i)
        PROVE  TypeOK'
    BY <1>1, <1>2, TypeParts, UnchangedTypes
       DEF StartRunItem, FlowTypes, FlowStates, flowvars
  <1>3. ASSUME CreateRunningRankCheck(i)
        PROVE  TypeOK'
    <2>1. flow' \in [Items -> FlowStates]
      BY <1>1, <1>3, FlowMoved DEF CreateRunningRankCheck, FlowStates
    <2>2. attempt' \in [Items -> [Tries -> AttemptStates]]
      <3>1. "started" \in AttemptStates
        BY DEF AttemptStates
      <3>2. [attempt[i] EXCEPT ![1] = "started"] \in [Tries -> AttemptStates]
        BY <1>1, <3>1 DEF FlowTypes
      <3> QED
        BY <1>1, <1>3, <3>2 DEF CreateRunningRankCheck, FlowTypes
    <2>3. run' \in [Runs -> RunRow]
      <3>1. \A r \in Runs : run[r] \in RunRow /\ [run[r] EXCEPT !.status = "running"] \in RunRow
        BY <1>1 DEF RowTypes, RunRow, RunStatuses
      <3>2. RunOf[i] \in Runs
        BY ContractAssumption
      <3> QED
        BY <1>1, <1>3, <3>1, <3>2 DEF CreateRunningRankCheck, MarkRankCheckRunStarted, RowTypes, RunRow
    <2>4. item' \in [Items -> ItemRow]
      BY <1>1, <1>3 DEF CreateRunningRankCheck, RowTypes, ItemRow, ItemStatuses, PendingItemStatuses
    <2>5. check' \in [Items -> [status : CheckStatuses, attempts : {0, 1}]]
      BY <1>1, <1>3 DEF CreateRunningRankCheck, RowTypes, CheckStatuses
    <2> QED
      BY <1>1, <1>3, <2>1, <2>2, <2>3, <2>4, <2>5, TypeParts, UnchangedTypes
         DEF CreateRunningRankCheck, RowTypes, FlowTypes
  <1>4. ASSUME CreateHitsBusyKeyword(i) \/ RetryAfterBusyKeyword(i) \/ CreateGivesUp(i)
               \/ ClosingActivityLost(i)
        PROVE  TypeOK'
    <2>1. flow' \in [Items -> FlowStates]
      BY <1>1, <1>4, FlowMoved
         DEF CreateHitsBusyKeyword, RetryAfterBusyKeyword, CreateGivesUp,
             ClosingActivityLost, FlowStates
    <2> QED
      BY <1>1, <1>4, <2>1, TypeParts, UnchangedTypes
         DEF CreateHitsBusyKeyword, RetryAfterBusyKeyword, CreateGivesUp,
             ClosingActivityLost, FlowTypes
  <1>5. ASSUME DeferRunItemForBusyKeyword(i)
        PROVE  TypeOK'
    <2>1. flow' \in [Items -> FlowStates]
      BY <1>1, <1>5, FlowMoved DEF DeferRunItemForBusyKeyword, FlowStates
    <2>2. run' \in [Runs -> RunRow] /\ item' \in [Items -> ItemRow]
      BY <1>5, SettledRows
         DEF DeferRunItemForBusyKeyword, TerminalItemStatuses, Reasons, Counters
    <2> QED
      BY <1>1, <1>5, <2>1, <2>2, TypeParts, UnchangedTypes
         DEF DeferRunItemForBusyKeyword, RowTypes, FlowTypes
  <1>6. ASSUME FailRankCheck(i) \/ DiscardRankCheck(i)
        PROVE  TypeOK'
    <2>1. flow' \in [Items -> FlowStates]
      BY <1>1, <1>6, FlowMoved DEF FailRankCheck, DiscardRankCheck, FlowStates
    <2>2. task' \in [Items -> TaskStates]
      BY <1>1, <1>6 DEF FailRankCheck, DiscardRankCheck, RowTypes
    <2>3. RowTypes'
      BY <1>1, <1>6, <2>2, ClosedWith, UnchangedTypes
         DEF FailRankCheck, DiscardRankCheck, CheckStatuses, RowTypes
    <2> QED
      BY <1>1, <1>6, <2>1, <2>3, TypeParts, UnchangedTypes
         DEF FailRankCheck, DiscardRankCheck, FlowTypes
  <1> QED
    BY <1>2, <1>3, <1>4, <1>5, <1>6 DEF WorkflowStep

LEMMA AttemptTypes ==
  ASSUME TypeOK, NEW i \in Items, NEW n \in Tries, AttemptStep(i, n)
  PROVE  TypeOK'
PROOF
  <1>1. RowTypes /\ FlowTypes /\ SideTypes
    BY TypeParts
  <1> DEFINE AttemptOK == attempt' \in [Items -> [Tries -> AttemptStates]]
             FlowOK == flow' \in [Items -> FlowStates]
  <1>2. ASSUME StopUnrunnable(i, n)
        PROVE  TypeOK'
    <2>1. AttemptOK /\ FlowOK
      BY <1>1, <1>2, AttemptMoved, FlowMoved DEF StopUnrunnable, AttemptStates, FlowStates
    <2>2. task' \in [Items -> TaskStates]
      BY <1>1, <1>2 DEF StopUnrunnable, RowTypes
    <2>3. check' \in [Items -> [status : CheckStatuses, attempts : {0, 1}]]
      <3>1. CloseCheck(i, "failed") \/ check' = check
        BY <1>2 DEF StopUnrunnable
      <3> QED
        BY <1>1, <3>1, ClosedCheck DEF CheckStatuses, RowTypes
    <2>4. run' \in [Runs -> RunRow] /\ item' \in [Items -> ItemRow]
      <3>1. \/ \E s \in ActiveRunStatuses :
                 SettleItem(i, "cancelled", "unrunnable", "cancelled", s)
            \/ run' = run /\ item' = item
        BY <1>2 DEF StopUnrunnable
      <3> QED
        BY <1>1, <3>1, SettledRows DEF TerminalItemStatuses, Reasons, Counters, RowTypes
    <2>5. RowTypes'
      BY <2>2, <2>3, <2>4 DEF RowTypes
    <2> QED
      BY <1>1, <1>2, <2>1, <2>5, TypeParts, UnchangedTypes DEF StopUnrunnable, FlowTypes
  <1>3. ASSUME ClaimPaidCall(i, n)
        PROVE  TypeOK'
    <2>1. AttemptOK
      BY <1>1, <1>3, AttemptMoved DEF ClaimPaidCall, AttemptStates
    <2>2. RowTypes'
      BY <1>1, <1>3 DEF ClaimPaidCall, RowTypes
    <2> QED
      BY <1>1, <1>3, <2>1, <2>2, TypeParts, UnchangedTypes DEF ClaimPaidCall, FlowTypes
  <1>4. ASSUME LosePaidCall(i, n)
        PROVE  TypeOK'
    <2>1. AttemptOK
      BY <1>1, <1>4, AttemptMoved DEF LosePaidCall, AttemptStates
    <2>2. FlowOK
      BY <1>1, <1>4, FlowMoved DEF LosePaidCall, FlowStates, FlowTypes
    <2>3. item' \in [Items -> ItemRow]
      BY <1>1, <1>4, ClosedItem
         DEF LosePaidCall, ItemClosed, RowTypes, ItemStatuses, TerminalItemStatuses, Reasons
    <2> QED
      BY <1>1, <1>4, <2>1, <2>2, <2>3, TypeParts, UnchangedTypes
         DEF LosePaidCall, RowTypes, FlowTypes
  <1>5. ASSUME FinalizeAfterLostCall(i, n)
        PROVE  TypeOK'
    <2>1. AttemptOK /\ FlowOK
      BY <1>1, <1>5, AttemptMoved, FlowMoved
         DEF FinalizeAfterLostCall, AttemptStates, FlowStates
    <2>2. PICK s \in ActiveRunStatuses :
            run' = [run EXCEPT ![RunOf[i]] =
                      FinalizeRankCheckRun(RunOf[i], run[RunOf[i]], ItemStatusOf, s)]
      BY <1>5 DEF FinalizeAfterLostCall
    <2>3. run[RunOf[i]] \in RunRow
      BY <1>1, ContractAssumption DEF RowTypes
    <2>4. FinalizeRankCheckRun(RunOf[i], run[RunOf[i]], ItemStatusOf, s) \in RunRow
      <3>1. PICK r, statuses : r = RunOf[i] /\ statuses = ItemStatusOf
        OBVIOUS
      <3>2. PICK row \in RunRow : row = run[RunOf[i]]
        BY <2>3
      <3>3. FinalizeRankCheckRun(r, row, statuses, s) \in RunRow
        BY FinalizedRow
      <3> QED
        BY <3>1, <3>2, <3>3
    <2>5. RowTypes'
      BY <1>1, <1>5, <2>2, <2>4 DEF FinalizeAfterLostCall, RowTypes
    <2> QED
      BY <1>1, <1>5, <2>1, <2>5, TypeParts, UnchangedTypes
         DEF FinalizeAfterLostCall, FlowTypes
  <1>6. ASSUME SendPaidCall(i, n)
        PROVE  TypeOK'
    <2>1. AttemptOK
      BY <1>1, <1>6, AttemptMoved DEF SendPaidCall, AttemptStates
    <2>2. sends' \in [Items -> Nat]
      BY <1>1, <1>6 DEF SendPaidCall, FlowTypes
    <2> QED
      BY <1>1, <1>6, <2>1, <2>2, TypeParts, UnchangedTypes DEF SendPaidCall, FlowTypes
  <1>7. ASSUME RetainRankResult(i, n)
        PROVE  TypeOK'
    <2>1. AttemptOK
      BY <1>1, <1>7, AttemptMoved DEF RetainRankResult, AttemptStates
    <2>2. evidence' \in [Items -> BOOLEAN]
      BY <1>1, <1>7 DEF RetainRankResult, FlowTypes
    <2> QED
      BY <1>1, <1>7, <2>1, <2>2, TypeParts, UnchangedTypes DEF RetainRankResult, FlowTypes
  <1>8. ASSUME PersistRankCheck(i, n)
        PROVE  TypeOK'
    <2>1. AttemptOK /\ FlowOK
      BY <1>1, <1>8, AttemptMoved, FlowMoved DEF PersistRankCheck, AttemptStates, FlowStates
    <2>2. evidence' \in [Items -> BOOLEAN]
      BY <1>1, <1>8 DEF PersistRankCheck, FlowTypes
    <2>3. task' \in [Items -> TaskStates]
      BY <1>1, <1>8 DEF PersistRankCheck, RowTypes
    <2>4. RowTypes'
      BY <1>1, <1>8, <2>3, ClosedWith, UnchangedTypes DEF PersistRankCheck, RowTypes
    <2> QED
      BY <1>1, <1>8, <2>1, <2>2, <2>4, TypeParts, UnchangedTypes
         DEF PersistRankCheck, FlowTypes
  <1>9. ASSUME AttemptTimesOut(i, n)
        PROVE  TypeOK'
    <2>1. CASE n + 1 \in Tries
      <3>1. "started" \in AttemptStates
        BY DEF AttemptStates
      <3>2. [attempt[i] EXCEPT ![n + 1] = "started"] \in [Tries -> AttemptStates]
        BY <1>1, <2>1, <3>1 DEF FlowTypes
      <3> QED
        BY <1>1, <1>9, <2>1, <3>2, TypeParts, UnchangedTypes
           DEF AttemptTimesOut, Retry, FlowTypes
    <2>2. CASE n + 1 \notin Tries
      BY <1>1, <1>9, <2>2, TypeParts, UnchangedTypes
         DEF AttemptTimesOut, Retry, FlowTypes, FlowStates
    <2> QED
      BY <2>1, <2>2
  <1>10. ASSUME PaidCallFails(i, n)
         PROVE  TypeOK'
    <2>1. AttemptOK /\ FlowOK
      BY <1>1, <1>10, AttemptMoved, FlowMoved DEF PaidCallFails, AttemptStates, FlowStates
    <2> QED
      BY <1>1, <1>10, <2>1, TypeParts, UnchangedTypes DEF PaidCallFails, FlowTypes
  <1> QED
    BY <1>2, <1>3, <1>4, <1>5, <1>6, <1>7, <1>8, <1>9, <1>10 DEF AttemptStep

\* Starting a run that waits keeps the rows of runs.
LEMMA StartedRun ==
  ASSUME RowTypes, NEW r \in Runs, MarkRankCheckRunStarted(r)
  PROVE  /\ run' \in [Runs -> RunRow]
         /\ \A q \in Runs \ {r} : run'[q] = run[q]
         /\ run'[r].status = IF run[r].status = "queued" THEN "running" ELSE run[r].status
PROOF
  <1>1. \A q \in Runs : run[q] \in RunRow /\ [run[q] EXCEPT !.status = "running"] \in RunRow
    BY DEF RowTypes, RunRow, RunStatuses
  <1>2. run' \in [Runs -> RunRow]
    BY <1>1 DEF MarkRankCheckRunStarted, RowTypes, RunRow
  <1> QED
    BY <1>1, <1>2 DEF MarkRankCheckRunStarted, RowTypes, RunRow

LEMMA DispatcherTypes ==
  ASSUME TypeOK, NEW i \in Items, DispatcherStep(i)
  PROVE  TypeOK'
PROOF
  <1>1. RowTypes /\ FlowTypes /\ SideTypes
    BY TypeParts
  <1>2. ASSUME CancelUnrunnableCandidate(i)
        PROVE  TypeOK'
    <2>1. run' \in [Runs -> RunRow] /\ item' \in [Items -> ItemRow]
      BY <1>2, SettledRows
         DEF CancelUnrunnableCandidate, TerminalItemStatuses, Reasons, Counters
    <2> QED
      BY <1>1, <1>2, <2>1, TypeParts, UnchangedTypes DEF CancelUnrunnableCandidate, RowTypes
  <1>3. ASSUME Claim(i)
        PROVE  TypeOK'
    <2>1. run' \in [Runs -> RunRow]
      BY <1>1, <1>3, StartedRun, ContractAssumption DEF Claim
    <2>2. item' \in [Items -> ItemRow]
      BY <1>1, <1>3 DEF Claim, RowTypes, ItemRow, ItemStatuses, PendingItemStatuses, Leases
    <2> QED
      BY <1>1, <1>3, <2>1, <2>2, TypeParts, UnchangedTypes DEF Claim, RowTypes
  <1>4. ASSUME BlockClaimLost(i)
        PROVE  TypeOK'
    <2>1. run' \in [Runs -> RunRow] /\ item' \in [Items -> ItemRow]
      BY <1>4, SettledRows DEF BlockClaimLost, TerminalItemStatuses, Reasons, Counters
    <2> QED
      BY <1>1, <1>4, <2>1, TypeParts, UnchangedTypes DEF BlockClaimLost, RowTypes
  <1>5. ASSUME ExpireLease(i)
        PROVE  TypeOK'
    <2>1. item' \in [Items -> ItemRow]
      BY <1>1, <1>5 DEF ExpireLease, RowTypes, ItemRow, Leases
    <2> QED
      BY <1>1, <1>5, <2>1, TypeParts, UnchangedTypes DEF ExpireLease, RowTypes
  <1> QED
    BY <1>2, <1>3, <1>4, <1>5 DEF DispatcherStep, ClaimQueued, ReclaimExpired

LEMMA BatchTypes ==
  ASSUME TypeOK, NEW i \in Items, BatchStep(i)
  PROVE  TypeOK'
PROOF
  <1>1. RowTypes /\ FlowTypes /\ SideTypes
    BY TypeParts
  <1>2. ASSUME PrepareBatch(i)
        PROVE  TypeOK'
    <2>1. item' \in [Items -> ItemRow]
      BY <1>1, <1>2 DEF PrepareBatch, RowTypes, ItemRow, Leases
    <2>2. check' \in [Items -> [status : CheckStatuses, attempts : {0, 1}]]
      BY <1>1, <1>2 DEF PrepareBatch, LinkClaimed, RowTypes, CheckStatuses
    <2>3. task' \in [Items -> TaskStates]
      BY <1>1, <1>2 DEF PrepareBatch, RowTypes, TaskStates
    <2> QED
      BY <1>1, <1>2, <2>1, <2>2, <2>3, TypeParts, UnchangedTypes DEF PrepareBatch, RowTypes
  <1>3. ASSUME PrepareDeferredBatch(i)
        PROVE  TypeOK'
    <2>1. CloseCheck(i, "deferred")
      BY <1>3 DEF PrepareDeferredBatch, LinkClaimed, CloseCheck
    <2>2. task' \in [Items -> TaskStates]
      BY <1>1, <1>3 DEF PrepareDeferredBatch, RowTypes, TaskStates
    <2>3. RowTypes'
      <3>1. [status |-> "deferred", attempts |-> 0]
              \in [status : CheckStatuses, attempts : {0, 1}]
        BY DEF CheckStatuses
      <3> QED
        BY <1>3, <2>1, <2>2, <3>1, ClosedWith DEF PrepareDeferredBatch
    <2> QED
      BY <1>3, <2>3, TypeParts, UnchangedTypes DEF PrepareDeferredBatch
  <1>4. ASSUME SubmitBatch(i)
        PROVE  TypeOK'
    <2>1. task' \in [Items -> TaskStates]
      BY <1>1, <1>4 DEF SubmitBatch, RowTypes, TaskStates
    <2>2. FlowTypes'
      BY <1>1, <1>4 DEF SubmitBatch, FlowTypes
    <2> QED
      BY <1>4, <2>1, <2>2, TypeParts, UnchangedTypes DEF SubmitBatch
  <1>5. ASSUME RetainBatchResult(i)
        PROVE  TypeOK'
    <2>1. FlowTypes'
      BY <1>1, <1>5 DEF RetainBatchResult, FlowTypes
    <2> QED
      BY <1>5, <2>1, TypeParts, UnchangedTypes DEF RetainBatchResult
  <1>6. ASSUME NEW verdict \in {"completed", "failed", "deferred"}, SettleTask(i, verdict)
        PROVE  RowTypes'
    <2>1. CASE check[i].status = "running"
      <3>1. task' \in [Items -> TaskStates]
        BY <1>1, <1>6, <2>1 DEF SettleTask, RowTypes, TaskStates
      <3>2. [status |-> "deferred", attempts |-> 0]
              \in [status : CheckStatuses, attempts : {0, 1}]
        BY DEF CheckStatuses
      <3> QED
        BY <1>6, <2>1, <3>1, <3>2, ClosedWith DEF SettleTask
    <2>2. CASE check[i].status # "running"
      <3>1. check[i].status \in TaskStates
        BY <1>1, <2>2 DEF RowTypes, CheckStatuses, TaskStates
      <3> QED
        BY <1>1, <1>6, <2>2, <3>1, UnchangedTypes DEF SettleTask, RowTypes
    <2> QED
      BY <2>1, <2>2
  <1>7. ASSUME PersistBatchResult(i)
        PROVE  TypeOK'
    <2>1. RowTypes'
      BY <1>6, <1>7 DEF PersistBatchResult
    <2>2. evidence' \in [Items -> BOOLEAN]
      BY <1>1, <1>7 DEF PersistBatchResult, FlowTypes
    <2> QED
      BY <1>1, <1>7, <2>1, <2>2, TypeParts, UnchangedTypes DEF PersistBatchResult, FlowTypes
  <1>8. ASSUME DeferBatch(i)
        PROVE  TypeOK'
    <2>1. RowTypes'
      BY <1>6, <1>8 DEF DeferBatch
    <2> QED
      BY <1>8, <2>1, TypeParts, UnchangedTypes DEF DeferBatch
  <1> QED
    BY <1>2, <1>3, <1>4, <1>5, <1>7, <1>8 DEF BatchStep

\* A restored result closes the item and finalises the run again or recounts it.
LEMMA RecoveredItem ==
  ASSUME TypeOK, NEW i \in Items, RecoverRunItem(i)
  PROVE  /\ item' \in [Items -> ItemRow]
         /\ item' = item \/ ItemClosed(i, "completed", item[i].reason)
         /\ RunSettled(i)
PROOF
  <1> DEFINE r == RunOf[i]
             statuses == [ItemStatusOf EXCEPT ![i] = "completed"]
             recounted == [run[r] EXCEPT !.tally = RunCountsFromItemGroups(r, statuses)]
  <1>1. run \in [Runs -> RunRow] /\ item \in [Items -> ItemRow] /\ r \in Runs
    BY TypeParts, ContractAssumption DEF RowTypes
  <1>2. CASE item[i].status = "cancelled"
    BY <1>1, <1>2 DEF RecoverRunItem, RunSettled
  <1>3. CASE item[i].status # "cancelled"
    <2>1. item[i].reason \in Reasons
      BY <1>1 DEF ItemRow
    <2>2. ItemClosed(i, "completed", item[i].reason)
      <3>1. PICK reason \in Reasons : reason = item[i].reason
        BY <2>1
      <3>2. item' = Closed(i, "completed", reason)
        BY <1>3, <3>1 DEF RecoverRunItem
      <3>3. ItemClosed(i, "completed", reason)
        BY <3>2, ClosedItem DEF ItemStatuses, TerminalItemStatuses
      <3> QED
        BY <3>1, <3>3 DEF ItemClosed
    <2>3. run' = [run EXCEPT ![r] = IF PendingRunItems(r, statuses) = {}
                                    THEN FinalRunData(r, statuses, run[r].status)
                                    ELSE recounted]
      BY <1>3 DEF RecoverRunItem
    <2>4. CASE PendingRunItems(r, statuses) = {}
      <3>1. PICK row : row = FinalRunData(r, statuses, run[r].status)
        OBVIOUS
      <3>2. row \in RunRow /\ row.status \in TerminalRunStatuses
        <4>1. PICK q, given, seen : q = r /\ given = statuses /\ seen = run[r].status
          OBVIOUS
        <4> QED
          BY <3>1, <4>1, FinalRow
      <3>3. run' = [run EXCEPT ![r] = row]
        BY <2>3, <2>4, <3>1
      <3>4. \A j \in ItemsOf(r) : item'[j].status \notin PendingItemStatuses
        <4> SUFFICES ASSUME NEW j \in ItemsOf(r)
                     PROVE  item'[j].status \notin PendingItemStatuses
          OBVIOUS
        <4>1. CASE j = i
          BY <2>2, <4>1 DEF ItemClosed, PendingItemStatuses
        <4>2. CASE j # i
          <5>1. j \in Items /\ statuses[j] = item[j].status
            BY <4>2 DEF ItemsOf, ItemStatusOf
          <5>2. statuses[j] \notin PendingItemStatuses
            BY <2>4 DEF PendingRunItems
          <5> QED
            BY <2>2, <4>2, <5>1, <5>2 DEF ItemClosed
        <4> QED
          BY <4>1, <4>2
      <3> HIDE DEF statuses
      <3> QED
        BY <1>1, <2>2, <3>2, <3>3, <3>4 DEF RunSettled, ItemClosed
    <2>5. CASE PendingRunItems(r, statuses) # {}
      <3>1. PICK row : row = recounted
        OBVIOUS
      <3>2. row \in RunRow /\ row.status = run[r].status
        <4>1. RunCountsFromItemGroups(r, statuses) \in [Counters -> Nat]
          <5>1. PICK q, given : q = r /\ given = statuses
            OBVIOUS
          <5> QED
            BY <5>1, CountsType
        <4>2. PICK counts \in [Counters -> Nat] : counts = RunCountsFromItemGroups(r, statuses)
          BY <4>1
        <4>3. row = [run[r] EXCEPT !.tally = counts]
          BY <3>1, <4>2
        <4> QED
          BY <1>1, <4>3 DEF RunRow
      <3>3. run' = [run EXCEPT ![r] = row]
        BY <2>3, <2>5, <3>1
      <3> HIDE DEF statuses
      <3> QED
        BY <1>1, <2>2, <3>2, <3>3 DEF RunSettled, ItemClosed
    <2> QED
      BY <2>4, <2>5
  <1> QED
    BY <1>2, <1>3

\* The reconciler finalises the run whose status and items it read, raises its
\* counters, or misses it.
LEMMA SweptRun ==
  ASSUME TypeOK, SweepWrite
  PROVE  /\ run' \in [Runs -> RunRow]
         /\ \A r \in Runs \ {sweep.run} : run'[r] = run[r]
         /\ \/ run'[sweep.run].status = run[sweep.run].status
            \/ /\ run'[sweep.run].status \in TerminalRunStatuses
               /\ run[sweep.run].status = sweep.status
               /\ sweep.status \in ActiveRunStatuses
               /\ PendingRunItems(sweep.run, sweep.groups) = {}
PROOF
  <1>0. PICK r \in Runs : r = sweep.run
    BY DEF TypeOK
  <1>1. PICK seen, groups : r = sweep.run /\ seen = sweep.status /\ groups = sweep.groups
    BY <1>0
  <1> DEFINE counts == RunCountsFromItemGroups(r, groups)
             greatest == GreatestTally(run[r], counts)
             final == FinalizeRankCheckRun(r, run[r], groups, seen)
  <1>2. run \in [Runs -> RunRow]
    BY TypeParts DEF RowTypes
  <1>3. greatest \in RunRow /\ greatest.status = run[r].status
    <2>1. counts \in [Counters -> Nat]
      BY CountsType
    <2>2. run[r].tally \in [Counters -> Nat] /\ run[r] \in RunRow
      BY <1>2 DEF RunRow
    <2> HIDE DEF counts
    <2>3. PICK tally : tally = [c \in Counters |-> IF counts[c] > run[r].tally[c]
                                                   THEN counts[c] ELSE run[r].tally[c]]
      OBVIOUS
    <2>4. tally \in [Counters -> Nat]
      BY <2>1, <2>2, <2>3
    <2>5. greatest = [run[r] EXCEPT !.tally = tally]
      BY <2>3 DEF GreatestTally
    <2> QED
      BY <2>2, <2>4, <2>5 DEF RunRow
  <1>4. /\ final \in RunRow
        /\ \/ final = run[r]
           \/ /\ final.status \in TerminalRunStatuses
              /\ seen \in ActiveRunStatuses /\ run[r].status = seen
              /\ PendingRunItems(r, groups) = {}
    BY <1>2, FinalRow DEF FinalizeRankCheckRun
  <1> HIDE DEF greatest, final
  <1>5. run' = [run EXCEPT ![r] = IF PendingRunItems(r, groups) = {} THEN final
                                  ELSE IF run[r].status = seen THEN greatest
                                  ELSE run[r]]
    BY <1>1 DEF SweepWrite, greatest, final
  <1> QED
    BY <1>1, <1>2, <1>3, <1>4, <1>5

LEMMA MaintenanceTypes ==
  ASSUME TypeOK, MaintenanceStep
  PROVE  TypeOK'
PROOF
  <1>1. RowTypes /\ FlowTypes /\ SideTypes
    BY TypeParts
  <1>2. ASSUME NEW i \in Items, MarkStaleRunningCheck(i)
        PROVE  TypeOK'
    <2>1. [status |-> "failed", attempts |-> 0] \in [status : CheckStatuses, attempts : {0, 1}]
      BY DEF CheckStatuses
    <2>2. task' \in [Items -> TaskStates]
      BY <1>1, <1>2 DEF MarkStaleRunningCheck, RowTypes
    <2>3. RowTypes'
      BY <1>2, <2>1, <2>2, ClosedWith DEF MarkStaleRunningCheck
    <2> QED
      BY <1>2, <2>3, TypeParts, UnchangedTypes DEF MarkStaleRunningCheck
  <1>3. ASSUME NEW i \in Items, PurgeBatch(i)
        PROVE  TypeOK'
    <2>1. task' \in [Items -> TaskStates]
      BY <1>1, <1>3 DEF PurgeBatch, RowTypes, TaskStates
    <2> QED
      BY <1>3, <2>1, TypeParts, UnchangedTypes DEF PurgeBatch
  <1>4. ASSUME NEW i \in Items, RestoreRetainedResult(i)
        PROVE  TypeOK'
    <2>1. FlowTypes'
      BY <1>1, <1>4 DEF RestoreRetainedResult, FlowTypes
    <2>2. CASE UNCHANGED dbvars
      BY <1>4, <2>1, <2>2, TypeParts, UnchangedTypes DEF RestoreRetainedResult
    <2>3. CASE /\ CloseCheck(i, "completed")
               /\ task' = [task EXCEPT ![i] = IF @ = "none" THEN @ ELSE "completed"]
               /\ RecoverRunItem(i)
      <3>1. check' \in [Items -> [status : CheckStatuses, attempts : {0, 1}]]
        BY <1>1, <2>3, ClosedCheck DEF CheckStatuses
      <3>2. task' \in [Items -> TaskStates]
        BY <1>1, <2>3 DEF RowTypes, TaskStates
      <3>3. run' \in [Runs -> RunRow] /\ item' \in [Items -> ItemRow]
        BY <2>3, RecoveredItem DEF RunSettled
      <3>4. RowTypes'
        BY <3>1, <3>2, <3>3 DEF RowTypes
      <3> QED
        BY <1>4, <2>1, <3>4, TypeParts, UnchangedTypes DEF RestoreRetainedResult
    <2> QED
      BY <1>4, <2>2, <2>3 DEF RestoreRetainedResult
  <1>5. ASSUME NEW i \in Items, LoseRetainedResult(i)
        PROVE  TypeOK'
    <2>1. FlowTypes'
      BY <1>1, <1>5 DEF LoseRetainedResult, FlowTypes
    <2> QED
      BY <1>5, <2>1, TypeParts, UnchangedTypes DEF LoseRetainedResult
  <1>6. ASSUME NEW r \in Runs, SweepList(r)
        PROVE  TypeOK'
    <2>1. run[r].status \in RunStatuses /\ NoGroups \in [Items -> ItemStatuses]
      BY <1>1 DEF RowTypes, RunRow, NoGroups, ItemStatuses
    <2>2. sweep' \in SweepRow
      BY <1>6, <2>1 DEF SweepList, SweepRow
    <2> QED
      BY <1>1, <1>6, <2>2, TypeParts, UnchangedTypes DEF SweepList, SideTypes
  <1>7. ASSUME SweepCount
        PROVE  TypeOK'
    <2>1. [i \in Items |-> IF RunOf[i] = sweep.run THEN item[i].status ELSE Absent]
            \in [Items -> ItemStatuses]
      BY <1>1 DEF RowTypes, ItemRow, ItemStatuses
    <2>2. sweep' \in SweepRow
      BY <1>1, <1>7, <2>1 DEF SweepCount, SideTypes, SweepRow
    <2> QED
      BY <1>1, <1>7, <2>2, TypeParts, UnchangedTypes DEF SweepCount, SideTypes
  <1>8. ASSUME SweepWrite
        PROVE  TypeOK'
    <2>1. sweep' \in SweepRow
      BY <1>8, NoSweepType DEF SweepWrite
    <2>2. RowTypes'
      BY <1>1, <1>8, SweptRun DEF SweepWrite, RowTypes
    <2> QED
      BY <1>1, <1>8, <2>1, <2>2, TypeParts, UnchangedTypes DEF SweepWrite, SideTypes
  <1> QED
    BY <1>2, <1>3, <1>4, <1>5, <1>6, <1>7, <1>8 DEF MaintenanceStep

\* What the commit of a cancel command makes of the rows: a planned run is
\* cancelled outright; the open items of a launched one are cancelled if
\* nothing runs for them, and it is cancelling until the last one settles.
LEMMA CommittedCancel ==
  ASSUME TypeOK, NEW r \in Runs, CancelCommit(r)
  PROVE  /\ run' \in [Runs -> RunRow]
         /\ \A q \in Runs \ {r} : run'[q] = run[q]
         /\ item' \in [Items -> ItemRow]
         /\ \A i \in Items :
              \/ item'[i] = item[i]
              \/ /\ RunOf[i] = r
                 /\ item'[i].status = "cancelled" /\ item'[i].reason = item[i].reason
                 /\ item'[i].lease = "none" /\ item'[i].attempts = item[i].attempts
         /\ \/ run' = run
            \/ /\ run[r].status = "planned" /\ item' = item
               /\ run'[r].status = "cancelled"
            \/ run'[r].status = "cancelling"
            \/ /\ run'[r].status \in TerminalRunStatuses
               /\ \A i \in ItemsOf(r) : item'[i].status \notin PendingItemStatuses
PROOF
  <1> DEFINE cancelled == {i \in ItemsOf(r) : Cancellable(i)}
             statuses == [i \in Items |-> IF i \in cancelled THEN "cancelled"
                                                              ELSE item[i].status]
  <1>1. run \in [Runs -> RunRow] /\ item \in [Items -> ItemRow]
    BY TypeParts DEF RowTypes
  <1>2. CASE run[r].status = "planned"
    <2>1. run' = [run EXCEPT ![r].status = "cancelled"] /\ item' = item
      BY <1>2 DEF CancelCommit
    <2>2. [run[r] EXCEPT !.status = "cancelled"] \in RunRow
      BY <1>1 DEF RunRow, RunStatuses
    <2> QED
      BY <1>1, <1>2, <2>1, <2>2 DEF RunRow
  <1>3. CASE run[r].status \in {"blocked", "queued", "running"}
    <2>1. /\ run' = [run EXCEPT ![r] = CancelledRun(r, cancelled)]
          /\ item' = [i \in Items |->
                        IF i \in cancelled
                        THEN [item[i] EXCEPT !.status = "cancelled", !.lease = "none"]
                        ELSE item[i]]
      BY <1>3 DEF CancelCommit
    <2>2. PICK count \in Nat : count = Cardinality(cancelled)
      <3>1. cancelled \in SUBSET Items
        BY DEF ItemsOf
      <3> QED
        BY <3>1, ContractAssumption, FS_Subset, FS_CardinalityType
    <2>3. PICK cancelling : cancelling = [run[r] EXCEPT !.status = "cancelling",
                                                        !.tally["cancelled"] = @ + count]
      OBVIOUS
    <2>4. cancelling \in RunRow /\ cancelling.status = "cancelling"
      <3>1. /\ run[r].status \in RunStatuses
            /\ run[r].outcome \in RunOutcomes \cup {NoOutcome}
            /\ run[r].tally \in [Counters -> Nat]
        BY <1>1 DEF RunRow
      <3>2. PICK tally : tally = [run[r].tally EXCEPT !["cancelled"] = @ + count]
        OBVIOUS
      <3>3. tally \in [Counters -> Nat]
        BY <2>2, <3>1, <3>2 DEF Counters
      <3>4. cancelling = [status |-> "cancelling", outcome |-> run[r].outcome, tally |-> tally]
        BY <1>1, <2>3, <3>2 DEF RunRow
      <3> QED
        BY <3>1, <3>3, <3>4 DEF RunRow, RunStatuses
    <2>5. CancelledRun(r, cancelled) = FinalizeRankCheckRun(r, cancelling, statuses, "cancelling")
      BY <2>2, <2>3 DEF CancelledRun
    <2>6. PICK row : row = FinalizeRankCheckRun(r, cancelling, statuses, "cancelling")
      OBVIOUS
    <2>7. /\ row \in RunRow
          /\ \/ row = cancelling
             \/ row.status \in TerminalRunStatuses /\ PendingRunItems(r, statuses) = {}
      <3>1. PICK given, seen : given = statuses /\ seen = "cancelling"
        OBVIOUS
      <3> QED
        BY <2>4, <2>6, <3>1, FinalizedRow
    <2>8. run' = [run EXCEPT ![r] = row]
      BY <2>1, <2>5, <2>6
    <2>9. \A i \in Items :
            /\ item'[i] \in ItemRow
            /\ IF i \in cancelled
               THEN item'[i] = [item[i] EXCEPT !.status = "cancelled", !.lease = "none"]
               ELSE item'[i] = item[i]
      BY <1>1, <2>1 DEF ItemRow, ItemStatuses, TerminalItemStatuses, Leases
    <2>10. item' \in [Items -> ItemRow]
      BY <2>1, <2>9
    <2>11. \A i \in Items : item'[i].status = statuses[i]
      BY <1>1, <2>9 DEF ItemRow
    <2>12. \A i \in Items :
             \/ item'[i] = item[i]
             \/ /\ RunOf[i] = r
                /\ item'[i].status = "cancelled" /\ item'[i].reason = item[i].reason
                /\ item'[i].lease = "none" /\ item'[i].attempts = item[i].attempts
      BY <1>1, <2>9 DEF ItemRow, ItemsOf
    <2> HIDE DEF statuses
    <2>13. PendingRunItems(r, statuses) = {} =>
             \A i \in ItemsOf(r) : item'[i].status \notin PendingItemStatuses
      BY <2>11 DEF PendingRunItems, ItemsOf
    <2> QED
      BY <1>1, <2>4, <2>7, <2>8, <2>10, <2>12, <2>13
  <1>4. CASE run[r].status \in {"cancelling", "completed", "cancelled"}
    BY <1>1, <1>4 DEF CancelCommit
  <1> QED
    BY <1>1, <1>2, <1>3, <1>4 DEF RunRow, RunStatuses

LEMMA CancelTypes ==
  ASSUME TypeOK, NEW r \in Runs, CancelStep(r)
  PROVE  TypeOK'
PROOF
  <1>1. RowTypes /\ FlowTypes /\ SideTypes
    BY TypeParts
  <1>2. ASSUME NEW pc \in {"idle", "read", "close"}, NEW list \in SUBSET Items, NEW used \in Nat,
               cancel' = [cancel EXCEPT ![r].pc = pc, ![r].list = list, ![r].used = used]
        PROVE  cancel' \in [Runs -> CancelRow]
    <2>1. cancel \in [Runs -> CancelRow]
      BY <1>1 DEF SideTypes
    <2>2. \A q \in Runs \ {r} : cancel'[q] = cancel[q]
      BY <1>2, <2>1
    <2>3. cancel'[r] = [pc |-> pc, list |-> list, used |-> used]
      BY <1>2, <2>1 DEF CancelRow
    <2>4. cancel' = [q \in Runs |-> cancel'[q]]
      BY <1>2, <2>1
    <2> QED
      BY <2>1, <2>2, <2>3, <2>4 DEF CancelRow
  <1>3. /\ cancel[r].pc \in {"idle", "read", "close"}
        /\ cancel[r].list \in SUBSET Items
        /\ cancel[r].used \in Nat
    BY <1>1 DEF SideTypes, CancelRow
  <1>4. ASSUME CancelRead(r)
        PROVE  TypeOK'
    <2>1. PICK list \in SUBSET Items : list = LinkedRunning(r)
      BY DEF LinkedRunning, ItemsOf
    <2>2. PICK pc \in {"idle", "read", "close"} :
            pc = IF run[r].status \in {"cancelled", "cancelling"}
                 THEN IF LinkedRunning(r) = {} THEN "idle" ELSE "close"
                 ELSE "read"
      OBVIOUS
    <2>3. PICK used \in Nat : used = cancel[r].used + 1
      BY <1>3
    <2>4. cancel' = [cancel EXCEPT ![r].pc = pc, ![r].list = list, ![r].used = used]
      BY <1>1, <1>4, <2>1, <2>2, <2>3 DEF CancelRead, SideTypes, CancelRow
    <2>5. cancel' \in [Runs -> CancelRow]
      BY <1>2, <2>4
    <2> QED
      BY <1>1, <1>4, <2>5, TypeParts, UnchangedTypes DEF CancelRead, SideTypes
  <1>5. ASSUME CancelCommit(r)
        PROVE  TypeOK'
    <2>1. cancel' \in [Runs -> CancelRow]
      <3>1. PICK pc \in {"idle", "close"} : pc = IF cancel[r].list = {} THEN "idle" ELSE "close"
        OBVIOUS
      <3>2. \/ cancel' = [cancel EXCEPT ![r].pc = pc]
            \/ cancel' = [cancel EXCEPT ![r].pc = "idle", ![r].list = {}]
        BY <1>5, <3>1 DEF CancelCommit
      <3> QED
        BY <1>1, <3>2 DEF SideTypes, CancelRow
    <2>2. run' \in [Runs -> RunRow] /\ item' \in [Items -> ItemRow]
      BY <1>5, CommittedCancel
    <2>3. task' \in [Items -> TaskStates]
      BY <1>1, <1>5 DEF CancelCommit, RowTypes, TaskStates
    <2> QED
      BY <1>1, <1>5, <2>1, <2>2, <2>3, TypeParts, UnchangedTypes
         DEF CancelCommit, RowTypes, SideTypes
  <1>6. ASSUME NEW i \in Items, CloseRankCheckAsCancelled(r, i)
        PROVE  TypeOK'
    <2>1. cancel' \in [Runs -> CancelRow]
      <3>1. PICK pc \in {"idle", "close"} : pc = IF cancel[r].list = {i} THEN "idle" ELSE "close"
        OBVIOUS
      <3>2. PICK left : left = cancel[r].list \ {i}
        OBVIOUS
      <3>3. cancel' = [cancel EXCEPT ![r].list = left, ![r].pc = pc]
        BY <1>6, <3>1, <3>2 DEF CloseRankCheckAsCancelled
      <3>4. left \in SUBSET Items
        BY <1>1, <3>2 DEF SideTypes, CancelRow
      <3> QED
        BY <1>1, <3>3, <3>4 DEF SideTypes, CancelRow
    <2>2. flow' \in [Items -> FlowStates]
      BY <1>1, <1>6 DEF CloseRankCheckAsCancelled, FlowTypes, FlowStates
    <2>3. check' \in [Items -> [status : CheckStatuses, attempts : {0, 1}]]
      <3>1. CloseCheck(i, "failed") \/ check' = check
        BY <1>6 DEF CloseRankCheckAsCancelled
      <3> QED
        BY <1>1, <3>1, ClosedCheck DEF CheckStatuses, RowTypes
    <2>4. run' \in [Runs -> RunRow] /\ item' \in [Items -> ItemRow]
      <3>1. \/ \E s \in ActiveRunStatuses : SettleItem(i, "cancelled", "none", "cancelled", s)
            \/ run' = run /\ item' = item
        BY <1>6 DEF CloseRankCheckAsCancelled
      <3> QED
        BY <1>1, <3>1, SettledRows DEF TerminalItemStatuses, Reasons, Counters, RowTypes
    <2> QED
      BY <1>1, <1>6, <2>1, <2>2, <2>3, <2>4, TypeParts
         DEF CloseRankCheckAsCancelled, RowTypes, FlowTypes, SideTypes
  <1>7. ASSUME CancelCrash(r)
        PROVE  TypeOK'
    <2>1. cancel' \in [Runs -> CancelRow]
      BY <1>1, <1>7 DEF CancelCrash, SideTypes, CancelRow
    <2> QED
      BY <1>1, <1>7, <2>1, TypeParts, UnchangedTypes DEF CancelCrash, SideTypes
  <1> QED
    BY <1>4, <1>5, <1>6, <1>7 DEF CancelStep

LEMMA StepTypes == TypeOK /\ [Next]_vars => TypeOK'
PROOF
  <1> SUFFICES ASSUME TypeOK, [Next]_vars PROVE TypeOK'
    OBVIOUS
  <1>1. CASE PlannerStep
    BY <1>1, PlannerTypes
  <1>2. ASSUME NEW i \in Items, WorkflowStep(i) PROVE TypeOK'
    BY <1>2, WorkflowTypes
  <1>3. ASSUME NEW i \in Items, NEW n \in Tries, AttemptStep(i, n) PROVE TypeOK'
    BY <1>3, AttemptTypes
  <1>4. ASSUME NEW i \in Items, DispatcherStep(i) PROVE TypeOK'
    BY <1>4, DispatcherTypes
  <1>5. ASSUME NEW i \in Items, BatchStep(i) PROVE TypeOK'
    BY <1>5, BatchTypes
  <1>6. CASE MaintenanceStep
    BY <1>6, MaintenanceTypes
  <1>7. ASSUME NEW r \in Runs, CancelStep(r) PROVE TypeOK'
    BY <1>7, CancelTypes
  <1>8. CASE UNCHANGED vars
    BY <1>8, TypeParts, UnchangedTypes DEF vars
  <1> QED
    BY <1>1, <1>2, <1>3, <1>4, <1>5, <1>6, <1>7, <1>8 DEF Next

\* Whatever the number of runs, items, claims, tries and cancel commands, every
\* row, attempt and command stays in its type: no counter goes below zero and no
\* action writes a state its reader does not know.
THEOREM TypeCorrect == Spec => []TypeOK
PROOF
  <1>1. Init => TypeOK
    BY InitTypes
  <1>2. TypeOK /\ [Next]_vars => TypeOK'
    BY StepTypes
  <1> QED
    BY <1>1, <1>2, PTL DEF Spec

-----------------------------------------------------------------------------
(***************************************************************************)
(* Two proofs for every instance of RankCheckRuns: a finished run has no   *)
(* queued or running item, and no keyword is checked twice at a time.      *)
(*                                                                         *)
(* The first property alone is not inductive.  The reconciler finalises a  *)
(* run from item statuses it read some statements earlier, so the          *)
(* invariant has to say that what it read is still good for that decision; *)
(* and a planned run is closed without a look at its items, so it must     *)
(* have none that wait.  The second one is inductive with the types.       *)
(***************************************************************************)

UnlaunchedRunStatuses == {"planned", "blocked"}

\* An item waits or runs only in a run that is launched and not over.
OpenItemsInActiveRuns ==
  \A i \in Items : item[i].status \in PendingItemStatuses =>
                     RunStatusOf(i) \in ActiveRunStatuses

\* The reconciler that listed an active run works on a launched one, and every
\* item of it that is open now was open when it counted.
SweepReadsHold ==
  sweep.pc # "idle" /\ sweep.status \in ActiveRunStatuses =>
    /\ run[sweep.run].status \notin UnlaunchedRunStatuses
    /\ sweep.pc = "counted" =>
         \A i \in ItemsOf(sweep.run) : item[i].status \in PendingItemStatuses =>
                                         sweep.groups[i] \in PendingItemStatuses

SettledInv == TypeOK /\ OpenItemsInActiveRuns /\ SweepReadsHold

\* What all steps but a launch and the reconciler's own do to runs and items:
\* no item opens, no run goes back to the planner, and a run that stops being
\* active has no open item left.
Quiet ==
  /\ \A i \in Items : item'[i].status \in PendingItemStatuses =>
                        item[i].status \in PendingItemStatuses
  /\ \A r \in Runs : run'[r].status \in UnlaunchedRunStatuses =>
                       run[r].status \in UnlaunchedRunStatuses
  /\ \A r \in Runs : \/ run'[r].status \in ActiveRunStatuses
                     \/ run[r].status \notin ActiveRunStatuses
                     \/ \A i \in ItemsOf(r) : item'[i].status \notin PendingItemStatuses

-----------------------------------------------------------------------------
LEMMA QuietSteps ==
  ASSUME SettledInv, Quiet
  PROVE  /\ OpenItemsInActiveRuns'
         /\ sweep' = sweep => SweepReadsHold'
PROOF
  <1>1. RunOf \in [Items -> Runs]
    BY ContractAssumption
  <1>2. OpenItemsInActiveRuns'
    BY <1>1 DEF SettledInv, OpenItemsInActiveRuns, Quiet, RunStatusOf, ItemsOf
  <1>3. ASSUME sweep' = sweep
        PROVE  SweepReadsHold'
    <2>1. sweep.run \in Runs
      BY DEF SettledInv, TypeOK
    <2> QED
      BY <1>3, <2>1 DEF SettledInv, SweepReadsHold, Quiet, ItemsOf
  <1> QED
    BY <1>2, <1>3

\* Closing one item and settling its run is quiet.
LEMMA QuietSettling ==
  ASSUME TypeOK, NEW i \in Items,
         \/ item' = item
         \/ \E status \in TerminalItemStatuses : \E reason : ItemClosed(i, status, reason),
         run' = run \/ RunSettled(i)
  PROVE  Quiet
PROOF
  <1>1. RunOf[i] \in Runs
    BY ContractAssumption
  <1>2. \A j \in Items : item'[j].status \in PendingItemStatuses =>
                           item[j].status \in PendingItemStatuses
    <2>1. CASE item' = item
      BY <2>1
    <2>2. ASSUME NEW status \in TerminalItemStatuses, NEW reason,
                 ItemClosed(i, status, reason)
          PROVE  \A j \in Items : item'[j].status \in PendingItemStatuses =>
                                   item[j].status \in PendingItemStatuses
      BY <2>2 DEF ItemClosed, TerminalItemStatuses, PendingItemStatuses
    <2> QED
      BY <2>1, <2>2
  <1>3. CASE run' = run
    BY <1>2, <1>3 DEF Quiet
  <1>4. CASE RunSettled(i)
    <2>1. \A r \in Runs \ {RunOf[i]} : run'[r].status = run[r].status
      BY <1>4 DEF RunSettled
    <2>2. \/ run'[RunOf[i]].status = run[RunOf[i]].status
          \/ /\ run'[RunOf[i]].status \notin UnlaunchedRunStatuses
             /\ \A j \in ItemsOf(RunOf[i]) : item'[j].status \notin PendingItemStatuses
      BY <1>4 DEF RunSettled, TerminalRunStatuses, UnlaunchedRunStatuses
    <2> QED
      BY <1>1, <1>2, <2>1, <2>2 DEF Quiet
  <1> QED
    BY <1>3, <1>4

LEMMA QuietSettle ==
  ASSUME TypeOK, NEW i \in Items, NEW status \in TerminalItemStatuses,
         NEW reason \in Reasons, NEW counter \in Counters, NEW seen,
         SettleItem(i, status, reason, counter, seen)
  PROVE  Quiet
PROOF
  BY SettledItem, QuietSettling

LEMMA QuietApply ==
  ASSUME TypeOK, NEW i \in Items, NEW to \in {"completed", "failed", "deferred"},
         ApplyRunItemTransition(i, to)
  PROVE  Quiet
PROOF
  BY AppliedTransition, QuietSettling DEF TerminalItemStatuses

LEMMA QuietStutter ==
  ASSUME UNCHANGED <<run, item>>
  PROVE  Quiet
PROOF
  BY DEF Quiet

-----------------------------------------------------------------------------
(* Each actor's steps are quiet, but for the launch and the reconciler's.  *)

LEMMA QuietWorkflow ==
  ASSUME TypeOK, NEW i \in Items, WorkflowStep(i)
  PROVE  Quiet /\ sweep' = sweep
PROOF
  <1>1. CASE StartRunItem(i) \/ CreateHitsBusyKeyword(i) \/ RetryAfterBusyKeyword(i)
             \/ CreateGivesUp(i) \/ ClosingActivityLost(i)
    BY <1>1, QuietStutter
       DEF StartRunItem, CreateHitsBusyKeyword, RetryAfterBusyKeyword, CreateGivesUp,
           ClosingActivityLost, dbvars
  <1>2. CASE CreateRunningRankCheck(i)
    <2>1. \A j \in Items : item'[j].status \in PendingItemStatuses =>
                             item[j].status \in PendingItemStatuses
      BY <1>2 DEF CreateRunningRankCheck, PendingItemStatuses, TypeOK
    <2>2. /\ \A r \in Runs \ {RunOf[i]} : run'[r] = run[r]
          /\ run'[RunOf[i]].status = IF run[RunOf[i]].status = "queued" THEN "running"
                                     ELSE run[RunOf[i]].status
      BY <1>2, StartedRun, TypeParts, ContractAssumption DEF CreateRunningRankCheck
    <2> QED
      BY <1>2, <2>1, <2>2, ContractAssumption
         DEF Quiet, UnlaunchedRunStatuses, ActiveRunStatuses, CreateRunningRankCheck
  <1>3. CASE DeferRunItemForBusyKeyword(i)
    BY <1>3, QuietSettle
       DEF DeferRunItemForBusyKeyword, TerminalItemStatuses, Reasons, Counters
  <1>4. CASE FailRankCheck(i) \/ DiscardRankCheck(i)
    BY <1>4, QuietApply, QuietStutter DEF FailRankCheck, DiscardRankCheck
  <1> QED
    BY <1>1, <1>2, <1>3, <1>4 DEF WorkflowStep

LEMMA QuietAttempt ==
  ASSUME TypeOK, NEW i \in Items, NEW n \in Tries, AttemptStep(i, n)
  PROVE  Quiet /\ sweep' = sweep
PROOF
  <1>1. CASE ClaimPaidCall(i, n) \/ SendPaidCall(i, n) \/ RetainRankResult(i, n)
             \/ AttemptTimesOut(i, n) \/ PaidCallFails(i, n)
    <2>1. UNCHANGED <<run, item>> /\ sweep' = sweep
      BY <1>1 DEF ClaimPaidCall, SendPaidCall, RetainRankResult, AttemptTimesOut,
                  PaidCallFails, dbvars
    <2> QED
      BY <2>1, QuietStutter
  <1>2. CASE StopUnrunnable(i, n)
    <2>1. \/ \E s \in ActiveRunStatuses :
               SettleItem(i, "cancelled", "unrunnable", "cancelled", s)
          \/ UNCHANGED <<run, item>>
      BY <1>2 DEF StopUnrunnable
    <2>2. Quiet
      BY <2>1, QuietSettle, QuietStutter DEF TerminalItemStatuses, Reasons, Counters
    <2> QED
      BY <1>2, <2>2 DEF StopUnrunnable
  <1>3. CASE LosePaidCall(i, n)
    <2>1. item' = item \/ item' = Closed(i, "blocked", "send_unconfirmed")
      BY <1>3 DEF LosePaidCall
    <2>2. \/ item' = item
          \/ \E status \in TerminalItemStatuses : \E reason : ItemClosed(i, status, reason)
      BY <2>1, ClosedItem DEF TerminalItemStatuses, ItemStatuses, Reasons
    <2>3. run' = run /\ sweep' = sweep
      BY <1>3 DEF LosePaidCall
    <2> QED
      BY <2>2, <2>3, QuietSettling
  <1>4. CASE FinalizeAfterLostCall(i, n)
    <2>1. PICK s \in ActiveRunStatuses :
            run' = [run EXCEPT ![RunOf[i]] =
                      FinalizeRankCheckRun(RunOf[i], run[RunOf[i]], ItemStatusOf, s)]
      BY <1>4 DEF FinalizeAfterLostCall
    <2>2. PICK r \in Runs : r = RunOf[i]
      BY ContractAssumption
    <2>3. PICK statuses : statuses = ItemStatusOf
      OBVIOUS
    <2>4. PICK row \in RunRow : row = run[r]
      BY <2>2 DEF TypeOK, RunRow
    <2>5. PICK after : after = FinalizeRankCheckRun(r, row, statuses, s)
      OBVIOUS
    <2>6. /\ after \in RunRow
          /\ \/ after = row
             \/ after.status \in TerminalRunStatuses /\ PendingRunItems(r, statuses) = {}
      BY <2>5, FinalizedRow
    <2>7. run' = [run EXCEPT ![r] = after] /\ item' = item /\ sweep' = sweep
      BY <1>4, <2>1, <2>2, <2>3, <2>4, <2>5 DEF FinalizeAfterLostCall
    <2>8. PendingRunItems(r, statuses) = {} =>
            \A j \in ItemsOf(r) : item[j].status \notin PendingItemStatuses
      BY <2>3 DEF PendingRunItems, ItemStatusOf, ItemsOf
    <2>9. RunSettled(i)
      BY <2>2, <2>4, <2>6, <2>7, <2>8 DEF RunSettled, TypeOK, RunRow
    <2> QED
      BY <2>7, <2>9, QuietSettling
  <1>5. CASE PersistRankCheck(i, n)
    BY <1>5, QuietApply, QuietStutter DEF PersistRankCheck
  <1> QED
    BY <1>1, <1>2, <1>3, <1>4, <1>5 DEF AttemptStep

LEMMA QuietDispatcher ==
  ASSUME TypeOK, NEW i \in Items, DispatcherStep(i)
  PROVE  Quiet /\ sweep' = sweep
PROOF
  <1>1. CASE CancelUnrunnableCandidate(i)
    BY <1>1, QuietSettle
       DEF CancelUnrunnableCandidate, TerminalItemStatuses, Reasons, Counters
  <1>2. CASE BlockClaimLost(i)
    BY <1>2, QuietSettle DEF BlockClaimLost, TerminalItemStatuses, Reasons, Counters
  <1>3. CASE Claim(i)
    <2>1. \A j \in Items : item'[j].status \in PendingItemStatuses =>
                             item[j].status \in PendingItemStatuses
      BY <1>3 DEF Claim, Candidate, DueQueued, ClaimExpired, PendingItemStatuses, TypeOK
    <2>2. /\ \A r \in Runs \ {RunOf[i]} : run'[r] = run[r]
          /\ run'[RunOf[i]].status = IF run[RunOf[i]].status = "queued" THEN "running"
                                     ELSE run[RunOf[i]].status
      BY <1>3, StartedRun, TypeParts, ContractAssumption DEF Claim
    <2> QED
      BY <1>3, <2>1, <2>2, ContractAssumption
         DEF Quiet, UnlaunchedRunStatuses, ActiveRunStatuses, Claim
  <1>4. CASE ExpireLease(i)
    <2>1. \A j \in Items : item'[j].status = item[j].status
      BY <1>4 DEF ExpireLease, TypeOK
    <2> QED
      BY <1>4, <2>1 DEF Quiet, ExpireLease
  <1> QED
    BY <1>1, <1>2, <1>3, <1>4 DEF DispatcherStep, ClaimQueued, ReclaimExpired

LEMMA QuietBatch ==
  ASSUME TypeOK, NEW i \in Items, BatchStep(i)
  PROVE  Quiet /\ sweep' = sweep
PROOF
  <1>1. CASE PrepareBatch(i)
    <2>1. \A j \in Items : item'[j].status = item[j].status
      BY <1>1 DEF PrepareBatch, TypeOK
    <2> QED
      BY <1>1, <2>1 DEF Quiet, PrepareBatch
  <1>2. CASE PrepareDeferredBatch(i)
    BY <1>2, QuietApply DEF PrepareDeferredBatch
  <1>3. CASE SubmitBatch(i) \/ RetainBatchResult(i)
    BY <1>3, QuietStutter DEF SubmitBatch, RetainBatchResult, dbvars
  <1>4. ASSUME NEW verdict \in {"completed", "failed", "deferred"}, SettleTask(i, verdict)
        PROVE  Quiet
    BY <1>4, QuietApply, QuietStutter DEF SettleTask
  <1>5. CASE PersistBatchResult(i)
    BY <1>4, <1>5 DEF PersistBatchResult
  <1>6. CASE DeferBatch(i)
    BY <1>4, <1>6 DEF DeferBatch
  <1> QED
    BY <1>1, <1>2, <1>3, <1>5, <1>6 DEF BatchStep

LEMMA QuietCancel ==
  ASSUME TypeOK, NEW r \in Runs, CancelStep(r)
  PROVE  Quiet /\ sweep' = sweep
PROOF
  <1>1. CASE CancelRead(r) \/ CancelCrash(r)
    BY <1>1, QuietStutter DEF CancelRead, CancelCrash, dbvars
  <1>2. CASE CancelCommit(r)
    <2>1. \A i \in Items : item'[i].status \in PendingItemStatuses =>
                             item[i].status \in PendingItemStatuses
      <3>1. \A i \in Items : item'[i] = item[i] \/ item'[i].status = "cancelled"
        BY <1>2, CommittedCancel
      <3> QED
        BY <3>1 DEF PendingItemStatuses
    <2>2. \A q \in Runs \ {r} : run'[q] = run[q]
      BY <1>2, CommittedCancel
    <2>3. \/ run' = run
          \/ run[r].status = "planned" /\ run'[r].status = "cancelled"
          \/ run'[r].status = "cancelling"
          \/ /\ run'[r].status \in TerminalRunStatuses
             /\ \A i \in ItemsOf(r) : item'[i].status \notin PendingItemStatuses
      BY <1>2, CommittedCancel
    <2>4. Quiet
      BY <2>1, <2>2, <2>3
         DEF Quiet, UnlaunchedRunStatuses, ActiveRunStatuses, TerminalRunStatuses
    <2> QED
      BY <1>2, <2>4 DEF CancelCommit
  <1>3. ASSUME NEW i \in Items, CloseRankCheckAsCancelled(r, i)
        PROVE  Quiet /\ sweep' = sweep
    <2>1. \/ \E s \in ActiveRunStatuses : SettleItem(i, "cancelled", "none", "cancelled", s)
          \/ UNCHANGED <<run, item>>
      BY <1>3 DEF CloseRankCheckAsCancelled
    <2>2. Quiet
      BY <2>1, QuietSettle, QuietStutter DEF TerminalItemStatuses, Reasons, Counters
    <2> QED
      BY <1>3, <2>2 DEF CloseRankCheckAsCancelled
  <1> QED
    BY <1>1, <1>2, <1>3 DEF CancelStep

\* A launch opens items, but of a run that the reconciler did not list as active.
LEMMA SettledPlanner ==
  ASSUME SettledInv, PlannerStep
  PROVE  OpenItemsInActiveRuns' /\ SweepReadsHold'
PROOF
  <1>1. TypeOK
    BY DEF SettledInv
  <1>2. ASSUME NEW r \in Runs, LaunchPlannedRun(r)
        PROVE  OpenItemsInActiveRuns' /\ SweepReadsHold'
    <2>1. run[r].status \in UnlaunchedRunStatuses /\ sweep' = sweep
      BY <1>2 DEF LaunchPlannedRun, UnlaunchedRunStatuses
    <2>2. \A i \in ItemsOf(r) : item[i].status \notin PendingItemStatuses
      BY <2>1 DEF SettledInv, OpenItemsInActiveRuns, RunStatusOf, ItemsOf,
                  UnlaunchedRunStatuses, ActiveRunStatuses
    <2>3. /\ \A q \in Runs \ {r} : run'[q] = run[q]
          /\ \/ run'[r].status = "completed" /\ item' = item
             \/ /\ run'[r].status = "queued"
                /\ \A i \in Items : item'[i] = item[i] \/ RunOf[i] = r
      BY <1>1, <1>2, Launched
    <2>4. RunOf \in [Items -> Runs] /\ sweep.run \in Runs
      BY <1>1, ContractAssumption DEF TypeOK
    <2>5. OpenItemsInActiveRuns'
      BY <2>2, <2>3, <2>4
         DEF SettledInv, OpenItemsInActiveRuns, RunStatusOf, ItemsOf, ActiveRunStatuses
    <2>6. SweepReadsHold'
      <3> SUFFICES ASSUME sweep.pc # "idle", sweep.status \in ActiveRunStatuses
                   PROVE  SweepReadsHold'
        BY <2>1 DEF SweepReadsHold
      <3>1. sweep.run # r
        BY <2>1 DEF SettledInv, SweepReadsHold
      <3> QED
        BY <2>1, <2>3, <2>4, <3>1 DEF SettledInv, SweepReadsHold, ItemsOf
    <2> QED
      BY <2>5, <2>6
  <1>3. ASSUME NEW r \in Runs, BlockPlannedRun(r) \/ ExpireBlockedRun(r) \/ SkipPlannedRun(r)
        PROVE  Quiet /\ sweep' = sweep
    <2>1. /\ run[r].status \in UnlaunchedRunStatuses
          /\ \A q \in Runs \ {r} : run'[q] = run[q]
          /\ item' = item /\ sweep' = sweep
      BY <1>1, <1>3
         DEF BlockPlannedRun, ExpireBlockedRun, SkipPlannedRun, SetRun, TypeOK,
             UnlaunchedRunStatuses
    <2> QED
      BY <2>1 DEF Quiet, UnlaunchedRunStatuses, ActiveRunStatuses
  <1>4. ASSUME NEW k \in Keywords, PauseKeyword(k)
        PROVE  Quiet /\ sweep' = sweep
    BY <1>4, QuietStutter DEF PauseKeyword, dbvars
  <1> QED
    BY <1>2, <1>3, <1>4, QuietSteps DEF PlannerStep

\* The reconciler finalises only what its reads allow.
LEMMA SettledMaintenance ==
  ASSUME SettledInv, MaintenanceStep
  PROVE  OpenItemsInActiveRuns' /\ SweepReadsHold'
PROOF
  <1>1. TypeOK /\ OpenItemsInActiveRuns /\ SweepReadsHold
    BY DEF SettledInv
  <1>2. ASSUME NEW i \in Items,
               MarkStaleRunningCheck(i) \/ PurgeBatch(i) \/ LoseRetainedResult(i)
        PROVE  Quiet /\ sweep' = sweep
    BY <1>1, <1>2, QuietApply, QuietStutter
       DEF MarkStaleRunningCheck, PurgeBatch, LoseRetainedResult, dbvars
  <1>3. ASSUME NEW i \in Items, RestoreRetainedResult(i)
        PROVE  Quiet /\ sweep' = sweep
    <2>1. RecoverRunItem(i) \/ UNCHANGED <<run, item>>
      BY <1>3 DEF RestoreRetainedResult, dbvars
    <2>2. RecoverRunItem(i) => Quiet
      BY <1>1, RecoveredItem, QuietSettling DEF TerminalItemStatuses
    <2> QED
      BY <1>3, <2>1, <2>2, QuietStutter DEF RestoreRetainedResult
  <1>4. ASSUME NEW r \in Runs, SweepList(r)
        PROVE  OpenItemsInActiveRuns' /\ SweepReadsHold'
    <2>1. UNCHANGED <<run, item>> /\ sweep'.pc = "listed" /\ sweep'.run = r
          /\ sweep'.status = run[r].status
      BY <1>4 DEF SweepList, dbvars
    <2> QED
      BY <1>1, <2>1 DEF OpenItemsInActiveRuns, RunStatusOf, SweepReadsHold,
                        ActiveRunStatuses, UnlaunchedRunStatuses
  <1>5. ASSUME SweepCount
        PROVE  OpenItemsInActiveRuns' /\ SweepReadsHold'
    <2>1. /\ UNCHANGED <<run, item>> /\ sweep.pc = "listed"
          /\ sweep'.run = sweep.run /\ sweep'.status = sweep.status
          /\ \A i \in ItemsOf(sweep.run) : sweep'.groups[i] = item[i].status
      BY <1>1, <1>5 DEF SweepCount, dbvars, TypeOK, ItemsOf
    <2> QED
      BY <1>1, <2>1 DEF OpenItemsInActiveRuns, RunStatusOf, SweepReadsHold
  <1>6. ASSUME SweepWrite
        PROVE  OpenItemsInActiveRuns' /\ SweepReadsHold'
    <2>1. sweep.pc = "counted" /\ item' = item /\ sweep'.pc = "idle"
      BY <1>6 DEF SweepWrite, NoSweep
    <2>2. Quiet
      <3>1. \A r \in Runs \ {sweep.run} : run'[r] = run[r]
        BY <1>1, <1>6, SweptRun
      <3>2. CASE run'[sweep.run].status = run[sweep.run].status
        BY <2>1, <3>1, <3>2 DEF Quiet
      <3>3. CASE /\ run'[sweep.run].status \in TerminalRunStatuses
                 /\ sweep.status \in ActiveRunStatuses
                 /\ PendingRunItems(sweep.run, sweep.groups) = {}
        <4>1. \A i \in ItemsOf(sweep.run) : item[i].status \notin PendingItemStatuses
          BY <1>1, <2>1, <3>3 DEF SweepReadsHold, PendingRunItems
        <4> QED
          BY <2>1, <3>1, <3>3, <4>1 DEF Quiet, TerminalRunStatuses, UnlaunchedRunStatuses
      <3> QED
        BY <1>1, <1>6, <3>2, <3>3, SweptRun
    <2>3. SweepReadsHold'
      BY <2>1 DEF SweepReadsHold
    <2> QED
      BY <2>2, <2>3, QuietSteps
  <1> QED
    BY <1>2, <1>3, <1>4, <1>5, <1>6, QuietSteps DEF MaintenanceStep

-----------------------------------------------------------------------------
LEMMA SettledInit == Init => SettledInv
PROOF
  <1> SUFFICES ASSUME Init PROVE OpenItemsInActiveRuns /\ SweepReadsHold
    BY InitTypes DEF SettledInv
  <1>1. OpenItemsInActiveRuns
    BY ContractAssumption
       DEF Init, OpenItemsInActiveRuns, RunStatusOf, PendingItemStatuses,
           ActiveRunStatuses, Absent
  <1>2. SweepReadsHold
    BY DEF Init, NoSweep, SweepReadsHold
  <1> QED
    BY <1>1, <1>2

LEMMA SettledStep == SettledInv /\ [Next]_vars => SettledInv'
PROOF
  <1> SUFFICES ASSUME SettledInv, [Next]_vars
               PROVE  OpenItemsInActiveRuns' /\ SweepReadsHold'
    BY StepTypes DEF SettledInv
  <1>1. TypeOK
    BY DEF SettledInv
  <1>2. CASE PlannerStep
    BY <1>2, SettledPlanner
  <1>3. CASE MaintenanceStep
    BY <1>3, SettledMaintenance
  <1>4. ASSUME NEW i \in Items, WorkflowStep(i) \/ DispatcherStep(i) \/ BatchStep(i)
        PROVE  Quiet /\ sweep' = sweep
    BY <1>1, <1>4, QuietWorkflow, QuietDispatcher, QuietBatch
  <1>5. ASSUME NEW i \in Items, NEW n \in Tries, AttemptStep(i, n)
        PROVE  Quiet /\ sweep' = sweep
    BY <1>1, <1>5, QuietAttempt
  <1>6. ASSUME NEW r \in Runs, CancelStep(r)
        PROVE  Quiet /\ sweep' = sweep
    BY <1>1, <1>6, QuietCancel
  <1>7. CASE UNCHANGED vars
    BY <1>7, QuietStutter, QuietSteps DEF vars, dbvars
  <1> QED
    BY <1>2, <1>3, <1>4, <1>5, <1>6, <1>7, QuietSteps DEF Next

LEMMA SettledInvariant == Spec => []SettledInv
PROOF
  BY SettledInit, SettledStep, PTL DEF Spec

\* A run is never closed over unfinished work: settlements, cancel commands and
\* a reconciler that finalises from an old read may interleave in any way, in
\* any number of runs and items, and a finished run still has no queued or
\* running target (finalize.ts, reconcile.ts).
THEOREM FinishedRunsAreSettled == Spec => []TerminalRunSettled
PROOF
  <1>1. SettledInv => TerminalRunSettled
    BY DEF SettledInv, OpenItemsInActiveRuns, TerminalRunSettled, TerminalRunStatuses,
           ActiveRunStatuses
  <1> QED
    BY <1>1, SettledInvariant, PTL

-----------------------------------------------------------------------------
(* One check per keyword at a time.  Two engines start items: the workflow *)
(* of a manual run and the claims of the dispatcher.  Both look for        *)
(* another running item of the keyword in the transaction that starts      *)
(* theirs; all other steps start nothing, so the property is inductive     *)
(* together with the types.                                                *)

\* What all steps but those two do: no item starts running.
NothingStarts ==
  \A i \in Items : item'[i].status = "running" => item[i].status = "running"

\* What those two do: item i alone starts, on a keyword that nobody checks.
StartsAlone(i) ==
  /\ ~KeywordBusy(i)
  /\ \A j \in Items \ {i} : item'[j] = item[j]

KeywordInv == TypeOK /\ OneRunningItemPerKeyword

-----------------------------------------------------------------------------
LEMMA NothingStartsSteps ==
  ASSUME OneRunningItemPerKeyword, NothingStarts
  PROVE  OneRunningItemPerKeyword'
PROOF
  BY DEF OneRunningItemPerKeyword, NothingStarts

LEMMA StartsAloneSteps ==
  ASSUME OneRunningItemPerKeyword, NEW i \in Items, StartsAlone(i)
  PROVE  OneRunningItemPerKeyword'
PROOF
  <1>1. \A j \in Items \ {i} : KeywordOf[j] = KeywordOf[i] => item'[j].status # "running"
    BY DEF StartsAlone, KeywordBusy
  <1>2. \A j \in Items \ {i} : item'[j].status = "running" => item[j].status = "running"
    BY DEF StartsAlone
  <1>3. ASSUME NEW j \in Items, NEW k \in Items, item'[j].status = "running",
               item'[k].status = "running", KeywordOf[j] = KeywordOf[k]
        PROVE  j = k
    <2>1. CASE j = i \/ k = i
      BY <1>1, <1>3, <2>1
    <2>2. CASE j # i /\ k # i
      BY <1>2, <1>3, <2>2 DEF OneRunningItemPerKeyword
    <2> QED
      BY <2>1, <2>2
  <1> QED
    BY <1>3 DEF OneRunningItemPerKeyword

LEMMA ClosingStartsNothing ==
  ASSUME NEW i \in Items, NEW status \in TerminalItemStatuses, NEW reason,
         ItemClosed(i, status, reason)
  PROVE  NothingStarts
PROOF
  BY DEF ItemClosed, NothingStarts, TerminalItemStatuses

LEMMA SettlingStartsNothing ==
  ASSUME TypeOK, NEW i \in Items, NEW status \in TerminalItemStatuses,
         NEW reason \in Reasons, NEW counter \in Counters, NEW seen,
         SettleItem(i, status, reason, counter, seen)
  PROVE  NothingStarts
PROOF
  BY SettledItem, ClosingStartsNothing

LEMMA ApplyingStartsNothing ==
  ASSUME TypeOK, NEW i \in Items, NEW to \in {"completed", "failed", "deferred"},
         ApplyRunItemTransition(i, to)
  PROVE  NothingStarts
PROOF
  <1>1. item' = item \/ ItemClosed(i, to, item[i].reason)
    BY AppliedTransition
  <1> QED
    BY <1>1, ClosingStartsNothing DEF NothingStarts, TerminalItemStatuses

LEMMA StutterStartsNothing ==
  ASSUME UNCHANGED item
  PROVE  NothingStarts
PROOF
  BY DEF NothingStarts

-----------------------------------------------------------------------------
(* One lemma per actor.                                                    *)

LEMMA WorkflowStarts ==
  ASSUME TypeOK, NEW i \in Items, WorkflowStep(i)
  PROVE  NothingStarts \/ StartsAlone(i)
PROOF
  <1>1. CASE StartRunItem(i) \/ CreateHitsBusyKeyword(i) \/ RetryAfterBusyKeyword(i)
             \/ CreateGivesUp(i) \/ ClosingActivityLost(i)
    BY <1>1, StutterStartsNothing
       DEF StartRunItem, CreateHitsBusyKeyword, RetryAfterBusyKeyword, CreateGivesUp,
           ClosingActivityLost, dbvars
  <1>2. CASE CreateRunningRankCheck(i)
    BY <1>2 DEF CreateRunningRankCheck, StartsAlone, TypeOK
  <1>3. CASE DeferRunItemForBusyKeyword(i)
    BY <1>3, SettlingStartsNothing
       DEF DeferRunItemForBusyKeyword, TerminalItemStatuses, Reasons, Counters
  <1>4. CASE FailRankCheck(i) \/ DiscardRankCheck(i)
    BY <1>4, ApplyingStartsNothing, StutterStartsNothing DEF FailRankCheck, DiscardRankCheck
  <1> QED
    BY <1>1, <1>2, <1>3, <1>4 DEF WorkflowStep

LEMMA AttemptStarts ==
  ASSUME TypeOK, NEW i \in Items, NEW n \in Tries, AttemptStep(i, n)
  PROVE  NothingStarts
PROOF
  <1>1. CASE ClaimPaidCall(i, n) \/ SendPaidCall(i, n) \/ RetainRankResult(i, n)
             \/ AttemptTimesOut(i, n) \/ PaidCallFails(i, n) \/ FinalizeAfterLostCall(i, n)
    <2>1. UNCHANGED item
      BY <1>1 DEF ClaimPaidCall, SendPaidCall, RetainRankResult, AttemptTimesOut,
                  PaidCallFails, FinalizeAfterLostCall, dbvars
    <2> QED
      BY <2>1, StutterStartsNothing
  <1>2. CASE StopUnrunnable(i, n)
    <2>1. \/ \E s \in ActiveRunStatuses :
               SettleItem(i, "cancelled", "unrunnable", "cancelled", s)
          \/ UNCHANGED item
      BY <1>2 DEF StopUnrunnable
    <2> QED
      BY <2>1, SettlingStartsNothing, StutterStartsNothing
         DEF TerminalItemStatuses, Reasons, Counters
  <1>3. CASE LosePaidCall(i, n)
    <2>1. item' = item \/ item' = Closed(i, "blocked", "send_unconfirmed")
      BY <1>3 DEF LosePaidCall
    <2>2. item' = item \/ ItemClosed(i, "blocked", "send_unconfirmed")
      BY <2>1, ClosedItem DEF TerminalItemStatuses, ItemStatuses, Reasons
    <2> QED
      BY <2>2, ClosingStartsNothing, StutterStartsNothing DEF TerminalItemStatuses
  <1>4. CASE PersistRankCheck(i, n)
    BY <1>4, ApplyingStartsNothing, StutterStartsNothing DEF PersistRankCheck
  <1> QED
    BY <1>1, <1>2, <1>3, <1>4 DEF AttemptStep

LEMMA DispatcherStarts ==
  ASSUME TypeOK, NEW i \in Items, DispatcherStep(i)
  PROVE  NothingStarts \/ StartsAlone(i)
PROOF
  <1>1. CASE CancelUnrunnableCandidate(i)
    BY <1>1, SettlingStartsNothing
       DEF CancelUnrunnableCandidate, TerminalItemStatuses, Reasons, Counters
  <1>2. CASE BlockClaimLost(i)
    BY <1>2, SettlingStartsNothing DEF BlockClaimLost, TerminalItemStatuses, Reasons, Counters
  <1>3. CASE Claim(i)
    BY <1>3 DEF Claim, Candidate, StartsAlone, TypeOK
  <1>4. CASE ExpireLease(i)
    BY <1>4 DEF ExpireLease, NothingStarts, TypeOK
  <1> QED
    BY <1>1, <1>2, <1>3, <1>4 DEF DispatcherStep, ClaimQueued, ReclaimExpired

LEMMA BatchStarts ==
  ASSUME TypeOK, NEW i \in Items, BatchStep(i)
  PROVE  NothingStarts
PROOF
  <1>1. CASE PrepareBatch(i)
    BY <1>1 DEF PrepareBatch, NothingStarts, TypeOK
  <1>2. CASE PrepareDeferredBatch(i)
    BY <1>2, ApplyingStartsNothing DEF PrepareDeferredBatch
  <1>3. CASE SubmitBatch(i) \/ RetainBatchResult(i)
    BY <1>3, StutterStartsNothing DEF SubmitBatch, RetainBatchResult, dbvars
  <1>4. ASSUME NEW verdict \in {"completed", "failed", "deferred"}, SettleTask(i, verdict)
        PROVE  NothingStarts
    BY <1>4, ApplyingStartsNothing, StutterStartsNothing DEF SettleTask
  <1>5. CASE PersistBatchResult(i)
    BY <1>4, <1>5 DEF PersistBatchResult
  <1>6. CASE DeferBatch(i)
    BY <1>4, <1>6 DEF DeferBatch
  <1> QED
    BY <1>1, <1>2, <1>3, <1>5, <1>6 DEF BatchStep

LEMMA PlannerStarts ==
  ASSUME TypeOK, PlannerStep
  PROVE  NothingStarts
PROOF
  <1>1. ASSUME NEW r \in Runs, LaunchPlannedRun(r)
        PROVE  NothingStarts
    <2>1. \A i \in Items : item'[i] = item[i] \/ item'[i] = [item[i] EXCEPT !.status = "queued"]
      BY <1>1, Launched
    <2>2. \A i \in Items : [item[i] EXCEPT !.status = "queued"].status = "queued"
      BY TypeParts DEF RowTypes, ItemRow
    <2> QED
      BY <2>1, <2>2 DEF NothingStarts
  <1>2. ASSUME NEW r \in Runs, BlockPlannedRun(r) \/ ExpireBlockedRun(r) \/ SkipPlannedRun(r)
        PROVE  NothingStarts
    BY <1>2, StutterStartsNothing DEF BlockPlannedRun, ExpireBlockedRun, SkipPlannedRun, SetRun
  <1>3. ASSUME NEW k \in Keywords, PauseKeyword(k)
        PROVE  NothingStarts
    BY <1>3, StutterStartsNothing DEF PauseKeyword, dbvars
  <1> QED
    BY <1>1, <1>2, <1>3 DEF PlannerStep

LEMMA MaintenanceStarts ==
  ASSUME TypeOK, MaintenanceStep
  PROVE  NothingStarts
PROOF
  <1>1. ASSUME NEW i \in Items,
               MarkStaleRunningCheck(i) \/ PurgeBatch(i) \/ LoseRetainedResult(i)
        PROVE  NothingStarts
    BY <1>1, ApplyingStartsNothing, StutterStartsNothing
       DEF MarkStaleRunningCheck, PurgeBatch, LoseRetainedResult, dbvars
  <1>2. ASSUME NEW i \in Items, RestoreRetainedResult(i)
        PROVE  NothingStarts
    <2>1. RecoverRunItem(i) \/ UNCHANGED item
      BY <1>2 DEF RestoreRetainedResult, dbvars
    <2>2. item' = item \/ ItemClosed(i, "completed", item[i].reason)
      BY <2>1, RecoveredItem
    <2> QED
      BY <2>2, ClosingStartsNothing, StutterStartsNothing DEF TerminalItemStatuses
  <1>3. ASSUME \/ \E r \in Runs : SweepList(r)
               \/ SweepCount
               \/ SweepWrite
        PROVE  NothingStarts
    BY <1>3, StutterStartsNothing DEF SweepList, SweepCount, SweepWrite, dbvars
  <1> QED
    BY <1>1, <1>2, <1>3 DEF MaintenanceStep

LEMMA CancelStarts ==
  ASSUME TypeOK, NEW r \in Runs, CancelStep(r)
  PROVE  NothingStarts
PROOF
  <1>1. CASE CancelRead(r) \/ CancelCrash(r)
    BY <1>1, StutterStartsNothing DEF CancelRead, CancelCrash, dbvars
  <1>2. CASE CancelCommit(r)
    <2>1. \A i \in Items : item'[i] = item[i] \/ item'[i].status = "cancelled"
      BY <1>2, CommittedCancel
    <2> QED
      BY <2>1 DEF NothingStarts
  <1>3. ASSUME NEW i \in Items, CloseRankCheckAsCancelled(r, i)
        PROVE  NothingStarts
    <2>1. \/ \E s \in ActiveRunStatuses : SettleItem(i, "cancelled", "none", "cancelled", s)
          \/ UNCHANGED item
      BY <1>3 DEF CloseRankCheckAsCancelled
    <2> QED
      BY <2>1, SettlingStartsNothing, StutterStartsNothing
         DEF TerminalItemStatuses, Reasons, Counters
  <1> QED
    BY <1>1, <1>2, <1>3 DEF CancelStep

-----------------------------------------------------------------------------
LEMMA KeywordInit == Init => KeywordInv
PROOF
  <1> SUFFICES ASSUME Init PROVE OneRunningItemPerKeyword
    BY InitTypes DEF KeywordInv
  <1> QED
    BY DEF Init, OneRunningItemPerKeyword, Absent

LEMMA KeywordStep == KeywordInv /\ [Next]_vars => KeywordInv'
PROOF
  <1> SUFFICES ASSUME KeywordInv, [Next]_vars
               PROVE  OneRunningItemPerKeyword'
    BY StepTypes DEF KeywordInv
  <1>1. TypeOK /\ OneRunningItemPerKeyword
    BY DEF KeywordInv
  <1>2. CASE PlannerStep \/ MaintenanceStep
    BY <1>1, <1>2, PlannerStarts, MaintenanceStarts, NothingStartsSteps
  <1>3. ASSUME NEW i \in Items, WorkflowStep(i) \/ DispatcherStep(i) \/ BatchStep(i)
        PROVE  OneRunningItemPerKeyword'
    BY <1>1, <1>3, WorkflowStarts, DispatcherStarts, BatchStarts, NothingStartsSteps,
       StartsAloneSteps
  <1>4. ASSUME NEW i \in Items, NEW n \in Tries, AttemptStep(i, n)
        PROVE  OneRunningItemPerKeyword'
    BY <1>1, <1>4, AttemptStarts, NothingStartsSteps
  <1>5. ASSUME NEW r \in Runs, CancelStep(r)
        PROVE  OneRunningItemPerKeyword'
    BY <1>1, <1>5, CancelStarts, NothingStartsSteps
  <1>6. CASE UNCHANGED vars
    BY <1>1, <1>6, StutterStartsNothing, NothingStartsSteps DEF vars, dbvars
  <1> QED
    BY <1>2, <1>3, <1>4, <1>5, <1>6 DEF Next

\* Whatever the dispatcher, the manual workflows and their retries do, in any
\* number of runs, a keyword is never checked by two items at the same time
\* (items-claim-query.ts and the index rank_check_run_items_keywordId_running_
\* key, on which createRunningRankCheckActivity relies).
THEOREM KeywordsAreCheckedOnce == Spec => []OneRunningItemPerKeyword
PROOF
  <1>1. KeywordInv => OneRunningItemPerKeyword
    BY DEF KeywordInv
  <1> QED
    BY <1>1, KeywordInit, KeywordStep, PTL DEF Spec

-----------------------------------------------------------------------------
(***************************************************************************)
(* No target is paid for twice: the proof, for every instance of           *)
(* RankCheckRuns and any number of overlapping attempts, that the provider *)
(* is called at most once for an item.                                     *)
(*                                                                         *)
(* The fence is one row: an attempt buys only after it has moved the check *)
(* from zero to one attempts.  That row is reset by the stale sweep and by *)
(* a discarded check, so the invariant has to follow a check from its link *)
(* to its end, and to keep the two engines apart: items of manual runs     *)
(* have no batch, items of scheduled runs no attempt.                      *)
(***************************************************************************)

\* The two engines do not meet.
OneEngine(i) ==
  /\ Scheduled(i) => flow[i] = "idle" /\ \A n \in Tries : attempt[i][n] = "none"
  /\ ~Scheduled(i) => task[i] = "none" /\ item[i].lease = "none"

\* An item has a check only after it was launched and started, and nothing was
\* tried, sent or kept for it before that.
NothingBeforeLink(i) ==
  /\ RunStatusOf(i) \in UnlaunchedRunStatuses => item[i].status = Absent
  /\ item[i].status \in {Absent, "queued"} => ~Linked(i)
  /\ ~Linked(i) => /\ check[i].attempts = 0
                   /\ task[i] = "none" /\ sends[i] = 0 /\ ~evidence[i]
                   /\ \A n \in Tries : attempt[i][n] = "none"

\* Whoever holds the fence, an attempt or an unsubmitted batch, is alone with
\* it and has sent nothing; who has sent does not get the fence again.
OneHolder(i) ==
  /\ \A m, n \in Tries : attempt[i][m] = "won" /\ attempt[i][n] = "won" => m = n
  /\ \A n \in Tries : attempt[i][n] = "won" => sends[i] = 0 /\ ~Claimable(i)
  /\ task[i] = "prepared" => sends[i] = 0
  /\ ~Scheduled(i) /\ sends[i] # 0 => ~Claimable(i)
  /\ sends[i] <= 1

ItemInv(i) == OneEngine(i) /\ NothingBeforeLink(i) /\ OneHolder(i)
PaidInv == TypeOK /\ \A i \in Items : ItemInv(i)

-----------------------------------------------------------------------------
(* A step is calm for item j when it brings j no nearer to a second call:  *)
(* nothing is linked, claimed or sent, and nothing is undone.              *)

CalmItem(j) ==
  /\ item'[j].lease \in {item[j].lease, "none"} \/ Scheduled(j)
  /\ \/ item'[j].status = item[j].status
     \/ item[j].status # Absent /\ item'[j].status \notin {Absent, "queued"}

CalmCheck(j) ==
  \/ check'[j] = check[j]
  \/ check'[j].status \in TerminalCheckStatuses /\ item'[j].status \notin {Absent, "queued"}

CalmTask(j) ==
  \/ task'[j] = task[j]
  \/ task'[j] # "prepared" /\ check'[j].status # "none" /\ Scheduled(j)

CalmFlow(j) ==
  /\ flow'[j] = flow[j] \/ ~Scheduled(j)
  /\ \A n \in Tries : \/ attempt'[j][n] = attempt[j][n]
                      \/ attempt[j][n] # "none" /\ attempt'[j][n] \notin {"none", "won"}
  /\ evidence'[j] => evidence[j] \/ Linked(j)

CalmRun(j) ==
  run'[RunOf[j]].status \in UnlaunchedRunStatuses => RunStatusOf(j) \in UnlaunchedRunStatuses

Calm(j) ==
  CalmItem(j) /\ CalmCheck(j) /\ CalmTask(j) /\ CalmFlow(j) /\ sends'[j] = sends[j]

LEMMA CalmSteps ==
  ASSUME TypeOK, NEW j \in Items, ItemInv(j), CalmRun(j), Calm(j)
  PROVE  ItemInv(j)'
PROOF
  <1>1. OneEngine(j) /\ NothingBeforeLink(j) /\ OneHolder(j)
    BY DEF ItemInv
  <1>2. check'[j] = check[j] \/ check'[j].status \in {"completed", "failed", "deferred"}
    BY DEF Calm, CalmCheck, TerminalCheckStatuses
  <1>3. OneEngine(j)'
    <2>1. Scheduled(j) => flow'[j] = "idle" /\ \A n \in Tries : attempt'[j][n] = "none"
      BY <1>1 DEF OneEngine, Calm, CalmFlow
    <2>2. ~Scheduled(j) => task'[j] = "none" /\ item'[j].lease = "none"
      BY <1>1 DEF OneEngine, Calm, CalmTask, CalmItem
    <2> QED
      BY <2>1, <2>2 DEF OneEngine, Scheduled
  <1>4. NothingBeforeLink(j)'
    <2>1. run'[RunOf[j]].status \in UnlaunchedRunStatuses => item'[j].status = Absent
      BY <1>1 DEF NothingBeforeLink, CalmRun, Calm, CalmItem
    <2>2. item'[j].status \in {Absent, "queued"} => check'[j].status = "none"
      BY <1>1 DEF NothingBeforeLink, Linked, Calm, CalmItem, CalmCheck
    <2>3. check'[j].status = "none" => check'[j] = check[j] /\ ~Linked(j)
      BY <1>2 DEF Linked
    <2>4. check'[j].status = "none" =>
            /\ check'[j].attempts = 0 /\ task'[j] = "none" /\ sends'[j] = 0 /\ ~evidence'[j]
            /\ \A n \in Tries : attempt'[j][n] = "none"
      BY <1>1, <2>3 DEF NothingBeforeLink, Calm, CalmTask, CalmFlow
    <2> QED
      BY <2>1, <2>2, <2>4 DEF NothingBeforeLink, Linked, RunStatusOf
  <1>5. OneHolder(j)'
    <2>1. \A n \in Tries : attempt'[j][n] = "won" => attempt[j][n] = "won"
      BY DEF Calm, CalmFlow
    <2>2. ~Claimable(j) => ~(check'[j].status = "running" /\ check'[j].attempts = 0)
      BY <1>2 DEF Claimable
    <2>3. task'[j] = "prepared" => task[j] = "prepared"
      BY DEF Calm, CalmTask
    <2> QED
      BY <1>1, <2>1, <2>2, <2>3 DEF OneHolder, Calm, Claimable, Scheduled
  <1> QED
    BY <1>3, <1>4, <1>5 DEF ItemInv

\* What a step leaves alone is calm.
LEMMA CalmUnchanged ==
  ASSUME NEW j
  PROVE  /\ item' = item => CalmItem(j)
         /\ check' = check => CalmCheck(j)
         /\ task' = task => CalmTask(j)
         /\ UNCHANGED <<flow, attempt, evidence>> => CalmFlow(j)
PROOF
  BY DEF CalmItem, CalmCheck, CalmTask, CalmFlow

\* Closing an item that exists is calm.
LEMMA CalmClosed ==
  ASSUME NEW i \in Items, item[i].status # Absent,
         NEW status \in TerminalItemStatuses, NEW reason, ItemClosed(i, status, reason)
  PROVE  \A j \in Items : CalmItem(j)
PROOF
  BY DEF ItemClosed, CalmItem, TerminalItemStatuses, Absent

LEMMA CalmApplied ==
  ASSUME TypeOK, NEW i \in Items, NEW to \in {"completed", "failed", "deferred"},
         ApplyRunItemTransition(i, to)
  PROVE  \A j \in Items : CalmItem(j)
PROOF
  <1>1. CASE item[i].status \in PendingItemStatuses
    <2>1. ItemClosed(i, to, item[i].reason) /\ to \in TerminalItemStatuses
      BY <1>1, AppliedTransition DEF TerminalItemStatuses
    <2>2. item[i].status # Absent
      BY <1>1 DEF PendingItemStatuses, Absent
    <2> QED
      BY <2>1, <2>2 DEF ItemClosed, CalmItem, TerminalItemStatuses, Absent
  <1>2. CASE item[i].status \notin PendingItemStatuses
    BY <1>2, AppliedTransition, CalmUnchanged
  <1> QED
    BY <1>1, <1>2

LEMMA CalmSettled ==
  ASSUME TypeOK, NEW i \in Items, item[i].status # Absent,
         NEW status \in TerminalItemStatuses, NEW reason \in Reasons,
         NEW counter \in Counters, NEW seen,
         SettleItem(i, status, reason, counter, seen)
  PROVE  \A j \in Items : CalmItem(j)
PROOF
  BY SettledItem, CalmClosed

\* Closing a check of an item that is started is calm.
LEMMA CalmCheckClosed ==
  ASSUME TypeOK, NEW i \in Items, NEW status \in TerminalCheckStatuses,
         \/ CloseCheck(i, status)
         \/ check' = [check EXCEPT ![i] = [status |-> status, attempts |-> 0]],
         item'[i].status \notin {Absent, "queued"}
  PROVE  \A j \in Items : CalmCheck(j)
PROOF
  BY DEF CloseCheck, CalmCheck, TypeOK

\* No run goes back to the planner.
LEMMA NoReturn ==
  ASSUME TypeOK, Next
  PROVE  \A j \in Items : CalmRun(j)
PROOF
  <1> DEFINE Kept == \A r \in Runs : run'[r].status \in UnlaunchedRunStatuses =>
                                       run[r].status \in UnlaunchedRunStatuses
  <1> SUFFICES Kept
    BY ContractAssumption DEF CalmRun, RunStatusOf
  <1>1. ASSUME NEW r \in Runs, LaunchPlannedRun(r)
        PROVE  Kept
    <2>1. \A q \in Runs \ {r} : run'[q] = run[q]
      BY <1>1, Launched
    <2>2. run[r].status \in UnlaunchedRunStatuses
      BY <1>1 DEF LaunchPlannedRun, UnlaunchedRunStatuses
    <2> QED
      BY <2>1, <2>2
  <1>2. ASSUME NEW r \in Runs, BlockPlannedRun(r) \/ ExpireBlockedRun(r) \/ SkipPlannedRun(r)
        PROVE  Kept
    <2>1. /\ run[r].status \in UnlaunchedRunStatuses
          /\ \A q \in Runs \ {r} : run'[q] = run[q]
      BY <1>2
         DEF BlockPlannedRun, ExpireBlockedRun, SkipPlannedRun, SetRun, TypeOK,
             UnlaunchedRunStatuses
    <2> QED
      BY <2>1
  <1>3. ASSUME NEW k \in Keywords, PauseKeyword(k)
        PROVE  Kept
    BY <1>3 DEF PauseKeyword, dbvars
  <1>4. CASE PlannerStep
    BY <1>1, <1>2, <1>3, <1>4 DEF PlannerStep
  <1>5. ASSUME NEW i \in Items, WorkflowStep(i) \/ DispatcherStep(i) \/ BatchStep(i)
        PROVE  Kept
    BY <1>5, QuietWorkflow, QuietDispatcher, QuietBatch DEF Quiet
  <1>6. ASSUME NEW i \in Items, NEW n \in Tries, AttemptStep(i, n)
        PROVE  Kept
    BY <1>6, QuietAttempt DEF Quiet
  <1>7. ASSUME NEW r \in Runs, CancelStep(r)
        PROVE  Kept
    BY <1>7, QuietCancel DEF Quiet
  <1>8. CASE MaintenanceStep
    <2>1. ASSUME NEW i \in Items, MarkStaleRunningCheck(i)
          PROVE  Kept
      BY <2>1, QuietApply DEF MarkStaleRunningCheck, Quiet
    <2>2. ASSUME NEW i \in Items, RestoreRetainedResult(i)
          PROVE  Kept
      <3>1. RecoverRunItem(i) \/ run' = run
        BY <2>2 DEF RestoreRetainedResult, dbvars
      <3>2. RecoverRunItem(i) => Quiet
        BY RecoveredItem, QuietSettling DEF TerminalItemStatuses
      <3> QED
        BY <3>1, <3>2 DEF Quiet
    <2>3. ASSUME NEW i \in Items, PurgeBatch(i) \/ LoseRetainedResult(i)
          PROVE  Kept
      BY <2>3 DEF PurgeBatch, LoseRetainedResult, dbvars
    <2>4. ASSUME NEW r \in Runs, SweepList(r) \/ SweepCount
          PROVE  Kept
      BY <2>4 DEF SweepList, SweepCount, dbvars
    <2>5. ASSUME SweepWrite
          PROVE  Kept
      <3>1. \A r \in Runs \ {sweep.run} : run'[r] = run[r]
        BY <2>5, SweptRun
      <3>2. \/ run'[sweep.run].status = run[sweep.run].status
            \/ run'[sweep.run].status \in TerminalRunStatuses
        BY <2>5, SweptRun
      <3> QED
        BY <3>1, <3>2 DEF TerminalRunStatuses, UnlaunchedRunStatuses
    <2>6. PICK r \in Runs : TRUE
      BY RunsAssumption
    <2>7. SweepCount => Kept
      BY <2>4, <2>6
    <2> QED
      BY <1>8, <2>1, <2>2, <2>3, <2>4, <2>5, <2>7 DEF MaintenanceStep
  <1> QED
    BY <1>4, <1>5, <1>6, <1>7, <1>8 DEF Next

-----------------------------------------------------------------------------
(* The actors.  A step is calm for every item but the one that is linked,  *)
(* claimed or sent by it.                                                  *)

LEMMA PaidWorkflow ==
  ASSUME PaidInv, NEW i \in Items, WorkflowStep(i), \A j \in Items : CalmRun(j)
  PROVE  \A j \in Items : ItemInv(j)'
PROOF
  <1>1. TypeOK /\ \A j \in Items : ItemInv(j)
    BY DEF PaidInv
  <1>2. \A j \in Items : Calm(j) => ItemInv(j)'
    BY <1>1, CalmSteps
  <1>3. Scheduled(i) => flow[i] = "idle"
    BY <1>1 DEF ItemInv, OneEngine
  <1>4. ASSUME NEW from, NEW to, FlowTo(i, from, to), from # "idle",
               UNCHANGED <<attempt, evidence>>
        PROVE  \A j \in Items : CalmFlow(j)
    BY <1>1, <1>3, <1>4 DEF FlowTo, CalmFlow, TypeOK
  <1>5. ASSUME StartRunItem(i)
        PROVE  \A j \in Items : Calm(j)
    <2>1. \A j \in Items : CalmFlow(j)
      BY <1>1, <1>5 DEF StartRunItem, CalmFlow, TypeOK
    <2> QED
      BY <1>5, <2>1, CalmUnchanged DEF StartRunItem, Calm, dbvars
  <1>6. ASSUME CreateHitsBusyKeyword(i) \/ RetryAfterBusyKeyword(i) \/ CreateGivesUp(i)
               \/ ClosingActivityLost(i)
        PROVE  \A j \in Items : Calm(j)
    <2>1. \A j \in Items : CalmFlow(j)
      BY <1>4, <1>6 DEF CreateHitsBusyKeyword, RetryAfterBusyKeyword, CreateGivesUp,
                        ClosingActivityLost
    <2>2. UNCHANGED dbvars /\ sends' = sends
      BY <1>6 DEF CreateHitsBusyKeyword, RetryAfterBusyKeyword, CreateGivesUp,
                  ClosingActivityLost
    <2> QED
      BY <2>1, <2>2, CalmUnchanged DEF Calm, dbvars
  <1>7. ASSUME DeferRunItemForBusyKeyword(i)
        PROVE  \A j \in Items : Calm(j)
    <2>1. \A j \in Items : CalmFlow(j)
      BY <1>4, <1>7 DEF DeferRunItemForBusyKeyword
    <2>2. \A j \in Items : CalmItem(j)
      BY <1>1, <1>7, CalmSettled
         DEF DeferRunItemForBusyKeyword, TerminalItemStatuses, Reasons, Counters, Absent
    <2> QED
      BY <1>7, <2>1, <2>2, CalmUnchanged DEF DeferRunItemForBusyKeyword, Calm
  <1>8. ASSUME FailRankCheck(i) \/ DiscardRankCheck(i)
        PROVE  \A j \in Items : Calm(j)
    <2>1. \A j \in Items : CalmFlow(j)
      BY <1>4, <1>8 DEF FailRankCheck, DiscardRankCheck
    <2>2. task' = task /\ sends' = sends
      BY <1>8 DEF FailRankCheck, DiscardRankCheck
    <2>3. CASE check[i].status = "running"
      <3>1. PICK to \in {"failed", "deferred"} :
              /\ ApplyRunItemTransition(i, to)
              /\ \/ CloseCheck(i, to)
                 \/ check' = [check EXCEPT ![i] = [status |-> to, attempts |-> 0]]
        BY <1>8, <2>3 DEF FailRankCheck, DiscardRankCheck
      <3>2. item[i].status \notin {Absent, "queued"}
        BY <1>1, <2>3 DEF ItemInv, NothingBeforeLink, Linked
      <3>3. \A j \in Items : CalmItem(j)
        BY <1>1, <3>1, CalmApplied
      <3>4. item'[i].status \notin {Absent, "queued"}
        BY <3>2, <3>3 DEF CalmItem
      <3>5. \A j \in Items : CalmCheck(j)
        BY <1>1, <3>1, <3>4, CalmCheckClosed DEF TerminalCheckStatuses
      <3> QED
        BY <2>1, <2>2, <3>3, <3>5, CalmUnchanged DEF Calm
    <2>4. CASE check[i].status # "running"
      <3>1. UNCHANGED <<item, check>>
        BY <1>8, <2>4 DEF FailRankCheck, DiscardRankCheck
      <3> QED
        BY <2>1, <2>2, <3>1, CalmUnchanged DEF Calm
    <2> QED
      BY <2>3, <2>4
  <1>9. ASSUME CreateRunningRankCheck(i)
        PROVE  \A j \in Items : ItemInv(j)'
    <2>1. ~Scheduled(i) /\ ~Linked(i) /\ item[i].status = "queued"
      BY <1>1, <1>3, <1>9
         DEF CreateRunningRankCheck, FlowTo, ItemInv, NothingBeforeLink
    <2>2. ASSUME NEW j \in Items, j # i
          PROVE  Calm(j)
      BY <1>1, <1>9, <2>2
         DEF CreateRunningRankCheck, FlowTo, Calm, CalmItem, CalmCheck, CalmTask, CalmFlow,
             TypeOK
    <2>3. ItemInv(i)
      BY <1>1
    <2>4. /\ item'[i].status = "running" /\ item'[i].lease = item[i].lease
          /\ check'[i].status = "running" /\ task' = task /\ sends' = sends
          /\ \A n \in Tries : attempt'[i][n] \in {attempt[i][n], "started"}
      BY <1>1, <1>9 DEF CreateRunningRankCheck, TypeOK
    <2>5. OneEngine(i)'
      BY <2>1, <2>3, <2>4 DEF ItemInv, OneEngine, Scheduled
    <2>6. NothingBeforeLink(i)'
      <3>1. run'[RunOf[i]].status \notin UnlaunchedRunStatuses
        BY <2>1, <2>3 DEF ItemInv, NothingBeforeLink, CalmRun, Absent
      <3> QED
        BY <2>4, <3>1 DEF NothingBeforeLink, Linked, RunStatusOf, Absent
    <2>7. OneHolder(i)'
      <3>1. sends[i] = 0 /\ \A n \in Tries : attempt'[i][n] # "won"
        BY <2>1, <2>3, <2>4 DEF ItemInv, NothingBeforeLink
      <3> QED
        BY <2>4, <3>1 DEF OneHolder
    <2> QED
      BY <1>2, <2>2, <2>5, <2>6, <2>7 DEF ItemInv
  <1> QED
    BY <1>2, <1>5, <1>6, <1>7, <1>8, <1>9 DEF WorkflowStep

\* An attempt that moves on without winning the fence is calm.
LEMMA CalmAttempt ==
  ASSUME PaidInv, NEW i \in Items, NEW n \in Tries, NEW from, NEW to,
         StepAttempt(i, n, from, to), from # "none", to \notin {"none", "won"},
         flow' = flow \/ (\E next : FlowAfter(i, n, next)),
         evidence' = evidence
  PROVE  Linked(i) /\ ~Scheduled(i) /\ \A j \in Items : CalmFlow(j)
PROOF
  <1>1. TypeOK /\ ItemInv(i)
    BY DEF PaidInv
  <1>2. Linked(i) /\ ~Scheduled(i)
    BY <1>1 DEF StepAttempt, ItemInv, OneEngine, NothingBeforeLink
  <1>3. \A j \in Items : flow'[j] = flow[j] \/ ~Scheduled(j)
    BY <1>1, <1>2 DEF FlowAfter, TypeOK
  <1>4. \A j \in Items : \A m \in Tries :
          \/ attempt'[j][m] = attempt[j][m]
          \/ attempt[j][m] # "none" /\ attempt'[j][m] \notin {"none", "won"}
    BY <1>1 DEF StepAttempt, TypeOK
  <1> QED
    BY <1>2, <1>3, <1>4 DEF CalmFlow

LEMMA PaidAttempt ==
  ASSUME PaidInv, NEW i \in Items, NEW n \in Tries, AttemptStep(i, n),
         \A j \in Items : CalmRun(j)
  PROVE  \A j \in Items : ItemInv(j)'
PROOF
  <1>1. TypeOK /\ \A j \in Items : ItemInv(j)
    BY DEF PaidInv
  <1>2. \A j \in Items : Calm(j) => ItemInv(j)'
    BY <1>1, CalmSteps
  <1>3. Linked(i) => item[i].status \notin {Absent, "queued"}
    BY <1>1 DEF ItemInv, NothingBeforeLink
  <1>4. ASSUME StopUnrunnable(i, n)
        PROVE  \A j \in Items : Calm(j)
    <2>1. Linked(i) /\ \A j \in Items : CalmFlow(j)
      BY <1>4, CalmAttempt DEF StopUnrunnable
    <2>2. \/ \E s \in ActiveRunStatuses :
               SettleItem(i, "cancelled", "unrunnable", "cancelled", s)
          \/ item' = item
      BY <1>4 DEF StopUnrunnable
    <2>3. \A j \in Items : CalmItem(j)
      BY <1>1, <1>3, <2>1, <2>2, CalmSettled, CalmUnchanged
         DEF TerminalItemStatuses, Reasons, Counters
    <2>4. item'[i].status \notin {Absent, "queued"}
      BY <1>3, <2>1, <2>3 DEF CalmItem
    <2>5. CloseCheck(i, "failed") \/ check' = check
      BY <1>4 DEF StopUnrunnable
    <2>6. \A j \in Items : CalmCheck(j)
      BY <1>1, <2>4, <2>5, CalmCheckClosed, CalmUnchanged DEF TerminalCheckStatuses
    <2>7. task' = task /\ sends' = sends
      BY <1>4 DEF StopUnrunnable
    <2> QED
      BY <2>1, <2>3, <2>6, <2>7, CalmUnchanged DEF Calm
  <1>5. ASSUME LosePaidCall(i, n)
        PROVE  \A j \in Items : Calm(j)
    <2>1. Linked(i) /\ \A j \in Items : CalmFlow(j)
      BY <1>5, CalmAttempt DEF LosePaidCall
    <2>2. item' = Closed(i, "blocked", "send_unconfirmed") \/ item' = item
      BY <1>5 DEF LosePaidCall
    <2>3. \A j \in Items : CalmItem(j)
      <3>1. ASSUME item' = Closed(i, "blocked", "send_unconfirmed")
            PROVE  ItemClosed(i, "blocked", "send_unconfirmed")
        BY <1>1, <3>1, ClosedItem DEF ItemStatuses, TerminalItemStatuses, Reasons
      <3> QED
        BY <1>3, <2>1, <2>2, <3>1, CalmClosed, CalmUnchanged DEF TerminalItemStatuses
    <2>4. UNCHANGED <<check, task, sends>>
      BY <1>5 DEF LosePaidCall
    <2> QED
      BY <2>1, <2>3, <2>4, CalmUnchanged DEF Calm
  <1>6. ASSUME FinalizeAfterLostCall(i, n)
        PROVE  \A j \in Items : Calm(j)
    <2>1. \A j \in Items : CalmFlow(j)
      BY <1>6, CalmAttempt DEF FinalizeAfterLostCall
    <2> QED
      BY <1>6, <2>1, CalmUnchanged DEF FinalizeAfterLostCall, Calm
  <1>7. ASSUME PersistRankCheck(i, n)
        PROVE  \A j \in Items : Calm(j)
    <2>1. Linked(i) /\ ~Scheduled(i)
      BY <1>1, <1>7
         DEF PersistRankCheck, StepAttempt, ItemInv, OneEngine, NothingBeforeLink
    <2>2. \A j \in Items : CalmFlow(j)
      <3>1. \A j \in Items : flow'[j] = flow[j] \/ ~Scheduled(j)
        BY <1>1, <1>7, <2>1 DEF PersistRankCheck, FlowAfter, TypeOK
      <3>2. \A j \in Items : \A m \in Tries :
              \/ attempt'[j][m] = attempt[j][m]
              \/ attempt[j][m] # "none" /\ attempt'[j][m] \notin {"none", "won"}
        BY <1>1, <1>7 DEF PersistRankCheck, StepAttempt, TypeOK
      <3>3. \A j \in Items : evidence'[j] => evidence[j]
        BY <1>1, <1>7 DEF PersistRankCheck, TypeOK
      <3> QED
        BY <3>1, <3>2, <3>3 DEF CalmFlow
    <2>3. task' = task /\ sends' = sends
      BY <1>7 DEF PersistRankCheck
    <2>4. \A j \in Items : CalmItem(j)
      <3>1. ApplyRunItemTransition(i, "completed") \/ item' = item
        BY <1>7 DEF PersistRankCheck
      <3> QED
        BY <1>1, <3>1, CalmApplied, CalmUnchanged
    <2>5. \A j \in Items : CalmCheck(j)
      <3>1. CloseCheck(i, "completed") \/ check' = check
        BY <1>7 DEF PersistRankCheck
      <3>2. item'[i].status \notin {Absent, "queued"}
        BY <1>3, <2>1, <2>4 DEF CalmItem
      <3> QED
        BY <1>1, <3>1, <3>2, CalmCheckClosed, CalmUnchanged DEF TerminalCheckStatuses
    <2> QED
      BY <2>2, <2>3, <2>4, <2>5, CalmUnchanged DEF Calm
  <1>8. ASSUME RetainRankResult(i, n)
        PROVE  \A j \in Items : Calm(j)
    <2>1. Linked(i)
      BY <1>1, <1>8 DEF RetainRankResult, StepAttempt, ItemInv, NothingBeforeLink
    <2>2. \A j \in Items : CalmFlow(j)
      <3>1. \A j \in Items : \A m \in Tries :
              \/ attempt'[j][m] = attempt[j][m]
              \/ attempt[j][m] # "none" /\ attempt'[j][m] \notin {"none", "won"}
        BY <1>1, <1>8 DEF RetainRankResult, StepAttempt, TypeOK
      <3>2. \A j \in Items : evidence'[j] => evidence[j] \/ Linked(j)
        BY <1>1, <1>8, <2>1 DEF RetainRankResult, TypeOK
      <3> QED
        BY <1>8, <3>1, <3>2 DEF RetainRankResult, CalmFlow
    <2> QED
      BY <1>8, <2>2, CalmUnchanged DEF RetainRankResult, Calm, dbvars
  <1>9. ASSUME PaidCallFails(i, n)
        PROVE  \A j \in Items : Calm(j)
    <2>1. \A j \in Items : CalmFlow(j)
      BY <1>9, CalmAttempt DEF PaidCallFails
    <2> QED
      BY <1>9, <2>1, CalmUnchanged DEF PaidCallFails, Calm, dbvars
  <1>10. ASSUME ClaimPaidCall(i, n)
         PROVE  \A j \in Items : ItemInv(j)'
    <2>1. /\ Claimable(i) /\ attempt[i][n] = "started"
          /\ UNCHANGED <<item, task, flow, sends, evidence>>
          /\ attempt' = [attempt EXCEPT ![i][n] = "won"]
          /\ check' = [check EXCEPT ![i].attempts = 1]
      BY <1>10 DEF ClaimPaidCall, StepAttempt
    <2>2. ASSUME NEW j \in Items, j # i
          PROVE  Calm(j)
      BY <1>1, <2>1, <2>2 DEF Calm, CalmItem, CalmCheck, CalmTask, CalmFlow, TypeOK
    <2>3. /\ check'[i].status = "running" /\ check'[i].attempts = 1
          /\ attempt'[i][n] = "won"
          /\ \A m \in Tries \ {n} : attempt'[i][m] = attempt[i][m]
      BY <1>1, <2>1 DEF Claimable, TypeOK
    <2>4. ItemInv(i)
      BY <1>1
    <2>5. ~Scheduled(i) /\ Linked(i) /\ sends[i] = 0 /\ \A m \in Tries : attempt[i][m] # "won"
      BY <1>1, <2>1, <2>4
         DEF ItemInv, OneEngine, NothingBeforeLink, OneHolder, TypeOK
    <2>6. OneEngine(i)'
      BY <2>1, <2>4, <2>5 DEF ItemInv, OneEngine, Scheduled
    <2>7. NothingBeforeLink(i)'
      BY <2>1, <2>3, <2>4, <2>5
         DEF ItemInv, NothingBeforeLink, Linked, CalmRun, RunStatusOf
    <2>8. OneHolder(i)'
      BY <2>1, <2>3, <2>5 DEF OneHolder, Claimable, Scheduled
    <2> QED
      BY <1>2, <2>2, <2>6, <2>7, <2>8 DEF ItemInv
  <1>11. ASSUME SendPaidCall(i, n)
         PROVE  \A j \in Items : ItemInv(j)'
    <2>1. /\ attempt[i][n] = "won"
          /\ UNCHANGED <<run, item, check, task, flow, evidence>>
          /\ attempt' = [attempt EXCEPT ![i][n] = "sent"]
          /\ sends' = [sends EXCEPT ![i] = @ + 1]
      BY <1>11 DEF SendPaidCall, StepAttempt, dbvars
    <2>2. ASSUME NEW j \in Items, j # i
          PROVE  Calm(j)
      BY <1>1, <2>1, <2>2 DEF Calm, CalmItem, CalmCheck, CalmTask, CalmFlow, TypeOK
    <2>3. ItemInv(i)
      BY <1>1
    <2>4. /\ sends[i] = 0 /\ ~Claimable(i) /\ ~Scheduled(i) /\ Linked(i)
          /\ \A m \in Tries \ {n} : attempt[i][m] # "won"
      BY <2>1, <2>3 DEF ItemInv, OneEngine, NothingBeforeLink, OneHolder
    <2>5. /\ sends'[i] = 1
          /\ attempt'[i][n] = "sent"
          /\ \A m \in Tries \ {n} : attempt'[i][m] = attempt[i][m]
      BY <1>1, <2>1, <2>4 DEF TypeOK
    <2>6. OneEngine(i)'
      BY <2>1, <2>3, <2>4 DEF ItemInv, OneEngine, Scheduled
    <2>7. NothingBeforeLink(i)'
      BY <2>1, <2>3, <2>4 DEF ItemInv, NothingBeforeLink, Linked, RunStatusOf
    <2>8. OneHolder(i)'
      <3>1. task[i] = "none"
        BY <2>3, <2>4 DEF ItemInv, OneEngine
      <3> QED
        BY <2>1, <2>4, <2>5, <3>1 DEF OneHolder, Claimable, Scheduled
    <2> QED
      BY <1>2, <2>2, <2>6, <2>7, <2>8 DEF ItemInv
  <1>12. ASSUME AttemptTimesOut(i, n)
         PROVE  \A j \in Items : ItemInv(j)'
    <2>1. /\ attempt[i][n] # "none" /\ Awaited(i, n)
          /\ Retry(i, n)
          /\ UNCHANGED <<run, item, check, task, sends, evidence>>
      BY <1>12 DEF AttemptTimesOut, dbvars
    <2>2. ItemInv(i)
      BY <1>1
    <2>3. ~Scheduled(i) /\ Linked(i)
      BY <2>1, <2>2 DEF ItemInv, OneEngine, NothingBeforeLink
    <2>4. CASE n + 1 \notin Tries
      <3>1. \A j \in Items : CalmFlow(j)
        BY <1>1, <2>1, <2>3, <2>4 DEF Retry, CalmFlow, TypeOK
      <3> QED
        BY <1>2, <2>1, <3>1, CalmUnchanged DEF Calm
    <2>5. CASE n + 1 \in Tries
      <3>1. flow' = flow /\ attempt' = [attempt EXCEPT ![i] = [@ EXCEPT ![n + 1] = "started"]]
        BY <2>1, <2>5 DEF Retry
      <3>2. ASSUME NEW j \in Items, j # i
            PROVE  Calm(j)
        BY <1>1, <2>1, <3>1, <3>2
           DEF Calm, CalmItem, CalmCheck, CalmTask, CalmFlow, TypeOK
      <3>3. \A m \in Tries : attempt'[i][m] \in {attempt[i][m], "started"}
        BY <1>1, <3>1 DEF TypeOK
      <3>4. OneEngine(i)'
        BY <2>1, <2>2, <2>3 DEF ItemInv, OneEngine, Scheduled
      <3>5. NothingBeforeLink(i)'
        BY <2>1, <2>2, <2>3 DEF ItemInv, NothingBeforeLink, Linked, RunStatusOf
      <3>6. OneHolder(i)'
        <4>1. \A m \in Tries : attempt'[i][m] = "won" => attempt[i][m] = "won"
          BY <3>3
        <4> QED
          BY <2>1, <2>2, <4>1 DEF ItemInv, OneHolder, Claimable, Scheduled
      <3> QED
        BY <1>2, <3>2, <3>4, <3>5, <3>6 DEF ItemInv
    <2> QED
      BY <2>4, <2>5
  <1> QED
    BY <1>2, <1>4, <1>5, <1>6, <1>7, <1>8, <1>9, <1>10, <1>11, <1>12 DEF AttemptStep

LEMMA PaidDispatcher ==
  ASSUME PaidInv, NEW i \in Items, DispatcherStep(i), \A j \in Items : CalmRun(j)
  PROVE  \A j \in Items : ItemInv(j)'
PROOF
  <1>1. TypeOK /\ \A j \in Items : ItemInv(j)
    BY DEF PaidInv
  <1>2. \A j \in Items : Calm(j) => ItemInv(j)'
    BY <1>1, CalmSteps
  <1>3. Candidate(i) => Scheduled(i) /\ item[i].status \in PendingItemStatuses
    BY <1>1 DEF Candidate, DueQueued, ClaimExpired, ItemInv, OneEngine, PendingItemStatuses
  <1>4. UNCHANGED <<check, task, flowvars>> /\ (\A j \in Items : CalmItem(j))
          => \A j \in Items : Calm(j)
    BY CalmUnchanged DEF Calm, flowvars
  <1>5. ASSUME CancelUnrunnableCandidate(i)
        PROVE  \A j \in Items : Calm(j)
    <2>1. SettleItem(i, "cancelled", "unrunnable", "cancelled", "running")
          /\ item[i].status # Absent
      BY <1>3, <1>5 DEF CancelUnrunnableCandidate, PendingItemStatuses, Absent
    <2>2. \A j \in Items : CalmItem(j)
      BY <1>1, <2>1, CalmSettled DEF TerminalItemStatuses, Reasons, Counters
    <2> QED
      BY <1>4, <1>5, <2>2 DEF CancelUnrunnableCandidate
  <1>6. ASSUME BlockClaimLost(i)
        PROVE  \A j \in Items : Calm(j)
    <2>1. SettleItem(i, "blocked", "claim_lost", "skipped", "running")
          /\ item[i].status # Absent
      BY <1>3, <1>6 DEF BlockClaimLost, PendingItemStatuses, Absent
    <2>2. \A j \in Items : CalmItem(j)
      BY <1>1, <2>1, CalmSettled DEF TerminalItemStatuses, Reasons, Counters
    <2> QED
      BY <1>4, <1>6, <2>2 DEF BlockClaimLost
  <1>7. ASSUME Claim(i)
        PROVE  \A j \in Items : Calm(j)
    <2>1. Scheduled(i) /\ item[i].status \in PendingItemStatuses
      BY <1>3, <1>7 DEF Claim
    <2>2. \A j \in Items : CalmItem(j)
      BY <1>1, <1>7, <2>1 DEF Claim, CalmItem, PendingItemStatuses, Absent, TypeOK
    <2> QED
      BY <1>4, <1>7, <2>2 DEF Claim
  <1>8. ASSUME ExpireLease(i)
        PROVE  \A j \in Items : Calm(j)
    <2>1. Scheduled(i)
      BY <1>1, <1>8 DEF ExpireLease, ItemInv, OneEngine
    <2>2. \A j \in Items : CalmItem(j)
      BY <1>1, <1>8, <2>1 DEF ExpireLease, CalmItem, TypeOK
    <2> QED
      BY <1>4, <1>8, <2>2 DEF ExpireLease
  <1> QED
    BY <1>2, <1>5, <1>6, <1>7, <1>8 DEF DispatcherStep, ClaimQueued, ReclaimExpired

LEMMA PaidBatch ==
  ASSUME PaidInv, NEW i \in Items, BatchStep(i), \A j \in Items : CalmRun(j)
  PROVE  \A j \in Items : ItemInv(j)'
PROOF
  <1>1. TypeOK /\ \A j \in Items : ItemInv(j)
    BY DEF PaidInv
  <1>2. \A j \in Items : Calm(j) => ItemInv(j)'
    BY <1>1, CalmSteps
  <1>3. task[i] # "none" => /\ Linked(i) /\ Scheduled(i)
                            /\ item[i].status \notin {Absent, "queued"}
    BY <1>1 DEF ItemInv, OneEngine, NothingBeforeLink
  <1>4. ASSUME PrepareDeferredBatch(i)
        PROVE  \A j \in Items : Calm(j)
    <2>1. item[i].status = "running" /\ Scheduled(i)
      BY <1>1, <1>4 DEF PrepareDeferredBatch, LinkClaimed, ItemInv, OneEngine
    <2>2. \A j \in Items : CalmItem(j)
      BY <1>1, <1>4, CalmApplied DEF PrepareDeferredBatch
    <2>3. \A j \in Items : CalmCheck(j)
      <3>1. CloseCheck(i, "deferred")
        BY <1>4 DEF PrepareDeferredBatch, LinkClaimed, CloseCheck
      <3>2. item'[i].status \notin {Absent, "queued"}
        BY <2>1, <2>2 DEF CalmItem, Absent
      <3> QED
        BY <1>1, <3>1, <3>2, CalmCheckClosed DEF TerminalCheckStatuses
    <2>4. \A j \in Items : CalmTask(j)
      BY <1>1, <1>4, <2>1
         DEF PrepareDeferredBatch, LinkClaimed, CalmTask, TypeOK
    <2> QED
      BY <1>4, <2>2, <2>3, <2>4, CalmUnchanged DEF PrepareDeferredBatch, Calm, flowvars
  <1>5. ASSUME NEW verdict \in {"completed", "failed", "deferred"},
               SettleTask(i, verdict), task[i] # "none",
               UNCHANGED <<flow, attempt, sends>>,
               \A j \in Items : evidence'[j] => evidence[j]
        PROVE  \A j \in Items : Calm(j)
    <2>1. \A j \in Items : CalmFlow(j)
      BY <1>5 DEF CalmFlow
    <2>2. CASE check[i].status = "running"
      <3>1. \A j \in Items : CalmItem(j)
        BY <1>1, <1>5, <2>2, CalmApplied DEF SettleTask
      <3>2. \A j \in Items : CalmCheck(j)
        <4>1. item'[i].status \notin {Absent, "queued"}
          BY <1>3, <1>5, <3>1 DEF CalmItem
        <4> QED
          BY <1>1, <1>5, <2>2, <4>1, CalmCheckClosed DEF SettleTask, TerminalCheckStatuses
      <3>3. \A j \in Items : CalmTask(j)
        BY <1>1, <1>3, <1>5, <2>2 DEF SettleTask, CloseCheck, CalmTask, TypeOK
      <3> QED
        BY <1>5, <2>1, <3>1, <3>2, <3>3 DEF Calm
    <2>3. CASE check[i].status # "running"
      <3>1. UNCHANGED <<item, check>> /\ task' = [task EXCEPT ![i] = check[i].status]
        BY <1>5, <2>3 DEF SettleTask
      <3>2. \A j \in Items : CalmTask(j)
        BY <1>1, <1>3, <1>5, <3>1 DEF CalmTask, Linked, TypeOK, CheckStatuses
      <3> QED
        BY <1>5, <2>1, <3>1, <3>2, CalmUnchanged DEF Calm
    <2> QED
      BY <2>2, <2>3
  <1>6. ASSUME PersistBatchResult(i)
        PROVE  \A j \in Items : Calm(j)
    <2>1. \A j \in Items : evidence'[j] => evidence[j]
      BY <1>1, <1>6 DEF PersistBatchResult, TypeOK
    <2> QED
      BY <1>5, <1>6, <2>1 DEF PersistBatchResult
  <1>7. ASSUME DeferBatch(i)
        PROVE  \A j \in Items : Calm(j)
    BY <1>5, <1>7 DEF DeferBatch, ActiveTaskStates, flowvars
  <1>8. ASSUME RetainBatchResult(i)
        PROVE  \A j \in Items : Calm(j)
    <2>1. \A j \in Items : CalmFlow(j)
      BY <1>1, <1>3, <1>8 DEF RetainBatchResult, CalmFlow, TypeOK
    <2> QED
      BY <1>8, <2>1, CalmUnchanged DEF RetainBatchResult, Calm, dbvars
  <1>9. ASSUME PrepareBatch(i)
        PROVE  \A j \in Items : ItemInv(j)'
    <2>1. /\ item[i].status = "running" /\ ~Linked(i) /\ Scheduled(i)
          /\ UNCHANGED <<run, flow, attempt, sends, evidence>>
      BY <1>1, <1>9 DEF PrepareBatch, LinkClaimed, ItemInv, OneEngine, flowvars
    <2>2. ASSUME NEW j \in Items, j # i
          PROVE  Calm(j)
      BY <1>1, <1>9, <2>2
         DEF PrepareBatch, LinkClaimed, Calm, CalmItem, CalmCheck, CalmTask, CalmFlow,
             flowvars, TypeOK
    <2>3. ItemInv(i)
      BY <1>1
    <2>4. /\ item'[i].status = "running"
          /\ check'[i].status = "running" /\ task'[i] = "prepared"
      BY <1>1, <1>9, <2>1 DEF PrepareBatch, LinkClaimed, TypeOK
    <2>5. OneEngine(i)'
      BY <2>1, <2>3 DEF ItemInv, OneEngine, Scheduled
    <2>6. NothingBeforeLink(i)'
      <3>1. run'[RunOf[i]].status \notin UnlaunchedRunStatuses
        BY <2>1, <2>3 DEF ItemInv, NothingBeforeLink, RunStatusOf, Absent
      <3> QED
        BY <2>4, <3>1 DEF NothingBeforeLink, Linked, RunStatusOf, Absent
    <2>7. OneHolder(i)'
      <3>1. sends[i] = 0 /\ \A n \in Tries : attempt[i][n] = "none"
        BY <2>1, <2>3 DEF ItemInv, NothingBeforeLink
      <3> QED
        BY <2>1, <3>1 DEF OneHolder
    <2> QED
      BY <1>2, <2>2, <2>5, <2>6, <2>7 DEF ItemInv
  <1>10. ASSUME SubmitBatch(i)
         PROVE  \A j \in Items : ItemInv(j)'
    <2>1. /\ task[i] = "prepared"
          /\ UNCHANGED <<run, item, check, flow, attempt, evidence>>
          /\ task' = [task EXCEPT ![i] = "submitted"]
          /\ sends' = [sends EXCEPT ![i] = @ + 1]
      BY <1>10 DEF SubmitBatch
    <2>2. ASSUME NEW j \in Items, j # i
          PROVE  Calm(j)
      BY <1>1, <2>1, <2>2 DEF Calm, CalmItem, CalmCheck, CalmTask, CalmFlow, TypeOK
    <2>3. ItemInv(i) /\ Scheduled(i) /\ Linked(i) /\ sends[i] = 0
      BY <1>1, <1>3, <2>1 DEF ItemInv, OneHolder
    <2>4. task'[i] = "submitted" /\ sends'[i] = 1
      BY <1>1, <2>1, <2>3 DEF TypeOK
    <2>5. OneEngine(i)'
      BY <2>1, <2>3 DEF ItemInv, OneEngine, Scheduled
    <2>6. NothingBeforeLink(i)'
      BY <2>1, <2>3 DEF ItemInv, NothingBeforeLink, Linked, RunStatusOf
    <2>7. OneHolder(i)'
      <3>1. \A n \in Tries : attempt[i][n] # "won"
        BY <2>3 DEF ItemInv, OneEngine
      <3> QED
        BY <2>1, <2>3, <2>4, <3>1 DEF OneHolder, Scheduled
    <2> QED
      BY <1>2, <2>2, <2>5, <2>6, <2>7 DEF ItemInv
  <1> QED
    BY <1>2, <1>4, <1>6, <1>7, <1>8, <1>9, <1>10 DEF BatchStep

LEMMA PaidPlanner ==
  ASSUME PaidInv, PlannerStep, \A j \in Items : CalmRun(j)
  PROVE  \A j \in Items : ItemInv(j)'
PROOF
  <1>1. TypeOK /\ \A j \in Items : ItemInv(j)
    BY DEF PaidInv
  <1>2. \A j \in Items : Calm(j) => ItemInv(j)'
    BY <1>1, CalmSteps
  <1>3. ASSUME NEW r \in Runs, LaunchPlannedRun(r)
        PROVE  \A j \in Items : ItemInv(j)'
    <2>1. UNCHANGED <<check, task, flow, attempt, sends, evidence>>
      BY <1>3 DEF LaunchPlannedRun, flowvars
    <2>2. /\ run[r].status \in UnlaunchedRunStatuses
          /\ run'[r].status \notin UnlaunchedRunStatuses
      BY <1>1, <1>3, Launched DEF LaunchPlannedRun, UnlaunchedRunStatuses
    <2>3. ASSUME NEW j \in Items, item'[j] = item[j]
          PROVE  ItemInv(j)'
      BY <1>2, <2>1, <2>3 DEF Calm, CalmItem, CalmCheck, CalmTask, CalmFlow
    <2>4. ASSUME NEW j \in Items, RunOf[j] = r,
                 item'[j] = [item[j] EXCEPT !.status = "queued"]
          PROVE  ItemInv(j)'
      <3>1. ItemInv(j) /\ item[j].status = Absent /\ ~Linked(j)
        BY <1>1, <2>2, <2>4 DEF ItemInv, NothingBeforeLink, RunStatusOf
      <3>2. item'[j].status = "queued" /\ item'[j].lease = item[j].lease
        BY <1>1, <2>4 DEF TypeOK
      <3>3. OneEngine(j)'
        BY <2>1, <3>1, <3>2 DEF ItemInv, OneEngine, Scheduled
      <3>4. NothingBeforeLink(j)'
        BY <2>1, <2>2, <2>4, <3>1, <3>2 DEF ItemInv, NothingBeforeLink, Linked, RunStatusOf
      <3>5. OneHolder(j)'
        BY <2>1, <3>1 DEF ItemInv, OneHolder, Claimable, Scheduled
      <3> QED
        BY <3>3, <3>4, <3>5 DEF ItemInv
    <2> QED
      BY <1>1, <1>3, <2>3, <2>4, Launched
  <1>4. ASSUME NEW r \in Runs, BlockPlannedRun(r) \/ ExpireBlockedRun(r) \/ SkipPlannedRun(r)
        PROVE  \A j \in Items : Calm(j)
    <2>1. UNCHANGED <<item, check, task, flow, attempt, sends, evidence>>
      BY <1>4 DEF BlockPlannedRun, ExpireBlockedRun, SkipPlannedRun, SetRun, flowvars
    <2> QED
      BY <2>1, CalmUnchanged DEF Calm
  <1>5. ASSUME NEW k \in Keywords, PauseKeyword(k)
        PROVE  \A j \in Items : Calm(j)
    BY <1>5, CalmUnchanged DEF PauseKeyword, Calm, dbvars, flowvars
  <1> QED
    BY <1>2, <1>3, <1>4, <1>5 DEF PlannerStep

LEMMA PaidMaintenance ==
  ASSUME PaidInv, MaintenanceStep, \A j \in Items : CalmRun(j)
  PROVE  \A j \in Items : ItemInv(j)'
PROOF
  <1>1. TypeOK /\ \A j \in Items : ItemInv(j)
    BY DEF PaidInv
  <1>2. \A j \in Items : Calm(j) => ItemInv(j)'
    BY <1>1, CalmSteps
  <1>3. ASSUME NEW i \in Items, MarkStaleRunningCheck(i)
        PROVE  \A j \in Items : Calm(j)
    <2>1. item[i].status \notin {Absent, "queued"}
      BY <1>1, <1>3 DEF MarkStaleRunningCheck, ItemInv, NothingBeforeLink, Linked
    <2>2. \A j \in Items : CalmItem(j)
      BY <1>1, <1>3, CalmApplied DEF MarkStaleRunningCheck
    <2>3. \A j \in Items : CalmCheck(j)
      <3>1. item'[i].status \notin {Absent, "queued"}
        BY <2>1, <2>2 DEF CalmItem
      <3> QED
        BY <1>1, <1>3, <3>1, CalmCheckClosed DEF MarkStaleRunningCheck, TerminalCheckStatuses
    <2> QED
      BY <1>3, <2>2, <2>3, CalmUnchanged DEF MarkStaleRunningCheck, Calm, flowvars
  <1>4. ASSUME NEW i \in Items, PurgeBatch(i)
        PROVE  \A j \in Items : Calm(j)
    <2>1. Scheduled(i) /\ Linked(i)
      BY <1>1, <1>4 DEF PurgeBatch, ItemInv, OneEngine, NothingBeforeLink
    <2>2. \A j \in Items : CalmTask(j)
      BY <1>1, <1>4, <2>1 DEF PurgeBatch, CalmTask, Linked, TypeOK
    <2> QED
      BY <1>4, <2>2, CalmUnchanged DEF PurgeBatch, Calm, flowvars
  <1>5. ASSUME NEW i \in Items, RestoreRetainedResult(i)
        PROVE  \A j \in Items : Calm(j)
    <2>1. Linked(i) /\ item[i].status \notin {Absent, "queued"}
      BY <1>1, <1>5 DEF RestoreRetainedResult, ItemInv, NothingBeforeLink
    <2>2. \A j \in Items : CalmFlow(j)
      BY <1>1, <1>5 DEF RestoreRetainedResult, CalmFlow, TypeOK
    <2>3. sends' = sends
      BY <1>5 DEF RestoreRetainedResult
    <2>4. CASE UNCHANGED dbvars
      BY <2>2, <2>3, <2>4, CalmUnchanged DEF Calm, dbvars
    <2>5. CASE /\ CloseCheck(i, "completed")
               /\ task' = [task EXCEPT ![i] = IF @ = "none" THEN @ ELSE "completed"]
               /\ RecoverRunItem(i)
      <3>1. \A j \in Items : CalmItem(j)
        <4>1. item' = item \/ ItemClosed(i, "completed", item[i].reason)
          BY <1>1, <2>5, RecoveredItem
        <4> QED
          BY <2>1, <4>1, CalmUnchanged DEF ItemClosed, CalmItem, Absent
      <3>2. \A j \in Items : CalmCheck(j)
        <4>1. item'[i].status \notin {Absent, "queued"}
          BY <2>1, <3>1 DEF CalmItem
        <4> QED
          BY <1>1, <2>5, <4>1, CalmCheckClosed DEF TerminalCheckStatuses
      <3>3. \A j \in Items : CalmTask(j)
        <4>1. task[i] # "none" => Scheduled(i)
          BY <1>1 DEF ItemInv, OneEngine
        <4> QED
          BY <1>1, <2>5, <4>1 DEF CloseCheck, CalmTask, TypeOK
      <3> QED
        BY <2>2, <2>3, <3>1, <3>2, <3>3 DEF Calm
    <2> QED
      BY <1>5, <2>4, <2>5 DEF RestoreRetainedResult
  <1>6. ASSUME NEW i \in Items, LoseRetainedResult(i)
        PROVE  \A j \in Items : Calm(j)
    <2>1. \A j \in Items : CalmFlow(j)
      BY <1>1, <1>6 DEF LoseRetainedResult, CalmFlow, TypeOK
    <2> QED
      BY <1>6, <2>1, CalmUnchanged DEF LoseRetainedResult, Calm, dbvars
  <1>7. ASSUME NEW r \in Runs, SweepList(r)
        PROVE  \A j \in Items : Calm(j)
    BY <1>7, CalmUnchanged DEF SweepList, Calm, dbvars, flowvars
  <1>8. ASSUME SweepCount \/ SweepWrite
        PROVE  \A j \in Items : Calm(j)
    BY <1>8, CalmUnchanged DEF SweepCount, SweepWrite, Calm, dbvars, flowvars
  <1> QED
    BY <1>2, <1>3, <1>4, <1>5, <1>6, <1>7, <1>8 DEF MaintenanceStep

LEMMA PaidCancel ==
  ASSUME PaidInv, NEW r \in Runs, CancelStep(r), \A j \in Items : CalmRun(j)
  PROVE  \A j \in Items : ItemInv(j)'
PROOF
  <1>1. TypeOK /\ \A j \in Items : ItemInv(j)
    BY DEF PaidInv
  <1>2. \A j \in Items : Calm(j) => ItemInv(j)'
    BY <1>1, CalmSteps
  <1>3. ASSUME CancelRead(r) \/ CancelCrash(r)
        PROVE  \A j \in Items : Calm(j)
    BY <1>3, CalmUnchanged DEF CancelRead, CancelCrash, Calm, dbvars, flowvars
  <1>4. ASSUME CancelCommit(r)
        PROVE  \A j \in Items : Calm(j)
    <2>1. UNCHANGED <<check, flow, attempt, sends, evidence>>
      BY <1>4 DEF CancelCommit, flowvars
    <2>2. \/ UNCHANGED <<item, task>>
          \/ /\ item' = [i \in Items |->
                           IF i \in {m \in ItemsOf(r) : Cancellable(m)}
                           THEN [item[i] EXCEPT !.status = "cancelled", !.lease = "none"]
                           ELSE item[i]]
             /\ task' = [i \in Items |->
                           IF RunOf[i] = r /\ task[i] = "prepared" THEN "deferred"
                                                                   ELSE task[i]]
      BY <1>4 DEF CancelCommit
    <2>3. \A j \in Items : CalmItem(j)
      <3>1. \A j \in Items : Cancellable(j) => item[j].status # Absent
        BY DEF Cancellable, Absent
      <3>2. \A j \in Items :
              \/ item'[j] = item[j]
              \/ /\ Cancellable(j)
                 /\ item'[j].status = "cancelled" /\ item'[j].lease = "none"
        <4> SUFFICES ASSUME NEW j \in Items, item'[j] # item[j]
                     PROVE  /\ Cancellable(j)
                            /\ item'[j].status = "cancelled" /\ item'[j].lease = "none"
          OBVIOUS
        <4>1. /\ Cancellable(j)
              /\ item'[j] = [item[j] EXCEPT !.status = "cancelled", !.lease = "none"]
          BY <2>2
        <4>2. item[j] \in ItemRow
          BY <1>1 DEF TypeOK, ItemRow
        <4> QED
          BY <4>1, <4>2 DEF ItemRow
      <3> QED
        BY <3>1, <3>2 DEF CalmItem, Absent
    <2>4. \A j \in Items : CalmTask(j)
      <3>1. \A j \in Items : task[j] = "prepared" => Scheduled(j) /\ check[j].status # "none"
        BY <1>1 DEF ItemInv, OneEngine, NothingBeforeLink, Linked
      <3> QED
        BY <2>1, <2>2, <3>1 DEF CalmTask
    <2> QED
      BY <2>1, <2>3, <2>4, CalmUnchanged DEF Calm
  <1>5. ASSUME NEW i \in Items, CloseRankCheckAsCancelled(r, i)
        PROVE  \A j \in Items : Calm(j)
    <2>1. \A j \in Items : CalmFlow(j)
      <3>1. Scheduled(i) => flow[i] = "idle"
        BY <1>1 DEF ItemInv, OneEngine
      <3>2. \A j \in Items : flow'[j] = flow[j] \/ ~Scheduled(j)
        BY <1>1, <1>5, <3>1 DEF CloseRankCheckAsCancelled, TypeOK
      <3> QED
        BY <1>5, <3>2 DEF CloseRankCheckAsCancelled, CalmFlow
    <2>2. task' = task /\ sends' = sends
      BY <1>5 DEF CloseRankCheckAsCancelled
    <2>3. CASE check[i].status # "running"
      <3>1. UNCHANGED <<item, check>>
        BY <1>5, <2>3 DEF CloseRankCheckAsCancelled
      <3> QED
        BY <2>1, <2>2, <3>1, CalmUnchanged DEF Calm
    <2>4. CASE check[i].status = "running"
      <3>1. item[i].status \notin {Absent, "queued"}
        BY <1>1, <2>4 DEF ItemInv, NothingBeforeLink, Linked
      <3>2. \/ \E s \in ActiveRunStatuses : SettleItem(i, "cancelled", "none", "cancelled", s)
            \/ item' = item
        BY <1>5, <2>4 DEF CloseRankCheckAsCancelled
      <3>3. \A j \in Items : CalmItem(j)
        BY <1>1, <3>1, <3>2, CalmSettled, CalmUnchanged
           DEF TerminalItemStatuses, Reasons, Counters
      <3>4. item'[i].status \notin {Absent, "queued"}
        BY <3>1, <3>3 DEF CalmItem
      <3>5. CloseCheck(i, "failed")
        BY <1>5, <2>4 DEF CloseRankCheckAsCancelled
      <3>6. \A j \in Items : CalmCheck(j)
        BY <1>1, <3>4, <3>5, CalmCheckClosed DEF TerminalCheckStatuses
      <3> QED
        BY <2>1, <2>2, <3>3, <3>6, CalmUnchanged DEF Calm
    <2> QED
      BY <2>3, <2>4
  <1> QED
    BY <1>2, <1>3, <1>4, <1>5 DEF CancelStep

-----------------------------------------------------------------------------
LEMMA PaidInit == Init => PaidInv
PROOF
  <1> SUFFICES ASSUME Init, NEW i \in Items PROVE ItemInv(i)
    BY InitTypes DEF PaidInv
  <1>1. OneEngine(i)
    BY DEF Init, OneEngine
  <1>2. NothingBeforeLink(i)
    BY ContractAssumption
       DEF Init, NothingBeforeLink, RunStatusOf, Linked, UnlaunchedRunStatuses
  <1>3. OneHolder(i)
    BY DEF Init, OneHolder
  <1> QED
    BY <1>1, <1>2, <1>3 DEF ItemInv

LEMMA PaidStep == PaidInv /\ [Next]_vars => PaidInv'
PROOF
  <1> SUFFICES ASSUME PaidInv, [Next]_vars
               PROVE  \A j \in Items : ItemInv(j)'
    BY StepTypes DEF PaidInv
  <1>1. TypeOK
    BY DEF PaidInv
  <1>2. CASE UNCHANGED vars
    BY <1>2 DEF PaidInv, ItemInv, OneEngine, NothingBeforeLink, OneHolder, Claimable,
                Linked, Scheduled, RunStatusOf, vars, dbvars, flowvars
  <1>3. CASE Next
    <2>1. \A j \in Items : CalmRun(j)
      BY <1>1, <1>3, NoReturn
    <2> QED
      BY <1>3, <2>1, PaidPlanner, PaidWorkflow, PaidAttempt, PaidDispatcher, PaidBatch,
         PaidMaintenance, PaidCancel DEF Next
  <1> QED
    BY <1>2, <1>3

LEMMA PaidInvariant == Spec => []PaidInv
PROOF
  BY PaidInit, PaidStep, PTL DEF Spec

\* The provider is called at most once for a target, however many attempts,
\* workers, claims, batches, sweeps and cancel commands overlap: the fence on
\* the check row is passed once in the life of the check, although the stale
\* sweep and a discarded check reset it (worker-claim.ts, stale-checks.ts,
\* queued-submit-claim.ts).
THEOREM NothingIsPaidTwice == Spec => []PaidOnce
PROOF
  <1>1. PaidInv => PaidOnce
    BY DEF PaidInv, ItemInv, OneHolder, PaidOnce
  <1> QED
    BY <1>1, PaidInvariant, PTL

=============================================================================

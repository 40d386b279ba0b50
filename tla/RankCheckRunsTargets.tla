------------------------ MODULE RankCheckRunsTargets ------------------------
(***************************************************************************)
(* What becomes of targets and runs, for every instance of RankCheckRuns:  *)
(* verdicts are final, reports and counters say what the items say, and    *)
(* the whole of it implements RunLedger, the ledger of runs that its users *)
(* may rely on.                                                            *)
(***************************************************************************)
EXTENDS RankCheckRunsProofs, RankCheckRunsLedger

-----------------------------------------------------------------------------
(***************************************************************************)
(* What becomes of targets and runs: the proofs, for every instance of     *)
(* RankCheckRuns, that an item and its check never contradict each other,  *)
(* that an item cancelled for free bought nothing, that a verdict is final *)
(* and that a finished run keeps its row.                                  *)
(*                                                                         *)
(* A check is closed by whoever comes first (its attempt, a batch, a       *)
(* command, a sweep, a restored result) and the item follows in the same   *)
(* transaction, unless it was given up or cancelled before.  The invariant *)
(* says what was bought for an item by then: what is kept was paid for,    *)
(* and an item is cancelled before anything was bought for it, or together *)
(* with its run, whose restored results are refused.                       *)
(***************************************************************************)

CancelStatuses == {"cancelling", "cancelled"}

\* Nothing was bought for an item and nobody can buy any more.
Untouched(i) ==
  /\ sends[i] = 0 /\ check[i].status # "running" /\ task[i] # "prepared"
  /\ \A n \in Tries : attempt[i][n] # "won"

Unconfirmed(i) == item[i].status = "blocked" /\ item[i].reason = "send_unconfirmed"

\* The item and its check do not contradict each other.
Agrees(i) ==
  /\ check[i].status = "running" => item[i].status = "running" \/ Unconfirmed(i)
  /\ check[i].status \in {"completed", "deferred"} =>
       item[i].status = check[i].status \/ Unconfirmed(i)
  /\ item[i].status \in {"completed", "running"} /\ Linked(i) =>
       check[i].status = item[i].status

\* What is kept or accepted was paid for.
SentFirst(i) ==
  evidence[i] \/ task[i] = "submitted" \/ (\E n \in Tries : attempt[i][n] = "sent")
    => sends[i] # 0

\* An item is cancelled before anything was bought for it, or with its run.
Excused(i) ==
  item[i].status = "cancelled" =>
    \/ Untouched(i)
    \/ item[i].reason # "unrunnable" /\ RunStatusOf(i) \in CancelStatuses

\* A cancel command closes checks of its run, and only after it cancelled it.
CommandsKnow ==
  \A r \in Runs : /\ cancel[r].list \subseteq ItemsOf(r)
                  /\ cancel[r].pc = "close" => run[r].status \in CancelStatuses

TargetOK(i) == Agrees(i) /\ SentFirst(i) /\ Excused(i)
TargetInv == CommandsKnow /\ \A i \in Items : TargetOK(i)

-----------------------------------------------------------------------------
(* A cancelled run stays cancelled, whatever settles its items.            *)

CancelsStay ==
  \A r \in Runs : run[r].status \in CancelStatuses => run'[r].status \in CancelStatuses

LEMMA FinalizedCancelled ==
  ASSUME NEW r, NEW row, NEW statuses, NEW seen, row.status \in CancelStatuses
  PROVE  FinalizeRankCheckRun(r, row, statuses, seen).status \in CancelStatuses
PROOF
  <1>1. CASE row.status = seen /\ seen \in ActiveRunStatuses
    <2>1. seen = "cancelling"
      BY <1>1 DEF CancelStatuses, ActiveRunStatuses
    <2>2. PICK outcome :
            outcome = OutcomeFromCounts(RunCountsFromItemGroups(r, statuses),
                                        TotalCount(r, statuses))
      OBVIOUS
    <2>3. FinalRunData(r, statuses, seen).status = "cancelled"
      BY <2>1, <2>2 DEF FinalRunData, NormalizeTerminalRunState
    <2> QED
      BY <2>3 DEF FinalizeRankCheckRun, CancelStatuses
  <1>2. CASE ~(row.status = seen /\ seen \in ActiveRunStatuses)
    BY <1>2 DEF FinalizeRankCheckRun
  <1> QED
    BY <1>1, <1>2

LEMMA CancelStaysFinalized ==
  ASSUME TypeOK, NEW r \in Runs, NEW row, row.status = run[r].status, NEW statuses, NEW seen,
         run' = [run EXCEPT ![r] = FinalizeRankCheckRun(r, row, statuses, seen)]
  PROVE  CancelsStay
PROOF
  <1>1. run[r].status \in CancelStatuses =>
          FinalizeRankCheckRun(r, row, statuses, seen).status \in CancelStatuses
    BY FinalizedCancelled
  <1> QED
    BY <1>1 DEF CancelsStay, TypeOK

LEMMA CancelStaysSettled ==
  ASSUME TypeOK, NEW i \in Items, NEW status, NEW reason, NEW counter \in Counters, NEW seen,
         SettleItem(i, status, reason, counter, seen)
  PROVE  CancelsStay
PROOF
  <1>1. PICK r \in Runs : r = RunOf[i]
    BY ContractAssumption
  <1>2. PICK row : row = Count(run[r], counter)
    OBVIOUS
  <1>3. row.status = run[r].status
    BY <1>2 DEF Count, TypeOK
  <1>4. PICK statuses : statuses = [j \in Items |-> item'[j].status]
    OBVIOUS
  <1>5. run' = [run EXCEPT ![r] = FinalizeRankCheckRun(r, row, statuses, seen)]
    BY <1>1, <1>2, <1>4 DEF SettleItem
  <1> QED
    BY <1>3, <1>5, CancelStaysFinalized

LEMMA CancelStaysApplied ==
  ASSUME TypeOK, NEW i \in Items, NEW to \in {"completed", "failed", "deferred"},
         ApplyRunItemTransition(i, to)
  PROVE  CancelsStay
PROOF
  <1>1. CASE run' = run
    BY <1>1 DEF CancelsStay
  <1>2. CASE SettleItem(i, to, item[i].reason, to, RunStatusOf(i))
    <2>1. PICK reason, seen : reason = item[i].reason /\ seen = RunStatusOf(i)
      OBVIOUS
    <2>2. SettleItem(i, to, reason, to, seen) /\ to \in Counters
      BY <1>2, <2>1 DEF Counters
    <2> QED
      BY <2>2, CancelStaysSettled
  <1> QED
    BY <1>1, <1>2 DEF ApplyRunItemTransition

LEMMA CancelStaysStarted ==
  ASSUME TypeOK, NEW r \in Runs, MarkRankCheckRunStarted(r)
  PROVE  CancelsStay
PROOF
  <1>1. /\ \A q \in Runs \ {r} : run'[q] = run[q]
        /\ run'[r].status = IF run[r].status = "queued" THEN "running" ELSE run[r].status
    BY TypeParts, StartedRun
  <1> QED
    BY <1>1 DEF CancelsStay, CancelStatuses

LEMMA CancelStaysStutter ==
  ASSUME run' = run
  PROVE  CancelsStay
PROOF
  BY DEF CancelsStay

\* The commit of a cancel command that goes on to close checks cancels the run.
LEMMA CommitCancels ==
  ASSUME TypeOK, NEW r \in Runs, CancelCommit(r)
  PROVE  /\ CancelsStay
         /\ cancel'[r].pc = "close" \/ item' # item => run'[r].status \in CancelStatuses
         /\ \A q \in Runs \ {r} : cancel'[q] = cancel[q]
PROOF
  <1>1. \A q \in Runs \ {r} : run'[q] = run[q]
    BY CommittedCancel
  <1>2. \A q \in Runs \ {r} : cancel'[q] = cancel[q]
    BY DEF CancelCommit, TypeOK
  <1>3. CASE run[r].status = "planned"
    <2>1. item' = item /\ cancel'[r].pc = "idle"
      BY <1>3 DEF CancelCommit, TypeOK
    <2> QED
      BY <1>1, <1>2, <1>3, <2>1 DEF CancelsStay, CancelStatuses
  <1>4. CASE run[r].status \in {"blocked", "queued", "running"}
    <2> DEFINE cancelled == {i \in ItemsOf(r) : Cancellable(i)}
    <2>1. PICK statuses, row :
            /\ row = [run[r] EXCEPT !.status = "cancelling",
                                    !.tally["cancelled"] = @ + Cardinality(cancelled)]
            /\ statuses = [i \in Items |-> IF i \in cancelled THEN "cancelled"
                                                              ELSE item[i].status]
      OBVIOUS
    <2>2. run' = [run EXCEPT ![r] = FinalizeRankCheckRun(r, row, statuses, "cancelling")]
      BY <1>4, <2>1 DEF CancelCommit, CancelledRun
    <2>3. row.status = "cancelling"
      BY <2>1 DEF TypeOK
    <2>4. FinalizeRankCheckRun(r, row, statuses, "cancelling").status \in CancelStatuses
      BY <2>3, FinalizedCancelled DEF CancelStatuses
    <2>5. run'[r].status \in CancelStatuses
      BY <2>2, <2>4 DEF TypeOK
    <2> QED
      BY <1>1, <1>2, <2>5 DEF CancelsStay
  <1>5. CASE run[r].status \notin {"planned", "blocked", "queued", "running"}
    <2>1. /\ UNCHANGED <<run, item>>
          /\ cancel' = [cancel EXCEPT ![r].pc = "idle", ![r].list = {}]
      BY <1>5 DEF CancelCommit
    <2>2. cancel'[r].pc = "idle"
      BY <2>1 DEF TypeOK
    <2> QED
      BY <1>2, <2>1, <2>2 DEF CancelsStay
  <1> QED
    BY <1>3, <1>4, <1>5

LEMMA CancelStaysSwept ==
  ASSUME TypeOK, SweepWrite
  PROVE  CancelsStay
PROOF
  <1>1. PICK r \in Runs : r = sweep.run
    BY DEF TypeOK
  <1>2. PICK seen, groups : seen = sweep.status /\ groups = sweep.groups
    OBVIOUS
  <1>3. PICK counts, greatest : /\ counts = RunCountsFromItemGroups(r, groups)
                                /\ greatest = GreatestTally(run[r], counts)
    OBVIOUS
  <1>4. greatest.status = run[r].status
    BY <1>3 DEF GreatestTally, TypeOK
  <1>5. run' = [run EXCEPT ![r] = IF PendingRunItems(r, groups) = {}
                                  THEN FinalizeRankCheckRun(r, run[r], groups, seen)
                                  ELSE IF run[r].status = seen THEN greatest ELSE run[r]]
    BY <1>1, <1>2, <1>3 DEF SweepWrite
  <1>6. run[r].status \in CancelStatuses =>
          FinalizeRankCheckRun(r, run[r], groups, seen).status \in CancelStatuses
    BY FinalizedCancelled
  <1>7. \A q \in Runs \ {r} : run'[q] = run[q]
    BY <1>5 DEF TypeOK
  <1>8. run[r].status \in CancelStatuses => run'[r].status \in CancelStatuses
    BY <1>4, <1>5, <1>6 DEF TypeOK
  <1> QED
    BY <1>7, <1>8 DEF CancelsStay

LEMMA CancelStaysAttempt ==
  ASSUME TypeOK, NEW i \in Items, NEW n \in Tries, AttemptStep(i, n)
  PROVE  CancelsStay
PROOF
  <1>1. CASE ClaimPaidCall(i, n) \/ SendPaidCall(i, n) \/ RetainRankResult(i, n)
             \/ AttemptTimesOut(i, n) \/ PaidCallFails(i, n) \/ LosePaidCall(i, n)
    <2>1. run' = run
      BY <1>1 DEF ClaimPaidCall, SendPaidCall, RetainRankResult, AttemptTimesOut,
                  PaidCallFails, LosePaidCall, dbvars
    <2> QED
      BY <2>1, CancelStaysStutter
  <1>2. CASE StopUnrunnable(i, n)
    <2>1. \/ \E s \in ActiveRunStatuses :
               SettleItem(i, "cancelled", "unrunnable", "cancelled", s)
          \/ run' = run
      BY <1>2 DEF StopUnrunnable
    <2> QED
      BY <2>1, CancelStaysSettled, CancelStaysStutter DEF Counters
  <1>3. CASE FinalizeAfterLostCall(i, n)
    <2>1. PICK s \in ActiveRunStatuses :
            run' = [run EXCEPT ![RunOf[i]] =
                      FinalizeRankCheckRun(RunOf[i], run[RunOf[i]], ItemStatusOf, s)]
      BY <1>3 DEF FinalizeAfterLostCall
    <2>2. PICK r \in Runs : r = RunOf[i]
      BY ContractAssumption
    <2>3. PICK statuses, row : statuses = ItemStatusOf /\ row = run[r]
      OBVIOUS
    <2>4. run' = [run EXCEPT ![r] = FinalizeRankCheckRun(r, row, statuses, s)]
      BY <2>1, <2>2, <2>3
    <2> QED
      BY <2>3, <2>4, CancelStaysFinalized
  <1>4. CASE PersistRankCheck(i, n)
    BY <1>4, CancelStaysApplied, CancelStaysStutter DEF PersistRankCheck
  <1> QED
    BY <1>1, <1>2, <1>3, <1>4 DEF AttemptStep

LEMMA CancelStaysItem ==
  ASSUME TypeOK, NEW i \in Items, WorkflowStep(i) \/ DispatcherStep(i) \/ BatchStep(i)
  PROVE  CancelsStay
PROOF
  <1>1. PICK r \in Runs : r = RunOf[i]
    BY ContractAssumption
  <1>2. CASE StartRunItem(i) \/ CreateHitsBusyKeyword(i) \/ RetryAfterBusyKeyword(i)
             \/ CreateGivesUp(i) \/ ClosingActivityLost(i) \/ ExpireLease(i)
             \/ PrepareBatch(i) \/ SubmitBatch(i) \/ RetainBatchResult(i)
    <2>1. run' = run
      BY <1>2 DEF StartRunItem, CreateHitsBusyKeyword, RetryAfterBusyKeyword, CreateGivesUp,
           ClosingActivityLost, ExpireLease, PrepareBatch, SubmitBatch, RetainBatchResult,
           dbvars
    <2> QED
      BY <2>1, CancelStaysStutter
  <1>3. CASE CreateRunningRankCheck(i) \/ Claim(i)
    BY <1>1, <1>3, CancelStaysStarted DEF CreateRunningRankCheck, Claim
  <1>4. CASE DeferRunItemForBusyKeyword(i) \/ CancelUnrunnableCandidate(i) \/ BlockClaimLost(i)
    BY <1>4, CancelStaysSettled
       DEF DeferRunItemForBusyKeyword, CancelUnrunnableCandidate, BlockClaimLost, Counters
  <1>5. CASE FailRankCheck(i) \/ DiscardRankCheck(i) \/ PrepareDeferredBatch(i)
    BY <1>5, CancelStaysApplied, CancelStaysStutter
       DEF FailRankCheck, DiscardRankCheck, PrepareDeferredBatch
  <1>6. ASSUME NEW verdict \in {"completed", "failed", "deferred"}, SettleTask(i, verdict)
        PROVE  CancelsStay
    BY <1>6, CancelStaysApplied, CancelStaysStutter DEF SettleTask
  <1>7. CASE PersistBatchResult(i) \/ DeferBatch(i)
    BY <1>6, <1>7 DEF PersistBatchResult, DeferBatch
  <1> QED
    BY <1>2, <1>3, <1>4, <1>5, <1>7
       DEF WorkflowStep, DispatcherStep, BatchStep, ClaimQueued, ReclaimExpired

LEMMA CancelStaysMaintenance ==
  ASSUME TypeOK, PlannerStep \/ MaintenanceStep
  PROVE  CancelsStay
PROOF
  <1>1. ASSUME NEW r \in Runs, LaunchPlannedRun(r)
        PROVE  CancelsStay
    <2>1. \A q \in Runs \ {r} : run'[q] = run[q]
      BY <1>1, Launched
    <2> QED
      BY <1>1, <2>1 DEF LaunchPlannedRun, CancelsStay, CancelStatuses
  <1>2. ASSUME NEW r \in Runs, BlockPlannedRun(r) \/ ExpireBlockedRun(r) \/ SkipPlannedRun(r)
        PROVE  CancelsStay
    <2>1. /\ run[r].status \notin CancelStatuses
          /\ \A q \in Runs \ {r} : run'[q] = run[q]
      BY <1>2
         DEF BlockPlannedRun, ExpireBlockedRun, SkipPlannedRun, SetRun, TypeOK, CancelStatuses
    <2> QED
      BY <2>1 DEF CancelsStay
  <1>3. ASSUME \/ \E k \in Keywords : PauseKeyword(k)
               \/ \E i \in Items : PurgeBatch(i) \/ LoseRetainedResult(i)
               \/ \E r \in Runs : SweepList(r)
               \/ SweepCount
        PROVE  CancelsStay
    BY <1>3, CancelStaysStutter
       DEF PauseKeyword, PurgeBatch, LoseRetainedResult, SweepList, SweepCount, dbvars
  <1>4. ASSUME NEW i \in Items, MarkStaleRunningCheck(i)
        PROVE  CancelsStay
    BY <1>4, CancelStaysApplied DEF MarkStaleRunningCheck
  <1>5. ASSUME NEW i \in Items, RestoreRetainedResult(i)
        PROVE  CancelsStay
    <2>1. CASE run' = run
      BY <2>1, CancelStaysStutter
    <2>2. CASE RecoverRunItem(i) /\ RunStatusOf(i) \notin CancelStatuses
      BY <2>2, RecoveredItem DEF RunSettled, RunStatusOf, CancelsStay
    <2> QED
      BY <1>5, <2>1, <2>2 DEF RestoreRetainedResult, CancelStatuses, dbvars
  <1> QED
    BY <1>1, <1>2, <1>3, <1>4, <1>5, CancelStaysSwept DEF PlannerStep, MaintenanceStep

LEMMA CancelStaysCancel ==
  ASSUME TypeOK, NEW r \in Runs, CancelStep(r)
  PROVE  CancelsStay
PROOF
  <1>1. CASE CancelRead(r) \/ CancelCrash(r)
    BY <1>1, CancelStaysStutter DEF CancelRead, CancelCrash, dbvars
  <1>2. ASSUME NEW i \in Items, CloseRankCheckAsCancelled(r, i)
        PROVE  CancelsStay
    BY <1>2, CancelStaysSettled, CancelStaysStutter DEF CloseRankCheckAsCancelled, Counters
  <1> QED
    BY <1>1, <1>2, CommitCancels DEF CancelStep

-----------------------------------------------------------------------------
(* What a step may do to item j.                                           *)

\* Nothing is bought for it, and nobody comes nearer to that.
Passive(j) ==
  /\ task'[j] = task[j] \/ task'[j] \notin {"prepared", "submitted"}
  /\ sends'[j] = sends[j]
  /\ evidence'[j] => evidence[j] \/ sends[j] # 0
  /\ \A n \in Tries : attempt'[j][n] \in {"won", "sent"} => attempt'[j][n] = attempt[j][n]

\* Its item and its check keep their verdicts.
RowKept(j) ==
  /\ item'[j].status = item[j].status /\ item'[j].reason = item[j].reason
  /\ check'[j].status = check[j].status

\* They get verdicts that agree.
RowAgrees(j) ==
  \/ check'[j].status = "none"
  \/ item'[j].status = "blocked" /\ item'[j].reason = "send_unconfirmed"
  \/ check'[j].status = item'[j].status
  \/ check'[j].status = "failed" /\ item'[j].status \notin {"completed", "running"}

\* It is not cancelled, or not without an excuse.
RowExcused(j) ==
  \/ item'[j].status # "cancelled"
  \/ Untouched(j)'
  \/ item'[j].reason # "unrunnable" /\ run'[RunOf[j]].status \in CancelStatuses

LEMMA KeptTarget ==
  ASSUME NEW j \in Items, TargetOK(j), CancelsStay, Passive(j), RowKept(j)
  PROVE  TargetOK(j)'
PROOF
  <1>1. Agrees(j) /\ SentFirst(j) /\ Excused(j)
    BY DEF TargetOK
  <1>2. Agrees(j)'
    BY <1>1 DEF Agrees, Unconfirmed, Linked, RowKept
  <1>3. SentFirst(j)'
    BY <1>1 DEF SentFirst, Passive
  <1>4. Excused(j)'
    <2>1. Untouched(j) => Untouched(j)'
      BY DEF Untouched, Passive, RowKept
    <2>2. RunStatusOf(j) \in CancelStatuses => RunStatusOf(j)' \in CancelStatuses
      BY ContractAssumption DEF RunStatusOf, CancelsStay
    <2> QED
      BY <1>1, <2>1, <2>2 DEF Excused, RowKept
  <1> QED
    BY <1>2, <1>3, <1>4 DEF TargetOK

LEMMA ChangedTarget ==
  ASSUME NEW j \in Items, TargetOK(j), Passive(j), RowAgrees(j), RowExcused(j)
  PROVE  TargetOK(j)'
PROOF
  <1>1. SentFirst(j)'
    BY DEF TargetOK, SentFirst, Passive
  <1>2. Agrees(j)'
    BY DEF RowAgrees, Agrees, Unconfirmed, Linked
  <1>3. Excused(j)'
    BY DEF RowExcused, Excused, RunStatusOf
  <1> QED
    BY <1>1, <1>2, <1>3 DEF TargetOK

LEMMA PassiveStep ==
  ASSUME NEW j, UNCHANGED <<task, sends, evidence, attempt>>
  PROVE  Passive(j)
PROOF
  BY DEF Passive

LEMMA PassiveAttempt ==
  ASSUME TypeOK, NEW i \in Items, NEW n \in Tries, NEW from, NEW to,
         StepAttempt(i, n, from, to), to \notin {"won", "sent"},
         UNCHANGED <<task, sends, evidence>>
  PROVE  \A j \in Items : Passive(j)
PROOF
  BY DEF StepAttempt, Passive, TypeOK

\* Item i and its check get new verdicts and nothing else changes.
LEMMA OneChanges ==
  ASSUME \A j \in Items : TargetOK(j), CancelsStay, NEW i \in Items,
         \A j \in Items : Passive(j),
         \A j \in Items \ {i} : item'[j] = item[j] /\ check'[j] = check[j],
         RowKept(i) \/ (RowAgrees(i) /\ RowExcused(i))
  PROVE  \A j \in Items : TargetOK(j)'
PROOF
  <1>1. \A j \in Items \ {i} : RowKept(j)
    BY DEF RowKept
  <1> QED
    BY <1>1, KeptTarget, ChangedTarget

\* The check of item i gets a verdict and the item follows it.
LEMMA VerdictGiven ==
  ASSUME TypeOK, \A j \in Items : TargetOK(j), CancelsStay, NEW i \in Items,
         NEW to \in {"completed", "failed", "deferred"},
         \A j \in Items : Passive(j),
         check[i].status = "running",
         \/ CloseCheck(i, to)
         \/ check' = [check EXCEPT ![i] = [status |-> to, attempts |-> 0]],
         ApplyRunItemTransition(i, to)
  PROVE  \A j \in Items : TargetOK(j)'
PROOF
  <1>1. check'[i].status = to /\ \A j \in Items \ {i} : check'[j] = check[j]
    BY DEF CloseCheck, TypeOK
  <1>2. item[i].status = "running" \/ Unconfirmed(i)
    BY DEF TargetOK, Agrees
  <1>3. CASE item[i].status = "running"
    <2>1. ItemClosed(i, to, item[i].reason)
      BY <1>3, AppliedTransition DEF PendingItemStatuses
    <2>2. item'[i].status = to /\ \A j \in Items \ {i} : item'[j] = item[j]
      BY <2>1 DEF ItemClosed
    <2>3. RowAgrees(i) /\ RowExcused(i)
      BY <1>1, <2>2 DEF RowAgrees, RowExcused
    <2> QED
      BY <1>1, <2>2, <2>3, OneChanges
  <1>4. CASE Unconfirmed(i)
    <2>1. item' = item
      BY <1>4, AppliedTransition DEF Unconfirmed, PendingItemStatuses
    <2>2. RowAgrees(i) /\ RowExcused(i)
      BY <1>4, <2>1 DEF RowAgrees, RowExcused, Unconfirmed
    <2> QED
      BY <1>1, <2>1, <2>2, OneChanges
  <1> QED
    BY <1>2, <1>3, <1>4

\* The check of item i fails and the item is cancelled if it waits for it.
LEMMA CheckRevoked ==
  ASSUME TypeOK, \A j \in Items : TargetOK(j), CancelsStay, NEW i \in Items,
         NEW reason \in Reasons, \A j \in Items : Passive(j),
         check[i].status = "running", CloseCheck(i, "failed"),
         IF item[i].status = "running"
         THEN \E s \in ActiveRunStatuses : SettleItem(i, "cancelled", reason, "cancelled", s)
         ELSE UNCHANGED <<run, item>>,
         Untouched(i)' \/ (reason # "unrunnable" /\ run'[RunOf[i]].status \in CancelStatuses)
  PROVE  \A j \in Items : TargetOK(j)'
PROOF
  <1>1. check'[i].status = "failed" /\ \A j \in Items \ {i} : check'[j] = check[j]
    BY DEF CloseCheck, TypeOK
  <1>2. CASE item[i].status = "running"
    <2>1. ItemClosed(i, "cancelled", reason)
      BY <1>2, SettledItem DEF TerminalItemStatuses, Counters
    <2>2. /\ item'[i].status = "cancelled" /\ item'[i].reason = reason
          /\ \A j \in Items \ {i} : item'[j] = item[j]
      BY <2>1 DEF ItemClosed
    <2>3. RowAgrees(i) /\ RowExcused(i)
      BY <1>1, <2>2 DEF RowAgrees, RowExcused
    <2> QED
      BY <1>1, <2>2, <2>3, OneChanges
  <1>3. CASE item[i].status # "running"
    <2>1. item' = item /\ Unconfirmed(i)
      BY <1>3 DEF TargetOK, Agrees
    <2>2. RowAgrees(i) /\ RowExcused(i)
      BY <2>1 DEF RowAgrees, RowExcused, Unconfirmed
    <2> QED
      BY <1>1, <2>1, <2>2, OneChanges
  <1> QED
    BY <1>2, <1>3

-----------------------------------------------------------------------------
(* The actors.                                                             *)

LEMMA TargetWorkflow ==
  ASSUME PaidInv, \A j \in Items : TargetOK(j), CancelsStay,
         NEW i \in Items, WorkflowStep(i)
  PROVE  \A j \in Items : TargetOK(j)'
PROOF
  <1>1. TypeOK /\ ItemInv(i)
    BY DEF PaidInv
  <1>2. CASE StartRunItem(i) \/ CreateHitsBusyKeyword(i) \/ RetryAfterBusyKeyword(i)
             \/ CreateGivesUp(i) \/ ClosingActivityLost(i)
    <2>1. UNCHANGED <<item, check, task, sends, evidence, attempt>>
      BY <1>2 DEF StartRunItem, CreateHitsBusyKeyword, RetryAfterBusyKeyword, CreateGivesUp,
           ClosingActivityLost, dbvars
    <2> QED
      BY <2>1, KeptTarget, PassiveStep DEF RowKept
  <1>3. CASE DeferRunItemForBusyKeyword(i)
    <2>1. UNCHANGED <<check, task, sends, evidence, attempt>> /\ ~Linked(i)
      BY <1>1, <1>3 DEF DeferRunItemForBusyKeyword, ItemInv, NothingBeforeLink
    <2>2. ItemClosed(i, "deferred", "none")
      BY <1>1, <1>3, SettledItem
         DEF DeferRunItemForBusyKeyword, TerminalItemStatuses, Reasons, Counters
    <2>3. item'[i].status = "deferred" /\ \A j \in Items \ {i} : item'[j] = item[j]
      BY <2>2 DEF ItemClosed
    <2>4. RowAgrees(i) /\ RowExcused(i)
      BY <2>1, <2>3 DEF RowAgrees, RowExcused, Linked
    <2> QED
      BY <2>1, <2>3, <2>4, OneChanges, PassiveStep
  <1>4. CASE CreateRunningRankCheck(i)
    <2>1. /\ UNCHANGED <<task, sends, evidence>>
          /\ item'[i].status = "running" /\ check'[i].status = "running"
          /\ \A j \in Items \ {i} : item'[j] = item[j] /\ check'[j] = check[j]
      BY <1>1, <1>4 DEF CreateRunningRankCheck, TypeOK
    <2>2. \A j \in Items : Passive(j)
      BY <1>1, <1>4, <2>1 DEF CreateRunningRankCheck, Passive, TypeOK
    <2>3. RowAgrees(i) /\ RowExcused(i)
      BY <2>1 DEF RowAgrees, RowExcused
    <2> QED
      BY <2>1, <2>2, <2>3, OneChanges
  <1>5. CASE FailRankCheck(i) \/ DiscardRankCheck(i)
    <2>1. UNCHANGED <<task, sends, evidence, attempt>>
      BY <1>5 DEF FailRankCheck, DiscardRankCheck
    <2>2. \A j \in Items : Passive(j)
      BY <2>1, PassiveStep
    <2>3. CASE check[i].status = "running"
      <3>1. PICK to \in {"failed", "deferred"} :
              /\ ApplyRunItemTransition(i, to)
              /\ \/ CloseCheck(i, to)
                 \/ check' = [check EXCEPT ![i] = [status |-> to, attempts |-> 0]]
        BY <1>5, <2>3 DEF FailRankCheck, DiscardRankCheck
      <3> QED
        BY <1>1, <2>2, <2>3, <3>1, VerdictGiven
    <2>4. CASE check[i].status # "running"
      <3>1. UNCHANGED <<item, check>>
        BY <1>5, <2>4 DEF FailRankCheck, DiscardRankCheck
      <3> QED
        BY <2>2, <3>1, KeptTarget DEF RowKept
    <2> QED
      BY <2>3, <2>4
  <1> QED
    BY <1>2, <1>3, <1>4, <1>5 DEF WorkflowStep

LEMMA TargetAttempt ==
  ASSUME PaidInv, \A j \in Items : TargetOK(j), CancelsStay,
         NEW i \in Items, NEW n \in Tries, AttemptStep(i, n)
  PROVE  \A j \in Items : TargetOK(j)'
PROOF
  <1>1. TypeOK /\ ItemInv(i) /\ TargetOK(i)
    BY DEF PaidInv
  <1>2. CASE StopUnrunnable(i, n)
    <2>1. StepAttempt(i, n, "started", "over") /\ UNCHANGED <<task, sends, evidence>>
      BY <1>2 DEF StopUnrunnable
    <2>2. \A j \in Items : Passive(j)
      BY <1>1, <2>1, PassiveAttempt
    <2>3. CASE Claimable(i)
      <3>1. /\ CloseCheck(i, "failed")
            /\ IF item[i].status = "running"
               THEN \E s \in ActiveRunStatuses :
                      SettleItem(i, "cancelled", "unrunnable", "cancelled", s)
               ELSE UNCHANGED <<run, item>>
        BY <1>2, <2>3 DEF StopUnrunnable
      <3>2. ~Scheduled(i)
        BY <1>1, <2>1 DEF ItemInv, OneEngine, StepAttempt
      <3>3. sends[i] = 0 /\ task[i] = "none" /\ \A m \in Tries : attempt[i][m] # "won"
        BY <1>1, <2>3, <3>2 DEF ItemInv, OneEngine, OneHolder
      <3>4. check'[i].status = "failed"
        BY <1>1, <3>1 DEF CloseCheck, TypeOK
      <3>5. Untouched(i)'
        BY <2>1, <2>2, <3>3, <3>4 DEF Untouched, Passive
      <3>6. check[i].status = "running" /\ "unrunnable" \in Reasons
        BY <2>3 DEF Claimable, Reasons
      <3> QED
        BY <1>1, <2>2, <3>1, <3>5, <3>6, CheckRevoked
    <2>4. CASE ~Claimable(i)
      <3>1. UNCHANGED <<item, check>>
        BY <1>2, <2>4 DEF StopUnrunnable
      <3> QED
        BY <2>2, <3>1, KeptTarget DEF RowKept
    <2> QED
      BY <2>3, <2>4
  <1>3. CASE ClaimPaidCall(i, n)
    <2>1. /\ item[i].status = "running"
          /\ UNCHANGED <<item, task, sends, evidence>>
          /\ attempt' = [attempt EXCEPT ![i][n] = "won"]
          /\ check' = [check EXCEPT ![i].attempts = 1]
      BY <1>3 DEF ClaimPaidCall, StepAttempt
    <2>2. \A j \in Items : RowKept(j)
      BY <1>1, <2>1 DEF RowKept, TypeOK
    <2>3. \A j \in Items \ {i} : Passive(j)
      BY <1>1, <2>1 DEF Passive, TypeOK
    <2>4. Agrees(i)'
      BY <1>1, <2>2 DEF TargetOK, Agrees, Unconfirmed, Linked, RowKept
    <2>5. SentFirst(i)'
      <3>1. \A m \in Tries : attempt'[i][m] = "sent" => attempt[i][m] = "sent"
        BY <1>1, <2>1 DEF TypeOK
      <3> QED
        BY <1>1, <2>1, <3>1 DEF TargetOK, SentFirst
    <2>6. Excused(i)'
      BY <2>1 DEF Excused
    <2> QED
      BY <2>2, <2>3, <2>4, <2>5, <2>6, KeptTarget DEF TargetOK
  <1>4. CASE LosePaidCall(i, n)
    <2>1. PICK to \in {"lost", "over"} : StepAttempt(i, n, "started", to)
      BY <1>4 DEF LosePaidCall
    <2>2. UNCHANGED <<check, task, sends, evidence>>
      BY <1>4 DEF LosePaidCall
    <2>3. \A j \in Items : Passive(j)
      BY <1>1, <2>1, <2>2, PassiveAttempt
    <2>4. CASE item' = item
      BY <2>2, <2>3, <2>4, KeptTarget DEF RowKept
    <2>5. CASE item' = Closed(i, "blocked", "send_unconfirmed")
      <3>1. ItemClosed(i, "blocked", "send_unconfirmed")
        BY <1>1, <2>5, ClosedItem DEF ItemStatuses, TerminalItemStatuses, Reasons
      <3>2. /\ item'[i].status = "blocked" /\ item'[i].reason = "send_unconfirmed"
            /\ \A j \in Items \ {i} : item'[j] = item[j]
        BY <3>1 DEF ItemClosed
      <3>3. RowAgrees(i) /\ RowExcused(i)
        BY <3>2 DEF RowAgrees, RowExcused
      <3> QED
        BY <2>2, <2>3, <3>2, <3>3, OneChanges
    <2> QED
      BY <1>4, <2>4, <2>5 DEF LosePaidCall
  <1>5. CASE FinalizeAfterLostCall(i, n) \/ PaidCallFails(i, n)
    <2>1. \/ StepAttempt(i, n, "lost", "over")
          \/ \E from \in {"won", "sent", "kept"} : StepAttempt(i, n, from, "thrown")
      BY <1>5 DEF FinalizeAfterLostCall, PaidCallFails
    <2>2. UNCHANGED <<item, check, task, sends, evidence>>
      BY <1>5 DEF FinalizeAfterLostCall, PaidCallFails, dbvars
    <2>3. \A j \in Items : Passive(j)
      BY <1>1, <2>1, <2>2, PassiveAttempt
    <2> QED
      BY <2>2, <2>3, KeptTarget DEF RowKept
  <1>6. CASE SendPaidCall(i, n)
    <2>1. /\ attempt[i][n] = "won"
          /\ UNCHANGED <<run, item, check, task, evidence>>
          /\ attempt' = [attempt EXCEPT ![i][n] = "sent"]
          /\ sends' = [sends EXCEPT ![i] = @ + 1]
      BY <1>6 DEF SendPaidCall, StepAttempt, dbvars
    <2>2. \A j \in Items \ {i} : Passive(j) /\ RowKept(j)
      BY <1>1, <2>1 DEF Passive, RowKept, TypeOK
    <2>3. Agrees(i)'
      BY <1>1, <2>1 DEF TargetOK, Agrees, Unconfirmed, Linked
    <2>4. SentFirst(i)'
      BY <1>1, <2>1 DEF SentFirst, TypeOK
    <2>5. Excused(i)'
      BY <1>1, <2>1 DEF TargetOK, Excused, Untouched, RunStatusOf
    <2> QED
      BY <2>2, <2>3, <2>4, <2>5, KeptTarget DEF TargetOK
  <1>7. CASE RetainRankResult(i, n)
    <2>1. /\ attempt[i][n] = "sent" /\ attempt' = [attempt EXCEPT ![i][n] = "kept"]
          /\ UNCHANGED <<item, check, task, sends>>
          /\ \A j \in Items \ {i} : evidence'[j] = evidence[j]
      BY <1>1, <1>7 DEF RetainRankResult, StepAttempt, dbvars, TypeOK
    <2>2. sends[i] # 0
      BY <1>1, <2>1 DEF TargetOK, SentFirst
    <2>3. \A j \in Items : Passive(j)
      BY <1>1, <2>1, <2>2 DEF Passive, TypeOK
    <2> QED
      BY <2>1, <2>3, KeptTarget DEF RowKept
  <1>8. CASE PersistRankCheck(i, n)
    <2>1. /\ attempt' = [attempt EXCEPT ![i][n] = "over"]
          /\ UNCHANGED <<task, sends>>
          /\ \A j \in Items : evidence'[j] => evidence[j]
      BY <1>1, <1>8 DEF PersistRankCheck, StepAttempt, TypeOK
    <2>2. \A j \in Items : Passive(j)
      BY <1>1, <2>1 DEF Passive, TypeOK
    <2>3. CASE check[i].status = "running"
      BY <1>1, <1>8, <2>2, <2>3, VerdictGiven DEF PersistRankCheck
    <2>4. CASE check[i].status # "running"
      <3>1. UNCHANGED <<item, check>>
        BY <1>8, <2>4 DEF PersistRankCheck
      <3> QED
        BY <2>2, <3>1, KeptTarget DEF RowKept
    <2> QED
      BY <2>3, <2>4
  <1>9. CASE AttemptTimesOut(i, n)
    <2>1. UNCHANGED <<item, check, task, sends, evidence>> /\ Retry(i, n)
      BY <1>9 DEF AttemptTimesOut, dbvars
    <2>2. \A j \in Items : \A m \in Tries :
            attempt'[j][m] = attempt[j][m] \/ attempt'[j][m] = "started"
      <3>1. CASE n + 1 \in Tries
        <4>1. PICK next, row : /\ next = n + 1
                               /\ row = [attempt[i] EXCEPT ![next] = "started"]
          OBVIOUS
        <4>2. attempt' = [attempt EXCEPT ![i] = row]
          BY <2>1, <3>1, <4>1 DEF Retry
        <4>3. \A m \in Tries : row[m] = attempt[i][m] \/ row[m] = "started"
          BY <1>1, <4>1 DEF TypeOK
        <4> QED
          BY <1>1, <4>2, <4>3 DEF TypeOK
      <3>2. CASE n + 1 \notin Tries
        BY <2>1, <3>2 DEF Retry
      <3> QED
        BY <3>1, <3>2
    <2>3. \A j \in Items : Passive(j)
      BY <2>1, <2>2 DEF Passive
    <2> QED
      BY <2>1, <2>3, KeptTarget DEF RowKept
  <1> QED
    BY <1>2, <1>3, <1>4, <1>5, <1>6, <1>7, <1>8, <1>9 DEF AttemptStep

LEMMA TargetDispatcher ==
  ASSUME PaidInv, \A j \in Items : TargetOK(j), CancelsStay,
         NEW i \in Items, DispatcherStep(i)
  PROVE  \A j \in Items : TargetOK(j)'
PROOF
  <1>1. TypeOK /\ ItemInv(i)
    BY DEF PaidInv
  <1>2. UNCHANGED <<check, task, sends, evidence, attempt>>
    BY DEF DispatcherStep, CancelUnrunnableCandidate, ClaimQueued, ReclaimExpired, Claim,
       BlockClaimLost, ExpireLease, flowvars
  <1>3. \A j \in Items : Passive(j)
    BY <1>2, PassiveStep
  <1>4. CASE ExpireLease(i)
    <2>1. \A j \in Items : RowKept(j)
      BY <1>1, <1>2, <1>4 DEF ExpireLease, RowKept, TypeOK
    <2> QED
      BY <1>3, <2>1, KeptTarget
  <1>5. CASE CancelUnrunnableCandidate(i) \/ BlockClaimLost(i) \/ Claim(i)
    <2>1. ~Linked(i) /\ Untouched(i)'
      <3>1. ~Linked(i)
        BY <1>1, <1>5 DEF CancelUnrunnableCandidate, BlockClaimLost, Claim, Candidate,
           DueQueued, ClaimExpired, ItemInv, NothingBeforeLink
      <3> QED
        BY <1>1, <1>2, <3>1 DEF ItemInv, NothingBeforeLink, Untouched, Linked
    <2>2. RowAgrees(i) /\ RowExcused(i)
      BY <1>2, <2>1 DEF RowAgrees, RowExcused, Linked
    <2>3. CASE CancelUnrunnableCandidate(i) \/ BlockClaimLost(i)
      <3>1. ItemClosed(i, "cancelled", "unrunnable") \/ ItemClosed(i, "blocked", "claim_lost")
        BY <1>1, <2>3, SettledItem
           DEF CancelUnrunnableCandidate, BlockClaimLost, TerminalItemStatuses, Reasons,
               Counters
      <3>2. \A j \in Items \ {i} : item'[j] = item[j]
        BY <3>1 DEF ItemClosed
      <3> QED
        BY <1>2, <1>3, <2>2, <3>2, OneChanges
    <2>4. CASE Claim(i)
      <3>1. \A j \in Items \ {i} : item'[j] = item[j]
        BY <1>1, <2>4 DEF Claim, TypeOK
      <3> QED
        BY <1>2, <1>3, <2>2, <3>1, OneChanges
    <2> QED
      BY <1>5, <2>3, <2>4
  <1> QED
    BY <1>4, <1>5 DEF DispatcherStep, ClaimQueued, ReclaimExpired

\* The end of a batch, whatever becomes of its result.
LEMMA TaskSettled ==
  ASSUME PaidInv, \A j \in Items : TargetOK(j), CancelsStay, NEW i \in Items,
         NEW verdict \in {"completed", "failed", "deferred"}, SettleTask(i, verdict),
         UNCHANGED <<sends, attempt>>, \A j \in Items : evidence'[j] => evidence[j]
  PROVE  \A j \in Items : TargetOK(j)'
PROOF
  <1>1. TypeOK
    BY DEF PaidInv
  <1>2. /\ \A j \in Items \ {i} : task'[j] = task[j]
        /\ task'[i] \notin {"prepared", "submitted"}
    <2>1. task' = [task EXCEPT ![i] = verdict] \/ task' = [task EXCEPT ![i] = check[i].status]
      BY DEF SettleTask
    <2>2. check[i].status \in CheckStatuses /\ task \in [Items -> TaskStates]
      BY <1>1 DEF TypeOK
    <2> QED
      BY <2>1, <2>2 DEF CheckStatuses
  <1>3. \A j \in Items : Passive(j)
    BY <1>2 DEF Passive
  <1>4. CASE check[i].status = "running"
    BY <1>1, <1>3, <1>4, VerdictGiven DEF SettleTask
  <1>5. CASE check[i].status # "running"
    <2>1. UNCHANGED <<item, check>>
      BY <1>5 DEF SettleTask
    <2> QED
      BY <1>3, <2>1, KeptTarget DEF RowKept
  <1> QED
    BY <1>4, <1>5

LEMMA TargetBatch ==
  ASSUME PaidInv, \A j \in Items : TargetOK(j), CancelsStay,
         NEW i \in Items, BatchStep(i)
  PROVE  \A j \in Items : TargetOK(j)'
PROOF
  <1>1. TypeOK /\ ItemInv(i) /\ TargetOK(i)
    BY DEF PaidInv
  <1>2. CASE PrepareBatch(i)
    <2>1. /\ item[i].status = "running" /\ ~Linked(i)
          /\ check' = [check EXCEPT ![i].status = "running"]
          /\ item' = [item EXCEPT ![i].lease = "none"]
          /\ task' = [task EXCEPT ![i] = "prepared"]
          /\ UNCHANGED <<run, sends, evidence, attempt>>
      BY <1>2 DEF PrepareBatch, LinkClaimed, flowvars
    <2>2. \A j \in Items \ {i} : Passive(j) /\ RowKept(j)
      BY <1>1, <2>1 DEF Passive, RowKept, TypeOK
    <2>3. /\ item'[i].status = "running" /\ check'[i].status = "running"
          /\ task'[i] = "prepared"
      BY <1>1, <2>1 DEF TypeOK
    <2>4. ~evidence[i] /\ \A n \in Tries : attempt[i][n] = "none"
      BY <1>1, <2>1 DEF ItemInv, NothingBeforeLink
    <2>5. TargetOK(i)'
      BY <2>1, <2>3, <2>4 DEF TargetOK, Agrees, SentFirst, Excused
    <2> QED
      BY <2>2, <2>5, KeptTarget
  <1>3. CASE PrepareDeferredBatch(i)
    <2>1. /\ item[i].status = "running"
          /\ check' = [check EXCEPT ![i].status = "deferred"]
          /\ task' = [task EXCEPT ![i] = "deferred"]
          /\ UNCHANGED <<sends, evidence, attempt>>
          /\ ApplyRunItemTransition(i, "deferred")
      BY <1>3 DEF PrepareDeferredBatch, LinkClaimed, flowvars
    <2>2. \A j \in Items : Passive(j)
      BY <1>1, <2>1 DEF Passive, TypeOK
    <2>3. ItemClosed(i, "deferred", item[i].reason)
      BY <1>1, <2>1, AppliedTransition DEF PendingItemStatuses
    <2>4. /\ item'[i].status = "deferred" /\ check'[i].status = "deferred"
          /\ \A j \in Items \ {i} : item'[j] = item[j] /\ check'[j] = check[j]
      BY <1>1, <2>1, <2>3 DEF ItemClosed, TypeOK
    <2>5. RowAgrees(i) /\ RowExcused(i)
      BY <2>4 DEF RowAgrees, RowExcused
    <2> QED
      BY <2>2, <2>4, <2>5, OneChanges
  <1>4. CASE SubmitBatch(i)
    <2>1. /\ task[i] = "prepared"
          /\ UNCHANGED <<run, item, check, evidence, attempt>>
          /\ task' = [task EXCEPT ![i] = "submitted"]
          /\ sends' = [sends EXCEPT ![i] = @ + 1]
      BY <1>4 DEF SubmitBatch
    <2>2. \A j \in Items \ {i} : Passive(j) /\ RowKept(j)
      BY <1>1, <2>1 DEF Passive, RowKept, TypeOK
    <2>3. Agrees(i)'
      BY <1>1, <2>1 DEF TargetOK, Agrees, Unconfirmed, Linked
    <2>4. SentFirst(i)'
      BY <1>1, <2>1 DEF SentFirst, TypeOK
    <2>5. Excused(i)'
      BY <1>1, <2>1 DEF TargetOK, Excused, Untouched, RunStatusOf
    <2> QED
      BY <2>2, <2>3, <2>4, <2>5, KeptTarget DEF TargetOK
  <1>5. CASE RetainBatchResult(i)
    <2>1. /\ task[i] = "submitted" /\ UNCHANGED <<item, check, task, sends, attempt>>
          /\ \A j \in Items \ {i} : evidence'[j] = evidence[j]
      BY <1>1, <1>5 DEF RetainBatchResult, dbvars, TypeOK
    <2>2. sends[i] # 0
      BY <1>1, <2>1 DEF TargetOK, SentFirst
    <2>3. \A j \in Items : Passive(j)
      BY <2>1, <2>2 DEF Passive
    <2> QED
      BY <2>1, <2>3, KeptTarget DEF RowKept
  <1>6. CASE PersistBatchResult(i) \/ DeferBatch(i)
    <2>1. PICK verdict \in {"completed", "failed", "deferred"} : SettleTask(i, verdict)
      BY <1>6 DEF PersistBatchResult, DeferBatch
    <2>2. UNCHANGED <<sends, attempt>>
      BY <1>6 DEF PersistBatchResult, DeferBatch, flowvars
    <2>3. \A j \in Items : evidence'[j] => evidence[j]
      BY <1>1, <1>6 DEF PersistBatchResult, DeferBatch, flowvars, TypeOK
    <2> QED
      BY <2>1, <2>2, <2>3, TaskSettled
  <1> QED
    BY <1>2, <1>3, <1>4, <1>5, <1>6 DEF BatchStep

LEMMA TargetPlanner ==
  ASSUME PaidInv, \A j \in Items : TargetOK(j), CancelsStay, PlannerStep
  PROVE  \A j \in Items : TargetOK(j)'
PROOF
  <1>1. TypeOK
    BY DEF PaidInv
  <1>2. UNCHANGED <<check, task, sends, evidence, attempt>>
    BY DEF PlannerStep, LaunchPlannedRun, BlockPlannedRun, ExpireBlockedRun, SkipPlannedRun,
       SetRun, PauseKeyword, dbvars, flowvars
  <1>3. \A j \in Items : Passive(j)
    BY <1>2, PassiveStep
  <1>4. CASE item' = item
    BY <1>2, <1>3, <1>4, KeptTarget DEF RowKept
  <1>5. ASSUME NEW r \in Runs, LaunchPlannedRun(r)
        PROVE  \A j \in Items : TargetOK(j)'
    <2>1. run[r].status \in UnlaunchedRunStatuses
      BY <1>5 DEF LaunchPlannedRun, UnlaunchedRunStatuses
    <2>2. ASSUME NEW j \in Items, ~RowKept(j)
          PROVE  RunOf[j] = r /\ item'[j].status = "queued"
      <3>1. item[j] \in [status : ItemStatuses, reason : Reasons, attempts : Nat,
                         lease : Leases]
        BY <1>1 DEF TypeOK
      <3>2. item'[j] # item[j]
        BY <1>2, <2>2 DEF RowKept
      <3>3. RunOf[j] = r /\ item'[j] = [item[j] EXCEPT !.status = "queued"]
        BY <1>1, <1>5, <3>2, Launched
      <3> QED
        BY <3>1, <3>3
    <2>3. ASSUME NEW j \in Items, ~RowKept(j)
          PROVE  RowAgrees(j) /\ RowExcused(j)
      <3>1. item[j].status = Absent
        BY <2>1, <2>2, <2>3 DEF PaidInv, ItemInv, NothingBeforeLink, RunStatusOf
      <3>2. check[j].status = "none"
        BY <3>1 DEF PaidInv, ItemInv, NothingBeforeLink, Linked
      <3> QED
        BY <1>2, <2>2, <2>3, <3>2 DEF RowAgrees, RowExcused
    <2> QED
      BY <1>3, <2>3, KeptTarget, ChangedTarget
  <1> QED
    BY <1>4, <1>5
       DEF PlannerStep, BlockPlannedRun, ExpireBlockedRun, SkipPlannedRun, SetRun,
           PauseKeyword, dbvars

LEMMA TargetMaintenance ==
  ASSUME PaidInv, \A j \in Items : TargetOK(j), CancelsStay, MaintenanceStep
  PROVE  \A j \in Items : TargetOK(j)'
PROOF
  <1>1. TypeOK
    BY DEF PaidInv
  <1>2. ASSUME NEW i \in Items, MarkStaleRunningCheck(i)
        PROVE  \A j \in Items : TargetOK(j)'
    <2>1. /\ UNCHANGED <<task, sends, evidence, attempt>> /\ check[i].status = "running"
          /\ check' = [check EXCEPT ![i] = [status |-> "failed", attempts |-> 0]]
          /\ ApplyRunItemTransition(i, "failed")
      BY <1>2 DEF MarkStaleRunningCheck, flowvars
    <2>2. \A j \in Items : Passive(j)
      BY <2>1, PassiveStep
    <2> QED
      BY <1>1, <2>1, <2>2, VerdictGiven
  <1>3. ASSUME NEW i \in Items, PurgeBatch(i) \/ LoseRetainedResult(i)
        PROVE  \A j \in Items : TargetOK(j)'
    <2>1. UNCHANGED <<item, check, sends, attempt>>
      BY <1>3 DEF PurgeBatch, LoseRetainedResult, dbvars, flowvars
    <2>2. \A j \in Items : /\ task'[j] = task[j] \/ task'[j] = "none"
                           /\ evidence'[j] => evidence[j]
      BY <1>1, <1>3 DEF PurgeBatch, LoseRetainedResult, dbvars, flowvars, TypeOK
    <2>3. \A j \in Items : Passive(j)
      BY <2>1, <2>2 DEF Passive
    <2> QED
      BY <2>1, <2>3, KeptTarget DEF RowKept
  <1>4. ASSUME NEW i \in Items, RestoreRetainedResult(i)
        PROVE  \A j \in Items : TargetOK(j)'
    <2>1. UNCHANGED <<sends, attempt>> /\ sends[i] # 0
      BY <1>4 DEF RestoreRetainedResult, TargetOK, SentFirst
    <2>2. \A j \in Items : /\ task'[j] = task[j] \/ task'[j] = "completed"
                           /\ evidence'[j] => evidence[j]
      BY <1>1, <1>4 DEF RestoreRetainedResult, dbvars, TypeOK
    <2>3. \A j \in Items : Passive(j)
      BY <2>1, <2>2 DEF Passive
    <2>4. CASE UNCHANGED dbvars
      BY <2>3, <2>4, KeptTarget DEF RowKept, dbvars
    <2>5. CASE RunStatusOf(i) \notin CancelStatuses /\ CloseCheck(i, "completed")
               /\ RecoverRunItem(i)
      <3>1. item[i].status # "cancelled"
        BY <2>1, <2>5 DEF TargetOK, Excused, Untouched
      <3>2. item' = Closed(i, "completed", item[i].reason)
        BY <2>5, <3>1 DEF RecoverRunItem
      <3>3. /\ item'[i].status = "completed" /\ check'[i].status = "completed"
            /\ \A j \in Items \ {i} : item'[j] = item[j] /\ check'[j] = check[j]
        BY <1>1, <2>5, <3>2 DEF Closed, CloseCheck, TypeOK
      <3>4. RowAgrees(i) /\ RowExcused(i)
        BY <3>3 DEF RowAgrees, RowExcused
      <3> QED
        BY <2>3, <3>3, <3>4, OneChanges
    <2> QED
      BY <1>4, <2>4, <2>5 DEF RestoreRetainedResult, CancelStatuses
  <1>5. ASSUME (\E r \in Runs : SweepList(r)) \/ SweepCount \/ SweepWrite
        PROVE  \A j \in Items : TargetOK(j)'
    <2>1. UNCHANGED <<item, check, task, sends, evidence, attempt>>
      BY <1>5 DEF SweepList, SweepCount, SweepWrite, dbvars, flowvars
    <2> QED
      BY <2>1, PassiveStep, KeptTarget DEF RowKept
  <1> QED
    BY <1>2, <1>3, <1>4, <1>5 DEF MaintenanceStep

LEMMA TargetCancel ==
  ASSUME PaidInv, CommandsKnow, \A j \in Items : TargetOK(j), CancelsStay,
         NEW r \in Runs, CancelStep(r)
  PROVE  \A j \in Items : TargetOK(j)'
PROOF
  <1>1. TypeOK
    BY DEF PaidInv
  <1>2. CASE CancelRead(r) \/ CancelCrash(r)
    <2>1. UNCHANGED <<item, check, task, sends, evidence, attempt>>
      BY <1>2 DEF CancelRead, CancelCrash, dbvars, flowvars
    <2> QED
      BY <2>1, PassiveStep, KeptTarget DEF RowKept
  <1>3. CASE CancelCommit(r)
    <2>1. UNCHANGED <<check, sends, evidence, attempt>>
      BY <1>3 DEF CancelCommit, flowvars
    <2>2. \A j \in Items : task'[j] = task[j] \/ task'[j] = "deferred"
      BY <1>3 DEF CancelCommit
    <2>3. \A j \in Items : Passive(j)
      BY <2>1, <2>2 DEF Passive
    <2>4. ASSUME NEW j \in Items, ~RowKept(j)
          PROVE  Cancellable(j)
      BY <1>3, <2>1, <2>4 DEF CancelCommit, RowKept
    <2>5. ASSUME NEW j \in Items, ~RowKept(j)
          PROVE  RowAgrees(j) /\ RowExcused(j)
      <3>1. ~Linked(j) /\ NothingBeforeLink(j)
        BY <2>4, <2>5 DEF Cancellable, PaidInv, ItemInv, NothingBeforeLink
      <3>2. Untouched(j)'
        BY <2>1, <2>2, <3>1 DEF NothingBeforeLink, Untouched, Linked
      <3> QED
        BY <2>1, <3>1, <3>2 DEF RowAgrees, RowExcused, Linked
    <2> QED
      BY <2>3, <2>5, KeptTarget, ChangedTarget
  <1>4. ASSUME NEW i \in Items, CloseRankCheckAsCancelled(r, i)
        PROVE  \A j \in Items : TargetOK(j)'
    <2>1. \A j \in Items : Passive(j)
      BY <1>4, PassiveStep DEF CloseRankCheckAsCancelled
    <2>2. CASE check[i].status = "running"
      <3>1. RunOf[i] = r /\ run[r].status \in CancelStatuses
        BY <1>4 DEF CloseRankCheckAsCancelled, CommandsKnow, ItemsOf
      <3>2. run'[RunOf[i]].status \in CancelStatuses
        BY <3>1 DEF CancelsStay
      <3>3. /\ CloseCheck(i, "failed")
            /\ IF item[i].status = "running"
               THEN \E s \in ActiveRunStatuses :
                      SettleItem(i, "cancelled", "none", "cancelled", s)
               ELSE UNCHANGED <<run, item>>
        BY <1>4, <2>2 DEF CloseRankCheckAsCancelled
      <3>4. "none" \in Reasons /\ "none" # "unrunnable"
        BY DEF Reasons
      <3> QED
        BY <1>1, <2>1, <2>2, <3>2, <3>3, <3>4, CheckRevoked
    <2>3. CASE check[i].status # "running"
      <3>1. UNCHANGED <<item, check>>
        BY <1>4, <2>3 DEF CloseRankCheckAsCancelled
      <3> QED
        BY <2>1, <3>1, KeptTarget DEF RowKept
    <2> QED
      BY <2>2, <2>3
  <1> QED
    BY <1>2, <1>3, <1>4 DEF CancelStep

\* Cancel commands that nobody runs stay as they are.
LEMMA CommandsIdle ==
  ASSUME CommandsKnow, CancelsStay, cancel' = cancel
  PROVE  CommandsKnow'
PROOF
  BY DEF CommandsKnow, CancelsStay

LEMMA CommandsStep ==
  ASSUME TypeOK, CommandsKnow, CancelsStay, NEW r \in Runs, CancelStep(r)
  PROVE  CommandsKnow'
PROOF
  <1>1. \A q \in Runs \ {r} : cancel'[q] = cancel[q]
    <2>1. CASE CancelCommit(r)
      BY <2>1, CommitCancels
    <2>2. CASE CancelRead(r) \/ CancelCrash(r) \/ \E i \in Items : CloseRankCheckAsCancelled(r, i)
      BY <2>2 DEF CancelRead, CancelCrash, CloseRankCheckAsCancelled, TypeOK
    <2> QED
      BY <2>1, <2>2 DEF CancelStep
  <1>2. cancel'[r].list \subseteq ItemsOf(r)
    <2>1. CASE CancelRead(r)
      BY <2>1 DEF CancelRead, LinkedRunning, TypeOK
    <2>2. CASE CancelCommit(r)
      <3>1. PICK pc : \/ cancel' = [cancel EXCEPT ![r].pc = pc]
                      \/ cancel' = [cancel EXCEPT ![r].pc = pc, ![r].list = {}]
        BY <2>2 DEF CancelCommit
      <3>2. cancel'[r].list \in {cancel[r].list, {}}
        BY <3>1 DEF TypeOK
      <3> QED
        BY <3>2 DEF CommandsKnow
    <2>3. CASE CancelCrash(r)
      BY <2>3 DEF CancelCrash, TypeOK
    <2>4. ASSUME NEW i \in Items, CloseRankCheckAsCancelled(r, i)
          PROVE  cancel'[r].list \subseteq ItemsOf(r)
      BY <2>4 DEF CloseRankCheckAsCancelled, CommandsKnow, TypeOK
    <2> QED
      BY <2>1, <2>2, <2>3, <2>4 DEF CancelStep
  <1>3. cancel'[r].pc = "close" => run'[r].status \in CancelStatuses
    <2>1. CASE CancelRead(r)
      BY <2>1 DEF CancelRead, CancelStatuses, TypeOK, dbvars
    <2>2. CASE CancelCommit(r)
      BY <2>2, CommitCancels
    <2>3. CASE CancelCrash(r)
      BY <2>3 DEF CancelCrash, TypeOK
    <2>4. ASSUME NEW i \in Items, CloseRankCheckAsCancelled(r, i)
          PROVE  run'[r].status \in CancelStatuses
      BY <2>4 DEF CloseRankCheckAsCancelled, CommandsKnow, CancelsStay
    <2> QED
      BY <2>1, <2>2, <2>3, <2>4 DEF CancelStep
  <1> QED
    BY <1>1, <1>2, <1>3 DEF CommandsKnow, CancelsStay

-----------------------------------------------------------------------------
LEMMA TargetInit == Init => TargetInv
PROOF
  <1> SUFFICES ASSUME Init PROVE TargetInv
    OBVIOUS
  <1>1. CommandsKnow
    BY DEF Init, CommandsKnow
  <1>2. ASSUME NEW i \in Items
        PROVE  TargetOK(i)
    <2>1. /\ item[i].status \in {Absent, "queued"} /\ check[i].status = "none"
          /\ task[i] = "none" /\ ~evidence[i] /\ \A n \in Tries : attempt[i][n] = "none"
      BY DEF Init
    <2> QED
      BY <2>1 DEF TargetOK, Agrees, SentFirst, Excused, Absent
  <1> QED
    BY <1>1, <1>2 DEF TargetInv

LEMMA TargetStep == PaidInv /\ TargetInv /\ [Next]_vars => TargetInv'
PROOF
  <1> SUFFICES ASSUME PaidInv, TargetInv, [Next]_vars
               PROVE  TargetInv'
    OBVIOUS
  <1>1. TypeOK /\ CommandsKnow /\ \A j \in Items : TargetOK(j)
    BY DEF PaidInv, TargetInv
  <1>2. CASE PlannerStep \/ MaintenanceStep
    <2>1. CancelsStay
      BY <1>1, <1>2, CancelStaysMaintenance
    <2>2. cancel' = cancel
      BY <1>2 DEF PlannerStep, MaintenanceStep, LaunchPlannedRun, BlockPlannedRun,
         ExpireBlockedRun, SkipPlannedRun, SetRun, PauseKeyword, MarkStaleRunningCheck,
         PurgeBatch, RestoreRetainedResult, LoseRetainedResult, SweepList, SweepCount,
         SweepWrite
    <2> QED
      BY <1>1, <1>2, <2>1, <2>2, TargetPlanner, TargetMaintenance, CommandsIdle DEF TargetInv
  <1>3. ASSUME NEW i \in Items, WorkflowStep(i) \/ DispatcherStep(i) \/ BatchStep(i)
        PROVE  TargetInv'
    <2>1. CancelsStay
      BY <1>1, <1>3, CancelStaysItem
    <2>2. cancel' = cancel
      BY <1>3 DEF WorkflowStep, DispatcherStep, BatchStep, StartRunItem,
         CreateRunningRankCheck, CreateHitsBusyKeyword, DeferRunItemForBusyKeyword,
         RetryAfterBusyKeyword, CreateGivesUp, FailRankCheck, DiscardRankCheck,
         ClosingActivityLost, CancelUnrunnableCandidate, ClaimQueued, ReclaimExpired, Claim,
         BlockClaimLost, ExpireLease, PrepareBatch, PrepareDeferredBatch, SubmitBatch,
         RetainBatchResult, PersistBatchResult, DeferBatch
    <2> QED
      BY <1>1, <1>3, <2>1, <2>2, TargetWorkflow, TargetDispatcher, TargetBatch, CommandsIdle
         DEF TargetInv
  <1>4. ASSUME NEW i \in Items, NEW n \in Tries, AttemptStep(i, n)
        PROVE  TargetInv'
    <2>1. CancelsStay
      BY <1>1, <1>4, CancelStaysAttempt
    <2>2. cancel' = cancel
      BY <1>4 DEF AttemptStep, StopUnrunnable, ClaimPaidCall, LosePaidCall,
         FinalizeAfterLostCall, SendPaidCall, RetainRankResult, PersistRankCheck,
         AttemptTimesOut, PaidCallFails
    <2> QED
      BY <1>1, <1>4, <2>1, <2>2, TargetAttempt, CommandsIdle DEF TargetInv
  <1>5. ASSUME NEW r \in Runs, CancelStep(r)
        PROVE  TargetInv'
    <2>1. CancelsStay
      BY <1>1, <1>5, CancelStaysCancel
    <2> QED
      BY <1>1, <1>5, <2>1, TargetCancel, CommandsStep DEF TargetInv
  <1>6. CASE UNCHANGED vars
    <2>1. UNCHANGED <<run, item, check, task, sends, evidence, attempt, cancel>>
      BY <1>6 DEF vars, dbvars, flowvars
    <2> QED
      BY <1>1, <2>1, CancelStaysStutter, CommandsIdle, PassiveStep, KeptTarget
         DEF TargetInv, RowKept
  <1> QED
    BY <1>2, <1>3, <1>4, <1>5, <1>6 DEF Next

LEMMA TargetInvariant == Spec => []TargetInv
PROOF
  BY TargetInit, TargetStep, PaidInvariant, PTL DEF Spec

\* Whatever the order in which workers, sweeps, commands and restored results
\* touch an item and its check, in any number of runs, the two never contradict
\* each other (items.ts, runner-persistence.ts, recovery-run-item.ts).
THEOREM ItemsMatchTheirChecks == Spec => []ItemMatchesCheck
PROOF
  <1>1. TargetInv => ItemMatchesCheck
    BY DEF TargetInv, TargetOK, Agrees, Unconfirmed, ItemMatchesCheck
  <1> QED
    BY <1>1, TargetInvariant, PTL

\* An item cancelled at no cost was never sent to the provider and never will
\* be: its check is closed before anybody holds the fence (cancel.ts:32,
\* worker-claim.ts, items-claim.ts).
THEOREM FreeCancelsBoughtNothing == Spec => []FreeCancelIsUnpaid
PROOF
  <1>1. TargetInv => FreeCancelIsUnpaid
    BY DEF TargetInv, TargetOK, Excused, Untouched, FreeCancelIsUnpaid
  <1> QED
    BY <1>1, TargetInvariant, PTL

-----------------------------------------------------------------------------
(* A verdict is final.  Only an open item gets one, and a restored result  *)
(* completes an item that had a lesser one.                                *)

\* A lease ends with the verdict; "skipped" is no verdict of an item.
Released(j) ==
  /\ item[j].status # "skipped"
  /\ item[j].status \in TerminalItemStatuses => item[j].lease = "none"

VerdictInv == \A j \in Items : Released(j)

VerdictKept(j) ==
  \/ item'[j] = item[j]
  \/ /\ item[j].status \notin TerminalItemStatuses
     /\ item'[j].status # "skipped"
     /\ item'[j].status \in TerminalItemStatuses => item'[j].lease = "none"

VerdictRestored(j) ==
  /\ item[j].status \in {"failed", "deferred", "blocked"}
  /\ item'[j].status = "completed" /\ item'[j].lease = "none"
  /\ sends[j] = 1
  /\ RunStatusOf(j) \notin {"cancelling", "cancelled"}

LEMMA KeptByStutter ==
  ASSUME item' = item
  PROVE  \A j \in Items : VerdictKept(j)
PROOF
  BY DEF VerdictKept

LEMMA KeptByClosing ==
  ASSUME NEW i \in Items, item[i].status \notin TerminalItemStatuses,
         NEW status \in TerminalItemStatuses \ {"skipped"}, NEW reason,
         ItemClosed(i, status, reason)
  PROVE  \A j \in Items : VerdictKept(j)
PROOF
  BY DEF ItemClosed, VerdictKept

LEMMA KeptBySettling ==
  ASSUME TypeOK, NEW i \in Items, item[i].status \in PendingItemStatuses,
         NEW status \in TerminalItemStatuses \ {"skipped"},
         NEW reason \in Reasons, NEW counter \in Counters, NEW seen,
         SettleItem(i, status, reason, counter, seen)
  PROVE  \A j \in Items : VerdictKept(j)
PROOF
  <1>1. ItemClosed(i, status, reason)
    BY SettledItem
  <1>2. item[i].status \notin TerminalItemStatuses
    BY DEF PendingItemStatuses, TerminalItemStatuses
  <1> QED
    BY <1>1, <1>2, KeptByClosing

LEMMA KeptByTransition ==
  ASSUME TypeOK, NEW i \in Items, NEW to \in {"completed", "failed", "deferred"},
         ApplyRunItemTransition(i, to)
  PROVE  \A j \in Items : VerdictKept(j)
PROOF
  <1>1. CASE item[i].status \in PendingItemStatuses
    <2>1. ItemClosed(i, to, item[i].reason)
      BY <1>1, AppliedTransition
    <2>2. to \in TerminalItemStatuses \ {"skipped"}
      BY DEF TerminalItemStatuses
    <2>3. item[i].status \notin TerminalItemStatuses
      BY <1>1 DEF PendingItemStatuses, TerminalItemStatuses
    <2> QED
      BY <2>1, <2>2, <2>3 DEF ItemClosed, VerdictKept
  <1>2. CASE item[i].status \notin PendingItemStatuses
    BY <1>2, AppliedTransition, KeptByStutter
  <1> QED
    BY <1>1, <1>2

LEMMA VerdictsItem ==
  ASSUME PaidInv, VerdictInv, NEW i \in Items,
         WorkflowStep(i) \/ DispatcherStep(i) \/ BatchStep(i)
  PROVE  \A j \in Items : VerdictKept(j)
PROOF
  <1>1. TypeOK /\ Released(i)
    BY DEF PaidInv, VerdictInv
  <1>2. CASE StartRunItem(i) \/ CreateHitsBusyKeyword(i) \/ RetryAfterBusyKeyword(i)
             \/ CreateGivesUp(i) \/ ClosingActivityLost(i)
             \/ SubmitBatch(i) \/ RetainBatchResult(i)
    <2>1. item' = item
      BY <1>2 DEF StartRunItem, CreateHitsBusyKeyword, RetryAfterBusyKeyword, CreateGivesUp,
           ClosingActivityLost, SubmitBatch, RetainBatchResult, dbvars
    <2> QED
      BY <2>1, KeptByStutter
  <1>3. CASE DeferRunItemForBusyKeyword(i)
    BY <1>1, <1>3, KeptBySettling
       DEF DeferRunItemForBusyKeyword, PendingItemStatuses, TerminalItemStatuses, Reasons,
           Counters
  <1>4. CASE CancelUnrunnableCandidate(i) \/ BlockClaimLost(i)
    BY <1>1, <1>4, KeptBySettling
       DEF CancelUnrunnableCandidate, BlockClaimLost, Candidate, DueQueued, ClaimExpired,
           PendingItemStatuses, TerminalItemStatuses, Reasons, Counters
  <1>5. CASE CreateRunningRankCheck(i) \/ Claim(i) \/ PrepareBatch(i)
    <2>1. /\ item[i].status \in PendingItemStatuses /\ item'[i].status = "running"
          /\ \A j \in Items \ {i} : item'[j] = item[j]
      BY <1>1, <1>5 DEF CreateRunningRankCheck, Claim, Candidate, DueQueued, ClaimExpired,
         PrepareBatch, LinkClaimed, PendingItemStatuses, TypeOK
    <2> QED
      BY <2>1 DEF VerdictKept, PendingItemStatuses, TerminalItemStatuses
  <1>6. CASE ExpireLease(i)
    <2>1. /\ item[i].status \notin TerminalItemStatuses
          /\ item'[i].status = item[i].status
          /\ \A j \in Items \ {i} : item'[j] = item[j]
      BY <1>1, <1>6 DEF ExpireLease, Released, TypeOK
    <2> QED
      BY <1>1, <2>1 DEF VerdictKept, Released
  <1>7. CASE FailRankCheck(i) \/ DiscardRankCheck(i) \/ PrepareDeferredBatch(i)
    BY <1>1, <1>7, KeptByTransition, KeptByStutter
       DEF FailRankCheck, DiscardRankCheck, PrepareDeferredBatch
  <1>8. CASE PersistBatchResult(i) \/ DeferBatch(i)
    <2>1. PICK verdict \in {"completed", "failed", "deferred"} : SettleTask(i, verdict)
      BY <1>8 DEF PersistBatchResult, DeferBatch
    <2> QED
      BY <1>1, <2>1, KeptByTransition, KeptByStutter DEF SettleTask
  <1> QED
    BY <1>2, <1>3, <1>4, <1>5, <1>6, <1>7, <1>8
       DEF WorkflowStep, DispatcherStep, BatchStep, ClaimQueued, ReclaimExpired

LEMMA VerdictsAttempt ==
  ASSUME TypeOK, NEW i \in Items, NEW n \in Tries, AttemptStep(i, n)
  PROVE  \A j \in Items : VerdictKept(j)
PROOF
  <1>1. CASE ClaimPaidCall(i, n) \/ SendPaidCall(i, n) \/ RetainRankResult(i, n)
             \/ AttemptTimesOut(i, n) \/ PaidCallFails(i, n) \/ FinalizeAfterLostCall(i, n)
    <2>1. item' = item
      BY <1>1 DEF ClaimPaidCall, SendPaidCall, RetainRankResult, AttemptTimesOut,
                  PaidCallFails, FinalizeAfterLostCall, dbvars
    <2> QED
      BY <2>1, KeptByStutter
  <1>2. CASE StopUnrunnable(i, n)
    <2>1. \/ /\ item[i].status = "running"
             /\ \E s \in ActiveRunStatuses :
                  SettleItem(i, "cancelled", "unrunnable", "cancelled", s)
          \/ item' = item
      BY <1>2 DEF StopUnrunnable
    <2> QED
      BY <2>1, KeptBySettling, KeptByStutter
         DEF PendingItemStatuses, TerminalItemStatuses, Reasons, Counters
  <1>3. CASE LosePaidCall(i, n)
    <2>1. CASE item' = item
      BY <2>1, KeptByStutter
    <2>2. CASE item[i].status = "running" /\ item' = Closed(i, "blocked", "send_unconfirmed")
      <3>1. ItemClosed(i, "blocked", "send_unconfirmed")
        BY <2>2, ClosedItem DEF ItemStatuses, TerminalItemStatuses, Reasons
      <3> QED
        BY <2>2, <3>1, KeptByClosing DEF TerminalItemStatuses
    <2> QED
      BY <1>3, <2>1, <2>2 DEF LosePaidCall
  <1>4. CASE PersistRankCheck(i, n)
    BY <1>4, KeptByTransition, KeptByStutter DEF PersistRankCheck
  <1> QED
    BY <1>1, <1>2, <1>3, <1>4 DEF AttemptStep

LEMMA VerdictsPlanner ==
  ASSUME PaidInv, PlannerStep
  PROVE  \A j \in Items : VerdictKept(j)
PROOF
  <1>1. CASE item' = item
    BY <1>1, KeptByStutter
  <1>2. ASSUME NEW r \in Runs, LaunchPlannedRun(r), NEW j \in Items
        PROVE  VerdictKept(j)
    <2>1. TypeOK /\ run[r].status \in UnlaunchedRunStatuses
      BY <1>2 DEF PaidInv, LaunchPlannedRun, UnlaunchedRunStatuses
    <2>2. CASE RunOf[j] = r /\ item'[j] = [item[j] EXCEPT !.status = "queued"]
      <3>1. item[j].status = Absent
        BY <2>1, <2>2 DEF PaidInv, ItemInv, NothingBeforeLink, RunStatusOf
      <3>2. item'[j].status = "queued"
        BY <2>1, <2>2 DEF TypeOK
      <3> QED
        BY <3>1, <3>2 DEF VerdictKept, Absent, TerminalItemStatuses
    <2>3. CASE item'[j] = item[j]
      BY <2>3 DEF VerdictKept
    <2> QED
      BY <1>2, <2>1, <2>2, <2>3, Launched
  <1> QED
    BY <1>1, <1>2
       DEF PlannerStep, BlockPlannedRun, ExpireBlockedRun, SkipPlannedRun, SetRun,
           PauseKeyword, dbvars

LEMMA VerdictsMaintenance ==
  ASSUME PaidInv, TargetInv, VerdictInv, MaintenanceStep
  PROVE  \A j \in Items : VerdictKept(j) \/ VerdictRestored(j)
PROOF
  <1>1. TypeOK
    BY DEF PaidInv
  <1>2. ASSUME NEW i \in Items, MarkStaleRunningCheck(i)
        PROVE  \A j \in Items : VerdictKept(j)
    BY <1>1, <1>2, KeptByTransition DEF MarkStaleRunningCheck
  <1>3. CASE item' = item
    BY <1>3, KeptByStutter
  <1>4. ASSUME NEW i \in Items, RestoreRetainedResult(i), item' # item
        PROVE  \A j \in Items : VerdictKept(j) \/ VerdictRestored(j)
    <2>1. /\ evidence[i] /\ check[i].status # "completed" /\ RecoverRunItem(i)
          /\ RunStatusOf(i) \notin {"cancelled", "cancelling"}
      BY <1>4 DEF RestoreRetainedResult, Restorable, dbvars
    <2>2. ItemInv(i) /\ TargetOK(i) /\ Released(i)
      BY DEF PaidInv, TargetInv, VerdictInv
    <2>3. ItemClosed(i, "completed", item[i].reason)
      BY <1>1, <1>4, <2>1, RecoveredItem
    <2>4. /\ item'[i].status = "completed" /\ item'[i].lease = "none"
          /\ \A j \in Items \ {i} : item'[j] = item[j]
      BY <2>3 DEF ItemClosed
    <2>5. sends[i] = 1 /\ Linked(i)
      <3>1. sends[i] # 0 /\ sends[i] <= 1 /\ sends[i] \in Nat
        BY <1>1, <2>1, <2>2 DEF TargetOK, SentFirst, ItemInv, OneHolder, TypeOK
      <3> QED
        BY <2>1, <2>2, <3>1 DEF ItemInv, NothingBeforeLink
    <2>6. item[i].status \notin {"completed", "cancelled", "skipped"}
      BY <1>4, <2>1, <2>2, <2>5 DEF TargetOK, Agrees, RecoverRunItem, Released
    <2>7. CASE item[i].status \in TerminalItemStatuses
      BY <2>1, <2>4, <2>5, <2>6, <2>7 DEF VerdictKept, VerdictRestored, TerminalItemStatuses
    <2>8. CASE item[i].status \notin TerminalItemStatuses
      BY <2>4, <2>8 DEF VerdictKept
    <2> QED
      BY <2>7, <2>8
  <1> QED
    BY <1>2, <1>3, <1>4
       DEF MaintenanceStep, PurgeBatch, LoseRetainedResult, SweepList, SweepCount, SweepWrite,
           dbvars

LEMMA VerdictsCancel ==
  ASSUME TypeOK, NEW r \in Runs, CancelStep(r)
  PROVE  \A j \in Items : VerdictKept(j)
PROOF
  <1>1. CASE CancelRead(r) \/ CancelCrash(r)
    BY <1>1, KeptByStutter DEF CancelRead, CancelCrash, dbvars
  <1>2. CASE CancelCommit(r)
    <2>1. \A j \in Items : item'[j] = item[j] \/ item[j].status \in PendingItemStatuses
      BY <1>2 DEF CancelCommit, Cancellable, PendingItemStatuses
    <2>2. \A j \in Items : \/ item'[j] = item[j]
                           \/ item'[j].status = "cancelled" /\ item'[j].lease = "none"
      BY <1>2, CommittedCancel
    <2> QED
      BY <2>1, <2>2 DEF VerdictKept, PendingItemStatuses, TerminalItemStatuses
  <1>3. ASSUME NEW i \in Items, CloseRankCheckAsCancelled(r, i)
        PROVE  \A j \in Items : VerdictKept(j)
    <2>1. \/ /\ item[i].status = "running"
             /\ \E s \in ActiveRunStatuses :
                  SettleItem(i, "cancelled", "none", "cancelled", s)
          \/ item' = item
      BY <1>3 DEF CloseRankCheckAsCancelled
    <2> QED
      BY <2>1, KeptBySettling, KeptByStutter
         DEF PendingItemStatuses, TerminalItemStatuses, Reasons, Counters
  <1> QED
    BY <1>1, <1>2, <1>3 DEF CancelStep

LEMMA VerdictStep ==
  ASSUME PaidInv, TargetInv, VerdictInv, [Next]_vars
  PROVE  \A j \in Items : VerdictKept(j) \/ VerdictRestored(j)
PROOF
  <1>1. TypeOK
    BY DEF PaidInv
  <1>2. CASE UNCHANGED vars
    BY <1>2, KeptByStutter DEF vars, dbvars
  <1> QED
    BY <1>1, <1>2, VerdictsItem, VerdictsAttempt, VerdictsPlanner, VerdictsMaintenance,
       VerdictsCancel DEF Next

LEMMA VerdictInvariant == Spec => []VerdictInv
PROOF
  <1>1. Init => VerdictInv
    BY DEF Init, VerdictInv, Released, Absent, TerminalItemStatuses
  <1>2. PaidInv /\ TargetInv /\ VerdictInv /\ [Next]_vars => VerdictInv'
    <2> SUFFICES ASSUME PaidInv, TargetInv, VerdictInv, [Next]_vars,
                        NEW j \in Items
                 PROVE  Released(j)'
      BY DEF VerdictInv
    <2>1. VerdictKept(j) \/ VerdictRestored(j)
      BY VerdictStep
    <2>2. Released(j)
      BY DEF VerdictInv
    <2> QED
      BY <2>1, <2>2 DEF VerdictKept, VerdictRestored, Released
  <1> QED
    BY <1>1, <1>2, PaidInvariant, TargetInvariant, PTL DEF Spec

\* A target gets one verdict: no late answer, repeated command, expired claim
\* or sweep gives it another one, and a restored result replaces only a lesser
\* verdict of a target that was paid for, in a run nobody cancelled (items.ts,
\* terminal-state.ts, recovery-run-item.ts).
THEOREM VerdictsAreFinal == Spec => OneVerdict
PROOF
  <1>1. PaidInv /\ TargetInv /\ VerdictInv /\ [Next]_vars =>
          [\A i \in Items : item[i].status \in TerminalItemStatuses =>
             \/ item'[i] = item[i]
             \/ /\ item[i].status \in {"failed", "deferred", "blocked"}
                /\ item'[i].status = "completed"
                /\ sends[i] = 1
                /\ RunStatusOf(i) \notin {"cancelling", "cancelled"}]_vars
    BY VerdictStep DEF VerdictKept, VerdictRestored
  <1> QED
    BY <1>1, PaidInvariant, TargetInvariant, VerdictInvariant, PTL DEF Spec, OneVerdict

-----------------------------------------------------------------------------
(* A finished run stays as it is.  What settles an item finds it open, and *)
(* then its run is not over; the finaliser's compare-and-set never matches *)
(* a finished row; the reconciler works on a status that was not terminal. *)

SweepActive == sweep.pc # "idle" => sweep.status \notin TerminalRunStatuses

Frozen == \A r \in Runs : run[r].status \in TerminalRunStatuses => run'[r] = run[r]

LEMMA FrozenStutter ==
  ASSUME run' = run
  PROVE  Frozen
PROOF
  BY DEF Frozen

LEMMA FrozenSettled ==
  ASSUME SettledInv, NEW i \in Items, item[i].status \in PendingItemStatuses,
         NEW status, NEW reason, NEW counter, NEW seen,
         SettleItem(i, status, reason, counter, seen)
  PROVE  Frozen
PROOF
  <1>1. RunOf[i] \in Runs /\ run[RunOf[i]].status \notin TerminalRunStatuses
    BY ContractAssumption
       DEF SettledInv, OpenItemsInActiveRuns, RunStatusOf, ActiveRunStatuses,
           TerminalRunStatuses
  <1>2. PICK row : run' = [run EXCEPT ![RunOf[i]] = row]
    BY DEF SettleItem
  <1> QED
    BY <1>1, <1>2 DEF Frozen, SettledInv, TypeOK

LEMMA FrozenTransition ==
  ASSUME SettledInv, NEW i \in Items, NEW to, ApplyRunItemTransition(i, to)
  PROVE  Frozen
PROOF
  <1>1. CASE item[i].status \in PendingItemStatuses
    <2>1. PICK reason, seen : reason = item[i].reason /\ seen = RunStatusOf(i)
      OBVIOUS
    <2>2. SettleItem(i, to, reason, to, seen)
      BY <1>1, <2>1 DEF ApplyRunItemTransition
    <2> QED
      BY <1>1, <2>2, FrozenSettled
  <1>2. CASE item[i].status \notin PendingItemStatuses
    BY <1>2, FrozenStutter DEF ApplyRunItemTransition
  <1> QED
    BY <1>1, <1>2

LEMMA FrozenFinalized ==
  ASSUME TypeOK, NEW r \in Runs, NEW statuses, NEW seen,
         run' = [run EXCEPT ![r] = FinalizeRankCheckRun(r, run[r], statuses, seen)]
  PROVE  Frozen
PROOF
  <1>1. ASSUME run[r].status \in TerminalRunStatuses
        PROVE  FinalizeRankCheckRun(r, run[r], statuses, seen) = run[r]
    BY <1>1 DEF FinalizeRankCheckRun, TerminalRunStatuses, ActiveRunStatuses
  <1> QED
    BY <1>1 DEF Frozen, TypeOK

\* A step that touches only one run, and that one before it is over.
LEMMA FrozenOther ==
  ASSUME NEW r, run[r].status \notin TerminalRunStatuses,
         \A q \in Runs \ {r} : run'[q] = run[q]
  PROVE  Frozen
PROOF
  BY DEF Frozen

LEMMA FrozenStarted ==
  ASSUME TypeOK, NEW r \in Runs, MarkRankCheckRunStarted(r)
  PROVE  Frozen
PROOF
  <1>1. run[r] \in [status : RunStatuses, outcome : RunOutcomes \cup {NoOutcome},
                    tally : [Counters -> Nat]]
    BY DEF TypeOK
  <1>2. run[r].status \in TerminalRunStatuses => run'[r] = run[r]
    BY <1>1 DEF MarkRankCheckRunStarted, TypeOK, TerminalRunStatuses
  <1>3. \A q \in Runs \ {r} : run'[q] = run[q]
    BY DEF MarkRankCheckRunStarted, TypeOK
  <1> QED
    BY <1>2, <1>3 DEF Frozen

LEMMA FrozenItem ==
  ASSUME SettledInv, NEW i \in Items, WorkflowStep(i) \/ DispatcherStep(i) \/ BatchStep(i)
  PROVE  Frozen
PROOF
  <1>1. TypeOK /\ RunOf[i] \in Runs
    BY ContractAssumption DEF SettledInv
  <1>2. CASE StartRunItem(i) \/ CreateHitsBusyKeyword(i) \/ RetryAfterBusyKeyword(i)
             \/ CreateGivesUp(i) \/ ClosingActivityLost(i) \/ ExpireLease(i)
             \/ PrepareBatch(i) \/ SubmitBatch(i) \/ RetainBatchResult(i)
    <2>1. run' = run
      BY <1>2 DEF StartRunItem, CreateHitsBusyKeyword, RetryAfterBusyKeyword, CreateGivesUp,
           ClosingActivityLost, ExpireLease, PrepareBatch, SubmitBatch, RetainBatchResult,
           dbvars
    <2> QED
      BY <2>1, FrozenStutter
  <1>3. CASE CreateRunningRankCheck(i) \/ Claim(i)
    <2>1. PICK r \in Runs : r = RunOf[i]
      BY <1>1
    <2> QED
      BY <1>1, <1>3, <2>1, FrozenStarted DEF CreateRunningRankCheck, Claim
  <1>4. CASE DeferRunItemForBusyKeyword(i) \/ CancelUnrunnableCandidate(i) \/ BlockClaimLost(i)
    BY <1>4, FrozenSettled
       DEF DeferRunItemForBusyKeyword, CancelUnrunnableCandidate, BlockClaimLost, Candidate,
           DueQueued, ClaimExpired, PendingItemStatuses
  <1>5. CASE FailRankCheck(i) \/ DiscardRankCheck(i) \/ PrepareDeferredBatch(i)
    BY <1>5, FrozenTransition, FrozenStutter
       DEF FailRankCheck, DiscardRankCheck, PrepareDeferredBatch
  <1>6. CASE PersistBatchResult(i) \/ DeferBatch(i)
    BY <1>6, FrozenTransition, FrozenStutter DEF PersistBatchResult, DeferBatch, SettleTask
  <1> QED
    BY <1>2, <1>3, <1>4, <1>5, <1>6
       DEF WorkflowStep, DispatcherStep, BatchStep, ClaimQueued, ReclaimExpired

LEMMA FrozenAttempt ==
  ASSUME SettledInv, NEW i \in Items, NEW n \in Tries, AttemptStep(i, n)
  PROVE  Frozen
PROOF
  <1>1. CASE ClaimPaidCall(i, n) \/ SendPaidCall(i, n) \/ RetainRankResult(i, n)
             \/ AttemptTimesOut(i, n) \/ PaidCallFails(i, n) \/ LosePaidCall(i, n)
    <2>1. run' = run
      BY <1>1 DEF ClaimPaidCall, SendPaidCall, RetainRankResult, AttemptTimesOut,
                  PaidCallFails, LosePaidCall, dbvars
    <2> QED
      BY <2>1, FrozenStutter
  <1>2. CASE StopUnrunnable(i, n)
    BY <1>2, FrozenSettled, FrozenStutter DEF StopUnrunnable, PendingItemStatuses
  <1>3. CASE FinalizeAfterLostCall(i, n)
    <2>1. PICK s \in ActiveRunStatuses :
            run' = [run EXCEPT ![RunOf[i]] =
                      FinalizeRankCheckRun(RunOf[i], run[RunOf[i]], ItemStatusOf, s)]
      BY <1>3 DEF FinalizeAfterLostCall
    <2>2. PICK r \in Runs : r = RunOf[i]
      BY ContractAssumption
    <2>3. PICK statuses : statuses = ItemStatusOf
      OBVIOUS
    <2>4. run' = [run EXCEPT ![r] = FinalizeRankCheckRun(r, run[r], statuses, s)]
      BY <2>1, <2>2, <2>3
    <2> QED
      BY <2>4, FrozenFinalized DEF SettledInv
  <1>4. CASE PersistRankCheck(i, n)
    BY <1>4, FrozenTransition, FrozenStutter DEF PersistRankCheck
  <1> QED
    BY <1>1, <1>2, <1>3, <1>4 DEF AttemptStep

LEMMA FrozenPlanner ==
  ASSUME TypeOK, PlannerStep
  PROVE  Frozen
PROOF
  <1>1. ASSUME NEW r \in Runs, LaunchPlannedRun(r)
        PROVE  Frozen
    <2>1. \A q \in Runs \ {r} : run'[q] = run[q]
      BY <1>1, Launched
    <2> QED
      BY <1>1, <2>1, FrozenOther DEF LaunchPlannedRun, TerminalRunStatuses
  <1>2. ASSUME NEW r \in Runs, BlockPlannedRun(r) \/ ExpireBlockedRun(r) \/ SkipPlannedRun(r)
        PROVE  Frozen
    <2>1. /\ run[r].status \notin TerminalRunStatuses
          /\ \A q \in Runs \ {r} : run'[q] = run[q]
      BY <1>2 DEF BlockPlannedRun, ExpireBlockedRun, SkipPlannedRun, SetRun, TypeOK,
                  TerminalRunStatuses
    <2> QED
      BY <2>1, FrozenOther
  <1>3. ASSUME NEW k \in Keywords, PauseKeyword(k)
        PROVE  Frozen
    BY <1>3, FrozenStutter DEF PauseKeyword, dbvars
  <1> QED
    BY <1>1, <1>2, <1>3 DEF PlannerStep

LEMMA FrozenSweep ==
  ASSUME TypeOK, SweepActive, SweepWrite
  PROVE  Frozen
PROOF
  <1>1. PICK r \in Runs : r = sweep.run
    BY DEF TypeOK
  <1>2. PICK seen, groups : seen = sweep.status /\ groups = sweep.groups
    OBVIOUS
  <1>3. PICK greatest : greatest = GreatestTally(run[r], RunCountsFromItemGroups(r, groups))
    OBVIOUS
  <1>4. run' = [run EXCEPT ![r] = IF PendingRunItems(r, groups) = {}
                                  THEN FinalizeRankCheckRun(r, run[r], groups, seen)
                                  ELSE IF run[r].status = seen THEN greatest ELSE run[r]]
    BY <1>1, <1>2, <1>3 DEF SweepWrite
  <1>5. CASE PendingRunItems(r, groups) = {}
    <2>1. run' = [run EXCEPT ![r] = FinalizeRankCheckRun(r, run[r], groups, seen)]
      BY <1>4, <1>5
    <2> QED
      BY <2>1, FrozenFinalized
  <1>6. CASE PendingRunItems(r, groups) # {}
    <2>1. run' = [run EXCEPT ![r] = IF run[r].status = seen THEN greatest ELSE run[r]]
      BY <1>4, <1>6
    <2>2. seen \notin TerminalRunStatuses
      BY <1>2 DEF SweepWrite, SweepActive
    <2> QED
      BY <2>1, <2>2 DEF Frozen, TypeOK
  <1> QED
    BY <1>5, <1>6

\* A row that counts a completed item is not cancelled by its outcome.
LEMMA RestoredRow ==
  ASSUME NEW i \in Items, NEW statuses, statuses[i] = "completed", NEW seen,
         seen # "cancelling"
  PROVE  FinalRunData(RunOf[i], statuses, seen).status = "completed"
PROOF
  <1>1. PICK counts, total :
          /\ counts = RunCountsFromItemGroups(RunOf[i], statuses)
          /\ total = TotalCount(RunOf[i], statuses)
    OBVIOUS
  <1>2. counts.completed \in Nat /\ counts.completed # 0
    <2>1. i \in CountedItems(RunOf[i], statuses, "completed")
      BY DEF CountedItems, ItemsOf, CountedBy
    <2>2. RunCountsFromItemGroups(RunOf[i], statuses)["completed"] # 0
          /\ RunCountsFromItemGroups(RunOf[i], statuses)["completed"] \in Nat
      BY <2>1, CounterCounts DEF Counters
    <2> QED
      BY <1>1, <2>2
  <1>3. counts.cancelled \in Nat
    BY <1>1, CounterCounts DEF Counters
  <1>4. OutcomeFromCounts(counts, total) # "cancelled"
    BY <1>2, <1>3 DEF OutcomeFromCounts
  <1> QED
    BY <1>1, <1>4 DEF FinalRunData, NormalizeTerminalRunState

\* Only a restored result touches a finished run, and it leaves it completed.
LEMMA FrozenButRestored ==
  ASSUME SettledInv, PaidInv, TargetInv, VerdictInv,
         NEW i \in Items, RestoreRetainedResult(i), run' # run,
         NEW r \in Runs, run[r].status \in TerminalRunStatuses
  PROVE  \/ run'[r] = run[r]
         \/ /\ run[r].status = "completed" /\ run'[r].status = "completed"
            /\ \E j \in ItemsOf(r) : /\ item[j].status # "completed"
                                     /\ item'[j].status = "completed"
PROOF
  <1>1. /\ evidence[i] /\ check[i].status # "completed" /\ RecoverRunItem(i)
        /\ RunStatusOf(i) \notin {"cancelled", "cancelling"}
    BY DEF RestoreRetainedResult, Restorable, dbvars
  <1>2. item[i].status # "cancelled"
    BY <1>1 DEF RecoverRunItem
  <1>3. item[i].status # "completed"
    <2>1. Linked(i)
      BY <1>1 DEF PaidInv, ItemInv, NothingBeforeLink
    <2> QED
      BY <1>1, <2>1 DEF TargetInv, TargetOK, Agrees
  <1>4. PICK statuses : statuses = [ItemStatusOf EXCEPT ![i] = "completed"]
    OBVIOUS
  <1>5. PICK q \in Runs : q = RunOf[i]
    BY ContractAssumption
  <1>6. /\ item' = Closed(i, "completed", item[i].reason)
        /\ run' = [run EXCEPT ![q] =
                     IF PendingRunItems(q, statuses) = {}
                     THEN FinalRunData(q, statuses, run[q].status)
                     ELSE [run[q] EXCEPT !.tally = RunCountsFromItemGroups(q, statuses)]]
    BY <1>1, <1>2, <1>4, <1>5 DEF RecoverRunItem
  <1>7. CASE r # q
    BY <1>6, <1>7 DEF SettledInv, TypeOK
  <1>8. CASE r = q
    <2>1. run[r].status = "completed"
      BY <1>1, <1>5, <1>8 DEF RunStatusOf, TerminalRunStatuses
    <2>2. item'[i].status = "completed" /\ i \in ItemsOf(r)
      BY <1>5, <1>6, <1>8 DEF Closed, ItemsOf, SettledInv, TypeOK
    <2>3. statuses[i] = "completed"
      BY <1>4 DEF ItemStatusOf
    <2>4. PICK final, seen : /\ final = FinalRunData(RunOf[i], statuses, seen)
                             /\ seen = run[q].status
      OBVIOUS
    <2>5. final.status = "completed"
      BY <1>8, <2>1, <2>3, <2>4, RestoredRow
    <2>6. PICK counts : counts = RunCountsFromItemGroups(q, statuses)
      OBVIOUS
    <2>7. run' = [run EXCEPT ![q] = IF PendingRunItems(q, statuses) = {} THEN final
                                    ELSE [run[q] EXCEPT !.tally = counts]]
      BY <1>5, <1>6, <2>4, <2>6
    <2>8. run'[r].status = "completed"
      BY <1>8, <2>1, <2>5, <2>7 DEF SettledInv, TypeOK
    <2> QED
      BY <1>3, <2>1, <2>2, <2>8
  <1> QED
    BY <1>7, <1>8

LEMMA FrozenMaintenance ==
  ASSUME SettledInv, SweepActive, MaintenanceStep,
         ~ \E i \in Items : RestoreRetainedResult(i) /\ run' # run
  PROVE  Frozen
PROOF
  <1>1. TypeOK
    BY DEF SettledInv
  <1>2. CASE run' = run
    BY <1>2, FrozenStutter
  <1>3. ASSUME NEW i \in Items, MarkStaleRunningCheck(i)
        PROVE  Frozen
    BY <1>3, FrozenTransition DEF MarkStaleRunningCheck
  <1> QED
    BY <1>1, <1>2, <1>3, FrozenSweep
       DEF MaintenanceStep, PurgeBatch, LoseRetainedResult, SweepList, SweepCount, dbvars

LEMMA FrozenCancel ==
  ASSUME SettledInv, NEW r \in Runs, CancelStep(r)
  PROVE  Frozen
PROOF
  <1>1. TypeOK
    BY DEF SettledInv
  <1>2. CASE CancelRead(r) \/ CancelCrash(r)
    BY <1>2, FrozenStutter DEF CancelRead, CancelCrash, dbvars
  <1>3. CASE CancelCommit(r)
    <2>1. \A q \in Runs \ {r} : run'[q] = run[q]
      BY <1>1, <1>3, CommittedCancel
    <2>2. run' = run \/ run[r].status \notin TerminalRunStatuses
      BY <1>3 DEF CancelCommit, TerminalRunStatuses
    <2> QED
      BY <2>1, <2>2, FrozenStutter, FrozenOther
  <1>4. ASSUME NEW i \in Items, CloseRankCheckAsCancelled(r, i)
        PROVE  Frozen
    BY <1>4, FrozenSettled, FrozenStutter DEF CloseRankCheckAsCancelled, PendingItemStatuses
  <1> QED
    BY <1>2, <1>3, <1>4 DEF CancelStep

LEMMA FrozenStep ==
  ASSUME SettledInv, SweepActive, [Next]_vars,
         ~ \E i \in Items : RestoreRetainedResult(i) /\ run' # run
  PROVE  Frozen
PROOF
  <1>1. TypeOK
    BY DEF SettledInv
  <1>2. CASE UNCHANGED vars
    BY <1>2, FrozenStutter DEF vars, dbvars
  <1> QED
    BY <1>1, <1>2, FrozenItem, FrozenAttempt, FrozenPlanner, FrozenMaintenance, FrozenCancel
       DEF Next

LEMMA SweepStaysActive == TypeOK /\ SweepActive /\ [Next]_vars => SweepActive'
PROOF
  <1> SUFFICES ASSUME TypeOK, SweepActive, [Next]_vars
               PROVE  SweepActive'
    OBVIOUS
  <1>1. CASE sweep' = sweep
    BY <1>1 DEF SweepActive
  <1>2. ASSUME NEW r \in Runs, SweepList(r)
        PROVE  SweepActive'
    BY <1>2 DEF SweepList, SweepActive, ActiveRunStatuses, TerminalRunStatuses
  <1>3. CASE SweepCount
    BY <1>3 DEF SweepCount, SweepActive, TypeOK
  <1>4. CASE SweepWrite
    BY <1>4 DEF SweepWrite, SweepActive, NoSweep
  <1>5. CASE PlannerStep \/ MaintenanceStep
    BY <1>1, <1>2, <1>3, <1>4, <1>5
       DEF PlannerStep, MaintenanceStep, LaunchPlannedRun, BlockPlannedRun, ExpireBlockedRun,
           SkipPlannedRun, SetRun, PauseKeyword, MarkStaleRunningCheck, PurgeBatch,
           RestoreRetainedResult, LoseRetainedResult
  <1>6. ASSUME NEW i \in Items, WorkflowStep(i) \/ DispatcherStep(i) \/ BatchStep(i)
        PROVE  SweepActive'
    BY <1>1, <1>6, QuietWorkflow, QuietDispatcher, QuietBatch
  <1>7. ASSUME NEW i \in Items, NEW n \in Tries, AttemptStep(i, n)
        PROVE  SweepActive'
    BY <1>1, <1>7, QuietAttempt
  <1>8. ASSUME NEW r \in Runs, CancelStep(r)
        PROVE  SweepActive'
    BY <1>1, <1>8, QuietCancel
  <1>9. CASE UNCHANGED vars
    BY <1>1, <1>9 DEF vars
  <1> QED
    BY <1>5, <1>6, <1>7, <1>8, <1>9 DEF Next

\* A finished run keeps its row: no late answer, second command or reconciler
\* that works from an old read touches it, in any number of runs.  Only a
\* restored result is counted in it, and it stays completed (finalize.ts,
\* reconcile.ts, recovery-run-item.ts).
THEOREM FinishedRunsStay == Spec => TerminalRunFrozen
PROOF
  <1>1. Init => SweepActive
    BY DEF Init, NoSweep, SweepActive
  <1>2. SettledInv /\ SweepActive /\ [Next]_vars => SweepActive'
    BY SweepStaysActive DEF SettledInv
  <1>3. SettledInv /\ PaidInv /\ TargetInv /\ VerdictInv /\ SweepActive /\ [Next]_vars =>
          [\A r \in Runs : run[r].status \in TerminalRunStatuses =>
             \/ run'[r] = run[r]
             \/ /\ run[r].status = "completed" /\ run'[r].status = "completed"
                /\ \E i \in ItemsOf(r) : /\ item[i].status # "completed"
                                         /\ item'[i].status = "completed"]_vars
    <2> SUFFICES ASSUME SettledInv, PaidInv, TargetInv, VerdictInv, SweepActive, [Next]_vars,
                        NEW r \in Runs, run[r].status \in TerminalRunStatuses
                 PROVE  \/ run'[r] = run[r]
                        \/ /\ run[r].status = "completed" /\ run'[r].status = "completed"
                           /\ \E i \in ItemsOf(r) : /\ item[i].status # "completed"
                                                    /\ item'[i].status = "completed"
      OBVIOUS
    <2>1. CASE \E i \in Items : RestoreRetainedResult(i) /\ run' # run
      BY <2>1, FrozenButRestored
    <2>2. CASE ~ \E i \in Items : RestoreRetainedResult(i) /\ run' # run
      BY <2>2, FrozenStep DEF Frozen
    <2> QED
      BY <2>1, <2>2
  <1> QED
    BY <1>1, <1>2, <1>3, SettledInvariant, PaidInvariant, TargetInvariant, VerdictInvariant,
       PTL DEF Spec, TerminalRunFrozen

-----------------------------------------------------------------------------
(***************************************************************************)
(* The row of a finished run says what its items say, and no counter falls *)
(* behind them.                                                            *)
(*                                                                         *)
(* Neither property is inductive. A report is exact when it is written,    *)
(* and afterwards only a restored result changes a settled item, which     *)
(* writes the report again; the reconciler writes one from counts it took  *)
(* some statements earlier, so the invariant says that these are exact for *)
(* a run without open items. Counters are written as the greatest of the   *)
(* stored and the counted ones, but for a restored result, which moves one *)
(* target between two of them.                                             *)
(***************************************************************************)

\* The row of a finished run says what its items say.
Told(row, r, statuses) ==
  /\ row.status \in TerminalRunStatuses
  /\ PendingRunItems(r, statuses) = {}
  /\ ReportedBy(row) = Report(Verdicts(r, statuses))
  /\ row.tally = RunCountsFromItemGroups(r, statuses)

Counts(r) == RunCountsFromItemGroups(r, ItemStatusOf)

\* The stored counters never fall behind the verdicts.
AtLeast(r) == \A c \in Counters \ {"skipped"} : run[r].tally[c] >= Counts(r)[c]

\* A run that has targets and is over told what they say; a run that is not
\* over has no outcome.
RunTold(r) ==
  /\ run[r].status \in TerminalRunStatuses /\ Verdicts(r, ItemStatusOf) # {} =>
       Told(run[r], r, ItemStatusOf)
  /\ run[r].status \notin TerminalRunStatuses => run[r].outcome = NoOutcome

\* What the reconciler counted of an active run without open items still holds.
SweepExact ==
  /\ sweep.pc = "counted" /\ sweep.status \in ActiveRunStatuses
  /\ run[sweep.run].status \in ActiveRunStatuses
  /\ PendingRunItems(sweep.run, sweep.groups) = {}
  => \A i \in ItemsOf(sweep.run) : sweep.groups[i] = item[i].status

KnownInv == SettledInv /\ PaidInv /\ TargetInv /\ VerdictInv /\ SweepActive
ReportInv == SweepExact /\ \A r \in Runs : RunTold(r) /\ AtLeast(r)

-----------------------------------------------------------------------------
(* Rows and counters.                                                      *)

LEMMA FinalTells ==
  ASSUME NEW r, NEW statuses, NEW seen, PendingRunItems(r, statuses) = {}
  PROVE  Told(FinalRunData(r, statuses, seen), r, statuses)
PROOF
  <1> DEFINE report == Report(Verdicts(r, statuses))
             ending == IF seen = "cancelling" THEN "cancelled" ELSE "completed"
             stored == NormalizeTerminalRunState(ending, report)
             final == FinalRunData(r, statuses, seen)
  <1>1. /\ final.status = stored.status /\ final.outcome = stored.outcome
        /\ final.tally = RunCountsFromItemGroups(r, statuses)
    BY OutcomeIsReport DEF FinalRunData
  <1>2. report \in {"succeeded", "partial", "cancelled", "failed", "deferred"}
    BY DEF Report
  <1>3. ReportedBy(final) = report
    <2>1. CASE report = "cancelled"
      BY <1>1, <2>1 DEF NormalizeTerminalRunState, ReportedBy, NoOutcome
    <2>2. CASE report # "cancelled"
      <3>1. stored.status = ending /\ stored.outcome = report
        BY <2>2 DEF NormalizeTerminalRunState
      <3>2. report # NoOutcome
        BY <1>2 DEF NoOutcome
      <3> QED
        BY <1>1, <2>2, <3>1, <3>2 DEF ReportedBy
    <2> QED
      BY <2>1, <2>2
  <1> QED
    BY <1>1, <1>3, FinalRow DEF Told

\* Only the statuses of the run's own items matter.
LEMMA SameStatuses ==
  ASSUME NEW r, NEW s, NEW t, \A i \in ItemsOf(r) : s[i] = t[i]
  PROVE  /\ Verdicts(r, s) = Verdicts(r, t)
         /\ PendingRunItems(r, s) = PendingRunItems(r, t)
         /\ RunCountsFromItemGroups(r, s) = RunCountsFromItemGroups(r, t)
         /\ \A row : Told(row, r, s) <=> Told(row, r, t)
PROOF
  <1>1. Verdicts(r, s) = Verdicts(r, t)
    BY DEF Verdicts
  <1>2. PendingRunItems(r, s) = PendingRunItems(r, t)
    BY DEF PendingRunItems
  <1>3. \A c \in Counters : {i \in ItemsOf(r) : s[i] \in CountedBy(c)}
                              = {i \in ItemsOf(r) : t[i] \in CountedBy(c)}
    OBVIOUS
  <1>4. RunCountsFromItemGroups(r, s) = RunCountsFromItemGroups(r, t)
    BY <1>3 DEF RunCountsFromItemGroups
  <1> QED
    BY <1>1, <1>2, <1>4 DEF Told

\* A counter grows by at most the number of items that change, and not at all
\* if none of them is one it counts.
LEMMA CountsGrow ==
  ASSUME NEW r, NEW s, NEW t, NEW S \in SUBSET Items,
         \A i \in ItemsOf(r) \ S : t[i] = s[i], NEW c \in Counters
  PROVE  LET before == RunCountsFromItemGroups(r, s)[c]
             after == RunCountsFromItemGroups(r, t)[c]
         IN  /\ before \in Nat /\ after \in Nat /\ Cardinality(S) \in Nat
             /\ after <= before + Cardinality(S)
             /\ (\A i \in S : t[i] \notin CountedBy(c)) => after <= before
PROOF
  <1> DEFINE A == CountedItems(r, s, c)
             B == CountedItems(r, t, c)
  <1>1. /\ RunCountsFromItemGroups(r, s)[c] = Cardinality(A)
        /\ RunCountsFromItemGroups(r, t)[c] = Cardinality(B)
    BY DEF RunCountsFromItemGroups, CountedItems
  <1>2. A \in SUBSET Items /\ B \in SUBSET Items
    BY DEF CountedItems, ItemsOf
  <1>3. IsFiniteSet(A) /\ IsFiniteSet(B) /\ IsFiniteSet(S)
    BY <1>2, ContractAssumption, FS_Subset
  <1>4. /\ Cardinality(A) \in Nat /\ Cardinality(B) \in Nat /\ Cardinality(S) \in Nat
    BY <1>3, FS_CardinalityType
  <1>5. B \subseteq A \cup S
    BY DEF CountedItems
  <1>6. IsFiniteSet(A \cup S) /\ Cardinality(B) <= Cardinality(A \cup S)
    BY <1>3, <1>5, FS_Union, FS_Subset
  <1>7. Cardinality(A \cup S) <= Cardinality(A) + Cardinality(S)
    <2>1. Cardinality(A \cup S) = Cardinality(A) + Cardinality(S) - Cardinality(A \cap S)
      BY <1>3, FS_Union
    <2>2. Cardinality(A \cap S) \in Nat
      BY <1>3, FS_Intersection, FS_CardinalityType
    <2> QED
      BY <1>4, <2>1, <2>2
  <1>8. Cardinality(A \cup S) \in Nat
    BY <1>6, FS_CardinalityType
  <1>9. ASSUME \A i \in S : t[i] \notin CountedBy(c)
        PROVE  Cardinality(B) <= Cardinality(A)
    <2>1. B \subseteq A
      BY <1>9 DEF CountedItems
    <2> QED
      BY <1>3, <2>1, FS_Subset
  <1> HIDE DEF A, B
  <1> QED
    BY <1>1, <1>4, <1>6, <1>7, <1>8, <1>9

\* Nothing is counted for items that do not exist or are open.
LEMMA NothingCounted ==
  ASSUME NEW r, NEW s, \A i \in ItemsOf(r) : s[i] \in {Absent} \cup PendingItemStatuses
  PROVE  \A c \in Counters : RunCountsFromItemGroups(r, s)[c] = 0
PROOF
  <1> SUFFICES ASSUME NEW c \in Counters
               PROVE  RunCountsFromItemGroups(r, s)[c] = 0
    OBVIOUS
  <1>1. CountedItems(r, s, c) = {}
    BY DEF CountedItems, CountedBy, Counters, Absent, PendingItemStatuses
  <1> QED
    BY <1>1, CounterCounts

-----------------------------------------------------------------------------
(* What a step does to the ledger.                                         *)

SameVerdict(i) ==
  \/ item'[i].status = item[i].status
  \/ item[i].status \in PendingItemStatuses /\ item'[i].status \in PendingItemStatuses

Others(r) == \A q \in Runs \ {r} : run'[q] = run[q]

StaysOpen(r) ==
  /\ run[r].status \in ActiveRunStatuses /\ run'[r].status \in ActiveRunStatuses
  /\ run'[r].outcome = run[r].outcome
  /\ AtLeast(r)'

Tells(r) == Told(run'[r], r, ItemStatusOf')

RowIdle(r) ==
  \/ run'[r] = run[r]
  \/ /\ run[r].status \notin TerminalRunStatuses
     /\ Phase(run'[r].status) = Phase(run[r].status)
     /\ run'[r].outcome = run[r].outcome
     /\ \A c \in Counters : run'[r].tally[c] >= run[r].tally[c]

\* Nothing that the ledger shows.
Idle ==
  /\ \A i \in Items : SameVerdict(i)
  /\ \A r \in Runs : RowIdle(r)
  /\ sends' = sends

\* Open items S of run r get verdicts, and the run is closed or not.
Settles(r, S) ==
  /\ run[r].status \in ActiveRunStatuses
  /\ S \subseteq {i \in ItemsOf(r) : item[i].status \in PendingItemStatuses}
  /\ \A i \in S : item'[i].status \in TerminalItemStatuses
  /\ \A i \in Items \ S : SameVerdict(i)
  /\ Others(r)
  /\ StaysOpen(r) \/ Tells(r)
  /\ sends' = sends

\* The result of a paid item comes back.
Restores(i) ==
  LET r == RunOf[i]
  IN  /\ run[r].status \notin UnlaunchedRunStatuses
      /\ item[i].status \in {"failed", "deferred", "blocked"}
      /\ item'[i].status = "completed" /\ sends[i] = 1
      /\ \A j \in Items \ {i} : item'[j].status = item[j].status
      /\ Others(r)
      /\ \/ StaysOpen(r) /\ PendingRunItems(r, ItemStatusOf') # {}
         \/ Tells(r)
      /\ sends' = sends

Pays(i) ==
  /\ UNCHANGED <<run, item>>
  /\ item[i].status # Absent /\ sends[i] = 0
  /\ sends' = [sends EXCEPT ![i] = @ + 1]

\* A run that is not launched starts with items S, or ends without any.
Opens(r, S) ==
  /\ run[r].status \in UnlaunchedRunStatuses /\ run'[r].status = "queued"
  /\ run'[r].outcome = run[r].outcome
  /\ S # {} /\ S \subseteq ItemsOf(r)
  /\ \A i \in S : item'[i].status = "queued"
  /\ \A i \in Items \ S : item'[i].status = item[i].status
  /\ Others(r)
  /\ sends' = sends

Drops(r) ==
  /\ run[r].status \in UnlaunchedRunStatuses
  /\ run'[r].status \in TerminalRunStatuses
  /\ ReportedBy(run'[r]) \in {"deferred", "cancelled"}
  /\ \A i \in Items : item'[i].status = item[i].status
  /\ Others(r)
  /\ sends' = sends

LedgerStep ==
  \/ Idle
  \/ \E r \in Runs : \/ Drops(r)
                     \/ \E S \in SUBSET Items : Settles(r, S) \/ Opens(r, S)
  \/ \E i \in Items : Restores(i) \/ Pays(i)

-----------------------------------------------------------------------------
(* Such steps keep the invariant.                                          *)

LEMMA SameCounts ==
  ASSUME NEW r, \A i \in ItemsOf(r) : SameVerdict(i)
  PROVE  \A c \in Counters : Counts(r)'[c] = Counts(r)[c]
PROOF
  <1> SUFFICES ASSUME NEW c \in Counters
               PROVE  Counts(r)'[c] = Counts(r)[c]
    OBVIOUS
  <1>1. \A i \in ItemsOf(r) : i \in Items
    BY DEF ItemsOf
  <1>2. \A status \in PendingItemStatuses : status \notin CountedBy(c)
    BY DEF PendingItemStatuses, CountedBy, Counters
  <1>3. {i \in ItemsOf(r) : item'[i].status \in CountedBy(c)}
          = {i \in ItemsOf(r) : item[i].status \in CountedBy(c)}
    BY <1>2 DEF SameVerdict
  <1>4. {i \in ItemsOf(r) : ItemStatusOf'[i] \in CountedBy(c)}
          = {i \in ItemsOf(r) : ItemStatusOf[i] \in CountedBy(c)}
    BY <1>1, <1>3 DEF ItemStatusOf
  <1> QED
    BY <1>4 DEF Counts, RunCountsFromItemGroups

LEMMA OtherTold ==
  ASSUME SettledInv, NEW r \in Runs, run'[r] = run[r],
         \A i \in ItemsOf(r) : SameVerdict(i), RunTold(r), AtLeast(r)
  PROVE  RunTold(r)' /\ AtLeast(r)'
PROOF
  <1>1. AtLeast(r)'
    BY SameCounts DEF AtLeast
  <1>2. ASSUME run[r].status \in TerminalRunStatuses
        PROVE  \A i \in ItemsOf(r) : ItemStatusOf'[i] = ItemStatusOf[i]
    <2>1. \A i \in ItemsOf(r) : i \in Items /\ item[i].status \notin PendingItemStatuses
      BY <1>2 DEF SettledInv, OpenItemsInActiveRuns, RunStatusOf, ItemsOf,
         TerminalRunStatuses, ActiveRunStatuses
    <2> QED
      BY <2>1 DEF SameVerdict, ItemStatusOf
  <1>3. ASSUME run[r].status \in TerminalRunStatuses
        PROVE  /\ Verdicts(r, ItemStatusOf') = Verdicts(r, ItemStatusOf)
               /\ Told(run[r], r, ItemStatusOf') <=> Told(run[r], r, ItemStatusOf)
    <2>1. PICK s, t : s = ItemStatusOf' /\ t = ItemStatusOf
      OBVIOUS
    <2>2. \A i \in ItemsOf(r) : s[i] = t[i]
      BY <1>2, <1>3, <2>1
    <2> QED
      BY <2>1, <2>2, SameStatuses
  <1>4. RunTold(r)'
    BY <1>3 DEF RunTold, Told
  <1> QED
    BY <1>1, <1>4

LEMMA TellerTold ==
  ASSUME NEW r \in Runs, Tells(r)
  PROVE  RunTold(r)' /\ AtLeast(r)'
PROOF
  <1>1. run'[r].tally = Counts(r)' /\ run'[r].status \in TerminalRunStatuses
    BY DEF Tells, Told, Counts
  <1>2. \A c \in Counters : Counts(r)'[c] \in Nat
    <2>1. PICK s : s = ItemStatusOf'
      OBVIOUS
    <2> QED
      BY <2>1, CounterCounts DEF Counts
  <1> QED
    BY <1>1, <1>2 DEF RunTold, Tells, AtLeast, Told

LEMMA OpenTold ==
  ASSUME NEW r \in Runs, RunTold(r), StaysOpen(r)
  PROVE  RunTold(r)' /\ AtLeast(r)'
PROOF
  BY DEF RunTold, StaysOpen, ActiveRunStatuses, TerminalRunStatuses

\* A run without verdicts has nothing to tell.
LEMMA EmptyTold ==
  ASSUME TypeOK', NEW r \in Runs,
         \A i \in ItemsOf(r) : item'[i].status \in {Absent} \cup PendingItemStatuses,
         \/ run'[r].status \notin TerminalRunStatuses /\ run'[r].outcome = NoOutcome
         \/ /\ run'[r].status \in TerminalRunStatuses
            /\ \A i \in ItemsOf(r) : item'[i].status = Absent
  PROVE  RunTold(r)' /\ AtLeast(r)'
PROOF
  <1>1. PICK s : s = ItemStatusOf'
    OBVIOUS
  <1>2. \A i \in ItemsOf(r) : s[i] = item'[i].status
    BY <1>1 DEF ItemStatusOf, ItemsOf
  <1>3. \A c \in Counters : RunCountsFromItemGroups(r, s)[c] = 0
    BY <1>2, NothingCounted
  <1>4. AtLeast(r)'
    BY <1>1, <1>3 DEF AtLeast, Counts, TypeOK
  <1>5. (\A i \in ItemsOf(r) : item'[i].status = Absent) => Verdicts(r, s) = {}
    BY <1>2 DEF Verdicts
  <1> QED
    BY <1>1, <1>4, <1>5 DEF RunTold

LEMMA ToldSteps ==
  ASSUME KnownInv, TypeOK', ReportInv, LedgerStep, NEW q \in Runs
  PROVE  RunTold(q)' /\ AtLeast(q)'
PROOF
  <1>1. /\ TypeOK /\ SettledInv /\ RunTold(q) /\ AtLeast(q)
        /\ \A i \in Items : ItemInv(i)
    BY DEF KnownInv, SettledInv, PaidInv, ReportInv
  <1>2. ASSUME NEW r \in Runs, r # q, Others(r),
               \A i \in Items : RunOf[i] # r => SameVerdict(i)
        PROVE  RunTold(q)' /\ AtLeast(q)'
    <2>1. run'[q] = run[q] /\ \A i \in ItemsOf(q) : SameVerdict(i)
      BY <1>2 DEF Others, ItemsOf
    <2> QED
      BY <1>1, <2>1, OtherTold
  <1>3. CASE Idle
    <2>1. \A i \in ItemsOf(q) : SameVerdict(i)
      BY <1>3 DEF Idle, ItemsOf
    <2>2. CASE run'[q] = run[q]
      BY <1>1, <2>1, <2>2, OtherTold
    <2>3. CASE run'[q] # run[q]
      <3>1. /\ run[q].status \notin TerminalRunStatuses
            /\ Phase(run'[q].status) = Phase(run[q].status)
            /\ run'[q].outcome = run[q].outcome
            /\ \A c \in Counters : run'[q].tally[c] >= run[q].tally[c]
        BY <1>3, <2>3 DEF Idle, RowIdle
      <3>2. run'[q].status \notin TerminalRunStatuses
        BY <1>1, <3>1 DEF Phase, TerminalRunStatuses, ActiveRunStatuses, TypeOK, RunStatuses
      <3>3. AtLeast(q)'
        <4> SUFFICES ASSUME NEW c \in Counters \ {"skipped"}
                     PROVE  run'[q].tally[c] >= Counts(q)'[c]
          BY DEF AtLeast
        <4>1. /\ run'[q].tally[c] >= run[q].tally[c] /\ run[q].tally[c] >= Counts(q)[c]
              /\ Counts(q)'[c] = Counts(q)[c]
          BY <1>1, <2>1, <3>1, SameCounts DEF AtLeast
        <4>2. run'[q].tally[c] \in Nat /\ run[q].tally[c] \in Nat
          BY <1>1 DEF TypeOK
        <4>3. Counts(q)[c] \in Nat
          BY CounterCounts DEF Counts
        <4> QED
          BY <4>1, <4>2, <4>3
      <3> QED
        BY <1>1, <3>1, <3>2, <3>3 DEF RunTold
    <2> QED
      BY <2>2, <2>3
  <1>4. ASSUME NEW r \in Runs, NEW S \in SUBSET Items, Settles(r, S)
        PROVE  RunTold(q)' /\ AtLeast(q)'
    <2>1. Others(r) /\ \A i \in Items : RunOf[i] # r => SameVerdict(i)
      BY <1>4 DEF Settles, ItemsOf
    <2>2. CASE q = r
      BY <1>1, <1>4, <2>2, OpenTold, TellerTold DEF Settles
    <2> QED
      BY <1>2, <2>1, <2>2
  <1>5. ASSUME NEW i \in Items, Restores(i)
        PROVE  RunTold(q)' /\ AtLeast(q)'
    <2>1. PICK r \in Runs : r = RunOf[i]
      BY ContractAssumption
    <2>2. Others(r) /\ \A j \in Items : RunOf[j] # r => SameVerdict(j)
      BY <1>5, <2>1 DEF Restores, SameVerdict
    <2>3. StaysOpen(r) \/ Tells(r)
      BY <1>5, <2>1 DEF Restores
    <2>4. CASE q = r
      BY <1>1, <2>3, <2>4, OpenTold, TellerTold
    <2> QED
      BY <1>2, <2>2, <2>4
  <1>6. ASSUME NEW i \in Items, Pays(i)
        PROVE  RunTold(q)' /\ AtLeast(q)'
    BY <1>1, <1>6, OtherTold DEF Pays, SameVerdict
  <1>7. ASSUME NEW r \in Runs, Drops(r) \/ \E S \in SUBSET Items : Opens(r, S)
        PROVE  RunTold(q)' /\ AtLeast(q)'
    <2>1. Others(r) /\ \A i \in Items : RunOf[i] # r => SameVerdict(i)
      BY <1>7 DEF Drops, Opens, SameVerdict, ItemsOf
    <2>2. \A i \in ItemsOf(r) : item[i].status = Absent
      BY <1>1, <1>7 DEF Drops, Opens, ItemInv, NothingBeforeLink, RunStatusOf, ItemsOf
    <2>3. CASE q = r /\ Drops(r)
      <3>1. \A i \in ItemsOf(r) : item'[i].status = Absent
        BY <2>2, <2>3 DEF Drops, ItemsOf
      <3> QED
        BY <2>3, <3>1, EmptyTold DEF Drops
    <2>4. CASE q = r /\ \E S \in SUBSET Items : Opens(r, S)
      <3>1. \A i \in ItemsOf(r) : item'[i].status \in {Absent} \cup PendingItemStatuses
        BY <2>2, <2>4 DEF Opens, ItemsOf, PendingItemStatuses
      <3>2. run'[r].status \notin TerminalRunStatuses /\ run'[r].outcome = NoOutcome
        BY <1>1, <2>4 DEF Opens, RunTold, TerminalRunStatuses, UnlaunchedRunStatuses
      <3> QED
        BY <2>4, <3>1, <3>2, EmptyTold
    <2> QED
      BY <1>2, <1>7, <2>1, <2>3, <2>4
  <1> QED
    BY <1>3, <1>4, <1>5, <1>6, <1>7 DEF LedgerStep

LEMMA SweepExactSteps ==
  ASSUME KnownInv, ReportInv, LedgerStep, sweep' = sweep
  PROVE  SweepExact'
PROOF
  <1> DEFINE r == sweep.run
  <1> SUFFICES ASSUME sweep.pc = "counted", sweep.status \in ActiveRunStatuses,
                      run'[r].status \in ActiveRunStatuses,
                      PendingRunItems(r, sweep.groups) = {},
                      NEW j \in ItemsOf(r)
               PROVE  sweep.groups[j] = item'[j].status
    BY DEF SweepExact
  <1>1. /\ r \in Runs /\ j \in Items /\ RunOf[j] = r
        /\ run[r].status \in RunStatuses /\ run[r].status \notin UnlaunchedRunStatuses
    BY DEF KnownInv, SettledInv, SweepReadsHold, TypeOK, ItemsOf
  <1>2. \A i \in ItemsOf(r) : item[i].status \notin PendingItemStatuses
    BY DEF KnownInv, SettledInv, SweepReadsHold, PendingRunItems
  <1>3. run[r].status \in ActiveRunStatuses
    <2> SUFFICES ASSUME run[r].status \in TerminalRunStatuses
                 PROVE  FALSE
      BY <1>1 DEF RunStatuses, UnlaunchedRunStatuses, ActiveRunStatuses, TerminalRunStatuses
    <2>1. run'[r] # run[r] /\ run[r].status \notin ActiveRunStatuses
          /\ run'[r].status \notin TerminalRunStatuses
      BY DEF ActiveRunStatuses, TerminalRunStatuses
    <2>2. ~Idle
      BY <1>1, <2>1 DEF Idle, RowIdle
    <2>3. ASSUME NEW q \in Runs PROVE ~Drops(q) /\ \A S \in SUBSET Items : ~Settles(q, S) /\ ~Opens(q, S)
      BY <1>1, <2>1 DEF Drops, Settles, Opens, Others
    <2>4. ASSUME NEW i \in Items PROVE ~Restores(i) /\ ~Pays(i)
      BY <1>1, <2>1 DEF Restores, Pays, Others, StaysOpen, Tells, Told
    <2> QED
      BY <2>2, <2>3, <2>4 DEF LedgerStep
  <1>4. sweep.groups[j] = item[j].status /\ item[j].status \notin PendingItemStatuses
    BY <1>2, <1>3 DEF ReportInv, SweepExact
  <1>5. CASE SameVerdict(j)
    BY <1>4, <1>5 DEF SameVerdict
  <1>6. CASE Idle
    BY <1>1, <1>5, <1>6 DEF Idle
  <1>7. ASSUME NEW q \in Runs, NEW S \in SUBSET Items, Settles(q, S)
        PROVE  SameVerdict(j)
    BY <1>1, <1>4, <1>7 DEF Settles
  <1>8. ASSUME NEW i \in Items, Restores(i)
        PROVE  SameVerdict(j)
    <2>1. CASE i = j
      <3>1. PendingRunItems(r, ItemStatusOf') # {}
        BY <1>1, <1>8, <2>1 DEF Restores, StaysOpen, Tells, Told, ActiveRunStatuses,
           TerminalRunStatuses
      <3>2. PICK k \in ItemsOf(r) : item'[k].status \in PendingItemStatuses
        BY <3>1 DEF PendingRunItems, ItemStatusOf, ItemsOf
      <3>3. k # j /\ k \in Items
        BY <1>8, <2>1, <3>2 DEF Restores, PendingItemStatuses, ItemsOf
      <3> QED
        BY <1>2, <1>8, <2>1, <3>2, <3>3 DEF Restores
    <2>2. CASE i # j
      BY <1>1, <1>8, <2>2 DEF Restores, SameVerdict
    <2> QED
      BY <2>1, <2>2
  <1>9. ASSUME NEW i \in Items, Pays(i)
        PROVE  SameVerdict(j)
    BY <1>9 DEF Pays, SameVerdict
  <1>10. ASSUME NEW q \in Runs, Drops(q) \/ \E S \in SUBSET Items : Opens(q, S)
         PROVE  SameVerdict(j)
    BY <1>1, <1>10 DEF Drops, Opens, SameVerdict, ItemsOf
  <1> QED
    BY <1>5, <1>6, <1>7, <1>8, <1>9, <1>10 DEF LedgerStep

-----------------------------------------------------------------------------
(* What the transactions are built from.                                   *)

LEMMA CountersApart ==
  ASSUME NEW c \in Counters, NEW d \in Counters, NEW status \in CountedBy(c), c # d
  PROVE  status \notin CountedBy(d)
PROOF
  BY DEF Counters, CountedBy

LEMMA IdleStep ==
  ASSUME UNCHANGED <<run, item, sends>>
  PROVE  LedgerStep
PROOF
  BY DEF LedgerStep, Idle, SameVerdict, RowIdle

\* Items S of an active run get the verdict of one counter, which grows by their
\* number: the run stays open with enough counted.
LEMMA CountedEnough ==
  ASSUME KnownInv, ReportInv, NEW r \in Runs, run[r].status \in ActiveRunStatuses,
         NEW S \in SUBSET ItemsOf(r), NEW counter \in Counters,
         \A i \in S : item'[i].status \in CountedBy(counter),
         \A i \in Items \ S : item'[i] = item[i],
         run'[r].status \in ActiveRunStatuses, run'[r].outcome = run[r].outcome,
         run'[r].tally = [run[r].tally EXCEPT ![counter] = @ + Cardinality(S)]
  PROVE  StaysOpen(r)
PROOF
  <1> SUFFICES ASSUME NEW c \in Counters \ {"skipped"}
               PROVE  run'[r].tally[c] >= Counts(r)'[c]
    BY DEF StaysOpen, AtLeast
  <1>1. PICK s, t : s = ItemStatusOf /\ t = ItemStatusOf'
    OBVIOUS
  <1>2. S \in SUBSET Items /\ \A i \in ItemsOf(r) \ S : t[i] = s[i]
    BY <1>1 DEF ItemStatusOf, ItemsOf
  <1>3. \A i \in S : t[i] = item'[i].status
    BY <1>1, <1>2 DEF ItemStatusOf
  <1>4. LET before == RunCountsFromItemGroups(r, s)[c]
            after == RunCountsFromItemGroups(r, t)[c]
        IN  /\ before \in Nat /\ after \in Nat /\ Cardinality(S) \in Nat
            /\ after <= before + Cardinality(S)
            /\ (\A i \in S : t[i] \notin CountedBy(c)) => after <= before
    BY <1>2, CountsGrow
  <1>5. /\ Counts(r)[c] = RunCountsFromItemGroups(r, s)[c]
        /\ Counts(r)'[c] = RunCountsFromItemGroups(r, t)[c]
    BY <1>1 DEF Counts
  <1>6. /\ run[r].tally \in [Counters -> Nat] /\ run[r].tally[c] \in Nat
        /\ run[r].tally[c] >= Counts(r)[c]
    BY DEF KnownInv, SettledInv, TypeOK, ReportInv, AtLeast
  <1>7. CASE c = counter
    <2>1. run'[r].tally[c] = run[r].tally[c] + Cardinality(S)
      BY <1>6, <1>7
    <2> QED
      BY <1>4, <1>5, <1>6, <2>1
  <1>8. CASE c # counter
    <2>1. run'[r].tally[c] = run[r].tally[c]
      BY <1>6, <1>8
    <2>2. \A i \in S : t[i] \notin CountedBy(c)
      BY <1>3, <1>8, CountersApart
    <2> QED
      BY <1>4, <1>5, <1>6, <2>1, <2>2
  <1> QED
    BY <1>7, <1>8

\* The row a finaliser writes tells what the items say.
LEMMA FinalTellsItems ==
  ASSUME NEW r \in Runs, NEW statuses, NEW seen, statuses = ItemStatusOf',
         PendingRunItems(r, statuses) = {}, run'[r] = FinalRunData(r, statuses, seen)
  PROVE  Tells(r)
PROOF
  BY FinalTells DEF Tells

\* Settling an open item gives it its verdict, and closes the run or counts it.
LEMMA SettleSteps ==
  ASSUME KnownInv, ReportInv, NEW i \in Items, item[i].status \in PendingItemStatuses,
         NEW status \in TerminalItemStatuses, NEW reason \in Reasons,
         NEW counter \in Counters, status \in CountedBy(counter), NEW seen,
         SettleItem(i, status, reason, counter, seen), sends' = sends
  PROVE  LedgerStep
PROOF
  <1>1. TypeOK /\ OpenItemsInActiveRuns
    BY DEF KnownInv, SettledInv
  <1>2. PICK r \in Runs : r = RunOf[i]
    BY ContractAssumption
  <1>3. PICK statuses : statuses = ItemStatusOf'
    OBVIOUS
  <1>4. ItemClosed(i, status, reason) /\ RunSettled(i)
    BY <1>1, SettledItem
  <1>5. /\ run[r].status \in ActiveRunStatuses
        /\ run[r] \in RunRow /\ run[r].tally \in [Counters -> Nat]
    BY <1>1, <1>2 DEF OpenItemsInActiveRuns, RunStatusOf, TypeOK, RunRow
  <1>6. run' = [run EXCEPT ![r] = FinalizeRankCheckRun(r, Count(run[r], counter), statuses, seen)]
    BY <1>2, <1>3 DEF SettleItem, ItemStatusOf
  <1>7. run'[r] = FinalizeRankCheckRun(r, Count(run[r], counter), statuses, seen)
    BY <1>1, <1>6 DEF TypeOK
  <1>8. Others(r)
    BY <1>2, <1>4 DEF Others, RunSettled
  <1>9. ASSUME PendingRunItems(r, statuses) = {}, run'[r] = FinalRunData(r, statuses, seen)
        PROVE  Tells(r)
    BY <1>3, <1>9, FinalTellsItems
  <1>10. ASSUME run'[r] = Count(run[r], counter)
         PROVE  StaysOpen(r)
    <2>1. /\ run'[r].status = run[r].status /\ run'[r].outcome = run[r].outcome
          /\ run'[r].tally = [run[r].tally EXCEPT ![counter] = @ + 1]
      BY <1>5, <1>10 DEF Count, RunRow
    <2>2. Cardinality({i}) = 1
      BY FS_Singleton
    <2>3. {i} \in SUBSET ItemsOf(r)
      BY <1>2 DEF ItemsOf
    <2>4. /\ \A j \in {i} : item'[j].status \in CountedBy(counter)
          /\ \A j \in Items \ {i} : item'[j] = item[j]
      BY <1>4 DEF ItemClosed
    <2> QED
      BY <1>5, <2>1, <2>2, <2>3, <2>4, CountedEnough
  <1>11. StaysOpen(r) \/ Tells(r)
    BY <1>7, <1>9, <1>10 DEF FinalizeRankCheckRun
  <1>12. Settles(r, {i})
    BY <1>2, <1>4, <1>5, <1>8, <1>11 DEF Settles, ItemClosed, SameVerdict, ItemsOf
  <1> QED
    BY <1>12 DEF LedgerStep

LEMMA ApplySteps ==
  ASSUME KnownInv, ReportInv, NEW i \in Items, NEW to \in {"completed", "failed", "deferred"},
         ApplyRunItemTransition(i, to), sends' = sends
  PROVE  LedgerStep
PROOF
  <1>1. /\ to \in TerminalItemStatuses /\ to \in Counters /\ to \in CountedBy(to)
        /\ item[i].reason \in Reasons
    BY DEF TerminalItemStatuses, Counters, CountedBy, KnownInv, SettledInv, TypeOK
  <1>2. CASE item[i].status \in PendingItemStatuses
    <2>1. PICK reason, seen : reason \in Reasons /\ reason = item[i].reason /\ seen = RunStatusOf(i)
      BY <1>1
    <2>2. SettleItem(i, to, reason, to, seen)
      BY <1>2, <2>1 DEF ApplyRunItemTransition
    <2> QED
      BY <1>1, <1>2, <2>1, <2>2, SettleSteps
  <1>3. CASE item[i].status \notin PendingItemStatuses
    BY <1>3, IdleStep DEF ApplyRunItemTransition
  <1> QED
    BY <1>2, <1>3

\* Finalising a run outside the transaction that settled its last item.
LEMMA FinalizeSteps ==
  ASSUME KnownInv, NEW r \in Runs, NEW statuses, NEW seen,
         run' = [run EXCEPT ![r] = FinalizeRankCheckRun(r, run[r], statuses, seen)],
         seen \in ActiveRunStatuses /\ run[r].status = seen
           /\ PendingRunItems(r, statuses) = {}
           => \A i \in ItemsOf(r) : statuses[i] = item[i].status,
         item' = item, sends' = sends
  PROVE  LedgerStep
PROOF
  <1>1. TypeOK
    BY DEF KnownInv, SettledInv
  <1>2. CASE run' = run
    BY <1>2, IdleStep
  <1>3. CASE run' # run
    <2>1. /\ seen \in ActiveRunStatuses /\ run[r].status = seen
          /\ PendingRunItems(r, statuses) = {}
          /\ run'[r] = FinalRunData(r, statuses, seen)
          /\ Others(r)
      BY <1>1, <1>3 DEF FinalizeRankCheckRun, TypeOK, Others
    <2>2. PICK told : told = ItemStatusOf'
      OBVIOUS
    <2>3. \A i \in ItemsOf(r) : statuses[i] = told[i]
      BY <2>1, <2>2 DEF ItemStatusOf, ItemsOf
    <2>4. Told(run'[r], r, statuses)
      BY <2>1, FinalTells
    <2>5. Tells(r)
      BY <2>2, <2>3, <2>4, SameStatuses DEF Tells
    <2>6. Settles(r, {})
      BY <2>1, <2>5 DEF Settles, SameVerdict
    <2> QED
      BY <2>6 DEF LedgerStep
  <1> QED
    BY <1>2, <1>3

\* Starting a run changes nothing that is reported.
LEMMA StartSteps ==
  ASSUME TypeOK, NEW r \in Runs, MarkRankCheckRunStarted(r),
         \A i \in Items : SameVerdict(i), sends' = sends
  PROVE  LedgerStep
PROOF
  <1>1. \A q \in Runs \ {r} : run'[q] = run[q]
    BY DEF MarkRankCheckRunStarted, TypeOK
  <1>2. run[r] \in RunRow
    BY DEF TypeOK, RunRow
  <1>3. \/ run'[r] = run[r]
        \/ /\ run[r].status = "queued" /\ run'[r].status = "running"
           /\ run'[r].outcome = run[r].outcome /\ run'[r].tally = run[r].tally
    BY <1>2 DEF MarkRankCheckRunStarted, TypeOK, RunRow
  <1>4. \A c \in Counters : run[r].tally[c] \in Nat
    BY <1>2 DEF RunRow
  <1>5. RowIdle(r)
    BY <1>3, <1>4 DEF RowIdle, Phase, ActiveRunStatuses, TerminalRunStatuses
  <1> QED
    BY <1>1, <1>5 DEF LedgerStep, Idle, RowIdle

-----------------------------------------------------------------------------
(* Every step of every actor is one the ledger allows.                     *)

LEMMA LedgerItem ==
  ASSUME KnownInv, ReportInv, NEW i \in Items, WorkflowStep(i) \/ DispatcherStep(i)
  PROVE  LedgerStep
PROOF
  <1>1. TypeOK /\ RunOf[i] \in Runs
    BY ContractAssumption DEF KnownInv, SettledInv
  <1>2. CASE StartRunItem(i) \/ CreateHitsBusyKeyword(i) \/ RetryAfterBusyKeyword(i)
             \/ CreateGivesUp(i) \/ ClosingActivityLost(i)
    BY <1>2, IdleStep
       DEF StartRunItem, CreateHitsBusyKeyword, RetryAfterBusyKeyword, CreateGivesUp,
           ClosingActivityLost, dbvars
  <1>3. CASE CreateRunningRankCheck(i) \/ Claim(i)
    <2>1. /\ item[i].status \in PendingItemStatuses /\ item'[i].status = "running"
          /\ \A j \in Items \ {i} : item'[j] = item[j]
      BY <1>1, <1>3 DEF CreateRunningRankCheck, Claim, Candidate, DueQueued, ClaimExpired,
         PendingItemStatuses, TypeOK
    <2>2. \A j \in Items : SameVerdict(j)
      BY <2>1 DEF SameVerdict, PendingItemStatuses
    <2>3. PICK r \in Runs : r = RunOf[i]
      BY <1>1
    <2>4. MarkRankCheckRunStarted(r) /\ sends' = sends
      BY <1>3, <2>3 DEF CreateRunningRankCheck, Claim, flowvars
    <2> QED
      BY <1>1, <2>2, <2>4, StartSteps
  <1>4. CASE DeferRunItemForBusyKeyword(i)
    BY <1>4, SettleSteps
       DEF DeferRunItemForBusyKeyword, PendingItemStatuses, TerminalItemStatuses, Reasons,
           Counters, CountedBy
  <1>5. CASE CancelUnrunnableCandidate(i)
    BY <1>5, SettleSteps
       DEF CancelUnrunnableCandidate, Candidate, DueQueued, ClaimExpired, flowvars,
           PendingItemStatuses, TerminalItemStatuses, Reasons, Counters, CountedBy
  <1>6. CASE BlockClaimLost(i)
    BY <1>6, SettleSteps
       DEF BlockClaimLost, Candidate, DueQueued, ClaimExpired, flowvars,
           PendingItemStatuses, TerminalItemStatuses, Reasons, Counters, CountedBy
  <1>7. CASE FailRankCheck(i) \/ DiscardRankCheck(i)
    BY <1>7, ApplySteps, IdleStep DEF FailRankCheck, DiscardRankCheck
  <1>8. CASE ExpireLease(i)
    <2>1. UNCHANGED <<run, sends>> /\ \A j \in Items : item'[j].status = item[j].status
      BY <1>1, <1>8 DEF ExpireLease, flowvars, TypeOK
    <2> QED
      BY <2>1 DEF LedgerStep, Idle, SameVerdict, RowIdle
  <1> QED
    BY <1>2, <1>3, <1>4, <1>5, <1>6, <1>7, <1>8
       DEF WorkflowStep, DispatcherStep, ClaimQueued, ReclaimExpired

LEMMA LedgerBatch ==
  ASSUME KnownInv, ReportInv, NEW i \in Items, BatchStep(i)
  PROVE  LedgerStep
PROOF
  <1>1. TypeOK /\ ItemInv(i)
    BY DEF KnownInv, SettledInv, PaidInv
  <1>2. CASE PrepareBatch(i)
    <2>1. UNCHANGED <<run, sends>> /\ \A j \in Items : item'[j].status = item[j].status
      BY <1>1, <1>2 DEF PrepareBatch, flowvars, TypeOK
    <2> QED
      BY <2>1 DEF LedgerStep, Idle, SameVerdict, RowIdle
  <1>3. CASE SubmitBatch(i)
    <2>1. UNCHANGED <<run, item>> /\ sends' = [sends EXCEPT ![i] = @ + 1]
      BY <1>3 DEF SubmitBatch
    <2>2. item[i].status # Absent /\ sends[i] = 0
      BY <1>1, <1>3 DEF SubmitBatch, ItemInv, NothingBeforeLink, OneHolder
    <2> QED
      BY <2>1, <2>2 DEF LedgerStep, Pays
  <1>4. CASE PrepareDeferredBatch(i) \/ RetainBatchResult(i)
    BY <1>4, ApplySteps, IdleStep
       DEF PrepareDeferredBatch, RetainBatchResult, flowvars, dbvars
  <1>5. CASE PersistBatchResult(i) \/ DeferBatch(i)
    <2>1. PICK verdict \in {"completed", "failed", "deferred"} :
            SettleTask(i, verdict) /\ sends' = sends
      BY <1>5 DEF PersistBatchResult, DeferBatch, flowvars
    <2> QED
      BY <2>1, ApplySteps, IdleStep DEF SettleTask
  <1> QED
    BY <1>2, <1>3, <1>4, <1>5 DEF BatchStep

LEMMA LedgerAttempt ==
  ASSUME KnownInv, ReportInv, NEW i \in Items, NEW n \in Tries, AttemptStep(i, n)
  PROVE  LedgerStep
PROOF
  <1>1. TypeOK /\ ItemInv(i)
    BY DEF KnownInv, SettledInv, PaidInv
  <1>2. CASE ClaimPaidCall(i, n) \/ RetainRankResult(i, n) \/ AttemptTimesOut(i, n)
             \/ PaidCallFails(i, n)
    BY <1>2, IdleStep
       DEF ClaimPaidCall, RetainRankResult, AttemptTimesOut, PaidCallFails, dbvars
  <1>3. CASE SendPaidCall(i, n)
    <2>1. UNCHANGED <<run, item>> /\ sends' = [sends EXCEPT ![i] = @ + 1]
      BY <1>3 DEF SendPaidCall, dbvars
    <2>2. item[i].status # Absent /\ sends[i] = 0
      BY <1>1, <1>3 DEF SendPaidCall, StepAttempt, ItemInv, NothingBeforeLink, OneHolder
    <2> QED
      BY <2>1, <2>2 DEF LedgerStep, Pays
  <1>4. CASE StopUnrunnable(i, n)
    BY <1>4, SettleSteps, IdleStep
       DEF StopUnrunnable, PendingItemStatuses, TerminalItemStatuses, Reasons, Counters,
           CountedBy
  <1>5. CASE LosePaidCall(i, n)
    <2>1. UNCHANGED <<run, sends>>
      BY <1>5 DEF LosePaidCall
    <2>2. CASE item' = item
      BY <2>1, <2>2, IdleStep
    <2>3. CASE item[i].status = "running" /\ item' = Closed(i, "blocked", "send_unconfirmed")
      <3>1. ItemClosed(i, "blocked", "send_unconfirmed")
        BY <1>1, <2>3, ClosedItem DEF ItemStatuses, TerminalItemStatuses, Reasons
      <3>2. PICK r \in Runs : r = RunOf[i]
        BY ContractAssumption
      <3>3. run[r].status \in ActiveRunStatuses
        BY <2>3, <3>2 DEF KnownInv, SettledInv, OpenItemsInActiveRuns, RunStatusOf,
           PendingItemStatuses
      <3>4. AtLeast(r)'
        <4> SUFFICES ASSUME NEW c \in Counters \ {"skipped"}
                     PROVE  run'[r].tally[c] >= Counts(r)'[c]
          BY DEF AtLeast
        <4>1. PICK s, t : s = ItemStatusOf /\ t = ItemStatusOf'
          OBVIOUS
        <4>2. /\ {i} \in SUBSET Items /\ \A j \in ItemsOf(r) \ {i} : t[j] = s[j]
              /\ \A j \in {i} : t[j] \notin CountedBy(c)
          BY <3>1, <4>1 DEF ItemClosed, ItemStatusOf, ItemsOf, CountedBy, Counters
        <4>3. LET before == RunCountsFromItemGroups(r, s)[c]
                  after == RunCountsFromItemGroups(r, t)[c]
              IN  before \in Nat /\ after \in Nat /\ after <= before
          BY <4>2, CountsGrow
        <4>4. run[r].tally[c] \in Nat /\ run[r].tally[c] >= Counts(r)[c]
          BY <1>1 DEF TypeOK, ReportInv, AtLeast
        <4>5. /\ Counts(r)[c] = RunCountsFromItemGroups(r, s)[c]
              /\ Counts(r)'[c] = RunCountsFromItemGroups(r, t)[c]
          BY <4>1 DEF Counts
        <4>6. run' = run
          BY <2>1
        <4> QED
          BY <4>3, <4>4, <4>5, <4>6
      <3>5. Settles(r, {i})
        BY <2>1, <2>3, <3>1, <3>2, <3>3, <3>4
           DEF Settles, StaysOpen, Others, ItemClosed, SameVerdict, ItemsOf,
               PendingItemStatuses, TerminalItemStatuses
      <3> QED
        BY <3>5 DEF LedgerStep
    <2> QED
      BY <1>5, <2>2, <2>3 DEF LosePaidCall
  <1>6. CASE FinalizeAfterLostCall(i, n)
    <2>1. PICK s \in ActiveRunStatuses :
            run' = [run EXCEPT ![RunOf[i]] =
                      FinalizeRankCheckRun(RunOf[i], run[RunOf[i]], ItemStatusOf, s)]
      BY <1>6 DEF FinalizeAfterLostCall
    <2>2. PICK r \in Runs : r = RunOf[i]
      BY ContractAssumption
    <2>3. PICK statuses : statuses = ItemStatusOf
      OBVIOUS
    <2>4. run' = [run EXCEPT ![r] = FinalizeRankCheckRun(r, run[r], statuses, s)]
      BY <2>1, <2>2, <2>3
    <2>5. \A j \in ItemsOf(r) : statuses[j] = item[j].status
      BY <2>3 DEF ItemStatusOf, ItemsOf
    <2>6. item' = item /\ sends' = sends
      BY <1>6 DEF FinalizeAfterLostCall
    <2> QED
      BY <2>4, <2>5, <2>6, FinalizeSteps
  <1>7. CASE PersistRankCheck(i, n)
    BY <1>7, ApplySteps, IdleStep DEF PersistRankCheck
  <1> QED
    BY <1>2, <1>3, <1>4, <1>5, <1>6, <1>7 DEF AttemptStep

\* A launch opens a run over its items; a planned run can also end without any.
LEMMA LedgerPlanner ==
  ASSUME KnownInv, ReportInv, PlannerStep
  PROVE  LedgerStep
PROOF
  <1>1. TypeOK /\ \A i \in Items : ItemInv(i)
    BY DEF KnownInv, SettledInv, PaidInv
  <1>2. ASSUME NEW r \in Runs, LaunchPlannedRun(r)
        PROVE  LedgerStep
    <2>1. /\ run[r].status \in UnlaunchedRunStatuses /\ sends' = sends /\ Others(r)
          /\ \A i \in ItemsOf(r) : item[i].status = Absent
      BY <1>1, <1>2, Launched DEF LaunchPlannedRun, UnlaunchedRunStatuses, flowvars, Others,
         ItemInv, NothingBeforeLink, RunStatusOf, ItemsOf
    <2>2. CASE run'[r].status = "completed" /\ run'[r].outcome = "deferred" /\ item' = item
      <3>1. Drops(r)
        BY <2>1, <2>2 DEF Drops, TerminalRunStatuses, ReportedBy
      <3> QED
        BY <3>1 DEF LedgerStep
    <2>3. CASE /\ run'[r].status = "queued" /\ run'[r].outcome = run[r].outcome
               /\ \E i \in ItemsOf(r) : item'[i].status = "queued"
               /\ \A i \in Items :
                    \/ item'[i] = item[i]
                    \/ RunOf[i] = r /\ item'[i] = [item[i] EXCEPT !.status = "queued"]
      <3> DEFINE S == {i \in ItemsOf(r) : item'[i].status = "queued"}
      <3>1. \A i \in Items \ S : item'[i].status = item[i].status
        <4> SUFFICES ASSUME NEW i \in Items, item'[i].status # item[i].status
                     PROVE  i \in S
          OBVIOUS
        <4>1. item[i] \in ItemRow
          BY <1>1 DEF TypeOK, ItemRow
        <4>2. RunOf[i] = r /\ item'[i].status = "queued"
          BY <2>3, <4>1 DEF ItemRow
        <4> QED
          BY <4>2 DEF ItemsOf
      <3>2. S # {} /\ S \subseteq ItemsOf(r) /\ S \in SUBSET Items
        BY <2>3 DEF ItemsOf
      <3>3. \A i \in S : item'[i].status = "queued"
        OBVIOUS
      <3> HIDE DEF S
      <3>4. Opens(r, S)
        BY <2>1, <2>3, <3>1, <3>2, <3>3 DEF Opens
      <3> QED
        BY <3>2, <3>4 DEF LedgerStep
    <2> QED
      BY <1>1, <1>2, <2>2, <2>3, Launched
  <1>3. ASSUME NEW r \in Runs, BlockPlannedRun(r)
        PROVE  LedgerStep
    <2>1. /\ UNCHANGED <<item, sends>> /\ Others(r)
          /\ run[r].status = "planned" /\ run'[r].status = "blocked"
          /\ run'[r].outcome = NoOutcome /\ run'[r].tally = run[r].tally
      BY <1>1, <1>3 DEF BlockPlannedRun, SetRun, flowvars, TypeOK, Others
    <2>2. run[r].outcome = NoOutcome
      BY <2>1 DEF ReportInv, RunTold, TerminalRunStatuses
    <2>3. \A c \in Counters : run'[r].tally[c] >= run[r].tally[c]
      <3>1. \A c \in Counters : run[r].tally[c] \in Nat
        BY <1>1 DEF TypeOK
      <3> QED
        BY <2>1, <3>1
    <2>4. Phase(run'[r].status) = "planned" /\ Phase(run[r].status) = "planned"
      BY <2>1 DEF Phase, ActiveRunStatuses, TerminalRunStatuses
    <2>5. RowIdle(r)
      BY <2>1, <2>2, <2>3, <2>4 DEF RowIdle, TerminalRunStatuses
    <2> QED
      BY <2>1, <2>5 DEF LedgerStep, Idle, RowIdle, SameVerdict, Others
  <1>4. ASSUME NEW r \in Runs, ExpireBlockedRun(r) \/ SkipPlannedRun(r)
        PROVE  LedgerStep
    <2>1. /\ UNCHANGED <<item, sends>> /\ Others(r)
          /\ run[r].status \in UnlaunchedRunStatuses
          /\ \/ run'[r].status = "completed" /\ run'[r].outcome = "deferred"
             \/ run'[r].status = "cancelled" /\ run'[r].outcome = NoOutcome
      BY <1>1, <1>4 DEF ExpireBlockedRun, SkipPlannedRun, SetRun, flowvars, TypeOK, Others,
         UnlaunchedRunStatuses
    <2>2. Drops(r)
      BY <2>1 DEF Drops, TerminalRunStatuses, ReportedBy
    <2> QED
      BY <2>2 DEF LedgerStep
  <1>5. ASSUME NEW k \in Keywords, PauseKeyword(k)
        PROVE  LedgerStep
    BY <1>5, IdleStep DEF PauseKeyword, dbvars, flowvars
  <1> QED
    BY <1>2, <1>3, <1>4, <1>5 DEF PlannerStep

\* A restored result is the verdict of an open item, or corrects a lesser one;
\* the run is told again, or counted again if it has open items.
LEMMA LedgerRestore ==
  ASSUME KnownInv, ReportInv, NEW i \in Items, RestoreRetainedResult(i),
         ~ UNCHANGED <<run, item>>
  PROVE  LedgerStep
PROOF
  <1>1. /\ TypeOK /\ OpenItemsInActiveRuns /\ ItemInv(i) /\ TargetOK(i) /\ Released(i)
    BY DEF KnownInv, SettledInv, PaidInv, TargetInv, VerdictInv
  <1>2. /\ evidence[i] /\ check[i].status # "completed" /\ RecoverRunItem(i)
        /\ item[i].status # "cancelled" /\ sends' = sends
    BY DEF RestoreRetainedResult, Restorable, RecoverRunItem, dbvars
  <1>3. PICK r \in Runs : r = RunOf[i]
    BY ContractAssumption
  <1>4. i \in ItemsOf(r)
    BY <1>3 DEF ItemsOf
  <1>5. sends[i] = 1 /\ Linked(i)
    <2>1. sends[i] # 0 /\ sends[i] <= 1 /\ sends[i] \in Nat
      BY <1>1, <1>2 DEF TargetOK, SentFirst, ItemInv, OneHolder, TypeOK
    <2> QED
      BY <1>1, <1>2, <2>1 DEF ItemInv, NothingBeforeLink
  <1>6. item[i].status \in {"running", "failed", "deferred", "blocked"}
    <2>1. item[i].status \notin {Absent, "queued", "completed", "skipped", "cancelled"}
      BY <1>1, <1>2, <1>5 DEF TargetOK, Agrees, Released, ItemInv, NothingBeforeLink
    <2>2. item[i].status \in ItemStatuses
      BY <1>1 DEF TypeOK
    <2> QED
      BY <2>1, <2>2 DEF ItemStatuses, PendingItemStatuses, TerminalItemStatuses
  <1>7. run[r].status \notin UnlaunchedRunStatuses
    BY <1>1, <1>3, <1>6 DEF ItemInv, NothingBeforeLink, RunStatusOf, Absent
  <1>8. /\ item'[i].status = "completed"
        /\ \A j \in Items \ {i} : item'[j] = item[j]
    <2>1. item' = Closed(i, "completed", item[i].reason)
      BY <1>2 DEF RecoverRunItem
    <2> QED
      BY <1>1, <2>1 DEF Closed, TypeOK
  <1>9. PICK statuses, told : statuses = [ItemStatusOf EXCEPT ![i] = "completed"]
                              /\ told = ItemStatusOf'
    OBVIOUS
  <1>10. statuses = told
    <2>1. \A j \in Items : statuses[j] = told[j]
      BY <1>8, <1>9 DEF ItemStatusOf
    <2> QED
      BY <1>9, <2>1 DEF ItemStatusOf
  <1>11. /\ Others(r)
         /\ run'[r] = IF PendingRunItems(r, statuses) = {}
                      THEN FinalRunData(r, statuses, run[r].status)
                      ELSE [run[r] EXCEPT !.tally = RunCountsFromItemGroups(r, statuses)]
    <2>1. run' = [run EXCEPT ![r] =
                    IF PendingRunItems(r, statuses) = {}
                    THEN FinalRunData(r, statuses, run[r].status)
                    ELSE [run[r] EXCEPT !.tally = RunCountsFromItemGroups(r, statuses)]]
      BY <1>2, <1>3, <1>9 DEF RecoverRunItem
    <2>2. PICK row : row = IF PendingRunItems(r, statuses) = {}
                    THEN FinalRunData(r, statuses, run[r].status)
                    ELSE [run[r] EXCEPT !.tally = RunCountsFromItemGroups(r, statuses)]
      OBVIOUS
    <2>3. run' = [run EXCEPT ![r] = row]
      BY <2>1, <2>2
    <2> QED
      BY <1>1, <2>2, <2>3 DEF TypeOK, Others
  <1>12. \/ StaysOpen(r) /\ PendingRunItems(r, ItemStatusOf') # {}
         \/ Tells(r)
    <2>1. CASE PendingRunItems(r, statuses) = {}
      <3>1. PICK seen : seen = run[r].status
        OBVIOUS
      <3>2. run'[r] = FinalRunData(r, statuses, seen)
        BY <1>11, <2>1, <3>1
      <3>3. Tells(r)
        BY <1>9, <1>10, <2>1, <3>2, FinalTellsItems
      <3> QED
        BY <3>3
    <2>2. CASE PendingRunItems(r, statuses) # {}
      <3>1. PICK k \in ItemsOf(r) : told[k] \in PendingItemStatuses
        BY <1>10, <2>2 DEF PendingRunItems
      <3>2. k \in Items /\ k # i /\ RunOf[k] = r /\ item[k].status \in PendingItemStatuses
        BY <1>8, <1>9, <3>1 DEF ItemStatusOf, ItemsOf, PendingItemStatuses
      <3>3. run[r].status \in ActiveRunStatuses
        BY <1>1, <3>2 DEF OpenItemsInActiveRuns, RunStatusOf
      <3>4. run[r] \in RunRow
        BY <1>1 DEF TypeOK, RunRow
      <3>5. PICK counts : counts = RunCountsFromItemGroups(r, statuses)
        OBVIOUS
      <3>6. run'[r] = [run[r] EXCEPT !.tally = counts]
        BY <1>11, <2>2, <3>5
      <3>7. /\ run'[r].status = run[r].status /\ run'[r].outcome = run[r].outcome
            /\ run'[r].tally = counts
        BY <3>4, <3>6 DEF RunRow
      <3>8. AtLeast(r)'
        <4>1. \A c \in Counters : counts[c] \in Nat /\ Counts(r)'[c] = counts[c]
          BY <1>9, <1>10, <3>5, CounterCounts DEF Counts
        <4> QED
          BY <3>7, <4>1 DEF AtLeast
      <3>9. PendingRunItems(r, ItemStatusOf') # {}
        BY <1>9, <1>10, <2>2
      <3> QED
        BY <3>3, <3>7, <3>8, <3>9 DEF StaysOpen
    <2> QED
      BY <2>1, <2>2
  <1>13. CASE item[i].status = "running"
    <2>1. Settles(r, {i})
      BY <1>1, <1>2, <1>3, <1>4, <1>8, <1>11, <1>12, <1>13
         DEF Settles, SameVerdict, OpenItemsInActiveRuns, RunStatusOf, PendingItemStatuses,
             TerminalItemStatuses
    <2> QED
      BY <2>1 DEF LedgerStep
  <1>14. CASE item[i].status \in {"failed", "deferred", "blocked"}
    <2>1. Restores(i)
      BY <1>2, <1>3, <1>5, <1>7, <1>8, <1>11, <1>12, <1>14 DEF Restores
    <2> QED
      BY <2>1 DEF LedgerStep
  <1> QED
    BY <1>6, <1>13, <1>14

\* The reconciler closes a run over what it counted, which still holds, or
\* raises counters.
LEMMA LedgerSweep ==
  ASSUME KnownInv, ReportInv, SweepWrite
  PROVE  LedgerStep
PROOF
  <1>1. TypeOK /\ SweepActive /\ UNCHANGED <<item, sends>>
    BY DEF KnownInv, SettledInv, SweepWrite, flowvars
  <1>2. PICK r, seen, groups : r \in Runs /\ r = sweep.run /\ seen = sweep.status
                                        /\ groups = sweep.groups
    BY <1>1 DEF TypeOK
  <1>3. PICK greatest, counts :
          /\ counts = RunCountsFromItemGroups(r, groups)
          /\ greatest = GreatestTally(run[r], counts)
    OBVIOUS
  <1>4. run' = [run EXCEPT ![r] = IF PendingRunItems(r, groups) = {}
                                  THEN FinalizeRankCheckRun(r, run[r], groups, seen)
                                  ELSE IF run[r].status = seen THEN greatest ELSE run[r]]
    BY <1>2, <1>3 DEF SweepWrite
  <1>5. CASE PendingRunItems(r, groups) = {}
    <2>1. run' = [run EXCEPT ![r] = FinalizeRankCheckRun(r, run[r], groups, seen)]
      BY <1>4, <1>5
    <2>2. seen \in ActiveRunStatuses /\ run[r].status = seen =>
            \A i \in ItemsOf(r) : groups[i] = item[i].status
      BY <1>2, <1>5 DEF ReportInv, SweepExact, SweepWrite
    <2> QED
      BY <1>1, <1>2, <2>1, <2>2, FinalizeSteps
  <1>6. CASE PendingRunItems(r, groups) # {} /\ run[r].status = seen
    <2>1. run' = [run EXCEPT ![r] = greatest]
      BY <1>4, <1>6
    <2>2. Others(r) /\ run'[r] = greatest
      BY <1>1, <1>2, <2>1 DEF TypeOK, Others
    <2>3. run[r] \in RunRow
      BY <1>1, <1>2 DEF TypeOK, RunRow
    <2>4. \A c \in Counters : counts[c] \in Nat /\ run[r].tally[c] \in Nat
      BY <1>3, <2>3, CounterCounts DEF RunRow
    <2>5. PICK tally : tally = [c \in Counters |-> IF counts[c] > run[r].tally[c]
                                                   THEN counts[c] ELSE run[r].tally[c]]
      OBVIOUS
    <2>6. \A c \in Counters : tally[c] >= run[r].tally[c]
      BY <2>4, <2>5
    <2>7. greatest = [run[r] EXCEPT !.tally = tally]
      BY <1>3, <2>5 DEF GreatestTally
    <2>8. /\ greatest.status = run[r].status /\ greatest.outcome = run[r].outcome
          /\ greatest.tally = tally
      BY <2>3, <2>7 DEF RunRow
    <2>9. seen \notin TerminalRunStatuses
      BY <1>1, <1>2 DEF SweepWrite, SweepActive
    <2>10. RowIdle(r)
      BY <1>6, <2>2, <2>6, <2>8, <2>9 DEF RowIdle
    <2> QED
      BY <1>1, <2>2, <2>10 DEF LedgerStep, Idle, RowIdle, SameVerdict, Others
  <1>7. CASE PendingRunItems(r, groups) # {} /\ run[r].status # seen
    <2>1. run' = run
      BY <1>1, <1>4, <1>7 DEF TypeOK
    <2> QED
      BY <1>1, <2>1, IdleStep
  <1> QED
    BY <1>5, <1>6, <1>7

LEMMA LedgerMaintenance ==
  ASSUME KnownInv, ReportInv, MaintenanceStep
  PROVE  LedgerStep
PROOF
  <1>1. ASSUME NEW i \in Items, MarkStaleRunningCheck(i)
        PROVE  LedgerStep
    BY <1>1, ApplySteps DEF MarkStaleRunningCheck, flowvars
  <1>2. ASSUME NEW i \in Items, RestoreRetainedResult(i)
        PROVE  LedgerStep
    <2>1. CASE UNCHANGED <<run, item>>
      BY <1>2, <2>1, IdleStep DEF RestoreRetainedResult
    <2> QED
      BY <1>2, <2>1, LedgerRestore
  <1>3. ASSUME UNCHANGED <<run, item, sends>>
        PROVE  LedgerStep
    BY <1>3, IdleStep
  <1> QED
    BY <1>1, <1>2, <1>3, LedgerSweep
       DEF MaintenanceStep, PurgeBatch, LoseRetainedResult, SweepList, SweepCount, flowvars,
           dbvars

\* The commit of a cancel command gives the items that nobody works on their
\* verdict; a run that was never launched ends without items.
LEMMA LedgerCommit ==
  ASSUME KnownInv, ReportInv, NEW r \in Runs, CancelCommit(r)
  PROVE  LedgerStep
PROOF
  <1> DEFINE cancelled == {i \in ItemsOf(r) : Cancellable(i)}
  <1>1. TypeOK /\ sends' = sends
    BY DEF KnownInv, SettledInv, CancelCommit, flowvars
  <1>2. CASE run[r].status = "planned"
    <2>1. run' = [run EXCEPT ![r].status = "cancelled"] /\ item' = item
      BY <1>2 DEF CancelCommit
    <2>2. run[r] \in RunRow /\ run[r].outcome = NoOutcome
      BY <1>1, <1>2 DEF TypeOK, RunRow, ReportInv, RunTold, TerminalRunStatuses
    <2>3. run'[r].status = "cancelled" /\ run'[r].outcome = NoOutcome /\ Others(r)
      BY <1>1, <2>1, <2>2 DEF TypeOK, RunRow, Others
    <2>4. Drops(r)
      BY <1>1, <1>2, <2>1, <2>3 DEF Drops, ReportedBy, UnlaunchedRunStatuses,
         TerminalRunStatuses
    <2> QED
      BY <2>4 DEF LedgerStep
  <1>3. CASE run[r].status \in {"blocked", "queued", "running"}
    <2>1. /\ run' = [run EXCEPT ![r] = CancelledRun(r, cancelled)]
          /\ item' = [i \in Items |->
                        IF i \in cancelled
                        THEN [item[i] EXCEPT !.status = "cancelled", !.lease = "none"]
                        ELSE item[i]]
      BY <1>3 DEF CancelCommit
    <2>2. PICK S : S = cancelled
      OBVIOUS
    <2>3. /\ S \in SUBSET ItemsOf(r) /\ S \in SUBSET Items
          /\ \A i \in S : item[i].status \in PendingItemStatuses
      BY <2>2 DEF ItemsOf, Cancellable, PendingItemStatuses
    <2>4. /\ \A i \in S : item'[i].status = "cancelled"
          /\ \A i \in Items \ S : item'[i] = item[i]
      <3>1. \A i \in Items : item'[i] =
              IF i \in S THEN [item[i] EXCEPT !.status = "cancelled", !.lease = "none"]
                         ELSE item[i]
        BY <2>1, <2>2
      <3>2. \A i \in Items : item[i] \in ItemRow
        BY <1>1 DEF TypeOK, ItemRow
      <3> QED
        BY <2>3, <3>1, <3>2 DEF ItemRow
    <2>5. PICK statuses, told :
            /\ statuses = [i \in Items |-> IF i \in S THEN "cancelled" ELSE item[i].status]
            /\ told = ItemStatusOf'
      OBVIOUS
    <2>6. statuses = told
      <3>1. \A i \in Items : statuses[i] = told[i]
        BY <2>4, <2>5 DEF ItemStatusOf
      <3> QED
        BY <2>5, <3>1 DEF ItemStatusOf
    <2>7. PICK count \in Nat : count = Cardinality(S)
      BY <2>3, ContractAssumption, FS_Subset, FS_CardinalityType
    <2>8. PICK cancelling : cancelling = [run[r] EXCEPT !.status = "cancelling",
                                                        !.tally["cancelled"] = @ + count]
      OBVIOUS
    <2>9. /\ cancelling.status = "cancelling" /\ cancelling.outcome = run[r].outcome
          /\ cancelling.tally = [run[r].tally EXCEPT !["cancelled"] = @ + count]
      <3>1. run[r] \in RunRow
        BY <1>1 DEF TypeOK, RunRow
      <3> QED
        BY <2>8, <3>1 DEF RunRow
    <2>10. CancelledRun(r, cancelled) = FinalizeRankCheckRun(r, cancelling, statuses, "cancelling")
      BY <2>2, <2>5, <2>7, <2>8 DEF CancelledRun
    <2>11. PICK row, seen : row = FinalizeRankCheckRun(r, cancelling, statuses, seen)
                            /\ seen = "cancelling"
      OBVIOUS
    <2>12. run'[r] = row /\ Others(r)
      <3>1. run' = [run EXCEPT ![r] = row]
        BY <2>1, <2>10, <2>11
      <3> QED
        BY <1>1, <3>1 DEF TypeOK, Others
    <2>13. IF PendingRunItems(r, statuses) = {}
           THEN row = FinalRunData(r, statuses, seen) ELSE row = cancelling
      BY <2>9, <2>11 DEF FinalizeRankCheckRun, ActiveRunStatuses
    <2>14. CASE run[r].status = "blocked"
      <3>1. \A i \in ItemsOf(r) : item[i].status = Absent
        BY <2>14 DEF KnownInv, PaidInv, ItemInv, NothingBeforeLink, RunStatusOf, ItemsOf,
           UnlaunchedRunStatuses
      <3>2. S = {}
        BY <2>3, <3>1 DEF Absent, PendingItemStatuses
      <3>3. PendingRunItems(r, statuses) = {} /\ Verdicts(r, statuses) = {}
        BY <2>5, <3>1, <3>2 DEF PendingRunItems, Verdicts, Absent, PendingItemStatuses, ItemsOf
      <3>4. Told(run'[r], r, statuses)
        BY <2>12, <2>13, <3>3, FinalTells
      <3>5. Report({}) = "deferred"
        BY DEF Report
      <3>6. Drops(r)
        BY <1>1, <2>4, <2>12, <2>14, <3>2, <3>3, <3>4, <3>5
           DEF Drops, Told, UnlaunchedRunStatuses
      <3> QED
        BY <3>6 DEF LedgerStep
    <2>15. CASE run[r].status \in {"queued", "running"}
      <3>1. run[r].status \in ActiveRunStatuses
        BY <2>15 DEF ActiveRunStatuses
      <3>2. ASSUME PendingRunItems(r, statuses) = {}
            PROVE  Tells(r)
        <4>1. run'[r] = FinalRunData(r, statuses, seen)
          BY <2>12, <2>13, <3>2
        <4> QED
          BY <2>5, <2>6, <3>2, <4>1, FinalTellsItems
      <3>3. ASSUME PendingRunItems(r, statuses) # {}
            PROVE  StaysOpen(r)
        <4>1. run'[r] = cancelling
          BY <2>12, <2>13, <3>3
        <4>2. \A i \in S : item'[i].status \in CountedBy("cancelled")
          BY <2>4 DEF CountedBy
        <4>3. PICK counter \in Counters : counter = "cancelled"
          BY DEF Counters
        <4>4. /\ run'[r].status \in ActiveRunStatuses /\ run'[r].outcome = run[r].outcome
              /\ run'[r].tally = [run[r].tally EXCEPT ![counter] = @ + Cardinality(S)]
          BY <2>7, <2>9, <4>1, <4>3 DEF ActiveRunStatuses
        <4> QED
          BY <2>3, <2>4, <3>1, <4>2, <4>3, <4>4, CountedEnough
      <3>4. StaysOpen(r) \/ Tells(r)
        BY <3>2, <3>3
      <3>5. Settles(r, S)
        BY <1>1, <2>3, <2>4, <2>12, <3>1, <3>4
           DEF Settles, SameVerdict, TerminalItemStatuses
      <3> QED
        BY <2>3, <3>5 DEF LedgerStep
    <2> QED
      BY <1>3, <2>14, <2>15
  <1>4. CASE run[r].status \notin {"planned", "blocked", "queued", "running"}
    BY <1>1, <1>4, IdleStep DEF CancelCommit
  <1> QED
    BY <1>2, <1>3, <1>4

LEMMA LedgerCancel ==
  ASSUME KnownInv, ReportInv, NEW r \in Runs, CancelStep(r)
  PROVE  LedgerStep
PROOF
  <1>1. CASE CancelRead(r) \/ CancelCrash(r)
    BY <1>1, IdleStep DEF CancelRead, CancelCrash, dbvars, flowvars
  <1>2. ASSUME NEW i \in Items, CloseRankCheckAsCancelled(r, i)
        PROVE  LedgerStep
    BY <1>2, SettleSteps, IdleStep
       DEF CloseRankCheckAsCancelled, PendingItemStatuses, TerminalItemStatuses, Reasons,
           Counters, CountedBy
  <1> QED
    BY <1>1, <1>2, LedgerCommit DEF CancelStep

LEMMA LedgerSteps == KnownInv /\ ReportInv /\ [Next]_vars => LedgerStep
PROOF
  <1> SUFFICES ASSUME KnownInv, ReportInv, [Next]_vars
               PROVE  LedgerStep
    OBVIOUS
  <1>1. CASE UNCHANGED vars
    BY <1>1, IdleStep DEF vars, dbvars, flowvars
  <1> QED
    BY <1>1, LedgerPlanner, LedgerItem, LedgerAttempt, LedgerBatch, LedgerMaintenance,
       LedgerCancel DEF Next

LEMMA KnownInvariant == Spec => []KnownInv
PROOF
  <1>1. Init => SweepActive
    BY DEF Init, NoSweep, SweepActive
  <1>2. SettledInv /\ SweepActive /\ [Next]_vars => SweepActive'
    BY SweepStaysActive DEF SettledInv
  <1>3. SettledInv /\ PaidInv /\ TargetInv /\ VerdictInv /\ SweepActive => KnownInv
    BY DEF KnownInv
  <1> QED
    BY <1>1, <1>2, <1>3, SettledInvariant, PaidInvariant, TargetInvariant, VerdictInvariant,
       PTL DEF Spec

LEMMA ReportInit == Init => ReportInv
PROOF
  <1> SUFFICES ASSUME Init
               PROVE  ReportInv
    OBVIOUS
  <1>1. SweepExact
    BY DEF Init, NoSweep, SweepExact
  <1>2. ASSUME NEW r \in Runs
        PROVE  RunTold(r) /\ AtLeast(r)
    <2>1. /\ run[r].status \notin TerminalRunStatuses /\ run[r].outcome = NoOutcome
          /\ \A c \in Counters : run[r].tally[c] = 0
      BY DEF Init, TerminalRunStatuses, NoTally
    <2>2. \A i \in ItemsOf(r) : ItemStatusOf[i] \in {Absent} \cup PendingItemStatuses
      BY DEF Init, ItemStatusOf, ItemsOf, PendingItemStatuses
    <2>3. PICK s : s = ItemStatusOf
      OBVIOUS
    <2>4. \A c \in Counters : RunCountsFromItemGroups(r, s)[c] = 0
      BY <2>2, <2>3, NothingCounted
    <2>5. \A c \in Counters : Counts(r)[c] = 0
      BY <2>3, <2>4 DEF Counts
    <2> QED
      BY <2>1, <2>5 DEF RunTold, AtLeast
  <1> QED
    BY <1>1, <1>2 DEF ReportInv

LEMMA ReportStep ==
  KnownInv /\ KnownInv' /\ ReportInv /\ [Next]_vars => ReportInv'
PROOF
  <1> SUFFICES ASSUME KnownInv, KnownInv', ReportInv, [Next]_vars
               PROVE  ReportInv'
    OBVIOUS
  <1>1. LedgerStep
    BY LedgerSteps
  <1>2. TypeOK' /\ TypeOK
    BY DEF KnownInv, SettledInv
  <1>3. \A r \in Runs : RunTold(r)' /\ AtLeast(r)'
    BY <1>1, <1>2, ToldSteps
  <1>4. CASE sweep' = sweep
    BY <1>1, <1>3, <1>4, SweepExactSteps DEF ReportInv
  <1>5. CASE sweep' # sweep
    <2>1. (\E r \in Runs : SweepList(r)) \/ SweepCount \/ SweepWrite
      <3>1. CASE PlannerStep
        BY <1>5, <3>1 DEF PlannerStep, LaunchPlannedRun, BlockPlannedRun, ExpireBlockedRun,
           SkipPlannedRun, SetRun, PauseKeyword
      <3>2. CASE MaintenanceStep
        BY <1>5, <3>2 DEF MaintenanceStep, MarkStaleRunningCheck, PurgeBatch,
           RestoreRetainedResult, LoseRetainedResult
      <3>3. ASSUME NEW i \in Items,
                   \/ WorkflowStep(i) \/ DispatcherStep(i) \/ BatchStep(i)
                   \/ \E n \in Tries : AttemptStep(i, n)
            PROVE  sweep' = sweep
        BY <1>2, <3>3, QuietWorkflow, QuietDispatcher, QuietBatch, QuietAttempt
      <3>4. ASSUME NEW r \in Runs, CancelStep(r)
            PROVE  sweep' = sweep
        BY <1>2, <3>4, QuietCancel
      <3> QED
        BY <1>5, <3>1, <3>2, <3>3, <3>4 DEF Next, vars
    <2>2. ASSUME NEW r \in Runs, SweepList(r)
          PROVE  SweepExact'
      BY <2>2 DEF SweepList, SweepExact
    <2>3. ASSUME SweepCount
          PROVE  SweepExact'
      BY <1>2, <2>3 DEF SweepCount, SweepExact, TypeOK, ItemsOf, dbvars
    <2>4. ASSUME SweepWrite
          PROVE  SweepExact'
      BY <2>4 DEF SweepWrite, SweepExact, NoSweep
    <2> QED
      BY <1>3, <2>1, <2>2, <2>3, <2>4 DEF ReportInv
  <1> QED
    BY <1>4, <1>5

LEMMA ReportInvariant == Spec => []ReportInv
PROOF
  BY ReportInit, ReportStep, KnownInvariant, PTL DEF Spec

\* A finished run reports what the verdicts of its targets call for, in any
\* number of runs: settlements, cancel commands and a reconciler that counted
\* earlier write it over settled targets only, and a restored result writes it
\* again (finalize.ts, reconcile.ts, recovery-run-item.ts).  Where the guide
\* and the code differ about cancelled targets the report may be either's.
THEOREM ReportsAreExplained == Spec => []OutcomesExplained
PROOF
  <1>1. ReportInv => OutcomesExplained
    BY DEF ReportInv, RunTold, Told, OutcomesExplained, AcceptedReports
  <1> QED
    BY <1>1, ReportInvariant, PTL

\* The counters of a run never fall behind the verdicts of its targets, and
\* those of a finished run are exact, whoever writes them and however old the
\* counts are (items.ts, finalize.ts, reconcile.ts, recovery-run-item.ts).
THEOREM CountersAreKept == Spec => []CountersMatchItems
PROOF
  <1>1. ReportInv => CountersMatchItems
    <2> SUFFICES ASSUME ReportInv, NEW r \in Runs, TotalCount(r, ItemStatusOf) > 0
                 PROVE  /\ \A c \in Counters \ {"skipped"} :
                             run[r].tally[c] >= RunCountsFromItemGroups(r, ItemStatusOf)[c]
                        /\ run[r].status \in TerminalRunStatuses =>
                             run[r].tally = RunCountsFromItemGroups(r, ItemStatusOf)
      BY DEF CountersMatchItems
    <2>1. RunTold(r) /\ AtLeast(r)
      BY DEF ReportInv
    <2>2. PICK s : s = ItemStatusOf
      OBVIOUS
    <2>3. Verdicts(r, s) # {}
      <3>1. Materialised(r, s) # {}
        BY <2>2, TotalCounts
      <3> QED
        BY <3>1 DEF Materialised, Verdicts
    <2> QED
      BY <2>1, <2>2, <2>3 DEF RunTold, Told, AtLeast, Counts
  <1> QED
    BY <1>1, ReportInvariant, PTL

-----------------------------------------------------------------------------
(***************************************************************************)
(* RankCheckRuns implements RunLedger under the mapping of                 *)
(* RankCheckRunsLedger: its initial states map to initial states, and each *)
(* of its transactions maps to a step of the ledger or leaves the ledger   *)
(* as it is. The invariants above say which of the two it is.              *)
(***************************************************************************)

MappedPhase == [r \in Runs |-> Phase(run[r].status)]
MappedReport == [r \in Runs |-> ReportedBy(run[r])]
MappedVerdict == [i \in Items |-> IF item[i].status \in PendingItemStatuses
                                  THEN "open" ELSE item[i].status]
MappedPaid == [i \in Items |-> sends[i] > 0]

\* Before anything happened the ledger is empty.
LEMMA LedgerInit == Init => Ledger!Init
PROOF
  <1> SUFFICES ASSUME Init
               PROVE  Ledger!Init
    OBVIOUS
  <1>1. \A r \in Runs : /\ run[r].outcome = NoOutcome /\ run[r].status # "cancelled"
                        /\ Phase(run[r].status) =
                             IF r \in PlannedRuns THEN "planned" ELSE "open"
    BY DEF Init, Phase, ActiveRunStatuses, TerminalRunStatuses
  <1>2. MappedPhase \in [Runs -> {"planned", "open"}]
    BY <1>1 DEF MappedPhase
  <1>3. MappedReport = [r \in Runs |-> NoOutcome]
    BY <1>1 DEF MappedReport, ReportedBy
  <1>4. MappedVerdict = [i \in Items |-> IF MappedPhase[RunOf[i]] = "planned"
                                         THEN Absent ELSE "open"]
    BY <1>1, ContractAssumption DEF Init, MappedVerdict, MappedPhase, PendingItemStatuses,
       Absent
  <1>5. MappedPaid = [i \in Items |-> FALSE]
    <2>1. \A i \in Items : (sends[i] > 0) = FALSE
      BY DEF Init
    <2> QED
      BY <2>1, Zenon DEF MappedPaid
  <1> QED
    BY <1>2, <1>3, <1>4, <1>5
       DEF Ledger!Init, MappedPhase, MappedReport, MappedVerdict, MappedPaid,
           Ledger!NoOutcome, NoOutcome, Ledger!Absent, Absent

LEMMA MappedRow ==
  ASSUME TypeOK, TypeOK', NEW r \in Runs
  PROVE  /\ run[r].status \in UnlaunchedRunStatuses <=> Phase(run[r].status) = "planned"
         /\ run[r].status \in ActiveRunStatuses <=> Phase(run[r].status) = "open"
         /\ run[r].status \in TerminalRunStatuses <=> Phase(run[r].status) = "closed"
         /\ run'[r].status \in UnlaunchedRunStatuses <=> Phase(run'[r].status) = "planned"
         /\ run'[r].status \in ActiveRunStatuses <=> Phase(run'[r].status) = "open"
         /\ run'[r].status \in TerminalRunStatuses <=> Phase(run'[r].status) = "closed"
PROOF
  <1>1. \A status \in RunStatuses :
          /\ status \in UnlaunchedRunStatuses <=> Phase(status) = "planned"
          /\ status \in ActiveRunStatuses <=> Phase(status) = "open"
          /\ status \in TerminalRunStatuses <=> Phase(status) = "closed"
    BY DEF Phase, RunStatuses, UnlaunchedRunStatuses, ActiveRunStatuses, TerminalRunStatuses
  <1> QED
    BY <1>1 DEF TypeOK

\* The ledger keeps what a step leaves alone.
LEMMA MappedOthers ==
  ASSUME NEW r \in Runs, Others(r)
  PROVE  \A q \in Runs \ {r} : /\ MappedPhase'[q] = MappedPhase[q]
                               /\ MappedReport'[q] = MappedReport[q]
PROOF
  BY DEF Others, MappedPhase, MappedReport

LEMMA MappedSame ==
  ASSUME TypeOK, TypeOK', NEW i \in Items, SameVerdict(i)
  PROVE  MappedVerdict'[i] = MappedVerdict[i]
PROOF
  BY DEF SameVerdict, MappedVerdict

LEMMA LedgerIdle ==
  ASSUME TypeOK, TypeOK', Idle
  PROVE  UNCHANGED Ledger!ledger
PROOF
  <1>1. \A r \in Runs : /\ Phase(run'[r].status) = Phase(run[r].status)
                        /\ ReportedBy(run'[r]) = ReportedBy(run[r])
    <2> SUFFICES ASSUME NEW r \in Runs
                 PROVE  /\ Phase(run'[r].status) = Phase(run[r].status)
                        /\ ReportedBy(run'[r]) = ReportedBy(run[r])
      OBVIOUS
    <2>1. CASE run'[r] = run[r]
      BY <2>1
    <2>2. CASE run'[r] # run[r]
      <3>1. /\ run[r].status \notin TerminalRunStatuses
            /\ Phase(run'[r].status) = Phase(run[r].status)
            /\ run'[r].outcome = run[r].outcome
        BY <2>2 DEF Idle, RowIdle
      <3>2. run'[r].status \notin TerminalRunStatuses
        BY <3>1, MappedRow
      <3> QED
        BY <3>1, <3>2 DEF ReportedBy, TerminalRunStatuses
    <2> QED
      BY <2>1, <2>2
  <1>2. \A i \in Items : SameVerdict(i)
    BY DEF Idle
  <1>3. MappedVerdict' = MappedVerdict
    BY <1>2 DEF MappedVerdict, SameVerdict
  <1>4. MappedPhase' = MappedPhase /\ MappedReport' = MappedReport
    BY <1>1 DEF MappedPhase, MappedReport
  <1>5. MappedPaid' = MappedPaid
    BY DEF MappedPaid, Idle
  <1> QED
    BY <1>3, <1>4, <1>5
       DEF Ledger!ledger, MappedPhase, MappedReport, MappedVerdict, MappedPaid

LEMMA LedgerDrop ==
  ASSUME TypeOK, TypeOK', NEW r \in Runs, Drops(r)
  PROVE  Ledger!Next
PROOF
  <1>1. MappedPhase[r] = "planned" /\ MappedPhase'[r] = "closed"
    BY MappedRow DEF Drops, MappedPhase
  <1>2. PICK why \in {"deferred", "cancelled"} : MappedReport'[r] = why
    BY DEF Drops, MappedReport
  <1>3. Others(r) /\ sends' = sends /\ \A i \in Items : item'[i].status = item[i].status
    BY DEF Drops
  <1>4. MappedPhase' = [MappedPhase EXCEPT ![r] = "closed"]
    BY <1>1, <1>3, MappedOthers DEF MappedPhase
  <1>5. MappedReport' = [MappedReport EXCEPT ![r] = why]
    BY <1>2, <1>3, MappedOthers DEF MappedReport
  <1>6. MappedVerdict' = MappedVerdict /\ MappedPaid' = MappedPaid
    BY <1>3 DEF MappedVerdict, MappedPaid
  <1>7. Ledger!Drop(r)
    BY <1>1, <1>4, <1>5, <1>6
       DEF Ledger!Drop, MappedPhase, MappedReport, MappedVerdict, MappedPaid
  <1> QED
    BY <1>7 DEF Ledger!Next

LEMMA LedgerOpen ==
  ASSUME TypeOK, TypeOK', NEW r \in Runs, NEW S \in SUBSET Items, Opens(r, S)
  PROVE  Ledger!Next
PROOF
  <1>1. MappedPhase[r] = "planned" /\ MappedPhase'[r] = "open"
    BY MappedRow DEF Opens, MappedPhase, ActiveRunStatuses
  <1>2. MappedReport'[r] = MappedReport[r]
    BY DEF Opens, MappedReport, ReportedBy, UnlaunchedRunStatuses
  <1>3. /\ Others(r) /\ sends' = sends
        /\ S # {} /\ S \in SUBSET ItemsOf(r)
    BY DEF Opens
  <1>4. MappedPhase' = [MappedPhase EXCEPT ![r] = "open"]
    BY <1>1, <1>3, MappedOthers DEF MappedPhase
  <1>5. MappedReport' = MappedReport /\ MappedPaid' = MappedPaid
    BY <1>2, <1>3, MappedOthers DEF MappedReport, MappedPaid
  <1>6. MappedVerdict' = [i \in Items |-> IF i \in S THEN "open" ELSE MappedVerdict[i]]
    BY DEF Opens, MappedVerdict, PendingItemStatuses
  <1>7. S \in (SUBSET ItemsOf(r)) \ {{}}
    BY <1>3
  <1>8. Ledger!ItemsOf(r) = ItemsOf(r)
    BY DEF Ledger!ItemsOf, ItemsOf
  <1>9. Ledger!Open(r)
    BY <1>1, <1>4, <1>5, <1>6, <1>7, <1>8
       DEF Ledger!Open, MappedPhase, MappedReport, MappedVerdict, MappedPaid
  <1> QED
    BY <1>9 DEF Ledger!Next

\* A run that tells its report is closed with it.
LEMMA LedgerClose ==
  ASSUME TypeOK, TypeOK', NEW r \in Runs, Others(r), Tells(r)
  PROVE  Ledger!Close(r)
PROOF
  <1>1. MappedPhase'[r] = "closed"
    BY MappedRow DEF Tells, Told, MappedPhase
  <1>2. MappedPhase' = [MappedPhase EXCEPT ![r] = "closed"]
    BY <1>1, MappedOthers DEF MappedPhase
  <1>3. PICK told, given : told = ItemStatusOf' /\ given = MappedVerdict'
    OBVIOUS
  <1>4. ReportedBy(run'[r]) = Report(Verdicts(r, told)) /\ PendingRunItems(r, told) = {}
    BY <1>3 DEF Tells, Told
  <1>5. \A i \in ItemsOf(r) : given[i] = told[i] /\ told[i] # "open"
    <2> SUFFICES ASSUME NEW i \in ItemsOf(r)
                 PROVE  given[i] = told[i] /\ told[i] # "open"
      OBVIOUS
    <2>1. i \in Items /\ told[i] = item'[i].status /\ item'[i].status \notin PendingItemStatuses
      BY <1>3, <1>4 DEF PendingRunItems, ItemsOf, ItemStatusOf
    <2>2. item'[i].status # "open"
      BY <2>1 DEF TypeOK, ItemStatuses, PendingItemStatuses, TerminalItemStatuses, Absent
    <2> QED
      BY <1>3, <2>1, <2>2 DEF MappedVerdict
  <1>6. Verdicts(r, given) = Verdicts(r, told)
    BY <1>5, SameStatuses
  <1>7. MappedReport' = [MappedReport EXCEPT ![r] = Report(Verdicts(r, given))]
    BY <1>4, <1>6, MappedOthers DEF MappedReport
  <1>8. Report(Verdicts(r, given)) \in Ledger!AcceptedReports(Ledger!Verdicts(r, given))
    <2>1. Ledger!Report(Ledger!Verdicts(r, given)) = Report(Verdicts(r, given))
      BY DEF Ledger!Report, Report, Ledger!Verdicts, Verdicts, Ledger!ItemsOf, ItemsOf,
         Ledger!Absent, Absent
    <2> QED
      BY <2>1 DEF Ledger!AcceptedReports
  <1> QED
    BY <1>2, <1>3, <1>5, <1>7, <1>8
       DEF Ledger!Close, Ledger!ItemsOf, ItemsOf, MappedPhase, MappedReport, MappedVerdict

LEMMA LedgerStays ==
  ASSUME TypeOK, TypeOK', NEW r \in Runs, Others(r), StaysOpen(r)
  PROVE  Ledger!StayOpen(r) /\ MappedPhase[r] = "open"
PROOF
  <1>1. MappedPhase[r] = "open" /\ MappedPhase'[r] = "open"
    BY MappedRow DEF StaysOpen, MappedPhase
  <1>2. MappedReport'[r] = MappedReport[r]
    BY DEF StaysOpen, MappedReport, ReportedBy, ActiveRunStatuses
  <1>3. MappedPhase' = MappedPhase /\ MappedReport' = MappedReport
    BY <1>1, <1>2, MappedOthers DEF MappedPhase, MappedReport
  <1> QED
    BY <1>1, <1>3 DEF Ledger!StayOpen, MappedPhase, MappedReport

LEMMA LedgerDecide ==
  ASSUME TypeOK, TypeOK', NEW r \in Runs, NEW S \in SUBSET Items, Settles(r, S)
  PROVE  Ledger!Next
PROOF
  <1>1. /\ Others(r) /\ sends' = sends
        /\ \A i \in S : /\ item[i].status \in PendingItemStatuses /\ i \in ItemsOf(r)
                        /\ item'[i].status \in TerminalItemStatuses
        /\ \A i \in Items \ S : SameVerdict(i)
    BY DEF Settles
  <1>2. MappedPhase[r] = "open"
    BY MappedRow DEF Settles, MappedPhase
  <1>3. PICK given : given = [i \in S |-> item'[i].status]
    OBVIOUS
  <1>4. given \in [S -> TerminalItemStatuses]
    BY <1>1, <1>3
  <1>5. MappedVerdict' = [i \in Items |-> IF i \in S THEN given[i] ELSE MappedVerdict[i]]
    <2>1. \A i \in Items : MappedVerdict'[i] = IF i \in S THEN given[i] ELSE MappedVerdict[i]
      <3>1. \A i \in S : MappedVerdict'[i] = given[i]
        BY <1>1, <1>3 DEF MappedVerdict, TerminalItemStatuses, PendingItemStatuses
      <3>2. \A i \in Items \ S : MappedVerdict'[i] = MappedVerdict[i]
        BY <1>1, MappedSame
      <3> QED
        BY <3>1, <3>2
    <2> QED
      BY <2>1 DEF MappedVerdict
  <1>6. MappedPaid' = MappedPaid
    BY <1>1 DEF MappedPaid
  <1>7. /\ S \in SUBSET ItemsOf(r)
        /\ \A i \in S : MappedVerdict[i] = "open"
    BY <1>1 DEF MappedVerdict
  <1>8. Ledger!Decide(r, S)
    BY <1>2, <1>4, <1>5, <1>6, <1>7
       DEF Ledger!Decide, Ledger!OpenTargets, Ledger!ItemsOf, ItemsOf,
           Ledger!TerminalItemStatuses, TerminalItemStatuses,
           MappedPhase, MappedVerdict, MappedPaid
  <1>9. Ledger!StayOpen(r) \/ Ledger!Close(r)
    BY <1>1, LedgerStays, LedgerClose DEF Settles
  <1> QED
    BY <1>7, <1>8, <1>9 DEF Ledger!Next, Ledger!ItemsOf, ItemsOf

LEMMA LedgerCorrect ==
  ASSUME TypeOK, TypeOK', NEW i \in Items, Restores(i)
  PROVE  Ledger!Next
PROOF
  <1>1. PICK r \in Runs : r = RunOf[i]
    BY ContractAssumption
  <1>2. /\ run[r].status \notin UnlaunchedRunStatuses
        /\ item[i].status \in {"failed", "deferred", "blocked"}
        /\ item'[i].status = "completed" /\ sends[i] = 1
        /\ \A j \in Items \ {i} : item'[j].status = item[j].status
        /\ Others(r) /\ sends' = sends
        /\ StaysOpen(r) \/ Tells(r)
    BY <1>1 DEF Restores
  <1>3. MappedPhase[r] # "planned"
    BY <1>2, MappedRow DEF MappedPhase
  <1>4. MappedPaid[i] /\ MappedPaid' = MappedPaid
    <2>1. sends[i] > 0 /\ sends' = sends
      BY <1>2
    <2> QED
      BY <2>1, Zenon DEF MappedPaid
  <1>5. MappedVerdict[i] \in {"failed", "deferred", "blocked"}
    BY <1>2 DEF MappedVerdict, PendingItemStatuses
  <1>6. MappedVerdict' = [MappedVerdict EXCEPT ![i] = "completed"]
    BY <1>2 DEF MappedVerdict, PendingItemStatuses
  <1>7. Ledger!Correct(r, i)
    BY <1>1, <1>3, <1>4, <1>5, <1>6
       DEF Ledger!Correct, MappedPhase, MappedVerdict, MappedPaid
  <1>8. Ledger!Close(r) \/ (MappedPhase[r] = "open" /\ Ledger!StayOpen(r))
    BY <1>2, LedgerStays, LedgerClose
  <1> QED
    BY <1>7, <1>8 DEF Ledger!Next, MappedPhase

LEMMA LedgerPay ==
  ASSUME TypeOK, TypeOK', NEW i \in Items, Pays(i)
  PROVE  Ledger!Next
PROOF
  <1>1. /\ UNCHANGED <<run, item>>
        /\ item[i].status # Absent /\ sends[i] = 0
        /\ sends' = [sends EXCEPT ![i] = 1]
    BY DEF Pays, TypeOK
  <1>2. MappedPhase' = MappedPhase /\ MappedReport' = MappedReport
        /\ MappedVerdict' = MappedVerdict
    BY <1>1 DEF MappedPhase, MappedReport, MappedVerdict
  <1>3. MappedVerdict[i] # Absent
    BY <1>1 DEF MappedVerdict, Absent
  <1>4. ~MappedPaid[i]
    <2>1. ~(sends[i] > 0)
      BY <1>1
    <2> QED
      BY <2>1, Zenon DEF MappedPaid
  <1>5. MappedPaid' = [MappedPaid EXCEPT ![i] = TRUE]
    <2>1. sends'[i] > 0 /\ \A j \in Items \ {i} : sends'[j] = sends[j]
      BY <1>1 DEF TypeOK
    <2>2. MappedPaid'[i] = TRUE /\ \A j \in Items \ {i} : MappedPaid'[j] = MappedPaid[j]
      BY <2>1, Zenon DEF MappedPaid
    <2> QED
      BY <2>2, Zenon DEF MappedPaid
  <1>6. Ledger!Pay(i)
    BY <1>2, <1>3, <1>4, <1>5
       DEF Ledger!Pay, Ledger!Absent, Absent, MappedPhase, MappedReport, MappedVerdict,
           MappedPaid
  <1> QED
    BY <1>6 DEF Ledger!Next

\* The runs keep the ledger's promises, for any number of runs, targets,
\* keywords, tries and cancel commands: every transaction is a step of RunLedger
\* or changes nothing of what the ledger shows.
THEOREM RunsKeepTheLedger == Spec => LedgerSpec
PROOF
  <1>1. KnownInv /\ KnownInv' /\ ReportInv /\ [Next]_vars => [Ledger!Next]_(Ledger!ledger)
    <2> SUFFICES ASSUME KnownInv, KnownInv', ReportInv, [Next]_vars
                 PROVE  [Ledger!Next]_(Ledger!ledger)
      OBVIOUS
    <2>1. TypeOK /\ TypeOK'
      BY DEF KnownInv, SettledInv
    <2>2. LedgerStep
      BY LedgerSteps
    <2> QED
      BY <2>1, <2>2, LedgerIdle, LedgerDrop, LedgerOpen, LedgerDecide, LedgerCorrect, LedgerPay
         DEF LedgerStep
  <1>2. Init => Ledger!Init
    BY LedgerInit
  <1> QED
    BY <1>1, <1>2, KnownInvariant, ReportInvariant, PTL DEF Spec, LedgerSpec, Ledger!Spec

=============================================================================

-------------------------- MODULE QueuedBatchProofs --------------------------
(***************************************************************************)
(* Proofs about QueuedBatch: the types of its rows, and that a batch keeps *)
(* the promises of BatchPromise whatever its attempts do, for any number   *)
(* of tasks and attempts.                                                  *)
(***************************************************************************)
EXTENDS QueuedBatch, TLAPS

-----------------------------------------------------------------------------
(* Types.                                                                   *)

\* What the rows of one task become is a row again.
LEMMA MoveKeepsRows ==
  ASSUME BatchTypeOK, NEW from, NEW state \in ActiveTaskStates \cup TerminalStates,
         NEW error \in BOOLEAN, Move(from, state, error)
  PROVE  task' \in [Tasks -> TaskRow]
<1>1. \A t \in Tasks : [task[t] EXCEPT !.state = state, !.error = error] \in TaskRow
  BY DEF BatchTypeOK, TaskRow
<1> QED  BY <1>1 DEF Move, BatchTypeOK

LEMMA ReleaseKeepsRows ==
  ASSUME NEW row \in TaskRow, NEW state \in ActiveTaskStates \cup TerminalStates
  PROVE  Release(row, state) \in TaskRow
BY DEF Release, TaskRow

\* The state a batch ends in is a terminal one.
LEMMA FinalizedType ==
  ASSUME BatchTypeOK, NEW taskRows
  PROVE  Finalized(taskRows) \in ActiveBatchStates \cup TerminalStates
BY DEF BatchTypeOK, Finalized, TerminalBatchState, TerminalStates

LEMMA VerdictType ==
  ASSUME BatchTypeOK, NEW t \in Tasks, NEW charged
  PROVE  VerdictAtDeadline(t, charged) \in TerminalStates
BY DEF BatchTypeOK, VerdictAtDeadline, TerminalStates

LEMMA ReconcileKeepsRows ==
  ASSUME BatchTypeOK, NEW charged, ReconcileTasks(charged)
  PROVE  /\ task' \in [Tasks -> TaskRow]
         /\ check' \in [Tasks -> {"running"} \cup TerminalStates]
<1>1. \A t \in Tasks : task[t] \in TaskRow /\ check[t] \in {"running"} \cup TerminalStates
  BY DEF BatchTypeOK
<1>2. \A t \in Tasks : VerdictAtDeadline(t, charged) \in TerminalStates
  BY VerdictType
<1>3. \A t \in Tasks : Release(task[t], VerdictAtDeadline(t, charged)) \in TaskRow
  BY <1>1, <1>2, ReleaseKeepsRows
<1> QED  BY <1>1, <1>2, <1>3 DEF ReconcileTasks

LEMMA DeferKeepsRows ==
  ASSUME BatchTypeOK, DeferBatch
  PROVE  /\ task' \in [Tasks -> TaskRow]
         /\ check' \in [Tasks -> {"running"} \cup TerminalStates]
         /\ batch' \in ActiveBatchStates \cup TerminalStates
BY ReconcileKeepsRows, FinalizedType DEF DeferBatch

LEMMA MarkKeepsRows ==
  ASSUME BatchTypeOK, MarkAmbiguous \/ MarkDefiniteFailure
  PROVE  /\ task' \in [Tasks -> TaskRow]
         /\ check' \in [Tasks -> {"running"} \cup TerminalStates]
         /\ batch' \in ActiveBatchStates \cup TerminalStates
<1>1. task' \in [Tasks -> TaskRow]
  BY MoveKeepsRows DEF MarkAmbiguous, MarkDefiniteFailure, ActiveTaskStates
<1>2. check' = check /\ batch' \in ActiveBatchStates \cup TerminalStates
  BY DEF BatchTypeOK, MarkAmbiguous, MarkDefiniteFailure, ActiveBatchStates
<1> QED  BY <1>1, <1>2 DEF BatchTypeOK

\* An attempt that returns touches nothing else.
LEMMA ReturnKeepsTypes ==
  ASSUME BatchTypeOK, NEW s \in Submitters, Returns(s),
         task' \in [Tasks -> TaskRow],
         check' \in [Tasks -> {"running"} \cup TerminalStates],
         batch' \in ActiveBatchStates \cup TerminalStates
  PROVE  BatchTypeOK'
<1>1. submitter' \in [Submitters -> SubmitterPhases] /\ flow' \in {"submit", "poll", "ended"}
  BY DEF BatchTypeOK, Returns, Step, ToPoll, SubmitterPhases
<1>2. reply' \in [Tasks -> Answers \cup {"none"}]
  BY DEF BatchTypeOK, Returns, NoReply
<1> QED  BY <1>1, <1>2 DEF BatchTypeOK, Returns, TaskRow, Looks, Works, Sweeps

LEMMA SubmitKeepsTypes ==
  ASSUME BatchTypeOK, NEW s \in Submitters, SubmitStep(s)
  PROVE  BatchTypeOK'
<1> USE DEF BatchTypeOK, SubmitterPhases
<1>1. CASE SubmitClaims(s)
  <2>1. task' \in [Tasks -> TaskRow]
    BY <1>1, MoveKeepsRows DEF SubmitClaims, ActiveTaskStates
  <2> QED  BY <1>1, <2>1 DEF SubmitClaims, Step, calls, world, ActiveBatchStates
<1>2. CASE SubmitResumes(s)
  BY <1>2, DeferKeepsRows, MarkKeepsRows, ReturnKeepsTypes DEF SubmitResumes, rows
<1>3. CASE SubmitDisabled(s)
  BY <1>3, DeferKeepsRows, ReturnKeepsTypes DEF SubmitDisabled, rows
<1>4. CASE SubmitIsRefused(s)
  BY <1>4 DEF SubmitIsRefused, Step, rows, calls, world
<1>5. CASE SubmitDefers(s)
  BY <1>5, DeferKeepsRows, ReturnKeepsTypes DEF SubmitDefers
<1>6. CASE SubmitFailsUnsent(s)
  BY <1>6, MarkKeepsRows, ReturnKeepsTypes DEF SubmitFailsUnsent
<1>7. CASE SubmitFences(s)
  BY <1>7 DEF SubmitFences, Step, rows, calls, world
<1>8. CASE SubmitPosts(s)
  BY <1>8 DEF SubmitPosts, Step, rows, world
<1>9. CASE SubmitIsAmbiguous(s)
  BY <1>9, MarkKeepsRows, ReturnKeepsTypes DEF SubmitIsAmbiguous
<1>10. CASE SubmitPersists(s)
  <2>1. \A t \in Tasks : StateAfter(reply[t]) \in ActiveTaskStates
    BY DEF StateAfter, ActiveTaskStates
  <2>2. \A row \in TaskRow, state \in ActiveTaskStates, e, c \in BOOLEAN :
           [row EXCEPT !.state = state, !.error = e, !.charge = c] \in TaskRow
    BY DEF TaskRow
  <2>5. ASSUME NEW t \in Tasks
        PROVE  [task[t] EXCEPT !.state = StateAfter(reply[t]),
                               !.error = reply[t] # "accepted",
                               !.charge = reply[t] \in {"accepted", "charged"}] \in TaskRow
    <3>1. task[t] \in TaskRow
      OBVIOUS
    <3>2. (reply[t] # "accepted") \in BOOLEAN /\ (reply[t] \in {"accepted", "charged"}) \in BOOLEAN
      OBVIOUS
    <3> QED  BY <2>1, <2>2, <3>1, <3>2, Zenon
  <2>3. task' \in [Tasks -> TaskRow]
    BY <1>10, <2>5, Zenon DEF SubmitPersists
  <2>4. check' = check /\ batch' \in ActiveBatchStates \cup TerminalStates
    BY <1>10 DEF SubmitPersists, ActiveBatchStates
  <2> QED  BY <1>10, <2>3, <2>4, ReturnKeepsTypes DEF SubmitPersists
<1> QED
  BY <1>1, <1>2, <1>3, <1>4, <1>5, <1>6, <1>7, <1>8, <1>9, <1>10 DEF SubmitStep

LEMMA InspectKeepsTypes ==
  ASSUME BatchTypeOK, NEW n \in Inspectors, InspectStep(n)
  PROVE  BatchTypeOK'
<1> USE DEF BatchTypeOK
<1>1. ASSUME inspector[n].phase = "read", NEW look,
             look = [inspector[n] EXCEPT !.phase = "polled"]
      PROVE  look \in Looks
  BY <1>1 DEF Looks, NoLook
<1>2. CASE InspectReads(n)
  BY <1>2 DEF InspectReads, Look, Looks, rows, calls, world
<1>3. CASE InspectMarksReady(n)
  <2>1. \A row \in TaskRow : [row EXCEPT !.state = "ready", !.error = FALSE] \in TaskRow
    <3> HIDE DEF BatchTypeOK
    <3> QED  BY DEF TaskRow, ActiveTaskStates
  <2>2. task \in [Tasks -> TaskRow]
    OBVIOUS
  <2>3. task' \in [Tasks -> TaskRow]
    <3> HIDE DEF BatchTypeOK
    <3> QED  BY <1>3, <2>1, <2>2 DEF InspectMarksReady
  <2>4. inspector' \in [Inspectors -> Looks]
    BY <1>3, <1>1 DEF InspectMarksReady, Look
  <2> QED  BY <1>3, <2>3, <2>4 DEF InspectMarksReady, calls, world
<1>4. CASE InspectFailsTasks(n)
  <2>1. task' \in [Tasks -> TaskRow]
    BY <1>4, MoveKeepsRows DEF InspectFailsTasks, ActiveTaskStates
  <2>2. inspector' \in [Inspectors -> Looks]
    BY <1>4, <1>1 DEF InspectFailsTasks, Look
  <2> QED  BY <1>4, <2>1, <2>2 DEF InspectFailsTasks, calls, world, ActiveBatchStates
<1>5. CASE InspectWrites(n)
  <2>1. inspector[n].saw \in ActiveBatchStates
    BY <1>5 DEF InspectWrites, Looks, NoLook
  <2>2. batch' \in ActiveBatchStates \cup TerminalStates
    BY <1>5, <2>1, FinalizedType DEF InspectWrites, InspectedState, ActiveBatchStates
  <2> QED  BY <1>5, <2>2 DEF InspectWrites, Look, Looks, calls, world
<1> QED  BY <1>2, <1>3, <1>4, <1>5 DEF InspectStep

LEMMA FollowKeepsTypes ==
  ASSUME BatchTypeOK, NEW p, NEW t \in Tasks, FollowCheck(p, t)
  PROVE  /\ task' \in [Tasks -> TaskRow]
         /\ check' \in [Tasks -> {"running"} \cup TerminalStates]
<1>1. task[t] \in TaskRow /\ check[t] \in {"running"} \cup TerminalStates
  BY DEF BatchTypeOK
<1>2. check[t] # "running" => Release(task[t], check[t]) \in TaskRow
  BY <1>1, ReleaseKeepsRows
<1> QED  BY <1>1, <1>2 DEF FollowCheck, BatchTypeOK

LEMMA StoreKeepsTypes ==
  ASSUME BatchTypeOK, NEW p, NEW t \in Tasks, NEW verdict \in TerminalStates,
         StoreVerdict(p, t, verdict)
  PROVE  /\ task' \in [Tasks -> TaskRow]
         /\ check' \in [Tasks -> {"running"} \cup TerminalStates]
<1>1. Release(task[t], verdict) \in TaskRow
  BY ReleaseKeepsRows DEF BatchTypeOK
<1> QED  BY <1>1, FollowKeepsTypes DEF StoreVerdict, BatchTypeOK

\* What a persister that holds a task remembers of it.
LEMMA ClaimedWork ==
  ASSUME BatchTypeOK, NEW p \in Persisters, persister[p].phase = "claimed"
  PROVE  persister[p].task \in Tasks /\ persister[p].error \in BOOLEAN
BY DEF BatchTypeOK, Works, NoWork

LEMMA PersistKeepsTypes ==
  ASSUME BatchTypeOK, NEW p \in Persisters, PersistStep(p)
  PROVE  BatchTypeOK'
<1> USE DEF BatchTypeOK
<1>1. [phase |-> "closing"] \in Works /\ NoWork \in Works
  BY DEF Works
<1>2. ASSUME Persisted(p), task' \in [Tasks -> TaskRow],
             check' \in [Tasks -> {"running"} \cup TerminalStates]
      PROVE  BatchTypeOK'
  BY <1>1, <1>2 DEF Persisted, Work, calls, world
<1>3. ASSUME NEW t \in Tasks, PersisterClaims(p, t)  PROVE BatchTypeOK'
  <2>1. task[t] \in TaskRow
    OBVIOUS
  <2>2. [task[t] EXCEPT !.state = "persisting", !.owner = p, !.live = TRUE] \in TaskRow
    BY <2>1 DEF TaskRow, ActiveTaskStates
  <2>3. task' \in [Tasks -> TaskRow]
    BY <1>3, <2>2 DEF PersisterClaims
  <2>4. \A e, c \in BOOLEAN : [phase |-> "claimed", task |-> t, error |-> e, closed |-> c] \in Works
    BY DEF Works
  <2>5. task[t].error \in BOOLEAN /\ (check[t] # "running") \in BOOLEAN
    BY <2>1 DEF TaskRow
  <2>6. [phase |-> "claimed", task |-> t, error |-> task[t].error,
         closed |-> check[t] # "running"] \in Works
    BY <2>4, <2>5, Zenon
  <2>7. persister' \in [Persisters -> Works]
    BY <1>3, <2>6, Zenon DEF PersisterClaims, Work
  <2> QED  BY <1>3, <2>3, <2>7 DEF PersisterClaims, calls, world
<1>4. CASE PersisterCompletes(p)
  BY <1>4, <1>2, ClaimedWork, StoreKeepsTypes DEF PersisterCompletes, TerminalStates
<1>5. CASE PersisterFails(p)
  BY <1>5, <1>2, ClaimedWork, StoreKeepsTypes DEF PersisterFails, TerminalStates
<1>6. CASE PersisterFollows(p)
  BY <1>6, <1>2, ClaimedWork, FollowKeepsTypes DEF PersisterFollows
<1>7. CASE PersisterReleases(p)
  <2> DEFINE t == persister[p].task
             back == IF persister[p].error THEN "provider_failed" ELSE "ready"
  <2>1. t \in Tasks
    BY <1>7, ClaimedWork DEF PersisterReleases
  <2>2. Release(task[t], back) \in TaskRow
    BY <2>1, ReleaseKeepsRows DEF ActiveTaskStates
  <2>3. task' \in [Tasks -> TaskRow]
    BY <1>7, <2>1, <2>2 DEF PersisterReleases
  <2> QED  BY <1>7, <1>2, <2>3 DEF PersisterReleases
<1>8. CASE PersisterFinalizes(p)
  BY <1>1, <1>8, FinalizedType DEF PersisterFinalizes, Work, calls, world
<1> QED  BY <1>3, <1>4, <1>5, <1>6, <1>7, <1>8 DEF PersistStep

LEMMA CleanerKeepsTypes ==
  ASSUME BatchTypeOK, NEW c \in Cleaners, CleanerStep(c)
  PROVE  BatchTypeOK'
<1> USE DEF BatchTypeOK
<1>1. CASE CleanerReads(c)
  BY <1>1 DEF CleanerReads, Sweeps, rows, calls, world
<1>2. CASE CleanerReconciles(c)
  <2>1. cleaner' \in [Cleaners -> Sweeps]
    BY <1>2 DEF CleanerReconciles, Sweeps
  <2> QED  BY <1>2, <2>1, ReconcileKeepsRows DEF CleanerReconciles, calls, world
<1>3. CASE CleanerFinalizes(c)
  BY <1>3, FinalizedType DEF CleanerFinalizes, Sweeps, calls, world
<1> QED  BY <1>1, <1>2, <1>3 DEF CleanerStep

LEMMA WorldKeepsTypes ==
  ASSUME BatchTypeOK,
         \/ \E t \in Tasks : LeaseExpires(t) \/ CloseRankCheckAsCancelled(t)
         \/ \E m \in {"cutover", "legacy"} : ChangeMode(m)
         \/ DeadlinePasses \/ WorkflowEnds \/ CancelRun \/ CancelCrashes
  PROVE  BatchTypeOK'
<1> USE DEF BatchTypeOK
<1>1. ASSUME NEW t \in Tasks, LeaseExpires(t)  PROVE BatchTypeOK'
  <2>1. \A row \in TaskRow : [row EXCEPT !.live = FALSE] \in TaskRow
    <3> HIDE DEF BatchTypeOK
    <3> QED  BY DEF TaskRow
  <2> QED  BY <1>1, <2>1 DEF LeaseExpires, calls, attempts, world
<1>2. ASSUME NEW t \in Tasks, CloseRankCheckAsCancelled(t)  PROVE BatchTypeOK'
  BY <1>2 DEF CloseRankCheckAsCancelled, TerminalStates, calls, attempts
<1>3. ASSUME NEW m \in {"cutover", "legacy"}, ChangeMode(m)  PROVE BatchTypeOK'
  BY <1>3 DEF ChangeMode, rows, calls, attempts
<1>4. CASE DeadlinePasses
  BY <1>4 DEF DeadlinePasses, rows, calls, attempts
<1>5. CASE WorkflowEnds
  BY <1>5 DEF WorkflowEnds, rows, calls, attempts
<1>6. CASE CancelRun
  <2>1. task' \in [Tasks -> TaskRow]
    BY <1>6, MoveKeepsRows DEF CancelRun, TerminalStates
  <2> QED  BY <1>6, <2>1 DEF CancelRun, calls, attempts, TerminalStates
<1>7. CASE CancelCrashes
  BY <1>7 DEF CancelCrashes, rows, calls, attempts
<1> QED  BY <1>1, <1>2, <1>3, <1>4, <1>5, <1>6, <1>7

LEMMA TypeStep == BatchTypeOK /\ [Next]_vars => BatchTypeOK'
<1> SUFFICES ASSUME BatchTypeOK, [Next]_vars  PROVE BatchTypeOK'
  OBVIOUS
<1>1. CASE UNCHANGED vars
  BY <1>1 DEF BatchTypeOK, vars, rows, calls, attempts, world
<1> QED
  BY <1>1, SubmitKeepsTypes, InspectKeepsTypes, PersistKeepsTypes, CleanerKeepsTypes,
     WorldKeepsTypes DEF Next

LEMMA TypeInit == Init => BatchTypeOK
<1> SUFFICES ASSUME Init  PROVE BatchTypeOK
  OBVIOUS
<1>1. NewTask \in TaskRow
  BY DEF NewTask, TaskRow, ActiveTaskStates
<1>2. task \in [Tasks -> TaskRow] /\ reply \in [Tasks -> Answers \cup {"none"}]
  BY <1>1 DEF Init, NoReply
<1>3. /\ submitter \in [Submitters -> SubmitterPhases]
      /\ inspector \in [Inspectors -> Looks]
      /\ persister \in [Persisters -> Works]
      /\ cleaner \in [Cleaners -> Sweeps]
  BY DEF Init, SubmitterPhases, Looks, Works, Sweeps
<1> QED  BY <1>2, <1>3 DEF Init, BatchTypeOK, ActiveBatchStates

\* Every transaction keeps the rows of a batch well formed, whichever attempt
\* makes it and however late (queued-state.ts and its transitions).
THEOREM BatchTypeCorrect == Spec => []BatchTypeOK
BY TypeInit, TypeStep, PTL DEF Spec

-----------------------------------------------------------------------------
(* What the promises rest on.                                               *)

\* A batch nobody claimed was not posted, and its tasks are untouched or were
\* deferred by a cleanup that has not closed the batch yet.
Untouched(t) ==
  /\ task[t].owner = NoOwner
  /\ ~task[t].charge
  /\ \/ task[t].state = "prepared" /\ check[t] = "running"
     \/ task[t].state = "deferred"

PreparedIsUnsent ==
  batch = "prepared" =>
    /\ posted = 0
    /\ closing = {}
    /\ \A s \in Submitters : submitter[s] \in {"idle", "done"}
    /\ \A t \in Tasks : Untouched(t)
    /\ \A c \in Cleaners : cleaner[c].phase = "read" => cleaner[c].charged = {}

\* One attempt at most is past the claim; once the batch was posted, none is
\* before the POST any more.
BeforePost == {"claimed", "refused", "fenced"}
PastClaim == BeforePost \cup {"answered"}

OneSender ==
  /\ posted \in {0, 1}
  /\ posted = 1 => \A s \in Submitters : submitter[s] \notin BeforePost
  /\ \A s, q \in Submitters : submitter[s] \in PastClaim /\ submitter[q] \in PastClaim => s = q

\* A task whose result is to be stored.
Deliverable(t) == task[t].state \in Persistable /\ ~task[t].error

\* Nothing is taken, or completed, or about to be, before the batch is posted.
ResultsArePosted ==
  posted # 1 =>
    /\ taken = {}
    /\ \A t \in Tasks : /\ check[t] # "completed"
                        /\ task[t].state # "completed"
                        /\ ~Deliverable(t)
    /\ \A p \in Persisters : persister[p].phase = "claimed" => persister[p].error

BatchInv == BatchTypeOK /\ PreparedIsUnsent /\ OneSender /\ ResultsArePosted

LEMMA InvInit == Init => BatchInv
<1> SUFFICES ASSUME Init  PROVE BatchInv
  OBVIOUS
<1>1. PreparedIsUnsent
  BY DEF Init, PreparedIsUnsent, Untouched, NewTask, NoSweep
<1>2. OneSender
  BY DEF Init, OneSender, BeforePost, PastClaim
<1>3. ResultsArePosted
  BY DEF Init, ResultsArePosted, Deliverable, NewTask, Persistable, NoWork
<1> QED  BY <1>1, <1>2, <1>3, TypeInit DEF BatchInv

-----------------------------------------------------------------------------
(* One sender.                                                              *)

LEMMA SenderStep ==
  ASSUME BatchTypeOK, PreparedIsUnsent, OneSender, [Next]_vars
  PROVE  OneSender'
<1> USE DEF BeforePost, PastClaim
<1> DEFINE Quiet == UNCHANGED <<posted, submitter>>
<1>1. CASE Quiet
  BY <1>1 DEF OneSender
<1>2. ASSUME NEW s \in Submitters, submitter' = [submitter EXCEPT ![s] = "done"], posted' = posted
      PROVE  OneSender'
  BY <1>2 DEF OneSender, BatchTypeOK
<1>3. ASSUME NEW s \in Submitters, SubmitStep(s)  PROVE OneSender'
  <2>1. CASE SubmitClaims(s)
    <3>1. posted' = 0 /\ \A q \in Submitters : submitter[q] \in {"idle", "done"}
      BY <2>1 DEF SubmitClaims, PreparedIsUnsent, calls
    <3>2. submitter' = [submitter EXCEPT ![s] = "claimed"]
      BY <2>1 DEF SubmitClaims, Step
    <3> QED  BY <3>1, <3>2 DEF OneSender, BatchTypeOK
  <2>2. CASE SubmitIsRefused(s)
    <3>1. posted' = posted /\ submitter[s] = "claimed" /\ submitter' = [submitter EXCEPT ![s] = "refused"]
      BY <2>2 DEF SubmitIsRefused, Step, calls
    <3> QED  BY <3>1 DEF OneSender, BatchTypeOK
  <2>3. CASE SubmitFences(s)
    <3>1. posted' = posted /\ submitter[s] = "claimed" /\ submitter' = [submitter EXCEPT ![s] = "fenced"]
      BY <2>3 DEF SubmitFences, Step, calls
    <3> QED  BY <3>1 DEF OneSender, BatchTypeOK
  <2>4. CASE SubmitPosts(s)
    <3>1. posted' = posted + 1 /\ submitter[s] = "fenced" /\ submitter' = [submitter EXCEPT ![s] = "answered"]
      BY <2>4 DEF SubmitPosts, Step
    <3>2. posted = 0
      BY <3>1 DEF OneSender
    <3> QED  BY <3>1, <3>2 DEF OneSender, BatchTypeOK
  <2>5. CASE Returns(s)
    BY <2>5, <1>2 DEF Returns, Step
  <2> QED
    BY <1>3, <2>1, <2>2, <2>3, <2>4, <2>5
       DEF SubmitStep, SubmitResumes, SubmitDisabled, SubmitDefers, SubmitFailsUnsent,
           SubmitIsAmbiguous, SubmitPersists
<1>4. ASSUME NEW n \in Inspectors, InspectStep(n)  PROVE Quiet
  BY <1>4 DEF InspectStep, InspectReads, InspectMarksReady, InspectFailsTasks, InspectWrites, calls
<1>5. ASSUME NEW p \in Persisters, PersistStep(p)  PROVE Quiet
  BY <1>5 DEF PersistStep, PersisterClaims, PersisterCompletes, PersisterFails, PersisterFollows,
              PersisterReleases, PersisterFinalizes, Persisted, calls
<1>6. ASSUME NEW c \in Cleaners, CleanerStep(c)  PROVE Quiet
  BY <1>6 DEF CleanerStep, CleanerReads, CleanerReconciles, CleanerFinalizes, calls
<1>7. CASE \/ \E t \in Tasks : LeaseExpires(t) \/ CloseRankCheckAsCancelled(t)
           \/ \E m \in {"cutover", "legacy"} : ChangeMode(m)
           \/ DeadlinePasses \/ WorkflowEnds \/ CancelRun \/ CancelCrashes
  <2>1. Quiet
    BY <1>7 DEF LeaseExpires, CloseRankCheckAsCancelled, ChangeMode, DeadlinePasses, WorkflowEnds,
                CancelRun, CancelCrashes, calls, attempts
  <2> QED  BY <2>1, <1>1
<1>8. CASE UNCHANGED vars
  BY <1>8, <1>1 DEF vars, calls, attempts
<1> QED  BY <1>1, <1>3, <1>4, <1>5, <1>6, <1>7, <1>8 DEF Next

-----------------------------------------------------------------------------
(* A batch nobody claimed.                                                  *)

LEMMA FinalizedPrepared ==
  ASSUME NEW taskRows, Finalized(taskRows) = "prepared"
  PROVE  batch = "prepared"
BY DEF Finalized, TerminalBatchState

LEMMA DeferEndsPrepared ==
  ASSUME BatchTypeOK, PreparedIsUnsent, DeferBatch
  PROVE  batch' # "prepared"
<1>1. CASE batch = "prepared"
  <2>1. ASSUME NEW t \in Tasks  PROVE task'[t].state \in TerminalStates
    <3>1. Untouched(t) /\ task[t] \in TaskRow
      BY <1>1 DEF PreparedIsUnsent, BatchTypeOK
    <3>2. CASE task[t].state = "prepared"
      <4>1. Closable(t)
        BY <3>1, <3>2 DEF Closable, Active, ActiveTaskStates, Persistable, Untouched
      <4>2. \A charged : VerdictAtDeadline(t, charged) \in TerminalStates
        BY VerdictType
      <4>3. \A verdict \in TerminalStates : Release(task[t], verdict).state = verdict
        BY <3>1 DEF Release, TaskRow
      <4> QED  BY <4>1, <4>2, <4>3 DEF DeferBatch, ReconcileTasks
    <3>3. CASE task[t].state = "deferred"
      BY <3>3 DEF DeferBatch, ReconcileTasks, Closable, Active, ActiveTaskStates, TerminalStates
    <3> QED  BY <3>1, <3>2, <3>3 DEF Untouched
  <2> QED
    BY <1>1, <2>1 DEF DeferBatch, Finalized, TerminalBatchState, ActiveBatchStates
<1>2. CASE batch # "prepared"
  BY <1>2, FinalizedPrepared DEF DeferBatch
<1> QED  BY <1>1, <1>2

LEMMA SubmitLeavesPrepared ==
  ASSUME BatchTypeOK, PreparedIsUnsent, NEW s \in Submitters, SubmitStep(s)
  PROVE  batch' # "prepared"
<1>1. submitter[s] \in PastClaim => batch # "prepared"
  BY DEF PreparedIsUnsent, PastClaim, BeforePost
<1>2. CASE SubmitClaims(s)
  BY <1>2 DEF SubmitClaims
<1>3. CASE SubmitResumes(s)
  BY <1>3, DeferEndsPrepared DEF SubmitResumes, MarkAmbiguous, rows
<1>4. CASE SubmitDisabled(s)
  BY <1>4, DeferEndsPrepared DEF SubmitDisabled, AllowPaidRetrieval, rows
<1>5. CASE SubmitDefers(s)
  BY <1>5, DeferEndsPrepared DEF SubmitDefers
<1>6. CASE \/ SubmitIsRefused(s) \/ SubmitFences(s) \/ SubmitPosts(s) \/ SubmitFailsUnsent(s)
           \/ SubmitIsAmbiguous(s) \/ SubmitPersists(s)
  BY <1>6, <1>1 DEF SubmitIsRefused, SubmitFences, SubmitPosts, SubmitFailsUnsent,
     SubmitIsAmbiguous, SubmitPersists, MarkAmbiguous, MarkDefiniteFailure, rows,
     PastClaim, BeforePost
<1> QED  BY <1>2, <1>3, <1>4, <1>5, <1>6 DEF SubmitStep

\* Steps that leave an unclaimed batch as it is.
LEMMA PreparedKept ==
  ASSUME PreparedIsUnsent,
         batch' = "prepared" =>
           /\ batch = "prepared"
           /\ UNCHANGED <<posted, submitter, closing, task, check, cleaner>>
  PROVE  PreparedIsUnsent'
BY DEF PreparedIsUnsent, Untouched

LEMMA InspectKeepsPrepared ==
  ASSUME BatchTypeOK, PreparedIsUnsent, NEW n \in Inspectors, InspectStep(n)
  PROVE  PreparedIsUnsent'
<1>1. batch = "prepared" => \A t \in Tasks : task[t].state \notin Outstanding
  BY DEF PreparedIsUnsent, Untouched, Outstanding
<1>2. CASE InspectReads(n)
  BY <1>2, PreparedKept DEF InspectReads, rows, calls, world
<1>3. CASE InspectMarksReady(n)
  <2>1. batch = "prepared" => task' = task
    BY <1>1, <1>3 DEF InspectMarksReady, BatchTypeOK
  <2> QED  BY <1>3, <2>1, PreparedKept DEF InspectMarksReady, calls, world
<1>4. CASE InspectFailsTasks(n)
  <2>1. batch' # "prepared"
    BY <1>4 DEF InspectFailsTasks, ActiveBatchStates
  <2> QED  BY <2>1, PreparedKept
<1>5. CASE InspectWrites(n)
  <2>1. batch' = "prepared" => batch = "prepared"
    BY <1>5, FinalizedPrepared DEF InspectWrites, InspectedState
  <2> QED  BY <1>5, <2>1, PreparedKept DEF InspectWrites, calls, world
<1> QED  BY <1>2, <1>3, <1>4, <1>5 DEF InspectStep

LEMMA PersistKeepsPrepared ==
  ASSUME BatchTypeOK, PreparedIsUnsent, NEW p \in Persisters, PersistStep(p)
  PROVE  PreparedIsUnsent'
<1>1. batch = "prepared" => \A t \in Tasks : ~LeaseFree(t) /\ ~OwnsLease(p, t)
  BY DEF PreparedIsUnsent, Untouched, LeaseFree, OwnsLease
<1>2. ASSUME Persisted(p), NEW t \in Tasks,
             FollowCheck(p, t) \/ \E verdict \in TerminalStates : StoreVerdict(p, t, verdict)
      PROVE  PreparedIsUnsent'
  BY <1>1, <1>2, PreparedKept DEF Persisted, StoreVerdict, FollowCheck, calls, world
<1>3. ASSUME NEW t \in Tasks, PersisterClaims(p, t)  PROVE PreparedIsUnsent'
  BY <1>1, <1>3, PreparedKept DEF PersisterClaims
<1>4. CASE PersisterCompletes(p)
  BY <1>4, <1>2, ClaimedWork DEF PersisterCompletes, TerminalStates
<1>5. CASE PersisterFails(p)
  BY <1>5, <1>2, ClaimedWork DEF PersisterFails, TerminalStates
<1>6. CASE PersisterFollows(p)
  BY <1>6, <1>2, ClaimedWork DEF PersisterFollows
<1>7. CASE PersisterReleases(p)
  BY <1>7, <1>1, ClaimedWork, PreparedKept DEF PersisterReleases, Persisted, calls, world
<1>8. CASE PersisterFinalizes(p)
  BY <1>8, FinalizedPrepared, PreparedKept DEF PersisterFinalizes, calls, world
<1> QED  BY <1>3, <1>4, <1>5, <1>6, <1>7, <1>8 DEF PersistStep

LEMMA CleanerKeepsPrepared ==
  ASSUME BatchTypeOK, PreparedIsUnsent, NEW c \in Cleaners, CleanerStep(c)
  PROVE  PreparedIsUnsent'
<1>1. CASE CleanerReads(c)
  <2>1. SUFFICES ASSUME batch' = "prepared"  PROVE PreparedIsUnsent'
    BY DEF PreparedIsUnsent
  <2>2. batch = "prepared" /\ \A t \in Tasks : ~task[t].charge
    BY <1>1, <2>1 DEF CleanerReads, rows, PreparedIsUnsent, Untouched
  <2>3. \A d \in Cleaners : cleaner'[d].phase = "read" => cleaner'[d].charged = {}
    BY <1>1, <2>2 DEF CleanerReads, PreparedIsUnsent, BatchTypeOK
  <2> QED  BY <1>1, <2>2, <2>3 DEF CleanerReads, rows, calls, world, PreparedIsUnsent, Untouched
<1>2. CASE CleanerReconciles(c)
  <2>1. SUFFICES ASSUME batch' = "prepared"  PROVE PreparedIsUnsent'
    BY DEF PreparedIsUnsent
  <2>2. batch = "prepared" /\ cleaner[c].charged = {}
    BY <1>2, <2>1 DEF CleanerReconciles, PreparedIsUnsent
  <2>3. ASSUME NEW t \in Tasks  PROVE Untouched(t)'
    <3>1. Untouched(t) /\ task[t] \in TaskRow
      BY <2>2 DEF PreparedIsUnsent, BatchTypeOK
    <3>2. CASE Closable(t)
      <4>1. task[t].state = "prepared"
        BY <3>1, <3>2 DEF Closable, Active, ActiveTaskStates, Untouched
      <4>2. VerdictAtDeadline(t, {}) = "deferred"
        BY <3>1, <4>1 DEF Untouched, VerdictAtDeadline
      <4>3. task'[t] = Release(task[t], "deferred")
        BY <1>2, <2>2, <3>2, <4>2 DEF CleanerReconciles, ReconcileTasks
      <4> QED  BY <3>1, <4>3 DEF Untouched, Release, TaskRow
    <3>3. CASE ~Closable(t)
      BY <1>2, <3>1, <3>3 DEF CleanerReconciles, ReconcileTasks, Untouched
    <3> QED  BY <3>2, <3>3
  <2>4. \A d \in Cleaners : cleaner'[d].phase = "read" => cleaner'[d].charged = {}
    BY <1>2, <2>2 DEF CleanerReconciles, PreparedIsUnsent, BatchTypeOK
  <2> QED  BY <1>2, <2>2, <2>3, <2>4 DEF CleanerReconciles, calls, world, PreparedIsUnsent
<1>3. CASE CleanerFinalizes(c)
  <2>1. SUFFICES ASSUME batch' = "prepared"  PROVE PreparedIsUnsent'
    BY DEF PreparedIsUnsent
  <2>2. batch = "prepared"
    BY <1>3, <2>1, FinalizedPrepared DEF CleanerFinalizes
  <2>3. \A d \in Cleaners : cleaner'[d].phase = "read" => cleaner'[d].charged = {}
    BY <1>3, <2>2 DEF CleanerFinalizes, NoSweep, PreparedIsUnsent, BatchTypeOK
  <2> QED  BY <1>3, <2>2, <2>3 DEF CleanerFinalizes, calls, world, PreparedIsUnsent, Untouched
<1> QED  BY <1>1, <1>2, <1>3 DEF CleanerStep

LEMMA PreparedStep ==
  ASSUME BatchTypeOK, PreparedIsUnsent, [Next]_vars
  PROVE  PreparedIsUnsent'
<1>1. CASE UNCHANGED vars
  BY <1>1, PreparedKept DEF vars, rows, calls, attempts, world
<1>2. ASSUME NEW s \in Submitters, SubmitStep(s)  PROVE PreparedIsUnsent'
  BY <1>2, SubmitLeavesPrepared, PreparedKept
<1>3. ASSUME NEW t \in Tasks, LeaseExpires(t)  PROVE PreparedIsUnsent'
  <2>1. \A q \in Tasks : /\ task'[q].state = task[q].state
                         /\ task'[q].owner = task[q].owner
                         /\ task'[q].charge = task[q].charge
    BY <1>3 DEF LeaseExpires, BatchTypeOK, TaskRow
  <2> QED
    BY <1>3, <2>1 DEF LeaseExpires, PreparedIsUnsent, Untouched, calls, attempts, world
<1>4. ASSUME NEW t \in Tasks, CloseRankCheckAsCancelled(t)  PROVE PreparedIsUnsent'
  BY <1>4, PreparedKept DEF CloseRankCheckAsCancelled, PreparedIsUnsent
<1>5. CASE CancelRun
  BY <1>5, PreparedKept DEF CancelRun
<1>6. CASE CancelCrashes
  BY <1>6, PreparedKept DEF CancelCrashes, PreparedIsUnsent, rows
<1>7. CASE DeadlinePasses \/ WorkflowEnds \/ \E m \in {"cutover", "legacy"} : ChangeMode(m)
  BY <1>7, PreparedKept DEF DeadlinePasses, WorkflowEnds, ChangeMode, rows, calls, attempts
<1> QED
  BY <1>1, <1>2, <1>3, <1>4, <1>5, <1>6, <1>7, InspectKeepsPrepared, PersistKeepsPrepared,
     CleanerKeepsPrepared DEF Next

-----------------------------------------------------------------------------
(* Results of what was posted.                                              *)

\* Steps after which no more is taken, completed or free of error than before.
LEMMA ResultsKept ==
  ASSUME ResultsArePosted, posted' = posted, taken' = taken,
         \A t \in Tasks : /\ check'[t] = "completed" => check[t] = "completed"
                          /\ task'[t].state = "completed" =>
                              task[t].state = "completed" \/ check[t] = "completed"
                          /\ Deliverable(t)' => Deliverable(t),
         \A p \in Persisters : persister'[p].phase = "claimed" => persister'[p] = persister[p]
  PROVE  ResultsArePosted'
BY DEF ResultsArePosted

LEMMA ReleaseParts ==
  ASSUME NEW row \in TaskRow, NEW state
  PROVE  Release(row, state).state = state /\ Release(row, state).error = row.error
BY DEF Release, TaskRow

\* The states of tasks and checks after a cleanup.
LEMMA ReconcileResults ==
  ASSUME BatchTypeOK, NEW charged, ReconcileTasks(charged), NEW t \in Tasks
  PROVE  /\ check'[t] = "completed" => check[t] = "completed"
         /\ task'[t].state = "completed" => task[t].state = "completed" \/ check[t] = "completed"
         /\ Deliverable(t)' => Deliverable(t)
<1>1. task[t] \in TaskRow
  BY DEF BatchTypeOK
<1>2. CASE Closable(t)
  <2> DEFINE v == VerdictAtDeadline(t, charged)
  <2>1. task'[t] = Release(task[t], v) /\ check'[t] = v
    BY <1>2 DEF ReconcileTasks
  <2>2. v \in TerminalStates /\ (v = "completed" => check[t] = "completed")
    BY VerdictType DEF VerdictAtDeadline
  <2>3. task'[t].state = v
    BY <1>1, <2>1, ReleaseParts
  <2> QED  BY <2>1, <2>2, <2>3 DEF TerminalStates, Persistable, Deliverable
<1>3. CASE ~Closable(t)
  BY <1>3 DEF ReconcileTasks, Deliverable
<1> QED  BY <1>2, <1>3

LEMMA MoveResults ==
  ASSUME BatchTypeOK, NEW from, NEW state, NEW error \in BOOLEAN, NEW t \in Tasks,
         Move(from, state, error),
         state # "completed", state \in Persistable => error
  PROVE  /\ task'[t].state = "completed" => task[t].state = "completed"
         /\ Deliverable(t)' => Deliverable(t)
BY DEF Move, BatchTypeOK, TaskRow, Deliverable

LEMMA SubmitKeepsResults ==
  ASSUME BatchTypeOK, OneSender, ResultsArePosted, NEW s \in Submitters, SubmitStep(s)
  PROVE  ResultsArePosted'
<1>1. CASE SubmitPosts(s)
  <2>1. posted = 0
    BY <1>1 DEF SubmitPosts, OneSender, BeforePost
  <2>2. posted' = 1
    BY <1>1, <2>1 DEF SubmitPosts
  <2> QED  BY <2>2 DEF ResultsArePosted
<1>2. CASE ~SubmitPosts(s)
  <2>1. posted' = posted /\ taken' = taken /\ persister' = persister
    BY <1>2 DEF SubmitStep, SubmitClaims, SubmitResumes, SubmitDisabled, SubmitIsRefused,
       SubmitDefers, SubmitFailsUnsent, SubmitFences, SubmitIsAmbiguous, SubmitPersists,
       Returns, calls
  <2> DEFINE Good ==
        \A t \in Tasks : /\ check'[t] = "completed" => check[t] = "completed"
                         /\ task'[t].state = "completed" =>
                             task[t].state = "completed" \/ check[t] = "completed"
                         /\ Deliverable(t)' => Deliverable(t)
  <2>2. ASSUME UNCHANGED <<task, check>>  PROVE Good
    BY <2>2 DEF Deliverable
  <2>3. ASSUME DeferBatch  PROVE Good
    BY <2>3, ReconcileResults DEF DeferBatch
  <2>4. ASSUME MarkAmbiguous  PROVE Good
    BY <2>4, MoveResults DEF MarkAmbiguous, Persistable
  <2>5. ASSUME MarkDefiniteFailure  PROVE Good
    BY <2>5, MoveResults DEF MarkDefiniteFailure, Persistable
  <2>6. ASSUME SubmitClaims(s)  PROVE Good
    BY <2>6, MoveResults DEF SubmitClaims, Persistable
  <2>7. ASSUME SubmitPersists(s)  PROVE Good
    <3>1. check' = check
      BY <2>7 DEF SubmitPersists
    <3>2. ASSUME NEW t \in Tasks
          PROVE  /\ task'[t].state = "completed" => task[t].state = "completed"
                 /\ Deliverable(t)' => Deliverable(t)
      <4>1. CASE task[t].state = "submitting"
        <5>1. task[t] \in TaskRow
          BY DEF BatchTypeOK
        <5>3. task'[t] = [task[t] EXCEPT !.state = StateAfter(reply[t]),
                                         !.error = reply[t] # "accepted",
                                         !.charge = reply[t] \in {"accepted", "charged"}]
          BY <2>7, <4>1, Zenon DEF SubmitPersists
        <5>4. PICK e, c : /\ task'[t] = [task[t] EXCEPT !.state = StateAfter(reply[t]), !.error = e,
                                                        !.charge = c]
                          /\ reply[t] # "accepted" => e
          BY <5>3, Zenon
        <5>5. task'[t].state = StateAfter(reply[t]) /\ task'[t].error = e
          BY <5>1, <5>4 DEF TaskRow
        <5>6. StateAfter(reply[t]) \in Persistable => reply[t] # "accepted"
          BY DEF StateAfter, Persistable
        <5>7. StateAfter(reply[t]) # "completed"
          BY DEF StateAfter
        <5> QED  BY <5>4, <5>5, <5>6, <5>7 DEF Deliverable
      <4>2. CASE task[t].state # "submitting"
        BY <2>7, <4>2 DEF SubmitPersists, Deliverable
      <4> QED  BY <4>1, <4>2
    <3> QED  BY <3>1, <3>2
  <2>8. Good
    BY <1>2, <2>2, <2>3, <2>4, <2>5, <2>6, <2>7
       DEF SubmitStep, SubmitResumes, SubmitDisabled, SubmitIsRefused, SubmitDefers,
           SubmitFailsUnsent, SubmitFences, SubmitIsAmbiguous, rows
  <2> QED  BY <2>1, <2>8, ResultsKept
<1> QED  BY <1>1, <1>2

LEMMA InspectKeepsResults ==
  ASSUME BatchTypeOK, ResultsArePosted, NEW n \in Inspectors, InspectStep(n)
  PROVE  ResultsArePosted'
<1>1. posted' = posted /\ taken' = taken /\ persister' = persister /\ check' = check
  BY DEF InspectStep, InspectReads, InspectMarksReady, InspectFailsTasks, InspectWrites,
         rows, calls
<1>2. CASE InspectMarksReady(n)
  <2>1. posted # 1 => taken = {}
    BY DEF ResultsArePosted
  <2>2. posted # 1 => task' = task
    BY <1>2, <2>1 DEF InspectMarksReady, BatchTypeOK
  <2> QED  BY <1>1, <2>2 DEF ResultsArePosted, Deliverable
<1>3. CASE InspectFailsTasks(n)
  BY <1>1, <1>3, MoveResults, ResultsKept DEF InspectFailsTasks, Persistable
<1>4. CASE task' = task
  BY <1>1, <1>4, ResultsKept DEF Deliverable
<1> QED
  BY <1>2, <1>3, <1>4 DEF InspectStep, InspectReads, InspectWrites, rows

LEMMA PersistKeepsResults ==
  ASSUME BatchTypeOK, ResultsArePosted, NEW p \in Persisters, PersistStep(p)
  PROVE  ResultsArePosted'
<1>1. posted' = posted /\ taken' = taken
  BY DEF PersistStep, PersisterClaims, PersisterCompletes, PersisterFails, PersisterFollows,
         PersisterReleases, PersisterFinalizes, Persisted, calls
<1>2. ASSUME NEW t \in Tasks, PersisterClaims(p, t)  PROVE ResultsArePosted'
  <2>1. task[t] \in TaskRow
    BY DEF BatchTypeOK
  <2>2. posted # 1 => task[t].error
    BY <1>2 DEF PersisterClaims, LeaseFree, ResultsArePosted, Persistable, Deliverable
  <2>3. /\ check' = check
        /\ \A q \in Tasks : /\ task'[q].error = task[q].error
                            /\ task'[q].state = task[q].state \/ (q = t /\ task'[q].state = "persisting")
    BY <1>2, <2>1 DEF PersisterClaims, BatchTypeOK, TaskRow
  <2>4. \A q \in Persisters \ {p} : persister'[q] = persister[q]
    BY <1>2, Zenon DEF PersisterClaims, Work, BatchTypeOK
  <2>5. persister'[p].error = task[t].error
    <3>1. persister'[p] = [phase |-> "claimed", task |-> t, error |-> task[t].error,
                           closed |-> check[t] # "running"]
      BY <1>2, Zenon DEF PersisterClaims, Work, BatchTypeOK
    <3>2. PICK e, c : /\ persister'[p] = [phase |-> "claimed", task |-> t, error |-> e, closed |-> c]
                      /\ e = task[t].error
      BY <3>1, Zenon
    <3>3. persister'[p].error = e
      BY ONLY <3>2
    <3> QED  BY <3>2, <3>3
  <2> QED
    BY <1>1, <2>2, <2>3, <2>4, <2>5 DEF ResultsArePosted, Persistable, Deliverable
<1>3. ASSUME Persisted(p),
             \A t \in Tasks : /\ check'[t] = "completed" => check[t] = "completed"
                              /\ task'[t].state = "completed" =>
                                  task[t].state = "completed" \/ check[t] = "completed"
                              /\ Deliverable(t)' => Deliverable(t)
      PROVE  ResultsArePosted'
  <2>1. \A q \in Persisters : persister'[q].phase = "claimed" => persister'[q] = persister[q]
    BY <1>3 DEF Persisted, Work, BatchTypeOK
  <2> QED  BY <1>1, <1>3, <2>1, ResultsKept
<1>4. ASSUME NEW t \in Tasks, FollowCheck(p, t), Persisted(p)  PROVE ResultsArePosted'
  <2>1. \A q \in Tasks : task[q] \in TaskRow
    BY DEF BatchTypeOK
  <2>2. check[t] \in {"running"} \cup TerminalStates
    BY DEF BatchTypeOK
  <2>3. check' = check /\ \A q \in Tasks \ {t} : task'[q] = task[q]
    BY <1>4 DEF FollowCheck, BatchTypeOK
  <2>4. task'[t] = task[t] \/ (check[t] # "running" /\ task'[t] = Release(task[t], check[t]))
    BY <1>4 DEF FollowCheck, BatchTypeOK
  <2>5. Release(task[t], check[t]).state = check[t]
    BY <2>1, ReleaseParts
  <2> QED  BY <1>3, <1>4, <2>2, <2>3, <2>4, <2>5 DEF Persistable, TerminalStates, Deliverable
<1>5. ASSUME NEW t \in Tasks, NEW verdict \in TerminalStates, StoreVerdict(p, t, verdict),
             Persisted(p), verdict # "completed" \/ posted = 1
      PROVE  ResultsArePosted'
  <2>1. CASE OwnsLease(p, t) /\ check[t] = "running"
    <3>1. task[t] \in TaskRow
      BY DEF BatchTypeOK
    <3>2. /\ \A q \in Tasks \ {t} : task'[q] = task[q] /\ check'[q] = check[q]
          /\ task'[t] = Release(task[t], verdict) /\ check'[t] = verdict
      BY <1>5, <2>1 DEF StoreVerdict, BatchTypeOK
    <3>3. task'[t].state = verdict
      BY <3>1, <3>2, ReleaseParts
    <3>4. CASE posted = 1
      BY <1>1, <3>4 DEF ResultsArePosted
    <3>5. CASE verdict # "completed"
      BY <1>3, <1>5, <3>2, <3>3, <3>5 DEF Persistable, TerminalStates, Deliverable
    <3> QED  BY <1>5, <3>4, <3>5
  <2>2. CASE ~(OwnsLease(p, t) /\ check[t] = "running")
    BY <1>4, <1>5, <2>2 DEF StoreVerdict
  <2> QED  BY <2>1, <2>2
<1>6. CASE PersisterCompletes(p)
  <2>1. posted = 1 /\ persister[p].task \in Tasks
    BY <1>6, ClaimedWork DEF PersisterCompletes, ResultsArePosted
  <2> QED  BY <1>5, <1>6, <2>1 DEF PersisterCompletes, TerminalStates
<1>7. CASE PersisterFails(p)
  BY <1>5, <1>7, ClaimedWork DEF PersisterFails, TerminalStates
<1>8. CASE PersisterFollows(p)
  BY <1>4, <1>8, ClaimedWork DEF PersisterFollows
<1>9. CASE PersisterReleases(p)
  <2> DEFINE t == persister[p].task
             back == IF persister[p].error THEN "provider_failed" ELSE "ready"
  <2>1. t \in Tasks /\ task[t] \in TaskRow
    BY <1>9, ClaimedWork DEF PersisterReleases, BatchTypeOK
  <2>2. Release(task[t], back).state = back /\ Release(task[t], back).error = task[t].error
    BY <2>1, ReleaseParts
  <2>3. \A q \in Tasks : task'[q] = task[q] \/ (/\ q = t /\ OwnsLease(p, t)
                                                /\ task'[q] = Release(task[t], back))
    BY <1>9, <2>1 DEF PersisterReleases, BatchTypeOK
  <2>4. \A q \in Tasks : /\ task'[q].state = "completed" => task[q].state = "completed"
                         /\ Deliverable(q)' => Deliverable(q)
    BY <2>2, <2>3 DEF OwnsLease, Persistable, Deliverable
  <2> QED  BY <1>3, <1>9, <2>4 DEF PersisterReleases
<1>10. CASE PersisterFinalizes(p)
  <2>1. \A q \in Persisters : persister'[q].phase = "claimed" => persister'[q] = persister[q]
    BY <1>10 DEF PersisterFinalizes, Work, NoWork, BatchTypeOK
  <2> QED  BY <1>1, <1>10, <2>1, ResultsKept DEF PersisterFinalizes, Deliverable
<1> QED
  BY <1>2, <1>6, <1>7, <1>8, <1>9, <1>10 DEF PersistStep

LEMMA ResultsStep ==
  ASSUME BatchTypeOK, OneSender, ResultsArePosted, [Next]_vars
  PROVE  ResultsArePosted'
<1>1. CASE UNCHANGED vars
  BY <1>1, ResultsKept DEF vars, rows, calls, attempts, Deliverable
<1>2. ASSUME NEW c \in Cleaners, CleanerStep(c)  PROVE ResultsArePosted'
  <2>1. posted' = posted /\ taken' = taken /\ persister' = persister
    BY <1>2 DEF CleanerStep, CleanerReads, CleanerReconciles, CleanerFinalizes, calls
  <2>2. CASE CleanerReconciles(c)
    BY <2>1, <2>2, ReconcileResults, ResultsKept DEF CleanerReconciles
  <2>3. CASE UNCHANGED <<task, check>>
    BY <2>1, <2>3, ResultsKept DEF Deliverable
  <2> QED  BY <1>2, <2>2, <2>3 DEF CleanerStep, CleanerReads, CleanerFinalizes, rows
<1>3. ASSUME NEW t \in Tasks, LeaseExpires(t)  PROVE ResultsArePosted'
  <2>1. \A q \in Tasks : task'[q].state = task[q].state /\ task'[q].error = task[q].error
    BY <1>3 DEF LeaseExpires, BatchTypeOK, TaskRow
  <2> QED  BY <1>3, <2>1, ResultsKept DEF LeaseExpires, calls, attempts, Deliverable
<1>4. ASSUME NEW t \in Tasks, CloseRankCheckAsCancelled(t)  PROVE ResultsArePosted'
  <2>1. \A q \in Tasks : check'[q] = "completed" => check[q] = "completed"
    BY <1>4 DEF CloseRankCheckAsCancelled, BatchTypeOK
  <2> QED  BY <1>4, <2>1, ResultsKept DEF CloseRankCheckAsCancelled, calls, attempts, Deliverable
<1>5. CASE CancelRun
  <2>1. ASSUME NEW t \in Tasks
        PROVE  /\ task'[t].state = "completed" => task[t].state = "completed"
               /\ Deliverable(t)' => Deliverable(t)
    BY <1>5, MoveResults DEF CancelRun, Persistable, Deliverable
  <2> QED  BY <1>5, <2>1, ResultsKept DEF CancelRun, calls, attempts
<1>6. CASE \/ DeadlinePasses \/ WorkflowEnds \/ CancelCrashes
           \/ \E m \in {"cutover", "legacy"} : ChangeMode(m)
  BY <1>6, ResultsKept
     DEF DeadlinePasses, WorkflowEnds, CancelCrashes, ChangeMode, rows, calls, attempts, Deliverable
<1> QED
  BY <1>1, <1>2, <1>3, <1>4, <1>5, <1>6, SubmitKeepsResults, InspectKeepsResults,
     PersistKeepsResults DEF Next

LEMMA InvStep == BatchInv /\ [Next]_vars => BatchInv'
BY TypeStep, PreparedStep, SenderStep, ResultsStep DEF BatchInv

LEMMA InvHolds == Spec => []BatchInv
BY InvInit, InvStep, PTL DEF Spec

-----------------------------------------------------------------------------
(* A batch keeps its promises.                                              *)

\* A step that lets every verdict stand.
Steady == \A t \in Tasks : ~Active(t) => task'[t].state = task[t].state

\* What the state of the batch may become: it stays, moves between states in
\* which the batch is open, or ends with the verdicts of its tasks.
BatchMoves ==
  \/ batch' = batch
  \/ batch \in ActiveBatchStates /\ batch' \in ActiveBatchStates
  \/ /\ batch \in ActiveBatchStates
     /\ \A t \in Tasks : task'[t].state \in TerminalStates
     /\ batch' = TerminalBatchState(task')

LEMMA FinalizedMoves ==
  ASSUME batch' = Finalized(task')
  PROVE  BatchMoves
BY DEF Finalized, BatchMoves

LEMMA MoveIsSteady ==
  ASSUME BatchTypeOK, NEW from \in SUBSET ActiveTaskStates, NEW state, NEW error,
         Move(from, state, error)
  PROVE  Steady
BY DEF Move, BatchTypeOK, TaskRow, Steady, Active

LEMMA ReconcileIsSteady ==
  ASSUME NEW charged, ReconcileTasks(charged)
  PROVE  Steady
BY DEF ReconcileTasks, Closable, Steady

LEMMA SubmitMoves ==
  ASSUME BatchTypeOK, NEW s \in Submitters, SubmitStep(s)
  PROVE  Steady /\ BatchMoves
<1>1. Unsent \subseteq ActiveTaskStates /\ {"prepared"} \subseteq ActiveTaskStates
  BY DEF Unsent, ActiveTaskStates
<1>2. ASSUME UNCHANGED rows  PROVE Steady /\ BatchMoves
  BY <1>2 DEF rows, Steady, BatchMoves
<1>3. ASSUME DeferBatch  PROVE Steady /\ BatchMoves
  BY <1>3, ReconcileIsSteady, FinalizedMoves DEF DeferBatch
<1>4. ASSUME MarkAmbiguous \/ MarkDefiniteFailure  PROVE Steady /\ BatchMoves
  <2>1. Steady
    BY <1>1, <1>4, MoveIsSteady DEF MarkAmbiguous, MarkDefiniteFailure
  <2>2. BatchMoves
    BY <1>4 DEF MarkAmbiguous, MarkDefiniteFailure, BatchMoves, Unsent, ActiveBatchStates
  <2> QED  BY <2>1, <2>2
<1>5. CASE SubmitClaims(s)
  <2>1. Steady
    BY <1>1, <1>5, MoveIsSteady DEF SubmitClaims
  <2> QED  BY <1>5, <2>1 DEF SubmitClaims, BatchMoves, ActiveBatchStates
<1>6. CASE SubmitPersists(s)
  <2>1. \A t \in Tasks : ~Active(t) => task[t].state # "submitting"
    BY DEF Active, ActiveTaskStates
  <2>2. Steady
    BY <1>6, <2>1 DEF SubmitPersists, Steady
  <2> QED  BY <1>6, <2>2 DEF SubmitPersists, BatchMoves, ActiveBatchStates
<1> QED
  BY <1>2, <1>3, <1>4, <1>5, <1>6
     DEF SubmitStep, SubmitResumes, SubmitDisabled, SubmitIsRefused, SubmitDefers,
         SubmitFailsUnsent, SubmitFences, SubmitPosts, SubmitIsAmbiguous

LEMMA InspectMoves ==
  ASSUME BatchTypeOK, NEW n \in Inspectors, InspectStep(n)
  PROVE  Steady /\ BatchMoves
<1>1. Outstanding \subseteq ActiveTaskStates
  BY DEF Outstanding, ActiveTaskStates
<1>2. CASE InspectReads(n)
  BY <1>2 DEF InspectReads, rows, Steady, BatchMoves
<1>3. CASE InspectMarksReady(n)
  BY <1>1, <1>3 DEF InspectMarksReady, Steady, Active, BatchMoves
<1>4. CASE InspectFailsTasks(n)
  <2>1. Steady
    BY <1>1, <1>4, MoveIsSteady DEF InspectFailsTasks
  <2> QED  BY <1>4, <2>1 DEF InspectFailsTasks, BatchMoves, ActiveBatchStates
<1>5. CASE InspectWrites(n)
  <2>1. task' = task /\ inspector[n].saw \in ActiveBatchStates
    BY <1>5 DEF InspectWrites, BatchTypeOK, Looks, NoLook
  <2>2. InspectedState(inspector[n].saw) \in ActiveBatchStates
    BY <2>1 DEF InspectedState, ActiveBatchStates
  <2>3. BatchMoves
    BY <1>5, <2>1, <2>2, FinalizedMoves DEF InspectWrites, BatchMoves
  <2> QED  BY <2>1, <2>3 DEF Steady
<1> QED  BY <1>2, <1>3, <1>4, <1>5 DEF InspectStep

LEMMA PersistMoves ==
  ASSUME BatchTypeOK, NEW p \in Persisters, PersistStep(p)
  PROVE  Steady /\ BatchMoves
<1>1. \A t \in Tasks : LeaseFree(t) \/ OwnsLease(p, t) => Active(t)
  BY DEF LeaseFree, OwnsLease, Active, ActiveTaskStates
<1>2. ASSUME NEW t \in Tasks, Persisted(p),
             \/ FollowCheck(p, t)
             \/ \E verdict \in TerminalStates : StoreVerdict(p, t, verdict)
      PROVE  Steady /\ BatchMoves
  BY <1>1, <1>2 DEF Persisted, StoreVerdict, FollowCheck, BatchTypeOK, Steady, BatchMoves
<1>3. ASSUME NEW t \in Tasks, PersisterClaims(p, t)  PROVE Steady /\ BatchMoves
  BY <1>1, <1>3 DEF PersisterClaims, BatchTypeOK, Steady, BatchMoves
<1>4. CASE PersisterCompletes(p)
  BY <1>4, <1>2, ClaimedWork DEF PersisterCompletes, TerminalStates
<1>5. CASE PersisterFails(p)
  BY <1>5, <1>2, ClaimedWork DEF PersisterFails, TerminalStates
<1>6. CASE PersisterFollows(p)
  BY <1>6, <1>2, ClaimedWork DEF PersisterFollows
<1>7. CASE PersisterReleases(p)
  <2>1. persister[p].task \in Tasks
    BY <1>7, ClaimedWork DEF PersisterReleases
  <2>2. Steady
    BY <1>1, <1>7, <2>1 DEF PersisterReleases, BatchTypeOK, Steady
  <2> QED  BY <1>7, <2>2 DEF PersisterReleases, Persisted, BatchMoves
<1>8. CASE PersisterFinalizes(p)
  BY <1>8, FinalizedMoves DEF PersisterFinalizes, Steady
<1> QED  BY <1>3, <1>4, <1>5, <1>6, <1>7, <1>8 DEF PersistStep

LEMMA CleanerMoves ==
  ASSUME NEW c \in Cleaners, CleanerStep(c)
  PROVE  Steady /\ BatchMoves
<1>1. CASE CleanerReads(c)
  BY <1>1 DEF CleanerReads, rows, Steady, BatchMoves
<1>2. CASE CleanerReconciles(c)
  BY <1>2, ReconcileIsSteady DEF CleanerReconciles, BatchMoves
<1>3. CASE CleanerFinalizes(c)
  BY <1>3, FinalizedMoves DEF CleanerFinalizes, Steady
<1> QED  BY <1>1, <1>2, <1>3 DEF CleanerStep

\* A cancelled batch that nobody claimed ends at once: all of its tasks are
\* deferred, and it has at least one.
LEMMA CancelMoves ==
  ASSUME BatchTypeOK, PreparedIsUnsent, CancelRun
  PROVE  Steady /\ BatchMoves
<1>1. CASE batch = "prepared"
  <2>1. Move({"prepared"}, "deferred", TRUE) /\ batch' = "deferred"
    BY <1>1 DEF CancelRun
  <2>2. ASSUME NEW t \in Tasks  PROVE task'[t].state = "deferred"
    <3>1. Untouched(t) /\ task[t] \in TaskRow
      BY <1>1 DEF PreparedIsUnsent, BatchTypeOK
    <3> QED  BY <2>1, <3>1 DEF Move, Untouched, TaskRow
  <2>3. TerminalBatchState(task') = "deferred"
    BY <2>2, BatchAssumption DEF TerminalBatchState
  <2>4. {"prepared"} \subseteq ActiveTaskStates /\ batch \in ActiveBatchStates
    BY <1>1 DEF ActiveTaskStates, ActiveBatchStates
  <2>5. Steady
    BY <2>1, <2>4, MoveIsSteady
  <2> QED  BY <2>1, <2>2, <2>3, <2>4, <2>5 DEF BatchMoves, TerminalStates
<1>2. CASE batch # "prepared"
  BY <1>2 DEF CancelRun, Steady, BatchMoves
<1> QED  BY <1>1, <1>2

LEMMA NextMoves ==
  ASSUME BatchTypeOK, PreparedIsUnsent, [Next]_vars
  PROVE  Steady /\ BatchMoves
<1>1. CASE UNCHANGED vars
  BY <1>1 DEF vars, rows, Steady, BatchMoves
<1>2. ASSUME NEW t \in Tasks, LeaseExpires(t)  PROVE Steady /\ BatchMoves
  BY <1>2 DEF LeaseExpires, BatchTypeOK, TaskRow, Steady, BatchMoves
<1>3. ASSUME NEW t \in Tasks, CloseRankCheckAsCancelled(t)  PROVE Steady /\ BatchMoves
  BY <1>3 DEF CloseRankCheckAsCancelled, Steady, BatchMoves
<1>4. CASE \/ DeadlinePasses \/ WorkflowEnds \/ CancelCrashes
           \/ \E m \in {"cutover", "legacy"} : ChangeMode(m)
  BY <1>4 DEF DeadlinePasses, WorkflowEnds, CancelCrashes, ChangeMode, rows, Steady, BatchMoves
<1> QED
  BY <1>1, <1>2, <1>3, <1>4, SubmitMoves, InspectMoves, PersistMoves, CleanerMoves,
     CancelMoves DEF Next

\* The batch is posted by an attempt that holds the claim, so for the first time.
LEMMA PostIsFirst ==
  ASSUME OneSender, [Next]_vars, posted' # posted
  PROVE  posted = 0 /\ posted' = 1 /\ UNCHANGED rows
<1>1. PICK s \in Submitters : SubmitPosts(s)
  BY DEF Next, vars, calls, attempts, SubmitStep, SubmitClaims, SubmitResumes, SubmitDisabled,
     SubmitIsRefused, SubmitDefers, SubmitFailsUnsent, SubmitFences, SubmitIsAmbiguous,
     SubmitPersists, Returns, InspectStep, InspectReads, InspectMarksReady, InspectFailsTasks,
     InspectWrites, PersistStep, PersisterClaims, PersisterCompletes, PersisterFails,
     PersisterFollows, PersisterReleases, PersisterFinalizes, Persisted, CleanerStep,
     CleanerReads, CleanerReconciles, CleanerFinalizes, LeaseExpires,
     CloseRankCheckAsCancelled, ChangeMode, DeadlinePasses, WorkflowEnds, CancelRun,
     CancelCrashes
<1> QED  BY <1>1 DEF SubmitPosts, OneSender, BeforePost

LEMMA PromiseInit == Init => Promise!Init
BY DEF Init, NewTask, Promise!Init, Active, ActiveTaskStates, ActiveBatchStates

LEMMA PromiseStep ==
  ASSUME BatchInv, BatchInv', [Next]_vars
  PROVE  [Promise!Next]_(Promise!promise)
<1> USE DEF BatchInv
<1> DEFINE verdict == [t \in Tasks |-> IF Active(t) THEN "open" ELSE task[t].state]
           report == IF batch \in ActiveBatchStates THEN "open" ELSE batch
<1>1. CASE posted' # posted
  <2>1. posted = 0 /\ posted' = 1 /\ UNCHANGED rows
    BY <1>1, PostIsFirst
  <2>2. verdict' = verdict /\ report' = report
    BY <2>1 DEF rows, Active
  <2> QED  BY <2>1, <2>2 DEF Promise!Next, Promise!Post
<1>2. CASE posted' = posted
  <2>1. Steady /\ BatchMoves
    BY NextMoves
  <2>2. \A t \in Tasks : /\ task[t].state \in ActiveTaskStates \cup TerminalStates
                         /\ task'[t].state \in ActiveTaskStates \cup TerminalStates
    BY DEF BatchTypeOK, TaskRow
  <2>3. \A t \in Tasks : verdict'[t] \in Promise!Verdicts \cup {"open"}
    BY <2>2 DEF Active, Promise!Verdicts, TerminalStates
  <2>4. ASSUME NEW t \in Tasks, verdict[t] # "open"  PROVE verdict'[t] = verdict[t]
    BY <2>1, <2>2, <2>4 DEF Steady, Active
  <2>5. ASSUME NEW t \in Tasks, verdict'[t] = "completed"  PROVE posted = 1
    BY <1>2, <2>5 DEF ResultsArePosted, Active
  <2>6. Promise!Decide
    BY <1>2, <2>3, <2>4, <2>5 DEF Promise!Decide
  <2>7. ASSUME batch' = batch \/ (batch \in ActiveBatchStates /\ batch' \in ActiveBatchStates)
        PROVE  Promise!StayOpen
    BY <2>7 DEF Promise!StayOpen
  <2>8. ASSUME batch \in ActiveBatchStates, \A t \in Tasks : task'[t].state \in TerminalStates,
               batch' = TerminalBatchState(task')
        PROVE  Promise!Close
    <3>1. \A t \in Tasks : verdict'[t] = task'[t].state /\ verdict'[t] # "open"
      BY <2>8 DEF Active, ActiveTaskStates, TerminalStates
    <3>2. report = "open" /\ report' = batch'
      BY <2>8 DEF TerminalBatchState, ActiveBatchStates
    <3>3. batch' \in Promise!Verdicts
      BY <2>8 DEF TerminalBatchState, Promise!Verdicts
    <3>4. batch' = "failed" <=> \E t \in Tasks : task'[t].state = "failed"
      BY <2>8 DEF TerminalBatchState
    <3>5. batch' = "completed" <=> \A t \in Tasks : task'[t].state = "completed"
      BY <2>8 DEF TerminalBatchState, TerminalStates
    <3> QED  BY <3>1, <3>2, <3>3, <3>4, <3>5 DEF Promise!Close
  <2> QED  BY <2>1, <2>6, <2>7, <2>8 DEF BatchMoves, Promise!Next
<1> QED  BY <1>1, <1>2

\* A batch is posted at most once however often its submission is retried, a
\* task keeps its first verdict whoever comes late, only posted tasks are
\* completed, and the batch ends once, with the verdicts of its tasks: the
\* whole protocol of queued-submit.ts, queued-inspect.ts, queued-results.ts and
\* queued-lifecycle.ts implements BatchPromise.
THEOREM BatchKeepsItsPromises == Spec => PromiseSpec
<1>1. Init => Promise!Init
  BY PromiseInit
<1>2. BatchInv /\ BatchInv' /\ [Next]_vars => [Promise!Next]_(Promise!promise)
  BY PromiseStep
<1> QED  BY <1>1, <1>2, InvHolds, PTL DEF Spec, PromiseSpec, Promise!Spec

-----------------------------------------------------------------------------
(* Tasks and their checks.                                                  *)

\* The cancel command closes checks only after it has marked the run.
ClosesCancelled == closing # {} => cancelled

AgreeInv == BatchTypeOK /\ TaskAndCheckAgree /\ ClosesCancelled

\* What a step may do to a task and its check: leave the check and the verdict,
\* give both the same verdict, or close one of them for the cancel command.
Stays(t) ==
  /\ check'[t] = check[t]
  /\ task'[t].state = task[t].state \/ (Active(t) /\ task'[t].state \in ActiveTaskStates)

EndsAlike(t) ==
  Active(t) /\ task'[t].state \in TerminalStates /\ check'[t] = task'[t].state

ClosedByCancel(t) ==
  /\ cancelled'
  /\ check[t] = "running" \/ (check'[t] = check[t] /\ Active(t) /\ check[t] # "completed")
  /\ check'[t] \in {"failed", check[t]}
  /\ task'[t].state = task[t].state \/ (Active(t) /\ task'[t].state = "deferred")

InStep(t) == Stays(t) \/ EndsAlike(t) \/ ClosedByCancel(t)

LEMMA AgreeKept ==
  ASSUME BatchTypeOK, TaskAndCheckAgree, cancelled => cancelled',
         \A t \in Tasks : InStep(t)
  PROVE  TaskAndCheckAgree'
<1> SUFFICES ASSUME NEW t \in Tasks
             PROVE  /\ task'[t].state = "completed" <=> check'[t] = "completed"
                    /\ Active(t)' => check'[t] = "running" \/ cancelled'
                    /\ ~Active(t)' => check'[t] = task'[t].state \/ cancelled'
  BY DEF TaskAndCheckAgree
<1>1. /\ task[t].state = "completed" <=> check[t] = "completed"
      /\ Active(t) => check[t] = "running" \/ cancelled
      /\ ~Active(t) => check[t] = task[t].state \/ cancelled
      /\ InStep(t)
  BY DEF TaskAndCheckAgree
<1>2. CASE Stays(t)
  BY <1>1, <1>2 DEF Stays, Active, ActiveTaskStates
<1>3. CASE EndsAlike(t)
  BY <1>1, <1>3 DEF EndsAlike, Active, ActiveTaskStates, TerminalStates
<1>4. CASE ClosedByCancel(t)
  BY <1>1, <1>4 DEF ClosedByCancel, Active, ActiveTaskStates
<1> QED  BY <1>1, <1>2, <1>3, <1>4 DEF InStep

LEMMA MoveStays ==
  ASSUME BatchTypeOK, NEW from \in SUBSET ActiveTaskStates, NEW state \in ActiveTaskStates,
         NEW error, Move(from, state, error), check' = check
  PROVE  \A t \in Tasks : InStep(t)
<1> SUFFICES ASSUME NEW t \in Tasks  PROVE InStep(t)
  OBVIOUS
<1>1. \/ task'[t] = task[t]
      \/ task[t].state \in from /\ task'[t].state = state
  <2>1. PICK row : row = [task[t] EXCEPT !.state = state, !.error = error]
    OBVIOUS
  <2>2. row.state = state
    BY <2>1 DEF BatchTypeOK, TaskRow
  <2>3. task'[t] = IF task[t].state \in from THEN row ELSE task[t]
    BY <2>1 DEF Move
  <2> QED  BY <2>2, <2>3
<1> QED  BY <1>1 DEF InStep, Stays, Active

LEMMA ReconcileAlike ==
  ASSUME BatchTypeOK, TaskAndCheckAgree, NEW charged, ReconcileTasks(charged)
  PROVE  \A t \in Tasks : InStep(t)
<1> SUFFICES ASSUME NEW t \in Tasks  PROVE InStep(t)
  OBVIOUS
<1>1. task[t] \in TaskRow /\ VerdictAtDeadline(t, charged) \in TerminalStates
  BY VerdictType DEF BatchTypeOK
<1>2. CASE Closable(t)
  <2>1. /\ task'[t].state = VerdictAtDeadline(t, charged)
        /\ check'[t] = VerdictAtDeadline(t, charged)
    BY <1>1, <1>2 DEF ReconcileTasks, Release, TaskRow
  <2> QED  BY <1>1, <1>2, <2>1 DEF InStep, EndsAlike, Closable
<1>3. CASE ~Closable(t)
  BY <1>3 DEF ReconcileTasks, InStep, Stays
<1> QED  BY <1>2, <1>3

LEMMA SubmitAgrees ==
  ASSUME BatchTypeOK, TaskAndCheckAgree, NEW s \in Submitters, SubmitStep(s)
  PROVE  \A t \in Tasks : InStep(t)
<1>1. Unsent \subseteq ActiveTaskStates /\ {"prepared"} \subseteq ActiveTaskStates
  BY DEF Unsent, ActiveTaskStates
<1>2. ASSUME UNCHANGED rows  PROVE \A t \in Tasks : InStep(t)
  BY <1>2 DEF rows, InStep, Stays
<1>3. ASSUME DeferBatch  PROVE \A t \in Tasks : InStep(t)
  BY <1>3, ReconcileAlike DEF DeferBatch
<1>4. ASSUME MarkAmbiguous \/ MarkDefiniteFailure  PROVE \A t \in Tasks : InStep(t)
  BY <1>1, <1>4, MoveStays DEF MarkAmbiguous, MarkDefiniteFailure, ActiveTaskStates
<1>5. CASE SubmitClaims(s)
  BY <1>1, <1>5, MoveStays DEF SubmitClaims, ActiveTaskStates
<1>6. CASE SubmitPersists(s)
  <2>1. \A t \in Tasks : StateAfter(reply[t]) \in ActiveTaskStates
    BY DEF StateAfter, ActiveTaskStates
  <2>2. ASSUME NEW t \in Tasks
        PROVE  \/ task'[t] = task[t]
               \/ task[t].state = "submitting" /\ task'[t].state = StateAfter(reply[t])
    <3>1. PICK row : row = [task[t] EXCEPT !.state = StateAfter(reply[t]),
                                           !.error = reply[t] # "accepted",
                                           !.charge = reply[t] \in {"accepted", "charged"}]
      OBVIOUS
    <3>2. task'[t] = IF task[t].state = "submitting" THEN row ELSE task[t]
      BY <1>6, <3>1, Zenon DEF SubmitPersists
    <3>3. row.state = StateAfter(reply[t])
      BY <3>1 DEF BatchTypeOK, TaskRow
    <3> QED  BY <3>2, <3>3
  <2> QED  BY <1>6, <2>1, <2>2 DEF SubmitPersists, InStep, Stays, Active, ActiveTaskStates
<1> QED
  BY <1>2, <1>3, <1>4, <1>5, <1>6
     DEF SubmitStep, SubmitResumes, SubmitDisabled, SubmitIsRefused, SubmitDefers,
         SubmitFailsUnsent, SubmitFences, SubmitPosts, SubmitIsAmbiguous

LEMMA InspectAgrees ==
  ASSUME BatchTypeOK, NEW n \in Inspectors, InspectStep(n)
  PROVE  \A t \in Tasks : InStep(t)
<1>1. Outstanding \subseteq ActiveTaskStates
  BY DEF Outstanding, ActiveTaskStates
<1>2. CASE InspectReads(n) \/ InspectWrites(n)
  BY <1>2 DEF InspectReads, InspectWrites, rows, InStep, Stays
<1>3. CASE InspectMarksReady(n)
  <2>1. ASSUME NEW t \in Tasks
        PROVE  \/ task'[t] = task[t]
               \/ task[t].state \in Outstanding /\ task'[t].state = "ready"
    <3>1. PICK row : row = [task[t] EXCEPT !.state = "ready", !.error = FALSE]
      OBVIOUS
    <3>2. row.state = "ready"
      BY <3>1 DEF BatchTypeOK, TaskRow
    <3>3. task'[t] = task[t] \/ (task[t].state \in Outstanding /\ task'[t] = row)
      BY <1>3, <3>1 DEF InspectMarksReady
    <3> QED  BY <3>2, <3>3
  <2> QED  BY <1>1, <1>3, <2>1 DEF InspectMarksReady, InStep, Stays, Active, ActiveTaskStates
<1>4. CASE InspectFailsTasks(n)
  BY <1>1, <1>4, MoveStays DEF InspectFailsTasks, ActiveTaskStates
<1> QED  BY <1>2, <1>3, <1>4 DEF InspectStep

LEMMA PersistAgrees ==
  ASSUME BatchTypeOK, TaskAndCheckAgree, NEW p \in Persisters, PersistStep(p)
  PROVE  \A t \in Tasks : InStep(t)
<1>1. \A t \in Tasks : LeaseFree(t) \/ OwnsLease(p, t) => Active(t)
  BY DEF LeaseFree, OwnsLease, Active, ActiveTaskStates
<1>2. ASSUME NEW t \in Tasks, NEW verdict \in TerminalStates,
             FollowCheck(p, t) \/ StoreVerdict(p, t, verdict)
      PROVE  \A q \in Tasks : InStep(q)
  <2>1. /\ task \in [Tasks -> TaskRow] /\ task[t] \in TaskRow
        /\ check \in [Tasks -> {"running"} \cup TerminalStates]
    BY DEF BatchTypeOK
  <2>2. \A end \in TerminalStates : Release(task[t], end).state = end
    BY <2>1 DEF Release, TaskRow
  <2>3. CASE UNCHANGED <<task, check>>
    BY <2>3 DEF InStep, Stays
  <2>4. CASE /\ OwnsLease(p, t) /\ check[t] # "running" /\ check' = check
             /\ task' = [task EXCEPT ![t] = Release(task[t], check[t])]
    <3>1. check[t] \in TerminalStates /\ Active(t)
      BY <1>1, <2>1, <2>4
    <3> QED  BY <2>1, <2>2, <2>4, <3>1 DEF InStep, Stays, EndsAlike
  <2>5. CASE /\ OwnsLease(p, t) /\ check' = [check EXCEPT ![t] = verdict]
             /\ task' = [task EXCEPT ![t] = Release(task[t], verdict)]
    BY <1>1, <2>1, <2>2, <2>5 DEF InStep, Stays, EndsAlike
  <2> QED  BY <1>2, <2>1, <2>3, <2>4, <2>5 DEF FollowCheck, StoreVerdict
<1>3. ASSUME NEW t \in Tasks, PersisterClaims(p, t)  PROVE \A q \in Tasks : InStep(q)
  <2>1. \A q \in Tasks : \/ task'[q] = task[q]
                         \/ Active(q) /\ task'[q].state = "persisting"
    BY <1>1, <1>3 DEF PersisterClaims, BatchTypeOK, TaskRow
  <2> QED  BY <1>3, <2>1 DEF PersisterClaims, InStep, Stays, ActiveTaskStates
<1>4. CASE PersisterCompletes(p)
  BY <1>4, <1>2, ClaimedWork DEF PersisterCompletes, TerminalStates
<1>5. CASE PersisterFails(p)
  BY <1>5, <1>2, ClaimedWork DEF PersisterFails, TerminalStates
<1>6. CASE PersisterFollows(p)
  BY <1>6, <1>2, ClaimedWork DEF PersisterFollows, TerminalStates
<1>7. CASE PersisterReleases(p)
  <2>1. PICK t \in Tasks : t = persister[p].task
    BY <1>7, ClaimedWork DEF PersisterReleases
  <2>2. PICK back \in {"provider_failed", "ready"} :
          task' = IF OwnsLease(p, t) THEN [task EXCEPT ![t] = Release(@, back)] ELSE task
    BY <1>7, <2>1 DEF PersisterReleases
  <2>3. \A q \in Tasks : task'[q] = task[q] \/ (Active(q) /\ task'[q].state = back)
    BY <1>1, <2>1, <2>2 DEF BatchTypeOK, TaskRow, Release
  <2> QED  BY <1>7, <2>3 DEF PersisterReleases, InStep, Stays, ActiveTaskStates
<1>8. CASE PersisterFinalizes(p)
  BY <1>8 DEF PersisterFinalizes, InStep, Stays
<1> QED  BY <1>3, <1>4, <1>5, <1>6, <1>7, <1>8 DEF PersistStep

LEMMA CleanerAgrees ==
  ASSUME BatchTypeOK, TaskAndCheckAgree, NEW c \in Cleaners, CleanerStep(c)
  PROVE  \A t \in Tasks : InStep(t)
<1>1. CASE CleanerReads(c) \/ CleanerFinalizes(c)
  BY <1>1 DEF CleanerReads, CleanerFinalizes, rows, InStep, Stays
<1>2. CASE CleanerReconciles(c)
  BY <1>2, ReconcileAlike DEF CleanerReconciles
<1> QED  BY <1>1, <1>2 DEF CleanerStep

LEMMA WorldAgrees ==
  ASSUME AgreeInv,
         \/ \E t \in Tasks : LeaseExpires(t) \/ CloseRankCheckAsCancelled(t)
         \/ \E m \in {"cutover", "legacy"} : ChangeMode(m)
         \/ DeadlinePasses \/ WorkflowEnds \/ CancelRun \/ CancelCrashes
         \/ UNCHANGED vars
  PROVE  \A t \in Tasks : InStep(t)
<1>1. BatchTypeOK /\ TaskAndCheckAgree /\ ClosesCancelled
  BY DEF AgreeInv
<1>2. ASSUME NEW t \in Tasks, LeaseExpires(t)  PROVE \A q \in Tasks : InStep(q)
  BY <1>1, <1>2 DEF LeaseExpires, BatchTypeOK, TaskRow, InStep, Stays
<1>3. ASSUME NEW t \in Tasks, CloseRankCheckAsCancelled(t)  PROVE \A q \in Tasks : InStep(q)
  <2>1. task' = task /\ cancelled'
    BY <1>1, <1>3 DEF CloseRankCheckAsCancelled, ClosesCancelled
  <2>2. \A q \in Tasks : \/ check'[q] = check[q]
                         \/ check[q] = "running" /\ check'[q] = "failed"
    BY <1>1, <1>3 DEF CloseRankCheckAsCancelled, BatchTypeOK
  <2> QED  BY <2>1, <2>2 DEF InStep, Stays, ClosedByCancel
<1>4. CASE CancelRun
  <2>1. cancelled' /\ check' = check
    BY <1>4 DEF CancelRun
  <2>2. ASSUME NEW t \in Tasks
        PROVE  \/ task'[t].state = task[t].state
               \/ task[t].state = "prepared" /\ task'[t].state = "deferred"
    <3>1. PICK row : row = [task[t] EXCEPT !.state = "deferred", !.error = TRUE]
      OBVIOUS
    <3>2. row.state = "deferred"
      BY <1>1, <3>1 DEF BatchTypeOK, TaskRow
    <3>3. task'[t] = task[t] \/ (task[t].state = "prepared" /\ task'[t] = row)
      BY <1>4, <3>1 DEF CancelRun, Move
    <3> QED  BY <3>2, <3>3
  <2>3. \A t \in Tasks : task[t].state = "prepared" => Active(t) /\ check[t] # "completed"
    BY <1>1 DEF TaskAndCheckAgree, Active, ActiveTaskStates
  <2> QED  BY <2>1, <2>2, <2>3 DEF InStep, Stays, ClosedByCancel
<1>5. CASE \/ DeadlinePasses \/ WorkflowEnds \/ CancelCrashes \/ UNCHANGED vars
           \/ \E m \in {"cutover", "legacy"} : ChangeMode(m)
  BY <1>5 DEF DeadlinePasses, WorkflowEnds, CancelCrashes, ChangeMode, vars, rows, InStep, Stays
<1> QED  BY <1>2, <1>3, <1>4, <1>5

\* Only the cancel command gives itself checks to close.
LEMMA CancelMarks ==
  ASSUME BatchTypeOK, ClosesCancelled, [Next]_vars
  PROVE  ClosesCancelled' /\ (cancelled => cancelled')
<1>1. CASE CancelRun
  BY <1>1 DEF CancelRun, ClosesCancelled
<1>2. CASE CancelCrashes \/ \E t \in Tasks : CloseRankCheckAsCancelled(t)
  BY <1>2 DEF CancelCrashes, CloseRankCheckAsCancelled, ClosesCancelled
<1>3. CASE UNCHANGED <<closing, cancelled>>
  BY <1>3 DEF ClosesCancelled
<1> QED
  BY <1>1, <1>2, <1>3
     DEF Next, vars, calls, attempts, world, SubmitStep, SubmitClaims, SubmitResumes,
         SubmitDisabled, SubmitIsRefused, SubmitDefers, SubmitFailsUnsent, SubmitFences,
         SubmitIsAmbiguous, SubmitPosts, SubmitPersists, Returns, InspectStep, InspectReads,
         InspectMarksReady, InspectFailsTasks, InspectWrites, PersistStep, PersisterClaims,
         PersisterCompletes, PersisterFails, PersisterFollows, PersisterReleases,
         PersisterFinalizes, Persisted, CleanerStep, CleanerReads, CleanerReconciles,
         CleanerFinalizes, LeaseExpires, ChangeMode, DeadlinePasses, WorkflowEnds

LEMMA AgreeStep == AgreeInv /\ [Next]_vars => AgreeInv'
<1> SUFFICES ASSUME AgreeInv, [Next]_vars  PROVE AgreeInv'
  OBVIOUS
<1>1. BatchTypeOK' /\ ClosesCancelled' /\ (cancelled => cancelled')
  BY TypeStep, CancelMarks DEF AgreeInv
<1>2. \A t \in Tasks : InStep(t)
  BY SubmitAgrees, InspectAgrees, PersistAgrees, CleanerAgrees, WorldAgrees DEF AgreeInv, Next
<1> QED  BY <1>1, <1>2, AgreeKept DEF AgreeInv

LEMMA AgreeInit == Init => AgreeInv
<1> SUFFICES ASSUME Init  PROVE AgreeInv
  OBVIOUS
<1>1. \A t \in Tasks : task[t].state = "prepared" /\ check[t] = "running"
  BY DEF Init, NewTask
<1>2. TaskAndCheckAgree /\ ClosesCancelled
  BY <1>1 DEF TaskAndCheckAgree, Active, ActiveTaskStates, Init, ClosesCancelled
<1> QED  BY <1>2, TypeInit DEF AgreeInv

\* A task and its rank check have the same verdict whoever writes it, early or
\* late: only the cancel command closes one of them alone, and only with the
\* mark of the cancelled run (queued-persistence-lease.ts, queued-lifecycle.ts,
\* cancel.ts).
THEOREM TasksAndChecksAgree == Spec => []TaskAndCheckAgree
<1>1. AgreeInv => TaskAndCheckAgree
  BY DEF AgreeInv
<1> QED  BY <1>1, AgreeInit, AgreeStep, PTL DEF Spec

=============================================================================

# bisibility in TLA+: rank-check runs and the paid work around them

bisibility checks how web sites rank for keywords. A check costs money at a
search provider, runs on workers that may vanish, and is driven from five
sides at once: people who start and cancel runs, a planner, Temporal
workflows, a dispatcher with queued batches, and maintenance sweeps. All of
them meet in a handful of database rows. This directory models those rows and
everything that writes them, the queued batch in full, the planner that turns
schedules into runs, and four services built on the same ideas (leases,
fences, evidence): the journal of paid requests, alert digests, local
monitors, and the prompt tracker. It model-checks them on small instances and proves the most important
facts for instances of every size.

Paths below are relative to the root of the repository; `rank-check/` stands
for `lib/rank-check/`, `temporal/` for `lib/temporal/`.

Contents: [1 The system](#1-the-system) · [2 The modules](#2-the-modules) ·
[3 The runs](#3-the-runs) · [4 Fairness](#4-fairness) ·
[5 The proofs](#5-the-proofs) · [6 Abstractions](#6-abstractions) ·
[7 Findings](#7-findings) · [8 Not modelled](#8-not-modelled)

## 1 The system

### 1.1 Parts that are modelled, whole or in part

| part | state | operations | hard behaviour |
|---|---|---|---|
| **Run vocabulary** `rank-check/runs/{contract,counts,status,terminal-state,finalize}.ts` | none: functions of a run row and its items | count, outcome, normalise, finalise | the outcome is a chain of comparisons on counters; the finaliser is a compare-and-set on a status read earlier |
| **Manual execution** `temporal/workflows.ts`, `rank-check-run-workflows.ts`, `rank-check-activities.ts`, `rank-check-activity-persistence.ts`, `rank-check-busy-keyword.ts`, `rank-check/runs/items.ts`, `runner-persistence*.ts`, `measurement-definitions/worker-claim.ts` | item row, check row with its attempt counter, workflow position | start, create the check, take the paid call, send, keep the result, persist, fail, discard | Temporal retries an activity while the old attempt still executes; the fence is one row |
| **Dispatcher** `rank-check/items-claim*.ts`, `dispatcher-constants.ts` | claim attempts and lease of an item | claim, reclaim, block, cancel what cannot run | leases expire while the claimer still works |
| **Queued batches** `rank-check/queued-*.ts`, `temporal/queued-rank-check-workflow.ts` | batch and task rows, leases, scheduler mode | prepare, submit, inspect, persist, settle, defer, purge | the answer to a POST is lost; five kinds of actors write the same rows, each from what it read earlier |
| **Cancellation** `rank-check/runs/cancel.ts`, `cancel-run.ts` | the list of running checks a command read | read, commit, close each check | three separate steps, each able to see another world; the process may die between them |
| **Reconciler and stale sweep** `rank-check/runs/reconcile.ts`, `stale-checks.ts` | what one pass read of a run | list, count, write | writes from a read that is two statements old |
| **Recovery** `rank-check/recovery-*.ts` | a kept provider result | keep, restore, lose | rewrites finished items and finished runs |
| **Planner, launch** `rank-check/planner/{materialize,launch-due,skip-run-now}.ts`, `runs/{selection,launch-write}.ts` | planned and blocked runs | launch, block, expire, skip | which keywords are free at the moment of the launch |
| **Planner, occurrences** `rank-check/planner/{plan,persist-occurrence,occurrence-replacement,empty-schedule,complete-without-items,queued-launch,reconcile-schedule,reconcile-scheduled-items}.ts`, `rank-check/schedules/{service,archive,service-membership}.ts` | the runs of one occurrence of a schedule, what a pass or a launch has read | plan, replace, retire, launch, run now, skip, edit the schedule, move its members | passes, launches, commands and edits of the schedule overlap; each acts on what it read before its transaction |
| **Paid requests** `lib/provider-usage/request-*.ts`, `lib/metering/` | evidence and operation of a request, what a process has in flight and held against its limit | begin, fence, send, settle, cancel, recover | a process dies with a request whose cost nobody knows; two processes work on one piece of work |
| **Alert digests** `lib/alerts/digest*.ts`, `temporal/alert-delivery-workflows.ts` | delivery state and owner of alerts, a send row per alert and destination | flush, claim, deliver, finish, recover, release | attempts the workflow no longer waits for; claims that are recovered while somebody sends |
| **Local monitors** `lib/local-monitor-worker/`, `lib/local-monitoring-store/` | job lease, submission record, paid operation, owner row of a target | claim, admit, send once, continue, reconcile, collect, release, conclude | two executions of one job; four leases with their own expiry |
| **Prompt tracker** `lib/ai-tracking/{execution,stores,reconciliation,providers}/`, `temporal/ai-tracking-*.ts` | run and sample rows, the journal entry of each sample | claim, admit, journal, start, post, collect, settle, persist, cancel, retry | executions of one sample overlap and start from the row they find; an answer may be lost after the purchase |

How they interact: there are no messages between the parts of a run, only
rows. The run row is locked by most settling transactions, but the finaliser
is also called with a status that was read without the lock; the partial
unique index `rank_check_run_items_keywordId_running_key` is the only thing
that keeps two runs from checking one keyword at once; the attempt counter on
the check row is the only thing that keeps two attempts of one activity from
paying twice. Planning, the persist step and edits of a schedule are
serialised by an advisory lock per project, but what they work with was read
before it; the key of an occurrence is what keeps two passes from planning it
twice. A queued batch is joined to its run by its checks and by the
cancel command. Paid requests, digests, monitors and the prompt tracker share no
rows with runs or with each other (a monitor has a paid operation of its own per
target, a sample of the tracker one entry in a journal).

What makes them correct: a target is paid for at most once and gets one
verdict; a run is closed once, over settled targets only, with the counters
and the outcome its targets call for; an occurrence is worked on by one run at
a time, is planned again only if nothing of it was attempted, and never for a
schedule that is paused; every launched run and every batch ends;
what may have been sent is never written off as free, sent again or forgotten.

### 1.2 Parts that are not modelled

| part | what it keeps and does | why it is not here |
|---|---|---|
| Recurrence dispatcher (`rank-check/dispatcher*.ts`) | due time per keyword, without runs | used only while the planner does not own automatic checks |
| Provider calls (`rank-check/fallback-chain.ts`, `runner.ts`) | the order of providers in one call | sequential; seen by the runs as one call, by the journal as requests |
| Worker intents (`temporal/worker-intent-processor.ts`, `lib/worker-intents/`) | one sweep at a time per process | a loop over independent sweeps |
| Provider comparisons | journalled paid samples | their paid calls are those of PaidRequests |
| Instance import jobs (`lib/migration/job-service.ts`) | one job row, a table of transitions | one read and one write; the race between them is named as a hazard |
| Traffic sync, backlinks | one compare-and-set claim each | single steps |
| Search insights, site audit, summaries, achievements, ops outbox, data migrations, raw retention | imports, reports, mails | I/O and data; little control and no state shared with the parts above |
| Web app, API, MCP, realtime | – | no state machine of their own: their commands are actions of the models |

## 2 The modules

```
RunContract ────────────┬────────────── RunLedger  (abstract specification)
  vocabulary, outcome   │                   ▲ INSTANCE … WITH
                        ▼                   │
                 RankCheckRuns ──── RankCheckRunsLedger ── MCRankCheckRuns
                   rows and actors      refinement           instances
                        │                   │
             RankCheckRunsProofs ── RankCheckRunsTargets
             EveryOutcomeExplained   ItemsMatchTheirChecks, VerdictsAreFinal,
             TypeCorrect             FreeCancelsBoughtNothing, FinishedRunsStay,
             FinishedRunsAreSettled  ReportsAreExplained, CountersAreKept,
             NothingIsPaidTwice      RunsKeepTheLedger
             KeywordsAreCheckedOnce

BatchPromise ◄── INSTANCE … WITH ── QueuedBatch ── MCQueuedBatch   instances
(abstract)                               └─ QueuedBatchProofs
                                              BatchKeepsItsPromises,
                                              TasksAndChecksAgree

PaidRequests ────────────────────────────────┐
DigestDelivery ── DigestDeliveryProofs ──────┤
MonitorLease ──── MonitorLeaseProofs ────────┼── MCServices ── ServicesProofs
AiTracking ────── AiTrackingProofs ──────────┤    instances
Occurrences ───── OccurrencesProofs ─────────┘
```


### 2.1 Runs

* **RunContract** – statuses, counters, `OutcomeFromCounts`,
  `NormalizeTerminalRunState`, `FinalizeRankCheckRun`, under the source's
  names. `Report` is the reference: the outcome as a function of the set of
  verdicts, with no counters and no chain of comparisons, as the code's test
  has it. `GuideReport` is the guide's table. They differ about cancelled
  targets (finding 6), and `AcceptedReports` has both. An item the run did not
  materialise has the status `Absent`: there is no row.
* **RankCheckRuns** – the rows and every actor. One action is one transaction,
  or one statement where the code runs outside a transaction.

  | variable | in the code |
  |---|---|
  | `run[r]` | `rank_check_runs`: status, outcome, the five stored counters |
  | `item[i]` | `rank_check_run_items`: status, blocked reason, claim attempts, claim lease |
  | `check[i]` | `rank_checks` linked to the item: status, and the attempt counter with the execution token as one fence |
  | `task[i]` | the task of the queued batch that holds the check |
  | `flow[i]`, `attempt[i][n]` | the item's `rankCheckWorkflow` and each attempt of `runRankCheckActivity`, also those nobody waits for |
  | `sends[i]` | history: calls to the provider |
  | `evidence[i]` | a retained result |
  | `cancel[r]` | a cancel command between its read, its commit and its closing loop |
  | `sweep` | the reconciler between its three statements |
  | `runnable[k]` | keyword not archived, market active |

  The actions stand under their actors: `PlannerStep`, `WorkflowStep`,
  `AttemptStep`, `DispatcherStep`, `BatchStep`, `MaintenanceStep`,
  `CancelStep`:

  | actor | actions | code |
  |---|---|---|
  | planner | launch, block, expire, skip; archiving a keyword | `materializePlannedRun`, `skipPlannedRun` |
  | item workflow | start, create or hit a busy keyword, defer or retry, fail, discard, give up | `rankCheckWorkflow`, `createRunningRankCheckActivity`, `deferRunItemForBusyKeyword`, `failRankCheckActivity`, `discardRankCheckActivity` |
  | attempt | stop an unrunnable keyword, take or lose the paid call, send, keep, persist, throw, time out | `runRankCheckActivity`, `claimPaidCall`, `guardPaidCall`, `persistRankCheck` |
  | dispatcher | claim, reclaim, block, cancel the unrunnable; a lease runs out | `claimDueRankCheckItems` |
  | batch worker | prepare, prepare deferred, submit, keep, persist, defer | `prepareQueuedRankCheckBatch`, `claimQueuedSubmission`, `persistTask`, `deferQueuedRankCheckBatch` |
  | maintenance | stale check, purge, restore or lose a result, the reconciler's list, count and write | `markStaleRunningChecks`, `purgeExpiredQueuedRankCheckBatches`, `restoreRetainedRankResult`, `reconcileRankCheckRuns` |
  | cancel command | read, commit, close one check, crash | `cancelRankCheckRunCommand`, `cancelRankCheckRun`, `closeRankCheckAsCancelled` |

  Values that the code reads in one step and uses in another are
  variables (`cancel[r].list`, `sweep`), which is where its races live.
* **RunLedger** – what runs promise, without workers, leases, batches or
  commands: targets get one verdict, are paid for at most once, corrected only
  to `completed` and only if paid for; a run is closed over settled targets
  with a report they call for (one of `AcceptedReports`).
* **RankCheckRunsLedger** – the refinement mapping; `LedgerSpec` says that
  every behaviour of `RankCheckRuns` is one of the ledger.
* **MCRankCheckRuns** – instances for TLC.

### 2.2 Queued batches

* **QueuedBatch** – one batch from the moment it is prepared. In RankCheckRuns
  a batch is one task and its life between claim and result is the state
  `submitted`; here it has all its tasks and states. Preparing and purging a
  batch stay in RankCheckRuns, where the items and runs are.

  | variable | in the code |
  |---|---|
  | `batch`, `task[t]` | `queued_rank_check_batches`, `queued_rank_check_tasks`: state, stored error, known charge, lease owner and whether the lease is live |
  | `check[t]` | status of the rank check of the task |
  | `submitter[s]` | attempts of the submission activity (`queued-submit*.ts`), from the claim over the fence to the answer; a refusal is recorded before it is acted upon |
  | `inspector[n]` | attempts of the inspection activity (`queued-inspect.ts`) with the batch state and the outstanding tasks they read |
  | `persister[p]` | attempts of the result activity (`queued-persist*.ts`, `queued-persistence-lease.ts`) with the task as it was at the claim |
  | `cleaner[c]` | executions of `deferQueuedRankCheckBatch` (`queued-lifecycle.ts`) with the charges they read before any lock |
  | `flow` | the phase of `queuedRankCheckWorkflow` |
  | `mode`, `expired` | the scheduler mode of the deployment, the queue deadline |
  | `cancelled`, `closing` | the cancel command and the checks it has still to close |
  | `taken`, `reply`, `posted` | the provider: the tasks it took, its answer, how often it was sent the batch |

* **BatchPromise** – one POST; one verdict per task, kept; completed only
  after the POST; the batch closed once with the worst verdict. `PromiseSpec`
  is the refinement: a task is open while its state is active.
* **MCQueuedBatch** – instances for TLC.

### 2.3 Occurrences

* **Occurrences** – the runs that one occurrence of a calendar schedule can
  have, one after the other. In RankCheckRuns a planned run is there from the
  start and is launched in one step; here it is planned, replaced and retired,
  and a launch reads first and writes later. What happens to a claimed target
  is RankCheckRuns'; here it is `claimed` and then `done`.

  | variable | in the code |
  |---|---|
  | `schedule`, `member` | `check_schedules`: enabled and not archived, time of day, the time zone of the project; the keywords assigned to it |
  | `active`, `busy` | keywords that may be checked, keywords in progress in runs of others |
  | `row[r]` | a run of the occurrence: status, `plannedFor` (`at`), `createdAt` (`born`), items, requested keywords, launched, started, the reason it ended with |
  | `plan` | a pass of `planRankCheckRuns` between its read, its first transaction and `persistOccurrence` |
  | `launch[l]` | a launch between its reads and its transaction, or between the transaction that found the allocation exhausted and the one that blocks the run |
  | `sweep` | the reconciler between its read of a run and `finalizeRankCheckRun` |
  | `now`, `edits` | the clock; a count of changes that bounds behaviours and tells whether anything changed since a run was brought forward |

  `PlanRead`, `PlanRetire`, `PlanPersist` are a pass; `Replaceable` is the
  decision of `occurrence-replacement.ts`, `Retire` and `Reconciled` those of
  `reconcile-scheduled-items.ts` and `reconcile-schedule.ts`. `LaunchRead` and
  the actions after it are `materializePlannedRun` with its outcomes: resume,
  expire, complete without items, try again later, launch, block.

### 2.4 Services

* **PaidRequests** – `lib/provider-usage/request-journal.ts`,
  `request-cost-limit.ts` and `lib/metering/` for requests made with the
  customer's own key. `row[r]` is the evidence row with its operation in the
  meter (both change in one transaction), `call[r]` the position of the process
  that began the request; `inFlight`, `held`, `spent` and `unsure` are the
  fields of a journal object, one journal per process, all working on one
  correlation. `Begin`, `Fence`, `Send`, `Withhold`, `Settle`, `Cancel` and
  `Forget` are the stages of one request; `Crash`, `LeaseExpires`,
  `OtherCancels` and `Recover` come from outside.
* **DigestDelivery** – `alert[a]` is the delivery state with the claim token,
  the mark of a started submission and the age of the claim; `send[a][d]` the
  row of `alert_digest_sends`; `pass[p]`, `job[p]` and `attempt[p][d][k]` a
  flush pass, the workflow it starts and the attempts of its send activity,
  also those nobody waits for. `Refusal` and `AttemptFinishes` are `begin` and
  `finish` of `digest-send-fence.ts`; `PassRecovers` is
  `recoverStaleDigestClaims`, `Finalize` includes `releaseStaleDigest`;
  `MayReturn` is the database trigger `fence_digest_reclaim`.
* **MonitorLease** – `job` is the launch intent with its lease, `rec[t]` the
  submission record, `op[t]` the paid operation, `owner[t]` the row that keeps
  a target from being measured again, with its version. The generation of the
  job lease is the identity of its holder. `Admit` … `Settle` is the execution that sends, `Continue` …
  `Conclude` one that continues a retained run; `worker[w].saw` is the version
  a continuation lease compares.
* **MCServices** – instances of these three, of Occurrences and of AiTracking for TLC. It
  extends PaidRequests, so that its properties are checked under their own
  names, and instantiates the others. The models share no state, so `focus`
  picks the instance that moves and the others stay where they start: the
  states add up instead of multiplying. Digests have three foci: an alert whose
  send is attempted twice (`Retried`), two destinations, two alerts.
  Occurrences have two: two keywords whose schedule changes twice
  (`TwoKeywords`), and two launches of one keyword with two times of day
  (`TwoLaunches`).

### 2.5 Prompt tracker

* **AiTracking** – one run and its samples. A sample is bought with one POST.
  The answer to the POST of a live endpoint is the result; that of a queued one
  names a task that is collected later.

  | variable | in the code |
  |---|---|
  | `run`, `sample[s]` | `aiTrackingRun.state`; `aiTrackingSample`: dispatch state, whether it has a task, its cost receipt, what was measured |
  | `ledger[s]` | the evidence of the sample's paid request with its operation, and whether its transport is fenced (PaidRequests, seen from one sample) |
  | `exec[w]` | an execution of `executeTrackingSample`: where it stands, and what it read or was answered |
  | `expired` | the deadline of the run |
  | `posted`, `told` | history: samples that were posted, samples whose answer an execution has read |

  `Load` is `ports.load` with the branches on the row (`Entry`); each action
  after it is one transaction, one call to the provider or one read
  that decides. `MayMove` and `MayPersist` are the compare-and-sets of
  `stores/samples.ts`; where they fail, the execution ends, as in the code.
  The workflow and the sweep of intents do nothing but start executions, so
  they are `Load`; an activity that goes on after its timeout is a second
  worker.

A few operators of the modules are variants of the operator next to them with
one fault that a change could introduce (`ClaimableAgain`: the fence does not
look at the attempt counter; `LeaseNeverRunsOut`: only free tasks are claimed).
No action uses them. They document what each property is sensitive to: put in
place of the original, the property fails.

## 3 The runs

Every run is small on purpose; the sizes are those at which the races need no
more actors. Counts are distinct states.

| run | instance | properties | what it shows |
|---|---|---|---|
| RunsSolo (132 thousand) | 1 manual item, 2 attempts, 2 cancel commands, `FairSpec` | `TypeOK`, `ItemMatchesCheck`, `PaidOnce`, `FreeCancelIsUnpaid`, `OneVerdict`, `LedgerSpec`, `LaunchedRunEnds` | overlapping attempts, lost workers, cancel, crash and recovery on one target, which ends |
| RunsManual (948 thousand) | 2 manual items, 1 attempt each, 1 cancel | `TerminalRunSettled`, `CountersMatchItems`, `OutcomesExplained`, `TerminalRunFrozen` | two settlements, a command and the reconciler race for the run row |
| RunsPlanned (1.0 million) | 1 planned run of 2 items, 1 cancel, crash, pause | `TerminalRunSettled`, `CountersMatchItems`, `OneVerdict`, `LedgerSpec` | launch, block, claims, batches, purge, recovery |
| RunsShared (104 thousand) | a scheduled run, cancelled up to twice, and a manual run for the same keyword, cancelled at the start; `SharedSpec`, which has the fairness of `FairSpec` | `OneRunningItemPerKeyword`, `ItemMatchesCheck`, `PaidOnce`, `LaunchedRunEnds` | two runs contend for a keyword, and the launched run ends, even after a cancel that missed a batch |
| BatchEnds (959 thousand) | 1 task, 2 submitters, 2 persisters, 1 inspector, 1 cleaner, 2 disturbances, `FairSpec` | `BatchTypeOK`, `PromiseSpec`, `TaskAndCheckAgree`, `BatchEnds` | overlapping submissions, polling, results and cleanup implement the promise, leases run out under two persisters, and the batch ends |
| Services (3.1 million) | see below | `SentOnce`, `PendingIsUnsent`, `DigestedArrived`, `WrittenOffIsUnsent`, `OneJournalUnresolved`, `WithinLimit`, `FreedWhenProven`, `CompleteIsFreed`, `WorkIsNotRepeated`, `PausedIsQuiet`, `FinishedStays`, `FreeIsUnsent`, `RetryIsSafe`, `RunMatchesSamples` | digests are sent once, requests only after their fence and within their limit, targets freed only when nothing is open; an occurrence is planned again only if nothing of it was attempted, a paused schedule starts nothing, an ended run stays ended; a tracked sample that ended as free was not sent and nobody is about to, a tracking run that may be repeated owes nothing, run and samples agree |
| GuideOutcome | as RunsManual | `GuideIsFollowed` is violated | finding 6 |
| CancelStuck | 1 scheduled item | `CancellingAwaitsWork` is violated | finding 1 |
| KnownCharge | 1 task, no disturbance | `KnownChargeIsRecorded` is violated | finding 2 |
| UnsentStuck | as Services | `UnsentIsReleased` is violated | finding 3 |
| RunNowUndone | as Services | `RunNowKept` is violated | finding 4 |
| AnswerLost | as Services, no execution breaks off | `AnswerIsKept` is violated | finding 5 |

The bounds and why they are enough:

* `MaxTries` – the source has five attempts for the paid activity; with two,
  one attempt can hold the fence while the other loses it or is started after
  it; a third would meet the same row values. The proofs have no bound.
* `MaxClaims` = 2 (3 in the source): a first claim, a reclaim, and the block
  after the last.
* `MaxCancels` bounds commands per run: one that commits while another still
  closes its list, and one that repeats a half-finished cancel. It is not a
  constant of the source.
* Two items are the fewest for which "the last one settled" is a race; two
  runs on one keyword are the fewest that contend for it. In RunsShared the
  manual run can be cancelled only before its work starts, which leaves the
  keyword to the scheduled one; a cancel in the middle of a manual run is
  RunsSolo's and RunsManual's.
* `Faults` switches faults on: `create_lost` (every attempt to create the
  check fails), `cancel_crash` (the web process dies between commit and
  closing), `keyword_paused`. Lost and overlapping attempts, expired leases,
  expired evidence and purges are always on. The live runs leave
  `create_lost` out: with it a manual item can stay queued with no workflow
  left to start it, which is what the code does (see the hazard at
  `rank-check/runs/items.ts:132`). `Faults` of QueuedBatch adds the changes of
  the scheduler mode, a cancelled workflow and a removed connection.
* `MaxDisturbances` bounds how many of cancel, change of mode and end of the
  workflow meet in one behaviour of a batch: any two of them, with one task. It
  is not a constant of the source, and the proof of `BatchKeepsItsPromises`
  holds for every value and any number of tasks. The actors of a batch return
  to work after each pass, so one inspector and one cleaner are any number of
  them in sequence; two submitters are the attempt that posts and the one
  Temporal starts beside it; two persisters are the fewest that contend for a
  lease.
* MCServices: two passes (one whose claim is recovered and one that takes the
  alert over) with two attempts of one send, two destinations or two alerts;
  two processes with three requests and a limit of two, so that the limit
  refuses the third; one target under two executions of a monitor job. A
  second target only repeats the first, whose rows are its own: what two
  targets share is the verdict on the job, which is a quantifier over them.
  The requests are interchangeable, so they are begun in one order.
* Occurrences: two rows, a run and its replacement, since the rule for a third
  looks only at the second; a clock of two instants, before and after the
  occurrence is due, and an `Interval` after which it has elapsed. `TwoKeywords`
  has two changes around the schedule, so that a schedule can be paused and
  resumed, or a member lost and regained, between the read and the write of a
  pass, and two keywords, so that a run can be done with one target and not the
  other. `TwoLaunches` has the planner and the sweep of intents launch one run,
  and two times of day, so that an edit can move the occurrence. The theorems
  about it hold for any number of all of these.
* The prompt tracker has one sample of each kind, whose answers come with the
  POST or are collected; samples share nothing but the run. Two executions are
  one that was given up and one that goes on; either may break off
  (`TrackerFaults` = 1). AnswerLost has `TrackerFaults` = 0: that the answer
  is lost there is nobody's death.
* Deadlock is not checked where work comes to an end: when every run or batch
  is over and every attempt ended, the system rightly stops.

## 4 Fairness

`Fairness` of RankCheckRuns asks only for what the deployment keeps running:
Temporal's progress of a started workflow up to the paid call, the
dispatcher's passes, expiry of leases (time), the deadline sweep that defers
active batches, the stale-check sweep, the purge of batches that cost nothing,
the commit and the closing loop of a cancel command that did not die, and the
reconciler. Weak fairness is enough everywhere but for `SweepList(r)`: the
reconciler is one process that lists all unfinished runs in every pass, so a
run that is unfinished again and again is listed (strong fairness).

There is no fairness for provider calls, persisting, failing or discarding:
a worker may vanish at each of these points, and `LaunchedRunEnds` says that
the sweeps end the run all the same.

`FairSpec` of QueuedBatch asks for less: the queue deadline passes, leases run
out, and the maintenance workflow, which runs on a schedule
(`queued-deadline-maintenance.ts`), works on a batch whose deadline has
passed. The batch workflow, its activities and the provider may all stop;
`BatchEnds` holds nevertheless.

Services, occurrences and the prompt tracker have no liveness property. The
services and the tracker promise none that their code keeps: a digest may end
as a dead letter, a monitor job as blocked, a sample in doubt, and what nobody
can prove unsent stays held for a human. Finding 3
is the safety statement closest to one. An occurrence may be skipped, blocked
until it has elapsed, or lose its schedule; that a launched run ends is
`LaunchedRunEnds`.

## 5 The proofs

Every invariant, every action property and both refinements that a passing run
checks are proved, for every value of the constants. Only liveness is left to
TLC.

Assumptions: `ContractAssumption` (the items are finitely many, each belongs
to a run), `RunsAssumption` (there is a run; keywords of items; planned
runs are scheduled; positive limits) and `BatchAssumption` (finitely many
tasks, at least one; nobody is called `NoOwner`). The modules that MCServices
instantiates have no ASSUME; what their theorems suppose is in the theorems:
`ChargesKeepLimit` finitely many requests and a natural limit; the theorems
about occurrences `Sizes` (run rows have positive numbers, times and the bound
on edits are natural); those about digests `Tokens` (the claim token of a pass
is not the absence of one) and a natural number of attempts; those about the
prompt tracker `Sampled` (a run has a sample: `planTrackingRun`,
`lib/ai-tracking/stores/runs.ts:161`, records a run without prompts as
skipped). MonitorLease needs nothing. Nothing bounds the number of runs,
items, attempts, claims, commands, tasks, actors, alerts, targets, samples,
processes, launches or keywords. No fairness is used.

* **EveryOutcomeExplained** (`RankCheckRunsProofs`): for every set of items and
  every combination of statuses, what the finaliser stores reads as
  `Report(Verdicts)`. The lemmas say what counters being zero or equal to the
  total mean for the set of verdicts; the proof then is one case per
  comparison of `outcomeFromCounts`.
* **TypeCorrect** (`RankCheckRunsProofs`): `Spec => []TypeOK`. `TypeOK` is
  inductive. The effect lemmas (`FinalizedRow`, `SettledItem`,
  `AppliedTransition`, `Launched`, `RecoveredItem`, `SweptRun`,
  `CommittedCancel`) say what the shared operators of the specification
  return; there is one lemma per actor and one step per action.
* **FinishedRunsAreSettled** (`RankCheckRunsProofs`):
  `Spec => []TerminalRunSettled`. The property is not inductive: the
  reconciler closes a run by item statuses that are two statements old, and
  `skipPlannedRun` and the cancel of a planned run do not look at items at
  all. `SettledInv` adds that open items lie in launched, unfinished runs
  (`OpenItemsInActiveRuns`) and that every item open now was open when the
  reconciler counted (`SweepReadsHold`). All steps but the launch and the
  reconciler's are `Quiet`: no item opens, no run returns to the planner, and
  a run that stops being active has no open item. `QuietSteps` shows once that
  a quiet step keeps the invariant; each actor's lemma only shows its steps
  quiet.
* **NothingIsPaidTwice** (`RankCheckRunsProofs`): `Spec => []PaidOnce`. The
  fence is reset by the stale sweep and by a discarded check, so "attempts is
  1 once something was sent" is false. `PaidInv` says, item by item, that the
  two engines never meet (`OneEngine`), that nothing was tried, sent or kept
  before a check was linked (`NothingBeforeLink`), and that whoever holds the
  right to the call, an attempt or a prepared batch, is alone with it and has
  sent nothing (`OneHolder`); a check that is closed is never running again
  (`NoReturn`). Steps that bring an item no nearer to a call are `Calm`.
* **KeywordsAreCheckedOnce** (`RankCheckRunsProofs`):
  `Spec => []OneRunningItemPerKeyword`. Inductive together with `TypeOK`:
  two actions start an item (`CreateRunningRankCheck`, `Claim`), both guarded
  by `~KeywordBusy(i)` in the same transaction (`StartsAlone`); all other
  steps start nothing (`NothingStarts`).
* **ItemsMatchTheirChecks**, **FreeCancelsBoughtNothing**
  (`RankCheckRunsTargets`): `Spec => []ItemMatchesCheck` and
  `Spec => []FreeCancelIsUnpaid`. Beyond `PaidInv`, `TargetInv` says of every
  item that what is submitted or kept for it was sent (`SentFirst`) and that a
  cancelled item is one for which nothing was bought and nobody can buy any
  more, or belongs to a cancelled run and has no reason of its own
  (`Excused`); and of cancel commands that they close checks of their own run,
  once it is cancelled (`CommandsKnow`). `Excused` is what keeps a restored
  result from completing a check whose item stays cancelled. A cancelled run
  stays cancelled (`CancelsStay`), which is shown actor by actor first.
* **VerdictsAreFinal**, **FinishedRunsStay** (`RankCheckRunsTargets`):
  `Spec => OneVerdict` and `Spec => TerminalRunFrozen`. For the verdicts, a
  lease ends with the verdict (`Released`), so no claim expires on a settled
  item, and every step keeps verdicts (`VerdictKept`) or restores one
  (`VerdictRestored`). For the runs, an item is settled while it is open, so
  by `SettledInv` its run is not over; the finaliser's compare-and-set misses
  a finished row; the status that the reconciler holds is not terminal
  (`SweepActive`); and a row recomputed with a completed item is not a
  cancelled one (`RestoredRow`).
* **ReportsAreExplained**, **CountersAreKept** (`RankCheckRunsTargets`):
  `Spec => []OutcomesExplained` and `Spec => []CountersMatchItems`.
  `OutcomesExplained` accepts the code's report and the guide's, which are one
  unless other verdicts stand beside cancelled ones
  (`GuideAgreesUnlessCancelled`). EveryOutcomeExplained is about what a finaliser writes; these are about what
  stands in the row afterwards. `ReportInv` says that a run that is over was
  told what its items say (`RunTold`), that counters never fall behind the
  items (`AtLeast`), and that what the reconciler counted of an active run
  without open items is still exact (`SweepExact`): only a restored result
  changes a settled item, and it completes its run in the same transaction, so
  a reconciler that counted before finds a status it does not expect. A restored
  result moves one target from one counter to another, a settlement adds one,
  a finaliser writes the counts and a reconciler that leaves the run open the
  greater of the stored and the counted value.
* **RunsKeepTheLedger** (`RankCheckRunsTargets`): `Spec => LedgerSpec`, the
  refinement of RunLedger under the mapping of RankCheckRunsLedger. Each
  transaction is one step of the ledger (`Open`, `Drop`, `Decide` with or
  without `Close`, `Correct`, `Pay`) or a stutter. Which of them it is follows
  from all invariants above: `PaidInv` for `Pay`, `VerdictInv` and `TargetInv`
  for `Correct`, `SettledInv` and `ReportInv` for `Close`.
* **BatchTypeCorrect**, **BatchKeepsItsPromises** (`QueuedBatchProofs`):
  `Spec => []BatchTypeOK` and `Spec => PromiseSpec`. The refinement is a step
  simulation under `BatchInv`: besides types, a prepared batch was claimed by
  nobody (`PreparedIsUnsent`), so at most one submitter is between claim and
  answer and only it can post (`OneSender`), and a result that may become a
  completed task, one that is ready, accepted or held by a persister, exists
  only after the POST (`ResultsArePosted`). Each step then maps to `Post`, to
  `Decide` with or without `Close`, or to a stutter; that the mapped state of
  a finished batch is the one its verdicts call for is a lemma about
  `TerminalBatchState` alone.
* **TasksAndChecksAgree** (`QueuedBatchProofs`): `Spec => []TaskAndCheckAgree`.
  Inductive with the types once the cancel command is known to close checks
  only after the mark is set (`ClosesCancelled`). A step leaves the verdicts of
  a task and its check (`Stays`), gives both the same (`EndsAlike`), or closes
  one for the cancel command (`ClosedByCancel`).
* **PaidTypeCorrect**, **WrittenOffStaysUnsent**, **OneJournalPays**,
  **ChargesKeepLimit** (`ServicesProofs`). `SafeInv` adds to the types that
  the fence is durable and comes first (`FenceComesFirst`: what may be sent is
  fenced, and a fenced row can neither be cancelled nor begun again) and that
  what a journal has in flight is its own (`InFlightIsOwn`), which makes the
  two properties inductive. For the limit, `LimitInv` says that a call under
  way holds an estimate (`CallsAreHeld`), that charges that are no longer held
  are in the settled sum unless the journal is unsure (`CostsAreKnown`), and
  that what was charged or is held never exceeds the limit (`NeverMore`); the
  theorem follows by counting, with the library's facts on cardinalities.

* **NoWorkIsPlannedTwice**, **PausedScheduleIsQuiet**, **EndedRunsStay**
  (`OccurrencesProofs`): the three properties of Occurrences. None is
  inductive. `OccurrencesInv` adds that a run that waits has no targets unless
  a person brought it forward (`Reserved`), that rows are used in order
  (`RowsInOrder`), and what a launch and the reconciler remember
  (`LaunchesKnow`, `SweepKnows`): a launch never read a run that has ended, and
  one that resumes or starts a queued run read a run brought forward, which is
  not its schedule's any more. Every step is `Mild`: an ended run keeps its
  status, and changes at all only while a target is claimed. So a run that was
  replaced, which has no claimed target, stays as it is, and the only step
  that can repeat work is the one that adds a row (`Adds`). There the guards
  are `Replaceable` for the latest row and `schedule.on`, read again in the
  transaction. That a step keeps a paused schedule quiet is shown row by row.

* **DigestsAreSentOnce**, **PendingWasNotSent**, **DigestedHasArrived**
  (`DigestDeliveryProofs`). `arrived` is counted when a message leaves, the row
  of the send is written before and after, by an attempt that may have been
  given up long ago. `DigestInv` follows what an attempt has in hand between
  the two (`HandsKept`): the row is its pass's and says `submitting` or
  `unknown`, and the alert bears the mark of a started submission or will
  never be delivered again; one attempt at most has it in hand (`OneHand`).
  Rows tell whether the alert may have arrived (`RowsKept`), an alert without
  the mark was exposed to nobody (`MarksKept`), and an outcome `delivered` that
  a workflow collected stands for a destination that got all of its alerts
  (`JobsKept`).
* **FreedTargetsAreProven**, **CompleteJobsAreFreed** (`MonitorLeaseProofs`).
  `MonitorInv` says that whoever sends, and whatever was sent, is fenced, and
  that the fence stays (`FencedFirst`); that a target of a run that is no
  longer held was cancelled without a fence or is proven (`TargetsKept`); and that
  an execution about to report the job complete saw all targets free, which
  stays true (`SawComplete`). Record, operation and evidence of a freed target do
  not change any more, because each of their writers looks for the owner row.
* **FreeSamplesAreUnsent**, **RetriesAreSafe**, **RunsMatchTheirSamples**
  (`AiTrackingProofs`). `TrackingInv` says that the journal lets one execution
  of a sample past its beginning (`OneBuyer`), what each execution knows at the
  place where it stands (`Knows`), and what a row, its receipt and its journal
  entry say about each other (`Kept`): a row that says the sample was not
  submitted is one that nobody has submitted or is about to.
* **Services…** (`ServicesProofs`): the properties under the names that the run
  Services checks. The proofs of each module are instantiated as the module is in
  MCServices; every behaviour of the composition is one of each instance
  (`RetriedIsOne` … `TrackerIsOne`, `PaidIsOne`), so the theorems above carry over.
  These eleven theorems say nothing of larger instances; the ones they
  cite do.

What the proofs found in the models, and TLC could not or did not:

* `RunLedger`'s `Open` allowed a run to be opened over no target: `SUBSET S \ {{}}`
  is `SUBSET (S \ {{}})`. An abstract specification that allows too much is still
  implemented, so that no run of TLC tells.
* `Finalize` of DigestDelivery forgot the alerts of the workflow (an `@` in a
  nested EXCEPT that referred to the wrong record), so that the sends of attempts
  that outlive their workflow arrived nowhere. They arrive now, and `SentOnce`
  holds of them too.
* `Refusal` of DigestDelivery was a CASE whose guards overlap. It is now the
  chain of early returns that the code has.

Only model-checked: the liveness properties `LaunchedRunEnds` and `BatchEnds`,
and that the properties of the runs that expect a violation are violated.
Liveness under fairness is out of the prover's reach and stays with TLC.

## 6 Abstractions

Runs:

* A page of dispatcher claims holds one item, and a batch in RankCheckRuns one
  task. Pages only ever treat their members one after the other in one
  transaction.
* `submitted` in RankCheckRuns stands for every active task state from
  submitting to persisting; claiming a submission and the POST are one step.
  What happens in between is QueuedBatch's.
* A launch is one transaction. The code reads candidate keywords before it
  locks; a slightly older read can leave out a keyword that was freed in
  between, which the model does not show. Which check of a keyword is the
  latest is not modelled: where the code asks for it the model allows both
  answers (`KeywordMayRun`).
* The fallback chain of providers inside one paid call is one call.
* A run status that the code reads without a lock and hands to the finaliser
  is any active status. A status that is no longer the stored one makes the
  compare-and-set miss, which is the only difference it makes; so the model
  has every outcome of such a race, and a few that need two races at once.
* The cancel command closes its listed checks in any order; the code takes
  them in the order of the query, which has no `ORDER BY`.
* Evidence that a restored result needs (fingerprints, grants, definition
  versions) is one bit; when it does not fit, `LoseRetainedResult`.

Batches:

* The provider takes any part of a batch and answers for each task; an answer
  says accepted, refused, refused at a charge, or nothing that is understood.
  It lists a task as finished only if it took it. Pages of that list,
  redirects and rate limits while polling only delay an inspection.
* A cost is known or not; its amount, the failed spend of the project and the
  fee are left out.
* Where the code defers a batch right after another statement of the same
  attempt, with nothing between its own transactions that the model tells
  apart, it is one step (`DeferBatch`); the cleanup proper has its three.

Occurrences:

* One occurrence, a day of a calendar schedule. An edit of the time of day or
  a change of the time zone moves its instant and keeps its key. Schedules by
  cron expression, whose key is the instant, and the occurrences before and
  after are left out, as are jitter and the earliest time an item may start.
* The planner's and the dispatcher's own leases on rows (`claimedAt`) are left
  out; a launch may overlap any other.
* Admission is its outcome: launched, blocked, or allocation exhausted. Which
  of the reasons a run is blocked for is left out; where the code compares it
  the model lets the write happen.
* Restoring a schedule is `ChangeCadence` and `MoveKeyword`. Cron edits and
  deletion of a project are left out. Work on the same keywords in other runs is
  the set `busy`.

Services:

* Paid requests cost nothing or one unit, and an estimate is one unit. The
  reservation of platform credit is left out, with it the state before an
  intent; so are provider request identifiers that turn up twice.
* An alert has one rule and one digest per pass. Rate limits of an endpoint are
  the outcome `limited`; daily budgets are the step `PassSuppresses`. Claims
  of an older version of the schema are left out.
* A monitor's provider accepts or rejects a target as a whole: partial
  acceptances with their task identifiers are left out, as are receipts,
  corrections and the poll interval. Why a job is retried is not; that access
  was revoked is. Recovery of a pending cost from the provider's ledger is
  left out, so a target whose cost stays pending stays owned.

Prompt tracker:

* What was measured is present (an answer, or no AI overview), partial,
  unavailable or failed. Cost receipts are zero, known, unknown, or a deposit
  that may be refunded (`refund_pending`); the code gives a deposit to a
  queued `model_api` sample and a confirmed cost to those of other queued
  sources, and a queued sample here may get either. The reasons for a refusal, and
  observations and citations with their checks, are left out.
* The journal is that of PaidRequests for one request: its correlation is the
  attempt of the sample. Its own lease and the recovery of its entries stay in
  PaidRequests. A read before an external call that may deny it (admission,
  consent, credential) is a choice.
* Poll times only delay a GET. A GET that finds the credential changed is
  one that fails. Planning, schedules, prompts and generations are left out.

Everywhere: costs in money, durations, timestamps and wording are left out.
"Old enough" is always possible and never forced, but for the fairness of
section 4. A transaction that Postgres aborts (deadlock, serialisation) has no
effect and is retried by its caller: a stuttering step.

## 7 Findings

1. **A cancelled run can wait for work that nobody will do** (`CancelStuck`;
   `rank-check/runs/cancel-run.ts:29`). The command reads the running items,
   and only then locks the run. A batch prepared in between is deferred by the
   commit (`cancel.ts:201-215`), but its check is not on the list that is
   closed afterwards. The item stays running, its check too, and the task is
   terminal, so the batch workflow, the deadline sweep
   (`queued-deadline-maintenance.ts:38`) and the stale sweep
   (`stale-checks.ts:69`) all pass it by. `docs/guides/runs.mdx:120` says that
   a cancelling run "is waiting for its remaining work to settle". A second
   cancel command closes it, or the purge of the batch 30 days later, after
   which the stale sweep sees the check: `RunsShared` shows that it does end.
2. **The deadline cleanup forgets a charge that became known while it ran**
   (`KnownCharge`; `rank-check/queued-lifecycle.ts:100`). It chooses between
   failing a task at its known cost and deferring it as free by the cost read
   at line 221, before the task is locked; the lock reads only state and owner
   again. If the answer to the POST is stored in between, a task with a known
   charge is deferred. The test "records a known paid deadline charge once in
   canonical failed spend" (`queued-lifecycle.test.ts:256`) says the charge is
   recorded.
3. **A monitor request that failed before it was sent is never released**
   (`UnsentStuck`; `local-monitor-worker/unsent.ts:25`). The release waits
   until the target's lease has expired. That lease was given the expiry of
   the operation's dispatch lease
   (`local-monitoring-store/run-admission.ts:232`), and cancelling the
   operation refuses an expired one: "Expired paid intent cannot prove no
   send" (`metering/cancel-paid-attempt.ts:33`). The two conditions exclude
   each other, the target stays owned and the job ends blocked, although
   `runtime.ts:99` says "The following recovery also handles pre-send
   failures".
4. **A run that was brought forward is undone by the planner** (`RunNowUndone`;
   `rank-check/planner/skip-run-now.ts:26`). Run-now overwrites the run's
   `plannedFor` with the present time. The next pass of the planner compares
   `plannedFor` with the instant of the occurrence
   (`reconcile-scheduled-items.ts:64`), takes the run for one of an older
   cadence and cancels its queued items as `schedule_changed`; since nothing
   was attempted, the same pass plans a replacement for the original time
   (`occurrence-replacement.ts:82`). What the dispatcher has claimed by then
   is kept. `docs/guides/schedules.mdx:61-63` says that run-now "starts the
   existing planned occurrence instead of creating a separate recurring
   schedule". The same lines promise it for a "planned or blocked run"; the
   code refuses blocked ones (`runs/run-now.ts:21`), which the model follows.
5. **An answer of the prompt tracker can be dropped** (`AnswerLost`;
   `lib/ai-tracking/execution/sample.ts:38`). An execution that finds a sample
   in `submission_started` without a task marks it `submission_unknown`. It
   cannot know that another execution still waits for the answer: the activity
   goes on after its ten minutes while Temporal starts the next attempt, and
   posts its samples one after the other, two minutes each at most
   (`providers/transport.ts:58`). The answer then fails its compare-and-set
   (line 178) and its task identifier is not stored. Such a sample is collected
   by nobody (`temporal/ai-tracking-intent-dispatch.ts:18-27`). The test
   "concurrent workers win one claim and send one POST"
   (`sample.test.ts:88-95`) expects two executions of one sample to leave it
   `submitted`; both start there before either has claimed. The run has two
   executions, none of which breaks off, and no cancel. That an execution which
   dies before it stored its answer leaves the sample in doubt is intended
   (`sample.test.ts:116`). The sample is not bought again: `FreeIsUnsent` and
   `RetryIsSafe` hold.
6. **The guide and the code disagree about runs with cancelled targets**
   (`GuideOutcome`; `rank-check/runs/status.ts:18`). The code looks at cancelled
   targets first: with a completed target the outcome is `partial`, without one
   the run is cancelled and has no outcome. The guide leaves them out:
   "Cancelled targets do not prevent the remaining completed targets from
   producing `succeeded`" (`docs/guides/runs.mdx:147-148`, table at 141-144).

   | targets ended as | guide | code |
   |---|---|---|
   | completed, cancelled | `succeeded` | `partial` (`status.test.ts:37`) |
   | failed (or skipped, blocked), cancelled | `failed` | cancelled, no outcome |
   | deferred, cancelled | `deferred` | cancelled, no outcome |

   The run shows the first. Which of the two is meant is not decided here:
   `OutcomesExplained` and `LedgerSpec` accept both, and
   `EveryOutcomeExplained` is about the code's own table.

## 8 Not modelled

The hazards of the code are listed, line by line, in `PROJECT.json`; those
without a property say why. What a continuation of this project would take
next:

1. **Empty runs.** The reconciler's rule for runs without items
   (`rank-check/runs/reconcile.ts:71`) goes by the creation time, which for a
   run brought forward is older than its launch. Occurrences contains the race
   (`SweepRead`, `SweepWrite` beside `LaunchTargets`) and no property speaks of
   it; the property to state is that no run is finished while it has queued
   items.
2. **Schedules by cron expression** and several occurrences or schedules at
   once, whose members may share keywords.
3. **Deletion** of keywords and finished runs, which makes rows disappear.
4. **Proofs** of what a run owes when it ends: that the counters of a run and
   the verdicts of its batches agree, which needs RankCheckRuns and QueuedBatch
   composed instead of side by side.
5. The reservation of platform credit in PaidRequests, partial acceptances
   in MonitorLease, and the schedules and generations of the prompt tracker; that
   every sample ends or is left in doubt.
6. **The order of locks.** `createRunning` locks the item and then the run, the
   cancel command the run and then the items. Postgres ends such a deadlock by
   aborting one of the two, which is why it is a stuttering step here
   (section 6); a model of the locks would say how often that can happen.

Out of the prover's reach, and left to TLC: liveness under fairness, and what
needs induction over data.


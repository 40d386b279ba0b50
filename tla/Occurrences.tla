---------------------------- MODULE Occurrences ----------------------------
(***************************************************************************)
(* The runs of one occurrence of one schedule (lib/rank-check/planner/):   *)
(* planned by the planner pass, launched when due or when a person brings  *)
(* them forward, retired when the schedule or its members change, and      *)
(* replaced by a new run as long as nothing of their work was attempted.   *)
(*                                                                         *)
(* The occurrence is a day of a calendar schedule: an edit moves its       *)
(* instant and keeps its key.  A pass of the planner reads the schedule    *)
(* and then runs one transaction after another; a launch reads the run and *)
(* the members and then locks the project; the reconciler reads a run and  *)
(* its items and then closes the run.  Everything else is one transaction. *)
(***************************************************************************)
EXTENDS Naturals, FiniteSets

CONSTANTS Keywords,
          Launchers,   \* executions that launch runs (planner, intent sweep)
          Ids,         \* the run rows, numbered in the order of createdAt
          Last,        \* bound: the clock runs from 0 to Last
          Times,       \* times of day, as instants of the occurrence's day
          Interval,    \* how long the occurrence may still be worked on
          MaxEdits     \* bound: changes of the schedule and around it

VARIABLES
  now,         \* the clock
  schedule,    \* enabled and not archived; its time of day; the time zone
  member,      \* keywords of the schedule
  active,      \* keywords that are not archived and whose market is active
  busy,        \* keywords in progress in runs of others
  row,         \* row[r]: a run of the occurrence
  edits,       \* changes of the schedule and around it so far (history)
  plan,        \* the planner pass and what it read of the schedule
  launch,      \* launch[l]: a launch and what it read
  sweep        \* the reconciler and the run it found settled

world == <<now, schedule, member, active, busy, edits>>
occurrenceVars == <<world, row, plan, launch, sweep>>

NotAsked == MaxEdits + 1   \* no number of edits
NoItems == [k \in Keywords |-> "none"]
NoRow == [status |-> "none", at |-> 0, born |-> 0, items |-> NoItems, requested |-> {},
          launched |-> FALSE, started |-> FALSE, reason |-> "none", asked |-> NotAsked]
NoPlan == [at |-> "idle", time |-> 0, instant |-> 0, members |-> {}]
NoLaunch == [at |-> "idle", run |-> 0, status |-> "none", members |-> {}, found |-> {},
             free |-> {}]

NoSweep == [run |-> 0, status |-> "none"]

\* The instant of the occurrence.
Instant(s) == s.time + s.zone

Init ==
  /\ now = 0
  /\ schedule \in [on : {TRUE}, time : Times, zone : {0}]
  /\ member = Keywords
  /\ active = Keywords
  /\ busy = {}
  /\ row = [r \in Ids |-> NoRow]
  /\ edits = 0
  /\ plan = NoPlan
  /\ launch = [l \in Launchers |-> NoLaunch]
  /\ sweep = NoSweep

Rows == {r \in Ids : row[r].status \notin {"none", "deleted"}}
Fresh == {r \in Ids : row[r].status = "none"}
Unlaunched == {"planned", "blocked"}
Empty(r) == row[r].items = NoItems

\* A target in progress is neither launched again nor planned again.
InProgress ==
  busy \cup {k \in Keywords : \E r \in Rows :
               \/ row[r].items[k] = "claimed"
               \/ row[r].items[k] = "queued" /\ row[r].status \in {"queued", "running"}}

\* The last step of every transaction that settles items: a run with nothing
\* pending is over.  Which outcome it reports does not matter here.
Settled(run) ==
  IF /\ run.status \in {"queued", "running", "cancelling"}
     /\ \A k \in Keywords : run.items[k] \notin {"queued", "claimed"}
  THEN [run EXCEPT !.status = "over"]
  ELSE run

Over(run, reason, members) ==
  [run EXCEPT !.status = "over", !.reason = reason, !.requested = members]

-----------------------------------------------------------------------------
(* What a change of the schedule or of its members does to the runs.        *)

\* cancelObsoleteScheduleItems: queued targets of a launched run are retired
\* unless they still belong to the schedule and the run to its cadence.
Obsolete(run, s, members) ==
  IF s.on /\ run.at = Instant(s) THEN Keywords \ members ELSE Keywords

Retire(run, gone) ==
  IF run.status \in {"queued", "running"} /\ \E k \in gone : run.items[k] = "queued"
  THEN Settled([run EXCEPT !.items = [k \in Keywords |->
                  IF k \in gone /\ @[k] = "queued" THEN "retired" ELSE @[k]]])
  ELSE run

RetireObsolete ==
  [r \in Ids |-> Retire(row[r], Obsolete(row[r], schedule, member))]

\* reconcilePlannedRunsForSchedule, after the change was written, also deletes
\* the runs that wait for an instant the schedule no longer has, or for members
\* it has lost.  A change of the cadence retires every queued target.
Reconciled(run, s, members, everything) ==
  IF run.status \notin Unlaunched
  THEN Retire(run, IF everything THEN Keywords ELSE Obsolete(run, s, members))
  ELSE IF run.items = NoItems /\ (members = {} \/ ~s.on \/ run.at # Instant(s))
       THEN [NoRow EXCEPT !.status = "deleted"]
       ELSE run

Reconcile(everything) ==
  row' = [r \in Ids |-> Reconciled(row[r], schedule', member', everything)]

Edit ==
  /\ edits < MaxEdits
  /\ edits' = edits + 1
  /\ UNCHANGED <<now, active, busy, plan, launch, sweep>>

\* updateSchedule: another time of day, pause or resume.
ChangeCadence ==
  /\ Edit
  /\ \E on \in BOOLEAN, time \in Times :
       schedule' = [schedule EXCEPT !.on = on, !.time = time]
  /\ schedule' # schedule
  /\ UNCHANGED member
  /\ Reconcile(TRUE)

\* archiveSchedule moves the members away; they may be assigned again after
\* the schedule is restored.
ArchiveSchedule ==
  /\ Edit
  /\ schedule' = [schedule EXCEPT !.on = FALSE]
  /\ member' = {}
  /\ Reconcile(TRUE)

\* assignKeywordsToSchedule and removeKeywordsFromSchedule.
MoveKeyword(k) ==
  /\ Edit
  /\ member' = IF k \in member THEN member \ {k} ELSE member \cup {k}
  /\ UNCHANGED schedule
  /\ Reconcile(FALSE)

\* The project's time zone, which the schedule inherits, changes the instant
\* of the occurrence and reconciles nothing.
ShiftTimezone ==
  /\ Edit
  /\ schedule' = [schedule EXCEPT !.zone = 1 - @]
  /\ UNCHANGED <<member, row>>

\* A market is paused or resumed, other runs come and go.
Surroundings ==
  /\ edits < MaxEdits
  /\ edits' = edits + 1
  /\ \E k \in Keywords :
       \/ active' \in {active \ {k}, active \cup {k}} \ {active} /\ UNCHANGED busy
       \/ busy' \in {busy \ {k}, busy \cup {k}} \ {busy} /\ UNCHANGED active
  /\ UNCHANGED <<now, schedule, member, row, plan, launch, sweep>>

\* A pass of the planner works with the time of its start.
Tick ==
  /\ plan.at = "idle"
  /\ now < Last
  /\ now' = now + 1
  /\ UNCHANGED <<schedule, member, active, busy, edits, row, plan, launch, sweep>>

-----------------------------------------------------------------------------
(* A pass of the planner.                                                   *)

\* planRankCheckRuns reads the enabled schedules.
PlanRead ==
  /\ plan.at = "idle"
  /\ schedule.on
  /\ plan' = [at |-> "read", time |-> schedule.time, instant |-> Instant(schedule),
              members |-> member \cap active]
  /\ UNCHANGED <<world, row, launch, sweep>>

\* Its first transaction retires queued targets that are no longer current.
PlanRetire ==
  /\ plan.at = "read"
  /\ plan' = [plan EXCEPT !.at = "retired"]
  /\ row' = RetireObsolete
  /\ UNCHANGED <<world, launch, sweep>>

\* skipEmptyScheduleOccurrences: a schedule read without members loses the runs
\* that were never launched, if it has none now either.
RetireEmpty ==
  row' = IF member \cap active # {}
         THEN row
         ELSE [r \in Ids |-> IF row[r].status \in Unlaunched /\ Empty(r)
                             THEN Over(row[r], "no_active_keywords", row[r].requested)
                             ELSE row[r]]

\* Only unattempted work is planned again: all of it retired by a change of
\* the schedule, or put off as a whole because its targets were in progress,
\* which are free now.
AllCancelled(run) ==
  run.items # NoItems /\ \A k \in Keywords : run.items[k] \in {"none", "retired", "dropped"}

AllRetired(run) ==
  run.items # NoItems /\ \A k \in Keywords : run.items[k] \in {"none", "retired"}

PutOff(run) ==
  /\ run.items = NoItems
  /\ run.reason = "targets_in_progress"
  /\ run.at = plan.instant
  /\ plan.instant <= now
  /\ run.requested = plan.members
  /\ run.requested = member
  /\ member \subseteq active \ InProgress

Replaceable(run) ==
  /\ run.status = "over"
  /\ ~run.started
  /\ AllRetired(run) \/ PutOff(run)

\* persistOccurrence: the key of the occurrence, or of the replacement of its
\* latest run, belongs to one row.  The schedule's own fields are compared with
\* those read before, the project's time zone is not.  Ids bounds the rows.
Planned == [NoRow EXCEPT !.status = "planned", !.at = plan.instant, !.born = now]

PlanOccurrence ==
  IF Fresh # {} /\ \A r \in Rows : (\A s \in Rows : s <= r) => Replaceable(row[r])
  THEN \E next \in Fresh : /\ \A s \in Fresh : next <= s
                          /\ row' = [row EXCEPT ![next] = Planned]
  ELSE row' = row

PersistForMembers ==
  IF member \cap active # {} THEN PlanOccurrence ELSE row' = row

Persist ==
  IF schedule.on /\ schedule.time = plan.time /\ member \cap active # {}
  THEN PlanOccurrence
  ELSE row' = row

\* The occurrence of a calendar schedule is planned until it has elapsed.
PlanPersist ==
  /\ plan.at = "retired"
  /\ plan' = NoPlan
  /\ IF plan.members = {} THEN RetireEmpty
     ELSE IF plan.instant + Interval > now THEN Persist ELSE row' = row
  /\ UNCHANGED <<world, launch, sweep>>

-----------------------------------------------------------------------------
(* Launching a run: materializePlannedRun.                                  *)

\* launchDuePlannedRuns takes due runs, launchQueuedRankCheckRuns those a person
\* brought forward, for as long as they have no targets.
BroughtForward(r) ==
  row[r].status = "queued" /\ ~row[r].launched /\ ~row[r].started /\ Empty(r)

Due(r) == row[r].status \in Unlaunched /\ row[r].at <= now

Expired(r) == row[r].status = "blocked" /\ Instant(schedule) + Interval <= now

\* What a launch reads before its transaction.
LaunchRead(l, r) ==
  /\ launch[l].at = "idle"
  /\ Due(r) \/ BroughtForward(r)
  /\ schedule.on
  /\ LET found == member \cap active
     IN  launch' = [launch EXCEPT ![l] =
           [at |-> CASE row[r].status = "blocked" /\ ~Empty(r) -> "resume"
                     [] Empty(r) /\ Expired(r) -> "expire"
                     [] OTHER -> "launch",
            run |-> r, status |-> row[r].status, members |-> member,
            found |-> found, free |-> found \ InProgress]]
  /\ UNCHANGED <<world, row, plan, sweep>>

\* A run blocked with targets goes on; one blocked without any is over when its
\* occurrence has elapsed, if it is blocked for the reason it was read with:
\* which of the reasons it is has been left out.
LaunchUnblock(l) ==
  LET r == launch[l].run
  IN  /\ launch[l].at \in {"resume", "expire"}
      /\ launch' = [launch EXCEPT ![l] = NoLaunch]
      /\ row' = IF row[r].status # "blocked" THEN row ELSE
           [row EXCEPT ![r] =
              IF launch[l].at = "expire" THEN Over(@, "occurrence_expired", @.requested)
              ELSE [@ EXCEPT !.status = IF row[r].started THEN "running" ELSE "queued"]]
      /\ UNCHANGED <<world, plan, sweep>>

\* completeWithoutItems: looks at the members again unless targets in progress
\* are the reason.
Complete(l, reason) ==
  LET r == launch[l].run
  IN  row' = IF /\ row[r].status = launch[l].status
                /\ ~row[r].launched /\ ~row[r].started /\ Empty(r)
                /\ reason = "no_active_keywords" => member \cap active = {}
             THEN [row EXCEPT ![r] = Over(@, reason, launch[l].members)]
             ELSE row

Launching(l) ==
  /\ launch[l].at = "launch"
  /\ launch' = [launch EXCEPT ![l] = NoLaunch]
  /\ UNCHANGED <<world, plan, sweep>>

SameStatus(l) == row[launch[l].run].status = launch[l].status

StillWithoutTargets(l) ==
  launch[l].status = "queued" => BroughtForward(launch[l].run)

\* A run brought forward must still be without targets.
StillPending(l) ==
  SameStatus(l) /\ StillWithoutTargets(l)

\* What the transaction checks before it looks at the targets.
Ready(l) == launch[l].free # {} /\ schedule.on /\ StillPending(l)

\* No target twice in a run: the unique index on run and keyword.
AllFree(l) ==
  /\ launch[l].free \subseteq active \ InProgress
  /\ \A k \in launch[l].free : row[launch[l].run].items[k] = "none"

LaunchNothing(l) ==
  /\ Launching(l)
  /\ \/ /\ launch[l].free = {}
        /\ Complete(l, IF launch[l].found = {} THEN "no_active_keywords"
                                               ELSE "targets_in_progress")
     \/ /\ Ready(l)
        /\ launch[l].free \cap active = {}
        /\ Complete(l, "no_active_keywords")

\* The run, the schedule or a target is not what it was: the next pass tries
\* again.
LaunchLater(l) ==
  /\ Launching(l)
  /\ launch[l].free # {}
  /\ ~Ready(l) \/ (launch[l].free \cap active # {} /\ ~AllFree(l))
  /\ UNCHANGED row

Launched(run, targets) ==
  [run EXCEPT !.status = "queued", !.reason = "none", !.launched = TRUE,
              !.items = [k \in Keywords |-> IF k \in targets THEN "queued" ELSE @[k]]]

LaunchTargets(l) ==
  /\ Launching(l)
  /\ Ready(l)
  /\ AllFree(l)
  /\ row' = [row EXCEPT ![launch[l].run] = Launched(@, launch[l].free)]

\* No access, no provider, no price or no budget.
LaunchBlocked(l) ==
  /\ Launching(l)
  /\ Ready(l)
  /\ AllFree(l)
  /\ row' = [row EXCEPT ![launch[l].run].status = "blocked"]

\* The allocation is exhausted: the run is blocked after the transaction.
LaunchExhausted(l) ==
  /\ launch[l].at = "launch"
  /\ Ready(l)
  /\ AllFree(l)
  /\ launch' = [launch EXCEPT ![l].at = "exhausted"]
  /\ UNCHANGED <<world, row, plan, sweep>>

BlockExhausted(l) ==
  /\ launch[l].at = "exhausted"
  /\ launch' = [launch EXCEPT ![l] = NoLaunch]
  /\ row' = IF SameStatus(l) THEN [row EXCEPT ![launch[l].run].status = "blocked"]
                             ELSE row
  /\ UNCHANGED <<world, plan, sweep>>

-----------------------------------------------------------------------------
(* Commands for a run, the dispatcher and the reconciler.                   *)

RunStep(r, new) ==
  /\ row' = [row EXCEPT ![r] = new]
  /\ UNCHANGED <<world, plan, launch, sweep>>

\* runPlannedRunNow.
RunNow(r) ==
  /\ row[r].status = "planned"
  /\ RunStep(r, [row[r] EXCEPT !.status = "queued", !.at = now, !.asked = edits])

\* skipPlannedRun, and cancelRankCheckRun for a run that is still planned.
Skip(r) ==
  /\ row[r].status = "planned"
  /\ RunStep(r, Over(row[r], "skipped", row[r].requested))

\* cancelRankCheckRun: what is not claimed is dropped.
CancelRun(r) ==
  /\ row[r].status \in {"blocked", "queued", "running"}
  /\ RunStep(r, Settled([row[r] EXCEPT !.status = "cancelling",
       !.items = [k \in Keywords |-> IF @[k] = "queued" THEN "dropped" ELSE @[k]]]))

\* The dispatcher claims a queued target, or drops it if its keyword is no
\* longer active.
ClaimItem(r, k) ==
  /\ row[r].status \in {"queued", "running"}
  /\ row[r].items[k] = "queued"
  /\ RunStep(r, IF k \in active
                THEN [row[r] EXCEPT !.status = "running", !.started = TRUE,
                                    !.items[k] = "claimed"]
                ELSE Settled([row[r] EXCEPT !.items[k] = "dropped"]))

\* The check of a claimed target ends.
FinishItem(r, k) ==
  /\ row[r].items[k] = "claimed"
  /\ RunStep(r, Settled([row[r] EXCEPT !.items[k] = "done"]))

\* reconcileRankCheckRuns finds a run with nothing pending; one without targets
\* must have been created a while ago.
SweepRead(r) ==
  /\ sweep.run = 0
  /\ Settled(row[r]) # row[r]
  /\ Empty(r) => row[r].born < now
  /\ sweep' = [run |-> r, status |-> row[r].status]
  /\ UNCHANGED <<world, row, plan, launch>>

\* finalizeRankCheckRun compares the status alone.
SweepWrite ==
  /\ sweep.run # 0
  /\ row' = IF row[sweep.run].status = sweep.status
            THEN [row EXCEPT ![sweep.run].status = "over"]
            ELSE row
  /\ sweep' = NoSweep
  /\ UNCHANGED <<world, plan, launch>>

Next ==
  \/ ChangeCadence \/ ArchiveSchedule \/ ShiftTimezone
  \/ Surroundings \/ Tick
  \/ \E k \in Keywords : MoveKeyword(k)
  \/ PlanRead \/ PlanRetire \/ PlanPersist
  \/ \E l \in Launchers :
       \/ \E r \in Ids : LaunchRead(l, r)
       \/ LaunchUnblock(l) \/ LaunchNothing(l) \/ LaunchLater(l)
       \/ LaunchTargets(l) \/ LaunchBlocked(l)
       \/ LaunchExhausted(l) \/ BlockExhausted(l)
  \/ \E r \in Ids :
       \/ RunNow(r) \/ Skip(r) \/ CancelRun(r) \/ SweepRead(r)
       \/ \E k \in Keywords : ClaimItem(r, k) \/ FinishItem(r, k)
  \/ SweepWrite

Spec == Init /\ [][Next]_occurrenceVars

-----------------------------------------------------------------------------
(* Properties.                                                              *)

\* A run that has ended stays so, and a deleted one stays deleted: skipped,
\* cancelled or expired, it is not brought back by a launch or a sweep that read
\* it before.
EndedStays ==
  \A r \in Ids : row[r].status \in {"over", "deleted"}
                 => row'[r].status = row[r].status

FinishedStays == [][EndedStays]_occurrenceVars

\* A run has a successor only if nothing of its work was attempted and nobody
\* skipped or cancelled it (occurrence-replacement.ts).
WorkIsNotRepeated ==
  \A r, s \in Rows : r < s =>
    /\ row[r].status = "over"
    /\ ~row[r].started
    /\ row[r].reason # "skipped"
    /\ \A k \in Keywords : row[r].items[k] \in {"none", "retired"}

\* A schedule that is paused or archived has no run waiting and no target that
\* the dispatcher may claim, whatever passes and launches had read it before.
\* A run that a person brought forward is not its schedule's any more.
PausedIsQuiet ==
  ~schedule.on => \A r \in Rows :
    \/ row[r].asked # NotAsked
    \/ /\ row[r].status \notin Unlaunched
       /\ row[r].status \in {"queued", "running"}
            => \A k \in Keywords : row[r].items[k] # "queued"

\* docs/guides/schedules.mdx:61-63: "Use Run now [...] to bring one planned or
\* blocked run forward immediately. It starts the existing planned occurrence
\* instead of creating a separate recurring schedule."  A run brought forward
\* keeps its targets as long as neither schedule nor members change.
RunNowKept ==
  \A r \in Rows : row[r].asked = edits =>
    \A k \in Keywords : row[r].items[k] # "retired"
=============================================================================

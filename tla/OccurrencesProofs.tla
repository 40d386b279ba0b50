------------------------- MODULE OccurrencesProofs -------------------------
(***************************************************************************)
(* Proofs about Occurrences for any number of keywords, launches and runs: *)
(* a run that has ended is not brought back, no work is planned twice, and *)
(* a paused schedule starts nothing.                                       *)
(*                                                                         *)
(* Every step changes each run mildly: it keeps what has ended.  A run is  *)
(* sound if it waits without targets, unless a person brought it forward,  *)
(* and is quiet while the schedule is paused.                              *)
(***************************************************************************)
EXTENDS Occurrences, TLAPS

\* The run rows have numbers, and so have the bounds.
Sizes == Ids \subseteq Nat \ {0} /\ MaxEdits \in Nat /\ Times \subseteq Nat

Statuses == {"none", "planned", "blocked", "queued", "running", "cancelling", "over",
             "deleted"}
ItemStates == {"none", "queued", "claimed", "done", "dropped", "retired"}
OverReasons == {"none", "no_active_keywords", "targets_in_progress",
                "occurrence_expired", "skipped"}
LaunchSteps == {"idle", "launch", "resume", "expire", "exhausted"}

Run == [status : Statuses, at : Nat, born : Nat, items : [Keywords -> ItemStates],
        requested : SUBSET Keywords, launched : BOOLEAN, started : BOOLEAN,
        reason : OverReasons, asked : Nat]

Launch == [at : LaunchSteps, run : Ids \cup {0}, status : Statuses,
           members : SUBSET Keywords, found : SUBSET Keywords, free : SUBSET Keywords]

WorldTypeOK ==
  /\ now \in Nat
  /\ edits \in 0..MaxEdits
  /\ schedule \in [on : BOOLEAN, time : Nat, zone : {0, 1}]
  /\ member \in SUBSET Keywords
  /\ active \in SUBSET Keywords
  /\ busy \in SUBSET Keywords

OccurrencesTypeOK ==
  /\ WorldTypeOK
  /\ plan \in [at : {"idle", "read", "retired"}, time : Nat, instant : Nat,
               members : SUBSET Keywords]
  /\ row \in [Ids -> Run]
  /\ launch \in [Launchers -> Launch]
  /\ sweep \in [run : Ids \cup {0}, status : Statuses]

\* A run waits without targets, unless a person brought it forward, and only
\* one that waits is skipped.
Reserved(x) ==
  /\ x.status = "planned" => x.items = NoItems
  /\ x.reason = "skipped" => x.status = "over" /\ x.items = NoItems
  /\ x.asked = NotAsked => /\ x.status \in Unlaunched => x.items = NoItems
                           /\ x.status = "queued" => x.launched

Quiet(x) ==
  \/ x.asked # NotAsked
  \/ /\ x.status \notin Unlaunched
     /\ x.status \in {"queued", "running"} => \A k \in Keywords : x.items[k] # "queued"

Sound(x, on) == Reserved(x) /\ (on \/ Quiet(x))

\* What a step may make of a run x.
Mild(x, y) ==
  /\ x.status \in {"none", "over", "deleted"} => y.status = x.status
  /\ y.status = "none" => x.status = "none"
  /\ x.status = "over" /\ (\A k \in Keywords : x.items[k] # "claimed") => y = x
  /\ x.asked # NotAsked => y.asked # NotAsked \/ y.status = "deleted"

\* Rows are used in the order of their numbers.
RowsInOrder ==
  \A r, s \in Ids : row[r].status = "none" /\ row[s].status # "none" => s < r

\* What a launch remembers of a run.
LaunchesKnow ==
  \A l \in Launchers : launch[l].at # "idle" =>
    LET x == row[launch[l].run]
    IN  /\ launch[l].run \in Ids
        /\ x.status # "none"
        /\ launch[l].status \in {"planned", "blocked", "queued"}
        /\ launch[l].at = "resume" \/ launch[l].status = "queued"
             => x.asked # NotAsked \/ x.status = "deleted"

SweepKnows ==
  sweep.run # 0 => sweep.status \in {"queued", "running", "cancelling"}

OccurrencesInv ==
  /\ OccurrencesTypeOK
  /\ \A r \in Ids : Sound(row[r], schedule.on)
  /\ RowsInOrder
  /\ WorkIsNotRepeated
  /\ LaunchesKnow
  /\ SweepKnows

-----------------------------------------------------------------------------
(* One run.                                                                 *)

LEMMA SettledRun ==
  ASSUME NEW x \in Run, NEW on \in BOOLEAN, Sound(x, on)
  PROVE  /\ Settled(x) \in Run
         /\ Sound(Settled(x), on)
         /\ Settled(x) = x \/ (/\ x.status \in {"queued", "running", "cancelling"}
                               /\ Settled(x) = [x EXCEPT !.status = "over"])
<1>1. CASE Settled(x) = x
  BY <1>1
<1>2. CASE Settled(x) # x
  <2>1. /\ x.status \in {"queued", "running", "cancelling"}
        /\ Settled(x) = [x EXCEPT !.status = "over"]
    BY <1>2 DEF Settled
  <2>2. [x EXCEPT !.status = "over"] \in Run
    BY DEF Run, Statuses
  <2>3. Sound([x EXCEPT !.status = "over"], on)
    BY DEF Sound, Reserved, Quiet, Unlaunched, Run
  <2> QED  BY <2>1, <2>2, <2>3
<1> QED  BY <1>1, <1>2

LEMMA MildOver ==
  ASSUME NEW x \in Run, x.status \in {"planned", "blocked", "queued", "running", "cancelling"},
         NEW y \in Run, y.asked = x.asked, y.status # "none"
  PROVE  Mild(x, y)
BY DEF Mild

LEMMA RetiredRun ==
  ASSUME NEW x \in Run, NEW on \in BOOLEAN, Sound(x, on), NEW gone
  PROVE  /\ Retire(x, gone) \in Run
         /\ Sound(Retire(x, gone), on)
         /\ Mild(x, Retire(x, gone))
<1> DEFINE y == [x EXCEPT !.items = [k \in Keywords |->
                   IF k \in gone /\ @[k] = "queued" THEN "retired" ELSE @[k]]]
<1>1. CASE Retire(x, gone) = x
  BY <1>1 DEF Mild
<1>2. CASE Retire(x, gone) # x
  <2>1. x.status \in {"queued", "running"} /\ Retire(x, gone) = Settled(y)
    BY <1>2 DEF Retire
  <2>2. y \in Run
    <3>1. [k \in Keywords |-> IF k \in gone /\ x.items[k] = "queued" THEN "retired"
                                                                 ELSE x.items[k]]
            \in [Keywords -> ItemStates]
      BY DEF Run, ItemStates
    <3> QED  BY <3>1 DEF Run
  <2>3. /\ y.status = x.status /\ y.asked = x.asked /\ y.launched = x.launched
        /\ y.reason = x.reason
        /\ \A k \in Keywords : y.items[k] = "queued" => x.items[k] = "queued"
    BY DEF Run
  <2>4. Sound(y, on)
    BY <2>1, <2>2, <2>3 DEF Sound, Reserved, Quiet, Unlaunched
  <2> HIDE DEF y
  <2>5. /\ Settled(y) \in Run /\ Sound(Settled(y), on)
        /\ Settled(y) = y \/ Settled(y) = [y EXCEPT !.status = "over"]
    BY <2>2, <2>4, SettledRun
  <2>6. Settled(y).asked = x.asked /\ Settled(y).status # "none"
    BY <2>1, <2>2, <2>3, <2>5 DEF Run
  <2>7. Mild(x, Settled(y))
    BY <2>1, <2>5, <2>6, MildOver
  <2> QED  BY <2>1, <2>5, <2>7
<1> QED  BY <1>1, <1>2

\* Retiring everything leaves nothing to claim.
LEMMA RetiredIsQuiet ==
  ASSUME NEW x \in Run, Reserved(x), x.status \notin Unlaunched
  PROVE  Sound(Retire(x, Keywords), FALSE)
<1> DEFINE y == [x EXCEPT !.items = [k \in Keywords |->
                   IF k \in Keywords /\ @[k] = "queued" THEN "retired" ELSE @[k]]]
<1>1. CASE x.status \in {"queued", "running"} /\ \E k \in Keywords : x.items[k] = "queued"
  <2>1. Retire(x, Keywords) = Settled(y)
    BY <1>1 DEF Retire
  <2>2. y \in Run
    <3>1. [k \in Keywords |-> IF k \in Keywords /\ x.items[k] = "queued" THEN "retired"
                                                                      ELSE x.items[k]]
            \in [Keywords -> ItemStates]
      BY DEF Run, ItemStates
    <3> QED  BY <3>1 DEF Run
  <2>3. /\ y.status = x.status /\ y.asked = x.asked /\ y.launched = x.launched
        /\ y.reason = x.reason
        /\ \A k \in Keywords : y.items[k] # "queued"
    BY DEF Run
  <2>4. Sound(y, FALSE)
    BY <1>1, <2>3 DEF Sound, Reserved, Quiet, Unlaunched
  <2> HIDE DEF y
  <2> QED  BY <2>1, <2>2, <2>4, SettledRun
<1>2. CASE ~(x.status \in {"queued", "running"} /\ \E k \in Keywords : x.items[k] = "queued")
  <2>1. Retire(x, Keywords) = x
    BY <1>2 DEF Retire
  <2> QED  BY <1>2, <2>1 DEF Sound, Quiet
<1> QED  BY <1>1, <1>2

LEMMA NewRows ==
  ASSUME Sizes
  PROVE  /\ NotAsked \in Nat /\ NoRow \in Run
         /\ [NoRow EXCEPT !.status = "deleted"] \in Run
         /\ NoRow.asked = NotAsked /\ NoRow.items = NoItems /\ NoRow.status = "none"
         /\ NoRow.reason = "none"
<1>1. NotAsked \in Nat
  BY DEF Sizes, NotAsked
<1>2. NoItems \in [Keywords -> ItemStates]
  BY DEF NoItems, ItemStates
<1>3. /\ NoRow \in Run
      /\ NoRow.asked = NotAsked /\ NoRow.items = NoItems /\ NoRow.status = "none"
      /\ NoRow.reason = "none"
  BY <1>1, <1>2 DEF NoRow, Run, Statuses, OverReasons
<1>4. [NoRow EXCEPT !.status = "deleted"] \in Run
  BY <1>3 DEF Run, Statuses
<1> QED  BY <1>1, <1>3, <1>4

\* A change of the schedule keeps each run sound for the schedule it leaves: one
\* that pauses it retires and deletes what waits.
LEMMA ReconciledRun ==
  ASSUME Sizes, NEW x \in Run, NEW on \in BOOLEAN, Sound(x, on),
         NEW s, s.on \in BOOLEAN, NEW members,
         NEW everything \in BOOLEAN, everything \/ s.on = on
  PROVE  /\ Reconciled(x, s, members, everything) \in Run
         /\ Sound(Reconciled(x, s, members, everything), s.on)
         /\ Mild(x, Reconciled(x, s, members, everything))
<1> DEFINE y == Reconciled(x, s, members, everything)
           gone == IF everything THEN Keywords ELSE Obsolete(x, s, members)
<1>1. CASE x.status \notin Unlaunched
  <2>1. y = Retire(x, gone)
    BY <1>1 DEF Reconciled
  <2>2. Retire(x, gone) \in Run /\ Mild(x, Retire(x, gone))
    BY RetiredRun
  <2>3. CASE s.on
    <3>1. Sound(x, TRUE)
      BY DEF Sound
    <3>2. Sound(Retire(x, gone), TRUE)
      BY <3>1, RetiredRun
    <3> QED  BY <2>1, <2>2, <2>3, <3>2
  <2>4. CASE ~s.on
    <3>1. gone = Keywords
      BY <2>4 DEF Obsolete
    <3>2. Sound(Retire(x, Keywords), FALSE)
      BY <1>1, RetiredIsQuiet DEF Sound
    <3> QED  BY <2>1, <2>2, <2>4, <3>1, <3>2
  <2> QED  BY <2>3, <2>4
<1>2. CASE x.status \in Unlaunched /\ y = [NoRow EXCEPT !.status = "deleted"]
  <2>1. y \in Run /\ y.status = "deleted" /\ y.asked = NotAsked /\ y.reason = "none"
    BY <1>2, NewRows DEF Run
  <2> QED  BY <1>2, <2>1 DEF Sound, Reserved, Quiet, Mild, Unlaunched
<1>3. CASE x.status \in Unlaunched /\ y # [NoRow EXCEPT !.status = "deleted"]
  <2>1. y = x /\ ~(x.items = NoItems /\ ~s.on)
    BY <1>3 DEF Reconciled
  <2> QED  BY <1>3, <2>1 DEF Sound, Reserved, Quiet, Mild
<1> QED  BY <1>1, <1>2, <1>3

-----------------------------------------------------------------------------
(* All runs.                                                                *)

RunsTyped == row \in [Ids -> Run] /\ \A r \in Ids : Sound(row[r], schedule.on)

RunsKept == RunsTyped' /\ \A r \in Ids : Mild(row[r], row'[r])

LEMMA SameRow ==
  ASSUME RunsTyped, UNCHANGED row, UNCHANGED schedule
  PROVE  RunsKept
BY DEF RunsTyped, RunsKept, Mild

LEMMA OneRow ==
  ASSUME RunsTyped, UNCHANGED schedule, NEW r \in Ids, NEW y \in Run,
         Sound(y, schedule.on), Mild(row[r], y), row' = [row EXCEPT ![r] = y]
  PROVE  RunsKept
<1>1. \A s \in Ids : row'[s] = IF s = r THEN y ELSE row[s]
  BY DEF RunsTyped
<1>2. row' \in [Ids -> Run]
  BY DEF RunsTyped
<1>3. \A s \in Ids : Sound(row'[s], schedule'.on)
  BY <1>1 DEF RunsTyped
<1>4. \A s \in Ids : Mild(row[s], row'[s])
  BY <1>1 DEF Mild
<1> QED  BY <1>2, <1>3, <1>4 DEF RunsTyped, RunsKept

\* Changes of the schedule.
LEMMA ReconcileKeeps ==
  ASSUME Sizes, RunsTyped, schedule.on \in BOOLEAN, schedule'.on \in BOOLEAN,
         NEW everything \in BOOLEAN, everything \/ schedule'.on = schedule.on,
         Reconcile(everything)
  PROVE  RunsKept
<1>1. \A r \in Ids : row'[r] = Reconciled(row[r], schedule', member', everything)
  BY DEF Reconcile
<1>2. \A r \in Ids : /\ row[r] \in Run /\ Sound(row[r], schedule.on)
  BY DEF RunsTyped
<1>3. \A r \in Ids : /\ row'[r] \in Run /\ Sound(row'[r], schedule'.on)
                     /\ Mild(row[r], row'[r])
  BY <1>1, <1>2, ReconciledRun
<1>4. row' \in [Ids -> Run]
  BY <1>1, <1>3 DEF Reconcile
<1> QED  BY <1>3, <1>4 DEF RunsTyped, RunsKept

LEMMA RetireObsoleteKeeps ==
  ASSUME RunsTyped, schedule.on \in BOOLEAN, UNCHANGED schedule, row' = RetireObsolete
  PROVE  RunsKept
<1>1. \A r \in Ids : row'[r] = Retire(row[r], Obsolete(row[r], schedule, member))
  BY DEF RetireObsolete
<1>2. \A r \in Ids : /\ row[r] \in Run /\ Sound(row[r], schedule.on)
  BY DEF RunsTyped
<1>3. \A r \in Ids : /\ row'[r] \in Run /\ Sound(row'[r], schedule'.on)
                     /\ Mild(row[r], row'[r])
  BY <1>1, <1>2, RetiredRun
<1>4. row' \in [Ids -> Run]
  BY <1>1, <1>3 DEF RetireObsolete
<1> QED  BY <1>3, <1>4 DEF RunsTyped, RunsKept

\* A run that is closed for a reason.
LEMMA OverRun ==
  ASSUME NEW x \in Run, NEW on \in BOOLEAN, NEW reason \in OverReasons,
         NEW members \in SUBSET Keywords, x.status \in {"planned", "blocked", "queued"},
         reason = "skipped" => x.items = NoItems
  PROVE  /\ Over(x, reason, members) \in Run
         /\ Sound(Over(x, reason, members), on)
         /\ Mild(x, Over(x, reason, members))
BY DEF Over, Run, Statuses, Sound, Reserved, Quiet, Mild, Unlaunched

LEMMA RetireEmptyKeeps ==
  ASSUME RunsTyped, schedule.on \in BOOLEAN, UNCHANGED schedule, RetireEmpty
  PROVE  RunsKept
<1>1. CASE row' = row
  BY <1>1, SameRow
<1>2. CASE row' # row
  <2> DEFINE y(r) == Over(row[r], "no_active_keywords", row[r].requested)
  <2>1. row' = [r \in Ids |-> IF row[r].status \in Unlaunched /\ Empty(r) THEN y(r)
                                                                      ELSE row[r]]
    BY <1>2 DEF RetireEmpty
  <2>2. \A r \in Ids : row[r] \in Run /\ Sound(row[r], schedule.on)
    BY DEF RunsTyped
  <2>3. ASSUME NEW r \in Ids
        PROVE  row'[r] \in Run /\ Sound(row'[r], schedule'.on) /\ Mild(row[r], row'[r])
    <3>1. CASE row[r].status \in Unlaunched /\ Empty(r)
      <4>1. row'[r] = y(r)
        BY <2>1, <3>1
      <4>2. row[r].requested \in SUBSET Keywords /\ "no_active_keywords" \in OverReasons
        BY <2>2 DEF Run, OverReasons
      <4>3. row[r].status \in {"planned", "blocked", "queued"}
        BY <3>1 DEF Unlaunched
      <4> QED  BY <2>2, <4>1, <4>2, <4>3, OverRun
    <3>2. CASE ~(row[r].status \in Unlaunched /\ Empty(r))
      <4>1. row'[r] = row[r]
        BY <2>1, <3>2
      <4> QED  BY <2>2, <4>1 DEF Mild
    <3> QED  BY <3>1, <3>2
  <2>4. row' \in [Ids -> Run]
    BY <2>1, <2>3
  <2> QED  BY <2>3, <2>4 DEF RunsTyped, RunsKept
<1> QED  BY <1>1, <1>2

-----------------------------------------------------------------------------
(* Launches.                                                                *)

\* What a launch keeps in mind as long as it goes on.
LaunchGoesOn ==
  \A l \in Launchers : launch'[l].at # "idle" =>
    /\ launch[l].at # "idle"
    /\ launch'[l].run = launch[l].run /\ launch'[l].status = launch[l].status
    /\ launch'[l].at = "resume" => launch[l].at = "resume"

LEMMA LaunchesStillKnow ==
  ASSUME LaunchesKnow, LaunchGoesOn,
         \A r \in Ids : row[r].status # "none" => Mild(row[r], row'[r])
  PROVE  LaunchesKnow'
<1> SUFFICES ASSUME NEW l \in Launchers, launch'[l].at # "idle"
             PROVE  /\ launch'[l].run \in Ids
                    /\ row'[launch'[l].run].status # "none"
                    /\ launch'[l].status \in {"planned", "blocked", "queued"}
                    /\ launch'[l].at = "resume" \/ launch'[l].status = "queued"
                         => \/ row'[launch'[l].run].asked # NotAsked
                            \/ row'[launch'[l].run].status = "deleted"
  BY DEF LaunchesKnow
<1> DEFINE r == launch[l].run
<1>1. /\ launch[l].at # "idle" /\ launch'[l].run = r
      /\ launch'[l].status = launch[l].status
      /\ launch'[l].at = "resume" => launch[l].at = "resume"
  BY DEF LaunchGoesOn
<1>2. /\ r \in Ids /\ row[r].status # "none"
      /\ launch[l].status \in {"planned", "blocked", "queued"}
      /\ launch[l].at = "resume" \/ launch[l].status = "queued"
           => row[r].asked # NotAsked \/ row[r].status = "deleted"
  BY <1>1 DEF LaunchesKnow
<1>3. Mild(row[r], row'[r])
  BY <1>2
<1> QED  BY <1>1, <1>2, <1>3 DEF Mild

\* Every step of a launch after what it read.
LaunchStep(l) ==
  \/ LaunchUnblock(l) \/ LaunchNothing(l) \/ LaunchLater(l)
  \/ LaunchTargets(l) \/ LaunchBlocked(l)
  \/ LaunchExhausted(l) \/ BlockExhausted(l)

LEMMA LaunchStepGoesOn ==
  ASSUME OccurrencesTypeOK, NEW l \in Launchers, LaunchStep(l)
  PROVE  /\ LaunchGoesOn
         /\ launch' \in [Launchers -> Launch]
         /\ UNCHANGED <<world, plan, sweep>>
         /\ launch[l].at # "idle"
<1>1. NoLaunch \in Launch /\ NoLaunch.at = "idle"
  BY DEF NoLaunch, Launch, LaunchSteps, Statuses
<1>2. launch \in [Launchers -> Launch]
  BY DEF OccurrencesTypeOK, WorldTypeOK
<1>3. /\ launch[l].at # "idle" /\ UNCHANGED <<world, plan, sweep>>
      /\ \/ launch' = [launch EXCEPT ![l] = NoLaunch]
         \/ launch[l].at = "launch" /\ launch' = [launch EXCEPT ![l].at = "exhausted"]
  BY DEF LaunchStep, LaunchUnblock, LaunchNothing, LaunchLater, LaunchTargets,
         LaunchBlocked, LaunchExhausted, BlockExhausted, Launching
<1>4. CASE launch' = [launch EXCEPT ![l] = NoLaunch]
  BY <1>1, <1>2, <1>3, <1>4 DEF LaunchGoesOn
<1>5. CASE launch[l].at = "launch" /\ launch' = [launch EXCEPT ![l].at = "exhausted"]
  <2>1. launch[l] \in Launch
    BY <1>2
  <2>2. [launch[l] EXCEPT !.at = "exhausted"] \in Launch
    BY <2>1 DEF Launch, LaunchSteps
  <2>3. launch' = [launch EXCEPT ![l] = [launch[l] EXCEPT !.at = "exhausted"]]
    BY <1>5
  <2>4. launch' \in [Launchers -> Launch]
    BY <1>2, <2>2, <2>3
  <2>5. ASSUME NEW m \in Launchers, launch'[m].at # "idle"
        PROVE  /\ launch[m].at # "idle"
               /\ launch'[m].run = launch[m].run /\ launch'[m].status = launch[m].status
               /\ launch'[m].at = "resume" => launch[m].at = "resume"
    <3>1. CASE m = l
      <4>1. launch'[m] = [launch[l] EXCEPT !.at = "exhausted"]
        BY <1>2, <2>3, <3>1
      <4> QED  BY <1>5, <2>1, <3>1, <4>1 DEF Launch
    <3>2. CASE m # l
      BY <1>2, <2>3, <2>5, <3>2
    <3> QED  BY <3>1, <3>2
  <2> QED  BY <1>3, <2>4, <2>5 DEF LaunchGoesOn
<1> QED  BY <1>3, <1>4, <1>5

\* What a launch makes of the run it read.
LEMMA LaunchStepKeeps ==
  ASSUME Sizes, OccurrencesInv, NEW l \in Launchers, LaunchStep(l)
  PROVE  RunsKept
<1> DEFINE r == launch[l].run
           x == row[r]
<1>1. /\ RunsTyped /\ LaunchesKnow /\ OccurrencesTypeOK
  BY DEF OccurrencesInv, OccurrencesTypeOK, WorldTypeOK, RunsTyped
<1>3. /\ launch[l].at # "idle" /\ UNCHANGED schedule
  BY <1>1, LaunchStepGoesOn DEF world
<1>4. /\ r \in Ids /\ x.status # "none"
      /\ launch[l].status \in {"planned", "blocked", "queued"}
      /\ launch[l].at = "resume" \/ launch[l].status = "queued"
           => x.asked # NotAsked \/ x.status = "deleted"
  BY <1>1, <1>3 DEF LaunchesKnow
<1>5. x \in Run /\ Sound(x, schedule.on)
  BY <1>1, <1>4 DEF RunsTyped
<1>6. launch[l] \in Launch
  BY <1>1 DEF OccurrencesTypeOK, WorldTypeOK
<1>7. CASE row' = row
  BY <1>1, <1>3, <1>7, SameRow
<1>8. ASSUME NEW reason \in OverReasons \ {"skipped"}, NEW members \in SUBSET Keywords,
             x.status \in {"planned", "blocked", "queued"},
             row' = [row EXCEPT ![r] = Over(x, reason, members)]
      PROVE  RunsKept
  <2>1. schedule.on \in BOOLEAN
    BY <1>1 DEF OccurrencesTypeOK, WorldTypeOK
  <2>2. /\ Over(x, reason, members) \in Run
        /\ Sound(Over(x, reason, members), schedule.on)
        /\ Mild(x, Over(x, reason, members))
    BY <1>5, <1>8, <2>1, OverRun
  <2> QED  BY <1>1, <1>3, <1>4, <1>8, <2>2, OneRow
<1>9. ASSUME NEW y \in Run, Sound(y, schedule.on), y.asked = x.asked, y.status # "none",
             x.status \in {"planned", "blocked", "queued"},
             row' = [row EXCEPT ![r] = y]
      PROVE  RunsKept
  <2>1. Mild(x, y)
    BY <1>5, <1>9, MildOver
  <2> QED  BY <1>1, <1>3, <1>4, <1>9, <2>1, OneRow
<1> HIDE DEF x
<1>10. CASE LaunchUnblock(l) /\ row' # row
  <2>1. x.status = "blocked"
    BY <1>10 DEF LaunchUnblock, x
  <2>2. CASE launch[l].at = "expire"
    <3>1. row' = [row EXCEPT ![r] = Over(x, "occurrence_expired", x.requested)]
      BY <1>10, <2>1, <2>2 DEF LaunchUnblock, x
    <3>2. x.requested \in SUBSET Keywords /\ "occurrence_expired" \in OverReasons \ {"skipped"}
      BY <1>5 DEF Run, OverReasons
    <3> QED  BY <1>8, <2>1, <3>1, <3>2
  <2>3. CASE launch[l].at = "resume"
    <3> DEFINE y == [x EXCEPT !.status = IF x.started THEN "running" ELSE "queued"]
    <3>1. row' = [row EXCEPT ![r] = y]
      BY <1>10, <2>1, <2>3 DEF LaunchUnblock, x
    <3>2. /\ y \in Run /\ y.asked = x.asked /\ y.status \in {"queued", "running"}
          /\ y.reason = x.reason
      BY <1>5 DEF Run, Statuses
    <3>3. x.asked # NotAsked
      BY <1>4, <2>1, <2>3
    <3>4. Sound(y, schedule.on)
      BY <1>5, <2>1, <3>2, <3>3 DEF Sound, Reserved, Quiet
    <3> HIDE DEF y
    <3> QED  BY <1>9, <2>1, <3>1, <3>2, <3>4
  <2> QED  BY <1>10, <2>2, <2>3 DEF LaunchUnblock
<1>11. CASE LaunchNothing(l) /\ row' # row
  <2>1. PICK reason \in {"no_active_keywords", "targets_in_progress"} : Complete(l, reason)
    BY <1>11 DEF LaunchNothing
  <2>2. /\ x.status = launch[l].status
        /\ row' = [row EXCEPT ![r] = Over(x, reason, launch[l].members)]
    BY <1>11, <2>1 DEF Complete, x
  <2>3. launch[l].members \in SUBSET Keywords /\ reason \in OverReasons \ {"skipped"}
    BY <1>6, <2>1 DEF Launch, OverReasons
  <2> QED  BY <1>4, <1>8, <2>2, <2>3
<1>12. CASE LaunchTargets(l)
  <2> DEFINE y == Launched(x, launch[l].free)
  <2>1. row' = [row EXCEPT ![r] = y]
    BY <1>12 DEF LaunchTargets, x
  <2>2. x.status \in {"planned", "blocked", "queued"} /\ schedule.on
    BY <1>4, <1>12 DEF LaunchTargets, Ready, StillPending, SameStatus, x
  <2>3. [k \in Keywords |-> IF k \in launch[l].free THEN "queued" ELSE x.items[k]]
          \in [Keywords -> ItemStates]
    BY <1>5 DEF Run, ItemStates
  <2>4. y \in Run
    BY <1>5, <2>3 DEF Run, Statuses, OverReasons, Launched
  <2>5. y.asked = x.asked /\ y.status = "queued" /\ y.launched /\ y.reason = "none"
    BY <1>5 DEF Run, Launched
  <2>6. Sound(y, schedule.on)
    BY <2>2, <2>5 DEF Sound, Reserved, Unlaunched
  <2> HIDE DEF y
  <2> QED  BY <1>9, <2>1, <2>2, <2>4, <2>5, <2>6
<1>13. CASE (LaunchBlocked(l) \/ BlockExhausted(l)) /\ row' # row
  <2> DEFINE y == [x EXCEPT !.status = "blocked"]
  <2>1. row' = [row EXCEPT ![r] = y]
    BY <1>13 DEF LaunchBlocked, BlockExhausted, x
  <2>2. x.status = launch[l].status
    BY <1>13 DEF LaunchBlocked, Ready, StillPending, SameStatus, BlockExhausted, x
  <2>3. y \in Run
    BY <1>5 DEF Run, Statuses
  <2>4. /\ y.asked = x.asked /\ y.status = "blocked" /\ y.items = x.items
        /\ y.reason = x.reason
    BY <1>5 DEF Run
  <2>5. Sound(y, schedule.on)
    BY <1>4, <1>5, <2>2, <2>4 DEF Sound, Reserved, Quiet, Unlaunched
  <2> HIDE DEF y
  <2> QED  BY <1>4, <1>9, <2>1, <2>2, <2>3, <2>4, <2>5
<1>14. CASE LaunchLater(l) \/ LaunchExhausted(l)
  BY <1>7, <1>14 DEF LaunchLater, LaunchExhausted
<1> QED  BY <1>7, <1>10, <1>11, <1>12, <1>13, <1>14 DEF LaunchStep

-----------------------------------------------------------------------------
(* Commands for a run, the dispatcher and the reconciler.                   *)

RunCommand(r) ==
  \/ RunNow(r) \/ Skip(r) \/ CancelRun(r)
  \/ \E k \in Keywords : ClaimItem(r, k) \/ FinishItem(r, k)

LEMMA RunCommandKeeps ==
  ASSUME Sizes, OccurrencesInv, NEW r \in Ids, RunCommand(r)
  PROVE  RunsKept /\ UNCHANGED <<world, plan, launch, sweep>>
<1> DEFINE x == row[r]
<1>1. /\ RunsTyped /\ OccurrencesTypeOK
  BY DEF OccurrencesInv, OccurrencesTypeOK, WorldTypeOK, RunsTyped
<1>2. x \in Run /\ Sound(x, schedule.on)
  BY <1>1 DEF RunsTyped
<1>3. schedule.on \in BOOLEAN
  BY <1>1 DEF OccurrencesTypeOK, WorldTypeOK
<1>4. UNCHANGED <<world, plan, launch, sweep>> /\ UNCHANGED schedule
  BY DEF RunCommand, RunNow, Skip, CancelRun, ClaimItem, FinishItem, RunStep, world
<1> HIDE DEF x
<1>5. ASSUME NEW y \in Run, Sound(y, schedule.on), Mild(x, y), RunStep(r, y)
      PROVE  RunsKept
  BY <1>1, <1>4, <1>5, OneRow DEF RunStep, x
<1>6. ASSUME NEW y \in Run, Sound(y, schedule.on), y.asked = x.asked, y.status # "none",
             x.status \in {"blocked", "queued", "running"}, RunStep(r, Settled(y))
      PROVE  RunsKept
  <2>1. /\ Settled(y) \in Run /\ Sound(Settled(y), schedule.on)
        /\ Settled(y) = y \/ Settled(y) = [y EXCEPT !.status = "over"]
    BY <1>3, <1>6, SettledRun
  <2>2. Settled(y).asked = x.asked /\ Settled(y).status # "none"
    BY <1>6, <2>1 DEF Run
  <2>3. Mild(x, Settled(y))
    BY <1>2, <1>6, <2>1, <2>2, MildOver
  <2> QED  BY <1>5, <1>6, <2>1, <2>3
<1>7. ASSUME RunNow(r)
      PROVE  RunsKept
  <2> DEFINE y == [x EXCEPT !.status = "queued", !.at = now, !.asked = edits]
  <2>1. x.status = "planned" /\ RunStep(r, y)
    BY <1>7 DEF RunNow, x
  <2>2. edits \in Nat /\ now \in Nat /\ edits # NotAsked
    BY <1>1 DEF OccurrencesTypeOK, WorldTypeOK, Sizes, NotAsked
  <2>3. y \in Run /\ y.asked = edits /\ y.status = "queued" /\ y.reason = x.reason
    BY <1>2, <2>2 DEF Run, Statuses
  <2>4. Sound(y, schedule.on) /\ Mild(x, y)
    BY <1>2, <2>1, <2>2, <2>3 DEF Sound, Reserved, Quiet, Mild
  <2> HIDE DEF y
  <2> QED  BY <1>5, <2>1, <2>3, <2>4
<1>8. ASSUME Skip(r)
      PROVE  RunsKept
  <2>1. x.status = "planned" /\ RunStep(r, Over(x, "skipped", x.requested))
    BY <1>8 DEF Skip, x
  <2>2. x.requested \in SUBSET Keywords /\ "skipped" \in OverReasons /\ x.items = NoItems
    BY <1>2, <2>1 DEF Run, OverReasons, Sound, Reserved
  <2> QED  BY <1>2, <1>3, <1>5, <2>1, <2>2, OverRun
<1>9. ASSUME CancelRun(r)
      PROVE  RunsKept
  <2> DEFINE y == [x EXCEPT !.status = "cancelling",
                     !.items = [k \in Keywords |-> IF @[k] = "queued" THEN "dropped" ELSE @[k]]]
  <2>1. x.status \in {"blocked", "queued", "running"} /\ RunStep(r, Settled(y))
    BY <1>9 DEF CancelRun, x
  <2>2. [k \in Keywords |-> IF x.items[k] = "queued" THEN "dropped" ELSE x.items[k]]
          \in [Keywords -> ItemStates]
    BY <1>2 DEF Run, ItemStates
  <2>3. y \in Run /\ y.asked = x.asked /\ y.status = "cancelling" /\ y.reason = x.reason
    BY <1>2, <2>2 DEF Run, Statuses
  <2>4. Sound(y, schedule.on)
    BY <1>2, <2>1, <2>3 DEF Sound, Reserved, Quiet, Unlaunched
  <2> HIDE DEF y
  <2> QED  BY <1>6, <2>1, <2>3, <2>4
<1>10. ASSUME NEW k \in Keywords, ClaimItem(r, k)
       PROVE  RunsKept
  <2>1. x.status \in {"queued", "running"} /\ x.items[k] = "queued"
    BY <1>10 DEF ClaimItem, x
  <2>2. x.asked # NotAsked \/ schedule.on
    BY <1>2, <2>1 DEF Sound, Quiet
  <2>3. CASE k \in active
    <3> DEFINE y == [x EXCEPT !.status = "running", !.started = TRUE, !.items[k] = "claimed"]
    <3>1. RunStep(r, y)
      BY <1>10, <2>3 DEF ClaimItem, x
    <3>2. [x.items EXCEPT ![k] = "claimed"] \in [Keywords -> ItemStates]
      BY <1>2 DEF Run, ItemStates
    <3>3. y \in Run /\ y.asked = x.asked /\ y.status = "running" /\ y.reason = x.reason
      BY <1>2, <3>2 DEF Run, Statuses
    <3>4. Sound(y, schedule.on)
      BY <1>2, <2>1, <2>2, <3>3 DEF Sound, Reserved, Quiet, Unlaunched
    <3> HIDE DEF y
    <3>5. Mild(x, y)
      BY <1>2, <2>1, <3>3, MildOver
    <3> QED  BY <1>5, <3>1, <3>3, <3>4, <3>5
  <2>4. CASE k \notin active
    <3> DEFINE y == [x EXCEPT !.items[k] = "dropped"]
    <3>1. RunStep(r, Settled(y))
      BY <1>10, <2>4 DEF ClaimItem, x
    <3>2. [x.items EXCEPT ![k] = "dropped"] \in [Keywords -> ItemStates]
      BY <1>2 DEF Run, ItemStates
    <3>3. /\ y \in Run /\ y.asked = x.asked /\ y.status = x.status /\ y.launched = x.launched
          /\ y.reason = x.reason
      BY <1>2, <3>2 DEF Run
    <3>4. Sound(y, schedule.on)
      BY <1>2, <2>1, <2>2, <3>3 DEF Sound, Reserved, Quiet, Unlaunched
    <3> HIDE DEF y
    <3> QED  BY <1>6, <2>1, <3>1, <3>3, <3>4
  <2> QED  BY <2>3, <2>4
<1>11. ASSUME NEW k \in Keywords, FinishItem(r, k)
       PROVE  RunsKept
  <2> DEFINE y == [x EXCEPT !.items[k] = "done"]
  <2>1. x.items[k] = "claimed" /\ RunStep(r, Settled(y))
    BY <1>11 DEF FinishItem, x
  <2>2. [x.items EXCEPT ![k] = "done"] \in [Keywords -> ItemStates]
    BY <1>2 DEF Run, ItemStates
  <2>3. /\ y \in Run /\ y.asked = x.asked /\ y.status = x.status /\ y.launched = x.launched
        /\ y.reason = x.reason
        /\ \A j \in Keywords : y.items[j] = "queued" => x.items[j] = "queued"
    BY <1>2, <2>2 DEF Run
  <2>4. Sound(y, schedule.on)
    <3>1. /\ x.status # "planned" /\ x.reason # "skipped"
          /\ x.asked = NotAsked => x.status \notin Unlaunched
      BY <1>2, <2>1 DEF Sound, Reserved, NoItems
    <3> QED  BY <1>2, <2>3, <3>1 DEF Sound, Reserved, Quiet
  <2> HIDE DEF y
  <2>5. /\ Settled(y) \in Run /\ Sound(Settled(y), schedule.on)
        /\ Settled(y) = y \/ (/\ y.status \in {"queued", "running", "cancelling"}
                              /\ Settled(y) = [y EXCEPT !.status = "over"])
    BY <1>3, <2>3, <2>4, SettledRun
  <2>6. Mild(x, Settled(y))
    BY <2>1, <2>3, <2>5 DEF Mild, Run
  <2> QED  BY <1>5, <2>1, <2>5, <2>6
<1> QED  BY <1>4, <1>7, <1>8, <1>9, <1>10, <1>11 DEF RunCommand

LEMMA SweepWriteKeeps ==
  ASSUME OccurrencesInv, SweepWrite
  PROVE  RunsKept
<1>1. /\ RunsTyped /\ OccurrencesTypeOK /\ SweepKnows
  BY DEF OccurrencesInv, OccurrencesTypeOK, WorldTypeOK, RunsTyped
<1>2. UNCHANGED schedule
  BY DEF SweepWrite, world
<1>3. CASE row' = row
  BY <1>1, <1>2, <1>3, SameRow
<1>4. CASE row' # row
  <2> DEFINE x == row[sweep.run]
             y == [x EXCEPT !.status = "over"]
  <2>1. /\ sweep.run # 0 /\ x.status = sweep.status
        /\ row' = [row EXCEPT ![sweep.run] = y]
    BY <1>4 DEF SweepWrite
  <2>2. x.status \in {"queued", "running", "cancelling"} /\ sweep.run \in Ids
    BY <1>1, <2>1 DEF SweepKnows, OccurrencesTypeOK, WorldTypeOK
  <2>3. x \in Run /\ Sound(x, schedule.on)
    BY <1>1, <2>2 DEF RunsTyped
  <2> HIDE DEF x
  <2>4. y \in Run /\ y.asked = x.asked /\ y.status = "over" /\ y.reason = x.reason
    BY <2>3 DEF Run, Statuses
  <2>5. Sound(y, schedule.on)
    BY <2>2, <2>3, <2>4 DEF Sound, Reserved, Quiet, Unlaunched
  <2>6. Mild(x, y)
    BY <2>2, <2>3, <2>4, MildOver
  <2> HIDE DEF y
  <2> QED  BY <1>1, <1>2, <2>1, <2>2, <2>4, <2>5, <2>6, OneRow DEF x
<1> QED  BY <1>3, <1>4

-----------------------------------------------------------------------------
(* A pass of the planner.                                                   *)

\* A planned run is new, comes after all others, and each of these is over
\* without anything attempted, or was deleted.
LEMMA PlanOccurrenceAdds ==
  ASSUME Sizes, OccurrencesInv, plan.instant \in Nat, PlanOccurrence, row' # row
  PROVE  \E next \in Ids :
           /\ row' = [row EXCEPT ![next] = Planned]
           /\ row[next].status = "none"
           /\ \A s \in Ids : row[s].status = "none" => next <= s
           /\ \A s \in Rows : s < next
           /\ \A r \in Rows : (\A s \in Rows : s <= r) => Replaceable(row[r])
<1>1. PICK next \in Fresh : /\ \A s \in Fresh : next <= s
                            /\ row' = [row EXCEPT ![next] = Planned]
  BY DEF PlanOccurrence
<1>2. \A r \in Rows : (\A s \in Rows : s <= r) => Replaceable(row[r])
  BY DEF PlanOccurrence
<1>3. next \in Ids /\ row[next].status = "none" /\ \A s \in Ids : row[s].status = "none" => next <= s
  BY <1>1 DEF Fresh
<1>4. \A s \in Rows : s < next
  BY <1>3 DEF OccurrencesInv, RowsInOrder, Rows
<1> QED  BY <1>1, <1>2, <1>3, <1>4

LEMMA PlannedRun ==
  ASSUME Sizes, OccurrencesTypeOK
  PROVE  Planned \in Run /\ Sound(Planned, TRUE) /\ Planned.status = "planned"
<1>1. /\ NoRow \in Run /\ NoRow.asked = NotAsked /\ NoRow.items = NoItems
      /\ NoRow.reason = "none"
  BY NewRows
<1>2. plan.instant \in Nat /\ now \in Nat
  BY DEF OccurrencesTypeOK, WorldTypeOK
<1>3. /\ Planned \in Run /\ Planned.status = "planned"
      /\ Planned.items = NoItems /\ Planned.reason = "none"
  BY <1>1, <1>2 DEF Planned, Run, Statuses
<1> QED  BY <1>3 DEF Sound, Reserved, Unlaunched

\* The steps of a pass either keep all runs or add one.
Adds ==
  \E next \in Ids :
    /\ row' = [row EXCEPT ![next] = Planned]
    /\ row[next].status = "none"
    /\ \A s \in Ids : row[s].status = "none" => next <= s
    /\ \A s \in Rows : s < next
    /\ \A r \in Rows : (\A s \in Rows : s <= r) => Replaceable(row[r])
    /\ schedule.on

LEMMA PlanPersistKeepsOrAdds ==
  ASSUME Sizes, OccurrencesInv, PlanPersist
  PROVE  RunsKept \/ Adds
<1>1. /\ RunsTyped /\ OccurrencesTypeOK
  BY DEF OccurrencesInv, OccurrencesTypeOK, WorldTypeOK, RunsTyped
<1>2. UNCHANGED schedule /\ schedule.on \in BOOLEAN /\ plan.instant \in Nat
  BY <1>1 DEF PlanPersist, world, OccurrencesTypeOK, WorldTypeOK
<1>3. CASE row' = row
  BY <1>1, <1>2, <1>3, SameRow
<1>4. CASE RetireEmpty
  BY <1>1, <1>2, <1>4, RetireEmptyKeeps
<1>5. CASE row' # row /\ ~RetireEmpty
  <2>1. PlanOccurrence /\ schedule.on
    BY <1>5 DEF PlanPersist, Persist
  <2> QED  BY <1>2, <1>5, <2>1, PlanOccurrenceAdds DEF Adds
<1> QED  BY <1>3, <1>4, <1>5

\* What a step keeps of the order of the rows and of their succession.
LEMMA KeptOrder ==
  ASSUME OccurrencesInv, RunsKept
  PROVE  RowsInOrder' /\ WorkIsNotRepeated'
<1>1. \A r \in Ids : Mild(row[r], row'[r])
  BY DEF RunsKept
<1>2. RowsInOrder'
  BY <1>1 DEF OccurrencesInv, RowsInOrder, Mild
<1>3. ASSUME NEW r \in Rows', NEW s \in Rows', r < s
      PROVE  /\ row'[r].status = "over" /\ ~row'[r].started /\ row'[r].reason # "skipped"
             /\ \A k \in Keywords : row'[r].items[k] \in {"none", "retired"}
  <2>1. r \in Rows /\ s \in Rows
    BY <1>1 DEF Rows, Mild
  <2>2. /\ row[r].status = "over" /\ ~row[r].started /\ row[r].reason # "skipped"
        /\ \A k \in Keywords : row[r].items[k] \in {"none", "retired"}
    BY <1>3, <2>1 DEF OccurrencesInv, WorkIsNotRepeated
  <2>3. row'[r] = row[r]
    <3>1. \A k \in Keywords : row[r].items[k] # "claimed"
      BY <2>2
    <3> QED  BY <1>1, <2>1, <2>2, <3>1 DEF Mild, Rows
  <2> QED  BY <2>2, <2>3
<1> QED  BY <1>2, <1>3 DEF WorkIsNotRepeated

LEMMA ReplaceableRun ==
  ASSUME NEW x, Replaceable(x)
  PROVE  /\ x.status = "over" /\ ~x.started
         /\ x.reason # "skipped" \/ x.items # NoItems
         /\ \A k \in Keywords : x.items[k] \in {"none", "retired"}
BY DEF Replaceable, AllRetired, PutOff, NoItems

LEMMA AddsKeeps ==
  ASSUME Sizes, OccurrencesInv, Adds, UNCHANGED schedule
  PROVE  /\ RunsTyped' /\ RowsInOrder' /\ WorkIsNotRepeated'
         /\ \A r \in Ids : row[r].status # "none" => row'[r] = row[r]
<1>1. PICK next \in Ids :
        /\ row' = [row EXCEPT ![next] = Planned]
        /\ row[next].status = "none"
        /\ \A s \in Ids : row[s].status = "none" => next <= s
        /\ \A s \in Rows : s < next
        /\ \A r \in Rows : (\A s \in Rows : s <= r) => Replaceable(row[r])
        /\ schedule.on
  BY DEF Adds
<1>2. RunsTyped /\ OccurrencesTypeOK /\ RowsInOrder
  BY DEF OccurrencesInv, OccurrencesTypeOK, WorldTypeOK, RunsTyped
<1>3. Planned \in Run /\ Sound(Planned, TRUE) /\ Planned.status = "planned"
  BY <1>2, PlannedRun
<1>4. \A r \in Ids : row'[r] = IF r = next THEN Planned ELSE row[r]
  BY <1>1, <1>2 DEF RunsTyped
<1>5. RunsTyped'
  <2>1. row' \in [Ids -> Run]
    BY <1>1, <1>2, <1>3 DEF RunsTyped
  <2>2. schedule.on = TRUE
    BY <1>1, <1>2 DEF OccurrencesTypeOK, WorldTypeOK
  <2>3. \A r \in Ids : Sound(row'[r], schedule'.on)
    BY <1>2, <1>3, <1>4, <2>2 DEF RunsTyped
  <2> QED  BY <2>1, <2>3 DEF RunsTyped
<1>6. \A r \in Ids : row[r].status # "none" => row'[r] = row[r]
  BY <1>1, <1>4
<1>7. RowsInOrder'
  <2> SUFFICES ASSUME NEW r \in Ids, NEW s \in Ids,
                      row'[r].status = "none", row'[s].status # "none"
               PROVE  s < r
    BY DEF RowsInOrder
  <2>1. r # next /\ row[r].status = "none"
    BY <1>3, <1>4
  <2>2. CASE s = next
    BY <1>1, <2>1, <2>2 DEF Sizes
  <2>3. CASE s # next
    BY <1>2, <1>4, <2>1, <2>3 DEF RowsInOrder
  <2> QED  BY <2>2, <2>3
<1>8. ASSUME NEW r \in Rows', NEW s \in Rows', r < s
      PROVE  /\ row'[r].status = "over" /\ ~row'[r].started /\ row'[r].reason # "skipped"
             /\ \A k \in Keywords : row'[r].items[k] \in {"none", "retired"}
  <2>1. r \in Ids /\ s \in Ids
    BY DEF Rows
  <2>2. \A t \in Rows' : t # next => t \in Rows
    BY <1>4 DEF Rows
  <2>3. r # next
    <3>1. ASSUME r = next
          PROVE  FALSE
      <4>1. s # next /\ s \in Rows
        BY <1>8, <2>1, <2>2, <3>1 DEF Sizes
      <4> QED  BY <1>1, <1>8, <2>1, <3>1, <4>1 DEF Sizes
    <3> QED  BY <3>1
  <2>4. r \in Rows /\ row'[r] = row[r]
    BY <1>4, <2>1, <2>2, <2>3
  <2>5. CASE \E t \in Rows : r < t
    BY <2>4, <2>5 DEF OccurrencesInv, WorkIsNotRepeated
  <2>6. CASE \A t \in Rows : ~(r < t)
    <3>1. \A t \in Rows : t <= r
      BY <2>1, <2>6 DEF Sizes, Rows
    <3>2. Replaceable(row[r])
      BY <1>1, <2>4, <3>1
    <3>3. Reserved(row[r])
      BY <1>2, <2>1 DEF RunsTyped, Sound
    <3> QED  BY <2>4, <3>2, <3>3, ReplaceableRun DEF Reserved
  <2> QED  BY <2>5, <2>6
<1> QED  BY <1>5, <1>6, <1>7, <1>8 DEF WorkIsNotRepeated

-----------------------------------------------------------------------------
(* What a launch and the reconciler read.                                   *)

LEMMA LaunchReadKnows ==
  ASSUME Sizes, OccurrencesInv, NEW l \in Launchers, NEW r \in Ids, LaunchRead(l, r)
  PROVE  LaunchesKnow' /\ launch' \in [Launchers -> Launch]
<1> DEFINE new == [at |-> CASE row[r].status = "blocked" /\ ~Empty(r) -> "resume"
                            [] Empty(r) /\ Expired(r) -> "expire"
                            [] OTHER -> "launch",
                   run |-> r, status |-> row[r].status, members |-> member,
                   found |-> member \cap active,
                   free |-> (member \cap active) \ InProgress]
<1>1. OccurrencesTypeOK /\ LaunchesKnow /\ row[r] \in Run /\ Reserved(row[r])
  BY DEF OccurrencesInv, OccurrencesTypeOK, WorldTypeOK, Sound
<1>2. launch' = [launch EXCEPT ![l] = new] /\ UNCHANGED row
  BY DEF LaunchRead
<1>3. /\ new.at \in LaunchSteps /\ new.run = r /\ new.status = row[r].status
      /\ new.at = "resume" => row[r].status = "blocked" /\ ~Empty(r)
  BY DEF LaunchSteps
<1>4. new \in Launch
  BY <1>1, <1>3 DEF Launch, Run, OccurrencesTypeOK, WorldTypeOK
<1>5. /\ row[r].status \in {"planned", "blocked", "queued"}
      /\ row[r].status = "queued" => ~row[r].launched
  BY DEF LaunchRead, Due, BroughtForward, Unlaunched
<1>6. new.at = "resume" \/ new.status = "queued" => row[r].asked # NotAsked
  BY <1>1, <1>3, <1>5 DEF Reserved, Empty, Unlaunched
<1> HIDE DEF new
<1>7. \A m \in Launchers : launch'[m] = IF m = l THEN new ELSE launch[m]
  BY <1>1, <1>2 DEF OccurrencesTypeOK, WorldTypeOK
<1>8. LaunchesKnow'
  <2> SUFFICES ASSUME NEW m \in Launchers, launch'[m].at # "idle"
               PROVE  /\ launch'[m].run \in Ids
                      /\ row'[launch'[m].run].status # "none"
                      /\ launch'[m].status \in {"planned", "blocked", "queued"}
                      /\ launch'[m].at = "resume" \/ launch'[m].status = "queued"
                           => \/ row'[launch'[m].run].asked # NotAsked
                              \/ row'[launch'[m].run].status = "deleted"
    BY DEF LaunchesKnow
  <2>1. CASE m = l
    BY <1>2, <1>3, <1>5, <1>6, <1>7, <2>1
  <2>2. CASE m # l
    <3>1. launch'[m] = launch[m]
      BY <1>7, <2>2
    <3> QED  BY <1>1, <1>2, <3>1 DEF LaunchesKnow
  <2> QED  BY <2>1, <2>2
<1>9. launch' \in [Launchers -> Launch]
  BY <1>1, <1>2, <1>4 DEF OccurrencesTypeOK, WorldTypeOK
<1> QED  BY <1>8, <1>9

LEMMA SweepReadKnows ==
  ASSUME OccurrencesInv, NEW r \in Ids, SweepRead(r)
  PROVE  SweepKnows' /\ sweep' \in [run : Ids \cup {0}, status : Statuses]
<1>1. row[r].status \in {"queued", "running", "cancelling"}
  BY DEF SweepRead, Settled
<1>2. sweep' = [run |-> r, status |-> row[r].status]
  BY DEF SweepRead
<1> QED  BY <1>1, <1>2 DEF SweepKnows, Statuses

-----------------------------------------------------------------------------
(* Every step.                                                              *)

EditStep ==
  \/ ChangeCadence \/ ArchiveSchedule \/ ShiftTimezone
  \/ Surroundings \/ Tick
  \/ \E k \in Keywords : MoveKeyword(k)

LEMMA EditStepKeeps ==
  ASSUME Sizes, OccurrencesInv, EditStep
  PROVE  RunsKept /\ WorldTypeOK' /\ UNCHANGED <<plan, launch, sweep>>
<1>1. RunsTyped /\ WorldTypeOK
  BY DEF OccurrencesInv, OccurrencesTypeOK, RunsTyped
<1>2. schedule.on \in BOOLEAN
  BY <1>1 DEF WorldTypeOK
<1>3. Edit => /\ edits' \in 0..MaxEdits
              /\ UNCHANGED <<now, active, busy, plan, launch, sweep>>
  BY <1>1 DEF Edit, WorldTypeOK, Sizes
<1>4. ASSUME ChangeCadence
      PROVE  RunsKept /\ WorldTypeOK' /\ UNCHANGED <<plan, launch, sweep>>
  <2>1. PICK on \in BOOLEAN, time \in Times :
          schedule' = [schedule EXCEPT !.on = on, !.time = time]
    BY <1>4 DEF ChangeCadence
  <2>2. schedule' \in [on : BOOLEAN, time : Nat, zone : {0, 1}]
    BY <1>1, <2>1 DEF Sizes, WorldTypeOK
  <2>3. UNCHANGED member /\ Reconcile(TRUE) /\ Edit
    BY <1>4 DEF ChangeCadence
  <2>4. schedule'.on \in BOOLEAN
    BY <2>2
  <2>5. RunsKept
    BY <1>1, <1>2, <2>3, <2>4, ReconcileKeeps
  <2> QED  BY <1>1, <1>3, <2>2, <2>3, <2>5 DEF WorldTypeOK
<1>5. ASSUME ArchiveSchedule
      PROVE  RunsKept /\ WorldTypeOK' /\ UNCHANGED <<plan, launch, sweep>>
  <2>1. schedule' \in [on : BOOLEAN, time : Nat, zone : {0, 1}] /\ schedule'.on \in BOOLEAN
    BY <1>1, <1>5 DEF ArchiveSchedule, WorldTypeOK
  <2>2. member' = {} /\ Reconcile(TRUE) /\ Edit
    BY <1>5 DEF ArchiveSchedule
  <2>3. RunsKept
    BY <1>1, <1>2, <2>1, <2>2, ReconcileKeeps
  <2> QED  BY <1>1, <1>3, <2>1, <2>2, <2>3 DEF WorldTypeOK
<1>6. ASSUME ShiftTimezone
      PROVE  RunsKept /\ WorldTypeOK' /\ UNCHANGED <<plan, launch, sweep>>
  <2>1. /\ schedule' \in [on : BOOLEAN, time : Nat, zone : {0, 1}]
        /\ schedule'.on = schedule.on
    BY <1>1, <1>6 DEF ShiftTimezone, WorldTypeOK
  <2>2. UNCHANGED <<member, row>> /\ Edit
    BY <1>6 DEF ShiftTimezone
  <2>3. RunsKept
    BY <1>1, <2>1, <2>2 DEF RunsTyped, RunsKept, Mild
  <2> QED  BY <1>1, <1>3, <2>1, <2>2, <2>3 DEF WorldTypeOK
<1>7. ASSUME Surroundings
      PROVE  RunsKept /\ WorldTypeOK' /\ UNCHANGED <<plan, launch, sweep>>
  <2>1. UNCHANGED <<now, schedule, member, row, plan, launch, sweep>>
    BY <1>7 DEF Surroundings
  <2>2. edits' \in 0..MaxEdits
    BY <1>1, <1>7 DEF Surroundings, WorldTypeOK, Sizes
  <2>3. active' \in SUBSET Keywords /\ busy' \in SUBSET Keywords
    BY <1>1, <1>7 DEF Surroundings, WorldTypeOK
  <2>4. RunsKept
    BY <1>1, <2>1, SameRow
  <2> QED  BY <1>1, <2>1, <2>2, <2>3, <2>4 DEF WorldTypeOK
<1>8. ASSUME Tick
      PROVE  RunsKept /\ WorldTypeOK' /\ UNCHANGED <<plan, launch, sweep>>
  <2>1. UNCHANGED <<schedule, member, active, busy, edits, row, plan, launch, sweep>>
    BY <1>8 DEF Tick
  <2>2. now' \in Nat
    BY <1>1, <1>8 DEF Tick, WorldTypeOK
  <2>3. RunsKept
    BY <1>1, <2>1, SameRow
  <2> QED  BY <1>1, <2>1, <2>2, <2>3 DEF WorldTypeOK
<1>9. ASSUME NEW k \in Keywords, MoveKeyword(k)
      PROVE  RunsKept /\ WorldTypeOK' /\ UNCHANGED <<plan, launch, sweep>>
  <2>1. member' \in SUBSET Keywords
    BY <1>1, <1>9 DEF MoveKeyword, WorldTypeOK
  <2>2. UNCHANGED schedule /\ Reconcile(FALSE) /\ Edit
    BY <1>9 DEF MoveKeyword
  <2>3. RunsKept
    BY <1>1, <1>2, <2>2, ReconcileKeeps
  <2> QED  BY <1>1, <1>3, <2>1, <2>2, <2>3 DEF WorldTypeOK
<1> QED  BY <1>4, <1>5, <1>6, <1>7, <1>8, <1>9 DEF EditStep

PlanTyped ==
  plan \in [at : {"idle", "read", "retired"}, time : Nat, instant : Nat,
            members : SUBSET Keywords]

\* A step that keeps all runs and forgets nothing it may not.
LEMMA KeptInv ==
  ASSUME Sizes, OccurrencesInv, RunsKept, WorldTypeOK', PlanTyped',
         launch' \in [Launchers -> Launch], LaunchGoesOn,
         UNCHANGED sweep \/ sweep' = NoSweep
  PROVE  OccurrencesInv'
<1>1. RunsTyped' /\ \A r \in Ids : Mild(row[r], row'[r])
  BY DEF RunsKept
<1>2. RowsInOrder' /\ WorkIsNotRepeated'
  BY KeptOrder
<1>3. LaunchesKnow'
  BY <1>1, LaunchesStillKnow DEF OccurrencesInv
<1>4. SweepKnows' /\ sweep' \in [run : Ids \cup {0}, status : Statuses]
  BY DEF OccurrencesInv, OccurrencesTypeOK, SweepKnows, NoSweep, Statuses
<1> QED  BY <1>1, <1>2, <1>3, <1>4 DEF OccurrencesInv, OccurrencesTypeOK, RunsTyped, PlanTyped

LEMMA OccurrencesInit ==
  ASSUME Sizes, Init
  PROVE  OccurrencesInv
<1>1. /\ NoRow \in Run /\ NoRow.asked = NotAsked /\ NoRow.items = NoItems
      /\ NoRow.status = "none" /\ NoRow.reason = "none"
  BY NewRows
<1>2. row = [r \in Ids |-> NoRow]
  BY DEF Init
<1>3. row \in [Ids -> Run] /\ \A r \in Ids : row[r].status = "none"
  BY <1>1, <1>2
<1>4. \A r \in Ids : Sound(row[r], schedule.on)
  BY <1>1, <1>2 DEF Sound, Reserved, Quiet, Unlaunched
<1>5. RowsInOrder /\ WorkIsNotRepeated
  BY <1>3 DEF RowsInOrder, WorkIsNotRepeated, Rows
<1>6. NoLaunch \in Launch /\ NoLaunch.at = "idle"
  BY DEF NoLaunch, Launch, LaunchSteps, Statuses
<1>7. LaunchesKnow /\ SweepKnows /\ launch \in [Launchers -> Launch]
  BY <1>6 DEF Init, LaunchesKnow, SweepKnows, NoSweep
<1>8. WorldTypeOK
  <2>1. schedule \in [on : BOOLEAN, time : Nat, zone : {0, 1}]
    BY DEF Init, Sizes
  <2>2. now \in Nat /\ edits \in 0..MaxEdits
    BY DEF Init, Sizes
  <2>3. member \in SUBSET Keywords /\ active \in SUBSET Keywords /\ busy \in SUBSET Keywords
    BY DEF Init
  <2> QED  BY <2>1, <2>2, <2>3 DEF WorldTypeOK
<1>9. PlanTyped /\ sweep \in [run : Ids \cup {0}, status : Statuses]
  BY DEF Init, PlanTyped, NoPlan, NoSweep, Statuses
<1> QED
  BY <1>3, <1>4, <1>5, <1>7, <1>8, <1>9 DEF OccurrencesInv, OccurrencesTypeOK, PlanTyped

LEMMA OccurrencesNext ==
  ASSUME Sizes, OccurrencesInv, [Next]_occurrenceVars
  PROVE  OccurrencesInv' /\ EndedStays
<1>1. /\ RunsTyped /\ WorldTypeOK /\ PlanTyped /\ launch \in [Launchers -> Launch]
      /\ OccurrencesTypeOK
  BY DEF OccurrencesInv, OccurrencesTypeOK, RunsTyped, PlanTyped
<1>2. UNCHANGED launch => LaunchGoesOn
  BY DEF LaunchGoesOn
<1>3. UNCHANGED world => WorldTypeOK' /\ UNCHANGED schedule
  BY <1>1 DEF WorldTypeOK, world
<1>4. UNCHANGED plan => PlanTyped'
  BY <1>1 DEF PlanTyped
<1>5. RunsKept => EndedStays
  BY DEF RunsKept, EndedStays, Mild
<1>6. CASE EditStep
  BY <1>1, <1>2, <1>4, <1>5, <1>6, EditStepKeeps, KeptInv
<1>7. CASE PlanRead
  <2>1. UNCHANGED <<world, row, launch, sweep>>
    BY <1>7 DEF PlanRead
  <2>2. PlanTyped'
    BY <1>1, <1>7 DEF PlanRead, PlanTyped, WorldTypeOK, Instant
  <2>3. RunsKept
    BY <1>1, <1>3, <2>1, SameRow
  <2> QED  BY <1>1, <1>2, <1>3, <1>5, <2>1, <2>2, <2>3, KeptInv
<1>8. CASE PlanRetire
  <2>1. UNCHANGED <<world, launch, sweep>> /\ row' = RetireObsolete
    BY <1>8 DEF PlanRetire
  <2>2. PlanTyped'
    BY <1>1, <1>8 DEF PlanRetire, PlanTyped
  <2>3. schedule.on \in BOOLEAN
    BY <1>1 DEF WorldTypeOK
  <2>4. RunsKept
    BY <1>1, <1>3, <2>1, <2>3, RetireObsoleteKeeps
  <2> QED  BY <1>1, <1>2, <1>3, <1>5, <2>1, <2>2, <2>4, KeptInv
<1>9. CASE PlanPersist
  <2>1. UNCHANGED <<world, launch, sweep>> /\ plan' = NoPlan
    BY <1>9 DEF PlanPersist
  <2>2. PlanTyped'
    BY <2>1 DEF PlanTyped, NoPlan
  <2>3. CASE RunsKept
    BY <1>1, <1>2, <1>3, <1>5, <2>1, <2>2, <2>3, KeptInv
  <2>4. CASE Adds
    <3>1. /\ RunsTyped' /\ RowsInOrder' /\ WorkIsNotRepeated'
          /\ \A r \in Ids : row[r].status # "none" => row'[r] = row[r]
      BY <1>3, <2>1, <2>4, AddsKeeps
    <3>2. \A r \in Ids : row[r].status # "none" => Mild(row[r], row'[r])
      BY <3>1 DEF Mild
    <3>3. LaunchesKnow'
      BY <1>2, <2>1, <3>2, LaunchesStillKnow DEF OccurrencesInv
    <3>4. SweepKnows'
      BY <2>1 DEF OccurrencesInv, SweepKnows
    <3>5. OccurrencesTypeOK'
      BY <1>1, <1>3, <2>1, <2>2, <3>1 DEF OccurrencesTypeOK, RunsTyped, PlanTyped
    <3>6. EndedStays
      BY <3>1 DEF EndedStays
    <3> QED  BY <3>1, <3>3, <3>4, <3>5, <3>6 DEF OccurrencesInv, RunsTyped
  <2> QED  BY <1>9, <2>3, <2>4, PlanPersistKeepsOrAdds
<1>10. ASSUME NEW l \in Launchers, NEW r \in Ids, LaunchRead(l, r)
       PROVE  OccurrencesInv' /\ EndedStays
  <2>1. UNCHANGED <<world, row, plan, sweep>>
    BY <1>10 DEF LaunchRead
  <2>2. LaunchesKnow' /\ launch' \in [Launchers -> Launch]
    BY <1>10, LaunchReadKnows
  <2>3. RunsKept
    BY <1>1, <1>3, <2>1, SameRow
  <2>4. RowsInOrder' /\ WorkIsNotRepeated'
    BY <2>3, KeptOrder
  <2>5. SweepKnows'
    BY <2>1 DEF OccurrencesInv, SweepKnows
  <2>6. OccurrencesTypeOK'
    BY <1>1, <1>3, <1>4, <2>1, <2>2, <2>3
    DEF OccurrencesTypeOK, RunsKept, RunsTyped, PlanTyped
  <2> QED  BY <1>5, <2>2, <2>3, <2>4, <2>5, <2>6 DEF OccurrencesInv, RunsKept, RunsTyped
<1>11. ASSUME NEW l \in Launchers, LaunchStep(l)
       PROVE  OccurrencesInv' /\ EndedStays
  <2>1. RunsKept
    BY <1>11, LaunchStepKeeps
  <2>2. /\ LaunchGoesOn /\ launch' \in [Launchers -> Launch]
        /\ UNCHANGED <<world, plan, sweep>>
    BY <1>1, <1>11, LaunchStepGoesOn
  <2> QED  BY <1>3, <1>4, <1>5, <2>1, <2>2, KeptInv
<1>12. ASSUME NEW r \in Ids, RunCommand(r)
       PROVE  OccurrencesInv' /\ EndedStays
  <2>1. RunsKept /\ UNCHANGED <<world, plan, launch, sweep>>
    BY <1>12, RunCommandKeeps
  <2> QED  BY <1>1, <1>2, <1>3, <1>4, <1>5, <2>1, KeptInv
<1>13. ASSUME NEW r \in Ids, SweepRead(r)
       PROVE  OccurrencesInv' /\ EndedStays
  <2>1. UNCHANGED <<world, row, plan, launch>>
    BY <1>13 DEF SweepRead
  <2>2. SweepKnows' /\ sweep' \in [run : Ids \cup {0}, status : Statuses]
    BY <1>13, SweepReadKnows
  <2>3. RunsKept
    BY <1>1, <1>3, <2>1, SameRow
  <2>4. RowsInOrder' /\ WorkIsNotRepeated'
    BY <2>3, KeptOrder
  <2>5. LaunchesKnow'
    BY <2>1 DEF OccurrencesInv, LaunchesKnow
  <2>6. OccurrencesTypeOK'
    BY <1>1, <1>3, <1>4, <2>1, <2>2, <2>3
    DEF OccurrencesTypeOK, RunsKept, RunsTyped, PlanTyped
  <2> QED  BY <1>5, <2>2, <2>3, <2>4, <2>5, <2>6 DEF OccurrencesInv, RunsKept, RunsTyped
<1>14. CASE SweepWrite
  <2>1. RunsKept
    BY <1>14, SweepWriteKeeps
  <2>2. UNCHANGED <<world, plan, launch>> /\ sweep' = NoSweep
    BY <1>14 DEF SweepWrite
  <2> QED  BY <1>1, <1>2, <1>3, <1>4, <1>5, <2>1, <2>2, KeptInv
<1>15. CASE UNCHANGED occurrenceVars
  <2>1. UNCHANGED <<world, row, plan, launch, sweep>>
    BY <1>15 DEF occurrenceVars
  <2>2. RunsKept
    BY <1>1, <1>3, <2>1, SameRow
  <2> QED  BY <1>1, <1>2, <1>3, <1>4, <1>5, <2>1, <2>2, KeptInv
<1> QED
  BY <1>6, <1>7, <1>8, <1>9, <1>10, <1>11, <1>12, <1>13, <1>14, <1>15
  DEF Next, EditStep, LaunchStep, RunCommand

LEMMA OccurrencesSafe ==
  ASSUME Sizes
  PROVE  Spec => []OccurrencesInv /\ [][EndedStays]_occurrenceVars
<1>1. Init => OccurrencesInv
  BY OccurrencesInit
<1>2. OccurrencesInv /\ [Next]_occurrenceVars => OccurrencesInv' /\ [EndedStays]_occurrenceVars
  BY OccurrencesNext
<1> QED  BY <1>1, <1>2, PTL DEF Spec

\* An occurrence has a second run only if nothing of the first one's work was
\* attempted and nobody skipped or cancelled it, in whatever order passes,
\* launches, commands and changes of the schedule come
\* (occurrence-replacement.ts, persist-occurrence.ts).
THEOREM NoWorkIsPlannedTwice == ASSUME Sizes PROVE Spec => []WorkIsNotRepeated
<1>1. OccurrencesInv => WorkIsNotRepeated
  BY DEF OccurrencesInv
<1> QED  BY <1>1, OccurrencesSafe, PTL

\* A schedule that is paused or archived has nothing waiting and nothing to
\* claim but what a person brought forward, whatever passes and launches had
\* read it before (reconcile-schedule.ts, persist-occurrence.ts, materialize.ts).
THEOREM PausedScheduleIsQuiet == ASSUME Sizes PROVE Spec => []PausedIsQuiet
<1>1. OccurrencesInv => PausedIsQuiet
  BY DEF OccurrencesInv, OccurrencesTypeOK, Sound, Quiet, PausedIsQuiet, Rows
<1> QED  BY <1>1, OccurrencesSafe, PTL

\* A run that has ended or was deleted is not brought back by a launch or a
\* sweep that read it before (materialize.ts, finalize.ts).
THEOREM EndedRunsStay == ASSUME Sizes PROVE Spec => FinishedStays
BY OccurrencesSafe, PTL DEF FinishedStays

=============================================================================

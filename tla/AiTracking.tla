----------------------------- MODULE AiTracking -----------------------------
(***************************************************************************)
(* One run of the prompt tracker: samples of AI answers, each bought with  *)
(* a single POST and, for queued endpoints, collected later by its task    *)
(* (lib/ai-tracking/execution/sample.ts, stores/samples.ts, stores/runs.ts *)
(* and the workflow and activity in lib/temporal/ai-tracking-*.ts).        *)
(*                                                                         *)
(* Executions of a sample overlap: an attempt of the activity goes on after*)
(* its timeout, a cancelled workflow collects while its last activity still*)
(* runs, and the sweep of intents starts a new workflow after an old one.  *)
(* Every write is a compare-and-set on the dispatch state of the sample,   *)
(* under the lock of the project.  The journal of paid requests (see       *)
(* PaidRequests) has one row for each sample, whose key is derived from    *)
(* the attempt of the sample.                                              *)
(***************************************************************************)
EXTENDS Naturals

CONSTANTS Samples,    \* of the run
          Queued,     \* samples that are posted as a task and collected later
          Workers,    \* executions that overlap
          Answers,    \* what an answer may measure
          MaxFaults   \* executions that break off

VARIABLES
  run,      \* state of the run
  sample,   \* sample[s]: its row
  ledger,   \* ledger[s]: its row in the journal of paid requests
  exec,     \* exec[w]: where an execution stands, and what it read
  expired,  \* the deadline of the run has passed
  posted,   \* samples whose POST was sent (history)
  told,     \* samples whose answer an execution read (history)
  faults

trackingVars == <<run, sample, ledger, exec, expired, posted, told, faults>>

OpenRuns == {"planned", "running"}
Concluded == {"completed", "partial", "blocked", "failed"}

\* A sample is planned, claimed, submission_started, submitted, collecting,
\* submission_unknown or terminal.  What its receipt says of the cost: none,
\* zero (proven), unknown, deposit (may still be refunded) or known.
NewSample == [dispatch |-> "planned", task |-> FALSE, receipt |-> "none", measured |-> "none"]
NoEntry == [op |-> "none", fenced |-> FALSE]

\* from is the dispatch state that the next write of the execution expects.
Idle == [at |-> "idle", of |-> CHOOSE s \in Samples : TRUE, from |-> "planned",
         receipt |-> "none", measured |-> "none"]

Init ==
  /\ run = "planned"
  /\ sample = [s \in Samples |-> NewSample]
  /\ ledger = [s \in Samples |-> NoEntry]
  /\ exec = [w \in Workers |-> Idle]
  /\ expired = FALSE
  /\ posted = {}
  /\ told = {}
  /\ faults = 0

Of(w) == exec[w].of
Goes(w, to) == exec' = [exec EXCEPT ![w].at = to]
Ends(w) == exec' = [exec EXCEPT ![w] = Idle]
history == <<expired, posted, told, faults>>

-----------------------------------------------------------------------------
(* Writes to a sample and its run.                                          *)

Terminal(s) == sample[s].dispatch = "terminal"

\* finishRun: what the run becomes with these rows of its samples.
Outcome(rows) ==
  LET measured == {rows[s].measured : s \in Samples}
  IN IF measured = {"answer_present"} THEN "completed"
     ELSE IF measured \cap {"answer_present", "partial"} # {} THEN "partial"
     ELSE IF measured = {"unavailable"} THEN "blocked" ELSE "failed"

\* Here and below: variants with a fault a change could introduce, which the
\* runs tell from the code.  They are not part of the specification.
FinishDespiteDoubt(rows) ==
  IF run \in OpenRuns /\ \A s \in Samples : rows[s].dispatch \in {"terminal", "submission_unknown"}
  THEN Outcome(rows) ELSE run

FinishRun(rows) ==
  IF run \in OpenRuns /\ \A s \in Samples : rows[s].dispatch = "terminal"
  THEN Outcome(rows) ELSE run

\* transitionTrackingSample: a compare-and-set; no submission of a cancelled run.
MayMove(s, from, to) ==
  /\ sample[s].dispatch = from
  /\ to = "submission_started" => run # "cancelled"

Moved(s, to, receipt) ==
  sample' = [sample EXCEPT ![s].dispatch = to, ![s].receipt = receipt]

\* Variant: any sample that is not over takes the result.
MayPersistUnlessOver(w) == ~Terminal(Of(w))

\* persistTrackingResult, in one transaction with finishRun.
MayPersist(w) == sample[Of(w)].dispatch = exec[w].from

Persist(w) ==
  /\ exec[w].at = "persist"
  /\ IF MayPersist(w)
     THEN /\ sample' = [sample EXCEPT ![Of(w)] =
               [@ EXCEPT !.dispatch = "terminal", !.receipt = exec[w].receipt,
                         !.measured = exec[w].measured]]
          /\ run' = FinishRun(sample')
     ELSE UNCHANGED <<sample, run>>
  /\ Ends(w)
  /\ UNCHANGED <<ledger, history>>

\* cancelTrackingRun.
Unsubmitted(s) == sample[s].dispatch \in {"planned", "claimed"}

CancelRun ==
  /\ run \in OpenRuns
  /\ run' = "cancelled"
  /\ sample' = [s \in Samples |->
       IF Unsubmitted(s)
       THEN [sample[s] EXCEPT !.dispatch = "terminal", !.measured = "unavailable"]
       ELSE sample[s]]
  /\ UNCHANGED <<ledger, exec, history>>

-----------------------------------------------------------------------------
(* executeTrackingSample, from the row it loads to its first write.         *)

\* Where the row that was read leads.
Entry(s) ==
  CASE sample[s].task -> IF sample[s].dispatch = "collecting" THEN "get" ELSE "collect"
    [] ~sample[s].task /\ sample[s].dispatch = "submission_started" -> "suspect"
    [] ~sample[s].task /\ sample[s].dispatch = "planned" -> "claim"
    [] ~sample[s].task /\ sample[s].dispatch = "claimed" -> "prepare"
    [] OTHER -> "idle"

\* A cancelled run goes on only with what it may have bought.
Load(w, s) ==
  /\ exec[w].at = "idle"
  /\ ~Terminal(s)
  /\ Entry(s) # "idle"
  /\ Entry(s) \in {"claim", "prepare"} => run # "cancelled"
  /\ exec' = [exec EXCEPT ![w] =
       [Idle EXCEPT !.at = Entry(s), !.of = s, !.from = sample[s].dispatch,
                    !.receipt = sample[s].receipt]]
  /\ UNCHANGED <<run, sample, ledger, history>>

\* A submission that began and left no task: nobody knows what became of it.
Suspect(w) ==
  /\ exec[w].at = "suspect"
  /\ IF MayMove(Of(w), "submission_started", "submission_unknown")
     THEN Moved(Of(w), "submission_unknown", sample[Of(w)].receipt)
     ELSE UNCHANGED sample
  /\ Ends(w)
  /\ UNCHANGED <<run, ledger, history>>

\* claimTrackingSample.
Claim(w) ==
  /\ exec[w].at = "claim"
  /\ IF sample[Of(w)].dispatch = "planned" /\ run \in OpenRuns
     THEN /\ Moved(Of(w), "claimed", "none")
          /\ run' = "running"
          /\ Goes(w, "prepare")
     ELSE Ends(w) /\ UNCHANGED <<sample, run>>
  /\ UNCHANGED <<ledger, history>>

-----------------------------------------------------------------------------
(* Buying: admission, journal, barrier, POST.                               *)

\* What was approved no longer holds, or the deadline has passed: a result that
\* says so, and that nothing was sent.
Refused(w, from) ==
  exec' = [exec EXCEPT ![w].at = "persist", ![w].from = from,
                       ![w].receipt = "zero", ![w].measured = "unavailable"]

Prepare(w) ==
  /\ exec[w].at = "prepare"
  /\ \/ ~expired /\ Goes(w, "begin")
     \/ Refused(w, "claimed")
  /\ UNCHANGED <<run, sample, ledger, history>>

\* The journal has one row for the attempt of the sample: a second one finds it
\* there.  A budget may refuse, and the sample waits for another execution.
Begin(w) ==
  /\ exec[w].at = "begin"
  /\ \/ /\ ledger[Of(w)] = NoEntry
        /\ ledger' = [ledger EXCEPT ![Of(w)].op = "intended"]
        /\ Goes(w, "fence")
        /\ UNCHANGED sample
     \/ Ends(w) /\ UNCHANGED <<sample, ledger>>
  /\ UNCHANGED <<run, history>>

\* The journal has the attempt already, or fails; it then says which attempt is
\* to be reconciled.
BeginUnsure(w) ==
  /\ exec[w].at = "begin"
  /\ IF MayMove(Of(w), "claimed", "submission_unknown")
     THEN Moved(Of(w), "submission_unknown", "unknown")
     ELSE UNCHANGED sample
  /\ \/ ledger[Of(w)] # NoEntry /\ UNCHANGED <<ledger, faults>>
     \/ /\ ledger[Of(w)] = NoEntry
        /\ faults < MaxFaults
        /\ faults' = faults + 1
        /\ ledger' \in {ledger, [ledger EXCEPT ![Of(w)].op = "intended"]}
  /\ Ends(w)
  /\ UNCHANGED <<run, expired, posted, told>>

\* beforeDispatch; it may be reported as failed after it was committed.
Fence(w) ==
  /\ exec[w].at = "fence"
  /\ \/ /\ ledger' = [ledger EXCEPT ![Of(w)].fenced = TRUE]
        /\ Goes(w, "barrier")
        /\ UNCHANGED faults
     \/ /\ faults < MaxFaults
        /\ faults' = faults + 1
        /\ ledger' \in {ledger, [ledger EXCEPT ![Of(w)].fenced = TRUE]}
        /\ Goes(w, "cancel")
  /\ UNCHANGED <<run, sample, expired, posted, told>>

\* cancelUnsentPaidAttempt refuses what was fenced ("Possible paid acceptance
\* cannot be cancelled as zero"); the execution ends with its error.
CancelEntry(w) ==
  /\ exec[w].at = "cancel"
  /\ ledger' = IF ledger[Of(w)].fenced THEN ledger
               ELSE [ledger EXCEPT ![Of(w)].op = "zero"]
  /\ Ends(w)
  /\ UNCHANGED <<run, sample, history>>

\* The durable barrier: from here on only an answer tells what happened.
Barrier(w) ==
  /\ exec[w].at = "barrier"
  /\ IF MayMove(Of(w), "claimed", "submission_started")
     THEN /\ Moved(Of(w), "submission_started", "unknown")
          /\ Goes(w, "submit")
     ELSE Goes(w, "cancel") /\ UNCHANGED sample
  /\ UNCHANGED <<run, ledger, history>>

\* Admission and run are read again right before the transport.
Submit(w) ==
  /\ exec[w].at = "submit"
  /\ \/ run # "cancelled" /\ Goes(w, "send")
     \/ Goes(w, "denied")
  /\ UNCHANGED <<run, sample, ledger, history>>

\* No capacity, or the deadline: the transport was not invoked.
SendDenied(w) ==
  /\ exec[w].at = "send"
  /\ Goes(w, "denied")
  /\ UNCHANGED <<run, sample, ledger, history>>

\* An answer with a result leads to settle, with what it measured and cost.
Answered(w, from, measured, receipt) ==
  \E m \in measured :
    exec' = [exec EXCEPT ![w].at = "settle", ![w].from = from,
                         ![w].receipt = receipt, ![w].measured = m]

\* trackingCostReceipt: the price of a task posted to a model's API may be
\* refunded in part, that of other tasks and of live answers is confirmed.
\* The source of a queued sample is left open.
PostReceipts(s) == IF s \in Queued THEN {"deposit", "known"} ELSE {"known"}

\* The POST.  Its answer is lost, says too little, or tells what was bought.
Send(w) ==
  /\ exec[w].at = "send"
  /\ ~expired
  /\ posted' = posted \cup {Of(w)}
  /\ \/ \E to \in {"lost", "vague"} : Goes(w, to) /\ UNCHANGED told
     \/ /\ told' = told \cup {Of(w)}
        /\ \E r \in {"unknown"} \cup PostReceipts(Of(w)) :
             IF Of(w) \in Queued
             THEN \/ exec' = [exec EXCEPT ![w].at = "bought", ![w].receipt = r]
                  \/ Answered(w, "submission_started", {"failed"}, r)
             ELSE Answered(w, "submission_started", Answers, r)
  /\ UNCHANGED <<run, sample, ledger, expired, faults>>

Denied(w) ==
  /\ exec[w].at = "denied"
  /\ ledger' = [ledger EXCEPT ![Of(w)].op = "settled"]
  /\ Refused(w, "submission_started")
  /\ UNCHANGED <<run, sample, history>>

Lose(w) ==
  /\ exec[w].at = "lost"
  /\ IF MayMove(Of(w), "submission_started", "submission_unknown")
     THEN Moved(Of(w), "submission_unknown", sample[Of(w)].receipt)
     ELSE UNCHANGED sample
  /\ Ends(w)
  /\ UNCHANGED <<run, ledger, history>>

\* An answer with no clear outcome; that of a live endpoint may name a task.
Doubt(w) ==
  /\ exec[w].at = "vague"
  /\ IF MayMove(Of(w), "submission_started", "submission_unknown")
     THEN \E named \in (IF Of(w) \in Queued THEN {FALSE} ELSE BOOLEAN),
             r \in {"unknown"} \cup PostReceipts(Of(w)) :
            sample' = [sample EXCEPT ![Of(w)] =
              [@ EXCEPT !.dispatch = "submission_unknown", !.task = named, !.receipt = r]]
     ELSE UNCHANGED sample
  /\ Ends(w)
  /\ UNCHANGED <<run, ledger, history>>

\* The task that was bought; if another execution took the submission for lost
\* in the meantime, the answer is dropped.
Bought(w) ==
  /\ exec[w].at = "bought"
  /\ IF MayMove(Of(w), "submission_started", "submitted")
     THEN /\ sample' = [sample EXCEPT ![Of(w)] =
               [@ EXCEPT !.dispatch = "submitted", !.task = TRUE, !.receipt = exec[w].receipt]]
          /\ Goes(w, "paid")
     ELSE Ends(w) /\ UNCHANGED sample
  /\ UNCHANGED <<run, ledger, history>>

-----------------------------------------------------------------------------
(* Collecting and settling.                                                 *)

Collect(w) ==
  /\ exec[w].at = "collect"
  /\ IF MayMove(Of(w), exec[w].from, "collecting")
     THEN /\ Moved(Of(w), "collecting", sample[Of(w)].receipt)
          /\ Goes(w, "get")
     ELSE Ends(w) /\ UNCHANGED sample
  /\ UNCHANGED <<run, ledger, history>>

\* The GET fails or finds the task pending: another poll, later.
GetPending(w) ==
  /\ exec[w].at = "get"
  /\ Ends(w)
  /\ UNCHANGED <<run, sample, ledger, history>>

\* The task is over; if the answer has no cost, the receipt of the purchase stays.
GetAnswer(w) ==
  /\ exec[w].at = "get"
  /\ \E r \in {"known", exec[w].receipt} : Answered(w, "collecting", Answers, r)
  /\ UNCHANGED <<run, sample, ledger, history>>

\* settle: a known cost stays known.
SettledAs(s, receipt) ==
  IF receipt = "unknown" /\ ledger[s].op # "settled" THEN "pending" ELSE "settled"

Settle(w) ==
  /\ exec[w].at \in {"paid", "settle"}
  /\ ledger' = [ledger EXCEPT ![Of(w)].op = SettledAs(Of(w), exec[w].receipt)]
  /\ IF exec[w].at = "settle" THEN Goes(w, "persist") ELSE Ends(w)
  /\ UNCHANGED <<run, sample, history>>

-----------------------------------------------------------------------------
(* Faults and time.                                                         *)

\* The process dies, or a call of the database fails and the error ends it.
BreakOff(w) ==
  /\ exec[w].at # "idle"
  /\ faults < MaxFaults
  /\ faults' = faults + 1
  /\ Ends(w)
  /\ UNCHANGED <<run, sample, ledger, expired, posted, told>>

Expire ==
  /\ ~expired
  /\ expired' = TRUE
  /\ UNCHANGED <<run, sample, ledger, exec, posted, told, faults>>

Execute(w) ==
  \/ Suspect(w) \/ Claim(w) \/ Prepare(w) \/ Begin(w) \/ BeginUnsure(w)
  \/ Fence(w) \/ CancelEntry(w) \/ Barrier(w) \/ Submit(w) \/ SendDenied(w)
  \/ Send(w) \/ Denied(w) \/ Lose(w) \/ Doubt(w) \/ Bought(w)
  \/ Collect(w) \/ GetPending(w) \/ GetAnswer(w) \/ Settle(w) \/ Persist(w)

Next ==
  \/ \E w \in Workers : Execute(w) \/ BreakOff(w) \/ \E s \in Samples : Load(w, s)
  \/ CancelRun
  \/ Expire

Spec == Init /\ [][Next]_trackingVars

-----------------------------------------------------------------------------
(* Properties.                                                              *)

\* A sample that ended as refused or cancelled was not sent, and nobody is about
\* to send it, however executions and the cancel command overlap (samples.ts:
\* "No-dispatch evidence requires an unsent claimed sample and exact zero").
FreeIsUnsent ==
  \A s \in Samples : Terminal(s) /\ sample[s].receipt \in {"none", "zero"} =>
    s \notin posted /\ \A w \in Workers : ~(exec[w].at = "send" /\ Of(w) = s)

\* Variant: the receipts are not looked at.
RetryableWhenOver == \A s \in Samples : Terminal(s)

\* assertTrackingRunRetryable: every sample is over and its cost known.
Retryable ==
  \A s \in Samples : Terminal(s) /\ sample[s].receipt \notin {"unknown", "deposit"}

\* A run that may be repeated owes nothing: what it posted is settled, and no
\* execution of it posts any more (prompt-tracker.mdx: a retry "cannot silently
\* buy another attempt after an ambiguous provider response").
RetryIsSafe ==
  Retryable =>
    /\ \A s \in posted : ledger[s].op = "settled"
    /\ \A w \in Workers : exec[w].at # "send"

\* The run and its samples agree: an open run has work left, a concluded run has
\* none, and a cancelled one has nothing that could still be submitted
\* (finishRun, cancelTrackingRun).
RunMatchesSamples ==
  /\ run \in OpenRuns => \E s \in Samples : ~Terminal(s)
  /\ run \in Concluded => \A s \in Samples : Terminal(s)
  /\ run = "cancelled" => ~\E s \in Samples : Unsubmitted(s)

Untouched(s) == \A w \in Workers : exec[w].at = "idle" \/ Of(w) # s

\* A purchase whose answer arrived is kept, also when executions overlap: the
\* test "concurrent workers win one claim and send one POST"
\* (sample.test.ts:88-95) expects that the sample is then submitted.
AnswerIsKept ==
  \A s \in told : Untouched(s) => Terminal(s) \/ sample[s].task
=============================================================================

---------------------------- MODULE PaidRequests ----------------------------
(***************************************************************************)
(* The journal of paid provider requests made with the customer's own key  *)
(* (lib/provider-usage/request-journal.ts, lib/metering/transport-own-*.ts *)
(* and lib/metering/paid-dispatch.ts), for one correlation: one piece of   *)
(* product work, retried by several processes that each keep a journal.    *)
(* A request is written down before it is sent, fenced right before the    *)
(* HTTP call, and settled with what it cost, if that is known; a request   *)
(* that was not fenced can be cancelled as free, also by another process.  *)
(*                                                                         *)
(* The row of a request is its evidence row together with its operation in *)
(* the meter, which every transaction of the code changes together.        *)
(***************************************************************************)
EXTENDS Naturals, FiniteSets

CONSTANTS Requests,   \* attempts at a paid request
          Journals,   \* processes that work on the correlation
          NoJournal,
          Limit       \* the cost limit of a journal, in requests

VARIABLES
  row,       \* row[r]: the operation, its journal, dispatch lease and fence
  call,      \* call[r]: where the process that began r stands
  inFlight,  \* inFlight[j]: requests that the journal began and not yet settled
  held,      \* held[j]: requests whose estimate counts against the limit
  spent,     \* spent[j]: cost settled so far
  unsure,    \* unsure[j]: some cost is unconfirmed
  alive,     \* journals whose process lives
  sent,      \* requests that were sent (history)
  charged    \* requests the provider charged for (external)

journal == <<inFlight, held, spent, unsure>>
paidVars == <<row, call, journal, alive, sent, charged>>

\* zero: cancelled, with its evidence discarded; pending: cost unknown.
NoRow == [op |-> "none", owner |-> NoJournal, live |-> FALSE, fenced |-> FALSE]

Init ==
  /\ row = [r \in Requests |-> NoRow]
  /\ call = [r \in Requests |-> "idle"]
  /\ inFlight = [j \in Journals |-> {}]
  /\ held = [j \in Journals |-> {}]
  /\ spent = [j \in Journals |-> 0]
  /\ unsure = [j \in Journals |-> FALSE]
  /\ alive = Journals
  /\ sent = {}
  /\ charged = {}

Of(r) == row[r].owner
Goes(r, to) == call' = [call EXCEPT ![r] = to]

\* Evidence whose measurement is unknown, and which is not discarded.
Unresolved(r) == row[r].op \in {"intended", "pending"}

-----------------------------------------------------------------------------
(* One request of a journal.                                                *)

\* Here and below: variants with a fault a change could introduce, which the
\* runs tell from the code.  They are not part of the specification.
RemainingOfSettled(j) == IF unsure[j] THEN 0 ELSE Limit - spent[j]

\* requestCostLimit: nothing remains while a cost is unconfirmed.
Remaining(j) ==
  IF unsure[j] THEN 0 ELSE Limit - (spent[j] + Cardinality(held[j]))

ConfirmedAnswers(j, r) == \A q \in Requests \ (inFlight[j] \cup {r}) : row[q].op # "pending"

\* No other request of the correlation is unresolved, unless this process has
\* it in flight; checked under the lock of the connection.
Confirmed(j, r) == \A q \in Requests \ (inFlight[j] \cup {r}) : ~Unresolved(q)

Begin(j, r) ==
  /\ j \in alive
  /\ row[r] = NoRow
  /\ Confirmed(j, r)
  /\ Remaining(j) >= 1
  /\ row' = [row EXCEPT ![r] = [op |-> "intended", owner |-> j, live |-> TRUE, fenced |-> FALSE]]
  /\ inFlight' = [inFlight EXCEPT ![j] = @ \cup {r}]
  /\ held' = [held EXCEPT ![j] = @ \cup {r}]
  /\ Goes(r, "begun")
  /\ UNCHANGED <<spent, unsure, alive, sent, charged>>

FencableByLease(r) == row[r].live /\ ~row[r].fenced

\* fencePaidAttemptsInTransaction: the intent still stands and nobody sent it.
Fencable(r) == row[r].op = "intended" /\ row[r].live /\ ~row[r].fenced

\* The commit of the fence is the proof of a possible send; it may be reported
\* as failed all the same.
Fence(r) ==
  /\ call[r] = "begun"
  /\ Fencable(r)
  /\ row' = [row EXCEPT ![r].fenced = TRUE]
  /\ \E to \in {"fenced", "cancel"} : Goes(r, to)
  /\ UNCHANGED <<journal, alive, sent, charged>>

FenceFails(r) ==
  /\ call[r] = "begun"
  /\ Goes(r, "cancel")
  /\ UNCHANGED <<row, journal, alive, sent, charged>>

\* cancelUnsentPaidAttempt: not after the fence, and only a live lease or an
\* earlier cancellation proves that nothing was sent.
Cancellable(r) ==
  /\ ~row[r].fenced
  /\ row[r].op = "zero" \/ (row[r].op = "intended" /\ row[r].live)

Cancelled(r) == row' = [row EXCEPT ![r].op = "zero"]

Cancel(r) ==
  /\ call[r] = "cancel"
  /\ IF Cancellable(r)
     THEN /\ Cancelled(r)
          /\ inFlight' = [inFlight EXCEPT ![Of(r)] = @ \ {r}]
          /\ held' = [held EXCEPT ![Of(r)] = @ \ {r}]
     ELSE UNCHANGED <<row, inFlight, held>>
  /\ Goes(r, "over")
  /\ UNCHANGED <<spent, unsure, alive, sent, charged>>

\* cancelOriginalUnfencedLocalItem: another process gives the work up.
OtherCancels(r) ==
  /\ row[r].op = "intended"
  /\ Cancellable(r)
  /\ Cancelled(r)
  /\ UNCHANGED <<call, journal, alive, sent, charged>>

\* The HTTP call.  Its answer may say what it cost, or be lost.
Send(r) ==
  /\ call[r] = "fenced"
  /\ sent' = sent \cup {r}
  /\ charged' \in {charged, charged \cup {r}}
  /\ \E answer \in {"known", "unknown"} : Goes(r, answer)
  /\ UNCHANGED <<row, journal, alive>>

\* The producer's own fence stops the call: it is settled as free.
Withhold(r) ==
  /\ call[r] = "fenced"
  /\ Goes(r, "known")
  /\ UNCHANGED <<row, journal, alive, sent, charged>>

Cost(r) == IF r \in charged THEN 1 ELSE 0

\* Evidence, meter and then the limit of the journal.
Settle(r) ==
  /\ call[r] \in {"known", "unknown"}
  /\ row[r].fenced
  /\ row[r].op # "zero"
  /\ row' = [row EXCEPT ![r].op = IF call[r] = "known" \/ @ = "settled"
                                  THEN "settled" ELSE "pending"]
  /\ held' = [held EXCEPT ![Of(r)] = @ \ {r}]
  /\ IF call[r] = "known"
     THEN spent' = [spent EXCEPT ![Of(r)] = @ + Cost(r)] /\ UNCHANGED unsure
     ELSE unsure' = [unsure EXCEPT ![Of(r)] = TRUE] /\ UNCHANGED spent
  /\ Goes(r, "settled")
  /\ UNCHANGED <<inFlight, alive, sent, charged>>

SettleFails(r) ==
  /\ call[r] \in {"known", "unknown"}
  /\ held' = [held EXCEPT ![Of(r)] = @ \ {r}]
  /\ unsure' = [unsure EXCEPT ![Of(r)] = TRUE]
  /\ Goes(r, "settled")
  /\ UNCHANGED <<row, inFlight, spent, alive, sent, charged>>

Forget(r) ==
  /\ call[r] = "settled"
  /\ inFlight' = [inFlight EXCEPT ![Of(r)] = @ \ {r}]
  /\ Goes(r, "over")
  /\ UNCHANGED <<row, held, spent, unsure, alive, sent, charged>>

-----------------------------------------------------------------------------
(* Crashes, time, and recovery from the evidence of a sent request.         *)

Crash(j) ==
  /\ j \in alive
  /\ alive' = alive \ {j}
  /\ call' = [r \in Requests |-> IF Of(r) = j THEN "over" ELSE call[r]]
  /\ UNCHANGED <<row, journal, sent, charged>>

LeaseExpires(r) ==
  /\ row[r].live
  /\ row' = [row EXCEPT ![r].live = FALSE]
  /\ UNCHANGED <<call, journal, alive, sent, charged>>

\* recoverOwnTransport: the only request of the correlation turns out to have
\* been taken, and its cost is recorded.
Recover(r) ==
  /\ r \in sent
  /\ row[r].fenced
  /\ Unresolved(r)
  /\ \A q \in Requests \ {r} : row[q].op \in {"none", "zero"}
  /\ row' = [row EXCEPT ![r].op = "settled"]
  /\ UNCHANGED <<call, journal, alive, sent, charged>>

RequestStep(r) ==
  \/ Fence(r) \/ FenceFails(r) \/ Cancel(r) \/ Send(r) \/ Withhold(r)
  \/ Settle(r) \/ SettleFails(r) \/ Forget(r)
  \/ OtherCancels(r) \/ LeaseExpires(r) \/ Recover(r)

Next ==
  \/ \E r \in Requests : RequestStep(r)
  \/ \E j \in Journals : Crash(j) \/ \E r \in Requests : Begin(j, r)

Spec == Init /\ [][Next]_paidVars

-----------------------------------------------------------------------------
(* Properties.                                                              *)

\* A request that is written off as never sent was not sent and will not be,
\* whoever cancels it and however late its own process is ("Possible paid
\* acceptance cannot be cancelled as zero").
WrittenOffIsUnsent ==
  \A r \in Requests : row[r].op = "zero" => r \notin sent /\ call[r] # "fenced"

\* No process pays again before what another one may have paid for is known:
\* all unresolved requests of the correlation are of one journal, also when
\* its process died ("Accounting failures must never trigger another paid
\* provider request").
OneJournalUnresolved ==
  \A q, r \in Requests : Unresolved(q) /\ Unresolved(r) => Of(q) = Of(r)

\* A journal keeps its limit across concurrent attempts and paid retries, also
\* when costs stay unknown.
WithinLimit ==
  \A j \in Journals : Cardinality({r \in charged : Of(r) = j}) <= Limit

=============================================================================

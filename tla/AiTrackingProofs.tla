-------------------------- MODULE AiTrackingProofs --------------------------
(***************************************************************************)
(* Proofs about AiTracking for any number of samples and executions: what  *)
(* ended as free was not sent, a run that may be repeated owes nothing, and*)
(* a run and its samples agree.                                            *)
(*                                                                         *)
(* The journal lets one execution of a sample past its begin: the buyer.   *)
(* From the barrier on, the dispatch state says that the sample may have   *)
(* been sent, and only the buyer's own answer says otherwise; what is      *)
(* collected was posted and fenced before.                                 *)
(***************************************************************************)
EXTENDS AiTracking, TLAPS

Dispatches == {"planned", "claimed", "submission_started", "submitted", "collecting",
               "submission_unknown", "terminal"}
Receipts == {"none", "zero", "unknown", "deposit", "known"}
Bills == {"unknown", "deposit", "known"}
Measures == Answers \cup {"none", "unavailable", "failed"}
Places == {"idle", "suspect", "claim", "prepare", "begin", "fence", "cancel", "barrier",
           "submit", "send", "denied", "lost", "vague", "bought", "paid", "collect", "get",
           "settle", "persist"}

Row == [dispatch : Dispatches, task : BOOLEAN, receipt : Receipts, measured : Measures]
Entries == [op : {"none", "intended", "zero", "pending", "settled"}, fenced : BOOLEAN]
Execution == [at : Places, of : Samples, from : Dispatches \ {"terminal"},
              receipt : Receipts, measured : Measures]

TrackingTypeOK ==
  /\ run \in OpenRuns \cup Concluded \cup {"cancelled"}
  /\ sample \in [Samples -> Row]
  /\ ledger \in [Samples -> Entries]
  /\ exec \in [Workers -> Execution]
  /\ posted \in SUBSET Samples

\* Where an execution stands that the journal has let past its begin, before
\* the POST, and after it; and where the journal says that it may be sent.
Unsent == {"fence", "cancel", "barrier", "submit", "send", "denied"}
Told == {"lost", "vague", "bought", "paid"}
Fenced == {"barrier", "submit", "send", "denied", "collect", "get", "settle"} \cup Told

Buyer(x) ==
  \/ x.at \in Unsent \cup Told
  \/ x.at \in {"settle", "persist"} /\ x.from = "submission_started"

OneBuyer ==
  \A v, w \in Workers : Buyer(exec[v]) /\ Buyer(exec[w]) /\ Of(v) = Of(w) => v = w

\* What execution x knows of its sample.
Knows(x) ==
  LET s == x.of
  IN  /\ Buyer(x) => ledger[s].op # "none"
      /\ x.at \in Fenced => ledger[s].fenced
      /\ x.at \in Unsent => s \notin posted
      /\ x.at \in {"collect", "get", "settle"} \cup Told => s \in posted
      /\ x.at \in {"bought", "paid", "collect", "get", "settle"} => x.receipt \in Bills
      /\ x.at = "persist" =>
           \/ x.receipt = "zero" /\ x.from = "claimed"
           \/ x.receipt = "zero" /\ x.from = "submission_started" /\ s \notin posted
           \/ /\ x.receipt \in Bills /\ s \in posted
              /\ x.receipt # "unknown" => ledger[s].op = "settled"

\* Nothing was posted for sample s, and nobody is about to.
NotSent(s) ==
  /\ s \notin posted
  /\ \A w \in Workers : Of(w) = s => exec[w].at \notin {"submit", "send"}

Kept(s) ==
  LET x == sample[s]
  IN  /\ Unsubmitted(s) => NotSent(s) /\ x.receipt = "none" /\ ~x.task
      /\ x.dispatch = "submission_started" => ~x.task
      /\ Terminal(s) /\ x.receipt \in {"none", "zero"} => NotSent(s)
      /\ x.task => ledger[s].fenced /\ s \in posted /\ x.receipt \in Bills
      /\ x.receipt \in {"deposit", "known"} =>
           s \in posted /\ (Terminal(s) => ledger[s].op = "settled")
      /\ ledger[s].op \in {"pending", "settled"} => ledger[s].fenced
      /\ s \in posted => ledger[s].fenced /\ ledger[s].op # "none"

TrackingInv ==
  /\ TrackingTypeOK /\ OneBuyer /\ RunMatchesSamples
  /\ \A w \in Workers : Knows(exec[w])
  /\ \A s \in Samples : Kept(s)

\* An open run has samples: planTrackingRun records a run without prompts as
\* skipped.
Sampled == Samples # {}

-----------------------------------------------------------------------------
(* Executions, rows and entries.                                           *)

LEMMA IdleExecution ==
  ASSUME Sampled
  PROVE  Idle \in Execution
PROOF
  <1>1. (CHOOSE s \in Samples : TRUE) \in Samples
    BY DEF Sampled
  <1> QED
    BY <1>1 DEF Idle, Execution, Places, Dispatches, Receipts, Measures

LEMMA Went ==
  ASSUME TrackingTypeOK, NEW w \in Workers, NEW to \in Places, Goes(w, to)
  PROVE  /\ exec' \in [Workers -> Execution]
         /\ exec'[w] = [exec[w] EXCEPT !.at = to]
         /\ exec'[w].at = to /\ exec'[w].of = Of(w) /\ exec'[w].from = exec[w].from
         /\ exec'[w].receipt = exec[w].receipt /\ exec'[w].measured = exec[w].measured
         /\ \A v \in Workers \ {w} : exec'[v] = exec[v]
PROOF
  <1>1. exec[w] \in Execution /\ exec \in [Workers -> Execution]
    BY DEF TrackingTypeOK
  <1>2. [exec[w] EXCEPT !.at = to] \in Execution
    BY <1>1 DEF Execution
  <1>3. exec' = [exec EXCEPT ![w] = [exec[w] EXCEPT !.at = to]]
    BY <1>1 DEF Goes
  <1> QED
    BY <1>1, <1>2, <1>3 DEF Execution, Of

LEMMA Ended ==
  ASSUME Sampled, TrackingTypeOK, NEW w \in Workers, Ends(w)
  PROVE  /\ exec' \in [Workers -> Execution]
         /\ exec'[w] = Idle /\ exec'[w].at = "idle"
         /\ \A v \in Workers \ {w} : exec'[v] = exec[v]
PROOF
  BY IdleExecution DEF Ends, TrackingTypeOK, Idle

LEMMA WasRefused ==
  ASSUME TrackingTypeOK, NEW w \in Workers, NEW from \in Dispatches \ {"terminal"},
         Refused(w, from)
  PROVE  /\ exec' \in [Workers -> Execution]
         /\ exec'[w].at = "persist" /\ exec'[w].of = Of(w) /\ exec'[w].from = from
         /\ exec'[w].receipt = "zero"
         /\ \A v \in Workers \ {w} : exec'[v] = exec[v]
PROOF
  <1>1. exec[w] \in Execution /\ exec \in [Workers -> Execution]
    BY DEF TrackingTypeOK
  <1>2. PICK x : x = [exec[w] EXCEPT !.at = "persist", !.from = from,
                                     !.receipt = "zero", !.measured = "unavailable"]
    OBVIOUS
  <1>3. /\ x \in Execution /\ x.at = "persist" /\ x.of = Of(w) /\ x.from = from
        /\ x.receipt = "zero"
    BY <1>1, <1>2 DEF Execution, Places, Receipts, Measures, Of
  <1>4. exec' = [exec EXCEPT ![w] = x]
    BY <1>1, <1>2 DEF Refused
  <1> QED
    BY <1>1, <1>3, <1>4

LEMMA WasAnswered ==
  ASSUME TrackingTypeOK, NEW w \in Workers, NEW from \in Dispatches \ {"terminal"},
         NEW measured \in SUBSET Measures, NEW receipt \in Receipts,
         Answered(w, from, measured, receipt)
  PROVE  /\ exec' \in [Workers -> Execution]
         /\ exec'[w].at = "settle" /\ exec'[w].of = Of(w) /\ exec'[w].from = from
         /\ exec'[w].receipt = receipt
         /\ \A v \in Workers \ {w} : exec'[v] = exec[v]
PROOF
  <1>1. exec[w] \in Execution /\ exec \in [Workers -> Execution]
    BY DEF TrackingTypeOK
  <1>2. PICK m \in measured :
          exec' = [exec EXCEPT ![w].at = "settle", ![w].from = from,
                               ![w].receipt = receipt, ![w].measured = m]
    BY DEF Answered
  <1>3. PICK x : x = [exec[w] EXCEPT !.at = "settle", !.from = from,
                                     !.receipt = receipt, !.measured = m]
    OBVIOUS
  <1>4. /\ x \in Execution /\ x.at = "settle" /\ x.of = Of(w) /\ x.from = from
        /\ x.receipt = receipt
    BY <1>1, <1>2, <1>3 DEF Execution, Places, Of
  <1>5. exec' = [exec EXCEPT ![w] = x]
    BY <1>1, <1>2, <1>3
  <1> QED
    BY <1>1, <1>4, <1>5

LEMMA MovedRow ==
  ASSUME TrackingTypeOK, NEW s \in Samples, NEW to \in Dispatches, NEW receipt \in Receipts,
         Moved(s, to, receipt)
  PROVE  /\ sample' \in [Samples -> Row]
         /\ sample'[s].dispatch = to /\ sample'[s].receipt = receipt
         /\ sample'[s].task = sample[s].task
         /\ \A t \in Samples \ {s} : sample'[t] = sample[t]
PROOF
  <1>1. sample[s] \in Row /\ sample \in [Samples -> Row]
    BY DEF TrackingTypeOK
  <1>2. PICK x : x = [sample[s] EXCEPT !.dispatch = to, !.receipt = receipt]
    OBVIOUS
  <1>3. x \in Row /\ x.dispatch = to /\ x.receipt = receipt /\ x.task = sample[s].task
    BY <1>1, <1>2 DEF Row
  <1>4. sample' = [sample EXCEPT ![s] = x]
    BY <1>1, <1>2 DEF Moved
  <1> QED
    BY <1>1, <1>3, <1>4

-----------------------------------------------------------------------------
(* A step of one execution, on one sample.                                 *)

\* The journal forgets nothing that executions rely on.
Grows(s) ==
  /\ ledger'[s].op = "none" => ledger[s].op = "none"
  /\ ledger[s].fenced => ledger'[s].fenced
  /\ ledger[s].op = "settled" => ledger'[s].op = "settled"
  /\ ledger'[s].op \in {"pending", "settled"} => ledger'[s].fenced

Posts(w, s) ==
  \/ posted' = posted
  \/ posted' = posted \cup {s} /\ Buyer(exec[w]) /\ Of(w) = s

\* Execution w works on sample s and leaves the others alone; it passes the
\* begin only if nobody did.
Local(w, s) ==
  /\ \A v \in Workers \ {w} : exec'[v] = exec[v]
  /\ \A t \in Samples \ {s} : sample'[t] = sample[t] /\ ledger'[t] = ledger[t]
  /\ Posts(w, s)
  /\ Grows(s)
  /\ Buyer(exec'[w]) \/ exec'[w].at \in {"submit", "send"} => exec'[w].of = s
  /\ Buyer(exec'[w]) => (Buyer(exec[w]) /\ Of(w) = s) \/ ledger[s].op = "none"
  /\ Knows(exec[w])'
  /\ Kept(s)'
  /\ RunMatchesSamples'

LEMMA LocalStep ==
  ASSUME TrackingInv, TrackingTypeOK', NEW w \in Workers, NEW s \in Samples, Local(w, s)
  PROVE  TrackingInv'
PROOF
  <1>1. /\ TrackingTypeOK /\ OneBuyer
        /\ \A v \in Workers : Knows(exec[v]) /\ exec[v] \in Execution
        /\ \A t \in Samples : Kept(t)
    BY DEF TrackingInv, TrackingTypeOK
  <1>2. ASSUME NEW t \in Samples
        PROVE  Grows(t)
    BY <1>1, <1>2 DEF Local, Grows, Kept
  <1>3. ASSUME NEW v \in Workers \ {w}
        PROVE  Knows(exec[v])'
    <2>1. PICK x \in Execution : x = exec[v] /\ x = exec'[v]
      BY <1>1 DEF Local
    <2>2. Knows(x) /\ x.of \in Samples /\ Grows(x.of)
      BY <1>1, <1>2, <2>1 DEF Execution
    <2>3. x.at \in Unsent \/ (x.at = "persist" /\ x.from = "submission_started") =>
            (x.of \notin posted => x.of \notin posted')
      <3>1. Buyer(exec[w]) /\ Of(w) = s /\ x.of = s => ~Buyer(x)
        BY <1>1, <2>1 DEF OneBuyer, Of
      <3> QED
        BY <3>1 DEF Local, Posts, Buyer
    <2>4. posted \subseteq posted'
      BY DEF Local, Posts
    <2>5. Knows(x)'
      BY <2>2, <2>3, <2>4 DEF Knows, Grows, Unsent, Told, Bills
    <2> QED
      BY <2>1, <2>5
  <1>4. OneBuyer'
    <2>1. ASSUME NEW v \in Workers \ {w}
          PROVE  ~(Buyer(exec'[v]) /\ Buyer(exec'[w]) /\ exec'[v].of = exec'[w].of)
      <3>1. exec'[v] = exec[v] /\ Knows(exec[v])
        BY <1>1 DEF Local
      <3>2. Buyer(exec'[w]) =>
              /\ exec'[w].of = s
              /\ (Buyer(exec[w]) /\ Of(w) = s) \/ ledger[s].op = "none"
        BY DEF Local
      <3>3. Buyer(exec[v]) /\ Of(v) = s => ledger[s].op # "none"
        BY <3>1 DEF Knows, Of
      <3>4. ~(Buyer(exec[v]) /\ Buyer(exec[w]) /\ Of(v) = Of(w))
        BY <1>1 DEF OneBuyer
      <3> QED
        BY <3>1, <3>2, <3>3, <3>4 DEF Of
    <2>2. ASSUME NEW u \in Workers \ {w}, NEW v \in Workers \ {w},
                 Buyer(exec'[u]), Buyer(exec'[v]), exec'[u].of = exec'[v].of
          PROVE  u = v
      BY <1>1, <2>2 DEF Local, OneBuyer, Of
    <2> QED
      BY <2>1, <2>2 DEF OneBuyer, Of
  <1>5. ASSUME NEW t \in Samples \ {s}
        PROVE  Kept(t)'
    <2>1. /\ Kept(t) /\ sample'[t] = sample[t] /\ ledger'[t] = ledger[t]
          /\ t \in posted' <=> t \in posted
      BY <1>1, <1>5 DEF Local, Posts
    <2>2. NotSent(t) => NotSent(t)'
      BY <2>1, <1>5 DEF NotSent, Local, Of
    <2> QED
      BY <2>1, <2>2 DEF Kept, Unsubmitted, Terminal
  <1> QED
    BY <1>3, <1>4, <1>5 DEF TrackingInv, Local

\* The row and the run as they were: what is kept of the sample stays.
LEMMA SameRow ==
  ASSUME TrackingInv, NEW w \in Workers, NEW s \in Samples,
         UNCHANGED <<run, sample>>,
         \A v \in Workers \ {w} : exec'[v] = exec[v],
         posted' = posted \/ (posted' = posted \cup {s} /\ exec[w].at = "send" /\ Of(w) = s),
         Grows(s),
         exec'[w].at \in {"submit", "send"} =>
           exec[w].at \in {"submit", "send"} /\ Of(w) = exec'[w].of
  PROVE  Kept(s)' /\ RunMatchesSamples'
PROOF
  <1>1. Kept(s) /\ RunMatchesSamples
    BY DEF TrackingInv
  <1>2. NotSent(s) => NotSent(s)'
    BY DEF NotSent, Of
  <1>a. exec[w].at = "send" /\ Of(w) = s => ledger[s].fenced /\ ledger[s].op # "none"
    BY DEF TrackingInv, Knows, Fenced, Unsent, Buyer, Of
  <1>3. Kept(s)'
    BY <1>1, <1>2, <1>a DEF Kept, Grows, Unsubmitted, Terminal
  <1>4. RunMatchesSamples'
    BY <1>1 DEF RunMatchesSamples, Unsubmitted, Terminal
  <1> QED
    BY <1>3, <1>4

\* A row moves between states of an open sample, past the claim.
LEMMA OpenRow ==
  ASSUME TrackingInv, NEW s \in Samples, run' = run,
         \A t \in Samples \ {s} : sample'[t] = sample[t],
         ~Terminal(s), ~Terminal(s)', ~Unsubmitted(s)'
  PROVE  RunMatchesSamples'
PROOF
  <1>1. RunMatchesSamples
    BY DEF TrackingInv
  <1>2. \A t \in Samples : Terminal(t)' = Terminal(t) /\ (Unsubmitted(t)' => Unsubmitted(t))
    BY DEF Terminal, Unsubmitted
  <1> QED
    BY <1>1, <1>2 DEF RunMatchesSamples

\* What no execution changes.
LEMMA SameLedger ==
  ASSUME TrackingInv, NEW s \in Samples, ledger' = ledger
  PROVE  Grows(s)
PROOF
  BY DEF TrackingInv, Kept, Grows

-----------------------------------------------------------------------------
(* The steps of an execution.                                              *)

\* An execution that ends knows nothing, and is nobody's buyer.
LEMMA IdleKnowsNothing ==
  ASSUME NEW w \in Workers, exec'[w].at = "idle"
  PROVE  ~Buyer(exec'[w]) /\ Knows(exec[w])'
PROOF
  BY DEF Buyer, Knows, Unsent, Told, Fenced

\* A step that leaves rows and journal alone.
LEMMA ExecutionStep ==
  ASSUME TrackingInv, NEW w \in Workers, exec' \in [Workers -> Execution],
         \A v \in Workers \ {w} : exec'[v] = exec[v],
         UNCHANGED <<run, sample, ledger, posted>>,
         exec'[w].at \in {"submit", "send"} => exec[w].at \in {"submit", "send"},
         Buyer(exec'[w]) => Buyer(exec[w]) /\ exec'[w].of = Of(w),
         Knows(exec[w])'
  PROVE  TrackingInv'
PROOF
  <1>1. TrackingTypeOK'
    BY DEF TrackingInv, TrackingTypeOK
  <1>s. PICK s \in Samples : s = Of(w)
    BY DEF TrackingInv, TrackingTypeOK, Execution, Of
  <1>2. exec'[w].at \in {"submit", "send"} => Buyer(exec'[w])
    BY DEF Buyer, Unsent
  <1>3. Grows(s)
    BY SameLedger
  <1>4. Kept(s)' /\ RunMatchesSamples'
    BY <1>s, <1>2, <1>3, SameRow
  <1>5. Local(w, s)
    BY <1>s, <1>2, <1>3, <1>4 DEF Local, Posts
  <1> QED
    BY <1>1, <1>5, LocalStep

LEMMA LoadStep ==
  ASSUME Sampled, TrackingInv, NEW w \in Workers, NEW s \in Samples, Load(w, s)
  PROVE  TrackingInv'
PROOF
  <1>1. /\ TrackingTypeOK /\ exec \in [Workers -> Execution]
        /\ sample[s] \in Row /\ Kept(s) /\ Idle \in Execution
    BY IdleExecution DEF TrackingInv, TrackingTypeOK
  <1>2. PICK x : x = [Idle EXCEPT !.at = Entry(s), !.of = s, !.from = sample[s].dispatch,
                                  !.receipt = sample[s].receipt]
    OBVIOUS
  <1>3. /\ Entry(s) \in {"get", "collect", "suspect", "claim", "prepare"}
        /\ Entry(s) \in {"get", "collect"} => sample[s].task
    BY <1>1 DEF Load, Entry, Row
  <1>4. /\ x \in Execution /\ x.at = Entry(s) /\ x.of = s /\ x.receipt = sample[s].receipt
    BY <1>1, <1>2, <1>3 DEF Execution, Row, Places, Load, Terminal
  <1>5. exec' = [exec EXCEPT ![w] = x]
    BY <1>1, <1>2 DEF Load
  <1>6. exec' \in [Workers -> Execution] /\ exec'[w] = x /\ \A v \in Workers \ {w} : exec'[v] = exec[v]
    BY <1>1, <1>4, <1>5
  <1>7. ~Buyer(x)
    BY <1>3, <1>4 DEF Buyer, Unsent, Told
  <1>8. Knows(exec[w])'
    BY <1>1, <1>3, <1>4, <1>6, <1>7 DEF Knows, Kept, Unsent, Told, Fenced, Load, history
  <1> QED
    BY <1>3, <1>4, <1>6, <1>7, <1>8, ExecutionStep DEF Load, history

\* An execution that ends without a write: broken off, or still pending.
LEMMA EndStep ==
  ASSUME Sampled, TrackingInv, NEW w \in Workers, Ends(w),
         UNCHANGED <<run, sample, ledger, posted>>
  PROVE  TrackingInv'
PROOF
  <1>1. TrackingTypeOK
    BY DEF TrackingInv
  <1>2. /\ exec' \in [Workers -> Execution]
        /\ exec'[w].at = "idle"
        /\ \A v \in Workers \ {w} : exec'[v] = exec[v]
    BY <1>1, Ended
  <1> QED
    BY <1>2, IdleKnowsNothing, ExecutionStep

LEMMA PrepareStep ==
  ASSUME TrackingInv, NEW w \in Workers, Prepare(w)
  PROVE  TrackingInv'
PROOF
  <1>1. TrackingTypeOK /\ UNCHANGED <<run, sample, ledger, posted>>
    BY DEF TrackingInv, Prepare, history
  <1>2. CASE Goes(w, "begin")
    <2>1. /\ exec' \in [Workers -> Execution] /\ exec'[w].at = "begin"
          /\ \A v \in Workers \ {w} : exec'[v] = exec[v]
      BY <1>1, <1>2, Went DEF Places
    <2>2. ~Buyer(exec'[w]) /\ Knows(exec[w])'
      BY <2>1 DEF Buyer, Knows, Unsent, Told, Fenced
    <2> QED
      BY <1>1, <2>1, <2>2, ExecutionStep
  <1>3. CASE Refused(w, "claimed")
    <2>1. /\ exec' \in [Workers -> Execution] /\ exec'[w].at = "persist"
          /\ exec'[w].from = "claimed" /\ exec'[w].receipt = "zero"
          /\ \A v \in Workers \ {w} : exec'[v] = exec[v]
      BY <1>1, <1>3, WasRefused DEF Dispatches
    <2>2. ~Buyer(exec'[w]) /\ Knows(exec[w])'
      BY <2>1 DEF Buyer, Knows, Unsent, Told, Fenced
    <2> QED
      BY <1>1, <2>1, <2>2, ExecutionStep
  <1> QED
    BY <1>2, <1>3 DEF Prepare

\* From one place before the POST to another.
LEMMA WaitStep ==
  ASSUME TrackingInv, NEW w \in Workers, UNCHANGED <<run, sample, ledger, posted>>,
         Submit(w) \/ SendDenied(w)
  PROVE  TrackingInv'
PROOF
  <1>1. TrackingTypeOK /\ Knows(exec[w]) /\ exec[w].at \in {"submit", "send"}
    BY DEF TrackingInv, Submit, SendDenied
  <1>2. PICK to \in {"send", "denied"} : Goes(w, to)
    BY DEF Submit, SendDenied
  <1>3. /\ exec' \in [Workers -> Execution] /\ exec'[w].at = to /\ exec'[w].of = Of(w)
        /\ \A v \in Workers \ {w} : exec'[v] = exec[v]
    BY <1>1, <1>2, Went DEF Places
  <1>4. Buyer(exec[w]) /\ Knows(exec[w])'
    BY <1>1, <1>3 DEF Knows, Buyer, Unsent, Told, Fenced, Of
  <1> QED
    BY <1>1, <1>3, <1>4, ExecutionStep

LEMMA GetAnswerStep ==
  ASSUME TrackingInv, NEW w \in Workers, GetAnswer(w)
  PROVE  TrackingInv'
PROOF
  <1>1. /\ TrackingTypeOK /\ Knows(exec[w]) /\ exec[w].at = "get"
        /\ UNCHANGED <<run, sample, ledger, posted>>
    BY DEF TrackingInv, GetAnswer, history
  <1>2. PICK r \in {"known", exec[w].receipt} : Answered(w, "collecting", Answers, r)
    BY DEF GetAnswer
  <1>3. r \in Bills /\ r \in Receipts
    BY <1>1, <1>2 DEF Knows, Bills, Receipts
  <1>4. /\ exec' \in [Workers -> Execution] /\ exec'[w].at = "settle" /\ exec'[w].of = Of(w)
        /\ exec'[w].from = "collecting" /\ exec'[w].receipt = r
        /\ \A v \in Workers \ {w} : exec'[v] = exec[v]
    BY <1>1, <1>2, <1>3, WasAnswered DEF Dispatches, Measures
  <1>5. ~Buyer(exec'[w]) /\ Knows(exec[w])'
    BY <1>1, <1>3, <1>4 DEF Knows, Buyer, Unsent, Told, Fenced, Of
  <1> QED
    BY <1>1, <1>4, <1>5, ExecutionStep

-----------------------------------------------------------------------------
(* The steps that write to the journal, and the POST.                      *)

LEMMA OpWritten ==
  ASSUME TrackingTypeOK, NEW s \in Samples,
         NEW op \in {"none", "intended", "zero", "pending", "settled"},
         ledger' = [ledger EXCEPT ![s].op = op]
  PROVE  /\ ledger' \in [Samples -> Entries]
         /\ ledger'[s].op = op /\ ledger'[s].fenced = ledger[s].fenced
         /\ \A t \in Samples \ {s} : ledger'[t] = ledger[t]
PROOF
  <1>1. ledger[s] \in Entries /\ ledger \in [Samples -> Entries]
    BY DEF TrackingTypeOK
  <1>2. PICK e : e = [ledger[s] EXCEPT !.op = op]
    OBVIOUS
  <1>3. e \in Entries /\ e.op = op /\ e.fenced = ledger[s].fenced
    BY <1>1, <1>2 DEF Entries
  <1>4. ledger' = [ledger EXCEPT ![s] = e]
    BY <1>1, <1>2
  <1> QED
    BY <1>1, <1>3, <1>4

LEMMA FenceWritten ==
  ASSUME TrackingTypeOK, NEW s \in Samples, ledger' = [ledger EXCEPT ![s].fenced = TRUE]
  PROVE  /\ ledger' \in [Samples -> Entries]
         /\ ledger'[s].op = ledger[s].op /\ ledger'[s].fenced = TRUE
         /\ \A t \in Samples \ {s} : ledger'[t] = ledger[t]
PROOF
  <1>1. ledger[s] \in Entries /\ ledger \in [Samples -> Entries]
    BY DEF TrackingTypeOK
  <1>2. PICK e : e = [ledger[s] EXCEPT !.fenced = TRUE]
    OBVIOUS
  <1>3. e \in Entries /\ e.op = ledger[s].op /\ e.fenced = TRUE
    BY <1>1, <1>2 DEF Entries
  <1>4. ledger' = [ledger EXCEPT ![s] = e]
    BY <1>1, <1>2
  <1> QED
    BY <1>1, <1>3, <1>4

LEMMA JournalStep ==
  ASSUME TrackingInv, NEW w \in Workers, NEW s \in Samples, s = Of(w),
         exec' \in [Workers -> Execution], \A v \in Workers \ {w} : exec'[v] = exec[v],
         UNCHANGED <<run, sample>>,
         ledger' \in [Samples -> Entries], \A t \in Samples \ {s} : ledger'[t] = ledger[t],
         Grows(s),
         posted' = posted \/ (posted' = posted \cup {s} /\ exec[w].at = "send"),
         exec'[w].at \in {"submit", "send"} => exec[w].at \in {"submit", "send"},
         Buyer(exec'[w]) => exec'[w].of = s /\ (Buyer(exec[w]) \/ ledger[s].op = "none"),
         Knows(exec[w])'
  PROVE  TrackingInv'
PROOF
  <1>1. TrackingTypeOK'
    BY DEF TrackingInv, TrackingTypeOK
  <1>2. exec'[w].at \in {"submit", "send"} => Buyer(exec'[w])
    BY DEF Buyer, Unsent
  <1>3. Kept(s)' /\ RunMatchesSamples'
    BY <1>2, SameRow
  <1>4. Local(w, s)
    BY <1>2, <1>3 DEF Local, Posts, Buyer, Unsent
  <1> QED
    BY <1>1, <1>4, LocalStep

LEMMA BeginStep ==
  ASSUME Sampled, TrackingInv, NEW w \in Workers, Begin(w)
  PROVE  TrackingInv'
PROOF
  <1>1. TrackingTypeOK /\ UNCHANGED <<run, sample, posted>>
    BY DEF TrackingInv, Begin, history
  <1>2. PICK s \in Samples : s = Of(w)
    BY <1>1 DEF TrackingTypeOK, Execution, Of
  <1>3. CASE Ends(w) /\ ledger' = ledger
    BY <1>1, <1>3, EndStep
  <1>4. CASE /\ ledger[s] = NoEntry
             /\ ledger' = [ledger EXCEPT ![s].op = "intended"]
             /\ Goes(w, "fence")
    <2>1. /\ exec' \in [Workers -> Execution] /\ exec'[w].at = "fence" /\ exec'[w].of = s
          /\ \A v \in Workers \ {w} : exec'[v] = exec[v]
      BY <1>1, <1>2, <1>4, Went DEF Places
    <2>2. /\ ledger' \in [Samples -> Entries]
          /\ ledger'[s].op = "intended" /\ ledger'[s].fenced = ledger[s].fenced
          /\ \A t \in Samples \ {s} : ledger'[t] = ledger[t]
      BY <1>1, <1>4, OpWritten
    <2>3. Grows(s) /\ s \notin posted /\ ledger[s].op = "none"
      BY <1>4, <2>2 DEF Grows, NoEntry, TrackingInv, Kept
    <2>4. Knows(exec[w])'
      BY <1>1, <2>1, <2>2, <2>3 DEF Knows, Buyer, Unsent, Told, Fenced
    <2> QED
      BY <1>1, <1>2, <2>1, <2>2, <2>3, <2>4, JournalStep
  <1> QED
    BY <1>2, <1>3, <1>4 DEF Begin

LEMMA FenceStep ==
  ASSUME TrackingInv, NEW w \in Workers, Fence(w)
  PROVE  TrackingInv'
PROOF
  <1>1. /\ TrackingTypeOK /\ UNCHANGED <<run, sample, posted>>
        /\ Knows(exec[w]) /\ exec[w].at = "fence"
    BY DEF TrackingInv, Fence
  <1>2. PICK s \in Samples : s = Of(w)
    BY <1>1 DEF TrackingTypeOK, Execution, Of
  <1>3. PICK to \in {"barrier", "cancel"} :
          /\ Goes(w, to)
          /\ \/ ledger' = [ledger EXCEPT ![s].fenced = TRUE]
             \/ to = "cancel" /\ ledger' = ledger
    BY <1>2 DEF Fence
  <1>4. /\ exec' \in [Workers -> Execution] /\ exec'[w].at = to /\ exec'[w].of = s
        /\ \A v \in Workers \ {w} : exec'[v] = exec[v]
    BY <1>1, <1>2, <1>3, Went DEF Places
  <1>5. /\ ledger' \in [Samples -> Entries] /\ ledger'[s].op = ledger[s].op
        /\ ledger'[s].fenced = TRUE \/ (to = "cancel" /\ ledger' = ledger)
        /\ \A t \in Samples \ {s} : ledger'[t] = ledger[t]
    BY <1>1, <1>3, FenceWritten DEF TrackingTypeOK
  <1>6. Grows(s) /\ Buyer(exec[w]) /\ s \notin posted /\ ledger[s].op # "none"
    BY <1>1, <1>2, <1>5 DEF Grows, Buyer, Knows, Unsent, Told, Of, TrackingInv, Kept
  <1>7. Knows(exec[w])'
    BY <1>1, <1>4, <1>5, <1>6 DEF Knows, Buyer, Unsent, Told, Fenced
  <1> QED
    BY <1>1, <1>2, <1>4, <1>5, <1>6, <1>7, JournalStep

LEMMA CancelEntryStep ==
  ASSUME Sampled, TrackingInv, NEW w \in Workers, CancelEntry(w)
  PROVE  TrackingInv'
PROOF
  <1>1. TrackingTypeOK /\ UNCHANGED <<run, sample, posted>> /\ Ends(w)
    BY DEF TrackingInv, CancelEntry, history
  <1>2. PICK s \in Samples : s = Of(w)
    BY <1>1 DEF TrackingTypeOK, Execution, Of
  <1>3. CASE ledger' = ledger
    BY <1>1, <1>3, EndStep
  <1>4. CASE ~ledger[s].fenced /\ ledger' = [ledger EXCEPT ![s].op = "zero"]
    <2>1. /\ exec' \in [Workers -> Execution] /\ exec'[w].at = "idle"
          /\ \A v \in Workers \ {w} : exec'[v] = exec[v]
      BY <1>1, Ended
    <2>2. /\ ledger' \in [Samples -> Entries]
          /\ ledger'[s].op = "zero" /\ ledger'[s].fenced = ledger[s].fenced
          /\ \A t \in Samples \ {s} : ledger'[t] = ledger[t]
      BY <1>1, <1>4, OpWritten
    <2>3. Grows(s)
      <3>1. ledger[s].op = "settled" => ledger[s].fenced
        BY DEF TrackingInv, Kept
      <3>2. ledger[s].op = "none" \/ ledger'[s].op # "none"
        BY <2>2
      <3> QED
        BY <1>4, <2>2, <3>1, <3>2 DEF Grows
    <2> QED
      BY <1>1, <1>2, <2>1, <2>2, <2>3, IdleKnowsNothing, JournalStep
  <1> QED
    BY <1>2, <1>3, <1>4 DEF CancelEntry

LEMMA DeniedStep ==
  ASSUME TrackingInv, NEW w \in Workers, Denied(w)
  PROVE  TrackingInv'
PROOF
  <1>1. /\ TrackingTypeOK /\ UNCHANGED <<run, sample, posted>>
        /\ Knows(exec[w]) /\ exec[w].at = "denied"
    BY DEF TrackingInv, Denied, history
  <1>2. PICK s \in Samples : s = Of(w)
    BY <1>1 DEF TrackingTypeOK, Execution, Of
  <1>3. /\ exec' \in [Workers -> Execution] /\ exec'[w].at = "persist" /\ exec'[w].of = s
        /\ exec'[w].from = "submission_started" /\ exec'[w].receipt = "zero"
        /\ \A v \in Workers \ {w} : exec'[v] = exec[v]
    BY <1>1, <1>2, WasRefused DEF Denied, Dispatches
  <1>4. /\ ledger' \in [Samples -> Entries]
        /\ ledger'[s].op = "settled" /\ ledger'[s].fenced = ledger[s].fenced
        /\ \A t \in Samples \ {s} : ledger'[t] = ledger[t]
    BY <1>1, <1>2, OpWritten DEF Denied
  <1>5. Buyer(exec[w]) /\ s \notin posted /\ ledger[s].fenced
    BY <1>1, <1>2 DEF Buyer, Knows, Unsent, Told, Fenced, Of
  <1>6. Grows(s)
    BY <1>4, <1>5 DEF Grows
  <1>7. Knows(exec[w])'
    BY <1>1, <1>3, <1>4, <1>5 DEF Knows, Buyer, Unsent, Told, Fenced
  <1> QED
    BY <1>1, <1>2, <1>3, <1>4, <1>5, <1>6, <1>7, JournalStep

LEMMA SettleStep ==
  ASSUME Sampled, TrackingInv, NEW w \in Workers, Settle(w)
  PROVE  TrackingInv'
PROOF
  <1>1. /\ TrackingTypeOK /\ UNCHANGED <<run, sample, posted>>
        /\ Knows(exec[w]) /\ exec[w].at \in {"paid", "settle"}
    BY DEF TrackingInv, Settle, history
  <1>2. PICK s \in Samples : s = Of(w)
    BY <1>1 DEF TrackingTypeOK, Execution, Of
  <1>3. PICK op \in {"pending", "settled"} :
          /\ op = SettledAs(s, exec[w].receipt)
          /\ ledger' = [ledger EXCEPT ![s].op = op]
    BY <1>2 DEF Settle, SettledAs
  <1>4. /\ ledger[s].fenced /\ s \in posted /\ exec[w].receipt \in Bills
        /\ op # "settled" => ledger[s].op # "settled" /\ exec[w].receipt = "unknown"
    BY <1>1, <1>2, <1>3 DEF Knows, Fenced, Told, Of, SettledAs
  <1>5. /\ ledger' \in [Samples -> Entries]
        /\ ledger'[s].op = op /\ ledger'[s].fenced = ledger[s].fenced
        /\ \A t \in Samples \ {s} : ledger'[t] = ledger[t]
    BY <1>1, <1>3, OpWritten
  <1>6. Grows(s)
    BY <1>4, <1>5 DEF Grows
  <1>7. CASE exec[w].at = "settle"
    <2>1. /\ exec' \in [Workers -> Execution] /\ exec'[w].at = "persist" /\ exec'[w].of = s
          /\ exec'[w].receipt = exec[w].receipt /\ exec'[w].from = exec[w].from
          /\ \A v \in Workers \ {w} : exec'[v] = exec[v]
      BY <1>1, <1>2, <1>7, Went DEF Settle, Places
    <2>2. Buyer(exec'[w]) => Buyer(exec[w])
      BY <1>7, <2>1 DEF Buyer, Unsent, Told
    <2>3. Knows(exec[w])'
      BY <1>1, <1>4, <1>5, <2>1 DEF Knows, Unsent, Told, Fenced
    <2> QED
      BY <1>1, <1>2, <1>5, <1>6, <2>1, <2>2, <2>3, JournalStep
  <1>8. CASE exec[w].at = "paid"
    <2>1. /\ exec' \in [Workers -> Execution] /\ exec'[w].at = "idle"
          /\ \A v \in Workers \ {w} : exec'[v] = exec[v]
      BY <1>1, <1>8, Ended DEF Settle
    <2> QED
      BY <1>1, <1>2, <1>5, <1>6, <2>1, IdleKnowsNothing, JournalStep
  <1> QED
    BY <1>1, <1>7, <1>8

\* The POST: the sample counts as sent from here on, whatever comes back.
LEMMA SendStep ==
  ASSUME TrackingInv, NEW w \in Workers, Send(w)
  PROVE  TrackingInv'
PROOF
  <1>1. /\ TrackingTypeOK /\ UNCHANGED <<run, sample, ledger>>
        /\ Knows(exec[w]) /\ exec[w].at = "send"
    BY DEF TrackingInv, Send
  <1>2. PICK s \in Samples : s = Of(w)
    BY <1>1 DEF TrackingTypeOK, Execution, Of
  <1>3. /\ exec' \in [Workers -> Execution] /\ exec'[w].of = s
        /\ exec'[w].at \in {"lost", "vague", "bought", "settle"}
        /\ exec'[w].at \in {"bought", "settle"} => exec'[w].receipt \in Bills
        /\ exec'[w].at = "settle" => exec'[w].from = "submission_started"
        /\ \A v \in Workers \ {w} : exec'[v] = exec[v]
    <2>1. CASE \E to \in {"lost", "vague"} : Goes(w, to)
      BY <1>1, <1>2, <2>1, Went DEF Places
    <2>2. CASE \E r \in {"unknown"} \cup PostReceipts(Of(w)) :
                 exec' = [exec EXCEPT ![w].at = "bought", ![w].receipt = r]
      <3>1. PICK r \in Bills : exec' = [exec EXCEPT ![w].at = "bought", ![w].receipt = r]
        BY <2>2 DEF PostReceipts, Bills
      <3>2. exec[w] \in Execution /\ exec \in [Workers -> Execution]
        BY <1>1 DEF TrackingTypeOK
      <3>3. PICK x : x = [exec[w] EXCEPT !.at = "bought", !.receipt = r]
        OBVIOUS
      <3>4. x \in Execution /\ x.at = "bought" /\ x.receipt = r /\ x.of = s
        BY <1>2, <3>1, <3>2, <3>3 DEF Execution, Places, Bills, Receipts, Of
      <3>5. exec' = [exec EXCEPT ![w] = x]
        BY <3>1, <3>2, <3>3
      <3> QED
        BY <3>1, <3>2, <3>4, <3>5
    <2>3. CASE \E r \in {"unknown"} \cup PostReceipts(Of(w)), measured \in {{"failed"}, Answers} :
                 Answered(w, "submission_started", measured, r)
      <3>1. PICK r \in Bills, measured \in SUBSET Measures :
              Answered(w, "submission_started", measured, r)
        BY <2>3 DEF PostReceipts, Bills, Measures
      <3> QED
        BY <1>1, <1>2, <3>1, WasAnswered DEF Bills, Receipts, Dispatches
    <2> QED
      BY <2>1, <2>2, <2>3 DEF Send
  <1>4. Buyer(exec[w]) /\ ledger[s].op # "none" /\ ledger[s].fenced /\ posted' = posted \cup {s}
    BY <1>1, <1>2 DEF Send, Buyer, Knows, Unsent, Told, Fenced, Of
  <1>5. Grows(s)
    BY <1>1, SameLedger
  <1>6. Knows(exec[w])'
    BY <1>1, <1>3, <1>4 DEF Knows, Buyer, Unsent, Told, Fenced, Bills
  <1>7. ledger' \in [Samples -> Entries] /\ \A t \in Samples \ {s} : ledger'[t] = ledger[t]
    BY <1>1 DEF TrackingTypeOK
  <1> QED
    BY <1>1, <1>2, <1>3, <1>4, <1>5, <1>6, <1>7, JournalStep

-----------------------------------------------------------------------------
(* The steps that write to the row of the sample.                          *)

\* The sample stays open, and past its claim, while its journal grows.
LEMMA RowStep ==
  ASSUME TrackingInv, NEW w \in Workers, NEW s \in Samples, s = Of(w),
         exec' \in [Workers -> Execution], \A v \in Workers \ {w} : exec'[v] = exec[v],
         run' = run, posted' = posted,
         sample' \in [Samples -> Row], \A t \in Samples \ {s} : sample'[t] = sample[t],
         ledger' \in [Samples -> Entries], \A t \in Samples \ {s} : ledger'[t] = ledger[t],
         Grows(s), s \in posted' => ledger'[s].fenced /\ ledger'[s].op # "none",
         ~Terminal(s), ~Terminal(s)', ~Unsubmitted(s)',
         sample'[s].dispatch = "submission_started" => ~sample'[s].task,
         sample'[s].task => s \in posted /\ ledger[s].fenced /\ sample'[s].receipt \in Bills,
         sample'[s].receipt \in {"deposit", "known"} => s \in posted,
         Buyer(exec'[w]) => exec'[w].of = s /\ Buyer(exec[w]),
         Knows(exec[w])'
  PROVE  TrackingInv'
PROOF
  <1>1. TrackingTypeOK'
    BY DEF TrackingInv, TrackingTypeOK
  <1>2. exec'[w].at \in {"submit", "send"} => Buyer(exec'[w])
    BY DEF Buyer, Unsent
  <1>3. RunMatchesSamples'
    BY OpenRow
  <1>4. Kept(s)'
    BY DEF Kept, Grows
  <1>5. Local(w, s)
    BY <1>2, <1>3, <1>4 DEF Local, Posts
  <1> QED
    BY <1>1, <1>5, LocalStep

\* A submission that is taken for lost.
LEMMA GaveUpStep ==
  ASSUME Sampled, TrackingInv, NEW w \in Workers, Suspect(w) \/ Lose(w)
  PROVE  TrackingInv'
PROOF
  <1>1. /\ TrackingTypeOK /\ UNCHANGED <<run, ledger, posted>> /\ Ends(w)
    BY DEF TrackingInv, Suspect, Lose, history
  <1>2. PICK s \in Samples : s = Of(w) /\ sample[s] \in Row
    BY <1>1 DEF TrackingTypeOK, Execution, Of
  <1>3. CASE sample' = sample
    BY <1>1, <1>3, EndStep
  <1>4. CASE /\ sample[s].dispatch = "submission_started"
             /\ Moved(s, "submission_unknown", sample[s].receipt)
    <2>1. /\ exec' \in [Workers -> Execution] /\ exec'[w].at = "idle"
          /\ \A v \in Workers \ {w} : exec'[v] = exec[v]
      BY <1>1, Ended
    <2>2. /\ sample' \in [Samples -> Row]
          /\ sample'[s].dispatch = "submission_unknown" /\ sample'[s].receipt = sample[s].receipt
          /\ sample'[s].task = sample[s].task
          /\ \A t \in Samples \ {s} : sample'[t] = sample[t]
      BY <1>1, <1>2, <1>4, MovedRow DEF Row, Dispatches
    <2>3. /\ ~Terminal(s) /\ ~Terminal(s)' /\ ~Unsubmitted(s)'
      BY <1>4, <2>2 DEF Terminal, Unsubmitted
    <2>4. Grows(s) /\ Kept(s)
      BY <1>1, SameLedger DEF TrackingInv
    <2>5. ledger' \in [Samples -> Entries] /\ \A t \in Samples \ {s} : ledger'[t] = ledger[t]
      BY <1>1 DEF TrackingTypeOK
    <2> QED
      BY <1>1, <1>2, <2>1, <2>2, <2>3, <2>4, <2>5, IdleKnowsNothing, RowStep DEF Kept
  <1> QED
    BY <1>2, <1>3, <1>4 DEF Suspect, Lose, MayMove

LEMMA DoubtStep ==
  ASSUME Sampled, TrackingInv, NEW w \in Workers, Doubt(w)
  PROVE  TrackingInv'
PROOF
  <1>1. /\ TrackingTypeOK /\ UNCHANGED <<run, ledger, posted>> /\ Ends(w)
        /\ Knows(exec[w]) /\ exec[w].at = "vague"
    BY DEF TrackingInv, Doubt, history
  <1>2. PICK s \in Samples : s = Of(w) /\ sample[s] \in Row
    BY <1>1 DEF TrackingTypeOK, Execution, Of
  <1>3. CASE sample' = sample
    BY <1>1, <1>3, EndStep
  <1>4. ASSUME NEW named \in BOOLEAN, NEW r \in Bills,
               sample[s].dispatch = "submission_started",
               sample' = [sample EXCEPT ![s] =
                 [@ EXCEPT !.dispatch = "submission_unknown", !.task = named, !.receipt = r]]
        PROVE  TrackingInv'
    <2>1. /\ exec' \in [Workers -> Execution] /\ exec'[w].at = "idle"
          /\ \A v \in Workers \ {w} : exec'[v] = exec[v]
      BY <1>1, Ended
    <2>2. PICK x : x = [sample[s] EXCEPT !.dispatch = "submission_unknown", !.task = named,
                                         !.receipt = r]
      OBVIOUS
    <2>3. x \in Row /\ x.dispatch = "submission_unknown" /\ x.receipt = r
      BY <1>2, <2>2 DEF Row, Dispatches, Receipts, Bills
    <2>4. sample' = [sample EXCEPT ![s] = x] /\ sample \in [Samples -> Row]
      BY <1>1, <1>4, <2>2 DEF TrackingTypeOK
    <2>5. /\ sample' \in [Samples -> Row] /\ sample'[s] = x
          /\ \A t \in Samples \ {s} : sample'[t] = sample[t]
      BY <2>3, <2>4
    <2>6. /\ ~Terminal(s) /\ ~Terminal(s)' /\ ~Unsubmitted(s)'
      BY <1>4, <2>3, <2>5 DEF Terminal, Unsubmitted
    <2>7. Grows(s) /\ Kept(s) /\ s \in posted /\ ledger[s].fenced
      BY <1>1, <1>2, SameLedger DEF TrackingInv, Knows, Fenced, Told, Of
    <2>8. ledger' \in [Samples -> Entries] /\ \A t \in Samples \ {s} : ledger'[t] = ledger[t]
      BY <1>1 DEF TrackingTypeOK
    <2> QED
      BY <1>1, <1>2, <1>4, <2>1, <2>3, <2>5, <2>6, <2>7, <2>8, IdleKnowsNothing, RowStep
         DEF Kept
  <1>5. {"unknown"} \cup PostReceipts(s) \subseteq Bills
    BY DEF PostReceipts, Bills
  <1> QED
    BY <1>2, <1>3, <1>4, <1>5 DEF Doubt, MayMove

LEMMA BoughtStep ==
  ASSUME Sampled, TrackingInv, NEW w \in Workers, Bought(w)
  PROVE  TrackingInv'
PROOF
  <1>1. /\ TrackingTypeOK /\ UNCHANGED <<run, ledger, posted>>
        /\ Knows(exec[w]) /\ exec[w].at = "bought"
    BY DEF TrackingInv, Bought, history
  <1>2. PICK s \in Samples : s = Of(w) /\ sample[s] \in Row
    BY <1>1 DEF TrackingTypeOK, Execution, Of
  <1>3. CASE sample' = sample /\ Ends(w)
    BY <1>1, <1>3, EndStep
  <1>4. ASSUME Goes(w, "paid"), sample[s].dispatch = "submission_started",
               sample' = [sample EXCEPT ![s] =
                 [@ EXCEPT !.dispatch = "submitted", !.task = TRUE,
                           !.receipt = exec[w].receipt]]
        PROVE  TrackingInv'
    <2>1. /\ exec' \in [Workers -> Execution] /\ exec'[w].at = "paid" /\ exec'[w].of = s
          /\ exec'[w].receipt = exec[w].receipt
          /\ \A v \in Workers \ {w} : exec'[v] = exec[v]
      BY <1>1, <1>2, <1>4, Went DEF Places
    <2>a. PICK r \in Bills : r = exec[w].receipt
      BY <1>1 DEF Knows
    <2>2. PICK x : x = [sample[s] EXCEPT !.dispatch = "submitted", !.task = TRUE, !.receipt = r]
      OBVIOUS
    <2>3. x \in Row /\ x.dispatch = "submitted" /\ x.receipt = r
      BY <1>2, <2>2 DEF Row, Dispatches, Receipts, Bills
    <2>4. sample' = [sample EXCEPT ![s] = x] /\ sample \in [Samples -> Row]
      BY <1>1, <1>4, <2>a, <2>2 DEF TrackingTypeOK
    <2>5. /\ sample' \in [Samples -> Row] /\ sample'[s] = x
          /\ \A t \in Samples \ {s} : sample'[t] = sample[t]
      BY <2>3, <2>4
    <2>6. /\ ~Terminal(s) /\ ~Terminal(s)' /\ ~Unsubmitted(s)'
      BY <1>4, <2>3, <2>5 DEF Terminal, Unsubmitted
    <2>7. /\ Grows(s) /\ Kept(s) /\ s \in posted /\ ledger[s].fenced
          /\ Buyer(exec[w]) /\ ledger[s].op # "none"
      BY <1>1, <1>2, SameLedger DEF TrackingInv, Knows, Fenced, Told, Of, Buyer
    <2>8. ledger' \in [Samples -> Entries] /\ \A t \in Samples \ {s} : ledger'[t] = ledger[t]
      BY <1>1 DEF TrackingTypeOK
    <2>9. Knows(exec[w])'
      BY <1>1, <2>1, <2>a, <2>7 DEF Knows, Unsent, Told, Fenced
    <2> QED
      BY <1>1, <1>2, <2>1, <2>3, <2>5, <2>6, <2>7, <2>8, <2>9, RowStep
  <1> QED
    BY <1>2, <1>3, <1>4 DEF Bought, MayMove

LEMMA CollectStep ==
  ASSUME Sampled, TrackingInv, NEW w \in Workers, Collect(w)
  PROVE  TrackingInv'
PROOF
  <1>1. /\ TrackingTypeOK /\ UNCHANGED <<run, ledger, posted>>
        /\ Knows(exec[w]) /\ exec[w].at = "collect" /\ exec[w] \in Execution
    BY DEF TrackingInv, TrackingTypeOK, Collect, history
  <1>2. PICK s \in Samples : s = Of(w) /\ sample[s] \in Row
    BY <1>1 DEF TrackingTypeOK, Execution, Of
  <1>3. CASE sample' = sample /\ Ends(w)
    BY <1>1, <1>3, EndStep
  <1>4. CASE /\ sample[s].dispatch = exec[w].from /\ Goes(w, "get")
             /\ Moved(s, "collecting", sample[s].receipt)
    <2>1. /\ exec' \in [Workers -> Execution] /\ exec'[w].at = "get" /\ exec'[w].of = s
          /\ exec'[w].receipt = exec[w].receipt
          /\ \A v \in Workers \ {w} : exec'[v] = exec[v]
      BY <1>1, <1>2, <1>4, Went DEF Places
    <2>2. /\ sample' \in [Samples -> Row]
          /\ sample'[s].dispatch = "collecting" /\ sample'[s].receipt = sample[s].receipt
          /\ sample'[s].task = sample[s].task
          /\ \A t \in Samples \ {s} : sample'[t] = sample[t]
      BY <1>1, <1>2, <1>4, MovedRow DEF Row, Dispatches
    <2>3. /\ ~Terminal(s) /\ ~Terminal(s)' /\ ~Unsubmitted(s)'
      BY <1>1, <1>4, <2>2 DEF Terminal, Unsubmitted, Execution
    <2>4. /\ Grows(s) /\ Kept(s) /\ s \in posted /\ ledger[s].fenced
          /\ ledger[s].op # "none" /\ exec[w].receipt \in Bills
      BY <1>1, <1>2, SameLedger DEF TrackingInv, Knows, Kept, Fenced, Of
    <2>5. ledger' \in [Samples -> Entries] /\ \A t \in Samples \ {s} : ledger'[t] = ledger[t]
      BY <1>1 DEF TrackingTypeOK
    <2>6. Knows(exec[w])' /\ ~Buyer(exec'[w])
      BY <1>1, <2>1, <2>4 DEF Knows, Unsent, Told, Fenced, Buyer
    <2> QED
      BY <1>1, <1>2, <2>1, <2>2, <2>3, <2>4, <2>5, <2>6, RowStep DEF Kept
  <1> QED
    BY <1>2, <1>3, <1>4 DEF Collect, MayMove

\* The barrier: the row says that the POST may be on its way.
LEMMA BarrierStep ==
  ASSUME TrackingInv, NEW w \in Workers, Barrier(w)
  PROVE  TrackingInv'
PROOF
  <1>1. /\ TrackingTypeOK /\ UNCHANGED <<run, ledger, posted>>
        /\ Knows(exec[w]) /\ exec[w].at = "barrier"
    BY DEF TrackingInv, Barrier, history
  <1>2. PICK s \in Samples : s = Of(w) /\ sample[s] \in Row
    BY <1>1 DEF TrackingTypeOK, Execution, Of
  <1>3. /\ Grows(s) /\ Kept(s) /\ s \notin posted /\ ledger[s].fenced
        /\ Buyer(exec[w]) /\ ledger[s].op # "none"
    BY <1>1, <1>2, SameLedger DEF TrackingInv, Knows, Fenced, Unsent, Of, Buyer
  <1>4. ledger' \in [Samples -> Entries] /\ \A t \in Samples \ {s} : ledger'[t] = ledger[t]
    BY <1>1 DEF TrackingTypeOK
  <1>5. ASSUME NEW to \in {"submit", "cancel"}, Goes(w, to)
        PROVE  /\ exec' \in [Workers -> Execution] /\ exec'[w].at = to /\ exec'[w].of = s
               /\ \A v \in Workers \ {w} : exec'[v] = exec[v]
               /\ Knows(exec[w])'
    <2>1. /\ exec' \in [Workers -> Execution] /\ exec'[w].at = to /\ exec'[w].of = s
          /\ \A v \in Workers \ {w} : exec'[v] = exec[v]
      BY <1>1, <1>2, <1>5, Went DEF Places
    <2>2. Knows(exec[w])'
      BY <1>1, <1>3, <1>5, <2>1 DEF Knows, Unsent, Told, Fenced
    <2> QED
      BY <2>1, <2>2
  <1>6. CASE sample' = sample /\ Goes(w, "cancel")
    BY <1>1, <1>2, <1>3, <1>5, <1>6, ExecutionStep
  <1>7. CASE /\ sample[s].dispatch = "claimed" /\ Goes(w, "submit")
             /\ Moved(s, "submission_started", "unknown")
    <2>1. /\ sample' \in [Samples -> Row]
          /\ sample'[s].dispatch = "submission_started" /\ sample'[s].receipt = "unknown"
          /\ sample'[s].task = sample[s].task
          /\ \A t \in Samples \ {s} : sample'[t] = sample[t]
      BY <1>1, <1>7, MovedRow DEF Dispatches, Receipts
    <2>2. /\ ~Terminal(s) /\ ~Terminal(s)' /\ ~Unsubmitted(s)' /\ ~sample[s].task
      BY <1>3, <1>7, <2>1 DEF Terminal, Unsubmitted, Kept
    <2>3. /\ exec' \in [Workers -> Execution] /\ exec'[w].of = s
          /\ \A v \in Workers \ {w} : exec'[v] = exec[v]
          /\ Knows(exec[w])'
      BY <1>5, <1>7
    <2> QED
      BY <1>1, <1>2, <1>3, <1>4, <2>1, <2>2, <2>3, RowStep
  <1> QED
    BY <1>2, <1>6, <1>7 DEF Barrier, MayMove

LEMMA BeginUnsureStep ==
  ASSUME Sampled, TrackingInv, NEW w \in Workers, BeginUnsure(w)
  PROVE  TrackingInv'
PROOF
  <1>1. /\ TrackingTypeOK /\ UNCHANGED <<run, posted>> /\ Ends(w)
    BY DEF TrackingInv, BeginUnsure
  <1>2. PICK s \in Samples : s = Of(w) /\ sample[s] \in Row /\ Kept(s)
    BY <1>1 DEF TrackingTypeOK, Execution, Of, TrackingInv
  <1>3. /\ exec' \in [Workers -> Execution] /\ exec'[w].at = "idle"
        /\ \A v \in Workers \ {w} : exec'[v] = exec[v]
    BY <1>1, Ended
  <1>4. /\ ledger' \in [Samples -> Entries]
        /\ \A t \in Samples \ {s} : ledger'[t] = ledger[t]
        /\ Grows(s)
    <2>1. CASE ledger' = ledger
      BY <1>1, <2>1, SameLedger DEF TrackingTypeOK
    <2>2. CASE ledger[s] = NoEntry /\ ledger' = [ledger EXCEPT ![s].op = "intended"]
      <3>1. /\ ledger' \in [Samples -> Entries]
            /\ ledger'[s].op = "intended" /\ ledger'[s].fenced = ledger[s].fenced
            /\ \A t \in Samples \ {s} : ledger'[t] = ledger[t]
        BY <1>1, <2>2, OpWritten
      <3>2. ledger[s].op = "none"
        BY <2>2 DEF NoEntry
      <3> QED
        BY <3>1, <3>2 DEF Grows
    <2> QED
      BY <1>2, <2>1, <2>2 DEF BeginUnsure
  <1>5. s \in posted' => ledger'[s].fenced /\ ledger'[s].op # "none"
    BY <1>1, <1>2, <1>4 DEF Kept, Grows
  <1>6. CASE sample' = sample
    BY <1>1, <1>2, <1>3, <1>4, <1>6, IdleKnowsNothing, JournalStep
  <1>7. CASE sample[s].dispatch = "claimed" /\ Moved(s, "submission_unknown", "unknown")
    <2>1. /\ sample' \in [Samples -> Row]
          /\ sample'[s].dispatch = "submission_unknown" /\ sample'[s].receipt = "unknown"
          /\ sample'[s].task = sample[s].task
          /\ \A t \in Samples \ {s} : sample'[t] = sample[t]
      BY <1>1, <1>7, MovedRow DEF Dispatches, Receipts
    <2>2. /\ ~Terminal(s) /\ ~Terminal(s)' /\ ~Unsubmitted(s)' /\ ~sample[s].task
      BY <1>2, <1>7, <2>1 DEF Terminal, Unsubmitted, Kept
    <2> QED
      BY <1>1, <1>2, <1>3, <1>4, <1>5, <2>1, <2>2, IdleKnowsNothing, RowStep
  <1> QED
    BY <1>2, <1>6, <1>7 DEF BeginUnsure, MayMove

LEMMA ClaimStep ==
  ASSUME Sampled, TrackingInv, NEW w \in Workers, Claim(w)
  PROVE  TrackingInv'
PROOF
  <1>1. /\ TrackingTypeOK /\ UNCHANGED <<ledger, posted>>
    BY DEF TrackingInv, Claim, history
  <1>2. PICK s \in Samples : s = Of(w) /\ sample[s] \in Row /\ Kept(s)
    BY <1>1 DEF TrackingTypeOK, Execution, Of, TrackingInv
  <1>3. CASE Ends(w) /\ UNCHANGED <<sample, run>>
    BY <1>1, <1>3, EndStep
  <1>4. CASE /\ sample[s].dispatch = "planned" /\ run \in OpenRuns
             /\ Moved(s, "claimed", "none") /\ run' = "running" /\ Goes(w, "prepare")
    <2>1. /\ exec' \in [Workers -> Execution] /\ exec'[w].at = "prepare"
          /\ \A v \in Workers \ {w} : exec'[v] = exec[v]
      BY <1>1, <1>4, Went DEF Places
    <2>2. /\ sample' \in [Samples -> Row]
          /\ sample'[s].dispatch = "claimed" /\ sample'[s].receipt = "none"
          /\ sample'[s].task = sample[s].task
          /\ \A t \in Samples \ {s} : sample'[t] = sample[t]
      BY <1>1, <1>4, MovedRow DEF Dispatches, Receipts
    <2>3. TrackingTypeOK'
      BY <1>1, <1>4, <2>1, <2>2 DEF TrackingTypeOK, OpenRuns
    <2>4. Grows(s) /\ NotSent(s) /\ ~sample[s].task
      BY <1>1, <1>2, <1>4, SameLedger DEF Kept, Unsubmitted
    <2>5. NotSent(s)'
      BY <1>1, <2>1, <2>4 DEF NotSent, Of
    <2>6. Kept(s)'
      BY <1>2, <2>2, <2>4, <2>5 DEF Kept, Grows, Unsubmitted, Terminal, NotSent
    <2>7. ~Terminal(s)'
      BY <2>2 DEF Terminal
    <2>8. RunMatchesSamples'
      BY <1>4, <2>7 DEF RunMatchesSamples, Concluded
    <2>9. ~Buyer(exec'[w]) /\ Knows(exec[w])'
      BY <2>1 DEF Buyer, Knows, Unsent, Told, Fenced
    <2>10. Local(w, s)
      BY <1>1, <2>1, <2>2, <2>4, <2>6, <2>8, <2>9 DEF Local, Posts
    <2> QED
      BY <2>3, <2>10, LocalStep
  <1> QED
    BY <1>2, <1>3, <1>4 DEF Claim

\* The result of a sample, and the end of the run with its last sample.
LEMMA PersistStep ==
  ASSUME Sampled, TrackingInv, NEW w \in Workers, Persist(w)
  PROVE  TrackingInv'
PROOF
  <1>1. /\ TrackingTypeOK /\ OneBuyer /\ RunMatchesSamples /\ Knows(exec[w])
        /\ UNCHANGED <<ledger, posted>> /\ Ends(w)
        /\ exec[w].at = "persist" /\ exec[w] \in Execution
    BY DEF TrackingInv, TrackingTypeOK, Persist, history
  <1>2. PICK s \in Samples : s = Of(w) /\ sample[s] \in Row /\ Kept(s)
    BY <1>1 DEF TrackingTypeOK, Execution, Of, TrackingInv
  <1>3. CASE UNCHANGED <<sample, run>>
    BY <1>1, <1>3, EndStep
  <1>4. ASSUME sample[s].dispatch = exec[w].from,
               sample' = [sample EXCEPT ![s] =
                 [@ EXCEPT !.dispatch = "terminal", !.receipt = exec[w].receipt,
                           !.measured = exec[w].measured]],
               run' = FinishRun(sample')
        PROVE  TrackingInv'
    <2>1. /\ exec' \in [Workers -> Execution] /\ exec'[w].at = "idle"
          /\ \A v \in Workers \ {w} : exec'[v] = exec[v]
      BY <1>1, Ended
    <2>2. PICK x : x = [sample[s] EXCEPT !.dispatch = "terminal", !.receipt = exec[w].receipt,
                                         !.measured = exec[w].measured]
      OBVIOUS
    <2>3. x \in Row /\ x.dispatch = "terminal" /\ x.receipt = exec[w].receipt
          /\ x.task = sample[s].task
      BY <1>1, <1>2, <2>2 DEF Row, Dispatches, Execution
    <2>4. sample' = [sample EXCEPT ![s] = x] /\ sample \in [Samples -> Row]
      BY <1>1, <1>4, <2>2 DEF TrackingTypeOK
    <2>5. /\ sample' \in [Samples -> Row] /\ sample'[s] = x
          /\ \A t \in Samples \ {s} : sample'[t] = sample[t]
      BY <2>3, <2>4
    <2>6. /\ run' \in {run} \cup Concluded
          /\ run' \in OpenRuns => run = run' /\ \E t \in Samples : ~Terminal(t)'
          /\ run' \in Concluded => run \in Concluded \/ \A t \in Samples : Terminal(t)'
      BY <1>4 DEF FinishRun, Outcome, Concluded, OpenRuns, Terminal
    <2>7. TrackingTypeOK'
      BY <1>1, <2>1, <2>5, <2>6 DEF TrackingTypeOK
    <2>8. /\ Terminal(s)'
          /\ \A t \in Samples \ {s} : /\ Terminal(t)' <=> Terminal(t)
                                      /\ Unsubmitted(t)' <=> Unsubmitted(t)
      BY <2>3, <2>5 DEF Terminal, Unsubmitted
    <2>9. ~Unsubmitted(s)'
      BY <2>3, <2>5 DEF Unsubmitted
    <2>10. RunMatchesSamples'
      BY <1>1, <2>6, <2>8, <2>9 DEF RunMatchesSamples, Concluded
    <2>11. NotSent(s) => NotSent(s)'
      BY <1>1, <2>1 DEF NotSent, Of
    <2>12. x.receipt \in {"none", "zero"} => NotSent(s) /\ ~x.task
      <3>1. CASE exec[w].receipt = "zero" /\ exec[w].from = "claimed"
        BY <1>2, <1>4, <2>3, <3>1 DEF Kept, Unsubmitted
      <3>2. CASE /\ exec[w].receipt = "zero" /\ exec[w].from = "submission_started"
                 /\ s \notin posted
        <4>1. Buyer(exec[w])
          BY <1>1, <3>2 DEF Buyer
        <4>2. ASSUME NEW v \in Workers, Of(v) = s, exec[v].at \in {"submit", "send"}
              PROVE  FALSE
          <5>1. Buyer(exec[v])
            BY <4>2 DEF Buyer, Unsent
          <5> QED
            BY <1>1, <1>2, <4>1, <4>2, <5>1 DEF OneBuyer
        <4> QED
          BY <1>2, <1>4, <2>3, <3>2, <4>2 DEF NotSent, Kept
      <3> QED
        BY <1>1, <1>2, <2>3, <3>1, <3>2 DEF Knows, Of, Bills
    <2>13. /\ x.task => x.receipt \in Bills
           /\ x.receipt \in {"deposit", "known"} => s \in posted /\ ledger[s].op = "settled"
      BY <1>1, <1>2, <2>3, <2>12 DEF Knows, Of, Bills, Execution, Receipts
    <2>14. Kept(s)'
      BY <1>1, <1>2, <2>3, <2>5, <2>8, <2>9, <2>11, <2>12, <2>13 DEF Kept
    <2>15. Grows(s)
      BY <1>1, SameLedger
    <2>16. ~Buyer(exec'[w]) /\ Knows(exec[w])'
      BY <2>1, IdleKnowsNothing
    <2>17. Local(w, s)
      BY <1>1, <2>1, <2>5, <2>10, <2>14, <2>15, <2>16 DEF Local, Posts
    <2> QED
      BY <2>7, <2>17, LocalStep
  <1> QED
    BY <1>2, <1>3, <1>4 DEF Persist, MayPersist

-----------------------------------------------------------------------------
(* The other steps, the invariant, and what it says.                       *)

LEMMA CancelRunStep ==
  ASSUME TrackingInv, CancelRun
  PROVE  TrackingInv'
PROOF
  <1>1. /\ TrackingTypeOK /\ OneBuyer /\ RunMatchesSamples /\ run' = "cancelled"
        /\ UNCHANGED <<ledger, exec, posted>>
    BY DEF TrackingInv, CancelRun, history
  <1>2. ASSUME NEW s \in Samples
        PROVE  /\ sample'[s] \in Row
               /\ sample'[s] = sample[s] \/ Unsubmitted(s)
               /\ sample'[s].receipt = sample[s].receipt
               /\ sample'[s].task = sample[s].task
               /\ ~Unsubmitted(s)'
    <2>1. sample[s] \in Row
      BY <1>1 DEF TrackingTypeOK
    <2>2. PICK x : x = [sample[s] EXCEPT !.dispatch = "terminal", !.measured = "unavailable"]
      OBVIOUS
    <2>3. /\ x \in Row /\ x.dispatch = "terminal" /\ x.receipt = sample[s].receipt
          /\ x.task = sample[s].task
      BY <2>1, <2>2 DEF Row, Dispatches, Measures
    <2>4. sample'[s] = IF Unsubmitted(s) THEN x ELSE sample[s]
      BY <2>2 DEF CancelRun
    <2> QED
      BY <2>1, <2>3, <2>4 DEF Unsubmitted
  <1>3. sample' \in [Samples -> Row]
    <2>1. PICK new : new = sample'
      OBVIOUS
    <2>2. new = [s \in Samples |-> new[s]]
      BY <2>1 DEF CancelRun
    <2> QED
      BY <1>2, <2>1, <2>2
  <1>4. TrackingTypeOK'
    BY <1>1, <1>3 DEF TrackingTypeOK
  <1>5. ASSUME NEW s \in Samples
        PROVE  Kept(s)'
    <2>1. Kept(s) /\ (NotSent(s) => NotSent(s)')
      BY <1>1 DEF TrackingInv, NotSent, Of
    <2>2. CASE sample'[s] = sample[s]
      BY <1>1, <2>1, <2>2 DEF Kept, Unsubmitted, Terminal
    <2>3. CASE Unsubmitted(s)
      BY <1>1, <1>2, <2>1, <2>3 DEF Kept, Unsubmitted, Terminal
    <2> QED
      BY <1>2, <2>2, <2>3
  <1>6. OneBuyer' /\ \A w \in Workers : Knows(exec[w])'
    BY <1>1 DEF TrackingInv, OneBuyer, Knows, Of
  <1>7. RunMatchesSamples'
    BY <1>1, <1>2 DEF RunMatchesSamples, OpenRuns, Concluded
  <1> QED
    BY <1>4, <1>5, <1>6, <1>7 DEF TrackingInv

LEMMA QuietStep ==
  ASSUME TrackingInv, UNCHANGED <<run, sample, ledger, exec, posted>>
  PROVE  TrackingInv'
PROOF
  <1>1. TrackingTypeOK' /\ OneBuyer' /\ RunMatchesSamples'
    BY DEF TrackingInv, TrackingTypeOK, OneBuyer, RunMatchesSamples, Of, Terminal, Unsubmitted
  <1>2. \A w \in Workers : Knows(exec[w])'
    BY DEF TrackingInv, Knows
  <1>3. \A s \in Samples : Kept(s)'
    BY DEF TrackingInv, Kept, Unsubmitted, Terminal, NotSent, Of
  <1> QED
    BY <1>1, <1>2, <1>3 DEF TrackingInv

LEMMA TrackingInit ==
  ASSUME Sampled, Init
  PROVE  TrackingInv
PROOF
  <1>1. TrackingTypeOK
    <2>1. NewSample \in Row /\ NoEntry \in Entries
      BY DEF NewSample, NoEntry, Row, Entries, Dispatches, Receipts, Measures
    <2> QED
      BY <2>1, IdleExecution DEF Init, TrackingTypeOK, OpenRuns
  <1>2. \A w \in Workers : exec[w] = Idle /\ Idle.at = "idle"
    BY DEF Init, Idle
  <1>3. OneBuyer /\ \A w \in Workers : Knows(exec[w])
    BY <1>2 DEF OneBuyer, Knows, Buyer, Unsent, Told, Fenced
  <1>4. ASSUME NEW s \in Samples
        PROVE  /\ sample[s].dispatch = "planned" /\ ~sample[s].task
               /\ sample[s].receipt = "none"
               /\ ledger[s].op = "none" /\ s \notin posted
    BY DEF Init, NewSample, NoEntry
  <1>5. \A s \in Samples : NotSent(s) /\ Unsubmitted(s) /\ ~Terminal(s)
    BY <1>2, <1>4 DEF NotSent, Unsubmitted, Terminal
  <1>6. \A s \in Samples : Kept(s)
    BY <1>4, <1>5 DEF Kept
  <1>7. RunMatchesSamples
    BY <1>5 DEF RunMatchesSamples, Sampled, Init, Concluded
  <1> QED
    BY <1>1, <1>3, <1>6, <1>7 DEF TrackingInv

LEMMA TrackingStep ==
  ASSUME Sampled, TrackingInv, [Next]_trackingVars
  PROVE  TrackingInv'
PROOF
  <1>1. ASSUME NEW w \in Workers, Execute(w)
        PROVE  TrackingInv'
    <2>1. CASE Suspect(w) \/ Lose(w)
      BY <2>1, GaveUpStep
    <2>2. CASE Submit(w) \/ SendDenied(w)
      BY <2>2, WaitStep DEF Submit, SendDenied, history
    <2>3. CASE GetPending(w)
      BY <2>3, EndStep DEF GetPending, history
    <2>4. CASE Prepare(w) \/ GetAnswer(w)
      BY <2>4, PrepareStep, GetAnswerStep
    <2>5. CASE Begin(w) \/ BeginUnsure(w) \/ Fence(w) \/ CancelEntry(w)
      BY <2>5, BeginStep, BeginUnsureStep, FenceStep, CancelEntryStep
    <2>6. CASE Send(w) \/ Denied(w) \/ Settle(w)
      BY <2>6, SendStep, DeniedStep, SettleStep
    <2>7. CASE Claim(w) \/ Barrier(w) \/ Doubt(w) \/ Bought(w)
      BY <2>7, ClaimStep, BarrierStep, DoubtStep, BoughtStep
    <2>8. CASE Collect(w) \/ Persist(w)
      BY <2>8, CollectStep, PersistStep
    <2> QED
      BY <1>1, <2>1, <2>2, <2>3, <2>4, <2>5, <2>6, <2>7, <2>8 DEF Execute
  <1>2. ASSUME NEW w \in Workers, BreakOff(w)
        PROVE  TrackingInv'
    BY <1>2, EndStep DEF BreakOff
  <1>3. CASE CancelRun
    BY <1>3, CancelRunStep
  <1>4. CASE Expire \/ UNCHANGED trackingVars
    BY <1>4, QuietStep DEF Expire, trackingVars
  <1> QED
    BY <1>1, <1>2, <1>3, <1>4, LoadStep DEF Next

LEMMA TrackingInvariant ==
  ASSUME Sampled
  PROVE  Spec => []TrackingInv
PROOF
  <1>1. Init => TrackingInv
    BY TrackingInit
  <1>2. TrackingInv /\ [Next]_trackingVars => TrackingInv'
    BY TrackingStep
  <1> QED
    BY <1>1, <1>2, PTL DEF Spec

\* What ended as refused or cancelled was not sent, and is not about to be, for
\* any number of samples and of executions that overlap: between the claim and
\* the barrier the row is the proof, after it only the one buyer's own answer
\* (transitionTrackingSample, persistTrackingResult, cancelTrackingRun).
THEOREM FreeSamplesAreUnsent ==
  ASSUME Sampled
  PROVE  Spec => []FreeIsUnsent
PROOF
  <1>1. TrackingInv => FreeIsUnsent
    BY DEF TrackingInv, FreeIsUnsent, Kept, NotSent
  <1> QED
    BY <1>1, TrackingInvariant, PTL

\* A run that assertTrackingRunRetryable lets repeat owes nothing: all it posted
\* is settled in the journal, and none of its executions posts any more.
THEOREM RetriesAreSafe ==
  ASSUME Sampled
  PROVE  Spec => []RetryIsSafe
PROOF
  <1>1. TrackingInv => RetryIsSafe
    <2> SUFFICES ASSUME TrackingInv, Retryable
                 PROVE  /\ \A s \in posted : ledger[s].op = "settled"
                        /\ \A w \in Workers : exec[w].at # "send"
      BY DEF RetryIsSafe
    <2>1. ASSUME NEW s \in Samples
          PROVE  \/ NotSent(s)
                 \/ s \in posted /\ ledger[s].op = "settled"
      <3>1. /\ Kept(s) /\ Terminal(s) /\ sample[s].receipt \in Receipts
            /\ sample[s].receipt \notin {"unknown", "deposit"}
        BY DEF TrackingInv, TrackingTypeOK, Retryable, Row
      <3> QED
        BY <3>1 DEF Kept, Receipts
    <2>2. posted \subseteq Samples
      BY DEF TrackingInv, TrackingTypeOK
    <2>3. ASSUME NEW w \in Workers, exec[w].at = "send"
          PROVE  FALSE
      <3>1. PICK s \in Samples : s = Of(w)
        BY DEF TrackingInv, TrackingTypeOK, Execution, Of
      <3>2. s \notin posted
        BY <2>3, <3>1 DEF TrackingInv, Knows, Unsent, Of
      <3> QED
        BY <2>1, <2>3, <3>1, <3>2 DEF NotSent
    <2> QED
      BY <2>1, <2>2, <2>3 DEF NotSent
  <1> QED
    BY <1>1, TrackingInvariant, PTL

\* A run and its samples agree at every moment: finishRun concludes it with the
\* last of its samples, and no cancelled run keeps one that could be submitted.
THEOREM RunsMatchTheirSamples ==
  ASSUME Sampled
  PROVE  Spec => []RunMatchesSamples
PROOF
  <1>1. TrackingInv => RunMatchesSamples
    BY DEF TrackingInv
  <1> QED
    BY <1>1, TrackingInvariant, PTL
=============================================================================

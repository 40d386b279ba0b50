-------------------------- MODULE ServicesProofs --------------------------
(***************************************************************************)
(* Theorems about the services that MCServices composes. First             *)
(* PaidRequests, which it extends, for any number of requests and          *)
(* journals: no request written off as free is sent, no process pays while *)
(* another may have paid, and a journal keeps its limit.                   *)
(*                                                                         *)
(* Then the composition itself: whichever service it moves, it moves it as *)
(* the module of that service says, so that the theorems about the modules *)
(* hold in it. The proof of each module is instantiated as the module is   *)
(* in MCServices, and a step of the one instance is a step of the other    *)
(* because their definitions are the same ones.                            *)
(***************************************************************************)
EXTENDS MCServices, FiniteSetTheorems, TLAPS

Ops == {"none", "intended", "pending", "settled", "zero"}
Calls == {"idle", "begun", "fenced", "cancel", "known", "unknown", "settled", "over"}

PaidTypeOK ==
  /\ row \in [Requests -> [op : Ops, owner : Journals \cup {NoJournal},
                           live : BOOLEAN, fenced : BOOLEAN]]
  /\ call \in [Requests -> Calls]
  /\ inFlight \in [Journals -> SUBSET Requests]
  /\ held \in [Journals -> SUBSET Requests]
  /\ spent \in [Journals -> Nat]
  /\ unsure \in [Journals -> BOOLEAN]
  /\ sent \in SUBSET Requests
  /\ charged \in SUBSET sent

\* The fence is durable and comes first: what may be sent, or was, is fenced,
\* and a fenced request can neither be cancelled nor begun again.
FenceComesFirst ==
  \A r \in Requests :
    /\ r \in sent \/ call[r] \in {"fenced", "known", "unknown"} => row[r].fenced
    /\ row[r].fenced => row[r].op \notin {"none", "zero"}

\* What a journal has in flight is its own.
InFlightIsOwn ==
  \A j \in Journals : \A r \in inFlight[j] : Of(r) = j /\ row[r].op # "none"

SafeInv == PaidTypeOK /\ FenceComesFirst /\ InFlightIsOwn /\ OneJournalUnresolved

-----------------------------------------------------------------------------
(* Types.                                                                   *)

Row == [op : Ops, owner : Journals \cup {NoJournal}, live : BOOLEAN, fenced : BOOLEAN]

LEMMA RowUpdates ==
  ASSUME row \in [Requests -> Row], NEW r \in Requests
  PROVE  /\ \A o \in Ops : [row EXCEPT ![r].op = o] \in [Requests -> Row]
         /\ [row EXCEPT ![r].fenced = TRUE] \in [Requests -> Row]
         /\ [row EXCEPT ![r].live = FALSE] \in [Requests -> Row]
<1>1. row[r] \in Row
  OBVIOUS
<1>2. /\ \A o \in Ops : [row[r] EXCEPT !.op = o] \in Row
      /\ [row[r] EXCEPT !.fenced = TRUE] \in Row
      /\ [row[r] EXCEPT !.live = FALSE] \in Row
  BY <1>1 DEF Row
<1> QED  BY <1>2

LEMMA PaidTypeInit == Init => PaidTypeOK
BY DEF Init, PaidTypeOK, NoRow, Ops, Calls

LEMMA RequestKeepsTypes ==
  ASSUME PaidTypeOK, NEW r \in Requests, RequestStep(r)
  PROVE  PaidTypeOK'
<1>1. row[r] \in Row /\ row \in [Requests -> Row]
  BY DEF PaidTypeOK, Row
<1>2. ASSUME NEW to \in Calls, Goes(r, to)  PROVE call' \in [Requests -> Calls]
  BY <1>2 DEF Goes, PaidTypeOK
<1>14. "none" \in Ops /\ "zero" \in Ops /\ "pending" \in Ops /\ "settled" \in Ops
  BY DEF Ops
<1>15. \A to \in {"fenced", "cancel", "over", "settled"} : to \in Calls
  BY DEF Calls
<1>3. CASE Fence(r)
  <2>1. row' \in [Requests -> Row]
    BY <1>1, <1>3, RowUpdates DEF Fence
  <2>2. call' \in [Requests -> Calls]
    BY <1>2, <1>3, <1>15 DEF Fence
  <2> QED  BY <1>3, <2>1, <2>2 DEF Fence, journal, PaidTypeOK, Row
<1>4. CASE FenceFails(r)
  BY <1>2, <1>4, <1>15 DEF FenceFails, journal, PaidTypeOK
<1>5. CASE Cancel(r)
  <2>1. row' \in [Requests -> Row]
    <3>1. row' = [row EXCEPT ![r].op = "zero"] \/ row' = row
      BY <1>5 DEF Cancel, Cancelled
    <3>2. [row EXCEPT ![r].op = "zero"] \in [Requests -> Row]
      BY <1>1, <1>14, RowUpdates
    <3> QED  BY <1>1, <3>1, <3>2
  <2>2. inFlight' \in [Journals -> SUBSET Requests] /\ held' \in [Journals -> SUBSET Requests]
    BY <1>5 DEF Cancel, PaidTypeOK
  <2>3. call' \in [Requests -> Calls]
    BY <1>2, <1>5, <1>15 DEF Cancel
  <2> QED  BY <1>5, <2>1, <2>2, <2>3 DEF Cancel, PaidTypeOK, Row
<1>6. CASE Send(r)
  <2>1. call' \in [Requests -> Calls]
    BY <1>2, <1>6 DEF Send, Calls
  <2> QED  BY <1>6, <2>1 DEF Send, journal, PaidTypeOK
<1>7. CASE Withhold(r)
  BY <1>2, <1>7 DEF Withhold, Calls, journal, PaidTypeOK
<1>8. CASE Settle(r)
  <2>1. row' \in [Requests -> Row]
    <3>1. PICK o \in Ops : row' = [row EXCEPT ![r].op = o]
      BY <1>8, <1>14 DEF Settle
    <3> QED  BY <1>1, <3>1, RowUpdates
  <2>2. Cost(r) \in Nat
    BY DEF Cost
  <2>3. spent' \in [Journals -> Nat] /\ unsure' \in [Journals -> BOOLEAN]
    <3>1. \A n \in Nat : n + Cost(r) \in Nat
      BY <2>2
    <3>2. /\ spent' = spent \/ spent' = [spent EXCEPT ![Of(r)] = @ + Cost(r)]
          /\ unsure' = unsure \/ unsure' = [unsure EXCEPT ![Of(r)] = TRUE]
      BY <1>8 DEF Settle
    <3>3. spent' \in [Journals -> Nat]
      BY <3>1, <3>2 DEF PaidTypeOK
    <3>4. unsure' \in [Journals -> BOOLEAN]
      BY <3>2 DEF PaidTypeOK
    <3> QED  BY <3>3, <3>4
  <2>4. held' \in [Journals -> SUBSET Requests]
    BY <1>8 DEF Settle, PaidTypeOK
  <2>5. call' \in [Requests -> Calls]
    BY <1>2, <1>8, <1>15 DEF Settle
  <2> QED  BY <1>8, <2>1, <2>3, <2>4, <2>5 DEF Settle, PaidTypeOK, Row
<1>9. CASE SettleFails(r)
  BY <1>2, <1>9, <1>15 DEF SettleFails, PaidTypeOK
<1>10. CASE Forget(r)
  BY <1>2, <1>10, <1>15 DEF Forget, PaidTypeOK
<1>11. CASE OtherCancels(r)
  <2>1. row' \in [Requests -> Row]
    BY <1>1, <1>11, <1>14, RowUpdates DEF OtherCancels, Cancelled
  <2> QED  BY <1>11, <2>1 DEF OtherCancels, journal, PaidTypeOK, Row
<1>12. CASE LeaseExpires(r)
  <2>1. row' \in [Requests -> Row]
    BY <1>1, <1>12, RowUpdates DEF LeaseExpires
  <2> QED  BY <1>12, <2>1 DEF LeaseExpires, journal, PaidTypeOK, Row
<1>13. CASE Recover(r)
  <2>1. row' \in [Requests -> Row]
    BY <1>1, <1>13, <1>14, RowUpdates DEF Recover
  <2> QED  BY <1>13, <2>1 DEF Recover, journal, PaidTypeOK, Row
<1> QED
  BY <1>3, <1>4, <1>5, <1>6, <1>7, <1>8, <1>9, <1>10, <1>11, <1>12, <1>13 DEF RequestStep

LEMMA PaidTypeStep == PaidTypeOK /\ [Next]_paidVars => PaidTypeOK'
<1> SUFFICES ASSUME PaidTypeOK, [Next]_paidVars  PROVE PaidTypeOK'
  OBVIOUS
<1>1. CASE UNCHANGED paidVars
  BY <1>1 DEF PaidTypeOK, paidVars, journal
<1>2. ASSUME NEW j \in Journals, Crash(j)  PROVE PaidTypeOK'
  BY <1>2 DEF PaidTypeOK, Crash, Calls, journal
<1>3. ASSUME NEW j \in Journals, NEW r \in Requests, Begin(j, r)  PROVE PaidTypeOK'
  <2>1. [op |-> "intended", owner |-> j, live |-> TRUE, fenced |-> FALSE] \in Row
    BY DEF Row, Ops
  <2>2. row' \in [Requests -> Row]
    BY <1>3, <2>1 DEF Begin, PaidTypeOK, Row
  <2>3. call' \in [Requests -> Calls]
    BY <1>3 DEF Begin, Goes, PaidTypeOK, Calls
  <2> QED  BY <1>3, <2>2, <2>3 DEF Begin, PaidTypeOK, Row
<1> QED  BY <1>1, <1>2, <1>3, RequestKeepsTypes DEF Next

\* The row of a request has the types it always had.
THEOREM PaidTypeCorrect == Spec => []PaidTypeOK
BY PaidTypeInit, PaidTypeStep, PTL DEF Spec

-----------------------------------------------------------------------------
(* The fence.                                                               *)

\* What a step may do to the fence and the operation of one request: nothing
\* but a new intent, a fence on a standing intent, a cancellation without a
\* fence, or a measurement of what was fenced.
LEMMA FenceStep ==
  ASSUME PaidTypeOK, FenceComesFirst, [Next]_paidVars
  PROVE  FenceComesFirst'
<1> USE DEF FenceComesFirst
<1>1. CASE UNCHANGED paidVars
  BY <1>1 DEF paidVars
<1>2. ASSUME NEW j \in Journals, Crash(j)  PROVE FenceComesFirst'
  BY <1>2 DEF Crash, PaidTypeOK
<1>3. ASSUME NEW j \in Journals, NEW r \in Requests, Begin(j, r)  PROVE FenceComesFirst'
  <2>1. r \notin sent /\ ~row'[r].fenced /\ call'[r] = "begun"
    BY <1>3 DEF Begin, NoRow, Goes, PaidTypeOK
  <2> QED  BY <1>3, <2>1 DEF Begin, Goes, PaidTypeOK
<1>4. ASSUME NEW r \in Requests, RequestStep(r)  PROVE FenceComesFirst'
  <2> DEFINE good(q) ==
        /\ q \in sent' \/ call'[q] \in {"fenced", "known", "unknown"} => row'[q].fenced
        /\ row'[q].fenced => row'[q].op \notin {"none", "zero"}
  <2>1. \A q \in Requests \ {r} :
          row'[q] = row[q] /\ call'[q] = call[q] /\ (q \in sent' <=> q \in sent)
    BY <1>4 DEF RequestStep, Fence, FenceFails, Cancel, Cancelled, Send, Withhold, Settle,
       SettleFails, Forget, OtherCancels, LeaseExpires, Recover, Goes, PaidTypeOK
  <2>2. row[r] \in [op : Ops, owner : Journals \cup {NoJournal},
                    live : BOOLEAN, fenced : BOOLEAN]
    BY DEF PaidTypeOK
  <2>3. CASE Fence(r)
    <3>1. row'[r].fenced /\ row'[r].op = "intended"
      BY <2>2, <2>3 DEF Fence, Fencable, PaidTypeOK
    <3> QED  BY <2>1, <3>1
  <2>4. CASE Cancel(r)
    <3>1. sent' = sent /\ call'[r] = "over"
      BY <2>4 DEF Cancel, Goes, PaidTypeOK
    <3>2. row'[r] = row[r] \/ (~row[r].fenced /\ row'[r].fenced = row[r].fenced)
      BY <2>2, <2>4 DEF Cancel, Cancelled, Cancellable, PaidTypeOK
    <3> QED  BY <2>1, <3>1, <3>2
  <2>5. CASE OtherCancels(r)
    <3>1. sent' = sent /\ call' = call /\ ~row[r].fenced /\ row'[r].fenced = row[r].fenced
      BY <2>2, <2>5 DEF OtherCancels, Cancelled, Cancellable, PaidTypeOK
    <3> QED  BY <2>1, <3>1
  <2>6. CASE Send(r) \/ Withhold(r)
    BY <2>1, <2>6 DEF Send, Withhold, Goes, PaidTypeOK
  <2>7. CASE Settle(r)
    <3>1. row'[r].fenced = row[r].fenced /\ row[r].fenced /\ row'[r].op \in {"settled", "pending"}
      BY <2>2, <2>7 DEF Settle, PaidTypeOK
    <3>2. sent' = sent
      BY <2>7 DEF Settle
    <3> QED  BY <2>1, <3>1, <3>2
  <2>8. CASE FenceFails(r) \/ SettleFails(r) \/ Forget(r)
    BY <2>1, <2>8 DEF FenceFails, SettleFails, Forget, Goes, PaidTypeOK
  <2>9. CASE LeaseExpires(r)
    <3>1. row'[r].fenced = row[r].fenced /\ row'[r].op = row[r].op /\ call' = call /\ sent' = sent
      BY <2>2, <2>9 DEF LeaseExpires, PaidTypeOK
    <3> QED  BY <2>1, <3>1
  <2>10. CASE Recover(r)
    <3>1. row'[r].fenced = row[r].fenced /\ row'[r].op = "settled" /\ call' = call /\ sent' = sent
      BY <2>2, <2>10 DEF Recover, PaidTypeOK
    <3> QED  BY <2>1, <3>1
  <2> QED
    BY <1>4, <2>3, <2>4, <2>5, <2>6, <2>7, <2>8, <2>9, <2>10 DEF RequestStep
<1> QED  BY <1>1, <1>2, <1>3, <1>4 DEF Next

LEMMA FenceInv == Spec => [](PaidTypeOK /\ FenceComesFirst)
<1>1. Init => FenceComesFirst
  BY DEF Init, FenceComesFirst, NoRow
<1> QED  BY <1>1, PaidTypeInit, PaidTypeStep, FenceStep, PTL DEF Spec

\* A request that any process writes off as never sent was not sent and will
\* not be: the fence of paid-dispatch.ts is passed before the send, and
\* cancel-paid-attempt.ts refuses whatever is fenced.
THEOREM WrittenOffStaysUnsent == Spec => []WrittenOffIsUnsent
<1>1. FenceComesFirst => WrittenOffIsUnsent
  BY DEF FenceComesFirst, WrittenOffIsUnsent
<1> QED  BY <1>1, FenceInv, PTL

-----------------------------------------------------------------------------
(* One journal at a time.                                                   *)

\* Steps other than a new intent leave owners alone, resolve nothing anew and
\* put nothing in flight.
Resolving ==
  \A q \in Requests : /\ row'[q].owner = row[q].owner
                      /\ Unresolved(q)' => Unresolved(q)
                      /\ row'[q].op = "none" => row[q].op = "none"

LEMMA RequestResolves ==
  ASSUME PaidTypeOK, FenceComesFirst, NEW r \in Requests, RequestStep(r)
  PROVE  Resolving /\ \A j \in Journals : inFlight'[j] \subseteq inFlight[j]
<1>1. \A j \in Journals : inFlight'[j] \subseteq inFlight[j]
  BY DEF RequestStep, Fence, FenceFails, Cancel, Cancelled, Send, Withhold, Settle,
     SettleFails, Forget, OtherCancels, LeaseExpires, Recover, journal, PaidTypeOK
<1>2. \A q \in Requests \ {r} : row'[q] = row[q]
  BY DEF RequestStep, Fence, FenceFails, Cancel, Cancelled, Send, Withhold, Settle,
     SettleFails, Forget, OtherCancels, LeaseExpires, Recover, PaidTypeOK
<1>3. row[r] \in Row
  BY DEF PaidTypeOK, Row
<1> DEFINE Resolved == /\ row'[r].owner = row[r].owner
                       /\ Unresolved(r)' => Unresolved(r)
                       /\ row'[r].op = "none" => row[r].op = "none"
<1>4. Resolved
  <2>1. CASE row' = row
    BY <2>1 DEF Unresolved
  <2>2. CASE row' = [row EXCEPT ![r].fenced = TRUE] \/ row' = [row EXCEPT ![r].live = FALSE]
    BY <1>3, <2>2 DEF Unresolved, PaidTypeOK, Row
  <2>3. ASSUME NEW o \in {"zero", "settled"}, row' = [row EXCEPT ![r].op = o]
        PROVE  Resolved
    BY <1>3, <2>3 DEF Unresolved, PaidTypeOK, Row
  <2>4. CASE Settle(r)
    <3>1. PICK o \in {"settled", "pending"} :
            row' = [row EXCEPT ![r].op = o] /\ (row[r].op = "settled" => o = "settled")
      BY <2>4 DEF Settle
    <3>2. row'[r].op = o /\ row'[r].owner = row[r].owner
      BY <1>3, <3>1 DEF PaidTypeOK, Row
    <3>3. row[r].op \in {"intended", "pending", "settled"}
      BY <1>3, <2>4 DEF Settle, FenceComesFirst, Row, Ops
    <3> QED  BY <3>1, <3>2, <3>3 DEF Unresolved
  <2> QED
    BY <2>1, <2>2, <2>3, <2>4 DEF RequestStep, Fence, FenceFails, Cancel, Cancelled, Send,
       Withhold, SettleFails, Forget, OtherCancels, LeaseExpires, Recover
<1> QED  BY <1>1, <1>2, <1>4 DEF Resolving, Unresolved

LEMMA JournalStep ==
  ASSUME SafeInv, [Next]_paidVars
  PROVE  InFlightIsOwn' /\ OneJournalUnresolved'
<1> USE DEF SafeInv
<1>1. ASSUME Resolving, \A j \in Journals : inFlight'[j] \subseteq inFlight[j]
      PROVE  InFlightIsOwn' /\ OneJournalUnresolved'
  BY <1>1 DEF Resolving, InFlightIsOwn, OneJournalUnresolved, Of, PaidTypeOK
<1>2. CASE UNCHANGED paidVars
  BY <1>1, <1>2 DEF paidVars, journal, Resolving, Unresolved
<1>3. ASSUME NEW j \in Journals, Crash(j)  PROVE InFlightIsOwn' /\ OneJournalUnresolved'
  BY <1>1, <1>3 DEF Crash, journal, Resolving, Unresolved
<1>4. ASSUME NEW j \in Journals, NEW r \in Requests, Begin(j, r)
      PROVE  InFlightIsOwn' /\ OneJournalUnresolved'
  <2>1. /\ row'[r].owner = j /\ row'[r].op = "intended"
        /\ \A q \in Requests \ {r} : row'[q] = row[q]
    BY <1>4 DEF Begin, PaidTypeOK
  <2>2. \A k \in Journals : \A q \in inFlight[k] : q # r
    BY <1>4 DEF Begin, NoRow, InFlightIsOwn, Of, PaidTypeOK
  <2>3. /\ inFlight'[j] = inFlight[j] \cup {r}
        /\ \A k \in Journals \ {j} : inFlight'[k] = inFlight[k]
    BY <1>4 DEF Begin, PaidTypeOK
  <2>4. InFlightIsOwn'
    BY <2>1, <2>2, <2>3 DEF InFlightIsOwn, Of, PaidTypeOK
  <2>5. \A q \in Requests : Unresolved(q)' => row'[q].owner = j
    <3>1. \A q \in Requests \ (inFlight[j] \cup {r}) : ~Unresolved(q)
      BY <1>4 DEF Begin, Confirmed
    <3> QED  BY <2>1, <2>2, <3>1 DEF Unresolved, InFlightIsOwn, Of
  <2> QED  BY <2>4, <2>5 DEF OneJournalUnresolved, Of
<1> QED  BY <1>1, <1>2, <1>3, <1>4, RequestResolves DEF Next

LEMMA SafeInvHolds == Spec => []SafeInv
<1>1. Init => InFlightIsOwn /\ OneJournalUnresolved
  BY DEF Init, InFlightIsOwn, OneJournalUnresolved, Unresolved, NoRow
<1>2. Init => FenceComesFirst
  BY DEF Init, FenceComesFirst, NoRow
<1>3. Init => SafeInv
  BY <1>1, <1>2, PaidTypeInit DEF SafeInv
<1>4. SafeInv /\ [Next]_paidVars => SafeInv'
  BY PaidTypeStep, FenceStep, JournalStep DEF SafeInv
<1> QED  BY <1>3, <1>4, PTL DEF Spec

\* Unresolved requests are those of one journal: assertPreviousRequestConfirmed
\* under the connection lock keeps every other process from paying.
THEOREM OneJournalPays == Spec => []OneJournalUnresolved
<1>1. SafeInv => OneJournalUnresolved
  BY DEF SafeInv
<1> QED  BY <1>1, SafeInvHolds, PTL

-----------------------------------------------------------------------------
(* The limit.                                                               *)

\* Charged requests of j that no longer count with their estimate.
Released(j) == {r \in charged : Of(r) = j} \ held[j]

\* Everything j was charged for or may still be.
Counted(j) == {r \in charged : Of(r) = j} \cup held[j]

\* A request whose process is before its settlement counts with its estimate;
\* one that was charged and is settled counts with its cost, or the journal
\* knows that it does not know.
CallsAreHeld ==
  \A r \in Requests : call[r] \in {"begun", "fenced", "known", "unknown", "cancel"} =>
                        Of(r) \in Journals /\ r \in held[Of(r)]

CostsAreKnown ==
  \A j \in Journals : ~unsure[j] => Cardinality(Released(j)) <= spent[j]

NeverMore == \A j \in Journals : Cardinality(Counted(j)) <= Limit

LimitInv == SafeInv /\ CallsAreHeld /\ CostsAreKnown /\ NeverMore

LEMMA SmallerSet ==
  ASSUME NEW S, IsFiniteSet(S), NEW T \in SUBSET S
  PROVE  /\ IsFiniteSet(T)
         /\ Cardinality(T) <= Cardinality(S)
         /\ Cardinality(S) \in Nat /\ Cardinality(T) \in Nat
BY FS_Subset, FS_CardinalityType

LEMMA Finite ==
  ASSUME IsFiniteSet(Requests), PaidTypeOK, NEW j \in Journals
  PROVE  /\ IsFiniteSet(Released(j)) /\ Cardinality(Released(j)) \in Nat
         /\ IsFiniteSet(Counted(j)) /\ Cardinality(Counted(j)) \in Nat
         /\ IsFiniteSet(held[j]) /\ Cardinality(held[j]) \in Nat
<1>1. Released(j) \subseteq Requests /\ Counted(j) \subseteq Requests /\ held[j] \subseteq Requests
  BY DEF Released, Counted, PaidTypeOK
<1>2. \A S \in SUBSET Requests : IsFiniteSet(S) /\ Cardinality(S) \in Nat
  BY FS_Subset, FS_CardinalityType
<1> QED  BY <1>1, <1>2

\* Steps after which j counts no request it did not count before keep the limit.
LEMMA CountsLess ==
  ASSUME IsFiniteSet(Requests), Limit \in Nat, PaidTypeOK, PaidTypeOK', NeverMore,
         \A j \in Journals : Counted(j)' \subseteq Counted(j)
  PROVE  NeverMore'
<1> SUFFICES ASSUME NEW j \in Journals  PROVE Cardinality(Counted(j)') <= Limit
  BY DEF NeverMore
<1>1. /\ Cardinality(Counted(j)') <= Cardinality(Counted(j))
      /\ Cardinality(Counted(j)') \in Nat /\ Cardinality(Counted(j)) \in Nat
  BY Finite, SmallerSet
<1> QED  BY <1>1 DEF NeverMore

\* The same of requests that count with their cost.
LEMMA ReleasesLess ==
  ASSUME IsFiniteSet(Requests), PaidTypeOK, PaidTypeOK', CostsAreKnown,
         \A j \in Journals : /\ ~unsure'[j] => ~unsure[j]
                             /\ spent'[j] = spent[j]
                             /\ ~unsure'[j] => Released(j)' \subseteq Released(j)
  PROVE  CostsAreKnown'
<1> SUFFICES ASSUME NEW j \in Journals, ~unsure'[j]
             PROVE  Cardinality(Released(j)') <= spent'[j]
  BY DEF CostsAreKnown
<1>1. /\ Cardinality(Released(j)') <= Cardinality(Released(j))
      /\ Cardinality(Released(j)') \in Nat /\ Cardinality(Released(j)) \in Nat
  BY Finite, SmallerSet
<1>2. spent[j] \in Nat
  BY DEF PaidTypeOK
<1> QED  BY <1>1, <1>2 DEF CostsAreKnown

\* A new intent: its estimate fits under the limit, beside what is settled and
\* what is held.
LEMMA BeginKeepsLimit ==
  ASSUME IsFiniteSet(Requests), Limit \in Nat, LimitInv, PaidTypeOK',
         NEW j \in Journals, NEW r \in Requests, Begin(j, r)
  PROVE  CallsAreHeld' /\ CostsAreKnown' /\ NeverMore'
<1> USE DEF LimitInv, SafeInv
<1>1. /\ row'[r].owner = j
      /\ \A q \in Requests \ {r} : row'[q] = row[q]
      /\ held'[j] = held[j] \cup {r}
      /\ \A k \in Journals \ {j} : held'[k] = held[k]
      /\ UNCHANGED <<charged, spent, unsure>>
      /\ \A q \in Requests \ {r} : call'[q] = call[q]
  BY DEF Begin, Goes, PaidTypeOK
<1>2. r \notin charged
  <2>1. row[r] = NoRow
    BY DEF Begin
  <2> QED  BY <2>1 DEF NoRow, FenceComesFirst, PaidTypeOK
<1>3. /\ \A k \in Journals : Released(k)' = Released(k)
      /\ Counted(j)' = Counted(j) \cup {r}
      /\ \A k \in Journals \ {j} : Counted(k)' = Counted(k)
  <2>1. ASSUME NEW k \in Journals
        PROVE  {q \in charged' : Of(q)' = k} = {q \in charged : Of(q) = k}
    BY <1>1, <1>2 DEF Of, PaidTypeOK
  <2>2. ASSUME NEW k \in Journals  PROVE Released(k)' = Released(k)
    BY <1>1, <1>2, <2>1 DEF Released
  <2> QED  BY <1>1, <2>1, <2>2 DEF Counted
<1>4. CallsAreHeld'
  <2>1. \A k \in Journals : held[k] \subseteq held'[k]
    BY <1>1
  <2>2. \A q \in Requests \ {r} : Of(q)' = Of(q)
    BY <1>1 DEF Of
  <2>3. Of(r)' = j /\ r \in held'[j]
    BY <1>1 DEF Of
  <2> QED  BY <1>1, <2>1, <2>2, <2>3 DEF CallsAreHeld
<1>5. CostsAreKnown'
  BY <1>1, <1>3 DEF CostsAreKnown
<1>6. Cardinality(Counted(j)') <= Limit
  <2>1. ~unsure[j] /\ Limit - (spent[j] + Cardinality(held[j])) >= 1
    BY DEF Begin, Remaining
  <2>2. Cardinality(Counted(j)) <= Cardinality(Released(j)) + Cardinality(held[j])
    <3>1. Counted(j) = Released(j) \cup held[j] /\ Released(j) \cap held[j] = {}
      BY DEF Counted, Released
    <3>2. Cardinality({}) = 0
      BY FS_EmptySet
    <3>3. Cardinality(Counted(j)) =
            Cardinality(Released(j)) + Cardinality(held[j]) - Cardinality({})
      BY <3>1, Finite, FS_Union
    <3> QED  BY <3>2, <3>3, Finite
  <2>3. Cardinality(Released(j)) <= spent[j]
    BY <2>1 DEF CostsAreKnown
  <2>4. Cardinality(Counted(j)') \in {Cardinality(Counted(j)), Cardinality(Counted(j)) + 1}
    BY <1>3, Finite, FS_AddElement
  <2>5. /\ spent[j] \in Nat
        /\ Cardinality(Counted(j)) \in Nat
        /\ Cardinality(Released(j)) \in Nat
        /\ Cardinality(held[j]) \in Nat
    BY Finite DEF PaidTypeOK
  <2> QED  BY <2>1, <2>2, <2>3, <2>4, <2>5
<1>7. NeverMore'
  BY <1>3, <1>6 DEF NeverMore
<1> QED  BY <1>4, <1>5, <1>7

\* A process keeps the estimate of its request until it settles or cancels.
Holding == {"begun", "fenced", "known", "unknown", "cancel"}

LEMMA CallsKept ==
  ASSUME PaidTypeOK, CallsAreHeld, NEW r \in Requests,
         \A q \in Requests : row'[q].owner = row[q].owner,
         \A q \in Requests \ {r} : call'[q] = call[q],
         \A j \in Journals : held[j] \ {r} \subseteq held'[j],
         call'[r] \in Holding => call[r] \in Holding /\ held' = held
  PROVE  CallsAreHeld'
BY DEF CallsAreHeld, Holding, Of

\* Steps that change neither estimates nor costs.
LEMMA LimitKept ==
  ASSUME IsFiniteSet(Requests), Limit \in Nat, LimitInv, PaidTypeOK',
         \A q \in Requests : row'[q].owner = row[q].owner,
         UNCHANGED <<held, spent, unsure, charged>>
  PROVE  CostsAreKnown' /\ NeverMore'
<1>1. \A j \in Journals : {q \in charged' : Of(q)' = j} = {q \in charged : Of(q) = j}
  BY DEF Of, LimitInv, SafeInv, PaidTypeOK
<1>2. \A j \in Journals : Released(j)' = Released(j) /\ Counted(j)' = Counted(j)
  BY <1>1 DEF Released, Counted
<1> QED  BY <1>2 DEF LimitInv, CostsAreKnown, NeverMore

\* What was charged stays charged to the same journal.
LEMMA OwnersKept ==
  ASSUME PaidTypeOK, FenceComesFirst, NEW r \in Requests, RequestStep(r)
  PROVE  /\ \A q \in Requests : row'[q].owner = row[q].owner
         /\ \A q \in Requests \ {r} : call'[q] = call[q]
<1>1. \A q \in Requests : row'[q].owner = row[q].owner
  BY RequestResolves DEF Resolving
<1>2. \A q \in Requests \ {r} : call'[q] = call[q]
  BY DEF RequestStep, Fence, FenceFails, Cancel, Send, Withhold, Settle, SettleFails, Forget,
     OtherCancels, LeaseExpires, Recover, Goes, PaidTypeOK
<1> QED  BY <1>1, <1>2

LEMMA RequestKeepsLimit ==
  ASSUME IsFiniteSet(Requests), Limit \in Nat, LimitInv, PaidTypeOK',
         NEW r \in Requests, RequestStep(r)
  PROVE  CallsAreHeld' /\ CostsAreKnown' /\ NeverMore'
<1> USE DEF LimitInv, SafeInv
<1>1. /\ \A q \in Requests : row'[q].owner = row[q].owner
      /\ \A q \in Requests \ {r} : call'[q] = call[q]
  BY OwnersKept
<1>2. CASE \/ Fence(r) \/ FenceFails(r) \/ Withhold(r) \/ Forget(r)
           \/ OtherCancels(r) \/ LeaseExpires(r) \/ Recover(r)
  <2>1. UNCHANGED <<held, spent, unsure, charged>>
    BY <1>2 DEF Fence, FenceFails, Withhold, Forget, OtherCancels, LeaseExpires, Recover, journal
  <2>2. call'[r] \in Holding => call[r] \in Holding
    BY <1>2 DEF Fence, FenceFails, Withhold, Forget, OtherCancels, LeaseExpires, Recover, Goes,
       Holding, PaidTypeOK
  <2>3. CallsAreHeld'
    BY <1>1, <2>1, <2>2, CallsKept
  <2> QED  BY <1>1, <2>1, <2>3, LimitKept
<1>3. ASSUME NEW j \in Journals, r \notin charged, charged' = charged,
             held'[j] \subseteq held[j], held[j] \ {r} \subseteq held'[j]
      PROVE  Counted(j)' \subseteq Counted(j) /\ Released(j)' = Released(j)
  <2>1. {q \in charged' : Of(q)' = j} = {q \in charged : Of(q) = j}
    BY <1>1, <1>3 DEF Of, PaidTypeOK
  <2> QED  BY <1>3, <2>1 DEF Counted, Released
<1>4. CASE Cancel(r)
  <2>1. call'[r] = "over" /\ UNCHANGED <<spent, unsure, charged>>
    BY <1>4 DEF Cancel, Goes, PaidTypeOK
  <2>2. \A j \in Journals : held'[j] \subseteq held[j] /\ held[j] \ {r} \subseteq held'[j]
    BY <1>4 DEF Cancel, PaidTypeOK
  <2>3. CallsAreHeld'
    BY <1>1, <2>1, <2>2, CallsKept DEF Holding
  <2>4. CASE Cancellable(r)
    <3>1. r \notin charged
      BY <2>4 DEF Cancellable, FenceComesFirst, PaidTypeOK
    <3>2. \A j \in Journals : Counted(j)' \subseteq Counted(j) /\ Released(j)' = Released(j)
      BY <1>3, <2>1, <2>2, <3>1
    <3> QED  BY <2>1, <2>3, <3>2, CountsLess, ReleasesLess
  <2>5. CASE ~Cancellable(r)
    <3>1. held' = held
      BY <1>4, <2>5 DEF Cancel
    <3> QED  BY <1>1, <2>1, <2>3, <3>1, LimitKept
  <2> QED  BY <2>4, <2>5
<1>5. CASE Send(r)
  <2>1. Of(r) \in Journals /\ r \in held[Of(r)]
    BY <1>5 DEF Send, CallsAreHeld
  <2>2. UNCHANGED <<row, held, spent, unsure>> /\ charged' \in {charged, charged \cup {r}}
    BY <1>5 DEF Send, journal
  <2>3. \A j \in Journals : Counted(j)' = Counted(j) /\ Released(j)' = Released(j)
    BY <2>1, <2>2 DEF Counted, Released, Of
  <2>4. CallsAreHeld'
    BY <1>1, <1>5, <2>2, CallsKept DEF Send, Holding
  <2> QED  BY <2>2, <2>3, <2>4 DEF CostsAreKnown, NeverMore
<1>6. CASE Settle(r) \/ SettleFails(r)
  <2>1. call'[r] = "settled" /\ charged' = charged
    BY <1>6 DEF Settle, SettleFails, Goes, PaidTypeOK
  <2>2. /\ \A j \in Journals \ {Of(r)} : held'[j] = held[j]
        /\ Of(r) \in Journals => held'[Of(r)] = held[Of(r)] \ {r}
    BY <1>6 DEF Settle, SettleFails, PaidTypeOK
  <2>3. CallsAreHeld'
    BY <1>1, <2>1, <2>2, CallsKept DEF Holding
  <2>4. \A j \in Journals : {q \in charged' : Of(q)' = j} = {q \in charged : Of(q) = j}
    BY <1>1, <2>1 DEF Of, PaidTypeOK
  <2>5. NeverMore'
    <3>1. \A j \in Journals : Counted(j)' \subseteq Counted(j)
      BY <2>2, <2>4 DEF Counted
    <3> QED  BY <3>1, CountsLess
  <2>6. \A j \in Journals \ {Of(r)} : Released(j)' = Released(j)
    BY <2>2, <2>4 DEF Released
  <2>7. ASSUME NEW j \in Journals, ~unsure'[j], j # Of(r)
        PROVE  Cardinality(Released(j)') <= spent'[j]
    <3>1. spent'[j] = spent[j] /\ unsure'[j] = unsure[j]
      BY <1>6, <2>7 DEF Settle, SettleFails, PaidTypeOK
    <3> QED  BY <2>6, <2>7, <3>1 DEF CostsAreKnown
  <2>8. ASSUME NEW j \in Journals, ~unsure'[j], j = Of(r)
        PROVE  Cardinality(Released(j)') <= spent'[j]
    <3>1. Settle(r) /\ call[r] = "known"
      BY <1>6, <2>8 DEF Settle, SettleFails, PaidTypeOK
    <3>2. spent'[j] = spent[j] + Cost(r) /\ ~unsure[j]
      BY <2>8, <3>1 DEF Settle, PaidTypeOK
    <3>3. Cardinality(Released(j)) <= spent[j]
      BY <2>8, <3>2 DEF CostsAreKnown
    <3>4. spent[j] \in Nat /\ Cardinality(Released(j)) \in Nat
      BY <2>8, Finite DEF PaidTypeOK
    <3>5. \A S : IsFiniteSet(S) => Cardinality(S \cup {r}) \in {Cardinality(S), Cardinality(S) + 1}
      BY FS_AddElement
    <3>6. CASE r \in charged
      <4>1. r \in {q \in charged : Of(q) = j}
        BY <2>8, <3>6
      <4>2. Released(j)' = Released(j) \cup {r}
        BY <2>2, <2>4, <2>8, <4>1 DEF Released
      <4>3. Cost(r) = 1
        BY <3>6 DEF Cost
      <4> QED  BY <2>8, <3>2, <3>3, <3>4, <3>5, <4>2, <4>3, Finite
    <3>7. CASE r \notin charged
      <4>1. Released(j)' = Released(j)
        BY <2>2, <2>4, <2>8, <3>7 DEF Released
      <4>2. Cost(r) = 0
        BY <3>7 DEF Cost
      <4> QED  BY <3>2, <3>3, <3>4, <4>1, <4>2
    <3> QED  BY <3>6, <3>7
  <2>9. CostsAreKnown'
    BY <2>7, <2>8 DEF CostsAreKnown
  <2> QED  BY <2>3, <2>5, <2>9
<1> QED  BY <1>2, <1>4, <1>5, <1>6 DEF RequestStep

LEMMA LimitStep ==
  ASSUME IsFiniteSet(Requests), Limit \in Nat, LimitInv, [Next]_paidVars
  PROVE  LimitInv'
<1>1. SafeInv'
  BY PaidTypeStep, FenceStep, JournalStep DEF LimitInv, SafeInv
<1>2. PaidTypeOK'
  BY <1>1 DEF SafeInv
<1>3. CASE UNCHANGED paidVars
  <2>1. CallsAreHeld'
    BY <1>3 DEF paidVars, journal, CallsAreHeld, Of, LimitInv
  <2> QED  BY <1>1, <1>2, <1>3, <2>1, LimitKept DEF paidVars, journal, LimitInv
<1>4. ASSUME NEW j \in Journals, Crash(j)  PROVE LimitInv'
  <2>1. \A r \in Requests : call'[r] \in {call[r], "over"}
    BY <1>4 DEF Crash
  <2>2. UNCHANGED <<row, held, spent, unsure, charged>>
    BY <1>4 DEF Crash, journal
  <2>3. CallsAreHeld'
    BY <2>1, <2>2 DEF CallsAreHeld, Of, LimitInv
  <2> QED  BY <1>1, <1>2, <2>2, <2>3, LimitKept DEF LimitInv
<1>5. ASSUME NEW j \in Journals, NEW r \in Requests, Begin(j, r)  PROVE LimitInv'
  BY <1>1, <1>2, <1>5, BeginKeepsLimit DEF LimitInv
<1>6. ASSUME NEW r \in Requests, RequestStep(r)  PROVE LimitInv'
  BY <1>1, <1>2, <1>6, RequestKeepsLimit DEF LimitInv
<1> QED  BY <1>3, <1>4, <1>5, <1>6 DEF Next

LEMMA LimitInit ==
  ASSUME Limit \in Nat, Init
  PROVE  LimitInv
<1>1. SafeInv
  BY PaidTypeInit DEF Init, SafeInv, FenceComesFirst, InFlightIsOwn, OneJournalUnresolved,
     Unresolved, NoRow
<1>2. CallsAreHeld
  BY DEF Init, CallsAreHeld
<1>3. \A j \in Journals : Released(j) = {} /\ Counted(j) = {} /\ spent[j] = 0
  BY DEF Init, Released, Counted
<1>4. CostsAreKnown /\ NeverMore
  BY <1>3, FS_EmptySet DEF CostsAreKnown, NeverMore
<1> QED  BY <1>1, <1>2, <1>4 DEF LimitInv

\* A journal's charges keep its limit, for any limit and any number of
\* requests: requestCostLimit counts every estimate until its cost is known, and
\* admits nothing more once a cost stays unconfirmed.
THEOREM ChargesKeepLimit ==
  ASSUME IsFiniteSet(Requests), Limit \in Nat
  PROVE  Spec => []WithinLimit
<1>1. Init => LimitInv
  BY LimitInit
<1>2. LimitInv /\ [Next]_paidVars => LimitInv'
  BY LimitStep
<1>3. LimitInv => WithinLimit
  <2> SUFFICES ASSUME LimitInv, NEW j \in Journals
               PROVE  Cardinality({r \in charged : Of(r) = j}) <= Limit
    BY DEF WithinLimit
  <2>1. {r \in charged : Of(r) = j} \in SUBSET Counted(j)
    BY DEF Counted
  <2>2. IsFiniteSet(Counted(j)) /\ Cardinality(Counted(j)) <= Limit
    BY Finite DEF LimitInv, SafeInv, NeverMore
  <2> QED  BY <2>1, <2>2, SmallerSet
<1> QED  BY <1>1, <1>2, <1>3, PTL DEF Spec

-----------------------------------------------------------------------------
(***************************************************************************)
(* The composition. The proofs of each module, for the constants and       *)
(* variables that its instance in MCServices has.                          *)
(***************************************************************************)

RetriedP == INSTANCE DigestDeliveryProofs WITH
  Alerts <- {a0}, Destinations <- {a0}, Passes <- {p1, p2}, NoPass <- none,
  MaxAttempts <- 2, job <- workflow

DestinationsP == INSTANCE DigestDeliveryProofs WITH
  Alerts <- {a0}, Destinations <- {a1, a2}, Passes <- {p1, p2}, NoPass <- none,
  MaxAttempts <- 1, job <- workflow

AlertsP == INSTANCE DigestDeliveryProofs WITH
  Alerts <- {a1, a2}, Destinations <- {a0}, Passes <- {p1, p2}, NoPass <- none,
  MaxAttempts <- 1, job <- workflow

MonitorP == INSTANCE MonitorLeaseProofs WITH
  Targets <- {a0}, Workers <- {p1, p2}, Nobody <- none, sent <- posted

KeywordsP == INSTANCE OccurrencesProofs WITH
  Keywords <- {a1, a2}, Launchers <- {a0}, Ids <- 1..2, Last <- 1, Times <- {0},
  Interval <- 1, MaxEdits <- 2, row <- run

LaunchesP == INSTANCE OccurrencesProofs WITH
  Keywords <- {a0}, Launchers <- {p1, p2}, Ids <- 1..2, Last <- 1, Times <- {0, 1},
  Interval <- 1, MaxEdits <- 1, row <- run

TrackerP == INSTANCE AiTrackingProofs WITH
  Samples <- {r1, r2}, Queued <- {r1}, Workers <- {p1, p2},
  Answers <- {"answer_present", "failed"}, MaxFaults <- TrackerFaults,
  run <- tracked, posted <- bought

\* The focus is chosen once.
LEMMA FocusStays == [ServicesNext]_servicesVars => focus' = focus
PROOF
  BY DEF ServicesNext, DigestNext, PaidNext, MonitorNext, OccurrenceNext,
         TrackerNext, servicesVars

\* Every behaviour of the composition is one of each service, which moves or not.
LEMMA RetriedIsOne == ServicesSpec /\ focus = "retried" => RetriedP!Spec
PROOF
  <1>1. focus = "retried" /\ ServicesInit => RetriedP!Init
    <2>1. focus = "retried" /\ ServicesInit => Retried!Init
      BY DEF ServicesInit
    <2>2. Retried!Init => RetriedP!Init
      BY DEF Retried!Init, RetriedP!Init, Retried!NoRow, RetriedP!NoRow,
             Retried!Idle, RetriedP!Idle, Retried!NoJob, RetriedP!NoJob,
             Retried!Tries, RetriedP!Tries
    <2> QED
      BY <2>1, <2>2
  <1>2. focus = "retried" /\ [ServicesNext]_servicesVars
        => (focus = "retried")' /\ [RetriedP!Next]_RetriedP!digestVars
    <2>1. focus = "retried" /\ [ServicesNext]_servicesVars
          => (focus = "retried")' /\ [Retried!Next]_Retried!digestVars
      BY DEF ServicesNext, DigestNext, PaidNext, MonitorNext, OccurrenceNext,
             TrackerNext, servicesVars, digestVars, Retried!digestVars
    <2>2. [Retried!Next]_Retried!digestVars => [RetriedP!Next]_RetriedP!digestVars
      BY DEF Retried!Next, RetriedP!Next, Retried!digestVars,
             RetriedP!digestVars, Retried!PassStep, RetriedP!PassStep,
             Retried!WorkflowStep, RetriedP!WorkflowStep, Retried!SendStep,
             RetriedP!SendStep, Retried!ClaimGrowsOld,
             RetriedP!ClaimGrowsOld, Retried!Snooze, RetriedP!Snooze,
             Retried!PassRecovers, RetriedP!PassRecovers, Retried!PassReads,
             RetriedP!PassReads, Retried!PassClaims, RetriedP!PassClaims,
             Retried!PassSuppresses, RetriedP!PassSuppresses,
             Retried!PassEnqueues, RetriedP!PassEnqueues, Retried!PassFails,
             RetriedP!PassFails, Retried!PassReleases, RetriedP!PassReleases,
             Retried!Prepare, RetriedP!Prepare, Retried!PrepareFails,
             RetriedP!PrepareFails, Retried!AttemptTimesOut,
             RetriedP!AttemptTimesOut, Retried!Finalize, RetriedP!Finalize,
             Retried!Tries, RetriedP!Tries, Retried!AttemptBegins,
             RetriedP!AttemptBegins, Retried!AttemptSends,
             RetriedP!AttemptSends, Retried!AttemptFinishes,
             RetriedP!AttemptFinishes, Retried!Leaves, RetriedP!Leaves,
             Retried!Unskipped, RetriedP!Unskipped, Retried!Pass,
             RetriedP!Pass, Retried!Terminalize, RetriedP!Terminalize,
             Retried!ReleaseUnsubmitted, RetriedP!ReleaseUnsubmitted,
             Retried!Owned, RetriedP!Owned, Retried!NoJob, RetriedP!NoJob,
             Retried!GoOn, RetriedP!GoOn, Retried!DeliveryStateForOutcomes,
             RetriedP!DeliveryStateForOutcomes, Retried!Return,
             RetriedP!Return, Retried!MayReturn, RetriedP!MayReturn,
             Retried!Refusal, RetriedP!Refusal, Retried!Report,
             RetriedP!Report, Retried!Results, RetriedP!Results,
             Retried!RowState, RetriedP!RowState, Retried!Exposed,
             RetriedP!Exposed, Retried!NoRow, RetriedP!NoRow
    <2> QED
      BY <2>1, <2>2
  <1> QED
    BY <1>1, <1>2, PTL DEF ServicesSpec, RetriedP!Spec

LEMMA TwoDestinationsIsOne == ServicesSpec /\ focus = "destinations" => DestinationsP!Spec
PROOF
  <1>1. focus = "destinations" /\ ServicesInit => DestinationsP!Init
    <2>1. focus = "destinations" /\ ServicesInit => TwoDestinations!Init
      BY DEF ServicesInit
    <2>2. TwoDestinations!Init => DestinationsP!Init
      BY DEF TwoDestinations!Init, DestinationsP!Init, TwoDestinations!NoRow,
             DestinationsP!NoRow, TwoDestinations!Idle, DestinationsP!Idle,
             TwoDestinations!NoJob, DestinationsP!NoJob,
             TwoDestinations!Tries, DestinationsP!Tries
    <2> QED
      BY <2>1, <2>2
  <1>2. focus = "destinations" /\ [ServicesNext]_servicesVars
        => (focus = "destinations")' /\ [DestinationsP!Next]_DestinationsP!digestVars
    <2>1. focus = "destinations" /\ [ServicesNext]_servicesVars
          => (focus = "destinations")' /\ [TwoDestinations!Next]_TwoDestinations!digestVars
      BY DEF ServicesNext, DigestNext, PaidNext, MonitorNext, OccurrenceNext,
             TrackerNext, servicesVars, digestVars,
             TwoDestinations!digestVars
    <2>2. [TwoDestinations!Next]_TwoDestinations!digestVars => [DestinationsP!Next]_DestinationsP!digestVars
      BY DEF TwoDestinations!Next, DestinationsP!Next,
             TwoDestinations!digestVars, DestinationsP!digestVars,
             TwoDestinations!PassStep, DestinationsP!PassStep,
             TwoDestinations!WorkflowStep, DestinationsP!WorkflowStep,
             TwoDestinations!SendStep, DestinationsP!SendStep,
             TwoDestinations!ClaimGrowsOld, DestinationsP!ClaimGrowsOld,
             TwoDestinations!Snooze, DestinationsP!Snooze,
             TwoDestinations!PassRecovers, DestinationsP!PassRecovers,
             TwoDestinations!PassReads, DestinationsP!PassReads,
             TwoDestinations!PassClaims, DestinationsP!PassClaims,
             TwoDestinations!PassSuppresses, DestinationsP!PassSuppresses,
             TwoDestinations!PassEnqueues, DestinationsP!PassEnqueues,
             TwoDestinations!PassFails, DestinationsP!PassFails,
             TwoDestinations!PassReleases, DestinationsP!PassReleases,
             TwoDestinations!Prepare, DestinationsP!Prepare,
             TwoDestinations!PrepareFails, DestinationsP!PrepareFails,
             TwoDestinations!AttemptTimesOut, DestinationsP!AttemptTimesOut,
             TwoDestinations!Finalize, DestinationsP!Finalize,
             TwoDestinations!Tries, DestinationsP!Tries,
             TwoDestinations!AttemptBegins, DestinationsP!AttemptBegins,
             TwoDestinations!AttemptSends, DestinationsP!AttemptSends,
             TwoDestinations!AttemptFinishes, DestinationsP!AttemptFinishes,
             TwoDestinations!Leaves, DestinationsP!Leaves,
             TwoDestinations!Unskipped, DestinationsP!Unskipped,
             TwoDestinations!Pass, DestinationsP!Pass,
             TwoDestinations!Terminalize, DestinationsP!Terminalize,
             TwoDestinations!ReleaseUnsubmitted,
             DestinationsP!ReleaseUnsubmitted, TwoDestinations!Owned,
             DestinationsP!Owned, TwoDestinations!NoJob, DestinationsP!NoJob,
             TwoDestinations!GoOn, DestinationsP!GoOn,
             TwoDestinations!DeliveryStateForOutcomes,
             DestinationsP!DeliveryStateForOutcomes, TwoDestinations!Return,
             DestinationsP!Return, TwoDestinations!MayReturn,
             DestinationsP!MayReturn, TwoDestinations!Refusal,
             DestinationsP!Refusal, TwoDestinations!Report,
             DestinationsP!Report, TwoDestinations!Results,
             DestinationsP!Results, TwoDestinations!RowState,
             DestinationsP!RowState, TwoDestinations!Exposed,
             DestinationsP!Exposed, TwoDestinations!NoRow,
             DestinationsP!NoRow
    <2> QED
      BY <2>1, <2>2
  <1> QED
    BY <1>1, <1>2, PTL DEF ServicesSpec, DestinationsP!Spec

LEMMA TwoAlertsIsOne == ServicesSpec /\ focus = "alerts" => AlertsP!Spec
PROOF
  <1>1. focus = "alerts" /\ ServicesInit => AlertsP!Init
    <2>1. focus = "alerts" /\ ServicesInit => TwoAlerts!Init
      BY DEF ServicesInit
    <2>2. TwoAlerts!Init => AlertsP!Init
      BY DEF TwoAlerts!Init, AlertsP!Init, TwoAlerts!NoRow, AlertsP!NoRow,
             TwoAlerts!Idle, AlertsP!Idle, TwoAlerts!NoJob, AlertsP!NoJob,
             TwoAlerts!Tries, AlertsP!Tries
    <2> QED
      BY <2>1, <2>2
  <1>2. focus = "alerts" /\ [ServicesNext]_servicesVars
        => (focus = "alerts")' /\ [AlertsP!Next]_AlertsP!digestVars
    <2>1. focus = "alerts" /\ [ServicesNext]_servicesVars
          => (focus = "alerts")' /\ [TwoAlerts!Next]_TwoAlerts!digestVars
      BY DEF ServicesNext, DigestNext, PaidNext, MonitorNext, OccurrenceNext,
             TrackerNext, servicesVars, digestVars, TwoAlerts!digestVars
    <2>2. [TwoAlerts!Next]_TwoAlerts!digestVars => [AlertsP!Next]_AlertsP!digestVars
      BY DEF TwoAlerts!Next, AlertsP!Next, TwoAlerts!digestVars,
             AlertsP!digestVars, TwoAlerts!PassStep, AlertsP!PassStep,
             TwoAlerts!WorkflowStep, AlertsP!WorkflowStep,
             TwoAlerts!SendStep, AlertsP!SendStep, TwoAlerts!ClaimGrowsOld,
             AlertsP!ClaimGrowsOld, TwoAlerts!Snooze, AlertsP!Snooze,
             TwoAlerts!PassRecovers, AlertsP!PassRecovers,
             TwoAlerts!PassReads, AlertsP!PassReads, TwoAlerts!PassClaims,
             AlertsP!PassClaims, TwoAlerts!PassSuppresses,
             AlertsP!PassSuppresses, TwoAlerts!PassEnqueues,
             AlertsP!PassEnqueues, TwoAlerts!PassFails, AlertsP!PassFails,
             TwoAlerts!PassReleases, AlertsP!PassReleases, TwoAlerts!Prepare,
             AlertsP!Prepare, TwoAlerts!PrepareFails, AlertsP!PrepareFails,
             TwoAlerts!AttemptTimesOut, AlertsP!AttemptTimesOut,
             TwoAlerts!Finalize, AlertsP!Finalize, TwoAlerts!Tries,
             AlertsP!Tries, TwoAlerts!AttemptBegins, AlertsP!AttemptBegins,
             TwoAlerts!AttemptSends, AlertsP!AttemptSends,
             TwoAlerts!AttemptFinishes, AlertsP!AttemptFinishes,
             TwoAlerts!Leaves, AlertsP!Leaves, TwoAlerts!Unskipped,
             AlertsP!Unskipped, TwoAlerts!Pass, AlertsP!Pass,
             TwoAlerts!Terminalize, AlertsP!Terminalize,
             TwoAlerts!ReleaseUnsubmitted, AlertsP!ReleaseUnsubmitted,
             TwoAlerts!Owned, AlertsP!Owned, TwoAlerts!NoJob, AlertsP!NoJob,
             TwoAlerts!GoOn, AlertsP!GoOn,
             TwoAlerts!DeliveryStateForOutcomes,
             AlertsP!DeliveryStateForOutcomes, TwoAlerts!Return,
             AlertsP!Return, TwoAlerts!MayReturn, AlertsP!MayReturn,
             TwoAlerts!Refusal, AlertsP!Refusal, TwoAlerts!Report,
             AlertsP!Report, TwoAlerts!Results, AlertsP!Results,
             TwoAlerts!RowState, AlertsP!RowState, TwoAlerts!Exposed,
             AlertsP!Exposed, TwoAlerts!NoRow, AlertsP!NoRow
    <2> QED
      BY <2>1, <2>2
  <1> QED
    BY <1>1, <1>2, PTL DEF ServicesSpec, AlertsP!Spec

LEMMA MonitorIsOne == ServicesSpec => MonitorP!Spec
PROOF
  <1>1. ServicesInit => MonitorP!Init
    <2>1. ServicesInit => Monitor!Init
      BY DEF ServicesInit
    <2>2. Monitor!Init => MonitorP!Init
      BY DEF Monitor!Init, MonitorP!Init, Monitor!NoItem, MonitorP!NoItem,
             Monitor!NoOp, MonitorP!NoOp, Monitor!Free, MonitorP!Free,
             Monitor!NoWork, MonitorP!NoWork
    <2> QED
      BY <2>1, <2>2
  <1>2. [ServicesNext]_servicesVars
        => [MonitorP!Next]_MonitorP!monitorVars
    <2>1. [ServicesNext]_servicesVars
          => [Monitor!Next]_Monitor!monitorVars
      BY DEF ServicesNext, DigestNext, PaidNext, MonitorNext, OccurrenceNext,
             TrackerNext, servicesVars, monitorVars, Monitor!monitorVars
    <2>2. [Monitor!Next]_Monitor!monitorVars => [MonitorP!Next]_MonitorP!monitorVars
      BY DEF Monitor!Next, MonitorP!Next, Monitor!monitorVars,
             MonitorP!monitorVars, Monitor!WorkerStep, MonitorP!WorkerStep,
             Monitor!TargetStep, MonitorP!TargetStep,
             Monitor!DispatchLeaseExpires, MonitorP!DispatchLeaseExpires,
             Monitor!RowLeaseExpires, MonitorP!RowLeaseExpires,
             Monitor!JobLeaseExpires, MonitorP!JobLeaseExpires,
             Monitor!CollectionEnds, MonitorP!CollectionEnds,
             Monitor!CancelRun, MonitorP!CancelRun, Monitor!Claim,
             MonitorP!Claim, Monitor!Prepare, MonitorP!Prepare, Monitor!Fail,
             MonitorP!Fail, Monitor!Admit, MonitorP!Admit,
             Monitor!AdmitFails, MonitorP!AdmitFails, Monitor!SubmitEnds,
             MonitorP!SubmitEnds, Monitor!Continue, MonitorP!Continue,
             Monitor!ContinueRevoked, MonitorP!ContinueRevoked,
             Monitor!ReadRun, MonitorP!ReadRun, Monitor!Conclude,
             MonitorP!Conclude, Monitor!SubmitFails, MonitorP!SubmitFails,
             Monitor!Fence, MonitorP!Fence, Monitor!Post, MonitorP!Post,
             Monitor!Record, MonitorP!Record, Monitor!Settle,
             MonitorP!Settle, Monitor!ItemFails, MonitorP!ItemFails,
             Monitor!ReadItem, MonitorP!ReadItem, Monitor!ReleaseUnsent,
             MonitorP!ReleaseUnsent, Monitor!Lease, MonitorP!Lease,
             Monitor!Reconcile, MonitorP!Reconcile, Monitor!Account,
             MonitorP!Account, Monitor!Collect, MonitorP!Collect,
             Monitor!Persist, MonitorP!Persist, Monitor!LeasedItemFails,
             MonitorP!LeasedItemFails, Monitor!Unlease, MonitorP!Unlease,
             Monitor!items, MonitorP!items, Monitor!At, MonitorP!At,
             Monitor!Terminal, MonitorP!Terminal, Monitor!Goes,
             MonitorP!Goes, Monitor!Holds, MonitorP!Holds, Monitor!Becomes,
             MonitorP!Becomes, Monitor!Ends, MonitorP!Ends, Monitor!NoItem,
             MonitorP!NoItem, Monitor!Progress, MonitorP!Progress,
             Monitor!Leaves, MonitorP!Leaves, Monitor!TurnsTo,
             MonitorP!TurnsTo, Monitor!SettleItem, MonitorP!SettleItem,
             Monitor!Collectable, MonitorP!Collectable, Monitor!LooksUnsent,
             MonitorP!LooksUnsent, Monitor!MayBeSent, MonitorP!MayBeSent,
             Monitor!HasAttempt, MonitorP!HasAttempt, Monitor!Cancellable,
             MonitorP!Cancellable, Monitor!Free, MonitorP!Free,
             Monitor!HoldsRow, MonitorP!HoldsRow, Monitor!Proven,
             MonitorP!Proven, Monitor!OwnsRow, MonitorP!OwnsRow,
             Monitor!Unleased, MonitorP!Unleased, Monitor!NoWork,
             MonitorP!NoWork, Monitor!Done, MonitorP!Done
    <2> QED
      BY <2>1, <2>2
  <1> QED
    BY <1>1, <1>2, PTL DEF ServicesSpec, MonitorP!Spec

LEMMA TwoKeywordsIsOne == ServicesSpec /\ focus = "keywords" => KeywordsP!Spec
PROOF
  <1>1. focus = "keywords" /\ ServicesInit => KeywordsP!Init
    <2>1. focus = "keywords" /\ ServicesInit => TwoKeywords!Init
      BY DEF ServicesInit
    <2>2. TwoKeywords!Init => KeywordsP!Init
      BY DEF TwoKeywords!Init, KeywordsP!Init, TwoKeywords!NoRow,
             KeywordsP!NoRow, TwoKeywords!NoPlan, KeywordsP!NoPlan,
             TwoKeywords!NoLaunch, KeywordsP!NoLaunch, TwoKeywords!NoSweep,
             KeywordsP!NoSweep, TwoKeywords!NoItems, KeywordsP!NoItems,
             TwoKeywords!NotAsked, KeywordsP!NotAsked
    <2> QED
      BY <2>1, <2>2
  <1>2. focus = "keywords" /\ [ServicesNext]_servicesVars
        => (focus = "keywords")' /\ [KeywordsP!Next]_KeywordsP!occurrenceVars
    <2>1. focus = "keywords" /\ [ServicesNext]_servicesVars
          => (focus = "keywords")' /\ [TwoKeywords!Next]_TwoKeywords!occurrenceVars
      BY DEF ServicesNext, DigestNext, PaidNext, MonitorNext, OccurrenceNext,
             TrackerNext, servicesVars, occurrenceVars,
             TwoKeywords!occurrenceVars, TwoKeywords!world
    <2>2. [TwoKeywords!Next]_TwoKeywords!occurrenceVars => [KeywordsP!Next]_KeywordsP!occurrenceVars
      BY DEF TwoKeywords!Next, KeywordsP!Next, TwoKeywords!occurrenceVars,
             KeywordsP!occurrenceVars, TwoKeywords!ChangeCadence,
             KeywordsP!ChangeCadence, TwoKeywords!ArchiveSchedule,
             KeywordsP!ArchiveSchedule, TwoKeywords!ShiftTimezone,
             KeywordsP!ShiftTimezone, TwoKeywords!Surroundings,
             KeywordsP!Surroundings, TwoKeywords!Tick, KeywordsP!Tick,
             TwoKeywords!MoveKeyword, KeywordsP!MoveKeyword,
             TwoKeywords!PlanRead, KeywordsP!PlanRead,
             TwoKeywords!PlanRetire, KeywordsP!PlanRetire,
             TwoKeywords!PlanPersist, KeywordsP!PlanPersist,
             TwoKeywords!LaunchRead, KeywordsP!LaunchRead,
             TwoKeywords!LaunchUnblock, KeywordsP!LaunchUnblock,
             TwoKeywords!LaunchNothing, KeywordsP!LaunchNothing,
             TwoKeywords!LaunchLater, KeywordsP!LaunchLater,
             TwoKeywords!LaunchTargets, KeywordsP!LaunchTargets,
             TwoKeywords!LaunchBlocked, KeywordsP!LaunchBlocked,
             TwoKeywords!LaunchExhausted, KeywordsP!LaunchExhausted,
             TwoKeywords!BlockExhausted, KeywordsP!BlockExhausted,
             TwoKeywords!RunNow, KeywordsP!RunNow, TwoKeywords!Skip,
             KeywordsP!Skip, TwoKeywords!CancelRun, KeywordsP!CancelRun,
             TwoKeywords!SweepRead, KeywordsP!SweepRead,
             TwoKeywords!ClaimItem, KeywordsP!ClaimItem,
             TwoKeywords!FinishItem, KeywordsP!FinishItem,
             TwoKeywords!SweepWrite, KeywordsP!SweepWrite, TwoKeywords!world,
             KeywordsP!world, TwoKeywords!Edit, KeywordsP!Edit,
             TwoKeywords!Reconcile, KeywordsP!Reconcile, TwoKeywords!Instant,
             KeywordsP!Instant, TwoKeywords!RetireObsolete,
             KeywordsP!RetireObsolete, TwoKeywords!NoPlan, KeywordsP!NoPlan,
             TwoKeywords!RetireEmpty, KeywordsP!RetireEmpty,
             TwoKeywords!Persist, KeywordsP!Persist, TwoKeywords!Due,
             KeywordsP!Due, TwoKeywords!BroughtForward,
             KeywordsP!BroughtForward, TwoKeywords!Empty, KeywordsP!Empty,
             TwoKeywords!Expired, KeywordsP!Expired, TwoKeywords!InProgress,
             KeywordsP!InProgress, TwoKeywords!NoLaunch, KeywordsP!NoLaunch,
             TwoKeywords!Over, KeywordsP!Over, TwoKeywords!Launching,
             KeywordsP!Launching, TwoKeywords!Complete, KeywordsP!Complete,
             TwoKeywords!Ready, KeywordsP!Ready, TwoKeywords!AllFree,
             KeywordsP!AllFree, TwoKeywords!Launched, KeywordsP!Launched,
             TwoKeywords!SameStatus, KeywordsP!SameStatus,
             TwoKeywords!RunStep, KeywordsP!RunStep, TwoKeywords!Settled,
             KeywordsP!Settled, TwoKeywords!NoSweep, KeywordsP!NoSweep,
             TwoKeywords!Reconciled, KeywordsP!Reconciled,
             TwoKeywords!Retire, KeywordsP!Retire, TwoKeywords!Obsolete,
             KeywordsP!Obsolete, TwoKeywords!Unlaunched,
             KeywordsP!Unlaunched, TwoKeywords!PlanOccurrence,
             KeywordsP!PlanOccurrence, TwoKeywords!NoItems,
             KeywordsP!NoItems, TwoKeywords!Rows, KeywordsP!Rows,
             TwoKeywords!StillPending, KeywordsP!StillPending,
             TwoKeywords!NoRow, KeywordsP!NoRow, TwoKeywords!Fresh,
             KeywordsP!Fresh, TwoKeywords!Replaceable, KeywordsP!Replaceable,
             TwoKeywords!Planned, KeywordsP!Planned,
             TwoKeywords!StillWithoutTargets, KeywordsP!StillWithoutTargets,
             TwoKeywords!NotAsked, KeywordsP!NotAsked,
             TwoKeywords!AllRetired, KeywordsP!AllRetired,
             TwoKeywords!PutOff, KeywordsP!PutOff
    <2> QED
      BY <2>1, <2>2
  <1> QED
    BY <1>1, <1>2, PTL DEF ServicesSpec, KeywordsP!Spec

LEMMA TwoLaunchesIsOne == ServicesSpec /\ focus = "launches" => LaunchesP!Spec
PROOF
  <1>1. focus = "launches" /\ ServicesInit => LaunchesP!Init
    <2>1. focus = "launches" /\ ServicesInit => TwoLaunches!Init
      BY DEF ServicesInit
    <2>2. TwoLaunches!Init => LaunchesP!Init
      BY DEF TwoLaunches!Init, LaunchesP!Init, TwoLaunches!NoRow,
             LaunchesP!NoRow, TwoLaunches!NoPlan, LaunchesP!NoPlan,
             TwoLaunches!NoLaunch, LaunchesP!NoLaunch, TwoLaunches!NoSweep,
             LaunchesP!NoSweep, TwoLaunches!NoItems, LaunchesP!NoItems,
             TwoLaunches!NotAsked, LaunchesP!NotAsked
    <2> QED
      BY <2>1, <2>2
  <1>2. focus = "launches" /\ [ServicesNext]_servicesVars
        => (focus = "launches")' /\ [LaunchesP!Next]_LaunchesP!occurrenceVars
    <2>1. focus = "launches" /\ [ServicesNext]_servicesVars
          => (focus = "launches")' /\ [TwoLaunches!Next]_TwoLaunches!occurrenceVars
      BY DEF ServicesNext, DigestNext, PaidNext, MonitorNext, OccurrenceNext,
             TrackerNext, servicesVars, occurrenceVars,
             TwoLaunches!occurrenceVars, TwoLaunches!world
    <2>2. [TwoLaunches!Next]_TwoLaunches!occurrenceVars => [LaunchesP!Next]_LaunchesP!occurrenceVars
      BY DEF TwoLaunches!Next, LaunchesP!Next, TwoLaunches!occurrenceVars,
             LaunchesP!occurrenceVars, TwoLaunches!ChangeCadence,
             LaunchesP!ChangeCadence, TwoLaunches!ArchiveSchedule,
             LaunchesP!ArchiveSchedule, TwoLaunches!ShiftTimezone,
             LaunchesP!ShiftTimezone, TwoLaunches!Surroundings,
             LaunchesP!Surroundings, TwoLaunches!Tick, LaunchesP!Tick,
             TwoLaunches!MoveKeyword, LaunchesP!MoveKeyword,
             TwoLaunches!PlanRead, LaunchesP!PlanRead,
             TwoLaunches!PlanRetire, LaunchesP!PlanRetire,
             TwoLaunches!PlanPersist, LaunchesP!PlanPersist,
             TwoLaunches!LaunchRead, LaunchesP!LaunchRead,
             TwoLaunches!LaunchUnblock, LaunchesP!LaunchUnblock,
             TwoLaunches!LaunchNothing, LaunchesP!LaunchNothing,
             TwoLaunches!LaunchLater, LaunchesP!LaunchLater,
             TwoLaunches!LaunchTargets, LaunchesP!LaunchTargets,
             TwoLaunches!LaunchBlocked, LaunchesP!LaunchBlocked,
             TwoLaunches!LaunchExhausted, LaunchesP!LaunchExhausted,
             TwoLaunches!BlockExhausted, LaunchesP!BlockExhausted,
             TwoLaunches!RunNow, LaunchesP!RunNow, TwoLaunches!Skip,
             LaunchesP!Skip, TwoLaunches!CancelRun, LaunchesP!CancelRun,
             TwoLaunches!SweepRead, LaunchesP!SweepRead,
             TwoLaunches!ClaimItem, LaunchesP!ClaimItem,
             TwoLaunches!FinishItem, LaunchesP!FinishItem,
             TwoLaunches!SweepWrite, LaunchesP!SweepWrite, TwoLaunches!world,
             LaunchesP!world, TwoLaunches!Edit, LaunchesP!Edit,
             TwoLaunches!Reconcile, LaunchesP!Reconcile, TwoLaunches!Instant,
             LaunchesP!Instant, TwoLaunches!RetireObsolete,
             LaunchesP!RetireObsolete, TwoLaunches!NoPlan, LaunchesP!NoPlan,
             TwoLaunches!RetireEmpty, LaunchesP!RetireEmpty,
             TwoLaunches!Persist, LaunchesP!Persist, TwoLaunches!Due,
             LaunchesP!Due, TwoLaunches!BroughtForward,
             LaunchesP!BroughtForward, TwoLaunches!Empty, LaunchesP!Empty,
             TwoLaunches!Expired, LaunchesP!Expired, TwoLaunches!InProgress,
             LaunchesP!InProgress, TwoLaunches!NoLaunch, LaunchesP!NoLaunch,
             TwoLaunches!Over, LaunchesP!Over, TwoLaunches!Launching,
             LaunchesP!Launching, TwoLaunches!Complete, LaunchesP!Complete,
             TwoLaunches!Ready, LaunchesP!Ready, TwoLaunches!AllFree,
             LaunchesP!AllFree, TwoLaunches!Launched, LaunchesP!Launched,
             TwoLaunches!SameStatus, LaunchesP!SameStatus,
             TwoLaunches!RunStep, LaunchesP!RunStep, TwoLaunches!Settled,
             LaunchesP!Settled, TwoLaunches!NoSweep, LaunchesP!NoSweep,
             TwoLaunches!Reconciled, LaunchesP!Reconciled,
             TwoLaunches!Retire, LaunchesP!Retire, TwoLaunches!Obsolete,
             LaunchesP!Obsolete, TwoLaunches!Unlaunched,
             LaunchesP!Unlaunched, TwoLaunches!PlanOccurrence,
             LaunchesP!PlanOccurrence, TwoLaunches!NoItems,
             LaunchesP!NoItems, TwoLaunches!Rows, LaunchesP!Rows,
             TwoLaunches!StillPending, LaunchesP!StillPending,
             TwoLaunches!NoRow, LaunchesP!NoRow, TwoLaunches!Fresh,
             LaunchesP!Fresh, TwoLaunches!Replaceable, LaunchesP!Replaceable,
             TwoLaunches!Planned, LaunchesP!Planned,
             TwoLaunches!StillWithoutTargets, LaunchesP!StillWithoutTargets,
             TwoLaunches!NotAsked, LaunchesP!NotAsked,
             TwoLaunches!AllRetired, LaunchesP!AllRetired,
             TwoLaunches!PutOff, LaunchesP!PutOff
    <2> QED
      BY <2>1, <2>2
  <1> QED
    BY <1>1, <1>2, PTL DEF ServicesSpec, LaunchesP!Spec

LEMMA TrackerIsOne == ServicesSpec => TrackerP!Spec
PROOF
  <1>1. ServicesInit => TrackerP!Init
    <2>1. ServicesInit => Tracker!Init
      BY DEF ServicesInit
    <2>2. Tracker!Init => TrackerP!Init
      BY DEF Tracker!Init, TrackerP!Init, Tracker!NewSample,
             TrackerP!NewSample, Tracker!NoEntry, TrackerP!NoEntry,
             Tracker!Idle, TrackerP!Idle
    <2> QED
      BY <2>1, <2>2
  <1>2. [ServicesNext]_servicesVars
        => [TrackerP!Next]_TrackerP!trackingVars
    <2>1. [ServicesNext]_servicesVars
          => [Tracker!Next]_Tracker!trackingVars
      BY DEF ServicesNext, DigestNext, PaidNext, MonitorNext, OccurrenceNext,
             TrackerNext, servicesVars, trackerVars, Tracker!trackingVars
    <2>2. [Tracker!Next]_Tracker!trackingVars => [TrackerP!Next]_TrackerP!trackingVars
      BY DEF Tracker!Next, TrackerP!Next, Tracker!trackingVars,
             TrackerP!trackingVars, Tracker!Execute, TrackerP!Execute,
             Tracker!BreakOff, TrackerP!BreakOff, Tracker!Load,
             TrackerP!Load, Tracker!CancelRun, TrackerP!CancelRun,
             Tracker!Expire, TrackerP!Expire, Tracker!Suspect,
             TrackerP!Suspect, Tracker!Claim, TrackerP!Claim,
             Tracker!Prepare, TrackerP!Prepare, Tracker!Begin,
             TrackerP!Begin, Tracker!BeginUnsure, TrackerP!BeginUnsure,
             Tracker!Fence, TrackerP!Fence, Tracker!CancelEntry,
             TrackerP!CancelEntry, Tracker!Barrier, TrackerP!Barrier,
             Tracker!Submit, TrackerP!Submit, Tracker!SendDenied,
             TrackerP!SendDenied, Tracker!Send, TrackerP!Send,
             Tracker!Denied, TrackerP!Denied, Tracker!Lose, TrackerP!Lose,
             Tracker!Doubt, TrackerP!Doubt, Tracker!Bought, TrackerP!Bought,
             Tracker!Collect, TrackerP!Collect, Tracker!GetPending,
             TrackerP!GetPending, Tracker!GetAnswer, TrackerP!GetAnswer,
             Tracker!Settle, TrackerP!Settle, Tracker!Persist,
             TrackerP!Persist, Tracker!Ends, TrackerP!Ends, Tracker!Terminal,
             TrackerP!Terminal, Tracker!Entry, TrackerP!Entry, Tracker!Idle,
             TrackerP!Idle, Tracker!history, TrackerP!history,
             Tracker!OpenRuns, TrackerP!OpenRuns, Tracker!Unsubmitted,
             TrackerP!Unsubmitted, Tracker!MayMove, TrackerP!MayMove,
             Tracker!Of, TrackerP!Of, Tracker!Moved, TrackerP!Moved,
             Tracker!Goes, TrackerP!Goes, Tracker!Refused, TrackerP!Refused,
             Tracker!NoEntry, TrackerP!NoEntry, Tracker!PostReceipts,
             TrackerP!PostReceipts, Tracker!Answered, TrackerP!Answered,
             Tracker!SettledAs, TrackerP!SettledAs, Tracker!MayPersist,
             TrackerP!MayPersist, Tracker!FinishRun, TrackerP!FinishRun,
             Tracker!Outcome, TrackerP!Outcome
    <2> QED
      BY <2>1, <2>2
  <1> QED
    BY <1>1, <1>2, PTL DEF ServicesSpec, TrackerP!Spec

-----------------------------------------------------------------------------
(* The properties that the run Services checks.                             *)

\* A destination is sent an alert once, in each of the three deployments that are
\* composed: DigestsAreSentOnce holds for all of them (digest-send-fence.ts).
THEOREM ServicesSendOnce ==
  ASSUME none \notin {p1, p2}
  PROVE  ServicesSpec => []SentOnce
PROOF
  <1>0. [ServicesNext]_servicesVars =>
          /\ (focus = "retried")' <=> focus = "retried"
          /\ (focus = "destinations")' <=> focus = "destinations"
          /\ (focus = "alerts")' <=> focus = "alerts"
    BY FocusStays
  <1>1. RetriedP!Spec => []RetriedP!SentOnce
    BY RetriedP!DigestsAreSentOnce DEF RetriedP!Tokens
  <1>2. RetriedP!SentOnce => Retried!SentOnce
    BY DEF Retried!SentOnce, RetriedP!SentOnce
  <1>3. DestinationsP!Spec => []DestinationsP!SentOnce
    BY DestinationsP!DigestsAreSentOnce DEF DestinationsP!Tokens
  <1>4. DestinationsP!SentOnce => TwoDestinations!SentOnce
    BY DEF TwoDestinations!SentOnce, DestinationsP!SentOnce
  <1>5. AlertsP!Spec => []AlertsP!SentOnce
    BY AlertsP!DigestsAreSentOnce DEF AlertsP!Tokens
  <1>6. AlertsP!SentOnce => TwoAlerts!SentOnce
    BY DEF TwoAlerts!SentOnce, AlertsP!SentOnce
  <1> QED
    BY <1>0, <1>1, <1>2, <1>3, <1>4, <1>5, <1>6, RetriedIsOne,
       TwoDestinationsIsOne, TwoAlertsIsOne, PTL
       DEF ServicesSpec, SentOnce

\* An alert that is pending again was sent to nobody: PendingWasNotSent,
\* composed (digest-reconcile.ts and the trigger fence_digest_reclaim).
THEOREM ServicesPendIsUnsent ==
  ASSUME none \notin {p1, p2}
  PROVE  ServicesSpec => []PendingIsUnsent
PROOF
  <1>0. [ServicesNext]_servicesVars =>
          /\ (focus = "retried")' <=> focus = "retried"
          /\ (focus = "destinations")' <=> focus = "destinations"
          /\ (focus = "alerts")' <=> focus = "alerts"
    BY FocusStays
  <1>1. RetriedP!Spec => []RetriedP!PendingIsUnsent
    BY RetriedP!PendingWasNotSent DEF RetriedP!Tokens
  <1>2. RetriedP!PendingIsUnsent => Retried!PendingIsUnsent
    BY DEF Retried!PendingIsUnsent, RetriedP!PendingIsUnsent
  <1>3. DestinationsP!Spec => []DestinationsP!PendingIsUnsent
    BY DestinationsP!PendingWasNotSent DEF DestinationsP!Tokens
  <1>4. DestinationsP!PendingIsUnsent => TwoDestinations!PendingIsUnsent
    BY DEF TwoDestinations!PendingIsUnsent, DestinationsP!PendingIsUnsent
  <1>5. AlertsP!Spec => []AlertsP!PendingIsUnsent
    BY AlertsP!PendingWasNotSent DEF AlertsP!Tokens
  <1>6. AlertsP!PendingIsUnsent => TwoAlerts!PendingIsUnsent
    BY DEF TwoAlerts!PendingIsUnsent, AlertsP!PendingIsUnsent
  <1> QED
    BY <1>0, <1>1, <1>2, <1>3, <1>4, <1>5, <1>6, RetriedIsOne,
       TwoDestinationsIsOne, TwoAlertsIsOne, PTL
       DEF ServicesSpec, PendingIsUnsent

\* An alert recorded as digested arrived somewhere: DigestedHasArrived, composed
\* (digest-delivery.ts).
THEOREM ServicesDigestedArrives ==
  ASSUME none \notin {p1, p2}
  PROVE  ServicesSpec => []DigestedArrived
PROOF
  <1>0. [ServicesNext]_servicesVars =>
          /\ (focus = "retried")' <=> focus = "retried"
          /\ (focus = "destinations")' <=> focus = "destinations"
          /\ (focus = "alerts")' <=> focus = "alerts"
    BY FocusStays
  <1>1. RetriedP!Spec => []RetriedP!DigestedArrived
    BY RetriedP!DigestedHasArrived DEF RetriedP!Tokens
  <1>2. RetriedP!DigestedArrived => Retried!DigestedArrived
    BY DEF Retried!DigestedArrived, RetriedP!DigestedArrived
  <1>3. DestinationsP!Spec => []DestinationsP!DigestedArrived
    BY DestinationsP!DigestedHasArrived DEF DestinationsP!Tokens
  <1>4. DestinationsP!DigestedArrived => TwoDestinations!DigestedArrived
    BY DEF TwoDestinations!DigestedArrived, DestinationsP!DigestedArrived
  <1>5. AlertsP!Spec => []AlertsP!DigestedArrived
    BY AlertsP!DigestedHasArrived DEF AlertsP!Tokens
  <1>6. AlertsP!DigestedArrived => TwoAlerts!DigestedArrived
    BY DEF TwoAlerts!DigestedArrived, AlertsP!DigestedArrived
  <1> QED
    BY <1>0, <1>1, <1>2, <1>3, <1>4, <1>5, <1>6, RetriedIsOne,
       TwoDestinationsIsOne, TwoAlertsIsOne, PTL
       DEF ServicesSpec, DigestedArrived

\* A monitored target is freed only with nothing open: FreedTargetsAreProven,
\* composed (ownership.ts).
THEOREM ServicesFreeProven ==
  ServicesSpec => []FreedWhenProven
PROOF
  <1>1. MonitorP!Spec => []MonitorP!FreedWhenProven
    BY MonitorP!FreedTargetsAreProven
  <1>2. MonitorP!FreedWhenProven => Monitor!FreedWhenProven
    BY DEF Monitor!FreedWhenProven, MonitorP!FreedWhenProven, Monitor!At,
           MonitorP!At
  <1> QED
    BY <1>1, <1>2, MonitorIsOne, PTL
       DEF ServicesSpec, FreedWhenProven

\* A complete monitor job holds no target: CompleteJobsAreFreed, composed
\* (progress.ts).
THEOREM ServicesCompleteFreed ==
  ServicesSpec => []CompleteIsFreed
PROOF
  <1>1. MonitorP!Spec => []MonitorP!CompleteIsFreed
    BY MonitorP!CompleteJobsAreFreed
  <1>2. MonitorP!CompleteIsFreed => Monitor!CompleteIsFreed
    BY DEF Monitor!CompleteIsFreed, MonitorP!CompleteIsFreed
  <1> QED
    BY <1>1, <1>2, MonitorIsOne, PTL
       DEF ServicesSpec, CompleteIsFreed

\* A run is replaced only if nothing of its work was attempted: NoWorkIsPlannedTwice,
\* composed (occurrence-replacement.ts).
THEOREM ServicesWorkOnce ==
  ServicesSpec => []WorkIsNotRepeated
PROOF
  <1>0. [ServicesNext]_servicesVars =>
          /\ (focus = "keywords")' <=> focus = "keywords"
          /\ (focus = "launches")' <=> focus = "launches"
    BY FocusStays
  <1>1. KeywordsP!Spec => []KeywordsP!WorkIsNotRepeated
    BY KeywordsP!NoWorkIsPlannedTwice DEF KeywordsP!Sizes
  <1>2. KeywordsP!WorkIsNotRepeated => TwoKeywords!WorkIsNotRepeated
    BY DEF TwoKeywords!WorkIsNotRepeated, KeywordsP!WorkIsNotRepeated,
           TwoKeywords!Rows, KeywordsP!Rows
  <1>3. LaunchesP!Spec => []LaunchesP!WorkIsNotRepeated
    BY LaunchesP!NoWorkIsPlannedTwice DEF LaunchesP!Sizes
  <1>4. LaunchesP!WorkIsNotRepeated => TwoLaunches!WorkIsNotRepeated
    BY DEF TwoLaunches!WorkIsNotRepeated, LaunchesP!WorkIsNotRepeated,
           TwoLaunches!Rows, LaunchesP!Rows
  <1> QED
    BY <1>0, <1>1, <1>2, <1>3, <1>4, TwoKeywordsIsOne, TwoLaunchesIsOne, PTL
       DEF ServicesSpec, WorkIsNotRepeated

\* A paused or archived schedule starts nothing: PausedScheduleIsQuiet, composed
\* (materialize.ts, persist-occurrence.ts).
THEOREM ServicesPauseIsQuiet ==
  ServicesSpec => []PausedIsQuiet
PROOF
  <1>0. [ServicesNext]_servicesVars =>
          /\ (focus = "keywords")' <=> focus = "keywords"
          /\ (focus = "launches")' <=> focus = "launches"
    BY FocusStays
  <1>1. KeywordsP!Spec => []KeywordsP!PausedIsQuiet
    BY KeywordsP!PausedScheduleIsQuiet DEF KeywordsP!Sizes
  <1>2. KeywordsP!PausedIsQuiet => TwoKeywords!PausedIsQuiet
    BY DEF TwoKeywords!PausedIsQuiet, KeywordsP!PausedIsQuiet,
           TwoKeywords!Rows, KeywordsP!Rows, TwoKeywords!NotAsked,
           KeywordsP!NotAsked, TwoKeywords!Unlaunched, KeywordsP!Unlaunched
  <1>3. LaunchesP!Spec => []LaunchesP!PausedIsQuiet
    BY LaunchesP!PausedScheduleIsQuiet DEF LaunchesP!Sizes
  <1>4. LaunchesP!PausedIsQuiet => TwoLaunches!PausedIsQuiet
    BY DEF TwoLaunches!PausedIsQuiet, LaunchesP!PausedIsQuiet,
           TwoLaunches!Rows, LaunchesP!Rows, TwoLaunches!NotAsked,
           LaunchesP!NotAsked, TwoLaunches!Unlaunched, LaunchesP!Unlaunched
  <1> QED
    BY <1>0, <1>1, <1>2, <1>3, <1>4, TwoKeywordsIsOne, TwoLaunchesIsOne, PTL
       DEF ServicesSpec, PausedIsQuiet

\* A tracking sample that ended as free was not sent: FreeSamplesAreUnsent,
\* composed (stores/samples.ts).
THEOREM ServicesFreeUnsent ==
  ServicesSpec => []FreeIsUnsent
PROOF
  <1>1. TrackerP!Spec => []TrackerP!FreeIsUnsent
    BY TrackerP!FreeSamplesAreUnsent DEF TrackerP!Sampled
  <1>2. TrackerP!FreeIsUnsent => Tracker!FreeIsUnsent
    BY DEF Tracker!FreeIsUnsent, TrackerP!FreeIsUnsent, Tracker!Terminal,
           TrackerP!Terminal, Tracker!Of, TrackerP!Of
  <1> QED
    BY <1>1, <1>2, TrackerIsOne, PTL
       DEF ServicesSpec, FreeIsUnsent

\* A tracking run that may be repeated owes nothing: RetriesAreSafe, composed
\* (retry-policy.ts).
THEOREM ServicesRetrySafe ==
  ServicesSpec => []RetryIsSafe
PROOF
  <1>1. TrackerP!Spec => []TrackerP!RetryIsSafe
    BY TrackerP!RetriesAreSafe DEF TrackerP!Sampled
  <1>2. TrackerP!RetryIsSafe => Tracker!RetryIsSafe
    BY DEF Tracker!RetryIsSafe, TrackerP!RetryIsSafe, Tracker!Retryable,
           TrackerP!Retryable, Tracker!Terminal, TrackerP!Terminal
  <1> QED
    BY <1>1, <1>2, TrackerIsOne, PTL
       DEF ServicesSpec, RetryIsSafe

\* A tracking run is open while it has work: RunsMatchTheirSamples,
\* composed (finishRun, cancelTrackingRun).
THEOREM ServicesRunMatches ==
  ServicesSpec => []RunMatchesSamples
PROOF
  <1>1. TrackerP!Spec => []TrackerP!RunMatchesSamples
    BY TrackerP!RunsMatchTheirSamples DEF TrackerP!Sampled
  <1>2. TrackerP!RunMatchesSamples => Tracker!RunMatchesSamples
    BY DEF Tracker!RunMatchesSamples, TrackerP!RunMatchesSamples,
           Tracker!OpenRuns, TrackerP!OpenRuns, Tracker!Terminal,
           TrackerP!Terminal, Tracker!Concluded, TrackerP!Concluded,
           Tracker!Unsubmitted, TrackerP!Unsubmitted
  <1> QED
    BY <1>1, <1>2, TrackerIsOne, PTL
       DEF ServicesSpec, RunMatchesSamples

\* A run that has ended is not brought back: EndedRunsStay, composed
\* (materialize.ts, finalize.ts).
THEOREM ServicesEndedStay ==
  ServicesSpec => FinishedStays
PROOF
  <1>1. [ServicesNext]_servicesVars =>
          /\ (focus = "keywords")' <=> focus = "keywords"
          /\ (focus = "launches")' <=> focus = "launches"
    BY FocusStays
  <1>2. KeywordsP!Spec => KeywordsP!FinishedStays
    BY KeywordsP!EndedRunsStay DEF KeywordsP!Sizes
  <1>3. LaunchesP!Spec => LaunchesP!FinishedStays
    BY LaunchesP!EndedRunsStay DEF LaunchesP!Sizes
  <1>4. [KeywordsP!EndedStays]_KeywordsP!occurrenceVars /\ focus = "keywords"
        => [/\ focus = "keywords" => TwoKeywords!EndedStays
            /\ focus = "launches" => TwoLaunches!EndedStays]_occurrenceVars
    BY DEF TwoKeywords!EndedStays, KeywordsP!EndedStays, occurrenceVars,
           KeywordsP!occurrenceVars, KeywordsP!world
  <1>5. [LaunchesP!EndedStays]_LaunchesP!occurrenceVars /\ focus = "launches"
        => [/\ focus = "keywords" => TwoKeywords!EndedStays
            /\ focus = "launches" => TwoLaunches!EndedStays]_occurrenceVars
    BY DEF TwoLaunches!EndedStays, LaunchesP!EndedStays, occurrenceVars,
           LaunchesP!occurrenceVars, LaunchesP!world
  <1>6. focus # "keywords" /\ focus # "launches"
        => [/\ focus = "keywords" => TwoKeywords!EndedStays
            /\ focus = "launches" => TwoLaunches!EndedStays]_occurrenceVars
    OBVIOUS
  <1> QED
    BY <1>1, <1>2, <1>3, <1>4, <1>5, <1>6, TwoKeywordsIsOne, TwoLaunchesIsOne, PTL
       DEF ServicesSpec, FinishedStays, KeywordsP!FinishedStays, LaunchesP!FinishedStays

\* Every behaviour of the composition is one of PaidRequests.
LEMMA PaidIsOne == ServicesSpec => Spec
PROOF
  <1>1. ServicesInit => Init
    BY DEF ServicesInit
  <1>2. [ServicesNext]_servicesVars => [Next]_paidVars
    BY DEF ServicesNext, DigestNext, PaidNext, MonitorNext, OccurrenceNext,
           TrackerNext, servicesVars
  <1> QED
    BY <1>1, <1>2, PTL DEF ServicesSpec, Spec

\* The journals of paid requests are safe in the composition, for any number of
\* requests and any limit (paid-dispatch.ts, request-journal.ts,
\* request-cost-limit.ts).
THEOREM ServicesPaySafely ==
  ASSUME IsFiniteSet(Requests), Limit \in Nat
  PROVE  ServicesSpec => [](WrittenOffIsUnsent /\ OneJournalUnresolved /\ WithinLimit)
PROOF
  BY PaidIsOne, WrittenOffStaysUnsent, OneJournalPays, ChargesKeepLimit, PTL

=============================================================================

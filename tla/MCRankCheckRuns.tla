-------------------------- MODULE MCRankCheckRuns --------------------------
(***************************************************************************)
(* Instances of RankCheckRuns for TLC.                                     *)
(***************************************************************************)
EXTENDS RankCheckRunsLedger, TLC

CONSTANTS a, b   \* items

\* A manual and a scheduled run that want the same keyword at the same time.
SharedRuns == {"manual", "scheduled"}
SharedItems == {a, b}
SharedRunOf == [i \in SharedItems |-> IF i = a THEN "manual" ELSE "scheduled"]
SharedKeywords == {"k"}
SharedKeywordOf == [i \in SharedItems |-> "k"]
SharedScheduled == {"scheduled"}

\* Either nothing is cancelled and the runs contend for the keyword, or the
\* manual run was cancelled before its work started and what follows, cancels
\* included, is about the scheduled run.  A run that may not be cancelled starts
\* with its cancel commands used up.
Waiting == [status |-> "queued", outcome |-> NoOutcome, tally |-> NoTally]
Revoked == [status |-> "cancelled", outcome |-> NoOutcome,
            tally |-> [NoTally EXCEPT !["cancelled"] = 1]]

SharedInit ==
  /\ \E revoked \in {{}, {"manual"}} :
       /\ run = [r \in Runs |-> IF r \in revoked THEN Revoked ELSE Waiting]
       /\ item = [i \in Items |->
                    [status |-> IF RunOf[i] \in revoked THEN "cancelled" ELSE "queued",
                     reason |-> "none", attempts |-> 0, lease |-> "none"]]
       /\ cancel = [r \in Runs |-> [pc |-> "idle", list |-> {},
                    used |-> IF revoked # {} /\ r \notin revoked THEN 0 ELSE MaxCancels]]
  /\ check = [i \in Items |-> [status |-> "none", attempts |-> 0]]
  /\ task = [i \in Items |-> "none"]
  /\ flow = [i \in Items |-> "idle"]
  /\ attempt = [i \in Items |-> [n \in Tries |-> "none"]]
  /\ sends = [i \in Items |-> 0]
  /\ evidence = [i \in Items |-> FALSE]
  /\ sweep = NoSweep
  /\ runnable = [k \in Keywords |-> TRUE]

SharedSpec == SharedInit /\ [][Next]_vars /\ Fairness

\* One run with two targets, which are interchangeable together with their
\* keywords.
PairRuns == {"r"}
PairItems == {a, b}
PairRunOf == [i \in PairItems |-> "r"]
PairKeywords == PairItems
PairKeywordOf == [i \in PairItems |-> i]
Interchangeable == Permutations(PairItems)

\* One run with one target.
SoloRuns == {"r"}
SoloKeywords == {"k"}
SoloItems == {a}
SoloRunOf == [i \in SoloItems |-> "r"]
SoloKeywordOf == [i \in SoloItems |-> "k"]

None == {}
=============================================================================

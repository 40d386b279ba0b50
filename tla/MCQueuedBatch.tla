--------------------------- MODULE MCQueuedBatch ---------------------------
(***************************************************************************)
(* Instances of QueuedBatch for TLC.                                       *)
(***************************************************************************)
EXTENDS QueuedBatch

CONSTANTS t1, s1, s2, p1, p2, n1, c1, none

OneTask == {t1}
TwoSubmitters == {s1, s2}
OneInspector == {n1}
OnePersister == {p1}
TwoPersisters == {p1, p2}
OneCleaner == {c1}
=============================================================================

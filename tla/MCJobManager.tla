---------------------------- MODULE MCJobManager ----------------------------
(* Small instances of JobManager for TLC.                                  *)
EXTENDS JobManager

CONSTANTS j1, j2, j3, d1, d2, r1, r2

(* The first two jobs compete for one destination. *)
MCDestOf == [j \in Job |-> IF j = j3 THEN d2 ELSE d1]

NoJobs == {}
OneJob == {j1}
SecondJob == {j2}
LastJob == {j3}
NoBatches == {}
OneBatch == {<<j2, j3>>}
SmallBatch == {<<j2>>}
=============================================================================

--------------------------- MODULE MCCurveLabJobs ---------------------------
(***************************************************************************)
(* Five requests against three permits (two workers, one waiting slot):    *)
(* admission is refused, a cancelled request makes room, permits are       *)
(* reused.                                                                 *)
(***************************************************************************)
EXTENDS CurveLabJobs, TLC

CONSTANTS j1, j2, j3, j4, j5

MCJobs == {j1, j2, j3, j4, j5}
=============================================================================

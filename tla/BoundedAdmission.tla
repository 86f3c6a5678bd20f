-------------------------- MODULE BoundedAdmission --------------------------
(***************************************************************************)
(* What a bounded admission gate promises, with none of the machinery that *)
(* keeps the promise: work is admitted while fewer than Capacity pieces of *)
(* it are outstanding, each piece at most once, and an outstanding piece   *)
(* is retired exactly once and never comes back.  CurveLabJobs implements  *)
(* it.                                                                     *)
(***************************************************************************)
EXTENDS Naturals, FiniteSets

CONSTANTS Jobs, Capacity

VARIABLES
  outstanding,  \* admitted and not yet retired
  retired       \* admitted once and retired since

avars == <<outstanding, retired>>

AInit == outstanding = {} /\ retired = {}

(* One more piece of work: only below the capacity, only if never seen.    *)
AAdmit(j) ==
  /\ j \notin outstanding \cup retired
  /\ Cardinality(outstanding) < Capacity
  /\ outstanding' = outstanding \cup {j}
  /\ UNCHANGED retired

(* An outstanding piece of work gives its place back.                      *)
ARetire(j) ==
  /\ j \in outstanding
  /\ outstanding' = outstanding \ {j}
  /\ retired' = retired \cup {j}

ANext == \E j \in Jobs : AAdmit(j) \/ ARetire(j)

ASpec == AInit /\ [][ANext]_avars
=============================================================================

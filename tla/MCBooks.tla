------------------------------ MODULE MCBooks -------------------------------
(* Books on a small instance.                                              *)
EXTENDS Books, TLC

CONSTANTS p1, p2, m1, m2, t1, t2, t3, f1, f2

MCSymmetry ==
  Permutations({p1, p2}) \cup Permutations({m1, m2})
    \cup Permutations({t1, t2, t3}) \cup Permutations({f1, f2})
=============================================================================

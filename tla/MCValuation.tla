---------------------------- MODULE MCValuation -----------------------------
(* One valuation of a trade or of a portfolio with up to two trades, over  *)
(* books that change.                                                      *)
EXTENDS Valuation, TLC

CONSTANTS p1, p2, m1, t1, t2, f1, v1
=============================================================================

------------------------ MODULE MCCurveLabLifecycle -------------------------
EXTENDS CurveLabLifecycle, TLC

CONSTANTS c1, c2, d1, d2, r1, r2, v0, v1, v2, k1, k2, other, plain, copy, linked, broken

(* plain and copy have no dependencies (copy is plain under new instrument *)
(* ids), linked depends on the first published version, broken on the      *)
(* imported one, which carries no document.                                *)
MCDeps == [doc \in Docs |-> CASE doc \in {plain, copy} -> {}
                              [] doc = linked -> {v1}
                              [] doc = broken -> {v0}]

(* Clients, runs and keys are interchangeable; versions and documents are  *)
(* not (Deps tells them apart).                                            *)
MCSymmetry == {f @@ g @@ h : f \in Permutations(Clients), g \in Permutations(Runs),
                             h \in Permutations(Keys)}
=============================================================================

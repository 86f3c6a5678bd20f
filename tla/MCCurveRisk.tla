---------------------------- MODULE MCCurveRisk -----------------------------
(* A first request of a family that touches every limit, and a second one. *)
EXTENDS CurveRisk

MCJobs == {1, 2}
MCLimits == [T |-> 2, P |-> 2, Q |-> 2, price_evaluations |-> 16, calibration_solves |-> 6,
             aad_recordings |-> 2, estimated_wall_millis |-> 58]
MCCost == [context |-> 1, price |-> 1, solve |-> 5, aad |-> 1]

MeasureSets == { {"PV"}, {"PV", "DV01"}, {"KEY_RATE_DV01"} }
LayerSets == { {}, {"TRADE_TO_NODE"}, {"CALIBRATION_JACOBIAN"}, {"COMPOSED_QUOTE_DIAGNOSTIC"} }

R(T, eligible, P, Q, measures, layers) ==
  [T |-> T, eligible |-> eligible, P |-> P, C |-> IF P = 0 THEN 0 ELSE 1, Q |-> Q,
   measures |-> measures, layers |-> layers,
   source |-> "BUILD", reconstructs |-> TRUE, historical |-> FALSE,
   aad_fallback |-> "ALLOW", jacobian_replay_fallback |-> "ALLOW"]

Small ==
  {R(1, 1, 1, 1, measures, layers) :
     measures \in MeasureSets, layers \in { {}, {"CALIBRATION_JACOBIAN"} } }
    \cup { R(1, 1, 1, 1, {"PV"}, {"TRADE_TO_NODE"}),
            R(1, 1, 1, 1, {"PV"}, {"COMPOSED_QUOTE_DIAGNOSTIC"}),
            R(1, 1, 1, 1, {"KEY_RATE_DV01"}, {"COMPOSED_QUOTE_DIAGNOSTIC"}) }
Sized ==
  {R(size[1], size[2], size[3], size[4], {"KEY_RATE_DV01"}, layers) :
     size \in { <<0, 0, 1, 2>>, <<2, 1, 1, 2>>, <<1, 0, 2, 2>>, <<2, 2, 2, 1>>, <<3, 0, 1, 1>> },
     layers \in { {}, {"CALIBRATION_JACOBIAN"} } }
    \cup { R(2, 2, 2, 2, {"KEY_RATE_DV01"}, {"COMPOSED_QUOTE_DIAGNOSTIC"}),
            R(2, 1, 1, 0, {"PV"}, {"TRADE_TO_NODE"}),
            [R(1, 1, 2, 0, {"PV"}, {"TRADE_TO_NODE"}) EXCEPT !.C = 2],
            [R(2, 2, 1, 0, {"PV"}, {"TRADE_TO_NODE"}) EXCEPT !.aad_fallback = "FORBID"] }
Variants ==
  {[R(1, 0, 1, 1, {"PV"}, layers) EXCEPT !.aad_fallback = "FORBID"] : layers \in LayerSets}
    \cup {[R(1, 1, 1, 1, {"PV"}, layers) EXCEPT !.source = "IMPORT"] : layers \in LayerSets}
    \cup {[R(1, 1, 1, 1, {"PV"}, layers) EXCEPT !.jacobian_replay_fallback = "FORBID"] :
             layers \in LayerSets}
    \cup {[R(1, 1, 1, 1, {"PV"}, {}) EXCEPT !.historical = TRUE],
           [R(1, 1, 1, 1, {"PV"}, {}) EXCEPT !.reconstructs = FALSE]}

(* One run of the family, or two small ones that share the worker.         *)
Tiny == R(0, 0, 1, 0, {"PV"}, {})
MCWorkloads ==
  {<<r, None>> : r \in Small \cup Sized \cup Variants}
    \cup {<<Tiny, r>> : r \in {Tiny, R(1, 1, 1, 0, {"DV01"}, {})}}
=============================================================================

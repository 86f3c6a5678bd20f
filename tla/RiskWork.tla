------------------------------ MODULE RiskWork ------------------------------
(***************************************************************************)
(* The work a risk run asks for and the limits it must keep: estimate_work *)
(* and _admit_work of backend/app/services/curve_risk.py.  The estimate is *)
(* computed in saturating machine words; a word that has overflowed says   *)
(* so, and a sum or product says so of its operands.                       *)
(*                                                                         *)
(* A request r has r.T trades, r.eligible of them deposits on a curve of   *)
(* the version, and asks for measures and sensitivity layers of a version  *)
(* with r.P parameters, on r.C curve components, and r.Q quotes.           *)
(***************************************************************************)
EXTENDS Integers

CONSTANTS
  MaxWord,  \* the largest machine word, 2^64 - 1 in the application
  Limits,   \* CURVE_LAB_RISK_LIMITS by the field of the estimate
  Cost      \* CURVE_LAB_RISK_COST_COEFFICIENTS

Fields == {"T", "P", "Q", "price_evaluations", "calibration_solves", "aad_recordings",
           "estimated_wall_millis"}
Coefficients == {"context", "price", "solve", "aad"}

ASSUME RiskWorkAssumption ==
  /\ MaxWord \in Nat \ {0, 1}
  /\ Limits \in [Fields -> 0 .. MaxWord]
  /\ Cost \in [Coefficients -> 1 .. MaxWord]

(* A request whose axes are lists: their lengths fit into a word.          *)
Countable(r) == {r.T, r.eligible, r.P, r.Q} \subseteq 0 .. MaxWord

Word(n) == [n |-> n, over |-> FALSE]
Saturated == [n |-> MaxWord, over |-> TRUE]

CheckedAdd(x, y) ==
  IF x.n > MaxWord - y.n THEN Saturated ELSE [n |-> x.n + y.n, over |-> x.over \/ y.over]

CheckedMultiply(x, y) ==
  IF x.n # 0 /\ y.n > MaxWord \div x.n
  THEN Saturated ELSE [n |-> x.n * y.n, over |-> x.over \/ y.over]
-----------------------------------------------------------------------------
(* What the measures and layers of a request make necessary.               *)
NeedsNodes(r) == {"TRADE_TO_NODE", "COMPOSED_QUOTE_DIAGNOSTIC"} \cap r.layers # {}
NeedsJacobian(r) == {"CALIBRATION_JACOBIAN", "COMPOSED_QUOTE_DIAGNOSTIC"} \cap r.layers # {}
NeedsQuotes(r) == {"DV01", "KEY_RATE_DV01"} \cap r.measures # {}

NParam(r) == CheckedMultiply(Word(IF NeedsNodes(r) THEN 2 ELSE 0), Word(r.P))
NAad(r) == CheckedMultiply(Word(IF NeedsNodes(r) THEN 1 ELSE 0), Word(r.eligible))

(* Mutant of NQuote: the parallel bump beside the key rates is forgotten.  *)
NQuoteKeysOnly(r) ==
  IF "KEY_RATE_DV01" \in r.measures THEN Word(r.Q)
  ELSE Word(IF NeedsQuotes(r) THEN 1 ELSE 0)

NQuote(r) ==
  IF "KEY_RATE_DV01" \in r.measures THEN CheckedAdd(Word(r.Q), Word(1))
  ELSE Word(IF NeedsQuotes(r) THEN 1 ELSE 0)

NJac(r) == IF NeedsJacobian(r) THEN CheckedMultiply(Word(2), Word(r.Q)) ELSE Word(0)

Contexts(r) ==
  CheckedAdd(CheckedAdd(CheckedAdd(CheckedAdd(Word(1), NParam(r)), NAad(r)), NQuote(r)), NJac(r))

PriceEvaluations(r) ==
  CheckedAdd(CheckedAdd(CheckedAdd(Word(r.T), CheckedMultiply(NParam(r), Word(r.T))), NAad(r)),
             CheckedMultiply(NQuote(r), Word(r.T)))

CalibrationSolves(r) == CheckedAdd(NQuote(r), NJac(r))

EstimatedWallMillis(r) ==
  CheckedAdd(CheckedAdd(CheckedAdd(
    CheckedMultiply(Contexts(r), Word(Cost.context)),
    CheckedMultiply(PriceEvaluations(r), Word(Cost.price))),
    CheckedMultiply(CalibrationSolves(r), Word(Cost.solve))),
    CheckedMultiply(NAad(r), Word(Cost.aad)))

Estimate(r) ==
  [T |-> Word(r.T), P |-> Word(r.P), Q |-> Word(r.Q),
   price_evaluations |-> PriceEvaluations(r), calibration_solves |-> CalibrationSolves(r),
   aad_recordings |-> NAad(r), estimated_wall_millis |-> EstimatedWallMillis(r)]

(* Every word of the estimate flows into the wall time, whose flag is thus *)
(* the one flag of the code.                                               *)
AdmitsWork(r) ==
  LET e == Estimate(r) IN
    /\ \A field \in Fields : ~e[field].over
    /\ \A field \in Fields : e[field].n <= Limits[field]
-----------------------------------------------------------------------------
(* The same work counted in integers, for reference.                       *)
Nodes(r) == IF NeedsNodes(r) THEN 2 * r.P ELSE 0
Aads(r) == IF NeedsNodes(r) THEN r.eligible ELSE 0
Quotes(r) == IF "KEY_RATE_DV01" \in r.measures THEN r.Q + 1 ELSE IF NeedsQuotes(r) THEN 1 ELSE 0
Replays(r) == IF NeedsJacobian(r) THEN 2 * r.Q ELSE 0
Prices(r) == r.T + Nodes(r) * r.T + Aads(r) + Quotes(r) * r.T
Solves(r) == Quotes(r) + Replays(r)
WallMillis(r) ==
  (1 + Nodes(r) + Aads(r) + Quotes(r) + Replays(r)) * Cost.context + Prices(r) * Cost.price
    + Solves(r) * Cost.solve + Aads(r) * Cost.aad

Work(r) ==
  [T |-> r.T, P |-> r.P, Q |-> r.Q, price_evaluations |-> Prices(r),
   calibration_solves |-> Solves(r), aad_recordings |-> Aads(r),
   estimated_wall_millis |-> WallMillis(r)]

WorkFits(r) == \A field \in Fields : Work(r)[field] <= Limits[field]
=============================================================================

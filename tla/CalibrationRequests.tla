------------------------ MODULE CalibrationRequests -------------------------
(***************************************************************************)
(* What a calibration request must satisfy before a run is stored, and     *)
(* what the run's result must satisfy before it can be: the validators of  *)
(* backend/app/schemas/calibrations.py, the admission checks of            *)
(* services/calibrations.py and the planning and projection functions of   *)
(* services/dal_gateway.py.                                                *)
(*                                                                         *)
(* A request is a list of curve declarations: one of group "single", one   *)
(* of group "basis" (staged), or the domestic and foreign ones followed by *)
(* the basis (joint).  Dates are numbers and the knots of a declaration a  *)
(* set of dates, as the schemas demand them strictly increasing; a seed is *)
(* the length of the submitted initial guess.                              *)
(***************************************************************************)
EXTENDS Integers, Sequences, FiniteSets, Functions, SequencesExt

CONSTANTS
  Today,         \* today, the date of valuation_time and the anchor of every curve
  MaxStorage,    \* the limit of 100 storage nodes of a curve
  MaxDimension,  \* the limit of 100 rows or columns of a matrix in a response
  MaxJointFree,  \* the limit of 200 free parameters of a joint calibration
  MaxInstruments,\* the limit of 100 instruments of a request
  MaxCells       \* the matrix cells that MAX_RESPONSE_BYTES leaves room for

ASSUME RequestLimitsAssumption ==
  /\ {Today, MaxStorage, MaxDimension, MaxJointFree, MaxInstruments, MaxCells} \subseteq Nat
  /\ MaxStorage <= MaxDimension /\ MaxJointFree <= 2 * MaxDimension

(* The kinds of instruments, in the order of their native names.           *)
NameRank == [BASIS_SWAP |-> 1, XCCY_SWAP |-> 2, DEPOSIT |-> 3, FRA |-> 4, FUTURE |-> 5,
             OIS_SWAP |-> 6, SWAP |-> 7]
Policies == {"INPUT", "INSTRUMENTS", "AUGMENTED"}
Components == [PIECEWISE_CONSTANT_FWD |-> {"right_forward"},
               PIECEWISE_LINEAR_FWD |-> {"left_forward", "right_forward"},
               ZERO_RATE |-> {"zero_rate"}, LOG_DISCOUNT |-> {"log_discount_factor"}]
SchemeMinimum == [LOG_LINEAR |-> 2, LOG_CUBIC_NATURAL |-> 3, MIXED |-> 4, NONE |-> 1]
Anchored(d) == d.param \in {"ZERO_RATE", "LOG_DISCOUNT"}

Latest(dates) == CHOOSE x \in dates : \A y \in dates : y <= x
Maturities(d) == {d.instruments[i].maturity : i \in DOMAIN d.instruments}
Starts(d) == {d.instruments[i].start : i \in DOMAIN d.instruments}
InstrumentCount(r) ==
  Cardinality(UNION {{i} \X DOMAIN r.decls[i].instruments : i \in DOMAIN r.decls})

(* What the fields of the request models admit before any validator runs.  *)
(* The basis of a staged request has no parameterization of its own.       *)
Instrument ==
  [start : Int, maturity : Int, kind : DOMAIN NameRank, current : BOOLEAN]
IsDeclaration(d) ==
  /\ d.group \in {"single", "domestic", "foreign", "basis"} /\ d.discount \in BOOLEAN
  /\ d.param \in DOMAIN Components /\ d.scheme \in DOMAIN SchemeMinimum
  /\ d.knots \in SUBSET Int /\ IsFiniteSet(d.knots)
  /\ d.instruments \in Seq(Instrument) /\ d.seed \in Nat
IsRequest(r) ==
  /\ r.kind \in {"single", "xccy_staged", "xccy_joint"} /\ r.policy \in Policies
  /\ r.mode \in {"EXACT", "APPROXIMATE"} /\ r.include \subseteq {"jacobian", "inverse"}
  /\ r.decls \in Seq(Range(r.decls)) /\ r.decls # <<>>
  /\ \A i \in DOMAIN r.decls : IsDeclaration(r.decls[i])
  /\ r.kind # "xccy_joint" => Len(r.decls) = 1
  /\ r.kind = "xccy_staged" => r.decls[1].param = "PIECEWISE_CONSTANT_FWD"
-----------------------------------------------------------------------------
(* The schemas.                                                            *)

DeclarationValid(d) ==
  /\ Anchored(d) <=> d.scheme # "NONE"
  /\ Cardinality(d.knots) <= MaxStorage
  /\ d.instruments # <<>>
  /\ \A i \in DOMAIN d.instruments : d.instruments[i].start < d.instruments[i].maturity

SingleKnotsValid(d, policy) ==
  d.knots # {} =>
    LET anchor == IF d.param = "LOG_DISCOUNT" /\ policy # "INSTRUMENTS" THEN {Today} ELSE {}
    IN anchor \subseteq d.knots /\ \A k \in d.knots \ anchor : k > Today

(* A joint request may have knots on or before its valuation date.         *)
JointGroupValid(r, group) ==
  LET own == {i \in DOMAIN r.decls : r.decls[i].group = group}
  IN  /\ \E i \in own : r.decls[i].discount
      /\ \A i, k \in own : i # k =>
           <<r.decls[i].discount, r.decls[i].slot>> # <<r.decls[k].discount, r.decls[k].slot>>

Valid(r) ==
  /\ \A i \in DOMAIN r.decls : DeclarationValid(r.decls[i])
  /\ InstrumentCount(r) <= MaxInstruments
  /\ r.kind = "single" => SingleKnotsValid(r.decls[1], r.policy)
  /\ r.kind = "xccy_staged" =>
       r.decls[1].knots # {} /\ \A k \in r.decls[1].knots : k > Today
  /\ r.kind = "xccy_joint" =>
       /\ \A i \in DOMAIN r.decls : r.decls[i].knots # {}
       /\ JointGroupValid(r, "domestic") /\ JointGroupValid(r, "foreign")
-----------------------------------------------------------------------------
(* Planning: the nodes a declaration resolves to, what is stored and what  *)
(* the solver is free to move.                                             *)

Candidates(d, policy) ==
  (IF policy \in {"INPUT", "AUGMENTED"} THEN d.knots ELSE {})
    \cup IF policy \in {"INSTRUMENTS", "AUGMENTED"} THEN Starts(d) \cup Maturities(d) ELSE {}

(* Only a single-curve request has a knot policy: dates that are not after *)
(* today are filtered out.  The knots of the others are taken as submitted.*)
Resolved(r, d) ==
  IF r.kind = "single" THEN {x \in Candidates(d, r.policy) : x > Today} ELSE d.knots

StorageCount(r, d) == Cardinality(Resolved(r, d)) + IF Anchored(d) THEN 1 ELSE 0
FreeParameters(r, d) == Resolved(r, d) \X Components[d.param]
FreeCount(r, d) == Cardinality(FreeParameters(r, d))

(* The solver's parameter vector: the blocks of the declarations in turn.  *)
ParameterAxis(r) ==
  UNION {{i} \X FreeParameters(r, r.decls[i]) : i \in DOMAIN r.decls}
TotalFree(r) == Cardinality(ParameterAxis(r))
-----------------------------------------------------------------------------
(* Admission.                                                              *)

PolicyHolds(d, policy) ==
  IF policy = "INSTRUMENTS" THEN d.knots = {} /\ d.param # "LOG_DISCOUNT" ELSE d.knots # {}

SchemeHolds(r, d) == Anchored(d) => StorageCount(r, d) >= SchemeMinimum[d.scheme]

(* Mutant of SinglePlanHolds: the scheme's node count is not looked at.    *)
SinglePlanCovers(r, d) ==
  /\ StorageCount(r, d) \in 1..MaxStorage
  /\ LET storage == Resolved(r, d) \cup IF Anchored(d) THEN {Today} ELSE {}
     IN  Latest(storage) >= Latest(Maturities(d))

SinglePlanHolds(r, d) ==
  /\ StorageCount(r, d) \in 1..MaxStorage
  /\ SchemeHolds(r, d)
  /\ LET storage == Resolved(r, d) \cup IF Anchored(d) THEN {Today} ELSE {}
     IN  Latest(storage) >= Latest(Maturities(d))

JointPlanHolds(r) ==
  /\ \A i \in DOMAIN r.decls :
       StorageCount(r, r.decls[i]) <= MaxStorage /\ SchemeHolds(r, r.decls[i])
  /\ TotalFree(r) <= MaxJointFree

SeedHolds(r, d) == d.seed \in {0, FreeCount(r, d)}

(* instrument_order_key, shared by the admission and the gateway.          *)
OrderKey(i) == <<i.maturity, i.start, i.kind>>
Unambiguous(d) ==
  \A i, k \in DOMAIN d.instruments :
    i # k => OrderKey(d.instruments[i]) # OrderKey(d.instruments[k])

(* The native eligibility report, asked for in ANALYTIC mode only: the one *)
(* reason it is known to give for every kind is a stale trade date.        *)
NativeEligible(r) ==
  \A i \in DOMAIN r.decls : \A k \in DOMAIN r.decls[i].instruments :
    r.decls[i].instruments[k].current

(* The native library asks for the fixings of basis swaps already running; *)
(* an FX fixing may be supplied under its reciprocal's name.               *)
RequiredFixings(r) ==
  IF r.kind # "single" /\ \E x \in Starts(Last(r.decls)) : x < Today
  THEN {"rate", "fx"} ELSE {}
FixingNames(f) == IF f = "fx" THEN {"fx", "fx_reciprocal"} ELSE {f}
FixingsHold(r) == \A f \in RequiredFixings(r) : FixingNames(f) \cap r.fixings # {}

SystemHolds(r) ==
  LET residuals == InstrumentCount(r)
      largest == IF residuals > TotalFree(r) THEN residuals ELSE TotalFree(r)
      matrices == Cardinality({x \in {"jacobian", "inverse"} : x \in r.include})
  IN  /\ r.mode = "EXACT" => residuals <= TotalFree(r)
      /\ matrices > 0 => largest <= MaxDimension
      /\ matrices * residuals * TotalFree(r) <= MaxCells

Admits(r) ==
  /\ r.conventions
  /\ r.kind = "single" => PolicyHolds(r.decls[1], r.policy) /\ SinglePlanHolds(r, r.decls[1])
  /\ r.kind = "xccy_joint" => JointPlanHolds(r)
  /\ \A i \in DOMAIN r.decls : SeedHolds(r, r.decls[i]) /\ Unambiguous(r.decls[i])
  /\ r.jacobian_mode = "ANALYTIC" => NativeEligible(r)
  /\ FixingsHold(r)
  /\ SystemHolds(r)
-----------------------------------------------------------------------------
(* Projection of a native result.                                          *)

Increasing(s) == \A i \in 1..(Len(s) - 1) : s[i] < s[i + 1]

(* The node dates of a curve in the order the native getters return them.  *)
InOrder(dates) == CHOOSE s \in [1..Cardinality(dates) -> dates] : Increasing(s)
NodeDates(r, d) ==
  IF d.param = "LOG_DISCOUNT" THEN <<Today>> \o InOrder(Resolved(r, d)) ELSE InOrder(Resolved(r, d))

(* The reconstruction DTO of a declaration's curve.                        *)
CurveProjects(r, d) ==
  LET nodes == NodeDates(r, d)
  IN  /\ Increasing(nodes)
      /\ Len(nodes) \in 1..MaxStorage
      /\ d.param = "ZERO_RATE" => Len(nodes) < MaxStorage /\ nodes[1] > Today
      /\ d.param = "LOG_DISCOUNT" => Len(nodes) >= 2

(* A matrix is returned when asked for and defined for the solve.          *)
Available(r) ==
  {x \in r.include : r.mode = "EXACT" /\ (x = "jacobian" => r.jacobian_mode = "ANALYTIC")}

(* The axis of the free parameters is rebuilt from the declarations.       *)
ResultProjects(r) ==
  /\ \A i \in DOMAIN r.decls : CurveProjects(r, r.decls[i])
  /\ TotalFree(r) <= 2 * MaxDimension
  /\ Available(r) # {} =>
       InstrumentCount(r) \in 1..MaxDimension /\ TotalFree(r) \in 1..MaxDimension

(* The orders of its instruments in which a solver that sorts by the       *)
(* ordering key may return its residuals: any among equal keys.            *)
KeyBelow(a, b) ==
  \/ a.maturity < b.maturity
  \/ a.maturity = b.maturity /\ a.start < b.start
  \/ a.maturity = b.maturity /\ a.start = b.start /\ NameRank[a.kind] < NameRank[b.kind]
SolverOrders(d) ==
  {p \in [DOMAIN d.instruments -> DOMAIN d.instruments] :
     /\ IsInjective(p)
     /\ \A i \in DOMAIN p : \A k \in DOMAIN p :
          i < k => ~KeyBelow(d.instruments[p[k]], d.instruments[p[i]])}

(* canonical_instrument_order: Python's sort keeps equal keys in place.    *)
CanonicalOrder(d) ==
  CHOOSE p \in SolverOrders(d) :
    \A i \in DOMAIN p : \A k \in DOMAIN p :
      i < k /\ p[k] < p[i] => OrderKey(d.instruments[p[k]]) # OrderKey(d.instruments[p[i]])
=============================================================================

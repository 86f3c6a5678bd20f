--------------------------- MODULE MCCalibrations ---------------------------
(* A first request is any of MCRequests that the schemas take; the others  *)
(* are Companions.                                                         *)
EXTENDS Calibrations

I(start, maturity, kind) ==
  [start |-> start, maturity |-> maturity, kind |-> kind, current |-> TRUE]
InstrumentLists ==
  { <<I(1, 2, "SWAP")>>, <<I(0, 1, "SWAP")>>, <<I(1, 3, "SWAP"), I(1, 2, "DEPOSIT")>>,
    <<I(1, 2, "SWAP"), I(1, 2, "SWAP")>>,
    << [I(1, 3, "SWAP") EXCEPT !.current = FALSE], I(2, 3, "SWAP") >> }

D(group, discount, param, scheme, knots, instruments, seed) ==
  [group |-> group, discount |-> discount, slot |-> "slot", param |-> param, scheme |-> scheme,
   knots |-> knots, instruments |-> instruments, seed |-> seed]
R(kind, policy, decls, mode, jacobian_mode, include) ==
  [kind |-> kind, policy |-> policy, decls |-> decls, mode |-> mode,
   jacobian_mode |-> jacobian_mode, include |-> include, conventions |-> TRUE,
   fixings |-> {"fx_reciprocal"}, base |-> NoRun, discount |-> NoRun]

Solves == { <<"EXACT", "ANALYTIC", {"jacobian", "inverse"}>>, <<"APPROXIMATE", "BUMPED", {}>> }
Shapes == { <<"PIECEWISE_CONSTANT_FWD", "NONE">>, <<"PIECEWISE_LINEAR_FWD", "NONE">>,
            <<"ZERO_RATE", "LOG_LINEAR">>, <<"LOG_DISCOUNT", "LOG_LINEAR">>,
            <<"LOG_DISCOUNT", "LOG_CUBIC_NATURAL">> }

Singles ==
  {R("single", policy, <<D("single", TRUE, shape[1], shape[2], knots, instruments, seed)>>,
     solve[1], solve[2], solve[3]) :
     policy \in Policies, shape \in Shapes,
     knots \in {{}, {1}, {2}, {3}, {1, 2}, {2, 3}, {1, 2, 3}, {2, 3, 4}},
     instruments \in InstrumentLists, seed \in {0, 2}, solve \in Solves}

Staged ==
  {R("xccy_staged", "INPUT",
     <<D("basis", FALSE, "PIECEWISE_CONSTANT_FWD", "NONE", knots, instruments, 0)>>,
     "EXACT", jacobian_mode, {"jacobian"}) :
     knots \in {{2}, {2, 3}, {2, 3, 4}}, instruments \in InstrumentLists,
     jacobian_mode \in {"ANALYTIC", "BUMPED"}}

JointDeclarations(group) ==
  {D(group, group # "basis", shape[1], shape[2], knots, <<I(1, 2, "SWAP")>>, 0) :
     shape \in Shapes \ { <<"LOG_DISCOUNT", "LOG_CUBIC_NATURAL">> },
     knots \in {{0, 2}, {2}, {2, 3}}}
Joints ==
  {R("xccy_joint", "INPUT",
     << [d EXCEPT !.group = "domestic", !.discount = TRUE],
        [e EXCEPT !.group = "foreign", !.discount = TRUE], b >>, "EXACT", "BUMPED", {}) :
     d \in JointDeclarations("basis"), e \in {x \in JointDeclarations("basis") : x.knots = {2}},
     b \in {x \in JointDeclarations("basis") : x.knots = {2, 3}}}

Plain(base) ==
  [R("single", "INPUT",
     <<D("single", TRUE, "PIECEWISE_CONSTANT_FWD", "NONE", {2}, <<I(1, 2, "SWAP")>>, 0)>>,
     "EXACT", "ANALYTIC", {"jacobian"}) EXCEPT !.base = base]
MCCompanions ==
  { Plain(1), Plain(2),
    [R("xccy_staged", "INPUT",
       <<D("basis", FALSE, "PIECEWISE_CONSTANT_FWD", "NONE", {2}, <<I(1, 2, "SWAP")>>, 0)>>,
       "EXACT", "ANALYTIC", {"inverse"}) EXCEPT !.discount = 1] }
Others ==
  { [Plain(NoRun) EXCEPT !.conventions = FALSE] }
    \cup {[r EXCEPT !.fixings = {"rate", "fx"}] :
            r \in {x \in Staged : x.decls[1].instruments = <<I(0, 1, "SWAP")>>}}
    \cup {[r EXCEPT !.decls =
              << [r.decls[1] EXCEPT !.seed = 1], [r.decls[1] EXCEPT !.discount = FALSE],
                 r.decls[2], r.decls[3] >>] : r \in Joints}
MCRequests == Singles \cup Staged \cup Joints \cup Others \cup MCCompanions
=============================================================================

----------------------------- MODULE CurveRisk ------------------------------
(***************************************************************************)
(* Risk runs: backend/app/services/curve_risk.py with the risk, matrix and *)
(* fixing methods of the stores.  create_risk_run runs in a thread of its  *)
(* own (asyncio.to_thread), _execute_risk_run on the threads of the shared *)
(* executor (CurveLabJobs); the request is admitted against rows that are  *)
(* never rewritten, so its admission and its reservation are one step.     *)
(*                                                                         *)
(* A run makes a fixed number of native calls of each kind, one kind after *)
(* the other, with a look at the deadline before each and after each that  *)
(* returns (a bump of a quote, which solves and then prices, is one call   *)
(* here; the code looks between the two as well).  Prices and sensitivities are abstracted to   *)
(* whether they exist and whether native AAD agrees with the central bumps.*)
(***************************************************************************)
EXTENDS CurveLabJobs, RiskWork

CONSTANTS
  Workloads,   \* what the clients may ask for: functions from the jobs to requests or None
  MaxCrashes,  \* bound: the server stops at most this often
  MaxFaults,   \* bound: at most this many store or executor calls raise
  None

ASSUME RiskAssumption ==
  /\ {MaxCrashes, MaxFaults} \subseteq Nat
  /\ \A w \in Workloads :
       /\ DOMAIN w = Jobs
       /\ \A j \in Jobs : w[j] = None \/ (Countable(w[j]) /\ w[j].C \in 0 .. w[j].P)

VARIABLES
  request,  \* what each job asks for; it is kept in the row and never changes
  snapshot, \* the fixing snapshot: what it covers, and what became of its audit event
  row,      \* curve_risk_runs
  matrices, \* curve_matrix_blobs
  audit,    \* the jobs with a RISK_RUN_SUCCEEDED event
  hpc,      \* request threads: next step
  wpc,      \* pool threads: next step
  todo,     \* pool threads: how many native calls of each kind remain
  got,      \* what the native calls have returned
  spent,    \* the prices, solves and AAD recordings they took
  expired,  \* has the job's persisted deadline passed?
  up, crashes, faults

tableVars == <<snapshot, row, matrices, audit>>
threadVars == <<wpc, todo, got, spent>>
envVars == <<request, expired, up, crashes, faults>>
vars == <<jobVars, tableVars, hpc, threadVars, envVars>>

InFlight == {"QUEUED", "RUNNING"}
Terminal == {"SUCCEEDED", "FAILED", "TIMED_OUT"}

NoRow == [state |-> "ABSENT", dv01 |-> FALSE]
(* priced: every trade has a price; aad: per trade, whether there is a     *)
(* native gradient and whether it agrees with the central one; lost: the   *)
(* trades without a central gradient.                                      *)
NothingYet == [priced |-> FALSE, aad |-> <<>>, lost |-> {}, jacobian |-> TRUE,
               parallel |-> FALSE, keys |-> TRUE]

(* The kinds of native calls, in the order in which a run makes them.      *)
Calls == {"base", "aad", "node", "jacobian", "parallel", "key"}
Turn == [base |-> 1, aad |-> 2, node |-> 3, jacobian |-> 4, parallel |-> 5, key |-> 6]
NoCalls == [call \in Calls |-> 0]

Init ==
  /\ JobsInit
  /\ request \in Workloads
  /\ snapshot = [covers |-> "nothing", event |-> "none"]
  /\ row = [j \in Jobs |-> NoRow]
  /\ matrices = [j \in Jobs |-> {}]
  /\ audit = {}
  /\ hpc = [j \in Jobs |-> "none"]
  /\ wpc = [j \in Jobs |-> "none"]
  /\ todo = [j \in Jobs |-> NoCalls]
  /\ got = [j \in Jobs |-> NothingYet]
  /\ spent = [j \in Jobs |-> [prices |-> 0, solves |-> 0, aads |-> 0]]
  /\ expired = [j \in Jobs |-> FALSE]
  /\ up = TRUE /\ crashes = 0 /\ faults = 0

Fault == faults < MaxFaults /\ faults' = faults + 1 /\ UNCHANGED <<request, expired, up, crashes>>
Handler(j, step) == hpc' = [hpc EXCEPT ![j] = step]
Thread(j, step) == wpc' = [wpc EXCEPT ![j] = step]
-----------------------------------------------------------------------------
(* create_fixing_snapshot: a row that is never written again (409); the    *)
(* requests below are refused without it.                                  *)
CreateFixingSnapshot(covers) ==
  /\ snapshot.covers = "nothing"
  /\ snapshot' = [covers |-> covers, event |-> "due"]
  /\ UNCHANGED <<jobVars, row, matrices, audit, hpc, threadVars, envVars>>

(* Its FIXING_SNAPSHOT_CREATED event, a store call of its own.             *)
AuditSnapshot ==
  /\ snapshot.event = "due"
  /\ \/ snapshot' = [snapshot EXCEPT !.event = "written"] /\ UNCHANGED envVars
     \/ snapshot' = [snapshot EXCEPT !.event = "lost"] /\ Fault
  /\ UNCHANGED <<jobVars, row, matrices, audit, hpc, threadVars>>

(* _check_import_lineage.                                                  *)
LineageHolds(r) == r.source = "IMPORT" => ~NeedsQuotes(r) /\ ~NeedsJacobian(r)

(* _validate_fixing_compatibility: "part" lacks a fixing the trades need,  *)
(* or has it in other units.                                               *)
FixingsHold(r) == r.historical => snapshot.covers = "all"

(* _check_method_fallbacks.                                                *)
MethodsHold(r) ==
  /\ NeedsNodes(r) /\ r.aad_fallback = "FORBID" => r.eligible = r.T
  /\ NeedsJacobian(r) => r.jacobian_replay_fallback = "ALLOW"

(* _admit_risk_run.  reconstructs: the version carries its document, and   *)
(* the published manifest still names the dependencies by their contents.  *)
Admits(r) ==
  /\ snapshot.covers # "nothing"
  /\ r.reconstructs
  /\ LineageHolds(r) /\ FixingsHold(r) /\ MethodsHold(r)
  /\ AdmitsWork(r)

(* A refused request and one that finds no permit (429) change nothing.    *)
Receive(j) ==
  /\ hpc[j] = "none"
  /\ request[j] # None
  /\ Admits(request[j])
  /\ Reserve(j)
  /\ Handler(j, "persist")
  /\ UNCHANGED <<tableVars, threadVars, envVars>>

Persist(j) ==
  /\ hpc[j] = "persist"
  /\ row' = [row EXCEPT ![j].state = "QUEUED"]
  /\ Handler(j, "submit")
  /\ UNCHANGED <<jobVars, snapshot, matrices, audit, threadVars, envVars>>

SubmitRun(j) ==
  /\ hpc[j] = "submit"
  /\ Submit(j)
  /\ Handler(j, "answered")
  /\ UNCHANGED <<tableVars, threadVars, envVars>>

PersistRaises(j) ==
  /\ hpc[j] = "persist"
  /\ Fault
  /\ Handler(j, "cancel")
  /\ UNCHANGED <<jobVars, tableVars, threadVars>>

SubmitRunRaises(j) ==
  /\ hpc[j] = "submit"
  /\ Fault
  /\ SubmitRaises(j)
  /\ Handler(j, "cancel")
  /\ UNCHANGED <<tableVars, threadVars>>

CancelRun(j) ==
  /\ hpc[j] = "cancel"
  /\ Cancel(j)
  /\ Handler(j, "answered")
  /\ UNCHANGED <<tableVars, threadVars, envVars>>
-----------------------------------------------------------------------------
(* _execute_risk_run.                                                      *)

(* _curve_lab_aad_rows: one native call for each trade and each component  *)
(* of the parameter axis, whether or not the trade is eligible.            *)
AadCalls(r) == IF NeedsNodes(r) THEN r.T * r.C ELSE 0

CallsFor(r) ==
  [base |-> 1,
   aad |-> AadCalls(r),
   node |-> IF NeedsNodes(r) THEN 2 * r.P ELSE 0,
   jacobian |-> IF NeedsJacobian(r) THEN 2 * r.Q ELSE 0,
   parallel |-> IF NeedsQuotes(r) THEN 1 ELSE 0,
   key |-> IF "KEY_RATE_DV01" \in r.measures THEN r.Q ELSE 0]

Trades(j) == 1 .. request[j].T

(* publish_curve_lab_risk_run: the row and all its matrices, replaced in   *)
(* one transaction, whatever state the row is in.                          *)
Publish(j, state, blobs, dv01) ==
  /\ row' = [row EXCEPT ![j].state = state, ![j].dv01 = dv01]
  /\ matrices' = [matrices EXCEPT ![j] = blobs]

(* Mutant of Publish: matrices are only ever added.                        *)
PublishMore(j, state, blobs, dv01) ==
  /\ row' = [row EXCEPT ![j].state = state, ![j].dv01 = dv01]
  /\ matrices' = [matrices EXCEPT ![j] = @ \cup blobs]

TakeRun(j) ==
  /\ Take(j)
  /\ Thread(j, "begin")
  /\ UNCHANGED <<tableVars, hpc, todo, got, spent, envVars>>

Begin(j) ==
  /\ wpc[j] = "begin"
  /\ IF expired[j]
     THEN Publish(j, "TIMED_OUT", {}, FALSE) /\ Thread(j, "exit") /\ UNCHANGED todo
     ELSE /\ Publish(j, "RUNNING", {}, FALSE)
          /\ todo' = [todo EXCEPT ![j] = CallsFor(request[j])]
          /\ Thread(j, "native")
  /\ UNCHANGED <<jobVars, snapshot, audit, hpc, got, spent, envVars>>

Priced(call) == call \in {"base", "node", "parallel", "key"}
Solved(call) == call \in {"jacobian", "parallel", "key"}

Spend(j, call) ==
  spent' = [spent EXCEPT ![j] = [prices |-> @.prices + IF Priced(call) THEN request[j].T ELSE 0,
                                 solves |-> @.solves + IF Solved(call) THEN 1 ELSE 0,
                                 aads |-> @.aads + IF call = "aad" THEN 1 ELSE 0]]

(* The call that is due: none of an earlier turn is left.                  *)
Due(j, call) ==
  todo[j][call] > 0 /\ \A c \in Calls : Turn[c] < Turn[call] => todo[j][c] = 0

AllMade(j) == todo[j] = NoCalls

(* A look at the deadline before a call: it ends the run, in the middle of *)
(* any loop, or lets the call begin.                                       *)
Look(j) ==
  /\ wpc[j] = "native" /\ ~AllMade(j)
  /\ Thread(j, IF expired[j] THEN "timeout" ELSE "calling")
  /\ UNCHANGED <<jobVars, tableVars, hpc, todo, got, spent, envVars>>

(* price_curve_lab_trades or curve_lab_parameter_values has returned.      *)
Returned(j, call) ==
  \/ /\ call = "base"
     /\ \E priced \in BOOLEAN :
          got' = [got EXCEPT ![j].priced = priced \/ Trades(j) = {},
                             ![j].aad = [i \in Trades(j) |-> "none"]]
  \/ /\ call = "aad" /\ todo[j].aad > 1
     /\ UNCHANGED got
  \/ /\ call = "aad" /\ todo[j].aad = 1
     /\ \E aad \in [Trades(j) -> {"none", "agrees", "differs"}] :
          got' = [got EXCEPT ![j].aad = aad]
  \/ /\ call = "node"
     /\ \E unpriced \in SUBSET Trades(j) : got' = [got EXCEPT ![j].lost = @ \cup unpriced]
  \/ /\ call = "jacobian"
     /\ UNCHANGED got
  \/ /\ call = "parallel"
     /\ \E priced \in BOOLEAN :
          got' = [got EXCEPT ![j].parallel = got[j].priced /\ (priced \/ Trades(j) = {})]
  \/ /\ call = "key"
     /\ \E priced \in BOOLEAN :
          got' = [got EXCEPT ![j].keys = @ /\ got[j].priced /\ (priced \/ Trades(j) = {})]

(* A look follows each call that returns.                                  *)
NativeCall(j) ==
  /\ wpc[j] = "calling"
  /\ \E call \in Calls :
       /\ Due(j, call)
       /\ Returned(j, call)
       /\ Spend(j, call)
       /\ todo' = [todo EXCEPT ![j][call] = @ - 1]
  /\ Thread(j, IF expired[j] THEN "timeout" ELSE "native")
  /\ UNCHANGED <<jobVars, tableVars, hpc, envVars>>

(* A native call raises.  In the node and Jacobian layers that is an       *)
(* outcome: the layer is given up, without a look at the deadline.         *)
(* Elsewhere it ends the run.                                              *)
NativeRaises(j) ==
  /\ wpc[j] = "calling"
  /\ \E call \in Calls :
       /\ Due(j, call)
       /\ Spend(j, call)
       /\ todo' = [todo EXCEPT ![j][call] = 0]
       /\ \/ /\ call = "node"
             /\ got' = [got EXCEPT ![j].lost = Trades(j)]
             /\ Thread(j, "native")
          \/ /\ call = "jacobian"
             /\ got' = [got EXCEPT ![j].jacobian = FALSE]
             /\ Thread(j, "native")
          \/ /\ call \in {"base", "aad", "parallel", "key"}
             /\ Thread(j, "failed")
             /\ UNCHANGED got
  /\ UNCHANGED <<jobVars, tableVars, hpc, envVars>>
-----------------------------------------------------------------------------
(* The matrices of a finished run.                                         *)

(* _aad_parity.                                                            *)
Parity(j, i) ==
  IF got[j].aad[i] = "none" \/ i \in got[j].lost THEN "UNAVAILABLE"
  ELSE IF got[j].aad[i] = "agrees" THEN "PASSED" ELSE "FAILED"

(* Mutant of TradeMethod: without a central gradient to compare it with,   *)
(* the native one is taken on trust.                                       *)
TradeMethodTrusting(j, i) ==
  IF got[j].aad[i] # "none" /\ Parity(j, i) # "FAILED" THEN "NATIVE_AAD"
  ELSE IF i \notin got[j].lost /\ request[j].aad_fallback = "ALLOW"
  THEN IF got[j].aad[i] # "none" THEN "CENTRAL_PARAMETER_BUMP_AFTER_AAD_PARITY_FAILURE"
       ELSE "CENTRAL_NATIVE_PARAMETER_BUMP"
  ELSE IF got[j].aad[i] # "none" THEN "FAILED_AAD_PARITY" ELSE "FAILED_AAD_EXECUTION"

(* _select_trade_to_node_rows.                                             *)
TradeMethod(j, i) ==
  IF got[j].aad[i] # "none" /\ Parity(j, i) = "PASSED" THEN "NATIVE_AAD"
  ELSE IF i \notin got[j].lost /\ request[j].aad_fallback = "ALLOW"
  THEN IF got[j].aad[i] # "none" THEN "CENTRAL_PARAMETER_BUMP_AFTER_AAD_PARITY_FAILURE"
       ELSE "CENTRAL_NATIVE_PARAMETER_BUMP"
  ELSE IF got[j].aad[i] # "none" THEN "FAILED_AAD_PARITY" ELSE "FAILED_AAD_EXECUTION"

Failures == {"FAILED_AAD_PARITY", "FAILED_AAD_EXECUTION"}

Methods(j) == {TradeMethod(j, i) : i \in Trades(j)}

(* _trade_to_node_matrix_method.                                           *)
MatrixMethod(j) ==
  CASE Methods(j) = {"NATIVE_AAD"} -> "NATIVE_AAD_PARITY_VERIFIED"
    [] Methods(j) = {"CENTRAL_PARAMETER_BUMP_AFTER_AAD_PARITY_FAILURE"} ->
         "CENTRAL_PARAMETER_BUMP_AFTER_AAD_PARITY_FAILURE"
    [] OTHER -> "NATIVE_AAD_WITH_CENTRAL_FALLBACK"

NodesAvailable(j) == Methods(j) \cap Failures = {}

(* rows: the method of each trade, in the trade-to-node matrix only.       *)
Matrix(id, available, method, rows) ==
  [matrix_id |-> id, available |-> available, method |-> method, rows |-> rows]

MatricesOf(j) ==
  LET r == request[j] IN
    {m \in {Matrix("trade-to-node", NodesAvailable(j),
                   IF NodesAvailable(j) THEN MatrixMethod(j) ELSE "CENTRAL_NATIVE_PARAMETER_BUMP",
                   [i \in Trades(j) |-> TradeMethod(j, i)])} :
       NeedsNodes(r)}
    \cup {m \in {Matrix("calibration-jacobian", got[j].jacobian, "CENTRAL_FULL_RECALIBRATION", <<>>)} :
            NeedsJacobian(r)}
    \cup {m \in {Matrix("composed-quote-diagnostic", NodesAvailable(j) /\ got[j].jacobian,
                        "MATRIX_COMPOSITION", <<>>)} : "COMPOSED_QUOTE_DIAGNOSTIC" \in r.layers}
    \cup {m \in {Matrix("key-rate-dv01", got[j].keys /\ got[j].parallel, "FULL_RECALIBRATION", <<>>)} :
            "KEY_RATE_DV01" \in r.measures}

(* No look at the deadline stands between the last call and the result.    *)
Succeed(j) ==
  /\ wpc[j] = "native" /\ AllMade(j)
  /\ Thread(j, "publish")
  /\ UNCHANGED <<jobVars, tableVars, hpc, todo, got, spent, envVars>>

PublishRun(j) ==
  /\ wpc[j] = "publish"
  /\ Publish(j, "SUCCEEDED", MatricesOf(j), got[j].parallel)
  /\ Thread(j, "audit")
  /\ UNCHANGED <<jobVars, snapshot, audit, hpc, todo, got, spent, envVars>>

AuditRun(j) ==
  /\ wpc[j] = "audit"
  /\ audit' = audit \cup {j}
  /\ Thread(j, "exit")
  /\ UNCHANGED <<jobVars, snapshot, row, matrices, hpc, todo, got, spent, envVars>>

(* _execute_risk_run_guarded: the deadline and every other exception end   *)
(* in the row, even after the run was published.                           *)
TimeOut(j) ==
  /\ wpc[j] = "timeout"
  /\ Publish(j, "TIMED_OUT", {}, FALSE)
  /\ Thread(j, "exit")
  /\ UNCHANGED <<jobVars, snapshot, audit, hpc, todo, got, spent, envVars>>

FailRun(j) ==
  /\ wpc[j] = "failed"
  /\ Publish(j, "FAILED", {}, FALSE)
  /\ Thread(j, "exit")
  /\ UNCHANGED <<jobVars, snapshot, audit, hpc, todo, got, spent, envVars>>

(* A store call raises; in the except clauses of the guard the exception   *)
(* stays in the future.                                                    *)
WorkerRaises(j) ==
  /\ wpc[j] \in {"begin", "publish", "audit", "timeout", "failed"}
  /\ Fault
  /\ Thread(j, IF wpc[j] \in {"timeout", "failed"} THEN "exit" ELSE "failed")
  /\ UNCHANGED <<jobVars, tableVars, hpc, todo, got, spent>>

ExitRun(j) ==
  /\ wpc[j] = "exit"
  /\ Release(j)
  /\ Thread(j, "none")
  /\ todo' = [todo EXCEPT ![j] = NoCalls]
  /\ UNCHANGED <<tableVars, hpc, got, spent, envVars>>

RetireRun(j) ==
  /\ Retire(j)
  /\ UNCHANGED <<tableVars, hpc, threadVars, envVars>>
-----------------------------------------------------------------------------
Expire(j) ==
  /\ row[j].state \in InFlight
  /\ ~expired[j]
  /\ expired' = [expired EXCEPT ![j] = TRUE]
  /\ UNCHANGED <<jobVars, tableVars, hpc, threadVars, request, up, crashes, faults>>

Crash ==
  /\ up
  /\ crashes < MaxCrashes
  /\ up' = FALSE
  /\ crashes' = crashes + 1
  /\ permits' = Capacity
  /\ queue' = <<>>
  /\ resv' = [j \in Jobs |-> IF resv[j] = "none" THEN "none" ELSE "done"]
  /\ hpc' = [j \in Jobs |-> IF hpc[j] = "none" THEN "none" ELSE "answered"]
  /\ wpc' = [j \in Jobs |-> "none"]
  /\ todo' = [j \in Jobs |-> NoCalls]
  /\ snapshot' = [snapshot EXCEPT !.event = IF @ = "due" THEN "lost" ELSE @]
  /\ UNCHANGED <<row, matrices, audit, got, spent, request, expired, faults>>

(* Mutant of Restart: whatever has no audit event counts as in flight.     *)
RestartUnaudited ==
  /\ ~up
  /\ up' = TRUE
  /\ row' = [j \in Jobs |->
       IF row[j].state # "ABSENT" /\ j \notin audit
       THEN [row[j] EXCEPT !.state = IF expired[j] THEN "TIMED_OUT" ELSE "FAILED"] ELSE row[j]]
  /\ UNCHANGED <<jobVars, snapshot, matrices, audit, hpc, threadVars, request, expired,
                 crashes, faults>>

(* Mutant of Restart: only the runs that had started are swept.            *)
RestartStarted ==
  /\ ~up
  /\ up' = TRUE
  /\ row' = [j \in Jobs |->
       IF row[j].state = "RUNNING"
       THEN [row[j] EXCEPT !.state = IF expired[j] THEN "TIMED_OUT" ELSE "FAILED"] ELSE row[j]]
  /\ UNCHANGED <<jobVars, snapshot, matrices, audit, hpc, threadVars, request, expired,
                 crashes, faults>>

(* reconcile_curve_lab_inflight at the next start.                         *)
Restart ==
  /\ ~up
  /\ up' = TRUE
  /\ row' = [j \in Jobs |->
       IF row[j].state \in InFlight
       THEN [row[j] EXCEPT !.state = IF expired[j] THEN "TIMED_OUT" ELSE "FAILED"] ELSE row[j]]
  /\ UNCHANGED <<jobVars, snapshot, matrices, audit, hpc, threadVars, request, expired,
                 crashes, faults>>
-----------------------------------------------------------------------------
HandlerStep ==
  \/ \E covers \in {"all", "part"} : CreateFixingSnapshot(covers)
  \/ AuditSnapshot
  \/ \E j \in Jobs :
       Receive(j) \/ Persist(j) \/ PersistRaises(j) \/ SubmitRun(j) \/ SubmitRunRaises(j) \/ CancelRun(j)

RunStep(j) ==
  \/ TakeRun(j) \/ Begin(j) \/ Look(j) \/ NativeCall(j) \/ NativeRaises(j)
  \/ Succeed(j) \/ PublishRun(j) \/ AuditRun(j) \/ TimeOut(j) \/ FailRun(j)
  \/ WorkerRaises(j) \/ ExitRun(j) \/ RetireRun(j)

Next ==
  \/ up /\ HandlerStep
  \/ up /\ \E j \in Jobs : RunStep(j)
  \/ \E j \in Jobs : Expire(j)
  \/ Crash
  \/ Restart

Spec == Init /\ [][Next]_vars

(* Threads are scheduled, native calls come back, and a stopped server is  *)
(* started again.                                                          *)
Fairness ==
  /\ \A j \in Jobs : WF_vars(up /\ (SubmitRun(j) \/ CancelRun(j)))
  /\ \A j \in Jobs : WF_vars(up /\ RunStep(j))
  /\ WF_vars(Restart)

FairSpec == Spec /\ Fairness
-----------------------------------------------------------------------------
(* A run never takes more prices and recalibrations than the limits allow, *)
(* and one in which nothing failed takes exactly those it was admitted     *)
(* for: the estimator and the worker count the same loops in two places,   *)
(* and every layer and measure must appear in both.  Native AAD is where   *)
(* the two differ: the estimate has one recording, and one price, for each *)
(* eligible trade, the worker makes one call for each trade and component. *)
(* So AAD stays within the limits only if every trade is eligible and the  *)
(* axis has one component; otherwise all that holds is the worker's count. *)
WorkIsBounded ==
  \A j \in Jobs :
    LET r == request[j] IN
      /\ spent[j].solves <= Limits.calibration_solves
      /\ spent[j].prices <= Limits.price_evaluations
      /\ spent[j].aads # 0 =>
           /\ spent[j].aads <= r.T * r.C
           /\ r.eligible = r.T /\ r.C = 1 =>
                /\ spent[j].aads <= Limits.aad_recordings
                /\ spent[j].prices + spent[j].aads <= Limits.price_evaluations
      /\ row[j].state = "SUCCEEDED" /\ got[j].jacobian /\ got[j].lost = {} =>
           spent[j] = [prices |-> Prices(r) - Aads(r), solves |-> Solves(r), aads |-> AadCalls(r)]

(* Matrices exist only under a successful run, and then exactly those that *)
(* were asked for.  A matrix is available only if the calls behind it bore *)
(* it out, the composed one if and only if both factors are, key rates     *)
(* only beside the parallel shift they are reconciled with.  Each row of   *)
(* sensitivities names the method that gave it: native only where a        *)
(* central bump confirmed it, central only where there is one and the      *)
(* request allows it.  The matrix is labelled as verified AAD exactly if   *)
(* all its rows are, and with the fallback's own label only if all rows    *)
(* fell back; every other mix, one without any native row included, bears  *)
(* the label NATIVE_AAD_WITH_CENTRAL_FALLBACK.  The audit trail only tells *)
(* of runs that still stand.                                               *)
Ids(j) == {m.matrix_id : m \in matrices[j]}
Available(j) == {m.matrix_id : m \in {x \in matrices[j] : x.available}}

RowIsTruthful(j, method, i) ==
  /\ method \notin Failures => i \notin got[j].lost
  /\ method = "NATIVE_AAD" => got[j].aad[i] = "agrees"
  /\ method = "CENTRAL_PARAMETER_BUMP_AFTER_AAD_PARITY_FAILURE" =>
       got[j].aad[i] \notin {"none", "agrees"}
  /\ method = "CENTRAL_NATIVE_PARAMETER_BUMP" => got[j].aad[i] = "none"
  /\ request[j].aad_fallback = "FORBID" => method \in {"NATIVE_AAD"} \cup Failures

NodesAreTruthful(j, m) ==
  /\ DOMAIN m.rows = Trades(j)
  /\ \A i \in Trades(j) : RowIsTruthful(j, m.rows[i], i)
  /\ m.available <=> \A i \in Trades(j) : m.rows[i] \notin Failures
  /\ m.method = "NATIVE_AAD_PARITY_VERIFIED" <=>
       Trades(j) # {} /\ \A i \in Trades(j) : m.rows[i] = "NATIVE_AAD"
  /\ m.method = "CENTRAL_PARAMETER_BUMP_AFTER_AAD_PARITY_FAILURE" =>
       \A i \in Trades(j) : m.rows[i] = m.method

MatricesAreTruthful ==
  \A j \in Jobs :
    LET r == request[j] IN
      /\ matrices[j] # {} \/ row[j].dv01 \/ j \in audit => row[j].state = "SUCCEEDED"
      /\ row[j].state = "SUCCEEDED" =>
           /\ Cardinality(matrices[j]) = Cardinality(Ids(j))
           /\ "trade-to-node" \in Ids(j) <=> NeedsNodes(r)
           /\ "calibration-jacobian" \in Ids(j) <=> NeedsJacobian(r)
           /\ "key-rate-dv01" \in Ids(j) <=> "KEY_RATE_DV01" \in r.measures
           /\ "calibration-jacobian" \in Available(j) => got[j].jacobian
           /\ "key-rate-dv01" \in Available(j) => row[j].dv01 /\ got[j].keys
           /\ "composed-quote-diagnostic" \in Available(j) <=>
                /\ "COMPOSED_QUOTE_DIAGNOSTIC" \in r.layers
                /\ {"trade-to-node", "calibration-jacobian"} \subseteq Available(j)
           /\ \A m \in matrices[j] : m.matrix_id = "trade-to-node" => NodesAreTruthful(j, m)

(* A run that has ended stays as it ended, with one exception: a success   *)
(* that could not be audited is rewritten as a failure by its own thread.  *)
(* A restart, a deadline or a thread that comes late never reaches it.     *)
OutcomesStand ==
  [][\A j \in Jobs : row[j].state \in Terminal =>
       \/ row'[j] = row[j] /\ matrices'[j] = matrices[j]
       \/ /\ row[j].state = "SUCCEEDED" /\ row'[j].state = "FAILED"
          /\ j \notin audit' /\ wpc[j] = "failed"]_vars

(* A run that was accepted ends, unless a store or executor call fails.    *)
(* One that is late ends as timed out, before its first call or between    *)
(* two: no handler takes the exception for a failed layer, and no restart  *)
(* for a failure of the run.                                               *)
Late(j) == expired[j] /\ (row[j].state = "QUEUED" \/ (wpc[j] = "native" /\ ~AllMade(j)))

RiskRunsSettle ==
  \A j \in Jobs :
    /\ row[j].state = "QUEUED" ~> row[j].state \in Terminal \/ faults > 0
    /\ Late(j) ~> row[j].state = "TIMED_OUT" \/ faults > 0
=============================================================================

---------------------------- MODULE Calibrations ----------------------------
(***************************************************************************)
(* Curve calibrations: the endpoints and background workers of             *)
(* backend/app/services/calibrations.py, the calibration methods of the    *)
(* stores, and the lock of services/dal_gateway.py under which every       *)
(* native call runs.                                                       *)
(*                                                                         *)
(* Handlers and workers are coroutines of one event loop: they interleave  *)
(* only where they await a thread, and the thread awaits the gateway lock. *)
(* The callbacks under the lock write rows from that thread.  One action   *)
(* is one stretch up to and including a store or a native call.            *)
(***************************************************************************)
EXTENDS CalibrationRequests

CONSTANTS
  Runs,        \* the ids of calibration_runs, in the order they are drawn
  Seeded,      \* the runs that were completed before this history begins
  Requests,    \* what clients may submit
  Companions,  \* bound: the requests submitted beside or after another one
  MaxDepth,    \* the limit of 8 on the base chain of a curve
  MaxCrashes,  \* bound: the server stops at most this often
  MaxFaults,   \* bound: at most this many store calls raise
  NoRun, NoRequest, Other

ASSUME CalibrationAssumption ==
  /\ Runs \subseteq Nat /\ Seeded \subseteq Runs
  /\ {NoRun, Other} \cap Runs = {} /\ NoRun # Other
  /\ Companions \subseteq Requests /\ NoRequest \notin Requests
  /\ \A req \in Requests : IsRequest(req) /\ {req.base, req.discount} \subseteq Runs \cup {NoRun}
  /\ {MaxDepth, MaxCrashes, MaxFaults} \subseteq Nat /\ MaxDepth # 0

VARIABLES
  row,     \* calibration_runs
  curves,  \* curve_definitions of each run, in declaration order
  at,      \* each request's coroutine or thread: the next step
  order,   \* the order of the native residuals of a solved run
  holder,  \* who has the gateway lock
  loop,    \* the run whose worker occupies the event loop, between its store calls
  up, crashes, faults

tableVars == <<row, curves>>
taskVars == <<at, order, holder, loop>>
envVars == <<up, crashes, faults>>
vars == <<tableVars, taskVars, envVars>>

Phases == <<"absent", "queued", "solving", "serializing", "persisting", "finished">>
Rank(phase) == CHOOSE i \in DOMAIN Phases : Phases[i] = phase

NoRow == [status |-> "absent", phase |-> "absent", request |-> NoRequest, evidence |-> "none",
          error |-> "none", order |-> <<>>]
SeededRow == [NoRow EXCEPT !.status = "completed", !.phase = "finished"]
RowOf(req) ==
  [NoRow EXCEPT !.status = "running", !.phase = "queued", !.request = req,
                !.evidence = IF req.kind = "single" THEN "sound" ELSE "none",
                !.order = IF req.kind = "single" THEN CanonicalOrder(req.decls[1]) ELSE <<>>]

Init ==
  /\ row = [r \in Runs |-> IF r \in Seeded THEN SeededRow ELSE NoRow]
  /\ curves = [r \in Runs |->
       IF r \in Seeded THEN << [role |-> "discount", base |-> NoRun] >> ELSE <<>>]
  /\ at = [r \in Runs |-> [step |-> IF r \in Seeded THEN "done" ELSE "none", request |-> NoRequest]]
  /\ order = [r \in Runs |-> <<>>]
  /\ holder = NoRun /\ loop = NoRun
  /\ up = TRUE /\ crashes = 0 /\ faults = 0

Fault == faults < MaxFaults /\ faults' = faults + 1 /\ UNCHANGED <<up, crashes>>
Goto(r, step) == at' = [at EXCEPT ![r].step = step]
Turn(r) == loop \in {NoRun, r}
-----------------------------------------------------------------------------
(* get_curve_response: a curve, its base, the base of that, to a curve     *)
(* without one; and the references that lead through at most n of them.    *)
IsBaseChain(s) ==
  \A i \in DOMAIN s :
    /\ curves[s[i]] # <<>>
    /\ curves[s[i]][1].base = IF i = Len(s) THEN NoRun ELSE s[i + 1]
ReadsWithin(n, r) ==
  r # NoRun => \E k \in 1..n : \E s \in [1..k -> Runs] : s[1] = r /\ IsBaseChain(s)

(* _validate_reference_expectation: a referenced curve is readable, of a   *)
(* completed run and of the role asked for.                                *)
Referable(r) == ReadsWithin(MaxDepth, r) /\ row[r].status = "completed"
ReferencesHold(req) ==
  /\ req.base # NoRun => Referable(req.base)
  /\ req.discount # NoRun => Referable(req.discount) /\ curves[req.discount][1].role = "discount"

Drawn == {r \in Runs \ Seeded : at[r].step # "none"}
Offered ==
  IF Drawn = {} THEN Requests
  ELSE IF {at[r].request : r \in Drawn} \subseteq Companions THEN Companions ELSE {}

(* submit_*_calibration up to its first await: what the schemas reject, or *)
(* the references, leaves nothing behind.                                  *)
Submit(r, req) ==
  /\ up /\ loop = NoRun
  /\ at[r].step = "none" /\ \A o \in Runs : o < r => at[o].step # "none"
  /\ Valid(req) /\ ReferencesHold(req)
  /\ at' = [at EXCEPT ![r] = [step |-> "plan", request |-> req]]
  /\ UNCHANGED <<tableVars, order, holder, loop, envVars>>

Lock(r, from, to) ==
  /\ at[r].step = from /\ holder = NoRun
  /\ holder' = r
  /\ Goto(r, to)
  /\ UNCHANGED <<tableVars, order, loop, envVars>>

(* plan_single_admission, or the fixing query of a cross currency request. *)
PlanAdmission(r) == Lock(r, "plan", "planning")

(* A cross currency request whose fixings are there gives the lock back,   *)
(* and takes it again to ask whether it is eligible for ANALYTIC mode.     *)
AsksAgain(req) ==
  req.kind # "single" /\ req.jacobian_mode = "ANALYTIC" /\ FixingsHold(req)

FixingsFound(r) ==
  /\ at[r].step = "planning" /\ AsksAgain(at[r].request)
  /\ holder' = NoRun
  /\ Goto(r, "eligibility")
  /\ UNCHANGED <<tableVars, order, loop, envVars>>

QueryEligibility(r) == Lock(r, "eligibility", "judging")

(* The checks that need no answer of the library run before the first      *)
(* query or after the last, with the same outcome: a refusal stores        *)
(* nothing.                                                                *)
Planned(r) ==
  /\ \/ at[r].step = "planning" /\ ~AsksAgain(at[r].request)
     \/ at[r].step = "judging"
  /\ holder' = NoRun
  /\ Goto(r, IF Admits(at[r].request) THEN "admit" ELSE "refused")
  /\ UNCHANGED <<tableVars, order, loop, envVars>>

(* add_calibration_admission stores the run and its instruments at once,   *)
(* and the worker is scheduled.                                            *)
Admit(r) ==
  /\ at[r].step = "admit" /\ loop = NoRun
  /\ row' = [row EXCEPT ![r] = RowOf(at[r].request)]
  /\ Goto(r, "scheduled")
  /\ UNCHANGED <<curves, order, holder, loop, envVars>>

AdmitRaises(r) ==
  /\ at[r].step = "admit" /\ loop = NoRun
  /\ Fault
  /\ Goto(r, "refused")
  /\ UNCHANGED <<tableVars, order, holder, loop>>
-----------------------------------------------------------------------------
(* The thread of _run_single_worker or _run_xccy_worker.                   *)

(* Mutant of AcquireLock: the worker calls the library without the lock.   *)
AcquireLockFreely(r) ==
  /\ at[r].step = "scheduled"
  /\ holder' = r
  /\ Goto(r, "locked")
  /\ UNCHANGED <<tableVars, order, loop, envVars>>
AcquireLock(r) == Lock(r, "scheduled", "locked")

MarkSolving(r) ==
  /\ at[r].step = "locked"
  /\ row' = [row EXCEPT ![r].phase = "solving"]
  /\ Goto(r, IF row[r].request.kind = "single" THEN "verify" ELSE "solve")
  /\ UNCHANGED <<curves, order, holder, loop, envVars>>

(* Mutant of VerifyEvidence: only the plan is hashed.                      *)
VerifyPlan(r) ==
  /\ at[r].step = "verify"
  /\ IF row[r].evidence # "PLAN"
     THEN Goto(r, "solve") /\ UNCHANGED holder
     ELSE Goto(r, "integrity") /\ holder' = NoRun
  /\ UNCHANGED <<tableVars, order, loop, envVars>>

(* _verify_single_evidence, under the lock: the stored plan, then the      *)
(* stored identity, against their stored hashes.                           *)
VerifyEvidence(r) ==
  /\ at[r].step = "verify"
  /\ IF row[r].evidence = "sound"
     THEN Goto(r, "solve") /\ UNCHANGED holder
     ELSE Goto(r, "integrity") /\ holder' = NoRun
  /\ UNCHANGED <<tableVars, order, loop, envVars>>

(* GatewayLifecycleTransitionError: a callback under the lock raised.      *)
CallbackRaises(r) ==
  /\ at[r].step \in {"locked", "verify"}
  /\ Fault
  /\ holder' = NoRun
  /\ Goto(r, "lifecycle")
  /\ UNCHANGED <<tableVars, order, loop>>

(* The native solve and the extraction of its result.                      *)
Solve(r) ==
  /\ at[r].step = "solve"
  /\ holder' = NoRun
  /\ \E p \in IF row[r].request.kind = "single"
              THEN SolverOrders(row[r].request.decls[1]) ELSE {<<>>} :
       order' = [order EXCEPT ![r] = p]
  /\ Goto(r, "solved")
  /\ UNCHANGED <<tableVars, loop, envVars>>

(* The solve raises, or the identity inspected before it or rebuilt after  *)
(* it is not the admitted one.                                             *)
SolveRaises(r) ==
  /\ at[r].step = "solve"
  /\ holder' = NoRun
  /\ \E step \in {"native"} \cup IF row[r].request.kind = "single" THEN {"mismatch"} ELSE {} :
       Goto(r, step)
  /\ UNCHANGED <<tableVars, order, loop, envVars>>
-----------------------------------------------------------------------------
(* _terminalize_success: no await, so nothing else runs on the event loop  *)
(* from its first store call to its last.                                  *)

Serialize(r) ==
  /\ at[r].step = "solved" /\ loop = NoRun
  /\ row' = [row EXCEPT ![r].phase = "serializing"]
  /\ Goto(r, "project")
  /\ loop' = r
  /\ UNCHANGED <<curves, order, holder, envVars>>

(* _curve_record_and_dto validates the curve with its base expanded.       *)
Projects(r) ==
  LET req == row[r].request IN ResultProjects(req) /\ ReadsWithin(MaxDepth - 1, req.base)

ProjectionFails(r) ==
  /\ at[r].step = "project"
  /\ ~Projects(r)
  /\ Goto(r, "native")
  /\ UNCHANGED <<tableVars, order, holder, loop, envVars>>

(* Mutant of Persist: the curves are inserted ahead of the completion.     *)
PersistEarly(r) ==
  /\ at[r].step = "project"
  /\ Projects(r)
  /\ row' = [row EXCEPT ![r].phase = "persisting"]
  /\ curves' = [curves EXCEPT ![r] = << [role |-> "discount", base |-> NoRun] >>]
  /\ Goto(r, "complete")
  /\ UNCHANGED <<order, holder, loop, envVars>>

Persist(r) ==
  /\ at[r].step = "project"
  /\ Projects(r)
  /\ row' = [row EXCEPT ![r].phase = "persisting"]
  /\ Goto(r, "complete")
  /\ UNCHANGED <<curves, order, holder, loop, envVars>>

CurvesOf(req) ==
  [i \in DOMAIN req.decls |->
     [role |-> IF req.decls[i].group = "basis" THEN "basis"
               ELSE IF req.decls[i].discount THEN "discount" ELSE "forward",
      base |-> req.base]]

(* complete_calibration inserts the curves and ends the run in one         *)
(* transaction.                                                            *)
Complete(r) ==
  /\ at[r].step = "complete"
  /\ row' = [row EXCEPT ![r].status = "completed", ![r].phase = "finished"]
  /\ curves' = [curves EXCEPT ![r] = CurvesOf(row[r].request)]
  /\ Goto(r, "done")
  /\ loop' = NoRun
  /\ UNCHANGED <<order, holder, envVars>>

TerminalizeRaises(r) ==
  /\ \/ at[r].step = "solved" /\ loop = NoRun
     \/ at[r].step \in {"project", "complete"}
  /\ Fault
  /\ Goto(r, "native")
  /\ loop' = r
  /\ UNCHANGED <<tableVars, order, holder>>
-----------------------------------------------------------------------------
(* fail_calibration and its callers.                                       *)

Fails(r, error) ==
  /\ row' = [row EXCEPT ![r].status = "failed", ![r].phase = "finished", ![r].error = error]
  /\ UNCHANGED curves

(* _fail_oversized_completion.                                             *)
Oversized(r) ==
  /\ at[r].step = "project"
  /\ Projects(r)
  /\ Fails(r, "RESPONSE_LIMIT_EXCEEDED")
  /\ Goto(r, "done")
  /\ loop' = NoRun
  /\ UNCHANGED <<order, holder, envVars>>

ErrorOf(r) ==
  CASE at[r].step = "integrity" -> row[r].evidence
    [] at[r].step = "lifecycle" -> "LIFECYCLE_TRANSITION_FAILED"
    [] at[r].step = "native" -> "NATIVE_CALIBRATION_FAILED"
    [] at[r].step = "mismatch" -> "NATIVE_KNOT_PLAN_MISMATCH"

(* _terminalize_integrity_error, _fail_lifecycle, _fail_native and the     *)
(* handler of the identity mismatch.                                       *)
FailRun(r) ==
  /\ at[r].step \in {"integrity", "lifecycle", "native", "mismatch"} /\ Turn(r)
  /\ Fails(r, ErrorOf(r))
  /\ Goto(r, "done")
  /\ loop' = NoRun
  /\ UNCHANGED <<order, holder, envVars>>

(* Only the integrity failure has a second try, as a lifecycle failure.    *)
(* The others are swallowed or end the task: the row stays running.        *)
FailRaises(r) ==
  /\ at[r].step \in {"integrity", "lifecycle", "native", "mismatch"} /\ Turn(r)
  /\ Fault
  /\ IF at[r].step = "integrity"
     THEN Goto(r, "lifecycle") /\ loop' = r
     ELSE Goto(r, "lost") /\ loop' = NoRun
  /\ UNCHANGED <<tableVars, order, holder>>
-----------------------------------------------------------------------------
(* The environment.                                                        *)

(* Valuations, imports and Curve Lab workers take the same lock.           *)
OtherTakesLock ==
  /\ up /\ holder = NoRun
  /\ holder' = Other
  /\ UNCHANGED <<tableVars, at, order, loop, envVars>>
OtherReleasesLock ==
  /\ holder = Other
  /\ holder' = NoRun
  /\ UNCHANGED <<tableVars, at, order, loop, envVars>>

(* The stored evidence is altered before a worker reads it.                *)
Tamper(r, evidence) ==
  /\ row[r].evidence = "sound" /\ row[r].phase = "queued"
  /\ row' = [row EXCEPT ![r].evidence = evidence]
  /\ UNCHANGED <<curves, taskVars, envVars>>

Crash ==
  /\ up /\ crashes < MaxCrashes
  /\ crashes' = crashes + 1 /\ up' = FALSE
  /\ at' = [r \in Runs |->
       IF at[r].step = "none" THEN at[r] ELSE [at[r] EXCEPT !.step = "lost"]]
  /\ order' = [r \in Runs |-> <<>>]
  /\ holder' = NoRun /\ loop' = NoRun
  /\ UNCHANGED <<tableVars, faults>>

(* Mutant of Reconcile: every stored run is failed.                        *)
ReconcileAll(r) ==
  /\ ~up
  /\ row[r].status \in {"running", "completed"} /\ r \notin Seeded
  /\ Fails(r, "SERVER_RESTARTED")
  /\ UNCHANGED <<taskVars, envVars>>

(* _reconcile_orphaned_calibrations, one transaction per row.              *)
Reconcile(r) ==
  /\ ~up
  /\ row[r].status = "running"
  /\ Fails(r, "SERVER_RESTARTED")
  /\ UNCHANGED <<taskVars, envVars>>

(* Mutant of Serve: requests are served before the rows are reconciled.    *)
ServeAtOnce == ~up /\ up' = TRUE /\ UNCHANGED <<tableVars, taskVars, crashes, faults>>

Serve ==
  /\ ~up
  /\ \A r \in Runs : row[r].status # "running"
  /\ up' = TRUE
  /\ UNCHANGED <<tableVars, taskVars, crashes, faults>>
-----------------------------------------------------------------------------
Progress(r) ==
  \/ PlanAdmission(r) \/ FixingsFound(r) \/ QueryEligibility(r) \/ Planned(r) \/ Admit(r)
  \/ AcquireLock(r) \/ MarkSolving(r) \/ VerifyEvidence(r) \/ Solve(r) \/ SolveRaises(r)
  \/ Serialize(r) \/ ProjectionFails(r) \/ Persist(r) \/ Oversized(r) \/ Complete(r)
  \/ FailRun(r)

Next ==
  \/ \E r \in Runs, req \in Offered : Submit(r, req)
  \/ \E r \in Runs : Progress(r)
  \/ \E r \in Runs : AdmitRaises(r) \/ CallbackRaises(r) \/ TerminalizeRaises(r) \/ FailRaises(r)
  \/ \E r \in Runs, evidence \in {"PLAN", "EXPECTED"} : Tamper(r, evidence)
  \/ OtherTakesLock \/ OtherReleasesLock
  \/ Crash \/ Serve \/ \E r \in Runs : Reconcile(r)

Spec == Init /\ [][Next]_vars

(* Scheduled coroutines and threads run, native calls return, every holder *)
(* releases the lock and a waiter that finds it free again and again gets  *)
(* it, and a stopped server is started again.                              *)
FairSpec ==
  /\ Spec
  /\ \A r \in Runs : SF_vars(Progress(r))
  /\ WF_vars(OtherReleasesLock)
  /\ \A r \in Runs : WF_vars(Reconcile(r))
  /\ WF_vars(Serve)
-----------------------------------------------------------------------------
TypeOK ==
  /\ \A r \in Runs :
       /\ row[r].status \in {"absent", "running", "completed", "failed"}
       /\ row[r].phase \in Range(Phases)
       /\ row[r].evidence \in {"none", "sound", "PLAN", "EXPECTED"}
       /\ curves[r] \in Seq([role : {"discount", "forward", "basis"}, base : Runs \cup {NoRun}])
  /\ holder \in Runs \cup {NoRun, Other} /\ loop \in Runs \cup {NoRun}
  /\ crashes \in 0..MaxCrashes /\ faults \in 0..MaxFaults

(* The callbacks that mark a run as solving and verify its evidence, and   *)
(* the solve, are never interleaved with another native call: rows marked  *)
(* solving whose result is not out yet are those of the lock's holder.     *)
OneNativeCallAtATime ==
  \A r \in Runs :
    /\ at[r].step \in {"planning", "judging", "locked", "verify", "solve"} <=> holder = r
    /\ at[r].step \in {"verify", "solve"} => row[r].phase = "solving"

(* complete_calibration: a run is completed if and only if all the curves  *)
(* of its request are stored, the persisted instruments of a single curve  *)
(* are in the order of the native residuals, and every curve's base chain  *)
(* belongs to completed runs and is within the depth a response can carry. *)
(* The instruments of a cross currency run keep the order of the request   *)
(* (_xccy_instrument_records) and are paired with the residuals by it;     *)
(* the order in which the library returns those is not modelled, so of     *)
(* these runs the property says nothing about order.                       *)
CompletionIsWhole ==
  \A r \in Runs \ Seeded :
    IF row[r].status = "completed"
    THEN /\ Len(curves[r]) = Len(row[r].request.decls)
         /\ ReadsWithin(MaxDepth, r)
         /\ row[r].request.base # NoRun => row[row[r].request.base].status = "completed"
         /\ at[r].step = "done" => order[r] = row[r].order
    ELSE curves[r] = <<>>

(* _verify_single_evidence: a single-curve run whose stored evidence was   *)
(* altered before the lock is never solved.  It fails with the code of the *)
(* altered part, unless the failure itself could not be stored.            *)
EvidenceDecides ==
  \A r \in Runs :
    row[r].evidence \in {"PLAN", "EXPECTED"} =>
      /\ row[r].phase \in {"queued", "solving", "finished"}
      /\ row[r].status = "failed" =>
           row[r].error \in {row[r].evidence, "LIFECYCLE_TRANSITION_FAILED", "SERVER_RESTARTED"}
      /\ row[r].error = "LIFECYCLE_TRANSITION_FAILED" => faults > 0

(* The stores' mark, update, complete and fail methods write a row         *)
(* whatever it holds: still a run only moves forward through its phases,   *)
(* and once finished neither its row nor its curves change.                *)
RunsOnlyAdvance ==
  [][\A r \in Runs :
       /\ Rank(row'[r].phase) >= Rank(row[r].phase)
       /\ row[r].phase = "finished" => row'[r] = row[r] /\ curves'[r] = curves[r]]_vars

(* What admission lets through, the response schema can carry: a solved    *)
(* run fails its projection only on the depth of its base chain, which     *)
(* admission reads one link short, or on a joint knot that is not after    *)
(* the valuation date, which admission does not look at.                   *)
AdmittedRunsProject ==
  [][\A r \in Runs :
       at[r].step = "project" /\ at'[r].step = "native" /\ faults' = faults =>
         \/ LET base == row[r].request.base
            IN  ReadsWithin(MaxDepth, base) /\ ~ReadsWithin(MaxDepth - 1, base)
         \/ /\ row[r].request.kind = "xccy_joint"
            /\ \E i \in DOMAIN row[r].request.decls :
                 \E k \in row[r].request.decls[i].knots : k <= Today]_vars

(* Every admitted run ends, across restarts, unless a store call failed.   *)
CalibrationsSettle ==
  \A r \in Runs :
    row[r].status = "running" ~> row[r].status \in {"completed", "failed"} \/ faults > 0
=============================================================================

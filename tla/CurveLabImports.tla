-------------------------- MODULE CurveLabImports ---------------------------
(***************************************************************************)
(* Imports of native archives: import_native_json and _execute_import_job  *)
(* of backend/app/services/curve_lab_lifecycle.py, with the import methods *)
(* of the stores.  A request handler runs alone on the event loop; the     *)
(* threads of the shared executor (CurveLabJobs) run beside it and beside  *)
(* each other, and publication in the database reads before it writes.     *)
(* One action is one stretch up to and including a store or native call.   *)
(*                                                                         *)
(* An archive stands for its bytes and for their SHA-256, which makes the  *)
(* idempotency key of the version; a version is named by the job that      *)
(* inserted it.  Admitted is decided by ArchivePreflight.                  *)
(***************************************************************************)
EXTENDS CurveLabJobs, ArchivePreflight

CONSTANTS
  Archives,        \* what may be uploaded
  Content,         \* what an archive unpacks to: the upload ArchivePreflight judges
  MaxCrashes,      \* bound: the server stops at most this often
  MaxFaults,       \* bound: at most this many store or executor calls raise
  None

ASSUME ImportsAssumption ==
  /\ \A a \in Archives : IsUpload(Content[a])
  /\ None \notin Archives \cup Jobs
  /\ {MaxCrashes, MaxFaults} \subseteq Nat

(* The archives preflight_archive admits, and those whose references the   *)
(* native library can follow.                                              *)
Admitted == {a \in Archives : Admits(Content[a])}
Reconstructible == {a \in Archives : NativeCanFollow(Content[a])}

VARIABLES
  row,      \* curve_import_jobs
  version,  \* curve_versions of source IMPORT: job -> the archive in its key
  audit,    \* the jobs with an IMPORT_SUCCEEDED event
  handler,  \* the request on the event loop: step and job
  wpc,      \* threads: next step
  seen,     \* threads: the version the publishing transaction found
  expired,  \* has the job's persisted deadline passed?
  up, crashes, faults

tableVars == <<row, version, audit>>
threadVars == <<wpc, seen>>
envVars == <<expired, up, crashes, faults>>
vars == <<jobVars, tableVars, handler, threadVars, envVars>>

InFlight == {"QUEUED", "RUNNING"}
Terminal == {"SUCCEEDED", "FAILED", "TIMED_OUT"}
Phases == {"QUEUED", "PREFLIGHT", "NATIVE_RECONSTRUCTION", "POST_VALIDATE", "PUBLISH",
           "PUBLISHED", "TIMED_OUT"}

(* described: the request carried a runtime manifest.                      *)
NoRow == [state |-> "ABSENT", phase |-> "QUEUED", archive |-> None, described |-> FALSE,
          version |-> None]
Idle == [step |-> "idle", job |-> None, archive |-> None, described |-> FALSE]

Init ==
  /\ JobsInit
  /\ row = [j \in Jobs |-> NoRow]
  /\ version = [j \in Jobs |-> None]
  /\ audit = {}
  /\ handler = Idle
  /\ wpc = [j \in Jobs |-> "none"]
  /\ seen = [j \in Jobs |-> None]
  /\ expired = [j \in Jobs |-> FALSE]
  /\ up = TRUE /\ crashes = 0 /\ faults = 0

Fault == faults < MaxFaults /\ faults' = faults + 1 /\ UNCHANGED <<expired, up, crashes>>
Goto(step) == handler' = [handler EXCEPT !.step = step]
-----------------------------------------------------------------------------
(* import_native_json.  A refused archive leaves a FAILED row behind and   *)
(* takes no reservation; nobody reads its request hash again.              *)
RefuseArchive(j, a) ==
  /\ handler = Idle
  /\ row[j].state = "ABSENT"
  /\ a \notin Admitted
  /\ row' = [row EXCEPT ![j] = [NoRow EXCEPT !.state = "FAILED", !.phase = "PREFLIGHT"]]
  /\ UNCHANGED <<jobVars, version, audit, handler, threadVars, envVars>>

(* Without a permit the answer is 429 and nothing is stored.               *)
Receive(j, a, described) ==
  /\ handler = Idle
  /\ row[j].state = "ABSENT"
  /\ a \in Admitted
  /\ Reserve(j)
  /\ handler' = [step |-> "persist", job |-> j, archive |-> a, described |-> described]
  /\ UNCHANGED <<tableVars, threadVars, envVars>>

Persist ==
  /\ handler.step = "persist"
  /\ row' = [row EXCEPT ![handler.job] =
       [NoRow EXCEPT !.state = "QUEUED", !.archive = handler.archive,
                     !.described = handler.described]]
  /\ Goto("submit")
  /\ UNCHANGED <<jobVars, version, audit, threadVars, envVars>>

PersistRaises ==
  /\ handler.step = "persist"
  /\ Fault
  /\ Goto("cancel")
  /\ UNCHANGED <<jobVars, tableVars, threadVars>>

SubmitJob ==
  /\ handler.step = "submit"
  /\ Submit(handler.job)
  /\ handler' = Idle
  /\ UNCHANGED <<tableVars, threadVars, envVars>>

SubmitJobRaises ==
  /\ handler.step = "submit"
  /\ Fault
  /\ SubmitRaises(handler.job)
  /\ Goto("cancel")
  /\ UNCHANGED <<tableVars, threadVars>>

CancelJob ==
  /\ handler.step = "cancel"
  /\ Cancel(handler.job)
  /\ handler' = Idle
  /\ UNCHANGED <<tableVars, threadVars, envVars>>
-----------------------------------------------------------------------------
(* _execute_import_job.                                                    *)

Thread(j, step) == wpc' = [wpc EXCEPT ![j] = step]

(* update_curve_lab_import_job replaces the row by one derived from the    *)
(* queued one, whatever state it is in.                                    *)
Record(j, state, phase, step) ==
  /\ row' = [row EXCEPT ![j].state = state, ![j].phase = phase]
  /\ Thread(j, step)
  /\ UNCHANGED <<jobVars, version, audit, handler, seen, envVars>>

(* The deadline has passed at one of the places where the thread looks.    *)
TimeOut(j) == expired[j] /\ Record(j, "TIMED_OUT", "TIMED_OUT", "exit")

Proceed(j, step) ==
  /\ ~expired[j]
  /\ Thread(j, step)
  /\ UNCHANGED <<jobVars, tableVars, handler, seen, envVars>>

TakeImport(j) ==
  /\ Take(j)
  /\ Thread(j, "begin")
  /\ UNCHANGED <<tableVars, handler, seen, envVars>>

ImportBegin(j) ==
  /\ wpc[j] = "begin"
  /\ TimeOut(j) \/ (~expired[j] /\ Record(j, "RUNNING", "PREFLIGHT", "mark"))

ImportMark(j) ==
  /\ wpc[j] = "mark"
  /\ Record(j, "RUNNING", "NATIVE_RECONSTRUCTION", "check")

(* Mutant of ImportCheck: an expired job returns without writing its row.  *)
ImportCheckSilent(j) ==
  /\ wpc[j] = "check"
  /\ Thread(j, IF expired[j] THEN "exit" ELSE "native")
  /\ UNCHANGED <<jobVars, tableVars, handler, seen, envVars>>

ImportCheck(j) ==
  /\ wpc[j] = "check"
  /\ TimeOut(j) \/ Proceed(j, "native")

(* gateway.import_curve_lab_archive returns or raises.                     *)
ImportNative(j) ==
  /\ wpc[j] = "native"
  /\ \/ Record(j, "FAILED", "NATIVE_RECONSTRUCTION", "exit")
     \/ Thread(j, "validate") /\ UNCHANGED <<jobVars, tableVars, handler, seen, envVars>>

(* With a runtime manifest: its mode must fit the root of the archive, and *)
(* the native library must find the parameter axis of its components.      *)
ImportValidate(j) ==
  /\ wpc[j] = "validate"
  /\ \/ TimeOut(j)
     \/ ~row[j].described /\ Proceed(j, "publish")
     \/ row[j].described /\ Proceed(j, "parameters")
     \/ row[j].described /\ ~expired[j] /\ Record(j, "FAILED", "POST_VALIDATE", "exit")

(* ... which must be the axis the manifest names.                          *)
ImportParameters(j) ==
  /\ wpc[j] = "parameters"
  /\ \/ TimeOut(j)
     \/ Proceed(j, "publish")
     \/ ~expired[j] /\ Record(j, "FAILED", "POST_VALIDATE", "exit")
-----------------------------------------------------------------------------
(* publish_curve_lab_import: a transaction that looks for a version with   *)
(* the key, inserts one if there is none, and settles the job.             *)

Owners(a) == {v \in Jobs : version[v] = a}

PublishRead(j) ==
  /\ wpc[j] = "publish"
  /\ LET owners == Owners(row[j].archive) IN
       seen' = [seen EXCEPT ![j] = IF owners = {} THEN None ELSE CHOOSE v \in owners : TRUE]
  /\ Thread(j, "commit")
  /\ UNCHANGED <<jobVars, tableVars, handler, envVars>>

(* The transaction inserted a version whose key another transaction has    *)
(* committed meanwhile: uq_curve_version_idempotency_key.                  *)
Collides(j) == seen[j] = None /\ Owners(row[j].archive) # {}

(* Mutant of PublishCommit: the key is an ordinary index.                  *)
PublishCommitAnyway(j) ==
  /\ wpc[j] = "commit"
  /\ version' = IF seen[j] = None THEN [version EXCEPT ![j] = row[j].archive] ELSE version
  /\ row' = [row EXCEPT ![j].state = "SUCCEEDED", ![j].phase = "PUBLISHED",
                        ![j].version = IF seen[j] = None THEN j ELSE seen[j]]
  /\ Thread(j, "audit")
  /\ UNCHANGED <<jobVars, audit, handler, seen, envVars>>

PublishCommit(j) ==
  /\ wpc[j] = "commit"
  /\ ~Collides(j)
  /\ version' = IF seen[j] = None THEN [version EXCEPT ![j] = row[j].archive] ELSE version
  /\ row' = [row EXCEPT ![j].state = "SUCCEEDED", ![j].phase = "PUBLISHED",
                        ![j].version = IF seen[j] = None THEN j ELSE seen[j]]
  /\ Thread(j, "audit")
  /\ UNCHANGED <<jobVars, audit, handler, seen, envVars>>

(* The transaction raises, because of the collision or for another reason; *)
(* it leaves nothing behind and the thread goes on to record the failure.  *)
PublishRaises(j) ==
  /\ \/ wpc[j] = "commit" /\ Collides(j) /\ UNCHANGED envVars
     \/ wpc[j] \in {"publish", "commit"} /\ Fault
  /\ Thread(j, "unpublished")
  /\ UNCHANGED <<jobVars, tableVars, handler, seen>>

Unpublished(j) ==
  /\ wpc[j] = "unpublished"
  /\ Record(j, "FAILED", "PUBLISH", "exit")

ImportAudit(j) ==
  /\ wpc[j] = "audit"
  /\ audit' = audit \cup {j}
  /\ Thread(j, "exit")
  /\ UNCHANGED <<jobVars, row, version, handler, seen, envVars>>

(* Any other store call of the thread raises, and the exception stays in   *)
(* the future.                                                             *)
WorkerRaises(j) ==
  /\ wpc[j] \notin {"none", "publish", "commit", "exit"}
  /\ Fault
  /\ Thread(j, "exit")
  /\ UNCHANGED <<jobVars, tableVars, handler, seen>>

ExitImport(j) ==
  /\ wpc[j] = "exit"
  /\ Release(j)
  /\ Thread(j, "none")
  /\ UNCHANGED <<tableVars, handler, seen, envVars>>

RetireImport(j) ==
  /\ Retire(j)
  /\ UNCHANGED <<tableVars, handler, threadVars, envVars>>
-----------------------------------------------------------------------------
Expire(j) ==
  /\ row[j].state \in InFlight
  /\ ~expired[j]
  /\ expired' = [expired EXCEPT ![j] = TRUE]
  /\ UNCHANGED <<jobVars, tableVars, handler, threadVars, up, crashes, faults>>

Crash ==
  /\ up
  /\ crashes < MaxCrashes
  /\ up' = FALSE
  /\ crashes' = crashes + 1
  /\ permits' = Capacity
  /\ queue' = <<>>
  /\ resv' = [j \in Jobs |-> IF resv[j] = "none" THEN "none" ELSE "done"]
  /\ handler' = Idle
  /\ wpc' = [j \in Jobs |-> "none"]
  /\ seen' = [j \in Jobs |-> None]
  /\ UNCHANGED <<tableVars, expired, faults>>

(* Mutant of Restart: the rows are swept by their deadline alone.          *)
RestartSweepAll ==
  /\ ~up
  /\ up' = TRUE
  /\ row' = [j \in Jobs |->
       IF row[j].state \in InFlight \/ (expired[j] /\ row[j].state = "FAILED")
       THEN [row[j] EXCEPT !.state = IF expired[j] THEN "TIMED_OUT" ELSE "FAILED"] ELSE row[j]]
  /\ UNCHANGED <<jobVars, version, audit, handler, threadVars, expired, crashes, faults>>

(* reconcile_curve_lab_inflight at the next start; the phase stays.        *)
Restart ==
  /\ ~up
  /\ up' = TRUE
  /\ row' = [j \in Jobs |->
       IF row[j].state \in InFlight
       THEN [row[j] EXCEPT !.state = IF expired[j] THEN "TIMED_OUT" ELSE "FAILED"] ELSE row[j]]
  /\ UNCHANGED <<jobVars, version, audit, handler, threadVars, expired, crashes, faults>>
-----------------------------------------------------------------------------
HandlerStep ==
  \/ \E j \in Jobs, a \in Archives :
       RefuseArchive(j, a) \/ \E described \in BOOLEAN : Receive(j, a, described)
  \/ Persist \/ PersistRaises \/ SubmitJob \/ SubmitJobRaises \/ CancelJob

ImportStep(j) ==
  \/ TakeImport(j) \/ ImportBegin(j) \/ ImportMark(j) \/ ImportCheck(j) \/ ImportNative(j)
  \/ ImportValidate(j) \/ ImportParameters(j)
  \/ PublishRead(j) \/ PublishCommit(j) \/ PublishRaises(j) \/ Unpublished(j)
  \/ ImportAudit(j) \/ WorkerRaises(j) \/ ExitImport(j) \/ RetireImport(j)

Next ==
  \/ up /\ HandlerStep
  \/ up /\ \E j \in Jobs : ImportStep(j)
  \/ \E j \in Jobs : Expire(j)
  \/ Crash
  \/ Restart

Spec == Init /\ [][Next]_vars

(* The event loop finishes the request it is in, the pool's threads are    *)
(* scheduled, native calls return, and a stopped server is started again.  *)
Fairness ==
  /\ WF_vars(up /\ (SubmitJob \/ CancelJob))
  /\ \A j \in Jobs : WF_vars(up /\ ImportStep(j))
  /\ WF_vars(Restart)

FairSpec == Spec /\ Fairness
-----------------------------------------------------------------------------
TypeOK ==
  /\ JobsTypeOK
  /\ row \in [Jobs -> [state : {"ABSENT"} \cup InFlight \cup Terminal, phase : Phases,
                       archive : Archives \cup {None}, described : BOOLEAN,
                       version : Jobs \cup {None}]]
  /\ version \in [Jobs -> Archives \cup {None}]
  /\ audit \subseteq Jobs
  /\ handler \in [step : {"idle", "persist", "submit", "cancel"}, job : Jobs \cup {None},
                  archive : Archives \cup {None}, described : BOOLEAN]
  /\ wpc \in [Jobs -> {"none", "begin", "mark", "check", "native", "validate", "parameters",
                       "publish", "commit", "unpublished", "audit", "exit"}]
  /\ seen \in [Jobs -> Jobs \cup {None}]
  /\ expired \in [Jobs -> BOOLEAN] /\ up \in BOOLEAN /\ crashes \in Nat /\ faults \in Nat

(* The native library is only handed archives whose references it can      *)
(* follow to the end, whatever is uploaded: the preflight's search accepts *)
(* no cycle, no dangling or ambiguous tag and no handle of a wrong type.   *)
NativeSeesReconstructible ==
  \A j \in Jobs : wpc[j] = "native" => row[j].archive \in Reconstructible

(* However many imports of one archive race, it becomes one version.  A    *)
(* version and the success of the job that inserted it appear together,    *)
(* every successful job names the version of its own archive, and the      *)
(* audit trail only tells of successful jobs; a crash, a failed commit or  *)
(* a failed audit call leaves no version that nobody published.            *)
ImportsPublishOnce ==
  /\ \A u, v \in Jobs : version[u] = version[v] /\ version[u] # None => u = v
  /\ \A v \in Jobs : version[v] # None => row[v].state = "SUCCEEDED" /\ row[v].version = v
  /\ \A j \in Jobs : row[j].state = "SUCCEEDED" =>
       row[j].version # None /\ version[row[j].version] = row[j].archive
  /\ \A j \in audit : row[j].state = "SUCCEEDED"

(* An import that has settled stays settled: the update is unconditional,  *)
(* so no late thread, deadline or restart may reach the row again.         *)
TerminalImportsImmutable ==
  [][\A j \in Jobs : row[j].state \in Terminal => row'[j] = row[j]]_vars

(* An import that was accepted settles, unless a store call fails.         *)
ImportsSettle ==
  \A j \in Jobs : row[j].state = "QUEUED" ~> row[j].state \in Terminal \/ faults > 0
=============================================================================

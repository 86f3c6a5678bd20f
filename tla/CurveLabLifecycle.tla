------------------------- MODULE CurveLabLifecycle --------------------------
(***************************************************************************)
(* backend/app/services/curve_lab_lifecycle.py: drafts edited under        *)
(* optimistic locking, build runs executed by the shared executor under a  *)
(* soft deadline, and immutable versions published from a successful run.  *)
(*                                                                         *)
(* Three kinds of process interleave.  A client request is a handler that  *)
(* makes one or more store calls (pc, req); a build is a job of            *)
(* CurveLabJobs whose thread makes store and native calls (wpc, found);    *)
(* the environment lets deadlines pass, makes store calls fail and stops   *)
(* the server.  One action is one handler or thread step up to and         *)
(* including its store call.  The tables survive a crash; reservations,    *)
(* the queue, handlers and threads do not.                                 *)
(***************************************************************************)
EXTENDS CurveLabJobs, CurveLabStore

CONSTANTS
  Clients,
  MaxRevision,  \* bound: a draft is edited up to this revision
  Perishable,   \* bound: the runs whose deadline may pass
  MaxCrashes,   \* bound: the server stops at most this often
  MaxFaults     \* bound: at most this many store or executor calls raise

ASSUME LifecycleAssumption ==
  /\ Runs \subseteq Jobs
  /\ Perishable \subseteq Runs
  /\ {MaxRevision, MaxCrashes, MaxFaults} \subseteq Nat

VARIABLES
  pc, req,         \* handlers: next step, and the values read so far
  wpc, found,      \* build threads: next step, and the dependencies resolved
  expired,         \* has the run's persisted deadline passed?
  up, crashes, faults

handlerVars == <<pc, req>>
threadVars == <<wpc, found>>
envVars == <<expired, up, crashes, faults>>
vars == <<jobVars, storeVars, handlerVars, threadVars, envVars>>

AuditActions == {"DRAFT_CREATED", "DRAFT_UPDATED", "VERSION_CLONED", "VERSION_CREATED",
                 "VERSION_ARCHIVED", "BUILD_SUCCEEDED", "BUILD_FAILED"}
Events == ({""} \cup AuditActions) \X (Drafts \cup Runs \cup Versions \cup {None})

(* What a handler holds between store calls.  payload and manifest are the *)
(* build evidence create_version copies into the record it publishes.      *)
Request ==
  [draft : Drafts \cup {None}, rev : Nat, doc : Docs \cup {None},
   run : Runs \cup {None}, key : Keys \cup {None},
   manifest : Manifests, payload : Runs \cup {None},
   event : Events]

NoRequest ==
  [draft |-> None, rev |-> 0, doc |-> None, run |-> None, key |-> None,
   manifest |-> {}, payload |-> None, event |-> <<"", None>>]

Nothing == [ok |-> FALSE, manifest |-> {}]

Init ==
  /\ JobsInit
  /\ StoreInit
  /\ pc = [c \in Clients |-> "idle"]
  /\ req = [c \in Clients |-> NoRequest]
  /\ wpc = [r \in Runs |-> "none"]
  /\ found = [r \in Runs |-> Nothing]
  /\ expired = [r \in Runs |-> FALSE]
  /\ up = TRUE
  /\ crashes = 0
  /\ faults = 0

(* The handler's next step, and what it keeps until then.                  *)
Continue(c, step, q) ==
  /\ pc' = [pc EXCEPT ![c] = step]
  /\ req' = [req EXCEPT ![c] = q]

Finish(c) == Continue(c, "idle", NoRequest)

AuditNext(c, action, target) ==
  Continue(c, "audit", [NoRequest EXCEPT !.event = <<action, target>>])

Fault == faults < MaxFaults /\ faults' = faults + 1 /\ UNCHANGED <<expired, up, crashes>>
-----------------------------------------------------------------------------
(* Drafts.  A request that is refused (404, 409, 422) before it has        *)
(* written anything leaves no trace and is not an action.                  *)

CreateDraft(c, d, doc) ==
  /\ pc[c] = "idle"
  /\ AddDraft(d, doc)
  /\ AuditNext(c, "DRAFT_CREATED", d)
  /\ UNCHANGED <<jobVars, build, version, audit, threadVars, envVars>>

(* update_draft reads the draft and compares If-Match with what it read.   *)
UpdateRead(c, d, expected, doc) ==
  /\ pc[c] = "idle"
  /\ DraftExists(d)
  /\ draft[d].rev = expected
  /\ expected < MaxRevision
  /\ Continue(c, "update", [NoRequest EXCEPT !.draft = d, !.rev = expected, !.doc = doc])
  /\ UNCHANGED <<jobVars, storeVars, threadVars, envVars>>

(* ... and then lets the store compare again.                              *)
UpdateWrite(c) ==
  /\ pc[c] = "update"
  /\ CasDraft(req[c].draft, req[c].rev, req[c].doc)
  /\ AuditNext(c, "DRAFT_UPDATED", req[c].draft)
  /\ UNCHANGED <<jobVars, build, version, audit, threadVars, envVars>>

UpdateConflict(c) ==
  /\ pc[c] = "update"
  /\ draft[req[c].draft].rev # req[c].rev
  /\ Finish(c)
  /\ UNCHANGED <<jobVars, storeVars, threadVars, envVars>>

(* clone_version: the version's document under fresh instrument ids, as a  *)
(* new draft.  A version never loses its document, so the read needs no    *)
(* step of its own.                                                        *)
CloneVersion(c, v, d, doc) ==
  /\ pc[c] = "idle"
  /\ VersionExists(v)
  /\ version[v].doc # None
  /\ doc # version[v].doc
  /\ Deps[doc] = Deps[version[v].doc]
  /\ AddDraft(d, doc)
  /\ AuditNext(c, "VERSION_CLONED", d)
  /\ UNCHANGED <<jobVars, build, version, audit, threadVars, envVars>>

(* The last store call of every writing handler is its audit event; the    *)
(* write it reports is already committed.                                  *)
Audit(c) ==
  /\ pc[c] = "audit"
  /\ audit' = audit \cup {req[c].event}
  /\ Finish(c)
  /\ UNCHANGED <<jobVars, draft, build, version, threadVars, envVars>>

AuditRaises(c) ==
  /\ pc[c] = "audit"
  /\ Fault
  /\ Finish(c)
  /\ UNCHANGED <<jobVars, storeVars, threadVars>>
-----------------------------------------------------------------------------
(* create_build_run: read the draft, reserve a place in the executor (429  *)
(* and nothing persisted when it is full), persist the QUEUED row, submit. *)

BuildRead(c, d, r) ==
  /\ pc[c] = "idle"
  /\ DraftExists(d)
  /\ build[r].state = "ABSENT"
  /\ Reserve(r)
  /\ Continue(c, "persist", [NoRequest EXCEPT !.draft = d, !.rev = draft[d].rev,
                                              !.doc = draft[d].doc, !.run = r])
  /\ UNCHANGED <<storeVars, threadVars, envVars>>

BuildPersist(c) ==
  LET q == req[c] IN
  /\ pc[c] = "persist"
  /\ PutBuild(q.run, [NoBuild EXCEPT !.state = "QUEUED", !.draft = q.draft,
                                     !.rev = q.rev, !.doc = q.doc])
  /\ Continue(c, "submit", q)
  /\ UNCHANGED <<jobVars, draft, version, audit, threadVars, envVars>>

BuildPersistRaises(c) ==
  /\ pc[c] = "persist"
  /\ Fault
  /\ Continue(c, "cancel", req[c])
  /\ UNCHANGED <<jobVars, storeVars, threadVars>>

BuildSubmit(c) ==
  /\ pc[c] = "submit"
  /\ Submit(req[c].run)
  /\ Finish(c)
  /\ UNCHANGED <<storeVars, threadVars, envVars>>

(* The except clause cancels the reservation but leaves the QUEUED row.    *)
BuildSubmitRaises(c) ==
  /\ pc[c] = "submit"
  /\ Fault
  /\ SubmitRaises(req[c].run)
  /\ Continue(c, "cancel", req[c])
  /\ UNCHANGED <<storeVars, threadVars>>

BuildCancel(c) ==
  /\ pc[c] = "cancel"
  /\ Cancel(req[c].run)
  /\ Finish(c)
  /\ UNCHANGED <<storeVars, threadVars, envVars>>
-----------------------------------------------------------------------------
(* create_version: check the draft, then the run, then publish the record  *)
(* assembled from both; the store compares again in one transaction.       *)

PublishReadDraft(c, d, r, k) ==
  /\ pc[c] = "idle"
  /\ DraftExists(d)
  /\ build[r].state # "ABSENT"
  /\ Continue(c, "checkRun", [NoRequest EXCEPT !.draft = d, !.rev = draft[d].rev,
                                !.doc = draft[d].doc, !.run = r, !.key = k])
  /\ UNCHANGED <<jobVars, storeVars, threadVars, envVars>>

(* A request for the snapshot a run was built from, after the draft moved  *)
(* on: 409 before anything else is looked at.                              *)
PublishDraftStale(c, r, k) ==
  LET q == [NoRequest EXCEPT !.draft = build[r].draft, !.rev = build[r].rev,
                             !.doc = build[r].doc, !.run = r, !.key = k] IN
  /\ pc[c] = "idle"
  /\ build[r].state # "ABSENT"
  /\ ~DraftMatches(q)
  /\ Continue(c, "conflict", q)
  /\ UNCHANGED <<jobVars, storeVars, threadVars, envVars>>

PublishCheckRun(c) ==
  LET q == req[c] IN
  /\ pc[c] = "checkRun"
  /\ IF RunMatches(q)
     THEN Continue(c, "publish", [q EXCEPT !.manifest = build[q.run].manifest,
                                           !.payload = build[q.run].payload])
     ELSE Continue(c, "conflict", q)
  /\ UNCHANGED <<jobVars, storeVars, threadVars, envVars>>

PublishConflict(c) ==
  LET q == req[c] IN
  /\ pc[c] = "publish"
  /\ \/ ~PublicationMatches(q)
     \/ KeyOwners(q.key) = {} /\ ~ManifestHolds(build[q.run].manifest)
  /\ Continue(c, "conflict", q)
  /\ UNCHANGED <<jobVars, storeVars, threadVars, envVars>>

(* Mutant of PublishExisting: an upsert.                                   *)
PublishOver(c) ==
  LET q == req[c] IN
  /\ pc[c] = "publish"
  /\ PublicationMatches(q)
  /\ KeyOwners(q.key) # {}
  /\ version' = [v \in Versions |->
       IF v \in KeyOwners(q.key)
       THEN [version[v] EXCEPT !.run = q.run, !.payload = q.payload] ELSE version[v]]
  /\ Finish(c)
  /\ UNCHANGED <<jobVars, draft, build, audit, threadVars, envVars>>

(* The key is taken: the version that has it is the answer (200), whatever *)
(* else the request says and before the dependencies are validated.        *)
PublishExisting(c) ==
  LET q == req[c] IN
  /\ pc[c] = "publish"
  /\ PublicationMatches(q)
  /\ KeyOwners(q.key) # {}
  /\ Finish(c)
  /\ UNCHANGED <<jobVars, storeVars, threadVars, envVars>>

PublishCreate(c, v) ==
  LET q == req[c] IN
  /\ pc[c] = "publish"
  /\ InsertVersion(v, q)
  /\ AuditNext(c, "VERSION_CREATED", v)
  /\ UNCHANGED <<jobVars, draft, build, audit, threadVars, envVars>>

(* The 409 goes out.                                                       *)
Refuse(c) ==
  /\ pc[c] = "conflict"
  /\ Finish(c)
  /\ UNCHANGED <<jobVars, storeVars, threadVars, envVars>>

(* archive_version: idempotent, and audited every time.                    *)
Archive(c, v) ==
  /\ pc[c] = "idle"
  /\ VersionExists(v)
  /\ ArchiveRow(v)
  /\ AuditNext(c, "VERSION_ARCHIVED", v)
  /\ UNCHANGED <<jobVars, draft, build, audit, threadVars, envVars>>
-----------------------------------------------------------------------------
(* _execute_build_run, one action per stretch between two store or native  *)
(* calls.  queued is the row the thread read at the start; every later     *)
(* write replaces the whole row by values derived from it.                 *)

Thread(r, step) == wpc' = [wpc EXCEPT ![r] = step]

(* Write the row in its new state and go on at step; a row that did not    *)
(* succeed keeps the manifest m and no payload.                            *)
Record(r, state, m, step) ==
  /\ PutBuild(r, [build[r] EXCEPT !.state = state, !.manifest = m])
  /\ Thread(r, step)
  /\ UNCHANGED <<jobVars, draft, version, audit, handlerVars, found, envVars>>

TakeBuild(r) ==
  /\ Take(r)
  /\ Thread(r, "begin")
  /\ UNCHANGED <<storeVars, handlerVars, found, envVars>>

(* Mutant of BuildBegin: an expired job returns without a word.            *)
BuildBeginSilent(r) ==
  /\ wpc[r] = "begin"
  /\ IF expired[r]
     THEN Thread(r, "exit") /\ UNCHANGED <<jobVars, storeVars, handlerVars, found, envVars>>
     ELSE Record(r, "RESOLVING_DEPENDENCIES", {}, "resolve")

(* Mutant of BuildBegin: the deadline branch records the timeout and does  *)
(* not return.                                                             *)
BuildBeginGoesOn(r) ==
  /\ wpc[r] = "begin"
  /\ IF expired[r] THEN Record(r, "TIMED_OUT", {}, "resolve")
                   ELSE Record(r, "RESOLVING_DEPENDENCIES", {}, "resolve")

BuildBegin(r) ==
  /\ wpc[r] = "begin"
  /\ IF expired[r] THEN Record(r, "TIMED_OUT", {}, "exit")
                   ELSE Record(r, "RESOLVING_DEPENDENCIES", {}, "resolve")

(* _resolve_build_dependencies: all of the document's dependencies, or an  *)
(* error with the manifest of those that came before the first unusable.   *)
BuildResolve(r) ==
  LET deps == Deps[build[r].doc]
      usable == {v \in deps : UsableDependency(v)} IN
  /\ wpc[r] = "resolve"
  /\ \E S \in SUBSET usable :
       /\ usable = deps => S = deps
       /\ found' = [found EXCEPT ![r] = [ok |-> usable = deps, manifest |-> ManifestOf(S)]]
  /\ Thread(r, "prepare")
  /\ UNCHANGED <<jobVars, storeVars, handlerVars, envVars>>

(* Mutant of BuildPrepare: a dependency error is not looked at.            *)
BuildPrepareAnyway(r) ==
  /\ wpc[r] = "prepare"
  /\ IF expired[r] THEN Record(r, "TIMED_OUT", found[r].manifest, "exit")
                   ELSE Record(r, "SOLVING", found[r].manifest, "native")

BuildPrepare(r) ==
  /\ wpc[r] = "prepare"
  /\ CASE expired[r]                 -> Record(r, "TIMED_OUT", found[r].manifest, "exit")
       [] ~expired[r] /\ ~found[r].ok -> Record(r, "FAILED", found[r].manifest, "auditFailure")
       [] ~expired[r] /\ found[r].ok  -> Record(r, "SOLVING", found[r].manifest, "native")

(* gateway.build_curve_lab_archive and the deadline check behind it.       *)
BuildNative(r) ==
  /\ wpc[r] = "native"
  /\ IF expired[r]
     THEN Record(r, "TIMED_OUT", found[r].manifest, "exit")
     ELSE Thread(r, "axis") /\ UNCHANGED <<jobVars, storeVars, handlerVars, found, envVars>>

(* Mutant of BuildAxis: the thread loses its place.                        *)
BuildAxisLost(r) ==
  /\ wpc[r] = "axis"
  /\ Thread(r, "view")
  /\ UNCHANGED <<jobVars, storeVars, handlerVars, found, envVars>>

(* curve_lab_archive_parameter_axis.                                       *)
BuildAxis(r) ==
  /\ wpc[r] = "axis"
  /\ Thread(r, "views")
  /\ UNCHANGED <<jobVars, storeVars, handlerVars, found, envVars>>

(* curve_lab_archive_curve_views, and the row that publishes the payload.  *)
BuildViews(r) ==
  /\ wpc[r] = "views"
  /\ PutBuild(r, [build[r] EXCEPT !.state = "SUCCEEDED", !.payload = r,
                                  !.manifest = found[r].manifest])
  /\ Thread(r, "auditSuccess")
  /\ UNCHANGED <<jobVars, draft, version, audit, handlerVars, found, envVars>>

(* Any of the three native calls raises: NATIVE_BUILD_FAILED.              *)
NativeFails(r) ==
  /\ wpc[r] \in {"native", "axis", "views"}
  /\ Record(r, "FAILED", found[r].manifest, "auditFailure")

(* Mutant of AuditEvent: every build that ends is reported as a success.   *)
AuditEventBlind == [auditFailure |-> "BUILD_SUCCEEDED", auditSuccess |-> "BUILD_SUCCEEDED"]

(* The three _audit calls, each behind the write of its own path.          *)
AuditEvent == [auditFailure |-> "BUILD_FAILED", auditSuccess |-> "BUILD_SUCCEEDED"]

AuditBuild(r) ==
  /\ wpc[r] \in DOMAIN AuditEvent
  /\ audit' = audit \cup {<<AuditEvent[wpc[r]], r>>}
  /\ Thread(r, "exit")
  /\ UNCHANGED <<jobVars, draft, build, version, handlerVars, found, envVars>>

(* A store call outside the try block, or in its except clause, raises:    *)
(* the exception stays in the future, which nobody reads, and the row      *)
(* stays as it is.                                                         *)
WorkerRaises(r) ==
  /\ wpc[r] \notin {"none", "exit"}
  /\ Fault
  /\ Thread(r, "exit")
  /\ UNCHANGED <<jobVars, storeVars, handlerVars, found>>

ExitBuild(r) ==
  /\ wpc[r] = "exit"
  /\ Release(r)
  /\ Thread(r, "none")
  /\ UNCHANGED <<storeVars, handlerVars, found, envVars>>

RetireBuild(r) ==
  /\ Retire(r)
  /\ UNCHANGED <<storeVars, handlerVars, threadVars, envVars>>
-----------------------------------------------------------------------------
(* The persisted deadline of a run passes.                                 *)
Expire(r) ==
  /\ r \in Perishable
  /\ build[r].state \in InFlight
  /\ ~expired[r]
  /\ expired' = [expired EXCEPT ![r] = TRUE]
  /\ UNCHANGED <<jobVars, storeVars, handlerVars, threadVars, up, crashes, faults>>

(* The server process ends: what is not in a table is gone.                *)
Crash ==
  /\ up
  /\ crashes < MaxCrashes
  /\ up' = FALSE
  /\ crashes' = crashes + 1
  /\ permits' = Capacity
  /\ queue' = <<>>
  /\ resv' = [j \in Jobs |-> IF resv[j] = "none" THEN "none" ELSE "done"]
  /\ pc' = [c \in Clients |-> "idle"]
  /\ req' = [c \in Clients |-> NoRequest]
  /\ wpc' = [r \in Runs |-> "none"]
  /\ found' = [r \in Runs |-> Nothing]
  /\ UNCHANGED <<storeVars, expired, faults>>

(* Mutant of Restart: the rows in flight are left as they were.            *)
RestartOnly ==
  /\ ~up
  /\ up' = TRUE
  /\ UNCHANGED <<jobVars, storeVars, handlerVars, threadVars, expired, crashes, faults>>

(* The application is created anew and reconciles the rows in flight       *)
(* before it serves a request.                                             *)
Restart ==
  /\ ~up
  /\ up' = TRUE
  /\ Reconcile(expired)
  /\ UNCHANGED <<jobVars, draft, version, audit, handlerVars, threadVars,
                 expired, crashes, faults>>
-----------------------------------------------------------------------------
HandlerStep(c) ==
  \/ \E d \in Drafts, doc \in Docs :
       CreateDraft(c, d, doc) \/ (\E n \in 1..MaxRevision : UpdateRead(c, d, n, doc))
  \/ \E v \in Versions, d \in Drafts, doc \in Docs : CloneVersion(c, v, d, doc)
  \/ UpdateWrite(c) \/ UpdateConflict(c) \/ Audit(c) \/ AuditRaises(c)
  \/ \E d \in Drafts, r \in Runs : BuildRead(c, d, r)
  \/ BuildPersist(c) \/ BuildPersistRaises(c)
  \/ BuildSubmit(c) \/ BuildSubmitRaises(c) \/ BuildCancel(c)
  \/ \E d \in Drafts, r \in Runs, k \in Keys : PublishReadDraft(c, d, r, k)
  \/ \E r \in Runs, k \in Keys : PublishDraftStale(c, r, k)
  \/ PublishCheckRun(c) \/ PublishConflict(c) \/ PublishExisting(c) \/ Refuse(c)
  \/ \E v \in Versions : PublishCreate(c, v) \/ Archive(c, v)

BuildStep(r) ==
  \/ TakeBuild(r) \/ BuildBegin(r) \/ BuildResolve(r) \/ BuildPrepare(r)
  \/ BuildNative(r) \/ BuildAxis(r) \/ BuildViews(r) \/ NativeFails(r)
  \/ AuditBuild(r) \/ WorkerRaises(r) \/ ExitBuild(r) \/ RetireBuild(r)

(* Import and risk jobs share the executor; here they only use it.         *)
OtherJobStep(j) ==
  /\ \/ Reserve(j) \/ Submit(j) \/ SubmitRaises(j) \/ Cancel(j)
     \/ Take(j) \/ Release(j) \/ Retire(j)
  /\ UNCHANGED <<storeVars, handlerVars, threadVars, envVars>>

Next ==
  \/ up /\ \E c \in Clients : HandlerStep(c)
  \/ up /\ \E r \in Runs : BuildStep(r)
  \/ up /\ \E j \in Jobs \ Runs : OtherJobStep(j)
  \/ \E r \in Runs : Expire(r)
  \/ Crash
  \/ Restart

Spec == Init /\ [][Next]_vars

(* A handler that has persisted a row goes on to submit it, pool threads   *)
(* are scheduled and native calls return (the deadline is soft: nothing    *)
(* interrupts them), and a stopped server is started again.                *)
Fairness ==
  /\ \A c \in Clients : WF_vars(up /\ BuildSubmit(c))
  /\ \A r \in Runs : WF_vars(up /\ BuildStep(r))
  /\ \A j \in Jobs \ Runs : WF_vars(up /\ (Take(j) \/ Release(j) \/ Retire(j))
                                       /\ OtherJobStep(j))
  /\ WF_vars(Restart)

FairSpec == Spec /\ Fairness
-----------------------------------------------------------------------------
Holding == {"persist", "submit", "cancel"}
Working == {"begin", "resolve", "prepare", "native", "axis", "views"}

HandlerSteps == {"idle", "update", "audit", "persist", "submit", "cancel",
                 "checkRun", "publish", "conflict"}
ThreadSteps == Working \cup {"none", "auditFailure", "auditSuccess", "exit"}

(* What a row that exists, and a handler in the middle of a request,       *)
(* cannot be without.                                                      *)
RowsComplete ==
  /\ \A d \in Drafts : DraftExists(d) => draft[d].doc \in Docs
  /\ \A r \in Runs : build[r].state # "ABSENT" => build[r].draft \in Drafts /\ build[r].doc \in Docs

RequestsComplete ==
  \A c \in Clients :
    /\ pc[c] \in {"update"} \cup Holding => req[c].draft \in Drafts /\ req[c].doc \in Docs
    /\ pc[c] \in Holding \cup {"checkRun", "publish"} => req[c].run \in Runs

(* Type invariant.                                                         *)
TypeOK ==
  /\ JobsTypeOK
  /\ draft \in [Drafts -> DraftRow]
  /\ build \in [Runs -> BuildRow]
  /\ version \in [Versions -> VersionRow]
  /\ RowsComplete
  /\ audit \subseteq Events
  /\ pc \in [Clients -> HandlerSteps]
  /\ req \in [Clients -> Request]
  /\ RequestsComplete
  /\ wpc \in [Runs -> ThreadSteps]
  /\ found \in [Runs -> [ok : BOOLEAN, manifest : Manifests]]
  /\ expired \in [Runs -> BOOLEAN]
  /\ up \in BOOLEAN
  /\ crashes \in Nat /\ faults \in Nat

(* Every build row has at most one party that may write it: first the      *)
(* handler that holds its reservation, then, once submitted, the thread    *)
(* that runs it, and only while the row is in flight; a stopped server has *)
(* neither, so that the next start may write.  update_curve_lab_build_run  *)
(* replaces the row without looking, so this is all that protects it.      *)
HandlersHold ==
  \A c \in Clients : pc[c] \in Holding =>
    /\ resv[req[c].run] \in {"held", "refused"}
    /\ pc[c] = "persist" => resv[req[c].run] = "held" /\ build[req[c].run].state = "ABSENT"
    /\ pc[c] = "submit" => resv[req[c].run] = "held" /\ build[req[c].run].state = "QUEUED"
    /\ \A e \in Clients \ {c} : pc[e] \in Holding => req[e].run # req[c].run

ThreadsHold ==
  \A r \in Runs :
    /\ resv[r] = "queued" => build[r].state = "QUEUED"
    /\ resv[r] = "running" <=> wpc[r] # "none"
    /\ wpc[r] \in Working => build[r].state \in InFlight
    /\ wpc[r] = "auditSuccess" => build[r].state = "SUCCEEDED"
    /\ wpc[r] = "auditFailure" => build[r].state = "FAILED"

NothingRunsWhileDown ==
  ~up => /\ \A c \in Clients : pc[c] = "idle"
         /\ \A j \in Jobs : resv[j] \in {"none", "done"}

OneWriterPerRow == HandlersHold /\ ThreadsHold /\ NothingRunsWhileDown

(* A draft revision names one document, for ever: a build row or a version *)
(* that carries (draft, revision) carries the document every other bearer  *)
(* of that revision carries.  Two editors who both read revision n, or a   *)
(* build that read the draft before an edit and persists after it, must    *)
(* not break this; update_draft's two-step read-then-compare-and-swap is   *)
(* what keeps it.                                                          *)
RevisionNamesOneDocument ==
  /\ \A r \in Runs : build[r].state # "ABSENT" =>
       /\ build[r].rev <= draft[build[r].draft].rev
       /\ build[r].rev = draft[build[r].draft].rev => build[r].doc = draft[build[r].draft].doc
  /\ \A r, s \in Runs : build[r].draft = build[s].draft /\ build[r].rev = build[s].rev
                          => build[r].doc = build[s].doc

(* A published version is the run it cites: successful, and the same       *)
(* draft, revision, document, dependency manifest and payload, for as long *)
(* as both rows exist.  create_version assembles the record from two reads *)
(* made before the publishing transaction, and the worker, a restart or    *)
(* another request could have rewritten either row meanwhile.              *)
VersionMatchesBuild ==
  \A v \in Versions : VersionExists(v) /\ version[v].run # None =>
    LET r == build[version[v].run] IN
    /\ r.state = "SUCCEEDED"
    /\ <<version[v].draft, version[v].rev, version[v].doc>> = <<r.draft, r.rev, r.doc>>
    /\ <<version[v].manifest, version[v].payload>> = <<r.manifest, r.payload>>

(* An idempotency key is never spent twice, however many retries of a      *)
(* publication are in flight.                                              *)
KeysUnique == \A k \in Keys : Cardinality(KeyOwners(k)) <= 1

(* The evidence of a successful run is complete and stays true: its        *)
(* manifest names every dependency of its document, with the payload that  *)
(* version still has.  The manifest is resolved several steps before the   *)
(* row succeeds, while versions are being published and archived.          *)
BuildEvidenceHolds ==
  \A r \in Runs : build[r].state = "SUCCEEDED" =>
    /\ build[r].payload = r
    /\ {entry[1] : entry \in build[r].manifest} = Deps[build[r].doc]
    /\ \A entry \in build[r].manifest : version[entry[1]].payload = entry[2]

(* Without a failed store call, a row in flight always has somebody who    *)
(* will finish it: a handler about to submit it, or the executor.  After a *)
(* crash it is the restart that must leave none behind.                    *)
NoOrphanRows ==
  up /\ faults = 0 =>
    \A r \in Runs : build[r].state \in InFlight =>
      \/ \E c \in Clients : pc[c] = "submit" /\ req[c].run = r
      \/ resv[r] \in {"queued", "running"}

(* The audit trail never contradicts the tables: what it reports happened, *)
(* and was not undone.  The event is a store call after the write it       *)
(* reports, with crashes, restarts and other requests in between.          *)
AuditTruthful ==
  \A event \in audit :
    /\ event[1] = "BUILD_SUCCEEDED" => build[event[2]].state = "SUCCEEDED"
    /\ event[1] = "BUILD_FAILED" => build[event[2]].state = "FAILED"
    /\ event[1] = "VERSION_CREATED" => VersionExists(event[2]) /\ version[event[2]].run # None
    /\ event[1] = "VERSION_ARCHIVED" => version[event[2]].visibility = "ARCHIVED"

(* A terminal build row is never written again: not by the thread that     *)
(* finished it, a late deadline, a fault on the way out, or the            *)
(* reconciliation of the next start.                                       *)
TerminalBuildsImmutable ==
  [][\A r \in Runs : build[r].state \in Terminal => build'[r] = build[r]]_vars

(* A version never changes after it is published, except that it may be    *)
(* archived, and an archived version never comes back.                     *)
VersionsImmutable ==
  [][\A v \in Versions : VersionExists(v) =>
       version'[v] \in {version[v], [version[v] EXCEPT !.visibility = "ARCHIVED"]}]_vars

(* No version is published on top of a dependency that is archived at that *)
(* moment, although the build resolved it when it was visible and the      *)
(* handler copied the manifest before the transaction.                     *)
NoPublicationOnArchivedDependency ==
  [][\A v \in Versions : ~VersionExists(v) /\ VersionExists(v)' =>
       \A entry \in version'[v].manifest : version[entry[1]].visibility = "VISIBLE"]_vars

(* A build that was accepted ends, whatever the dependencies, the native   *)
(* library, the deadline and a crash do to it, unless a store call fails.  *)
BuildsSettle ==
  \A r \in Runs : build[r].state = "QUEUED" ~> build[r].state \in Terminal \/ faults > 0

(* The lifecycle implements the library its users see.  A run exists from  *)
(* the moment its handler has read the draft; it is dropped when its row   *)
(* never gets written.                                                     *)
LibraryRun(r) ==
  LET snapshot(row) == [draft |-> row.draft, rev |-> row.rev, doc |-> row.doc]
      persisting == {c \in Clients : pc[c] = "persist" /\ req[c].run = r}
      run(status, s) == [status |-> status, snapshot |-> s] IN
  CASE build[r].state = "SUCCEEDED"             -> run("succeeded", snapshot(build[r]))
    [] build[r].state \in {"FAILED", "TIMED_OUT"} -> run("failed", snapshot(build[r]))
    [] build[r].state \in InFlight              -> run("pending", snapshot(build[r]))
    [] build[r].state = "ABSENT" ->
         IF persisting # {}
         THEN run("pending", snapshot(req[CHOOSE c \in persisting : TRUE]))
         ELSE run(IF resv[r] = "none" THEN "absent" ELSE "dropped", snapshot(NoBuild))

LibraryEntry(v) ==
  LET row == version[v] IN
  [visibility |-> row.visibility, run |-> row.run, key |-> row.key, payload |-> row.payload,
   snapshot |-> [draft |-> row.draft, rev |-> row.rev, doc |-> row.doc]]

Library == INSTANCE CurveLibrary WITH
             run <- [r \in Runs |-> LibraryRun(r)],
             library <- [v \in Versions |-> LibraryEntry(v)]
LibrarySpec == Library!LibrarySpec
-----------------------------------------------------------------------------
(* README.md:163: every job has a soft deadline checked between native     *)
(* calls.  No native call starts after the deadline has passed.            *)
NativeCallsWithinDeadline ==
  [][\A r \in Runs : wpc[r] = "axis" /\ wpc'[r] = "views" => ~expired[r]]_vars

(* docs/curve-lab.md:201: an identical idempotent replay returns the       *)
(* existing version, it is not refused.                                    *)
ReplayReturnsExisting ==
  [][\A c \in Clients : pc[c] # "conflict" /\ pc'[c] = "conflict" =>
       \A v \in KeyOwners(req'[c].key) :
         \/ version[v].run # req'[c].run
         \/ <<version[v].draft, version[v].rev, version[v].doc>>
              # <<req'[c].draft, req'[c].rev, req'[c].doc>>]_vars
=============================================================================

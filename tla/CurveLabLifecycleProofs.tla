----------------------- MODULE CurveLabLifecycleProofs ----------------------
(***************************************************************************)
(* What CurveLabLifecycle guarantees for any number of clients, drafts,    *)
(* runs, versions and documents, any executor bounds, any number of        *)
(* crashes and failed store calls.                                         *)
(*                                                                         *)
(* The argument: at most one party may write a build row (OneWriterPerRow, *)
(* which rests on the executor's own invariant), that party only writes it *)
(* while it is in flight, so a terminal row never changes; hence what      *)
(* create_version copied from a successful row is still there when the     *)
(* version is published, and for ever after.                               *)
(*                                                                         *)
(* On top of that, one strengthened invariant per promise: snapshots that  *)
(* agree (RevisionNamesOneDocument), evidence that a thread carries before *)
(* its row succeeds (BuildEvidenceHolds), events that are true before they *)
(* are written (AuditTruthful), rows in flight that somebody tends         *)
(* (NoOrphanRows).  The last part joins them: every step of the lifecycle  *)
(* is a step of CurveLibrary under the refinement mapping LibraryRun and   *)
(* LibraryEntry, or changes nothing there.                                 *)
(***************************************************************************)
EXTENDS CurveLabLifecycle, CurveLabJobsProofs

HandlersTypeOK ==
  pc \in [Clients -> HandlerSteps] /\ req \in [Clients -> Request] /\ RequestsComplete

StoreTypeOK ==
  /\ draft \in [Drafts -> DraftRow]
  /\ build \in [Runs -> BuildRow]
  /\ version \in [Versions -> VersionRow]
  /\ RowsComplete
  /\ audit \subseteq Events

ThreadsTypeOK ==
  /\ wpc \in [Runs -> ThreadSteps]
  /\ found \in [Runs -> [ok : BOOLEAN, manifest : Manifests]]

EnvTypeOK ==
  /\ expired \in [Runs -> BOOLEAN]
  /\ up \in BOOLEAN
  /\ crashes \in Nat /\ faults \in Nat

LEMMA TypeParts ==
  TypeOK <=> JobsTypeOK /\ StoreTypeOK /\ HandlersTypeOK /\ ThreadsTypeOK /\ EnvTypeOK
  BY DEF TypeOK, StoreTypeOK, HandlersTypeOK, ThreadsTypeOK, EnvTypeOK

LEMMA TypePartsNext ==
  (JobsTypeOK /\ StoreTypeOK /\ HandlersTypeOK /\ ThreadsTypeOK /\ EnvTypeOK)' => TypeOK'
  BY DEF TypeOK, StoreTypeOK, HandlersTypeOK, ThreadsTypeOK, EnvTypeOK

LEMMA NoManifest == {} \in Manifests
  BY DEF Manifests

LEMMA RequestType ==
  /\ NoRequest \in Request
  /\ \A action \in AuditActions, target \in Drafts \cup Runs \cup Versions :
       [NoRequest EXCEPT !.event = <<action, target>>] \in Request
  BY NoManifest DEF NoRequest, Request, Events

(* A handler step writes one well-typed entry of pc and of req.            *)
LEMMA ContinueType ==
  ASSUME HandlersTypeOK, NEW c \in Clients, NEW step \in HandlerSteps, NEW q \in Request,
         step \in {"update"} \cup Holding => q.draft \in Drafts /\ q.doc \in Docs,
         step \in Holding \cup {"checkRun", "publish"} => q.run \in Runs,
         Continue(c, step, q)
  PROVE  HandlersTypeOK'
<1>1. pc' = [pc EXCEPT ![c] = step] /\ req' = [req EXCEPT ![c] = q]
  BY DEF Continue
<1>2. pc' \in [Clients -> HandlerSteps] /\ req' \in [Clients -> Request]
  BY <1>1 DEF HandlersTypeOK
<1>3. RequestsComplete'
  BY <1>1 DEF HandlersTypeOK, RequestsComplete
<1> QED
  BY <1>2, <1>3 DEF HandlersTypeOK

LEMMA FinishType ==
  ASSUME HandlersTypeOK, NEW c \in Clients, Finish(c)
  PROVE  HandlersTypeOK'
  BY ContinueType, RequestType DEF Finish, HandlerSteps, Holding

LEMMA AuditNextType ==
  ASSUME HandlersTypeOK, NEW c \in Clients, NEW action \in AuditActions,
         NEW target \in Drafts \cup Runs \cup Versions, AuditNext(c, action, target)
  PROVE  HandlersTypeOK'
  BY ContinueType, RequestType DEF AuditNext, HandlerSteps, Holding

(* The handlers' own variables.                                            *)
LEMMA HandlersTypeStep ==
  ASSUME TypeOK, NEW c \in Clients, HandlerStep(c)
  PROVE  HandlersTypeOK'
<1> USE TypeParts
<1>0. HandlersTypeOK /\ StoreTypeOK
  OBVIOUS
<1>1. ASSUME NEW d \in Drafts, NEW doc \in Docs, CreateDraft(c, d, doc)
      PROVE  HandlersTypeOK'
  BY <1>1, AuditNextType DEF CreateDraft, AuditActions
<1>2. ASSUME NEW d \in Drafts, NEW doc \in Docs, NEW n \in 1..MaxRevision,
             UpdateRead(c, d, n, doc)
      PROVE  HandlersTypeOK'
  <2> DEFINE q == [NoRequest EXCEPT !.draft = d, !.rev = n, !.doc = doc]
  <2>1. n \in Nat
    BY LifecycleAssumption
  <2>2. q \in Request /\ q.draft = d /\ q.doc = doc
    BY <2>1, RequestType DEF Request, NoRequest
  <2> QED
    BY <1>2, <2>2, ContinueType DEF UpdateRead, HandlerSteps, Holding
<1>3. ASSUME NEW v \in Versions, NEW d \in Drafts, NEW doc \in Docs,
             CloneVersion(c, v, d, doc)
      PROVE  HandlersTypeOK'
  BY <1>3, AuditNextType DEF CloneVersion, AuditActions
<1>4. CASE UpdateConflict(c) \/ Audit(c) \/ AuditRaises(c) \/ BuildSubmit(c)
             \/ BuildCancel(c) \/ PublishExisting(c) \/ Refuse(c)
  BY <1>4, FinishType
  DEF UpdateConflict, Audit, AuditRaises, BuildSubmit, BuildCancel, PublishExisting, Refuse
<1>5. CASE UpdateWrite(c)
  <2>1. req[c].draft \in Drafts
    BY <1>0, <1>5 DEF UpdateWrite, HandlersTypeOK, RequestsComplete
  <2> QED
    BY <1>5, <2>1, AuditNextType DEF UpdateWrite, AuditActions
<1>6. ASSUME NEW d \in Drafts, NEW r \in Runs, BuildRead(c, d, r)
      PROVE  HandlersTypeOK'
  <2> DEFINE q == [NoRequest EXCEPT !.draft = d, !.rev = draft[d].rev,
                                    !.doc = draft[d].doc, !.run = r]
  <2>1. q \in Request /\ q.draft = d /\ q.run = r /\ q.doc = draft[d].doc
    BY <1>0, RequestType DEF Request, NoRequest, StoreTypeOK, DraftRow
  <2>2. draft[d].doc \in Docs
    BY <1>0, <1>6 DEF BuildRead, StoreTypeOK, RowsComplete
  <2> QED
    BY <1>6, <2>2, <2>1, ContinueType DEF BuildRead, HandlerSteps, Holding
<1>7. CASE BuildPersist(c) \/ BuildPersistRaises(c) \/ BuildSubmitRaises(c)
             \/ PublishConflict(c)
  <2>1. /\ req[c] \in Request /\ req[c].run \in Runs
        /\ pc[c] \in Holding => req[c].draft \in Drafts /\ req[c].doc \in Docs
    BY <1>0, <1>7
    DEF BuildPersist, BuildPersistRaises, BuildSubmitRaises, PublishConflict,
        HandlersTypeOK, RequestsComplete, Holding
  <2> QED
    BY <1>7, <2>1, ContinueType
    DEF BuildPersist, BuildPersistRaises, BuildSubmitRaises, PublishConflict, HandlerSteps,
        Holding
<1>8. ASSUME NEW d \in Drafts, NEW r \in Runs, NEW k \in Keys, PublishReadDraft(c, d, r, k)
      PROVE  HandlersTypeOK'
  <2> DEFINE q == [NoRequest EXCEPT !.draft = d, !.rev = draft[d].rev,
                                    !.doc = draft[d].doc, !.run = r, !.key = k]
  <2>1. q \in Request /\ q.draft = d /\ q.run = r
    BY <1>0, RequestType DEF Request, NoRequest, StoreTypeOK, DraftRow
  <2> QED
    BY <1>8, <2>1, ContinueType DEF PublishReadDraft, HandlerSteps, Holding
<1>9. ASSUME NEW r \in Runs, NEW k \in Keys, PublishDraftStale(c, r, k)
      PROVE  HandlersTypeOK'
  <2>1. [NoRequest EXCEPT !.draft = build[r].draft, !.rev = build[r].rev,
                          !.doc = build[r].doc, !.run = r, !.key = k] \in Request
    BY <1>0, RequestType DEF Request, NoRequest, StoreTypeOK, BuildRow
  <2> QED
    BY <1>9, <2>1, ContinueType DEF PublishDraftStale, HandlerSteps, Holding
<1>10. CASE PublishCheckRun(c)
  <2> DEFINE q == [req[c] EXCEPT !.manifest = build[req[c].run].manifest,
                                 !.payload = build[req[c].run].payload]
  <2>1. req[c] \in Request /\ req[c].run \in Runs
    BY <1>0, <1>10 DEF PublishCheckRun, HandlersTypeOK, RequestsComplete
  <2>2. build[req[c].run].manifest \in Manifests
        /\ build[req[c].run].payload \in Runs \cup {None}
    BY <1>0, <2>1 DEF StoreTypeOK, BuildRow
  <2>3. q \in Request /\ q.run = req[c].run
    BY <2>1, <2>2 DEF Request
  <2>4. Continue(c, "publish", q) \/ Continue(c, "conflict", req[c])
    BY <1>10 DEF PublishCheckRun
  <2> QED
    BY <2>1, <2>3, <2>4, ContinueType DEF HandlerSteps, Holding
<1>11. ASSUME NEW v \in Versions, PublishCreate(c, v) \/ Archive(c, v)
       PROVE  HandlersTypeOK'
  BY <1>11, AuditNextType DEF PublishCreate, Archive, AuditActions
<1> QED
  BY <1>1, <1>2, <1>3, <1>4, <1>5, <1>6, <1>7, <1>8, <1>9, <1>10, <1>11 DEF HandlerStep

(* A row written by a thread: every state it writes is one, and the        *)
(* manifest is one it resolved.                                            *)
LEMMA RecordType ==
  ASSUME TypeOK, NEW r \in Runs, build[r].state # "ABSENT",
         NEW state \in InFlight \cup Terminal,
         NEW m \in Manifests, NEW step \in ThreadSteps, Record(r, state, m, step)
  PROVE  StoreTypeOK' /\ ThreadsTypeOK'
<1> USE TypeParts
<1>1. build' = [build EXCEPT ![r] = [build[r] EXCEPT !.state = state, !.manifest = m]]
  BY DEF Record, PutBuild
<1>2. [build[r] EXCEPT !.state = state, !.manifest = m] \in BuildRow
  BY DEF StoreTypeOK, BuildRow
<1>3. UNCHANGED <<draft, version, audit, found>> /\ wpc' = [wpc EXCEPT ![r] = step]
  BY DEF Record, Thread
<1>4. RowsComplete'
  BY <1>1, <1>3 DEF StoreTypeOK, RowsComplete, BuildRow, DraftExists
<1> QED
  BY <1>1, <1>2, <1>3, <1>4 DEF StoreTypeOK, ThreadsTypeOK

(* The tables, under a handler step.                                       *)
LEMMA StoreTypeHandler ==
  ASSUME TypeOK, NEW c \in Clients, HandlerStep(c)
  PROVE  StoreTypeOK'
<1> USE TypeParts
<1>0. StoreTypeOK /\ HandlersTypeOK
  OBVIOUS
<1>1. ASSUME NEW d \in Drafts, NEW doc \in Docs,
             \/ CreateDraft(c, d, doc)
             \/ \E v \in Versions : CloneVersion(c, v, d, doc)
      PROVE  StoreTypeOK'
  <2>1. [rev |-> 1, doc |-> doc] \in DraftRow
    BY DEF DraftRow
  <2>2. draft' = [draft EXCEPT ![d] = [rev |-> 1, doc |-> doc]]
        /\ UNCHANGED <<build, version, audit>>
    BY <1>1 DEF CreateDraft, CloneVersion, AddDraft
  <2>3. RowsComplete'
    BY <1>0, <2>2 DEF StoreTypeOK, RowsComplete, DraftExists
  <2> QED
    BY <1>0, <2>1, <2>2, <2>3 DEF StoreTypeOK
<1>2. CASE UpdateWrite(c)
  <2> DEFINE row == [rev |-> req[c].rev + 1, doc |-> req[c].doc]
  <2>1. req[c] \in Request /\ req[c].doc \in Docs
    BY <1>0, <1>2 DEF UpdateWrite, HandlersTypeOK, RequestsComplete
  <2>2. row \in DraftRow
    BY <2>1 DEF Request, DraftRow
  <2>3. draft' = [draft EXCEPT ![req[c].draft] = row] /\ UNCHANGED <<build, version, audit>>
    BY <1>2 DEF UpdateWrite, CasDraft
  <2>4. RowsComplete'
    BY <1>0, <2>1, <2>3 DEF StoreTypeOK, RowsComplete, DraftExists
  <2> QED
    BY <1>0, <2>2, <2>3, <2>4 DEF StoreTypeOK
<1>3. CASE Audit(c)
  <2>1. req[c].event \in Events
    BY <1>0 DEF HandlersTypeOK, Request
  <2> QED
    BY <1>0, <1>3, <2>1 DEF Audit, StoreTypeOK, RowsComplete, DraftExists
<1>4. CASE BuildPersist(c)
  <2> DEFINE row == [NoBuild EXCEPT !.state = "QUEUED", !.draft = req[c].draft,
                                    !.rev = req[c].rev, !.doc = req[c].doc]
  <2>1. req[c] \in Request /\ req[c].draft \in Drafts /\ req[c].doc \in Docs
    BY <1>0, <1>4 DEF BuildPersist, HandlersTypeOK, RequestsComplete, Holding
  <2>2. row \in BuildRow
    BY <2>1, NoManifest DEF Request, NoBuild, BuildRow, InFlight
  <2>3. build' = [build EXCEPT ![req[c].run] = row] /\ UNCHANGED <<draft, version, audit>>
    BY <1>4 DEF BuildPersist, PutBuild
  <2>4. RowsComplete'
    BY <1>0, <2>1, <2>3 DEF StoreTypeOK, RowsComplete, DraftExists, NoBuild
  <2> QED
    BY <1>0, <2>2, <2>3, <2>4 DEF StoreTypeOK
<1>5. ASSUME NEW v \in Versions, PublishCreate(c, v) PROVE StoreTypeOK'
  <2> DEFINE row == [visibility |-> "VISIBLE", draft |-> req[c].draft, rev |-> req[c].rev,
                     doc |-> req[c].doc, run |-> req[c].run, key |-> req[c].key,
                     manifest |-> req[c].manifest, payload |-> req[c].payload]
  <2>1. req[c] \in Request
    BY <1>0 DEF HandlersTypeOK
  <2>2. row \in VersionRow
    BY <2>1 DEF Request, VersionRow, Payloads
  <2>3. version' = [version EXCEPT ![v] = row] /\ UNCHANGED <<draft, build, audit>>
    BY <1>5 DEF PublishCreate, InsertVersion
  <2> QED
    BY <1>0, <2>2, <2>3 DEF StoreTypeOK, RowsComplete, DraftExists
<1>6. ASSUME NEW v \in Versions, Archive(c, v) PROVE StoreTypeOK'
  <2>1. [version[v] EXCEPT !.visibility = "ARCHIVED"] \in VersionRow
    BY <1>0 DEF StoreTypeOK, VersionRow
  <2>2. version' = [version EXCEPT ![v] = [version[v] EXCEPT !.visibility = "ARCHIVED"]]
        /\ UNCHANGED <<draft, build, audit>>
    BY <1>6 DEF Archive, ArchiveRow
  <2> QED
    BY <1>0, <2>1, <2>2 DEF StoreTypeOK, RowsComplete, DraftExists
<1>7. CASE UNCHANGED storeVars
  BY <1>0, <1>7 DEF StoreTypeOK, RowsComplete, DraftExists, storeVars
<1>8. HandlerStep(c) =>
        \/ UNCHANGED storeVars
        \/ \E d \in Drafts, doc \in Docs :
             CreateDraft(c, d, doc) \/ \E v \in Versions : CloneVersion(c, v, d, doc)
        \/ UpdateWrite(c) \/ Audit(c) \/ BuildPersist(c)
        \/ \E v \in Versions : PublishCreate(c, v) \/ Archive(c, v)
  BY DEF HandlerStep, UpdateRead, UpdateConflict, AuditRaises, BuildRead, BuildPersistRaises,
         BuildSubmit, BuildSubmitRaises, BuildCancel, PublishReadDraft, PublishDraftStale,
         PublishCheckRun, PublishConflict, PublishExisting, Refuse
<1> QED
  BY <1>1, <1>2, <1>3, <1>4, <1>5, <1>6, <1>7, <1>8

(* The two steps at which a thread writes an audit event.                  *)
LEMMA AuditSteps ==
  /\ DOMAIN AuditEvent = {"auditFailure", "auditSuccess"}
  /\ AuditEvent["auditFailure"] = "BUILD_FAILED"
  /\ AuditEvent["auditSuccess"] = "BUILD_SUCCEEDED"
BY DEF AuditEvent

(* The tables and the threads' own variables, under a thread step.         *)
LEMMA BuildTypeStep ==
  ASSUME TypeOK, ThreadsHold, NEW r \in Runs, BuildStep(r)
  PROVE  StoreTypeOK' /\ ThreadsTypeOK'
<1> USE TypeParts DEF ThreadSteps, Working, InFlight, Terminal
<1>a. wpc[r] \in Working => build[r].state # "ABSENT"
  BY DEF ThreadsHold
<1>0. StoreTypeOK /\ ThreadsTypeOK /\ found[r].manifest \in Manifests /\ {} \in Manifests
  BY NoManifest DEF ThreadsTypeOK
<1>1. CASE BuildBegin(r) \/ BuildPrepare(r) \/ NativeFails(r)
           \/ (BuildNative(r) /\ expired[r])
  <2>1. \E state \in InFlight \cup Terminal, m \in Manifests, step \in ThreadSteps :
          Record(r, state, m, step)
    BY <1>0, <1>1 DEF BuildBegin, BuildPrepare, NativeFails, BuildNative
  <2>2. build[r].state # "ABSENT"
    BY <1>1, <1>a DEF BuildBegin, BuildPrepare, NativeFails, BuildNative
  <2> QED
    BY <2>1, <2>2, RecordType
<1>2. CASE BuildResolve(r)
  <2>1. PICK S \in SUBSET {v \in Deps[build[r].doc] : UsableDependency(v)}, ok \in BOOLEAN :
          found' = [found EXCEPT ![r] = [ok |-> ok, manifest |-> ManifestOf(S)]]
    BY <1>2 DEF BuildResolve
  <2>2. S \subseteq Versions
    <3>1. build[r].doc \in Docs
      BY <1>0, <1>2, <1>a DEF BuildResolve, StoreTypeOK, RowsComplete
    <3> QED
      BY <3>1, StoreAssumption
  <2>3. ManifestOf(S) \in Manifests
    BY <1>0, <2>2 DEF ManifestOf, Manifests, StoreTypeOK, VersionRow
  <2> QED
    BY <1>0, <1>2, <2>1, <2>3 
    DEF BuildResolve, Thread, storeVars, StoreTypeOK, RowsComplete, DraftExists, ThreadsTypeOK
<1>3. CASE BuildViews(r)
  <2> DEFINE row == [build[r] EXCEPT !.state = "SUCCEEDED", !.payload = r,
                                     !.manifest = found[r].manifest]
  <2>1. row \in BuildRow
    BY <1>0 DEF StoreTypeOK, BuildRow
  <2>2. build' = [build EXCEPT ![r] = row] /\ UNCHANGED <<draft, version, audit, found>>
        /\ wpc' = [wpc EXCEPT ![r] = "auditSuccess"]
    BY <1>3 DEF BuildViews, PutBuild, Thread
  <2>3. RowsComplete'
    BY <1>0, <1>3, <1>a, <2>2 DEF BuildViews, StoreTypeOK, RowsComplete, DraftExists, BuildRow
  <2> QED
    BY <1>0, <2>1, <2>2, <2>3 DEF StoreTypeOK, ThreadsTypeOK
<1>4. CASE AuditBuild(r)
  <2>1. AuditEvent[wpc[r]] \in AuditActions
    BY <1>4, AuditSteps DEF AuditBuild, AuditActions
  <2>2. <<AuditEvent[wpc[r]], r>> \in Events
    BY <2>1 DEF Events
  <2> QED
    BY <1>0, <1>4, <2>2
    DEF AuditBuild, Thread, StoreTypeOK, RowsComplete, DraftExists, ThreadsTypeOK
<1>5. CASE TakeBuild(r) \/ BuildAxis(r) \/ WorkerRaises(r) \/ ExitBuild(r)
           \/ (BuildNative(r) /\ ~expired[r])
  BY <1>0, <1>5
  DEF TakeBuild, BuildAxis, WorkerRaises, ExitBuild, BuildNative, Thread, storeVars,
      StoreTypeOK, RowsComplete, DraftExists, ThreadsTypeOK
<1>6. CASE RetireBuild(r)
  BY <1>0, <1>6
  DEF RetireBuild, storeVars, threadVars, StoreTypeOK, RowsComplete, DraftExists,
      ThreadsTypeOK
<1> QED
  BY <1>1, <1>2, <1>3, <1>4, <1>5, <1>6 DEF BuildStep

(* Handlers leave the threads alone and threads the handlers; neither      *)
(* starts or stops the server.                                             *)
LEMMA HandlerFrame ==
  ASSUME NEW c \in Clients, HandlerStep(c)
  PROVE  UNCHANGED <<threadVars, expired, up, crashes>> /\ faults' \in {faults, faults + 1}
  BY DEF HandlerStep, CreateDraft, UpdateRead, UpdateWrite, UpdateConflict, CloneVersion, Audit,
         AuditRaises, BuildRead, BuildPersist, BuildPersistRaises, BuildSubmit,
         BuildSubmitRaises, BuildCancel, PublishReadDraft, PublishDraftStale, PublishCheckRun,
         PublishConflict, PublishExisting, PublishCreate, Refuse, Archive, Fault, envVars

LEMMA BuildFrame ==
  ASSUME NEW r \in Runs, BuildStep(r)
  PROVE  UNCHANGED <<handlerVars, expired, up, crashes, draft, version>>
         /\ faults' \in {faults, faults + 1}
  BY DEF BuildStep, TakeBuild, BuildBegin, BuildResolve, BuildPrepare, BuildNative, BuildAxis,
         BuildViews, NativeFails, AuditBuild, WorkerRaises, ExitBuild, RetireBuild, Record,
         Fault, envVars, storeVars

(* Outside of a crash the lifecycle only uses the executor's operations.   *)
LEMMA UsesExecutor ==
  ASSUME TypeOK, [Next]_vars
  PROVE  [JobsNext]_jobVars \/ Crash
<1>0. Runs \subseteq Jobs
  BY LifecycleAssumption
<1>1. ASSUME NEW c \in Clients, HandlerStep(c) PROVE [JobsNext]_jobVars
  <2>1. CASE UNCHANGED jobVars
    BY <2>1
  <2>2. ASSUME NEW d \in Drafts, NEW r \in Runs, BuildRead(c, d, r) PROVE JobsNext
    BY <1>0, <2>2 DEF BuildRead, JobsNext
  <2>3. CASE BuildSubmit(c) \/ BuildSubmitRaises(c) \/ BuildCancel(c)
    <3>1. req[c].run \in Jobs
      BY <1>0, <2>3
      DEF BuildSubmit, BuildSubmitRaises, BuildCancel, TypeOK, RequestsComplete, Holding
    <3> QED
      BY <2>3, <3>1 DEF BuildSubmit, BuildSubmitRaises, BuildCancel, JobsNext
  <2>4. \/ UNCHANGED jobVars
        \/ \E d \in Drafts, r \in Runs : BuildRead(c, d, r)
        \/ BuildSubmit(c) \/ BuildSubmitRaises(c) \/ BuildCancel(c)
    BY <1>1
    DEF HandlerStep, CreateDraft, UpdateRead, UpdateWrite, UpdateConflict, CloneVersion, Audit,
        AuditRaises, BuildPersist, BuildPersistRaises, PublishReadDraft, PublishDraftStale,
        PublishCheckRun, PublishConflict, PublishExisting, PublishCreate, Refuse, Archive
  <2> QED
    BY <2>1, <2>2, <2>3, <2>4
<1>2. ASSUME NEW r \in Runs, BuildStep(r) PROVE [JobsNext]_jobVars
  <2>1. UNCHANGED jobVars \/ Take(r) \/ Release(r) \/ Retire(r)
    BY <1>2
    DEF BuildStep, TakeBuild, BuildBegin, BuildResolve, BuildPrepare, BuildNative, BuildAxis,
        BuildViews, NativeFails, AuditBuild, WorkerRaises, ExitBuild, RetireBuild, Record
  <2> QED
    BY <1>0, <2>1 DEF JobsNext
<1>3. ASSUME NEW j \in Jobs \ Runs, OtherJobStep(j) PROVE [JobsNext]_jobVars
  BY <1>3 DEF OtherJobStep, JobsNext
<1>4. CASE Restart \/ (\E r \in Runs : Expire(r)) \/ UNCHANGED vars
  BY <1>4 DEF Restart, Expire, vars
<1> QED
  BY <1>1, <1>2, <1>3, <1>4 DEF Next

(* The executor's invariant survives the lifecycle, crashes included.      *)
LEMMA ExecutorStep ==
  ASSUME TypeOK, JobsInv, [Next]_vars
  PROVE  JobsInv'
<1>1. CASE [JobsNext]_jobVars
  BY <1>1, JobsTypeStep, QueueStep, AccountingStep, WorkersStep DEF JobsInv
<1>2. CASE Crash
  <2>1. JobsTypeOK'
    BY <1>2, CapacityNat DEF Crash, JobsTypeOK, Statuses
  <2>2. Outstanding' = {} /\ BusyWorkers' = {}
    BY <1>2 DEF Crash, Outstanding, BusyWorkers, InState
  <2>3. IsFiniteSet({}) /\ Cardinality({}) = 0
    BY FS_EmptySet
  <2>4. FinitelyMany'
    BY <2>2, <2>3 DEF FinitelyMany
  <2>5. PermitsAccountedFor' /\ WorkersBounded'
    BY <1>2, <2>2, <2>3, CapacityNat, JobsAssumption
    DEF Crash, PermitsAccountedFor, WorkersBounded, Capacity
  <2>6. QueueHoldsWaitingJobs'
    BY <1>2 DEF Crash, QueueHoldsWaitingJobs, InState
  <2> QED
    BY <2>1, <2>4, <2>5, <2>6 DEF JobsInv
<1> QED
  BY <1>1, <1>2, UsesExecutor

LEMMA TypeInit == Init => TypeOK
<1> SUFFICES ASSUME Init PROVE TypeOK
  OBVIOUS
<1> USE DEF Init
<1>1. JobsTypeOK
  BY JobsInitInv DEF JobsInv
<1>2. HandlersTypeOK
  BY RequestType DEF HandlersTypeOK, HandlerSteps, RequestsComplete, Holding
<1>3. StoreTypeOK
  <2>1. [rev |-> 0, doc |-> None] \in DraftRow /\ NoBuild \in BuildRow
    BY NoManifest DEF DraftRow, NoBuild, BuildRow
  <2>2. NoVersion \in VersionRow /\ \A v \in Versions : ImportedVersion(v) \in VersionRow
    BY NoManifest DEF NoVersion, ImportedVersion, VersionRow, Payloads
  <2> QED
    BY <2>1, <2>2 DEF StoreInit, StoreTypeOK, RowsComplete, DraftExists, NoBuild
<1>4. ThreadsTypeOK
  BY NoManifest DEF ThreadsTypeOK, ThreadSteps, Nothing
<1>5. EnvTypeOK
  BY DEF EnvTypeOK
<1> QED
  BY <1>1, <1>2, <1>3, <1>4, <1>5, TypeParts

LEMMA TypeStep ==
  ASSUME TypeOK, JobsInv, ThreadsHold, [Next]_vars
  PROVE  TypeOK'
<1>0. JobsTypeOK' /\ StoreTypeOK /\ HandlersTypeOK /\ ThreadsTypeOK /\ EnvTypeOK
  BY ExecutorStep, TypeParts DEF JobsInv
<1>1. ASSUME NEW c \in Clients, HandlerStep(c) PROVE TypeOK'
  BY <1>0, <1>1, HandlersTypeStep, StoreTypeHandler, HandlerFrame, TypePartsNext
  DEF threadVars, ThreadsTypeOK, EnvTypeOK
<1>2. ASSUME NEW r \in Runs, BuildStep(r) PROVE TypeOK'
  BY <1>0, <1>2, BuildTypeStep, BuildFrame, TypePartsNext
  DEF handlerVars, HandlersTypeOK, RequestsComplete, EnvTypeOK
<1>3. CASE (\E j \in Jobs \ Runs : OtherJobStep(j)) \/ UNCHANGED vars
  <2>1. UNCHANGED <<storeVars, handlerVars, threadVars, envVars>>
    BY <1>3 DEF OtherJobStep, vars
  <2> QED
    BY <1>0, <2>1, TypePartsNext
    DEF storeVars, handlerVars, threadVars, envVars, StoreTypeOK, RowsComplete, DraftExists,
        HandlersTypeOK, RequestsComplete, ThreadsTypeOK, EnvTypeOK
<1>4. CASE \E r \in Runs : Expire(r)
  BY <1>0, <1>4, TypePartsNext
  DEF Expire, storeVars, handlerVars, threadVars, StoreTypeOK, RowsComplete, DraftExists,
      HandlersTypeOK, RequestsComplete, ThreadsTypeOK, EnvTypeOK
<1>5. CASE Crash
  <2>1. HandlersTypeOK'
    BY <1>5, RequestType DEF Crash, HandlersTypeOK, HandlerSteps, RequestsComplete, Holding
  <2>2. StoreTypeOK'
    BY <1>0, <1>5 DEF Crash, storeVars, StoreTypeOK, RowsComplete, DraftExists
  <2>3. ThreadsTypeOK'
    <3>1. Nothing \in [ok : BOOLEAN, manifest : Manifests]
      BY NoManifest DEF Nothing
    <3> QED
      BY <1>5, <3>1 DEF Crash, ThreadsTypeOK, ThreadSteps
  <2>4. EnvTypeOK'
    <3>1. crashes' \in Nat /\ faults' \in Nat
      BY <1>0, <1>5 DEF Crash, EnvTypeOK
    <3>2. up' \in BOOLEAN /\ expired' \in [Runs -> BOOLEAN]
      BY <1>0, <1>5 DEF Crash, EnvTypeOK
    <3> QED
      BY <3>1, <3>2 DEF EnvTypeOK
  <2> QED
    BY <1>0, <2>1, <2>2, <2>3, <2>4, TypePartsNext
<1>6. CASE Restart
  <2>1. build' \in [Runs -> BuildRow] /\ RowsComplete'
    <3>1. \A r \in Runs :
            /\ build'[r] = build[r] \/ (build[r].state \in InFlight /\ \E s \in Terminal :
                                         build'[r] = [build[r] EXCEPT !.state = s])
            /\ build'[r] \in BuildRow
      BY <1>0, <1>6 DEF Restart, Reconcile, StoreTypeOK, BuildRow, Terminal
    <3>2. build' \in [Runs -> BuildRow]
      BY <1>6, <3>1 DEF Restart, Reconcile
    <3>3. UNCHANGED draft
      BY <1>6 DEF Restart
    <3> QED
      BY <1>0, <3>1, <3>2, <3>3 DEF StoreTypeOK, RowsComplete, DraftExists, BuildRow, InFlight
  <2> QED
    BY <1>0, <1>6, <2>1, TypePartsNext
    DEF Restart, handlerVars, threadVars, StoreTypeOK, HandlersTypeOK, RequestsComplete,
        ThreadsTypeOK, EnvTypeOK
<1> QED
  BY <1>1, <1>2, <1>3, <1>4, <1>5, <1>6 DEF Next
-----------------------------------------------------------------------------
LEMMA OneWriterInit == Init => OneWriterPerRow
  BY LifecycleAssumption
  DEF Init, JobsInit, OneWriterPerRow, HandlersHold, ThreadsHold, NothingRunsWhileDown,
      Holding, Working

(* What a handler step does to reservations and build rows: the step that  *)
(* makes it a holder, the three it makes as one, and all the others.       *)
LEMMA HandlerCases ==
  ASSUME TypeOK, NEW c \in Clients, HandlerStep(c)
  PROVE  \/ \E d \in Drafts, r \in Runs : BuildRead(c, d, r)
         \/ BuildPersist(c)
         \/ BuildPersistRaises(c)
         \/ BuildSubmit(c)
         \/ BuildSubmitRaises(c)
         \/ BuildCancel(c)
         \/ /\ pc[c] \notin Holding
            /\ UNCHANGED <<jobVars, build>>
            /\ \E step \in HandlerSteps \ Holding : \E q : Continue(c, step, q)
<1> USE DEF HandlerSteps, Holding, Finish, AuditNext
<1>1. ASSUME NEW d \in Drafts, NEW doc \in Docs,
             \/ CreateDraft(c, d, doc)
             \/ \E n \in 1..MaxRevision : UpdateRead(c, d, n, doc)
             \/ \E v \in Versions : CloneVersion(c, v, d, doc)
      PROVE  /\ pc[c] \notin Holding /\ UNCHANGED <<jobVars, build>>
             /\ \E step \in HandlerSteps \ Holding : \E q : Continue(c, step, q)
  BY <1>1 DEF CreateDraft, UpdateRead, CloneVersion, storeVars
<1>2. CASE UpdateWrite(c) \/ UpdateConflict(c) \/ Audit(c) \/ AuditRaises(c)
             \/ PublishConflict(c) \/ PublishExisting(c) \/ Refuse(c)
  BY <1>2
  DEF UpdateWrite, UpdateConflict, Audit, AuditRaises, PublishConflict, PublishExisting,
      Refuse, storeVars
<1>3. ASSUME NEW r \in Runs, NEW k \in Keys,
             \/ \E d \in Drafts : PublishReadDraft(c, d, r, k)
             \/ PublishDraftStale(c, r, k)
      PROVE  /\ pc[c] \notin Holding /\ UNCHANGED <<jobVars, build>>
             /\ \E step \in HandlerSteps \ Holding : \E q : Continue(c, step, q)
  BY <1>3 DEF PublishReadDraft, PublishDraftStale, storeVars
<1>4. CASE PublishCheckRun(c)
  BY <1>4 DEF PublishCheckRun, storeVars
<1>5. ASSUME NEW v \in Versions, PublishCreate(c, v) \/ Archive(c, v)
      PROVE  /\ pc[c] \notin Holding /\ UNCHANGED <<jobVars, build>>
             /\ \E step \in HandlerSteps \ Holding : \E q : Continue(c, step, q)
  BY <1>5 DEF PublishCreate, Archive
<1> QED
  BY <1>1, <1>2, <1>3, <1>4, <1>5 DEF HandlerStep

(* A handler takes a run nobody holds, keeps the run while it holds it,    *)
(* and writes its row once, before any thread could.                       *)
LEMMA OneWriterHandler ==
  ASSUME TypeOK, OneWriterPerRow, up, NEW c \in Clients, HandlerStep(c)
  PROVE  OneWriterPerRow'
<1> USE DEF OneWriterPerRow
<1>0. /\ pc \in [Clients -> HandlerSteps] /\ req \in [Clients -> Request]
      /\ build \in [Runs -> BuildRow] /\ resv \in [Jobs -> Statuses]
      /\ \A e \in Clients : pc[e] \in Holding => req[e].run \in Runs
      /\ Runs \subseteq Jobs
  BY LifecycleAssumption DEF TypeOK, RequestsComplete, JobsTypeOK
<1>1. UNCHANGED <<wpc, up>>
  BY HandlerFrame DEF threadVars
<1>2. NothingRunsWhileDown'
  BY <1>1 DEF NothingRunsWhileDown
<1>3. ASSUME NEW d \in Drafts, NEW r \in Runs, BuildRead(c, d, r)
      PROVE  HandlersHold' /\ ThreadsHold'
  <2>1. /\ pc' = [pc EXCEPT ![c] = "persist"] /\ UNCHANGED build
        /\ resv[r] = "none" /\ resv' = [resv EXCEPT ![r] = "held"] /\ build[r].state = "ABSENT"
    BY <1>3 DEF BuildRead, Continue, Reserve, storeVars
  <2>2. req'[c].run = r /\ \A e \in Clients \ {c} : req'[e] = req[e]
    BY <1>0, <1>3 DEF BuildRead, Continue, NoRequest
  <2>3. \A e \in Clients : pc[e] \in Holding => req[e].run # r
    BY <2>1 DEF HandlersHold
  <2>4. HandlersHold'
    BY <1>0, <2>1, <2>2, <2>3 DEF HandlersHold, Holding
  <2>5. ThreadsHold'
    BY <1>0, <1>1, <2>1 DEF ThreadsHold
  <2> QED
    BY <2>4, <2>5
<1>4. CASE BuildPersist(c)
  <2>1. /\ pc[c] = "persist" /\ pc' = [pc EXCEPT ![c] = "submit"] /\ UNCHANGED resv
        /\ req' = [req EXCEPT ![c] = req[c]]
        /\ build' = [build EXCEPT ![req[c].run] =
                       [NoBuild EXCEPT !.state = "QUEUED", !.draft = req[c].draft,
                                       !.rev = req[c].rev, !.doc = req[c].doc]]
    BY <1>4 DEF BuildPersist, Continue, PutBuild, jobVars
  <2>2. resv[req[c].run] = "held" /\ req[c].run \in Runs
    BY <1>0, <2>1 DEF HandlersHold, Holding
  <2>3. HandlersHold'
    BY <1>0, <2>1, <2>2 DEF HandlersHold, Holding, NoBuild
  <2>4. ThreadsHold'
    BY <1>0, <1>1, <2>1, <2>2 DEF ThreadsHold, Working, InFlight, NoBuild
  <2> QED
    BY <1>2, <2>3, <2>4
<1>5. CASE BuildPersistRaises(c)
  <2>1. /\ pc[c] = "persist" /\ pc' = [pc EXCEPT ![c] = "cancel"] /\ UNCHANGED <<resv, build>>
        /\ req' = [req EXCEPT ![c] = req[c]]
    BY <1>5 DEF BuildPersistRaises, Continue, jobVars, storeVars
  <2>2. HandlersHold'
    BY <1>0, <2>1 DEF HandlersHold, Holding
  <2> QED
    BY <1>1, <1>2, <2>1, <2>2 DEF ThreadsHold
<1>6. CASE BuildSubmit(c) \/ BuildSubmitRaises(c) \/ BuildCancel(c)
  <2> DEFINE r == req[c].run
  <2>1. /\ pc[c] \in {"submit", "cancel"} /\ UNCHANGED build
        /\ \E status \in {"queued", "refused", "cancelled"} :
             /\ resv' = [resv EXCEPT ![r] = status]
             /\ status = "queued" => pc[c] = "submit"
             /\ \/ pc' = [pc EXCEPT ![c] = "idle"]
                \/ status = "refused" /\ pc' = [pc EXCEPT ![c] = "cancel"]
        /\ pc'[c] # "idle" => req'[c] = req[c]
        /\ \A e \in Clients \ {c} : req'[e] = req[e]
    BY <1>0, <1>6
    DEF BuildSubmit, BuildSubmitRaises, BuildCancel, Submit, SubmitRaises, Cancel, Finish,
        Continue, storeVars
  <2>2. r \in Runs /\ resv[r] \in {"held", "refused"}
        /\ (pc[c] = "submit" => build[r].state = "QUEUED")
        /\ \A e \in Clients \ {c} : pc[e] \in Holding => req[e].run # r
    BY <1>0, <2>1 DEF HandlersHold, Holding
  <2>3. HandlersHold'
    BY <1>0, <2>1, <2>2 DEF HandlersHold, Holding
  <2>4. ThreadsHold'
    BY <1>0, <1>1, <2>1, <2>2 DEF ThreadsHold
  <2> QED
    BY <1>2, <2>3, <2>4
<1>7. CASE /\ pc[c] \notin Holding /\ UNCHANGED <<jobVars, build>>
           /\ \E step \in HandlerSteps \ Holding : \E q : Continue(c, step, q)
  <2>1. /\ pc'[c] \notin Holding
        /\ \A e \in Clients \ {c} : pc'[e] = pc[e] /\ req'[e] = req[e]
        /\ UNCHANGED <<resv, build>>
    BY <1>0, <1>7 DEF Continue, jobVars
  <2>2. HandlersHold'
    BY <2>1 DEF HandlersHold, Holding
  <2> QED
    BY <1>1, <1>2, <2>1, <2>2 DEF ThreadsHold
<1> QED
  BY <1>2, <1>3, <1>4, <1>5, <1>6, <1>7, HandlerCases

(* A thread writes the row of the job it runs, whose reservation no        *)
(* handler holds any more.                                                 *)
LEMMA OneWriterThread ==
  ASSUME TypeOK, JobsInv, OneWriterPerRow, up, NEW r \in Runs, BuildStep(r)
  PROVE  OneWriterPerRow'
<1> USE DEF OneWriterPerRow
<1>0. /\ wpc \in [Runs -> ThreadSteps] /\ build \in [Runs -> BuildRow]
      /\ resv \in [Jobs -> Statuses] /\ r \in Jobs /\ Runs \subseteq Jobs
      /\ \A e \in Clients : pc[e] \in Holding => req[e].run \in Runs
  BY LifecycleAssumption DEF TypeOK, RequestsComplete, JobsTypeOK
<1>1. UNCHANGED <<pc, req, up>>
  BY BuildFrame DEF handlerVars
<1>2. NothingRunsWhileDown'
  BY <1>1 DEF NothingRunsWhileDown
<1>3. CASE TakeBuild(r)
  <2>1. /\ resv[r] = "queued" /\ resv' = [resv EXCEPT ![r] = "running"]
        /\ wpc' = [wpc EXCEPT ![r] = "begin"] /\ UNCHANGED build
    BY <1>0, <1>3, TakenJobWaits DEF TakeBuild, Take, Thread, storeVars, JobsInv
  <2> QED
    BY <1>0, <1>1, <1>2, <2>1 DEF HandlersHold, ThreadsHold, Holding, Working, InFlight
<1>4. CASE ExitBuild(r) \/ RetireBuild(r)
  <2>1. /\ UNCHANGED build
        /\ \/ resv[r] = "running" /\ resv' = [resv EXCEPT ![r] = "released"]
              /\ wpc' = [wpc EXCEPT ![r] = "none"]
           \/ resv[r] = "released" /\ resv' = [resv EXCEPT ![r] = "done"] /\ UNCHANGED wpc
    BY <1>4 DEF ExitBuild, RetireBuild, Release, Retire, Thread, storeVars, threadVars
  <2> QED
    BY <1>0, <1>1, <1>2, <2>1 DEF HandlersHold, ThreadsHold, Holding, Working
<1>5. ASSUME wpc[r] # "none", UNCHANGED resv,
             \E step \in ThreadSteps \ {"none"} : wpc' = [wpc EXCEPT ![r] = step],
             UNCHANGED build \/ (\E row : build' = [build EXCEPT ![r] = row]),
             wpc'[r] \in Working => build'[r].state \in InFlight,
             wpc'[r] = "auditSuccess" => build'[r].state = "SUCCEEDED",
             wpc'[r] = "auditFailure" => build'[r].state = "FAILED"
      PROVE  OneWriterPerRow'
  <2>1. resv[r] = "running"
    BY <1>5 DEF ThreadsHold
  <2>2. HandlersHold'
    BY <1>0, <1>1, <1>5, <2>1 DEF HandlersHold, Holding
  <2>3. ThreadsHold'
    BY <1>0, <1>5, <2>1 DEF ThreadsHold
  <2> QED
    BY <1>2, <2>2, <2>3
<1>6. CASE BuildBegin(r) \/ BuildPrepare(r) \/ BuildNative(r) \/ NativeFails(r)
  <2> DEFINE Row(state, m) == [build[r] EXCEPT !.state = state, !.manifest = m]
  <2>1. /\ wpc[r] # "none" /\ UNCHANGED resv
        /\ \/ UNCHANGED build /\ wpc' = [wpc EXCEPT ![r] = "axis"] /\ wpc[r] \in Working
           \/ \E m, state, step :
                /\ build' = [build EXCEPT ![r] = Row(state, m)]
                /\ wpc' = [wpc EXCEPT ![r] = step]
                /\ <<state, step>> \in {<<"TIMED_OUT", "exit">>, <<"FAILED", "auditFailure">>,
                     <<"RESOLVING_DEPENDENCIES", "resolve">>, <<"SOLVING", "native">>}
    BY <1>6
    DEF BuildBegin, BuildPrepare, BuildNative, NativeFails, Record, PutBuild, Thread, jobVars,
        storeVars, Working
  <2>2. \A m, state : Row(state, m).state = state
    BY <1>0 DEF BuildRow
  <2>3. CASE UNCHANGED build /\ wpc' = [wpc EXCEPT ![r] = "axis"] /\ wpc[r] \in Working
    BY <1>0, <1>5, <2>1, <2>3 DEF ThreadsHold, Working, ThreadSteps
  <2>4. ASSUME NEW m, NEW state, NEW step,
               build' = [build EXCEPT ![r] = Row(state, m)],
               wpc' = [wpc EXCEPT ![r] = step],
               <<state, step>> \in {<<"TIMED_OUT", "exit">>, <<"FAILED", "auditFailure">>,
                     <<"RESOLVING_DEPENDENCIES", "resolve">>, <<"SOLVING", "native">>}
        PROVE  OneWriterPerRow'
    <3>1. build'[r].state = state /\ wpc'[r] = step
      BY <1>0, <2>2, <2>4
    <3>2. step \in ThreadSteps \ {"none"}
      BY <2>4 DEF ThreadSteps, Working
    <3>3. /\ wpc'[r] \in Working => build'[r].state \in InFlight
          /\ wpc'[r] = "auditSuccess" => build'[r].state = "SUCCEEDED"
          /\ wpc'[r] = "auditFailure" => build'[r].state = "FAILED"
      BY <2>4, <3>1 DEF Working, InFlight
    <3> HIDE DEF Row
    <3> QED
      BY <1>5, <2>1, <2>4, <3>2, <3>3
  <2> QED
    BY <2>1, <2>3, <2>4
<1>7. CASE BuildResolve(r) \/ BuildAxis(r) \/ AuditBuild(r) \/ WorkerRaises(r)
  <2>1. /\ wpc[r] # "none" /\ UNCHANGED <<resv, build>>
        /\ \/ wpc' = [wpc EXCEPT ![r] = "exit"]
           \/ wpc[r] \in Working /\ \E step \in Working : wpc' = [wpc EXCEPT ![r] = step]
    BY <1>7, AuditSteps
    DEF BuildResolve, BuildAxis, AuditBuild, WorkerRaises, Thread, jobVars, storeVars, Working
  <2> QED
    BY <1>0, <1>5, <2>1 DEF ThreadsHold, Working, ThreadSteps
<1>8. CASE BuildViews(r)
  <2>1. /\ wpc[r] # "none" /\ UNCHANGED resv /\ wpc' = [wpc EXCEPT ![r] = "auditSuccess"]
        /\ build' = [build EXCEPT ![r] = [build[r] EXCEPT !.state = "SUCCEEDED", !.payload = r,
                                           !.manifest = found[r].manifest]]
    BY <1>8 DEF BuildViews, PutBuild, Thread, jobVars
  <2>2. build'[r].state = "SUCCEEDED"
    BY <1>0, <2>1 DEF BuildRow
  <2> QED
    BY <1>0, <1>5, <2>1, <2>2 DEF Working, ThreadSteps
<1> QED
  BY <1>3, <1>4, <1>6, <1>7, <1>8 DEF BuildStep

LEMMA OneWriterStep ==
  ASSUME TypeOK, JobsInv, OneWriterPerRow, [Next]_vars
  PROVE  OneWriterPerRow'
<1> USE DEF OneWriterPerRow
<1>1. ASSUME up, NEW c \in Clients, HandlerStep(c) PROVE OneWriterPerRow'
  BY <1>1, OneWriterHandler
<1>2. ASSUME up, NEW r \in Runs, BuildStep(r) PROVE OneWriterPerRow'
  BY <1>2, OneWriterThread
<1>3. ASSUME up, NEW j \in Jobs \ Runs, OtherJobStep(j) PROVE OneWriterPerRow'
  <2>1. UNCHANGED <<build, pc, req, wpc, up>>
    BY <1>3 DEF OtherJobStep, storeVars, handlerVars, threadVars, envVars
  <2>2. \A r \in Runs : resv'[r] = resv[r]
    BY <1>3, LifecycleAssumption
    DEF OtherJobStep, Reserve, Submit, SubmitRaises, Cancel, Take, Release, Retire, TypeOK,
        JobsTypeOK
  <2>3. \A c \in Clients : pc[c] \in Holding => req[c].run \in Runs
    BY DEF TypeOK, RequestsComplete
  <2> QED
    BY <1>3, <2>1, <2>2, <2>3 DEF HandlersHold, ThreadsHold, NothingRunsWhileDown
<1>4. CASE (\E r \in Runs : Expire(r)) \/ UNCHANGED vars
  <2>1. UNCHANGED <<resv, build, pc, req, wpc, up>>
    BY <1>4 DEF Expire, vars, jobVars, storeVars, handlerVars, threadVars, envVars
  <2> QED
    BY <2>1 DEF HandlersHold, ThreadsHold, NothingRunsWhileDown
<1>5. CASE Crash
  BY <1>5, LifecycleAssumption
  DEF Crash, HandlersHold, ThreadsHold, NothingRunsWhileDown, Holding, Working, TypeOK,
      JobsTypeOK, Statuses
<1>6. CASE Restart
  <2>1. UNCHANGED <<resv, pc, req, wpc>> /\ up'
    BY <1>6 DEF Restart, jobVars, handlerVars, threadVars
  <2>2. /\ \A c \in Clients : pc[c] = "idle"
        /\ \A r \in Runs : resv[r] \in {"none", "done"} /\ wpc[r] = "none"
    BY <1>6, LifecycleAssumption DEF Restart, NothingRunsWhileDown, ThreadsHold
  <2> QED
    BY <2>1, <2>2 DEF HandlersHold, ThreadsHold, NothingRunsWhileDown, Holding, Working
<1> QED
  BY <1>1, <1>2, <1>3, <1>4, <1>5, <1>6 DEF Next

LifecycleInv == TypeOK /\ JobsInv /\ OneWriterPerRow

(* The inductive invariant: types, the executor's own invariant, and the   *)
(* single writer of each row, none of which is inductive without the       *)
(* others (a thread takes the job at the head of the queue, which is a     *)
(* waiting one because of the executor's invariant).                       *)
THEOREM LifecycleInvariant == Spec => []LifecycleInv
<1>1. Init => LifecycleInv
  BY TypeInit, OneWriterInit, JobsInitInv DEF LifecycleInv, Init
<1>2. LifecycleInv /\ [Next]_vars => LifecycleInv'
  BY TypeStep, ExecutorStep, OneWriterStep DEF LifecycleInv, OneWriterPerRow
<1> QED
  BY <1>1, <1>2, PTL DEF Spec

(* The lifecycle's variables keep their types.                             *)
THEOREM LifecycleTypeCorrect == Spec => []TypeOK
  BY LifecycleInvariant, PTL DEF LifecycleInv

(* No build row ever has two parties that may write it                     *)
(* (update_curve_lab_build_run writes without looking), crashes, failed    *)
(* store calls and refused submissions included.                           *)
THEOREM RowsHaveOneWriter == Spec => []OneWriterPerRow
  BY LifecycleInvariant, PTL DEF LifecycleInv

(* Nobody writes a build row that is terminal.                             *)
LEMMA TerminalRowStays ==
  ASSUME LifecycleInv, [Next]_vars, NEW r \in Runs, build[r].state \in Terminal
  PROVE  build'[r] = build[r]
<1> USE DEF LifecycleInv, OneWriterPerRow, Terminal
<1>0. build \in [Runs -> BuildRow]
  BY DEF TypeOK
<1>1. ASSUME NEW c \in Clients, HandlerStep(c) PROVE build'[r] = build[r]
  <2>1. CASE BuildPersist(c)
    <3>1. build[req[c].run].state = "ABSENT"
      BY <2>1 DEF BuildPersist, HandlersHold, Holding
    <3> QED
      BY <1>0, <2>1, <3>1 DEF BuildPersist, PutBuild
  <2>2. CASE ~BuildPersist(c)
    BY <1>1, <2>2, HandlerCases
    DEF BuildRead, BuildPersistRaises, BuildSubmit, BuildSubmitRaises, BuildCancel, storeVars
  <2> QED
    BY <2>1, <2>2
<1>2. ASSUME NEW s \in Runs, BuildStep(s) PROVE build'[r] = build[r]
  <2>1. UNCHANGED build
        \/ (wpc[s] \in Working /\ \E row : build' = [build EXCEPT ![s] = row])
    BY <1>2
    DEF BuildStep, TakeBuild, BuildBegin, BuildResolve, BuildPrepare, BuildNative, BuildAxis,
        BuildViews, NativeFails, AuditBuild, WorkerRaises, ExitBuild, RetireBuild, Record,
        PutBuild, Working, storeVars
  <2>2. wpc[s] \in Working => s # r
    BY DEF ThreadsHold, InFlight
  <2> QED
    BY <1>0, <2>1, <2>2
<1>3. CASE Restart
  BY <1>0, <1>3 DEF Restart, Reconcile, InFlight
<1>4. CASE \/ \E j \in Jobs \ Runs : OtherJobStep(j)
           \/ \E s \in Runs : Expire(s)
           \/ Crash \/ UNCHANGED vars
  BY <1>4 DEF OtherJobStep, Expire, Crash, vars, storeVars
<1> QED
  BY <1>1, <1>2, <1>3, <1>4 DEF Next

(* A build that succeeded, failed or timed out stays exactly as it is.     *)
THEOREM TerminalBuildsNeverChange == Spec => TerminalBuildsImmutable
<1>1. LifecycleInv /\ [Next]_vars
        => [\A r \in Runs : build[r].state \in Terminal => build'[r] = build[r]]_vars
  BY TerminalRowStays
<1> QED
  BY <1>1, LifecycleInvariant, PTL DEF Spec, TerminalBuildsImmutable
-----------------------------------------------------------------------------
(* What create_version copied out of the successful run is still in it.    *)
PublisherHoldsRun ==
  \A c \in Clients : pc[c] = "publish" =>
    LET r == build[req[c].run] IN
    /\ r.state = "SUCCEEDED"
    /\ <<req[c].draft, req[c].rev, req[c].doc>> = <<r.draft, r.rev, r.doc>>
    /\ <<req[c].manifest, req[c].payload>> = <<r.manifest, r.payload>>

PublicationInv == PublisherHoldsRun /\ VersionMatchesBuild

LEMMA PublisherStep ==
  ASSUME LifecycleInv, PublisherHoldsRun, [Next]_vars
  PROVE  PublisherHoldsRun'
<1>0. /\ pc \in [Clients -> HandlerSteps] /\ req \in [Clients -> Request] /\ RequestsComplete
  BY DEF LifecycleInv, TypeOK
<1>1. \A c \in Clients : pc[c] = "publish" => build'[req[c].run] = build[req[c].run]
  BY <1>0, TerminalRowStays DEF PublisherHoldsRun, RequestsComplete, Terminal
<1>2. ASSUME NEW c \in Clients, pc'[c] = "publish",
             (pc'[c] = pc[c] /\ req'[c] = req[c]) \/ PublishCheckRun(c)
      PROVE  LET r == build'[req'[c].run] IN
             /\ r.state = "SUCCEEDED"
             /\ <<req'[c].draft, req'[c].rev, req'[c].doc>> = <<r.draft, r.rev, r.doc>>
             /\ <<req'[c].manifest, req'[c].payload>> = <<r.manifest, r.payload>>
  <2>1. CASE pc'[c] = pc[c] /\ req'[c] = req[c]
    BY <1>1, <1>2, <2>1 DEF PublisherHoldsRun
  <2>2. CASE PublishCheckRun(c)
    <3> DEFINE q == [req[c] EXCEPT !.manifest = build[req[c].run].manifest,
                                   !.payload = build[req[c].run].payload]
    <3>1. RunMatches(req[c]) /\ req' = [req EXCEPT ![c] = q] /\ UNCHANGED build
      BY <1>0, <1>2, <2>2 DEF PublishCheckRun, Continue, storeVars
    <3>2. req'[c] = q
      BY <1>0, <3>1
    <3>3. /\ q.draft = req[c].draft /\ q.rev = req[c].rev /\ q.doc = req[c].doc
          /\ q.run = req[c].run /\ q.manifest = build[req[c].run].manifest
          /\ q.payload = build[req[c].run].payload
      BY <1>0 DEF Request
    <3> HIDE DEF q
    <3> QED
      BY <3>1, <3>2, <3>3 DEF RunMatches
  <2> QED
    BY <1>2, <2>1, <2>2
<1>3. ASSUME NEW c \in Clients, pc'[c] = "publish"
      PROVE  (pc'[c] = pc[c] /\ req'[c] = req[c]) \/ PublishCheckRun(c)
  <2>1. ASSUME NEW e \in Clients, HandlerStep(e)
        PROVE  \/ e # c /\ pc'[c] = pc[c] /\ req'[c] = req[c]
               \/ e = c /\ PublishCheckRun(c)
    <3> DEFINE Elsewhere == \E step, q : step # "publish" /\ Continue(e, step, q)
    <3>1. ASSUME NEW d \in Drafts, NEW r \in Runs, BuildRead(e, d, r) PROVE Elsewhere
      BY <3>1 DEF BuildRead
    <3>2. ASSUME \/ BuildPersist(e) \/ BuildPersistRaises(e) \/ BuildSubmit(e)
                 \/ BuildSubmitRaises(e) \/ BuildCancel(e) \/ UpdateWrite(e)
                 \/ UpdateConflict(e) \/ Audit(e) \/ AuditRaises(e)
                 \/ PublishConflict(e) \/ PublishExisting(e) \/ Refuse(e)
          PROVE  Elsewhere
      BY <3>2
      DEF BuildPersist, BuildPersistRaises, BuildSubmit, BuildSubmitRaises, BuildCancel,
          UpdateWrite, UpdateConflict, Audit, AuditRaises, PublishConflict, PublishExisting,
          Refuse, Finish, AuditNext
    <3>3. ASSUME NEW d \in Drafts, NEW doc \in Docs,
                 \/ CreateDraft(e, d, doc)
                 \/ \E n \in 1..MaxRevision : UpdateRead(e, d, n, doc)
                 \/ \E v \in Versions : CloneVersion(e, v, d, doc)
          PROVE  Elsewhere
      BY <3>3 DEF CreateDraft, UpdateRead, CloneVersion, AuditNext
    <3>4. ASSUME NEW r \in Runs, NEW k \in Keys,
                 \/ \E d \in Drafts : PublishReadDraft(e, d, r, k)
                 \/ PublishDraftStale(e, r, k)
          PROVE  Elsewhere
      BY <3>4 DEF PublishReadDraft, PublishDraftStale
    <3>5. ASSUME NEW v \in Versions, PublishCreate(e, v) \/ Archive(e, v) PROVE Elsewhere
      BY <3>5 DEF PublishCreate, Archive, AuditNext
    <3>6. PublishCheckRun(e) => \E step, q : Continue(e, step, q)
      BY DEF PublishCheckRun
    <3>7. Elsewhere \/ PublishCheckRun(e)
      BY <2>1, <3>1, <3>2, <3>3, <3>4, <3>5 DEF HandlerStep
    <3> QED
      BY <1>0, <1>3, <3>6, <3>7 DEF Continue
  <2>2. CASE \/ \E r \in Runs : BuildStep(r) \/ Expire(r)
             \/ \E j \in Jobs \ Runs : OtherJobStep(j)
             \/ Restart \/ UNCHANGED vars
    BY <2>2, BuildFrame DEF Expire, OtherJobStep, Restart, vars, handlerVars
  <2>3. CASE Crash
    BY <1>3, <2>3 DEF Crash
  <2> QED
    BY <2>1, <2>2, <2>3 DEF Next
<1> QED
  BY <1>2, <1>3 DEF PublisherHoldsRun

(* A version row is only ever inserted by the publishing transaction or    *)
(* archived.                                                               *)
LEMMA VersionWrites ==
  ASSUME LifecycleInv, [Next]_vars
  PROVE  \/ UNCHANGED version
         \/ \E c \in Clients, v \in Versions : PublishCreate(c, v)
         \/ \E v \in Versions : VersionExists(v) /\ ArchiveRow(v)
<1>1. ASSUME NEW c \in Clients, HandlerStep(c)
      PROVE  \/ UNCHANGED version
             \/ \E v \in Versions : PublishCreate(c, v) \/ (VersionExists(v) /\ ArchiveRow(v))
  BY <1>1
  DEF HandlerStep, CreateDraft, UpdateRead, UpdateWrite, UpdateConflict, CloneVersion, Audit,
      AuditRaises, BuildRead, BuildPersist, BuildPersistRaises, BuildSubmit, BuildSubmitRaises,
      BuildCancel, PublishReadDraft, PublishDraftStale, PublishCheckRun, PublishConflict,
      PublishExisting, Refuse, Archive, storeVars
<1>2. ASSUME NEW r \in Runs, BuildStep(r) PROVE UNCHANGED version
  BY <1>2, BuildFrame
<1>3. CASE \/ \E r \in Runs : Expire(r)
           \/ \E j \in Jobs \ Runs : OtherJobStep(j)
           \/ Crash \/ Restart \/ UNCHANGED vars
  BY <1>3 DEF Expire, OtherJobStep, Crash, Restart, vars, storeVars
<1> QED
  BY <1>1, <1>2, <1>3 DEF Next

(* A version's fields are written once.                                    *)
LEMMA VersionRowStays ==
  ASSUME LifecycleInv, [Next]_vars, NEW v \in Versions, VersionExists(v)
  PROVE  version'[v] \in {version[v], [version[v] EXCEPT !.visibility = "ARCHIVED"]}
<1>0. version \in [Versions -> VersionRow]
  BY DEF LifecycleInv, TypeOK
<1>1. ASSUME NEW c \in Clients, NEW w \in Versions, PublishCreate(c, w)
      PROVE  version'[v] = version[v]
  <2>1. ~VersionExists(w) /\ \E row : version' = [version EXCEPT ![w] = row]
    BY <1>1 DEF PublishCreate, InsertVersion
  <2> QED
    BY <1>0, <2>1
<1>2. ASSUME NEW w \in Versions, ArchiveRow(w)
      PROVE  version'[v] \in {version[v], [version[v] EXCEPT !.visibility = "ARCHIVED"]}
  BY <1>0, <1>2 DEF ArchiveRow
<1> QED
  BY <1>1, <1>2, VersionWrites

LEMMA VersionMatchesStep ==
  ASSUME LifecycleInv, PublicationInv, [Next]_vars
  PROVE  VersionMatchesBuild'
<1>0. version \in [Versions -> VersionRow] /\ build \in [Runs -> BuildRow]
      /\ req \in [Clients -> Request]
  BY DEF LifecycleInv, TypeOK
<1> SUFFICES ASSUME NEW v \in Versions, VersionExists(v)', version'[v].run # None
             PROVE  LET r == build'[version'[v].run] IN
                    /\ r.state = "SUCCEEDED"
                    /\ <<version'[v].draft, version'[v].rev, version'[v].doc>>
                          = <<r.draft, r.rev, r.doc>>
                    /\ <<version'[v].manifest, version'[v].payload>> = <<r.manifest, r.payload>>
  BY DEF VersionMatchesBuild
<1>1. CASE VersionExists(v)
  <2>1. /\ version'[v].run = version[v].run /\ version'[v].draft = version[v].draft
        /\ version'[v].rev = version[v].rev /\ version'[v].doc = version[v].doc
        /\ version'[v].manifest = version[v].manifest
        /\ version'[v].payload = version[v].payload
    BY <1>0, <1>1, VersionRowStays DEF VersionRow
  <2>2. version[v].run \in Runs /\ build[version[v].run].state = "SUCCEEDED"
    BY <1>0, <1>1, <2>1 DEF PublicationInv, VersionMatchesBuild, VersionRow
  <2>3. build'[version[v].run] = build[version[v].run]
    BY <2>2, TerminalRowStays DEF Terminal
  <2> QED
    BY <1>1, <2>1, <2>3 DEF PublicationInv, VersionMatchesBuild
<1>2. CASE ~VersionExists(v)
  <2>1. PICK c \in Clients, w \in Versions : PublishCreate(c, w)
    BY <1>0, <1>2, VersionWrites DEF VersionExists, ArchiveRow, VersionRow
  <2>2. w = v
    BY <1>0, <1>2, <2>1 DEF PublishCreate, InsertVersion, VersionExists
  <2>3. /\ version'[v].run = req[c].run /\ version'[v].draft = req[c].draft
        /\ version'[v].rev = req[c].rev /\ version'[v].doc = req[c].doc
        /\ version'[v].manifest = req[c].manifest /\ version'[v].payload = req[c].payload
        /\ pc[c] = "publish" /\ UNCHANGED build
    BY <1>0, <2>1, <2>2 DEF PublishCreate, InsertVersion
  <2> QED
    BY <2>3 DEF PublicationInv, PublisherHoldsRun
<1> QED
  BY <1>1, <1>2

(* The publisher's copies are true, and so is what it published.           *)
LEMMA PublicationInvariant == Spec => []PublicationInv
<1>1. Init => PublicationInv
  <2> SUFFICES ASSUME Init PROVE PublicationInv
    OBVIOUS
  <2>1. NoVersion.run = None /\ \A v \in Versions : ImportedVersion(v).run = None
    BY DEF NoVersion, ImportedVersion
  <2>2. \A v \in Versions : version[v] \in {NoVersion, ImportedVersion(v)}
    BY DEF Init, StoreInit
  <2>3. VersionMatchesBuild
    BY <2>1, <2>2 DEF VersionMatchesBuild
  <2>4. PublisherHoldsRun
    BY DEF Init, PublisherHoldsRun
  <2> QED
    BY <2>3, <2>4 DEF PublicationInv
<1>2. LifecycleInv /\ PublicationInv /\ [Next]_vars => PublicationInv'
  BY PublisherStep, VersionMatchesStep DEF PublicationInv
<1> QED
  BY <1>1, <1>2, LifecycleInvariant, PTL DEF Spec

(* Every published version is the successful run it cites, for ever.       *)
THEOREM VersionsMatchBuilds == Spec => []VersionMatchesBuild
  BY PublicationInvariant, PTL DEF PublicationInv

(* A published version never changes, except that it is archived.          *)
THEOREM VersionsNeverChange == Spec => VersionsImmutable
<1>1. LifecycleInv /\ [Next]_vars
        => [\A v \in Versions : VersionExists(v) =>
             version'[v] \in {version[v], [version[v] EXCEPT !.visibility = "ARCHIVED"]}]_vars
  BY VersionRowStays
<1> QED
  BY <1>1, LifecycleInvariant, PTL DEF Spec, VersionsImmutable
-----------------------------------------------------------------------------
(* What a step does to a draft: nothing, or the next revision.             *)
LEMMA DraftWrites ==
  ASSUME LifecycleInv, [Next]_vars
  PROVE  \/ UNCHANGED draft
         \/ /\ \E d \in Drafts, doc \in Docs :
                 draft' = [draft EXCEPT ![d] = [rev |-> draft[d].rev + 1, doc |-> doc]]
            /\ UNCHANGED version
<1>0. draft \in [Drafts -> DraftRow] /\ RequestsComplete
  BY DEF LifecycleInv, TypeOK
<1> DEFINE Edited == \E d \in Drafts, doc \in Docs :
                       draft' = [draft EXCEPT ![d] = [rev |-> draft[d].rev + 1, doc |-> doc]]
<1>1. ASSUME NEW c \in Clients, NEW d \in Drafts, NEW doc \in Docs,
             \/ CreateDraft(c, d, doc)
             \/ \E v \in Versions : CloneVersion(c, v, d, doc)
      PROVE  Edited /\ UNCHANGED version
  <2>1. /\ ~(draft[d].rev > 0) /\ draft' = [draft EXCEPT ![d] = [rev |-> 1, doc |-> doc]]
        /\ UNCHANGED version
    BY <1>1 DEF CreateDraft, CloneVersion, AddDraft, DraftExists
  <2>2. draft[d].rev = 0
    BY <1>0, <2>1 DEF DraftRow
  <2>3. draft' = [draft EXCEPT ![d] = [rev |-> draft[d].rev + 1, doc |-> doc]]
    BY <2>1, <2>2
  <2> QED
    BY <2>1, <2>3
<1>2. ASSUME NEW c \in Clients, UpdateWrite(c) PROVE Edited /\ UNCHANGED version
  <2>1. req[c].draft \in Drafts /\ req[c].doc \in Docs
    BY <1>0, <1>2 DEF UpdateWrite, RequestsComplete
  <2> QED
    BY <1>2, <2>1 DEF UpdateWrite, CasDraft
<1>3. ASSUME NEW c \in Clients, HandlerStep(c)
      PROVE  UNCHANGED draft \/ (Edited /\ UNCHANGED version)
  <2>1. \/ UNCHANGED draft
        \/ UpdateWrite(c)
        \/ \E d \in Drafts, doc \in Docs :
             CreateDraft(c, d, doc) \/ \E v \in Versions : CloneVersion(c, v, d, doc)
    BY <1>3
    DEF HandlerStep, UpdateRead, UpdateConflict, Audit, AuditRaises, BuildRead, BuildPersist,
        BuildPersistRaises, BuildSubmit, BuildSubmitRaises, BuildCancel, PublishReadDraft,
        PublishDraftStale, PublishCheckRun, PublishConflict, PublishExisting, PublishCreate,
        Refuse, Archive, storeVars
  <2> HIDE DEF Edited
  <2> QED
    BY <1>1, <1>2, <2>1
<1>4. CASE \/ \E r \in Runs : BuildStep(r) \/ Expire(r)
           \/ \E j \in Jobs \ Runs : OtherJobStep(j)
           \/ Crash \/ Restart \/ UNCHANGED vars
  BY <1>4, BuildFrame DEF Expire, OtherJobStep, Crash, Restart, vars, storeVars
<1> QED
  BY <1>3, <1>4 DEF Next

(* The only row write of a handler is the first one of the run it holds.   *)
LEMMA HandlerRowWrites ==
  ASSUME LifecycleInv, NEW c \in Clients, HandlerStep(c), NEW r \in Runs
  PROVE  build'[r] = build[r] \/ (req[c].run = r /\ BuildPersist(c))
<1>1. UNCHANGED build \/ BuildPersist(c)
  BY HandlerCases
  DEF LifecycleInv, BuildRead, BuildPersistRaises, BuildSubmit, BuildSubmitRaises, BuildCancel,
      storeVars
<1>2. BuildPersist(c) => \E row : build' = [build EXCEPT ![req[c].run] = row]
  BY DEF BuildPersist, PutBuild
<1> QED
  BY <1>1, <1>2 DEF LifecycleInv, TypeOK

(* A thread leaves the rows and reservations of other runs alone.          *)
LEMMA ThreadStaysHome ==
  ASSUME LifecycleInv, NEW s \in Runs, BuildStep(s), NEW r \in Runs \ {s}
  PROVE  /\ build'[r] = build[r] /\ wpc'[r] = wpc[r] /\ found'[r] = found[r]
         /\ resv'[r] = resv[r]
<1>0. /\ build \in [Runs -> BuildRow] /\ wpc \in [Runs -> ThreadSteps]
      /\ found \in [Runs -> [ok : BOOLEAN, manifest : Manifests]]
      /\ resv \in [Jobs -> Statuses] /\ Runs \subseteq Jobs
  BY LifecycleAssumption DEF LifecycleInv, TypeOK, JobsTypeOK
<1>1. UNCHANGED build \/ \E row : build' = [build EXCEPT ![s] = row]
  BY DEF BuildStep, TakeBuild, BuildBegin, BuildResolve, BuildPrepare, BuildNative, BuildAxis,
         BuildViews, NativeFails, AuditBuild, WorkerRaises, ExitBuild, RetireBuild, Record,
         PutBuild, storeVars
<1>2. /\ UNCHANGED wpc \/ \E step : wpc' = [wpc EXCEPT ![s] = step]
      /\ UNCHANGED found \/ \E m : found' = [found EXCEPT ![s] = m]
  BY DEF BuildStep, TakeBuild, BuildBegin, BuildResolve, BuildPrepare, BuildNative, BuildAxis,
         BuildViews, NativeFails, AuditBuild, WorkerRaises, ExitBuild, RetireBuild, Record,
         Thread, threadVars
<1>3. UNCHANGED resv \/ \E status : resv' = [resv EXCEPT ![s] = status]
  BY DEF BuildStep, TakeBuild, BuildBegin, BuildResolve, BuildPrepare, BuildNative, BuildAxis,
         BuildViews, NativeFails, AuditBuild, WorkerRaises, ExitBuild, RetireBuild, Record,
         Take, Release, Retire, jobVars
<1> QED
  BY <1>0, <1>1, <1>2, <1>3

SnapshotOf(row) == [draft |-> row.draft, rev |-> row.rev, doc |-> row.doc]

(* A write to a row in flight keeps the snapshot it was built from.        *)
RowAdvances(r) ==
  /\ build[r].state \in InFlight
  /\ build'[r].state \in InFlight \cup Terminal
  /\ SnapshotOf(build'[r]) = SnapshotOf(build[r])

(* What a step does to a build row: nothing, the row's first write, or a   *)
(* write while it is in flight.                                            *)
LEMMA RowWrites ==
  ASSUME LifecycleInv, [Next]_vars, NEW r \in Runs
  PROVE  \/ build'[r] = build[r]
         \/ \E c \in Clients : req[c].run = r /\ BuildPersist(c)
         \/ RowAdvances(r)
<1>0. build \in [Runs -> BuildRow] /\ ThreadsHold
  BY DEF LifecycleInv, TypeOK, OneWriterPerRow
<1>1. ASSUME NEW s \in Runs, BuildStep(s) PROVE build'[r] = build[r] \/ RowAdvances(r)
  <2>1. wpc[s] \in Working => build[s].state \in InFlight
    BY <1>0 DEF ThreadsHold
  <2>2. ASSUME NEW row, wpc[s] \in Working, build' = [build EXCEPT ![s] = row],
               row.state \in InFlight \cup Terminal, SnapshotOf(row) = SnapshotOf(build[s])
        PROVE  build'[r] = build[r] \/ RowAdvances(r)
    BY <1>0, <2>1, <2>2 DEF RowAdvances
  <2>3. CASE UNCHANGED build
    BY <2>3
  <2>4. CASE BuildViews(s)
    <3> DEFINE row == [build[s] EXCEPT !.state = "SUCCEEDED", !.payload = s,
                                       !.manifest = found[s].manifest]
    <3>1. row.state = "SUCCEEDED" /\ SnapshotOf(row) = SnapshotOf(build[s])
      BY <1>0 DEF BuildRow, SnapshotOf
    <3>2. wpc[s] \in Working /\ build' = [build EXCEPT ![s] = row]
      BY <2>4 DEF BuildViews, PutBuild, Working
    <3> HIDE DEF row
    <3> QED
      BY <2>2, <3>1, <3>2 DEF Terminal
  <2>5. ASSUME NEW state \in InFlight \cup Terminal, NEW m, NEW step,
               wpc[s] \in Working, Record(s, state, m, step)
        PROVE  build'[r] = build[r] \/ RowAdvances(r)
    <3> DEFINE row == [build[s] EXCEPT !.state = state, !.manifest = m]
    <3>1. row.state = state /\ SnapshotOf(row) = SnapshotOf(build[s])
      BY <1>0 DEF BuildRow, SnapshotOf
    <3>2. build' = [build EXCEPT ![s] = row]
      BY <2>5 DEF Record, PutBuild
    <3> HIDE DEF row
    <3> QED
      BY <2>2, <2>5, <3>1, <3>2
  <2>6. \/ UNCHANGED build \/ BuildViews(s)
        \/ /\ wpc[s] \in Working
           /\ \E state \in InFlight \cup Terminal : \E m, step : Record(s, state, m, step)
    BY <1>1
    DEF BuildStep, TakeBuild, BuildBegin, BuildResolve, BuildPrepare, BuildNative, BuildAxis,
        NativeFails, AuditBuild, WorkerRaises, ExitBuild, RetireBuild, Working, InFlight,
        Terminal, storeVars
  <2> QED
    BY <2>3, <2>4, <2>5, <2>6
<1>2. CASE Restart
  <2>1. \A state : LET row == [build[r] EXCEPT !.state = state] IN
          row.state = state /\ SnapshotOf(row) = SnapshotOf(build[r])
    BY <1>0 DEF BuildRow, SnapshotOf
  <2>2. build[r].state \in InFlight => \E state \in {"TIMED_OUT", "FAILED"} :
          build'[r] = [build[r] EXCEPT !.state = state]
    BY <1>2 DEF Restart, Reconcile
  <2>3. build[r].state \notin InFlight => build'[r] = build[r]
    BY <1>2 DEF Restart, Reconcile
  <2> QED
    BY <2>1, <2>2, <2>3 DEF Terminal, RowAdvances
<1>3. CASE \/ \E s \in Runs : Expire(s)
           \/ \E j \in Jobs \ Runs : OtherJobStep(j)
           \/ Crash \/ UNCHANGED vars
  BY <1>3 DEF Expire, OtherJobStep, Crash, vars, storeVars
<1> QED
  BY HandlerRowWrites, <1>1, <1>2, <1>3 DEF Next

(* A handler moves its own place and values only.                          *)
LEMMA ContinueWrites ==
  ASSUME LifecycleInv, NEW c \in Clients, NEW step, NEW q, Continue(c, step, q)
  PROVE  /\ pc'[c] = step /\ req'[c] = q
         /\ \A e \in Clients \ {c} : pc'[e] = pc[e] /\ req'[e] = req[e]
  BY DEF Continue, LifecycleInv, TypeOK

(* By the step a handler goes on to, the action that took it there.        *)
LEMMA HandlerGoesOn ==
  ASSUME LifecycleInv, NEW c \in Clients, HandlerStep(c)
  PROVE  /\ \A e \in Clients \ {c} : pc'[e] = pc[e] /\ req'[e] = req[e]
         /\ pc'[c] = "persist" => \E d \in Drafts, r \in Runs : BuildRead(c, d, r)
         /\ pc'[c] = "submit" => BuildPersist(c)
         /\ pc'[c] = "cancel" => BuildPersistRaises(c) \/ BuildSubmitRaises(c)
         /\ pc'[c] = "checkRun" =>
              \E d \in Drafts, r \in Runs, k \in Keys : PublishReadDraft(c, d, r, k)
         /\ pc'[c] = "publish" => PublishCheckRun(c)
         /\ pc'[c] = "audit" =>
              \/ \E d \in Drafts, doc \in Docs :
                   CreateDraft(c, d, doc) \/ \E v \in Versions : CloneVersion(c, v, d, doc)
              \/ UpdateWrite(c)
              \/ \E v \in Versions : PublishCreate(c, v) \/ Archive(c, v)
<1> DEFINE GoesTo(S) == \E step \in S : \E q : Continue(c, step, q)
<1>1. ASSUME NEW d \in Drafts, NEW doc \in Docs,
             \/ CreateDraft(c, d, doc)
             \/ \E v \in Versions : CloneVersion(c, v, d, doc)
      PROVE  GoesTo({"audit"})
  BY <1>1 DEF CreateDraft, CloneVersion, AuditNext
<1>2. ASSUME NEW v \in Versions, PublishCreate(c, v) \/ Archive(c, v)
      PROVE  GoesTo({"audit"})
  BY <1>2 DEF PublishCreate, Archive, AuditNext
<1>3. UpdateWrite(c) => GoesTo({"audit"})
  BY DEF UpdateWrite, AuditNext
<1>4. ASSUME NEW d \in Drafts, NEW doc \in Docs, NEW n \in 1..MaxRevision,
             UpdateRead(c, d, n, doc)
      PROVE  GoesTo({"update"})
  BY <1>4 DEF UpdateRead
<1>5. ASSUME NEW d \in Drafts, NEW r \in Runs, BuildRead(c, d, r) PROVE GoesTo({"persist"})
  BY <1>5 DEF BuildRead
<1>6. (BuildPersist(c) => GoesTo({"submit"}))
      /\ (BuildPersistRaises(c) \/ BuildSubmitRaises(c) => GoesTo({"cancel"}))
  BY DEF BuildPersist, BuildPersistRaises, BuildSubmitRaises
<1>7. ASSUME NEW d \in Drafts, NEW r \in Runs, NEW k \in Keys, PublishReadDraft(c, d, r, k)
      PROVE  GoesTo({"checkRun"})
  BY <1>7 DEF PublishReadDraft
<1>8. ASSUME NEW r \in Runs, NEW k \in Keys, PublishDraftStale(c, r, k)
      PROVE  GoesTo({"conflict"})
  BY <1>8 DEF PublishDraftStale
<1>9. PublishCheckRun(c) => GoesTo({"publish", "conflict"})
  BY DEF PublishCheckRun
<1>10. PublishConflict(c) => GoesTo({"conflict"})
  BY DEF PublishConflict
<1>11. UpdateConflict(c) \/ Audit(c) \/ AuditRaises(c) \/ BuildSubmit(c) \/ BuildCancel(c)
         \/ PublishExisting(c) \/ Refuse(c) => GoesTo({"idle"})
  BY DEF UpdateConflict, Audit, AuditRaises, BuildSubmit, BuildCancel, PublishExisting, Refuse,
         Finish
<1>12. ASSUME NEW S, GoesTo(S)
       PROVE  pc'[c] \in S /\ \A e \in Clients \ {c} : pc'[e] = pc[e] /\ req'[e] = req[e]
  BY <1>12, ContinueWrites
<1> HIDE DEF GoesTo
<1> QED
  BY <1>1, <1>2, <1>3, <1>4, <1>5, <1>6, <1>7, <1>8, <1>9, <1>10, <1>11, <1>12 DEF HandlerStep

(* A handler that is somewhere was there before, got there by a step of    *)
(* its own, or is gone with the server.                                    *)
LEMMA RequestSteps ==
  ASSUME LifecycleInv, [Next]_vars, NEW c \in Clients
  PROVE  \/ pc'[c] = pc[c] /\ req'[c] = req[c]
         \/ HandlerStep(c)
         \/ Crash /\ pc'[c] = "idle"
<1>1. ASSUME NEW e \in Clients, HandlerStep(e)
      PROVE  HandlerStep(c) \/ (pc'[c] = pc[c] /\ req'[c] = req[c])
  BY <1>1, HandlerGoesOn
<1>2. CASE \/ \E r \in Runs : BuildStep(r) \/ Expire(r)
           \/ \E j \in Jobs \ Runs : OtherJobStep(j)
           \/ Restart \/ UNCHANGED vars
  BY <1>2, BuildFrame DEF Expire, OtherJobStep, Restart, vars, handlerVars
<1>3. CASE Crash
  BY <1>3 DEF Crash
<1> QED
  BY <1>1, <1>2, <1>3 DEF Next
-----------------------------------------------------------------------------
(* The draft snapshots that rows, and handlers about to persist one, bear. *)
Bearers ==
  {SnapshotOf(build[r]) : r \in {s \in Runs : build[s].state # "ABSENT"}}
    \cup {SnapshotOf(req[c]) : c \in {e \in Clients : pc[e] = "persist"}}

Outdated(s) == s.rev < draft[s.draft].rev
Current(s) == s = SnapshotOf([draft |-> s.draft, rev |-> draft[s.draft].rev,
                              doc |-> draft[s.draft].doc])

SnapshotsAgree ==
  /\ \A s \in Bearers : Outdated(s) \/ Current(s)
  /\ \A s, t \in Bearers : s.draft = t.draft /\ s.rev = t.rev => s = t

(* Every bearer is a whole snapshot.                                       *)
LEMMA BearersType ==
  ASSUME LifecycleInv
  PROVE  Bearers \subseteq [draft : Drafts, rev : Nat, doc : Docs]
  BY DEF LifecycleInv, TypeOK, Bearers, SnapshotOf, RowsComplete, RequestsComplete, BuildRow,
         Request, Holding

(* A new bearer is a snapshot of what is current.                          *)
LEMMA BearersStep ==
  ASSUME LifecycleInv, [Next]_vars, NEW s \in Bearers'
  PROVE  s \in Bearers \/ (Current(s) /\ UNCHANGED draft)
<1>0. /\ build \in [Runs -> BuildRow] /\ RequestsComplete
      /\ \A c \in Clients, r \in Runs : pc[c] = "persist" /\ req[c].run = r => r \in Runs
  BY DEF LifecycleInv, TypeOK
<1>1. ASSUME NEW r \in Runs, build'[r].state # "ABSENT", s = SnapshotOf(build'[r])
      PROVE  s \in Bearers
  <2>1. CASE build'[r] = build[r]
    BY <1>1, <2>1 DEF Bearers
  <2>2. ASSUME NEW c \in Clients, req[c].run = r, BuildPersist(c) PROVE s \in Bearers
    <3>1. build'[r] = [NoBuild EXCEPT !.state = "QUEUED", !.draft = req[c].draft,
                                      !.rev = req[c].rev, !.doc = req[c].doc]
      BY <1>0, <2>2 DEF BuildPersist, PutBuild
    <3>2. s = SnapshotOf(req[c]) /\ pc[c] = "persist"
      BY <1>1, <2>2, <3>1 DEF SnapshotOf, NoBuild, BuildPersist
    <3> QED
      BY <3>2 DEF Bearers
  <2>3. CASE RowAdvances(r)
    BY <1>1, <2>3 DEF RowAdvances, InFlight, Bearers
  <2> QED
    BY <2>1, <2>2, <2>3, RowWrites
<1>2. ASSUME NEW c \in Clients, pc'[c] = "persist", s = SnapshotOf(req'[c])
      PROVE  s \in Bearers \/ (Current(s) /\ UNCHANGED draft)
  <2>1. CASE pc'[c] = pc[c] /\ req'[c] = req[c]
    BY <1>2, <2>1 DEF Bearers
  <2>2. ASSUME NEW d \in Drafts, NEW r \in Runs, BuildRead(c, d, r)
        PROVE  Current(s) /\ UNCHANGED draft
    <3>1. req'[c] = [NoRequest EXCEPT !.draft = d, !.rev = draft[d].rev,
                                      !.doc = draft[d].doc, !.run = r]
      BY <2>2, ContinueWrites DEF BuildRead
    <3>2. s = [draft |-> d, rev |-> draft[d].rev, doc |-> draft[d].doc]
      BY <1>2, <3>1 DEF SnapshotOf, NoRequest
    <3> QED
      BY <2>2, <3>2 DEF BuildRead, storeVars, Current, SnapshotOf
  <2> QED
    BY <1>2, <2>1, <2>2, RequestSteps, HandlerGoesOn
<1> QED
  BY <1>1, <1>2 DEF Bearers

(* Snapshots keep agreeing: a new one is current, and an edit of its       *)
(* draft makes it outdated for good.                                       *)
LEMMA SnapshotsAgreeStep ==
  ASSUME LifecycleInv, SnapshotsAgree, [Next]_vars
  PROVE  SnapshotsAgree'
<1>0. /\ draft \in [Drafts -> DraftRow]
      /\ Bearers \subseteq [draft : Drafts, rev : Nat, doc : Docs]
  BY BearersType DEF LifecycleInv, TypeOK
<1>1. \A s \in Bearers' : (Outdated(s) \/ Current(s))'
  <2> SUFFICES ASSUME NEW s \in Bearers' PROVE (Outdated(s) \/ Current(s))'
    OBVIOUS
  <2>1. CASE Current(s) /\ UNCHANGED draft
    BY <2>1 DEF Current
  <2>2. CASE s \in Bearers /\ UNCHANGED draft
    BY <2>2 DEF SnapshotsAgree, Current, Outdated
  <2>3. ASSUME s \in Bearers, NEW d \in Drafts, NEW doc \in Docs,
               draft' = [draft EXCEPT ![d] = [rev |-> draft[d].rev + 1, doc |-> doc]]
        PROVE  (Outdated(s) \/ Current(s))'
    <3>1. s.rev \in Nat /\ s.draft \in Drafts /\ draft[d].rev \in Nat /\ s.rev <= draft[s.draft].rev
      BY <1>0, <2>3 DEF SnapshotsAgree, Outdated, Current, SnapshotOf, DraftRow
    <3>2. CASE s.draft = d
      <4>1. draft'[d].rev = draft[d].rev + 1
        BY <1>0, <2>3
      <4> QED
        BY <3>1, <3>2, <4>1 DEF Outdated
    <3>3. CASE s.draft # d
      <4>1. draft'[s.draft] = draft[s.draft]
        BY <1>0, <2>3, <3>1, <3>3
      <4> QED
        BY <2>3, <4>1 DEF SnapshotsAgree, Outdated, Current
    <3> QED
      BY <3>2, <3>3
  <2> QED
    BY <2>1, <2>2, <2>3, BearersStep, DraftWrites
<1>2. \A s, t \in Bearers' : s.draft = t.draft /\ s.rev = t.rev => s = t
  <2>1. \A s \in Bearers', t \in Bearers' : Current(s) /\ Current(t) /\ s.draft = t.draft => s = t
    BY DEF Current
  <2>2. \A s \in Bearers : Current(s) \/ Outdated(s)
    BY DEF SnapshotsAgree
  <2>3. ASSUME NEW s \in Bearers, NEW t, Current(t), s.draft = t.draft, s.rev = t.rev PROVE s = t
    <3>1. ~Outdated(s)
      BY <1>0, <2>3 DEF Outdated, Current, SnapshotOf, DraftRow
    <3> QED
      BY <2>2, <2>3, <3>1 DEF Current
  <2> QED
    BY <2>1, <2>3, BearersStep DEF SnapshotsAgree
<1> QED
  BY <1>1, <1>2 DEF SnapshotsAgree

(* A row that was never written is blank.                                  *)
BlankRows ==
  /\ \A r \in Runs : build[r].state = "ABSENT" => build[r] = NoBuild
  /\ \A v \in Versions : ~VersionExists(v) => version[v] = NoVersion

(* A row is first written as a whole.                                      *)
LEMMA BlankRowsStep ==
  ASSUME LifecycleInv, BlankRows, [Next]_vars
  PROVE  BlankRows'
<1>0. /\ build \in [Runs -> BuildRow] /\ version \in [Versions -> VersionRow]
  BY DEF LifecycleInv, TypeOK
<1>1. ASSUME NEW r \in Runs, build'[r].state = "ABSENT" PROVE build'[r] = NoBuild
  <2>1. ASSUME NEW c \in Clients, req[c].run = r, BuildPersist(c) PROVE FALSE
    BY <1>0, <1>1, <2>1 DEF BuildPersist, PutBuild, NoBuild
  <2>2. ~RowAdvances(r)
    BY <1>1 DEF RowAdvances, InFlight, Terminal
  <2> QED
    BY <1>1, <2>1, <2>2, RowWrites DEF BlankRows
<1>2. ASSUME NEW v \in Versions, ~VersionExists(v)' PROVE version'[v] = NoVersion
  <2>1. CASE VersionExists(v)
    BY <1>0, <1>2, <2>1, VersionRowStays DEF VersionExists, VersionRow
  <2>2. ASSUME ~VersionExists(v), NEW c \in Clients, NEW w \in Versions, PublishCreate(c, w)
        PROVE  version'[v] = version[v]
    <3>1. \E row : row.visibility = "VISIBLE" /\ version' = [version EXCEPT ![w] = row]
      BY <2>2 DEF PublishCreate, InsertVersion
    <3> QED
      BY <1>0, <1>2, <3>1 DEF VersionExists
  <2>3. ASSUME ~VersionExists(v), NEW w \in Versions, VersionExists(w), ArchiveRow(w)
        PROVE  version'[v] = version[v]
    BY <1>0, <2>3 DEF ArchiveRow
  <2> QED
    BY <2>1, <2>2, <2>3, VersionWrites DEF BlankRows
<1> QED
  BY <1>1, <1>2 DEF BlankRows

(* Rows that do not exist hold nothing.                                    *)
THEOREM RowsStartBlank == Spec => []BlankRows
<1>1. Init => BlankRows
  <2> SUFFICES ASSUME Init PROVE BlankRows
    OBVIOUS
  <2>1. \A v \in Versions : ImportedVersion(v).visibility = "VISIBLE"
    BY DEF ImportedVersion, NoVersion
  <2> QED
    BY <2>1 DEF Init, StoreInit, BlankRows, VersionExists
<1> QED
  BY <1>1, BlankRowsStep, LifecycleInvariant, PTL DEF Spec

(* A draft revision names one document, among all the rows that bear it    *)
(* and against the draft itself, for ever.                                 *)
THEOREM RevisionsNameOneDocument == Spec => []RevisionNamesOneDocument
<1>1. Init => SnapshotsAgree
  <2> SUFFICES ASSUME Init PROVE SnapshotsAgree
    OBVIOUS
  <2>1. Bearers = {}
    BY DEF Init, StoreInit, NoBuild, Bearers
  <2> QED
    BY <2>1 DEF SnapshotsAgree
<1>2. LifecycleInv /\ SnapshotsAgree /\ [Next]_vars => SnapshotsAgree'
  BY SnapshotsAgreeStep
<1>3. LifecycleInv /\ BlankRows /\ SnapshotsAgree => RevisionNamesOneDocument
  <2> SUFFICES ASSUME LifecycleInv, BlankRows, SnapshotsAgree PROVE RevisionNamesOneDocument
    OBVIOUS
  <2>0. build \in [Runs -> BuildRow] /\ draft \in [Drafts -> DraftRow] /\ RowsComplete
    BY DEF LifecycleInv, TypeOK
  <2>1. ASSUME NEW r \in Runs, build[r].state # "ABSENT"
        PROVE  /\ build[r].rev <= draft[build[r].draft].rev
               /\ build[r].rev = draft[build[r].draft].rev
                    => build[r].doc = draft[build[r].draft].doc
    <3>1. SnapshotOf(build[r]) \in Bearers
      BY <2>1 DEF Bearers
    <3>2. build[r].rev \in Nat /\ draft[build[r].draft].rev \in Nat
      BY <2>0, <2>1 DEF BuildRow, DraftRow, RowsComplete
    <3> QED
      BY <3>1, <3>2 DEF SnapshotsAgree, SnapshotOf, Outdated, Current
  <2>2. ASSUME NEW r \in Runs, NEW s \in Runs, build[r].draft = build[s].draft,
               build[r].rev = build[s].rev
        PROVE  build[r].doc = build[s].doc
    <3>1. CASE build[r].state # "ABSENT" /\ build[s].state # "ABSENT"
      <4>1. SnapshotOf(build[r]) \in Bearers /\ SnapshotOf(build[s]) \in Bearers
        BY <3>1 DEF Bearers
      <4> QED
        BY <2>2, <4>1 DEF SnapshotsAgree, SnapshotOf
    <3>2. CASE build[r].state = "ABSENT" \/ build[s].state = "ABSENT"
      <4>1. build[r].state = "ABSENT" /\ build[s].state = "ABSENT"
        BY <2>0, <2>2, <3>2, StoreAssumption DEF BlankRows, RowsComplete, NoBuild
      <4> QED
        BY <4>1 DEF BlankRows
    <3> QED
      BY <3>1, <3>2
  <2> QED
    BY <2>1, <2>2 DEF RevisionNamesOneDocument
<1> QED
  BY <1>1, <1>2, <1>3, LifecycleInvariant, RowsStartBlank, PTL DEF Spec
-----------------------------------------------------------------------------
(* Two versions with a key have different keys.                            *)
KeysDiffer ==
  \A u, v \in Versions :
    /\ VersionExists(u) /\ VersionExists(v)
    /\ version[u].key = version[v].key /\ version[u].key # None
    => u = v

(* publish_curve_lab_version only inserts under a key nobody has.          *)
LEMMA KeysDifferStep ==
  ASSUME LifecycleInv, KeysDiffer, [Next]_vars
  PROVE  KeysDiffer'
<1>0. version \in [Versions -> VersionRow]
  BY DEF LifecycleInv, TypeOK
<1>1. CASE UNCHANGED version
  BY <1>1 DEF KeysDiffer, VersionExists
<1>2. ASSUME NEW c \in Clients, NEW w \in Versions, PublishCreate(c, w) PROVE KeysDiffer'
  <2>1. /\ \A v \in Versions : VersionExists(v) => version[v].key # req[c].key
        /\ version'[w].key = req[c].key
        /\ \A v \in Versions \ {w} : version'[v] = version[v]
    BY <1>0, <1>2 DEF PublishCreate, InsertVersion, KeyOwners
  <2> QED
    BY <2>1 DEF KeysDiffer, VersionExists
<1>3. ASSUME NEW w \in Versions, VersionExists(w), ArchiveRow(w) PROVE KeysDiffer'
  <2>1. \A v \in Versions : version'[v].key = version[v].key
                            /\ (VersionExists(v)' => VersionExists(v))
    BY <1>0, <1>3 DEF ArchiveRow, VersionRow, VersionExists
  <2> QED
    BY <2>1 DEF KeysDiffer
<1> QED
  BY <1>1, <1>2, <1>3, VersionWrites

(* No idempotency key is ever spent on two versions.                       *)
THEOREM KeysSpentOnce == Spec => []KeysUnique
<1>1. Init => KeysDiffer
  <2> SUFFICES ASSUME Init PROVE KeysDiffer
    OBVIOUS
  <2>1. \A v \in Versions : version[v].key = None
    BY DEF Init, StoreInit, ImportedVersion, NoVersion
  <2> QED
    BY <2>1 DEF KeysDiffer
<1>2. LifecycleInv /\ KeysDiffer /\ [Next]_vars => KeysDiffer'
  BY KeysDifferStep
<1>3. KeysDiffer => KeysUnique
  <2> SUFFICES ASSUME KeysDiffer, NEW k \in Keys PROVE Cardinality(KeyOwners(k)) <= 1
    BY DEF KeysUnique
  <2>1. \A u, v \in KeyOwners(k) : u = v
    BY StoreAssumption DEF KeyOwners, KeysDiffer
  <2>2. CASE KeyOwners(k) = {}
    BY <2>2, FS_EmptySet
  <2>3. ASSUME NEW v \in KeyOwners(k) PROVE Cardinality(KeyOwners(k)) <= 1
    <3>1. KeyOwners(k) = {v}
      BY <2>1
    <3> QED
      BY <3>1, FS_Singleton
  <2> QED
    BY <2>2, <2>3
<1> QED
  BY <1>1, <1>2, <1>3, LifecycleInvariant, PTL DEF Spec
-----------------------------------------------------------------------------
(* The manifest m is the whole and true evidence for a document.           *)
Evidence(doc, m) ==
  /\ {entry[1] : entry \in m} = Deps[doc]
  /\ \A entry \in m : VersionExists(entry[1]) /\ version[entry[1]].payload = entry[2]

Solving == {"native", "axis", "views"}

(* A thread that goes on to solve carries such evidence.                   *)
EvidenceInv ==
  \A r \in Runs :
    /\ build[r].state = "SUCCEEDED" =>
         build[r].payload = r /\ Evidence(build[r].doc, build[r].manifest)
    /\ wpc[r] \in Solving \cup {"prepare"} /\ found[r].ok =>
         Evidence(build[r].doc, found[r].manifest)
    /\ wpc[r] \in Solving => found[r].ok

(* Published payloads do not change, so evidence that holds stays.         *)
LEMMA EvidenceStays ==
  ASSUME LifecycleInv, [Next]_vars, NEW doc \in Docs, NEW m \in Manifests, Evidence(doc, m)
  PROVE  Evidence(doc, m)'
<1>1. version \in [Versions -> VersionRow]
  BY DEF LifecycleInv, TypeOK
<1>2. \A v \in Versions : VersionExists(v) =>
        VersionExists(v)' /\ version'[v].payload = version[v].payload
  BY <1>1, VersionRowStays DEF VersionExists, VersionRow
<1>3. \A entry \in m : entry[1] \in Versions
  BY DEF Manifests
<1> QED
  BY <1>2, <1>3 DEF Evidence, VersionExists

(* What _resolve_build_dependencies returns is evidence.                   *)
LEMMA ResolvedIsEvidence ==
  ASSUME NEW doc \in Docs, LifecycleInv, \A v \in Deps[doc] : UsableDependency(v)
  PROVE  Evidence(doc, ManifestOf(Deps[doc]))
<1>1. Deps[doc] \subseteq Versions
  BY StoreAssumption
<1>2. {entry[1] : entry \in ManifestOf(Deps[doc])} = Deps[doc]
  <2>1. \A entry \in ManifestOf(Deps[doc]) : entry[1] \in Deps[doc]
    BY DEF ManifestOf
  <2>2. ASSUME NEW v \in Deps[doc] PROVE \E entry \in ManifestOf(Deps[doc]) : entry[1] = v
    <3>1. <<v, version[v].payload>> \in ManifestOf(Deps[doc])
      BY DEF ManifestOf
    <3> QED
      BY <3>1
  <2> QED
    BY <2>1, <2>2
<1> QED
  BY <1>1, <1>2 DEF Evidence, ManifestOf, UsableDependency, VersionExists

(* Evidence is gathered by the thread that owns the row.                   *)
LEMMA EvidenceStep ==
  ASSUME LifecycleInv, EvidenceInv, [Next]_vars
  PROVE  EvidenceInv'
<1>0. /\ build \in [Runs -> BuildRow] /\ wpc \in [Runs -> ThreadSteps]
      /\ found \in [Runs -> [ok : BOOLEAN, manifest : Manifests]]
      /\ RowsComplete /\ ThreadsHold
  BY DEF LifecycleInv, TypeOK, OneWriterPerRow
<1> DEFINE Holds(r) ==
      /\ build[r].state = "SUCCEEDED" =>
           build[r].payload = r /\ Evidence(build[r].doc, build[r].manifest)
      /\ wpc[r] \in Solving \cup {"prepare"} /\ found[r].ok =>
           Evidence(build[r].doc, found[r].manifest)
      /\ wpc[r] \in Solving => found[r].ok
<1> SUFFICES ASSUME NEW r \in Runs PROVE Holds(r)'
  BY DEF EvidenceInv
<1>a. Holds(r)
  BY DEF EvidenceInv
<1>1. wpc[r] \in Working => build[r].state \in InFlight /\ build[r].doc \in Docs
  BY <1>0 DEF ThreadsHold, RowsComplete, InFlight
<1>2. ASSUME NEW doc \in Docs, NEW m \in Manifests, Evidence(doc, m),
             build'[r].doc = doc, build'[r].manifest = m
      PROVE  Evidence(build[r].doc, build[r].manifest)'
  BY <1>2, EvidenceStays DEF Evidence
<1>3. ASSUME NEW doc \in Docs, NEW m \in Manifests, Evidence(doc, m),
             build'[r].doc = doc, found'[r].manifest = m
      PROVE  Evidence(build[r].doc, found[r].manifest)'
  BY <1>3, EvidenceStays DEF Evidence
<1>4. CASE build'[r] = build[r] /\ wpc'[r] = wpc[r] /\ found'[r] = found[r]
  <2>1. build[r].state = "SUCCEEDED" => build[r].doc \in Docs /\ build[r].manifest \in Manifests
    BY <1>0 DEF RowsComplete, BuildRow
  <2>2. (build[r].state = "SUCCEEDED" => build[r].payload = r
           /\ Evidence(build[r].doc, build[r].manifest))'
    BY <1>a, <1>2, <1>4, <2>1
  <2>3. (wpc[r] \in Solving \cup {"prepare"} /\ found[r].ok =>
           Evidence(build[r].doc, found[r].manifest))'
    BY <1>a, <1>0, <1>1, <1>3, <1>4 DEF Solving, Working
  <2> QED
    BY <1>a, <1>4, <2>2, <2>3
<1>5. ASSUME wpc'[r] \notin Solving \cup {"prepare"},
             build'[r] = build[r] \/ build'[r].state # "SUCCEEDED"
      PROVE  Holds(r)'
  <2>1. CASE build'[r].state # "SUCCEEDED"
    BY <1>5, <2>1
  <2>2. CASE build'[r] = build[r] /\ build[r].state = "SUCCEEDED"
    <3>1. build[r].doc \in Docs /\ build[r].manifest \in Manifests
      BY <1>0, <2>2 DEF RowsComplete, BuildRow
    <3> QED
      BY <1>a, <1>2, <1>5, <2>2, <3>1
  <2> QED
    BY <1>5, <2>1, <2>2
<1>6. ASSUME UNCHANGED <<wpc, found>>, wpc[r] \notin Working,
             build'[r] = build[r] \/ build'[r].state # "SUCCEEDED"
      PROVE  Holds(r)'
  BY <1>5, <1>6 DEF Working, Solving
<1>7. ASSUME NEW c \in Clients, HandlerStep(c) PROVE Holds(r)'
  <2>1. UNCHANGED <<wpc, found>>
    BY <1>7, HandlerFrame DEF threadVars
  <2>2. CASE build'[r] = build[r]
    BY <1>4, <2>1, <2>2
  <2>3. CASE req[c].run = r /\ BuildPersist(c)
    <3>1. pc[c] = "persist" /\ build' = [build EXCEPT ![r] =
             [NoBuild EXCEPT !.state = "QUEUED", !.draft = req[c].draft,
                             !.rev = req[c].rev, !.doc = req[c].doc]]
      BY <2>3 DEF BuildPersist, PutBuild
    <3>2. build[r].state = "ABSENT"
      BY <2>3, <3>1 DEF LifecycleInv, OneWriterPerRow, HandlersHold, Holding
    <3>3. build'[r].state = "QUEUED"
      BY <1>0, <3>1 DEF NoBuild
    <3> QED
      BY <1>1, <1>6, <2>1, <3>2, <3>3 DEF InFlight
  <2> QED
    BY <1>7, <2>2, <2>3, HandlerRowWrites
<1>8. ASSUME NEW s \in Runs \ {r}, BuildStep(s) PROVE Holds(r)'
  BY <1>4, <1>8, ThreadStaysHome
<1>9. CASE BuildStep(r)
  <2>1. ASSUME NEW state, NEW m, NEW step \in {"exit", "auditFailure", "resolve"},
               state # "SUCCEEDED", Record(r, state, m, step)
        PROVE  Holds(r)'
    <3>1. build' = [build EXCEPT ![r] = [build[r] EXCEPT !.state = state, !.manifest = m]]
          /\ wpc' = [wpc EXCEPT ![r] = step]
      BY <2>1 DEF Record, PutBuild, Thread
    <3>2. build'[r].state = state /\ wpc'[r] = step
      BY <1>0, <3>1 DEF BuildRow
    <3> QED
      BY <1>5, <2>1, <3>2 DEF Solving
  <2>2. CASE BuildPrepare(r) /\ ~expired[r] /\ found[r].ok
    <3> DEFINE m == found[r].manifest
    <3>1. /\ build' = [build EXCEPT ![r] = [build[r] EXCEPT !.state = "SOLVING", !.manifest = m]]
          /\ wpc[r] = "prepare" /\ wpc' = [wpc EXCEPT ![r] = "native"] /\ UNCHANGED found
      BY <2>2 DEF BuildPrepare, Record, PutBuild, Thread
    <3>2. build'[r].state = "SOLVING" /\ build'[r].doc = build[r].doc /\ wpc'[r] = "native"
      BY <1>0, <3>1 DEF BuildRow
    <3>3. Evidence(build[r].doc, m) /\ build[r].doc \in Docs /\ m \in Manifests
      BY <1>0, <1>1, <1>a, <2>2, <3>1 DEF Working
    <3>4. Evidence(build[r].doc, found[r].manifest)'
      BY <1>3, <3>1, <3>2, <3>3
    <3> QED
      BY <2>2, <3>1, <3>2, <3>4
  <2>3. CASE (BuildNative(r) /\ ~expired[r]) \/ BuildAxis(r)
    <3>1. /\ UNCHANGED <<build, found>> /\ wpc[r] \in Solving /\ wpc'[r] \in Solving
      BY <1>0, <2>3 DEF BuildNative, BuildAxis, Thread, storeVars, Solving
    <3>2. Evidence(build[r].doc, found[r].manifest)'
      BY <1>0, <1>1, <1>3, <1>a, <3>1 DEF Solving, Working
    <3>3. build[r].state # "SUCCEEDED"
      BY <1>1, <3>1 DEF Solving, Working, InFlight
    <3> QED
      BY <1>a, <3>1, <3>2, <3>3
  <2>4. CASE BuildViews(r)
    <3> DEFINE m == found[r].manifest
    <3>1. /\ build' = [build EXCEPT ![r] = [build[r] EXCEPT !.state = "SUCCEEDED", !.payload = r,
                                                            !.manifest = m]]
          /\ wpc[r] = "views" /\ wpc' = [wpc EXCEPT ![r] = "auditSuccess"]
      BY <2>4 DEF BuildViews, PutBuild, Thread
    <3>2. /\ build'[r].payload = r /\ build'[r].doc = build[r].doc /\ build'[r].manifest = m
          /\ wpc'[r] = "auditSuccess"
      BY <1>0, <3>1 DEF BuildRow
    <3>3. Evidence(build[r].doc, m) /\ build[r].doc \in Docs /\ m \in Manifests
      BY <1>0, <1>1, <1>a, <3>1 DEF Solving, Working
    <3>4. Evidence(build[r].doc, build[r].manifest)'
      BY <1>2, <3>2, <3>3
    <3> QED
      BY <3>2, <3>4 DEF Solving
  <2>5. CASE BuildResolve(r)
    <3> DEFINE doc == build[r].doc
               usable == {v \in Deps[doc] : UsableDependency(v)}
    <3>1. PICK S \in SUBSET usable :
            /\ usable = Deps[doc] => S = Deps[doc]
            /\ found' = [found EXCEPT ![r] = [ok |-> usable = Deps[doc],
                                              manifest |-> ManifestOf(S)]]
      BY <2>5 DEF BuildResolve
    <3>2. /\ wpc[r] = "resolve" /\ wpc'[r] = "prepare" /\ UNCHANGED build
      BY <1>0, <2>5 DEF BuildResolve, Thread, storeVars
    <3>3. doc \in Docs /\ build[r].state # "SUCCEEDED"
      BY <1>1, <3>2 DEF Working, InFlight
    <3>4. ASSUME found'[r].ok PROVE Evidence(build[r].doc, found[r].manifest)'
      <4>1. usable = Deps[doc] /\ found'[r].manifest = ManifestOf(Deps[doc])
        BY <1>0, <3>1, <3>4
      <4>2. Evidence(doc, ManifestOf(Deps[doc]))
        BY <3>3, <4>1, ResolvedIsEvidence
      <4>3. ManifestOf(Deps[doc]) \in Manifests
        BY <3>3, StoreAssumption DEF LifecycleInv, TypeOK, ManifestOf, Manifests, VersionRow
      <4>4. PICK m \in Manifests : m = ManifestOf(Deps[doc])
        BY <4>3
      <4> QED
        BY <1>3, <3>2, <3>3, <4>1, <4>2, <4>4
    <3> QED
      BY <3>2, <3>3, <3>4 DEF Solving
  <2>6. CASE AuditBuild(r) \/ WorkerRaises(r) \/ ExitBuild(r) \/ TakeBuild(r)
    <3>1. UNCHANGED build /\ wpc'[r] \in {"exit", "none", "begin"}
      BY <1>0, <2>6 DEF AuditBuild, WorkerRaises, ExitBuild, TakeBuild, Thread, storeVars
    <3> QED
      BY <1>5, <3>1 DEF Solving
  <2>7. CASE RetireBuild(r)
    BY <1>4, <2>7 DEF RetireBuild, storeVars, threadVars
  <2> HIDE DEF Holds
  <2>8. ASSUME BuildBegin(r) \/ NativeFails(r) \/ BuildPrepare(r) \/ BuildNative(r)
        PROVE  \/ \E state, m : \E step \in {"exit", "auditFailure", "resolve"} :
                    state # "SUCCEEDED" /\ Record(r, state, m, step)
               \/ BuildPrepare(r) /\ ~expired[r] /\ found[r].ok
               \/ BuildNative(r) /\ ~expired[r]
    BY <2>8 DEF BuildBegin, NativeFails, BuildPrepare, BuildNative
  <2> QED
    BY <1>9, <2>1, <2>2, <2>3, <2>4, <2>5, <2>6, <2>7, <2>8 DEF BuildStep
<1>10. CASE Crash
  <2>1. UNCHANGED build /\ wpc'[r] = "none"
    BY <1>10 DEF Crash, storeVars
  <2> QED
    BY <1>5, <2>1 DEF Solving
<1>11. CASE Restart
  <2>1. wpc[r] = "none" /\ UNCHANGED <<wpc, found>>
    BY <1>11, LifecycleAssumption
    DEF Restart, threadVars, LifecycleInv, OneWriterPerRow, NothingRunsWhileDown, ThreadsHold
  <2>2. build'[r] = build[r] \/ build'[r].state \in {"TIMED_OUT", "FAILED"}
    BY <1>0, <1>11 DEF Restart, Reconcile, BuildRow
  <2> QED
    BY <1>6, <2>1, <2>2 DEF Working
<1>12. CASE \/ \E s \in Runs : Expire(s)
            \/ \E j \in Jobs \ Runs : OtherJobStep(j)
            \/ UNCHANGED vars
  <2>1. UNCHANGED <<build, wpc, found>>
    BY <1>12 DEF Expire, OtherJobStep, vars, storeVars, threadVars
  <2> QED
    BY <1>4, <2>1
<1> HIDE DEF Holds
<1> QED
  BY <1>7, <1>8, <1>9, <1>10, <1>11, <1>12 DEF Next
-----------------------------------------------------------------------------
(* Initially nothing has been built and no thread runs.                    *)
LEMMA EvidenceInit == Init => EvidenceInv
  BY DEF Init, StoreInit, NoBuild, EvidenceInv, Solving

(* Evidence is complete and true, for ever.                                *)
LEMMA EvidenceInvariant == Spec => []EvidenceInv
<1>1. LifecycleInv /\ EvidenceInv /\ [Next]_vars => EvidenceInv'
  BY EvidenceStep
<1> QED
  BY <1>1, EvidenceInit, LifecycleInvariant, PTL DEF Spec

(* The manifest of a successful run names every dependency of its document *)
(* with the payload that version still has.                                *)
THEOREM EvidenceIsWhole == Spec => []BuildEvidenceHolds
<1>1. EvidenceInv => BuildEvidenceHolds
  BY DEF EvidenceInv, Evidence, BuildEvidenceHolds
<1> QED
  BY <1>1, EvidenceInvariant, PTL

(* No version is published on top of a dependency that is archived then.   *)
THEOREM DependenciesVisibleAtPublication == Spec => NoPublicationOnArchivedDependency
<1>1. ASSUME LifecycleInv, PublicationInv, [Next]_vars, NEW v \in Versions,
             ~VersionExists(v), VersionExists(v)'
      PROVE  \A entry \in version'[v].manifest : version[entry[1]].visibility = "VISIBLE"
  <2>0. version \in [Versions -> VersionRow]
    BY <1>1 DEF LifecycleInv, TypeOK
  <2>1. PICK c \in Clients, w \in Versions : PublishCreate(c, w)
    BY <1>1, <2>0, VersionWrites DEF VersionExists, ArchiveRow
  <2>2. w = v
    BY <1>1, <2>0, <2>1 DEF PublishCreate, InsertVersion, VersionExists
  <2>3. /\ version'[v].manifest = req[c].manifest
        /\ ManifestHolds(build[req[c].run].manifest)
    BY <2>0, <2>1, <2>2 DEF PublishCreate, InsertVersion
  <2>4. req[c].manifest = build[req[c].run].manifest
    BY <1>1, <2>1 DEF PublishCreate, PublicationInv, PublisherHoldsRun
  <2> QED
    BY <2>3, <2>4 DEF ManifestHolds
<1>2. LifecycleInv /\ PublicationInv /\ [Next]_vars
        => [\A v \in Versions : ~VersionExists(v) /\ VersionExists(v)' =>
              \A entry \in version'[v].manifest : version[entry[1]].visibility = "VISIBLE"]_vars
  BY <1>1
<1> QED
  BY <1>2, LifecycleInvariant, PublicationInvariant, PTL
  DEF Spec, NoPublicationOnArchivedDependency
-----------------------------------------------------------------------------
(* What an event of the audit trail says of the tables.                    *)
Tells(event) ==
  /\ event[1] = "BUILD_SUCCEEDED" => event[2] \in Runs /\ build[event[2]].state = "SUCCEEDED"
  /\ event[1] = "BUILD_FAILED" => event[2] \in Runs /\ build[event[2]].state = "FAILED"
  /\ event[1] = "VERSION_CREATED" =>
       event[2] \in Versions /\ VersionExists(event[2]) /\ version[event[2]].run # None
  /\ event[1] = "VERSION_ARCHIVED" =>
       event[2] \in Versions /\ version[event[2]].visibility = "ARCHIVED"

(* The trail, and the events that handlers are about to add to it, are     *)
(* true.                                                                   *)
AuditInv ==
  /\ \A event \in audit : Tells(event)
  /\ \A c \in Clients : pc[c] = "audit" => Tells(req[c].event)

(* What has been true stays true: terminal rows, versions and their        *)
(* archival are for ever.                                                  *)
LEMMA TellsStays ==
  ASSUME LifecycleInv, [Next]_vars, NEW event, Tells(event)
  PROVE  Tells(event)'
<1>0. version \in [Versions -> VersionRow]
  BY DEF LifecycleInv, TypeOK
<1>1. \A r \in Runs : build[r].state \in Terminal => build'[r].state = build[r].state
  BY TerminalRowStays
<1>2. \A v \in Versions : VersionExists(v) =>
        /\ VersionExists(v)' /\ version'[v].run = version[v].run
        /\ version[v].visibility = "ARCHIVED" => version'[v].visibility = "ARCHIVED"
  BY <1>0, VersionRowStays DEF VersionExists, VersionRow
<1>3. ASSUME event[1] \in {"BUILD_SUCCEEDED", "BUILD_FAILED"}
      PROVE  event[2] \in Runs /\ build'[event[2]].state = build[event[2]].state
  BY <1>1, <1>3 DEF Tells, Terminal
<1>4. ASSUME event[1] \in {"VERSION_CREATED", "VERSION_ARCHIVED"}
      PROVE  event[2] \in Versions /\ VersionExists(event[2])
  BY <1>4 DEF Tells, VersionExists
<1>5. /\ event[1] = "BUILD_SUCCEEDED" => event[2] \in Runs /\ build'[event[2]].state = "SUCCEEDED"
      /\ event[1] = "BUILD_FAILED" => event[2] \in Runs /\ build'[event[2]].state = "FAILED"
  BY <1>3 DEF Tells
<1>6. event[1] = "VERSION_CREATED" =>
        event[2] \in Versions /\ VersionExists(event[2])' /\ version'[event[2]].run # None
  BY <1>2, <1>4 DEF Tells
<1>7. event[1] = "VERSION_ARCHIVED" =>
        event[2] \in Versions /\ version'[event[2]].visibility = "ARCHIVED"
  BY <1>2, <1>4 DEF Tells
<1> QED
  BY <1>5, <1>6, <1>7 DEF Tells

(* The events a handler or a thread brings about are true of the tables it *)
(* leaves behind.                                                          *)
LEMMA NewEventsTell ==
  ASSUME LifecycleInv, NEW c \in Clients, HandlerStep(c), pc'[c] = "audit"
  PROVE  Tells(req[c].event)'
<1>0. version \in [Versions -> VersionRow] /\ RequestsComplete /\ req \in [Clients -> Request]
  BY DEF LifecycleInv, TypeOK
<1>1. ASSUME NEW action, NEW target, AuditNext(c, action, target)
      PROVE  req'[c].event = <<action, target>>
  <2> DEFINE q == [NoRequest EXCEPT !.event = <<action, target>>]
  <2>1. q.event = <<action, target>>
    BY DEF NoRequest
  <2>2. Continue(c, "audit", q)
    BY <1>1 DEF AuditNext
  <2> HIDE DEF q
  <2> QED
    BY <2>1, <2>2, ContinueWrites
<1>2. ASSUME NEW d \in Drafts, NEW doc \in Docs,
             \/ CreateDraft(c, d, doc)
             \/ \E v \in Versions : CloneVersion(c, v, d, doc)
      PROVE  Tells(req[c].event)'
  BY <1>1, <1>2 DEF CreateDraft, CloneVersion, Tells
<1>3. CASE UpdateWrite(c)
  BY <1>1, <1>3 DEF UpdateWrite, Tells
<1>4. ASSUME NEW v \in Versions, PublishCreate(c, v) PROVE Tells(req[c].event)'
  <2>1. req'[c].event = <<"VERSION_CREATED", v>>
    BY <1>1, <1>4 DEF PublishCreate
  <2>2. req[c].run \in Runs
    BY <1>0, <1>4 DEF PublishCreate, RequestsComplete
  <2>3. version'[v].visibility = "VISIBLE" /\ version'[v].run = req[c].run
    BY <1>0, <1>4 DEF PublishCreate, InsertVersion
  <2> QED
    BY <2>1, <2>2, <2>3, StoreAssumption DEF Tells, VersionExists
<1>5. ASSUME NEW v \in Versions, Archive(c, v) PROVE Tells(req[c].event)'
  <2>1. req'[c].event = <<"VERSION_ARCHIVED", v>>
    BY <1>1, <1>5 DEF Archive
  <2>2. version'[v].visibility = "ARCHIVED"
    BY <1>0, <1>5 DEF Archive, ArchiveRow, VersionRow
  <2> QED
    BY <2>1, <2>2 DEF Tells
<1> QED
  BY <1>2, <1>3, <1>4, <1>5, HandlerGoesOn

(* An event is true when it is announced and when it is written.           *)
LEMMA AuditStep ==
  ASSUME LifecycleInv, AuditInv, [Next]_vars
  PROVE  AuditInv'
<1>1. \A c \in Clients : pc'[c] = "audit" => Tells(req[c].event)'
  <2> SUFFICES ASSUME NEW c \in Clients, pc'[c] = "audit" PROVE Tells(req[c].event)'
    OBVIOUS
  <2>1. CASE pc'[c] = pc[c] /\ req'[c] = req[c]
    <3>1. PICK event : event = req[c].event
      OBVIOUS
    <3>2. Tells(event)'
      BY <2>1, <3>1, TellsStays DEF AuditInv
    <3> QED
      BY <2>1, <3>1, <3>2 DEF Tells
  <2> QED
    BY <2>1, NewEventsTell, RequestSteps
<1>2. ASSUME NEW event \in audit' PROVE Tells(event)'
  <2>1. CASE event \in audit
    BY <2>1, TellsStays DEF AuditInv
  <2>2. ASSUME NEW c \in Clients, Audit(c) PROVE event \in audit \/ Tells(event)
    BY <2>2 DEF Audit, AuditInv
  <2>3. ASSUME NEW r \in Runs, AuditBuild(r) PROVE event \in audit \/ Tells(event)
    <3>1. \/ wpc[r] = "auditSuccess" /\ build[r].state = "SUCCEEDED"
          \/ wpc[r] = "auditFailure" /\ build[r].state = "FAILED"
      BY <2>3 DEF AuditBuild, AuditEvent, LifecycleInv, OneWriterPerRow, ThreadsHold
    <3> QED
      BY <2>3, <3>1 DEF AuditBuild, AuditEvent, Tells
  <2>4. \/ UNCHANGED audit
        \/ \E c \in Clients : Audit(c)
        \/ \E r \in Runs : AuditBuild(r)
    <3>1. ASSUME NEW c \in Clients, HandlerStep(c) PROVE UNCHANGED audit \/ Audit(c)
      BY <3>1
      DEF HandlerStep, CreateDraft, UpdateRead, UpdateWrite, UpdateConflict, CloneVersion,
          AuditRaises, BuildRead, BuildPersist, BuildPersistRaises, BuildSubmit,
          BuildSubmitRaises, BuildCancel, PublishReadDraft, PublishDraftStale, PublishCheckRun,
          PublishConflict, PublishExisting, PublishCreate, Refuse, Archive, storeVars
    <3>2. ASSUME NEW r \in Runs, BuildStep(r) PROVE UNCHANGED audit \/ AuditBuild(r)
      BY <3>2
      DEF BuildStep, TakeBuild, BuildBegin, BuildResolve, BuildPrepare, BuildNative, BuildAxis,
          BuildViews, NativeFails, WorkerRaises, ExitBuild, RetireBuild, Record, storeVars
    <3>3. CASE \/ \E r \in Runs : Expire(r)
               \/ \E j \in Jobs \ Runs : OtherJobStep(j)
               \/ Crash \/ Restart \/ UNCHANGED vars
      BY <3>3 DEF Expire, OtherJobStep, Crash, Restart, vars, storeVars
    <3> QED
      BY <3>1, <3>2, <3>3 DEF Next
  <2> QED
    BY <2>1, <2>2, <2>3, <2>4, TellsStays
<1> QED
  BY <1>1, <1>2 DEF AuditInv

(* The audit trail never contradicts the tables, although each event is    *)
(* written by a store call after the write it reports.                     *)
THEOREM AuditTrailIsTruthful == Spec => []AuditTruthful
<1>1. Init => AuditInv
  BY DEF Init, StoreInit, AuditInv
<1>2. LifecycleInv /\ AuditInv /\ [Next]_vars => AuditInv'
  BY AuditStep
<1>3. AuditInv => AuditTruthful
  BY DEF AuditInv, Tells, AuditTruthful
<1> QED
  BY <1>1, <1>2, <1>3, LifecycleInvariant, PTL DEF Spec
-----------------------------------------------------------------------------
Submitter(c, r) == pc[c] = "submit" /\ req[c].run = r

OrphanInv ==
  /\ NoOrphanRows
  /\ faults = 0 => \A r \in Runs : wpc[r] = "exit" => build[r].state \notin InFlight

Tended(r) == (\E c \in Clients : Submitter(c, r)) \/ resv[r] \in {"queued", "running"}

(* A handler leaves the reservation of a submitted job alone, and the one  *)
(* that is about to submit a job submits it.                               *)
LEMMA HandlerTends ==
  ASSUME LifecycleInv, NEW c \in Clients, HandlerStep(c), faults' = 0, faults = 0,
         NEW r \in Runs, Tended(r)
  PROVE  Tended(r)'
<1>0. resv \in [Jobs -> Statuses] /\ Runs \subseteq Jobs /\ RequestsComplete
  BY LifecycleAssumption DEF LifecycleInv, TypeOK, JobsTypeOK
<1>1. ~Fault
  BY DEF Fault
<1>2. CASE resv[r] \in {"queued", "running"}
  <2>1. \/ UNCHANGED resv
        \/ \E s \in Runs : /\ resv[s] \in {"none", "held", "refused"}
                          /\ \E status : resv' = [resv EXCEPT ![s] = status]
    <3>1. ASSUME NEW d \in Drafts, NEW s \in Runs, BuildRead(c, d, s)
          PROVE  resv[s] = "none" /\ \E status : resv' = [resv EXCEPT ![s] = status]
      BY <3>1 DEF BuildRead, Reserve
    <3>2. ASSUME BuildSubmit(c) \/ BuildSubmitRaises(c) \/ BuildCancel(c)
          PROVE  /\ req[c].run \in Runs /\ resv[req[c].run] \in {"held", "refused"}
                 /\ \E status : resv' = [resv EXCEPT ![req[c].run] = status]
      BY <1>0, <3>2
      DEF BuildSubmit, BuildSubmitRaises, BuildCancel, Submit, SubmitRaises, Cancel, Consumed,
          RequestsComplete, Holding
    <3>3. BuildPersist(c) \/ BuildPersistRaises(c) => UNCHANGED resv
      BY DEF BuildPersist, BuildPersistRaises, jobVars
    <3> QED
      BY <3>1, <3>2, <3>3, HandlerCases DEF LifecycleInv, jobVars
  <2> QED
    BY <1>0, <1>2, <2>1 DEF Tended
<1>3. ASSUME NEW e \in Clients, e # c, Submitter(e, r) PROVE Tended(r)'
  BY <1>3, HandlerGoesOn DEF Submitter, Tended
<1>4. CASE Submitter(c, r)
  <2>1. BuildSubmit(c)
    BY <1>1, <1>4, HandlerCases
    DEF LifecycleInv, Submitter, Holding, BuildRead, BuildPersist, BuildPersistRaises,
        BuildSubmitRaises, BuildCancel
  <2> QED
    BY <1>0, <1>4, <2>1 DEF BuildSubmit, Submit, Submitter, Tended
<1> QED
  BY <1>2, <1>3, <1>4 DEF Tended

(* Without a fault a thread leaves only when its row is settled.           *)
LEMMA ThreadTends ==
  ASSUME LifecycleInv, OrphanInv, NEW r \in Runs, BuildStep(r), faults = 0, faults' = 0
  PROVE  /\ wpc'[r] = "exit" => build'[r].state \notin InFlight
         /\ build[r].state \in InFlight /\ Tended(r) => Tended(r)'
<1>0. /\ build \in [Runs -> BuildRow] /\ wpc \in [Runs -> ThreadSteps]
      /\ resv \in [Jobs -> Statuses] /\ r \in Jobs /\ ThreadsHold
  BY LifecycleAssumption DEF LifecycleInv, TypeOK, JobsTypeOK, OneWriterPerRow
<1>1. ~Fault
  BY DEF Fault
<1>2. ASSUME wpc'[r] = "exit" PROVE build'[r].state \notin InFlight
  <2>1. CASE AuditBuild(r)
    BY <1>0, <2>1 DEF AuditBuild, AuditEvent, ThreadsHold, InFlight
  <2>2. ASSUME NEW m, Record(r, "TIMED_OUT", m, "exit") PROVE build'[r].state \notin InFlight
    <3>1. build'[r].state = "TIMED_OUT"
      BY <1>0, <2>2 DEF Record, PutBuild, BuildRow
    <3> QED
      BY <3>1 DEF InFlight
  <2>3. CASE RetireBuild(r)
    BY <1>2, <2>3 DEF RetireBuild, threadVars, storeVars, OrphanInv
  <2>4. \/ \E m : Record(r, "TIMED_OUT", m, "exit")
        \/ \E step \in ThreadSteps \ {"exit"} : Thread(r, step)
        \/ AuditBuild(r) \/ RetireBuild(r)
    BY <1>1
    DEF BuildStep, TakeBuild, BuildBegin, BuildResolve, BuildPrepare, BuildNative, BuildAxis,
        BuildViews, NativeFails, WorkerRaises, ExitBuild, Record, ThreadSteps, Working
  <2> QED
    BY <1>0, <1>2, <2>1, <2>2, <2>3, <2>4 DEF Thread
<1>3. ASSUME build[r].state \in InFlight, Tended(r) PROVE Tended(r)'
  <2>1. CASE \E c \in Clients : Submitter(c, r)
    BY <2>1, BuildFrame DEF handlerVars, Submitter, Tended
  <2>2. CASE resv[r] \in {"queued", "running"}
    <3>1. ~ExitBuild(r) /\ ~RetireBuild(r)
      BY <1>0, <1>3, <2>2 DEF ExitBuild, RetireBuild, Retire, OrphanInv, ThreadsHold
    <3>2. UNCHANGED resv \/ resv' = [resv EXCEPT ![r] = "running"]
      BY <3>1
      DEF BuildStep, TakeBuild, BuildBegin, BuildResolve, BuildPrepare, BuildNative, BuildAxis,
          BuildViews, NativeFails, AuditBuild, WorkerRaises, Record, Take, jobVars
    <3> QED
      BY <1>0, <2>2, <3>2 DEF Tended
  <2> QED
    BY <1>3, <2>1, <2>2 DEF Tended
<1> QED
  BY <1>2, <1>3

(* No step leaves a row in flight untended.                                *)
LEMMA OrphanStep ==
  ASSUME LifecycleInv, OrphanInv, [Next]_vars
  PROVE  OrphanInv'
<1>0. /\ build \in [Runs -> BuildRow] /\ wpc \in [Runs -> ThreadSteps]
      /\ resv \in [Jobs -> Statuses] /\ Runs \subseteq Jobs /\ faults \in Nat
  BY LifecycleAssumption DEF LifecycleInv, TypeOK, JobsTypeOK
<1>1. faults' \in {faults, faults + 1}
  <2>1. ASSUME \/ \E r \in Runs : Expire(r)
               \/ \E j \in Jobs \ Runs : OtherJobStep(j)
               \/ Crash \/ Restart \/ UNCHANGED vars
        PROVE  UNCHANGED faults
    BY <2>1 DEF Expire, OtherJobStep, Crash, Restart, vars, envVars
  <2> QED
    BY <2>1, HandlerFrame, BuildFrame DEF Next
<1> SUFFICES ASSUME faults' = 0, NEW r \in Runs
             PROVE  /\ wpc'[r] = "exit" => build'[r].state \notin InFlight
                    /\ up' /\ build'[r].state \in InFlight => Tended(r)'
  BY DEF OrphanInv, NoOrphanRows, Tended, Submitter
<1>2. /\ faults = 0
      /\ wpc[r] = "exit" => build[r].state \notin InFlight
      /\ up /\ build[r].state \in InFlight => Tended(r)
  BY <1>0, <1>1 DEF OrphanInv, NoOrphanRows, Tended, Submitter
<1>3. ASSUME up, NEW c \in Clients, HandlerStep(c)
      PROVE  /\ wpc'[r] = "exit" => build'[r].state \notin InFlight
             /\ build'[r].state \in InFlight => Tended(r)'
  <2>1. UNCHANGED wpc
    BY <1>3, HandlerFrame DEF threadVars
  <2>2. CASE build'[r] = build[r]
    BY <1>2, <1>3, <2>1, <2>2, HandlerTends
  <2>3. CASE req[c].run = r /\ BuildPersist(c)
    <3>1. pc'[c] = "submit" /\ req'[c] = req[c] /\ pc[c] = "persist"
      BY <2>3, ContinueWrites DEF BuildPersist
    <3>2. resv[r] = "held"
      BY <2>3, <3>1 DEF LifecycleInv, OneWriterPerRow, HandlersHold, Holding
    <3>3. wpc[r] = "none"
      BY <3>2 DEF LifecycleInv, OneWriterPerRow, ThreadsHold
    <3> QED
      BY <2>1, <2>3, <3>1, <3>3 DEF Tended, Submitter
  <2> QED
    BY <1>3, <2>2, <2>3, HandlerRowWrites
<1>4. ASSUME up, NEW s \in Runs, BuildStep(s)
      PROVE  /\ wpc'[r] = "exit" => build'[r].state \notin InFlight
             /\ build'[r].state \in InFlight => Tended(r)'
  <2>1. CASE s = r
    <3>1. build'[r].state \in InFlight => build[r].state \in InFlight
      <4>1. ASSUME NEW c \in Clients PROVE ~BuildPersist(c)
        <5>1. UNCHANGED pc
          BY <1>4, BuildFrame DEF handlerVars
        <5>2. BuildPersist(c) => pc[c] = "persist" /\ pc'[c] = "submit"
          BY ContinueWrites DEF BuildPersist
        <5> QED
          BY <5>1, <5>2
      <4> QED
        BY <4>1, RowWrites DEF RowAdvances
    <3> QED
      BY <1>2, <1>4, <2>1, <3>1, ThreadTends
  <2>2. CASE s # r
    <3>1. build'[r] = build[r] /\ wpc'[r] = wpc[r] /\ resv'[r] = resv[r]
      BY <1>4, <2>2, ThreadStaysHome
    <3>2. UNCHANGED <<pc, req>>
      BY <1>4, BuildFrame DEF handlerVars
    <3> QED
      BY <1>2, <1>4, <3>1, <3>2 DEF Tended, Submitter
  <2> QED
    BY <2>1, <2>2
<1>5. ASSUME NEW j \in Jobs \ Runs, OtherJobStep(j)
      PROVE  UNCHANGED <<build, wpc, pc, req, up>> /\ resv'[r] = resv[r]
  BY <1>0, <1>5
  DEF OtherJobStep, Reserve, Submit, SubmitRaises, Cancel, Take, Release, Retire, storeVars,
      handlerVars, threadVars, envVars
<1>6. ASSUME (\E s \in Runs : Expire(s)) \/ UNCHANGED vars
      PROVE  UNCHANGED <<build, wpc, pc, req, up>> /\ resv'[r] = resv[r]
  BY <1>6 DEF Expire, vars, jobVars, storeVars, handlerVars, threadVars, envVars
<1>7. CASE UNCHANGED <<build, wpc, pc, req, up>> /\ resv'[r] = resv[r]
  BY <1>2, <1>7 DEF Tended, Submitter
<1>8. CASE Crash
  BY <1>8 DEF Crash
<1>9. CASE Restart
  <2>1. wpc'[r] = "none"
    BY <1>9, <1>0
    DEF Restart, threadVars, LifecycleInv, OneWriterPerRow, NothingRunsWhileDown, ThreadsHold
  <2>2. build'[r].state \notin InFlight
    BY <1>0, <1>9 DEF Restart, Reconcile, BuildRow, InFlight
  <2> QED
    BY <2>1, <2>2
<1> QED
  BY <1>3, <1>4, <1>5, <1>6, <1>7, <1>8, <1>9 DEF Next

(* Unless a store call fails, a row in flight has somebody who will settle *)
(* it whenever the server is up, restarts included.                        *)
THEOREM NoRowIsOrphaned == Spec => []NoOrphanRows
<1>1. Init => OrphanInv
  BY DEF Init, StoreInit, NoBuild, OrphanInv, NoOrphanRows, InFlight
<1>2. LifecycleInv /\ OrphanInv /\ [Next]_vars => OrphanInv'
  BY OrphanStep
<1>3. OrphanInv => NoOrphanRows
  BY DEF OrphanInv
<1> QED
  BY <1>1, <1>2, <1>3, LifecycleInvariant, PTL DEF Spec
-----------------------------------------------------------------------------
Persists(c, r) == pc[c] = "persist" /\ req[c].run = r

(* The refinement mapping, case by case.                                   *)
View(status, s) == [status |-> status, snapshot |-> s]

ViewsRight ==
  \A r \in Runs :
    /\ build[r].state = "SUCCEEDED" =>
         LibraryRun(r) = View("succeeded", SnapshotOf(build[r]))
    /\ build[r].state \in {"FAILED", "TIMED_OUT"} =>
         LibraryRun(r) = View("failed", SnapshotOf(build[r]))
    /\ build[r].state \in InFlight =>
         LibraryRun(r) = View("pending", SnapshotOf(build[r]))
    /\ build[r].state = "ABSENT" /\ (\A c \in Clients : ~Persists(c, r)) =>
         LibraryRun(r) = View(IF resv[r] = "none" THEN "absent" ELSE "dropped",
                              SnapshotOf(NoBuild))
    /\ build[r].state = "ABSENT" =>
         \A c \in Clients :
           Persists(c, r) /\ (\A e \in Clients \ {c} : ~Persists(e, r)) =>
             LibraryRun(r) = View("pending", SnapshotOf(req[c]))

(* The refinement mapping has these values,                                *)
LEMMA ViewsHold == ViewsRight
<1> SUFFICES ASSUME NEW r \in Runs
             PROVE  /\ build[r].state = "SUCCEEDED" =>
                         LibraryRun(r) = View("succeeded", SnapshotOf(build[r]))
                    /\ build[r].state \in {"FAILED", "TIMED_OUT"} =>
                         LibraryRun(r) = View("failed", SnapshotOf(build[r]))
                    /\ build[r].state \in InFlight =>
                         LibraryRun(r) = View("pending", SnapshotOf(build[r]))
                    /\ build[r].state = "ABSENT" /\ (\A c \in Clients : ~Persists(c, r)) =>
                         LibraryRun(r) = View(IF resv[r] = "none" THEN "absent" ELSE "dropped",
                                              SnapshotOf(NoBuild))
                    /\ build[r].state = "ABSENT" =>
                         \A c \in Clients :
                           Persists(c, r) /\ (\A e \in Clients \ {c} : ~Persists(e, r)) =>
                             LibraryRun(r) = View("pending", SnapshotOf(req[c]))
  BY DEF ViewsRight
<1> DEFINE persisting == {c \in Clients : pc[c] = "persist" /\ req[c].run = r}
<1>1. build[r].state = "SUCCEEDED" =>
        LibraryRun(r) = View("succeeded", SnapshotOf(build[r]))
  BY DEF LibraryRun, View, SnapshotOf, InFlight
<1>2. build[r].state \in {"FAILED", "TIMED_OUT"} =>
        LibraryRun(r) = View("failed", SnapshotOf(build[r]))
  BY DEF LibraryRun, View, SnapshotOf, InFlight
<1>3. build[r].state \in InFlight => LibraryRun(r) = View("pending", SnapshotOf(build[r]))
  BY DEF LibraryRun, View, SnapshotOf, InFlight
<1>4. ASSUME build[r].state = "ABSENT", \A c \in Clients : ~Persists(c, r)
      PROVE  LibraryRun(r) = View(IF resv[r] = "none" THEN "absent" ELSE "dropped",
                                  SnapshotOf(NoBuild))
  <2>1. persisting = {}
    BY <1>4 DEF Persists
  <2> QED
    BY <1>4, <2>1 DEF LibraryRun, View, SnapshotOf, InFlight
<1>5. ASSUME build[r].state = "ABSENT", NEW c \in Clients, Persists(c, r),
             \A e \in Clients \ {c} : ~Persists(e, r)
      PROVE  LibraryRun(r) = View("pending", SnapshotOf(req[c]))
  <2>1. persisting = {c}
    BY <1>5 DEF Persists
  <2>2. (CHOOSE e \in persisting : TRUE) = c
    BY <2>1
  <2> QED
    BY <1>5, <2>1, <2>2 DEF LibraryRun, View, SnapshotOf, InFlight
<1> QED
  BY <1>1, <1>2, <1>3, <1>4, <1>5

(* ... before a step and after it.                                         *)
LEMMA ViewsHoldNext == ViewsRight /\ ViewsRight'
  BY ViewsHold, PTL

(* A reservation is taken by the handler that reads the draft.             *)
LEMMA ReservationStarts ==
  ASSUME LifecycleInv, [Next]_vars, NEW r \in Runs
  PROVE  \/ resv'[r] = "none" <=> resv[r] = "none"
         \/ \E c \in Clients, d \in Drafts : BuildRead(c, d, r)
<1>0. resv \in [Jobs -> Statuses] /\ Runs \subseteq Jobs /\ RequestsComplete
  BY LifecycleAssumption DEF LifecycleInv, TypeOK, JobsTypeOK
<1>1. ASSUME NEW c \in Clients, HandlerStep(c)
      PROVE  \/ resv'[r] = "none" <=> resv[r] = "none"
             \/ \E d \in Drafts : BuildRead(c, d, r)
  <2>1. ASSUME NEW d \in Drafts, NEW s \in Runs, BuildRead(c, d, s), s # r
        PROVE  resv'[r] = resv[r]
    BY <1>0, <2>1 DEF BuildRead, Reserve
  <2>2. ASSUME BuildSubmit(c) \/ BuildSubmitRaises(c) \/ BuildCancel(c)
        PROVE  resv'[r] = "none" <=> resv[r] = "none"
    <3>1. /\ resv[req[c].run] \in {"held", "refused"}
          /\ \E status \in {"queued", "refused", "cancelled"} :
               resv' = [resv EXCEPT ![req[c].run] = status]
      BY <2>2
      DEF BuildSubmit, BuildSubmitRaises, BuildCancel, Submit, SubmitRaises, Cancel, Consumed
    <3> QED
      BY <1>0, <3>1
  <2>3. BuildPersist(c) \/ BuildPersistRaises(c) => UNCHANGED resv
    BY DEF BuildPersist, BuildPersistRaises, jobVars
  <2> QED
    BY <1>1, <2>1, <2>2, <2>3, HandlerCases DEF LifecycleInv, jobVars
<1>2. ASSUME NEW s \in Runs, BuildStep(s) PROVE resv'[r] = "none" <=> resv[r] = "none"
  <2>1. UNCHANGED resv \/ Take(s) \/ Release(s) \/ Retire(s)
    BY <1>2
    DEF BuildStep, TakeBuild, BuildBegin, BuildResolve, BuildPrepare, BuildNative, BuildAxis,
        BuildViews, NativeFails, AuditBuild, WorkerRaises, ExitBuild, RetireBuild, Record, jobVars
  <2>2. Take(s) => resv[s] = "queued"
    BY TakenJobWaits, <1>0 DEF LifecycleInv, JobsInv
  <2> QED
    BY <1>0, <2>1, <2>2 DEF Take, Release, Retire
<1>3. CASE \E j \in Jobs \ Runs : OtherJobStep(j)
  BY <1>0, <1>3
  DEF OtherJobStep, Reserve, Submit, SubmitRaises, Cancel, Take, Release, Retire
<1>4. CASE Crash
  BY <1>0, <1>4 DEF Crash
<1>5. CASE Restart \/ (\E s \in Runs : Expire(s)) \/ UNCHANGED vars
  BY <1>5 DEF Restart, Expire, vars, jobVars
<1> QED
  BY <1>1, <1>2, <1>3, <1>4, <1>5 DEF Next

(* A step that begins no run and writes neither a draft nor a version.     *)
Quiet ==
  /\ UNCHANGED <<draft, version>>
  /\ \A c \in Clients : pc'[c] = "persist" => pc[c] = "persist"

(* All steps but a handler's are quiet,                                    *)
LEMMA QuietSteps ==
  ASSUME LifecycleInv, [Next]_vars
  PROVE  Quiet \/ \E c \in Clients : HandlerStep(c)
<1>1. CASE \/ \E s \in Runs : BuildStep(s) \/ Expire(s)
           \/ \E j \in Jobs \ Runs : OtherJobStep(j)
           \/ Restart \/ UNCHANGED vars
  <2>1. UNCHANGED <<draft, version, pc>>
    BY <1>1, BuildFrame DEF Expire, OtherJobStep, Restart, vars, storeVars, handlerVars
  <2> QED
    BY <2>1 DEF Quiet
<1>2. CASE Crash
  BY <1>2 DEF Crash, storeVars, Quiet
<1> QED
  BY <1>1, <1>2 DEF Next

(* ... and so is the handler's whose first write fails.                    *)
LEMMA PersistRaisesQuiet ==
  ASSUME LifecycleInv, NEW c \in Clients, HandlerStep(c), BuildPersistRaises(c)
  PROVE  Quiet
<1>1. pc'[c] = "cancel"
  BY ContinueWrites DEF BuildPersistRaises
<1> QED
  BY <1>1, HandlerGoesOn DEF BuildPersistRaises, storeVars, Quiet

(* A pending run settles.                                                  *)
Settles(r) ==
  /\ LibraryRun(r).status = "pending"
  /\ \E outcome \in {"succeeded", "failed", "dropped"} :
       LibraryRun(r)' = View(outcome, IF outcome = "dropped" THEN SnapshotOf(NoBuild)
                                      ELSE LibraryRun(r).snapshot)

(* What a step does to a run as the library sees it, when the row is       *)
(* there, and when it is not yet.                                          *)
LEMMA WrittenRunMoves ==
  ASSUME LifecycleInv, [Next]_vars, NEW r \in Runs, build[r].state # "ABSENT"
  PROVE  LibraryRun(r)' = LibraryRun(r) \/ (Settles(r) /\ Quiet)
<1>0. build \in [Runs -> BuildRow] /\ ViewsRight /\ ViewsRight'
  BY ViewsHoldNext DEF LifecycleInv, TypeOK
<1>1. CASE build'[r] = build[r]
  BY <1>0, <1>1 DEF ViewsRight, BuildRow, Terminal
<1>2. CASE build'[r] # build[r]
  <2>1. ASSUME NEW c \in Clients PROVE ~(req[c].run = r /\ BuildPersist(c))
    BY DEF BuildPersist, LifecycleInv, OneWriterPerRow, HandlersHold, Holding
  <2>2. RowAdvances(r) /\ Quiet
    BY <1>2, <2>1, RowWrites, HandlerRowWrites, QuietSteps
  <2>3. LibraryRun(r) = View("pending", SnapshotOf(build[r]))
    BY <1>0, <2>2 DEF ViewsRight, RowAdvances
  <2>4. \E status \in {"pending", "succeeded", "failed"} :
          LibraryRun(r)' = View(status, SnapshotOf(build[r]))
    BY <1>0, <2>2 DEF ViewsRight, RowAdvances, Terminal
  <2> QED
    BY <2>2, <2>3, <2>4 DEF Settles, View
<1> QED
  BY <1>1, <1>2

(* A run is pending from the read of its draft on, and dropped when its row *)
(* does not get written.                                                   *)
LEMMA UnwrittenRunMoves ==
  ASSUME LifecycleInv, LifecycleInv', [Next]_vars, NEW r \in Runs, build[r].state = "ABSENT"
  PROVE  \/ LibraryRun(r)' = LibraryRun(r)
         \/ \E c \in Clients, d \in Drafts : BuildRead(c, d, r)
         \/ Settles(r) /\ Quiet
<1>0. /\ build \in [Runs -> BuildRow] /\ ViewsRight /\ ViewsRight'
      /\ HandlersHold /\ HandlersHold'
  BY ViewsHoldNext DEF LifecycleInv, TypeOK, OneWriterPerRow
<1>1. ASSUME NEW c \in Clients, Persists(c, r)
      PROVE  /\ LibraryRun(r) = View("pending", SnapshotOf(req[c]))
             /\ resv[r] = "held" /\ \A e \in Clients \ {c} : ~Persists(e, r)
  BY <1>0, <1>1 DEF ViewsRight, HandlersHold, Holding, Persists
<1>2. ASSUME NEW c \in Clients, req[c].run = r, BuildPersist(c)
      PROVE  LibraryRun(r)' = LibraryRun(r)
  <2>1. build' = [build EXCEPT ![r] = [NoBuild EXCEPT !.state = "QUEUED", !.draft = req[c].draft,
                                                     !.rev = req[c].rev, !.doc = req[c].doc]]
        /\ Persists(c, r)
    BY <1>2 DEF BuildPersist, PutBuild, Persists
  <2>2. build'[r].state = "QUEUED" /\ SnapshotOf(build'[r]) = SnapshotOf(req[c])
    BY <1>0, <2>1 DEF NoBuild, SnapshotOf
  <2> QED
    BY <1>0, <1>1, <2>1, <2>2 DEF ViewsRight, InFlight
<1>3. CASE /\ build'[r] = build[r]
           /\ \A c \in Clients : ~Persists(c, r)
  <2>1. CASE \A c \in Clients : ~Persists(c, r)'
    <3>1. (resv'[r] = "none" <=> resv[r] = "none")
          \/ \E c \in Clients, d \in Drafts : BuildRead(c, d, r)
      BY ReservationStarts
    <3> QED
      BY <1>0, <1>3, <2>1, <3>1 DEF ViewsRight
  <2>2. ASSUME NEW c \in Clients, Persists(c, r)'
        PROVE  \E d \in Drafts : BuildRead(c, d, r)
    <3>1. pc'[c] = "persist" /\ ~(pc'[c] = pc[c] /\ req'[c] = req[c])
      BY <1>3, <2>2 DEF Persists
    <3>2. PICK d \in Drafts, s \in Runs : BuildRead(c, d, s)
      BY <3>1, RequestSteps, HandlerGoesOn
    <3>3. req'[c].run = s
      <4> DEFINE q == [NoRequest EXCEPT !.draft = d, !.rev = draft[d].rev,
                                        !.doc = draft[d].doc, !.run = s]
      <4>1. q.run = s
        BY DEF NoRequest
      <4>2. Continue(c, "persist", q)
        BY <3>2 DEF BuildRead
      <4> HIDE DEF q
      <4> QED
        BY <4>1, <4>2, ContinueWrites
    <3> QED
      BY <2>2, <3>2, <3>3 DEF Persists
  <2> QED
    BY <2>1, <2>2
<1>4. ASSUME build'[r] = build[r], NEW c \in Clients, Persists(c, r)
      PROVE  LibraryRun(r)' = LibraryRun(r) \/ (Settles(r) /\ Quiet)
  <2>1. ASSUME \A e \in Clients : ~Persists(e, r)', resv'[r] # "none"
        PROVE  Settles(r)
    <3>1. LibraryRun(r)' = View("dropped", SnapshotOf(NoBuild))
      BY <1>0, <1>4, <2>1 DEF ViewsRight
    <3> QED
      BY <1>1, <1>4, <3>1 DEF Settles, View
  <2>2. CASE pc'[c] = pc[c] /\ req'[c] = req[c]
    <3>1. Persists(c, r)'
      BY <1>4, <2>2 DEF Persists
    <3>2. \A e \in Clients \ {c} : ~Persists(e, r)'
      BY <1>0, <3>1 DEF HandlersHold, Holding, Persists
    <3>3. LibraryRun(r)' = View("pending", SnapshotOf(req'[c]))
      BY <1>0, <1>4, <3>1, <3>2 DEF ViewsRight
    <3> QED
      BY <1>1, <1>4, <2>2, <3>3
  <2>3. CASE HandlerStep(c)
    <3>1. BuildPersistRaises(c)
      <4>1. BuildPersist(c) => build'[r].state = "QUEUED"
        BY <1>0, <1>4 DEF BuildPersist, PutBuild, NoBuild, Persists
      <4> QED
        BY <1>4, <2>3, <4>1, HandlerCases
        DEF LifecycleInv, Persists, Holding, BuildRead, BuildSubmit, BuildSubmitRaises, BuildCancel
    <3>2. pc'[c] = "cancel" /\ UNCHANGED resv
      BY <3>1, ContinueWrites DEF BuildPersistRaises, jobVars
    <3>3. \A e \in Clients : ~Persists(e, r)'
      BY <1>1, <1>4, <2>3, <3>2, HandlerGoesOn DEF Persists
    <3> QED
      BY <1>1, <1>4, <2>1, <2>3, <3>1, <3>2, <3>3, PersistRaisesQuiet
  <2>4. CASE Crash
    <3>1. \A e \in Clients : ~Persists(e, r)'
      BY <2>4 DEF Crash, Persists
    <3>2. resv'[r] = "done"
      BY <1>1, <1>4, <2>4, LifecycleAssumption DEF Crash
    <3>3. Quiet
      BY <2>4 DEF Crash, storeVars, Quiet
    <3> QED
      BY <2>1, <3>1, <3>2, <3>3
  <2> QED
    BY <2>2, <2>3, <2>4, RequestSteps
<1>5. ~RowAdvances(r)
  BY DEF RowAdvances, InFlight
<1> QED
  BY <1>2, <1>3, <1>4, <1>5, RowWrites
-----------------------------------------------------------------------------
(* The step of the library that each kind of step is, from what it does to *)
(* each run and to each version as the library sees them.                  *)
RunsKept == \A r \in Runs : LibraryRun(r)' = LibraryRun(r)
EntriesKept == \A v \in Versions : LibraryEntry(v)' = LibraryEntry(v)

(* A new revision of a draft is an edit.                                   *)
LEMMA EditIs ==
  ASSUME RunsKept, EntriesKept, NEW d \in Drafts, NEW doc \in Docs,
         draft \in [Drafts -> DraftRow],
         draft' = [draft EXCEPT ![d] = [rev |-> draft[d].rev + 1, doc |-> doc]]
  PROVE  Library!LNext
<1>1. Library!Edit(d, doc)
  BY DEF Library!Edit, RunsKept, EntriesKept
<1> QED
  BY <1>1 DEF Library!LNext

(* A run that comes to freeze a current snapshot begins.                   *)
LEMMA BeginIs ==
  ASSUME EntriesKept, UNCHANGED draft, NEW r \in Runs, NEW d \in Drafts, DraftExists(d),
         LibraryRun(r).status = "absent",
         LibraryRun(r)' = View("pending", SnapshotOf([draft |-> d, rev |-> draft[d].rev,
                                                      doc |-> draft[d].doc])),
         \A s \in Runs \ {r} : LibraryRun(s)' = LibraryRun(s)
  PROVE  Library!LNext
<1>1. Library!Begin(r, d)
  BY DEF Library!Begin, Library!Snapshot, EntriesKept, View, SnapshotOf, DraftExists
<1> QED
  BY <1>1 DEF Library!LNext

(* Any number of pending runs that settle, none included, is one step.     *)
LEMMA SettleIs ==
  ASSUME EntriesKept, UNCHANGED draft,
         \A r \in Runs : LibraryRun(r)' = LibraryRun(r) \/ Settles(r)
  PROVE  Library!LNext
<1> DEFINE settled == {r \in Runs : Settles(r)}
           outcome == [r \in settled |-> CHOOSE o \in {"succeeded", "failed", "dropped"} :
                         LibraryRun(r)' = View(o, IF o = "dropped" THEN SnapshotOf(NoBuild)
                                                  ELSE LibraryRun(r).snapshot)]
<1>1. ASSUME NEW r \in settled
      PROVE  /\ LibraryRun(r).status = "pending"
             /\ outcome[r] \in {"succeeded", "failed", "dropped"}
             /\ LibraryRun(r)' = View(outcome[r], IF outcome[r] = "dropped"
                                                  THEN SnapshotOf(NoBuild)
                                                  ELSE LibraryRun(r).snapshot)
  BY DEF Settles
<1>2. outcome \in [settled -> {"succeeded", "failed", "dropped"}]
  BY <1>1
<1>3. SnapshotOf(NoBuild) = Library!NoSnapshot
  BY DEF SnapshotOf, NoBuild, Library!NoSnapshot
<1>4. \A r \in Runs \ settled : LibraryRun(r)' = LibraryRun(r)
  OBVIOUS
<1> HIDE DEF settled, outcome
<1>5. settled \subseteq Runs
  BY DEF settled
<1>6. Library!Settle(settled)
  BY <1>1, <1>2, <1>3, <1>4, <1>5 DEF Library!Settle, EntriesKept, View
<1> QED
  BY <1>5, <1>6 DEF Library!LNext

(* A new entry under a new key, of a successful and current run.           *)
LEMMA PublishIs ==
  ASSUME RunsKept, UNCHANGED draft, NEW v \in Versions, NEW r \in Runs, NEW k \in Keys,
         LibraryEntry(v) = Library!NoEntry,
         LibraryRun(r).status = "succeeded",
         LibraryRun(r).snapshot = Library!Snapshot(LibraryRun(r).snapshot.draft),
         \A other \in Versions : LibraryEntry(other).key # k,
         LibraryEntry(v)' = [visibility |-> "VISIBLE", run |-> r, key |-> k, payload |-> r,
                             snapshot |-> LibraryRun(r).snapshot],
         \A w \in Versions \ {v} : LibraryEntry(w)' = LibraryEntry(w)
  PROVE  Library!LNext
<1>1. Library!Publish(v, r, k)
  BY DEF Library!Publish, RunsKept
<1> QED
  BY <1>1 DEF Library!LNext

(* A visible entry that is archived.                                       *)
LEMMA ShelveIs ==
  ASSUME RunsKept, UNCHANGED draft, NEW v \in Versions, LibraryEntry(v).visibility = "VISIBLE",
         LibraryEntry(v)' = [LibraryEntry(v) EXCEPT !.visibility = "ARCHIVED"],
         \A w \in Versions \ {v} : LibraryEntry(w)' = LibraryEntry(w)
  PROVE  Library!LNext
<1>1. Library!Shelve(v)
  BY DEF Library!Shelve, RunsKept
<1> QED
  BY <1>1 DEF Library!LNext

(* A publication in progress has a key.                                    *)
PublishersHaveKeys == \A c \in Clients : pc[c] \in {"checkRun", "publish"} => req[c].key \in Keys

(* The key is in the request from its first read on.                       *)
LEMMA PublishersHaveKeysStep ==
  ASSUME LifecycleInv, PublishersHaveKeys, [Next]_vars
  PROVE  PublishersHaveKeys'
<1> SUFFICES ASSUME NEW c \in Clients, pc'[c] \in {"checkRun", "publish"}
             PROVE  req'[c].key \in Keys
  BY DEF PublishersHaveKeys
<1>1. CASE pc'[c] = pc[c] /\ req'[c] = req[c]
  BY <1>1 DEF PublishersHaveKeys
<1>2. ASSUME NEW d \in Drafts, NEW r \in Runs, NEW k \in Keys, PublishReadDraft(c, d, r, k)
      PROVE  req'[c].key = k
  <2> DEFINE q == [NoRequest EXCEPT !.draft = d, !.rev = draft[d].rev, !.doc = draft[d].doc,
                                    !.run = r, !.key = k]
  <2>1. q.key = k
    BY DEF NoRequest
  <2>2. Continue(c, "checkRun", q)
    BY <1>2 DEF PublishReadDraft
  <2> HIDE DEF q
  <2> QED
    BY <2>1, <2>2, ContinueWrites
<1>3. ASSUME pc'[c] = "publish", PublishCheckRun(c) PROVE req'[c].key = req[c].key
  <2> DEFINE q == [req[c] EXCEPT !.manifest = build[req[c].run].manifest,
                                 !.payload = build[req[c].run].payload]
  <2>1. q.key = req[c].key
    BY DEF LifecycleInv, TypeOK, Request
  <2>2. Continue(c, "publish", q) \/ Continue(c, "conflict", req[c])
    BY <1>3 DEF PublishCheckRun
  <2> HIDE DEF q
  <2> QED
    BY <1>3, <2>1, <2>2, ContinueWrites
<1> QED
  BY <1>1, <1>2, <1>3, RequestSteps, HandlerGoesOn DEF PublishersHaveKeys, PublishCheckRun

(* Every publication in progress has a key.                                *)
LEMMA PublishersHaveKeysInvariant == Spec => []PublishersHaveKeys
<1>1. Init => PublishersHaveKeys
  BY DEF Init, PublishersHaveKeys
<1>2. PublishersHaveKeys /\ LifecycleInv /\ [Next]_vars => PublishersHaveKeys'
  BY PublishersHaveKeysStep
<1> QED
  BY <1>1, <1>2, LifecycleInvariant, PTL DEF Spec

(* The whole of what a step does to the runs as the library sees them.     *)
LEMMA RunMoves ==
  ASSUME LifecycleInv, LifecycleInv', [Next]_vars, NEW r \in Runs
  PROVE  \/ LibraryRun(r)' = LibraryRun(r)
         \/ \E c \in Clients, d \in Drafts : BuildRead(c, d, r)
         \/ Settles(r) /\ Quiet
  BY WrittenRunMoves, UnwrittenRunMoves

(* The handler of create_build_run that has read the draft begins a run.   *)
LEMMA BuildReadBegins ==
  ASSUME LifecycleInv, LifecycleInv', [Next]_vars,
         NEW c \in Clients, NEW d \in Drafts, NEW r \in Runs, BuildRead(c, d, r)
  PROVE  Library!LNext
<1>0. /\ resv \in [Jobs -> Statuses] /\ Runs \subseteq Jobs /\ HandlersHold /\ HandlersHold'
      /\ draft \in [Drafts -> DraftRow] /\ ViewsRight /\ ViewsRight'
  BY LifecycleAssumption, ViewsHoldNext DEF LifecycleInv, TypeOK, JobsTypeOK, OneWriterPerRow
<1>1. /\ UNCHANGED <<draft, build, version>> /\ DraftExists(d) /\ build[r].state = "ABSENT"
      /\ pc[c] = "idle" /\ resv[r] = "none"
      /\ \E status \in {"held", "refused"} : resv' = [resv EXCEPT ![r] = status]
  BY <1>0 DEF BuildRead, Reserve, storeVars
<1>2. pc'[c] = "persist" /\ req'[c].run = r
      /\ SnapshotOf(req'[c]) = SnapshotOf([draft |-> d, rev |-> draft[d].rev,
                                           doc |-> draft[d].doc])
  <2> DEFINE q == [NoRequest EXCEPT !.draft = d, !.rev = draft[d].rev,
                                    !.doc = draft[d].doc, !.run = r]
  <2>1. q.run = r /\ q.draft = d /\ q.rev = draft[d].rev /\ q.doc = draft[d].doc
    BY DEF NoRequest
  <2>2. Continue(c, "persist", q)
    BY DEF BuildRead
  <2> HIDE DEF q
  <2> QED
    BY <2>1, <2>2, ContinueWrites DEF SnapshotOf
<1>3. LibraryRun(r).status = "absent"
  <2>1. \A e \in Clients : ~Persists(e, r)
    BY <1>0, <1>1 DEF HandlersHold, Holding, Persists
  <2> QED
    BY <1>0, <1>1, <2>1 DEF ViewsRight, View
<1>4. LibraryRun(r)' = View("pending", SnapshotOf([draft |-> d, rev |-> draft[d].rev,
                                                   doc |-> draft[d].doc]))
  <2>1. Persists(c, r)' /\ \A e \in Clients \ {c} : ~Persists(e, r)'
    BY <1>0, <1>2 DEF HandlersHold, Holding, Persists
  <2> QED
    BY <1>0, <1>1, <1>2, <2>1 DEF ViewsRight
<1>5. ASSUME NEW s \in Runs \ {r} PROVE LibraryRun(s)' = LibraryRun(s)
  <2>1. ~Quiet
    BY <1>1, <1>2 DEF Quiet
  <2>2. ASSUME NEW e \in Clients, NEW f \in Drafts PROVE ~BuildRead(e, f, s)
    BY <1>0, <1>1 DEF BuildRead, Reserve
  <2> QED
    BY <2>1, <2>2, RunMoves
<1>6. EntriesKept
  BY <1>1 DEF EntriesKept, LibraryEntry
<1> QED
  BY <1>1, <1>3, <1>4, <1>5, <1>6, BeginIs

(* publish_curve_lab_version publishes the run its record cites.           *)
LEMMA PublishCreatePublishes ==
  ASSUME LifecycleInv, LifecycleInv', BlankRows, PublicationInv, EvidenceInv,
         PublishersHaveKeys, [Next]_vars,
         RunsKept, NEW c \in Clients, NEW v \in Versions, PublishCreate(c, v)
  PROVE  Library!LNext
<1> DEFINE q == req[c]
           r == q.run
           row == [visibility |-> "VISIBLE", draft |-> q.draft, rev |-> q.rev, doc |-> q.doc,
                   run |-> q.run, key |-> q.key, manifest |-> q.manifest, payload |-> q.payload]
<1>0. /\ version \in [Versions -> VersionRow] /\ draft \in [Drafts -> DraftRow]
      /\ build \in [Runs -> BuildRow] /\ q \in Request /\ r \in Runs /\ q.key \in Keys
      /\ ViewsRight /\ pc[c] = "publish"
  BY ViewsHold
  DEF LifecycleInv, TypeOK, PublishCreate, PublishersHaveKeys, RequestsComplete
<1>1. /\ UNCHANGED draft /\ version' = [version EXCEPT ![v] = row]
      /\ DraftMatches(q) /\ KeyOwners(q.key) = {} /\ ~VersionExists(v)
  BY DEF PublishCreate, InsertVersion, PublicationMatches
<1>2. /\ build[r].state = "SUCCEEDED" /\ SnapshotOf(q) = SnapshotOf(build[r])
      /\ q.payload = r
  BY <1>0 DEF PublicationInv, PublisherHoldsRun, EvidenceInv, SnapshotOf
<1>3. LibraryRun(r).status = "succeeded" /\ LibraryRun(r).snapshot = SnapshotOf(q)
  BY <1>0, <1>2 DEF ViewsRight, View
<1>4. LibraryRun(r).snapshot = Library!Snapshot(LibraryRun(r).snapshot.draft)
  <2>1. SnapshotOf(q).draft = q.draft /\ draft[q.draft].rev = q.rev /\ draft[q.draft].doc = q.doc
    BY <1>1 DEF DraftMatches, SnapshotOf
  <2> QED
    BY <1>3, <2>1 DEF Library!Snapshot, SnapshotOf
<1>5. LibraryEntry(v) = Library!NoEntry
  BY <1>1 DEF BlankRows, LibraryEntry, NoVersion, Library!NoEntry, Library!NoSnapshot
<1>6. ASSUME NEW other \in Versions PROVE LibraryEntry(other).key # q.key
  <2>1. LibraryEntry(other).key = version[other].key
    BY DEF LibraryEntry
  <2>2. ~VersionExists(other) => version[other].key = None
    BY DEF BlankRows, NoVersion
  <2> QED
    BY <1>0, <1>1, <2>1, <2>2, StoreAssumption DEF KeyOwners
<1>7. LibraryEntry(v)' = [visibility |-> "VISIBLE", run |-> r, key |-> q.key, payload |-> r,
                          snapshot |-> LibraryRun(r).snapshot]
  <2>1. version'[v] = row
    BY <1>0, <1>1
  <2> QED
    BY <1>2, <1>3, <2>1 DEF LibraryEntry, SnapshotOf
<1>8. \A w \in Versions \ {v} : LibraryEntry(w)' = LibraryEntry(w)
  BY <1>0, <1>1 DEF LibraryEntry
<1> QED
  BY <1>0, <1>1, <1>3, <1>4, <1>5, <1>6, <1>7, <1>8, PublishIs

(* archive_curve_lab_version shelves a visible version; archiving an       *)
(* archived one changes nothing.                                           *)
LEMMA ArchiveShelves ==
  ASSUME LifecycleInv, RunsKept, UNCHANGED draft, version' # version,
         NEW v \in Versions, VersionExists(v), ArchiveRow(v)
  PROVE  Library!LNext
<1>0. version \in [Versions -> VersionRow]
  BY DEF LifecycleInv, TypeOK
<1>1. version'[v] = [version[v] EXCEPT !.visibility = "ARCHIVED"]
      /\ \A w \in Versions \ {v} : version'[w] = version[w]
  BY <1>0 DEF ArchiveRow
<1>2. version[v].visibility = "VISIBLE"
  <2>1. ASSUME version[v].visibility = "ARCHIVED" PROVE version'[v] = version[v]
    BY <1>0, <1>1, <2>1 DEF VersionRow
  <2>2. version'[v] = version[v] => version' = version
    BY <1>0, <1>1 DEF ArchiveRow
  <2> QED
    BY <1>0, <2>1, <2>2 DEF VersionExists, VersionRow
<1>3. LibraryEntry(v)' = [LibraryEntry(v) EXCEPT !.visibility = "ARCHIVED"]
  <2> DEFINE row == [version[v] EXCEPT !.visibility = "ARCHIVED"]
  <2>1. /\ row.visibility = "ARCHIVED" /\ row.run = version[v].run /\ row.key = version[v].key
        /\ row.payload = version[v].payload /\ row.draft = version[v].draft
        /\ row.rev = version[v].rev /\ row.doc = version[v].doc
    BY <1>0 DEF VersionRow
  <2>2. version'[v] = row
    BY <1>1
  <2> HIDE DEF row
  <2> QED
    BY <2>1, <2>2 DEF LibraryEntry
<1>4. \A w \in Versions \ {v} : LibraryEntry(w)' = LibraryEntry(w)
  BY <1>1 DEF LibraryEntry
<1>5. LibraryEntry(v).visibility = "VISIBLE"
  BY <1>2 DEF LibraryEntry
<1> QED
  BY <1>3, <1>4, <1>5, ShelveIs

(* Every step of the lifecycle is a step of the library, or no step of it. *)
LEMMA LibraryStep ==
  ASSUME LifecycleInv, LifecycleInv', BlankRows, PublicationInv, EvidenceInv,
         PublishersHaveKeys, [Next]_vars
  PROVE  Library!LNext
<1>1. ASSUME ~UNCHANGED <<draft, version>> PROVE RunsKept
  <2>1. ~Quiet
    BY <1>1 DEF Quiet
  <2>2. ASSUME NEW c \in Clients, NEW d \in Drafts, NEW r \in Runs PROVE ~BuildRead(c, d, r)
    BY <1>1 DEF BuildRead, storeVars
  <2> QED
    BY <2>1, <2>2, RunMoves DEF RunsKept
<1>2. CASE ~UNCHANGED draft
  <2>1. UNCHANGED version /\ \E d \in Drafts, doc \in Docs :
          draft' = [draft EXCEPT ![d] = [rev |-> draft[d].rev + 1, doc |-> doc]]
    BY <1>2, DraftWrites
  <2>2. RunsKept /\ EntriesKept
    BY <1>1, <1>2, <2>1 DEF EntriesKept, LibraryEntry
  <2>3. draft \in [Drafts -> DraftRow]
    BY DEF LifecycleInv, TypeOK
  <2> QED
    BY <2>1, <2>2, <2>3, EditIs
<1>3. CASE UNCHANGED <<draft, version>>
  <2>1. CASE \E c \in Clients, d \in Drafts, r \in Runs : BuildRead(c, d, r)
    BY <2>1, BuildReadBegins
  <2>2. CASE ~ \E c \in Clients, d \in Drafts, r \in Runs : BuildRead(c, d, r)
    <3>1. EntriesKept
      BY <1>3 DEF EntriesKept, LibraryEntry
    <3> QED
      BY <1>3, <2>2, <3>1, RunMoves, SettleIs
  <2> QED
    BY <2>1, <2>2
<1>4. CASE UNCHANGED draft /\ ~UNCHANGED version
  BY <1>1, <1>4, VersionWrites, PublishCreatePublishes, ArchiveShelves
<1> QED
  BY <1>2, <1>3, <1>4

(* Initially nothing has been drafted, begun or published.                 *)
LEMMA LibraryInit == Init => Library!LInit
<1> SUFFICES ASSUME Init PROVE Library!LInit
  OBVIOUS
<1>1. ASSUME NEW r \in Runs
      PROVE  LibraryRun(r) = [status |-> "absent", snapshot |-> Library!NoSnapshot]
  <2>1. build[r] = NoBuild /\ resv[r] = "none" /\ \A c \in Clients : ~Persists(c, r)
    BY LifecycleAssumption DEF Init, StoreInit, JobsInit, Persists
  <2> QED
    BY <2>1, ViewsHold DEF ViewsRight, View, SnapshotOf, NoBuild, Library!NoSnapshot
<1>2. ASSUME NEW v \in Versions
      PROVE  LibraryEntry(v) = IF v \in Imported
                               THEN [Library!NoEntry EXCEPT !.visibility = "VISIBLE", !.payload = v]
                               ELSE Library!NoEntry
  BY DEF Init, StoreInit, ImportedVersion, NoVersion, LibraryEntry, Library!NoEntry,
         Library!NoSnapshot
<1> QED
  BY <1>1, <1>2 DEF Library!LInit, Init, StoreInit

(* The lifecycle implements the library of CurveLibrary: whatever threads, *)
(* deadlines, crashes and failed calls do, its users see drafts that move  *)
(* through revisions, runs that freeze a current snapshot and settle once, *)
(* and versions that hold a successful run's payload.                      *)
THEOREM ImplementsLibrary == Spec => LibrarySpec
<1>1. /\ LifecycleInv /\ LifecycleInv' /\ BlankRows /\ PublicationInv /\ EvidenceInv
      /\ PublishersHaveKeys /\ [Next]_vars
      => [Library!LNext]_(Library!lvars)
  BY LibraryStep
<1> QED
  BY <1>1, LibraryInit, LifecycleInvariant, RowsStartBlank, PublicationInvariant,
     EvidenceInvariant, PublishersHaveKeysInvariant, PTL
  DEF Spec, LibrarySpec, Library!LibrarySpec
=============================================================================

--------------------------- MODULE CurveLabStore ----------------------------
(***************************************************************************)
(* The Curve Lab tables and the store methods that write them              *)
(* (backend/app/services/store.py, services/db/store_db.py).  A method is  *)
(* one transaction, so it is one atomic operator here; everything a        *)
(* request does around it belongs to CurveLabLifecycle.                    *)
(*                                                                         *)
(* Data are abstracted to identity.  A document stands for its canonical   *)
(* JSON and for its SHA-256 fingerprint; Deps gives the versions it names. *)
(* A native payload, and its hash, is the run that computed it (or the     *)
(* version itself, for a version that was imported).                       *)
(***************************************************************************)
EXTENDS Naturals, FiniteSets

CONSTANTS
  Drafts, Runs, Versions, Keys,  \* identifiers (uuid4, idempotency keys)
  Docs,      \* canonical draft documents
  Deps,      \* document -> the set of versions it depends on
  Imported,  \* versions that exist already, imported without a manifest
  None

ASSUME StoreAssumption ==
  /\ Deps \in [Docs -> SUBSET Versions]
  /\ Imported \subseteq Versions
  /\ None \notin Drafts \cup Runs \cup Versions \cup Keys \cup Docs

VARIABLES
  draft,    \* curve_drafts: current revision and document
  build,    \* curve_build_runs
  version,  \* curve_versions
  audit     \* curve_audit_events, as a set of <<action, target>>

storeVars == <<draft, build, version, audit>>

InFlight == {"QUEUED", "RESOLVING_DEPENDENCIES", "SOLVING"}
Terminal == {"SUCCEEDED", "FAILED", "TIMED_OUT"}
Payloads == Runs \cup Versions

(* A dependency manifest: pairs of a version and the hash it had.          *)
Manifests == SUBSET (Versions \X (Payloads \cup {None}))

DraftRow == [rev : Nat, doc : Docs \cup {None}]

BuildRow ==
  [state : {"ABSENT"} \cup InFlight \cup Terminal,
   draft : Drafts \cup {None}, rev : Nat, doc : Docs \cup {None},
   manifest : Manifests, payload : Runs \cup {None}]

VersionRow ==
  [visibility : {"ABSENT", "VISIBLE", "ARCHIVED"},
   draft : Drafts \cup {None}, rev : Nat, doc : Docs \cup {None},
   run : Runs \cup {None}, key : Keys \cup {None},
   manifest : Manifests, payload : Payloads \cup {None}]

NoBuild == [state |-> "ABSENT", draft |-> None, rev |-> 0, doc |-> None,
            manifest |-> {}, payload |-> None]

NoVersion == [visibility |-> "ABSENT", draft |-> None, rev |-> 0, doc |-> None,
              run |-> None, key |-> None, manifest |-> {}, payload |-> None]

(* An imported version without a runtime manifest carries no document.     *)
ImportedVersion(v) == [NoVersion EXCEPT !.visibility = "VISIBLE", !.payload = v]

StoreInit ==
  /\ draft = [d \in Drafts |-> [rev |-> 0, doc |-> None]]
  /\ build = [r \in Runs |-> NoBuild]
  /\ version = [v \in Versions |->
                  IF v \in Imported THEN ImportedVersion(v) ELSE NoVersion]
  /\ audit = {}

DraftExists(d) == draft[d].rev > 0
VersionExists(v) == version[v].visibility # "ABSENT"

(* add_curve_lab_draft: a new row at revision 1.                           *)
AddDraft(d, doc) ==
  /\ ~DraftExists(d)
  /\ draft' = [draft EXCEPT ![d] = [rev |-> 1, doc |-> doc]]

(* Mutant of CasDraft: the WHERE clause forgets the revision.              *)
BlindUpdate(d, expected, doc) ==
  draft' = [draft EXCEPT ![d] = [rev |-> expected + 1, doc |-> doc]]

(* update_curve_lab_draft: UPDATE ... WHERE revision = expected; a row     *)
(* count of 0 is a ConflictError.                                          *)
CasDraft(d, expected, doc) ==
  /\ draft[d].rev = expected
  /\ draft' = [draft EXCEPT ![d] = [rev |-> expected + 1, doc |-> doc]]

(* add_curve_lab_build_run and update_curve_lab_build_run; the update is   *)
(* unconditional, whatever state the row is in.                            *)
PutBuild(r, row) == build' = [build EXCEPT ![r] = row]

(* resolve_curve_lab_versions and the filter of                            *)
(* _resolve_build_dependencies: an existing, visible version whose         *)
(* verification carries a document.                                        *)
UsableDependency(v) == version[v].visibility = "VISIBLE" /\ version[v].doc # None

ManifestOf(S) == {<<v, version[v].payload>> : v \in S}

(* Mutant of ManifestHolds: only the hashes are compared.                  *)
HashesHold(m) == \A entry \in m : version[entry[1]].payload = entry[2]

(* validate_curve_lab_dependency_manifest, on the rows locked at           *)
(* publication time.                                                       *)
ManifestHolds(m) ==
  \A entry \in m : /\ version[entry[1]].visibility = "VISIBLE"
                   /\ version[entry[1]].payload = entry[2]

(* The compare half of publish_curve_lab_version's compare-and-swap: the   *)
(* draft and the run still are what the request names.                     *)
DraftMatches(q) == draft[q.draft] = [rev |-> q.rev, doc |-> q.doc]

(* Mutant of RunMatches: the run need only be of the same draft.           *)
RunOfDraft(q) == build[q.run].state = "SUCCEEDED" /\ build[q.run].draft = q.draft

RunMatches(q) ==
  /\ build[q.run].state = "SUCCEEDED"
  /\ build[q.run].draft = q.draft
  /\ build[q.run].rev = q.rev
  /\ build[q.run].doc = q.doc

(* Mutant of PublicationMatches: the draft is not compared again.          *)
RunStillMatches(q) == RunMatches(q)

PublicationMatches(q) == DraftMatches(q) /\ RunMatches(q)

KeyOwners(k) == {v \in Versions : VersionExists(v) /\ version[v].key = k}

(* Mutant of InsertVersion: nothing makes the key unique.                  *)
InsertAgain(v, q) ==
  /\ PublicationMatches(q)
  /\ ManifestHolds(build[q.run].manifest)
  /\ ~VersionExists(v)
  /\ version' = [version EXCEPT ![v] =
       [visibility |-> "VISIBLE", draft |-> q.draft, rev |-> q.rev, doc |-> q.doc,
        run |-> q.run, key |-> q.key, manifest |-> q.manifest, payload |-> q.payload]]

(* publish_curve_lab_version inserts the record the caller assembled, when *)
(* the draft, the run and the dependencies still are what it read and the  *)
(* key is new.                                                             *)
InsertVersion(v, q) ==
  /\ PublicationMatches(q)
  /\ KeyOwners(q.key) = {}
  /\ ManifestHolds(build[q.run].manifest)
  /\ ~VersionExists(v)
  /\ version' = [version EXCEPT ![v] =
       [visibility |-> "VISIBLE", draft |-> q.draft, rev |-> q.rev, doc |-> q.doc,
        run |-> q.run, key |-> q.key, manifest |-> q.manifest, payload |-> q.payload]]

(* archive_curve_lab_version: only the visibility changes.                 *)
ArchiveRow(v) == version' = [version EXCEPT ![v].visibility = "ARCHIVED"]

(* Mutant of Reconcile: rows of every state are swept.                     *)
ReconcileAll(expired) ==
  build' = [r \in Runs |->
              IF build[r].state # "ABSENT"
              THEN [build[r] EXCEPT !.state = IF expired[r] THEN "TIMED_OUT" ELSE "FAILED"]
              ELSE build[r]]

(* reconcile_curve_lab_inflight: every row a dead worker left in flight    *)
(* becomes terminal, in one transaction.                                   *)
Reconcile(expired) ==
  build' = [r \in Runs |->
              IF build[r].state \in InFlight
              THEN [build[r] EXCEPT !.state = IF expired[r] THEN "TIMED_OUT" ELSE "FAILED"]
              ELSE build[r]]
=============================================================================

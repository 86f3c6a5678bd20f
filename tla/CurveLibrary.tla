---------------------------- MODULE CurveLibrary ----------------------------
(***************************************************************************)
(* What Curve Lab promises its users, with no threads, queues, deadlines   *)
(* or partial handlers.  A draft moves through revisions.  A run freezes   *)
(* one snapshot (draft, revision, document) of a draft that was current    *)
(* when the run was asked for, and settles once, for good.  The library    *)
(* only ever gains versions: each holds the payload of a successful run    *)
(* whose snapshot was still the current one when it was published, under   *)
(* a key of its own, and can afterwards only be archived.                  *)
(*                                                                         *)
(* CurveLabLifecycle implements it.                                        *)
(***************************************************************************)
EXTENDS Naturals

CONSTANTS Drafts, Runs, Versions, Keys, Docs, Imported, None

VARIABLES
  draft,    \* draft -> its revision (0: none yet) and document
  run,      \* run -> its status and its snapshot
  library   \* version -> its visibility, origin and payload

lvars == <<draft, run, library>>

NoSnapshot == [draft |-> None, rev |-> 0, doc |-> None]

NoEntry == [visibility |-> "ABSENT", run |-> None, key |-> None, payload |-> None,
            snapshot |-> NoSnapshot]

LInit ==
  /\ draft = [d \in Drafts |-> [rev |-> 0, doc |-> None]]
  /\ run = [r \in Runs |-> [status |-> "absent", snapshot |-> NoSnapshot]]
  /\ library = [v \in Versions |->
       IF v \in Imported
       THEN [NoEntry EXCEPT !.visibility = "VISIBLE", !.payload = v]
       ELSE NoEntry]

Snapshot(d) == [draft |-> d, rev |-> draft[d].rev, doc |-> draft[d].doc]

(* A draft is created at revision 1 or edited into the next revision.      *)
Edit(d, doc) ==
  /\ draft' = [draft EXCEPT ![d] = [rev |-> @.rev + 1, doc |-> doc]]
  /\ UNCHANGED <<run, library>>

Begin(r, d) ==
  /\ run[r].status = "absent"
  /\ draft[d].rev > 0
  /\ run' = [run EXCEPT ![r] = [status |-> "pending", snapshot |-> Snapshot(d)]]
  /\ UNCHANGED <<draft, library>>

(* Pending runs settle, several at once after a restart; a run nobody was  *)
(* told of may be dropped instead.                                         *)
Settle(settled) ==
  /\ \A r \in settled : run[r].status = "pending"
  /\ \E outcome \in [settled -> {"succeeded", "failed", "dropped"}] :
       run' = [r \in Runs |->
         IF r \notin settled THEN run[r]
         ELSE [status |-> outcome[r],
               snapshot |-> IF outcome[r] = "dropped" THEN NoSnapshot
                            ELSE run[r].snapshot]]
  /\ UNCHANGED <<draft, library>>

Publish(v, r, k) ==
  /\ library[v] = NoEntry
  /\ run[r].status = "succeeded"
  /\ run[r].snapshot = Snapshot(run[r].snapshot.draft)
  /\ \A other \in Versions : library[other].key # k
  /\ library' = [library EXCEPT ![v] =
       [visibility |-> "VISIBLE", run |-> r, key |-> k, payload |-> r,
        snapshot |-> run[r].snapshot]]
  /\ UNCHANGED <<draft, run>>

Shelve(v) ==
  /\ library[v].visibility = "VISIBLE"
  /\ library' = [library EXCEPT ![v].visibility = "ARCHIVED"]
  /\ UNCHANGED <<draft, run>>

LNext ==
  \/ \E d \in Drafts, doc \in Docs : Edit(d, doc)
  \/ \E r \in Runs, d \in Drafts : Begin(r, d)
  \/ \E settled \in SUBSET Runs : Settle(settled)
  \/ \E v \in Versions, r \in Runs, k \in Keys : Publish(v, r, k)
  \/ \E v \in Versions : Shelve(v)

LibrarySpec == LInit /\ [][LNext]_lvars
=============================================================================

# Formal verification of dal-web

TLA+ models of the dal-web backend and of the quote authoring of its frontend,
the TLC runs that check them and the TLAPS proofs of what matters most. Paths are
relative to the repository; `lifecycle` stands for
`backend/app/services/curve_lab_lifecycle.py`, `jobs` for `curve_lab_jobs.py`,
`store` for `store.py`, `store_db` for `db/store_db.py`.

## 1. The system

dal-web is a FastAPI application over the native DAL pricing library, with a
React frontend. One uvicorn process serves all requests.

| part | state | operations | code |
|---|---|---|---|
| job executor | a bounded semaphore, a FIFO pool of 2 threads | reserve, submit, cancel, release | `jobs` |
| Curve Lab lifecycle | handlers and worker threads in progress | create, update and clone a draft; build; publish, archive a version; import | `lifecycle`, `routers/curve_lab.py` |
| Curve Lab tables | drafts, build runs, versions, import jobs, fixing snapshots, risk runs, matrices, audit events | one transaction per method | `store`, `store_db`, `db/models.py` |
| curve risk | risk runs in progress, fixing snapshots | admit, execute with AAD fallback, publish matrices | `curve_risk.py` |
| books | products, models, trades, ordered portfolios | create, update, delete with guards and cascades | `store`, `store_db`, `routers/*.py` |
| valuation | background asyncio tasks, valuation rows | value a trade or a portfolio, poll | `valuation.py` |
| calibrations | workers, run rows, curves | submit, run under the gateway lock, terminalise | `calibrations.py` |
| native gateway | one lock, a native module | every native call | `dal_gateway.py` |
| startup | - | reconcile what the last process left in flight | `main.py` |
| pure algorithms | - | canonical quotes, plans and axes, archive preflight | `quote_canonicalization.py`, `curve_lab_plan.py`, `archive_preflight.py` |
| frontend | draft, selection, form, request generations, poll loops | edit, submit, discard late answers, poll | `frontend/src` |

How they interact. Handlers are coroutines of one event loop that call the
store synchronously. Real concurrency comes from the executor's threads, from
`asyncio.to_thread` (valuation, calibration, risk admission) and from the
background tasks; all of them share the store, whose methods are one
transaction each, and the gateway's lock. A job is handed over in three steps:
the handler takes a permit, commits a QUEUED row and submits the work; the
thread then rewrites the row at every phase and releases the permit. A client
learns of the outcome by polling the row.

What is hard: the hand-over between handler and thread, which any call may
leave half done; reads that are used several store calls later (compare and
swap on drafts, evidence of a build); deadlines that are only polled between
native calls; retries under one idempotency key; a crash between any two store
calls and the reconciliation after it; an audit event that is a separate
transaction. `PROJECT.json` lists these as hazards, each at its line with the
properties that watch it.

## 2. Modules

| module | models | extends |
|---|---|---|
| `BoundedAdmission` | abstract: at most `Capacity` jobs outstanding, each retires once | - |
| `CurveLabJobs` | `jobs`: reservations, semaphore, FIFO pool | - |
| `CurveLabJobsProofs` | its theorems | `CurveLabJobs` |
| `CurveLabStore` | the Curve Lab tables and the store methods on them | - |
| `CurveLabLifecycle` | handlers, build threads, deadlines, faults, crash and restart | `CurveLabJobs`, `CurveLabStore` |
| `CurveLibrary` | abstract: what Curve Lab promises, without threads or partial handlers | - |
| `CurveLabLifecycleProofs` | its theorems | `CurveLabLifecycle`, `CurveLabJobsProofs` |
| `Books` | products, models, trades and portfolios in both stores, side by side | - |
| `BooksProofs` | its theorems | `Books` |
| `Valuation` | pricing tasks over the durable store, changing books, crash and restart | `Books` |
| `ValuationProofs` | its theorems | `Valuation`, `BooksProofs` |
| `ArchivePreflight` | `archive_preflight.py`: what an uploaded archive must satisfy, as operators | - |
| `CurveLabImports` | import handler, import threads, the publishing transaction, deadlines, crash and restart | `CurveLabJobs`, `ArchivePreflight` |
| `CurveLabImportsProofs` | its theorems | `CurveLabImports`, `CurveLabJobsProofs` |
| `CalibrationRequests` | schemas, admission plans and result projections of the three kinds of request, as operators | - |
| `Calibrations` | request coroutines, workers, the gateway lock, terminal states, crash and reconciliation | `CalibrationRequests` |
| `CalibrationsProofs` | its theorems | `Calibrations` |
| `RiskWork` | the saturating work estimate of a risk run and its limits, as operators | - |
| `CurveRisk` | fixing snapshots, risk request threads and workers, matrices, crash and restart | `CurveLabJobs`, `RiskWork` |
| `CurveRiskProofs` | its theorems | `CurveRisk`, `CurveLabJobsProofs` |
| `QuoteAuthoring` | the workspace and the authoring panel of the Curves page | - |
| `QuoteAuthoringProofs` | its theorems | `QuoteAuthoring` |
| `MC...` | model values, symmetry, families of requests and bounds for TLC | the module named |

### CurveLabJobs
`permits` is the value of the `BoundedSemaphore`; `resv` says where each
reservation is (held, queued, running, released, ...); `queue` is the pool's
work queue. `Reserve`, `Submit`, `SubmitRaises` and `Cancel` are the methods of
`_Reservation`; `Take`, `Release` and `Retire` are the pool thread: it takes the
oldest work, gives the permit back in the `finally` of `guarded`, and returns to
the queue. The window between `Release` and `Retire` is real: the permit is free
while the thread is not.

### CurveLabStore
One operator per store method. Documents, payloads and hashes are identities: a
document stands for its canonical JSON and fingerprint, a payload for the run
that computed it. `CasDraft` is the `UPDATE ... WHERE revision`, `InsertVersion`
the publishing transaction with its five comparisons, `ManifestHolds` the
dependency check on the locked rows, `Reconcile` the sweep at startup. The two
stores (`Store` under one lock, `DbStore` under row locks) have the same atomic
effect on these tables.

### CurveLabLifecycle
A client request is a handler with a program counter `pc` and the values it has
read (`req`); a build is a job of `CurveLabJobs` with a thread counter `wpc` and
the dependencies it resolved (`found`). One action is one stretch of code up to
and including its store or native call, so that other parties interleave between
any two store calls. The single event loop would not interleave two handlers
that do not await; the model does, because the code is written and tested
against concurrent stores (`test_curve_lab_lifecycle_api.py` runs two of them)
and so every result here also covers several server processes on one database.
A thread goes to `auditSuccess` or to `auditFailure` by the path it is on, and
its event follows from that (`AuditEvent`), not from the row.
`expired` is the persisted deadline having passed; `Fault` is a store or
executor call that raises; `Crash` loses everything that is not in a table and
`Restart` reconciles before it serves. `OtherJobStep` is any import or risk job
that shares the executor.

Requests refused before they write anything are not actions, except where the
refusal is what a property is about (`UpdateConflict`, `PublishConflict`,
`Refuse`).

### Books
The same operations on the two implementations of `StoreProtocol` in lockstep.
Both guard and answer alike for products, models and trades, which are kept
once; `list` is `Store`'s `trade_ids`, `rows` are `DbStore`'s `portfolio_trade`
rows with their positions. `Readings` are the orders in which the database may
return rows by position: all of them where two positions are equal. Contents of
products and models are left out, only their existence matters here. Deleted
identifiers may come back, which stands for fresh uuids in a small set.

### Valuation
`valuation` is the table, `task` the asyncio task of a row with its local
variables: the copies it loaded and what it has priced. `loaded` is a
history variable, the trades the task found: what a completed row must have an
entry for, in that order, when the task and the portfolio have moved on. `Load` and `Complete`
run on the event loop, `ReadProduct`, `ReadModel` and `CallNative` in a worker
thread, so requests that change the books come between any two of them. A
native call answers a result or an error, both kept in the trade's entry; a
`NotFoundError` of the two reads, or a store call that raises (`StoreRaises`),
goes to the except clause (`Fail`), and when that raises too the task ends and
leaves its row. `Crash` ends all tasks; `Start`, `Reconcile` (a row at a time,
so that the sweep can be cut short) and `Serve` are `create_app`, which also
seeds an empty store.

### ArchivePreflight and CurveLabImports
`preflight_archive` is a pure function of the upload, so it is the operator
`Admits`, stage by stage: wire size and encoding, gzip stream, text, numbers,
depth, object and reference counts, the fields and types of every object, and the
search for cycles. `Edges` is `_definition_edges`; `Start` and `Turn` are the
first state and one turn of the loop of `_validate_reference_graph`, with its
stack, iterators and three colours, and `Search` is the state after each turn. An
upload is abstracted to what those stages tell apart: a string to its size, an
array to the number and the kind of its items, a text that holds U+0000 or a
surrogate to one of its `defects`. A Bag has any number of `contents<i>`
(`ContentsField`). `NativeCanFollow` says without a search what
the native reader needs: every reference has one target of a fitting type, and
no set of objects waits for itself.
`CurveLabImports` is the handler (`import_native_json`), which admits an archive
when the preflight admits its content (`Content`, `Admitted`), and the thread
(`_execute_import_job`). `PublishRead` and `PublishCommit` are the two halves of
`publish_curve_lab_import`, between which another thread may commit the same key;
the unique constraint then makes the commit raise (`Collides`). `Restart` is the
sweep of import rows.

### CalibrationRequests and Calibrations
`CalibrationRequests` holds what is decided about a request: `Valid` (schemas),
`Admits` (plan, knot policies, eligibility for native residuals, fixings),
`ResultProjects` (can the response schema carry the result) and
`CanonicalOrder` (`instrument_order.py`), and `IsRequest` the field types of a
request. Dates are numbers, `Today` is the valuation date; counts of instruments
and free parameters are the sizes of the sets they count (`ParameterAxis`).
`ReadsWithin(n, r)` says that `get_curve_response` reaches the end of the base
chain of `r` in at most `n` curves. `Calibrations` is the coroutine of a request,
the worker, its thread under the gateway lock with its callbacks, and the failure
paths. A cross
currency request in ANALYTIC mode takes the lock twice before it is admitted, for
its fixings and for its eligibility (`FixingsFound`, `QueryEligibility`).
Instruments have an order that matters for single curves only: which residual
belongs to which instrument of a cross currency run is decided by position
(calibrations.py:1931-1947) and the order of the native residuals of such a run is
not modelled, so `CompletionIsWhole` says nothing of it. Of the failure paths,
`integrity`, `lifecycle`, `native` and `mismatch` are the except clauses of
`_run_*_calibration`, `loop` is the stretch in which a worker writes two rows
without awaiting. `Tamper` is an alteration of the stored evidence, which
`_verify_single_evidence` exists to catch. `Other` stands for every other user of
the lock.

### RiskWork and CurveRisk
`Estimate` computes in machine words with a sticky overflow flag, as
`estimate_work` does; `Work` is the same work counted in integers. `CurveRisk`
admits a request, then makes the worker's native calls one at a time: `todo`
counts the calls of each kind that remain (`CallsFor` at the start), made in the
order of the kinds (`Turn`). `Look` is the look at the deadline before a call, and
another follows each call that returns (`NativeCall`); none follows a layer that
is given up because a call raised (`NativeRaises`), and none stands between the
last call and the result (`Succeed`). `got` collects the answers, `spent` counts
prices, solves and AAD recordings: one recording for each trade and component
(`AadCalls`; a request has `C` components), eligible or not, where the estimate has
one for each eligible trade. A matrix carries the method of each of its rows
beside its own label (`TradeMethod`, `MatrixMethod`). `PublishRun` is the
transaction that writes the row and its matrices; `AuditRun` may fail after it,
and then the guard rewrites the row as FAILED. A fixing snapshot and its audit
event are two steps (`CreateFixingSnapshot`, `AuditSnapshot`), between which the
process may stop.

### QuoteAuthoring
`draft`, `parses`, `selected`, `token` and `calls` belong to the workspace
(`CurveLabWorkspace.tsx`, `Curves.tsx`), the rest to
`CurveLabQuoteAuthoring.tsx`. The JSON editor takes any text: while the source
does not parse (`BreakSource`), the page shows the default document, and whatever
is done to what it shows, an edit or an applied quote, is written over the source.
`draft` is what the page shows. Families the page does not know have no target
(`SelectedFamily`). `calls` are saves and clones on their way: the buttons of a
clone, an export and an archive do not look at `busy`, and the end of each clears
it, so that calls overlap and return in any order. A render follows its state
update at once, effects run later: `PublishTarget` and `RunEffects` are actions, so that answers arrive
between an update and its effects. `requests` are the canonicalisations under
way, in any order; an answer is `Answer`, which applies, shows an error or
discards exactly as the three checks of the component decide. `renders` are the
display requests; one that fails leaves its error (`renderingError`) in place of
the rendering, if it is the latest. A new family resets the convention of the
input and of the display (`FamilyEffect`).

## 3. Runs

All runs finish within three minutes with two workers, most within one.

| run | question | bounds |
|---|---|---|
| `CurveLabJobs_executor` | permits, workers and queue; implements `BoundedAdmission`; accepted work is executed | 5 jobs, 2 workers, 1 place in the queue, fair |
| `CurveLabLifecycle_library` | revisions, versions, keys and evidence under two editors and publishers; implements `CurveLibrary` | 2 clients, 2 runs, 2 versions, 2 keys, a document that depends on a version, revision <= 2 |
| `CurveLabLifecycle_faults` | one writer per row, orphans, audit trail, terminal rows, every accepted build settles | 2 clients, 1 build and 1 other job, 1 crash, 1 failing call, the deadline may pass, fair |
| `CurveLabLifecycle_deadline` | finding: a native call starts after the deadline | 1 client, 2 runs |
| `CurveLabLifecycle_replay` | finding: an identical retry is refused | 1 client, 1 run, 1 version |
| `Books_position` | finding: a position is given out twice | 2 products, 3 trades, 1 portfolio, no bound on operations |
| `Valuation_pricing` | no forgotten or twice-written row, whole results, every valuation settles; references and members of the books | 1 valuation, 2 trades, 2 products, 1 portfolio, 2 crashes, 1 broken store call, fair |
| `CurveLabImports_race` | only sound archives reach the native library; one version per archive; imports settle once | 2 jobs, 2 workers, no queue, 1 crash, 1 failing call, fair; 62 uploads: nested curves and bags of up to five with every way to refer to each other, and broken ones for each stage of the preflight; three of them are admitted |
| `Calibrations_runs` | exclusive solves of sound evidence, whole completions, runs only advance and end, admitted runs can be answered | 3 runs, one of them completed before, 1,844 first requests and up to one of three companions, base chains of 2, 1 crash, 1 failing call, 1 alteration of evidence, fair |
| `CurveRisk_runs` | work within what was admitted, truthful matrices and rows, outcomes stand, runs end, late ones as timed out | 2 jobs, 1 worker, 1 place in the queue, words of at most 60, requests at and beyond every limit, one with 2 components, 1 crash, 1 failing call, fair |
| `QuoteAuthoring_latest` | late answers never reach the wrong instrument or an edited one; the panel shows what its form says | 2 instruments, 2 families and one the page does not know, 2 lexemes, 2 changes of the workspace, 3 generations a user may start, 2 renderings, 2 requests and 2 saves or clones under way |
| `QuoteAuthoring_unparsed` | finding: an applied quote replaces a source that does not parse | as above, 1 request, 1 call |

Why these bounds are enough. Every hazard needs two parties at most: two
editors of one draft, two publishers or importers of one key, a publisher and an
archiver, a thread and a reconciliation, a worker and another user of the lock.
Two of each give every pair; a third adds only symmetric copies. Capacity is small (1 or 2 instead of 102) so that
the full executor, the refusal and the released-but-busy window occur. One crash
and one fault separate every two store calls in turn. In the books, three
trades are enough for a gap, a survivor and a newcomer; two trades let the books
change between one trade's pricing and the next, and two crashes hit the sweep
itself. Valuations touch each other only through the books, so TLC has one; a
sweep that is cut between two rows is covered by the proofs. A single curve of up
to four knots reaches each bound of the calibration schemas (lowered to match); a
chain limit of 2 instead of 8 makes the last admitted link occur. Words of 60
instead of 2^64 - 1 overflow in the sums and products that the full limits would
need 2^64 work units for; `AdmissionIsExact` is proved for every word. Two
changes of the workspace allow an edit and its reversal of the selection, and two
requests, renderings or saves under way the overtaking of one by the other. Bags of
up to five objects are more than the three a cycle with a bystander needs; the
proofs have any number.

Deadlock checking is off: in each of these bounded models all identifiers may be
used up, every request answered and every job done.

Fairness, and why the code justifies it: pool threads are scheduled by the
operating system and native calls return (nothing interrupts them), so each
thread step and pool step is weakly fair; a handler that has committed its row
goes straight on to submit it, or to give the permit back, without an await, so
these steps (`BuildSubmit`, `SubmitJob`, `CancelJob`, `SubmitRun`, `CancelRun`)
are weakly fair; a stopped server is restarted by its operator. The event loop runs the
pricing tasks and their threads while the server serves, so the steps of a task
are weakly fair. A calibration waits for a lock that others take again and
again; `threading.Lock` wakes a waiter, so its steps are strongly fair, and every
holder releases the lock. Nothing is fair about clients, deadlines, faults or crashes.

## 4. Findings

* `CurveLabLifecycle_deadline`: README.md:163 says the soft deadline is checked
  between native calls. The worker checks it after the archive has been built
  (lifecycle:470) but not between `curve_lab_archive_parameter_axis` and
  `curve_lab_archive_curve_views`, nor before it records SUCCEEDED.
* `CurveLabLifecycle_replay`: docs/curve-lab.md:201 says an identical replay
  returns the existing version. `create_version` compares the draft first
  (lifecycle:787), so the retry is refused with 409 once the draft has been
  edited.
* `Books_position`: store_db.py:453 says positions stay gap-free, so that the
  number of rows is the next free position. `delete_trade` removes rows by
  cascade and renumbers nothing: with trades at 0 and 1, deleting the first and
  adding another gives two rows at position 1, and `ORDER BY position` no longer
  fixes their order. The members are right all the same (`SameMembers`).
* `QuoteAuthoring_unparsed`: docs/curve-lab.md:144 says an answer replaces only
  the instrument's `raw_quote`. While the JSON editor holds a source that does not
  parse, the page shows `DEFAULT_DRAFT` in its place (CurveLabWorkspace.tsx:517),
  an instrument of that can be selected and quoted, and applying the answer writes
  the whole default document over the source (747-760).

Contradicted by a document as well, without a run of its own; the properties of
the passing runs are stated as the code has it:

* Valuation: valuation.py:51 (and README.md:434) say one failing trade does not
  abort a portfolio. `_price_trade` reads the product and the model before its
  `try` (54-55), so a product that is deleted with its trade while an earlier
  trade prices fails the whole valuation (`Fail` from `ReadProduct`).
* Curve risk: docs/curve-lab.md:321 says that a key-rate bump that fails marks the
  key-rate matrix as failed. A trade that is not priced does so; a recalibration
  that raises in a parallel or key-rate bump ends the whole run
  (curve_risk.py:1288-1346, 1044; `NativeRaises`).
* Curve risk: docs/curve-lab.md:339-341 say the central fallback is recorded
  rather than presented as AAD. The row of each trade does record it, and
  `MatricesAreTruthful` says so; but a matrix with central rows only, of trades
  that are not eligible, or of those and trades that failed parity, is labelled
  NATIVE_AAD_WITH_CENTRAL_FALLBACK (curve_risk.py:1104-1110).
* Curve risk: docs/curve-lab.md:425 limits a run to 1,000 AAD recordings. The
  estimate counts one for each eligible trade (curve_risk.py:259), the worker makes
  one native call for each trade and component (dal_gateway.py:2225-2284), so the
  limit bounds the calls only when every trade is eligible and the axis has one
  component (`WorkIsBounded`). Whether a call for a trade that is not eligible
  records anything is for the native library to say.

Not contradicted by any document, but worth knowing: a key that is reused for
another build of a current draft is answered with the first build's version and
200; a fault between the commit of a QUEUED row and its submission leaves the row
QUEUED until the next restart (`NoOrphanRows` therefore assumes no failing call).

* Imports: an archive that is imported again with another runtime manifest is
  answered with the version of the first import, and its own manifest is
  dropped; an audit event is lost when the server stops before writing it.
* Calibrations: a joint request's knots are not compared with the valuation
  date, and a base chain of 8 is admitted although the derived curve is 9 deep;
  both are solved and then fail their projection (`AdmittedRunsProject` names
  these two as the only reasons). `_require_test_double_fallback` always raises
  in production, so the fallback planners only serve tests.
* Curve risk: a run that succeeded and could not be audited becomes FAILED,
  and its matrices go (`OutcomesStand` has this one exception); a layer that was
  given up, and the last call of a run, are followed by no look at the deadline.
* Quote authoring: saving and building adopt the server's copy of the draft, so
  edits made while the request was under way are lost; a save and a clone that
  overlap leave the document of whichever returns last; an applied canonical
  quote does not ask for a rebuild; the selected index stays when the JSON
  editor reorders the instruments. One failed poll in `CurveRun.tsx` ends the
  polling for good.

## 5. Proofs

`CurveLabJobsProofs` proves the four safety properties of the executor for every
set of jobs and every limit. The inductive invariant `JobsInv` adds to the
properties that permits are a natural number, that the outstanding set is
finite and that the queue has no duplicates; refinement of `BoundedAdmission` is
a step-by-step case split over the actions.

`CurveLabLifecycleProofs` proves every safety property of the lifecycle and that
it implements `CurveLibrary`, for every instance:
* `LifecycleTypeCorrect`: `Spec => []TypeOK`;
* `RowsHaveOneWriter`: `OneWriterPerRow`, the ownership argument. `JobsInv`,
  `TypeOK` and `OneWriterPerRow` together are inductive (`LifecycleInv`): the
  handler that reserved a run is the only one to hold it until it submits, and a
  thread runs exactly the job whose reservation is "running";
* `TerminalBuildsNeverChange`: from ownership, because a thread that may still
  write has its row in flight (`TerminalRowStays`);
* `VersionsMatchBuilds`: a version is the successful run it cites. The
  strengthening `PublisherHoldsRun` says that a handler about to publish holds
  the fields of a row that is terminal, hence frozen;
* `VersionsNeverChange`: a published version is only ever archived;
* `RevisionsNameOneDocument`: `SnapshotsAgree` looks at every bearer of a draft
  snapshot, rows and handlers about to write one: it is outdated or is the
  draft as it stands, and two of the same revision are equal. `BearersStep` says
  where a bearer can come from;
* `KeysSpentOnce`: `KeysDiffer`, from what the publishing transaction compares;
* `EvidenceIsWhole` and `DependenciesVisibleAtPublication`: `EvidenceInv` says
  that what a thread resolved is complete and true from `prepare` until it is
  written, and stays so because published payloads never change;
* `AuditTrailIsTruthful`: `AuditInv` also covers the event a handler is about to
  write (an event is a separate transaction), and an event that tells the truth
  goes on doing so (`TellsStays`);
* `NoRowIsOrphaned`: `OrphanInv` adds that a thread which exits leaves no row in
  flight unless a call failed;
* `ImplementsLibrary`: `Spec => LibrarySpec`. `ViewsRight` gives the refinement
  mapping case by case (a row decides what the library sees of a run; without a
  row, the handler that is about to write it). A step is then quiet, or moves
  one run as `RunMoves` says, or writes one entry; `EditIs`, `BeginIs`,
  `SettleIs`, `PublishIs` and `ShelveIs` turn each of these into the abstract
  action. Publication needs `PublishersHaveKeys`: a replay that finds its key
  taken changes nothing.

`BooksProofs` proves `BooksTypeOK`, `ReferencesHold` and `SameMembers` for every
set of identifiers. `BooksInv` is inductive: the list and the rows of a
portfolio name the same trades, each once, and all exist. The lemmas say what
`list.remove` (`WithoutRemoves`), `append` (`AppendAddsOne`) and the renumbering
(`RenumberKeeps`) preserve; the equal counts follow from two bijections
(`InvSameMembers`).

`ValuationProofs` proves `TypeOK`, `RunningHasTask`, `PricedOnceInOrder` and
`SettledStays` for any number of valuations, crashes and faults, over books that
change at any time. `Inv` adds to `BooksInv` that what a task has priced is a
prefix of what it loaded, each trade once (`Progress`; from `SameMembers`' part
of `BooksInv`, through `ReadingsNameOnce`), that its copies and its row never part
from `loaded` (`Faithful`: so a completed row has an entry for every trade that was
loaded, in that order), and that tasks die with the server
(`TasksDieWithTheServer`, without which the sweep could settle a row that a task
still works on).

`CurveLabImportsProofs` proves `ImportsPublishOnce`, `TerminalImportsImmutable`
and `NativeSeesReconstructible`. `ImportsInv` adds ownership (`RowsOwned`: a
thread that may still write finds its row in flight, with an admitted archive)
and that a version which a transaction has found still stands when it commits
(`SeenStands`). `PreflightFindsCycles` says that the preflight's search for cycles is
exact: of tags that resolve it refuses those that wait for each other in a circle
and no others. `SearchInv` is the invariant of its loop: what is finished has
finished targets only and contains no cycle (`Grounded`), and the targets taken
from an entry of the stack are finished or the next entry. `Path` keeps the stack
a path of the graph, so a target that is already on it closes a cycle. Every turn
does some of the `Work`, the targets not yet tried and the tags not yet finished,
so the search ends within its `Turns`. `AdmittedCanBeFollowed` takes this to the
objects: a set of objects that wait for each other would contain such tags, for
an object whose edges lead to none would wait for a later one nested in it
(`WaitingObjectsHaveEdges`).

`CurveRiskProofs` proves four things. `AdmissionIsExact`: for every word size,
cost and limit the saturating estimate admits exactly the requests whose work,
counted in integers, fits (a word without the flag is exact, and the flag is
never lost in a sum or a product). `OutcomesStand` and `MatricesAreTruthful`:
`RiskInv` is types, the executor's queue, ownership of rows, and that the row
and matrices of a successful run are those that its thread's `got` composes
(`ResultsPublished`), which no thread changes after publication.
`MatricesTellTheTruth` covers each row's method (`RowsAreTruthful`) and what the
labels of the matrix say of them (`NodesTellTheTruth`).
`RunsKeepToTheirWork`: the prices and recalibrations that a run has spent and that
its remaining calls will cost stay within the admitted work, and are exactly that
while no layer was given up; its AAD calls are the worker's own count, which meets
the limit on recordings where every trade is eligible and the axis has one
component (`WorkCounted`). No induction is needed, as calls are counted by kind.

`CalibrationsProofs` proves every safety property of `Calibrations`, for any
requests and limits. Its `Inv` has one part for each kind of evidence that must
agree about a run: `RowFits` (step, request and row), `EvidenceFits` (a run with
altered evidence is not past its verification), `CurvesFit` (curves and the
order of residuals) and `Refers` (the base was completed and readable, and stays
so: `ReadsKept`, `BaseKept`). `Advance` reduces a step to what it does to its own
run. `CompletionIsAtomic` needs that a run on a readable base reads one curve
further (`ReadsThrough`) and that a solver which sorts by distinct keys has one
order to return (`OneSolverOrder`, by the first place where two would differ).
`FinishedRunsAreFinal` and `AdmissionCoversProjection` are action properties: the
second rests on `AdmittedResultProjects`, that what `Valid` and `Admits` check
implies every bound the response schema puts on nodes, free parameters and
matrices, unless a joint knot is not after the valuation date.

`QuoteAuthoringProofs` proves `AppliedAsMeant` and `PanelShowsTheForm` for any
number of requests, renderings, saves and clones under way and for sources that
parse or do not: `AuthoringInv` says that a request of the current
generation was made for what the form still says, and one whose token is the
workspace's for the instrument that is still selected and unedited. `PanelInv`
adds that, unless an invalidation is due, the quote and the error shown are the
form's and the answer waited for is under way (`AnswersShown`), and that the
latest rendering, or its error, is of what the effects last saw
(`RenderingsFollow`).

`PoolIsBounded` (never more threads than workers, which the admission gate of
`CurveLabJobs_executor` says nothing of), `RowsStartBlank` and the type-correctness
theorems hold properties that no run needs to repeat.

Assumptions used, besides the named ASSUMEs of the modules: none. Those say that
bounds and limits are natural numbers, placeholders are not identifiers, a
portfolio is not a trade, there is at least one worker, requests have the field
types of their models, and the calibration limits are ordered as the code's are
(100 storage nodes fit 100 matrix columns, 200 joint parameters fit twice that).

Only model-checked: liveness (`SubmittedWorkFinishes` and the `...Settle`
properties), because fairness and ENABLED are outside the prover's reach.
The library's induction theorems take operators as parameters and
cannot be instantiated, so where a lemma is inductive (a finite set of dates can
be put in order, a recursive function is what its definition says) it takes the
least counterexample instead (`NatLeast`, from the well-foundedness of the
naturals). Elsewhere counts are sizes of sets and chains are sequences, so that
no recursive definition has to be unfolded.

## 6. Plan

1. Executor, Curve Lab lifecycle, books, valuation: modelled, checked, proved.
2. Imports and preflight, calibrations, curve risk, quote authoring: modelled,
   checked and proved.
3. Modelling still open: updates of the contents of products and models while a
   trade prices; the poll loops of `ValuationPanel.tsx` and `CurveRun.tsx`;
   the validators of Curve Lab documents and manifests; the translation of
   documents to native objects in the gateway.

## 7. Not modelled

The native library; the wording, formatting and field validation of requests
and responses that are refused (a refused request changes nothing), except where
a schema decides what is admitted or projected; the decimal arithmetic of
canonical quotes and the text of canonical JSON; templates, migrations and
scripts. The synchronous `value_portfolio` and `value_single_trade` have no
caller in the application. The numbers of a valuation or a risk run (PV, Greeks,
sensitivities) are abstracted to which exist and agree. The poll loops of the
frontend keep no state beyond one component. `_BUILD_FUTURES` is written and
cleared but never read, so it is not part of the state.

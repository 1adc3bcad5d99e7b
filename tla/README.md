# A verification project for the foreign-trade knowledge service

The repository is a FastAPI service that answers questions about products from
governed documents. Three stores hold its state: a SQLite database (sources,
products, facts, changes under review, jobs), a Qdrant collection (the vector
index) and a directory of source files. This directory holds TLA+ models of the
parts in which order and concurrency decide correctness, the configurations
that TLC checks them with, and proofs that TLAPS checks. `PROJECT.json` maps
each definition to the lines it models.

## The system

| component | state | operations | what makes it correct |
|---|---|---|---|
| Fact review: `app/approval.py`, `app/database/sqlite.py` | `product_fact_changes`, their events, `current_product_facts`, `product_master`/`products`, evidence chunks | propose, approve, reject, supersede | one fact in force for a field; decisions, facts, product record, evidence and audit trail agree; history is final |
| Ingestion jobs: `app/ingestion/jobs.py` | `ingestion_jobs`, the creation lock, background tasks | create, start, report, cancel, complete, fail, recover | one ingestion at a time, final outcomes, a completed job is what is served, every job ends |
| Ingestion pipeline: `app/ingestion/pipeline.py`, `app/approval.py` (reconcile), `KnowledgeDatabase.rebuild` | `ingestion_runs`, everything a rebuild replaces | load, reconcile, verify, rebuild the index, rebuild the tables | reindexing never decides, forgets no history and no upload, and puts every difference to review |
| Staged and managed sources: `app/knowledge_admin.py`, `app/ingestion/staging.py` | `staged_sources`, managed rows of `source_documents`, stored files | stage, propose, register | content is staged once while it is recent; an upload reported as proposed has all its review items; it stays governed |
| Vector store: `app/retrieval/qdrant_store.py` | the collection | rebuild, search, count | whole after a completed ingestion |
| Retrieval: `app/retrieval/` | none (reads the stores) | hybrid search, fusion, reranking, diversity | what reaches the answer exists when it is read |
| Answering: `app/rag/` | none | query | no claim without current evidence, no conflict that is none |
| Sessions: `app/auth.py` | `auth_sessions` | login, verify, logout | session cap, expiry |
| Rate limiter, middleware: `app/security/operations.py`, `app/main.py` | counters of a minute | allow | ceilings hold over any minute |
| Maintenance, startup: `scripts/demo_ops.py`, `app/demo_safety.py`, `scripts/docker_start.py`, `scripts/bootstrap_demo.py` | the runtime lease, backups, recovery copies, accounts | backup, restore, reset, rebuild, start, serve | what is served fits together after any operation or a crash in it; nothing is lost that was not saved |
| Source loading, configuration, CLI, local launcher, evaluation, browser client, release scripts | none of their own that the others read | | |

How they interact. Requests run in threads of FastAPI's pool and share nothing
but the database and a few locks. Starting an ingestion inserts a job row and
queues a background task in the same process; the task runs the pipeline, which
calls back into the job table to report progress and to ask whether it was
cancelled. The pipeline reads the approved facts, reconciles the files with
them, replaces the vector index, then replaces most of the tables in one
transaction. Reviews, uploads and queries go on all the while; a query reads the
index and the tables several times and answers from its last read. The operator's
tool is another process over the same files, kept apart from the server by a
lock file, the runtime lease, in demo mode only.

What is hard. The `sqlite3` module begins a transaction at the first write, so
the SELECTs that come before it in a request, its guards included, see the
database of their own moment and lock nothing. From the first write to the commit
the request holds SQLite's write lock, and a failure rolls the writes back. The
models follow that: each read before a write is a step of its own, the writes of
a request are one step, and a request may end between any two steps. The other
sources of difficulty are the long window between the pipeline's reads and its
writes, the two stores that no common transaction covers, the several reads of
one question, and the crashes and failed writes that leave durable rows and
files behind.

## Modules

**FactRegister** is the abstract specification of the review: each field has a
`holder`, each change a `verdict`, and each decision moves both in one step. Changes
are submitted as sets: one by an admin, any number at once by a reindexing.

**FactReview** is the review as the code does it. A thread serves one request:
`pc` says where it stands, `target` which change it is about, `prior` what it
has read. Each of `propose`, `approve`, `reject` and `supersede` is a chain of
read steps that ends in its write step (`InsertChange`, `ApproveFact`,
`RejectChange`, `SupersedeFact`); `Abandon` stands for a refusal, an exception or
a crash, after which nothing is written. A change is the record of the product
field, the value and the sha256 of the source, the data its id digests; an approved
fact is identified with its change, since its id digests the change's id. So
`INSERT OR IGNORE` of a known change is the test `Unknown`, and the primary key
of facts is `FreshFactId`. Proposals cite a document, and the version cited is the one
indexed when the request reads it. `Init` is the database after the first
ingestion, which approves the seed catalog and nothing else. Documents are
told apart by their digests: no two have the same bytes (`DocumentOf`).

**IngestionJobs** is the job table, the service and the pipeline's control. Each
job's task walks the stages in `at`; `point` is the progress value it reports
or checks. `Raise` is an exception at any stage and leads where the code's
`except` clauses lead: the run row is failed first when the exception is inside
the pipeline's `try`, then the job. `TaskDies` is an exception in one of the
job-table writes that no `try` covers, and `QueueingFails` one between the
insertion of a job and the queueing of its task. `Crash` ends the process with its tasks
and requests, and `Recover` is the constructor of the service, which the first
request after a restart runs. The two stores are the job each holds the data of;
the vector index is also whole or partial.

**GovernedIngestion** EXTENDS FactReview with the pipeline as a second actor on
the same tables: `LoadSources`, `ReadFacts`, `VerifyLoaded`, `RebuildIndex`,
`ReadRetained`, `RebuildTables`, `EndIngestion`. `EditSource` is the operator who
edits a file, and `RegisterManagedSource` an upload. `Drift` and `Effective` are the
two results of `reconcile_approved_facts`: the changes it raises and the facts
it keeps in force. `Lists` says which products a version of the catalog has at all: the
approved facts of one that has left it are kept too, and make the rebuild fail its
foreign keys, after the index has been replaced (`Referable`). `ReadRetained` is apart from `RebuildTables` because the
SELECTs of `rebuild` come before its first DELETE begins the transaction.

**StagedUploads** EXTENDS FactReview with uploads. `StageSource` is
`stage_source` up to the stored file (duplicate check among the `Newest` rows,
parsing, limits, the scan) and `InsertStagedSource` the row, with `UploadFails` in
between. A *run* is one call of `propose_staged_facts`: it registers the upload as
a source, proposes its facts one at a time through the propose steps of FactReview
(`ProposeNext`, `ProposeStep`), and marks the row (`MarkProposed`).
`ProposingFails` ends it anywhere; the row stays validated and the admin may try
again, beside other runs and reviews.

**Admission** is the door of the service: the fixed window of the limiter
(`Admit`, `TooMany`) and the bearer sessions (`CreateSession`, `Authenticate`,
`Logout`). The middleware is a coroutine and admits one request at a time; an
endpoint reads the clock before it gets the lock of the session store, so the
writes of overlapping logins commit in any order of their times. `accepted` is a
record for the property of the limiter: what was let through in each span of a
minute's length, by its first tick. It has an
`Init` and a next-state relation but no specification of its own: Maintenance
runs it while the server serves.

**Maintenance** EXTENDS Admission with the processes around it: the server of the
demo deployment and the operator's tool. What each does to the database file, the
index, the accounts, the sessions and the backups is a *plan*, the list of steps
of `demo_ops.py`, `docker_start.py` and `bootstrap_demo.py` in their order;
`Step` takes one, `Cut` is a crash or an error at any of them. Starting either
takes the lease, after `verify_demo_database`; the server lets it go after
`initialize_demo` and takes it again in its lifespan (`Initialized`, `Serve`). A
copy of a database that does not exist leaves a file without tables (`Hollow`),
as `sqlite3` does. `cuts` remembers where a process was cut until an operation
that repairs it completes.

**Answering** has the claims of an answer as pure operators of a question, the
products it matches and the hits: the decision order of the claim answerer, the
support states, the evidence, the precedence of approved facts over listings and
the conflict notices. A question is what its words amount to, a record of the
products and fields it names and of its cues; the hits are a set, each with its
rank.

**Questions** EXTENDS GovernedIngestion and Answering: one question asked beside
reviews and a reindexing. It searches the index twice (`Search`), reads the chunks of
the products it is about (`GatherCandidates`), then the rows of all candidates
(`Compose`), from the first `top_k` of which the answer is made: these are the
`context`, which the response returns beside the answer. A search may return any
points and the ranking is any order, with several listings first in an open
discovery (`ListingsFirst`). `listing` is what the product chunks say, which only a
rebuild changes.

Each `MC` module gives the constants of one model their values, and the
constraints of its run. Each `Proofs` module holds theorems about one model.

A definition whose name starts with `Fault` is the definition after it with a
plausible slip in it. No specification uses it; it documents which property
would notice the slip, as listed in `PROJECT.json` under `mutants`.

## Runs

| run | specification | instance | distinct states | result |
|---|---|---|---|---|
| `review_races` | `Spec` | 2 threads, a core and a free field, 4 proposals of 2 documents | 111,240 | holds |
| `review_one_per_field` | `SpecOnePerField` | 2 threads, a core and a free field, 5 proposals of 2 documents | 83,048 | holds |
| `jobs` | `SpecCancelsSeePending` | 2 jobs, 2 admins, 1 crash, 1 failure outside every handler | 600,634 | holds |
| `reindex_quiet` | `QuietSpec` | 1 thread, 3 catalog versions, an upload, an archive | 250,689 | holds |
| `uploads` | `UploadsSpec` | 2 threads, 5 kinds of uploads, 3 uploads, a duplicate window of 1 | 473,248 | holds |
| `operations` | `MaintenanceSpec` | 4 operations, 2 crashes, 2 threads, 3 tokens, 4 ticks | 599,820 | holds |
| `question` | `QuestionsSpec` | 10 questions, 3 products, 2 fields, 2 rival changes | 72,068 | holds |
| `review_rejected_in_force` | `Spec` | 2 threads, 2 rival proposals | | violated |
| `review_two_current` | `Spec` | 2 threads, 2 rival proposals | | violated |
| `jobs_two_at_once` | `Spec` | 2 jobs, 2 admins | | violated |
| `jobs_cancel_ignored` | `Spec` | 2 jobs, 2 admins | | violated |
| `reindex_loses_approval` | `GovernedSpec` | as `reindex_quiet` | | violated |

Why these bounds are enough to be interesting. Every race of the review is
between two requests, and the rival proposals include two replacements of one
core field, one of a free field, one from a historical source (which must be
refused) and one from a document that was never indexed. Facts carry three values, so
a replacement can itself be replaced. The review needs no bound on its
histories: a change is decided only as often as its status allows. For jobs, two
are needed to see a second one start, one crash to see recovery in every stage
and one failure outside every handler to see a task lost; `MaxJobs`, `MaxCrashes` and `MaxFaults`
are the only bounds. For reindexing one review thread is enough, since the
other actor is the ingestion. The second catalog version both changes a
field in force and states a new one, the third lists no product, while files change at any moment and
ingestions repeat without bound.

For uploads, five contents meet every verdict of the parser (a CSV with two
values for one field, one that ends in an unknown product and so always fails
midway, a note, a file with a finding, a file over the limit), and a window of
one row is the smallest in which a duplicate can fall out of sight; `MaxAttempts`
bounds uploads. Two threads propose, and the constraint `OneReview` lets at most
one review run beside them, since overlapping reviews are the subject of
`review_races`.

For operations, four of them see a backup, a reset or restore of it cut short, and
what the next starts make of that; two cuts fall in any two steps. Minutes of two ticks and
a clock of four see a burst on each side of a minute's end, and three tokens
against a cap of two see an eviction. The constraint `OneThingAtATime` explores
the limits of the door in the first life of the server, and one session after it.

For questions, the set `Asked` has one question for each branch of the decision
order (products by id, by a SKU two products share, an id beside the SKU of another
product, near, open discovery, history, a document topic, an unknown identifier).
The same question about a price is asked with a `top_k` of 8, in which every candidate
has room, and of 3, in which any may be cut, as the API's 1 to 20 cut the candidates of
its own corpus. The constraint
`Focus` gives a question about the fields of a product one review or one
reindexing beside it, and any other question none; a search returns any set of
fact chunks, of the other chunks all or nothing.

`SYMMETRY` is used where only safety is checked, over threads, tokens and the rival values,
which the models treat alike. `CHECK_DEADLOCK FALSE` appears in `jobs*`, `uploads` and
`operations`, whose bounds let them stop: once `MaxJobs` jobs have ended, once
every upload is staged and proposed, once the operator is done.

### Assumptions about the environment

Three of the passing runs (`review_one_per_field`, `jobs`, `reindex_quiet`) are
about a restricted environment that the code does **not** enforce. The violated
runs show what each restriction keeps out, and the restricted runs show that it
is enough:

* `OneRequestPerField`: no two review requests about one field overlap.
  `review_races` is without it, and shows what still holds.
* `CancelsSeePending`: no cancellation that read `pending` overlaps the start
  of its job. Cancellations of running jobs are not restricted.
* `QuietNext`: no review is open from the moment the pipeline reads the
  approved facts to its rebuild of the tables, no upload is registered
  within the rebuild, and `OneRequestPerField` holds.

`uploads`, `operations` and `question` restrict nothing.

### Fairness

Only `JobsEnd` is a liveness property. It assumes weak fairness of each task's
next step, since a background task of a live process keeps running and every call
it makes returns or raises (`Progress` leaves out exceptions, which need not
happen), and of `Recover`: after a restart some admin opens the sources page or
starts a job, and any such request builds the service. It also assumes that a request
which has inserted a job goes on to queue its task, and that one which has read a job in
order to cancel it writes or fails, as a request of a live process does. The latter
matters under `CancelsSeePending`, where a start waits for such a request; that one can
always end, so the restriction stops nothing for good. Whether admins ask for
anything, crashes and exceptions have no fairness.

## What the violated runs show

* `review_rejected_in_force`. README line 114: "A rejected or pending proposal
  never overwrites current authority." Approve and reject both read `pending`;
  the approval commits, then the rejection updates by id alone
  (`sqlite.py:1487`). The change is rejected and its fact is in force.
* `review_two_current`. Two approvals for one field both read the seed fact
  before either writes (`sqlite.py:1564`). Both of their facts are approved, against
  the cycle `approved → superseded` of README line 112.
* `jobs_two_at_once`. `jobs.py:17`: "Run one ingestion at a time". A
  cancellation reads `pending`, the job starts, the cancellation writes
  `cancelled` (`sqlite.py:481`); no row is active, and a second job starts.
* `jobs_cancel_ignored`. `SourcesPage.tsx:86`: "Cancellation requested. The job
  will stop at the next safe checkpoint." One accepted after the check at 65
  and before 70 is stored meets no further checkpoint (`pipeline.py:100`).
* `reindex_loses_approval`. The docstring at `approval.py:108` promises to keep
  approved values authoritative. An approval committed between `pipeline.py:79`
  and `pipeline.py:106` is erased, its change stays `approved`, and proposing
  it again is ignored because the id exists.

## What else is worth knowing

No document contradicts these, so they are no findings; the models contain them.

* A job whose second verification fails (`pipeline.py:131`) is reported failed
  although both stores hold the new data, and a job whose `complete` write raises
  (`jobs.py:68`) stays `running` and blocks new jobs until a restart.
* The command line (`app/ingestion/cli.py`) runs the pipeline without a job and is
  outside the guarantee of one ingestion at a time.
* The same content can be staged twice once 500 newer rows exist
  (`knowledge_admin.py:130`); `DuplicatesAreFarApart` says exactly how far apart.
* An upload whose proposal stopped midway, and one of whose facts was then
  approved, can never be marked as proposed: each retry is refused at the
  approved fact as "already the approved current fact".
* The limiter's window is the minute of the clock, so up to twice a limit passes
  within a minute's length around its change; `BurstIsBounded` says never more.
* Startup compares no contents: an index cut between two batches of an upsert is
  not empty and is served (`docker_start.py:77`), until a rebuild or a restore
  completes. `ServedStoresAgree` lists every cut with such an effect: those of
  `IndexCuts`; of `SessionCuts`, a restore cut before the sessions are forgotten;
  of `AccountCuts`, accounts written without their credentials; and of `GapCuts`,
  any operation cut between `initialize_demo`'s release of the lease and the
  lifespan's taking of it, which meets no check at all.
* A backup of an absent database leaves an empty file, which every later check,
  that of a reset included, refuses until somebody deletes it. So does an
  upload registered as a source: from then on the demo neither starts nor
  resets.
* The first `top_k` of the candidates may hold the listing of a product and not
  the chunk of its approved fact, which ranked lower (`retrieval/service.py:388`) or was
  approved between the read of the products' chunks (`:277`) and that of the rows
  (`:283`). The answer then states the listing's value, that of the last reindexing, as
  current. `CoreAnswersAreInForce` says that this is the only older value an answer
  states, and only when it has not seen the chunk (`Unseen`).
* An operator who drops a product with approved facts from the catalog cannot reindex
  any more: reconciliation keeps the facts, and their insertion fails the foreign
  key to `product_master` (`sqlite.py:756`) after the index has been replaced. The tables
  stay as they were, until the product returns.
* A withdrawn free field stays in the product's listing, and so in answers, until
  the next reindexing.
* A conflict notice may be supported without evidence when the listings it
  would cite were cut (`docs/architecture.md:20`: "Each supported claim gets its own
  evidence pointer.").

## Proofs

The theorems hold for every value of the constants (threads, fields, values,
documents, digests, proposals, jobs, uploads, users, tokens, questions, bounds) under
the named assumptions of each model. TLC evaluates them in its runs, and they say
only of what kind each constant is:

* `ConstantsAssumption` (review): the seed catalog gives every core field a value;
  `NoValue` and `NoHash` are no values and no digests.
* `SourcesAssumption` (reindexing): the seed is what the first catalog file states; a
  catalog states fields of products it lists, and every product has a core field.
* `BoundsAssumption` (jobs): the bounds are numbers.
* `UploadsAssumption`: no two contents share a document, and none is indexed at first.
* `AdmissionAssumption`, `EveryoneIsNobody`: cap, minute and limits are numbers, the
  first two positive, and the key of the global count is that of no client.
* `FilesAssumption` (maintenance): no database is an absent or an empty one.
* `AnsweringAssumption`: what a claim can be about besides a product (an identity,
  history, a document, ...) is no product; the fields are no claim kinds.
* `QuestionsAssumption`: products and passages are finitely many, a field of a
  product is one key, `top_k` is a number.

Where a theorem is about a restricted environment, its specification says so.

**FactReviewProofs** is about `Spec`, with every interleaving. The properties are not
inductive by themselves: a withdrawal could be about a core field were its `target`
arbitrary, an approval could retire the facts of another field were its `prior`
arbitrary, and a change with an approval in its trail could be approved again had
its fact been lost. The invariant comes in two parts, because other models keep only the first:

* `ServingInv` is what any service of the review keeps. `RequestInv` says what a
  request still knows when it writes, whatever the others did meanwhile: a
  decision is about a change that exists, a withdrawal is not of a core field, what an approval
  has read belongs to its field. `GrantInv` says that the change of a fact has an
  approval in its trail and is decided, `TailInv` that each trail ends in the
  status and is empty for unknown changes alone. To these it adds
  `CoreFieldsStayCurrent` and `EvidenceIsCurrent`.
* `OnceInv` is the converse: a change without a fact has no approval in its trail,
  and no trail has two. It needs facts never to disappear, so a
  reindexing that erases one breaks it. `RaceInv` is both.

From `RaceInv` follow `TypeCorrect`, `OneApproval`, `AuditIsComplete`,
`FactsNeedApproval`, `CoreFieldsCurrent`, `EvidenceCurrent` and, for steps,
`HistoryIsFinal`.

**FactReviewFieldProofs** is about `SpecOnePerField`. `FieldInv` adds to
`RaceInv` that what a request has read is still so when it writes (its change is
still pending or approved, the facts it read are the current ones), which the
restriction makes inductive because no other request about the field is open. It
gives `OneCurrent`, `InForce`, `MasterCurrent`, `AuditWalks`, and
`ReviewImplementsRegister`: with `holder` the only current fact of a field,
every step of the review is a step of `FactRegister` or changes none of its
variables.

**GovernedIngestionProofs** composes the review with the pipeline, and asks first what
survives when nothing keeps them apart (`GovernedSpec`), then what the restricted
environment (`QuietSpec`) adds.

* `IngestInv`: once rebuilt, the index has the points of the snapshot until the
  tables follow (`PointsInv`), and every source loaded has a version
  (`LoadedInv`). `DriftReviewed` and `IndexAgrees` follow, with any reviews beside the
  ingestion.
* `OverlapInv` is `ServingInv` across rebuilds. The rebuild writes what the
  pipeline read long before, so what it read must be fit to be written at any later moment:
  `SnapshotInv` says that the snapshot has one fact of every field it covers and covers
  all core fields, `HeldInv` that each change in the snapshot or in what is
  retained has been approved, which stays true of it whatever is decided meanwhile.
  It gives `OverlapCoreFields`, `OverlapEvidence`, `OverlapApproved` and `OverlapAudit`:
  the rebuild of `reindex_loses_approval` loses a decision, but no core field, no
  audit entry and no evidence, and puts nothing in force that nobody approved.
* `QuietInv` adds the invariants of FactReviewFieldProofs, which a rebuild must keep
  too, and that no request is open while the pipeline replaces, so `snapshot` is
  still what is approved and `retained` the history and the uploads of the tables
  (`Calm`), that every fact comes from a governed source, so that reconciling
  drops none (`Sourced`), and that an approval under way cites the indexed version
  (`FreshReads`). A rebuild that would forget the history of a product no longer listed
  meets a core fact of it that has no row to refer to, and fails instead
  (`RebuildListsAll`). It gives `ReindexDecidesNothing`, `HistoryKept`, `ManagedStay`,
  `ApprovalsCite`, carries `QuietDecisions`, `QuietMaster` and `QuietField` across rebuilds, and
  gives `ReindexImplementsRegister`: the composition still implements the
  register, in which a rebuild is one submission of all the differences it
  raises and leaves every holder alone.

**StagedUploadsProofs** is about `UploadsSpec`, for any size of the window, any number of
runs and any contents. `StagingInv` says that the upload in flight is no
duplicate of a row still in the window and that its file is there before its row
(`ApartInv`, `FilesInv`). `ProposeInv` says of each run that its upload is the
indexed version of its source and that every fact before its next one has a review
item or is just being proposed (`RunInv`), from which the facts of a marked row all
have one (`CompleteInv`); a change once proposed never becomes unknown again,
whatever reviews do. `UploadsReviewed` shows `RaceInv` kept by every step of an
upload, so that the guarantees of the review hold beside runs.

**IngestionJobsProofs** is about the job service, for any number of jobs, admins, crashes
and faults. Under `SpecCancelsSeePending`, `OneIngestionAtATime` does not follow from
itself: nothing in it says that a second job is not about to start. `IInv` adds
what the rows say (only the newest job may be active, `Rows`), what a request knows
(one about to create holds the lock and there is no active job; one that cancels a
pending row sees it pending, `Asking`), which stages a running job's task may be
at (`Tasks`), and how far the stores are at each stage (`Stage`), from which
`CompletedIsServed` and `CancelledBeforeRebuild` follow. It gives the five invariants
of the run `jobs` and `OutcomesAreFinal`. Under the plain `Spec`, in which the races of
the two violated runs happen, `LooseInv` keeps what does not depend on who wrote a
row last: a task belongs to a row, a request that creates or cancels is about one
that exists, and nothing runs while the process is down. It gives `TypesAlways` and
`TasksAlways`: even then no job keeps new ones out without a task or a request
behind it, but for the failures outside every handler.

**MaintenanceProofs** is about `MaintenanceSpec`, for any number of operations and
cuts at any step. `Safe` says who holds the lease, that only the holder has
a plan, and that in every plan the database is opened between a step that may
leave no tables and one that needs them (`Ordered`, `Prepared`); without it a type of
the database could not be kept. `CarefulInv` says that what is left of a plan
replaces the database only right after saving it, and removes it only in a
reset of one without uploads; `NothingUnsavedIsReplaced` follows. `SessionsInv`
adds that the sessions are finitely many, so that their number can be
counted; `SessionsAreBounded` follows for every cap. `WindowInv` is about the
limiter: a count of the window is at most its ceiling, and what a span has seen is at
most one ceiling for each minute that it meets and that is over, and the count of
the present one. A span meets two minutes at most, so `BurstBounded` follows
without an induction over the ticks.

**MaintenanceServedProofs** proves `ServedStoresAgree` for the same
specification. The names of the steps serve as program counters: `ChainsInv` says
that what is left of a plan goes on in one way only (`Succ`) from where its process
is (`ToolAt`, `ServerAt`). `IndexInv` says how far the index and the database are
there. While nobody is between dropping the index, or replacing the database, and
recording the new state, they are good to serve, or one of the cuts is marked, or
the next start, which is still to look at them, makes them good (`Rebuilt`, `Early`).
The last case is why an interrupted reset needs no mark. `FreshInv` and
`AccountsInv` say the same of the sessions and the accounts. An operation that ends has
put right what the marks it removes stand for.

**QuestionsProofs** is about `QuestionsSpec`: any questions, any ranking and any points
from the index, beside any reviews, uploads and reindexings, with no quiet assumed. Its lemmas
say what each branch of the claim answerer can claim: which hits a claim
cites, when it is about a product, what a supported one says. `QuestionInv` is
`OverlapInv` with what ties the listings to the facts: a fact of the seed in force
is the value its product's listing shows (`SeedFactsAreListed`), and the stores
are finite (`StoresFinite`), which the selection of the first hits needs.
`CitationsInForce` needs only the second lookup of the rows; `ConflictsReal` that
approved facts go before listings and one listing speaks for one product;
`CoreAnswersInForce` that a core field has a fact in force (`CoreFieldsStayCurrent`,
hence `OverlapInv`): when it is the seed's, the listing shows it, and when it is a
change's, its chunk either is among the hits, and goes before the listing, or is not,
which is what the theorem allows the listing's value for.

Each action has its step, and under it one step per conjunct it can disturb;
helper lemmas say what an appended event does to a trail and what each write
leaves alone.

Only model-checked: `JobsEnd`, since liveness under fairness is beyond what the
installed provers do. Every safety property of a passing run has its theorem. No
module uses a RECURSIVE operator.

## Not modelled, and why

* The text of chunks, embeddings, scores, filters, schemas, answers' wording:
  data that no property here tells apart. Fusion, boosts and reranking only rank, and
  the ranking is arbitrary in `Questions`.
* The external answerer (`OpenAICompatibleAnswerer`) always raises in this code;
  the fallback is the answerer modelled. The 503 of a query whose configuration
  differs from the index is a check of two constants.
* `knowledge_versions` and `knowledge_conflicts`: written by every rebuild from
  the bundle and read for display, except the policy of a source, which is the
  constant `Historical`.
* Products whose first catalog entry comes after the seed: the keys are those of the
  seed's products, some fields of which nothing states at first.
* A deployment without demo mode, such as the local launcher's
  (`local_demo.py:57`) and the default of `docker-compose`: no lease is taken, and
  nothing in `operations` holds there while the tool runs beside the server.
* Within `Maintenance`: the directory of uploads, which a reset removes, and a
  reindexing by the server itself while it serves, which is the subject of the job model.
* Password hashing, request ids, headers and the metrics of observability.
* Parsing and chunking of source files and the scan for sensitive text, beyond
  their verdict.
* Configuration, evaluation, release and recording scripts, and the browser
  client: no state of the running system.

## Plan

The first plan is carried out: the review, the jobs, the governed reindexing,
staged uploads, maintenance, the door and questions are modelled and checked,
and every safety property that a run checks is proved. What would add most next:

1. An abstract specification of the job table (a queue of one place, each job
   with one outcome), and the proof that the job service implements it.
2. For uploads, that history is final (`SupersededForGood`) beside runs, and
   the register of FactRegister under one request per field.
3. The question and the jobs together: what an answer is made of while an index
   is partial.
4. A local deployment without the lease, to list what the tool can break there.
5. Products that are new to the catalog, none of whose fields is approved yet.

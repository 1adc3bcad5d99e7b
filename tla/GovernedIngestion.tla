--------------------------- MODULE GovernedIngestion ---------------------------
(***************************************************************************)
(* Reindexing under review: the ingestion pipeline (app/ingestion/         *)
(* pipeline.py) reconciles the source files with the approved facts        *)
(* (app/approval.py) and replaces the vector index and the SQLite tables   *)
(* (KnowledgeDatabase.rebuild), while the requests of FactReview go on.    *)
(* One ingestion runs at a time; IngestionJobs is about its job.           *)
(*                                                                         *)
(* Definitions that start with Fault are deliberate errors, as in          *)
(* FactReview.                                                             *)
(***************************************************************************)
EXTENDS FactReview

CONSTANTS
  Catalog,  \* the document that lists the products
  Managed,  \* documents that come from staged uploads
  Stated,   \* what each version of the catalog states, by field
  Lists     \* the fields of the products that each version of it lists

Configured == Documents \ Managed   \* documents of the source directory

ASSUME SourcesAssumption ==
  /\ Managed \subseteq Documents
  /\ Catalog \in Configured
  /\ \A h \in Hashes : DOMAIN Stated[h] \subseteq Keys
  /\ \A h \in Hashes : \A k \in DOMAIN Stated[h] : Stated[h][k] \in Values
  /\ \A d \in Configured : Indexed[d] \in Hashes
  /\ \A h \in Hashes : DOMAIN Stated[h] \subseteq Lists[h]
  /\ \A k \in Keys : \E n \in Protected : \A h \in Hashes : k \in Lists[h] <=> n \in Lists[h]
  /\ Seed = Stated[Indexed[Catalog]]

VARIABLES
  file,      \* the version of each configured document on disk
  stage,     \* where the ingestion stands
  loaded,    \* the versions it has loaded
  snapshot,  \* the approved facts it has read, one per field
  retained,  \* the superseded facts and the managed sources it has read
  index      \* the changes whose fact has a point in the vector index

run == <<stage, loaded, snapshot, retained>>
allVars == <<vars, file, run, index>>

IngestionStages == {"idle", "read_facts", "verify_loaded", "rebuild_index",
                    "read_retained", "rebuild_tables", "verify"}
Nothing == [facts |-> {}, sources |-> {}]

GovernedInit ==
  /\ Init
  /\ file = [d \in Configured |-> Indexed[d]]
  /\ stage = "idle"
  /\ loaded = [d \in Configured |-> NoHash]
  /\ snapshot = {}
  /\ retained = Nothing
  /\ index = {}

-----------------------------------------------------------------------------
(* An operator edits a source file.                                         *)
EditSource(d, h) ==
  /\ DocumentOf[h] = d
  /\ file' = [file EXCEPT ![d] = h]
  /\ UNCHANGED <<vars, run, index>>

(* KnowledgeDatabase.register_managed_source, of a staged upload.           *)
RegisterManagedSource(d, h) ==
  /\ DocumentOf[h] = d
  /\ sha[d] = NoHash
  /\ sha' = [sha EXCEPT ![d] = h]
  /\ UNCHANGED <<tables, requests, file, run, index>>

Goto(here, there) == stage = here /\ stage' = there

LoadSources ==
  /\ Goto("idle", "read_facts")
  /\ loaded' = file
  /\ UNCHANGED <<vars, file, snapshot, retained, index>>

(* The approved facts, one for each field: with several the code keeps the  *)
(* one approved first, here any.                                            *)
Approved == {f \in Facts : fact[f] = "approved"}
OneOfEach(facts) ==
  {some \in SUBSET facts :
     /\ \A f \in facts : \E g \in some : g.key = f.key
     /\ \A f, g \in some : f.key = g.key => f = g}

ReadFacts ==
  /\ Goto("read_facts", "verify_loaded")
  /\ snapshot' \in OneOfEach(Approved)
  /\ UNCHANGED <<vars, file, loaded, retained, index>>

VerifyLoaded ==
  /\ Goto("verify_loaded", "rebuild_index")
  /\ loaded = file
  /\ UNCHANGED <<vars, file, loaded, snapshot, retained, index>>

(* A seed fact is searched through its product's chunk, not one of its own. *)
FaultPointForEveryFact(facts) == facts
Points(facts) == facts \cap Changes

RebuildIndex ==
  /\ Goto("rebuild_index", "read_retained")
  /\ index' = Points(snapshot)
  /\ UNCHANGED <<vars, file, loaded, snapshot, retained>>

-----------------------------------------------------------------------------
(* KnowledgeDatabase.rebuild: what it retains is read before its first      *)
(* DELETE opens the transaction that replaces everything.                   *)
FaultRetainNothing == {}
History == {f \in Facts : fact[f] = "superseded"}

FaultRetainNoSource == {}
ManagedSources == {<<d, sha[d]>> : d \in {m \in Managed : sha[m] # NoHash}}

ReadRetained ==
  /\ Goto("read_retained", "rebuild_tables")
  /\ retained' = [facts |-> History, sources |-> ManagedSources]
  /\ UNCHANGED <<vars, file, loaded, snapshot, index>>

(* reconcile_approved_facts: what the catalog states and no approved fact   *)
(* agrees with becomes a change to review.                                  *)
Holds(facts, k, v) == \E f \in facts : f.key = k /\ f.value = v

FaultKnownFieldsOnly(facts, h) ==
  {[key |-> k, value |-> Stated[h][k], sha |-> h] :
     k \in {n \in DOMAIN Stated[h] : /\ \E f \in facts : f.key = n
                                     /\ ~Holds(facts, n, Stated[h][n])}}
Drift(facts, h) ==
  {[key |-> k, value |-> Stated[h][k], sha |-> h] :
     k \in {n \in DOMAIN Stated[h] : ~Holds(facts, n, Stated[h][n])}}

(* The facts in force after the rebuild are the approved ones.              *)
FaultSourceWins(facts) == {f \in facts : f.key \notin DOMAIN Stated[loaded[Catalog]]}
                          \cup {[c EXCEPT !.sha = NoHash] : c \in Drift({}, loaded[Catalog])}
Effective(facts) == facts

RebuiltSource(d) ==
  IF d \in Configured THEN loaded[d]
  ELSE IF \E h \in Hashes : <<d, h>> \in retained.sources
  THEN CHOOSE h \in Hashes : <<d, h>> \in retained.sources
  ELSE NoHash

(* A fact refers to its source and to its product: the row of a product that *)
(* the catalog lists no more is not written, and a fact of it that is        *)
(* approved makes the transaction fail, after the index has been replaced.   *)
Referable(f) ==
  /\ f.sha = NoHash \/ RebuiltSource(DocumentOf[f.sha]) # NoHash
  /\ f.key \in Lists[loaded[Catalog]]

RebuildTables ==
  LET inForce == Effective(snapshot)
      history == {f \in retained.facts \ inForce : Referable(f)}
      new == {c \in Drift(snapshot, loaded[Catalog]) : Unknown(c)}
  IN /\ Goto("rebuild_tables", "verify")
     /\ inForce \subseteq {f \in Facts : Referable(f)}
     /\ fact' = [f \in Facts |-> IF f \in inForce THEN "approved"
                                 ELSE IF f \in history THEN "superseded" ELSE "none"]
     /\ master' = [k \in Keys |-> IF \E f \in inForce : f.key = k
                                  THEN (CHOOSE f \in inForce : f.key = k).value
                                  ELSE NoValue]
     /\ status' = [c \in Changes |-> IF c \in new THEN "pending" ELSE status[c]]
     /\ events' = [c \in Changes |-> IF c \in new
                                     THEN Append(events[c], <<"none", "pending">>)
                                     ELSE events[c]]
     /\ chunks' = ChunksOf(fact')
     /\ sha' = [d \in Documents |-> RebuiltSource(d)]
     /\ UNCHANGED <<requests, file, loaded, snapshot, retained, index>>

(* The pipeline returns, after the last check of the files, or raises: what *)
(* the index and the tables hold by then stays.                             *)
EndIngestion ==
  /\ stage # "idle"
  /\ stage' = "idle"
  /\ loaded' = [d \in Configured |-> NoHash]
  /\ snapshot' = {}
  /\ retained' = Nothing
  /\ UNCHANGED <<vars, file, index>>

-----------------------------------------------------------------------------
Ingest ==
  \/ LoadSources \/ ReadFacts \/ VerifyLoaded \/ RebuildIndex
  \/ ReadRetained \/ RebuildTables \/ EndIngestion

Review == Next /\ UNCHANGED <<file, run, index>>

GovernedNext ==
  \/ Review
  \/ \E d \in Configured, h \in Hashes : EditSource(d, h)
  \/ \E d \in Managed, h \in Hashes : RegisterManagedSource(d, h)
  \/ Ingest

GovernedSpec == GovernedInit /\ [][GovernedNext]_allVars

(* The same program when no review request is open from the moment an       *)
(* ingestion reads the approved facts to the moment it has replaced the     *)
(* tables, nor a source registered while it replaces them, and no two       *)
(* requests about one field overlap.  Nothing in the code enforces it.      *)
Replacing == stage \in {"verify_loaded", "rebuild_index", "read_retained", "rebuild_tables"}
QuietNext ==
  /\ GovernedNext
  /\ OneRequestPerField'
  /\ Replacing' => \A t \in Threads : pc'[t] = "idle"
  /\ stage = "rebuild_tables" /\ stage' = stage => sha' = sha

QuietSpec == GovernedInit /\ [][QuietNext]_allVars

-----------------------------------------------------------------------------
GovernedTypeOK ==
  /\ TypeOK
  /\ file \in [Configured -> Hashes]
  /\ stage \in IngestionStages
  /\ loaded \in [Configured -> Hashes \cup {NoHash}]
  /\ snapshot \in SUBSET Facts
  /\ retained \in [facts : SUBSET Facts, sources : SUBSET (Managed \X Hashes)]
  /\ index \in SUBSET Changes

(* Reindexing never decides: it leaves what is in force, and the product    *)
(* record, as the reviewers left them, whatever the source files say.       *)
ReindexKeepsAuthority ==
  [][stage = "rebuild_tables" => Approved' = Approved /\ master' = master]_allVars

(* History is final: neither a review nor a reindexing brings a superseded  *)
(* fact back or forgets it.                                                 *)
HistoryIsKept ==
  [][\A f \in Facts : fact[f] = "superseded" => fact'[f] = "superseded"]_allVars

(* A registered upload stays a governed source.                             *)
ManagedSourcesStay ==
  [][\A d \in Managed : sha[d] # NoHash => sha'[d] = sha[d]]_allVars

(* A fact comes into force only from the version of its source that is the  *)
(* indexed one at that moment, and never from a historical source.          *)
ApprovalsCiteIndexedVersion ==
  [][\A c \in Changes : fact[c] # "approved" /\ fact'[c] = "approved" =>
       sha[DocumentOf[c.sha]] = c.sha /\ DocumentOf[c.sha] \notin Historical]_allVars

(* After a reindexing whatever the indexed catalog states is in force or    *)
(* has been put to review.                                                  *)
DriftIsReviewed ==
  [][stage = "rebuild_tables" /\ stage' = "verify" =>
       \A k \in DOMAIN Stated[sha'[Catalog]] :
         LET c == [key |-> k, value |-> Stated[sha'[Catalog]][k], sha |-> sha'[Catalog]]
         IN Holds(Approved', k, c.value) \/ status'[c] # "none"]_allVars

(* A reindexing leaves the points of the index and the searchable evidence  *)
(* of the tables about the same facts.                                      *)
IndexMatchesEvidence ==
  [][stage = "rebuild_tables" /\ stage' = "verify" => index = chunks']_allVars

(* What the documentation says of any execution, which a review during a    *)
(* reindexing breaks (see README.md): an approved change is in force.       *)
ApprovedChangesAreInForce ==
  \A c \in Changes : status[c] = "approved" => fact[c] = "approved"
=============================================================================

---------------------------- MODULE StagedUploads ----------------------------
(* Uploads of an admin and the review items made of them                    *)
(* (app/knowledge_admin.py, app/ingestion/staging.py and the staged_sources *)
(* table of app/database/sqlite.py), beside the reviewers of FactReview.    *)
(*                                                                          *)
(* The upload endpoint is a coroutine that calls stage_source directly, so  *)
(* the single event loop stages one upload at a time.  Proposing the facts  *)
(* of a staged upload is a request of the thread pool: any number of them   *)
(* may run, also for the same upload, and each proposes the facts one by    *)
(* one, every one through the reads and the transaction of propose.         *)
EXTENDS FactReview

CONSTANTS
  Uploads,         \* the digests, among Hashes, of the files admins upload
  Content,         \* what an upload holds: kind, format, mapped, sensitive, rows
  NoKey,           \* a product or field the catalog does not know
  MaxFactUpdates,  \* rows of a fact update CSV (100 in the code)
  Newest,          \* staged rows the duplicate check looks at (500 in the code)
  MaxAttempts      \* bound on the uploads that get as far as an id

Kinds == {"csv", "text", "pdf", "xlsx"}
Updates == [key : Keys \cup {NoKey}, value : Values]

ASSUME UploadsAssumption ==
  /\ Uploads \subseteq Hashes
  /\ NoKey \notin Keys
  /\ Content \in [Uploads -> [kind : Kinds, format : BOOLEAN, mapped : BOOLEAN,
                              sensitive : BOOLEAN, rows : Seq(Updates)]]
  /\ \A h \in Uploads : Indexed[DocumentOf[h]] = NoHash
  /\ \A h, g \in Uploads : DocumentOf[h] = DocumentOf[g] => h = g
  /\ {MaxFactUpdates, Newest, MaxAttempts} \subseteq Nat

VARIABLES
  staged,   \* staged_sources in the order of created_at
  files,    \* the staging directory: the ids whose file is stored
  upload,   \* the upload being staged, after its file is stored
  attempt,  \* how many uploads have been given an id
  run       \* per thread: the staged row whose facts it proposes, and the next one

uploads == <<staged, files, upload, attempt>>
allVars == <<vars, uploads, run>>

Verdicts == {"blocked", "validated", "unsupported_mapping"}
NoUpload == [id |-> 0, digest |-> NoHash, status |-> "blocked"]
NoRun == [row |-> 0, next |-> 0]

UploadsInit ==
  /\ Init
  /\ staged = <<>>
  /\ files = {}
  /\ upload = NoUpload
  /\ attempt = 0
  /\ run = [t \in Threads |-> NoRun]

-----------------------------------------------------------------------------
(* parse_staged_source: a file of a wrong format or beyond the limits of its *)
(* kind is refused; only a CSV with the three columns states facts; a file   *)
(* with a sensitive finding keeps neither its preview nor its facts.         *)
ParseCsv(c) ==
  IF ~c.mapped THEN <<>> ELSE c.rows

Readable(h) ==
  /\ Content[h].format
  /\ Content[h].kind = "csv" => Len(ParseCsv(Content[h])) <= MaxFactUpdates

FactUpdates(h) ==
  IF Content[h].sensitive \/ Content[h].kind # "csv" THEN <<>>
  ELSE ParseCsv(Content[h])

Verdict(h) ==
  CASE Content[h].sensitive -> "blocked"
    [] ~Content[h].sensitive /\ FactUpdates(h) # <<>> -> "validated"
    [] OTHER -> "unsupported_mapping"

(* list_staged_sources: the newest rows only.                                *)
FaultOldestRows == {i \in DOMAIN staged : i <= Newest}
NewestRows == {i \in DOMAIN staged : i + Newest > Len(staged)}

Duplicate(h) == \E i \in NewestRows : staged[i].digest = h

(* A file with a finding is recorded but its content is not stored.          *)
FaultStoreAll(u) == files \cup {u.id}
Stored(u) == IF u.status = "blocked" THEN files ELSE files \cup {u.id}

(* stage_source up to the file: check for a duplicate, parse, store.         *)
StageSource(h) ==
  LET new == [id |-> attempt + 1, digest |-> h, status |-> Verdict(h)]
  IN /\ upload = NoUpload
     /\ attempt < MaxAttempts
     /\ ~Duplicate(h)
     /\ Readable(h)
     /\ attempt' = attempt + 1
     /\ files' = Stored(new)
     /\ upload' = new
     /\ UNCHANGED <<vars, staged, run>>

InsertStagedSource ==
  /\ upload # NoUpload
  /\ staged' = Append(staged, upload)
  /\ upload' = NoUpload
  /\ UNCHANGED <<vars, files, attempt, run>>

(* The insert raises or the process crashes: the file stays without a row.   *)
UploadFails ==
  /\ upload # NoUpload
  /\ upload' = NoUpload
  /\ UNCHANGED <<vars, staged, files, attempt, run>>

-----------------------------------------------------------------------------
RowUpdates(i) == FactUpdates(staged[i].digest)
Busy(t) == run[t] # NoRun

FaultFromZero(i) == [row |-> i, next |-> 0]
Started(i) == [row |-> i, next |-> 1]

(* propose_staged_facts: read the row, and register the upload as a governed *)
(* source unless it is one (INSERT OR IGNORE under an id of the row).        *)
BeginProposeStaged(t, i) ==
  /\ pc[t] = "idle" /\ ~Busy(t)
  /\ staged[i].status = "validated"
  /\ RowUpdates(i) # <<>>
  /\ sha' = [sha EXCEPT ![DocumentOf[staged[i].digest]] = staged[i].digest]
  /\ run' = [run EXCEPT ![t] = Started(i)]
  /\ UNCHANGED <<tables, requests, uploads>>

FaultLastForgotten(t) == run[t].next < Len(RowUpdates(run[t].row))
Outstanding(t) == run[t].next <= Len(RowUpdates(run[t].row))

(* One call of propose; an unknown product or field makes it raise.          *)
ProposeNext(t) ==
  LET i == run[t].row
      u == RowUpdates(i)[run[t].next]
  IN /\ Busy(t)
     /\ Outstanding(t)
     /\ u.key \in Keys
     /\ BeginPropose(t, [key |-> u.key, value |-> u.value,
                         document |-> DocumentOf[staged[i].digest]])
     /\ run' = [run EXCEPT ![t].next = @ + 1]
     /\ UNCHANGED uploads

ProposeStep(t) ==
  /\ Busy(t)
  /\ CheckCurrent(t) \/ InsertChange(t)
  /\ UNCHANGED <<uploads, run>>

(* mark_staged_source_proposed, when every fact has been proposed.           *)
MarkProposed(t) ==
  LET i == run[t].row
  IN /\ Busy(t)
     /\ pc[t] = "idle"
     /\ ~Outstanding(t)
     /\ staged' = IF staged[i].status = "validated"
                  THEN [staged EXCEPT ![i].status = "review_items_created"]
                  ELSE staged
     /\ run' = [run EXCEPT ![t] = NoRun]
     /\ UNCHANGED <<vars, files, upload, attempt>>

(* A refused fact, an error or a crash ends the run: what was proposed stays *)
(* proposed, the row stays validated and the admin may try again.            *)
ProposingFails(t) ==
  /\ Busy(t)
  /\ run' = [run EXCEPT ![t] = NoRun]
  /\ IF pc[t] = "idle" THEN UNCHANGED vars ELSE Abandon(t)
  /\ UNCHANGED uploads

Review(t) ==
  /\ ~Busy(t)
  /\ Serve(t)
  /\ UNCHANGED <<uploads, run>>

ProposeStaged(t) ==
  \/ \E i \in DOMAIN staged : BeginProposeStaged(t, i)
  \/ ProposeNext(t)
  \/ ProposeStep(t)
  \/ MarkProposed(t)
  \/ ProposingFails(t)

UploadsNext ==
  \/ \E h \in Uploads : StageSource(h)
  \/ InsertStagedSource
  \/ UploadFails
  \/ \E t \in Threads : ProposeStaged(t) \/ Review(t)

UploadsSpec == UploadsInit /\ [][UploadsNext]_allVars

-----------------------------------------------------------------------------
StagedRows ==
  [id : 1..MaxAttempts, digest : Uploads, status : Verdicts \cup {"review_items_created"}]

(* Rows, files and runs are what their tables and loops allow.               *)
UploadsTypeOK ==
  /\ staged \in Seq(StagedRows)
  /\ files \in SUBSET (1..MaxAttempts)
  /\ upload \in [id : 1..MaxAttempts, digest : Uploads, status : Verdicts] \cup {NoUpload}
  /\ attempt \in 0..MaxAttempts
  /\ run \in [Threads -> [row : Nat, next : Nat]]
  /\ \A t \in Threads : Busy(t) =>
       /\ run[t].row \in DOMAIN staged
       /\ run[t].next \in 1..(Len(RowUpdates(run[t].row)) + 1)

(* the same content is staged again only once Newest other uploads have been *)
(* staged since: the duplicate check and the insert it guards are apart, and *)
(* the check sees the newest rows only (stage_source, list_staged_sources).  *)
DuplicatesAreFarApart ==
  \A i, j \in DOMAIN staged :
    i < j /\ staged[i].digest = staged[j].digest => j - i > Newest

(* the content of every staged row is on disk unless a finding blocked it,   *)
(* and that of a blocked row is not, whichever step of an upload fails or    *)
(* crashes; of a file without a row it says nothing (stage_source).          *)
StoredFilesMatch ==
  \A i \in DOMAIN staged : staged[i].status # "blocked" <=> staged[i].id \in files

(* an upload is reported as proposed only when every fact it states has a    *)
(* review item that cites it, although the facts are proposed one by one,    *)
(* runs for one upload overlap, reviewers decide meanwhile and any run may   *)
(* stop midway and be tried again (propose_staged_facts).                    *)
ItemOf(i, u) == [key |-> u.key, value |-> u.value, sha |-> staged[i].digest]
ProposedIsComplete ==
  \A i \in DOMAIN staged : staged[i].status = "review_items_created" =>
    \A n \in DOMAIN RowUpdates(i) :
      /\ RowUpdates(i)[n].key \in Keys
      /\ status[ItemOf(i, RowUpdates(i)[n])] # "none"
=============================================================================

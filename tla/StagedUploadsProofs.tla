-------------------------- MODULE StagedUploadsProofs --------------------------
(***************************************************************************)
(* Theorems about StagedUploads for every set of uploads, threads and      *)
(* limits: the duplicate check, the stored files, and the completeness of  *)
(* what an upload is reported to have proposed.                            *)
(***************************************************************************)
EXTENDS StagedUploads, FactReviewProofs

(* What an upload states is a list of fact updates.                         *)
LEMMA UpdatesTypes ==
  ASSUME NEW h \in Uploads
  PROVE  FactUpdates(h) \in Seq(Updates)
BY UploadsAssumption DEF FactUpdates, ParseCsv

(* The verdict on an upload is one of the three the parser gives.           *)
LEMMA VerdictTypes == ASSUME NEW h PROVE Verdict(h) \in Verdicts
BY DEF Verdict, Verdicts

(* The rows, the files and the upload being staged.                         *)
StagingOK ==
  /\ staged \in Seq(StagedRows)
  /\ files \in SUBSET (1..MaxAttempts)
  /\ upload \in [id : 1..MaxAttempts, digest : Uploads, status : Verdicts] \cup {NoUpload}
  /\ attempt \in 0..MaxAttempts

(* The runs that propose the facts of a row.                                *)
RunsOK ==
  /\ run \in [Threads -> [row : Nat, next : Nat]]
  /\ \A t \in Threads : Busy(t) =>
       /\ run[t].row \in DOMAIN staged
       /\ run[t].next \in 1..(Len(RowUpdates(run[t].row)) + 1)

(* UploadsTypeOK is the types of the staging and those of the runs.         *)
LEMMA UploadsParts == UploadsTypeOK <=> StagingOK /\ RunsOK
BY DEF UploadsTypeOK, StagingOK, RunsOK

(* Rows are only added, and keep the content they were staged with.         *)
RowsKept ==
  /\ Len(staged') >= Len(staged)
  /\ \A i \in DOMAIN staged : staged'[i].digest = staged[i].digest

(* Runs that stand still go on with the same facts of the same rows.        *)
LEMMA RunsKept ==
  ASSUME UploadsTypeOK, StagingOK', RowsKept, UNCHANGED run
  PROVE  RunsOK'
<1> SUFFICES ASSUME NEW t \in Threads, Busy(t)
             PROVE  /\ run[t].row \in DOMAIN staged'
                    /\ RowUpdates(run[t].row)' = RowUpdates(run[t].row)
  BY DEF UploadsTypeOK, RunsOK, Busy
<1>1. run[t].row \in DOMAIN staged
  BY DEF UploadsTypeOK
<1>2. staged \in Seq(StagedRows) /\ staged' \in Seq(StagedRows)
  BY DEF UploadsTypeOK, StagingOK
<1>3. DOMAIN staged = 1..Len(staged) /\ DOMAIN staged' = 1..Len(staged')
  BY <1>2
<1> QED BY <1>1, <1>2, <1>3 DEF RowsKept, RowUpdates, FactUpdates, ParseCsv

(* One more row.                                                            *)
LEMMA RowAdded ==
  ASSUME StagingOK, upload # NoUpload, staged' = Append(staged, upload)
  PROVE  /\ staged' \in Seq(StagedRows)
         /\ Len(staged') = Len(staged) + 1
         /\ Len(staged) \in Nat
         /\ DOMAIN staged = 1..Len(staged)
         /\ DOMAIN staged' = 1..(Len(staged) + 1)
         /\ \A i \in DOMAIN staged : staged'[i] = staged[i]
         /\ staged'[Len(staged) + 1] = upload
<1>1. staged \in Seq(StagedRows) /\ upload \in StagedRows
  BY DEF StagingOK, StagedRows
<1> QED BY <1>1

(* A row that is marked as proposed keeps its id and its content.           *)
LEMMA RowMarked ==
  ASSUME UploadsTypeOK, NEW t \in Threads, MarkProposed(t)
  PROVE  /\ staged' \in Seq(StagedRows)
         /\ Len(staged') = Len(staged)
         /\ DOMAIN staged' = DOMAIN staged
         /\ \A i \in DOMAIN staged :
              /\ staged'[i].id = staged[i].id /\ staged'[i].digest = staged[i].digest
              /\ staged'[i].status = IF i = run[t].row /\ staged[i].status = "validated"
                                     THEN "review_items_created" ELSE staged[i].status
<1> DEFINE k == run[t].row
<1>1. staged \in Seq(StagedRows) /\ k \in DOMAIN staged
  BY DEF UploadsTypeOK, MarkProposed
<1>2. CASE staged[k].status = "validated"
  <2>1. staged[k] \in StagedRows
    BY <1>1
  <2>2. [staged[k] EXCEPT !.status = "review_items_created"] \in StagedRows
    BY <2>1 DEF StagedRows
  <2>3. staged' = [staged EXCEPT ![k] = [staged[k] EXCEPT !.status = "review_items_created"]]
    BY <1>2 DEF MarkProposed
  <2>4. staged' \in Seq(StagedRows) /\ Len(staged') = Len(staged)
        /\ DOMAIN staged' = DOMAIN staged
    BY <1>1, <2>2, <2>3
  <2>5. \A i \in DOMAIN staged : staged[i] \in StagedRows
    BY <1>1
  <2> QED BY <1>1, <1>2, <2>3, <2>4, <2>5 DEF StagedRows
<1>3. CASE staged[k].status # "validated"
  BY <1>1, <1>3 DEF MarkProposed
<1> QED BY <1>2, <1>3

(* The steps of staging and of proposing keep the types.                    *)
LEMMA UploadsTypeNext == UploadsTypeOK /\ [UploadsNext]_allVars => UploadsTypeOK'
<1> SUFFICES ASSUME UploadsTypeOK, [UploadsNext]_allVars PROVE UploadsTypeOK'
  OBVIOUS
<1> SUFFICES StagingOK' /\ RunsOK'
  BY DEF UploadsTypeOK, StagingOK, RunsOK
<1>1. StagingOK /\ RunsOK
  BY UploadsParts
<1>2. ASSUME UNCHANGED uploads PROVE StagingOK'
  BY <1>1, <1>2 DEF StagingOK, uploads
<1>3. ASSUME UNCHANGED <<uploads, run>> PROVE RunsOK'
  BY <1>1, <1>3 DEF RunsOK, uploads, Busy, RowUpdates
<1>4. ASSUME NEW h \in Uploads, StageSource(h) PROVE StagingOK' /\ RunsOK'
  <2>1. StagingOK'
    <3>1. attempt + 1 \in 1..MaxAttempts /\ attempt' \in 0..MaxAttempts
      BY <1>1, <1>4, UploadsAssumption DEF StagingOK, StageSource
    <3>2. upload' \in [id : 1..MaxAttempts, digest : Uploads, status : Verdicts]
      BY <1>4, <3>1, VerdictTypes DEF StageSource
    <3>3. files' \in SUBSET (1..MaxAttempts)
      BY <1>1, <1>4, <3>1 DEF StageSource, Stored, StagingOK
    <3> QED BY <1>1, <1>4, <3>1, <3>2, <3>3 DEF StageSource, StagingOK
  <2>2. RowsKept
    BY <1>1, <1>4 DEF StageSource, RowsKept, StagingOK
  <2> QED BY <1>4, <2>1, <2>2, RunsKept DEF StageSource
<1>5. CASE InsertStagedSource
  <2>1. StagingOK'
    BY <1>1, <1>5, RowAdded DEF InsertStagedSource, StagingOK
  <2>2. RowsKept
    BY <1>1, <1>5, RowAdded DEF InsertStagedSource, RowsKept
  <2> QED BY <1>5, <2>1, <2>2, RunsKept DEF InsertStagedSource
<1>6. CASE UploadFails
  <2>1. StagingOK'
    BY <1>1, <1>6 DEF UploadFails, StagingOK
  <2>2. RowsKept
    BY <1>1, <1>6 DEF UploadFails, RowsKept, StagingOK
  <2> QED BY <1>6, <2>1, <2>2, RunsKept DEF UploadFails
<1>7. ASSUME NEW t \in Threads, NEW i \in DOMAIN staged, BeginProposeStaged(t, i)
      PROVE  StagingOK' /\ RunsOK'
  <2>1. RowUpdates(i) \in Seq(Updates) /\ i \in Nat
    <3>1. staged[i] \in StagedRows /\ i \in Nat
      BY <1>1 DEF StagingOK
    <3> QED BY <3>1, UpdatesTypes DEF StagedRows, RowUpdates
  <2>2. \A j : RowUpdates(j)' = RowUpdates(j)
    BY <1>7 DEF BeginProposeStaged, uploads, RowUpdates
  <2>3. RunsOK'
    BY <1>1, <1>7, <2>1, <2>2 DEF RunsOK, BeginProposeStaged, Started, Busy, uploads
  <2> QED BY <1>2, <1>7, <2>3 DEF BeginProposeStaged
<1>8. ASSUME NEW t \in Threads, ProposeNext(t) PROVE StagingOK' /\ RunsOK'
  <2>1. RowUpdates(run[t].row) \in Seq(Updates)
    <3>1. staged[run[t].row] \in StagedRows
      BY <1>1, <1>8 DEF StagingOK, RunsOK, ProposeNext
    <3> QED BY <3>1, UpdatesTypes DEF StagedRows, RowUpdates
  <2>2. \A j : RowUpdates(j)' = RowUpdates(j)
    BY <1>8 DEF ProposeNext, uploads, RowUpdates
  <2>3. RunsOK'
    BY <1>1, <1>8, <2>1, <2>2 DEF RunsOK, ProposeNext, Outstanding, Busy, uploads
  <2> QED BY <1>2, <1>8, <2>3 DEF ProposeNext
<1>9. ASSUME NEW t \in Threads, ProposeStep(t) \/ Review(t) PROVE StagingOK' /\ RunsOK'
  BY <1>2, <1>3, <1>9 DEF ProposeStep, Review
<1>10. ASSUME NEW t \in Threads, MarkProposed(t) PROVE StagingOK' /\ RunsOK'
  <2>1. StagingOK'
    BY <1>1, <1>10, RowMarked DEF MarkProposed, StagingOK
  <2>2. \A j \in DOMAIN staged : RowUpdates(j)' = RowUpdates(j)
    BY <1>10, RowMarked DEF RowUpdates
  <2>3. RunsOK'
    BY <1>1, <1>10, <2>2, RowMarked DEF RunsOK, MarkProposed, Busy, NoRun
  <2> QED BY <2>1, <2>3
<1>11. ASSUME NEW t \in Threads, ProposingFails(t) PROVE StagingOK' /\ RunsOK'
  <2>1. \A j : RowUpdates(j)' = RowUpdates(j)
    BY <1>11 DEF ProposingFails, uploads, RowUpdates
  <2>2. RunsOK'
    BY <1>1, <1>11, <2>1 DEF RunsOK, ProposingFails, Busy, NoRun, uploads
  <2> QED BY <1>2, <1>11, <2>2 DEF ProposingFails
<1>12. CASE UNCHANGED allVars
  BY <1>2, <1>3, <1>12 DEF allVars
<1> QED BY <1>4, <1>5, <1>6, <1>7, <1>8, <1>9, <1>10, <1>11, <1>12
        DEF UploadsNext, ProposeStaged

(* The types hold at first.                                                 *)
LEMMA UploadsTypeInit == UploadsInit => UploadsTypeOK
BY UploadsAssumption DEF UploadsInit, UploadsTypeOK, NoRun, Busy

(* Rows, files and runs keep their types, however uploads, runs, failures   *)
(* and reviews interleave.                                                  *)
THEOREM UploadsTypeCorrect == UploadsSpec => []UploadsTypeOK
BY UploadsTypeInit, UploadsTypeNext, PTL DEF UploadsSpec

-----------------------------------------------------------------------------
(***************************************************************************)
(* The staged rows and their files.  FilesInv follows the file of an       *)
(* upload from its write to the row that names it; ApartInv remembers what *)
(* the duplicate check of the upload under way has seen.                   *)
(***************************************************************************)
FilesInv ==
  /\ \A i \in DOMAIN staged : staged[i].id <= attempt
  /\ \A n \in files : n <= attempt
  /\ upload # NoUpload => /\ upload.id <= attempt
                          /\ upload.status # "blocked" <=> upload.id \in files
  /\ StoredFilesMatch

ApartInv ==
  /\ upload # NoUpload =>
       \A i \in DOMAIN staged :
         staged[i].digest = upload.digest => Len(staged) + 1 - i > Newest
  /\ DuplicatesAreFarApart

StagingInv == UploadsTypeOK /\ FilesInv /\ ApartInv

(* What the duplicate check sees keeps a second row of the same content     *)
(* more than Newest rows away (list_staged_sources, stage_source).          *)
LEMMA DuplicateCheck ==
  ASSUME UploadsTypeOK, NEW h \in Uploads, ~Duplicate(h)
  PROVE  \A i \in DOMAIN staged : staged[i].digest = h => Len(staged) + 1 - i > Newest
<1>1. Len(staged) \in Nat /\ Newest \in Nat /\ DOMAIN staged = 1..Len(staged)
  BY UploadsAssumption DEF UploadsTypeOK
<1>2. \A i \in DOMAIN staged : i + Newest > Len(staged) => staged[i].digest # h
  BY DEF Duplicate, NewestRows
<1> QED BY <1>1, <1>2

(* Every step keeps the staged rows and their files together, and apart     *)
(* from each other.                                                         *)
LEMMA StagingNext == StagingInv /\ [UploadsNext]_allVars => StagingInv'
<1> SUFFICES ASSUME StagingInv, [UploadsNext]_allVars PROVE StagingInv'
  OBVIOUS
<1>1. UploadsTypeOK /\ StagingOK /\ UploadsTypeOK' /\ FilesInv /\ ApartInv
  BY UploadsTypeNext, UploadsParts DEF StagingInv
<1> SUFFICES FilesInv' /\ ApartInv'
  BY <1>1 DEF StagingInv
<1>2. attempt \in Nat /\ Len(staged) \in Nat /\ Newest \in Nat
      /\ DOMAIN staged = 1..Len(staged)
      /\ \A i \in DOMAIN staged : staged[i] \in StagedRows
  BY <1>1, UploadsAssumption DEF StagingOK
<1>3. CASE UNCHANGED uploads
  BY <1>1, <1>3 DEF FilesInv, ApartInv, StoredFilesMatch, DuplicatesAreFarApart, uploads
<1>4. ASSUME NEW h \in Uploads, StageSource(h) PROVE FilesInv' /\ ApartInv'
  <2>1. /\ staged' = staged /\ attempt' = attempt + 1
        /\ upload' # NoUpload /\ upload'.id = attempt + 1 /\ upload'.digest = h
        /\ files' = IF upload'.status = "blocked" THEN files ELSE files \cup {attempt + 1}
    BY <1>2, <1>4 DEF StageSource, NoUpload, Stored
  <2>2. attempt + 1 \notin files /\ \A i \in DOMAIN staged : staged[i].id # attempt + 1
    BY <1>1, <1>2 DEF FilesInv, StagedRows
  <2>3. \A i \in DOMAIN staged : staged[i].id \in files' <=> staged[i].id \in files
    BY <2>1, <2>2
  <2>4. StoredFilesMatch'
    BY <1>1, <2>1, <2>3 DEF FilesInv, StoredFilesMatch
  <2>5. FilesInv'
    BY <1>1, <1>2, <2>1, <2>2, <2>4 DEF FilesInv, StagedRows, StagingOK
  <2>6. ApartInv'
    BY <1>1, <1>4, <2>1, DuplicateCheck DEF ApartInv, DuplicatesAreFarApart, StageSource
  <2> QED BY <2>5, <2>6
<1>5. CASE InsertStagedSource
  <2>1. /\ upload # NoUpload /\ staged' = Append(staged, upload)
        /\ upload' = NoUpload /\ files' = files /\ attempt' = attempt
    BY <1>5 DEF InsertStagedSource
  <2>2. /\ Len(staged') = Len(staged) + 1 /\ DOMAIN staged' = 1..(Len(staged) + 1)
        /\ \A i \in DOMAIN staged : staged'[i] = staged[i]
        /\ staged'[Len(staged) + 1] = upload
    BY <1>1, <2>1, RowAdded
  <2>3. FilesInv'
    BY <1>1, <1>2, <2>1, <2>2 DEF FilesInv, StoredFilesMatch
  <2>4. ApartInv'
    <3> SUFFICES ASSUME NEW i \in 1..(Len(staged) + 1), NEW j \in 1..(Len(staged) + 1),
                        i < j, staged'[i].digest = staged'[j].digest
                 PROVE  j - i > Newest
      BY <2>1, <2>2 DEF ApartInv, DuplicatesAreFarApart
    <3>1. i \in DOMAIN staged
      BY <1>2
    <3>2. CASE j \in DOMAIN staged
      BY <1>1, <2>2, <3>1, <3>2 DEF ApartInv, DuplicatesAreFarApart
    <3>3. CASE j = Len(staged) + 1
      BY <1>1, <2>1, <2>2, <3>1, <3>3 DEF ApartInv
    <3> QED BY <1>2, <3>2, <3>3
  <2> QED BY <2>3, <2>4
<1>6. CASE UploadFails
  BY <1>1, <1>6 DEF UploadFails, FilesInv, ApartInv, StoredFilesMatch, DuplicatesAreFarApart
<1>7. ASSUME NEW t \in Threads, MarkProposed(t) PROVE FilesInv' /\ ApartInv'
  <2>1. UNCHANGED <<files, upload, attempt>>
    BY <1>7 DEF MarkProposed
  <2> QED BY <1>1, <1>7, <2>1, RowMarked
          DEF FilesInv, ApartInv, StoredFilesMatch, DuplicatesAreFarApart
<1> QED BY <1>3, <1>4, <1>5, <1>6, <1>7
        DEF UploadsNext, ProposeStaged, BeginProposeStaged, ProposeNext, ProposeStep,
            ProposingFails, Review, allVars

(* StagingInv holds in every execution.                                     *)
LEMMA StagingInvariant == UploadsSpec => []StagingInv
<1>1. UploadsInit => StagingInv
  BY UploadsTypeInit DEF UploadsInit, StagingInv, FilesInv, ApartInv, StoredFilesMatch,
                         DuplicatesAreFarApart
<1> QED BY <1>1, StagingNext, PTL DEF UploadsSpec

(* A second row of the same content comes only after Newest other rows      *)
(* (KnowledgeAdminService.stage_source).                                    *)
THEOREM DuplicatesApart == UploadsSpec => []DuplicatesAreFarApart
<1>1. StagingInv => DuplicatesAreFarApart
  BY DEF StagingInv, ApartInv
<1> QED BY <1>1, StagingInvariant, PTL

(* The content of a row is on disk unless it was blocked, whichever step    *)
(* of an upload fails (store_staged_source, create_staged_source).          *)
THEOREM FilesMatch == UploadsSpec => []StoredFilesMatch
<1>1. StagingInv => StoredFilesMatch
  BY DEF StagingInv, FilesInv
<1> QED BY <1>1, StagingInvariant, PTL

-----------------------------------------------------------------------------
(***************************************************************************)
(* What a run has proposed.  RunInv: the facts before the next one have a  *)
(* review item, except that the last of them may still be on its way       *)
(* through propose; and the source they cite is the one of their row.      *)
(***************************************************************************)
FactItem(h, n) ==
  [key |-> FactUpdates(h)[n].key, value |-> FactUpdates(h)[n].value, sha |-> h]

HasItem(h, n) == FactUpdates(h)[n].key \in Keys /\ status[FactItem(h, n)] # "none"

UnderWay(t, h, n) ==
  /\ pc[t] # "idle" /\ n = run[t].next - 1
  /\ FactUpdates(h)[n].key \in Keys
  /\ target[t] = FactItem(h, n)

Proposes(t, h) == Busy(t) /\ staged[run[t].row].digest = h

RunInv ==
  \A t \in Threads, h \in Uploads : Proposes(t, h) =>
    /\ sha[DocumentOf[h]] = h
    /\ \A n \in 1..(run[t].next - 1) : HasItem(h, n) \/ UnderWay(t, h, n)

CompleteInv ==
  \A i \in DOMAIN staged : staged[i].status = "review_items_created" =>
    \A n \in DOMAIN FactUpdates(staged[i].digest) : HasItem(staged[i].digest, n)

ProposeInv == UploadsTypeOK /\ TypeOK /\ RunInv /\ CompleteInv

(* What a step of thread t leaves alone.                                    *)
Onward(t) ==
  /\ sha' = sha
  /\ \A c \in Changes : status[c] # "none" => status'[c] # "none"
  /\ \A u \in Threads \ {t} : pc'[u] = pc[u] /\ target'[u] = target[u]

(* No review takes a change back, and none touches another thread's request *)
(* or the version of a source.                                              *)
LEMMA ServeGoesOnward ==
  ASSUME TypeOK, NEW t \in Threads, Serve(t)
  PROVE  Onward(t)
<1>1. ASSUME NEW p \in Proposals, BeginPropose(t, p) PROVE Onward(t)
  BY <1>1 DEF TypeOK, BeginPropose, Begin, Onward, tables
<1>2. ASSUME NEW c \in Changes, BeginApprove(t, c) \/ BeginReject(t, c) \/ BeginSupersede(t, c)
      PROVE  Onward(t)
  BY <1>2 DEF TypeOK, BeginApprove, BeginReject, BeginSupersede, Begin, Onward, tables
<1>3. CASE CheckCurrent(t) \/ ReadSource(t) \/ ReadPrevious(t)
  BY <1>3 DEF TypeOK, CheckCurrent, ReadSource, ReadPrevious, Advance, Onward, tables
<1>4. CASE InsertChange(t)
  BY <1>4 DEF TypeOK, InsertChange, Return, Onward
<1>5. CASE ApproveFact(t)
  BY <1>5 DEF TypeOK, ApproveFact, Return, Onward
<1>6. CASE RejectChange(t)
  BY <1>6 DEF TypeOK, RejectChange, Return, Onward
<1>7. CASE SupersedeFact(t)
  BY <1>7 DEF TypeOK, SupersedeFact, Return, Onward
<1>8. CASE Abandon(t)
  BY <1>8 DEF TypeOK, Abandon, Return, Onward, tables
<1> QED BY <1>1, <1>2, <1>3, <1>4, <1>5, <1>6, <1>7, <1>8 DEF Serve

(* The item of each stated fact with a known key is a change.               *)
LEMMA ItemTypes ==
  ASSUME NEW h \in Uploads, NEW n \in DOMAIN FactUpdates(h), FactUpdates(h)[n].key \in Keys
  PROVE  FactItem(h, n) \in Changes
<1>1. FactUpdates(h)[n] \in Updates
  BY UpdatesTypes
<1>2. FactUpdates(h)[n].value \in Values
  BY <1>1 DEF Updates
<1> QED BY <1>2, UploadsAssumption DEF FactItem, Changes

(* The run of a thread is about a row of an upload, and about its facts.    *)
LEMMA RunTypes ==
  ASSUME UploadsTypeOK, NEW t \in Threads, Busy(t)
  PROVE  /\ run[t].row \in DOMAIN staged
         /\ staged[run[t].row] \in StagedRows
         /\ staged[run[t].row].digest \in Uploads
         /\ run[t].next \in Nat /\ run[t].next >= 1
         /\ LET facts == FactUpdates(staged[run[t].row].digest)
            IN /\ run[t].next <= Len(facts) + 1
               /\ Len(facts) \in Nat
               /\ DOMAIN facts = 1..Len(facts)
<1>1. run[t].row \in DOMAIN staged /\ staged[run[t].row] \in StagedRows
  BY DEF UploadsTypeOK
<1>2. staged[run[t].row].digest \in Uploads
  BY <1>1 DEF StagedRows
<1>3. FactUpdates(staged[run[t].row].digest) \in Seq(Updates)
  BY <1>2, UpdatesTypes
<1> QED BY <1>1, <1>2, <1>3 DEF UploadsTypeOK, RowUpdates

(* A row is of an upload.                                                   *)
LEMMA RowDigest ==
  ASSUME UploadsTypeOK, NEW i \in DOMAIN staged
  PROVE  staged[i].digest \in Uploads
<1>1. staged[i] \in StagedRows
  BY DEF UploadsTypeOK
<1> QED BY <1>1 DEF StagedRows

(* An item stays an item.                                                   *)
LEMMA ItemsStay ==
  ASSUME \A c \in Changes : status[c] # "none" => status'[c] # "none",
         NEW h \in Uploads, NEW n \in DOMAIN FactUpdates(h), HasItem(h, n)
  PROVE  HasItem(h, n)'
BY ItemTypes DEF HasItem

(* The facts before the next one stay proposed, whoever else steps.         *)
LEMMA RunGoesOn ==
  ASSUME ProposeInv, NEW t \in Threads, NEW h \in Uploads, Proposes(t, h),
         \A c \in Changes : status[c] # "none" => status'[c] # "none",
         run'[t] = run[t], pc'[t] = pc[t], target'[t] = target[t]
  PROVE  \A n \in 1..(run'[t].next - 1) : HasItem(h, n)' \/ UnderWay(t, h, n)'
<1> SUFFICES ASSUME NEW n \in 1..(run[t].next - 1)
             PROVE  HasItem(h, n)' \/ UnderWay(t, h, n)'
  OBVIOUS
<1>1. n \in DOMAIN FactUpdates(h)
  BY RunTypes DEF ProposeInv, Proposes
<1>2. CASE HasItem(h, n)
  BY <1>1, <1>2, ItemsStay
<1>3. CASE UnderWay(t, h, n)
  BY <1>3 DEF UnderWay
<1> QED BY <1>2, <1>3 DEF ProposeInv, RunInv

(* Reported rows stay complete when no row is newly reported.               *)
LEMMA CompleteStays ==
  ASSUME ProposeInv,
         \A c \in Changes : status[c] # "none" => status'[c] # "none",
         \A i \in DOMAIN staged' : staged'[i].status = "review_items_created" =>
           /\ i \in DOMAIN staged /\ staged[i].status = "review_items_created"
           /\ staged'[i].digest = staged[i].digest
  PROVE  CompleteInv'
<1> SUFFICES ASSUME NEW i \in DOMAIN staged, staged[i].status = "review_items_created",
                    staged'[i].digest = staged[i].digest,
                    NEW n \in DOMAIN FactUpdates(staged[i].digest)
             PROVE  /\ FactUpdates(staged[i].digest)[n].key \in Keys
                    /\ status'[FactItem(staged[i].digest, n)] # "none"
  BY DEF CompleteInv, HasItem
<1>1. PICK h \in Uploads : h = staged[i].digest
  BY RowDigest DEF ProposeInv
<1>2. HasItem(h, n) /\ n \in DOMAIN FactUpdates(h)
  BY <1>1 DEF ProposeInv, CompleteInv
<1>3. HasItem(h, n)'
  BY <1>2, ItemsStay
<1> QED BY <1>1, <1>2, <1>3 DEF HasItem

(* A step of one thread keeps the runs of the others.                       *)
LEMMA OtherRuns ==
  ASSUME ProposeInv, UNCHANGED sha, NEW t \in Threads,
         \A i \in DOMAIN staged : staged'[i].digest = staged[i].digest,
         \A c \in Changes : status[c] # "none" => status'[c] # "none",
         \A u \in Threads \ {t} :
           pc'[u] = pc[u] /\ target'[u] = target[u] /\ run'[u] = run[u],
         \A h \in Uploads : Proposes(t, h)' =>
           /\ sha'[DocumentOf[h]] = h
           /\ \A n \in 1..(run'[t].next - 1) : HasItem(h, n)' \/ UnderWay(t, h, n)'
  PROVE  RunInv'
<1> SUFFICES ASSUME NEW u \in Threads \ {t}, NEW h \in Uploads, Proposes(u, h)'
             PROVE  /\ sha'[DocumentOf[h]] = h
                    /\ \A n \in 1..(run'[u].next - 1) : HasItem(h, n)' \/ UnderWay(u, h, n)'
  BY DEF RunInv
<1>1. Busy(u)
  BY DEF Proposes, Busy
<1>2. Proposes(u, h)
  BY <1>1, RunTypes DEF Proposes, ProposeInv
<1>3. sha[DocumentOf[h]] = h
  BY <1>2 DEF ProposeInv, RunInv
<1> QED BY <1>2, <1>3, RunGoesOn

(* A step of staging keeps every run.                                       *)
LEMMA AllRuns ==
  ASSUME ProposeInv, UNCHANGED <<vars, run>>,
         \A i \in DOMAIN staged : staged'[i].digest = staged[i].digest
  PROVE  TypeOK' /\ RunInv'
<1>1. TypeOK'
  BY TypeNext DEF ProposeInv
<1>2. sha' = sha /\ status' = status /\ pc' = pc /\ target' = target /\ run' = run
  BY DEF vars, tables, requests
<1> SUFFICES ASSUME NEW u \in Threads, NEW h \in Uploads, Proposes(u, h)'
             PROVE  /\ sha'[DocumentOf[h]] = h
                    /\ \A n \in 1..(run'[u].next - 1) : HasItem(h, n)' \/ UnderWay(u, h, n)'
  BY <1>1 DEF RunInv
<1>3. Proposes(u, h)
  BY <1>2, RunTypes DEF Proposes, Busy, ProposeInv
<1>4. sha[DocumentOf[h]] = h
  BY <1>3 DEF ProposeInv, RunInv
<1> QED BY <1>2, <1>3, <1>4, RunGoesOn

(* Every step keeps what the runs have proposed.                            *)
LEMMA ProposeNextInv == ProposeInv /\ [UploadsNext]_allVars => ProposeInv'
<1> SUFFICES ASSUME ProposeInv, [UploadsNext]_allVars PROVE ProposeInv'
  OBVIOUS
<1>1. UploadsTypeOK /\ TypeOK /\ UploadsTypeOK'
  BY UploadsTypeNext DEF ProposeInv
<1>2. staged \in Seq(StagedRows) /\ Len(staged) \in Nat /\ DOMAIN staged = 1..Len(staged)
  BY <1>1 DEF UploadsTypeOK
<1> SUFFICES TypeOK' /\ RunInv' /\ CompleteInv'
  BY <1>1 DEF ProposeInv
<1>3. CASE UNCHANGED allVars
  BY <1>3, AllRuns, CompleteStays DEF allVars, uploads, vars, tables
<1>4. CASE (\E h \in Uploads : StageSource(h)) \/ UploadFails
  BY <1>4, AllRuns, CompleteStays DEF StageSource, UploadFails, vars, tables
<1>5. CASE InsertStagedSource
  <2>1. /\ DOMAIN staged' = 1..(Len(staged) + 1)
        /\ \A i \in DOMAIN staged : staged'[i] = staged[i]
        /\ staged'[Len(staged) + 1] = upload
    BY <1>1, <1>5, RowAdded, UploadsParts DEF InsertStagedSource
  <2>2. upload.status # "review_items_created"
    BY <1>1, <1>5 DEF InsertStagedSource, UploadsTypeOK, Verdicts
  <2>3. \A i \in DOMAIN staged' : staged'[i].status = "review_items_created" =>
          /\ i \in DOMAIN staged /\ staged[i].status = "review_items_created"
          /\ staged'[i].digest = staged[i].digest
    BY <1>2, <2>1, <2>2
  <2> QED BY <1>5, <2>1, <2>3, AllRuns, CompleteStays DEF InsertStagedSource, vars, tables
<1>6. ASSUME NEW t \in Threads, NEW i \in DOMAIN staged, BeginProposeStaged(t, i)
      PROVE  TypeOK' /\ RunInv' /\ CompleteInv'
  <2>1. PICK g \in Uploads : g = staged[i].digest
    BY <1>1, RowDigest
  <2>2. /\ status' = status /\ pc' = pc /\ target' = target /\ staged' = staged
        /\ sha' = [sha EXCEPT ![DocumentOf[g]] = g]
        /\ run' = [run EXCEPT ![t] = [row |-> i, next |-> 1]]
    BY <1>6, <2>1 DEF BeginProposeStaged, tables, requests, uploads, Started
  <2>3. g \in Hashes /\ DocumentOf[g] \in Documents
    BY UploadsAssumption, ConstantsAssumption
  <2>4. TypeOK'
    <3>1. /\ events' = events /\ fact' = fact /\ master' = master /\ chunks' = chunks
          /\ prior' = prior
      BY <1>6 DEF BeginProposeStaged, tables, requests
    <3>2. sha' \in [Documents -> Hashes \cup {NoHash}]
      BY <1>1, <2>2, <2>3 DEF TypeOK
    <3> QED BY <1>1, <2>2, <3>1, <3>2 DEF TypeOK
  <2>5. RunInv'
    <3> SUFFICES ASSUME NEW u \in Threads, NEW h \in Uploads, Proposes(u, h)'
                 PROVE  /\ sha'[DocumentOf[h]] = h
                        /\ \A n \in 1..(run'[u].next - 1) : HasItem(h, n)' \/ UnderWay(u, h, n)'
      BY DEF RunInv
    <3>1. CASE u = t
      <4>1. run'[u] = [row |-> i, next |-> 1] /\ h = g
        BY <1>1, <2>1, <2>2, <3>1 DEF UploadsTypeOK, Proposes
      <4>2. sha'[DocumentOf[g]] = g
        BY <1>1, <2>2, <2>3 DEF TypeOK
      <4> QED BY <4>1, <4>2
    <3>2. CASE u # t
      <4>1. run'[u] = run[u] /\ Proposes(u, h)
        BY <1>1, <2>2, <3>2 DEF UploadsTypeOK, Busy, Proposes
      <4>2. sha[DocumentOf[h]] = h
        BY <4>1 DEF ProposeInv, RunInv
      <4>3. sha'[DocumentOf[h]] = h
        BY <1>1, <2>2, <2>3, <4>2, UploadsAssumption DEF TypeOK
      <4> QED BY <2>2, <4>1, <4>3, RunGoesOn
    <3> QED BY <3>1, <3>2
  <2> QED BY <2>2, <2>4, <2>5, CompleteStays
<1>7. ASSUME NEW t \in Threads, ProposeNext(t)
      PROVE  TypeOK' /\ RunInv' /\ CompleteInv'
  <2>1. Busy(t)
    BY <1>7 DEF ProposeNext
  <2>2. PICK g \in Uploads : g = staged[run[t].row].digest
    BY <1>1, <2>1, RunTypes
  <2>3. PICK k \in Nat : k = run[t].next /\ k \in DOMAIN FactUpdates(g)
    BY <1>1, <1>7, <2>1, <2>2, RunTypes DEF ProposeNext, Outstanding, RowUpdates
  <2>4. sha[DocumentOf[g]] = g /\ Proposes(t, g)
    BY <2>1, <2>2 DEF ProposeInv, RunInv, Proposes
  <2>5. /\ FactUpdates(g)[k].key \in Keys
        /\ Begin(t, FactItem(g, k), "check_current")
        /\ run' = [run EXCEPT ![t].next = @ + 1] /\ staged' = staged
    BY <1>7, <2>2, <2>3, <2>4 DEF ProposeNext, BeginPropose, RowUpdates, FactItem, uploads
  <2>6. FactItem(g, k) \in Changes
    BY <2>3, <2>5, ItemTypes
  <2>7. TypeOK'
    BY <1>1, <2>5, <2>6, TypeParts, BeginTypes DEF Stages, TypeOK, TablesOK, RequestsOK
  <2>8. /\ sha' = sha /\ status' = status
        /\ pc[t] = "idle" /\ pc'[t] # "idle" /\ target'[t] = FactItem(g, k)
        /\ \A v \in Threads \ {t} :
             pc'[v] = pc[v] /\ target'[v] = target[v] /\ run'[v] = run[v]
        /\ run'[t].row = run[t].row /\ run'[t].next = k + 1
    BY <1>1, <2>3, <2>5 DEF Begin, tables, TypeOK, UploadsTypeOK
  <2>9. ASSUME NEW n \in 1..k PROVE HasItem(g, n)' \/ UnderWay(t, g, n)'
    <3>1. CASE n = k
      BY <2>3, <2>5, <2>8, <3>1 DEF UnderWay
    <3>2. CASE n # k
      <4>1. HasItem(g, n)
        BY <2>3, <2>4, <2>8, <3>2 DEF ProposeInv, RunInv, UnderWay
      <4> QED BY <2>8, <4>1 DEF HasItem
    <3> QED BY <3>1, <3>2
  <2>10. \A h \in Uploads : Proposes(t, h)' => h = g
    BY <2>2, <2>5, <2>8 DEF Proposes
  <2>11. RunInv'
    BY <2>3, <2>4, <2>5, <2>8, <2>9, <2>10, OtherRuns
  <2> QED BY <2>5, <2>7, <2>8, <2>11, CompleteStays
<1>8. ASSUME NEW t \in Threads, ProposeStep(t)
      PROVE  TypeOK' /\ RunInv' /\ CompleteInv'
  <2>1. /\ Busy(t) /\ run' = run /\ staged' = staged
        /\ CheckCurrent(t) \/ InsertChange(t)
    BY <1>8 DEF ProposeStep, uploads
  <2>2. TypeOK' /\ Onward(t)
    BY <1>1, <2>1, TypeNext, ServeGoesOnward DEF Next, Serve
  <2>3. ASSUME NEW h \in Uploads, Proposes(t, h)', NEW n \in 1..(run'[t].next - 1)
        PROVE  HasItem(h, n)' \/ UnderWay(t, h, n)'
    <3>1. Proposes(t, h) /\ n \in 1..(run[t].next - 1)
      BY <2>1, <2>3 DEF Proposes
    <3>2. n \in DOMAIN FactUpdates(h)
      BY <1>1, <3>1, RunTypes DEF Proposes
    <3>3. CASE HasItem(h, n)
      BY <2>2, <3>2, <3>3, ItemsStay DEF Onward
    <3>4. CASE UnderWay(t, h, n) /\ CheckCurrent(t)
      BY <1>1, <2>1, <3>4 DEF UnderWay, CheckCurrent, Advance, TypeOK
    <3>5. CASE UnderWay(t, h, n) /\ InsertChange(t)
      <4>1. target[t] \in Changes
        BY <1>1, <3>5 DEF TypeOK, InsertChange
      <4>2. status'[target[t]] # "none"
        BY <1>1, <3>5, <4>1 DEF TypeOK, InsertChange, Unknown
      <4> QED BY <3>5, <4>2 DEF UnderWay, HasItem
    <3> QED BY <2>1, <3>1, <3>3, <3>4, <3>5 DEF ProposeInv, RunInv
  <2>4. \A h \in Uploads : Proposes(t, h)' => sha'[DocumentOf[h]] = h
    BY <2>1, <2>2 DEF ProposeInv, RunInv, Proposes, Onward
  <2>5. RunInv'
    BY <2>1, <2>2, <2>3, <2>4, OtherRuns DEF Onward
  <2> QED BY <2>1, <2>2, <2>5, CompleteStays DEF Onward
<1>9. ASSUME NEW t \in Threads, MarkProposed(t)
      PROVE  TypeOK' /\ RunInv' /\ CompleteInv'
  <2>1. /\ Busy(t) /\ pc[t] = "idle" /\ ~Outstanding(t) /\ UNCHANGED vars
        /\ run' = [run EXCEPT ![t] = NoRun]
    BY <1>9 DEF MarkProposed
  <2>2. TypeOK'
    BY <1>1, <2>1, TypeNext
  <2>3. /\ sha' = sha /\ status' = status /\ pc' = pc /\ target' = target /\ ~Busy(t)'
        /\ \A v \in Threads \ {t} : run'[v] = run[v]
    BY <1>1, <2>1 DEF vars, tables, requests, UploadsTypeOK, Busy
  <2>4. RunInv'
    BY <1>1, <1>9, <2>3, RowMarked, OtherRuns DEF Proposes
  <2>5. PICK g \in Uploads : g = staged[run[t].row].digest
    BY <1>1, <2>1, RunTypes
  <2>6. \A n \in DOMAIN FactUpdates(g) : HasItem(g, n)
    <3>1. /\ run[t].next \in Nat /\ run[t].next > Len(FactUpdates(g))
          /\ Len(FactUpdates(g)) \in Nat /\ DOMAIN FactUpdates(g) = 1..Len(FactUpdates(g))
      BY <1>1, <2>1, <2>5, RunTypes DEF Outstanding, RowUpdates
    <3>2. \A n \in 1..(run[t].next - 1) : HasItem(g, n)
      BY <2>1, <2>5 DEF ProposeInv, RunInv, Proposes, UnderWay
    <3> QED BY <3>1, <3>2
  <2>7. CompleteInv'
    <3> SUFFICES ASSUME NEW j \in DOMAIN staged, staged'[j].status = "review_items_created",
                        NEW h \in Uploads, h = staged[j].digest,
                        NEW n \in DOMAIN FactUpdates(h)
                 PROVE  HasItem(h, n)
      <4>1. \A j \in DOMAIN staged : staged[j].digest \in Uploads
        BY <1>1, RowDigest
      <4> QED BY <1>1, <1>9, <2>3, <4>1, RowMarked DEF CompleteInv, HasItem
    <3>1. j = run[t].row \/ staged[j].status = "review_items_created"
      BY <1>1, <1>9, RowMarked
    <3> QED BY <2>5, <2>6, <3>1 DEF ProposeInv, CompleteInv
  <2> QED BY <2>2, <2>4, <2>7
<1>10. ASSUME NEW t \in Threads, ProposingFails(t)
       PROVE  TypeOK' /\ RunInv' /\ CompleteInv'
  <2>1. /\ UNCHANGED vars \/ Abandon(t)
        /\ staged' = staged /\ run' = [run EXCEPT ![t] = NoRun]
    BY <1>10 DEF ProposingFails, uploads
  <2>2. TypeOK'
    BY <1>1, <2>1, TypeNext DEF Next, Serve
  <2>3. ~Busy(t)' /\ \A v \in Threads \ {t} : run'[v] = run[v]
    BY <1>1, <2>1 DEF UploadsTypeOK, Busy
  <2>4. Onward(t)
    <3>1. CASE UNCHANGED vars
      BY <3>1 DEF Onward, vars, tables, requests
    <3>2. CASE Abandon(t)
      BY <1>1, <3>2, ServeGoesOnward DEF Serve
    <3> QED BY <2>1, <3>1, <3>2
  <2>5. RunInv'
    BY <2>1, <2>3, <2>4, OtherRuns DEF Onward, Proposes
  <2> QED BY <2>1, <2>2, <2>4, <2>5, CompleteStays DEF Onward
<1>11. ASSUME NEW t \in Threads, Review(t)
       PROVE  TypeOK' /\ RunInv' /\ CompleteInv'
  <2>1. Serve(t) /\ ~Busy(t)' /\ run' = run /\ staged' = staged
    BY <1>11 DEF Review, uploads, Busy
  <2>2. TypeOK' /\ Onward(t)
    BY <1>1, <2>1, TypeNext, ServeGoesOnward DEF Next
  <2>3. RunInv'
    BY <2>1, <2>2, OtherRuns DEF Onward, Proposes
  <2> QED BY <2>1, <2>2, <2>3, CompleteStays DEF Onward
<1> QED BY <1>3, <1>4, <1>5, <1>6, <1>7, <1>8, <1>9, <1>10, <1>11
        DEF UploadsNext, ProposeStaged

(* What the runs have proposed holds in every execution.                    *)
LEMMA ProposeInvariant == UploadsSpec => []ProposeInv
<1>1. UploadsInit => ProposeInv
  <2> SUFFICES ASSUME UploadsInit PROVE ProposeInv
    OBVIOUS
  <2>1. TypeOK /\ UploadsTypeOK
    BY TypeInit, UploadsTypeInit DEF UploadsInit
  <2> QED BY <2>1 DEF UploadsInit, ProposeInv, RunInv, Proposes, Busy, NoRun, CompleteInv
<1> QED BY <1>1, ProposeNextInv, PTL DEF UploadsSpec

(* An upload reported as proposed has a review item for every fact that it  *)
(* states (propose_staged_facts, mark_staged_source_proposed).              *)
THEOREM ProposedComplete == UploadsSpec => []ProposedIsComplete
<1>1. ProposeInv => ProposedIsComplete
  BY DEF ProposeInv, CompleteInv, ProposedIsComplete, HasItem, RowUpdates, ItemOf, FactItem
<1> QED BY <1>1, ProposeInvariant, PTL

-----------------------------------------------------------------------------
(* A step that leaves the tables alone and no request at a decision that is *)
(* not about a known change keeps RaceInv.                                  *)
LEMMA RaceKept ==
  ASSUME RaceInv, TypeOK', RequestInv', UNCHANGED tables
  PROVE  RaceInv'
<1>1. /\ status' = status /\ events' = events /\ fact' = fact /\ chunks' = chunks
  BY DEF tables
<1>2. \A c \in Changes : /\ Trailed(c)' = Trailed(c) /\ Granted(c)' = Granted(c)
                        /\ ApprovalsOf(c)' = ApprovalsOf(c)
  BY <1>1, NoEvent
<1> QED BY <1>1, <1>2 DEF RaceInv, ServingInv, GrantInv, TailInv, OnceInv,
                          CoreFieldsStayCurrent, EvidenceIsCurrent

(* What reviews rely on is kept when runs propose beside them: a run makes  *)
(* a source governed and proposes, and decides nothing.                     *)
LEMMA UploadsKeepRace ==
  RaceInv /\ ProposeInv /\ ProposeInv' /\ [UploadsNext]_allVars => RaceInv'
<1> SUFFICES ASSUME RaceInv, ProposeInv, ProposeInv', [UploadsNext]_allVars PROVE RaceInv'
  OBVIOUS
<1>1. TypeOK /\ TypeOK' /\ RequestInv
  BY DEF ProposeInv, RaceInv, ServingInv
<1>2. ASSUME [Next]_vars PROVE RaceInv'
  BY <1>2, RaceNext
<1>3. ASSUME NEW t \in Threads, NEW i \in DOMAIN staged, BeginProposeStaged(t, i)
      PROVE  RaceInv'
  <2>1. UNCHANGED tables /\ RequestInv'
    BY <1>1, <1>3 DEF BeginProposeStaged, tables, requests, RequestInv
  <2> QED BY <1>1, <2>1, RaceKept
<1>4. ASSUME NEW t \in Threads, ProposeNext(t) PROVE RaceInv'
  <2>1. PICK c : Begin(t, c, "check_current")
    BY <1>4 DEF ProposeNext, BeginPropose
  <2>2. UNCHANGED tables /\ RequestInv'
    BY <1>1, <2>1 DEF Begin, tables, RequestInv, Deciding, TypeOK
  <2> QED BY <1>1, <2>2, RaceKept
<1> QED BY <1>2, <1>3, <1>4
        DEF UploadsNext, StageSource, InsertStagedSource, UploadFails, ProposeStaged,
            ProposeStep, MarkProposed, ProposingFails, Review, Next, Serve, allVars

(* Whatever the uploads propose, and however often, review keeps its        *)
(* promises: one approval of a change, a complete trail, facts only by      *)
(* approval, core fields with a fact, the evidence of the facts in force.   *)
THEOREM UploadsReviewed ==
  UploadsSpec => [](/\ ApprovedAtMostOnce /\ AuditTailIsStatus /\ FactsWereApproved
                    /\ CoreFieldsStayCurrent /\ EvidenceIsCurrent)
<1>1. UploadsInit => RaceInv
  BY RaceInit DEF UploadsInit
<1>2. RaceInv => /\ ApprovedAtMostOnce /\ AuditTailIsStatus /\ FactsWereApproved
                 /\ CoreFieldsStayCurrent /\ EvidenceIsCurrent
  BY DEF RaceInv, ServingInv, OnceInv, ApprovedAtMostOnce, TailInv, Trailed, AuditTailIsStatus,
         GrantInv, Granted, FactsWereApproved
<1> QED BY <1>1, <1>2, UploadsKeepRace, ProposeInvariant, PTL DEF UploadsSpec
=============================================================================

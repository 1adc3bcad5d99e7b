----------------------------- MODULE IngestionJobs -----------------------------
(***************************************************************************)
(* Background ingestion jobs: the job table (app/database/sqlite.py), the  *)
(* service that creates, runs and cancels jobs (app/ingestion/jobs.py) and *)
(* the pipeline's checkpoints (app/ingestion/pipeline.py), with admins'    *)
(* requests in pool threads, one background task per job, failures of the  *)
(* stores, and crashes of the process.                                     *)
(*                                                                         *)
(* Definitions that start with Fault are deliberate errors, as in          *)
(* FactReview.                                                             *)
(***************************************************************************)
EXTENDS Naturals, FiniteSets

CONSTANTS
  Admins,      \* threads that serve admins' requests
  MaxJobs,     \* bound: jobs ever created
  MaxCrashes,  \* bound: process crashes
  MaxFaults    \* bound: accesses to the job table that raise outside every handler

ASSUME BoundsAssumption ==
  MaxJobs \in Nat /\ MaxCrashes \in Nat /\ MaxFaults \in Nat

Jobs == 1 .. MaxJobs   \* in the order of creation
NoJob == 0

Active == {"pending", "running"}
Terminal == {"completed", "failed", "cancelled"}

(* The progress values the pipeline reports, in order; at a checkpoint it   *)
(* also asks whether the job's cancellation was requested.                  *)
Points == {0, 8, 25, 35, 45, 65, 70, 85, 98}
FaultCheckpointInRebuild == {8, 25, 35, 45, 65, 85}
Checkpoints == {8, 25, 35, 45, 65}
SafePoint == 70

Stages == {"none", "queued", "begin_run", "report", "check", "drop_index", "fill_index",
           "rebuild_metadata", "verify", "count", "complete",
           "fail_run", "fail_job", "cancel_run", "cancel_job", "done", "dead", "gone"}
Requests == {"idle", "create", "queue", "cancel_pending", "cancel_running"}
Live == Stages \ {"none", "done", "dead", "gone"}
(* The pipeline is between its first and its last write for the job.        *)
Ingesting == Live \ {"queued"}

VARIABLES
  status,     \* ingestion_jobs.status, "none" before the row exists
  progress,   \* ingestion_jobs.progress
  cancelled,  \* ingestion_jobs.cancel_requested
  run,        \* ingestion_runs.status of the job's run
  at,         \* the stage of the job's background task
  point,      \* the progress value it reports or checks next
  touched,    \* has the task begun to replace the vector index
  index,      \* the job whose points the vector index holds, whole or in part
  metadata,   \* the job whose rebuild the SQLite tables hold
  admin,      \* where each admin's request stands
  about,      \* the job it is about
  lock,       \* who holds IngestionJobService._create_lock
  recovered,  \* this process has built its IngestionJobService
  crashes, faults

jobTable == <<status, progress, cancelled>>
task == <<run, at, point, touched, index, metadata>>
request == <<admin, about, lock>>
process == <<recovered, crashes>>
vars == <<jobTable, task, request, process, faults>>

Init ==
  /\ status = [j \in Jobs |-> "none"]
  /\ progress = [j \in Jobs |-> 0]
  /\ cancelled = [j \in Jobs |-> FALSE]
  /\ run = [j \in Jobs |-> "none"]
  /\ at = [j \in Jobs |-> "none"]
  /\ point = [j \in Jobs |-> 0]
  /\ touched = [j \in Jobs |-> FALSE]
  /\ index = [job |-> NoJob, whole |-> TRUE]
  /\ metadata = NoJob
  /\ admin = [a \in Admins |-> "idle"]
  /\ about = [a \in Admins |-> NoJob]
  /\ lock = {}
  /\ recovered = FALSE
  /\ crashes = 0
  /\ faults = 0

-----------------------------------------------------------------------------
(* The first request after a start builds the service, whose constructor    *)
(* fails the jobs that the previous process left active.                    *)
FaultRecoverRunningOnly == {"running"}
Interrupted == {"pending", "running"}

Recover ==
  /\ ~recovered
  /\ recovered' = TRUE
  /\ status' = [j \in Jobs |-> IF status[j] \in Interrupted THEN "failed" ELSE status[j]]
  /\ UNCHANGED <<progress, cancelled, task, request, crashes, faults>>

(* Starting an ingestion: under the lock, look for an active job and insert *)
(* the new one; then queue its background task.                             *)
FaultIgnoreActive == TRUE
NoActiveJob == \A j \in Jobs : status[j] \notin Active

NextJob == {j \in Jobs : status[j] = "none" /\ \A i \in Jobs : i < j => status[i] # "none"}

FaultUnlocked == TRUE
Unlocked == lock = {}

LookForActive(a) ==
  /\ recovered /\ admin[a] = "idle" /\ Unlocked
  /\ NoActiveJob
  /\ NextJob # {}
  /\ lock' = lock \cup {a}
  /\ admin' = [admin EXCEPT ![a] = "create"]
  /\ UNCHANGED <<jobTable, task, about, process, faults>>

InsertJob(a) ==
  /\ admin[a] = "create"
  /\ \E j \in NextJob :
       /\ status' = [status EXCEPT ![j] = "pending"]
       /\ about' = [about EXCEPT ![a] = j]
  /\ lock' = lock \ {a}
  /\ admin' = [admin EXCEPT ![a] = "queue"]
  /\ UNCHANGED <<progress, cancelled, task, process, faults>>

QueueTask(a) ==
  /\ admin[a] = "queue"
  /\ at' = [at EXCEPT ![about[a]] = "queued"]
  /\ admin' = [admin EXCEPT ![a] = "idle"]
  /\ about' = [about EXCEPT ![a] = NoJob]
  /\ UNCHANGED <<jobTable, run, point, touched, index, metadata, lock, process, faults>>

(* request_ingestion_job_cancel: read status and progress, then update the  *)
(* row by its id, as the status read calls for.                             *)
ReadForCancel(a, j) ==
  /\ recovered /\ admin[a] = "idle"
  /\ status[j] \in Active /\ progress[j] < SafePoint
  /\ admin' = [admin EXCEPT ![a] = IF status[j] = "pending" THEN "cancel_pending"
                                   ELSE "cancel_running"]
  /\ about' = [about EXCEPT ![a] = j]
  /\ UNCHANGED <<jobTable, task, lock, process, faults>>

Cancel(a) ==
  LET j == about[a]
  IN /\ admin[a] \in {"cancel_pending", "cancel_running"}
     /\ cancelled' = [cancelled EXCEPT ![j] = TRUE]
     /\ IF admin[a] = "cancel_pending"
        THEN /\ status' = [status EXCEPT ![j] = "cancelled"]
             /\ progress' = [progress EXCEPT ![j] = 0]
        ELSE UNCHANGED <<status, progress>>
     /\ admin' = [admin EXCEPT ![a] = "idle"]
     /\ about' = [about EXCEPT ![a] = NoJob]
     /\ UNCHANGED <<task, lock, process, faults>>

(* A request whose write raises: nothing is written, the lock is released.  *)
RequestFails(a) ==
  /\ admin[a] \in {"create", "cancel_pending", "cancel_running"}
  /\ admin' = [admin EXCEPT ![a] = "idle"]
  /\ about' = [about EXCEPT ![a] = NoJob]
  /\ lock' = lock \ {a}
  /\ UNCHANGED <<jobTable, task, process, faults>>

(* The row is read back for the response before the task is queued: when    *)
(* that raises, the job stays in the table without a task.                  *)
QueueingFails(a) ==
  /\ admin[a] = "queue"
  /\ faults < MaxFaults
  /\ faults' = faults + 1
  /\ at' = [at EXCEPT ![about[a]] = "dead"]
  /\ admin' = [admin EXCEPT ![a] = "idle"]
  /\ about' = [about EXCEPT ![a] = NoJob]
  /\ UNCHANGED <<jobTable, run, point, touched, index, metadata, lock, process>>

-----------------------------------------------------------------------------
(* The background task of job j.                                            *)
Goto(j, stage) == at' = [at EXCEPT ![j] = stage]

FaultStartAnyway(j) == TRUE
Startable(j) == status[j] = "pending" /\ ~cancelled[j]

StartJob(j) ==
  /\ at[j] = "queued"
  /\ IF Startable(j)
     THEN /\ status' = [status EXCEPT ![j] = "running"]
          /\ progress' = [progress EXCEPT ![j] = 2]
          /\ Goto(j, "begin_run")
     ELSE Goto(j, "done") /\ UNCHANGED <<status, progress>>
  /\ UNCHANGED <<cancelled, run, point, touched, index, metadata, request, process, faults>>

BeginRun(j) ==
  /\ at[j] = "begin_run"
  /\ run' = [run EXCEPT ![j] = "running"]
  /\ point' = [point EXCEPT ![j] = 8]
  /\ Goto(j, "report")
  /\ UNCHANGED <<jobTable, touched, index, metadata, request, process, faults>>

(* update_ingestion_job writes a running job only.                          *)
AfterReport(p) ==
  CASE p \in Checkpoints -> "check"
    [] p = 70 -> "drop_index"
    [] p = 85 -> "rebuild_metadata"
    [] p = 98 -> "count"
    [] OTHER -> "report"

Report(j) ==
  /\ at[j] = "report"
  /\ progress' = [progress EXCEPT ![j] = IF status[j] = "running" THEN point[j] ELSE @]
  /\ Goto(j, AfterReport(point[j]))
  /\ UNCHANGED <<status, cancelled, run, point, touched, index, metadata, request,
                 process, faults>>

(* The next value to report after a checkpoint that found no cancellation.  *)
Following(p) == CHOOSE q \in Points : q > p /\ \A r \in Points : r > p => q <= r

Check(j) ==
  /\ at[j] = "check"
  /\ IF cancelled[j]
     THEN Goto(j, "cancel_run") /\ UNCHANGED point
     ELSE Goto(j, "report") /\ point' = [point EXCEPT ![j] = Following(@)]
  /\ UNCHANGED <<jobTable, run, touched, index, metadata, request, process, faults>>

(* QdrantVectorStore.rebuild: drop and create the collection, then upsert.  *)
DropIndex(j) ==
  /\ at[j] = "drop_index"
  /\ touched' = [touched EXCEPT ![j] = TRUE]
  /\ index' = [job |-> j, whole |-> FALSE]
  /\ Goto(j, "fill_index")
  /\ UNCHANGED <<jobTable, run, point, metadata, request, process, faults>>

FillIndex(j) ==
  /\ at[j] = "fill_index"
  /\ index' = [job |-> j, whole |-> TRUE]
  /\ point' = [point EXCEPT ![j] = 85]
  /\ Goto(j, "report")
  /\ UNCHANGED <<jobTable, run, touched, metadata, request, process, faults>>

(* KnowledgeDatabase.rebuild: one transaction, which also completes the run.*)
RebuildMetadata(j) ==
  /\ at[j] = "rebuild_metadata"
  /\ metadata' = j
  /\ run' = [run EXCEPT ![j] = "complete"]
  /\ Goto(j, "verify")
  /\ UNCHANGED <<jobTable, point, touched, index, request, process, faults>>

(* The source files still have the digests they were loaded with.           *)
Verify(j) ==
  /\ at[j] = "verify"
  /\ point' = [point EXCEPT ![j] = 98]
  /\ Goto(j, "report")
  /\ UNCHANGED <<jobTable, run, touched, index, metadata, request, process, faults>>

CountPoints(j) ==
  /\ at[j] = "count"
  /\ Goto(j, "complete")
  /\ UNCHANGED <<jobTable, run, point, touched, index, metadata, request, process, faults>>

CompleteJob(j) ==
  /\ at[j] = "complete"
  /\ status' = [status EXCEPT ![j] = IF @ = "running" THEN "completed" ELSE @]
  /\ progress' = [progress EXCEPT ![j] = IF status[j] = "running" THEN 100 ELSE @]
  /\ Goto(j, "done")
  /\ UNCHANGED <<cancelled, run, point, touched, index, metadata, request, process, faults>>

-----------------------------------------------------------------------------
(* Errors.  An exception inside the pipeline's try fails the run row first; *)
(* one before it (begin_run) or after it (count) goes straight to the job.  *)
(* A cancellation takes the same path, and becomes a failure of the job     *)
(* when the run row cannot be written.                                      *)
InTry == {"report", "check", "drop_index", "fill_index", "rebuild_metadata", "verify"}
OutOfTry == {"begin_run", "count", "fail_run", "cancel_run"}

FaultSwallow(stage) == IF stage \in InTry THEN "count" ELSE "fail_job"
Handler(stage) == IF stage \in InTry THEN "fail_run" ELSE "fail_job"

Raise(j) ==
  /\ at[j] \in InTry \cup OutOfTry
  /\ Goto(j, Handler(at[j]))
  /\ UNCHANGED <<jobTable, run, point, touched, index, metadata, request, process, faults>>

FailRun(j) ==
  /\ at[j] \in {"fail_run", "cancel_run"}
  /\ run' = [run EXCEPT ![j] = "failed"]
  /\ Goto(j, IF at[j] = "fail_run" THEN "fail_job" ELSE "cancel_job")
  /\ UNCHANGED <<jobTable, point, touched, index, metadata, request, process, faults>>

FaultFailPendingOnly == {"pending"}
Failable == {"pending", "running"}

FailJob(j) ==
  /\ at[j] = "fail_job"
  /\ status' = [status EXCEPT ![j] = IF @ \in Failable THEN "failed" ELSE @]
  /\ Goto(j, "done")
  /\ UNCHANGED <<progress, cancelled, run, point, touched, index, metadata, request,
                 process, faults>>

CancelJob(j) ==
  /\ at[j] = "cancel_job"
  /\ status' = [status EXCEPT ![j] = IF @ = "running" THEN "cancelled" ELSE @]
  /\ Goto(j, "done")
  /\ UNCHANGED <<progress, cancelled, run, point, touched, index, metadata, request,
                 process, faults>>

(* The job-table writes outside every try: when one raises, the task ends   *)
(* and the row stays as it is.                                              *)
TaskDies(j) ==
  /\ at[j] \in {"queued", "complete", "fail_job", "cancel_job"}
  /\ faults < MaxFaults
  /\ faults' = faults + 1
  /\ Goto(j, "dead")
  /\ UNCHANGED <<jobTable, run, point, touched, index, metadata, request, process>>

(* The process dies with its threads; the stores keep what was committed.   *)
Crash ==
  /\ crashes < MaxCrashes
  /\ crashes' = crashes + 1
  /\ recovered' = FALSE
  /\ at' = [j \in Jobs |-> IF at[j] \in Live \cup {"dead"} THEN "gone" ELSE at[j]]
  /\ admin' = [a \in Admins |-> "idle"]
  /\ about' = [a \in Admins |-> NoJob]
  /\ lock' = {}
  /\ UNCHANGED <<jobTable, run, point, touched, index, metadata, faults>>

-----------------------------------------------------------------------------
Progress(j) ==
  \/ StartJob(j) \/ BeginRun(j) \/ Report(j) \/ Check(j)
  \/ DropIndex(j) \/ FillIndex(j) \/ RebuildMetadata(j) \/ Verify(j) \/ CountPoints(j)
  \/ CompleteJob(j) \/ FailRun(j) \/ FailJob(j) \/ CancelJob(j)

Next ==
  \/ Recover
  \/ \E a \in Admins :
       \/ LookForActive(a) \/ InsertJob(a) \/ QueueTask(a)
       \/ Cancel(a) \/ RequestFails(a) \/ QueueingFails(a)
       \/ \E j \in Jobs : ReadForCancel(a, j)
  \/ \E j \in Jobs : Progress(j) \/ Raise(j) \/ TaskDies(j)
  \/ Crash

(* A request that has inserted a job goes on to queue its task, one that has *)
(* read a job to cancel it writes or fails, a queued task runs while the    *)
(* process is up, and after a restart some admin opens the sources page,    *)
(* whose requests build the service.                                        *)
Fairness ==
  /\ WF_vars(Recover)
  /\ \A a \in Admins : WF_vars(QueueTask(a)) /\ WF_vars(Cancel(a) \/ RequestFails(a))
  /\ \A j \in Jobs : WF_vars(Progress(j))

Spec == Init /\ [][Next]_vars /\ Fairness

(* The same program when no cancellation of a pending job overlaps the      *)
(* job's start.  Nothing in the code enforces it.  A start that it holds up *)
(* can always go on: of the cancellations in its way each can end.          *)
CancelsSeePending ==
  \A a \in Admins : admin[a] = "cancel_pending" => status[about[a]] = "pending"

NextCancelsSeePending == Next /\ CancelsSeePending'

SpecCancelsSeePending == Init /\ [][NextCancelsSeePending]_vars /\ Fairness

-----------------------------------------------------------------------------
TypeOK ==
  /\ status \in [Jobs -> {"none"} \cup Active \cup Terminal]
  /\ progress \in [Jobs -> 0 .. 100]
  /\ cancelled \in [Jobs -> BOOLEAN]
  /\ run \in [Jobs -> {"none", "running", "complete", "failed"}]
  /\ at \in [Jobs -> Stages]
  /\ point \in [Jobs -> Points]
  /\ touched \in [Jobs -> BOOLEAN]
  /\ index \in [job : Jobs \cup {NoJob}, whole : BOOLEAN]
  /\ metadata \in Jobs \cup {NoJob}
  /\ admin \in [Admins -> Requests]
  /\ about \in [Admins -> Jobs \cup {NoJob}]
  /\ \A a \in Admins : admin[a] \in {"queue", "cancel_pending", "cancel_running"}
                         => about[a] \in Jobs
  /\ lock \in {{}} \cup {{a} : a \in Admins}
  /\ recovered \in BOOLEAN
  /\ crashes \in Nat /\ faults \in Nat

(* An active job has a task that will end it, or a request about to queue   *)
(* one, or lost it to a failure outside every handler; nothing else leaves  *)
(* a job that blocks new ones.                                              *)
ActiveJobsHaveTasks ==
  recovered => \A j \in Jobs : status[j] \in Active =>
    \/ at[j] \in Live \cup {"dead"}
    \/ \E a \in Admins : admin[a] = "queue" /\ about[a] = j

(* The newest ingestion, once completed, is what both stores hold: the      *)
(* vector index whole, and the tables its chunk ids are looked up in.       *)
CompletedIsServed ==
  \A j \in Jobs :
    status[j] = "completed" /\ (\A i \in Jobs : i > j => ~touched[i])
      => index = [job |-> j, whole |-> TRUE] /\ metadata = j

(* A job that is reported cancelled has not begun to replace the index.     *)
CancelledBeforeRebuild ==
  \A j \in Jobs : status[j] = "cancelled" => ~touched[j]

(* One ingestion runs at a time.                                            *)
OneIngestionAtATime ==
  \A i, j \in Jobs : at[i] \in Ingesting /\ at[j] \in Ingesting => i = j

(* A finished job is never taken up again or given another outcome.         *)
OutcomesAreFinal ==
  [][\A j \in Jobs : status[j] \in Terminal => status'[j] = status[j]]_vars

(* Every job ends, unless its task was lost to such a failure.              *)
JobsEnd ==
  \A j \in Jobs : status[j] \in Active ~> (status[j] \in Terminal \/ at[j] = "dead")

(* What the sources page tells the admin whose cancellation was accepted:   *)
(* the job stops at a checkpoint.                                           *)
AcceptedCancelStops ==
  \A j \in Jobs : cancelled[j] => status[j] # "completed"
=============================================================================

-------------------------- MODULE IngestionJobsProofs --------------------------
(***************************************************************************)
(* Theorems about IngestionJobs for any number of admins, jobs, crashes    *)
(* and failures, when no cancellation of a pending job overlaps the job's  *)
(* start.                                                                  *)
(***************************************************************************)
EXTENDS IngestionJobs, TLAPS

(* The rows: jobs are numbered in the order of creation, only the newest    *)
(* may be active, and nothing has happened to a job without a row.          *)
Rows ==
  /\ \A j \in Jobs : status[j] = "none" => at[j] = "none" /\ ~touched[j] /\ ~cancelled[j]
  /\ \A i, j \in Jobs : i < j /\ status[j] # "none" => status[i] # "none"
  /\ \A i, j \in Jobs : i < j /\ status[i] \in Active => status[j] = "none"
  /\ \A j \in Jobs : status[j] = "pending" => ~cancelled[j]
  /\ \A j \in Jobs : touched[j] => status[j] \notin {"none", "pending", "cancelled"}

(* The requests: an admin about to create has the lock and found no active  *)
(* job, one about to queue is alone with a job that has no task yet, and a  *)
(* cancellation is about a row.                                             *)
Asking ==
  /\ \A a \in Admins : admin[a] = "create" => a \in lock /\ NoActiveJob
  /\ \A a \in Admins : admin[a] \in {"queue", "cancel_pending", "cancel_running"}
       => status[about[a]] # "none"
  /\ \A a \in Admins : admin[a] = "queue" => at[about[a]] = "none"
  /\ \A a, b \in Admins :
       admin[a] = "queue" /\ admin[b] = "queue" /\ about[a] = about[b] => a = b
  /\ \A a \in Admins : admin[a] = "cancel_running" => status[about[a]] # "pending"
  /\ CancelsSeePending
  /\ ~recovered => \A a \in Admins : admin[a] = "idle"

(* The tasks: what is being ingested is the running job.                    *)
Tasks ==
  /\ ~recovered => \A j \in Jobs : at[j] \notin Live \cup {"dead"}
  /\ \A j \in Jobs : at[j] \in Ingesting => status[j] = "running"
  /\ \A j \in Jobs : status[j] = "running" => at[j] \in Ingesting \cup {"dead", "gone"}
  /\ ActiveJobsHaveTasks

Whole(j) == index = [job |-> j, whole |-> TRUE]

(* How far the stores are at each stage of a task.                          *)
Stage(j) ==
  /\ at[j] \in {"begin_run", "check", "cancel_run", "cancel_job", "drop_index"} => ~touched[j]
  /\ at[j] = "check" => point[j] \in Checkpoints
  /\ at[j] = "report" =>
       \/ point[j] \in Checkpoints \cup {70} /\ ~touched[j]
       \/ point[j] = 85 /\ touched[j] /\ Whole(j)
       \/ point[j] = 98 /\ Whole(j) /\ metadata = j
  /\ at[j] = "fill_index" => touched[j]
  /\ at[j] = "rebuild_metadata" => touched[j] /\ Whole(j)
  /\ at[j] \in {"verify", "count", "complete"} => Whole(j) /\ metadata = j

Staged == \A j \in Jobs : Stage(j)

IInv == TypeOK /\ Rows /\ Asking /\ Tasks /\ Staged /\ CompletedIsServed

-----------------------------------------------------------------------------
(* The next value to report after a checkpoint is another one, or the last   *)
(* before the index is replaced.                                            *)
LEMMA FollowingIsNear ==
  ASSUME NEW p \in Checkpoints
  PROVE  Following(p) \in Checkpoints \cup {70} /\ Following(p) \in Points
<1>1. \E q \in Points : q > p /\ \A r \in Points : r > p => q <= r
  BY DEF Checkpoints, Points
<1>2. /\ Following(p) \in Points
      /\ Following(p) > p
      /\ \A r \in Points : r > p => Following(p) <= r
  BY <1>1 DEF Following
<1> QED BY <1>2 DEF Checkpoints, Points

(* Every request keeps the types, whatever the others do.                    *)
LEMMA RequestTypes ==
  ASSUME TypeOK, NEW a \in Admins,
         \/ LookForActive(a) \/ InsertJob(a) \/ QueueTask(a)
         \/ Cancel(a) \/ RequestFails(a) \/ QueueingFails(a)
         \/ \E j \in Jobs : ReadForCancel(a, j)
  PROVE  TypeOK'
<1> USE DEF TypeOK, Requests, jobTable, task, process
<1>1. CASE LookForActive(a)
  BY <1>1 DEF LookForActive, Unlocked
<1>2. CASE InsertJob(a)
  BY <1>2 DEF InsertJob, NextJob, Active
<1>3. CASE QueueTask(a)
  BY <1>3 DEF QueueTask, Stages
<1>4. CASE Cancel(a)
  BY <1>4 DEF Cancel, Terminal
<1>5. CASE RequestFails(a)
  BY <1>5 DEF RequestFails
<1>6. CASE QueueingFails(a)
  BY <1>6 DEF QueueingFails, Stages
<1>7. CASE \E j \in Jobs : ReadForCancel(a, j)
  BY <1>7 DEF ReadForCancel
<1> QED BY <1>1, <1>2, <1>3, <1>4, <1>5, <1>6, <1>7

(* Every stage of a task keeps the types.                                    *)
LEMMA TaskTypes ==
  ASSUME TypeOK, NEW j \in Jobs, at[j] = "check" => point[j] \in Checkpoints,
         Progress(j) \/ Raise(j) \/ TaskDies(j)
  PROVE  TypeOK'
<1> USE DEF TypeOK, Stages, Goto, jobTable, process, request
<1>1. CASE StartJob(j)
  BY <1>1 DEF StartJob, Active
<1>2. CASE BeginRun(j)
  BY <1>2 DEF BeginRun, Points
<1>3. CASE Report(j)
  BY <1>3 DEF Report, AfterReport, Points
<1>4. CASE Check(j)
  BY <1>4, FollowingIsNear DEF Check
<1>5. CASE DropIndex(j)
  BY <1>5 DEF DropIndex
<1>6. CASE FillIndex(j)
  BY <1>6 DEF FillIndex, Points
<1>7. CASE RebuildMetadata(j)
  BY <1>7 DEF RebuildMetadata
<1>8. CASE Verify(j)
  BY <1>8 DEF Verify, Points
<1>9. CASE CountPoints(j)
  BY <1>9 DEF CountPoints
<1>10. CASE CompleteJob(j)
  BY <1>10 DEF CompleteJob, Terminal
<1>11. CASE FailRun(j)
  BY <1>11 DEF FailRun
<1>12. CASE FailJob(j)
  BY <1>12 DEF FailJob, Terminal
<1>13. CASE CancelJob(j)
  BY <1>13 DEF CancelJob, Terminal
<1>14. CASE Raise(j)
  BY <1>14 DEF Raise, Handler
<1>15. CASE TaskDies(j)
  BY <1>15 DEF TaskDies
<1> QED BY <1>1, <1>2, <1>3, <1>4, <1>5, <1>6, <1>7, <1>8, <1>9, <1>10, <1>11, <1>12,
           <1>13, <1>14, <1>15 DEF Progress

(* A restart and a crash keep the types.                                     *)
LEMMA ProcessTypes ==
  ASSUME TypeOK, Recover \/ Crash
  PROVE  TypeOK'
<1>1. CASE Recover
  BY <1>1 DEF TypeOK, Recover, Terminal, task, request
<1>2. CASE Crash
  <2>1. at' \in [Jobs -> Stages]
    BY <1>2 DEF TypeOK, Crash, Stages
  <2>2. admin' \in [Admins -> Requests] /\ about' \in [Admins -> Jobs \cup {NoJob}]
    BY <1>2 DEF Crash, Requests
  <2>3. \A a \in Admins : admin'[a] \notin {"queue", "cancel_pending", "cancel_running"}
    BY <1>2 DEF Crash
  <2>4. lock' \in {{}} \cup {{a} : a \in Admins}
    BY <1>2, Zenon DEF Crash
  <2>5. recovered' \in BOOLEAN
    BY <1>2 DEF Crash
  <2>6. crashes \in Nat
    BY DEF TypeOK
  <2>7. crashes' \in Nat
    BY <1>2, <2>6 DEF Crash
  <2>8. UNCHANGED <<status, progress, cancelled, run, point, touched, index, metadata, faults>>
    BY <1>2 DEF Crash, jobTable
  <2>9. /\ (status \in [Jobs -> {"none"} \cup Active \cup Terminal])'
        /\ (progress \in [Jobs -> 0 .. 100])' /\ (cancelled \in [Jobs -> BOOLEAN])'
        /\ (run \in [Jobs -> {"none", "running", "complete", "failed"}])'
        /\ (point \in [Jobs -> Points])' /\ (touched \in [Jobs -> BOOLEAN])'
        /\ (index \in [job : Jobs \cup {NoJob}, whole : BOOLEAN])'
        /\ (metadata \in Jobs \cup {NoJob})' /\ (faults \in Nat)'
    BY <2>8 DEF TypeOK
  <2> QED BY <2>1, <2>2, <2>3, <2>4, <2>5, <2>7, <2>9 DEF TypeOK
<1> QED BY <1>1, <1>2

(* While one job is being ingested no other is, and no later one has a row.  *)
LEMMA Alone ==
  ASSUME IInv, NEW j \in Jobs, at[j] \in Ingesting
  PROVE  \A i \in Jobs \ {j} : at[i] \notin Ingesting /\ (status[i] # "none" => i < j)
<1>1. status[j] = "running"
  BY DEF IInv, Tasks
<1>2. ASSUME NEW i \in Jobs \ {j}, at[i] \in Ingesting PROVE FALSE
  BY <1>1, <1>2 DEF IInv, Tasks, Rows, Jobs, Active
<1>3. ASSUME NEW i \in Jobs \ {j}, status[i] # "none" PROVE i < j
  BY <1>1, <1>3 DEF IInv, Rows, Jobs, Active
<1> QED BY <1>2, <1>3

(* An admin who finds no active job keeps the lock for the insertion.        *)
LEMMA LookForActiveKeeps ==
  ASSUME IInv, TypeOK', NEW a \in Admins, LookForActive(a), CancelsSeePending'
  PROVE  (Rows /\ Asking /\ Tasks /\ Staged /\ CompletedIsServed)'
<1>1. Rows'
  BY DEF IInv, Rows, LookForActive, jobTable, task
<1>2. Asking'
  BY DEF IInv, Asking, NoActiveJob, LookForActive, jobTable, task, process
<1>3. Tasks'
  BY DEF IInv, Tasks, ActiveJobsHaveTasks, LookForActive, jobTable, task, process
<1>4. Staged'
  BY DEF IInv, Staged, Stage, Whole, LookForActive, task
<1>5. CompletedIsServed'
  BY DEF IInv, CompletedIsServed, LookForActive, jobTable, task
<1> QED BY <1>1, <1>2, <1>3, <1>4, <1>5

(* A new job is the newest, and the only active one.                         *)
LEMMA InsertJobKeeps ==
  ASSUME IInv, TypeOK', NEW a \in Admins, InsertJob(a), CancelsSeePending'
  PROVE  (Rows /\ Asking /\ Tasks /\ Staged /\ CompletedIsServed)'
<1>1. Rows'
  BY DEF IInv, Rows, Asking, NoActiveJob, InsertJob, NextJob, task
<1>2. Asking'
  BY DEF IInv, TypeOK, Rows, Asking, InsertJob, NextJob, task, process
<1>3. Tasks'
  BY DEF IInv, TypeOK, Tasks, ActiveJobsHaveTasks, InsertJob, NextJob, task, process
<1>4. Staged'
  BY DEF IInv, Staged, Stage, Whole, InsertJob, task
<1>5. CompletedIsServed'
  BY DEF IInv, CompletedIsServed, InsertJob, task
<1> QED BY <1>1, <1>2, <1>3, <1>4, <1>5

(* A job gets its task once, from the request that inserted it.              *)
LEMMA QueueTaskKeeps ==
  ASSUME IInv, TypeOK', NEW a \in Admins, QueueTask(a), CancelsSeePending'
  PROVE  (Rows /\ Asking /\ Tasks /\ Staged /\ CompletedIsServed)'
<1>1. Rows'
  BY DEF IInv, Rows, Asking, QueueTask, jobTable
<1>2. Asking'
  BY DEF IInv, TypeOK, Asking, NoActiveJob, QueueTask, jobTable, process
<1>3. Tasks'
  BY DEF IInv, TypeOK, Asking, Tasks, ActiveJobsHaveTasks, QueueTask, jobTable, process,
         Ingesting, Live
<1>4. Staged'
  BY DEF IInv, Staged, Stage, Whole, QueueTask
<1>5. CompletedIsServed'
  BY DEF IInv, CompletedIsServed, QueueTask, jobTable
<1> QED BY <1>1, <1>2, <1>3, <1>4, <1>5

(* A cancellation is of a row that is still pending, or marks a later one.   *)
LEMMA CancelKeeps ==
  ASSUME IInv, TypeOK', NEW a \in Admins, Cancel(a), CancelsSeePending'
  PROVE  (Rows /\ Asking /\ Tasks /\ Staged /\ CompletedIsServed)'
<1>1. Rows'
  BY DEF IInv, TypeOK, Rows, Asking, CancelsSeePending, Cancel, task, Terminal
<1>2. Asking'
  BY DEF IInv, TypeOK, Asking, NoActiveJob, Cancel, task, process, Active
<1>3. Tasks'
  BY DEF IInv, TypeOK, Asking, Tasks, ActiveJobsHaveTasks, CancelsSeePending, Cancel, task,
         process, Terminal
<1>4. Staged'
  BY DEF IInv, Staged, Stage, Whole, Cancel, task
<1>5. CompletedIsServed'
  BY DEF IInv, TypeOK, CompletedIsServed, Cancel, task
<1> QED BY <1>1, <1>2, <1>3, <1>4, <1>5

(* A request that fails lets go of the lock and of nothing else.             *)
LEMMA RequestFailsKeeps ==
  ASSUME IInv, TypeOK', NEW a \in Admins, RequestFails(a), CancelsSeePending'
  PROVE  (Rows /\ Asking /\ Tasks /\ Staged /\ CompletedIsServed)'
<1>1. Rows'
  BY DEF IInv, Rows, RequestFails, jobTable, task
<1>2. Asking'
  BY DEF IInv, TypeOK, Asking, NoActiveJob, RequestFails, jobTable, task, process
<1>3. Tasks'
  BY DEF IInv, Tasks, ActiveJobsHaveTasks, RequestFails, jobTable, task, process
<1>4. Staged'
  BY DEF IInv, Staged, Stage, Whole, RequestFails, task
<1>5. CompletedIsServed'
  BY DEF IInv, CompletedIsServed, RequestFails, jobTable, task
<1> QED BY <1>1, <1>2, <1>3, <1>4, <1>5

(* A job that is never queued stays without a task.                          *)
LEMMA QueueingFailsKeeps ==
  ASSUME IInv, TypeOK', NEW a \in Admins, QueueingFails(a), CancelsSeePending'
  PROVE  (Rows /\ Asking /\ Tasks /\ Staged /\ CompletedIsServed)'
<1>1. Rows'
  BY DEF IInv, Rows, Asking, QueueingFails, jobTable
<1>2. Asking'
  BY DEF IInv, TypeOK, Asking, NoActiveJob, QueueingFails, jobTable, process
<1>3. Tasks'
  BY DEF IInv, TypeOK, Asking, Tasks, ActiveJobsHaveTasks, QueueingFails, jobTable, process,
         Ingesting, Live
<1>4. Staged'
  BY DEF IInv, Staged, Stage, Whole, QueueingFails
<1>5. CompletedIsServed'
  BY DEF IInv, CompletedIsServed, QueueingFails, jobTable
<1> QED BY <1>1, <1>2, <1>3, <1>4, <1>5

(* A task that starts makes the pending job the running one.                 *)
LEMMA StartJobKeeps ==
  ASSUME IInv, TypeOK', NEW j \in Jobs, StartJob(j), CancelsSeePending'
  PROVE  (Rows /\ Asking /\ Tasks /\ Staged /\ CompletedIsServed)'
<1>1. Rows'
  BY DEF IInv, TypeOK, Rows, StartJob, Startable, Goto, Active, Terminal
<1>2. Asking'
  BY DEF IInv, TypeOK, Asking, NoActiveJob, StartJob, Startable, Goto, request, process, Terminal
<1>3. Tasks'
  BY SMTT(20) DEF IInv, TypeOK, Rows, Asking, Tasks, ActiveJobsHaveTasks, StartJob, Startable,
                  Goto, request, process, Ingesting, Live, Stages, Active
<1>4. Staged'
  BY DEF IInv, TypeOK, Rows, Staged, Stage, Whole, StartJob, Startable, Goto
<1>5. CompletedIsServed'
  BY DEF IInv, TypeOK, CompletedIsServed, StartJob
<1> QED BY <1>1, <1>2, <1>3, <1>4, <1>5

(* The run row begins before anything is touched.                            *)
LEMMA BeginRunKeeps ==
  ASSUME IInv, TypeOK', NEW j \in Jobs, BeginRun(j), CancelsSeePending'
  PROVE  (Rows /\ Asking /\ Tasks /\ Staged /\ CompletedIsServed)'
<1>1. Rows'
  BY DEF IInv, Rows, BeginRun, Goto, jobTable
<1>2. Asking'
  BY DEF IInv, Asking, NoActiveJob, BeginRun, Goto, jobTable, request, process
<1>3. Tasks'
  BY DEF IInv, Tasks, ActiveJobsHaveTasks, BeginRun, Goto, jobTable, request, process, Ingesting,
         Live, Stages
<1>4. Staged'
  BY DEF IInv, TypeOK, Staged, Stage, Whole, BeginRun, Goto, Checkpoints
<1>5. CompletedIsServed'
  BY DEF IInv, CompletedIsServed, BeginRun, jobTable
<1> QED BY <1>1, <1>2, <1>3, <1>4, <1>5

(* A report changes only the progress of the row.                            *)
LEMMA ReportKeeps ==
  ASSUME IInv, TypeOK', NEW j \in Jobs, Report(j), CancelsSeePending'
  PROVE  (Rows /\ Asking /\ Tasks /\ Staged /\ CompletedIsServed)'
<1>1. Rows'
  BY DEF IInv, Rows, Report, Goto
<1>2. Asking'
  BY DEF IInv, Asking, NoActiveJob, Report, Goto, request, process
<1>3. Tasks'
  BY DEF IInv, Tasks, ActiveJobsHaveTasks, Report, AfterReport, Goto, request, process, Ingesting,
         Live, Stages
<1>4. Staged'
  BY DEF IInv, Staged, Stage, Whole, Report, AfterReport, Goto, Checkpoints
<1>5. CompletedIsServed'
  BY DEF IInv, CompletedIsServed, Report
<1> QED BY <1>1, <1>2, <1>3, <1>4, <1>5

(* A checkpoint leads on to a report, or out before the index is touched.    *)
LEMMA CheckKeeps ==
  ASSUME IInv, TypeOK', NEW j \in Jobs, Check(j), CancelsSeePending'
  PROVE  (Rows /\ Asking /\ Tasks /\ Staged /\ CompletedIsServed)'
<1>1. Rows'
  BY DEF IInv, TypeOK, Rows, Check, Goto, jobTable
<1>2. Asking'
  BY DEF IInv, TypeOK, Asking, NoActiveJob, Check, Goto, jobTable, request, process
<1>3. Tasks'
  BY DEF IInv, TypeOK, Tasks, ActiveJobsHaveTasks, Check, Goto, jobTable, request, process,
         Ingesting, Live, Stages
<1>4. Staged'
  BY FollowingIsNear DEF IInv, TypeOK, Staged, Stage, Whole, Check, Goto, Checkpoints
<1>5. CompletedIsServed'
  BY DEF IInv, CompletedIsServed, Check, jobTable
<1> QED BY <1>1, <1>2, <1>3, <1>4, <1>5

(* The index belongs to the job that drops it.                               *)
LEMMA DropIndexKeeps ==
  ASSUME IInv, TypeOK', NEW j \in Jobs, DropIndex(j), CancelsSeePending'
  PROVE  (Rows /\ Asking /\ Tasks /\ Staged /\ CompletedIsServed)'
<1>1. Rows'
  BY DEF IInv, Rows, Tasks, DropIndex, Goto, jobTable, Ingesting, Live, Stages
<1>2. Asking'
  BY DEF IInv, Asking, NoActiveJob, DropIndex, Goto, jobTable, request, process
<1>3. Tasks'
  BY DEF IInv, Tasks, ActiveJobsHaveTasks, DropIndex, Goto, jobTable, request, process, Ingesting,
         Live, Stages
<1>4. Staged'
  <2>1. ASSUME NEW i \in Jobs \ {j}
        PROVE  /\ at'[i] = at[i] /\ at[i] \notin Ingesting
               /\ touched'[i] = touched[i] /\ point'[i] = point[i]
    BY Alone DEF IInv, TypeOK, DropIndex, Goto, Ingesting, Live, Stages
  <2>2. ASSUME NEW i \in Jobs \ {j} PROVE Stage(i)'
    BY <2>1 DEF Stage, Ingesting, Live, Stages
  <2>3. Stage(j)'
    BY DEF IInv, TypeOK, Staged, Stage, Whole, DropIndex, Goto
  <2> QED BY <2>2, <2>3 DEF Staged
<1>5. CompletedIsServed'
  <2>1. at[j] \in Ingesting /\ touched'[j] /\ status[j] # "completed"
    BY DEF IInv, TypeOK, Tasks, Staged, Stage, DropIndex, Ingesting, Live, Stages
  <2>2. ASSUME NEW i \in Jobs, status[i] = "completed" PROVE i < j
    BY <2>1, <2>2, Alone
  <2> QED BY <2>1, <2>2 DEF CompletedIsServed, DropIndex, jobTable, Jobs
<1> QED BY <1>1, <1>2, <1>3, <1>4, <1>5

(* The filled index is whole and the job's.                                  *)
LEMMA FillIndexKeeps ==
  ASSUME IInv, TypeOK', NEW j \in Jobs, FillIndex(j), CancelsSeePending'
  PROVE  (Rows /\ Asking /\ Tasks /\ Staged /\ CompletedIsServed)'
<1>1. Rows'
  BY DEF IInv, Rows, FillIndex, Goto, jobTable
<1>2. Asking'
  BY DEF IInv, Asking, NoActiveJob, FillIndex, Goto, jobTable, request, process
<1>3. Tasks'
  BY DEF IInv, Tasks, ActiveJobsHaveTasks, FillIndex, Goto, jobTable, request, process, Ingesting,
         Live, Stages
<1>4. Staged'
  <2>1. ASSUME NEW i \in Jobs \ {j}
        PROVE  /\ at'[i] = at[i] /\ at[i] \notin Ingesting
               /\ touched'[i] = touched[i] /\ point'[i] = point[i]
    BY Alone DEF IInv, TypeOK, FillIndex, Goto, Ingesting, Live, Stages
  <2>2. ASSUME NEW i \in Jobs \ {j} PROVE Stage(i)'
    BY <2>1 DEF Stage, Ingesting, Live, Stages
  <2>3. Stage(j)'
    BY DEF IInv, TypeOK, Staged, Stage, Whole, FillIndex, Goto
  <2> QED BY <2>2, <2>3 DEF Staged
<1>5. CompletedIsServed'
  <2>1. at[j] \in Ingesting /\ touched'[j] /\ status[j] # "completed"
    BY DEF IInv, TypeOK, Tasks, Staged, Stage, FillIndex, Ingesting, Live, Stages
  <2>2. ASSUME NEW i \in Jobs, status[i] = "completed" PROVE i < j
    BY <2>1, <2>2, Alone
  <2> QED BY <2>1, <2>2 DEF CompletedIsServed, FillIndex, jobTable, Jobs
<1> QED BY <1>1, <1>2, <1>3, <1>4, <1>5

(* The tables follow the index of the same job.                              *)
LEMMA RebuildMetadataKeeps ==
  ASSUME IInv, TypeOK', NEW j \in Jobs, RebuildMetadata(j), CancelsSeePending'
  PROVE  (Rows /\ Asking /\ Tasks /\ Staged /\ CompletedIsServed)'
<1>1. Rows'
  BY DEF IInv, Rows, RebuildMetadata, Goto, jobTable
<1>2. Asking'
  BY DEF IInv, Asking, NoActiveJob, RebuildMetadata, Goto, jobTable, request, process
<1>3. Tasks'
  BY DEF IInv, Tasks, ActiveJobsHaveTasks, RebuildMetadata, Goto, jobTable, request, process,
         Ingesting, Live, Stages
<1>4. Staged'
  BY DEF IInv, Staged, Stage, Whole, RebuildMetadata, Goto
<1>5. CompletedIsServed'
  BY DEF IInv, Staged, Stage, Whole, CompletedIsServed, RebuildMetadata, jobTable
<1> QED BY <1>1, <1>2, <1>3, <1>4, <1>5

(* Verifying the sources again leaves both stores as they are.               *)
LEMMA VerifyKeeps ==
  ASSUME IInv, TypeOK', NEW j \in Jobs, Verify(j), CancelsSeePending'
  PROVE  (Rows /\ Asking /\ Tasks /\ Staged /\ CompletedIsServed)'
<1>1. Rows'
  BY DEF IInv, Rows, Verify, Goto, jobTable
<1>2. Asking'
  BY DEF IInv, Asking, NoActiveJob, Verify, Goto, jobTable, request, process
<1>3. Tasks'
  BY DEF IInv, Tasks, ActiveJobsHaveTasks, Verify, Goto, jobTable, request, process, Ingesting,
         Live, Stages
<1>4. Staged'
  BY DEF IInv, TypeOK, Staged, Stage, Whole, Verify, Goto
<1>5. CompletedIsServed'
  BY DEF IInv, CompletedIsServed, Verify, jobTable
<1> QED BY <1>1, <1>2, <1>3, <1>4, <1>5

(* Counting the points leaves both stores as they are.                       *)
LEMMA CountPointsKeeps ==
  ASSUME IInv, TypeOK', NEW j \in Jobs, CountPoints(j), CancelsSeePending'
  PROVE  (Rows /\ Asking /\ Tasks /\ Staged /\ CompletedIsServed)'
<1>1. Rows'
  BY DEF IInv, Rows, CountPoints, Goto, jobTable
<1>2. Asking'
  BY DEF IInv, Asking, NoActiveJob, CountPoints, Goto, jobTable, request, process
<1>3. Tasks'
  BY DEF IInv, Tasks, ActiveJobsHaveTasks, CountPoints, Goto, jobTable, request, process,
         Ingesting, Live, Stages
<1>4. Staged'
  BY DEF IInv, Staged, Stage, Whole, CountPoints, Goto
<1>5. CompletedIsServed'
  BY DEF IInv, CompletedIsServed, CountPoints, jobTable
<1> QED BY <1>1, <1>2, <1>3, <1>4, <1>5

(* A job completes when both stores hold its data.                           *)
LEMMA CompleteJobKeeps ==
  ASSUME IInv, TypeOK', NEW j \in Jobs, CompleteJob(j), CancelsSeePending'
  PROVE  (Rows /\ Asking /\ Tasks /\ Staged /\ CompletedIsServed)'
<1>1. Rows'
  BY DEF IInv, Rows, CompleteJob, Goto, Active
<1>2. Asking'
  BY DEF IInv, Asking, NoActiveJob, CompleteJob, Goto, request, process, Active
<1>3. Tasks'
  BY DEF IInv, TypeOK, Tasks, ActiveJobsHaveTasks, CompleteJob, Goto, request, process, Ingesting,
         Live, Active
<1>4. Staged'
  BY DEF IInv, Staged, Stage, Whole, CompleteJob, Goto
<1>5. CompletedIsServed'
  BY DEF IInv, Staged, Stage, Whole, CompletedIsServed, CompleteJob
<1> QED BY <1>1, <1>2, <1>3, <1>4, <1>5

(* A failed run leads to the failure of its job.                             *)
LEMMA FailRunKeeps ==
  ASSUME IInv, TypeOK', NEW j \in Jobs, FailRun(j), CancelsSeePending'
  PROVE  (Rows /\ Asking /\ Tasks /\ Staged /\ CompletedIsServed)'
<1>1. Rows'
  BY DEF IInv, Rows, FailRun, Goto, jobTable
<1>2. Asking'
  BY DEF IInv, Asking, NoActiveJob, FailRun, Goto, jobTable, request, process
<1>3. Tasks'
  BY DEF IInv, Tasks, ActiveJobsHaveTasks, FailRun, Goto, jobTable, request, process, Ingesting,
         Live, Stages
<1>4. Staged'
  BY DEF IInv, Staged, Stage, Whole, FailRun, Goto
<1>5. CompletedIsServed'
  BY DEF IInv, CompletedIsServed, FailRun, jobTable
<1> QED BY <1>1, <1>2, <1>3, <1>4, <1>5

(* A failed job is over, and its task with it.                               *)
LEMMA FailJobKeeps ==
  ASSUME IInv, TypeOK', NEW j \in Jobs, FailJob(j), CancelsSeePending'
  PROVE  (Rows /\ Asking /\ Tasks /\ Staged /\ CompletedIsServed)'
<1>1. Rows'
  BY DEF IInv, Rows, FailJob, Goto, Active
<1>2. Asking'
  BY DEF IInv, Asking, NoActiveJob, FailJob, Goto, request, process, Active
<1>3. Tasks'
  BY DEF IInv, TypeOK, Tasks, ActiveJobsHaveTasks, FailJob, Goto, request, process, Ingesting,
         Live, Active, Failable
<1>4. Staged'
  BY DEF IInv, Staged, Stage, Whole, FailJob, Goto
<1>5. CompletedIsServed'
  BY DEF IInv, CompletedIsServed, FailJob
<1> QED BY <1>1, <1>2, <1>3, <1>4, <1>5

(* A job is cancelled before it has touched the index.                       *)
LEMMA CancelJobKeeps ==
  ASSUME IInv, TypeOK', NEW j \in Jobs, CancelJob(j), CancelsSeePending'
  PROVE  (Rows /\ Asking /\ Tasks /\ Staged /\ CompletedIsServed)'
<1>1. Rows'
  BY DEF IInv, Rows, Staged, Stage, CancelJob, Goto, Active
<1>2. Asking'
  BY DEF IInv, Asking, NoActiveJob, CancelJob, Goto, request, process, Active
<1>3. Tasks'
  BY DEF IInv, TypeOK, Tasks, ActiveJobsHaveTasks, CancelJob, Goto, request, process, Ingesting,
         Live, Active
<1>4. Staged'
  BY DEF IInv, Staged, Stage, Whole, CancelJob, Goto
<1>5. CompletedIsServed'
  BY DEF IInv, CompletedIsServed, CancelJob
<1> QED BY <1>1, <1>2, <1>3, <1>4, <1>5

(* An exception leads to the handler around it.                              *)
LEMMA RaiseKeeps ==
  ASSUME IInv, TypeOK', NEW j \in Jobs, Raise(j), CancelsSeePending'
  PROVE  (Rows /\ Asking /\ Tasks /\ Staged /\ CompletedIsServed)'
<1>1. Rows'
  BY DEF IInv, Rows, Raise, Goto, InTry, OutOfTry, jobTable
<1>2. Asking'
  BY DEF IInv, Asking, NoActiveJob, Raise, Goto, InTry, OutOfTry, jobTable, request, process
<1>3. Tasks'
  BY DEF IInv, Tasks, ActiveJobsHaveTasks, Raise, Goto, Handler, InTry, OutOfTry, jobTable,
         request, process, Ingesting, Live, Stages
<1>4. Staged'
  BY DEF IInv, Staged, Stage, Whole, Raise, Goto, Handler
<1>5. CompletedIsServed'
  BY DEF IInv, CompletedIsServed, Raise, jobTable
<1> QED BY <1>1, <1>2, <1>3, <1>4, <1>5

(* A failure outside every handler leaves a row without a task.              *)
LEMMA TaskDiesKeeps ==
  ASSUME IInv, TypeOK', NEW j \in Jobs, TaskDies(j), CancelsSeePending'
  PROVE  (Rows /\ Asking /\ Tasks /\ Staged /\ CompletedIsServed)'
<1>1. Rows'
  BY DEF IInv, Rows, TaskDies, Goto, jobTable
<1>2. Asking'
  BY DEF IInv, Asking, NoActiveJob, TaskDies, Goto, jobTable, request, process
<1>3. Tasks'
  BY DEF IInv, Tasks, ActiveJobsHaveTasks, TaskDies, Goto, jobTable, request, process, Ingesting,
         Live, Stages
<1>4. Staged'
  BY DEF IInv, Staged, Stage, Whole, TaskDies, Goto
<1>5. CompletedIsServed'
  BY DEF IInv, CompletedIsServed, TaskDies, jobTable
<1> QED BY <1>1, <1>2, <1>3, <1>4, <1>5

(* A cancellation that has read a row is about a row.                        *)
LEMMA ReadForCancelKeeps ==
  ASSUME IInv, TypeOK', NEW a \in Admins, NEW j \in Jobs, ReadForCancel(a, j), CancelsSeePending'
  PROVE  (Rows /\ Asking /\ Tasks /\ Staged /\ CompletedIsServed)'
<1>1. Rows'
  BY DEF IInv, Rows, ReadForCancel, jobTable, task
<1>2. Asking'
  BY DEF IInv, TypeOK, Asking, NoActiveJob, ReadForCancel, jobTable, task, process, Active
<1>3. Tasks'
  BY DEF IInv, Tasks, ActiveJobsHaveTasks, ReadForCancel, jobTable, task, process
<1>4. Staged'
  BY DEF IInv, Staged, Stage, Whole, ReadForCancel, task
<1>5. CompletedIsServed'
  BY DEF IInv, CompletedIsServed, ReadForCancel, jobTable, task
<1> QED BY <1>1, <1>2, <1>3, <1>4, <1>5

(* A restart fails the rows whose tasks are gone.                            *)
LEMMA RecoverKeeps ==
  ASSUME IInv, TypeOK', Recover, CancelsSeePending'
  PROVE  (Rows /\ Asking /\ Tasks /\ Staged /\ CompletedIsServed)'
<1>1. Rows'
  BY DEF IInv, Rows, Recover, Interrupted, task, Active
<1>2. Asking'
  BY DEF IInv, Asking, Recover, request
<1>3. Tasks'
  BY DEF IInv, Tasks, ActiveJobsHaveTasks, Recover, Interrupted, task, Ingesting, Active
<1>4. Staged'
  BY DEF IInv, Staged, Stage, Whole, Recover, task
<1>5. CompletedIsServed'
  BY DEF IInv, CompletedIsServed, Recover, task
<1> QED BY <1>1, <1>2, <1>3, <1>4, <1>5

(* A crash ends every task and every request.                                *)
LEMMA CrashKeeps ==
  ASSUME IInv, TypeOK', Crash, CancelsSeePending'
  PROVE  (Rows /\ Asking /\ Tasks /\ Staged /\ CompletedIsServed)'
<1>1. Rows'
  BY DEF IInv, Rows, Crash, jobTable, Live
<1>2. Asking'
  BY DEF Asking, Crash
<1>3. Tasks'
  BY DEF IInv, Tasks, ActiveJobsHaveTasks, Crash, jobTable, Ingesting, Live
<1>4. Staged'
  BY DEF Staged, Stage, Crash, Live, Stages
<1>5. CompletedIsServed'
  BY DEF IInv, CompletedIsServed, Crash, jobTable
<1> QED BY <1>1, <1>2, <1>3, <1>4, <1>5

(* The first state satisfies the invariant.                                  *)
LEMMA InitInv == Init => IInv
<1> SUFFICES ASSUME Init PROVE IInv
  OBVIOUS
<1>1. TypeOK
  <2>1. lock \in {{}} \cup {{a} : a \in Admins}
    BY Zenon DEF Init
  <2>2. /\ status \in [Jobs -> {"none"} \cup Active \cup Terminal]
        /\ progress \in [Jobs -> 0 .. 100]
        /\ cancelled \in [Jobs -> BOOLEAN]
        /\ run \in [Jobs -> {"none", "running", "complete", "failed"}]
        /\ at \in [Jobs -> Stages]
        /\ point \in [Jobs -> Points]
        /\ touched \in [Jobs -> BOOLEAN]
    BY DEF Init, Stages, Points
  <2>3. /\ index \in [job : Jobs \cup {NoJob}, whole : BOOLEAN]
        /\ metadata \in Jobs \cup {NoJob}
        /\ admin \in [Admins -> Requests]
        /\ about \in [Admins -> Jobs \cup {NoJob}]
        /\ \A a \in Admins : admin[a] \notin {"queue", "cancel_pending", "cancel_running"}
        /\ recovered \in BOOLEAN /\ crashes \in Nat /\ faults \in Nat
    BY DEF Init, Requests
  <2> QED BY <2>1, <2>2, <2>3 DEF TypeOK
<1>2. Rows
  BY DEF Init, Rows, Active
<1>3. Asking
  BY DEF Init, Asking, CancelsSeePending
<1>4. Tasks
  BY DEF Init, Tasks, ActiveJobsHaveTasks, Ingesting, Live, Stages
<1>5. Staged /\ CompletedIsServed
  BY DEF Init, Staged, Stage, CompletedIsServed
<1> QED BY <1>1, <1>2, <1>3, <1>4, <1>5 DEF IInv

(* Every step under which no cancellation overlaps a start keeps it.         *)
LEMMA StepInv == IInv /\ [NextCancelsSeePending]_vars => IInv'
<1> SUFFICES ASSUME IInv, [NextCancelsSeePending]_vars PROVE IInv'
  OBVIOUS
<1>1. TypeOK /\ \A j \in Jobs : at[j] = "check" => point[j] \in Checkpoints
  BY DEF IInv, Staged, Stage
<1>2. CASE NextCancelsSeePending
  <2>1. CancelsSeePending'
    BY <1>2 DEF NextCancelsSeePending
  <2>2. CASE Recover \/ Crash
    <3>1. TypeOK'
      BY <1>1, <2>2, ProcessTypes
    <3> QED BY <2>1, <2>2, <3>1, RecoverKeeps, CrashKeeps DEF IInv
  <2>3. ASSUME NEW a \in Admins,
               \/ LookForActive(a) \/ InsertJob(a) \/ QueueTask(a)
               \/ Cancel(a) \/ RequestFails(a) \/ QueueingFails(a)
               \/ \E j \in Jobs : ReadForCancel(a, j)
        PROVE  IInv'
    <3>1. TypeOK'
      BY <1>1, <2>3, RequestTypes
    <3> QED BY <2>1, <2>3, <3>1, LookForActiveKeeps, InsertJobKeeps, QueueTaskKeeps, CancelKeeps,
               RequestFailsKeeps, QueueingFailsKeeps, ReadForCancelKeeps DEF IInv
  <2>4. ASSUME NEW j \in Jobs, Progress(j) \/ Raise(j) \/ TaskDies(j)
        PROVE  IInv'
    <3>1. TypeOK'
      BY <1>1, <2>4, TaskTypes
    <3> QED BY <2>1, <2>4, <3>1, StartJobKeeps, BeginRunKeeps, ReportKeeps, CheckKeeps,
               DropIndexKeeps, FillIndexKeeps, RebuildMetadataKeeps, VerifyKeeps,
               CountPointsKeeps, CompleteJobKeeps, FailRunKeeps, FailJobKeeps,
               CancelJobKeeps, RaiseKeeps, TaskDiesKeeps DEF Progress, IInv
  <2> QED BY <1>2, <2>2, <2>3, <2>4 DEF NextCancelsSeePending, Next
<1>3. CASE UNCHANGED vars
  <2>1. TypeOK'
    BY <1>1, <1>3 DEF TypeOK, vars, jobTable, task, request, process
  <2>2. (Rows /\ Asking /\ Tasks)'
    BY <1>3 DEF IInv, Rows, Asking, Tasks, CancelsSeePending, NoActiveJob, ActiveJobsHaveTasks,
                vars, jobTable, task, request, process
  <2>3. (Staged /\ CompletedIsServed)'
    BY <1>3 DEF IInv, Staged, Stage, Whole, CompletedIsServed, vars, jobTable, task
  <2> QED BY <2>1, <2>2, <2>3 DEF IInv
<1> QED BY <1>2, <1>3

(* The invariant holds in every state of the jobs.                           *)
LEMMA Invariant == SpecCancelsSeePending => []IInv
BY InitInv, StepInv, PTL DEF SpecCancelsSeePending

-----------------------------------------------------------------------------
(* The job table, the tasks and the requests keep their types.               *)
THEOREM TypeCorrect == SpecCancelsSeePending => []TypeOK
<1>1. IInv => TypeOK
  BY DEF IInv
<1> QED BY <1>1, Invariant, PTL

(* Two ingestions never run at once (IngestionJobService._create_lock and    *)
(* the look for an active job in create_ingestion_job).                      *)
THEOREM OneAtATime == SpecCancelsSeePending => []OneIngestionAtATime
<1>1. IInv => OneIngestionAtATime
  BY Alone DEF OneIngestionAtATime
<1> QED BY <1>1, Invariant, PTL

(* A job that keeps new ones out has a task that will end it, unless a       *)
(* failure outside every handler took it (IngestionJobService).              *)
THEOREM ActiveHaveTasks == SpecCancelsSeePending => []ActiveJobsHaveTasks
<1>1. IInv => ActiveJobsHaveTasks
  BY DEF IInv, Tasks
<1> QED BY <1>1, Invariant, PTL

(* Both stores hold the newest completed ingestion (IngestionPipeline.run).  *)
THEOREM CompletedServed == SpecCancelsSeePending => []CompletedIsServed
<1>1. IInv => CompletedIsServed
  BY DEF IInv
<1> QED BY <1>1, Invariant, PTL

(* A job reported as cancelled has not touched the index (the checkpoints of *)
(* IngestionPipeline.run).                                                   *)
THEOREM CancelledBefore == SpecCancelsSeePending => []CancelledBeforeRebuild
<1>1. IInv => CancelledBeforeRebuild
  BY DEF IInv, Rows, CancelledBeforeRebuild
<1> QED BY <1>1, Invariant, PTL

(* One step never changes the outcome of a job.                              *)
LEMMA OutcomeStays ==
  ASSUME IInv, [NextCancelsSeePending]_vars
  PROVE  [\A j \in Jobs : status[j] \in Terminal => status'[j] = status[j]]_vars
<1> SUFFICES ASSUME NextCancelsSeePending, NEW i \in Jobs, status[i] \in Terminal
             PROVE  status'[i] = status[i]
  BY DEF vars
<1> USE DEF IInv, TypeOK, Terminal, jobTable
<1>1. CASE Recover \/ Crash
  BY <1>1 DEF Recover, Crash, Interrupted
<1>2. ASSUME NEW a \in Admins,
             \/ LookForActive(a) \/ QueueTask(a) \/ RequestFails(a) \/ QueueingFails(a)
             \/ \E j \in Jobs : ReadForCancel(a, j)
      PROVE  status' = status
  BY <1>2 DEF LookForActive, QueueTask, RequestFails, QueueingFails, ReadForCancel
<1>3. ASSUME NEW a \in Admins, InsertJob(a) PROVE status'[i] = status[i]
  BY <1>3 DEF InsertJob, NextJob
<1>4. ASSUME NEW a \in Admins, Cancel(a) PROVE status'[i] = status[i]
  BY <1>4 DEF Cancel, Asking, CancelsSeePending
<1>5. ASSUME NEW j \in Jobs, StartJob(j) \/ CompleteJob(j) \/ FailJob(j) \/ CancelJob(j)
      PROVE  status'[i] = status[i]
  BY <1>5 DEF StartJob, Startable, CompleteJob, FailJob, Failable, CancelJob
<1>6. ASSUME NEW j \in Jobs,
             \/ BeginRun(j) \/ Report(j) \/ Check(j) \/ DropIndex(j) \/ FillIndex(j)
             \/ RebuildMetadata(j) \/ Verify(j) \/ CountPoints(j) \/ FailRun(j)
             \/ Raise(j) \/ TaskDies(j)
      PROVE  status' = status
  BY <1>6 DEF BeginRun, Report, Check, DropIndex, FillIndex, RebuildMetadata, Verify, CountPoints,
              FailRun, Raise, TaskDies
<1> QED BY <1>1, <1>2, <1>3, <1>4, <1>5, <1>6 DEF NextCancelsSeePending, Next, Progress

(* The outcome of a job is final, whoever else still writes its row.         *)
THEOREM OutcomesFinal == SpecCancelsSeePending => OutcomesAreFinal
BY Invariant, OutcomeStays, PTL DEF SpecCancelsSeePending, OutcomesAreFinal
-----------------------------------------------------------------------------
(***************************************************************************)
(* What holds also when a cancellation overlaps the start of its job: the  *)
(* rows of two jobs may then be ingested at once, but LooseInv still ties  *)
(* each row to its own task and to the request that is about to queue it.  *)
(***************************************************************************)
RowsOfTasks ==
  /\ \A j \in Jobs : status[j] = "none" => at[j] = "none" /\ ~cancelled[j]
  /\ \A j \in Jobs : status[j] = "pending" =>
       ~cancelled[j] /\ at[j] \in {"none", "queued", "dead", "gone"}
  /\ \A j \in Jobs : status[j] = "running" => at[j] \in Ingesting \cup {"dead", "gone"}
  /\ \A j \in Jobs : at[j] = "check" => point[j] \in Checkpoints

RowsOfRequests ==
  /\ \A a \in Admins : admin[a] \in {"queue", "cancel_pending", "cancel_running"}
       => status[about[a]] # "none"
  /\ \A a \in Admins : admin[a] = "queue" => at[about[a]] = "none"
  /\ \A a, b \in Admins :
       admin[a] = "queue" /\ admin[b] = "queue" /\ about[a] = about[b] => a = b
  /\ \A a \in Admins : admin[a] = "cancel_running" => status[about[a]] # "pending"

StoppedIsIdle ==
  ~recovered => /\ \A a \in Admins : admin[a] = "idle"
                /\ \A j \in Jobs : at[j] \notin Live \cup {"dead"}

LooseInv == TypeOK /\ RowsOfTasks /\ RowsOfRequests /\ StoppedIsIdle /\ ActiveJobsHaveTasks

(* Every step of a request keeps it.                                        *)
LEMMA RequestLoose ==
  ASSUME LooseInv, TypeOK', NEW a \in Admins,
         \/ LookForActive(a) \/ InsertJob(a) \/ QueueTask(a)
         \/ Cancel(a) \/ RequestFails(a) \/ QueueingFails(a)
         \/ \E j \in Jobs : ReadForCancel(a, j)
  PROVE  LooseInv'
<1> SUFFICES (RowsOfTasks /\ RowsOfRequests /\ StoppedIsIdle /\ ActiveJobsHaveTasks)'
  BY DEF LooseInv
<1> USE DEF LooseInv, TypeOK, StoppedIsIdle, RowsOfTasks, RowsOfRequests, ActiveJobsHaveTasks,
            Ingesting, Live, Stages, Active, process
<1>1. CASE LookForActive(a)
  BY <1>1 DEF LookForActive, jobTable, task
<1>2. CASE InsertJob(a)
  BY <1>2 DEF InsertJob, NextJob, task
<1>3. CASE QueueTask(a)
  BY <1>3 DEF QueueTask, jobTable
<1>4. CASE Cancel(a)
  BY <1>4 DEF Cancel, task
<1>5. CASE RequestFails(a)
  BY <1>5 DEF RequestFails, jobTable, task
<1>6. CASE QueueingFails(a)
  BY <1>6 DEF QueueingFails, jobTable
<1>7. ASSUME NEW j \in Jobs, ReadForCancel(a, j)
      PROVE  (RowsOfTasks /\ RowsOfRequests /\ StoppedIsIdle /\ ActiveJobsHaveTasks)'
  BY <1>7 DEF ReadForCancel, jobTable, task
<1> QED BY <1>1, <1>2, <1>3, <1>4, <1>5, <1>6, <1>7

(* Every step of a task keeps it.                                           *)
LEMMA TaskLoose ==
  ASSUME LooseInv, TypeOK', NEW j \in Jobs, Progress(j) \/ Raise(j) \/ TaskDies(j)
  PROVE  LooseInv'
<1> SUFFICES (RowsOfTasks /\ RowsOfRequests /\ StoppedIsIdle /\ ActiveJobsHaveTasks)'
  BY DEF LooseInv
<1> USE DEF LooseInv, TypeOK, StoppedIsIdle, RowsOfTasks, RowsOfRequests, ActiveJobsHaveTasks,
            Goto, Ingesting, Live, Stages, Active, request, process
<1>1. CASE StartJob(j)
  BY <1>1 DEF StartJob, Startable
<1>2. CASE BeginRun(j)
  BY <1>2 DEF BeginRun, jobTable, Checkpoints
<1>3. CASE Report(j)
  BY <1>3 DEF Report, AfterReport
<1>4. CASE Check(j)
  BY <1>4 DEF Check, jobTable
<1>5. CASE DropIndex(j)
  BY <1>5 DEF DropIndex, jobTable
<1>6. CASE FillIndex(j)
  BY <1>6 DEF FillIndex, jobTable
<1>7. CASE RebuildMetadata(j)
  BY <1>7 DEF RebuildMetadata, jobTable
<1>8. CASE Verify(j)
  BY <1>8 DEF Verify, jobTable
<1>9. CASE CountPoints(j)
  BY <1>9 DEF CountPoints, jobTable
<1>10. CASE CompleteJob(j)
  BY <1>10 DEF CompleteJob
<1>11. CASE FailRun(j)
  BY <1>11 DEF FailRun, jobTable
<1>12. CASE FailJob(j)
  BY <1>12 DEF FailJob, Failable
<1>13. CASE CancelJob(j)
  BY <1>13 DEF CancelJob
<1>14. CASE Raise(j)
  BY <1>14 DEF Raise, Handler, InTry, OutOfTry, jobTable
<1>15. CASE TaskDies(j)
  BY <1>15 DEF TaskDies, jobTable
<1> QED BY <1>1, <1>2, <1>3, <1>4, <1>5, <1>6, <1>7, <1>8, <1>9,
           <1>10, <1>11, <1>12, <1>13, <1>14, <1>15 DEF Progress

(* A restart and a crash keep it.                                           *)
LEMMA ProcessLoose ==
  ASSUME LooseInv, TypeOK', Recover \/ Crash
  PROVE  LooseInv'
<1>1. CASE Recover
  BY <1>1 DEF LooseInv, TypeOK, RowsOfTasks, RowsOfRequests, StoppedIsIdle, ActiveJobsHaveTasks,
              Recover, Interrupted, Active, task, request
<1>2. CASE Crash
  <2>1. RowsOfTasks'
    BY <1>2 DEF LooseInv, TypeOK, RowsOfTasks, Crash, jobTable, Ingesting, Live, Stages
  <2>2. RowsOfRequests' /\ StoppedIsIdle' /\ ActiveJobsHaveTasks'
    BY <1>2 DEF LooseInv, TypeOK, RowsOfRequests, StoppedIsIdle, ActiveJobsHaveTasks, Crash, Live
  <2> QED BY <2>1, <2>2 DEF LooseInv
<1> QED BY <1>1, <1>2

(* LooseInv holds in every state of every execution.                        *)
LEMMA LooseInvariant == Spec => []LooseInv
<1>1. Init => LooseInv
  <2> SUFFICES ASSUME Init PROVE LooseInv
    OBVIOUS
  <2>1. TypeOK
    BY InitInv DEF IInv
  <2> QED BY <2>1 DEF Init, LooseInv, RowsOfTasks, RowsOfRequests, StoppedIsIdle,
                      ActiveJobsHaveTasks, Active, Live
<1>2. LooseInv /\ [Next]_vars => LooseInv'
  <2> SUFFICES ASSUME LooseInv, [Next]_vars PROVE LooseInv'
    OBVIOUS
  <2>1. TypeOK /\ \A j \in Jobs : at[j] = "check" => point[j] \in Checkpoints
    BY DEF LooseInv, RowsOfTasks
  <2>2. CASE Recover \/ Crash
    BY <2>1, <2>2, ProcessTypes, ProcessLoose
  <2>3. ASSUME NEW a \in Admins,
               \/ LookForActive(a) \/ InsertJob(a) \/ QueueTask(a)
               \/ Cancel(a) \/ RequestFails(a) \/ QueueingFails(a)
               \/ \E j \in Jobs : ReadForCancel(a, j)
        PROVE  LooseInv'
    <3>1. TypeOK'
      BY <2>1, <2>3, RequestTypes
    <3> QED BY <2>3, <3>1, RequestLoose
  <2>4. ASSUME NEW j \in Jobs, Progress(j) \/ Raise(j) \/ TaskDies(j) PROVE LooseInv'
    <3>1. TypeOK'
      BY <2>1, <2>4, TaskTypes
    <3> QED BY <2>4, <3>1, TaskLoose
  <2>5. CASE UNCHANGED vars
    BY <2>5 DEF LooseInv, TypeOK, RowsOfTasks, RowsOfRequests, StoppedIsIdle,
                ActiveJobsHaveTasks, vars, jobTable, task, request, process
  <2> QED BY <2>2, <2>3, <2>4, <2>5 DEF Next
<1> QED BY <1>1, <1>2, PTL DEF Spec

(* The types hold whatever overlaps.                                        *)
THEOREM TypesAlways == Spec => []TypeOK
<1>1. LooseInv => TypeOK
  BY DEF LooseInv
<1> QED BY <1>1, LooseInvariant, PTL

(* Whatever cancellations, starts, failures, crashes and restarts overlap,  *)
(* a job that keeps new ones out has a task that will end it, or a request  *)
(* about to queue one, or lost it to a failure outside every handler.       *)
THEOREM TasksAlways == Spec => []ActiveJobsHaveTasks
<1>1. LooseInv => ActiveJobsHaveTasks
  BY DEF LooseInv
<1> QED BY <1>1, LooseInvariant, PTL
=============================================================================

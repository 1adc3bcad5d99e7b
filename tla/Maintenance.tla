----------------------------- MODULE Maintenance -----------------------------
(* The demo deployment and its operator tool: app/demo_safety.py, the       *)
(* lifespan of app/main.py, scripts/docker_start.py, scripts/demo_ops.py    *)
(* and scripts/bootstrap_demo.py, over the files they share: the knowledge  *)
(* database, the vector index, the session store and the accounts.          *)
(*                                                                          *)
(* The server, in demo mode, and the tool each hold the runtime lease while *)
(* they work on the files.  What a process does is a list of steps, plan,   *)
(* that it takes one by one and that a crash or an error cuts short; the    *)
(* lease is then free again.                                                *)
EXTENDS Admission, Sequences

CONSTANTS
  ReadOnly,      \* public_demo_read_only: the API accepts no change
  Absent,        \* there is no database file
  Hollow,        \* a database file without tables
  MaxOps,        \* bound on what the operator starts, server and tool together
  MaxCuts,       \* bound on crashes and errors
  MaxDecisions   \* bound on the reviews that change the database

Processes == {"server", "tool"}
Kinds == {"backup", "restore", "reset", "rebuild"}

(* What one process does to the files, in this order: an ingestion or a     *)
(* reindex drops the index and fills it again, in two steps here, before it *)
(* writes the database.                                                     *)
FaultReplaceFirst(k) ==
  CASE k = "backup" -> <<"backup">>
    [] k = "restore" -> <<"replace", "save", "forget", "open", "fit", "drop", "fill",
                          "fill_rest", "state">>
    [] k = "reset" -> <<"forget", "unlink", "users", "credentials", "open", "drop", "fill",
                        "fill_rest", "tables">>
    [] k = "rebuild" -> <<"open", "fit", "drop", "fill", "fill_rest", "state">>
Plan(k) ==
  CASE k = "backup" -> <<"backup">>
    [] k = "restore" -> <<"save", "replace", "forget", "open", "fit", "drop", "fill",
                          "fill_rest", "state">>
    [] k = "reset" -> <<"forget", "unlink", "users", "credentials", "open", "drop", "fill",
                        "fill_rest", "tables">>
    [] k = "rebuild" -> <<"open", "fit", "drop", "fill", "fill_rest", "state">>

Steps == {"users", "credentials", "open", "inspect", "fit", "drop", "fill", "fill_rest",
          "tables", "verify", "state", "save", "replace", "forget", "unlink", "backup"}

Databases == [decisions : Nat, managed : BOOLEAN, state : Nat]

ASSUME FilesAssumption == Absent # Hollow /\ {Absent, Hollow} \cap Databases = {}

VARIABLES
  server,    \* "stopped", "starting", "ready" (lease let go) or "serving"
  plan,      \* the steps each process has still to take
  kind,      \* what the tool is doing, "start" when it does nothing
  lease,     \* .runtime.lock: "free" or its holder
  db,        \* knowledge.db: its decisions, uploads and retrieval_state
  vectors,   \* the vector index: which build it is, and whether all of it
  builds,    \* vector indexes built so far
  accounts,  \* demo-auth.json and demo-credentials.txt: none, one or both new
  backups,   \* databases the operator has a backup of
  chosen,    \* the backup a restore has validated
  recovery,  \* the recovery copies
  era,       \* how many times the database was replaced or removed
  cuts,      \* where processes were cut short, until an operation repairs it
  ops, crashes

files == <<db, vectors, builds, accounts, backups, recovery, era>>
control == <<server, plan, kind, lease, chosen, cuts, ops, crashes>>
all == <<files, control, admission>>

Empty == [build |-> 0, whole |-> TRUE]
New == [decisions |-> 0, managed |-> FALSE, state |-> 0]
Tables(d) == d \notin {Absent, Hollow}

MaintenanceInit ==
  /\ AdmissionInit
  /\ server = "stopped" /\ lease = "free" /\ kind = "start"
  /\ plan = [p \in Processes |-> <<>>]
  /\ db = Absent /\ vectors = Empty /\ builds = 0 /\ accounts = "none"
  /\ backups = {} /\ chosen = Absent /\ recovery = {}
  /\ era = 0 /\ cuts = {} /\ ops = 0 /\ crashes = 0

-----------------------------------------------------------------------------
(* verify_demo_database: no file is fine; a file without tables makes the    *)
(* query fail; an upload registered as a source is outside the manifest.     *)
Verified(d) == d = Absent \/ (Tables(d) /\ ~d.managed)

(* runtime_lease: prepare_runtime, then the lock without waiting.            *)
CanLease(p) == Verified(db) /\ lease = "free"

TakeLease(p) == CanLease(p) /\ lease' = p

(* initialize_demo bootstraps the accounts unless the file of users exists.  *)
Initialize ==
  IF accounts = "none" THEN <<"users", "credentials", "open", "inspect">>
                       ELSE <<"open", "inspect">>

StartServer ==
  /\ server = "stopped" /\ ops < MaxOps
  /\ TakeLease("server")
  /\ server' = "starting"
  /\ plan' = [plan EXCEPT !["server"] = Initialize]
  /\ ops' = ops + 1
  /\ UNCHANGED <<files, kind, chosen, cuts, crashes, admission>>

(* uvicorn then enters the lifespan, which takes the lease for good or fails. *)
Serve ==
  /\ server = "ready"
  /\ TakeLease("server")
  /\ server' = "serving"
  /\ AdmissionRestart
  /\ UNCHANGED <<files, plan, kind, chosen, cuts, ops, crashes, clock, sessions, issued>>

ServeFails ==
  /\ server = "ready"
  /\ ~CanLease("server")
  /\ server' = "stopped"
  /\ UNCHANGED <<files, plan, kind, lease, chosen, cuts, ops, crashes, admission>>

(* A stop, or a crash while serving.                                         *)
StopServer ==
  /\ server = "serving"
  /\ server' = "stopped"
  /\ lease' = "free"
  /\ UNCHANGED <<files, plan, kind, chosen, cuts, ops, crashes, admission>>

(* run_operation; a restore validates its backup before anything else.       *)
StartTool(k) ==
  /\ plan["tool"] = <<>> /\ ops < MaxOps
  /\ TakeLease("tool")
  /\ IF k = "restore" THEN chosen' \in {b \in backups : Verified(b)}
                      ELSE chosen' = Absent
  /\ kind' = k
  /\ plan' = [plan EXCEPT !["tool"] = Plan(k)]
  /\ ops' = ops + 1
  /\ UNCHANGED <<files, server, cuts, crashes, admission>>

-----------------------------------------------------------------------------
(* The effect of each step on the files.  Copying a database that is absent  *)
(* leaves a file without tables behind, and a copy that nothing validates.   *)
Touched == IF db = Absent THEN Hollow ELSE db
Opened == IF Tables(db) THEN db ELSE New
FaultCopyAnything(S) == S \cup {db}
CopyOf(S) == IF Tables(db) THEN S \cup {db} ELSE S

Backup ==
  /\ backups' = CopyOf(backups) /\ db' = Touched
  /\ UNCHANGED <<vectors, builds, accounts, recovery, era, sessions>>
Save ==
  /\ recovery' = CopyOf(recovery) /\ db' = Touched
  /\ UNCHANGED <<vectors, builds, accounts, backups, era, sessions>>
Replace ==
  /\ db' = chosen /\ era' = era + 1
  /\ UNCHANGED <<vectors, builds, accounts, backups, recovery, sessions>>
Forget ==
  /\ sessions' = {}
  /\ UNCHANGED files
Unlink ==
  /\ db' = Absent /\ era' = era + 1
  /\ UNCHANGED <<vectors, builds, accounts, backups, recovery, sessions>>
WriteUsers ==
  /\ accounts' = "users_only"
  /\ UNCHANGED <<db, vectors, builds, backups, recovery, era, sessions>>
WriteCredentials ==
  /\ accounts' = "both"
  /\ UNCHANGED <<db, vectors, builds, backups, recovery, era, sessions>>
Open ==
  /\ db' = Opened
  /\ UNCHANGED <<vectors, builds, accounts, backups, recovery, era, sessions>>
Drop ==
  /\ vectors' = Empty
  /\ UNCHANGED <<db, builds, accounts, backups, recovery, era, sessions>>
Fill ==
  /\ builds' = builds + 1
  /\ vectors' = [build |-> builds', whole |-> FALSE]
  /\ UNCHANGED <<db, accounts, backups, recovery, era, sessions>>
FillRest ==
  /\ vectors' = [vectors EXCEPT !.whole = TRUE]
  /\ UNCHANGED <<db, builds, accounts, backups, recovery, era, sessions>>
State ==
  /\ db' = [db EXCEPT !.state = builds]
  /\ UNCHANGED <<vectors, builds, accounts, backups, recovery, era, sessions>>

Effect(step) ==
  CASE step = "backup" -> Backup
    [] step = "save" -> Save
    [] step = "replace" -> Replace
    [] step = "forget" -> Forget
    [] step = "unlink" -> Unlink
    [] step = "users" -> WriteUsers
    [] step = "credentials" -> WriteCredentials
    [] step = "open" -> Open
    [] step = "drop" -> Drop
    [] step = "fill" -> Fill
    [] step = "fill_rest" -> FillRest
    [] step \in {"state", "tables"} -> State
    [] step \in {"inspect", "fit", "verify"} -> UNCHANGED <<files, sessions>>

(* initialize_demo ingests when the database has no retrieval state or the   *)
(* index is empty: it compares no contents.                                  *)
FaultStateOnly == db.state = 0
NeedsIngestion == db.state = 0 \/ vectors.build = 0

Remaining(p) ==
  IF Head(plan[p]) = "inspect"
  THEN IF NeedsIngestion THEN <<"drop", "fill", "fill_rest", "tables", "verify">>
                         ELSE <<"verify">>
  ELSE Tail(plan[p])

(* What makes a step raise: BM25Encoder.fit refuses to fit no documents, and *)
(* initialize_demo ends with a check of the database.                        *)
Passes(step) ==
  /\ step = "fit" => db.state # 0
  /\ step = "verify" => Verified(db)

Step(p) ==
  /\ plan[p] # <<>>
  /\ Passes(Head(plan[p]))
  /\ Effect(Head(plan[p]))
  /\ plan' = [plan EXCEPT ![p] = Remaining(p)]
  /\ UNCHANGED <<server, kind, lease, chosen, cuts, ops, crashes,
                 clock, issued, asked, limiter>>

(* The lease is let go when the last step is done.                           *)
Initialized ==
  /\ server = "starting" /\ plan["server"] = <<>>
  /\ server' = "ready" /\ lease' = "free"
  /\ UNCHANGED <<files, plan, kind, chosen, cuts, ops, crashes, admission>>

(* What an operation that completed has put right.                           *)
IndexCuts ==
  ({"restore"} \X {"forget", "open", "fit", "drop", "fill_rest", "state"})
    \cup ({"rebuild"} \X {"fill_rest", "state"})
    \cup ({"start"} \X {"fill_rest", "tables"})
SessionCuts == {<<"restore", "forget">>}
AccountCuts == {"start", "reset"} \X {"credentials"}
GapCuts == {"gap"} \X Steps

Repaired(k) ==
  CASE k = "backup" -> {}
    [] k = "rebuild" -> IndexCuts \ SessionCuts
    [] k = "restore" -> IndexCuts
    [] k = "reset" -> IndexCuts \cup AccountCuts \cup GapCuts

Completed ==
  /\ kind # "start" /\ plan["tool"] = <<>>
  /\ kind' = "start" /\ lease' = "free" /\ chosen' = Absent
  /\ cuts' = cuts \ Repaired(kind)
  /\ UNCHANGED <<files, server, plan, ops, crashes, admission>>

(* A crash or an error; the lock of a process that ends is released.  A tool *)
(* cut in the gap between initialize_demo and the lifespan meets no check.   *)
Cutting(p) ==
  CASE p = "server" -> "start"
    [] p = "tool" /\ server = "ready" -> "gap"
    [] p = "tool" /\ server # "ready" -> kind
Cut(p) ==
  /\ plan[p] # <<>>
  /\ IF Passes(Head(plan[p])) THEN crashes < MaxCuts /\ crashes' = crashes + 1
                              ELSE UNCHANGED crashes
  /\ cuts' = cuts \cup {<<Cutting(p), Head(plan[p])>>}
  /\ plan' = [plan EXCEPT ![p] = <<>>]
  /\ lease' = "free"
  /\ IF p = "server" THEN server' = "stopped" /\ UNCHANGED <<kind, chosen>>
     ELSE kind' = "start" /\ chosen' = Absent /\ UNCHANGED server
  /\ UNCHANGED <<files, ops, admission>>

-----------------------------------------------------------------------------
(* While serving, reviews change the database and an admin may register an   *)
(* upload, unless the demo is read-only.                                     *)
Decide ==
  /\ server = "serving" /\ ~ReadOnly
  /\ Tables(db) /\ db.state # 0 /\ db.decisions < MaxDecisions
  /\ db' = [db EXCEPT !.decisions = @ + 1]
  /\ UNCHANGED <<vectors, builds, accounts, backups, recovery, era, control, admission>>

RegisterUpload ==
  /\ server = "serving" /\ ~ReadOnly /\ ~Opened.managed
  /\ db' = [Opened EXCEPT !.managed = TRUE]
  /\ UNCHANGED <<vectors, builds, accounts, backups, recovery, era, control, admission>>

Admitted ==
  /\ server = "serving"
  /\ AdmissionNext(era)
  /\ UNCHANGED <<files, control>>

MaintenanceNext ==
  \/ StartServer \/ Initialized \/ Serve \/ ServeFails \/ StopServer
  \/ \E k \in Kinds : StartTool(k)
  \/ Completed
  \/ \E p \in Processes : Step(p) \/ Cut(p)
  \/ Decide \/ RegisterUpload \/ Admitted

MaintenanceSpec == MaintenanceInit /\ [][MaintenanceNext]_all

-----------------------------------------------------------------------------
(* The processes and the files have their types.                             *)
MaintenanceTypeOK ==
  /\ AdmissionTypeOK
  /\ server \in {"stopped", "starting", "ready", "serving"}
  /\ plan \in [Processes -> Seq(Steps)]
  /\ kind \in Kinds \cup {"start"}
  /\ lease \in {"free"} \cup Processes
  /\ {db, chosen} \subseteq Databases \cup {Absent, Hollow}
  /\ backups \cup recovery \subseteq Databases
  /\ vectors \in [build : Nat, whole : BOOLEAN]
  /\ accounts \in {"none", "users_only", "both"}
  /\ {builds, era, ops, crashes} \subseteq Nat
  /\ cuts \subseteq (Kinds \cup {"start", "gap"}) \X Steps

(* what the server serves fits together: the index is a whole one and the    *)
(* one the retrieval state of the database describes, no session is older    *)
(* than the database, and the credentials open the accounts.  Only the named *)
(* cuts, not yet repaired by a completed operation, leave it otherwise: the  *)
(* lease keeps the tool away while the server works, an interrupted reset is *)
(* made good by the next start, and an index lost altogether is rebuilt.     *)
ServedStoresAgree ==
  server = "serving" =>
    /\ (vectors.whole /\ Tables(db) /\ vectors.build = db.state)
         \/ cuts \cap (IndexCuts \cup GapCuts) # {}
    /\ (\A s \in sessions : s.era = era) \/ cuts \cap (SessionCuts \cup GapCuts) # {}
    /\ accounts = "both" \/ cuts \cap (AccountCuts \cup GapCuts) # {}

(* the tool never puts another database in the place of one with decisions   *)
(* or uploads unless it is in a recovery copy, or the operator asked for a   *)
(* reset of a database without uploads; whatever is cut in between.          *)
NothingUnsavedIsReplaced ==
  [][\A d \in {db} : Tables(d) /\ server # "serving" /\ db' # d =>
       \/ d \in recovery
       \/ kind = "reset" /\ ~d.managed
       \/ Tables(db') /\ db'.decisions = d.decisions /\ db'.managed = d.managed]_all
=============================================================================

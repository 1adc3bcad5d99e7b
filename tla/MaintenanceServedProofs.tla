------------------------ MODULE MaintenanceServedProofs ------------------------
(***************************************************************************)
(* What the demo server serves fits together (ServedStoresAgree), for any  *)
(* number of operations and cuts.  The names of the steps serve as program *)
(* counters: where a process is in its plan says how far the files are.    *)
(***************************************************************************)
EXTENDS MaintenanceProofs

(* The step at the head of a plan, and the one after it.                    *)
At(s) == IF s = <<>> THEN "end" ELSE s[1]
ToolAt == At(plan["tool"])
ServerAt == At(plan["server"])

Succ(k, x) ==
  CASE x = "save" -> "replace"
    [] x = "replace" -> "forget"
    [] x = "forget" -> IF k = "reset" THEN "unlink" ELSE "open"
    [] x = "unlink" -> "users"
    [] x = "users" -> "credentials"
    [] x = "credentials" -> "open"
    [] x = "open" -> IF k = "start" THEN "inspect" ELSE IF k = "reset" THEN "drop" ELSE "fit"
    [] x = "fit" -> "drop"
    [] x = "drop" -> "fill"
    [] x = "fill" -> "fill_rest"
    [] x = "fill_rest" -> IF k \in {"start", "reset"} THEN "tables" ELSE "state"
    [] x = "tables" -> IF k = "start" THEN "verify" ELSE "end"
    [] OTHER -> "end"

Chain(k, s) ==
  \A j \in DOMAIN s : Succ(k, s[j]) = IF j + 1 \in DOMAIN s THEN s[j + 1] ELSE "end"

(* Where each process may be.                                               *)
Stops(k) ==
  CASE k = "start" -> {"end"}
    [] k = "backup" -> {"backup", "end"}
    [] k = "restore" -> {"save", "replace", "forget", "open", "fit", "drop", "fill", "fill_rest",
                         "state", "end"}
    [] k = "rebuild" -> {"open", "fit", "drop", "fill", "fill_rest", "state", "end"}
    [] k = "reset" -> {"forget", "unlink", "users", "credentials", "open", "drop", "fill",
                       "fill_rest", "tables", "end"}
ServerStops ==
  {"users", "credentials", "open", "inspect", "drop", "fill", "fill_rest", "tables", "verify",
   "end"}

ChainsInv ==
  /\ Chain("start", plan["server"]) /\ ServerAt \in ServerStops
  /\ Chain(kind, plan["tool"]) /\ ToolAt \in Stops(kind)

(* What is left after the first step of a chain is a chain.                 *)
LEMMA ChainRest ==
  ASSUME NEW k, NEW s \in Seq(Steps), s # <<>>, Chain(k, s)
  PROVE  Chain(k, Tail(s)) /\ At(Tail(s)) = Succ(k, Head(s)) /\ At(s) = Head(s)
<1> DEFINE r == Tail(s)
<1>1. /\ DOMAIN s = 1..Len(s) /\ Len(s) \in Nat \ {0} /\ Head(s) = s[1]
      /\ r \in Seq(Steps) /\ Len(r) = Len(s) - 1 /\ DOMAIN r = 1..(Len(s) - 1)
      /\ \A i \in 1..(Len(s) - 1) : r[i] = s[i + 1]
  OBVIOUS
<1>2. Chain(k, r)
  <2> SUFFICES ASSUME NEW j \in DOMAIN r
               PROVE  Succ(k, r[j]) = IF j + 1 \in DOMAIN r THEN r[j + 1] ELSE "end"
    BY DEF Chain
  <2>1. j + 1 \in DOMAIN s /\ r[j] = s[j + 1]
        /\ (j + 1 \in DOMAIN r <=> (j + 1) + 1 \in DOMAIN s)
        /\ (j + 1 \in DOMAIN r => r[j + 1] = s[(j + 1) + 1])
    BY <1>1
  <2>2. Succ(k, s[j + 1]) = IF (j + 1) + 1 \in DOMAIN s THEN s[(j + 1) + 1] ELSE "end"
    BY <2>1 DEF Chain
  <2> QED BY <2>1, <2>2
<1>3. At(r) = Succ(k, Head(s))
  <2>1. 1 \in DOMAIN s /\ Succ(k, s[1]) = IF 1 + 1 \in DOMAIN s THEN s[1 + 1] ELSE "end"
    BY <1>1 DEF Chain
  <2>2. CASE Len(s) = 1
    <3>1. r = <<>> /\ 1 + 1 \notin DOMAIN s
      BY <1>1, <2>2
    <3> QED BY <1>1, <2>1, <3>1 DEF At
  <2>3. CASE Len(s) # 1
    <3>1. Len(s) >= 2
      BY <1>1, <2>3
    <3>2. 1 + 1 \in DOMAIN s /\ 1 \in 1..(Len(s) - 1) /\ r[1] = s[1 + 1]
      BY <1>1, <3>1
    <3>3. r # <<>>
      <4>1. Len(r) >= 1
        BY <1>1, <3>1
      <4> HIDE DEF r
      <4> QED BY <4>1
    <3> QED BY <1>1, <2>1, <3>2, <3>3 DEF At
  <2> QED BY <2>2, <2>3
<1> QED BY <1>1, <1>2, <1>3 DEF At

(* The plans of the tool are chains.                                        *)
LEMMA PlanChains ==
  ASSUME NEW k \in Kinds
  PROVE  Chain(k, Plan(k)) /\ At(Plan(k)) \in Stops(k)
<1> USE DEF Chain, At, Succ, Plan, Stops
<1>1. CASE k = "backup"
  BY <1>1
<1>2. CASE k = "restore"
  BY <1>2
<1>3. CASE k = "reset"
  BY <1>3
<1>4. CASE k = "rebuild"
  BY <1>4
<1> QED BY <1>1, <1>2, <1>3, <1>4 DEF Kinds

(* So are those of the server.                                              *)
LEMMA ServerChains ==
  /\ Chain("start", Initialize)
  /\ At(Initialize) = IF accounts = "none" THEN "users" ELSE "open"
  /\ Chain("start", <<"drop", "fill", "fill_rest", "tables", "verify">>)
  /\ Chain("start", <<"verify">>)
<1> USE DEF Chain, At, Succ
<1>1. Chain("start", <<"users", "credentials", "open", "inspect">>)
  OBVIOUS
<1>2. Chain("start", <<"open", "inspect">>)
  OBVIOUS
<1>3. Chain("start", <<"drop", "fill", "fill_rest", "tables", "verify">>)
  OBVIOUS
<1>4. Chain("start", <<"verify">>)
  OBVIOUS
<1> QED BY <1>1, <1>2, <1>3, <1>4 DEF Initialize

(* A step of the tool moves it one on; the server stands still.             *)
LEMMA ToolMoves ==
  ASSUME Safe, ChainsInv, Step("tool")
  PROVE  /\ ToolAt \in Steps /\ Effect(ToolAt) /\ Passes(ToolAt)
         /\ ToolAt' = Succ(kind, ToolAt) /\ ServerAt = "end" /\ ServerAt' = "end"
         /\ kind \in Kinds /\ kind' = kind /\ server \in {"stopped", "ready"} /\ server' = server
         /\ ChainsInv'
<1> DEFINE s == plan["tool"]
<1>1. /\ s \in Seq(Steps) /\ s # <<>> /\ Chain(kind, s) /\ ToolAt \in Stops(kind)
      /\ plan \in [Processes -> Seq(Steps)] /\ "tool" \in Processes /\ "server" \in Processes
  BY DEF Safe, ChainsInv, Step, Processes
<1>2. /\ Head(s) \in Steps /\ Effect(Head(s)) /\ Passes(Head(s))
      /\ kind' = kind /\ server' = server
      /\ plan' = [plan EXCEPT !["tool"] = Remaining("tool")]
  BY <1>1, TailOf DEF Step
<1>3. ToolAt = Head(s) /\ Chain(kind, Tail(s)) /\ At(Tail(s)) = Succ(kind, ToolAt)
  BY <1>1, ChainRest DEF ToolAt
<1>4. /\ plan["server"] = <<>> /\ kind \in Kinds /\ lease = "tool"
      /\ server \in {"stopped", "ready"}
  BY <1>1 DEF Safe, Leases, ControlOK
<1>5. ToolAt # "inspect"
  BY <1>1, <1>4 DEF Stops, Kinds
<1>6. plan'["tool"] = Tail(s) /\ plan'["server"] = <<>>
  BY <1>1, <1>2, <1>3, <1>4, <1>5 DEF Remaining
<1>7. ServerAt = "end" /\ ServerAt' = "end" /\ Chain("start", plan'["server"])
  BY <1>4, <1>6 DEF ServerAt, At, Chain
<1>8. ToolAt' = Succ(kind, ToolAt)
  BY <1>3, <1>6 DEF ToolAt
<1>9. Succ(kind, ToolAt) \in Stops(kind)
  BY <1>1, <1>4, <1>3, <1>2 DEF Stops, Succ, Kinds, Steps
<1>10. ChainsInv'
  BY <1>2, <1>3, <1>6, <1>7, <1>8, <1>9 DEF ChainsInv, ServerStops
<1> QED BY <1>2, <1>3, <1>4, <1>7, <1>8, <1>10

(* A step of the server moves it one on, or on to what it has to ingest;    *)
(* no operation of the tool is under way.                                   *)
LEMMA ServerMoves ==
  ASSUME Safe, ChainsInv, Step("server")
  PROVE  /\ ServerAt \in Steps /\ Effect(ServerAt) /\ Passes(ServerAt)
         /\ ServerAt' = IF ServerAt = "inspect" THEN IF NeedsIngestion THEN "drop" ELSE "verify"
                        ELSE Succ("start", ServerAt)
         /\ ServerAt = "inspect" => Tables(db)
         /\ ToolAt = "end" /\ ToolAt' = "end"
         /\ kind = "start" /\ kind' = kind /\ server = "starting" /\ server' = server
         /\ ChainsInv'
<1> DEFINE s == plan["server"]
<1>1. /\ s \in Seq(Steps) /\ s # <<>> /\ Chain("start", s) /\ ServerAt \in ServerStops
      /\ plan \in [Processes -> Seq(Steps)] /\ "tool" \in Processes /\ "server" \in Processes
  BY DEF Safe, ChainsInv, Step, Processes
<1>2. /\ Head(s) \in Steps /\ Effect(Head(s)) /\ Passes(Head(s))
      /\ kind' = kind /\ server' = server
      /\ plan' = [plan EXCEPT !["server"] = Remaining("server")]
  BY <1>1, TailOf DEF Step
<1>3. ServerAt = Head(s) /\ Chain("start", Tail(s)) /\ At(Tail(s)) = Succ("start", ServerAt)
  BY <1>1, ChainRest DEF ServerAt
<1>4. plan["tool"] = <<>> /\ kind = "start" /\ server = "starting"
  BY <1>1 DEF Safe, Leases
<1>5. ServerAt = "inspect" => Tables(db)
  BY <1>1, <1>3, StepPlans DEF NeedsTables
<1>6. plan'["server"] = Remaining("server") /\ plan'["tool"] = <<>>
  BY <1>1, <1>2, <1>4
<1>7. /\ Chain("start", Remaining("server"))
      /\ At(Remaining("server")) =
           IF ServerAt = "inspect" THEN IF NeedsIngestion THEN "drop" ELSE "verify"
           ELSE Succ("start", ServerAt)
  <2>1. /\ At(<<"drop", "fill", "fill_rest", "tables", "verify">>) = "drop"
        /\ At(<<"verify">>) = "verify"
    BY DEF At
  <2> QED BY <1>3, <2>1, ServerChains DEF Remaining
<1>8. ToolAt = "end" /\ ToolAt' = "end" /\ Chain("start", plan'["tool"])
  BY <1>4, <1>6 DEF ToolAt, At, Chain
<1>9. ServerAt' = IF ServerAt = "inspect" THEN IF NeedsIngestion THEN "drop" ELSE "verify"
                  ELSE Succ("start", ServerAt)
  BY <1>6, <1>7 DEF ServerAt
<1>10. ServerAt' \in ServerStops
  BY <1>1, <1>9 DEF ServerStops, Succ
<1>11. ChainsInv'
  BY <1>2, <1>4, <1>6, <1>7, <1>8, <1>10 DEF ChainsInv, Stops
<1> QED BY <1>2, <1>3, <1>4, <1>5, <1>8, <1>9, <1>11

(* A start begins the plan of the server.                                   *)
LEMMA StartMoves ==
  ASSUME Safe, ChainsInv, StartServer
  PROVE  /\ ServerAt' = IF accounts = "none" THEN "users" ELSE "open"
         /\ ToolAt = "end" /\ ToolAt' = "end" /\ kind = "start" /\ kind' = kind
         /\ ServerAt = "end" /\ server = "stopped" /\ server' = "starting"
         /\ UNCHANGED files /\ UNCHANGED admission /\ cuts' = cuts
         /\ ChainsInv'
<1>1. /\ plan' = [plan EXCEPT !["server"] = Initialize] /\ plan \in [Processes -> Seq(Steps)]
      /\ lease = "free" /\ kind' = kind /\ server = "stopped" /\ server' = "starting"
      /\ UNCHANGED files /\ UNCHANGED admission /\ cuts' = cuts
  BY DEF StartServer, TakeLease, CanLease, Safe
<1>2. plan["tool"] = <<>> /\ plan["server"] = <<>> /\ kind = "start"
  BY <1>1 DEF Safe, Leases
<1>3. plan'["tool"] = <<>> /\ plan'["server"] = Initialize
  BY <1>1, <1>2 DEF Processes
<1> QED BY <1>1, <1>2, <1>3, ServerChains
        DEF ChainsInv, ServerAt, ToolAt, At, Chain, Stops, ServerStops

(* An operation begins its plan.                                            *)
LEMMA OperationMoves ==
  ASSUME Safe, ChainsInv, NEW k \in Kinds, StartTool(k)
  PROVE  /\ ToolAt' = At(Plan(k)) /\ ToolAt = "end" /\ ServerAt = "end" /\ ServerAt' = "end"
         /\ kind = "start" /\ kind' = k /\ server \in {"stopped", "ready"} /\ server' = server
         /\ UNCHANGED files /\ UNCHANGED admission /\ cuts' = cuts
         /\ ChainsInv'
<1>1. /\ plan' = [plan EXCEPT !["tool"] = Plan(k)] /\ plan \in [Processes -> Seq(Steps)]
      /\ lease = "free" /\ kind' = k /\ server' = server
      /\ UNCHANGED files /\ UNCHANGED admission /\ cuts' = cuts
  BY DEF StartTool, TakeLease, CanLease, Safe
<1>2. /\ plan["tool"] = <<>> /\ plan["server"] = <<>> /\ kind = "start"
      /\ server \in {"stopped", "ready"}
  BY <1>1 DEF Safe, Leases, ControlOK
<1>3. plan'["tool"] = Plan(k) /\ plan'["server"] = <<>>
  BY <1>1, <1>2 DEF Processes
<1> QED BY <1>1, <1>2, <1>3, PlanChains
        DEF ChainsInv, ServerAt, ToolAt, At, Chain, Stops, ServerStops

(* A cut leaves no plan, and a mark of the step it was at.                  *)
LEMMA CutMoves ==
  ASSUME Safe, ChainsInv, NEW p \in Processes, Cut(p)
  PROVE  /\ ToolAt' = "end" /\ ServerAt' = "end" /\ kind' = "start"
         /\ UNCHANGED files /\ UNCHANGED admission
         /\ p = "server" => /\ cuts' = cuts \cup {<<"start", ServerAt>>}
                            /\ ServerAt \in Steps /\ ToolAt = "end" /\ kind = "start"
                            /\ server = "starting" /\ server' = "stopped"
         /\ p = "tool" => /\ cuts' = cuts \cup
                                      {<<IF server = "ready" THEN "gap" ELSE kind, ToolAt>>}
                          /\ ToolAt \in Steps /\ ServerAt = "end" /\ kind \in Kinds
                          /\ server \in {"stopped", "ready"} /\ server' = server
         /\ ChainsInv'
<1>1. /\ plan' = [plan EXCEPT ![p] = <<>>] /\ plan[p] # <<>> /\ plan \in [Processes -> Seq(Steps)]
      /\ UNCHANGED files /\ UNCHANGED admission
      /\ cuts' = cuts \cup {<<Cutting(p), Head(plan[p])>>}
      /\ p = "server" => server' = "stopped" /\ kind' = kind
      /\ p = "tool" => kind' = "start" /\ server' = server
  BY DEF Cut, Safe
<1>2. Head(plan[p]) \in Steps /\ At(plan[p]) = Head(plan[p])
  BY <1>1, TailOf DEF At
<1>3. /\ p = "server" => server = "starting" /\ plan["tool"] = <<>> /\ kind = "start"
      /\ p = "tool" => plan["server"] = <<>> /\ kind \in Kinds /\ server \in {"stopped", "ready"}
  BY <1>1 DEF Safe, Leases, ControlOK
<1>4. plan'["tool"] = <<>> /\ plan'["server"] = <<>> /\ kind' = "start"
  BY <1>1, <1>3 DEF Processes
<1>5. ToolAt' = "end" /\ ServerAt' = "end" /\ ChainsInv'
  BY <1>4 DEF ChainsInv, ServerAt, ToolAt, At, Chain, Stops, ServerStops
<1>6. p = "server" => cuts' = cuts \cup {<<"start", ServerAt>>} /\ ToolAt = "end"
  BY <1>1, <1>2, <1>3 DEF Cutting, ServerAt, ToolAt, At
<1>7. p = "tool" => /\ cuts' = cuts \cup {<<IF server = "ready" THEN "gap" ELSE kind, ToolAt>>}
                    /\ ServerAt = "end"
  BY <1>1, <1>2, <1>3 DEF Cutting, ServerAt, ToolAt, At
<1> QED BY <1>1, <1>2, <1>3, <1>4, <1>5, <1>6, <1>7 DEF ServerAt, ToolAt

-----------------------------------------------------------------------------
(***************************************************************************)
(* The index and the database.  Good: what may be served.  Rebuilt: what   *)
(* the next start makes good.  While no process is between dropping the    *)
(* index, or replacing the database, and recording the new state, they are *)
(* one or the other, or a cut is marked.                                   *)
(***************************************************************************)
Good == vectors.whole /\ Tables(db) /\ vectors.build = db.state
Rebuilt == vectors.build = 0 \/ ~Tables(db) \/ db.state = 0
Marked(S) == \E x \in S \cup GapCuts : x \in cuts

Untouched ==
  /\ ServerAt \notin {"fill", "fill_rest", "tables"}
  /\ CASE kind = "start" -> TRUE
       [] kind = "backup" -> TRUE
       [] kind = "restore" -> ToolAt \in {"save", "replace"}
       [] kind = "rebuild" -> ToolAt \in {"open", "fit", "drop"}
       [] kind = "reset" -> ToolAt \in {"forget", "unlink"}
Early == server = "stopped" \/ ServerAt \in {"users", "credentials", "open", "inspect", "drop"}

Filling(x) ==
  /\ x = "fill" => vectors.build = 0
  /\ x = "fill_rest" => vectors.build = builds
  /\ x \in {"state", "tables"} => vectors.build = builds /\ vectors.whole

Resetting ==
  kind = "reset" => /\ ToolAt \in {"users", "credentials", "open"} => db = Absent
                    /\ ToolAt \in {"drop", "fill", "fill_rest", "tables"} => db.state = 0

Restored == kind \in {"restore", "rebuild", "reset"} /\ ToolAt = "end" => Good

IndexInv ==
  /\ vectors.build \in {0, builds}
  /\ Untouched => Good \/ Marked(IndexCuts) \/ (Rebuilt /\ Early)
  /\ Filling(ServerAt) /\ Filling(ToolAt) /\ Resetting /\ Restored

(* One step of the tool.                                                    *)
LEMMA ToolIndex ==
  ASSUME Safe, ChainsInv, IndexInv, Step("tool")
  PROVE  IndexInv'
<1> DEFINE x == ToolAt
<1>1. /\ x \in Steps /\ Effect(x) /\ Passes(x) /\ ToolAt' = Succ(kind, x)
      /\ ServerAt = "end" /\ ServerAt' = "end" /\ kind \in Kinds /\ kind' = kind
      /\ server \in {"stopped", "ready"} /\ server' = server /\ x \in Stops(kind)
  BY ToolMoves DEF ChainsInv
<1>2. cuts' = cuts /\ FilesOK /\ FilesOK' /\ (x \in NeedsTables => Tables(db))
  BY StepPlans, ToolMoves DEF Step, Safe, ToolAt, At, Processes
<1> HIDE DEF x
<1> USE DEF IndexInv, Good, Rebuilt, Marked, Untouched, Early, Filling, Resetting, Restored
<1>3. CASE x = "backup"
  BY <1>1, <1>2, <1>3 DEF Effect, Backup, Touched, Tables, Stops, Kinds, Succ, x
<1>4. CASE x = "save"
  BY <1>1, <1>2, <1>4 DEF Effect, Save, Touched, Tables, Stops, Kinds, Succ, x
<1>5. CASE x = "replace"
  BY <1>1, <1>2, <1>5 DEF Effect, Replace, Stops, Kinds, Succ, x
<1>6. CASE x = "forget"
  BY <1>1, <1>2, <1>6 DEF Effect, Forget, files, Stops, Kinds, Succ, x
<1>7. CASE x = "unlink"
  BY <1>1, <1>2, <1>7 DEF Effect, Unlink, Stops, Kinds, Succ, x
<1>8. CASE x = "users"
  BY <1>1, <1>2, <1>8 DEF Effect, WriteUsers, Stops, Kinds, Succ, x
<1>9. CASE x = "credentials"
  BY <1>1, <1>2, <1>9 DEF Effect, WriteCredentials, Stops, Kinds, Succ, x
<1>10. CASE x = "open"
  <2>1. /\ UNCHANGED <<vectors, builds>> /\ kind \in {"restore", "rebuild", "reset"}
        /\ db' = (IF Tables(db) THEN db ELSE New) /\ New.state = 0
        /\ ToolAt' = IF kind = "reset" THEN "drop" ELSE "fit"
    BY <1>1, <1>10 DEF Effect, Open, Opened, New, Stops, Kinds, Succ, x
  <2>2. CASE kind = "reset"
    BY <1>1, <1>2, <1>10, <2>1, <2>2 DEF Tables, x
  <2>3. CASE kind = "rebuild"
    <3>1. Good \/ Marked(IndexCuts) \/ (Rebuilt /\ server = "stopped")
      BY <1>1, <1>10, <2>3 DEF x
    <3>2. Good' \/ Marked(IndexCuts)' \/ (Rebuilt' /\ Early')
      BY <1>1, <1>2, <2>1, <3>1
    <3> QED BY <1>1, <2>1, <2>3, <3>2
  <2>4. CASE kind = "restore"
    BY <1>1, <2>1, <2>4
  <2> QED BY <2>1, <2>2, <2>3, <2>4
<1>11. CASE x = "fit"
  BY <1>1, <1>2, <1>11 DEF Effect, files, Stops, Kinds, Succ, x
<1>12. CASE x = "drop"
  <2>1. /\ vectors' = Empty /\ Empty.build = 0 /\ UNCHANGED <<db, builds>>
        /\ kind \in {"restore", "rebuild", "reset"} /\ ToolAt' = "fill"
    BY <1>1, <1>12 DEF Effect, Drop, Empty, Stops, Kinds, Succ, x
  <2> QED BY <1>1, <1>12, <2>1 DEF x
<1>13. CASE x = "fill"
  <2>1. /\ vectors'.build = builds' /\ db' = db
        /\ kind \in {"restore", "rebuild", "reset"} /\ ToolAt' = "fill_rest"
    BY <1>1, <1>13 DEF Effect, Fill, Stops, Kinds, Succ, x
  <2> QED BY <1>1, <1>13, <2>1 DEF x
<1>14. CASE x = "fill_rest"
  BY <1>1, <1>2, <1>14 DEF Effect, FillRest, Stops, Kinds, Succ, x, FilesOK
<1>15. CASE x \in {"state", "tables"}
  <2>1. db \in Databases /\ db' = [db EXCEPT !.state = builds] /\ vectors' = vectors
        /\ builds' = builds /\ vectors.build = builds /\ vectors.whole /\ builds \in Nat
    BY <1>1, <1>2, <1>15 DEF Effect, State, NeedsTables, FilesOK, Tables, x
  <2>2. db' \in Databases /\ db'.state = builds
    BY <2>1 DEF Databases
  <2>3. Good' /\ ToolAt' = "end"
    BY <1>1, <1>15, <2>1, <2>2, FilesAssumption DEF Tables, Succ, Stops, Kinds, x
  <2> QED BY <1>1, <2>1, <2>3
<1>16. CASE x \in {"inspect", "verify"}
  BY <1>1, <1>16 DEF Stops, Kinds
<1> QED BY <1>1, <1>3, <1>4, <1>5, <1>6, <1>7, <1>8, <1>9, <1>10, <1>11, <1>12, <1>13, <1>14,
           <1>15, <1>16 DEF Steps

(* One step of the server.                                                  *)
LEMMA ServerIndex ==
  ASSUME Safe, ChainsInv, IndexInv, Step("server")
  PROVE  IndexInv'
<1> DEFINE x == ServerAt
<1>1. /\ x \in Steps /\ Effect(x) /\ Passes(x) /\ ToolAt = "end" /\ ToolAt' = "end"
      /\ ServerAt' = IF x = "inspect" THEN IF NeedsIngestion THEN "drop" ELSE "verify"
                     ELSE Succ("start", x)
      /\ kind = "start" /\ kind' = kind /\ server = "starting" /\ server' = server
      /\ x \in ServerStops /\ (x = "inspect" => Tables(db))
  BY ServerMoves DEF ChainsInv
<1>2. cuts' = cuts /\ FilesOK /\ FilesOK' /\ (x \in NeedsTables => Tables(db))
  BY StepPlans, ServerMoves DEF Step, Safe, ServerAt, At, Processes
<1> HIDE DEF x
<1> USE DEF IndexInv, Good, Rebuilt, Marked, Untouched, Early, Filling, Resetting, Restored
<1>3. CASE x = "users"
  BY <1>1, <1>2, <1>3 DEF Effect, WriteUsers, Succ, x
<1>4. CASE x = "credentials"
  BY <1>1, <1>2, <1>4 DEF Effect, WriteCredentials, Succ, x
<1>5. CASE x = "open"
  BY <1>1, <1>2, <1>5 DEF Effect, Open, Opened, New, Tables, Succ, x
<1>6. CASE x = "inspect"
  BY <1>1, <1>2, <1>6 DEF Effect, files, NeedsIngestion, x
<1>7. CASE x = "drop"
  BY <1>1, <1>2, <1>7 DEF Effect, Drop, Empty, Succ, x
<1>8. CASE x = "fill"
  BY <1>1, <1>2, <1>8 DEF Effect, Fill, Succ, x
<1>9. CASE x = "fill_rest"
  BY <1>1, <1>2, <1>9 DEF Effect, FillRest, Succ, FilesOK, x
<1>10. CASE x = "tables"
  <2>1. db \in Databases /\ db' = [db EXCEPT !.state = builds] /\ vectors' = vectors
        /\ builds' = builds /\ vectors.build = builds /\ vectors.whole /\ builds \in Nat
    BY <1>1, <1>2, <1>10 DEF Effect, State, NeedsTables, FilesOK, Tables, x
  <2>2. db' \in Databases /\ db'.state = builds
    BY <2>1 DEF Databases
  <2>3. Good' /\ ServerAt' = "verify"
    BY <1>1, <1>10, <2>1, <2>2, FilesAssumption DEF Tables, Succ
  <2> QED BY <1>1, <2>1, <2>3
<1>11. CASE x = "verify"
  BY <1>1, <1>2, <1>11 DEF Effect, files, Succ, x
<1> QED BY <1>1, <1>3, <1>4, <1>5, <1>6, <1>7, <1>8, <1>9, <1>10, <1>11 DEF ServerStops, Steps

(* Every step of the system keeps the index and the database so.            *)
LEMMA IndexNext ==
  Safe /\ ChainsInv /\ IndexInv /\ [MaintenanceNext]_all => ChainsInv' /\ IndexInv'
<1> SUFFICES ASSUME Safe, ChainsInv, IndexInv, [MaintenanceNext]_all
             PROVE  ChainsInv' /\ IndexInv'
  OBVIOUS
<1> DEFINE Same == UNCHANGED <<vectors, db, builds>>
<1>1. ASSUME Same, UNCHANGED <<plan, kind>>, Marked(IndexCuts) => Marked(IndexCuts)',
             Early /\ Rebuilt => Early' \/ Good \/ Marked(IndexCuts)
      PROVE  ChainsInv' /\ IndexInv'
  BY <1>1 DEF ChainsInv, IndexInv, ToolAt, ServerAt, Good, Rebuilt, Untouched, Filling,
              Resetting, Restored
<1>2. CASE UNCHANGED all
  <2>1. Same /\ UNCHANGED <<plan, kind, cuts, server>>
    BY <1>2 DEF all, files, control
  <2> QED BY <1>1, <2>1 DEF Marked, Early, ServerAt
<1>3. CASE StartServer
  <2>1. Same
    BY <1>3, StartMoves DEF files
  <2> QED BY <1>3, <2>1, StartMoves
          DEF IndexInv, Good, Rebuilt, Untouched, Early, Filling, Resetting, Restored, Marked
<1>4. CASE Initialized
  <2>1. /\ Same /\ UNCHANGED <<plan, kind, cuts>> /\ server = "starting" /\ ServerAt = "end"
    BY <1>4 DEF Initialized, files, ServerAt, At
  <2> QED BY <1>1, <2>1 DEF Marked, Early
<1>5. CASE Serve \/ ServeFails \/ StopServer
  <2>1. /\ Same /\ UNCHANGED <<plan, kind, cuts>>
        /\ server \in {"ready", "serving"} /\ plan["server"] = <<>>
    BY <1>5 DEF Serve, ServeFails, StopServer, files, Safe, Leases
  <2>2. ~Early
    BY <2>1 DEF Early, ServerAt, At
  <2> QED BY <1>1, <2>1, <2>2 DEF Marked
<1>6. ASSUME NEW k \in Kinds, StartTool(k) PROVE ChainsInv' /\ IndexInv'
  <2>1. Same
    BY <1>6, OperationMoves DEF files
  <2>2. At(Plan(k)) = CASE k = "backup" -> "backup" [] k = "restore" -> "save"
                        [] k = "rebuild" -> "open" [] k = "reset" -> "forget"
    BY DEF At, Plan, Kinds
  <2>3. /\ ToolAt' = At(Plan(k)) /\ ServerAt = "end" /\ ServerAt' = "end" /\ cuts' = cuts
        /\ kind = "start" /\ kind' = k /\ server' = server /\ ChainsInv'
    BY <1>6, OperationMoves
  <2>4. Untouched /\ (Early => Early')
    BY <2>3 DEF Untouched, Early
  <2>5. Good \/ Marked(IndexCuts) \/ (Rebuilt /\ Early)
    BY <2>4 DEF IndexInv
  <2>6. ToolAt' \in {"backup", "save", "open", "forget"}
    BY <2>2, <2>3 DEF Kinds
  <2>7. Good' \/ Marked(IndexCuts)' \/ (Rebuilt' /\ Early')
    BY <2>1, <2>3, <2>4, <2>5 DEF Good, Rebuilt, Marked
  <2>8. (vectors.build)' \in {0, builds'} /\ Filling(ServerAt)'
    BY <2>1, <2>3 DEF IndexInv, Filling
  <2>9. Filling(ToolAt)' /\ Resetting' /\ Restored'
    <3>1. Filling(ToolAt)'
      BY <2>6 DEF Filling
    <3>2. Resetting'
      <4>1. kind' = "reset" => ToolAt' = "forget"
        BY <2>2, <2>3 DEF Kinds
      <4> QED BY <4>1 DEF Resetting
    <3>3. Restored'
      BY <2>6 DEF Restored
    <3> QED BY <3>1, <3>2, <3>3
  <2> QED BY <2>3, <2>7, <2>8, <2>9 DEF IndexInv
<1>7. CASE Completed
  <2>1. /\ Same /\ plan' = plan /\ kind' = "start" /\ server' = server
        /\ cuts' = cuts \ Repaired(kind) /\ ToolAt = "end" /\ kind \in Kinds
        /\ plan["tool"] = <<>> /\ plan["server"] = <<>>
    BY <1>7 DEF Completed, files, ToolAt, At, Safe, Leases, ControlOK
  <2>2. ToolAt' = "end" /\ ServerAt = "end" /\ ServerAt' = "end" /\ ChainsInv'
    BY <2>1 DEF ToolAt, ServerAt, At, ChainsInv, Chain, Stops, ServerStops
  <2>3. CASE kind = "backup"
    <3>1. cuts' = cuts
      BY <2>1, <2>3 DEF Repaired
    <3> QED BY <2>1, <2>2, <2>3, <3>1
            DEF IndexInv, Good, Rebuilt, Untouched, Early, Filling, Resetting, Restored, Marked
  <2>4. CASE kind # "backup"
    <3>1. Good'
      BY <2>1, <2>4 DEF IndexInv, Restored, Good, Kinds
    <3> QED BY <2>1, <2>2, <3>1 DEF IndexInv, Filling, Resetting, Restored
  <2> QED BY <2>3, <2>4
<1>8. CASE Step("tool")
  BY <1>8, ToolIndex, ToolMoves
<1>9. CASE Step("server")
  BY <1>9, ServerIndex, ServerMoves
<1>10. CASE Cut("server")
  <2>1. Same
    BY <1>10, CutMoves DEF files, Processes
  <2>2. /\ ToolAt' = "end" /\ ServerAt' = "end" /\ kind' = "start" /\ kind = "start"
        /\ cuts' = cuts \cup {<<"start", ServerAt>>} /\ server' = "stopped" /\ ChainsInv'
    BY <1>10, CutMoves DEF Processes
  <2>3. ServerAt \in {"fill_rest", "tables"} => Marked(IndexCuts)'
    BY <2>2 DEF Marked, IndexCuts
  <2>4. ServerAt = "fill" => Rebuilt
    BY DEF IndexInv, Filling, Rebuilt
  <2> QED BY <2>1, <2>2, <2>3, <2>4
          DEF IndexInv, Good, Rebuilt, Untouched, Early, Filling, Resetting, Restored, Marked
<1>11. CASE Cut("tool")
  <2>1. Same
    BY <1>11, CutMoves DEF files, Processes
  <2>2. /\ ToolAt' = "end" /\ ServerAt = "end" /\ ServerAt' = "end" /\ kind' = "start"
        /\ cuts' = cuts \cup {<<IF server = "ready" THEN "gap" ELSE kind, ToolAt>>}
        /\ server \in {"stopped", "ready"} /\ server' = server /\ ToolAt \in Steps
        /\ kind \in Kinds /\ ChainsInv'
    BY <1>11, CutMoves DEF Processes
  <2>3. CASE server = "ready"
    <3>1. Marked(IndexCuts)'
      BY <2>2, <2>3 DEF Marked, GapCuts
    <3> QED BY <2>1, <2>2, <3>1 DEF IndexInv, Filling, Resetting, Restored
  <2>4. CASE server = "stopped"
    <3>1. ToolAt = "fill" => Rebuilt
      BY DEF IndexInv, Filling, Rebuilt
    <3>2. CASE kind = "restore" /\ ~Untouched /\ ToolAt # "fill"
      <4>1. ToolAt \in {"forget", "open", "fit", "drop", "fill_rest", "state"}
        BY <2>2, <3>2 DEF Untouched, ChainsInv, Stops, Steps
      <4>2. <<kind, ToolAt>> \in IndexCuts /\ <<kind, ToolAt>> \in cuts'
        BY <2>2, <2>4, <3>2, <4>1 DEF IndexCuts
      <4>3. Marked(IndexCuts)'
        BY <4>2 DEF Marked, IndexCuts
      <4> QED BY <2>1, <2>2, <4>3 DEF IndexInv, Filling, Resetting, Restored
    <3>3. CASE kind = "rebuild" /\ ~Untouched /\ ToolAt # "fill"
      <4>1. ToolAt \in {"fill_rest", "state"}
        BY <2>2, <3>3 DEF Untouched, ChainsInv, Stops, Steps
      <4>2. <<kind, ToolAt>> \in IndexCuts /\ <<kind, ToolAt>> \in cuts'
        BY <2>2, <2>4, <3>3, <4>1 DEF IndexCuts
      <4>3. Marked(IndexCuts)'
        BY <4>2 DEF Marked, IndexCuts
      <4> QED BY <2>1, <2>2, <4>3 DEF IndexInv, Filling, Resetting, Restored
    <3>4. CASE kind = "reset" /\ ~Untouched
      <4>1. Rebuilt
        BY <2>2, <3>4 DEF IndexInv, Resetting, Rebuilt, Untouched, ChainsInv, Stops, Steps, Tables
      <4> QED BY <2>1, <2>2, <2>4, <4>1
              DEF IndexInv, Rebuilt, Early, Filling, Resetting, Restored
    <3>5. CASE Untouched \/ ToolAt = "fill"
      BY <2>1, <2>2, <2>4, <3>1, <3>5
         DEF IndexInv, Good, Rebuilt, Early, Filling, Resetting, Restored, Marked
    <3>6. kind = "backup" => Untouched
      BY <2>2 DEF Untouched
    <3> QED BY <2>2, <3>2, <3>3, <3>4, <3>5, <3>6 DEF Kinds
  <2> QED BY <2>2, <2>3, <2>4
<1>12. CASE Decide \/ RegisterUpload
  <2>1. /\ UNCHANGED <<vectors, builds, plan, kind, cuts, server>> /\ server = "serving"
        /\ plan["server"] = <<>> /\ plan["tool"] = <<>> /\ kind = "start"
    BY <1>12 DEF Decide, RegisterUpload, control, Safe, Leases
  <2>2. ToolAt = "end" /\ ToolAt' = "end" /\ ServerAt = "end" /\ ServerAt' = "end" /\ ChainsInv'
    BY <2>1 DEF ToolAt, ServerAt, At, ChainsInv
  <2>3. Good => Good'
    <3>1. ASSUME Tables(db) PROVE Tables(db') /\ db'.state = db.state
      <4>1. db \in Databases
        BY <3>1 DEF Safe, FilesOK, Tables
      <4>2. \/ db' = [db EXCEPT !.decisions = db.decisions + 1]
            \/ db' = [db EXCEPT !.managed = TRUE]
        BY <1>12, <3>1 DEF Decide, RegisterUpload, Opened
      <4>3. db' \in Databases /\ db'.state = db.state
        <5>1. db.decisions \in Nat /\ db.decisions + 1 \in Nat
          BY <4>1 DEF Databases
        <5>2. CASE db' = [db EXCEPT !.decisions = db.decisions + 1]
          BY <4>1, <5>1, <5>2 DEF Databases
        <5>3. CASE db' = [db EXCEPT !.managed = TRUE]
          BY <4>1, <5>3 DEF Databases
        <5> QED BY <4>2, <5>2, <5>3
      <4> QED BY <4>3, FilesAssumption DEF Tables
    <3> QED BY <2>1, <3>1 DEF Good
  <2>4. Good \/ Marked(IndexCuts)
    BY <2>1, <2>2 DEF IndexInv, Untouched, Early
  <2> QED BY <2>1, <2>2, <2>3, <2>4
          DEF IndexInv, Filling, Resetting, Restored, Marked
<1>13. CASE Admitted
  <2>1. Same /\ UNCHANGED <<plan, kind, cuts, server>>
    BY <1>13 DEF Admitted, files, control
  <2> QED BY <1>1, <2>1 DEF Marked, Early, ServerAt
<1> QED BY <1>2, <1>3, <1>4, <1>5, <1>6, <1>7, <1>8, <1>9, <1>10, <1>11, <1>12, <1>13
        DEF MaintenanceNext, Processes

-----------------------------------------------------------------------------
(***************************************************************************)
(* The sessions and the accounts.  Fresh: no session is older than the     *)
(* database.  The restore and the reset that go on to their end have put   *)
(* right what the marks of earlier cuts stand for.                         *)
(***************************************************************************)
Fresh == \A s \in sessions : s.era = era

FreshInv ==
  /\ Fresh \/ Marked(SessionCuts) \/ (kind = "restore" /\ ToolAt = "forget")
  /\ kind = "restore" /\ ToolAt \notin {"save", "replace", "forget"} => Fresh
  /\ kind = "reset" /\ ToolAt # "forget" => sessions = {}

AccountsInv ==
  /\ accounts = "users_only" => \/ Marked(AccountCuts)
                                \/ ServerAt = "credentials"
                                \/ kind = "reset" /\ ToolAt = "credentials"
  /\ accounts = "none" => /\ server \notin {"ready", "serving"}
                          /\ server = "starting" => ServerAt = "users"
  /\ kind = "reset" /\ ToolAt \notin {"forget", "unlink", "users", "credentials"}
       => accounts = "both"

(* What an operation that completed has not put right keeps its mark.       *)
LEMMA Unrepaired ==
  /\ \A k \in {"backup", "rebuild"}, x \in SessionCuts \cup GapCuts : x \notin Repaired(k)
  /\ \A k \in {"backup", "rebuild", "restore"}, x \in AccountCuts \cup GapCuts :
       x \notin Repaired(k)
<1> USE DEF Repaired, SessionCuts, GapCuts, AccountCuts, IndexCuts
<1>1. \A k \in {"backup", "rebuild"}, x \in SessionCuts \cup GapCuts : x \notin Repaired(k)
  OBVIOUS
<1>2. \A k \in {"backup", "rebuild", "restore"}, x \in AccountCuts \cup GapCuts :
        x \notin Repaired(k)
  OBVIOUS
<1> QED BY <1>1, <1>2

(* One step of the tool.                                                    *)
LEMMA ToolServed ==
  ASSUME Safe, ChainsInv, FreshInv, AccountsInv, Step("tool")
  PROVE  FreshInv' /\ AccountsInv'
<1> DEFINE x == ToolAt
<1>1. /\ x \in Steps /\ Effect(x) /\ ToolAt' = Succ(kind, x)
      /\ ServerAt = "end" /\ ServerAt' = "end" /\ kind \in Kinds /\ kind' = kind
      /\ server \in {"stopped", "ready"} /\ server' = server /\ x \in Stops(kind)
  BY ToolMoves DEF ChainsInv
<1>2. cuts' = cuts
  BY DEF Step
<1> HIDE DEF x
<1> USE DEF FreshInv, AccountsInv, Fresh, Marked
<1>3. CASE x = "replace"
  <2>1. /\ UNCHANGED <<accounts, sessions>> /\ kind = "restore" /\ ToolAt' = "forget"
    BY <1>1, <1>3 DEF Effect, Replace, Stops, Kinds, Succ, x
  <2> QED BY <1>1, <1>2, <2>1
<1>4. CASE x = "forget"
  <2>1. sessions' = {} /\ accounts' = accounts /\ kind \in {"restore", "reset"}
        /\ ToolAt' = IF kind = "reset" THEN "unlink" ELSE "open"
    BY <1>1, <1>4 DEF Effect, Forget, files, Stops, Kinds, Succ, x
  <2> QED BY <1>1, <1>2, <1>4, <2>1 DEF x
<1>5. CASE x = "unlink"
  <2>1. /\ UNCHANGED <<accounts, sessions>> /\ kind = "reset" /\ ToolAt' = "users"
    BY <1>1, <1>5 DEF Effect, Unlink, Stops, Kinds, Succ, x
  <2>2. sessions = {}
    BY <1>5, <2>1 DEF x
  <2> QED BY <1>1, <1>2, <1>5, <2>1, <2>2 DEF x
<1>6. CASE x = "users"
  <2>1. /\ UNCHANGED <<era, sessions>> /\ kind = "reset" /\ ToolAt' = "credentials"
        /\ accounts' = "users_only"
    BY <1>1, <1>6 DEF Effect, WriteUsers, Stops, Kinds, Succ, x
  <2> QED BY <1>1, <1>2, <1>6, <2>1 DEF x
<1>7. CASE x = "credentials"
  <2>1. /\ UNCHANGED <<era, sessions>> /\ kind = "reset" /\ ToolAt' = "open"
        /\ accounts' = "both"
    BY <1>1, <1>7 DEF Effect, WriteCredentials, Stops, Kinds, Succ, x
  <2> QED BY <1>1, <1>2, <1>7, <2>1 DEF x
<1>8. CASE x \in {"backup", "save", "open", "fit", "drop", "fill", "fill_rest", "state",
                  "tables"}
  <2>1. UNCHANGED <<era, sessions, accounts>>
    BY <1>1, <1>8 DEF Effect, Backup, Save, Open, Drop, Fill, FillRest, State, files
  <2>2. /\ kind = "restore" /\ ToolAt' \notin {"save", "replace", "forget"}
             => ToolAt \notin {"save", "replace", "forget"}
        /\ kind = "reset" => ToolAt \notin {"forget", "unlink", "users", "credentials"}
        /\ ToolAt # "forget"
    BY <1>1, <1>8 DEF Stops, Succ, x
  <2> QED BY <1>1, <1>2, <2>1, <2>2
<1>9. CASE x \in {"inspect", "verify"}
  BY <1>1, <1>9 DEF Stops, Kinds
<1> QED BY <1>1, <1>3, <1>4, <1>5, <1>6, <1>7, <1>8, <1>9 DEF Steps

(* One step of the server.                                                  *)
LEMMA ServerServed ==
  ASSUME Safe, ChainsInv, FreshInv, AccountsInv, Step("server")
  PROVE  FreshInv' /\ AccountsInv'
<1> DEFINE x == ServerAt
<1>1. /\ x \in Steps /\ Effect(x) /\ kind = "start" /\ kind' = kind
      /\ ServerAt' = IF x = "inspect" THEN IF NeedsIngestion THEN "drop" ELSE "verify"
                     ELSE Succ("start", x)
      /\ server = "starting" /\ server' = server /\ x \in ServerStops
  BY ServerMoves DEF ChainsInv
<1>2. cuts' = cuts
  BY DEF Step
<1> HIDE DEF x
<1> USE DEF FreshInv, AccountsInv, Fresh, Marked
<1>3. CASE x = "users"
  <2>1. UNCHANGED <<era, sessions>> /\ accounts' = "users_only" /\ ServerAt' = "credentials"
    BY <1>1, <1>3 DEF Effect, WriteUsers, Succ
  <2> QED BY <1>1, <1>2, <2>1
<1>4. CASE x = "credentials"
  <2>1. UNCHANGED <<era, sessions>> /\ accounts' = "both"
    BY <1>1, <1>4 DEF Effect, WriteCredentials
  <2> QED BY <1>1, <1>2, <2>1
<1>5. CASE x \notin {"users", "credentials"}
  <2>1. UNCHANGED <<era, sessions, accounts>>
    BY <1>1, <1>5 DEF Effect, Open, Drop, Fill, FillRest, State, files, ServerStops, Steps
  <2>2. accounts # "none" /\ (accounts = "users_only" => Marked(AccountCuts))
    BY <1>1, <1>5 DEF x
  <2> QED BY <1>1, <1>2, <2>1, <2>2
<1> QED BY <1>3, <1>4, <1>5

(* Every step of the system keeps the sessions and the accounts so.         *)
LEMMA ServedNext ==
  Safe /\ ChainsInv /\ FreshInv /\ AccountsInv /\ [MaintenanceNext]_all
    => FreshInv' /\ AccountsInv'
<1> SUFFICES ASSUME Safe, ChainsInv, FreshInv, AccountsInv, [MaintenanceNext]_all
             PROVE  FreshInv' /\ AccountsInv'
  OBVIOUS
<1> DEFINE Same == UNCHANGED <<era, sessions, accounts>>
<1>1. ASSUME Same, UNCHANGED <<plan, kind, cuts>>,
             accounts = "none" => UNCHANGED server
      PROVE  FreshInv' /\ AccountsInv'
  <2>1. UNCHANGED <<ToolAt, ServerAt>>
    BY <1>1 DEF ToolAt, ServerAt
  <2>2. accounts = "none" => /\ server' \notin {"ready", "serving"}
                             /\ server' = "starting" => ServerAt' = "users"
    BY <1>1, <2>1 DEF AccountsInv
  <2> QED BY <1>1, <2>1, <2>2 DEF FreshInv, AccountsInv, Fresh, Marked
<1>2. CASE UNCHANGED all
  BY <1>1, <1>2 DEF all, files, control, admission
<1>3. CASE StartServer
  <2>1. Same
    BY <1>3, StartMoves DEF files, admission
  <2> QED BY <1>3, <2>1, StartMoves DEF FreshInv, AccountsInv, Fresh, Marked
<1>4. CASE Initialized
  <2>1. Same /\ UNCHANGED <<plan, kind, cuts>> /\ server = "starting" /\ ServerAt = "end"
    BY <1>4 DEF Initialized, files, admission, ServerAt, At
  <2>2. accounts # "none"
    BY <2>1 DEF AccountsInv
  <2> QED BY <1>1, <2>1, <2>2
<1>5. CASE Serve \/ ServeFails \/ StopServer
  <2>1. Same /\ UNCHANGED <<plan, kind, cuts>> /\ server \in {"ready", "serving"}
    BY <1>5 DEF Serve, ServeFails, StopServer, files, admission
  <2>2. accounts # "none"
    BY <2>1 DEF AccountsInv
  <2> QED BY <1>1, <2>1, <2>2
<1>6. ASSUME NEW k \in Kinds, StartTool(k) PROVE FreshInv' /\ AccountsInv'
  <2>1. Same
    BY <1>6, OperationMoves DEF files, admission
  <2>2. /\ ToolAt' = At(Plan(k)) /\ ServerAt = "end" /\ ServerAt' = "end" /\ cuts' = cuts
        /\ kind = "start" /\ kind' = k /\ server' = server
    BY <1>6, OperationMoves
  <2>3. /\ k = "restore" => At(Plan(k)) = "save"
        /\ k = "reset" => At(Plan(k)) = "forget"
    BY DEF At, Plan
  <2> QED BY <2>1, <2>2, <2>3 DEF FreshInv, AccountsInv, Fresh, Marked
<1>7. CASE Completed
  <2>1. /\ Same /\ plan' = plan /\ kind' = "start" /\ server' = server
        /\ cuts' = cuts \ Repaired(kind) /\ kind \in Kinds /\ plan["tool"] = <<>>
    BY <1>7 DEF Completed, files, admission, Safe, ControlOK
  <2>2. ToolAt = "end" /\ UNCHANGED <<ToolAt, ServerAt>>
    BY <2>1 DEF ToolAt, ServerAt, At
  <2>3. Fresh' \/ Marked(SessionCuts)'
    <3>1. CASE kind \in {"restore", "reset"}
      BY <2>1, <2>2, <3>1 DEF FreshInv, Fresh
    <3>2. CASE kind \in {"backup", "rebuild"}
      BY <2>1, <3>2, Unrepaired DEF FreshInv, Fresh, Marked
    <3> QED BY <2>1, <3>1, <3>2 DEF Kinds
  <2>4. accounts = "users_only" => Marked(AccountCuts)' \/ ServerAt = "credentials"
    <3>1. CASE kind = "reset"
      BY <2>2, <3>1 DEF AccountsInv
    <3>2. CASE kind \in {"backup", "rebuild", "restore"}
      BY <2>1, <3>2, Unrepaired DEF AccountsInv, Marked
    <3> QED BY <2>1, <3>1, <3>2 DEF Kinds
  <2> QED BY <2>1, <2>2, <2>3, <2>4 DEF FreshInv, AccountsInv
<1>8. CASE Step("tool")
  BY <1>8, ToolServed
<1>9. CASE Step("server")
  BY <1>9, ServerServed
<1>10. CASE Cut("server")
  <2>1. Same
    BY <1>10, CutMoves DEF files, admission, Processes
  <2>2. /\ ServerAt' = "end" /\ kind' = "start" /\ kind = "start"
        /\ cuts' = cuts \cup {<<"start", ServerAt>>} /\ server' = "stopped"
    BY <1>10, CutMoves DEF Processes
  <2>3. ServerAt = "credentials" => Marked(AccountCuts)'
    BY <2>2 DEF Marked, AccountCuts
  <2> QED BY <2>1, <2>2, <2>3 DEF FreshInv, AccountsInv, Fresh, Marked
<1>11. CASE Cut("tool")
  <2>1. Same
    BY <1>11, CutMoves DEF files, admission, Processes
  <2>2. /\ ServerAt = "end" /\ ServerAt' = "end" /\ kind' = "start"
        /\ cuts' = cuts \cup {<<IF server = "ready" THEN "gap" ELSE kind, ToolAt>>}
        /\ server' = server /\ ToolAt \in Steps
    BY <1>11, CutMoves DEF Processes
  <2>3. kind = "restore" /\ ToolAt = "forget" => Marked(SessionCuts)'
    BY <2>2 DEF Marked, SessionCuts, GapCuts
  <2>4. kind = "reset" /\ ToolAt = "credentials" => Marked(AccountCuts)'
    <3>1. /\ ToolAt = "credentials" => <<"reset", ToolAt>> \in AccountCuts
          /\ <<"gap", ToolAt>> \in GapCuts
      BY <2>2 DEF AccountCuts, GapCuts
    <3> QED BY <2>2, <3>1 DEF Marked
  <2> QED BY <2>1, <2>2, <2>3, <2>4 DEF FreshInv, AccountsInv, Fresh, Marked
<1>12. CASE Decide \/ RegisterUpload
  <2>1. Same /\ UNCHANGED <<plan, kind, cuts, server>>
    BY <1>12 DEF Decide, RegisterUpload, control, admission
  <2> QED BY <1>1, <2>1
<1>13. CASE Admitted
  <2>1. /\ UNCHANGED <<era, accounts, plan, kind, cuts, server>> /\ kind = "start"
        /\ AdmissionNext(era)
    BY <1>13 DEF Admitted, files, control, Safe, Leases
  <2>2. \A s \in sessions' : s \in sessions \/ s.era = era
    <3>1. ASSUME NEW t \in Threads, CreateSession(t, era)
          PROVE  \A s \in sessions' : s \in sessions \/ s.era = era
      BY <3>1 DEF CreateSession, Newest, Live, Of, NewSession
    <3>2. ASSUME NEW t \in Threads, Authenticate(t) \/ Logout(t)
          PROVE  sessions' \subseteq sessions
      BY <3>2 DEF Authenticate, Logout, Live
    <3> QED BY <2>1, <3>1, <3>2
            DEF AdmissionNext, Tick, TooMany, WrongPassword, Login, Request
  <2>3. UNCHANGED <<ToolAt, ServerAt>>
    BY <2>1 DEF ToolAt, ServerAt
  <2> QED BY <2>1, <2>2, <2>3 DEF FreshInv, AccountsInv, Fresh, Marked
<1> QED BY <1>2, <1>3, <1>4, <1>5, <1>6, <1>7, <1>8, <1>9, <1>10, <1>11, <1>12, <1>13
        DEF MaintenanceNext, Processes

(* A server that serves has no plan and no tool beside it, so what it       *)
(* serves is as the invariants leave it once everybody is at the end.       *)
LEMMA ServedFollows ==
  Safe /\ IndexInv /\ FreshInv /\ AccountsInv => ServedStoresAgree
<1> SUFFICES ASSUME Safe, IndexInv, FreshInv, AccountsInv, server = "serving"
             PROVE  /\ Good \/ cuts \cap (IndexCuts \cup GapCuts) # {}
                    /\ Fresh \/ cuts \cap (SessionCuts \cup GapCuts) # {}
                    /\ accounts = "both" \/ cuts \cap (AccountCuts \cup GapCuts) # {}
  BY DEF ServedStoresAgree, Good, Fresh
<1>1. kind = "start" /\ plan["server"] = <<>>
  BY DEF Safe, Leases
<1>2. ServerAt = "end"
  BY <1>1 DEF ServerAt, At
<1>3. Good \/ Marked(IndexCuts)
  BY <1>1, <1>2 DEF IndexInv, Untouched, Early
<1>4. Fresh \/ Marked(SessionCuts)
  BY <1>1 DEF FreshInv
<1>5. accounts = "both" \/ Marked(AccountCuts)
  BY <1>1, <1>2 DEF AccountsInv, Safe, FilesOK
<1> QED BY <1>3, <1>4, <1>5 DEF Marked

(* What the demo server serves fits together: a whole index of the build    *)
(* the retrieval state names, no session older than the database, and       *)
(* credentials that open the accounts; only the named cuts of demo_ops and  *)
(* of the start leave it otherwise, until an operation repairs them.        *)
THEOREM ServedAgree == MaintenanceSpec => []ServedStoresAgree
<1>1. MaintenanceInit => ChainsInv /\ IndexInv /\ FreshInv /\ AccountsInv
  <2> SUFFICES ASSUME MaintenanceInit
               PROVE  ChainsInv /\ IndexInv /\ FreshInv /\ AccountsInv
    OBVIOUS
  <2>1. /\ kind = "start" /\ server = "stopped" /\ sessions = {} /\ accounts = "none"
        /\ plan["server"] = <<>> /\ plan["tool"] = <<>> /\ vectors.build = 0
    BY DEF MaintenanceInit, AdmissionInit, Processes, Empty
  <2>2. ToolAt = "end" /\ ServerAt = "end"
    BY <2>1 DEF ToolAt, ServerAt, At
  <2>3. ChainsInv
    BY <2>1, <2>2 DEF ChainsInv, Chain, Stops, ServerStops
  <2>4. IndexInv
    BY <2>1, <2>2 DEF IndexInv, Rebuilt, Early, Filling, Resetting, Restored
  <2>5. FreshInv /\ AccountsInv
    BY <2>1 DEF FreshInv, Fresh, AccountsInv
  <2> QED BY <2>3, <2>4, <2>5
<1> QED BY <1>1, IndexNext, ServedNext, ServedFollows, SafeInvariant, PTL DEF MaintenanceSpec
=============================================================================

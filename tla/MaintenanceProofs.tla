--------------------------- MODULE MaintenanceProofs ---------------------------
(***************************************************************************)
(* Theorems about Maintenance, and about the sessions of Admission in it,  *)
(* for every set of threads, users and tokens and every bound.             *)
(***************************************************************************)
EXTENDS Maintenance, FiniteSetTheorems, TLAPS

(* The sessions are finitely many and no user has more than the cap.        *)
SessionsInv == IsFiniteSet(sessions) /\ SessionsAreBounded

(* Fewer sessions are still bounded.                                        *)
LEMMA FewerSessions ==
  ASSUME SessionsInv, sessions' \subseteq sessions
  PROVE  SessionsInv'
<1>1. IsFiniteSet(sessions')
  BY FS_Subset DEF SessionsInv
<1>2. ASSUME NEW u \in Users
      PROVE  Cardinality(Of(u, sessions')) <= Cap
  <2>1. IsFiniteSet(Of(u, sessions)) /\ Of(u, sessions') \subseteq Of(u, sessions)
    BY FS_Subset DEF Of, SessionsInv
  <2>2. Cardinality(Of(u, sessions')) <= Cardinality(Of(u, sessions))
    BY <2>1, FS_Subset
  <2>3. Cardinality(Of(u, sessions)) <= Cap
    BY DEF SessionsInv, SessionsAreBounded
  <2>4. Cardinality(Of(u, sessions')) \in Nat /\ Cardinality(Of(u, sessions)) \in Nat
    BY <2>1, FS_Subset, FS_CardinalityType
  <2> QED BY <2>2, <2>3, <2>4, AdmissionAssumption
<1> QED BY <1>1, <1>2 DEF SessionsInv, SessionsAreBounded

(* A login keeps at most Cap - 1 of the user's sessions and adds one.       *)
LEMMA LoginSessions ==
  ASSUME SessionsInv, NEW t \in Threads, NEW e, CreateSession(t, e)
  PROVE  SessionsInv'
<1> DEFINE r == asked[t]
           live == Live(r.at)
           mine == Of(r.user, live)
           s == NewSession(r, e)
<1>1. PICK kept \in Newest(Kept, mine) : sessions' = (live \ mine) \cup kept \cup {s}
  BY DEF CreateSession
<1>2. /\ IsFiniteSet(live) /\ live \subseteq sessions
      /\ IsFiniteSet(mine) /\ kept \subseteq mine /\ IsFiniteSet(kept)
  BY <1>1, FS_Subset DEF SessionsInv, Live, Of, Newest
<1>3. IsFiniteSet(sessions')
  <2>1. IsFiniteSet((live \ mine) \cup kept)
    BY <1>2, FS_Subset, FS_Union
  <2> QED BY <1>1, <2>1, FS_AddElement
<1>4. Cardinality(kept) \in Nat /\ Cardinality(kept) <= Cap - 1
  <2>1. Cardinality(mine) \in Nat /\ Cardinality(kept) \in Nat
    BY <1>2, FS_CardinalityType
  <2>2. Cardinality(kept) = IF Cardinality(mine) < Kept THEN Cardinality(mine) ELSE Kept
    BY <1>1 DEF Newest
  <2> QED BY <2>1, <2>2, AdmissionAssumption DEF Kept
<1>5. ASSUME NEW u \in Users PROVE Cardinality(Of(u, sessions')) <= Cap
  <2>1. CASE u = r.user
    <3>1. Of(u, sessions') = kept \cup {s}
      BY <1>1, <1>2, <2>1 DEF Of, NewSession
    <3>2. Cardinality(kept \cup {s}) <= Cardinality(kept) + 1
      <4>1. Cardinality(kept \cup {s}) =
              IF s \in kept THEN Cardinality(kept) ELSE Cardinality(kept) + 1
        BY <1>2, FS_AddElement
      <4> QED BY <1>4, <4>1
    <3>3. Cardinality(kept \cup {s}) \in Nat
      BY <1>2, FS_AddElement, FS_CardinalityType
    <3> QED BY <1>4, <3>1, <3>2, <3>3, AdmissionAssumption
  <2>2. CASE u # r.user
    <3>1. Of(u, sessions') \subseteq Of(u, sessions)
      BY <1>1, <1>2, <2>2 DEF Of, NewSession
    <3>2. IsFiniteSet(Of(u, sessions))
      BY FS_Subset DEF Of, SessionsInv
    <3>3. Cardinality(Of(u, sessions')) <= Cardinality(Of(u, sessions))
      BY <3>1, <3>2, FS_Subset
    <3>4. Cardinality(Of(u, sessions)) <= Cap
      BY DEF SessionsInv, SessionsAreBounded
    <3>5. Cardinality(Of(u, sessions')) \in Nat /\ Cardinality(Of(u, sessions)) \in Nat
      BY <3>1, <3>2, FS_Subset, FS_CardinalityType
    <3> QED BY <3>3, <3>4, <3>5, AdmissionAssumption
  <2> QED BY <2>1, <2>2
<1> QED BY <1>3, <1>5 DEF SessionsInv, SessionsAreBounded

-----------------------------------------------------------------------------
(***************************************************************************)
(* Who works on the files, and with what left to do.  Leases: the holder   *)
(* of the lease is the only process with a plan.  An ordered plan opens    *)
(* the database, which creates its tables, between a step that may leave   *)
(* none and a step that needs them.                                        *)
(***************************************************************************)
Leases ==
  /\ server \in {"starting", "serving"} => lease = "server"
  /\ kind # "start" => lease = "tool"
  /\ plan["server"] # <<>> => server = "starting"
  /\ plan["tool"] # <<>> => kind # "start"

NeedsTables == {"inspect", "fit", "state", "tables"}
MayRemove == {"backup", "save", "replace", "unlink"}

Ordered(s) ==
  \A i, j \in DOMAIN s :
    i < j /\ s[i] \in MayRemove /\ s[j] \in NeedsTables
      => \E k \in DOMAIN s : i < k /\ k < j /\ s[k] = "open"

Prepared(s, d) ==
  \A j \in DOMAIN s :
    s[j] \in NeedsTables => Tables(d) \/ \E k \in DOMAIN s : k < j /\ s[k] = "open"

PlansInv ==
  \A p \in Processes :
    Ordered(plan[p]) /\ Prepared(plan[p], db)

(* Each plan is ordered and, before its first step, prepared.               *)
LEMMA PlansOrdered ==
  ASSUME NEW k \in Kinds
  PROVE  Plan(k) \in Seq(Steps) /\ Ordered(Plan(k)) /\ \A d : Prepared(Plan(k), d)
<1>1. CASE k = "backup"
  BY <1>1 DEF Plan, Steps, Ordered, Prepared, NeedsTables, MayRemove
<1>2. CASE k = "restore"
  BY <1>2 DEF Plan, Steps, Ordered, Prepared, NeedsTables, MayRemove
<1>3. CASE k = "reset"
  BY <1>3 DEF Plan, Steps, Ordered, Prepared, NeedsTables, MayRemove
<1>4. CASE k = "rebuild"
  BY <1>4 DEF Plan, Steps, Ordered, Prepared, NeedsTables, MayRemove
<1> QED BY <1>1, <1>2, <1>3, <1>4 DEF Kinds

(* So are those of the server, the second once the database is open.        *)
LEMMA StartOrdered ==
  Initialize \in Seq(Steps) /\ Ordered(Initialize) /\ \A d : Prepared(Initialize, d)
<1>1. CASE accounts = "none"
  BY <1>1 DEF Initialize, Steps, Ordered, Prepared, NeedsTables, MayRemove
<1>2. CASE accounts # "none"
  BY <1>2 DEF Initialize, Steps, Ordered, Prepared, NeedsTables, MayRemove
<1> QED BY <1>1, <1>2

(* What is left of a plan after its first step.                             *)
LEMMA TailOf ==
  ASSUME NEW S, NEW s \in Seq(S), s # <<>>
  PROVE  /\ Head(s) \in S /\ Head(s) = s[1] /\ 1 \in DOMAIN s
         /\ Tail(s) \in Seq(S)
         /\ \A i \in DOMAIN Tail(s) : i + 1 \in DOMAIN s /\ Tail(s)[i] = s[i + 1]
         /\ \A i \in DOMAIN s : i # 1 => i - 1 \in DOMAIN Tail(s) /\ Tail(s)[i - 1] = s[i]
         /\ DOMAIN s \subseteq Nat \ {0}
OBVIOUS

(* The rest of an ordered plan is ordered, and prepared unless its first    *)
(* step has removed the tables.                                             *)
LEMMA RestOrdered ==
  ASSUME NEW s \in Seq(Steps), s # <<>>, Ordered(s), NEW d, Prepared(s, d), NEW e,
         Head(s) = "open" => Tables(e),
         Head(s) \notin MayRemove /\ Tables(d) => Tables(e)
  PROVE  Ordered(Tail(s)) /\ Prepared(Tail(s), e)
<1>1. Ordered(Tail(s))
  <2> SUFFICES ASSUME NEW i \in DOMAIN Tail(s), NEW j \in DOMAIN Tail(s),
                      i < j, Tail(s)[i] \in MayRemove, Tail(s)[j] \in NeedsTables
               PROVE  \E k \in DOMAIN Tail(s) : i < k /\ k < j /\ Tail(s)[k] = "open"
    BY DEF Ordered
  <2>1. PICK k \in DOMAIN s : i + 1 < k /\ k < j + 1 /\ s[k] = "open"
    <3>1. i + 1 \in DOMAIN s /\ j + 1 \in DOMAIN s /\ i + 1 < j + 1
          /\ s[i + 1] \in MayRemove /\ s[j + 1] \in NeedsTables
      BY TailOf
    <3> QED BY <3>1 DEF Ordered
  <2>2. k - 1 \in DOMAIN Tail(s) /\ Tail(s)[k - 1] = "open" /\ i < k - 1 /\ k - 1 < j
    BY <2>1, TailOf
  <2> QED BY <2>2
<1>2. Prepared(Tail(s), e)
  <2> SUFFICES ASSUME NEW j \in DOMAIN Tail(s), Tail(s)[j] \in NeedsTables, ~Tables(e)
               PROVE  \E k \in DOMAIN Tail(s) : k < j /\ Tail(s)[k] = "open"
    BY DEF Prepared
  <2>1. /\ j + 1 \in DOMAIN s /\ s[j + 1] \in NeedsTables /\ 1 < j + 1 /\ 1 \in DOMAIN s
        /\ s[1] # "open"
    BY TailOf
  <2>2. PICK k \in DOMAIN s : 1 < k /\ k < j + 1 /\ s[k] = "open"
    <3>1. CASE s[1] \in MayRemove
      BY <2>1, <3>1 DEF Ordered
    <3>2. CASE s[1] \notin MayRemove
      <4>1. ~Tables(d)
        BY <3>2, TailOf
      <4>2. PICK k \in DOMAIN s : k < j + 1 /\ s[k] = "open"
        BY <2>1, <4>1 DEF Prepared
      <4>3. k # 1 /\ k \in Nat \ {0}
        BY <2>1, <4>2, TailOf
      <4> QED BY <4>2, <4>3
    <3> QED BY <3>1, <3>2
  <2>3. k - 1 \in DOMAIN Tail(s) /\ Tail(s)[k - 1] = "open" /\ k - 1 < j
    BY <2>2, TailOf
  <2> QED BY <2>3
<1> QED BY <1>1, <1>2

(* The server, once the database is open, ingests or goes straight on.      *)
LEMMA InspectedOrdered ==
  ASSUME NEW d, Tables(d), NEW s \in {<<"drop", "fill", "fill_rest", "tables", "verify">>,
                                      <<"verify">>}
  PROVE  s \in Seq(Steps) /\ Ordered(s) /\ Prepared(s, d)
<1>1. CASE s = <<"drop", "fill", "fill_rest", "tables", "verify">>
  BY <1>1 DEF Steps, Ordered, Prepared, MayRemove
<1>2. CASE s = <<"verify">>
  BY <1>2 DEF Steps, Ordered, Prepared, NeedsTables, MayRemove
<1> QED BY <1>1, <1>2

-----------------------------------------------------------------------------
(***************************************************************************)
(* The types of the door: a login under way has a token and a user.        *)
(***************************************************************************)
Logins ==
  \A t \in Threads : asked[t].op = "login" => asked[t].token \in Tokens /\ asked[t].user \in Users

DoorOK == AdmissionTypeOK /\ Logins

(* The counts after a request that was let through.                         *)
LEMMA AdmitTypes ==
  ASSUME AdmissionTypeOK, NEW c \in Clients \X Categories, Admit(c)
  PROVE  /\ window' \in Int
         /\ counts' \in [Callers -> Nat]
         /\ accepted' \in [Callers -> [Times -> Nat]]
<1>1. ThisMinute \in Int
  BY AdmissionAssumption DEF AdmissionTypeOK, ThisMinute, Times
<1>2. CountsNow \in [Callers -> Nat]
  BY DEF AdmissionTypeOK, CountsNow
<1>3. Counted(CountsNow, c) \in [Callers -> Nat]
  <2>1. c \in Callers /\ Everyone \in Callers
    BY DEF Callers
  <2>2. \A x \in Callers : CountsNow[x] \in Nat /\ CountsNow[x] + 1 \in Nat
                           /\ CountsNow[x] + 1 + 1 \in Nat
    BY <1>2
  <2> QED BY <1>2, <2>1, <2>2 DEF Counted
<1>4. \A a \in Callers, n \in Times : accepted[a][n] \in Nat /\ accepted[a][n] + 1 \in Nat
  BY DEF AdmissionTypeOK
<1> QED BY <1>1, <1>3, <1>4 DEF Admit, AdmissionTypeOK

(* A thread that takes a request knows the time.                            *)
LEMMA ReceiveTypes ==
  ASSUME DoorOK, NEW t \in Threads, NEW op \in Operations, NEW k \in Tokens,
         NEW u \in Users \cup {"none"}, op = "login" => u \in Users, Receive(t, op, k, u)
  PROVE  /\ asked' \in [Threads -> [op : Operations, token : Tokens \cup {"none"},
                                    user : Users \cup {"none"}, at : Times]]
         /\ Logins'
BY DEF DoorOK, AdmissionTypeOK, Logins, Receive

(* A thread that is done waits for the next request.                        *)
LEMMA IdleTypes ==
  ASSUME DoorOK, NEW t \in Threads, asked' = [asked EXCEPT ![t] = Idle]
  PROVE  /\ asked' \in [Threads -> [op : Operations, token : Tokens \cup {"none"},
                                    user : Users \cup {"none"}, at : Times]]
         /\ Logins'
<1>1. Idle \in [op : Operations, token : Tokens \cup {"none"},
                user : Users \cup {"none"}, at : Times] /\ Idle.op # "login"
  BY AdmissionAssumption DEF Idle, Operations, Times
<1> QED BY <1>1 DEF DoorOK, AdmissionTypeOK, Logins

(* Every step of the door keeps its types.                                  *)
LEMMA DoorTypes ==
  ASSUME DoorOK, NEW e \in Nat, AdmissionNext(e)
  PROVE  DoorOK'
<1> DEFINE Sessions == [token : Tokens, user : Users, created : Times, expires : Nat, era : Nat]
           Asked == [op : Operations, token : Tokens \cup {"none"},
                     user : Users \cup {"none"}, at : Times]
<1>1. /\ clock \in Times /\ sessions \subseteq Sessions /\ issued \subseteq Tokens
      /\ asked \in [Threads -> Asked] /\ window \in Int /\ counts \in [Callers -> Nat]
      /\ accepted \in [Callers -> [Times -> Nat]] /\ Logins /\ AdmissionTypeOK
  BY DEF DoorOK, AdmissionTypeOK
<1> SUFFICES /\ clock' \in Times /\ sessions' \subseteq Sessions /\ issued' \subseteq Tokens
             /\ asked' \in [Threads -> Asked] /\ window' \in Int /\ counts' \in [Callers -> Nat]
             /\ accepted' \in [Callers -> [Times -> Nat]] /\ Logins'
  BY DEF DoorOK, AdmissionTypeOK
<1>2. CASE Tick
  BY <1>1, <1>2, AdmissionAssumption DEF Tick, Times, limiter, Logins
<1>3. ASSUME NEW c \in Clients \X Categories, TooMany(c)
      PROVE  /\ window' \in Int /\ counts' \in [Callers -> Nat]
             /\ UNCHANGED <<clock, sessions, issued, asked, accepted>>
  BY <1>1, <1>3, AdmissionAssumption DEF TooMany, ThisMinute, CountsNow, Times
<1>4. ASSUME NEW client \in Clients, WrongPassword(client)
      PROVE  /\ window' \in Int /\ counts' \in [Callers -> Nat]
             /\ accepted' \in [Callers -> [Times -> Nat]]
             /\ UNCHANGED <<clock, sessions, issued, asked>>
  <2>1. <<client, "login">> \in Clients \X Categories
    BY AdmissionAssumption
  <2> QED BY <1>1, <1>4, <2>1, AdmitTypes DEF WrongPassword
<1>5. ASSUME NEW t \in Threads, NEW client \in Clients, NEW u \in Users, NEW k \in Tokens,
             Login(t, client, u, k)
      PROVE  /\ window' \in Int /\ counts' \in [Callers -> Nat]
             /\ accepted' \in [Callers -> [Times -> Nat]]
             /\ asked' \in [Threads -> Asked] /\ Logins' /\ issued' \subseteq Tokens
             /\ UNCHANGED <<clock, sessions>>
  <2>1. <<client, "login">> \in Clients \X Categories /\ "login" \in Operations
    BY AdmissionAssumption DEF Operations
  <2> QED BY <1>1, <1>5, <2>1, AdmitTypes, ReceiveTypes DEF Login
<1>6. ASSUME NEW t \in Threads, NEW client \in Clients, NEW k \in issued,
             NEW op \in {"authenticate", "authenticate_logout"}, Request(t, client, op, k)
      PROVE  /\ window' \in Int /\ counts' \in [Callers -> Nat]
             /\ accepted' \in [Callers -> [Times -> Nat]]
             /\ asked' \in [Threads -> Asked] /\ Logins'
             /\ UNCHANGED <<clock, sessions, issued>>
  <2>1. <<client, "read">> \in Clients \X Categories /\ op \in Operations /\ op # "login"
        /\ k \in Tokens
    BY <1>1, AdmissionAssumption DEF Operations
  <2> QED BY <1>1, <1>6, <2>1, AdmitTypes, ReceiveTypes DEF Request
<1>7. ASSUME NEW t \in Threads, CreateSession(t, e)
      PROVE  /\ sessions' \subseteq Sessions /\ asked' \in [Threads -> Asked] /\ Logins'
             /\ UNCHANGED <<clock, issued, limiter>>
  <2>1. asked[t] \in Asked /\ asked[t].op = "login"
    BY <1>1, <1>7 DEF CreateSession
  <2>2. NewSession(asked[t], e) \in Sessions
    <3>1. asked[t].token \in Tokens /\ asked[t].user \in Users /\ asked[t].at \in Times
      BY <1>1, <2>1 DEF Logins
    <3>2. asked[t].at + Lifetime \in Nat
      BY <3>1, AdmissionAssumption DEF Times
    <3> QED BY <3>1, <3>2 DEF NewSession
  <2>3. sessions' \subseteq sessions \cup {NewSession(asked[t], e)}
    BY <1>7 DEF CreateSession, Newest, Live, Of
  <2> QED BY <1>1, <1>7, <2>2, <2>3, IdleTypes DEF CreateSession
<1>8. ASSUME NEW t \in Threads, Authenticate(t)
      PROVE  /\ sessions' \subseteq Sessions /\ asked' \in [Threads -> Asked] /\ Logins'
             /\ UNCHANGED <<clock, issued, limiter>>
  <2>1. sessions' \subseteq sessions
    BY <1>8 DEF Authenticate, Live
  <2>2. CASE asked' = [asked EXCEPT ![t] = Idle]
    BY <1>1, <1>8, <2>1, <2>2, IdleTypes DEF Authenticate
  <2>3. CASE asked' = [asked EXCEPT ![t] = [asked[t] EXCEPT !.op = "logout"]]
    <3>1. [asked[t] EXCEPT !.op = "logout"] \in Asked
      BY <1>1 DEF Operations
    <3>2. asked' \in [Threads -> Asked]
      BY <1>1, <2>3, <3>1
    <3>3. Logins'
      BY <1>1, <2>3, <3>1 DEF Logins
    <3> QED BY <1>1, <1>8, <2>1, <3>2, <3>3 DEF Authenticate
  <2> QED BY <1>8, <2>2, <2>3 DEF Authenticate
<1>9. ASSUME NEW t \in Threads, Logout(t)
      PROVE  /\ sessions' \subseteq Sessions /\ asked' \in [Threads -> Asked] /\ Logins'
             /\ UNCHANGED <<clock, issued, limiter>>
  BY <1>1, <1>9, IdleTypes DEF Logout
<1> QED BY <1>1, <1>2, <1>3, <1>4, <1>5, <1>6, <1>7, <1>8, <1>9
        DEF AdmissionNext, limiter, Logins

-----------------------------------------------------------------------------
(***************************************************************************)
(* The types of the files and of the processes, with what they rest on.    *)
(***************************************************************************)
FilesOK ==
  /\ db \in Databases \cup {Absent, Hollow}
  /\ backups \subseteq Databases /\ recovery \subseteq Databases
  /\ vectors \in [build : Nat, whole : BOOLEAN]
  /\ accounts \in {"none", "users_only", "both"}
  /\ builds \in Nat /\ era \in Nat

ControlOK ==
  /\ server \in {"stopped", "starting", "ready", "serving"}
  /\ kind \in Kinds \cup {"start"}
  /\ lease \in {"free"} \cup Processes
  /\ chosen \in Databases \cup {Absent, Hollow}
  /\ ops \in Nat /\ crashes \in Nat
  /\ cuts \subseteq (Kinds \cup {"start", "gap"}) \X Steps

Safe ==
  /\ DoorOK /\ FilesOK /\ ControlOK /\ Leases /\ PlansInv
  /\ plan \in [Processes -> Seq(Steps)]

(* The type invariant of Maintenance is part of Safe.                       *)
LEMMA SafeTypes == Safe => MaintenanceTypeOK
BY DEF Safe, DoorOK, FilesOK, ControlOK, MaintenanceTypeOK

(* One step's effect on the files: their types, and when the tables stay.   *)
LEMMA EffectFiles ==
  ASSUME FilesOK, NEW step \in Steps, Effect(step), chosen \in Databases \cup {Absent, Hollow},
         step \in NeedsTables => Tables(db)
  PROVE  /\ FilesOK'
         /\ sessions' \subseteq sessions
         /\ step = "open" => Tables(db')
         /\ step \notin MayRemove /\ Tables(db) => Tables(db')
<1> USE FilesAssumption DEF FilesOK, Tables
<1>1. CASE step = "backup"
  BY <1>1 DEF Effect, Backup, CopyOf, Touched, MayRemove
<1>2. CASE step = "save"
  BY <1>2 DEF Effect, Save, CopyOf, Touched, MayRemove
<1>3. CASE step = "replace"
  BY <1>3 DEF Effect, Replace, MayRemove
<1>4. CASE step = "forget"
  BY <1>4 DEF Effect, Forget, files
<1>5. CASE step = "unlink"
  BY <1>5 DEF Effect, Unlink, MayRemove
<1>6. CASE step = "users"
  BY <1>6 DEF Effect, WriteUsers
<1>7. CASE step = "credentials"
  BY <1>7 DEF Effect, WriteCredentials
<1>8. CASE step = "open"
  <2>1. New \in Databases
    BY DEF New, Databases
  <2> QED BY <1>8, <2>1 DEF Effect, Open, Opened
<1>9. CASE step = "drop"
  <2>1. Empty \in [build : Nat, whole : BOOLEAN]
    BY DEF Empty
  <2> QED BY <1>9, <2>1 DEF Effect, Drop
<1>10. CASE step = "fill"
  <2>1. builds + 1 \in Nat
    OBVIOUS
  <2>2. [build |-> builds + 1, whole |-> FALSE] \in [build : Nat, whole : BOOLEAN]
    BY <2>1
  <2> QED BY <1>10, <2>1, <2>2 DEF Effect, Fill
<1>11. CASE step = "fill_rest"
  BY <1>11 DEF Effect, FillRest
<1>12. CASE step \in {"state", "tables"}
  <2>1. db \in Databases
    BY <1>12 DEF NeedsTables
  <2>2. [db EXCEPT !.state = builds] \in Databases
    BY <2>1 DEF Databases
  <2> QED BY <1>12, <2>2 DEF Effect, State
<1>13. CASE step \in {"inspect", "fit", "verify"}
  BY <1>13 DEF Effect, files
<1> QED BY <1>1, <1>2, <1>3, <1>4, <1>5, <1>6, <1>7, <1>8, <1>9, <1>10, <1>11, <1>12, <1>13
        DEF Steps

(* What a process has left is an ordered, prepared plan again.              *)
LEMMA StepPlans ==
  ASSUME Safe, NEW p \in Processes, Step(p)
  PROVE  /\ Head(plan[p]) \in Steps /\ plan[p] # <<>>
         /\ Head(plan[p]) \in NeedsTables => Tables(db)
         /\ FilesOK' /\ sessions' \subseteq sessions
         /\ PlansInv' /\ plan' \in [Processes -> Seq(Steps)]
         /\ \A q \in Processes \ {p} : plan[q] = <<>> /\ plan'[q] = <<>>
<1> DEFINE step == Head(plan[p])
<1>1. plan[p] \in Seq(Steps) /\ plan[p] # <<>> /\ Ordered(plan[p]) /\ Prepared(plan[p], db)
  BY DEF Safe, PlansInv, Step
<1>2. step \in Steps /\ step = plan[p][1] /\ 1 \in DOMAIN plan[p]
  BY <1>1, TailOf
<1>3. step \in NeedsTables => Tables(db)
  <2>1. \A k \in DOMAIN plan[p] : ~(k < 1)
    BY <1>1
  <2> QED BY <1>1, <1>2, <2>1 DEF Prepared
<1>4. /\ FilesOK' /\ sessions' \subseteq sessions
      /\ step = "open" => Tables(db')
      /\ step \notin MayRemove /\ Tables(db) => Tables(db')
  BY <1>2, <1>3, EffectFiles DEF Safe, ControlOK, Step
<1>5. \A q \in Processes \ {p} : plan[q] = <<>>
  BY <1>1 DEF Safe, Leases, Processes
<1>6. plan' = [plan EXCEPT ![p] = Remaining(p)] /\ plan \in [Processes -> Seq(Steps)]
  BY DEF Step, Safe
<1>7. /\ Remaining(p) \in Seq(Steps) /\ Ordered(Remaining(p))
      /\ Prepared(Remaining(p), db')
  <2>1. CASE step = "inspect"
    <3>1. Tables(db')
      BY <1>3, <1>4, <2>1 DEF NeedsTables, MayRemove
    <3>2. Remaining(p) \in {<<"drop", "fill", "fill_rest", "tables", "verify">>, <<"verify">>}
      BY <2>1 DEF Remaining
    <3> QED BY <3>1, <3>2, InspectedOrdered
  <2>2. CASE step # "inspect"
    <3>1. Remaining(p) = Tail(plan[p])
      BY <2>2 DEF Remaining
    <3> QED BY <1>1, <1>4, <3>1, TailOf, RestOrdered
  <2> QED BY <2>1, <2>2
<1>8. PlansInv'
  <2> SUFFICES ASSUME NEW q \in Processes
               PROVE  Ordered(plan'[q]) /\ Prepared(plan'[q], db')
    BY DEF PlansInv
  <2>1. CASE q = p
    BY <1>6, <1>7, <2>1
  <2>2. CASE q # p
    <3>1. plan'[q] = <<>>
      BY <1>5, <1>6, <2>2
    <3> QED BY <3>1 DEF Ordered, Prepared
  <2> QED BY <2>1, <2>2
<1>9. plan' \in [Processes -> Seq(Steps)]
  BY <1>6, <1>7
<1> QED BY <1>1, <1>2, <1>3, <1>4, <1>5, <1>6, <1>8, <1>9

(* A process that is cut leaves a mark of the step it was at.               *)
LEMMA CutTypes ==
  ASSUME Safe, NEW p \in Processes, Cut(p)
  PROVE  <<Cutting(p), Head(plan[p])>> \in (Kinds \cup {"start", "gap"}) \X Steps
<1>1. Head(plan[p]) \in Steps
  BY TailOf DEF Safe, Cut
<1>2. Cutting(p) \in Kinds \cup {"start", "gap"}
  <2>1. CASE p = "server"
    BY <2>1 DEF Cutting
  <2>2. CASE p = "tool" /\ server = "ready"
    BY <2>2 DEF Cutting
  <2>3. CASE p = "tool" /\ server # "ready"
    BY <2>3 DEF Cutting, Safe, ControlOK
  <2> QED BY <2>1, <2>2, <2>3 DEF Processes
<1> QED BY <1>1, <1>2

(* Every step of the server, the tool and the door keeps Safe.              *)
LEMMA SafeNext == Safe /\ [MaintenanceNext]_all => Safe'
<1> SUFFICES ASSUME Safe, [MaintenanceNext]_all PROVE Safe'
  OBVIOUS
<1>1. /\ DoorOK /\ FilesOK /\ ControlOK /\ Leases /\ PlansInv
      /\ plan \in [Processes -> Seq(Steps)]
  BY DEF Safe
<1> SUFFICES /\ DoorOK' /\ FilesOK' /\ ControlOK' /\ Leases' /\ PlansInv'
             /\ plan' \in [Processes -> Seq(Steps)]
  BY DEF Safe
<1>2. ASSUME UNCHANGED admission PROVE DoorOK'
  BY <1>1, <1>2 DEF DoorOK, AdmissionTypeOK, Logins, admission, limiter
<1>3. ASSUME UNCHANGED files PROVE FilesOK'
  BY <1>1, <1>3 DEF FilesOK, files
<1>4. ASSUME UNCHANGED <<files, plan>> PROVE PlansInv' /\ plan' \in [Processes -> Seq(Steps)]
  BY <1>1, <1>4 DEF PlansInv, files
<1>5. ASSUME UNCHANGED control PROVE ControlOK' /\ Leases' /\ plan' = plan
  BY <1>1, <1>5 DEF ControlOK, Leases, control
<1>6. CASE UNCHANGED all
  BY <1>2, <1>3, <1>4, <1>5, <1>6 DEF all
<1>7. CASE StartServer
  <2>1. /\ UNCHANGED files /\ UNCHANGED admission
        /\ plan' = [plan EXCEPT !["server"] = Initialize]
        /\ server' = "starting" /\ lease = "free" /\ lease' = "server" /\ kind' = kind
    BY <1>7 DEF StartServer, TakeLease, CanLease
  <2>2. plan' \in [Processes -> Seq(Steps)] /\ PlansInv'
    BY <1>1, <2>1, StartOrdered DEF PlansInv, Processes, files
  <2>3. ControlOK'
    BY <1>1, <1>7, <2>1 DEF StartServer, ControlOK, Processes
  <2>4. Leases'
    BY <1>1, <2>1 DEF Leases, Processes
  <2> QED BY <1>2, <1>3, <2>1, <2>2, <2>3, <2>4
<1>8. CASE Initialized
  <2>1. ControlOK' /\ Leases'
    BY <1>1, <1>8 DEF Initialized, ControlOK, Leases
  <2> QED BY <1>2, <1>3, <1>4, <1>8, <2>1 DEF Initialized
<1>9. CASE Serve
  <2>1. ControlOK' /\ Leases'
    BY <1>1, <1>9 DEF Serve, TakeLease, CanLease, ControlOK, Leases, Processes
  <2>2. DoorOK'
    <3>1. Idle \in [op : Operations, token : Tokens \cup {"none"},
                    user : Users \cup {"none"}, at : Times] /\ Idle.op # "login"
      BY AdmissionAssumption DEF Idle, Operations, Times
    <3>2. [c \in Callers |-> 0] \in [Callers -> Nat]
      OBVIOUS
    <3>3. [c \in Callers |-> [n \in Times |-> 0]] \in [Callers -> [Times -> Nat]]
      OBVIOUS
    <3> QED BY <1>1, <1>9, <3>1, <3>2, <3>3
            DEF Serve, AdmissionRestart, DoorOK, AdmissionTypeOK, Logins
  <2> QED BY <1>3, <1>4, <1>9, <2>1, <2>2 DEF Serve
<1>10. CASE ServeFails
  <2>1. ControlOK' /\ Leases'
    BY <1>1, <1>10 DEF ServeFails, ControlOK, Leases
  <2> QED BY <1>2, <1>3, <1>4, <1>10, <2>1 DEF ServeFails
<1>11. CASE StopServer
  <2>1. ControlOK' /\ Leases'
    BY <1>1, <1>11 DEF StopServer, ControlOK, Leases
  <2> QED BY <1>2, <1>3, <1>4, <1>11, <2>1 DEF StopServer
<1>12. ASSUME NEW k \in Kinds, StartTool(k)
       PROVE  /\ DoorOK' /\ FilesOK' /\ ControlOK' /\ Leases' /\ PlansInv'
              /\ plan' \in [Processes -> Seq(Steps)]
  <2>1. /\ UNCHANGED files /\ UNCHANGED admission
        /\ plan' = [plan EXCEPT !["tool"] = Plan(k)]
        /\ lease = "free" /\ lease' = "tool" /\ kind' = k /\ server' = server
    BY <1>12 DEF StartTool, TakeLease, CanLease
  <2>2. plan' \in [Processes -> Seq(Steps)] /\ PlansInv'
    BY <1>1, <2>1, PlansOrdered DEF PlansInv, Processes, files
  <2>3. chosen' \in Databases \cup {Absent, Hollow}
    BY <1>1, <1>12 DEF StartTool, FilesOK
  <2>4. ControlOK'
    BY <1>1, <1>12, <2>1, <2>3 DEF StartTool, ControlOK, Processes
  <2>5. Leases'
    BY <1>1, <2>1 DEF Leases, Processes, Kinds
  <2> QED BY <1>2, <1>3, <2>1, <2>2, <2>4, <2>5
<1>13. CASE Completed
  <2>1. ControlOK' /\ Leases'
    BY <1>1, <1>13 DEF Completed, ControlOK, Leases
  <2> QED BY <1>2, <1>3, <1>4, <1>13, <2>1 DEF Completed
<1>14. ASSUME NEW p \in Processes, Step(p)
       PROVE  /\ DoorOK' /\ FilesOK' /\ ControlOK' /\ Leases' /\ PlansInv'
              /\ plan' \in [Processes -> Seq(Steps)]
  <2>1. /\ FilesOK' /\ PlansInv' /\ plan' \in [Processes -> Seq(Steps)]
        /\ sessions' \subseteq sessions /\ plan[p] # <<>>
        /\ \A q \in Processes \ {p} : plan'[q] = <<>>
    BY <1>14, StepPlans
  <2>2. UNCHANGED <<server, kind, lease, chosen, cuts, ops, crashes,
                  clock, issued, asked, limiter>>
    BY <1>14 DEF Step
  <2>3. ControlOK' /\ Leases'
    BY <1>1, <2>1, <2>2 DEF ControlOK, Leases, Processes
  <2>4. DoorOK'
    BY <1>1, <2>1, <2>2 DEF DoorOK, AdmissionTypeOK, Logins, limiter
  <2> QED BY <2>1, <2>3, <2>4
<1>15. ASSUME NEW p \in Processes, Cut(p)
       PROVE  /\ DoorOK' /\ FilesOK' /\ ControlOK' /\ Leases' /\ PlansInv'
              /\ plan' \in [Processes -> Seq(Steps)]
  <2>1. /\ plan' = [plan EXCEPT ![p] = <<>>] /\ plan[p] # <<>> /\ lease' = "free"
        /\ UNCHANGED files /\ UNCHANGED admission /\ ops' = ops
        /\ cuts' = cuts \cup {<<Cutting(p), Head(plan[p])>>}
        /\ p = "server" => server' = "stopped" /\ kind' = kind /\ chosen' = chosen
        /\ p # "server" => kind' = "start" /\ chosen' = Absent /\ server' = server
        /\ crashes' \in {crashes, crashes + 1}
    BY <1>15 DEF Cut
  <2>2. plan' \in [Processes -> Seq(Steps)]
    BY <1>1, <2>1
  <2>3. PlansInv'
    BY <1>1, <2>1 DEF PlansInv, Ordered, Prepared, files
  <2>4. ControlOK'
    BY <1>1, <1>15, <2>1, CutTypes DEF ControlOK
  <2>5. Leases'
    BY <1>1, <2>1 DEF Leases, Processes
  <2> QED BY <1>2, <1>3, <2>1, <2>2, <2>3, <2>4, <2>5
<1>16. CASE Decide \/ RegisterUpload
  <2>1. plan = [p \in Processes |-> <<>>]
    BY <1>1, <1>16 DEF Decide, RegisterUpload, Leases, Processes
  <2>2. db' \in Databases /\ UNCHANGED <<vectors, builds, accounts, backups, recovery, era>>
        /\ UNCHANGED control /\ UNCHANGED admission
    <3>1. CASE Decide
      BY <1>1, <3>1 DEF Decide, Tables, FilesOK, Databases
    <3>2. CASE RegisterUpload
      <4>1. Opened \in Databases
        BY <1>1 DEF Opened, Tables, New, FilesOK, Databases
      <4> QED BY <3>2, <4>1 DEF RegisterUpload, Databases
    <3> QED BY <1>16, <3>1, <3>2
  <2>3. FilesOK'
    BY <1>1, <2>2 DEF FilesOK
  <2>4. PlansInv' /\ plan' \in [Processes -> Seq(Steps)]
    BY <1>1, <2>1, <2>2 DEF PlansInv, Ordered, Prepared, control
  <2> QED BY <1>2, <1>5, <2>2, <2>3, <2>4
<1>17. CASE Admitted
  <2>1. DoorOK'
    BY <1>1, <1>17, DoorTypes DEF Admitted, FilesOK
  <2> QED BY <1>3, <1>4, <1>5, <1>17, <2>1 DEF Admitted
<1> QED BY <1>6, <1>7, <1>8, <1>9, <1>10, <1>11, <1>12, <1>13, <1>14, <1>15, <1>16, <1>17
        DEF MaintenanceNext

(* Safe holds at first.                                                     *)
LEMMA SafeInitially == MaintenanceInit => Safe
<1> SUFFICES ASSUME MaintenanceInit PROVE Safe
  OBVIOUS
<1>1. DoorOK
  <2>1. Idle \in [op : Operations, token : Tokens \cup {"none"},
                  user : Users \cup {"none"}, at : Times] /\ Idle.op # "login" /\ 0 \in Times
    BY AdmissionAssumption DEF Idle, Operations, Times
  <2> QED BY <2>1 DEF MaintenanceInit, AdmissionInit, FreshLimiter, DoorOK, AdmissionTypeOK,
                      Logins
<1>2. FilesOK
  BY DEF MaintenanceInit, FilesOK, Empty
<1>3. ControlOK /\ Leases
  BY DEF MaintenanceInit, ControlOK, Leases, Processes
<1>4. PlansInv /\ plan \in [Processes -> Seq(Steps)]
  BY DEF MaintenanceInit, PlansInv, Ordered, Prepared
<1> QED BY <1>1, <1>2, <1>3, <1>4 DEF Safe

(* Safe holds in every execution.                                           *)
LEMMA SafeInvariant == MaintenanceSpec => []Safe
BY SafeInitially, SafeNext, PTL DEF MaintenanceSpec

(* The door, the files and the processes keep their types, whatever the     *)
(* operator starts and wherever it is cut.                                  *)
THEOREM MaintenanceTypeCorrect == MaintenanceSpec => []MaintenanceTypeOK
BY SafeInvariant, SafeTypes, PTL

(* No user ever has more sessions than the cap (SQLiteSessionStore.create), *)
(* in whatever order overlapping logins commit.                             *)
THEOREM SessionsBounded == MaintenanceSpec => []SessionsAreBounded
<1>1. MaintenanceInit => SessionsInv
  <2> SUFFICES ASSUME MaintenanceInit PROVE SessionsInv
    OBVIOUS
  <2>1. sessions = {} /\ IsFiniteSet(sessions)
    BY FS_EmptySet DEF MaintenanceInit, AdmissionInit
  <2>2. ASSUME NEW u \in Users PROVE Of(u, sessions) = {}
    BY <2>1 DEF Of
  <2>3. Cardinality({}) = 0
    BY FS_EmptySet
  <2>4. ASSUME NEW u \in Users PROVE Cardinality(Of(u, sessions)) <= Cap
    BY <2>2, <2>3, AdmissionAssumption
  <2> QED BY <2>1, <2>4 DEF SessionsInv, SessionsAreBounded
<1>2. Safe /\ SessionsInv /\ [MaintenanceNext]_all => SessionsInv'
  <2> SUFFICES ASSUME Safe, SessionsInv, [MaintenanceNext]_all PROVE SessionsInv'
    OBVIOUS
  <2>1. CASE sessions' \subseteq sessions
    BY <2>1, FewerSessions
  <2>2. ASSUME NEW p \in Processes, Step(p) PROVE sessions' \subseteq sessions
    BY <2>2, StepPlans
  <2>3. CASE Admitted
    <3>1. ASSUME NEW t \in Threads, CreateSession(t, era) PROVE SessionsInv'
      BY <3>1, LoginSessions
    <3>2. ASSUME NEW t \in Threads, Authenticate(t) \/ Logout(t)
          PROVE  sessions' \subseteq sessions
      BY <3>2 DEF Authenticate, Logout, Live
    <3> QED BY <2>1, <2>3, <3>1, <3>2 DEF Admitted, AdmissionNext, Tick, TooMany,
               WrongPassword, Login, Request
  <2> QED BY <2>1, <2>2, <2>3 DEF MaintenanceNext, StartServer, Initialized, Serve, ServeFails,
             StopServer, StartTool, Completed, Cut, Decide, RegisterUpload, admission, all
<1>3. SessionsInv => SessionsAreBounded
  BY DEF SessionsInv
<1> QED BY <1>1, <1>2, <1>3, SafeInvariant, PTL DEF MaintenanceSpec

-----------------------------------------------------------------------------
(***************************************************************************)
(* What the rate limiter lets through.  A span of a minute's length meets  *)
(* at most two minutes of the limiter: what it has seen of the present one *)
(* is in the counts, what it saw of an earlier one was within the limit.   *)
(***************************************************************************)
Ceiling(a) == IF a = Everyone THEN GlobalLimit ELSE Limit[a[2]]

SeenBy(a, n) ==
  IF n > clock THEN 0
  ELSE IF n \div Minute = ThisMinute THEN CountsNow[a]
  ELSE IF n \div Minute + 1 = ThisMinute THEN Ceiling(a) + CountsNow[a]
  ELSE 2 * Ceiling(a)

WindowInv ==
  /\ window <= ThisMinute
  /\ \A a \in Callers : CountsNow[a] <= Ceiling(a)
  /\ \A a \in Callers, n \in Times : accepted[a][n] <= SeenBy(a, n)

(* The minutes of two times that lie less than a minute apart.              *)
LEMMA MinutesApart ==
  ASSUME NEW m \in Nat, NEW n \in Nat, n <= m
  PROVE  /\ n \div Minute \in Nat /\ m \div Minute \in Nat
         /\ n \div Minute <= m \div Minute
         /\ m < n + Minute => m \div Minute <= n \div Minute + 1
<1> DEFINE i == n \div Minute
           j == m \div Minute
<1>1. Minute \in Nat /\ Minute > 0
  BY AdmissionAssumption
<1>2. /\ i \in Nat /\ j \in Nat
      /\ Minute * i <= n /\ n < Minute * i + Minute
      /\ Minute * j <= m /\ m < Minute * j + Minute
  BY <1>1
<1>3. i <= j
  BY <1>1, <1>2
<1>4. m < n + Minute => j <= i + 1
  BY <1>1, <1>2
<1> QED BY <1>2, <1>3, <1>4

(* Ceilings are natural numbers, and time passes from minute to minute.     *)
LEMMA Ceilings ==
  ASSUME AdmissionTypeOK
  PROVE  /\ \A a \in Callers : Ceiling(a) \in Nat /\ CountsNow[a] \in Nat
         /\ clock \in Nat /\ ThisMinute \in Nat
         /\ Times \subseteq Nat
<1>1. clock \in Nat /\ Times \subseteq Nat
  BY AdmissionAssumption DEF AdmissionTypeOK, Times
<1>2. ThisMinute \in Nat
  BY <1>1, MinutesApart DEF ThisMinute
<1>3. ASSUME NEW a \in Callers PROVE Ceiling(a) \in Nat /\ CountsNow[a] \in Nat
  BY AdmissionAssumption DEF Ceiling, CountsNow, AdmissionTypeOK, Callers
<1> QED BY <1>1, <1>2, <1>3

(* An empty limiter has let nothing through.                                *)
LEMMA FreshWindow == AdmissionTypeOK /\ FreshLimiter => WindowInv
<1> SUFFICES ASSUME AdmissionTypeOK, FreshLimiter PROVE WindowInv
  OBVIOUS
<1> USE DEF FreshLimiter
<1>1. CountsNow = [c \in Callers |-> 0]
  BY DEF CountsNow
<1>2. \A a \in Callers : Ceiling(a) \in Nat /\ CountsNow[a] = 0
  BY <1>1, Ceilings
<1> QED BY <1>2, Ceilings DEF WindowInv, SeenBy

(* A request that is let through is counted, in this minute and for every   *)
(* span it falls into, none of which began before the minute before.        *)
LEMMA AdmitKeepsWindow ==
  ASSUME AdmissionTypeOK, WindowInv, NEW c \in Clients \X Categories, Admit(c), clock' = clock
  PROVE  WindowInv'
<1>1. /\ \A a \in Callers : Ceiling(a) \in Nat /\ CountsNow[a] \in Nat
      /\ clock \in Nat /\ ThisMinute \in Nat /\ Times \subseteq Nat
  BY Ceilings
<1>2. c \in Callers /\ Everyone \in Callers /\ c # Everyone
  BY EveryoneIsNobody DEF Callers
<1>3. /\ ThisMinute' = ThisMinute /\ window' = ThisMinute
      /\ CountsNow' = Counted(CountsNow, c)
  BY DEF Admit, ThisMinute, CountsNow
<1>4. \A a \in Callers : CountsNow'[a] = IF a \in {c, Everyone} THEN CountsNow[a] + 1
                                        ELSE CountsNow[a]
  <2>1. CountsNow \in [Callers -> Nat]
    BY DEF CountsNow, AdmissionTypeOK
  <2> QED BY <1>2, <1>3, <2>1 DEF Counted
<1>5. \A a \in Callers : CountsNow'[a] <= Ceiling(a) /\ CountsNow'[a] \in Nat
  BY <1>1, <1>2, <1>4 DEF Admit, Allowed, Ceiling, WindowInv
<1>6. ASSUME NEW a \in Callers, NEW n \in Times
      PROVE  accepted'[a][n] <= SeenBy(a, n)'
  <2>1. accepted[a][n] \in Nat /\ accepted[a][n] <= SeenBy(a, n)
    BY DEF WindowInv, AdmissionTypeOK
  <2>2. n \in Nat /\ n \div Minute \in Nat
    BY <1>1, MinutesApart
  <2>3. SeenBy(a, n)' = IF n > clock THEN 0
                        ELSE IF n \div Minute = ThisMinute THEN CountsNow'[a]
                        ELSE IF n \div Minute + 1 = ThisMinute THEN Ceiling(a) + CountsNow'[a]
                        ELSE 2 * Ceiling(a)
    BY <1>3 DEF SeenBy, Ceiling
  <2>4. CASE a \in {c, Everyone} /\ n \in Spans(clock)
    <3>1. accepted'[a][n] = accepted[a][n] + 1 /\ CountsNow'[a] = CountsNow[a] + 1
      BY <1>4, <2>4 DEF Admit
    <3>2. n <= clock /\ clock < n + Minute
      BY <2>4 DEF Spans
    <3>3. n \div Minute = ThisMinute \/ n \div Minute + 1 = ThisMinute
      BY <1>1, <2>2, <3>2, MinutesApart DEF ThisMinute
    <3> QED BY <1>1, <2>1, <2>2, <2>3, <3>1, <3>2, <3>3 DEF SeenBy
  <2>5. CASE ~(a \in {c, Everyone} /\ n \in Spans(clock))
    <3>1. accepted'[a][n] = accepted[a][n]
      BY <2>5 DEF Admit
    <3>2. CountsNow[a] <= CountsNow'[a]
      BY <1>1, <1>4
    <3> QED BY <1>1, <1>5, <2>1, <2>2, <2>3, <3>1, <3>2 DEF SeenBy
  <2> QED BY <2>4, <2>5
<1> QED BY <1>1, <1>3, <1>5, <1>6 DEF WindowInv, Ceiling

(* A minute that passes leaves its counts within the limit behind.          *)
LEMMA TickKeepsWindow ==
  ASSUME AdmissionTypeOK, WindowInv, Tick
  PROVE  WindowInv'
<1>1. /\ \A a \in Callers : Ceiling(a) \in Nat /\ CountsNow[a] \in Nat
      /\ clock \in Nat /\ ThisMinute \in Nat /\ Times \subseteq Nat /\ window \in Int
  BY Ceilings DEF AdmissionTypeOK
<1>2. clock' = clock + 1 /\ UNCHANGED <<window, counts, accepted>>
  BY DEF Tick, limiter
<1>3. ThisMinute' = ThisMinute \/ ThisMinute' = ThisMinute + 1
  <2>1. clock + 1 \in Nat /\ clock <= clock + 1 /\ clock + 1 < clock + Minute + 1
    BY <1>1, AdmissionAssumption
  <2>2. /\ clock \div Minute \in Nat /\ (clock + 1) \div Minute \in Nat
        /\ clock \div Minute <= (clock + 1) \div Minute
    BY <1>1, <2>1, MinutesApart
  <2>3. (clock + 1) \div Minute <= clock \div Minute + 1
    BY <1>1, <2>1, AdmissionAssumption, MinutesApart
  <2> QED BY <1>2, <2>2, <2>3 DEF ThisMinute
<1>4. window' <= ThisMinute'
  BY <1>1, <1>2, <1>3 DEF WindowInv
<1>5. CASE ThisMinute' = ThisMinute
  <2>1. CountsNow' = CountsNow
    BY <1>2, <1>5 DEF CountsNow
  <2>2. ASSUME NEW a \in Callers, NEW n \in Times PROVE accepted'[a][n] <= SeenBy(a, n)'
    <3>1. accepted[a][n] \in Nat /\ accepted[a][n] <= SeenBy(a, n)
      BY DEF WindowInv, AdmissionTypeOK
    <3>2. n \in Nat /\ n \div Minute \in Nat
      BY <1>1, MinutesApart
    <3>3. SeenBy(a, n)' = IF n > clock + 1 THEN 0
                          ELSE IF n \div Minute = ThisMinute THEN CountsNow[a]
                          ELSE IF n \div Minute + 1 = ThisMinute THEN Ceiling(a) + CountsNow[a]
                          ELSE 2 * Ceiling(a)
      BY <1>2, <1>5, <2>1 DEF SeenBy, Ceiling
    <3> QED BY <1>1, <1>2, <3>1, <3>2, <3>3 DEF SeenBy
  <2> QED BY <1>4, <2>1, <2>2 DEF WindowInv, Ceiling
<1>6. CASE ThisMinute' = ThisMinute + 1
  <2>1. CountsNow' = [a \in Callers |-> 0]
    BY <1>1, <1>2, <1>6 DEF CountsNow, WindowInv
  <2>2. ASSUME NEW a \in Callers, NEW n \in Times PROVE accepted'[a][n] <= SeenBy(a, n)'
    <3>1. accepted[a][n] \in Nat /\ accepted[a][n] <= SeenBy(a, n)
      BY DEF WindowInv, AdmissionTypeOK
    <3>2. n \in Nat /\ n \div Minute \in Nat /\ (n <= clock => n \div Minute <= ThisMinute)
      BY <1>1, MinutesApart DEF ThisMinute
    <3>3. SeenBy(a, n)' = IF n > clock + 1 THEN 0
                          ELSE IF n \div Minute = ThisMinute + 1 THEN 0
                          ELSE IF n \div Minute + 1 = ThisMinute + 1 THEN Ceiling(a)
                          ELSE 2 * Ceiling(a)
      BY <1>1, <1>2, <1>6, <2>1 DEF SeenBy, Ceiling
    <3>4. CountsNow[a] <= Ceiling(a)
      BY DEF WindowInv
    <3> QED BY <1>1, <1>2, <3>1, <3>2, <3>3, <3>4 DEF SeenBy
  <2>3. \A a \in Callers : CountsNow'[a] <= Ceiling(a)
    BY <1>1, <2>1
  <2> QED BY <1>4, <2>2, <2>3 DEF WindowInv, Ceiling
<1> QED BY <1>3, <1>5, <1>6

(* Every step of the door keeps WindowInv.                                  *)
LEMMA DoorKeepsWindow ==
  ASSUME AdmissionTypeOK, WindowInv, NEW e, AdmissionNext(e)
  PROVE  WindowInv'
<1>1. ASSUME UNCHANGED <<clock, limiter>> PROVE WindowInv'
  BY <1>1 DEF WindowInv, SeenBy, CountsNow, ThisMinute, Ceiling, limiter
<1>2. ASSUME NEW c \in Clients \X Categories, TooMany(c) PROVE WindowInv'
  <2>1. /\ ThisMinute' = ThisMinute /\ window' = ThisMinute /\ CountsNow' = CountsNow
        /\ clock' = clock /\ accepted' = accepted
    BY <1>2 DEF TooMany, ThisMinute, CountsNow
  <2> QED BY <2>1, Ceilings DEF WindowInv, SeenBy, Ceiling
<1>3. ASSUME NEW client \in Clients, NEW k \in {"login", "read"}, Admit(<<client, k>>),
             clock' = clock
      PROVE  WindowInv'
  <2>1. <<client, k>> \in Clients \X Categories
    BY AdmissionAssumption
  <2> QED BY <1>3, <2>1, AdmitKeepsWindow
<1> QED BY <1>1, <1>2, <1>3, TickKeepsWindow
        DEF AdmissionNext, WrongPassword, Login, Request, CreateSession, Authenticate, Logout

(* No span of a minute's length sees more than twice a limit                *)
(* (RateLimiter.allow), in any life of the server.                          *)
THEOREM BurstBounded == MaintenanceSpec => []BurstIsBounded
<1>1. MaintenanceInit => WindowInv
  BY SafeInitially, FreshWindow DEF MaintenanceInit, AdmissionInit, FreshLimiter, Safe, DoorOK
<1>2. Safe /\ WindowInv /\ [MaintenanceNext]_all => WindowInv'
  <2> SUFFICES ASSUME Safe, WindowInv, [MaintenanceNext]_all PROVE WindowInv'
    OBVIOUS
  <2>1. AdmissionTypeOK /\ AdmissionTypeOK'
    BY SafeNext DEF Safe, DoorOK
  <2>2. CASE UNCHANGED <<clock, limiter>>
    BY <2>2 DEF WindowInv, SeenBy, CountsNow, ThisMinute, Ceiling, limiter
  <2>3. CASE Serve
    <3>1. FreshLimiter'
      BY <2>3 DEF Serve, AdmissionRestart, FreshLimiter
    <3>2. AdmissionTypeOK' /\ FreshLimiter' => WindowInv'
      BY FreshWindow, PTL
    <3> QED BY <2>1, <3>1, <3>2
  <2>4. CASE Admitted
    BY <2>1, <2>4, DoorKeepsWindow DEF Admitted
  <2> QED BY <2>2, <2>3, <2>4 DEF MaintenanceNext, StartServer, Initialized, ServeFails,
             StopServer, StartTool, Completed, Step, Cut, Decide, RegisterUpload, admission, all
<1>3. Safe /\ WindowInv => BurstIsBounded
  <2> SUFFICES ASSUME Safe, WindowInv, NEW a \in Callers, NEW n \in Times
               PROVE  accepted[a][n] <= 2 * Ceiling(a)
    BY EveryoneIsNobody DEF BurstIsBounded, Ceiling, Callers
  <2>1. Ceiling(a) \in Nat /\ CountsNow[a] \in Nat /\ CountsNow[a] <= Ceiling(a)
    BY Ceilings DEF Safe, DoorOK, WindowInv
  <2>2. accepted[a][n] \in Nat /\ accepted[a][n] <= SeenBy(a, n)
    BY DEF Safe, DoorOK, AdmissionTypeOK, WindowInv
  <2> QED BY <2>1, <2>2 DEF SeenBy
<1> QED BY <1>1, <1>2, <1>3, SafeInvariant, PTL DEF MaintenanceSpec

-----------------------------------------------------------------------------
(***************************************************************************)
(* What the tool may still replace or remove.  A plan replaces the database *)
(* only right after a step that saves it, and removes it only in a reset    *)
(* that found no upload in it.                                              *)
(***************************************************************************)
Careful(s, k, d, S) ==
  \A j \in DOMAIN s :
    /\ s[j] = "replace" => \/ j = 1 /\ (Tables(d) => d \in S)
                           \/ j = 2 /\ s[1] = "save"
    /\ s[j] = "unlink" => /\ k = "reset" /\ (Tables(d) => ~d.managed)
                          /\ j = 1 \/ (j = 2 /\ s[1] = "forget")

CarefulInv ==
  /\ Careful(plan["tool"], kind, db, recovery)
  /\ \A j \in DOMAIN plan["server"] : plan["server"][j] \notin {"replace", "unlink"}

(* The plan of an operation, over a database that the tool has checked.     *)
LEMMA PlansCareful ==
  ASSUME NEW k \in Kinds, Verified(db)
  PROVE  Careful(Plan(k), k, db, recovery)
<1> USE DEF Careful, Plan, Verified, Tables
<1>1. CASE k = "backup"
  BY <1>1
<1>2. CASE k = "restore"
  BY <1>2
<1>3. CASE k = "reset"
  BY <1>3
<1>4. CASE k = "rebuild"
  BY <1>4
<1> QED BY <1>1, <1>2, <1>3, <1>4 DEF Kinds

(* One step changes the database only as NothingUnsavedIsReplaced allows.   *)
LEMMA StepReplaces ==
  ASSUME Safe, CarefulInv, NEW p \in Processes, Step(p), Tables(db), db' # db
  PROVE  \/ db \in recovery
         \/ kind = "reset" /\ ~db.managed
         \/ Tables(db') /\ db'.decisions = db.decisions /\ db'.managed = db.managed
<1> DEFINE step == Head(plan[p])
<1>1. step \in Steps /\ step = plan[p][1] /\ 1 \in DOMAIN plan[p] /\ Effect(step)
  BY TailOf DEF Safe, Step
<1>2. step \in {"replace", "unlink"} => p = "tool"
  BY <1>1 DEF CarefulInv, Processes
<1>3. CASE step = "replace"
  BY <1>1, <1>2, <1>3 DEF CarefulInv, Careful
<1>4. CASE step = "unlink"
  BY <1>1, <1>2, <1>4 DEF CarefulInv, Careful
<1>5. CASE step \in {"state", "tables"}
  <2>1. db' = [db EXCEPT !.state = builds] /\ db \in Databases /\ builds \in Nat
    BY <1>1, <1>5 DEF Effect, State, Safe, FilesOK, Tables
  <2>2. db' \in Databases /\ db'.decisions = db.decisions /\ db'.managed = db.managed
    BY <2>1 DEF Databases
  <2> QED BY <2>2, FilesAssumption DEF Tables
<1>6. CASE step \in {"backup", "save"}
  BY <1>1, <1>6 DEF Effect, Backup, Save, Touched, Tables
<1>7. CASE step = "open"
  BY <1>1, <1>7 DEF Effect, Open, Opened
<1>8. CASE step \in {"users", "credentials", "drop", "fill", "fill_rest", "forget"}
  BY <1>1, <1>8 DEF Effect, WriteUsers, WriteCredentials, Drop, Fill, FillRest, Forget, files
<1>9. CASE step \in {"inspect", "fit", "verify"}
  BY <1>1, <1>9 DEF Effect, files
<1> QED BY <1>1, <1>3, <1>4, <1>5, <1>6, <1>7, <1>8, <1>9 DEF Steps

(* What is left after a step is careful again: a save has put the database  *)
(* in a recovery copy, and nothing the tool does registers an upload.       *)
LEMMA StepCareful ==
  ASSUME Safe, CarefulInv, NEW p \in Processes, Step(p)
  PROVE  CarefulInv'
<1> DEFINE step == Head(plan[p])
<1>1. /\ plan[p] \in Seq(Steps) /\ plan[p] # <<>>
      /\ step \in Steps /\ step = plan[p][1] /\ 1 \in DOMAIN plan[p] /\ Effect(step)
  BY TailOf DEF Safe, Step
<1>2. \A q \in Processes \ {p} : plan'[q] = <<>>
  BY StepPlans
<1>3. plan'[p] = Remaining(p) /\ kind' = kind
  BY DEF Step, Safe
<1>4. \A j \in DOMAIN Tail(plan[p]) :
        /\ j \in Nat \ {0} /\ j + 1 \in DOMAIN plan[p]
        /\ Tail(plan[p])[j] = plan[p][j + 1]
  <2>1. Tail(plan[p]) \in Seq(Steps)
        /\ \A j \in DOMAIN Tail(plan[p]) :
             j + 1 \in DOMAIN plan[p] /\ Tail(plan[p])[j] = plan[p][j + 1]
    BY <1>1, TailOf
  <2>2. DOMAIN Tail(plan[p]) \subseteq Nat \ {0}
    BY <2>1
  <2> QED BY <2>1, <2>2
<1>5. CASE step = "inspect"
  <2>1. \A j \in DOMAIN plan'[p] : plan'[p][j] \notin {"replace", "unlink"}
    BY <1>3, <1>5 DEF Remaining
  <2>2. \A q \in Processes : \A j \in DOMAIN plan'[q] : plan'[q][j] \notin {"replace", "unlink"}
    BY <1>2, <2>1
  <2> QED BY <2>2 DEF CarefulInv, Careful, Processes
<1>6. CASE step # "inspect"
  <2>1. plan'[p] = Tail(plan[p])
    BY <1>3, <1>6 DEF Remaining
  <2>2. CASE p = "server"
    <3>1. \A j \in DOMAIN plan'["server"] : plan'["server"][j] \notin {"replace", "unlink"}
      BY <1>4, <2>1, <2>2 DEF CarefulInv
    <3>2. plan'["tool"] = <<>>
      BY <1>2, <2>2 DEF Processes
    <3> QED BY <3>1, <3>2 DEF CarefulInv, Careful
  <2>3. CASE p = "tool"
    <3>1. plan'["server"] = <<>>
      BY <1>2, <2>3 DEF Processes
    <3>2. ASSUME NEW j \in DOMAIN plan'["tool"], plan'["tool"][j] = "replace"
          PROVE  j = 1 /\ (Tables(db') => db' \in recovery')
      <4>1. j + 1 \in DOMAIN plan["tool"] /\ plan["tool"][j + 1] = "replace"
            /\ j \in Nat \ {0}
        BY <1>4, <2>1, <2>3, <3>2
      <4>2. j = 1 /\ step = "save"
        BY <1>1, <2>3, <4>1 DEF CarefulInv, Careful
      <4> QED BY <1>1, <4>2 DEF Effect, Save, Touched, CopyOf, Tables
    <3>3. ASSUME NEW j \in DOMAIN plan'["tool"], plan'["tool"][j] = "unlink"
          PROVE  j = 1 /\ kind' = "reset" /\ (Tables(db') => ~db'.managed)
      <4>1. j + 1 \in DOMAIN plan["tool"] /\ plan["tool"][j + 1] = "unlink"
            /\ j \in Nat \ {0}
        BY <1>4, <2>1, <2>3, <3>3
      <4>2. j = 1 /\ step = "forget" /\ kind = "reset" /\ (Tables(db) => ~db.managed)
        BY <1>1, <2>3, <4>1 DEF CarefulInv, Careful
      <4> QED BY <1>1, <1>3, <4>2 DEF Effect, Forget, files
    <3> QED BY <3>1, <3>2, <3>3 DEF CarefulInv, Careful
  <2> QED BY <2>2, <2>3 DEF Processes
<1> QED BY <1>5, <1>6

(* Every step of the system keeps the plans careful: whoever starts one     *)
(* holds the lease, and the server registers uploads only while it serves.  *)
LEMMA CarefulNext == Safe /\ CarefulInv /\ [MaintenanceNext]_all => CarefulInv'
<1> SUFFICES ASSUME Safe, CarefulInv, [MaintenanceNext]_all PROVE CarefulInv'
  OBVIOUS
<1>1. Leases /\ plan \in [Processes -> Seq(Steps)]
  BY DEF Safe
<1>2. ASSUME UNCHANGED <<plan, kind, db, recovery>> PROVE CarefulInv'
  BY <1>2 DEF CarefulInv, Careful
<1>3. CASE StartServer
  <2>1. /\ UNCHANGED files /\ kind' = kind /\ lease = "free"
        /\ plan' = [plan EXCEPT !["server"] = Initialize]
    BY <1>3 DEF StartServer, TakeLease, CanLease
  <2>2. plan'["server"] = Initialize /\ plan'["tool"] = <<>>
    BY <1>1, <2>1 DEF Leases, Processes
  <2>3. \A j \in DOMAIN Initialize : Initialize[j] \notin {"replace", "unlink"}
    BY DEF Initialize
  <2> QED BY <2>2, <2>3 DEF CarefulInv, Careful
<1>4. ASSUME NEW k \in Kinds, StartTool(k) PROVE CarefulInv'
  <2>1. /\ UNCHANGED files /\ kind' = k /\ Verified(db)
        /\ plan' = [plan EXCEPT !["tool"] = Plan(k)]
    BY <1>4 DEF StartTool, TakeLease, CanLease
  <2>2. plan'["tool"] = Plan(k) /\ plan'["server"] = plan["server"]
    BY <1>1, <2>1 DEF Processes
  <2>3. Careful(Plan(k), k, db, recovery)
    BY <2>1, PlansCareful
  <2> QED BY <2>1, <2>2, <2>3 DEF CarefulInv, Careful, files
<1>5. ASSUME NEW p \in Processes, Step(p) PROVE CarefulInv'
  BY <1>5, StepCareful
<1>6. ASSUME NEW p \in Processes, Cut(p) PROVE CarefulInv'
  <2>1. plan' = [q \in Processes |-> <<>>]
    BY <1>1, <1>6 DEF Cut, Leases, Processes
  <2> QED BY <2>1 DEF CarefulInv, Careful, Processes
<1>7. CASE Completed
  <2>1. plan'["tool"] = <<>> /\ plan'["server"] = plan["server"]
    BY <1>7 DEF Completed
  <2> QED BY <2>1 DEF CarefulInv, Careful
<1>8. CASE Decide \/ RegisterUpload
  <2>1. plan'["tool"] = <<>> /\ plan'["server"] = <<>>
    BY <1>1, <1>8 DEF Decide, RegisterUpload, Leases, control
  <2> QED BY <2>1 DEF CarefulInv, Careful
<1> QED BY <1>2, <1>3, <1>4, <1>5, <1>6, <1>7, <1>8
        DEF MaintenanceNext, Initialized, Serve, ServeFails, StopServer, Admitted,
            files, control, all

(* The tool never puts another database in the place of one with decisions  *)
(* or uploads unless a recovery copy holds it or the operator asked for a   *)
(* reset (demo_ops.restore, reset), wherever it is cut.                     *)
THEOREM NothingUnsaved == MaintenanceSpec => NothingUnsavedIsReplaced
<1>1. MaintenanceInit => CarefulInv
  BY DEF MaintenanceInit, CarefulInv, Careful, Processes
<1>2. Safe /\ CarefulInv /\ [MaintenanceNext]_all
        => [\A d \in {db} : Tables(d) /\ server # "serving" /\ db' # d =>
              \/ d \in recovery
              \/ kind = "reset" /\ ~d.managed
              \/ Tables(db') /\ db'.decisions = d.decisions /\ db'.managed = d.managed]_all
  <2> SUFFICES ASSUME Safe, CarefulInv, MaintenanceNext,
                      Tables(db), server # "serving", db' # db
               PROVE  \/ db \in recovery
                      \/ kind = "reset" /\ ~db.managed
                      \/ /\ Tables(db')
                         /\ db'.decisions = db.decisions /\ db'.managed = db.managed
    BY DEF all
  <2>1. \E p \in Processes : Step(p)
    BY DEF MaintenanceNext, StartServer, Initialized, Serve, ServeFails, StopServer, StartTool,
           Completed, Cut, Decide, RegisterUpload, Admitted, files
  <2> QED BY <2>1, StepReplaces
<1> QED BY <1>1, <1>2, CarefulNext, SafeInvariant, PTL
        DEF MaintenanceSpec, NothingUnsavedIsReplaced
=============================================================================

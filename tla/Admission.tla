------------------------------ MODULE Admission ------------------------------
(* The door of the service: the rate limiter of the middleware              *)
(* (app/security/operations.py, app/main.py) and the bearer sessions of     *)
(* app/auth.py.  The middleware is a coroutine of the single event loop, so *)
(* it admits one request at a time; the endpoints run in threads and read   *)
(* the clock before they get the lock of the session store.                 *)
EXTENDS Integers, FiniteSets

CONSTANTS
  Threads,      \* threads of the pool that serve login, logout and reads
  Users,        \* the registered users
  Tokens,       \* digests of the random bearer tokens
  Clients,      \* client addresses
  Categories,   \* of requests that are counted, "login" and "read" among them
  Limit,        \* per category, the requests of one client per minute
  GlobalLimit,  \* the requests of all clients per minute
  Cap,          \* sessions of one user (20 in the code)
  Lifetime,     \* of a session, in ticks of the clock
  Minute,       \* the length of a window, in ticks of the clock
  MaxClock      \* bound on the clock

ASSUME AdmissionAssumption ==
  /\ {"login", "read"} \subseteq Categories
  /\ Limit \in [Categories -> Nat]
  /\ GlobalLimit \in Nat
  /\ Cap \in Nat \ {0}
  /\ Lifetime \in Nat
  /\ Minute \in Nat \ {0}
  /\ MaxClock \in Nat

Everyone == <<"*", "*">>
Callers == (Clients \X Categories) \cup {Everyone}
Times == 0..MaxClock

ASSUME EveryoneIsNobody == Everyone \notin Clients \X Categories

VARIABLES
  clock,     \* wall clock and monotonic clock alike
  sessions,  \* auth_sessions, each with the era of the database it began in
  issued,    \* tokens handed out so far (they are random: none comes twice)
  asked,     \* per thread: the request it serves and the time it has read
  window,    \* RateLimiter.window, -1 before the first request
  counts,    \* RateLimiter.counts
  accepted   \* requests let through since the start, by caller, in the span
             \* of a minute's length that begins at each tick

limiter == <<window, counts, accepted>>
admission == <<clock, sessions, issued, asked, limiter>>

Operations == {"none", "login", "authenticate", "authenticate_logout", "logout"}
Idle == [op |-> "none", token |-> "none", user |-> "none", at |-> 0]

FreshLimiter ==
  /\ window = -1
  /\ counts = [c \in Callers |-> 0]
  /\ accepted = [c \in Callers |-> [n \in Times |-> 0]]

AdmissionInit ==
  /\ clock = 0
  /\ sessions = {}
  /\ issued = {}
  /\ asked = [t \in Threads |-> Idle]
  /\ FreshLimiter

(* A new process has an empty limiter and no request.                       *)
AdmissionRestart ==
  /\ window' = -1
  /\ counts' = [c \in Callers |-> 0]
  /\ accepted' = [c \in Callers |-> [n \in Times |-> 0]]
  /\ asked' = [t \in Threads |-> Idle]

Tick ==
  /\ clock < MaxClock
  /\ clock' = clock + 1
  /\ UNCHANGED <<sessions, issued, asked, limiter>>

-----------------------------------------------------------------------------
(* RateLimiter.allow: the counts of another minute are dropped at the first  *)
(* request of this one; the ceiling of all clients is looked at first, and a *)
(* request that is refused is not counted.                                   *)
ThisMinute == clock \div Minute

FaultCountsDropped == [c \in Callers |-> 0]
CountsNow == IF window = ThisMinute THEN counts ELSE [c \in Callers |-> 0]

Allowed(c) ==
  /\ CountsNow[Everyone] < GlobalLimit
  /\ CountsNow[c] < Limit[c[2]]

Counted(f, c) == [f EXCEPT ![c] = @ + 1, ![Everyone] = @ + 1]

(* The spans of a minute's length, by first tick, that a moment is in.       *)
Spans(m) == {n \in Times : n <= m /\ m < n + Minute}

Admit(c) ==
  /\ Allowed(c)
  /\ window' = ThisMinute
  /\ counts' = Counted(CountsNow, c)
  /\ accepted' = [a \in Callers |-> [n \in Times |->
                    IF a \in {c, Everyone} /\ n \in Spans(clock) THEN accepted[a][n] + 1
                    ELSE accepted[a][n]]]

(* A request over a limit gets 429; it may still have opened a new minute.   *)
TooMany(c) ==
  /\ ~Allowed(c)
  /\ window' = ThisMinute
  /\ counts' = CountsNow
  /\ UNCHANGED <<clock, sessions, issued, asked, accepted>>

-----------------------------------------------------------------------------
Live(at) == {s \in sessions : s.expires > at}
Of(u, S) == {s \in S : s.user = u}
Known(k) == \E s \in sessions : s.token = k

(* The time a request goes by is read before it gets the lock of the store.  *)
Receive(t, op, k, u) ==
  /\ asked[t] = Idle
  /\ asked' = [asked EXCEPT ![t] = [op |-> op, token |-> k, user |-> u, at |-> clock]]

Login(t, client, u, k) ==
  /\ k \notin issued
  /\ Admit(<<client, "login">>)
  /\ Receive(t, "login", k, u)
  /\ issued' = issued \cup {k}
  /\ UNCHANGED <<clock, sessions>>

(* A wrong name or password has used up a request of the minute.             *)
WrongPassword(client) ==
  /\ Admit(<<client, "login">>)
  /\ UNCHANGED <<clock, sessions, issued, asked>>

(* Any other request carries a token, which the session store looks up; the  *)
(* endpoint of /auth/logout then deletes it.                                 *)
Request(t, client, op, k) ==
  /\ Admit(<<client, "read">>)
  /\ Receive(t, op, k, "none")
  /\ UNCHANGED <<clock, sessions, issued>>

(* SQLiteSessionStore.create: purge, keep the newest Cap - 1 of the user,    *)
(* insert, in one transaction.                                               *)
FaultKeepCap == Cap
Kept == Cap - 1

Newest(n, S) ==
  {K \in SUBSET S : /\ Cardinality(K) = IF Cardinality(S) < n THEN Cardinality(S) ELSE n
                    /\ \A a \in K, b \in S \ K : a.created >= b.created}

NewSession(r, era) ==
  [token |-> r.token, user |-> r.user, created |-> r.at,
   expires |-> r.at + Lifetime, era |-> era]

CreateSession(t, era) ==
  LET r == asked[t]
      mine == Of(r.user, Live(r.at))
  IN /\ r.op = "login"
     /\ \E kept \in Newest(Kept, mine) :
          sessions' = (Live(r.at) \ mine) \cup kept \cup {NewSession(r, era)}
     /\ asked' = [asked EXCEPT ![t] = Idle]
     /\ UNCHANGED <<clock, issued, limiter>>

(* SQLiteSessionStore.username_for purges what has expired and looks up.     *)
Authenticate(t) ==
  LET r == asked[t]
  IN /\ r.op \in {"authenticate", "authenticate_logout"}
     /\ sessions' = Live(r.at)
     /\ asked' = [asked EXCEPT ![t] =
                    IF r.op = "authenticate_logout" /\ \E s \in Live(r.at) : s.token = r.token
                    THEN [r EXCEPT !.op = "logout"] ELSE Idle]
     /\ UNCHANGED <<clock, issued, limiter>>

Logout(t) ==
  LET r == asked[t]
  IN /\ r.op = "logout"
     /\ sessions' = {s \in sessions : s.token # r.token}
     /\ asked' = [asked EXCEPT ![t] = Idle]
     /\ UNCHANGED <<clock, issued, limiter>>

(* The steps of a service that accepts requests.                             *)
AdmissionNext(era) ==
  \/ Tick
  \/ \E c \in Clients \X Categories : TooMany(c)
  \/ \E client \in Clients : WrongPassword(client)
  \/ \E t \in Threads, client \in Clients :
       \/ \E u \in Users, k \in Tokens : Login(t, client, u, k)
       \/ \E k \in issued, op \in {"authenticate", "authenticate_logout"} :
            Request(t, client, op, k)
  \/ \E t \in Threads : CreateSession(t, era) \/ Authenticate(t) \/ Logout(t)

-----------------------------------------------------------------------------
(* Requests, sessions and counts have their types.                           *)
AdmissionTypeOK ==
  /\ clock \in Times
  /\ sessions \subseteq [token : Tokens, user : Users, created : Times,
                         expires : Nat, era : Nat]
  /\ issued \subseteq Tokens
  /\ asked \in [Threads -> [op : Operations, token : Tokens \cup {"none"},
                            user : Users \cup {"none"}, at : Times]]
  /\ window \in Int
  /\ counts \in [Callers -> Nat]
  /\ accepted \in [Callers -> [Times -> Nat]]

(* no user ever holds more sessions than the cap, though logins that overlap *)
(* go by times they read before they got the lock, and may commit in another *)
(* order (SQLiteSessionStore.create).                                        *)
SessionsAreBounded ==
  \A u \in Users : Cardinality(Of(u, sessions)) <= Cap

(* between two starts of the process, no span of a minute's length, wherever *)
(* it begins, sees more than twice the limit of a client, nor more than      *)
(* twice the ceiling of all clients: the worst of a fixed window is two      *)
(* bursts around the change of the minute (RateLimiter.allow).               *)
BurstIsBounded ==
  \A n \in Times :
    /\ \A c \in Clients \X Categories : accepted[c][n] <= 2 * Limit[c[2]]
    /\ accepted[Everyone][n] <= 2 * GlobalLimit
=============================================================================

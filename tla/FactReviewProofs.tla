--------------------------- MODULE FactReviewProofs ---------------------------
(***************************************************************************)
(* Theorems about FactReview for every set of threads, fields, values,     *)
(* documents and proposals.                                                *)
(***************************************************************************)
EXTENDS FactReview, TLAPS

(* Ending a request, or moving it on, keeps the request part of TypeOK.     *)
RequestsOK ==
  /\ pc \in [Threads -> Stages]
  /\ target \in [Threads -> Changes \cup {NoChange}]
  /\ \A t \in Threads : pc[t] # "idle" => target[t] \in Changes
  /\ prior \in [Threads -> SUBSET Facts]

TablesOK ==
  /\ status \in [Changes -> Statuses]
  /\ events \in [Changes -> Seq(Statuses \X Statuses)]
  /\ fact \in [Facts -> {"none", "approved", "superseded"}]
  /\ master \in [Keys -> Values \cup {NoValue}]
  /\ chunks \in SUBSET Changes
  /\ sha \in [Documents -> Hashes \cup {NoHash}]

(* TypeOK is the types of the tables and those of the requests.             *)
LEMMA TypeParts == TypeOK <=> TablesOK /\ RequestsOK
BY DEF TypeOK, TablesOK, RequestsOK

(* The trail after one more event.                                          *)
LEMMA TrailGrows ==
  ASSUME NEW s \in Seq(Statuses \X Statuses),
         NEW from \in Statuses, NEW to \in Statuses
  PROVE  LET r == Append(s, <<from, to>>)
         IN /\ r \in Seq(Statuses \X Statuses)
            /\ r # <<>>
            /\ Len(r) = Len(s) + 1
            /\ DOMAIN r = 1 .. Len(s) + 1
            /\ DOMAIN s = 1 .. Len(s)
            /\ Len(s) \in Nat
            /\ \A i \in DOMAIN s : r[i] = s[i]
            /\ r[Len(r)] = <<from, to>>
OBVIOUS

(* Ending a request keeps the types of the requests.                        *)
LEMMA ReturnTypes ==
  ASSUME RequestsOK, NEW t \in Threads, Return(t)
  PROVE  RequestsOK'
BY DEF RequestsOK, Return, Stages

(* Beginning a request about a change keeps all types.                      *)
LEMMA BeginTypes ==
  ASSUME RequestsOK, TablesOK, NEW t \in Threads, NEW c \in Changes,
         NEW stage \in Stages, Begin(t, c, stage)
  PROVE  RequestsOK' /\ TablesOK'
BY DEF RequestsOK, TablesOK, Begin, tables

(* A request that moves to its next stage keeps all types.                  *)
LEMMA AdvanceTypes ==
  ASSUME RequestsOK, TablesOK, NEW t \in Threads, NEW from \in Stages, NEW to \in Stages,
         from # "idle", Advance(t, from, to), prior' \in [Threads -> SUBSET Facts]
  PROVE  RequestsOK' /\ TablesOK'
BY DEF RequestsOK, TablesOK, Advance, tables

(* The first tables and requests have their types.                          *)
LEMMA TypeInit == Init => TypeOK
<1> SUFFICES ASSUME Init PROVE TypeOK
  OBVIOUS
<1>1. TablesOK
  BY ConstantsAssumption DEF Init, TablesOK, Statuses, Changes, SeedFacts, Facts
<1>2. RequestsOK
  BY DEF Init, RequestsOK, Stages
<1> QED BY <1>1, <1>2, TypeParts

(* A proposal from a governed document names a change.                      *)
LEMMA ProposalTypes ==
  ASSUME TypeOK, NEW p \in Proposals, sha[p.document] # NoHash
  PROVE  [key |-> p.key, value |-> p.value, sha |-> sha[p.document]] \in Changes
<1>1. p \in [key : Keys, value : Values, document : Documents]
  BY ConstantsAssumption
<1>2. sha[p.document] \in Hashes
  BY <1>1 DEF TypeOK
<1> QED BY <1>1, <1>2 DEF Changes

(* The rebuilt evidence is that of changes, whatever the facts.             *)
LEMMA ChunksTypes == ASSUME NEW facts PROVE ChunksOf(facts) \in SUBSET Changes
BY DEF ChunksOf

(* Every action that writes the tables keeps their types.                   *)
LEMMA InsertTypes ==
  ASSUME TypeOK, NEW t \in Threads, InsertChange(t)
  PROVE  TablesOK'
<1> DEFINE c == target[t]
<1>1. c \in Changes
  BY DEF TypeOK, InsertChange
<1>2. events[c] \in Seq(Statuses \X Statuses) /\ "none" \in Statuses /\ "pending" \in Statuses
  BY <1>1 DEF TypeOK, Statuses
<1>3. Append(events[c], <<"none", "pending">>) \in Seq(Statuses \X Statuses)
  BY <1>2, TrailGrows
<1> QED BY <1>1, <1>2, <1>3 DEF TypeOK, TablesOK, InsertChange

(* An approval keeps the types of the tables.                               *)
LEMMA ApproveTypes ==
  ASSUME TypeOK, NEW t \in Threads, ApproveFact(t)
  PROVE  TablesOK'
<1> DEFINE c == target[t]
<1>1. c \in Changes /\ c.key \in Keys /\ c.value \in Values
  BY DEF TypeOK, ApproveFact, Changes
<1>2. fact' \in [Facts -> {"none", "approved", "superseded"}]
  BY DEF TypeOK, ApproveFact
<1>3. status' \in [Changes -> Statuses]
  BY DEF TypeOK, ApproveFact, Statuses
<1>4. events' \in [Changes -> Seq(Statuses \X Statuses)]
  <2>1. \A d \in Changes : events[d] \in Seq(Statuses \X Statuses)
    BY DEF TypeOK
  <2>2. "pending" \in Statuses /\ "approved" \in Statuses /\ "superseded" \in Statuses
    BY DEF Statuses
  <2>3. \A d \in Changes :
          /\ Append(events[d], <<"pending", "approved">>) \in Seq(Statuses \X Statuses)
          /\ Append(events[d], <<"approved", "superseded">>) \in Seq(Statuses \X Statuses)
    BY <2>1, <2>2, TrailGrows
  <2> QED BY <2>1, <2>3 DEF ApproveFact
<1>5. master' \in [Keys -> Values \cup {NoValue}]
  BY <1>1 DEF TypeOK, ApproveFact
<1>6. chunks' \in SUBSET Changes
  BY ChunksTypes DEF ApproveFact
<1> QED BY <1>2, <1>3, <1>4, <1>5, <1>6 DEF TypeOK, TablesOK, ApproveFact

(* A rejection keeps the types of the tables.                               *)
LEMMA RejectTypes ==
  ASSUME TypeOK, NEW t \in Threads, RejectChange(t)
  PROVE  TablesOK'
<1> DEFINE c == target[t]
<1>1. c \in Changes
  BY DEF TypeOK, RejectChange
<1>2. events[c] \in Seq(Statuses \X Statuses) /\ "pending" \in Statuses /\ "rejected" \in Statuses
  BY <1>1 DEF TypeOK, Statuses
<1>3. Append(events[c], <<"pending", "rejected">>) \in Seq(Statuses \X Statuses)
  BY <1>2, TrailGrows
<1> QED BY <1>1, <1>2, <1>3 DEF TypeOK, TablesOK, RejectChange

(* A withdrawal keeps the types of the tables.                              *)
LEMMA SupersedeTypes ==
  ASSUME TypeOK, NEW t \in Threads, SupersedeFact(t)
  PROVE  TablesOK'
<1> DEFINE c == target[t]
<1>1. c \in Changes /\ c \in Facts /\ c.key \in Keys
  BY DEF TypeOK, SupersedeFact, Changes, Facts
<1>2. events[c] \in Seq(Statuses \X Statuses) /\ "approved" \in Statuses /\ "superseded" \in Statuses
  BY <1>1 DEF TypeOK, Statuses
<1>3. Append(events[c], <<"approved", "superseded">>) \in Seq(Statuses \X Statuses)
  BY <1>2, TrailGrows
<1>4. chunks' \in SUBSET Changes
  BY ChunksTypes DEF SupersedeFact
<1> QED BY <1>1, <1>2, <1>3, <1>4 DEF TypeOK, TablesOK, SupersedeFact, Dropped

(* Every step keeps all types.                                              *)
LEMMA TypeNext == TypeOK /\ [Next]_vars => TypeOK'
<1> SUFFICES ASSUME TypeOK, [Next]_vars PROVE TypeOK'
  OBVIOUS
<1> USE TypeParts
<1> SUFFICES TablesOK' /\ RequestsOK'
  BY DEF TypeOK, TablesOK, RequestsOK
<1>1. CASE UNCHANGED vars
  BY <1>1 DEF TablesOK, RequestsOK, vars, tables, requests
<1>2. ASSUME NEW t \in Threads, Serve(t) PROVE TablesOK' /\ RequestsOK'
  <2>1. ASSUME NEW p \in Proposals, BeginPropose(t, p) PROVE TablesOK' /\ RequestsOK'
    BY <2>1, ProposalTypes, BeginTypes DEF BeginPropose, Governed, Stages
  <2>2. CASE CheckCurrent(t)
    BY <2>2, AdvanceTypes DEF CheckCurrent, Stages, RequestsOK
  <2>3. CASE InsertChange(t)
    BY <2>3, InsertTypes, ReturnTypes DEF InsertChange
  <2>4. ASSUME NEW c \in Changes, BeginApprove(t, c) PROVE TablesOK' /\ RequestsOK'
    BY <2>4, BeginTypes DEF BeginApprove, Stages
  <2>5. CASE ReadSource(t)
    BY <2>5, AdvanceTypes DEF ReadSource, Stages, RequestsOK
  <2>6. CASE ReadPrevious(t)
    BY <2>6, AdvanceTypes DEF ReadPrevious, Previous, Current, Stages, RequestsOK
  <2>7. CASE ApproveFact(t)
    BY <2>7, ApproveTypes, ReturnTypes DEF ApproveFact
  <2>8. ASSUME NEW c \in Changes, BeginReject(t, c) PROVE TablesOK' /\ RequestsOK'
    BY <2>8, BeginTypes DEF BeginReject, Stages
  <2>9. CASE RejectChange(t)
    BY <2>9, RejectTypes, ReturnTypes DEF RejectChange
  <2>10. ASSUME NEW c \in Changes, BeginSupersede(t, c) PROVE TablesOK' /\ RequestsOK'
    BY <2>10, BeginTypes DEF BeginSupersede, Stages
  <2>11. CASE SupersedeFact(t)
    BY <2>11, SupersedeTypes, ReturnTypes DEF SupersedeFact
  <2>12. CASE Abandon(t)
    BY <2>12, ReturnTypes DEF Abandon, TablesOK, tables
  <2> QED BY <1>2, <2>1, <2>2, <2>3, <2>4, <2>5, <2>6, <2>7, <2>8, <2>9, <2>10, <2>11, <2>12
          DEF Serve
<1> QED BY <1>1, <1>2 DEF Next

(* The tables and the requests keep their types in every execution.         *)
THEOREM TypeCorrect == Spec => []TypeOK
<1>1. Init => TypeOK
  BY TypeInit
<1>2. TypeOK /\ [Next]_vars => TypeOK'
  BY TypeNext
<1> QED BY <1>1, <1>2, PTL DEF Spec

-----------------------------------------------------------------------------
(***************************************************************************)
(* What holds however requests overlap.  RequestInv says what a request    *)
(* remembers of its earlier reads and no other request can undo; GrantInv, *)
(* that a fact of a change was approved; TailInv, that a trail ends in the *)
(* status.  ServingInv is inductive also when a reindexing interferes;     *)
(* OnceInv, that a change without a fact was never approved, only reviews  *)
(* keep: a reindexing may lose the fact of an approved change.             *)
(***************************************************************************)
Deciding == {"read_source", "read_previous", "approve", "reject", "supersede"}

RequestInv ==
  \A t \in Threads :
    /\ pc[t] \in Deciding => status[target[t]] # "none"
    /\ pc[t] = "supersede" => target[t].key \notin Protected
    /\ pc[t] = "approve" => \A f \in prior[t] : f.key = target[t].key

Granted(c) == ApprovalsOf(c) # {} /\ status[c] \notin {"none", "pending"}
GrantInv == \A c \in Changes : fact[c] # "none" => Granted(c)

Trailed(c) ==
  /\ events[c] = <<>> <=> status[c] = "none"
  /\ events[c] # <<>> => events[c][Len(events[c])][2] = status[c]
TailInv == \A c \in Changes : Trailed(c)

ServingInv ==
  /\ TypeOK
  /\ RequestInv
  /\ GrantInv
  /\ TailInv
  /\ CoreFieldsStayCurrent
  /\ EvidenceIsCurrent

OnceInv ==
  \A c \in Changes :
    /\ fact[c] = "none" => ApprovalsOf(c) = {}
    /\ \A i, j \in ApprovalsOf(c) : i = j

RaceInv == ServingInv /\ OnceInv

(* How one more event changes the approvals and the tail of a trail.        *)
LEMMA ApprovalsGrow ==
  ASSUME TypeOK, NEW c \in Changes, NEW from \in Statuses, NEW to \in Statuses,
         events'[c] = Append(events[c], <<from, to>>)
  PROVE  /\ events'[c] # <<>>
         /\ events'[c][Len(events'[c])][2] = to
         /\ to # "approved" => ApprovalsOf(c)' = ApprovalsOf(c)
         /\ to = "approved" => ApprovalsOf(c)' = ApprovalsOf(c) \cup {Len(events[c]) + 1}
<1> DEFINE s == events[c]
           r == events'[c]
<1>1. s \in Seq(Statuses \X Statuses)
  BY DEF TypeOK
<1>2. /\ r # <<>>
      /\ DOMAIN r = 1 .. Len(s) + 1
      /\ Len(r) = Len(s) + 1
      /\ DOMAIN s = 1 .. Len(s)
      /\ Len(s) \in Nat
      /\ \A i \in DOMAIN s : r[i] = s[i]
      /\ r[Len(s) + 1] = <<from, to>>
  BY <1>1, TrailGrows
<1>3. DOMAIN r = DOMAIN s \cup {Len(s) + 1}
  BY <1>2
<1>4. ApprovalsOf(c)' = {i \in DOMAIN r : r[i][2] = "approved"}
  BY DEF ApprovalsOf
<1>5. ApprovalsOf(c) = {i \in DOMAIN s : s[i][2] = "approved"}
  BY DEF ApprovalsOf
<1>6. r[Len(s) + 1][2] = to
  BY <1>2
<1> QED BY <1>2, <1>3, <1>4, <1>5, <1>6

(* An event that is logged with the status it leads to.                     *)
LEMMA LoggedEvent ==
  ASSUME TypeOK, NEW c \in Changes, NEW from \in Statuses, NEW to \in Statuses \ {"none"},
         events'[c] = Append(events[c], <<from, to>>), status'[c] = to
  PROVE  /\ Trailed(c)'
         /\ to = "approved" => Granted(c)'
         /\ Granted(c) /\ to # "pending" => Granted(c)'
BY ApprovalsGrow DEF Trailed, Granted

(* A trail that is left alone.                                              *)
LEMMA NoEvent ==
  ASSUME NEW c \in Changes, events'[c] = events[c], status'[c] = status[c]
  PROVE  /\ Trailed(c)' = Trailed(c)
         /\ Granted(c)' = Granted(c)
         /\ ApprovalsOf(c)' = ApprovalsOf(c)
BY DEF Trailed, Granted, ApprovalsOf

(* The facts, the evidence and the requests of the first ingestion.         *)
LEMMA ServingInit == Init => ServingInv
<1> SUFFICES ASSUME Init PROVE ServingInv
  OBVIOUS
<1>1. TypeOK
  BY TypeInit
<1>2. RequestInv
  BY DEF Init, RequestInv, Deciding
<1>3. \A c \in Changes : c \in Facts /\ fact[c] = "none"
  BY ConstantsAssumption DEF Init, Changes, Facts, SeedFact
<1>4. CoreFieldsStayCurrent
  <2> SUFFICES ASSUME NEW k \in Protected
               PROVE  \E f \in Facts : f.key = k /\ fact[f] = "approved"
    BY DEF CoreFieldsStayCurrent
  <2>1. k \in DOMAIN Seed /\ k \in Keys /\ Seed[k] \in Values
    BY ConstantsAssumption
  <2>2. SeedFact(k) \in Facts /\ SeedFact(k).key = k
    BY <2>1 DEF SeedFact, SeedFacts, Facts
  <2> QED BY <2>1, <2>2 DEF Init
<1>5. EvidenceIsCurrent
  BY <1>3 DEF Init, EvidenceIsCurrent
<1>6. GrantInv /\ TailInv
  BY <1>3 DEF Init, GrantInv, TailInv, Trailed
<1> QED BY <1>1, <1>2, <1>4, <1>5, <1>6 DEF ServingInv

(* A step that ends a request and never takes a change back to "none".      *)
LEMMA RequestKept ==
  ASSUME TypeOK, RequestInv, NEW t \in Threads, Return(t),
         \A c \in Changes : status[c] # "none" => status'[c] # "none"
  PROVE  RequestInv'
BY DEF TypeOK, RequestInv, Return, Deciding, Stages

(* What every action that writes the tables does to trails and facts.       *)
LEMMA WrittenTrails ==
  ASSUME ServingInv,
         \A d \in Changes :
           \/ /\ events'[d] = events[d] /\ status'[d] = status[d]
              /\ fact[d] = "none" => fact'[d] = "none"
           \/ Trailed(d)' /\ (fact'[d] # "none" => Granted(d)')
  PROVE  GrantInv' /\ TailInv'
<1>1. ASSUME NEW d \in Changes PROVE Trailed(d)' /\ (fact'[d] # "none" => Granted(d)')
  BY NoEvent DEF ServingInv, GrantInv, TailInv
<1> QED BY <1>1 DEF GrantInv, TailInv

(* Inserting a change starts a trail only for a new id.                     *)
LEMMA InsertServes ==
  ASSUME ServingInv, NEW t \in Threads, InsertChange(t)
  PROVE  RequestInv' /\ GrantInv' /\ TailInv'
<1>0. PICK c \in Changes : c = target[t]
  BY DEF ServingInv, TypeOK, InsertChange
<1>1. TypeOK /\ fact' = fact
  BY DEF ServingInv, InsertChange
<1>2. RequestInv'
  <2>1. \A d \in Changes : status[d] # "none" => status'[d] # "none"
    BY <1>1 DEF TypeOK, InsertChange
  <2> QED BY <1>1, <2>1, RequestKept DEF ServingInv, InsertChange
<1>3. CASE ~Unknown(c)
  <2>1. UNCHANGED <<status, events>>
    BY <1>0, <1>3 DEF InsertChange
  <2> QED BY <1>1, <1>2, <2>1, WrittenTrails
<1>4. CASE Unknown(c)
  <2>1. /\ status[c] = "none" /\ status'[c] = "pending"
        /\ events'[c] = Append(events[c], <<"none", "pending">>)
        /\ \A d \in Changes \ {c} : events'[d] = events[d] /\ status'[d] = status[d]
    BY <1>0, <1>1, <1>4 DEF InsertChange, Unknown, TypeOK
  <2>2. Trailed(c)' /\ fact'[c] = "none"
    BY <1>1, <2>1, LoggedEvent DEF Statuses, ServingInv, GrantInv, Granted
  <2> QED BY <1>1, <1>2, <2>1, <2>2, WrittenTrails
<1> QED BY <1>3, <1>4

(* An approval keeps a core field current: the new fact replaces only facts *)
(* of its own field.                                                        *)
LEMMA ApproveServes ==
  ASSUME ServingInv, NEW t \in Threads, ApproveFact(t)
  PROVE  RequestInv' /\ GrantInv' /\ TailInv' /\ CoreFieldsStayCurrent' /\ EvidenceIsCurrent'
<1>0. PICK c \in Changes : c = target[t]
  BY DEF ServingInv, TypeOK, ApproveFact
<1>1. TypeOK /\ c \in Facts /\ prior[t] \in SUBSET Facts
  BY DEF ServingInv, TypeOK, ApproveFact, Facts
<1>2. \A f \in prior[t] : f.key = c.key
  BY <1>0 DEF ServingInv, RequestInv, ApproveFact
<1>3. fact'[c] = "approved"
  BY <1>0, <1>1 DEF ApproveFact
<1>4. RequestInv'
  <2>1. \A d \in Changes : status[d] # "none" => status'[d] # "none"
    BY DEF ApproveFact
  <2> QED BY <1>1, <2>1, RequestKept DEF ServingInv, ApproveFact
<1>5. CoreFieldsStayCurrent'
  <2> SUFFICES ASSUME NEW k \in Protected
               PROVE  \E f \in Facts : f.key = k /\ fact'[f] = "approved"
    BY DEF CoreFieldsStayCurrent
  <2>1. CASE c.key = k
    BY <1>1, <1>3, <2>1
  <2>2. CASE c.key # k
    <3>1. PICK f \in Facts : f.key = k /\ fact[f] = "approved"
      BY DEF ServingInv, CoreFieldsStayCurrent
    <3>2. f # c /\ f \notin prior[t]
      BY <1>2, <2>2, <3>1
    <3> QED BY <1>0, <3>1, <3>2 DEF ApproveFact
  <2> QED BY <2>1, <2>2
<1>6. EvidenceIsCurrent'
  BY DEF ApproveFact, ChunksOf, EvidenceIsCurrent
<1>7. GrantInv' /\ TailInv'
  <2>1. /\ "pending" \in Statuses /\ "approved" \in Statuses \ {"none"}
        /\ "superseded" \in Statuses \ {"none"} /\ Changes \subseteq Facts
    BY DEF Statuses, Facts
  <2>2. Trailed(c)' /\ Granted(c)'
    <3>1. events'[c] = Append(events[c], <<"pending", "approved">>) /\ status'[c] = "approved"
      BY <1>0 DEF ApproveFact
    <3> QED BY <1>1, <2>1, <3>1, LoggedEvent
  <2>3. ASSUME NEW d \in Changes \cap Replaced(t), d # c
        PROVE  Trailed(d)' /\ (fact'[d] # "none" => Granted(d)')
    <3>1. /\ events'[d] = Append(events[d], <<"approved", "superseded">>)
          /\ status'[d] = "superseded"
      BY <1>0, <2>3 DEF ApproveFact
    <3>2. Trailed(d)' /\ (Granted(d) => Granted(d)')
      BY <1>1, <2>1, <3>1, LoggedEvent
    <3>3. fact'[d] # "none" => fact[d] # "none"
      BY <1>0, <2>1, <2>3 DEF ApproveFact
    <3> QED BY <3>2, <3>3 DEF ServingInv, GrantInv
  <2>4. \A d \in Changes : d # c /\ d \notin Replaced(t) =>
          /\ events'[d] = events[d] /\ status'[d] = status[d]
          /\ fact[d] = "none" => fact'[d] = "none"
    BY <1>0, <2>1 DEF ApproveFact
  <2> QED BY <2>2, <2>3, <2>4, WrittenTrails
<1> QED BY <1>4, <1>5, <1>6, <1>7

(* A rejection logs itself and touches no fact.                             *)
LEMMA RejectServes ==
  ASSUME ServingInv, NEW t \in Threads, RejectChange(t)
  PROVE  RequestInv' /\ GrantInv' /\ TailInv'
<1>0. PICK c \in Changes : c = target[t]
  BY DEF ServingInv, TypeOK, RejectChange
<1>1. TypeOK
  BY DEF ServingInv
<1>2. /\ events'[c] = Append(events[c], <<"pending", "rejected">>)
      /\ status'[c] = "rejected" /\ fact' = fact
      /\ \A d \in Changes \ {c} : events'[d] = events[d] /\ status'[d] = status[d]
  BY <1>0, <1>1 DEF RejectChange, TypeOK
<1>3. RequestInv'
  BY <1>0, <1>1, <1>2, RequestKept DEF ServingInv, RejectChange
<1>4. Trailed(c)' /\ (fact'[c] # "none" => Granted(c)')
  BY <1>1, <1>2, LoggedEvent DEF Statuses, ServingInv, GrantInv
<1> QED BY <1>2, <1>3, <1>4, WrittenTrails

(* A withdrawal keeps a core field current: it is never about one.          *)
LEMMA SupersedeServes ==
  ASSUME ServingInv, NEW t \in Threads, SupersedeFact(t)
  PROVE  RequestInv' /\ GrantInv' /\ TailInv' /\ CoreFieldsStayCurrent' /\ EvidenceIsCurrent'
<1>0. PICK c \in Changes : c = target[t]
  BY DEF ServingInv, TypeOK, SupersedeFact
<1>1. TypeOK /\ c \in Facts /\ c.key \notin Protected /\ Changes \subseteq Facts
  BY <1>0 DEF ServingInv, RequestInv, TypeOK, SupersedeFact, Facts
<1>2. /\ events'[c] = Append(events[c], <<"approved", "superseded">>)
      /\ status'[c] = "superseded"
      /\ fact'[c] = "none" <=> fact[c] = "none"
      /\ \A d \in Changes \ {c} : events'[d] = events[d] /\ status'[d] = status[d]
      /\ \A f \in Facts \ {c} : fact'[f] = fact[f]
  BY <1>0, <1>1 DEF SupersedeFact, TypeOK
<1>3. RequestInv'
  BY <1>0, <1>1, <1>2, RequestKept DEF ServingInv, SupersedeFact
<1>4. EvidenceIsCurrent'
  BY DEF SupersedeFact, ChunksOf, EvidenceIsCurrent
<1>5. CoreFieldsStayCurrent'
  BY <1>1, <1>2 DEF ServingInv, CoreFieldsStayCurrent
<1>6. Trailed(c)' /\ (fact'[c] # "none" => Granted(c)')
  BY <1>1, <1>2, LoggedEvent DEF Statuses, ServingInv, GrantInv
<1>7. GrantInv' /\ TailInv'
  BY <1>1, <1>2, <1>6, WrittenTrails
<1> QED BY <1>3, <1>4, <1>5, <1>7

(* Every step of a request keeps ServingInv.                                *)
LEMMA ServingNext == ServingInv /\ [Next]_vars => ServingInv'
<1> SUFFICES ASSUME ServingInv, [Next]_vars PROVE ServingInv'
  OBVIOUS
<1>0. TypeOK /\ TypeOK'
  BY TypeNext DEF ServingInv
<1> DEFINE Kept == /\ RequestInv' /\ GrantInv' /\ TailInv'
                   /\ CoreFieldsStayCurrent' /\ EvidenceIsCurrent'
<1> SUFFICES Kept
  BY <1>0 DEF ServingInv
<1>1. ASSUME UNCHANGED <<fact, chunks>>
      PROVE  CoreFieldsStayCurrent' /\ EvidenceIsCurrent'
  BY <1>1 DEF ServingInv, CoreFieldsStayCurrent, EvidenceIsCurrent
<1>2. ASSUME RequestInv', UNCHANGED tables PROVE Kept
  BY <1>1, <1>2 DEF ServingInv, GrantInv, TailInv, Granted, Trailed, ApprovalsOf, tables
<1>3. CASE UNCHANGED vars
  <2>1. RequestInv'
    BY <1>3 DEF ServingInv, RequestInv, vars, tables, requests
  <2> QED BY <1>2, <1>3, <2>1 DEF vars
<1>4. ASSUME NEW t \in Threads, Serve(t) PROVE Kept
  <2>1. ASSUME NEW p \in Proposals, BeginPropose(t, p) PROVE Kept
    BY <1>0, <1>2, <2>1 DEF BeginPropose, Begin, ServingInv, RequestInv, Deciding, tables, TypeOK
  <2>2. CASE CheckCurrent(t)
    BY <1>0, <1>2, <2>2 DEF CheckCurrent, Advance, ServingInv, RequestInv, Deciding, tables, TypeOK
  <2>3. CASE InsertChange(t)
    BY <1>1, <2>3, InsertServes DEF InsertChange
  <2>4. ASSUME NEW c \in Changes, BeginApprove(t, c) PROVE Kept
    BY <1>0, <1>2, <2>4 DEF BeginApprove, Begin, ServingInv, RequestInv, Deciding, tables, TypeOK
  <2>5. CASE ReadSource(t)
    BY <1>0, <1>2, <2>5 DEF ReadSource, Advance, ServingInv, RequestInv, Deciding, tables, TypeOK
  <2>6. CASE ReadPrevious(t)
    BY <1>0, <1>2, <2>6 DEF ReadPrevious, Previous, Current, Advance, ServingInv, RequestInv,
                            Deciding, tables, TypeOK
  <2>7. CASE ApproveFact(t)
    BY <2>7, ApproveServes
  <2>8. ASSUME NEW c \in Changes, BeginReject(t, c) PROVE Kept
    BY <1>0, <1>2, <2>8 DEF BeginReject, Begin, ServingInv, RequestInv, Deciding, tables, TypeOK
  <2>9. CASE RejectChange(t)
    BY <1>1, <2>9, RejectServes DEF RejectChange
  <2>10. ASSUME NEW c \in Changes, BeginSupersede(t, c) PROVE Kept
    BY <1>0, <1>2, <2>10 DEF BeginSupersede, Withdrawable, Begin, ServingInv, RequestInv,
                             Deciding, tables, TypeOK
  <2>11. CASE SupersedeFact(t)
    BY <2>11, SupersedeServes
  <2>12. CASE Abandon(t)
    <3>1. RequestInv'
      BY <1>0, <2>12, RequestKept DEF Abandon, ServingInv, tables
    <3> QED BY <1>2, <2>12, <3>1 DEF Abandon
  <2> QED BY <1>4, <2>1, <2>2, <2>3, <2>4, <2>5, <2>6, <2>7, <2>8, <2>9, <2>10, <2>11, <2>12
          DEF Serve
<1> QED BY <1>3, <1>4 DEF Next

-----------------------------------------------------------------------------
(* The invariant of all interleavings holds of the first ingestion.         *)
LEMMA RaceInit == Init => RaceInv
<1> SUFFICES ASSUME Init PROVE RaceInv
  OBVIOUS
<1>1. OnceInv
  BY DEF Init, OnceInv, ApprovalsOf
<1> QED BY <1>1, ServingInit DEF RaceInv

(* What leaves the approvals of a trail alone and loses no fact.            *)
LEMMA OnceKept ==
  ASSUME OnceInv, NEW c \in Changes, ApprovalsOf(c)' = ApprovalsOf(c),
         fact'[c] = "none" => fact[c] = "none"
  PROVE  /\ fact'[c] = "none" => ApprovalsOf(c)' = {}
         /\ \A i, j \in ApprovalsOf(c)' : i = j
BY DEF OnceInv

(* An approval: the fact id admits one.                                     *)
LEMMA ApproveKeeps ==
  ASSUME RaceInv, NEW t \in Threads, ApproveFact(t)
  PROVE  OnceInv'
<1> DEFINE c == target[t]
<1>1. TypeOK /\ c \in Changes /\ c \in Facts /\ fact[c] = "none" /\ OnceInv
  BY DEF RaceInv, ServingInv, TypeOK, ApproveFact, FreshFactId, Facts
<1> SUFFICES ASSUME NEW d \in Changes
             PROVE  /\ fact'[d] = "none" => ApprovalsOf(d)' = {}
                    /\ \A i, j \in ApprovalsOf(d)' : i = j
  BY DEF OnceInv
<1>2. CASE d = c
  <2>1. events'[d] = Append(events[d], <<"pending", "approved">>) /\ fact'[d] = "approved"
    BY <1>1, <1>2 DEF ApproveFact
  <2>2. ApprovalsOf(d)' = ApprovalsOf(d) \cup {Len(events[d]) + 1}
    BY <1>1, <2>1, ApprovalsGrow DEF Statuses
  <2>3. ApprovalsOf(d) = {}
    BY <1>1, <1>2 DEF OnceInv
  <2> QED BY <2>1, <2>2, <2>3
<1>3. CASE d # c
  <2>1. fact'[d] = "none" => fact[d] = "none"
    BY <1>3 DEF ApproveFact, Facts
  <2>2. CASE d \in Replaced(t)
    <3>1. events'[d] = Append(events[d], <<"approved", "superseded">>)
      BY <1>3, <2>2 DEF ApproveFact
    <3>2. ApprovalsOf(d)' = ApprovalsOf(d)
      BY <1>1, <3>1, ApprovalsGrow DEF Statuses
    <3> QED BY <1>1, <2>1, <3>2, OnceKept
  <2>3. CASE d \notin Replaced(t)
    <3>1. events'[d] = events[d]
      BY <1>3, <2>3 DEF ApproveFact
    <3> QED BY <1>1, <2>1, <3>1, OnceKept DEF ApprovalsOf
  <2> QED BY <2>2, <2>3
<1> QED BY <1>2, <1>3

(* Any other writing action logs no approval and loses no fact.             *)
LEMMA OtherKeeps ==
  ASSUME RaceInv, NEW t \in Threads, InsertChange(t) \/ RejectChange(t) \/ SupersedeFact(t)
  PROVE  OnceInv'
<1>1. TypeOK /\ OnceInv /\ Changes \subseteq Facts
  BY DEF RaceInv, ServingInv, Facts
<1> SUFFICES ASSUME NEW d \in Changes
             PROVE  /\ fact'[d] = "none" => ApprovalsOf(d)' = {}
                    /\ \A i, j \in ApprovalsOf(d)' : i = j
  BY DEF OnceInv
<1>2. fact'[d] = "none" => fact[d] = "none"
  BY <1>1 DEF InsertChange, RejectChange, SupersedeFact, TypeOK
<1>3. \/ events'[d] = events[d]
      \/ \E from \in Statuses, to \in Statuses \ {"approved"} :
           events'[d] = Append(events[d], <<from, to>>)
  <2>1. \/ events'[d] = events[d]
        \/ events'[d] = Append(events[d], <<"none", "pending">>)
        \/ events'[d] = Append(events[d], <<"pending", "rejected">>)
        \/ events'[d] = Append(events[d], <<"approved", "superseded">>)
    BY <1>1 DEF InsertChange, RejectChange, SupersedeFact, TypeOK
  <2>2. /\ {"none", "pending", "approved"} \subseteq Statuses
        /\ {"pending", "rejected", "superseded"} \subseteq Statuses \ {"approved"}
    BY DEF Statuses
  <2> QED BY <2>1, <2>2
<1>4. ApprovalsOf(d)' = ApprovalsOf(d)
  BY <1>1, <1>3, ApprovalsGrow DEF ApprovalsOf
<1> QED BY <1>1, <1>2, <1>4, OnceKept

(* Every step keeps RaceInv.                                                *)
LEMMA RaceNext == RaceInv /\ [Next]_vars => RaceInv'
<1> SUFFICES ASSUME RaceInv, [Next]_vars PROVE OnceInv'
  BY ServingNext DEF RaceInv
<1>1. ASSUME UNCHANGED tables PROVE OnceInv'
  BY <1>1 DEF RaceInv, OnceInv, ApprovalsOf, tables
<1>2. ASSUME NEW t \in Threads, Serve(t) PROVE OnceInv'
  BY <1>1, <1>2, ApproveKeeps, OtherKeeps
     DEF Serve, BeginPropose, Begin, CheckCurrent, Advance, BeginApprove, ReadSource,
         ReadPrevious, BeginReject, BeginSupersede, Abandon, tables
<1> QED BY <1>1, <1>2 DEF Next, vars

(* RaceInv holds in every state of every execution.                         *)
LEMMA RaceInvariant == Spec => []RaceInv
<1>1. Init => RaceInv
  BY RaceInit
<1>2. RaceInv /\ [Next]_vars => RaceInv'
  BY RaceNext
<1> QED BY <1>1, <1>2, PTL DEF Spec

(* A change is approved at most once, however requests overlap.             *)
THEOREM OneApproval == Spec => []ApprovedAtMostOnce
<1>1. RaceInv => ApprovedAtMostOnce
  BY DEF RaceInv, OnceInv, ApprovedAtMostOnce
<1> QED BY <1>1, RaceInvariant, PTL

(* The audit trail of a change ends in its status.                          *)
THEOREM AuditIsComplete == Spec => []AuditTailIsStatus
<1>1. RaceInv => AuditTailIsStatus
  BY DEF RaceInv, ServingInv, TailInv, Trailed, AuditTailIsStatus
<1> QED BY <1>1, RaceInvariant, PTL

(* Every fact that came from a change was approved, and the change is not   *)
(* waiting for review.                                                      *)
THEOREM FactsNeedApproval == Spec => []FactsWereApproved
<1>1. RaceInv => FactsWereApproved
  BY DEF RaceInv, ServingInv, GrantInv, Granted, FactsWereApproved
<1> QED BY <1>1, RaceInvariant, PTL

(* A core field always has a current fact.                                  *)
THEOREM CoreFieldsCurrent == Spec => []CoreFieldsStayCurrent
<1>1. RaceInv => CoreFieldsStayCurrent
  BY DEF RaceInv, ServingInv
<1> QED BY <1>1, RaceInvariant, PTL

(* The searchable evidence is that of the approved facts.                   *)
THEOREM EvidenceCurrent == Spec => []EvidenceIsCurrent
<1>1. RaceInv => EvidenceIsCurrent
  BY DEF RaceInv, ServingInv
<1> QED BY <1>1, RaceInvariant, PTL

(* A superseded fact is never in force again.                               *)
THEOREM HistoryIsFinal == Spec => SupersededForGood
<1> DEFINE Final == \A f \in Facts : fact[f] = "superseded" => fact'[f] = "superseded"
<1>1. RaceInv /\ [Next]_vars => [Final]_vars
  <2> SUFFICES ASSUME RaceInv, Next PROVE Final
    OBVIOUS
  <2> SUFFICES ASSUME NEW f \in Facts, fact[f] = "superseded"
               PROVE  fact'[f] = "superseded"
    OBVIOUS
  <2>1. TypeOK
    BY DEF RaceInv, ServingInv
  <2>2. PICK t \in Threads : Serve(t)
    BY DEF Next
  <2>3. CASE ApproveFact(t)
    BY <2>1, <2>3 DEF ApproveFact, FreshFactId, TypeOK
  <2>4. CASE SupersedeFact(t)
    BY <2>1, <2>4 DEF SupersedeFact, TypeOK
  <2>5. CASE UNCHANGED fact
    BY <2>5
  <2> QED BY <2>2, <2>3, <2>4, <2>5
          DEF Serve, BeginPropose, Begin, CheckCurrent, Advance, InsertChange, BeginApprove,
              ReadSource, ReadPrevious, BeginReject, RejectChange, BeginSupersede, Abandon, tables
<1> QED BY <1>1, RaceInvariant, PTL DEF Spec, SupersededForGood
=============================================================================

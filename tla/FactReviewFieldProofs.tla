------------------------- MODULE FactReviewFieldProofs -------------------------
(***************************************************************************)
(* What holds when no two requests about one field overlap, for every set  *)
(* of threads: requests about other fields, of the same product or not,    *)
(* may interleave with them at any point.                                  *)
(***************************************************************************)
EXTENDS FactReviewProofs

(* What a request has read is still so when it acts: only a request about   *)
(* the same field could have changed it.                                    *)
ReadsStillHold ==
  \A t \in Threads :
    /\ pc[t] \in {"read_source", "read_previous", "approve", "reject"}
         => status[target[t]] = "pending"
    /\ pc[t] = "supersede" => status[target[t]] = "approved"
    /\ pc[t] = "approve" => prior[t] = Current(target[t].key)

FieldInv ==
  /\ RaceInv
  /\ OneRequestPerField
  /\ ReadsStillHold
  /\ OneCurrentFact
  /\ DecisionsAreInForce
  /\ MasterShowsCurrent
  /\ AuditTrailIsAWalk

(* The part of FieldInv that speaks of the tables.                          *)
FieldTables ==
  OneCurrentFact /\ DecisionsAreInForce /\ MasterShowsCurrent /\ AuditTrailIsAWalk

(* At first the facts in force are those of the seed catalog.               *)
LEMMA InitialFacts ==
  ASSUME Init, NEW f \in Facts
  PROVE  fact[f] = "approved" <=> f.key \in DOMAIN Seed /\ f = SeedFact(f.key)
BY DEF Init

(* FieldInv holds of the first ingestion.                                   *)
LEMMA FieldInit == Init => FieldInv
<1> SUFFICES ASSUME Init PROVE FieldInv
  OBVIOUS
<1>1. RaceInv
  BY RaceInit
<1>2. OneRequestPerField /\ ReadsStillHold
  BY DEF Init, OneRequestPerField, ReadsStillHold
<1>3. OneCurrentFact
  BY InitialFacts DEF OneCurrentFact
<1>4. \A c \in Changes : c \in Facts /\ fact[c] = "none" /\ status[c] = "none" /\ events[c] = <<>>
  BY ConstantsAssumption DEF Init, Changes, Facts, SeedFact
<1>5. DecisionsAreInForce /\ AuditTrailIsAWalk
  BY <1>4 DEF DecisionsAreInForce, AuditTrailIsAWalk
<1>6. MasterShowsCurrent
  <2> SUFFICES ASSUME NEW k \in Keys
               PROVE  IF Current(k) = {} THEN master[k] = NoValue
                      ELSE \A f \in Current(k) : master[k] = f.value
    BY DEF MasterShowsCurrent
  <2>1. CASE k \in DOMAIN Seed
    <3>1. SeedFact(k) \in Current(k)
      BY <2>1, ConstantsAssumption, InitialFacts DEF SeedFact, SeedFacts, Facts, Current
    <3>2. \A f \in Current(k) : f = SeedFact(k)
      BY InitialFacts DEF Current
    <3>3. master[k] = SeedFact(k).value
      BY <2>1 DEF Init, SeedFact
    <3> QED BY <3>1, <3>2, <3>3
  <2>2. CASE k \notin DOMAIN Seed
    <3>1. Current(k) = {}
      BY <2>2, InitialFacts DEF Current
    <3> QED BY <2>2, <3>1 DEF Init
  <2> QED BY <2>1, <2>2
<1> QED BY <1>1, <1>2, <1>3, <1>5, <1>6 DEF FieldInv

(* A step that leaves the tables alone keeps the part about tables.         *)
LEMMA FieldTablesUnchanged ==
  ASSUME FieldTables, UNCHANGED tables
  PROVE  FieldTables'
BY DEF FieldTables, OneCurrentFact, DecisionsAreInForce, MasterShowsCurrent,
       AuditTrailIsAWalk, Current, tables

(* A trail that is a walk stays one with an event that starts at its end.   *)
LEMMA WalkGrows ==
  ASSUME RaceInv, AuditTrailIsAWalk, NEW c \in Changes, NEW to \in Statuses,
         events'[c] = Append(events[c], <<status[c], to>>)
  PROVE  \A i \in DOMAIN events'[c] :
           events'[c][i][1] = IF i = 1 THEN "none" ELSE events'[c][i - 1][2]
<1> DEFINE s == events[c]
           r == events'[c]
<1>1. s \in Seq(Statuses \X Statuses) /\ status[c] \in Statuses
  BY DEF RaceInv, ServingInv, TypeOK
<1>2. /\ DOMAIN r = 1 .. Len(s) + 1
      /\ DOMAIN s = 1 .. Len(s)
      /\ Len(s) \in Nat
      /\ \A i \in DOMAIN s : r[i] = s[i]
      /\ r[Len(s) + 1] = <<status[c], to>>
  BY <1>1, TrailGrows
<1>3. s = <<>> => status[c] = "none" /\ Len(s) = 0
  BY DEF RaceInv, ServingInv, TailInv, Trailed
<1>4. s # <<>> => s[Len(s)][2] = status[c] /\ Len(s) # 0
  BY <1>1 DEF RaceInv, ServingInv, TailInv, Trailed
<1>5. \A i \in DOMAIN s : s[i][1] = IF i = 1 THEN "none" ELSE s[i - 1][2]
  BY DEF AuditTrailIsAWalk
<1> SUFFICES ASSUME NEW i \in DOMAIN r
             PROVE  r[i][1] = IF i = 1 THEN "none" ELSE r[i - 1][2]
  OBVIOUS
<1>6. CASE i \in DOMAIN s
  <2>1. i # 1 => i - 1 \in DOMAIN s
    BY <1>2, <1>6
  <2> QED BY <1>2, <1>5, <1>6, <2>1
<1>7. CASE i = Len(s) + 1
  <2>1. CASE s = <<>>
    BY <1>2, <1>3, <1>7, <2>1
  <2>2. CASE s # <<>>
    <3>1. Len(s) \in DOMAIN s /\ i # 1 /\ i - 1 = Len(s)
      BY <1>2, <1>4, <1>7, <2>2
    <3> QED BY <1>2, <1>4, <1>7, <2>2, <3>1
  <2> QED BY <2>1, <2>2
<1> QED BY <1>2, <1>6, <1>7

(* The requests of the other threads are about other fields.                *)
LEMMA OthersElsewhere ==
  ASSUME OneRequestPerField, NEW t \in Threads, pc[t] # "idle",
         NEW u \in Threads, u # t, pc[u] # "idle"
  PROVE  target[u].key # target[t].key
BY DEF OneRequestPerField

(* A request that ends after changing at most its own field leaves what the *)
(* other requests have read as it was.                                      *)
LEMMA ReadsKept ==
  ASSUME FieldInv, NEW t \in Threads, pc[t] # "idle", Return(t),
         \A d \in Changes : d.key # target[t].key => status'[d] = status[d],
         \A f \in Facts : f.key # target[t].key => fact'[f] = fact[f]
  PROVE  ReadsStillHold'
<1> SUFFICES ASSUME NEW u \in Threads
             PROVE  /\ pc'[u] \in {"read_source", "read_previous", "approve", "reject"}
                         => status'[target'[u]] = "pending"
                    /\ pc'[u] = "supersede" => status'[target'[u]] = "approved"
                    /\ pc'[u] = "approve" => prior'[u] =
                         {f \in Facts : f.key = target'[u].key /\ fact'[f] = "approved"}
  BY DEF ReadsStillHold, Current
<1>1. TypeOK
  BY DEF FieldInv, RaceInv, ServingInv
<1>2. CASE u = t
  BY <1>1, <1>2 DEF Return, TypeOK
<1>3. CASE u # t /\ pc[u] = "idle"
  BY <1>1, <1>3 DEF Return, TypeOK
<1>4. CASE u # t /\ pc[u] # "idle"
  <2>1. pc'[u] = pc[u] /\ target'[u] = target[u] /\ prior'[u] = prior[u]
    BY <1>1, <1>4 DEF Return, TypeOK
  <2>2. target[u].key # target[t].key /\ target[u] \in Changes
    BY <1>1, <1>4, OthersElsewhere DEF FieldInv, TypeOK
  <2>3. status'[target[u]] = status[target[u]]
    BY <2>2
  <2>4. {f \in Facts : f.key = target'[u].key /\ fact'[f] = "approved"}
          = Current(target[u].key)
    BY <2>1, <2>2 DEF Current
  <2> QED BY <2>1, <2>3, <2>4 DEF FieldInv, ReadsStillHold
<1> QED BY <1>2, <1>3, <1>4

(* Inserting a change keeps FieldInv.                                       *)
LEMMA InsertKeepsField ==
  ASSUME FieldInv, RaceInv', NEW t \in Threads, InsertChange(t)
  PROVE  FieldTables' /\ ReadsStillHold'
<1>0. PICK c \in Changes : c = target[t]
  BY DEF FieldInv, RaceInv, ServingInv, TypeOK, InsertChange
<1>1. TypeOK /\ pc[t] # "idle" /\ fact' = fact /\ master' = master
  BY DEF FieldInv, RaceInv, ServingInv, InsertChange
<1>2. CASE ~Unknown(c)
  <2>1. UNCHANGED tables
    BY <1>0, <1>2 DEF InsertChange, tables
  <2>2. ReadsStillHold'
    BY <1>1, <2>1, ReadsKept DEF InsertChange, tables
  <2> QED BY <2>1, <2>2, FieldTablesUnchanged DEF FieldInv, FieldTables
<1>3. CASE Unknown(c)
  <2>1. /\ status[c] = "none" /\ status'[c] = "pending"
        /\ events'[c] = Append(events[c], <<"none", "pending">>)
        /\ \A d \in Changes \ {c} : status'[d] = status[d] /\ events'[d] = events[d]
    BY <1>0, <1>1, <1>3 DEF InsertChange, Unknown, TypeOK
  <2>2. ReadsStillHold'
    BY <1>0, <1>1, <2>1, ReadsKept DEF InsertChange
  <2>3. OneCurrentFact' /\ MasterShowsCurrent'
    BY <1>1 DEF FieldInv, OneCurrentFact, MasterShowsCurrent, Current
  <2>4. DecisionsAreInForce'
    BY <1>1, <2>1 DEF FieldInv, DecisionsAreInForce
  <2>5. AuditTrailIsAWalk'
    <3>1. \A i \in DOMAIN events'[c] :
            events'[c][i][1] = IF i = 1 THEN "none" ELSE events'[c][i - 1][2]
      BY <2>1, WalkGrows DEF FieldInv, Statuses
    <3>2. SUFFICES ASSUME NEW d \in Changes
                 PROVE  \A i \in DOMAIN events'[d] :
                          events'[d][i][1] = IF i = 1 THEN "none" ELSE events'[d][i - 1][2]
      BY DEF AuditTrailIsAWalk
    <3>3. CASE d = c
      BY <3>1, <3>3
    <3>4. CASE d # c
      BY <2>1, <3>4 DEF FieldInv, AuditTrailIsAWalk
    <3> QED BY <3>3, <3>4
  <2> QED BY <2>2, <2>3, <2>4, <2>5 DEF FieldTables
<1> QED BY <1>2, <1>3

(* What an approval finds, and does, when nothing else touched its field.   *)
ReplacesFact(c) ==
  /\ status[c] = "pending" /\ fact[c] = "none"
  /\ fact'[c] = "approved" /\ status'[c] = "approved"
  /\ events'[c] = Append(events[c], <<"pending", "approved">>)
  /\ \A f \in Facts \ {c} :
       fact'[f] = IF f \in Current(c.key) THEN "superseded" ELSE fact[f]
  /\ \A d \in Changes \ {c} :
       IF d \in Current(c.key)
       THEN /\ status[d] = "approved" /\ status'[d] = "superseded"
            /\ events'[d] = Append(events[d], <<"approved", "superseded">>)
       ELSE status'[d] = status[d] /\ events'[d] = events[d]
  /\ master' = [master EXCEPT ![c.key] = c.value]

(* What an approval does, the request having read the current facts.        *)
LEMMA ApprovalEffect ==
  ASSUME FieldInv, NEW t \in Threads, ApproveFact(t), NEW c \in Changes, c = target[t]
  PROVE  ReplacesFact(c)
<1>1. TypeOK /\ c \in Facts
  BY DEF FieldInv, RaceInv, ServingInv, Facts
<1>2. prior[t] = Current(c.key) /\ status[c] = "pending" /\ fact[c] = "none"
  BY DEF FieldInv, ReadsStillHold, ApproveFact, FreshFactId
<1>3. c \notin Current(c.key)
  BY <1>2 DEF Current
<1>4. \A f \in Current(c.key) : fact[f] = "approved"
  BY DEF Current
<1>5. \A d \in Changes : d \in Replaced(t) <=> d \in Current(c.key)
  BY <1>2, <1>4 DEF Replaced, FieldInv, DecisionsAreInForce
<1>6. \A d \in Changes : d \in Current(c.key) => status[d] = "approved"
  BY <1>4 DEF FieldInv, DecisionsAreInForce
<1> QED BY <1>1, <1>2, <1>3, <1>4, <1>5, <1>6 DEF ApproveFact, ReplacesFact

(* An approval keeps FieldInv: it retires the one fact it replaces.         *)
LEMMA ApproveKeepsField ==
  ASSUME FieldInv, RaceInv', NEW t \in Threads, ApproveFact(t)
  PROVE  FieldTables' /\ ReadsStillHold'
<1>0. PICK c \in Changes : c = target[t]
  BY DEF FieldInv, RaceInv, ServingInv, TypeOK, ApproveFact
<1>1. ReplacesFact(c)
  BY <1>0, ApprovalEffect
<1>2. TypeOK /\ c \in Facts /\ c.key \in Keys /\ Changes \subseteq Facts
  BY DEF FieldInv, RaceInv, ServingInv, Facts, Changes
<1>3. \A f \in Facts : f \in Current(c.key) <=> f.key = c.key /\ fact[f] = "approved"
  BY DEF Current
<1>4. OneCurrentFact'
  BY <1>1, <1>2, <1>3 DEF ReplacesFact, FieldInv, OneCurrentFact
<1>5. DecisionsAreInForce'
  BY <1>1, <1>2 DEF ReplacesFact, FieldInv, DecisionsAreInForce
<1>6. MasterShowsCurrent'
  <2> SUFFICES ASSUME NEW k \in Keys
               PROVE  IF Current(k)' = {} THEN master'[k] = NoValue
                      ELSE \A f \in Current(k)' : master'[k] = f.value
    BY DEF MasterShowsCurrent
  <2>1. CASE k = c.key
    <3>1. \A f \in Current(k)' : f = c
      BY <1>1, <1>2, <1>3, <2>1 DEF ReplacesFact, Current
    <3>2. c \in Current(k)'
      BY <1>1, <1>2, <2>1 DEF ReplacesFact, Current
    <3> QED BY <1>1, <1>2, <2>1, <3>1, <3>2 DEF ReplacesFact, TypeOK
  <2>2. CASE k # c.key
    <3>1. Current(k)' = Current(k)
      BY <1>1, <1>2, <1>3, <2>2 DEF ReplacesFact, Current
    <3>2. master'[k] = master[k]
      BY <1>1, <1>2, <2>2 DEF ReplacesFact, TypeOK
    <3> QED BY <3>1, <3>2 DEF FieldInv, MasterShowsCurrent
  <2> QED BY <2>1, <2>2
<1>7. AuditTrailIsAWalk'
  <2> SUFFICES ASSUME NEW d \in Changes
               PROVE  \A i \in DOMAIN events'[d] :
                        events'[d][i][1] = IF i = 1 THEN "none" ELSE events'[d][i - 1][2]
    BY DEF AuditTrailIsAWalk
  <2>1. CASE d = c
    BY <1>1, <2>1, WalkGrows DEF ReplacesFact, FieldInv, Statuses
  <2>2. CASE d # c /\ d \in Current(c.key)
    BY <1>1, <2>2, WalkGrows DEF ReplacesFact, FieldInv, Statuses
  <2>3. CASE d # c /\ d \notin Current(c.key)
    BY <1>1, <2>3 DEF ReplacesFact, FieldInv, AuditTrailIsAWalk
  <2> QED BY <2>1, <2>2, <2>3
<1>8. ReadsStillHold'
  <2>1. \A f \in Current(c.key) : f.key = c.key
    BY DEF Current
  <2> QED BY <1>0, <1>1, <1>2, <2>1, ReadsKept DEF ReplacesFact, ApproveFact
<1> QED BY <1>4, <1>5, <1>6, <1>7, <1>8 DEF FieldTables

(* A rejection keeps FieldInv: its change still was pending.                *)
LEMMA RejectKeepsField ==
  ASSUME FieldInv, RaceInv', NEW t \in Threads, RejectChange(t)
  PROVE  FieldTables' /\ ReadsStillHold'
<1>0. PICK c \in Changes : c = target[t]
  BY DEF FieldInv, RaceInv, ServingInv, TypeOK, RejectChange
<1>1. TypeOK /\ pc[t] # "idle" /\ fact' = fact /\ master' = master
  BY DEF FieldInv, RaceInv, ServingInv, RejectChange
<1>2. /\ status[c] = "pending" /\ status'[c] = "rejected"
      /\ events'[c] = Append(events[c], <<"pending", "rejected">>)
      /\ \A d \in Changes \ {c} : status'[d] = status[d] /\ events'[d] = events[d]
  BY <1>0, <1>1 DEF RejectChange, TypeOK, FieldInv, ReadsStillHold
<1>3. ReadsStillHold'
  BY <1>0, <1>1, <1>2, ReadsKept DEF RejectChange
<1>4. OneCurrentFact' /\ MasterShowsCurrent'
  BY <1>1 DEF FieldInv, OneCurrentFact, MasterShowsCurrent, Current
<1>5. DecisionsAreInForce'
  BY <1>1, <1>2 DEF FieldInv, DecisionsAreInForce
<1>6. AuditTrailIsAWalk'
  <2>1. \A i \in DOMAIN events'[c] :
          events'[c][i][1] = IF i = 1 THEN "none" ELSE events'[c][i - 1][2]
    BY <1>2, WalkGrows DEF FieldInv, Statuses
  <2>2. SUFFICES ASSUME NEW d \in Changes
                 PROVE  \A i \in DOMAIN events'[d] :
                          events'[d][i][1] = IF i = 1 THEN "none" ELSE events'[d][i - 1][2]
    BY DEF AuditTrailIsAWalk
  <2>3. CASE d = c
    BY <2>1, <2>3
  <2>4. CASE d # c
    BY <1>2, <2>4 DEF FieldInv, AuditTrailIsAWalk
  <2> QED BY <2>3, <2>4
<1> QED BY <1>3, <1>4, <1>5, <1>6 DEF FieldTables

(* What a withdrawal does, the request having read a change in force.       *)
LEMMA SupersedeEffect ==
  ASSUME FieldInv, NEW t \in Threads, SupersedeFact(t), NEW c \in Changes, c = target[t]
  PROVE  /\ status[c] = "approved" /\ fact[c] = "approved"
         /\ status'[c] = "superseded" /\ fact'[c] = "superseded"
         /\ events'[c] = Append(events[c], <<"approved", "superseded">>)
         /\ \A d \in Changes \ {c} : status'[d] = status[d] /\ events'[d] = events[d]
         /\ \A f \in Facts \ {c} : fact'[f] = fact[f]
         /\ master' = [master EXCEPT ![c.key] = NoValue]
         /\ c \in Facts
<1>1. TypeOK /\ c \in Facts
  BY DEF FieldInv, RaceInv, ServingInv, Facts
<1>2. status[c] = "approved"
  BY DEF FieldInv, ReadsStillHold, SupersedeFact
<1>3. fact[c] = "approved"
  BY <1>2 DEF FieldInv, DecisionsAreInForce
<1> QED BY <1>1, <1>2, <1>3 DEF SupersedeFact, Dropped, TypeOK

(* A withdrawal keeps FieldInv: the field is left without a fact or value.  *)
LEMMA SupersedeKeepsField ==
  ASSUME FieldInv, RaceInv', NEW t \in Threads, SupersedeFact(t)
  PROVE  FieldTables' /\ ReadsStillHold'
<1>0. PICK c \in Changes : c = target[t]
  BY DEF FieldInv, RaceInv, ServingInv, TypeOK, SupersedeFact
<1>1. /\ status[c] = "approved" /\ fact[c] = "approved"
      /\ status'[c] = "superseded" /\ fact'[c] = "superseded"
      /\ events'[c] = Append(events[c], <<"approved", "superseded">>)
      /\ \A d \in Changes \ {c} : status'[d] = status[d] /\ events'[d] = events[d]
      /\ \A f \in Facts \ {c} : fact'[f] = fact[f]
      /\ master' = [master EXCEPT ![c.key] = NoValue]
      /\ c \in Facts
  BY <1>0, SupersedeEffect
<1>2. TypeOK /\ c.key \in Keys /\ Changes \subseteq Facts
  BY DEF FieldInv, RaceInv, ServingInv, Facts, Changes
<1>3. OneCurrentFact'
  BY <1>1, <1>2 DEF FieldInv, OneCurrentFact
<1>4. DecisionsAreInForce'
  BY <1>1, <1>2 DEF FieldInv, DecisionsAreInForce
<1>5. MasterShowsCurrent'
  <2> SUFFICES ASSUME NEW k \in Keys
               PROVE  IF Current(k)' = {} THEN master'[k] = NoValue
                      ELSE \A f \in Current(k)' : master'[k] = f.value
    BY DEF MasterShowsCurrent
  <2>1. CASE k = c.key
    <3>1. Current(k)' = {}
      BY <1>1, <1>2, <2>1 DEF FieldInv, OneCurrentFact, Current
    <3> QED BY <1>1, <1>2, <2>1, <3>1 DEF TypeOK
  <2>2. CASE k # c.key
    <3>1. Current(k)' = Current(k)
      BY <1>1, <1>2, <2>2 DEF Current
    <3>2. master'[k] = master[k]
      BY <1>1, <1>2, <2>2 DEF TypeOK
    <3> QED BY <3>1, <3>2 DEF FieldInv, MasterShowsCurrent
  <2> QED BY <2>1, <2>2
<1>6. AuditTrailIsAWalk'
  <2>1. \A i \in DOMAIN events'[c] :
          events'[c][i][1] = IF i = 1 THEN "none" ELSE events'[c][i - 1][2]
    BY <1>1, WalkGrows DEF FieldInv, Statuses
  <2>2. SUFFICES ASSUME NEW d \in Changes
                 PROVE  \A i \in DOMAIN events'[d] :
                          events'[d][i][1] = IF i = 1 THEN "none" ELSE events'[d][i - 1][2]
    BY DEF AuditTrailIsAWalk
  <2>3. CASE d = c
    BY <2>1, <2>3
  <2>4. CASE d # c
    BY <1>1, <2>4 DEF FieldInv, AuditTrailIsAWalk
  <2> QED BY <2>3, <2>4
<1>7. ReadsStillHold'
  BY <1>0, <1>1, <1>2, ReadsKept DEF SupersedeFact
<1> QED BY <1>3, <1>4, <1>5, <1>6, <1>7 DEF FieldTables

-----------------------------------------------------------------------------
(* Every step that overlaps no request about its field keeps FieldInv.      *)
LEMMA FieldNext == FieldInv /\ [NextOnePerField]_vars => FieldInv'
<1> SUFFICES ASSUME FieldInv, [NextOnePerField]_vars PROVE FieldInv'
  OBVIOUS
<1>0. RaceInv' /\ TypeOK /\ FieldTables
  BY RaceNext DEF FieldInv, NextOnePerField, RaceInv, ServingInv, FieldTables
<1>1. OneRequestPerField'
  BY DEF FieldInv, NextOnePerField, OneRequestPerField, vars, requests
<1> SUFFICES FieldTables' /\ ReadsStillHold'
  BY <1>0, <1>1 DEF FieldInv, FieldTables
<1>2. ASSUME UNCHANGED tables PROVE FieldTables'
  BY <1>0, <1>2, FieldTablesUnchanged
<1>3. CASE UNCHANGED vars
  <2>1. ReadsStillHold'
    BY <1>3 DEF FieldInv, ReadsStillHold, Current, vars, tables, requests
  <2> QED BY <1>2, <1>3, <2>1 DEF vars
<1>4. ASSUME NEW t \in Threads, Serve(t) PROVE FieldTables' /\ ReadsStillHold'
  <2> USE <1>0
  <2>1. ASSUME NEW p \in Proposals, BeginPropose(t, p)
        PROVE  UNCHANGED tables /\ ReadsStillHold'
    BY <2>1 DEF BeginPropose, Begin, FieldInv, ReadsStillHold, Current, tables, TypeOK
  <2>2. CASE CheckCurrent(t)
    <3>1. UNCHANGED tables /\ ReadsStillHold'
      BY <2>2 DEF CheckCurrent, Advance, FieldInv, ReadsStillHold, Current, tables, TypeOK
    <3> QED BY <1>2, <3>1
  <2>3. CASE InsertChange(t)
    BY <2>3, InsertKeepsField
  <2>4. ASSUME NEW c \in Changes, BeginApprove(t, c)
        PROVE  UNCHANGED tables /\ ReadsStillHold'
    BY <2>4 DEF BeginApprove, Begin, FieldInv, ReadsStillHold, Current, tables, TypeOK
  <2>5. CASE ReadSource(t)
    <3>1. UNCHANGED tables /\ ReadsStillHold'
      BY <2>5 DEF ReadSource, Advance, FieldInv, ReadsStillHold, Current, tables, TypeOK
    <3> QED BY <1>2, <3>1
  <2>6. CASE ReadPrevious(t)
    <3>1. UNCHANGED tables /\ ReadsStillHold'
      BY <2>6 DEF ReadPrevious, Previous, Advance, FieldInv, ReadsStillHold, Current,
                  tables, TypeOK
    <3> QED BY <1>2, <3>1
  <2>7. CASE ApproveFact(t)
    BY <2>7, ApproveKeepsField
  <2>8. ASSUME NEW c \in Changes, BeginReject(t, c)
        PROVE  UNCHANGED tables /\ ReadsStillHold'
    BY <2>8 DEF BeginReject, Begin, FieldInv, ReadsStillHold, Current, tables, TypeOK
  <2>9. CASE RejectChange(t)
    BY <2>9, RejectKeepsField
  <2>10. ASSUME NEW c \in Changes, BeginSupersede(t, c)
         PROVE  UNCHANGED tables /\ ReadsStillHold'
    BY <2>10 DEF BeginSupersede, Withdrawable, Begin, FieldInv, ReadsStillHold, Current,
                 tables, TypeOK
  <2>11. CASE SupersedeFact(t)
    BY <2>11, SupersedeKeepsField
  <2>12. CASE Abandon(t)
    <3>1. UNCHANGED tables
      BY <2>12 DEF Abandon
    <3>2. ReadsStillHold'
      BY <2>12, ReadsKept DEF Abandon, tables
    <3> QED BY <1>2, <3>1, <3>2
  <2> QED BY <1>2, <1>4, <2>1, <2>2, <2>3, <2>4, <2>5, <2>6, <2>7, <2>8, <2>9, <2>10, <2>11,
             <2>12 DEF Serve
<1> QED BY <1>3, <1>4 DEF NextOnePerField, Next

(* FieldInv holds in every state when requests about a field do not         *)
(* overlap.                                                                 *)
LEMMA FieldInvariant == SpecOnePerField => []FieldInv
<1>1. Init => FieldInv
  BY FieldInit
<1>2. FieldInv /\ [NextOnePerField]_vars => FieldInv'
  BY FieldNext
<1> QED BY <1>1, <1>2, PTL DEF SpecOnePerField

(* A field has at most one current fact.                                    *)
THEOREM OneCurrent == SpecOnePerField => []OneCurrentFact
<1>1. FieldInv => OneCurrentFact
  BY DEF FieldInv
<1> QED BY <1>1, FieldInvariant, PTL

(* The approved changes are exactly those whose fact is in force.           *)
THEOREM InForce == SpecOnePerField => []DecisionsAreInForce
<1>1. FieldInv => DecisionsAreInForce
  BY DEF FieldInv
<1> QED BY <1>1, FieldInvariant, PTL

(* The product record shows the current facts.                              *)
THEOREM MasterCurrent == SpecOnePerField => []MasterShowsCurrent
<1>1. FieldInv => MasterShowsCurrent
  BY DEF FieldInv
<1> QED BY <1>1, FieldInvariant, PTL

(* The audit trail of a change is a walk from its creation to its status.   *)
THEOREM AuditWalks == SpecOnePerField => []AuditTrailIsAWalk
<1>1. FieldInv => AuditTrailIsAWalk
  BY DEF FieldInv
<1> QED BY <1>1, FieldInvariant, PTL

-----------------------------------------------------------------------------
(* The review implements FactRegister: with at most one current fact for a  *)
(* field, the holder of the field is that fact.                             *)
HolderMap == [k \in Keys |-> Holder(k)]

(* With at most one current fact, the holder of a field is that fact.       *)
LEMMA HolderIsCurrent ==
  ASSUME OneCurrentFact, NEW k \in Keys
  PROVE  /\ \A f \in Current(k) : Holder(k) = f
         /\ Current(k) = {} => Holder(k) = NoChange
         /\ Current(k) # {} => Holder(k) \in Current(k)
BY DEF OneCurrentFact, Current, Holder, OnlyOf

(* The mark of a field without holder is not a fact.                        *)
LEMMA NoChangeIsNoFact == NoChange \notin Facts
BY ConstantsAssumption DEF NoChange, Facts, Changes, SeedFacts

(* The holders after a step that only moves the holder of one field.        *)
LEMMA HolderMoves ==
  ASSUME NEW c \in Changes, NEW h,
         \A f \in Facts : f.key # c.key => fact'[f] = fact[f],
         Holder(c.key)' = h
  PROVE  HolderMap' = [HolderMap EXCEPT ![c.key] = h]
<1>1. \A k \in Keys : k # c.key => Current(k)' = Current(k)
  BY DEF Current
<1>2. \A k \in Keys : k # c.key => Holder(k)' = Holder(k)
  BY <1>1 DEF Holder
<1> QED BY <1>2 DEF HolderMap

(* A step that keeps the facts keeps the holders.                           *)
LEMMA HolderStays == ASSUME fact' = fact PROVE HolderMap' = HolderMap
<1>1. \A k \in Keys : Current(k)' = Current(k)
  BY DEF Current
<1>2. \A k \in Keys : Holder(k)' = Holder(k)
  BY <1>1 DEF Holder
<1> QED BY <1>2 DEF HolderMap

(* The first tables are those of the register.                              *)
LEMMA RegisterInit == Init => R!Start
<1> SUFFICES ASSUME Init PROVE R!Start
  OBVIOUS
<1>1. OneCurrentFact
  BY FieldInit DEF FieldInv
<1>2. ASSUME NEW k \in Keys, k \in DOMAIN Seed PROVE Holder(k) = SeedFact(k)
  <2>1. SeedFact(k) \in Current(k)
    BY <1>2, ConstantsAssumption, InitialFacts DEF SeedFact, SeedFacts, Facts, Current
  <2> QED BY <1>1, <2>1, HolderIsCurrent
<1>3. ASSUME NEW k \in Keys, k \notin DOMAIN Seed PROVE Holder(k) = NoChange
  <2>1. Current(k) = {}
    BY <1>3, InitialFacts DEF Current
  <2> QED BY <1>1, <2>1, HolderIsCurrent
<1> QED BY <1>2, <1>3 DEF R!Start, Init

(* Every step is a step of the register or leaves it as it is.              *)
LEMMA RegisterStep ==
  FieldInv /\ FieldInv' /\ [Next]_vars => [R!Decide]_(R!rvars)
<1> SUFFICES ASSUME FieldInv, FieldInv', [Next]_vars
             PROVE  R!Decide \/ (status' = status /\ HolderMap' = HolderMap)
  BY DEF R!rvars, HolderMap
<1>0. TypeOK /\ OneCurrentFact /\ OneCurrentFact'
  BY DEF FieldInv, RaceInv, ServingInv
<1>1. CASE UNCHANGED <<status, fact>>
  BY <1>1, HolderStays
<1>2. ASSUME NEW t \in Threads, InsertChange(t)
      PROVE  R!Decide \/ (status' = status /\ HolderMap' = HolderMap)
  <2>0. PICK c \in Changes : c = target[t]
    BY <1>0, <1>2 DEF InsertChange, TypeOK
  <2>1. HolderMap' = HolderMap
    BY <1>2, HolderStays DEF InsertChange
  <2>2. CASE Unknown(c)
    <3>1. R!Submit({c})
      BY <1>2, <2>0, <2>1, <2>2, <1>0
         DEF InsertChange, Unknown, HolderMap, R!Submit, R!Unproposed, TypeOK
    <3>2. {c} \in SUBSET R!Unproposed
      BY <3>1 DEF R!Submit
    <3> QED BY <3>1, <3>2 DEF R!Decide
  <2>3. CASE ~Unknown(c)
    BY <1>2, <2>0, <2>1, <2>3 DEF InsertChange
  <2> QED BY <2>2, <2>3
<1>3. ASSUME NEW t \in Threads, ApproveFact(t) PROVE R!Decide
  <2>0. PICK c \in Changes : c = target[t]
    BY <1>0, <1>3 DEF ApproveFact, TypeOK
  <2>1. ReplacesFact(c)
    BY <1>3, <2>0, ApprovalEffect
  <2>2. c.key \in Keys /\ c \in Facts
    BY DEF Changes, Facts
  <2>3. \A f \in Facts : f.key # c.key => fact'[f] = fact[f]
    BY <2>1, <2>2 DEF ReplacesFact, Current
  <2>4. c \in Current(c.key)'
    BY <2>1, <2>2 DEF ReplacesFact, Current
  <2>5. Holder(c.key)' = c
    BY <1>0, <2>2, <2>4 DEF Holder, OnlyOf, Current, OneCurrentFact
  <2>6. HolderMap' = [HolderMap EXCEPT ![c.key] = c]
    BY <2>3, <2>5, HolderMoves
  <2>7. \A d \in Changes : d \in Current(c.key) <=> d = HolderMap[c.key]
    BY <1>0, <2>2, HolderIsCurrent, NoChangeIsNoFact DEF HolderMap, Facts
  <2>8. status' = [d \in Changes |->
                     IF d = c THEN "approved"
                     ELSE IF d = HolderMap[c.key] THEN "superseded" ELSE status[d]]
    <3>1. status' \in [Changes -> Statuses]
      BY DEF FieldInv, RaceInv, ServingInv, TypeOK
    <3> QED BY <2>1, <2>7, <3>1 DEF ReplacesFact
  <2>9. R!Accept(c)
    BY <2>1, <2>6, <2>8 DEF ReplacesFact, R!Accept, HolderMap
  <2> QED BY <2>9 DEF R!Decide
<1>4. ASSUME NEW t \in Threads, RejectChange(t) PROVE R!Decide
  <2>0. PICK c \in Changes : c = target[t]
    BY <1>0, <1>4 DEF RejectChange, TypeOK
  <2>1. HolderMap' = HolderMap
    BY <1>4, HolderStays DEF RejectChange
  <2>2. status[c] = "pending"
    BY <1>4, <2>0 DEF RejectChange, FieldInv, ReadsStillHold
  <2> QED BY <1>4, <2>0, <2>1, <2>2 DEF RejectChange, HolderMap, R!Decide, R!Decline
<1>5. ASSUME NEW t \in Threads, SupersedeFact(t) PROVE R!Decide
  <2>0. PICK c \in Changes : c = target[t]
    BY <1>0, <1>5 DEF SupersedeFact, TypeOK
  <2>1. /\ fact[c] = "approved" /\ fact'[c] = "superseded" /\ c \in Facts
        /\ \A f \in Facts \ {c} : fact'[f] = fact[f]
    BY <1>5, <2>0, SupersedeEffect
  <2>2. c.key \in Keys /\ c.key \notin Protected
    BY <1>5, <2>0 DEF SupersedeFact, FieldInv, RaceInv, ServingInv, RequestInv, Changes
  <2>3. Current(c.key)' = {}
    BY <1>0, <2>1 DEF OneCurrentFact, Current
  <2>4. Holder(c.key)' = NoChange
    BY <2>3 DEF Holder, OnlyOf
  <2>5. HolderMap' = [HolderMap EXCEPT ![c.key] = NoChange]
    BY <2>1, <2>4, HolderMoves
  <2>6. HolderMap[c.key] = c
    BY <1>0, <2>1, <2>2, HolderIsCurrent DEF HolderMap, Current
  <2>7. R!Withdraw(c)
    BY <1>5, <2>0, <2>2, <2>5, <2>6 DEF SupersedeFact, R!Withdraw, HolderMap
  <2> QED BY <2>7 DEF R!Decide
<1>6. CASE UNCHANGED vars
  BY <1>1, <1>6 DEF vars, tables
<1>7. ASSUME NEW t \in Threads, Serve(t)
      PROVE  R!Decide \/ (status' = status /\ HolderMap' = HolderMap)
  <2>1. \/ InsertChange(t) \/ ApproveFact(t) \/ RejectChange(t) \/ SupersedeFact(t)
        \/ UNCHANGED <<status, fact>>
    BY <1>7 DEF Serve, BeginPropose, Begin, CheckCurrent, Advance, BeginApprove, ReadSource,
                ReadPrevious, BeginReject, BeginSupersede, Abandon, tables
  <2> QED BY <1>1, <1>2, <1>3, <1>4, <1>5, <2>1
<1> QED BY <1>6, <1>7 DEF Next

(* With one request per field at a time, the review is the register: each   *)
(* field has one holder and each decision moves it in one step.             *)
THEOREM ReviewImplementsRegister == SpecOnePerField => ImplementsRegister
<1>1. Init => R!Start
  BY RegisterInit
<1>2. FieldInv /\ FieldInv' /\ [NextOnePerField]_vars => [R!Decide]_(R!rvars)
  BY RegisterStep DEF NextOnePerField
<1> QED BY <1>1, <1>2, FieldInvariant, PTL DEF SpecOnePerField, ImplementsRegister, R!Register
=============================================================================

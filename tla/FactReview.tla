------------------------------ MODULE FactReview ------------------------------
(***************************************************************************)
(* Review of product-fact changes (app/approval.py and the tables it uses  *)
(* in app/database/sqlite.py) under the FastAPI thread pool.               *)
(*                                                                         *)
(* A request runs in a thread.  Its SELECTs run in autocommit mode, each   *)
(* seeing the tables of its own moment: the sqlite3 module only begins a   *)
(* transaction at the first INSERT or UPDATE.  From there to the commit a  *)
(* request holds SQLite's write lock, so its writes are one action here,   *)
(* and a request that fails (busy_timeout, IntegrityError, ValueError,     *)
(* process crash) leaves the tables as they were.                          *)
(*                                                                         *)
(* A definition whose name starts with Fault is a deliberate error: it is  *)
(* the definition after it as a plausible slip would have it, kept to show *)
(* which property would notice.  No specification uses it.                 *)
(***************************************************************************)
EXTENDS Naturals, Sequences, FiniteSets

CONSTANTS
  Threads,     \* threads of the pool, each serving one request at a time
  Keys,        \* <<canonical_product_id, field_name>> pairs
  Protected,   \* the keys of core fields, which cannot be withdrawn
  Values,      \* JSON values of facts
  NoValue,     \* the projection holds no value for the key
  Documents,   \* governed source documents
  Historical,  \* documents whose policy is historical or not current
  Hashes,      \* sha256 digests of document versions
  NoHash,      \* no version: an absent document, or a fact of the seed catalog
  DocumentOf,  \* the document a digest is a version of
  Indexed,     \* the version of each document that the first ingestion indexed
  Seed,        \* what the seed catalog states: a function from keys to values
  Proposals    \* what admins may propose: [key, value, document] records

(* A change id digests the product, the field, the value and the sha256 of  *)
(* the source; an approved fact's id digests its change's id; a seed fact's *)
(* id digests the product, the field and the value.                         *)
Changes == [key : Keys, value : Values, sha : Hashes]
SeedFacts == [key : Keys, value : Values, sha : {NoHash}]
Facts == Changes \cup SeedFacts

ASSUME ConstantsAssumption ==
  /\ Protected \subseteq Keys
  /\ Historical \subseteq Documents
  /\ NoValue \notin Values
  /\ NoHash \notin Hashes
  /\ DocumentOf \in [Hashes -> Documents]
  /\ Indexed \in [Documents -> Hashes \cup {NoHash}]
  /\ DOMAIN Seed \subseteq Keys
  /\ \A k \in DOMAIN Seed : Seed[k] \in Values
  /\ Protected \subseteq DOMAIN Seed
  /\ Proposals \subseteq [key : Keys, value : Values, document : Documents]

Statuses == {"none", "pending", "approved", "rejected", "superseded"}
Stages == {"idle", "check_current", "insert", "read_source", "read_previous",
           "approve", "reject", "supersede"}
NoChange == [key |-> NoValue, value |-> NoValue, sha |-> NoHash]

VARIABLES
  status,  \* product_fact_changes: the status of each change, "none" if no row
  events,  \* product_fact_change_events: <<from, to>> pairs of each change
  fact,    \* current_product_facts: "none", "approved" or "superseded"
  master,  \* product_master and products: the value projected for each key
  chunks,  \* indexed_chunks of type approved_product_fact, by fact
  sha,     \* source_documents: the version each document is indexed at
  pc,      \* where the request of each thread stands
  target,  \* the change it is about
  prior    \* approve: the current facts it has read

tables == <<status, events, fact, master, chunks>>
requests == <<pc, target, prior>>
vars == <<tables, sha, requests>>

-----------------------------------------------------------------------------
SeedFact(k) == [key |-> k, value |-> Seed[k], sha |-> NoHash]

(* The first ingestion has stored the seed catalog as approved facts.       *)
Init ==
  /\ status = [c \in Changes |-> "none"]
  /\ events = [c \in Changes |-> <<>>]
  /\ fact = [f \in Facts |-> IF f.key \in DOMAIN Seed /\ f = SeedFact(f.key)
                             THEN "approved" ELSE "none"]
  /\ master = [k \in Keys |-> IF k \in DOMAIN Seed THEN Seed[k] ELSE NoValue]
  /\ chunks = {}
  /\ sha = Indexed
  /\ pc = [t \in Threads |-> "idle"]
  /\ target = [t \in Threads |-> NoChange]
  /\ prior = [t \in Threads |-> {}]

(* Thread t ends its request: response sent or exception raised.            *)
Return(t) ==
  /\ pc' = [pc EXCEPT ![t] = "idle"]
  /\ target' = [target EXCEPT ![t] = NoChange]
  /\ prior' = [prior EXCEPT ![t] = {}]

Begin(t, c, stage) ==
  /\ pc[t] = "idle"
  /\ pc' = [pc EXCEPT ![t] = stage]
  /\ target' = [target EXCEPT ![t] = c]
  /\ UNCHANGED <<prior, tables, sha>>

Advance(t, from, to) ==
  /\ pc[t] = from
  /\ pc' = [pc EXCEPT ![t] = to]
  /\ UNCHANGED <<target, tables, sha>>

(* The facts in force for a key: the rows of status approved.               *)
Current(k) == {f \in Facts : f.key = k /\ fact[f] = "approved"}

(* The refresh of the searchable evidence that ends approve and supersede.  *)
FaultChunkForEveryFact(facts) == {c \in Changes : facts[c] # "none"}
ChunksOf(facts) == {c \in Changes : facts[c] = "approved"}

-----------------------------------------------------------------------------
(* A document is governed once source_documents has a row of it.            *)
FaultAnySource(d) == TRUE
Governed(d) == sha[d] # NoHash

(* ProductFactApprovalService.propose: read the source, compare the value   *)
(* with the current fact, insert the change unless its id is known.  With   *)
(* several current facts for a key the code compares with the newest one.   *)
BeginPropose(t, p) ==
  /\ Governed(p.document)
  /\ Begin(t, [key |-> p.key, value |-> p.value, sha |-> sha[p.document]],
           "check_current")

CheckCurrent(t) ==
  LET known == Current(target[t].key)
  IN /\ Advance(t, "check_current", "insert")
     /\ known = {} \/ \E newest \in known : newest.value # target[t].value
     /\ UNCHANGED prior

FaultInsertOrReplaceChange(c) == TRUE
Unknown(c) == status[c] = "none"

InsertChange(t) ==
  LET c == target[t]
  IN /\ pc[t] = "insert"
     /\ IF Unknown(c)
        THEN /\ status' = [status EXCEPT ![c] = "pending"]
             /\ events' = [events EXCEPT ![c] = Append(@, <<"none", "pending">>)]
        ELSE UNCHANGED <<status, events>>
     /\ Return(t)
     /\ UNCHANGED <<fact, master, chunks, sha>>

-----------------------------------------------------------------------------
(* KnowledgeDatabase.approve_fact_change: three reads, then the writes.     *)
BeginApprove(t, c) ==
  /\ status[c] = "pending"
  /\ Begin(t, c, "read_source")

FaultAnyIndexedSource(c) == sha[DocumentOf[c.sha]] # NoHash
FreshSource(c) ==
  /\ sha[DocumentOf[c.sha]] = c.sha
  /\ DocumentOf[c.sha] \notin Historical

ReadSource(t) ==
  /\ Advance(t, "read_source", "read_previous")
  /\ FreshSource(target[t])
  /\ UNCHANGED prior

FaultOnlyChangedFacts(k) == Current(k) \cap Changes
Previous(k) == Current(k)

ReadPrevious(t) ==
  /\ Advance(t, "read_previous", "approve")
  /\ prior' = [prior EXCEPT ![t] = Previous(target[t].key)]

(* The INSERT of the fact needs a fresh primary key and an existing source. *)
FaultInsertOrReplaceFact(c) == TRUE
FreshFactId(c) == fact[c] = "none"

(* The changes of the facts just read that are still approved.              *)
FaultNothingReplaced(t) == {}
Replaced(t) == {c \in prior[t] \cap Changes : status[c] = "approved"}

ApproveFact(t) ==
  LET c == target[t]
  IN /\ pc[t] = "approve"
     /\ FreshFactId(c)
     /\ Governed(DocumentOf[c.sha])
     /\ fact' = [f \in Facts |->
                   IF f = c THEN "approved"
                   ELSE IF f \in prior[t] /\ fact[f] # "none" THEN "superseded"
                   ELSE fact[f]]
     /\ status' = [d \in Changes |->
                     IF d = c THEN "approved"
                     ELSE IF d \in Replaced(t) THEN "superseded" ELSE status[d]]
     /\ events' = [d \in Changes |->
                     IF d = c THEN Append(events[d], <<"pending", "approved">>)
                     ELSE IF d \in Replaced(t)
                     THEN Append(events[d], <<"approved", "superseded">>)
                     ELSE events[d]]
     /\ master' = [master EXCEPT ![c.key] = c.value]
     /\ chunks' = ChunksOf(fact')
     /\ Return(t)
     /\ UNCHANGED sha

-----------------------------------------------------------------------------
(* KnowledgeDatabase.reject_fact_change: the UPDATE names the id alone.     *)
BeginReject(t, c) ==
  /\ status[c] = "pending"
  /\ Begin(t, c, "reject")

FaultRejectUnlogged(t) ==
  /\ pc[t] = "reject"
  /\ status' = [status EXCEPT ![target[t]] = "rejected"]
  /\ Return(t)
  /\ UNCHANGED <<events, fact, master, chunks, sha>>

RejectChange(t) ==
  /\ pc[t] = "reject"
  /\ status' = [status EXCEPT ![target[t]] = "rejected"]
  /\ events' = [events EXCEPT ![target[t]] = Append(@, <<"pending", "rejected">>)]
  /\ Return(t)
  /\ UNCHANGED <<fact, master, chunks, sha>>

(* KnowledgeDatabase.supersede_fact_change: withdraw an approved fact of a  *)
(* field that is not a core field, and drop it from the projection.         *)
FaultWithdrawAny(c) == status[c] = "approved"
Withdrawable(c) == status[c] = "approved" /\ c.key \notin Protected

BeginSupersede(t, c) ==
  /\ Withdrawable(c)
  /\ Begin(t, c, "supersede")

FaultNotDropped(k) == master
Dropped(k) == [master EXCEPT ![k] = NoValue]

SupersedeFact(t) ==
  LET c == target[t]
  IN /\ pc[t] = "supersede"
     /\ fact' = [fact EXCEPT ![c] = IF @ = "none" THEN "none" ELSE "superseded"]
     /\ status' = [status EXCEPT ![c] = "superseded"]
     /\ events' = [events EXCEPT ![c] = Append(@, <<"approved", "superseded">>)]
     /\ master' = Dropped(c.key)
     /\ chunks' = ChunksOf(fact')
     /\ Return(t)
     /\ UNCHANGED sha

(* A refused check, an exception or a crash: the transaction rolls back.    *)
Abandon(t) ==
  /\ pc[t] # "idle"
  /\ Return(t)
  /\ UNCHANGED <<tables, sha>>

-----------------------------------------------------------------------------
Serve(t) ==
  \/ \E p \in Proposals : BeginPropose(t, p)
  \/ CheckCurrent(t)
  \/ InsertChange(t)
  \/ \E c \in Changes : BeginApprove(t, c)
  \/ ReadSource(t)
  \/ ReadPrevious(t)
  \/ ApproveFact(t)
  \/ \E c \in Changes : BeginReject(t, c)
  \/ RejectChange(t)
  \/ \E c \in Changes : BeginSupersede(t, c)
  \/ SupersedeFact(t)
  \/ Abandon(t)

Next == \E t \in Threads : Serve(t)

Spec == Init /\ [][Next]_vars

(* The same program when no two requests about one field overlap.  Nothing  *)
(* in the code enforces it: it is what a single reviewer per field gives.   *)
OneRequestPerField ==
  \A t, u \in Threads :
    pc[t] # "idle" /\ pc[u] # "idle" /\ target[t].key = target[u].key => t = u

NextOnePerField == Next /\ OneRequestPerField'

SpecOnePerField == Init /\ [][NextOnePerField]_vars

-----------------------------------------------------------------------------
(* The tables hold what their schema allows, and a request knows its change. *)
TypeOK ==
  /\ status \in [Changes -> Statuses]
  /\ events \in [Changes -> Seq(Statuses \X Statuses)]
  /\ fact \in [Facts -> {"none", "approved", "superseded"}]
  /\ master \in [Keys -> Values \cup {NoValue}]
  /\ chunks \in SUBSET Changes
  /\ sha \in [Documents -> Hashes \cup {NoHash}]
  /\ pc \in [Threads -> Stages]
  /\ target \in [Threads -> Changes \cup {NoChange}]
  /\ \A t \in Threads : pc[t] # "idle" => target[t] \in Changes
  /\ prior \in [Threads -> SUBSET Facts]

(* Whatever the interleaving of requests:                                   *)

(* a change is approved at most once, so one proposal never creates two     *)
(* facts or two approval decisions (approve_fact_change, the fact's id).    *)
ApprovalsOf(c) == {i \in DOMAIN events[c] : events[c][i][2] = "approved"}
ApprovedAtMostOnce ==
  \A c \in Changes : \A i, j \in ApprovalsOf(c) : i = j

(* the audit trail of a change ends in the change's status: every decision  *)
(* is logged in the transaction that takes it, including the superseding of *)
(* the changes an approval replaces.                                        *)
AuditTailIsStatus ==
  \A c \in Changes :
    IF events[c] = <<>> THEN status[c] = "none"
    ELSE events[c][Len(events[c])][2] = status[c]

(* a fact that came from a change was approved: its trail says so, and the  *)
(* change never waits for review again (INSERT OR IGNORE of a known id).    *)
FactsWereApproved ==
  \A c \in Changes :
    fact[c] # "none" => ApprovalsOf(c) # {} /\ status[c] # "pending"

(* a core field of a product is never left without a current fact, however  *)
(* approvals of several replacements and withdrawals overlap.               *)
CoreFieldsStayCurrent ==
  \A k \in Protected : \E f \in Facts : f.key = k /\ fact[f] = "approved"

(* the searchable evidence is that of the approved facts, at every commit.  *)
EvidenceIsCurrent ==
  chunks = {c \in Changes : fact[c] = "approved"}

(* history is final: a superseded fact is never in force again by a review. *)
SupersededForGood ==
  [][\A f \in Facts : fact[f] = "superseded" => fact'[f] = "superseded"]_vars

-----------------------------------------------------------------------------
(* When requests about one field do not overlap:                            *)

(* a field has at most one current fact: approving a replacement retires    *)
(* the fact it replaces.                                                    *)
OneCurrentFact ==
  \A f, g \in Facts :
    f.key = g.key /\ fact[f] = "approved" /\ fact[g] = "approved" => f = g

(* the decision and the authority agree: the approved changes are exactly   *)
(* those whose fact is current.                                             *)
DecisionsAreInForce ==
  \A c \in Changes : status[c] = "approved" <=> fact[c] = "approved"

(* the product record shows the current fact of each field, and nothing for *)
(* a field that has none.                                                   *)
MasterShowsCurrent ==
  \A k \in Keys :
    IF Current(k) = {} THEN master[k] = NoValue
    ELSE \A f \in Current(k) : master[k] = f.value

(* the audit trail is a walk: each event starts where the one before ended, *)
(* the first one at the creation of the change.                             *)
AuditTrailIsAWalk ==
  \A c \in Changes : \A i \in DOMAIN events[c] :
    events[c][i][1] = IF i = 1 THEN "none" ELSE events[c][i - 1][2]

(* the review implements the register: one holder per field, decided with   *)
(* the change in one step.                                                  *)
OnlyOf(facts) == IF facts = {} THEN NoChange ELSE CHOOSE f \in facts : TRUE
Holder(k) == OnlyOf(Current(k))
R == INSTANCE FactRegister WITH
       NoFact <- NoChange, verdict <- status, holder <- [k \in Keys |-> Holder(k)],
       Initial <- [k \in Keys |-> IF k \in DOMAIN Seed THEN SeedFact(k) ELSE NoChange]
ImplementsRegister == R!Register

(* What the documentation says of any execution, which overlapping requests *)
(* about one field break (see README.md): a rejected or pending proposal    *)
(* never is the current authority.                                          *)
RejectedIsNotInForce ==
  \A c \in Changes : status[c] \in {"rejected", "pending"} => fact[c] # "approved"
=============================================================================

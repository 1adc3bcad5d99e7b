------------------------ MODULE GovernedIngestionProofs ------------------------
(***************************************************************************)
(* Theorems about GovernedIngestion for every set of documents, versions,  *)
(* threads and fields.  Types, the put-to-review of what the catalog       *)
(* states, and the agreement of index and tables need no assumption on how *)
(* requests and ingestion overlap (GovernedSpec); that a reindexing        *)
(* decides nothing and forgets nothing needs the quiet of QuietSpec.       *)
(***************************************************************************)
EXTENDS GovernedIngestion, FactReviewFieldProofs

(* The type of the variables that the pipeline adds to the review.          *)
PipelineOK ==
  /\ file \in [Configured -> Hashes]
  /\ stage \in IngestionStages
  /\ loaded \in [Configured -> Hashes \cup {NoHash}]
  /\ snapshot \in SUBSET Facts
  /\ retained \in [facts : SUBSET Facts, sources : SUBSET (Managed \X Hashes)]
  /\ index \in SUBSET Changes

(* GovernedTypeOK is the types of the review and of the pipeline.           *)
LEMMA PipelineParts == GovernedTypeOK <=> TypeOK /\ PipelineOK
BY DEF GovernedTypeOK, PipelineOK

(* What a version of the catalog states is a change of that version.        *)
LEMMA StatedTypes ==
  ASSUME NEW h \in Hashes, NEW k \in DOMAIN Stated[h]
  PROVE  [key |-> k, value |-> Stated[h][k], sha |-> h] \in Changes
BY SourcesAssumption DEF Changes

(* The choice of one approved fact per field takes approved facts only.     *)
LEMMA SnapshotTypes ==
  ASSUME NEW facts \in SUBSET Facts, NEW some \in OneOfEach(facts)
  PROVE  some \in SUBSET facts
BY DEF OneOfEach

(* A rebuilt source is indexed at a version or not at all.                  *)
LEMMA RebuiltTypes ==
  ASSUME GovernedTypeOK, NEW d \in Documents
  PROVE  RebuiltSource(d) \in Hashes \cup {NoHash}
<1>1. CASE d \in Configured
  BY <1>1 DEF RebuiltSource, GovernedTypeOK
<1>2. CASE d \notin Configured /\ \E h \in Hashes : <<d, h>> \in retained.sources
  <2>1. (CHOOSE h \in Hashes : <<d, h>> \in retained.sources) \in Hashes
    BY <1>2
  <2> QED BY <1>2, <2>1 DEF RebuiltSource
<1>3. CASE d \notin Configured /\ ~\E h \in Hashes : <<d, h>> \in retained.sources
  BY <1>3 DEF RebuiltSource
<1> QED BY <1>1, <1>2, <1>3

(* The changes that the rebuild puts to review.                             *)
Opened == {c \in Drift(snapshot, loaded[Catalog]) : Unknown(c)}

(* KnowledgeDatabase.rebuild keeps the types of the tables.                 *)
LEMMA RebuildTypes ==
  ASSUME GovernedTypeOK, RebuildTables
  PROVE  TypeOK'
<1>1. fact' \in [Facts -> {"none", "approved", "superseded"}]
  BY DEF RebuildTables
<1>2. master' \in [Keys -> Values \cup {NoValue}]
  <2>1. ASSUME NEW k \in Keys, \E f \in snapshot : f.key = k
        PROVE  (CHOOSE f \in snapshot : f.key = k).value \in Values
    <3>1. (CHOOSE f \in snapshot : f.key = k) \in Facts
      BY <2>1 DEF GovernedTypeOK
    <3> QED BY <3>1 DEF Facts, Changes, SeedFacts
  <2> QED BY <2>1 DEF RebuildTables, Effective
<1>3. status' \in [Changes -> Statuses]
  <2>1. status' = [c \in Changes |-> IF c \in Opened THEN "pending" ELSE status[c]]
    BY DEF RebuildTables, Opened
  <2> QED BY <2>1 DEF GovernedTypeOK, TypeOK, Statuses
<1>4. events' \in [Changes -> Seq(Statuses \X Statuses)]
  <2>1. events' = [c \in Changes |-> IF c \in Opened
                                     THEN Append(events[c], <<"none", "pending">>)
                                     ELSE events[c]]
    BY DEF RebuildTables, Opened
  <2>2. \A c \in Changes : events[c] \in Seq(Statuses \X Statuses)
    BY DEF GovernedTypeOK, TypeOK
  <2>3. "none" \in Statuses /\ "pending" \in Statuses
    BY DEF Statuses
  <2>4. \A c \in Changes : Append(events[c], <<"none", "pending">>) \in Seq(Statuses \X Statuses)
    BY <2>2, <2>3, TrailGrows
  <2> QED BY <2>1, <2>2, <2>4
<1>5. chunks' \in SUBSET Changes
  BY ChunksTypes DEF RebuildTables
<1>6. sha' \in [Documents -> Hashes \cup {NoHash}]
  BY RebuiltTypes DEF RebuildTables
<1>7. RequestsOK'
  BY TypeParts DEF GovernedTypeOK, RebuildTables, requests, RequestsOK
<1> QED BY <1>1, <1>2, <1>3, <1>4, <1>5, <1>6, <1>7, TypeParts DEF TablesOK, TypeOK, RequestsOK

(* Every step of the pipeline keeps all types.                              *)
LEMMA IngestTypes ==
  ASSUME GovernedTypeOK, Ingest
  PROVE  GovernedTypeOK'
<1> SUFFICES TypeOK' /\ PipelineOK'
  BY DEF GovernedTypeOK, PipelineOK
<1>1. TypeOK /\ PipelineOK
  BY PipelineParts
<1>2. ASSUME UNCHANGED vars PROVE TypeOK'
  BY <1>1, <1>2, TypeNext
<1>3. CASE LoadSources
  <2>1. PipelineOK'
    BY <1>1, <1>3 DEF LoadSources, PipelineOK, Goto, IngestionStages
  <2> QED BY <1>2, <1>3, <2>1 DEF LoadSources
<1>4. CASE ReadFacts
  <2>1. snapshot' \in SUBSET Facts
    BY <1>4, SnapshotTypes DEF ReadFacts, Approved
  <2>2. PipelineOK'
    BY <1>1, <1>4, <2>1 DEF ReadFacts, PipelineOK, Goto, IngestionStages
  <2> QED BY <1>2, <1>4, <2>2 DEF ReadFacts
<1>5. CASE VerifyLoaded
  <2>1. PipelineOK'
    BY <1>1, <1>5 DEF VerifyLoaded, PipelineOK, Goto, IngestionStages
  <2> QED BY <1>2, <1>5, <2>1 DEF VerifyLoaded
<1>6. CASE RebuildIndex
  <2>1. PipelineOK'
    BY <1>1, <1>6 DEF RebuildIndex, PipelineOK, Goto, IngestionStages, Points
  <2> QED BY <1>2, <1>6, <2>1 DEF RebuildIndex
<1>7. CASE ReadRetained
  <2>1. History \in SUBSET Facts
    BY DEF History
  <2>2. ManagedSources \in SUBSET (Managed \X Hashes)
    BY <1>1, SourcesAssumption DEF ManagedSources, TypeOK
  <2>3. PipelineOK'
    BY <1>1, <1>7, <2>1, <2>2 DEF ReadRetained, PipelineOK, Goto, IngestionStages
  <2> QED BY <1>2, <1>7, <2>3 DEF ReadRetained
<1>8. CASE RebuildTables
  <2>1. PipelineOK'
    BY <1>1, <1>8 DEF RebuildTables, PipelineOK, Goto, IngestionStages
  <2> QED BY <1>8, <2>1, RebuildTypes
<1>9. CASE EndIngestion
  <2>1. PipelineOK'
    BY <1>1, <1>9 DEF EndIngestion, PipelineOK, Nothing, IngestionStages
  <2> QED BY <1>2, <1>9, <2>1 DEF EndIngestion
<1> QED BY <1>3, <1>4, <1>5, <1>6, <1>7, <1>8, <1>9 DEF Ingest

(* Every step, of a request, of an operator or of the pipeline, keeps them. *)
LEMMA GovernedTypeNext == GovernedTypeOK /\ [GovernedNext]_allVars => GovernedTypeOK'
<1> SUFFICES ASSUME GovernedTypeOK, [GovernedNext]_allVars PROVE GovernedTypeOK'
  OBVIOUS
<1> SUFFICES TypeOK' /\ PipelineOK'
  BY DEF GovernedTypeOK, PipelineOK
<1>1. TypeOK /\ PipelineOK
  BY PipelineParts
<1>2. CASE UNCHANGED allVars
  <2>1. TypeOK'
    BY <1>1, <1>2, TypeNext DEF allVars
  <2> QED BY <1>1, <1>2, <2>1 DEF allVars, run, PipelineOK
<1>3. CASE Review
  <2>1. TypeOK'
    BY <1>1, <1>3, TypeNext DEF Review
  <2> QED BY <1>1, <1>3, <2>1 DEF Review, run, PipelineOK
<1>4. ASSUME NEW d \in Configured, NEW h \in Hashes, EditSource(d, h)
      PROVE  TypeOK' /\ PipelineOK'
  <2>1. TypeOK'
    BY <1>1, <1>4, TypeNext DEF EditSource
  <2> QED BY <1>1, <1>4, <2>1 DEF EditSource, run, PipelineOK
<1>5. ASSUME NEW d \in Managed, NEW h \in Hashes, RegisterManagedSource(d, h)
      PROVE  TypeOK' /\ PipelineOK'
  <2>1. TypeOK'
    BY <1>1, <1>5 DEF RegisterManagedSource, TypeOK, tables, requests
  <2> QED BY <1>1, <1>5, <2>1 DEF RegisterManagedSource, run, PipelineOK
<1> QED BY <1>2, <1>3, <1>4, <1>5, IngestTypes DEF GovernedNext, GovernedTypeOK, PipelineOK

(* The variables have their types at first.                                 *)
LEMMA GovernedTypeInit == GovernedInit => GovernedTypeOK
<1> SUFFICES ASSUME GovernedInit PROVE GovernedTypeOK
  OBVIOUS
<1>1. TypeOK
  BY TypeInit DEF GovernedInit
<1>2. PipelineOK
  BY SourcesAssumption DEF GovernedInit, PipelineOK, IngestionStages, Nothing
<1> QED BY <1>1, <1>2, PipelineParts

(* However reviews, edits, registrations and ingestions interleave, the     *)
(* tables, the index and what an ingestion holds keep their types.          *)
THEOREM GovernedTypeCorrect == GovernedSpec => []GovernedTypeOK
<1> QED BY GovernedTypeInit, GovernedTypeNext, PTL DEF GovernedSpec

-----------------------------------------------------------------------------
(***************************************************************************)
(* What an ingestion leaves behind, however requests overlap with it.      *)
(* PointsInv remembers the index that it has just replaced.                *)
(***************************************************************************)
PointsInv == stage \in {"read_retained", "rebuild_tables"} => index = Points(snapshot)

LoadedInv == stage # "idle" => loaded \in [Configured -> Hashes]

IngestInv == GovernedTypeOK /\ PointsInv /\ LoadedInv

(* Only the pipeline touches what PointsInv and LoadedInv are about.        *)
LEMMA IngestInvNext == IngestInv /\ [GovernedNext]_allVars => IngestInv'
<1> SUFFICES ASSUME IngestInv, [GovernedNext]_allVars PROVE IngestInv'
  OBVIOUS
<1>1. GovernedTypeOK'
  BY GovernedTypeNext DEF IngestInv
<1> SUFFICES PointsInv' /\ LoadedInv'
  BY <1>1 DEF IngestInv
<1>2. ASSUME UNCHANGED <<run, index>> PROVE PointsInv' /\ LoadedInv'
  BY <1>2 DEF IngestInv, PointsInv, LoadedInv, run, Points
<1>3. CASE LoadSources
  BY <1>3 DEF IngestInv, GovernedTypeOK, PointsInv, LoadedInv, LoadSources, Goto
<1>4. CASE ReadFacts
  BY <1>4 DEF IngestInv, PointsInv, LoadedInv, ReadFacts, Goto
<1>5. CASE VerifyLoaded
  BY <1>5 DEF IngestInv, PointsInv, LoadedInv, VerifyLoaded, Goto
<1>6. CASE RebuildIndex
  BY <1>6 DEF IngestInv, PointsInv, LoadedInv, RebuildIndex, Goto, Points
<1>7. CASE ReadRetained
  BY <1>7 DEF IngestInv, PointsInv, LoadedInv, ReadRetained, Goto, Points
<1>8. CASE RebuildTables
  BY <1>8 DEF IngestInv, PointsInv, LoadedInv, RebuildTables, Goto
<1>9. CASE EndIngestion
  BY <1>9 DEF PointsInv, LoadedInv, EndIngestion
<1> QED BY <1>2, <1>3, <1>4, <1>5, <1>6, <1>7, <1>8, <1>9
        DEF GovernedNext, Ingest, Review, EditSource, RegisterManagedSource, allVars

(* IngestInv holds in every execution.                                      *)
LEMMA IngestInvariant == GovernedSpec => []IngestInv
<1>1. GovernedInit => IngestInv
  BY GovernedTypeInit DEF GovernedInit, IngestInv, PointsInv, LoadedInv
<1> QED BY <1>1, IngestInvNext, PTL DEF GovernedSpec

(* The only step from rebuild_tables to verify is the rebuild.              *)
LEMMA OnlyRebuild ==
  ASSUME [GovernedNext]_allVars, stage = "rebuild_tables", stage' = "verify"
  PROVE  RebuildTables
BY DEF GovernedNext, Ingest, Review, EditSource, RegisterManagedSource, allVars, run,
       LoadSources, ReadFacts, VerifyLoaded, RebuildIndex, ReadRetained, EndIngestion, Goto

(* A fact is in force after the rebuild if and only if it was read as such. *)
LEMMA RebuiltApproved ==
  ASSUME GovernedTypeOK, RebuildTables
  PROVE  Approved' = snapshot
BY DEF GovernedTypeOK, RebuildTables, Effective, Approved

(* After a reindexing each value the indexed catalog states is in force or  *)
(* a change of it has been put to review (reconcile_approved_facts).        *)
THEOREM DriftReviewed == GovernedSpec => DriftIsReviewed
<1> DEFINE Goal == stage = "rebuild_tables" /\ stage' = "verify" =>
       \A k \in DOMAIN Stated[sha'[Catalog]] :
         LET c == [key |-> k, value |-> Stated[sha'[Catalog]][k], sha |-> sha'[Catalog]]
         IN Holds(Approved', k, c.value) \/ status'[c] # "none"
<1>1. IngestInv /\ [GovernedNext]_allVars => [Goal]_allVars
  <2> SUFFICES ASSUME IngestInv, [GovernedNext]_allVars,
                      stage = "rebuild_tables", stage' = "verify",
                      NEW k \in DOMAIN Stated[sha'[Catalog]]
               PROVE  LET c == [key |-> k, value |-> Stated[sha'[Catalog]][k],
                                sha |-> sha'[Catalog]]
                      IN Holds(Approved', k, c.value) \/ status'[c] # "none"
    OBVIOUS
  <2> DEFINE h == loaded[Catalog]
             c == [key |-> k, value |-> Stated[h][k], sha |-> h]
  <2>1. RebuildTables /\ GovernedTypeOK
    BY OnlyRebuild DEF IngestInv
  <2>2. sha'[Catalog] = h /\ h \in Hashes
    BY <2>1, SourcesAssumption DEF RebuildTables, RebuiltSource, IngestInv, LoadedInv, Configured
  <2>3. c \in Changes /\ k \in DOMAIN Stated[h]
    BY <2>2, StatedTypes
  <2>4. Approved' = snapshot
    BY <2>1, RebuiltApproved
  <2>5. CASE Holds(snapshot, k, Stated[h][k])
    BY <2>2, <2>4, <2>5
  <2>6. CASE ~Holds(snapshot, k, Stated[h][k])
    <3>1. c \in Drift(snapshot, h)
      BY <2>3, <2>6 DEF Drift
    <3>2. status'[c] = IF Unknown(c) THEN "pending" ELSE status[c]
      BY <2>1, <2>3, <3>1 DEF RebuildTables
    <3> QED BY <2>2, <3>2 DEF Unknown
  <2> QED BY <2>5, <2>6
<1>2. [][Goal]_allVars <=> DriftIsReviewed
  BY DEF DriftIsReviewed
<1>3. GovernedSpec => [][Goal]_allVars
  BY <1>1, IngestInvariant, PTL DEF GovernedSpec
<1> QED BY <1>2, <1>3

(* The rebuilt index and the rebuilt evidence are about the same facts.     *)
THEOREM IndexAgrees == GovernedSpec => IndexMatchesEvidence
<1>1. IngestInv /\ [GovernedNext]_allVars
        => [stage = "rebuild_tables" /\ stage' = "verify" => index = chunks']_allVars
  <2> SUFFICES ASSUME IngestInv, [GovernedNext]_allVars,
                      stage = "rebuild_tables", stage' = "verify"
               PROVE  index = chunks'
    OBVIOUS
  <2>1. RebuildTables /\ GovernedTypeOK
    BY OnlyRebuild DEF IngestInv
  <2>2. index = snapshot \cap Changes
    BY DEF IngestInv, PointsInv, Points
  <2>3. chunks' = {c \in Changes : fact'[c] = "approved"}
    BY <2>1 DEF RebuildTables, ChunksOf
  <2>4. \A c \in Changes : fact'[c] = "approved" <=> c \in snapshot
    BY <2>1 DEF RebuildTables, Effective, Facts
  <2> QED BY <2>2, <2>3, <2>4
<1> QED BY <1>1, IngestInvariant, PTL DEF GovernedSpec, IndexMatchesEvidence

-----------------------------------------------------------------------------
(***************************************************************************)
(* What reviews and reindexings keep however they overlap.  A rebuild may  *)
(* lose an approval or bring a fact back, but what it puts into force is   *)
(* one fact of every field that had one when it read the facts             *)
(* (SnapshotInv), and no fact but of a change that was approved (HeldInv). *)
(***************************************************************************)
SnapshotInv ==
  Replacing => /\ \A k \in Protected : \E f \in snapshot : f.key = k
               /\ \A f, g \in snapshot : f.key = g.key => f = g

HeldInv == \A c \in Changes : c \in snapshot \cup retained.facts => Granted(c)

OverlapInv == GovernedTypeOK /\ ServingInv /\ SnapshotInv /\ HeldInv

(* The changes a rebuild opens were unknown: their trails begin with it.    *)
LEMMA RebuildOpens ==
  ASSUME GrantInv, TailInv, RebuildTables, NEW c \in Changes
  PROVE  \/ status'[c] = status[c] /\ events'[c] = events[c]
         \/ /\ status[c] = "none" /\ events[c] = <<>> /\ fact[c] = "none"
            /\ status'[c] = "pending" /\ events'[c] = <<<<"none", "pending">>>>
<1>1. CASE c \notin Opened
  BY <1>1 DEF RebuildTables, Opened
<1>2. CASE c \in Opened
  <2>1. status[c] = "none"
    BY <1>2 DEF Opened, Unknown
  <2>2. events[c] = <<>> /\ fact[c] = "none"
    BY <2>1 DEF TailInv, Trailed, GrantInv, Granted
  <2>3. status'[c] = "pending" /\ events'[c] = Append(events[c], <<"none", "pending">>)
    BY <1>2 DEF RebuildTables, Opened
  <2> QED BY <2>1, <2>2, <2>3
<1> QED BY <1>1, <1>2

(* A change that was approved stays so: a review only logs another decision. *)
LEMMA GrantedStays ==
  ASSUME ServingInv, [Next]_vars, NEW c \in Changes, Granted(c)
  PROVE  Granted(c)'
<1>1. TypeOK /\ status[c] \notin {"none", "pending"}
  BY DEF ServingInv, Granted
<1>2. CASE events'[c] = events[c] /\ status'[c] = status[c]
  BY <1>2, NoEvent
<1>3. ASSUME NEW from \in Statuses, NEW to \in Statuses \ {"none", "pending"},
             events'[c] = Append(events[c], <<from, to>>), status'[c] = to
      PROVE  Granted(c)'
  BY <1>1, <1>3, LoggedEvent
<1>4. /\ {"pending", "approved"} \subseteq Statuses
      /\ {"approved", "rejected", "superseded"} \subseteq Statuses \ {"none", "pending"}
  BY DEF Statuses
<1>5. CASE UNCHANGED tables
  BY <1>2, <1>5 DEF tables
<1>6. ASSUME NEW t \in Threads, InsertChange(t) PROVE Granted(c)'
  BY <1>1, <1>2, <1>6 DEF InsertChange, Unknown, TypeOK
<1>7. ASSUME NEW t \in Threads, ApproveFact(t) PROVE Granted(c)'
  <2>1. CASE c = target[t]
    <3>1. events'[c] = Append(events[c], <<"pending", "approved">>) /\ status'[c] = "approved"
      BY <1>7, <2>1 DEF ApproveFact
    <3> QED BY <1>3, <1>4, <3>1
  <2>2. CASE c # target[t] /\ c \in Replaced(t)
    <3>1. /\ events'[c] = Append(events[c], <<"approved", "superseded">>)
          /\ status'[c] = "superseded"
      BY <1>7, <2>2 DEF ApproveFact
    <3> QED BY <1>3, <1>4, <3>1
  <2>3. CASE c # target[t] /\ c \notin Replaced(t)
    BY <1>2, <1>7, <2>3 DEF ApproveFact
  <2> QED BY <2>1, <2>2, <2>3
<1>8. ASSUME NEW t \in Threads, RejectChange(t) PROVE Granted(c)'
  <2>1. CASE c = target[t]
    <3>1. events'[c] = Append(events[c], <<"pending", "rejected">>) /\ status'[c] = "rejected"
      BY <1>1, <1>8, <2>1 DEF RejectChange, TypeOK
    <3> QED BY <1>3, <1>4, <3>1
  <2> QED BY <1>1, <1>2, <1>8, <2>1 DEF RejectChange, TypeOK
<1>9. ASSUME NEW t \in Threads, SupersedeFact(t) PROVE Granted(c)'
  <2>1. CASE c = target[t]
    <3>1. /\ events'[c] = Append(events[c], <<"approved", "superseded">>)
          /\ status'[c] = "superseded"
      BY <1>1, <1>9, <2>1 DEF SupersedeFact, TypeOK
    <3> QED BY <1>3, <1>4, <3>1
  <2> QED BY <1>1, <1>2, <1>9, <2>1 DEF SupersedeFact, TypeOK
<1> QED BY <1>5, <1>6, <1>7, <1>8, <1>9
        DEF Next, Serve, BeginPropose, Begin, CheckCurrent, Advance, BeginApprove, ReadSource,
            ReadPrevious, BeginReject, BeginSupersede, Abandon, vars

(* So does one in a rebuild, which only opens changes that had no trail.    *)
LEMMA RebuildKeepsGranted ==
  ASSUME ServingInv, RebuildTables, NEW c \in Changes
  PROVE  /\ Trailed(c)'
         /\ Granted(c) => Granted(c)'
<1>1. GrantInv /\ TailInv
  BY DEF ServingInv
<1>2. CASE status'[c] = status[c] /\ events'[c] = events[c]
  BY <1>1, <1>2, NoEvent DEF TailInv
<1>3. CASE /\ status[c] = "none" /\ events[c] = <<>> /\ fact[c] = "none"
           /\ status'[c] = "pending" /\ events'[c] = <<<<"none", "pending">>>>
  BY <1>3 DEF Trailed, Granted
<1> QED BY <1>1, <1>2, <1>3, RebuildOpens

(* What an ingestion holds stays approved while it reads no more facts.     *)
LEMMA HeldStays ==
  ASSUME OverlapInv, \A c \in Changes : Granted(c) => Granted(c)',
         \A f : f \in snapshot' \cup retained'.facts
                => f \in snapshot \cup retained.facts \/ fact[f] # "none"
  PROVE  HeldInv'
BY DEF OverlapInv, HeldInv, ServingInv, GrantInv

(* The facts an ingestion reads hold one of every core field.               *)
LEMMA ReadFactsCovers ==
  ASSUME OverlapInv, ReadFacts
  PROVE  SnapshotInv'
<1>1. snapshot' \in OneOfEach(Approved)
  BY DEF ReadFacts
<1>2. \A f, g \in snapshot' : f.key = g.key => f = g
  BY <1>1 DEF OneOfEach
<1>3. ASSUME NEW k \in Protected PROVE \E f \in snapshot' : f.key = k
  <2>1. PICK f \in Facts : f.key = k /\ fact[f] = "approved"
    BY DEF OverlapInv, ServingInv, CoreFieldsStayCurrent
  <2>2. f \in Approved
    BY <2>1 DEF Approved
  <2> QED BY <1>1, <2>1, <2>2 DEF OneOfEach
<1> QED BY <1>2, <1>3 DEF SnapshotInv

(* A rebuild leaves every core field with a fact, the evidence with the     *)
(* facts, and the requests with changes that have a row.                    *)
LEMMA RebuildServes ==
  ASSUME OverlapInv, RebuildTables
  PROVE  ServingInv'
<1>1. TypeOK /\ TypeOK' /\ snapshot \in SUBSET Facts
  BY RebuildTypes DEF OverlapInv, GovernedTypeOK
<1>2. RequestInv'
  <2>1. \A c \in Changes : status[c] # "none" => status'[c] # "none"
    BY <1>1 DEF RebuildTables, TypeOK
  <2> QED BY <1>1, <2>1 DEF OverlapInv, ServingInv, RequestInv, RebuildTables, requests,
                            TypeOK, Deciding
<1>3. CoreFieldsStayCurrent'
  <2> SUFFICES ASSUME NEW k \in Protected
               PROVE  \E f \in Facts : f.key = k /\ fact'[f] = "approved"
    BY DEF CoreFieldsStayCurrent
  <2>1. PICK f \in snapshot : f.key = k
    BY DEF OverlapInv, SnapshotInv, Replacing, RebuildTables, Goto
  <2> QED BY <1>1, <2>1 DEF RebuildTables, Effective
<1>4. EvidenceIsCurrent'
  BY DEF RebuildTables, ChunksOf, EvidenceIsCurrent
<1>5. ASSUME NEW c \in Changes PROVE Trailed(c)' /\ (fact'[c] # "none" => Granted(c)')
  <2>1. fact'[c] # "none" => c \in snapshot \cup retained.facts
    BY DEF RebuildTables, Effective, Facts
  <2> QED BY <2>1, RebuildKeepsGranted DEF OverlapInv, HeldInv
<1> QED BY <1>1, <1>2, <1>3, <1>4, <1>5 DEF ServingInv, GrantInv, TailInv

(* Every step keeps OverlapInv, whatever else is under way.                 *)
LEMMA OverlapInvNext == OverlapInv /\ [GovernedNext]_allVars => OverlapInv'
<1> SUFFICES ASSUME OverlapInv, [GovernedNext]_allVars PROVE OverlapInv'
  OBVIOUS
<1>1. GovernedTypeOK'
  BY GovernedTypeNext DEF OverlapInv
<1> SUFFICES ServingInv' /\ SnapshotInv' /\ HeldInv'
  BY <1>1 DEF OverlapInv
<1>2. ASSUME UNCHANGED vars
      PROVE  ServingInv' /\ \A c \in Changes : Granted(c) => Granted(c)'
  BY <1>2, ServingNext, GrantedStays DEF OverlapInv
<1>3. ASSUME UNCHANGED run, \A c \in Changes : Granted(c) => Granted(c)'
      PROVE  SnapshotInv' /\ HeldInv'
  BY <1>3, HeldStays DEF OverlapInv, SnapshotInv, Replacing, run
<1>4. CASE UNCHANGED allVars
  BY <1>2, <1>3, <1>4 DEF allVars
<1>5. CASE Review
  <2>1. ServingInv' /\ \A c \in Changes : Granted(c) => Granted(c)'
    BY <1>5, ServingNext, GrantedStays DEF Review, OverlapInv
  <2> QED BY <1>3, <1>5, <2>1 DEF Review
<1>6. ASSUME NEW d \in Configured, NEW h \in Hashes, EditSource(d, h)
      PROVE  ServingInv' /\ SnapshotInv' /\ HeldInv'
  BY <1>2, <1>3, <1>6 DEF EditSource
<1>7. ASSUME NEW d \in Managed, NEW h \in Hashes, RegisterManagedSource(d, h)
      PROVE  ServingInv' /\ SnapshotInv' /\ HeldInv'
  <2>1. TypeOK' /\ UNCHANGED <<tables, requests>>
    BY <1>1, <1>7 DEF RegisterManagedSource, GovernedTypeOK
  <2>2. /\ UNCHANGED <<status, events, fact, chunks, pc, target, prior>>
        /\ \A c \in Changes : Granted(c) => Granted(c)'
    BY <2>1, NoEvent DEF tables, requests
  <2>3. ServingInv'
    BY <2>1, <2>2, NoEvent DEF OverlapInv, ServingInv, RequestInv, GrantInv, TailInv,
                               CoreFieldsStayCurrent, EvidenceIsCurrent
  <2> QED BY <1>3, <1>7, <2>2, <2>3 DEF RegisterManagedSource
<1>8. CASE LoadSources
  BY <1>2, <1>8, HeldStays DEF LoadSources, Goto, SnapshotInv, Replacing
<1>9. CASE ReadFacts
  <2>1. \A f \in snapshot' : fact[f] # "none"
    BY <1>9 DEF ReadFacts, OneOfEach, Approved
  <2> QED BY <1>2, <1>9, <2>1, ReadFactsCovers, HeldStays DEF ReadFacts
<1>10. CASE VerifyLoaded
  BY <1>2, <1>10, HeldStays DEF VerifyLoaded, Goto, OverlapInv, SnapshotInv, Replacing
<1>11. CASE RebuildIndex
  BY <1>2, <1>11, HeldStays DEF RebuildIndex, Goto, OverlapInv, SnapshotInv, Replacing
<1>12. CASE ReadRetained
  <2>1. SnapshotInv'
    BY <1>12 DEF ReadRetained, Goto, OverlapInv, SnapshotInv, Replacing
  <2>2. \A f \in retained'.facts : fact[f] # "none"
    BY <1>12 DEF ReadRetained, History
  <2> QED BY <1>2, <1>12, <2>1, <2>2, HeldStays DEF ReadRetained
<1>13. CASE RebuildTables
  <2>1. ServingInv' /\ \A c \in Changes : Granted(c) => Granted(c)'
    BY <1>13, RebuildServes, RebuildKeepsGranted DEF OverlapInv
  <2> QED BY <1>13, <2>1, HeldStays DEF RebuildTables, Goto, SnapshotInv, Replacing
<1>14. CASE EndIngestion
  BY <1>2, <1>14, HeldStays DEF EndIngestion, Nothing, SnapshotInv, Replacing
<1> QED BY <1>4, <1>5, <1>6, <1>7, <1>8, <1>9, <1>10, <1>11, <1>12, <1>13, <1>14
        DEF GovernedNext, Ingest

(* OverlapInv holds at first.                                               *)
LEMMA OverlapInvInit == GovernedInit => OverlapInv
<1> SUFFICES ASSUME GovernedInit PROVE OverlapInv
  OBVIOUS
<1>1. GovernedTypeOK /\ ServingInv
  BY GovernedTypeInit, ServingInit DEF GovernedInit
<1>2. SnapshotInv
  BY DEF GovernedInit, SnapshotInv, Replacing
<1>3. HeldInv
  BY DEF GovernedInit, HeldInv, Nothing
<1> QED BY <1>1, <1>2, <1>3 DEF OverlapInv

(* OverlapInv holds in every execution.                                     *)
LEMMA OverlapInvariant == GovernedSpec => []OverlapInv
BY OverlapInvInit, OverlapInvNext, PTL DEF GovernedSpec

(* A core field keeps a fact in force although a reindexing may undo the    *)
(* approvals made while it runs (KnowledgeDatabase.rebuild).                *)
THEOREM OverlapCoreFields == GovernedSpec => []CoreFieldsStayCurrent
<1>1. OverlapInv => CoreFieldsStayCurrent
  BY DEF OverlapInv, ServingInv
<1> QED BY <1>1, OverlapInvariant, PTL

(* No fact of a change is there that no reviewer approved, and its change   *)
(* never waits for review: whatever a reindexing brings back or forgets,    *)
(* it decides nothing itself.                                               *)
THEOREM OverlapApproved == GovernedSpec => []FactsWereApproved
<1>1. OverlapInv => FactsWereApproved
  BY DEF OverlapInv, ServingInv, GrantInv, Granted, FactsWereApproved
<1> QED BY <1>1, OverlapInvariant, PTL

(* The audit trail of a change ends in its status, also of the changes that *)
(* a reindexing puts to review (reconcile_approved_facts).                  *)
THEOREM OverlapAudit == GovernedSpec => []AuditTailIsStatus
<1>1. OverlapInv => AuditTailIsStatus
  BY DEF OverlapInv, ServingInv, TailInv, Trailed, AuditTailIsStatus
<1> QED BY <1>1, OverlapInvariant, PTL

(* At every commit, of a review or of a reindexing, the searchable evidence *)
(* is that of the facts in force.                                           *)
THEOREM OverlapEvidence == GovernedSpec => []EvidenceIsCurrent
<1>1. OverlapInv => EvidenceIsCurrent
  BY DEF OverlapInv, ServingInv
<1> QED BY <1>1, OverlapInvariant, PTL

-----------------------------------------------------------------------------
(***************************************************************************)
(* What a reindexing keeps when it is left alone.  Calm says that what it  *)
(* has read of the tables is still so; Sourced, that the document of each  *)
(* fact stays indexed, without which the rebuild would drop the fact;      *)
(* FreshReads, that a request that has found its source fresh still has.   *)
(***************************************************************************)
Calm ==
  /\ Replacing => snapshot = Approved /\ \A t \in Threads : pc[t] = "idle"
  /\ stage = "rebuild_tables" => retained = [facts |-> History, sources |-> ManagedSources]

Sourced == \A c \in Changes : fact[c] # "none" => Governed(DocumentOf[c.sha])

FreshReads ==
  \A t \in Threads : pc[t] \in {"read_previous", "approve"} => FreshSource(target[t])

QuietInv == IngestInv /\ FieldInv /\ Calm /\ Sourced /\ FreshReads

(* Every source that was indexed stays so in a rebuild, the managed ones at *)
(* the version they had.                                                    *)
LEMMA RebuiltSources ==
  ASSUME QuietInv, RebuildTables, NEW d \in Documents, Governed(d)
  PROVE  /\ RebuiltSource(d) # NoHash
         /\ sha'[d] = RebuiltSource(d)
         /\ d \in Managed => RebuiltSource(d) = sha[d]
<1>1. stage = "rebuild_tables" /\ sha'[d] = RebuiltSource(d)
  BY DEF RebuildTables, Goto
<1>2. sha[d] \in Hashes
  BY DEF QuietInv, FieldInv, RaceInv, ServingInv, TypeOK, Governed
<1>3. CASE d \in Configured
  BY <1>1, <1>3, ConstantsAssumption DEF QuietInv, IngestInv, LoadedInv, RebuiltSource, Configured
<1>4. CASE d \in Managed
  <2>1. \A h \in Hashes : <<d, h>> \in retained.sources <=> h = sha[d]
    BY <1>1, <1>2, <1>4 DEF QuietInv, Calm, ManagedSources, Governed
  <2>2. (CHOOSE h \in Hashes : <<d, h>> \in retained.sources) = sha[d]
    BY <1>2, <2>1
  <2>3. RebuiltSource(d) = sha[d]
    BY <1>2, <1>4, <2>1, <2>2 DEF RebuiltSource, Configured
  <2> QED BY <1>1, <1>2, <2>3, ConstantsAssumption
<1> QED BY <1>3, <1>4 DEF Configured

(* When the transaction is not refused, the catalog lists every product:    *)
(* each has a core field, whose fact in force was to be written again.      *)
LEMMA RebuildListsAll ==
  ASSUME QuietInv, RebuildTables, NEW k \in Keys
  PROVE  k \in Lists[loaded[Catalog]]
<1> DEFINE h == loaded[Catalog]
<1>1. stage = "rebuild_tables" /\ h \in Hashes
  BY SourcesAssumption DEF RebuildTables, Goto, QuietInv, IngestInv, LoadedInv
<1>2. PICK n \in Protected : k \in Lists[h] <=> n \in Lists[h]
  BY <1>1, SourcesAssumption
<1>3. PICK f \in Facts : f.key = n /\ fact[f] = "approved"
  BY DEF QuietInv, FieldInv, RaceInv, ServingInv, CoreFieldsStayCurrent
<1>4. f \in snapshot
  BY <1>1, <1>3 DEF QuietInv, Calm, Replacing, Approved
<1>5. Referable(f)
  BY <1>4 DEF RebuildTables, Effective
<1> QED BY <1>2, <1>3, <1>5 DEF Referable

(* An undisturbed rebuild leaves every fact as it was.                      *)
LEMMA RebuildKeepsFacts ==
  ASSUME QuietInv, RebuildTables
  PROVE  fact' = fact
<1>1. stage = "rebuild_tables" /\ GovernedTypeOK /\ TypeOK
  BY DEF RebuildTables, Goto, QuietInv, IngestInv, GovernedTypeOK
<1>2. snapshot = Approved /\ retained.facts = History
  BY <1>1 DEF QuietInv, Calm, Replacing
<1>3. \A f \in Facts : fact[f] # "none" => Referable(f)
  <2>0. \A f \in Facts : f.key \in Keys
    BY ConstantsAssumption DEF Facts, SeedFacts, Changes
  <2> SUFFICES ASSUME NEW f \in Facts, fact[f] # "none", f.sha # NoHash
               PROVE  RebuiltSource(DocumentOf[f.sha]) # NoHash
    BY <2>0, RebuildListsAll DEF Referable
  <2>1. f \in Changes
    BY DEF Facts, SeedFacts
  <2>2. DocumentOf[f.sha] \in Documents
    BY <2>1, ConstantsAssumption DEF Changes
  <2>3. Governed(DocumentOf[f.sha])
    BY <2>1 DEF QuietInv, Sourced
  <2> QED BY <2>2, <2>3, RebuiltSources
<1>4. ASSUME NEW f \in Facts PROVE fact'[f] = fact[f]
  <2>1. fact'[f] = IF f \in snapshot THEN "approved"
                   ELSE IF f \in {g \in retained.facts \ snapshot : Referable(g)}
                   THEN "superseded" ELSE "none"
    BY DEF RebuildTables, Effective
  <2>2. fact[f] \in {"none", "approved", "superseded"}
    BY <1>1 DEF TypeOK
  <2> QED BY <1>2, <1>3, <2>1, <2>2 DEF Approved, History
<1>5. fact' \in [Facts -> {"none", "approved", "superseded"}]
  BY <1>1, RebuildTypes DEF TypeOK
<1> QED BY <1>1, <1>4, <1>5 DEF TypeOK

(* It writes the product record that was there.                             *)
LEMMA RebuildKeepsMaster ==
  ASSUME QuietInv, RebuildTables
  PROVE  master' = master
<1>1. stage = "rebuild_tables" /\ TypeOK /\ snapshot = Approved
  BY DEF RebuildTables, Goto, QuietInv, IngestInv, GovernedTypeOK, Calm, Replacing
<1>2. ASSUME NEW k \in Keys PROVE master'[k] = master[k]
  <2>1. \A f : f \in snapshot /\ f.key = k <=> f \in Current(k)
    BY <1>1 DEF Approved, Current
  <2>2. CASE Current(k) = {}
    <3>1. master[k] = NoValue
      BY <2>2 DEF QuietInv, FieldInv, MasterShowsCurrent
    <3> QED BY <2>1, <2>2, <3>1 DEF RebuildTables, Effective
  <2>3. CASE Current(k) # {}
    <3> DEFINE g == CHOOSE f \in snapshot : f.key = k
    <3>1. g \in snapshot /\ g.key = k
      BY <2>1, <2>3
    <3>2. master[k] = g.value
      BY <2>1, <2>3, <3>1 DEF QuietInv, FieldInv, MasterShowsCurrent
    <3>3. master'[k] = g.value
      BY <2>1, <2>3 DEF RebuildTables, Effective
    <3> QED BY <3>2, <3>3
  <2> QED BY <2>2, <2>3
<1>3. DOMAIN master' = Keys /\ master' = [k \in Keys |-> master'[k]]
  BY DEF RebuildTables
<1> QED BY <1>1, <1>2, <1>3 DEF TypeOK

(* A rebuild keeps what the review relies on.                               *)
LEMMA RebuildKeepsField ==
  ASSUME QuietInv, RebuildTables, OneRequestPerField'
  PROVE  FieldInv'
<1>1. fact' = fact /\ master' = master /\ pc' = pc /\ TypeOK'
  BY RebuildKeepsFacts, RebuildKeepsMaster, RebuildTypes
     DEF RebuildTables, requests, QuietInv, IngestInv
<1>2. /\ FieldInv /\ \A t \in Threads : pc'[t] = "idle"
      /\ GrantInv /\ TailInv
  BY <1>1 DEF QuietInv, FieldInv, RaceInv, ServingInv, Calm, Replacing, RebuildTables, Goto
<1>3. RequestInv' /\ ReadsStillHold'
  BY <1>2 DEF RequestInv, Deciding, ReadsStillHold
<1>4. GrantInv' /\ TailInv' /\ OnceInv'
  <2> SUFFICES ASSUME NEW c \in Changes
               PROVE  /\ fact'[c] # "none" => Granted(c)'
                      /\ Trailed(c)'
                      /\ fact'[c] = "none" => ApprovalsOf(c)' = {}
                      /\ \A i, j \in ApprovalsOf(c)' : i = j
    BY DEF GrantInv, TailInv, OnceInv
  <2>1. CASE status'[c] = status[c] /\ events'[c] = events[c]
    BY <1>1, <1>2, <2>1 DEF FieldInv, RaceInv, ServingInv, GrantInv, TailInv, OnceInv, Granted, Trailed,
                            ApprovalsOf
  <2>2. CASE /\ status[c] = "none" /\ events[c] = <<>> /\ fact[c] = "none"
             /\ status'[c] = "pending" /\ events'[c] = <<<<"none", "pending">>>>
    <3>1. ApprovalsOf(c)' = {}
      BY <2>2 DEF ApprovalsOf
    <3> QED BY <1>1, <2>2, <3>1 DEF Trailed
  <2> QED BY <1>2, <2>1, <2>2, RebuildOpens
<1>5. CoreFieldsStayCurrent' /\ EvidenceIsCurrent'
  BY <1>1, <1>2 DEF FieldInv, RaceInv, ServingInv, CoreFieldsStayCurrent, EvidenceIsCurrent, RebuildTables,
                    ChunksOf
<1>6. OneCurrentFact' /\ MasterShowsCurrent'
  BY <1>1, <1>2 DEF FieldInv, OneCurrentFact, MasterShowsCurrent, Current
<1>7. DecisionsAreInForce'
  BY <1>1, <1>2, RebuildOpens DEF FieldInv, DecisionsAreInForce
<1>8. AuditTrailIsAWalk'
  <2> SUFFICES ASSUME NEW c \in Changes, NEW i \in DOMAIN events'[c]
               PROVE  events'[c][i][1] = IF i = 1 THEN "none" ELSE events'[c][i - 1][2]
    BY DEF AuditTrailIsAWalk
  <2>1. CASE events'[c] = events[c]
    BY <1>2, <2>1 DEF FieldInv, AuditTrailIsAWalk
  <2>2. CASE events'[c] = <<<<"none", "pending">>>>
    BY <2>2
  <2> QED BY <1>2, <2>1, <2>2, RebuildOpens
<1> QED BY <1>1, <1>3, <1>4, <1>5, <1>6, <1>7, <1>8 DEF FieldInv, RaceInv, ServingInv

(* A step of a request keeps Sourced and FreshReads: an approval needs its  *)
(* document, and no request changes the version of a document.              *)
LEMMA ReviewKeeps ==
  ASSUME QuietInv, Next
  PROVE  Sourced' /\ FreshReads'
<1>1. PICK t \in Threads : Serve(t)
  BY DEF Next
<1>2. TypeOK /\ Sourced /\ FreshReads /\ CoreFieldsStayCurrent
  BY DEF QuietInv, FieldInv, RaceInv, ServingInv
<1>3. ASSUME UNCHANGED <<fact, sha>> PROVE Sourced'
  BY <1>2, <1>3 DEF Sourced, Governed
<1>4. ASSUME Return(t), UNCHANGED sha PROVE FreshReads'
  BY <1>2, <1>4 DEF FreshReads, FreshSource, Return, TypeOK
<1>5. ASSUME NEW c, NEW first \in {"check_current", "read_source", "reject", "supersede"},
             Begin(t, c, first)
      PROVE  Sourced' /\ FreshReads'
  <2>1. FreshReads'
    BY <1>2, <1>5 DEF FreshReads, FreshSource, Begin, TypeOK
  <2> QED BY <1>3, <1>5, <2>1 DEF Begin, tables
<1>6. ASSUME NEW p \in Proposals, BeginPropose(t, p) PROVE Sourced' /\ FreshReads'
  BY <1>5, <1>6 DEF BeginPropose
<1>7. ASSUME NEW c \in Changes, BeginApprove(t, c) \/ BeginReject(t, c) \/ BeginSupersede(t, c)
      PROVE  Sourced' /\ FreshReads'
  BY <1>5, <1>7 DEF BeginApprove, BeginReject, BeginSupersede
<1>8. CASE CheckCurrent(t)
  <2>1. FreshReads'
    BY <1>2, <1>8 DEF FreshReads, FreshSource, CheckCurrent, Advance, TypeOK
  <2> QED BY <1>3, <1>8, <2>1 DEF CheckCurrent, Advance, tables
<1>9. CASE ReadSource(t)
  <2>1. FreshReads'
    BY <1>2, <1>9 DEF FreshReads, FreshSource, ReadSource, Advance, TypeOK
  <2> QED BY <1>3, <1>9, <2>1 DEF ReadSource, Advance, tables
<1>10. CASE ReadPrevious(t)
  <2>1. FreshReads'
    BY <1>2, <1>10 DEF FreshReads, FreshSource, ReadPrevious, Advance, TypeOK
  <2> QED BY <1>3, <1>10, <2>1 DEF ReadPrevious, Advance, tables
<1>11. CASE ApproveFact(t)
  <2>1. Sourced'
    BY <1>2, <1>11 DEF Sourced, Governed, ApproveFact, TypeOK, Facts
  <2> QED BY <1>4, <1>11, <2>1 DEF ApproveFact
<1>12. CASE SupersedeFact(t)
  <2>1. Sourced'
    BY <1>2, <1>12 DEF Sourced, Governed, SupersedeFact, TypeOK, Facts
  <2> QED BY <1>4, <1>12, <2>1 DEF SupersedeFact
<1>13. CASE InsertChange(t) \/ RejectChange(t) \/ Abandon(t)
  BY <1>3, <1>4, <1>13 DEF InsertChange, RejectChange, Abandon, tables
<1> QED BY <1>1, <1>6, <1>7, <1>8, <1>9, <1>10, <1>11, <1>12, <1>13 DEF Serve

(* While an ingestion replaces the tables, no request steps.                *)
LEMMA ReviewRests ==
  ASSUME QuietInv, Next, stage' = stage,
         Replacing' => \A t \in Threads : pc'[t] = "idle"
  PROVE  ~Replacing
<1> SUFFICES ASSUME Replacing PROVE FALSE
  OBVIOUS
<1>1. PICK t \in Threads : Serve(t)
  BY DEF Next
<1>2. pc[t] = "idle" /\ pc'[t] = "idle" /\ pc \in [Threads -> Stages]
  BY DEF QuietInv, Calm, Replacing, FieldInv, RaceInv, ServingInv, TypeOK
<1> QED BY <1>1, <1>2 DEF Serve, BeginPropose, CheckCurrent, InsertChange, BeginApprove,
          ReadSource, ReadPrevious, ApproveFact, BeginReject, RejectChange, BeginSupersede,
          SupersedeFact, Abandon, Begin, Advance

(* With one current fact for each field, the snapshot is all of them.       *)
LEMMA SnapshotIsAll ==
  ASSUME OneCurrentFact, NEW some \in OneOfEach(Approved)
  PROVE  some = Approved
BY DEF OneCurrentFact, OneOfEach, Approved

(* A step that leaves the review alone, or only indexes one more document,  *)
(* keeps the part of QuietInv that speaks of it.                            *)
LEMMA ReviewUntouched ==
  ASSUME QuietInv, UNCHANGED <<tables, requests>>, TypeOK',
         \A d \in Documents : Governed(d) => sha'[d] = sha[d]
  PROVE  FieldInv' /\ Sourced' /\ FreshReads'
<1>1. /\ status' = status /\ events' = events /\ fact' = fact /\ master' = master
      /\ chunks' = chunks /\ pc' = pc /\ target' = target /\ prior' = prior
  BY DEF tables, requests
<1>2. FieldInv /\ Sourced /\ FreshReads /\ TypeOK
  BY DEF QuietInv, FieldInv, RaceInv, ServingInv
<1>3. FieldInv'
  BY <1>1, <1>2 DEF FieldInv, RaceInv, ServingInv, RequestInv, GrantInv, TailInv, OnceInv,
     Granted, Trailed, ApprovalsOf, CoreFieldsStayCurrent,
     EvidenceIsCurrent, OneRequestPerField, ReadsStillHold, Current, OneCurrentFact,
     DecisionsAreInForce, MasterShowsCurrent, AuditTrailIsAWalk
<1>4. Sourced'
  BY <1>1, <1>2, ConstantsAssumption DEF Sourced, Governed, Changes
<1>5. FreshReads'
  <2> SUFFICES ASSUME NEW t \in Threads, pc[t] \in {"read_previous", "approve"}
               PROVE  FreshSource(target[t])'
    BY <1>1 DEF FreshReads
  <2>1. target[t] \in Changes /\ FreshSource(target[t])
    BY <1>2 DEF FreshReads, TypeOK
  <2>2. DocumentOf[target[t].sha] \in Documents /\ target[t].sha # NoHash
    BY <2>1, ConstantsAssumption DEF Changes
  <2> QED BY <1>1, <2>1, <2>2 DEF FreshSource, Governed
<1> QED BY <1>3, <1>4, <1>5

(* Every step of a quiet execution keeps QuietInv.                          *)
LEMMA QuietInvNext == QuietInv /\ [QuietNext]_allVars => QuietInv'
<1> SUFFICES ASSUME QuietInv, [QuietNext]_allVars PROVE QuietInv'
  OBVIOUS
<1>1. IngestInv' /\ TypeOK'
  <2>1. IngestInv'
    BY IngestInvNext DEF QuietInv, QuietNext
  <2> QED BY <2>1 DEF IngestInv, GovernedTypeOK
<1> SUFFICES FieldInv' /\ Sourced' /\ FreshReads' /\ Calm'
  BY <1>1 DEF QuietInv
<1>2. ASSUME UNCHANGED vars PROVE FieldInv' /\ Sourced' /\ FreshReads'
  BY <1>1, <1>2, ReviewUntouched DEF vars
<1>3. CASE UNCHANGED allVars
  <2>1. Calm'
    BY <1>3 DEF QuietInv, Calm, Replacing, Approved, History, ManagedSources, allVars, vars,
                tables, requests, run
  <2> QED BY <1>2, <1>3, <2>1 DEF allVars
<1> SUFFICES ASSUME QuietNext PROVE FieldInv' /\ Sourced' /\ FreshReads' /\ Calm'
  BY <1>3
<1>4. /\ GovernedNext /\ OneRequestPerField'
      /\ Replacing' => \A t \in Threads : pc'[t] = "idle"
      /\ stage = "rebuild_tables" /\ stage' = stage => sha' = sha
  BY DEF QuietNext
<1>5. CASE Review
  <2>1. stage' = stage /\ ~Replacing
    BY <1>4, <1>5, ReviewRests DEF Review, run
  <2>2. Calm'
    BY <2>1 DEF Calm, Replacing
  <2>3. FieldInv'
    BY <1>4, <1>5, FieldNext DEF Review, QuietInv, NextOnePerField
  <2> QED BY <1>5, <2>2, <2>3, ReviewKeeps DEF Review
<1>6. ASSUME NEW d \in Configured, NEW h \in Hashes, EditSource(d, h)
      PROVE  FieldInv' /\ Sourced' /\ FreshReads' /\ Calm'
  <2>1. Calm'
    BY <1>6 DEF QuietInv, Calm, Replacing, Approved, History, ManagedSources, EditSource, vars,
                tables, requests, run
  <2> QED BY <1>2, <1>6, <2>1 DEF EditSource
<1>7. ASSUME NEW d \in Managed, NEW h \in Hashes, RegisterManagedSource(d, h)
      PROVE  FieldInv' /\ Sourced' /\ FreshReads' /\ Calm'
  <2>1. \A e \in Documents : Governed(e) => sha'[e] = sha[e]
    BY <1>7 DEF RegisterManagedSource, Governed, QuietInv, FieldInv, RaceInv, ServingInv, TypeOK
  <2>2. Calm'
    BY <1>4, <1>7 DEF QuietInv, Calm, Replacing, Approved, History, ManagedSources,
                      RegisterManagedSource, tables, requests, run
  <2> QED BY <1>1, <1>7, <2>1, <2>2, ReviewUntouched DEF RegisterManagedSource
<1>8. CASE LoadSources
  <2>1. Calm'
    BY <1>8 DEF LoadSources, Goto, Calm, Replacing
  <2> QED BY <1>2, <1>8, <2>1 DEF LoadSources
<1>9. CASE ReadFacts
  <2>1. snapshot' = Approved
    BY <1>9, SnapshotIsAll DEF ReadFacts, QuietInv, FieldInv
  <2>2. Calm'
    BY <1>4, <1>9, <2>1 DEF ReadFacts, Goto, Calm, Replacing, Approved, vars, tables
  <2> QED BY <1>2, <1>9, <2>2 DEF ReadFacts
<1>10. CASE VerifyLoaded \/ RebuildIndex
  <2>1. Calm'
    BY <1>10 DEF VerifyLoaded, RebuildIndex, Goto, QuietInv, Calm, Replacing, Approved, vars,
                 tables, requests
  <2> QED BY <1>2, <1>10, <2>1 DEF VerifyLoaded, RebuildIndex
<1>11. CASE ReadRetained
  <2>1. Calm'
    BY <1>11 DEF ReadRetained, Goto, QuietInv, Calm, Replacing, Approved, History,
                 ManagedSources, vars, tables, requests
  <2> QED BY <1>2, <1>11, <2>1 DEF ReadRetained
<1>12. CASE RebuildTables
  <2>1. FieldInv' /\ fact' = fact /\ Calm'
    BY <1>4, <1>12, RebuildKeepsField, RebuildKeepsFacts
       DEF RebuildTables, Goto, Calm, Replacing
  <2>2. Sourced'
    <3> SUFFICES ASSUME NEW c \in Changes, fact[c] # "none"
                 PROVE  Governed(DocumentOf[c.sha])'
      BY <2>1 DEF Sourced
    <3>1. Governed(DocumentOf[c.sha]) /\ DocumentOf[c.sha] \in Documents
      BY ConstantsAssumption DEF QuietInv, Sourced, Changes
    <3> QED BY <1>12, <3>1, RebuiltSources DEF Governed
  <2>3. FreshReads'
    BY <1>12 DEF RebuildTables, Goto, requests, QuietInv, Calm, Replacing, FreshReads
  <2> QED BY <2>1, <2>2, <2>3
<1>13. CASE EndIngestion
  <2>1. Calm'
    BY <1>13 DEF EndIngestion, Calm, Replacing
  <2> QED BY <1>2, <1>13, <2>1 DEF EndIngestion
<1> QED BY <1>4, <1>5, <1>6, <1>7, <1>8, <1>9, <1>10, <1>11, <1>12, <1>13
        DEF GovernedNext, Ingest

(* QuietInv holds in every quiet execution.                                 *)
LEMMA QuietInvariant == QuietSpec => []QuietInv
<1>1. GovernedInit => QuietInv
  <2> SUFFICES ASSUME GovernedInit PROVE QuietInv
    OBVIOUS
  <2>1. Init /\ GovernedTypeOK /\ stage = "idle"
    BY GovernedTypeInit DEF GovernedInit
  <2>2. \A c \in Changes : fact[c] = "none"
    BY <2>1, ConstantsAssumption DEF Init, Changes, Facts, SeedFact
  <2>3. Sourced /\ FreshReads
    BY <2>1, <2>2 DEF Init, Sourced, FreshReads
  <2> QED BY <2>1, <2>3, FieldInit DEF QuietInv, IngestInv, PointsInv, LoadedInv, Calm, Replacing
<1> QED BY <1>1, QuietInvNext, PTL DEF QuietSpec

(* Left alone, a reindexing leaves what is in force and the product record  *)
(* as the reviewers left them (KnowledgeDatabase.rebuild).                  *)
THEOREM ReindexDecidesNothing == QuietSpec => ReindexKeepsAuthority
<1> DEFINE Kept == stage = "rebuild_tables" => Approved' = Approved /\ master' = master
<1>1. QuietInv /\ [QuietNext]_allVars => [Kept]_allVars
  <2> SUFFICES ASSUME QuietInv, QuietNext, stage = "rebuild_tables"
               PROVE  Approved' = Approved /\ master' = master
    OBVIOUS
  <2>1. CASE RebuildTables
    BY <2>1, RebuildKeepsFacts, RebuildKeepsMaster DEF Approved
  <2>2. CASE Review
    BY <2>2, ReviewRests DEF QuietNext, Review, run, Replacing
  <2>3. CASE UNCHANGED tables
    BY <2>3 DEF tables, Approved
  <2> QED BY <2>1, <2>2, <2>3 DEF QuietNext, GovernedNext, Ingest, EditSource, vars,
             RegisterManagedSource, LoadSources, ReadFacts, VerifyLoaded, RebuildIndex,
             ReadRetained, EndIngestion
<1>2. [][Kept]_allVars <=> ReindexKeepsAuthority
  BY DEF ReindexKeepsAuthority
<1>3. QuietSpec => [][Kept]_allVars
  BY <1>1, QuietInvariant, PTL DEF QuietSpec
<1> QED BY <1>2, <1>3

(* Neither a review nor a quiet reindexing brings a superseded fact back or *)
(* forgets it (approve_fact_change, KnowledgeDatabase.rebuild).             *)
THEOREM HistoryKept == QuietSpec => HistoryIsKept
<1> DEFINE Kept == \A f \in Facts : fact[f] = "superseded" => fact'[f] = "superseded"
<1>1. QuietInv /\ [QuietNext]_allVars => [Kept]_allVars
  <2> SUFFICES ASSUME QuietInv, QuietNext PROVE Kept
    OBVIOUS
  <2>1. CASE RebuildTables
    BY <2>1, RebuildKeepsFacts
  <2>2. CASE Review
    <3>1. PICK t \in Threads : Serve(t)
      BY <2>2 DEF Review, Next
    <3>2. CASE ApproveFact(t)
      BY <3>2 DEF ApproveFact, FreshFactId
    <3>3. CASE SupersedeFact(t)
      BY <3>3 DEF SupersedeFact, QuietInv, FieldInv, RaceInv, ServingInv, TypeOK
    <3>4. CASE fact' = fact
      BY <3>4
    <3> QED BY <3>1, <3>2, <3>3, <3>4 DEF Serve, BeginPropose, CheckCurrent, InsertChange,
               BeginApprove, ReadSource, ReadPrevious, BeginReject, RejectChange,
               BeginSupersede, Abandon, Begin, Advance, tables
  <2>3. CASE UNCHANGED tables
    BY <2>3 DEF tables
  <2> QED BY <2>1, <2>2, <2>3 DEF QuietNext, GovernedNext, Ingest, EditSource, vars,
             RegisterManagedSource, LoadSources, ReadFacts, VerifyLoaded, RebuildIndex,
             ReadRetained, EndIngestion
<1>2. [][Kept]_allVars <=> HistoryIsKept
  BY DEF HistoryIsKept
<1>3. QuietSpec => [][Kept]_allVars
  BY <1>1, QuietInvariant, PTL DEF QuietSpec
<1> QED BY <1>2, <1>3

(* A registered upload stays a governed source at the version registered    *)
(* (register_managed_source, the retained rows of rebuild).                 *)
THEOREM ManagedStay == QuietSpec => ManagedSourcesStay
<1> DEFINE Stay == \A d \in Managed : sha[d] # NoHash => sha'[d] = sha[d]
<1>1. QuietInv /\ [QuietNext]_allVars => [Stay]_allVars
  <2> SUFFICES ASSUME QuietInv, QuietNext PROVE Stay
    OBVIOUS
  <2>1. CASE RebuildTables
    BY <2>1, RebuiltSources, SourcesAssumption DEF Governed
  <2>2. ASSUME NEW d \in Managed, NEW h \in Hashes, RegisterManagedSource(d, h) PROVE Stay
    BY <2>2 DEF RegisterManagedSource, QuietInv, FieldInv, RaceInv, ServingInv, TypeOK
  <2>3. CASE sha' = sha
    BY <2>3
  <2>4. ASSUME Review PROVE sha' = sha
    BY <2>4 DEF Review, Next, Serve, BeginPropose, CheckCurrent, InsertChange, BeginApprove,
          ReadSource, ReadPrevious, ApproveFact, BeginReject, RejectChange, BeginSupersede,
          SupersedeFact, Abandon, Begin, Advance
  <2> QED BY <2>1, <2>2, <2>3, <2>4 DEF QuietNext, GovernedNext, Ingest, EditSource, vars,
             LoadSources, ReadFacts, VerifyLoaded, RebuildIndex, ReadRetained, EndIngestion
<1>2. [][Stay]_allVars <=> ManagedSourcesStay
  BY DEF ManagedSourcesStay
<1>3. QuietSpec => [][Stay]_allVars
  BY <1>1, QuietInvariant, PTL DEF QuietSpec
<1> QED BY <1>2, <1>3

(* A fact comes into force from the version of its source that is indexed   *)
(* at that moment, and from no historical source (approve_fact_change).     *)
THEOREM ApprovalsCite == QuietSpec => ApprovalsCiteIndexedVersion
<1> DEFINE Cites == \A c \in Changes : fact[c] # "approved" /\ fact'[c] = "approved" =>
                      sha[DocumentOf[c.sha]] = c.sha /\ DocumentOf[c.sha] \notin Historical
<1>1. QuietInv /\ [QuietNext]_allVars => [Cites]_allVars
  <2> SUFFICES ASSUME QuietInv, QuietNext PROVE Cites
    OBVIOUS
  <2>1. CASE RebuildTables
    BY <2>1, RebuildKeepsFacts
  <2>2. CASE Review
    <3>1. PICK t \in Threads : Serve(t)
      BY <2>2 DEF Review, Next
    <3>2. CASE ApproveFact(t)
      <4>1. FreshSource(target[t])
        BY <3>2 DEF ApproveFact, QuietInv, FreshReads
      <4> QED BY <3>2, <4>1 DEF ApproveFact, FreshSource, Facts
    <3>3. CASE SupersedeFact(t)
      BY <3>3 DEF SupersedeFact, QuietInv, FieldInv, RaceInv, ServingInv, TypeOK, Facts
    <3>4. CASE fact' = fact
      BY <3>4
    <3> QED BY <3>1, <3>2, <3>3, <3>4 DEF Serve, BeginPropose, CheckCurrent, InsertChange,
               BeginApprove, ReadSource, ReadPrevious, BeginReject, RejectChange,
               BeginSupersede, Abandon, Begin, Advance, tables
  <2>3. CASE UNCHANGED tables
    BY <2>3 DEF tables
  <2> QED BY <2>1, <2>2, <2>3 DEF QuietNext, GovernedNext, Ingest, EditSource, vars,
             RegisterManagedSource, LoadSources, ReadFacts, VerifyLoaded, RebuildIndex,
             ReadRetained, EndIngestion
<1>2. [][Cites]_allVars <=> ApprovalsCiteIndexedVersion
  BY DEF ApprovalsCiteIndexedVersion
<1>3. QuietSpec => [][Cites]_allVars
  BY <1>1, QuietInvariant, PTL DEF QuietSpec
<1> QED BY <1>2, <1>3

(* A reindexing left alone keeps the decisions and the authority in         *)
(* agreement: the approved changes are those whose fact is in force.        *)
THEOREM QuietDecisions == QuietSpec => []DecisionsAreInForce
<1>1. QuietInv => DecisionsAreInForce
  BY DEF QuietInv, FieldInv
<1> QED BY <1>1, QuietInvariant, PTL

(* And the product record shows the fact in force of each field.            *)
THEOREM QuietMaster == QuietSpec => []MasterShowsCurrent
<1>1. QuietInv => MasterShowsCurrent
  BY DEF QuietInv, FieldInv
<1> QED BY <1>1, QuietInvariant, PTL

(* A field has one fact in force, a change one approval, and each trail is  *)
(* a walk, also when a reindexing puts changes to review in between.        *)
THEOREM QuietField ==
  QuietSpec => [](OneCurrentFact /\ ApprovedAtMostOnce /\ AuditTrailIsAWalk)
<1>1. QuietInv => OneCurrentFact /\ ApprovedAtMostOnce /\ AuditTrailIsAWalk
  BY DEF QuietInv, FieldInv, RaceInv, OnceInv, ApprovedAtMostOnce
<1> QED BY <1>1, QuietInvariant, PTL

(* An undisturbed rebuild is one submission to the register: it puts to     *)
(* review what it opens and moves no holder.                                *)
LEMMA RebuildSubmits ==
  ASSUME QuietInv, RebuildTables
  PROVE  R!Decide
<1> DEFINE some == {c \in Changes : c \in Opened}
<1>1. HolderMap' = HolderMap
  BY RebuildKeepsFacts, HolderStays
<1>2. some \subseteq R!Unproposed
  BY DEF Opened, Unknown, R!Unproposed
<1>3. status' = [c \in Changes |-> IF c \in some THEN "pending" ELSE status[c]]
  BY DEF RebuildTables, Opened
<1>4. R!Submit(some)
  BY <1>1, <1>2, <1>3 DEF R!Submit, HolderMap
<1> QED BY <1>2, <1>4 DEF R!Decide

(* Every step of an undisturbed execution is one of the register, or leaves *)
(* it as it is.                                                             *)
LEMMA QuietRegisterStep ==
  QuietInv /\ QuietInv' /\ [QuietNext]_allVars => [R!Decide]_(R!rvars)
<1> SUFFICES ASSUME QuietInv, QuietInv', [QuietNext]_allVars
             PROVE  [R!Decide]_(R!rvars)
  OBVIOUS
<1>1. ASSUME [Next]_vars PROVE [R!Decide]_(R!rvars)
  BY <1>1, RegisterStep DEF QuietInv
<1>2. CASE RebuildTables
  BY <1>2, RebuildSubmits
<1>3. ASSUME NEW d \in Managed, NEW h \in Hashes, RegisterManagedSource(d, h)
      PROVE  [R!Decide]_(R!rvars)
  <2>1. HolderMap' = HolderMap /\ status' = status
    BY <1>3, HolderStays DEF RegisterManagedSource, tables
  <2> QED BY <2>1 DEF R!rvars, HolderMap
<1> QED BY <1>1, <1>2, <1>3
        DEF QuietNext, GovernedNext, Ingest, Review, EditSource, LoadSources, ReadFacts,
            VerifyLoaded, RebuildIndex, ReadRetained, EndIngestion, allVars

(* The review implements the register also while the sources are edited,    *)
(* uploads are registered and the stores are rebuilt, as long as a          *)
(* reindexing is left alone: rebuilding is no way to decide.                *)
THEOREM ReindexImplementsRegister == QuietSpec => ImplementsRegister
<1>1. GovernedInit => R!Start
  BY RegisterInit DEF GovernedInit
<1>2. QuietInv /\ QuietInv' /\ [QuietNext]_allVars => [R!Decide]_(R!rvars)
  BY QuietRegisterStep
<1> QED BY <1>1, <1>2, QuietInvariant, PTL DEF QuietSpec, ImplementsRegister, R!Register
=============================================================================

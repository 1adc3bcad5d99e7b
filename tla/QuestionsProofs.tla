--------------------------- MODULE QuestionsProofs ---------------------------
(***************************************************************************)
(* Theorems about Questions for every catalog, corpus, question and number *)
(* of reviewers: what an answer cites, reports as conflicting and states   *)
(* of a core field, while reviews and a reindexing go on between its reads. *)
(***************************************************************************)
EXTENDS Questions, GovernedIngestionProofs, FiniteSetTheorems, WellFoundedInduction

-----------------------------------------------------------------------------
(***************************************************************************)
(* Answers, whatever the hits.                                             *)
(***************************************************************************)
Ranked(hits) == \A h \in hits : h.rank \in Nat

(* Natural numbers have a least one.                                        *)
LEMMA LeastNatural ==
  ASSUME NEW S \in SUBSET Nat, S # {}
  PROVE  \E m \in S : \A n \in S : m <= n
<1>1. \E m \in S : \A n \in S : <<n, m>> \notin OpToRel(<, Nat)
  BY NatLessThanWellFounded, WFMin
<1>2. PICK m \in S : \A n \in S : <<n, m>> \notin OpToRel(<, Nat)
  BY <1>1
<1>3. \A n \in S : ~(n < m)
  BY <1>2 DEF OpToRel
<1> QED BY <1>3

(* The first of some hits is one of them.                                   *)
LEMMA FirstIsOne ==
  ASSUME NEW hits, hits # {}, Ranked(hits)
  PROVE  First(hits) \in hits
<1> DEFINE ranks == {h.rank : h \in hits}
<1>1. ranks \in SUBSET Nat /\ ranks # {}
  BY DEF Ranked
<1>2. PICK m \in ranks : \A n \in ranks : m <= n
  BY <1>1, LeastNatural
<1>3. PICK h \in hits : h.rank = m
  BY <1>2
<1>4. \A g \in hits : h.rank <= g.rank
  BY <1>2, <1>3
<1> QED BY <1>3, <1>4 DEF First

(* A claim that says a value of a hit cites that hit.                       *)
LEMMA CitingCites ==
  ASSUME NEW about, NEW field, NEW h, NEW value
  PROVE  LET c == Citing(about, field, h, value)
         IN /\ c.about = about /\ c.field = field /\ c.value = value
            /\ c.evidence = {h.id}
            /\ c.state \in {"supported_historical", "supported_current"}
BY DEF Citing, Claim

(* What says something of a field is among the hits.                        *)
LEMMA StatingAmong ==
  ASSUME NEW hits, NEW f
  PROVE  /\ Verified(Saying(hits, f), f) \subseteq hits
         /\ \A p : Verified(Preferred(Saying(AboutProduct(hits, p), f)), f) \subseteq hits
BY DEF Verified, Saying, Preferred, AboutProduct

(* A claim about a field of a product cites hits.                           *)
LEMMA FieldClaimCites ==
  ASSUME NEW q, NEW p, NEW f, NEW hits, Ranked(hits), NEW c \in FieldClaims(q, p, f, hits)
  PROVE  /\ c.about = p /\ c.field = f
         /\ c.evidence \subseteq IdsOf(hits)
<1> DEFINE stating == Verified(Preferred(Saying(AboutProduct(hits, p), f)), f)
           values == {h.says[f] : h \in stating}
<1>1. stating \subseteq hits /\ Ranked(stating)
  BY StatingAmong DEF Ranked
<1>2. CASE c = Claim(p, f, "conflicting", Unsaid, IdsOf(stating))
  BY <1>1, <1>2 DEF Claim, IdsOf
<1>3. CASE values # {} /\ c = Citing(p, f, First(stating), First(stating).says[f])
  <2>1. First(stating) \in hits
    BY <1>1, <1>3, FirstIsOne
  <2> QED BY <1>3, <2>1, CitingCites DEF IdsOf
<1>4. CASE c = Gap(p, f, "unsupported")
  BY <1>4 DEF Gap, Claim
<1> QED BY <1>2, <1>3, <1>4 DEF FieldClaims

(* A claim about a document cites hits.                                     *)
LEMMA DocumentClaimCites ==
  ASSUME NEW q, NEW about, NEW hits, Ranked(hits), NEW c \in DocumentClaims(q, about, hits)
  PROVE  c.about = about /\ c.evidence \subseteq IdsOf(hits)
<1>1. PICK f : c = DocumentClaim(about, f, hits)
  BY DEF DocumentClaims
<1> DEFINE stating == Verified(Saying(hits, f), f)
<1>2. stating \subseteq hits /\ Ranked(stating)
  BY StatingAmong DEF Ranked
<1>3. CASE stating # {}
  <2>1. First(stating) \in hits
    BY <1>2, <1>3, FirstIsOne
  <2> QED BY <1>1, <1>3, <2>1, CitingCites DEF DocumentClaim, IdsOf
<1>4. CASE stating = {}
  BY <1>1, <1>4 DEF DocumentClaim, Gap, Claim
<1> QED BY <1>3, <1>4

(* A claim of an answer cites hits, and is about a field of a product that  *)
(* the question names, or about no product, or a notice or an option.       *)
LEMMA ClaimsCite ==
  ASSUME NEW q, NEW hits, Ranked(hits), NEW several \in BOOLEAN,
         NEW c \in Claims(q, hits, several)
  PROVE  /\ c.evidence \subseteq IdsOf(hits)
         /\ \/ c \in ProductClaims(q, hits)
            \/ c.about \in {"identity", "history", "present", "document", "missing"}
            \/ c.field = "product_option" /\ c.state = "supported_current"
<1> DEFINE Goal == /\ c.evidence \subseteq IdsOf(hits)
                   /\ \/ c \in ProductClaims(q, hits)
                      \/ c.about \in {"identity", "history", "present", "document", "missing"}
                      \/ c.field = "product_option" /\ c.state = "supported_current"
<1>1. ASSUME NEW state, c = Gap("identity", "sku", state) PROVE Goal
  BY <1>1 DEF Gap, Claim
<1>2. CASE c = Claim("identity", "sku", "ambiguous", Unsaid, IdsOf(Listings(hits, Exact(q))))
  BY <1>2 DEF Claim, IdsOf, Listings
<1>3. CASE c \in HistoricalClaims(q, hits)
  <2> DEFINE quotations == {h \in hits : /\ h.category = "quotation_evidence"
                                         /\ Exact(q) # {} => h.product \in Exact(q)}
  <2>1. Ranked(quotations) /\ IdsOf(quotations) \subseteq IdsOf(hits)
    BY DEF Ranked, IdsOf
  <2>2. CASE c \in DocumentClaims(q, "history", quotations)
    BY <2>1, <2>2, DocumentClaimCites
  <2>3. CASE \E f : c = Gap("present", f, "unsupported")
    BY <2>3 DEF Gap, Claim
  <2> QED BY <1>3, <2>2, <2>3 DEF HistoricalClaims
<1>4. CASE c \in DocumentClaims(q, "document", {h \in hits : h.category = q.topic})
  <2> DEFINE onTopic == {h \in hits : h.category = q.topic}
  <2>1. Ranked(onTopic) /\ IdsOf(onTopic) \subseteq IdsOf(hits)
    BY DEF Ranked, IdsOf
  <2> QED BY <1>4, <2>1, DocumentClaimCites
<1>5. CASE c \in ProductClaims(q, hits)
  <2>1. PICK p, f : c \in FieldClaims(q, p, f, hits)
    BY <1>5 DEF ProductClaims
  <2> QED BY <1>5, <2>1, FieldClaimCites
<1>6. CASE c \in Options(q, hits, several)
  <2>1. CASE \E h \in hits : c = Claim(h.product, "product_option", "supported_current",
                                       Unsaid, {h.id})
    BY <2>1 DEF Claim, IdsOf
  <2>2. CASE c = Gap("identity", "sku", "ambiguous")
    BY <1>1, <2>2
  <2> QED BY <1>6, <2>1, <2>2 DEF Options, Best
<1> QED BY <1>1, <1>2, <1>3, <1>4, <1>5, <1>6 DEF Claims

(* The same of the whole answer, its notices included.                      *)
LEMMA AnswerCites ==
  ASSUME NEW q, NEW hits, Ranked(hits), NEW several \in BOOLEAN,
         NEW c \in Answer(q, hits, several)
  PROVE  /\ c.evidence \subseteq IdsOf(hits)
         /\ \/ c \in ProductClaims(q, hits)
            \/ c.about \in {"identity", "history", "present", "document", "missing"}
            \/ /\ c.field \in {"product_option", "conflict_notice"}
               /\ c.state = "supported_current"
<1>1. CASE c \in Claims(q, hits, several)
  BY <1>1, ClaimsCite
<1>2. CASE c = Gap("missing", "missing", "unsupported")
  BY <1>2 DEF Gap, Claim
<1>3. CASE c \in Notices(q, Rendered(Claims(q, hits, several)), hits)
  <2>1. PICK p : c = Claim(SkuOf[p], "conflict_notice", "supported_current", Unsaid,
                           IdsOf(Listings(hits, {r \in Products : SkuOf[r] = SkuOf[p]})))
    BY <1>3 DEF Notices
  <2> QED BY <2>1 DEF Claim, IdsOf, Listings
<1> QED BY <1>1, <1>2, <1>3 DEF Answer, Rendered

(* A conflict about a product, or a supported claim about a field of it, is *)
(* a claim about a field of a product that the question names.              *)
LEMMA ProductClaimsOnly ==
  ASSUME NEW q, NEW hits, Ranked(hits), NEW several \in BOOLEAN,
         NEW c \in Answer(q, hits, several), c.about \in Products,
         c.state = "conflicting" \/ c.field \in Fields
  PROVE  /\ c.about \in Exact(q)
         /\ c \in FieldClaims(q, c.about, c.field, hits)
<1>1. c \in ProductClaims(q, hits)
  BY AnswerCites, AnsweringAssumption
<1>2. PICK p \in Exact(q), f \in q.fields \cup UsualFields :
             c \in FieldClaims(q, p, f, hits)
  BY <1>1 DEF ProductClaims
<1> QED BY <1>2, FieldClaimCites

-----------------------------------------------------------------------------
(***************************************************************************)
(* Rows and hits.                                                          *)
(***************************************************************************)

(* What a row says, as a hit of any rank.                                   *)
LEMMA HitKinds ==
  ASSUME NEW id \in AllRows, NEW rank, chunks \in SUBSET Changes
  PROVE  LET h == Hit(id, rank)
         IN /\ h.id = id /\ h.rank = rank
            /\ \/ \E p \in Products : /\ id = ListingOf(p)
                                      /\ h.type = "product" /\ h.product = p
                                      /\ h.says = SaidOf(p)
               \/ \E c \in chunks : /\ id = FactChunk(c)
                                    /\ h.type = "approved_product_fact"
                                    /\ h.product = ProductOf[c.key]
                                    /\ h.says = [f \in {FieldOf[c.key]} |-> c.value]
               \/ \E g \in Passages : id = Passage(g) /\ h.type = "section"
<1>1. CASE \E p \in Products : id = ListingOf(p)
  BY <1>1 DEF ListingOf, Hit
<1>2. CASE \E c \in chunks : id = FactChunk(c)
  <2>1. PICK c \in chunks : id = FactChunk(c)
    BY <1>2
  <2>2. id[1] = "approved_product_fact" /\ id[2] = c
    BY <2>1 DEF FactChunk
  <2>3. Hit(id, rank) =
          [id |-> id, rank |-> rank, type |-> id[1], category |-> id[1],
           product |-> ProductOf[c.key], says |-> [f \in {FieldOf[c.key]} |-> c.value]]
    BY <2>2 DEF Hit
  <2> QED BY <2>1, <2>2, <2>3
<1>3. CASE \E g \in Passages : id = Passage(g)
  BY <1>3 DEF Passage, Hit
<1> QED BY <1>1, <1>2, <1>3 DEF AllRows, ChunksOfProducts

(* The rows are finitely many as long as the facts are.                     *)
LEMMA RowsFinite ==
  ASSUME IsFiniteSet(chunks)
  PROVE  IsFiniteSet(AllRows) /\ IsFiniteSet(Rows)
<1> DEFINE L == {ListingOf(p) : p \in Products}
           C == {FactChunk(c) : c \in chunks}
           G == {Passage(g) : g \in Passages}
<1>1. IsFiniteSet(L)
  <2>1. [p \in Products |-> ListingOf(p)] \in Surjection(Products, L)
    BY DEF Surjection
  <2> QED BY <2>1, FS_Surjection, QuestionsAssumption
<1>2. IsFiniteSet(C)
  <2>1. [c \in chunks |-> FactChunk(c)] \in Surjection(chunks, C)
    BY DEF Surjection
  <2> QED BY <2>1, FS_Surjection
<1>3. IsFiniteSet(G)
  <2>1. [g \in Passages |-> Passage(g)] \in Surjection(Passages, G)
    BY DEF Surjection
  <2> QED BY <2>1, FS_Surjection, QuestionsAssumption
<1>4. IsFiniteSet((L \cup C) \cup G)
  <2>1. IsFiniteSet(L \cup C)
    BY <1>1, <1>2, FS_Union
  <2> QED BY <1>3, <2>1, FS_Union
<1>5. AllRows \subseteq (L \cup C) \cup G
  BY DEF AllRows, ChunksOfProducts
<1>6. Rows \subseteq AllRows
  BY DEF Rows
<1> QED BY <1>4, <1>5, <1>6, FS_Subset

(* Every hit comes from a row, and the hits are ranked and finitely many.   *)
LEMMA HitsAreRows ==
  ASSUME NEW q, IsFiniteSet(Rows), NEW ranked \in SetToSeqs(Rows), chunks \in SUBSET Changes
  PROVE  /\ \A h \in Hits(q, ranked) : \E id \in Rows, i \in Nat : h = Hit(id, i)
         /\ Ranked(Hits(q, ranked))
         /\ IsFiniteSet(Hits(q, ranked))
         /\ IdsOf(Hits(q, ranked)) \subseteq Rows
<1> DEFINE n == Cardinality(Rows)
           some == {j \in DOMAIN ranked : j <= q.limit}
<1>1. n \in Nat
  BY FS_CardinalityType
<1>2. ranked \in [1..n -> Rows] /\ DOMAIN ranked = 1..n
  BY DEF SetToSeqs
<1>3. \A h \in Hits(q, ranked) : \E i \in some : h = Hit(ranked[i], i)
  BY DEF Hits
<1>4. \A i \in some : i \in Nat /\ ranked[i] \in Rows
  BY <1>1, <1>2
<1>5. \A h \in Hits(q, ranked) : \E id \in Rows, i \in Nat : h = Hit(id, i)
  BY <1>3, <1>4
<1>6. \A id \in Rows, i \in Nat : Hit(id, i).id = id /\ Hit(id, i).rank = i
  BY HitKinds DEF Rows
<1>7. IsFiniteSet(Hits(q, ranked))
  <2>1. IsFiniteSet(1..n)
    BY <1>1, FS_Interval
  <2>2. some \in SUBSET (1..n)
    BY <1>2
  <2>3. IsFiniteSet(some)
    BY <2>1, <2>2, FS_Subset
  <2>4. [i \in some |-> Hit(ranked[i], i)] \in Surjection(some, Hits(q, ranked))
    BY DEF Surjection, Hits
  <2> QED BY <2>3, <2>4, FS_Surjection
<1> QED BY <1>5, <1>6, <1>7 DEF Ranked, IdsOf

-----------------------------------------------------------------------------
(***************************************************************************)
(* The stores between two reads of a question.  SeedFactsAreListed says    *)
(* that the listing speaks for every fact of the seed catalog in force,    *)
(* also when a rebuild has brought one back: what the listing is behind of *)
(* is a change, whose fact has a chunk of its own.                         *)
(***************************************************************************)
SeedFactsAreListed ==
  \A g \in SeedFacts : fact[g] = "approved" => listing[g.key] = g.value

StoresFinite == IsFiniteSet(chunks) /\ IsFiniteSet(snapshot \cap Changes)

QuestionInv ==
  /\ OverlapInv
  /\ SeedFactsAreListed
  /\ StoresFinite
  /\ reading # "none" => asked \in Asked

(* Facts of the seed catalog are not those of changes.                      *)
LEMMA SeedsAreNoChanges == SeedFacts \cap Changes = {} /\ SeedFacts \subseteq Facts
BY ConstantsAssumption DEF SeedFacts, Changes, Facts

(* No review puts a fact of the seed catalog into force.                    *)
LEMMA ReviewsBringNoSeed ==
  ASSUME ServingInv, Next, NEW g \in SeedFacts, fact'[g] = "approved"
  PROVE  fact[g] = "approved"
<1>1. g \in Facts /\ g \notin Changes /\ TypeOK
  BY SeedsAreNoChanges DEF ServingInv
<1>2. PICK t \in Threads : Serve(t)
  BY DEF Next
<1>3. CASE ApproveFact(t)
  BY <1>1, <1>3 DEF ApproveFact, TypeOK
<1>4. CASE SupersedeFact(t)
  BY <1>1, <1>4 DEF SupersedeFact, TypeOK
<1>5. CASE UNCHANGED fact
  BY <1>5
<1> QED BY <1>2, <1>3, <1>4, <1>5
        DEF Serve, BeginPropose, Begin, CheckCurrent, Advance, InsertChange, BeginApprove,
            ReadSource, ReadPrevious, BeginReject, RejectChange, BeginSupersede, Abandon, tables

(* A rebuild lists the facts of the seed catalog that it keeps in force.    *)
LEMMA RebuildListsSeeds ==
  ASSUME OverlapInv, RebuildTables, NEW g \in SeedFacts, fact'[g] = "approved"
  PROVE  master'[g.key] = g.value
<1>1. g \in snapshot /\ g.key \in Keys
  BY SeedsAreNoChanges DEF RebuildTables, Effective, SeedFacts
<1>2. \A f \in snapshot : f.key = g.key => f = g
  BY <1>1 DEF OverlapInv, SnapshotInv, Replacing, RebuildTables, Goto
<1>3. (CHOOSE f \in snapshot : f.key = g.key) = g
  BY <1>1, <1>2
<1> QED BY <1>1, <1>3 DEF RebuildTables, Effective

(* SeedFactsAreListed is kept.                                              *)
LEMMA ListedNext ==
  ASSUME OverlapInv, SeedFactsAreListed, [QuestionsNext]_everything
  PROVE  SeedFactsAreListed'
<1> SUFFICES ASSUME NEW g \in SeedFacts, fact'[g] = "approved"
             PROVE  listing'[g.key] = g.value
  BY DEF SeedFactsAreListed
<1>1. ASSUME UNCHANGED <<fact, listing>> PROVE listing'[g.key] = g.value
  BY <1>1 DEF SeedFactsAreListed
<1>2. CASE UNCHANGED <<allVars, listing>>
  BY <1>1, <1>2 DEF allVars, vars, tables
<1>3. CASE Background
  <2>1. CASE stage = "rebuild_tables" /\ stage' = "verify"
    BY <1>3, <2>1, OnlyRebuild, RebuildListsSeeds DEF Background
  <2>2. CASE ~(stage = "rebuild_tables" /\ stage' = "verify")
    <3>1. listing' = listing /\ GovernedNext /\ ~RebuildTables
      BY <1>3, <2>2 DEF Background, RebuildTables, Goto
    <3>2. CASE Review
      BY <3>1, <3>2, ReviewsBringNoSeed DEF Review, OverlapInv, SeedFactsAreListed
    <3>3. CASE UNCHANGED fact
      BY <1>1, <3>1, <3>3
    <3> QED BY <3>1, <3>2, <3>3
            DEF GovernedNext, Ingest, EditSource, RegisterManagedSource, LoadSources, ReadFacts,
                VerifyLoaded, RebuildIndex, ReadRetained, EndIngestion, vars, tables
  <2> QED BY <2>1, <2>2
<1> QED BY <1>2, <1>3 DEF QuestionsNext, Ask, Search, GatherCandidates, Compose, EndQuestion,
                          everything

(* An approval adds one chunk; a withdrawal and a rebuild take none but     *)
(* those read before.                                                       *)
LEMMA FiniteNext ==
  ASSUME OverlapInv, StoresFinite, [GovernedNext]_allVars
  PROVE  StoresFinite'
<1>1. TypeOK /\ EvidenceIsCurrent /\ snapshot \in SUBSET Facts
  BY DEF OverlapInv, ServingInv, GovernedTypeOK
<1>2. ASSUME UNCHANGED <<chunks, snapshot>> PROVE StoresFinite'
  BY <1>2 DEF StoresFinite
<1>3. CASE Review
  <2>1. PICK t \in Threads : Serve(t)
    BY <1>3 DEF Review, Next
  <2>2. snapshot' = snapshot
    BY <1>3 DEF Review, run
  <2>3. CASE ApproveFact(t) \/ SupersedeFact(t)
    <3>1. chunks' \subseteq chunks \cup {target[t]}
      BY <1>1, <2>3 DEF ApproveFact, SupersedeFact, ChunksOf, EvidenceIsCurrent, TypeOK, Facts
    <3>2. IsFiniteSet(chunks \cup {target[t]})
      BY FS_AddElement DEF StoresFinite
    <3>3. IsFiniteSet(chunks')
      BY <3>1, <3>2, FS_Subset
    <3> QED BY <2>2, <3>3 DEF StoresFinite
  <2>4. CASE UNCHANGED chunks
    BY <1>2, <2>2, <2>4
  <2> QED BY <2>1, <2>3, <2>4
          DEF Serve, BeginPropose, Begin, CheckCurrent, Advance, InsertChange, BeginApprove,
              ReadSource, ReadPrevious, BeginReject, RejectChange, BeginSupersede, Abandon, tables
<1>4. CASE ReadFacts
  <2>1. snapshot' \subseteq Approved
    BY <1>4 DEF ReadFacts, OneOfEach
  <2>2. snapshot' \cap Changes \subseteq chunks
    BY <1>1, <2>1 DEF Approved, EvidenceIsCurrent
  <2>3. IsFiniteSet(snapshot' \cap Changes)
    BY <2>2, FS_Subset DEF StoresFinite
  <2> QED BY <1>4, <2>3 DEF ReadFacts, vars, tables, StoresFinite
<1>5. CASE RebuildTables
  <2>1. chunks' \subseteq snapshot \cap Changes
    BY <1>5, SeedsAreNoChanges DEF RebuildTables, Effective, ChunksOf, Facts
  <2>2. IsFiniteSet(chunks')
    BY <2>1, FS_Subset DEF StoresFinite
  <2> QED BY <1>5, <2>2 DEF RebuildTables, StoresFinite
<1>6. CASE EndIngestion
  BY <1>6, FS_EmptySet DEF EndIngestion, StoresFinite, vars, tables
<1> QED BY <1>2, <1>3, <1>4, <1>5, <1>6
        DEF GovernedNext, Ingest, EditSource, RegisterManagedSource, LoadSources,
            VerifyLoaded, RebuildIndex, ReadRetained, allVars, run, vars, tables

(* Every step keeps QuestionInv.                                            *)
LEMMA QuestionInvNext == QuestionInv /\ [QuestionsNext]_everything => QuestionInv'
<1> SUFFICES ASSUME QuestionInv, [QuestionsNext]_everything PROVE QuestionInv'
  OBVIOUS
<1>1. [GovernedNext]_allVars
  BY DEF QuestionsNext, Background, Ask, Search, GatherCandidates, Compose, EndQuestion,
         everything
<1>2. OverlapInv'
  BY <1>1, OverlapInvNext DEF QuestionInv
<1>3. SeedFactsAreListed' /\ StoresFinite'
  BY <1>1, ListedNext, FiniteNext DEF QuestionInv
<1>4. reading' # "none" => asked' \in Asked
  BY DEF QuestionInv, QuestionsNext, Background, Ask, Search, GatherCandidates, Compose,
         EndQuestion, everything, question
<1> QED BY <1>2, <1>3, <1>4 DEF QuestionInv

(* QuestionInv holds at first.                                              *)
LEMMA QuestionInvInit == QuestionsInit => QuestionInv
<1> SUFFICES ASSUME QuestionsInit PROVE QuestionInv
  OBVIOUS
<1>1. OverlapInv
  BY OverlapInvInit DEF QuestionsInit
<1>2. SeedFactsAreListed
  <2> SUFFICES ASSUME NEW g \in SeedFacts, fact[g] = "approved"
               PROVE  listing[g.key] = g.value
    BY DEF SeedFactsAreListed
  <2>1. g \in Facts /\ g.key \in Keys
    BY SeedsAreNoChanges DEF SeedFacts
  <2>2. g.key \in DOMAIN Seed /\ g = SeedFact(g.key)
    BY <2>1 DEF QuestionsInit, GovernedInit, Init
  <2> QED BY <2>1, <2>2 DEF QuestionsInit, GovernedInit, Init, SeedFact
<1>3. StoresFinite
  BY FS_EmptySet DEF QuestionsInit, GovernedInit, Init, StoresFinite
<1> QED BY <1>1, <1>2, <1>3 DEF QuestionInv, QuestionsInit

(* QuestionInv holds in every execution.                                    *)
LEMMA QuestionInvariant == QuestionsSpec => []QuestionInv
BY QuestionInvInit, QuestionInvNext, PTL DEF QuestionsSpec

-----------------------------------------------------------------------------
(* Only Compose makes an answer.                                            *)
LEMMA OnlyCompose ==
  ASSUME [QuestionsNext]_everything, Composed
  PROVE  Compose
BY DEF Composed, QuestionsNext, Background, Ask, Search, GatherCandidates, EndQuestion,
       everything, question

(* What the answer just made is made of.                                    *)
LEMMA ComposedFrom ==
  ASSUME QuestionInv, [QuestionsNext]_everything, Composed
  PROVE  /\ asked \in Asked /\ chunks \in SUBSET Changes /\ IsFiniteSet(Rows)
         /\ \E ranked \in SetToSeqs(Rows) :
              /\ answer' = Answer(asked, Hits(asked, ranked), Diversity)
              /\ context' = IdsOf(Hits(asked, ranked))
<1>1. asked \in Asked /\ chunks \in SUBSET Changes /\ IsFiniteSet(Rows)
  BY RowsFinite DEF QuestionInv, OverlapInv, ServingInv, TypeOK, StoresFinite, Composed
<1>2. Compose
  BY OnlyCompose
<1> QED BY <1>1, <1>2 DEF Compose, Rankings

(* The chunk of an approved fact that is a row says what is in force.       *)
LEMMA FactChunksInForce ==
  ASSUME OverlapInv, NEW c \in chunks
  PROVE  /\ c \in Facts /\ c \in Changes /\ fact[c] = "approved"
         /\ c \in FactsInForce(ProductOf[c.key], FieldOf[c.key])
BY DEF OverlapInv, ServingInv, EvidenceIsCurrent, Facts, FactsInForce

(* Whatever the index holds and reviews do between the reads, an answer     *)
(* cites only chunks that have a row, and an approved fact only in force.   *)
THEOREM CitationsInForce == QuestionsSpec => CitedFactsAreInForce
<1> DEFINE Goal == Composed =>
             \A c \in answer' : \A id \in c.evidence :
               /\ id \in AllRows
               /\ id[1] = "approved_product_fact" => fact[id[2]] = "approved"
<1>1. QuestionInv /\ [QuestionsNext]_everything => [Goal]_everything
  <2> SUFFICES ASSUME QuestionInv, [QuestionsNext]_everything, Composed,
                      NEW c \in answer', NEW id \in c.evidence
               PROVE  /\ id \in AllRows
                      /\ id[1] = "approved_product_fact" => fact[id[2]] = "approved"
    OBVIOUS
  <2>1. PICK ranked \in SetToSeqs(Rows) : answer' = Answer(asked, Hits(asked, ranked), Diversity)
    BY ComposedFrom
  <2>2. IsFiniteSet(Rows) /\ chunks \in SUBSET Changes /\ Diversity \in BOOLEAN
    BY ComposedFrom, QuestionsAssumption
  <2>3. Ranked(Hits(asked, ranked)) /\ IdsOf(Hits(asked, ranked)) \subseteq Rows
    BY <2>2, HitsAreRows
  <2>4. id \in AllRows
    BY <2>1, <2>2, <2>3, AnswerCites DEF Rows
  <2>5. ASSUME id[1] = "approved_product_fact" PROVE \E d \in chunks : id[2] = d
    BY <2>4, <2>5 DEF AllRows, ChunksOfProducts, ListingOf, FactChunk, Passage
  <2> QED BY <2>4, <2>5, FactChunksInForce DEF QuestionInv
<1>2. [][Goal]_everything <=> CitedFactsAreInForce
  BY DEF CitedFactsAreInForce
<1>3. QuestionsSpec => [][Goal]_everything
  BY <1>1, QuestionInvariant, PTL DEF QuestionsSpec
<1> QED BY <1>2, <1>3

-----------------------------------------------------------------------------
(***************************************************************************)
(* What the hits about a field of a product say.                           *)
(***************************************************************************)

(* A hit that is about a product is its listing or a fact of it in force.   *)
LEMMA AboutProductHits ==
  ASSUME OverlapInv, IsFiniteSet(Rows), NEW q, NEW ranked \in SetToSeqs(Rows), NEW p, NEW f,
         NEW h \in Saying(AboutProduct(Hits(q, ranked), p), f)
  PROVE  \/ h.type = "product" /\ h.says = SaidOf(p) /\ f \in DOMAIN SaidOf(p)
         \/ /\ h.type = "approved_product_fact"
            /\ \E c \in chunks : c \in FactsInForce(p, f) /\ c.value = h.says[f]
<1>1. chunks \in SUBSET Changes
  BY DEF OverlapInv, ServingInv, TypeOK
<1>2. /\ h \in Hits(q, ranked) /\ f \in DOMAIN h.says /\ h.product = p
      /\ h.type \in {"product", "approved_product_fact"}
  BY DEF Saying, AboutProduct
<1>3. PICK id \in Rows, i \in Nat : h = Hit(id, i)
  BY <1>1, <1>2, HitsAreRows
<1>4. id \in AllRows
  BY DEF Rows
<1>5. \/ \E r \in Products : /\ id = ListingOf(r)
                            /\ h.type = "product" /\ h.product = r
                            /\ h.says = SaidOf(r)
      \/ \E c \in chunks : /\ id = FactChunk(c)
                           /\ h.type = "approved_product_fact"
                           /\ h.product = ProductOf[c.key]
                           /\ h.says = [g \in {FieldOf[c.key]} |-> c.value]
      \/ \E g \in Passages : id = Passage(g) /\ h.type = "section"
  <2>1. LET k == Hit(id, i)
        IN \/ \E r \in Products : /\ id = ListingOf(r)
                                  /\ k.type = "product" /\ k.product = r
                                  /\ k.says = SaidOf(r)
           \/ \E c \in chunks : /\ id = FactChunk(c)
                                /\ k.type = "approved_product_fact"
                                /\ k.product = ProductOf[c.key]
                                /\ k.says = [g \in {FieldOf[c.key]} |-> c.value]
           \/ \E g \in Passages : id = Passage(g) /\ k.type = "section"
    BY <1>1, <1>4, HitKinds
  <2> QED BY <1>3, <2>1
<1>6. CASE \E r \in Products : h.type = "product" /\ h.product = r /\ h.says = SaidOf(r)
  BY <1>2, <1>6
<1>7. ASSUME NEW c \in chunks, h.type = "approved_product_fact", h.product = ProductOf[c.key],
             h.says = [g \in {FieldOf[c.key]} |-> c.value]
      PROVE  c \in FactsInForce(p, f) /\ c.value = h.says[f]
  BY <1>2, <1>7, FactChunksInForce
<1> QED BY <1>2, <1>5, <1>6, <1>7

(* Approved facts go first; without any, all that speaks is the listing.    *)
LEMMA StatingHits ==
  ASSUME OverlapInv, IsFiniteSet(Rows), NEW q, NEW ranked \in SetToSeqs(Rows), NEW p, NEW f
  PROVE  LET saying == Saying(AboutProduct(Hits(q, ranked), p), f)
             stating == Verified(Preferred(saying), f)
         IN \/ \A h \in stating : \E c \in chunks : c \in FactsInForce(p, f) /\ c.value = h.says[f]
            \/ /\ \A h \in saying : h.type # "approved_product_fact"
               /\ \A h \in stating : h.says = SaidOf(p) /\ f \in DOMAIN SaidOf(p)
<1> DEFINE saying == Saying(AboutProduct(Hits(q, ranked), p), f)
           approved == {h \in saying : h.type = "approved_product_fact"}
<1>1. CASE approved # {}
  <2>1. Verified(Preferred(saying), f) \subseteq approved
    BY <1>1 DEF Verified, Preferred
  <2> QED BY <2>1, AboutProductHits
<1>2. CASE approved = {}
  <2>1. Verified(Preferred(saying), f) \subseteq saying
    BY DEF Verified, Preferred
  <2> QED BY <1>2, <2>1, AboutProductHits
<1> QED BY <1>1, <1>2

(* Several values are at least two.                                         *)
LEMMA TwoValues ==
  ASSUME NEW S, IsFiniteSet(S), Cardinality(S) > 1
  PROVE  \E v, w \in S : v # w
<1>1. S # {}
  BY FS_EmptySet
<1>2. PICK v \in S : TRUE
  BY <1>1
<1>3. S # {v}
  BY FS_Singleton
<1> QED BY <1>2, <1>3

(* A field of a product is reported as conflicting only when two facts in   *)
(* force give it different values.                                          *)
THEOREM ConflictsReal == QuestionsSpec => ConflictsAreReal
<1> DEFINE Goal == Composed =>
             \A c \in answer' : c.about \in Products /\ c.state = "conflicting" =>
               \E f, g \in FactsInForce(c.about, c.field) : f.value # g.value
<1>1. QuestionInv /\ [QuestionsNext]_everything => [Goal]_everything
  <2> SUFFICES ASSUME QuestionInv, [QuestionsNext]_everything, Composed,
                      NEW c \in answer', c.about \in Products, c.state = "conflicting"
               PROVE  \E f, g \in FactsInForce(c.about, c.field) : f.value # g.value
    OBVIOUS
  <2>1. PICK ranked \in SetToSeqs(Rows) : answer' = Answer(asked, Hits(asked, ranked), Diversity)
    BY ComposedFrom
  <2> DEFINE hits == Hits(asked, ranked)
             stating == Verified(Preferred(Saying(AboutProduct(hits, c.about), c.field)), c.field)
             values == {h.says[c.field] : h \in stating}
  <2>2. /\ IsFiniteSet(Rows) /\ chunks \in SUBSET Changes /\ Diversity \in BOOLEAN
        /\ OverlapInv
    BY ComposedFrom, QuestionsAssumption DEF QuestionInv
  <2>3. Ranked(hits) /\ IsFiniteSet(hits)
    BY <2>2, HitsAreRows
  <2>4. c \in FieldClaims(asked, c.about, c.field, hits)
    BY <2>1, <2>2, <2>3, ProductClaimsOnly
  <2>5. Cardinality(values) > 1
    BY <2>4, CitingCites DEF FieldClaims, Gap, Claim
  <2>6. IsFiniteSet(values)
    <3>1. stating \in SUBSET hits
      BY StatingAmong
    <3>2. IsFiniteSet(stating)
      BY <2>3, <3>1, FS_Subset
    <3>3. [h \in stating |-> h.says[c.field]] \in Surjection(stating, values)
      BY DEF Surjection
    <3> QED BY <3>2, <3>3, FS_Surjection
  <2>7. PICK v, w \in values : v # w
    BY <2>5, <2>6, TwoValues
  <2>8. PICK h, g \in stating : h.says[c.field] = v /\ g.says[c.field] = w
    BY <2>7
  <2>9. \A e \in stating : \E d \in chunks : /\ d \in FactsInForce(c.about, c.field)
                                             /\ d.value = e.says[c.field]
    BY <2>2, <2>7, <2>8, StatingHits
  <2> QED BY <2>7, <2>8, <2>9
<1>2. [][Goal]_everything <=> ConflictsAreReal
  BY DEF ConflictsAreReal
<1>3. QuestionsSpec => [][Goal]_everything
  BY <1>1, QuestionInvariant, PTL DEF QuestionsSpec
<1> QED BY <1>2, <1>3

-----------------------------------------------------------------------------
(* What a listing says of the field of a key is what is listed of that key. *)
LEMMA ListingSays ==
  ASSUME NEW k \in Keys, FieldOf[k] \in DOMAIN SaidOf(ProductOf[k])
  PROVE  SaidOf(ProductOf[k])[FieldOf[k]] = listing[k]
<1> DEFINE known == {n \in Keys : ProductOf[n] = ProductOf[k] /\ listing[n] # NoValue}
<1>1. SaidOf(ProductOf[k]) = [f \in {FieldOf[n] : n \in known} |->
                                listing[CHOOSE n \in known : FieldOf[n] = f]]
  BY DEF SaidOf
<1>2. PICK n \in known : FieldOf[n] = FieldOf[k]
  BY <1>1
<1>3. \A m \in known : FieldOf[m] = FieldOf[k] => m = k
  BY QuestionsAssumption
<1>4. (CHOOSE m \in known : FieldOf[m] = FieldOf[k]) = k
  BY <1>2, <1>3
<1> QED BY <1>1, <1>2, <1>4

(* When no chunk of an approved fact is about a core field, the fact of it  *)
(* in force is of the seed catalog, so the listing is right.                *)
LEMMA ListingRight ==
  ASSUME OverlapInv, SeedFactsAreListed, NEW k \in Protected,
         \A c \in chunks : c.key # k
  PROVE  \E g \in FactsInForce(ProductOf[k], FieldOf[k]) : g.value = listing[k]
<1>1. PICK g \in Facts : g.key = k /\ fact[g] = "approved"
  BY DEF OverlapInv, ServingInv, CoreFieldsStayCurrent
<1>2. g \in SeedFacts
  BY <1>1 DEF OverlapInv, ServingInv, EvidenceIsCurrent, Facts
<1>3. listing[k] = g.value
  BY <1>1, <1>2 DEF SeedFactsAreListed
<1> QED BY <1>1, <1>3 DEF FactsInForce

(* The chunk of an approved fact that was retrieved speaks of its field.    *)
LEMMA FactSpeaks ==
  ASSUME OverlapInv, IsFiniteSet(Rows), NEW q, NEW ranked \in SetToSeqs(Rows),
         NEW c \in chunks, FactChunk(c) \in IdsOf(Hits(q, ranked))
  PROVE  LET saying == Saying(AboutProduct(Hits(q, ranked), ProductOf[c.key]), FieldOf[c.key])
         IN \E h \in saying : h.type = "approved_product_fact"
<1>1. chunks \in SUBSET Changes
  BY DEF OverlapInv, ServingInv, TypeOK
<1>2. PICK h \in Hits(q, ranked) : h.id = FactChunk(c)
  BY DEF IdsOf
<1>3. PICK id \in Rows, i \in Nat : h = Hit(id, i)
  BY <1>1, <1>2, HitsAreRows
<1>4. id = FactChunk(c)
  BY <1>1, <1>2, <1>3, HitKinds DEF Rows
<1>5. h = [id |-> FactChunk(c), rank |-> i, type |-> "approved_product_fact",
           category |-> "approved_product_fact", product |-> ProductOf[c.key],
           says |-> [f \in {FieldOf[c.key]} |-> c.value]]
  BY <1>3, <1>4 DEF Hit, FactChunk
<1>6. h \in Saying(AboutProduct(Hits(q, ranked), ProductOf[c.key]), FieldOf[c.key])
  BY <1>2, <1>5 DEF Saying, AboutProduct
<1> QED BY <1>5, <1>6

(* What an answer states of a core field is in force, or it is the listing  *)
(* that states it, as of the last reindexing, and the approved fact was not *)
(* among the hits: for any ranking and any top_k, beside reviews and        *)
(* reindexings, which may themselves have undone approvals.                 *)
THEOREM CoreAnswersInForce == QuestionsSpec => CoreAnswersAreInForce
<1> DEFINE Right(c, k) ==
             \/ \E f \in FactsInForce(c.about, c.field) : f.value = c.value
             \/ c.value = listing[k] /\ Unseen(k)
           Goal == Composed =>
             \A c \in answer', k \in Protected :
               c.about = ProductOf[k] /\ c.field = FieldOf[k] /\ Supported(c) => Right(c, k)
<1>1. QuestionInv /\ [QuestionsNext]_everything => [Goal]_everything
  <2> SUFFICES ASSUME QuestionInv, [QuestionsNext]_everything, Composed,
                      NEW c \in answer', NEW k \in Protected,
                      c.about = ProductOf[k], c.field = FieldOf[k], Supported(c)
               PROVE  Right(c, k)
    OBVIOUS
  <2>1. PICK ranked \in SetToSeqs(Rows) :
          /\ answer' = Answer(asked, Hits(asked, ranked), Diversity)
          /\ context' = IdsOf(Hits(asked, ranked))
    BY ComposedFrom
  <2> DEFINE p == ProductOf[k]
             f == FieldOf[k]
             hits == Hits(asked, ranked)
             saying == Saying(AboutProduct(hits, p), f)
             stating == Verified(Preferred(saying), f)
  <2>2. /\ IsFiniteSet(Rows) /\ chunks \in SUBSET Changes /\ Diversity \in BOOLEAN
        /\ OverlapInv /\ SeedFactsAreListed
    BY ComposedFrom, QuestionsAssumption DEF QuestionInv
  <2>3. k \in Keys /\ p \in Products /\ f \in Fields
    BY ConstantsAssumption, QuestionsAssumption
  <2>4. Ranked(hits)
    BY <2>2, HitsAreRows
  <2>5. c \in FieldClaims(asked, p, f, hits)
    BY <2>1, <2>2, <2>3, <2>4, ProductClaimsOnly
  <2>6. stating # {} /\ c.value = First(stating).says[f]
    BY <2>5, CitingCites DEF FieldClaims, Gap, Claim, Supported
  <2>7. First(stating) \in stating
    <3>1. Ranked(stating)
      BY <2>4, StatingAmong DEF Ranked
    <3> QED BY <2>6, <3>1, FirstIsOne
  <2>8. CASE \A h \in stating : \E d \in chunks : d \in FactsInForce(p, f) /\ d.value = h.says[f]
    BY <2>6, <2>7, <2>8
  <2>9. CASE /\ \A h \in saying : h.type # "approved_product_fact"
             /\ \A h \in stating : h.says = SaidOf(p) /\ f \in DOMAIN SaidOf(p)
    <3>1. c.value = listing[k]
      BY <2>3, <2>6, <2>7, <2>9, ListingSays
    <3>2. CASE \E d \in chunks : d.key = k
      <4>1. PICK d \in chunks : d.key = k
        BY <3>2
      <4>2. FactChunk(d) \notin context'
        BY <2>1, <2>2, <2>9, <4>1, FactSpeaks
      <4> QED BY <3>1, <4>1, <4>2 DEF Unseen
    <3>3. CASE \A d \in chunks : d.key # k
      BY <2>2, <3>1, <3>3, ListingRight
    <3> QED BY <3>2, <3>3
  <2> QED BY <2>2, <2>8, <2>9, StatingHits
<1>2. [][Goal]_everything <=> CoreAnswersAreInForce
  BY DEF CoreAnswersAreInForce
<1>3. QuestionsSpec => [][Goal]_everything
  BY <1>1, QuestionInvariant, PTL DEF QuestionsSpec
<1> QED BY <1>2, <1>3
=============================================================================

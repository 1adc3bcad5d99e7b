------------------------------ MODULE Questions ------------------------------
(* A question to the service (app/retrieval/service.py, app/rag/service.py, *)
(* the query endpoint), beside the reviews and the reindexing of            *)
(* GovernedIngestion.  A question only reads, so one at a time is followed. *)
(*                                                                          *)
(* It reads the two stores several times, each read at a moment of its own: *)
(* the vector index twice, the chunks of the products it is about, and at   *)
(* last the rows of all candidates, from which alone the answer is made.    *)
(* Scores are not modelled: a search may return any points, and the fused   *)
(* and reranked order of the hits may be any.                               *)
EXTENDS GovernedIngestion, Answering, SequencesExt

CONSTANTS
  ProductOf, FieldOf,  \* the product and the field of each key
  Passages,            \* the chunks of documents other than the catalog
  PassageAt,           \* what each is: category, product (or "none") and says
  Asked,               \* the questions users ask
  NoQuestion,          \* no question is being answered
  Diversity            \* diversity_selection_enabled

ASSUME QuestionsAssumption ==
  /\ ProductOf \in [Keys -> Products]
  /\ FieldOf \in [Keys -> Fields]
  /\ \A k, n \in Keys : ProductOf[k] = ProductOf[n] /\ FieldOf[k] = FieldOf[n] => k = n
  /\ DOMAIN PassageAt = Passages
  /\ IsFiniteSet(Products) /\ IsFiniteSet(Passages)
  /\ \A q \in Asked : q.limit \in Nat
  /\ Diversity \in BOOLEAN
  /\ NoQuestion \notin Asked

VARIABLES
  listing,  \* what the chunks of type product say of each key
  asked,    \* the question being answered
  reading,  \* which read of it comes next
  found,    \* the chunk ids it has collected
  answer,   \* the claims of its answer
  context   \* the ids of the chunks its answer was made from

question == <<asked, reading, found, answer, context>>
everything == <<allVars, listing, question>>

QuestionsInit ==
  /\ GovernedInit
  /\ listing = master
  /\ asked = NoQuestion /\ reading = "none" /\ found = {}
  /\ answer = {} /\ context = {}

-----------------------------------------------------------------------------
(* Chunks by id: the listing of a product, the fact of an approved change, a *)
(* passage of a document.                                                    *)
ListingOf(p) == <<"product", p>>
FactChunk(c) == <<"approved_product_fact", c>>
Passage(g) == <<"section", g>>

ChunksOfProducts(S) ==
  {ListingOf(p) : p \in S} \cup {FactChunk(c) : c \in {d \in chunks : ProductOf[d.key] \in S}}
AllRows == ChunksOfProducts(Products) \cup {Passage(g) : g \in Passages}

(* evidence_fields of a row, and what else an answer looks at.               *)
SaidOf(p) ==
  LET known == {k \in Keys : ProductOf[k] = p /\ listing[k] # NoValue}
  IN [f \in {FieldOf[k] : k \in known} |-> listing[CHOOSE k \in known : FieldOf[k] = f]]

Hit(id, rank) ==
  CASE id[1] = "product" ->
         [id |-> id, rank |-> rank, type |-> "product",
          category |-> "current_product_listing", product |-> id[2], says |-> SaidOf(id[2])]
    [] id[1] = "approved_product_fact" ->
         [id |-> id, rank |-> rank, type |-> id[1], category |-> id[1],
          product |-> ProductOf[id[2].key],
          says |-> [f \in {FieldOf[id[2].key]} |-> id[2].value]]
    [] id[1] = "section" ->
         [id |-> id, rank |-> rank, type |-> "section",
          category |-> PassageAt[id[2]].category,
          product |-> PassageAt[id[2]].product, says |-> PassageAt[id[2]].says]

(* The points of the index, whose rows the tables need not have yet or any   *)
(* more.                                                                     *)
AllPoints ==
  {ListingOf(p) : p \in Products} \cup {FactChunk(c) : c \in index}
    \cup {Passage(g) : g \in Passages}

-----------------------------------------------------------------------------
(* RetrievalService.search: the retrieval state and the products.            *)
Ask(q) ==
  /\ asked = NoQuestion
  /\ asked' = q
  /\ reading' = "dense"
  /\ UNCHANGED <<allVars, listing, found, answer, context>>

(* search_dense, search_sparse, and once more within the categories of the   *)
(* intent.                                                                   *)
Search(from, to) ==
  /\ reading = from
  /\ reading' = to
  /\ \E some \in SUBSET AllPoints : found' = found \cup some
  /\ UNCHANGED <<allVars, listing, asked, answer, context>>

(* get_product_chunks of the products that match, get_chunks_by_categories.  *)
Structured(q) == ChunksOfProducts(Matches(q))
OfIntent(q) == {Passage(g) : g \in {n \in Passages : PassageAt[n].category \in q.intent}}

GatherCandidates ==
  /\ reading = "candidates"
  /\ reading' = "rows"
  /\ found' = found \cup Structured(asked) \cup OfIntent(asked)
  /\ UNCHANGED <<allVars, listing, asked, answer, context>>

(* get_chunks: an id without a row is dropped.                               *)
FaultUnchecked == found
Rows == found \cap AllRows

(* _fuse_and_rerank ranks the rows as scores decide, here in any order; in   *)
(* an open discovery diversify_product_hits puts several listings of the     *)
(* best 3 * top_k rows, 24 at least, first.                                  *)
OpenDiscovery(q) ==
  /\ Diversity /\ q.open /\ q.intent = {} /\ Matches(q) # {}
  /\ q.ids \cup Named(q) # {} => q.comparison

ListingsFirst(q, ranked) ==
  LET best == {i \in DOMAIN ranked : i <= 3 * q.limit \/ i <= 24}
      listed == {i \in best : ranked[i][1] = "product"}
      wanted == Min({q.wanted, Cardinality(listed), q.limit})
  IN wanted >= 2 => 1..wanted \subseteq listed

Rankings(q) ==
  {ranked \in SetToSeqs(Rows) : OpenDiscovery(q) => ListingsFirst(q, ranked)}

(* RagService.query: the answer is made from the first top_k rows, which the *)
(* response also returns as retrieved_context.                               *)
Hits(q, ranked) == {Hit(ranked[i], i) : i \in {j \in DOMAIN ranked : j <= q.limit}}

Compose ==
  /\ reading = "rows"
  /\ \E ranked \in Rankings(asked) :
       /\ answer' = Answer(asked, Hits(asked, ranked), Diversity)
       /\ context' = IdsOf(Hits(asked, ranked))
  /\ reading' = "answered"
  /\ found' = {}
  /\ UNCHANGED <<allVars, listing, asked>>

(* The response is sent, or a read has failed: the collection is dropped and *)
(* made again by a reindexing, and the database may be busy.                 *)
EndQuestion ==
  /\ asked # NoQuestion
  /\ asked' = NoQuestion /\ reading' = "none" /\ found' = {}
  /\ answer' = {} /\ context' = {}
  /\ UNCHANGED <<allVars, listing>>

(* The chunks of the products are rebuilt with the facts in force, by the    *)
(* transaction that replaces the tables; a review leaves them as they are.   *)
Background ==
  /\ GovernedNext
  /\ listing' = IF stage = "rebuild_tables" /\ stage' = "verify" THEN master' ELSE listing
  /\ UNCHANGED question

QuestionsNext ==
  \/ Background
  \/ \E q \in Asked : Ask(q)
  \/ Search("dense", "sparse")
  \/ Search("sparse", "candidates")
  \/ GatherCandidates
  \/ Compose
  \/ EndQuestion

QuestionsSpec == QuestionsInit /\ [][QuestionsNext]_everything

-----------------------------------------------------------------------------
Composed == reading = "rows" /\ reading' = "answered"
FactsInForce(p, f) ==
  {g \in Facts : ProductOf[g.key] = p /\ FieldOf[g.key] = f /\ fact[g] = "approved"}

(* An answer cites only chunks that exist when it is made, and an approved   *)
(* fact only if it is in force then, although the index still holds points   *)
(* of facts withdrawn since, and reviews go on between the reads.            *)
CitedFactsAreInForce ==
  [][Composed =>
       \A c \in answer' : \A id \in c.evidence :
         /\ id \in AllRows
         /\ id[1] = "approved_product_fact" => fact[id[2]] = "approved"]_everything

(* An answer reports a field of a product as conflicting only when two facts *)
(* in force give it different values: a catalog value that was replaced does *)
(* not conflict with the approved one, nor does one of another product.      *)
ConflictsAreReal ==
  [][Composed =>
       \A c \in answer' : c.about \in Products /\ c.state = "conflicting" =>
         \E f, g \in FactsInForce(c.about, c.field) : f.value # g.value]_everything

(* What an answer states of a core field of a product is in force when it is *)
(* made; or else it is what the listing says, the value of the last          *)
(* reindexing, and the chunk of the approved fact is not in the context,     *)
(* having been cut at top_k or approved after the candidates were read.  No  *)
(* answer made from both the listing and the approved fact states the older  *)
(* value, and none states one that was in force neither then nor now.        *)
Unseen(k) == \E c \in chunks : c.key = k /\ FactChunk(c) \notin context'
CoreAnswersAreInForce ==
  [][Composed =>
       \A c \in answer', k \in Protected :
         c.about = ProductOf[k] /\ c.field = FieldOf[k] /\ Supported(c) =>
           \/ \E f \in FactsInForce(c.about, c.field) : f.value = c.value
           \/ c.value = listing[k] /\ Unseen(k)]_everything
=============================================================================

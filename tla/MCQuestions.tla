----------------------------- MODULE MCQuestions -----------------------------
(* A core and a free field of a product that shares its SKU with a second   *)
(* one, and a third product; a quotation and a company page; two rival      *)
(* replacements of the core field, and one value for the free one.          *)
EXTENDS Questions

CONSTANTS t1, t2, price, color, v0, v1, v2, catalog, letter, h0, h1,
          p1, p2, p3, s1, s2, quote, page

MCKeys == {price, color}
MCProtected == {price}
MCValues == {v0, v1, v2}
MCDocuments == {catalog, letter}
MCHashes == {h0, h1}
MCDocumentOf == h0 :> catalog @@ h1 :> letter
MCIndexed == catalog :> h0 @@ letter :> h1
MCSeed == price :> v0 @@ color :> v0
MCStated == h0 :> MCSeed @@ h1 :> <<>>
MCLists == [h \in MCHashes |-> MCKeys]

P(k, v) == [key |-> k, value |-> v, document |-> letter]
MCProposals == {P(price, v1), P(price, v2)}

MCProducts == {p1, p2, p3}
MCSkuOf == p1 :> s1 @@ p2 :> s1 @@ p3 :> s2
MCFields == {"price", "color", "scope"}
MCProductOf == price :> p1 @@ color :> p1
MCFieldOf == price :> "price" @@ color :> "color"
MCPassages == {quote, page}
MCPassageAt ==
  quote :> [category |-> "quotation_evidence", product |-> p1, says |-> [f \in {"price"} |-> v0]]
  @@ page :> [category |-> "company_knowledge", product |-> "none", says |-> [f \in {"scope"} |-> v1]]

Plain ==
  [ids |-> {}, skus |-> {}, near |-> {}, similar |-> {}, prefixed |-> {},
   identifier |-> FALSE, fields |-> {},
   historical |-> FALSE, current |-> FALSE, topic |-> "none", intent |-> {},
   open |-> FALSE, comparison |-> FALSE, wanted |-> 2, limit |-> 3]
MCAsked ==
  {[Plain EXCEPT !.ids = {p1}, !.fields = {"price"}, !.limit = 8],
   [Plain EXCEPT !.ids = {p1}, !.fields = {"price"}],
   [Plain EXCEPT !.ids = {p1}, !.limit = 1],
   [Plain EXCEPT !.ids = {p1}, !.skus = {s2}, !.fields = {"price"}],
   [Plain EXCEPT !.skus = {s1}],
   [Plain EXCEPT !.ids = {p1}, !.historical = TRUE, !.current = TRUE, !.fields = {"price"},
               !.intent = {"quotation_evidence"}],
   [Plain EXCEPT !.topic = "company_knowledge", !.intent = {"company_knowledge"}],
   [Plain EXCEPT !.identifier = TRUE],
   [Plain EXCEPT !.near = {p1}, !.identifier = TRUE],
   [Plain EXCEPT !.similar = {p1, p2}, !.open = TRUE]}

AboutFields == {q \in MCAsked : q.ids = {p1} /\ q.skus = {} /\ ~q.historical}

(* Which of the approved facts a search returns is what matters; of what     *)
(* lasts it returns all or nothing.  A question about a product's fields    *)
(* sees a review or a reindexing at work, any other question none, and      *)
(* without a question two approvals may overlap.                            *)
LastingFor(q) == {ListingOf(p1), ListingOf(p2), Passage(quote)} \cup
  IF q \in AboutFields THEN {} ELSE {ListingOf(p3), Passage(page)}
Open == {t \in Threads : pc[t] # "idle"}
Going == Cardinality(Open) + IF stage = "idle" THEN 0 ELSE 1
Approving == \A t \in Open : pc[t] \in {"read_source", "read_previous", "approve"}
Focus ==
  /\ reading \in {"sparse", "candidates"} =>
       found \ {FactChunk(c) : c \in Changes} \in {{}, LastingFor(asked)}
  /\ CASE asked = NoQuestion -> Going <= 1 \/ (Going = 2 /\ stage = "idle" /\ Approving)
       [] asked \in AboutFields -> Going <= 1
       [] OTHER -> Going = 0

Alike == Permutations(Threads) \cup Permutations({v1, v2})
=============================================================================

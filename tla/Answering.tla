------------------------------ MODULE Answering ------------------------------
(* How the claims of an answer follow from a question, the products that    *)
(* match it and the chunks retrieved (app/rag/claim_answerer.py and the     *)
(* notices of app/rag/service.py): pure operators, no state.                *)
(*                                                                          *)
(* A question is what its words amount to:                                  *)
(*   ids, skus    the products and the SKUs it names                        *)
(*   near         the products whose SKU it misspells by a likely slip      *)
(*   similar      the products it shares words with                         *)
(*   prefixed     the products whose SKU begins with an identifier in it    *)
(*   identifier   whether there is such an identifier                       *)
(*   fields       the fields it asks for                                    *)
(*   historical, current   whether it asks for history, for the present     *)
(*   topic        the category of documents the answer is about, or "none"  *)
(*   intent       the categories retrieval takes it to be about             *)
(*   open, comparison, wanted   cues of an open search for several products *)
(*   limit        top_k of the request                                      *)
(* and a hit is a chunk with its rank, one of its own, and what it says: id, *)
(* type, category, product and says, a function from fields to values.      *)
EXTENDS Naturals, FiniteSetsExt

CONSTANTS
  Products,     \* the products of the catalog
  SkuOf,        \* the SKU of each, not always its own
  Fields,       \* the fields of products and documents
  UsualFields,  \* those an answer lists when the question asks for none
  HighRisk,     \* those whose present value no history can tell
  Unverified    \* values that read "unknown" or "not verified"

ASSUME AnsweringAssumption ==
  /\ UsualFields \subseteq Fields
  /\ HighRisk \subseteq Fields
  /\ DOMAIN SkuOf = Products
  /\ {"identity", "history", "present", "document", "missing"} \cap Products = {}
  /\ {"product_option", "conflict_notice"} \cap Fields = {}

(* GroundedClaim; the citations of a claim are chunk ids.                   *)
Claim(about, field, state, value, evidence) ==
  [about |-> about, field |-> field, state |-> state, value |-> value, evidence |-> evidence]

Unsaid == "unsaid"
Gap(about, field, state) == Claim(about, field, state, Unsaid, {})

Supported(claim) == claim.state \in {"supported_current", "supported_historical"}

Dated == {"quotation_evidence", "rfq_market_analytics"}
Citing(about, field, h, value) ==
  Claim(about, field,
        IF h.category \in Dated THEN "supported_historical" ELSE "supported_current",
        value, {h.id})

(* Hits are a set, in the order of their ranks.                             *)
IdsOf(hits) == {h.id : h \in hits}
First(hits) == CHOOSE h \in hits : \A g \in hits : h.rank <= g.rank
Best(n, hits) == {h \in hits : Cardinality({g \in hits : g.rank < h.rank}) < n}

-----------------------------------------------------------------------------
(* The products a question names exactly, an ID going before a SKU.          *)
Named(q) == {p \in Products : SkuOf[p] \in q.skus}
Exact(q) == IF q.ids # {} THEN q.ids ELSE Named(q)
Matches(q) == q.ids \cup Named(q) \cup q.near \cup q.similar

Mismatched(q) == q.ids # {} /\ Named(q) # {} /\ \E p \in q.ids : SkuOf[p] \notin q.skus
AmbiguousSku(q) == q.ids = {} /\ Cardinality(Named(q)) > 1
                     /\ \A p, r \in Named(q) : SkuOf[p] = SkuOf[r]
UnknownIdentifier(q) == q.identifier /\ q.prefixed \cap Matches(q) = {}

-----------------------------------------------------------------------------
Saying(hits, f) == {h \in hits : f \in DOMAIN h.says}
Verified(hits, f) == {h \in hits : h.says[f] \notin Unverified}

(* A chunk of a fact a human approved goes before the one of the catalog.    *)
FaultNoPrecedence(hits) == hits
FaultCatalogFirst(hits) ==
  LET listed == {h \in hits : h.type = "product"}
  IN IF listed # {} THEN listed ELSE hits
Preferred(hits) ==
  LET approved == {h \in hits : h.type = "approved_product_fact"}
  IN IF approved # {} THEN approved ELSE hits

AboutProduct(hits, p) ==
  {h \in hits : h.product = p /\ h.type \in {"product", "approved_product_fact"}}

(* _product_claims, for one field: an unknown value says nothing; values     *)
(* that differ are a conflict; a field nobody asked for may go unmentioned.  *)
FieldClaims(q, p, f, hits) ==
  LET stating == Verified(Preferred(Saying(AboutProduct(hits, p), f)), f)
      values == {h.says[f] : h \in stating}
  IN IF Cardinality(values) > 1
     THEN {Claim(p, f, "conflicting", Unsaid, IdsOf(stating))}
     ELSE IF values # {}
     THEN {Citing(p, f, First(stating), First(stating).says[f])}
     ELSE IF q.fields # {} THEN {Gap(p, f, "unsupported")} ELSE {}

ProductClaims(q, hits) ==
  UNION {FieldClaims(q, p, f, hits) :
           p \in Exact(q), f \in IF q.fields # {} THEN q.fields ELSE UsualFields}

(* _document_claims: of every field the first chunk that says something; the *)
(* fields of the first chunk when the question asks for none.                *)
DocumentClaim(about, f, hits) ==
  LET stating == Verified(Saying(hits, f), f)
  IN IF stating # {} THEN Citing(about, f, First(stating), First(stating).says[f])
     ELSE Gap(about, f, "unsupported")

DocumentClaims(q, about, hits) ==
  IF hits = {} THEN {}
  ELSE {DocumentClaim(about, f, hits) :
          f \in IF q.fields # {} THEN q.fields ELSE DOMAIN First(hits).says}

HistoricalClaims(q, hits) ==
  LET quotations == {h \in hits : /\ h.category = "quotation_evidence"
                                  /\ Exact(q) # {} => h.product \in Exact(q)}
  IN DocumentClaims(q, "history", quotations)
       \cup IF q.current THEN {Gap("present", f, "unsupported") : f \in q.fields \cap HighRisk}
                         ELSE {}

(* Open discovery: the first listings that share words with the question,    *)
(* one for each product, three of them or one.                               *)
Options(q, hits, several) ==
  LET listings == {h \in hits : h.type = "product" /\ h.product \in q.similar}
      chosen == Best(IF several THEN 3 ELSE 1, listings)
  IN IF listings = {} THEN {}
     ELSE {Claim(h.product, "product_option", "supported_current", Unsaid, {h.id}) :
             h \in chosen}
          \cup IF q.identifier THEN {Gap("identity", "sku", "ambiguous")} ELSE {}

Listings(hits, products) == {h \in hits : h.type = "product" /\ h.product \in products}

(* ClaimLevelAnswerer.answer: the first of these that applies.               *)
Claims(q, hits, several) ==
  IF Mismatched(q) THEN {Gap("identity", "sku", "conflicting")}
  ELSE IF AmbiguousSku(q)
  THEN {Claim("identity", "sku", "ambiguous", Unsaid, IdsOf(Listings(hits, Exact(q))))}
  ELSE IF q.historical THEN HistoricalClaims(q, hits)
  ELSE IF q.topic # "none"
  THEN DocumentClaims(q, "document", {h \in hits : h.category = q.topic})
  ELSE IF Exact(q) # {} THEN ProductClaims(q, hits)
  ELSE IF UnknownIdentifier(q) THEN {Gap("identity", "sku", "unsupported")}
  ELSE Options(q, hits, several)

(* render: an answer without claims says that something is missing.          *)
Rendered(claims) == IF claims = {} THEN {Gap("missing", "missing", "unsupported")} ELSE claims
Sufficient(claims) == \A c \in claims : Supported(c)

(* _append_conflict_notices: a sufficient answer about products that share   *)
(* their SKU says so, and cites their listings as far as they were retrieved. *)
SharesSku(p) == \E r \in Products \ {p} : SkuOf[r] = SkuOf[p]
Notices(q, claims, hits) ==
  IF ~Sufficient(claims) THEN {}
  ELSE {Claim(SkuOf[p], "conflict_notice", "supported_current", Unsaid,
              IdsOf(Listings(hits, {r \in Products : SkuOf[r] = SkuOf[p]}))) :
          p \in {r \in q.ids \cup Named(q) \cup q.near : SharesSku(r)}}

Answer(q, hits, several) ==
  LET claims == Rendered(Claims(q, hits, several))
  IN claims \cup Notices(q, claims, hits)
=============================================================================

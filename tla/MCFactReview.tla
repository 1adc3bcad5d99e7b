---------------------------- MODULE MCFactReview ----------------------------
(* A small instance: a core field and a free field of one product; the      *)
(* catalog, a current update list, a historical one, and a document that    *)
(* was never indexed.                                                       *)
EXTENDS FactReview, TLC

CONSTANTS t1, t2, price, battery, v0, v1, v2,
          catalog, updates, archive, draft, h0, h1, h2

MCKeys == {price, battery}
MCProtected == {price}
MCValues == {v0, v1, v2}
MCDocuments == {catalog, updates, archive, draft}
MCHistorical == {archive}
MCHashes == {h0, h1, h2}
MCIndexed == catalog :> h0 @@ updates :> h1 @@ archive :> h2 @@ draft :> NoHash
MCDocumentOf == h0 :> catalog @@ h1 :> updates @@ h2 :> archive
MCSeed == price :> v0

P(k, v, d) == [key |-> k, value |-> v, document |-> d]

(* Two rival replacements of each field, and one from the archive.          *)
RivalProposals ==
  {P(price, v1, updates), P(price, v2, updates),
   P(battery, v1, updates), P(battery, v2, updates), P(price, v0, archive)}

(* Two rival replacements of the core field, one change of the free field,  *)
(* and one that cites a document that is not indexed.                       *)
RaceProposals ==
  {P(price, v1, updates), P(price, v2, updates), P(battery, v1, updates),
   P(battery, v2, draft)}

(* One core field with two rivals.                                          *)
CoreRivals == {P(price, v1, updates), P(price, v2, updates)}
=============================================================================

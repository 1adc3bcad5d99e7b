-------------------------- MODULE MCGovernedIngestion --------------------------
(* A core field and a free field of a product; a catalog with three         *)
(* versions, of which the second states another price and a battery and the *)
(* third does not list the product; an upload; an archive.                  *)
EXTENDS GovernedIngestion, TLC

CONSTANTS t1, price, battery, v0, v1, v2,
          catalog, upload, archive, h0, h1, h2, h3, h4

MCKeys == {price, battery}
MCProtected == {price}
MCValues == {v0, v1, v2}
MCDocuments == {catalog, upload, archive}
MCHistorical == {archive}
MCManaged == {upload}
MCHashes == {h0, h1, h2, h3, h4}
MCDocumentOf == h0 :> catalog @@ h1 :> catalog @@ h2 :> upload @@ h3 :> archive
                  @@ h4 :> catalog
MCIndexed == catalog :> h0 @@ upload :> NoHash @@ archive :> h3
MCSeed == price :> v0
MCStated == h0 :> MCSeed @@ h1 :> (price :> v1 @@ battery :> v1)
              @@ [h \in {h2, h3, h4} |-> <<>>]
MCLists == [h \in MCHashes |-> IF h = h4 THEN {} ELSE MCKeys]

P(k, v, d) == [key |-> k, value |-> v, document |-> d]
MCProposals == {P(battery, v2, upload), P(price, v2, archive)}
=============================================================================

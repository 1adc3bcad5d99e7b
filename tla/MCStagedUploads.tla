--------------------------- MODULE MCStagedUploads ---------------------------
(* One core field; a CSV that states two values for it, one that ends in a  *)
(* product the catalog does not know, a note without a mapping, a sensitive *)
(* CSV, and a CSV with more rows than the limit, which is always refused.   *)
EXTENDS StagedUploads, TLC

CONSTANTS t1, t2, price, v0, v1, v2, catalog, d1, d2, d3, d4, d5,
          h0, csv, wrong, note, secret, long

MCKeys == {price}
MCValues == {v0, v1, v2}
MCDocuments == {catalog, d1, d2, d3, d4, d5}
MCUploads == {csv, wrong, note, secret, long}
MCHashes == {h0} \cup MCUploads
MCIndexed == [d \in MCDocuments |-> IF d = catalog THEN h0 ELSE NoHash]
MCDocumentOf ==
  h0 :> catalog @@ csv :> d1 @@ wrong :> d2 @@ note :> d3 @@ secret :> d4 @@ long :> d5
MCSeed == price :> v0

U(k, v) == [key |-> k, value |-> v]
File(kind, mapped, sensitive, rows) ==
  [kind |-> kind, format |-> TRUE, mapped |-> mapped, sensitive |-> sensitive, rows |-> rows]
MCContent ==
  csv :> File("csv", TRUE, FALSE, <<U(price, v1), U(price, v2)>>) @@
  wrong :> File("csv", TRUE, FALSE, <<U(price, v2), U(NoKey, v1)>>) @@
  note :> File("text", FALSE, FALSE, <<>>) @@
  secret :> File("csv", TRUE, TRUE, <<U(price, v1)>>) @@
  long :> File("csv", TRUE, FALSE, <<U(price, v1), U(price, v2), U(price, v1)>>)

(* Requests of the thread pool are alike.                                   *)
Alike == Permutations(Threads)

(* Overlapping reviews are the subject of the runs of FactReview: here at   *)
(* most one review runs beside the proposals of the other threads.          *)
OneReview ==
  Cardinality({t \in Threads : pc[t] # "idle" /\ ~Busy(t)}) <= 1
=============================================================================

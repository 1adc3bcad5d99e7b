---------------------------- MODULE MCMaintenance ----------------------------
(* One user with room for two sessions, one client, minutes of two ticks.   *)
EXTENDS Maintenance, TLC

CONSTANTS t1, t2, u1, c1, k1, k2, k3

MCCategories == {"login", "read"}
MCLimit == "login" :> 2 @@ "read" :> 1
Alike == Permutations({t1, t2}) \cup Permutations({k1, k2, k3})

(* The limits of the door are explored to their full in the first life of   *)
(* the server; once the operator does more, one session is enough to see    *)
(* what becomes of it.                                                      *)
OneThingAtATime ==
  \/ ops <= 1 /\ (Tables(db) => db.decisions = 0 /\ ~db.managed)
  \/ clock = 0 /\ Cardinality(issued) <= 1 /\ accepted[<<c1, "read">>][0] = 0
       /\ counts[Everyone] <= 1
=============================================================================

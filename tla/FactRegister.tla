----------------------------- MODULE FactRegister -----------------------------
(***************************************************************************)
(* What the review of product facts promises: each field of a product has  *)
(* one holder, the fact in force, and each change is decided in one step   *)
(* that also moves the holder.                                             *)
(***************************************************************************)
CONSTANTS
  Keys, Protected, Changes,
  NoFact,   \* no fact is in force
  Initial   \* the holder of each key at first

VARIABLES
  verdict,  \* the status of each change
  holder    \* the fact in force for each key, NoFact if there is none

rvars == <<verdict, holder>>

Start ==
  /\ verdict = [c \in Changes |-> "none"]
  /\ holder = Initial

(* Changes that nobody proposed before are put to review: one by an admin,  *)
(* any number together by a reindexing.                                     *)
Unproposed == {c \in Changes : verdict[c] = "none"}
Submit(some) ==
  /\ some \subseteq Unproposed
  /\ verdict' = [c \in Changes |-> IF c \in some THEN "pending" ELSE verdict[c]]
  /\ UNCHANGED holder

(* The change takes the field over, and the change it replaces is retired.  *)
Accept(c) ==
  /\ verdict[c] = "pending"
  /\ holder' = [holder EXCEPT ![c.key] = c]
  /\ verdict' = [d \in Changes |->
                   IF d = c THEN "approved"
                   ELSE IF d = holder[c.key] THEN "superseded" ELSE verdict[d]]

Decline(c) ==
  /\ verdict[c] = "pending"
  /\ verdict' = [verdict EXCEPT ![c] = "rejected"]
  /\ UNCHANGED holder

Withdraw(c) ==
  /\ holder[c.key] = c
  /\ c.key \notin Protected
  /\ verdict' = [verdict EXCEPT ![c] = "superseded"]
  /\ holder' = [holder EXCEPT ![c.key] = NoFact]

Decide ==
  \/ \E c \in Changes : Accept(c) \/ Decline(c) \/ Withdraw(c)
  \/ \E some \in SUBSET Unproposed : Submit(some)

Register == Start /\ [][Decide]_rvars
=============================================================================

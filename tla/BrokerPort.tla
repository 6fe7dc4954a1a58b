----------------------------- MODULE BrokerPort -----------------------------
(***************************************************************************)
(* What the order router may rely on when it calls place_order: the        *)
(* BrokerAdapter interface (app/brokers/base.py), with the meaning the     *)
(* three order statuses have for the customer's account.  How the order    *)
(* gets to a terminal and what is lost on the way is left to the           *)
(* implementation; Relay is one.                                           *)
(*                                                                         *)
(* An order is run at most once, possibly long after the call is over.  A  *)
(* market order is a deal when the terminal returns, or nothing; a limit   *)
(* order it took rests until the market reaches its price, and fills then, *)
(* whatever the caller was told.  "accepted" means the terminal took the   *)
(* order, an agent's "rejected" that it has been run, so no terminal takes *)
(* it later; "error" and an exception say nothing.                         *)
(***************************************************************************)
CONSTANT Calls

VARIABLES
    stage,      \* stage[r]: "idle", "out" or "over"
    outcome,    \* outcome[r]: what place_order returned or raised
    ran,        \* orders a terminal was asked to execute
    placed,     \* those of them the terminal took: deals, also partial ones,
                \* and pending orders
    traded      \* those of them that changed the position

portVars == <<stage, outcome, ran, placed, traded>>

Init ==
    /\ stage = [r \in Calls |-> "idle"]
    /\ outcome = [r \in Calls |-> "none"]
    /\ ran = {}
    /\ placed = {}
    /\ traded = {}

Over(r, o) ==
    /\ stage' = [stage EXCEPT ![r] = "over"]
    /\ outcome' = [outcome EXCEPT ![r] = o]
    /\ UNCHANGED <<ran, placed, traded>>

(* There is no agent to send to; the order is never run.                   *)
Refuse(r) == stage[r] = "idle" /\ Over(r, "offline")

Hand(r) ==
    /\ stage[r] = "idle"
    /\ stage' = [stage EXCEPT ![r] = "out"]
    /\ UNCHANGED <<outcome, ran, placed, traded>>

(* The exception leaves open whether the order got through.                *)
Raise(r) == stage[r] = "out" /\ Over(r, "failed")

(* An answer, or the end of the wait.                                      *)
Answer(r, status) ==
    /\ stage[r] = "out"
    /\ status \in {"accepted", "rejected", "error"}
    /\ status = "accepted" => r \in placed
    /\ status = "rejected" => r \in ran
    /\ Over(r, status)

(* A terminal runs the order, before or after the call is over, and takes  *)
(* it or not.                                                              *)
Execute(r, limit) ==
    /\ stage[r] # "idle" /\ outcome[r] # "offline"
    /\ r \notin ran
    /\ ran' = ran \cup {r}
    /\ \/ UNCHANGED <<placed, traded>>
       \/ /\ placed' = placed \cup {r}
          /\ traded' = IF limit THEN traded ELSE traded \cup {r}
    /\ UNCHANGED <<stage, outcome>>

(* The market reaches the price of a resting order.                        *)
Fill(r) ==
    /\ r \in placed \ traded
    /\ traded' = traded \cup {r}
    /\ UNCHANGED <<stage, outcome, ran, placed>>

(* The caller's process dies.                                              *)
Abandon ==
    /\ stage' = [r \in Calls |-> IF stage[r] = "out" THEN "over" ELSE stage[r]]
    /\ outcome' = [r \in Calls |->
                     IF stage[r] = "out" THEN "failed" ELSE outcome[r]]
    /\ UNCHANGED <<ran, placed, traded>>

Next ==
    \/ \E r \in Calls :
          \/ Refuse(r) \/ Hand(r) \/ Raise(r) \/ Fill(r)
          \/ \E limit \in BOOLEAN : Execute(r, limit)
          \/ \E status \in {"accepted", "rejected", "error"} : Answer(r, status)
    \/ Abandon

Spec == Init /\ [][Next]_portVars
=============================================================================

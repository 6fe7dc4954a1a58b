---------------------------- MODULE SignalLedger ----------------------------
(***************************************************************************)
(* What the signal pipeline promises about each (tenant, signal_id), with  *)
(* no deliveries, database or sockets in sight: a claim is taken at most   *)
(* once; a claimed signal is either refused, or ordered from the broker at *)
(* most once and then settled; nothing is ever undone.  A claim may also   *)
(* stay where it is for ever, because its handler died.  OrderRouter is    *)
(* shown to implement this specification.                                  *)
(***************************************************************************)
CONSTANTS
    Claims,     \* the (tenant, signal_id) pairs
    Orders      \* identities of the orders that may be handed to a broker

VARIABLES
    stage,      \* stage[c]: how far the signal has come
    orders      \* orders[c]: the orders handed to the broker for c

vars == <<stage, orders>>

Stages == {"open", "claimed", "refused", "ordered", "settled"}

TypeOK ==
    /\ stage \in [Claims -> Stages]
    /\ orders \in [Claims -> SUBSET Orders]

Init ==
    /\ stage = [c \in Claims |-> "open"]
    /\ orders = [c \in Claims |-> {}]

Claim(c) ==
    /\ stage[c] = "open"
    /\ stage' = [stage EXCEPT ![c] = "claimed"]
    /\ UNCHANGED orders

Refuse(c) ==
    /\ stage[c] = "claimed"
    /\ stage' = [stage EXCEPT ![c] = "refused"]
    /\ UNCHANGED orders

Order(c, o) ==
    /\ stage[c] = "claimed"
    /\ orders[c] = {}
    /\ stage' = [stage EXCEPT ![c] = "ordered"]
    /\ orders' = [orders EXCEPT ![c] = {o}]

(* "claimed" when the bridge was offline: an answer without an order.      *)
Settle(c) ==
    /\ stage[c] \in {"claimed", "ordered"}
    /\ stage' = [stage EXCEPT ![c] = "settled"]
    /\ UNCHANGED orders

Next ==
    \E c \in Claims :
        \/ Claim(c)
        \/ Refuse(c)
        \/ \E o \in Orders : Order(c, o)
        \/ Settle(c)

Spec == Init /\ [][Next]_vars
=============================================================================

------------------------------ MODULE MCRelay ------------------------------
(***************************************************************************)
(* Relay on a small instance: one customer whose agent process dials and   *)
(* dials again, and a second process started with the rotated token.       *)
(***************************************************************************)
EXTENDS Relay, TLC

CONSTANTS a1, a2, c1, c2, c3, r1, r2, t1

MCTenants == {t1}
MCAgents == {a1, a2}
MCOwner == [a \in MCAgents |-> t1]
MCKeyOf == a1 :> 0 @@ a2 :> 1
MCConns == {c1, c2, c3}
MCAgentOf == c1 :> a1 @@ c2 :> a1 @@ c3 :> a2
MCCalls == {r1, r2}
MCTenantOf == [r \in MCCalls |-> t1]

(* One limit order, or market orders only.                                 *)
MCLimit == {{r1}}
MCMarket == {{}}

MCOneAgent == {a1}
MCOneOwner == a1 :> t1
MCOneKey == a1 :> 0
MCOneCall == {r1}
MCOneTenantOf == r1 :> t1
MCTwoConns == {c1, c2}
MCTwoAgentOf == c1 :> a1 @@ c2 :> a1

Symmetry == Permutations(MCCalls) \cup Permutations(MCTwoConns)
=============================================================================

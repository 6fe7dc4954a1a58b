--------------------------- MODULE MCTenantStore ---------------------------
(***************************************************************************)
(* TenantStore on a small instance: one customer with a running            *)
(* subscription, room for signups, and requests of every kind, the refused *)
(* ones included.                                                          *)
(***************************************************************************)
EXTENDS TenantStore, TLC

CONSTANTS t1, t2, t3, q1, q2, q3

MCTenants == {t1, t2, t3}
MCRequests == {q1, q2, q3}
MCTwoRequests == {q1, q2}

MCTexts == {"eurusd", " "}
MCSymbols == {"EURUSD"}
MCUpper == "eurusd" :> "EURUSD" @@ " " :> ""

MCStart ==
    t1 :> [email |-> "a", key |-> 0, passphrase |-> 1, token |-> 2,
           mapped |-> {}, settings |-> DefaultSettings, killed |-> FALSE,
           expires |-> 1]
    @@ t2 :> NoTenant @@ t3 :> NoTenant

Of(op) ==
    [op |-> op, admin |-> TRUE, tenant |-> t1, key |-> 0, email |-> "b",
     days |-> 1, engaged |-> TRUE, texts |-> {"eurusd"},
     fields |-> {"maxQty"}, settings |-> [DefaultSettings EXCEPT !.maxQty = 0]]

(* One ask of each kind that is carried out ...                            *)
MCAsks ==
    {Of(op) : op \in Ops} \cup
    {[Of("kill_switch") EXCEPT !.engaged = FALSE],
     [Of("risk_settings") EXCEPT !.fields = {"maxLoss"},
                                !.settings.maxLoss = 0],
     [Of("script") EXCEPT !.email = "a"],
     [Of("signup") EXCEPT !.email = "a"],               \* registered already
     (* ... and those that are refused.                                    *)
     [Of("symbol_map") EXCEPT !.key = 9],
     [Of("reset") EXCEPT !.admin = FALSE],
     [Of("revoke") EXCEPT !.tenant = NoTenant],
     [Of("grant") EXCEPT !.days = 0]}

MCGrants == {Of("grant")}

Symmetry == Permutations(MCRequests)
=============================================================================

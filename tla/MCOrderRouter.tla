--------------------------- MODULE MCOrderRouter ---------------------------
(***************************************************************************)
(* OrderRouter on a small instance: a customer and a second one, an alert  *)
(* "x" that may be delivered several times, an alert whose signal_id is    *)
(* the key of the first one's result row, and alerts that are refused.     *)
(***************************************************************************)
EXTENDS OrderRouter, TLC

CONSTANTS d1, d2, d3, t1, t2

MCDeliveries == {d1, d2, d3}
MCTwoDeliveries == {d1, d2}
MCTenants == {t1, t2}
MCOneTenant == {t1}

MCTexts == {"eurusd", "gbpusd", " "}
MCSymbols == {"EURUSD", "GBPUSD"}
MCUpper == [x \in MCTexts |-> CASE x = "eurusd" -> "EURUSD"
                                [] x = "gbpusd" -> "GBPUSD"
                                [] x = " " -> ""]

MCSignalIds == {"x", "x:mt5"}
MCResultKey == [x |-> "x:mt5"] @@ ("x:mt5" :> "x:mt5:mt5")

Buy(id) == [id |-> id, symbol |-> "eurusd", action |-> "buy",
            quantity |-> 10, orderType |-> "market", price |-> 0]

BuyLimit(id) == [Buy(id) EXCEPT !.orderType = "limit", !.price = 1]

Alert(t, secret, signal) ==
    [hook |-> t, json |-> TRUE, secret |-> secret, signal |-> signal]

(* Retries of a priced limit order, another tenant's alert with the same   *)
(* id, the colliding id.                                                   *)
MCRequests == {Alert(t1, 0, BuyLimit("x")), Alert(t2, 0, Buy("x")),
               Alert(t1, 0, Buy("x:mt5"))}

MCOneTenantRequests == {r \in MCRequests : r.hook = t1}

(* One alert and its retry.                                                *)
MCRetries == {Alert(t1, 0, Buy("x"))}

OpenSettings == [allowed |-> {" "}, maxQty |-> 100, maxLoss |-> 0]
TightSettings == [allowed |-> {"gbpusd", " "}, maxQty |-> 0, maxLoss |-> 1]
MCSettingsChoices == {OpenSettings, TightSettings}

MCAccounts == {[expires |-> 1, killed |-> FALSE, settings |-> OpenSettings,
                mapped |-> {"EURUSD"}, passphrase |-> 0]}

(* Every early return of the webhook and of process_signal.                *)
X == Buy("x")
MCMixedRequests ==
    {Alert(t1, 0, X),
     Alert(t1, 1, X),                                 \* the next passphrase
     Alert(Nobody, 0, X),                             \* unknown webhook
     [Alert(t1, 0, X) EXCEPT !.json = FALSE],
     Alert(t1, 0, [X EXCEPT !.orderType = "limit"]),  \* no price
     Alert(t1, 0, [X EXCEPT !.action = "close_all"]),
     Alert(t1, 0, [X EXCEPT !.symbol = "gbpusd", !.action = "close_long",
                            !.quantity = 200])}

MCMixedAccounts ==
    MCAccounts \cup
    {[expires |-> Never, killed |-> FALSE, settings |-> DefaultSettings,
      mapped |-> {}, passphrase |-> 0],               \* a new signup
     [expires |-> 2, killed |-> TRUE, settings |-> TightSettings,
      mapped |-> MCSymbols, passphrase |-> 0]}

Symmetry == Permutations(MCDeliveries)
=============================================================================

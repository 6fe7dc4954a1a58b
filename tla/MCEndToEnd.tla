----------------------------- MODULE MCEndToEnd -----------------------------
(***************************************************************************)
(* EndToEnd on a small instance: the customer and the agent process of     *)
(* MCRelay, an alert for a limit order and two for market orders.  The two *)
(* deliveries are retries of one of the three, or both market alerts, and  *)
(* each may carry a passphrase that is not the customer's.                 *)
(***************************************************************************)
EXTENDS EndToEnd, MCRelay

CONSTANTS s1, s2, s3

MCTexts == {"eurusd"}
MCSymbols == {"EURUSD"}
MCUpper == [x \in MCTexts |-> "EURUSD"]
MCSignalIds == {s1, s2, s3}
MCResultKey == [id \in MCSignalIds |-> <<id, "mt5">>]

Alert(id, secret) ==
    [hook |-> t1, json |-> TRUE, secret |-> secret,
     signal |-> [id |-> id, symbol |-> "eurusd", action |-> "buy",
                 quantity |-> 10,
                 orderType |-> IF id = s1 THEN "limit" ELSE "market",
                 price |-> IF id = s1 THEN 1 ELSE 0]]

MCRequests == {Alert(id, secret) : id \in MCSignalIds, secret \in {0, 1}}

(* Limit orders only, or market orders only.                               *)
MCOneType == {{}, MCCalls}

EndSymmetry == Symmetry \cup Permutations({s2, s3})

MCSettings == [allowed |-> {}, maxQty |-> 100, maxLoss |-> 0]
MCSettingsChoices == {MCSettings}
MCAccounts == {[expires |-> 1, killed |-> FALSE, settings |-> MCSettings,
                mapped |-> {"EURUSD"}, passphrase |-> 0]}
=============================================================================

------------------------------ MODULE Pipeline ------------------------------
(***************************************************************************)
(* From the alert to the customer's account: OrderRouter with the broker   *)
(* behind it.  Every broker step of a delivery is also a step of its       *)
(* place_order call at BrokerPort, and a terminal may run an order that    *)
(* was sent, before or after the router has heard of it, and fill it when  *)
(* the market gets there.  EndToEnd, which has the relay and the agents in *)
(* the port's place, implements this module (EndToEndProofs).              *)
(***************************************************************************)
EXTENDS OrderRouter

VARIABLES stage, outcome, ran, placed, traded

Port == INSTANCE BrokerPort WITH Calls <- Deliveries

port == <<stage, outcome, ran, placed, traded>>
pipeVars == <<vars, port>>

PipeInit == Init /\ Port!Init

----------------------------------------------------------------------------
(* The steps of place_order, seen from both sides.                         *)
PlaceOrder(d) ==
    \/ Offline(d) /\ Port!Refuse(d)
    \/ Send(d) /\ Port!Hand(d)
    \/ Sent(d) /\ UNCHANGED port
    \/ SendRaises(d) /\ Port!Raise(d)
    \/ Reply(d) /\ Port!Answer(d, result'[d])
    \/ Timeout(d) /\ Port!Answer(d, "error")

IsLimit(d) == req[d].signal.orderType = "limit"

(* The terminal runs an order whose frame has left.                        *)
Execute(d) ==
    /\ d \in sent
    /\ Port!Execute(d, IsLimit(d))
    /\ UNCHANGED vars

(* A limit order it took fills.                                            *)
Fill(d) == Port!Fill(d) /\ UNCHANGED vars

(* What goes on without the broker.                                        *)
Beside ==
    \/ \E d \in Deliveries :
          \/ Load(d) \/ ReadBody(d) \/ Reserve(d) \/ Check(d) \/ Reject(d)
          \/ LogTrade(d) \/ Finalize(d) \/ Fail(d)
    \/ \E t \in Tenants : AccountRequest(t)
    \/ Tick

PipeNext ==
    \/ \E d \in Deliveries : PlaceOrder(d) \/ Execute(d) \/ Fill(d)
    \/ Beside /\ UNCHANGED port
    \/ Crash /\ Port!Abandon

PipeSpec == PipeInit /\ [][PipeNext]_pipeVars

----------------------------------------------------------------------------
(* However often an alert is retried, and whatever fails between the       *)
(* webhook and the terminal, at most one order of a signal is taken by a   *)
(* terminal, so at most one ever changes the position.                     *)
OneTradePerSignal ==
    \A d, e \in placed \cup traded :
        Hook(d) = Hook(e) /\ Id(d) = Id(e) => d = e

(* The trade list against the account: an order that traded, or rests, has *)
(* a row in it; a row marked accepted stands for an order the terminal     *)
(* took, and a market order among them for a trade; a signal the           *)
(* guardrails rejected is never run, also later; a broker rejection is of  *)
(* an order that was never handed over, or was run and will not be run     *)
(* again.                                                                  *)
LogMatchesAccount ==
    /\ \A d \in placed \cup traded : Claimed(d) /\ VisibleRows(d) # {}
    /\ \A t \in Tenants, k \in Keys :
          LET r == tradeLog[t][k] IN
          /\ r.status = "accepted" =>
                /\ r.by \in placed
                /\ r.by \in traded \/ IsLimit(r.by)
          /\ r.status = "rejected" =>
                IF IsClaim(t, k) THEN r.by \notin ran
                ELSE outcome[r.by] = "offline" \/ r.by \in ran

(* The results at which the router knows nothing of the order's fate.      *)
OpenResults == {"none", "error", "failed"}

(* Once the webhook was told accepted or rejected, or the router is about  *)
(* to say so, no terminal takes the order any more.  Only a limit order    *)
(* that a terminal has taken already still changes the position after such *)
(* an answer (agent.py answers when it is placed); a market order trades   *)
(* late only after an error or an exception.                               *)
OnlyPendingFillsLater ==
    [][/\ \A d \in placed' \ placed : result[d] \in OpenResults
       /\ \A d \in traded' \ traded :
             result[d] \notin OpenResults => d \in placed /\ IsLimit(d)]_pipeVars
=============================================================================

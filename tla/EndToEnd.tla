------------------------------ MODULE EndToEnd ------------------------------
(***************************************************************************)
(* The whole live path, from an alert at the webhook to the accounts at    *)
(* the terminals: the pipeline of OrderRouter with Relay in the place that *)
(* Pipeline gives to BrokerPort.  A delivery is the place_order call it    *)
(* makes; its await of broker.place_order (order_router.py) is the run of  *)
(* WSRelayBroker.place_order, so the two sides take those steps together,  *)
(* and a crash takes both.  Everything else goes on independently.         *)
(*                                                                         *)
(* Relay is extended; Pipe is the pipeline on the same calls, its port     *)
(* read off the relay's variables as in ImplementsPort, and it is          *)
(* instantiated with its proofs so that its theorems can be used here.     *)
(***************************************************************************)
EXTENDS Relay

CONSTANTS
    Texts, Symbols, Blank, Upper, SignalIds, ResultKey, Requests, Accounts,
    SettingsChoices, Nobody, MaxTime, MaxEdits, MaxFaults

VARIABLES
    now, row, tradeLog, req, pc, snap, sent, overtaken, edits, faults,
    answer      \* OrderRouter's result: the answer, then the response of d

Pipe == INSTANCE PipelineProofs WITH
    Deliveries <- Calls, result <- answer,
    stage <- [r \in Calls |->
                IF call[r] = "idle" THEN "idle"
                ELSE IF call[r] = "done" THEN "over" ELSE "out"],
    outcome <- result,
    ran <- {r \in Calls : runs[r] # <<>>},
    traded <- filled

(* What OrderRouter asks of its constants.                                 *)
ASSUME EndAssumption == Pipe!UpperAssumption /\ Pipe!RouterAssumption

router == <<now, row, tradeLog, req, pc, snap, answer, sent, overtaken, edits,
            faults>>
allVars == <<vars, router>>

(* The broker of a delivery is the one of the tenant whose webhook it hit  *)
(* (WSRelayBroker(manager, tenant.id)); an unknown webhook gets none.  Its *)
(* order type is the alert's (OrderRequest(order_type=signal.order_type)). *)
EndInit ==
    /\ Init
    /\ Pipe!Init
    /\ \A d \in Calls :
          /\ req[d].hook \in {TenantOf[d], Nobody}
          /\ d \in limits <=> Pipe!IsLimit(d)

(* The await of place_order.                                               *)
PlaceOrder(d) ==
    \/ Pipe!Offline(d) /\ Offline(d)
    \/ Pipe!Send(d) /\ Place(d)
    \/ Pipe!Sent(d) /\ Sent(d)
    \/ Pipe!SendRaises(d) /\ SendRaises(d)
    \/ Pipe!Reply(d) /\ Resume(d) /\ answer'[d] = result'[d]
    \/ Pipe!Timeout(d) /\ Timeout(d)

(* The agents, their links, the handlers of their sockets, their tokens,   *)
(* and the market.                                                         *)
Bridge ==
    \/ \E a \in Agents : Run(a)
    \/ \E c \in Conns : Break(c) \/ Serve(c)
    \/ \E t \in Tenants : RotateToken(t)
    \/ \E r \in Calls : Fill(r)

(* The one server process dies, with or without deliveries in it.          *)
ServerCrash ==
    /\ Crash
    /\ IF \E d \in Calls : Pipe!InFlight(d) THEN Pipe!Crash
                                            ELSE UNCHANGED router

EndNext ==
    \/ \E d \in Calls : PlaceOrder(d)
    \/ Pipe!Beside /\ UNCHANGED vars
    \/ Bridge /\ UNCHANGED router
    \/ ServerCrash

EndSpec == EndInit /\ [][EndNext]_allVars

----------------------------------------------------------------------------
(* The two sides of the await agree: the handler waits in place_order      *)
(* exactly while the call runs, neither is ever ahead of the other, and    *)
(* what the router believes it handed over is what the relay took.         *)
InStep ==
    \A d \in Calls :
        /\ pc[d] = "sending" <=> call[d] = "sending"
        /\ pc[d] = "waiting" <=> call[d] = "waiting"
        /\ pc[d] \in {"idle", "reading", "reserving", "checking", "rejecting",
                      "placing"} => call[d] = "idle"
        /\ pc[d] \in {"logging", "closing"} => call[d] = "done"
        /\ d \in sent <=> call[d] # "idle" /\ result[d] # "offline"

(* A customer's alert reaches his own account and no other: whatever a     *)
(* terminal runs is run once, by an agent with a token of the tenant whose *)
(* webhook the alert hit, and the alert carried that tenant's passphrase   *)
(* and was within the kill switch, symbols and limits of the row the       *)
(* delivery loaded, on which a subscription had been granted (that it had  *)
(* not run out by the clock is StaleOnlyIfOvertaken).                      *)
RunsAreAuthorised ==
    \A d \in Calls : \A i \in DOMAIN runs[d] :
        /\ i = 1
        /\ Owner[runs[d][i]] = req[d].hook
        /\ Pipe!PermittedBy(snap[d], d)

(* One alert, however often it is retried, puts one order on the account:  *)
(* at most one is taken by a terminal, so at most one is ever filled.      *)
OneFillPerSignal ==
    \A d, e \in placed \cup filled :
        req[d].hook = req[e].hook /\ req[d].signal.id = req[e].signal.id
            => d = e

(* The trade list and the account at the terminal, with sockets, agents    *)
(* and crashes in between: what was filled, or rests, is on the list; a    *)
(* row marked accepted is an order the terminal took, filled unless it is  *)
(* a limit order; a signal the guardrails rejected is never run; a broker  *)
(* rejection was never handed over, or has been run and will not be run    *)
(* again.                                                                  *)
ListMatchesTerminal ==
    /\ \A d \in placed \cup filled :
          Pipe!Claimed(d) /\ Pipe!VisibleRows(d) # {}
    /\ \A t \in Tenants, k \in Pipe!Keys :
          LET r == tradeLog[t][k] IN
          /\ r.status = "accepted" =>
                r.by \in placed /\ r.by \in filled \cup limits
          /\ r.status = "rejected" =>
                IF Pipe!IsClaim(t, k) THEN runs[r.by] = <<>>
                ELSE result[r.by] = "offline" \/ runs[r.by] # <<>>

(* No terminal takes an order after the webhook was told accepted or       *)
(* rejected, and only a limit order taken before that still fills.         *)
OnlyLimitsFillLater ==
    [][/\ \A d \in placed' \ placed : answer[d] \in Pipe!OpenResults
       /\ \A d \in filled' \ filled :
             answer[d] \notin Pipe!OpenResults =>
                 d \in placed \cap limits]_allVars
=============================================================================

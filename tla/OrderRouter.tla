---------------------------- MODULE OrderRouter ----------------------------
(***************************************************************************)
(* The webhook-to-broker pipeline of one server: tradingview_webhook       *)
(* (app/main.py), process_signal (app/services/order_router.py) and the    *)
(* trade_log operations of app/storage/repository.py.  Each delivery of an *)
(* alert is one HTTP request with its own database session; deliveries     *)
(* interleave at every await, with each other, with the requests by which  *)
(* customers and admins edit a tenant row, with database failures and with *)
(* a crash of the server.  A retried alert is another delivery carrying    *)
(* the same signal_id.                                                     *)
(*                                                                         *)
(* The bridge is external here: Offline, Send, Sent, SendRaises, Reply and *)
(* Timeout allow whatever place_order can return or raise.  Relay models   *)
(* what is behind it (EndToEnd puts it in place), TenantStore the requests *)
(* that edit a row.                                                        *)
(***************************************************************************)
EXTENDS RiskManager

CONSTANTS
    Deliveries,     \* HTTP requests to the webhook, retries included
    Tenants,
    SignalIds,      \* signal_ids that alerts carry
    ResultKey,      \* ResultKey[x] is the key "x:mt5"
    Requests,       \* what a delivery may ask: webhook, passphrase, signal
    Accounts,       \* tenant rows the system may start from
    SettingsChoices,\* risk_settings a customer may save
    Nobody,         \* no delivery; an unknown webhook
    MaxTime,        \* bound on the clock
    MaxEdits,       \* bound on account requests
    MaxFaults       \* bound on failed database calls and crashes

TenantRows == [expires : Int, killed : BOOLEAN, settings : Settings,
               mapped : SUBSET (Symbols \cup {Blank}), passphrase : Nat]

Signals == [id : SignalIds, symbol : Texts, action : STRING, quantity : Int,
            orderType : {"market", "limit"}, price : Int]

ASSUME RouterAssumption ==
    /\ Nobody \notin Deliveries \cup Tenants
    /\ \A x, y \in SignalIds : ResultKey[x] = ResultKey[y] => x = y
    /\ \A x \in SignalIds : ResultKey[x] # x
    /\ Requests \subseteq [hook : Tenants \cup {Nobody}, json : BOOLEAN,
                           secret : Nat, signal : Signals]
    /\ Accounts \subseteq TenantRows
    /\ SettingsChoices \subseteq Settings
    /\ MaxTime \in Nat /\ MaxEdits \in Nat /\ MaxFaults \in Nat

Keys == SignalIds \cup {ResultKey[x] : x \in SignalIds}

(* trade_log.status; "absent" stands for a row that does not exist.        *)
RowStatuses == {"absent", "received", "dispatched",
                "accepted", "rejected", "error"}
LogRows == [by : Deliveries \cup {Nobody}, status : RowStatuses]
NoRow == [by |-> Nobody, status |-> "absent"]

(* Where a handler stands: the await it is about to perform.               *)
Stations == {"idle", "reading", "reserving", "checking", "rejecting",
             "placing", "sending", "waiting", "logging", "closing", "done"}

BrokerStatuses == {"accepted", "rejected", "error"}
Results == BrokerStatuses \cup {"none", "refused", "duplicate", "failed"}

VARIABLES
    now,        \* utcnow, in days
    row,        \* row[t]: the tenant's row
    tradeLog,   \* tradeLog[t][k]: the trade_log row with that unique key
    req,        \* req[d]: the request that d carries
    pc,         \* pc[d]: the handler's station
    snap,       \* snap[d]: the Tenant object loaded by d's session
    result,     \* result[d]: the broker's answer, then the response of d
    sent,       \* deliveries whose order was written to the agent's socket
    overtaken,  \* history: deliveries in flight when their row changed, or
                \* their subscription ran out
    edits,      \* account requests so far
    faults      \* failed database calls and crashes so far

vars == <<now, row, tradeLog, req, pc, snap, result, sent, overtaken, edits,
          faults>>
account == <<now, row, overtaken, edits>>

----------------------------------------------------------------------------
Hook(d) == req[d].hook
Id(d) == req[d].signal.id
Log(d) == tradeLog[Hook(d)]

Free(t, k) == tradeLog[t][k] = NoRow

(* The row of t at key k is the reservation of a delivery of signal k.     *)
IsClaim(t, k) == tradeLog[t][k] # NoRow /\ Id(tradeLog[t][k].by) = k

InFlight(d) == pc[d] \notin {"idle", "done"}

(* list_trades hides the rows whose status is "dispatched".                *)
Visible(t) == {k \in Keys : tradeLog[t][k].status \notin
                              {"absent", "dispatched"}}
VisibleRows(d) == {k \in Visible(Hook(d)) : Log(d)[k].by = d}

(* get_today_realized_pnl: no code writes realized_pnl, so the sum is 0.   *)
RealizedPnl == 0

Init ==
    /\ now = 0
    /\ row \in [Tenants -> Accounts]
    /\ tradeLog = [t \in Tenants |-> [k \in Keys |-> NoRow]]
    /\ req \in [Deliveries -> Requests]
    /\ pc = [d \in Deliveries |-> "idle"]
    /\ snap = [d \in Deliveries |->
                 [expires |-> Never, killed |-> FALSE,
                  settings |-> DefaultSettings, mapped |-> {},
                  passphrase |-> 0]]
    /\ result = [d \in Deliveries |-> "none"]
    /\ sent = {}
    /\ overtaken = {}
    /\ edits = 0
    /\ faults = 0

----------------------------------------------------------------------------
Goto(d, station) == pc' = [pc EXCEPT ![d] = station]

Answer(d, r) ==
    /\ Goto(d, "done")
    /\ result' = [result EXCEPT ![d] = r]

(* The handler starts by loading the tenant; the object is never refreshed *)
(* within the request (expire_on_commit=False).                            *)
Load(d) ==
    /\ pc[d] = "idle"
    /\ IF Hook(d) = Nobody
       THEN Answer(d, "refused") /\ UNCHANGED snap
       ELSE /\ Goto(d, "reading")
            /\ snap' = [snap EXCEPT ![d] = row[Hook(d)]]
            /\ UNCHANGED result
    /\ UNCHANGED <<account, tradeLog, req, sent, faults>>

(* Variant: a rotated passphrase goes on being accepted.                   *)
AuthorisedByOldSecret(d) ==
    /\ req[d].json
    /\ req[d].secret <= snap[d].passphrase
    /\ ValidSignal(req[d].signal)

(* The passphrase is compared with the loaded object's.                    *)
Authorised(d) ==
    /\ req[d].json
    /\ req[d].secret = snap[d].passphrase
    /\ ValidSignal(req[d].signal)

ReadBody(d) ==
    /\ pc[d] = "reading"
    /\ IF Authorised(d)
       THEN Goto(d, "reserving") /\ UNCHANGED result
       ELSE Answer(d, "refused")
    /\ UNCHANGED <<account, tradeLog, req, snap, sent, faults>>

Insert(t, k, d, status) ==
    tradeLog' = [tradeLog EXCEPT ![t][k] = [by |-> d, status |-> status]]

(* Variant: no unique constraint, every delivery gets its reservation.     *)
ReserveUnconstrained(d) ==
    /\ pc[d] = "reserving"
    /\ Insert(Hook(d), Id(d), d, "received")
    /\ Goto(d, "checking")
    /\ UNCHANGED <<account, req, snap, result, sent, faults>>

(* Variant: a retry takes over a reservation that was never finalized.     *)
ReserveTakesOver(d) ==
    /\ pc[d] = "reserving"
    /\ IF Free(Hook(d), Id(d)) \/ Log(d)[Id(d)].status = "received"
       THEN /\ Insert(Hook(d), Id(d), d, "received")
            /\ Goto(d, "checking")
            /\ UNCHANGED result
       ELSE Answer(d, "duplicate") /\ UNCHANGED tradeLog
    /\ UNCHANGED <<account, req, snap, sent, faults>>

(* try_reserve_signal: the unique constraint decides who claims the key.   *)
Reserve(d) ==
    /\ pc[d] = "reserving"
    /\ IF Free(Hook(d), Id(d))
       THEN /\ Insert(Hook(d), Id(d), d, "received")
            /\ Goto(d, "checking")
            /\ UNCHANGED result
       ELSE Answer(d, "duplicate") /\ UNCHANGED tradeLog
    /\ UNCHANGED <<account, req, snap, sent, faults>>

(* check_risk on the loaded object, the symbol map, the order side.        *)
Admits(tenant, signal) ==
    /\ CheckRisk(tenant, signal, now, RealizedPnl) = "allowed"
    /\ SymbolOf(signal) \in tenant.mapped
    /\ SideOf(signal) # "none"

Check(d) ==
    /\ pc[d] = "checking"
    /\ Goto(d, IF Admits(snap[d], req[d].signal) THEN "placing"
                                                 ELSE "rejecting")
    /\ UNCHANGED <<account, tradeLog, req, snap, result, sent, faults>>

(* finalize_signal_log writes to the row that d reserved.                  *)
SetReservation(d, status) ==
    tradeLog' = [tradeLog EXCEPT ![Hook(d)][Id(d)].status = status]

Reject(d) ==
    /\ pc[d] = "rejecting"
    /\ SetReservation(d, "rejected")
    /\ Answer(d, "rejected")
    /\ UNCHANGED <<account, req, snap, sent, faults>>

(* No agent is registered: place_order answers without sending.            *)
Offline(d) ==
    /\ pc[d] = "placing"
    /\ Goto(d, "logging")
    /\ result' = [result EXCEPT ![d] = "rejected"]
    /\ UNCHANGED <<account, tradeLog, req, snap, sent, faults>>

(* The frame is written to the agent's socket; send_json then waits for   *)
(* the transport.                                                          *)
Send(d) ==
    /\ pc[d] = "placing"
    /\ sent' = sent \cup {d}
    /\ Goto(d, "sending")
    /\ UNCHANGED <<account, tradeLog, req, snap, result, faults>>

Sent(d) ==
    /\ pc[d] = "sending"
    /\ Goto(d, "waiting")
    /\ UNCHANGED <<account, tradeLog, req, snap, result, sent, faults>>

(* send_json raises on a closing socket: neither place_order nor           *)
(* process_signal catches it, and the frame may have left all the same.    *)
SendRaises(d) ==
    /\ pc[d] = "sending"
    /\ Answer(d, "failed")
    /\ UNCHANGED <<account, tradeLog, req, snap, sent, faults>>

(* The agent's answer, through the status map; an unknown one is "error".  *)
Reply(d) ==
    /\ pc[d] = "waiting"
    /\ \E status \in BrokerStatuses :
          result' = [result EXCEPT ![d] = status]
    /\ Goto(d, "logging")
    /\ UNCHANGED <<account, tradeLog, req, snap, sent, faults>>

(* Variant: a timeout closes the signal as rejected.                       *)
TimeoutRejects(d) ==
    /\ pc[d] = "waiting"
    /\ Goto(d, "rejecting")
    /\ UNCHANGED <<account, tradeLog, req, snap, result, sent, faults>>

(* Variant: the timeout is noticed but no answer is made of it.            *)
TimeoutUnanswered(d) ==
    /\ pc[d] = "waiting"
    /\ Goto(d, "logging")
    /\ UNCHANGED <<account, tradeLog, req, snap, result, sent, faults>>

(* Variant: the future is awaited without a deadline.                      *)
TimeoutNever(d) == FALSE

(* wait_for gives up: the answer is "error", whatever the agent does later. *)
Timeout(d) ==
    /\ pc[d] = "waiting"
    /\ result' = [result EXCEPT ![d] = "error"]
    /\ Goto(d, "logging")
    /\ UNCHANGED <<account, tradeLog, req, snap, sent, faults>>

(* Variant: a conflict on the result row is swallowed.                     *)
LogTradeSwallows(d) ==
    /\ pc[d] = "logging"
    /\ IF Free(Hook(d), ResultKey[Id(d)])
       THEN Insert(Hook(d), ResultKey[Id(d)], d, result[d])
       ELSE UNCHANGED tradeLog
    /\ Goto(d, "closing")
    /\ UNCHANGED <<account, req, snap, result, sent, faults>>

(* log_trade inserts under the same unique constraint as the reservations; *)
(* nothing catches the IntegrityError.                                     *)
LogTrade(d) ==
    /\ pc[d] = "logging"
    /\ IF Free(Hook(d), ResultKey[Id(d)])
       THEN /\ Insert(Hook(d), ResultKey[Id(d)], d, result[d])
            /\ Goto(d, "closing")
            /\ UNCHANGED result
       ELSE Answer(d, "failed") /\ UNCHANGED tradeLog
    /\ UNCHANGED <<account, req, snap, sent, faults>>

(* Variant: the reservation is finalized with the broker's status.         *)
FinalizeWithResult(d) ==
    /\ pc[d] = "closing"
    /\ SetReservation(d, result[d])
    /\ Goto(d, "done")
    /\ UNCHANGED <<account, req, snap, result, sent, faults>>

Finalize(d) ==
    /\ pc[d] = "closing"
    /\ SetReservation(d, "dispatched")
    /\ Goto(d, "done")
    /\ UNCHANGED <<account, req, snap, result, sent, faults>>

(* A database call raises: the handler ends with a 500.  At "checking" and *)
(* "closing" that includes the refresh after the commit just made.  A body *)
(* that cannot be read is a 400, and place_order makes no database call.   *)
Fail(d) ==
    /\ pc[d] \in {"idle", "reserving", "checking", "rejecting", "logging",
                  "closing"}
    /\ faults < MaxFaults
    /\ faults' = faults + 1
    /\ Answer(d, "failed")
    /\ UNCHANGED <<account, tradeLog, req, snap, sent>>

(* The process dies with every handler in it; the database survives.       *)
Crash ==
    /\ faults < MaxFaults
    /\ faults' = faults + 1
    /\ \E d \in Deliveries : InFlight(d)
    /\ pc' = [d \in Deliveries |-> IF InFlight(d) THEN "done" ELSE pc[d]]
    /\ result' = [d \in Deliveries |->
                    IF InFlight(d) THEN "failed" ELSE result[d]]
    /\ UNCHANGED <<account, tradeLog, req, snap, sent>>

----------------------------------------------------------------------------
(* An account request commits one column of the row (an ORM UPDATE writes  *)
(* only what changed).  Deliveries already in flight keep what they loaded. *)
Edit(t, newRow) ==
    /\ edits < MaxEdits
    /\ edits' = edits + 1
    /\ newRow # row[t]
    /\ row' = [row EXCEPT ![t] = newRow]
    /\ overtaken' = overtaken \cup
                      {d \in Deliveries : InFlight(d) /\ Hook(d) = t}
    /\ UNCHANGED <<now, tradeLog, req, pc, snap, result, sent, faults>>

SetKillSwitch(t) ==
    \E engaged \in BOOLEAN : Edit(t, [row[t] EXCEPT !.killed = engaged])

GrantSubscription(t) ==
    Edit(t, [row[t] EXCEPT !.expires = ExtendedExpiry(row[t], now, 1)])

RevokeSubscription(t) == Edit(t, [row[t] EXCEPT !.expires = now])

UpdateRiskSettings(t) ==
    \E s \in SettingsChoices : Edit(t, [row[t] EXCEPT !.settings = s])

UpdateSymbolMap(t) ==
    \E m \in SUBSET (Symbols \cup {Blank}) :
        Edit(t, [row[t] EXCEPT !.mapped = m])

(* A fresh secret: the next number, never used before.                     *)
RegeneratePassphrase(t) ==
    Edit(t, [row[t] EXCEPT !.passphrase = row[t].passphrase + 1])

(* A day passes, and with it some subscriptions.                           *)
RunsOut(t) ==
    ~SubscriptionLapsed(row[t], now) /\ SubscriptionLapsed(row[t], now + 1)

Tick ==
    /\ now < MaxTime
    /\ now' = now + 1
    /\ overtaken' = overtaken \cup
                      {d \in Deliveries : InFlight(d) /\ RunsOut(Hook(d))}
    /\ UNCHANGED <<row, tradeLog, req, pc, snap, result, sent, edits, faults>>

----------------------------------------------------------------------------
(* What the server does by itself once the body is read.                   *)
Progress(d) ==
    \/ Reserve(d) \/ Check(d) \/ Reject(d) \/ Offline(d) \/ Send(d)
    \/ Sent(d) \/ SendRaises(d) \/ Timeout(d) \/ LogTrade(d) \/ Finalize(d)

Handle(d) == Load(d) \/ ReadBody(d) \/ Reply(d) \/ Progress(d) \/ Fail(d)

AccountRequest(t) ==
    \/ SetKillSwitch(t) \/ GrantSubscription(t) \/ RevokeSubscription(t)
    \/ UpdateRiskSettings(t) \/ UpdateSymbolMap(t) \/ RegeneratePassphrase(t)

Next ==
    \/ \E d \in Deliveries : Handle(d)
    \/ \E t \in Tenants : AccountRequest(t)
    \/ Crash
    \/ Tick

Spec == Init /\ [][Next]_vars

(* The event loop runs every handler that can run, the database answers or *)
(* fails, and wait_for bounds the broker's answer.  Nobody promises that a *)
(* delivery arrives, that its body does, or that the agent replies.        *)
FairSpec == Spec /\ \A d \in Deliveries : WF_vars(Progress(d))

----------------------------------------------------------------------------
(* Type invariant.  A handler past Load has a known tenant, and one past   *)
(* the broker call has a broker status.                                    *)
TypeOK ==
    /\ now \in Nat
    /\ row \in [Tenants -> TenantRows]
    /\ tradeLog \in [Tenants -> [Keys -> LogRows]]
    /\ req \in [Deliveries -> Requests]
    /\ pc \in [Deliveries -> Stations]
    /\ snap \in [Deliveries -> TenantRows]
    /\ result \in [Deliveries -> Results]
    /\ sent \subseteq Deliveries
    /\ overtaken \subseteq Deliveries
    /\ edits \in Nat
    /\ faults \in Nat
    /\ \A d \in Deliveries : InFlight(d) => Hook(d) \in Tenants
    /\ \A d \in Deliveries :
          pc[d] \in {"logging", "closing"} => result[d] \in BrokerStatuses

(* At most one order per (tenant, signal_id) is ever handed to the bridge, *)
(* however often the alert is retried, whatever fails, and across crashes: *)
(* what try_reserve_signal before the broker call is for.                  *)
AtMostOneOrder ==
    \A d, e \in sent :
        Hook(d) = Hook(e) /\ Id(d) = Id(e) => d = e

Claimed(d) ==
    /\ Hook(d) \in Tenants
    /\ Log(d)[Id(d)].by = d

(* A claimed signal always has a row that GET /me/trades shows: hiding the *)
(* "dispatched" rows (list_trades) never hides a signal altogether, also   *)
(* not between two commits or after a crash there.                         *)
ClaimStaysVisible ==
    \A d \in Deliveries : Claimed(d) => VisibleRows(d) # {}

(* Whoever got a broker or guardrail answer finds exactly that answer in   *)
(* the trade list, on one row.                                             *)
AnswerIsLogged ==
    \A d \in Deliveries :
        pc[d] = "done" /\ result[d] \in BrokerStatuses =>
            \E k \in Keys : /\ VisibleRows(d) = {k}
                           /\ Log(d)[k].status = result[d]

(* The log tells the truth about the broker: a reservation marked rejected *)
(* was never sent, a row marked accepted was.                              *)
LogIsTruthful ==
    \A t \in Tenants, k \in Keys :
        LET r == tradeLog[t][k] IN
        /\ r.status = "rejected" /\ IsClaim(t, k) => r.by \notin sent
        /\ r.status = "accepted" => r.by \in sent

(* list_trades: "process_signal writes two rows per signal that reaches a  *)
(* broker call", the reservation and the broker's answer.                  *)
TwoRowsPerBrokerCall ==
    \A d \in sent : pc[d] = "done" =>
        {k \in Keys : Log(d)[k].by = d} = {Id(d), ResultKey[Id(d)]}

(* "Duplicate signal_id" is only said when another delivery of the same    *)
(* signal holds the claim (the docstring of try_reserve_signal).           *)
DuplicateIsGenuine ==
    \A d \in Deliveries : result[d] = "duplicate" =>
        \E e \in Deliveries \ {d} : Hook(e) = Hook(d) /\ Claimed(e)
                                  /\ Id(e) = Id(d)

(* What a row must say for the order of d: a subscription was granted (if  *)
(* it has run out by now is SubscriptionLapsed), no kill switch, symbol,   *)
(* quantity and symbol map allow it, and the passphrase is the row's.      *)
PermittedBy(tenant, d) ==
    /\ tenant.expires # Never
    /\ ~tenant.killed
    /\ ~SymbolBarred(tenant.settings, req[d].signal)
    /\ ~QuantityExceeded(tenant.settings, req[d].signal)
    /\ SymbolOf(req[d].signal) \in tenant.mapped
    /\ tenant.passphrase = req[d].secret

(* An order goes out against the current row of its tenant (kill switch,   *)
(* symbol map, risk settings, passphrase), or with his subscription run    *)
(* out by the clock, only if the row changed or the subscription ran out   *)
(* while the delivery was already in flight: the loaded object of the      *)
(* request is the only stale copy there is.                                *)
StaleOnlyIfOvertaken ==
    [][\A d \in sent' \ sent :
          \/ d \in overtaken
          \/ /\ PermittedBy(row[Hook(d)], d)
             /\ ~SubscriptionLapsed(row[Hook(d)], now)]_vars

(* README, "The kill switch takes effect immediately": no order is handed  *)
(* to the bridge while the tenant's row says killed.                       *)
KillSwitchImmediate ==
    [][\A d \in sent' \ sent : ~row[Hook(d)].killed]_vars

(* A claimed signal's handler ends: no path of process_signal waits for    *)
(* something that may never come.                                          *)
HandlerEnds ==
    \A d \in Deliveries : pc[d] = "reserving" ~> pc[d] = "done"

----------------------------------------------------------------------------
(* The abstract ledger: the stage of a signal, read off the trade log.     *)
StageOf(t, k) ==
    LET r == tradeLog[t][k] IN
    IF ~IsClaim(t, k) THEN "open"
    ELSE IF r.status = "rejected" THEN "refused"
    ELSE IF r.status = "dispatched" THEN "settled"
    ELSE IF r.by \in sent THEN "ordered"
    ELSE "claimed"

LedgerStage == [c \in Tenants \X SignalIds |-> StageOf(c[1], c[2])]

LedgerOrders ==
    [c \in Tenants \X SignalIds |->
        {d \in sent : Hook(d) = c[1] /\ Id(d) = c[2]}]

Ledger == INSTANCE SignalLedger WITH
    Claims <- Tenants \X SignalIds, Orders <- Deliveries,
    stage <- LedgerStage, orders <- LedgerOrders

(* The pipeline implements SignalLedger.                                   *)
ImplementsLedger == Ledger!Spec
=============================================================================

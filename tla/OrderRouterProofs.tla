------------------------- MODULE OrderRouterProofs -------------------------
(***************************************************************************)
(* Proofs about OrderRouter, for every set of deliveries, tenants, signal  *)
(* ids, requests and accounts, with any key collisions and any number of   *)
(* faults, edits and ticks.                                                *)
(*                                                                         *)
(* The argument: a delivery past Reserve owns the reservation of its       *)
(* signal (HandlerInv), and no step takes a row from the delivery that     *)
(* inserted it (OthersKept), because rows are inserted at free keys only   *)
(* and updated by their owner only.  What is sent is therefore owned, and  *)
(* two deliveries cannot own the same row.                                 *)
(***************************************************************************)
EXTENDS OrderRouter, TLAPS

ClaimRow(d) == Log(d)[Id(d)]
ResultRow(d) == Log(d)[ResultKey[Id(d)]]

PastReserve == {"checking", "rejecting", "placing", "sending", "waiting",
                "logging", "closing"}

Holds(r, d, status) == r.by = d /\ r.status = status

(* What the trade log holds for a handler at a station, with an answer,    *)
(* that has or has not handed over its order.                              *)
HandlerAt(d, station, answer, handedOver) ==
    /\ station \in {"idle", "reading", "reserving"} =>
          \A t \in Tenants, k \in Keys : tradeLog[t][k].by # d
    /\ station \in PastReserve => Holds(ClaimRow(d), d, "received")
    /\ station \in PastReserve \ {"closing"} => ResultRow(d).by # d
    /\ station = "closing" => Holds(ResultRow(d), d, answer)
    /\ station = "done" /\ answer \in BrokerStatuses =>
          /\ Hook(d) \in Tenants
          /\ \/ /\ Holds(ClaimRow(d), d, "rejected")
                /\ answer = "rejected"
                /\ ResultRow(d).by # d
             \/ /\ Holds(ClaimRow(d), d, "dispatched")
                /\ Holds(ResultRow(d), d, answer)
    /\ handedOver =>
          /\ Claimed(d)
          /\ station \in {"sending", "waiting", "logging", "closing", "done"}
    /\ station \in {"sending", "waiting"} \/ answer = "accepted" => handedOver

HandlerInv(d) == HandlerAt(d, pc[d], result[d], d \in sent)

(* Every row is the reservation or the result row of the delivery that     *)
(* inserted it.                                                            *)
ReservationInv(d, status) ==
    /\ status \in {"received", "rejected", "dispatched"}
    /\ status = "rejected" => pc[d] = "done" /\ d \notin sent
    /\ status = "dispatched" => ResultRow(d).by = d

ResultInv(d, status) ==
    /\ status \in BrokerStatuses
    /\ status = "accepted" => d \in sent

RowInv(t, k) ==
    tradeLog[t][k] # NoRow =>
        \E d \in Deliveries :
            /\ tradeLog[t][k].by = d
            /\ Hook(d) = t
            /\ \/ k = Id(d) /\ ReservationInv(d, tradeLog[t][k].status)
               \/ k = ResultKey[Id(d)] /\ ResultInv(d, tradeLog[t][k].status)

IInv ==
    /\ TypeOK
    /\ \A d \in Deliveries : HandlerInv(d)
    /\ \A t \in Tenants, k \in Keys : RowInv(t, k)

----------------------------------------------------------------------------
LEMMA KeyTypes ==
    ASSUME TypeOK, NEW d \in Deliveries
    PROVE  /\ Id(d) \in SignalIds
           /\ Id(d) \in Keys
           /\ ResultKey[Id(d)] \in Keys
           /\ req[d].signal \in Signals
           /\ Hook(d) \in Tenants \cup {Nobody}
BY RouterAssumption DEF TypeOK, Id, Hook, Keys, Signals

(* The initial rows and handlers have the right types.                     *)
LEMMA InitTypeOK == Init => TypeOK
<1> SUFFICES ASSUME Init PROVE TypeOK
  OBVIOUS
<1>1. row \in [Tenants -> TenantRows]
  BY RouterAssumption DEF Init
<1>2. tradeLog \in [Tenants -> [Keys -> LogRows]]
  BY DEF Init, LogRows, NoRow, RowStatuses
<1>3. snap \in [Deliveries -> TenantRows]
  BY DEF Init, TenantRows, Settings, DefaultSettings, Never
<1>4. pc \in [Deliveries -> Stations] /\ result \in [Deliveries -> Results]
  BY DEF Init, Stations, Results
<1>5. \A d \in Deliveries : ~InFlight(d)
  BY DEF Init, InFlight
<1> QED
  BY <1>1, <1>2, <1>3, <1>4, <1>5 DEF Init, TypeOK

(* The row a new or edited account has, and the two ways of writing rows.  *)
LEMMA InsertTyped ==
    ASSUME TypeOK, NEW t \in Tenants, NEW k \in Keys, NEW d \in Deliveries,
           NEW status \in RowStatuses, Insert(t, k, d, status)
    PROVE  tradeLog' \in [Tenants -> [Keys -> LogRows]]
BY DEF TypeOK, Insert, LogRows

LEMMA SetReservationTyped ==
    ASSUME TypeOK, NEW d \in Deliveries, Hook(d) \in Tenants,
           NEW status \in RowStatuses, SetReservation(d, status)
    PROVE  tradeLog' \in [Tenants -> [Keys -> LogRows]]
<1>1. Id(d) \in Keys
  BY KeyTypes
<1>2. [tradeLog[Hook(d)][Id(d)] EXCEPT !.status = status] \in LogRows
  BY <1>1 DEF TypeOK, LogRows
<1> QED
  BY <1>1, <1>2 DEF TypeOK, SetReservation

(* An account request leaves a well-typed row behind.                      *)
LEMMA EditTyped ==
    ASSUME TypeOK, NEW t \in Tenants, AccountRequest(t)
    PROVE  TypeOK'
<1>1. \A newRow \in TenantRows : Edit(t, newRow) => TypeOK'
  BY DEF TypeOK, Edit, InFlight, Hook
<1>2. row[t] \in TenantRows
  BY DEF TypeOK
<1>3. ASSUME SetKillSwitch(t) PROVE TypeOK'
  <2>1. \A b \in BOOLEAN : [row[t] EXCEPT !.killed = b] \in TenantRows
    BY <1>2 DEF TenantRows
  <2> QED
    BY <1>1, <1>3, <2>1 DEF SetKillSwitch
<1>4. ASSUME GrantSubscription(t) PROVE TypeOK'
  <2>1. ExtendedExpiry(row[t], now, 1) \in Int
    BY <1>2 DEF ExtendedExpiry, TenantRows, TypeOK
  <2>2. [row[t] EXCEPT !.expires = ExtendedExpiry(row[t], now, 1)]
           \in TenantRows
    BY <1>2, <2>1 DEF TenantRows
  <2> QED
    BY <1>1, <1>4, <2>2 DEF GrantSubscription
<1>5. ASSUME RevokeSubscription(t) PROVE TypeOK'
  <2>1. now \in Int
    BY DEF TypeOK
  <2>2. [row[t] EXCEPT !.expires = now] \in TenantRows
    BY <1>2, <2>1 DEF TenantRows
  <2> QED
    BY <1>1, <1>5, <2>2 DEF RevokeSubscription
<1>6. ASSUME UpdateRiskSettings(t) PROVE TypeOK'
  <2>1. \A s \in SettingsChoices :
           [row[t] EXCEPT !.settings = s] \in TenantRows
    BY <1>2, RouterAssumption DEF TenantRows
  <2> QED
    BY <1>1, <1>6, <2>1 DEF UpdateRiskSettings
<1>7. ASSUME UpdateSymbolMap(t) PROVE TypeOK'
  <2>1. \A m \in SUBSET (Symbols \cup {Blank}) :
           [row[t] EXCEPT !.mapped = m] \in TenantRows
    BY <1>2 DEF TenantRows
  <2> QED
    BY <1>1, <1>7, <2>1 DEF UpdateSymbolMap
<1>8. ASSUME RegeneratePassphrase(t) PROVE TypeOK'
  <2>1. [row[t] EXCEPT !.passphrase = row[t].passphrase + 1] \in TenantRows
    BY <1>2 DEF TenantRows
  <2> QED
    BY <1>1, <1>8, <2>1 DEF RegeneratePassphrase
<1> QED
  BY <1>3, <1>4, <1>5, <1>6, <1>7, <1>8 DEF AccountRequest

LEMMA StepTypeOK == TypeOK /\ [Next]_vars => TypeOK'
<1> SUFFICES ASSUME TypeOK, [Next]_vars PROVE TypeOK'
  OBVIOUS
<1>1. ASSUME NEW d \in Deliveries, Handle(d) PROVE TypeOK'
  <2> USE <1>1
  <2>1. CASE Load(d)
    <3>1. CASE Hook(d) = Nobody
      BY <2>1, <3>1 DEF Load, Answer, Goto, account, TypeOK, InFlight,
                        Hook, Stations, Results
    <3>2. CASE Hook(d) # Nobody
      <4>1. Hook(d) \in Tenants
        BY <3>2, KeyTypes
      <4> QED
        BY <2>1, <3>2, <4>1 DEF Load, Goto, account, TypeOK, InFlight,
                                Hook, Stations
    <3> QED
      BY <3>1, <3>2
  <2>2. CASE ReadBody(d)
    BY <2>2 DEF ReadBody, Answer, Goto, account, TypeOK, InFlight, Hook,
                Stations, Results
  <2>3. CASE Reserve(d)
    <3>1. Hook(d) \in Tenants
      BY <2>3 DEF Reserve, TypeOK, InFlight
    <3>2. Insert(Hook(d), Id(d), d, "received")
            => tradeLog' \in [Tenants -> [Keys -> LogRows]]
      BY <3>1, InsertTyped, KeyTypes DEF RowStatuses
    <3> QED
      BY <2>3, <3>2 DEF Reserve, Answer, Goto, account, TypeOK, InFlight,
                        Hook, Stations, Results
  <2>4. CASE Check(d)
    BY <2>4 DEF Check, Goto, account, TypeOK, InFlight, Hook, Stations
  <2>5. CASE Reject(d)
    <3>1. tradeLog' \in [Tenants -> [Keys -> LogRows]]
      BY <2>5, SetReservationTyped DEF Reject, TypeOK, InFlight, RowStatuses
    <3> QED
      BY <2>5, <3>1 DEF Reject, Answer, Goto, account, TypeOK, InFlight,
                        Hook, Stations, Results, BrokerStatuses
  <2>6. CASE Offline(d) \/ Send(d) \/ Sent(d) \/ SendRaises(d)
    BY <2>6 DEF Offline, Send, Sent, SendRaises, Answer, Goto, account, TypeOK,
                InFlight, Hook, Stations, Results, BrokerStatuses
  <2>7. CASE Reply(d) \/ Timeout(d)
    BY <2>7 DEF Reply, Timeout, Goto, account, TypeOK, InFlight, Hook,
                Stations, Results, BrokerStatuses
  <2>8. CASE LogTrade(d)
    <3>1. Hook(d) \in Tenants /\ result[d] \in BrokerStatuses
      BY <2>8 DEF LogTrade, TypeOK, InFlight
    <3>2. Insert(Hook(d), ResultKey[Id(d)], d, result[d])
            => tradeLog' \in [Tenants -> [Keys -> LogRows]]
      BY <3>1, InsertTyped, KeyTypes DEF RowStatuses, BrokerStatuses
    <3> QED
      BY <2>8, <3>1, <3>2 DEF LogTrade, Answer, Goto, account, TypeOK,
                              InFlight, Hook, Stations, Results
  <2>9. CASE Finalize(d)
    <3>1. tradeLog' \in [Tenants -> [Keys -> LogRows]]
      BY <2>9, SetReservationTyped DEF Finalize, TypeOK, InFlight,
                                       RowStatuses
    <3> QED
      BY <2>9, <3>1 DEF Finalize, Goto, account, TypeOK, InFlight, Hook,
                        Stations
  <2>10. CASE Fail(d)
    BY <2>10 DEF Fail, Answer, Goto, account, TypeOK, InFlight, Hook,
                 Stations, Results
  <2> QED
    BY <2>1, <2>2, <2>3, <2>4, <2>5, <2>6, <2>7, <2>8, <2>9, <2>10
    DEF Handle, Progress
<1>2. ASSUME NEW t \in Tenants, AccountRequest(t) PROVE TypeOK'
  BY <1>2, EditTyped
<1>3. CASE Crash
  BY <1>3 DEF Crash, account, TypeOK, InFlight, Hook, Stations, Results
<1>4. CASE Tick
  BY <1>4 DEF Tick, TypeOK, InFlight, Hook
<1>5. CASE UNCHANGED vars
  BY <1>5 DEF vars, TypeOK, InFlight, Hook
<1> QED
  BY <1>1, <1>2, <1>3, <1>4, <1>5 DEF Next

(* The type invariant holds in every reachable state.                      *)
THEOREM TypeCorrect == Spec => []TypeOK
BY InitTypeOK, StepTypeOK, PTL DEF Spec

----------------------------------------------------------------------------
(* A step of d leaves the rows of every other delivery alone.              *)
OthersKept(d) ==
    \A t \in Tenants, k \in Keys :
        \/ tradeLog'[t][k] = tradeLog[t][k]
        \/ tradeLog'[t][k].by = d /\ tradeLog[t][k].by \in {d, Nobody}

(* A step of d writes one row: the one of t at key k.                      *)
WritesRow(d, t, k, status) ==
    /\ Holds(tradeLog'[t][k], d, status)
    /\ \A u \in Tenants, j \in Keys :
          u # t \/ j # k => tradeLog'[u][j] = tradeLog[u][j]

LEMMA InsertWrites ==
    ASSUME IInv, NEW d \in Deliveries, NEW t \in Tenants, NEW k \in Keys,
           NEW status \in RowStatuses, Free(t, k), Insert(t, k, d, status)
    PROVE  OthersKept(d) /\ WritesRow(d, t, k, status)
BY DEF IInv, TypeOK, OthersKept, WritesRow, Holds, Insert, Free, NoRow

LEMMA SetReservationWrites ==
    ASSUME IInv, NEW d \in Deliveries, pc[d] \in PastReserve,
           NEW status \in RowStatuses, SetReservation(d, status)
    PROVE  OthersKept(d) /\ WritesRow(d, Hook(d), Id(d), status)
<1>1. Hook(d) \in Tenants /\ Id(d) \in Keys
  BY KeyTypes DEF IInv, TypeOK, InFlight, PastReserve
<1>2. tradeLog[Hook(d)][Id(d)] \in LogRows
  BY <1>1 DEF IInv, TypeOK
<1>3. tradeLog[Hook(d)][Id(d)].by = d
  BY DEF IInv, HandlerInv, HandlerAt, ClaimRow, Log, Holds
<1>4. tradeLog' = [tradeLog EXCEPT ![Hook(d)][Id(d)] =
                     [tradeLog[Hook(d)][Id(d)] EXCEPT !.status = status]]
  BY <1>1 DEF SetReservation, IInv, TypeOK
<1> QED
  BY <1>1, <1>2, <1>3, <1>4
  DEF IInv, TypeOK, LogRows, OthersKept, WritesRow, Holds

(* A step of one delivery d keeps the invariant, if it keeps d's part.     *)
LEMMA StepOfOne ==
    ASSUME IInv, TypeOK', NEW d \in Deliveries, OthersKept(d), req' = req,
           \A e \in Deliveries \ {d} : /\ pc'[e] = pc[e]
                                      /\ result'[e] = result[e]
                                      /\ (e \in sent') = (e \in sent),
           HandlerInv(d)',
           \A t \in Tenants, k \in Keys :
              tradeLog'[t][k].by = d => RowInv(t, k)'
    PROVE  IInv'
<1>1. ASSUME NEW e \in Deliveries, e # d PROVE HandlerInv(e)'
  <2>1. HandlerInv(e)
    BY DEF IInv
  <2>2. /\ Id(e) \in Keys /\ ResultKey[Id(e)] \in Keys
        /\ Hook(e) \in Tenants \cup {Nobody} /\ e # Nobody
    BY KeyTypes, RouterAssumption DEF IInv
  <2>3. ASSUME NEW t \in Tenants, NEW k \in Keys
        PROVE  /\ tradeLog[t][k].by = e => tradeLog'[t][k] = tradeLog[t][k]
               /\ tradeLog[t][k].by # e => tradeLog'[t][k].by # e
    BY <1>1, <2>2 DEF OthersKept
  <2>4. pc[e] \in PastReserve => Hook(e) \in Tenants
    BY DEF IInv, TypeOK, InFlight, PastReserve
  <2>5. /\ pc'[e] = pc[e] /\ result'[e] = result[e]
        /\ (e \in sent') = (e \in sent)
    BY <1>1
  <2>6. Hook(e) \in Tenants =>
          /\ \A status : Holds(ClaimRow(e), e, status) =>
                 Holds(tradeLog'[Hook(e)][Id(e)], e, status)
          /\ \A status : Holds(ResultRow(e), e, status) =>
                 Holds(tradeLog'[Hook(e)][ResultKey[Id(e)]], e, status)
          /\ ResultRow(e).by # e =>
                 tradeLog'[Hook(e)][ResultKey[Id(e)]].by # e
          /\ Claimed(e) => tradeLog'[Hook(e)][Id(e)].by = e
    BY <2>2, <2>3 DEF Holds, ClaimRow, ResultRow, Claimed, Log
  <2> QED
    BY <2>1, <2>3, <2>4, <2>5, <2>6
    DEF HandlerInv, HandlerAt, ClaimRow, ResultRow, Claimed, Log, Hook, Id,
        Holds, PastReserve, BrokerStatuses, Keys
<1>2. ASSUME NEW t \in Tenants, NEW k \in Keys, tradeLog'[t][k].by # d
      PROVE  RowInv(t, k)'
  <2>1. tradeLog'[t][k] = tradeLog[t][k] /\ RowInv(t, k)
    BY <1>2 DEF OthersKept, IInv
  <2>2. CASE tradeLog[t][k] = NoRow
    BY <2>1, <2>2 DEF RowInv
  <2>3. CASE tradeLog[t][k] # NoRow
    <3>1. PICK e \in Deliveries :
            /\ tradeLog[t][k].by = e
            /\ Hook(e) = t
            /\ \/ k = Id(e) /\ ReservationInv(e, tradeLog[t][k].status)
               \/ /\ k = ResultKey[Id(e)]
                  /\ ResultInv(e, tradeLog[t][k].status)
      BY <2>1, <2>3 DEF RowInv
    <3>2. e # d /\ e # Nobody /\ ResultKey[Id(e)] \in Keys
      BY <1>2, <2>1, <3>1, RouterAssumption, KeyTypes DEF IInv
    <3>3. pc'[e] = pc[e] /\ (e \in sent') = (e \in sent)
      BY <3>2
    <3>4. ResultRow(e).by = e => tradeLog'[t][ResultKey[Id(e)]].by = e
      BY <3>1, <3>2 DEF OthersKept, ResultRow, Log
    <3>5. ReservationInv(e, tradeLog[t][k].status)
            => ReservationInv(e, tradeLog[t][k].status)'
      BY <2>1, <3>1, <3>3, <3>4 DEF ReservationInv, ResultRow, Log, Hook, Id
    <3>6. ResultInv(e, tradeLog[t][k].status)
            => ResultInv(e, tradeLog[t][k].status)'
      BY <2>1, <3>3 DEF ResultInv, BrokerStatuses
    <3> QED
      BY <2>1, <3>1, <3>5, <3>6 DEF RowInv, Hook, Id
  <2> QED
    BY <2>2, <2>3
<1> QED
  BY <1>1, <1>2 DEF IInv

(* Only d's own program counter and answer move.                           *)
OnlyMoves(d) ==
    /\ req' = req
    /\ \A e \in Deliveries \ {d} : /\ pc'[e] = pc[e]
                                   /\ result'[e] = result[e]
                                   /\ (e \in sent') = (e \in sent)

(* Likewise for a step of a live handler that writes no row.               *)
LEMMA QuietStep ==
    ASSUME IInv, TypeOK', NEW d \in Deliveries, pc[d] # "done",
           tradeLog' = tradeLog, OnlyMoves(d), sent \subseteq sent',
           HandlerInv(d)'
    PROVE  IInv'
<1>1. OthersKept(d)
  BY DEF OthersKept
<1>2. ASSUME NEW t \in Tenants, NEW k \in Keys, tradeLog'[t][k].by = d
      PROVE  RowInv(t, k)'
  <2>1. CASE tradeLog[t][k] = NoRow
    BY <2>1 DEF RowInv, NoRow
  <2>2. CASE tradeLog[t][k] # NoRow
    <3>1. /\ Hook(d) = t
          /\ \/ k = Id(d) /\ ReservationInv(d, tradeLog[t][k].status)
             \/ k = ResultKey[Id(d)] /\ ResultInv(d, tradeLog[t][k].status)
      BY <1>2, <2>2 DEF IInv, RowInv
    <3>2. ReservationInv(d, tradeLog[t][k].status)
            => ReservationInv(d, tradeLog[t][k].status)'
      BY DEF ReservationInv, ResultRow, Log, Hook, Id, OnlyMoves
    <3>3. ResultInv(d, tradeLog[t][k].status)
            => ResultInv(d, tradeLog[t][k].status)'
      BY DEF ResultInv, BrokerStatuses
    <3> QED
      BY <1>2, <3>1, <3>2, <3>3 DEF RowInv, Hook, Id, OnlyMoves
  <2> QED
    BY <2>1, <2>2
<1> QED
  BY <1>1, <1>2, StepOfOne DEF OnlyMoves

LEMMA QuietHandlerStep ==
    ASSUME IInv, TypeOK', NEW d \in Deliveries,
           \/ Load(d) \/ ReadBody(d) \/ Check(d) \/ Offline(d) \/ Send(d)
           \/ Sent(d) \/ SendRaises(d) \/ Reply(d) \/ Timeout(d) \/ Fail(d)
    PROVE  IInv'
<1> DEFINE handed == d \in sent
           View == HandlerAt(d, pc'[d], result'[d], d \in sent')
<1>1. HandlerAt(d, pc[d], result[d], handed)
  BY DEF IInv, HandlerInv
<1>2. /\ pc[d] # "done" /\ tradeLog' = tradeLog /\ OnlyMoves(d)
      /\ sent \subseteq sent'
  BY DEF IInv, TypeOK, OnlyMoves, Load, ReadBody, Check, Offline, Send,
         Sent, SendRaises, Reply, Timeout, Fail, Answer, Goto
<1>3. View => HandlerInv(d)'
  BY <1>2
  DEF OnlyMoves, HandlerInv, HandlerAt, Holds, ClaimRow, ResultRow, Claimed,
      Log, Hook, Id, PastReserve, BrokerStatuses, Keys
<1>4. View
  <2> USE DEF HandlerAt, PastReserve, BrokerStatuses
  <2>1. CASE Load(d)
    BY <1>1, <2>1 DEF Load, Answer, Goto, IInv, TypeOK
  <2>2. CASE ReadBody(d)
    BY <1>1, <2>2 DEF ReadBody, Answer, Goto, IInv, TypeOK
  <2>3. CASE Check(d)
    BY <1>1, <2>3 DEF Check, Goto, IInv, TypeOK
  <2>4. CASE Offline(d)
    BY <1>1, <2>4 DEF Offline, Goto, IInv, TypeOK
  <2>5. CASE Send(d) \/ Sent(d) \/ SendRaises(d)
    <3>1. Claimed(d)
      BY <1>1, <2>5 DEF Send, Sent, SendRaises, IInv, TypeOK, InFlight, Claimed,
                        ClaimRow, Holds
    <3> QED
      BY <1>1, <2>5, <3>1 DEF Send, Sent, SendRaises, Answer, Goto, IInv, TypeOK
  <2>6. CASE Reply(d) \/ Timeout(d)
    BY <1>1, <2>6 DEF Reply, Timeout, Goto, IInv, TypeOK
  <2>7. CASE Fail(d)
    BY <1>1, <2>7 DEF Fail, Answer, Goto, IInv, TypeOK
  <2> QED
    BY <2>1, <2>2, <2>3, <2>4, <2>5, <2>6, <2>7
<1> QED
  BY <1>2, <1>3, <1>4, QuietStep

(* A delivery's rows are its reservation and its result row.               *)
LEMMA OwnRows ==
    ASSUME IInv, NEW d \in Deliveries, NEW t \in Tenants, NEW k \in Keys,
           tradeLog[t][k].by = d
    PROVE  /\ t = Hook(d)
           /\ \/ k = Id(d) /\ ReservationInv(d, tradeLog[t][k].status)
              \/ k = ResultKey[Id(d)] /\ ResultInv(d, tradeLog[t][k].status)
BY RouterAssumption DEF IInv, RowInv, NoRow

(* A handler that writes a row: Reserve, Reject, LogTrade, Finalize.       *)
LEMMA WritingHandlerStep ==
    ASSUME IInv, TypeOK', NEW d \in Deliveries,
           Reserve(d) \/ Reject(d) \/ LogTrade(d) \/ Finalize(d)
    PROVE  IInv'
<1> DEFINE handed == d \in sent
<1>1. HandlerAt(d, pc[d], result[d], handed)
  BY DEF IInv, HandlerInv
<1>2. /\ Hook(d) \in Tenants
      /\ Id(d) \in Keys /\ ResultKey[Id(d)] \in Keys
      /\ Id(d) # ResultKey[Id(d)]
      /\ d # Nobody
  BY KeyTypes, RouterAssumption
  DEF IInv, TypeOK, InFlight, Reserve, Reject, LogTrade, Finalize
<1>3. /\ pc[d] # "done" /\ OnlyMoves(d) /\ sent' = sent
  BY DEF IInv, TypeOK, OnlyMoves, Reserve, Reject, LogTrade, Finalize,
         Answer, Goto
<1> USE DEF PastReserve, BrokerStatuses
<1>4. ASSUME Reserve(d), Free(Hook(d), Id(d)) PROVE IInv'
  <2>1. OthersKept(d) /\ WritesRow(d, Hook(d), Id(d), "received")
    BY <1>2, <1>4, InsertWrites DEF Reserve, RowStatuses
  <2>2. pc'[d] = "checking" /\ result' = result
    BY <1>4 DEF Reserve, Goto, IInv, TypeOK
  <2>3. \A t \in Tenants, k \in Keys :
           tradeLog'[t][k].by = d => t = Hook(d) /\ k = Id(d)
    BY <1>1, <1>4, <2>1 DEF WritesRow, HandlerAt, Reserve
  <2>4. HandlerInv(d)'
    BY <1>1, <1>2, <1>3, <1>4, <2>1, <2>2, <2>3
    DEF HandlerInv, HandlerAt, WritesRow, Holds, ClaimRow, ResultRow,
        Claimed, Log, Hook, Id, OnlyMoves, Keys, Reserve
  <2>5. \A t \in Tenants, k \in Keys :
           tradeLog'[t][k].by = d => RowInv(t, k)'
    BY <1>2, <1>3, <2>1, <2>3
    DEF RowInv, ReservationInv, WritesRow, Holds, Hook, Id, OnlyMoves
  <2> QED
    BY <1>3, <2>1, <2>4, <2>5, StepOfOne DEF OnlyMoves
<1>5. ASSUME Reserve(d), ~Free(Hook(d), Id(d)) PROVE IInv'
  <2>1. tradeLog' = tradeLog /\ pc'[d] = "done" /\ result'[d] = "duplicate"
    BY <1>5 DEF Reserve, Answer, Goto, IInv, TypeOK
  <2>2. HandlerInv(d)'
    BY <1>1, <1>3, <1>5, <2>1
    DEF HandlerInv, HandlerAt, Claimed, Log, Hook, Id, OnlyMoves, Reserve
  <2> QED
    BY <1>3, <2>1, <2>2, QuietStep
<1>6. ASSUME Reject(d) PROVE IInv'
  <2>1. OthersKept(d) /\ WritesRow(d, Hook(d), Id(d), "rejected")
    BY <1>6, SetReservationWrites DEF Reject, RowStatuses
  <2>2. pc'[d] = "done" /\ result'[d] = "rejected" /\ d \notin sent
    BY <1>1, <1>6 DEF Reject, Answer, Goto, IInv, TypeOK, HandlerAt
  <2>3. HandlerInv(d)'
    BY <1>1, <1>2, <1>3, <1>6, <2>1, <2>2
    DEF HandlerInv, HandlerAt, WritesRow, Holds, ClaimRow, ResultRow,
        Claimed, Log, Hook, Id, OnlyMoves, Keys, Reject
  <2>4. \A t \in Tenants, k \in Keys :
           tradeLog'[t][k].by = d => t = Hook(d) /\ k = Id(d)
    BY <1>1, <1>6, <2>1, OwnRows
    DEF WritesRow, HandlerAt, ResultRow, Log, Reject
  <2>5. \A t \in Tenants, k \in Keys :
           tradeLog'[t][k].by = d => RowInv(t, k)'
    BY <1>2, <1>3, <2>1, <2>2, <2>4
    DEF RowInv, ReservationInv, WritesRow, Holds, Hook, Id, OnlyMoves
  <2> QED
    BY <1>3, <2>1, <2>3, <2>5, StepOfOne DEF OnlyMoves
<1>7. ASSUME LogTrade(d), Free(Hook(d), ResultKey[Id(d)]) PROVE IInv'
  <2>1. result[d] \in BrokerStatuses
    BY <1>7 DEF LogTrade, IInv, TypeOK
  <2>2. OthersKept(d) /\ WritesRow(d, Hook(d), ResultKey[Id(d)], result[d])
    BY <1>2, <1>7, <2>1, InsertWrites DEF LogTrade, RowStatuses
  <2>3. pc'[d] = "closing" /\ result' = result
    BY <1>7 DEF LogTrade, Goto, IInv, TypeOK
  <2>4. HandlerInv(d)'
    BY <1>1, <1>2, <1>3, <1>7, <2>2, <2>3
    DEF HandlerInv, HandlerAt, WritesRow, Holds, ClaimRow, ResultRow,
        Claimed, Log, Hook, Id, OnlyMoves, Keys, LogTrade
  <2>5. ASSUME NEW t \in Tenants, NEW k \in Keys, tradeLog'[t][k].by = d
        PROVE  RowInv(t, k)'
    <3>1. CASE t = Hook(d) /\ k = ResultKey[Id(d)]
      <4>1. ResultInv(d, result[d])'
        BY <1>1, <1>3, <2>1, <2>3 DEF ResultInv, HandlerAt
      <4> QED
        BY <1>3, <2>2, <2>3, <3>1, <4>1
        DEF RowInv, ResultInv, WritesRow, Holds, Hook, Id, OnlyMoves
    <3>2. CASE ~(t = Hook(d) /\ k = ResultKey[Id(d)])
      <4>1. tradeLog'[t][k] = tradeLog[t][k]
        BY <2>2, <3>2 DEF WritesRow
      <4>2. t = Hook(d) /\ k = Id(d)
        BY <2>5, <3>2, <4>1, OwnRows
      <4>3. tradeLog[t][k].status = "received"
        BY <1>1, <1>7, <4>2 DEF LogTrade, HandlerAt, Holds, ClaimRow, Log
      <4> QED
        BY <1>3, <2>5, <4>1, <4>2, <4>3
        DEF RowInv, ReservationInv, Hook, Id, OnlyMoves
    <3> QED
      BY <3>1, <3>2
  <2> QED
    BY <1>3, <2>2, <2>4, <2>5, StepOfOne DEF OnlyMoves
<1>8. ASSUME LogTrade(d), ~Free(Hook(d), ResultKey[Id(d)]) PROVE IInv'
  <2>1. tradeLog' = tradeLog /\ pc'[d] = "done" /\ result'[d] = "failed"
    BY <1>8 DEF LogTrade, Answer, Goto, IInv, TypeOK
  <2>2. HandlerInv(d)'
    BY <1>1, <1>3, <1>8, <2>1
    DEF HandlerInv, HandlerAt, Claimed, Log, Hook, Id, OnlyMoves, LogTrade
  <2> QED
    BY <1>3, <2>1, <2>2, QuietStep
<1>9. ASSUME Finalize(d) PROVE IInv'
  <2>1. OthersKept(d) /\ WritesRow(d, Hook(d), Id(d), "dispatched")
    BY <1>9, SetReservationWrites DEF Finalize, RowStatuses
  <2>2. pc'[d] = "done" /\ result' = result /\ result[d] \in BrokerStatuses
    BY <1>9 DEF Finalize, Goto, IInv, TypeOK
  <2>3. HandlerInv(d)'
    BY <1>1, <1>2, <1>3, <1>9, <2>1, <2>2
    DEF HandlerInv, HandlerAt, WritesRow, Holds, ClaimRow, ResultRow,
        Claimed, Log, Hook, Id, OnlyMoves, Keys, Finalize
  <2>4. tradeLog'[Hook(d)][ResultKey[Id(d)]].by = d
    BY <1>1, <1>2, <1>9, <2>1
    DEF HandlerAt, WritesRow, Holds, ResultRow, Log, Finalize
  <2>5. ASSUME NEW t \in Tenants, NEW k \in Keys, tradeLog'[t][k].by = d
        PROVE  RowInv(t, k)'
    <3>1. CASE t = Hook(d) /\ k = Id(d)
      BY <1>3, <2>1, <2>4, <3>1
      DEF RowInv, ReservationInv, WritesRow, Holds, ResultRow, Log, Hook, Id,
          OnlyMoves
    <3>2. CASE ~(t = Hook(d) /\ k = Id(d))
      <4>1. tradeLog'[t][k] = tradeLog[t][k]
        BY <2>1, <3>2 DEF WritesRow
      <4>2. /\ t = Hook(d) /\ k = ResultKey[Id(d)]
            /\ ResultInv(d, tradeLog[t][k].status)
        BY <2>5, <3>2, <4>1, OwnRows
      <4> QED
        BY <1>3, <2>5, <4>1, <4>2 DEF RowInv, ResultInv, Hook, Id, OnlyMoves
    <3> QED
      BY <3>1, <3>2
  <2> QED
    BY <1>3, <2>1, <2>3, <2>5, StepOfOne DEF OnlyMoves
<1> QED
  BY <1>4, <1>5, <1>6, <1>7, <1>8, <1>9

(* Steps that move no handler: account requests, the clock, stuttering.    *)
LEMMA FrameStep ==
    ASSUME IInv, TypeOK',
           UNCHANGED <<tradeLog, req, pc, result, sent>>
    PROVE  IInv'
<1>1. ASSUME NEW d \in Deliveries PROVE HandlerInv(d)'
  <2>1. HandlerAt(d, pc[d], result[d], d \in sent)
    BY DEF IInv, HandlerInv
  <2>2. pc'[d] = pc[d] /\ result'[d] = result[d] /\ sent' = sent
    OBVIOUS
  <2> QED
    BY <2>1, <2>2
    DEF HandlerInv, HandlerAt, Holds, ClaimRow, ResultRow, Claimed, Log,
        Hook, Id, PastReserve, BrokerStatuses, Keys
<1>2. \A t \in Tenants, k \in Keys : RowInv(t, k)'
  BY DEF IInv, RowInv, ReservationInv, ResultInv, ResultRow, Log, Hook, Id,
         NoRow, BrokerStatuses, Keys
<1> QED
  BY <1>1, <1>2 DEF IInv, Keys

(* A crash ends the live handlers and leaves the log as it is.             *)
LEMMA CrashStep ==
    ASSUME IInv, TypeOK', Crash
    PROVE  IInv'
<1>1. tradeLog' = tradeLog /\ req' = req /\ sent' = sent
  BY DEF Crash
<1>2. ASSUME NEW d \in Deliveries PROVE HandlerInv(d)'
  <2>1. HandlerAt(d, pc[d], result[d], d \in sent)
    BY DEF IInv, HandlerInv
  <2>2. CASE InFlight(d)
    <3>1. pc'[d] = "done" /\ result'[d] = "failed"
      BY <2>2 DEF Crash
    <3> QED
      BY <1>1, <2>1, <3>1
      DEF HandlerInv, HandlerAt, Claimed, Log, Hook, Id, PastReserve,
          BrokerStatuses
  <2>3. CASE ~InFlight(d)
    <3>1. pc'[d] = pc[d] /\ result'[d] = result[d]
      BY <2>3 DEF Crash
    <3> QED
      BY <1>1, <2>1, <3>1
      DEF HandlerInv, HandlerAt, Holds, ClaimRow, ResultRow, Claimed, Log,
          Hook, Id, PastReserve, BrokerStatuses, Keys
  <2> QED
    BY <2>2, <2>3
<1>3. ASSUME NEW t \in Tenants, NEW k \in Keys PROVE RowInv(t, k)'
  <2>1. ASSUME NEW d \in Deliveries, NEW status
        PROVE  /\ ReservationInv(d, status) => ReservationInv(d, status)'
               /\ ResultInv(d, status) => ResultInv(d, status)'
    BY <1>1 DEF Crash, InFlight, ReservationInv, ResultInv, ResultRow, Log,
                Hook, Id, BrokerStatuses
  <2>2. RowInv(t, k)
    BY DEF IInv
  <2> QED
    BY <1>1, <2>1, <2>2 DEF RowInv, Hook, Id, NoRow
<1> QED
  BY <1>2, <1>3 DEF IInv, Keys

LEMMA InitInv == Init => IInv
<1> SUFFICES ASSUME Init PROVE IInv
  OBVIOUS
<1>1. TypeOK
  BY InitTypeOK
<1>2. ASSUME NEW d \in Deliveries PROVE HandlerInv(d)
  <2>1. d # Nobody
    BY RouterAssumption
  <2> QED
    BY <2>1 DEF Init, HandlerInv, HandlerAt, PastReserve, BrokerStatuses,
                NoRow
<1>3. \A t \in Tenants, k \in Keys : RowInv(t, k)
  BY DEF Init, RowInv
<1> QED
  BY <1>1, <1>2, <1>3 DEF IInv

LEMMA StepInv == IInv /\ [Next]_vars => IInv'
<1> SUFFICES ASSUME IInv, [Next]_vars PROVE IInv'
  OBVIOUS
<1>1. TypeOK'
  BY StepTypeOK DEF IInv
<1>2. ASSUME NEW d \in Deliveries, Handle(d) PROVE IInv'
  BY <1>1, <1>2, QuietHandlerStep, WritingHandlerStep DEF Handle, Progress
<1>3. ASSUME NEW t \in Tenants, AccountRequest(t) PROVE IInv'
  <2>1. UNCHANGED <<tradeLog, req, pc, result, sent>>
    BY <1>3 DEF AccountRequest, SetKillSwitch, GrantSubscription,
       RevokeSubscription, UpdateRiskSettings, UpdateSymbolMap,
       RegeneratePassphrase, Edit
  <2> QED
    BY <1>1, <2>1, FrameStep
<1>4. CASE Crash
  BY <1>1, <1>4, CrashStep
<1>5. CASE Tick \/ UNCHANGED vars
  BY <1>1, <1>5, FrameStep DEF Tick, vars
<1> QED
  BY <1>2, <1>3, <1>4, <1>5 DEF Next

LEMMA InvariantHolds == Spec => []IInv
BY InitInv, StepInv, PTL DEF Spec

----------------------------------------------------------------------------
(* No (tenant, signal_id) is ordered twice, whatever is retried or fails.  *)
THEOREM AtMostOnce == Spec => []AtMostOneOrder
<1>1. IInv => AtMostOneOrder
  BY DEF IInv, TypeOK, HandlerInv, HandlerAt, Claimed, Log, AtMostOneOrder
<1> QED
  BY <1>1, InvariantHolds, PTL

(* Whoever holds a claim has a row the trade list shows.                   *)
THEOREM NothingVanishes == Spec => []ClaimStaysVisible
<1>1. IInv => ClaimStaysVisible
  <2> SUFFICES ASSUME IInv, NEW d \in Deliveries, Claimed(d)
               PROVE  VisibleRows(d) # {}
    BY DEF ClaimStaysVisible
  <2>1. /\ Hook(d) \in Tenants
        /\ Id(d) \in Keys /\ ResultKey[Id(d)] \in Keys
        /\ Id(d) # ResultKey[Id(d)]
    BY KeyTypes, RouterAssumption DEF Claimed, IInv
  <2>2. ReservationInv(d, Log(d)[Id(d)].status)
    BY <2>1, OwnRows DEF Claimed, Log
  <2>3. CASE Log(d)[Id(d)].status \in {"received", "rejected"}
    <3>1. Id(d) \in VisibleRows(d)
      BY <2>1, <2>3 DEF VisibleRows, Visible, Claimed, Log
    <3> QED
      BY <3>1
  <2>4. CASE Log(d)[Id(d)].status = "dispatched"
    <3>1. Log(d)[ResultKey[Id(d)]].by = d
      BY <2>2, <2>4 DEF ReservationInv, ResultRow
    <3>2. Log(d)[ResultKey[Id(d)]].status \in BrokerStatuses
      BY <2>1, <3>1, OwnRows DEF Log, ResultInv
    <3>3. ResultKey[Id(d)] \in VisibleRows(d)
      BY <2>1, <3>1, <3>2 DEF VisibleRows, Visible, Log, BrokerStatuses
    <3> QED
      BY <3>3
  <2> QED
    BY <2>2, <2>3, <2>4 DEF ReservationInv
<1> QED
  BY <1>1, InvariantHolds, PTL

(* A broker or guardrail answer is exactly what the trade list shows.      *)
THEOREM AnswersAreLogged == Spec => []AnswerIsLogged
<1>1. IInv => AnswerIsLogged
  <2> SUFFICES ASSUME IInv, NEW d \in Deliveries, pc[d] = "done",
                      result[d] \in BrokerStatuses
               PROVE  \E k \in Keys : /\ VisibleRows(d) = {k}
                                     /\ Log(d)[k].status = result[d]
    BY DEF AnswerIsLogged
  <2>1. /\ Id(d) \in Keys /\ ResultKey[Id(d)] \in Keys
        /\ Id(d) # ResultKey[Id(d)]
    BY KeyTypes, RouterAssumption DEF IInv
  <2>2. /\ Hook(d) \in Tenants
        /\ \/ /\ Holds(ClaimRow(d), d, "rejected")
              /\ result[d] = "rejected"
              /\ ResultRow(d).by # d
           \/ /\ Holds(ClaimRow(d), d, "dispatched")
              /\ Holds(ResultRow(d), d, result[d])
    BY DEF IInv, HandlerInv, HandlerAt
  <2>3. \A k \in Keys : Log(d)[k].by = d => k \in {Id(d), ResultKey[Id(d)]}
    BY <2>2, OwnRows DEF Log
  <2>4. CASE Holds(ClaimRow(d), d, "rejected") /\ ResultRow(d).by # d
    <3>1. VisibleRows(d) = {Id(d)}
      BY <2>1, <2>2, <2>3, <2>4
      DEF VisibleRows, Visible, Holds, ClaimRow, ResultRow, Log
    <3> QED
      BY <2>1, <2>2, <2>4, <3>1 DEF Holds, ClaimRow, ResultRow
  <2>5. CASE Holds(ClaimRow(d), d, "dispatched")
             /\ Holds(ResultRow(d), d, result[d])
    <3>1. VisibleRows(d) = {ResultKey[Id(d)]}
      BY <2>1, <2>2, <2>3, <2>5
      DEF VisibleRows, Visible, Holds, ClaimRow, ResultRow, Log,
          BrokerStatuses
    <3> QED
      BY <2>1, <2>5, <3>1 DEF Holds, ResultRow
  <2> QED
    BY <2>2, <2>4, <2>5
<1> QED
  BY <1>1, InvariantHolds, PTL

(* What the log says of the broker is true.                                *)
THEOREM LogTruthful == Spec => []LogIsTruthful
<1>1. IInv => LogIsTruthful
  <2> SUFFICES ASSUME IInv, NEW t \in Tenants, NEW k \in Keys
               PROVE  /\ tradeLog[t][k].status = "rejected" /\ IsClaim(t, k)
                           => tradeLog[t][k].by \notin sent
                      /\ tradeLog[t][k].status = "accepted"
                           => tradeLog[t][k].by \in sent
    BY DEF LogIsTruthful
  <2>1. \A d \in Deliveries : Id(d) # ResultKey[Id(d)]
    BY KeyTypes, RouterAssumption DEF IInv
  <2>2. RowInv(t, k)
    BY DEF IInv
  <2> QED
    BY <2>1, <2>2
    DEF RowInv, ReservationInv, ResultInv, IsClaim, NoRow
<1> QED
  BY <1>1, InvariantHolds, PTL

----------------------------------------------------------------------------
(* What a live handler knows of the row it loaded.                         *)
SnapInv(d) ==
    /\ InFlight(d) => d \in overtaken \/ snap[d] = row[Hook(d)]
    /\ pc[d] \in {"reserving", "checking", "placing"} =>
          req[d].secret = snap[d].passphrase
    /\ pc[d] = "placing" =>
          /\ PermittedBy(snap[d], d)
          /\ d \in overtaken \/ ~SubscriptionLapsed(row[Hook(d)], now)

SInv == TypeOK /\ \A d \in Deliveries : SnapInv(d)

LEMMA StepSnap ==
    ASSUME SInv, [Next]_vars
    PROVE  SInv'
<1>1. TypeOK'
  BY StepTypeOK DEF SInv
<1>2. ASSUME NEW d \in Deliveries, Handle(d), NEW e \in Deliveries
      PROVE  SnapInv(e)'
  <2>1. SnapInv(e)
    BY DEF SInv
  <2>2. UNCHANGED <<now, row, overtaken, req>>
    BY <1>2 DEF Handle, Progress, Load, ReadBody, Reserve, Check, Reject,
       Offline, Send, Sent, SendRaises, Reply, Timeout, LogTrade, Finalize,
       Fail, account
  <2>3. CASE e # d
    <3>1. pc'[e] = pc[e] /\ snap'[e] = snap[e]
      BY <1>2, <2>3 DEF Handle, Progress, Load, ReadBody, Reserve, Check,
         Reject, Offline, Send, Sent, SendRaises, Reply, Timeout, LogTrade,
         Finalize, Fail, Answer, Goto, SInv, TypeOK
    <3> QED
      BY <2>1, <2>2, <3>1
      DEF SnapInv, InFlight, Hook, PermittedBy, SubscriptionLapsed
  <2>4. CASE e = d
    <3>1. CASE Load(d)
      BY <2>2, <2>4, <3>1
      DEF Load, Answer, Goto, SnapInv, InFlight, Hook, SInv, TypeOK
    <3>2. CASE ReadBody(d)
      BY <2>1, <2>2, <2>4, <3>2
      DEF ReadBody, Authorised, Answer, Goto, SnapInv, InFlight, Hook, SInv,
          TypeOK
    <3>3. CASE Check(d)
      <4>1. (/\ Admits(snap[d], req[d].signal)
             /\ req[d].secret = snap[d].passphrase)
            => /\ PermittedBy(snap[d], d)
               /\ ~SubscriptionLapsed(snap[d], now)
        BY DEF Admits, CheckRisk, SubscriptionLapsed, PermittedBy
      <4>2. /\ pc[d] = "checking"
            /\ pc'[d] = IF Admits(snap[d], req[d].signal) THEN "placing"
                                                          ELSE "rejecting"
            /\ snap' = snap
        BY <3>3 DEF Check, Goto, SInv, TypeOK
      <4> QED
        BY <2>1, <2>2, <2>4, <4>1, <4>2
        DEF SnapInv, InFlight, Hook, PermittedBy, SubscriptionLapsed
    <3>4. CASE Reserve(d)
      BY <2>1, <2>2, <2>4, <3>4
      DEF Reserve, Answer, Goto, SnapInv, InFlight, Hook, SInv, TypeOK
    <3>5. CASE /\ pc'[d] \in {"sending", "waiting", "logging", "closing",
                              "done"}
               /\ snap' = snap
               /\ InFlight(d) \/ pc'[d] = "done"
      BY <2>1, <2>2, <2>4, <3>5 DEF SnapInv, InFlight, Hook
    <3>6. Reject(d) \/ Offline(d) \/ Send(d) \/ Sent(d) \/ SendRaises(d)
          \/ Reply(d) \/ Timeout(d) \/ LogTrade(d) \/ Finalize(d) \/ Fail(d) =>
            /\ pc'[d] \in {"sending", "waiting", "logging", "closing", "done"}
            /\ snap' = snap
            /\ InFlight(d) \/ pc'[d] = "done"
      BY DEF Reject, Offline, Send, Sent, SendRaises, Reply, Timeout, LogTrade,
             Finalize, Fail, Answer, Goto, InFlight, SInv, TypeOK
    <3> QED
      BY <1>2, <3>1, <3>2, <3>3, <3>4, <3>5, <3>6 DEF Handle, Progress
  <2> QED
    BY <2>3, <2>4
<1>3. ASSUME NEW t \in Tenants, AccountRequest(t), NEW e \in Deliveries
      PROVE  SnapInv(e)'
  <2>1. /\ UNCHANGED <<now, req, pc, snap>>
        /\ \A u \in Tenants : u # t => row'[u] = row[u]
        /\ overtaken' = overtaken \cup
                          {d \in Deliveries : InFlight(d) /\ Hook(d) = t}
    BY <1>3 DEF AccountRequest, SetKillSwitch, GrantSubscription,
       RevokeSubscription, UpdateRiskSettings, UpdateSymbolMap,
       RegeneratePassphrase, Edit, SInv, TypeOK
  <2> QED
    BY <2>1
    DEF SInv, TypeOK, SnapInv, InFlight, Hook, PermittedBy, SubscriptionLapsed
<1>4. ASSUME Crash, NEW e \in Deliveries PROVE SnapInv(e)'
  <2>1. UNCHANGED <<now, row, overtaken, req, snap>>
    BY <1>4 DEF Crash, account
  <2>2. pc'[e] = pc[e] \/ pc'[e] = "done"
    BY <1>4 DEF Crash
  <2> QED
    BY <2>1, <2>2
    DEF SInv, SnapInv, InFlight, Hook, PermittedBy, SubscriptionLapsed
<1>5. ASSUME UNCHANGED vars, NEW e \in Deliveries PROVE SnapInv(e)'
  BY <1>5 DEF vars, SInv, SnapInv, InFlight, Hook, PermittedBy,
              SubscriptionLapsed
<1>6. ASSUME Tick, NEW e \in Deliveries PROVE SnapInv(e)'
  <2>1. /\ UNCHANGED <<row, req, pc, snap>> /\ now' = now + 1
        /\ overtaken \subseteq overtaken'
        /\ InFlight(e) /\ RunsOut(Hook(e)) => e \in overtaken'
    BY <1>6 DEF Tick
  <2>2. pc[e] = "placing" =>
           e \in overtaken' \/ ~SubscriptionLapsed(row[Hook(e)], now + 1)
    BY <2>1 DEF SInv, SnapInv, InFlight, RunsOut
  <2>3. /\ SnapInv(e)
        /\ SubscriptionLapsed(row[Hook(e)], now)' <=>
              SubscriptionLapsed(row[Hook(e)], now + 1)
    BY <2>1 DEF SInv, SubscriptionLapsed, Hook
  <2> QED
    BY <2>1, <2>2, <2>3 DEF SnapInv, InFlight, Hook, PermittedBy
<1> QED
  BY <1>1, <1>2, <1>3, <1>4, <1>5, <1>6 DEF SInv, Next

LEMMA SentFromPlacing ==
    ASSUME [Next]_vars, NEW d \in sent' \ sent
    PROVE  d \in Deliveries /\ pc[d] = "placing"
BY DEF Next, vars, Handle, Progress, Load, ReadBody, Reserve, Check, Reject,
   Offline, Send, Sent, SendRaises, Reply, Timeout, LogTrade, Finalize, Fail,
   AccountRequest, SetKillSwitch, GrantSubscription, RevokeSubscription,
   UpdateRiskSettings, UpdateSymbolMap, RegeneratePassphrase, Edit, Tick,
   Crash

LEMMA RequestFixed == [Next]_vars => req' = req
BY DEF Next, vars, Handle, Progress, Load, ReadBody, Reserve, Check, Reject,
   Offline, Send, Sent, SendRaises, Reply, Timeout, LogTrade, Finalize, Fail,
   AccountRequest, SetKillSwitch, GrantSubscription, RevokeSubscription,
   UpdateRiskSettings, UpdateSymbolMap, RegeneratePassphrase, Edit, Tick,
   Crash

LEMMA SnapKept ==
    ASSUME TypeOK, [Next]_vars, NEW d \in Deliveries, pc[d] # "idle"
    PROVE  req' = req /\ snap'[d] = snap[d]
BY DEF TypeOK, Next, vars, Handle, Progress, Load, ReadBody, Reserve, Check,
   Reject, Offline, Send, Sent, SendRaises, Reply, Timeout, LogTrade,
   Finalize, Fail, AccountRequest, SetKillSwitch, GrantSubscription,
   RevokeSubscription, UpdateRiskSettings, UpdateSymbolMap,
   RegeneratePassphrase, Edit, Tick, Crash

(* The loaded object is the only stale copy: an order the current row      *)
(* forbids, or whose subscription has run out, goes out only for a         *)
(* delivery that an edit or the end of the subscription overtook.          *)
THEOREM OnlyOvertakenAreStale == Spec => StaleOnlyIfOvertaken
<1>1. Init => SInv
  BY InitTypeOK DEF Init, SInv, SnapInv, InFlight
<1>2. SInv /\ [Next]_vars => SInv'
  BY StepSnap
<1>3. SInv /\ [Next]_vars =>
        [\A d \in sent' \ sent :
            \/ d \in overtaken
            \/ /\ PermittedBy(row[Hook(d)], d)
               /\ ~SubscriptionLapsed(row[Hook(d)], now)]_vars
  <2> SUFFICES ASSUME SInv, Next, NEW d \in sent' \ sent
               PROVE  \/ d \in overtaken
                      \/ /\ PermittedBy(row[Hook(d)], d)
                         /\ ~SubscriptionLapsed(row[Hook(d)], now)
    OBVIOUS
  <2>1. d \in Deliveries /\ pc[d] = "placing"
    BY SentFromPlacing
  <2> QED
    BY <2>1 DEF SInv, SnapInv, InFlight
<1> QED
  BY <1>1, <1>2, <1>3, PTL DEF Spec, StaleOnlyIfOvertaken

(* Every order handed over carried the tenant's passphrase and was within  *)
(* the kill switch, symbols and limits of the row as its delivery had      *)
(* loaded it, on which a subscription had been granted.  (Whether it has   *)
(* run out is a matter of the clock: OnlyOvertakenAreStale.)               *)
SentPermitted == \A d \in sent : PermittedBy(snap[d], d)

THEOREM OrdersPermitted == Spec => []SentPermitted
<1>1. Init => SInv /\ SentPermitted
  BY InitTypeOK DEF Init, SInv, SnapInv, InFlight, SentPermitted
<1>2. SInv /\ [Next]_vars => SInv'
  BY StepSnap
<1>3. IInv /\ SInv /\ SentPermitted /\ [Next]_vars => SentPermitted'
  <2> SUFFICES ASSUME IInv, SInv, SentPermitted, [Next]_vars, NEW d \in sent'
               PROVE  PermittedBy(snap[d], d)'
    BY DEF SentPermitted
  <2>1. /\ d \in Deliveries /\ pc[d] # "idle"
        /\ PermittedBy(snap[d], d)
    BY SentFromPlacing
    DEF SInv, SnapInv, SentPermitted, IInv, TypeOK, HandlerInv, HandlerAt
  <2>2. req' = req /\ snap'[d] = snap[d]
    BY <2>1, SnapKept DEF SInv
  <2> QED
    BY <2>1, <2>2 DEF PermittedBy
<1> QED
  BY <1>1, <1>2, <1>3, InvariantHolds, PTL DEF Spec

----------------------------------------------------------------------------
(* The refinement of SignalLedger.                                         *)
ClaimOf(d) == <<Hook(d), Id(d)>>

LEMMA ClaimTypes ==
    ASSUME IInv, NEW d \in Deliveries, Hook(d) \in Tenants
    PROVE  /\ ClaimOf(d) \in Tenants \X SignalIds
           /\ ClaimOf(d)[1] = Hook(d) /\ ClaimOf(d)[2] = Id(d)
           /\ \A c \in Tenants \X SignalIds :
                 c # ClaimOf(d) => c[1] # Hook(d) \/ c[2] # Id(d)
BY KeyTypes DEF IInv, ClaimOf

(* A step that writes no row and sends nothing stutters in the ledger.     *)
LEMMA LedgerStutter ==
    ASSUME IInv, UNCHANGED <<tradeLog, req, sent>>
    PROVE  UNCHANGED Ledger!vars
<1>1. \A t \in Tenants, k \in SignalIds : StageOf(t, k)' = StageOf(t, k)
  BY DEF StageOf, IsClaim, Id, NoRow
<1>2. LedgerStage' = LedgerStage
  BY <1>1 DEF LedgerStage
<1>3. LedgerOrders' = LedgerOrders
  BY DEF LedgerOrders, Hook, Id
<1> QED
  BY <1>2, <1>3 DEF Ledger!vars

(* A step of d that changes at most the stage of d's signal.               *)
LEMMA StageElsewhere ==
    ASSUME IInv, IInv', NEW d \in Deliveries, Hook(d) \in Tenants, req' = req,
           OthersKept(d), sent \subseteq sent', sent' \subseteq sent \cup {d},
           NEW c \in Tenants \X SignalIds, c # ClaimOf(d)
    PROVE  StageOf(c[1], c[2])' = StageOf(c[1], c[2])
<1> DEFINE t == c[1]
           k == c[2]
<1>1. t \in Tenants /\ k \in SignalIds /\ k \in Keys
  BY DEF Keys
<1>2. t # Hook(d) \/ k # Id(d)
  BY ClaimTypes
<1>3. d # Nobody
  BY RouterAssumption
<1>4. CASE tradeLog'[t][k] = tradeLog[t][k]
  <2>1. IsClaim(t, k) => tradeLog[t][k].by # d
    <3> SUFFICES ASSUME IsClaim(t, k), tradeLog[t][k].by = d PROVE FALSE
      OBVIOUS
    <3>1. t = Hook(d) /\ k = Id(d)
      BY <1>1, OwnRows DEF IsClaim
    <3> QED
      BY <3>1, <1>2
  <2> QED
    BY <1>4, <2>1 DEF StageOf, IsClaim, Id, NoRow
<1>5. CASE tradeLog'[t][k] # tradeLog[t][k]
  <2>1. tradeLog'[t][k].by = d /\ tradeLog[t][k].by \in {d, Nobody}
    BY <1>1, <1>5 DEF OthersKept
  <2>2. t = Hook(d) => k # Id(d)
    BY <1>2
  <2>3. ~IsClaim(t, k)
    <3> SUFFICES ASSUME IsClaim(t, k) PROVE FALSE
      OBVIOUS
    <3>1. tradeLog[t][k].by = d
      BY <1>1, <2>1, RouterAssumption DEF IsClaim, IInv, RowInv
    <3>2. t = Hook(d) /\ k = Id(d)
      BY <1>1, <3>1, OwnRows DEF IsClaim
    <3> QED
      BY <3>2, <2>2
  <2>4. ~IsClaim(t, k)'
    <3> SUFFICES ASSUME IsClaim(t, k)' PROVE FALSE
      OBVIOUS
    <3>1. t = Hook(d)
      BY <1>1, <1>3, <2>1 DEF IInv, RowInv, NoRow, Hook, Keys
    <3>2. k = Id(d)
      BY <2>1 DEF IsClaim, Id
    <3> QED
      BY <3>1, <3>2, <2>2
  <2> QED
    BY <2>3, <2>4 DEF StageOf
<1> QED
  BY <1>4, <1>5

LEMMA ChangedAtOne ==
    ASSUME NEW C, NEW f, NEW g, NEW a \in C, NEW v,
           f = [c \in C |-> f[c]], g = [c \in C |-> g[c]], g[a] = v,
           \A c \in C \ {a} : g[c] = f[c]
    PROVE  g = [f EXCEPT ![a] = v]
OBVIOUS

(* Seen from the ledger, such a step moves the signal of d, and its order. *)
LEMMA LedgerStepOfOne ==
    ASSUME IInv, IInv', NEW d \in Deliveries, Hook(d) \in Tenants, req' = req,
           OthersKept(d), sent \subseteq sent', sent' \subseteq sent \cup {d}
    PROVE  /\ LedgerStage' = [LedgerStage EXCEPT ![ClaimOf(d)] =
                                StageOf(Hook(d), Id(d))']
           /\ LedgerOrders' = [LedgerOrders EXCEPT ![ClaimOf(d)] =
                                 @ \cup (sent' \ sent)]
           /\ sent' = sent => LedgerOrders' = LedgerOrders
<1> DEFINE C == Tenants \X SignalIds
<1>1. \A c \in C \ {ClaimOf(d)} :
          StageOf(c[1], c[2])' = StageOf(c[1], c[2])
  BY StageElsewhere
<1>2. ClaimOf(d) \in C /\ ClaimOf(d)[1] = Hook(d) /\ ClaimOf(d)[2] = Id(d)
  BY ClaimTypes
<1>3. /\ LedgerStage = [c \in C |-> LedgerStage[c]]
      /\ LedgerStage' = [c \in C |-> LedgerStage'[c]]
  BY DEF LedgerStage
<1>4. \A c \in C : /\ LedgerStage[c] = StageOf(c[1], c[2])
                   /\ LedgerStage'[c] = StageOf(c[1], c[2])'
  BY DEF LedgerStage
<1>5. LedgerStage'[ClaimOf(d)] = StageOf(Hook(d), Id(d))'
  <2>1. PICK c \in C : c = ClaimOf(d)
    BY <1>2
  <2>2. LedgerStage'[c] = StageOf(c[1], c[2])'
    BY <1>4
  <2>3. c[1] = req'[d].hook /\ c[2] = req'[d].signal.id
    BY <1>2, <2>1 DEF Hook, Id
  <2>4. StageOf(c[1], c[2])' = StageOf(Hook(d), Id(d))'
    BY <2>3 DEF StageOf, IsClaim, Hook, Id
  <2> QED
    BY <2>1, <2>2, <2>4
<1>6. ASSUME NEW c \in C
      PROVE  LedgerOrders'[c] = IF c = ClaimOf(d)
                                THEN LedgerOrders[c] \cup (sent' \ sent)
                                ELSE LedgerOrders[c]
  <2>1. c # ClaimOf(d) => c[1] # Hook(d) \/ c[2] # Id(d)
    BY ClaimTypes
  <2>2. LedgerOrders'[c] = {e \in sent' : Hook(e) = c[1] /\ Id(e) = c[2]}
    BY DEF LedgerOrders, Hook, Id
  <2>3. LedgerOrders[c] = {e \in sent : Hook(e) = c[1] /\ Id(e) = c[2]}
    BY DEF LedgerOrders
  <2> QED
    BY <1>2, <2>1, <2>2, <2>3
<1>7. /\ LedgerOrders = [c \in C |-> LedgerOrders[c]]
      /\ LedgerOrders' = [c \in C |-> LedgerOrders'[c]]
  BY DEF LedgerOrders
<1>8. LedgerStage' = [LedgerStage EXCEPT ![ClaimOf(d)] =
                        StageOf(Hook(d), Id(d))']
  <2> HIDE DEF C
  <2>1. \A c \in C \ {ClaimOf(d)} : LedgerStage'[c] = LedgerStage[c]
    BY <1>1, <1>4
  <2> QED
    BY <1>2, <1>3, <1>5, <2>1, ChangedAtOne
<1>9. LedgerOrders' = [LedgerOrders EXCEPT ![ClaimOf(d)] =
                         LedgerOrders[ClaimOf(d)] \cup (sent' \ sent)]
  <2> HIDE DEF C
  <2> QED
    BY <1>2, <1>6, <1>7, ChangedAtOne
<1>10. sent' = sent => LedgerOrders' = LedgerOrders
  BY DEF LedgerOrders, Hook, Id
<1> QED
  BY <1>8, <1>9, <1>10

(* The stage of a signal that a live handler has reserved.                 *)
LEMMA StageOfReserved ==
    ASSUME IInv, NEW d \in Deliveries, pc[d] \in PastReserve
    PROVE  /\ Hook(d) \in Tenants
           /\ StageOf(Hook(d), Id(d)) = IF d \in sent THEN "ordered"
                                                    ELSE "claimed"
<1>1. Hook(d) \in Tenants /\ d # Nobody
  BY RouterAssumption DEF IInv, TypeOK, InFlight, PastReserve
<1>2. Holds(tradeLog[Hook(d)][Id(d)], d, "received")
  BY DEF IInv, HandlerInv, HandlerAt, ClaimRow, Log
<1> QED
  BY <1>1, <1>2 DEF StageOf, IsClaim, NoRow, Holds

LEMMA LedgerReserve ==
    ASSUME IInv, IInv', NEW d \in Deliveries, Reserve(d),
           Free(Hook(d), Id(d))
    PROVE  Ledger!Next
<1>1. /\ Hook(d) \in Tenants /\ Id(d) \in Keys /\ d # Nobody
      /\ req' = req /\ sent' = sent /\ d \notin sent
  BY KeyTypes, RouterAssumption
  DEF IInv, TypeOK, InFlight, Reserve, HandlerInv, HandlerAt
<1>2. OthersKept(d) /\ WritesRow(d, Hook(d), Id(d), "received")
  BY <1>1, InsertWrites DEF Reserve, RowStatuses
<1>3. StageOf(Hook(d), Id(d)) = "open"
  BY DEF StageOf, IsClaim, Free
<1>4. StageOf(Hook(d), Id(d))' = "claimed"
  BY <1>1, <1>2 DEF StageOf, IsClaim, WritesRow, Holds, NoRow, Hook, Id
<1>5. /\ LedgerStage' = [LedgerStage EXCEPT ![ClaimOf(d)] = "claimed"]
      /\ LedgerOrders' = LedgerOrders
  BY <1>1, <1>2, <1>4, LedgerStepOfOne
<1>6. /\ ClaimOf(d) \in Tenants \X SignalIds
      /\ LedgerStage[ClaimOf(d)] = "open"
  BY <1>1, <1>3, ClaimTypes DEF LedgerStage
<1> QED
  BY <1>5, <1>6 DEF Ledger!Next, Ledger!Claim

LEMMA LedgerReject ==
    ASSUME IInv, IInv', NEW d \in Deliveries, Reject(d)
    PROVE  Ledger!Next
<1>1. /\ pc[d] \in PastReserve /\ d # Nobody /\ d \notin sent
      /\ req' = req /\ sent' = sent
  BY RouterAssumption DEF Reject, PastReserve, IInv, HandlerInv, HandlerAt
<1>2. /\ Hook(d) \in Tenants
      /\ StageOf(Hook(d), Id(d)) = "claimed"
  BY <1>1, StageOfReserved
<1>3. OthersKept(d) /\ WritesRow(d, Hook(d), Id(d), "rejected")
  BY <1>1, SetReservationWrites DEF Reject, RowStatuses
<1>4. StageOf(Hook(d), Id(d))' = "refused"
  BY <1>1, <1>3 DEF StageOf, IsClaim, WritesRow, Holds, NoRow, Hook, Id
<1>5. /\ LedgerStage' = [LedgerStage EXCEPT ![ClaimOf(d)] = "refused"]
      /\ LedgerOrders' = LedgerOrders
  BY <1>1, <1>2, <1>3, <1>4, LedgerStepOfOne
<1>6. /\ ClaimOf(d) \in Tenants \X SignalIds
      /\ LedgerStage[ClaimOf(d)] = "claimed"
  BY <1>2, ClaimTypes DEF LedgerStage
<1> QED
  BY <1>5, <1>6 DEF Ledger!Next, Ledger!Refuse

LEMMA LedgerFinalize ==
    ASSUME IInv, IInv', NEW d \in Deliveries, Finalize(d)
    PROVE  Ledger!Next
<1>1. /\ pc[d] \in PastReserve /\ d # Nobody
      /\ req' = req /\ sent' = sent
  BY RouterAssumption DEF Finalize, PastReserve
<1>2. /\ Hook(d) \in Tenants
      /\ StageOf(Hook(d), Id(d)) \in {"claimed", "ordered"}
  BY <1>1, StageOfReserved
<1>3. OthersKept(d) /\ WritesRow(d, Hook(d), Id(d), "dispatched")
  BY <1>1, SetReservationWrites DEF Finalize, RowStatuses
<1>4. StageOf(Hook(d), Id(d))' = "settled"
  BY <1>1, <1>3 DEF StageOf, IsClaim, WritesRow, Holds, NoRow, Hook, Id
<1>5. /\ LedgerStage' = [LedgerStage EXCEPT ![ClaimOf(d)] = "settled"]
      /\ LedgerOrders' = LedgerOrders
  BY <1>1, <1>2, <1>3, <1>4, LedgerStepOfOne
<1>6. /\ ClaimOf(d) \in Tenants \X SignalIds
      /\ LedgerStage[ClaimOf(d)] \in {"claimed", "ordered"}
  BY <1>2, ClaimTypes DEF LedgerStage
<1> QED
  BY <1>5, <1>6 DEF Ledger!Next, Ledger!Settle

(* The result row is no reservation, whatever key it has.                  *)
LEMMA LedgerLogTrade ==
    ASSUME IInv, IInv', NEW d \in Deliveries, LogTrade(d),
           Free(Hook(d), ResultKey[Id(d)])
    PROVE  UNCHANGED Ledger!vars
<1>1. /\ pc[d] \in PastReserve /\ req' = req /\ sent' = sent
      /\ result[d] \in RowStatuses
  BY DEF LogTrade, PastReserve, IInv, TypeOK, BrokerStatuses, RowStatuses
<1>2. /\ Hook(d) \in Tenants
      /\ Id(d) \in Keys /\ ResultKey[Id(d)] \in Keys
      /\ Id(d) # ResultKey[Id(d)]
  BY <1>1, StageOfReserved, KeyTypes, RouterAssumption DEF IInv
<1>3. OthersKept(d) /\ WritesRow(d, Hook(d), ResultKey[Id(d)], result[d])
  BY <1>1, <1>2, InsertWrites DEF LogTrade
<1>4. tradeLog'[Hook(d)][Id(d)] = tradeLog[Hook(d)][Id(d)]
  BY <1>2, <1>3 DEF WritesRow
<1>5. StageOf(Hook(d), Id(d))' = StageOf(Hook(d), Id(d))
  BY <1>1, <1>4 DEF StageOf, IsClaim, Hook, Id, NoRow
<1>6. /\ LedgerStage' = [LedgerStage EXCEPT ![ClaimOf(d)] =
                           StageOf(Hook(d), Id(d))]
      /\ LedgerOrders' = LedgerOrders
  BY <1>1, <1>2, <1>3, <1>5, LedgerStepOfOne
<1>7. /\ ClaimOf(d) \in Tenants \X SignalIds
      /\ LedgerStage[ClaimOf(d)] = StageOf(Hook(d), Id(d))
  BY <1>2, ClaimTypes DEF LedgerStage
<1>8. LedgerStage' = LedgerStage
  BY <1>6, <1>7 DEF LedgerStage
<1> QED
  BY <1>6, <1>8 DEF Ledger!vars

(* Handing over the order of d: nobody else's order for that signal.       *)
LEMMA LedgerSend ==
    ASSUME IInv, IInv', NEW d \in Deliveries, pc[d] = "placing",
           tradeLog' = tradeLog, req' = req, sent' = sent \cup {d}
    PROVE  Ledger!Next
<1>1. pc[d] \in PastReserve /\ d \notin sent /\ d # Nobody
  BY RouterAssumption DEF PastReserve, IInv, HandlerInv, HandlerAt
<1>2. /\ Hook(d) \in Tenants
      /\ StageOf(Hook(d), Id(d)) = "claimed"
  BY <1>1, StageOfReserved
<1>3. Holds(tradeLog[Hook(d)][Id(d)], d, "received")
  BY <1>1 DEF IInv, HandlerInv, HandlerAt, ClaimRow, Log
<1>4. StageOf(Hook(d), Id(d))' = "ordered"
  BY <1>1, <1>3 DEF StageOf, IsClaim, Holds, NoRow, Hook, Id
<1>5. OthersKept(d)
  BY DEF OthersKept
<1>6. /\ LedgerStage' = [LedgerStage EXCEPT ![ClaimOf(d)] = "ordered"]
      /\ LedgerOrders' = [LedgerOrders EXCEPT ![ClaimOf(d)] =
                            @ \cup (sent' \ sent)]
  BY <1>2, <1>4, <1>5, LedgerStepOfOne
<1>7. /\ ClaimOf(d) \in Tenants \X SignalIds
      /\ LedgerStage[ClaimOf(d)] = "claimed"
  BY <1>2, ClaimTypes DEF LedgerStage
<1>8. LedgerOrders[ClaimOf(d)] = {}
  <2>1. ASSUME NEW e \in sent, Hook(e) = Hook(d), Id(e) = Id(d) PROVE FALSE
    <3>1. tradeLog[Hook(e)][Id(e)].by = e
      BY DEF IInv, TypeOK, HandlerInv, HandlerAt, Claimed, Log
    <3> QED
      BY <1>1, <1>3, <2>1, <3>1 DEF Holds
  <2>2. LedgerOrders[ClaimOf(d)] =
            {e \in sent : Hook(e) = Hook(d) /\ Id(e) = Id(d)}
    BY <1>2, <1>7, ClaimTypes DEF LedgerOrders
  <2> QED
    BY <2>1, <2>2
<1>9. LedgerOrders' = [LedgerOrders EXCEPT ![ClaimOf(d)] = {d}]
  <2>1. LedgerOrders[ClaimOf(d)] \cup (sent' \ sent) = {d}
    BY <1>1, <1>8
  <2> QED
    BY <1>6, <2>1
<1> QED
  BY <1>6, <1>7, <1>8, <1>9 DEF Ledger!Next, Ledger!Order

(* Every step is a step of the ledger or leaves it alone.                  *)
LEMMA StepRefines ==
    ASSUME IInv, IInv', [Next]_vars
    PROVE  [Ledger!Next]_(Ledger!vars)
<1>1. ASSUME NEW d \in Deliveries, Handle(d)
      PROVE  [Ledger!Next]_(Ledger!vars)
  <2>1. CASE \/ Load(d) \/ ReadBody(d) \/ Check(d) \/ Offline(d)
             \/ Sent(d) \/ SendRaises(d) \/ Reply(d) \/ Timeout(d) \/ Fail(d)
    BY <2>1, LedgerStutter
    DEF Load, ReadBody, Check, Offline, Sent, SendRaises, Reply, Timeout, Fail
  <2>2. CASE Send(d)
    BY <2>2, LedgerSend DEF Send
  <2>3. CASE Reserve(d)
    BY <2>3, LedgerReserve, LedgerStutter DEF Reserve
  <2>4. CASE Reject(d)
    BY <2>4, LedgerReject
  <2>5. CASE LogTrade(d)
    BY <2>5, LedgerLogTrade, LedgerStutter DEF LogTrade
  <2>6. CASE Finalize(d)
    BY <2>6, LedgerFinalize
  <2> QED
    BY <1>1, <2>1, <2>2, <2>3, <2>4, <2>5, <2>6 DEF Handle, Progress
<1>2. ASSUME NEW t \in Tenants, AccountRequest(t)
      PROVE  UNCHANGED Ledger!vars
  BY <1>2, LedgerStutter
  DEF AccountRequest, SetKillSwitch, GrantSubscription, RevokeSubscription,
      UpdateRiskSettings, UpdateSymbolMap, RegeneratePassphrase, Edit
<1>3. CASE Crash \/ Tick \/ UNCHANGED vars
  BY <1>3, LedgerStutter DEF Crash, Tick, vars
<1> QED
  BY <1>1, <1>2, <1>3 DEF Next

LEMMA InitRefines == Init => Ledger!Init
<1> SUFFICES ASSUME Init PROVE Ledger!Init
  OBVIOUS
<1>1. LedgerStage = [c \in Tenants \X SignalIds |-> "open"]
  <2>1. \A t \in Tenants, k \in SignalIds : StageOf(t, k) = "open"
    BY DEF Init, StageOf, IsClaim, Keys
  <2> QED
    BY <2>1 DEF LedgerStage
<1>2. LedgerOrders = [c \in Tenants \X SignalIds |-> {}]
  BY DEF Init, LedgerOrders
<1> QED
  BY <1>1, <1>2 DEF Ledger!Init

(* The pipeline implements the ledger: a signal is claimed once, refused   *)
(* or ordered once, and settled; no step of a retry, a failure, a crash or *)
(* an account request undoes any of it.                                    *)
THEOREM Implements == Spec => ImplementsLedger
BY InitRefines, StepRefines, InvariantHolds, PTL
DEF Spec, ImplementsLedger, Ledger!Spec

----------------------------------------------------------------------------
(* No result key is itself a signal_id somebody may send.                  *)
NoCollision == \A i, j \in SignalIds : ResultKey[i] # j

Genuine(d) ==
    \E e \in Deliveries \ {d} :
        Hook(e) = Hook(d) /\ Claimed(e) /\ Id(e) = Id(d)

(* A handler that writes the log leaves the rows of the others alone.      *)
LEMMA HandlerKeepsOthers ==
    ASSUME IInv, NEW d \in Deliveries, Handle(d), tradeLog' # tradeLog
    PROVE  OthersKept(d)
<1>1. /\ \/ Reserve(d) \/ Reject(d) \/ LogTrade(d) \/ Finalize(d)
      /\ Hook(d) \in Tenants /\ Id(d) \in Keys /\ ResultKey[Id(d)] \in Keys
  BY KeyTypes
  DEF Handle, Progress, Load, ReadBody, Reserve, Check, Reject, Offline,
      Send, Sent, SendRaises, Reply, Timeout, LogTrade, Finalize, Fail, IInv,
      TypeOK, InFlight
<1>2. CASE Reserve(d)
  BY <1>1, <1>2, InsertWrites DEF Reserve, RowStatuses
<1>3. CASE Reject(d)
  BY <1>3, SetReservationWrites DEF Reject, PastReserve, RowStatuses
<1>4. CASE LogTrade(d)
  <2>1. result[d] \in RowStatuses
    BY <1>4 DEF LogTrade, IInv, TypeOK, RowStatuses, BrokerStatuses
  <2> QED
    BY <1>1, <1>4, <2>1, InsertWrites DEF LogTrade
<1>5. CASE Finalize(d)
  BY <1>5, SetReservationWrites DEF Finalize, PastReserve, RowStatuses
<1> QED
  BY <1>1, <1>2, <1>3, <1>4, <1>5

(* A row stays with the delivery that inserted it.                         *)
LEMMA RowsStay ==
    ASSUME IInv, [Next]_vars, NEW t \in Tenants, NEW k \in Keys,
           tradeLog[t][k].by # Nobody
    PROVE  tradeLog'[t][k].by = tradeLog[t][k].by
<1>1. CASE \E d \in Deliveries : Handle(d)
  BY <1>1, HandlerKeepsOthers DEF OthersKept
<1>2. CASE ~\E d \in Deliveries : Handle(d)
  BY <1>2
  DEF Next, vars, AccountRequest, SetKillSwitch, GrantSubscription,
      RevokeSubscription, UpdateRiskSettings, UpdateSymbolMap,
      RegeneratePassphrase, Edit, Crash, Tick
<1> QED
  BY <1>1, <1>2

(* What a handler says is a duplicate, or another one's says still.        *)
LEMMA StepDuplicates ==
    ASSUME NoCollision, IInv, DuplicateIsGenuine, [Next]_vars
    PROVE  DuplicateIsGenuine'
<1>1. req' = req
  BY DEF Next, vars, Handle, Progress, Load, ReadBody, Reserve, Check, Reject,
     Offline, Send, Sent, SendRaises, Reply, Timeout, LogTrade, Finalize,
     Fail, AccountRequest, SetKillSwitch, GrantSubscription, RevokeSubscription,
     UpdateRiskSettings, UpdateSymbolMap, RegeneratePassphrase, Edit, Crash,
     Tick
<1>2. ASSUME NEW d \in Deliveries, Genuine(d)
      PROVE  Genuine(d)'
  <2>1. PICK e \in Deliveries \ {d} :
               Hook(e) = Hook(d) /\ Claimed(e) /\ Id(e) = Id(d)
    BY <1>2 DEF Genuine
  <2>2. Hook(e) \in Tenants /\ Id(e) \in Keys /\ e # Nobody
    BY <2>1, KeyTypes, RouterAssumption DEF Claimed, IInv
  <2>3. Claimed(e)'
    BY <1>1, <2>1, <2>2, RowsStay DEF Claimed, Log, Hook, Id
  <2> QED
    BY <1>1, <2>1, <2>3 DEF Genuine, Hook, Id
<1>3. ASSUME NEW d \in Deliveries, result'[d] = "duplicate",
             result[d] # "duplicate"
      PROVE  Genuine(d)
  <2>1. Reserve(d) /\ ~Free(Hook(d), Id(d))
    BY <1>3
    DEF Next, vars, Handle, Progress, Load, ReadBody, Reserve, Check, Reject,
        Offline, Send, Sent, SendRaises, Reply, Timeout, LogTrade, Finalize,
        Fail, Answer, Goto, BrokerStatuses, IInv, TypeOK,
        AccountRequest, SetKillSwitch, GrantSubscription, RevokeSubscription,
        UpdateRiskSettings, UpdateSymbolMap, RegeneratePassphrase, Edit,
        Crash, Tick
  <2>2. Hook(d) \in Tenants /\ Id(d) \in Keys /\ Id(d) \in SignalIds
    BY <2>1, KeyTypes DEF Reserve, IInv, TypeOK, InFlight
  <2>3. PICK e \in Deliveries :
          /\ Log(d)[Id(d)].by = e /\ Hook(e) = Hook(d)
          /\ Id(d) = Id(e) \/ Id(d) = ResultKey[Id(e)]
    BY <2>1, <2>2 DEF IInv, RowInv, Free, Log
  <2>4. Id(e) = Id(d)
    BY <2>2, <2>3, KeyTypes DEF NoCollision, IInv
  <2>5. e # d
    BY <2>1, <2>2, <2>3 DEF Reserve, IInv, HandlerInv, HandlerAt, Log
  <2> QED
    BY <2>2, <2>3, <2>4, <2>5 DEF Genuine, Claimed, Log
<1> QED
  BY <1>2, <1>3 DEF DuplicateIsGenuine, Genuine

(* As long as no signal_id ends in the suffix of the result rows, an alert *)
(* is called a duplicate only when another alert of that signal holds the  *)
(* claim: the collision is the only way to the contrary.                   *)
THEOREM DuplicatesGenuine ==
    ASSUME NoCollision
    PROVE  Spec => []DuplicateIsGenuine
<1>1. Init => DuplicateIsGenuine
  BY DEF Init, DuplicateIsGenuine
<1>2. IInv /\ DuplicateIsGenuine /\ [Next]_vars => DuplicateIsGenuine'
  BY StepDuplicates
<1> QED
  BY <1>1, <1>2, InvariantHolds, PTL DEF Spec

----------------------------------------------------------------------------
(* Where a handler stands, counted in steps.                               *)
Rank == [idle |-> 0, reading |-> 1, reserving |-> 2, checking |-> 3,
         rejecting |-> 4, placing |-> 4, sending |-> 5, waiting |-> 6,
         logging |-> 7, closing |-> 8, done |-> 9]

LEMMA HandlerForward ==
    ASSUME TypeOK, NEW d \in Deliveries, Handle(d)
    PROVE  /\ pc[d] \in Stations /\ pc'[d] \in Stations
           /\ Rank[pc'[d]] > Rank[pc[d]] /\ pc'[d] # pc[d]
           /\ \A e \in Deliveries \ {d} : pc'[e] = pc[e]
<1> USE DEF TypeOK, Stations, Rank, Goto, Answer
<1>1. CASE Load(d) \/ ReadBody(d) \/ Reserve(d) \/ Check(d) \/ Reject(d)
  BY <1>1 DEF Load, ReadBody, Reserve, Check, Reject
<1>2. CASE Offline(d) \/ Send(d) \/ Sent(d) \/ SendRaises(d)
  BY <1>2 DEF Offline, Send, Sent, SendRaises
<1>3. CASE Reply(d) \/ Timeout(d) \/ LogTrade(d) \/ Finalize(d) \/ Fail(d)
  BY <1>3 DEF Reply, Timeout, LogTrade, Finalize, Fail
<1> QED
  BY <1>1, <1>2, <1>3 DEF Handle, Progress

(* The safe half of HandlerEnds: a handler moves by its own steps or ends  *)
(* with the process, each step takes it further and none back, so no       *)
(* sequence of failures or account requests makes it run for ever, and it  *)
(* makes at most nine.                                                     *)
OnlyForward ==
    [][\A d \in Deliveries :
          /\ Handle(d) => Rank[pc'[d]] > Rank[pc[d]]
          /\ pc'[d] # pc[d] => Handle(d) \/ (Crash /\ pc'[d] = "done")]_vars

THEOREM HandlersAdvance == Spec => OnlyForward
<1>1. TypeOK /\ [Next]_vars =>
        [\A d \in Deliveries :
            /\ Handle(d) => Rank[pc'[d]] > Rank[pc[d]]
            /\ pc'[d] # pc[d] => Handle(d) \/ (Crash /\ pc'[d] = "done")]_vars
  <2> SUFFICES ASSUME TypeOK, Next, NEW d \in Deliveries
               PROVE  /\ Handle(d) => Rank[pc'[d]] > Rank[pc[d]]
                      /\ pc'[d] # pc[d] =>
                            Handle(d) \/ (Crash /\ pc'[d] = "done")
    OBVIOUS
  <2>1. ASSUME NEW e \in Deliveries, Handle(e)
        PROVE  pc'[d] # pc[d] => Handle(d)
    BY <2>1, HandlerForward
  <2>2. ASSUME NEW t \in Tenants, AccountRequest(t) PROVE pc' = pc
    BY <2>2 DEF AccountRequest, SetKillSwitch, GrantSubscription,
       RevokeSubscription, UpdateRiskSettings, UpdateSymbolMap,
       RegeneratePassphrase, Edit
  <2>3. Crash => pc'[d] = pc[d] \/ pc'[d] = "done"
    BY DEF Crash
  <2>4. Tick => pc' = pc
    BY DEF Tick
  <2> QED
    BY <2>1, <2>2, <2>3, <2>4, HandlerForward DEF Next
<1> QED
  BY <1>1, TypeCorrect, PTL DEF Spec, OnlyForward

----------------------------------------------------------------------------
(* What one step does to one row.                                          *)
RowStep(t, k) ==
    LET was == tradeLog[t][k]  is == tradeLog'[t][k] IN
    was # NoRow /\ is # was =>
        /\ is.by = was.by
        /\ was.status = "received"
        /\ is.status \in {"rejected", "dispatched"}

LEMMA WriteStep ==
    ASSUME IInv, NEW d \in Deliveries,
           Reserve(d) \/ Reject(d) \/ LogTrade(d) \/ Finalize(d),
           NEW t \in Tenants, NEW k \in Keys
    PROVE  RowStep(t, k)
<1>1. /\ Hook(d) \in Tenants /\ Id(d) \in Keys /\ ResultKey[Id(d)] \in Keys
      /\ pc[d] \in PastReserve \cup {"reserving"}
  BY KeyTypes DEF Reserve, Reject, LogTrade, Finalize, IInv, TypeOK, InFlight,
                  PastReserve
<1>2. ASSUME NEW j \in Keys, NEW status, Free(Hook(d), j),
             Insert(Hook(d), j, d, status)
      PROVE  RowStep(t, k)
  BY <1>1, <1>2 DEF Insert, Free, RowStep, IInv, TypeOK
<1>3. ASSUME NEW status \in {"rejected", "dispatched"},
             SetReservation(d, status), pc[d] \in PastReserve
      PROVE  RowStep(t, k)
  <2>1. status \in RowStatuses
    BY DEF RowStatuses
  <2>2. WritesRow(d, Hook(d), Id(d), status)
    BY <1>3, <2>1, SetReservationWrites
  <2>3. Holds(tradeLog[Hook(d)][Id(d)], d, "received")
    BY <1>3 DEF IInv, HandlerInv, HandlerAt, ClaimRow, Log
  <2> QED
    BY <1>1, <2>2, <2>3 DEF WritesRow, Holds, RowStep
<1> QED
  BY <1>1, <1>2, <1>3
  DEF Reserve, Reject, LogTrade, Finalize, PastReserve, RowStep

(* Only a handler at one of these steps writes the log.                    *)
LEMMA LogWritten ==
    ASSUME [Next]_vars
    PROVE  \/ tradeLog' = tradeLog
           \/ \E d \in Deliveries :
                 Reserve(d) \/ Reject(d) \/ LogTrade(d) \/ Finalize(d)
BY DEF Next, vars, Handle, Progress, Load, ReadBody, Check, Offline, Send,
   Sent, SendRaises, Reply, Timeout, Fail, AccountRequest, SetKillSwitch,
   GrantSubscription, RevokeSubscription, UpdateRiskSettings,
   UpdateSymbolMap, RegeneratePassphrase, Edit, Crash, Tick

(* The trade list is never rewritten: no row disappears or changes hands,  *)
(* a result stays as it was recorded, and a reservation is closed once, as *)
(* rejected or as dispatched, whatever is retried, fails or crashes.       *)
RowsAreFinal == [][\A t \in Tenants, k \in Keys : RowStep(t, k)]_vars

THEOREM RowsNeverRewritten == Spec => RowsAreFinal
<1>1. IInv /\ [Next]_vars => [\A t \in Tenants, k \in Keys : RowStep(t, k)]_vars
  BY WriteStep, LogWritten DEF RowStep
<1> QED
  BY <1>1, InvariantHolds, PTL DEF Spec, RowsAreFinal

----------------------------------------------------------------------------
(* What a row in a customer's trade list proves.                           *)
AuthorInv ==
    /\ \A d \in Deliveries :
          pc[d] \in PastReserve \cup {"reserving"} => Authorised(d)
    /\ \A d \in Deliveries, t \in Tenants, k \in Keys :
          tradeLog[t][k].by = d => Authorised(d)

LEMMA StepAuthor ==
    ASSUME IInv, AuthorInv, [Next]_vars
    PROVE  AuthorInv'
<1>1. ASSUME NEW d \in Deliveries, Authorised(d), pc[d] # "idle"
      PROVE  Authorised(d)'
  BY <1>1, SnapKept DEF IInv, Authorised
<1>2. ASSUME NEW d \in Deliveries,
             pc'[d] \in PastReserve \cup {"reserving"}
      PROVE  Authorised(d)' /\ pc[d] # "idle"
  <2>1. \/ pc[d] \in PastReserve \cup {"reserving"}
        \/ pc[d] = "reading" /\ Authorised(d)
    <3>1. CASE pc'[d] = pc[d]
      BY <1>2, <3>1
    <3>2. ASSUME NEW e \in Deliveries, Handle(e), pc'[d] # pc[d]
          PROVE  \/ pc[d] \in PastReserve \cup {"reserving"}
                 \/ pc[d] = "reading" /\ Authorised(d)
      <4>1. e = d
        BY <3>2, HandlerForward DEF IInv
      <4> QED
        BY <1>2, <3>2, <4>1
        DEF Handle, Progress, Load, ReadBody, Reserve, Check, Reject, Offline,
            Send, Sent, SendRaises, Reply, Timeout, LogTrade, Finalize, Fail,
            Goto, Answer, PastReserve, IInv, TypeOK
    <3>3. Crash => pc'[d] = pc[d] \/ pc'[d] = "done"
      BY DEF Crash
    <3>4. ASSUME ~(\E e \in Deliveries : Handle(e)), ~Crash
          PROVE  pc' = pc
      BY <3>4
      DEF Next, vars, AccountRequest, SetKillSwitch, GrantSubscription,
          RevokeSubscription, UpdateRiskSettings, UpdateSymbolMap,
          RegeneratePassphrase, Edit, Tick
    <3> QED
      BY <1>2, <3>1, <3>2, <3>3, <3>4 DEF PastReserve
  <2> QED
    BY <1>1, <2>1 DEF AuthorInv, PastReserve
<1>3. ASSUME NEW d \in Deliveries, NEW t \in Tenants, NEW k \in Keys,
             tradeLog'[t][k].by = d
      PROVE  Authorised(d)'
  <2>1. CASE tradeLog[t][k].by = d
    <3>1. pc[d] # "idle"
      BY <2>1 DEF IInv, HandlerInv, HandlerAt
    <3> QED
      BY <1>1, <2>1, <3>1 DEF AuthorInv
  <2>2. CASE tradeLog[t][k].by # d
    <3>1. PICK e \in Deliveries :
             Reserve(e) \/ Reject(e) \/ LogTrade(e) \/ Finalize(e)
      BY <1>3, <2>2, LogWritten
    <3>2. pc[e] \in PastReserve \cup {"reserving"}
      BY <3>1 DEF Reserve, Reject, LogTrade, Finalize, PastReserve
    <3>3. e = d
      BY <1>3, <2>2, <3>1, HandlerKeepsOthers
      DEF OthersKept, Handle, Progress
    <3> QED
      BY <1>1, <3>2, <3>3 DEF AuthorInv, PastReserve
  <2> QED
    BY <2>1, <2>2
<1> QED
  BY <1>2, <1>3 DEF AuthorInv, Authorised, PastReserve

(* Every row of a customer's trade list is of an alert to his own webhook, *)
(* with the passphrase of his row as it was when the alert came in, and a  *)
(* valid signal: nobody else's delivery writes there.                      *)
OnlyAuthorisedLogged ==
    \A t \in Tenants, k \in Keys :
        LET d == tradeLog[t][k].by IN
        tradeLog[t][k] # NoRow => Hook(d) = t /\ Authorised(d)

THEOREM LogIsAuthorised == Spec => []OnlyAuthorisedLogged
<1>1. Init => AuthorInv
  BY RouterAssumption DEF Init, AuthorInv, NoRow, PastReserve
<1>2. IInv /\ AuthorInv => OnlyAuthorisedLogged
  BY DEF IInv, RowInv, AuthorInv, OnlyAuthorisedLogged
<1> QED
  BY <1>1, <1>2, StepAuthor, InvariantHolds, PTL DEF Spec

----------------------------------------------------------------------------
(* An order that was handed over ends with a broker answer or an exception.*)
SentAnswered ==
    \A d \in sent : pc[d] = "done" => result[d] \in BrokerStatuses \cup {"failed"}

LEMMA StepSentAnswered ==
    ASSUME IInv, SentAnswered, [Next]_vars
    PROVE  SentAnswered'
<1> SUFFICES ASSUME NEW d \in sent', pc'[d] = "done"
             PROVE  result'[d] \in BrokerStatuses \cup {"failed"}
  BY DEF SentAnswered
<1>1. d \in Deliveries /\ pc[d] # "idle"
  BY SentFromPlacing DEF IInv, TypeOK, HandlerInv, HandlerAt
<1>2. CASE pc'[d] = pc[d]
  <2>1. d \in sent
    BY <1>2, SentFromPlacing
  <2>2. result'[d] = result[d]
    <3>1. ASSUME NEW e \in Deliveries, Handle(e) PROVE result'[d] = result[d]
      <4>1. e # d
        BY <1>2, <3>1, HandlerForward DEF IInv
      <4> QED
        BY <1>1, <3>1, <4>1
        DEF Handle, Progress, Load, ReadBody, Reserve, Check, Reject, Offline,
            Send, Sent, SendRaises, Reply, Timeout, LogTrade, Finalize, Fail,
            Answer, IInv, TypeOK
    <3>2. Crash => result'[d] = result[d]
      BY <1>1, <1>2 DEF Crash, InFlight
    <3>3. ASSUME ~(\E e \in Deliveries : Handle(e)), ~Crash
          PROVE  result' = result
      BY <3>3
      DEF Next, vars, AccountRequest, SetKillSwitch, GrantSubscription,
          RevokeSubscription, UpdateRiskSettings, UpdateSymbolMap,
          RegeneratePassphrase, Edit, Tick
    <3> QED
      BY <3>1, <3>2, <3>3
  <2> QED
    BY <1>2, <2>1, <2>2 DEF SentAnswered
<1>3. CASE pc'[d] # pc[d] /\ Handle(d)
  <2>1. d \in sent /\ pc[d] \in {"sending", "waiting", "logging", "closing"}
    <3>1. ~Send(d)
      BY <1>1 DEF Send, Goto, IInv, TypeOK
    <3>2. d \in sent
      BY <1>1, <1>3, <3>1
      DEF Handle, Progress, Load, ReadBody, Reserve, Check, Reject, Offline,
          Sent, SendRaises, Reply, Timeout, LogTrade, Finalize, Fail
    <3> QED
      BY <1>1, <1>3, <3>2 DEF IInv, HandlerInv, HandlerAt
  <2> QED
    BY <1>1, <1>3, <2>1
    DEF Handle, Progress, Load, ReadBody, Reserve, Check, Reject, Offline,
        Send, Sent, SendRaises, Reply, Timeout, LogTrade, Finalize, Fail,
        Goto, Answer, IInv, TypeOK
<1>4. CASE pc'[d] # pc[d] /\ Crash
  BY <1>1, <1>4 DEF Crash, InFlight
<1>5. pc'[d] # pc[d] => Handle(d) \/ Crash
  <2>1. ASSUME NEW e \in Deliveries, Handle(e), pc'[d] # pc[d]
        PROVE  Handle(d)
    BY <1>1, <2>1, HandlerForward DEF IInv
  <2> QED
    BY <2>1
    DEF Next, vars, AccountRequest, SetKillSwitch, GrantSubscription,
        RevokeSubscription, UpdateRiskSettings, UpdateSymbolMap,
        RegeneratePassphrase, Edit, Tick
<1> QED
  BY <1>2, <1>3, <1>4, <1>5

(* The two rows list_trades counts on are there for every order that was   *)
(* handed over and whose request did not end in an exception: the way the  *)
(* run send_raises finds is the only way to fewer.                         *)
TwoRowsUnlessFailed ==
    \A d \in sent : pc[d] = "done" /\ result[d] # "failed" =>
        {k \in Keys : Log(d)[k].by = d} = {Id(d), ResultKey[Id(d)]}

THEOREM TwoRowsIfAnswered == Spec => []TwoRowsUnlessFailed
<1>1. Init => SentAnswered
  BY DEF Init, SentAnswered
<1>2. IInv /\ SentAnswered => TwoRowsUnlessFailed
  <2> SUFFICES ASSUME IInv, SentAnswered, NEW d \in sent, pc[d] = "done",
                      result[d] # "failed"
               PROVE  {k \in Keys : Log(d)[k].by = d}
                         = {Id(d), ResultKey[Id(d)]}
    BY DEF TwoRowsUnlessFailed
  <2>1. /\ d \in Deliveries /\ result[d] \in BrokerStatuses
        /\ Id(d) \in Keys /\ ResultKey[Id(d)] \in Keys
    BY KeyTypes DEF SentAnswered, IInv, TypeOK
  <2>2. Hook(d) \in Tenants /\ Holds(ClaimRow(d), d, "dispatched")
          /\ Holds(ResultRow(d), d, result[d])
    <3>1. HandlerAt(d, "done", result[d], TRUE)
      BY <2>1 DEF IInv, HandlerInv
    <3>2. ClaimRow(d).status # "rejected"
      <4>1. Hook(d) \in Tenants /\ ClaimRow(d).by = d
        BY <3>1 DEF HandlerAt, Claimed, ClaimRow
      <4>2. Id(d) # ResultKey[Id(d)]
        BY <2>1, KeyTypes, RouterAssumption DEF IInv
      <4>3. ReservationInv(d, ClaimRow(d).status)
        BY <2>1, <4>1, <4>2, OwnRows DEF ClaimRow, Log
      <4> QED
        BY <4>3 DEF ReservationInv
    <3> QED
      BY <2>1, <3>1, <3>2 DEF HandlerAt, Holds
  <2>3. \A k \in Keys : Log(d)[k].by = d => k \in {Id(d), ResultKey[Id(d)]}
    BY <2>1, <2>2, OwnRows DEF Log
  <2> QED
    BY <2>1, <2>2, <2>3 DEF Holds, ClaimRow, ResultRow
<1> QED
  BY <1>1, <1>2, StepSentAnswered, InvariantHolds, PTL DEF Spec
=============================================================================

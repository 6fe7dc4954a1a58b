--------------------------- MODULE PipelineProofs ---------------------------
(***************************************************************************)
(* Proofs about Pipeline, for every set of deliveries, tenants and alerts. *)
(* The pipeline's steps are steps of OrderRouter, so its invariant (IInv)  *)
(* holds here; PipeInv adds what the answers and the rows say about the    *)
(* orders that were run.                                                   *)
(***************************************************************************)
EXTENDS Pipeline, OrderRouterProofs

(* What stands behind a broker status given to d.                          *)
Told(d, status) ==
    /\ status = "accepted" => d \in placed
    /\ status = "rejected" => outcome[d] = "offline" \/ d \in ran

PortStages == {"idle", "out", "over"}
PortOutcomes == {"none", "offline", "accepted", "rejected", "error", "failed"}

PortTyped ==
    /\ stage \in [Deliveries -> PortStages]
    /\ outcome \in [Deliveries -> PortOutcomes]
    /\ ran \subseteq sent /\ placed \subseteq ran /\ traded \subseteq placed
    /\ \A d \in placed \ traded : IsLimit(d)

CallInv(d) ==
    /\ outcome[d] = "offline" => stage[d] = "over"
    /\ pc[d] \notin {"logging", "closing", "done"} => result[d] = "none"
    /\ pc[d] = "logging" => Told(d, result[d])
    /\ result[d] \in OpenResults \/ d \notin sent \/ d \in ran

(* Result rows say what the broker said of the order.                      *)
RowsTold ==
    \A t \in Tenants, k \in Keys, d \in Deliveries :
        tradeLog[t][k].by = d /\ k = ResultKey[Id(d)] =>
            Told(d, tradeLog[t][k].status)

PipeInv == PortTyped /\ (\A d \in Deliveries : CallInv(d)) /\ RowsTold

----------------------------------------------------------------------------
(* The pipeline is the router with something behind it.                    *)
LEMMA StepOfRouter == [PipeNext]_pipeVars => [Next]_vars
BY DEF PipeNext, pipeVars, PlaceOrder, Execute, Fill, Beside, Next, Handle,
       Progress

LEMMA RouterInvariant == PipeSpec => []IInv
<1>1. PipeInit => Init
  BY DEF PipeInit
<1> QED
  BY <1>1, StepOfRouter, InvariantHolds, PTL DEF PipeSpec, Spec

(* Nothing that was said is taken back by the broker.                      *)
LEMMA ToldStays ==
    ASSUME PipeInv, NEW d \in Deliveries, NEW status, Told(d, status),
           ran \subseteq ran', placed \subseteq placed',
           outcome[d] = "offline" => outcome'[d] = "offline"
    PROVE  Told(d, status)'
BY DEF Told

LEMMA PortGrows ==
    ASSUME PipeInv, [PipeNext]_pipeVars
    PROVE  /\ ran \subseteq ran' /\ placed \subseteq placed'
           /\ \A d \in Deliveries :
                 outcome[d] = "offline" => outcome'[d] = "offline"
<1> USE DEF PipeInv, PortTyped, CallInv
<1>1. ASSUME NEW d \in Deliveries, PlaceOrder(d)
      PROVE  /\ ran \subseteq ran' /\ placed \subseteq placed'
             /\ \A e \in Deliveries :
                   outcome[e] = "offline" => outcome'[e] = "offline"
  BY <1>1 DEF PlaceOrder, Port!Refuse, Port!Hand, Port!Raise, Port!Answer,
              Port!Over, port
<1>2. ASSUME NEW d \in Deliveries, Execute(d) \/ Fill(d)
      PROVE  ran \subseteq ran' /\ placed \subseteq placed' /\ outcome' = outcome
  BY <1>2 DEF Execute, Fill, Port!Execute, Port!Fill
<1>3. ASSUME Port!Abandon
      PROVE  /\ ran \subseteq ran' /\ placed \subseteq placed'
             /\ \A e \in Deliveries :
                   outcome[e] = "offline" => outcome'[e] = "offline"
  BY <1>3 DEF Port!Abandon
<1>4. CASE UNCHANGED port
  BY <1>4 DEF port
<1> QED
  BY <1>1, <1>2, <1>3, <1>4 DEF PipeNext, pipeVars

LEMMA AccountStep ==
    ASSUME NEW t \in Tenants, AccountRequest(t)
    PROVE  UNCHANGED <<tradeLog, req, pc, result, sent>>
<1>1. \A newRow : Edit(t, newRow) =>
          UNCHANGED <<tradeLog, req, pc, result, sent>>
  BY DEF Edit
<1> QED
  BY <1>1 DEF AccountRequest, SetKillSwitch, GrantSubscription,
              RevokeSubscription, UpdateRiskSettings, UpdateSymbolMap,
              RegeneratePassphrase

LEMMA RequestsKept == [PipeNext]_pipeVars => req' = req
BY StepOfRouter, RequestFixed

LEMMA PortTypedStep ==
    ASSUME PipeInv, [PipeNext]_pipeVars
    PROVE  PortTyped'
<1> USE DEF PipeInv, PortTyped
<1>0. \A d : IsLimit(d)' = IsLimit(d)
  BY RequestsKept DEF IsLimit
<1>1. ASSUME NEW d \in Deliveries, PlaceOrder(d) PROVE PortTyped'
  <2>1. sent \subseteq sent' /\ UNCHANGED <<ran, placed, traded>>
    BY <1>1 DEF PlaceOrder, Offline, Send, Sent, SendRaises, Reply, Timeout,
                Port!Refuse, Port!Hand, Port!Raise, Port!Answer, Port!Over,
                port
  <2>2. ASSUME NEW o \in PortOutcomes, Port!Over(d, o)
        PROVE  /\ stage' \in [Deliveries -> PortStages]
               /\ outcome' \in [Deliveries -> PortOutcomes]
    BY <2>2 DEF Port!Over, PortStages
  <2>3. ASSUME Port!Hand(d)
        PROVE  /\ stage' \in [Deliveries -> PortStages]
               /\ outcome' \in [Deliveries -> PortOutcomes]
    BY <2>3 DEF Port!Hand, PortStages
  <2>4. \/ Port!Hand(d) \/ UNCHANGED <<stage, outcome>>
        \/ \E o \in PortOutcomes : Port!Over(d, o)
    BY <1>1 DEF PlaceOrder, Port!Refuse, Port!Raise, Port!Answer, port,
                PortOutcomes
  <2> QED
    BY <1>0, <2>1, <2>2, <2>3, <2>4
<1>2. ASSUME NEW d \in Deliveries, Execute(d) PROVE PortTyped'
  BY <1>0, <1>2 DEF Execute, Port!Execute, vars
<1>6. ASSUME NEW d \in Deliveries, Fill(d) PROVE PortTyped'
  BY <1>0, <1>6 DEF Fill, Port!Fill, vars
<1>3. ASSUME Crash, Port!Abandon PROVE PortTyped'
  BY <1>0, <1>3 DEF Crash, Port!Abandon, PortStages, PortOutcomes
<1>4. ASSUME Beside, UNCHANGED port PROVE PortTyped'
  <2>1. sent' = sent
    BY <1>4, AccountStep
    DEF Beside, Load, ReadBody, Reserve, Check, Reject, LogTrade, Finalize,
        Fail, Tick
  <2> QED
    BY <1>0, <1>4, <2>1 DEF port
<1>5. CASE UNCHANGED pipeVars
  BY <1>0, <1>5 DEF pipeVars, vars, port
<1> HIDE DEF PipeInv, PortTyped
<1> QED
  BY <1>1, <1>2, <1>3, <1>4, <1>5, <1>6 DEF PipeNext

LEMMA SentLate ==
    ASSUME IInv, NEW d \in Deliveries
    PROVE  d \in sent =>
              pc[d] \in {"sending", "waiting", "logging", "closing", "done"}
BY DEF IInv, HandlerInv, HandlerAt

(* The other deliveries, in a step of d.                                   *)
LEMMA OtherCalls ==
    ASSUME PipeInv, [PipeNext]_pipeVars, NEW d \in Deliveries,
           \A e \in Deliveries \ {d} :
              /\ pc'[e] = pc[e] /\ result'[e] = result[e]
              /\ stage'[e] = stage[e] /\ outcome'[e] = outcome[e]
              /\ e \in sent' <=> e \in sent
    PROVE  \A e \in Deliveries \ {d} : CallInv(e)'
<1> SUFFICES ASSUME NEW e \in Deliveries \ {d} PROVE CallInv(e)'
  OBVIOUS
<1>1. CallInv(e) /\ ran \subseteq ran' /\ placed \subseteq placed'
  BY PortGrows DEF PipeInv
<1> QED
  BY <1>1 DEF CallInv, Told, OpenResults

LEMMA PlaceOrderCalls ==
    ASSUME IInv, PipeInv, [PipeNext]_pipeVars, NEW d \in Deliveries, PlaceOrder(d)
    PROVE  \A e \in Deliveries : CallInv(e)'
<1> USE DEF Goto, Answer, Port!Refuse, Port!Hand, Port!Raise, Port!Answer,
            Port!Over, port
<1>1. /\ pc \in [Deliveries -> Stations] /\ result \in [Deliveries -> Results]
      /\ stage \in [Deliveries -> PortStages]
      /\ outcome \in [Deliveries -> PortOutcomes]
      /\ ran \subseteq sent /\ placed \subseteq ran
      /\ CallInv(d) /\ (pc[d] = "placing" => d \notin sent)
  BY SentLate DEF IInv, TypeOK, PipeInv, PortTyped
<1>2. \A e \in Deliveries \ {d} :
          /\ pc'[e] = pc[e] /\ result'[e] = result[e]
          /\ stage'[e] = stage[e] /\ outcome'[e] = outcome[e]
          /\ e \in sent' <=> e \in sent
  BY <1>1 DEF PlaceOrder, Offline, Send, Sent, SendRaises, Reply, Timeout
<1>3. CASE Offline(d) /\ Port!Refuse(d)
  BY <1>1, <1>2, <1>3, OtherCalls DEF Offline, CallInv, Told, OpenResults
<1>4. CASE Send(d) /\ Port!Hand(d)
  BY <1>1, <1>2, <1>4, OtherCalls DEF Send, CallInv, Told, OpenResults
<1>5. CASE SendRaises(d) /\ Port!Raise(d)
  BY <1>1, <1>2, <1>5, OtherCalls DEF SendRaises, CallInv, Told, OpenResults
<1>8. CASE Sent(d) /\ UNCHANGED port
  BY <1>1, <1>2, <1>8, OtherCalls DEF Sent, CallInv, Told, OpenResults
<1>6. CASE Reply(d) /\ Port!Answer(d, result'[d])
  <2>1. /\ pc'[d] = "logging" /\ stage'[d] = "over"
        /\ outcome'[d] = result'[d] /\ UNCHANGED <<ran, placed, sent>>
        /\ result'[d] \in {"accepted", "rejected", "error"}
        /\ result'[d] = "accepted" => d \in placed
        /\ result'[d] = "rejected" => d \in ran
    BY <1>1, <1>6 DEF Reply
  <2>2. CallInv(d)'
    BY <1>1, <2>1 DEF CallInv, Told, OpenResults
  <2> QED
    BY <1>2, <2>2, OtherCalls
<1>7. CASE Timeout(d) /\ Port!Answer(d, "error")
  BY <1>1, <1>2, <1>7, OtherCalls DEF Timeout, CallInv, Told, OpenResults
<1> QED
  BY <1>3, <1>4, <1>5, <1>6, <1>7, <1>8 DEF PlaceOrder

LEMMA LocalCalls ==
    ASSUME IInv, PipeInv, [PipeNext]_pipeVars, NEW d \in Deliveries,
           UNCHANGED port,
           \/ Load(d) \/ ReadBody(d) \/ Reserve(d) \/ Check(d) \/ Reject(d)
           \/ LogTrade(d) \/ Finalize(d) \/ Fail(d)
    PROVE  \A e \in Deliveries : CallInv(e)'
<1> USE DEF Goto, Answer
<1>1. /\ pc \in [Deliveries -> Stations] /\ result \in [Deliveries -> Results]
      /\ CallInv(d) /\ UNCHANGED <<stage, outcome, ran, placed>>
      /\ d \in sent =>
            pc[d] \in {"sending", "waiting", "logging", "closing", "done"}
  BY SentLate DEF IInv, TypeOK, PipeInv, port
<1>2. /\ \A e \in Deliveries \ {d} : pc'[e] = pc[e] /\ result'[e] = result[e]
      /\ sent' = sent
  BY <1>1 DEF Load, ReadBody, Reserve, Check, Reject, LogTrade, Finalize, Fail
<1>3. CallInv(d)'
  <2>1. CASE Load(d) \/ ReadBody(d) \/ Reserve(d) \/ Check(d) \/ Reject(d)
    BY <1>1, <1>2, <2>1 DEF Load, ReadBody, Reserve, Check, Reject, CallInv, Told, OpenResults
  <2>2. CASE LogTrade(d) \/ Finalize(d) \/ Fail(d)
    BY <1>1, <1>2, <2>2 DEF LogTrade, Finalize, Fail, CallInv, Told, OpenResults
  <2> QED
    BY <2>1, <2>2
<1> QED
  BY <1>1, <1>2, <1>3, OtherCalls

LEMMA StepCalls ==
    ASSUME IInv, PipeInv, [PipeNext]_pipeVars
    PROVE  \A e \in Deliveries : CallInv(e)'
<1> SUFFICES ASSUME NEW e \in Deliveries PROVE CallInv(e)'
  OBVIOUS
<1>1. /\ PortTyped /\ CallInv(e)
      /\ pc \in [Deliveries -> Stations] /\ result \in [Deliveries -> Results]
  BY DEF IInv, TypeOK, PipeInv
<1>2. ASSUME NEW d \in Deliveries, PlaceOrder(d) PROVE CallInv(e)'
  BY <1>2, PlaceOrderCalls
<1>3. ASSUME NEW d \in Deliveries, Execute(d) PROVE CallInv(e)'
  BY <1>1, <1>3 DEF Execute, Port!Execute, vars, CallInv, Told, OpenResults
<1>7. ASSUME NEW d \in Deliveries, Fill(d) PROVE CallInv(e)'
  BY <1>1, <1>7 DEF Fill, Port!Fill, vars, CallInv, Told, OpenResults
<1>4. ASSUME Crash, Port!Abandon PROVE CallInv(e)'
  <2>1. /\ \/ pc'[e] = pc[e] /\ result'[e] = result[e]
           \/ pc'[e] = "done" /\ result'[e] = "failed"
        /\ UNCHANGED <<sent, ran, placed>>
    BY <1>4 DEF Crash, Port!Abandon, InFlight
  <2>2. /\ outcome'[e] = "offline" => outcome[e] = "offline" /\ stage'[e] = stage[e]
        /\ outcome[e] = "offline" => outcome'[e] = "offline"
    BY <1>1, <1>4 DEF Port!Abandon, CallInv
  <2> QED
    BY <1>1, <2>1, <2>2 DEF CallInv, Told, OpenResults
<1>5. ASSUME Beside, UNCHANGED port PROVE CallInv(e)'
  <2>1. CASE UNCHANGED <<pc, result, sent>>
    BY <1>1, <1>5, <2>1 DEF port, CallInv, Told, OpenResults
  <2>2. ASSUME NEW t \in Tenants, AccountRequest(t)
        PROVE  UNCHANGED <<pc, result, sent>>
    BY <2>2, AccountStep
  <2>3. Tick => UNCHANGED <<pc, result, sent>>
    BY DEF Tick
  <2> QED
    BY <1>5, <2>1, <2>2, <2>3, LocalCalls DEF Beside
<1>6. CASE UNCHANGED pipeVars
  BY <1>1, <1>6 DEF pipeVars, vars, port, CallInv, Told, OpenResults
<1> QED
  BY <1>2, <1>3, <1>4, <1>5, <1>6, <1>7 DEF PipeNext

(* A row that is inserted at a result key says what its deliverer was told. *)
LEMMA LocalRows ==
    ASSUME IInv, PipeInv, [PipeNext]_pipeVars, NEW d \in Deliveries,
           Reserve(d) \/ Reject(d) \/ LogTrade(d) \/ Finalize(d)
    PROVE  RowsTold'
<1> DEFINE t == Hook(d)
<1>1. /\ tradeLog \in [Tenants -> [Keys -> LogRows]]
      /\ t \in Tenants /\ Id(d) \in SignalIds
      /\ Id(d) \in Keys /\ ResultKey[Id(d)] \in Keys
      /\ Id(d) # ResultKey[Id(d)]
      /\ RowsTold
  BY KeyTypes, RouterAssumption
  DEF IInv, TypeOK, InFlight, Reserve, Reject, LogTrade, Finalize, PipeInv
<1>2. \A e \in Deliveries : Id(e)' = Id(e)
  BY DEF Reserve, Reject, LogTrade, Finalize, Id
<1>3. ASSUME NEW u \in Tenants, NEW k \in Keys, NEW e \in Deliveries,
             tradeLog'[u][k].by = e, k = ResultKey[Id(e)]
      PROVE  Told(e, tradeLog'[u][k].status)
  <2>1. CASE tradeLog'[u][k] = tradeLog[u][k]
    BY <1>1, <1>3, <2>1 DEF RowsTold
  <2>2. CASE tradeLog'[u][k] # tradeLog[u][k]
    <3>1. CASE Reserve(d)
      <4>1. k = Id(d) /\ e = d
        BY <1>1, <1>3, <2>2, <3>1 DEF Reserve, Insert
      <4> QED
        BY <1>1, <1>3, <4>1
    <3>2. CASE Reject(d) \/ Finalize(d)
      <4>1. pc[d] \in PastReserve /\ \E status \in RowStatuses :
                                        SetReservation(d, status)
        BY <3>2 DEF Reject, Finalize, PastReserve, RowStatuses
      <4>2. k = Id(d) /\ e = d
        BY <1>1, <1>3, <2>2, <4>1, SetReservationWrites DEF WritesRow, Holds
      <4> QED
        BY <1>1, <1>3, <4>2
    <3>3. CASE LogTrade(d)
      <4>1. /\ e = d /\ tradeLog'[u][k].status = result[d]
            /\ pc[d] = "logging"
        BY <1>1, <1>3, <2>2, <3>3 DEF LogTrade, Insert
      <4> QED
        BY <4>1 DEF PipeInv, CallInv
    <3> QED
      BY <3>1, <3>2, <3>3
  <2> QED
    BY <2>1, <2>2
<1>4. SUFFICES ASSUME NEW u \in Tenants, NEW k \in Keys, NEW e \in Deliveries,
                      tradeLog'[u][k].by = e, k = ResultKey[Id(e)]
               PROVE  Told(e, tradeLog[u][k].status)'
  BY <1>2 DEF RowsTold
<1> QED
  BY <1>3, <1>4, PortGrows DEF Told

LEMMA StepRows ==
    ASSUME IInv, PipeInv, [PipeNext]_pipeVars
    PROVE  RowsTold'
<1>1. CASE UNCHANGED <<tradeLog, req>>
  <2>1. ASSUME NEW t \in Tenants, NEW k \in Keys, NEW d \in Deliveries,
               tradeLog[t][k].by = d, k = ResultKey[Id(d)]
        PROVE  Told(d, tradeLog[t][k].status)
    BY <2>1 DEF PipeInv, RowsTold
  <2>2. SUFFICES ASSUME NEW t \in Tenants, NEW k \in Keys, NEW d \in Deliveries,
                        tradeLog[t][k].by = d, k = ResultKey[Id(d)]
                 PROVE  Told(d, tradeLog[t][k].status)'
    BY <1>1 DEF RowsTold, Id
  <2> QED
    BY <1>1, <2>1, <2>2, PortGrows DEF Told
<1>2. ASSUME NEW d \in Deliveries, PlaceOrder(d) \/ Execute(d) \/ Fill(d)
      PROVE  UNCHANGED <<tradeLog, req>>
  BY <1>2 DEF PlaceOrder, Execute, Fill, vars, Offline, Send, Sent, SendRaises,
              Reply, Timeout
<1>3. ASSUME NEW d \in Deliveries, Load(d) \/ ReadBody(d) \/ Check(d) \/ Fail(d)
      PROVE  UNCHANGED <<tradeLog, req>>
  BY <1>3 DEF Load, ReadBody, Check, Fail
<1>4. ASSUME NEW t \in Tenants, AccountRequest(t)
      PROVE  UNCHANGED <<tradeLog, req>>
  BY <1>4, AccountStep
<1>5. Crash \/ Tick \/ UNCHANGED pipeVars => UNCHANGED <<tradeLog, req>>
  BY DEF Crash, Tick, pipeVars, vars
<1> QED
  BY <1>1, <1>2, <1>3, <1>4, <1>5, LocalRows DEF PipeNext, Beside

LEMMA PipeInvHolds == PipeSpec => [](IInv /\ PipeInv)
<1>1. PipeInit => PipeInv
  <2> SUFFICES ASSUME PipeInit PROVE PipeInv
    OBVIOUS
  <2>1. PortTyped
    BY DEF PipeInit, Port!Init, PortTyped, PortStages, PortOutcomes
  <2>2. \A d \in Deliveries : CallInv(d)
    BY DEF PipeInit, Init, Port!Init, CallInv
  <2>3. RowsTold
    BY RouterAssumption DEF PipeInit, Init, NoRow, RowsTold
  <2> QED
    BY <2>1, <2>2, <2>3 DEF PipeInv
<1>2. IInv /\ PipeInv /\ [PipeNext]_pipeVars => PipeInv'
  BY PortTypedStep, StepCalls, StepRows DEF PipeInv
<1> QED
  BY <1>1, <1>2, RouterInvariant, PTL DEF PipeSpec

----------------------------------------------------------------------------
(* What the router does, broker and terminals included, is a behaviour of  *)
(* OrderRouter: every property proved of it holds of the pipeline.         *)
THEOREM RouterWithin == PipeSpec => Spec
<1>1. PipeInit => Init
  BY DEF PipeInit
<1> QED
  BY <1>1, StepOfRouter, PTL DEF PipeSpec, Spec

(* A signal puts at most one order on the account, and trades at most      *)
(* once: what a terminal takes was sent, and nothing is sent twice.        *)
THEOREM TradesOnce == PipeSpec => []OneTradePerSignal
<1>1. AtMostOneOrder /\ PipeInv => OneTradePerSignal
  BY DEF AtMostOneOrder, PipeInv, PortTyped, OneTradePerSignal
<1> QED
  BY <1>1, PipeInvHolds, RouterWithin, AtMostOnce, PTL

(* The trade list and the customer's account never contradict each other.  *)
THEOREM LogMatches == PipeSpec => []LogMatchesAccount
<1>1. ASSUME IInv, PipeInv, ClaimStaysVisible, LogIsTruthful
      PROVE  LogMatchesAccount
  <2>1. /\ ran \subseteq sent /\ placed \cup traded \subseteq ran
        /\ \A d \in placed \ traded : IsLimit(d)
        /\ sent \subseteq Deliveries
    BY <1>1 DEF PipeInv, PortTyped, IInv, TypeOK
  <2>2. \A d \in placed \cup traded : Claimed(d) /\ VisibleRows(d) # {}
    BY <1>1, <2>1 DEF IInv, HandlerInv, HandlerAt, ClaimStaysVisible
  <2>3. ASSUME NEW t \in Tenants, NEW k \in Keys,
               tradeLog[t][k].status \in {"accepted", "rejected"}
        PROVE  /\ tradeLog[t][k].status = "accepted" =>
                     /\ tradeLog[t][k].by \in placed
                     /\ \/ tradeLog[t][k].by \in traded
                        \/ IsLimit(tradeLog[t][k].by)
               /\ tradeLog[t][k].status = "rejected" =>
                     IF IsClaim(t, k) THEN tradeLog[t][k].by \notin ran
                     ELSE \/ outcome[tradeLog[t][k].by] = "offline"
                          \/ tradeLog[t][k].by \in ran
    <3>1. PICK d \in Deliveries : tradeLog[t][k].by = d
      BY <1>1, <2>3 DEF IInv, RowInv, NoRow
    <3>2. Id(d) # ResultKey[Id(d)]
      BY <1>1, KeyTypes, RouterAssumption DEF IInv
    <3>3. CASE IsClaim(t, k)
      <4>1. k = Id(d) /\ ReservationInv(d, tradeLog[t][k].status)
        BY <1>1, <3>1, <3>2, <3>3, OwnRows DEF IsClaim
      <4> QED
        BY <1>1, <2>1, <3>1, <3>3, <4>1 DEF ReservationInv, LogIsTruthful
    <3>4. CASE ~IsClaim(t, k)
      <4>1. k = ResultKey[Id(d)]
        BY <1>1, <2>3, <3>1, <3>4, OwnRows DEF IsClaim, NoRow
      <4>2. Told(d, tradeLog[t][k].status)
        BY <1>1, <3>1, <4>1 DEF PipeInv, RowsTold
      <4> QED
        BY <2>1, <3>1, <3>4, <4>2 DEF Told
    <3> QED
      BY <3>3, <3>4
  <2> QED
    BY <2>2, <2>3 DEF LogMatchesAccount
<1> QED
  BY <1>1, PipeInvHolds, RouterWithin, NothingVanishes, LogTruthful, PTL

(* Whatever the terminal does after the answer: it takes an order late     *)
(* only after an error or an exception, and what it still fills after      *)
(* "accepted" or "rejected" is a limit order it had taken by then.         *)
THEOREM AnsweredOrdersOnlyFill == PipeSpec => OnlyPendingFillsLater
<1>1. ASSUME IInv, PipeInv, [PipeNext]_pipeVars,
             NEW d \in (placed' \ placed) \cup (traded' \ traded)
      PROVE  \/ result[d] \in OpenResults
             \/ d \in placed /\ d \notin placed' \ placed /\ IsLimit(d)
  <2>1. ASSUME NEW e \in Deliveries, PlaceOrder(e)
        PROVE  UNCHANGED <<placed, traded>>
    BY <2>1 DEF PlaceOrder, Port!Refuse, Port!Hand, Port!Raise, Port!Answer,
                Port!Over, port
  <2>2. Port!Abandon \/ UNCHANGED port => UNCHANGED <<placed, traded>>
    BY DEF Port!Abandon, port
  <2>3. PICK e \in Deliveries : Execute(e) \/ Fill(e)
    BY <1>1, <2>1, <2>2 DEF PipeNext, pipeVars
  <2>4. CASE Execute(e)
    <3>1. d = e /\ d \in sent /\ d \notin ran
      BY <1>1, <2>4 DEF Execute, Port!Execute
    <3> QED
      BY <1>1, <3>1 DEF PipeInv, CallInv
  <2>5. CASE Fill(e)
    <3>1. d = e /\ d \in placed \ traded
      BY <1>1, <2>5 DEF Fill, Port!Fill
    <3> QED
      BY <1>1, <3>1 DEF PipeInv, PortTyped
  <2> QED
    BY <2>3, <2>4, <2>5
<1>2. IInv /\ PipeInv /\ [PipeNext]_pipeVars =>
         [/\ \A d \in placed' \ placed : result[d] \in OpenResults
          /\ \A d \in traded' \ traded :
                result[d] \notin OpenResults => d \in placed /\ IsLimit(d)]_pipeVars
  BY <1>1
<1> QED
  BY <1>2, PipeInvHolds, PTL DEF PipeSpec, OnlyPendingFillsLater
=============================================================================

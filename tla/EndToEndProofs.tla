-------------------------- MODULE EndToEndProofs --------------------------
(***************************************************************************)
(* Proofs about EndToEnd, for every set of deliveries, customers, agents   *)
(* and dials, and every number of faults, crashes, exits and edits.        *)
(*                                                                         *)
(* The composition is a behaviour of each part by itself (RelayWithin,     *)
(* RouterWithin), so both parts' invariants hold in it.  With them the two *)
(* sides of place_order are shown to stay in step (InStep), and then every *)
(* step is one of Pipeline (PipelineWithin): the relay is the broker that  *)
(* Pipeline leaves open, and Pipeline's theorems hold of the real thing.   *)
(***************************************************************************)
EXTENDS EndToEnd, RelayProofs

LEMMA StepOfRelay ==
    ASSUME [EndNext]_allVars PROVE [Next]_vars
<1>1. ASSUME NEW d \in Calls, PlaceOrder(d) PROVE Next
  BY <1>1 DEF PlaceOrder, Next, Begin, Progress
<1>2. Bridge => Next
  BY DEF Bridge, Next
<1>3. ServerCrash => Next
  BY DEF ServerCrash, Next
<1> QED
  BY <1>1, <1>2, <1>3 DEF EndNext, allVars

LEMMA StepOfRouter ==
    ASSUME [EndNext]_allVars PROVE [Pipe!Next]_(Pipe!vars)
<1>1. ASSUME NEW d \in Calls, PlaceOrder(d) PROVE Pipe!Next
  BY <1>1 DEF PlaceOrder, Pipe!Next, Pipe!Handle, Pipe!Progress
<1>2. Pipe!Beside => Pipe!Next
  BY DEF Pipe!Beside, Pipe!Next, Pipe!Handle, Pipe!Progress
<1>3. ServerCrash => Pipe!Next \/ UNCHANGED router
  BY DEF ServerCrash, Pipe!Next
<1>4. UNCHANGED router => UNCHANGED Pipe!vars
  BY DEF router, Pipe!vars
<1> QED
  BY <1>1, <1>2, <1>3, <1>4 DEF EndNext, allVars

(* The composition does nothing the relay does not do by itself.           *)
THEOREM RelayWithin == EndSpec => Spec
<1>1. EndInit => Init
  BY DEF EndInit
<1> QED
  BY <1>1, StepOfRelay, PTL DEF EndSpec, Spec

(* Nor anything the router does not do by itself.                          *)
THEOREM RouterWithin == EndSpec => Pipe!Spec
<1>1. EndInit => Pipe!Init
  BY DEF EndInit
<1> QED
  BY <1>1, StepOfRouter, PTL DEF EndSpec, Pipe!Spec

(* What is known of the two parts.                                         *)
PartsInv == OrderInv /\ AnswerInv /\ Pipe!IInv

LEMMA PartsHold == EndSpec => []PartsInv
<1>1. Pipe!Spec => []Pipe!IInv
  BY EndAssumption, Pipe!InvariantHolds
<1> QED
  BY <1>1, RelayWithin, RouterWithin, OrderInvHolds, AnswerInvHolds, PTL
  DEF PartsInv

----------------------------------------------------------------------------
(* The two sides of the await.                                             *)
BeforeCall == {"idle", "reading", "reserving", "checking", "rejecting",
               "placing"}

CallInStep(d) ==
    /\ pc[d] = "sending" <=> call[d] = "sending"
    /\ pc[d] = "waiting" <=> call[d] = "waiting"
    /\ pc[d] \in BeforeCall => call[d] = "idle"
    /\ pc[d] \in {"logging", "closing"} => call[d] = "done"
    /\ d \in sent <=> call[d] # "idle" /\ result[d] # "offline"

LEMMA PlaceOrderInStep ==
    ASSUME PartsInv, InStep, NEW d \in Calls, PlaceOrder(d), NEW e \in Calls
    PROVE  CallInStep(e)'
<1> USE DEF Pipe!Goto, Pipe!Answer, Return, BeforeCall
<1>1. /\ pc \in [Calls -> Pipe!Stations] /\ sent \subseteq Calls
      /\ call \in [Calls -> CallStates] /\ result \in [Calls -> Results]
      /\ CallInStep(d) /\ CallInStep(e)
      /\ call[d] # "done" => result[d] = "none"
  BY DEF PartsInv, OrderInv, TypeOK, CallInv, Pipe!IInv, Pipe!TypeOK, InStep,
         CallInStep
<1>2. CASE Pipe!Offline(d) /\ Offline(d)
  BY <1>1, <1>2 DEF Pipe!Offline, Offline, CallInStep
<1>3. CASE Pipe!Send(d) /\ Place(d)
  BY <1>1, <1>3 DEF Pipe!Send, Place, CallInStep
<1>4. CASE Pipe!Sent(d) /\ Sent(d)
  BY <1>1, <1>4 DEF Pipe!Sent, Sent, CallInStep
<1>5. CASE Pipe!SendRaises(d) /\ SendRaises(d)
  BY <1>1, <1>5 DEF Pipe!SendRaises, SendRaises, CallInStep
<1>6. CASE Pipe!Reply(d) /\ Resume(d)
  <2>1. future[d] # "offline"
    BY <1>6 DEF Resume, PartsInv, OrderInv, TypeOK, BrokerStatuses
  <2> QED
    BY <1>1, <1>6, <2>1 DEF Pipe!Reply, Resume, CallInStep
<1>7. CASE Pipe!Timeout(d) /\ Timeout(d)
  BY <1>1, <1>7 DEF Pipe!Timeout, Timeout, CallInStep
<1> QED
  BY <1>2, <1>3, <1>4, <1>5, <1>6, <1>7 DEF PlaceOrder

LEMMA BesideInStep ==
    ASSUME PartsInv, InStep, Pipe!Beside, UNCHANGED vars, NEW e \in Calls
    PROVE  CallInStep(e)'
<1> USE DEF Pipe!Goto, Pipe!Answer, BeforeCall
<1>1. /\ pc \in [Calls -> Pipe!Stations] /\ CallInStep(e)
      /\ UNCHANGED <<call, result>>
  BY DEF PartsInv, Pipe!IInv, Pipe!TypeOK, InStep, CallInStep, vars
<1>2. CASE UNCHANGED <<pc, sent>>
  BY <1>1, <1>2 DEF CallInStep
<1>3. ASSUME NEW d \in Calls,
             \/ Pipe!Load(d) \/ Pipe!ReadBody(d) \/ Pipe!Reserve(d)
             \/ Pipe!Check(d) \/ Pipe!Reject(d)
      PROVE  CallInStep(e)'
  BY <1>1, <1>3 DEF Pipe!Load, Pipe!ReadBody, Pipe!Reserve, Pipe!Check,
                    Pipe!Reject, CallInStep
<1>4. ASSUME NEW d \in Calls,
             Pipe!LogTrade(d) \/ Pipe!Finalize(d) \/ Pipe!Fail(d)
      PROVE  CallInStep(e)'
  BY <1>1, <1>4 DEF Pipe!LogTrade, Pipe!Finalize, Pipe!Fail, CallInStep
<1>5. ASSUME NEW t \in Tenants, Pipe!AccountRequest(t)
      PROVE  UNCHANGED <<pc, sent>>
  BY <1>5
  DEF Pipe!AccountRequest, Pipe!SetKillSwitch, Pipe!GrantSubscription,
      Pipe!RevokeSubscription, Pipe!UpdateRiskSettings, Pipe!UpdateSymbolMap,
      Pipe!RegeneratePassphrase, Pipe!Edit
<1>6. Pipe!Tick => UNCHANGED <<pc, sent>>
  BY DEF Pipe!Tick
<1> QED
  BY <1>2, <1>3, <1>4, <1>5, <1>6 DEF Pipe!Beside

LEMMA CrashInStep ==
    ASSUME PartsInv, InStep, ServerCrash, NEW d \in Calls
    PROVE  CallInStep(d)'
<1>1. /\ pc[d] \in Pipe!Stations /\ call[d] \in CallStates
      /\ CallInStep(d)
      /\ call[d] # "done" => result[d] = "none"
  BY DEF PartsInv, OrderInv, TypeOK, CallInv, Pipe!IInv, Pipe!TypeOK, InStep,
         CallInStep, BeforeCall
<1>2. /\ call'[d] = IF call[d] = "idle" THEN "idle" ELSE "done"
      /\ result'[d] = IF call[d] \in {"sending", "waiting"} THEN "failed"
                                                          ELSE result[d]
  BY DEF ServerCrash, Crash
<1>3. CASE Pipe!Crash
  <2>1. /\ pc'[d] = IF pc[d] \in {"idle", "done"} THEN pc[d] ELSE "done"
        /\ sent' = sent
    BY <1>3 DEF Pipe!Crash, Pipe!InFlight
  <2> QED
    BY <1>1, <1>2, <2>1 DEF CallInStep, BeforeCall, CallStates, Pipe!Stations
<1>4. CASE UNCHANGED router /\ ~Pipe!InFlight(d)
  BY <1>1, <1>2, <1>4
  DEF router, Pipe!InFlight, CallInStep, BeforeCall, CallStates
<1> QED
  BY <1>3, <1>4 DEF ServerCrash

(* Neither side of the await is ever ahead of the other.                   *)
THEOREM CallsInStep == EndSpec => []InStep
<1>1. EndInit => InStep
  BY DEF EndInit, Init, Pipe!Init, InStep
<1>2. PartsInv /\ InStep /\ [EndNext]_allVars => InStep'
  <2> SUFFICES ASSUME PartsInv, InStep, [EndNext]_allVars, NEW e \in Calls
               PROVE  CallInStep(e)'
    BY DEF InStep, CallInStep, BeforeCall
  <2>1. ASSUME NEW d \in Calls, PlaceOrder(d) PROVE CallInStep(e)'
    BY <2>1, PlaceOrderInStep
  <2>2. ASSUME Pipe!Beside, UNCHANGED vars PROVE CallInStep(e)'
    BY <2>2, BesideInStep
  <2>3. CASE ServerCrash
    BY <2>3, CrashInStep
  <2>4. CASE UNCHANGED <<call, result>> /\ UNCHANGED router
    BY <2>4 DEF router, InStep, CallInStep, BeforeCall
  <2>5. Bridge => UNCHANGED <<call, result>>
    BY FillRests
    DEF Bridge, Run, Dial, Established, GiveUp, Execute, SendAnswer, Lose,
           Exit, Restart, Break, Serve, Lookup, Connect, HandshakeFails,
           Receive, Disconnect, RotateToken, agents, calls
  <2> QED
    BY <2>1, <2>2, <2>3, <2>4, <2>5 DEF EndNext, allVars, vars
<1> QED
  BY <1>1, <1>2, PartsHold, PTL DEF EndSpec

(* The broker of a delivery stays the one of its tenant, and its order of  *)
(* the alert's type: no step writes a request.                             *)
HooksAgree ==
    \A d \in Calls : /\ req[d].hook \in {TenantOf[d], Nobody}
                     /\ d \in limits <=> Pipe!IsLimit(d)

LEMMA RequestsKept ==
    ASSUME [EndNext]_allVars
    PROVE  UNCHANGED <<req, limits>>
<1>1. [Pipe!Next]_(Pipe!vars) => req' = req
  BY EndAssumption, Pipe!RequestFixed
<1>2. [Next]_vars => limits' = limits
  BY DEF Next, Fill, Run, Dial, Established, GiveUp, Execute, SendAnswer,
         Lose, Exit, Restart, Break, Serve, Lookup, Connect, HandshakeFails,
         Receive, Disconnect, Begin, Progress, Offline, Place, Sent,
         SendRaises, Resume, Timeout, RotateToken, Crash, vars
<1>3. [Pipe!Next]_(Pipe!vars) /\ [Next]_vars
  BY StepOfRouter, StepOfRelay
<1> QED
  BY <1>1, <1>2, <1>3

LEMMA HooksHold == EndSpec => []HooksAgree
<1>1. EndInit => HooksAgree
  BY DEF EndInit, HooksAgree
<1>2. HooksAgree /\ [EndNext]_allVars => HooksAgree'
  <2> SUFFICES ASSUME HooksAgree, [EndNext]_allVars PROVE HooksAgree'
    OBVIOUS
  <2>1. UNCHANGED <<req, limits>>
    BY RequestsKept
  <2> QED
    BY <2>1 DEF HooksAgree, Pipe!IsLimit
<1> QED
  BY <1>1, <1>2, PTL DEF EndSpec

----------------------------------------------------------------------------
(* The relay at the port of the pipeline: the same variables, read off the *)
(* same way.                                                               *)
LEMMA SamePort ==
    /\ \A d \in Calls :
          /\ Port!Refuse(d) => Pipe!Port!Refuse(d)
          /\ Port!Hand(d) => Pipe!Port!Hand(d)
          /\ Port!Raise(d) => Pipe!Port!Raise(d)
          /\ \A status : Port!Answer(d, status) => Pipe!Port!Answer(d, status)
          /\ Port!Execute(d, TRUE) => Pipe!Port!Execute(d, TRUE)
          /\ Port!Execute(d, FALSE) => Pipe!Port!Execute(d, FALSE)
          /\ Port!Fill(d) => Pipe!Port!Fill(d)
    /\ Port!Abandon => Pipe!Port!Abandon
    /\ UNCHANGED Port!portVars => UNCHANGED Pipe!port
BY DEF Port!Refuse, Port!Hand, Port!Raise, Port!Answer, Port!Over,
       Port!Execute, Port!Fill, Port!Abandon, Port!portVars, Pipe!port,
       Pipe!Port!Refuse, Pipe!Port!Hand, Pipe!Port!Raise, Pipe!Port!Answer,
       Pipe!Port!Over, Pipe!Port!Execute, Pipe!Port!Fill, Pipe!Port!Abandon

LEMMA RestAtRest ==
    UNCHANGED <<call, result, runs, placed, filled>> => UNCHANGED Pipe!port
BY DEF Pipe!port

LEMMA StepOfPipeline ==
    ASSUME PartsInv, InStep, HooksAgree, [EndNext]_allVars
    PROVE  [Pipe!PipeNext]_(Pipe!pipeVars)
<1>1. TypeOK /\ OrderInv /\ AnswerInv
  BY DEF PartsInv, OrderInv
<1>2. UNCHANGED router => UNCHANGED Pipe!vars
  BY DEF router, Pipe!vars
<1>3. ASSUME NEW d \in Calls, PlaceOrder(d) PROVE Pipe!PlaceOrder(d)
  <2>1. CASE Pipe!Offline(d) /\ Offline(d)
    BY <1>1, <2>1, CallAtPort, SamePort DEF Pipe!PlaceOrder
  <2>2. CASE Pipe!Send(d) /\ Place(d)
    BY <1>1, <2>2, CallAtPort, SamePort DEF Pipe!PlaceOrder
  <2>3. CASE Pipe!Sent(d) /\ Sent(d)
    BY <1>1, <2>3, CallAtPort, SamePort DEF Pipe!PlaceOrder
  <2>4. CASE Pipe!SendRaises(d) /\ SendRaises(d)
    BY <1>1, <2>4, CallAtPort, SamePort DEF Pipe!PlaceOrder
  <2>5. CASE Pipe!Reply(d) /\ Resume(d) /\ answer'[d] = result'[d]
    <3>1. Pipe!Port!Answer(d, result'[d])
      BY <1>1, <2>5, CallAtPort, SamePort
    <3> QED
      BY <2>5, <3>1 DEF Pipe!PlaceOrder
  <2>6. CASE Pipe!Timeout(d) /\ Timeout(d)
    BY <1>1, <2>6, CallAtPort, SamePort DEF Pipe!PlaceOrder
  <2> QED
    BY <1>3, <2>1, <2>2, <2>3, <2>4, <2>5, <2>6 DEF PlaceOrder
<1>4. ASSUME Pipe!Beside, UNCHANGED vars PROVE Pipe!PipeNext
  BY <1>4, RestAtRest DEF Pipe!PipeNext, vars
<1>5. ASSUME NEW a \in Agents, Execute(a), UNCHANGED router
      PROVE  \E d \in Calls : Pipe!Execute(d)
  <2>1. PICK d \in Calls :
           /\ call[d] # "idle" /\ result[d] # "offline"
           /\ \/ d \in limits /\ Port!Execute(d, TRUE)
              \/ d \notin limits /\ Port!Execute(d, FALSE)
    BY <1>1, <1>5, ExecuteAtPort
  <2>2. d \in sent /\ (d \in limits <=> Pipe!IsLimit(d))
    BY <2>1 DEF InStep, HooksAgree
  <2>3. \/ Pipe!IsLimit(d) /\ Pipe!Port!Execute(d, TRUE)
        \/ ~Pipe!IsLimit(d) /\ Pipe!Port!Execute(d, FALSE)
    BY <2>1, <2>2, SamePort
  <2>4. Pipe!Port!Execute(d, Pipe!IsLimit(d))
    BY <2>3 DEF Pipe!Port!Execute
  <2> QED
    BY <1>2, <1>5, <2>2, <2>4 DEF Pipe!Execute
<1>6. ASSUME Bridge, UNCHANGED router
      PROVE  \/ \E d \in Calls : Pipe!Execute(d) \/ Pipe!Fill(d)
             \/ UNCHANGED Pipe!pipeVars
  <2>1. \/ UNCHANGED <<call, result, runs, placed, filled>>
        \/ \E a \in Agents : Execute(a)
        \/ \E d \in Calls : Fill(d)
    BY <1>6 DEF Bridge, Run, Dial, Established, GiveUp, SendAnswer, Lose,
                Exit, Restart, Break, Serve, Lookup, Connect, HandshakeFails,
                Receive, Disconnect, RotateToken, agents, calls
  <2>2. ASSUME NEW d \in Calls, Fill(d) PROVE Pipe!Fill(d)
    BY <1>2, <1>6, <2>2, FillAtPort, SamePort DEF Pipe!Fill
  <2> QED
    BY <1>2, <1>5, <1>6, <2>1, <2>2, RestAtRest DEF Pipe!pipeVars
<1>7. ASSUME ServerCrash
      PROVE  \/ Pipe!Crash /\ Pipe!Port!Abandon
             \/ UNCHANGED Pipe!pipeVars
  <2>1. Pipe!Port!Abandon
    BY <1>1, <1>7, CrashAtPort, SamePort DEF ServerCrash
  <2>2. CASE UNCHANGED router /\ \A d \in Calls : ~Pipe!InFlight(d)
    <3>1. \A d \in Calls : call[d] \in {"idle", "done"}
      BY <1>1, <2>2 DEF Pipe!InFlight, InStep, TypeOK, CallStates
    <3>2. /\ call' = [r \in Calls |-> call[r]] /\ runs' = runs
          /\ result' = [r \in Calls |-> result[r]] /\ filled' = filled
          /\ placed' = placed
      BY <1>7, <3>1 DEF ServerCrash, Crash, agents
    <3> QED
      BY <1>1, <1>2, <2>2, <3>2, RestAtRest DEF Pipe!pipeVars, TypeOK
  <2> QED
    BY <1>7, <2>1, <2>2 DEF ServerCrash
<1>8. UNCHANGED allVars => UNCHANGED Pipe!pipeVars
  BY <1>2, RestAtRest DEF allVars, vars, Pipe!pipeVars
<1> QED
  BY <1>3, <1>4, <1>6, <1>7, <1>8 DEF EndNext, Pipe!PipeNext

(* The relay, its sockets and its agents are the broker of Pipeline: every *)
(* step of the whole is a step of Pipeline or unseen by it.                *)
THEOREM PipelineWithin == EndSpec => Pipe!PipeSpec
<1>1. EndInit => Pipe!PipeInit
  BY DEF EndInit, Init, Pipe!PipeInit, Pipe!Port!Init
<1> QED
  BY <1>1, StepOfPipeline, PartsHold, CallsInStep, HooksHold, PTL
  DEF EndSpec, Pipe!PipeSpec

----------------------------------------------------------------------------
(* What Pipeline promises, of the accounts at the terminals.               *)

(* One alert, however often it is retried, puts one order on the account.  *)
THEOREM FillsOnce == EndSpec => []OneFillPerSignal
<1>1. Pipe!PipeSpec => []Pipe!OneTradePerSignal
  BY EndAssumption, Pipe!TradesOnce
<1>2. Pipe!OneTradePerSignal => OneFillPerSignal
  BY DEF Pipe!OneTradePerSignal, Pipe!Hook, Pipe!Id, OneFillPerSignal
<1> QED
  BY <1>1, <1>2, PipelineWithin, PTL

(* The trade list and the accounts tell the same story.                    *)
THEOREM ListMatches == EndSpec => []ListMatchesTerminal
<1>1. Pipe!PipeSpec => []Pipe!LogMatchesAccount
  BY EndAssumption, Pipe!LogMatches
<1>2. PartsInv /\ HooksAgree /\ Pipe!LogMatchesAccount
         => ListMatchesTerminal
  <2> SUFFICES ASSUME PartsInv, HooksAgree, Pipe!LogMatchesAccount
               PROVE  ListMatchesTerminal
    OBVIOUS
  <2>1. ASSUME NEW t \in Tenants, NEW k \in Pipe!Keys,
               tradeLog[t][k].status \in {"accepted", "rejected"}
        PROVE  /\ tradeLog[t][k].by \in Calls
               /\ tradeLog[t][k].by \in limits <=>
                     Pipe!IsLimit(tradeLog[t][k].by)
    <3>1. Pipe!RowInv(t, k)
      BY DEF PartsInv, Pipe!IInv
    <3> QED
      BY <2>1, <3>1 DEF Pipe!RowInv, Pipe!NoRow, HooksAgree
  <2> QED
    BY <2>1 DEF Pipe!LogMatchesAccount, ListMatchesTerminal
<1> QED
  BY <1>1, <1>2, PipelineWithin, PartsHold, HooksHold, PTL

(* Once the answer is accepted or rejected, no terminal takes the order,   *)
(* and what still fills is a limit order that one had taken before.        *)
THEOREM AnsweredLimitsOnlyFill == EndSpec => OnlyLimitsFillLater
<1>1. Pipe!PipeSpec => Pipe!OnlyPendingFillsLater
  BY EndAssumption, Pipe!AnsweredOrdersOnlyFill
<1>2. PartsInv /\ HooksAgree /\
      [/\ \A d \in placed' \ placed : answer[d] \in Pipe!OpenResults
       /\ \A d \in filled' \ filled :
             answer[d] \notin Pipe!OpenResults =>
                 d \in placed /\ Pipe!IsLimit(d)]_(Pipe!pipeVars)
        => [/\ \A d \in placed' \ placed : answer[d] \in Pipe!OpenResults
            /\ \A d \in filled' \ filled :
                  answer[d] \notin Pipe!OpenResults =>
                      d \in placed \cap limits]_allVars
  <2>1. UNCHANGED Pipe!pipeVars => UNCHANGED <<placed, filled>>
    BY DEF Pipe!pipeVars, Pipe!port
  <2>2. PartsInv => placed \subseteq Calls
    BY DEF PartsInv, OrderInv, TypeOK
  <2>3. PartsInv /\ HooksAgree =>
           \A d \in placed : Pipe!IsLimit(d) => d \in limits
    BY <2>2 DEF HooksAgree
  <2> QED
    BY <2>1, <2>3
<1> QED
  BY <1>1, <1>2, PipelineWithin, PartsHold, HooksHold, PTL
  DEF OnlyLimitsFillLater, Pipe!OnlyPendingFillsLater

(* No terminal runs an order that its own customer's alert did not         *)
(* authorise, and none runs it twice.                                      *)
THEOREM OnlyAuthorisedRun == EndSpec => []RunsAreAuthorised
<1>1. Pipe!Spec => []Pipe!SentPermitted
  BY EndAssumption, Pipe!OrdersPermitted
<1>2. PartsInv /\ InStep /\ HooksAgree /\ Pipe!SentPermitted
        => RunsAreAuthorised
  <2> SUFFICES ASSUME PartsInv, InStep, HooksAgree, Pipe!SentPermitted,
                      NEW d \in Calls, NEW i \in DOMAIN runs[d]
               PROVE  /\ i = 1
                      /\ Owner[runs[d][i]] = req[d].hook
                      /\ Pipe!PermittedBy(snap[d], d)
    BY DEF RunsAreAuthorised
  <2>1. /\ runs[d] \in Seq(Agents) /\ Len(runs[d]) <= 1
        /\ Owner[runs[d][i]] = TenantOf[d]
        /\ runs[d] # <<>> => call[d] # "idle" /\ result[d] # "offline"
    BY DEF PartsInv, OrderInv, TypeOK, RunAtMostOnce, CallInv
  <2>2. i = 1 /\ runs[d] # <<>>
    BY <2>1
  <2>3. d \in sent
    BY <2>1, <2>2 DEF InStep
  <2>4. req[d].hook = TenantOf[d]
    <3>1. Pipe!Claimed(d)
      BY <2>3 DEF PartsInv, Pipe!IInv, Pipe!HandlerInv, Pipe!HandlerAt
    <3>2. req[d].hook # Nobody
      BY <3>1, EndAssumption
      DEF Pipe!Claimed, Pipe!Hook, Pipe!RouterAssumption
    <3> QED
      BY <3>2 DEF HooksAgree
  <2> QED
    BY <2>1, <2>2, <2>3, <2>4 DEF Pipe!SentPermitted
<1> QED
  BY <1>1, <1>2, PartsHold, CallsInStep, HooksHold, RouterWithin, PTL

----------------------------------------------------------------------------
(* What the webhook was told is what the trade list shows, on one row, and *)
(* not more than what the terminal did: accepted means that it took the    *)
(* order, and filled it unless it is a limit order, which may still rest;  *)
(* rejected means that it has run the order, or that the order was never   *)
(* handed over and is never run.  A rejected order that was run may have   *)
(* been taken all the same (DONE_PARTIAL, or a limit order PLACED).        *)
AnswerIsTrue ==
    \A d \in Calls : pc[d] = "done" /\ answer[d] \in {"accepted", "rejected"} =>
        /\ \E k \in Pipe!Keys : /\ Pipe!VisibleRows(d) = {k}
                                /\ Pipe!Log(d)[k].status = answer[d]
        /\ answer[d] = "accepted" => d \in placed /\ d \in filled \cup limits
        /\ answer[d] = "rejected" => (runs[d] = <<>> <=> d \notin sent)

(* From AnswerIsLogged of the router, ListMatchesTerminal and InStep.      *)
THEOREM AnswersAreTrue == EndSpec => []AnswerIsTrue
<1>1. Pipe!Spec => [](Pipe!AnswerIsLogged /\ Pipe!LogIsTruthful)
  BY EndAssumption, Pipe!AnswersAreLogged, Pipe!LogTruthful, PTL
<1>2. PartsInv /\ InStep /\ ListMatchesTerminal /\ Pipe!AnswerIsLogged
         /\ Pipe!LogIsTruthful => AnswerIsTrue
  <2> SUFFICES ASSUME PartsInv, InStep, ListMatchesTerminal,
                      Pipe!AnswerIsLogged, Pipe!LogIsTruthful,
                      NEW d \in Calls, pc[d] = "done",
                      answer[d] \in {"accepted", "rejected"}
               PROVE  /\ \E k \in Pipe!Keys :
                            /\ Pipe!VisibleRows(d) = {k}
                            /\ Pipe!Log(d)[k].status = answer[d]
                      /\ answer[d] = "accepted" =>
                            d \in placed /\ d \in filled \cup limits
                      /\ answer[d] = "rejected" =>
                            (runs[d] = <<>> <=> d \notin sent)
    BY DEF AnswerIsTrue
  <2>1. PICK k \in Pipe!Keys : /\ Pipe!VisibleRows(d) = {k}
                               /\ Pipe!Log(d)[k].status = answer[d]
    BY DEF Pipe!AnswerIsLogged, Pipe!BrokerStatuses
  <2> DEFINE t == req[d].hook
  <2>2. /\ t \in Tenants
        /\ tradeLog[t][k].by = d /\ tradeLog[t][k].status = answer[d]
    <3>1. t \in Tenants
      BY DEF PartsInv, Pipe!IInv, Pipe!HandlerInv, Pipe!HandlerAt,
             Pipe!BrokerStatuses, Pipe!Hook
    <3> QED
      BY <2>1, <3>1 DEF Pipe!VisibleRows, Pipe!Visible, Pipe!Log, Pipe!Hook
  <2>3. d \notin sent => runs[d] = <<>>
    BY DEF InStep, PartsInv, OrderInv, CallInv
  <2>4. answer[d] = "rejected" /\ d \in sent => runs[d] # <<>>
    BY <2>2 DEF Pipe!LogIsTruthful, ListMatchesTerminal, InStep
  <2> QED
    BY <2>1, <2>2, <2>3, <2>4 DEF ListMatchesTerminal
<1> QED
  BY <1>1, <1>2, PartsHold, CallsInStep, ListMatches, RouterWithin, PTL
=============================================================================

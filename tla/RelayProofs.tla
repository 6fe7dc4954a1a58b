---------------------------- MODULE RelayProofs ----------------------------
(***************************************************************************)
(* Proofs about Relay, for every set of tenants, agents, dials and calls,  *)
(* any number of agents with the same token, and any number of broken      *)
(* links, crashes, exits and rotations.                                    *)
(***************************************************************************)
EXTENDS Relay, SequenceTheorems, TLAPS

----------------------------------------------------------------------------
LEMMA PrefixTyped ==
    ASSUME NEW S, NEW s \in Seq(S), NEW p \in Prefixes(s)
    PROVE  /\ p \in Seq(S)
           /\ Len(p) <= Len(s)
           /\ \A i \in 1 .. Len(p) : i \in 1 .. Len(s) /\ p[i] = s[i]
<1>1. PICK n \in 0 .. Len(s) : p = SubSeq(s, 1, n)
  BY DEF Prefixes
<1> QED
  BY <1>1, SubSeqProperties

LEMMA InitTypeOK == Init => TypeOK
BY RelayAssumption
DEF Init, TypeOK, Online, AgentStates, HandlerStates, CallStates, Results

(* Steps of the agents and the network.                                    *)
LEMMA RunTyped ==
    ASSUME TypeOK, NEW a \in Agents, Run(a)
    PROVE  TypeOK'
<1> USE RelayAssumption
<1>1. ASSUME NEW c \in Conns, Dial(a, c) PROVE TypeOK'
  BY <1>1 DEF TypeOK, Dial, AgentStates, Online, HandlerStates, manager, calls
<1>2. ASSUME Established(a) PROVE TypeOK'
  BY <1>2 DEF TypeOK, Established, AgentStates, Online, network, manager, calls
<1>3. ASSUME GiveUp(a) PROVE TypeOK'
  BY <1>3 DEF TypeOK, GiveUp, AgentStates, Online, manager, calls
<1>4. ASSUME Execute(a) PROVE TypeOK'
  <2> DEFINE c == line[a]
             r == Head(toAgent[c])
  <2>1. c \in Conns /\ toAgent[c] \in Seq(Calls) /\ toAgent[c] # <<>>
    BY <1>4 DEF Execute, TypeOK, Online
  <2>2. r \in Calls /\ Tail(toAgent[c]) \in Seq(Calls)
    BY <2>1
  <2>3. toAgent' \in [Conns -> Seq(Calls)]
    BY <1>4, <2>1, <2>2 DEF Execute, TypeOK
  <2>4. /\ hand' \in [Agents -> Answers \cup {None}]
        /\ hand'[a] # None
        /\ \A b \in Agents \ {a} : hand'[b] = hand[b]
        /\ placed' \subseteq Calls /\ filled' \subseteq placed'
        /\ placed' \ filled' \subseteq limits
    <3>1. PICK o \in Outcomes :
            /\ hand' = [hand EXCEPT ![a] = [id |-> r, status |-> o.status]]
            /\ placed' = IF o.placed THEN placed \cup {r} ELSE placed
            /\ filled' = IF o.placed /\ r \notin limits
                         THEN filled \cup {r} ELSE filled
      BY <1>4 DEF Execute
    <3>2. [id |-> r, status |-> o.status] \in Answers
      BY <2>2 DEF Outcomes, Answers, BrokerStatuses
    <3> QED
      BY <2>2, <3>1, <3>2 DEF TypeOK
  <2>5. runs' \in [Calls -> Seq(Agents)]
    <3>1. runs' = [runs EXCEPT ![r] = Append(runs[r], a)]
      BY <1>4 DEF Execute
    <3>2. runs[r] \in Seq(Agents)
      BY <2>2 DEF TypeOK
    <3>3. Append(runs[r], a) \in Seq(Agents)
      BY <3>2, AppendProperties
    <3> QED
      BY <2>2, <3>1, <3>3 DEF TypeOK
  <2>6. agent' = [agent EXCEPT ![a] = "replying"]
    BY <1>4 DEF Execute
  <2>7. UNCHANGED <<limits, token, line, exits, link, toServer, handler, manager,
                    calls, crashes>>
    BY <1>4 DEF Execute
  <2>8. \A b \in Agents :
           /\ Online(b)' => line'[b] \in Conns /\ AgentOf[line'[b]] = b
           /\ agent'[b] = "replying" <=> hand'[b] # None
    <3> SUFFICES ASSUME NEW b \in Agents
                 PROVE  /\ Online(b)' => line'[b] \in Conns
                                           /\ AgentOf[line'[b]] = b
                        /\ agent'[b] = "replying" <=> hand'[b] # None
      OBVIOUS
    <3>1. CASE b = a
      BY <1>4, <2>4, <2>6, <2>7, <3>1 DEF TypeOK, Execute, Online
    <3>2. CASE b # a
      BY <2>4, <2>6, <2>7, <3>2 DEF TypeOK, Online
    <3> QED
      BY <3>1, <3>2
  <2>9. agent' \in [Agents -> AgentStates]
    BY <2>6 DEF TypeOK, AgentStates
  <2> QED
    BY <2>3, <2>4, <2>5, <2>7, <2>8, <2>9
    DEF TypeOK, Online, manager, calls
<1>5. ASSUME SendAnswer(a) PROVE TypeOK'
  <2>1. line[a] \in Conns /\ AgentOf[line[a]] = a /\ hand[a] \in Answers
    BY <1>5 DEF SendAnswer, TypeOK, Online
  <2>2. toServer' \in [Conns -> Seq(Answers)]
    <3>1. Append(toServer[line[a]], hand[a]) \in Seq(Answers)
      BY <2>1 DEF TypeOK
    <3>2. \/ toServer' = toServer
          \/ toServer' = [toServer EXCEPT ![line[a]] =
                             Append(toServer[line[a]], hand[a])]
      BY <1>5 DEF SendAnswer
    <3>3. toServer \in [Conns -> Seq(Answers)]
      BY DEF TypeOK
    <3> QED
      BY <2>1, <3>1, <3>2, <3>3
  <2>3. PICK s \in {"serving", "away"} : agent' = [agent EXCEPT ![a] = s]
    BY <1>5 DEF SendAnswer
  <2>4. hand' = [hand EXCEPT ![a] = None]
    BY <1>5 DEF SendAnswer
  <2>5. UNCHANGED <<limits, token, line, link, toAgent, handler, manager, calls, runs,
                    placed, filled, crashes, exits>>
    BY <1>5 DEF SendAnswer
  <2>6. \A b \in Agents :
           /\ Online(b)' => line'[b] \in Conns /\ AgentOf[line'[b]] = b
           /\ agent'[b] = "replying" <=> hand'[b] # None
    <3> SUFFICES ASSUME NEW b \in Agents
                 PROVE  /\ Online(b)' => line'[b] \in Conns
                                           /\ AgentOf[line'[b]] = b
                        /\ agent'[b] = "replying" <=> hand'[b] # None
      OBVIOUS
    <3>1. CASE b = a
      BY <2>1, <2>3, <2>4, <2>5, <3>1 DEF TypeOK, Online
    <3>2. CASE b # a
      BY <2>3, <2>4, <2>5, <3>2 DEF TypeOK, Online
    <3> QED
      BY <3>1, <3>2
  <2>7. /\ agent' \in [Agents -> AgentStates]
        /\ hand' \in [Agents -> Answers \cup {None}]
    BY <2>3, <2>4 DEF TypeOK, AgentStates
  <2> QED
    BY <2>2, <2>5, <2>6, <2>7 DEF TypeOK, Online, manager, calls
<1>6. ASSUME Lose(a) PROVE TypeOK'
  BY <1>6 DEF TypeOK, Lose, AgentStates, Online, network, manager, calls
<1>7. ASSUME Exit(a) PROVE TypeOK'
  BY <1>7 DEF TypeOK, Exit, AgentStates, Online, manager, calls
<1>8. ASSUME Restart(a) PROVE TypeOK'
  BY <1>8 DEF TypeOK, Restart, AgentStates, Online, network, manager, calls
<1> QED
  BY <1>1, <1>2, <1>3, <1>4, <1>5, <1>6, <1>7, <1>8 DEF Run

(* The network, the handlers, the calls.                                   *)
LEMMA BreakTyped ==
    ASSUME TypeOK, NEW c \in Conns, Break(c)
    PROVE  TypeOK'
<1>1. toAgent' \in [Conns -> Seq(Calls)]
  BY PrefixTyped DEF TypeOK, Break
<1>2. toServer' \in [Conns -> Seq(Answers)]
  BY PrefixTyped DEF TypeOK, Break
<1> QED
  BY <1>1, <1>2 DEF TypeOK, Break, Online, agents, manager, calls

LEMMA ServeTyped ==
    ASSUME TypeOK, NEW c \in Conns, Serve(c)
    PROVE  TypeOK'
<1> USE RelayAssumption
<1>1. ASSUME Lookup(c) PROVE TypeOK'
  BY <1>1 DEF TypeOK, Lookup, HandlerStates, Online, agents, network, manager,
              calls
<1>2. ASSUME Connect(c) PROVE TypeOK'
  BY <1>2 DEF TypeOK, Connect, HandlerStates, Online, agents, network, calls,
              ServedTenant
<1>3. ASSUME HandshakeFails(c) PROVE TypeOK'
  BY <1>3 DEF TypeOK, HandshakeFails, HandlerStates, Online, agents, network,
              manager, calls
<1>4. ASSUME Receive(c) PROVE TypeOK'
  <2>1. toServer[c] \in Seq(Answers) /\ toServer[c] # <<>>
    BY <1>4 DEF Receive, TypeOK
  <2>2. Head(toServer[c]) \in Answers /\ Tail(toServer[c]) \in Seq(Answers)
    BY <2>1
  <2>3. future' \in [Calls -> BrokerStatuses \cup {"none"}]
    <3>1. /\ Head(toServer[c]).id \in Calls
          /\ Head(toServer[c]).status \in BrokerStatuses
      BY <2>2 DEF Answers
    <3>2. \/ future' = future
          \/ future' = [future EXCEPT ![Head(toServer[c]).id] =
                           Head(toServer[c]).status]
      BY <1>4 DEF Receive, Settle
    <3> QED
      BY <3>1, <3>2 DEF TypeOK
  <2> QED
    BY <1>4, <2>2, <2>3 DEF TypeOK, Receive, Online, agents, calls
<1>5. ASSUME Disconnect(c) PROVE TypeOK'
  BY <1>5 DEF TypeOK, Disconnect, HandlerStates, Online, agents, network,
              calls, ServedTenant
<1> QED
  BY <1>1, <1>2, <1>3, <1>4, <1>5 DEF Serve

LEMMA CallTyped ==
    ASSUME TypeOK, NEW r \in Calls, Begin(r) \/ Progress(r)
    PROVE  TypeOK'
<1> USE RelayAssumption DEF CallStates, Results, Return, Online
<1>1. ASSUME Offline(r) PROVE TypeOK'
  BY <1>1 DEF TypeOK, Offline, agents, network
<1>2. ASSUME Place(r) PROVE TypeOK'
  BY <1>2 DEF TypeOK, Place, agents
<1>3. ASSUME Sent(r) PROVE TypeOK'
  BY <1>3 DEF TypeOK, Sent, agents, network, manager
<1>4. ASSUME SendRaises(r) PROVE TypeOK'
  BY <1>4 DEF TypeOK, SendRaises, agents, network
<1>5. ASSUME Resume(r) PROVE TypeOK'
  BY <1>5 DEF TypeOK, Resume, agents, network
<1>6. ASSUME Timeout(r) PROVE TypeOK'
  BY <1>6 DEF TypeOK, Timeout, BrokerStatuses, agents, network
<1> QED
  BY <1>1, <1>2, <1>3, <1>4, <1>5, <1>6 DEF Begin, Progress

(* The market touches nothing but the position.                            *)
LEMMA FillRests ==
    ASSUME NEW r \in Calls, Fill(r)
    PROVE  UNCHANGED <<limits, token, agent, line, hand, link, handler,
                       toAgent, toServer, connections, pending, future, call, via,
                       result, runs, placed, crashes, exits>>
BY DEF Fill, network, manager, calls

LEMMA StepTypeOK == TypeOK /\ [Next]_vars => TypeOK'
<1> SUFFICES ASSUME TypeOK, [Next]_vars PROVE TypeOK'
  OBVIOUS
<1>1. ASSUME NEW t \in Tenants, RotateToken(t) PROVE TypeOK'
  BY <1>1 DEF TypeOK, RotateToken, Online, agents, network, manager, calls
<1>2. CASE Crash
  BY <1>2 DEF TypeOK, Crash, Online, agents, HandlerStates, CallStates, Results
<1>3. CASE UNCHANGED vars
  BY <1>3 DEF TypeOK, Online, vars
<1>4. ASSUME NEW r \in Calls, Fill(r) PROVE TypeOK'
  BY <1>4, FillRests DEF TypeOK, Online, Fill
<1> QED
  BY <1>1, <1>2, <1>3, <1>4, RunTyped, BreakTyped, ServeTyped, CallTyped DEF Next

(* Every variable keeps its type; in particular an agent that runs orders  *)
(* does so on a connection it dialled itself.                              *)
THEOREM TypeCorrect == Spec => []TypeOK
BY InitTypeOK, StepTypeOK, PTL DEF Spec

----------------------------------------------------------------------------
(* A socket stays registered only while its handler receives.              *)
THEOREM OnlyServedRegistered == Spec => []RegisteredIsServed
<1> DEFINE Inv == TypeOK /\ RegisteredIsServed
<1>1. Init => Inv
  BY InitTypeOK DEF Init, RegisteredIsServed
<1>2. Inv /\ [Next]_vars => Inv'
  <2> SUFFICES ASSUME Inv, [Next]_vars PROVE RegisteredIsServed'
    BY StepTypeOK
  <2> USE RelayAssumption DEF RegisteredIsServed, ServedTenant
  <2>1. ASSUME NEW a \in Agents, Run(a) PROVE RegisteredIsServed'
    BY <2>1 DEF TypeOK, Run, Dial, Established, GiveUp, Execute, SendAnswer,
                Lose, Exit, Restart, manager
  <2>2. ASSUME NEW c \in Conns, Serve(c) PROVE RegisteredIsServed'
    <3>1. CASE Lookup(c)
      BY <3>1 DEF TypeOK, Lookup, manager
    <3>2. CASE Connect(c)
      BY <3>2 DEF TypeOK, Connect
    <3>3. CASE HandshakeFails(c)
      BY <3>3 DEF TypeOK, HandshakeFails, manager
    <3>4. CASE Receive(c)
      BY <3>4 DEF Receive
    <3>5. CASE Disconnect(c)
      BY <3>5 DEF TypeOK, Disconnect
    <3> QED
      BY <2>2, <3>1, <3>2, <3>3, <3>4, <3>5 DEF Serve
  <2>3. ASSUME NEW r \in Calls, Begin(r) \/ Progress(r)
        PROVE  RegisteredIsServed'
    BY <2>3 DEF Begin, Progress, Offline, Place, Sent, SendRaises, Resume,
                Timeout, manager
  <2>4. CASE Crash
    BY <2>4 DEF Crash
  <2>5. CASE \/ \E c \in Conns : Break(c)
             \/ \E t \in Tenants : RotateToken(t)
             \/ \E r \in Calls : Fill(r)
             \/ UNCHANGED vars
    BY <2>5, FillRests DEF Break, RotateToken, vars, manager
  <2> QED
    BY <2>1, <2>2, <2>3, <2>4, <2>5 DEF Next
<1> QED
  BY <1>1, <1>2, PTL DEF Spec

(* _pending is what is being awaited.                                      *)
THEOREM NothingLeaks == Spec => []PendingIsExact
<1> DEFINE Inv == TypeOK /\ PendingIsExact
<1>1. Init => Inv
  BY InitTypeOK DEF Init, PendingIsExact
<1>2. Inv /\ [Next]_vars => Inv'
  <2> SUFFICES ASSUME Inv, [Next]_vars PROVE PendingIsExact'
    BY StepTypeOK
  <2> USE DEF PendingIsExact
  <2>1. ASSUME NEW r \in Calls, Begin(r) \/ Progress(r)
        PROVE  PendingIsExact'
    <3>1. CASE Place(r)
      BY <3>1 DEF TypeOK, Place
    <3>2. CASE Sent(r)
      BY <3>2 DEF TypeOK, Sent, manager
    <3>3. ASSUME NEW outcome, Return(r, outcome) PROVE PendingIsExact'
      BY <3>3 DEF TypeOK, Return
    <3>4. CASE Offline(r) \/ SendRaises(r) \/ Resume(r) \/ Timeout(r)
      BY <3>3, <3>4 DEF Offline, SendRaises, Resume, Timeout
    <3> QED
      BY <2>1, <3>1, <3>2, <3>4 DEF Begin, Progress
  <2>2. CASE Crash
    BY <2>2 DEF Crash
  <2>3. CASE UNCHANGED <<pending, call>>
    BY <2>3
  <2>4. ASSUME NEW c \in Conns, Break(c) \/ Serve(c)
        PROVE  UNCHANGED <<pending, call>>
    BY <2>4 DEF Break, Serve, Lookup, Connect, HandshakeFails, Receive,
                Disconnect, manager, calls
  <2>5. ASSUME NEW a \in Agents, Run(a)
        PROVE  UNCHANGED <<pending, call>>
    BY <2>5 DEF Run, Dial, Established, GiveUp, Execute, SendAnswer, Lose,
                Exit, Restart, manager, calls
  <2>6. ASSUME NEW t \in Tenants, RotateToken(t)
        PROVE  UNCHANGED <<pending, call>>
    BY <2>6 DEF RotateToken, manager, calls
  <2> QED
    BY <2>1, <2>2, <2>3, <2>4, <2>5, <2>6, FillRests DEF Next, vars
<1> QED
  BY <1>1, <1>2, PTL DEF Spec

----------------------------------------------------------------------------
(* Where the frame of an order is: on one socket, in one place, and gone   *)
(* once the order has been run; a call that has not begun, or was answered *)
(* "offline", has none.                                                    *)
FrameInv ==
    \A c \in Conns : \A i \in 1 .. Len(toAgent[c]) :
        /\ TenantOf[toAgent[c][i]] = ServedTenant(c)
        /\ runs[toAgent[c][i]] = <<>>
        /\ call[toAgent[c][i]] # "idle"
        /\ result[toAgent[c][i]] # "offline"

OneFrame ==
    \A c, d \in Conns :
        \A i \in 1 .. Len(toAgent[c]), j \in 1 .. Len(toAgent[d]) :
            toAgent[c][i] = toAgent[d][j] => c = d /\ i = j

CallInv(r) ==
    /\ call[r] # "done" => result[r] = "none"
    /\ call[r] = "idle" \/ result[r] = "offline" => runs[r] = <<>>

OrderInv ==
    /\ TypeOK
    /\ RegisteredIsServed
    /\ FrameInv
    /\ OneFrame
    /\ \A r \in Calls : CallInv(r)
    /\ RunAtMostOnce

(* The calls go on while no frame moves and no order is run.               *)
LEMMA CallsGoOn ==
    ASSUME OrderInv, TypeOK', RegisteredIsServed',
           UNCHANGED <<toAgent, runs>>,
           \A r \in Calls :
              /\ call[r] # "idle" => call'[r] # "idle"
              /\ result'[r] = "offline" =>
                    result[r] = "offline" \/ call[r] = "idle"
              /\ call'[r] # "done" => result'[r] = result[r]
                                    /\ call[r] # "done"
    PROVE  OrderInv'
<1>1. FrameInv'
  <2> SUFFICES ASSUME NEW c \in Conns, NEW i \in 1 .. Len(toAgent[c])
               PROVE  /\ TenantOf[toAgent[c][i]] = ServedTenant(c)
                      /\ runs[toAgent[c][i]] = <<>>
                      /\ call'[toAgent[c][i]] # "idle"
                      /\ result'[toAgent[c][i]] # "offline"
    BY DEF FrameInv, ServedTenant
  <2>1. toAgent[c][i] \in Calls
    BY DEF OrderInv, TypeOK
  <2> QED
    BY <2>1 DEF OrderInv, FrameInv
<1>2. OneFrame'
  BY DEF OrderInv, OneFrame
<1>3. ASSUME NEW r \in Calls PROVE CallInv(r)'
  BY DEF OrderInv, CallInv
<1>4. RunAtMostOnce'
  BY DEF OrderInv, RunAtMostOnce
<1> QED
  BY <1>1, <1>2, <1>3, <1>4 DEF OrderInv

LEMMA BreakKeeps ==
    ASSUME OrderInv, TypeOK', RegisteredIsServed', NEW c \in Conns, Break(c)
    PROVE  OrderInv'
<1>1. UNCHANGED <<runs, call, result>>
  BY DEF Break, agents, calls
<1>2. PICK p \in Prefixes(toAgent[c]) : toAgent' = [toAgent EXCEPT ![c] = p]
  BY DEF Break
<1>3. ASSUME NEW d \in Conns, NEW i \in 1 .. Len(toAgent'[d])
      PROVE  i \in 1 .. Len(toAgent[d]) /\ toAgent'[d][i] = toAgent[d][i]
  BY <1>2, PrefixTyped DEF OrderInv, TypeOK
<1>4. FrameInv'
  BY <1>1, <1>3 DEF OrderInv, FrameInv, ServedTenant
<1>5. OneFrame'
  BY <1>3 DEF OrderInv, OneFrame
<1>6. (\A r \in Calls : CallInv(r))' /\ RunAtMostOnce'
  BY <1>1 DEF OrderInv, CallInv, RunAtMostOnce
<1> QED
  BY <1>4, <1>5, <1>6 DEF OrderInv

(* The only copy of the frame is consumed by the only run.                 *)
LEMMA ExecuteKeeps ==
    ASSUME OrderInv, TypeOK', RegisteredIsServed', NEW a \in Agents,
           Execute(a)
    PROVE  OrderInv'
<1> DEFINE c == line[a]
           r == Head(toAgent[c])
<1>1. /\ c \in Conns /\ AgentOf[c] = a
      /\ toAgent[c] \in Seq(Calls) /\ toAgent[c] # <<>>
      /\ 1 \in 1 .. Len(toAgent[c]) /\ r = toAgent[c][1] /\ r \in Calls
  BY DEF OrderInv, TypeOK, Online, Execute
<1>2. /\ runs[r] = <<>> /\ call[r] # "idle" /\ result[r] # "offline"
      /\ TenantOf[r] = Owner[a]
  BY <1>1 DEF OrderInv, FrameInv, ServedTenant
<1>3. /\ toAgent' = [toAgent EXCEPT ![c] = Tail(toAgent[c])]
      /\ runs' = [runs EXCEPT ![r] = <<a>>]
      /\ UNCHANGED <<call, result>>
  BY <1>1, <1>2 DEF Execute, calls, OrderInv, TypeOK
<1>4. ASSUME NEW d \in Conns, NEW i \in 1 .. Len(toAgent'[d])
      PROVE  \E j \in 1 .. Len(toAgent[d]) :
                /\ toAgent'[d][i] = toAgent[d][j]
                /\ j = IF d = c THEN i + 1 ELSE i
                /\ toAgent[d][j] # r
  <2>1. CASE d = c
    <3>1. /\ Len(Tail(toAgent[c])) = Len(toAgent[c]) - 1
          /\ i \in 1 .. (Len(toAgent[c]) - 1)
          /\ Tail(toAgent[c])[i] = toAgent[c][i + 1]
      BY <1>1, <1>3, <2>1, <1>4 DEF OrderInv, TypeOK
    <3>2. i + 1 \in 1 .. Len(toAgent[c]) /\ i + 1 # 1
      BY <1>1, <3>1
    <3>3. toAgent[c][i + 1] # r
      BY <1>1, <3>2 DEF OrderInv, OneFrame
    <3> QED
      BY <1>1, <1>3, <2>1, <3>1, <3>2, <3>3 DEF OrderInv, TypeOK
  <2>2. CASE d # c
    <3>1. toAgent'[d] = toAgent[d]
      BY <1>3, <2>2 DEF OrderInv, TypeOK
    <3>2. toAgent[d][i] # r
      BY <1>1, <1>4, <2>2, <3>1 DEF OrderInv, OneFrame
    <3> QED
      BY <1>4, <2>2, <3>1, <3>2
  <2> QED
    BY <2>1, <2>2
<1>5. FrameInv'
  <2> SUFFICES ASSUME NEW d \in Conns, NEW i \in 1 .. Len(toAgent'[d])
               PROVE  /\ TenantOf[toAgent'[d][i]] = ServedTenant(d)
                      /\ runs'[toAgent'[d][i]] = <<>>
                      /\ call[toAgent'[d][i]] # "idle"
                      /\ result[toAgent'[d][i]] # "offline"
    BY <1>3 DEF FrameInv, ServedTenant
  <2>1. PICK j \in 1 .. Len(toAgent[d]) :
           toAgent'[d][i] = toAgent[d][j] /\ toAgent[d][j] # r
    BY <1>4
  <2>2. toAgent[d][j] \in Calls
    BY DEF OrderInv, TypeOK
  <2>3. runs'[toAgent[d][j]] = runs[toAgent[d][j]]
    BY <1>3, <2>1, <2>2 DEF OrderInv, TypeOK
  <2> QED
    BY <2>1, <2>3 DEF OrderInv, FrameInv
<1>6. OneFrame'
  <2> SUFFICES ASSUME NEW d \in Conns, NEW e \in Conns,
                      NEW i \in 1 .. Len(toAgent'[d]),
                      NEW j \in 1 .. Len(toAgent'[e]),
                      toAgent'[d][i] = toAgent'[e][j]
               PROVE  d = e /\ i = j
    BY DEF OneFrame
  <2>1. PICK m \in 1 .. Len(toAgent[d]) :
           /\ toAgent'[d][i] = toAgent[d][m]
           /\ m = IF d = c THEN i + 1 ELSE i
    BY <1>4
  <2>2. PICK n \in 1 .. Len(toAgent[e]) :
           /\ toAgent'[e][j] = toAgent[e][n]
           /\ n = IF e = c THEN j + 1 ELSE j
    BY <1>4
  <2>3. d = e /\ m = n
    <3>1. toAgent[d][m] = toAgent[e][n]
      BY <2>1, <2>2
    <3>2. OneFrame
      BY DEF OrderInv
    <3> QED
      BY <3>1, <3>2 DEF OneFrame
  <2>4. i \in Int /\ j \in Int
    BY DEF TypeOK
  <2> QED
    BY <2>1, <2>2, <2>3, <2>4
<1>7. ASSUME NEW q \in Calls PROVE CallInv(q)'
  BY <1>1, <1>2, <1>3 DEF OrderInv, CallInv, TypeOK
<1>8. RunAtMostOnce'
  <2> SUFFICES ASSUME NEW q \in Calls
               PROVE  /\ Len(runs'[q]) <= 1
                      /\ \A i \in DOMAIN runs'[q] :
                            Owner[runs'[q][i]] = TenantOf[q]
    BY DEF RunAtMostOnce
  <2>1. CASE q = r
    <3>1. runs'[q] = <<a>>
      BY <1>1, <1>3, <2>1 DEF OrderInv, TypeOK
    <3> QED
      BY <1>2, <2>1, <3>1
  <2>2. CASE q # r
    BY <1>3, <2>2 DEF OrderInv, TypeOK, RunAtMostOnce
  <2> QED
    BY <2>1, <2>2
<1> QED
  BY <1>5, <1>6, <1>7, <1>8 DEF OrderInv

(* Only a call that has not begun puts its frame on a socket.              *)
LEMMA PlaceKeeps ==
    ASSUME OrderInv, TypeOK', RegisteredIsServed', NEW r \in Calls, Place(r)
    PROVE  OrderInv'
<1> DEFINE c == connections[TenantOf[r]]
<1>1. /\ c \in Conns /\ ServedTenant(c) = TenantOf[r]
      /\ call[r] = "idle" /\ result[r] = "none" /\ runs[r] = <<>>
  <2>1. TenantOf[r] \in Tenants /\ c # None /\ call[r] = "idle"
    BY RelayAssumption DEF Place
  <2>2. c \in Conns
    BY <2>1 DEF OrderInv, TypeOK
  <2>3. ServedTenant(c) = TenantOf[r]
    BY <2>1 DEF OrderInv, RegisteredIsServed
  <2>4. result[r] = "none" /\ runs[r] = <<>>
    BY <2>1 DEF OrderInv, CallInv
  <2> QED
    BY <2>1, <2>2, <2>3, <2>4
<1>2. /\ runs' = runs /\ result' = result
      /\ call' = [call EXCEPT ![r] = "sending"]
      /\ \/ toAgent' = toAgent
         \/ toAgent' = [toAgent EXCEPT ![c] = Append(toAgent[c], r)]
  BY DEF Place, agents
<1>3. \A d \in Conns : \A i \in 1 .. Len(toAgent[d]) : toAgent[d][i] # r
  BY <1>1 DEF OrderInv, FrameInv
<1>4. ASSUME NEW d \in Conns, NEW i \in 1 .. Len(toAgent'[d])
      PROVE  \/ /\ i \in 1 .. Len(toAgent[d])
                /\ toAgent'[d][i] = toAgent[d][i]
             \/ d = c /\ i = Len(toAgent[c]) + 1 /\ toAgent'[d][i] = r
  <2>1. CASE toAgent'[d] = toAgent[d]
    BY <1>4, <2>1
  <2>2. CASE d = c /\ toAgent'[d] = Append(toAgent[c], r)
    <3>1. toAgent[c] \in Seq(Calls)
      BY <1>1 DEF OrderInv, TypeOK
    <3> QED
      BY <1>4, <2>2, <3>1
  <2>3. toAgent \in [Conns -> Seq(Calls)]
    BY DEF OrderInv, TypeOK
  <2> QED
    BY <1>1, <1>2, <2>1, <2>2, <2>3
<1>5. FrameInv'
  <2> SUFFICES ASSUME NEW d \in Conns, NEW i \in 1 .. Len(toAgent'[d])
               PROVE  /\ TenantOf[toAgent'[d][i]] = ServedTenant(d)
                      /\ runs[toAgent'[d][i]] = <<>>
                      /\ call'[toAgent'[d][i]] # "idle"
                      /\ result[toAgent'[d][i]] # "offline"
    BY <1>2 DEF FrameInv, ServedTenant
  <2>1. call'[r] = "sending" /\ \A q \in Calls \ {r} : call'[q] = call[q]
    BY <1>2 DEF OrderInv, TypeOK
  <2>2. toAgent'[d][i] \in Calls
    BY DEF TypeOK
  <2> QED
    BY <1>1, <1>4, <2>1, <2>2 DEF OrderInv, FrameInv
<1>6. OneFrame'
  <2> SUFFICES ASSUME NEW d \in Conns, NEW e \in Conns,
                      NEW i \in 1 .. Len(toAgent'[d]),
                      NEW j \in 1 .. Len(toAgent'[e]),
                      toAgent'[d][i] = toAgent'[e][j]
               PROVE  d = e /\ i = j
    BY DEF OneFrame
  <2>1. CASE toAgent'[d][i] = r
    <3>1. d = c /\ i = Len(toAgent[c]) + 1
      BY <1>3, <1>4, <2>1
    <3>2. toAgent'[e][j] = r
      BY <2>1
    <3>3. e = c /\ j = Len(toAgent[c]) + 1
      BY <1>3, <1>4, <3>2
    <3> QED
      BY <3>1, <3>3
  <2>2. CASE toAgent'[d][i] # r
    <3>1. /\ i \in 1 .. Len(toAgent[d]) /\ toAgent'[d][i] = toAgent[d][i]
          /\ j \in 1 .. Len(toAgent[e]) /\ toAgent'[e][j] = toAgent[e][j]
      BY <1>4, <2>2
    <3>2. toAgent[d][i] = toAgent[e][j]
      BY <3>1
    <3>3. OneFrame
      BY DEF OrderInv
    <3> QED
      BY <3>1, <3>2, <3>3 DEF OneFrame
  <2> QED
    BY <2>1, <2>2
<1>7. ASSUME NEW q \in Calls PROVE CallInv(q)'
  BY <1>1, <1>2 DEF OrderInv, CallInv, TypeOK
<1>8. RunAtMostOnce'
  BY <1>2 DEF OrderInv, RunAtMostOnce
<1> QED
  BY <1>5, <1>6, <1>7, <1>8 DEF OrderInv

LEMMA StepOrderInv ==
    ASSUME OrderInv, [Next]_vars, RegisteredIsServed'
    PROVE  OrderInv'
<1>1. TypeOK'
  BY StepTypeOK DEF OrderInv
<1>2. ASSUME NEW a \in Agents, Run(a) PROVE OrderInv'
  <2>1. CASE Execute(a)
    BY <1>1, <2>1, ExecuteKeeps
  <2>2. CASE ~Execute(a)
    <3>1. UNCHANGED <<toAgent, runs, call, result>>
      BY <1>2, <2>2 DEF Run, Dial, Established, GiveUp, SendAnswer, Lose,
                        Exit, Restart, network, calls
    <3> QED
      BY <1>1, <3>1, CallsGoOn DEF OrderInv, CallInv
  <2> QED
    BY <2>1, <2>2
<1>3. ASSUME NEW c \in Conns, Break(c) PROVE OrderInv'
  BY <1>1, <1>3, BreakKeeps
<1>4. ASSUME NEW c \in Conns, Serve(c) PROVE OrderInv'
  <2>1. UNCHANGED <<toAgent, runs, call, result>>
    BY <1>4 DEF Serve, Lookup, Connect, HandshakeFails, Receive, Disconnect,
                agents, network, calls
  <2> QED
    BY <1>1, <2>1, CallsGoOn DEF OrderInv, CallInv
<1>5. ASSUME NEW r \in Calls, Begin(r) \/ Progress(r) PROVE OrderInv'
  <2>1. CASE Place(r)
    BY <1>1, <2>1, PlaceKeeps
  <2>2. CASE ~Place(r)
    <3>1. UNCHANGED <<toAgent, runs>>
      BY <1>5, <2>2 DEF Begin, Progress, Offline, Sent, SendRaises, Resume,
                        Timeout, agents, network
    <3>2. \/ call[r] = "idle" /\ Return(r, "offline")
          \/ call[r] = "sending" /\ Return(r, "failed")
          \/ call[r] = "waiting" /\ \E o \in BrokerStatuses : Return(r, o)
          \/ /\ call[r] = "sending" /\ result' = result
             /\ call' = [call EXCEPT ![r] = "waiting"]
      BY <1>5, <2>2
      DEF Begin, Progress, Offline, Sent, SendRaises, Resume, Timeout,
          OrderInv, TypeOK, BrokerStatuses
    <3>3. ASSUME NEW q \in Calls
          PROVE  /\ call[q] # "idle" => call'[q] # "idle"
                 /\ result'[q] = "offline" =>
                       result[q] = "offline" \/ call[q] = "idle"
                 /\ call'[q] # "done" => result'[q] = result[q]
                                       /\ call[q] # "done"
      BY <3>2 DEF Return, OrderInv, TypeOK, BrokerStatuses
    <3> QED
      BY <1>1, <3>1, <3>3, CallsGoOn
  <2> QED
    BY <2>1, <2>2
<1>6. CASE Crash
  <2>1. UNCHANGED <<toAgent, runs>>
    BY <1>6 DEF Crash, agents
  <2>2. ASSUME NEW q \in Calls
        PROVE  /\ call[q] # "idle" => call'[q] # "idle"
               /\ result'[q] = "offline" => result[q] = "offline"
               /\ call'[q] # "done" => result'[q] = result[q]
                                     /\ call[q] # "done"
    BY <1>6 DEF Crash
  <2> QED
    BY <1>1, <2>1, <2>2, CallsGoOn
<1>7. CASE \/ \E t \in Tenants : RotateToken(t)
           \/ \E r \in Calls : Fill(r)
           \/ UNCHANGED vars
  <2>1. UNCHANGED <<toAgent, runs, call, result>>
    BY <1>7, FillRests DEF RotateToken, vars, agents, network, calls
  <2> QED
    BY <1>1, <2>1, CallsGoOn DEF OrderInv, CallInv
<1> QED
  BY <1>2, <1>3, <1>4, <1>5, <1>6, <1>7 DEF Next

LEMMA OrderInvHolds == Spec => []OrderInv
<1>1. Init => OrderInv
  BY InitTypeOK
  DEF Init, OrderInv, RegisteredIsServed, FrameInv, OneFrame, CallInv,
      RunAtMostOnce
<1>2. OrderInv /\ [Next]_vars /\ RegisteredIsServed' => OrderInv'
  BY StepOrderInv
<1> QED
  BY <1>1, <1>2, OnlyServedRegistered, PTL DEF Spec

(* No order is run twice, or by another tenant's agent.                    *)
THEOREM RunsOnce == Spec => []RunAtMostOnce
<1>1. OrderInv => RunAtMostOnce
  BY DEF OrderInv
<1> QED
  BY <1>1, OrderInvHolds, PTL

(* An order refused as "offline" was never sent, nor will be.              *)
THEOREM OfflineIsUnsent == Spec => []OfflineMeansUnsent
<1>1. OrderInv => OfflineMeansUnsent
  BY DEF OrderInv, TypeOK, FrameInv, CallInv, OfflineMeansUnsent, Range
<1> QED
  BY <1>1, OrderInvHolds, PTL

----------------------------------------------------------------------------
(* What stands behind an answer, wherever it is on its way: in an agent's  *)
(* hand, on a socket, in a future.                                         *)
Backed(ran, taken, r, status) ==
    /\ ran[r] # <<>>
    /\ status = "accepted" => r \in taken

HandInv ==
    \A a \in Agents : hand[a] # None =>
        Backed(runs, placed, hand[a].id, hand[a].status)

WireInv ==
    \A c \in Conns : \A i \in 1 .. Len(toServer[c]) :
        Backed(runs, placed, toServer[c][i].id, toServer[c][i].status)

FutureInv ==
    \A r \in Calls : future[r] # "none" =>
        Backed(runs, placed, r, future[r])

AnswerInv == TypeOK /\ HandInv /\ WireInv /\ FutureInv /\ AnswersAreOwn

(* What has been run stays run.                                            *)
Grows ==
    \A r \in Calls : \A status \in BrokerStatuses :
        Backed(runs, placed, r, status) => Backed(runs', placed', r, status)

LEMMA RunsGrow ==
    ASSUME TypeOK, [Next]_vars
    PROVE  /\ Grows
           /\ \A r \in Calls : runs[r] # <<>> => runs'[r] # <<>>
           /\ placed \subseteq placed'
<1>1. (\A r \in Calls : runs[r] # <<>> => runs'[r] # <<>>)
        /\ placed \subseteq placed'
  <2>1. ASSUME NEW a \in Agents, Execute(a)
        PROVE  /\ \A r \in Calls : runs[r] # <<>> => runs'[r] # <<>>
               /\ placed \subseteq placed'
    <3>1. /\ runs' = [runs EXCEPT ![Head(toAgent[line[a]])] = Append(@, a)]
          /\ \/ placed' = placed
             \/ placed' = placed \cup {Head(toAgent[line[a]])}
      BY <2>1 DEF Execute
    <3>2. ASSUME NEW r \in Calls
          PROVE  runs[r] \in Seq(Agents) /\ Append(runs[r], a) # <<>>
      <4>1. runs[r] \in Seq(Agents)
        BY DEF TypeOK
      <4> QED
        BY <4>1, AppendProperties
    <3> QED
      BY <3>1, <3>2 DEF TypeOK
  <2>2. CASE UNCHANGED <<runs, placed>>
    BY <2>2
  <2>3. ASSUME ~(\E a \in Agents : Execute(a)) PROVE UNCHANGED <<runs, placed>>
    BY <2>3
    DEF Next, Run, Dial, Established, GiveUp, SendAnswer, Lose, Exit, Restart,
        Fill, Break, Serve, Lookup, Connect, HandshakeFails, Receive, Disconnect,
        Begin, Progress, Offline, Place, Sent, SendRaises, Resume, Timeout,
        RotateToken, Crash, vars, agents
  <2> QED
    BY <2>1, <2>2, <2>3
<1> QED
  BY <1>1 DEF Grows, Backed, BrokerStatuses

LEMMA HandsBacked ==
    ASSUME AnswerInv, TypeOK', Grows, [Next]_vars
    PROVE  HandInv'
<1>1. ASSUME NEW b \in Agents, hand'[b] = hand[b], hand'[b] # None
      PROVE  Backed(runs', placed', hand[b].id, hand[b].status)
  <2>1. hand[b].id \in Calls /\ hand[b].status \in BrokerStatuses
    BY <1>1 DEF AnswerInv, TypeOK, Answers
  <2>2. Backed(runs, placed, hand[b].id, hand[b].status)
    BY <1>1 DEF AnswerInv, HandInv
  <2> QED
    BY <1>1, <2>1, <2>2 DEF Grows, Backed
<1>2. ASSUME NEW a \in Agents, Execute(a) PROVE HandInv'
  <2> DEFINE r == Head(toAgent[line[a]])
  <2>1. PICK o \in Outcomes :
          /\ hand' = [hand EXCEPT ![a] = [id |-> r, status |-> o.status]]
          /\ placed' = IF o.placed THEN placed \cup {r} ELSE placed
    BY <1>2 DEF Execute
  <2>2. /\ r \in Calls /\ runs[r] \in Seq(Agents)
        /\ runs' = [runs EXCEPT ![r] = Append(runs[r], a)]
    BY <1>2 DEF Execute, AnswerInv, TypeOK, Online
  <2>3. Append(runs[r], a) # <<>>
    BY <2>2
  <2>4. runs'[r] # <<>> /\ (o.status = "accepted" => r \in placed')
    BY <2>1, <2>2, <2>3 DEF Outcomes, AnswerInv, TypeOK
  <2>5. hand'[a] = [id |-> r, status |-> o.status]
    BY <2>1 DEF AnswerInv, TypeOK
  <2>6. \A b \in Agents \ {a} : hand'[b] = hand[b]
    BY <2>1 DEF AnswerInv, TypeOK
  <2> QED
    BY <1>1, <2>4, <2>5, <2>6 DEF HandInv, Backed
<1>3. ASSUME ~\E a \in Agents : Execute(a),
             NEW b \in Agents, hand'[b] # None
      PROVE  hand'[b] = hand[b]
  <2>1. ASSUME NEW a \in Agents, Run(a)
        PROVE  hand' = hand \/ hand' = [hand EXCEPT ![a] = None]
    BY <1>3, <2>1
    DEF Run, Dial, Established, GiveUp, SendAnswer, Lose, Exit, Restart
  <2>2. CASE ~\E a \in Agents : Run(a)
    <3>1. hand' = hand
      BY <2>2
      DEF Next, Fill, Break, Serve, Lookup, Connect, HandshakeFails, Receive,
          Disconnect, Begin, Progress, Offline, Place, Sent, SendRaises,
          Resume, Timeout, RotateToken, Crash, vars, agents
    <3> QED
      BY <3>1
  <2>3. CASE \E a \in Agents : Run(a)
    <3>1. PICK a \in Agents : Run(a)
      BY <2>3
    <3>2. hand' = hand \/ hand' = [hand EXCEPT ![a] = None]
      BY <2>1, <3>1
    <3>3. hand \in [Agents -> Answers \cup {None}]
      BY DEF AnswerInv, TypeOK
    <3> QED
      BY <1>3, <3>2, <3>3
  <2> QED
    BY <2>2, <2>3
<1> QED
  BY <1>1, <1>2, <1>3 DEF HandInv, Backed

LEMMA WireBacked ==
    ASSUME AnswerInv, TypeOK', Grows, [Next]_vars
    PROVE  WireInv'
<1>1. ASSUME NEW m \in Answers, Backed(runs, placed, m.id, m.status)
      PROVE  Backed(runs', placed', m.id, m.status)
  <2>1. m.id \in Calls /\ m.status \in BrokerStatuses
    BY DEF Answers
  <2> QED
    BY <1>1, <2>1 DEF Grows, Backed
<1>2. ASSUME \A c \in Conns : \A i \in 1 .. Len(toServer'[c]) :
                \E j \in 1 .. Len(toServer[c]) :
                   toServer'[c][i] = toServer[c][j]
      PROVE  WireInv'
  <2> SUFFICES ASSUME NEW c \in Conns, NEW i \in 1 .. Len(toServer'[c])
               PROVE  Backed(runs', placed', toServer'[c][i].id,
                             toServer'[c][i].status)
    BY DEF WireInv, Backed
  <2>1. PICK j \in 1 .. Len(toServer[c]) : toServer'[c][i] = toServer[c][j]
    BY <1>2
  <2>2. toServer[c][j] \in Answers
    BY DEF AnswerInv, TypeOK
  <2>3. Backed(runs, placed, toServer[c][j].id, toServer[c][j].status)
    BY DEF AnswerInv, WireInv
  <2> QED
    BY <1>1, <2>1, <2>2, <2>3
<1>3. ASSUME NEW c \in Conns, Break(c) PROVE WireInv'
  <2>1. PICK p \in Prefixes(toServer[c]) :
           toServer' = [toServer EXCEPT ![c] = p]
    BY <1>3 DEF Break
  <2> QED
    BY <1>2, <2>1, PrefixTyped DEF AnswerInv, TypeOK
<1>4. ASSUME NEW c \in Conns, Receive(c) PROVE WireInv'
  <2>1. toServer[c] \in Seq(Answers) /\ toServer[c] # <<>>
    BY <1>4 DEF Receive, AnswerInv, TypeOK
  <2>2. ASSUME NEW i \in 1 .. Len(Tail(toServer[c]))
        PROVE  \E j \in 1 .. Len(toServer[c]) :
                  Tail(toServer[c])[i] = toServer[c][j]
    <3>1. Tail(toServer[c])[i] = toServer[c][i + 1]
      BY <2>1, HeadTailProperties
    <3>2. i + 1 \in 1 .. Len(toServer[c])
      BY <2>1, HeadTailProperties
    <3> QED
      BY <3>1, <3>2
  <2>3. toServer' = [toServer EXCEPT ![c] = Tail(toServer[c])]
    BY <1>4 DEF Receive
  <2>4. toServer \in [Conns -> Seq(Answers)]
    BY DEF AnswerInv, TypeOK
  <2> QED
    BY <1>2, <2>2, <2>3, <2>4
<1>5. ASSUME NEW a \in Agents, SendAnswer(a) PROVE WireInv'
  <2> DEFINE c == line[a]
  <2>1. /\ c \in Conns /\ hand[a] \in Answers
        /\ Backed(runs, placed, hand[a].id, hand[a].status)
        /\ toServer \in [Conns -> Seq(Answers)]
    BY <1>5 DEF SendAnswer, AnswerInv, TypeOK, Online, HandInv
  <2>2. CASE toServer' = toServer
    BY <1>2, <2>2
  <2>3. CASE toServer' = [toServer EXCEPT ![c] = Append(toServer[c], hand[a])]
    <3> SUFFICES ASSUME NEW d \in Conns, NEW i \in 1 .. Len(toServer'[d])
                 PROVE  Backed(runs', placed', toServer'[d][i].id,
                               toServer'[d][i].status)
      BY DEF WireInv, Backed
    <3>1. \/ toServer'[d][i] = hand[a]
          \/ \E j \in 1 .. Len(toServer[d]) : toServer'[d][i] = toServer[d][j]
      <4>1. toServer[d] \in Seq(Answers)
        BY <2>1
      <4>2. \/ toServer'[d] = toServer[d]
            \/ toServer'[d] = Append(toServer[d], hand[a])
        BY <2>1, <2>3
      <4>3. CASE toServer'[d] = Append(toServer[d], hand[a])
        BY <2>1, <4>1, <4>3, AppendProperties
      <4> QED
        BY <4>2, <4>3
    <3>2. CASE toServer'[d][i] = hand[a]
      BY <1>1, <2>1, <3>2
    <3>3. ASSUME NEW j \in 1 .. Len(toServer[d]),
                 toServer'[d][i] = toServer[d][j]
          PROVE  Backed(runs', placed', toServer'[d][i].id,
                        toServer'[d][i].status)
      <4>1. toServer[d][j] \in Answers
        BY <2>1
      <4>2. Backed(runs, placed, toServer[d][j].id, toServer[d][j].status)
        BY DEF AnswerInv, WireInv
      <4> QED
        BY <1>1, <3>3, <4>1, <4>2
    <3> QED
      BY <3>1, <3>2, <3>3
  <2> QED
    BY <1>5, <2>2, <2>3 DEF SendAnswer
<1>6. CASE Crash
  <2>1. \A c \in Conns : toServer'[c] = <<>>
    BY <1>6 DEF Crash
  <2> QED
    BY <2>1 DEF WireInv
<1>7. CASE UNCHANGED toServer
  BY <1>2, <1>7
<1>8. ASSUME ~(\E c \in Conns : Break(c) \/ Receive(c)),
             ~(\E a \in Agents : SendAnswer(a)), ~Crash
      PROVE  UNCHANGED toServer
  BY <1>8
  DEF Next, Fill, Run, Dial, Established, GiveUp, Execute, Lose, Exit, Restart,
      Serve, Lookup, Connect, HandshakeFails, Disconnect, Begin, Progress,
      Offline, Place, Sent, SendRaises, Resume, Timeout, RotateToken, vars,
      network
<1> QED
  BY <1>3, <1>4, <1>5, <1>6, <1>7, <1>8

LEMMA FuturesBacked ==
    ASSUME AnswerInv, TypeOK', Grows, [Next]_vars
    PROVE  FutureInv'
<1>1. ASSUME NEW r \in Calls, future'[r] = future[r], future'[r] # "none"
      PROVE  Backed(runs', placed', r, future'[r])
  <2>1. future[r] \in BrokerStatuses
    BY <1>1 DEF AnswerInv, TypeOK
  <2>2. Backed(runs, placed, r, future[r])
    BY <1>1 DEF AnswerInv, FutureInv
  <2> QED
    BY <1>1, <2>1, <2>2 DEF Grows
<1>2. ASSUME NEW c \in Conns, Receive(c) PROVE FutureInv'
  <2>1. toServer[c] \in Seq(Answers) /\ toServer[c] # <<>>
    BY <1>2 DEF Receive, AnswerInv, TypeOK
  <2>2. PICK m \in Answers : m = Head(toServer[c]) /\ m = toServer[c][1]
    BY <2>1
  <2>3. m.id \in Calls /\ 1 \in 1 .. Len(toServer[c])
    BY <2>1, <2>2 DEF Answers
  <2>4. Backed(runs, placed, m.id, m.status)
    BY <2>2, <2>3 DEF AnswerInv, WireInv
  <2>5. runs' = runs /\ placed' = placed
    BY <1>2 DEF Receive, agents
  <2>6. \/ future' = future
        \/ future' = [future EXCEPT ![m.id] = m.status]
    BY <1>2, <2>2 DEF Receive, Settle
  <2>7. ASSUME NEW r \in Calls, future'[r] # "none"
        PROVE  Backed(runs', placed', r, future'[r])
    <3>1. CASE future'[r] = future[r]
      BY <1>1, <2>7, <3>1
    <3>2. CASE r = m.id /\ future'[r] = m.status
      BY <2>4, <2>5, <3>2
    <3> QED
      BY <2>3, <2>6, <3>1, <3>2 DEF AnswerInv, TypeOK
  <2> QED
    BY <2>7 DEF FutureInv, Backed
<1>3. CASE Crash
  BY <1>3 DEF Crash, FutureInv
<1>4. CASE UNCHANGED future
  BY <1>1, <1>4 DEF FutureInv, Backed
<1>5. ASSUME ~(\E c \in Conns : Receive(c)), ~Crash
      PROVE  UNCHANGED future
  BY <1>5
  DEF Next, Fill, Run, Dial, Established, GiveUp, Execute, SendAnswer, Lose, Exit,
      Restart, Break, Serve, Lookup, Connect, HandshakeFails, Disconnect,
      Begin, Progress, Offline, Place, Sent, SendRaises, Resume, Timeout,
      RotateToken, vars, manager
<1> QED
  BY <1>2, <1>3, <1>4, <1>5

LEMMA ResultsOwn ==
    ASSUME AnswerInv, TypeOK', [Next]_vars
    PROVE  AnswersAreOwn'
<1>1. ASSUME NEW r \in Calls, result'[r] \in {"accepted", "rejected"}
      PROVE  result'[r] = result[r] \/ result'[r] = future[r]
  <2>1. ASSUME NEW q \in Calls, NEW o, Return(q, o)
        PROVE  result'[r] = result[r] \/ (q = r /\ result'[r] = o)
    BY <2>1 DEF Return, AnswerInv, TypeOK
  <2>2. ASSUME NEW q \in Calls,
               Offline(q) \/ SendRaises(q) \/ Resume(q) \/ Timeout(q)
        PROVE  result'[r] = result[r] \/ result'[r] = future[r]
    BY <1>1, <2>1, <2>2 DEF Offline, SendRaises, Resume, Timeout
  <2>3. CASE Crash
    BY <1>1, <2>3 DEF Crash
  <2>4. ASSUME ~(\E q \in Calls : \/ Offline(q) \/ SendRaises(q)
                                  \/ Resume(q) \/ Timeout(q)), ~Crash
        PROVE  UNCHANGED result
    BY <2>4
    DEF Next, Fill, Run, Dial, Established, GiveUp, Execute, SendAnswer, Lose, Exit,
        Restart, Break, Serve, Lookup, Connect, HandshakeFails, Receive,
        Disconnect, Begin, Progress, Place, Sent, RotateToken, vars, calls
  <2> QED
    BY <2>2, <2>3, <2>4
<1>2. /\ \A r \in Calls : runs[r] # <<>> => runs'[r] # <<>>
      /\ placed \subseteq placed'
  BY RunsGrow DEF AnswerInv
<1> QED
  BY <1>1, <1>2 DEF AnswerInv, AnswersAreOwn, FutureInv, Backed

LEMMA AnswerInvHolds == Spec => []AnswerInv
<1>1. Init => AnswerInv
  BY InitTypeOK
  DEF Init, AnswerInv, HandInv, WireInv, FutureInv, AnswersAreOwn
<1>2. AnswerInv /\ [Next]_vars => AnswerInv'
  <2> SUFFICES ASSUME AnswerInv, [Next]_vars PROVE AnswerInv'
    OBVIOUS
  <2>1. TypeOK' /\ Grows
    BY StepTypeOK, RunsGrow DEF AnswerInv
  <2> QED
    BY <2>1, HandsBacked, WireBacked, FuturesBacked, ResultsOwn
    DEF AnswerInv
<1> QED
  BY <1>1, <1>2, PTL DEF Spec

(* "accepted" is said of orders a terminal took, and an agent's answer is  *)
(* only given to the call whose order that agent ran.                      *)
THEOREM AnswersBacked == Spec => []AnswersAreOwn
<1>1. AnswerInv => AnswersAreOwn
  BY DEF AnswerInv
<1> QED
  BY <1>1, AnswerInvHolds, PTL

----------------------------------------------------------------------------
(* The steps of the relay at the port.                                     *)
PortStage ==
    [r \in Calls |-> IF call[r] = "idle" THEN "idle"
                     ELSE IF call[r] = "done" THEN "over" ELSE "out"]
PortRan == {r \in Calls : runs[r] # <<>>}

(* Each step of a call is the step of the port it stands for.              *)
LEMMA CallAtPort ==
    ASSUME TypeOK, AnswerInv, NEW r \in Calls
    PROVE  /\ Offline(r) => Port!Refuse(r)
           /\ Place(r) => Port!Hand(r)
           /\ Sent(r) => UNCHANGED Port!portVars
           /\ SendRaises(r) => Port!Raise(r)
           /\ Resume(r) => /\ result'[r] \in BrokerStatuses
                           /\ Port!Answer(r, result'[r])
           /\ Timeout(r) => Port!Answer(r, "error")
<1> USE DEF TypeOK, PortStage, PortRan
<1>1. Begin(r) \/ Progress(r)
        => UNCHANGED <<runs, placed, filled>> /\ PortRan' = PortRan
  BY DEF Begin, Progress, Offline, Place, Sent, SendRaises, Resume, Timeout,
         agents
<1>2. ASSUME NEW o, Return(r, o)
      PROVE  /\ PortStage' = [PortStage EXCEPT ![r] = "over"]
             /\ result' = [result EXCEPT ![r] = o]
  BY <1>2 DEF Return
<1>3. ASSUME Offline(r) PROVE Port!Refuse(r)
  BY <1>1, <1>2, <1>3 DEF Offline, Port!Refuse, Port!Over, Begin
<1>4. ASSUME Place(r) PROVE Port!Hand(r)
  <2>1. PortStage' = [PortStage EXCEPT ![r] = "out"] /\ result' = result
    BY <1>4 DEF Place
  <2> QED
    BY <1>1, <1>4, <2>1 DEF Place, Port!Hand, Begin
<1>5. ASSUME Sent(r) PROVE UNCHANGED Port!portVars
  <2>1. PortStage' = PortStage /\ result' = result
    BY <1>5 DEF Sent
  <2> QED
    BY <1>1, <1>5, <2>1 DEF Port!portVars, Progress
<1>6. ASSUME SendRaises(r) PROVE Port!Raise(r)
  BY <1>1, <1>2, <1>6 DEF SendRaises, Port!Raise, Port!Over, Progress
<1>7. ASSUME Resume(r)
      PROVE  result'[r] \in BrokerStatuses /\ Port!Answer(r, result'[r])
  <2>1. /\ future[r] \in {"accepted", "rejected", "error"}
        /\ runs[r] # <<>> /\ (future[r] = "accepted" => r \in placed)
    BY <1>7 DEF Resume, AnswerInv, FutureInv, Backed, BrokerStatuses
  <2>2. /\ PortStage' = [PortStage EXCEPT ![r] = "over"]
        /\ result' = [result EXCEPT ![r] = future[r]]
        /\ PortStage[r] = "out"
    BY <1>2, <1>7 DEF Resume
  <2>3. Port!Answer(r, future[r])
    BY <1>1, <1>7, <2>1, <2>2 DEF Port!Answer, Port!Over, Progress
  <2> QED
    BY <2>1, <2>2, <2>3 DEF BrokerStatuses
<1>8. ASSUME Timeout(r) PROVE Port!Answer(r, "error")
  BY <1>1, <1>2, <1>8 DEF Timeout, Port!Answer, Port!Over, Progress
<1> QED
  BY <1>3, <1>4, <1>5, <1>6, <1>7, <1>8

LEMMA ExecuteAtPort ==
    ASSUME OrderInv, NEW a \in Agents, Execute(a)
    PROVE  \E r \in Calls :
              /\ call[r] # "idle" /\ result[r] # "offline"
              /\ \/ r \in limits /\ Port!Execute(r, TRUE)
                 \/ r \notin limits /\ Port!Execute(r, FALSE)
<1> DEFINE c == line[a]
<1>1. TypeOK /\ c \in Conns /\ toAgent[c] \in Seq(Calls) /\ toAgent[c] # <<>>
  BY DEF OrderInv, TypeOK, Execute, Online
<1>2. PICK r \in Calls : /\ r = Head(toAgent[c]) /\ r = toAgent[c][1]
                        /\ 1 \in 1 .. Len(toAgent[c])
  BY <1>1
<1>3. /\ runs[r] = <<>> /\ call[r] # "idle" /\ result[r] # "offline"
  BY <1>1, <1>2 DEF OrderInv, FrameInv
<1>4. /\ runs' = [runs EXCEPT ![r] = Append(@, a)]
      /\ \/ UNCHANGED <<placed, filled>>
         \/ /\ placed' = placed \cup {r}
            /\ filled' = IF r \in limits THEN filled ELSE filled \cup {r}
      /\ UNCHANGED calls
  BY <1>2 DEF Execute
<1>5. runs'[r] # <<>>
  BY <1>1, <1>2, <1>3, <1>4, AppendProperties DEF TypeOK
<1>6. PortRan' = PortRan \cup {r} /\ PortStage' = PortStage
  <2>1. \A q \in Calls : q # r => runs'[q] = runs[q]
    BY <1>1, <1>2, <1>4 DEF TypeOK
  <2> QED
    BY <1>2, <1>4, <1>5, <2>1 DEF PortRan, PortStage, calls
<1>7. CASE r \in limits
  <2>1. Port!Execute(r, TRUE)
    BY <1>2, <1>3, <1>4, <1>6, <1>7
    DEF Port!Execute, PortRan, PortStage, calls
  <2> QED
    BY <1>3, <1>7, <2>1
<1>8. CASE r \notin limits
  <2>1. Port!Execute(r, FALSE)
    BY <1>2, <1>3, <1>4, <1>6, <1>8
    DEF Port!Execute, PortRan, PortStage, calls
  <2> QED
    BY <1>3, <1>8, <2>1
<1> QED
  BY <1>7, <1>8

LEMMA FillAtPort ==
    ASSUME NEW r \in Calls, Fill(r)
    PROVE  Port!Fill(r)
BY FillRests DEF Fill, Port!Fill

LEMMA CrashAtPort ==
    ASSUME TypeOK, Crash
    PROVE  Port!Abandon
<1>1. PortStage' = [r \in Calls |-> IF PortStage[r] = "out" THEN "over"
                                                          ELSE PortStage[r]]
  BY DEF Crash, PortStage, TypeOK, CallStates
<1>2. result' = [r \in Calls |-> IF PortStage[r] = "out" THEN "failed"
                                                        ELSE result[r]]
  BY DEF Crash, PortStage, TypeOK, CallStates
<1>3. PortRan' = PortRan /\ UNCHANGED <<placed, filled>>
  BY DEF Crash, agents, PortRan
<1> QED
  BY <1>1, <1>2, <1>3 DEF Port!Abandon, PortStage, PortRan

(* Nothing else is seen at the port.                                       *)
LEMMA RestAtPort ==
    ASSUME [Next]_vars
    PROVE  \/ UNCHANGED <<call, result, runs, placed, filled>>
           \/ \E a \in Agents : Execute(a)
           \/ \E r \in Calls : Begin(r) \/ Progress(r) \/ Fill(r)
           \/ Crash
<1>1. ASSUME NEW a \in Agents, Run(a), ~Execute(a)
      PROVE  UNCHANGED <<call, result, runs, placed, filled>>
  BY <1>1 DEF Run, Dial, Established, GiveUp, SendAnswer, Lose, Exit,
              Restart, calls
<1>2. ASSUME NEW c \in Conns, Break(c) \/ Serve(c)
      PROVE  UNCHANGED <<call, result, runs, placed, filled>>
  BY <1>2 DEF Break, Serve, Lookup, Connect, HandshakeFails, Receive,
              Disconnect, agents, calls
<1>3. ASSUME NEW t \in Tenants, RotateToken(t)
      PROVE  UNCHANGED <<call, result, runs, placed, filled>>
  BY <1>3 DEF RotateToken, agents, calls
<1>4. UNCHANGED vars => UNCHANGED <<call, result, runs, placed, filled>>
  BY DEF vars
<1> QED
  BY <1>1, <1>2, <1>3, <1>4 DEF Next

(* Behind every WSRelayBroker, whatever breaks, is a broker as the router  *)
(* expects it.                                                             *)
THEOREM ImplementsBroker == Spec => ImplementsPort
<1>1. Init => Port!Init
  BY DEF Init, Port!Init
<1>2. ASSUME OrderInv, AnswerInv, [Next]_vars
      PROVE  [Port!Next]_Port!portVars
  <2>1. TypeOK
    BY <1>2 DEF OrderInv
  <2>2. CASE UNCHANGED <<call, result, runs, placed, filled>>
    BY <2>2 DEF Port!portVars
  <2>3. ASSUME NEW r \in Calls, Begin(r) \/ Progress(r)
        PROVE  [Port!Next]_Port!portVars
    BY <1>2, <2>1, <2>3, CallAtPort
    DEF Begin, Progress, Port!Next, BrokerStatuses
  <2>4. ASSUME NEW a \in Agents, Execute(a) PROVE Port!Next
    <3>1. PICK r \in Calls : Port!Execute(r, TRUE) \/ Port!Execute(r, FALSE)
      BY <1>2, <2>4, ExecuteAtPort
    <3> QED
      BY <3>1 DEF Port!Next
  <2>5. Crash => Port!Next
    BY <2>1, CrashAtPort DEF Port!Next
  <2>6. ASSUME NEW r \in Calls, Fill(r) PROVE Port!Next
    BY <2>6, FillAtPort DEF Port!Next
  <2> QED
    BY <1>2, <2>2, <2>3, <2>4, <2>5, <2>6, RestAtPort
<1> QED
  BY <1>1, <1>2, OrderInvHolds, AnswerInvHolds, PTL
  DEF Spec, ImplementsPort, Port!Spec

----------------------------------------------------------------------------
(* Where a call stands, counted in steps.                                  *)
CallRank == [idle |-> 0, sending |-> 1, waiting |-> 2, done |-> 3]

LEMMA CallForward ==
    ASSUME TypeOK, NEW r \in Calls, Begin(r) \/ Progress(r)
    PROVE  /\ CallRank[call'[r]] > CallRank[call[r]] /\ call[r] # "done"
           /\ \A q \in Calls \ {r} : call'[q] = call[q]
                                   /\ result'[q] = result[q]
BY DEF TypeOK, CallStates, CallRank, Begin, Progress, Offline, Place, Sent,
       SendRaises, Resume, Timeout, Return

(* The safe half of CallReturns, and more: place_order moves by its own    *)
(* steps or ends with the process, no step takes it back, it makes at most *)
(* three, and what it has returned is never changed by an answer that      *)
(* comes in later.                                                         *)
CallsForward ==
    [][\A r \in Calls :
          /\ Begin(r) \/ Progress(r) => CallRank[call'[r]] > CallRank[call[r]]
          /\ call'[r] # call[r] =>
                Begin(r) \/ Progress(r) \/ (Crash /\ call'[r] = "done")
          /\ call[r] = "done" => result'[r] = result[r]]_vars

THEOREM CallsAdvance == Spec => CallsForward
<1>1. TypeOK /\ [Next]_vars =>
        [\A r \in Calls :
            /\ Begin(r) \/ Progress(r)
                  => CallRank[call'[r]] > CallRank[call[r]]
            /\ call'[r] # call[r] =>
                  Begin(r) \/ Progress(r) \/ (Crash /\ call'[r] = "done")
            /\ call[r] = "done" => result'[r] = result[r]]_vars
  <2> SUFFICES ASSUME TypeOK, Next, NEW r \in Calls
               PROVE  /\ Begin(r) \/ Progress(r)
                            => CallRank[call'[r]] > CallRank[call[r]]
                      /\ call'[r] # call[r] =>
                            \/ Begin(r) \/ Progress(r)
                            \/ Crash /\ call'[r] = "done"
                      /\ call[r] = "done" => result'[r] = result[r]
    OBVIOUS
  <2>1. ASSUME NEW q \in Calls, Begin(q) \/ Progress(q)
        PROVE  /\ call'[r] # call[r] => Begin(r) \/ Progress(r)
               /\ call[r] = "done" => result'[r] = result[r]
    BY <2>1, CallForward
  <2>2. Crash => /\ call'[r] = call[r] \/ call'[r] = "done"
                 /\ call[r] = "done" => result'[r] = result[r]
    BY DEF Crash
  <2>3. CASE UNCHANGED <<call, result, runs, placed, filled>>
    BY <2>3, CallForward
  <2>4. ASSUME NEW a \in Agents, Execute(a)
        PROVE  UNCHANGED <<call, result>>
    BY <2>4 DEF Execute, calls
  <2> QED
    BY <2>1, <2>2, <2>3, <2>4, CallForward, RestAtPort, FillRests
<1> QED
  BY <1>1, TypeCorrect, PTL DEF Spec, CallsForward

----------------------------------------------------------------------------
(* The server still serves a socket whose agent serves it, and an agent's  *)
(* tenant is registered unless another socket of his has ended.            *)
EndedBeside(c) ==
    \E d \in Conns \ {c} :
        ServedTenant(d) = ServedTenant(c) /\ handler[d] = "ended"

LiveInv ==
    /\ TypeOK
    /\ \A a \in Agents :
          agent[a] \in {"serving", "replying"} /\ link[line[a]] = "up" =>
              handler[line[a]] = "receiving"
    /\ \A c \in Conns :
          handler[c] = "receiving" =>
              connections[ServedTenant(c)] # None \/ EndedBeside(c)

LEMMA StepLive ==
    ASSUME LiveInv, [Next]_vars
    PROVE  LiveInv'
<1>1. TypeOK'
  BY StepTypeOK DEF LiveInv
<1> USE RelayAssumption DEF ServedTenant, EndedBeside
<1>2. CASE UNCHANGED <<agent, line, link, handler, connections>>
  BY <1>1, <1>2 DEF LiveInv
<1>3. ASSUME NEW a \in Agents, Run(a) PROVE LiveInv'
  <2>1. CASE \E c \in Conns : Dial(a, c)
    BY <1>1, <2>1 DEF LiveInv, TypeOK, Online, Dial, manager
  <2>2. CASE Established(a) \/ Execute(a) \/ SendAnswer(a) \/ Lose(a)
             \/ Restart(a)
    <3>1. UNCHANGED <<line, link, handler, connections>>
      BY <2>2 DEF Established, Execute, SendAnswer, Lose, Restart, network,
                  manager
    <3>2. /\ \A b \in Agents \ {a} : agent'[b] = agent[b]
          /\ \/ agent'[a] \in {"away", "stopped"}
             \/ agent[a] \in {"serving", "replying"}
             \/ handler[line[a]] = "receiving"
      BY <2>2 DEF Established, Execute, SendAnswer, Lose, Restart, LiveInv,
                  TypeOK
    <3> QED
      BY <1>1, <3>1, <3>2 DEF LiveInv
  <2>3. CASE GiveUp(a) \/ Exit(a)
    <3>1. /\ UNCHANGED <<line, handler, connections>>
          /\ \A c \in Conns : link'[c] = "up" => link[c] = "up"
          /\ \A b \in Agents \ {a} : agent'[b] = agent[b]
          /\ agent'[a] \in {"away", "stopped"}
      BY <2>3 DEF GiveUp, Exit, LiveInv, TypeOK, manager
    <3> QED
      BY <1>1, <3>1 DEF LiveInv, TypeOK, Online
  <2> QED
    BY <1>3, <2>1, <2>2, <2>3 DEF Run
<1>4. ASSUME NEW c \in Conns, Break(c) PROVE LiveInv'
  BY <1>1, <1>4 DEF LiveInv, TypeOK, Online, Break, agents, manager
<1>5. ASSUME NEW c \in Conns, Serve(c) PROVE LiveInv'
  <2>1. UNCHANGED <<agent, line, link>>
    BY <1>5 DEF Serve, Lookup, Connect, HandshakeFails, Receive, Disconnect,
                agents, network
  <2>2. CASE Lookup(c) \/ HandshakeFails(c)
    <3>1. /\ UNCHANGED connections
          /\ handler[c] \notin {"receiving", "ended"}
          /\ handler'[c] # "receiving"
          /\ \A d \in Conns \ {c} : handler'[d] = handler[d]
      BY <1>1, <2>2 DEF Lookup, HandshakeFails, LiveInv, TypeOK, manager
    <3>2. \A d \in Conns : EndedBeside(d) => EndedBeside(d)'
      BY <3>1 DEF EndedBeside, ServedTenant
    <3>3. \A a \in Agents : agent[a] \in {"serving", "replying"}
                             => line[a] \in Conns
      BY DEF LiveInv, TypeOK, Online
    <3> QED
      BY <1>1, <2>1, <3>1, <3>2, <3>3 DEF LiveInv, ServedTenant
  <2>3. CASE Connect(c)
    BY <1>1, <2>1, <2>3 DEF Connect, LiveInv, TypeOK
  <2>4. CASE Receive(c)
    BY <1>1, <2>1, <2>4 DEF Receive, LiveInv
  <2>5. CASE Disconnect(c)
    <3>1. /\ link[c] = "down" /\ handler[c] = "receiving"
          /\ handler'[c] = "ended"
          /\ \A d \in Conns \ {c} : handler'[d] = handler[d]
          /\ \A t \in Tenants \ {Owner[AgentOf[c]]} :
                connections'[t] = connections[t]
      BY <2>5 DEF Disconnect, LiveInv, TypeOK
    <3>2. \A d \in Conns : Owner[AgentOf[d]] \in Tenants
      OBVIOUS
    <3>3. ASSUME NEW d \in Conns, handler'[d] = "receiving"
          PROVE  connections'[ServedTenant(d)] # None \/ EndedBeside(d)'
      <4>1. d # c /\ handler[d] = "receiving"
        BY <3>1, <3>3
      <4>2. CASE Owner[AgentOf[d]] = Owner[AgentOf[c]]
        BY <3>1, <4>1, <4>2
      <4>3. CASE Owner[AgentOf[d]] # Owner[AgentOf[c]]
        BY <3>1, <3>2, <4>1, <4>3 DEF LiveInv
      <4> QED
        BY <4>2, <4>3
    <3>4. ASSUME NEW a \in Agents, agent[a] \in {"serving", "replying"},
                 link[line[a]] = "up"
          PROVE  handler'[line[a]] = "receiving"
      <4>1. line[a] \in Conns
        BY <3>4 DEF LiveInv, TypeOK, Online
      <4>2. line[a] # c /\ handler[line[a]] = "receiving"
        BY <3>1, <3>4 DEF LiveInv
      <4> QED
        BY <3>1, <4>1, <4>2
    <3> QED
      BY <1>1, <2>1, <3>3, <3>4 DEF LiveInv
  <2> QED
    BY <1>5, <2>2, <2>3, <2>4, <2>5 DEF Serve
<1>6. ASSUME NEW r \in Calls, Begin(r) \/ Progress(r)
      PROVE  UNCHANGED <<agent, line, link, handler, connections>>
  BY <1>6 DEF Begin, Progress, Offline, Place, Sent, SendRaises, Resume,
              Timeout, agents, network, manager
<1>7. ASSUME NEW t \in Tenants, RotateToken(t)
      PROVE  UNCHANGED <<agent, line, link, handler, connections>>
  BY <1>7 DEF RotateToken, agents, network, manager
<1>8. CASE Crash
  BY <1>1, <1>8 DEF Crash, LiveInv, TypeOK, Online, agents
<1> QED
  BY <1>2, <1>3, <1>4, <1>5, <1>6, <1>7, <1>8, FillRests DEF Next, vars

(* A connected agent is reported offline only after another socket of his  *)
(* tenant has ended: what the run replaced_socket finds, the late pop of a *)
(* replaced socket, is the only way to it.                                 *)
UnregisteredOnlyByAnother ==
    \A a \in Agents :
        agent[a] = "serving" /\ link[line[a]] = "up"
          /\ connections[Owner[a]] = None => EndedBeside(line[a])

THEOREM AgentsStayRegistered == Spec => []UnregisteredOnlyByAnother
<1>1. Init => LiveInv
  BY InitTypeOK DEF Init, LiveInv
<1>2. LiveInv => UnregisteredOnlyByAnother
  <2> SUFFICES ASSUME LiveInv, NEW a \in Agents, agent[a] = "serving",
                      link[line[a]] = "up", connections[Owner[a]] = None
               PROVE  EndedBeside(line[a])
    BY DEF UnregisteredOnlyByAnother
  <2>1. line[a] \in Conns /\ ServedTenant(line[a]) = Owner[a]
    BY DEF LiveInv, TypeOK, Online, ServedTenant
  <2>2. handler[line[a]] = "receiving"
    BY DEF LiveInv
  <2> QED
    BY <2>1, <2>2 DEF LiveInv
<1> QED
  BY <1>1, <1>2, StepLive, PTL DEF Spec
=============================================================================

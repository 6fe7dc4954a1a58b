------------------------------- MODULE Relay -------------------------------
(***************************************************************************)
(* The live path of an order: WSRelayBroker.place_order and                *)
(* ConnectionManager on the server, the agent_ws handlers (app/main.py)    *)
(* that register and unregister sockets, the network, and the agents       *)
(* (bridge_agent/agent.py) with the MT5 terminals they drive.              *)
(*                                                                         *)
(* A connection is one run of the agent's dial loop and of the server      *)
(* handler that serves it.  The two sides learn of a broken link at        *)
(* different times, so a handler may outlive the connection its agent has  *)
(* already replaced.  Agents with the same Owner hold the same account:    *)
(* KeyOf tells which agent token each process was started with.            *)
(*                                                                         *)
(* External: the websocket library, TCP and MetaTrader 5, modelled by what *)
(* the code can observe of them.                                           *)
(***************************************************************************)
EXTENDS Integers, Sequences, Functions

CONSTANTS
    Tenants,
    Agents,         \* agent processes; a restarted process is the same one
    Owner,          \* Owner[a]: the tenant whose token a was started with
    KeyOf,          \* KeyOf[a]: that token, a number
    Conns,          \* dials; each is used once
    AgentOf,        \* AgentOf[c]: the process that dials c
    Calls,          \* place_order calls, each with a fresh request_id
    TenantOf,       \* TenantOf[r]: the tenant whose broker places r
    LimitSets,      \* sets of calls that may be the limit orders
    None,           \* no connection, no answer
    MaxRotations,   \* bound on token rotations
    MaxCrashes,     \* bound on server crashes
    MaxExits        \* bound on ends of agent processes

BrokerStatuses == {"accepted", "rejected", "error"}

(* order_result frames, and the answer an agent is about to send.          *)
Answers == [id : Calls, status : BrokerStatuses]

ASSUME RelayAssumption ==
    /\ Owner \in [Agents -> Tenants]
    /\ KeyOf \in [Agents -> Nat]
    /\ AgentOf \in [Conns -> Agents]
    /\ TenantOf \in [Calls -> Tenants]
    /\ LimitSets \subseteq SUBSET Calls
    /\ None \notin Conns \cup Answers
    /\ MaxRotations \in Nat /\ MaxCrashes \in Nat /\ MaxExits \in Nat

AgentStates == {"away", "dialing", "serving", "replying", "stopped"}
HandlerStates == {"none", "lookup", "accepting", "receiving", "refused",
                  "ended"}
CallStates == {"idle", "sending", "waiting", "done"}
Results == BrokerStatuses \cup {"none", "offline", "failed"}

VARIABLES
    limits,     \* the calls that ask for a limit order
    token,      \* token[t]: the tenant's current agent token
    agent,      \* agent[a]: where the run loop of a stands
    line,       \* line[a]: the connection a last dialled
    hand,       \* hand[a]: the answer a holds while "replying"
    link,       \* link[c]: "none", "up" or "down"
    handler,    \* handler[c]: where the agent_ws call for c stands
    toAgent,    \* toAgent[c]: order frames on their way
    toServer,   \* toServer[c]: order_result frames on their way
    connections,\* ConnectionManager._connections
    pending,    \* keys of ConnectionManager._pending
    future,     \* future[r]: "none", or the status its future was set to
    call,       \* call[r]: where place_order stands
    via,        \* via[r]: the socket send_request took for r
    result,     \* result[r]: what place_order returned or raised
    runs,       \* runs[r]: the agents that ran order r, in order
    placed,     \* orders a terminal took: deals and pending orders
    filled,     \* those of them that changed the position of an account
    crashes, exits

vars == <<limits, token, agent, line, hand, link, handler, toAgent, toServer,
          connections, pending, future, call, via, result, runs,
          placed, filled, crashes, exits>>
agents == <<agent, line, hand, runs, placed, filled, exits>>
network == <<link, toAgent, toServer>>
manager == <<connections, pending, future>>
calls == <<call, via, result>>

ServedTenant(c) == Owner[AgentOf[c]]

Init ==
    /\ limits \in LimitSets
    /\ token = [t \in Tenants |-> 0]
    /\ agent = [a \in Agents |-> "away"]
    /\ line = [a \in Agents |-> None]
    /\ hand = [a \in Agents |-> None]
    /\ link = [c \in Conns |-> "none"]
    /\ handler = [c \in Conns |-> "none"]
    /\ toAgent = [c \in Conns |-> <<>>]
    /\ toServer = [c \in Conns |-> <<>>]
    /\ connections = [t \in Tenants |-> None]
    /\ pending = {}
    /\ future = [r \in Calls |-> "none"]
    /\ call = [r \in Calls |-> "idle"]
    /\ via = [r \in Calls |-> None]
    /\ result = [r \in Calls |-> "none"]
    /\ runs = [r \in Calls |-> <<>>]
    /\ placed = {}
    /\ filled = {}
    /\ crashes = 0
    /\ exits = 0

----------------------------------------------------------------------------
(* The network.                                                            *)

Prefixes(s) == {SubSeq(s, 1, n) : n \in 0 .. Len(s)}

(* The link goes down; what was in flight arrives up to some point.        *)
Break(c) ==
    /\ link[c] = "up"
    /\ link' = [link EXCEPT ![c] = "down"]
    /\ \E s \in Prefixes(toAgent[c]) : toAgent' = [toAgent EXCEPT ![c] = s]
    /\ \E s \in Prefixes(toServer[c]) : toServer' = [toServer EXCEPT ![c] = s]
    /\ UNCHANGED <<limits, token, agents, handler, manager, calls, crashes>>

----------------------------------------------------------------------------
(* The agent: run() in bridge_agent/agent.py.                              *)

Dial(a, c) ==
    /\ agent[a] = "away"
    /\ AgentOf[c] = a /\ handler[c] = "none"
    /\ agent' = [agent EXCEPT ![a] = "dialing"]
    /\ line' = [line EXCEPT ![a] = c]
    /\ link' = [link EXCEPT ![c] = "up"]
    /\ handler' = [handler EXCEPT ![c] = "lookup"]
    /\ UNCHANGED <<limits, token, hand, toAgent, toServer, manager, calls,
                   runs, placed, filled, crashes, exits>>

(* The handshake completes once the handler has accepted.                  *)
Established(a) ==
    /\ agent[a] = "dialing"
    /\ link[line[a]] = "up" /\ handler[line[a]] = "receiving"
    /\ agent' = [agent EXCEPT ![a] = "serving"]
    /\ UNCHANGED <<limits, token, line, hand, network, handler, manager,
                   calls, runs, placed, filled, crashes, exits>>

(* The dial fails, or takes longer than open_timeout: back off, dial again. *)
(* The server's handler knows nothing of it.                               *)
GiveUp(a) ==
    /\ agent[a] = "dialing"
    /\ agent' = [agent EXCEPT ![a] = "away"]
    /\ link' = [link EXCEPT ![line[a]] = "down"]
    /\ UNCHANGED <<limits, token, line, hand, handler, toAgent, toServer,
                   manager, calls, runs, placed, filled, crashes, exits>>

(* Variant: a partial fill is reported by a status of its own.             *)
OutcomesPartial ==
    {[status |-> "accepted", placed |-> TRUE],
     [status |-> "rejected", placed |-> FALSE],
     [status |-> "partial", placed |-> TRUE],
     [status |-> "error", placed |-> FALSE],
     [status |-> "error", placed |-> TRUE]}

(* What the terminal may make of an order, and the status reported: only   *)
(* DONE is accepted.  Any other retcode is rejected, also DONE_PARTIAL and *)
(* PLACED, for which the terminal has taken the order; None is an error.   *)
Outcomes ==
    {[status |-> "accepted", placed |-> TRUE],
     [status |-> "rejected", placed |-> FALSE],
     [status |-> "rejected", placed |-> TRUE],
     [status |-> "error", placed |-> FALSE],
     [status |-> "error", placed |-> TRUE]}

(* MT5Client.place_order on the next frame, received before or after the   *)
(* link went down: the library hands out what it has buffered first.  A    *)
(* market order (DEAL, IOC) the terminal takes is a deal by the time       *)
(* order_send returns; a limit order (PENDING, GTC) is left resting.       *)
Execute(a) ==
    LET c == line[a]  r == Head(toAgent[c]) IN
    /\ agent[a] = "serving"
    /\ toAgent[c] # <<>>
    /\ toAgent' = [toAgent EXCEPT ![c] = Tail(@)]
    /\ agent' = [agent EXCEPT ![a] = "replying"]
    /\ \E o \in Outcomes :
          /\ hand' = [hand EXCEPT ![a] = [id |-> r, status |-> o.status]]
          /\ placed' = IF o.placed THEN placed \cup {r} ELSE placed
          /\ filled' = IF o.placed /\ r \notin limits
                       THEN filled \cup {r} ELSE filled
    /\ runs' = [runs EXCEPT ![r] = Append(@, a)]
    /\ UNCHANGED <<limits, token, line, exits, link, toServer, handler,
                   manager, calls, crashes>>

(* The market reaches the price of a resting order: MetaTrader fills it,   *)
(* with or without an agent, whatever its caller was told.                 *)
Fill(r) ==
    /\ r \in placed \ filled
    /\ filled' = filled \cup {r}
    /\ UNCHANGED <<limits, token, agent, line, hand, runs, placed, exits,
                   network, handler, manager, calls, crashes>>

(* ws.send of the order_result: on a link that is down it is lost, whether *)
(* or not the library notices and raises.                                  *)
SendAnswer(a) ==
    LET c == line[a] IN
    /\ agent[a] = "replying"
    /\ hand' = [hand EXCEPT ![a] = None]
    /\ IF link[c] = "up"
       THEN /\ agent' = [agent EXCEPT ![a] = "serving"]
            /\ toServer' = [toServer EXCEPT ![c] = Append(@, hand[a])]
       ELSE /\ \E s \in {"serving", "away"} :
                  agent' = [agent EXCEPT ![a] = s]
            /\ UNCHANGED toServer
    /\ UNCHANGED <<limits, token, line, link, toAgent, handler, manager,
                   calls, runs, placed, filled, crashes, exits>>

(* The async for loop ends or raises ConnectionClosed.                     *)
Lose(a) ==
    /\ agent[a] = "serving"
    /\ link[line[a]] = "down" /\ toAgent[line[a]] = <<>>
    /\ agent' = [agent EXCEPT ![a] = "away"]
    /\ UNCHANGED <<limits, token, line, hand, network, handler, manager,
                   calls, runs, placed, filled, crashes, exits>>

(* The process ends: killed, or by an exception run() does not catch (a    *)
(* failed mt5.initialize, a refused handshake).                            *)
Exit(a) ==
    /\ agent[a] # "stopped"
    /\ \/ exits < MaxExits
       \/ agent[a] = "dialing" /\ handler[line[a]] = "refused"
    /\ exits' = IF exits < MaxExits THEN exits + 1 ELSE exits
    /\ agent' = [agent EXCEPT ![a] = "stopped"]
    /\ hand' = [hand EXCEPT ![a] = None]
    /\ link' = IF line[a] = None THEN link
               ELSE [link EXCEPT ![line[a]] = "down"]
    /\ UNCHANGED <<limits, token, line, toAgent, toServer, handler, manager,
                   calls, runs, placed, filled, crashes>>

Restart(a) ==
    /\ agent[a] = "stopped"
    /\ agent' = [agent EXCEPT ![a] = "away"]
    /\ UNCHANGED <<limits, token, line, hand, network, handler, manager,
                   calls, runs, placed, filled, crashes, exits>>

----------------------------------------------------------------------------
(* agent_ws, one handler per dial.                                         *)

(* get_tenant_by_agent_token; an unknown token is refused.                 *)
Lookup(c) ==
    /\ handler[c] = "lookup"
    /\ handler' = [handler EXCEPT ![c] =
          IF KeyOf[AgentOf[c]] = token[ServedTenant(c)] THEN "accepting"
                                                        ELSE "refused"]
    /\ UNCHANGED <<limits, token, agents, network, manager, calls, crashes>>

(* ConnectionManager.connect: the newest socket replaces any other, also   *)
(* when its agent is gone by now.                                          *)
Connect(c) ==
    /\ handler[c] = "accepting"
    /\ handler' = [handler EXCEPT ![c] = "receiving"]
    /\ connections' = [connections EXCEPT ![ServedTenant(c)] = c]
    /\ UNCHANGED <<limits, token, agents, network, pending, future, calls,
                   crashes>>

(* The lookup or accept raises before anything is registered.              *)
HandshakeFails(c) ==
    /\ handler[c] \in {"lookup", "accepting"}
    /\ link[c] = "down"
    /\ handler' = [handler EXCEPT ![c] = "ended"]
    /\ UNCHANGED <<limits, token, agents, network, manager, calls, crashes>>

Settle(r, status) == future' = [future EXCEPT ![r] = status]

(* Variant: an answer goes to whichever call is waiting.                   *)
ReceiveAnyCall(c) ==
    /\ handler[c] = "receiving"
    /\ toServer[c] # <<>>
    /\ toServer' = [toServer EXCEPT ![c] = Tail(@)]
    /\ IF \E r \in pending : future[r] = "none"
       THEN \E r \in pending : /\ future[r] = "none"
                              /\ Settle(r, Head(toServer[c]).status)
       ELSE UNCHANGED future
    /\ UNCHANGED <<limits, token, agents, link, toAgent, handler, connections,
                   pending, calls, crashes>>

(* receive_json, then resolve: an answer to a call that is gone, or that   *)
(* has its answer, is dropped.                                             *)
Receive(c) ==
    /\ handler[c] = "receiving"
    /\ toServer[c] # <<>>
    /\ toServer' = [toServer EXCEPT ![c] = Tail(@)]
    /\ LET m == Head(toServer[c]) IN
       IF m.id \in pending /\ future[m.id] = "none"
       THEN Settle(m.id, m.status)
       ELSE UNCHANGED future
    /\ UNCHANGED <<limits, token, agents, link, toAgent, handler, connections,
                   pending, calls, crashes>>

(* Variant: a handler that ends leaves its registration behind.            *)
DisconnectForgotten(c) ==
    /\ handler[c] = "receiving"
    /\ link[c] = "down" /\ toServer[c] = <<>>
    /\ handler' = [handler EXCEPT ![c] = "ended"]
    /\ UNCHANGED <<limits, token, agents, network, manager, calls, crashes>>

(* WebSocketDisconnect, and the finally clause: the tenant's registration  *)
(* is popped, whichever socket it holds.                                   *)
Disconnect(c) ==
    /\ handler[c] = "receiving"
    /\ link[c] = "down" /\ toServer[c] = <<>>
    /\ handler' = [handler EXCEPT ![c] = "ended"]
    /\ connections' = [connections EXCEPT ![ServedTenant(c)] = None]
    /\ UNCHANGED <<limits, token, agents, network, pending, future, calls,
                   crashes>>

----------------------------------------------------------------------------
(* WSRelayBroker.place_order with ConnectionManager.send_request.          *)

(* place_order returns or raises; send_request's finally pops the entry.   *)
Return(r, outcome) ==
    /\ call' = [call EXCEPT ![r] = "done"]
    /\ result' = [result EXCEPT ![r] = outcome]
    /\ pending' = pending \ {r}

(* BridgeOfflineError: place_order answers "rejected" without sending.     *)
Offline(r) ==
    /\ call[r] = "idle"
    /\ connections[TenantOf[r]] = None
    /\ Return(r, "offline")
    /\ UNCHANGED <<limits, token, agents, network, handler, connections,
                   future, via, crashes>>

(* The frame is written to the socket found in _connections; on a link     *)
(* that is down it is lost.  send_json then waits for the transport.       *)
Place(r) ==
    LET c == connections[TenantOf[r]] IN
    /\ call[r] = "idle"
    /\ c # None
    /\ call' = [call EXCEPT ![r] = "sending"]
    /\ via' = [via EXCEPT ![r] = c]
    /\ pending' = pending \cup {r}
    /\ toAgent' = IF link[c] = "up"
                  THEN [toAgent EXCEPT ![c] = Append(@, r)]
                  ELSE toAgent
    /\ UNCHANGED <<limits, token, agents, link, toServer, handler,
                   connections, future, result, crashes>>

Sent(r) ==
    /\ call[r] = "sending"
    /\ call' = [call EXCEPT ![r] = "waiting"]
    /\ UNCHANGED <<limits, token, agents, network, handler, manager, via,
                   result, crashes>>

(* Variant: an order whose send raised is sent again on the current socket. *)
SendRetries(r) ==
    LET c == connections[TenantOf[r]] IN
    /\ call[r] = "sending"
    /\ link[via[r]] = "down"
    /\ c \notin {None, via[r]}
    /\ via' = [via EXCEPT ![r] = c]
    /\ toAgent' = [toAgent EXCEPT ![c] = Append(@, r)]
    /\ UNCHANGED <<limits, token, agents, link, toServer, handler, manager,
                   call, result, crashes>>

(* Variant: a send that raises is answered like a missing agent.           *)
SendRaisesOffline(r) ==
    /\ call[r] = "sending"
    /\ link[via[r]] = "down"
    /\ Return(r, "offline")
    /\ UNCHANGED <<limits, token, agents, network, handler, connections,
                   future, via, crashes>>

(* send_json raises: no except clause matches, so place_order raises too.  *)
SendRaises(r) ==
    /\ call[r] = "sending"
    /\ link[via[r]] = "down"
    /\ Return(r, "failed")
    /\ UNCHANGED <<limits, token, agents, network, handler, connections,
                   future, via, crashes>>

Resume(r) ==
    /\ call[r] = "waiting"
    /\ future[r] # "none"
    /\ Return(r, future[r])
    /\ UNCHANGED <<limits, token, agents, network, handler, connections,
                   future, via, crashes>>

(* Variant: a timed-out call leaves its entry in _pending.                 *)
TimeoutLeaks(r) ==
    /\ call[r] = "waiting"
    /\ call' = [call EXCEPT ![r] = "done"]
    /\ result' = [result EXCEPT ![r] = "error"]
    /\ UNCHANGED <<limits, token, agents, network, handler, manager, via,
                   crashes>>

(* Variant: no deadline.                                                   *)
TimeoutNever(r) == FALSE

(* wait_for expires.  An answer that has arrived but not been picked up is *)
(* kept by wait_for up to Python 3.11 and dropped from 3.12 on.            *)
Timeout(r) ==
    /\ call[r] = "waiting"
    /\ Return(r, "error")
    /\ UNCHANGED <<limits, token, agents, network, handler, connections,
                   future, via, crashes>>

----------------------------------------------------------------------------
(* POST /me/regenerate-agent-token: only the stored hash changes.          *)
RotateToken(t) ==
    /\ token[t] < MaxRotations
    /\ token' = [token EXCEPT ![t] = @ + 1]
    /\ UNCHANGED <<limits, agents, network, handler, manager, calls, crashes>>

(* The process dies and comes back: registrations, futures and handlers    *)
(* are memory; order frames that had left may still arrive.                *)
Crash ==
    /\ crashes < MaxCrashes
    /\ crashes' = crashes + 1
    /\ handler' = [c \in Conns |-> IF handler[c] = "none" THEN "none"
                                                         ELSE "ended"]
    /\ link' = [c \in Conns |-> IF link[c] = "none" THEN "none" ELSE "down"]
    /\ toServer' = [c \in Conns |-> <<>>]
    /\ connections' = [t \in Tenants |-> None]
    /\ pending' = {}
    /\ future' = [r \in Calls |-> "none"]
    /\ call' = [r \in Calls |-> IF call[r] = "idle" THEN "idle" ELSE "done"]
    /\ result' = [r \in Calls |-> IF call[r] \in {"sending", "waiting"}
                                  THEN "failed" ELSE result[r]]
    /\ UNCHANGED <<limits, token, agents, toAgent, via>>

----------------------------------------------------------------------------
Begin(r) == Offline(r) \/ Place(r)

Progress(r) == Sent(r) \/ SendRaises(r) \/ Resume(r) \/ Timeout(r)

Serve(c) ==
    Lookup(c) \/ Connect(c) \/ HandshakeFails(c) \/ Receive(c)
        \/ Disconnect(c)

Run(a) ==
    \/ \E c \in Conns : Dial(a, c)
    \/ Established(a) \/ GiveUp(a) \/ Execute(a) \/ SendAnswer(a)
    \/ Lose(a) \/ Exit(a) \/ Restart(a)

Next ==
    \/ \E a \in Agents : Run(a)
    \/ \E c \in Conns : Break(c) \/ Serve(c)
    \/ \E r \in Calls : Begin(r) \/ Progress(r) \/ Fill(r)
    \/ \E t \in Tenants : RotateToken(t)
    \/ Crash

Spec == Init /\ [][Next]_vars

(* Nobody promises that a call is made, that an agent dials, answers or is *)
(* restarted.  A call that was made goes on: send_json returns or raises   *)
(* (the library's keepalive closes a stalled socket) and wait_for expires. *)
FairSpec == Spec /\ \A r \in Calls : WF_vars(Progress(r))

----------------------------------------------------------------------------
(* Type invariant.  A process that is dialing or connected does so on a    *)
(* connection of its own, and holds an answer exactly while replying; only *)
(* limit orders rest.                                                      *)
Online(a) == agent[a] \in {"dialing", "serving", "replying"}

TypeOK ==
    /\ limits \subseteq Calls
    /\ token \in [Tenants -> Nat]
    /\ agent \in [Agents -> AgentStates]
    /\ line \in [Agents -> Conns \cup {None}]
    /\ hand \in [Agents -> Answers \cup {None}]
    /\ link \in [Conns -> {"none", "up", "down"}]
    /\ handler \in [Conns -> HandlerStates]
    /\ toAgent \in [Conns -> Seq(Calls)]
    /\ toServer \in [Conns -> Seq(Answers)]
    /\ connections \in [Tenants -> Conns \cup {None}]
    /\ pending \subseteq Calls
    /\ future \in [Calls -> BrokerStatuses \cup {"none"}]
    /\ call \in [Calls -> CallStates]
    /\ via \in [Calls -> Conns \cup {None}]
    /\ result \in [Calls -> Results]
    /\ runs \in [Calls -> Seq(Agents)]
    /\ placed \subseteq Calls
    /\ filled \subseteq placed /\ placed \ filled \subseteq limits
    /\ crashes \in Nat /\ exits \in Nat
    /\ \A a \in Agents :
          /\ Online(a) => line[a] \in Conns /\ AgentOf[line[a]] = a
          /\ agent[a] = "replying" <=> hand[a] # None

(* A registered socket is one whose handler still receives, so an answer   *)
(* to what is sent there can be heard; and it is the tenant's own.  Pops   *)
(* by handlers of replaced sockets, late registrations and crashes never   *)
(* leave a dead handler registered.                                        *)
RegisteredIsServed ==
    \A t \in Tenants : connections[t] # None =>
        /\ handler[connections[t]] = "receiving"
        /\ ServedTenant(connections[t]) = t

(* An order is run at most once, by an agent of the tenant that placed it, *)
(* however sockets are replaced, links break and processes restart.        *)
RunAtMostOnce ==
    \A r \in Calls :
        /\ Len(runs[r]) <= 1
        /\ \A i \in DOMAIN runs[r] : Owner[runs[r][i]] = TenantOf[r]

(* place_order answers "accepted" only for an order the terminal took (a   *)
(* deal, or a limit order left resting), and passes on an agent's          *)
(* "rejected" only for an order that agent ran: resolve never gives a call *)
(* somebody else's answer.                                                 *)
AnswersAreOwn ==
    \A r \in Calls :
        /\ result[r] = "accepted" => r \in placed
        /\ result[r] = "rejected" => runs[r] # <<>>

(* "No bridge agent connected" is said of no order that an agent ran or    *)
(* may still run.                                                          *)
OfflineMeansUnsent ==
    \A r \in Calls : result[r] = "offline" =>
        /\ runs[r] = <<>>
        /\ \A c \in Conns : r \notin Range(toAgent[c])

(* _pending holds the calls being awaited and no other: a timeout, a send  *)
(* that raises or a late answer leaves nothing behind.                     *)
PendingIsExact == pending = {r \in Calls : call[r] \in {"sending", "waiting"}}

(* WSRelayBroker with everything behind it keeps what BrokerPort promises  *)
(* the router: no order runs twice or after an offline answer, and no call *)
(* is told accepted of an order no terminal took, or rejected by an agent  *)
(* that has not run it.                                                    *)
Port == INSTANCE BrokerPort WITH
    stage <- [r \in Calls |->
                IF call[r] = "idle" THEN "idle"
                ELSE IF call[r] = "done" THEN "over" ELSE "out"],
    outcome <- result,
    ran <- {r \in Calls : runs[r] # <<>>},
    traded <- filled

ImplementsPort == Port!Spec

(* A call that was made does not stay in flight for ever: it returns or    *)
(* raises, whether or not an agent is there to answer.                     *)
CallReturns ==
    \A r \in Calls : []<>(call[r] \notin {"sending", "waiting"})

(* ConnectionManager "tracks each tenant's live WebSocket connection": an  *)
(* agent that is serving on a live socket is not reported offline.         *)
LiveAgentRegistered ==
    \A a \in Agents :
        agent[a] = "serving" /\ link[line[a]] = "up" =>
            connections[Owner[a]] # None

(* README, regenerate-agent-token: "any connected agent must reconnect     *)
(* with the new one".                                                      *)
RotationDropsAgents ==
    [][\A r \in Calls : call[r] = "idle" /\ call'[r] = "sending" =>
          KeyOf[AgentOf[via'[r]]] = token[TenantOf[r]]]_vars
=============================================================================

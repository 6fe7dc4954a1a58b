-------------------------- MODULE DashboardProofs --------------------------
(***************************************************************************)
(* Proofs about Dashboard, for any accounts, panels and bounds.            *)
(***************************************************************************)
EXTENDS Dashboard, TLAPS

(* What a request carries and its answer brings.                           *)
ExchangeOK(e) ==
    /\ e.op = "signup" => e.body \in Accounts
    /\ e.op \in Panels => e.body \in Contents
    /\ e.stage = "ok" /\ e.op # "signup" => e.key # None
    /\ e.stage = "ok" /\ e.op = "me" => e.data # None

NetOK ==
    /\ net \in [Slots -> Exchanges \cup {None}]
    /\ \A s \in Slots : net[s] # None => ExchangeOK(net[s])

TypeInv == TypeOK /\ NetOK

(* pollHandle is the live timer exactly while the dashboard is shown.      *)
PollInv == OnePoll /\ (held <=> view = "dashboard")

(* The token kept is of the account logged in, no token is kept at the     *)
(* login page, the secrets modal is open only before its session, and the  *)
(* dashboard shows that account or is being loaded.                        *)
Own ==
    /\ agentToken # None /\ apiKey # None => agentToken[1] = apiKey[1]
    /\ view = "auth" /\ modal = None => agentToken = None
    /\ modal # None => apiKey = None
    /\ modal # None /\ agentToken # None => modal[1] = agentToken[1]
    /\ view = "dashboard" /\ apiKey # None =>
          \/ Loading
          \/ /\ email = apiKey[1]
             /\ command # None => command[1] = apiKey[1]

OwnInv == ~stray => Own

----------------------------------------------------------------------------
LEMMA PutOK ==
    ASSUME NetOK, NEW s \in Slots, NEW e \in Exchanges \cup {None},
           e # None => ExchangeOK(e), Put(s, e)
    PROVE  NetOK'
BY DEF NetOK, Put, ExchangeOK

LEMMA RequestOK ==
    ASSUME NEW op \in Ops, NEW k \in Secrets \cup {None},
           NEW body \in Accounts \cup Contents \cup {None},
           op = "signup" => body \in Accounts,
           op \in Panels => body \in Contents
    PROVE  /\ Request(op, k, body) \in Exchanges
           /\ ExchangeOK(Request(op, k, body))
BY DEF Request, Exchanges, ExchangeOK

LEMMA SendOK ==
    ASSUME NetOK, NEW op \in Ops, NEW k \in Secrets \cup {None},
           NEW body \in Accounts \cup Contents \cup {None},
           op = "signup" => body \in Accounts,
           op \in Panels => body \in Contents,
           Send(op, k, body)
    PROVE  NetOK'
<1>1. PICK s \in Slots : Put(s, Request(op, k, body))
  BY DEF Send
<1> QED
  BY <1>1, RequestOK, PutOK

(* The answer of the server to an exchange in flight.                      *)
LEMMA AnsweredOK ==
    ASSUME NetOK, NEW s \in Slots, net[s] # None,
           NEW stage \in {"denied", "failed"}, Answered(s, stage)
    PROVE  NetOK'
<1>1. /\ net[s] \in Exchanges
      /\ ExchangeOK(net[s])
  BY DEF NetOK
<1>2. /\ [net[s] EXCEPT !.stage = stage] \in Exchanges
      /\ ExchangeOK([net[s] EXCEPT !.stage = stage])
  BY <1>1 DEF Exchanges, ExchangeOK
<1> QED
  BY <1>2, PutOK DEF Answered

----------------------------------------------------------------------------
LEMMA ClearedIsZero ==
    ASSUME TypeOK, PollInv
    PROVE  Cleared = 0
<1>1. CASE view = "dashboard"
  <2>1. Cleared = timers - 1
    BY <1>1, Zenon DEF PollInv, Cleared
  <2>2. timers = 1
    BY <1>1 DEF PollInv, OnePoll
  <2> QED
    BY <2>1, <2>2
<1>2. CASE view # "dashboard"
  BY <1>2, Zenon DEF PollInv, OnePoll, Cleared
<1> QED
  BY <1>1, <1>2

LEMMA InitTyped == Init => TypeInv /\ PollInv
<1> SUFFICES ASSUME Init
             PROVE  TypeInv /\ PollInv
  OBVIOUS
<1>1. TypeOK
  BY DashboardAssumption DEF Init, TypeOK, Data, Secrets
<1>2. NetOK
  BY DEF Init, NetOK
<1>3. PollInv
  BY DEF Init, PollInv, OnePoll
<1> QED
  BY <1>1, <1>2, <1>3 DEF TypeInv

(* The steps of the customer.                                              *)
LEMMA CustomerTyped ==
    ASSUME TypeInv, PollInv, Customer
    PROVE  TypeInv' /\ PollInv'
<1> USE DEF TypeInv
<1>0. Cleared = 0
  BY ClearedIsZero
<1>1. CASE Login
  <2>1. PICK k \in KeysTyped : apiKey' = k /\ Send("login", k, None)
    BY <1>1 DEF Login
  <2>2. k \in Secrets
    BY DashboardAssumption DEF Secrets
  <2>3. NetOK'
    BY <2>1, <2>2, SendOK, DashboardAssumption DEF Ops
  <2>4. TypeOK'
    BY <1>1, <2>1, <2>2, <2>3
    DEF Login, Click, Act, TypeOK, NetOK, server, boxes, shown
  <2> QED
    BY <1>1, <2>3, <2>4 DEF Login, PollInv, OnePoll
<1>2. CASE Signup
  <2>1. PICK a \in Accounts : Send("signup", None, a)
    BY <1>2 DEF Signup
  <2>2. NetOK'
    BY <2>1, SendOK, DashboardAssumption DEF Ops
  <2>3. TypeOK'
    BY <1>2, <2>2
    DEF Signup, Click, Act, TypeOK, NetOK, server, session, boxes, shown
  <2> QED
    BY <1>2, <2>2, <2>3 DEF Signup, session, PollInv, OnePoll
<1>3. CASE ConfirmSecrets
  <2>1. PICK s \in Slots : FirstFree(s) /\ ShowDashboardView(s)
    BY <1>3 DEF ConfirmSecrets
  <2>2. apiKey' \in Secrets
    BY <1>3 DEF ConfirmSecrets, TypeOK
  <2>3. NetOK'
    BY <2>1, <2>2, RequestOK, PutOK, DashboardAssumption
    DEF ShowDashboardView, Ops
  <2>4. TypeOK'
    BY <1>0, <1>3, <2>1, <2>2, <2>3
    DEF ConfirmSecrets, ShowDashboardView, StartPolling, Click, Act, TypeOK,
        NetOK, server, shown
  <2> QED
    BY <1>0, <2>1, <2>3, <2>4
    DEF ShowDashboardView, StartPolling, PollInv, OnePoll
<1>4. CASE Logout
  <2>1. NetOK'
    BY <1>4 DEF Logout, NetOK
  <2>2. held' \in BOOLEAN
    BY <1>4, Zenon DEF Logout, ShowAuthView
  <2>3. TypeOK'
    BY <1>0, <1>4, <2>1, <2>2
    DEF Logout, Forgets, ShowAuthView, Click, Act, TypeOK, NetOK, server,
        boxes, shown
  <2> QED
    BY <1>0, <1>4, <2>1, <2>3 DEF Logout, ShowAuthView, PollInv, OnePoll
<1>5. CASE AskRegenerate
  <2>1. NetOK'
    BY <1>5 DEF AskRegenerate, NetOK
  <2>2. TypeOK'
    BY <1>5, <2>1
    DEF AskRegenerate, Click, Act, TypeOK, NetOK, server, session, shown
  <2> QED
    BY <1>5, <2>1, <2>2 DEF AskRegenerate, session, PollInv, OnePoll
<1>6. CASE AnswerDialog
  <2>1. NetOK'
    <3>1. CASE Send("token", apiKey, None)
      BY <3>1, SendOK, DashboardAssumption DEF Ops, TypeOK
    <3>2. CASE UNCHANGED net
      BY <3>2 DEF NetOK
    <3> QED
      BY <1>6, <3>1, <3>2 DEF AnswerDialog
  <2>2. dialog' \in BOOLEAN
    BY <1>6, Zenon DEF AnswerDialog
  <2>3. TypeOK'
    BY <1>6, <2>1, <2>2
    DEF AnswerDialog, Click, Act, TypeOK, NetOK, server, session, shown
  <2> QED
    BY <1>6, <2>1, <2>3 DEF AnswerDialog, session, PollInv, OnePoll
<1>7. CASE Reload
  <2>1. NetOK'
    BY <1>7 DEF Reload, NetOK
  <2>2. held' \in BOOLEAN /\ dialog' \in BOOLEAN /\ stray' \in BOOLEAN
    BY <1>7, Zenon DEF Reload
  <2>3. TypeOK'
    BY <1>7, <2>1, <2>2, DashboardAssumption
    DEF Reload, Click, Act, TypeOK, NetOK, server, Data
  <2> QED
    BY <1>7, <2>1, <2>3 DEF Reload, PollInv, OnePoll
<1>8. ASSUME NEW p \in Panels, NEW c \in Contents, Edit(p, c)
      PROVE  TypeInv' /\ PollInv'
  <2>1. NetOK'
    BY <1>8 DEF Edit, NetOK
  <2>2. TypeOK'
    BY <1>8, <2>1
    DEF Edit, Click, Act, TypeOK, NetOK, server, session, boxes, Data
  <2> QED
    BY <1>8, <2>1, <2>2 DEF Edit, session, PollInv, OnePoll
<1>9. ASSUME NEW p \in Panels, NEW c \in Contents, Save(p, c)
      PROVE  TypeInv' /\ PollInv'
  <2>1. NetOK'
    BY <1>9, SendOK, DashboardAssumption DEF Save, Ops, TypeOK
  <2>2. TypeOK'
    BY <1>9, <2>1
    DEF Save, Click, Act, TypeOK, NetOK, server, session, boxes, shown
  <2> QED
    BY <1>9, <2>1, <2>2 DEF Save, session, PollInv, OnePoll
<1> QED
  BY <1>1, <1>2, <1>3, <1>4, <1>5, <1>6, <1>7, <1>8, <1>9 DEF Customer

(* The steps of the server, the network and the timer.                     *)
LEMMA OutsideTyped ==
    ASSUME TypeInv, PollInv,
           \/ Elsewhere \/ Poll
           \/ \E s \in Slots : Serve(s) \/ Lose(s)
    PROVE  TypeInv' /\ PollInv'
<1> USE DEF TypeInv
<1>1. CASE Elsewhere
  <2>1. NetOK'
    BY <1>1 DEF Elsewhere, NetOK
  <2>2. PICK a \in members :
          \/ /\ key' = [key EXCEPT ![a] = @ + 1]
             /\ token' = [token EXCEPT ![a] = @ + 1]
             /\ UNCHANGED data
          \/ /\ \E p \in Panels, c \in Contents \ {Empty} :
                   data' = [data EXCEPT ![a][p] = c]
             /\ UNCHANGED <<key, token>>
    BY <1>1 DEF Elsewhere
  <2>3. /\ key' \in [Accounts -> Nat] /\ token' \in [Accounts -> Nat]
        /\ data' \in [Accounts -> Data]
    <3>1. a \in Accounts
      BY DEF TypeOK
    <3>2. CASE /\ key' = [key EXCEPT ![a] = @ + 1]
               /\ token' = [token EXCEPT ![a] = @ + 1]
               /\ UNCHANGED data
      BY <3>1, <3>2 DEF TypeOK
    <3>3. ASSUME NEW p \in Panels, NEW c \in Contents \ {Empty},
                 data' = [data EXCEPT ![a][p] = c], UNCHANGED <<key, token>>
          PROVE  /\ key' \in [Accounts -> Nat] /\ token' \in [Accounts -> Nat]
                 /\ data' \in [Accounts -> Data]
      BY <3>1, <3>3 DEF TypeOK, Data
    <3> QED
      BY <2>2, <3>2, <3>3
  <2>4. TypeOK'
    BY <1>1, <2>1, <2>3
    DEF Elsewhere, TypeOK, NetOK, session, boxes, shown
  <2> QED
    BY <1>1, <2>1, <2>4 DEF Elsewhere, session, PollInv, OnePoll
<1>2. CASE Poll
  <2>1. NetOK'
    BY <1>2, SendOK, DashboardAssumption DEF Poll, Ops, TypeOK
  <2>2. TypeOK'
    BY <1>2, <2>1
    DEF Poll, TypeOK, NetOK, server, session, boxes, shown, bounds
  <2> QED
    BY <1>2, <2>1, <2>2 DEF Poll, session, PollInv, OnePoll
<1>3. ASSUME NEW s \in Slots, Serve(s)
      PROVE  TypeInv' /\ PollInv'
  <2>1. /\ net[s] \in Exchanges /\ net[s] # None
        /\ ExchangeOK(net[s])
        /\ key' = key
    BY <1>3 DEF Serve, ServeSignup, ServeAccount, NetOK
  <2>2. /\ NetOK'
        /\ members' \subseteq Accounts
        /\ token' \in [Accounts -> Nat]
        /\ data' \in [Accounts -> Data]
    <3>1. CASE ServeSignup(s)
      <4>1. net[s].body \in Accounts /\ net[s].op = "signup"
        BY <2>1, <3>1 DEF ServeSignup, ExchangeOK
      <4>2. CASE net[s].body \in members
        BY <2>1, <3>1, <4>2, AnsweredOK DEF ServeSignup, TypeOK
      <4>3. CASE net[s].body \notin members
        <5> DEFINE e == [net[s] EXCEPT !.stage = "ok",
                                       !.token = token[net[s].body]]
        <5>1. e \in Exchanges /\ ExchangeOK(e)
          BY <2>1, <4>1 DEF Exchanges, ExchangeOK, TypeOK
        <5>2. Put(s, e)
          BY <3>1, <4>3 DEF ServeSignup
        <5>3. NetOK'
          BY <5>1, <5>2, PutOK
        <5> QED
          BY <3>1, <4>1, <4>3, <5>3 DEF ServeSignup, TypeOK
      <4> QED
        BY <4>2, <4>3
    <3>2. CASE ServeAccount(s)
      <4> DEFINE a == net[s].key[1]
      <4>1. CASE ~Knows(net[s].key) /\ Answered(s, "denied")
                 /\ UNCHANGED <<token, data>>
        BY <2>1, <3>2, <4>1, AnsweredOK DEF ServeAccount, TypeOK
      <4>2. CASE /\ Knows(net[s].key) /\ net[s].op \in {"login", "me"}
                 /\ Put(s, [net[s] EXCEPT !.stage = "ok", !.data = data[a]])
                 /\ UNCHANGED <<token, data>>
        <5> DEFINE e == [net[s] EXCEPT !.stage = "ok", !.data = data[a]]
        <5>1. net[s].key # None /\ a \in Accounts
          BY <4>2 DEF Knows, TypeOK
        <5>2. data[a] \in Data /\ data[a] # None
          BY <5>1, DashboardAssumption DEF TypeOK, Data
        <5>3. e \in Exchanges /\ ExchangeOK(e)
          BY <2>1, <5>1, <5>2 DEF Exchanges, ExchangeOK
        <5> QED
          BY <3>2, <4>2, <5>3, PutOK DEF ServeAccount, TypeOK
      <4>3. CASE /\ Knows(net[s].key) /\ net[s].op = "token"
                 /\ token' = [token EXCEPT ![a] = @ + 1]
                 /\ Put(s, [net[s] EXCEPT !.stage = "ok",
                                          !.token = token[a] + 1])
                 /\ UNCHANGED data
        <5> DEFINE e == [net[s] EXCEPT !.stage = "ok",
                                       !.token = token[a] + 1]
        <5>1. net[s].key # None /\ a \in Accounts
          BY <4>3 DEF Knows, TypeOK
        <5>2. token[a] \in Nat /\ token' \in [Accounts -> Nat]
          BY <4>3, <5>1 DEF TypeOK
        <5>3. e \in Exchanges /\ ExchangeOK(e)
          BY <2>1, <4>3, <5>1, <5>2 DEF Exchanges, ExchangeOK
        <5> QED
          BY <3>2, <4>3, <5>2, <5>3, PutOK DEF ServeAccount, TypeOK
      <4>4. CASE /\ Knows(net[s].key) /\ net[s].op \in Panels
                 /\ data' = [data EXCEPT ![a][net[s].op] =
                               Stored(net[s].op, @, net[s].body)]
                 /\ Answered(s, "ok")
                 /\ UNCHANGED token
        <5>1. net[s].key # None /\ a \in Accounts
          BY <4>4 DEF Knows, TypeOK
        <5>2. net[s].body \in Contents
          BY <2>1, <4>4 DEF ExchangeOK
        <5>3. data' \in [Accounts -> Data]
          BY <4>4, <5>1, <5>2 DEF TypeOK, Data, Stored
        <5> DEFINE e == [net[s] EXCEPT !.stage = "ok"]
        <5>4. e \in Exchanges /\ ExchangeOK(e)
          BY <2>1, <4>4, <5>1, DashboardAssumption DEF Exchanges, ExchangeOK
        <5>5. Put(s, e)
          BY <4>4 DEF Answered
        <5> QED
          BY <3>2, <4>4, <5>3, <5>4, <5>5, PutOK DEF ServeAccount, TypeOK
      <4> QED
        BY <3>2, <4>1, <4>2, <4>3, <4>4 DEF ServeAccount
    <3> QED
      BY <1>3, <3>1, <3>2 DEF Serve
  <2>3. TypeOK'
    BY <1>3, <2>1, <2>2
    DEF Serve, TypeOK, NetOK, session, boxes, shown, bounds
  <2> QED
    BY <1>3, <2>2, <2>3 DEF Serve, session, PollInv, OnePoll
<1>4. ASSUME NEW s \in Slots, Lose(s)
      PROVE  TypeInv' /\ PollInv'
  <2>1. NetOK'
    BY <1>4, AnsweredOK DEF Lose
  <2>2. TypeOK'
    BY <1>4, <2>1 DEF Lose, TypeOK, NetOK, server, session, boxes, shown
  <2> QED
    BY <1>4, <2>1, <2>2 DEF Lose, session, PollInv, OnePoll
<1> QED
  BY <1>1, <1>2, <1>3, <1>4

(* The answers, as they arrive.                                            *)
LEMMA ArriveTyped ==
    ASSUME TypeInv, PollInv, NEW s \in Slots, Arrive(s)
    PROVE  TypeInv' /\ PollInv'
<1> USE DEF TypeInv
<1>0. /\ Cleared = 0
      /\ net[s] \in Exchanges \cup {None}
      /\ net[s] # None => ExchangeOK(net[s])
      /\ \A p \in Panels : p \notin {"login", "me", "signup", "token"}
  BY ClearedIsZero, DashboardAssumption DEF NetOK
<1> DEFINE Reloads(k) == Put(s, Request("me", k, None))
<1>a. ASSUME Put(s, None)
      PROVE  NetOK'
  BY <1>a, PutOK
<1>b. ASSUME NEW k \in Secrets \cup {None}, Reloads(k)
      PROVE  NetOK'
  BY <1>b, RequestOK, PutOK, DashboardAssumption DEF Ops
<1>1. CASE LoginArrives(s)
  <2>1. CASE /\ UNCHANGED apiKey
             /\ ShowDashboardView(s)
             /\ Strays(net[s].key # apiKey)
    <3>1. NetOK'
      BY <2>1, <1>b DEF ShowDashboardView, TypeOK
    <3>2. stray' \in BOOLEAN
      BY <2>1 DEF Strays
    <3>3. TypeOK'
      BY <1>0, <1>1, <2>1, <3>1, <3>2
      DEF LoginArrives, Arrives, ShowDashboardView, StartPolling, TypeOK,
          NetOK, server, bounds, boxes, shown
    <3> QED
      BY <1>0, <2>1, <3>1, <3>3
      DEF ShowDashboardView, StartPolling, PollInv, OnePoll
  <2>2. CASE /\ apiKey' = None
             /\ Put(s, None)
             /\ UNCHANGED <<view, timers, held, stray>>
    <3>1. NetOK'
      BY <2>2, <1>a
    <3>2. TypeOK'
      BY <1>1, <2>2, <3>1
      DEF LoginArrives, Arrives, TypeOK, NetOK, server, bounds, boxes, shown
    <3> QED
      BY <2>2, <3>1, <3>2 DEF PollInv, OnePoll
  <2> QED
    BY <1>1, <2>1, <2>2 DEF LoginArrives
<1>2. CASE SignupArrives(s)
  <2>1. NetOK'
    BY <1>2, <1>a DEF SignupArrives
  <2>2. /\ agentToken' \in Secrets \cup {None}
        /\ modal' \in Secrets \cup {None}
        /\ stray' \in BOOLEAN
    <3>1. CASE /\ agentToken' = <<net[s].body, net[s].token>>
               /\ modal' = <<net[s].body, 0>>
               /\ Strays(apiKey # None)
      <4>1. net[s].body \in Accounts /\ net[s].token \in Nat
        BY <1>0, <1>2 DEF SignupArrives, Arrives, Exchanges, ExchangeOK
      <4>2. agentToken' \in Secrets /\ modal' \in Secrets
        BY <3>1, <4>1 DEF Secrets
      <4>3. stray' \in BOOLEAN
        BY <3>1 DEF Strays
      <4> QED
        BY <4>2, <4>3
    <3>2. CASE UNCHANGED <<agentToken, modal, stray>>
      BY <3>2 DEF TypeOK
    <3> QED
      BY <1>2, <3>1, <3>2 DEF SignupArrives
  <2>3. TypeOK'
    BY <1>2, <2>1, <2>2
    DEF SignupArrives, Arrives, TypeOK, NetOK, server, session, bounds, shown
  <2> QED
    BY <1>2, <2>1, <2>3 DEF SignupArrives, session, PollInv, OnePoll
<1>3. CASE MeArrives(s)
  <2>1. NetOK'
    BY <1>3, <1>a DEF MeArrives
  <2>2. CASE /\ net[s].stage = "ok"
             /\ RenderMe(net[s].key[1], net[s].data)
             /\ Strays(net[s].key # apiKey)
             /\ UNCHANGED session
    <3>1. email' \in Accounts /\ form' \in Data /\ command' = agentToken
      BY <1>0, <1>3, <2>2
      DEF MeArrives, Arrives, RenderMe, Exchanges, ExchangeOK, Secrets
    <3>2. stray' \in BOOLEAN
      BY <2>2 DEF Strays
    <3>3. TypeOK'
      BY <1>3, <2>1, <2>2, <3>1, <3>2
      DEF MeArrives, Arrives, TypeOK, NetOK, server, session, bounds, boxes
    <3> QED
      BY <2>1, <2>2, <3>3 DEF session, PollInv, OnePoll
  <2>3. CASE /\ Expire
             /\ Strays(agentToken # None)
             /\ UNCHANGED shown
    <3>1. stray' \in BOOLEAN
      BY <2>3 DEF Strays
    <3>2. held' \in BOOLEAN
      BY <2>3, Zenon DEF Expire, ShowAuthView
    <3>3. TypeOK'
      BY <1>0, <1>3, <2>1, <2>3, <3>1, <3>2
      DEF MeArrives, Arrives, Expire, ShowAuthView, TypeOK, NetOK, server,
          bounds, boxes, shown
    <3> QED
      BY <1>0, <2>1, <2>3, <3>3 DEF Expire, ShowAuthView, PollInv, OnePoll
  <2>4. CASE /\ Strays(TRUE)
             /\ UNCHANGED <<session, shown>>
    <3>1. stray' \in BOOLEAN
      BY <2>4 DEF Strays
    <3>2. TypeOK'
      BY <1>3, <2>1, <2>4, <3>1
      DEF MeArrives, Arrives, TypeOK, NetOK, server, session, bounds, boxes,
          shown
    <3> QED
      BY <2>1, <2>4, <3>2 DEF session, PollInv, OnePoll
  <2> QED
    BY <1>3, <2>2, <2>3, <2>4 DEF MeArrives
<1>4. CASE TokenArrives(s)
  <2>1. NetOK'
    BY <1>4, <1>a DEF TokenArrives
  <2>2. /\ agentToken' \in Secrets \cup {None}
        /\ command' \in Secrets \cup {None}
        /\ stray' \in BOOLEAN
    <3>1. CASE /\ net[s].stage = "ok"
               /\ agentToken' = <<net[s].key[1], net[s].token>>
               /\ command' = agentToken'
               /\ Strays(net[s].key # apiKey \/ view = "auth")
      <4>1. net[s].key \in Secrets /\ net[s].token \in Nat
        BY <1>0, <1>4, <3>1, DashboardAssumption
        DEF TokenArrives, Arrives, Exchanges, ExchangeOK
      <4>2. net[s].key[1] \in Accounts
        BY <4>1 DEF Secrets
      <4>3. agentToken' \in Secrets /\ command' \in Secrets
        BY <3>1, <4>1, <4>2 DEF Secrets
      <4>4. stray' \in BOOLEAN
        BY <3>1 DEF Strays
      <4> QED
        BY <4>3, <4>4
    <3>2. CASE UNCHANGED <<agentToken, command, stray>>
      BY <3>2 DEF TypeOK
    <3> QED
      BY <1>4, <3>1, <3>2 DEF TokenArrives
  <2>3. TypeOK'
    BY <1>4, <2>1, <2>2
    DEF TokenArrives, Arrives, TypeOK, NetOK, server, session, bounds, boxes
  <2> QED
    BY <1>4, <2>1, <2>3 DEF TokenArrives, session, PollInv, OnePoll
<1>5. ASSUME NEW p \in Panels, SaveArrives(s, p)
      PROVE  TypeInv' /\ PollInv'
  <2>1. Put(s, None) \/ Reloads(apiKey)
    BY <1>5 DEF SaveArrives
  <2>2. NetOK'
    BY <2>1, <1>a, <1>b DEF TypeOK
  <2>3. TypeOK'
    BY <1>5, <2>2
    DEF SaveArrives, Arrives, TypeOK, NetOK, server, session, bounds, boxes,
        shown
  <2> QED
    BY <1>5, <2>2, <2>3 DEF SaveArrives, session, PollInv, OnePoll
<1> QED
  BY <1>1, <1>2, <1>3, <1>4, <1>5 DEF Arrive

LEMMA StepTyped == TypeInv /\ PollInv /\ [Next]_vars => TypeInv' /\ PollInv'
<1> SUFFICES ASSUME TypeInv, PollInv, [Next]_vars
             PROVE  TypeInv' /\ PollInv'
  OBVIOUS
<1>1. CASE Next
  BY <1>1, CustomerTyped, OutsideTyped, ArriveTyped DEF Next
<1>2. CASE UNCHANGED vars
  BY <1>2
  DEF vars, server, session, shown, boxes, bounds, TypeInv, TypeOK, NetOK,
      PollInv, OnePoll
<1> QED
  BY <1>1, <1>2

LEMMA AlwaysTyped == Spec => [](TypeInv /\ PollInv)
BY InitTyped, StepTyped, PTL DEF Spec

(* Every variable of the page, the server and the network keeps its type.  *)
THEOREM TypeCorrect == Spec => []TypeOK
BY AlwaysTyped, PTL DEF TypeInv

(* However logins, logouts, saves and late answers interleave, the page    *)
(* polls with one timer while the dashboard is shown and with none else.   *)
THEOREM PollsOnce == Spec => []OnePoll
BY AlwaysTyped, PTL DEF PollInv

----------------------------------------------------------------------------
(* A load on its way stays on its way until its own answer arrives.        *)
LEMMA LoadingKept ==
    ASSUME NetOK, NEW s \in Slots, NEW e, Put(s, e), apiKey' = apiKey,
           \/ net[s] = None \/ net[s].op # "me"
           \/ e # None /\ e.op = net[s].op /\ e.key = net[s].key,
           Loading
    PROVE  Loading'
<1>1. PICK r \in Slots : /\ net[r] # None /\ net[r].op = "me"
                         /\ net[r].key = apiKey
  BY DEF Loading
<1>2. CASE r = s
  BY <1>1, <1>2 DEF Put, Loading, NetOK
<1>3. CASE r # s
  BY <1>1, <1>3 DEF Put, Loading, NetOK
<1> QED
  BY <1>2, <1>3

LEMMA LoadingSent ==
    ASSUME NetOK, NEW op, NEW k, NEW body, Send(op, k, body),
           apiKey' = apiKey, Loading
    PROVE  Loading'
<1>1. PICK s \in Slots : FirstFree(s) /\ Put(s, Request(op, k, body))
  BY DEF Send
<1> QED
  BY <1>1, LoadingKept DEF FirstFree

(* A load requested with the present key is on its way.                    *)
LEMMA LoadingStarts ==
    ASSUME NetOK, NEW s \in Slots, NEW e \in Exchanges, Put(s, e),
           e.op = "me", e.key = apiKey'
    PROVE  Loading'
BY DashboardAssumption DEF NetOK, Put, Loading, Exchanges

LEMMA LoadingUnsent ==
    ASSUME UNCHANGED net, apiKey' = apiKey, Loading
    PROVE  Loading'
BY DEF Loading

LEMMA InitOwn == Init => OwnInv
BY DEF Init, OwnInv, Own

LEMMA CustomerOwn ==
    ASSUME TypeInv, OwnInv, Customer
    PROVE  OwnInv'
<1> SUFFICES ASSUME ~stray'
             PROVE  Own'
  BY DEF OwnInv
<1>0. NetOK /\ TypeOK
  BY DEF TypeInv
<1>1. CASE Login
  <2>1. PICK k \in KeysTyped : apiKey' = k /\ Send("login", k, None)
    BY <1>1 DEF Login
  <2>2. /\ view = "auth" /\ modal = None
        /\ UNCHANGED <<view, agentToken, boxes, stray>>
    BY <1>1 DEF Login, AtLogin
  <2>3. agentToken = None
    BY <2>2 DEF OwnInv, Own
  <2> QED
    BY <2>1, <2>2, <2>3 DEF Own, boxes
<1>2. CASE Signup
  <2>1. PICK a \in Accounts : Send("signup", None, a)
    BY <1>2 DEF Signup
  <2>2. UNCHANGED <<session, agentToken, boxes, shown, stray>>
    BY <1>2 DEF Signup
  <2>3. Loading => Loading'
    BY <1>0, <2>1, <2>2, LoadingSent DEF session
  <2> QED
    BY <2>2, <2>3 DEF OwnInv, Own, session, boxes, shown
<1>3. CASE ConfirmSecrets
  <2>1. PICK s \in Slots : FirstFree(s) /\ ShowDashboardView(s)
    BY <1>3 DEF ConfirmSecrets
  <2>2. /\ modal # None /\ apiKey' = modal /\ modal' = None
        /\ UNCHANGED <<agentToken, stray>>
    BY <1>3 DEF ConfirmSecrets
  <2>3. Request("me", apiKey', None) \in Exchanges
    BY <1>0, <2>2, RequestOK, DashboardAssumption DEF TypeOK, Ops
  <2>4. Loading'
    BY <1>0, <2>1, <2>3, LoadingStarts DEF ShowDashboardView, Request
  <2>5. view' = "dashboard"
    BY <2>1 DEF ShowDashboardView
  <2> QED
    BY <2>2, <2>4, <2>5 DEF OwnInv, Own
<1>4. CASE Logout
  BY <1>4 DEF Logout, Forgets, ShowAuthView, boxes, OwnInv, Own
<1>5. CASE AskRegenerate
  <2>1. UNCHANGED <<session, agentToken, modal, shown, net, stray>>
    BY <1>5 DEF AskRegenerate
  <2>2. Loading => Loading'
    BY <2>1, LoadingUnsent DEF session
  <2> QED
    BY <2>1, <2>2 DEF OwnInv, Own, session, shown
<1>6. CASE AnswerDialog
  <2>1. UNCHANGED <<session, agentToken, modal, shown, stray>>
    BY <1>6 DEF AnswerDialog
  <2>2. Loading => Loading'
    BY <1>0, <1>6, <2>1, LoadingSent, LoadingUnsent DEF AnswerDialog, session
  <2> QED
    BY <2>1, <2>2 DEF OwnInv, Own, session, shown
<1>7. CASE Reload
  BY <1>7 DEF Reload, Own
<1>8. ASSUME NEW p \in Panels, NEW c \in Contents, Edit(p, c)
      PROVE  Own'
  <2>1. UNCHANGED <<session, agentToken, boxes, email, command, net, stray>>
    BY <1>8 DEF Edit
  <2>2. Loading => Loading'
    BY <2>1, LoadingUnsent DEF session
  <2> QED
    BY <2>1, <2>2 DEF OwnInv, Own, session, boxes
<1>9. ASSUME NEW p \in Panels, NEW c \in Contents, Save(p, c)
      PROVE  Own'
  <2>1. UNCHANGED <<session, agentToken, boxes, shown, stray>>
    BY <1>9 DEF Save
  <2>2. Loading => Loading'
    BY <1>0, <1>9, <2>1, LoadingSent DEF Save, session
  <2> QED
    BY <2>1, <2>2 DEF OwnInv, Own, session, boxes, shown
<1> QED
  BY <1>1, <1>2, <1>3, <1>4, <1>5, <1>6, <1>7, <1>8, <1>9 DEF Customer

(* What happens outside the page keeps the loads on their way.             *)
LEMMA OutsideOwn ==
    ASSUME TypeInv, OwnInv,
           \/ Elsewhere \/ Poll
           \/ \E s \in Slots : Serve(s) \/ Lose(s)
    PROVE  OwnInv'
<1>0. NetOK /\ TypeOK
  BY DEF TypeInv
<1>1. /\ UNCHANGED <<session, agentToken, boxes, shown, stray>>
      /\ Loading => Loading'
  <2>1. CASE Elsewhere
    BY <2>1, LoadingUnsent DEF Elsewhere, session
  <2>2. CASE Poll
    BY <1>0, <2>2, LoadingSent DEF Poll, session
  <2>3. ASSUME NEW s \in Slots, Serve(s) \/ Lose(s)
        PROVE  /\ UNCHANGED <<session, agentToken, boxes, shown, stray>>
               /\ Loading => Loading'
    <3>1. UNCHANGED <<session, agentToken, boxes, shown, stray>>
      BY <2>3 DEF Serve, Lose
    <3>2. net[s] # None /\ net[s] \in Exchanges
      BY <1>0, <2>3 DEF Serve, Lose, NetOK
    <3>3. ASSUME NEW e \in Exchanges, Put(s, e), e.op = net[s].op,
                 e.key = net[s].key
          PROVE  Loading => Loading'
      BY <1>0, <3>1, <3>3, LoadingKept, DashboardAssumption DEF session
    <3>4. ASSUME NEW st \in {"ok", "denied", "failed"}, Answered(s, st)
          PROVE  Loading => Loading'
      <4> DEFINE e == [net[s] EXCEPT !.stage = st]
      <4>1. e \in Exchanges /\ e.op = net[s].op /\ e.key = net[s].key
        BY <3>2 DEF Exchanges
      <4>2. Put(s, e)
        BY <3>4 DEF Answered
      <4> QED
        BY <3>3, <4>1, <4>2
    <3>5. ASSUME NEW d \in Data,
                 Put(s, [net[s] EXCEPT !.stage = "ok", !.data = d])
          PROVE  Loading => Loading'
      <4> DEFINE e == [net[s] EXCEPT !.stage = "ok", !.data = d]
      <4>1. e \in Exchanges /\ e.op = net[s].op /\ e.key = net[s].key
        BY <3>2 DEF Exchanges
      <4>2. Put(s, e)
        BY <3>5
      <4> HIDE DEF e
      <4> QED
        BY <3>3, <4>1, <4>2
    <3>6. ASSUME NEW t \in Nat,
                 Put(s, [net[s] EXCEPT !.stage = "ok", !.token = t])
          PROVE  Loading => Loading'
      <4> DEFINE e == [net[s] EXCEPT !.stage = "ok", !.token = t]
      <4>1. e \in Exchanges /\ e.op = net[s].op /\ e.key = net[s].key
        BY <3>2 DEF Exchanges
      <4>2. Put(s, e)
        BY <3>6
      <4> HIDE DEF e
      <4> QED
        BY <3>3, <4>1, <4>2
    <3>7. CASE ServeSignup(s)
      <4>1. net[s].body \in Accounts
        BY <1>0, <3>2, <3>7 DEF ServeSignup, NetOK, ExchangeOK
      <4>2. token[net[s].body] \in Nat
        BY <1>0, <4>1 DEF TypeOK
      <4> QED
        BY <3>1, <3>4, <3>6, <3>7, <4>2 DEF ServeSignup
    <3>8. CASE ServeAccount(s)
      <4>1. Knows(net[s].key) =>
              /\ data[net[s].key[1]] \in Data
              /\ token[net[s].key[1]] + 1 \in Nat
        BY <1>0 DEF Knows, TypeOK
      <4> QED
        BY <3>1, <3>4, <3>5, <3>6, <3>8, <4>1 DEF ServeAccount
    <3>9. CASE Lose(s)
      BY <3>1, <3>4, <3>9 DEF Lose
    <3> QED
      BY <2>3, <3>1, <3>7, <3>8, <3>9 DEF Serve
  <2> QED
    BY <2>1, <2>2, <2>3
<1> QED
  BY <1>1 DEF OwnInv, Own, session, boxes, shown

(* An answer that is not stray is of the session that asked for it.        *)
LEMMA ArriveOwn ==
    ASSUME TypeInv, OwnInv, NEW s \in Slots, Arrive(s)
    PROVE  OwnInv'
<1> SUFFICES ASSUME ~stray'
             PROVE  Own'
  BY DEF OwnInv
<1>0. /\ NetOK /\ TypeOK
      /\ net[s] # None /\ net[s] \in Exchanges /\ ExchangeOK(net[s])
      /\ \A p \in Panels : p # "me"
  BY DashboardAssumption
  DEF TypeInv, NetOK, Arrive, Arrives, LoginArrives, SignupArrives,
      MeArrives, TokenArrives, SaveArrives
<1>1. CASE LoginArrives(s)
  <2>1. CASE /\ net[s].stage = "ok"
             /\ UNCHANGED apiKey
             /\ ShowDashboardView(s)
             /\ Strays(net[s].key # apiKey)
    <3>1. ~stray /\ net[s].key = apiKey
      BY <2>1 DEF Strays
    <3>2. apiKey # None
      BY <1>0, <1>1, <2>1, <3>1 DEF LoginArrives, Arrives, ExchangeOK
    <3>3. Request("me", apiKey', None) \in Exchanges
      BY <1>0, <2>1, RequestOK, DashboardAssumption DEF TypeOK, Ops
    <3>4. Loading'
      BY <1>0, <2>1, <3>3, LoadingStarts DEF ShowDashboardView, Request
    <3>5. view' = "dashboard" /\ UNCHANGED <<agentToken, boxes>>
      BY <1>1, <2>1 DEF LoginArrives, ShowDashboardView
    <3> QED
      BY <2>1, <3>1, <3>2, <3>4, <3>5 DEF OwnInv, Own, boxes
  <2>2. CASE /\ apiKey' = None
             /\ UNCHANGED <<view, timers, held, stray>>
    BY <1>1, <2>2 DEF LoginArrives, boxes, OwnInv, Own
  <2> QED
    BY <1>1, <2>1, <2>2 DEF LoginArrives
<1>2. CASE SignupArrives(s)
  <2>1. CASE /\ agentToken' = <<net[s].body, net[s].token>>
             /\ modal' = <<net[s].body, 0>>
             /\ Strays(apiKey # None)
    <3>1. ~stray /\ apiKey = None
      BY <2>1 DEF Strays
    <3>2. modal' # None
      BY <1>0, <1>2, <2>1, DashboardAssumption
      DEF SignupArrives, Arrives, ExchangeOK, Secrets
    <3> QED
      BY <1>2, <2>1, <3>1, <3>2 DEF SignupArrives, session, Own
  <2>2. CASE UNCHANGED <<agentToken, modal, stray>>
    <3>1. UNCHANGED <<session, shown>> /\ Put(s, None)
      BY <1>2 DEF SignupArrives
    <3>2. Loading => Loading'
      BY <1>0, <1>2, <3>1, LoadingKept DEF SignupArrives, Arrives, session
    <3> QED
      BY <2>2, <3>1, <3>2 DEF OwnInv, Own, session, shown
  <2> QED
    BY <1>2, <2>1, <2>2 DEF SignupArrives
<1>3. CASE MeArrives(s)
  <2>1. CASE /\ net[s].stage = "ok"
             /\ RenderMe(net[s].key[1], net[s].data)
             /\ Strays(net[s].key # apiKey)
             /\ UNCHANGED session
    <3>1. ~stray /\ net[s].key = apiKey
      BY <2>1 DEF Strays
    <3>2. email' = apiKey[1] /\ command' = agentToken
      BY <2>1, <3>1 DEF RenderMe
    <3> QED
      BY <1>3, <2>1, <3>1, <3>2 DEF MeArrives, OwnInv, Own, session, boxes
  <2>2. CASE /\ Expire
             /\ Strays(agentToken # None)
    <3>1. ~stray /\ agentToken = None
      BY <2>2 DEF Strays
    <3> QED
      BY <1>3, <2>2, <3>1 DEF MeArrives, Expire, ShowAuthView, Own, boxes
  <2>3. CASE Strays(TRUE)
    BY <2>3 DEF Strays
  <2> QED
    BY <1>3, <2>1, <2>2, <2>3 DEF MeArrives
<1>4. CASE TokenArrives(s)
  <2>1. CASE /\ net[s].stage = "ok"
             /\ agentToken' = <<net[s].key[1], net[s].token>>
             /\ command' = agentToken'
             /\ Strays(net[s].key # apiKey \/ view = "auth")
    <3>1. ~stray /\ net[s].key = apiKey /\ view # "auth"
      BY <2>1 DEF Strays
    <3>2. apiKey # None /\ agentToken'[1] = apiKey[1]
      BY <1>0, <1>4, <2>1, <3>1 DEF TokenArrives, Arrives, ExchangeOK
    <3>3. modal = None
      BY <3>1, <3>2 DEF OwnInv, Own
    <3>4. UNCHANGED <<session, boxes, email>> /\ Put(s, None)
      BY <1>4 DEF TokenArrives
    <3>5. Loading => Loading'
      BY <1>0, <1>4, <3>4, LoadingKept DEF TokenArrives, Arrives, session
    <3> QED
      BY <2>1, <3>1, <3>2, <3>3, <3>4, <3>5
      DEF OwnInv, Own, session, boxes
  <2>2. CASE UNCHANGED <<agentToken, command, stray>>
    <3>1. UNCHANGED <<session, boxes, email>> /\ Put(s, None)
      BY <1>4 DEF TokenArrives
    <3>2. Loading => Loading'
      BY <1>0, <1>4, <3>1, LoadingKept DEF TokenArrives, Arrives, session
    <3> QED
      BY <2>2, <3>1, <3>2 DEF OwnInv, Own, session, boxes
  <2> QED
    BY <1>4, <2>1, <2>2 DEF TokenArrives
<1>5. ASSUME NEW p \in Panels, SaveArrives(s, p)
      PROVE  Own'
  <2>1. UNCHANGED <<session, agentToken, boxes, shown, stray>>
    BY <1>5 DEF SaveArrives
  <2>2. net[s].op # "me"
    BY <1>0, <1>5 DEF SaveArrives, Arrives
  <2>3. PICK e : Put(s, e)
    BY <1>5 DEF SaveArrives
  <2>4. Loading => Loading'
    BY <1>0, <2>1, <2>2, <2>3, LoadingKept DEF session
  <2> QED
    BY <2>1, <2>4 DEF OwnInv, Own, session, boxes, shown
<1> QED
  BY <1>1, <1>2, <1>3, <1>4, <1>5 DEF Arrive

LEMMA StepOwn == TypeInv /\ OwnInv /\ [Next]_vars => OwnInv'
<1> SUFFICES ASSUME TypeInv, OwnInv, [Next]_vars
             PROVE  OwnInv'
  OBVIOUS
<1>1. CASE Next
  BY <1>1, CustomerOwn, OutsideOwn, ArriveOwn DEF Next
<1>2. CASE UNCHANGED vars
  BY <1>2 DEF vars, session, boxes, shown, OwnInv, Own, Loading
<1> QED
  BY <1>1, <1>2

LEMMA AlwaysOwn == Spec => []OwnInv
BY InitOwn, AlwaysTyped, StepOwn, PTL DEF Spec

(* While no answer strays, the agent command on the dashboard holds the    *)
(* token of the account that is logged in, or is being loaded.             *)
THEOREM CommandIsOwn == Spec => []TokenIsOwn
<1>1. OwnInv => TokenIsOwn
  BY DEF OwnInv, Own, TokenIsOwn
<1> QED
  BY <1>1, AlwaysOwn, PTL

(* While no answer strays, what the panels show is of the account that is  *)
(* logged in, or is being loaded.                                          *)
THEOREM PanelsAreOwn == Spec => []DataIsOwn
<1>1. OwnInv => DataIsOwn
  BY DEF OwnInv, Own, DataIsOwn
<1> QED
  BY <1>1, AlwaysOwn, PTL
=============================================================================

----------------------------- MODULE Dashboard -----------------------------
(***************************************************************************)
(* The customer dashboard in one browser tab: web/app.js with its confirm  *)
(* dialog, against the server's account endpoints.                         *)
(*                                                                         *)
(* Every handler of the page runs up to its next await.  A request carries *)
(* the api key of the moment it was sent; its answer is computed when the  *)
(* server gets to it and handled when it arrives, in any order, by a page  *)
(* that may have logged out, or logged in to another account, meanwhile.   *)
(*                                                                         *)
(* The texts of the page, the trade table, the rotation of the passphrase  *)
(* (which only shows its result) and the clipboard are left out.  The risk *)
(* panel stands for its number fields.                                     *)
(***************************************************************************)
EXTENDS Naturals, FiniteSets

CONSTANTS
    Accounts,       \* accounts, those of future signups included
    Members,        \* accounts that exist at first
    KeysTyped,      \* api keys the customer may log in with, right or wrong
    Panels,         \* saved each on its own: "map", "risk", "switch"
    Contents,       \* what a panel may hold
    Fresh,          \* what it holds at first
    Empty,          \* nothing filled in
    MaxInFlight,    \* bound on requests in flight
    None,           \* no account, key, token or request
    MaxClicks,      \* bound on what the customer does
    MaxElsewhere,   \* bound on changes by an admin or another device
    MaxFaults       \* bound on failed requests

(* A key or an agent token is an account with the number of its rotations. *)
Secrets == Accounts \X Nat
Data == [Panels -> Contents]
Slots == 1 .. MaxInFlight

(* An op in Panels is the request that saves that panel.  A /me request is *)
(* answered with the data of the key's account, a signup or a rotation     *)
(* with the number of an agent token.                                      *)
Ops == {"login", "me", "signup", "token"} \cup Panels
Exchanges ==
    [op : Ops, key : Secrets \cup {None},
     body : Accounts \cup Contents \cup {None},
     stage : {"sent", "ok", "denied", "failed"},
     data : {None} \cup Data, token : Nat]

ASSUME DashboardAssumption ==
    /\ Panels \subseteq {"map", "risk", "switch"}
    /\ Members \subseteq Accounts
    /\ KeysTyped \subseteq Secrets
    /\ Fresh \in Contents /\ Empty \in Contents /\ Fresh # Empty
    /\ None \notin Accounts \cup Contents \cup Secrets \cup Data
    /\ None \notin Exchanges
    /\ MaxInFlight \in Nat /\ MaxClicks \in Nat
    /\ MaxElsewhere \in Nat /\ MaxFaults \in Nat

VARIABLES
    members,    \* accounts that exist
    key,        \* key[a]: the number of a's api key
    token,      \* token[a]: the number of a's agent token
    data,       \* data[a]: a's settings as stored
    view,       \* "auth" or "dashboard"
    apiKey,
    timers,     \* live intervals
    held,       \* pollHandle is one of them
    agentToken, \* lastKnownAgentToken
    modal,      \* the api key in the secrets modal
    dialog,     \* the confirm dialog is open
    email,      \* the account whose data the dashboard shows
    form,       \* form[p]: what panel p shows, unsaved edits included
    command,    \* the token in the agent command
    net,        \* net[s]: a request in flight
    clicks,
    elsewhere,
    faults,
    stray       \* history: a load failed, an answer came to a session that
                \* had not asked for it, or a token outlived its session

server == <<members, key, token, data>>
session == <<view, apiKey, timers, held>>
shown == <<email, form, command>>
boxes == <<modal, dialog>>
bounds == <<clicks, elsewhere, faults>>
vars == <<server, session, agentToken, boxes, shown, net, bounds, stray>>

----------------------------------------------------------------------------
Init ==
    /\ members = Members
    /\ key = [a \in Accounts |-> 0]
    /\ token = [a \in Accounts |-> 0]
    /\ data = [a \in Accounts |-> [p \in Panels |-> Fresh]]
    /\ view = "auth" /\ apiKey = None /\ timers = 0 /\ held = FALSE
    /\ agentToken = None /\ modal = None /\ dialog = FALSE
    /\ email = None /\ command = None
    /\ form = [p \in Panels |-> Empty]
    /\ net = [s \in Slots |-> None]
    /\ clicks = 0 /\ elsewhere = 0 /\ faults = 0
    /\ stray = FALSE

Request(op, k, body) ==
    [op |-> op, key |-> k, body |-> body, stage |-> "sent",
     data |-> None, token |-> 0]

Put(s, exchange) == net' = [net EXCEPT ![s] = exchange]

(* Which slot a request takes makes no difference.                         *)
FirstFree(s) == net[s] = None /\ \A r \in 1 .. s - 1 : net[r] # None

(* fetch, with the key of this moment in its header.                       *)
Send(op, k, body) ==
    \E s \in Slots : FirstFree(s) /\ Put(s, Request(op, k, body))

Strays(cond) == stray' = (stray \/ cond)

Cleared == IF held THEN timers - 1 ELSE timers

ShowAuthView ==
    /\ view' = "auth"
    /\ timers' = Cleared
    /\ held' = FALSE

(* Variant: the interval of an earlier login goes on running.              *)
StartPollingTwice == timers' = timers + 1 /\ held' = TRUE

StartPolling == timers' = Cleared + 1 /\ held' = TRUE

(* Variant: the first load is left to the timer.                           *)
ShowUnloaded(s) ==
    /\ view' = "dashboard"
    /\ StartPolling
    /\ Put(s, None)

(* showDashboardView: the view, the first load through slot s, the timer.  *)
ShowDashboardView(s) ==
    /\ view' = "dashboard"
    /\ StartPolling
    /\ Put(s, Request("me", apiKey', None))

----------------------------------------------------------------------------
(* The customer.                                                           *)
Act == clicks < MaxClicks /\ clicks' = clicks + 1
                          /\ UNCHANGED <<elsewhere, faults>>

(* The confirm dialog covers the page, the secrets modal the auth view.    *)
Click == ~dialog /\ Act
AtLogin == view = "auth" /\ modal = None

(* The key typed in, right or wrong, is the page's key from here on.       *)
Login ==
    /\ Click /\ AtLogin
    /\ \E k \in KeysTyped : apiKey' = k /\ Send("login", k, None)
    /\ UNCHANGED <<server, view, timers, held, agentToken, boxes, shown,
                   stray>>

Signup ==
    /\ Click /\ AtLogin
    /\ \E a \in Accounts : Send("signup", None, a)
    /\ UNCHANGED <<server, session, agentToken, boxes, shown, stray>>

(* "I have saved these": the session starts with the new account's key.    *)
ConfirmSecrets ==
    /\ Click /\ view = "auth" /\ modal # None
    /\ apiKey' = modal
    /\ modal' = None
    /\ \E s \in Slots : FirstFree(s) /\ ShowDashboardView(s)
    /\ UNCHANGED <<server, agentToken, dialog, shown, stray>>

(* Variant: the token shown last survives the logout.                      *)
ForgetsOnlyKey == apiKey' = None /\ UNCHANGED agentToken

Forgets == apiKey' = None /\ agentToken' = None

Logout ==
    /\ Click /\ view = "dashboard"
    /\ Forgets
    /\ ShowAuthView
    /\ UNCHANGED <<server, boxes, shown, net, stray>>

Edit(p, c) ==
    /\ Click /\ view = "dashboard" /\ p # "switch"
    /\ form' = [form EXCEPT ![p] = c]
    /\ UNCHANGED <<server, session, agentToken, boxes, email, command, net,
                   stray>>

(* Save sends the panel as it stands; the kill switch is a button.         *)
Save(p, c) ==
    /\ Click /\ view = "dashboard"
    /\ IF p = "switch" THEN c # Empty ELSE c = form[p]
    /\ Send(p, apiKey, c)
    /\ UNCHANGED <<server, session, agentToken, boxes, shown, stray>>

AskRegenerate ==
    /\ Click /\ view = "dashboard"
    /\ dialog' = TRUE
    /\ UNCHANGED <<server, session, agentToken, modal, shown, net, stray>>

(* The dialog stays open over a 401, and the request then carries no key.  *)
AnswerDialog ==
    /\ Act /\ dialog
    /\ dialog' = FALSE
    /\ Send("token", apiKey, None) \/ UNCHANGED net
    /\ UNCHANGED <<server, session, agentToken, modal, shown, stray>>

(* The page is loaded anew: nothing is kept, nothing is logged in.         *)
Reload ==
    /\ Act
    /\ view' = "auth" /\ apiKey' = None /\ timers' = 0 /\ held' = FALSE
    /\ agentToken' = None /\ modal' = None /\ dialog' = FALSE
    /\ email' = None /\ command' = None
    /\ net' = [s \in Slots |-> None]
    /\ form' = [p \in Panels |-> Empty]
    /\ stray' = FALSE
    /\ UNCHANGED server

----------------------------------------------------------------------------
(* The server, and everybody else who changes the account.                 *)
Knows(k) == k # None /\ k[1] \in members /\ k[2] = key[k[1]]

(* A blank number field is not sent, and what is not sent is kept.         *)
Stored(p, old, new) == IF p = "risk" /\ new = Empty THEN old ELSE new

Answered(s, stage) == Put(s, [net[s] EXCEPT !.stage = stage])

ServeSignup(s) ==
    LET a == net[s].body IN
    /\ net[s].op = "signup"
    /\ IF a \in members
       THEN Answered(s, "denied") /\ UNCHANGED members
       ELSE /\ members' = members \cup {a}
            /\ Put(s, [net[s] EXCEPT !.stage = "ok", !.token = token[a]])
    /\ UNCHANGED <<key, token, data>>

ServeAccount(s) ==
    LET op == net[s].op
        a == net[s].key[1]
    IN
    /\ op # "signup"
    /\ \/ /\ ~Knows(net[s].key)
          /\ Answered(s, "denied")
          /\ UNCHANGED <<token, data>>
       \/ /\ Knows(net[s].key) /\ op \in {"login", "me"}
          /\ Put(s, [net[s] EXCEPT !.stage = "ok", !.data = data[a]])
          /\ UNCHANGED <<token, data>>
       \/ /\ Knows(net[s].key) /\ op = "token"
          /\ token' = [token EXCEPT ![a] = @ + 1]
          /\ Put(s, [net[s] EXCEPT !.stage = "ok", !.token = token[a] + 1])
          /\ UNCHANGED data
       \/ /\ Knows(net[s].key) /\ op \in Panels
          /\ data' = [data EXCEPT ![a][op] = Stored(op, @, net[s].body)]
          /\ Answered(s, "ok")
          /\ UNCHANGED token
    /\ UNCHANGED <<members, key>>

Serve(s) ==
    /\ net[s] # None /\ net[s].stage = "sent"
    /\ ServeSignup(s) \/ ServeAccount(s)
    /\ UNCHANGED <<session, agentToken, boxes, shown, bounds, stray>>

(* fetch rejects, before or after the server saw the request, or a 500.    *)
Lose(s) ==
    /\ faults < MaxFaults
    /\ faults' = faults + 1
    /\ net[s] # None /\ net[s].stage # "failed"
    /\ Answered(s, "failed")
    /\ UNCHANGED <<server, session, agentToken, boxes, shown, clicks,
                   elsewhere, stray>>

(* An admin's reset, or the same customer on another device.               *)
Elsewhere ==
    /\ elsewhere < MaxElsewhere
    /\ elsewhere' = elsewhere + 1
    /\ \E a \in members :
          \/ /\ key' = [key EXCEPT ![a] = @ + 1]
             /\ token' = [token EXCEPT ![a] = @ + 1]
             /\ UNCHANGED data
          \/ /\ \E p \in Panels, c \in Contents \ {Empty} :
                   data' = [data EXCEPT ![a][p] = c]
             /\ UNCHANGED <<key, token>>
    /\ UNCHANGED <<members, session, agentToken, boxes, shown, net, clicks,
                   faults, stray>>

----------------------------------------------------------------------------
(* The page's timer and the continuations of its requests.                 *)
Poll ==
    /\ timers > 0
    /\ Send("me", apiKey, None)
    /\ UNCHANGED <<server, session, agentToken, boxes, shown, bounds, stray>>

Arrives(s, op) ==
    /\ net[s] # None /\ net[s].stage # "sent"
    /\ net[s].op = op
    /\ UNCHANGED <<server, bounds>>

(* A login that fails takes the key away, whosever it is by now.           *)
LoginArrives(s) ==
    /\ Arrives(s, "login")
    /\ \/ /\ net[s].stage = "ok"
          /\ UNCHANGED apiKey
          /\ ShowDashboardView(s)
          /\ Strays(net[s].key # apiKey)
       \/ /\ net[s].stage # "ok"
          /\ apiKey' = None
          /\ Put(s, None)
          /\ UNCHANGED <<view, timers, held, stray>>
    /\ UNCHANGED <<agentToken, boxes, shown>>

SignupArrives(s) ==
    /\ Arrives(s, "signup")
    /\ Put(s, None)
    /\ \/ /\ net[s].stage = "ok"
          /\ agentToken' = <<net[s].body, net[s].token>>
          /\ modal' = <<net[s].body, 0>>
          /\ Strays(apiKey # None)
       \/ /\ net[s].stage # "ok"
          /\ UNCHANGED <<agentToken, modal, stray>>
    /\ UNCHANGED <<session, dialog, shown>>

RenderMe(a, d) ==
    /\ email' = a
    /\ form' = d
    /\ command' = agentToken

(* Variant: a 401 drops the key and leaves the dashboard standing.         *)
ExpireKeyOnly ==
    /\ apiKey' = None
    /\ UNCHANGED <<view, timers, held>>

Expire ==
    /\ apiKey' = None
    /\ ShowAuthView

(* Variant: the answer is rendered whatever its status.                    *)
MeArrivesUnchecked(s) ==
    /\ Arrives(s, "me")
    /\ Put(s, None)
    /\ RenderMe(email, net[s].data)
    /\ UNCHANGED <<session, agentToken, boxes, stray>>

(* loadDashboard after its await: a 401 ends whatever session there is.    *)
MeArrives(s) ==
    /\ Arrives(s, "me")
    /\ Put(s, None)
    /\ \/ /\ net[s].stage = "ok"
          /\ RenderMe(net[s].key[1], net[s].data)
          /\ Strays(net[s].key # apiKey)
          /\ UNCHANGED session
       \/ /\ net[s].stage = "denied"
          /\ Expire
          /\ Strays(agentToken # None)
          /\ UNCHANGED shown
       \/ /\ net[s].stage = "failed"
          /\ Strays(TRUE)
          /\ UNCHANGED <<session, shown>>
    /\ UNCHANGED <<agentToken, boxes>>

(* After a save the dashboard is loaded again, except for risk settings.   *)
SaveArrives(s, p) ==
    /\ Arrives(s, p)
    /\ Put(s, IF net[s].stage = "ok" /\ p # "risk"
              THEN Request("me", apiKey, None) ELSE None)
    /\ UNCHANGED <<session, agentToken, boxes, shown, stray>>

TokenArrives(s) ==
    /\ Arrives(s, "token")
    /\ Put(s, None)
    /\ \/ /\ net[s].stage = "ok"
          /\ agentToken' = <<net[s].key[1], net[s].token>>
          /\ command' = agentToken'
          /\ Strays(net[s].key # apiKey \/ view = "auth")
       \/ /\ net[s].stage # "ok"
          /\ UNCHANGED <<agentToken, command, stray>>
    /\ UNCHANGED <<session, boxes, email, form>>

Arrive(s) ==
    \/ LoginArrives(s) \/ SignupArrives(s) \/ MeArrives(s) \/ TokenArrives(s)
    \/ \E p \in Panels : SaveArrives(s, p)

Customer ==
    \/ Login \/ Signup \/ ConfirmSecrets \/ Logout \/ AskRegenerate
    \/ AnswerDialog \/ Reload
    \/ \E p \in Panels, c \in Contents : Edit(p, c) \/ Save(p, c)

Next ==
    \/ Customer \/ Elsewhere \/ Poll
    \/ \E s \in Slots : Serve(s) \/ Lose(s) \/ Arrive(s)

Spec == Init /\ [][Next]_vars

(* The browser runs the interval and the continuations; that the server    *)
(* gets to every request it is sent is assumed of the network.             *)
FairSpec ==
    /\ Spec
    /\ WF_vars(Poll)
    /\ \A s \in Slots : WF_vars(Serve(s)) /\ WF_vars(Arrive(s))

----------------------------------------------------------------------------
(* Type invariant.                                                         *)
TypeOK ==
    /\ members \subseteq Accounts
    /\ key \in [Accounts -> Nat] /\ token \in [Accounts -> Nat]
    /\ data \in [Accounts -> Data]
    /\ view \in {"auth", "dashboard"}
    /\ apiKey \in Secrets \cup {None}
    /\ timers \in Nat /\ held \in BOOLEAN
    /\ agentToken \in Secrets \cup {None}
    /\ modal \in Secrets \cup {None} /\ dialog \in BOOLEAN
    /\ email \in Accounts \cup {None} /\ form \in Data
    /\ command \in Secrets \cup {None}
    /\ net \in [Slots -> Exchanges \cup {None}]
    /\ clicks \in Nat /\ elsewhere \in Nat /\ faults \in Nat
    /\ stray \in BOOLEAN

(* The dashboard polls with exactly one timer and the login page with      *)
(* none, also when logins overlap or answer after a logout.                *)
OnePoll == timers = IF view = "dashboard" THEN 1 ELSE 0

(* The first load of a session, or a later one, is on its way.             *)
Loading ==
    \E s \in Slots : net[s] # None /\ net[s].op = "me" /\ net[s].key = apiKey

(* The agent command holds the token of the account that is logged in,     *)
(* unless it is being loaded, an answer came to a session that had not     *)
(* asked for it, or a token outlived a session that ended by a 401.        *)
TokenIsOwn ==
    view = "dashboard" /\ apiKey # None /\ command # None /\ ~stray =>
        command[1] = apiKey[1] \/ Loading

(* What the panels show, and a save would write, is of the account that    *)
(* is logged in, and not the empty page or somebody else's settings, with  *)
(* the same exceptions.                                                    *)
DataIsOwn ==
    view = "dashboard" /\ apiKey # None /\ ~stray =>
        email = apiKey[1] \/ Loading

(* When nobody changes anything any more the dashboard ends up with what   *)
(* the server has, whatever answers came late or were lost, and closes if  *)
(* its key is no longer good.                                              *)
DisplaySettles ==
    <>[](view = "dashboard" =>
            Knows(apiKey) /\ email = apiKey[1] /\ form = data[email])
=============================================================================

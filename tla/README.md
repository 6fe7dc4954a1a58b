# A formal model of the MT5 bridge

TLA+ specifications, TLC runs and TLAPS proofs for the hosted TradingView to
MetaTrader 5 bridge in `src/`: a FastAPI server that takes webhook alerts,
checks them and relays orders over a websocket to an agent on the customer's
Windows machine.

```
TradingView --webhook--> tradingview_webhook --> process_signal --+--> trade_log (database)
 (retries)                                                        |
customers, admin --HTTP--> /signup, /me, /admin --> tenants       +--> WSRelayBroker / ConnectionManager
                                                                         |  websocket, one per agent
                                                                         v
                                                        bridge_agent/agent.py --> MetaTrader 5
```

## 1. Inventory

| Component | State | Operations | What is hard | What makes it correct |
|---|---|---|---|---|
| Signal validation, guardrails (`app/models/signal.py`, `app/risk/manager.py`) | none | validate, `check_risk`, order side, subscription arithmetic | boundaries: expiry instant, zero and negative limits, blank symbols | one answer on the boundary everywhere; grants never shorten |
| Webhook and router (`app/main.py`, `app/services/order_router.py`) | the tenant object of each request, local results | load, authorise, reserve, check, place, log, finalize | retries run at once; every `await` lets others in; any step can fail or be the last before a crash | one order per signal, decided on the right data, and always an end |
| Trade log (`repository.py`, `models.py`) | `trade_log` rows under a unique key | reserve, insert the result, finalize, list | three commits per signal with a broker call in between | nothing vanishes, nothing is claimed that did not happen |
| Relay (`app/ws/manager.py`, `app/ws/relay_broker.py`, `agent_ws`) | `_connections`, `_pending`, futures | connect, disconnect, send_request, resolve, place_order | two sockets of one tenant, late answers, timeouts, sends that raise | answers reach their own call, registrations are live, no leak |
| Bridge agent (`bridge_agent/agent.py`) | the run loop, the terminal's account | dial, receive, execute, answer, back off | answers lost with the link, the process ends, the token changes | an order runs at most once |
| Tenant store (`/signup`, `/me`, `/admin`, `scripts/`) | `tenants` rows, the session of each request | signup, edits, rotations, grant, revoke, reset, the operator's reset script | each request commits an object it loaded earlier; a response that fails takes its secrets with it; the script is a process of its own | unique accounts, no collateral change, replaced secrets stay dead, secrets in force were shown |
| Broker interface (`app/brokers/base.py`) | none of its own | `place_order` | its answer and the account's change come apart | what each answer says of the account |
| Authentication (`app/security/auth.py`) | none | compare keys, tokens, passphrases | | modelled where it guards something |
| Customer dashboard (`web/app.js`, `web/confirm-dialog.js`) | api key, last agent token, the timer, forms, dialogs | log in, sign up, log out, edit, save, rotate, poll | every answer is handled by a page that may have moved on; nothing cancels a request | one timer, the data and token of the account logged in, a page that settles on what the server has |
| Admin page (`web/admin.js`) | admin key, a list | list, filter, grant, revoke, reset | answers out of order | not modelled, see below |
| Configuration, engine, deployment | settings read once | start | nothing concurrent | not modelled, see below |

`PROJECT.json` lists the components with their sources, and under `hazards`
every place where the code can go wrong in a way a test would hardly reach,
with the property that watches it.

## 2. Modules

| Module | Models | Role |
|---|---|---|
| `RiskManager` | validators, guardrails, order side, subscription arithmetic | pure operators used by the state machines below |
| `SignalLedger` | nothing of the code: what the pipeline promises for a (tenant, signal_id) | abstract specification |
| `OrderRouter` | `tradingview_webhook`, `process_signal`, trade log | implements `SignalLedger` |
| `BrokerPort` | `BrokerAdapter.place_order` as the router may rely on it | abstract specification of the broker |
| `Relay` | connection manager, relay broker, `agent_ws`, network, agents | implements `BrokerPort` |
| `Pipeline` | `OrderRouter` with `BrokerPort` behind it | composition: the trade log against the customer's account |
| `EndToEnd` | `OrderRouter` on `Relay`, the whole live path | composition; its behaviours are shown to be `Pipeline`'s |
| `TenantStore` | signup, `/me`, `/admin`, the reset script | what is behind `OrderRouter`'s account requests and `Dashboard`'s server |
| `Dashboard` | `web/app.js`, the confirm dialog | the customer's page against the account endpoints |
| `MCOrderRouter`, `MCPipeline`, `MCRelay`, `MCEndToEnd`, `MCTenantStore`, `MCDashboard` | instances | values of the constants for TLC |
| `OrderRouterProofs`, `PipelineProofs`, `RelayProofs`, `EndToEndProofs`, `RiskManagerProofs`, `TenantStoreProofs`, `DashboardProofs` | theorems | checked by TLAPS |

The modules are joined in three ways. `OrderRouter` implements `SignalLedger`
and `Relay` implements `BrokerPort`, each by a refinement mapping that TLC
checks and TLAPS proves. `Pipeline` conjoins the router's broker steps with
the port's, `EndToEnd` with the relay's; that the second implements the first
is a theorem. What `OrderRouter` calls an account request and `Dashboard` a
request served is, in `TenantStore`, a load, an edit, a commit and a response
with others in between.

### OrderRouter

A delivery is one HTTP request. `pc[d]` is the `await` it is about to perform:

| Station | Code | Actions |
|---|---|---|
| idle | `get_tenant_by_webhook_id` | `Load`: the object is kept in `snap[d]` and never refreshed (`expire_on_commit=False`) |
| reading | `request.json`, passphrase, validation | `ReadBody` |
| reserving | `try_reserve_signal` | `Reserve`: the unique constraint, or the answer "duplicate" |
| checking | `check_risk`, symbol map, `_side_and_quantity` | `Check`, on `snap[d]` |
| rejecting | `finalize_signal_log(..., "rejected")` | `Reject` |
| placing | `place_order` until `send_json` | `Send`, `Offline` |
| sending | `send_json`, which may wait for the transport | `Sent`, `SendRaises` |
| waiting | the future | `Reply`, `Timeout` |
| logging | `log_trade` | `LogTrade`: inserts `"<id>:mt5"` under the same constraint |
| closing | `finalize_signal_log(..., "dispatched")` | `Finalize` |

`Fail` ends a request at any database call, `Crash` ends all of them.
`AccountRequest` commits one column of a tenant row at any moment. `tradeLog`
is a function from tenant and key to a row that remembers which delivery wrote
it; `sent` is the set of deliveries whose order went to a socket; `overtaken`,
the deliveries in flight when their tenant's row changed or his subscription ran
out, is a history variable, read by one property only.

What "authorised" means is in two properties. `PermittedBy` says of an alert and
a row what holds whatever the time: right passphrase, not killed, symbol,
quantity and mapping in order, and a subscription granted at some time. That it
has not lapsed depends on the clock and is the other half of
`StaleOnlyIfOvertaken`: an order that goes out after the expiry was in flight
when the expiry passed.

`edits`, `faults` and `now` are capped by `MaxEdits`, `MaxFaults` and
`MaxTime`. A commit that raises although it was applied is the same as one
that succeeds followed by a failure or crash at the next call.

### Relay

A *connection* `c` is one dial and the `agent_ws` call that serves it. The
agent's side (`agent`, `line`, `hand`), the link (`link`, `toAgent`, `toServer`)
and the server's side (`handler`) move separately, because the two ends learn of
a broken link at different times; that is where the interesting behaviours come
from. A call `r` is one `place_order` with a fresh `request_id`; `via[r]` is the
socket it took, `future[r]` and `pending` are those of `ConnectionManager`.
`limits` are the calls that ask for a limit order; it never changes. A break
delivers any prefix of what was in flight; a crash of the server forgets
handlers, registrations and futures, while order frames that had left may still
be executed. `Timeout` may fire at any time after the send, also when an answer
has just been set. Every `SendRaises` needs a link that is down. `MaxRotations`,
`MaxCrashes` and `MaxExits` bound the rotations, crashes and ends of agent
processes; the number of dials is the number of `Conns`.

`runs`, `placed` and `filled` record what happened at the terminals: which agent
ran an order, whether the terminal took it, whether it changed the position. The
three come apart because of `MT5Client.place_order`. A market order is a deal,
immediate or cancel: one the terminal takes is filled, at least in part, when
`order_send` returns, and `Execute` does both. A limit order is sent as a
pending order, good till cancelled: `Execute` only places it, and `Fill` fills
it at any later time or never, whatever was answered and whether or not agent
and server still run. Only `TRADE_RETCODE_DONE` is reported accepted, so a
rejected order may have been taken as well (DONE_PARTIAL, or PLACED for a
pending one), and one in error, too (`Outcomes`). That a market order does not
trade after `order_send` has returned is an assumption about MetaTrader 5. Of a
pending order that is cancelled or expires at the terminal nothing is said: it
is one that never fills.

### BrokerPort and Pipeline

`BrokerPort` has the three moments of a call that the router can tell apart: not
begun, out, over. `Hand` passes the order on, `Refuse` says there is no agent,
`Raise` leaves open whether the order left, `Answer` ends the wait. `Execute` is
the terminal, at any time after the order was handed over, also when the call
has timed out or the server has restarted (`Abandon`); a limit order it takes is
`placed`, and `traded` once it fills (`Fill`). An "accepted" needs an order the
terminal took, an agent's "rejected" one that was run; "error" and exceptions
say nothing. So after accepted or rejected no terminal takes the order any more,
and no market order trades; a limit order taken before may still fill
(`OnlyPendingFillsLater`).

In `Pipeline`, `PlaceOrder` pairs each broker step of `OrderRouter` with the
step of the port it stands for; everything else leaves the port alone. Whether
an order is a limit order is in its alert (`IsLimit`).

### EndToEnd

A delivery is the call it makes. `PlaceOrder` pairs each broker step of
`OrderRouter` with the step of `Relay` it stands for (`Send` with `Place`,
`Reply` with `Resume`, which also hands over the status, and so on);
`ServerCrash` takes handlers, registrations and requests together, since they
live in one process; agents, links and sockets move on their own (`Bridge`), as
do the router's other steps and the account requests (`Pipe!Beside`). The
broker of a delivery is the one of the tenant whose webhook it hit, as in
`WSRelayBroker(manager, tenant.id)`, and its order is of the alert's type
(`EndInit`). `Pipe` is `Pipeline` on the same calls,
its port read off the relay's variables; it is instantiated together with its
proofs, so that its theorems can be cited.

### TenantStore

A request loads a row (`Load`), assigns to its object (one action per
endpoint, with the secrets it generates), commits (`Commit`) and answers
(`Respond`, after the refresh). `Written` is the UPDATE of an ORM flush: only
columns whose value differs from the loaded one. Signup is one insert under
the unique email. `ResetScript` is the operator's script: it finds its row by
email, is served by no web process and so survives `Crash`, and prints the
secrets it generated. Secrets are numbers that never repeat; their hashes are
the numbers themselves. `fresh[q]` holds the secrets that `q` generated and
will show in its response. `retired` is a history variable.

### Dashboard

The page is one browser tab; its handlers run up to their next `await`. A
request in flight (`net[s]`) carries the key of the moment it was sent
(`Send`), is answered when the server gets to it (`Serve`), may fail before or
after that (`Lose`), and its continuation runs when the answer arrives
(`LoginArrives`, `SignupArrives`, `MeArrives`, `SaveArrives`, `TokenArrives`),
in any order, whatever the page has become. `timers` counts the live intervals
and `held` tells whether `pollHandle` is one of them, so that a lost handle
would show. `modal` is the dialog with a new account's secrets, `dialog` the
confirm dialog, which covers the page. `form` is what the panels show, unsaved
edits included; `email` and `command` are what `renderMe` wrote last. The
server's side is one step per request; `Elsewhere` is an admin's reset or
another device.

`stray` is a history variable for the cases the code leaves open, and the two
safety properties about accounts except exactly these: a load that failed for
another reason than a 401 (the page keeps what it shows), an answer to a
session that had not asked for it (nothing cancels a request, so logging out
and in again while one is on its way lets it land in the wrong session), and an
agent token that outlives a session ended by a 401, which does not clear
`lastKnownAgentToken` as the logout button does. It is reset when the page is
loaded anew. That the page recovers from the first two is `DisplaySettles`.

### Abstractions

* Text is a model value; `Upper` is an arbitrary function standing for
  `strip().upper()`. Quantities and money are integers, time is in days.
* Message wording, logging, `stop_loss`, `take_profit`, the construction of the
  MT5 request, paging, the kill switch's reason are left out.
* The sum of `realized_pnl` is 0, because no code writes that column.
* Failing database calls are modelled in `OrderRouter` and `TenantStore`; in
  `Relay` the token lookup answers, and only the link and processes fail.
* In `OrderRouter` an account request is one commit and in `Dashboard` a
  request is served in one step; that it works on a loaded object is the
  subject of `TenantStore`.
* In `Dashboard` a panel's contents are a number, where "nothing filled in" is
  told apart because a blank limit is not sent. Who has which rows of the
  symbol map does not matter to the properties.

## 3. Runs

| Run | Kind | Instance | Distinct states | Shows |
|---|---|---|---|---|
| `router` | pass | `Pipeline`: 3 deliveries, 2 tenants, 2 ids of which one is the other's result key, market orders and a limit order, 2 faults | 305,236 | one order and one trade per signal, nothing vanishes, answers logged, log truthful and in accord with the account, only a resting limit order fills after an answer, `SignalLedger` implemented |
| `account_edits` | pass | 2 deliveries out of 7 kinds, 3 kinds of account, 1 edit, 1 tick, 1 fault | 702,680 | staleness, of the row and of the clock, is bounded by the request; every handler ends |
| `relay_sockets` | pass | 2 agents, 3 dials, 1 limit order, 1 rotation, 1 crash, 1 exit | 3,041,633 | registered sockets are served, no order runs twice, calls return |
| `end_to_end` | pass | `EndToEnd`: 1 agent, 2 dials, 2 deliveries of 1 limit or 2 market alerts with the right or a wrong passphrase, 1 crash, 1 fault | 1,993,542 | the two sides of `place_order` in step, terminals run only what their customer's alert authorised, one order per signal, no later fill but of a resting limit order, answers are one's own, offline means unsent, `_pending` exact, `BrokerPort` implemented |
| `tenant_store` | pass | 3 requests of 18 kinds, 1 customer, 2 signup slots, 1 fault, 1 tick | 1,798,743 | accounts unique, no collateral change, dead secrets stay dead, secrets in force were shown, losses only by a race |
| `dashboard` | pass | 2 accounts of which 1 is to sign up, 3 keys to type, 2 panels, 2 requests in flight, 4 clicks, 1 change from elsewhere, 1 lost request | 1,022,810 | one timer, own token and data, the page settles |
| `kill_switch` | violation | 2 deliveries, 1 edit | | an order goes out after the kill switch was committed |
| `send_raises` | violation | 2 deliveries | | a send that raises leaves half a record and blocks the retry |
| `key_collision` | violation | 2 deliveries | | `x:mt5` is refused as a duplicate nobody sent |
| `replaced_socket` | violation | 1 agent, 2 dials | | a serving agent is reported offline |
| `token_rotation` | violation | 1 agent, 2 dials | | an agent with the old token still gets orders |
| `grants` | violation | 2 grants | | one of two grants is lost |

Why the bounds are enough. The router's conflicts are between two requests on
one key; a third delivery brings in another tenant or the colliding id, and two
faults allow a failure in one request followed by a crash, or a crash during the
retry. Relay needs an old and a new socket of one agent (two dials) and a second
agent of the same tenant. Two calls are needed to confuse answers, and two fit
only with one agent and without rotations; they are deliveries in `end_to_end`,
retries of one alert (a limit or a market order) or two market alerts, so that
the router's duplicates, the relay's late answers and the late fills meet; a
limit order and a market order side by side are in `router`. `end_to_end` has
one crash and one failure of the database, and the agent reconnects after either
end has lost the link; a process that exits and comes back is in
`relay_sockets`. Three runs declare symmetry: `router` in the deliveries,
`tenant_store` in the requests, `end_to_end` in calls, dials and the two market
alerts. None of them checks a liveness property, and nothing in their instances
tells those values apart; `relay_sockets`, `account_edits` and `dashboard`,
which check one, declare none. In the tenant store a lost or resurrected value
takes one request that loads, another that commits, and a third to observe or
repeat it. The dashboard needs two requests in flight to have them answered out
of order, and four clicks to end one session and start another with a request of
the first outstanding; the panels of the run are the risk fields, which a save
does not load again, and the kill switch, which it does, as with the symbol map.
In the `router` run no account is edited and the clock stands still (`MaxEdits`,
`MaxTime` are 0), so `AccountRequest` and `Tick` fire in `account_edits` only;
the theorems cover them together with the rest.

Deadlock is not checked: the system stops when the bounded requests are done.

**Fairness.** `OrderRouter!FairSpec` assumes weak fairness of `Progress(d)`:
the event loop runs every handler that can run, a database call returns or
raises, and `asyncio.wait_for` bounds the wait for the agent. No fairness is
assumed of deliveries arriving, of bodies being sent (`ReadBody`) or of agents
answering (`Reply`). `Relay!FairSpec` assumes weak fairness of a call's own
steps: `send_json` returns or raises, since the websocket library's keepalive
closes a stalled socket, and `wait_for` expires. No fairness is assumed of
agents, links or handlers. `HandlerEnds` and `CallReturns` rest on the timeout:
with the variant `TimeoutNever` they fail. `Dashboard!FairSpec` assumes that the
browser goes on running the interval and the continuations, and that every
request sent is served in the end; the latter is assumed of the network and
the server, no code provides it. Nothing is assumed of the customer.

**Variants.** Operators introduced with "Variant:" are not part of any
specification. Each is a plausible bug in the action it stands beside, and
breaks the property listed with it in `PROJECT.json`.

### Findings

1. `KillSwitchImmediate`: README says the kill switch takes effect
   immediately; a request in flight decides on the row it loaded earlier. That
   this is the only way to it is `OnlyOvertakenAreStale`.
2. `TwoRowsPerBrokerCall`: an exception of `send_json` is not mapped to a
   result. The alert gets a 500, its reservation stays "received", its retry
   is called a duplicate, and whether the order left is not recorded. Without
   an exception both rows are there (`TwoRowsIfAnswered`).
3. `DuplicateIsGenuine`: result rows share the key space of reservations.
   Without such ids it holds (`DuplicatesGenuine`).
4. `LiveAgentRegistered`: `disconnect(tenant_id)` removes whichever socket is
   registered, also the successor of the one that ended. An agent that is
   served over a live link is unregistered in no other way
   (`AgentsStayRegistered`).
5. `RotationDropsAgents`: rotating the agent token does not affect an agent
   that is connected.
6. `GrantsStack`: concurrent grants do not stack. Values are lost to such a
   race only (`LostOnlyByRace`).

## 4. Proofs

All theorems hold for every value of the constants that satisfies the named
assumptions (`UpperAssumption`, `RouterAssumption`, `RelayAssumption`,
`StoreAssumption`, `DashboardAssumption`; `EndAssumption` is the first two, of
`EndToEnd`'s constants), so for any number of tenants,
deliveries, agents, dials, calls, requests and panels, and any bounds.
`RouterAssumption` says no more than that the result key is injective and
differs from its signal's id, and what types the inputs have.

**Router** (`OrderRouterProofs`). The invariants are not inductive by
themselves; `IInv` adds to `TypeOK` for every delivery what its station says
of its rows (`HandlerInv`: from "checking" on, the reservation is its own and
"received"; at "closing" the result row is there with its result; an order was
sent only from "waiting" on; ...) and for every row what its status says of
its writer (`RowInv`). The induction goes by a general lemma: a handler's step
writes only rows that are free or its own, so what holds of the other
deliveries is kept (`StepOfOne`, `QuietStep`, `WritingHandlerStep`), and a
crash moves handlers to "done" (`CrashStep`). From `IInv` follow
`AtMostOnce`, `NothingVanishes`, `AnswersAreLogged` and `LogTruthful`.
`OnlyOvertakenAreStale` rests on a second invariant, `SInv`: the loaded object
equals the current row unless the delivery was overtaken, and once the check is
passed its subscription has not lapsed unless the delivery was overtaken.
`Implements` maps
every step to one of `SignalLedger` or a stutter: reserve to `Claim`, reject to
`Refuse`, send to `Order`, finalize to `Settle`; `StageElsewhere` shows that
the stage of every other signal stays. `DuplicatesGenuine` is the other half
of the finding about colliding ids: as long as no result key is a signal_id
somebody sends, nothing is called a duplicate that is not one, since every row
is its writer's reservation or result row (`RowInv`) and stays with its writer
(`RowsStay`).

Four more theorems say what the runs do not. `HandlersAdvance` is the safe half
of `HandlerEnds`: a handler moves by its own steps or ends with the process,
and `Rank` grows with each, so it makes at most nine; what is left to fairness
is only that the next one is taken. `RowsNeverRewritten` follows from `IInv` by
`WriteStep`: the log is written by four actions, each at a free key or on the
writer's own "received" row. `LogIsAuthorised` needs `AuthorInv`, that a handler
past "reading" holds an object whose passphrase the alert carried;
`OrdersPermitted` (`SentPermitted`) adds `PermittedBy` for what is sent.
`TwoRowsIfAnswered` needs that an order that was sent ends with a broker status
or an exception (`SentAnswered`).

**Relay** (`RelayProofs`). `RegisteredIsServed` and `PendingIsExact` are
inductive with `TypeOK`. `RunAtMostOnce` and `OfflineMeansUnsent` need
`OrderInv`: a frame of an order exists only on the socket its call took, once,
and only while the order has not run (`FrameInv`, `OneFrame`), and a call that
has not begun has no frame and no run (`CallInv`). `AnswersAreOwn` needs
`AnswerInv`: every answer anywhere, in an agent's hand (`HandInv`), on the
wire (`WireInv`) or in a future (`FutureInv`), is backed by what happened at a
terminal (`Backed`); `runs` and `placed` only grow.

`ImplementsBroker` maps every step of the relay to one of `BrokerPort` or a
stutter, with the port's state computed from the calls and the runs; it uses
`OrderInv` where a terminal runs an order and `AnswerInv` where a call ends.
`CallsAdvance` is the safe half of `CallReturns`, with the fact that a late
answer does not change what `place_order` returned. `AgentsStayRegistered`
rests on `LiveInv`: an agent that serves over a link that is up has a handler
in its receive loop, and such a handler's tenant is registered unless the
handler of another of his sockets has ended.

**Pipeline** (`PipelineProofs`). `StepOfRouter`: a step of the pipeline is a
step of the router or leaves it alone, so `IInv` and every theorem of the router
carry over (`RouterWithin`). `PipeInv` adds what the broker's answer says of an
order, for the answer in the handler's hands (`CallInv`) and for the one in the
trade log (`RowsTold`); both stay true because `ran`, `placed` and `traded` only
grow and an "offline" order is never run. From `PipeInv` and `IInv` follow
`TradesOnce`, `LogMatches` and `AnsweredOrdersOnlyFill`.

**End to end** (`EndToEndProofs`). The parts' invariants hold because every step
of `EndToEnd` is a step of `Relay` (`RelayWithin`) and of the router
(`RouterWithin`). `CallsInStep` joins them: `pc` and `call` never part, and
`sent` is what the relay took. With it and the relay's refinement of
`BrokerPort` every step is one of `Pipeline` (`StepOfPipeline`): the port's part
is `ImplementsBroker`'s, `InStep` makes the router's side move with it, and a
crash abandons exactly the calls out. So `PipelineWithin`: `EndToEnd` implements
`Pipeline`, and what is proved of the router with an abstract broker holds with
sockets, agents, lost links and crashes in its place. That gives `FillsOnce`,
`ListMatches` and `AnsweredLimitsOnlyFill` from the pipeline's theorems
(`HooksAgree` carries the tenant and the order's type over). `OnlyAuthorisedRun`
takes one half from each side: that a run is by an agent of the call's tenant,
once, is the relay's `OrderInv`; that what was sent was authorised, up to the
lapse by the clock, is the router's `SentPermitted`. `AnswersAreTrue` puts
`AnswerIsLogged`, `ListMatchesTerminal` and `InStep` together: what the webhook
was told is on exactly one row of the list; an accepted order was taken, and
filled unless it is a limit order, which may still rest; a rejected one was run,
or was never handed over and never is. It does not say that a rejected order
left the account alone, which the code does not ensure.

**Tenant store** (`TenantStoreProofs`). `HoldInv` says what object a request
holds at each station, `EditInv` how the edited object differs from the loaded
one: only in the columns of its kind (`Touches`), with what a partial update or
a grant must carry over (`Carries`) and with secrets it generated itself
(`Draws`). From these follow `OwnColumns` and `LostOnlyByRace`. `MintInv` and
`UnusedInv` keep generated secrets apart: below `minted`, disjoint between
requests, and in no row before their commit. With them `OneAccountEach`,
`RetiredStaysRetired` and `UnseenOnlyAfterFailure` are inductive together.

**Dashboard** (`DashboardProofs`). `OnePoll` is inductive once `PollInv` adds
that `pollHandle` is live exactly while the dashboard is shown. `TokenIsOwn`
and `DataIsOwn` rest on `OwnInv`: without a stray answer, the token kept is of
the account logged in, no token is kept at the login page unless the secrets
modal is open, the modal is open only before its session, and the dashboard
shows its account or has a load on its way. That a load stays on its way until
its own answer arrives is `LoadingKept`.

**Subscription** (`RiskManagerProofs`). The displayed status and the guardrail
agree at every instant; a grant activates and never shortens.
`AllowedIffAllPass` says what `check_risk` computes, at the limits and for
limits that are 0 or absent, without the order of its tests; from it follow
`NegativeLimits` and, for any two settings, `WiderAllowsMore`.

Model-checked only: the liveness properties `HandlerEnds`, `CallReturns` and
`DisplaySettles` (the prover does not handle ENABLED). Every other property of
a passing run is a theorem. Proved but not in a run: the theorems named above
that `PROJECT.json` lists without a property.

## 5. Plan

Done, in this order: `RiskManager`, `SignalLedger`, `OrderRouter`, `Relay` and
`TenantStore`, each with its proofs; `BrokerPort`, implemented by `Relay`;
`Pipeline`, which composes it with the router; `Dashboard` with its proofs; the
theorem that without colliding ids every duplicate is genuine; `EndToEnd` with
the theorem that it implements `Pipeline`; the complements of findings 2 and 4
and the safe halves of the liveness properties. Next: that the account
requests of `OrderRouter` are the commits of `TenantStore`, step by step. What is left of
the system is listed next, with the reasons.

## 6. Not modelled

* **Admin page** (`web/admin.js`). It shows a list, filters it, and sends the
  admin requests of `TenantStore`; each names a tenant id and is decided on the
  row the server loads, so a stale list misleads the reader only. Two hazards
  of answers that arrive out of order are listed in `PROJECT.json`.
* **The rest of the dashboard**: the trade table and the passphrase's rotation
  only display their answers, the panel with the regenerated secret is never
  hidden (listed as a hazard), the clipboard, the tabs and the texts.
* **Start-up and configuration** (`app/config.py`, `storage/db.py`): settings
  are read once and the tables created; a restart is the `Crash` of each module.
* **`ip_allowed`**: nothing calls it but its tests.
* **`get_open_positions`, `get_account_summary`** of the relay broker: constants
  that nothing calls.
* **The daily loss breaker's sum**: no code writes `realized_pnl`; the model
  uses 0, as the program does.
* **Paging, HTML rendering, the construction of MT5 requests, hashing**:
  sequential code without state of its own, or wording. The terminal is the set
  of outcomes it can report.
* **Several server processes**: `ConnectionManager` is in memory and its
  docstring names one instance as its limit.

---------------------------- MODULE RiskManager ----------------------------
(***************************************************************************)
(* The pure decisions a signal meets on its way to the broker: validation  *)
(* of the alert body (app/models/signal.py), the guardrails of check_risk  *)
(* (app/risk/manager.py), the order side (app/services/order_router.py)    *)
(* and the subscription arithmetic of app/storage/repository.py.  No state *)
(* lives here: OrderRouter applies these operators to a tenant row.        *)
(*                                                                         *)
(* Abstractions.  A symbol as somebody typed it is a member of Texts, and  *)
(* Upper[x] is what strip().upper() makes of it: a member of Symbols, or   *)
(* Blank for the empty string.  Quantities, prices and money are integers  *)
(* in the smallest unit (a lot is 100); an absent (None) price or limit is *)
(* 0, which the code treats alike (`if max_qty and`, `price is None or     *)
(* price <= 0`).                                                           *)
(* Time is counted in subscription days; an expiry of None is Never.       *)
(***************************************************************************)
EXTENDS Integers

CONSTANTS
    Texts,      \* symbols as alerts and customers write them
    Symbols,    \* normalised, non-empty symbols
    Blank,      \* the empty string left by strip()
    Upper       \* strip().upper()

ASSUME UpperAssumption ==
    /\ Blank \notin Symbols
    /\ Upper \in [Texts -> Symbols \cup {Blank}]

Never == -1     \* subscription_expires_at is None

Actions == {"buy", "sell", "close_long", "close_short", "close_all"}

(* risk_settings: a key that was never set is 0, or the empty set.         *)
Settings == [allowed : SUBSET Texts, maxQty : Int, maxLoss : Int]

(* default_risk_settings: one lot, and 1000 of the account currency.       *)
DefaultSettings == [allowed |-> {}, maxQty |-> 100, maxLoss |-> 100000]

----------------------------------------------------------------------------
(* TradingViewSignal: what its field and model validators accept.          *)
ValidSignal(signal) ==
    /\ signal.action \in Actions
    /\ signal.quantity > 0
    /\ signal.orderType = "limit" => signal.price > 0

(* _upper_symbol: the symbol every later comparison sees.                  *)
SymbolOf(signal) == Upper[signal.symbol]

(* _side_and_quantity: close_all has no side and is refused by the caller. *)
SideOf(signal) ==
    [buy |-> "buy", sell |-> "sell", close_long |-> "sell",
     close_short |-> "buy", close_all |-> "none"][signal.action]

----------------------------------------------------------------------------
SubscriptionLapsed(tenant, now) ==
    tenant.expires = Never \/ tenant.expires <= now

(* The allowlist, normalised when it is read; blank entries are dropped.   *)
AllowedSymbols(settings) ==
    {Upper[x] : x \in settings.allowed} \ {Blank}

SymbolBarred(settings, signal) ==
    /\ AllowedSymbols(settings) # {}
    /\ SymbolOf(signal) \notin AllowedSymbols(settings)

QuantityExceeded(settings, signal) ==
    settings.maxQty # 0 /\ signal.quantity > settings.maxQty

Abs(n) == IF n < 0 THEN -n ELSE n

DailyLossTripped(settings, pnl) ==
    settings.maxLoss # 0 /\ pnl <= -Abs(settings.maxLoss)

(* check_risk: the first guardrail that fails, or "allowed".               *)
CheckRisk(tenant, signal, now, pnl) ==
    IF SubscriptionLapsed(tenant, now) THEN "subscription"
    ELSE IF tenant.killed THEN "kill_switch"
    ELSE IF SymbolBarred(tenant.settings, signal) THEN "symbol"
    ELSE IF QuantityExceeded(tenant.settings, signal) THEN "quantity"
    ELSE IF DailyLossTripped(tenant.settings, pnl) THEN "daily_loss"
    ELSE "allowed"

----------------------------------------------------------------------------
(* subscription_status: "active" as /me and /admin/tenants show it.        *)
SubscriptionActive(tenant, now) ==
    tenant.expires # Never /\ tenant.expires > now

(* grant_subscription: extend from the later of now and the expiry.        *)
ExtendedExpiry(tenant, now, days) ==
    (IF tenant.expires # Never /\ tenant.expires > now
     THEN tenant.expires ELSE now) + days
=============================================================================

------------------------- MODULE RiskManagerProofs -------------------------
(***************************************************************************)
(* What the decisions of RiskManager give for every row, signal, clock     *)
(* value, profit and number of days.                                       *)
(***************************************************************************)
EXTENDS RiskManager, TLAPS

(* /me and /admin/tenants call a subscription active exactly when          *)
(* check_risk does not refuse for want of one: the two comparisons, `>` in *)
(* subscription_status and `<=` in check_risk, agree on the boundary too.  *)
THEOREM StatusMatchesGuardrail ==
    ASSUME NEW tenant, tenant.expires \in Int, NEW signal, NEW now \in Nat,
           NEW pnl
    PROVE  SubscriptionActive(tenant, now) <=>
              CheckRisk(tenant, signal, now, pnl) # "subscription"
<1>1. SubscriptionActive(tenant, now) <=> ~SubscriptionLapsed(tenant, now)
  BY DEF SubscriptionActive, SubscriptionLapsed
<1>2. SubscriptionLapsed(tenant, now) <=>
         CheckRisk(tenant, signal, now, pnl) = "subscription"
  <2>1. CASE SubscriptionLapsed(tenant, now)
    BY <2>1 DEF CheckRisk
  <2>2. CASE ~SubscriptionLapsed(tenant, now)
    BY <2>2 DEF CheckRisk
  <2> QED BY <2>1, <2>2
<1> QED BY <1>1, <1>2

(* A grant of at least a day makes the subscription active, never shortens *)
(* it, keeps the days that are left of a running one, and gives a lapsed   *)
(* or new one exactly the days granted from now.                           *)
THEOREM GrantExtends ==
    ASSUME NEW tenant, tenant.expires \in Int, NEW now \in Nat,
           NEW days \in Nat \ {0}, NEW granted,
           granted.expires = ExtendedExpiry(tenant, now, days)
    PROVE  /\ SubscriptionActive(granted, now)
           /\ SubscriptionActive(tenant, now) =>
                 granted.expires = tenant.expires + days
           /\ SubscriptionLapsed(tenant, now) => granted.expires = now + days
           /\ granted.expires > tenant.expires
  BY DEF ExtendedExpiry, SubscriptionActive, SubscriptionLapsed, Never

----------------------------------------------------------------------------
(* check_risk lets a signal through exactly when each of the guardrails    *)
(* does by itself: a limit of 0, or an empty allowlist, is none, a quantity *)
(* at the limit passes, and a loss that reaches its limit trips.           *)
THEOREM AllowedIffAllPass ==
    ASSUME NEW tenant, tenant.settings \in Settings, NEW signal,
           signal.quantity \in Int, NEW now \in Nat, NEW pnl \in Int
    PROVE  CheckRisk(tenant, signal, now, pnl) = "allowed" <=>
              /\ ~SubscriptionLapsed(tenant, now)
              /\ ~tenant.killed
              /\ \/ AllowedSymbols(tenant.settings) = {}
                 \/ SymbolOf(signal) \in AllowedSymbols(tenant.settings)
              /\ tenant.settings.maxQty \in {0} \cup
                    {n \in Int : n >= signal.quantity}
              /\ \/ tenant.settings.maxLoss = 0
                 \/ pnl > 0 - Abs(tenant.settings.maxLoss)
<1> USE DEF Settings
<1>1. QuantityExceeded(tenant.settings, signal) <=>
         tenant.settings.maxQty \notin
            {0} \cup {n \in Int : n >= signal.quantity}
  BY DEF QuantityExceeded
<1>2. DailyLossTripped(tenant.settings, pnl) <=>
         ~(\/ tenant.settings.maxLoss = 0
           \/ pnl > 0 - Abs(tenant.settings.maxLoss))
  BY DEF DailyLossTripped, Abs
<1>3. CheckRisk(tenant, signal, now, pnl) = "allowed" <=>
         /\ ~SubscriptionLapsed(tenant, now)
         /\ ~tenant.killed
         /\ ~SymbolBarred(tenant.settings, signal)
         /\ ~QuantityExceeded(tenant.settings, signal)
         /\ ~DailyLossTripped(tenant.settings, pnl)
  BY DEF CheckRisk
<1> QED
  BY <1>1, <1>2, <1>3 DEF SymbolBarred

(* A negative max_qty_per_order is a limit like any other, so it bars      *)
(* every order a validated alert can ask for; a negative max_daily_loss    *)
(* trips where its absolute value does.                                    *)
THEOREM NegativeLimits ==
    ASSUME NEW tenant, tenant.settings \in Settings, NEW signal,
           signal.quantity \in Int, NEW now \in Nat, NEW pnl \in Int
    PROVE  /\ ValidSignal(signal) /\ tenant.settings.maxQty < 0
                => CheckRisk(tenant, signal, now, pnl) # "allowed"
           /\ DailyLossTripped(tenant.settings, pnl) <=>
                 DailyLossTripped(
                    [tenant.settings EXCEPT !.maxLoss = -@], pnl)
<1> USE DEF Settings
<1>1. ASSUME ValidSignal(signal), tenant.settings.maxQty < 0
      PROVE  CheckRisk(tenant, signal, now, pnl) # "allowed"
  <2>1. signal.quantity > 0
    BY <1>1 DEF ValidSignal
  <2>2. tenant.settings.maxQty \notin
           {0} \cup {n \in Int : n >= signal.quantity}
    BY <1>1, <2>1
  <2> QED
    BY <2>2, AllowedIffAllPass
<1>2. [tenant.settings EXCEPT !.maxLoss = -@].maxLoss
         = -tenant.settings.maxLoss
  OBVIOUS
<1>3. DailyLossTripped(tenant.settings, pnl) <=>
         DailyLossTripped([tenant.settings EXCEPT !.maxLoss = -@], pnl)
  BY <1>2 DEF DailyLossTripped, Abs
<1> QED
  BY <1>1, <1>3

(* Guardrails only ever narrow: settings that allow whatever others allow, *)
(* limit by limit, let through every signal the others do.  Lowering a     *)
(* positive limit is narrower; a limit of 0 is the widest, not the         *)
(* narrowest.                                                              *)
Wider(s, r) ==
    /\ \/ AllowedSymbols(s) = {}
       \/ /\ AllowedSymbols(r) # {}
          /\ AllowedSymbols(r) \subseteq AllowedSymbols(s)
    /\ s.maxQty = 0 \/ (r.maxQty # 0 /\ s.maxQty >= r.maxQty)
    /\ s.maxLoss = 0 \/ (r.maxLoss # 0 /\ Abs(s.maxLoss) >= Abs(r.maxLoss))

THEOREM WiderAllowsMore ==
    ASSUME NEW tenant, tenant.settings \in Settings,
           NEW wide, wide.settings \in Settings,
           wide.expires = tenant.expires, wide.killed = tenant.killed,
           Wider(wide.settings, tenant.settings),
           NEW signal, signal.quantity \in Int, NEW now \in Nat,
           NEW pnl \in Int,
           CheckRisk(tenant, signal, now, pnl) = "allowed"
    PROVE  CheckRisk(wide, signal, now, pnl) = "allowed"
<1> USE DEF Settings
<1>1. /\ ~SubscriptionLapsed(tenant, now) /\ ~tenant.killed
      /\ \/ AllowedSymbols(tenant.settings) = {}
         \/ SymbolOf(signal) \in AllowedSymbols(tenant.settings)
      /\ tenant.settings.maxQty = 0
            \/ tenant.settings.maxQty >= signal.quantity
      /\ \/ tenant.settings.maxLoss = 0
         \/ pnl > 0 - Abs(tenant.settings.maxLoss)
  BY AllowedIffAllPass
<1>2. ~SubscriptionLapsed(wide, now) /\ ~wide.killed
  BY <1>1 DEF SubscriptionLapsed
<1>3. \/ AllowedSymbols(wide.settings) = {}
      \/ SymbolOf(signal) \in AllowedSymbols(wide.settings)
  BY <1>1 DEF Wider
<1>4. wide.settings.maxQty \in {0} \cup {n \in Int : n >= signal.quantity}
  BY <1>1 DEF Wider
<1>5. wide.settings.maxLoss = 0 \/ pnl > 0 - Abs(wide.settings.maxLoss)
  BY <1>1 DEF Wider, Abs
<1> QED
  BY <1>2, <1>3, <1>4, <1>5, AllowedIffAllPass
=============================================================================

------------------------- MODULE TenantStoreProofs -------------------------
(***************************************************************************)
(* Proofs about TenantStore, for every set of tenants, requests and asks,  *)
(* any number of concurrent requests, and any bounds.                      *)
(***************************************************************************)
EXTENDS TenantStore, TLAPS

(* What a request in progress holds: an object of a row that exists.       *)
HoldInv ==
    \A q \in Requests :
        /\ pc[q] \in {"editing", "committing"} =>
              /\ loaded[q] \in Rows /\ edited[q] \in Rows
              /\ ask[q].op \in DOMAIN ColumnsOf
        /\ pc[q] \in {"editing", "committing", "answering"} =>
              target[q] \in Tenants /\ row[target[q]] \in Rows
        /\ pc[q] = "editing" => edited[q] = loaded[q]

TInv == TypeOK /\ HoldInv

(* `new` differs from `was` only in the columns of op.                     *)
Touches(op, was, new) ==
    LET cols == ColumnsOf[op] IN
    /\ new.email = was.email
    /\ "key" \notin cols => new.key = was.key
    /\ "passphrase" \notin cols => new.passphrase = was.passphrase
    /\ "token" \notin cols => new.token = was.token
    /\ "mapped" \notin cols => new.mapped = was.mapped
    /\ "settings" \notin cols => new.settings = was.settings
    /\ "killed" \notin cols => new.killed = was.killed
    /\ "expires" \notin cols => new.expires = was.expires

(* What the assignments of a partial update and of a grant made of it.     *)
Carries(a, was, new, instant) ==
    /\ a.op = "risk_settings" =>
          \A f \in DOMAIN was.settings \ a.fields :
              new.settings[f] = was.settings[f]
    /\ a.op = "grant" /\ was.expires > instant =>
          new.expires >= was.expires + a.days

(* Every secret of `new` is one of `was` or one of S.                      *)
Draws(was, new, S) ==
    /\ new.key = was.key \/ new.key \in S
    /\ new.passphrase = was.passphrase \/ new.passphrase \in S
    /\ new.token = was.token \/ new.token \in S

EditInv ==
    \A q \in Requests : pc[q] = "committing" =>
        /\ Touches(ask[q].op, loaded[q], edited[q])
        /\ Carries(ask[q], loaded[q], edited[q], now)
        /\ Draws(loaded[q], edited[q], fresh[q])

(* Secrets are generated once: no two requests share one, and those of a   *)
(* request that has not committed are nowhere else.                        *)
MintInv ==
    /\ FirstSecret <= minted
    /\ \A x \in retired : x < minted
    /\ \A t \in Tenants : Exists(t) => \A x \in Secrets(row[t]) : x < minted
    /\ \A q \in Requests : \A x \in fresh[q] : FirstSecret <= x /\ x < minted
    /\ \A p, q \in Requests : p # q => fresh[p] \cap fresh[q] = {}

UnusedInv ==
    \A q \in Requests :
        /\ pc[q] \in {"idle", "editing"} => fresh[q] = {}
        /\ pc[q] = "committing" =>
              /\ fresh[q] \cap retired = {}
              /\ \A t \in Tenants : Exists(t) =>
                    fresh[q] \cap Secrets(row[t]) = {}

SInv == MintInv /\ UnusedInv /\ OneAccountEach /\ RetiredStaysRetired
            /\ UnseenOnlyAfterFailure

IInv == TInv /\ EditInv /\ SInv

----------------------------------------------------------------------------
(* Rows.                                                                   *)
LEMMA NewTenantTyped ==
    ASSUME minted \in Nat, NEW e \in Emails
    PROVE  /\ NewTenant(e) \in Rows
           /\ NewTenant(e).email = e
           /\ Secrets(NewTenant(e)) = {minted, minted + 1, minted + 2}
BY DEF NewTenant, Rows, Secrets, Settings, DefaultSettings, Never

LEMMA WrittenTyped ==
    ASSUME NEW was \in Rows, NEW new \in Rows, NEW current \in Rows
    PROVE  Written(was, new, current) \in Rows
BY DEF Written, Pick, Rows

LEMMA MergedTyped ==
    ASSUME NEW current \in Settings, NEW new \in Settings, NEW fields
    PROVE  /\ Merged(current, fields, new) \in Settings
           /\ \A f \in DOMAIN current \ fields :
                 Merged(current, fields, new)[f] = current[f]
<1>1. DOMAIN current = {"allowed", "maxQty", "maxLoss"}
  BY DEF Settings
<1> DEFINE m == Merged(current, fields, new)
<1>2. /\ DOMAIN m = {"allowed", "maxQty", "maxLoss"}
      /\ m = [f \in DOMAIN m |-> m[f]]
      /\ \A f \in DOMAIN current : m[f] = IF f \in fields THEN new[f]
                                                       ELSE current[f]
  BY <1>1 DEF Merged
<1>3. /\ current.allowed \in SUBSET Texts /\ new.allowed \in SUBSET Texts
      /\ current.maxQty \in Int /\ new.maxQty \in Int
      /\ current.maxLoss \in Int /\ new.maxLoss \in Int
  BY DEF Settings
<1>4. m.allowed \in SUBSET Texts /\ m.maxQty \in Int /\ m.maxLoss \in Int
  BY <1>1, <1>2, <1>3
<1>5. m \in Settings
  BY <1>2, <1>4 DEF Settings
<1> QED
  BY <1>1, <1>2, <1>5

LEMMA EditAssigns ==
    ASSUME TInv, NEW q \in Requests, Edit(q)
    PROVE  \E new \in Rows, n \in Nat :
              /\ Assign(q, ask[q].op, new, n)
              /\ Touches(ask[q].op, loaded[q], new)
              /\ Carries(ask[q], loaded[q], new, now)
              /\ Draws(loaded[q], new, minted .. minted + n - 1)
<1> DEFINE Effect(new, n) ==
              /\ Assign(q, ask[q].op, new, n)
              /\ Touches(ask[q].op, loaded[q], new)
              /\ Carries(ask[q], loaded[q], new, now)
              /\ Draws(loaded[q], new, minted .. minted + n - 1)
           was == loaded[q]
<1>1. /\ pc[q] = "editing"
      /\ edited[q] = was /\ was \in Rows
      /\ now \in Nat /\ minted \in Nat
      /\ ask[q] \in AskRecords
  BY StoreAssumption
  DEF TInv, TypeOK, HoldInv, Edit, Assign, PutSymbolMap, PutRiskSettings,
      SetKillSwitch, RegenerateWebhookPassphrase, RegenerateAgentToken,
      GrantSubscription, RevokeSubscription, ResetCredentials, ResetScript
<1>2. ASSUME PutSymbolMap(q) PROVE \E new \in Rows, n \in Nat : Effect(new, n)
  <2> DEFINE new == [was EXCEPT !.mapped = {Upper[x] : x \in ask[q].texts}]
  <2>1. {Upper[x] : x \in ask[q].texts} \subseteq Symbols \cup {Blank}
    BY <1>1, UpperAssumption DEF AskRecords
  <2>2. new \in Rows
    BY <1>1, <2>1 DEF Rows
  <2>3. ask[q].op = "symbol_map" /\ Assign(q, "symbol_map", new, 0)
    BY <1>1, <1>2 DEF PutSymbolMap, Assign
  <2>4. Effect(new, 0)
    BY <1>1, <2>3 DEF Touches, Carries, Draws, ColumnsOf, Rows
  <2> QED
    BY <2>2, <2>4
<1>3. ASSUME PutRiskSettings(q)
      PROVE  \E new \in Rows, n \in Nat : Effect(new, n)
  <2> DEFINE merged == Merged(was.settings, ask[q].fields, ask[q].settings)
             new == [was EXCEPT !.settings = merged]
  <2>1. /\ merged \in Settings
        /\ \A f \in DOMAIN was.settings \ ask[q].fields :
              merged[f] = was.settings[f]
    <3>1. was.settings \in Settings /\ ask[q].settings \in Settings
      BY <1>1 DEF Rows, AskRecords
    <3> QED
      BY <3>1, MergedTyped
  <2>2. new \in Rows
    BY <1>1, <2>1 DEF Rows
  <2>3. ask[q].op = "risk_settings" /\ Assign(q, "risk_settings", new, 0)
    BY <1>1, <1>3 DEF PutRiskSettings, Assign
  <2> HIDE DEF merged
  <2>4. Effect(new, 0)
    BY <1>1, <2>1, <2>3 DEF Touches, Carries, Draws, ColumnsOf, Rows
  <2> QED
    BY <2>2, <2>4
<1>4. ASSUME SetKillSwitch(q)
      PROVE  \E new \in Rows, n \in Nat : Effect(new, n)
  <2> DEFINE new == [was EXCEPT !.killed = ask[q].engaged]
  <2>1. new \in Rows
    BY <1>1 DEF Rows, AskRecords
  <2>2. ask[q].op = "kill_switch" /\ Assign(q, "kill_switch", new, 0)
    BY <1>1, <1>4 DEF SetKillSwitch, Assign
  <2>3. Effect(new, 0)
    BY <1>1, <2>2 DEF Touches, Carries, Draws, ColumnsOf, Rows
  <2> QED
    BY <2>1, <2>3
<1>5. ASSUME RegenerateWebhookPassphrase(q)
      PROVE  \E new \in Rows, n \in Nat : Effect(new, n)
  <2> DEFINE new == [was EXCEPT !.passphrase = minted]
  <2>1. new \in Rows
    BY <1>1 DEF Rows
  <2>2. ask[q].op = "passphrase" /\ Assign(q, "passphrase", new, 1)
    BY <1>1, <1>5 DEF RegenerateWebhookPassphrase, Assign
  <2>3. Effect(new, 1)
    BY <1>1, <2>2 DEF Touches, Carries, Draws, ColumnsOf, Rows
  <2> QED
    BY <2>1, <2>3
<1>6. ASSUME RegenerateAgentToken(q)
      PROVE  \E new \in Rows, n \in Nat : Effect(new, n)
  <2> DEFINE new == [was EXCEPT !.token = minted]
  <2>1. new \in Rows
    BY <1>1 DEF Rows
  <2>2. ask[q].op = "token" /\ Assign(q, "token", new, 1)
    BY <1>1, <1>6 DEF RegenerateAgentToken, Assign
  <2>3. Effect(new, 1)
    BY <1>1, <2>2 DEF Touches, Carries, Draws, ColumnsOf, Rows
  <2> QED
    BY <2>1, <2>3
<1>7. ASSUME GrantSubscription(q)
      PROVE  \E new \in Rows, n \in Nat : Effect(new, n)
  <2> DEFINE until == ExtendedExpiry(was, now, ask[q].days)
             new == [was EXCEPT !.expires = until]
  <2>1. /\ until \in Int
        /\ was.expires > now => until = was.expires + ask[q].days
    BY <1>1 DEF ExtendedExpiry, Never, Rows, AskRecords
  <2>2. new \in Rows
    BY <1>1, <2>1 DEF Rows
  <2>3. ask[q].op = "grant" /\ Assign(q, "grant", new, 0)
    BY <1>1, <1>7 DEF GrantSubscription, Assign
  <2> HIDE DEF until
  <2>4. Effect(new, 0)
    BY <1>1, <2>1, <2>3 DEF Touches, Carries, Draws, ColumnsOf, Rows, AskRecords
  <2> QED
    BY <2>2, <2>4
<1>8. ASSUME RevokeSubscription(q)
      PROVE  \E new \in Rows, n \in Nat : Effect(new, n)
  <2> DEFINE new == [was EXCEPT !.expires = now]
  <2>1. new \in Rows
    BY <1>1 DEF Rows
  <2>2. ask[q].op = "revoke" /\ Assign(q, "revoke", new, 0)
    BY <1>1, <1>8 DEF RevokeSubscription, Assign
  <2>3. Effect(new, 0)
    BY <1>1, <2>2 DEF Touches, Carries, Draws, ColumnsOf, Rows
  <2> QED
    BY <2>1, <2>3
<1>9. ASSUME ResetCredentials(q) \/ ResetScript(q)
      PROVE  \E new \in Rows, n \in Nat : Effect(new, n)
  <2> DEFINE new == Renewed(was)
  <2> DEFINE k == minted  p == minted + 1  x == minted + 2
  <2>1. new \in Rows
    <3>1. k \in Nat /\ p \in Nat /\ x \in Nat
      BY <1>1
    <3>2. new = [was EXCEPT !.key = k, !.passphrase = p, !.token = x]
      BY DEF Renewed
    <3> HIDE DEF k, p, x, new
    <3> QED
      BY <1>1, <3>1, <3>2 DEF Rows
  <2>2. ask[q].op \in {"reset", "script"} /\ Assign(q, ask[q].op, new, 3)
    BY <1>1, <1>9 DEF ResetCredentials, ResetScript, Assign
  <2>3. Effect(new, 3)
    BY <1>1, <2>2 DEF Touches, Carries, Draws, ColumnsOf, Rows, Renewed
  <2> QED
    BY <2>1, <2>3
<1> QED
  BY <1>2, <1>3, <1>4, <1>5, <1>6, <1>7, <1>8, <1>9 DEF Edit

LEMMA CommitEffect ==
    ASSUME TInv, EditInv, NEW q \in Requests, Commit(q)
    PROVE  /\ pc[q] = "committing" /\ target[q] \in Tenants
           /\ row[target[q]] \in Rows /\ row'[target[q]] \in Rows
           /\ row' \in [Tenants -> Rows \cup {NoTenant}]
           /\ \A u \in Tenants : u # target[q] => row'[u] = row[u]
           /\ row'[target[q]] = Written(loaded[q], edited[q], row[target[q]])
           /\ row'[target[q]].email = row[target[q]].email
           /\ Secrets(row'[target[q]])
                  \subseteq Secrets(row[target[q]]) \cup fresh[q]
<1> DEFINE t == target[q]  is == Written(loaded[q], edited[q], row[t])
<1>1. /\ pc[q] = "committing" /\ t \in Tenants /\ row[t] \in Rows
      /\ loaded[q] \in Rows /\ edited[q] \in Rows
      /\ row \in [Tenants -> Rows \cup {NoTenant}]
  BY DEF TInv, TypeOK, HoldInv, Commit
<1>2. row' = [row EXCEPT ![t] = is]
  BY DEF Commit
<1>3. is \in Rows
  BY <1>1, WrittenTyped
<1>4. /\ Touches(ask[q].op, loaded[q], edited[q])
      /\ Draws(loaded[q], edited[q], fresh[q])
  BY <1>1 DEF EditInv
<1>5. is.email = row[t].email /\ Secrets(is) \subseteq Secrets(row[t]) \cup fresh[q]
  BY <1>4 DEF Written, Pick, Touches, Draws, Secrets
<1> QED
  BY <1>1, <1>2, <1>3, <1>5

LEMMA RegisterEffect ==
    ASSUME TInv, NEW q \in Requests, Register(q)
    PROVE  \E t \in Tenants :
              /\ row[t] = NoTenant
              /\ row' \in [Tenants -> Rows \cup {NoTenant}]
              /\ \A u \in Tenants : u # t => row'[u] = row[u]
              /\ row'[t] \in Rows /\ row'[t].email = ask[q].email
              /\ Secrets(row'[t]) = {minted, minted + 1, minted + 2}
              /\ target' = [target EXCEPT ![q] = t]
              /\ minted' = minted + 3
              /\ fresh' = [fresh EXCEPT ![q] = Secrets(row'[t])]
<1>1. /\ minted \in Nat /\ ask[q].email \in Emails
      /\ row \in [Tenants -> Rows \cup {NoTenant}]
  BY StoreAssumption DEF TInv, TypeOK, AskRecords
<1>2. /\ NewTenant(ask[q].email) \in Rows
      /\ NewTenant(ask[q].email).email = ask[q].email
      /\ Secrets(NewTenant(ask[q].email)) = {minted, minted + 1, minted + 2}
  BY <1>1, NewTenantTyped
<1>3. PICK t \in Tenants :
          /\ ~Exists(t)
          /\ row' = [row EXCEPT ![t] = NewTenant(ask[q].email)]
          /\ target' = [target EXCEPT ![q] = t]
  BY DEF Register
<1>4. minted .. minted + 3 - 1 = {minted, minted + 1, minted + 2}
  BY <1>1
<1>5. minted' = minted + 3 /\ fresh' = [fresh EXCEPT ![q] = minted .. minted + 3 - 1]
  BY DEF Register, Mint
<1>6. row'[t] = NewTenant(ask[q].email)
  BY <1>1, <1>3
<1>7. row' \in [Tenants -> Rows \cup {NoTenant}]
  BY <1>1, <1>2, <1>3
<1>8. \A u \in Tenants : u # t => row'[u] = row[u]
  BY <1>1, <1>3
<1> HIDE DEF Register
<1> QED
  BY <1>2, <1>3, <1>4, <1>5, <1>6, <1>7, <1>8 DEF Exists

----------------------------------------------------------------------------
(* Types.                                                                  *)
LEMMA InitTInv == Init => TInv
<1> SUFFICES ASSUME Init PROVE TInv
  OBVIOUS
<1>1. TypeOK
  BY StoreAssumption DEF Init, TypeOK, Stations, Answers
<1>2. HoldInv
  BY DEF Init, HoldInv
<1> QED
  BY <1>1, <1>2 DEF TInv

LEMMA StepTInv ==
    ASSUME TInv, EditInv, [Next]_vars
    PROVE  TInv'
<1> USE DEF Stations, Answers, Goto, Answer, store, objects, secrets
<1>0. TypeOK /\ HoldInv
  BY DEF TInv
<1>1. ASSUME NEW q \in Requests, Load(q) PROVE TInv'
  <2>1. CASE pc'[q] = "editing"
    <3>1. PICK t \in Found(q) :
              /\ target' = [target EXCEPT ![q] = t]
              /\ loaded' = [loaded EXCEPT ![q] = row[t]]
              /\ edited' = [edited EXCEPT ![q] = row[t]]
              /\ pc' = [pc EXCEPT ![q] = "editing"] /\ answer' = answer
      BY <1>0, <1>1, <2>1 DEF Load, TypeOK
    <3>2. t \in Tenants /\ row[t] \in Rows
      BY <1>0 DEF Found, Exists, TypeOK
    <3>3. ask[q].op \in DOMAIN ColumnsOf
      <4>1. ask[q].op \in Ops /\ ask[q].op # "signup"
        BY <1>0, <1>1, StoreAssumption DEF Load, TypeOK, AskRecords
      <4> QED
        BY <4>1 DEF Ops
    <3>4. TypeOK'
      BY <1>0, <1>1, <3>1, <3>2 DEF Load, TypeOK
    <3>5. HoldInv'
      BY <1>0, <1>1, <3>1, <3>2, <3>3 DEF Load, HoldInv, TypeOK
    <3> QED
      BY <3>4, <3>5 DEF TInv
  <2>2. CASE pc'[q] # "editing"
    <3>1. /\ pc' = [pc EXCEPT ![q] = "done"]
          /\ answer' = [answer EXCEPT ![q] = "refused"]
          /\ UNCHANGED objects
      BY <1>0, <1>1, <2>2 DEF Load, TypeOK
    <3>2. TypeOK'
      BY <1>0, <1>1, <3>1 DEF Load, TypeOK
    <3>3. HoldInv'
      BY <1>0, <1>1, <3>1 DEF Load, HoldInv, TypeOK
    <3> QED
      BY <3>2, <3>3 DEF TInv
  <2> QED
    BY <2>1, <2>2
<1>2. ASSUME NEW q \in Requests, Edit(q) PROVE TInv'
  <2>1. PICK new \in Rows, n \in Nat : Assign(q, ask[q].op, new, n)
    BY <1>2, EditAssigns
  <2>2. minted \in Nat /\ minted + n \in Nat /\ minted .. minted + n - 1 \subseteq Nat
    BY <1>0 DEF TypeOK
  <2>3. TypeOK'
    BY <1>0, <2>1, <2>2 DEF Assign, Mint, TypeOK
  <2>4. HoldInv'
    BY <1>0, <2>1 DEF Assign, HoldInv, TypeOK
  <2> QED
    BY <2>3, <2>4 DEF TInv
<1>3. ASSUME NEW q \in Requests, Commit(q) PROVE TInv'
  <2>1. /\ pc[q] = "committing" /\ target[q] \in Tenants
        /\ row[target[q]] \in Rows /\ row'[target[q]] \in Rows
        /\ row' \in [Tenants -> Rows \cup {NoTenant}]
        /\ \A u \in Tenants : u # target[q] => row'[u] = row[u]
    BY <1>3, CommitEffect
  <2>2. retired' \subseteq Nat
    <3>1. Secrets(row[target[q]]) \subseteq Nat
      BY <2>1 DEF Rows, Secrets
    <3>2. retired' = retired \cup (Secrets(row[target[q]]) \ Secrets(row'[target[q]]))
      BY <1>3 DEF Commit
    <3> QED
      BY <1>0, <3>1, <3>2 DEF TypeOK
  <2>3. TypeOK'
    BY <1>0, <1>3, <2>1, <2>2 DEF Commit, TypeOK
  <2>4. HoldInv'
    BY <1>0, <1>3, <2>1 DEF Commit, HoldInv, TypeOK
  <2> QED
    BY <2>3, <2>4 DEF TInv
<1>4. ASSUME NEW q \in Requests, Respond(q) PROVE TInv'
  <2>1. row[target[q]] \in Rows
    BY <1>0, <1>4 DEF Respond, HoldInv
  <2>2. TypeOK'
    BY <1>0, <1>4, <2>1 DEF Respond, TypeOK
  <2>3. HoldInv'
    BY <1>0, <1>4 DEF Respond, HoldInv, TypeOK
  <2> QED
    BY <2>2, <2>3 DEF TInv
<1>5. ASSUME NEW q \in Requests, Signup(q) PROVE TInv'
  <2>1. CASE Register(q)
    <3>1. PICK t \in Tenants :
              /\ row[t] = NoTenant
              /\ row' \in [Tenants -> Rows \cup {NoTenant}]
              /\ \A u \in Tenants : u # t => row'[u] = row[u]
              /\ row'[t] \in Rows /\ row'[t].email = ask[q].email
              /\ Secrets(row'[t]) = {minted, minted + 1, minted + 2}
              /\ target' = [target EXCEPT ![q] = t]
              /\ minted' = minted + 3
              /\ fresh' = [fresh EXCEPT ![q] = Secrets(row'[t])]
      BY <2>1, RegisterEffect
    <3>2. Secrets(row'[t]) \subseteq Nat /\ minted' \in Nat
      BY <1>0, <3>1 DEF TypeOK
    <3>3. /\ pc' = [pc EXCEPT ![q] = "answering"]
          /\ UNCHANGED <<now, ask, loaded, edited, retired, faults, answer>>
      BY <1>5, <2>1 DEF Signup, Register
    <3>4. TypeOK'
      BY <1>0, <3>1, <3>2, <3>3 DEF TypeOK
    <3>5. HoldInv'
      BY <1>0, <3>1, <3>3 DEF HoldInv, TypeOK
    <3> QED
      BY <3>4, <3>5 DEF TInv
  <2>2. CASE ~Register(q)
    <3>1. /\ pc' = [pc EXCEPT ![q] = "done"]
          /\ answer' = [answer EXCEPT ![q] = "refused"]
          /\ UNCHANGED <<now, store, secrets, ask, objects, faults>>
      BY <1>5, <2>2 DEF Signup
    <3>2. TypeOK'
      BY <1>0, <3>1 DEF TypeOK
    <3>3. HoldInv'
      BY <1>0, <3>1 DEF HoldInv, TypeOK
    <3> QED
      BY <3>2, <3>3 DEF TInv
  <2> QED
    BY <2>1, <2>2
<1>6. ASSUME NEW q \in Requests, Fail(q) PROVE TInv'
  <2>1. TypeOK'
    BY <1>0, <1>6 DEF Fail, TypeOK
  <2>2. HoldInv'
    BY <1>0, <1>6 DEF Fail, HoldInv, TypeOK
  <2> QED
    BY <2>1, <2>2 DEF TInv
<1>7. ASSUME Crash PROVE TInv'
  <2>1. TypeOK'
    BY <1>0, <1>7 DEF Crash, TypeOK
  <2>2. HoldInv'
    BY <1>0, <1>7 DEF Crash, HoldInv, TypeOK
  <2> QED
    BY <2>1, <2>2 DEF TInv
<1>8. ASSUME Tick PROVE TInv'
  BY <1>0, <1>8 DEF Tick, TInv, TypeOK, HoldInv
<1>9. CASE UNCHANGED vars
  BY <1>0, <1>9 DEF vars, TInv, TypeOK, HoldInv
<1> QED
  BY <1>1, <1>2, <1>3, <1>4, <1>5, <1>6, <1>7, <1>8, <1>9 DEF Next, Handle

LEMMA StepEditInv ==
    ASSUME TInv, EditInv, [Next]_vars
    PROVE  EditInv'
<1> USE DEF Goto, Answer, store, objects, secrets
<1>0. TypeOK /\ HoldInv
  BY DEF TInv
<1>1. ASSUME NEW q \in Requests, Load(q) PROVE EditInv'
  BY <1>0, <1>1 DEF Load, EditInv, TypeOK
<1>2. ASSUME NEW q \in Requests, Edit(q) PROVE EditInv'
  <2>1. PICK new \in Rows, n \in Nat :
            /\ Assign(q, ask[q].op, new, n)
            /\ Touches(ask[q].op, loaded[q], new)
            /\ Carries(ask[q], loaded[q], new, now)
            /\ Draws(loaded[q], new, minted .. minted + n - 1)
    BY <1>2, EditAssigns
  <2> SUFFICES ASSUME NEW p \in Requests, pc'[p] = "committing"
               PROVE  /\ Touches(ask'[p].op, loaded'[p], edited'[p])
                      /\ Carries(ask'[p], loaded'[p], edited'[p], now')
                      /\ Draws(loaded'[p], edited'[p], fresh'[p])
    BY DEF EditInv
  <2>2. UNCHANGED <<ask, loaded, now>>
    BY <2>1 DEF Assign
  <2>3. CASE p = q
    <3>1. edited'[q] = new /\ fresh'[q] = minted .. minted + n - 1
      BY <1>0, <2>1 DEF Assign, Mint, TypeOK
    <3> QED
      BY <2>1, <2>2, <2>3, <3>1
  <2>4. CASE p # q
    <3>1. edited'[p] = edited[p] /\ fresh'[p] = fresh[p] /\ pc'[p] = pc[p]
      BY <1>0, <2>1, <2>4 DEF Assign, Mint, TypeOK
    <3> QED
      BY <2>2, <3>1 DEF EditInv
  <2> QED
    BY <2>3, <2>4
<1>3. ASSUME NEW q \in Requests, Commit(q) PROVE EditInv'
  BY <1>0, <1>3 DEF Commit, EditInv, TypeOK
<1>4. ASSUME NEW q \in Requests, Respond(q) PROVE EditInv'
  BY <1>0, <1>4 DEF Respond, EditInv, TypeOK
<1>5. ASSUME NEW q \in Requests, Signup(q) PROVE EditInv'
  BY <1>0, <1>5 DEF Signup, Register, Mint, EditInv, TypeOK
<1>6. ASSUME NEW q \in Requests, Fail(q) PROVE EditInv'
  BY <1>0, <1>6 DEF Fail, EditInv, TypeOK
<1>7. ASSUME Crash PROVE EditInv'
  BY <1>0, <1>7 DEF Crash, EditInv, TypeOK
<1>8. ASSUME Tick PROVE EditInv'
  <2> SUFFICES ASSUME NEW q \in Requests, pc[q] = "committing"
               PROVE  Carries(ask[q], loaded[q], edited[q], now + 1)
    BY <1>8 DEF Tick, EditInv
  <2>1. Carries(ask[q], loaded[q], edited[q], now) /\ loaded[q].expires \in Int
    BY <1>0 DEF EditInv, HoldInv, Rows
  <2> QED
    BY <1>0, <2>1 DEF Carries, TypeOK
<1>9. CASE UNCHANGED vars
  BY <1>9 DEF vars, EditInv
<1> QED
  BY <1>1, <1>2, <1>3, <1>4, <1>5, <1>6, <1>7, <1>8, <1>9 DEF Next, Handle

----------------------------------------------------------------------------
(* Secrets.                                                                *)
LEMMA InitSInv == Init => SInv
<1> SUFFICES ASSUME Init PROVE SInv
  OBVIOUS
<1>1. MintInv
  BY StoreAssumption DEF Init, MintInv, Exists
<1>2. UnusedInv
  BY DEF Init, UnusedInv
<1>3. OneAccountEach /\ RetiredStaysRetired
  BY StoreAssumption DEF Init, OneAccountEach, RetiredStaysRetired, Exists
<1>4. UnseenOnlyAfterFailure
  BY StoreAssumption DEF Init, UnseenOnlyAfterFailure, Exists
<1> QED
  BY <1>1, <1>2, <1>3, <1>4 DEF SInv

(* A step that generates no secret and writes no row.                      *)
LEMMA QuietStep ==
    ASSUME SInv, UNCHANGED <<row, retired, minted, fresh>>
    PROVE  MintInv' /\ OneAccountEach' /\ RetiredStaysRetired'
BY DEF SInv, MintInv, OneAccountEach, RetiredStaysRetired, Exists

LEMMA SecretsAreNumbers ==
    ASSUME TypeOK
    PROVE  /\ \A t \in Tenants : Exists(t) => Secrets(row[t]) \subseteq Nat
           /\ \A q \in Requests : fresh[q] \subseteq Nat
           /\ retired \subseteq Nat /\ minted \in Nat
BY DEF TypeOK, Exists, Rows, Secrets

LEMMA EditKeepsSecrets ==
    ASSUME TInv, SInv, NEW q \in Requests, Edit(q)
    PROVE  SInv'
<1>0. TypeOK
  BY DEF TInv
<1>1. PICK new \in Rows, n \in Nat : Assign(q, ask[q].op, new, n)
  BY EditAssigns
<1>2. /\ pc[q] = "editing" /\ pc' = [pc EXCEPT ![q] = "committing"]
      /\ minted' = minted + n
      /\ fresh' = [fresh EXCEPT ![q] = minted .. minted + n - 1]
      /\ UNCHANGED <<row, retired, ask, target, answer>>
  BY <1>1 DEF Assign, Mint, Goto, store
<1>3. fresh[q] = {} /\ MintInv /\ UnusedInv
  BY <1>2 DEF SInv, UnusedInv
<1>4. /\ fresh'[q] = minted .. minted + n - 1
      /\ \A p \in Requests : p # q => fresh'[p] = fresh[p] /\ pc'[p] = pc[p]
  BY <1>0, <1>2 DEF TypeOK
<1>5. /\ minted \in Nat /\ FirstSecret \in Nat
      /\ \A x \in fresh'[q] : x \in Nat /\ minted <= x /\ x < minted'
  BY <1>0, <1>2, <1>4, StoreAssumption DEF TypeOK
<1>6. MintInv'
  <2>1. FirstSecret <= minted' /\ \A x \in retired' : x < minted'
    BY <1>2, <1>3, <1>5, SecretsAreNumbers, <1>0 DEF MintInv
  <2>2. \A t \in Tenants : Exists(t)' => \A x \in Secrets(row'[t]) : x < minted'
    BY <1>2, <1>3, <1>5, SecretsAreNumbers, <1>0 DEF MintInv, Exists
  <2>3. \A p \in Requests : \A x \in fresh'[p] : FirstSecret <= x /\ x < minted'
    BY <1>2, <1>3, <1>4, <1>5, SecretsAreNumbers, <1>0 DEF MintInv
  <2>4. \A p \in Requests : p # q => fresh'[p] \cap fresh'[q] = {}
    <3> SUFFICES ASSUME NEW p \in Requests, p # q, NEW x \in fresh[p], x \in fresh'[q]
                 PROVE  FALSE
      BY <1>4
    <3> QED
      BY <1>3, <1>5, SecretsAreNumbers, <1>0 DEF MintInv
  <2>5. \A o, p \in Requests : o # p => fresh'[o] \cap fresh'[p] = {}
    BY <1>3, <1>4, <2>4 DEF MintInv
  <2> QED
    BY <2>1, <2>2, <2>3, <2>5 DEF MintInv
<1>7. UnusedInv'
  <2>1. fresh'[q] \cap retired = {}
    BY <1>3, <1>5, SecretsAreNumbers, <1>0 DEF MintInv
  <2>2. \A t \in Tenants : Exists(t) => fresh'[q] \cap Secrets(row[t]) = {}
    BY <1>3, <1>5, SecretsAreNumbers, <1>0 DEF MintInv
  <2>3. pc'[q] = "committing"
    BY <1>0, <1>2 DEF TypeOK
  <2> QED
    BY <1>2, <1>3, <1>4, <2>1, <2>2, <2>3 DEF UnusedInv, Exists
<1>8. OneAccountEach' /\ RetiredStaysRetired'
  BY <1>2 DEF SInv, OneAccountEach, RetiredStaysRetired, Exists
<1>9. UnseenOnlyAfterFailure'
  BY <1>2, <1>3, <1>4 DEF SInv, UnseenOnlyAfterFailure, Exists
<1> QED
  BY <1>6, <1>7, <1>8, <1>9 DEF SInv

LEMMA CommitKeepsSecrets ==
    ASSUME TInv, EditInv, SInv, NEW q \in Requests, Commit(q)
    PROVE  SInv'
<1> DEFINE t == target[q]  old == Secrets(row[t])  new == Secrets(row'[t])
<1>0. TypeOK
  BY DEF TInv
<1>1. /\ pc[q] = "committing" /\ t \in Tenants
      /\ row[t] \in Rows /\ row'[t] \in Rows
      /\ \A u \in Tenants : u # t => row'[u] = row[u]
      /\ row'[t].email = row[t].email
      /\ new \subseteq old \cup fresh[q]
  BY CommitEffect
<1>2. /\ retired' = retired \cup (old \ new)
      /\ pc' = [pc EXCEPT ![q] = "answering"]
      /\ UNCHANGED <<minted, fresh, target, answer, ask>>
  BY DEF Commit, Goto, secrets, objects
<1>3. Exists(t) /\ \A u \in Tenants : Exists(u)' = Exists(u)
  BY <1>1, StoreAssumption DEF Exists
<1>4. /\ pc'[q] = "answering"
      /\ \A p \in Requests : p # q => pc'[p] = pc[p]
  BY <1>0, <1>2 DEF TypeOK
<1>5. /\ fresh[q] \cap retired = {}
      /\ \A u \in Tenants : Exists(u) => fresh[q] \cap Secrets(row[u]) = {}
      /\ old \cap retired = {}
      /\ \A u \in Tenants : u # t /\ Exists(u) => old \cap Secrets(row[u]) = {}
  BY <1>1, <1>3 DEF SInv, UnusedInv, RetiredStaysRetired, OneAccountEach
<1> HIDE DEF t, old, new
<1>6. MintInv'
  <2>1. \A x \in old \cup fresh[q] : x < minted
    BY <1>1, <1>3 DEF SInv, MintInv, old
  <2>2. \A u \in Tenants : Exists(u)' => \A x \in Secrets(row'[u]) : x < minted
    BY <1>1, <1>3, <2>1 DEF SInv, MintInv, new
  <2>3. \A x \in retired' : x < minted
    BY <1>2, <2>1 DEF SInv, MintInv
  <2> QED
    BY <1>2, <2>2, <2>3 DEF SInv, MintInv
<1>7. UnusedInv'
  <2> SUFFICES ASSUME NEW p \in Requests
               PROVE  /\ pc'[p] \in {"idle", "editing"} => fresh[p] = {}
                      /\ pc'[p] = "committing" =>
                            /\ fresh[p] \cap retired' = {}
                            /\ \A u \in Tenants : Exists(u) =>
                                  fresh[p] \cap Secrets(row'[u]) = {}
    BY <1>2, <1>3 DEF UnusedInv
  <2>1. CASE p = q
    BY <1>4, <2>1
  <2>2. CASE p # q
    <3>1. /\ pc'[p] = pc[p] /\ fresh[p] \cap fresh[q] = {}
          /\ pc[p] \in {"idle", "editing"} => fresh[p] = {}
          /\ pc[p] = "committing" =>
                /\ fresh[p] \cap retired = {}
                /\ \A u \in Tenants : Exists(u) =>
                      fresh[p] \cap Secrets(row[u]) = {}
      BY <1>4, <2>2 DEF SInv, MintInv, UnusedInv
    <3>2. pc[p] = "committing" => fresh[p] \cap old = {} /\ fresh[p] \cap new = {}
      BY <1>1, <1>3, <3>1 DEF old
    <3> QED
      BY <1>1, <1>2, <3>1, <3>2 DEF new
  <2> QED
    BY <2>1, <2>2
<1>8. OneAccountEach'
  <2>1. \A u \in Tenants : u # t /\ Exists(u) => new \cap Secrets(row[u]) = {}
    BY <1>1, <1>5
  <2>2. \A u \in Tenants : u # t /\ Exists(u) => row[u].email # row[t].email
    BY <1>1, <1>3 DEF SInv, OneAccountEach
  <2> QED
    BY <1>1, <1>3, <2>1, <2>2 DEF SInv, OneAccountEach, new
<1>9. RetiredStaysRetired'
  <2>1. new \cap retired' = {}
    BY <1>1, <1>2, <1>5
  <2>2. \A u \in Tenants : u # t /\ Exists(u) => Secrets(row[u]) \cap retired' = {}
    BY <1>2, <1>5 DEF SInv, RetiredStaysRetired
  <2> QED
    BY <1>1, <1>3, <2>1, <2>2 DEF RetiredStaysRetired, new
<1>10. UnseenOnlyAfterFailure'
  <2> SUFFICES ASSUME NEW u \in Tenants, Exists(u), NEW x \in Secrets(row'[u]),
                      ~(x < FirstSecret)
               PROVE  \E p \in Requests :
                         /\ x \in fresh[p] /\ target[p] = u
                         /\ pc'[p] = "answering" \/ answer[p] \in {"ok", "failed"}
    BY <1>2, <1>3 DEF UnseenOnlyAfterFailure
  <2>1. CASE x \in Secrets(row[u])
    <3>1. PICK p \in Requests :
              /\ x \in fresh[p] /\ target[p] = u
              /\ pc[p] = "answering" \/ answer[p] \in {"ok", "failed"}
      BY <2>1 DEF SInv, UnseenOnlyAfterFailure
    <3> QED
      BY <1>4, <3>1
  <2>2. CASE x \notin Secrets(row[u])
    <3>1. u = t /\ x \in fresh[q]
      BY <1>1, <2>2 DEF new, old
    <3> QED
      BY <1>4, <3>1 DEF t
  <2> QED
    BY <2>1, <2>2
<1> QED
  BY <1>6, <1>7, <1>8, <1>9, <1>10 DEF SInv

LEMMA RegisterKeepsSecrets ==
    ASSUME TInv, SInv, NEW q \in Requests, Signup(q), Register(q)
    PROVE  SInv'
<1>0. TypeOK
  BY DEF TInv
<1>1. PICK t \in Tenants :
          /\ row[t] = NoTenant
          /\ \A u \in Tenants : u # t => row'[u] = row[u]
          /\ row'[t] \in Rows /\ row'[t].email = ask[q].email
          /\ Secrets(row'[t]) = {minted, minted + 1, minted + 2}
          /\ target' = [target EXCEPT ![q] = t]
          /\ minted' = minted + 3
          /\ fresh' = [fresh EXCEPT ![q] = Secrets(row'[t])]
  BY RegisterEffect
<1> DEFINE new == Secrets(row'[t])
<1>2. /\ pc[q] = "idle" /\ pc' = [pc EXCEPT ![q] = "answering"]
      /\ ~EmailTaken(ask[q].email)
      /\ UNCHANGED <<retired, answer, ask>>
  BY <1>0 DEF Signup, Register, Answer, Goto, TypeOK
<1>3. /\ pc'[q] = "answering" /\ target'[q] = t /\ fresh'[q] = new
      /\ \A p \in Requests : p # q => /\ pc'[p] = pc[p] /\ target'[p] = target[p]
                                      /\ fresh'[p] = fresh[p]
      /\ fresh[q] = {}
  BY <1>0, <1>1, <1>2 DEF TypeOK, SInv, UnusedInv
<1>4. ~Exists(t) /\ \A u \in Tenants : Exists(u)' = (u = t \/ Exists(u))
  BY <1>1, StoreAssumption DEF Exists
<1>5. /\ minted \in Nat /\ FirstSecret \in Nat /\ FirstSecret <= minted
      /\ \A x \in new : x \in Nat /\ minted <= x /\ x < minted'
  BY <1>0, <1>1, StoreAssumption DEF TypeOK, SInv, MintInv
<1> HIDE DEF new
<1>6. /\ \A x \in retired : x \in Nat /\ x < minted
      /\ \A u \in Tenants : Exists(u) => \A x \in Secrets(row[u]) : x \in Nat /\ x < minted
      /\ \A p \in Requests : \A x \in fresh[p] : x \in Nat /\ FirstSecret <= x /\ x < minted
  BY <1>0, SecretsAreNumbers DEF SInv, MintInv
<1>7. /\ new \cap retired = {}
      /\ \A u \in Tenants : Exists(u) => new \cap Secrets(row[u]) = {}
      /\ \A p \in Requests : new \cap fresh[p] = {}
  BY <1>5, <1>6
<1>8. MintInv'
  <2>1. FirstSecret <= minted' /\ \A x \in retired' : x < minted'
    BY <1>1, <1>2, <1>5, <1>6
  <2>2. \A u \in Tenants : Exists(u)' => \A x \in Secrets(row'[u]) : x < minted'
    <3>1. \A u \in Tenants : u # t /\ Exists(u) => \A x \in Secrets(row[u]) : x < minted'
      BY <1>1, <1>5, <1>6
    <3> QED
      BY <1>1, <1>4, <1>5, <3>1 DEF new
  <2>3. \A p \in Requests : \A x \in fresh'[p] : FirstSecret <= x /\ x < minted'
    BY <1>1, <1>3, <1>5, <1>6
  <2>4. \A o, p \in Requests : o # p => fresh'[o] \cap fresh'[p] = {}
    BY <1>3, <1>7 DEF SInv, MintInv
  <2> QED
    BY <2>1, <2>2, <2>3, <2>4 DEF MintInv
<1>9. UnusedInv'
  <2> SUFFICES ASSUME NEW p \in Requests
               PROVE  /\ pc'[p] \in {"idle", "editing"} => fresh'[p] = {}
                      /\ pc'[p] = "committing" =>
                            /\ fresh'[p] \cap retired = {}
                            /\ \A u \in Tenants : Exists(u)' =>
                                  fresh'[p] \cap Secrets(row'[u]) = {}
    BY <1>2 DEF UnusedInv
  <2>1. CASE p = q
    BY <1>3, <2>1
  <2>2. CASE p # q
    BY <1>1, <1>3, <1>4, <1>7, <2>2 DEF SInv, UnusedInv, new
  <2> QED
    BY <2>1, <2>2
<1>10. OneAccountEach'
  <2>1. \A u \in Tenants : Exists(u) => row[u].email # row'[t].email
    BY <1>1, <1>2 DEF EmailTaken
  <2> QED
    BY <1>1, <1>4, <1>7, <2>1 DEF SInv, OneAccountEach, new
<1>11. RetiredStaysRetired'
  BY <1>1, <1>2, <1>4, <1>7 DEF SInv, RetiredStaysRetired, new
<1>12. UnseenOnlyAfterFailure'
  <2> SUFFICES ASSUME NEW u \in Tenants, Exists(u)', NEW x \in Secrets(row'[u]),
                      ~(x < FirstSecret)
               PROVE  \E p \in Requests :
                         /\ x \in fresh'[p] /\ target'[p] = u
                         /\ pc'[p] = "answering" \/ answer[p] \in {"ok", "failed"}
    BY <1>2 DEF UnseenOnlyAfterFailure
  <2>1. CASE u # t
    <3>1. PICK p \in Requests :
              /\ x \in fresh[p] /\ target[p] = u
              /\ pc[p] = "answering" \/ answer[p] \in {"ok", "failed"}
      BY <1>1, <1>4, <2>1 DEF SInv, UnseenOnlyAfterFailure
    <3> QED
      BY <1>3, <3>1
  <2>2. CASE u = t
    BY <1>3, <2>2 DEF new
  <2> QED
    BY <2>1, <2>2
<1> QED
  BY <1>8, <1>9, <1>10, <1>11, <1>12 DEF SInv

LEMMA StepSInv ==
    ASSUME TInv, EditInv, SInv, [Next]_vars
    PROVE  SInv'
<1> USE DEF Goto, Answer, store, objects, secrets
<1>0. TypeOK
  BY DEF TInv
<1>1. ASSUME NEW q \in Requests, Load(q) PROVE SInv'
  <2>1. /\ pc[q] = "idle" /\ pc'[q] \in {"editing", "done"} /\ fresh[q] = {}
        /\ \A p \in Requests : p # q => /\ pc'[p] = pc[p] /\ answer'[p] = answer[p]
                                        /\ target'[p] = target[p]
        /\ UNCHANGED <<row, retired, minted, fresh>>
    BY <1>0, <1>1 DEF Load, TypeOK, SInv, UnusedInv
  <2>2. UnusedInv'
    BY <2>1 DEF SInv, UnusedInv, Exists
  <2>3. UnseenOnlyAfterFailure'
    BY <2>1 DEF SInv, UnseenOnlyAfterFailure, Exists
  <2> QED
    BY <2>1, <2>2, <2>3, QuietStep DEF SInv
<1>2. ASSUME NEW q \in Requests, Respond(q) \/ Fail(q) PROVE SInv'
  <2>1. /\ pc[q] # "done" /\ pc'[q] = "done" /\ answer'[q] \in {"ok", "failed"}
        /\ \A p \in Requests : p # q => pc'[p] = pc[p] /\ answer'[p] = answer[p]
        /\ UNCHANGED <<row, retired, minted, fresh, target>>
    BY <1>0, <1>2 DEF Respond, Fail, TypeOK
  <2>2. UnusedInv'
    BY <2>1 DEF SInv, UnusedInv, Exists
  <2>3. UnseenOnlyAfterFailure'
    BY <2>1 DEF SInv, UnseenOnlyAfterFailure, Exists
  <2> QED
    BY <2>1, <2>2, <2>3, QuietStep DEF SInv
<1>3. ASSUME Crash PROVE SInv'
  <2>1. /\ \A p \in Requests :
              \/ pc'[p] = pc[p] /\ answer'[p] = answer[p]
              \/ pc'[p] = "done" /\ answer'[p] = "failed"
        /\ UNCHANGED <<row, retired, minted, fresh, target>>
    BY <1>3 DEF Crash, Served, InFlight
  <2>2. UnusedInv'
    BY <2>1 DEF SInv, UnusedInv, Exists
  <2>3. UnseenOnlyAfterFailure'
    BY <2>1 DEF SInv, UnseenOnlyAfterFailure, Exists
  <2> QED
    BY <2>1, <2>2, <2>3, QuietStep DEF SInv
<1>4. CASE UNCHANGED <<store, secrets, target, pc, answer>>
  <2>1. UnusedInv' /\ UnseenOnlyAfterFailure'
    BY <1>4 DEF SInv, UnusedInv, UnseenOnlyAfterFailure, Exists
  <2> QED
    BY <1>4, <2>1, QuietStep DEF SInv
<1>5. ASSUME NEW q \in Requests, Signup(q), ~Register(q) PROVE SInv'
  <2>1. /\ pc[q] = "idle" /\ pc'[q] = "done" /\ fresh[q] = {}
        /\ \A p \in Requests : p # q => pc'[p] = pc[p] /\ answer'[p] = answer[p]
        /\ UNCHANGED <<row, retired, minted, fresh, target>>
    BY <1>0, <1>5 DEF Signup, TypeOK, SInv, UnusedInv
  <2>2. UnusedInv'
    BY <2>1 DEF SInv, UnusedInv, Exists
  <2>3. UnseenOnlyAfterFailure'
    BY <2>1 DEF SInv, UnseenOnlyAfterFailure, Exists
  <2> QED
    BY <2>1, <2>2, <2>3, QuietStep DEF SInv
<1> QED
  <2>1. ASSUME NEW q \in Requests, Handle(q) PROVE SInv'
    <3>1. CASE Edit(q)
      BY <3>1, EditKeepsSecrets
    <3>2. CASE Commit(q)
      BY <3>2, CommitKeepsSecrets
    <3>3. CASE Signup(q)
      <4>1. CASE Register(q)
        BY <3>3, <4>1, RegisterKeepsSecrets
      <4> QED
        BY <1>5, <3>3, <4>1
    <3> QED
      BY <1>1, <1>2, <2>1, <3>1, <3>2, <3>3 DEF Handle
  <2>2. Tick \/ UNCHANGED vars => UNCHANGED <<store, secrets, target, pc, answer>>
    BY DEF Tick, vars
  <2> QED
    BY <1>3, <1>4, <2>1, <2>2 DEF Next

----------------------------------------------------------------------------
LEMMA IInvHolds == Spec => []IInv
<1>1. Init => IInv
  <2>1. Init => EditInv
    BY DEF Init, EditInv
  <2> QED
    BY <2>1, InitTInv, InitSInv DEF IInv
<1>2. IInv /\ [Next]_vars => IInv'
  BY StepTInv, StepEditInv, StepSInv DEF IInv
<1> QED
  BY <1>1, <1>2, PTL DEF Spec

(* The state of the store and of its requests is well formed.              *)
THEOREM TypeCorrect == Spec => []TypeOK
<1>1. IInv => TypeOK
  BY DEF IInv, TInv
<1> QED
  BY <1>1, IInvHolds, PTL

(* However signups, rotations and resets overlap, an email is registered   *)
(* once and a secret opens one account.                                    *)
THEOREM AccountsUnique == Spec => []OneAccountEach
<1>1. IInv => OneAccountEach
  BY DEF IInv, SInv
<1> QED
  BY <1>1, IInvHolds, PTL

(* A replaced secret never opens an account again.                         *)
THEOREM RetiredStay == Spec => []RetiredStaysRetired
<1>1. IInv => RetiredStaysRetired
  BY DEF IInv, SInv
<1> QED
  BY <1>1, IInvHolds, PTL

(* Whoever wins a race of rotations shows the secret that is in force, or  *)
(* failed after its commit.                                                *)
THEOREM UnseenAccounted == Spec => []UnseenOnlyAfterFailure
<1>1. IInv => UnseenOnlyAfterFailure
  BY DEF IInv, SInv
<1> QED
  BY <1>1, IInvHolds, PTL

----------------------------------------------------------------------------
LEMMA CommitsIsCommit ==
    ASSUME TInv, [Next]_vars, NEW q \in Requests, Commits(q)
    PROVE  Commit(q)
<1> USE DEF Commits, Goto, Answer
<1>0. TypeOK
  BY DEF TInv
<1>1. ASSUME NEW p \in Requests, Handle(p) PROVE p = q /\ Commit(p)
  <2>1. CASE Load(p)
    BY <1>0, <2>1 DEF Load, TypeOK
  <2>2. CASE Edit(p)
    <3>1. PICK new \in Rows, n \in Nat : Assign(p, ask[p].op, new, n)
      BY <2>2, EditAssigns
    <3> QED
      BY <1>0, <3>1 DEF Assign, TypeOK
  <2>3. CASE Commit(p)
    BY <1>0, <2>3 DEF Commit, TypeOK
  <2>4. CASE Respond(p) \/ Fail(p)
    BY <1>0, <2>4 DEF Respond, Fail, TypeOK
  <2>5. CASE Signup(p)
    BY <1>0, <2>5 DEF Signup, Register, TypeOK
  <2> QED
    BY <1>1, <2>1, <2>2, <2>3, <2>4, <2>5 DEF Handle
<1>2. ~Crash
  BY <1>0 DEF Crash, TypeOK, Served, InFlight
<1>3. ~(Tick \/ UNCHANGED vars)
  BY DEF Tick, vars
<1> QED
  BY <1>1, <1>2, <1>3 DEF Next

LEMMA OnlyCommitsWrite ==
    ASSUME TInv, EditInv, [Next]_vars, NEW t \in Tenants, Exists(t), row'[t] # row[t]
    PROVE  \E q \in Requests : Commit(q) /\ Commits(q) /\ target[q] = t
<1>0. TypeOK
  BY DEF TInv
<1>1. ASSUME NEW q \in Requests, Handle(q)
      PROVE  Commit(q) /\ Commits(q) /\ target[q] = t
  <2>1. CASE Load(q) \/ Respond(q) \/ Fail(q)
    BY <2>1 DEF Load, Respond, Fail, store
  <2>2. CASE Edit(q)
    <3>1. PICK new \in Rows, n \in Nat : Assign(q, ask[q].op, new, n)
      BY <2>2, EditAssigns
    <3> QED
      BY <3>1 DEF Assign, store
  <2>3. CASE Commit(q)
    <3>1. target[q] = t
      BY <2>3, CommitEffect
    <3>2. Commits(q)
      BY <1>0, <2>3 DEF Commit, Commits, Goto, TypeOK
    <3> QED
      BY <2>3, <3>1, <3>2
  <2>4. CASE Signup(q)
    <3>1. CASE Register(q)
      BY <3>1, RegisterEffect DEF Exists
    <3> QED
      BY <2>4, <3>1 DEF Signup
  <2> QED
    BY <1>1, <2>1, <2>2, <2>3, <2>4 DEF Handle
<1>2. Crash \/ Tick \/ UNCHANGED vars => row' = row
  BY DEF Crash, Tick, vars, store
<1> QED
  BY <1>1, <1>2 DEF Next

(* Whatever a request loaded, and however long ago, its commit changes     *)
(* only the columns its endpoint is about.                                 *)
THEOREM OwnColumns == Spec => EditsKeepToTheirColumns
<1>1. ASSUME IInv, [Next]_vars, NEW t \in Tenants, NEW c \in Columns,
             Exists(t), row'[t][c] # row[t][c]
      PROVE  \E q \in Requests : /\ Commits(q) /\ target[q] = t
                                 /\ c \in ColumnsOf[ask[q].op]
  <2>1. PICK q \in Requests : Commit(q) /\ Commits(q) /\ target[q] = t
    BY <1>1, OnlyCommitsWrite DEF IInv
  <2>2. /\ row'[t] = Written(loaded[q], edited[q], row[t])
        /\ Touches(ask[q].op, loaded[q], edited[q])
    BY <1>1, <2>1, CommitEffect DEF IInv, EditInv, Commits
  <2> DEFINE cols == ColumnsOf[ask[q].op]
  <2>3. c \in cols
    <3>1. /\ c = "email" => FALSE
          /\ c = "key" => "key" \in cols
          /\ c = "passphrase" => "passphrase" \in cols
          /\ c = "token" => "token" \in cols
      BY <1>1, <2>2 DEF Written, Pick, Touches
    <3>2. /\ c = "mapped" => "mapped" \in cols
          /\ c = "settings" => "settings" \in cols
          /\ c = "killed" => "killed" \in cols
          /\ c = "expires" => "expires" \in cols
      BY <1>1, <2>2 DEF Written, Pick, Touches
    <3> HIDE DEF cols
    <3> QED
      BY <3>1, <3>2 DEF Columns
  <2> QED
    BY <2>1, <2>3
<1>2. IInv /\ [Next]_vars =>
         [\A t \in Tenants, c \in Columns :
             Exists(t) /\ row'[t][c] # row[t][c] =>
                \E q \in Requests : /\ Commits(q)
                                    /\ target[q] = t
                                    /\ c \in ColumnsOf[ask[q].op]]_vars
  BY <1>1
<1> QED
  BY <1>2, IInvHolds, PTL DEF Spec, EditsKeepToTheirColumns

(* A partial update of the settings or a grant loses what was there only   *)
(* when that column was written between its load and its commit.           *)
THEOREM LostOnlyByRace == Spec => LostOnlyIfOvertaken
<1> DEFINE Kept(q) ==
       LET was == row[target[q]]  is == row'[target[q]] IN
       /\ ask[q].op = "risk_settings" /\ was.settings = loaded[q].settings =>
             \A f \in DOMAIN was.settings \ ask[q].fields :
                 is.settings[f] = was.settings[f]
       /\ ask[q].op = "grant" /\ was.expires = loaded[q].expires
             /\ was.expires > now =>
             is.expires >= was.expires + ask[q].days
<1>1. ASSUME IInv, [Next]_vars, NEW q \in Requests, Commits(q)
      PROVE  Kept(q)
  <2> DEFINE was == row[target[q]]  is == row'[target[q]]
  <2>1. Commit(q)
    BY <1>1, CommitsIsCommit DEF IInv
  <2>2. /\ is = Written(loaded[q], edited[q], was)
        /\ Carries(ask[q], loaded[q], edited[q], now)
    BY <1>1, <2>1, CommitEffect DEF IInv, EditInv
  <2>3. /\ was.settings = loaded[q].settings => is.settings = edited[q].settings
        /\ was.expires = loaded[q].expires => is.expires = edited[q].expires
    BY <2>2 DEF Written, Pick
  <2> HIDE DEF was, is
  <2>4. ASSUME ask[q].op = "risk_settings", was.settings = loaded[q].settings
        PROVE  \A f \in DOMAIN was.settings \ ask[q].fields :
                  is.settings[f] = was.settings[f]
    BY <2>2, <2>3, <2>4 DEF Carries
  <2>5. ASSUME ask[q].op = "grant", was.expires = loaded[q].expires, was.expires > now
        PROVE  is.expires >= was.expires + ask[q].days
    BY <2>2, <2>3, <2>5 DEF Carries
  <2> QED
    BY <2>4, <2>5 DEF was, is
<1>2. IInv /\ [Next]_vars => [\A q \in Requests : Commits(q) => Kept(q)]_vars
  BY <1>1
<1> QED
  BY <1>2, IInvHolds, PTL DEF Spec, LostOnlyIfOvertaken
=============================================================================

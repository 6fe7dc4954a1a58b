---------------------------- MODULE TenantStore ----------------------------
(***************************************************************************)
(* The tenants table and the requests that write it: POST /signup, the     *)
(* /me endpoints and the /admin endpoints of app/main.py with the          *)
(* operations of app/storage/repository.py behind them.                    *)
(*                                                                         *)
(* A request owns a database session.  It loads the tenant's row, assigns  *)
(* to the loaded object and commits; other requests run at every await in  *)
(* between.  The commit is an UPDATE of the columns whose assigned value   *)
(* differs from the loaded one: nothing checks that the row is still what  *)
(* was loaded.  The operator's scripts/reset_tenant_credentials.py does the *)
(* same to the database from a process of its own.                         *)
(*                                                                         *)
(* A secret is a number, its hash the same number, and fresh ones never    *)
(* repeat.  A tenant id is generated, here taken from the unused ones.     *)
(***************************************************************************)
EXTENDS RiskManager

CONSTANTS
    Tenants,        \* tenant ids, those of future signups included
    Emails,
    Requests,       \* account and admin requests
    Asks,           \* what a request may ask
    Start,          \* Start[t]: the row of t at the beginning, or NoTenant
    FirstSecret,    \* no secret of Start is as large
    NoTenant,       \* no row; an unknown tenant_id
    MaxTime,        \* bound on the clock
    MaxFaults       \* bound on failed database calls and crashes

Rows == [email : Emails, key : Nat, passphrase : Nat, token : Nat,
         mapped : SUBSET (Symbols \cup {Blank}), settings : Settings,
         killed : BOOLEAN, expires : Int]

Columns == {"email", "key", "passphrase", "token", "mapped", "settings",
            "killed", "expires"}
Secrets(r) == {r.key, r.passphrase, r.token}

(* ColumnsOf[op]: what a request of that kind assigns to.  "script" is the *)
(* operator's reset script.                                                *)
ColumnsOf == [symbol_map |-> {"mapped"}, risk_settings |-> {"settings"},
              kill_switch |-> {"killed"}, passphrase |-> {"passphrase"},
              token |-> {"token"}, grant |-> {"expires"},
              revoke |-> {"expires"}, reset |-> {"key", "passphrase", "token"},
              script |-> {"key", "passphrase", "token"}]

AdminOps == {"grant", "revoke", "reset"}
Ops == DOMAIN ColumnsOf \cup {"signup"}

(* `admin` tells whether X-Admin-Key is the configured key.                *)
AskRecords ==
    [op : Ops, admin : BOOLEAN, tenant : Tenants \cup {NoTenant}, key : Nat,
     email : Emails, days : Int, engaged : BOOLEAN, texts : SUBSET Texts,
     fields : SUBSET {"allowed", "maxQty", "maxLoss"}, settings : Settings]

ASSUME StoreAssumption ==
    /\ Asks \subseteq AskRecords
    /\ NoTenant \notin Rows \cup Tenants
    /\ Start \in [Tenants -> Rows \cup {NoTenant}]
    /\ FirstSecret \in Nat
    /\ \A t \in Tenants : Start[t] # NoTenant =>
          \A x \in Secrets(Start[t]) : x < FirstSecret
    /\ \A t, u \in Tenants :
          t # u /\ Start[t] # NoTenant /\ Start[u] # NoTenant =>
             /\ Start[t].email # Start[u].email
             /\ Secrets(Start[t]) \cap Secrets(Start[u]) = {}
    /\ MaxTime \in Nat /\ MaxFaults \in Nat

Stations == {"idle", "editing", "committing", "answering", "done"}
Answers == {"none", "ok", "refused", "failed"}

VARIABLES
    now,        \* utcnow, in days
    row,        \* row[t]: the row of t, or NoTenant
    minted,     \* the next fresh secret
    ask,        \* ask[q]: what q asks
    pc,         \* pc[q]: the next step of q
    target,     \* target[q]: the tenant whose object q holds
    loaded,     \* loaded[q]: the row as it was read
    edited,     \* edited[q]: the object after the assignments
    fresh,      \* fresh[q]: the secrets q generated, shown in its response
    answer,     \* answer[q]: the response
    retired,    \* history: secrets that were replaced
    faults

vars == <<now, row, minted, ask, pc, target, loaded, edited, fresh, answer,
          retired, faults>>
store == <<row, retired>>
objects == <<target, loaded, edited>>
secrets == <<minted, fresh>>

----------------------------------------------------------------------------
Exists(t) == row[t] # NoTenant

Init ==
    /\ now = 0
    /\ row = Start
    /\ minted = FirstSecret
    /\ ask \in [Requests -> Asks]
    /\ pc = [q \in Requests |-> "idle"]
    /\ target = [q \in Requests |-> NoTenant]
    /\ loaded = [q \in Requests |-> NoTenant]
    /\ edited = [q \in Requests |-> NoTenant]
    /\ fresh = [q \in Requests |-> {}]
    /\ answer = [q \in Requests |-> "none"]
    /\ retired = {}
    /\ faults = 0

Goto(q, station) == pc' = [pc EXCEPT ![q] = station]

Answer(q, a) ==
    /\ Goto(q, "done")
    /\ answer' = [answer EXCEPT ![q] = a]

----------------------------------------------------------------------------
(* get_current_tenant finds the row by api key, the admin endpoints by id, *)
(* the script by email.                                                    *)
Addresses(q, t) ==
    IF ask[q].op \in AdminOps THEN ask[q].tenant = t
    ELSE IF ask[q].op = "script" THEN ask[q].email = row[t].email
    ELSE ask[q].key = row[t].key

Found(q) == {t \in Tenants : Exists(t) /\ Addresses(q, t)}

(* get_current_admin; a grant of no days is refused before any lookup.     *)
Admitted(q) ==
    /\ ask[q].op \in AdminOps => ask[q].admin
    /\ ask[q].op = "grant" => ask[q].days > 0

Load(q) ==
    /\ pc[q] = "idle"
    /\ ask[q].op # "signup"
    /\ \/ /\ Admitted(q)
          /\ \E t \in Found(q) :
                /\ target' = [target EXCEPT ![q] = t]
                /\ loaded' = [loaded EXCEPT ![q] = row[t]]
                /\ edited' = [edited EXCEPT ![q] = row[t]]
          /\ Goto(q, "editing")
          /\ UNCHANGED answer
       \/ /\ ~Admitted(q) \/ Found(q) = {}
          /\ Answer(q, "refused")
          /\ UNCHANGED objects
    /\ UNCHANGED <<now, store, secrets, ask, faults>>

(* Variant: the response carries secrets generated once more.              *)
MintTwice(q, n) ==
    /\ minted' = minted + 2 * n
    /\ fresh' = [fresh EXCEPT ![q] = minted + n .. minted + 2 * n - 1]

(* n secrets are generated, by create_tenant or one of the rotations.      *)
Mint(q, n) ==
    /\ minted' = minted + n
    /\ fresh' = [fresh EXCEPT ![q] = minted .. minted + n - 1]

(* The handler assigns `new` to its object, with n fresh secrets, and is   *)
(* about to commit.                                                        *)
Assign(q, op, new, n) ==
    /\ pc[q] = "editing"
    /\ ask[q].op = op
    /\ edited' = [edited EXCEPT ![q] = new]
    /\ Mint(q, n)
    /\ Goto(q, "committing")
    /\ UNCHANGED <<now, store, ask, target, loaded, answer, faults>>

PutSymbolMap(q) ==
    Assign(q, "symbol_map",
           [edited[q] EXCEPT !.mapped = {Upper[x] : x \in ask[q].texts}], 0)

(* Variant: absent fields are filled with the defaults.                    *)
MergedDefaults(current, fields, settings) ==
    [f \in DOMAIN current |-> IF f \in fields THEN settings[f]
                                              ELSE DefaultSettings[f]]

(* Variant: the settings are replaced by the ones given.                   *)
MergedReplaces(current, fields, settings) ==
    [f \in fields |-> settings[f]]

(* dict(tenant.risk_settings).update(...): absent fields keep their value. *)
Merged(current, fields, settings) ==
    [f \in DOMAIN current |-> IF f \in fields THEN settings[f]
                                              ELSE current[f]]

PutRiskSettings(q) ==
    Assign(q, "risk_settings",
           [edited[q] EXCEPT
              !.settings = Merged(@, ask[q].fields, ask[q].settings)], 0)

SetKillSwitch(q) ==
    Assign(q, "kill_switch", [edited[q] EXCEPT !.killed = ask[q].engaged], 0)

RegenerateWebhookPassphrase(q) ==
    Assign(q, "passphrase", [edited[q] EXCEPT !.passphrase = minted], 1)

RegenerateAgentToken(q) ==
    Assign(q, "token", [edited[q] EXCEPT !.token = minted], 1)

GrantSubscription(q) ==
    Assign(q, "grant",
           [edited[q] EXCEPT
              !.expires = ExtendedExpiry(edited[q], now, ask[q].days)], 0)

RevokeSubscription(q) ==
    Assign(q, "revoke", [edited[q] EXCEPT !.expires = now], 0)

Renewed(tenant) ==
    [tenant EXCEPT !.key = minted, !.passphrase = minted + 1,
                   !.token = minted + 2]

ResetCredentials(q) == Assign(q, "reset", Renewed(edited[q]), 3)

ResetScript(q) == Assign(q, "script", Renewed(edited[q]), 3)

----------------------------------------------------------------------------
(* Variant: the commit writes the whole object.                            *)
WrittenWhole(was, new, current) == new

Pick(was, new, current) == IF new # was THEN new ELSE current

(* The UPDATE of an ORM flush: columns assigned a value other than the     *)
(* loaded one are written, the others are left as they are by now.         *)
Written(was, new, current) ==
    [email |-> Pick(was.email, new.email, current.email),
     key |-> Pick(was.key, new.key, current.key),
     passphrase |-> Pick(was.passphrase, new.passphrase, current.passphrase),
     token |-> Pick(was.token, new.token, current.token),
     mapped |-> Pick(was.mapped, new.mapped, current.mapped),
     settings |-> Pick(was.settings, new.settings, current.settings),
     killed |-> Pick(was.killed, new.killed, current.killed),
     expires |-> Pick(was.expires, new.expires, current.expires)]

Commit(q) ==
    LET t == target[q] IN
    /\ pc[q] = "committing"
    /\ row' = [row EXCEPT ![t] = Written(loaded[q], edited[q], row[t])]
    /\ retired' = retired \cup (Secrets(row[t]) \ Secrets(row'[t]))
    /\ Goto(q, "answering")
    /\ UNCHANGED <<now, secrets, ask, objects, answer, faults>>

(* session.refresh reads the row again and the response is built from it,  *)
(* with the secrets as they were generated; the script prints what it has. *)
Respond(q) ==
    /\ pc[q] = "answering"
    /\ edited' = IF ask[q].op = "script" THEN edited
                 ELSE [edited EXCEPT ![q] = row[target[q]]]
    /\ Answer(q, "ok")
    /\ UNCHANGED <<now, store, secrets, ask, target, loaded, faults>>

EmailTaken(e) == \E t \in Tenants : Exists(t) /\ row[t].email = e

NewTenant(e) ==
    [email |-> e, key |-> minted, passphrase |-> minted + 1,
     token |-> minted + 2, mapped |-> {}, settings |-> DefaultSettings,
     killed |-> FALSE, expires |-> Never]

Register(q) ==
    /\ \E t \in Tenants : /\ ~Exists(t)
                          /\ row' = [row EXCEPT ![t] = NewTenant(ask[q].email)]
                          /\ target' = [target EXCEPT ![q] = t]
    /\ Mint(q, 3)
    /\ Goto(q, "answering")
    /\ UNCHANGED answer

(* Variant: nothing keeps an email from being registered twice.            *)
SignupUnchecked(q) ==
    /\ pc[q] = "idle"
    /\ ask[q].op = "signup"
    /\ Register(q)
    /\ UNCHANGED <<now, ask, loaded, edited, retired, faults>>

(* create_tenant: the unique constraint on the email decides at the commit. *)
Signup(q) ==
    /\ pc[q] = "idle"
    /\ ask[q].op = "signup"
    /\ \/ ~EmailTaken(ask[q].email) /\ Register(q)
       \/ /\ EmailTaken(ask[q].email)
          /\ Answer(q, "refused")
          /\ UNCHANGED <<row, secrets, target>>
    /\ UNCHANGED <<now, ask, loaded, edited, retired, faults>>

(* A database call raises: nothing is written, the response is a 500.  For *)
(* the script this includes being stopped between its commit and print.    *)
Fail(q) ==
    /\ pc[q] \in {"idle", "committing", "answering"}
    /\ faults < MaxFaults
    /\ faults' = faults + 1
    /\ Answer(q, "failed")
    /\ UNCHANGED <<now, store, secrets, ask, objects>>

InFlight(q) == pc[q] \notin {"idle", "done"}

Served(q) == InFlight(q) /\ ask[q].op # "script"

(* The server's process dies, with every request it was serving.           *)
Crash ==
    /\ faults < MaxFaults
    /\ faults' = faults + 1
    /\ \E q \in Requests : Served(q)
    /\ pc' = [q \in Requests |-> IF Served(q) THEN "done" ELSE pc[q]]
    /\ answer' = [q \in Requests |-> IF Served(q) THEN "failed" ELSE answer[q]]
    /\ UNCHANGED <<now, store, secrets, ask, objects>>

Tick ==
    /\ now < MaxTime
    /\ now' = now + 1
    /\ UNCHANGED <<store, secrets, ask, pc, objects, answer, faults>>

----------------------------------------------------------------------------
Edit(q) ==
    \/ PutSymbolMap(q) \/ PutRiskSettings(q) \/ SetKillSwitch(q)
    \/ RegenerateWebhookPassphrase(q) \/ RegenerateAgentToken(q)
    \/ GrantSubscription(q) \/ RevokeSubscription(q) \/ ResetCredentials(q)
    \/ ResetScript(q)

Handle(q) ==
    Load(q) \/ Edit(q) \/ Commit(q) \/ Respond(q) \/ Signup(q) \/ Fail(q)

Next == (\E q \in Requests : Handle(q)) \/ Crash \/ Tick

Spec == Init /\ [][Next]_vars

----------------------------------------------------------------------------
(* Type invariant.                                                         *)
TypeOK ==
    /\ now \in Nat
    /\ row \in [Tenants -> Rows \cup {NoTenant}]
    /\ minted \in Nat
    /\ ask \in [Requests -> Asks]
    /\ pc \in [Requests -> Stations]
    /\ target \in [Requests -> Tenants \cup {NoTenant}]
    /\ loaded \in [Requests -> Rows \cup {NoTenant}]
    /\ edited \in [Requests -> Rows \cup {NoTenant}]
    /\ fresh \in [Requests -> SUBSET Nat]
    /\ answer \in [Requests -> Answers]
    /\ retired \subseteq Nat
    /\ faults \in Nat

(* An email names one account and a secret opens one account, whatever     *)
(* signups and rotations run at the same time.                             *)
OneAccountEach ==
    \A t, u \in Tenants : t # u /\ Exists(t) /\ Exists(u) =>
        /\ row[t].email # row[u].email
        /\ Secrets(row[t]) \cap Secrets(row[u]) = {}

(* A secret that was replaced never comes back: not through a request that *)
(* loaded the row before the rotation and commits after it.                *)
RetiredStaysRetired ==
    \A t \in Tenants : Exists(t) => Secrets(row[t]) \cap retired = {}

(* A secret in force that nobody was shown is the work of a request that   *)
(* failed after its commit, or is about to answer: rotations and resets    *)
(* that overlap never leave an account with a secret only the losers of    *)
(* the race, or nobody, saw.                                               *)
UnseenOnlyAfterFailure ==
    \A t \in Tenants : Exists(t) => \A x \in Secrets(row[t]) :
        \/ x < FirstSecret
        \/ \E q \in Requests :
              /\ x \in fresh[q] /\ target[q] = t
              /\ pc[q] = "answering" \/ answer[q] \in {"ok", "failed"}

Commits(q) == pc[q] = "committing" /\ pc'[q] = "answering"

(* A column changes only by the commit of a request about that column: a   *)
(* request that saves symbols from an object loaded long ago never undoes  *)
(* a kill switch, a grant or a rotation committed since.                   *)
EditsKeepToTheirColumns ==
    [][\A t \in Tenants, c \in Columns :
          Exists(t) /\ row'[t][c] # row[t][c] =>
             \E q \in Requests : /\ Commits(q)
                                 /\ target[q] = t
                                 /\ c \in ColumnsOf[ask[q].op]]_vars

(* A partial update of the risk settings keeps what it does not name, and  *)
(* a grant keeps the days that are left, unless another request changed    *)
(* that very column after this one had loaded it.                          *)
LostOnlyIfOvertaken ==
    [][\A q \in Requests : Commits(q) =>
          LET was == row[target[q]]  is == row'[target[q]] IN
          /\ ask[q].op = "risk_settings" /\ was.settings = loaded[q].settings =>
                \A f \in DOMAIN was.settings \ ask[q].fields :
                    is.settings[f] = was.settings[f]
          /\ ask[q].op = "grant" /\ was.expires = loaded[q].expires
                /\ was.expires > now =>
                is.expires >= was.expires + ask[q].days]_vars

(* README, "Renewing early stacks onto the existing expiry": a grant that  *)
(* commits adds its days to what is left by then.                          *)
GrantsStack ==
    [][\A q \in Requests :
          ask[q].op = "grant" /\ Commits(q) /\ row[target[q]].expires > now =>
          row'[target[q]].expires >= row[target[q]].expires + ask[q].days]_vars
=============================================================================

------------------------------ MODULE Sessions ------------------------------
(***************************************************************************)
(* Sessions of the control plane: tokens that carry the roles they were       *)
(* issued with (pkg/platform/token.go), API keys that are looked up on every  *)
(* request, the permission and tenant checks in front of the handlers         *)
(* (middleware.go, rbac.go), and what changes a user's roles and status while *)
(* tokens are out: SSO logins, SCIM, administrators, a restart that may fall  *)
(* back on an older snapshot.  The user store's indexes are Platform's.       *)
(*                                                                         *)
(* Times are kept as ages up to TTL.  A request takes less than a clock step. *)
(***************************************************************************)
EXTENDS Integers, FiniteSets

CONSTANTS
    Tenants,
    Users,          \* user IDs, 1..n in the order they are made; 1 is the bootstrap administrator
    Home,           \* the tenant of the bootstrap administrator, and of SCIM and SSO
    RoleSets,       \* sets of roles a user can have
    Logins,         \* goroutines serving a login
    TTL,            \* token lifetime, in clock steps
    MaxTokens, MaxEdits, MaxReboots     \* bounds on tokens, changes to users, and restarts

VARIABLES
    accounts,   \* the users there are: [tenant, roles, active, key]
    snapshot,   \* the accounts on disk
    tokens,     \* tokens issued: [sub, tenant, roles, signed, age]
    signing,    \* the signing key of this process
    secretSet,  \* platform.jwt_secret is configured: the key outlives the process
    login,      \* what each login goroutine is at
    made, edits, reboots,       \* counters
    access,     \* the request just let through, or None
    since       \* for each user and role, time since the store or the IdP last granted it

accountVars == <<accounts, snapshot, made, edits>>
signVars    == <<signing, secretSet, reboots>>
sessionVars == <<accountVars, tokens, signVars, login, access, since>>

None    == [by |-> "none"]
NoLogin == [op |-> "none"]

----------------------------------------------------------------------------
(* rbac.go *)

PermAll == "*"

rolePermissions ==
    [owner   |-> {PermAll},
     admin   |-> {"events:view", "audit:view", "audit:verify", "audit:export", "inventory:view",
                  "policy:manage", "alerts:manage", "users:manage"},
     analyst |-> {"events:view", "audit:view", "audit:verify", "audit:export", "inventory:view",
                  "alerts:manage"},
     viewer  |-> {"events:view", "audit:view", "inventory:view"}]

Roles == DOMAIN rolePermissions

\* Permissions that requests ask for: one that every role has, one that
\* administrators have and one that owners have
Permissions == {"events:view", "users:manage", "system:manage"}

Can(roles, perm) == \E r \in roles : {PermAll, perm} \cap rolePermissions[r] # {}

----------------------------------------------------------------------------
(* token.go and middleware.go *)

\* (mutant) the expiry is not checked
VerifySignature(t) == t.signed = signing

Verify(t) == t.signed = signing /\ t.age < TTL

\* What a request presents: a token, or the API key of an account
Presented == [by : {"token"}, token : tokens] \cup [by : {"key"}, owner : {u \in DOMAIN accounts : accounts[u].key}]

Resolves(c) == IF c.by = "token" THEN Verify(c.token) ELSE accounts[c.owner].active

Principal(c) ==
    IF c.by = "token" THEN [sub |-> c.token.sub, tenant |-> c.token.tenant, roles |-> c.token.roles]
    ELSE [sub |-> c.owner, tenant |-> accounts[c.owner].tenant, roles |-> accounts[c.owner].roles]

TenantScoped(tenant, p) == Can(p.roles, "system:manage") \/ p.tenant = tenant

\* Require, and the tenant check of the handlers that make one: the request is let through
Admitted(c, perm, tenant) ==
    /\ Resolves(c)
    /\ Can(Principal(c).roles, perm)
    /\ perm = "users:manage" => TenantScoped(tenant, Principal(c))
    /\ access' = [by |-> c.by, p |-> Principal(c), perm |-> perm, tenant |-> tenant]

----------------------------------------------------------------------------
\* Roles are granted while an active account has them, and when the IdP asserts them
Granted(asserted, u) ==
    since' = [v \in Users |-> [r \in Roles |->
                 IF (v \in DOMAIN accounts' /\ accounts'[v].active /\ r \in accounts'[v].roles) \/ (v = u /\ r \in asserted)
                 THEN 0 ELSE since[v][r]]]

SessionsInit ==
    /\ accounts = [u \in {1} |-> [tenant |-> Home, roles |-> {"owner"}, active |-> TRUE, key |-> FALSE]]
    /\ snapshot = accounts
    /\ tokens = {} /\ signing = 0 /\ secretSet \in BOOLEAN
    /\ login = [l \in Logins |-> NoLogin]
    /\ made = 1 /\ edits = 0 /\ reboots = 0 /\ access = None
    /\ since = [u \in Users |-> [r \in Roles |-> IF u = 1 /\ r = "owner" THEN 0 ELSE TTL]]

\* MemUserStore.Create, with a fresh ID
Make(tenant, roles, active) ==
    /\ made + 1 \in Users
    /\ made' = made + 1
    /\ accounts' = [u \in DOMAIN accounts \cup {made + 1} |->
                      IF u \in DOMAIN accounts THEN accounts[u]
                      ELSE [tenant |-> tenant, roles |-> roles, active |-> active, key |-> FALSE]]
    /\ Granted({}, 1)

\* One more change to the accounts in memory
Edit == edits < MaxEdits /\ edits' = edits + 1 /\ UNCHANGED snapshot

SessionClock ==
    /\ \A l \in Logins : login[l] = NoLogin
    /\ tokens' = {[t EXCEPT !.age = IF @ < TTL THEN @ + 1 ELSE @] : t \in tokens}
    /\ since' = [u \in Users |-> [r \in Roles |->
                    IF u \in DOMAIN accounts /\ accounts[u].active /\ r \in accounts[u].roles THEN 0
                    ELSE IF since[u][r] < TTL THEN since[u][r] + 1 ELSE TTL]]
    /\ access' = None
    /\ UNCHANGED <<accountVars, signVars, login>>

----------------------------------------------------------------------------
(* Logins: the principal is built, then the token is issued for it. *)

\* Password or API key of an active user
Authenticate(l, u) ==
    /\ login[l] = NoLogin /\ Cardinality(tokens) < MaxTokens
    /\ accounts[u].active
    /\ login' = [login EXCEPT ![l] = [op |-> "issue", p |-> [sub |-> u, tenant |-> accounts[u].tenant, roles |-> accounts[u].roles]]]
    /\ access' = None
    /\ UNCHANGED <<accountVars, tokens, signVars, since>>

\* ssoIssue finds the user ...
SSOFind(l, u, roles) ==
    /\ login[l] = NoLogin /\ Cardinality(tokens) < MaxTokens
    /\ Edit
    /\ accounts[u].tenant = Home
    /\ login' = [login EXCEPT ![l] = [op |-> "sso", u |-> u, roles |-> roles]]
    /\ access' = None
    /\ UNCHANGED <<accounts, made, tokens, signVars, since>>

\* ... gives them the roles of their groups and activates them, unless they are
\* gone by then; they get a session either way
SSOReconcile(l) ==
    /\ login[l].op = "sso"
    /\ LET u == login[l].u
       IN  /\ accounts' = [v \in DOMAIN accounts |->
                             IF v = u THEN [accounts[v] EXCEPT !.roles = login[l].roles, !.active = TRUE] ELSE accounts[v]]
           /\ login' = [login EXCEPT ![l] = [op |-> "issue", p |-> [sub |-> u, tenant |-> Home, roles |-> login[l].roles]]]
           /\ Granted(login[l].roles, u)
    /\ access' = None
    /\ UNCHANGED <<snapshot, made, edits, tokens, signVars>>

\* ... or, when there is none, provisions one
SSOProvision(l, roles) ==
    /\ login[l] = NoLogin /\ Cardinality(tokens) < MaxTokens
    /\ Edit /\ Make(Home, roles, TRUE)
    /\ login' = [login EXCEPT ![l] = [op |-> "issue", p |-> [sub |-> made', tenant |-> Home, roles |-> roles]]]
    /\ access' = None
    /\ UNCHANGED <<tokens, signVars>>

Issue(l) ==
    /\ login[l].op = "issue"
    /\ LET p == login[l].p
       IN  tokens' = tokens \cup {[sub |-> p.sub, tenant |-> p.tenant, roles |-> p.roles, signed |-> signing, age |-> 0]}
    /\ login' = [login EXCEPT ![l] = NoLogin]
    /\ access' = None
    /\ UNCHANGED <<accountVars, signVars, since>>

----------------------------------------------------------------------------
(* Requests *)

\* Handlers that do not change accounts: handleMe, handleListTenants, handleListUsers, the console's
Call(c, perm, tenant) ==
    /\ Admitted(c, perm, tenant)
    /\ UNCHANGED <<accountVars, tokens, signVars, login, since>>

CreateUser(c, tenant, roles) ==
    /\ Admitted(c, "users:manage", tenant)
    /\ Edit /\ Make(tenant, roles, TRUE)
    /\ UNCHANGED <<tokens, signVars, login>>

CreateAPIKey(c, u) ==
    /\ Admitted(c, "users:manage", accounts[u].tenant)
    /\ Edit
    /\ accounts' = [accounts EXCEPT ![u].key = TRUE]
    /\ UNCHANGED <<made, tokens, signVars, login, since>>

\* SCIM has a token of its own: a user is created, disabled, enabled or deleted
SCIM ==
    /\ Edit
    /\ access' = None
    /\ UNCHANGED <<tokens, signVars, login>>

SCIMCreate(active) == SCIM /\ Make(Home, {"viewer"}, active)

SCIMPatch(u, active) ==
    /\ SCIM
    /\ accounts' = [accounts EXCEPT ![u].active = active]
    /\ Granted({}, u)
    /\ UNCHANGED made

SCIMDelete(u) ==
    /\ SCIM
    /\ accounts' = [v \in DOMAIN accounts \ {u} |-> accounts[v]]
    /\ UNCHANGED <<made, since>>

\* Stop saves the accounts, a crash does not; a process without a configured
\* secret makes up a new signing key
Restart(stopped) ==
    /\ reboots < MaxReboots
    /\ reboots' = reboots + 1
    /\ snapshot' = IF stopped THEN accounts ELSE snapshot
    /\ accounts' = snapshot'
    /\ signing' = IF secretSet THEN signing ELSE signing + 1
    /\ login' = [l \in Logins |-> NoLogin]
    /\ Granted({}, 1)
    /\ access' = None
    /\ UNCHANGED <<made, edits, tokens, secretSet>>

SessionsNext ==
    \/ SessionClock
    \/ \E l \in Logins : \/ SSOReconcile(l) \/ Issue(l)
                         \/ \E R \in RoleSets : SSOProvision(l, R)
                         \/ \E u \in DOMAIN accounts : Authenticate(l, u) \/ \E R \in RoleSets : SSOFind(l, u, R)
    \/ \E c \in Presented, t \in Tenants :
          \/ \E perm \in Permissions : Call(c, perm, t)
          \/ \E R \in RoleSets : CreateUser(c, t, R)
    \/ \E c \in Presented, u \in DOMAIN accounts : CreateAPIKey(c, u)
    \/ \E a \in BOOLEAN : SCIMCreate(a) \/ \E u \in DOMAIN accounts : SCIMPatch(u, a)
    \/ \E u \in DOMAIN accounts : SCIMDelete(u)
    \/ \E stopped \in BOOLEAN : Restart(stopped)

SessionsSpec == SessionsInit /\ [][SessionsNext]_sessionVars
----------------------------------------------------------------------------
(* Properties *)

Held(u, perm, age) == \E r \in Roles : Can({r}, perm) /\ since[u][r] <= age

\* Roles are read from the token, not from the store, so a session outlives a
\* demotion, a disabled or deleted account and a restart, but never by the
\* token's lifetime: whoever is let through with a token held a role that grants
\* the permission less than TTL ago, and whoever is let through with an API key
\* holds it now.  Users of a tenant are managed from another one only on such a
\* grant of system:manage (token.go:125-127, middleware.go:57-102).
AuthorityBound ==
    access # None =>
        LET age == IF access.by = "token" THEN TTL - 1 ELSE 0
        IN  /\ Held(access.p.sub, access.perm, age)
            /\ access.by = "key" => access.p.sub \in DOMAIN accounts /\ accounts[access.p.sub].active
            /\ access.perm = "users:manage" /\ access.p.tenant # access.tenant
                  => Held(access.p.sub, "system:manage", age)
=============================================================================

------------------------------ MODULE Gateway ------------------------------
(***************************************************************************)
(* The AI gateway (pkg/aigateway, pkg/agent/gateway_component.go): requests  *)
(* served at the same time, each of them checked against the provider        *)
(* allowlist, reserved against its tenant's quota, inspected, forwarded with *)
(* the tenant's key, inspected again on its way back, metered and settled.   *)
(*                                                                         *)
(* A request gives up the processor where it takes a lock or waits for the   *)
(* provider; these are the stages.  Prices are left out: usage counts        *)
(* requests and tokens.                                                      *)
(***************************************************************************)
EXTENDS Integers, Sequences, FiniteSets, FiniteSetsExt

CONSTANTS
    Handlers,           \* goroutines of the HTTP server
    Tenants, Providers,
    Allowed,            \* gateway.allowed_providers, {} for any
    Quotas,             \* the quotas SetQuota is called with
    Estimates, Actuals, \* token counts, estimated and reported by a provider
    BlockOnDetect,
    Minute, Day,        \* the two windows, in ticks
    MaxTime, MaxRequests, MaxAdmin

ASSUME GatewayAssumption ==
    /\ Allowed \subseteq Providers /\ BlockOnDetect \in BOOLEAN
    /\ Quotas \subseteq [rpm : Nat, tpd : Nat]
    /\ Estimates \subseteq Nat /\ Actuals \subseteq Nat
    /\ {Minute, Day} \subseteq Nat \ {0} /\ {MaxTime, MaxRequests, MaxAdmin} \subseteq Nat

VARIABLES
    now,
    quotas,         \* QuotaManager.quotas, a function on the tenants that have one
    reqWin, tokWin, \* QuotaManager's windows, functions on the tenants that have one
    keys,           \* MemKeyVault.keys, as pairs of a tenant and a provider
    usage,          \* UsageTracker.byTenant
    handler,        \* what each goroutine does
    request,        \* the requests so far: tenant, provider, estimate and what became of them
    admin           \* calls of SetQuota, SetKey and DeleteKey

quotaVars == <<quotas, reqWin, tokWin>>
vars == <<now, quotaVars, keys, usage, handler, request, admin>>

Idle == [stage |-> "idle", id |-> 0]
Ids == 1..Len(request)

\* m with k bound to v
With(m, k, v) == [x \in DOMAIN m \cup {k} |-> IF x = k THEN v ELSE m[x]]

Init ==
    /\ now = 0
    /\ quotas = <<>> /\ reqWin = <<>> /\ tokWin = <<>>
    /\ keys = {}
    /\ usage = [t \in Tenants |-> [requests |-> 0, tokens |-> 0]]
    /\ handler = [h \in Handlers |-> Idle]
    /\ request = <<>>
    /\ admin = 0

Clock ==
    /\ now < MaxTime
    /\ now' = now + 1
    /\ UNCHANGED <<quotaVars, keys, usage, handler, request, admin>>
----------------------------------------------------------------------------
(* Administration *)

Administer == admin < MaxAdmin /\ admin' = admin + 1 /\ UNCHANGED <<now, reqWin, tokWin, usage, handler, request>>

SetQuota(t, q) ==
    /\ Administer
    /\ quotas' = With(quotas, t, q)
    /\ UNCHANGED keys

SetKey(t, p) ==
    /\ Administer
    /\ keys' = keys \cup {<<t, p>>}
    /\ UNCHANGED quotas

DeleteKey(t, p) ==
    /\ Administer
    /\ keys' = keys \ {<<t, p>>}
    /\ UNCHANGED quotas
----------------------------------------------------------------------------
(* QuotaManager.Allow *)

RateLimited(t)  == t \in DOMAIN quotas /\ quotas[t].rpm > 0
TokenLimited(t) == t \in DOMAIN quotas /\ quotas[t].tpd > 0

\* The window a call at this moment counts in: a new one when there is none or
\* its time is over
Current(win, t, length) ==
    IF t \in DOMAIN win /\ now - win[t].start < length THEN win[t] ELSE [start |-> now, count |-> 0]

RateExceeded(t) == RateLimited(t) /\ Current(reqWin, t, Minute).count >= quotas[t].rpm

TokensExceeded(t, e) == TokenLimited(t) /\ Current(tokWin, t, Day).count + e > quotas[t].tpd

\* (mutant) the request is not counted
ReserveRateUncounted(t, n) ==
    reqWin' = IF RateLimited(t) THEN With(reqWin, t, Current(reqWin, t, Minute)) ELSE reqWin

\* The windows after the call: opened even when the call is refused, counted
\* only when it is not; a refusal for the rate comes before the token window
ReserveRate(t, n) ==
    reqWin' = IF RateLimited(t)
              THEN With(reqWin, t, [Current(reqWin, t, Minute) EXCEPT !.count = @ + n]) ELSE reqWin

ReserveTokens(t, e) ==
    tokWin' = IF TokenLimited(t)
              THEN With(tokWin, t, [Current(tokWin, t, Day) EXCEPT !.count = @ + e]) ELSE tokWin
----------------------------------------------------------------------------
(* ServeHTTP *)

\* A request with the outcome its event tells; limited when it was admitted
\* under a rate limit, window the token window its reservation is in, if any
NoWindow == -1
Request(t, p, e, outcome, limited, window) ==
    [tenant |-> t, provider |-> p, est |-> e, at |-> now, outcome |-> outcome,
     limited |-> limited, window |-> window, actual |-> 0, settled |-> NoWindow]

Arrive(h, r) ==
    /\ handler[h] = Idle /\ Len(request) < MaxRequests
    /\ request' = Append(request, r)
    /\ UNCHANGED <<now, quotas, keys, usage, admin>>

NotAllowed(p) == Allowed # {} /\ p \notin Allowed

\* Refused by the allowlist
RefuseProvider(h, t, p, e) ==
    /\ NotAllowed(p)
    /\ Arrive(h, Request(t, p, e, "blocked", FALSE, NoWindow))
    /\ UNCHANGED <<reqWin, tokWin, handler>>

\* Refused by the quota: nothing is reserved, yet the windows may have turned
RefuseQuota(h, t, p, e) ==
    /\ ~NotAllowed(p)
    /\ RateExceeded(t) \/ TokensExceeded(t, e)
    /\ Arrive(h, Request(t, p, e, "blocked", FALSE, NoWindow))
    /\ ReserveRate(t, 0)
    /\ IF RateExceeded(t) THEN UNCHANGED tokWin ELSE ReserveTokens(t, 0)
    /\ UNCHANGED handler

Admit(h, t, p, e) ==
    /\ ~NotAllowed(p)
    /\ ~RateExceeded(t) /\ ~TokensExceeded(t, e)
    /\ Arrive(h, Request(t, p, e, "open", RateLimited(t),
                         IF TokenLimited(t) THEN Current(tokWin, t, Day).start ELSE NoWindow))
    /\ ReserveRate(t, 1) /\ ReserveTokens(t, e)
    /\ handler' = [handler EXCEPT ![h] = [stage |-> "forward", id |-> Len(request) + 1]]

\* The request ends with an event; nothing takes the reservation back
Finish(h, outcome) ==
    /\ request' = [request EXCEPT ![handler[h].id].outcome = outcome]
    /\ handler' = [handler EXCEPT ![h] = Idle]

\* Some guard may say Block to any text; that counts only under BlockOnDetect
GuardBlocks == BlockOnDetect

InspectBlocked(h) ==
    /\ handler[h].stage = "forward" /\ GuardBlocks
    /\ Finish(h, "blocked")
    /\ UNCHANGED <<now, quotaVars, keys, usage, admin>>

\* GetKey: the vault has a key of the tenant for the provider
GetKey(t, p) == <<t, p>> \in keys

\* The guards let it pass, or BlockOnDetect is off.  Forward looks up the key of
\* the tenant and fails without one
Forward(h) ==
    LET r == request[handler[h].id] IN
    /\ handler[h].stage = "forward"
    /\ IF GetKey(r.tenant, r.provider)
       THEN handler' = [handler EXCEPT ![h].stage = "wait"] /\ UNCHANGED request
       ELSE Finish(h, "error")
    /\ UNCHANGED <<now, quotaVars, keys, usage, admin>>

\* The provider cannot be reached, or its answer not be read or translated
ForwardFails(h) ==
    /\ handler[h].stage = "wait"
    /\ Finish(h, "error")
    /\ UNCHANGED <<now, quotaVars, keys, usage, admin>>

OutputBlocked(h) ==
    /\ handler[h].stage = "wait" /\ GuardBlocks
    /\ Finish(h, "blocked")
    /\ UNCHANGED <<now, quotaVars, keys, usage, admin>>

\* parseResponseUsage: an answer with no usage counts for the estimate
NoUsage == -1
Metered(r, a) == IF a = NoUsage THEN r.est ELSE a

\* (mutant) the estimate is recorded, not what the provider reports
RecordEstimate(h, a) ==
    LET r == request[handler[h].id] IN
    /\ handler[h].stage = "wait"
    /\ usage' = [usage EXCEPT ![r.tenant] = [requests |-> @.requests + 1, tokens |-> @.tokens + r.est]]
    /\ request' = [request EXCEPT ![handler[h].id].actual = Metered(r, a)]
    /\ handler' = [handler EXCEPT ![h].stage = "settle"]
    /\ UNCHANGED <<now, quotaVars, keys, admin>>

\* UsageTracker.Record
Record(h, a) ==
    LET r == request[handler[h].id] IN
    /\ handler[h].stage = "wait"
    /\ usage' = [usage EXCEPT ![r.tenant] = [requests |-> @.requests + 1, tokens |-> @.tokens + Metered(r, a)]]
    /\ request' = [request EXCEPT ![handler[h].id].actual = Metered(r, a)]
    /\ handler' = [handler EXCEPT ![h].stage = "settle"]
    /\ UNCHANGED <<now, quotaVars, keys, admin>>

Clamped(n) == IF n < 0 THEN 0 ELSE n

\* (mutant) the actual count is added and the estimate stays
SettledTwice(r) == tokWin[r.tenant].count + r.actual

Settled(r) == Clamped(tokWin[r.tenant].count + r.actual - r.est)

\* QuotaManager.SettleTokens, on whatever window the tenant has by now, expired
\* or newer than the reservation; then the event, and the answer is relayed
SettleTokens(h) ==
    LET id == handler[h].id
        r  == request[id] IN
    /\ handler[h].stage = "settle"
    /\ IF r.tenant \in DOMAIN tokWin
       THEN /\ tokWin' = [tokWin EXCEPT ![r.tenant].count = Settled(r)]
            /\ request' = [request EXCEPT ![id].outcome = "allowed", ![id].settled = tokWin[r.tenant].start]
       ELSE /\ request' = [request EXCEPT ![id].outcome = "allowed"]
            /\ UNCHANGED tokWin
    /\ handler' = [handler EXCEPT ![h] = Idle]
    /\ UNCHANGED <<now, quotas, reqWin, keys, usage, admin>>

Serve(h) ==
    \/ \E t \in Tenants, p \in Providers, e \in Estimates :
        RefuseProvider(h, t, p, e) \/ RefuseQuota(h, t, p, e) \/ Admit(h, t, p, e)
    \/ InspectBlocked(h) \/ Forward(h) \/ ForwardFails(h) \/ OutputBlocked(h)
    \/ \E a \in Actuals \cup {NoUsage} : Record(h, a)
    \/ SettleTokens(h)

Next ==
    \/ Clock
    \/ \E t \in Tenants, q \in Quotas : SetQuota(t, q)
    \/ \E t \in Tenants, p \in Providers : SetKey(t, p) \/ DeleteKey(t, p)
    \/ \E h \in Handlers : Serve(h)

Spec == Init /\ [][Next]_vars
----------------------------------------------------------------------------
(* Properties *)

Windows == [start : 0..now, count : Nat]
Outcomes == {"open", "allowed", "blocked", "error"}

\* Types of the state: the windows' counts are natural numbers, whatever is
\* settled in them.
TypeOK ==
    /\ now \in Nat /\ admin \in 0..MaxAdmin
    /\ \A t \in DOMAIN quotas : t \in Tenants /\ quotas[t] \in Quotas
    /\ \A t \in DOMAIN reqWin : t \in Tenants /\ reqWin[t] \in Windows
    /\ \A t \in DOMAIN tokWin : t \in Tenants /\ tokWin[t] \in Windows
    /\ keys \subseteq Tenants \X Providers
    /\ usage \in [Tenants -> [requests : Nat, tokens : Nat]]
    /\ \A h \in Handlers :
        \/ handler[h] = Idle
        \/ handler[h].stage \in {"forward", "wait", "settle"} /\ handler[h].id \in Ids
    /\ \A i \in Ids : request[i].outcome \in Outcomes /\ request[i].actual \in Nat

MaxRate == Max({q.rpm : q \in Quotas})

\* Of the requests of a tenant that the rate limit let pass, no stretch shorter
\* than a minute holds more than twice the limit: the windows of Allow are
\* fixed and not sliding, and two of them can meet in a minute but not three.
RateBound ==
    \A t \in Tenants, from \in 0..now :
        Cardinality({i \in Ids : /\ request[i].tenant = t /\ request[i].limited
                                 /\ request[i].at \in from..(from + Minute - 1)}) <= 2 * MaxRate

\* Every settlement so far met the window its reservation was made in
SettledAtHome(t) ==
    \A i \in Ids : request[i].tenant = t /\ request[i].outcome = "allowed"
                    => request[i].settled = request[i].window

\* What a reservation amounts to: settled requests count for their tokens, all
\* others, also those that were blocked or failed after Allow, for the estimate
Reserved(i) == IF request[i].outcome = "allowed" THEN request[i].actual ELSE request[i].est

InWindow(t) == {i \in Ids : request[i].tenant = t /\ request[i].window = tokWin[t].start}

\* "SettleTokens reconciles a reservation with the actual token count": as long
\* as every settlement met the window of its reservation, a tenant's token
\* count is exactly the sum of what its requests of that window amount to,
\* whatever the order in which they are admitted, fail and settle.  No count
\* falls below zero (TypeOK).
LedgerExact ==
    /\ TypeOK
    /\ \A t \in DOMAIN tokWin :
        SettledAtHome(t) => tokWin[t].count = MapThenSumSet(Reserved, InWindow(t))

\* The requests answered and relayed, and those about to be
Relayed(t) ==
    {i \in Ids : /\ request[i].tenant = t
                 /\ request[i].outcome = "allowed" \/ \E h \in Handlers : handler[h] = [stage |-> "settle", id |-> i]}

\* UsageTracker counts exactly the requests whose answer is relayed, with the
\* tokens that were reported; never one that failed or was blocked on its way
\* out, and none twice.
MeteringExact ==
    \A t \in Tenants :
        /\ usage[t].requests = Cardinality(Relayed(t))
        /\ usage[t].tokens = MapThenSumSet(LAMBDA i : request[i].actual, Relayed(t))
============================================================================

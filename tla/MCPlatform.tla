----------------------------- MODULE MCPlatform -----------------------------
(***************************************************************************)
(* Small instances of what stands between the operator and the agent, for     *)
(* model checking: the identities of the control plane (Platform), sessions   *)
(* and permissions (Sessions), the request limiter in front of the handlers   *)
(* (RateLimiter), and the runs of the process itself (Startup).  They share   *)
(* no state, so a behaviour is one of the component in focus, and the others  *)
(* stay in a state of theirs.  The focus "guard" is Platform again, with      *)
(* password logins of the administrator only, for long enough that windows    *)
(* and lockouts end; time matters to nothing else in Platform, and stands     *)
(* still in the focus "identities".                                          *)
(***************************************************************************)
EXTENDS Platform, TLC

CONSTANTS Tenants, Users, Home, RoleSets, Logins, TTL, MaxTokens, MaxEdits, MaxReboots,
          Clients, Refill, Cost, Burst, IdleAfter, GCEvery,
          GuardTime, GuardRequests,     \* for the focus "guard"
          Interfaces, Listed, MaxStarts, MaxFaults

VARIABLES focus,
    accounts, snapshot, tokens, signing, secretSet, login, made, edits, reboots, access, since,
    buckets, gcAge, spent,
    opts, kernel, at, todo, objs, configured, hooked, trusted, tcx, filters, pins, tcInterfaces,
    gate, blocked, told, runs, faults, warned, exit

Guard   == INSTANCE Platform WITH Emails <- {Admin}, MaxTime <- GuardTime, MaxRequests <- GuardRequests, MaxKeys <- 0
Session == INSTANCE Sessions
Limiter == INSTANCE RateLimiter
Process == INSTANCE Startup WITH starts <- runs

sessionVars == <<accounts, snapshot, tokens, signing, secretSet, login, made, edits, reboots, access, since>>
limiterVars == <<buckets, gcAge, spent>>
processVars == <<opts, kernel, at, todo, objs, configured, hooked, trusted, tcx, filters, pins, tcInterfaces,
                 gate, blocked, told, runs, faults, warned, exit>>

\* The process has ended for the last time
ProcessOver ==
    /\ opts = CHOOSE o \in Process!Options : TRUE
    /\ kernel = [loads |-> FALSE, bpflsm |-> FALSE, tcx |-> FALSE]
    /\ at = "off" /\ todo = {} /\ objs = {} /\ runs = MaxStarts /\ faults = 0 /\ warned = {} /\ exit = "killed"
    /\ configured = FALSE /\ hooked = FALSE /\ trusted = FALSE /\ tcInterfaces = {}
    /\ gate = FALSE /\ blocked = {} /\ told = 0
    /\ tcx = [i \in Interfaces |-> {}] /\ filters = [i \in Interfaces |-> Process!NoFilter]
    /\ pins = [i \in Interfaces |-> {}]

MCInit ==
    /\ focus \in {"identities", "guard", "sessions", "limiter", "process"}
    /\ Init /\ Session!SessionsInit /\ Limiter!LimiterInit
    /\ focus # "sessions" => secretSet = FALSE
    /\ IF focus = "process" THEN Process!StartupInit ELSE ProcessOver

GuardNext ==
    \/ Guard!Clock \/ Guard!BootstrapAdmin(TRUE)
    \/ \E h \in Handlers : Guard!LoginCheck(h) \/ \E c \in Guard!Credentials : Guard!LoginAdmit(h, c)

MCNext ==
    \/ focus = "guard" /\ GuardNext /\ UNCHANGED <<focus, sessionVars, limiterVars, processVars>>
    \/ focus = "identities" /\ Next /\ UNCHANGED <<focus, now, sessionVars, limiterVars, processVars>>
    \/ focus = "sessions" /\ Session!SessionsNext /\ UNCHANGED <<focus, vars, limiterVars, processVars>>
    \/ focus = "limiter" /\ Limiter!LimiterNext /\ UNCHANGED <<focus, vars, sessionVars, processVars>>
    \/ focus = "process" /\ Process!StartupNext /\ UNCHANGED <<focus, vars, sessionVars, limiterVars>>

MCSpec == MCInit /\ [][MCNext]_<<focus, vars, sessionVars, limiterVars, processVars>>

HandlerSymmetry == Permutations(Handlers)
-----------------------------------------------------------------------------
\* Sessions: authority outlives its grant by less than the token's lifetime.
AuthorityBound == Session!AuthorityBound

\* RateLimiter: a client can spend the burst less what it still owes, always.
BucketExact == Limiter!BucketExact

\* Startup: an active agent protects as asked, or has warned that it does not.
NeverSilentlyUnprotected == Process!NeverSilentlyUnprotected

\* Startup: filters and pins of dead runs do not pile up or stay.
NoLeftovers == Process!NoLeftovers
=============================================================================

------------------------------ MODULE Startup ------------------------------
(***************************************************************************)
(* A run of the agent from its first step to its last (run in                 *)
(* cmd/neurosentry/main.go): the eBPF objects are loaded, the kernel is       *)
(* assessed, hooks and filters are attached (pkg/bpf), the sandbox is applied *)
(* and the controller started; then a signal, a fatal error or a crash ends   *)
(* the run, and the agent is started again on what it left in the kernel.     *)
(*                                                                         *)
(* External: what the kernel does with a process's links when it is gone      *)
(* (drops them) and with tc filters and pins (keeps them).                    *)
(***************************************************************************)
EXTENDS Integers, Sequences, FiniteSets

CONSTANTS
    Interfaces,     \* the interfaces to attach to
    Listed,         \* the destinations of blocked_ips
    MaxStarts,      \* bound on starts of the agent
    MaxFaults       \* bound on steps that fail

VARIABLES
    opts,           \* configuration and flags
    kernel,         \* what the kernel can do
    at,             \* the step the run is at, off between runs
    todo,           \* interfaces AttachTC has still to visit
    objs,           \* objects loaded: lsm, tc, uprobe
    configured,     \* initLSMConfig went through
    hooked, trusted,        \* file_open hook attached, agent trusted
    tcx,            \* directions with a TCX link, per interface
    filters,        \* directions with a tc filter, per interface: the run that added it, or 0
    pins,           \* directions with a pinned program, per interface
    tcInterfaces,   \* Manager.tcInterfaces
    gate,           \* network enforcement gate
    blocked,        \* destinations in the map blocked_ips
    told,           \* how many the log says are dropped
    starts, faults, \* counters
    warned,         \* what this run has warned of
    exit            \* how the last run ended

setupVars  == <<opts, kernel>>
lsmVars    == <<configured, hooked, trusted>>
tcVars     == <<tcx, filters, pins, tcInterfaces>>
netVars    == <<gate, blocked, told>>
startupVars == <<setupVars, at, todo, objs, lsmVars, tcVars, netVars, starts, faults, warned, exit>>

Dirs     == {"ingress", "egress"}
NoFilter == [d \in Dirs |-> 0]

\* An attempt that may fail: it is one of the failing steps, or it succeeds
Attempt(ok) == IF ok THEN UNCHANGED faults ELSE faults < MaxFaults /\ faults' = faults + 1

Options ==
    {o \in [fim : BOOLEAN, enforce : BOOLEAN, net : BOOLEAN, block : BOOLEAN,
            skipBPF : BOOLEAN, allowDegraded : BOOLEAN] :
        (o.enforce => o.fim) /\ (o.block => o.net)}

StartupInit ==
    /\ opts \in Options
    /\ kernel \in [loads : BOOLEAN, bpflsm : BOOLEAN, tcx : BOOLEAN]
    /\ at = "off" /\ todo = {} /\ objs = {}
    /\ configured = FALSE /\ hooked = FALSE /\ trusted = FALSE /\ gate = FALSE
    /\ tcx = [i \in Interfaces |-> {}] /\ filters = [i \in Interfaces |-> NoFilter] /\ pins = [i \in Interfaces |-> {}]
    /\ tcInterfaces = {} /\ blocked = {} /\ told = 0
    /\ starts = 0 /\ faults = 0 /\ warned = {} /\ exit = "none"

\* Configuration and policy were read
Run ==
    /\ at = "off" /\ starts < MaxStarts
    /\ starts' = starts + 1
    /\ at' = "load" /\ warned' = {} /\ exit' = "none"
    /\ UNCHANGED <<setupVars, todo, objs, lsmVars, tcVars, netVars, faults>>

\* The process is gone; its objects and links go with it
Gone(how) ==
    /\ at' = "off" /\ exit' = how
    /\ objs' = {} /\ configured' = FALSE /\ hooked' = FALSE /\ trusted' = FALSE /\ todo' = {}
    /\ gate' = FALSE /\ blocked' = {} /\ told' = 0
    /\ tcx' = [i \in Interfaces |-> {}] /\ tcInterfaces' = {}
    /\ UNCHANGED <<setupVars, starts, warned>>

----------------------------------------------------------------------------
(* Load, Assess, AttachLSM *)

\* loadLSM, initLSMConfig, loadTC, loadUprobes (pickle protection or PyTorch
\* observability is on): the first that fails is the last
Stages == (IF opts.fim THEN <<"lsm", "config">> ELSE <<>>) \o (IF opts.net THEN <<"tc">> ELSE <<>>) \o <<"uprobe">>

Load ==
    /\ at = "load"
    /\ \E n \in 0..Len(Stages) :
        LET done == {Stages[k] : k \in 1..n}
        IN  /\ IF ~kernel.loads THEN n = 0 /\ UNCHANGED faults ELSE Attempt(n = Len(Stages))
            /\ objs' = done \ {"config"} /\ configured' = ("config" \in done)
            /\ warned' = IF n < Len(Stages) THEN warned \cup {"load"} ELSE warned
    /\ at' = "preflight"
    /\ UNCHANGED <<setupVars, todo, hooked, trusted, tcVars, netVars, starts, exit>>

\* (mutant) blocking is thought possible wherever the programs load
EnforceUnavailableIfUnloaded == opts.enforce /\ ~kernel.loads

\* Assess
EnforceUnavailable == opts.enforce /\ ~kernel.bpflsm

Preflight ==
    /\ at = "preflight"
    /\ opts.skipBPF \/ ~EnforceUnavailable \/ opts.allowDegraded
    /\ warned' = IF ~opts.skipBPF /\ EnforceUnavailable THEN warned \cup {"degraded"} ELSE warned
    /\ at' = "lsm"
    /\ UNCHANGED <<setupVars, todo, objs, lsmVars, tcVars, netVars, starts, faults, exit>>

\* "refusing to start unprotected"
Refuse ==
    /\ at = "preflight"
    /\ ~opts.skipBPF /\ EnforceUnavailable /\ ~opts.allowDegraded
    /\ Gone("refused")
    /\ UNCHANGED <<filters, pins, faults>>

\* The hook attaches even where the kernel will never call it
AttachLSM(ok) ==
    /\ at = "lsm"
    /\ IF ~opts.fim THEN ok /\ UNCHANGED <<hooked, warned, faults>>
       ELSE IF "lsm" \notin objs THEN ok /\ warned' = warned \cup {"lsm"} /\ UNCHANGED <<hooked, faults>>
       ELSE /\ Attempt(ok)
            /\ hooked' = ok
            /\ warned' = IF ok THEN warned ELSE warned \cup {"lsm"}
    /\ at' = IF hooked' THEN "trust" ELSE "tc"
    /\ UNCHANGED <<setupVars, todo, objs, configured, trusted, tcVars, netVars, starts, exit>>

\* So that the inventory scanner can read the models
AddTrustedPID(ok) ==
    /\ at = "trust" /\ at' = "tc"
    /\ Attempt(ok)
    /\ trusted' = ok
    /\ warned' = IF ok THEN warned ELSE warned \cup {"trust"}
    /\ UNCHANGED <<setupVars, todo, objs, configured, hooked, tcVars, netVars, starts, exit>>

----------------------------------------------------------------------------
(* AttachTC: interface after interface; one that fails is skipped. *)

AttachTC(found) ==
    /\ at = "tc"
    /\ Attempt(found)      \* the interfaces, when they are not configured by name
    /\ ~found => opts.net /\ "tc" \in objs
    /\ IF opts.net /\ "tc" \in objs /\ found THEN at' = "interfaces" /\ todo' = Interfaces /\ UNCHANGED warned
       ELSE /\ at' = "start" /\ UNCHANGED todo
            /\ warned' = IF opts.net THEN warned \cup {"tc"} ELSE warned
    /\ UNCHANGED <<setupVars, objs, lsmVars, tcVars, netVars, starts, exit>>

Visiting(i) ==
    /\ at = "interfaces" /\ i = CHOOSE x \in todo : TRUE
    /\ todo' = todo \ {i}
    /\ UNCHANGED <<setupVars, at, objs, lsmVars, netVars, starts, exit>>

\* The interface is not there
SkipInterface(i) ==
    /\ todo # {} /\ Visiting(i)
    /\ Attempt(FALSE)
    /\ warned' = warned \cup {i}
    /\ UNCHANGED tcVars

AttachTCX(i, egress) ==
    /\ todo # {} /\ Visiting(i)
    /\ kernel.tcx
    /\ Attempt(egress)
    /\ tcx' = [tcx EXCEPT ![i] = IF egress THEN Dirs ELSE {"ingress"}]
    /\ tcInterfaces' = tcInterfaces \cup {i}
    /\ warned' = IF egress THEN warned ELSE warned \cup {i}
    /\ UNCHANGED <<filters, pins>>

\* (mutant) both filters are added on the ingress side
AttachedIngress(i, n) == [d \in Dirs |-> IF n >= 4 /\ d = "ingress" THEN starts ELSE 0]

\* The filters after n of the five steps: clsact replaced (its filters go with the
\* old one), two programs pinned, two filters added
Attached(i, n) == [d \in Dirs |-> IF (n >= 4 /\ d = "ingress") \/ n = 5 THEN starts ELSE 0]

\* The pins that may be there: old ones are removed before new ones are made, and
\* a second one that fails takes the first along; one that cannot be removed stays
Pinned(i, n) ==
    CASE n = 0 -> {pins[i]}
      [] n = 1 -> SUBSET pins[i]
      [] n = 2 -> SUBSET (pins[i] \cup {"ingress"})
      [] n > 2 -> {Dirs}

\* The fallback when the TCX ingress link cannot be had; a clsact that cannot be
\* removed keeps its filters, and a new one cannot be added beside it
AttachTCLegacy(i, n) ==
    /\ todo # {} /\ Visiting(i)
    /\ Attempt(n = 5 /\ ~kernel.tcx)
    /\ \E kept \in BOOLEAN :
        /\ kept => n = 0
        /\ filters' = [filters EXCEPT ![i] = IF kept THEN @ ELSE Attached(i, n)]
    /\ \E P \in Pinned(i, n) : pins' = [pins EXCEPT ![i] = P]
    /\ tcInterfaces' = IF n = 5 THEN tcInterfaces \cup {i} ELSE tcInterfaces
    /\ warned' = IF n = 5 THEN warned ELSE warned \cup {i}
    /\ UNCHANGED tcx

\* The blocklist is seeded: a destination that is no IPv4 address, or that the map
\* refuses, is passed over without a warning, and counts for less in the log of the
\* gate that follows
SetNetworkEnforce(ok) ==
    /\ at = "interfaces" /\ todo = {}
    /\ Attempt(ok)
    /\ \E skipped \in SUBSET Listed : blocked' = Listed \ skipped
    /\ gate' = (ok /\ opts.block)
    /\ told' = IF ok THEN Cardinality(blocked') ELSE 0
    /\ warned' = IF ok THEN warned ELSE warned \cup {"gate"}
    /\ at' = "start"
    /\ UNCHANGED <<setupVars, todo, objs, lsmVars, tcVars, starts, exit>>

----------------------------------------------------------------------------
(* Sandbox, controller, and the end *)

\* AttachUprobes and the sandbox's Apply warn when they fail, and nothing here
\* depends on them; then NewController and Start
Start ==
    /\ at = "start" /\ at' = "active"
    /\ UNCHANGED <<setupVars, todo, objs, lsmVars, tcVars, netVars, starts, faults, warned, exit>>

\* log.Fatalf: Close is not called
StartFails ==
    /\ at = "start"
    /\ Attempt(FALSE) /\ Gone("fatal")
    /\ UNCHANGED <<filters, pins>>

\* A signal: Stop and Close run beside a timer of 30 seconds
Signal ==
    /\ at = "active" /\ at' = "stopping"
    /\ UNCHANGED <<setupVars, todo, objs, lsmVars, tcVars, netVars, starts, faults, warned, exit>>

\* The links, then the filters and pins of the interfaces recorded
Close(ok) ==
    /\ at = "stopping"
    /\ Attempt(ok)
    /\ \E F \in SUBSET (tcInterfaces \X Dirs) : \E P \in SUBSET (tcInterfaces \X Dirs) :   \* a removal that fails is only logged
        /\ ok => F = tcInterfaces \X Dirs /\ P = F
        /\ filters' = [i \in Interfaces |-> [d \in Dirs |-> IF <<i, d>> \in F THEN 0 ELSE filters[i][d]]]
        /\ pins'    = [i \in Interfaces |-> {d \in pins[i] : <<i, d>> \notin P}]
    /\ Gone(IF ok THEN "closed" ELSE "untidy")

\* The timer is first, or the process is killed (before AttachTC it leaves nothing)
Killed ==
    /\ at \notin {"off", "load", "preflight", "lsm", "trust", "tc"}
    /\ Attempt(FALSE) /\ Gone("killed")
    /\ UNCHANGED <<filters, pins>>

StartupNext ==
    \/ Run \/ Load \/ Preflight \/ Refuse \/ Start \/ StartFails \/ Signal \/ Killed
    \/ \E ok \in BOOLEAN : AttachLSM(ok) \/ AddTrustedPID(ok) \/ AttachTC(ok) \/ SetNetworkEnforce(ok) \/ Close(ok)
    \/ \E i \in Interfaces : \/ SkipInterface(i)
                             \/ \E egress \in BOOLEAN : AttachTCX(i, egress)
                             \/ \E n \in 0..5 : AttachTCLegacy(i, n)

StartupSpec == StartupInit /\ [][StartupNext]_startupVars
----------------------------------------------------------------------------
(* Properties *)

Blocking    == hooked /\ configured /\ kernel.bpflsm
\* What the program on interface i does to egress to d (the gate and the map, neurosentry_tc.c)
Dropping(i, d) == gate /\ d \in blocked /\ ("egress" \in tcx[i] \/ filters[i]["egress"] = starts)

\* The operator never believes "model files are blocked when they are only being
\* observed" (main.go:126-129), whichever step fails and however often the agent
\* was started before: unless --skip-bpf was given, an active agent asked to
\* block model reads either blocks them (all but its own, which its inventory
\* needs) or has warned of the step that failed or of a degraded kernel; and one
\* asked to drop egress to the blocked destinations does so for each of them on
\* every interface, or has warned of that interface or of the step that failed,
\* or its log counts fewer destinations than are configured (main.go:185), which
\* is all it says of those it passed over.
NeverSilentlyUnprotected ==
    at = "active" /\ ~opts.skipBPF =>
        /\ opts.enforce => (Blocking /\ trusted) \/ warned \cap {"load", "lsm", "trust", "degraded"} # {}
        /\ opts.block =>
              \A i \in Interfaces, d \in Listed :
                  \/ Dropping(i, d)
                  \/ warned \cap {"load", "tc", "gate", i} # {}
                  \/ told < Cardinality(Listed)

\* What a killed or failed run left on an interface does not outlive the next
\* run that attaches to it: while the agent is active an interface it attached
\* by tc carries its own two filters and no older one (bpf.go:309-349), and
\* after Close no interface it attached to has a filter or a pin left, whoever
\* put it there (bpf.go:862-888).
NoLeftovers ==
    /\ at = "active" => \A i \in tcInterfaces : tcx[i] = {} => filters[i] = [d \in Dirs |-> starts]
    /\ exit = "closed" /\ opts.net =>
          \A i \in Interfaces : i \notin warned /\ warned \cap {"load", "tc"} = {} => filters[i] = NoFilter /\ pins[i] = {}
============================================================================

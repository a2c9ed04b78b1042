---------------------------- MODULE Enforcement ----------------------------
(***************************************************************************)
(* The kernel maps that decide what is enforced, and everybody who writes   *)
(* them while they are read: the LSM hook on file_open and the TC egress     *)
(* program (pkg/bpf/neurosentry_lsm.c, neurosentry_tc.c), the operator's and *)
(* the circuit breaker's responses (pkg/agent/controller.go,                 *)
(* pkg/breaker/breaker.go), the pruner of dead trusted PIDs, and the reload  *)
(* on SIGHUP (pkg/bpf/bpf.go, cmd/neurosentry/main.go).                      *)
(*                                                                         *)
(* A map operation is atomic, and may fail; what takes several of them takes *)
(* several steps, and goes on after a failure.  A PID names one process at a time: live[p] is the number of the   *)
(* process that has it, 0 when there is none.                                *)
(***************************************************************************)
EXTENDS Integers, FiniteSets

CONSTANTS
    Agent,          \* the PID of the agent itself
    Others,         \* the other PIDs
    Exts, Ips,      \* file extensions and destinations
    Malformed,      \* the extensions that extensionMapKey has no key for
    ExtRoom,        \* max_entries of protected_extensions
    Configs,        \* the configurations a reload may find
    Handlers,       \* goroutines that handle findings
    Cooldown,       \* Policy.CooldownSecs
    MaxTime,        \* bound on the clock
    MaxSpawns,      \* bound on new processes
    MaxFindings,    \* bound on findings
    MaxOps,         \* bound on operator requests
    MaxReloads,     \* bound on SIGHUPs
    MaxFaults       \* bound on map operations that fail

Pids == {Agent} \cup Others

ASSUME EnforcementAssumption ==
    /\ Agent \notin Others /\ Malformed \subseteq Exts
    /\ \A c \in Configs : /\ c.exts \subseteq Exts /\ c.pids \subseteq Others /\ c.ips \subseteq Ips
                          /\ {c.enforce, c.block} \subseteq BOOLEAN
    /\ {Cooldown, MaxTime, MaxSpawns, MaxFindings, MaxOps, MaxReloads, MaxFaults, ExtRoom} \subseteq Nat

VARIABLES
    now,
    live, spawns,   \* the process of each PID; processes started so far
    trusted,        \* the map trusted_pids
    protected,      \* the map protected_extensions
    blocked,        \* the map blocked_ips
    enforce_mode,   \* the gate of the LSM hook, in the map config_map
    ns_tc_cfg,      \* the gate of the egress program
    config,         \* the configuration in force
    armed,          \* Policy.Enabled
    lastTrip,       \* Breaker.lastTrip: time of the last trip, -1 when none
    handler,        \* the PID each goroutine is about to untrust, 0 when none
    toCheck, dead,  \* the pruner: its snapshot of the keys; the key it found dead
    reload,         \* the stage of reloadConfig
    toProtect,      \* the extensions it has yet to put
    findings, ops, reloads, faults,
    grantedIn,      \* the number of reloads before each entry of trusted_pids was put
    confirmed,      \* destinations blocked to the caller's knowledge: AddBlockedIP returned no error
    warned,         \* what the log has warned of since the configuration was read
    unanswered      \* PIDs of trips whose response failed, which the log says too

procVars   == <<live, spawns>>
mapVars    == <<trusted, protected, blocked>>
gateVars   == <<enforce_mode, ns_tc_cfg>>
pruneVars  == <<toCheck, dead>>
brkVars    == <<armed, lastTrip, handler, findings, unanswered>>
reloadVars == <<config, reload, toProtect, reloads, warned>>
opVars     == <<ops, confirmed, gateVars>>
vars == <<now, procVars, mapVars, pruneVars, brkVars, reloadVars, grantedIn, opVars, faults>>

Idle == 0

\* A map operation that fails
Fault == faults < MaxFaults /\ faults' = faults + 1

\* enforce_mode, which nothing changes later, and the protected extensions.  One
\* without a key is skipped with a warning; one that does not go in fails the
\* attachment of the hook, and then there is nothing to model here.
initLSMConfig(c) ==
    /\ enforce_mode = c.enforce
    /\ protected = c.exts \ Malformed /\ Cardinality(protected) <= ExtRoom
    /\ warned = c.exts \cap Malformed

\* run seeds the blocklist and sets its gate, once and for all too.  A
\* destination that does not parse or go in is skipped, and nothing is said.
seedBlocklist(c) == blocked \in SUBSET c.ips /\ confirmed = blocked /\ ns_tc_cfg = c.block

\* The trusted PIDs, next to the agent's, which run put
applyPolicy(c) == trusted = {Agent} \cup c.pids

Init ==
    /\ now = 0
    /\ live = [p \in Pids |-> IF p = Agent THEN 1 ELSE 0] /\ spawns = 1
    /\ config \in Configs
    /\ initLSMConfig(config) /\ seedBlocklist(config) /\ applyPolicy(config)
    /\ armed \in BOOLEAN
    /\ lastTrip = [p \in Pids |-> -1] /\ handler = [h \in Handlers |-> Idle]
    /\ toCheck = {} /\ dead = Idle
    /\ reload = "idle" /\ toProtect = {}
    /\ findings = 0 /\ ops = 0 /\ reloads = 0 /\ faults = 0
    /\ unanswered = {}
    /\ grantedIn = [p \in Pids |-> 0]

\* AddTrustedPID: for whatever process has the PID, alive or not
Trust(ps) ==
    /\ trusted' = trusted \cup ps
    /\ grantedIn' = [p \in Pids |-> IF p \in ps THEN reloads ELSE grantedIn[p]]

\* RemoveTrustedPID: removing an absent key is a success
Untrust(p) == trusted' = trusted \ {p} /\ UNCHANGED <<grantedIn, faults>>

\* AddProtectedExtension puts e, or returns an error
Fits(e) == e \notin Malformed /\ (e \in protected \/ Cardinality(protected) < ExtRoom)
Refused(e) == (~Fits(e) /\ UNCHANGED faults) \/ Fault

----------------------------------------------------------------------------
(* The world: time, processes, what the hooks decide *)

Clock ==
    /\ now < MaxTime
    /\ now' = now + 1
    /\ UNCHANGED <<procVars, mapVars, pruneVars, brkVars, reloadVars, grantedIn, opVars, faults>>

\* A process starts under a PID nobody has
Spawn(p) ==
    /\ live[p] = 0 /\ spawns <= MaxSpawns
    /\ spawns' = spawns + 1
    /\ live' = [live EXCEPT ![p] = spawns + 1]
    /\ UNCHANGED <<now, mapVars, pruneVars, brkVars, reloadVars, grantedIn, opVars, faults>>

Exit(p) ==
    /\ p # Agent /\ live[p] # 0
    /\ live' = [live EXCEPT ![p] = 0]
    /\ UNCHANGED <<now, spawns, mapVars, pruneVars, brkVars, reloadVars, grantedIn, opVars, faults>>

\* restrict_model_file_access: a trusted PID first, then the extension, a miss
\* of either lookup allows; then the gate, without which it only reports
Verdict(p, e) == IF p \notin trusted /\ e \in protected /\ enforce_mode THEN "EPERM" ELSE "allow"

\* neurosentry_tc_egress: without its gate it only reports
EgressVerdict(i) == IF i \in blocked /\ ns_tc_cfg THEN "TC_ACT_SHOT" ELSE "TC_ACT_OK"

----------------------------------------------------------------------------
(* handleResponse: the operator's responses; SetArmed *)

Operator ==
    /\ ops < MaxOps
    /\ ops' = ops + 1
    /\ UNCHANGED <<now, procVars, gateVars, pruneVars, lastTrip, handler, findings, unanswered,
                   reloadVars>>

\* executeResponse, trust_pid and untrust_pid
TrustPid(p) ==
    /\ Operator /\ Trust({p})
    /\ UNCHANGED <<protected, blocked, armed, confirmed, faults>>

UntrustPid(p) ==
    /\ Operator /\ Untrust(p)
    /\ UNCHANGED <<protected, blocked, armed, confirmed>>

\* executeResponse, protect_extension
ProtectExtension(e) ==
    /\ Operator /\ Fits(e) /\ protected' = protected \cup {e}
    /\ UNCHANGED <<trusted, blocked, armed, grantedIn, confirmed, faults>>

\* executeResponse, block_destination and unblock_destination
BlockDestination(i) ==
    /\ Operator /\ blocked' = blocked \cup {i} /\ confirmed' = confirmed \cup {i}
    /\ UNCHANGED <<trusted, protected, armed, grantedIn, faults>>

UnblockDestination(i) ==
    /\ Operator /\ blocked' = blocked \ {i} /\ confirmed' = confirmed \ {i}
    /\ UNCHANGED <<trusted, protected, armed, grantedIn, faults>>

\* executeResponse returns an error, of a parameter or of the map
ResponseRefused ==
    /\ Operator
    /\ UNCHANGED <<mapVars, armed, grantedIn, confirmed, faults>>

\* SetArmed
SetArmed ==
    /\ Operator /\ armed' = ~armed
    /\ UNCHANGED <<mapVars, grantedIn, confirmed, faults>>

----------------------------------------------------------------------------
(* The breaker on a finding: Evaluate under its mutex, then executeResponse *)

\* The cooldown of "pid:action"
CooledDown(p) == lastTrip[p] = -1 \/ now - lastTrip[p] >= Cooldown

\* handleCorrelationFinding: Evaluate; a trip is recorded before it is acted on
Finding(h, p, critical) ==
    /\ handler[h] = Idle /\ live[p] # 0 /\ findings < MaxFindings
    /\ findings' = findings + 1
    /\ IF armed /\ critical /\ CooledDown(p)
       THEN /\ lastTrip' = [lastTrip EXCEPT ![p] = now]
            /\ handler' = [handler EXCEPT ![h] = p]
       ELSE UNCHANGED <<lastTrip, handler>>
    /\ UNCHANGED <<now, procVars, mapVars, pruneVars, armed, unanswered, reloadVars, grantedIn,
                   opVars, faults>>

Answer(h) ==
    /\ handler[h] # Idle
    /\ handler' = [handler EXCEPT ![h] = Idle]
    /\ UNCHANGED <<now, procVars, protected, blocked, pruneVars, armed, lastTrip, findings,
                   reloadVars, opVars>>

\* (mutant) the response is dropped when the breaker was disarmed meanwhile
RespondIfArmed(h) ==
    /\ Answer(h)
    /\ IF armed THEN Untrust(handler[h]) ELSE UNCHANGED <<trusted, grantedIn, faults>>
    /\ unanswered' = unanswered \ {handler[h]}

\* executeResponse, untrust_pid.  An error is put on the audit chain and logged;
\* the trip stays recorded, so that the cooldown holds up the next attempt.
Respond(h) ==
    /\ Answer(h)
    /\ \/ Untrust(handler[h]) /\ unanswered' = unanswered \ {handler[h]}
       \/ Fault /\ unanswered' = unanswered \cup {handler[h]} /\ UNCHANGED <<trusted, grantedIn>>

----------------------------------------------------------------------------
(* PruneDeadTrustedPIDs: the keys, then a stat and a delete for each *)

Prune == UNCHANGED <<now, procVars, protected, blocked, brkVars, reloadVars, opVars>>

PruneSnapshot ==
    /\ toCheck = {} /\ dead = Idle
    /\ toCheck' = trusted
    /\ Prune /\ UNCHANGED <<trusted, dead, grantedIn, faults>>

\* (mutant) a stat that succeeds is taken for a dead process
PruneStatSwapped(p) ==
    /\ p \in toCheck /\ dead = Idle
    /\ toCheck' = toCheck \ {p}
    /\ dead' = IF live[p] # 0 THEN p ELSE Idle
    /\ Prune /\ UNCHANGED <<trusted, grantedIn, faults>>

PruneStat(p) ==
    /\ p \in toCheck /\ dead = Idle
    /\ toCheck' = toCheck \ {p}
    /\ dead' = IF live[p] = 0 THEN p ELSE Idle
    /\ Prune /\ UNCHANGED <<trusted, grantedIn, faults>>

\* An entry that cannot be deleted waits for the next sweep
PruneDelete ==
    /\ dead # Idle
    /\ \/ Untrust(dead)
       \/ Fault /\ UNCHANGED <<trusted, grantedIn>>
    /\ dead' = Idle
    /\ Prune /\ UNCHANGED toCheck

----------------------------------------------------------------------------
(* reloadConfig on SIGHUP; the signal loop runs one at a time.  What fails is *)
(* logged and the reload goes on.                                            *)

Reload(from, to) ==
    /\ reload = from /\ reload' = to
    /\ UNCHANGED <<now, procVars, blocked, pruneVars, brkVars, opVars>>

\* clearBPFMap: the deletes are one step, for entries do not depend on each
\* other.  When one fails, or the iteration does, the rest is left.
Cleared(entries, left) ==
    \/ left = {} /\ UNCHANGED faults
    \/ left # {} /\ left \subseteq entries /\ Fault

\* The new configuration, its gates not looked at
ReloadConfig ==
    /\ reloads < MaxReloads
    /\ config' \in Configs
    /\ toProtect' = config'.exts
    /\ reloads' = reloads + 1

\* (mutant) the map's values cannot be read, and nothing is cleared
ReloadClearTrustedNothing ==
    /\ Reload("idle", "clear")
    /\ ReloadConfig
    /\ warned' = {}
    /\ UNCHANGED <<trusted, protected, grantedIn, faults>>

\* ClearMaps: trusted_pids
ReloadClearTrusted ==
    /\ Reload("idle", "clear")
    /\ ReloadConfig
    /\ \E left \in SUBSET trusted :
        /\ Cleared(trusted, left)
        /\ trusted' = left
        /\ warned' = IF left = {} THEN {} ELSE {"trusted_pids"}
    /\ UNCHANGED <<protected, grantedIn>>

\* ClearMaps: protected_extensions, and not blocked_ips
ReloadClearExtensions ==
    /\ Reload("clear", "exts")
    /\ \E left \in SUBSET protected :
        /\ Cleared(protected, left)
        /\ protected' = left
        /\ warned' = IF left = {} THEN warned ELSE warned \cup {"protected_extensions"}
    /\ UNCHANGED <<trusted, config, toProtect, reloads, grantedIn>>

\* (mutant) the first extension that is refused ends the loop
ReloadExtensionsStop ==
    /\ toProtect # {}
    /\ Reload("exts", "exts")
    /\ \E e \in toProtect :
        \/ /\ Fits(e)
           /\ protected' = protected \cup {e} /\ toProtect' = toProtect \ {e}
           /\ UNCHANGED <<warned, faults>>
        \/ /\ Refused(e)
           /\ warned' = warned \cup {e} /\ toProtect' = {}
           /\ UNCHANGED protected
    /\ UNCHANGED <<trusted, config, reloads, grantedIn>>

\* AddProtectedExtension, one after the other
ReloadExtensions ==
    /\ toProtect # {}
    /\ Reload("exts", "exts")
    /\ \E e \in toProtect :
        /\ toProtect' = toProtect \ {e}
        /\ \/ /\ Fits(e) /\ protected' = protected \cup {e}
              /\ UNCHANGED <<warned, faults>>
           \/ /\ Refused(e)
              /\ warned' = warned \cup {e}
              /\ UNCHANGED protected
    /\ UNCHANGED <<trusted, config, reloads, grantedIn>>

\* The trusted PIDs of the configuration, whose entries are independent too
ReloadPids ==
    /\ toProtect = {}
    /\ Reload("exts", "idle")
    /\ \E pids \in SUBSET config.pids :
        /\ IF pids = config.pids THEN UNCHANGED faults ELSE Fault
        /\ Trust(pids)
    /\ UNCHANGED <<protected, config, toProtect, reloads, warned>>

----------------------------------------------------------------------------

Pruning   == PruneSnapshot \/ (\E p \in Pids : PruneStat(p)) \/ PruneDelete
Reloading == ReloadClearExtensions \/ ReloadExtensions \/ ReloadPids

Next ==
    \/ Clock
    \/ \E p \in Pids :
        \/ Spawn(p) \/ Exit(p)
        \/ TrustPid(p) \/ UntrustPid(p)
        \/ \E h \in Handlers, critical \in BOOLEAN : Finding(h, p, critical)
    \/ \E e \in Exts : ProtectExtension(e)
    \/ \E i \in Ips : BlockDestination(i) \/ UnblockDestination(i)
    \/ SetArmed \/ ResponseRefused
    \/ \E h \in Handlers : Respond(h)
    \/ Pruning
    \/ ReloadClearTrusted \/ Reloading

\* The pruner's ticker, a goroutine that has decided, and a reload under way
\* go on
Fairness ==
    /\ WF_vars(Pruning) /\ WF_vars(Reloading)
    /\ \A h \in Handlers : WF_vars(Respond(h))

Spec == Init /\ [][Next]_vars /\ Fairness

----------------------------------------------------------------------------
(* Properties *)

\* The maps, the pruner, the breaker and the reload are in their ranges, and
\* the pruner looks at a key of its snapshot once (bpf.go:529).
TypeOK ==
    /\ live \in [Pids -> 0..(MaxSpawns + 1)] /\ live[Agent] = 1
    /\ trusted \subseteq Pids /\ protected \subseteq Exts /\ blocked \subseteq Ips
    /\ config \in Configs
    /\ lastTrip \in [Pids -> -1..MaxTime]
    /\ handler \in [Handlers -> Pids \cup {Idle}]
    /\ toCheck \subseteq Pids /\ dead \in (Pids \cup {Idle}) \ toCheck
    /\ reload \in {"idle", "clear", "exts"} /\ toProtect \subseteq Exts
    /\ Cardinality(protected) <= ExtRoom /\ faults \in 0..MaxFaults

\* Whatever the operator, the breaker and the pruner did meanwhile, and whatever
\* failed: when no reload is under way, the hook of an agent started to enforce
\* refuses a process that is not trusted every file the configuration in force
\* protects, but for the extensions the log has warned of (main.go:404-415,
\* bpf.go:397-401); and, reload or not, egress to a destination that was blocked
\* without an error is dropped where that is enforced (controller.go:474-482).
ProtectionRestored ==
    /\ reload = "idle" /\ enforce_mode =>
        \A p \in Pids \ trusted, e \in config.exts \ warned : Verdict(p, e) = "EPERM"
    /\ ns_tc_cfg => \A i \in confirmed : EgressVerdict(i) = "TC_ACT_SHOT"

\* A reload revokes all trust that was given before it: an entry found after
\* it was put by the reload or later, unless the log has warned that the map was
\* not cleared, and then the next reload revokes it (bpf.go:763-775, 843-850;
\* main.go:406-408).  The maps stay well formed (TypeOK).
OldTrustRevoked ==
    /\ TypeOK
    /\ reload = "idle" /\ "trusted_pids" \notin warned => \A p \in trusted : grantedIn[p] = reloads

\* A trusted PID without a process is pruned, unless a process gets the PID
\* first (bpf.go:507-543, controller.go:1186).
DeadTrustPruned ==
    \A p \in Others : p \in trusted /\ live[p] = 0 ~> p \notin trusted \/ live[p] # 0

\* Once the breaker trips on a PID, the PID is taken off the trusted list or the
\* response is on record as failed, even if the breaker is disarmed before it
\* runs (controller.go:314-331).
TripUntrusts ==
    \A p \in Others : (\E h \in Handlers : handler[h] = p) ~> p \notin trusted \/ p \in unanswered

\* What main.go:156-157 and controller.go:499-500 say of the agent: it is
\* trusted, so that the hook lets its inventory scanner read protected files.
ScannerReads == reload = "idle" => \A e \in Exts : Verdict(Agent, e) = "allow"
=============================================================================

--------------------------- MODULE FleetRegistry ---------------------------
(***************************************************************************)
(* The fleet control plane: the registry of agents (pkg/fleet/registry.go), *)
(* its HTTP handlers, and the part of the controller that beats, converges  *)
(* this node to the desired state, evicts and persists on every tick, and   *)
(* persists once more on Stop (pkg/agent/controller.go).                    *)
(*                                                                         *)
(* A registry call is one step: every one runs under Registry.mu.  The tick *)
(* of fleetHeartbeat is split where the code releases that lock, and Stop   *)
(* where it can overlap with the tick: the goroutine of the tick is not in  *)
(* the wait group that Stop waits for.                                      *)
(***************************************************************************)
EXTENDS Integers, FiniteSets

CONSTANTS
    Self,           \* the ID of the control plane's own record
    Remotes,        \* the IDs of the remote agents
    Bucket,         \* bucket: the FNV slot of each ID
    Asked,          \* the learning modes an operator may ask for
    Stored,         \* the ones that an earlier run may have left on disk
    Percents,       \* the percentages an operator may ask for
    EvictAfter,     \* fleetEvictAfter
    MaxAgents,      \* Registry.maxAgents
    MaxTime,        \* bound on the clock
    MaxAdmin,       \* bound on operator requests
    MaxRestarts     \* bound on the times the process goes down

Ids   == {Self} \cup Remotes
Modes == {"unset", "on", "off"}       \* DesiredState.LearningMode, nil as "unset"

ASSUME FleetAssumption ==
    /\ Self \notin Remotes
    /\ Bucket \in [Ids -> 0..99]
    /\ Asked \cup Stored \subseteq Modes /\ Percents \subseteq Int
    /\ {EvictAfter, MaxTime, MaxAdmin, MaxRestarts} \subseteq Nat
    /\ MaxAgents \in Nat \ {0}

VARIABLES
    now,
    agents,         \* Registry.agents: the last time each enrolled agent was seen
    desired,        \* Registry.desired
    pending,        \* Registry.pending
    learning,       \* the correlator's learning mode on this node
    disk,           \* the row "fleet" of kv_snapshots
    fleetID,        \* Controller.fleetID holds Self's ID, and not ""
    tick,           \* where the goroutine of fleetHeartbeat is
    got,            \* the desired state the tick has read, and whether it is the canary's
    blob,           \* the snapshots marshalled and not written yet
    phase,          \* up, or the stage Stop has reached
    admin, downs,   \* requests and restarts used, against their bounds
    canaried        \* agents the running process served the pending state to

regVars  == <<agents, desired, pending>>
loopVars == <<tick, got>>
bounds   == <<admin, downs>>
vars == <<now, regVars, learning, disk, fleetID, loopVars, blob, phase, bounds, canaried>>

Desired   == [version : Nat, mode : Modes]
NoRollout == [desired |-> [version |-> 0, mode |-> "unset"], percent |-> -1]

Tracked == DOMAIN agents

InCanary(id) == pending # NoRollout /\ Bucket[id] < pending.percent

\* DesiredForAgent: the canary state under the rollout's percentage
DesiredForAgent(id) == IF InCanary(id) THEN pending.desired ELSE desired

\* The agent is told: the canaries of this rollout are remembered
Serve(id) == canaried' = IF InCanary(id) THEN canaried \cup {id} ELSE canaried

\* A table with the agent seen at time now
Seen(table, id) == [i \in DOMAIN table \cup {id} |-> IF i = id THEN now ELSE table[i]]

Touch(id) == agents' = Seen(agents, id)

\* An unknown ID needs room
Admitted(id) == id \in Tracked \/ Cardinality(Tracked) < MaxAgents

\* Snapshot: the registry as it is serialized
Snapshot == [agents |-> agents, desired |-> desired, pending |-> pending]

NewRegistry ==
    [agents |-> [id \in {} |-> 0], desired |-> [version |-> 0, mode |-> "unset"],
     pending |-> NoRollout]

\* NewController, Start: an empty table or the desired state an earlier run has
\* left on disk, and this node enrolled by Start
Init ==
    /\ now = 0
    /\ agents = [id \in {Self} |-> 0]
    /\ desired \in {NewRegistry.desired} \cup [version : {1}, mode : Stored]
    /\ pending = NoRollout
    /\ learning \in BOOLEAN
    /\ disk = [NewRegistry EXCEPT !.desired = desired]
    /\ fleetID = TRUE
    /\ tick = "idle" /\ got = "unset"
    /\ blob = [tick |-> NewRegistry, stop |-> NewRegistry]
    /\ phase = "up"
    /\ admin = 0 /\ downs = 0
    /\ canaried = {}

Clock ==
    /\ now < MaxTime
    /\ now' = now + 1
    /\ UNCHANGED <<regVars, learning, disk, fleetID, loopVars, blob, phase, bounds, canaried>>

----------------------------------------------------------------------------
(* Operator requests, served until the web server is stopped *)

Request ==
    /\ phase = "up" /\ admin < MaxAdmin
    /\ admin' = admin + 1
    /\ UNCHANGED <<now, disk, fleetID, loopVars, blob, phase, downs>>

\* handleFleetDesired, SetDesired
SetDesired(m) ==
    /\ Request
    /\ desired' = [version |-> desired.version + 1, mode |-> m]
    /\ UNCHANGED <<agents, pending, learning, canaried>>

\* handleFleetRollout, StartRollout: a rollout in progress is replaced
StartRollout(m, percent) ==
    /\ Request
    /\ pending' = [desired |-> [version |-> desired.version + 1, mode |-> m],
                   percent |-> CASE percent < 0 -> 0 [] percent > 100 -> 100 [] OTHER -> percent]
    /\ canaried' = {}
    /\ UNCHANGED <<agents, desired, learning>>

\* (mutant) the step asked for is taken as it is
PromoteRolloutAsAsked(percent) ==
    /\ pending # NoRollout
    /\ Request
    /\ IF percent >= 100
       THEN desired' = pending.desired /\ pending' = NoRollout /\ canaried' = {}
       ELSE pending' = [pending EXCEPT !.percent = percent] /\ UNCHANGED <<desired, canaried>>
    /\ UNCHANGED <<agents, learning>>

\* handleFleetRolloutPromote, PromoteRollout: anything but a larger step
\* below 100 completes the rollout
PromoteRollout(percent) ==
    /\ pending # NoRollout
    /\ Request
    /\ IF percent >= 100 \/ percent <= pending.percent
       THEN desired' = pending.desired /\ pending' = NoRollout /\ canaried' = {}
       ELSE pending' = [pending EXCEPT !.percent = percent] /\ UNCHANGED <<desired, canaried>>
    /\ UNCHANGED <<agents, learning>>

\* handleFleetRolloutAbort, AbortRollout
AbortRollout ==
    /\ pending # NoRollout
    /\ Request
    /\ pending' = NoRollout /\ canaried' = {}
    /\ UNCHANGED <<agents, desired, learning>>

\* handleFleetRemove, Remove
Remove(id) ==
    /\ id \in Tracked
    /\ Request
    /\ agents' = [i \in Tracked \ {id} |-> agents[i]]
    /\ UNCHANGED <<desired, pending, learning, canaried>>

\* The console's own switch of the learning mode
SwitchLearning ==
    /\ Request
    /\ learning' = ~learning
    /\ UNCHANGED <<regVars, canaried>>

----------------------------------------------------------------------------
(* Remote agents, over the web server or the mutual-TLS listener, which Stop *)
(* closes last; a request or an answer that is lost changes nothing here     *)

\* handleFleetEnroll: the ID minted for a new agent is one not in use
Enroll(id) ==
    /\ phase # "down" /\ id \in Remotes /\ Admitted(id)
    /\ Touch(id)
    /\ UNCHANGED <<now, desired, pending, learning, disk, fleetID, loopVars, blob, phase,
                   bounds, canaried>>

\* handleFleetHeartbeat: the beat, an unknown ID enrolled by it, and the
\* desired state in the answer
Heartbeat(id) ==
    /\ phase # "down" /\ id \in Remotes /\ Admitted(id)
    /\ Touch(id)
    /\ Serve(id)
    /\ UNCHANGED <<now, desired, pending, learning, disk, fleetID, loopVars, blob, phase, bounds>>

----------------------------------------------------------------------------
(* fleetHeartbeat, one step per critical section of the tick.  After cancel  *)
(* the select may still prefer a tick that is due, so a tick can run at any  *)
(* stage of Stop.                                                            *)

Loop(from, to) ==
    /\ phase # "down"
    /\ tick = from /\ tick' = to
    /\ UNCHANGED <<now, fleetID, phase, bounds>>

\* (mutant) this node asks for the stable state
TickBeatStable ==
    /\ Loop("idle", "apply")
    /\ IF fleetID /\ Admitted(Self) THEN Touch(Self) ELSE UNCHANGED agents
    /\ got' = IF fleetID THEN desired.mode ELSE "unset"
    /\ UNCHANGED <<desired, pending, learning, disk, blob, canaried>>

\* Heartbeat and DesiredForAgent of this node, when it has an ID
TickBeat ==
    /\ Loop("idle", "apply")
    /\ IF fleetID /\ Admitted(Self) THEN Touch(Self) ELSE UNCHANGED agents
    /\ IF fleetID
       THEN got' = DesiredForAgent(Self).mode /\ Serve(Self)
       ELSE got' = "unset" /\ UNCHANGED canaried
    /\ UNCHANGED <<desired, pending, learning, disk, blob>>

\* applyDesired: converge, whatever the version; a field not set is left alone
TickApply ==
    /\ Loop("apply", "evict")
    /\ learning' = IF got = "unset" THEN learning ELSE got = "on"
    /\ got' = "unset"
    /\ UNCHANGED <<regVars, disk, blob, canaried>>

\* (mutant) nothing is persisted when nothing was evicted
TickEvictQuiet ==
    LET kept == {i \in Tracked : now - agents[i] <= EvictAfter}
    IN  /\ Loop("evict", IF kept = Tracked THEN "idle" ELSE "snapshot")
        /\ agents' = [id \in kept |-> agents[id]]
        /\ UNCHANGED <<desired, pending, learning, disk, got, blob, canaried>>

\* EvictStale(fleetEvictAfter)
TickEvict ==
    /\ Loop("evict", "snapshot")
    /\ agents' = [id \in {i \in Tracked : now - agents[i] <= EvictAfter} |-> agents[id]]
    /\ UNCHANGED <<desired, pending, learning, disk, got, blob, canaried>>

\* persistFleet: Snapshot
TickSnapshot ==
    /\ Loop("snapshot", "save")
    /\ blob' = [blob EXCEPT !.tick = Snapshot]
    /\ UNCHANGED <<regVars, learning, disk, got, canaried>>

\* persistFleet: SaveSnapshot
TickSave ==
    /\ Loop("save", "idle")
    /\ disk' = blob.tick
    /\ blob' = [blob EXCEPT !.tick = NewRegistry]
    /\ UNCHANGED <<regVars, learning, got, canaried>>

----------------------------------------------------------------------------
(* Stop, crash, restart *)

Stage(from, to) ==
    /\ phase = from /\ phase' = to
    /\ UNCHANGED <<now, regVars, learning, fleetID, loopVars, admin, canaried>>

\* Stop: cancel, the components stopped (the web server among them), the wait group
StopComponents ==
    /\ downs < MaxRestarts
    /\ Stage("up", "stopping")
    /\ UNCHANGED <<disk, blob, downs>>

\* Stop: persistFleet
StopSnapshot ==
    /\ Stage("stopping", "persist")
    /\ blob' = [blob EXCEPT !.stop = Snapshot]
    /\ UNCHANGED <<disk, downs>>

StopSave ==
    /\ Stage("persist", "closing")
    /\ disk' = blob.stop
    /\ blob' = [blob EXCEPT !.stop = NewRegistry]
    /\ UNCHANGED <<downs>>

\* Stop: the mutual-TLS listener and the database closed, the process gone
StopClose ==
    /\ Stage("closing", "down")
    /\ downs' = downs + 1
    /\ UNCHANGED <<disk, blob>>

\* The process dies without Stop
Crash ==
    /\ phase = "up" /\ downs < MaxRestarts
    /\ phase' = "down"
    /\ downs' = downs + 1
    /\ UNCHANGED <<now, regVars, learning, disk, fleetID, loopVars, blob, admin, canaried>>

\* initComponents: Restore.  Start: Enroll of this node under its stable ID,
\* the error dropped
Restart ==
    /\ phase = "down"
    /\ phase' = "up"
    /\ desired' = disk.desired /\ pending' = disk.pending
    /\ LET room == Self \in DOMAIN disk.agents \/ Cardinality(DOMAIN disk.agents) < MaxAgents
       IN  /\ agents' = IF room THEN Seen(disk.agents, Self) ELSE disk.agents
           /\ fleetID' = room
    /\ learning' \in BOOLEAN
    /\ tick' = "idle" /\ got' = "unset"
    /\ blob' = [tick |-> NewRegistry, stop |-> NewRegistry]
    /\ canaried' = {}
    /\ UNCHANGED <<now, disk, bounds>>

----------------------------------------------------------------------------

Operator ==
    \/ \E m \in Asked : SetDesired(m) \/ \E p \in Percents : StartRollout(m, p)
    \/ \E p \in Percents : PromoteRollout(p)
    \/ AbortRollout
    \/ \E id \in Ids : Remove(id)
    \/ SwitchLearning

Ticking == TickBeat \/ TickApply \/ TickEvict \/ TickSnapshot \/ TickSave

Stopping == StopComponents \/ StopSnapshot \/ StopSave \/ StopClose

Next ==
    \/ Clock
    \/ Operator
    \/ \E id \in Remotes : Enroll(id) \/ Heartbeat(id)
    \/ Ticking
    \/ Stopping
    \/ Crash
    \/ Restart

\* The ticker fires as long as the process lives, a live agent keeps beating,
\* Stop runs to its end once begun, and a process that is down is restarted
\* by its supervisor
Fairness ==
    /\ WF_vars(Ticking)
    /\ \A id \in Remotes : WF_vars(Heartbeat(id))
    /\ WF_vars(StopSnapshot \/ StopSave \/ StopClose)
    /\ WF_vars(Restart)

Spec == Init /\ [][Next]_vars /\ Fairness

----------------------------------------------------------------------------
(* Properties *)

IsRegistry(r) ==
    /\ r.agents \in [DOMAIN r.agents -> 0..now]
    /\ DOMAIN r.agents \subseteq Ids /\ Cardinality(DOMAIN r.agents) <= MaxAgents
    /\ r.desired \in Desired
    /\ r.pending = NoRollout \/ r.pending \in [desired : Desired, percent : 0..100]

\* The registry and what is persisted of it are well formed, and neither
\* enrolling, beating nor restoring takes the registry past maxAgents
\* (registry.go:257, 280, 235).
TypeOK ==
    /\ now \in Nat
    /\ \A r \in {Snapshot, disk, blob.tick, blob.stop} : IsRegistry(r)
    /\ {learning, fleetID} \subseteq BOOLEAN
    /\ tick \in {"idle", "apply", "evict", "snapshot", "save"}
    /\ got \in Modes
    /\ phase \in {"up", "stopping", "persist", "closing", "down"}
    /\ admin \in 0..MaxAdmin /\ downs \in 0..MaxRestarts
    /\ canaried \subseteq Ids

\* An agent that the running control plane has handed the canary state keeps
\* being handed it until that rollout is completed, aborted or replaced:
\* promotion never takes a canary back to the stable state (registry.go:104).
\* The registry stays well formed (TypeOK).
CanaryHolds ==
    /\ TypeOK
    /\ pending # NoRollout => \A id \in canaried : DesiredForAgent(id) = pending.desired

\* When operators leave it alone, this node ends up in the learning mode its
\* desired state asks for, after any restarts and whatever the console
\* switched meanwhile (controller.go:827-829, 860).  So a canary whose rollout
\* is aborted goes back to what the stable state asks for, although that state's
\* version is older than the one the canary applied.
Converges ==
    LET want == DesiredForAgent(Self).mode
    IN  <>[](phase = "up" /\ (fleetID /\ want # "unset" => learning = (want = "on")))

\* The desired state and the rollout in progress reach the snapshot table
\* (controller.go:831-838).
EventuallyPersisted == <>[](disk.desired = desired /\ disk.pending = pending)
============================================================================

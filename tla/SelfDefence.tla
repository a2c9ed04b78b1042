---------------------------- MODULE SelfDefence ----------------------------
(***************************************************************************)
(* The agent's self-protection: the integrity baseline of its own files       *)
(* (pkg/selfprotect), the loop that verifies it and raises a finding for each *)
(* tampered file, the alert router the finding goes through (pkg/notify), the *)
(* console reconfiguring that router, and Stop waiting for the loop           *)
(* (runSelfProtect, handleCorrelationFinding, applyNotify, Start and Stop in  *)
(* pkg/agent/controller.go).                                                 *)
(*                                                                         *)
(* Every self-protection finding has the same title and severity, so the      *)
(* router has one deduplication key for them, and it is critical, which meets *)
(* every threshold a channel can have.  Time is the age of the last accepted  *)
(* alert; once Stop has begun neither time nor the files matter any more.     *)
(***************************************************************************)
EXTENDS Integers, Sequences, SequencesExt

CONSTANTS
    Files,          \* executable, configuration and policy
    Contents, Shipped,      \* what a file can hold, and held when the agent was installed
    Channels,       \* webhook, Slack, Splunk, Sentinel: in the order applyNotify adds them
    Configured,     \* the channels the configuration file enables
    SIEM,           \* the channels only the configuration file can enable
    DedupEvery,     \* the router's deduplication window, in clock steps
    MaxChanges,     \* bound on changes to the files
    MaxReconfigs,   \* bound on reconfigurations of the router
    MaxFailures     \* bound on failed deliveries

VARIABLES
    disk,           \* what each file holds
    baseline,       \* Guard.baseline
    loop,           \* where runSelfProtect is: spawned, select, handle, send or done
    tampers,        \* the tampers of this round still to be handled
    unsent,         \* channels Route has still to send this alert to
    age,            \* time since lastSent, or Never
    bound,          \* Router.channels
    config,         \* the channels of the configuration last stored
    toAdd,          \* channels applyNotify has still to add
    reconfiguring,  \* an applyNotify is under way
    wg,             \* shutdownWG, this loop's part
    waited,         \* the loop had joined shutdownWG when Stop waited
    stage,          \* running, stopping or closed
    changes, reconfigs, failures,   \* counters
    audited,        \* files with a finding on the audit chain since they last changed
    notified        \* a self-tamper alert was delivered since the files last changed

guardVars  == <<disk, baseline, changes>>
loopVars   == <<loop, tampers>>
routerVars == <<age, bound>>
configVars == <<config, toAdd, reconfiguring, reconfigs>>
stopVars   == <<wg, waited, stage>>
history    == <<audited, notified>>
sdVars     == <<guardVars, loopVars, unsent, failures, routerVars, configVars, stopVars, history>>

Never  == DedupEvery + 1
Gone   == "gone"
Locked == "locked"      \* exists and cannot be read
OnDisk == Contents \cup {Gone, Locked}
Chosen(S) == SelectSeq(Channels, LAMBDA ch : ch \in S)

----------------------------------------------------------------------------
(* Guard *)

statOf(c) == [exists |-> c # Gone, hash |-> IF c \in Contents THEN c ELSE ""]

\* (mutant) a file that vanished is not reported
VerifyPresent == {f \in Files : baseline[f].exists /\ disk[f] \in Contents /\ disk[f] # baseline[f].hash}

\* Removed, unreadable or modified; the baseline stays, so a tamper is reported again
Verify ==
    {f \in Files : LET cur == statOf(disk[f])
                   IN  baseline[f].exists /\ (~cur.exists \/ cur.hash = "" \/ cur.hash # baseline[f].hash)}

\* NewController baselines whatever is there and configures the router; Start spawns the loop
SdInit ==
    /\ disk \in [Files -> {Shipped, Gone}]
    /\ baseline = [f \in Files |-> statOf(disk[f])]
    /\ config = Chosen(Configured) /\ bound = config
    /\ toAdd = <<>> /\ reconfiguring = FALSE
    /\ loop = "spawned" /\ tampers = <<>> /\ unsent = <<>>
    /\ age = Never
    /\ wg = 0 /\ waited = FALSE /\ stage = "running"
    /\ changes = 0 /\ reconfigs = 0 /\ failures = 0
    /\ audited = {} /\ notified = FALSE

Change(f, c) ==
    /\ stage = "running" /\ changes < MaxChanges /\ c # disk[f]
    /\ disk' = [disk EXCEPT ![f] = c]
    /\ changes' = changes + 1
    /\ audited' = audited \ {f} /\ notified' = FALSE
    /\ UNCHANGED <<baseline, loopVars, unsent, failures, routerVars, configVars, stopVars>>

----------------------------------------------------------------------------
(* runSelfProtect *)

\* (mutant) the loop does not join the wait group
JoinNothing == UNCHANGED wg

\* shutdownWG.Add, by the goroutine itself
Join == wg' = wg + 1

Enter ==
    /\ loop = "spawned"
    /\ Join
    /\ loop' = "select"
    /\ UNCHANGED <<guardVars, tampers, unsent, failures, routerVars, configVars, waited, stage, history>>

\* A tick of the ticker; a select that finds the context cancelled too may take either
Sweep ==
    /\ loop = "select"
    /\ tampers' = SetToSeq(Verify)
    /\ loop' = IF Verify = {} THEN "select" ELSE "handle"
    /\ UNCHANGED <<guardVars, unsent, failures, routerVars, configVars, stopVars, history>>

LoopReturns ==
    /\ loop = "select" /\ stage # "running"
    /\ loop' = "done"
    /\ wg' = wg - 1
    /\ UNCHANGED <<guardVars, tampers, unsent, failures, routerVars, configVars, waited, stage, history>>

----------------------------------------------------------------------------
(* handleCorrelationFinding: the case, Route, and the audit chain *)

\* Route's critical section: suppressed within the window; otherwise the window
\* starts, whatever becomes of the deliveries, to the channels bound right now
Route ==
    IF age < DedupEvery THEN unsent' = <<>> /\ UNCHANGED age
    ELSE unsent' = bound /\ age' = 0

HandleFinding ==
    /\ loop = "handle"
    /\ Route
    /\ loop' = "send"
    /\ UNCHANGED <<guardVars, tampers, failures, bound, configVars, stopVars, audited, notified>>

\* One delivery after the other; the error is dropped
Send(ok) ==
    /\ loop = "send" /\ unsent # <<>>
    /\ ~ok => failures < MaxFailures
    /\ unsent' = Tail(unsent)
    /\ failures' = IF ok THEN failures ELSE failures + 1
    /\ notified' = (notified \/ (ok /\ stage = "running"))
    /\ UNCHANGED <<guardVars, loopVars, routerVars, configVars, stopVars, audited>>

\* auditChain.Append, the broadcast, the metrics and the breaker, which finds no PID to act on
Record ==
    /\ loop = "send" /\ unsent = <<>>
    /\ audited' = IF stage = "running" THEN audited \cup {Head(tampers)} ELSE audited
    /\ tampers' = Tail(tampers)
    /\ loop' = IF Len(tampers) = 1 THEN "select" ELSE "handle"
    /\ UNCHANGED <<guardVars, unsent, failures, routerVars, configVars, stopVars, notified>>

\* Only ages below the window are told apart
Clock ==
    /\ stage = "running" /\ age < DedupEvery
    /\ age' = age + 1
    /\ UNCHANGED <<guardVars, loopVars, unsent, failures, bound, configVars, stopVars, history>>

----------------------------------------------------------------------------
(* applyNotify: the console's settings are stored, the router is emptied, the
   channels are added one by one; Route may run in between. *)

ApplyNotify(S) ==
    /\ stage = "running" /\ ~reconfiguring /\ reconfigs < MaxReconfigs
    /\ reconfigs' = reconfigs + 1 /\ reconfiguring' = TRUE
    /\ config' = Chosen(S \cup (Configured \cap SIEM)) /\ toAdd' = config'
    /\ bound' = <<>>
    /\ UNCHANGED <<guardVars, loopVars, unsent, failures, age, stopVars, history>>

AddChannel ==
    /\ reconfiguring
    /\ IF toAdd = <<>> THEN reconfiguring' = FALSE /\ UNCHANGED <<toAdd, bound>>
       ELSE toAdd' = Tail(toAdd) /\ bound' = Append(bound, Head(toAdd)) /\ UNCHANGED reconfiguring
    /\ UNCHANGED <<guardVars, loopVars, unsent, failures, age, config, reconfigs, stopVars, history>>

----------------------------------------------------------------------------
(* Stop *)

Cancel ==
    /\ stage = "running"
    /\ stage' = "stopping"
    /\ audited' = {} /\ notified' = FALSE      \* the history ends here
    /\ UNCHANGED <<guardVars, loopVars, unsent, failures, routerVars, configVars, wg, waited>>

\* shutdownWG.Wait returns, state is saved and the stores are closed
CloseStores ==
    /\ stage = "stopping" /\ wg = 0
    /\ stage' = "closed"
    /\ waited' = (loop # "spawned")
    /\ UNCHANGED <<guardVars, loopVars, unsent, failures, routerVars, configVars, wg, history>>

LoopStep == Enter \/ Sweep \/ LoopReturns \/ HandleFinding \/ Record \/ \E ok \in BOOLEAN : Send(ok)

SdNext ==
    \/ LoopStep \/ Clock \/ AddChannel \/ Cancel \/ CloseStores
    \/ \E f \in Files, c \in OnDisk : Change(f, c)
    \/ \E S \in SUBSET (ToSet(Channels) \ SIEM) : ApplyNotify(S)

\* Goroutines that can go on do, tickers tick and time passes; a select with
\* two cases ready takes one of them, and a request ends with its timeout.
SdFairness ==
    WF_sdVars(LoopStep) /\ WF_sdVars(Clock) /\ WF_sdVars(AddChannel) /\ WF_sdVars(CloseStores)

SdSpec == SdInit /\ [][SdNext]_sdVars /\ SdFairness
----------------------------------------------------------------------------
(* Properties *)

\* Stop closes the audit store and the database only when self-protection is
\* over: if the loop had joined shutdownWG by the time Stop waited, it handles
\* no finding after the stores are closed (controller.go:363-364, 888-933).
\* A loop that had not run yet joins too late, and is not waited for.
StopWaits == (stage = "closed" /\ waited) => loop = "done"

Tampered == {f \in Files : baseline[f].exists /\ statOf(disk[f]) # baseline[f]}

\* Protected files that stay different from their baseline all get a finding on
\* the audit chain, and an alert is delivered if a channel is configured, even
\* though deliveries fail, alerts are deduplicated before they are delivered,
\* and the router is emptied while it is reconfigured: tamper is sticky, so the
\* next rounds raise it again (selfprotect.go:70-72, notify.go:102-121).  The
\* alert may name another of the tampered files: they share a key.
TamperReported ==
    Tampered # {} ~>
        \/ Tampered \subseteq audited /\ (notified \/ config = <<>>)
        \/ Tampered = {} \/ stage # "running"
============================================================================

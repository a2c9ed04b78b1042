----------------------------- MODULE MCServices -----------------------------
(***************************************************************************)
(* Small instances of the loops of the agent for model checking: the one that *)
(* reads the kernel's events (EventPipeline), the one that guards its own     *)
(* files (SelfDefence) and the one that takes stock of the models             *)
(* (Inventory).  They share no state, so it is enough that one of them runs    *)
(* while the others are over.                                                *)
(***************************************************************************)
EXTENDS MCEventPipeline

CONSTANTS Files, Contents, Shipped, Channels, Configured, SIEM, DedupEvery, MaxChanges, MaxReconfigs,
          MaxFailures, Models, RootOf, ProtectedPaths, Requests, MaxWrites, MaxCalls

VARIABLES
    disk, baseline, loop, tampers, unsent, age, bound, config, toAdd, reconfiguring, wg, waited,
    stage, changes, reconfigs, failures, audited, notified,
    model, paths, assets, scan, over, writes, calls, origin, flagged, written

Defence == INSTANCE SelfDefence
Stock   == INSTANCE Inventory

defenceVars == <<disk, baseline, loop, tampers, unsent, age, bound, config, toAdd, reconfiguring, wg,
                 waited, stage, changes, reconfigs, failures, audited, notified>>
stockVars == <<model, paths, assets, scan, over, writes, calls, origin, flagged, written>>

\* A component that has come to its end, where nothing of it is enabled any more
EventsOver ==
    /\ now = MaxTime /\ event = [n \in 1..MaxEvents |-> CHOOSE k \in Kinds : TRUE] /\ lost = 1..MaxEvents /\ ring = <<>>
    /\ reader = "done" /\ inHand = None /\ rdClosed = TRUE
    /\ processor = "done" /\ current = None /\ sampleCount = 0
    /\ handled = <<>> /\ handledAt = <<>> /\ sampledOut = {} /\ lastAlert = <<>> /\ alerts = {}
    /\ cancelled = TRUE /\ stop = "stopped" /\ chanClosed = TRUE
    /\ eventChan = <<>> /\ dropped = [parse_error |-> 0, event_chan_full |-> 0] /\ abandoned = {}
DefenceOver ==
    /\ disk = [f \in Files |-> Shipped] /\ baseline = [f \in Files |-> Defence!statOf(Shipped)]
    /\ stage = "closed" /\ loop = "done" /\ waited = TRUE /\ wg = 0
    /\ tampers = <<>> /\ unsent = <<>> /\ age = Defence!Never
    /\ bound = <<>> /\ config = <<>> /\ toAdd = <<>> /\ reconfiguring = FALSE
    /\ changes = 0 /\ reconfigs = 0 /\ failures = 0 /\ audited = {} /\ notified = FALSE
StockOver ==
    /\ model = [m \in Models |-> Stock!Missing] /\ paths = ProtectedPaths /\ assets = <<>>
    /\ scan = [p \in Requests \cup {Stock!Scanner} |-> Stock!At(IF p = Stock!Scanner THEN "returned" ELSE "idle")]
    /\ over = TRUE /\ writes = 0 /\ calls = 0 /\ origin = <<>> /\ flagged = {} /\ written = {}

MCInit ==
    \/ Init /\ DefenceOver /\ StockOver
    \/ EventsOver /\ Defence!SdInit /\ StockOver
    \/ EventsOver /\ DefenceOver /\ Stock!InventoryInit

MCNext ==
    \/ Next /\ UNCHANGED <<defenceVars, stockVars>>
    \/ Defence!SdNext /\ UNCHANGED <<vars, stockVars>>
    \/ Stock!InventoryNext /\ UNCHANGED <<vars, defenceVars>>

MCSpec ==
    /\ MCInit /\ [][MCNext]_<<vars, defenceVars, stockVars>>
    /\ Fairness /\ Defence!SdFairness /\ Stock!InventoryFairness

MCChannels == <<"webhook", "splunk">>
MCRootOf   == [m1 |-> "p1", m2 |-> "p2"]
-----------------------------------------------------------------------------
\* SelfDefence: Stop waits for the self-protection loop that joined in time.
StopWaits == Defence!StopWaits

\* SelfDefence: lasting tamper is put on the audit chain and alerted.
TamperReported == Defence!TamperReported

\* Inventory: a change of hash is marked, and only a change.
ChangeFlagged == Stock!ChangeFlagged

\* Inventory: with files and paths at rest the list becomes exact.
InventoryConverges == Stock!InventoryConverges
============================================================================

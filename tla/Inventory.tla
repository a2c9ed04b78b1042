----------------------------- MODULE Inventory -----------------------------
(***************************************************************************)
(* The model-asset inventory (pkg/agent/inventory.go): the scanner goroutine  *)
(* that rescans on a tick (runInventoryScanner), the console's rescan and     *)
(* scan-path requests (rescanInventory; handleInventoryRescan and             *)
(* handleInventoryPaths in pkg/web/server.go), all scanning without a lock    *)
(* and installing what they found under it.                                  *)
(*                                                                         *)
(* Models are the files whose extension is in scope; a hash is the content.   *)
(* After the context is cancelled nothing is shown any more.                  *)
(***************************************************************************)
EXTENDS Integers, FiniteSets, Functions

CONSTANTS
    Models, Contents, Shipped,      \* model files, what they can hold, and hold at first
    RootOf,             \* the scan path each model lies under
    ProtectedPaths,     \* the scan paths of the configuration
    Requests,           \* console handlers that may scan
    MaxWrites,          \* bound on changes to the files
    MaxCalls            \* bound on console requests

VARIABLES
    model,      \* what each model file holds
    paths,      \* Inventory.paths
    assets,     \* Inventory.assets: [hash, status] of the models listed
    scan,       \* what the scanner and each handler is at
    over,       \* the context is cancelled
    writes, calls,      \* counters
    origin,     \* the hash each model had when it was first listed readable
    flagged,    \* models marked modified since then
    written     \* models whose content changed since then, or that came and went

fileVars    == <<model, writes, written>>
shownVars   == <<assets, origin, flagged>>
inventoryVars == <<fileVars, paths, shownVars, scan, over, calls>>

Missing    == "missing"
Unreadable == "unreadable"
Scanner    == "scanner"
Roots      == {RootOf[m] : m \in Models}
At(pc)     == [pc |-> pc, left |-> {}, found |-> <<>>]
Put(f, k, v) == [x \in DOMAIN f \cup {k} |-> IF x = k THEN v ELSE f[x]]

InventoryInit ==
    /\ model \in [Models -> {Shipped, Missing}]
    /\ paths = {} /\ assets = <<>>
    /\ scan = [p \in Requests \cup {Scanner} |-> At(IF p = Scanner THEN "spawned" ELSE "idle")]
    /\ over = FALSE /\ writes = 0 /\ calls = 0
    /\ origin = <<>> /\ flagged = {} /\ written = {}

\* A model file is written, removed, or denied to the agent by the LSM hook
Write(m, c) ==
    /\ ~over /\ writes < MaxWrites /\ c # model[m]
    /\ model' = [model EXCEPT ![m] = c]
    /\ writes' = writes + 1 /\ written' = written \cup {m}
    /\ UNCHANGED <<paths, shownVars, scan, over, calls>>

----------------------------------------------------------------------------
(* Scopes *)

\* The goroutine's first statement; a path added before it is forgotten
SetScope ==
    /\ scan[Scanner].pc = "spawned"
    /\ paths' = ProtectedPaths
    /\ scan' = [scan EXCEPT ![Scanner] = At("rescan")]
    /\ UNCHANGED <<fileVars, shownVars, over, calls>>

\* handleInventoryPaths: AddPath or RemovePath, and a rescan follows
EditPaths(h, r) ==
    /\ ~over /\ scan[h].pc = "idle" /\ calls < MaxCalls
    /\ calls' = calls + 1
    /\ \E add \in BOOLEAN : paths' = IF add THEN paths \cup {r} ELSE paths \ {r}
    /\ scan' = [scan EXCEPT ![h] = At("rescan")]
    /\ UNCHANGED <<fileVars, shownVars, over>>

\* handleInventoryRescan
RescanRequest(h) ==
    /\ ~over /\ scan[h].pc = "idle" /\ calls < MaxCalls
    /\ calls' = calls + 1
    /\ scan' = [scan EXCEPT ![h] = At("rescan")]
    /\ UNCHANGED <<fileVars, paths, shownVars, over>>

Tick ==
    /\ scan[Scanner].pc = "idle"
    /\ scan' = [scan EXCEPT ![Scanner] = At(IF over THEN "returned" ELSE "rescan")]
    /\ UNCHANGED <<fileVars, paths, shownVars, over, calls>>

----------------------------------------------------------------------------
(* Rescan and Scan *)

\* Scope copies the paths; the walk goes over these
Rescan(p) ==
    /\ scan[p].pc = "rescan"
    /\ scan' = [scan EXCEPT ![p] = [pc |-> "walk", left |-> {m \in Models : RootOf[m] \in paths}, found |-> <<>>]]
    /\ UNCHANGED <<fileVars, paths, shownVars, over, calls>>

Asset(c) == [hash |-> IF c = Unreadable THEN "" ELSE c,
             status |-> IF c = Unreadable THEN "unreadable" ELSE "indexed"]

\* One file: what it holds when the walk comes to it
Visit(p) ==
    /\ scan[p].pc = "walk" /\ scan[p].left # {}
    /\ LET m == CHOOSE x \in scan[p].left : TRUE
       IN  scan' = [scan EXCEPT ![p].left = @ \ {m},
                                ![p].found = IF model[m] = Missing THEN @ ELSE Put(@, m, Asset(model[m]))]
    /\ UNCHANGED <<fileVars, paths, shownVars, over, calls>>

\* (mutant) the comparison comes after the replacement
ModifiedAfterReplacing(m, a) == FALSE

\* Listed with another hash
Modified(m, a) ==
    m \in DOMAIN assets /\ assets[m].hash # "" /\ a.hash # "" /\ assets[m].hash # a.hash

Marked(found) == [m \in DOMAIN found |-> IF Modified(m, found[m]) THEN [found[m] EXCEPT !.status = "modified"] ELSE found[m]]

\* (mutant) what was found is added to what was listed
InstalledMerging(found) == [m \in DOMAIN assets \cup DOMAIN found |-> IF m \in DOMAIN found THEN Marked(found)[m] ELSE assets[m]]

\* What was listed is replaced
Installed(found) == Marked(found)

Install(p) ==
    /\ scan[p].pc = "walk" /\ scan[p].left = {}
    /\ assets' = Installed(scan[p].found)
    /\ scan' = [scan EXCEPT ![p] = At("summary")]
    /\ LET readable == {m \in DOMAIN assets' : assets'[m].hash # ""}
       IN  /\ origin'  = [m \in readable |-> IF m \in DOMAIN origin THEN origin[m] ELSE assets'[m].hash]
           /\ flagged' = {m \in readable : m \in flagged \cap DOMAIN origin \/ assets'[m].status = "modified"}
    /\ UNCHANGED <<fileVars, paths, over, calls>>

\* Summary is read under the lock anew: for the log, or for the answer
Summarise(p) ==
    /\ scan[p].pc = "summary"
    /\ scan' = [scan EXCEPT ![p] = At("idle")]
    /\ UNCHANGED <<fileVars, paths, shownVars, over, calls>>

CancelScans ==
    /\ ~over /\ over' = TRUE
    /\ UNCHANGED <<fileVars, paths, shownVars, scan, calls>>

ScanStep(p) == Rescan(p) \/ Visit(p) \/ Install(p) \/ Summarise(p)

InventoryNext ==
    \/ SetScope \/ Tick \/ CancelScans
    \/ \E p \in DOMAIN scan : ScanStep(p)
    \/ \E h \in Requests : RescanRequest(h) \/ \E r \in Roots : EditPaths(h, r)
    \/ \E m \in Models, c \in Contents \cup {Missing, Unreadable} : Write(m, c)

\* Goroutines that can go on do, and the ticker ticks
InventoryFairness ==
    /\ WF_inventoryVars(SetScope) /\ WF_inventoryVars(Tick)
    /\ \A p \in Requests \cup {Scanner} : WF_inventoryVars(ScanStep(p))

InventorySpec == InventoryInit /\ [][InventoryNext]_inventoryVars /\ InventoryFairness
----------------------------------------------------------------------------
(* Properties *)

\* "Files whose hash changed since the last scan are marked modified"
\* (inventory.go:138-139), however scans overlap and in whatever order they
\* install: a model listed with another hash than the one it was first listed
\* with has been marked modified in between, unless a scan found it missing,
\* unreadable or out of scope; and a model is never marked unless it was written.
ChangeFlagged ==
    /\ DOMAIN origin = {m \in DOMAIN assets : assets[m].hash # ""}
    /\ \A m \in DOMAIN origin : assets[m].hash # origin[m] => m \in flagged
    /\ flagged \subseteq written

\* Once files and scan paths are left alone, the inventory lists exactly the
\* models under the scan paths with their hashes and no mark, whatever scan of
\* an older state installed last (inventory.go:179-188, controller.go:578-585).
InventoryConverges ==
    <>[](\/ over
         \/ assets = [m \in {m \in Models : RootOf[m] \in paths /\ model[m] # Missing} |-> Asset(model[m])])
============================================================================

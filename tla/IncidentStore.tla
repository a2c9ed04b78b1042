--------------------------- MODULE IncidentStore ---------------------------
(***************************************************************************)
(* The case store of the SOC workbench (pkg/incident/incident.go), its HTTP *)
(* handlers, and how the controller persists it: a ticker of its own every  *)
(* 30 s, and Stop.  Every store operation runs under Store.mu and is one     *)
(* step; persisting is two, the snapshot taken under the mutex and the       *)
(* write to the database after it, and the ticker is not in the wait group   *)
(* that Stop waits for.                                                      *)
(***************************************************************************)
EXTENDS Integers, FiniteSets, Sequences, SequencesExt

CONSTANTS
    Rules, Pids,    \* what a finding is grouped by
    Analysts,       \* assignees
    Texts,          \* the texts of notes
    MaxCases,       \* Store.maxCases
    GroupWindow,    \* Store.groupWindow
    MaxTime,        \* bound on the clock
    MaxDetections,  \* bound on findings
    MaxEdits,       \* bound on the analysts' requests
    MaxRestarts     \* bound on the times the process goes down

\* What the constants are; assumed where the module is instantiated
IncidentAssumption ==
    /\ {GroupWindow, MaxTime, MaxDetections, MaxEdits, MaxRestarts} \subseteq Nat
    /\ MaxCases \in Nat \ {0}

VARIABLES
    now,
    cases,          \* Store.cases, oldest first
    byID,           \* the keys of Store.byID
    nextID,         \* the next case or note ID; the code draws 64 and 48 random bits
    disk,           \* the row "cases" of kv_snapshots
    blob,           \* what the ticker has marshalled and not written yet
    phase,          \* up, or the stage Stop has reached
    edits, downs,   \* requests and restarts used, against their bounds
    detected,       \* findings added, by rule and process
    dropped,        \* hits counted in cases the bound has dropped, likewise
    reopened        \* cases made active again after they were closed

storeVars == <<cases, byID, nextID, detected, dropped, reopened>>
vars == <<now, storeVars, disk, blob, phase, edits, downs>>

Keys     == Rules \X Pids
Active   == {"open", "acknowledged"}
Status   == Active \cup {"resolved", "false_positive"}
Nobody   == "nobody"
Note     == [id : Nat, text : Texts, revisions : Seq(Texts), deleted : BOOLEAN]
Key(c)   == <<c.rule, c.pid>>
Ids(cs)  == {cs[i].id : i \in DOMAIN cs}

\* Snapshot: the cases; the history variables go with it
Snapshot ==
    [cases |-> cases, nextID |-> nextID, detected |-> detected, dropped |-> dropped, reopened |-> reopened]

NewStore ==
    [cases |-> <<>>, nextID |-> 1, detected |-> [k \in Keys |-> 0], dropped |-> [k \in Keys |-> 0],
     reopened |-> {}]

\* Restore: the newest maxCases of the persisted cases, all of them in the index
Restore(snap) ==
    /\ cases' = SubSeq(snap.cases, 1 + (IF Len(snap.cases) > MaxCases THEN Len(snap.cases) - MaxCases ELSE 0),
                       Len(snap.cases))
    /\ byID' = Ids(snap.cases)
    /\ nextID' = snap.nextID
    /\ detected' = snap.detected /\ dropped' = snap.dropped /\ reopened' = snap.reopened

Init ==
    /\ now = 0
    /\ cases = <<>> /\ byID = {} /\ nextID = 1
    /\ disk = NewStore /\ blob = <<>>
    /\ phase = "up"
    /\ edits = 0 /\ downs = 0
    /\ detected = NewStore.detected /\ dropped = NewStore.dropped /\ reopened = {}

Clock ==
    /\ now < MaxTime
    /\ now' = now + 1
    /\ UNCHANGED <<storeVars, disk, blob, phase, edits, downs>>

----------------------------------------------------------------------------
(* Detections *)

\* (mutant) an acknowledged case takes no more hits
GroupsIntoOpenOnly(c, k) ==
    Key(c) = k /\ c.status = "open" /\ now - c.last <= GroupWindow

\* The cases a finding may be grouped into
GroupsInto(c, k) ==
    Key(c) = k /\ c.status \in Active /\ now - c.last <= GroupWindow

\* (mutants) the case dropped stays in the index; every
\* case that matches counts the hit
OpenCaseKeepsIndex(k) ==
    LET c   == [id |-> nextID, rule |-> k[1], pid |-> k[2], count |-> 1, status |-> "open",
                assignee |-> Nobody, notes |-> <<>>, first |-> now, last |-> now]
        all == Append(cases, c)
        old == cases[1]
    IN  /\ nextID' = nextID + 1
        /\ byID' = byID \cup {nextID}
        /\ IF Len(all) > MaxCases
           THEN cases' = Tail(all) /\ dropped' = [dropped EXCEPT ![Key(old)] = @ + old.count]
           ELSE cases' = all /\ UNCHANGED dropped

HitAll(k) ==
    /\ cases' = [i \in DOMAIN cases |->
                    IF GroupsInto(cases[i], k)
                    THEN [cases[i] EXCEPT !.count = @ + 1, !.last = now] ELSE cases[i]]
    /\ UNCHANGED <<byID, nextID, dropped>>

\* Add, no case to group into: a new case, the oldest one dropped past maxCases
OpenCase(k) ==
    LET c   == [id |-> nextID, rule |-> k[1], pid |-> k[2], count |-> 1, status |-> "open",
                assignee |-> Nobody, notes |-> <<>>, first |-> now, last |-> now]
        all == Append(cases, c)
        old == all[1]
    IN  /\ nextID' = nextID + 1
        /\ IF Len(all) > MaxCases
           THEN /\ cases' = Tail(all) /\ byID' = (byID \cup {nextID}) \ {old.id}
                /\ dropped' = [dropped EXCEPT ![Key(old)] = @ + old.count]
           ELSE cases' = all /\ byID' = byID \cup {nextID} /\ UNCHANGED dropped

\* Add, grouped: the first case that matches counts the hit
Hit(k) ==
    LET i == Min({j \in DOMAIN cases : GroupsInto(cases[j], k)})
    IN  /\ cases' = [cases EXCEPT ![i].count = @ + 1, ![i].last = now]
        /\ UNCHANGED <<byID, nextID, dropped>>

\* handleCorrelationFinding and handleCaseCreate: Add
Add(k) ==
    /\ phase = "up"
    /\ FoldFunction(+, 0, detected) < MaxDetections
    /\ detected' = [detected EXCEPT ![k] = @ + 1]
    /\ IF \E i \in DOMAIN cases : GroupsInto(cases[i], k) THEN Hit(k) ELSE OpenCase(k)
    /\ UNCHANGED <<now, disk, blob, phase, edits, downs, reopened>>

----------------------------------------------------------------------------
(* Analysts *)

\* A request that found its case; the case is changed in place
Amend(id, Change(_)) ==
    /\ phase = "up" /\ edits < MaxEdits
    /\ id \in byID
    /\ edits' = edits + 1
    /\ cases' = [i \in DOMAIN cases |-> IF cases[i].id = id THEN Change(cases[i]) ELSE cases[i]]
    /\ UNCHANGED <<now, byID, detected, dropped, disk, blob, phase, downs>>

\* handleCaseStatus, SetStatus: from any status to any other
SetStatus(id, status) ==
    /\ Amend(id, LAMBDA c : [c EXCEPT !.status = status])
    /\ reopened' = reopened \cup
          {cases[i].id : i \in {j \in DOMAIN cases : cases[j].id = id /\ cases[j].status \notin Active
                                                       /\ status \in Active}}
    /\ UNCHANGED nextID

\* handleCaseAssign, Assign
Assign(id, who) ==
    /\ Amend(id, LAMBDA c : [c EXCEPT !.assignee = who])
    /\ UNCHANGED <<nextID, reopened>>

\* handleCaseNote, AddNote
AddNote(id, text) ==
    /\ Amend(id, LAMBDA c : [c EXCEPT !.notes =
          Append(@, [id |-> nextID, text |-> text, revisions |-> <<>>, deleted |-> FALSE])])
    /\ nextID' = nextID + 1
    /\ UNCHANGED reopened

\* A request that found its note
AmendNote(id, note, Change(_)) ==
    /\ \E i \in DOMAIN cases : cases[i].id = id /\ note \in Ids(cases[i].notes)
    /\ Amend(id, LAMBDA c : [c EXCEPT !.notes =
          [n \in DOMAIN @ |-> IF @[n].id = note THEN Change(@[n]) ELSE @[n]]])
    /\ UNCHANGED <<nextID, reopened>>

\* (mutant) the text replaced is gone
EditNoteOverwrites(id, note, text) ==
    AmendNote(id, note, LAMBDA n : [n EXCEPT !.text = text])

\* handleCaseNoteEdit, EditNote: the text replaced becomes a revision
EditNote(id, note, text) ==
    AmendNote(id, note, LAMBDA n :
        IF n.text = text THEN n
        ELSE [n EXCEPT !.revisions = Append(@, n.text), !.text = text])

\* handleCaseNoteDelete, DeleteNote: a tombstone
DeleteNote(id, note) == AmendNote(id, note, LAMBDA n : [n EXCEPT !.deleted = TRUE])

\* handleCaseNoteRestore, RestoreNote
RestoreNote(id, note) == AmendNote(id, note, LAMBDA n : [n EXCEPT !.deleted = FALSE])

----------------------------------------------------------------------------
(* Persistence, Stop, crash, restart *)

\* persistCases of the ticker: Snapshot, then SaveSnapshot, whose error is
\* dropped; the goroutine may still be between the two at any stage of Stop
TickSnapshot ==
    /\ phase # "down" /\ blob = <<>>
    /\ blob' = <<Snapshot>>
    /\ UNCHANGED <<now, storeVars, disk, phase, edits, downs>>

TickSave ==
    /\ phase # "down" /\ blob # <<>>
    /\ disk' \in {blob[1], disk}
    /\ blob' = <<>>
    /\ UNCHANGED <<now, storeVars, phase, edits, downs>>

\* Stop: the components stopped and waited for, then persistCases
StopPersist ==
    /\ phase = "up" /\ downs < MaxRestarts
    /\ phase' = "closing"
    /\ disk' \in {Snapshot, disk}
    /\ UNCHANGED <<now, storeVars, blob, edits, downs>>

\* Stop: the database closed, the process gone
StopClose ==
    /\ phase = "closing"
    /\ phase' = "down" /\ downs' = downs + 1
    /\ UNCHANGED <<now, storeVars, disk, blob, edits>>

Crash ==
    /\ phase = "up" /\ downs < MaxRestarts
    /\ phase' = "down" /\ downs' = downs + 1
    /\ UNCHANGED <<now, storeVars, disk, blob, edits>>

\* NewController: Restore of the snapshot; one that cannot be read or parsed is
\* logged at most, and the store starts empty
Restart ==
    /\ phase = "down"
    /\ phase' = "up" /\ blob' = <<>>
    /\ Restore(disk) \/ Restore(NewStore)
    /\ UNCHANGED <<now, disk, edits, downs>>

NoteIds == UNION {Ids(cases[i].notes) : i \in DOMAIN cases}

Next ==
    \/ Clock
    \/ \E k \in Keys : Add(k)
    \/ \E id \in byID :
        \/ \E s \in Status : SetStatus(id, s)
        \/ \E a \in Analysts : Assign(id, a)
        \/ \E t \in Texts : AddNote(id, t)
        \/ \E n \in NoteIds :
            \/ \E t \in Texts : EditNote(id, n, t)
            \/ DeleteNote(id, n)
            \/ RestoreNote(id, n)
    \/ TickSnapshot \/ TickSave
    \/ StopPersist \/ StopClose \/ Crash \/ Restart

Spec == Init /\ [][Next]_vars

----------------------------------------------------------------------------
(* Properties *)

IsCases(cs) ==
    /\ Len(cs) <= MaxCases
    /\ \A i \in DOMAIN cs :
        /\ Key(cs[i]) \in Keys /\ cs[i].status \in Status /\ cs[i].assignee \in Analysts \cup {Nobody}
        /\ cs[i].id \in Nat /\ cs[i].count \in Nat \ {0}
        /\ cs[i].first \in 0..MaxTime /\ cs[i].last \in cs[i].first..MaxTime
        /\ \A n \in DOMAIN cs[i].notes : cs[i].notes[n] \in Note

\* The store and its snapshot are well formed, and hold at most maxCases
\* cases (incident.go:44, 160).
TypeOK ==
    /\ now \in 0..MaxTime
    /\ IsCases(cases) /\ IsCases(disk.cases)
    /\ byID \subseteq 1..(nextID - 1)
    /\ phase \in {"up", "closing", "down"}
    /\ edits \in 0..MaxEdits /\ downs \in 0..MaxRestarts

\* The index finds exactly the cases that are listed, after drops at the bound
\* and after restarts: no case is edited that nobody can see, and none is
\* listed that cannot be opened (incident.go:38-46, 159-164).  The list stays
\* well formed and within the bound (TypeOK).
IndexMatchesList == TypeOK /\ byID = Ids(cases)

\* Every finding is counted in one case and only one, the case being kept or
\* dropped since; restarting forgets a finding and its hit together
\* (incident.go:141-158).
HitsAccounted ==
    \A k \in Keys :
        detected[k] = dropped[k] + FoldSeq(LAMBDA c, n : n + (IF Key(c) = k THEN c.count ELSE 0), 0, cases)

\* Two active cases of one rule and process were far enough apart, unless an
\* analyst reopened the earlier one (incident.go:142-144).
GroupedUnlessReopened ==
    \A i, j \in DOMAIN cases :
        i < j /\ Key(cases[i]) = Key(cases[j]) /\ cases[i].status \in Active =>
            cases[i].id \in reopened \/ cases[j].first - cases[i].last > GroupWindow

History(n) == Append(n.revisions, n.text)

\* While its case is in the store, no request makes a note disappear, and its
\* past and present texts only grow (incident.go:75-90, 255-325).
NotesKept ==
    [][phase = "up" /\ phase' = "up" =>
        \A i \in DOMAIN cases, j \in DOMAIN cases' : cases[i].id = cases'[j].id =>
            /\ Len(cases[i].notes) <= Len(cases'[j].notes)
            /\ \A n \in DOMAIN cases[i].notes :
                /\ cases[i].notes[n].id = cases'[j].notes[n].id
                /\ IsPrefix(History(cases[i].notes[n]), History(cases'[j].notes[n]))]_vars
=============================================================================

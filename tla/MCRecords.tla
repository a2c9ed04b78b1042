----------------------------- MODULE MCRecords -----------------------------
(***************************************************************************)
(* Small instances of what the agent keeps in its database, for model         *)
(* checking: the audit chain (AuditChain) and the cases (IncidentStore).       *)
(* They share no state, so a behaviour is one of the component in focus, and  *)
(* the other stays in its initial state.                                      *)
(***************************************************************************)
EXTENDS AuditChain, TLC

CONSTANTS Rules, Pids, Analysts, Texts, MaxCases, GroupWindow, MaxTime, MaxDetections, MaxEdits, MaxRestarts

VARIABLES focus,
    now, cases, byID, nextID, disk, blob, phase, edits, downs, detected, dropped, reopened

Cases == INSTANCE IncidentStore

caseVars == <<now, cases, byID, nextID, disk, blob, phase, edits, downs, detected, dropped, reopened>>

ASSUME CasesAssumption == Cases!IncidentAssumption

MCInit == focus \in {"chain", "cases"} /\ Init /\ Cases!Init
          /\ (focus = "cases" => zone = CHOOSE z \in Zones : TRUE)

MCNext ==
    \/ focus = "chain" /\ Next /\ UNCHANGED <<focus, caseVars>>
    \/ focus = "cases" /\ Cases!Next /\ UNCHANGED <<focus, vars>>

MCSpec == MCInit /\ [][MCNext]_<<focus, vars, caseVars>>

\* Processes are told apart by the grouping only, texts by being changed
CaseSymmetry == Permutations(Pids) \cup Permutations(Texts)
-----------------------------------------------------------------------------
\* IncidentStore: the index finds exactly the cases that are listed.
IndexMatchesList == Cases!IndexMatchesList

\* IncidentStore: every finding is counted in one case and only one.
HitsAccounted == Cases!HitsAccounted

\* IncidentStore: active cases of one rule and process are apart, unless reopened.
GroupedUnlessReopened == Cases!GroupedUnlessReopened

\* IncidentStore: no note disappears, and its texts only grow.
NotesKept == Cases!NotesKept
=============================================================================

---------------------------- MODULE MCCorrelator ----------------------------
(***************************************************************************)
(* Small instances for model checking of the correlator and of the rules it *)
(* evaluates.  They share no state: an initial state belongs to one of them, *)
(* named by focus, and the other stays where it begins.  A third focus, on   *)
(* what the correlator remembers, has more processes, signals and time, and  *)
(* leaves out the operator and the sinks.                                    *)
(***************************************************************************)
EXTENDS Correlator

CONSTANTS read, net, MaxSignals, MemoryPids, MemorySessions, MemoryTime, MemoryIngests

VARIABLES
    focus, rule, source, signals,
    heard    \* history: in focus "memory", each process's last SignalCap signals

R == INSTANCE MCCorrelationRules

\* The correlator in learning mode, with more processes than sessions, and time
\* for a signal to outlive every rule's window.
Memory ==
    INSTANCE Correlator WITH
        Pids <- MemoryPids, IngestKinds <- {net}, MaxSessions <- MemorySessions,
        MaxTime <- MemoryTime, MaxIngests <- MemoryIngests

\* An ordered two-layer rule like NS-CORR-001 and a single-signal rule like
\* NS-CORR-005 with a wider window.
MCRules ==
    << [id |-> "NS-1", name |-> "read-then-net", all |-> <<{read}, {net}>>,
        window |-> 2, ordered |-> TRUE],
       [id |-> "NS-2", name |-> "net", all |-> <<{net}>>, window |-> 1, ordered |-> FALSE] >>

\* A custom rule that reuses a builtin rule's name, and its edited form.
MCSpecs ==
    { [id |-> "C-1", name |-> "net", all |-> <<{read}>>, window |-> 1, ordered |-> FALSE],
      [id |-> "C-1", name |-> "net", all |-> <<{read, net}>>, window |-> 3, ordered |-> FALSE] }

MCSuppressions == { [rule |-> "", kinds |-> {read}] }
MCKinds == {read, net}
ThreadSymmetry == Permutations(Threads)

ruleVars == <<rule, source, signals>>

AtRest == CHOOSE r \in R!CustomRules : r.ordered

RulesAtRest == rule = AtRest /\ source = "custom" /\ signals = <<>>

MCInit ==
    /\ heard = [p \in MemoryPids |-> <<>>]
    /\ \/ focus = "correlator" /\ Init /\ RulesAtRest
       \/ focus = "memory" /\ Memory!InitLearning(TRUE) /\ RulesAtRest
       \/ focus = "rules" /\ Init /\ R!Init

MemoryNext ==
    \/ Memory!Tick /\ UNCHANGED heard
    \/ \E th \in Threads, pid \in MemoryPids, ts \in 0..MemoryTime :
        /\ Memory!Ingest(th, pid, net, ts)
        /\ heard' = [heard EXCEPT ![pid] = Newest(Append(@, [kind |-> net, ts |-> ts]))]

MCNext ==
    \/ focus = "correlator" /\ Next /\ UNCHANGED <<focus, heard, ruleVars>>
    \/ focus = "memory" /\ MemoryNext /\ UNCHANGED <<focus, ruleVars>>
    \/ focus = "rules" /\ R!Next /\ UNCHANGED <<focus, heard, vars>>

MCSpec == MCInit /\ [][MCNext]_<<focus, heard, vars, ruleVars>>

\* evaluate reports only matches in the documented sense, and reports one where
\* "greedy is exact" (rules.go:106) is true; see MCCorrelationRules.
GreedyExact == focus = "rules" => R!GreedyExact

\* More processes than the table is sure to hold were heard at time t or later.
CrowdedSince(t) ==
    Cardinality({q \in MemoryPids : \E s \in Range(heard[q]) : s.ts + Skew >= t})
        > MemorySessions - Dropped(MemorySessions) + 1

\* "so no rule is starved of history" (correlate.go:144), as far as it goes: of a
\* process's last SignalCap signals, every one that a rule's window reaches back
\* to is still held for the rule to match, late arrivals included, except when
\* more processes were heard since than the session table holds.  A chatty
\* process and a crowd starve a rule (correlate.go:326, 349); time alone, a late
\* timestamp, or the eviction of somebody less active does not.  The sessions
\* stay within both bounds.
NoRuleStarved ==
    /\ focus # "memory" => TypeOK
    /\ focus = "memory" =>
        /\ Memory!TypeOK
        /\ \A p \in {q \in MemoryPids : heard[q] # <<>>}, r \in Range(InitialRules) :
            LET latest == Max({s.ts : s \in Range(heard[p])})
                needed == Windowed(r, heard[p], latest)
                held   == IF p \in DOMAIN sessions THEN sessions[p].signals ELSE <<>>
            IN  \/ Windowed(r, held, latest) = needed
                \/ CrowdedSince(Min({s.ts : s \in Range(needed)}))

\* Every rule's scenario trips it, whatever the process did before, and trips
\* no other (validation.go:17-18); see MCCorrelationRules.
ProofOfFire == focus = "rules" => R!ProofOfFire
=============================================================================

----------------------------- MODULE Correlator -----------------------------
(***************************************************************************)
(* The cross-layer correlation engine (pkg/correlate/correlate.go,         *)
(* suppress.go, rulespec.go): per-process windows of signals, rules that   *)
(* fire on them with a cooldown, suppressions, learning mode, the bounds   *)
(* on its memory, and the delivery of findings to the sinks outside the    *)
(* engine's lock by several ingesting goroutines.                          *)
(*                                                                         *)
(* Left out: the two rings the console displays (recent, recentSignals)    *)
(* and the fire and match counters, which nothing in the engine reads.     *)
(***************************************************************************)
EXTENDS CorrelationRules

CONSTANTS
    Threads,         \* goroutines that call Ingest
    Pids,
    IngestKinds,
    InitialRules,    \* the rules the engine starts with, a sequence
    CustomSpecs,     \* rules an operator may install
    SuppressionSpecs,\* [rule, kinds]: rule an id or "" for any
    MinRetention,    \* retention when every rule's window is shorter
    MaxSessions,     \* defaultMaxSessions
    SignalCap,       \* sessionSignalCap
    Reapable,        \* processes whose exit somebody reports with Reap
    Skew,            \* how far behind the clock a signal's timestamp may be
    MaxTime,         \* bound: clock
    MaxIngests,      \* bound: signals
    MaxAdmin         \* bound: operator calls

VARIABLES
    now,          \* wall clock
    sessions,     \* pid -> [signals, lastActive], for the tracked pids
    lastFired,    \* <<pid, rule name>> -> timestamp
    rules, enabled, custom, suppressions,
    learning,
    maxWindow,
    pending,      \* per goroutine: findings it has yet to hand to the sinks
    ingests, admin,  \* how many calls so far
    reapedAt,     \* history: how many findings there were when a pid was last reaped
    fired,        \* history: findings recorded, in order
    owed,         \* history: those recorded outside learning mode
    delivered     \* history: findings handed to the sinks, in order

cfgVars == <<rules, enabled, custom, suppressions, maxWindow>>
vars == <<now, sessions, lastFired, rules, enabled, custom, suppressions, learning,
          maxWindow, pending, ingests, admin, reapedAt, fired, owed, delivered>>

RuleIds == {r.id : r \in Range(InitialRules) \cup CustomSpecs}

Put(f, k, v) == [x \in DOMAIN f \cup {k} |-> IF x = k THEN v ELSE f[x]]
Without(f, ks) == [x \in DOMAIN f \ ks |-> f[x]]

fireKey(pid, name) == <<pid, name>>
fireKeyPrefix(pid) == <<pid, "">>

-----------------------------------------------------------------------------
\* Ingest makes room before it creates a session.
NeedsEviction(pid) ==
    pid \notin DOMAIN sessions /\ Cardinality(DOMAIN sessions) >= MaxSessions

\* How many sessions go when n are too many: a quarter, at least one.
Dropped(n) == Max({1, n \div 4})

\* (mutant) the sessions that go are the most recently active ones
EvictionChoicesNewest ==
    {D \in SUBSET DOMAIN sessions :
        /\ Cardinality(D) = Dropped(Cardinality(DOMAIN sessions))
        /\ \A p \in D, q \in DOMAIN sessions \ D :
                sessions[p].lastActive >= sessions[q].lastActive}

\* evictLocked: the least recently active ones; ties are broken by no rule.
EvictionChoices ==
    {D \in SUBSET DOMAIN sessions :
        /\ Cardinality(D) = Dropped(Cardinality(DOMAIN sessions))
        /\ \A p \in D, q \in DOMAIN sessions \ D :
                sessions[p].lastActive <= sessions[q].lastActive}

\* The most recent SignalCap.
Newest(signals) == SubSeq(signals, Max({1, Len(signals) - SignalCap + 1}), Len(signals))

\* pruneLocked: drop the leading signals older than maxWindow, then all but the
\* newest.  The signal just appended is never that old.
pruneLocked(signals, t) ==
    LET keep == {i \in DOMAIN signals : signals[i].ts + maxWindow >= t}
    IN  Newest(SubSeq(signals, Min(keep), Len(signals)))

\* suppressedLocked
Suppressed(f) ==
    \E s \in suppressions :
        /\ s.rule \in {"", f.rule}
        /\ \E i \in DOMAIN f.chain : f.chain[i].kind \in s.kinds

CoolingDown(last, pid, rule, t) ==
    LET key == fireKey(pid, rule.name)
    IN  key \in DOMAIN last /\ t < last[key] + rule.window

\* (mutant) no cooldown
EvaluateRulesRestorm(pid, signals, s) ==
    LET Step(acc, rule) ==
            LET f == [rule |-> rule.id, name |-> rule.name, pid |-> pid, ts |-> s.ts,
                      window |-> rule.window, chain |-> evaluate(rule, signals, s.ts)]
            IN  IF ~enabled[rule.id] \/ ~touchedBy(rule, s) \/ f.chain = <<>> \/ Suppressed(f)
                THEN acc
                ELSE [last  |-> Put(acc.last, fireKey(pid, rule.name), s.ts),
                      found |-> Append(acc.found, f)]
    IN  FoldLeft(Step, [last |-> lastFired, found |-> <<>>], rules)

\* Ingest's loop over the rules: each firing starts the cooldown of its name,
\* which a later rule of the same name already observes.
EvaluateRules(pid, signals, s) ==
    LET Step(acc, rule) ==
            LET f == [rule |-> rule.id, name |-> rule.name, pid |-> pid, ts |-> s.ts,
                      window |-> rule.window, chain |-> evaluate(rule, signals, s.ts)]
            IN  IF \/ ~enabled[rule.id]
                   \/ ~touchedBy(rule, s)
                   \/ f.chain = <<>>
                   \/ CoolingDown(acc.last, pid, rule, s.ts)
                   \/ Suppressed(f)
                THEN acc
                ELSE [last  |-> Put(acc.last, fireKey(pid, rule.name), s.ts),
                      found |-> Append(acc.found, f)]
    IN  FoldLeft(Step, [last |-> lastFired, found |-> <<>>], rules)

-----------------------------------------------------------------------------
\* The engine as it starts, in learning mode or not.
InitLearning(mode) ==
    /\ now = 0
    /\ sessions = <<>> /\ lastFired = <<>>
    /\ rules = InitialRules
    /\ enabled = [id \in {r.id : r \in Range(InitialRules)} |-> TRUE]
    /\ custom = {}
    /\ suppressions = {}
    /\ learning = mode
    /\ maxWindow = Max({MinRetention} \cup {r.window : r \in Range(InitialRules)})
    /\ pending = [th \in Threads |-> <<>>]
    /\ ingests = 0 /\ admin = 0
    /\ reapedAt = [p \in Pids |-> 0]
    /\ fired = <<>> /\ owed = <<>> /\ delivered = <<>>

Init == InitLearning(FALSE)

Tick == now < MaxTime /\ now' = now + 1 /\ UNCHANGED
    <<sessions, lastFired, cfgVars, learning, pending, ingests, admin, reapedAt, fired, owed,
      delivered>>

\* Ingest up to the unlock; in learning mode the sinks get nothing.
Ingest(th, pid, kind, ts) ==
    /\ pending[th] = <<>> /\ ingests < MaxIngests
    /\ ts <= now /\ now <= ts + Skew
    /\ \E D \in IF NeedsEviction(pid) THEN EvictionChoices ELSE {{}} :
        LET kept  == Without(sessions, D)
            s     == [kind |-> kind, ts |-> ts]
            old   == IF pid \in DOMAIN kept THEN kept[pid].signals ELSE <<>>
            sigs  == pruneLocked(Append(old, s), ts)
            r     == EvaluateRules(pid, sigs, s)
        IN  /\ sessions' = Put(kept, pid, [signals |-> sigs, lastActive |-> ts])
            /\ lastFired' = Without(r.last, {fireKeyPrefix(p) : p \in D})
            /\ fired' = fired \o r.found
            /\ owed' = IF learning THEN owed ELSE owed \o r.found
            /\ pending' = [pending EXCEPT ![th] = IF learning THEN <<>> ELSE r.found]
    /\ ingests' = ingests + 1
    /\ UNCHANGED <<now, cfgVars, learning, admin, reapedAt, delivered>>

\* (mutant) the finding handed over stays queued
DeliverKeepsHead(th) ==
    /\ pending[th] # <<>>
    /\ delivered' = Append(delivered, Head(pending[th]))
    /\ UNCHANGED <<now, sessions, lastFired, cfgVars, learning, pending, ingests, admin,
                   reapedAt, fired, owed>>

\* onFinding for one finding, outside the lock.
Deliver(th) ==
    /\ pending[th] # <<>>
    /\ delivered' = Append(delivered, Head(pending[th]))
    /\ pending' = [pending EXCEPT ![th] = Tail(@)]
    /\ UNCHANGED <<now, sessions, lastFired, cfgVars, learning, ingests, admin, reapedAt,
                   fired, owed>>

\* Reap: the session goes; the cooldown key deleted is "pid:" with no name.
Reap(pid) ==
    /\ pid \in Reapable /\ pid \in DOMAIN sessions
    /\ sessions' = Without(sessions, {pid})
    /\ lastFired' = Without(lastFired, {fireKeyPrefix(pid)})
    /\ reapedAt' = [reapedAt EXCEPT ![pid] = Len(fired)]
    /\ UNCHANGED <<now, cfgVars, learning, pending, ingests, admin, fired, owed, delivered>>

-----------------------------------------------------------------------------
\* The operator's calls, each under the lock.
Admin ==
    /\ admin < MaxAdmin /\ admin' = admin + 1
    /\ UNCHANGED <<now, sessions, lastFired, pending, ingests, reapedAt, fired, owed, delivered>>

SetLearningMode ==
    Admin /\ learning' = ~learning /\ UNCHANGED cfgVars

SetEnabled(id) ==
    /\ Admin /\ id \in DOMAIN enabled
    /\ enabled' = [enabled EXCEPT ![id] = ~@]
    /\ UNCHANGED <<rules, custom, suppressions, maxWindow, learning>>

AddRule(spec) ==
    /\ Admin /\ spec.id \notin DOMAIN enabled
    /\ rules' = Append(rules, spec)
    /\ enabled' = Put(enabled, spec.id, TRUE)
    /\ custom' = custom \cup {spec.id}
    /\ maxWindow' = Max({maxWindow, spec.window})
    /\ UNCHANGED <<suppressions, learning>>

UpdateRule(spec) ==
    /\ Admin /\ spec.id \in custom
    /\ rules' = [i \in DOMAIN rules |-> IF rules[i].id = spec.id THEN spec ELSE rules[i]]
    /\ maxWindow' = Max({maxWindow, spec.window})
    /\ UNCHANGED <<enabled, custom, suppressions, learning>>

RemoveRule(id) ==
    /\ Admin /\ id \in custom
    /\ rules' = SelectSeq(rules, LAMBDA r : r.id # id)
    /\ enabled' = Without(enabled, {id})
    /\ custom' = custom \ {id}
    /\ UNCHANGED <<suppressions, maxWindow, learning>>

AddSuppression(s) ==
    /\ Admin /\ s \notin suppressions
    /\ suppressions' = suppressions \cup {s}
    /\ UNCHANGED <<rules, enabled, custom, maxWindow, learning>>

RemoveSuppression(s) ==
    /\ Admin /\ s \in suppressions
    /\ suppressions' = suppressions \ {s}
    /\ UNCHANGED <<rules, enabled, custom, maxWindow, learning>>

Next ==
    \/ Tick
    \/ \E th \in Threads :
        \/ \E pid \in Pids, kind \in IngestKinds, ts \in 0..MaxTime : Ingest(th, pid, kind, ts)
        \/ Deliver(th)
    \/ \E pid \in Pids : Reap(pid)
    \/ SetLearningMode
    \/ \E id \in RuleIds : SetEnabled(id) \/ RemoveRule(id)
    \/ \E spec \in CustomSpecs : AddRule(spec) \/ UpdateRule(spec)
    \/ \E s \in SuppressionSpecs : AddSuppression(s) \/ RemoveSuppression(s)

Spec == Init /\ [][Next]_vars

-----------------------------------------------------------------------------
Signal == [kind : IngestKinds, ts : Nat]

TypeOK ==
    /\ now \in Nat /\ learning \in BOOLEAN /\ maxWindow \in Nat
    /\ DOMAIN sessions \subseteq Pids
    /\ \A p \in DOMAIN sessions :
        /\ sessions[p].signals \in Seq(Signal) /\ sessions[p].signals # <<>>
        /\ Len(sessions[p].signals) <= SignalCap
        /\ sessions[p].lastActive \in Nat
    /\ Cardinality(DOMAIN sessions) <= MaxSessions
    /\ \A k \in DOMAIN lastFired : k[1] \in Pids /\ lastFired[k] \in Nat
    /\ Range(rules) \subseteq Range(InitialRules) \cup CustomSpecs
    /\ custom \subseteq RuleIds /\ suppressions \subseteq SuppressionSpecs
    /\ \A th \in Threads : Range(pending[th]) \subseteq Range(owed)

\* Two findings of the same process and rule name are at least the later one's
\* window apart, whatever is suppressed, disabled, learned or evicted between
\* them and in whatever order the timestamps arrive: no episode restorms.  What
\* follows a Reap belongs to another process, of which nothing is said.
CooldownKept ==
    \A i, j \in DOMAIN fired :
        /\ i < j /\ fired[i].name = fired[j].name
        /\ fired[i].pid = fired[j].pid /\ reapedAt[fired[i].pid] < i
        => fired[j].ts >= fired[i].ts + fired[j].window

\* A finding recorded outside learning mode is handed to the sinks exactly
\* once; one recorded in learning mode never is, even if learning mode ends
\* while goroutines are between the lock and the sinks.
DeliveredOnce ==
    LET Count(s, f) == Cardinality({i \in DOMAIN s : s[i] = f})
    IN  \A f \in Range(fired) :
            Count(delivered, f) + Cardinality({th \in Threads : f \in Range(pending[th])})
                = Count(owed, f)
=============================================================================

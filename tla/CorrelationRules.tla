-------------------------- MODULE CorrelationRules --------------------------
(***************************************************************************)
(* Rule matching of the correlation engine (pkg/correlate/rules.go), and   *)
(* what the rules' documentation says a match is.                          *)
(*                                                                         *)
(* A matcher's layer, kind and attribute predicate together accept a set   *)
(* of signal kinds; a matcher is that set.  A signal is its kind and its   *)
(* timestamp (the process it belongs to is the session that holds it).     *)
(***************************************************************************)
EXTENDS Naturals, Sequences, FiniteSets, SequencesExt

\* A rule: [id, name, all, window, ordered], all a sequence of matchers.

\* Matcher.matches
matches(m, s) == s.kind \in m

\* Rule.touchedBy: the signal can contribute to the rule.
touchedBy(rule, s) == \E i \in DOMAIN rule.all : matches(rule.all[i], s)

\* (mutant) signals of any age are looked at
WindowedAll(rule, signals, now) == signals

\* The signals no older than the rule's window, in arrival order.
Windowed(rule, signals, now) ==
    SelectSeq(signals, LAMBDA s : s.ts + rule.window >= now)

\* Each matcher in turn takes the first unused signal it matches; 0 is none.
GreedyPick(rule, win) ==
    LET pick[i \in DOMAIN rule.all] ==
            LET free == {j \in DOMAIN win :
                            /\ matches(rule.all[i], win[j])
                            /\ \A k \in 1..(i - 1) : pick[k] # j}
            IN  IF free = {} THEN 0 ELSE Min(free)
    IN  pick

\* (mutant) equal timestamps do not count as ordered
evaluateStrictOrder(rule, signals, now) ==
    LET win  == Windowed(rule, signals, now)
        pick == GreedyPick(rule, win)
    IN  IF /\ \A i \in DOMAIN pick : pick[i] # 0
           /\ rule.ordered =>
                \A i \in 2..Len(rule.all) : win[pick[i]].ts > win[pick[i - 1]].ts
        THEN [i \in DOMAIN pick |-> win[pick[i]]]
        ELSE <<>>

\* Rule.evaluate: the chain matched, or the empty sequence when the rule does
\* not fire (a rule has at least one matcher, so a chain is never empty).
evaluate(rule, signals, now) ==
    LET win  == Windowed(rule, signals, now)
        pick == GreedyPick(rule, win)
    IN  IF /\ \A i \in DOMAIN pick : pick[i] # 0
           /\ rule.ordered =>
                \A i \in 2..Len(rule.all) : win[pick[i]].ts >= win[pick[i - 1]].ts
        THEN [i \in DOMAIN pick |-> win[pick[i]]]
        ELSE <<>>

Fires(rule, signals, now) == evaluate(rule, signals, now) # <<>>

-----------------------------------------------------------------------------
(* The reference: what the comment on Rule (rules.go:33-35) says a match   *)
(* is.  It knows nothing of the time a rule is evaluated at.               *)

\* The signals picked by f satisfy the matchers, each its own, lie within Window
\* of one another and, in an ordered rule, occur in matcher order.
IsMatch(rule, signals, f) ==
    /\ \A i, k \in DOMAIN f : i # k => f[i] # f[k]
    /\ \A i \in DOMAIN f : matches(rule.all[i], signals[f[i]])
    /\ \A i, k \in DOMAIN f : signals[f[i]].ts <= signals[f[k]].ts + rule.window
    /\ rule.ordered => \A i \in 2..Len(rule.all) : signals[f[i]].ts >= signals[f[i - 1]].ts

Satisfied(rule, signals) ==
    \E f \in [DOMAIN rule.all -> DOMAIN signals] : IsMatch(rule, signals, f)

\* The last signal completes a match.
Completed(rule, signals) ==
    \E f \in [DOMAIN rule.all -> DOMAIN signals] :
        IsMatch(rule, signals, f) /\ \E i \in DOMAIN f : f[i] = Len(signals)

\* No signal satisfies two matchers of the rule.
Distinct(rule) ==
    \A i, k \in DOMAIN rule.all : i # k => rule.all[i] \cap rule.all[k] = {}
=============================================================================

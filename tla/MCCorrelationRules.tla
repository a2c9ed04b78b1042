------------------------- MODULE MCCorrelationRules -------------------------
(***************************************************************************)
(* Rule.evaluate against its documented meaning, for the builtin rules and *)
(* for every rule of two matchers over two kinds, over every history of at *)
(* most MaxSignals signals that one source can hand to one session.        *)
(*                                                                         *)
(* Only signals that touch the rule arrive, for evaluate picks no others,  *)
(* and of the kinds that satisfy the same matchers one stands for all.     *)
(* Timestamps are the ends of the rule's window and next to them; a kernel *)
(* signal is stamped when it is ingested, a dataset is in any order.       *)
(***************************************************************************)
EXTENDS Detections

CONSTANTS MaxSignals

VARIABLES rule, source, signals

CustomKinds == {"read", "net"}
CustomRules ==
    LET Matchers == {{k} : k \in CustomKinds} \cup {CustomKinds}
    IN  {[id |-> "custom", all |-> m, window |-> 2, ordered |-> o] : m \in [1..2 -> Matchers], o \in BOOLEAN}

Init ==
    /\ \/ rule \in BuiltinRules /\ source \in Sources
       \/ rule \in CustomRules /\ source = "custom"
    /\ signals = <<>>

Now == IF signals = <<>> THEN 0 ELSE signals[Len(signals)].ts

\* The matchers of the rule that accept a kind; a kind for each such set
Accepts(k) == {i \in DOMAIN rule.all : k \in rule.all[i]}
Kinds ==
    LET all == IF source = "custom" THEN CustomKinds ELSE Emitted(source)
    IN  {CHOOSE k \in all : Accepts(k) = a : a \in {Accepts(k) : k \in all}}

\* A further signal is ingested into the session.
Arrive ==
    /\ Len(signals) < MaxSignals
    /\ \E k \in Kinds, t \in {0, 1, rule.window, rule.window + 1} :
        /\ source = "kernel" => t >= Now
        /\ touchedBy(rule, [kind |-> k])
        /\ signals' = Append(signals, [kind |-> k, ts |-> t])
    /\ UNCHANGED <<rule, source>>

Next == Arrive
Spec == Init /\ [][Next]_<<rule, source, signals>>

InTimeOrder == \A i \in 2..Len(signals) : signals[i - 1].ts <= signals[i].ts

\* On signals ingested in time order evaluate never fires without cause: what it
\* reports is a match in the documented sense.  And "greedy is exact"
\* (rules.go:106) where it is true, in whatever order signals arrive: a rule with
\* distinct matchers fires on the signal that completes a match if it asks for
\* no order, or no matcher has more than one signal to choose from.
GreedyExact ==
    /\ InTimeOrder /\ Fires(rule, signals, Now) => Satisfied(rule, signals)
    /\ /\ Distinct(rule) /\ Completed(rule, signals)
       /\ \/ ~rule.ordered
          \/ \A i \in DOMAIN rule.all :
                Cardinality({j \in DOMAIN signals : matches(rule.all[i], signals[j])}) <= 1
       => Fires(rule, signals, Now)

\* ValidateRules, in a session that is not fresh: whatever a process did before
\* the rule's window, the scenario of the rule trips it; and "exactly the rule
\* named" (validation.go:17-18), none of the others, at any of its signals.
ProofOfFire ==
    \A sc \in {s \in BuiltinScenarios : signals = <<>> \/ s.id = rule.id} :
        LET later  == Max({s.ts : s \in Range(signals)} \cup {0}) + rule.window + 1
            chain  == ScenarioSignals(sc, later)
            Trips(r, held, n) == Fires(r, held \o SubSeq(chain, 1, n), chain[n].ts)
        IN  IF sc.id = rule.id THEN Trips(rule, signals, Len(chain))
            ELSE rule \in BuiltinRules => \A n \in DOMAIN chain : ~Trips(rule, <<>>, n)

\* "Rule fires when every matcher in All is satisfied by a distinct signal from
\* the same process within Window. When Ordered is true the matched signals
\* must occur in matcher order" (rules.go:33-35), for the builtin rules on
\* signals that are ingested in time order.
FiresWhenSatisfied ==
    rule \in BuiltinRules /\ InTimeOrder /\ Completed(rule, signals) => Fires(rule, signals, Now)

\* The same sentence read the other way, for signals in the order of a dataset:
\* a builtin rule fires only when its matchers are satisfied within Window.
FiresWithinWindow ==
    rule \in BuiltinRules /\ Fires(rule, signals, Now) => Satisfied(rule, signals)
=============================================================================

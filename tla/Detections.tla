----------------------------- MODULE Detections -----------------------------
(***************************************************************************)
(* The builtin rules of the correlation engine (pkg/correlate/rules.go),   *)
(* the scenarios that prove them (validation.go), and where signals come   *)
(* from: kernel events (eventToSignal in pkg/agent/controller.go) and      *)
(* imported datasets (pkg/replay).                                         *)
(*                                                                         *)
(* The kind of a signal is its layer, its Kind and what the predicates of  *)
(* the rules find out from its attributes, such as that the path is a      *)
(* secret's or the destination external.  Time is in seconds.              *)
(***************************************************************************)
EXTENDS CorrelationRules

Sig(layer, kind, is) == [layer |-> layer, kind |-> kind, is |-> is]

\* What a path may be said to be, all at once even: "/host/.env.bin"
PathFacts == {"secret", "model", "escape"}

Reads    == {Sig("kernel_file", "file_read", is) : is \in SUBSET PathFacts}
Connects == {Sig("kernel_net", "net_connect", is) : is \in SUBSET {"external"}}
Execs    == {Sig("kernel_proc", "exec", is) : is \in SUBSET {"shell"}}

----------------------------------------------------------------------------
(* Where signals come from *)

\* eventToSignal: the path or the destination is the only attribute it sets.
eventToSignal(type) ==
    CASE type \in {"file_access", "file_blocked"} -> Reads
      [] type \in {"network_allowed", "network_blocked"} -> Connects
      [] type = "model_load" -> {Sig("model", "load", {})}
      [] OTHER -> {}

\* Of these types the reader parses them all; but the one ring it opens is the
\* LSM program's, and the one hook attached reports every match as file_blocked.
RingTypes == {"file_blocked"}

KernelSignals == UNION {eventToSignal(type) : type \in RingTypes}

\* The adapters of newline-delimited JSON, each for one shape of record
HostTelemetryAdapter   == Connects \cup Execs \cup Reads
PromptInjectionAdapter == {Sig("ai", "prompt", is) : is \in SUBSET {"injection"}}
MCPToolAdapter         == {Sig("mcp", "tool_call", is) : is \in SUBSET {"injection"}}
CombinedAdapter        == MCPToolAdapter \cup HostTelemetryAdapter \cup PromptInjectionAdapter

\* ReadAuditd drops the address of a connection
ReadAuditd == Execs \cup {Sig("kernel_net", "net_connect", {})} \cup Reads

Sources == {"kernel", "ndjson", "auditd"}

Emitted(source) ==
    CASE source = "kernel" -> KernelSignals
      [] source = "ndjson" -> CombinedAdapter
      [] source = "auditd" -> ReadAuditd

----------------------------------------------------------------------------
(* BuiltinScenarios: each names a rule and a chain that is to trip it, one    *)
(* signal after the other, gap seconds apart.                                 *)

Scenario(id, gap, kinds) == [id |-> id, gap |-> gap, kinds |-> kinds]

BuiltinScenarios ==
    LET toolCall == Sig("mcp", "tool_call", {})
        external == Sig("kernel_net", "net_connect", {"external"})
    IN  { Scenario("001", 1, <<Sig("kernel_file", "file_read", {"secret"}),
                               Sig("kernel_net", "net_connect", {"ai_provider"})>>),
          Scenario("002", 1, <<toolCall, external>>),
          Scenario("003", 1, <<toolCall, Sig("kernel_proc", "exec", {})>>),
          Scenario("004", 2, <<Sig("ai", "prompt", {"injection"}), Sig("kernel_proc", "exec", {"shell"})>>),
          Scenario("005", 1, <<Sig("model", "load", {"unverified"})>>),
          Scenario("006", 1, <<Sig("model", "pickle_load", {}), Sig("kernel_proc", "exec", {"shell"})>>),
          Scenario("007", 3, <<Sig("kernel_file", "file_read", {"model"}), external>>),
          Scenario("008", 1, <<Sig("kernel_proc", "exec", {"shell"}), external>>),
          Scenario("009", 1, <<Sig("kernel_file", "file_open", {"escape"})>>),
          Scenario("010", 1, <<Sig("kernel_net", "net_connect", {"shadow_ai", "external"})>>),
          Scenario("011", 1, <<toolCall, Sig("kernel_file", "file_read", {"secret"})>>) }

\* The signals of a scenario that begins at time t
ScenarioSignals(scenario, t) ==
    [i \in DOMAIN scenario.kinds |-> [kind |-> scenario.kinds[i], ts |-> t + (i - 1) * scenario.gap]]

----------------------------------------------------------------------------
(* BuiltinRules: a matcher is the set of the kinds it accepts, "any" for an   *)
(* empty layer or kind.                                                       *)

SignalKinds ==
    UNION {Emitted(s) : s \in Sources} \cup UNION {Range(sc.kinds) : sc \in BuiltinScenarios}

\* A predicate is the set of the kinds it holds of
Having(attribute)     == {s \in SignalKinds : attribute \in s.is}
NoPred                == SignalKinds
pathIsSecret          == Having("secret")
pathIsModel           == Having("model")
pathIsContainerEscape == Having("escape")
commIsShell           == Having("shell")
dstIsExternal         == Having("external")
isUnsanctionedAI      == {s \in Having("shadow_ai") : s.layer = "kernel_net"}
isLLMBound            == {s \in SignalKinds : s.layer = "ai" \/ (s.layer = "kernel_net" /\ "ai_provider" \in s.is)}
isInjectionFlagged    == Having("injection")
isKernelSideEffect    == {s \in SignalKinds : s.layer \in {"kernel_proc", "kernel_net"}}
modelUnverified       == Having("unverified")

Matcher(layer, kind, pred) ==
    {s \in pred : layer \in {"any", s.layer} /\ kind \in {"any", s.kind}}

BuiltinRules ==
    LET Rule(id, all, window, ordered) == [id |-> id, all |-> all, window |-> window, ordered |-> ordered]
        toolCall == Matcher("mcp", "tool_call", NoPred)
        exec     == Matcher("kernel_proc", "exec", NoPred)
        external == Matcher("kernel_net", "net_connect", dstIsExternal)
        secret   == Matcher("kernel_file", "file_read", pathIsSecret)
    IN  { Rule("001", <<secret, Matcher("any", "any", isLLMBound)>>, 10, TRUE),
          Rule("002", <<toolCall, external>>, 5, TRUE),
          Rule("003", <<toolCall, exec>>, 3, TRUE),
          Rule("004", <<Matcher("any", "any", isInjectionFlagged), Matcher("any", "any", isKernelSideEffect)>>, 8, TRUE),
          Rule("005", <<Matcher("model", "load", modelUnverified)>>, 1, FALSE),
          Rule("006", <<Matcher("model", "pickle_load", NoPred), exec>>, 4, TRUE),
          Rule("007", <<Matcher("kernel_file", "file_read", pathIsModel), external>>, 15, TRUE),
          Rule("008", <<Matcher("kernel_proc", "exec", commIsShell), external>>, 3, FALSE),
          Rule("009", <<Matcher("kernel_file", "any", pathIsContainerEscape)>>, 1, FALSE),
          Rule("010", <<Matcher("kernel_net", "net_connect", isUnsanctionedAI)>>, 1, FALSE),
          Rule("011", <<toolCall, secret>>, 5, TRUE) }
=============================================================================

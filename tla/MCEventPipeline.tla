-------------------------- MODULE MCEventPipeline --------------------------
EXTENDS EventPipeline

E(t, p) == [type |-> t, pid |-> p]
R(on, t, exts, a) == [enabled |-> on, type |-> t, exts |-> exts, action |-> a]

\* Blocked accesses of two processes, one that was not blocked, a model load,
\* and a record that does not parse
MCKinds == {E("file_blocked", 1), E("file_blocked", 2), E("file_access", 1), E("model_load", 1),
            E("unknown", 1)}

\* A disabled rule, the builtin rule for model files, and two rules for one type
MCPolicy == <<R(FALSE, "file_access", {}, "block"), R(TRUE, "file_access", {".gguf"}, "block"),
              R(TRUE, "model_load", {}, "alert"), R(TRUE, "model_load", {}, "allow")>>
============================================================================

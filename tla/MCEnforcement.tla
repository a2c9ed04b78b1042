--------------------------- MODULE MCEnforcement ---------------------------
(***************************************************************************)
(* Instances of Enforcement: two configurations that differ in everything,   *)
(* either of which fills the map of extensions; one has an extension without *)
(* a key.  PID 1 is the agent's.                                             *)
(***************************************************************************)
EXTENDS Enforcement

MCConfigs == {[exts |-> {"pt"}, pids |-> {}, ips |-> {"ip"}, enforce |-> TRUE, block |-> TRUE],
              [exts |-> {"st", "longest"}, pids |-> {2}, ips |-> {}, enforce |-> FALSE, block |-> FALSE]}
=============================================================================

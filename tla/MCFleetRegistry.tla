-------------------------- MODULE MCFleetRegistry --------------------------
(***************************************************************************)
(* Instances of FleetRegistry: this node in the lower half of the buckets,   *)
(* the remote agents in the upper one.                                      *)
(***************************************************************************)
EXTENDS FleetRegistry

MCBucket   == [id \in Ids |-> IF id = Self THEN 20 ELSE 70]
MCPercents == {-1, 50}

----------------------------------------------------------------------------
(* A rollout that is started and aborted, with no other request            *)

AbortedInit == Init /\ ~learning
AbortedNext ==
    \/ Ticking
    \/ \E m \in Asked, p \in Percents : StartRollout(m, p)
    \/ AbortRollout
AbortedSpec == AbortedInit /\ [][AbortedNext]_vars /\ WF_vars(Ticking)

\* "AbortRollout discards the pending canary; agents revert to stable state."
\* (registry.go:116): once its rollout is aborted, this node is for good in the
\* learning mode of the stable state, or in its own when that one asks for none.
AbortReverts ==
    admin = MaxAdmin /\ pending = NoRollout ~> [](learning = (desired.mode = "on"))
=============================================================================

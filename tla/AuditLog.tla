------------------------------ MODULE AuditLog ------------------------------
(***************************************************************************)
(* What the durable audit store promises to its readers, with nothing said *)
(* about rings, restarts or files: a table of rows keyed by sequence       *)
(* number to which a row is only ever added, above every row already       *)
(* there, and never changed or removed.                                    *)
(***************************************************************************)
EXTENDS Naturals

CONSTANT Row      \* the rows a store can hold

VARIABLE log      \* a function from the sequence numbers in use to rows

Init == log = [s \in {} |-> Row]

\* One row is added, above all the others, which stay as they are.
Extend ==
    \E s \in DOMAIN log' :
        /\ DOMAIN log' = DOMAIN log \cup {s}
        /\ s \in Nat /\ log'[s] \in Row
        /\ \A t \in DOMAIN log : t < s /\ log'[t] = log[t]

Spec == Init /\ [][Extend]_log
=============================================================================

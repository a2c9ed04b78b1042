----------------------------- MODULE MCGateway -----------------------------
(***************************************************************************)
(* Two small instances of Gateway.  In the focus "ledger" two handlers serve  *)
(* three requests from end to end.  In the focus "rate" they serve more       *)
(* requests, one at a time and over more minutes, and get no further than the *)
(* missing key: what Allow decides is all there is to the rate.              *)
(***************************************************************************)
EXTENDS Gateway, TLC

CONSTANTS h1, h2,
    RateEstimates, RateTime, RateRequests    \* for the focus "rate"

VARIABLE focus

\* Two requests a minute and three tokens a day, or the tokens only
MCQuotas == {[rpm |-> 2, tpd |-> 3], [rpm |-> 0, tpd |-> 3]}

Rate == INSTANCE Gateway WITH MaxTime <- RateTime, MaxRequests <- RateRequests, MaxAdmin <- 1

\* An estimate over the day's tokens is refused, and opens a window all the same
RateNext ==
    \/ Rate!Clock
    \/ \E t \in Tenants, q \in Quotas : q.rpm > 0 /\ Rate!SetQuota(t, q)
    \/ \E h \in Handlers :
        /\ \A g \in Handlers \ {h} : handler[g] = Idle
        /\ \/ Rate!Forward(h)
           \/ \E t \in Tenants, p \in Allowed, e \in RateEstimates : Rate!Admit(h, t, p, e) \/ Rate!RefuseQuota(h, t, p, e)

MCInit == Init /\ focus \in {"ledger", "rate"}
MCNext ==
    /\ \/ focus = "ledger" /\ Next
       \/ focus = "rate" /\ RateNext
    /\ UNCHANGED focus
MCSpec == MCInit /\ [][MCNext]_<<vars, focus>>

HandlerSymmetry == Permutations({h1, h2})
============================================================================

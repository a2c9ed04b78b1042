--------------------------- MODULE EventPipeline ---------------------------
(***************************************************************************)
(* The way of a kernel event: send_event_with_filename puts it in the BPF    *)
(* ring buffer, readBPFEvents parses it and offers it to eventChan,          *)
(* processEvents takes it and handleEvent samples, records and alerts; and   *)
(* Stop, which ends all of this (pkg/bpf/neurosentry_lsm.c,                  *)
(* pkg/agent/controller.go, pkg/agent/metrics.go).                           *)
(*                                                                         *)
(* An event is its number in the order of emission; event[n] is what it      *)
(* says.  What recordAudit and the correlator do with a recorded event is in *)
(* AuditChain and Correlator.                                                *)
(***************************************************************************)
EXTENDS Integers, Sequences, FiniteSets, FiniteSetsExt

CONSTANTS
    Kinds,              \* the records that occur: [type, pid]
    Policy,             \* the policy's rules, in order: [enabled, type, exts, action]
    RingCap,            \* room in the ring buffer
    ChanCap,            \* capacity of eventChan
    RateNum, RateDen,   \* agent.event_sample_rate is RateNum/RateDen
    Silence,            \* agent.alert_silence_sec
    MaxEvents,          \* bound on events
    MaxTime             \* bound on the clock

EventTypes == {"file_access", "file_blocked", "network_allowed", "network_blocked",
               "model_load", "pickle_load", "pickle_dangerous"}

\* Load refuses any other policy: there is a rule, and each says what to do
ValidPolicy(rules) ==
    rules # <<>> /\ \A i \in DOMAIN rules : rules[i].action \in {"allow", "alert", "block"}

ASSUME PipelineAssumption ==
    /\ {RingCap, ChanCap, RateNum, RateDen} \subseteq Nat \ {0} /\ RateNum <= RateDen
    /\ {Silence, MaxEvents, MaxTime} \subseteq Nat
    /\ \A k \in Kinds : k.type \in EventTypes \cup {"unknown"}
    /\ ValidPolicy(Policy)

VARIABLES
    now,
    event,          \* the events emitted so far
    ring,           \* the ring buffer
    rdClosed,       \* the ring buffer reader is closed
    reader,         \* readBPFEvents: "read", "send" or "done"
    inHand,         \* the event it is about to send
    eventChan, chanClosed,
    processor,      \* processEvents: "select", "handle" or "done"
    current,        \* the event in handleEvent
    sampleCount,    \* EventProcessor.sampleCount
    cancelled,      \* ctx is done
    stop,           \* the stage of Stop
    dropped,        \* neurosentry_events_dropped_total by reason
    lastAlert,      \* AlertManager.lastAlert, a function on the keys alerted so far
    handled,        \* events recorded by handleEvent, in order
    sampledOut,     \* events handleEvent skipped
    lost,           \* events no ring buffer space was found for
    abandoned,      \* events the pipeline held when it stopped
    alerts,         \* webhooks started: [id, at]
    handledAt       \* when each recorded event was handled

kernelVars == <<event, ring, lost>>
readerVars == <<reader, inHand, rdClosed>>
procVars   == <<processor, current, sampleCount, handled, handledAt, sampledOut>>
alertVars  == <<lastAlert, alerts>>
stopVars   == <<cancelled, stop, chanClosed>>
vars == <<now, kernelVars, readerVars, procVars, alertVars, stopVars, eventChan, dropped, abandoned>>

Ids == 1..Len(event)
None == 0

\* (mutant) alerts are silenced by type only
KeyByType(n) == <<event[n].type>>

\* What AlertManager silences alerts by
Key(n) == <<event[n].type, event[n].pid>>

\* ParseEvent knows the type; the parser of each type sets the severity
Valid(n) == event[n].type \in EventTypes
High(n)  == event[n].type \in {"file_blocked", "network_blocked", "pickle_dangerous"}

Init ==
    /\ now = 0 /\ event = <<>> /\ ring = <<>> /\ lost = {}
    /\ reader = "read" /\ inHand = None /\ rdClosed = FALSE
    /\ processor = "select" /\ current = None /\ sampleCount = 0
    /\ handled = <<>> /\ handledAt = <<>> /\ sampledOut = {}
    /\ lastAlert = <<>> /\ alerts = {}
    /\ cancelled = FALSE /\ stop = "running" /\ chanClosed = FALSE
    /\ eventChan = <<>> /\ dropped = [parse_error |-> 0, event_chan_full |-> 0] /\ abandoned = {}

Clock ==
    /\ now < MaxTime
    /\ now' = now + 1
    /\ UNCHANGED <<kernelVars, readerVars, procVars, alertVars, stopVars, eventChan, dropped, abandoned>>

\* bpf_ringbuf_reserve fails when the buffer is full, and the event is given up
\* without a trace
send_event(n) ==
    IF Len(ring) < RingCap
    THEN ring' = Append(ring, n) /\ UNCHANGED lost
    ELSE lost' = lost \cup {n} /\ UNCHANGED ring

\* A hook fires and reports it
Emit(k) ==
    /\ Len(event) < MaxEvents
    /\ event' = Append(event, k)
    /\ send_event(Len(event) + 1)
    /\ UNCHANGED <<now, readerVars, procVars, alertVars, stopVars, eventChan, dropped, abandoned>>

----------------------------------------------------------------------------
(* readBPFEvents *)

\* The goroutine that waits for ctx to close the reader
CloseReader ==
    /\ cancelled /\ ~rdClosed
    /\ rdClosed' = TRUE
    /\ UNCHANGED <<now, kernelVars, reader, inHand, procVars, alertVars, stopVars, eventChan, dropped, abandoned>>

\* Read and ParseEvent; a record that does not parse is dropped and counted
ReadRecord ==
    /\ reader = "read" /\ ring # <<>> /\ ~rdClosed
    /\ ring' = Tail(ring)
    /\ IF Valid(Head(ring))
       THEN reader' = "send" /\ inHand' = Head(ring) /\ UNCHANGED dropped
       ELSE dropped' = [dropped EXCEPT !.parse_error = @ + 1] /\ UNCHANGED <<reader, inHand>>
    /\ UNCHANGED <<now, event, lost, rdClosed, procVars, alertVars, stopVars, eventChan, abandoned>>

\* The select: any ready case, default when none is
Send ==
    /\ reader = "send" /\ Len(eventChan) < ChanCap
    /\ eventChan' = Append(eventChan, inHand)
    /\ reader' = "read" /\ inHand' = None
    /\ UNCHANGED <<now, kernelVars, rdClosed, procVars, alertVars, stopVars, dropped, abandoned>>

SendCancelled ==
    /\ reader = "send" /\ cancelled
    /\ reader' = "done" /\ inHand' = None /\ abandoned' = abandoned \cup {inHand}
    /\ UNCHANGED <<now, kernelVars, rdClosed, procVars, alertVars, stopVars, eventChan, dropped>>

\* (mutant) the drop is not counted
SendFullUncounted ==
    /\ reader = "send" /\ Len(eventChan) = ChanCap /\ ~cancelled
    /\ reader' = "read" /\ inHand' = None
    /\ UNCHANGED <<now, kernelVars, rdClosed, procVars, alertVars, stopVars, eventChan, abandoned, dropped>>

SendFull ==
    /\ reader = "send" /\ Len(eventChan) = ChanCap /\ ~cancelled
    /\ reader' = "read" /\ inHand' = None
    /\ dropped' = [dropped EXCEPT !.event_chan_full = @ + 1]
    /\ UNCHANGED <<now, kernelVars, rdClosed, procVars, alertVars, stopVars, eventChan, abandoned>>

ReaderContinues ==
    /\ reader = "read" /\ rdClosed
    /\ UNCHANGED vars

\* Read returns ErrClosed
ReaderReturns ==
    /\ reader = "read" /\ rdClosed
    /\ reader' = "done"
    /\ UNCHANGED <<now, kernelVars, inHand, rdClosed, procVars, alertVars, stopVars, eventChan, dropped, abandoned>>

----------------------------------------------------------------------------
(* processEvents and handleEvent *)

Take ==
    /\ processor = "select" /\ eventChan # <<>>
    /\ processor' = "handle" /\ current' = Head(eventChan)
    /\ eventChan' = Tail(eventChan)
    /\ UNCHANGED <<now, kernelVars, readerVars, sampleCount, handled, handledAt, sampledOut,
                   alertVars, stopVars, dropped, abandoned>>

\* ctx.Done: what is in the channel stays there
ProcessorReturns ==
    /\ processor = "select" /\ cancelled
    /\ processor' = "done"
    /\ UNCHANGED <<now, kernelVars, readerVars, current, sampleCount, handled, handledAt, sampledOut,
                   alertVars, stopVars, eventChan, dropped, abandoned>>

\* uint64(1.0 / sampleRate)
sampleInterval == RateDen \div RateNum

Silenced(n) == Key(n) \in DOMAIN lastAlert /\ now - lastAlert[Key(n)] < Silence

\* sendAlert and AlertManager.SendAlert: the webhook is a goroutine of its own
\* and SendAlert returns nil whatever becomes of it, or of a silenced alert
sendAlert(n) ==
    IF Silenced(n)
    THEN UNCHANGED alertVars
    ELSE /\ lastAlert' = [k \in DOMAIN lastAlert \cup {Key(n)} |->
                            IF k = Key(n) THEN now ELSE lastAlert[k]]
         /\ alerts' = alerts \cup {[id |-> n, at |-> now]}

\* ShouldSample, asked only for an event that is neither high nor critical
ShouldSample(n) == High(n) \/ RateNum = RateDen \/ (sampleCount + 1) % sampleInterval = 0

\* (mutant) every event counts
CountedEvery(n) == IF RateNum = RateDen THEN 0 ELSE 1

Counted(n) == IF High(n) \/ RateNum = RateDen THEN 0 ELSE 1

Handler ==
    /\ processor = "handle"
    /\ processor' = "select" /\ current' = None
    /\ sampleCount' = sampleCount + Counted(current)
    /\ UNCHANGED <<now, kernelVars, readerVars, stopVars, eventChan, dropped, abandoned>>

HandleSkipped ==
    /\ Handler
    /\ ~ShouldSample(current)
    /\ sampledOut' = sampledOut \cup {current}
    /\ UNCHANGED <<handled, handledAt, alertVars>>

\* Rule.Matches on an agent.Event, its struct branch.  No parser sets
\* Data.Extension, so a rule that lists extensions compares them with ""
matchFileAccess(r, n) ==
    /\ event[n].type \in {"file_access", "file_blocked"}
    /\ r.exts = {} \/ "" \in r.exts

\* Destinations are not looked at
matchNetworkEgress(r, n) == event[n].type \in {"network_allowed", "network_blocked"}

matchPickleDangerous(r, n) == event[n].type = "pickle_dangerous"

matchModelLoad(r, n) == event[n].type = "model_load"

Matches(r, n) ==
    /\ r.enabled
    /\ \/ r.type = "file_access" /\ matchFileAccess(r, n)
       \/ r.type = "network_egress" /\ matchNetworkEgress(r, n)
       \/ r.type = "pickle_dangerous" /\ matchPickleDangerous(r, n)
       \/ r.type = "model_load" /\ matchModelLoad(r, n)

\* Policy.Evaluate: the first rule that matches
Evaluate(n) ==
    LET hits == {i \in DOMAIN Policy : Matches(Policy[i], n)}
    IN  IF hits = {} THEN "allow" ELSE Policy[Min(hits)].action

\* An event is alerted on unless it is allowed and of low severity
Alerts(n) == Evaluate(n) # "allow" \/ High(n)

HandleRecorded ==
    /\ Handler
    /\ ShouldSample(current)
    /\ handled' = Append(handled, current) /\ handledAt' = Append(handledAt, now)
    /\ IF Alerts(current) THEN sendAlert(current) ELSE UNCHANGED alertVars
    /\ UNCHANGED sampledOut

----------------------------------------------------------------------------
(* Stop *)

Cancel ==
    /\ stop = "running"
    /\ cancelled' = TRUE /\ stop' = "wait"
    /\ UNCHANGED <<now, kernelVars, readerVars, procVars, alertVars, chanClosed, eventChan, dropped, abandoned>>

\* shutdownWG.Wait, then close(eventChan); nobody will read what is left
CloseChan ==
    /\ stop = "wait" /\ reader = "done" /\ processor = "done"
    /\ stop' = "stopped" /\ chanClosed' = TRUE
    /\ abandoned' = abandoned \cup {eventChan[i] : i \in 1..Len(eventChan)}
    /\ eventChan' = <<>>
    /\ UNCHANGED <<now, kernelVars, readerVars, procVars, alertVars, cancelled, dropped>>

Stopped == stop = "stopped" /\ UNCHANGED vars

Reader == ReadRecord \/ Send \/ SendCancelled \/ SendFull \/ ReaderReturns

Handle == HandleSkipped \/ HandleRecorded

Next ==
    \/ Clock
    \/ \E k \in Kinds : Emit(k)
    \/ CloseReader \/ Reader
    \/ Take \/ ProcessorReturns \/ Handle
    \/ Cancel \/ CloseChan \/ Stopped

\* Goroutines that can go on do, and so does Stop once it is called; nothing
\* makes events happen, time pass or somebody stop the agent.  A select takes
\* some case that is ready, so its cases are fair together and not one by one.
Fairness ==
    /\ WF_vars(CloseReader) /\ WF_vars(Reader)
    /\ WF_vars(Take \/ ProcessorReturns) /\ WF_vars(Handle)
    /\ WF_vars(CloseChan)

Spec == Init /\ [][Next]_vars /\ Fairness
----------------------------------------------------------------------------
(* Properties *)

\* Types of the state, and the buffers never above their capacity.
TypeOK ==
    /\ now \in 0..MaxTime
    /\ event \in Seq(Kinds) /\ Len(event) <= MaxEvents
    /\ ring \in Seq(Ids) /\ Len(ring) <= RingCap
    /\ rdClosed \in BOOLEAN /\ cancelled \in BOOLEAN /\ chanClosed \in BOOLEAN
    /\ reader \in {"read", "send", "done"} /\ (reader = "send") = (inHand # None)
    /\ processor \in {"select", "handle", "done"} /\ (processor = "handle") = (current # None)
    /\ inHand \in Ids \cup {None} /\ current \in Ids \cup {None}
    /\ eventChan \in Seq(Ids) /\ Len(eventChan) <= ChanCap
    /\ stop \in {"running", "wait", "stopped"}
    /\ sampleCount \in 0..MaxEvents
    /\ dropped \in [{"parse_error", "event_chan_full"} -> 0..MaxEvents]
    /\ handled \in Seq(Ids) /\ handledAt \in Seq(0..MaxTime)
    /\ sampledOut \subseteq Ids /\ lost \subseteq Ids /\ abandoned \subseteq Ids
    /\ alerts \subseteq [id : Ids, at : 0..MaxTime]
    /\ \A k \in DOMAIN lastAlert : lastAlert[k] \in 0..MaxTime

\* No event is counted twice and none vanishes between the ring buffer, the
\* reader, the channel and the handler: what was emitted is in one of them,
\* recorded, skipped by sampling, counted as dropped, refused by the full ring
\* buffer, or left behind by Stop.  No buffer exceeds its capacity (TypeOK).
NoEventVanishes ==
    /\ TypeOK
    /\ Len(event) = Len(ring) + Len(eventChan) + Len(handled)
                    + (IF inHand = None THEN 0 ELSE 1) + (IF current = None THEN 0 ELSE 1)
                    + dropped.parse_error + dropped.event_chan_full
                    + Cardinality(sampledOut) + Cardinality(lost) + Cardinality(abandoned)

Low(n) == ~High(n)
HandledLow == SelectSeq(handled, Low)

\* Sampling lets every high or critical event through ("high/critical events
\* always pass through regardless of sampling", docs/user-guide.md) and of the
\* others exactly every sampleInterval-th, however the two are mixed.
SamplingExact ==
    /\ \A n \in sampledOut : Low(n)
    /\ Len(HandledLow) = (Len(HandledLow) + Cardinality(sampledOut)) \div
                            (IF RateNum = RateDen THEN 1 ELSE sampleInterval)

\* A high or critical event, or one whose first matching rule alerts or blocks
Deserving(n) ==
    \/ High(n)
    \/ \E i \in DOMAIN Policy :
        /\ Matches(Policy[i], n) /\ Policy[i].action # "allow"
        /\ \A j \in 1..(i - 1) : ~Matches(Policy[j], n)

\* A deserving event that was handled has an alert of its own or one for the
\* same type and PID that was still within the silence period, and two alerts
\* for the same type and PID are a silence period apart (metrics.go:318-327).
\* A process is never silenced by another one's alert, although
\* docs/user-guide.md:138 calls the period "Per-event-type".
AlertsExact ==
    /\ \A i \in 1..Len(handled) : Deserving(handled[i]) =>
        \E a \in alerts :
            /\ event[a.id] = event[handled[i]] /\ a.id <= handled[i]
            /\ a.at <= handledAt[i] /\ (handledAt[i] < a.at + Silence \/ a.id = handled[i])
    /\ \A a, b \in alerts : (a.id < b.id /\ event[a.id] = event[b.id]) => b.at - a.at >= Silence

\* Stop returns: a reader blocked in Read on an empty ring buffer, or at a full
\* channel, does not keep shutdownWG from being released.
StopReturns == cancelled ~> stop = "stopped"
============================================================================

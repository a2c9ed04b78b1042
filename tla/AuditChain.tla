----------------------------- MODULE AuditChain -----------------------------
(***************************************************************************)
(* The tamper-evident audit trail of the agent: the in-memory hash chain   *)
(* (pkg/audit/audit.go), the durable table it writes through to            *)
(* (pkg/audit/sqlite_store.go), the append-only file log beside it         *)
(* (pkg/audit/store.go), and the goroutines that record into them: the     *)
(* event loop (recordAudit), the correlation handler                       *)
(* (handleCorrelationFinding), and the console and gateway handlers that   *)
(* only append.                                                            *)
(*                                                                         *)
(* Chain.Append holds one mutex from the choice of the sequence number to  *)
(* the end of the durable write, so it is one action; what a caller does   *)
(* after Append returns is not under that mutex and is separate.           *)
(***************************************************************************)
EXTENDS Naturals, Sequences, FiniteSets

CONSTANTS
    EventWriters,    \* goroutines that run recordAudit
    FindingWriters,  \* goroutines that run handleCorrelationFinding
    AdminWriters,    \* goroutines that only append (recordAdminAudit, onEvent)
    MaxEntries,      \* capacity of the in-memory ring
    Zones,           \* the local time zones a run of the agent may have
    MaxAppends,      \* bound: entries created
    MaxRefusals,     \* bound: durable writes that fail
    MaxCrashes,      \* bound: crashes of the agent
    MaxDetached,     \* bound: starts at which the store cannot be opened
    MaxLostResumes   \* bound: starts at which LastSeqHash returns an error

Writers == EventWriters \cup FindingWriters \cup AdminWriters

ASSUME ConstantsAssumption ==
    /\ MaxEntries \in Nat \ {0}
    /\ Zones # {}
    /\ {MaxAppends, MaxRefusals, MaxCrashes, MaxDetached, MaxLostResumes} \subseteq Nat

VARIABLES
    entries,      \* Chain.entries: the in-memory window
    nextSeq,      \* Chain.nextSeq
    resumedHash,  \* Chain.resumedHash ("" is the genesis hash here)
    sink,         \* whether a durable store is attached
    db,           \* the audit_entries table: seq -> row, survives a crash
    file,         \* the file log, survives a crash
    up,           \* whether the agent runs
    zone,         \* the local time zone of this run
    pc,           \* what each writer does next
    held,         \* the entry each writer holds between two steps
    issued,       \* entries created so far; the next entry's ID
    acked,        \* history: entries Append accepted with a store attached, by whom
    refused,      \* history: entries Append returned an error for
    faults        \* how many faults of each kind have happened

chainVars == <<entries, nextSeq, resumedHash, sink>>
vars == <<entries, nextSeq, resumedHash, sink, db, file, up, zone, pc, held,
          issued, acked, refused, faults>>

-----------------------------------------------------------------------------
(* SHA-256 over (ID, seq, formatted timestamp, content, PrevHash) has no   *)
(* collisions here.  A digest chained on its predecessor's digest is then  *)
(* the sequence of everything digested; the genesis hash is the empty one. *)
(* The timestamp's text depends on the zone it is formatted in.  Of the    *)
(* payload its JSON is digested, and its JSON is what the table keeps.     *)

\* The strings of a payload: valid text, bytes that are not UTF-8 (a path cut
\* to the 64 bytes of the kernel's event), or the replacement character U+FFFD.
Details == {"text", "bytes", "replaced"}
JSON == {"text", "escaped", "replaced"}

\* json.Marshal writes the six characters \ufffd for bytes that are not UTF-8,
\* and U+FFFD itself as it is; json.Unmarshal reads both as U+FFFD.
Marshal(d) == IF d = "bytes" THEN "escaped" ELSE d
Unmarshal(j) == IF j = "escaped" THEN "replaced" ELSE j

\* The payloads a writer makes: only an event's path comes from outside as bytes.
Payloads(w) == IF w \in EventWriters THEN {"text", "bytes"} ELSE {"text"}

Digested == [id : Nat, seq : Nat, zone : Zones, details : JSON]
Hash == Seq(Digested)
GenesisHash == <<>>
Entry == [id : Nat, seq : Nat, zone : Zones, details : Details, prev : Hash, hash : Hash]
Row == [id : Nat, seq : Nat, details : JSON, prev : Hash, hash : Hash]

computeHash(id, seq, z, d, prev) ==
    Append(prev, [id |-> id, seq |-> seq, zone |-> z, details |-> Marshal(d)])

\* (mutant) a chain that forgets the hash it resumed from
PrevHashForgetsResume == IF entries = <<>> THEN GenesisHash ELSE entries[Len(entries)].hash

\* The hash the next entry is linked to.
PrevHash == IF entries = <<>> THEN resumedHash ELSE entries[Len(entries)].hash

\* The entry Append builds from a freshly created one with payload d.
NextEntry(d) ==
    [id |-> issued, seq |-> nextSeq, zone |-> zone, details |-> d, prev |-> PrevHash,
     hash |-> computeHash(issued, nextSeq, zone, d, PrevHash)]

\* (mutant) the ring drops the newest entries
RingDropsNewest(e) ==
    LET s == Append(entries, e)
    IN  IF Len(s) > MaxEntries THEN SubSeq(s, 1, MaxEntries) ELSE s

\* append, then drop the oldest entries beyond maxEntries.
Ring(e) ==
    LET s == Append(entries, e)
    IN  IF Len(s) > MaxEntries THEN SubSeq(s, Len(s) - MaxEntries + 1, Len(s)) ELSE s

\* What the table keeps of an entry: the instant, not the zone it was in.
RowOf(e) ==
    [id |-> e.id, seq |-> e.seq, details |-> Marshal(e.details), prev |-> e.prev, hash |-> e.hash]

\* INSERT OR IGNORE on the primary key seq.
Write(e) ==
    [s \in DOMAIN db \cup {e.seq} |-> IF s \in DOMAIN db THEN db[s] ELSE RowOf(e)]

\* The highest sequence number persisted (the table is not empty).
LastSeq == CHOOSE s \in DOMAIN db : \A t \in DOMAIN db : t <= s

NoFaults == [refusals |-> 0, crashes |-> 0, detached |-> 0, lostResumes |-> 0]

-----------------------------------------------------------------------------
Init ==
    /\ entries = <<>> /\ nextSeq = 0 /\ resumedHash = GenesisHash /\ sink = FALSE
    /\ db = [s \in {} |-> Row]
    /\ file = <<>>
    /\ up = FALSE
    /\ zone \in Zones
    /\ pc = [w \in Writers |-> "idle"]
    /\ held = [w \in Writers |-> {}]
    /\ issued = 0
    /\ acked = {} /\ refused = {}
    /\ faults = NoFaults

\* What the caller does once Append has returned nil.
AfterAppend(w, e) ==
    IF w \in AdminWriters
    THEN UNCHANGED <<pc, held>>
    ELSE /\ pc' = [pc EXCEPT ![w] = IF w \in EventWriters THEN "pick" ELSE "write"]
         /\ held' = [held EXCEPT ![w] = {e}]

\* Append, the store accepting the row (or no store attached).
AppendAccepted(w, d) ==
    /\ up /\ pc[w] = "idle" /\ issued < MaxAppends
    /\ entries' = Ring(NextEntry(d))
    /\ nextSeq' = nextSeq + 1
    /\ issued' = issued + 1
    /\ db' = IF sink THEN Write(NextEntry(d)) ELSE db
    /\ acked' = IF sink THEN acked \cup {[by |-> w, entry |-> NextEntry(d)]} ELSE acked
    /\ AfterAppend(w, NextEntry(d))
    /\ UNCHANGED <<resumedHash, sink, file, up, zone, refused, faults>>

\* Append, the store failing: the entry stays in the ring, its sequence number
\* is consumed, the caller gets an error and stops.
AppendRefused(w, d) ==
    /\ up /\ sink /\ pc[w] = "idle" /\ issued < MaxAppends
    /\ faults.refusals < MaxRefusals
    /\ entries' = Ring(NextEntry(d))
    /\ nextSeq' = nextSeq + 1
    /\ issued' = issued + 1
    /\ refused' = refused \cup {NextEntry(d)}
    /\ faults' = [faults EXCEPT !.refusals = @ + 1]
    /\ UNCHANGED <<resumedHash, sink, db, file, up, zone, pc, held, acked>>

\* recordAudit takes the last element of a copy of the chain.
PickLast(w) ==
    /\ up /\ pc[w] = "pick"
    /\ pc' = [pc EXCEPT ![w] = "write"]
    /\ held' = [held EXCEPT ![w] = {entries[Len(entries)]}]
    /\ UNCHANGED <<chainVars, db, file, up, zone, issued, acked, refused, faults>>

\* FileStore.Write, then back to the caller's loop.
WriteFile(w) ==
    /\ up /\ pc[w] = "write"
    /\ \E e \in held[w] : file' = Append(file, e)
    /\ pc' = [pc EXCEPT ![w] = "idle"]
    /\ held' = [held EXCEPT ![w] = {}]
    /\ UNCHANGED <<chainVars, db, up, zone, issued, acked, refused, faults>>

\* The process dies: memory is gone, the table and the file stay.
Crash ==
    /\ up /\ faults.crashes < MaxCrashes
    /\ up' = FALSE
    /\ pc' = [w \in Writers |-> "idle"]
    /\ held' = [w \in Writers |-> {}]
    /\ faults' = [faults EXCEPT !.crashes = @ + 1]
    /\ UNCHANGED <<chainVars, db, file, zone, issued, acked, refused>>

\* NewController: a fresh chain, in whatever zone the host is now in ...
FreshChain ==
    /\ ~up
    /\ up' = TRUE
    /\ zone' \in Zones
    /\ entries' = <<>>
    /\ UNCHANGED <<db, file, pc, held, issued, acked, refused>>

\* (mutants) resuming at the last row, or at zero
RestartAtLast ==
    /\ FreshChain
    /\ sink' = TRUE
    /\ nextSeq' = IF DOMAIN db = {} THEN 0 ELSE LastSeq
    /\ resumedHash' = IF DOMAIN db = {} THEN GenesisHash ELSE db[LastSeq].hash
    /\ UNCHANGED faults

RestartAtZero ==
    /\ FreshChain
    /\ sink' = TRUE
    /\ nextSeq' = 0 /\ resumedHash' = GenesisHash
    /\ UNCHANGED faults

\* ... the store opened and attached, the chain resumed from its last row ...
Restart ==
    /\ FreshChain
    /\ sink' = TRUE
    /\ nextSeq' = IF DOMAIN db = {} THEN 0 ELSE LastSeq + 1
    /\ resumedHash' = IF DOMAIN db = {} THEN GenesisHash ELSE db[LastSeq].hash
    /\ UNCHANGED faults

\* ... the store attached but LastSeqHash failing: no resumption ...
RestartUnresumed ==
    /\ FreshChain /\ faults.lostResumes < MaxLostResumes
    /\ sink' = TRUE
    /\ nextSeq' = 0 /\ resumedHash' = GenesisHash
    /\ faults' = [faults EXCEPT !.lostResumes = @ + 1]

\* ... or the store not opening: a warning, and a chain in memory only.
RestartDetached ==
    /\ FreshChain /\ faults.detached < MaxDetached
    /\ sink' = FALSE
    /\ nextSeq' = 0 /\ resumedHash' = GenesisHash
    /\ faults' = [faults EXCEPT !.detached = @ + 1]

Next ==
    \/ \E w \in Writers :
        \/ \E d \in Payloads(w) : AppendAccepted(w, d) \/ AppendRefused(w, d)
        \/ PickLast(w)
        \/ WriteFile(w)
    \/ Crash
    \/ Restart
    \/ RestartUnresumed
    \/ RestartDetached

Spec == Init /\ [][Next]_vars

-----------------------------------------------------------------------------
TypeOK ==
    /\ entries \in Seq(Entry)
    /\ nextSeq \in Nat
    /\ resumedHash \in Hash
    /\ sink \in BOOLEAN /\ up \in BOOLEAN
    /\ DOMAIN db \subseteq Nat /\ db \in [DOMAIN db -> Row]
    /\ file \in Seq(Entry)
    /\ zone \in Zones
    /\ pc \in [Writers -> {"idle", "pick", "write"}]
    /\ held \in [Writers -> SUBSET Entry]
    /\ issued \in Nat
    /\ acked \subseteq [by : Writers, entry : Entry]
    /\ refused \subseteq Entry
    /\ faults \in [refusals : Nat, crashes : Nat, detached : Nat, lostResumes : Nat]

\* Chain.Verify: every hash recomputes, the links hold inside the window, and
\* only the very first entry of the chain must carry the genesis hash.
Verify(s) ==
    \A i \in 1..Len(s) :
        /\ s[i].hash = computeHash(s[i].id, s[i].seq, s[i].zone, s[i].details, s[i].prev)
        /\ i = 1 => (s[i].seq = 0 => s[i].prev = GenesisHash)
        /\ i > 1 => s[i].prev = s[i - 1].hash

\* The row before s in sequence order, as VerifyChain meets it.
PrevRowHash(s) ==
    LET below == {t \in DOMAIN db : t < s}
    IN  IF below = {} THEN GenesisHash
        ELSE db[CHOOSE t \in below : \A u \in below : u <= t].hash

\* dbStore.VerifyChain: scanEntry gives a row's instant the zone of this run and
\* decodes its payload, which computeHash then encodes again.
VerifyChain ==
    \A s \in DOMAIN db :
        /\ computeHash(db[s].id, db[s].seq, zone, Unmarshal(db[s].details), db[s].prev)
              = db[s].hash
        /\ db[s].prev = PrevRowHash(s)

Resumed == faults.lostResumes = 0

\* The window the console verifies (GET /api/audit/verify) is always a valid
\* chain of consecutive sequence numbers ending just below nextSeq and no
\* longer than the ring, whatever was evicted, refused, or lost in a crash.
WindowVerifies ==
    /\ Verify(entries)
    /\ Len(entries) <= MaxEntries
    /\ \A i \in 1..Len(entries) : entries[i].seq + Len(entries) = nextSeq + i - 1

\* An entry Append accepted with a store attached is in the table, as it was
\* accepted, for ever after: neither eviction from the ring, nor a failed write
\* before or after it, nor a crash loses it ("durable before Append returns",
\* audit.go:116), as long as every start could read the last row back.
AckedDurable ==
    Resumed => \A a \in acked :
        a.entry.seq \in DOMAIN db /\ db[a.entry.seq] = RowOf(a.entry)

\* Two rows with consecutive sequence numbers are linked by hash, across ring
\* evictions, failed writes, crashes and restarts: the table never forks.
ConsecutiveRowsLinked ==
    Resumed => \A s \in DOMAIN db : s + 1 \in DOMAIN db => db[s + 1].prev = db[s].hash

\* A sequence number missing below the last row was consumed by an entry whose
\* durable write failed: the table has no other holes.
HolesAreRefusals ==
    Resumed => \A s \in DOMAIN db : \A t \in 0..s :
        t \in DOMAIN db \/ \E e \in refused : e.seq = t

\* VerifyChain accepts the table exactly when no row is missing from it, every
\* row was hashed in the time zone of this run, and no row's payload had bytes
\* that its JSON could not keep: nothing else makes an untouched table fail.
VerifyChainExact ==
    Resumed => (VerifyChain <=>
        /\ \A s \in DOMAIN db : 0..s \subseteq DOMAIN db
        /\ \A s \in DOMAIN db : db[s].hash[Len(db[s].hash)].zone = zone
        /\ \A s \in DOMAIN db : db[s].details # "escaped")

\* The append-only log the table implements.
Log == INSTANCE AuditLog WITH log <- db
LogSpec == Log!Spec

\* As long as every start could read the last row back, the table is an
\* append-only log: it grows one row at a time, above all the others, and no
\* step, a crash or a restart included, changes or removes a row.
LogUnlessLost == Log!Init /\ [][Resumed => Log!Extend]_db

-----------------------------------------------------------------------------
(* What a comment of the code says, where the code does otherwise.         *)

\* "recordAudit appends the event to the tamper-proof audit chain and persists
\* it." (controller.go:1352): when no recordAudit call is in progress, every
\* event accepted has its own line in the file log.
EventsPersisted ==
    (\A w \in Writers : pc[w] = "idle") /\ faults.crashes = 0 =>
        \A a \in acked : a.by \in EventWriters =>
            \E i \in 1..Len(file) : file[i] = a.entry
=============================================================================

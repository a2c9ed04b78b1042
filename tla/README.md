# A TLA+ model of NeuroSentry

NeuroSentry is an agent that guards AI model files and AI traffic on a host. BPF
programs in the kernel refuse or observe file opens and egress; a Go daemon reads
their events, correlates them into findings, reacts, keeps an audit trail, groups
findings into cases, and serves a console, a fleet control plane, an identity
platform and a gateway to AI providers. This directory models the parts of it that
keep state under concurrency, crashes or limits. TLC checks the models on small
instances. TLAPS proves the main properties of the audit chain for all instances.

All paths below are relative to `src/`. `PROJECT.json` has the component list, the
line-by-line map from definitions to source, the runs, the mutants, the hazards,
the findings and the theorems.

## 1. Inventory

### How the parts interact

    kernel hooks --ring--> reader --chan--> processEvents --+--> policy, alerts
      ^  maps                                               +--> audit chain --> SQLite, JSONL
      |                                                     +--> correlator --> findings
    operator, breaker, pruner, SIGHUP reload                          |
      ^-------------------------------------- breaker <---------------+--> cases, audit chain
    console (users, SCIM, SSO, cases, fleet, rules) -- every component above
    gateway requests -- quota, key vault, usage --> provider; audit chain
    own files --> self-protection --> findings --> alert router --> webhook, Slack, SIEM
    model files --> inventory scans --> console
    main: load, preflight, attach, start ... Stop, Close --> hooks, tc filters and pins

The controller (`pkg/agent/controller.go`) starts every component, runs the
background loops (heartbeat, snapshots, PID pruning, inventory, self-protection) and
stops them in order. Components lock themselves. There is no lock across two of
them, so whatever a caller does between two calls can interleave with anybody.

### Components modelled

| Component | State | Operations | What is hard | What makes it correct |
|---|---|---|---|---|
| Audit chain (`pkg/audit`) | ring of entries, next sequence number, resumed hash, table, file | Append, Verify, VerifyChain, resume, recordAudit | a write that fails after the number is used; crash and resume; a caller that reads the last entry after unlocking | accepted entries are durable, the table never forks, the window verifies |
| Correlation rules (`rules.go`, `validation.go`, adapters) | none | evaluate, touchedBy | a greedy choice of signals | fires on a match, and in time order only then; each scenario trips its rule |
| Correlator (`correlate.go`) | sessions, cooldowns, rules, suppressions, learning mode | Ingest, Reap, rule and suppression management | limits that evict what a rule still needs; delivery after unlocking | cooldowns hold, a rule loses history to the limits only, each finding delivered once |
| Fleet (`pkg/fleet`) | agents, desired state, pending rollout | Enroll, Heartbeat, SetDesired, StartRollout, PromoteRollout, AbortRollout, EvictStale, Remove, Snapshot, Restore | rollout against restarts, ticker against Stop | canaries are not taken back, the node converges, state reaches the table |
| Cases (`pkg/incident`) | list and index of cases, notes | Add, SetStatus, Assign, note edits, Snapshot, Restore | the bound, reopening, restarts | index and list agree, each finding counted once, notes only grow |
| Enforcement (`pkg/bpf`, `pkg/breaker`, `main.go`) | kernel maps, gates, breaker | file and egress verdicts, operator responses, trip, prune, reload | maps cleared and refilled while others write them, operations that fail; recycled PIDs | after a reload the configuration is in force and old trust is gone, or the log says what is not |
| Event pipeline (`controller.go`, `metrics.go`, `pkg/policy`) | ring, channel, sampler, alert times | read, send, handle, alert, Stop | full buffers, shutdown while blocked | every event accounted for, sampling and alerting exact, Stop returns |
| Platform (`pkg/platform`, `pkg/web`) | users and three indexes, login guard, snapshot file | create, SCIM, SSO, login, keys, Stop, start | handlers that share a `*User` and write back what they read | indexes agree, a key shown works, lockout overshoot bounded |
| Sessions (`token.go`, `middleware.go`, `rbac.go`) | tokens, roles and status of users, signing key, snapshot | login, SSO, SCIM, requests, restart | roles are read from a token that outlives them | authority outlives its grant by less than a token's lifetime |
| Rate limiter (`ratelimit.go`) | token buckets, time of the last collection | allow | a collection that any client's request triggers | what a client may spend is exact |
| Startup (`main.go`, `pkg/bpf`) | options, loaded objects, hook, links, tc filters, pins | load, preflight, attach, gate, start, Close, kill | steps that fail one by one; what a killed run leaves in the kernel | never silently unprotected, nothing old left over |
| Self-protection and alerts (`pkg/selfprotect`, `pkg/notify`) | baseline, router channels, time of the last alert | verify, route, send, reconfigure, Stop | alerts deduplicated before they are delivered | lasting tamper is recorded and alerted; Stop waits |
| Inventory (`inventory.go`) | listed assets, scan paths, walks under way | scan, rescan, edit paths | overlapping scans that install in any order | changes are marked, the list comes right |
| Gateway (`pkg/aigateway`) | quota windows, keys, usage | admit, reserve, guard, forward, meter, settle | concurrent reservations, window roll-over, estimates corrected later | ledger and usage exact, rate bounded |

### Components not modelled, or only in part

`PROJECT.json` lists each with its reason. In short:

- Planned (section 2): the order of Stop across all loops; processes shared by
  several components.
- Pure transformation or tables: provider translation, AI guard patterns, OIDC and
  SAML verification, configuration, detection knowledge base, PKI, packet and symbol
  parsing. Where their outcome matters it is a nondeterministic choice in a module.
- System calls whose failure is only a warning: the sandbox, uprobes.
- No caller in the program: the advanced policy evaluator, XDP.
- One critical section per call and a policy fixed at the start: the MCP interceptor.
  Nothing in it interleaves, and what is left is patterns over text.
- Read-only: views, exports, reports, the event stream of the console.
- Tenants are created and never changed or removed; Sessions takes them as a constant.

## 2. Plan

Done in this order, the most important behaviour first: AuditChain and its proofs;
CorrelationRules and Correlator; FleetRegistry; IncidentStore; Enforcement;
EventPipeline; Platform; Gateway; Detections; then Sessions, SelfDefence (with the
alert router), Inventory, RateLimiter and Startup.

Next, modelling:

1. Shutdown: all loops of the controller against the steps of Stop, composing
   EventPipeline, FleetRegistry, IncidentStore and SelfDefence through one snapshot
   table, with the tickers that are not in `shutdownWG` (`controller.go:685`, 744).
2. Processes shared by Correlator and Enforcement, so that a recycled PID carries
   both its trust and its signal history.
3. Two reconfigurations of the alert router at once (section 6).

A composition of Correlator, Enforcement and IncidentStore ("a finding becomes one
case and at most one trip") is the refinement worth stating after item 2. Its
abstract specification is a set of findings each in one of: pending, reported, dropped.

Next, proofs, in order of worth:

1. RateLimiter `BucketExact`, which is inductive but for the ages; IncidentStore
   `IndexMatchesList`, `HitsAccounted`; FleetRegistry `CanaryHolds`.
2. Enforcement `ProtectionRestored`, `OldTrustRevoked` (strengthened by what each
   stage of the reload has already done).
3. Correlator `CooldownKept` (strengthened by: the cooldown entry is the time of the
   last finding for its key).
4. Platform `IndexesAgree`, `LockoutBound`; EventPipeline `NoEventVanishes`;
   Gateway `MeteringExact`; Startup `NoLeftovers`.

No module of the project declares a RECURSIVE operator.

## 3. Modules

| Module | Models | Notes on the correspondence |
|---|---|---|
| `AuditLog` | what the durable store promises | abstract: a row is only ever added, above all others |
| `AuditChain` | `audit.go`, `sqlite_store.go`, `store.go`, the callers in `controller.go` | `Append` holds its mutex through the durable write and is one action. What a caller does afterwards (`PickLast`, `WriteFile`) is separate. A digest is the sequence of everything digested, so two are equal only for equal content; the time zone is part of it because the text of a timestamp is. A payload is text, bytes that are not UTF-8, or the replacement character, and JSON does to each what `encoding/json` does |
| `AuditChainProofs` | | the theorems of section 5 |
| `CorrelationRules` | `rules.go` | `evaluate` with its greedy choice and its order check. `Satisfied` is the comment on `Rule` (`rules.go:33-35`): distinct signals within Window of one another. It shares only `matches` with the code, and knows nothing of the time a rule is evaluated at |
| `Detections` | `eventToSignal`, the replay adapters, the builtin rules and their scenarios | an attribute of a signal is reduced to what the rules' predicates ask of it. The kernel's signals are those of the one ring that is read and the one hook that writes it |
| `Correlator` | `correlate.go`, `suppress.go`, `rulespec.go` | `Ingest` is one action under the lock; `Deliver` hands findings to the sinks after it |
| `FleetRegistry` | `pkg/fleet`, the heartbeat loop and Stop in `controller.go` | the heartbeat tick is five steps, as other goroutines run between its calls. The hash bucket of an agent is a constant function |
| `IncidentStore` | `pkg/incident`, the snapshot ticker and Stop | IDs are drawn in order instead of at random. A save may fail, and so may the load at the start, which then begins with no cases |
| `Enforcement` | the verdicts of `neurosentry_lsm.c` and `neurosentry_tc.c`, `bpf.go`, `breaker.go`, reload in `main.go` | one map operation is one step; clearing and refilling on a reload is several. A map operation may fail, from a budget, and an extension may be refused; `warned` and `unanswered` are what the log says of it. A PID names one process at a time and can be reused |
| `EventPipeline` | reader, channel, `handleEvent`, sampler, `Policy.Evaluate`, alerts, Stop | the reader's `select` and the processor's are actions of two goroutines; Stop cancels, waits, closes |
| `Platform` | `pkg/platform`, `auth_api.go`, `scim_api.go`, `sso_api.go`, `setupPlatform` | handlers share the `*User` object, as in the code; look-up and write-back are separate steps. The write of a new key to the user's map takes no lock and has a beginning and an end. A range over the map between them may miss keys, and two writes at once may lose some (`raced`); that the runtime ends the process instead is a crash. An address is sent in one of several spellings, which the look-up normalises and the login guard does not |
| `Sessions` | `token.go`, `middleware.go`, `rbac.go`, the logins and handlers that ask for permission | a signature is the number of the key it was made with, times are ages; `since` remembers when each role was last granted. The store's indexes are left to `Platform` |
| `RateLimiter` | `ratelimit.go` | tokens in units, so that fractions occur; `spent` is what a client still owes |
| `Startup` | `run` in `main.go`, loading, attaching and closing in `bpf.go`, `Assess` | a step that fails is taken from a budget and leaves the warning the code logs. Links die with their process, tc filters and pins do not |
| `SelfDefence` | `pkg/selfprotect`, `pkg/notify`, `runSelfProtect`, `handleCorrelationFinding`, `applyNotify`, Stop | all its findings share a deduplication key, as in the code. A delivery is one step and may fail |
| `Inventory` | `inventory.go`, the scanner goroutine and the console's handlers | a walk visits one file per step, and what it found is installed at once |
| `Gateway` | `pkg/aigateway`, `gateway_component.go` | a request is a sequence of stages separated where it takes a lock or waits for the provider |
| `MC...` | | small instances for TLC |

Definitions marked `(mutant)` are faulty variants of the definition that follows. They
are used to confirm that a property would notice such a fault; no specification uses
them.

## 4. Model checking

| Run | Configuration | Shows |
|---|---|---|
| `records` | `MCRecords.cfg` | AuditChain: the window in memory verifies; accepted entries stay in the table; rows with consecutive numbers are linked; `VerifyChain` succeeds exactly when no row is missing, all were hashed in this run's zone and all payloads survive JSON; the table is an append-only log while no resume was lost. IncidentStore: `IndexMatchesList`, `HitsAccounted`, `GroupedUnlessReopened`, `NotesKept` |
| `correlator` | `MCCorrelator.cfg` | `CooldownKept`, `DeliveredOnce` with two ingesting goroutines and an operator; `NoRuleStarved` with more processes than sessions; `GreedyExact`, `ProofOfFire` of the rules over all histories up to four signals |
| `fleet_registry` | `MCFleetRegistry.cfg` | `CanaryHolds`; and, live, `Converges` and `EventuallyPersisted` |
| `enforcement` | `MCEnforcement.cfg` | `ProtectionRestored`, `OldTrustRevoked`; live, `DeadTrustPruned`, `TripUntrusts` |
| `agent_services` | `MCServices.cfg` | `NoEventVanishes`, `SamplingExact`, `AlertsExact` and, live, `StopReturns` (EventPipeline); `StopWaits` and, live, `TamperReported` (SelfDefence); `ChangeFlagged` and, live, `InventoryConverges` (Inventory) |
| `platform` | `MCPlatform.cfg` | `IndexesAgree`, `IssuedKeysWork`, `LockoutBound` (Platform), `AuthorityBound` (Sessions), `BucketExact` (RateLimiter), `NeverSilentlyUnprotected`, `NoLeftovers` (Startup) |
| `gateway` | `MCGateway.cfg` | `RateBound`, `LedgerExact`, `MeteringExact` |
| `audit_event_race` | `AuditEventRace.cfg` | fails: `EventsPersisted` |
| `ordered_greedy` | `OrderedGreedy.cfg` | fails: `FiresWhenSatisfied` |
| `stretched_window` | `StretchedWindow.cfg` | fails: `FiresWithinWindow` |
| `abort_reverts` | `AbortReverts.cfg` | fails: `AbortReverts` |
| `enforce_self_trust` | `EnforceSelfTrust.cfg` | fails: `ScannerReads` |

Several runs hold components that share no state. In `records`, `correlator` and
`platform`, which check no liveness, a behaviour is one of the component in `focus` and
the others stay where they start. In `agent_services`, which checks liveness, one
component runs and the others are in a state where nothing of them is enabled. `focus`
also names a second instance of the same module with other bounds, where one property
needs more time or requests than the rest of the module can afford: what the correlator
remembers, the login guard, and the gateway's rate.

A module's `TypeOK` is part of the structural invariant of its run (`NoRuleStarved`,
`CanaryHolds`, `IndexMatchesList`, `OldTrustRevoked`, `NoEventVanishes`,
`IndexesAgree`, `LedgerExact`); that of AuditChain is proved (section 5).

The five failing runs state what a comment in the code says:

- `audit_event_race`: `recordAudit` appends and then asks for the last entry. If
  another goroutine appended in between, that entry is written to the file, and the
  event's own is not (`controller.go:1387`, against the comment at 1352).
- `ordered_greedy`: prompt, secret read, prompt does not fire NS-CORR-001. Each matcher
  takes its first signal and the order is checked afterwards (`rules.go:107`, against
  106 and 33).
- `stretched_window`: in a dataset whose lines are not in time order, a builtin rule
  fires on signals more than Window apart. `evaluate` drops what is too old for the
  signal just ingested, and keeps what is later than it (`rules.go:98`, against 33-34).
- `abort_reverts`: a rollout switches learning mode on, and is aborted. When the stable
  state asks for no mode, `applyDesired` leaves it on (`controller.go:860`, against
  `registry.go:116`). `Converges` holds because it claims nothing of such a state.
- `enforce_self_trust`: a reload clears the agent's own trust and does not restore it
  (`main.go:406`, against 156).

### Bounds, and why they are enough

- `records`: a ring of two and four appends, so entries are evicted and the chain
  resumes with an empty ring; one fault of each kind, so any two kinds meet. Two cases
  and three findings, so the bound drops one; two edits, so a case is closed and
  reopened; one restart.
- `correlator`: for the rules, two matchers need two signals; four leave room for one
  spare on each side. Every pair of matchers over two kinds is tried. For the engine,
  one session and two PIDs, so each ingest can evict; a cap of two signals; three
  signals with timestamps that may be one tick late. For what it remembers, three
  processes, two sessions, a cap of two and five signals over more time than the widest
  window: both limits and the retention by time drop signals.
- `fleet_registry`: the node and one remote agent in different halves of the buckets,
  so a 50% rollout splits them; two operator requests and one restart. The stable state
  asks for none or "off" and requests for "on", so a rollout that is aborted has
  something to take back.
- `enforcement`: two configurations that differ in everything, one reload, one PID that
  can be reused; room for one extension and one that has no key, so both refusals
  occur; one failing operation, at any of them; two findings for one PID within a
  cooldown or after it.
- `agent_services`: ring and channel of one, three events of two processes, so both
  buffers fill and both halves of an alert's key matter; a rate of 1/2. Two protected
  files and two changes, so one file changes twice, or both do; a failed delivery and a
  reconfiguration; a channel of the console and one of the configuration. Two models
  under two paths, two writes, the scanner and one console request, so two walks overlap
  with a change between them.
- `platform`: two handlers, so every two-step request can be overtaken and a key be
  written while a map is ranged over; three users on two addresses, so an address is
  reused; two starts. There time stands still; the login guard has an instance of its
  own, with one address in two spellings, six requests, and time for a window to be
  reset and a lockout to end. Sessions: the owner and one
  more user, two tenants, two tokens of two clock steps, two edits and a restart, so a
  token meets every change made behind its back. Limiter: a request costs two units
  and a step refills one, so a bucket is left half full; a bucket is full again just
  when it counts as idle, the tightest case of the code's 300 s. Startup: two
  interfaces, two listed destinations, two starts and two failing steps, so a run finds
  what another left while a step of its own fails.
- `gateway`: two handlers, three requests, windows of two ticks, so a window rolls over
  between reservation and settlement. For the rate, a limit of two, six requests and
  four ticks: two full windows do meet in one minute, and the bound is reached (lowered
  by one, TLC finds it violated).

The passing runs take between half a minute and three minutes with two workers.

Bounded clocks and budgets mean that runs end, so deadlock checking is off in the
models that have no idle step (records, correlator, platform, agent services,
gateway). Symmetry is used only in runs without liveness.

### Fairness

Fairness is weak throughout, and only on steps a goroutine takes without waiting for
anybody outside the program.

- FleetRegistry: the ticker's steps, the remote agents' heartbeats, Stop once begun, and
  the restart of a process that is down (its supervisor's duty).
- Enforcement: the pruner's ticker, a reload under way, a response already decided.
- EventPipeline: reader, processor and Stop; a `select` is fair as a whole, not case by
  case.
- SelfDefence: the loop, its ticker, time (the deduplication window ends), a
  reconfiguration under way and Stop once begun. A delivery ends: its client has a
  timeout of ten seconds.
- Inventory: the scanner's first step, its ticker and every scan under way.
- The other modules claim no liveness.

Events, requests, changes of files, crashes and the decision to stop are never fair.

## 5. Proofs

`AuditChainProofs` proves, for any writers, ring size, zones and fault bounds that
satisfy `ConstantsAssumption` (a ring of at least one, some zone, natural bounds):

| Theorem | Statement |
|---|---|
| `Inductive` | `Spec => []IInv` |
| `TypeCorrect` | `Spec => []TypeOK` |
| `WindowAlwaysVerifies` | `Spec => []WindowVerifies` |
| `AcceptedEntriesDurable` | `Spec => []AckedDurable` |
| `TableIntegrity` | `Spec => [](ConsecutiveRowsLinked /\ HolesAreRefusals)` |
| `VerifyChainDecides` | `Spec => []VerifyChainExact` |
| `LogKept` | `Spec => LogUnlessLost` |
| `ImplementsLog` | `Spec => LogSpec` when `MaxLostResumes = 0` |

The properties are not inductive. `INSERT OR IGNORE` silently skips a row whose number
is in use, so durability needs that `nextSeq` is above every row while a store is
attached (`AboveRows`). Linking needs that the hash the next entry builds on is that of
the row just below, if that row exists (`LinkReady`). That holes come only from refused
writes needs every number below `nextSeq` to be a row or a refusal (`HolesReady`). The
ring needs that a chain that has issued nothing starts from the genesis hash
(`GenesisReady`), and the type of `LastSeq` that the table is finite (`SeqBound`). A
start that cannot read the last row back breaks the first three. They, and the
properties resting on them, are therefore stated for runs without a lost resume.
`VerifyChainExact` rests on a second invariant, `DigestInv`: the digest of every row
ends with what was digested of that row.

`TypeOK` of AuditChain is only proved; the other properties named above are also
checked by `records`, on its instance. Only model-checked: everything outside the audit chain, all liveness (the prover does not treat fairness),
and what `evaluate` computes (induction over data).

## 6. Limits of the properties, and what was noticed on the way

Several properties are qualified because the unqualified form does not hold of the
code. The behaviours below were met while modelling. They come from reading the code
or from exploring a model; only the five of section 4 are kept as runs.

Audit chain
- A refused write leaves a hole in the table, and `VerifyChain` then fails
  (`audit.go:201-204` against 231). So does a change of the host's time zone
  (`sqlite_store.go:393`, `audit.go:103`). And so does a payload with bytes that are
  not UTF-8, such as a file name cut at 64 bytes: it is hashed as JSON with an escaped
  `\ufffd`, and read back as that character (`audit.go:107`, `sqlite_store.go:394-395`).
  `sqlite_store.go:345-347` and `docs/database.md:101-102` take a failure as proof that
  evidence was altered at rest; `VerifyChainExact` says what else it can be.
- A start that cannot read the last row begins again at zero, and its rows are ignored
  as duplicates though Append accepts them (`audit.go:151`, `sqlite_store.go:248`).

Correlation
- `Reap` is to drop the state of an exited process (`correlate.go:369`). It deletes a
  cooldown key nobody writes, so a process that reuses the PID is silenced for the rest
  of the cooldown. Nothing but a test calls it (`correlate_test.go:177`), so in the
  daemon the signals are inherited too (`rules.go:33`). `CooldownKept` says nothing of
  what follows a Reap.
- A process that sends more than `sessionSignalCap` signals, or a crowd of processes,
  costs a rule its history, against "so no rule is starved of history" (`correlate.go:144`):
  `NoRuleStarved` says that nothing else does.
- No producer sets what NS-CORR-005, 006 and 010 ask for, although the texts speak of an
  egress classifier, of unverified artifacts and of signals from every layer
  (`rules.go:313-314`, `kb.go:184`, `controller.go:420`). The daemon reads the ring of
  the LSM program only (`bpf.go:104`), whose one hook reports `file_blocked` only
  (`neurosentry_lsm.c:478`), so live kernel events can complete 009 at most; auditd
  records 009 only.
- A dataset is replayed in file order (`replay.go:219-229`; 217 says timestamp order),
  which is how `stretched_window` comes about.

Fleet and cases
- A state is applied whatever its version (`controller.go:860-866`), while
  `registry.go:48-51` says that an agent applies only a newer one. `Converges` depends on
  it: after an abort the stable state, which is older, has to be applied again.
- Saving the cases may fail without a word (`controller.go:357`), and a start that cannot
  load them begins with none and saves that (203-205).
- A ticker outside `shutdownWG` can overwrite what Stop saved with an older snapshot
  (`controller.go:744`, 685).
- Reopening a case allows two active ones for one rule and process (`incident.go:220`).
- The bound drops open cases (`incident.go:160`).
- Copies of a case share its notes (`incident.go:187`), which the model does not show.

Enforcement
- The pruner may delete the trust of a process that got the PID between its check and
  its deletion (`bpf.go:530-538`). Trust inherited by a reused PID is never pruned.
- A finding within the cooldown is not mitigated (`breaker.go:121-124`), also when the
  response to the one before failed: the trip is recorded first, and the error only
  logged and audited (`controller.go:315-331`). Hence the second disjunct of
  `TripUntrusts`.
- Between the clearing and the put of an extension a reload leaves its files unprotected
  (`main.go:406-415`); `ProtectionRestored` begins where the reload ends. What it failed
  to clear or put is only logged, and the reload goes on: hence `warned`.
- A reload loads the policy without applying it (`main.go:391-402`), and re-reads
  neither the gates nor the blocked destinations.

Events
- A full ring in the kernel drops an event without counting it (`neurosentry_lsm.c:342`).
- The sampling interval is the truncated inverse of the rate, so a rate above one half
  samples everything (`metrics.go:251`), while `controller.go:948` announces the rate as
  a percentage. `SamplingExact` is about the interval.
- An alert silences its type and PID (`metrics.go:320`), while `docs/user-guide.md:138`
  documents a "Per-event-type silence period". `AlertsExact` follows the code.
- A webhook counts as "ok" when the alert was silenced or failed (`metrics_extra.go:154`).
- No parser sets `Extension`, so file rules with extensions never match
  (`events.go:175-177`, `loader.go:288-302`).

Platform
- A snapshot that cannot be read is replaced by the bootstrap administrator's
  (`controller.go:1082-1152`); users created since the last Stop are lost in a crash.
- A login admitted before a lockout erases it when it succeeds (`loginguard.go:93`).
- A SCIM patch writes back the status it read (`scim_api.go:179`, 203), and an SSO login
  activates a disabled user (`sso_api.go:130`; `scim_api.go:21` gives SCIM that say).
- All API-key logins share one guard record (`auth_api.go:64`). For passwords the guard
  is keyed by the slug and the address as sent (62), while the look-up normalises both
  (`identity.go:102`, `tenant.go:129`): each spelling has a budget of its own, against
  "per identity" (`loginguard.go:11`, `auth_api.go:61`). `LockoutBound` is per spelling.
- A new API key is written to the user's map without the store's lock
  (`identity.go:231`), while `Update` (185) and a snapshot (`persist.go:46`) may range
  over it or another request write to it, although the store is called
  "concurrency-safe" (`identity.go:84`). The outcome is undefined: a key may be missing
  from the index or the snapshot, or the process end. `IndexesAgree` and
  `IssuedKeysWork` except the users this happened to.

Sessions
- An SSO login that overlaps with the deletion of its user still gets a session, for a
  user who is gone (`sso_api.go:128-135`): `AuthorityBound` counts the assertion of the
  identity provider as a grant.
- Without a configured secret a restart ends all sessions (`controller.go:1089-1094`);
  with one they survive a restart that falls back on older accounts.

Startup
- The preflight is fail-safe about the kernel only: a failed load or attach is a
  warning, and the agent goes on (`main.go:117-124`, 151-153, against 126-129). Hence
  the disjunct of `NeverSilentlyUnprotected`.
- With `--skip-bpf` the programs are loaded and attached all the same, and without BPF
  LSM the hook is never called and nothing is said: hence the premise.
- PyTorch observability without pickle protection loads the uprobes and never attaches
  them (`bpf.go:93`, `main.go:191`).
- A blocked address that is invalid, or that the map refuses, is passed over without a
  warning, and only shows as a smaller count in the log (`main.go:174-187`): hence the
  last disjunct of `NeverSilentlyUnprotected`.
- With `block_exfiltration` egress to the blocked addresses is dropped
  (`main.go:169-187`, `neurosentry_tc.c:264-341`). `neurosentry_tc.c:10` ("MONITOR-ONLY
  MODE: This program never drops packets"), `docs/user-guide.md:106-110` and
  `SECURITY.md:79` say that nothing is.
- An interface whose attach by tc failed half-way is not recorded, so Close leaves its
  filter and pins (`bpf.go:280-283`, 870), and the clsact qdisc is never removed
  (869 speaks of qdiscs). A fatal error at the start and the forced exit after 30 s do
  not call Close. The next run that attaches cleans up.

Self-protection and alerts
- The alert of a second tampered file is suppressed by that of the first: they share
  title and severity (`notify.go:101`). The audit chain has both.
- A loop that has not run yet when Stop waits joins `shutdownWG` too late
  (`controller.go:363`): hence the premise of `StopWaits`.
- Two reconfigurations at once can leave the channels of both bound
  (`controller.go:504-536`). The model allows one at a time.

Inventory
- A path added in the console before the scanner's first step is lost
  (`controller.go:561`).
- The mark on a changed file lasts until the next scan, which may be a second later
  (`inventory.go:181-187`): hence `flagged` in `ChangeFlagged`.

Gateway
- A reservation is not returned when a guard blocks or the provider fails
  (`gateway.go:190-210`), and a late settlement falls on the next window
  (`quota.go:107`): hence the premise of `LedgerExact`.
- Windows are fixed, so a minute can hold twice the limit: hence `RateBound`.
- An answer that is not 2xx is metered with the estimate (`gateway.go:228-233`).
- Nothing in the daemon calls `SetQuota` or `SetKey` (`gateway_component.go:32-34`);
  the model treats them as available to an administrator.

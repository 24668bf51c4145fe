# ocpp-kit in TLA+

TLA+ models of ocpp-kit, a Rust implementation of the Open Charge Point Protocol
for charging stations, central systems (CSMS) and local controllers: what its
parts keep and do, the properties that make them correct, what TLC finds on
small instances and what TLAPS proves for every instance. Paths are those of the
repository.

- [The system](#the-system): components, state, operations, hard behaviours
- [Modules](#modules): which module models what, and how
- [Runs](#runs): what each checks, its bounds
- [Fairness](#fairness)
- [Proofs](#proofs)
- [Findings](#findings)
- [Not modelled](#not-modelled) and [plan](#plan)

`tlc -config MCEngineOffline.cfg MCEngine` checks one run, `tlapm EngineProofs.tla`
the proofs of one module; eight modules, those named `...Proofs`, hold proofs.
`PROJECT.json` maps every definition to its source lines and lists the
runs, the mutants that show each property can fail, the hazards and the theorems.

## The system

An `Engine` is a state machine without I/O. A `Driver` owns one, together with a
WebSocket: it feeds the engine inputs (`Connected`, `Received`, `Timeout`,
`Disconnected`) and commands of the application (`Call`, `Respond`, `Shutdown`),
and carries out the engine's outputs (frames, timers, outcomes of calls, requests
for the application's handler, `Close`). Each request runs in a task of its own
that sends its answer back over the command channel. A station keeps one driver
over all its connections; a CSMS makes one per connection and finds it through a
router.

| Component | State | Operations | What is hard | What makes it correct |
|---|---|---|---|---|
| Engine, outgoing (`engine/mod.rs`, `queue.rs`, `time.rs`) | queue, the one CALL in flight, boot state, heartbeat, boot-retry and drain deadlines, the store's copy | `call_with`, `cancel`, `shutdown`, `on_connected`, `on_disconnected`, `on_timeout`, `on_call_result`, `on_call_error` | late answers, timeouts against disconnections, retries in front of a queue that grew, power cuts, a store that fails | every call ends exactly once; durable messages are in the store until then; transaction messages keep their order; the boot gate holds; deadlines are armed; drains end |
| Engine, incoming (`engine/mod.rs`) | `peer_inflight`, `solicited`, boot state (CSMS) | `on_call`, `respond`, `respond_error`, `remember_solicited`, drain | handlers that outlive their connection, repeated ids, limits, answers in any order | an answer goes out where its request came in; no id is handled twice; the boot gate follows what the CSMS answered |
| Driver (`transport/connection.rs`) | timers, pending replies, handler permits, the pong deadline | the select loop, `apply`, `flush`, `dispatch` | a flush that fails half way, a Close nobody reads, permits and channel both full | outputs are carried out in order and once; no caller and no handler waits for ever; only a silent peer is given up |
| Durable store (`engine/store_file.rs`) | the journal, `live`, `next_seq`, `written` | `open`, `push`, `ack`, `set_attempts`, compaction | power cuts between write, sync and rename; failing writes | what was queued comes back, what was acknowledged does not, oldest first, in a file that does not grow |
| Station's reconnect loop (`transport/station.rs`, `engine/backoff.rs`, `transport/network_profile.rs`) | attempt count, profile slot | connect, back off, next profile | commands that arrive while it sleeps | it reconnects until told to stop; every profile has its turn |
| CSMS accept loop and router (`transport/csms.rs`) | sessions by identity, session ids | accept, supersede, end of a session, `CsmsHandle` | two connections of one identity between two locks; a session that ends before it is entered | the router has the newest live session of an identity and no dead one |
| Local Controller (`transport/local_controller.rs`) | two legs, pending pings | relay, close | one leg ends while the other writes | a frame is relayed once, both legs end together |
| WebSocket (`transport/ws/`) | fragments, close state, DEFLATE window | encode, decode, upgrade | control frames inside fragments, closing on both sides | a message is delivered whole or not at all |
| TLS, credentials, streams (`transport/tls.rs`, `security.rs`, `stream.rs`) | none | configure, compare | - | - |
| rpc (`rpc/frame.rs`, `error.rs`, `signed.rs`) | none | parse, print, sign, verify | a signature in another frame than its own | what is signed is read back, and nothing else is |
| Transactions (`station/transactions.rs`) | conditions, sequence numbers, the current transaction | `observe`, `update`, `abort`, `resume` | a reboot between two events | no stop is missed, no event is taken for another |
| Ledger, events (`csms/ledger.rs`, `events.rs`) | a record per transaction | `ingest`, `ingest_unsequenced`, `prune_ended_before` | retried, late and reordered events | the result does not depend on repetition or order |
| Authorization (`station/authorization.rs`) | local list and version, cache | `update`, `remember`, `get`, `set_enabled`, `decide` | late updates, stale entries, limits | the newest word on a token counts; nobody is accepted on a stale one |
| Smart charging (`station/smart_charging.rs`) | profiles | install, clear, composite schedule | boundaries of periods and validity | the schedule is the minimum of the highest stack levels at every instant |
| Device model, configuration (`station/device_model.rs`, `configuration.rs`) | tables | declare, get, set, report | pages of a report, limits at the edge of a type | reports, reads and writes tell one story |
| Decimals (`decimal.rs`), meter readings (`csms/events.rs`) | none | pure functions | the ends of the range, roundings that carry, units and scales | results are the exact ones, rounded once |
| Decoding, validation, primitive types, signed meter values | none | pure functions | - | - |
| Generated types, standard tables; test kit, CLI, xtask | none | - | - | - |

`PROJECT.json` lists the hazards at their lines.

## Modules

### Engine

`struct Engine` is one record, `engine`; each `&mut self` method is an operator
of the same name from the record to the record, and a handler is the composition
of the methods it calls, in the code's order. An action is one input or one
command followed by the driver's flush: outcomes, timers and frames on the wire
are fields of the same record.

| In the model | In the code |
|---|---|
| `Call`, `Cancel`, `Shutdown` | `Driver::apply` and `Engine::call_with`, `cancel`, `shutdown` |
| `Connected`, `Disconnected`, `Timeout` | the head, the tail and the timer branch of `Driver::run` |
| `ReceiveResult`, `ReceiveError`, `OtherTraffic` | `on_received`: answers to this connection's transmissions, early, late and repeated, and to an id that was never sent; a frame that is no answer only re-arms the heartbeat |
| `Tick` | the driver's clock |
| `StoreFault`, `Crash` | external: a device that starts or stops failing, a power cut |
| `Stop`, `Restart` | `Output::Close` read by the driver; `Engine::with_store` |

Abstractions:

- A deadline is the number of ticks left, 0 when it has passed, `Never` for
  `None`; `Tick` decrements them together. Every comparison the code makes is
  `now >= deadline`, so nothing else of an `Instant` is visible.
- The deque is a function from slots in queue order: `push_back` takes the new
  token's slot, `push_front` slot 0. `IndInv` says that slot 0 is free whenever
  something is pushed to the front.
- There is one action of each class the engine tells apart: transaction related,
  `SEND`, `BootNotification`, `Heartbeat`, any other. `CallOptions` are resolved.
- A message keeps its token over a restart and uses it as its number in the
  store. The code mints new tokens in the store's order; no caller of the old
  process is left to see the difference.
- A store works or fails, and may change over between any two inputs; while it
  fails, `push`, `ack` and `set_attempts` all do, and change nothing.
- Ids are unique per transmission, as `IdGenerator` promises.

`served`, `verdict`, `sent` and `lost` are history: the message ids of this
connection that the peer has answered, its last usable verdict on a
`BootNotification`, the transmissions of each message, and how many of them no
store was told of (the power failed with the call in flight, or the write that
would have recorded the attempt failed). An id is a token and its transmission, so
an answer to an earlier attempt of a call is told apart from one to the attempt in
flight. `RetryBudget` counts per kind of message: a transaction message goes out
`RetryPolicy::attempts` times and any other once, and every transmission beyond
that has to be one in `lost`.

### PeerRequests

The requests of the peer, numbered in order of arrival, and the phase each has
reached: `Waiting` for a permit, `Running`, `Replying` (its answer is in the
command channel), `Answered`, `Dropped`, `Panicked` or `Refused`.

| In the model | In the code |
|---|---|
| `OnCall` with `refused`, `on_call_refused`, `on_call_accepted` | `Engine::on_call`, its checks in order, `reject` |
| `Acquire`, `HandlerReturns`, `HandlerPanics` | the task of `Driver::dispatch`, its semaphore, its send to the channel |
| `Apply`, `respond`, `take_peer_request` | `Command::Respond`, `Engine::respond`, `respond_error` |
| `call_with`, `remember_solicited` | the CSMS's own calls, for what they solicit |
| `Shutdown`, `OutgoingDone`, `DrainDeadline`, `check_drain` | the drain; `outgoing` stands for the whole outgoing half |
| `Disconnected`, `Closed`, `Connected` | the end of `Driver::run`; a CSMS starts with a new engine, driver and channel, a station with the same ones |

`SameDriver` says which tasks share a semaphore (held while a handler runs, and
released when the answer has its place in the channel), `Receiving` whether a task's
channel still has its receiver. `UniqueIds` is what OCPP-J Part 4, 4.1.4 asks of
the peer: ids are not repeated over connections. A station keeps one channel over
its connections, so without `UniqueIds` a late answer may meet a new request with the
same id; a CSMS has a channel per connection and needs no such promise. `ToldApart` is
the one or the other, and the properties about identity except the rest: a station
whose peer repeats ids. The run has the station; the half about a CSMS is proved, and
checked by setting `Csms` to TRUE and `UniqueIds` to FALSE in `MCPeerStation.cfg`. `told`
is history, the status of the last `BootNotificationResponse` the station was sent on
this connection, with which `GateFollowsBoot` compares the engine's own `boot`.

### MessageStore and FileStore

`MessageStore` is the abstract specification, what `trait MessageStore` promises:
a message whose push returned Ok comes back after every crash until its ack
begins, one whose ack returned Ok never does, one whose push or ack was cut short
or failed may do either. `FileStore` is the journal. A call is two steps, the
write and then the sync with the bookkeeping after it, and a crash may fall
between them: it keeps what is synced and cuts the rest after a line, inside one,
or before its newline. `Open` replays and rewrites, and may fail on either side of
its rename; `rewrite` is the compaction, which may fail before it. The refinement maps `kept` to the
messages of `live`.

### Sessions

The CSMS's accept loop and router. Each connection has the task that serves it
(`phase`, from the accept queue through the handshake to the filing of its
session) and the task of its session (`task`). A step is what one task does
between two awaits, so two connections of one station interleave where the code
can be suspended; `handshake_timeout` may cut a task at each of those points, as
the `tokio::time::timeout` around `accept` does.

| In the model | In the code |
|---|---|
| `serve_on`, `read_request`, `authenticate`, `admit`, `answer` | `Csms::serve_on` and `Csms::accept`: permit, upgrade request, authenticator, `max_connections`, upgrade answer |
| `takeover`, `file` | the two locked sections of `run_session`: removal of the old entry, insertion of the new one |
| `session_ends`, `session_removed`, `abort` | the spawned session task, its clean-up under the lock, the abort after the grace period |
| `handshake_timeout`, `shutdown` | `CsmsBuilder::handshake_timeout`, `CsmsHandle::shutdown` |

`raced` is history: the connections that met one of the three races that
`run_session` leaves open between its locks. `RouterExact` excepts exactly these,
so it fails as soon as an entry is wrong for any other reason. `OneSessionEach` says of
the sessions themselves that no two of one station run side by side for ever, although
no peer ever leaves; it has the same exception, and `SingleActiveConnection` is what
the comment in the code says, without it.

### Driver

The loop that owns the socket and the loop that reconnects around it. The engine
is reduced to its queue, the call in flight and the drain; what matters is the
queue of outputs between the two. `flush` hands them on one by one,
`flush_fails` breaks at any frame, and what it leaves is flushed into the next
connection. The second flush, at the end of `run`, also gets as far as some frame
(`Reach`): `feed` may buffer several before the socket's error comes back.

| In the model | In the code |
|---|---|
| `flush`, `flush_fails`, `apply`, `End`, `Abandoned` | `Driver::flush`, `apply`, the end of `run`, `abandon` |
| `answered`, `call_timeout`, `drain_timeout`, `boot_accepted` | the branches of the select and the engine's handlers behind them |
| `ping_tick`, `pong`, `pong_late`, `peer_gone`, `tick` | the keepalive branches, the end of the stream, the clock |
| `connect`, `connect_fails`, `failed` | the task of `StationBuilder::build` and `ProfileCycler` |
| `Call`, `Shutdown` | `Handle::call_raw_with_id`, `Handle::shutdown` |

### Transactions, Ledger, Billing

`Transactions` is the machine of one EVSE with the application around it, which
is external: it saves the machine after every event and only then hands the event
over. `Ledger` is the CSMS's record. `Billing` composes them over what `Engine`
promises of the delivery: an event arrives any number of times, late, out of
order or never. The same station speaks 2.x, whose events are numbered, or 1.6,
whose events `ingest_unsequenced` numbers.

### Authorization, SmartCharging, DeviceModel

The three registries of a station. `Authorization` has the list and its versioned
updates, the cache, and `decide`; the history variables `applied` and `said` say
which updates the list is made of and what the CSMS last said of a token. An update
may name a token several times: `NewestWins` holds for it, the limit need not
(`OnlyRepeatsOverfill`; `WithinLimit` is the claim of the code's docs, without the
exception). An update whose predicted size falls below zero
panics or wraps in the code, and is not taken in the model.

`SmartCharging` has the profiles and computes the composite schedule at the
boundaries in ascending order, as the code does, for the first `MaxAnchors` (4096)
repetitions of a schedule; the property compares it with the limit at every instant.
It excepts, by name, the two cases in which the code's boundaries are not enough
(`LookedAt`): instants after the last repetition that `boundaries` counts, and a
schedule that repeats without a step at its beginning. `CompositeExactAlways` is the
claim of the code's comments, without them.

`DeviceModel` has declarations, the catalogue's rows, `get`, `set`, `report` and
`paginate`. A value is its text, the words of the text, and what it reads as: the whole
number of an `i64`, the number of a `Decimal`, an instant; an option is compared as
text, the members of a list as words. `declare` checks no value, so `ValuesFit` is
about the values that no declaration brought. It takes the limits as `set` does, on
what `Decimal` reads; `LimitsEnforced` takes the whole number.

### LocalController, WsCodec, SignedFrames

`LocalController` is one attached station: two legs with CALLs and answers in both
directions, the relay hook's verdict on each frame, there and back, a keepalive per
leg, and the close that goes from one leg to the other. `WsCodec` is one direction of a WebSocket: the negotiation of
permessage-deflate, the encoder of one side (this library, another that follows
the RFCs, or one that breaks a rule) and the decoder of the other, with the two
DEFLATE windows as the messages they contain. The rules that are broken (`Rogues`) are
those of the header (a reserved opcode or bit, a length that is padded or has its top
bit set), of the frame (mask, compression, fragments, control frames), of a Close (no
code, or a reason that is no UTF-8) and of a payload (no UTF-8, or nothing that can be
inflated), one at a time and each with the close code it calls for. `SignedFrames` signs a frame and
verifies what arrives under both policies; a signature is what it was computed
over and by whom.

### Decimals, Readings

`Decimals` is the arithmetic at a width that is scaled down: 8 bits for the
mantissa's 64, 16 for the 128 of the intermediate results, and two digits of
scale. Parsing, with a rounding of its own on either side of the exponent
(`decimal.rs:728`, `739`), is not in it. `Readings` is `energy_from_samples`: which sample of a message counts, and
what it is in Wh.

### MCBlocks

The modules from Billing on share no state with one another, so they are checked
side by side in one run: `block` says which of them a behaviour belongs to, and
the others keep their first state. `WithinLimit`, `CompositeExactAlways` and
`LimitsEnforced`, which the code breaks, are not among its invariants; each of them,
added to `MCBlocks.cfg`, shows its deviation in a few steps.

## Runs

| Run | Checks | Distinct states |
|---|---|---|
| `engine_offline` | `AccountedFor`, `Durable`, `Chronological`, `RetryBudget`, `AnsweredByPeer`: no boot gate, a disconnection, a crash or drain, late, repeated and foreign answers, a store that may fail and recover | 551,181 |
| `engine_boot` | `TimersArmed`, `BootGate`, and under fairness `CallsResolve`, `DrainEnds`: the boot gate with triggered messages, SENDs and automatic heartbeats, with a peer that need not answer | 206,062 |
| `engine_accepted` | finds `AcceptedIsNormalOperation` violated | - |
| `peer_station` | `PendingAreHandled`, `AnswersComeHome`, `WaitingBounded`, and under fairness `CallsAnswered`: a station over two connections, handlers that outlive one or panic, a channel of one place | 224,803 |
| `peer_status` | finds `GateFollowsBoot` violated: a CSMS that answers a `DataTransfer` with a status | - |
| `store_crash` | `AttemptsKept`, `OldestFirst`, `JournalBounded`, `ImplementsStore`: two crashes, one failing operation | 124,874 |
| `store_sync` | finds `OneWriterOpens` violated | - |
| `sessions` | `RouterExact`, `OvershootBounded`, and under fairness `EveryoneIsServed`, `OneSessionEach`: three connections of two stations, superseding or not | 284,544 |
| `sessions_race` | finds `SingleActiveConnection` violated, under the same fairness | - |
| `driver` | `NoReplyForgotten`, `NothingAfterReport`, and under fairness `KeepaliveExact`, `CallersReleased`: two connections, flushes that break at any frame | 62,922 |
| `driver_stop` | finds `ShutdownStops` violated | - |
| `blocks` | `NoStopMissed`, `EnergyExact`, `CountedOnce`, `CompleteMeansAll`; `NewestWins`, `OnlyRepeatsOverfill`, `NeverStaleAccept`; `ScheduleExact`; `OneAnswerEach`, `LegsWatched`; `DecodesExactly`; `ArithmeticExact`; `ReadingExact`; `InventoryWhole`; `SignaturesBind` | 2,299,712 |

Each run takes two and a half minutes or less. `TypeOK` of `Driver` documents the state
and holds on the same instances; that of `Engine`, `PeerRequests`, `Sessions` and
`FileStore` is proved.

Bounds and why they are enough:

- Two calls in `engine_offline`, a retried one and one behind it, since it has
  failing writes on top; three in `engine_boot`: one in flight, one that comes back
  to the front, one queued behind them. The queue's limit of two is reached.
- One disconnection and one halt: a second one meets the engine in states that
  the first one already leaves (an engine with a queue and no connection). The
  theorems have no such bound.
- `RetryAttempts` is 2, so that a message is retried and is given up; the
  timeouts are 1 or 2 ticks, so that they expire in every order.
- Three requests over two connections, with limits of one or two permits, places
  and unanswered calls: each limit is met and exceeded.
- Three messages in the journal with a floor of three and a ratio of two (64 and
  4 in the code): a compaction happens with live and with dead records. Two
  crashes: one may fall while the store recovers from the other.
- Three connections: one that holds an identity, and two that race to supersede
  it or one another, with one place in the router and two permits.
- A driver with a retried call and two SENDs over two connections: the outputs of
  a broken flush are a frame, an outcome behind it and a frame behind that, and
  they meet the next connection.
- Four events and one archived transaction: a transaction and the start of the
  next, or one that is interrupted by a reboot and ends after it, with a message
  repeated before and after the archiving. Started and Ended both carry readings.
- Tokens, profiles, samples, settings and frames come from the small sets of
  `MCBlocks`, chosen for their edges: tokens an update adds, replaces, deletes and
  names twice; profiles that begin, end, repeat or give way inside the windows, which
  are longer than the two repetitions that are counted; samples in every
  unit, unreadable ones included; the least integer of the width; a JWS taken from
  another frame.
- Three messages of up to four units, against a frame of two and a message of
  three: fragments, control frames between them, and each limit exceeded by one.
- All pairs of 26 mantissas and three scales, the ends of the range among them.

Deadlock is checked in the runs of `Engine` and `FileStore`. In the other modules
a behaviour ends when the requests, connections or events are used up, so there
it is not.

## Fairness

`Engine`: weak fairness of `Tick` (time passes), of `Timeout` while a timer is due
on a connected driver (`tokio::select!` in `Driver::run` is not biased, so the
sleep branch is taken), of `Connected` (the reconnect loop of `station.rs` tries
until told to stop), of `Stop` (`flush` returns the Close it read) and of
`Restart` (a station is powered up again). Nothing is assumed of the peer: it may
never answer, so `CallsResolve` rests on timeouts alone. It excepts a message that the
closed boot gate itself holds in the queue (`Held`), and only that one: a
`BootNotification`, a triggered message and the call in flight have to be reported
with the gate closed as well. A station whose peer is
never reachable again is outside that assumption. The formulas spell out the
state predicate that `ENABLED` amounts to, which TLC evaluates faster.

`PeerRequests`: every handler task is polled and returns (tokio's scheduling, and
an assumption about the application's handler; a panic is a permitted exception),
and the driver reads its commands (the same unbiased select).

`Sessions`: the accept loop takes the connections it has permits for, tokio's
timers fire (`handshake_timeout`, the grace period before `abort`), a session task
that ended is polled once more and removes its entry, and a session that
`shutdown` told to drain ends (its drain has a deadline, `DrainEnds` of `Engine`).
Peers may stay silent for ever at any point of the handshake, and the peer of a session
need not leave: a pair of sessions of one station ends, in `OneSessionEach`, only if the
code told one of the two.

`Driver`: the select is polled and unbiased, so that commands are read, outputs
flushed and due timers taken; time passes; an accepted boot comes in the end; and
the reconnect loop tries, with attempts that do not fail for ever. `CallersReleased`
excepts a network that never lets the station in again, which is what the bound on
connections looks like.

## Proofs

Each theorem holds for every value of the constants: any number of calls, requests,
connections, sessions, frames and events, any limits and timings, without the
bounds of the runs.

| Module | Theorem | Statement | In words |
|---|---|---|---|
| `EngineProofs` | `TypeCorrect` | `Spec => []TypeOK` | |
| | `EveryCallAccountedFor` | `[]AccountedFor` | a call is in one place and ends once |
| | `DurableMessagesSurvive` | `[]Durable` | what must survive is in the store |
| | `TransactionsInOrder` | `[]Chronological` | transaction messages keep their order |
| `EngineStepProofs` | `RetriesAreBounded` | `[]RetryBudget` | a transaction message is sent as often as its policy allows, any other once, and again only for a transmission no store was told of |
| | `AnswersAreThePeers` | `AnsweredByPeer` | a call is reported answered by the first answer to its transmission in flight, whatever late, repeated and foreign answers arrive |
| | `DeadlinesHaveTimers` | `[]TimersArmed` | every deadline has a timer |
| | `BootGateHolds` | `BootGate` | what goes out before the station is accepted |
| `PeerRequestsProofs` | `TypeCorrect` | `[]TypeOK` | |
| | `PendingIsHandled` | `[]PendingAreHandled` | `peer_inflight` is what is being handled |
| | `AnswersAreHome` | `[]AnswersComeHome` | an answer goes where its request came from |
| | `WaitingIsBounded` | `[]WaitingBounded` | the limit on the peer's calls holds |
| `SessionsProofs` | `TypeCorrect` | `[]TypeOK` | |
| | `RouterIsExact` | `[]RouterExact` | the router has the newest live session, three races excepted |
| | `OvershootIsBounded` | `[]OvershootBounded` | how far `max_connections` can be passed |
| `DriverProofs` | `NoReplyIsForgotten` | `[]NoReplyForgotten` | whoever waits is owed a reply by someone |
| | `NothingFollowsTheReport` | `[]NothingAfterReport` | no frame of a call after its report |
| | `LivePeersAreKept` | `[]LivePeerKept` | the safety half of `KeepaliveExact` |
| `FileStoreProofs` | `StoreImplements` | `Spec => ImplementsStore` | the journal implements `MessageStore`, crashes included |
| | `StoreAttemptsKept` | `[]AttemptsKept` | no recorded attempt is forgotten, wherever a crash cuts the file |
| | `StoreOldestFirst` | `[]OldestFirst` | a replay returns the messages in the order of their pushes |
| | `StoreJournalBounded` | `[]JournalBounded` | compaction keeps the file in proportion to what is live |
| | `StoreOneWriterOpens` | `[]OneWriterOpens` | without a failing sync, `open` never takes one writer for two |
| | `StoreTypes` | `[]TypeOK` | |
| `WsCodecProofs` | `CodecDecodesExactly` | `[]DecodesExactly` | what is read is what was written, and what breaks a rule is refused |
| `BlockProofs` | `LegsAreWatched` | `[]LegsWatched` | neither leg stays silent unnoticed, none is cut too early |
| | `CallsAreAnsweredOnce` | `[]OneAnswerEach` | a relayed CALL gets one answer, from the controller or from the other side |
| | `NoStopIsMissed` | `[]NoStopMissed` | a transaction stops when a stop point is lost |
| | `EnergyIsExact` | `[]EnergyExact` | the bill is the meter's |
| | `EventsAreCountedOnce` | `[]CountedOnce` | a repeated event is not billed again |
| | `CompleteIsAll` | `[]CompleteMeansAll` | a complete record lacks no event |
| | `NewestAlwaysWins` | `[]NewestWins` | late and repeated updates never undo a newer one |
| | `LimitHeldWithoutRepeats` | `[]OnlyRepeatsOverfill` | only an update that names a token twice can pass the limit |
| | `AcceptIsNeverStale` | `[]NeverStaleAccept` | nobody is accepted on an old word |
| | `SignaturesAreBound` | `[]SignaturesBind` | a signature counts for its own frame |
| | `ScheduleIsExact` | `[]ScheduleExact` | the composite schedule is right at every instant it has boundaries for, and under the ceiling |
| | `InventoryIsWhole` | `[]InventoryWhole` | reports, pages, get and set tell one story, and what was written fits |

`Invariance`, `StepInvariance`, `BillingInvariance` and `DriverIsSound` state the
inductive invariants themselves. Every inductive invariant named below also holds, by
TLC, on the instances of the runs, except `CodecInv`, which quantifies over all
readers: TLC checks its consequence `DecodesExactly` only.

### Assumptions

Each is an `ASSUME` that TLC evaluates in the runs: the numbers are naturals, the
flags Booleans, sets of inputs have the fields the code reads, and the value that
stands for `None` is not a number or a record. `SignedFramesAssumption` says that a
verdict of failure is not a frame. `DeviceModelAssumption` says what a
`VariableSpec` is (it supports Actual), nothing of the values it brings;
`CatalogueAssumption` says that a row of the catalogue that is a variable comes before
those that are further attributes of it, which is so in all rows of
`standard/components.rs`: in another order the later row would replace the variable
with its attributes. Only the theorems about the store have hypotheses of their own:

- `FileStoreProofs`: a write that fails leaves nothing (`WriteFailures` is at most
  `{"Nothing"}`). A torn write without a crash is the hazard at `store_file.rs:339`,
  where the refinement really fails. A crash may tear a line anywhere.
- `StoreJournalBounded`: `CompactRatio` is at least 1 (the code has 4). With 0 even
  a file that was just compacted may be above the bound.
- `StoreOneWriterOpens`: `sync_data` does not fail. With a failing sync the property is
  false, which is finding 3; the theorem says that this is its only cause.

Where the code breaks a claim of its own, the theorem is about what it does keep, and
the exception is part of the property, not a hypothesis: `OnlyRepeatsOverfill`,
`ScheduleExact` and `InventoryWhole` (the first three of the smaller deviations), and
`RouterExact` (finding 5).

`WsCodec` assumes limits of at least one unit, and that `NoParams`, which stands for
no message in progress, is not one.

### Arguments

**Engine, between handlers.** None of the three properties is inductive alone. Order
is lost by a `push_front` unless the message that comes back is older than every one
queued, which needs `FlightOK` (the transaction message in flight is older, and none
has come back while it flies) and `SlotsOK` (where entries sit). That a call is
reported once needs `FatesOK`, which ties outcomes to places; and `StoreOK` ties
places to the store. Inside a handler a call may be in nobody's place:
`on_disconnected` takes it out of flight before `requeue_or_fail` decides.
`Good(e, H)` therefore carries the set `H` of calls in hand, which every handler
empties. Each engine method has one lemma that it takes a good record to a good one,
each handler's lemma is their composition, and `NextIndInv` has one case per action.
Between processes `Dead` holds instead, and `WithStoreGood` is the step back.

**Engine, inside a handler.** Timers, retry counters, the boot gate and the history of
answers are broken and mended within one handler: a timer fires before its handler
re-arms it, a counter is raised after a frame is queued, a call is out of flight before
its outcome is written. `Fine(e, H, X, c)` says what
holds of the record `e` in the middle of a handler that began in the context `c`
(`Now` for the peer's and the driver's inputs, `During` while the application's call
may be one the CSMS asked for), except what the set `X` says must not be relied upon
there: a timer that has fired, the deadline of the call in flight, the idle timer.
Every method's lemma says which of `X` it needs and which it mends; a handler is
proved when its composition ends with `X` and `H` empty. `Counted` compares the
counters with `sent`, short of what is in `lost` and of what this handler's own failed
write adds to it (`Unrecorded`); `Rests` keeps this for the process that is down. `RetryBudget` then follows from the counters' own bound
(`Tries`). `AnsweredByPeer` is an action property: the ids of a connection that were
answered are behind the transmission in flight (`Behind`), so an answer that matches it
is the first, and only the handler of such an answer (`Arrives`, `Completed`) reports
one. `BootGate` is an action property and follows from `Gated`, where the last
disjunct of the property came from the proof: a message the CSMS asked for that is
made and sent within one step was never queued.

**PeerRequests.** `OneForOne` (the entries of `peer_inflight` and the calls in hand,
with distinct ids) needs that the ids of a station's peer belong to one connection, that
the driver of a CSMS hears only its own tasks (`NoDriverBetween`) and that a command in the channel is the
only answer of a task that has finished (`CommandsOwed`). `WaitingBounded` is then the
bound on `peer_inflight`, carried over by an injection.

**Sessions.** A connection that is between the two locks of `run_session` either is
the only one of its identity there or has lost a race (`RacesKnown`); tasks and phases
go together (`TasksInOrder`); what the router has is filed under its own identity and
was not superseded (`FiledInOrder`). The limits count permits (`LimitInv`).

**Driver.** `Sound(e, P)` relates the engine to the replies `P` the driver holds:
a call has one place, loses it when its outcome becomes an output, and is in `P` until
that output is handed on; `Ordered` says that nothing about a call comes after its
outcome, so every suffix of the outputs that a broken flush leaves (`OutputsSplit`) is
sound for the replies that remain (`FlushSound`). `DriverInv` adds the command channel
and that a stopped loop owes nothing. `Only` filters a queue with a recursive function;
what it returns is proved by the least prefix for which the claim would fail
(`TurnsExist`, `OnlyKeeps`), an induction that needs no induction rule.

**FileStore.** The three invariants and the refinement follow from one `Inv`. A crash
keeps some prefix of the file that contains what is synced, so `CutsAgree` says of
every such prefix that its replay `Agrees` with what the store holds: every live entry
is there, any other is in doubt, the order is that of the pushes, and no recorded
attempt is missing. To say it of the whole file only is not inductive, since a crash
leaves a shorter one. `InCall` says what the call between its write and its sync has
added, `Journal` where lines can be torn (only in a file not yet reopened), `Numbers`
how far the counters are. A step appends one line, whose effect on a replay is one
lemma per kind of line, or it writes the `image` of a map, whose replay is that map
again: `Sorted` lists every key once, by a count. What `replay` computes is proved by
the least prefix for which the claim would fail. `Lengths` adds `written` for the bound
on the file, and `Fresh` the numbers of the pushes in it for `OneWriterOpens`.

**WsCodec.** Frames on the way are still to be read, and what a reader makes of one
depends on all before it (the fragment in progress, the DEFLATE window). `CodecInv`
therefore speaks of the readers to come: there is a `Chain` of reader states, one per
frame on the link and one more, in which each makes of its frame what the frame calls
for, up to the first that is to be refused, and the last is `InStep` with the writer:
`Idle` between messages, `Busy` inside one, and in both cases what the compressor
still remembers is an end of what the reader does. The latter is what makes a window
that one side resets, and the other does not, harmless. Reading drops the head of the
chain, and writing extends it at its end (`FrameWritten`), with one lemma per kind of
frame: `DataTaken`, `ControlTaken`, `RogueRefused` with `CloseRefused`.

**LocalController.** `Clocks` relates the ping timer, the pong deadlines and the time
each leg has been silent. `RelayInv` numbers the frames of each leg: what was read is
older than what was not, and a frame is written to one leg, once. `RelayedInv` adds
that a frame goes on to the other leg only (`GoesOn`) and that a side answers only what
has reached it (`AskedFirst`), so that a CALL which the controller answered has no other
answer.

**Billing.** `MachineInv` says that the saved machine and the event not yet handed over
continue the numbers of what was saved (`Persistence`), which is what a reboot between
two events needs; `LedgerInv` says that a record says what its delivered events say,
for 2.x by their numbers (`Numbers`), for 1.6 by their marks and the numbers given to
them (`Marks`, `Given`), an archived transaction included.

**Authorization, SignedFrames.** The list says of each token what the newest update
that names it says, and its version is not older than any update it is made of
(`ListInv`), so that an update which is applied is the newest. What applying the
entries of one update amounts to is `SaysLast`, by the least number of entries for
which it would fail, and holds however often one update names a token; `SizeForeseen`
compares the predicted size with the real one by
counting entries against tokens. The cache says of a token what the CSMS said last
(`CacheInv`); the frames are those that can arrive (`FrameInv`), and the rest is a case
analysis over how a signature was made.

**SmartCharging.** The only invariant needed is that the profiles are ones that were
brought (`Brought`); the rest is about what `composite` computes. `SaysTheSame`: at an
instant that is no boundary a profile says what it said one instant before, also where
it repeats (`DayBefore`, `DayOrder`); so the limit changes at boundaries only
(`LimitTheSame`), up to the last repetition that is counted (`LookedAtBefore`, `DayLess`):
an instant that is looked at has only such instants before it. `CompositeRight` walks the instants in ascending order and says that
the periods merged so far give the limit of every instant passed, by the least instant
at which they would not. That no limit passes the ceiling is `LeadingIs`, `LowestIs`
and `CeilingIs`.

**DeviceModel.** `Sound`: the registry is finite, and every variable in it has an Actual
attribute and, of the values that no declaration brought, only such as `set` would take:
a declaration replaces a variable with all its values, so none of the old ones is left
to be measured by the new type. That it is finite is what makes a
report a list of each entry once (`ListedOnce`). The rows of a catalogue keep what the
rows before them declared (`RowTakes`), by the least row for which this would fail.
Pages meet at their edges (`ChunkIs`, `Joined`), and the number of pages is the length
divided and rounded up (`PageCount`), so that their concatenation is the report.

### Only model-checked

- Liveness (`CallsResolve`, `DrainEnds`, `CallsAnswered`, `EveryoneIsServed`,
  `OneSessionEach`, `KeepaliveExact`, `CallersReleased`): fairness and `ENABLED` are
  out of this prover's reach.
- `ArithmeticExact`, `ReadingExact`: a decimal is shifted by powers of ten, and the
  provers know nothing of exponentiation, not even that 10^(a+b) is 10^a times 10^b; a
  reading is such a decimal of the sample that a fold over the samples chooses.
- `TypeOK` of `Driver`.

## Findings

1. `engine_accepted`: `boot_retry_at` outlives the verdict it was set for. A
   station told Pending and then, after an early `BootNotification`, Accepted
   falls back to `Idle` when the old timer fires, and its gate closes.
2. `peer_status`: `respond` reads a boot verdict from the answer to any request,
   so a `DataTransfer` answered Rejected closes the gate of a station that was never
   told so. And `on_call` forgets the verdict when another `BootNotification` arrives
   (`engine/mod.rs:1373`), so a station told Pending has its gate open while that one is
   handled, and for good if it is answered with an error; with `StatusActions <-
   BootAnswers` in `MCPeerStatus.cfg` this is the trace TLC finds.
3. `store_sync`: after a write that succeeded and a sync that failed, `push` uses
   the same sequence number again, and `open` refuses the journal of one writer
   as the work of two.
4. `driver_stop`: a drain that completes because the connection was lost queues
   its Close while `run` ignores what the last flush returns; the loop of
   `station.rs` connects again although the application asked it to stop.
5. `sessions_race`: two connections of one identity that are both between the two
   locks of `run_session` both keep their sessions for as long as their peers stay,
   one of them out of reach of `CsmsHandle`; a `handshake_timeout` that strikes at the
   second lock leaves the same.

What the passing runs leave out because of them: nothing of 2, since they check no
property of the CSMS's gate. `BootGate` is stated with the peer's last verdict, which
finding 1 makes stronger than the engine's own state, never weaker. `ImplementsStore`
excludes nothing for finding 3: a journal that is refused never opens again, which loses
no message in the abstract sense and delivers none either. `RouterExact` and
`OneSessionEach` except the connections that raced.

Smaller deviations met while modelling, with what the models make of them:

- `LocalAuthorizationList::update` measures an update against the list as it is before
  it (`authorization.rs:205`), so one that deletes a token and adds it again may pass
  the limit that `bounded` is documented to keep (`authorization.rs:161`). `WithinLimit`
  as an invariant of `MCBlocks.cfg` reproduces it; `OnlyRepeatsOverfill` says that there
  is no other cause.
- Where a repetition of a schedule begins is no boundary unless the schedule has a step
  there (`smart_charging.rs:610`), so the last limit is carried into a stretch without
  one, against the docs of `boundaries` (`smart_charging.rs:566`).
  `CompositeExactAlways` reproduces it. After 4096 repetitions inside one window
  `boundaries` stops looking (`smart_charging.rs:602`). `ScheduleExact` excepts the two.
- The least `i64` is a whole number that `Decimal` does not read, and `set` stores it
  whatever the limits are (`device_model.rs:709`, against `device_model.rs:680`).
  `LimitsEnforced` reproduces it; `InventoryWhole` takes the limits on what `Decimal`
  reads.
- `drain_complete` ignores `peer_inflight` (`engine/mod.rs:1764`), so a superseded
  session that owes only an answer is closed before the answer is sent, although
  `csms.rs:722` lets it drain. `DrainKeepsAnswers` as an invariant of
  `MCPeerStatus.cfg` reproduces it.
- At `max_connections` a station that reconnects is refused because of its own old
  session (`csms.rs:590`); the three races between the locks of `run_session` are
  in `raced`.
- The ledger's module comment (`ledger.rs:37`) says that a transaction without a
  Started has no energy; an Updated fills in the start (`ledger.rs:370`). A 2.x
  event that is retried after its transaction was archived opens a new record;
  `CompleteMeansAll` and `CountedOnce` say how far that is visible.
- With `local_authorize_offline` off, a token that is known and accepted is reported as
  `OfflineUnknown` (`authorization.rs`).
- `has_gaps` and `fill_gaps` do not see a gap at the start of a schedule
  (`smart_charging.rs`), so they do not help against a repetition without a step at its
  beginning.
- After a reboot without a running transaction the first `observe` may start one
  for conditions that held before (`transactions.rs:376`).
- `DeviceModel::declare` takes values that are not of the declared type or within the
  declared limits. Rows of the catalogue whose attribute the library does not know
  declare their variable again, and are counted again, and a constant that is declared
  writable is listed in the configuration inventory.
- Without the action of the request, a signed CALLRESULT is returned with the JWS
  as its payload where signatures are optional; a message id is not protected by
  the signature. `SignatureCounts` is stated for a known action.
- `Decimal::checked_pow10` of zero is None for a surplus of 19 to 40 digits and zero
  beyond; `checked_div` may be None although the quotient fits, when the numerator
  times ten does not fit the wide integer; a result of `i64::MIN` is None after a
  rounding. In `events.rs:444` the multiplier and the unit are applied one after
  the other, and the first may overflow where both would not.
- The Local Controller goes on after a failed negotiation of compression upstream
  (`local_controller.rs:497`), and sends a Close of its own after it has forwarded
  the peer's.

## Not modelled

- Failures of the file system other than a write that leaves nothing, a sync that
  fails and a rename or reopen that fails in `open`: a torn write without a crash
  loses the lines after it, a compaction whose reopen fails leaves the handle on
  the old file, and a rename whose directory entry is not yet on the device is
  assumed durable. They are hazards in `PROJECT.json`; `WriteFailures` has the
  torn writes ready for a run of their own.
- `max_queued` compares the queue only, so a call in flight that comes back makes
  it one longer than configured; the model does the same, and no property claims
  the tighter bound. Handler tasks of SENDs are not bounded by
  `max_peer_requests`; `WaitingBounded` counts CALLs.
- Lengths of time: the back-off's delays and jitter, the spread of retries. Where a
  deadline matters, a few ticks stand for it; in `Sessions` it may strike at any
  moment.
- A socket write that blocks: it stalls the select of `Driver::run` and of the
  relay, and with it the keepalive; a write goes through or fails.
- `reject_result` and the frames that do not parse: they transmit an answer and
  change nothing else, `OtherTraffic` stands for them.
- The eviction order of the authorization cache has no property of its own (a unit
  test of the repository has it), and neither have the stop reasons of a
  transaction.
- Text and bytes: JSON, schemas, masking, the bits of DEFLATE, TLS, base64 and
  ECDSA, HTTP headers, number formats, the 1.6 configuration keys. They are
  functions without state.
- Generated code: the message and type structs of the three protocol versions, the
  action tables and the standard's catalogue are more than half of the repository's
  lines and contain no logic of their own. The test kit, the command line tool and
  the code generator are tools.

## Plan

The modelling is complete as far as the code has state worth checking, and every
safety property of the modules with state that changes under concurrency, crashes or
reordering is proved. What could follow:

1. `Driver`: `TypeOK`.
2. Torn writes: a run of `FileStore` with `WriteFailures = {"Torn", "Unended"}`, once
   `append` makes sure of the end of the line before it.

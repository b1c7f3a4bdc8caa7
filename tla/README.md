# TLA+ verification of muc-opcua

muc-opcua is an OPC UA server in C11 for small devices. It allocates nothing on the heap: its state is
`struct mu_server` with arrays whose sizes are compile-time constants. It runs in one thread: the application
calls `mu_server_poll()`, and everything happens inside that call. Transport, clock, entropy, cryptography and the
address space's values come in through adapters. What is compiled depends on the conformance units
(`MUC_OPCUA_CU_*`) of the chosen profile (nano, micro, embedded, standard, full).

With one thread there are no data races. What is hard is that one poll serves several clients through
shared buffers, tables and counters, that a handler changes several of them before it can fail, that everything is
bounded and reused, and that almost every number wraps. The models are about that.

Paths below are relative to `src/src/` unless they start with `docs/` or `specs/`.

## The system and its modules

How the parts interact: `mu_server_poll` visits connections, reads, and calls `process_message` for each message, which
checks and assembles chunks and calls `mu_service_dispatch`; services change Session, Subscription, item and node tables
directly and write the reply into the server's one send buffer. At the end of a poll the timeouts run, items are sampled
and `publish_due` walks the Subscriptions, answering requests parked by earlier calls through
`mu_server_emit_message`. Sessions and channels refer to each other by id only, looked up when used. Encoding and chunk
protection lie below all of this, the integrator's adapters beside it.

| Module | Models | Hard parts | Checked in run |
|---|---|---|---|
| `RxBuffer` | the receive path of a connection, byte by byte (`core/server/poll.c`) | reads end anywhere, lazy compaction, sizes at the limits | `rx_stream`; `RxBufferProofs` |
| `Channel` | poll loop, connections, SecureChannels, chunk assembler, numbering (`core/server/*.c`, `core/sequence.c`, `osc_handler.c`) | one assembler and one send buffer for all, late failures, wraps | `channel`, `live`, `channel_chunked`, `channel_mixed`; `ChannelMoves`, `ChannelProofs` |
| `Session` | the Session table, its checks, timeout and counters (`services/session.c`, `core/service_dispatch/*_session.c`) | late failures, Sessions of lost channels, ids that collide | `session_table`; `SessionProofs` |
| `Publishing` | Subscriptions, parked requests, the publishing cycle (`subscription/basic/*`, `redundancy/*`) | one queue for all Sessions, requests answered long after they came | `publishing_sessions`, `live`, `wire`, `publishing_reply`; `PublishingProofs` |
| `MonitoredItems` | the data items of a Subscription: five services, ResendData, sampling, deadband, triggering, notifications | a split notification, links to deleted items, resize under content | `items`, `live`, `items_resize`; `ReportProofs`, `NotificationProofs`, `ItemsProofs` |
| `ReportRing`, `ReportQueue`, `ItemQueues` | an item's ring of reports, the abstract bounded queue, and how the one implements the other | head and tail at the wrap, which report is lost, the overflow bit | `items`; `ReportProofs`, `ItemsProofs` |
| `Aggregate` | items with an AggregateFilter (`subscription_aggregate.c`) | interval borders, one-pass variance, reset between intervals | `services` |
| `EventFilter` | the stored WhereClause and its evaluation (`filter_reader.c`, `event_filter.c`) | element, operand and blob limits, nesting, Like | `services` |
| `EventQueues` | conditions, dialogs, audit payload pool, event rings, event notifications | the pool wraps under waiting references, failed sends | `services` |
| `NodeManagement` | dynamic nodes and references, Query | removal by moving the last entry, lost responses, pages over two tables | `services` |
| `Views` | node lookup, Browse, TranslateBrowsePaths | the sorted index, one pool of references for all results | `services` |
| `Attributes` | Read with its cache, Write, IndexRange, the audit of Write | maxAge, range bounds, the old value told | `services` |
| `History` | HistoryUpdate, HistoryRead with paging, ReadProcessed over the memory store | pages while others update, partial failure in a batch | `services` |
| `MethodCall` | registration of methods and Call | re-registration, argument checks | `services` |
| `Logon` | discovery, user tokens, identity and roles of a Session | what is advertised against what is accepted, re-activation | `wire` |
| `JsonWebToken`, `TokenCodec` | the claim scanner and verdict; base64url, DER of signatures | buffers that end, number caps, sign bytes and lengths | `wire` |
| `ManagedMethods` | key credentials, roles, certificates (pull): checks and what reaches the adapter | an answer that disagrees with what was stored | `wire` |
| `Client` | the client library's state machine and its socket | failure of every step | `wire` |
| `SecureChunk` | protection of OPN and MSG chunks, keys, padding, sequence numbers | block sizes, keys of 2048 and 4096 bits, order of derivation | `wire` |
| `BinaryCodec`, `StructCodec` | the binary encoding; structures defined by the application | cut input, full buffers, masks and offsets | `wire` |
| `PubSub` | writer groups and the pass over them | wrap of the tick, a failing group | `live` |

`PROJECT.json` maps every definition to its lines, and lists the hazards with the properties aimed at them.

**Sums.** Components that do not meet share a run. An `MC` module instantiates each of them over the same variables, and
the variable `part`, chosen in the initial state and never changed, says which one a behaviour belongs to. A
property of a component is stated for its part only. So `MCServices` is the disjoint union of nine small state spaces
and no product is built. `MCLive` keeps variables per component, because it also states their fairness.

**How the modules are built.** A handler is one action with everything it changes, late failures included; what a
handler changed before failing stays changed. Requests refused without a change are stuttering steps. Data is
abstracted to what the properties tell apart; where a property is about data (lookup, filters, codecs, aggregates),
the algorithm is an operator and the property compares it with a definition that does not share its form. Some modules
carry history variables (`told`, `granted`, `linked`, `newest`, `earlier`, `walk`, `client`): what the answers so far
have told the clients.

### RxBuffer

`poll_read_data`, `poll_msg_size`, `poll_process_buffer`. A byte is its offset in the peer's stream, so that `buf` says
which byte of the stream a cell holds and compaction is a copy of cells. `ReadSome` is one read of any size that
fits, `RefuseSize`, `Deliver` and `Finish` are the turns of the loop of `poll_process_buffer`; `Finish` includes the
lazy compaction. The size field can be read only where the cells hold that message's header. Connections end and
the slot is reused.

### Channel

The state of a connection slot is `live`, `est`, `idle`, and `chan` (id, token, policy, the sequence validator,
`out_sequence_number`); the server has one assembler, `asm`. `at` is the index of the poll's loop, and accept, skip, timeout, visit
and the handling of each message are steps of their own. `wire` and `back` are the TCP streams, reliable and in
order, lost with the connection. Each connection has a client that follows the protocol (`peer`): it numbers its
chunks, waits for the answer to an OpenSecureChannel, and uses the id and token it was last given; with `Mistakes` it
may misnumber a request or send one too early. The constants choose the build (`MultiConn`), security (`Secured`)
and how clients number continuation chunks (`CountsAll`). Cryptography is its outcome: a chunk can be unwrapped or
not, a response wrapped or not.

### Session

The build with several connections. `sess` is the table; `subs` says which Session owns each Subscription;
`chans` are the open channels; `told` is the nonce a slot's client was last given (history); `current` are the two
diagnostics counts; `zero` says that `get_tick_ms` still returns 0, the value that `last_activity_ms` takes for
"unset". A handler that fails late is one action with an outcome: what it changed before failing stays changed.
A request that is refused changes only tallies of refusals, which are left out, so it is a stuttering step.

### Publishing

The full profile. `cursor` is the index of `publish_due`'s loop over the table: `BeginPublish` does what the poll
does before it (Session timeouts, sampling), `SkipSlot` and the `Publish...(i)` actions are the iterations. Between
polls (`cursor = 0`) services run whole. `out` holds the messages of the last step, `earlier` the order of arrival
(history). Whether a timer is due, a request is past its `timeoutHint` or a Session is past its timeout is left open;
`now` only stamps arrivals. Sending on a connection may succeed, lose the connection, or (on a secured channel) fail to
wrap. Monitored items are the flag "something to report".

### MonitoredItems and its refinement

A tick of the server is three steps (`phase`): `SampleItems`, `PrepareNotification` (what a notification will carry,
and the bits of the bitmap it takes) and `EmitNotification`, which succeeds or fails; no request is handled in
between. A notification is put together, and after it was sent drained, in two rounds over the bitmap, first the
reportable items and then the sampling items they link to; the turns of the two rounds are numbered one after the other.
An item's links are a set of ids, as their order is never used. Two history variables, `resized` and `reenabled`, mark
the behaviours in which the code breaks a promise (see below): `reenabled` is set when SetMonitoringMode enables an item
that still holds reports or whose read fails (`subscription_helpers.c:260-289`).

`QueuesImplemented` in `ItemQueues` says that this implements `ReportQueue`: every item has a list to whose end reports are
added, from whose front a notification takes what it carries, and from which nothing else disappears except, in a full
list, the oldest or the newest, with a mark. The mapping reads the list out of the ring from `queue_head` on. The
promise ends for an item whose non-empty list is resized: there the code does not keep it (see `items_resize`).

### Composition

`Channel` composes the server with clients; `Publishing` composes Subscriptions with Sessions, connections and their
loss; `Logon` composes discovery with the SecureChannel and Session a client then opens; `SecureChunk` composes both
ends of a channel; `MonitoredItems` composes rings, triggering links and notifications. In `Publishing` an item is
only "something to report"; `MonitoredItems` in turn has one Subscription and takes a Publish request for granted.

## What is checked

Constants stand in for 2^32 and other large sizes, so that wrap, exhaustion and overflow happen.

| Run | Instance | Properties and what they say |
|---|---|---|
| `rx_stream` | buffer 5, header 2, slack 1, stream 10, size fields 1-6, several connections in turn | `MessagesInOrder`: what is handed over is the stream. `RoomToRead`: the poll never finds the buffer full of what it cannot process. `Received`: a message of legal size that was sent whole is handed over |
| `channel` | three parts with one connection each. Numbers: 3 chunks in flight, ids and tokens mod 3, numbers mod 6. Parts: single-connection build, requests in up to 4 chunks, 2 in flight, assembler of 2. Mistakes: secured, a client that misnumbers, 2 chunks in flight, tokens mod 2, numbers mod 4 | `Agreement` on channel and token. `GoodClientsServed`: a client that follows the protocol is not aborted, not left unanswered, and its messages are dispatched whole. `NumbersKept`: responses are numbered without a gap, and a repeated or skipped number ends the connection |
| `session_table` | 2 slots, 1 Subscription, 2 each of ids, tokens, channels, users; timeout 1, asked for 0 and 2 | `UniqueSessions`; `NoOrphanSubscription`; `CountsFollow` (diagnostics); `NonceAgrees` through late failures; `IdleEnds`: a silent Session ends |
| `publishing_sessions` | 2 Sessions on 2 secured connections, 1 Subscription, queue of 2, numbers to 2 | `RetransmitIsLast`: Republish finds the last notification. `SequenceUnbroken`: a number is taken exactly when it was sent. `AnsweredInTurn`: who is answered, in which order |
| `live` | publishing: 1 Session, 1 Subscription, counts asked for (0,0) and (6,2); channel: 2 connections with one channel id between them; items: 2 items of 2 nodes whose sources change among two numbers and Bad, 1 report per notification; pubsub: 2 groups, clock mod 5 | `ServedSurvives` changing counts; `KeepsAnswering`; `LifetimeEnforced`; `UniqueChannels`; `Served`: a request is answered or its connection ends, and a silent connection loses its slot; `Delivered`: what an item owes is sent, unless lower items' sources go on making reports; `Republished`: a group goes on publishing over the wrap |
| `items` | 2 items, rings of 2. Filters: numbers, a string and failed reads, 2 deadbands, 2 triggers, items disabled and enabled again. Queues: sizes 1 and 3 asked for, both discard policies, limit 1. Linked: sampling and reporting items and a link | `QueuesImplemented`: the refinement. `ToldCurrent`: a client that was sent everything knows the value new samples are compared with, also after failed sends. `ReportsInTurn`: a cut notification continues, and a sampling item reports only when triggered. `TypeOK`: rings inside their cells, the count of items exact |
| `services` / nodes | 2 static and up to 3 dynamic nodes, 3 references, 1 continuation point, page of 3, 4 requests | `NodesServed`: the tables hold what was granted and not deleted, each under its own name, whether or not a response arrived; QueryFirst lists what it should, and its point is the first node left out |
| views | spaces of 4 nodes in several orders, with base nodes and added references, pool of 4 | `ViewsExact`: the sorted index finds what a linear search finds; a Browse result is the front of what passes its filter, Good only when it is all; a path is followed as written |
| cache, ranges | 2 variables, clock to 2, 4 requests; 6 kinds of nodes, ranges at the bounds of their arrays and with numbers that wrap (mod 64 for 2^32) | `AttributesExact`: no value is older than maxAge allows; ranges read what they name, and write it when no number wraps; the audit event of a Write tells the old value |
| history | store of 3, page of 3, 4 requests | `HistoryKept`: one point per timestamp, results tell what is stored, pages cover their range while others insert and replace, aggregates are those of the definition |
| methods | 3 methods for 2 entries, 3 steps | `RunsAsDeclared`: what runs is what was registered last, executable, with the declared arguments |
| events | rings of 3, pool of 2, stamps mod 4, 5 events, 1 condition entry | `EventsFaithful`: queues hold the latest events in order; each is sent once, with its own audit payload or Null, and with it while the pool keeps it; a condition is retained until inactive and acknowledged |
| filters | 3 elements, 6 operands, blob of 6, depth 3; events of 2 severities and types | `FiltersFaithful`: the stored clause is the one sent; Like is its definition; the depth limit cuts no legal clause |
| aggregates | intervals of 3 ticks, clock to 7 | `AggregateExact`: what is reported is the aggregate of the samples of the interval |
| `wire` / logon | 2 users, an application that checks them or not and lets anonymous ones in or not, profile cache of 2, 4 steps | `LogonTrue`: endpoints as asked for, what is advertised is accepted, the identity is that of the last activation |
| tokens, texts | payloads with nested and repeated claims, tables of issuers; bytes {0, 1, 127, 128, 255}, up to 4; the buffer and lengths of `raw_ecdsa_to_der` scaled to 12 and 11 | `TokensJudged`: claims are those of the top level, the verdict is that of the issuers; base64url and DER are inverted by reference decoders, and DER is refused only for its size |
| managed | 2 calls, with and without adapters | `AnswersTrue`: what answers tell clients is what the adapters keep |
| client | 2 sockets, every call may fail | `ClientAgrees`: no socket is leaked; Session flag and state agree |
| chunks | 6 policies, keys of 256 and 512 bytes on either side, bodies around the block sizes and too long, 3 chunks | `ChunksRecovered`: what one peer wraps the other recovers, as long as a byte can count the padding |
| encoding, structures | values at the edges of their types, arrays up to one above the limit, rooms of 18 and 60 bytes; 13 definitions, masks of 2 bits, rooms of 2 and 5 cells | `ReadBack`: what is written is read, a prefix is refused, structures come back field by field |
| parked | 2 Subscriptions, 1 request, ids to 2 | `NoSilentDrop`: a request leaves the queue unanswered only in the cases it names |

Each property of these runs has a mutant in `PROJECT.json`: a plausible mistake in a mapped definition (the operators
commented `Mutant` in the modules) under which TLC finds the property violated.

**Why the bounds are enough to be interesting.** Two of everything that is shared is what a mix-up needs; one
fewer id, slot or queue entry than users makes collision, refusal and eviction happen; moduli of 2 to 6 with a
wrap window inside let every number be passed and wrapped. In `rx_stream` sizes one below, at and one above the
header and the buffer occur and the stream is twice the buffer. Rings, pools and pages are filled and wrapped within
the steps allowed; codecs are given the values at which a length changes, and index ranges numbers
on both sides of the wrap. Symmetry over Sessions and connections is used only in
`publishing_sessions`, whose properties are an invariant and action properties. Counters are capped in guards: `MaxNow`,
`MaxCount`, `MaxQueue`, `MaxPend`, `MaxAge`, `MaxId`, `MaxEvents`, `MaxSteps`, `StreamLen`. `MaxCount` of `Session` caps
the diagnostics count that grows without end (see below). `services` and `wire` do not check deadlock: a behaviour
there ends with its bound on requests.

**Fairness.** The application keeps calling `mu_server_poll` and the clock advances: weak fairness of the poll's
steps, of `Tick` and of the Session timeout check each poll makes. Strong fairness is asked where one poll may
legitimately miss its chance: a publishing timer that is not yet due (`PublishSlot(i)`), a transport that returns no
bytes although it has some (`ReadSome`, `Reads(c)`), and a poll that spends itself on accepting
(`NoAccept`: a poll that accepts or turns away a client reads nothing, `core/server/poll.c:267`, so `Served` depends
on polls without an arrival). For `Delivered` every sampling timer runs out again and again, and again and again there
is a Publish request whose answer can be sent (`ItemsFair`); without that a report may rightly wait for ever. A
failing `mu_pubsub_poll` ends the background work of its poll (`core/server/poll.c:210-215`), Session timeouts, sampling and
publishing included: the fairness of these steps counts on polls in which it does not fail. For
`Republished` polls come often enough that a timer's due time is not jumped over (`MaxGap`). Clients are never
assumed to act otherwise.

## What the code does not keep

Four runs are expected to be violated; each states what the repository says.

- `publishing_reply` / `ReplyIntact`. DeleteSubscriptions and TransferSubscriptions answer a parked request in the
  middle of writing their own reply, through the same send buffer (`core/server/data_chunk.c:93`).
- `channel_chunked` / `NoFalseAbort`. Continuation chunks are not passed to the sequence validator, so a client that
  numbers every chunk is aborted at the final one (`core/server/process_message.c:139`).
- `channel_mixed` / `DispatchedWhole`. The assembler belongs to the server, not to the connection, so chunks of two
  connections mix (`core/server/process_message.c:28`).
- `items_resize` / `OnlyReportsSent`. ModifyMonitoredItems changes `queue_size` and keeps head, tail and count; a queue
  that grows from 1 sends a cell that was never written and loses the report that waited
  (`monitored_items.c:300`, against `specs/005-embedded-profile-completion/contracts/monitoreditem-queue.md:31`).

Others were found while modelling. The modules have them as the code does, and the properties except them by name.

*Channels, Sessions, Publishing.* `Publishing` states four that TLC refutes on the instance of `publishing_sessions`:
`NoStrandedRequest` (requests of a closed Session stay parked and use up the shared queue), `TransferReportsAvailable`
and `AnswersOwner` (Transfer reports and notifies before the owner changes, on the caller's connection), and
`EvictsOldest` (requests of one millisecond are told apart by queue slot). `Channel` states `ConnectWindow`, refuted with
`ConnectLimit` 1 and `MaxAge` 3 because every read renews the window. On a secured channel a response that cannot be wrapped is
never sent; continuation chunks are accepted without any check; after an oversized message is dropped its
remaining chunks are taken for a new one. A Session last used at tick 0 never times out (`IdleEnds` excepts it); a
Subscription ended by its lifetime stays in `current_subscription_count` (so `CountsFollow` says at least, not equal).
On an AEAD policy the number of a response that did not fit is used up, and the client cannot open what
follows (`core/server/data_chunk.c:72`).

*Items and events.* An item that is enabled again takes the value it reads as `last_value`; when reports from before wait
in its queue the value is never queued (`pending` only fills an empty queue), and when the read fails only
`last_status` moves on. Either way the client may be left with another value or status than the one new samples are
compared with, so `ToldCurrent` ends there. Every notification starts at the lowest slot, and `variant_scalar_equal`
(`subscription_monitor.c:13-49`) takes a failed read, a string or an array as different from itself: an item with such a
source makes a report at every sample, as one whose number keeps changing does, and with a limit the items in higher
slots can starve (`Overtaken`, the case `Delivered` excepts). Quality and
duration aggregates use the status of the sample before, and a duration counts from the clock's origin. A
WhereClause with an operand of another kind (AttributeOperand) or a literal that does not fit is emptied with a good result and then matches
every event; the comment at `filter_reader.c:601` says it fails. Field lists that do not fit the body stay queued and
are refused on every publish. A PubSub group that fails ends the pass (`pubsub.c:50`).

*Services.* QueryNext returns no nodes, and a page without a free point is answered with an undefined one;
`specs/015-query-services/spec.md` (lines 21 and 36) expects pages. An id the server chooses is the first automatic id
plus the number of nodes; after a delete it may exist already, and the request is refused
(`specs/014-node-management/research.md:14` speaks of a unique one). A delete between two history
pages makes the reader miss points; ReadProcessed aggregates the first page of a longer range. A Write does not
refresh the read cache. The numbers of an IndexRange wrap at 2^32 and are taken as signed
(`attribute_handler.c:167-199`): a Write whose text wraps merges at another place than it names, possibly outside the
array (`Merged`). `WriteExact` speaks of texts whose numbers fit (`Fits`); the run has both.

*Logon and wire.* The unsecured endpoint advertises JWT and ActivateSession refuses it there (`discovery.c:202`,
`activate_session.c:267`). `session_roles` stays when a Session is activated again with another kind of token. With
two issuers of one URL an error other than a bad signature from the first ends the search (`jwt.c:346`). Text behind `=` is
ignored by base64url. A writer's status is called sticky (`include/muc_opcua/encoding.h:43`), and a string refused for
its size does not set it (`binary_string.c:76`). A Variant array longer than `MU_INTERN_MAX_ARRAY_LENGTH` is written and
the reader refuses it (`binary_variant.c:146`, `:315-349`); one with a length and no elements is written as its length
alone (`:320`), and `ReadBack` excepts it. The padding of an OPN chunk is counted in one byte without ExtraPaddingSize
(`wrap.c:139`, `:178`): for a receiver's key of more than 2048 bits, which `certificate.c:39` accepts, it may exceed 255, and the body
then comes back longer (`unwrap.c:65-76`); `OpenRecovered` excepts exactly these chunks. In application structures optional fields get a mask only every 32nd
index, a nested array overlaps the field behind it (`binary_complex.c:174`), and null arrays and arrays of
structures are encoded but cannot be decoded. The client counts a timeout while opening as opened
(`posix_client_transport.c:104`).

## What is proved

TLAPS checks these for every value of the constants that satisfies the module's ASSUME. The assumptions say that
sizes are positive, moduli at least their minimum, and marker values distinct from real ones.

- **`RxBufferProofs`**: `HoldsStream`, `AlwaysRoom`, `InOrder`, from `Invariance`. The inductive invariant adds to the
  properties themselves `Bounds` (what is unread ends inside the buffer and the stream), `Idle` (a closed
  connection holds nothing) and `Behind` (the next message starts behind the last). `RoomToRead` is the delicate one: it
  needs that `Finish` leaves a partial message only when its size is legal, hence fits the buffer, and that compaction
  happens whenever less than `Slack` is free.
- **`PublishingProofs`**: `TypeCorrect`, `IdsUnique`, `RetransmitLast`, `ServedSurvive`, `AnswersInTurn`,
  `NumbersUnbroken`, `NothingDropped`, from `Invariance`. The invariant is `TypeOK`, `SubsOK` (a Subscription in use has an owner, an id, a
  lifetime count of at least 3, and a retransmission slot that precedes its next number), `OwnersOK` (who parked a
  request is a Session, and who owns a Subscription was created, on a connection) and `UniqueIds`. `TypeOK` alone is
  not inductive, because messages name the owner's connection. `ServedSurvive` rests on the lifetime count: an
  answer resets the counter, and the check at the end of the same cycle then compares 1 with at least 3.
  `AnswersInTurn` follows each action to the dequeues it makes: each takes the Session's oldest request, and the
  second answer of a cycle the oldest of what the first one left. `NumbersUnbroken` has the hypothesis
  `MaxSeq > 1`: with a single number there would be no new one to take, and the code's numbers have 32 bits.
  `NothingDropped` is `NoSilentDrop` without bounds: each action is followed to the slots it clears. The proof
  brought out a case that the run, with one Session, does not reach: TransferSubscriptions sends the old owner's status
  change over the caller's connection, so the request it uses up is lost when the caller's channel cannot secure
  it, even if the old owner's is not secured. The property names that case.
- **`SessionProofs`**: `TypeCorrect`, `SessionsUnique`, `SubscriptionsOwned`, `CountsCorrect`, `NonceShared`, from
  `Invariance`. The conjunction of these properties is inductive as it stands. The parts need each other where they meet
  in the tables: the count of Subscriptions covers those in use only because an open Session's id is never the 0 that marks a free Subscription slot, which `TypeOK` says.

- **`ChannelMoves`, `ChannelProofs`**: `ChannelsAgree` and `ChannelsUnique`, from `AlwaysSettled`; `NumbersFollow` and
  `NeverFalselyAborted`, for clients that follow the protocol. `ChannelMoves` reduces
  the server's steps to what they do to one connection: `View(c)` collects the state of both ends of connection c
  and what is in flight between them, and `StepMoves` says that a step changes at most one view, by one of a few
  moves (a connection is accepted or ended, a chunk is passed over, answered, or opens a channel, the client sends or
  receives). The invariant then speaks of one view at a time. `Agreement` alone is not inductive, because it says nothing of a client
  that waits; `Settled` adds what is in flight then. `Greeting`: the Hello is the first thing on a
  connection, and is there once. `Waits`: a chunk that may change the channel is the last one its client sent, and its
  answer is the only one of its kind and tells the channel the server has. `Agrees`: the two ends agree while the
  client does not wait. `ChannelsUnique` follows from the same moves: each
  leaves an open channel under the id it had, or under one that no other open channel has.
  `NumbersFollow` proves `ResponsesFollow`, for a client that makes no mistakes and a channel that is not secured: where
  wrapping a response can fail, the number it took is used up and the client sees a gap. Its invariant is `Stands` (a client
  sends requests only on a channel the server has open, and nothing follows the response that ends it) and `Numbered`
  (each response under way that carries a number follows the one before it, the first of them the last one received, and
  the last of them is the channel's). `NeverFalselyAborted` proves `NoFalseAbort` for a client that makes no
  mistakes and sends each request in one chunk; with several chunks it is false, which is the finding of
  `channel_chunked`. Its invariant is `Queued`: each chunk under way follows the one before it, the first of them the one
  the validator accepted last, and each is addressed to the channel and token the server has.
- **`ReportProofs`, `NotificationProofs`, `ItemsProofs`**: `TypeCorrect`, `AlwaysToldCurrent`, `AlwaysInTurn` and
  `RingsImplementQueues`, from `AlwaysIInv`. The invariant has five parts. `Typed`: a slot in use has an id, a free one is
  as it was initialised, and the count of items is exact; the walks of a tick stop after that many items, so no
  visit is missed only because of this. `Covered`: during a tick the bitmap has every item with something to report,
  or a report would be passed over. `Prepared`: when the notification is sent, an item that owes a report has it in
  its queue, or draining would clear a debt that was never paid. `RingsSound`: unless a queue was resized, the tail of a
  ring is `count` cells behind its head. `AllCaughtUp`: unless resized or enabled again, the newest report in a ring is the value
  that new samples are compared with, and with an empty ring that value is owed or is what the client was told. `ToldCurrent` is
  its case of an empty ring and no debt. The ring lemmas (adding to a ring, to a full one under either policy,
  clearing, taking from the front) say what each does to the list the ring stands for, and are what the
  refinement is made of: every step of the server is a step of `ReportQueue` or leaves its variables alone. How much
  of each queue a notification takes is a sum over the turns before, so the two rounds are related by induction over the
  turns.

Each proof has one lemma per action and one per record transform the actions share. Induction is used only where it is
first-order: over numbers, from the principle that a non-empty set of naturals has a least element. In the three modules
about items that principle and the facts about finite sets are a formula, `Library`, that lemmas assume; `ItemsProofs`
proves it (`LibraryHolds`), so no theorem depends on it.

Only model-checked:

- all liveness (`Received`, `Served`, `IdleEnds`, `KeepsAnswering`, `LifetimeEnforced`, `Delivered`, `Republished`), which is
  out of the prover's reach;
- of `Channel`, the conjuncts of `GoodClientsServed` and `NumbersKept` that no theorem states: `AlwaysAnswered` and
  `DispatchedWhole`, which count and match whole streams of requests and chunks, and `AbortOnViolation`, about a client that misnumbers;
- the modules from `Aggregate` to `PubSub` in the table above. Many of them walk nested or linear data by recursion
  (`EventFilter`, `BinaryCodec`, `StructCodec` and others), and what a recursive definition computes for every
  input is not provable with this prover.

## Not modelled

- Platform adapters (sockets, clocks, the mbedTLS, OpenSSL and wolfSSL bindings): calls into libraries. The modules see their results.
  Cryptography is symbolic in `SecureChunk` and an outcome elsewhere; the trust list is left out.
- `base_nodes.c` is a table of constants; `Views` has small tables of the same form.
- Services that keep no state and compute nothing: BrowseNext (no continuation point is ever given out), RegisterNodes
  (echo), RegisterServer (read and forgotten), UpdateCertificate and ApplyChanges of the push model (refused).
- In encodings: floating point, dates and DiagnosticInfo; the fields of a PubSub message; in filters SelectClauses and the contents of literals
  beyond numbers and strings (a Guid and the like is kept as an operand that evaluates to Null); among the aggregates those that repeat the forms modelled.
- `Session` is the build with several connections. The single-connection build, which reinitialises all
  Sessions on accept and leaves the counts as they were (`core/server/poll.c:169`), is not modelled, nor are tallies of refusals.
- Milliseconds: `Channel` and `Session` count ticks, `Publishing` and `MonitoredItems` leave "due" open.
- A failure of `mu_server_init` after the listener was opened, and configuration checks at compile time.

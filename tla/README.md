# fe2o3-amqp: a TLA+ verification project

fe2o3-amqp is an asynchronous AMQP 1.0 implementation in Rust. This directory
models the parts of it whose correctness depends on how concurrent tasks, frames
in flight and failures interleave, model-checks them with TLC on small instances,
and proves the central properties with TLAPS for all instances.
Paths are relative to `src/fe2o3-amqp/src/` unless they say otherwise.

## 1. The system

### Structure

An application opens a *connection* over a byte stream, begins *sessions* on it
and attaches *links* (senders and receivers) to sessions. Each connection and each
session is one tokio task (an *engine*) that owns the protocol endpoint and sits in
a `select!` over its channels. Links live in the application's tasks. Everything
between them goes through channels and a few shared cells:

    Sender / Receiver --LinkFrame--> session engine --SessionFrame--> connection engine --> stream
    Sender / Receiver <--LinkFrame-- session engine <--SessionFrame-- connection engine <-- stream
         |                                |                                 |
         +-- flow state (lock), unsettled +-- SessionControl (handle)       +-- ConnectionControl (handle)
             map (lock), notifier, counters    stop reason (OnceLock)            stop reason (OnceLock)

### Inventory

| component | state | operations | hard because | what makes it correct |
|---|---|---|---|---|
| session data path (`session/mod.rs`, `session/engine.rs`) | transfer-ids, delivery-ids, windows, the buffer of held-back transfers | outgoing transfer and flow, incoming transfer and flow, End | flows and transfers cross; a flow overwrites ids that transfers in flight also advance; u32 wraps | ids agree on both sides, the window is never exceeded, nothing is lost, reordered or held for ever |
| session lifecycle (`session/*`) | local state, link tables, stop reason | begin, attach/detach routing, try_end, end, drop | End crossing, errors while ending, frames after End | each handle gets its outcome, links learn why the session stopped |
| link flow control (`link/state.rs`, `sender_link.rs`, `receiver*.rs`) | credit, delivery-counts, drain flag, `processed` | send, recv, dispose, set_credit, drain, incoming flow | three tasks share it; a waiter and a notifier race; futures are dropped | no delivery without credit, no send that waits for ever with credit, counts agree |
| settlement (`link/delivery.rs`, `link/mod.rs`, `session/mod.rs`) | unsettled maps, delivery_tag_by_id | disposition in and out, settle, echo | both ends settle at once, ranges, mode Second | every send is resolved exactly once, with the outcome of its own delivery |
| attach, detach, close (`link/shared_inner.rs`, `link/builder.rs`) | LinkState, handles | attach, detach, close, drop, resume, their counterparts | crossing detaches, reuse of handles and names | frames reach their link, no handle is lost, no exchange hangs, the session survives |
| resumption (`link/resumption.rs`) | unsettled maps of both ends | resume | partial knowledge on each side | nothing unsettled is lost, no outcome changes |
| reassembly (`link/incomplete_transfer.rs`) | the incomplete delivery | append, abort, limit | a sender cancelled midway | a delivery is whole or not delivered |
| connection lifecycle (`connection/*`) | local state, stop reason | open, close, drop, incoming close, heartbeat, timeout | closes cross, sessions still send, the stream ends | frames handed over leave before the Close, success means an answered Close, all stop |
| channels (`connection/mod.rs`) | session maps and slab | allocate, deallocate, route | Begin and End race with drops | a frame reaches the session it is for, a channel comes back once |
| negotiation (`connection/builder.rs`, `transport/*`, `sasl_profile/*`, `auth/*`, `acceptor/*`) | the layer reached, read buffer, limits | headers, TLS, SASL, Open on both sides | a codec is exchanged over a buffer with bytes in it; no timeout | who passes SASL is who it claims to be; both calls return and agree |
| transactions (`transaction/*`) | control links, open transactions and their work, coordinators | declare, post, retire, discharge, drop | calls dropped, links lost, two transactions on one control link | all or nothing, and no transaction is left behind |
| codec (`frames/*`, `src/serde_amqp`, `src/serde_amqp_derive`, `src/fe2o3-amqp-types`) | position in the stream | write, read, measure, convert | widths, arrays, omitted fields, four implementations of one format | reading inverts writing and stays aligned, sizes cover |
| other crates (ext, ws, management, cbs) | little or none | | | |

`PROJECT.json` lists the components with their status and, under `hazards`, the
places in the code that are hard to test, with the properties aimed at them.

## 2. Modules

| module | models | instance |
|---|---|---|
| `SlidingWindow` | abstract: a window over counted transfers that only advances | through refinement |
| `SessionFlow` | session data path, two endpoints and two FIFO wires | `MCSessionFlow` |
| `SessionFlowProofs` | theorems about `SessionFlow`: ids, window, order, the refinement of `SlidingWindow` | |
| `LinkCredit` | link flow control, one sender, one receiver with its disposers | `MCLinkCredit` |
| `LinkCreditProofs` | theorems about `LinkCredit`, the refinement of `SlidingWindow` included | |
| `Settlement` | deliveries of one link: maps, dispositions, reassembly, resumption | `MCSettlement` |
| `LinkLifecycle` | attach, detach, close, drop and resume of links on one session | `MCLinkLifecycle` |
| `LinkExchangeProofs` | the inductive invariant of `LinkLifecycle`; the endpoints and the allocation of handles keep it | |
| `LinkLifecycleProofs` | the engines keep it; theorems about `LinkLifecycle` | |
| `SessionLifecycle` | begin and end of sessions, channels and routing on one connection | `MCSessionLifecycle` |
| `SessionLifecycleProofs` | routing and accounting of channels, sessions that end without harm to the connection | |
| `ConnectionLifecycle` | open and close of a connection, both endpoints, their sessions and the transport | `MCConnectionLifecycle` |
| `ConnectionLifecycleProofs` | theorems about `ConnectionLifecycle` | |
| `Negotiation` | how a connection comes to be: TLS, SASL, headers, Open | `MCNegotiation` |
| `NegotiationProofs` | theorems about `Negotiation` | |
| `Transactions` | controllers, the transactional session of the resource, coordinators | `MCTransactions` |
| `TransactionsProofs` | atomicity of transactions, and that none is left open | |
| `AmqpWire`, `AmqpSer`, `AmqpDe` | format codes; the two serializers; the deserializer | |
| `AmqpValue`, `AmqpTypes`, `AmqpMessage` | derived code and the way through `Value`; the types of the protocol; messages | |
| `Codec` | a stream between a writer and a reader, on top of the six above | `MCCodec` |

They divide the stack: what one module takes for granted is another's subject, and
its header says which. `Transactions` and `Settlement` take frames in order
(`SessionFlow`) and enough credit (`LinkCredit`); `LinkLifecycle` takes a session
that lives (`SessionLifecycle`), which takes a connection that is open
(`ConnectionLifecycle`), which takes one that was negotiated (`Negotiation`), which
takes bytes that decode (`Codec`). `SlidingWindow` is composed with both
`SessionFlow` and `LinkCredit`.

Operators whose comment calls them a mutant or a fault are wrong variants of the
definition after them and used by no specification; each shows that some property
notices that mistake (`mutants` in `PROJECT.json`).

### SessionFlow

State: the fields of `Session` that concern transfers (`next_outgoing_id`,
`next_incoming_id`, `remote_incoming_window`, `need_flow_count`, the buffer), the
link-to-session channel `link_frames`, and `wire`. `handed`, `sent`, `received` and
the numbers inside frames are history: no guard of the program's own reads them
(they also serve the bounds).

Actions: `LinkSendTransfer`, `LinkSendFlow` (a link puts a frame into the bounded
channel), `OnOutgoingTransfer`, `OnOutgoingFlow` (`on_outgoing_link_frames`),
`OnIncomingTransfer` with the half-window top-up of `maybe_outgoing_session_flow`,
`OnIncomingFlow` with the answer to an echo and the release of the buffer,
`OnControlEnd`, `SendEnd` (the engine closes and empties the link channel, then
sends End), `OnIncomingEnd`. Every handler runs to its end without another one of
the same endpoint in between, as in the engine's single task; the exception is the
closing loop, which awaits, and is two actions. `session/mod.rs` builds an echo
after it has set `next_incoming_id` and before it drains the buffer, and so does
the model.

The model begins after the Begin frames. An endpoint in `Pipelined` has sent a
flow before it saw the peer's Begin; such a flow has no `next-incoming-id`.
`remote_outgoing_window` is written and never read in the code and left out.

### LinkCredit

State: both `LinkFlowState`s, the sending task's position, each receiving task's
position, and the channels between tasks and sessions. One task sends (a `Sender`
is used through `&mut`); the receiving side has the task that owns the `Receiver`
and the tasks that hold a `ReceiverDisposer`.

The setting (credit mode, tasks, what is dropped, initial count) is a `plan` chosen
in `Init`. The awaits are action boundaries. `consume()` is three: `Consume` or `Refuse` under
the lock, and `AwaitNotified`, which registers the waiter. With `plan.parallel = FALSE`
nothing runs between the last two, as on a current-thread runtime. A refill is
built under the lock (`BuildFlow`) and sent later (`SendFlow`). `CancelSend` and
`CancelRecv` are futures dropped at an await. The sessions in between are FIFO but
for one thing: the answer to a drain is written by the session itself and passes
the transfers in the link's channel.

### ConnectionLifecycle

State per endpoint: `local_state`, the engine's position (`phase`), the result it
will report (`outcome`), the recorded stop reason, the channel from its sessions
and whether it is closed, and what its sessions saw. `wire` is the stream, which
`Break` cuts, losing any suffix of each direction.

Actions follow the `select!`: `OnControlClose`, `OnOutgoingSessionFrame`,
`OnHeartbeat`, and one action per kind of incoming frame; `Flush` is what follows a
closed channel (drain, then `send_close`, which writes the frame before it looks at
the state). `phase = "waiting"` is `wait_for_remote_close` after an error.
`Publish` is the code after the loop. The sessions of an endpoint are one actor
that sends and observes.

### SlidingWindow

A counter of transfers handed over, sent and received, and a limit that only
advances and never exceeds what was received plus the window. Both directions of
`SessionFlow` implement it (`SlidingBothWays`), with
`limit <- sent + remote_incoming_window`, and so does `LinkCredit`
(`SlidingCredit`), with `limit <- taken + snd_link_credit` and the credit as window.

### Settlement

Four tasks: sender, its session, the receiver's session, receiver. A message is a
sequence of units, one per frame; a unit may open a section, which is what
`resumption.rs` counts. State: the sender's `unsettled` map (ordered, since
`swap_remove` reorders it and resumption walks it), the futures of `send()` and
`send_batchable()`, the receiver's map `held`, its buffer and its application, and
the tables by which the sessions translate delivery-ids.

`Start`, `Claim`, `SendFirst` and `SendNext` are a `send()` cut at its awaits;
`SessionOut` and `SessionIn` are the two sessions; `Recv` is `recv_inner` with
`OnIncomingTransfer`, one operator per branch; `Dispose` and `DisposeAll` are the
application's decisions, which `Chunks` cuts into runs of consecutive ids. Faults
are chosen by `plan`, at most one per behaviour: a suspension, a close, a drop, a
cancelled send, a stop of the session. `Reattach` to `Resend` are `resume()`.
`mishap` (ghost) records what has gone wrong in a way the code cannot repair: a frame
for a link that is gone (`unattached`), a delivery cut by a cancelled send or by a new
session (`cut`), or one suspended between its frames and resumed (`halfway`).

### LinkLifecycle

State per endpoint: its procedure's position, `LinkState`, output handle and inbox;
per session: the slab of handles and its free list, the names, the map of input
handles, `close_pending`. Control and link-frame channels are separate queues the
engine reads in no fixed order. `Attach`, `Accept`, `AnswerAttach`, `CloseOrDetach`,
`DropLink`, `Resume`, `ObserveDetach` are calls of the application; `SendAttach`,
`OnIncomingAttach`, `OnDetachReply`, `OnLastDetach` their continuations behind an
await; `OnControl...`, `OnOutgoingLinkFrame`, `OnIncoming` the engine. `mishap`
(ghost) records an exchange that was cancelled, crossed or met a handle in its next
life; what such an exchange does to the session is listed in section 5.

### SessionLifecycle

Client and listener each have a connection engine with its two maps of channels and
a task per session; all channels between them are bounded by `Buffer`, and an engine
that cannot put a frame into one waits, as `forward_to_session` and
`send_outgoing_item` do. Of the frames inside a session three kinds matter: one the
session answers itself, the answer, and one that ends the session with an error.
Every frame carries the session it belongs to, which no engine looks at: it is what
`RoutedToPartner` compares with where the frame arrived.

### Negotiation

A pair of configurations and a fault (none, a cut stream, a slow peer) is chosen in
`Init`. Each party writes items (headers, TLS records, frames) into a FIFO byte
stream and reads them straight from it (TLS) or through a `FramedRead`, whose buffer
is kept when the codec on top of it is exchanged. Hashes, proofs and signatures of
SCRAM are terms: equal exactly when built alike. TLS, the network and an
application's own `SaslAcceptor` ("External", "Lax") are external. `MinFrame` = 3 and
`LenField` = 1 stand for 512 and 4.

### Transactions

A transaction is borrowed (it shares a `Controller` behind a mutex) or owned (a
control link of its own). One queue stands for link channel, session and connection,
which keep the order of frames. `Declare` and `Discharge` are calls up to their
await, `Return` what follows the outcome; `Cancel` drops a call or a handle, and
`RollbackOnDrop`, `Register` and `GiveUp` are what `Drop` does: the lock and the
credit are only tried, the tag is made from the counter, and the entry in the
unsettled map is made after the transfer has left. The resource keeps work
(`KeepWork`) until its engine handles `commit`, `rollback` or `abort` from the
control channel (`OnControl`); a coordinator takes one message at a time
(`OnDelivery`, `OnAnswer`) and aborts what it is left with when its link goes
(`OnRecvError`, as far as `try_send` finds room).

`CarriedWhole(t)` says of the work the resource has carried out that it is the work of
`t`: every frame of it is one that `t` has sent, every frame that `t` has sent is in
it, and they are in the order of sending. Frames are told apart by the number of the
post or retirement (`n`) and the part of it (`Part`).

### Codec

A datum keeps its type, its numbers and the lengths of its texts, not the characters.
Bytes are tokens, each what one `write_all()` puts down, with its width. `AmqpSer`
has both serializers of the crate (the one that writes and the one that only
measures), `AmqpDe` the deserializer with its one field for the element code of
arrays, `AmqpValue` the derived code and the second pair of serializers to and from
`Value`. `AmqpTypes` lists the types of the protocol and of the filter extension with
their descriptors, fields and defaults. `Codec` is the stream: values are written
behind one another, as a payload is written behind a performative, and read typed, as
`Value` or as `LazyValue` in any combination.

## 3. Runs

| run | checks | shows |
|---|---|---|
| `session_flow` | WindowRespected, HandedInOrder, NoNeedlessHold, SlidingBothWays, AllDelivered | window safety, order, refinement and progress, with flows and echoes crossing, a pipelined flow and an End |
| `session_wrap` | TypeOK, IdsInSync, DeliveryIdsConsecutive | implicit transfer-ids and delivery-ids across the wrap |
| `credit` | NoSpuriousLimit, DeliveryCountTracked, SlidingCredit, SendsComplete, DrainCompletes | automatic credit with one task and with a disposer, a parallel sender and dropped futures; manual credit and drain across the wrap |
| `settlement` | OutcomesTrue, NoneForgotten, DeliveredWhole, OwnFramesAccepted, AllResolved | deliveries through dispositions, faults and resumptions in both settle modes |
| `settlement_stop` | SendEndsWithSession (violated) | a send() that awaits its outcome is not woken when the session stops |
| `links` | ReachesPartner, SessionSurvives, NothingLeftBehind, ExchangesComplete | links attach, leave and come back in any interleaving on reused handles |
| `sessions` | RoutedToPartner, ConnectionOutlivesSessions, NoChannelLost, EndsComplete | sessions begin and end on reused channels; ends complete unless an engine and a session wait for each other |
| `connection` | HandedBeforeClose, CloseConfirmed, EverybodyStops | closes of all kinds against sends, heartbeats, timeouts and a breaking transport |
| `negotiation` | Authenticated, FramesUnderstood, LimitsAgreed, OpensTogether | every pair of configurations ends as it should |
| `transactions` | CommittedWhole, NothingLeftOpen, CallsEnd | atomicity and progress with drops, refusals and a lost link |
| `transactions_drop` | AnswersBelong (violated) | the outcome of a rollback by drop is taken for that of the next call |
| `codec` | ReadsWhatWasWritten, StaysAligned, SizeCovers, ThroughValue | reading inverts writing for every type at its boundary values |

`CHECK_DEADLOCK` is off everywhere: a session that has ended, a connection that is
open and idle and a link that has used its bound on calls rightly do nothing more;
that nobody is stuck is what the liveness properties say.

Several properties except a case, and say so: a case the code is known not to
handle. Each is described in section 5; the property holds for everything else, and
the exception is as narrow as the model could make it (a ghost that records the very
event, or a plan).

### Bounds

- *SessionFlow*: windows 1 and 2, four transfers and up to two link flows from
  the other side: the windows are used up and reopened several times, and transfers
  queue two deep in the buffer. The channel holds 2, so that End finds frames in it.
  `session_wrap` uses identifiers modulo 4 that start at 2 and wrap after two of four
  transfers; `session_flow` uses modulo 16, where nothing wraps.
- *LinkCredit*: credit 3 with a refill at half, up to five sends, channel
  capacity 1 (so that every send can meet a full channel). Three credits are the
  least for which a refill can be due at one delivery with two still in flight. With
  manual credit two more plans wrap the delivery-count while the link is drained and
  lower the credit below what is in flight.
- *Settlement*: up to five messages: of two frames, of one, pre-settled, and one too
  large for the negotiated size. Gaps between delivery-ids arise from disposing in any
  order; one fault at any moment; up to three attaches, since the second resumption is
  the first that finds a delivery already resumed once. The largest plans have one or
  two messages.
- *LinkLifecycle*: two links of the client, three endpoints of the listener: a handle
  is used again while the frames of its former owner are under way; one resumption.
- *SessionLifecycle*: two sessions on two channels, channels of capacity 1, so that
  every one fills up, one question and one errant frame in opposite directions, an end
  asked for on both sides. The engine and a session do come to wait for each other
  (`Jammed`); `EndsComplete` says that nothing else keeps an end from completing.
- *ConnectionLifecycle*: one close and one session frame each, one heartbeat. The
  run reaches every pair of closes that cross, each with and without an error. A
  second close at the same endpoint (try_close() polled) is in the proofs, which
  know no bound, and not in the run.
- *Negotiation*: every client against every acceptor for what decides on TLS and SASL
  (`Layers`), with representatives of settings that do not meet; frame sizes below, at
  and above the minimum, session counts 0, 2 and 3 and four idle times for the
  exchange of Open, with the faults (`Limits`).
- *Transactions*: t1 posts a delivery of two frames and a settled one on two links, t2
  retires a delivery; at most one misfortune (a drop, a global id, the close of a
  link). t1 is borrowed, t2 borrowed or owned, so that they share a control link or do
  not. `ControlCap` = 3 (128 in the code) leaves room for what two coordinators can
  ask.
- *Codec*: every type with its smallest, its largest and its empty value and the
  lengths around the switch of widths (254, 255, 256 bytes), each followed by one more
  value; a composite type with each field alone in each of its values, one inside
  another only without and with its own optional fields. `U32Max` = 65535 stands for
  2^32 - 1, `MaxArrayCount` = 16 for the limit of the deserializer on lists, maps and
  arrays (`deserialize_seq`, `deserialize_map`): more than any composite type has fields,
  so that a performative or a message is never beyond it; a few lists, maps and arrays of
  the corpus have one element more.

### Fairness

One weak fairness condition per model, on the disjunction of what the runtime runs:
as long as some engine or some awaited call can take a step, one of them does. That
is weaker than fairness of each task, and the tokio scheduler gives it. It excludes
what an application may leave undone.

- *Session engine*: incoming frames, outgoing link frames and the closing loop.
- *Credit*: tasks' own steps, the sessions, and an application that keeps receiving
  and disposing (the properties are about such an application). Nobody has to call
  `send()`, `set_credit()` or `drain()`; nothing has to be cancelled.
- *Settlement, links, sessions, transactions, negotiation*: the engines, the
  coordinators and calls whose answer has come. Nobody has to close, detach, drop,
  end, resume, discharge or post; in `Settlement` the receiving application disposes of
  what it gets.
- *Connection*: the engine's branches and a session's read of its closed channel.
  Nobody has to close, time out, beat or break.

## 4. Proofs

TLC checks the instances of section 3. The theorems below hold for every value of the
constants that satisfies the assumptions in the modules: the endpoints differ, moduli
are at least 2, ids, windows and credits are below them, channels hold at least one
frame, bounds are natural numbers. None assumes a particular width or a number of
sessions, links, tasks, frames, transactions or flows; the set of transactions is finite, any
other set is not assumed to be.

| theorem | states | hypothesis |
|---|---|---|
| `SessionFlowProofs!TypeCorrect`, `ImplicitIds`, `ReleasedInTime` | TypeOK, IdsInSync, NoNeedlessHold | |
| `SessionFlowProofs!WindowSafety` | WindowRespected | NoWrap |
| `SessionFlowProofs!InOrder` | HandedInOrder | |
| `SessionFlowProofs!WindowRefinement` | SlidingBothWays | NoWrap |
| `SessionFlowProofs!ConsecutiveDeliveries` | DeliveryIdsConsecutive | |
| `LinkCreditProofs!TypeCorrect`, `CountsTracked` | TypeOK, DeliveryCountTracked | |
| `LinkCreditProofs!CreditSuffices`, `CreditRefinement` | NoSpuriousLimit, SlidingCredit | SpareRoom |
| `LinkLifecycleProofs!SessionsSurvive`, `FramesReachPartner`, `NothingIsLeftBehind` | SessionSurvives, ReachesPartner, NothingLeftBehind | |
| `SessionLifecycleProofs!TypeCorrect`, `Routing`, `Accounting` | TypeOK, RoutedToPartner, NoChannelLost | |
| `SessionLifecycleProofs!Outliving` | ConnectionOutlivesSessions | |
| `ConnectionLifecycleProofs!TypeCorrect`, `ConfirmedClose`, `HandedFirst` | TypeOK, CloseConfirmed, HandedBeforeClose | |
| `NegotiationProofs!Authentication`, `Agreement`, `Understanding` | Authenticated, LimitsAgreed, FramesUnderstood | |
| `TransactionsProofs!TransactionsAtomic` | CommittedWhole | |
| `TransactionsProofs!NoneLeftOpen` | NothingLeftOpen | RoomForAll |

The three hypotheses are about constants, and the passing runs satisfy them:

- `NoWrap`: no transfer-id comes within the peer's window of `Modulus`. The code adds
  ids with wrap-around and subtracts them with saturation (`session/mod.rs:534`), so
  beyond that point the window is not what the peer granted and the property is false
  (section 5).
- `SpareRoom`: an application with automatic credit does not drain and sets no other
  credit than the one it began with, and the delivery-count stays away from the wrap by
  the credit. Each of the three is needed: section 5 names what happens without it.
  Plans with manual credit are not restricted.
- `RoomForAll`: the control channel holds a request of each transaction of the session
  (`Cardinality(Txn) <= ControlCap`; `DEFAULT_SESSION_CONTROL_BUFFER_SIZE` is 128,
  `session/builder.rs:22`). With more transactions under way than that, `Drop for
  TxnCoordinator` may find the channel full and lose aborts (section 5).
  `TransactionsAtomic` does not need it.

The inductive invariants (TLC evaluated them on the instances of section 3 before they
were proved, except `LinkInv`, which ranges over all attachments and was only proved):

- *Implicit ids* (`SyncInv`): a flow overwrites `next_incoming_id` with what its sender
  knew, which is right only because of *where in the wire* the flow is. Each frame
  carries the number of transfers sent before it; the wire is a chain (`Chained`) from
  what has been received to what has been sent; every flow announces its own position
  (`AllAnnounced`); the buffer continues the wire (`Numbered`), the link channel the
  buffer; both ends' ids are the initial id plus these counts, modulo `Modulus`.
- *Window* (`WindowInv`): the flows under way grant in non-decreasing order
  (`Granting`), from the limit their receiver works with now up to what their sender has
  received. An older flow can therefore never widen the window, and applying one moves
  the limit forward: that is window safety and, step by step, the refinement of
  `SlidingWindow`.
- *Deliveries* (`DeliveryInv`): the first frames of deliveries are counted along
  channel, buffer and wire, and every frame in flight has the label its place in this
  count gives (`Labelled`). The counts are positions in sequences that are not bounded;
  the inductions over them go through the least-number principle (`LeastNat`).
- *Credit*: `Counting` (sends are begun, consume credit, are handed over), `Tracked`
  (both delivery-counts count from one start, the difference being in transit),
  `Granted` (neither the sender nor any flow built, queued or on its way goes beyond
  what the receiver allows) and, for one receiving task, `Sorted` (flows arrive in the
  order of what they grant; this is what two tasks break).
- *Links* (`LinkInv`): until a mishap is recorded, all of `Parts` holds; afterwards the
  properties promise nothing, and `mishap` only grows. A handle belongs to a link that is
  attached or whose Detach is in the channel to the session (`Slots`, `Holders`,
  `Vacant`); a relay, found by name or by input handle, belongs to a link that still
  expects frames (`Named`, `Registered`, `Reached`), and so does an entry of
  `close_pending` (`Pending`). An Attach of the client is in one place only and its link
  waits (`Asks`); `mate` names the attachment of the client that a link of the listener
  answers, one for each (`Mates`), and the answer finds that link waiting (`Replies`).
  Names and handles are used again, so what a Detach meets depends on its place in the
  wire: a handle of the client leads to the partner until its Detach arrives, and cannot
  be attached again ahead of it (`ToListener`); the listener hands a handle out again
  while frames of the last link are on the wire, so there every Detach is `Open` with
  respect to the frames ahead of it (`ToClient`). Hence what a link finds in its channel
  is its partner's (`Inboxes`). The three properties follow without a further induction:
  none of the engine's error paths is enabled under `Parts`, and when all channels are
  empty each disjunction in it leaves only links that are up at both ends.
- *Routing* (`Inv` of `SessionLifecycleProofs`): frames of two sessions on one channel
  are separated by an End (`Separated`), the incoming map names the session of the first
  of them (`Inbound`), and a channel is given out only when it is clean of its former
  owner (`Clean`, `Closed`); the slab, its free list and the requests under way account
  for every channel (`Held`, `Holder`, `Vacancies`, `Requested`); a begin and its answer
  are in one place each (`Handshake`, `Awaited`, `Named`).
- *Ends* (`Orderly`, either `Cause` or `Good`): until one of the causes of the property
  has occurred, whoever still sends in a session is known to the peer or has its begin
  ahead of everything else (`SenderOK`, `PipeOK`), nothing follows an End on any part of
  the way, a session stops only when all its peer had to send has been taken
  (`ReceiverOK`), and only sessions with a channel are in the maps (`MapsOK`). A cause
  stays one (`CauseStays`).
- *Close* (`CloseInv`, `HandInv`): the engine is in Discarding only with a recorded
  ClosedWithError, only who read the peer's Close is in CloseReceived; a Close is on the
  wire only when the session channel is closed and empty, and no session frame follows
  one (`Sealed`), also after the transport has lost a suffix.
- *Negotiation*: `Inv` says of every item in flight or read ahead what its writer may
  have put into it (`Streams`) and what the authenticators remember (`Remembered`); with
  SCRAM's terms this carries authentication. `Conversation` says of what is unread that
  it is what its reader goes on to expect, across every exchange of codecs.
- *Transactions* (`WholeInv`): application and resource share nothing but the id, and a
  controller may take the outcome of another call for its own (section 5), so the
  invariant names the *owner* of every id handed out, the transaction whose declare
  allocated it (`\E own : Whole(own)`; a step that allocates extends `own`). A declare,
  an id and a discharge are in one place each (`Declares`, `Ids`, `Requests`), and the
  tag of a declare leads to the call that waits (`Tags`), so that a transaction learns
  no id but its own (`Learned`). Work on the wire is ahead of whatever ends its
  transaction, be it the discharge or the Detach of the control link (`OnWire`,
  `Pending`): that is why none comes too late. Work that was sent is kept or on the
  wire, in order and without a gap (`Kept`); hence a commit at the head of the control
  channel finds all of it. An *accepted* under way to a transaction that waits for its
  commit says that the work is carried out and that its posts are acknowledged ahead of
  it (`Outcomes`, `DoneBefore`, `Posted`). For `NothingLeftOpen`, `Covered` follows each
  live id from coordinator to control channel; the requests in the channel and the ids
  of a coordinator belong to different transactions (`RequestsDiffer`), which bounds
  their number by that of the transactions (`RoomForAborts`).

Only model-checked:

- liveness (`AllDelivered`, `SendsComplete`, `DrainCompletes`, `AllResolved`,
  `ExchangesComplete`, `EndsComplete`, `EverybodyStops`, `OpensTogether`, `CallsEnd`):
  fairness is out of the prover's reach;
- the codec: its definitions are RECURSIVE operators over data of any depth;
- the invariants of `Settlement` (section 7).

## 5. What the models show about the code

Findings with a run (`findings` in `PROJECT.json`):

- `settlement_stop`: a `send()` that waits for its outcome waits for ever when the
  session stops (`link/delivery.rs:494`).
- `transactions_drop`: `rollback_on_drop` makes its tag from a counter it has moved on
  (`transaction/mod.rs:677`); the next call on the controller uses the same tag and
  gets the rollback's outcome.

Seen while modelling, without a run of its own. Where a property has an exception,
it is one of these.

Session data path and credit:

- *Windows near 2^32* (`session/mod.rs:534`). Ids wrap and the window computation
  saturates. With an initial id just below the wrap, a flow from before it leaves
  either almost 2^32 or 0 as the window. Set `InitialId` to `HighIds` in
  `SessionFlow.cfg` to see it. The same holds for credit (`link/state.rs:153`).
- *End drops what is held back* (`session/engine.rs:316`): transfers that wait for the
  window are discarded, although the comment there is "finish sending all buffered
  messages before closing".
- *Lost wake-up* (`link/state.rs:313`): a flow applied between the credit check and the
  registration of the waiter notifies nobody; a `send()` on another thread then waits
  with credit there. `Orderly` plans exclude it.
- *Drain* (`link/state.rs:202`): the answer to a drain passes the transfers in the link
  channel, and the receiver, which takes over its delivery-count, counts them twice.
- *Refills out of order* (`link/receiver.rs:752`). Two tasks that dispose build their
  flows under the lock and send them outside it. The older flow, applied last, takes
  credit back, and with all earlier deliveries disposed of nothing triggers another.
  `receiver.rs:626` says concurrent disposal and receive are safe.
- *Stale credit mode* (`link/receiver.rs:635`): after `set_credit()` on the receiver a
  disposer's refills grant the credit of the mode it was created with. `set_credit()`
  with less than is in flight makes `recv()` fail for deliveries the sender was entitled
  to (`receiver.rs:1441`).
- *Dropped futures*: a `send()` dropped between consuming credit and handing its
  transfer over uses a credit for nothing; a `recv()` with auto-accept dropped in its
  disposition loses the delivery it took.

Settlement and resumption:

- *Echo in mode Second* (`session/mod.rs:902`): `consecutive_chunk_indices` gives the
  places between runs, and there is one echo per such place: the last, or only, run of
  consecutive deliveries gets none, and the receiver keeps its outcome for ever. The
  comment at `link/sender_link.rs:712-715` relies on the echo.
- *Suspension by the peer*: a `send()` that waits for its outcome does not look for a
  Detach and waits until the link is resumed (`Unfollowed`).
- *Frames behind a Detach*: a transfer or flow that leaves the link channel after the
  session has answered the peer's Detach ends the peer's session with UnattachedHandle
  (`mishap` "unattached"; `sender_link.rs:192-196` is about this).
- *Cut deliveries*: a multi-frame `send()` that is cancelled, or a resumption on another
  session, leaves the receiver a part of a delivery in its buffer; the next delivery
  differs from it and closes the link ("cut").
- *Resumed parts*: a delivery that was suspended between its frames cannot be resumed. The
  session gives the resumed transfer a delivery-id of its own (`session/mod.rs:450-463`),
  `or_assign!` refuses an id other than that of the buffered part
  (`link/incomplete_transfer.rs:10-24`) and the link is closed ("halfway"), although the
  comment at `link/receiver.rs:1429-1430` speaks of "a resumed transfer that continues the
  buffered delivery". `count_number_of_sections_and_offset` and `split_off` also disagree
  by one about section numbers, which has no effect as long as the part is refused.
- A delivery that was received whole and not disposed of is delivered again after a
  resumption; `resume()` never completes over entries only the receiver has; the sender
  that reduces its map by detaching and resuming may lose dispositions and send again.

Links:

- *Crossed close and suspension* (`link/shared_inner.rs:291`): the side that reattaches
  to close may meet a peer that has not registered the link; the session ends, or the
  Attach is offered to the acceptor as a new link (comment at 276-279).
- *Handles reused*: a Detach that waits in the link channel while the session answers the
  peer's finds its handle in another link's hands; `close_pending` is kept by handle
  (`session/mod.rs:936-938`).
- *Cancelled attach, accept or resume* ends the session with UnattachedHandle, although
  `allocate_link` is documented as cancel safe; `resume_incoming_attach` does not
  register the peer's input handle; the resumption of a closed link leaks a handle.

Sessions and connections:

- *After its own End* an endpoint still handles flows (`session/mod.rs:788`) and may
  answer behind the End; the peer's connection no longer knows the channel and closes.
- *begin()* dropped: the engine closes the whole connection when the responder is gone
  (`connection/engine.rs:435`), or the channel stays allocated and the peer's answer
  finds no session. A listener that drops an IncomingSession leaves `begin()` waiting.
  A listener at channel-max that has a deallocation under way answers the next Begin
  with NotImplemented and closes.
- *Bounded channels*: connection and session await each other's; as soon as both
  are full, neither goes on (`connection/engine.rs:302`, `Jammed` in
  `SessionLifecycle`, reachable in the run). The session awaits a
  receiver's channel in the same way (`link/mod.rs:779`).
- *close() and frames in flight* (`connection/engine.rs:298`): a frame the peer sent
  before it saw the Close makes `close()` fail with IllegalState.
- *Stop reason* (`connection/engine.rs:382`): a session that finds its channel closed
  before the reason is recorded reports another one.
- *A second close* (`connection/mod.rs:785`): `send_close` writes the frame before it
  checks the state, so `try_close()` polled twice puts a second Close on the wire.
  Heartbeats in Discarding write an empty frame after the Close.

Negotiation:

- An acceptor announces its idle time-out unhalved, while the builder's comment says it
  SHOULD be half; one of one millisecond is announced as 0, which is none.
- An Open longer than the minimal frame size is cut into two frames by the transport,
  which the peer cannot decode.
- Nothing bounds the negotiation in time; a Close in place of the Open is answered by
  waiting for another Close; a client with `alt_tls_establishment` does not fit the
  library's own TLS acceptor.

Transactions:

- Posts that are rolled back never reach the receiving link nor `next_incoming_id`: the
  link credit and the session window they used are lost, and the next flow of the
  controller counts them again.
- A commit that meets a closed link ends the session half-way, although `commit` is
  documented to convey a transaction-error (`transaction/mod.rs:126-127`).
- `Drop for TxnCoordinator` loses aborts when the control channel is full; the comment
  knows only a dropped session. A commit puts its echoes into the engine's own bounded
  control channel, which nobody else empties.
- `set_rollback_on_drop_trials(0)` is documented to skip the rollback, which is sent all
  the same; the wait for its outcome does not sleep and gives up at once.
- A cancelled declare leaves its transaction open until the control link is closed; a
  delivery retired and rolled back leaves the resource's `send()` waiting.

Codec:

- The width of an array of strings or symbols is chosen by characters, the payload is
  written by bytes (`src/serde_amqp/src/ser.rs:481`): with multi-byte characters the
  reader is misaligned. The corpus has texts of one byte per character in arrays.
- Key and value of a map entry go through one serializer (`ser.rs:1216-1219`), which keeps
  what a Timestamp or an Array as key has set: a long behind the one is written as a
  timestamp, a list behind the other as an array (`Inherited`). No map of the protocol has
  such keys, and the corpus has none.
- Nested arrays share one field for the element code; derived `visit_seq` leaves extra
  elements of a list unread; `to_value` writes a variant of a Rust enum as a list where
  `to_vec` writes a map; a `Value` read from a `Value` loses symbols, timestamps,
  decimals and uuids. `Expected`, `Overlong` and the types in `ThroughValue` say
  where each is left out.

## 6. Not modelled

- WebSocket adapters, the management and CBS clients and the examples: I/O and
  sequential calls on top of what is modelled. (The management client does not compare
  correlation ids; one request at a time is what keeps answers apart.)
- Transactional acquisition: the controller sends a flow with the id of its transaction;
  the resource does not implement it (`transaction/session.rs:295`).
- Compile-time generation in `serde_amqp_derive`; what the generated code does is
  `AmqpValue`.
- TLS, hashing, the text of SCRAM messages, characters of strings, error descriptions.
- Time: "may elapse while nothing arrives". The `_with_timeout` calls are cancellations.
- Channels between links and sessions are bounded in `SessionFlow` and `LinkCredit`,
  those between sessions and connection in `SessionLifecycle`; elsewhere they are
  unbounded, so that deadlocks through all of them at once are not explored.
- The connection engine's own loop once nobody holds its control channel
  (`connection/engine.rs:578-617`): it closes as `close()` does and then ignores errors of
  what it reads, logs an idle time-out and stops at the end of the stream. `AskClose` is
  the Close that the drop of the handle sends.
- `resume_on_session` for names and handles (`Reattach` in `Settlement` is what it does to
  deliveries), an unexpected second Open, and unequal credit on control links.

## 7. Plan

Theorems to add:

- `Settlement`: `OutcomesTrue` (a delivery-id stands for one delivery in the tables of
  both sessions and in every disposition under way) and `OwnFramesAccepted`.

Models to add: the bounded channels of all three levels as a graph of waiting tasks;
the management client.

# rsiprtp: a TLA+ verification project

rsiprtp is a SIP user-agent stack in Rust. Its signalling core is a set of
Sans-IO state machines: a call into one of them changes its state and leaves
actions (send this, start that timer, tell the user) that the owner executes;
around it are managers for calls, registrations, hold and transfer, media
sessions, and asynchronous ICE, TURN and stream transports. The interesting
behaviour is in what happens *between* the calls: messages lost, repeated and
overtaken, timers that fire late or after they were cancelled, the answer of the
user at any moment, tasks that share a lock. That is what the modules here check.

All paths below are relative to `src/crates/rsiprtp/src/` unless they start
with `src/`.

## 1. Inventory

| Component | State | Operations | What is hard | What makes it correct |
|---|---|---|---|---|
| Timers (`transaction/timer.rs`) | durations T1, T2, T4 | `timer_a`..`timer_k`, `next_retransmit` | caps, zero durations on reliable transports | every wait is ended by a timer |
| INVITE client transaction (`transaction/client/invite.rs`) | state, retransmit interval | `new`, `handle_response`, `handle_timeout`, `handle_transport_error` | late, repeated, forked responses; timers not cancelled | one outcome for the user, only a 2xx may follow; it always ends |
| INVITE server transaction (`transaction/server/invite.rs`) | state, last response, reliable provisional buffer, next RSeq, final sent | `new`, `handle_request`, `send_response`, `send_provisional_reliable`, `handle_event`, `handle_timeout`, `handle_transport_error` | ACK lost or early, one Timer N for several provisionals, PRACK late or twice | one final response; each provisional has one fate; it always ends |
| Non-INVITE client (`transaction/client/non_invite.rs`) | state, interval | as for INVITE | timeout racing the answer | one outcome |
| Non-INVITE server (`transaction/server/non_invite.rs`) | state, last response | `new`, `handle_request`, `send_response`, `handle_timeout`, `handle_transport_error` | retransmission after Timer J | the request is handed up once |
| Transaction manager (`transaction/manager.rs`) | four tables, two index maps, next handle | `create_client_transaction`, `handle_message`, `handle_timeout`, `send_response`, `handle_transport_error`, `cleanup_terminated` | maps updated one by one; timers of removed transactions; CANCEL on the INVITE's branch | maps agree; stale timers are harmless; nothing leaks |
| Dialogs (`dialog/`) | dialogs by handle, routes by Call-ID and tags, pending dialogs by Call-ID; per dialog state and CSeq numbers | `create_dialog`, `handle_request`, `handle_response`, `send_response`, `send_bye`, `ack_sent`, `build_prack`, `build_update`, `cleanup_terminated` | several answers to one INVITE, repeated INVITEs, requests for dialogs that are gone | the maps agree; a caller's dialog is the one its callee confirmed |
| Calls (`session/manager.rs`, `session/call.rs`) | call table, routes from dialogs to calls, per call: state, dialog, deferred answer, session timer deadlines; port allocator, queued requests, events | `create_call`, `handle_provisional*`, `handle_invite_*`, `accept_/reject_inbound_invite`, `build_answer_for`, `answer_call`, `handle_inbound_update`, `tick`, `handle_bye`, `terminate_call`, `remove_call` | refresh racing a request in flight or the peer's expiry, BYE during ICE gathering, repeated 2xx, dialog replaced by the 2xx | one refresher per call; answered calls stay up, silent peers are noticed; routes and calls agree |
| Registration (`session/registration.rs`) | state, CSeq, stored challenge, nonce count | `register`, `unregister`, `create_*`, `handle_response`, `reset` | challenges, timeouts with the answer under way | the state says what the registrar has |
| Hold (`session/hold.rs`) | per call: both directions, hold state, pending re-INVITE | `create_hold_request`, `create_resume_request`, `handle_hold_response`, `handle_remote_hold`, `cancel_pending` | re-INVITEs that cross, fail, are lost | both sides agree who sends |
| Transfer (`session/transfer.rs`) | per call: transfer state and role | `initiate_*_transfer`, `handle_refer_response`, `handle_incoming_refer`, `handle_notify`, `clear` | NOTIFYs out of order | an outcome shown is a real one |
| RTP (`rtp/session.rs`) | sequence and timestamp counters, receiver statistics | `create_packet*`, `receive_packet` | wrap-around with reordering | statistics are true |
| Congestion control (`rtp/session.rs`, `session/bitrate_bridge.rs`) | target, ceiling, slow-start threshold; rate of the codec | `on_nack`, `on_remb`, `update`, `poll` | suppressed small changes | the codec follows, below the estimate |
| DTMF (`rtp/dtmf.rs`) | current and last event | `generate_packets`, `process_packet` | repeated end packets | one report per press |
| Jitter buffer (`media/jitter.rs`) | packets by timestamp, playout position, statistics | `push`, `pop`, `reset` | reordering, wrap-around, late packets | playout in order, nothing disappears |
| SRTP (`srtp/context.rs`) | roll-over counters, highest sequence number | `protect`, `unprotect` | index estimation around the wrap | receiver index equals sender index |
| ICE (`ice/agent.rs`, `session/ice_session.rs`) | candidates, pairs and their states, sockets, dispatcher tasks, table of pending answers | `gather`, `run_checks`, `close` and the dispatchers | lost checks, late answers, one side finished before the other, dropped futures | a session that succeeds has a path that works |
| TURN (`ice/turn.rs`) | allocation, nonce, transaction identifier | `allocate`, `refresh`, `create_permission`, `recv_data` | retransmitted requests, changed nonces, answers of earlier calls | the client knows what it has |
| Stream transports (`transport/tcp.rs`, `tls.rs`, `keepalive.rs`) | connection table, stashed read halves, locks, buffers, a bounded channel | `connect`, `start`, `send`, read loops | locks over awaits, cuts at any byte, peers that come back | messages whole and in order; sends get through |
| SDP offer and answer (`sdp/negotiation.rs`, `sdp/ice_attrs.rs`, and their use in `session/manager.rs`) | the offer kept while ICE gathers, the media of either call | `create_answer`, `process_answer`, `handle_incoming_invite`, `accept_inbound_invite`, `build_answer_for`, `build_refresh_invite_sdp` | the answer is built in two places, one of them later from cached parts | both calls have one codec, payload type and line |
| Voice agent (`src/crates/gabby/src/server.rs`, `call.rs`, `pipeline/vad.rs`) | table of calls by Call-ID, allocated ports, channel of end notices; a task per call with greeting, utterance and inactivity | INVITE, BYE and CANCEL, end notices; packets, timeout, shutdown, turns | repeated INVITEs, notices of older handlers, a task busy with the language model | the table serves live handlers; calls end; a finished utterance is answered |
| Resolver, authentication, message texts, codecs, configuration | none | | | see section 7 |

The transaction machines know nothing of each other: they interact through the
messages their owner sends. The manager owns many of them and routes by
`TransactionId` (Via branch and method) and by handle. Dialogs and calls sit on
top and are driven by the events of the transactions. Registration, hold,
transfer, ICE, TURN, media and transports are objects of their own that an
application drives and connects. `gabby` is such an application; it uses the message
and RTP parts of the library and keeps calls of its own.

The hazards of this code are listed, at their lines, in `PROJECT.json`.

## 2. Modules

| Module | Models |
|---|---|
| `TxTimers` | `timer.rs`, and what the four machines share: running timers in ticks, drained actions |
| `InviteClientTx`, `InviteServerTx`, `NonInviteClientTx`, `NonInviteServerTx` | one state machine each: an operator per method, from the transaction and the input to the transaction after the call |
| `InviteExchange` | an INVITE client and server with their timers, over an unreliable network |
| `NonInviteExchange` | the same for other requests, with the manager's removal of ended server transactions |
| `ReliableProvisional` | the reliable provisional buffer of a server transaction against the clock |
| `TransactionManager` | the manager with all four machines inside it |
| `Call` | one call: an operator per method of `Call` and per part of `CallManager` that acts on a single call, session timer included |
| `CallManager` | the call manager with its tables; the application and the INVITE transaction below it as environment |
| `SessionRefresh` | two calls, UAC and UAS, keeping one session alive over a network that delays, refuses and loses |
| `Dialog` | the dialog managers of a caller and a callee, over a network that loses, reorders and repeats |
| `Registration` | the registration manager and its UDP driver, against a registrar |
| `Hold`, `Transfer` | the hold and the transfer entry of one call on both of its sides, with the messages between them |
| `RtpStream`, `SrtpContext`, `JitterBuffer` | the three objects an audio packet passes: operators only |
| `MediaStream` | one direction of audio through all of them, from `encode_audio` to `get_audio_frame` |
| `BitrateControl` | congestion controller and codec bridge under feedback |
| `DtmfLink` | a DTMF sender and receiver over a network that loses packets |
| `IceAgent` | one ICE agent: an operator per method |
| `IceSession` | two ICE sessions that gather, exchange candidates and run their checks against each other, with dispatcher tasks |
| `TurnClient` | the TURN client against its server |
| `StreamFraming` | framing and keep-alives on a byte stream, as operators on sequences of tokens |
| `StreamTransport` | a TCP or TLS endpoint: connection table, read loops, locks, channel, tasks that connect and send |
| `SdpNegotiation` | offer and answer of one call, on both answering paths, and the offer of a refresh |
| `GabbyServer` | the server of the voice agent with its call table, ports and handler tasks |
| `GabbyTurn` | one conversation: voice activity detection and turns |
| `RequestOutcome` | the abstract promise of a transaction pair to its two users |
| `CallProofs` | theorems about `InviteExchange`, its refinement of `RequestOutcome`, and `CallManager` |
| `RetransmissionProofs` | theorems about `NonInviteExchange` and `ReliableProvisional` |
| `TransactionManagerProofs` | theorems about the transaction manager |
| `DialogProofs` | theorems about `Dialog` and `SessionRefresh` |
| `SessionServicesProofs` | theorems about `Hold`, `Transfer`, `Registration` and the framing of `StreamTransport` |
| `MediaStreamProofs` | theorems about `MediaStream`, `DtmfLink` and `SdpNegotiation` |
| `MediaControlProofs` | theorems about `BitrateControl`, `TurnClient`, `GabbyServer` and `IceSession` |
| `MCIceSession` | the addresses and topologies TLC uses (status codes and transports are in the `.cfg` files) |
| `MCCalls`, `MCExchanges`, `MCSessions`, `MCServices`, `MCProgress` | suites: several components in one run; `MCCalls` also has the offers |

**A transaction** is a record: the fields of the Rust struct, `armed` (for each
timer the ticks until it fires, or `Off`), and `out` and `ev`, the `Send` and
`Event` actions of the last call. `SetTimer` and `CancelTimer` act on `armed`.
Every action of the composed modules is one call: the previous actions have
been drained (`poll_actions`), the operator of the method is applied, and its
output goes to the network or the user in the same step, as the owner does
before it hands in the next input. Messages are reduced to what the machines
look at: the method of a request, the status code and the RSeq of a response.
The text of messages and the ACK's headers are left out.

**Time.** One tick is T1. With the defaults of the code (T1 500 ms, T2 4 s, T4
5 s, Timer D 33 s) the durations are whole ticks: 1, 8, 10 and 66; 64*T1 is 64.
A due timer fires before the next tick. The manager needs no clock: there, any
running timer may fire at any moment, which covers every timing. The same holds
for the timeouts of ICE, TURN, registration, keep-alives and bit rate control.

**The network** of `InviteExchange` keeps every message ever sent. A message can
be delivered at any later time and any number of times, or never, so loss, delay,
repetition and reordering are all included. In `NonInviteExchange` requests live
less than T1 (responses for ever): a request that survives Timer J in the
network *is* handed to the user again, which no server can prevent. In the
other modules a message that is never delivered is a lost one, delivery is in any
order, and where the peer may repeat something (INVITE, STUN and TURN requests,
RTP packets) copies are delivered too.

**Stale timers.** `ClientStaleTimer` and `ServerStaleTimer` hand in a timer that
a call has just cancelled, and `handle_transport_error` leaves timers running;
in the manager the timers of removed transactions are kept as `orphans`.

**A call** is a record of the fields of `Call`; of its dialog it keeps the
identifier, the local CSeq and whether the routing fields are filled in, of its
media session the port and whether it is active. A deadline is kept as the time
left to it. `CallManager` has one action per public operation; an operation on
an unknown call or dialog does nothing in the code and is left out. Where the
documentation asks the application to make two calls together, the two are one
action: `populate_uas_dialog_routing` after an incoming INVITE,
`accept_session_timer` with `answer_call`, `handle_provisional_reliable` after
`handle_provisional_response` (the order of `examples/session_timers.rs`). The
INVITE client transaction below an outbound call hands up provisional responses
until the first final one, and every repetition of a 2xx, which is what
`InviteExchange` shows of it. `out` and `events` are what the last call left in
`drain_outbound_requests` and `poll_events`.

`SessionRefresh` puts the record of either side in one module. An application
wakes at `next_deadline`, calls `tick`, sends what it finds, sets
`uac_in_flight` and reports the outcome, as the documentation of these methods
demands. The peer answers 405, 481 and 491 where RFC 3311 and RFC 3261 ask for it.

**A dialog manager** is the three maps of `DialogManager` and the next handle.
`StepDialog` is the common tail of its handlers: the dialog, its events and, on
confirmation, the route and the pending entry. The tag a callee gives is its
handle, which makes tags unique as the random ones of the code are. An INVITE that
is delivered twice stands for a fork as well as for a retransmission the
transaction layer no longer absorbs. A 2xx bears a Contact and a To tag or is `bare`,
which confirms a dialog under the identifier it has. The answers to PRACK, UPDATE and CANCEL
find the dialog of the INVITE as its own answers do (`DialogManager::handle_response`
does not read the CSeq); provisional answers are those with a To tag, since the
others change nothing. `told` is what applications have been told, and the history `by` which
2xx confirmed a dialog; the properties compare the two sides through them.

**Registration.** `register` and `unregister` are the start of a call, `Receive`
is one datagram read by `run_request` and the whole of `handle_response` with the
retry it may build, `GiveUp` is its timeout. The driver compares no CSeq, so
datagrams of earlier calls stay readable.

**The media stream.** `Arrive` is what an application does with a datagram:
`SrtpContext::unprotect`, then `MediaSession::receive_rtp` with the decoder
succeeding or not (`MediaSession` itself handles plain RTP). Packets carry
sequence number and timestamp as the code computes them, modulo `SeqSpace` and
`TsSpace`; the number `n` of a packet is history, which the properties compare with.
A damaged packet, and one decrypted with another roll-over counter, fails
authentication. The target delay after a push is any value `adapt_delay` can
compute, since the jitter estimate depends on arrival times.

**ICE.** The steps of `run_checks` are the points where it waits: `RunChecks`
takes the snapshot of the pairs, `BeginCheck` marks one and sends its request,
`CheckAnswered` or `CheckTimeout` ends the wait, `EndRun` hands out the socket and
stops the responders. The dispatcher tasks (`DispatchRequest`,
`DispatchResponse`) run between any two of them. `DropRun` is an application that
drops the future. A topology says which socket reaches which address.

**Stream transports.** A read loop is a task with a program counter; each `await`
on a lock, the socket or the channel is a state of it. A lock is a queue, holder
first, as in the runtime's fair mutex. `SplitHalves` tells `tcp.rs`, whose read
loop owns its half of the stream, from `tls.rs`, whose loop holds one lock over
a whole `read_message`. Bytes are tokens; the body of a message is a line end, so
that a framing that loses count meets what looks like a keep-alive.

**SDP.** A description is its connection address and its media lines; of a line the
type, port, formats, rtpmaps, direction and address are kept, and whether it has
candidates and `rtcp-mux`. An encoding stands for name and clock rate, which `matches`
compares. `AnswerTo` and `Negotiated` are the two results of `create_answer`;
`AnswerAtOnce` is `handle_incoming_invite`, `KeepOffer` and `BuildAnswer` are the two
halves of the deferred path, `TakeAnswer` is the body of a 200 OK at the caller.
A call whose codec cannot be built (`SetMedia`) is given up.

**The voice agent.** `HandleInvite`, `HandleHangup` and `HandleCallEnd` are the branches
of the server's loop. A handler is a record: it binds its socket (which fails while an
older handler still has the port), runs, and tells the server by Call-ID that it
has ended. While it waits for the model or the synthesiser it is `busy` and reads
neither packets nor the shutdown. `shutdown` of a handler is `open`, `sent`, or
`dropped` when its sender was overwritten. `GabbyTurn` is the inside of one handler:
`Process` is `VadState::process`, the time since the last speech, since the last
change of the text and since the begin of the utterance are kept as far as the
thresholds tell them apart.
## 3. Runs

| Run | Checks | Shows |
|---|---|---|
| `calls` | transactions: `Agreement`, `AckMeansTold`, `ImplementsOutcome`, `HandedOnce`, `NxAgreement`; call manager: `RoutingConsistent`, `RequestsAreRouted`, `TickSettles`, `ChangesAreReported`; SDP: `OfferAnswerAgree` | the exchanges of INVITE and other requests are safe, over both kinds of transport with the real timer values; the first implements `RequestOutcome`, and a request is handed up once unless a send of the server failed; calls, routes and deadlines stay consistent through every order of operations; offer and answer leave both sides with the same media |
| `exchanges` | `ExchangeEnds`, `NxExchangeEnds` | with forking, whatever is lost, both transactions of an INVITE or another request end and the client's user is told |
| `sessions` | transaction manager: `Consistent`, `OrphansHarmless`, `ResponsesDoNotCross`, `NoLeak`; session timer: `OneRefresher`, `AnsweredCallsStayUp`, `SilenceEndsTheCall`; voice agent: `ActiveIsServed`, `CallsEnd`, `TurnIsTaken` | the tables agree, stale timers are harmless, CANCEL and INVITE responses are not mixed up, nothing stays; the session timer works between two managers as long as refreshes are answered, and ends the call when the refresher is gone; the table of `gabby` stays right, its calls end, and a caller who has finished is answered |
| `services` | reliable provisionals: `OneFate`; registration: `RegisteredMeansBound`; dialogs: `TablesAgree`, `ConfirmedByBoth`; hold: `MediaAgrees`; transfer: `OutcomeIsTrue`; ICE: `SessionIsUsable`, `PendingIsCurrent`; TURN: `RelayIsAsTold`; media: `InWindowAccepted`, `StatisticsTrue`, `PlayedInOrder`; DTMF: `EveryPressReported` | the safety of nine components, each against its own peer and network |
| `progress` | transports: `FramesIntact`, `SendEnds`; ICE: `RunsEnd`; bit rate: `CeilingHeld`, `CodecFollows` | what must get on does, and stays right meanwhile |
| `manager_ack` (violation) | `AckReachesTransaction` | the ACK for a non-2xx does not find its transaction through the manager |
| `unregister` (violation) | `UnregisteredMeansUnbound` | a challenged unregister renews the binding |
| `tls_send` (violation) | `TlsSendEnds` | a send over TLS waits for ever behind an idle read loop |
| `sdp_deferred` (violation) | `DeferredAnswerAgrees` | the deferred answer to a sendonly offer says sendonly |
| `ice_answer` (violation) | `ChecksAreAnswerable` | a side that has finished no longer answers the checks of the other |
| `dialog_method` (violation) | `EstablishedByCallee` | the 2xx to a CANCEL establishes a dialog |
| `tick_twice` (violation) | `SecondTickIsIdle` | with a Session-Expires of 0 a second tick at the same time sends again |

**Suites.** `calls`, `exchanges`, `sessions`, `services` and `progress` put components that share no state into one
run. The variable `focus` is chosen in the initial state; a behaviour moves that
component and leaves the others in their initial state, so the reachable
states are the union of those of the components and each property is checked on
all states of its own. The fairness of `MCExchanges`, `MCSessions` and `MCProgress` is that
of the components, each while it is in focus. Most liveness properties have the form "again
and again nothing is left to do" (`[]<>`): what they wait for comes once per transaction,
call or utterance, so this says the same as "each one ends" and is cheaper to check.

**Bounds.** The exchanges are finite without bounds on behaviour (`MaxHanded`
= 2 server transactions is enough to see a second delivery). One status code per
class is enough because the code compares with 100, 200 and 300 only. In
`exchanges` T2, T4 and TD are 2, 2 and 3 ticks; the order of the timers is
what liveness depends on, and B, F, H and J keep their 64*T1; one final status is enough
for a non-INVITE request there, whose machines treat all finals alike. Reliable provisionals use
T4 = 2, since Timer I plays no part, and two entries, the least that share Timer N.
The transaction manager of `sessions` allows four handles (`MaxHandle`) with an INVITE, its
CANCEL and an ACK per side; it may rest, because handles run out at the bound.

The call manager of `calls` has two calls, of which the first may have a session timer (`TimerCalls`),
with intervals of 0, below and at Min-SE (a unit is half a second), CSeq numbers up
to 2, so that one request can follow the INVITE, and a range of one RTP port, so
that the counter wraps each time; the proofs cover all ranges. `SessionRefresh` has an
interval of 6, delays of at most 1 and Timer F at 2: a request and its answer fit
into half an interval, and Timer F is over before the next refresh is due, as with
the real 90 s interval and 32 s Timer F; both sides support UPDATE or none does, since
only the side that does not refresh is asked.

| Component | Bounds | Why they are enough |
|---|---|---|
| Registration | 4 requests, 2 nonces | register, challenge and retry, then an unregister against a stale nonce; the `unregister` run has its own bound |
| Dialog | one call, 2 dialogs per side, two extras: repeated deliveries, bare 2xx, re-INVITEs, PRACKs, UPDATEs and CANCELs | two answers to one INVITE, one of them repeated or bare, with BYEs from both sides crossing a re-INVITE or the answer to a CANCEL |
| Hold | 4 re-INVITEs | two that cross, followed by two more |
| Transfer | 2 REFERs | one per party, or a second one after the first failed |
| ICE | one host per side, two mapped addresses, one side tries again | a check that works, one that is lost, one that has no path, a second run over the pairs of the first |
| TURN | 6 identifiers, 2 nonces, each request sent twice, lifetimes 0 and 2 | challenge, nonce change, repeated copies, release; no call follows once the client is `unsure`, where the property claims nothing |
| Media | 4 packets, 4 arrivals, 5 frames, 4 sequence numbers, timestamps modulo 128 | the sequence number wraps within the packets sent, the timestamp after two; half the number space is two packets, so both sides of the window are met |
| DTMF | 3 presses of two digits, of two or three packets | equal and different neighbours, loss at any place |
| Transports | 2 connections, 2 things on the wire, one sending task, a channel of one | a peer that comes back, a ping cut into reads, a full channel; the receiver is dropped before the first message or never |
| SDP | one audio line with every direction, with and without ICE, `rtcp-mux` and port 0, or two lines, one of which may be video; six lists of codecs | rtpmaps and static types, a dynamic type for a static encoding, an encoding nobody knows and one that cannot be played; first and last line differ |
| Voice agent | 2 INVITEs that get a port, 2 Call-IDs, 2 ports, a channel of one notice, inactivity at once | a repeated INVITE, a call under the Call-ID of one that is ending, a port used again too early, a full channel |
| Conversation | 2 texts, 2 utterances, silence of 4, a bonus of 1 for a stable text, utterances of at least 3 | every order of the three thresholds |
| Bit rate | 3 feedback messages, estimates below, inside and above the range | each order of loss, estimate and reset |

`CHECK_DEADLOCK FALSE` in `services` and `progress`: a dialog that is over, a stream that has been
sent or a bound that is reached is an end.

**Fairness.** Time passes, and the owner hands in due timers (`TimerFires`,
`handle_timeout`) and calls `cleanup_terminated` in its loop: this is the
contract of the Sans-IO design. Nothing is assumed of the network, of the peer
or of the users, and in particular no message need arrive. In `SessionRefresh`
the applications run their event loops (`Wake`, `Complete`, `GiveUp`) unless they
have gone silent, a request is accepted, refused or lost in the end, and the 200
OK and a BYE arrive, which the transaction layer retransmits. In `IceSession` the
future of `run_checks` is polled and its timeout fires; no STUN message need
arrive. In `StreamTransport` the runtime runs every task that can proceed; nothing
makes the peer send or close, nor the application take what the channel
holds. In `BitrateControl` `MediaSession::tick` is called for ever, also at times
when the intervals have passed and the codec accepts the rate. In `GabbyServer` the
tasks run, requests to the language model and the synthesiser end (they have
timeouts), and the server reads its end notices; the shutdown branch has strong
fairness, because `select!` polls its branches in random order and is ready again and
again between the packets of a talking caller. In `GabbyTurn` a phone sends audio as
time passes, silence too, once the caller says no more.

## 4. Findings

1. **ACK and the manager** (`manager_ack`). `TransactionId::from_request` takes the
   method of the request, so an ACK is looked up as (branch, ACK), while the
   transaction is stored as (branch, INVITE). The INVITE server transaction never
   leaves Completed by an ACK: it retransmits until Timer H and reports a timeout.
   `InviteExchange` hands the ACK to the machine directly, as an owner of a bare
   `InviteServerTransaction` does, and is correct.
2. **Unregister after a challenge** (`unregister`). The retry that answers a 401 or
   407 is built with the configured expiry, whatever was asked for. The 200 OK then
   confirms a renewed binding while the manager says Unregistered.
3. **TLS sends behind an idle read** (`tls_send`). The read loop of `tls.rs` holds the
   lock of the connection while it waits for the peer. `tcp.rs` describes this
   deadlock in its module comment and solves it by splitting the stream; `SendEnds`
   holds there.
4. **ICE responders stop too early** (`ice_answer`). `run_checks` stops answering when
   its own check has succeeded. If the peer begins later, as the design
   document has the answerer do, or its first request is lost, its checks fail on a
   path that works.
5. **Direction of a deferred answer** (`sdp_deferred`). `create_answer` returns the
   negotiated direction as the callee has it; `build_answer_for` swaps it once more. An
   offer to hold (sendonly) is answered with sendonly, and nobody listens.
6. **The method of a response** (`dialog_method`). Neither `DialogManager` nor `InviteDialog`
   looks at the CSeq of a response. While the dialog is Early, the 2xx to a CANCEL, a
   PRACK or an UPDATE confirms it and the application hears Established; a refusal of one
   of them ends it. `ConfirmedByBoth` speaks of the dialogs that a 2xx to the INVITE has
   established.
7. **A Session-Expires of 0** (`tick_twice`). It is taken from the 2xx of a peer without a
   check (Min-SE is applied to requests only). The refresh deadline then slides to the
   present, so each `tick` sends a refresh and an application that sleeps until
   `next_deadline` never sleeps. `TickSettles` holds for every other interval, and for 0
   where the peer refreshes.

## 5. Observed while modelling

Behaviour that the models have, without a run of its own.

*Transactions.* Timer A is capped at T2, which the comments reserve for non-INVITE
requests. `fire_timer_n` takes the smallest delay for the time that passed: a
provisional that joins while Timer N runs, or that is rescheduled after a PRACK for
another one, is given up later than 64*T1. A request that this side sends to itself
finds its own client transaction in `id_to_handle` and is dropped. After
`handle_transport_error` buffered reliable provisionals are still sent by Timer N. The
manager has no call for reliable provisionals, so `route_prack` never finds anything
to do. An unmatched ACK uses up a handle.

*Calls.* `handle_invite_success` replaces the dialog of the call: the CSeq counted up
for a PRACK is lost, and the next request of `tick` repeats it. The refresh goes out
at se/2 and its retry at se, when the peer's `expiry_at` is due as well: one lost or
refused refresh, the 405 that makes the code fall back to re-INVITE included, ends the
call. A repeated 2xx brings an ended call up again. `build_refresh_invite_sdp`
documents that a refresh without SDP is skipped, but the re-INVITE is sent without a
body. A BYE during ICE gathering does not stop `build_answer_for`.

*Dialogs.* A 2xx without Contact or To tag confirms a dialog under the identifier it has:
without a provisional answer before, the empty one it was created with. The test
`test_uac_dialog_200_missing_contact` asserts that it is Confirmed. All such dialogs share
one identifier and one entry in the routes, although `dialog/mod.rs` calls it unique, and
none has a remote target to send requests to; `TablesAgree` therefore leaves out the empty
identifier, and `ConfirmedByBoth` speaks of a 2xx with a Contact. A repeated INVITE, and a re-INVITE whose dialog is gone, make a new dialog. A
dialog that has sent BYE stays Terminating after the 200 OK; so does one without remote
target, for which `send_bye` cannot build the BYE. A CANCEL bears no To tag and finds no
dialog at the callee, so the arm of `handle_request` for it is not reached through the
manager. The pending entry of a
rejected call stays in the table. Local sequence numbers start over with every
provisional answer. A dialog of a caller cannot be reached by requests before the
2xx.

*Registration.* Answers are not matched by CSeq, so a late answer to a call that timed
out is taken by the next one. The expiry granted by the registrar is not looked at. A
3xx makes `register` return Ok with the state still Registering.

*Hold and transfer.* A re-INVITE of the peer overwrites a hold of our own, which can
then not be resumed; crossing re-INVITEs are not refused. A 202 or a provisional
NOTIFY that comes late takes back an outcome already shown; an incoming REFER
replaces a transfer under way.

*ICE and TURN.* A dropped future leaves its entry in the pending table. Pairs of a second
server-reflexive address share a foundation and stay frozen unless the first one
succeeds. Each side selects for itself. TURN answers to `refresh` and
`create_permission` are not matched by transaction identifier; 438 does not lead to a
retry with the new nonce; a Data indication that arrives during a request fails it; the
refusal of a retransmitted release leaves the client believing in its allocation.

*Transports.* A ping cut in two by the reads is stripped and never answered. A read loop
that ends removes a newer connection of the same address. Two tasks that connect at
once can leave the handle of one stream with the read half of the other. The size limit
counts everything buffered, so a legal message can fail because of the one behind it. TLS
neither answers nor sends keep-alives.

*Media.* After a skip ahead the jitter buffer conceals, and counts as lost, the frame it
has just played. A stored packet can be left behind for ever by a wrap of the timestamp
after a jump. `create_packet_at` does not advance the timestamp. A higher estimate later
does not raise the ceiling of the rate. `unprotect` sets the highest sequence number of a
first packet before its authentication. Two DTMF presses of one digit, each of a single
packet, are reported once. The mixer clamps after
each source, in the order of a hash map, so a loud mix depends on that order.

*SDP.* `create_answer` copies the `c=` line of the offer into the answer, so a caller that
is answered directly takes its own address for the one of the callee (the tests are on
loopback, where the two are equal). `process_answer` returns the direction of the
answerer, although `NegotiatedMedia::direction` is documented as "from our
perspective". A line offered with port 0 is accepted, and several audio lines all get one
port. The deferred path keeps the last line negotiated, rewrites the first audio line,
and rejects none: video lines and lines without `rtcp-mux` stay as offered. A refresh
says sendrecv whatever was negotiated, which takes a held call off hold, and names a static
encoding by its static type, though documented as "same codec at the same port, same
direction"; the answer to it is not looked at.

*gabby.* A repeated INVITE overwrites the entry of its Call-ID, whose port is never freed;
the end notice of the old handler then removes the entry of the new one. The port is free
at BYE, before the socket is closed, so the next call can fail to bind and is ended after
its 200 OK. A 200 OK that cannot be sent leaves the port allocated. A slow answer of
the model lets the inactivity timeout end the call of a caller who is waiting for it.
## 6. Proofs

`CallProofs` proves of `InviteExchange`, for **all** timer values allowed by
`TimerAssumption`, all sets of status codes, both transports and with or without
forking, that `ExInv` is an invariant, and from it `ExTypeOK`, `Supervised` (in
every waiting state the timer that ends the wait is scheduled), `Agreement`,
`AckMeansTold`, `OutcomeStands` (after the first outcome only a 2xx is told),
`OneFinalResponse`, `TerminatedIsFinal` and, without forking, the refinement of
`RequestOutcome`.

None of the properties is inductive alone. `Agreement` needs to know that a
final response on the network carries the server's decision, `AckMeansTold`
needs that an ACK on the network was preceded by telling the user, and both need
that nothing is told before a final state: these are the conjuncts of
`Knowledge`. `Supervised` is needed to exclude a stale Timer B in Proceeding.
`ExInv` is their conjunction. The proof goes through a contract per machine
(`ClientCall`, `ServerCall`): each method is shown to keep it, and the invariant
and the action properties follow from the contract without looking at the code
of the machines again.

`TransactionManagerProofs` proves `Consistent` and `OrphansHarmless` for any
number of transactions when the branches of own and foreign requests differ (a
request to oneself breaks it). `MgrInv` adds that handles only grow
and that identifiers in use were sent by this side or come from a peer; the
machines are opaque in this part. `ResponsesDoNotCross` (a response moves only the
transaction of its own branch and method) needs a little of them: every handler leaves
a machine with a state and events, and draining its actions moves nothing.

Of `CallManager` it proves `CmTypeOK`, `TimerRoles` (each side keeps the deadline of
its role, with an interval to slide by), `RoutingConsistent`, `AnswerUsedOnce` and
`TickSettles` for any number of calls, any port range that ends below 65534 and any set
of intervals, 0 included (`TickSettles` excepts only the refresh for an interval of 0, where
`tick_twice` refutes it). `CmInv` adds to them what makes them
inductive: an inbound call has no INVITE transaction of ours below it (so no 2xx
can bring media to a call whose answer is pending), a call is only ever on its
own dialog (so removing one call cannot cut the route of another), an inbound
call is routed from the beginning (so `answer_call` need not register it), and intervals are
whole seconds, so that half of one is no time at all only for 0 (for `TickSettles`). Each operation on a single call is shown to
give a `Kept` call; `KeptInv` carries that to the tables, and only the operations
that change the tables themselves (`create_call`, the incoming INVITE,
`handle_invite_success`, `remove_call`) are proved one by one.

`OutcomeStands`, `OneFinalResponse`, `TerminatedIsFinal`, `Supervised`, `TimerRoles` and
`AnswerUsedOnce` are proved without a run of their own.

`CallProofs` also has `RequestsAreRouted`, from the fact that an established call has a
routed dialog (`UpIsRouted`), and the action property `ChangesAreReported`.

`DialogProofs`, for any number of dialogs and of repeated, bare and foreign answers:
`TablesAgree`, `ConfirmedByBoth`, and that a side never has two dialogs of one identifier
other than the empty one, although the remote tag comes from whichever response arrives.
`DlgInv` says that a callee's dialog has its handle for a tag and a caller's, once it has an
identifier, its own Call-ID and the caller's tag, which is why no two can meet; that the
routes hold what requests must find, and no Early dialog of a caller, whose identifier may
still change; and that a 2xx to an INVITE on its way to the caller was told at the callee.
For `SessionRefresh`: one side plays the refresher from the answer to the end (`SrInv`,
hence `OneRefresher`), and `AnsweredCallsStayUp` under `RetryFits`: Timer F plus the
largest delay is less than the interval (32 s against at least 90 s). `Timely` says
why: as long as nothing failed, either the next request of the refresher reaches the
peer before its expiry (`Covers`), or a request that the peer has accepted is answered
in time (`Arriving`). TLC refutes the property at equality, so the hypothesis is tight.

`RetransmissionProofs`: `HandedOnce`, `NxAgreement` and `OneFate` for all timer values in
which T2 is an even multiple of T1 (`EvenBackoff`; 8 in the code). The hypothesis is
needed: TLC refutes `HandedOnce` with T2 = T1 and `OneFate` with T1 = T2 = 2. `NxInv`
compares the last retransmission with Timer J; `RelInv` keeps track of the parity of the
times at which Timer N fires.

`SessionServicesProofs`: `MediaAgrees` (`HoldInv`: a re-INVITE on the way is the open one of
its sender, the two sides use different numbers, and an answer fits its request),
`OutcomeIsTrue` (`TrInv`: each NOTIFY and response tells how its call went),
`RegisteredMeansBound` (`RegInv`: while no call gave up early, at most one request is
open and an `ok` on the way means a binding), and `FramesIntact` for any number of
connections, messages and reads. There, the unread bytes (buffer and wire together) are
a sequence of line ends and whole messages, witnessed by a numbering of the boundaries;
stripping line ends and cutting off a frame move from one boundary to a later one,
because no message begins with a line end and the first empty line of a message ends
its header block.

`MediaStreamProofs`, for every width of the numbers and every loss, repetition and
order: `InWindowAccepted` and `StatisticsTrue` while the index does not run out
(`IndexFits`, 2^48 packets), and `PlayedInOrder` for a stream that lasts less than half the
timestamp space, concealed frames included (`StreamFits`, 2^31 samples; TLC refutes it
for a longer one). `EveryPressReported`: the packets of a press form a block, and
`DtmfInv` says how far into a block the receiver is. `OfferAnswerAgree`: `SdpInv` says
from which line of the offer the media of the callee comes and what it answers.

`MediaControlProofs`: `CeilingHeld` (`BcInv`: an estimate also lowered `max_bitrate`),
`RelayIsAsTold` (`TurnInv`: what a copy of a request that is still on the way can change),
`ActiveIsServed` (`GsInv`: the handler of an entry has the Call-ID of the entry),
`PendingIsCurrent` (`IceInv`) and `SessionIsUsable` (`UseInv`: every pair in the check list
is made of known candidates, and a success was answered by the peer). The loops of
`form_candidate_pairs` are recursive functions; what they collect is shown through a
least counterexample, not by induction.

Beyond the types and bounds of the constants, the assumptions are: T1, T4 and Timer D are
positive and T2 is at least T1; a session interval is even and at least Min-SE, and a
message and its answer take less than half of it and no longer than Timer F; RTP ports of the
agent are numbers; `NoDigit` is not a digit; hosts and mappings of ICE are sequences; the
callee's port is not 0 and an offer is a session description. `EvenBackoff`,
`RetryFits`, `IndexFits`, `StreamFits` and the condition on branches are hypotheses of
their theorems, not assumptions of the models.

Every invariant and every safety property of the passing runs is thus proved. Only
model-checked are the liveness properties, out of the prover's reach (`ExchangeEnds`,
`NxExchangeEnds`, `NoLeak`, `SilenceEndsTheCall`, `CallsEnd`, `TurnIsTaken`, `RunsEnd`,
`SendEnds`, `CodecFollows`), while the disagreements of section 4 are refuted.

## 7. Plan, and what is not modelled

Done: the transaction layer, calls and session timers, dialogs, registration, hold,
transfer, SDP negotiation, media, ICE, TURN, stream transports and the voice agent
(sections 2 to 5), and the proofs of section 6. Next: the strengthenings on which
the liveness properties rest, as invariants with proofs (every wait has a running timer
in `NonInviteExchange`, `Registration` and `TurnClient`, as `Supervised` says for
`InviteExchange`), and the lock discipline of `StreamTransport` (the holder of a lock is
always at a step that releases it, over TCP).

Not modelled, and why:

- parsing and building of SIP, SDP, STUN, RTP and RTCP texts and packets, digest and SRTP cryptography, codecs, WAV files, the mixer: functions
  on bytes without protocol state, covered by round-trip oracles and fuzzing in the
  repository. Most of the lines of the repository are these, and tests;
- `transport/resolver.rs`: a chain of lookups without state; it has no failover. Two
  remarks from reading it: the targets of several NAPTR services are appended
  without sorting, and a NAPTR answer without the preferred transport fails
  instead of falling back;
- `transport/udp.rs` and the TLS handshake: socket I/O;
- `SrtcpContext`: its index is explicit in every packet and nothing is estimated;
- in `call.rs` and `manager.rs`: a second 2xx of another fork of one call;
- in `tcp.rs`: the connect that `TcpTransport::send` makes before `start`;
- `on_rtt` and `pacing_interval`: durations only;
- in `gabby`: resampling and G.711, the recogniser, the history of the conversation
  (whose trimming can split a question from its answer), the samples waiting to be sent.

About 29,000 of the 75,000 lines of the Rust sources are implementation, the others unit
tests in the same files. The map covers about 7,950 of them: nearly all of the state
machines above, and little of the larger rest, which parses, builds and computes.

# Verification of the Sv2 UniFFI library

TLA+ models of this repository: a Rust library (`src/`) that exposes the Stratum V2
codec, messages and server-side mining channels to Python (UniFFI) and Go (a C ABI), and
the Go and Python programs built on it (`go/`, `python/`). Paths below are relative to
the repository root; `encoder.rs` is `src/codec/encoder.rs`, and so on.

## 1. The system

| Part | State | Operations | Talks to |
|---|---|---|---|
| `Sv2CodecState` (`codec/state.rs`) | one `Mutex` around the library's `State`: a handshake role, or the two ciphers of the transport phase with their nonces | `new_initiator`, `new_responder`, `step_0`, `step_1`, `step_2`, `handshake_complete` | shared by reference with every encoder and decoder that is handed it |
| `Sv2Encoder` (`codec/encoder.rs`) | a `Mutex` around the library's encoder | `encode(message, codec_state)` | clones the codec state, seals with the clone, writes the clone back |
| `Sv2Decoder` (`codec/decoder.rs`) | a `Mutex` around the library's decoder and another around `buffer_size` | `buffer_size`, `try_decode(bytes, codec_state)` | the same with the receiving cipher |
| C ABI (`ffi.rs`) | handles given out as raw pointers | a function per operation, error codes; `sv2_try_decode` also returns how many bytes are missing | the above; Go's `go/sv2/ffi.go` |
| Go and Python clients and servers (`go/examples`, `python/examples`) | a socket, one codec state, one encoder, one decoder per connection | handshake, read loop, `SetupConnection` / `SetupConnectionSuccess` | each other over TCP |
| Template distribution client (`python/examples/template_distribution_example.py`) | as the Python client | the same handshake; waits for the answer to its `SetupConnection`, sends `CoinbaseOutputConstraints`, then listens without a time limit | a Template Provider, or one of the servers |
| Extranonce prefix factories (`channels/server/extranonce_prefix.rs`) | a `Mutex` around the next prefix | `new`, `next_extranonce_prefix` | the bootstrap programs |
| Mining channels (`channels/server/{extended,standard,group}.rs`, `jobs/`) | a `Mutex` per channel: target, active, past and future jobs, share accounting | `on_new_template`, `on_set_new_prev_hash`, `on_group_channel_job`, `on_set_custom_mining_job`, `update_channel`, `validate_share`, getters that return snapshots | templates from the template client; job snapshots of one channel handed to another |
| Channel bootstrap (`python/examples/bootstrap_*`) | the last template and prev-hash, the channel id counter, the channels | open a channel: prefix, id, channel, first job, messages | all of the above |
| Message conversion (`messages/`) | none | `sv2_message_to_inner`, `inner_to_sv2_message` | encoder, decoder, channels |

What is hard about it:

* **Concurrency.** Every object may be used from any thread. The codec state's mutex is
  *not* held across an encode or a decode: the call takes a clone under it, works, and
  overwrites the state with the clone. `buffer_size` and the decoder it describes have a
  mutex each.
* **Failure.** A decode can fail after the library has consumed the bytes; a panic of the
  library poisons the two mutexes of the decoder (UniFFI) or aborts the process (C ABI).
* **The network.** A read returns part of what was written, a connection breaks anywhere,
  `socket.send` may take part of a message only, the Python client gives up after ten seconds.
* **Ownership.** Boxes and buffers cross the C ABI as raw pointers, and every way out of a
  Go function must give each back once.
* **Protocol order.** Handshake steps, header before payload, templates before prev-hashes.

What makes each part correct: no nonce is used twice under one key; messages come out in
the order they went in; a caller is never asked for a wrong number of bytes; every call
returns; both ends of a connection come to an end; handles are freed once and never used
afterwards; a message means the same on every host it passes; prefixes of channels never
overlap; a channel's jobs are for its own chain tip, and every share counts once and for
the tip it was mined for.

## 2. Modules

| Module | What it is |
|---|---|
| `SecureEndpoint` | Abstract: one end of a connection whose calls each take effect at one instant |
| `Sv2Codec` | The codec: threads, encoders, decoders and one shared codec state |
| `MCSv2Codec` | Its instances for TLC (`Sv2Codec_*.cfg`) |
| `Sv2CodecProofs` | Its inductive invariant, type correctness, monotone phase |
| `Sv2CodecRefinement` | Proof that it implements `SecureEndpoint` when calls do not overlap; what the decoders tell their callers |
| `SecureChannel` | Abstract: two ordered streams of messages between two programs |
| `Session` | A client and a server program over a TCP connection |
| `MCSession` | Its instances for TLC (`Session*.cfg`) |
| `SessionProofs` | Its inductive invariant, and the proof that it implements `SecureChannel` |
| `MessageConversion` | A message converted to the wire and back by host after host |
| `MCMessageConversion` | Its instance for TLC (`Messages.cfg`) |
| `MessageConversionProofs` | Proof that both conversions of every message agree, and its invariants |
| `FfiHandles` | Handles and buffers between Rust and the Go programs |
| `MCFfiHandles` | Its instances for TLC (`FfiHandles*.cfg`) |
| `FfiHandlesProofs` | Its inductive invariant; types, ownership, no leaks |
| `ShareLedger` | Abstract: the shares a mining server accepted |
| `ChannelServer` | The mining channels of a server: templates, prev-hashes, jobs, shares |
| `MCChannelServer` | Its instance for TLC (`ChannelServer.cfg`) |
| `ChannelServerProofs` | Its invariants: types, jobs and tips, refinement of `ShareLedger` |
| `ChannelServerShareProofs` | Proofs about what it answers to honest work |
| `ChannelBook` | Abstract: the channels a mining server told its clients of |
| `Bootstrap` | A mining server that opens channels while templates arrive |
| `MCBootstrap` | Its instances for TLC (`Bootstrap_*.cfg`) |
| `BootstrapProofs` | Its inductive invariant, type correctness, refinement of `ChannelBook`, the group's members; what a single-threaded server tells its clients |

### Sv2Codec

One step is one critical section of the codec state's mutex, one acquisition of another
mutex, or one call into the library. The state's mutex needs no variable: whoever holds it
takes no other mutex and releases it within the same step. The other three are `encLock`,
`decLock`, `sizeLock`; they are held from acquisition to the return of the call, as the
guards `inner_encoder`, `inner_decoder` and `buffer_size` are in the code.

| In the model | In the code |
|---|---|
| `codec`, `local[t]` | `Sv2CodecState.inner`; the variable `inner_state` of a running call |
| `EncodeLock`, `EncodeRefuse`, `EncodeClone`, `EncodeUnready` / `EncodeSeal`, `EncodePublish` | `encode`, line by line: lock, conversion with its early returns, clone, library call, write-back and return |
| `DecodeLock`, `DecodeSizeLock`, `DecodeClone`, `DecodeWrongSize`, `DecodeFail` / `DecodePanic` / `DecodeAbort` / `DecodeAccept`, `DecodeDeliver`, `DecodeMissing` | `try_decode` in the same way; `DecodeFail` covers the library's errors and the four `?` after a complete frame |
| `viaC`, `b_size` after `DecodeMissing` | `sv2_try_decode`, which calls `buffer_size` again for `out_missing` |
| `Step0`, `Step1`, `Step2`, `HandshakeComplete` | one critical section each |

Data are abstracted to what the properties tell apart. A sealed chunk is its length class
(header or payload) and its nonce; a cipher is the next nonce; chunk *n* of the peer opens
only under receive nonce *n*. `Inputs` gives `try_decode` every chunk the peer sealed, in
any order and any number of times, forged chunks, and no bytes at all.

The library is external (`codec_sv2`) and is modelled from how `src/` uses it:
`NextFrame` is `next_frame`, a set of outcomes. Where its behaviour is not visible here it
is a choice: called before the transport phase it may return an error or panic; given a
buffer of the wrong length the decoder may or may not count the region `writable()` just
handed out as filled (`intact`).

`Exclusive` is the discipline of all example programs, one thread per codec state; the
API does not enforce it, so the runs and theorems say where it is needed.

### Session

`Session` composes two endpoints. Each is driven by one thread, so a codec call is one
step; that this is sound is what `ExclusiveUseIsSecure` says about `Sv2Codec`. `setting`
says who talks to whom and over what: the Go, Python or template client, the Go or Python
server or a Template Provider, a connection that may break or not, a `socket.send` that
takes everything or not. It is chosen once, so one run covers every pairing.

| In the model | In the code |
|---|---|
| `stream[s]`, `ReadSizes` | bytes on their way to `s`; a read takes any non-empty prefix |
| `Written` | what of a write reaches the stream: all of it from Go's `conn.Write`, at least one byte from Python's `socket.send`, whose return value no program looks at |
| `ClientStep0`, `ClientStep2`, `GoStep1`, `PythonStep1` | the handshake; the two servers differ in what they do with a short first read |
| `Trigger`, `ReadMore`, `DecodeHeader`, `Receive`, `DecodeError` | the read loop, the same in all programs: an empty `try_decode`, reads up to `buffer_size()`, `try_decode` with them |
| `ServerHandle`, `ClientHandle` | what the programs do with a message |
| `TemplateAnswered`, `TemplateListen` | the template client's wait for its answer (`pc` is `loop`) and the function that listens afterwards (`listen`), on the same decoder |
| `GiveUp` | what an error or the end of the stream does: every function ends the program, but the template client's exchange, whose caller goes on to listen with the same decoder (`template_distribution_example.py:532`-`535`) |
| `Eof`, `IoError`, `TimeOut` | the peer has closed; a read or write fails and may lose what was under way, from some byte on; ten silent seconds at the Python client |
| `ProviderStep1`, `ProviderHandle`, `ProviderPush`, `ProviderLeave` | external: what the template client takes a Template Provider to do |

`genuine` records whether the responder's keys come from a message the initiator sent.
`sent` counts a message once it was handed to the socket.

The Go server sleeps and tries again when an empty `try_decode` names no number of bytes
(`server_example/main.go:114`). That branch has no action: `Trigger` always yields a size, because
a decoder that wants nothing asks for a header (`NextFrame` of `Sv2Codec`).

### MessageConversion

Both conversions are tables: for each message kind, which field of the record goes to which
field of the library's message (`CommonToInner`, `ChannelToInner`, ...), in the order in
which the code converts them, and which field each field of the record is read back from
(`CommonFromInner`, ...). `Records` gives each field its type: a text, a byte string, a list of
byte strings, a list of ids, the protocol. Numbers move over unchanged and are left out, and so
is the content of the others except for what the conversions can tell apart (`HostValues`,
`WireValues`). `Refuse` stops at the first field that does not fit, as the `?` of the code do;
`FromText` is `from_utf8_lossy`. A message is sent (`Send`) and decoded (`Receive`) up
to `MaxHops` times, by programs of this library that pass on what they decoded; it starts on
a host, or on the wire if another implementation composed it (`foreign`).

The conversion looks at the length of each element of a list and not at their number (`into()` at
`messages/mod.rs:426`, `547` and `799`), so a list that is too long goes onto the wire. What the
library's framing makes of it is not in this repository: it may be refused there or parse nowhere
(`Garble`), or parse as any other message of its kind (`Misread`).

### FfiHandles

A cell of `heap` is a piece of memory Rust handed out; `ptr[g][s]` is the `ptr` field of the
wrapper a goroutine holds in its variable `s`, `Nil` once freed. Memory that was freed is
handed out again at once (`Fresh`), so that a pointer that outlived its object points at
another one. The labels of `pc` follow the functions: `create` to `finish` are the
handshake, `open` the encoder and decoder, `compose` to `written` the client's first
message, `loop` and `handle` the read loop, `answer` and `copied` the server's reply,
`return` the deferred calls, which run last in, first out (`deferred`). Wherever the code
returns early, the action has a disjunct that goes to `return`. What a codec call answers
is a free choice: `Sv2Codec` says when it is which. `before[c]` is the word in front of a
state, where `Arc` looks for its count (finding 3).

### ChannelServer

Every method of the three channel objects holds its object's one mutex from the first line
to the last, so a call is one step. `on_group_channel_job` locks the job it is given while it
holds the channel; no method that holds a job's mutex takes another, so there is no deadlock to
find and no variable for it.

| In the model | In the code |
|---|---|
| `pos[c]`, `Relayed` | how far the program has relayed the Template Provider's `Feed` to channel `c`; each channel is fed at its own pace |
| `job[c]`, `nextId[c]` | the channel's job store and id factory (library): future, active, past and stale jobs by id |
| `OnNewTemplate`, `OnSetNewPrevHash`, `OnSetCustomMiningJob`, `OnGroupChannelJob`, `UpdateChannel`, `ValidateShare` | the methods, with `Leave` for an exception and `Panic` for a panic of the library inside one, after which every call answers `LockError` |
| `Jobs`, `made[c]` | the getters and the snapshots they return; the jobs a client may have been told of |
| `GetJob`, `held` | the program takes a snapshot from one channel's getter and passes it to a follower later, at whatever tip that one is by then |
| `Hand`, `astray[c]` | a job from elsewhere, custom or passed on, is taken; history: those taken at another tip than theirs |
| `Answers`, `Verdicts` | `validate_share`: lock, conversion, and the answer of the library's verdict, which is external |
| `server` | what the server has open, one of the `Deployments` |
| `seen[c]` | the library's set of accepted work, emptied by a prev-hash |
| `credited`, `accepted` | history |

A template is its place in the feed, a chain tip the place of its prev-hash, and `BuildsOn`
says which templates were made for which tip. The job stores, target arithmetic and hashing
are in `channels_sv2`, external, and modelled by what the getters, errors and comments in
`src/` show of them: a prev-hash must name one of the future jobs if there are any
(`Chosen`), a new active job makes the last one past, a prev-hash makes active and past jobs
stale, and a job stored under a used id takes its place (`Stored`). Where that leaves a choice, such as whether a share that solves a block is looked
up among the duplicates, `Verdicts` is a set.

`on_group_channel_job` takes an `Sv2ExtendedJob`. The group channel gives out messages only
(`group.rs:139`, `158`), so the jobs a program can pass to a standard channel are those of an
extended channel, the `Leader`. No program of the repository makes that call, and none stops it:
a follower has templates of its own, as `bootstrap_standard_group_channel_server_example.py:272`-`289`
gives every standard channel one, and takes the leader's jobs when they come, early, late or under an
id it already uses. In the same way `on_set_custom_mining_job` passes on the prev-hash of its message as it
is; `python/tests/test_extended_channel_server.py:138` is its only caller, and the model lets it name any
tip. Three properties say what survives that:

* `JobsBelongToTip`: a job handed over at another tip than its own (`astray`) is on the wrong tip itself, and
  no other job is.
* `HonestWorkCounts` and `StaleIsStale` speak of shares whose id names one job (`Clear`). On a channel that
  numbers its jobs itself that is every share but one for an `astray` job; on a follower, whose ids have two
  sources, also those whose client was told of one job under that id and of that job under one id (`Sole`).

### Bootstrap

The two example files define the same contexts, one with a group channel and standard
channels, the other with extended channels; `Bootstrap` joins them in one connection that
opens channels of both kinds. Its constructor and the two bootstrap functions are sequences of
calls on shared objects (factories, channels, the cached messages); each such call is an
action, and `step[c]` says where connection `c` stands.

| In the model | In the code |
|---|---|
| `cache` | `cached_future_template`, `cached_set_new_prev_hash_tdp` of `MiningServerContext` |
| `used[kind]`, `TakePrefix`, `NoPrefix` | the two prefix factories and `next_extranonce_prefix` |
| `nextId[c]`, `chan[c]`, `members[c]` | `channel_id_factory`; the channel dictionaries and the group channel; `add_standard_channel_id` |
| `Connect`, `GroupTemplate`, `GroupTip` | `ConnectionContext.__init__` |
| `Receive`, `CreateRefused`, `CreateRaises`, `Create` | the bootstrap functions up to the constructor, with their early returns; the `BadMaxTarget` of the constructor, for which no branch sets `error_code`, raises `UnboundLocalError` |
| `Register`, `AddToGroup` | the entry in the channel dictionary; `add_standard_channel_id` |
| `CustomWork`, `LoadTemplate`, `LookUpJob`, `ActivateJob` | `on_set_new_prev_hash` of a client with work of its own; `on_new_template`, the look-up of the future job, `on_set_new_prev_hash` |
| `ReadPrevHash`, `ReadTime`, `Tell` | the three fields of `SetNewPrevHashMining`, each of which reads the cached prev-hash for itself; the messages are returned |
| `Raise`, `CreateRaises` | an exception of `on_new_template`, of the look-up, of `on_set_new_prev_hash` or of the error branch leaves the function |
| `announced`, `raised` | history: the messages the functions returned; the channel ids of those an exception ended |
| `NewTemplate`, `SetNewPrevHash` | the template provider's messages as they are cached |

A template is its number and stands for its job; a prev-hash is the number of the template
it activates; a prefix is its position in its factory. A connection serves one request at a time,
since each function takes one message to its replies. The library may refuse a template at any time
(`FailedToConvertMessage`, `FailedToProcessNewTemplate`); a panic inside a bootstrap, and the `LockError`s
behind it, are left out, and so is the reading of the cached template that makes the coinbase outputs. An
uncaught exception ends the request without a reply; whether the caller then drops the connection is not in this
repository, and the model lets it go on. `SingleThreaded` is the example programs' own regime;
a server with a thread per connection, which the locks of the Rust objects allow, has
`SingleThreaded = FALSE`. `Accepts` is what `channels_sv2` does with a prev-hash, as the
code's errors and the comments of the examples show it: with future jobs, the prev-hash must name one
of their templates (`FailedToProcessNewPrevHash` otherwise); without any, it only sets the tip.

## 3. Runs

| Run | Instance | Shows |
|---|---|---|
| `codec_exclusive` | 2 threads, calls never overlap, C ABI, chunks 0-3 of which payload 3 does not parse, 8 calls: the initiator's handshake and two frames | `TypeOK`; `ImplementsEndpoint`; `ReceiveAccountsForFrames` (an accepted chunk is lost only by a reported failure); `MissingIsPositive` |
| `codec_concurrent` | 2 threads, calls overlap, 1 encoder, 1 decoder, 5 calls, fair threads | `BufferSizeIsCurrent`, `PhaseNeverReverts`, and `CallsReturn`, also after a poisoning panic |
| `codec_lost_update` (violation) | 2 threads, an encode and a decode overlap | finding 1 |
| `session` | every client with every server it is written for, reliable or not, with whole or short sends; the Go and Python clients pipeline two messages | `TypeOK`, `NothingSwallowed`; `ImplementsChannel`; `ExchangeCompletes`, `ConstraintsArrive`, `SessionEnds`, `CloseIsFollowed` |
| `session_partial_hello` (violation) | Go client and server, a short first read | finding 2 |
| `messages` | every message kind with each value each field may have, 3 hops | `TypeOK`; `EveryHostSeesTheSame`; `DecodedCanBeSent`; `OnlyLengthsSlipThrough` |
| `channel_server` | five deployments: a standard channel, an extended one with a custom job, a group, and an extended channel with a standard one that follows it, once with a custom job and once with shares; one feed | `TypeOK`; `JobsBelongToTip`; `HonestWorkCounts`; `StaleIsStale`; `ImplementsLedger` |
| `ffi_handles` | one client and one server connection on one allocator, any call or write may fail | `TypeOK`; `HandlesAreOwned`; `NothingLeaks` |
| `ffi_arc` (violation) | one server connection, any word in front of its state | finding 3 |
| `bootstrap_concurrent` | a connection with a group channel and one for custom work, 3 requests each, 2 templates, anything interleaved | `TypeOK`; `ImplementsBook`; `GroupListsChannels`; `UntoldOnlyByException` |
| `bootstrap_serial` | a connection with a group channel and one for standard jobs, 2 requests each, 3 templates, single-threaded | `ToldIsActive` |
| `bootstrap_half_open` (violation) | 1 connection, 1 request, 2 templates, single-threaded | finding 4 |

**Bounds.** *Codec.* `MaxCalls` bounds calls and `MaxChunk` the peer's nonces; five calls are
enough for a handshake step and two overlapping calls on each kind of object with one to
spare, and eight in sequence for two whole messages, so that state left by one message meets
the next. Threads run the same program, so the safety run uses their symmetry.

*Session.* Chunks of two bytes are the smallest a read can split; handshake messages of
three have a middle, and are longer than a chunk, as in the code (64 bytes against 22), so
that the rest of a short first read can be mistaken for a sealed header. Two messages from the client put
one frame behind another in the stream. A provider that sends three messages answers the
setup, the constraints, and once unasked.

*Messages.* Three hops: the second is the first to send what was decoded, the third to
decode what was sent on. Every field ranges over all its classes at once with every other.

*Channels.* The feed is a future template, a second future template for the same tip, the
prev-hash of one of them, a template for that tip, then a future template and its prev-hash:
a channel has two future jobs of which one is dropped, replaces an active job within a tip,
and moves to a second tip. Five job ids cover the templates and the one custom job, which may be for either
tip. Shares are easy or solve a block, and the target moves between one that the easy ones meet
and one they do not. A channel by itself takes two distinct shares, enough for one to
repeat and one to be made stale; the follower takes one, and its client learns of two jobs, so that one may
be of its own template and one of the leader's, under one id or two. Where a follower is open, the
leader's client learns of four jobs of the leader's five at most, one of each template or the custom job for one.

*Handles.* Eleven cells are as many as the two connections can hold at once (five of the
client, six of the server), so memory never runs out (a program without memory aborts), and
freed cells are reused.
`Words = {"other"}`: no zero in front of a state; with one, `HandlesAreOwned` fails as finding 3 says, and
`WrappersOwn` (section 5) says that it fails for no other reason.

*Bootstrap.* The factories hold 2 standard and 3 extended prefixes, fewer than the requests of
a run ask for, so each runs dry; a client asks for 8 or 9 rollable bytes where the server
allows 8; two templates separate a template from its prev-hash, and three let a prev-hash
skip one. Connections differ in their flags and are not symmetric.

**Fairness.** `Sv2Codec!FairSpec` asks that a thread that can take its next step does: the
operating system's scheduler. No order is assumed in which a mutex is granted (weak
fairness only), which suffices because the number of calls is bounded. `Session!FairSpec`
is weak fairness of each of the two programs as a whole, which includes that bytes in the stream or
the peer's close reach a waiting read, and that the Python client's time runs out. Broken connections and what a Template
Provider does unasked (`ProviderPush`, `ProviderLeave`) are never owed. Only the Python client
has a time limit: any other program waits as long as its peer keeps the connection open and
says nothing. So `ExchangeCompletes` and `ConstraintsArrive` assume that nothing takes bytes or
time away (`Undisturbed`), and `SessionEnds` that messages are written whole or the waiting
client is the Python one; `CloseIsFollowed` holds in every setting; that the
peer's close arrives in the end, also behind lost bytes, is part of the fairness. The other modules state no liveness: their
programs are straight-line code between messages.

**Deadlock** is checked except in `session*`, where two programs that wait for each other's
bytes are a legal end (the template client listens for ever), `channel_server`, where the feed ends,
and `ffi_*`, where the programs end. There the liveness properties, if any, say what must
not stop. In the other runs the only stuttering steps are `Done` (all calls made and
returned, all requests served), `Aborted` and `Ended`.

## 4. Findings

1. `codec_lost_update`: "Update the original state with changes" (encoder.rs:60,
   decoder.rs:99 and 112) overwrites it with a clone that another call has outdated. With
   an encode and a decode overlapping on one state the later write-back takes back the
   other's nonces: `emitted` may repeat one, or the next chunk of the peer is refused.
2. `session_partial_hello`: the Go server treats a short first read as a whole message.
   The client refuses the answer, so the damage is a failed connection and a server that
   reports a handshake that did not happen; `ImplementsChannel` holds regardless.
3. `ffi_arc`: `sv2_encode` and `sv2_try_decode` make an `Arc` of a pointer that came from
   `Box::into_raw`. An `Arc` keeps its counts in front of the object, where a box has
   none: `clone` adds one to memory that is not the state's and the end of the call takes
   it off again. If that word was zero, taking it off brings the count to zero and the
   state is dropped although Go still holds it, against "Avoid dropping original state"
   (ffi.rs:222). Even where it is not zero, memory that belongs to somebody else is written to
   during the call.
4. `bootstrap_half_open`: a bootstrap registers its channel
   (`bootstrap_standard_group_channel_server_example.py:233`) before it calls `on_new_template` and
   `on_set_new_prev_hash`. The first may refuse the template; the second fails when the cached
   prev-hash does not belong to the cached template, as between a new future template and its
   prev-hash. The exception leaves the function, and a channel stays in the connection (and in
   the group) that the client was never told of. No second thread is needed.
   `UntoldOnlyByException` says that only an exception does this, and no refusal.

Observations without a run of their own:

* After a frame that opens but does not parse, `buffer_size()` still answers the length of the
  payload just consumed. Two threads that share a decoder may see `sv2_try_decode` answer
  `ERR_MISSING_BYTES` with 0 missing; `MissingIsPositive` holds where calls do not overlap.
* A Go client that talks to a Python server whose `socket.send` was short waits until somebody
  closes: neither side has a time limit. `SessionEnds` leaves that case out.
* The template client goes on to listen when its `SetupConnection` was answered by an error, and also
  when its exchange with the provider failed; bytes gathered by then are forgotten.
* A job of the leader handed to a follower at another tip, or custom work for another prev-hash than
  the channel's, is made active at the wrong tip: nothing in the wrapper, the job or the message's way
  there compares tips. `JobsBelongToTip` excepts that job and no other. A future job of the leader
  handed to a follower that is a tip behind goes with the follower's next prev-hash.
* A follower's own factory and its leader number jobs independently: an id its client knows from both names
  the job that came last.
* With `SingleThreaded = FALSE`, `ToldIsActive` fails: the message that activates the job at
  the client is built from the cached prev-hash, not from the channel's, so a server that caches
  the provider's messages on another thread must hold them still during a bootstrap; the
  examples have one thread.
* A future template that another one's prev-hash has dropped stays dropped: if its own prev-hash
  comes later, the tip moves without an active job, and work a miner did on the job it had been told
  of is refused. `HonestWorkCounts` therefore needs a provider that completes a future template
  before it sends another prev-hash (`OrderlyFeed`).
* The dummy group id 0 of a connection without a group channel is also the id of its first
  channel.

## 5. Proofs

`Sv2CodecProofs` proves, for every number of threads, encoders, decoders and calls:

* `TypeCorrect`: `Spec => []TypeOK`. The inductive invariant `Inv` adds to `TypeOK` that a
  call works on an object of its own kind (`ObjectsMatch`), without which `decLock[obj[t]]`
  has no type, and that a clone about to be written back is in the transport phase
  (`ClonesPublishable`), without which a write-back might publish a nonce below zero or a
  state without ciphers.
* `PhaseIsMonotone`: `Spec => PhaseNeverReverts`. Of the steps that write `codec` the
  handshake steps move it forward and the write-backs install a clone that
  `ClonesPublishable` puts in the transport phase.

`Sv2CodecRefinement` proves `ExclusiveUseIsSecure`: `Exclusive => (Spec =>
ImplementsEndpoint)`. On top of `Inv`, `SerialInv` says that at most one thread is inside a
call (`OneCall`), that the running call's clone is ahead of the shared state by exactly what
the call has done so far (`ClonesAhead`), that a chunk's nonce tells its length class
(`ChunksSized`), and that the shared nonces count what was emitted and delivered
(`Counted`). `ClonesAhead` is what fails without `Exclusive`, and `codec_lost_update` shows it
failing. Each step then maps to a step of `SecureEndpoint` or to a stutter: write-backs are
`Send`, `AcceptHeader` and `Deliver`, everything else is invisible.

It also proves, about the decoders:

* `SizeIsCurrent`: `Spec => []BufferSizeIsCurrent`, whatever interleaves. `LockInv` adds that a call
  which has touched the library's decoder holds the mutex of `buffer_size` (`SizeHeld`), and that a
  decoder which has returned a frame wants nothing (`FrameLeavesNothing`), which is why the zero
  that `try_decode` then stores is right.
* `MissingBytesAreSome`: `Exclusive => (Spec => []MissingIsPositive)`. `Answerable` follows the number
  from the library through `buffer_size` to the second reading of the C ABI; that nobody runs in
  between is `OneCall`.
* `FramesAreAccountedFor`: `Exclusive => (Spec => []ReceiveAccountsForFrames)`. `FramesTracked` says
  that the receive nonce is of a payload exactly when one decoder waits for one (`Tracks`), for the
  clone while it waits to be written back and for the shared state otherwise.

`BootstrapProofs` proves, for every number of connections, templates, requests and
prefixes, interleaved or not:

* `BootstrapTypeCorrect`: `Spec => []TypeOK`. That a new id stays in its range needs
  `IdsSuffice` (an id is spent only for a request or the group channel), and that a factory
  can be asked needs `RequestKnown` (a running bootstrap has a request).
* `BookIsKept`: `Spec => ImplementsBook`. `IdsFresh` says that the id of a running bootstrap
  and every announced id are below the connection's counter, and that the running one is not
  announced; `PrefixesFresh` says the same of prefixes across connections, and that no two
  running bootstraps of one kind hold the same prefix. Each is inductive only with the clause
  about running bootstraps, which lie between taking a name and announcing it. The step
  lemmas group the actions by what they do to names (take, register, drop, announce).
* `NoNameTwice`, from the refinement alone: the announced channels are told apart by connection and
  id, and by kind and prefix.
* `GroupIsComplete`: `Spec => []GroupListsChannels`. Between registering and telling the invariant follows
  the running bootstrap: from `Register` on its channel is in the dictionary, and from `AddToGroup` on
  in the group, step by step, so that whoever is told of comes after both. No channel is registered under
  an id the connection is still to give out (`UnbornAbsent`), or a new channel might replace a listed one.
* `OnlyExceptionsLeaveChannels`: `Spec => []UntoldOnlyByException`: a registered channel was announced,
  is that of the running bootstrap, or is in `raised`.

About a single-threaded server it proves `SerialTellsWhatIsActive`: `SingleThreaded => (Spec =>
[]ToldIsActive)`. `SerialInv` says that at most one connection is inside a function
(`OneBootstrap`), that the running bootstrap's channel, its job and the cache agree as far as it has
come (`ChannelFollows`), and that nothing is announced of an id not given out
(`UnbornSilent`), without which a new channel might replace an announced one.
`ChannelFollows` is what fails when a prev-hash is cached between `ActivateJob` and `Tell`, or between two
of the three readings.

`ChannelServerProofs` proves, for every feed, set of channels and bounds:

* `ServerTypeCorrect`: `Spec => []TypeOK`, with the clause that no channel but a follower has
  a job under an id its factory is still to give out.
* `JobsBelong`: `Spec => []JobsBelongToTip`, whatever jobs are handed to whom and when. The
  inductive invariant `JobsInv` adds that a channel that is still fed is at the last prev-hash
  it was handed (`TipIsLast`), that a future job is a future template's (`FutureJobsWait`), that
  only a follower is handed anything but custom work at the wrong tip (`AstrayIsCustom`), and that
  the snapshot in the program's hand, unless it is future, belongs to the tip it was taken at
  (`HeldBelongs`). `FeedAssumption` (a prev-hash names one earlier future template, and no two
  the same) is what makes an activated job belong to the new tip; `BuildsOn` and the position
  of each channel in the feed make a new job belong to the present one.
* `LedgerIsKept`: `Spec => ImplementsLedger`, from `CreditedOnce`: what the channel has seen since its last tip
  includes all credited work of that tip (so a duplicate is recognised), and credited work
  of any tip lies at or below the channel's; a prev-hash may then empty `seen`.
* `CountIsWork`, from the refinement: a channel answers that a share is valid exactly as
  often as it accepts a new piece of work.

`ChannelServerShareProofs` proves, for every feed, set of channels and bounds:

* `StaleWorkIsOver`: `Spec => []StaleIsStale`. `Record` says that every stored job was shown
  under its id (`Shown`) and that a channel that numbers its own jobs shows each under an id
  of its own (`Numbered`), so that the id of a `Clear` share names one job. `JobsTimed` says
  that, unless handed over at the wrong tip, a stale job is over and a future one still awaits
  its own tip, as does a future snapshot in the program's hand; it rests on a job having at
  most one tip (`ForOneTip`).
* `HonestWorkIsAccepted`: `OrderlyFeed => (Spec => []HonestWorkCounts)`. To these it adds
  `DroppedIsOver`: work that has left the store is work for a tip that is past.
  `OrderlyFeed` (no prev-hash comes between a future template and its own) is needed,
  for a prev-hash discards all the future jobs it does not activate.

`FfiHandlesProofs` proves `HandleTypes`, `WrappersOwn` and `NothingIsLost` for any number of
goroutines and cells and whatever stands in front of the states, from one inductive invariant `IInv`: a wrapper's
pointer is in use, unshared, and to an object of its kind, or for a state to what a call may have
left of it (`Own`); which wrappers may have a pointer at which label of `pc`
(`Placed`), without which nothing says that `Alloc` overwrites no pointer or that a finished
connection holds none; and that the deferred calls match the long-lived wrappers (`Calls`).
`HandleTypes` and `NothingIsLost` are then unconditional. `WrappersOwn` is `Spec /\ []StateSurvivesCalls =>
[]HandlesAreOwned`: ffi.rs:222 promises what it assumes, finding 3 shows that the code does not keep the
promise, and the theorem that nothing else breaks ownership. What becomes of the memory of a dropped state
afterwards is not followed.

`SessionProofs` proves, for all lengths of the handshake messages and of the chunks, all scripts of
the clients and any number of templates, three of the run's properties from one inductive
invariant, `IInv`. A read may split a frame anywhere, a send may write part of one, and a lost
connection cuts what is under way, so a stream is in general no sequence of chunks; an invariant
that describes its shape breaks with the first short send. `IInv` speaks of single bytes
instead. Each carries the chunk it belongs to, and `Claims` says what that chunk tells of its
sender: an answer comes from a responder that has read the initiator's own message, a header has an even
nonce, a payload is the *k*-th message of its sender and has that message's nonce. Claims
outlive whatever is sent later (`ClaimsGrow`), and cutting or joining sequences of authentic bytes gives
authentic bytes (`InTransit`). What decodes is then a chunk the peer did send, and the nonce it decodes
under says which. To this are added that nonces count the histories (`Counted`), where each
program stands (`Stages`), and that the server is silent until it is addressed (`Quiet`). From it follow

* `SessionTypeOK`: `Spec => []TypeOK`;
* `NothingIsSwallowed`: `Spec => []NothingSwallowed`, from `Quiet`;
* `SessionImplementsChannel`: `Spec => ImplementsChannel`. A message decoded is the next one of the
  peer's (`PayloadIsNext`), whether or not the program answers it in the same step; a program that stops,
  fails or times out is a stutter;
* `WhatIsHeardWasSaid`, from the refinement: what one program has decoded is at every moment a beginning of
  what the other has sent.

`MessageConversionProofs` proves, for any number of hosts, in two halves.

* `ConversionsMatch`: for every message of the library the two tables of its conversions agree
  (`Matched`): every field goes in, no two under one name, and each comes back from under the name it went in.
  This is the half that looks at the tables, message by message (`CommonTables`,
  `ChannelTables`, ...), by the number of fields and the order in which each side takes them.
* The other half never looks at a table. `Journey` says that a host's record is the first host's or the
  first host's had too long a list, that what is on the wire is such a record under the library's names,
  with values the wire can carry and over-long lists, or one of
  another implementation that nobody has decoded yet, and that a refused record has a field that
  does not convert. Matched tables carry a record there and back (`RoundTrip`), and a decoded record fits the
  wire again but for a text its repair made longer (`ReadValue`). From it follow `MessageTypeOK`
  (`TypeOK`), `HostsAgree` (`EveryHostSeesTheSame`), `OnlyGrownTextsAreRefused`
  (`DecodedCanBeSent`) and `OnlyLongListsAreLetThrough` (`OnlyLengthsSlipThrough`).

The proofs use the named assumptions on the constants in the modules, those written in the
theorems, and nothing else. Runs with fairness check a `FairSpec`, which implies the `Spec` of the
theorems.

Every invariant, action property and refinement that a passing run checks is thereby the statement of a
theorem, under conditions on the constants that the run's instance meets; `HandlesAreOwned` also under
`[]StateSurvivesCalls`, which the run's instance meets. Only model-checked are the liveness properties (`CallsReturn`,
`ExchangeCompletes`, `ConstraintsArrive`, `SessionEnds`, `CloseIsFollowed`), which rest on fairness and on
`ENABLED`, out of the prover's reach; and the violations of section 4, which are counterexamples.

## 6. Not modelled

* Handles used by several threads at once, or after `Free` by a program that keeps a copy of
  the pointer: no program in this repository does either, and the wrappers clear theirs.
* The getters of messages and jobs: they read and return copies.
* Contents of messages, key material, MACs, hashes: abstracted to nonces and kinds as above.
* `Mutex` poisoning of the codec state and of the encoder: nothing inside their critical
  sections is known to panic.
* What the library's framing makes of a list with more elements than the protocol allows: not visible
  here, and any outcome in the model (`Garble`, `Misread`).
* In a bootstrap: panics of the library and the `LockError`s behind them, and the contents of the
  coinbase outputs, with the reading of the cached template they take.
* `remove_standard_channel_id`, which no program calls.
* The Go server's sleep and retry when a decoder asks for nothing, which a decoder never does.
* The bytes of an extranonce prefix: static prefix, the three ranges, and the `u32` sum
  `allocation_size + rollable_size`, which no caller brings near its limit.
* The state of a channel after an exception is taken to be the state before the call; whether the
  library leaves a refused call half done is not visible here.
* Generated bindings, build files, Docker files, printing.

## 7. Plan

1. `Sv2Codec`, `Session`, `Bootstrap`, `MessageConversion`, `FfiHandles`, `ChannelServer`, their runs
   and the theorems of section 5: in this document.
2. That `Session` may treat a codec call as one step is argued by `ExclusiveUseIsSecure`; a module that
   puts two `SecureEndpoint`s in the place of the nonces of `Session` would make the composition itself a
   theorem.

------------------------------ MODULE Sv2Codec ------------------------------
(***************************************************************************)
(* The codec of src/src/codec: an Sv2CodecState shared by reference        *)
(* (Arc<Sv2CodecState>) between any number of Sv2Encoder and Sv2Decoder    *)
(* objects, which the foreign callers (Python through UniFFI, Go through   *)
(* the C ABI) may use from any number of threads.                          *)
(*                                                                         *)
(* The shape that matters: encode and try_decode never work on the shared  *)
(* state.  They clone it under its mutex, let the library work on the      *)
(* clone, lock the mutex a second time and overwrite the shared state with *)
(* the clone.  The encoder's mutex, the decoder's mutex and the mutex of   *)
(* buffer_size are held from the first line of the call to the last; the   *)
(* mutex of the codec state is released between the two accesses.          *)
(*                                                                         *)
(* One step of this module is one critical section of the state mutex, one *)
(* acquisition of another mutex, or one call of the library.  The state    *)
(* mutex needs no variable: whoever holds it takes no other mutex and      *)
(* gives it back before the end of the same step.                          *)
(***************************************************************************)
EXTENDS Integers, Sequences

CONSTANTS
  Threads,      \* threads of the foreign program
  Encoders,     \* Sv2Encoder objects
  Decoders,     \* Sv2Decoder objects
  Nil,          \* no thread, or no object
  Role,         \* HandshakeRole of the codec state: "initiator" or "responder"
  Operations,   \* the groups of operations the callers use
  Exclusive,    \* TRUE: a caller enters a call only when no other call is running
  BadPayloads,  \* nonces of the peer's payloads that do not parse as a message
  MaxChunk,     \* bound: highest nonce of a chunk the peer sealed
  MaxCalls      \* bound: number of calls

ASSUME ThreadsAssumption == Nil \notin Threads
ASSUME ObjectsAssumption ==
  /\ Encoders \cap Decoders = {}
  /\ Nil \notin Encoders \cup Decoders
ASSUME RoleAssumption == Role \in {"initiator", "responder"}
ASSUME OperationsAssumption ==
  Operations \subseteq {"handshake", "encode", "try_decode", "ffi_try_decode", "buffer_size"}
ASSUME ExclusiveAssumption == Exclusive \in BOOLEAN
ASSUME BoundsAssumption == MaxCalls \in Nat /\ MaxChunk \in Nat /\ BadPayloads \subseteq Nat

VARIABLES
  codec,        \* Sv2CodecState.inner
  encLock,      \* owner of Sv2Encoder.inner
  decLock,      \* owner of Sv2Decoder.inner
  sizeLock,     \* owner of Sv2Decoder.buffer_size
  poisoned,     \* decoders whose two mutexes a panic has poisoned
  inner,        \* what Sv2Decoder.inner holds
  bufferSize,   \* what Sv2Decoder.buffer_size holds
  pc,           \* where each thread stands
  obj,          \* the encoder or decoder of the call
  data,         \* the bytes the call was given
  viaC,         \* the call came through sv2_try_decode of ffi.rs
  local,        \* the clone of the codec state the call works on
  ret,          \* what the last call of the thread returned
  calls,        \* calls made so far (bounded by MaxCalls)
  emitted,      \* history: the nonce of each frame encode returned, in order
  delivered,    \* history: the nonce of each payload try_decode returned, in order
  failed        \* history: decoders one of whose calls ended in a fatal error

objects == <<encLock, decLock, sizeLock, poisoned, inner, bufferSize>>
thread  == <<pc, obj, data, viaC, local, ret>>
history == <<emitted, delivered, failed>>
vars    == <<codec, objects, thread, calls, history>>

-----------------------------------------------------------------------------
(* The library's cipher state and the bytes on the wire.                   *)

\* codec_sv2's State, reduced to what src/ tells apart.  send and recv are
\* the nonces of the two ciphers of the transport phase; opened says that the
\* initiator's first handshake message has been produced.
CodecStates == [phase: {"handshake", "transport"}, opened: BOOLEAN, send: Nat, recv: Nat]

NewState == [phase |-> "handshake", opened |-> FALSE, send |-> 0, recv |-> 0]

Transport(s) == [s EXCEPT !.phase = "transport"]

\* Lengths a caller can be asked for: nothing, a sealed header, a sealed payload.
Header  == 1
Payload == 2
Sizes   == {0, Header, Payload}

\* The peer seals a frame as a header chunk and a payload chunk, with
\* consecutive nonces: chunk n is a header iff n is even.
Forged   == -1
Chunk(n) == [size |-> IF n % 2 = 0 THEN Header ELSE Payload, nonce |-> n]
NoData   == [size |-> 0, nonce |-> Forged]
Inputs   == {NoData} \cup {[size |-> s, nonce |-> Forged] : s \in {Header, Payload}}
                     \cup {Chunk(n) : n \in 0 .. MaxChunk}

\* codec_sv2's decoder: how many bytes writable() offers, and whether its
\* buffers still hold what the peer sent.
NewDecoder == [want |-> 0, intact |-> TRUE]

\* next_frame of the library, once the bytes are in its buffer: the possible
\* outcomes, each with the decoder and the receive nonce it leaves behind.
Outcome(code, want, intact, recv) ==
  [code |-> code, want |-> want, intact |-> intact, recv |-> recv]

NextFrame(dec, bytes, s) ==
  IF s.phase # "transport"
    THEN {Outcome("error", dec.want, dec.intact, s.recv),
          Outcome("panic", dec.want, dec.intact, s.recv)}
  ELSE IF ~dec.intact
    THEN {Outcome("error", 0, FALSE, s.recv),
          Outcome("missing", Header, FALSE, s.recv),
          Outcome("missing", Payload, FALSE, s.recv)}
  ELSE IF bytes.size = 0
    THEN IF dec.want = 0 THEN {Outcome("missing", Header, TRUE, s.recv)}
                         ELSE {Outcome("missing", dec.want, TRUE, s.recv)}
  ELSE IF bytes.nonce # s.recv
    THEN {Outcome("error", 0, FALSE, s.recv)}
  ELSE IF dec.want = Header
    THEN {Outcome("missing", Payload, TRUE, s.recv + 1)}
  ELSE {Outcome("frame", 0, TRUE, s.recv + 1)}

-----------------------------------------------------------------------------
(* Calls.                                                                  *)

Result(code, missing) == [code |-> code, missing |-> missing]

Init ==
  /\ codec      = NewState
  /\ encLock    = [e \in Encoders |-> Nil]
  /\ decLock    = [d \in Decoders |-> Nil]
  /\ sizeLock   = [d \in Decoders |-> Nil]
  /\ poisoned   = {}
  /\ inner      = [d \in Decoders |-> NewDecoder]
  /\ bufferSize = [d \in Decoders |-> 0]
  /\ pc         = [t \in Threads |-> "idle"]
  /\ obj        = [t \in Threads |-> Nil]
  /\ data       = [t \in Threads |-> NoData]
  /\ viaC       = [t \in Threads |-> FALSE]
  /\ local      = [t \in Threads |-> NewState]
  /\ ret        = [t \in Threads |-> Result("none", 0)]
  /\ calls      = 0
  /\ emitted    = <<>>
  /\ delivered  = <<>>
  /\ failed     = {}

\* A thread outside any call may make another one.  The examples have one
\* thread per codec state, which is Exclusive; the interface allows more.
MayCall(t) ==
  /\ pc[t] = "idle"
  /\ calls < MaxCalls
  /\ Exclusive => \A u \in Threads : pc[u] = "idle"

Call(t, label, o, bytes, c) ==
  /\ MayCall(t)
  /\ calls' = calls + 1
  /\ pc'    = [pc EXCEPT ![t] = label]
  /\ obj'   = [obj EXCEPT ![t] = o]
  /\ data'  = [data EXCEPT ![t] = bytes]
  /\ viaC'  = [viaC EXCEPT ![t] = c]
  /\ UNCHANGED <<codec, objects, local, ret, history>>

Goto(t, label) == pc' = [pc EXCEPT ![t] = label]

\* The call is over: its arguments and its clone are dropped.
Return(t, r) ==
  /\ ret'   = [ret EXCEPT ![t] = r]
  /\ pc'    = [pc EXCEPT ![t] = "idle"]
  /\ obj'   = [obj EXCEPT ![t] = Nil]
  /\ data'  = [data EXCEPT ![t] = NoData]
  /\ viaC'  = [viaC EXCEPT ![t] = FALSE]
  /\ local' = [local EXCEPT ![t] = NewState]

-----------------------------------------------------------------------------
(* The handshake: each call is one critical section of the state mutex.    *)

HandshakeCall(t, newState, code) ==
  /\ "handshake" \in Operations
  /\ MayCall(t)
  /\ calls' = calls + 1
  /\ codec' = newState
  /\ ret'   = [ret EXCEPT ![t] = Result(code, 0)]
  /\ UNCHANGED <<objects, pc, obj, data, viaC, local, history>>

Handshaking(role) == codec.phase = "handshake" /\ Role = role

\* step_0: only an initiator that is still handshaking has a first message.
Step0(t) ==
  \/ Handshaking("initiator") /\ HandshakeCall(t, [codec EXCEPT !.opened = TRUE], "ok")
  \/ ~Handshaking("initiator") /\ HandshakeCall(t, codec, "handshake_error")

\* step_1: a frame of the wrong length or one the library refuses leaves the
\* state alone; a good one replaces it by the transport state.
Step1(t) ==
  \/ Handshaking("responder") /\ HandshakeCall(t, Transport(codec), "ok")
  \/ HandshakeCall(t, codec, "handshake_error")

\* step_2: the same for the initiator, whose frame must answer step_0.
Step2(t) ==
  \/ Handshaking("initiator") /\ codec.opened /\ HandshakeCall(t, Transport(codec), "ok")
  \/ HandshakeCall(t, codec, "handshake_error")

HandshakeComplete(t) ==
  HandshakeCall(t, codec, IF codec.phase = "transport" THEN "complete" ELSE "incomplete")

-----------------------------------------------------------------------------
(* Sv2Encoder::encode.                                                     *)

EncodeCall(t, e) == "encode" \in Operations /\ Call(t, "e_lock", e, NoData, FALSE)

EncodeLock(t) ==
  /\ pc[t] = "e_lock"
  /\ encLock[obj[t]] = Nil
  /\ encLock' = [encLock EXCEPT ![obj[t]] = t]
  /\ Goto(t, "e_clone")
  /\ UNCHANGED <<codec, decLock, sizeLock, poisoned, inner, bufferSize,
                 obj, data, viaC, local, ret, calls, history>>

\* An early return: the encoder's guard is dropped, nothing is published.
EncodeError(t) ==
  /\ encLock' = [encLock EXCEPT ![obj[t]] = Nil]
  /\ Return(t, Result("encode_error", 0))
  /\ UNCHANGED <<codec, decLock, sizeLock, poisoned, inner, bufferSize, calls, history>>

\* sv2_message_to_inner or the conversion to a frame refuses the message.
EncodeRefuse(t) == pc[t] = "e_clone" /\ EncodeError(t)

EncodeClone(t) ==
  /\ pc[t] = "e_clone"
  /\ local' = [local EXCEPT ![t] = codec]
  /\ Goto(t, "e_work")
  /\ UNCHANGED <<codec, objects, obj, data, viaC, ret, calls, history>>

\* Mutant: a clone without a cipher is published like any other.
EncodeSealUnchecked(t) ==
  /\ pc[t] = "e_work"
  /\ local' = [local EXCEPT ![t].send = @ + 2]
  /\ Goto(t, "e_publish")
  /\ UNCHANGED <<codec, objects, obj, data, viaC, ret, calls, history>>

\* The library has no cipher before the transport phase ...
EncodeUnready(t) == pc[t] = "e_work" /\ local[t].phase # "transport" /\ EncodeError(t)

\* ... and then seals the frame with the clone's: one nonce for the header and
\* one for the payload.
EncodeSeal(t) ==
  /\ pc[t] = "e_work"
  /\ local[t].phase = "transport"
  /\ local' = [local EXCEPT ![t].send = @ + 2]
  /\ Goto(t, "e_publish")
  /\ UNCHANGED <<codec, objects, obj, data, viaC, ret, calls, history>>

\* Mutant: the clone is never written back.
EncodePublishNothing(t) ==
  /\ pc[t] = "e_publish"
  /\ emitted' = Append(emitted, local[t].send - 2)
  /\ encLock' = [encLock EXCEPT ![obj[t]] = Nil]
  /\ Return(t, Result("ok", 0))
  /\ UNCHANGED <<codec, decLock, sizeLock, poisoned, inner, bufferSize, calls, delivered, failed>>

\* "Update the original state with changes", and return the bytes.
EncodePublish(t) ==
  /\ pc[t] = "e_publish"
  /\ codec'   = local[t]
  /\ emitted' = Append(emitted, local[t].send - 2)
  /\ encLock' = [encLock EXCEPT ![obj[t]] = Nil]
  /\ Return(t, Result("ok", 0))
  /\ UNCHANGED <<decLock, sizeLock, poisoned, inner, bufferSize, calls, delivered, failed>>

-----------------------------------------------------------------------------
(* Sv2Decoder::try_decode, and sv2_try_decode of the C ABI around it.      *)

TryDecodeCall(t, d, bytes) ==
  \/ "try_decode" \in Operations /\ Call(t, "d_lock", d, bytes, FALSE)
  \/ "ffi_try_decode" \in Operations /\ Call(t, "d_lock", d, bytes, TRUE)

\* Mutant: a poisoned mutex is tried again instead of being reported.
DecodeLockRetry(t) ==
  /\ pc[t] = "d_lock"
  /\ decLock[obj[t]] = Nil
  /\ obj[t] \in poisoned
  /\ UNCHANGED vars

\* A panic inside an earlier call has poisoned the mutex.
DecodePoisoned(t) ==
  /\ pc[t] = "d_lock"
  /\ decLock[obj[t]] = Nil
  /\ obj[t] \in poisoned
  /\ Return(t, Result("lock_error", 0))
  /\ UNCHANGED <<codec, objects, calls, history>>

DecodeLock(t) ==
  /\ pc[t] = "d_lock"
  /\ decLock[obj[t]] = Nil
  /\ obj[t] \notin poisoned
  /\ decLock' = [decLock EXCEPT ![obj[t]] = t]
  /\ Goto(t, "d_size")
  /\ UNCHANGED <<codec, encLock, sizeLock, poisoned, inner, bufferSize,
                 obj, data, viaC, local, ret, calls, history>>

DecodeSizeLock(t) ==
  /\ pc[t] = "d_size"
  /\ sizeLock[obj[t]] = Nil
  /\ sizeLock' = [sizeLock EXCEPT ![obj[t]] = t]
  /\ Goto(t, "d_clone")
  /\ UNCHANGED <<codec, encLock, decLock, poisoned, inner, bufferSize,
                 obj, data, viaC, local, ret, calls, history>>

DecodeClone(t) ==
  /\ pc[t] = "d_clone"
  /\ local' = [local EXCEPT ![t] = codec]
  /\ Goto(t, "d_work")
  /\ UNCHANGED <<codec, objects, obj, data, viaC, ret, calls, history>>

ReleaseDecoder(d) ==
  /\ decLock'  = [decLock EXCEPT ![d] = Nil]
  /\ sizeLock' = [sizeLock EXCEPT ![d] = Nil]

\* A return that publishes nothing: the clone and the two guards are dropped.
DecodeError(t, code, dec) ==
  /\ ReleaseDecoder(obj[t])
  /\ inner'  = [inner EXCEPT ![obj[t]] = dec]
  /\ failed' = failed \cup {obj[t]}
  /\ Return(t, Result(code, 0))
  /\ UNCHANGED <<codec, encLock, bufferSize, calls, emitted, delivered>>

\* The bytes do not fill writable() exactly.  Whether the library counts the
\* region it has just handed out as filled is not visible here: both cases.
DecodeWrongSize(t) ==
  /\ pc[t] = "d_work"
  /\ data[t].size \notin {0, inner[obj[t]].want}
  /\ \E intact \in IF inner[obj[t]].want = 0 THEN {inner[obj[t]].intact}
                   ELSE {inner[obj[t]].intact, FALSE} :
       DecodeError(t, "invalid_data_size", [inner[obj[t]] EXCEPT !.intact = intact])
  /\ UNCHANGED poisoned

\* The bytes, if any, fill writable() and are copied into it.
Filled(t) == pc[t] = "d_work" /\ data[t].size \in {0, inner[obj[t]].want}

Outcomes(t) == NextFrame(inner[obj[t]], data[t], local[t])
After(o)    == [want |-> o.want, intact |-> o.intact]

\* A frame whose header or payload is not that of a message.
Unparsable(t, o) == o.code = "frame" /\ data[t].nonce \in BadPayloads

\* next_frame fails, or the frame it returns is no message.
DecodeFail(t) ==
  /\ Filled(t)
  /\ \E o \in Outcomes(t) :
       /\ o.code = "error" \/ Unparsable(t, o)
       /\ DecodeError(t, "decode_error", After(o))
  /\ UNCHANGED poisoned

\* A panic unwinds through both guards and poisons their mutexes.
DecodePanic(t) ==
  /\ Filled(t) /\ ~viaC[t]
  /\ \E o \in Outcomes(t) : o.code = "panic" /\ DecodeError(t, "panic", After(o))
  /\ poisoned' = poisoned \cup {obj[t]}

\* Under the C ABI it may not leave the extern "C" function: the process
\* aborts, and every thread with it.
DecodeAbort(t) ==
  /\ Filled(t) /\ viaC[t]
  /\ \E o \in Outcomes(t) : o.code = "panic"
  /\ pc' = [u \in Threads |-> "aborted"]
  /\ UNCHANGED <<codec, objects, obj, data, viaC, local, ret, calls, history>>

\* A message, or a piece of one.
DecodeAccept(t) ==
  /\ Filled(t)
  /\ \E o \in Outcomes(t) :
       /\ o.code \in {"missing", "frame"} /\ ~Unparsable(t, o)
       /\ inner' = [inner EXCEPT ![obj[t]] = After(o)]
       /\ local' = [local EXCEPT ![t].recv = o.recv]
       /\ Goto(t, IF o.code = "frame" THEN "d_deliver" ELSE "d_missing")
  /\ UNCHANGED <<codec, encLock, decLock, sizeLock, poisoned, bufferSize,
                 obj, data, viaC, ret, calls, history>>

\* A complete message: publish the clone, reset the buffer size, return it.
DecodeDeliver(t) ==
  /\ pc[t] = "d_deliver"
  /\ codec'      = local[t]
  /\ bufferSize' = [bufferSize EXCEPT ![obj[t]] = 0]
  /\ delivered'  = Append(delivered, data[t].nonce)
  /\ ReleaseDecoder(obj[t])
  /\ Return(t, Result("ok", 0))
  /\ UNCHANGED <<encLock, poisoned, inner, calls, emitted, failed>>

\* More bytes are needed: write the clone back, note how many, return
\* MissingBytes.  The C ABI then asks the decoder again how many they are.
MissingWith(t, state, size) ==
  /\ pc[t] = "d_missing"
  /\ codec'      = state
  /\ bufferSize' = [bufferSize EXCEPT ![obj[t]] = size]
  /\ ReleaseDecoder(obj[t])
  /\ IF viaC[t]
       THEN /\ local' = [local EXCEPT ![t] = NewState]
            /\ Goto(t, "b_size")
            /\ UNCHANGED <<obj, data, viaC, ret>>
       ELSE Return(t, Result("missing_bytes", size))
  /\ UNCHANGED <<encLock, poisoned, inner, calls, history>>

\* Mutants: the buffer size is left as it was, is what remains after the bytes
\* just given, or the clone is not written back.
MissingStaleSize(t)   == MissingWith(t, local[t], bufferSize[obj[t]])
MissingRemainder(t)   == MissingWith(t, local[t], inner[obj[t]].want - data[t].size)
MissingUnpublished(t) == MissingWith(t, codec, inner[obj[t]].want)

DecodeMissing(t) == MissingWith(t, local[t], inner[obj[t]].want)

-----------------------------------------------------------------------------
(* Sv2Decoder::buffer_size, called by itself or from sv2_try_decode.       *)

BufferSizeCall(t, d) == "buffer_size" \in Operations /\ Call(t, "b_size", d, NoData, FALSE)

BufferSize(t) ==
  /\ pc[t] = "b_size"
  /\ sizeLock[obj[t]] = Nil
  /\ LET size == IF obj[t] \in poisoned THEN 0 ELSE bufferSize[obj[t]]
         code == IF viaC[t] THEN "missing_bytes"
                 ELSE IF obj[t] \in poisoned THEN "lock_error" ELSE "ok"
     IN Return(t, Result(code, size))
  /\ UNCHANGED <<codec, objects, calls, history>>

-----------------------------------------------------------------------------
(* The specification.                                                      *)

HandshakeStep(t) == Step0(t) \/ Step1(t) \/ Step2(t) \/ HandshakeComplete(t)

EncodeStep(t) ==
  \/ EncodeLock(t) \/ EncodeRefuse(t) \/ EncodeClone(t) \/ EncodeUnready(t)
  \/ EncodeSeal(t) \/ EncodePublish(t)

DecodeStep(t) ==
  \/ DecodePoisoned(t) \/ DecodeLock(t) \/ DecodeSizeLock(t) \/ DecodeClone(t)
  \/ DecodeWrongSize(t) \/ DecodeFail(t) \/ DecodePanic(t) \/ DecodeAbort(t)
  \/ DecodeAccept(t) \/ DecodeDeliver(t) \/ DecodeMissing(t)

\* What a thread that is inside a call does next.
Run(t) == EncodeStep(t) \/ DecodeStep(t) \/ BufferSize(t)

Begin(t) ==
  \/ HandshakeStep(t)
  \/ \E e \in Encoders : EncodeCall(t, e)
  \/ \E d \in Decoders : BufferSizeCall(t, d) \/ \E bytes \in Inputs : TryDecodeCall(t, d, bytes)

\* Every call the bound allows has been made and has returned.
Done ==
  /\ calls = MaxCalls
  /\ \A t \in Threads : pc[t] = "idle"
  /\ UNCHANGED vars

\* Nothing runs once the process has aborted.
Aborted == (\A t \in Threads : pc[t] = "aborted") /\ UNCHANGED vars

Next == (\E t \in Threads : Begin(t) \/ Run(t)) \/ Done \/ Aborted

Spec == Init /\ [][Next]_vars

\* The operating system runs every thread that can run.  Nothing is assumed
\* of the order in which a mutex is granted.
FairSpec == Spec /\ \A t \in Threads : WF_vars(Run(t))

-----------------------------------------------------------------------------
(* Properties.                                                             *)

Labels == {"idle", "e_lock", "e_clone", "e_work", "e_publish", "d_lock", "d_size",
           "d_clone", "d_work", "d_deliver", "d_missing", "b_size", "aborted"}

Codes == {"none", "ok", "complete", "incomplete", "handshake_error", "encode_error",
          "lock_error", "missing_bytes", "invalid_data_size", "decode_error", "panic"}

\* Every variable has its type, and a call works on an object of its own kind.
TypeOK ==
  /\ codec \in CodecStates
  /\ encLock \in [Encoders -> Threads \cup {Nil}]
  /\ decLock \in [Decoders -> Threads \cup {Nil}]
  /\ sizeLock \in [Decoders -> Threads \cup {Nil}]
  /\ poisoned \subseteq Decoders
  /\ inner \in [Decoders -> [want: Sizes, intact: BOOLEAN]]
  /\ bufferSize \in [Decoders -> Sizes]
  /\ pc \in [Threads -> Labels]
  /\ obj \in [Threads -> Encoders \cup Decoders \cup {Nil}]
  /\ data \in [Threads -> [size: Sizes, nonce: Nat \cup {Forged}]]
  /\ viaC \in [Threads -> BOOLEAN]
  /\ local \in [Threads -> CodecStates]
  /\ ret \in [Threads -> [code: Codes, missing: Sizes]]
  /\ calls \in Nat
  /\ emitted \in Seq(Nat)
  /\ delivered \in Seq(Nat \cup {Forged})
  /\ failed \subseteq Decoders

\* However the calls interleave, no clone written back late ever returns a
\* connection from the transport phase to the handshake (the two
\* "Update the original state" blocks against step_1 and step_2).
PhaseNeverReverts ==
  [][codec.phase = "transport" => codec'.phase = "transport"]_vars

\* What buffer_size() answers is what try_decode will accept next, for every
\* decoder none of whose calls has failed: the two fields are guarded by two
\* mutexes and change in different steps of the call.
BufferSizeIsCurrent ==
  \A d \in Decoders :
    sizeLock[d] = Nil /\ d \notin failed => bufferSize[d] = inner[d].want

\* When no call is running the receive nonce accounts for every chunk the
\* connection accepted: two for a message delivered, and one for a header
\* some decoder has opened.  An opened frame is lost only by a failure.
ReceiveAccountsForFrames ==
  (\A t \in Threads : pc[t] = "idle") =>
    /\ codec.recv \in {2 * Len(delivered), 2 * Len(delivered) + 1}
    /\ (failed = {}) => (codec.recv % 2 = 1 <=> \E d \in Decoders : inner[d].want = Payload)

\* A call of sv2_try_decode that answers ERR_MISSING_BYTES says how many bytes
\* are missing: zero would read as "fatal" to the Go callers.
MissingIsPositive ==
  \A t \in Threads : ret[t].code = "missing_bytes" => ret[t].missing > 0

\* Every call returns: no cycle of mutexes, no guard kept by an early return.
CallsReturn == \A t \in Threads : pc[t] # "idle" ~> pc[t] = "idle"

\* The codec implements what an endpoint promises, whatever bytes it is fed.
Endpoint == INSTANCE SecureEndpoint WITH
  phase <- codec.phase, emitted <- emitted,
  opened <- (codec.recv % 2 = 1), delivered <- delivered
ImplementsEndpoint == Endpoint!Spec

\* "Update the original state with changes" (encoder.rs:60, decoder.rs:99 and
\* 112): writing a clone back adds this call's changes to the shared state and
\* so never takes back those of another call.
UpdatesAreKept ==
  [][codec'.send >= codec.send /\ codec'.recv >= codec.recv]_vars

=============================================================================

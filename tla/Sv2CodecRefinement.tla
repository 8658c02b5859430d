------------------------- MODULE Sv2CodecRefinement -------------------------
(***************************************************************************)
(* Callers that let one call end before the next begins (Exclusive) get    *)
(* what SecureEndpoint promises, for any number of threads, encoders,      *)
(* decoders and calls, and whatever bytes the decoders are fed.            *)
(***************************************************************************)
EXTENDS Sv2CodecProofs

USE DEF Goto, Return, Result, objects, history

\* At most one call is running.
Stopped == {"idle", "aborted"}
OneCall == \A t, u \in Threads : pc[t] \notin Stopped /\ pc[u] \notin Stopped => t = u

\* How far the clone of the running call is ahead of the shared state.
Ahead(t, sent, received) ==
  /\ local[t].phase = codec.phase
  /\ local[t].send = codec.send + sent
  /\ local[t].recv = codec.recv + received

ClonesAhead ==
  \A t \in Threads :
    /\ pc[t] \in {"e_work", "d_work"} => Ahead(t, 0, 0)
    /\ pc[t] = "e_publish" => Ahead(t, 2, 0)
    /\ pc[t] = "d_deliver" =>
         codec.recv % 2 = 1 /\ data[t].nonce = codec.recv /\ Ahead(t, 0, 1)
    /\ pc[t] = "d_missing" => Ahead(t, 0, 0) \/ (codec.recv % 2 = 0 /\ Ahead(t, 0, 1))

\* A chunk that the peer sealed has the length of what it seals.
ChunksSized == \A t \in Threads : data[t].nonce \in Nat => data[t].size = Chunk(data[t].nonce).size

\* The nonces account for every frame sent and every message received.
Counted ==
  /\ codec.send = 2 * Len(emitted)
  /\ codec.recv \in {2 * Len(delivered), 2 * Len(delivered) + 1}

SerialInv == Exclusive /\ OneCall /\ ClonesAhead /\ ChunksSized /\ Counted

LEMMA Parity ==
  /\ \A n \in Nat : n % 2 \in {0, 1} /\ (n + 1) % 2 = 1 - (n % 2)
  /\ \A n \in Nat : (2 * n) % 2 = 0 /\ (2 * n + 1) % 2 = 1
  OBVIOUS

LEMMA LenNat == Inv => Len(emitted) \in Nat /\ Len(delivered) \in Nat
  BY DEF Inv, TypeOK

LEMMA InitSerial == Exclusive /\ Init => SerialInv
  BY DEF Init, SerialInv, OneCall, Stopped, ClonesAhead, ChunksSized,
     Counted, NewState, NoData, Forged

\* A call that begins finds every thread idle.
LEMMA CallSerial ==
  ASSUME Inv, SerialInv, NEW t \in Threads, NEW label, NEW o, NEW bytes \in Inputs,
         NEW c \in BOOLEAN, label \in {"e_lock", "d_lock", "b_size"},
         Call(t, label, o, bytes, c)
  PROVE  SerialInv'
<1>1. \A u \in Threads : pc[u] = "idle"
  BY DEF SerialInv, Call, MayCall
<1>2. bytes.nonce \in Nat => bytes.size = Chunk(bytes.nonce).size
  BY BoundsAssumption DEF Inputs, Chunk, NoData, Forged
<1>3. ChunksSized'
  BY <1>2 DEF Call, SerialInv, ChunksSized, Inv, TypeOK
<1>4. OneCall' /\ ClonesAhead'
  <2>1. \A u \in Threads : pc'[u] = IF u = t THEN label ELSE "idle"
    BY <1>1 DEF Call, Inv, TypeOK
  <2> QED
    BY <2>1 DEF OneCall, Stopped, ClonesAhead
<1>5. Counted'
  BY DEF Call, SerialInv, Counted
<1> QED
  BY <1>3, <1>4, <1>5 DEF SerialInv, Call

LEMMA BeginSerial ==
  ASSUME Inv, SerialInv, NEW t \in Threads, Begin(t) PROVE SerialInv'
<1>1. \A u \in Threads : pc[u] = "idle"
  BY DEF SerialInv, Begin, HandshakeStep, Step0, Step1, Step2, HandshakeComplete,
     HandshakeCall, EncodeCall, BufferSizeCall, TryDecodeCall, Call, MayCall
<1>2. CASE HandshakeStep(t)
  <2>1. /\ UNCHANGED <<pc, data, local, emitted, delivered>>
        /\ codec'.send = codec.send /\ codec'.recv = codec.recv
    BY <1>2 DEF HandshakeStep, Step0, Step1, Step2, HandshakeComplete, HandshakeCall,
       Transport, Inv, TypeOK, CodecStates
  <2>2. OneCall' /\ ClonesAhead'
    BY <1>1, <2>1 DEF OneCall, Stopped, ClonesAhead
  <2>3. ChunksSized' /\ Counted'
    BY <2>1 DEF SerialInv, ChunksSized, Counted
  <2> QED
    BY <2>2, <2>3 DEF SerialInv
<1>4. NoData \in Inputs
  BY DEF Inputs
<1>5. CASE \E e \in Encoders : EncodeCall(t, e)
  BY <1>4, <1>5, CallSerial DEF EncodeCall
<1>6. CASE \E d \in Decoders : BufferSizeCall(t, d)
  BY <1>4, <1>6, CallSerial DEF BufferSizeCall
<1>7. CASE \E d \in Decoders : \E bytes \in Inputs : TryDecodeCall(t, d, bytes)
  BY <1>7, CallSerial DEF TryDecodeCall
<1> QED
  BY <1>2, <1>5, <1>6, <1>7 DEF Begin

\* What next_frame tells of the nonce of the bytes it was given.
LEMMA OutcomeParity ==
  ASSUME Inv, SerialInv, NEW t \in Threads, obj[t] \in Decoders, Filled(t),
         NEW o \in Outcomes(t)
  PROVE  /\ o.code = "frame" =>
              codec.recv % 2 = 1 /\ data[t].nonce = codec.recv /\ o.recv = codec.recv + 1
         /\ o.code = "missing" =>
              o.recv = codec.recv \/ (codec.recv % 2 = 0 /\ o.recv = codec.recv + 1)
<1> DEFINE dec == inner[obj[t]]
<1>1. /\ local[t].recv = codec.recv /\ codec.recv \in Nat
      /\ dec.want \in Sizes /\ data[t].size \in {0, dec.want}
      /\ data[t].nonce \in Nat => data[t].size = Chunk(data[t].nonce).size
  BY DEF SerialInv, ClonesAhead, Ahead, ChunksSized, Filled, Inv, TypeOK, CodecStates
<1>2. o \in NextFrame(dec, data[t], local[t])
  BY DEF Outcomes
<1> HIDE DEF dec
<1>3. CASE local[t].phase # "transport" \/ ~dec.intact \/ data[t].size = 0
           \/ data[t].nonce # local[t].recv
  BY <1>1, <1>2, <1>3 DEF NextFrame, Outcome
<1>4. CASE local[t].phase = "transport" /\ dec.intact /\ data[t].size # 0
           /\ data[t].nonce = local[t].recv
  <2>1. codec.recv % 2 \in {0, 1}
    BY <1>1, Parity
  <2>2. dec.want = Header => codec.recv % 2 = 0
    BY <1>1, <1>4, <2>1 DEF Chunk, Header, Payload
  <2>3. dec.want # Header => codec.recv % 2 = 1
    BY <1>1, <1>4, <2>1 DEF Chunk, Header, Payload, Sizes
  <2> QED
    BY <1>1, <1>2, <1>4, <2>2, <2>3 DEF NextFrame, Outcome
<1> QED
  BY <1>3, <1>4

\* A step that no other call and no caller can see.
Quiet == UNCHANGED <<codec, emitted, delivered>>

\* Such a step of the running call returns, waits for a mutex, takes its clone,
\* or leaves the clone as far ahead as the next step expects.
LEMMA QuietSerial ==
  ASSUME Inv, SerialInv, NEW t \in Threads, pc[t] \notin Stopped, Quiet,
         \A u \in Threads \ {t} : pc'[u] = pc[u] /\ data'[u] = data[u] /\ local'[u] = local[u],
         data'[t] \in {data[t], NoData},
         \/ pc'[t] \in {"idle", "d_size", "d_clone", "e_clone", "b_size"}
         \/ pc'[t] \in {"e_work", "d_work"} /\ local'[t] = codec
         \/ pc'[t] = "e_publish" /\ Ahead(t, 2, 0)'
         \/ /\ pc'[t] = "d_deliver" /\ Ahead(t, 0, 1)'
            /\ codec.recv % 2 = 1 /\ data'[t].nonce = codec.recv
         \/ /\ pc'[t] = "d_missing"
            /\ Ahead(t, 0, 0)' \/ (codec.recv % 2 = 0 /\ Ahead(t, 0, 1)')
  PROVE  SerialInv'
<1>1. \A u \in Threads \ {t} : pc[u] \in Stopped /\ pc'[u] \in Stopped
  BY DEF SerialInv, OneCall
<1>2. OneCall'
  BY <1>1 DEF OneCall
<1>3. ChunksSized'
  BY DEF SerialInv, ChunksSized, NoData, Forged
<1>4. Counted'
  BY DEF SerialInv, Counted, Quiet
<1>5. local'[t] = codec => Ahead(t, 0, 0)'
  BY DEF Quiet, Ahead, Inv, TypeOK, CodecStates
<1>6. ClonesAhead'
  BY <1>1, <1>5 DEF ClonesAhead, Quiet, Stopped
<1> QED
  BY <1>2, <1>3, <1>4, <1>6 DEF SerialInv

LEMMA EncodeSerial ==
  ASSUME Inv, SerialInv, NEW t \in Threads, EncodeStep(t), ~EncodePublish(t)
  PROVE  SerialInv' /\ Quiet
<1>1. CASE EncodeLock(t) \/ EncodeClone(t)
  <2>1. Quiet /\ pc[t] \notin Stopped
    BY <1>1 DEF EncodeLock, EncodeClone, Quiet, Stopped
  <2> QED
    BY <1>1, <2>1, QuietSerial DEF EncodeLock, EncodeClone, Inv, TypeOK
<1>2. CASE EncodeRefuse(t) \/ EncodeUnready(t)
  <2>1. Quiet /\ pc[t] \notin Stopped
    BY <1>2 DEF EncodeRefuse, EncodeUnready, EncodeError, Quiet, Stopped
  <2> QED
    BY <1>2, <2>1, QuietSerial DEF EncodeRefuse, EncodeUnready, EncodeError, Inv, TypeOK
<1>3. CASE EncodeSeal(t)
  <2>1. Quiet /\ pc[t] \notin Stopped
    BY <1>3 DEF EncodeSeal, Quiet, Stopped
  <2>2. Ahead(t, 0, 0) /\ local[t] \in CodecStates
    BY <1>3 DEF EncodeSeal, SerialInv, ClonesAhead, Inv, TypeOK
  <2>3. local'[t] = [local[t] EXCEPT !.send = local[t].send + 2] /\ codec' = codec
    BY <1>3 DEF EncodeSeal, Inv, TypeOK
  <2>4. /\ local'[t].phase = local[t].phase /\ local'[t].recv = local[t].recv
        /\ local'[t].send = local[t].send + 2
    BY <2>2, <2>3 DEF CodecStates
  <2>5. codec.send \in Nat
    BY DEF Inv, TypeOK, CodecStates
  <2>6. Ahead(t, 2, 0)'
    BY <2>2, <2>3, <2>4, <2>5 DEF Ahead
  <2> QED
    BY <1>3, <2>1, <2>6, QuietSerial DEF EncodeSeal, Inv, TypeOK
<1> QED
  BY <1>1, <1>2, <1>3 DEF EncodeStep

LEMMA DecodeSerial ==
  ASSUME Inv, SerialInv, NEW t \in Threads, DecodeStep(t) \/ BufferSize(t),
         ~DecodeDeliver(t), ~DecodeMissing(t)
  PROVE  SerialInv' /\ Quiet
<1>1. CASE DecodeLock(t) \/ DecodeSizeLock(t) \/ DecodeClone(t)
  <2>1. Quiet /\ pc[t] \notin Stopped
    BY <1>1 DEF DecodeLock, DecodeSizeLock, DecodeClone, Quiet, Stopped
  <2> QED
    BY <1>1, <2>1, QuietSerial DEF DecodeLock, DecodeSizeLock, DecodeClone, Inv, TypeOK
<1>2. CASE DecodePoisoned(t) \/ BufferSize(t)
  <2>1. Quiet /\ pc[t] \notin Stopped
    BY <1>2 DEF DecodePoisoned, BufferSize, Quiet, Stopped
  <2> QED
    BY <1>2, <2>1, QuietSerial DEF DecodePoisoned, BufferSize, Inv, TypeOK
<1>2a. CASE DecodeAbort(t)
  <2>1. /\ \A u \in Threads : pc'[u] = "aborted"
        /\ UNCHANGED <<data, local>> /\ Quiet
    BY <1>2a DEF DecodeAbort, Quiet
  <2>2. OneCall' /\ ClonesAhead'
    BY <2>1 DEF OneCall, Stopped, ClonesAhead
  <2> QED
    BY <2>1, <2>2 DEF SerialInv, ChunksSized, Counted, Quiet
<1>3. CASE DecodeWrongSize(t) \/ DecodeFail(t) \/ DecodePanic(t)
  <2>1. /\ Quiet /\ pc[t] \notin Stopped
        /\ pc' = [pc EXCEPT ![t] = "idle"]
        /\ data' = [data EXCEPT ![t] = NoData]
        /\ local' = [local EXCEPT ![t] = NewState]
    BY <1>3 DEF DecodeWrongSize, DecodeFail, DecodePanic, Filled, DecodeError, Quiet, Stopped
  <2> QED
    BY <2>1, QuietSerial DEF Inv, TypeOK
<1>4. CASE DecodeAccept(t)
  <2>1. /\ Quiet /\ pc[t] \notin Stopped /\ Filled(t) /\ obj[t] \in Decoders
        /\ codec' = codec /\ data' = data
    BY <1>4 DEF DecodeAccept, Filled, Quiet, Stopped, Inv, ObjectsMatch
  <2>2. PICK o \in Outcomes(t) :
          /\ o.code \in {"missing", "frame"}
          /\ local' = [local EXCEPT ![t].recv = o.recv]
          /\ Goto(t, IF o.code = "frame" THEN "d_deliver" ELSE "d_missing")
    BY <1>4 DEF DecodeAccept
  <2>3. Ahead(t, 0, 0) /\ local[t] \in CodecStates
    BY <2>1 DEF Filled, SerialInv, ClonesAhead, Inv, TypeOK
  <2>4. local'[t] = [local[t] EXCEPT !.recv = o.recv]
    BY <2>2 DEF Inv, TypeOK
  <2>5. /\ o.recv = codec.recv => Ahead(t, 0, 0)'
        /\ o.recv = codec.recv + 1 => Ahead(t, 0, 1)'
    BY <2>1, <2>3, <2>4, OutcomeTyped DEF Ahead, CodecStates, Inv, TypeOK
  <2>6. CASE o.code = "frame"
    <3>1. pc'[t] = "d_deliver" /\ codec.recv % 2 = 1 /\ data'[t].nonce = codec.recv
          /\ Ahead(t, 0, 1)'
      BY <2>1, <2>2, <2>5, <2>6, OutcomeParity DEF Inv, TypeOK
    <3> QED
      BY <2>1, <2>2, <3>1, QuietSerial DEF Inv, TypeOK
  <2>7. CASE o.code = "missing"
    <3>1. pc'[t] = "d_missing"
          /\ (Ahead(t, 0, 0)' \/ (codec.recv % 2 = 0 /\ Ahead(t, 0, 1)'))
      BY <2>1, <2>2, <2>5, <2>7, OutcomeParity DEF Inv, TypeOK
    <3> QED
      BY <2>1, <2>2, <3>1, QuietSerial DEF Inv, TypeOK
  <2> QED
    BY <2>2, <2>6, <2>7
<1> QED
  BY <1>1, <1>2, <1>2a, <1>3, <1>4 DEF DecodeStep

\* A clone is written back: the call is over, or only has buffer_size left to read.
LEMMA PublishSerial ==
  ASSUME Inv, SerialInv, NEW t \in Threads, pc[t] \notin Stopped, codec' = local[t],
         EncodePublish(t) \/ DecodeDeliver(t) \/ DecodeMissing(t)
  PROVE  SerialInv' /\ [Endpoint!Next]_(Endpoint!vars)
<1>1. \A u \in Threads \ {t} : pc[u] \in Stopped /\ pc'[u] \in Stopped /\ data'[u] = data[u]
  BY DEF EncodePublish, DecodeDeliver, DecodeMissing, MissingWith, SerialInv, OneCall, Inv, TypeOK
<1>2. pc'[t] \in {"idle", "b_size"} /\ data'[t] \in {data[t], NoData}
  BY DEF EncodePublish, DecodeDeliver, DecodeMissing, MissingWith, Inv, TypeOK
<1>3. OneCall' /\ ClonesAhead'
  BY <1>1, <1>2 DEF OneCall, ClonesAhead, Stopped
<1>4. ChunksSized'
  BY <1>1, <1>2 DEF SerialInv, ChunksSized, NoData, Forged
<1>5. /\ codec.send \in Nat /\ codec.recv \in Nat
      /\ Len(emitted) \in Nat /\ Len(delivered) \in Nat
      /\ emitted \in Seq(Nat) /\ delivered \in Seq(Nat \cup {Forged})
      /\ local[t].phase = "transport" \/ pc[t] \notin {"e_publish", "d_deliver", "d_missing"}
  BY DEF Inv, TypeOK, CodecStates, ClonesPublishable
<1>6. CASE EncodePublish(t)
  <2>1. Ahead(t, 2, 0) /\ codec.phase = "transport"
    BY <1>5, <1>6 DEF EncodePublish, SerialInv, ClonesAhead, Ahead
  <2>2. codec'.phase = codec.phase /\ codec'.recv = codec.recv
        /\ codec'.send = codec.send + 2
    BY <1>5, <2>1 DEF Ahead
  <2>3. emitted' = Append(emitted, 2 * Len(emitted)) /\ delivered' = delivered
    BY <1>5, <1>6, <2>1 DEF EncodePublish, Ahead, SerialInv, Counted
  <2>4. Counted'
    BY <1>5, <2>2, <2>3 DEF SerialInv, Counted
  <2>5. Endpoint!Send
    BY <2>1, <2>2, <2>3 DEF Endpoint!Send
  <2> QED
    BY <1>3, <1>4, <2>4, <2>5 DEF SerialInv, Endpoint!Next
<1>7. CASE DecodeDeliver(t)
  <2>1. Ahead(t, 0, 1) /\ codec.recv % 2 = 1 /\ data[t].nonce = codec.recv
    BY <1>7 DEF DecodeDeliver, SerialInv, ClonesAhead
  <2>2. codec'.phase = codec.phase /\ codec'.recv = codec.recv + 1
        /\ codec'.send = codec.send
    BY <1>5, <2>1 DEF Ahead
  <2>3. codec.recv = 2 * Len(delivered) + 1
    BY <1>5, <2>1, Parity DEF SerialInv, Counted
  <2>4. delivered' = Append(delivered, 2 * Len(delivered) + 1) /\ emitted' = emitted
    BY <1>7, <2>1, <2>3 DEF DecodeDeliver
  <2>5. Len(delivered') = Len(delivered) + 1
    BY <1>5, <2>3, <2>4
  <2>6. Counted'
    BY <1>5, <2>2, <2>3, <2>4, <2>5 DEF SerialInv, Counted
  <2>7. codec'.recv % 2 = 0
    BY <1>5, <2>1, <2>2, Parity
  <2>8. Endpoint!Deliver
    BY <2>1, <2>2, <2>4, <2>7 DEF Endpoint!Deliver
  <2> QED
    BY <1>3, <1>4, <2>6, <2>8 DEF SerialInv, Endpoint!Next
<1>8. CASE DecodeMissing(t)
  <2>1. /\ Ahead(t, 0, 0) \/ (codec.recv % 2 = 0 /\ Ahead(t, 0, 1))
        /\ local[t].phase = "transport"
        /\ UNCHANGED <<emitted, delivered>>
    BY <1>5, <1>8 DEF DecodeMissing, MissingWith, SerialInv, ClonesAhead
  <2>2. CASE Ahead(t, 0, 0)
    <3>1. codec'.phase = codec.phase /\ codec'.send = codec.send /\ codec'.recv = codec.recv
      BY <1>5, <2>2 DEF Ahead
    <3> QED
      BY <1>3, <1>4, <2>1, <3>1 DEF SerialInv, Counted, Endpoint!vars
  <2>3. CASE codec.recv % 2 = 0 /\ Ahead(t, 0, 1)
    <3>1. codec'.phase = codec.phase /\ codec'.send = codec.send
          /\ codec'.recv = codec.recv + 1 /\ codec.phase = "transport"
      BY <1>5, <2>1, <2>3 DEF Ahead
    <3>2. codec.recv = 2 * Len(delivered)
      BY <1>5, <2>3, Parity DEF SerialInv, Counted
    <3>3. codec'.recv % 2 = 1
      <4>1. codec'.recv = codec.recv + 1
        BY <3>1
      <4>2. codec.recv % 2 = 0
        BY <2>3
      <4>3. codec.recv \in Nat
        BY <1>5
      <4> QED
        BY <4>1, <4>2, <4>3
    <3>4. Counted'
      BY <1>5, <2>1, <3>1, <3>2 DEF SerialInv, Counted
    <3>5. Endpoint!AcceptHeader
      BY <2>1, <2>3, <3>1, <3>3 DEF Endpoint!AcceptHeader
    <3> QED
      BY <1>3, <1>4, <3>4, <3>5 DEF SerialInv, Endpoint!Next
  <2> QED
    BY <2>1, <2>2, <2>3
<1> QED
  BY <1>6, <1>7, <1>8

\* A call that begins is the handshake of the endpoint, or nothing to it.
LEMMA BeginRefines ==
  ASSUME Inv, NEW t \in Threads, Begin(t) PROVE [Endpoint!Next]_(Endpoint!vars)
<1>1. CASE HandshakeStep(t)
  <2>1. /\ UNCHANGED <<emitted, delivered>>
        /\ \/ codec' = codec
           \/ codec' = [codec EXCEPT !.opened = TRUE]
           \/ codec.phase = "handshake" /\ codec' = Transport(codec)
    BY <1>1 DEF HandshakeStep, Step0, Step1, Step2, HandshakeComplete, HandshakeCall, Handshaking
  <2>2. CASE codec.phase = "handshake" /\ codec' = Transport(codec)
    <3>1. codec'.phase = "transport" /\ codec'.recv = codec.recv
      BY <2>2 DEF Transport, Inv, TypeOK, CodecStates
    <3> QED
      BY <2>1, <2>2, <3>1 DEF Endpoint!Next, Endpoint!Handshake
  <2>3. CASE codec' = codec \/ codec' = [codec EXCEPT !.opened = TRUE]
    <3>1. codec'.phase = codec.phase /\ codec'.recv = codec.recv
      BY <2>3 DEF Inv, TypeOK, CodecStates
    <3> QED
      BY <2>1, <3>1 DEF Endpoint!vars
  <2> QED
    BY <2>1, <2>2, <2>3
<1>2. CASE ~HandshakeStep(t)
  <2>1. UNCHANGED <<codec, emitted, delivered>>
    BY <1>2 DEF Begin, EncodeCall, BufferSizeCall, TryDecodeCall, Call
  <2> QED
    BY <2>1 DEF Endpoint!vars
<1> QED
  BY <1>1, <1>2

\* Every step of an exclusively used codec is a step of the endpoint.
LEMMA SerialStep ==
  ASSUME Inv, SerialInv, [Next]_vars
  PROVE  SerialInv' /\ [Endpoint!Next]_(Endpoint!vars)
<1>1. ASSUME NEW t \in Threads, Begin(t)
      PROVE  SerialInv' /\ [Endpoint!Next]_(Endpoint!vars)
  BY <1>1, BeginSerial, BeginRefines
<1>2. Quiet => [Endpoint!Next]_(Endpoint!vars)
  BY DEF Quiet, Endpoint!vars
<1>3. ASSUME NEW t \in Threads, Run(t)
      PROVE  SerialInv' /\ [Endpoint!Next]_(Endpoint!vars)
  <2>1. CASE EncodePublish(t) \/ DecodeDeliver(t) \/ DecodeMissing(t)
    <3>1. pc[t] \notin Stopped /\ codec' = local[t]
      BY <2>1 DEF EncodePublish, DecodeDeliver, DecodeMissing, MissingWith, Stopped
    <3> QED
      BY <2>1, <3>1, PublishSerial
  <2>2. CASE ~(EncodePublish(t) \/ DecodeDeliver(t) \/ DecodeMissing(t))
    BY <1>2, <1>3, <2>2, EncodeSerial, DecodeSerial DEF Run
  <2> QED
    BY <2>1, <2>2
<1>4. CASE UNCHANGED vars
  BY <1>4 DEF vars, thread, SerialInv, OneCall, ClonesAhead, Ahead, ChunksSized, Counted,
              Endpoint!vars
<1> QED
  BY <1>1, <1>3, <1>4 DEF Next, Done, Aborted

\* The serial invariant holds of every codec whose callers do not overlap.
THEOREM SerialInvariance == Exclusive => (Spec => [](Inv /\ SerialInv))
<1>1. Exclusive /\ Init => SerialInv
  BY InitSerial
<1>2. Inv /\ SerialInv /\ [Next]_vars => SerialInv'
  BY SerialStep
<1> QED
  BY <1>1, <1>2, Invariance, PTL DEF Spec

\* One call at a time: the codec implements the endpoint's promises.
THEOREM ExclusiveUseIsSecure == Exclusive => (Spec => ImplementsEndpoint)
<1>1. Init => Endpoint!Init
  BY DEF Init, NewState, Endpoint!Init
<1>2. Inv /\ SerialInv /\ [Next]_vars => [Endpoint!Next]_(Endpoint!vars)
  BY SerialStep
<1> QED
  BY <1>1, <1>2, SerialInvariance, PTL DEF Spec, ImplementsEndpoint, Endpoint!Spec

-----------------------------------------------------------------------------
(* What the decoders tell their callers.                                   *)
(*                                                                         *)
(* What buffer_size() answers is what try_decode will accept next, for any *)
(* number of threads that share decoders in any way: the mutex of          *)
(* buffer_size is taken before the library's decoder is touched and held   *)
(* until both fields say the same again.  Callers that do not overlap      *)
(* their calls are never asked for zero bytes, and lose no frame without   *)
(* being told.                                                             *)

(* buffer_size() and the library's decoder, whoever calls.                 *)

\* Where a call of try_decode holds the mutex of buffer_size.
Holding == {"d_clone", "d_work", "d_deliver", "d_missing"}

SizeHeld == \A t \in Threads : pc[t] \in Holding => sizeLock[obj[t]] = t

\* A decoder that has returned a frame waits for the next header.
FrameLeavesNothing == \A t \in Threads : pc[t] = "d_deliver" => inner[obj[t]].want = 0

LockInv == SizeHeld /\ FrameLeavesNothing /\ BufferSizeIsCurrent

LEMMA LockInit == Init => LockInv
  BY DEF Init, LockInv, SizeHeld, FrameLeavesNothing, BufferSizeIsCurrent, Holding, NewDecoder

\* A step that leaves decoders alone, of a thread that neither takes the mutex
\* nor comes back from the library.
LEMMA ElsewhereLocks ==
  ASSUME Inv, LockInv, NEW t \in Threads, NEW label,
         UNCHANGED <<inner, bufferSize, sizeLock, failed>>,
         pc' = [pc EXCEPT ![t] = label],
         \A u \in Threads \ {t} : obj'[u] = obj[u],
         \/ label \notin Holding
         \/ label = "d_work" /\ pc[t] \in Holding /\ obj'[t] = obj[t]
  PROVE  LockInv'
<1>1. \A u \in Threads : pc'[u] = IF u = t THEN label ELSE pc[u]
  BY DEF Inv, TypeOK
<1>2. SizeHeld' /\ FrameLeavesNothing'
  BY <1>1 DEF LockInv, SizeHeld, FrameLeavesNothing, Holding
<1>3. BufferSizeIsCurrent'
  BY DEF LockInv, BufferSizeIsCurrent
<1> QED BY <1>2, <1>3 DEF LockInv

\* A call gives the mutex back: it has failed, or both fields agree.
LEMMA LeavingLocks ==
  ASSUME Inv, LockInv, NEW t \in Threads, NEW label, NEW dec, NEW size,
         pc[t] \in Holding, label \notin Holding, obj[t] \in Decoders,
         pc' = [pc EXCEPT ![t] = label],
         \A u \in Threads \ {t} : obj'[u] = obj[u],
         sizeLock' = [sizeLock EXCEPT ![obj[t]] = Nil],
         inner' = [inner EXCEPT ![obj[t]] = dec],
         bufferSize' = [bufferSize EXCEPT ![obj[t]] = size],
         failed \subseteq failed',
         obj[t] \in failed' \/ size = dec.want
  PROVE  LockInv'
<1>1. \A u \in Threads : pc'[u] = IF u = t THEN label ELSE pc[u]
  BY DEF Inv, TypeOK
<1>2. \A u \in Threads \ {t} : pc[u] \in Holding => obj[u] \in Decoders /\ obj[u] # obj[t]
  BY DEF Inv, ObjectsMatch, LockInv, SizeHeld, Holding
<1>3. \A d \in Decoders :
        IF d = obj[t] THEN inner'[d] = dec /\ bufferSize'[d] = size /\ sizeLock'[d] = Nil
        ELSE inner'[d] = inner[d] /\ bufferSize'[d] = bufferSize[d] /\ sizeLock'[d] = sizeLock[d]
  BY DEF Inv, TypeOK
<1>4. SizeHeld'
  BY <1>1, <1>2, <1>3 DEF LockInv, SizeHeld
<1>5. FrameLeavesNothing'
  BY <1>1, <1>2, <1>3 DEF LockInv, FrameLeavesNothing, Holding
<1>6. BufferSizeIsCurrent'
  BY <1>3 DEF LockInv, BufferSizeIsCurrent
<1> QED BY <1>4, <1>5, <1>6 DEF LockInv

LEMMA BeginLocks ==
  ASSUME Inv, LockInv, NEW t \in Threads, Begin(t) PROVE LockInv'
<1>1. CASE HandshakeStep(t)
  <2>1. UNCHANGED <<inner, bufferSize, sizeLock, failed, pc, obj>>
    BY <1>1 DEF HandshakeStep, Step0, Step1, Step2, HandshakeComplete, HandshakeCall
  <2> QED
    BY <2>1 DEF LockInv, SizeHeld, FrameLeavesNothing, BufferSizeIsCurrent
<1>2. ASSUME NEW label, NEW o, NEW bytes, NEW c, Call(t, label, o, bytes, c), label \notin Holding
      PROVE  LockInv'
  BY <1>2, ElsewhereLocks DEF Call, Inv, TypeOK
<1>3. "e_lock" \notin Holding /\ "d_lock" \notin Holding /\ "b_size" \notin Holding
  BY DEF Holding
<1> QED
  BY <1>1, <1>2, <1>3 DEF Begin, EncodeCall, BufferSizeCall, TryDecodeCall

LEMMA EncodeLocks ==
  ASSUME Inv, LockInv, NEW t \in Threads, EncodeStep(t) PROVE LockInv'
<1>1. PICK label \in {"e_clone", "e_work", "e_publish", "idle"} : pc' = [pc EXCEPT ![t] = label]
  BY DEF EncodeStep, EncodeLock, EncodeRefuse, EncodeClone, EncodeUnready, EncodeSeal,
         EncodePublish, EncodeError
<1>2. UNCHANGED <<inner, bufferSize, sizeLock, failed>>
  BY DEF EncodeStep, EncodeLock, EncodeRefuse, EncodeClone, EncodeUnready, EncodeSeal,
         EncodePublish, EncodeError
<1>3. \A u \in Threads \ {t} : obj'[u] = obj[u]
  BY DEF EncodeStep, EncodeLock, EncodeRefuse, EncodeClone, EncodeUnready, EncodeSeal,
         EncodePublish, EncodeError, Inv, TypeOK
<1>4. label \notin Holding
  BY <1>1 DEF Holding
<1> QED BY <1>1, <1>2, <1>3, <1>4, ElsewhereLocks

\* Nothing is left to write when the library has returned a frame.
LEMMA FrameWants ==
  ASSUME NEW t \in Threads, NEW o \in Outcomes(t), o.code = "frame" PROVE o.want = 0
<1> DEFINE dec == inner[obj[t]]
<1>1. o \in NextFrame(dec, data[t], local[t])
  BY DEF Outcomes
<1> HIDE DEF dec
<1> QED BY <1>1 DEF NextFrame, Outcome

LEMMA DecodeLocks ==
  ASSUME Inv, LockInv, NEW t \in Threads, DecodeStep(t) \/ BufferSize(t) PROVE LockInv'
<1> USE DEF ReleaseDecoder
<1>1. CASE DecodePoisoned(t) \/ DecodeLock(t) \/ BufferSize(t)
  <2>1. PICK label \in {"idle", "d_size"} : pc' = [pc EXCEPT ![t] = label]
    BY <1>1 DEF DecodePoisoned, DecodeLock, BufferSize
  <2>2. /\ UNCHANGED <<inner, bufferSize, sizeLock, failed>>
        /\ \A u \in Threads \ {t} : obj'[u] = obj[u]
    BY <1>1 DEF DecodePoisoned, DecodeLock, BufferSize, Inv, TypeOK
  <2>3. label \notin Holding
    BY <2>1 DEF Holding
  <2> QED BY <2>1, <2>2, <2>3, ElsewhereLocks
<1>2. CASE DecodeSizeLock(t)
  <2>1. obj[t] \in Decoders
    BY <1>2 DEF DecodeSizeLock, Inv, ObjectsMatch
  <2>2. \A u \in Threads : pc'[u] = IF u = t THEN "d_clone" ELSE pc[u]
    BY <1>2 DEF DecodeSizeLock, Inv, TypeOK
  <2>3. /\ sizeLock[obj[t]] = Nil /\ UNCHANGED <<obj, inner, bufferSize, failed>>
        /\ \A d \in Decoders : sizeLock'[d] = IF d = obj[t] THEN t ELSE sizeLock[d]
    BY <1>2 DEF DecodeSizeLock, Inv, TypeOK
  <2>4. \A u \in Threads : pc[u] \in Holding => obj[u] \in Decoders /\ obj[u] # obj[t]
    BY <2>3, ThreadsAssumption DEF Inv, ObjectsMatch, LockInv, SizeHeld, Holding
  <2>5. SizeHeld'
    BY <2>1, <2>2, <2>3, <2>4 DEF LockInv, SizeHeld
  <2>6. FrameLeavesNothing'
    BY <2>2, <2>3 DEF LockInv, FrameLeavesNothing
  <2>7. BufferSizeIsCurrent'
    BY <2>3, ThreadsAssumption DEF LockInv, BufferSizeIsCurrent
  <2> QED BY <2>5, <2>6, <2>7 DEF LockInv
<1>3. CASE DecodeClone(t)
  <2>1. pc' = [pc EXCEPT ![t] = "d_work"] /\ pc[t] \in Holding
    BY <1>3 DEF DecodeClone, Holding
  <2>2. UNCHANGED <<inner, bufferSize, sizeLock, failed, obj>>
    BY <1>3 DEF DecodeClone
  <2> QED BY <2>1, <2>2, ElsewhereLocks
<1>4. CASE DecodeWrongSize(t) \/ DecodeFail(t) \/ DecodePanic(t)
  <2>1. PICK code, dec : DecodeError(t, code, dec)
    BY <1>4 DEF DecodeWrongSize, DecodeFail, DecodePanic
  <2>2. pc[t] \in Holding /\ obj[t] \in Decoders /\ "idle" \notin Holding
    BY <1>4 DEF DecodeWrongSize, DecodeFail, DecodePanic, Filled, Holding, Inv, ObjectsMatch
  <2>3. /\ pc' = [pc EXCEPT ![t] = "idle"]
        /\ sizeLock' = [sizeLock EXCEPT ![obj[t]] = Nil]
        /\ inner' = [inner EXCEPT ![obj[t]] = dec]
        /\ failed' = failed \cup {obj[t]}
    BY <2>1 DEF DecodeError
  <2>4. bufferSize' = [bufferSize EXCEPT ![obj[t]] = bufferSize[obj[t]]]
    BY <2>1 DEF DecodeError, Inv, TypeOK
  <2>5. \A u \in Threads \ {t} : obj'[u] = obj[u]
    BY <2>1 DEF DecodeError, Inv, TypeOK
  <2> QED BY <2>2, <2>3, <2>4, <2>5, LeavingLocks
<1>5. CASE DecodeAbort(t)
  <2>1. /\ \A u \in Threads : pc'[u] = "aborted"
        /\ UNCHANGED <<inner, bufferSize, sizeLock, failed>>
    BY <1>5 DEF DecodeAbort
  <2> QED
    BY <2>1 DEF LockInv, SizeHeld, FrameLeavesNothing, BufferSizeIsCurrent, Holding
<1>6. CASE DecodeAccept(t)
  <2>1. pc[t] \in Holding /\ obj[t] \in Decoders
    BY <1>6 DEF DecodeAccept, Filled, Holding, Inv, ObjectsMatch
  <2>2. PICK o \in Outcomes(t) :
          /\ inner' = [inner EXCEPT ![obj[t]] = After(o)]
          /\ pc' = [pc EXCEPT ![t] = IF o.code = "frame" THEN "d_deliver" ELSE "d_missing"]
    BY <1>6 DEF DecodeAccept
  <2>3. UNCHANGED <<obj, sizeLock, bufferSize, failed>>
    BY <1>6 DEF DecodeAccept
  <2>4. \A u \in Threads :
          pc'[u] = IF u # t THEN pc[u] ELSE IF o.code = "frame" THEN "d_deliver" ELSE "d_missing"
    BY <2>2 DEF Inv, TypeOK
  <2>5. \A d \in Decoders : inner'[d] = IF d = obj[t] THEN After(o) ELSE inner[d]
    BY <2>2 DEF Inv, TypeOK
  <2>6. sizeLock[obj[t]] = t /\ t # Nil
    BY <2>1, ThreadsAssumption DEF LockInv, SizeHeld
  <2>7. \A u \in Threads \ {t} : pc[u] \in Holding => obj[u] \in Decoders /\ obj[u] # obj[t]
    BY <2>6 DEF Inv, ObjectsMatch, LockInv, SizeHeld, Holding
  <2>8. SizeHeld'
    BY <2>1, <2>3, <2>4 DEF LockInv, SizeHeld
  <2>9. FrameLeavesNothing'
    BY <2>1, <2>3, <2>4, <2>5, <2>7, FrameWants DEF LockInv, FrameLeavesNothing, Holding, After
  <2>10. BufferSizeIsCurrent'
    BY <2>3, <2>5, <2>6 DEF LockInv, BufferSizeIsCurrent
  <2> QED BY <2>8, <2>9, <2>10 DEF LockInv
<1>7. CASE DecodeDeliver(t)
  <2>1. pc[t] \in Holding /\ obj[t] \in Decoders /\ "idle" \notin Holding
    BY <1>7 DEF DecodeDeliver, Holding, Inv, ObjectsMatch
  <2>2. inner[obj[t]].want = 0
    BY <1>7 DEF DecodeDeliver, LockInv, FrameLeavesNothing
  <2>3. /\ pc' = [pc EXCEPT ![t] = "idle"]
        /\ sizeLock' = [sizeLock EXCEPT ![obj[t]] = Nil]
        /\ bufferSize' = [bufferSize EXCEPT ![obj[t]] = 0]
        /\ failed' = failed
    BY <1>7 DEF DecodeDeliver
  <2>4. inner' = [inner EXCEPT ![obj[t]] = inner[obj[t]]]
    BY <1>7 DEF DecodeDeliver, Inv, TypeOK
  <2>5. \A u \in Threads \ {t} : obj'[u] = obj[u]
    BY <1>7 DEF DecodeDeliver, Inv, TypeOK
  <2> QED BY <2>1, <2>2, <2>3, <2>4, <2>5, LeavingLocks
<1>8. CASE DecodeMissing(t)
  <2>1. pc[t] \in Holding /\ obj[t] \in Decoders /\ "idle" \notin Holding /\ "b_size" \notin Holding
    BY <1>8 DEF DecodeMissing, MissingWith, Holding, Inv, ObjectsMatch
  <2>2. PICK label \in {"idle", "b_size"} : pc' = [pc EXCEPT ![t] = label]
    BY <1>8 DEF DecodeMissing, MissingWith
  <2>3. /\ sizeLock' = [sizeLock EXCEPT ![obj[t]] = Nil]
        /\ bufferSize' = [bufferSize EXCEPT ![obj[t]] = inner[obj[t]].want]
        /\ failed' = failed
    BY <1>8 DEF DecodeMissing, MissingWith
  <2>4. inner' = [inner EXCEPT ![obj[t]] = inner[obj[t]]]
    BY <1>8 DEF DecodeMissing, MissingWith, Inv, TypeOK
  <2>5. \A u \in Threads \ {t} : obj'[u] = obj[u]
    BY <1>8 DEF DecodeMissing, MissingWith, Inv, TypeOK
  <2> QED BY <2>1, <2>2, <2>3, <2>4, <2>5, LeavingLocks
<1> QED
  BY <1>1, <1>2, <1>3, <1>4, <1>5, <1>6, <1>7, <1>8 DEF DecodeStep

\* However many threads share a decoder, when no call is inside it and none has
\* failed, the two fields behind their two mutexes agree: buffer_size() is the
\* number of bytes try_decode takes next.
THEOREM SizeIsCurrent == Spec => []BufferSizeIsCurrent
<1>1. Inv /\ LockInv /\ [Next]_vars => LockInv'
  <2>1. CASE UNCHANGED vars
    BY <2>1 DEF vars, thread, LockInv, SizeHeld, FrameLeavesNothing, BufferSizeIsCurrent
  <2> QED
    BY <2>1, BeginLocks, EncodeLocks, DecodeLocks DEF Next, Run, Done, Aborted
<1>2. LockInv => BufferSizeIsCurrent
  BY DEF LockInv
<1> QED
  BY <1>1, <1>2, LockInit, Invariance, PTL DEF Spec


-----------------------------------------------------------------------------
(* How many bytes are missing.                                             *)

\* What a call of try_decode knows of its decoder: it is not poisoned, and once
\* the library has asked for bytes they are not none, up to the moment the
\* C ABI reads their number again.
Answerable ==
  \A t \in Threads :
    /\ pc[t] \in {"d_size", "d_clone", "d_work", "d_deliver", "d_missing"} => obj[t] \notin poisoned
    /\ pc[t] = "d_missing" => inner[obj[t]].want # 0
    /\ pc[t] = "b_size" /\ viaC[t] => obj[t] \notin poisoned /\ bufferSize[obj[t]] # 0
    /\ ret[t].code = "missing_bytes" => ret[t].missing # 0

\* The library never asks for no bytes.
LEMMA MissingWants ==
  ASSUME NEW t \in Threads, NEW o \in Outcomes(t), o.code = "missing" PROVE o.want # 0
<1> DEFINE dec == inner[obj[t]]
<1>1. o \in NextFrame(dec, data[t], local[t])
  BY DEF Outcomes
<1> HIDE DEF dec
<1> QED BY <1>1 DEF NextFrame, Outcome, Header, Payload

\* All other threads stand outside any call, and learn nothing.
LEMMA OthersWait ==
  ASSUME Inv, SerialInv, NEW t \in Threads, pc[t] \notin Stopped
  PROVE  \A u \in Threads \ {t} : pc[u] \in Stopped
  BY DEF SerialInv, OneCall

LEMMA AnswerableOne ==
  ASSUME Inv, SerialInv, Answerable, NEW t \in Threads,
         \A u \in Threads \ {t} : pc[u] \in Stopped /\ pc'[u] = pc[u] /\ ret'[u] = ret[u],
         pc'[t] \in {"d_size", "d_clone", "d_work", "d_deliver", "d_missing"} => obj'[t] \notin poisoned',
         pc'[t] = "d_missing" => inner'[obj'[t]].want # 0,
         pc'[t] = "b_size" /\ viaC'[t] => obj'[t] \notin poisoned' /\ bufferSize'[obj'[t]] # 0,
         ret'[t].code = "missing_bytes" => ret'[t].missing # 0
  PROVE  Answerable'
  BY DEF Answerable, Stopped

LEMMA AnswerableStep ==
  ASSUME Inv, SerialInv, Answerable, [Next]_vars PROVE Answerable'
<1>1. ASSUME NEW t \in Threads, Begin(t) PROVE Answerable'
  <2>1. CASE HandshakeStep(t)
    <3>1. PICK code \in {"ok", "handshake_error", "complete", "incomplete"} :
            HandshakeCall(t, codec', code)
      BY <2>1 DEF HandshakeStep, Step0, Step1, Step2, HandshakeComplete, HandshakeCall
    <3>2. \A u \in Threads : ret'[u] = IF u = t THEN Result(code, 0) ELSE ret[u]
      BY <3>1 DEF HandshakeCall, Inv, TypeOK
    <3>3. UNCHANGED <<objects, pc, obj, viaC>>
      BY <3>1 DEF HandshakeCall
    <3> QED BY <3>1, <3>2, <3>3 DEF Answerable
  <2>2. ASSUME NEW label \in {"e_lock", "d_lock", "b_size"}, NEW o, NEW bytes, NEW c,
               Call(t, label, o, bytes, c), label = "b_size" => c = FALSE
        PROVE  Answerable'
    <3>1. \A u \in Threads : pc[u] = "idle"
      BY <2>2 DEF Call, MayCall, SerialInv
    <3>2. /\ \A u \in Threads : pc'[u] = IF u = t THEN label ELSE "idle"
          /\ viaC'[t] = c /\ ret' = ret
      BY <2>2, <3>1 DEF Call, Inv, TypeOK
    <3> QED BY <2>2, <3>1, <3>2 DEF Answerable
  <2> QED
    BY <1>1, <2>1, <2>2 DEF Begin, EncodeCall, BufferSizeCall, TryDecodeCall
<1>2. ASSUME NEW t \in Threads, EncodeStep(t) PROVE Answerable'
  <2>1. pc[t] \notin Stopped
    BY <1>2 DEF EncodeStep, EncodeLock, EncodeRefuse, EncodeClone, EncodeUnready, EncodeSeal,
                EncodePublish, Stopped
  <2>2. PICK label \in {"e_clone", "e_work", "e_publish", "idle"} : pc' = [pc EXCEPT ![t] = label]
    BY <1>2 DEF EncodeStep, EncodeLock, EncodeRefuse, EncodeClone, EncodeUnready, EncodeSeal,
                EncodePublish, EncodeError
  <2>3. \/ ret' = ret
        \/ \E code \in {"encode_error", "ok"} : ret' = [ret EXCEPT ![t] = Result(code, 0)]
    BY <1>2 DEF EncodeStep, EncodeLock, EncodeRefuse, EncodeClone, EncodeUnready, EncodeSeal,
                EncodePublish, EncodeError
  <2>4. /\ \A u \in Threads \ {t} : pc'[u] = pc[u] /\ ret'[u] = ret[u]
        /\ ret'[t].code = "missing_bytes" => ret'[t].missing # 0
        /\ pc'[t] = label
    BY <2>2, <2>3 DEF Inv, TypeOK, Answerable
  <2> QED BY <2>1, <2>2, <2>4, OthersWait, AnswerableOne
<1>3. ASSUME NEW t \in Threads, DecodeStep(t) \/ BufferSize(t), ~DecodeAbort(t) PROVE Answerable'
  <2> USE DEF ReleaseDecoder
  <2>1. pc[t] \notin Stopped
    BY <1>3 DEF DecodeStep, DecodePoisoned, DecodeLock, DecodeSizeLock, DecodeClone, DecodeWrongSize,
         DecodeFail, DecodePanic, DecodeAccept, DecodeDeliver, DecodeMissing, MissingWith, BufferSize,
         Filled, Stopped
  <2>2. ASSUME NEW code \in Codes \ {"missing_bytes"}, NEW n, Return(t, Result(code, n)) PROVE Answerable'
    <3>1. /\ \A u \in Threads \ {t} : pc'[u] = pc[u] /\ ret'[u] = ret[u]
          /\ pc'[t] = "idle" /\ ret'[t] = Result(code, n)
      BY <2>2 DEF Inv, TypeOK
    <3> QED BY <2>1, <3>1, OthersWait, AnswerableOne
  <2>3. CASE DecodePoisoned(t) \/ DecodeWrongSize(t) \/ DecodeFail(t) \/ DecodePanic(t) \/ DecodeDeliver(t)
    <3>1. PICK code \in {"lock_error", "invalid_data_size", "decode_error", "panic", "ok"} :
            Return(t, Result(code, 0))
      BY <2>3 DEF DecodePoisoned, DecodeWrongSize, DecodeFail, DecodePanic, DecodeDeliver, DecodeError
    <3> QED BY <3>1, <2>2 DEF Codes
  <2>4. CASE DecodeLock(t) \/ DecodeSizeLock(t) \/ DecodeClone(t)
    <3>1. PICK label \in {"d_size", "d_clone", "d_work"} : pc' = [pc EXCEPT ![t] = label]
      BY <2>4 DEF DecodeLock, DecodeSizeLock, DecodeClone
    <3>2. UNCHANGED <<obj, poisoned, ret>> /\ obj[t] \notin poisoned
      BY <2>4 DEF DecodeLock, DecodeSizeLock, DecodeClone, Answerable
    <3>3. \A u \in Threads : pc'[u] = IF u = t THEN label ELSE pc[u]
      BY <3>1 DEF Inv, TypeOK
    <3>4. ret'[t].code = "missing_bytes" => ret'[t].missing # 0
      BY <3>2 DEF Answerable
    <3> QED BY <2>1, <3>1, <3>2, <3>3, <3>4, OthersWait, AnswerableOne
  <2>5. CASE DecodeAccept(t)
    <3>1. obj[t] \in Decoders /\ obj[t] \notin poisoned
      BY <2>5 DEF DecodeAccept, Filled, Inv, ObjectsMatch, Answerable
    <3>2. PICK o \in Outcomes(t) :
            /\ o.code \in {"missing", "frame"}
            /\ inner' = [inner EXCEPT ![obj[t]] = After(o)]
            /\ pc' = [pc EXCEPT ![t] = IF o.code = "frame" THEN "d_deliver" ELSE "d_missing"]
      BY <2>5 DEF DecodeAccept
    <3>3. UNCHANGED <<obj, poisoned, ret>>
      BY <2>5 DEF DecodeAccept
    <3>4. \A u \in Threads :
            pc'[u] = IF u # t THEN pc[u] ELSE IF o.code = "frame" THEN "d_deliver" ELSE "d_missing"
      BY <3>2 DEF Inv, TypeOK
    <3>5. inner'[obj[t]] = After(o)
      BY <3>1, <3>2 DEF Inv, TypeOK
    <3>6. o.code = "missing" => inner'[obj[t]].want # 0
      BY <3>5, MissingWants DEF After
    <3>7. ret'[t].code = "missing_bytes" => ret'[t].missing # 0
      BY <3>3 DEF Answerable
    <3> QED BY <2>1, <3>1, <3>2, <3>3, <3>4, <3>6, <3>7, OthersWait, AnswerableOne
  <2>6. CASE DecodeMissing(t)
    <3>1. obj[t] \in Decoders /\ obj[t] \notin poisoned /\ inner[obj[t]].want # 0
      BY <2>6 DEF DecodeMissing, MissingWith, Inv, ObjectsMatch, Answerable
    <3>2. bufferSize'[obj[t]] = inner[obj[t]].want /\ poisoned' = poisoned
      BY <2>6, <3>1 DEF DecodeMissing, MissingWith, Inv, TypeOK
    <3>3. CASE viaC[t]
      <4>1. pc' = [pc EXCEPT ![t] = "b_size"] /\ UNCHANGED <<obj, ret>>
        BY <2>6, <3>3 DEF DecodeMissing, MissingWith
      <4>2. \A u \in Threads : pc'[u] = IF u = t THEN "b_size" ELSE pc[u]
        BY <4>1 DEF Inv, TypeOK
      <4>3. ret'[t].code = "missing_bytes" => ret'[t].missing # 0
        BY <4>1 DEF Answerable
      <4> QED BY <2>1, <3>1, <3>2, <4>1, <4>2, <4>3, OthersWait, AnswerableOne
    <3>4. CASE ~viaC[t]
      <4>1. Return(t, Result("missing_bytes", inner[obj[t]].want))
        BY <2>6, <3>4 DEF DecodeMissing, MissingWith
      <4>2. /\ \A u \in Threads \ {t} : pc'[u] = pc[u] /\ ret'[u] = ret[u]
            /\ pc'[t] = "idle" /\ ret'[t] = Result("missing_bytes", inner[obj[t]].want)
        BY <4>1 DEF Inv, TypeOK
      <4> QED BY <2>1, <3>1, <4>2, OthersWait, AnswerableOne
    <3> QED BY <3>3, <3>4
  <2>7. CASE BufferSize(t)
    <3>1. CASE viaC[t]
      <4>1. pc[t] = "b_size" /\ obj[t] \notin poisoned /\ bufferSize[obj[t]] # 0
        BY <2>7, <3>1 DEF BufferSize, Answerable
      <4>2. Return(t, Result("missing_bytes", bufferSize[obj[t]]))
        BY <2>7, <3>1, <4>1 DEF BufferSize
      <4>3. /\ \A u \in Threads \ {t} : pc'[u] = pc[u] /\ ret'[u] = ret[u]
            /\ pc'[t] = "idle" /\ ret'[t] = Result("missing_bytes", bufferSize[obj[t]])
        BY <4>2 DEF Inv, TypeOK
      <4> QED BY <2>1, <4>1, <4>3, OthersWait, AnswerableOne
    <3>2. CASE ~viaC[t]
      <4>1. PICK n : Return(t, Result("lock_error", n)) \/ Return(t, Result("ok", n))
        BY <2>7, <3>2 DEF BufferSize
      <4> QED BY <4>1, <2>2 DEF Codes
    <3> QED BY <3>1, <3>2
  <2> QED
    BY <1>3, <2>3, <2>4, <2>5, <2>6, <2>7 DEF DecodeStep
<1>4. ASSUME NEW t \in Threads, DecodeAbort(t) PROVE Answerable'
  <2>1. (\A u \in Threads : pc'[u] = "aborted") /\ ret' = ret
    BY <1>4 DEF DecodeAbort
  <2> QED BY <2>1 DEF Answerable
<1>5. CASE UNCHANGED vars
  BY <1>5 DEF vars, thread, Answerable
<1> QED
  BY <1>1, <1>2, <1>3, <1>4, <1>5 DEF Next, Run, Done, Aborted, DecodeStep

\* Callers that do not overlap their calls are never told that zero bytes are
\* missing, although the C ABI reads the number after all locks were released.
THEOREM MissingBytesAreSome == Exclusive => (Spec => []MissingIsPositive)
<1>1. ASSUME Init PROVE Answerable
  <2>1. \A t \in Threads : pc[t] = "idle" /\ ret[t].code = "none"
    BY <1>1 DEF Init
  <2> QED BY <2>1 DEF Answerable
<1>2. Inv /\ SerialInv /\ Answerable /\ [Next]_vars => Answerable'
  BY AnswerableStep
<1>3. Inv /\ Answerable => MissingIsPositive
  BY DEF Inv, TypeOK, Sizes, Header, Payload, Answerable, MissingIsPositive
<1> QED
  BY <1>1, <1>2, <1>3, SerialInvariance, PTL DEF Spec

-----------------------------------------------------------------------------
(* No frame is lost without a failure.                                     *)

\* Receive nonce r is of a payload exactly when one decoder waits for it.
Tracks(r) ==
  failed = {} =>
    IF r % 2 = 0
      THEN \A d \in Decoders : inner[d].want # Payload
      ELSE \E d \in Decoders :
             /\ inner[d].want = Payload
             /\ \A e \in Decoders \ {d} : inner[e].want # Payload

\* The library's decoder has moved on, and the clone is yet to be written back.
Publishing == {"d_deliver", "d_missing"}

\* The nonce the connection stands at accounts for what the decoders hold: that
\* of the clone while it is being written back, else that of the shared state.
FramesTracked ==
  /\ \A t \in Threads : pc[t] \in Publishing => Tracks(local[t].recv)
  /\ (\A t \in Threads : pc[t] \notin Publishing) => Tracks(codec.recv)
  /\ failed = {} => \A d \in Decoders : inner[d].intact

\* A step that leaves the library's decoders and the receive nonce alone.
LEMMA QuietFrames ==
  ASSUME FramesTracked, UNCHANGED <<inner, failed>>, codec'.recv = codec.recv,
         \A u \in Threads : pc[u] \notin Publishing /\ pc'[u] \notin Publishing
  PROVE  FramesTracked'
  BY DEF FramesTracked, Tracks

\* A call that fails says so.
LEMMA FailedFrames ==
  ASSUME failed' # {} PROVE FramesTracked'
  BY DEF FramesTracked, Tracks

\* What the library makes of the bytes keeps count.
LEMMA OutcomeTracks ==
  ASSUME Inv, SerialInv, FramesTracked, NEW t \in Threads, obj[t] \in Decoders, Filled(t),
         NEW o \in Outcomes(t), o.code \in {"missing", "frame"},
         Tracks(codec.recv), failed = {}, failed' = {},
         inner' = [inner EXCEPT ![obj[t]] = After(o)]
  PROVE  (\A d \in Decoders : inner'[d].intact) /\ Tracks(o.recv)'
<1> DEFINE dec == inner[obj[t]]
<1>1. /\ local[t].recv = codec.recv /\ codec.recv \in Nat
      /\ dec.want \in Sizes /\ dec.intact /\ data[t].size \in {0, dec.want}
      /\ data[t].nonce \in Nat => data[t].size = Chunk(data[t].nonce).size
  BY DEF SerialInv, ClonesAhead, Ahead, ChunksSized, Filled, Inv, TypeOK, CodecStates, FramesTracked
<1>2. o \in NextFrame(dec, data[t], local[t])
  BY DEF Outcomes
<1>3. \A d \in Decoders : inner'[d] = IF d = obj[t] THEN After(o) ELSE inner[d]
  BY DEF Inv, TypeOK
<1>4. /\ codec.recv % 2 = 0 => \A d \in Decoders : inner[d].want # Payload
      /\ codec.recv % 2 = 1 => \E d \in Decoders :
           inner[d].want = Payload /\ \A e \in Decoders \ {d} : inner[e].want # Payload
  BY <1>1 DEF Tracks
<1>5. codec.recv % 2 \in {0, 1} /\ (codec.recv + 1) % 2 = 1 - (codec.recv % 2)
  BY <1>1, Parity
<1> HIDE DEF dec
<1>6. CASE data[t].size = 0
  <2>1. o.intact /\ o.recv = codec.recv /\ o.want = IF dec.want = 0 THEN Header ELSE dec.want
    BY <1>1, <1>2, <1>6 DEF NextFrame, Outcome
  <2>2. \A d \in Decoders : (inner'[d].want = Payload) = (inner[d].want = Payload)
    BY <1>3, <2>1 DEF After, dec, Header, Payload
  <2>3. \A d \in Decoders : inner'[d].intact
    BY <1>3, <2>1 DEF After, FramesTracked
  <2>4. Tracks(o.recv)'
    BY <1>4, <1>5, <2>1, <2>2 DEF Tracks
  <2> QED BY <2>3, <2>4
<1>7. CASE data[t].size # 0
  <2>1. data[t].nonce = codec.recv /\ o.intact /\ o.recv = codec.recv + 1
    BY <1>1, <1>2, <1>7 DEF NextFrame, Outcome
  <2>2. \A d \in Decoders : inner'[d].intact
    BY <1>3, <2>1 DEF After, FramesTracked
  <2>3. dec.want = data[t].size /\ data[t].size = IF codec.recv % 2 = 0 THEN Header ELSE Payload
    BY <1>1, <1>7, <2>1 DEF Chunk
  <2>4. CASE codec.recv % 2 = 0
    <3>1. o.want = Payload
      BY <1>1, <1>2, <1>7, <2>1, <2>3, <2>4 DEF NextFrame, Outcome
    <3>2. /\ inner'[obj[t]].want = Payload
          /\ \A e \in Decoders \ {obj[t]} : inner'[e].want # Payload
      BY <1>3, <1>4, <2>4, <3>1 DEF After
    <3>3. o.recv % 2 = 1
      BY <1>5, <2>1, <2>4
    <3> QED BY <2>2, <3>2, <3>3 DEF Tracks
  <2>5. CASE codec.recv % 2 = 1
    <3>1. o.want = 0 /\ inner[obj[t]].want = Payload
      BY <1>1, <1>2, <1>7, <2>1, <2>3, <2>5 DEF NextFrame, Outcome, dec, Header, Payload
    <3>2. \A e \in Decoders : inner'[e].want # Payload
      BY <1>3, <1>4, <2>5, <3>1 DEF After, Payload
    <3>3. o.recv % 2 = 0
      BY <1>5, <2>1, <2>5
    <3> QED BY <2>2, <3>2, <3>3 DEF Tracks
  <2> QED BY <1>5, <2>4, <2>5
<1> QED BY <1>6, <1>7

LEMMA FramesStep ==
  ASSUME Inv, SerialInv, FramesTracked, [Next]_vars PROVE FramesTracked'
<1> USE DEF ReleaseDecoder
<1>1. ASSUME NEW t \in Threads, Begin(t) PROVE FramesTracked'
  <2>1. \A u \in Threads : pc[u] = "idle"
    BY <1>1 DEF SerialInv, Begin, HandshakeStep, Step0, Step1, Step2, HandshakeComplete,
       HandshakeCall, EncodeCall, BufferSizeCall, TryDecodeCall, Call, MayCall
  <2>2. CASE HandshakeStep(t)
    <3>1. UNCHANGED <<pc, inner, failed>> /\ codec'.recv = codec.recv
      BY <2>2 DEF HandshakeStep, Step0, Step1, Step2, HandshakeComplete, HandshakeCall,
         Transport, Inv, TypeOK, CodecStates
    <3> QED BY <2>1, <3>1, QuietFrames DEF Publishing
  <2>3. ASSUME NEW label \in {"e_lock", "d_lock", "b_size"}, NEW o, NEW bytes, NEW c,
               Call(t, label, o, bytes, c)
        PROVE  FramesTracked'
    <3>1. UNCHANGED <<inner, failed, codec>> /\ \A u \in Threads : pc'[u] \in {"idle", label}
      BY <2>1, <2>3 DEF Call, Inv, TypeOK
    <3> QED BY <2>1, <3>1, QuietFrames DEF Publishing
  <2> QED
    BY <1>1, <2>2, <2>3 DEF Begin, EncodeCall, BufferSizeCall, TryDecodeCall
<1>2. ASSUME NEW t \in Threads, pc[t] \notin Stopped, pc[t] \notin Publishing,
             UNCHANGED <<inner, failed>>, codec'.recv = codec.recv,
             NEW label \in Labels \ Publishing, pc' = [pc EXCEPT ![t] = label]
      PROVE  FramesTracked'
  <2>1. \A u \in Threads : pc[u] \notin Publishing /\ pc'[u] \notin Publishing
    BY <1>2, OthersWait DEF Publishing, Stopped, Inv, TypeOK
  <2> QED BY <1>2, <2>1, QuietFrames
<1>3. ASSUME NEW t \in Threads, EncodeStep(t) PROVE FramesTracked'
  <2>1. pc[t] \notin Stopped /\ pc[t] \notin Publishing /\ UNCHANGED <<inner, failed>>
    BY <1>3 DEF EncodeStep, EncodeLock, EncodeRefuse, EncodeClone, EncodeUnready, EncodeSeal,
                EncodePublish, EncodeError, Stopped, Publishing
  <2>2. PICK label \in {"e_clone", "e_work", "e_publish", "idle"} : pc' = [pc EXCEPT ![t] = label]
    BY <1>3 DEF EncodeStep, EncodeLock, EncodeRefuse, EncodeClone, EncodeUnready, EncodeSeal,
                EncodePublish, EncodeError
  <2>3. codec' = codec \/ (pc[t] = "e_publish" /\ codec' = local[t])
    BY <1>3 DEF EncodeStep, EncodeLock, EncodeRefuse, EncodeClone, EncodeUnready, EncodeSeal,
                EncodePublish, EncodeError
  <2>4. codec'.recv = codec.recv
    BY <2>3 DEF SerialInv, ClonesAhead, Ahead, Inv, TypeOK, CodecStates
  <2>5. label \in Labels \ Publishing
    BY DEF Labels, Publishing
  <2> QED BY <1>2, <2>1, <2>2, <2>4, <2>5
<1>4. ASSUME NEW t \in Threads, DecodeStep(t) \/ BufferSize(t) PROVE FramesTracked'
  <2>1. CASE DecodePoisoned(t) \/ DecodeLock(t) \/ DecodeSizeLock(t) \/ DecodeClone(t) \/ BufferSize(t)
    <3>1. pc[t] \notin Stopped /\ pc[t] \notin Publishing /\ UNCHANGED <<inner, failed, codec>>
      BY <2>1 DEF DecodePoisoned, DecodeLock, DecodeSizeLock, DecodeClone, BufferSize, Stopped, Publishing
    <3>2. PICK label \in {"idle", "d_size", "d_clone", "d_work"} : pc' = [pc EXCEPT ![t] = label]
      BY <2>1 DEF DecodePoisoned, DecodeLock, DecodeSizeLock, DecodeClone, BufferSize
    <3>3. label \in Labels \ Publishing
      BY DEF Labels, Publishing
    <3> QED BY <1>2, <3>1, <3>2, <3>3
  <2>2. CASE DecodeWrongSize(t) \/ DecodeFail(t) \/ DecodePanic(t)
    <3>1. failed' # {}
      BY <2>2 DEF DecodeWrongSize, DecodeFail, DecodePanic, DecodeError
    <3> QED BY <3>1, FailedFrames
  <2>3. CASE DecodeAbort(t)
    <3>1. pc[t] = "d_work" /\ UNCHANGED <<inner, failed, codec>>
          /\ \A u \in Threads : pc'[u] = "aborted"
      BY <2>3 DEF DecodeAbort, Filled
    <3>2. \A u \in Threads : pc[u] \notin Publishing
      BY <3>1, OthersWait DEF Publishing, Stopped
    <3> QED BY <3>1, <3>2, QuietFrames DEF Publishing
  <2>4. CASE DecodeAccept(t)
    <3>1. obj[t] \in Decoders /\ pc[t] = "d_work" /\ Filled(t)
      BY <2>4 DEF DecodeAccept, Filled, Inv, ObjectsMatch
    <3>2. PICK o \in Outcomes(t) :
            /\ o.code \in {"missing", "frame"}
            /\ inner' = [inner EXCEPT ![obj[t]] = After(o)]
            /\ local' = [local EXCEPT ![t].recv = o.recv]
            /\ pc' = [pc EXCEPT ![t] = IF o.code = "frame" THEN "d_deliver" ELSE "d_missing"]
      BY <2>4 DEF DecodeAccept
    <3>3. failed' = failed
      BY <2>4 DEF DecodeAccept
    <3>4. \A u \in Threads : pc[u] \notin Publishing
      BY <3>1, OthersWait DEF Publishing, Stopped
    <3>5. \A u \in Threads : pc'[u] \in Publishing <=> u = t
      BY <3>2, <3>4 DEF Publishing, Inv, TypeOK
    <3>6. local'[t].recv = o.recv
      BY <3>2 DEF Inv, TypeOK, CodecStates
    <3>7. CASE failed = {}
      <4>1. Tracks(codec.recv)
        BY <3>4 DEF FramesTracked
      <4>2. (\A d \in Decoders : inner'[d].intact) /\ Tracks(o.recv)'
        BY <3>1, <3>2, <3>3, <3>7, <4>1, OutcomeTracks
      <4>3. Tracks(local[t].recv)'
        BY <3>6, <4>2 DEF Tracks
      <4> QED BY <3>5, <4>2, <4>3 DEF FramesTracked
    <3>8. CASE failed # {}
      BY <3>3, <3>8, FailedFrames
    <3> QED BY <3>7, <3>8
  <2>5. CASE DecodeDeliver(t) \/ DecodeMissing(t)
    <3>1. pc[t] \in Publishing /\ codec' = local[t] /\ UNCHANGED <<inner, failed>>
      BY <2>5 DEF DecodeDeliver, DecodeMissing, MissingWith, Publishing
    <3>2. PICK label \in {"idle", "b_size"} : pc' = [pc EXCEPT ![t] = label]
      BY <2>5 DEF DecodeDeliver, DecodeMissing, MissingWith
    <3>3. \A u \in Threads : pc'[u] \notin Publishing
      BY <3>1, <3>2, OthersWait DEF Publishing, Stopped, Inv, TypeOK
    <3>4. Tracks(codec.recv)'
      BY <3>1 DEF FramesTracked, Tracks
    <3> QED BY <3>1, <3>3, <3>4 DEF FramesTracked
  <2> QED
    BY <1>4, <2>1, <2>2, <2>3, <2>4, <2>5 DEF DecodeStep
<1>5. CASE UNCHANGED vars
  BY <1>5 DEF vars, thread, FramesTracked, Tracks
<1> QED
  BY <1>1, <1>3, <1>4, <1>5 DEF Next, Run, Done, Aborted

\* When callers do not overlap, every chunk the connection accepted is in a
\* delivered message or a header some decoder holds, until a call says it failed.
THEOREM FramesAreAccountedFor == Exclusive => (Spec => []ReceiveAccountsForFrames)
<1>1. ASSUME Init PROVE FramesTracked
  <2>1. /\ \A t \in Threads : pc[t] = "idle"
        /\ codec.recv = 0
        /\ \A d \in Decoders : inner[d].want = 0 /\ inner[d].intact = TRUE
    BY <1>1 DEF Init, NewState, NewDecoder
  <2> QED BY <2>1 DEF FramesTracked, Tracks, Publishing, Payload
<1>2. Inv /\ SerialInv /\ FramesTracked /\ [Next]_vars => FramesTracked'
  BY FramesStep
<1>3. Inv /\ SerialInv /\ FramesTracked => ReceiveAccountsForFrames
  <2> SUFFICES ASSUME Inv, SerialInv, FramesTracked, \A t \in Threads : pc[t] = "idle"
               PROVE  /\ codec.recv \in {2 * Len(delivered), 2 * Len(delivered) + 1}
                      /\ failed = {} => (codec.recv % 2 = 1 <=> \E d \in Decoders : inner[d].want = Payload)
    BY DEF ReceiveAccountsForFrames
  <2>1. Tracks(codec.recv)
    BY DEF FramesTracked, Publishing
  <2>2. codec.recv % 2 \in {0, 1}
    BY Parity DEF Inv, TypeOK, CodecStates
  <2> QED BY <2>1, <2>2 DEF Tracks, SerialInv, Counted
<1> QED
  BY <1>1, <1>2, <1>3, SerialInvariance, PTL DEF Spec

=============================================================================

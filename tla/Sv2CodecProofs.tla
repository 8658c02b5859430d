--------------------------- MODULE Sv2CodecProofs ---------------------------
(***************************************************************************)
(* What holds of Sv2Codec for any number of threads, encoders, decoders    *)
(* and calls.                                                              *)
(***************************************************************************)
EXTENDS Sv2Codec, TLAPS

\* A call works on an object of its own kind.
ObjectsMatch ==
  \A t \in Threads :
    /\ pc[t] \in {"e_lock", "e_clone", "e_work", "e_publish"} => obj[t] \in Encoders
    /\ pc[t] \in {"d_lock", "d_size", "d_clone", "d_work", "d_deliver", "d_missing", "b_size"}
         => obj[t] \in Decoders

\* A clone about to be written back has ciphers; one that sealed a frame has
\* used two nonces.
ClonesPublishable ==
  \A t \in Threads :
    /\ pc[t] \in {"e_publish", "d_deliver", "d_missing"} => local[t].phase = "transport"
    /\ pc[t] = "e_publish" => local[t].send >= 2

Inv == TypeOK /\ ObjectsMatch /\ ClonesPublishable

LEMMA InitInv == Init => Inv
<1> SUFFICES ASSUME Init PROVE Inv
  OBVIOUS
<1>1. TypeOK
  BY ThreadsAssumption, ObjectsAssumption
     DEF Init, TypeOK, NewState, NewDecoder, NoData, Result, CodecStates, Sizes, Header,
         Payload, Forged, Labels, Codes
<1>2. ObjectsMatch /\ ClonesPublishable
  BY DEF Init, ObjectsMatch, ClonesPublishable
<1> QED
  BY <1>1, <1>2 DEF Inv

USE DEF Goto, Return, Result, objects, history

LEMMA HandshakePreserves ==
  ASSUME Inv, NEW t \in Threads, HandshakeStep(t) PROVE Inv'
<1>1. PICK s \in CodecStates, code \in Codes : HandshakeCall(t, s, code)
  BY DEF HandshakeStep, Step0, Step1, Step2, HandshakeComplete, Transport, Inv, TypeOK, CodecStates, Codes
<1>2. TypeOK'
  BY <1>1 DEF HandshakeCall, Inv, TypeOK, Sizes
<1>3. ObjectsMatch' /\ ClonesPublishable'
  BY <1>1 DEF HandshakeCall, Inv, ObjectsMatch, ClonesPublishable
<1> QED
  BY <1>2, <1>3 DEF Inv

\* A call only sets its own thread's arguments.
LEMMA CallPreserves ==
  ASSUME Inv, NEW t \in Threads, NEW label, NEW o, NEW bytes, NEW c \in BOOLEAN,
         Call(t, label, o, bytes, c),
         bytes \in [size: Sizes, nonce: Nat \cup {Forged}],
         \/ label = "e_lock" /\ o \in Encoders
         \/ label \in {"d_lock", "b_size"} /\ o \in Decoders
  PROVE  Inv'
<1>1. TypeOK'
  BY DEF Call, MayCall, Inv, TypeOK, Labels
<1>2. ObjectsMatch' /\ ClonesPublishable'
  BY DEF Call, MayCall, Inv, TypeOK, ObjectsMatch, ClonesPublishable
<1> QED
  BY <1>1, <1>2 DEF Inv

LEMMA InputsTyped == Inputs \subseteq [size: Sizes, nonce: Nat \cup {Forged}]
  BY BoundsAssumption DEF Inputs, NoData, Chunk, Sizes, Header, Payload, Forged

LEMMA BeginPreserves ==
  ASSUME Inv, NEW t \in Threads, Begin(t) PROVE Inv'
<1>1. CASE HandshakeStep(t)
  BY <1>1, HandshakePreserves
<1>2. CASE \E e \in Encoders : EncodeCall(t, e)
  BY <1>2, CallPreserves, InputsTyped DEF EncodeCall, Inputs
<1>3. CASE \E d \in Decoders : BufferSizeCall(t, d)
  BY <1>3, CallPreserves, InputsTyped DEF BufferSizeCall, Inputs
<1>4. CASE \E d \in Decoders : \E bytes \in Inputs : TryDecodeCall(t, d, bytes)
  BY <1>4, CallPreserves, InputsTyped DEF TryDecodeCall
<1> QED
  BY <1>1, <1>2, <1>3, <1>4 DEF Begin

\* The types of what a step that returns leaves behind.
LEMMA ReturnTyped ==
  ASSUME Inv, NEW t \in Threads, NEW code \in Codes, NEW n \in Sizes,
         Return(t, Result(code, n))
  PROVE  /\ ret' \in [Threads -> [code: Codes, missing: Sizes]]
         /\ pc' \in [Threads -> Labels]
         /\ obj' \in [Threads -> Encoders \cup Decoders \cup {Nil}]
         /\ data' \in [Threads -> [size: Sizes, nonce: Nat \cup {Forged}]]
         /\ viaC' \in [Threads -> BOOLEAN]
         /\ local' \in [Threads -> CodecStates]
         /\ ObjectsMatch' /\ ClonesPublishable'
<1>1. /\ NoData \in [size: Sizes, nonce: Nat \cup {Forged}]
      /\ NewState \in CodecStates
      /\ "idle" \in Labels
  BY DEF NoData, NewState, CodecStates, Sizes, Labels
<1>2. /\ ret' \in [Threads -> [code: Codes, missing: Sizes]]
      /\ pc' \in [Threads -> Labels]
      /\ obj' \in [Threads -> Encoders \cup Decoders \cup {Nil}]
      /\ data' \in [Threads -> [size: Sizes, nonce: Nat \cup {Forged}]]
      /\ viaC' \in [Threads -> BOOLEAN]
      /\ local' \in [Threads -> CodecStates]
  BY <1>1 DEF Inv, TypeOK
<1>3. ObjectsMatch' /\ ClonesPublishable'
  BY DEF Inv, TypeOK, ObjectsMatch, ClonesPublishable
<1> QED
  BY <1>2, <1>3

LEMMA EncodePreserves ==
  ASSUME Inv, NEW t \in Threads, EncodeStep(t) PROVE Inv'
<1>1. CASE EncodeLock(t)
  <2>1. TypeOK'
    BY <1>1 DEF EncodeLock, Inv, TypeOK, Labels
  <2>2. ObjectsMatch' /\ ClonesPublishable'
    BY <1>1 DEF EncodeLock, Inv, TypeOK, ObjectsMatch, ClonesPublishable
  <2> QED
    BY <2>1, <2>2 DEF Inv
<1>2. ASSUME EncodeError(t) PROVE Inv'
  <2>1. "encode_error" \in Codes /\ 0 \in Sizes
    BY DEF Codes, Sizes
  <2>2. TypeOK' /\ ObjectsMatch' /\ ClonesPublishable'
    BY <1>2, <2>1, ReturnTyped DEF EncodeError, Inv, TypeOK
  <2> QED
    BY <2>2 DEF Inv
<1>3. CASE EncodeClone(t)
  <2>1. TypeOK'
    BY <1>3 DEF EncodeClone, Inv, TypeOK, Labels
  <2>2. ObjectsMatch' /\ ClonesPublishable'
    BY <1>3 DEF EncodeClone, Inv, TypeOK, ObjectsMatch, ClonesPublishable
  <2> QED
    BY <2>1, <2>2 DEF Inv
<1>4. CASE EncodeSeal(t)
  <2>1. local[t] \in CodecStates /\ "e_publish" \in Labels
    BY DEF Inv, TypeOK, Labels
  <2>2. [local[t] EXCEPT !.send = @ + 2] \in CodecStates
    BY <2>1 DEF CodecStates
  <2>3. TypeOK'
    BY <1>4, <2>1, <2>2 DEF EncodeSeal, Inv, TypeOK
  <2>4. ObjectsMatch'
    BY <1>4 DEF EncodeSeal, Inv, TypeOK, ObjectsMatch
  <2>5. ClonesPublishable'
    BY <1>4, <2>1 DEF EncodeSeal, Inv, TypeOK, ClonesPublishable, CodecStates
  <2> QED
    BY <2>3, <2>4, <2>5 DEF Inv
<1>5. CASE EncodePublish(t)
  <2>1. "ok" \in Codes /\ 0 \in Sizes
    BY DEF Codes, Sizes
  <2>2. local[t] \in CodecStates /\ local[t].send - 2 \in Nat
    BY <1>5 DEF EncodePublish, Inv, TypeOK, ClonesPublishable, CodecStates
  <2>3. emitted' \in Seq(Nat)
    BY <1>5, <2>2 DEF EncodePublish, Inv, TypeOK
  <2>4. TypeOK' /\ ObjectsMatch' /\ ClonesPublishable'
    BY <1>5, <2>1, <2>2, <2>3, ReturnTyped DEF EncodePublish, Inv, TypeOK
  <2> QED
    BY <2>4 DEF Inv
<1> QED
  BY <1>1, <1>2, <1>3, <1>4, <1>5 DEF EncodeStep, EncodeRefuse, EncodeUnready

\* What next_frame can do to a decoder and a clone that have their types: it
\* asks for more or returns a frame only with a transport-phase clone.
LEMMA OutcomeTyped ==
  ASSUME Inv, NEW t \in Threads, obj[t] \in Decoders, NEW o \in Outcomes(t)
  PROVE  /\ o.want \in Sizes /\ o.intact \in BOOLEAN /\ o.recv \in Nat
         /\ o.code \in {"missing", "frame"} => local[t].phase = "transport"
<1>1. inner[obj[t]] \in [want: Sizes, intact: BOOLEAN] /\ local[t] \in CodecStates
  BY DEF Inv, TypeOK
<1> DEFINE dec == inner[obj[t]]
           recv == local[t].recv
<1>2. recv \in Nat /\ recv + 1 \in Nat /\ dec.want \in Sizes /\ dec.intact \in BOOLEAN
  BY <1>1 DEF CodecStates
<1>3. \E code \in {"error", "panic", "missing", "frame"}, want \in Sizes, intact \in BOOLEAN,
         n \in {recv, recv + 1} :
        /\ o = Outcome(code, want, intact, n)
        /\ code \in {"missing", "frame"} => local[t].phase = "transport"
  <2> HIDE DEF dec, recv
  <2>1. o \in NextFrame(dec, data[t], local[t]) /\ recv = local[t].recv
    BY DEF Outcomes, dec, recv
  <2>2. 0 \in Sizes /\ Header \in Sizes /\ Payload \in Sizes
    BY DEF Sizes
  <2> QED
    BY <1>2, <2>1, <2>2 DEF NextFrame
<1> HIDE DEF dec, recv
<1> QED
  BY <1>2, <1>3 DEF Outcome

LEMMA DecodePreserves ==
  ASSUME Inv, NEW t \in Threads, DecodeStep(t) \/ BufferSize(t) PROVE Inv'
<1> USE DEF ReleaseDecoder
<1>a. ASSUME NEW code \in Codes, NEW dec \in [want: Sizes, intact: BOOLEAN],
             obj[t] \in Decoders, DecodeError(t, code, dec),
             poisoned' \subseteq Decoders
      PROVE  Inv'
  <2>1. 0 \in Sizes
    BY DEF Sizes
  <2>2. TypeOK' /\ ObjectsMatch' /\ ClonesPublishable'
    BY <1>a, <2>1, ReturnTyped DEF DecodeError, Inv, TypeOK
  <2> QED
    BY <2>2 DEF Inv
<1>0. CASE DecodePoisoned(t)
  <2>1. "lock_error" \in Codes /\ 0 \in Sizes
    BY DEF Codes, Sizes
  <2>2. TypeOK' /\ ObjectsMatch' /\ ClonesPublishable'
    BY <1>0, <2>1, ReturnTyped DEF DecodePoisoned, Inv, TypeOK
  <2> QED
    BY <2>2 DEF Inv
<1>1. CASE DecodeLock(t)
  <2>1. TypeOK'
    BY <1>1 DEF DecodeLock, Inv, TypeOK, Labels
  <2>2. ObjectsMatch' /\ ClonesPublishable'
    BY <1>1 DEF DecodeLock, Inv, TypeOK, ObjectsMatch, ClonesPublishable
  <2> QED
    BY <2>1, <2>2 DEF Inv
<1>2. CASE DecodeSizeLock(t)
  <2>1. TypeOK'
    BY <1>2 DEF DecodeSizeLock, Inv, TypeOK, Labels
  <2>2. ObjectsMatch' /\ ClonesPublishable'
    BY <1>2 DEF DecodeSizeLock, Inv, TypeOK, ObjectsMatch, ClonesPublishable
  <2> QED
    BY <2>1, <2>2 DEF Inv
<1>3. CASE DecodeClone(t)
  <2>1. TypeOK'
    BY <1>3 DEF DecodeClone, Inv, TypeOK, Labels
  <2>2. ObjectsMatch' /\ ClonesPublishable'
    BY <1>3 DEF DecodeClone, Inv, TypeOK, ObjectsMatch, ClonesPublishable
  <2> QED
    BY <2>1, <2>2 DEF Inv
<1>4. CASE DecodeWrongSize(t)
  <2>1. obj[t] \in Decoders
    BY <1>4 DEF DecodeWrongSize, Inv, ObjectsMatch
  <2>2. PICK intact \in {inner[obj[t]].intact, FALSE} :
          DecodeError(t, "invalid_data_size", [inner[obj[t]] EXCEPT !.intact = intact])
    BY <1>4 DEF DecodeWrongSize
  <2>3. [inner[obj[t]] EXCEPT !.intact = intact] \in [want: Sizes, intact: BOOLEAN]
    <3>1. inner[obj[t]] \in [want: Sizes, intact: BOOLEAN] /\ intact \in BOOLEAN
      BY <2>1 DEF Inv, TypeOK
    <3> QED
      BY <3>1
  <2>4. "invalid_data_size" \in Codes /\ poisoned' \subseteq Decoders
    BY <1>4 DEF DecodeWrongSize, Codes, Inv, TypeOK
  <2> QED
    BY <1>a, <2>1, <2>2, <2>3, <2>4
<1>5. CASE DecodeFail(t)
  <2>1. obj[t] \in Decoders
    BY <1>5 DEF DecodeFail, Filled, Inv, ObjectsMatch
  <2>2. PICK o \in Outcomes(t) : DecodeError(t, "decode_error", After(o))
    BY <1>5 DEF DecodeFail
  <2>3. After(o) \in [want: Sizes, intact: BOOLEAN]
    BY <2>1, OutcomeTyped DEF After
  <2>4. "decode_error" \in Codes /\ poisoned' \subseteq Decoders
    BY <1>5 DEF DecodeFail, Codes, Inv, TypeOK
  <2> QED
    BY <1>a, <2>1, <2>2, <2>3, <2>4
<1>6. CASE DecodePanic(t)
  <2>1. obj[t] \in Decoders
    BY <1>6 DEF DecodePanic, Filled, Inv, ObjectsMatch
  <2>2. PICK o \in Outcomes(t) : DecodeError(t, "panic", After(o))
    BY <1>6 DEF DecodePanic
  <2>3. After(o) \in [want: Sizes, intact: BOOLEAN]
    BY <2>1, OutcomeTyped DEF After
  <2>4. "panic" \in Codes /\ poisoned' \subseteq Decoders
    BY <1>6, <2>1 DEF DecodePanic, Codes, Inv, TypeOK
  <2> QED
    BY <1>a, <2>1, <2>2, <2>3, <2>4
<1>6a. CASE DecodeAbort(t)
  <2>1. TypeOK'
    BY <1>6a DEF DecodeAbort, Inv, TypeOK, Labels
  <2>2. ObjectsMatch' /\ ClonesPublishable'
    BY <1>6a DEF DecodeAbort, Inv, TypeOK, ObjectsMatch, ClonesPublishable
  <2> QED
    BY <2>1, <2>2 DEF Inv
<1>7. CASE DecodeAccept(t)
  <2>1. obj[t] \in Decoders /\ pc[t] = "d_work"
    BY <1>7 DEF DecodeAccept, Filled, Inv, ObjectsMatch
  <2>2. PICK o \in Outcomes(t) :
          /\ o.code \in {"missing", "frame"}
          /\ inner' = [inner EXCEPT ![obj[t]] = After(o)]
          /\ local' = [local EXCEPT ![t].recv = o.recv]
          /\ Goto(t, IF o.code = "frame" THEN "d_deliver" ELSE "d_missing")
    BY <1>7 DEF DecodeAccept
  <2>3. /\ After(o) \in [want: Sizes, intact: BOOLEAN]
        /\ o.recv \in Nat
        /\ local[t].phase = "transport"
    BY <2>1, <2>2, OutcomeTyped DEF After
  <2>4. local[t] \in CodecStates /\ [local[t] EXCEPT !.recv = o.recv] \in CodecStates
    BY <2>3 DEF Inv, TypeOK, CodecStates
  <2>5. TypeOK'
    BY <1>7, <2>2, <2>3, <2>4 DEF DecodeAccept, Inv, TypeOK, Labels
  <2>6. ObjectsMatch'
    BY <1>7, <2>1, <2>2 DEF DecodeAccept, Inv, TypeOK, ObjectsMatch
  <2>7. ClonesPublishable'
    BY <1>7, <2>2, <2>3, <2>4 DEF DecodeAccept, Inv, TypeOK, ClonesPublishable, CodecStates
  <2> QED
    BY <2>5, <2>6, <2>7 DEF Inv
<1>8. CASE DecodeDeliver(t)
  <2>1. "ok" \in Codes /\ 0 \in Sizes
    BY DEF Codes, Sizes
  <2>2. delivered' \in Seq(Nat \cup {Forged})
    BY <1>8 DEF DecodeDeliver, Inv, TypeOK
  <2>3. TypeOK' /\ ObjectsMatch' /\ ClonesPublishable'
    BY <1>8, <2>1, <2>2, ReturnTyped DEF DecodeDeliver, Inv, TypeOK
  <2> QED
    BY <2>3 DEF Inv
<1>9. CASE DecodeMissing(t)
  <2>1. obj[t] \in Decoders /\ inner[obj[t]].want \in Sizes
    BY <1>9 DEF DecodeMissing, MissingWith, Inv, ObjectsMatch, TypeOK
  <2>2. CASE viaC[t]
    <3>1. NewState \in CodecStates /\ "b_size" \in Labels
      BY DEF NewState, CodecStates, Labels
    <3>2. TypeOK'
      BY <1>9, <2>1, <2>2, <3>1 DEF DecodeMissing, MissingWith, Inv, TypeOK
    <3>3. ObjectsMatch' /\ ClonesPublishable'
      BY <1>9, <2>1, <2>2
         DEF DecodeMissing, MissingWith, Inv, TypeOK, ObjectsMatch, ClonesPublishable
    <3> QED
      BY <3>2, <3>3 DEF Inv
  <2>3. CASE ~viaC[t]
    <3>1. "missing_bytes" \in Codes
      BY DEF Codes
    <3>2. Return(t, Result("missing_bytes", inner[obj[t]].want))
      BY <1>9, <2>3 DEF DecodeMissing, MissingWith
    <3>3. /\ ret' \in [Threads -> [code: Codes, missing: Sizes]]
          /\ pc' \in [Threads -> Labels]
          /\ obj' \in [Threads -> Encoders \cup Decoders \cup {Nil}]
          /\ data' \in [Threads -> [size: Sizes, nonce: Nat \cup {Forged}]]
          /\ viaC' \in [Threads -> BOOLEAN]
          /\ local' \in [Threads -> CodecStates]
          /\ ObjectsMatch' /\ ClonesPublishable'
      BY <2>1, <3>1, <3>2, ReturnTyped
    <3>4. TypeOK'
      BY <1>9, <2>1, <3>3 DEF DecodeMissing, MissingWith, Inv, TypeOK
    <3> QED
      BY <3>3, <3>4 DEF Inv
  <2> QED
    BY <2>2, <2>3
<1>10. CASE BufferSize(t)
  <2>1. obj[t] \in Decoders
    BY <1>10 DEF BufferSize, Inv, ObjectsMatch
  <2> DEFINE n == IF obj[t] \in poisoned THEN 0 ELSE bufferSize[obj[t]]
             code == IF viaC[t] THEN "missing_bytes"
                     ELSE IF obj[t] \in poisoned THEN "lock_error" ELSE "ok"
  <2>2. code \in Codes /\ n \in Sizes /\ Return(t, Result(code, n))
    <3>1. Return(t, Result(code, n))
      BY <1>10 DEF BufferSize
    <3>2. code \in Codes
      BY DEF Codes
    <3>3. n \in Sizes
      BY <2>1 DEF Sizes, Inv, TypeOK
    <3> QED
      BY <3>1, <3>2, <3>3
  <2> HIDE DEF n, code
  <2>3. /\ ret' \in [Threads -> [code: Codes, missing: Sizes]]
        /\ pc' \in [Threads -> Labels]
        /\ obj' \in [Threads -> Encoders \cup Decoders \cup {Nil}]
        /\ data' \in [Threads -> [size: Sizes, nonce: Nat \cup {Forged}]]
        /\ viaC' \in [Threads -> BOOLEAN]
        /\ local' \in [Threads -> CodecStates]
        /\ ObjectsMatch' /\ ClonesPublishable'
    BY <2>2, ReturnTyped
  <2>4. UNCHANGED <<codec, objects, calls, history>>
    BY <1>10 DEF BufferSize
  <2>5. TypeOK'
    BY <2>3, <2>4 DEF Inv, TypeOK
  <2> QED
    BY <2>3, <2>5 DEF Inv
<1> QED
  BY <1>0, <1>1, <1>2, <1>3, <1>4, <1>5, <1>6, <1>6a, <1>7, <1>8, <1>9, <1>10
     DEF DecodeStep

LEMMA StutterPreserves == ASSUME Inv, UNCHANGED vars PROVE Inv'
  BY DEF vars, thread, Inv, TypeOK, ObjectsMatch, ClonesPublishable

THEOREM Invariance == Spec => []Inv
<1>1. Inv /\ [Next]_vars => Inv'
  BY BeginPreserves, EncodePreserves, DecodePreserves, StutterPreserves
     DEF Next, Run, Done, Aborted
<1> QED
  BY InitInv, <1>1, PTL DEF Spec

\* TypeOK for every number of threads, objects and calls.
THEOREM TypeCorrect == Spec => []TypeOK
  BY Invariance, PTL DEF Inv

\* No interleaving of calls ever takes a connection back to the handshake: the
\* only steps that overwrite the shared state either keep its phase, put it in
\* the transport phase, or write a clone that was already there.
THEOREM PhaseIsMonotone == Spec => PhaseNeverReverts
<1>1. ASSUME Inv, [Next]_vars, codec.phase = "transport"
      PROVE  codec'.phase = "transport"
  <2>1. ASSUME NEW t \in Threads, HandshakeStep(t) PROVE codec'.phase = "transport"
    BY <1>1, <2>1 DEF HandshakeStep, Step0, Step1, Step2, HandshakeComplete, HandshakeCall,
                      Handshaking, Transport, Inv, TypeOK, CodecStates
  <2>2. ASSUME NEW t \in Threads, Begin(t), ~HandshakeStep(t) PROVE codec' = codec
    BY <2>2 DEF Begin, EncodeCall, BufferSizeCall, TryDecodeCall, Call
  <2>3. ASSUME NEW t \in Threads, Run(t)
        PROVE  codec' = codec \/ (codec' = local[t] /\ local[t].phase = "transport")
    <3>1. CASE EncodeStep(t)
      BY <1>1, <3>1 DEF EncodeStep, EncodeLock, EncodeRefuse, EncodeClone, EncodeUnready,
           EncodeSeal, EncodePublish, EncodeError, Inv, ClonesPublishable
    <3>2. CASE DecodeStep(t)
      BY <1>1, <3>2 DEF DecodeStep, DecodePoisoned, DecodeLock, DecodeSizeLock, DecodeClone,
           DecodeWrongSize, DecodeFail, DecodePanic, DecodeAbort, DecodeAccept, DecodeDeliver,
           DecodeMissing, MissingWith, DecodeError, Inv, ClonesPublishable
    <3>3. CASE BufferSize(t)
      BY <3>3 DEF BufferSize
    <3> QED
      BY <2>3, <3>1, <3>2, <3>3 DEF Run
  <2>4. CASE UNCHANGED vars
    BY <1>1, <2>4 DEF vars
  <2> QED
    BY <1>1, <2>1, <2>2, <2>3, <2>4 DEF Next, Done, Aborted
<1>2. Inv /\ [Next]_vars
        => [codec.phase = "transport" => codec'.phase = "transport"]_vars
  BY <1>1
<1> QED
  BY <1>2, Invariance, PTL DEF PhaseNeverReverts, Spec

=============================================================================

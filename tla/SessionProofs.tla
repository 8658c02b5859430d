---------------------------- MODULE SessionProofs ----------------------------
(***************************************************************************)
(* Proofs about Session: for all lengths of the handshake messages and of  *)
(* the chunks, all scripts of the clients and any number of templates, the *)
(* two programs see a secure channel.                                      *)
(*                                                                         *)
(* The argument is about single bytes.  A byte under way carries the chunk *)
(* it belongs to, and what that chunk claims of its sender stays true      *)
(* whatever is sent later: bytes may be cut up, delayed or lost, but none  *)
(* is ever invented.  A chunk that decodes is therefore one the peer has   *)
(* sent, and the nonce it decodes under says which.                        *)
(***************************************************************************)
EXTENDS Session, SequenceTheorems, TLAPS

-----------------------------------------------------------------------------
(* The inductive invariant.                                                *)

ChunkKinds == Messages \cup {"hello", "answer", "bad answer", "header"}
Byte == [chunk : [kind : ChunkKinds, from : Sides, n : Nat], at : Nat]

\* What a byte says of its sender: an answer comes from a responder that read
\* the initiator's own message, a header has an even nonce, and a payload is
\* the k-th message of its sender and has the nonce of that message.
Claims(b) ==
  LET c == b.chunk IN
  /\ c.kind = "answer" => phase["server"] = "transport" /\ genuine
  /\ c.kind = "header" => \E k \in Nat : c.n = 2 * k
  /\ c.kind \in Messages =>
       \E k \in 1 .. Len(sent[c.from]) : c.n = 2 * k - 1 /\ c.kind = sent[c.from][k]

\* The bytes that may be under way to s.
Authentic(s) == {b \in Byte : b.chunk.from = Peer(s) /\ Claims(b)}

InTransit ==
  /\ stream \in [Sides -> Seq(Byte)]
  /\ buf \in [Sides -> Seq(Byte)]
  /\ \A s \in Sides : stream[s] \in Seq(Authentic(s)) /\ buf[s] \in Seq(Authentic(s))

\* The ends a program may send from, which the refinement calls open.
Opened(s) == phase[s] = "transport" /\ (s = "server" => genuine)

\* Where each program stands, against the phase of its codec state.
Stages ==
  /\ pc["client"] \in {"step_0", "step_2"} => phase["client"] = "handshake"
  /\ pc["client"] \in {"send", "loop", "listen"} => phase["client"] = "transport"
  /\ pc["server"] \in {"step_1", "loop", "closed"}
  /\ pc["server"] = "step_1" => phase["server"] = "handshake"
  /\ pc["server"] = "loop" => phase["server"] = "transport"
  /\ Opened("client") => Opened("server")

\* The histories against the nonces and against each other.
Counted ==
  /\ \A s \in Sides :
       /\ nonce[s].seal = 2 * Len(sent[s])
       /\ nonce[s].open = 2 * Len(got[s]) \/ nonce[s].open = 2 * Len(got[s]) + 1
       /\ Len(got[s]) <= Len(sent[Peer(s)])
       /\ sent[s] # <<>> => Opened(s)
  /\ sent["server"] # <<>> => got["server"] # <<>>

\* The server is silent before its answer, and says nothing more until it has
\* been sent a message.
Quiet ==
  /\ phase["server"] = "handshake" => stream["client"] = <<>>
  /\ sent["server"] = <<>> => Len(stream["client"]) <= HelloLen

IInv == TypeOK /\ InTransit /\ Stages /\ Counted /\ Quiet

-----------------------------------------------------------------------------
(* Sequences of bytes.                                                     *)

LEMMA SideFacts ==
  /\ Sides = {"client", "server"}
  /\ Peer("client") = "server" /\ Peer("server") = "client"
  /\ \A s \in Sides : Peer(s) \in Sides /\ Peer(s) # s /\ Peer(Peer(s)) = s
  BY DEF Sides, Peer

LEMMA CutSeq ==
  ASSUME NEW S, NEW q \in Seq(S), NEW n \in 0 .. Len(q)
  PROVE  /\ SubSeq(q, 1, n) \in Seq(S)
         /\ Len(SubSeq(q, 1, n)) = n
         /\ Drop(q, n) \in Seq(S)
         /\ Len(Drop(q, n)) = Len(q) - n
<1>1. Len(q) \in Nat /\ n \in Nat
  OBVIOUS
<1>2. \A i \in 1 .. n : q[i] \in S
  BY <1>1, ElementOfSeq
<1>3. \A i \in n + 1 .. Len(q) : q[i] \in S
  BY <1>1, ElementOfSeq
<1>4. SubSeq(q, 1, n) \in Seq(S) /\ Len(SubSeq(q, 1, n)) = IF 1 <= n THEN n - 1 + 1 ELSE 0
  BY <1>1, <1>2, SubSeqProperties
<1>5. n + 1 \in Int /\ Len(q) \in Int
  BY <1>1
<1>6. /\ SubSeq(q, n + 1, Len(q)) \in Seq(S)
      /\ Len(SubSeq(q, n + 1, Len(q))) = IF n + 1 <= Len(q) THEN Len(q) - (n + 1) + 1 ELSE 0
  BY <1>3, <1>5, SubSeqProperties
<1> QED BY <1>1, <1>4, <1>6 DEF Drop

LEMMA BytesSeq ==
  ASSUME NEW S, NEW chunk, NEW len \in Nat,
         \A i \in 1 .. len : [chunk |-> chunk, at |-> i] \in S
  PROVE  /\ Bytes(chunk, len) \in Seq(S)
         /\ Len(Bytes(chunk, len)) = len
  BY DEF Bytes

\* What reaches a stream is a non-empty prefix of what is written.
LEMMA WrittenSeq ==
  ASSUME NEW s, NEW S, NEW bytes \in Seq(S), NEW cut \in Written(s, bytes)
  PROVE  cut \in Seq(S) /\ Len(cut) <= Len(bytes)
<1>1. cut = bytes \/ \E n \in 1 .. Len(bytes) : cut = SubSeq(bytes, 1, n)
  BY DEF Written
<1>2. CASE cut = bytes
  BY <1>2
<1>3. CASE \E n \in 1 .. Len(bytes) : cut = SubSeq(bytes, 1, n)
  BY <1>3, CutSeq
<1> QED BY <1>1, <1>2, <1>3

LEMMA FrameSeq ==
  ASSUME NEW S, NEW s, NEW n \in Nat, NEW m,
         \A i \in 1 .. ChunkLen :
           /\ [chunk |-> [kind |-> "header", from |-> s, n |-> n], at |-> i] \in S
           /\ [chunk |-> [kind |-> m, from |-> s, n |-> n + 1], at |-> i] \in S
  PROVE  Frame(s, n, m) \in Seq(S)
<1>1. ChunkLen \in Nat
  BY LengthAssumption
<1>2. Header(s, n) \in Seq(S)
  BY <1>1, BytesSeq DEF Header
<1>3. Payload(s, n + 1, m) \in Seq(S)
  BY <1>1, BytesSeq DEF Payload
<1> QED BY <1>2, <1>3, ConcatProperties DEF Frame

-----------------------------------------------------------------------------
(* Claims.                                                                 *)

\* What a byte claims stays true as long as histories only grow and the
\* responder keeps its keys.
LEMMA ClaimsGrow ==
  ASSUME NEW s \in Sides, TypeOK,
         \A t \in Sides :
           /\ sent'[t] \in Seq(Messages)
           /\ Len(sent[t]) <= Len(sent'[t])
           /\ \A k \in 1 .. Len(sent[t]) : sent'[t][k] = sent[t][k],
         phase["server"] = "transport" /\ genuine
           => phase'["server"] = "transport" /\ genuine'
  PROVE  Authentic(s) \subseteq Authentic(s)'
<1> SUFFICES ASSUME NEW b \in Byte, Claims(b)
             PROVE  Claims(b)'
  BY DEF Authentic
<1>1. b.chunk.from \in Sides
  BY DEF Byte
<1>2. sent[b.chunk.from] \in Seq(Messages)
  BY <1>1 DEF TypeOK
<1>3. ASSUME b.chunk.kind \in Messages
      PROVE  \E k \in 1 .. Len(sent'[b.chunk.from]) :
               b.chunk.n = 2 * k - 1 /\ b.chunk.kind = sent'[b.chunk.from][k]
  <2>1. PICK k \in 1 .. Len(sent[b.chunk.from]) :
          b.chunk.n = 2 * k - 1 /\ b.chunk.kind = sent[b.chunk.from][k]
    BY <1>3 DEF Claims
  <2>2. k \in 1 .. Len(sent'[b.chunk.from])
    BY <1>1, <1>2
  <2> QED BY <1>1, <2>1, <2>2
<1> QED BY <1>3 DEF Claims

\* In particular when nothing is sent, or one message.
LEMMA ClaimsKept ==
  ASSUME NEW s \in Sides, TypeOK, UNCHANGED <<phase, genuine, sent>>
  PROVE  Authentic(s) \subseteq Authentic(s)'
  BY DEF Authentic, Claims

LEMMA HelloAuthentic ==
  /\ Hello \in Seq(Byte) /\ Hello \in Seq(Authentic("server"))
  /\ Len(Hello) = HelloLen
<1> DEFINE c == [kind |-> "hello", from |-> "client", n |-> 0]
<1>1. HelloLen \in Nat
  BY LengthAssumption
<1>2. \A i \in 1 .. HelloLen : [chunk |-> c, at |-> i] \in Byte
  BY <1>1 DEF Byte, ChunkKinds, Sides
<1>3. \A i \in 1 .. HelloLen : Claims([chunk |-> c, at |-> i])
  BY DEF Claims, Messages
<1>4. \A i \in 1 .. HelloLen : [chunk |-> c, at |-> i] \in Authentic("server")
  BY <1>2, <1>3 DEF Authentic, Peer
<1> HIDE DEF c
<1>5. Hello = Bytes(c, HelloLen)
  BY DEF Hello, c
<1> QED BY <1>1, <1>2, <1>4, <1>5, BytesSeq

\* An answer says that its responder is the genuine one, if it is.
LEMMA AnswerAuthentic ==
  ASSUME NEW good \in BOOLEAN,
         good => phase'["server"] = "transport" /\ genuine'
  PROVE  /\ Answer(good) \in Seq(Byte) /\ Answer(good) \in Seq(Authentic("client")')
         /\ Len(Answer(good)) = HelloLen
<1> DEFINE k == IF good THEN "answer" ELSE "bad answer"
           c == [kind |-> k, from |-> "server", n |-> 0]
<1>1. HelloLen \in Nat
  BY LengthAssumption
<1>2. \A i \in 1 .. HelloLen : [chunk |-> c, at |-> i] \in Byte
  BY <1>1 DEF Byte, ChunkKinds, Sides
<1>3. \A i \in 1 .. HelloLen : Claims([chunk |-> c, at |-> i])'
  <2>1. k \notin Messages /\ k # "header" /\ (k = "answer" => good)
    BY DEF Messages
  <2> QED BY <2>1 DEF Claims
<1>4. \A i \in 1 .. HelloLen : [chunk |-> c, at |-> i] \in Authentic("client")'
  BY <1>2, <1>3 DEF Authentic, Peer
<1>5. Answer(good) = Bytes(c, HelloLen)
  BY DEF Answer
<1> HIDE DEF c
<1> QED BY <1>1, <1>2, <1>4, <1>5, BytesSeq

\* A frame is authentic once its message is in the history of its sender.
LEMMA FrameAuthentic ==
  ASSUME NEW s \in Sides, NEW m \in Messages, NEW k \in Nat \ {0},
         sent'[s] \in Seq(Messages), k <= Len(sent'[s]), sent'[s][k] = m
  PROVE  /\ Frame(s, 2 * k - 2, m) \in Seq(Byte)
         /\ Frame(s, 2 * k - 2, m) \in Seq(Authentic(Peer(s))')
<1> DEFINE h == [kind |-> "header", from |-> s, n |-> 2 * k - 2]
           p == [kind |-> m, from |-> s, n |-> (2 * k - 2) + 1]
<1>1. ChunkLen \in Nat /\ 2 * k - 2 \in Nat /\ (2 * k - 2) + 1 \in Nat
      /\ (2 * k - 2) + 1 = 2 * k - 1 /\ 2 * k - 2 = 2 * (k - 1) /\ k - 1 \in Nat
  BY LengthAssumption
<1>2. h \in [kind : ChunkKinds, from : Sides, n : Nat]
  BY <1>1 DEF ChunkKinds
<1>3. p \in [kind : ChunkKinds, from : Sides, n : Nat]
  BY <1>1 DEF ChunkKinds
<1>4. \A i \in 1 .. ChunkLen : Claims([chunk |-> h, at |-> i])'
  BY <1>1 DEF Claims, Messages
<1>5. \A i \in 1 .. ChunkLen : Claims([chunk |-> p, at |-> i])'
  <2>1. m # "answer" /\ m # "header"
    BY DEF Messages
  <2>2. k \in 1 .. Len(sent'[s])
    OBVIOUS
  <2> QED BY <1>1, <2>1, <2>2 DEF Claims
<1>6. h.from = s /\ p.from = s /\ Peer(Peer(s)) = s
  BY SideFacts
<1> HIDE DEF h, p
<1>7. \A i \in 1 .. ChunkLen : [chunk |-> h, at |-> i] \in Byte /\ [chunk |-> p, at |-> i] \in Byte
  BY <1>1, <1>2, <1>3 DEF Byte
<1>8. \A i \in 1 .. ChunkLen : /\ [chunk |-> h, at |-> i] \in Authentic(Peer(s))'
                               /\ [chunk |-> p, at |-> i] \in Authentic(Peer(s))'
  BY <1>4, <1>5, <1>6, <1>7 DEF Authentic
<1>9. /\ h = [kind |-> "header", from |-> s, n |-> 2 * k - 2]
      /\ p = [kind |-> m, from |-> s, n |-> (2 * k - 2) + 1]
  BY DEF h, p
<1>10. Frame(s, 2 * k - 2, m) \in Seq(Byte)
  BY <1>1, <1>7, <1>9, FrameSeq
<1>11. Frame(s, 2 * k - 2, m) \in Seq(Authentic(Peer(s))')
  BY <1>1, <1>8, <1>9, FrameSeq
<1> QED BY <1>10, <1>11

-----------------------------------------------------------------------------
(* What a step that moves bytes does to them.                              *)

\* Bytes are read from a stream, perhaps into the buffer of the read loop.
LEMMA ReadingKeepsBytes ==
  ASSUME IInv, UNCHANGED <<phase, genuine, sent>>,
         NEW s \in Sides, NEW n \in 0 .. Len(stream[s]),
         stream' = [stream EXCEPT ![s] = Drop(@, n)],
         buf' = buf \/ buf' = [buf EXCEPT ![s] = @ \o SubSeq(stream[s], 1, n)]
  PROVE  InTransit'
<1>1. /\ SubSeq(stream[s], 1, n) \in Seq(Byte) /\ Drop(stream[s], n) \in Seq(Byte)
      /\ SubSeq(stream[s], 1, n) \in Seq(Authentic(s))
      /\ Drop(stream[s], n) \in Seq(Authentic(s))
  <2>1. stream[s] \in Seq(Byte) /\ stream[s] \in Seq(Authentic(s))
    BY DEF IInv, InTransit
  <2> QED BY <2>1, CutSeq
<1>2. \A t \in Sides : stream'[t] \in Seq(Byte) /\ stream'[t] \in Seq(Authentic(t))
  BY <1>1 DEF IInv, InTransit
<1>3. \A t \in Sides : buf'[t] \in Seq(Byte) /\ buf'[t] \in Seq(Authentic(t))
  <2>1. \A t \in Sides : buf[t] \in Seq(Byte) /\ buf[t] \in Seq(Authentic(t))
    BY DEF IInv, InTransit
  <2>2. /\ buf[s] \o SubSeq(stream[s], 1, n) \in Seq(Byte)
        /\ buf[s] \o SubSeq(stream[s], 1, n) \in Seq(Authentic(s))
    BY <1>1, <2>1, ConcatProperties
  <2> QED BY <2>1, <2>2 DEF IInv, InTransit
<1>4. \A t \in Sides : Authentic(t) \subseteq Authentic(t)'
  BY ClaimsKept DEF IInv
<1>5. \A t \in Sides : stream'[t] \in Seq(Authentic(t)') /\ buf'[t] \in Seq(Authentic(t)')
  BY <1>2, <1>3, <1>4, SeqMonotonic
<1>6. stream' \in [Sides -> Seq(Byte)] /\ buf' \in [Sides -> Seq(Byte)]
  BY <1>2, <1>3 DEF IInv, InTransit
<1> QED BY <1>5, <1>6 DEF InTransit

\* What is under way to s is cut short, and what r has gathered forgotten.
LEMMA LosingKeepsBytes ==
  ASSUME IInv, UNCHANGED <<phase, genuine, sent>>,
         NEW r \in Sides, buf' = buf \/ buf' = [buf EXCEPT ![r] = <<>>],
         NEW s \in Sides, NEW n \in 0 .. Len(stream[s]),
         stream' = [stream EXCEPT ![s] = SubSeq(@, 1, n)]
  PROVE  InTransit'
<1>1. SubSeq(stream[s], 1, n) \in Seq(Byte) /\ SubSeq(stream[s], 1, n) \in Seq(Authentic(s))
  <2>1. stream[s] \in Seq(Byte) /\ stream[s] \in Seq(Authentic(s))
    BY DEF IInv, InTransit
  <2> QED BY <2>1, CutSeq
<1>2. \A t \in Sides : stream'[t] \in Seq(Byte) /\ stream'[t] \in Seq(Authentic(t))
  BY <1>1 DEF IInv, InTransit
<1>4. \A t \in Sides : Authentic(t) \subseteq Authentic(t)'
  BY ClaimsKept DEF IInv
<1>3. \A t \in Sides : buf'[t] \in Seq(Byte) /\ buf'[t] \in Seq(Authentic(t))
  BY EmptySeq DEF IInv, InTransit
<1>5. \A t \in Sides : stream'[t] \in Seq(Authentic(t)') /\ buf'[t] \in Seq(Authentic(t)')
  BY <1>2, <1>3, <1>4, SeqMonotonic
<1>6. stream' \in [Sides -> Seq(Byte)] /\ buf' \in [Sides -> Seq(Byte)]
  BY <1>2, <1>3 DEF IInv, InTransit
<1> QED BY <1>5, <1>6 DEF InTransit

\* Nothing moves, or the buffer of s is emptied.
LEMMA RestingKeepsBytes ==
  ASSUME IInv, UNCHANGED <<phase, genuine, sent, stream>>,
         NEW s \in Sides, buf' = buf \/ buf' = [buf EXCEPT ![s] = <<>>]
  PROVE  InTransit'
<1>1. \A t \in Sides : buf'[t] \in Seq(Byte) /\ buf'[t] \in Seq(Authentic(t))
  BY EmptySeq DEF IInv, InTransit
<1>2. \A t \in Sides : Authentic(t) \subseteq Authentic(t)'
  BY ClaimsKept DEF IInv
<1>3. \A t \in Sides : stream'[t] \in Seq(Authentic(t)') /\ buf'[t] \in Seq(Authentic(t)')
  BY <1>1, <1>2, SeqMonotonic DEF IInv, InTransit
<1>4. stream' \in [Sides -> Seq(Byte)] /\ buf' \in [Sides -> Seq(Byte)]
  BY <1>1 DEF IInv, InTransit
<1> QED BY <1>3, <1>4 DEF InTransit

\* s sends message m: its frame, or the beginning of it, reaches the stream.
LEMMA SendingKeepsBytes ==
  ASSUME IInv, UNCHANGED <<phase, genuine>>,
         NEW s \in Sides, NEW m \in Messages,
         sent' = [sent EXCEPT ![s] = Append(@, m)],
         NEW bytes \in Written(s, Frame(s, nonce[s].seal, m)),
         stream' = [stream EXCEPT ![Peer(s)] = @ \o bytes],
         buf' = buf \/ buf' = [buf EXCEPT ![s] = <<>>]
  PROVE  InTransit'
<1> DEFINE k == Len(sent[s]) + 1
<1>1. sent[s] \in Seq(Messages) /\ nonce[s].seal = 2 * Len(sent[s]) /\ sent'[s] = Append(sent[s], m)
  BY DEF IInv, TypeOK, Counted
<1>2. /\ \A t \in Sides : sent[t] \in Seq(Messages) /\ sent'[t] \in Seq(Messages)
      /\ \A t \in Sides : t # s => sent'[t] = sent[t]
  BY <1>1, AppendProperties DEF IInv, TypeOK
<1>3. /\ k \in Nat \ {0} /\ k <= Len(sent'[s]) /\ sent'[s][k] = m
      /\ nonce[s].seal = 2 * k - 2
      /\ Len(sent[s]) <= Len(sent'[s])
      /\ \A j \in 1 .. Len(sent[s]) : sent'[s][j] = sent[s][j]
  BY <1>1, AppendProperties
<1> HIDE DEF k
<1>4. /\ Frame(s, 2 * k - 2, m) \in Seq(Byte)
      /\ Frame(s, 2 * k - 2, m) \in Seq(Authentic(Peer(s))')
  BY <1>2, <1>3, FrameAuthentic
<1>5. bytes \in Seq(Byte) /\ bytes \in Seq(Authentic(Peer(s))')
  BY <1>3, <1>4, WrittenSeq
<1>6. \A t \in Sides : Authentic(t) \subseteq Authentic(t)'
  <2>1. \A t \in Sides :
          /\ sent'[t] \in Seq(Messages)
          /\ Len(sent[t]) <= Len(sent'[t])
          /\ \A j \in 1 .. Len(sent[t]) : sent'[t][j] = sent[t][j]
    BY <1>2, <1>3
  <2> QED BY <2>1, ClaimsGrow DEF IInv
<1>7. \A t \in Sides : /\ stream[t] \in Seq(Byte) /\ stream[t] \in Seq(Authentic(t)')
                       /\ buf'[t] \in Seq(Byte) /\ buf'[t] \in Seq(Authentic(t)')
  <2>1. \A t \in Sides : /\ stream[t] \in Seq(Byte) /\ stream[t] \in Seq(Authentic(t))
                         /\ buf'[t] \in Seq(Byte) /\ buf'[t] \in Seq(Authentic(t))
    BY EmptySeq DEF IInv, InTransit
  <2> QED BY <1>6, <2>1, SeqMonotonic
<1>8. /\ Peer(s) \in Sides
      /\ stream[Peer(s)] \o bytes \in Seq(Byte)
      /\ stream[Peer(s)] \o bytes \in Seq(Authentic(Peer(s))')
  BY <1>5, <1>7, SideFacts, ConcatProperties
<1>9. \A t \in Sides : stream'[t] \in Seq(Byte) /\ stream'[t] \in Seq(Authentic(t)')
  BY <1>7, <1>8 DEF IInv, InTransit
<1>10. stream' \in [Sides -> Seq(Byte)] /\ buf' \in [Sides -> Seq(Byte)]
  BY <1>7, <1>9 DEF IInv, InTransit
<1> QED BY <1>7, <1>9, <1>10 DEF InTransit

-----------------------------------------------------------------------------
(* A chunk that decodes is the next one its peer has sealed.               *)

LEMMA FirstByte ==
  ASSUME IInv, NEW s \in Sides, NEW chunk, buf[s] = Bytes(chunk, ChunkLen)
  PROVE  [chunk |-> chunk, at |-> 1] \in Authentic(s)
<1>1. buf[s] \in Seq(Authentic(s))
  BY DEF IInv, InTransit
<1>2. ChunkLen \in Nat \ {0}
  BY LengthAssumption
<1>3. Len(buf[s]) = ChunkLen /\ buf[s][1] = [chunk |-> chunk, at |-> 1]
  BY <1>2 DEF Bytes
<1> QED BY <1>1, <1>2, <1>3, ElementOfSeq

LEMMA HeaderIsNext ==
  ASSUME IInv, NEW s \in Sides, IsHeader(s)
  PROVE  nonce[s].open = 2 * Len(got[s])
<1> DEFINE c == [kind |-> "header", from |-> Peer(s), n |-> nonce[s].open]
<1>1. buf[s] = Bytes(c, ChunkLen)
  BY DEF IsHeader, Header
<1> HIDE DEF c
<1>2. [chunk |-> c, at |-> 1] \in Authentic(s)
  BY <1>1, FirstByte
<1>3. c.kind = "header" /\ c.n = nonce[s].open
  BY DEF c
<1>4. \E k \in Nat : nonce[s].open = 2 * k
  BY <1>2, <1>3 DEF Authentic, Claims
<1>5. Len(got[s]) \in Nat
  BY DEF IInv, TypeOK
<1>6. nonce[s].open = 2 * Len(got[s]) \/ nonce[s].open = 2 * Len(got[s]) + 1
  BY DEF IInv, Counted
<1> QED BY <1>4, <1>5, <1>6

LEMMA OpenedByMessage ==
  ASSUME IInv, NEW s \in Sides, sent[s] # <<>>
  PROVE  Opened(s) /\ Opened("server")
  BY DEF IInv, Counted, Stages, Sides

LEMMA PayloadIsNext ==
  ASSUME IInv, NEW s \in Sides, NEW m \in Messages, Receive(s, m)
  PROVE  /\ nonce[s].open = 2 * Len(got[s]) + 1
         /\ Len(got[s]) < Len(sent[Peer(s)])
         /\ m = sent[Peer(s)][Len(got[s]) + 1]
         /\ Opened(s)
<1> DEFINE c == [kind |-> m, from |-> Peer(s), n |-> nonce[s].open]
<1>1. buf[s] = Bytes(c, ChunkLen)
  BY DEF Receive, IsPayload, Payload
<1> HIDE DEF c
<1>2. [chunk |-> c, at |-> 1] \in Authentic(s)
  BY <1>1, FirstByte
<1>3. c.kind = m /\ c.n = nonce[s].open /\ c.from = Peer(s)
  BY DEF c
<1>4. PICK k \in 1 .. Len(sent[Peer(s)]) :
        nonce[s].open = 2 * k - 1 /\ m = sent[Peer(s)][k]
  BY <1>2, <1>3 DEF Authentic, Claims
<1>5. Peer(s) \in Sides /\ Len(got[s]) \in Nat /\ sent[Peer(s)] \in Seq(Messages)
  BY SideFacts DEF IInv, TypeOK
<1>6. nonce[s].open = 2 * Len(got[s]) \/ nonce[s].open = 2 * Len(got[s]) + 1
  BY DEF IInv, Counted
<1>7. k = Len(got[s]) + 1
  BY <1>4, <1>5, <1>6
<1>8. sent[Peer(s)] # <<>>
  BY <1>4, <1>5
<1>9. Opened("server")
  BY <1>5, <1>8, OpenedByMessage
<1>10. Opened(s)
  BY <1>9, SideFacts DEF Receive, Ready, Looping, IInv, Stages, Opened
<1> QED BY <1>4, <1>5, <1>6, <1>7, <1>10

-----------------------------------------------------------------------------
(* The steps, by what they do.                                             *)

\* After a message the program goes on as before, or the client moves on.
Moves(s) ==
  \/ UNCHANGED pc
  \/ s = "client" /\ (Close("client") \/ Goto("client", "listen"))

\* s sends m unasked.
Says(s, m) ==
  /\ Write(s, m)
  /\ Opened(s) /\ (s = "server" => got["server"] # <<>>)
  /\ UNCHANGED <<setting, pc, phase, genuine, size, buf, got>>

Stops(s) == pc[s] # "closed" /\ GiveUp(s) /\
  UNCHANGED <<setting, phase, genuine, nonce, size, stream, sent, got>>

ScriptDone ==
  /\ pc["client"] = "send" /\ Goto("client", "loop")
  /\ UNCHANGED <<setting, phase, genuine, nonce, size, buf, stream, sent, got>>

Step ==
  \/ ClientStep0 \/ ClientStep2 \/ ScriptDone
  \/ \E n \in 1 .. HelloLen :
       /\ ServerReads(n)
       /\ Accept(n) \/ Refuse(n)
  \/ \E s \in Sides : Trigger(s) \/ ReadMore(s) \/ DecodeHeader(s) \/ Stops(s) \/ IoError(s)
  \/ \E s \in Sides, m \in Messages : Says(s, m) \/ (Note(s, m) /\ Moves(s))
  \/ \E s \in Sides, m \in Messages, a \in Messages : Reply(s, m, a) /\ Moves(s)

LEMMA SettingFacts ==
  ASSUME TypeOK
  PROVE  Script[setting.client] \in Seq(Messages)
<1>1. setting.client \in {"go", "python", "template"}
  BY SettingsAssumption DEF TypeOK
<1>2. Script[setting.client] \in Seq({"setup", "other"})
  BY <1>1, ScriptAssumption
<1>3. {"setup", "other"} \subseteq Messages
  BY DEF Messages
<1> QED BY <1>2, <1>3, SeqMonotonic

LEMMA ClientSendCases ==
  ASSUME IInv, ClientSend
  PROVE  Step
<1>1. CASE Len(sent["client"]) < Len(Script[setting.client])
  <2> DEFINE script == Script[setting.client]
             m == script[Len(sent["client"]) + 1]
  <2>1. Len(sent["client"]) \in Nat /\ script \in Seq(Messages)
    BY SettingFacts, SideFacts DEF IInv, TypeOK
  <2>2. m \in Messages
    BY <1>1, <2>1
  <2>3. Opened("client")
    BY DEF IInv, Stages, ClientSend, Opened
  <2>4. Write("client", m) /\ UNCHANGED <<setting, pc, phase, genuine, size, buf, got>>
    BY <1>1 DEF ClientSend
  <2> HIDE DEF m
  <2>5. Says("client", m)
    BY <2>3, <2>4 DEF Says
  <2> QED BY <2>2, <2>5, SideFacts DEF Step
<1>2. CASE ~(Len(sent["client"]) < Len(Script[setting.client]))
  BY <1>2 DEF ClientSend, ScriptDone, Step
<1> QED BY <1>1, <1>2

LEMMA ProviderPushCases ==
  ASSUME IInv, ProviderPush
  PROVE  Step
<1>1. got["server"] # <<>>
  BY DEF ProviderPush, ToSet
<1>2. sent["client"] # <<>>
  <2>1. /\ got["server"] \in Seq(Messages) /\ sent["client"] \in Seq(Messages)
        /\ Len(got["server"]) <= Len(sent["client"])
    BY SideFacts DEF IInv, TypeOK, Counted
  <2> QED BY <1>1, <2>1, EmptySeq
<1>3. Opened("server")
  BY <1>2, SideFacts, OpenedByMessage
<1>4. "template" \in Messages
  BY DEF Messages
<1>5. Says("server", "template")
  BY <1>1, <1>3 DEF ProviderPush, Says
<1> QED BY <1>4, <1>5, SideFacts DEF Step

LEMMA MessageCases ==
  ASSUME NEW m \in Messages,
         \/ ClientHandle(m) \/ TemplateAnswered(m) \/ TemplateListen(m)
         \/ ServerHandle(m) \/ ProviderHandle(m)
  PROVE  Step
<1>1. \A s \in Sides : Note(s, m) /\ Moves(s) => Step
  BY DEF Step
<1>2. \A s \in Sides, a \in Messages : Reply(s, m, a) /\ Moves(s) => Step
  BY DEF Step
<1>3. {"success", "error", "constraints", "template"} \subseteq Messages
  BY DEF Messages
<1>4. CASE ClientHandle(m)
  <2>1. Note("client", m) /\ Moves("client")
    BY <1>4 DEF ClientHandle, Moves
  <2> QED BY <1>1, <2>1, SideFacts
<1>5. CASE TemplateAnswered(m)
  <2>1. Moves("client") /\ (Note("client", m) \/ Reply("client", m, "constraints"))
    BY <1>5 DEF TemplateAnswered, Moves
  <2> QED BY <1>1, <1>2, <1>3, <2>1, SideFacts
<1>6. CASE TemplateListen(m)
  <2>1. Note("client", m) /\ Moves("client")
    BY <1>6 DEF TemplateListen, Moves
  <2> QED BY <1>1, <2>1, SideFacts
<1>7. CASE ServerHandle(m)
  <2>1. Moves("server") /\ (Note("server", m) \/ Reply("server", m, "success"))
    BY <1>7 DEF ServerHandle, Moves
  <2> QED BY <1>1, <1>2, <1>3, <2>1, SideFacts
<1>8. CASE ProviderHandle(m)
  <2>1. Moves("server") /\ \E a \in Messages : Reply("server", m, a)
    BY <1>3, <1>8 DEF ProviderHandle, Moves
  <2> QED BY <1>2, <2>1, SideFacts
<1> QED BY <1>4, <1>5, <1>6, <1>7, <1>8

\* Only the template client goes on after an error; no server does.
LEMMA GiveUpFacts ==
  ASSUME IInv, NEW s \in Sides, GiveUp(s)
  PROVE  /\ buf' = buf \/ buf' = [buf EXCEPT ![s] = <<>>]
         /\ \/ Close(s)
            \/ s = "client" /\ pc["client"] \in {"send", "loop"} /\ Goto("client", "listen")
<1>1. setting.server # "template"
  BY SettingsAssumption DEF IInv, TypeOK
<1> QED BY <1>1 DEF GiveUp, Program, Sides

LEMMA StopCases ==
  ASSUME NEW s \in Sides, DecodeError(s) \/ Eof(s)
  PROVE  Stops(s)
  BY DEF DecodeError, Eof, Ready, Reading, Looping, Stops

LEMMA StepCases ==
  ASSUME IInv, Next
  PROVE  Step
<1>1. CASE ClientStep0 \/ ClientStep2
  BY <1>1 DEF Step
<1>2. CASE ClientSend
  BY <1>2, ClientSendCases
<1>3. CASE ProviderPush
  BY <1>3, ProviderPushCases
<1>4. CASE \E s \in Sides : Loop(s)
  BY <1>4, StopCases DEF Loop, Step
<1>5. CASE TimeOut \/ ProviderLeave
  <2>1. \E s \in Sides : Stops(s)
    BY <1>5, SideFacts DEF TimeOut, ProviderLeave, Reading, Looping, Stops, GiveUp, Program
  <2> QED BY <2>1 DEF Step
<1>6. CASE \E m \in Messages :
             \/ ClientHandle(m) \/ TemplateAnswered(m) \/ TemplateListen(m)
             \/ ServerHandle(m) \/ ProviderHandle(m)
  BY <1>6, MessageCases
<1>7. CASE GoStep1 \/ PythonStep1 \/ ProviderStep1
  <2>1. \E n \in 1 .. HelloLen :
          /\ ServerReads(n)
          /\ Accept(n) \/ Refuse(n)
    BY <1>7 DEF GoStep1, PythonStep1, ProviderStep1
  <2> QED BY <2>1 DEF Step
<1>8. CASE \E s \in Sides : IoError(s)
  BY <1>8 DEF Step
<1> QED
  BY <1>1, <1>2, <1>3, <1>4, <1>5, <1>6, <1>7, <1>8, SideFacts DEF Next, Client, ServerProgram

-----------------------------------------------------------------------------
(* Every step keeps the invariant, conjunct by conjunct.                   *)

LEMMA MovesType ==
  ASSUME TypeOK, NEW s \in Sides, Moves(s)
  PROVE  pc' \in [Sides -> {"step_0", "step_1", "step_2", "send", "loop", "listen", "closed"}]
  BY DEF TypeOK, Moves, Close, Goto

LEMMA SentType ==
  ASSUME TypeOK, NEW s \in Sides, NEW m \in Messages
  PROVE  /\ [sent EXCEPT ![s] = Append(@, m)] \in [Sides -> Seq(Messages)]
         /\ [got EXCEPT ![s] = Append(@, m)] \in [Sides -> Seq(Messages)]
  BY DEF TypeOK

\* Nonces are turned on for one end, and nothing else.
LEMMA NonceTurns ==
  ASSUME TypeOK, NEW s \in Sides,
         NEW a \in {0, 1}, NEW b \in {0, 2},
         \/ a = 0 /\ nonce' = [nonce EXCEPT ![s].seal = @ + b]
         \/ b = 0 /\ nonce' = [nonce EXCEPT ![s].open = @ + a]
         \/ nonce' = [nonce EXCEPT ![s].open = @ + a, ![s].seal = @ + b]
  PROVE  /\ nonce' \in [Sides -> [seal : Nat, open : Nat]]
         /\ nonce'[s].seal = nonce[s].seal + b /\ nonce'[s].open = nonce[s].open + a
         /\ \A t \in Sides : t # s => nonce'[t] = nonce[t]
<1> DEFINE N == [seal : Nat, open : Nat]
           r == [seal |-> nonce[s].seal + b, open |-> nonce[s].open + a]
<1>1. nonce \in [Sides -> N]
  BY DEF TypeOK
<1>2. nonce[s] \in N
  BY <1>1
<1>3. nonce[s].seal \in Nat /\ nonce[s].open \in Nat
  BY <1>2
<1>4. r \in N
  BY <1>3
<1>5. nonce[s] = [seal |-> nonce[s].seal, open |-> nonce[s].open]
  BY <1>2
<1>6. nonce' = [nonce EXCEPT ![s] = r]
  <2>1. CASE a = 0 /\ nonce' = [nonce EXCEPT ![s].seal = @ + b]
    <3>1. [nonce[s] EXCEPT !.seal = @ + b] = r
      BY <1>3, <1>5, <2>1
    <3> QED BY <1>1, <2>1, <3>1
  <2>2. CASE b = 0 /\ nonce' = [nonce EXCEPT ![s].open = @ + a]
    <3>1. [nonce[s] EXCEPT !.open = @ + a] = r
      BY <1>3, <1>5, <2>2
    <3> QED BY <1>1, <2>2, <3>1
  <2>3. CASE nonce' = [nonce EXCEPT ![s].open = @ + a, ![s].seal = @ + b]
    <3> DEFINE q == [nonce[s] EXCEPT !.open = @ + a]
    <3>1. q = [seal |-> nonce[s].seal, open |-> nonce[s].open + a]
      BY <1>3, <1>5
    <3>2. q.seal = nonce[s].seal
      BY <3>1
    <3>3. [q EXCEPT !.seal = nonce[s].seal + b] = r
      <4> HIDE DEF q
      <4> QED BY <3>1
    <3>4. [q EXCEPT !.seal = @ + b] = r
      <4> HIDE DEF q, r
      <4> QED BY <3>2, <3>3
    <3> QED BY <1>1, <2>3, <3>4
  <2> QED BY <2>1, <2>2, <2>3
<1>7. r.seal = nonce[s].seal + b /\ r.open = nonce[s].open + a
  OBVIOUS
<1> HIDE DEF N, r
<1>8. nonce' \in [Sides -> N] /\ nonce'[s] = r /\ \A t \in Sides : t # s => nonce'[t] = nonce[t]
  BY <1>1, <1>4, <1>6
<1> QED BY <1>7, <1>8 DEF N

\* The buffer never outgrows what the decoder asked for.
BufferFits == \A s \in Sides : Len(buf[s]) <= size[s]

LEMMA ReadFits ==
  ASSUME IInv, NEW s \in Sides, ReadMore(s)
  PROVE  BufferFits'
<1>1. PICK n \in ReadSizes(s, size[s] - Len(buf[s])) :
        buf' = [buf EXCEPT ![s] = @ \o SubSeq(stream[s], 1, n)]
  BY DEF ReadMore
<1>2. /\ stream[s] \in Seq(Byte) /\ buf \in [Sides -> Seq(Byte)]
      /\ size \in [Sides -> {0, ChunkLen}] /\ BufferFits
  BY DEF IInv, InTransit, TypeOK, BufferFits
<1>3. ChunkLen \in Nat /\ size[s] \in Nat /\ Len(buf[s]) \in Nat
  BY <1>2, LengthAssumption
<1>4. n \in 0 .. Len(stream[s]) /\ n <= size[s] - Len(buf[s])
  BY <1>2, <1>3 DEF ReadSizes, Least
<1>5. SubSeq(stream[s], 1, n) \in Seq(Byte) /\ Len(SubSeq(stream[s], 1, n)) = n
  BY <1>2, <1>4, CutSeq
<1>6. Len(buf[s] \o SubSeq(stream[s], 1, n)) = Len(buf[s]) + n
  BY <1>2, <1>5, ConcatProperties
<1>7. Len(buf'[s]) <= size[s]
  BY <1>1, <1>2, <1>3, <1>4, <1>6
<1>8. size' = size /\ \A t \in Sides : t # s => buf'[t] = buf[t]
  BY <1>1, <1>2 DEF ReadMore
<1> QED BY <1>2, <1>7, <1>8 DEF BufferFits

\* Emptying it leaves it within any size.
LEMMA EmptiedFits ==
  ASSUME IInv, NEW s \in Sides, buf' = [buf EXCEPT ![s] = <<>>],
         NEW k \in {0, ChunkLen}, size' = [size EXCEPT ![s] = k]
  PROVE  BufferFits' /\ size' \in [Sides -> {0, ChunkLen}]
<1>1. buf \in [Sides -> Seq(Byte)] /\ size \in [Sides -> {0, ChunkLen}] /\ BufferFits
  BY DEF IInv, InTransit, TypeOK, BufferFits
<1>2. k >= 0 /\ Len(<<>>) = 0
  BY LengthAssumption
<1> QED BY <1>1, <1>2 DEF BufferFits

LEMMA TypeStep ==
  ASSUME IInv, Step
  PROVE  TypeOK'
<1>0. TypeOK /\ BufferFits
  BY DEF IInv, TypeOK, BufferFits
<1>1. ASSUME UNCHANGED <<size, buf>>
      PROVE  BufferFits'
  BY <1>0, <1>1 DEF BufferFits
<1>2. CASE ClientStep0
  BY <1>0, <1>1, <1>2 DEF ClientStep0, Goto, TypeOK, BufferFits
<1>3. CASE ClientStep2
  BY <1>0, <1>1, <1>3 DEF ClientStep2, Close, Goto, TypeOK, BufferFits
<1>4. CASE ScriptDone
  BY <1>0, <1>1, <1>4 DEF ScriptDone, Goto, TypeOK, BufferFits
<1>5. CASE \E n \in 1 .. HelloLen : ServerReads(n) /\ (Accept(n) \/ Refuse(n))
  BY <1>0, <1>1, <1>5 DEF Accept, Refuse, Close, Goto, TypeOK, BufferFits
<1>6. ASSUME NEW s \in Sides, Trigger(s)
      PROVE  TypeOK'
  <2>1. size' \in [Sides -> {0, ChunkLen}]
    BY <1>0, <1>6 DEF Trigger, TypeOK
  <2>2. BufferFits'
    <3>0. ChunkLen \in Nat /\ size \in [Sides -> {0, ChunkLen}] /\ buf \in [Sides -> Seq(Byte)]
      BY LengthAssumption DEF IInv, InTransit, TypeOK
    <3>1. \A t \in Sides : size[t] <= size'[t]
      BY <1>6, <3>0 DEF Trigger
    <3>2. \A t \in Sides : Len(buf[t]) \in Nat /\ size[t] \in Nat /\ size'[t] \in Nat
      BY <2>1, <3>0
    <3> QED BY <1>0, <1>6, <3>1, <3>2 DEF BufferFits, Trigger
  <2> QED BY <1>0, <1>6, <2>1, <2>2 DEF Trigger, TypeOK, BufferFits
<1>7. ASSUME NEW s \in Sides, ReadMore(s)
      PROVE  TypeOK'
  <2>1. BufferFits'
    BY <1>7, ReadFits
  <2> QED BY <1>0, <1>7, <2>1 DEF ReadMore, TypeOK, BufferFits
<1>8. ASSUME NEW s \in Sides, DecodeHeader(s)
      PROVE  TypeOK'
  <2>1. BufferFits' /\ size' \in [Sides -> {0, ChunkLen}]
    BY <1>8, EmptiedFits DEF DecodeHeader
  <2>2. nonce' \in [Sides -> [seal : Nat, open : Nat]]
    <3>1. nonce' = [nonce EXCEPT ![s].open = @ + 1]
      BY <1>8 DEF DecodeHeader
    <3> QED BY <1>0, <3>1, NonceTurns
  <2> QED BY <1>0, <1>8, <2>1, <2>2 DEF DecodeHeader, TypeOK, BufferFits
<1>9. ASSUME NEW s \in Sides, Stops(s) \/ IoError(s)
      PROVE  TypeOK'
  <2>1. GiveUp(s) /\ UNCHANGED <<setting, phase, genuine, nonce, size, sent, got>>
    BY <1>9 DEF Stops, IoError
  <2>2. /\ buf' = buf \/ buf' = [buf EXCEPT ![s] = <<>>]
        /\ pc' = [pc EXCEPT ![s] = "closed"] \/ pc' = [pc EXCEPT ![s] = "listen"]
    BY <2>1, GiveUpFacts DEF Close, Goto
  <2>3. BufferFits'
    <3>1. CASE buf' = buf
      BY <1>1, <2>1, <3>1
    <3>2. CASE buf' = [buf EXCEPT ![s] = <<>>]
      <4>1. size[s] \in {0, ChunkLen} /\ size' = [size EXCEPT ![s] = size[s]]
        BY <1>0, <2>1 DEF TypeOK
      <4> QED BY <3>2, <4>1, EmptiedFits
    <3> QED BY <2>2, <3>1, <3>2
  <2> QED BY <1>0, <2>1, <2>2, <2>3 DEF TypeOK, BufferFits
<1>10. ASSUME NEW s \in Sides, NEW m \in Messages, Says(s, m)
       PROVE  TypeOK'
  <2>1. sent' \in [Sides -> Seq(Messages)]
    BY <1>0, <1>10, SentType DEF Says, Write
  <2>2. nonce' \in [Sides -> [seal : Nat, open : Nat]]
    <3>1. nonce' = [nonce EXCEPT ![s].seal = @ + 2]
      BY <1>10 DEF Says, Write
    <3> QED BY <1>0, <3>1, NonceTurns
  <2>3. BufferFits'
    BY <1>1, <1>10 DEF Says
  <2> QED BY <1>0, <1>10, <2>1, <2>2, <2>3 DEF Says, TypeOK, BufferFits
<1>11. ASSUME NEW s \in Sides, NEW m \in Messages, Receive(s, m)
       PROVE  /\ got' \in [Sides -> Seq(Messages)] /\ BufferFits'
              /\ size' \in [Sides -> {0, ChunkLen}]
  BY <1>0, <1>11, SentType, EmptiedFits DEF Receive
<1>12. ASSUME NEW s \in Sides, NEW m \in Messages, Note(s, m), Moves(s)
       PROVE  TypeOK'
  <2>1. pc' \in [Sides -> {"step_0", "step_1", "step_2", "send", "loop", "listen", "closed"}]
    BY <1>0, <1>12, MovesType
  <2>2. nonce' \in [Sides -> [seal : Nat, open : Nat]]
    <3>1. nonce' = [nonce EXCEPT ![s].open = @ + 1]
      BY <1>12 DEF Note
    <3> QED BY <1>0, <3>1, NonceTurns
  <2>3. Receive(s, m) /\ UNCHANGED <<setting, phase, genuine, sent>>
    BY <1>12 DEF Note, Receive
  <2> QED BY <1>0, <1>11, <2>1, <2>2, <2>3 DEF TypeOK, BufferFits
<1>13. ASSUME NEW s \in Sides, NEW m \in Messages, NEW a \in Messages, Reply(s, m, a), Moves(s)
       PROVE  TypeOK'
  <2>1. pc' \in [Sides -> {"step_0", "step_1", "step_2", "send", "loop", "listen", "closed"}]
    BY <1>0, <1>13, MovesType
  <2>2. nonce' \in [Sides -> [seal : Nat, open : Nat]]
    <3>1. nonce' = [nonce EXCEPT ![s].open = @ + 1, ![s].seal = @ + 2]
      BY <1>13 DEF Reply
    <3> QED BY <1>0, <3>1, NonceTurns
  <2>3. Receive(s, m) /\ UNCHANGED <<setting, phase, genuine>>
    BY <1>13 DEF Reply, Receive
  <2>4. sent' \in [Sides -> Seq(Messages)]
    BY <1>0, <1>13, SentType DEF Reply
  <2> QED BY <1>0, <1>11, <2>1, <2>2, <2>3, <2>4 DEF TypeOK, BufferFits
<1> QED
  BY <1>2, <1>3, <1>4, <1>5, <1>6, <1>7, <1>8, <1>9, <1>10, <1>12, <1>13 DEF Step

LEMMA InTransitStep ==
  ASSUME IInv, Step
  PROVE  InTransit'
<1>0. \A s \in Sides : stream[s] \in Seq(Byte) /\ Len(stream[s]) \in Nat
  BY DEF IInv, InTransit
<1>1. CASE ClientStep0
  <2>1. PICK bytes \in Written("client", Hello) :
          stream' = [stream EXCEPT !["server"] = @ \o bytes]
    BY <1>1 DEF ClientStep0
  <2>2. bytes \in Seq(Byte) /\ bytes \in Seq(Authentic("server"))
    BY HelloAuthentic, WrittenSeq
  <2>3. UNCHANGED <<phase, genuine, sent, buf>>
    BY <1>1 DEF ClientStep0
  <2>4. \A t \in Sides : Authentic(t) \subseteq Authentic(t)'
    BY <2>3, ClaimsKept DEF IInv
  <2>5. \A t \in Sides : stream[t] \in Seq(Authentic(t)) /\ buf[t] \in Seq(Authentic(t))
    BY DEF IInv, InTransit
  <2>6. /\ stream["server"] \o bytes \in Seq(Byte)
        /\ stream["server"] \o bytes \in Seq(Authentic("server"))
    BY <1>0, <2>2, <2>5, SideFacts, ConcatProperties
  <2>7. \A t \in Sides : stream'[t] \in Seq(Byte) /\ stream'[t] \in Seq(Authentic(t))
    BY <1>0, <2>1, <2>5, <2>6 DEF IInv, InTransit
  <2>8. \A t \in Sides : stream'[t] \in Seq(Authentic(t)') /\ buf'[t] \in Seq(Authentic(t)')
    BY <2>3, <2>4, <2>5, <2>7, SeqMonotonic
  <2>9. stream' \in [Sides -> Seq(Byte)] /\ buf' \in [Sides -> Seq(Byte)]
    BY <2>1, <2>3, <2>7 DEF IInv, InTransit
  <2> QED BY <2>8, <2>9 DEF InTransit
<1>2. CASE ClientStep2
  \* Its phase is the client's: no byte claims anything of that.
  <2>1. PICK n \in ReadSizes("client", Len(stream["client"])) :
          stream' = [stream EXCEPT !["client"] = Drop(@, n)]
    BY <1>2 DEF ClientStep2
  <2>2. n \in 0 .. Len(stream["client"])
    BY <1>0, SideFacts DEF ReadSizes, Least
  <2>3. UNCHANGED <<genuine, sent, buf>> /\ phase'["server"] = phase["server"]
    BY <1>2, SideFacts DEF ClientStep2, IInv, TypeOK
  <2>4. \A t \in Sides : Authentic(t) \subseteq Authentic(t)'
    BY <2>3 DEF Authentic, Claims
  <2>5. \A t \in Sides : stream[t] \in Seq(Authentic(t)) /\ buf[t] \in Seq(Authentic(t))
    BY DEF IInv, InTransit
  <2>6. /\ Drop(stream["client"], n) \in Seq(Byte)
        /\ Drop(stream["client"], n) \in Seq(Authentic("client"))
    BY <1>0, <2>2, <2>5, SideFacts, CutSeq
  <2>7. \A t \in Sides : stream'[t] \in Seq(Byte) /\ stream'[t] \in Seq(Authentic(t))
    BY <1>0, <2>1, <2>5, <2>6 DEF IInv, InTransit
  <2>8. \A t \in Sides : stream'[t] \in Seq(Authentic(t)') /\ buf'[t] \in Seq(Authentic(t)')
    BY <2>3, <2>4, <2>5, <2>7, SeqMonotonic
  <2>9. stream' \in [Sides -> Seq(Byte)] /\ buf' \in [Sides -> Seq(Byte)]
    BY <2>1, <2>3, <2>7 DEF IInv, InTransit
  <2> QED BY <2>8, <2>9 DEF InTransit
<1>3. CASE ScriptDone
  BY <1>3, SideFacts, RestingKeepsBytes DEF ScriptDone
<1>4. ASSUME NEW n \in 1 .. HelloLen, ServerReads(n), Accept(n)
      PROVE  InTransit'
  <2>1. PICK bytes \in Written("server", Answer(n = HelloLen)) :
          stream' = [stream EXCEPT !["server"] = Drop(@, n), !["client"] = @ \o bytes]
    BY <1>4 DEF Accept
  <2>2. /\ phase["server"] = "handshake" /\ phase'["server"] = "transport"
        /\ genuine' = (n = HelloLen) /\ UNCHANGED <<sent, buf>>
    BY <1>4, SideFacts DEF Accept, ServerReads, IInv, Stages, TypeOK
  <2>3. bytes \in Seq(Byte) /\ bytes \in Seq(Authentic("client")')
    BY <2>2, AnswerAuthentic, WrittenSeq
  <2>4. n \in 0 .. Len(stream["server"])
    BY <1>0, <1>4, SideFacts, LengthAssumption DEF ServerReads, ReadSizes, Least
  <2>5. \A t \in Sides : Authentic(t) \subseteq Authentic(t)'
    BY <2>2 DEF Authentic, Claims
  <2>6. \A t \in Sides : /\ stream[t] \in Seq(Authentic(t)') /\ buf[t] \in Seq(Authentic(t)')
    <3>1. \A t \in Sides : stream[t] \in Seq(Authentic(t)) /\ buf[t] \in Seq(Authentic(t))
      BY DEF IInv, InTransit
    <3> QED BY <2>5, <3>1, SeqMonotonic
  <2>7. /\ stream["client"] \o bytes \in Seq(Byte)
        /\ stream["client"] \o bytes \in Seq(Authentic("client")')
        /\ Drop(stream["server"], n) \in Seq(Byte)
        /\ Drop(stream["server"], n) \in Seq(Authentic("server")')
    BY <1>0, <2>3, <2>4, <2>6, SideFacts, ConcatProperties, CutSeq
  <2>8. \A t \in Sides : stream'[t] \in Seq(Byte) /\ stream'[t] \in Seq(Authentic(t)')
    BY <2>1, <2>7, SideFacts DEF IInv, InTransit
  <2>9. stream' \in [Sides -> Seq(Byte)] /\ buf' \in [Sides -> Seq(Byte)]
    BY <2>1, <2>2, <2>8 DEF IInv, InTransit
  <2> QED BY <2>2, <2>6, <2>8, <2>9 DEF InTransit
<1>5. ASSUME NEW n \in 1 .. HelloLen, ServerReads(n), Refuse(n)
      PROVE  InTransit'
  <2>1. n \in 0 .. Len(stream["server"])
    BY <1>0, <1>5, SideFacts, LengthAssumption DEF ServerReads, ReadSizes, Least
  <2> QED BY <1>5, <2>1, SideFacts, ReadingKeepsBytes DEF Refuse
<1>6. ASSUME NEW s \in Sides, Trigger(s) \/ Stops(s) \/ DecodeHeader(s)
      PROVE  InTransit'
  BY <1>6, GiveUpFacts, RestingKeepsBytes DEF Trigger, Stops, DecodeHeader
<1>7. ASSUME NEW s \in Sides, ReadMore(s)
      PROVE  InTransit'
  <2>1. PICK n \in ReadSizes(s, size[s] - Len(buf[s])) :
          /\ buf'    = [buf EXCEPT ![s] = @ \o SubSeq(stream[s], 1, n)]
          /\ stream' = [stream EXCEPT ![s] = Drop(@, n)]
    BY <1>7 DEF ReadMore
  <2>2. size[s] \in Nat /\ Len(buf[s]) \in Nat
    BY LengthAssumption DEF IInv, TypeOK, InTransit
  <2>3. n \in 0 .. Len(stream[s])
    BY <1>0, <2>2 DEF ReadSizes, Least
  <2> QED BY <1>7, <2>1, <2>3, ReadingKeepsBytes DEF ReadMore
<1>8. ASSUME NEW s \in Sides, IoError(s)
      PROVE  InTransit'
  <2>1. PICK n \in 0 .. Len(stream[Peer(s)]) :
          stream' = [stream EXCEPT ![Peer(s)] = SubSeq(@, 1, n)]
    BY <1>8 DEF IoError
  <2>2. buf' = buf \/ buf' = [buf EXCEPT ![s] = <<>>]
    BY <1>8, GiveUpFacts DEF IoError
  <2> QED BY <1>8, <2>1, <2>2, SideFacts, LosingKeepsBytes DEF IoError
<1>9. ASSUME NEW s \in Sides, NEW m \in Messages, Says(s, m)
      PROVE  InTransit'
  <2>1. PICK bytes \in Written(s, Frame(s, nonce[s].seal, m)) :
          stream' = [stream EXCEPT ![Peer(s)] = @ \o bytes]
    BY <1>9 DEF Says, Write
  <2>2. UNCHANGED <<phase, genuine, buf>> /\ sent' = [sent EXCEPT ![s] = Append(@, m)]
    BY <1>9 DEF Says, Write
  <2> QED BY <2>1, <2>2, SendingKeepsBytes
<1>10. ASSUME NEW s \in Sides, NEW m \in Messages, Note(s, m)
       PROVE  InTransit'
  BY <1>10, RestingKeepsBytes DEF Note, Receive
<1>11. ASSUME NEW s \in Sides, NEW m \in Messages, NEW a \in Messages, Reply(s, m, a)
       PROVE  InTransit'
  <2>1. PICK bytes \in Written(s, Frame(s, nonce[s].seal, a)) :
          stream' = [stream EXCEPT ![Peer(s)] = @ \o bytes]
    BY <1>11 DEF Reply
  <2>2. /\ UNCHANGED <<phase, genuine>> /\ sent' = [sent EXCEPT ![s] = Append(@, a)]
        /\ buf' = [buf EXCEPT ![s] = <<>>]
    BY <1>11 DEF Reply, Receive
  <2> QED BY <2>1, <2>2, SendingKeepsBytes
<1> QED
  BY <1>1, <1>2, <1>3, <1>4, <1>5, <1>6, <1>7, <1>8, <1>9, <1>10, <1>11 DEF Step

\* An answer that passes step_2 comes from a responder with the same keys.
LEMMA AnswerOpens ==
  ASSUME IInv, NEW n \in 1 .. Len(stream["client"]),
         SubSeq(stream["client"], 1, n) = Answer(TRUE)
  PROVE  Opened("server")
<1> DEFINE c == [kind |-> "answer", from |-> "server", n |-> 0]
           q == SubSeq(stream["client"], 1, n)
<1>1. stream["client"] \in Seq(Authentic("client"))
  BY SideFacts DEF IInv, InTransit
<1>2. q \in Seq(Authentic("client")) /\ Len(q) = n /\ n \in Nat \ {0}
  BY <1>1, CutSeq
<1>3. q = Bytes(c, HelloLen)
  BY DEF Answer
<1>4. q[1] = [chunk |-> c, at |-> 1]
  <2> HIDE DEF c, q
  <2>1. HelloLen \in Nat \ {0}
    BY LengthAssumption
  <2>2. Bytes(c, HelloLen)[1] = [chunk |-> c, at |-> 1]
    BY <2>1 DEF Bytes
  <2> QED BY <1>3, <2>2
<1>5. q[1] \in Authentic("client")
  <2> HIDE DEF q
  <2> QED BY <1>2, ElementOfSeq
<1> HIDE DEF q
<1>6. [chunk |-> c, at |-> 1] \in Authentic("client") /\ c.kind = "answer"
  BY <1>4, <1>5
<1> HIDE DEF c
<1> QED BY <1>6 DEF Authentic, Claims, Opened

LEMMA ClientStep2Facts ==
  ASSUME IInv, ClientStep2
  PROVE  /\ \/ phase' = [phase EXCEPT !["client"] = "transport"] /\ Opened("server")
            \/ phase' = phase /\ Close("client")
         /\ Goto("client", "send") \/ Close("client")
         /\ \E n \in 1 .. Len(stream["client"]) : stream' = [stream EXCEPT !["client"] = Drop(@, n)]
         /\ UNCHANGED <<setting, genuine, nonce, size, buf, sent, got>>
<1>1. Len(stream["client"]) \in Nat
  BY SideFacts DEF IInv, InTransit
<1>2. ReadSizes("client", Len(stream["client"])) = 1 .. Len(stream["client"])
  BY <1>1 DEF ReadSizes, Least
<1> QED BY <1>2, AnswerOpens DEF ClientStep2

LEMMA StagesStep ==
  ASSUME IInv, Step
  PROVE  Stages'
<1> USE DEF Stages, Goto, Close
<1>0. /\ Stages
      /\ pc \in [Sides -> {"step_0", "step_1", "step_2", "send", "loop", "listen", "closed"}]
      /\ phase \in [Sides -> {"handshake", "transport"}]
      /\ "client" \in Sides /\ "server" \in Sides
  BY SideFacts DEF IInv, TypeOK
<1>1. ASSUME NEW s \in Sides, UNCHANGED <<phase, genuine>>, Close(s) \/ UNCHANGED pc
      PROVE  Stages'
  BY <1>0, <1>1 DEF Opened, Sides
<1>2. CASE ClientStep0 \/ ScriptDone
  BY <1>0, <1>2 DEF ClientStep0, ScriptDone, Opened
<1>3. CASE ClientStep2
  <2>1. \/ phase' = [phase EXCEPT !["client"] = "transport"] /\ Opened("server")
        \/ phase' = phase /\ Close("client")
    BY <1>3, ClientStep2Facts
  <2>2. genuine' = genuine /\ (Goto("client", "send") \/ Close("client"))
    BY <1>3, ClientStep2Facts
  <2>3. CASE phase' = [phase EXCEPT !["client"] = "transport"] /\ Opened("server")
    BY <1>0, <2>2, <2>3 DEF Opened
  <2>4. CASE phase' = phase /\ Close("client")
    BY <1>0, <1>1, <2>2, <2>4
  <2> QED BY <2>1, <2>3, <2>4
<1>4. ASSUME NEW n \in 1 .. HelloLen, ServerReads(n), Accept(n) \/ Refuse(n)
      PROVE  Stages'
  <2>1. CASE Accept(n)
    BY <1>0, <1>4, <2>1 DEF Accept, ServerReads, Opened
  <2>2. CASE Refuse(n)
    BY <1>0, <1>1, <2>2 DEF Refuse
  <2> QED BY <1>4, <2>1, <2>2
<1>5. ASSUME NEW s \in Sides,
             Trigger(s) \/ ReadMore(s) \/ DecodeHeader(s) \/ Stops(s) \/ IoError(s)
      PROVE  Stages'
  <2>1. CASE Trigger(s) \/ ReadMore(s) \/ DecodeHeader(s)
    BY <1>1, <2>1 DEF Trigger, ReadMore, DecodeHeader
  <2>2. CASE Stops(s) \/ IoError(s)
    <3>1. GiveUp(s) /\ UNCHANGED <<phase, genuine>>
      BY <2>2 DEF Stops, IoError
    <3>2. CASE Close(s)
      BY <1>1, <3>1, <3>2
    <3>3. CASE pc["client"] \in {"send", "loop"} /\ Goto("client", "listen")
      BY <1>0, <3>1, <3>3 DEF Opened
    <3> QED BY <3>1, <3>2, <3>3, GiveUpFacts
  <2> QED BY <1>5, <2>1, <2>2
<1>6. ASSUME NEW s \in Sides, NEW m \in Messages, Says(s, m)
      PROVE  Stages'
  BY <1>1, <1>6 DEF Says
<1>7. ASSUME NEW s \in Sides, NEW m \in Messages, Receive(s, m), Moves(s)
      PROVE  Stages'
  <2>1. UNCHANGED <<phase, genuine>> /\ pc[s] \in {"loop", "listen"}
    BY <1>7 DEF Receive, Ready, Looping
  <2>2. CASE UNCHANGED pc \/ Close(s)
    BY <1>1, <2>1, <2>2
  <2>3. CASE s = "client" /\ Goto("client", "listen")
    BY <1>0, <2>1, <2>3 DEF Opened
  <2> QED BY <1>7, <2>2, <2>3 DEF Moves
<1>8. ASSUME NEW s \in Sides, NEW m \in Messages, NEW a \in Messages,
             Note(s, m) \/ Reply(s, m, a)
      PROVE  Receive(s, m)
  BY <1>8 DEF Note, Reply
<1> QED BY <1>2, <1>3, <1>4, <1>5, <1>6, <1>7, <1>8 DEF Step

LEMMA QuietStep ==
  ASSUME IInv, Step
  PROVE  Quiet'
<1>0. /\ Quiet
      /\ stream \in [Sides -> Seq(Byte)] /\ sent \in [Sides -> Seq(Messages)]
      /\ phase \in [Sides -> {"handshake", "transport"}]
      /\ "client" \in Sides /\ "server" \in Sides /\ HelloLen \in Nat
  BY SideFacts, LengthAssumption DEF IInv, TypeOK, InTransit
<1>1. ASSUME phase'["server"] = phase["server"], sent'["server"] = sent["server"],
             stream'["client"] = stream["client"]
      PROVE  Quiet'
  BY <1>0, <1>1 DEF Quiet
\* Bytes on their way to the client are taken, or lost.
<1>2. ASSUME phase'["server"] = phase["server"], sent'["server"] = sent["server"],
             stream'["client"] \in Seq(Byte),
             Len(stream'["client"]) <= Len(stream["client"])
      PROVE  Quiet'
  <2>1. stream["client"] = <<>> => stream'["client"] = <<>>
    BY <1>0, <1>2, EmptySeq
  <2>2. Len(stream["client"]) \in Nat /\ Len(stream'["client"]) \in Nat
    BY <1>0, <1>2
  <2> QED BY <1>0, <1>2, <2>1, <2>2 DEF Quiet
<1>3. ASSUME NEW s \in Sides, NEW n \in 0 .. Len(stream[s]),
             phase'["server"] = phase["server"], sent'["server"] = sent["server"],
             \/ stream' = [stream EXCEPT ![s] = Drop(@, n)]
             \/ stream' = [stream EXCEPT ![s] = SubSeq(@, 1, n)]
      PROVE  Quiet'
  <2>1. /\ Drop(stream[s], n) \in Seq(Byte) /\ Len(Drop(stream[s], n)) <= Len(stream[s])
        /\ SubSeq(stream[s], 1, n) \in Seq(Byte) /\ Len(SubSeq(stream[s], 1, n)) <= Len(stream[s])
    <3>1. stream[s] \in Seq(Byte) /\ Len(stream[s]) \in Nat
      BY <1>0
    <3>2. /\ Drop(stream[s], n) \in Seq(Byte) /\ Len(Drop(stream[s], n)) = Len(stream[s]) - n
          /\ SubSeq(stream[s], 1, n) \in Seq(Byte) /\ Len(SubSeq(stream[s], 1, n)) = n
      BY <3>1, CutSeq
    <3> QED BY <3>1, <3>2
  <2>2. CASE s = "client"
    BY <1>0, <1>2, <1>3, <2>1, <2>2
  <2>3. CASE s # "client"
    BY <1>0, <1>1, <1>3, <2>3
  <2> QED BY <2>2, <2>3
<1>4. CASE ClientStep0 \/ ScriptDone
  BY <1>0, <1>1, <1>4 DEF ClientStep0, ScriptDone
<1>5. CASE ClientStep2
  <2>1. PICK n \in 1 .. Len(stream["client"]) : stream' = [stream EXCEPT !["client"] = Drop(@, n)]
    BY <1>5, ClientStep2Facts
  <2>2. phase'["server"] = phase["server"] /\ sent' = sent
    BY <1>0, <1>5, ClientStep2Facts
  <2>3. n \in 0 .. Len(stream["client"])
    BY <1>0
  <2> QED BY <1>0, <1>3, <2>1, <2>2, <2>3
<1>6. ASSUME NEW n \in 1 .. HelloLen, ServerReads(n), Accept(n)
      PROVE  Quiet'
  <2>1. PICK bytes \in Written("server", Answer(n = HelloLen)) :
          stream' = [stream EXCEPT !["server"] = Drop(@, n), !["client"] = @ \o bytes]
    BY <1>6 DEF Accept
  <2>2. /\ phase["server"] = "handshake" /\ phase'["server"] = "transport"
        /\ genuine' = (n = HelloLen)
    BY <1>0, <1>6 DEF Accept, ServerReads, IInv, Stages
  <2>3. bytes \in Seq(Byte) /\ Len(bytes) <= HelloLen
    BY <2>2, AnswerAuthentic, WrittenSeq
  <2>4. stream["client"] = <<>>
    BY <1>0, <2>2 DEF Quiet
  <2>5. stream'["client"] = bytes
    BY <1>0, <2>1, <2>3, <2>4, ConcatEmptySeq
  <2> QED BY <2>2, <2>3, <2>5 DEF Quiet
<1>7. ASSUME NEW n \in 1 .. HelloLen, Refuse(n)
      PROVE  Quiet'
  BY <1>0, <1>1, <1>7 DEF Refuse
<1>8. ASSUME NEW s \in Sides, Trigger(s) \/ DecodeHeader(s) \/ Stops(s)
      PROVE  Quiet'
  BY <1>1, <1>8 DEF Trigger, DecodeHeader, Stops
<1>9. ASSUME NEW s \in Sides, ReadMore(s)
      PROVE  Quiet'
  <2>1. PICK n \in ReadSizes(s, size[s] - Len(buf[s])) : stream' = [stream EXCEPT ![s] = Drop(@, n)]
    BY <1>9 DEF ReadMore
  <2>2. size[s] \in Nat /\ Len(buf[s]) \in Nat /\ Len(stream[s]) \in Nat
    BY LengthAssumption DEF IInv, TypeOK, InTransit
  <2>3. n \in 0 .. Len(stream[s])
    BY <2>2 DEF ReadSizes, Least
  <2> QED BY <1>3, <1>9, <2>1, <2>3 DEF ReadMore
<1>10. ASSUME NEW s \in Sides, IoError(s)
       PROVE  Quiet'
  <2>1. PICK n \in 0 .. Len(stream[Peer(s)]) :
          stream' = [stream EXCEPT ![Peer(s)] = SubSeq(@, 1, n)]
    BY <1>10 DEF IoError
  <2> QED BY <1>3, <1>10, <2>1, SideFacts DEF IoError
\* What s sends goes to its peer: the server only sends when it is open.
<1>11. ASSUME NEW s \in Sides, NEW m \in Messages, phase' = phase, Opened(s),
              sent' = [sent EXCEPT ![s] = Append(@, m)],
              NEW bytes, stream' = [stream EXCEPT ![Peer(s)] = @ \o bytes]
       PROVE  Quiet'
  <2>1. CASE s = "client"
    BY <1>0, <1>1, <1>11, <2>1, SideFacts
  <2>2. CASE s = "server"
    <3>1. phase'["server"] = "transport"
      BY <1>11, <2>2 DEF Opened
    <3>2. sent'["server"] # <<>>
      BY <1>0, <1>11, <2>2, AppendProperties
    <3> QED BY <3>1, <3>2 DEF Quiet
  <2> QED BY <2>1, <2>2, SideFacts
<1>12. ASSUME NEW s \in Sides, NEW m \in Messages, Says(s, m)
       PROVE  Quiet'
  BY <1>11, <1>12 DEF Says, Write
<1>13. ASSUME NEW s \in Sides, NEW m \in Messages, Note(s, m)
       PROVE  Quiet'
  BY <1>1, <1>13 DEF Note, Receive
<1>14. ASSUME NEW s \in Sides, NEW m \in Messages, NEW a \in Messages, Reply(s, m, a)
       PROVE  Quiet'
  <2>1. Receive(s, m) /\ phase' = phase /\ sent' = [sent EXCEPT ![s] = Append(@, a)]
    BY <1>14 DEF Reply, Receive
  <2>2. Opened(s)
    BY <2>1, PayloadIsNext
  <2>3. PICK bytes \in Written(s, Frame(s, nonce[s].seal, a)) :
          stream' = [stream EXCEPT ![Peer(s)] = @ \o bytes]
    BY <1>14 DEF Reply
  <2> QED BY <1>11, <2>1, <2>2, <2>3
<1> QED
  BY <1>4, <1>5, <1>6, <1>7, <1>8, <1>9, <1>10, <1>12, <1>13, <1>14 DEF Step

\* What the nonces of s count.
CountsOf(s) ==
  /\ nonce[s].seal = 2 * Len(sent[s])
  /\ nonce[s].open = 2 * Len(got[s]) \/ nonce[s].open = 2 * Len(got[s]) + 1

LEMMA CountsTurn ==
  ASSUME NEW s \in Sides, \A t \in Sides : CountsOf(t),
         \A t \in Sides : t # s =>
           nonce'[t] = nonce[t] /\ sent'[t] = sent[t] /\ got'[t] = got[t],
         CountsOf(s)'
  PROVE  \A t \in Sides : CountsOf(t)'
  BY DEF CountsOf

LEMMA CountedStep ==
  ASSUME IInv, Step
  PROVE  Counted'
<1>0. /\ Counted
      /\ sent \in [Sides -> Seq(Messages)] /\ got \in [Sides -> Seq(Messages)]
      /\ \A s \in Sides : nonce[s].seal \in Nat /\ nonce[s].open \in Nat
  BY DEF IInv, TypeOK
<1>00. \A s \in Sides : CountsOf(s)
  BY DEF IInv, Counted, CountsOf
\* An end that is open stays open.
<1>1. ASSUME UNCHANGED <<nonce, sent, got>>, \A s \in Sides : Opened(s) => Opened(s)'
      PROVE  Counted'
  BY <1>0, <1>1 DEF Counted
<1>2. ASSUME UNCHANGED <<phase, genuine>>
      PROVE  \A s \in Sides : Opened(s) => Opened(s)'
  BY <1>2 DEF Opened
<1>3. CASE ClientStep0 \/ ScriptDone
  BY <1>1, <1>2, <1>3 DEF ClientStep0, ScriptDone
<1>4. CASE ClientStep2
  <2>1. UNCHANGED <<genuine, nonce, sent, got>>
    BY <1>4, ClientStep2Facts
  <2>2. phase' = phase \/ phase' = [phase EXCEPT !["client"] = "transport"]
    BY <1>4, ClientStep2Facts
  <2>3. \A s \in Sides : Opened(s) => Opened(s)'
    BY <2>1, <2>2 DEF Opened, IInv, TypeOK
  <2> QED BY <1>1, <2>1, <2>3
<1>5. ASSUME NEW n \in 1 .. HelloLen, ServerReads(n), Accept(n) \/ Refuse(n)
      PROVE  Counted'
  <2>1. CASE Accept(n)
    <3>1. phase["server"] = "handshake"
      BY <1>5 DEF ServerReads, IInv, Stages
    <3>2. ~Opened("server") /\ Opened("client") => Opened("client")'
      BY <2>1 DEF Accept, Opened, IInv, TypeOK
    <3>3. ~Opened("server")
      BY <3>1 DEF Opened
    <3>4. \A s \in Sides : Opened(s) => Opened(s)'
      BY <3>2, <3>3, SideFacts
    <3>5. UNCHANGED <<nonce, sent, got>>
      BY <2>1 DEF Accept
    <3> QED BY <1>1, <3>4, <3>5
  <2>2. CASE Refuse(n)
    BY <1>1, <1>2, <2>2 DEF Refuse
  <2> QED BY <1>5, <2>1, <2>2
<1>6. ASSUME NEW s \in Sides, Trigger(s) \/ ReadMore(s) \/ Stops(s) \/ IoError(s)
      PROVE  Counted'
  BY <1>1, <1>2, <1>6 DEF Trigger, ReadMore, Stops, IoError
<1>7. ASSUME NEW s \in Sides, DecodeHeader(s)
      PROVE  Counted'
  <2>1. nonce[s].open = 2 * Len(got[s])
    BY <1>7, HeaderIsNext DEF DecodeHeader
  <2>2. nonce' = [nonce EXCEPT ![s].open = @ + 1]
    BY <1>7 DEF DecodeHeader
  <2>3. /\ nonce'[s].seal = nonce[s].seal + 0 /\ nonce'[s].open = nonce[s].open + 1
        /\ \A t \in Sides : t # s => nonce'[t] = nonce[t]
    BY <2>2, NonceTurns DEF IInv
  <2>4. UNCHANGED <<phase, genuine, sent, got>>
    BY <1>7 DEF DecodeHeader
  <2>5. CountsOf(s)'
    BY <1>0, <1>00, <2>1, <2>3, <2>4 DEF CountsOf
  <2>6. \A t \in Sides : CountsOf(t)'
    BY <1>00, <2>3, <2>4, <2>5, CountsTurn
  <2> QED BY <1>0, <1>2, <2>4, <2>6 DEF Counted, CountsOf
<1>8. ASSUME NEW s \in Sides, NEW m \in Messages, Says(s, m)
      PROVE  Counted'
  <2>1. nonce' = [nonce EXCEPT ![s].seal = @ + 2]
    BY <1>8 DEF Says, Write
  <2>2. /\ nonce'[s].seal = nonce[s].seal + 2 /\ nonce'[s].open = nonce[s].open + 0
        /\ \A t \in Sides : t # s => nonce'[t] = nonce[t]
    BY <2>1, NonceTurns DEF IInv
  <2>3. /\ UNCHANGED <<phase, genuine, got>> /\ sent' = [sent EXCEPT ![s] = Append(@, m)]
        /\ Opened(s) /\ (s = "server" => got["server"] # <<>>)
    BY <1>8 DEF Says, Write
  <2>4. Len(sent'[s]) = Len(sent[s]) + 1 /\ \A t \in Sides : t # s => sent'[t] = sent[t]
    BY <1>0, <2>3, AppendProperties
  <2>5. \A t \in Sides : Len(sent[t]) \in Nat /\ Len(got[t]) \in Nat /\ Len(sent[t]) <= Len(sent'[t])
    BY <1>0, <2>4
  <2>6. \A t \in Sides : sent'[t] # <<>> => Opened(t)'
    BY <1>0, <1>2, <2>3, <2>4 DEF Counted
  <2>7. \A t \in Sides : Len(got'[t]) <= Len(sent'[Peer(t)])
    BY <1>0, <2>3, <2>4, <2>5, SideFacts DEF Counted
  <2>8. sent'["server"] # <<>> => got'["server"] # <<>>
    BY <1>0, <2>3, <2>4, SideFacts DEF Counted
  <2>9. CountsOf(s)'
    <3>1. /\ nonce[s].seal = 2 * Len(sent[s]) /\ nonce[s].seal \in Nat /\ nonce[s].open \in Nat
          /\ nonce[s].open = 2 * Len(got[s]) \/ nonce[s].open = 2 * Len(got[s]) + 1
      BY <1>0, <1>00 DEF CountsOf
    <3>2. nonce'[s].open = nonce[s].open /\ got'[s] = got[s]
      BY <2>2, <2>3, <3>1
    <3>3. nonce'[s].seal = 2 * (Len(sent[s]) + 1)
      BY <2>2, <2>5, <3>1
    <3> QED BY <2>4, <3>1, <3>2, <3>3 DEF CountsOf
  <2>10. \A t \in Sides : CountsOf(t)'
    BY <1>00, <2>2, <2>3, <2>4, <2>9, CountsTurn
  <2> QED BY <2>6, <2>7, <2>8, <2>10 DEF Counted, CountsOf
<1>9. ASSUME NEW s \in Sides, NEW m \in Messages, NEW a \in Messages, Note(s, m) \/ Reply(s, m, a)
      PROVE  Counted'
  <2>1. /\ Receive(s, m) /\ UNCHANGED <<phase, genuine>>
        /\ got' = [got EXCEPT ![s] = Append(@, m)]
        /\ sent' = sent \/ sent' = [sent EXCEPT ![s] = Append(@, a)]
    BY <1>9 DEF Note, Reply, Receive
  <2>2. /\ nonce[s].open = 2 * Len(got[s]) + 1 /\ Len(got[s]) < Len(sent[Peer(s)]) /\ Opened(s)
    BY <2>1, PayloadIsNext
  <2>3. /\ Len(got'[s]) = Len(got[s]) + 1 /\ got'[s] # <<>>
        /\ \A t \in Sides : t # s => got'[t] = got[t]
    <3>1. got'[s] = Append(got[s], m) /\ got[s] \in Seq(Messages)
      BY <1>0, <2>1
    <3>2. Len(got'[s]) = Len(got[s]) + 1 /\ got'[s] # <<>>
      BY <3>1, AppendProperties
    <3>3. \A t \in Sides : t # s => got'[t] = got[t]
      BY <1>0, <2>1
    <3> QED BY <3>2, <3>3
  <2>4. \A t \in Sides : /\ Len(sent[t]) \in Nat /\ Len(sent'[t]) \in Nat /\ Len(got[t]) \in Nat
                         /\ Len(sent[t]) <= Len(sent'[t])
                         /\ t # s => sent'[t] = sent[t]
    BY <1>0, <2>1, AppendProperties
  <2>5. \A t \in Sides : sent'[t] # <<>> => Opened(t)'
    BY <1>0, <1>2, <2>1, <2>2, <2>4 DEF Counted
  <2>6. \A t \in Sides : Len(got'[t]) <= Len(sent'[Peer(t)])
    BY <1>0, <2>2, <2>3, <2>4, SideFacts DEF Counted
  <2>7. sent'["server"] # <<>> => got'["server"] # <<>>
    BY <1>0, <2>3, <2>4, SideFacts DEF Counted
  <2>8. \A t \in Sides : CountsOf(t)'
    <3>1. CASE Note(s, m)
      <4>1. nonce' = [nonce EXCEPT ![s].open = @ + 1] /\ sent' = sent
        BY <3>1 DEF Note
      <4>2. /\ nonce'[s].seal = nonce[s].seal + 0 /\ nonce'[s].open = nonce[s].open + 1
            /\ \A t \in Sides : t # s => nonce'[t] = nonce[t]
        BY <4>1, NonceTurns DEF IInv
      <4>3. CountsOf(s)'
        BY <1>0, <1>00, <2>2, <2>3, <2>4, <4>1, <4>2 DEF CountsOf
      <4> QED BY <1>00, <2>3, <4>1, <4>2, <4>3, CountsTurn
    <3>2. CASE Reply(s, m, a)
      <4>1. /\ nonce' = [nonce EXCEPT ![s].open = @ + 1, ![s].seal = @ + 2]
            /\ sent' = [sent EXCEPT ![s] = Append(@, a)]
        BY <3>2 DEF Reply
      <4>2. /\ nonce'[s].seal = nonce[s].seal + 2 /\ nonce'[s].open = nonce[s].open + 1
            /\ \A t \in Sides : t # s => nonce'[t] = nonce[t]
        BY <4>1, NonceTurns DEF IInv
      <4>3. Len(sent'[s]) = Len(sent[s]) + 1
        BY <1>0, <4>1, AppendProperties
      <4>4. CountsOf(s)'
        BY <1>0, <1>00, <2>2, <2>3, <2>4, <4>2, <4>3 DEF CountsOf
      <4> QED BY <1>00, <2>3, <2>4, <4>2, <4>4, CountsTurn
    <3> QED BY <1>9, <3>1, <3>2
  <2> QED BY <2>5, <2>6, <2>7, <2>8 DEF Counted, CountsOf
<1> QED BY <1>3, <1>4, <1>5, <1>6, <1>7, <1>8, <1>9 DEF Step

-----------------------------------------------------------------------------
(* The theorems.                                                           *)

LEMMA InitIInv == Init => IInv
<1> SUFFICES ASSUME Init PROVE IInv
  OBVIOUS
<1>1. \A S : <<>> \in Seq(S) /\ Len(<<>>) = 0
  OBVIOUS
<1>2. ChunkLen \in Nat \ {0} /\ HelloLen \in Nat \ {0}
  BY LengthAssumption
<1>3. TypeOK
  <2>1. nonce \in [Sides -> [seal : Nat, open : Nat]]
    BY DEF Init
  <2>2. /\ sent \in [Sides -> Seq(Messages)] /\ got \in [Sides -> Seq(Messages)]
        /\ \A s \in Sides : Len(buf[s]) <= size[s]
    BY <1>1 DEF Init
  <2>3. /\ setting \in Settings /\ genuine \in BOOLEAN /\ size \in [Sides -> {0, ChunkLen}]
        /\ pc \in [Sides -> {"step_0", "step_1", "step_2", "send", "loop", "listen", "closed"}]
        /\ phase \in [Sides -> {"handshake", "transport"}]
    BY DEF Init
  <2> QED BY <2>1, <2>2, <2>3 DEF TypeOK
<1>4. InTransit
  BY <1>1 DEF Init, InTransit
<1>5. Stages /\ Quiet
  BY <1>1, <1>2, SideFacts DEF Init, Stages, Quiet, Opened
<1>6. Counted
  BY <1>1, SideFacts DEF Init, Counted
<1> QED BY <1>3, <1>4, <1>5, <1>6 DEF IInv

LEMMA StutterIInv == IInv /\ UNCHANGED vars => IInv'
<1> SUFFICES ASSUME IInv, UNCHANGED vars PROVE IInv'
  OBVIOUS
<1>1. TypeOK'
  BY DEF IInv, TypeOK, vars
<1>2. InTransit' /\ Stages' /\ Quiet'
  BY DEF IInv, InTransit, Authentic, Claims, Stages, Opened, Quiet, vars
<1>3. Counted'
  BY DEF IInv, Counted, Opened, vars
<1> QED BY <1>1, <1>2, <1>3 DEF IInv

\* The strengthened invariant: every byte under way is authentic, the nonces
\* count the histories, and the programs stand where their codecs are.
THEOREM SessionInvariant == Spec => []IInv
<1>1. IInv /\ [Next]_vars => IInv'
  <2>1. IInv /\ Next => IInv'
    BY StepCases, TypeStep, InTransitStep, StagesStep, CountedStep, QuietStep DEF IInv
  <2> QED BY <2>1, StutterIInv
<1> QED BY InitIInv, <1>1, PTL DEF Spec

\* Type correctness of the two programs of a connection, their histories and
\* their read loops, which never gather more than the decoder asked for.
THEOREM SessionTypeOK == Spec => []TypeOK
<1>1. IInv => TypeOK
  BY DEF IInv
<1> QED BY SessionInvariant, <1>1, PTL

\* The client's one large read of the handshake finds nothing but the answer:
\* for every script and every server, no byte of a frame is there to be lost.
THEOREM NothingIsSwallowed == Spec => []NothingSwallowed
<1>1. IInv => NothingSwallowed
  <2> SUFFICES ASSUME IInv, pc["client"] = "step_2" PROVE Len(stream["client"]) <= HelloLen
    BY DEF NothingSwallowed
  <2>1. ~Opened("client")
    BY DEF IInv, Stages, Opened
  <2>2. sent["client"] = <<>>
    BY <2>1, SideFacts DEF IInv, Counted
  <2>3. got["server"] = <<>>
    <3>1. got["server"] \in Seq(Messages) /\ Len(got["server"]) <= Len(sent["client"])
      BY SideFacts DEF IInv, TypeOK, Counted
    <3> QED BY <2>2, <3>1
  <2>4. sent["server"] = <<>>
    BY <2>3 DEF IInv, Counted
  <2> QED BY <2>4 DEF IInv, Quiet
<1> QED BY SessionInvariant, <1>1, PTL

-----------------------------------------------------------------------------
(* The refinement.                                                         *)

OpenEnds == {s \in Sides : phase[s] = "transport" /\ (s = "server" => genuine)}

LEMMA OpenEndsMembers == \A s : s \in OpenEnds <=> s \in Sides /\ Opened(s)
  BY DEF OpenEnds, Opened

LEMMA ChannelOpens ==
  ASSUME NEW s \in Sides, s = "client" => Opened("server"),
         \A t \in Sides : Opened(t)' <=> Opened(t) \/ t = s,
         UNCHANGED <<sent, got>>
  PROVE  Channel!Next
<1>1. OpenEnds' = OpenEnds \cup {s}
  BY DEF OpenEnds, Opened
<1>2. s = "client" => "server" \in OpenEnds
  BY SideFacts, OpenEndsMembers
<1>3. Channel!Open(s)
  BY <1>1, <1>2 DEF Channel!Open, OpenEnds
<1> QED BY <1>3 DEF Channel!Next, Channel!Sides, Sides

LEMMA ChannelSends ==
  ASSUME NEW s \in Sides, NEW m \in Messages, Opened(s),
         sent' = [sent EXCEPT ![s] = Append(@, m)], UNCHANGED <<phase, genuine, got>>
  PROVE  Channel!Next
<1>1. s \in OpenEnds /\ OpenEnds' = OpenEnds
  BY OpenEndsMembers DEF OpenEnds
<1>2. Channel!Send(s, m)
  BY <1>1 DEF Channel!Send, OpenEnds
<1> QED BY <1>2 DEF Channel!Next, Channel!Sides, Sides

LEMMA ChannelReceives ==
  ASSUME IInv, NEW s \in Sides, NEW m \in Messages, Receive(s, m),
         sent' = sent \/ \E a \in Messages : sent' = [sent EXCEPT ![s] = Append(@, a)]
  PROVE  Channel!Next
<1>1. /\ Opened(s) /\ Len(got[s]) < Len(sent[Peer(s)])
      /\ m = sent[Peer(s)][Len(got[s]) + 1]
  BY PayloadIsNext
<1>2. UNCHANGED <<phase, genuine>> /\ got' = [got EXCEPT ![s] = Append(@, m)]
  BY DEF Receive
<1>3. s \in OpenEnds /\ OpenEnds' = OpenEnds
  BY <1>1, <1>2, OpenEndsMembers DEF OpenEnds
<1>4. Peer(s) = Channel!Peer(s)
  BY DEF Peer, Channel!Peer
<1>5. got' = [got EXCEPT ![s] = Append(@, sent[Channel!Peer(s)][Len(@) + 1])]
  BY <1>1, <1>2, <1>4
<1>6. Len(got[s]) < Len(sent[Channel!Peer(s)])
  BY <1>1, <1>4
<1>7. CASE sent' = sent
  <2>1. Channel!Receive(s)
    BY <1>3, <1>5, <1>6, <1>7 DEF Channel!Receive, OpenEnds
  <2> QED BY <2>1 DEF Channel!Next, Channel!Sides, Sides
<1>8. ASSUME NEW a \in Messages, sent' = [sent EXCEPT ![s] = Append(@, a)]
      PROVE  Channel!Next
  <2>1. Channel!ReceiveAndSend(s, a)
    BY <1>3, <1>5, <1>6, <1>8 DEF Channel!ReceiveAndSend, OpenEnds
  <2> QED BY <2>1 DEF Channel!Next, Channel!Sides, Sides
<1> QED BY <1>7, <1>8

LEMMA ChannelStep ==
  ASSUME IInv, Step
  PROVE  Channel!Next \/ UNCHANGED Channel!vars
<1>0. phase \in [Sides -> {"handshake", "transport"}] /\ Stages
  BY DEF IInv, TypeOK
<1>1. ASSUME UNCHANGED <<phase, genuine, sent, got>>
      PROVE  UNCHANGED Channel!vars
  BY <1>1 DEF Channel!vars
<1>2. CASE ClientStep0 \/ ScriptDone
  BY <1>1, <1>2 DEF ClientStep0, ScriptDone
<1>3. CASE ClientStep2
  <2>1. UNCHANGED <<genuine, sent, got>>
    BY <1>3, ClientStep2Facts
  <2>2. CASE phase' = [phase EXCEPT !["client"] = "transport"] /\ Opened("server")
    <3>1. \A t \in Sides : Opened(t)' <=> Opened(t) \/ t = "client"
      BY <1>0, <2>1, <2>2 DEF Opened
    <3> QED BY <2>1, <2>2, <3>1, SideFacts, ChannelOpens
  <2>3. CASE phase' = phase
    BY <1>1, <2>1, <2>3
  <2> QED BY <1>3, <2>2, <2>3, ClientStep2Facts
<1>4. ASSUME NEW n \in 1 .. HelloLen, ServerReads(n), Accept(n)
      PROVE  Channel!Next \/ UNCHANGED Channel!vars
  <2>1. /\ phase["server"] = "handshake" /\ phase' = [phase EXCEPT !["server"] = "transport"]
        /\ genuine' = (n = HelloLen) /\ UNCHANGED <<sent, got>>
    BY <1>0, <1>4 DEF Accept, ServerReads, Stages
  <2>2. CASE n = HelloLen
    <3>1. \A t \in Sides : Opened(t)' <=> Opened(t) \/ t = "server"
      BY <1>0, <2>1, <2>2 DEF Opened
    <3> QED BY <2>1, <3>1, SideFacts, ChannelOpens
  <2>3. CASE n # HelloLen
    <3>1. \A t \in Sides : Opened(t)' <=> Opened(t)
      BY <1>0, <2>1, <2>3 DEF Opened
    <3>2. OpenEnds' = OpenEnds
      BY <3>1 DEF OpenEnds, Opened
    <3> QED BY <2>1, <3>2 DEF Channel!vars, OpenEnds
  <2> QED BY <2>2, <2>3
<1>5. ASSUME NEW n \in 1 .. HelloLen, Refuse(n)
      PROVE  UNCHANGED Channel!vars
  BY <1>1, <1>5 DEF Refuse
<1>6. ASSUME NEW s \in Sides,
             Trigger(s) \/ ReadMore(s) \/ DecodeHeader(s) \/ Stops(s) \/ IoError(s)
      PROVE  UNCHANGED Channel!vars
  BY <1>1, <1>6 DEF Trigger, ReadMore, DecodeHeader, Stops, IoError
<1>7. ASSUME NEW s \in Sides, NEW m \in Messages, Says(s, m)
      PROVE  Channel!Next
  BY <1>7, ChannelSends DEF Says, Write
<1>8. ASSUME NEW s \in Sides, NEW m \in Messages, Note(s, m)
      PROVE  Channel!Next
  BY <1>8, ChannelReceives DEF Note
<1>9. ASSUME NEW s \in Sides, NEW m \in Messages, NEW a \in Messages, Reply(s, m, a)
      PROVE  Channel!Next
  BY <1>9, ChannelReceives DEF Reply
<1> QED BY <1>2, <1>3, <1>4, <1>5, <1>6, <1>7, <1>8, <1>9 DEF Step

\* The two programs and the bytes between them implement a secure channel:
\* however the frames are cut up, delayed, cut short by a send or lost with the
\* connection, the messages one end decodes are the first that the other sent.
THEOREM SessionImplementsChannel == Spec => ImplementsChannel
<1>1. Init => Channel!Init
  <2> SUFFICES ASSUME Init PROVE Channel!Init
    OBVIOUS
  <2>1. \A s \in Sides : phase[s] # "transport"
    BY DEF Init
  <2>2. OpenEnds = {}
    BY <2>1 DEF OpenEnds
  <2>3. Sides = Channel!Sides
    BY DEF Sides, Channel!Sides
  <2> QED BY <2>2, <2>3 DEF Init, Channel!Init, OpenEnds
<1>2. IInv /\ [Next]_vars => [Channel!Next]_Channel!vars
  <2>1. IInv /\ UNCHANGED vars => UNCHANGED Channel!vars
    BY DEF vars, Channel!vars
  <2>2. IInv /\ Next => Channel!Next \/ UNCHANGED Channel!vars
    BY StepCases, ChannelStep
  <2> QED BY <2>1, <2>2
<1> QED BY SessionInvariant, <1>1, <1>2, PTL DEF Spec, ImplementsChannel, Channel!Spec

\* What each program has decoded is a beginning of what the other one sent.
HeardInOrder ==
  \A s \in Sides :
    /\ Len(got[s]) <= Len(sent[Peer(s)])
    /\ \A k \in 1 .. Len(got[s]) : got[s][k] = sent[Peer(s)][k]

LEMMA HeardStep ==
  ASSUME TypeOK, HeardInOrder, Channel!Next
  PROVE  HeardInOrder'
<1>1. PICK r \in Sides :
        /\ \/ got' = got
           \/ /\ Len(got[r]) < Len(sent[Peer(r)])
              /\ got' = [got EXCEPT ![r] = Append(@, sent[Peer(r)][Len(@) + 1])]
        /\ sent' = sent \/ \E m \in Messages : sent' = [sent EXCEPT ![r] = Append(@, m)]
  BY DEF Channel!Next, Channel!Open, Channel!Send, Channel!Receive, Channel!ReceiveAndSend,
         Channel!Sides, Sides, Channel!Peer, Peer
<1>2. sent \in [Sides -> Seq(Messages)] /\ got \in [Sides -> Seq(Messages)]
  BY DEF TypeOK
<1>3. ASSUME NEW s \in Sides
      PROVE  /\ Len(sent[s]) <= Len(sent'[s]) /\ Len(sent'[s]) \in Nat
             /\ \A k \in 1 .. Len(sent[s]) : sent'[s][k] = sent[s][k]
  <2>1. sent'[s] = sent[s] \/ \E m \in Messages : sent'[s] = Append(sent[s], m)
    BY <1>1, <1>2
  <2>2. sent[s] \in Seq(Messages)
    BY <1>2
  <2> QED BY <2>1, <2>2, AppendProperties
<1>4. ASSUME NEW s \in Sides
      PROVE  /\ Len(got'[s]) <= Len(sent[Peer(s)])
             /\ \A k \in 1 .. Len(got'[s]) : got'[s][k] = sent[Peer(s)][k]
  <2>1. got[s] \in Seq(Messages) /\ sent[Peer(s)] \in Seq(Messages)
    BY <1>2, SideFacts
  <2>2. /\ Len(got[s]) <= Len(sent[Peer(s)])
        /\ \A k \in 1 .. Len(got[s]) : got[s][k] = sent[Peer(s)][k]
    BY DEF HeardInOrder
  <2>3. \/ got'[s] = got[s]
        \/ /\ Len(got[s]) < Len(sent[Peer(s)])
           /\ got'[s] = Append(got[s], sent[Peer(s)][Len(got[s]) + 1])
    BY <1>1, <1>2
  <2>4. CASE got'[s] = got[s]
    BY <2>2, <2>4
  <2>5. ASSUME Len(got[s]) < Len(sent[Peer(s)]),
               got'[s] = Append(got[s], sent[Peer(s)][Len(got[s]) + 1])
        PROVE  /\ Len(got'[s]) <= Len(sent[Peer(s)])
               /\ \A k \in 1 .. Len(got'[s]) : got'[s][k] = sent[Peer(s)][k]
    <3> DEFINE p == sent[Peer(s)]
               q == got[s]
               m == p[Len(q) + 1]
    <3>1. m \in Messages /\ Len(p) \in Nat /\ Len(q) \in Nat
      BY <2>1, <2>5, ElementOfSeq
    <3>2. /\ Len(Append(q, m)) = Len(q) + 1
          /\ \A k \in 1 .. Len(q) : Append(q, m)[k] = q[k]
          /\ Append(q, m)[Len(q) + 1] = m
      BY <2>1, <3>1, AppendProperties
    <3> QED BY <2>2, <2>5, <3>1, <3>2
  <2> QED BY <2>3, <2>4, <2>5
<1>5. ASSUME NEW s \in Sides
      PROVE  /\ Len(got'[s]) <= Len(sent'[Peer(s)])
             /\ \A k \in 1 .. Len(got'[s]) : got'[s][k] = sent'[Peer(s)][k]
  <2>1. Peer(s) \in Sides /\ sent[Peer(s)] \in Seq(Messages)
    BY <1>2, SideFacts
  <2>2. /\ Len(sent[Peer(s)]) <= Len(sent'[Peer(s)]) /\ Len(sent'[Peer(s)]) \in Nat
        /\ \A k \in 1 .. Len(sent[Peer(s)]) : sent'[Peer(s)][k] = sent[Peer(s)][k]
    BY <1>3, <2>1
  <2>3. got'[s] \in Seq(Messages)
    <3>1. got[s] \in Seq(Messages)
      BY <1>2
    <3>2. \/ got'[s] = got[s]
          \/ /\ Len(got[s]) < Len(sent[Peer(s)])
             /\ got'[s] = Append(got[s], sent[Peer(s)][Len(got[s]) + 1])
      BY <1>1, <1>2
    <3>3. ASSUME Len(got[s]) < Len(sent[Peer(s)])
          PROVE  sent[Peer(s)][Len(got[s]) + 1] \in Messages
      BY <2>1, <3>1, <3>3, ElementOfSeq
    <3> QED BY <3>1, <3>2, <3>3, AppendProperties
  <2> QED BY <1>4, <2>1, <2>2, <2>3
<1> QED BY <1>5 DEF HeardInOrder

\* For the programs: what one has decoded is a beginning of what the other
\* sent, in content and order, at every moment of every connection.
THEOREM WhatIsHeardWasSaid == Spec => []HeardInOrder
<1>1. Init => HeardInOrder
  BY SideFacts DEF Init, HeardInOrder
<1>2. IInv /\ HeardInOrder /\ [Channel!Next]_Channel!vars => HeardInOrder'
  <2>1. IInv /\ HeardInOrder /\ UNCHANGED Channel!vars => HeardInOrder'
    BY DEF Channel!vars, HeardInOrder
  <2>2. IInv /\ HeardInOrder /\ Channel!Next => HeardInOrder'
    BY HeardStep DEF IInv
  <2> QED BY <2>1, <2>2
<1>3. Spec => [][Channel!Next]_Channel!vars
  BY SessionImplementsChannel, PTL DEF ImplementsChannel, Channel!Spec
<1> QED BY SessionInvariant, <1>1, <1>2, <1>3, PTL DEF Spec

=============================================================================

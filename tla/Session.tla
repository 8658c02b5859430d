------------------------------- MODULE Session -------------------------------
(***************************************************************************)
(* One TCP connection between a client and a server built on the codec:    *)
(* performHandshake and exchangeMessages of go/examples/client_example,    *)
(* handleConn of go/examples/server_example, their Python versions in      *)
(* python/examples, and template_distribution_example.py, which also talks *)
(* to a Template Provider.  Each end owns one codec state, one encoder and *)
(* one decoder and uses them from one thread, so a call of the codec is    *)
(* one step here: Sv2Codec shows what such use guarantees.                 *)
(*                                                                         *)
(* The streams are sequences of bytes.  TCP may hand over any non-empty    *)
(* prefix of what has arrived, and may lose the tail when it breaks.  The  *)
(* Python programs ignore what socket.send returns, so a message of theirs *)
(* may reach the stream cut short.                                         *)
(***************************************************************************)
EXTENDS Integers, Sequences, SequencesExt

CONSTANTS
  Settings,    \* who talks to whom, and over what: see SettingsAssumption
  Script,      \* what each client sends first; <<"setup">> is the examples' own
  HelloLen,    \* bytes of a handshake message
  ChunkLen,    \* bytes of a sealed header or payload
  MaxPushed    \* bound: messages a Template Provider sends

ASSUME SettingsAssumption ==
  Settings \subseteq [client   : {"go", "python", "template"},
                      server   : {"go", "python", "provider"},
                      reliable : BOOLEAN,   \* the connection never breaks
                      whole    : BOOLEAN]   \* socket.send takes everything
ASSUME ScriptAssumption == Script \in [{"go", "python", "template"} -> Seq({"setup", "other"})]
ASSUME LengthAssumption == ChunkLen \in Nat \ {0} /\ HelloLen \in Nat \ {0}
ASSUME BoundAssumption  == MaxPushed \in Nat

VARIABLES
  setting,  \* the member of Settings this behaviour is about
  pc,       \* where each program stands
  phase,    \* HandshakeRole or Transport of each codec state
  genuine,  \* the responder's keys come from the initiator's own message
  nonce,    \* nonces of the next chunk each end seals and opens
  size,     \* what buffer_size() of each decoder answers
  buf,      \* bytes the read loop of each end has gathered
  stream,   \* bytes travelling towards each end
  sent,     \* history: messages each end has encoded and written
  got       \* history: messages each end has decoded

vars == <<setting, pc, phase, genuine, nonce, size, buf, stream, sent, got>>

Sides    == {"client", "server"}
Peer(s)  == IF s = "client" THEN "server" ELSE "client"
Messages == {"setup", "other", "success", "error", "constraints", "template"}

\* The programs at the two ends.
Program(s) == IF s = "client" THEN setting.client ELSE setting.server

-----------------------------------------------------------------------------
(* Bytes.  A byte is told apart by the chunk it belongs to and its place.  *)

Bytes(chunk, len) == [i \in 1 .. len |-> [chunk |-> chunk, at |-> i]]

Hello == Bytes([kind |-> "hello", from |-> "client", n |-> 0], HelloLen)

\* The answer is bound to what the responder read: only a genuine one passes.
Answer(good) ==
  Bytes([kind |-> IF good THEN "answer" ELSE "bad answer", from |-> "server", n |-> 0], HelloLen)

Header(s, n)     == Bytes([kind |-> "header", from |-> s, n |-> n], ChunkLen)
Payload(s, n, m) == Bytes([kind |-> m, from |-> s, n |-> n], ChunkLen)

\* What encode returns: a sealed header and a sealed payload.
Frame(s, n, m) == Header(s, n) \o Payload(s, n + 1, m)

Drop(seq, n) == SubSeq(seq, n + 1, Len(seq))
Least(a, b)  == IF a < b THEN a ELSE b

\* What reaches the stream of what s writes: conn.Write takes all of it,
\* socket.send at least one byte.
Written(s, bytes) ==
  IF setting.whole \/ Program(s) \notin {"python", "template"}
    THEN {bytes}
    ELSE {SubSeq(bytes, 1, n) : n \in 1 .. Len(bytes)}

\* How much of what has arrived one read of at most limit bytes returns.
ReadSizes(s, limit) == 1 .. Least(Len(stream[s]), limit)

Init ==
  /\ setting \in Settings
  /\ pc      = [s \in Sides |-> IF s = "client" THEN "step_0" ELSE "step_1"]
  /\ phase   = [s \in Sides |-> "handshake"]
  /\ genuine = FALSE
  /\ nonce   = [s \in Sides |-> [seal |-> 0, open |-> 0]]
  /\ size    = [s \in Sides |-> 0]
  /\ buf     = [s \in Sides |-> <<>>]
  /\ stream  = [s \in Sides |-> <<>>]
  /\ sent    = [s \in Sides |-> <<>>]
  /\ got     = [s \in Sides |-> <<>>]

Goto(s, label) == pc' = [pc EXCEPT ![s] = label]

\* The function returns and its deferred calls close the socket.
Close(s) == Goto(s, "closed")

\* An error, or the end of the stream.  The exchange of the template client
\* only returns: its caller goes on to listen with the same decoder, and the
\* bytes gathered so far are forgotten.  Every other function ends the program.
GiveUp(s) ==
  IF Program(s) = "template" /\ pc[s] \in {"send", "loop"}
    THEN Goto(s, "listen") /\ buf' = [buf EXCEPT ![s] = <<>>]
    ELSE Close(s) /\ UNCHANGED buf

-----------------------------------------------------------------------------
(* The handshake.                                                          *)

\* performHandshake: step_0, and its message is written.
ClientStep0 ==
  /\ pc["client"] = "step_0"
  /\ \E bytes \in Written("client", Hello) :
       stream' = [stream EXCEPT !["server"] = @ \o bytes]
  /\ Goto("client", "step_2")
  /\ UNCHANGED <<setting, phase, genuine, nonce, size, buf, sent, got>>

\* One read into a buffer of the length of the message; n is what it returned.
ServerReads(n) ==
  /\ pc["server"] = "step_1"
  /\ n \in ReadSizes("server", HelloLen)

\* Mutant: the server speaks first, right behind its answer.
AcceptAndGreet(n) ==
  /\ phase'   = [phase EXCEPT !["server"] = "transport"]
  /\ genuine' = (n = HelloLen)
  /\ stream'  = [stream EXCEPT !["server"] = Drop(@, n),
       !["client"] = @ \o Answer(n = HelloLen) \o Frame("server", 0, "other")]
  /\ nonce'   = [nonce EXCEPT !["server"].seal = 2]
  /\ sent'    = [sent EXCEPT !["server"] = <<"other">>]
  /\ Goto("server", "loop")
  /\ UNCHANGED <<setting, size, buf, got>>

\* step_1 accepts the frame: the responder is in transport and answers.
Accept(n) ==
  /\ phase'   = [phase EXCEPT !["server"] = "transport"]
  /\ genuine' = (n = HelloLen)
  /\ \E bytes \in Written("server", Answer(n = HelloLen)) :
       stream' = [stream EXCEPT !["server"] = Drop(@, n), !["client"] = @ \o bytes]
  /\ Goto("server", "loop")
  /\ UNCHANGED <<setting, nonce, size, buf, sent, got>>

Refuse(n) ==
  /\ stream' = [stream EXCEPT !["server"] = Drop(@, n)]
  /\ Close("server")
  /\ UNCHANGED <<setting, phase, genuine, nonce, size, buf, sent, got>>

\* The Go server ignores how much it read and passes its whole buffer, zeros
\* included, to step_1; the library may accept any string of that length.
GoStep1 ==
  /\ setting.server = "go"
  /\ \E n \in 1 .. HelloLen :
       ServerReads(n) /\ (Accept(n) \/ (n # HelloLen /\ Refuse(n)))

\* The Python server gives up unless the message is whole.
PythonStep1 ==
  /\ setting.server = "python"
  /\ \E n \in 1 .. HelloLen :
       ServerReads(n) /\ IF n = HelloLen THEN Accept(n) ELSE Refuse(n)

\* The Template Provider waits for the whole message, or for the end.
ProviderStep1 ==
  /\ setting.server = "provider"
  /\ \E n \in 1 .. HelloLen :
       /\ ServerReads(n)
       /\ \/ n = HelloLen /\ Accept(n)
          \/ n < HelloLen /\ pc["client"] = "closed" /\ Refuse(n)

\* Mutant: step_2 looks at the length of the answer only.
ClientStep2Unbound ==
  /\ pc["client"] = "step_2"
  /\ \E n \in ReadSizes("client", Len(stream["client"])) :
       /\ stream' = [stream EXCEPT !["client"] = Drop(@, n)]
       /\ IF SubSeq(stream["client"], 1, n) \in {Answer(g) : g \in BOOLEAN}
            THEN phase' = [phase EXCEPT !["client"] = "transport"] /\ Goto("client", "send")
            ELSE Close("client") /\ UNCHANGED phase
  /\ UNCHANGED <<setting, genuine, nonce, size, buf, sent, got>>

\* One read into a buffer larger than the answer; step_2 refuses anything but
\* the whole answer to this client's own message.
ClientStep2 ==
  /\ pc["client"] = "step_2"
  /\ \E n \in ReadSizes("client", Len(stream["client"])) :
       /\ stream' = [stream EXCEPT !["client"] = Drop(@, n)]
       /\ IF SubSeq(stream["client"], 1, n) = Answer(TRUE)
            THEN phase' = [phase EXCEPT !["client"] = "transport"] /\ Goto("client", "send")
            ELSE Close("client") /\ UNCHANGED phase
  /\ UNCHANGED <<setting, genuine, nonce, size, buf, sent, got>>

-----------------------------------------------------------------------------
(* Messages.                                                               *)

\* encode, and the frame is written.
Write(s, m) ==
  /\ nonce' = [nonce EXCEPT ![s].seal = @ + 2]
  /\ \E bytes \in Written(s, Frame(s, nonce[s].seal, m)) :
       stream' = [stream EXCEPT ![Peer(s)] = @ \o bytes]
  /\ sent'  = [sent EXCEPT ![s] = Append(@, m)]

\* The client writes its script, then listens.
ClientSend ==
  /\ pc["client"] = "send"
  /\ LET script == Script[setting.client] IN
     IF Len(sent["client"]) < Len(script)
       THEN Write("client", script[Len(sent["client"]) + 1]) /\ UNCHANGED pc
       ELSE Goto("client", "loop") /\ UNCHANGED <<nonce, stream, sent>>
  /\ UNCHANGED <<setting, phase, genuine, size, buf, got>>

\* In one of the loops around buffer_size() and try_decode.
Looping(s) == pc[s] \in {"loop", "listen"}

\* buffer_size() is zero: try_decode of no bytes asks for a header.  The Go
\* server would sleep and try again if it did not, but a decoder that wants
\* nothing always does.
Trigger(s) ==
  /\ Looping(s)
  /\ size[s] = 0
  /\ size' = [size EXCEPT ![s] = ChunkLen]
  /\ UNCHANGED <<setting, pc, phase, genuine, nonce, buf, stream, sent, got>>

\* Mutant: one read is taken for the whole of what was asked.
ReadOnce(s) ==
  /\ Looping(s)
  /\ Len(buf[s]) < size[s]
  /\ \E n \in ReadSizes(s, size[s]) :
       /\ buf'    = [buf EXCEPT ![s] = @ \o SubSeq(stream[s], 1, n)]
       /\ stream' = [stream EXCEPT ![s] = Drop(@, n)]
  /\ UNCHANGED <<setting, pc, phase, genuine, nonce, size, sent, got>>

\* Read until buffer_size() bytes have been gathered, never more.
ReadMore(s) ==
  /\ Looping(s)
  /\ Len(buf[s]) < size[s]
  /\ \E n \in ReadSizes(s, size[s] - Len(buf[s])) :
       /\ buf'    = [buf EXCEPT ![s] = @ \o SubSeq(stream[s], 1, n)]
       /\ stream' = [stream EXCEPT ![s] = Drop(@, n)]
  /\ UNCHANGED <<setting, pc, phase, genuine, nonce, size, sent, got>>

\* try_decode has the bytes it asked for.
Ready(s) == Looping(s) /\ size[s] > 0 /\ Len(buf[s]) >= size[s]

IsHeader(s)     == buf[s] = Header(Peer(s), nonce[s].open)
IsPayload(s, m) == buf[s] = Payload(Peer(s), nonce[s].open, m)

\* A header: MissingBytes, the payload is to be read next.
DecodeHeader(s) ==
  /\ Ready(s) /\ IsHeader(s)
  /\ nonce' = [nonce EXCEPT ![s].open = @ + 1]
  /\ size'  = [size EXCEPT ![s] = ChunkLen]
  /\ buf'   = [buf EXCEPT ![s] = <<>>]
  /\ UNCHANGED <<setting, pc, phase, genuine, stream, sent, got>>

\* A payload: try_decode returns message m and resets buffer_size().
Receive(s, m) ==
  /\ Ready(s) /\ IsPayload(s, m)
  /\ got'  = [got EXCEPT ![s] = Append(@, m)]
  /\ size' = [size EXCEPT ![s] = 0]
  /\ buf'  = [buf EXCEPT ![s] = <<>>]
  /\ UNCHANGED <<setting, phase, genuine>>

\* s reads its message m and answers it with another one.
Reply(s, m, answer) ==
  /\ Receive(s, m)
  /\ nonce' = [nonce EXCEPT ![s].open = @ + 1, ![s].seal = @ + 2]
  /\ \E bytes \in Written(s, Frame(s, nonce[s].seal, answer)) :
       stream' = [stream EXCEPT ![Peer(s)] = @ \o bytes]
  /\ sent'  = [sent EXCEPT ![s] = Append(@, answer)]

\* s reads its message m and writes nothing.
Note(s, m) ==
  /\ Receive(s, m)
  /\ nonce' = [nonce EXCEPT ![s].open = @ + 1]
  /\ UNCHANGED <<stream, sent>>

\* The server answers a SetupConnection and ignores any other message.
ServerHandle(m) ==
  /\ setting.server # "provider"
  /\ IF m = "setup" THEN Reply("server", m, "success") ELSE Note("server", m)
  /\ UNCHANGED pc

\* The client leaves at the first SetupConnectionSuccess.
ClientHandle(m) ==
  /\ setting.client # "template"
  /\ Note("client", m)
  /\ IF m = "success" THEN Close("client") ELSE UNCHANGED pc

\* Mutant: the template client returns after the answer, whatever it is.
TemplateAnsweredReturns(m) ==
  /\ setting.client = "template" /\ pc["client"] = "loop"
  /\ Note("client", m)
  /\ Goto("client", "listen")

\* The template client sends CoinbaseOutputConstraints once it has its
\* SetupConnectionSuccess; any other answer sends it on to listen all the same.
TemplateAnswered(m) ==
  /\ setting.client = "template" /\ pc["client"] = "loop"
  /\ IF m = "success" THEN Reply("client", m, "constraints") ELSE Note("client", m)
  /\ Goto("client", "listen")

\* Then it prints what it decodes, with the decoder it already has.
TemplateListen(m) ==
  /\ setting.client = "template" /\ pc["client"] = "listen"
  /\ Note("client", m)
  /\ UNCHANGED pc

\* The Template Provider accepts the connection or not, and sends a template
\* as soon as it has the constraints.
ProviderHandle(m) ==
  /\ setting.server = "provider"
  /\ IF m = "setup"
       THEN \E answer \in {"success", "error"} : Reply("server", m, answer)
       ELSE Reply("server", m, "template")
  /\ UNCHANGED pc

\* It sends further templates as it likes, up to MaxPushed messages,
ProviderPush ==
  /\ setting.server = "provider" /\ pc["server"] = "loop"
  /\ "constraints" \in ToSet(got["server"]) /\ Len(sent["server"]) < MaxPushed
  /\ Write("server", "template")
  /\ UNCHANGED <<setting, pc, phase, genuine, size, buf, got>>

\* and may close the connection once it has answered.
ProviderLeave ==
  /\ setting.server = "provider" /\ sent["server"] # <<>> /\ pc["server"] = "loop"
  /\ Close("server")
  /\ UNCHANGED <<setting, phase, genuine, nonce, size, buf, stream, sent, got>>

\* Anything else is a decode error; buffer_size() stays what it was.
DecodeError(s) ==
  /\ Ready(s) /\ ~IsHeader(s) /\ \A m \in Messages : ~IsPayload(s, m)
  /\ GiveUp(s)
  /\ UNCHANGED <<setting, phase, genuine, nonce, size, stream, sent, got>>

-----------------------------------------------------------------------------
(* The end of the connection.                                              *)

Reading(s) == pc[s] \in {"step_1", "step_2"} \/ (Looping(s) /\ Len(buf[s]) < size[s])

\* Mutant: a closed connection is not noticed during the handshake.
EofAfterHandshake(s) ==
  /\ Looping(s) /\ Reading(s) /\ stream[s] = <<>> /\ pc[Peer(s)] = "closed"
  /\ GiveUp(s)
  /\ UNCHANGED <<setting, phase, genuine, nonce, size, stream, sent, got>>

\* Mutant: it is not noticed in the middle of a chunk.
EofBetweenChunks(s) ==
  /\ Reading(s) /\ stream[s] = <<>> /\ pc[Peer(s)] = "closed" /\ buf[s] = <<>>
  /\ GiveUp(s)
  /\ UNCHANGED <<setting, phase, genuine, nonce, size, stream, sent, got>>

\* The peer has closed and everything it wrote has been read.
Eof(s) ==
  /\ Reading(s) /\ stream[s] = <<>> /\ pc[Peer(s)] = "closed"
  /\ GiveUp(s)
  /\ UNCHANGED <<setting, phase, genuine, nonce, size, stream, sent, got>>

\* The Python client's socket.settimeout(10): nothing has come in time.
TimeOut ==
  /\ setting.client = "python"
  /\ Reading("client") /\ stream["client"] = <<>>
  /\ Close("client")
  /\ UNCHANGED <<setting, phase, genuine, nonce, size, buf, stream, sent, got>>

\* A read or a write fails, because the network broke or the peer is gone.
\* What was under way to the peer may be lost, from some byte on.
IoError(s) ==
  /\ Reading(s) \/ pc[s] \in {"step_0", "send"}
  /\ ~setting.reliable \/ pc[Peer(s)] = "closed"
  /\ GiveUp(s)
  /\ \E n \in 0 .. Len(stream[Peer(s)]) :
       stream' = [stream EXCEPT ![Peer(s)] = SubSeq(@, 1, n)]
  /\ UNCHANGED <<setting, phase, genuine, nonce, size, sent, got>>

-----------------------------------------------------------------------------
(* The specification.                                                      *)

Loop(s) == Trigger(s) \/ ReadMore(s) \/ DecodeHeader(s) \/ DecodeError(s) \/ Eof(s)

Client ==
  \/ ClientStep0 \/ ClientStep2 \/ ClientSend \/ Loop("client") \/ TimeOut
  \/ \E m \in Messages : ClientHandle(m) \/ TemplateAnswered(m) \/ TemplateListen(m)

ServerProgram ==
  \/ GoStep1 \/ PythonStep1 \/ ProviderStep1 \/ Loop("server")
  \/ \E m \in Messages : ServerHandle(m) \/ ProviderHandle(m)

Ended == \A s \in Sides : pc[s] = "closed"

Next ==
  \/ Client \/ ServerProgram \/ ProviderPush \/ ProviderLeave
  \/ \E s \in Sides : IoError(s)

Spec == Init /\ [][Next]_vars

\* Both programs run, and the network delivers.  IoError, and what a Template
\* Provider does unasked, are never owed.
FairSpec == Spec /\ WF_vars(Client) /\ WF_vars(ServerProgram)

-----------------------------------------------------------------------------
(* Properties.                                                             *)

TypeOK ==
  /\ setting \in Settings
  /\ pc \in [Sides -> {"step_0", "step_1", "step_2", "send", "loop", "listen", "closed"}]
  /\ phase \in [Sides -> {"handshake", "transport"}]
  /\ genuine \in BOOLEAN
  /\ nonce \in [Sides -> [seal: Nat, open: Nat]]
  /\ size \in [Sides -> {0, ChunkLen}]
  /\ sent \in [Sides -> Seq(Messages)]
  /\ got \in [Sides -> Seq(Messages)]
  /\ \A s \in Sides : Len(buf[s]) <= size[s]

\* The client's one large handshake read can never swallow bytes of a frame:
\* the server says nothing after its answer until the client is past the read.
NothingSwallowed == pc["client"] = "step_2" => Len(stream["client"]) <= HelloLen

\* "read 64 bytes from initiator, respond with step1" (server_example/main.go:81):
\* a responder in transport has answered the initiator's own message.
ResponderIsGenuine == phase["server"] = "transport" => genuine

\* However the bytes are cut up, delayed, lost or left behind by a short
\* send, the two programs see a channel: ordered messages, none invented, an
\* end open only when it shares its keys with the other.
Channel == INSTANCE SecureChannel WITH
  Messages <- Messages, sent <- sent, got <- got,
  open <- {s \in Sides : phase[s] = "transport" /\ (s = "server" => genuine)}
ImplementsChannel == Channel!Spec

\* Nothing takes bytes or time away from the programs.
Undisturbed == setting.reliable /\ setting.whole /\ setting.client # "python"

\* Only a Template Provider may leave while a client still waits.
ProviderLeft == setting.server = "provider" /\ pc["server"] = "closed"

\* When nothing breaks, a client that is through the handshake gets its
\* answer, however the frames are cut up.
ExchangeCompletes ==
  (Undisturbed /\ phase["client"] = "transport") ~> (got["client"] # <<>> \/ ProviderLeft)

\* When nothing breaks, the constraints of a template client that was accepted
\* arrive, although the wait for the answer and the loop that listens afterwards
\* are two functions that share one decoder.
ConstraintsArrive ==
  (Undisturbed /\ setting.client = "template" /\ "success" \in ToSet(sent["server"]))
    ~> ("constraints" \in ToSet(got["server"]) \/ ProviderLeft)

\* Programs that write whole messages, and any with a time limit, never wait for
\* ever: lost bytes and refused handshakes end in both ends closing.  Only the
\* template client is meant to listen on.
SessionEnds ==
  (setting.client # "template" /\ (setting.whole \/ setting.client = "python")) => <>Ended

\* Once one end has closed, the other notices, whatever it was reading, and in
\* the middle of whichever chunk: even a template client that went on to listen.
\* The network delivers the close, also when it lost bytes.
CloseIsFollowed == \A s \in Sides : pc[s] = "closed" ~> Ended

=============================================================================

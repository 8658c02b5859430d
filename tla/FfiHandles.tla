------------------------------ MODULE FfiHandles ------------------------------
(***************************************************************************)
(* Who owns what crosses the C ABI of ffi.rs, as go/sv2/ffi.go and the two *)
(* Go examples use it.  Rust hands out states, encoders, decoders and      *)
(* messages as raw boxes, and encoded bytes as raw buffers; Go must give   *)
(* each back once.  A goroutine runs one connection: the client of         *)
(* client_example or handleConn of server_example, which is started once   *)
(* for every connection.  All of them share the allocator.                 *)
(*                                                                         *)
(* What the codec answers is a free choice between success, missing bytes  *)
(* and failure: Sv2Codec says when it is which.                            *)
(***************************************************************************)
EXTENDS Naturals, Sequences, SequencesExt

CONSTANTS
  Goroutines,
  Program,     \* what each goroutine runs: "client" or "server"
  NCells,      \* pieces of memory the allocator has
  Words        \* what may stand in the memory in front of a new state

ASSUME ProgramAssumption == Program \in [Goroutines -> {"client", "server"}]
ASSUME CellAssumption    == NCells \in Nat
ASSUME WordAssumption    == Words \subseteq {"zero", "other"} /\ Words # {}

VARIABLES
  heap,      \* what each cell holds
  before,    \* the word in front of the cell, as Arc would read it
  pc,        \* where each goroutine stands
  ptr,       \* the ptr field of each wrapper a goroutine holds, or Nil
  deferred   \* the handles its deferred calls will free, the last one first

vars == <<heap, before, pc, ptr, deferred>>

Cells == 1 .. NCells
Nil   == 0

\* The messages sv2_encode and the getters know, and the rest.
MessageKinds == {"SetupConnection", "SetupConnectionSuccess", "other message"}
Objects      == {"state", "encoder", "decoder", "buffer"} \cup MessageKinds

\* The wrappers of a goroutine: setup, message and answer are *Messages.
Holds == [state |-> {"state"}, encoder |-> {"encoder"}, decoder |-> {"decoder"},
          setup |-> {"SetupConnection"}, message |-> MessageKinds,
          answer |-> {"SetupConnectionSuccess"}, buffer |-> {"buffer"}]
Slots == DOMAIN Holds

Init ==
  /\ heap     = [c \in Cells |-> "free"]
  /\ before   = [c \in Cells |-> "other"]
  /\ pc       = [g \in Goroutines |-> "create"]
  /\ ptr      = [g \in Goroutines |-> [s \in Slots |-> Nil]]
  /\ deferred = [g \in Goroutines |-> <<>>]

-----------------------------------------------------------------------------
(* The C ABI.  Memory that was freed is soon handed out again, which is the *)
(* worst that can happen to a handle that outlived its object.  Without    *)
(* memory the process aborts.                                              *)

Fresh     == CHOOSE c \in Cells : heap[c] = "free"
HasMemory == {c \in Cells : heap[c] = "free"} # {}

\* Box::into_raw: the new object's address goes to a wrapper.
Alloc(g, slot, object) ==
  /\ HasMemory
  /\ heap' = [heap EXCEPT ![Fresh] = object]
  /\ ptr'  = [ptr EXCEPT ![g][slot] = Fresh]

\* drop(Box::from_raw(..)) of what some wrappers hold; a null pointer is let be.
Released(g, slots) == [c \in Cells |-> IF c \in {ptr[g][s] : s \in slots} THEN "free" ELSE heap[c]]

\* Mutant: Free leaves the pointer as it is.
FreeKeeping(g, slots) ==
  /\ heap' = Released(g, slots)
  /\ UNCHANGED ptr

\* The wrappers' Free: the pointer is cleared behind the call.
Free(g, slots) ==
  /\ heap' = Released(g, slots)
  /\ ptr'  = [ptr EXCEPT ![g] = [s \in Slots |-> IF s \in slots THEN Nil ELSE @[s]]]

\* sv2_new_initiator, sv2_new_responder; what lies in front is not theirs.
NewState(g) ==
  /\ Alloc(g, "state", "state")
  /\ \E w \in Words : before' = [before EXCEPT ![Fresh] = w]

\* sv2_encode and sv2_try_decode make an Arc of the box: the word in front of
\* the state is counted up and down again.  A count that comes down to zero
\* drops the state, whatever the box thinks.
ArcRoundTrip(g, h) ==
  LET c == ptr[g]["state"] IN
  IF before[c] = "zero" THEN [h EXCEPT ![c] = "dropped"] ELSE h

\* Encode: the frame arrives in a buffer that Go frees when it has copied it.
Encode(g) ==
  /\ HasMemory
  /\ heap' = ArcRoundTrip(g, [heap EXCEPT ![Fresh] = "buffer"])
  /\ ptr'  = [ptr EXCEPT ![g]["buffer"] = Fresh]

\* It fails: no buffer is written, and some other wrappers are freed next.
EncodeFails(g, slots) ==
  /\ heap' = ArcRoundTrip(g, Released(g, slots))
  /\ ptr'  = [ptr EXCEPT ![g] = [s \in Slots |-> IF s \in slots THEN Nil ELSE @[s]]]

\* TryDecode: a message,
Decode(g, object) ==
  /\ HasMemory
  /\ heap' = ArcRoundTrip(g, [heap EXCEPT ![Fresh] = object])
  /\ ptr'  = [ptr EXCEPT ![g]["message"] = Fresh]

\* or an error code and none.
DecodeFails(g) ==
  /\ heap' = ArcRoundTrip(g, heap)
  /\ UNCHANGED ptr

-----------------------------------------------------------------------------
(* The programs.                                                           *)

Goto(g, label) == pc' = [pc EXCEPT ![g] = label]
At(g, label)   == pc[g] = label

Defer(g, slots) == deferred' = [deferred EXCEPT ![g] = @ \o slots]

\* The function is left; its deferred calls are still to come.
Leave(g) == Goto(g, "return")

\* The state, with its Free deferred; bad keys end the connection.
Create(g) ==
  /\ At(g, "create")
  /\ \/ NewState(g) /\ Defer(g, <<"state">>) /\ Goto(g, "greet")
     \/ Leave(g) /\ UNCHANGED <<heap, before, ptr, deferred>>

\* Step0 of the client, Step1 of the server; a read may fail before it.
Greet(g) ==
  /\ At(g, "greet")
  /\ \/ Alloc(g, "buffer", "buffer") /\ Goto(g, "greeting")
     \/ Leave(g) /\ UNCHANGED <<heap, ptr>>
  /\ UNCHANGED <<before, deferred>>

\* GoBytes, the deferred sv2_free_buffer, and the write.
Greeting(g) ==
  /\ At(g, "greeting")
  /\ Free(g, {"buffer"})
  /\ Leave(g) \/ Goto(g, IF Program[g] = "client" THEN "finish" ELSE "open")
  /\ UNCHANGED <<before, deferred>>

\* The client reads the answer: Step2 and HandshakeComplete.
Finish(g) ==
  /\ At(g, "finish")
  /\ Leave(g) \/ Goto(g, "open")
  /\ UNCHANGED <<heap, before, ptr, deferred>>

\* The server makes its decoder before its encoder, the client the other way.
Open(g) ==
  /\ At(g, "open")
  /\ \E slot \in {"encoder", "decoder"} :
       /\ ptr[g][slot] = Nil
       /\ slot = "decoder" <=>
            (Program[g] = "server" <=> \A s \in {"encoder", "decoder"} : ptr[g][s] = Nil)
       /\ Alloc(g, slot, slot)
       /\ Defer(g, <<slot>>)
       /\ IF \A s \in {"encoder", "decoder"} \ {slot} : ptr[g][s] # Nil
            THEN Goto(g, IF Program[g] = "client" THEN "compose" ELSE "loop")
            ELSE UNCHANGED pc
  /\ UNCHANGED before

\* Mutant: the Free of the message is not deferred.
ComposeUndeferred(g) ==
  /\ At(g, "compose")
  /\ \/ Alloc(g, "setup", "SetupConnection") /\ Goto(g, "encode")
     \/ Leave(g) /\ UNCHANGED <<heap, ptr>>
  /\ UNCHANGED <<before, deferred>>

\* NewSetupConnection, with its Free deferred.
Compose(g) ==
  /\ At(g, "compose")
  /\ \/ Alloc(g, "setup", "SetupConnection") /\ Defer(g, <<"setup">>) /\ Goto(g, "encode")
     \/ Leave(g) /\ UNCHANGED <<heap, ptr, deferred>>
  /\ UNCHANGED before

EncodeSetup(g) ==
  /\ At(g, "encode")
  /\ \/ Encode(g) /\ Goto(g, "written")
     \/ EncodeFails(g, {}) /\ Leave(g)
  /\ UNCHANGED <<before, deferred>>

SetupWritten(g) ==
  /\ At(g, "written")
  /\ Free(g, {"buffer"})
  /\ Leave(g) \/ Goto(g, "loop")
  /\ UNCHANGED <<before, deferred>>

\* TryDecode, of nothing or of what buffer_size() asked for.  A read or the
\* decoder may fail, which ends the connection.  Of nothing it never makes a
\* message (NextFrame of Sv2Codec), which the programs would not free.
Loop(g) ==
  /\ At(g, "loop")
  /\ \/ DecodeFails(g) /\ (Leave(g) \/ UNCHANGED pc)
     \/ \E m \in MessageKinds : Decode(g, m) /\ Goto(g, "handle")
  /\ UNCHANGED <<before, deferred>>

\* The client frees the message, and is done with the first success.
ClientHandle(g) ==
  /\ At(g, "handle") /\ Program[g] = "client"
  /\ Free(g, {"message"})
  /\ IF heap[ptr[g]["message"]] = "SetupConnectionSuccess" THEN Leave(g) ELSE Goto(g, "loop")
  /\ UNCHANGED <<before, deferred>>

\* The server answers a SetupConnection with a new message; it frees any other.
ServerHandle(g) ==
  /\ At(g, "handle") /\ Program[g] = "server"
  /\ IF heap[ptr[g]["message"]] = "SetupConnection"
       THEN Alloc(g, "answer", "SetupConnectionSuccess") /\ Goto(g, "answer")
       ELSE Free(g, {"message"}) /\ Goto(g, "loop")
  /\ UNCHANGED <<before, deferred>>

\* Mutant: the error path forgets the message that was decoded.
EncodeAnswerForgets(g) ==
  /\ At(g, "answer")
  /\ \/ Encode(g) /\ Goto(g, "copied")
     \/ EncodeFails(g, {"answer"}) /\ Leave(g)
  /\ UNCHANGED <<before, deferred>>

\* The answer is encoded; on an error both messages are freed.
EncodeAnswer(g) ==
  /\ At(g, "answer")
  /\ \/ Encode(g) /\ Goto(g, "copied")
     \/ EncodeFails(g, {"answer", "message"}) /\ Leave(g)
  /\ UNCHANGED <<before, deferred>>

\* The buffer and the answer are freed, and written or not, the message.
AnswerWritten(g) ==
  /\ At(g, "copied")
  /\ Free(g, {"buffer", "answer", "message"})
  /\ Leave(g) \/ Goto(g, "loop")
  /\ UNCHANGED <<before, deferred>>

\* The deferred calls, one by one.
Return(g) ==
  /\ At(g, "return")
  /\ IF deferred[g] = <<>>
       THEN Goto(g, "done") /\ UNCHANGED <<heap, ptr, deferred>>
       ELSE /\ Free(g, {Last(deferred[g])})
            /\ deferred' = [deferred EXCEPT ![g] = Front(@)]
            /\ UNCHANGED pc
  /\ UNCHANGED before

Next ==
  \E g \in Goroutines :
    \/ Create(g) \/ Greet(g) \/ Greeting(g) \/ Finish(g) \/ Open(g)
    \/ Compose(g) \/ EncodeSetup(g) \/ SetupWritten(g)
    \/ Loop(g) \/ ClientHandle(g) \/ ServerHandle(g)
    \/ EncodeAnswer(g) \/ AnswerWritten(g) \/ Return(g)

Spec == Init /\ [][Next]_vars

-----------------------------------------------------------------------------
(* Properties.                                                             *)

Labels == {"create", "greet", "greeting", "finish", "open", "compose", "encode", "written",
           "loop", "handle", "answer", "copied", "return", "done"}

\* The wrappers that live as long as a function: their Free is deferred.
LongLived == {"state", "encoder", "decoder", "setup"}

\* The deferred calls are those of the long-lived wrappers in use, once each.
TypeOK ==
  /\ heap \in [Cells -> Objects \cup {"free", "dropped"}]
  /\ before \in [Cells -> {"zero", "other"}]
  /\ pc \in [Goroutines -> Labels]
  /\ ptr \in [Goroutines -> [Slots -> Cells \cup {Nil}]]
  /\ deferred \in [Goroutines -> Seq(LongLived)]
  /\ \A g \in Goroutines :
       /\ ToSet(deferred[g]) = {s \in LongLived : ptr[g][s] # Nil}
       /\ IsInjective(deferred[g])

\* A wrapper that still has its pointer points at an object of its own kind,
\* which no other wrapper of any goroutine points at: nothing is used after it
\* was freed, and nothing is freed twice, on whichever path a connection ends.
HandlesAreOwned ==
  \A g \in Goroutines, s \in Slots : ptr[g][s] # Nil =>
    /\ heap[ptr[g][s]] \in Holds[s]
    /\ \A h \in Goroutines, t \in Slots : ptr[h][t] = ptr[g][s] => g = h /\ s = t

\* Everything that was handed out has a wrapper, until its connection ends.
NothingLeaks ==
  \A c \in Cells : heap[c] # "free" =>
    \E g \in Goroutines, s \in Slots : ptr[g][s] = c /\ pc[g] # "done"

\* "Avoid dropping original state" (ffi.rs:222): a state lives until
\* sv2_codec_state_free, however often it is lent to an encode or a decode.
StateSurvivesCalls ==
  \A g \in Goroutines : ptr[g]["state"] # Nil => heap[ptr[g]["state"]] = "state"

===============================================================================

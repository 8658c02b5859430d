---------------------------- MODULE SecureChannel ----------------------------
(***************************************************************************)
(* What an Sv2 connection promises to the two programs at its ends: the    *)
(* server's end opens before the client's, an open end may send, and each  *)
(* end receives the messages of the other in the order they were sent,     *)
(* none skipped, none twice, none invented.  A connection that is lost     *)
(* loses messages only from the end.                                       *)
(***************************************************************************)
EXTENDS Integers, Sequences

CONSTANT Messages

VARIABLES
  open,   \* the ends whose handshake is complete
  sent,   \* messages each end has sent
  got     \* messages each end has received

Sides == {"client", "server"}
Peer(s) == IF s = "client" THEN "server" ELSE "client"

vars == <<open, sent, got>>

Init ==
  /\ open = {}
  /\ sent = [s \in Sides |-> <<>>]
  /\ got = [s \in Sides |-> <<>>]

Open(s) ==
  /\ s = "client" => "server" \in open
  /\ open' = open \cup {s}
  /\ UNCHANGED <<sent, got>>

Send(s, m) ==
  /\ s \in open
  /\ sent' = [sent EXCEPT ![s] = Append(@, m)]
  /\ UNCHANGED <<open, got>>

Receive(s) ==
  /\ s \in open
  /\ Len(got[s]) < Len(sent[Peer(s)])
  /\ got' = [got EXCEPT ![s] = Append(@, sent[Peer(s)][Len(@) + 1])]
  /\ UNCHANGED <<open, sent>>

\* A server answers a request in the step that receives it.
ReceiveAndSend(s, m) ==
  /\ s \in open
  /\ Len(got[s]) < Len(sent[Peer(s)])
  /\ got' = [got EXCEPT ![s] = Append(@, sent[Peer(s)][Len(@) + 1])]
  /\ sent' = [sent EXCEPT ![s] = Append(@, m)]
  /\ UNCHANGED open

Next == \E s \in Sides :
  \/ Open(s)
  \/ Receive(s)
  \/ \E m \in Messages : Send(s, m) \/ ReceiveAndSend(s, m)

Spec == Init /\ [][Next]_vars

=============================================================================

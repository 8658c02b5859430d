--------------------------- MODULE SecureEndpoint ---------------------------
(***************************************************************************)
(* What one end of an Sv2 connection promises to the program that uses it: *)
(* each call takes effect at one instant.  After the handshake the frames  *)
(* sent carry consecutive nonces, none twice, and the messages received    *)
(* are the peer's, in the order it sealed them, with none skipped and none *)
(* twice.  Nothing is said of calls that fail: they have no effect.        *)
(***************************************************************************)
EXTENDS Integers, Sequences

VARIABLES
  phase,      \* "handshake" or "transport"
  emitted,    \* nonces of the frames sent, in order
  opened,     \* the header of the next message has been accepted
  delivered   \* nonces of the payloads received, in order

vars == <<phase, emitted, opened, delivered>>

Init ==
  /\ phase = "handshake"
  /\ emitted = <<>>
  /\ opened = FALSE
  /\ delivered = <<>>

Handshake ==
  /\ phase = "handshake"
  /\ phase' = "transport"
  /\ UNCHANGED <<emitted, opened, delivered>>

\* A frame uses two nonces, one for its header and one for its payload.
Send ==
  /\ phase = "transport"
  /\ emitted' = Append(emitted, 2 * Len(emitted))
  /\ UNCHANGED <<phase, opened, delivered>>

AcceptHeader ==
  /\ phase = "transport"
  /\ ~opened
  /\ opened' = TRUE
  /\ UNCHANGED <<phase, emitted, delivered>>

Deliver ==
  /\ opened
  /\ delivered' = Append(delivered, 2 * Len(delivered) + 1)
  /\ opened' = FALSE
  /\ UNCHANGED <<phase, emitted>>

Next == Handshake \/ Send \/ AcceptHeader \/ Deliver

Spec == Init /\ [][Next]_vars

=============================================================================

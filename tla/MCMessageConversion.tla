------------------------- MODULE MCMessageConversion -------------------------
(***************************************************************************)
(* The instance of MessageConversion for TLC: every kind of message with   *)
(* every value of its fields, over MaxHops hosts (Messages.cfg).           *)
(***************************************************************************)
EXTENDS MessageConversion

\* The tables cover the same messages: none is converted one way only.
ASSUME TablesComplete == DOMAIN ToInner = Kinds /\ DOMAIN FromInner = Kinds

=============================================================================

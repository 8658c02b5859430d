----------------------------- MODULE ShareLedger -----------------------------
(***************************************************************************)
(* What the channels of a mining server promise about the shares they      *)
(* accept: each is work on the channel's chain tip, no work is accepted    *)
(* twice, and a tip that was left never comes back.                        *)
(***************************************************************************)
EXTENDS Naturals

CONSTANT Channels

VARIABLES
  tip,       \* the chain tip of each channel: a number that grows
  credited,  \* the work each channel has accepted
  accepted   \* how many shares each channel has accepted

Init ==
  /\ tip      = [c \in Channels |-> 0]
  /\ credited = [c \in Channels |-> {}]
  /\ accepted = [c \in Channels |-> 0]

NewTip(c) ==
  /\ tip'[c] > tip[c]
  /\ tip' = [tip EXCEPT ![c] = tip'[c]]
  /\ UNCHANGED <<credited, accepted>>

Credit(c) ==
  /\ \E w \in credited'[c] \ credited[c] :
       /\ w.tip = tip[c]
       /\ credited' = [credited EXCEPT ![c] = @ \cup {w}]
  /\ accepted' = [accepted EXCEPT ![c] = @ + 1]
  /\ UNCHANGED tip

Next == \E c \in Channels : NewTip(c) \/ Credit(c)

Spec == Init /\ [][Next]_<<tip, credited, accepted>>
=============================================================================

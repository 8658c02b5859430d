--------------------------- MODULE MCChannelServer ---------------------------
(***************************************************************************)
(* The instance of ChannelServer for TLC (ChannelServer.cfg).              *)
(***************************************************************************)
EXTENDS ChannelServer

Template(future) == [type |-> "template", future |-> future]
PrevHash(t)      == [type |-> "prev_hash", template |-> t]

\* Two blocks; the template of the first is renewed before and after its
\* prev-hash, and the template of the second comes while the first is mined.
TwoBlocks ==
  <<Template(TRUE), Template(TRUE), PrevHash(2), Template(FALSE), Template(TRUE), PrevHash(5)>>

Objects == [ext |-> "extended", std |-> "standard", lone |-> "standard", grp |-> "group"]
Names   == DOMAIN Objects

Bounds(default, std) == [c \in Names |-> IF c = "std" THEN std ELSE default]
Server(open, jobs, counted, customJobs) ==
  [open |-> open, jobs |-> Bounds(jobs, 2), shares |-> counted, custom |-> customJobs]

\* Each kind by itself with all its calls; and an extended channel that leads a
\* standard one, with custom jobs, and without them but with shares.  A client
\* may learn of every job, but that of the standard channel of two, and that of
\* the leader of four of its five.
Servers ==
  {Server({"ext"}, 5, Bounds(2, 0), 1), Server({"lone"}, 5, Bounds(2, 0), 0),
   Server({"grp"}, 5, Bounds(0, 0), 0),
   Server({"ext", "std"}, 4, Bounds(0, 0), 1), Server({"ext", "std"}, 4, Bounds(0, 1), 0)}

=============================================================================

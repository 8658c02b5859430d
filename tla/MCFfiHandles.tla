----------------------------- MODULE MCFfiHandles -----------------------------
(***************************************************************************)
(* Small instances of FfiHandles for TLC.                                  *)
(***************************************************************************)
EXTENDS FfiHandles

Connections == {1, 2}

\* A connection of the client and one of the server, in one process.
Programs == [g \in Connections |-> IF g = 1 THEN "client" ELSE "server"]

\* One connection of the server.
OneConnection == {1}
OneServer     == [g \in OneConnection |-> "server"]

===============================================================================

------------------------------ MODULE MCSession ------------------------------
(***************************************************************************)
(* Small instances of Session for TLC: who talks to whom, and the scripts  *)
(* of its clients.                                                         *)
(***************************************************************************)
EXTENDS Session

\* The clients of the examples send one SetupConnection and wait.  Here the Go
\* and Python clients pipeline: the server must find the frames in the stream.
Pipelined == [c \in {"go", "python", "template"} |->
                IF c = "template" THEN <<"setup">> ELSE <<"other", "setup">>]

\* The examples' own scripts.
SetupOnly == [c \in {"go", "python", "template"} |-> <<"setup">>]

\* Every client with every server of the repository, and the template client
\* with a Template Provider.  Only Python programs can send short.
AllSettings ==
  {[client |-> c, server |-> s, reliable |-> r, whole |-> w] :
     c \in {"go", "python", "template"}, s \in {"go", "python"}, r \in BOOLEAN, w \in BOOLEAN}
  \cup
  {[client |-> "template", server |-> "provider", reliable |-> r, whole |-> w] :
     r \in BOOLEAN, w \in BOOLEAN}

\* The Go programs over a connection that works.
GoSetting == {[client |-> "go", server |-> "go", reliable |-> TRUE, whole |-> TRUE]}

=============================================================================

----------------------------- MODULE MCBootstrap -----------------------------
(* Instances of Bootstrap for TLC. *)
EXTENDS Bootstrap

CONSTANTS grouped, alone, custom   \* connections, named for their flags

\* One connection with a group channel, one that requires standard jobs, one
\* that requires work selection.
MCFlags ==
  [c \in Connections |->
     IF c = grouped THEN {} ELSE IF c = alone THEN {"standard_jobs"} ELSE {"work_selection"}]

\* Fewer prefixes than two connections can ask for: each factory runs out.
MCCapacity == [k \in Kinds |-> IF k = "standard" THEN 2 ELSE 3]
=============================================================================

------------------------------- MODULE MCBoot --------------------------------
(***************************************************************************)
(* Boot with one or two objects of each kind.                              *)
(***************************************************************************)
EXTENDS Boot

\* The version v for every object of the directories in D.
Holding(D, v) ==
    [d \in Tables |-> [k \in KeysOf(d) |-> IF d \in D THEN v ELSE Absent]]

\* A store with everything, all APIs down; and one with plugins that are not
\* applied and a bind of a server that is gone.
MCContents ==
    {[st |-> Holding(Tables, 2), binds |-> Cluster \X Server, applied |-> Plugin],
     [st |-> Holding({"clusters", "plugins"}, 1), binds |-> Cluster \X Server,
      applied |-> {}]}
==============================================================================

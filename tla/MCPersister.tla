---------------------------- MODULE MCPersister ----------------------------
(* Persister on small instances; see the .cfg files. *)
EXTENDS Persister, TLC

CONSTANTS e1, e2, c1, c2

AllFaults == FaultKinds
WriteFaults == {"cassandra"}

\* The processes are interchangeable, and a run with a liveness property may not use
\* symmetry: let c1 be the first to have the partition.
InitFirst == Init /\ owner = c1
FairFromFirst ==
    InitFirst /\ [][Next]_vars /\ \A c \in Consumers : WF_vars(Handle(c))
=============================================================================

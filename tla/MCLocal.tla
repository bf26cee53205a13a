-------------------------------- MODULE MCLocal --------------------------------
(* LocalQueue on small instances, and the failures of each run. *)
EXTENDS LocalQueue, TLC

Symmetry == Permutations(Jobs) \cup Permutations(Demos)

\* Everything, but a restarted worker has a process id of its own.
WorkerFaults == FaultKinds \ {"samepid"}
\* Processes are killed, parsers fail.
CrashFaults == {"crash", "engine"}
NoFaults == {}
=============================================================================

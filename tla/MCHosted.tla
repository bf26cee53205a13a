-------------------------------- MODULE MCHosted --------------------------------
(* HostedPipeline on small instances, and the failures of each run. *)
EXTENDS HostedPipeline, TLC

Symmetry == Permutations(Uploads) \cup Permutations(Builds)
            \cup Permutations(Messages) \cup Permutations(Handlers)

\* Everything.
ConsumerFaults == FaultKinds
\* Results and calls of the try block fail and messages are repeated.
ServiceFaults == {"call", "duplicate", "result"}
\* As ServiceFaults, without repeated messages.
CallFaults == {"call", "result"}
\* Upload requests die, the container answers with errors, leases run out
\* under slow invocations.
SourceFaults == {"abort", "result", "overrun"}
\* Invocations die.
CrashFaults == {"crash"}
=============================================================================

--------------------------- MODULE HostedJobContract ---------------------------
(***************************************************************************)
(* What the hosted job table promises to everybody who reads it: the life  *)
(* of a job and of the result accepted for it, with nothing said of        *)
(* leases, messages, objects or requests.                                  *)
(***************************************************************************)
CONSTANTS Demos, Builds, None

VARIABLES state, accepted
vars == <<state, accepted>>

Init ==
    /\ state = [d \in Demos |-> "absent"]
    /\ accepted = [d \in Demos |-> None]

Becomes(d, old, new) ==
    /\ state[d] = old
    /\ state' = [state EXCEPT ![d] = new]

\* enqueue, for new content and for content whose job failed.
Enqueue(d) ==
    /\ Becomes(d, "absent", "queued") \/ Becomes(d, "failed", "queued")
    /\ UNCHANGED accepted

Start(d)    == Becomes(d, "queued", "running") /\ UNCHANGED accepted
GiveBack(d) == Becomes(d, "running", "queued") /\ UNCHANGED accepted
Fail(d)     == Becomes(d, "running", "failed") /\ UNCHANGED accepted

\* One result is accepted, once.
Accept(d) ==
    /\ accepted[d] = None
    /\ state[d] # "absent"
    /\ \E b \in Builds : accepted' = [accepted EXCEPT ![d] = b]
    /\ UNCHANGED state

\* Success is final and needs an accepted result.
Succeed(d) ==
    /\ accepted[d] # None
    /\ Becomes(d, "running", "succeeded")
    /\ UNCHANGED accepted

Next == \E d \in Demos :
    Enqueue(d) \/ Start(d) \/ GiveBack(d) \/ Fail(d) \/ Accept(d) \/ Succeed(d)

Spec == Init /\ [][Next]_vars
=============================================================================

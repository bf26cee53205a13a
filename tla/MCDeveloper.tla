------------------------------ MODULE MCDeveloper ------------------------------
(* DeveloperApi from a day on which two developers have keys. *)
EXTENDS DeveloperApi, TLC

CONSTANTS a1, a2, e1, e2, t1, k1, k2

\* Both have registered and created a key; one is signed in.  A third may register.
SignedIn ==
    /\ email = [a \in Accounts |-> CASE a = a1 -> e1 [] a = a2 -> e2 [] OTHER -> None]
    /\ session = [t \in Tokens |-> IF t = t1 THEN a1 ELSE None]
    /\ key = [k \in Keys |-> CASE k = k1 -> a1 [] k = k2 -> a2 [] OTHER -> None]
    /\ revoked = {}
    /\ usage = [u \in Accounts \X Days |-> 0]
    /\ grant = [g \in Grants |-> Vacant]
    /\ attempts = [e \in Emails |-> 0]
    /\ jobs = {}
    /\ day = 1
    /\ req = [r \in Requests |-> Fresh]
    /\ requests = 0
    /\ served = [u \in Accounts \X Days |-> 0] /\ leaving = {}

SignedInSpec == SignedIn /\ [][Next]_vars

Symmetry == Permutations(Requests) \cup Permutations(Demos) \cup Permutations(Keys \ {k1, k2})
=============================================================================

---------------------------- MODULE MCConductor ----------------------------
(* Instances of Conductor for TLC. *)
EXTENDS Conductor, TLC

CONSTANTS OnFailure   \* the failure policies: "fail", "retry" or "skip" throughout, or "default"

\* defaultPhasePolicies, without the difference in the number of retries.
Policies == [p \in Phases |-> IF OnFailure # "default" THEN OnFailure
                              ELSE IF p \in {"plan", "implement"} THEN "retry" ELSE "skip"]

Symm == Permutations(Tasks) \cup Permutations(Clients) \cup Permutations(Runs)
=============================================================================

------------------------------ MODULE MCIntake ------------------------------
(* Two workers, one session and a second agent that names it. *)
EXTENDS Intake, TLC

CONSTANTS a1, a2, s1

MCOwner == [s \in Sessions |-> a1]

\* A lifetime beyond the nonce's, and a fast clock of the other agent.
MCBuilds ==
    {[agent |-> a1, session |-> s1, ttl |-> 3, drift |-> 0],
     [agent |-> a2, session |-> s1, ttl |-> 1, drift |-> 1]}

\* Two executions, which may be reported in either order, and a denial.
MCEvents ==
    {[kind |-> "EXECUTED", at |-> 0], [kind |-> "EXECUTED", at |-> 1],
     [kind |-> "DENIED", at |-> 1]}

SymmetricWorkers == Permutations(Workers)

=============================================================================

------------------------- MODULE AuthorityLifecycle -------------------------
(***************************************************************************)
(* What the control plane and its brokers promise about one signed         *)
(* request, and all they promise: its authority is created once, moves     *)
(* forward only, needs a human where the policy asked for one, and is      *)
(* spent at most once, on at most one performance of the action.           *)
(***************************************************************************)
EXTENDS Naturals

CONSTANT Requests

VARIABLES phase, performed

Phases == {"new", "accepted", "parked", "approved", "denied", "granted", "spent"}

\* The moves of a request's authority.  A refusal at any point leaves the
\* request where it is for ever.
Moves ==
    {<<"new", "accepted">>,       \* authentic and fresh
     <<"accepted", "granted">>,   \* the policy allows
     <<"accepted", "parked">>,    \* the policy asks for a human
     <<"parked", "approved">>, <<"parked", "denied">>,
     <<"approved", "granted">>,
     <<"granted", "spent">>}      \* a broker claims the one use

LifecycleInit ==
    /\ phase = [r \in Requests |-> "new"]
    /\ performed = [r \in Requests |-> 0]

Advance(r, p) ==
    /\ <<phase[r], p>> \in Moves
    /\ phase' = [phase EXCEPT ![r] = p]
    /\ UNCHANGED performed

Perform(r) ==
    /\ phase[r] = "spent"
    /\ performed[r] = 0
    /\ performed' = [performed EXCEPT ![r] = 1]
    /\ UNCHANGED phase

LifecycleNext == \E r \in Requests : Perform(r) \/ \E p \in Phases : Advance(r, p)

LifecycleSpec == LifecycleInit /\ [][LifecycleNext]_<<phase, performed>>

=============================================================================

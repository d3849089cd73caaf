----------------------------- MODULE Admission ------------------------------
(***************************************************************************)
(* The concurrency bound of a saturating subsystem                         *)
(* (config/backpressure.py).  The semaphore and the counters are guarded   *)
(* separately, so entering and leaving take two steps each.                *)
(***************************************************************************)
EXTENDS Naturals, FiniteSets

CONSTANTS Capacity

ASSUME CapacityAssumption == Capacity \in Nat \ {0}

VARIABLES
    permits,                    \* BoundedSemaphore(capacity)
    inflight, admitted, shed    \* the counters

admissionVars == <<permits, inflight, admitted, shed>>

AdmissionInit ==
    /\ permits = Capacity
    /\ inflight = 0 /\ admitted = 0 /\ shed = 0

\* acquire(blocking=False)
acquire == permits > 0 /\ permits' = permits - 1 /\ UNCHANGED <<inflight, admitted, shed>>

\* Over capacity: counted and refused.
shed_job == permits = 0 /\ shed' = shed + 1 /\ UNCHANGED <<permits, inflight, admitted>>

enter ==
    /\ inflight' = inflight + 1
    /\ admitted' = admitted + 1
    /\ UNCHANGED <<permits, shed>>

leave == inflight' = inflight - 1 /\ UNCHANGED <<permits, admitted, shed>>

\* As if the permit came back only after a job that did not raise.
MutReleaseOnSuccess(raised) ==
    /\ permits' = IF raised THEN permits ELSE permits + 1
    /\ UNCHANGED <<inflight, admitted, shed>>

\* The finally clause: the permit comes back however the job ended.
release(raised) == permits' = permits + 1 /\ UNCHANGED <<inflight, admitted, shed>>

=============================================================================

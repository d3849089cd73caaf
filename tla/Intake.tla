------------------------------- MODULE Intake -------------------------------
(***************************************************************************)
(* The way of a signed request from the agent's SDK to the job it starts:  *)
(* request/builder.py, request/verify.py, the Redis freshness guard,       *)
(* session/model.py and policy/opa_client.py in the order of               *)
(* control_plane/plane.py's evaluate, then a job run under the admission   *)
(* bound and a transition of the behaviour engine.                         *)
(*                                                                         *)
(* Every request ever built stays in the network: it arrives late, again,  *)
(* in another order or never.  A worker reads the clock on entry and uses  *)
(* that value to the end of the call.  The job's use of the bound and of   *)
(* the transition is the one their docstrings prescribe.                   *)
(***************************************************************************)
EXTENDS Freshness, Admission, Behavior

CONSTANTS
    Workers, NoWorker,
    Agents,             \* agents with a registered key
    Owner,              \* the agent of each session
    Builds,             \* [agent, session, ttl, drift]: a request an agent may
                        \* build, the ttl_seconds it chooses, and how far its
                        \* clock runs ahead
    SessionTTL,
    SkewTolerance,      \* CLOCK_SKEW
    Events,             \* behaviour events: [kind, at], with a time of their own
    MaxTime, MaxRequests, MaxEvents, MaxRestarts

ASSUME IntakeAssumption ==
    /\ IsFiniteSet(Workers)
    /\ \A e \in Events : e.at \in Nat
    /\ Builds \subseteq [agent : Agents, session : Sessions, ttl : Int, drift : Int]

VARIABLES
    counters,           \* SequenceSource._counters per agent and session
    restarts,           \* restarts of the SDK process
    issued,             \* the requests built and signed
    sessions,           \* per session: [expires, revoked]
    work,               \* what each worker is doing
    scopeLock,          \* _ScopeState.lock
    snapshots           \* history: the snapshots taken

ownVars == <<counters, restarts, issued, sessions, work, scopeLock, snapshots>>
vars == <<now, freshVars, admissionVars, behaviorVars, ownVars>>

Idle == [pc |-> "idle"]

Init ==
    /\ now = 0
    /\ FreshInit /\ AdmissionInit /\ BehaviorInit
    /\ counters = [x \in Agents \X Sessions |-> -1]
    /\ restarts = 0
    /\ issued = {}
    /\ sessions = [s \in Sessions |-> [expires |-> SessionTTL, revoked |-> FALSE]]
    /\ work = [w \in Workers |-> Idle]
    /\ scopeLock = NoWorker
    /\ snapshots = {}

At(w, pc) == work[w].pc = pc
Goto(w, pc) == work' = [work EXCEPT ![w].pc = pc]
Rest(w) == work' = [work EXCEPT ![w] = Idle]

-----------------------------------------------------------------------------
\* The agent's SDK

\* SequenceSource.next and build_and_sign; the nonce is new with every request.
\* A signing that fails after the counter moved is a request that never arrives.
build_and_sign(b) ==
    LET key == <<b.agent, b.session>>
        seq == counters[key] + 1
        at == now + b.drift
    IN /\ Cardinality(issued) < MaxRequests
       /\ counters' = [counters EXCEPT ![key] = seq]
       /\ issued' = issued \cup
             {[nonce |-> Cardinality(issued), agent |-> b.agent, session |-> b.session,
               seq |-> seq, timestamp |-> at, expires |-> at + b.ttl]}
       /\ UNCHANGED <<now, freshVars, admissionVars, behaviorVars, restarts,
                      sessions, work, scopeLock, snapshots>>

\* The counters are memory of the SDK's process.
RestartSdk ==
    /\ restarts < MaxRestarts
    /\ restarts' = restarts + 1
    /\ counters' = [x \in Agents \X Sessions |-> -1]
    /\ UNCHANGED <<now, freshVars, admissionVars, behaviorVars, issued, sessions,
                   work, scopeLock, snapshots>>

-----------------------------------------------------------------------------
\* evaluate, up to the policy's decision

\* verify_request's freshness tests; its signature tests are KeyRegistry's.
verify_request(r) == now < r.expires /\ r.timestamp <= now + SkewTolerance

evaluate(w, r) ==
    /\ At(w, "idle")
    /\ verify_request(r)
    /\ work' = [work EXCEPT ![w] = [pc |-> "verified", req |-> r, now |-> now]]
    /\ UNCHANGED <<now, freshVars, admissionVars, behaviorVars, counters, restarts,
                   issued, sessions, scopeLock, snapshots>>

\* check_and_commit: the script answers, or Redis cannot be reached, before
\* the script ran or before its answer arrived.
check_and_commit(w) ==
    /\ At(w, "verified")
    /\ \/ /\ script_result(work[w].req) = "OK"
          /\ CommitFresh(work[w].req)
          /\ Goto(w, "committed") \/ Rest(w)
       \/ script_result(work[w].req) # "OK" /\ Rest(w) /\ UNCHANGED freshVars
       \/ Rest(w) /\ UNCHANGED freshVars
    /\ UNCHANGED <<now, admissionVars, behaviorVars, counters, restarts, issued,
                   sessions, scopeLock, snapshots>>

\* validate: bound to the agent, not revoked, not expired at the entry's clock.
session_valid(r, at) ==
    /\ Owner[r.session] = r.agent
    /\ ~sessions[r.session].revoked
    /\ at < sessions[r.session].expires

validate(w) ==
    /\ At(w, "committed")
    /\ IF session_valid(work[w].req, work[w].now) THEN Goto(w, "validated") ELSE Rest(w)
    /\ UNCHANGED <<now, freshVars, admissionVars, behaviorVars, counters, restarts,
                   issued, sessions, scopeLock, snapshots>>

\* authorize: a hard DENY, an evaluation that fails and one that times out
\* all raise.
authorize(w) ==
    /\ At(w, "validated")
    /\ Goto(w, "allowed") \/ Rest(w)
    /\ UNCHANGED <<now, freshVars, admissionVars, behaviorVars, counters, restarts,
                   issued, sessions, scopeLock, snapshots>>

revoke(s) ==
    /\ ~sessions[s].revoked
    /\ sessions' = [sessions EXCEPT ![s].revoked = TRUE]
    /\ UNCHANGED <<now, freshVars, admissionVars, behaviorVars, counters, restarts,
                   issued, work, scopeLock, snapshots>>

-----------------------------------------------------------------------------
\* The job

admit(w) ==
    /\ At(w, "allowed")
    /\ \/ acquire /\ Goto(w, "acquired")
       \/ shed_job /\ Rest(w)
    /\ UNCHANGED <<now, freshVars, behaviorVars, counters, restarts, issued, sessions,
                   scopeLock, snapshots>>

Enter(w) ==
    /\ At(w, "acquired")
    /\ enter /\ Goto(w, "entered")
    /\ UNCHANGED <<now, freshVars, behaviorVars, counters, restarts, issued, sessions,
                   scopeLock, snapshots>>

\* transition holds the scope's lock from the snapshot to the append.
transition(w) ==
    /\ At(w, "entered") /\ scopeLock = NoWorker
    /\ scopeLock' = w
    /\ LET s == snapshot(work[w].now)
       IN /\ snapshots' = snapshots \cup {s}
          /\ executed' = prune(executed, work[w].now)
          /\ Pruned(work[w].now)
    /\ Goto(w, "snapped")
    /\ UNCHANGED <<now, freshVars, admissionVars, recorded, counters, restarts,
                   issued, sessions>>

\* Under the lock the job appends an event and is done or raises; or it raises
\* before it gets there.
Perform(w) ==
    /\ At(w, "snapped")
    /\ \/ /\ Len(recorded) < MaxEvents
          /\ \E e \in Events : apply(e, work[w].now)
          /\ \E raised \in BOOLEAN :
                work' = [work EXCEPT ![w] = [pc |-> "leaving", raised |-> raised]]
       \/ /\ work' = [work EXCEPT ![w] = [pc |-> "leaving", raised |-> TRUE]]
          /\ UNCHANGED behaviorVars
    /\ scopeLock' = NoWorker
    /\ UNCHANGED <<now, freshVars, admissionVars, counters, restarts, issued,
                   sessions, snapshots>>

Leave(w) ==
    /\ At(w, "leaving")
    /\ leave /\ Goto(w, "left")
    /\ UNCHANGED <<now, freshVars, behaviorVars, counters, restarts, issued, sessions,
                   scopeLock, snapshots>>

Release(w) ==
    /\ At(w, "left")
    /\ release(work[w].raised) /\ Rest(w)
    /\ UNCHANGED <<now, freshVars, behaviorVars, counters, restarts, issued, sessions,
                   scopeLock, snapshots>>

\* record: a broker or a monitor reports an event of the scope.
record(w) ==
    /\ At(w, "idle") /\ Len(recorded) < MaxEvents
    /\ work' = [work EXCEPT ![w] = [pc |-> "recording", now |-> now]]
    /\ UNCHANGED <<now, freshVars, admissionVars, behaviorVars, counters, restarts,
                   issued, sessions, scopeLock, snapshots>>

Record(w) ==
    /\ At(w, "recording") /\ scopeLock = NoWorker
    /\ IF Len(recorded) < MaxEvents
       THEN \E e \in Events : apply(e, work[w].now)
       ELSE UNCHANGED behaviorVars
    /\ Rest(w)
    /\ UNCHANGED <<now, freshVars, admissionVars, counters, restarts, issued, sessions,
                   scopeLock, snapshots>>

Tick ==
    /\ now < MaxTime
    /\ now' = now + 1
    /\ UNCHANGED <<freshVars, admissionVars, behaviorVars, ownVars>>

Step(w) ==
    \/ check_and_commit(w) \/ validate(w) \/ authorize(w)
    \/ admit(w) \/ Enter(w) \/ transition(w) \/ Perform(w) \/ Leave(w) \/ Release(w)
    \/ Record(w)

Next ==
    \/ \E b \in Builds : build_and_sign(b)
    \/ RestartSdk
    \/ \E w \in Workers :
          \/ \E r \in issued : evaluate(w, r)
          \/ record(w)
          \/ Step(w)
    \/ \E s \in Sessions : revoke(s)
    \/ Tick

Spec == Init /\ [][Next]_vars

-----------------------------------------------------------------------------
Holding(pcs) == {w \in Workers : work[w].pc \in pcs}

\* The permits given out are the jobs between acquire and release, however
\* they end, and never more than the capacity; the counter differs from them
\* only by the jobs between the two locks.
PermitsExact ==
    /\ permits >= 0
    /\ permits = Capacity - Cardinality(
          Holding({"acquired", "entered", "snapped", "leaving", "left"}))
    /\ inflight = Cardinality(Holding({"entered", "snapped", "leaving"}))

\* Every snapshot taken was exact, up to what a worker with a later clock had
\* pruned, whatever order the scope's lock served the workers in.
WindowsExact == \A s \in snapshots : SnapshotExact(s)

=============================================================================

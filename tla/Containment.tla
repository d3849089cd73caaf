---------------------------- MODULE Containment ----------------------------
(***************************************************************************)
(* ContainmentEngine (cvztte/containment/engine.py): the per-subject       *)
(* containment state machine and the single global capability epoch it     *)
(* drives.  Threads call evaluate, kill_switch and recover concurrently.   *)
(* A call reads its clock first and only then waits for the subject's      *)
(* lock; under the lock it decides, advances the shared epoch and, in a    *)
(* later step, publishes the new state and its transition record.  Readers *)
(* of the state and of the epoch take other locks, so they can run between *)
(* those two steps.                                                        *)
(***************************************************************************)
EXTENDS ContainmentModel, Sequences, FiniteSets

CONSTANTS
    Subjects,    \* agent|runtime|session keys
    Threads,     \* callers of the engine's mutating operations
    NoThread,    \* a free subject lock
    NoJob,       \* a thread that is not in a call
    Features,    \* the feature maps evaluate may be called with
    Thresholds,  \* the configured ContainmentThresholds
    Cooldown,    \* suspicious_cooldown_seconds, in clock ticks
    MaxEpoch,    \* bound: transitions a behaviour may contain
    MaxTime      \* bound: last value of the clock

ASSUME ThreadAssumption == NoThread \notin Threads
ASSUME CooldownAssumption == Cooldown \in Nat
ASSUME InputAssumption ==
    /\ Thresholds \in ThresholdMaps(Nat)
    /\ Features \subseteq FeatureMaps(Nat)

VARIABLES
    state,               \* st.state of every subject
    transitions,         \* st.transitions of every subject
    last_transition_at,  \* st.last_transition_at of every subject
    capability_epoch,    \* EpochSource, the one component that ever moves
    lock,                \* holder of every subject's RLock
    pc,                  \* where every thread is in its call
    job,                 \* arguments of the call a thread is running
    stamp,               \* the epoch _bump_capability_epoch returned to it
    clock                \* wall clock

engineVars == <<state, transitions, last_transition_at, capability_epoch,
                lock, pc, job, stamp>>
vars == <<engineVars, clock>>

NoTime == -1
NoMethod == "none"
Kinds == {"evaluate", "kill_switch", "recover"}
KillTargets == {"QUARANTINED", "TERMINATED"}

Jobs == [kind: Kinds, subject: Subjects, target: States,
         method: Methods \cup {NoMethod}, approver: BOOLEAN, now: Nat]

\* ContainmentTransition: old and new state, why, the epoch it produced, when.
Transition == [old: States, new: States, kind: Kinds,
               method: Methods \cup {NoMethod}, approver: BOOLEAN,
               capability_epoch: Nat, at: Nat]

Init ==
    /\ state = [s \in Subjects |-> "NORMAL"]
    /\ transitions = [s \in Subjects |-> <<>>]
    /\ last_transition_at = [s \in Subjects |-> NoTime]
    /\ capability_epoch = 0
    /\ lock = [s \in Subjects |-> NoThread]
    /\ pc = [t \in Threads |-> "idle"]
    /\ job = [t \in Threads |-> NoJob]
    /\ stamp = [t \in Threads |-> 0]
    /\ clock = 0

-----------------------------------------------------------------------------
\* The epochs left once every call in progress has been paid for.
Budget ==
    capability_epoch + Cardinality({t \in Threads : pc[t] \in {"waiting", "bump"}})
        < MaxEpoch

\* A call arrives: it reads the clock and queues for the subject's lock.
Call(t, j) ==
    /\ pc[t] = "idle"
    /\ Budget
    /\ pc' = [pc EXCEPT ![t] = "waiting"]
    /\ job' = [job EXCEPT ![t] = j]
    /\ UNCHANGED <<state, transitions, last_transition_at, capability_epoch,
                   lock, stamp, clock>>

\* evaluate: of the features only the assessed state matters to what follows.
CallEvaluate(t, s, f) ==
    Call(t, [kind |-> "evaluate", subject |-> s, target |-> assess(f, Thresholds),
             method |-> NoMethod, approver |-> FALSE, now |-> clock])

\* kill_switch: any other target is refused before anything changes.
CallKillSwitch(t, s, target) ==
    /\ target \in KillTargets
    /\ Call(t, [kind |-> "kill_switch", subject |-> s, target |-> target,
                method |-> NoMethod, approver |-> FALSE, now |-> clock])

CallRecover(t, s, method, approver) ==
    Call(t, [kind |-> "recover", subject |-> s, target |-> "NORMAL",
             method |-> method, approver |-> approver, now |-> clock])

-----------------------------------------------------------------------------
\* Mutant: every method may lower every state.
MutAnyMethod(j) == TRUE

MethodAllowed(j) == j.method \in recovery_allowed(state[j.subject])

\* Mutant: the cooldown is not waited for.
MutNoCooldown(j) == TRUE

CooldownElapsed(j) ==
    LET last == last_transition_at[j.subject]
    IN  last = NoTime \/ j.now - last >= Cooldown

\* recover's gates, in the order of the code; each one that fails raises.
RecoverAllowed(j) ==
    /\ state[j.subject] # "NORMAL"
    /\ MethodAllowed(j)
    /\ j.method = "COOLDOWN_CLEAN" => CooldownElapsed(j)
    /\ approver_required(state[j.subject], j.method) => j.approver

\* The state the call would commit; recover always goes back to NORMAL.
NewState(j) ==
    IF j.kind = "recover" THEN "NORMAL"
    ELSE more_severe(state[j.subject], j.target)

\* Whether the call commits a transition: evaluate only when it escalates,
\* the kill switch always, recover when its gates pass.
Commits(j) ==
    \/ j.kind = "evaluate" /\ severity(NewState(j)) > severity(state[j.subject])
    \/ j.kind = "kill_switch"
    \/ j.kind = "recover" /\ RecoverAllowed(j)

\* Mutant: the subject's lock is not waited for.
MutLockIgnored(s) == TRUE

LockFree(s) == lock[s] = NoThread

\* Inside the lock, the call decides to commit.
EnterCommits(t) ==
    LET j == job[t] IN
    /\ pc[t] = "waiting"
    /\ LockFree(j.subject)
    /\ Commits(j)
    /\ pc' = [pc EXCEPT ![t] = "bump"]
    /\ lock' = [lock EXCEPT ![j.subject] = t]
    /\ job' = [job EXCEPT ![t].target = NewState(j)]
    /\ UNCHANGED <<state, transitions, last_transition_at, capability_epoch,
                   stamp, clock>>

\* Inside the lock, the call finds nothing to do (None) or raises; either way
\* it changes nothing and gives the lock straight back.
EnterReturns(t) ==
    /\ pc[t] = "waiting"
    /\ LockFree(job[t].subject)
    /\ ~ Commits(job[t])
    /\ pc' = [pc EXCEPT ![t] = "idle"]
    /\ job' = [job EXCEPT ![t] = NoJob]
    /\ UNCHANGED <<state, transitions, last_transition_at, capability_epoch,
                   lock, stamp, clock>>

\* Mutant: the epoch moves the wrong way.
MutEpochBackwards == capability_epoch - 1

\* Mutant: the copied epoch set is not advanced.
MutSameEpoch == capability_epoch

NextEpoch == capability_epoch + 1

\* _bump_capability_epoch: one read-modify-write under the epoch lock.
Bump(t) ==
    /\ pc[t] = "bump"
    /\ pc' = [pc EXCEPT ![t] = "commit"]
    /\ capability_epoch' = NextEpoch
    /\ stamp' = [stamp EXCEPT ![t] = NextEpoch]
    /\ UNCHANGED <<state, transitions, last_transition_at, lock, job, clock>>

\* The record appended for thread t's transition.
RecordOf(t) ==
    [old |-> state[job[t].subject], new |-> job[t].target, kind |-> job[t].kind,
     method |-> job[t].method, approver |-> job[t].approver,
     capability_epoch |-> stamp[t], at |-> job[t].now]

\* Mutant: the critical section is left without releasing the lock.
MutKeepLock(s) == lock

Release(s) == [lock EXCEPT ![s] = NoThread]

\* Publish the new state, its time and its record; release the lock.
Commit(t) ==
    LET s == job[t].subject IN
    /\ pc[t] = "commit"
    /\ state' = [state EXCEPT ![s] = job[t].target]
    /\ last_transition_at' = [last_transition_at EXCEPT ![s] = job[t].now]
    /\ transitions' = [transitions EXCEPT ![s] = Append(@, RecordOf(t))]
    /\ lock' = Release(s)
    /\ pc' = [pc EXCEPT ![t] = "idle"]
    /\ job' = [job EXCEPT ![t] = NoJob]
    /\ stamp' = [stamp EXCEPT ![t] = 0]
    /\ UNCHANGED <<capability_epoch, clock>>

\* Time passes.
Tick ==
    /\ clock < MaxTime
    /\ clock' = clock + 1
    /\ UNCHANGED engineVars

\* No call in progress: the engine waits for the next one.
Idle ==
    /\ \A t \in Threads : pc[t] = "idle"
    /\ UNCHANGED vars

EngineStep(t) == EnterCommits(t) \/ EnterReturns(t) \/ Bump(t) \/ Commit(t)

EngineCall(t) ==
    \E s \in Subjects :
        \/ \E f \in Features : CallEvaluate(t, s, f)
        \/ \E target \in States : CallKillSwitch(t, s, target)
        \/ \E method \in Methods, approver \in BOOLEAN :
              CallRecover(t, s, method, approver)

Next ==
    \/ \E t \in Threads : EngineCall(t) \/ EngineStep(t)
    \/ Tick
    \/ Idle

\* A thread that holds a subject's lock runs to the end of its critical
\* section; nothing is assumed of a thread that waits for a lock.
Fairness == \A t \in Threads : WF_vars(Bump(t)) /\ WF_vars(Commit(t))

Spec == Init /\ [][Next]_vars
FairSpec == Spec /\ Fairness

-----------------------------------------------------------------------------
(***************************************************************************)
(* Properties.                                                             *)
(***************************************************************************)

\* Every variable keeps its type, and a thread inside a call has a job.
TypeOK ==
    /\ state \in [Subjects -> States]
    /\ transitions \in [Subjects -> Seq(Transition)]
    /\ last_transition_at \in [Subjects -> Nat \cup {NoTime}]
    /\ capability_epoch \in Nat
    /\ lock \in [Subjects -> Threads \cup {NoThread}]
    /\ pc \in [Threads -> {"idle", "waiting", "bump", "commit"}]
    /\ job \in [Threads -> Jobs \cup {NoJob}]
    /\ stamp \in [Threads -> Nat]
    /\ clock \in Nat
    /\ \A t \in Threads : pc[t] # "idle" => job[t] \in Jobs

\* The transition records of a subject are one unbroken chain: the first
\* starts at NORMAL, each one starts where the previous one ended, the last
\* one ended in the current state, and their epochs strictly increase.  Two
\* concurrent calls on a subject must not both start from the same state
\* (_commit_transition relies on the caller holding the subject lock).
ChainLinked ==
    \A s \in Subjects :
        LET h == transitions[s] IN
        /\ state[s] = IF h = <<>> THEN "NORMAL" ELSE h[Len(h)].new
        /\ \A i \in 1..Len(h) :
              h[i].old = IF i = 1 THEN "NORMAL" ELSE h[i - 1].new
        /\ \A i, j \in 1..Len(h) :
              i < j => h[i].capability_epoch < h[j].capability_epoch

\* Epoch k was produced by a recorded transition of subject s, or by a call
\* of thread t that has bumped and not yet committed.
Recorded(k, s) ==
    \E i \in 1..Len(transitions[s]) : transitions[s][i].capability_epoch = k
InFlight(k, t) == pc[t] = "commit" /\ stamp[t] = k

EveryEpochExplained ==
    \A k \in 1..capability_epoch :
        (\E s \in Subjects : Recorded(k, s)) \/ (\E t \in Threads : InFlight(k, t))

\* Within a subject the chain already orders the epochs strictly.
NoEpochRecordedTwice ==
    \A s1, s2 \in Subjects : s1 # s2 =>
        \A i1 \in 1..Len(transitions[s1]), i2 \in 1..Len(transitions[s2]) :
            transitions[s1][i1].capability_epoch # transitions[s2][i2].capability_epoch

NoEpochClaimedTwice ==
    \A t \in Threads : pc[t] = "commit" =>
        /\ \A u \in Threads : pc[u] = "commit" /\ stamp[u] = stamp[t] => u = t
        /\ \A s \in Subjects : \A i \in 1..Len(transitions[s]) :
              transitions[s][i].capability_epoch # stamp[t]

\* Every value the capability epoch ever took was produced by exactly one
\* transition, which is recorded or about to be: no bump is lost between two
\* threads (_bump_capability_epoch) and no token is invalidated without an
\* audited reason.
EpochsAudited ==
    /\ EveryEpochExplained
    /\ NoEpochRecordedTwice
    /\ NoEpochClaimedTwice

\* The only step that lowers a subject's state is a recovery to NORMAL, with a
\* method that the table accepts for the state being left at that very step
\* and, where one is required, a named approver: behaviour features never
\* de-escalate, and TERMINATED is left by re-onboarding alone.
RecoveryGated ==
    [][\A s \in Subjects : severity(state'[s]) < severity(state[s]) =>
         LET r == transitions'[s][Len(transitions'[s])] IN
         /\ state'[s] = "NORMAL"
         /\ r.kind = "recover"
         /\ r.method \in recovery_allowed(state[s])
         /\ approver_required(state[s], r.method) => r.approver]_vars

\* A subject that recovered by cooldown had spent the whole cooldown in
\* SUSPICIOUS since its previous transition, by the times in the records.
CooldownHonoured ==
    \A s \in Subjects : \A i \in 1..Len(transitions[s]) :
        LET r == transitions[s][i] IN
        r.method = "COOLDOWN_CLEAN" =>
            /\ i > 1
            /\ r.old = "SUSPICIOUS"
            /\ r.at - transitions[s][i - 1].at >= Cooldown

\* A subject's lock is always given back: no call leaves a subject that can
\* be neither contained nor recovered.
LockReleased ==
    \A s \in Subjects : (lock[s] # NoThread) ~> (lock[s] = NoThread)

=============================================================================

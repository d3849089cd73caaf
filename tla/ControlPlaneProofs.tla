------------------------- MODULE ControlPlaneProofs -------------------------
(***************************************************************************)
(* Proofs about the containment engine and the authorization pipeline it   *)
(* gates, for any number of subjects, requests, workers, brokers and       *)
(* administrators, any thresholds and any cooldown.                        *)
(*                                                                         *)
(* The first part is the engine by itself: its inductive invariant         *)
(* EngineInv, its safety properties and the decay of capabilities.  The    *)
(* safety of the pipeline follows from a second one, PlaneInv, which says  *)
(* who may be where at the same time: one worker at a time is about to     *)
(* decide a request, one is about to mint for a decision, one broker is    *)
(* about to act on a token.  It is built up from what each step does,      *)
(* field by field, so that the later sections need not expand the actions; *)
(* last come the theorems, the balance of the receipts and the refinement  *)
(* of AuthorityLifecycle.                                                  *)
(***************************************************************************)
EXTENDS ControlPlane, CapabilityDecay, FiniteSetTheorems, TLAPS

-----------------------------------------------------------------------------
(***************************************************************************)
(* Facts about the ladder and the assessment.                              *)
(***************************************************************************)

\* Severities are naturals and tell the states apart.
LEMMA SeverityFacts ==
    /\ \A s \in States : severity(s) \in 0..4
    /\ \A a, b \in States : severity(a) = severity(b) => a = b
    /\ severity("NORMAL") = 0
<1>1. /\ severity("NORMAL") = 0
      /\ severity("SUSPICIOUS") = 1
      /\ severity("RESTRICTED") = 2
      /\ severity("QUARANTINED") = 3
      /\ severity("TERMINATED") = 4
  BY DEF severity
<1>. QED
  BY <1>1 DEF States

\* No state is more severe than itself.
LEMMA SeverityIrreflexive == ASSUME NEW a \in States PROVE ~ (severity(a) < severity(a))
<1>1. severity(a) \in 0..4
  BY SeverityFacts
<1>. QED
  BY <1>1

\* more_severe returns one of its arguments and is an upper bound of both.
LEMMA MoreSevereFacts ==
    ASSUME NEW a \in States, NEW b \in States
    PROVE  /\ more_severe(a, b) \in States
           /\ severity(more_severe(a, b)) >= severity(a)
           /\ severity(more_severe(a, b)) >= severity(b)
  BY SeverityFacts DEF more_severe

\* ThresholdPolicy.assess warrants one of the states, never TERMINATED.
LEMMA AssessType ==
    ASSUME NEW f, NEW t
    PROVE  assess(f, t) \in States \ {"TERMINATED"}
  BY DEF assess, States

\* Worse behaviour never warrants a milder state, whatever the thresholds: the
\* three rules are monotone and the last one that fires wins.
THEOREM AssessMonotone ==
    ASSUME NEW t \in ThresholdMaps(Nat),
           NEW f \in FeatureMaps(Nat), NEW g \in FeatureMaps(Nat),
           FeaturesLeq(f, g)
    PROVE  severity(assess(f, t)) <= severity(assess(g, t))
<1>1. SuspiciousRule(f, t) => SuspiciousRule(g, t)
  BY DEF SuspiciousRule, FeaturesLeq, FeatureMaps, ThresholdMaps
<1>2. RestrictedRule(f, t) => RestrictedRule(g, t)
  BY DEF RestrictedRule, FeaturesLeq, FeatureMaps, ThresholdMaps
<1>3. QuarantineRule(f, t) => QuarantineRule(g, t)
  BY DEF QuarantineRule, FeaturesLeq, FeatureMaps, ThresholdMaps
<1>. QED
  BY <1>1, <1>2, <1>3 DEF assess, severity

-----------------------------------------------------------------------------
(***************************************************************************)
(* The inductive invariant.                                                *)
(***************************************************************************)

InCriticalSection(t) == pc[t] \in {"bump", "commit"}

\* Only a recovery names a method.
JobsShaped ==
    \A t \in Threads : pc[t] # "idle" =>
        (job[t].kind = "recover" <=> job[t].method # NoMethod)

\* A thread in its critical section holds its subject's lock, so no two
\* threads are in the critical section of one subject.
LocksHeld ==
    \A t \in Threads : InCriticalSection(t) => lock[job[t].subject] = t

\* What a thread decided under the lock is still justified by the state it
\* is about to leave.
Justified(t) ==
    LET j == job[t]
        current == state[j.subject]
    IN  IF j.kind = "recover"
          THEN /\ j.target = "NORMAL"
               /\ RecoverAllowed(j)
          ELSE severity(j.target) >= severity(current)

DecisionsStand == \A t \in Threads : InCriticalSection(t) => Justified(t)

\* Recorded epochs lie in the past, and those of a subject before the stamp
\* of the thread that is about to add to its records.
EpochsPast ==
    /\ \A s \in Subjects : \A i \in 1..Len(transitions[s]) :
          transitions[s][i].capability_epoch \in 1..capability_epoch
    /\ \A t \in Threads : pc[t] = "commit" =>
          /\ stamp[t] \in 1..capability_epoch
          /\ \A i \in 1..Len(transitions[job[t].subject]) :
                transitions[job[t].subject][i].capability_epoch < stamp[t]

\* last_transition_at is the time of the last record.
LastAtRecorded ==
    \A s \in Subjects :
        last_transition_at[s] =
            IF transitions[s] = <<>> THEN NoTime
            ELSE transitions[s][Len(transitions[s])].at

EngineInv ==
    /\ TypeOK
    /\ JobsShaped
    /\ LocksHeld
    /\ DecisionsStand
    /\ EpochsPast
    /\ LastAtRecorded
    /\ ChainLinked
    /\ EpochsAudited
    /\ CooldownHonoured

-----------------------------------------------------------------------------
\* The invariant holds initially.
LEMMA InitEngineInv == Init => EngineInv
<1>. SUFFICES ASSUME Init PROVE EngineInv
  OBVIOUS
<1>. USE DEF Init
<1>1. TypeOK
  BY DEF TypeOK, States
<1>2. JobsShaped /\ LocksHeld /\ DecisionsStand
  BY DEF JobsShaped, LocksHeld, DecisionsStand, InCriticalSection
<1>3. EpochsPast /\ LastAtRecorded /\ CooldownHonoured
  BY DEF EpochsPast, LastAtRecorded, CooldownHonoured
<1>4. ChainLinked
  BY DEF ChainLinked
<1>5. EpochsAudited
  BY DEF EpochsAudited, EveryEpochExplained, NoEpochRecordedTwice, NoEpochClaimedTwice
<1>. QED
  BY <1>1, <1>2, <1>3, <1>4, <1>5 DEF EngineInv

\* The job of any call has the type of a job and names a method iff it is a
\* recovery.
LEMMA CallShape ==
    ASSUME TypeOK, NEW t \in Threads, EngineCall(t)
    PROVE  \E j \in Jobs : Call(t, j) /\ (j.kind = "recover" <=> j.method # NoMethod)
<1>1. PICK s \in Subjects :
         \/ \E f \in Features : CallEvaluate(t, s, f)
         \/ \E target \in States : CallKillSwitch(t, s, target)
         \/ \E method \in Methods, approver \in BOOLEAN :
               CallRecover(t, s, method, approver)
  BY DEF EngineCall
<1>2. clock \in Nat
  BY DEF TypeOK
<1>3. CASE \E f \in Features : CallEvaluate(t, s, f)
  <2>1. PICK f \in Features : CallEvaluate(t, s, f)
    BY <1>3
  <2>2. assess(f, Thresholds) \in States
    BY AssessType
  <2>. DEFINE j == [kind |-> "evaluate", subject |-> s, target |-> assess(f, Thresholds),
                    method |-> NoMethod, approver |-> FALSE, now |-> clock]
  <2>3. j \in Jobs
    BY <1>2, <2>2 DEF Jobs, Kinds
  <2>4. j.kind # "recover" /\ j.method = NoMethod
    OBVIOUS
  <2>5. Call(t, j)
    BY <2>1 DEF CallEvaluate
  <2>. HIDE DEF j
  <2>. QED
    BY <2>3, <2>4, <2>5
<1>4. CASE \E target \in States : CallKillSwitch(t, s, target)
  <2>1. PICK target \in States : CallKillSwitch(t, s, target)
    BY <1>4
  <2>. DEFINE j == [kind |-> "kill_switch", subject |-> s, target |-> target,
                    method |-> NoMethod, approver |-> FALSE, now |-> clock]
  <2>2. j \in Jobs
    BY <1>2 DEF Jobs, Kinds
  <2>3. j.kind # "recover" /\ j.method = NoMethod
    OBVIOUS
  <2>4. Call(t, j)
    BY <2>1 DEF CallKillSwitch
  <2>. HIDE DEF j
  <2>. QED
    BY <2>2, <2>3, <2>4
<1>5. CASE \E method \in Methods, approver \in BOOLEAN : CallRecover(t, s, method, approver)
  <2>1. PICK method \in Methods, approver \in BOOLEAN : CallRecover(t, s, method, approver)
    BY <1>5
  <2>2. "NORMAL" \in States /\ method # NoMethod
    BY DEF States, Methods, NoMethod
  <2>. QED
    BY <1>2, <2>1, <2>2 DEF CallRecover, Jobs, Kinds
<1>. QED
  BY <1>1, <1>3, <1>4, <1>5

\* The account of the epochs depends only on the records, the epoch and the
\* stamps of the threads about to commit.
LEMMA AuditStable ==
    ASSUME EpochsAudited,
           UNCHANGED <<transitions, capability_epoch, stamp>>,
           \A t \in Threads : pc'[t] = "commit" <=> pc[t] = "commit"
    PROVE  EpochsAudited'
<1>1. EveryEpochExplained'
  BY DEF EpochsAudited, EveryEpochExplained, Recorded, InFlight
<1>2. NoEpochRecordedTwice' /\ NoEpochClaimedTwice'
  BY DEF EpochsAudited, NoEpochRecordedTwice, NoEpochClaimedTwice
<1>. QED
  BY <1>1, <1>2 DEF EpochsAudited

\* A call that arrives touches its own thread only.
LEMMA CallKeepsInv ==
    ASSUME EngineInv, NEW t \in Threads, NEW j \in Jobs, Call(t, j),
           j.kind = "recover" <=> j.method # NoMethod
    PROVE  EngineInv'
<1>. USE DEF EngineInv, Call
<1>1. TypeOK'
  BY DEF TypeOK
<1>2. JobsShaped'
  BY DEF JobsShaped, TypeOK
<1>3. LocksHeld'
  BY DEF LocksHeld, InCriticalSection, TypeOK
<1>4. DecisionsStand'
  BY DEF DecisionsStand, InCriticalSection, TypeOK, Justified, RecoverAllowed,
         MethodAllowed, CooldownElapsed
<1>5. EpochsPast'
  BY DEF EpochsPast, TypeOK
<1>6. LastAtRecorded' /\ ChainLinked' /\ CooldownHonoured'
  BY DEF LastAtRecorded, ChainLinked, CooldownHonoured
<1>7. EpochsAudited'
  BY AuditStable DEF TypeOK
<1>. QED
  BY <1>1, <1>2, <1>3, <1>4, <1>5, <1>6, <1>7

\* A call that returns on entry leaves the engine as it was.
LEMMA EnterReturnsKeepsInv ==
    ASSUME EngineInv, NEW t \in Threads, EnterReturns(t)
    PROVE  EngineInv'
<1>. USE DEF EngineInv, EnterReturns
<1>1. TypeOK'
  BY DEF TypeOK
<1>2. JobsShaped'
  BY DEF JobsShaped, TypeOK
<1>3. LocksHeld'
  BY DEF LocksHeld, InCriticalSection, TypeOK
<1>4. DecisionsStand'
  BY DEF DecisionsStand, InCriticalSection, TypeOK, Justified, RecoverAllowed,
         MethodAllowed, CooldownElapsed
<1>5. EpochsPast'
  BY DEF EpochsPast, TypeOK
<1>6. LastAtRecorded' /\ ChainLinked' /\ CooldownHonoured'
  BY DEF LastAtRecorded, ChainLinked, CooldownHonoured
<1>7. EpochsAudited'
  BY AuditStable DEF TypeOK
<1>. QED
  BY <1>1, <1>2, <1>3, <1>4, <1>5, <1>6, <1>7

\* Entering the critical section establishes what was decided there.
LEMMA EnterCommitsKeepsInv ==
    ASSUME EngineInv, NEW t \in Threads, EnterCommits(t)
    PROVE  EngineInv'
<1>. DEFINE j == job[t]
<1>. USE DEF EngineInv
<1>1. /\ pc[t] = "waiting" /\ lock[j.subject] = NoThread /\ Commits(j)
      /\ pc' = [pc EXCEPT ![t] = "bump"]
      /\ lock' = [lock EXCEPT ![j.subject] = t]
      /\ job' = [job EXCEPT ![t].target = NewState(j)]
      /\ UNCHANGED <<state, transitions, last_transition_at, capability_epoch, stamp, clock>>
  BY DEF EnterCommits, LockFree
<1>2. j \in Jobs /\ j.subject \in Subjects /\ j.target \in States /\ state[j.subject] \in States
  BY <1>1 DEF TypeOK, Jobs
<1>3. NewState(j) \in States
  BY <1>2, MoreSevereFacts DEF NewState, States
<1>4. job'[t] = [j EXCEPT !.target = NewState(j)] /\ job'[t] \in Jobs
  BY <1>1, <1>2, <1>3 DEF TypeOK, Jobs
<1>5. \A u \in Threads \ {t} : job'[u] = job[u] /\ pc'[u] = pc[u]
  BY <1>1 DEF TypeOK
<1>6. TypeOK'
  <2>1. job' \in [Threads -> Jobs \cup {NoJob}]
    BY <1>1, <1>4, <1>5 DEF TypeOK
  <2>2. \A u \in Threads : pc'[u] # "idle" => job'[u] \in Jobs
    BY <1>4, <1>5 DEF TypeOK
  <2>. QED
    BY <1>1, <1>2, <2>1, <2>2 DEF TypeOK
<1>7. JobsShaped'
  BY <1>1, <1>2, <1>4, <1>5 DEF JobsShaped, Jobs
<1>8. LocksHeld'
  <2>1. \A u \in Threads \ {t} : InCriticalSection(u) => job[u].subject # j.subject
    BY <1>1, ThreadAssumption DEF LocksHeld, InCriticalSection, TypeOK
  <2>. QED
    BY <1>1, <1>2, <1>4, <1>5, <2>1 DEF LocksHeld, InCriticalSection, TypeOK, Jobs
<1>9. DecisionsStand'
  <2>1. Justified(t)'
    <3>1. CASE j.kind = "recover"
      BY <1>1, <1>2, <1>4, <3>1
      DEF Justified, Commits, RecoverAllowed, MethodAllowed, CooldownElapsed, NewState, Jobs
    <3>2. CASE j.kind # "recover"
      BY <1>1, <1>2, <1>4, <3>2, MoreSevereFacts DEF Justified, NewState, Jobs
    <3>. QED
      BY <3>1, <3>2
  <2>2. \A u \in Threads \ {t} : Justified(u) => Justified(u)'
    BY <1>1, <1>5 DEF Justified, RecoverAllowed, MethodAllowed, CooldownElapsed
  <2>. QED
    BY <1>5, <2>1, <2>2 DEF DecisionsStand, InCriticalSection
<1>10. EpochsPast'
  BY <1>1, <1>5 DEF EpochsPast, TypeOK
<1>11. LastAtRecorded' /\ ChainLinked' /\ CooldownHonoured'
  BY <1>1 DEF LastAtRecorded, ChainLinked, CooldownHonoured
<1>12. EpochsAudited'
  BY <1>1, AuditStable DEF TypeOK
<1>. QED
  BY <1>6, <1>7, <1>8, <1>9, <1>10, <1>11, <1>12


\* The bump produces an epoch no record and no other thread has.
LEMMA BumpKeepsInv ==
    ASSUME EngineInv, NEW t \in Threads, Bump(t)
    PROVE  EngineInv'
<1>. USE DEF EngineInv, NextEpoch
<1>1. /\ pc[t] = "bump" /\ pc' = [pc EXCEPT ![t] = "commit"]
      /\ capability_epoch' = capability_epoch + 1
      /\ stamp' = [stamp EXCEPT ![t] = capability_epoch + 1]
      /\ UNCHANGED <<state, transitions, last_transition_at, lock, job, clock>>
  BY DEF Bump
<1>2. capability_epoch \in Nat /\ stamp'[t] = capability_epoch + 1
  BY <1>1 DEF TypeOK
<1>3. \A u \in Threads \ {t} : pc'[u] = pc[u] /\ stamp'[u] = stamp[u]
  BY <1>1 DEF TypeOK
<1>4. TypeOK'
  BY <1>1, <1>2 DEF TypeOK
<1>5. JobsShaped' /\ LocksHeld'
  BY <1>1, <1>3 DEF JobsShaped, LocksHeld, InCriticalSection, TypeOK
<1>6. DecisionsStand'
  BY <1>1, <1>3 DEF DecisionsStand, InCriticalSection, TypeOK, Justified, RecoverAllowed,
         MethodAllowed, CooldownElapsed
<1>7. \A s \in Subjects : \A i \in 1..Len(transitions[s]) :
         transitions[s][i].capability_epoch \in 1..capability_epoch
  BY DEF EpochsPast
<1>8. EpochsPast'
  <2>1. \A u \in Threads : pc[u] = "commit" => stamp[u] \in 1..capability_epoch
    BY DEF EpochsPast
  <2>2. job[t].subject \in Subjects
    BY <1>1 DEF TypeOK, Jobs
  <2>. QED
    BY <1>1, <1>2, <1>3, <1>7, <2>1, <2>2 DEF EpochsPast
<1>9. LastAtRecorded' /\ ChainLinked' /\ CooldownHonoured'
  BY <1>1 DEF LastAtRecorded, ChainLinked, CooldownHonoured
<1>10. EpochsAudited'
  <2>1. EveryEpochExplained'
    <3>. SUFFICES ASSUME NEW k \in 1..(capability_epoch + 1)
                  PROVE  \/ \E s \in Subjects : Recorded(k, s)'
                         \/ \E u \in Threads : InFlight(k, u)'
      BY <1>1 DEF EveryEpochExplained
    <3>1. CASE k = capability_epoch + 1
      <4>1. InFlight(k, t)'
        BY <1>1, <1>2, <3>1 DEF InFlight, TypeOK
      <4>. QED
        BY <4>1
    <3>2. CASE k \in 1..capability_epoch
      <4>1. \A s \in Subjects : Recorded(k, s) => Recorded(k, s)'
        BY <1>1 DEF Recorded
      <4>2. \A u \in Threads : InFlight(k, u) => InFlight(k, u)'
        BY <1>1, <1>3 DEF InFlight
      <4>. QED
        BY <3>2, <4>1, <4>2 DEF EpochsAudited, EveryEpochExplained
    <3>. QED
      BY <1>2, <3>1, <3>2
  <2>2. NoEpochRecordedTwice'
    BY <1>1 DEF EpochsAudited, NoEpochRecordedTwice
  <2>3. NoEpochClaimedTwice'
    <3>1. \A u \in Threads : pc[u] = "commit" => stamp[u] <= capability_epoch
      BY <1>2 DEF EpochsPast
    <3>. QED
      BY <1>1, <1>2, <1>3, <1>7, <3>1 DEF EpochsAudited, NoEpochClaimedTwice
  <2>. QED
    BY <2>1, <2>2, <2>3 DEF EpochsAudited
<1>. QED
  BY <1>4, <1>5, <1>6, <1>8, <1>9, <1>10

\* What Commit appends, in terms of the state before it.
LEMMA CommitRecord ==
    ASSUME EngineInv, NEW t \in Threads, pc[t] = "commit"
    PROVE  /\ job[t] \in Jobs
           /\ job[t].subject \in Subjects
           /\ RecordOf(t) \in Transition
           /\ RecordOf(t).old = state[job[t].subject]
           /\ RecordOf(t).new = job[t].target
           /\ RecordOf(t).kind = job[t].kind
           /\ RecordOf(t).method = job[t].method
           /\ RecordOf(t).approver = job[t].approver
           /\ RecordOf(t).capability_epoch = stamp[t]
           /\ RecordOf(t).at = job[t].now
<1>1. job[t] \in Jobs
  BY DEF EngineInv, TypeOK
<1>2. job[t].subject \in Subjects /\ state[job[t].subject] \in States /\ stamp[t] \in Nat
  BY <1>1 DEF EngineInv, TypeOK, Jobs
<1>. QED
  BY <1>1, <1>2 DEF RecordOf, Transition, Jobs

\* The locked commit.
LEMMA CommitKeepsInv ==
    ASSUME EngineInv, NEW t \in Threads, Commit(t)
    PROVE  EngineInv'
<1>. DEFINE s == job[t].subject
            h == transitions[s]
            r == RecordOf(t)
<1>. USE DEF EngineInv
<1>1. /\ pc[t] = "commit" /\ pc' = [pc EXCEPT ![t] = "idle"]
      /\ state' = [state EXCEPT ![s] = job[t].target]
      /\ last_transition_at' = [last_transition_at EXCEPT ![s] = job[t].now]
      /\ transitions' = [transitions EXCEPT ![s] = Append(h, r)]
      /\ lock' = [lock EXCEPT ![s] = NoThread]
      /\ job' = [job EXCEPT ![t] = NoJob]
      /\ stamp' = [stamp EXCEPT ![t] = 0]
      /\ UNCHANGED <<capability_epoch, clock>>
  BY DEF Commit, Release
<1>2. /\ job[t] \in Jobs /\ s \in Subjects /\ r \in Transition
      /\ r.old = state[s] /\ r.new = job[t].target /\ r.kind = job[t].kind
      /\ r.method = job[t].method /\ r.approver = job[t].approver
      /\ r.capability_epoch = stamp[t] /\ r.at = job[t].now
  BY <1>1, CommitRecord
<1>3. job[t].target \in States /\ job[t].now \in Nat
  BY <1>2 DEF Jobs
<1>4. \A u \in Threads \ {t} : pc'[u] = pc[u] /\ job'[u] = job[u] /\ stamp'[u] = stamp[u]
  BY <1>1 DEF TypeOK
<1>5. pc'[t] = "idle"
  BY <1>1 DEF TypeOK
<1>6. h \in Seq(Transition) /\ Len(h) \in Nat
  BY <1>2 DEF TypeOK
<1>7. /\ transitions'[s] = Append(h, r)
      /\ Len(transitions'[s]) = Len(h) + 1
      /\ transitions'[s][Len(h) + 1] = r
      /\ \A i \in 1..Len(h) : transitions'[s][i] = h[i]
      /\ \A x \in Subjects \ {s} : transitions'[x] = transitions[x]
  BY <1>1, <1>2, <1>6 DEF TypeOK
<1>8. \A u \in Threads \ {t} : InCriticalSection(u) => job[u].subject # s
  BY <1>1 DEF LocksHeld, InCriticalSection
<1>9. /\ state'[s] = job[t].target /\ last_transition_at'[s] = job[t].now
      /\ \A x \in Subjects \ {s} :
            /\ state'[x] = state[x] /\ last_transition_at'[x] = last_transition_at[x]
            /\ lock'[x] = lock[x]
  BY <1>1, <1>2 DEF TypeOK
<1>10. TypeOK'
  <2>1. transitions' \in [Subjects -> Seq(Transition)]
    BY <1>1, <1>2, <1>6 DEF TypeOK
  <2>. QED
    BY <1>1, <1>2, <1>3, <1>4, <1>5, <2>1 DEF TypeOK
<1>11. JobsShaped'
  BY <1>4, <1>5 DEF JobsShaped
<1>12. LocksHeld'
  <2>. SUFFICES ASSUME NEW u \in Threads \ {t}, InCriticalSection(u)
                PROVE  lock'[job[u].subject] = u
    BY <1>4, <1>5 DEF LocksHeld, InCriticalSection
  <2>1. job[u].subject \in Subjects \ {s}
    BY <1>8 DEF TypeOK, Jobs, InCriticalSection
  <2>. QED
    BY <1>9, <2>1 DEF LocksHeld
<1>13. DecisionsStand'
  <2>. SUFFICES ASSUME NEW u \in Threads \ {t}, InCriticalSection(u)
                PROVE  Justified(u)'
    BY <1>4, <1>5 DEF DecisionsStand, InCriticalSection
  <2>1. job[u].subject \in Subjects \ {s}
    BY <1>8 DEF TypeOK, Jobs, InCriticalSection
  <2>2. Justified(u)
    BY DEF DecisionsStand
  <2>. QED
    BY <1>4, <1>9, <2>1, <2>2
    DEF Justified, RecoverAllowed, MethodAllowed, CooldownElapsed
<1>14. EpochsPast'
  <2>1. \A x \in Subjects : \A i \in 1..Len(transitions'[x]) :
           transitions'[x][i].capability_epoch \in 1..capability_epoch
    BY <1>1, <1>2, <1>6, <1>7 DEF EpochsPast
  <2>2. \A u \in Threads \ {t} : pc[u] = "commit" => job[u].subject \in Subjects \ {s}
    BY <1>8 DEF TypeOK, Jobs, InCriticalSection
  <2>3. ASSUME NEW u \in Threads, pc'[u] = "commit"
        PROVE  /\ stamp'[u] \in 1..capability_epoch'
               /\ \A i \in 1..Len(transitions'[job'[u].subject]) :
                     transitions'[job'[u].subject][i].capability_epoch < stamp'[u]
    <3>1. u # t /\ pc[u] = "commit"
      BY <1>4, <1>5, <2>3
    <3>2. /\ stamp'[u] = stamp[u] /\ job'[u] = job[u]
          /\ transitions'[job[u].subject] = transitions[job[u].subject]
      BY <1>4, <1>7, <2>2, <3>1
    <3>3. /\ stamp[u] \in 1..capability_epoch
          /\ \A i \in 1..Len(transitions[job[u].subject]) :
                transitions[job[u].subject][i].capability_epoch < stamp[u]
      BY <3>1 DEF EpochsPast
    <3>. QED
      BY <1>1, <3>2, <3>3
  <2>. QED
    BY <1>1, <2>1, <2>3 DEF EpochsPast
<1>15. LastAtRecorded'
  BY <1>2, <1>6, <1>7, <1>9 DEF LastAtRecorded
<1>16. ChainLinked'
  <2>1. /\ state[s] = IF h = <<>> THEN "NORMAL" ELSE h[Len(h)].new
        /\ \A i \in 1..Len(h) : h[i].old = IF i = 1 THEN "NORMAL" ELSE h[i - 1].new
        /\ \A i, j \in 1..Len(h) : i < j => h[i].capability_epoch < h[j].capability_epoch
    BY <1>2 DEF ChainLinked
  <2>2. \A i \in 1..Len(h) : h[i].capability_epoch < stamp[t]
    BY <1>1 DEF EpochsPast
  <2>3. state'[s] = transitions'[s][Len(transitions'[s])].new /\ transitions'[s] # <<>>
    BY <1>2, <1>6, <1>7, <1>9
  <2>4. \A i \in 1..Len(transitions'[s]) :
           transitions'[s][i].old = IF i = 1 THEN "NORMAL" ELSE transitions'[s][i - 1].new
    <3>. SUFFICES ASSUME NEW i \in 1..(Len(h) + 1)
                  PROVE  transitions'[s][i].old =
                            IF i = 1 THEN "NORMAL" ELSE transitions'[s][i - 1].new
      BY <1>7
    <3>1. CASE i = Len(h) + 1
      BY <1>2, <1>6, <1>7, <2>1, <3>1
    <3>2. CASE i \in 1..Len(h)
      BY <1>6, <1>7, <2>1, <3>2
    <3>. QED
      BY <1>6, <3>1, <3>2
  <2>5. \A i, j \in 1..Len(transitions'[s]) : i < j =>
           transitions'[s][i].capability_epoch < transitions'[s][j].capability_epoch
    <3>. SUFFICES ASSUME NEW i \in 1..(Len(h) + 1), NEW j \in 1..(Len(h) + 1), i < j
                  PROVE  transitions'[s][i].capability_epoch < transitions'[s][j].capability_epoch
      BY <1>7
    <3>1. i \in 1..Len(h) /\ transitions'[s][i] = h[i]
      BY <1>6, <1>7
    <3>2. CASE j = Len(h) + 1
      BY <1>2, <1>7, <2>2, <3>1, <3>2
    <3>3. CASE j \in 1..Len(h)
      BY <1>7, <2>1, <3>1, <3>3
    <3>. QED
      BY <1>6, <3>2, <3>3
  <2>6. ASSUME NEW x \in Subjects
        PROVE  LET g == transitions'[x] IN
               /\ state'[x] = IF g = <<>> THEN "NORMAL" ELSE g[Len(g)].new
               /\ \A i \in 1..Len(g) : g[i].old = IF i = 1 THEN "NORMAL" ELSE g[i - 1].new
               /\ \A i, j \in 1..Len(g) :
                     i < j => g[i].capability_epoch < g[j].capability_epoch
    <3>1. CASE x = s
      BY <2>3, <2>4, <2>5, <3>1
    <3>2. CASE x # s
      <4>1. transitions'[x] = transitions[x] /\ state'[x] = state[x]
        BY <1>7, <1>9, <3>2
      <4>. QED
        BY <4>1 DEF ChainLinked
    <3>. QED
      BY <3>1, <3>2
  <2>. QED
    BY <2>6 DEF ChainLinked
<1>17. ASSUME NEW x \in Subjects, NEW i \in 1..Len(transitions[x])
       PROVE  i \in 1..Len(transitions'[x]) /\ transitions'[x][i] = transitions[x][i]
  <2>1. CASE x = s
    BY <1>6, <1>7, <2>1
  <2>2. CASE x # s
    BY <1>7, <2>2
  <2>. QED
    BY <2>1, <2>2
<1>18. ASSUME NEW x \in Subjects, NEW i \in 1..Len(transitions'[x])
       PROVE  \/ i \in 1..Len(transitions[x]) /\ transitions'[x][i] = transitions[x][i]
              \/ x = s /\ transitions'[x][i].capability_epoch = stamp[t]
  <2>1. CASE x = s
    <3>1. i \in 1..Len(h) \/ i = Len(h) + 1
      BY <1>6, <1>7, <2>1
    <3>. QED
      BY <1>2, <1>7, <2>1, <3>1
  <2>2. CASE x # s
    BY <1>7, <2>2
  <2>. QED
    BY <2>1, <2>2
<1>19. EpochsAudited'
  <2>1. EveryEpochExplained'
    <3>. SUFFICES ASSUME NEW k \in 1..capability_epoch
                  PROVE  \/ \E x \in Subjects : Recorded(k, x)'
                         \/ \E u \in Threads : InFlight(k, u)'
      BY <1>1 DEF EveryEpochExplained
    <3>1. ASSUME NEW x \in Subjects, Recorded(k, x) PROVE Recorded(k, x)'
      <4>1. PICK i \in 1..Len(transitions[x]) : transitions[x][i].capability_epoch = k
        BY <3>1 DEF Recorded
      <4>2. i \in 1..Len(transitions'[x]) /\ transitions'[x][i] = transitions[x][i]
        BY <1>17
      <4>. QED
        BY <4>1, <4>2 DEF Recorded
    <3>2. ASSUME NEW u \in Threads \ {t}, InFlight(k, u) PROVE InFlight(k, u)'
      BY <1>4, <3>2 DEF InFlight
    <3>3. ASSUME InFlight(k, t) PROVE \E x \in Subjects : Recorded(k, x)'
      <4>1. PICK x \in Subjects : x = s
        BY <1>2
      <4>2. Len(h) + 1 \in 1..Len(transitions'[x])
        BY <1>6, <1>7, <4>1
      <4>3. transitions'[x][Len(h) + 1].capability_epoch = k
        BY <1>2, <1>7, <3>3, <4>1 DEF InFlight
      <4>4. Recorded(k, x)'
        BY <4>2, <4>3 DEF Recorded
      <4>. QED
        BY <4>4
    <3>4. (\E x \in Subjects : Recorded(k, x)) \/ (\E u \in Threads : InFlight(k, u))
      BY DEF EpochsAudited, EveryEpochExplained
    <3>5. CASE \E x \in Subjects : Recorded(k, x)
      BY <3>1, <3>5
    <3>6. CASE \E u \in Threads : InFlight(k, u)
      <4>1. PICK u \in Threads : InFlight(k, u)
        BY <3>6
      <4>2. CASE u = t
        BY <3>3, <4>1, <4>2
      <4>3. CASE u # t
        BY <3>2, <4>1, <4>3
      <4>. QED
        BY <4>2, <4>3
    <3>. QED
      BY <3>4, <3>5, <3>6
  <2>2. NoEpochRecordedTwice'
    <3>1. \A x \in Subjects : \A i \in 1..Len(transitions[x]) :
             transitions[x][i].capability_epoch # stamp[t]
      BY <1>1 DEF EpochsAudited, NoEpochClaimedTwice
    <3>. SUFFICES ASSUME NEW x \in Subjects, NEW y \in Subjects, x # y,
                         NEW i \in 1..Len(transitions'[x]), NEW j \in 1..Len(transitions'[y])
                  PROVE  transitions'[x][i].capability_epoch # transitions'[y][j].capability_epoch
      BY DEF NoEpochRecordedTwice
    <3>2. \/ i \in 1..Len(transitions[x]) /\ transitions'[x][i] = transitions[x][i]
          \/ x = s /\ transitions'[x][i].capability_epoch = stamp[t]
      BY <1>18
    <3>3. \/ j \in 1..Len(transitions[y]) /\ transitions'[y][j] = transitions[y][j]
          \/ y = s /\ transitions'[y][j].capability_epoch = stamp[t]
      BY <1>18
    <3>4. \A k \in 1..Len(transitions[x]), l \in 1..Len(transitions[y]) :
             transitions[x][k].capability_epoch # transitions[y][l].capability_epoch
      BY DEF EpochsAudited, NoEpochRecordedTwice
    <3>. HIDE DEF s, EngineInv
    <3>. QED
      BY <3>1, <3>2, <3>3, <3>4
  <2>3. NoEpochClaimedTwice'
    <3>1. \A u \in Threads \ {t} : pc[u] = "commit" => stamp[u] # stamp[t]
      BY <1>1 DEF EpochsAudited, NoEpochClaimedTwice
    <3>. SUFFICES ASSUME NEW u \in Threads \ {t}, pc[u] = "commit"
                  PROVE  /\ \A v \in Threads : pc'[v] = "commit" /\ stamp'[v] = stamp[u] => v = u
                         /\ \A x \in Subjects : \A i \in 1..Len(transitions'[x]) :
                               transitions'[x][i].capability_epoch # stamp[u]
      BY <1>4, <1>5 DEF NoEpochClaimedTwice
    <3>2. \A v \in Threads : pc'[v] = "commit" /\ stamp'[v] = stamp[u] => v = u
      BY <1>4, <1>5 DEF EpochsAudited, NoEpochClaimedTwice
    <3>3. \A x \in Subjects : \A i \in 1..Len(transitions[x]) :
             transitions[x][i].capability_epoch # stamp[u]
      BY DEF EpochsAudited, NoEpochClaimedTwice
    <3>4. ASSUME NEW x \in Subjects, NEW i \in 1..Len(transitions'[x])
          PROVE  transitions'[x][i].capability_epoch # stamp[u]
      <4>1. \/ i \in 1..Len(transitions[x]) /\ transitions'[x][i] = transitions[x][i]
            \/ x = s /\ transitions'[x][i].capability_epoch = stamp[t]
        BY <1>18
      <4>2. stamp[u] # stamp[t]
        BY <3>1
      <4>. HIDE DEF s, EngineInv
      <4>. QED
        BY <3>3, <4>1, <4>2
    <3>. QED
      BY <3>2, <3>4
  <2>. QED
    BY <2>1, <2>2, <2>3 DEF EpochsAudited
<1>20. CooldownHonoured'
  <2>1. r.method = "COOLDOWN_CLEAN" =>
           /\ Len(h) > 0 /\ r.old = "SUSPICIOUS"
           /\ r.at - h[Len(h)].at >= Cooldown
    <3>. SUFFICES ASSUME r.method = "COOLDOWN_CLEAN"
                  PROVE  /\ Len(h) > 0 /\ r.old = "SUSPICIOUS"
                         /\ r.at - h[Len(h)].at >= Cooldown
      OBVIOUS
    <3>1. job[t].kind = "recover"
      BY <1>1, <1>2 DEF JobsShaped, NoMethod
    <3>2. RecoverAllowed(job[t])
      BY <1>1, <3>1 DEF DecisionsStand, InCriticalSection, Justified
    <3>3. state[s] = "SUSPICIOUS"
      BY <1>2, <3>2 DEF RecoverAllowed, MethodAllowed, recovery_allowed, TypeOK, States, Methods
    <3>4. h # <<>> /\ Len(h) > 0
      BY <1>2, <1>6, <3>3 DEF ChainLinked
    <3>5. last_transition_at[s] = h[Len(h)].at /\ h[Len(h)].at \in Nat
      <4>1. h[Len(h)] \in Transition
        BY <1>6, <3>4
      <4>. QED
        BY <1>2, <3>4, <4>1 DEF LastAtRecorded, Transition
    <3>. QED
      BY <1>2, <3>2, <3>3, <3>4, <3>5 DEF RecoverAllowed, CooldownElapsed, NoTime
  <2>. SUFFICES ASSUME NEW x \in Subjects, NEW i \in 1..Len(transitions'[x]),
                       transitions'[x][i].method = "COOLDOWN_CLEAN"
                PROVE  /\ i > 1
                       /\ transitions'[x][i].old = "SUSPICIOUS"
                       /\ transitions'[x][i].at - transitions'[x][i - 1].at >= Cooldown
    BY DEF CooldownHonoured
  <2>2. CASE x # s
    BY <1>7, <2>2 DEF CooldownHonoured
  <2>3. CASE x = s /\ i = Len(h) + 1
    <3>1. Len(h) \in Nat /\ (i - 1 \in 1..Len(h) \/ Len(h) = 0) /\ i - 1 = Len(h)
      BY <1>6, <2>3
    <3>2. transitions'[x][i] = r
      BY <1>6, <1>7, <2>3
    <3>3. Len(h) > 0 /\ r.old = "SUSPICIOUS" /\ r.at - h[Len(h)].at >= Cooldown
      BY <2>1, <3>2
    <3>4. transitions'[x][i - 1] = h[Len(h)]
      BY <1>6, <1>7, <2>3, <3>1, <3>3
    <3>. QED
      BY <2>3, <3>1, <3>2, <3>3, <3>4
  <2>4. CASE x = s /\ i \in 1..Len(h)
    <3>1. transitions'[s][i] = h[i] /\ (i > 1 => transitions'[s][i - 1] = h[i - 1])
      BY <1>6, <1>7, <2>4
    <3>. QED
      BY <1>2, <2>4, <3>1 DEF CooldownHonoured
  <2>. QED
    BY <1>6, <1>7, <2>2, <2>3, <2>4
<1>. QED
  BY <1>10, <1>11, <1>12, <1>13, <1>14, <1>15, <1>16, <1>19, <1>20

\* Time passing.
LEMMA TickKeepsInv == ASSUME EngineInv, Tick PROVE EngineInv'
<1>. USE DEF EngineInv, Tick, engineVars
<1>1. TypeOK' /\ JobsShaped' /\ LocksHeld'
  BY DEF TypeOK, JobsShaped, LocksHeld, InCriticalSection
<1>2. DecisionsStand'
  BY DEF DecisionsStand, InCriticalSection, Justified, RecoverAllowed, MethodAllowed,
         CooldownElapsed
<1>3. EpochsPast' /\ LastAtRecorded' /\ ChainLinked' /\ CooldownHonoured'
  BY DEF EpochsPast, LastAtRecorded, ChainLinked, CooldownHonoured
<1>4. EpochsAudited'
  BY AuditStable
<1>. QED
  BY <1>1, <1>2, <1>3, <1>4

\* Nothing changes.
LEMMA StutterKeepsInv == ASSUME EngineInv, UNCHANGED vars PROVE EngineInv'
<1>. USE DEF EngineInv, vars, engineVars
<1>1. TypeOK' /\ JobsShaped' /\ LocksHeld'
  BY DEF TypeOK, JobsShaped, LocksHeld, InCriticalSection
<1>2. DecisionsStand'
  BY DEF DecisionsStand, InCriticalSection, Justified, RecoverAllowed, MethodAllowed,
         CooldownElapsed
<1>3. EpochsPast' /\ LastAtRecorded' /\ ChainLinked' /\ CooldownHonoured'
  BY DEF EpochsPast, LastAtRecorded, ChainLinked, CooldownHonoured
<1>4. EpochsAudited'
  BY AuditStable
<1>. QED
  BY <1>1, <1>2, <1>3, <1>4

\* Any step of one thread keeps the invariant, whatever module takes it.
LEMMA EngineStepKeepsInv ==
    ASSUME EngineInv, NEW t \in Threads, EngineCall(t) \/ EngineStep(t)
    PROVE  EngineInv'
<1>1. CASE EngineCall(t)
  <2>1. PICK j \in Jobs : Call(t, j) /\ (j.kind = "recover" <=> j.method # NoMethod)
    BY <1>1, CallShape DEF EngineInv
  <2>. QED
    BY <2>1, CallKeepsInv
<1>2. CASE EngineStep(t)
  BY <1>2, EnterCommitsKeepsInv, EnterReturnsKeepsInv, BumpKeepsInv, CommitKeepsInv
  DEF EngineStep
<1>. QED
  BY <1>1, <1>2

\* Every step preserves the invariant.
LEMMA NextKeepsInv == EngineInv /\ [Next]_vars => EngineInv'
<1>. SUFFICES ASSUME EngineInv, [Next]_vars PROVE EngineInv'
  OBVIOUS
<1>1. CASE \E t \in Threads : EngineCall(t) \/ EngineStep(t)
  BY <1>1, EngineStepKeepsInv
<1>2. CASE Tick
  BY <1>2, TickKeepsInv
<1>3. CASE Idle \/ UNCHANGED vars
  BY <1>3, StutterKeepsInv DEF Idle
<1>. QED
  BY <1>1, <1>2, <1>3 DEF Next

-----------------------------------------------------------------------------
(***************************************************************************)
(* The theorems.                                                           *)
(***************************************************************************)

\* The inductive invariant holds in every reachable state of the engine.
THEOREM EngineInvariant == Spec => []EngineInv
  BY InitEngineInv, NextKeepsInv, PTL DEF Spec

\* The engine's variables keep their types.
THEOREM TypeCorrect == Spec => []TypeOK
<1>1. EngineInv => TypeOK
  BY DEF EngineInv
<1>. QED
  BY <1>1, EngineInvariant, PTL

\* Every subject's transition records form one chain that ends in its state,
\* for any number of concurrent callers.
THEOREM ChainCorrect == Spec => []ChainLinked
<1>1. EngineInv => ChainLinked
  BY DEF EngineInv
<1>. QED
  BY <1>1, EngineInvariant, PTL

\* Every capability epoch has exactly one transition that explains it.
THEOREM EpochsCorrect == Spec => []EpochsAudited
<1>1. EngineInv => EpochsAudited
  BY DEF EngineInv
<1>. QED
  BY <1>1, EngineInvariant, PTL

\* Recovery by cooldown waited the configured cooldown.
THEOREM CooldownCorrect == Spec => []CooldownHonoured
<1>1. EngineInv => CooldownHonoured
  BY DEF EngineInv
<1>. QED
  BY <1>1, EngineInvariant, PTL

\* Whatever the other threads do, a state is lowered only by a recovery that
\* the table and the approver rule accept for the state being left.
THEOREM RecoveryCorrect == Spec => RecoveryGated
<1>. DEFINE Gated(s) ==
       severity(state'[s]) < severity(state[s]) =>
         LET r == transitions'[s][Len(transitions'[s])] IN
         /\ state'[s] = "NORMAL"
         /\ r.kind = "recover"
         /\ r.method \in recovery_allowed(state[s])
         /\ approver_required(state[s], r.method) => r.approver
<1>1. ASSUME EngineInv, Next PROVE \A s \in Subjects : Gated(s)
  <2>1. CASE UNCHANGED state
    <3>1. \A s \in Subjects : ~ (severity(state'[s]) < severity(state[s]))
      BY <1>1, <2>1, SeverityIrreflexive DEF EngineInv, TypeOK
    <3>. QED
      BY <3>1
  <2>2. ASSUME NEW t \in Threads, Commit(t), NEW s \in Subjects,
               severity(state'[s]) < severity(state[s])
        PROVE  LET r == transitions'[s][Len(transitions'[s])] IN
               /\ state'[s] = "NORMAL"
               /\ r.kind = "recover"
               /\ r.method \in recovery_allowed(state[s])
               /\ approver_required(state[s], r.method) => r.approver
    <3>1. pc[t] = "commit"
      BY <2>2 DEF Commit
    <3>2. /\ job[t] \in Jobs /\ job[t].subject \in Subjects /\ RecordOf(t) \in Transition
          /\ RecordOf(t).kind = job[t].kind /\ RecordOf(t).method = job[t].method
          /\ RecordOf(t).approver = job[t].approver
      BY <1>1, <3>1, CommitRecord
    <3>3. Justified(t)
      BY <1>1, <3>1 DEF EngineInv, DecisionsStand, InCriticalSection
    <3>4. /\ state \in [Subjects -> States]
          /\ transitions \in [Subjects -> Seq(Transition)]
          /\ state' = [state EXCEPT ![job[t].subject] = job[t].target]
          /\ transitions' = [transitions EXCEPT ![job[t].subject] = Append(@, RecordOf(t))]
      BY <1>1, <2>2 DEF EngineInv, TypeOK, Commit
    <3>5. s = job[t].subject
      <4>1. state'[s] # state[s]
        BY <2>2, <3>4, SeverityIrreflexive
      <4>. QED
        BY <2>2, <3>4, <4>1
    <3>6. state'[s] = job[t].target /\ transitions'[s] = Append(transitions[s], RecordOf(t))
      BY <3>4, <3>5
    <3>7. transitions'[s][Len(transitions'[s])] = RecordOf(t)
      BY <3>2, <3>4, <3>6
    <3>8. job[t].kind = "recover"
      <4>1. job[t].target \in States /\ severity(job[t].target) < severity(state[s])
        BY <2>2, <3>2, <3>6 DEF Jobs
      <4>. QED
        BY <2>2, <3>3, <3>4, <3>5, <4>1, SeverityFacts DEF Justified
    <3>9. job[t].target = "NORMAL" /\ RecoverAllowed(job[t])
      BY <3>3, <3>8 DEF Justified
    <3>. QED
      BY <3>2, <3>5, <3>6, <3>7, <3>8, <3>9 DEF RecoverAllowed, MethodAllowed
  <2>3. UNCHANGED state \/ \E t \in Threads : Commit(t)
    BY <1>1 DEF Next, EngineCall, EngineStep, CallEvaluate, CallKillSwitch, CallRecover,
                Call, EnterCommits, EnterReturns, Bump, Tick, Idle, engineVars, vars
  <2>. QED
    BY <2>1, <2>2, <2>3
<1>2. EngineInv /\ [Next]_vars => [\A s \in Subjects : Gated(s)]_vars
  BY <1>1
<1>. QED
  BY <1>2, EngineInvariant, PTL DEF Spec, RecoveryGated

-----------------------------------------------------------------------------
(***************************************************************************)
(* Capability decay, for every classification of the capabilities.         *)
(***************************************************************************)

\* What a state's ceiling lets through, the ceiling of a milder state does too,
\* but for a diagnostic and consequential capability at QUARANTINED.
LEMMA CeilingTightens ==
    ASSUME NEW a \in States, NEW b \in States, severity(b) >= severity(a),
           NEW attrs \in CapabilityAttributes,
           ceiling_allows(b, attrs), ~ ceiling_allows(a, attrs)
    PROVE  /\ a # "QUARANTINED" /\ b = "QUARANTINED"
           /\ attrs.diagnostic /\ Consequential(attrs)
<1>1. /\ severity("NORMAL") = 0 /\ severity("SUSPICIOUS") = 1
      /\ severity("RESTRICTED") = 2 /\ severity("QUARANTINED") = 3
      /\ severity("TERMINATED") = 4
  BY DEF severity
<1>2. /\ ceiling_allows("NORMAL", attrs)
      /\ ceiling_allows("SUSPICIOUS", attrs) <=> ~ attrs.optional_high_risk
      /\ ceiling_allows("RESTRICTED", attrs) <=> ~ Consequential(attrs)
      /\ ceiling_allows("QUARANTINED", attrs) <=> attrs.diagnostic
      /\ ~ ceiling_allows("TERMINATED", attrs)
  BY DEF ceiling_allows
<1>3. attrs.optional_high_risk => Consequential(attrs)
  BY DEF Consequential
<1>4. \/ a = "NORMAL" \/ a = "SUSPICIOUS" \/ a = "RESTRICTED" \/ a = "QUARANTINED"
      \/ a = "TERMINATED"
  BY DEF States
<1>5. \/ b = "NORMAL" \/ b = "SUSPICIOUS" \/ b = "RESTRICTED" \/ b = "QUARANTINED"
      \/ b = "TERMINATED"
  BY DEF States
<1>. QED
  BY <1>1, <1>2, <1>3, <1>4, <1>5

\* A subject whose state does not improve gains no capability but the
\* diagnostic ones that QUARANTINED gives back, whatever concurrent calls do
\* and however the capabilities are classified (_ceiling_allows).
THEOREM DecayMonotone == Spec => EscalationRestoresOnlyDiagnostics
<1>1. ASSUME EngineInv, EngineInv', NEW s \in Subjects,
             severity(state'[s]) >= severity(state[s]),
             NEW c \in EffectiveCapabilities(s)' \ EffectiveCapabilities(s)
      PROVE  Restored(s, c)
  <2>1. state[s] \in States /\ state'[s] \in States
    BY <1>1 DEF EngineInv, TypeOK
  <2>2. /\ c \in Delegated \cap EnterprisePolicy \cap RuntimeProfile
        /\ ceiling_allows(state'[s], Profile[c])
        /\ ~ ceiling_allows(state[s], Profile[c])
    BY <1>1 DEF EffectiveCapabilities, effective_capabilities
  <2>3. Profile[c] \in CapabilityAttributes
    BY <2>2, CapabilityAssumption
  <2>. QED
    BY <1>1, <2>1, <2>2, <2>3, CeilingTightens DEF Restored
<1>2. EngineInv /\ EngineInv' =>
        [\A s \in Subjects : severity(state'[s]) >= severity(state[s]) =>
           \A c \in EffectiveCapabilities(s)' \ EffectiveCapabilities(s) :
               Restored(s, c)]_vars
  BY <1>1
<1>. QED
  BY <1>2, EngineInvariant, PTL DEF EscalationRestoresOnlyDiagnostics

-----------------------------------------------------------------------------
(***************************************************************************)
(* What the step of a worker does to its locals, field by field.           *)
(***************************************************************************)

\* Worker w goes to label l, and the other workers stay where they are.
Moves(w, l) ==
    /\ wpc' \in [Workers -> WorkLabels]
    /\ work' \in [Workers -> Work \cup {NoWork}]
    /\ wpc'[w] = l
    /\ l # "idle" => work'[w] \in Work
    /\ \A u \in Workers \ {w} : wpc'[u] = wpc[u] /\ work'[u] = work[u]

\* The call goes on: for the same request, with the clock it read.
SameCall(w) ==
    /\ work'[w].envelope = work[w].envelope
    /\ work'[w].now = work[w].now
    /\ work'[w].since = work[w].since

SameDecision(w) == work'[w].decision = work[w].decision
SameToken(w) == work'[w].token = work[w].token

\* A request that ends leaves its worker idle and touches no other worker.
LEMMA ReturnMoves ==
    ASSUME WorkersOK, NEW w \in Workers, Return(w)
    PROVE  Moves(w, "idle")
  BY DEF WorkersOK, Return, Moves, WorkLabels

\* Moving only the program counter keeps the call, its decision and its token.
LEMMA GotoMoves ==
    ASSUME WorkersOK, NEW w \in Workers, NEW l \in WorkLabels, Goto(w, l),
           UNCHANGED work, wpc[w] # "idle"
    PROVE  Moves(w, l) /\ SameCall(w) /\ SameDecision(w) /\ SameToken(w)
  BY DEF WorkersOK, Goto, Moves, SameCall, SameDecision, SameToken

\* Moving and rewriting the locals changes the moving worker only.
LEMMA SetMoves ==
    ASSUME WorkersOK, NEW w \in Workers, NEW l \in WorkLabels, Goto(w, l),
           NEW r \in Work, work' = [work EXCEPT ![w] = r]
    PROVE  Moves(w, l) /\ work'[w] = r
  BY DEF WorkersOK, Goto, Moves

\* The locals a request begins with.
LEMMA NewWorkFields ==
    ASSUME TypeOK, NEW e \in Envelopes, NEW d \in Nat
    PROVE  /\ NewWork(e, d) \in Work
           /\ NewWork(e, d).envelope = e /\ NewWork(e, d).decision = d
           /\ NewWork(e, d).since = Len(transitions[SubjectOf[e]])
<1>1. SubjectOf[e] \in Subjects
  BY PlaneAssumption
<1>2. Len(transitions[SubjectOf[e]]) \in Nat /\ clock \in Nat
  BY <1>1 DEF TypeOK
<1>3. "NORMAL" \in States
  BY DEF States
<1>. QED
  BY <1>2, <1>3 DEF NewWork, Work

\* evaluate begins: no decision yet, the gate's interval starts now.
LEMMA BeginEvaluateDoes ==
    ASSUME TypeOK, WorkersOK, NEW w \in Workers, NEW e \in Envelopes, BeginEvaluate(w, e)
    PROVE  /\ wpc[w] = "idle" /\ Moves(w, "replay")
           /\ work'[w].envelope = e /\ work'[w].decision = 0
           /\ work'[w].since = Len(transitions[SubjectOf[e]])
<1>. DEFINE r == NewWork(e, 0)
<1>1. wpc[w] = "idle" /\ Goto(w, "replay") /\ work' = [work EXCEPT ![w] = r]
  BY DEF BeginEvaluate
<1>2. r \in Work /\ r.envelope = e /\ r.decision = 0
      /\ r.since = Len(transitions[SubjectOf[e]])
  BY NewWorkFields
<1>. HIDE DEF r
<1>3. Moves(w, "replay") /\ work'[w] = r
  BY <1>1, <1>2, SetMoves DEF WorkLabels
<1>. QED
  BY <1>1, <1>2, <1>3

\* approve begins on the envelope of the decision it names.
LEMMA BeginApproveDoes ==
    ASSUME TypeOK, StoresOK, WorkersOK, NEW w \in Workers, NEW d \in DecisionIds,
           BeginApprove(w, d)
    PROVE  /\ wpc[w] = "idle" /\ Moves(w, "grant")
           /\ work'[w].envelope = decisions[d].envelope /\ work'[w].decision = d
           /\ work'[w].since = Len(transitions[SubjectOf[decisions[d].envelope]])
           /\ decisions[d].envelope \in Envelopes
<1>. DEFINE e == decisions[d].envelope
            r == NewWork(e, d)
<1>1. decisions[d] \in Decision /\ d \in Nat
  BY DEF StoresOK, DecisionIds
<1>2. e \in Envelopes
  BY <1>1 DEF Decision
<1>3. wpc[w] = "idle" /\ Goto(w, "grant") /\ work' = [work EXCEPT ![w] = r]
  BY DEF BeginApprove
<1>. HIDE DEF e
<1>4. r \in Work /\ r.envelope = e /\ r.decision = d
      /\ r.since = Len(transitions[SubjectOf[e]])
  BY <1>1, <1>2, NewWorkFields
<1>. HIDE DEF r
<1>5. Moves(w, "grant") /\ work'[w] = r
  BY <1>3, <1>4, SetMoves DEF WorkLabels
<1>. QED
  BY <1>2, <1>3, <1>4, <1>5 DEF e

\* Reading the containment state keeps call, decision and token.
LEMMA ReadStateDoes ==
    ASSUME TypeOK, WorkersOK, NEW w \in Workers, ReadState(w)
    PROVE  /\ wpc[w] = "state" /\ Moves(w, "gate")
           /\ SameCall(w) /\ SameDecision(w) /\ SameToken(w)
<1>. DEFINE r == [work[w] EXCEPT !.state = state[Subject(w)]]
<1>1. wpc[w] = "state" /\ work[w] \in Work
  BY DEF ReadState, WorkersOK
<1>2. state[Subject(w)] \in States
  BY <1>1, PlaneAssumption DEF Subject, TypeOK, Work
<1>3. r \in Work /\ r.envelope = work[w].envelope /\ r.decision = work[w].decision
      /\ r.now = work[w].now /\ r.token = work[w].token /\ r.since = work[w].since
  BY <1>1, <1>2 DEF Work
<1>4. work' = [work EXCEPT ![w] = r] /\ Goto(w, "gate")
  BY DEF ReadState
<1>. HIDE DEF r
<1>5. Moves(w, "gate") /\ work'[w] = r
  BY <1>3, <1>4, SetMoves DEF WorkLabels
<1>. QED
  BY <1>1, <1>3, <1>5 DEF SameCall, SameDecision, SameToken

\* An allowing policy hands the new decision to the minting step.
LEMMA PolicyAllowsDoes ==
    ASSUME StoresOK, WorkersOK, NEW w \in Workers, PolicyAllows(w)
    PROVE  /\ wpc[w] = "policy" /\ Moves(w, "mint")
           /\ SameCall(w) /\ work'[w].decision = Len(decisions) + 1 /\ SameToken(w)
<1>. DEFINE r == [work[w] EXCEPT !.decision = NewDecisionId]
<1>1. wpc[w] = "policy" /\ work[w] \in Work
  BY DEF PolicyAllows, WorkersOK
<1>2. NewDecisionId = Len(decisions) + 1 /\ NewDecisionId \in Nat
  BY DEF NewDecisionId, StoresOK
<1>3. r \in Work /\ r.envelope = work[w].envelope /\ r.decision = NewDecisionId
      /\ r.now = work[w].now /\ r.token = work[w].token /\ r.since = work[w].since
  BY <1>1, <1>2 DEF Work
<1>4. work' = [work EXCEPT ![w] = r] /\ Goto(w, "mint")
  BY DEF PolicyAllows
<1>. HIDE DEF r
<1>5. Moves(w, "mint") /\ work'[w] = r
  BY <1>3, <1>4, SetMoves DEF WorkLabels
<1>. QED
  BY <1>1, <1>2, <1>3, <1>5 DEF SameCall, SameToken

\* A worker leaves the minting step with the token it has minted.
LEMMA MintDoes ==
    ASSUME StoresOK, WorkersOK, NEW w \in Workers, Mint(w)
    PROVE  /\ wpc[w] = "mint" /\ Moves(w, "present")
           /\ SameCall(w) /\ SameDecision(w) /\ work'[w].token = Len(tokens) + 1
<1>. DEFINE r == [work[w] EXCEPT !.token = Len(tokens) + 1]
<1>1. wpc[w] = "mint" /\ work[w] \in Work
  BY DEF Mint, WorkersOK
<1>2. Len(tokens) + 1 \in Nat
  BY DEF StoresOK
<1>3. r \in Work /\ r.envelope = work[w].envelope /\ r.decision = work[w].decision
      /\ r.now = work[w].now /\ r.token = Len(tokens) + 1 /\ r.since = work[w].since
  BY <1>1, <1>2 DEF Work
<1>4. work' = [work EXCEPT ![w] = r] /\ Goto(w, "present")
  BY DEF Mint
<1>. HIDE DEF r
<1>5. Moves(w, "present") /\ work'[w] = r
  BY <1>3, <1>4, SetMoves DEF WorkLabels
<1>. QED
  BY <1>1, <1>3, <1>5 DEF SameCall, SameDecision

-----------------------------------------------------------------------------
(***************************************************************************)
(* The five kinds of a worker's step: it gives up, it goes on without      *)
(* touching a store, or it changes one.                                    *)
(***************************************************************************)

\* A call ends and leaves everything else alone.
GivesUp(w) ==
    /\ wpc[w] # "idle" /\ Moves(w, "idle")
    /\ UNCHANGED <<requestVars, decisionVars, tokenVars, brokerVars, vars>>

\* A call passes a test and goes from label k to label l.
Passes(w, k, l) ==
    /\ wpc[w] = k /\ Moves(w, l)
    /\ SameCall(w) /\ SameDecision(w) /\ SameToken(w)
    /\ UNCHANGED <<requestVars, decisionVars, tokenVars, brokerVars, vars>>

\* Every step of a worker is one of these few kinds; the proofs go by kind.
LEMMA WorkerStepKinds ==
    ASSUME PlaneTypeOK, NEW w \in Workers, WorkerStep(w)
    PROVE  \/ GivesUp(w)
           \/ Passes(w, "session", "state")
           \/ Passes(w, "state", "gate")
           \/ /\ Passes(w, "gate", IF work[w].decision = 0 THEN "policy" ELSE "mint")
              /\ ~ Blocked(w)
           \/ CommitReplay(w)
           \/ PolicyAllows(w)
           \/ PolicyParks(w)
           \/ Grant(w) /\ Decidable(work[w].decision, work[w].now)
           \/ Mint(w)
           \/ Present(w)
           \/ RecordDecision(w)
<1>. USE DEF PlaneTypeOK
<1>1. CASE RejectReplay(w) \/ PolicyDenies(w)
  BY <1>1, ReturnMoves DEF RejectReplay, PolicyDenies, GivesUp
<1>2. CASE CheckSession(w)
  <2>1. CASE work[w].now < SessionExpires[Subject(w)]
    BY <1>2, <2>1, GotoMoves DEF CheckSession, Passes, WorkLabels
  <2>2. CASE ~ (work[w].now < SessionExpires[Subject(w)])
    BY <1>2, <2>2, ReturnMoves DEF CheckSession, GivesUp
  <2>. QED
    BY <2>1, <2>2
<1>3. CASE ReadState(w)
  BY <1>3, ReadStateDoes DEF ReadState, Passes
<1>4. CASE Gate(w)
  <2>1. CASE Blocked(w)
    BY <1>4, <2>1, ReturnMoves DEF Gate, GivesUp
  <2>2. CASE ~ Blocked(w)
    <3>. DEFINE l == IF work[w].decision = 0 THEN "policy" ELSE "mint"
    <3>1. l \in WorkLabels /\ Goto(w, l) /\ UNCHANGED work /\ wpc[w] = "gate"
          /\ UNCHANGED <<requestVars, decisionVars, tokenVars, brokerVars, vars>>
      BY <1>4, <2>2 DEF Gate, WorkLabels
    <3>. HIDE DEF l
    <3>2. Moves(w, l) /\ SameCall(w) /\ SameDecision(w) /\ SameToken(w)
      BY <3>1, GotoMoves
    <3>3. Passes(w, "gate", l)
      BY <3>1, <3>2 DEF Passes
    <3>. QED
      BY <2>2, <3>3 DEF l
  <2>. QED
    BY <2>1, <2>2
<1>5. CASE Grant(w)
  <2>1. CASE ~ Decidable(work[w].decision, work[w].now)
    BY <1>5, <2>1, ReturnMoves DEF Grant, GivesUp, decisionVars
  <2>. QED
    BY <1>5, <2>1
<1>. QED
  BY <1>1, <1>2, <1>3, <1>4, <1>5 DEF WorkerStep, EvaluateStep

-----------------------------------------------------------------------------
(***************************************************************************)
(* What the steps do to the stores.                                        *)
(***************************************************************************)

\* No decision is added, and each is still about the same request.
SameDecisions ==
    /\ Len(decisions') = Len(decisions)
    /\ \A d \in DecisionIds : decisions'[d].envelope = decisions[d].envelope

\* One decision is added, about request e, with an approval in state st.
AddsDecision(e, st) ==
    /\ Len(decisions') = Len(decisions) + 1
    /\ \A d \in DecisionIds :
          decisions'[d].envelope = decisions[d].envelope /\ approvals'[d] = approvals[d]
    /\ decisions'[Len(decisions) + 1].envelope = e
    /\ approvals'[Len(decisions) + 1].state = st

\* Appending to decisions and approvals keeps the two in step.
LEMMA AppendDecision ==
    ASSUME StoresOK, NEW d \in Decision, NEW a \in Approval,
           decisions' = Append(decisions, d), approvals' = Append(approvals, a)
    PROVE  /\ AddsDecision(d.envelope, a.state)
           /\ decisions' \in Seq(Decision) /\ approvals' \in Seq(Approval)
           /\ Len(approvals') = Len(decisions')
  BY DEF StoresOK, AddsDecision, DecisionIds

\* The record of a decision is replaced by one about the same request.
LEMMA ReplaceDecision ==
    ASSUME StoresOK, NEW d \in DecisionIds, NEW r \in Decision,
           r.envelope = decisions[d].envelope,
           decisions' = [decisions EXCEPT ![d] = r]
    PROVE  SameDecisions /\ decisions' \in Seq(Decision)
<1>1. decisions \in Seq(Decision) /\ d \in 1..Len(decisions)
  BY DEF StoresOK, DecisionIds
<1>2. decisions' \in Seq(Decision) /\ Len(decisions') = Len(decisions)
  BY <1>1
<1>3. \A c \in DecisionIds : decisions'[c] = IF c = d THEN r ELSE decisions[c]
  BY <1>1 DEF DecisionIds
<1>. QED
  BY <1>2, <1>3 DEF SameDecisions

\* Replacing one approval leaves the others alone.
LEMMA ReplaceApproval ==
    ASSUME StoresOK, NEW d \in DecisionIds, NEW r \in Approval,
           approvals' = [approvals EXCEPT ![d] = r]
    PROVE  /\ approvals' \in Seq(Approval) /\ Len(approvals') = Len(approvals)
           /\ approvals'[d] = r
           /\ \A c \in DecisionIds \ {d} : approvals'[c] = approvals[c]
<1>1. approvals \in Seq(Approval) /\ d \in 1..Len(approvals)
      /\ Len(approvals) = Len(decisions)
  BY DEF StoresOK, DecisionIds
<1>. QED
  BY <1>1 DEF DecisionIds

\* Deciding an approval changes its state and no other approval.
LEMMA DecideDoes ==
    ASSUME StoresOK, NEW d \in DecisionIds, NEW st \in {"GRANTED", "DENIED"},
           approvals' = [approvals EXCEPT ![d].state = st]
    PROVE  /\ approvals' \in Seq(Approval) /\ Len(approvals') = Len(approvals)
           /\ approvals'[d].state = st
           /\ \A c \in DecisionIds \ {d} : approvals'[c] = approvals[c]
<1>. DEFINE r == [approvals[d] EXCEPT !.state = st]
<1>1. approvals[d] \in Approval
  BY DEF StoresOK, DecisionIds
<1>2. r \in Approval /\ r.state = st
  BY <1>1 DEF Approval
<1>3. approvals' = [approvals EXCEPT ![d] = r]
  OBVIOUS
<1>. HIDE DEF r
<1>. QED
  BY <1>2, <1>3, ReplaceApproval

\* The trailing log entry fills in a field of a decision and adds none.
LEMMA RecordDoes ==
    ASSUME StoresOK, WorkersOK, NEW w \in Workers, RecordDecision(w)
    PROVE  SameDecisions /\ decisions' \in Seq(Decision)
<1>. DEFINE d == work[w].decision
            r == [decisions[d] EXCEPT !.status = "ALLOW"]
<1>1. d \in DecisionIds
  BY DEF RecordDecision, WorkersOK
<1>2. decisions[d] \in Decision
  BY <1>1 DEF StoresOK, DecisionIds
<1>3. r \in Decision /\ r.envelope = decisions[d].envelope
  BY <1>2 DEF Decision
<1>4. decisions' = [decisions EXCEPT ![d] = r]
  BY DEF RecordDecision
<1>. HIDE DEF d, r
<1>. QED
  BY <1>1, <1>3, <1>4, ReplaceDecision

\* An allowing policy adds one decision that needs no approval.
LEMMA PolicyAllowsAdds ==
    ASSUME StoresOK, WorkersOK, NEW w \in Workers, PolicyAllows(w)
    PROVE  /\ AddsDecision(work[w].envelope, "NONE")
           /\ decisions' \in Seq(Decision) /\ approvals' \in Seq(Approval)
           /\ Len(approvals') = Len(decisions')
<1>. DEFINE d == [envelope |-> work[w].envelope, status |-> "NONE"]
<1>1. work[w] \in Work
  BY DEF PolicyAllows, WorkersOK
<1>2. d \in Decision /\ d.envelope = work[w].envelope
  BY <1>1 DEF Work, Decision
<1>3. NoApproval \in Approval /\ NoApproval.state = "NONE"
  BY DEF NoApproval, Approval
<1>4. decisions' = Append(decisions, d) /\ approvals' = Append(approvals, NoApproval)
  BY DEF PolicyAllows
<1>. HIDE DEF d
<1>. QED
  BY <1>2, <1>3, <1>4, AppendDecision

\* A parking policy adds one decision whose approval is pending.
LEMMA PolicyParksAdds ==
    ASSUME StoresOK, WorkersOK, NEW w \in Workers, PolicyParks(w)
    PROVE  /\ AddsDecision(work[w].envelope, "PENDING")
           /\ decisions' \in Seq(Decision) /\ approvals' \in Seq(Approval)
           /\ Len(approvals') = Len(decisions')
<1>. DEFINE d == [envelope |-> work[w].envelope, status |-> "PENDING_APPROVAL"]
            a == [state |-> "PENDING", expires_at |-> work[w].now + ApprovalTTL]
<1>1. work[w] \in Work
  BY DEF PolicyParks, WorkersOK
<1>2. d \in Decision /\ d.envelope = work[w].envelope
  BY <1>1 DEF Work, Decision
<1>3. a \in Approval /\ a.state = "PENDING"
  <2>1. work[w].now + ApprovalTTL \in Nat
    BY <1>1, PlaneAssumption DEF Work
  <2>. QED
    BY <2>1 DEF Approval
<1>4. decisions' = Append(decisions, d) /\ approvals' = Append(approvals, a)
  BY DEF PolicyParks
<1>. HIDE DEF d, a
<1>. QED
  BY <1>2, <1>3, <1>4, AppendDecision

\* One token is added, unused.
AddsToken(t) ==
    /\ t \in Token
    /\ tokens' \in Seq(Token) /\ Len(tokens') = Len(tokens) + 1
    /\ tokens'[Len(tokens) + 1] = t
    /\ counts' \in Seq(Nat) /\ Len(counts') = Len(tokens')
    /\ effects' \in Seq(Nat) /\ Len(effects') = Len(tokens')
    /\ counts'[Len(tokens) + 1] = 0 /\ effects'[Len(tokens) + 1] = 0
    /\ \A i \in TokenIds :
          tokens'[i] = tokens[i] /\ counts'[i] = counts[i] /\ effects'[i] = effects[i]

\* Minting adds one token, bound to the decision, subject, action and epoch.
LEMMA MintAdds ==
    ASSUME TypeOK, StoresOK, WorkersOK, NEW w \in Workers, Mint(w)
    PROVE  /\ AddsToken(NewToken(w))
           /\ NewToken(w).decision = work[w].decision
           /\ work[w].decision \in DecisionIds
           /\ NewToken(w).subject = SubjectOf[work[w].envelope]
           /\ NewToken(w).action = ActionOf[work[w].envelope]
           /\ NewToken(w).since = work[w].since
           /\ NewToken(w).until = Len(transitions[SubjectOf[work[w].envelope]])
<1>1. wpc[w] = "mint" /\ work[w] \in Work /\ work[w].decision \in DecisionIds
  BY DEF Mint, WorkersOK
<1>2. /\ work[w].envelope \in Envelopes /\ work[w].now \in Nat
      /\ work[w].state \in States /\ work[w].since \in Nat
      /\ work[w].decision \in Nat \ {0}
  BY <1>1 DEF Work, DecisionIds
<1>3. /\ SubjectOf[work[w].envelope] \in Subjects /\ ActionOf[work[w].envelope] \in Actions
      /\ work[w].now + TokenTTL \in Nat
  BY <1>2, PlaneAssumption
<1>4. Len(transitions[SubjectOf[work[w].envelope]]) \in Nat /\ capability_epoch \in Nat
  BY <1>3 DEF TypeOK
<1>5. NewToken(w) \in Token
  BY <1>2, <1>3, <1>4 DEF NewToken, Token, Subject
<1>6. AddsToken(NewToken(w))
  <2>1. tokens' = Append(tokens, NewToken(w)) /\ counts' = Append(counts, 0)
        /\ effects' = Append(effects, 0)
    BY DEF Mint
  <2>. QED
    BY <1>5, <2>1 DEF AddsToken, StoresOK, TokenIds
<1>. QED
  BY <1>1, <1>6 DEF NewToken, Subject

-----------------------------------------------------------------------------
(***************************************************************************)
(* What the step of a broker does to its locals.                           *)
(***************************************************************************)

MovesBroker(m, l) ==
    /\ mpc' \in [Mediators -> MediationLabels]
    /\ med' \in [Mediators -> Mediation \cup {NoMediation}]
    /\ mpc'[m] = l
    /\ l # "idle" => med'[m] \in Mediation
    /\ \A n \in Mediators \ {m} : mpc'[n] = mpc[n] /\ med'[n] = med[n]

\* A receipt ends a mediation and counts once, under its own outcome.
LEMMA EmitDoes ==
    ASSUME BrokersOK, NEW m \in Mediators, NEW o \in Outcomes, Emit(m, o)
    PROVE  /\ MovesBroker(m, "idle")
           /\ receipts' \in [Outcomes -> Nat]
           /\ receipts'[o] = receipts[o] + 1
           /\ \A p \in Outcomes \ {o} : receipts'[p] = receipts[p]
  BY DEF BrokersOK, Emit, MovesBroker, MediationLabels

\* Moving only the program counter keeps a mediation's locals.
LEMMA GotoBroker ==
    ASSUME BrokersOK, NEW m \in Mediators, NEW l \in MediationLabels,
           mpc' = [mpc EXCEPT ![m] = l], UNCHANGED med, mpc[m] # "idle"
    PROVE  MovesBroker(m, l) /\ med'[m] = med[m]
  BY DEF BrokersOK, MovesBroker

\* Moving and rewriting the locals changes the moving mediation only.
LEMMA SetBroker ==
    ASSUME BrokersOK, NEW m \in Mediators, NEW l \in MediationLabels,
           mpc' = [mpc EXCEPT ![m] = l],
           NEW r \in Mediation, med' = [med EXCEPT ![m] = r]
    PROVE  MovesBroker(m, l) /\ med'[m] = r
  BY DEF BrokersOK, MovesBroker

\* A mediation begins with the epoch of that moment.
LEMMA BeginMediateDoes ==
    ASSUME TypeOK, BrokersOK, NEW m \in Mediators, NEW s \in Subjects, NEW a \in Actions,
           BeginMediate(m, s, a)
    PROVE  /\ mpc[m] = "idle" /\ MovesBroker(m, "lookup")
           /\ med'[m].started_epoch = capability_epoch
<1>. DEFINE r == [subject |-> s, action |-> a, now |-> clock, token |-> 0,
                  started_epoch |-> capability_epoch]
<1>1. r \in Mediation /\ r.started_epoch = capability_epoch
  BY DEF Mediation, TypeOK
<1>2. mpc[m] = "idle" /\ mpc' = [mpc EXCEPT ![m] = "lookup"] /\ med' = [med EXCEPT ![m] = r]
  BY DEF BeginMediate
<1>. HIDE DEF r
<1>. QED
  BY <1>1, <1>2, SetBroker DEF MediationLabels

\* The presented token is taken, or the call is denied.
Takes(m, i) ==
    /\ i \in TokenIds /\ Matches(m, i)
    /\ MovesBroker(m, "epoch")
    /\ med'[m].token = i
    /\ med'[m].subject = med[m].subject /\ med'[m].action = med[m].action
    /\ med'[m].now = med[m].now /\ med'[m].started_epoch = med[m].started_epoch
    /\ UNCHANGED receipts

\* A lookup takes the stored token or ends in a denial.
LEMMA LookupDoes ==
    ASSUME StoresOK, BrokersOK, NEW m \in Mediators, Lookup(m)
    PROVE  /\ mpc[m] = "lookup"
           /\ Takes(m, store[med[m].action]) \/ Emit(m, "DENIED")
<1>. DEFINE i == store[med[m].action]
            r == [med[m] EXCEPT !.token = i]
<1>1. mpc[m] = "lookup" /\ med[m] \in Mediation
  BY DEF Lookup, BrokersOK
<1>2. med[m].action \in Actions
  BY <1>1 DEF Mediation
<1>3. i \in {0} \cup TokenIds
  BY <1>2 DEF StoresOK
<1>4. CASE i # 0 /\ Matches(m, i)
  <2>1. i \in TokenIds /\ i \in Nat
    BY <1>3, <1>4 DEF TokenIds
  <2>2. /\ mpc' = [mpc EXCEPT ![m] = "epoch"] /\ med' = [med EXCEPT ![m] = r]
        /\ UNCHANGED receipts
    BY <1>4 DEF Lookup
  <2>. HIDE DEF i
  <2>3. /\ r \in Mediation /\ r.token = i
        /\ r.subject = med[m].subject /\ r.action = med[m].action
        /\ r.now = med[m].now /\ r.started_epoch = med[m].started_epoch
    BY <1>1, <2>1 DEF Mediation
  <2>. HIDE DEF r
  <2>4. MovesBroker(m, "epoch") /\ med'[m] = r
    BY <2>2, <2>3, SetBroker DEF MediationLabels
  <2>5. Takes(m, i)
    BY <1>4, <2>1, <2>2, <2>3, <2>4 DEF Takes
  <2>. QED
    BY <1>1, <2>5 DEF i
<1>5. CASE ~ (i # 0 /\ Matches(m, i))
  BY <1>1, <1>5 DEF Lookup
<1>. QED
  BY <1>4, <1>5

\* A call of mediate is denied before its token is consumed.
Denied(m) ==
    /\ mpc[m] \in {"lookup", "epoch", "consume"} /\ Emit(m, "DENIED")
    /\ UNCHANGED <<vars, requestVars, decisionVars, tokenVars, workerVars, counts,
                   mediations, effects>>

\* Every step of a mediation is one of these few kinds.
LEMMA MediatorStepKinds ==
    ASSUME PlaneTypeOK, NEW m \in Mediators, MediatorStep(m)
    PROVE  \/ Denied(m)
           \/ /\ mpc[m] = "lookup" /\ Takes(m, store[med[m].action])
              /\ UNCHANGED <<vars, requestVars, decisionVars, tokenVars, workerVars, counts,
                             mediations, effects>>
           \/ CheckEpoch(m) /\ EpochFresh(m)
           \/ Consume(m) /\ Unused(m)
           \/ Execute(m)
           \/ ExecuteFails(m)
           \/ EndMediate(m)
<1>. USE DEF PlaneTypeOK
<1>1. CASE Lookup(m)
  BY <1>1, LookupDoes DEF Lookup, Denied
<1>2. CASE CheckEpoch(m)
  BY <1>2 DEF CheckEpoch, Denied
<1>3. CASE Consume(m)
  BY <1>3 DEF Consume, Denied
<1>. QED
  BY <1>1, <1>2, <1>3 DEF MediatorStep

-----------------------------------------------------------------------------
(***************************************************************************)
(* Types.                                                                  *)
(***************************************************************************)

\* A worker's step keeps WorkersOK when its own record fits the new label.
LEMMA WorkersKept ==
    ASSUME WorkersOK, NEW w \in Workers, NEW l \in WorkLabels, Moves(w, l),
           DecisionIds \subseteq DecisionIds', TokenIds \subseteq TokenIds',
           l # "idle" => work'[w].decision \in {0} \cup DecisionIds',
           l \in {"mint", "present", "record", "grant"} => work'[w].decision # 0,
           l \in {"present", "record"} => work'[w].token \in TokenIds'
    PROVE  WorkersOK'
  BY DEF WorkersOK, Moves

\* Steps that touch no worker keep WorkersOK while the stores only grow.
LEMMA WorkersStay ==
    ASSUME WorkersOK, UNCHANGED workerVars,
           DecisionIds \subseteq DecisionIds', TokenIds \subseteq TokenIds'
    PROVE  WorkersOK'
  BY DEF WorkersOK, workerVars

\* A mediation's move keeps BrokersOK.
LEMMA BrokersKept ==
    ASSUME BrokersOK, NEW m \in Mediators, NEW l \in MediationLabels, MovesBroker(m, l),
           UNCHANGED tokens,
           l \notin {"idle", "lookup"} => med'[m].token \in TokenIds,
           mediations' \in Nat, receipts' \in [Outcomes -> Nat]
    PROVE  BrokersOK'
  BY DEF BrokersOK, MovesBroker, TokenIds

\* Steps that touch no mediation keep BrokersOK while tokens only grow.
LEMMA BrokersStay ==
    ASSUME BrokersOK, UNCHANGED <<mpc, med, mediations, receipts>>,
           TokenIds \subseteq TokenIds'
    PROVE  BrokersOK'
  BY DEF BrokersOK

\* Steps that touch no store keep StoresOK.
LEMMA StoresStay ==
    ASSUME StoresOK, UNCHANGED <<nonces, max_sequence, decisions, approvals, tokens, store,
                                 counts, effects>>
    PROVE  StoresOK' /\ DecisionIds' = DecisionIds /\ TokenIds' = TokenIds
  BY DEF StoresOK, DecisionIds, TokenIds

\* A worker's step keeps the plane's type.
LEMMA WorkerKeepsType ==
    ASSUME PlaneTypeOK, NEW w \in Workers, WorkerBegins(w) \/ WorkerStep(w)
    PROVE  PlaneTypeOK'
<1>. USE DEF PlaneTypeOK
<1>a. TypeOK'
  BY DEF TypeOK, vars, engineVars, WorkerBegins, WorkerStep, EvaluateStep, BeginEvaluate,
         BeginApprove, CommitReplay, RejectReplay, CheckSession, PolicyDenies, PolicyAllows,
         PolicyParks, Grant, ReadState, Gate, Mint, Present, RecordDecision
<1>1. ASSUME NEW e \in Envelopes, BeginEvaluate(w, e) PROVE PlaneTypeOK'
  <2>1. StoresOK' /\ BrokersOK' /\ DecisionIds' = DecisionIds /\ TokenIds' = TokenIds
    BY <1>1, StoresStay, BrokersStay
    DEF BeginEvaluate, requestVars, decisionVars, tokenVars, brokerVars
  <2>2. Moves(w, "replay") /\ work'[w].decision = 0
    BY <1>1, BeginEvaluateDoes
  <2>3. WorkersOK'
    BY <2>1, <2>2, WorkersKept DEF WorkLabels
  <2>. QED
    BY <1>a, <2>1, <2>3
<1>2. ASSUME NEW d \in DecisionIds, BeginApprove(w, d) PROVE PlaneTypeOK'
  <2>1. StoresOK' /\ BrokersOK' /\ DecisionIds' = DecisionIds /\ TokenIds' = TokenIds
    BY <1>2, StoresStay, BrokersStay
    DEF BeginApprove, requestVars, decisionVars, tokenVars, brokerVars
  <2>2. Moves(w, "grant") /\ work'[w].decision = d
    BY <1>2, BeginApproveDoes
  <2>3. WorkersOK'
    BY <2>1, <2>2, WorkersKept DEF WorkLabels, DecisionIds
  <2>. QED
    BY <1>a, <2>1, <2>3
<1>3. CASE GivesUp(w)
  <2>1. StoresOK' /\ BrokersOK' /\ DecisionIds' = DecisionIds /\ TokenIds' = TokenIds
    BY <1>3, StoresStay, BrokersStay
    DEF GivesUp, requestVars, decisionVars, tokenVars, brokerVars
  <2>2. WorkersOK'
    BY <1>3, <2>1, WorkersKept DEF GivesUp, WorkLabels
  <2>. QED
    BY <1>a, <2>1, <2>2
<1>4. ASSUME NEW k \in {"session", "state", "gate"}, NEW l \in {"state", "gate", "policy", "mint"},
             Passes(w, k, l), l = "mint" => work[w].decision # 0
      PROVE  PlaneTypeOK'
  <2>1. StoresOK' /\ BrokersOK' /\ DecisionIds' = DecisionIds /\ TokenIds' = TokenIds
    BY <1>4, StoresStay, BrokersStay
    DEF Passes, requestVars, decisionVars, tokenVars, brokerVars
  <2>2. Moves(w, l) /\ work'[w].decision = work[w].decision /\ l \in WorkLabels
        /\ wpc[w] # "idle"
    BY <1>4 DEF Passes, SameDecision, WorkLabels
  <2>3. work[w].decision \in {0} \cup DecisionIds
    BY <2>2 DEF WorkersOK
  <2>4. WorkersOK'
    BY <1>4, <2>1, <2>2, <2>3, WorkersKept
  <2>. QED
    BY <1>a, <2>1, <2>4
<1>5. CASE CommitReplay(w)
  <2>1. /\ wpc[w] = "replay" /\ Goto(w, "session") /\ UNCHANGED work
        /\ UNCHANGED <<decisions, approvals, tokens, store, counts, effects>>
        /\ UNCHANGED <<mpc, med, mediations, receipts>>
    BY <1>5 DEF CommitReplay, decisionVars, tokenVars, brokerVars
  <2>2. work[w] \in Work /\ work[w].decision \in {0} \cup DecisionIds
    BY <2>1 DEF WorkersOK
  <2>3. work[w].envelope \in Envelopes
    BY <2>2 DEF Work
  <2>4. nonces' \in SUBSET Envelopes /\ max_sequence' \in [Subjects -> Nat]
    BY <1>5, <2>3, PlaneAssumption DEF CommitReplay, StoresOK
  <2>5. StoresOK' /\ DecisionIds' = DecisionIds /\ TokenIds' = TokenIds
    BY <2>1, <2>4 DEF StoresOK, DecisionIds, TokenIds
  <2>6. Moves(w, "session") /\ work'[w].decision = work[w].decision
    BY <2>1, GotoMoves DEF SameDecision, WorkLabels
  <2>7. WorkersOK' /\ BrokersOK'
    BY <2>1, <2>2, <2>5, <2>6, WorkersKept, BrokersStay DEF WorkLabels
  <2>. QED
    BY <1>a, <2>5, <2>7
<1>6. CASE PolicyAllows(w)
  <2>1. UNCHANGED <<nonces, max_sequence, tokens, store, counts, effects, mpc, med,
                    mediations, receipts>>
    BY <1>6 DEF PolicyAllows, requestVars, tokenVars, brokerVars
  <2>2. /\ AddsDecision(work[w].envelope, "NONE")
        /\ decisions' \in Seq(Decision) /\ approvals' \in Seq(Approval)
        /\ Len(approvals') = Len(decisions')
    BY <1>6, PolicyAllowsAdds
  <2>3. /\ DecisionIds' = 1..(Len(decisions) + 1) /\ DecisionIds \subseteq DecisionIds'
        /\ TokenIds' = TokenIds /\ Len(decisions) \in Nat
    BY <2>1, <2>2 DEF AddsDecision, DecisionIds, TokenIds, StoresOK
  <2>4. StoresOK'
    BY <2>1, <2>2, <2>3 DEF StoresOK
  <2>5. Moves(w, "mint") /\ work'[w].decision = Len(decisions) + 1
    BY <1>6, PolicyAllowsDoes
  <2>6. work'[w].decision \in DecisionIds' /\ work'[w].decision # 0
    BY <2>3, <2>5
  <2>7. WorkersOK' /\ BrokersOK'
    BY <2>1, <2>3, <2>5, <2>6, WorkersKept, BrokersStay DEF WorkLabels
  <2>. QED
    BY <1>a, <2>4, <2>7
<1>7. CASE PolicyParks(w)
  <2>1. UNCHANGED <<nonces, max_sequence, tokens, store, counts, effects, mpc, med,
                    mediations, receipts>>
    BY <1>7 DEF PolicyParks, requestVars, tokenVars, brokerVars
  <2>2. /\ AddsDecision(work[w].envelope, "PENDING")
        /\ decisions' \in Seq(Decision) /\ approvals' \in Seq(Approval)
        /\ Len(approvals') = Len(decisions')
    BY <1>7, PolicyParksAdds
  <2>3. DecisionIds \subseteq DecisionIds' /\ TokenIds' = TokenIds
    BY <2>1, <2>2 DEF AddsDecision, DecisionIds, TokenIds, StoresOK
  <2>4. StoresOK'
    BY <2>1, <2>2, <2>3 DEF StoresOK
  <2>5. Moves(w, "idle")
    BY <1>7, ReturnMoves DEF PolicyParks, EndPark
  <2>6. WorkersOK' /\ BrokersOK'
    BY <2>1, <2>3, <2>5, WorkersKept, BrokersStay DEF WorkLabels
  <2>. QED
    BY <1>a, <2>4, <2>6
<1>8. CASE Grant(w) /\ Decidable(work[w].decision, work[w].now)
  <2>1. /\ wpc[w] = "grant" /\ Goto(w, "state") /\ UNCHANGED work
        /\ approvals' = [approvals EXCEPT ![work[w].decision].state = "GRANTED"]
        /\ UNCHANGED <<nonces, max_sequence, decisions, tokens, store, counts, effects,
                       mpc, med, mediations, receipts>>
    BY <1>8 DEF Grant, requestVars, tokenVars, brokerVars
  <2>2. work[w].decision \in DecisionIds
    BY <2>1 DEF WorkersOK
  <2>3. approvals' \in Seq(Approval) /\ Len(approvals') = Len(approvals)
    BY <2>1, <2>2, DecideDoes
  <2>4. StoresOK' /\ DecisionIds' = DecisionIds /\ TokenIds' = TokenIds
    BY <2>1, <2>3 DEF StoresOK, DecisionIds, TokenIds
  <2>5. Moves(w, "state") /\ work'[w].decision = work[w].decision
    BY <2>1, GotoMoves DEF SameDecision, WorkLabels
  <2>6. WorkersOK' /\ BrokersOK'
    BY <2>1, <2>2, <2>4, <2>5, WorkersKept, BrokersStay DEF WorkLabels
  <2>. QED
    BY <1>a, <2>4, <2>6
<1>9. CASE Mint(w)
  <2>1. UNCHANGED <<nonces, max_sequence, decisions, approvals, store, mpc, med,
                    mediations, receipts>>
    BY <1>9 DEF Mint, requestVars, decisionVars
  <2>2. AddsToken(NewToken(w)) /\ NewToken(w).decision \in DecisionIds
        /\ work[w].decision \in DecisionIds
    BY <1>9, MintAdds
  <2>3. /\ TokenIds' = 1..(Len(tokens) + 1) /\ TokenIds \subseteq TokenIds'
        /\ DecisionIds' = DecisionIds /\ Len(tokens) \in Nat
    BY <2>1, <2>2 DEF AddsToken, DecisionIds, TokenIds, StoresOK
  <2>4. ASSUME NEW i \in TokenIds' PROVE tokens'[i].decision \in DecisionIds
    <3>1. i \in TokenIds \/ i = Len(tokens) + 1
      BY <2>3 DEF TokenIds
    <3>. QED
      BY <2>2, <3>1 DEF AddsToken, StoresOK
  <2>5. StoresOK'
    BY <2>1, <2>2, <2>3, <2>4 DEF StoresOK, AddsToken
  <2>6. /\ Moves(w, "present") /\ work'[w].decision = work[w].decision
        /\ work'[w].token = Len(tokens) + 1
    BY <1>9, MintDoes DEF SameDecision
  <2>7. WorkersOK' /\ BrokersOK'
    <3>1. work'[w].decision \in DecisionIds' /\ work'[w].decision # 0
          /\ work'[w].token \in TokenIds'
      BY <2>2, <2>3, <2>6 DEF DecisionIds
    <3>. QED
      BY <2>1, <2>3, <2>6, <3>1, WorkersKept, BrokersStay DEF WorkLabels
  <2>. QED
    BY <1>a, <2>5, <2>7
<1>10. CASE Present(w)
  <2>1. /\ wpc[w] = "present" /\ Goto(w, "record") /\ UNCHANGED work
        /\ store' = [store EXCEPT ![ActionOf[work[w].envelope]] = work[w].token]
        /\ UNCHANGED <<nonces, max_sequence, decisions, approvals, tokens, counts, effects,
                       mpc, med, mediations, receipts>>
    BY <1>10 DEF Present, requestVars, decisionVars, brokerVars
  <2>2. work[w].decision \in DecisionIds /\ work[w].token \in TokenIds
        /\ work[w].decision # 0
    BY <2>1 DEF WorkersOK
  <2>3. StoresOK' /\ DecisionIds' = DecisionIds /\ TokenIds' = TokenIds
    BY <2>1, <2>2 DEF StoresOK, DecisionIds, TokenIds
  <2>4. /\ Moves(w, "record") /\ work'[w].decision = work[w].decision
        /\ work'[w].token = work[w].token
    BY <2>1, GotoMoves DEF SameDecision, SameToken, WorkLabels
  <2>5. WorkersOK' /\ BrokersOK'
    BY <2>1, <2>2, <2>3, <2>4, WorkersKept, BrokersStay DEF WorkLabels
  <2>. QED
    BY <1>a, <2>3, <2>5
<1>11. CASE RecordDecision(w)
  <2>1. UNCHANGED <<nonces, max_sequence, approvals, tokens, store, counts, effects,
                    mpc, med, mediations, receipts>>
    BY <1>11 DEF RecordDecision, requestVars, tokenVars, brokerVars
  <2>2. SameDecisions /\ decisions' \in Seq(Decision)
    BY <1>11, RecordDoes
  <2>3. StoresOK' /\ DecisionIds' = DecisionIds /\ TokenIds' = TokenIds
    BY <2>1, <2>2 DEF StoresOK, SameDecisions, DecisionIds, TokenIds
  <2>4. Moves(w, "idle")
    BY <1>11, ReturnMoves DEF RecordDecision
  <2>5. WorkersOK' /\ BrokersOK'
    BY <2>1, <2>3, <2>4, WorkersKept, BrokersStay DEF WorkLabels
  <2>. QED
    BY <1>a, <2>3, <2>5
<1>12. CASE WorkerBegins(w)
  BY <1>1, <1>2, <1>12 DEF WorkerBegins
<1>13. CASE WorkerStep(w)
  BY <1>3, <1>4, <1>5, <1>6, <1>7, <1>8, <1>9, <1>10, <1>11, <1>13, WorkerStepKinds
<1>. QED
  BY <1>12, <1>13

\* Denying an approval keeps the plane's type.
LEMMA DenyKeepsType ==
    ASSUME PlaneTypeOK, NEW d \in DecisionIds, DenyApproval(d)
    PROVE  PlaneTypeOK'
<1>. USE DEF PlaneTypeOK
<1>1. /\ approvals' = [approvals EXCEPT ![d].state = "DENIED"]
      /\ UNCHANGED <<nonces, max_sequence, decisions, tokens, store, counts, effects,
                     mpc, med, mediations, receipts>>
      /\ UNCHANGED vars /\ UNCHANGED workerVars
  BY DEF DenyApproval, requestVars, tokenVars, brokerVars
<1>2. approvals' \in Seq(Approval) /\ Len(approvals') = Len(approvals)
  BY <1>1, DecideDoes
<1>3. StoresOK' /\ DecisionIds' = DecisionIds /\ TokenIds' = TokenIds
  BY <1>1, <1>2 DEF StoresOK, DecisionIds, TokenIds
<1>4. TypeOK'
  BY <1>1 DEF TypeOK, vars, engineVars
<1>. QED
  BY <1>1, <1>3, <1>4, WorkersStay, BrokersStay

\* A broker's step leaves the decisions, the tokens and the workers alone.
LEMMA MediatorFrame ==
    ASSUME NEW m \in Mediators, MediatorBegins(m) \/ MediatorStep(m)
    PROVE  /\ UNCHANGED <<vars, requestVars, decisionVars, tokenVars, workerVars>>
           /\ UNCHANGED <<nonces, max_sequence, decisions, approvals, tokens, store>>
  BY DEF MediatorBegins, MediatorStep, BeginMediate, Lookup, CheckEpoch, Consume, Execute,
         ExecuteFails, EndMediate, requestVars, decisionVars, tokenVars

\* Incrementing one use or effect count leaves the others alone.
LEMMA CountUp ==
    ASSUME StoresOK, NEW i \in TokenIds
    PROVE  /\ counts' = [counts EXCEPT ![i] = @ + 1] =>
                 /\ counts' \in Seq(Nat) /\ Len(counts') = Len(counts)
                 /\ counts'[i] = counts[i] + 1
                 /\ \A j \in TokenIds \ {i} : counts'[j] = counts[j]
           /\ effects' = [effects EXCEPT ![i] = @ + 1] =>
                 /\ effects' \in Seq(Nat) /\ Len(effects') = Len(effects)
                 /\ effects'[i] = effects[i] + 1
                 /\ \A j \in TokenIds \ {i} : effects'[j] = effects[j]
<1>1. /\ counts \in Seq(Nat) /\ effects \in Seq(Nat) /\ i \in 1..Len(counts)
      /\ i \in 1..Len(effects) /\ Len(counts) = Len(tokens) /\ Len(effects) = Len(tokens)
  BY DEF StoresOK, TokenIds
<1>2. counts[i] + 1 \in Nat /\ effects[i] + 1 \in Nat
  BY <1>1
<1>3. ASSUME counts' = [counts EXCEPT ![i] = counts[i] + 1]
      PROVE  /\ counts' \in Seq(Nat) /\ Len(counts') = Len(counts)
             /\ counts'[i] = counts[i] + 1
             /\ \A j \in TokenIds \ {i} : counts'[j] = counts[j]
  BY <1>1, <1>2, <1>3 DEF TokenIds
<1>4. ASSUME effects' = [effects EXCEPT ![i] = effects[i] + 1]
      PROVE  /\ effects' \in Seq(Nat) /\ Len(effects') = Len(effects)
             /\ effects'[i] = effects[i] + 1
             /\ \A j \in TokenIds \ {i} : effects'[j] = effects[j]
  BY <1>1, <1>2, <1>4 DEF TokenIds
<1>. QED
  BY <1>3, <1>4

\* A mediation's step keeps the plane's type.
LEMMA MediatorKeepsType ==
    ASSUME PlaneTypeOK, NEW m \in Mediators, MediatorBegins(m) \/ MediatorStep(m)
    PROVE  PlaneTypeOK'
<1>. USE DEF PlaneTypeOK
<1>1. /\ UNCHANGED <<nonces, max_sequence, decisions, approvals, tokens, store>>
      /\ TypeOK' /\ WorkersOK' /\ DecisionIds' = DecisionIds /\ TokenIds' = TokenIds
  BY MediatorFrame, WorkersStay
  DEF TypeOK, vars, engineVars, DecisionIds, TokenIds
<1>2. "EXECUTED" \in Outcomes /\ "FAILED" \in Outcomes /\ "DENIED" \in Outcomes
  BY DEF Outcomes
<1>3. ASSUME UNCHANGED <<counts, effects>> PROVE StoresOK'
  BY <1>1, <1>3, StoresStay
<1>4. CASE MediatorBegins(m)
  <2>1. PICK s \in Subjects, a \in Actions : BeginMediate(m, s, a)
    BY <1>4 DEF MediatorBegins
  <2>2. UNCHANGED <<counts, effects, receipts>> /\ mediations' = mediations + 1
    BY <2>1 DEF BeginMediate
  <2>3. MovesBroker(m, "lookup")
    BY <2>1, BeginMediateDoes
  <2>4. mediations' \in Nat /\ receipts' \in [Outcomes -> Nat]
    BY <2>2 DEF BrokersOK
  <2>5. BrokersOK'
    BY <1>1, <2>3, <2>4, BrokersKept DEF MediationLabels
  <2>. QED
    BY <1>1, <1>3, <2>2, <2>5
<1>5. CASE Denied(m)
  <2>1. MovesBroker(m, "idle") /\ receipts' \in [Outcomes -> Nat]
        /\ UNCHANGED <<counts, effects, mediations>>
    BY <1>2, <1>5, EmitDoes DEF Denied
  <2>2. BrokersOK'
    BY <1>1, <2>1, BrokersKept DEF MediationLabels, BrokersOK
  <2>. QED
    BY <1>1, <1>3, <2>1, <2>2
<1>6. CASE /\ mpc[m] = "lookup" /\ Takes(m, store[med[m].action])
           /\ UNCHANGED <<counts, mediations, effects>>
  <2>1. MovesBroker(m, "epoch") /\ med'[m].token \in TokenIds /\ UNCHANGED receipts
    BY <1>6 DEF Takes
  <2>2. BrokersOK'
    BY <1>1, <1>6, <2>1, BrokersKept DEF MediationLabels, BrokersOK
  <2>. QED
    BY <1>1, <1>3, <1>6, <2>2
<1>7. CASE CheckEpoch(m) /\ EpochFresh(m)
  <2>1. mpc[m] = "epoch" /\ mpc' = [mpc EXCEPT ![m] = "consume"]
        /\ UNCHANGED <<med, receipts, counts, effects, mediations>>
    BY <1>7 DEF CheckEpoch
  <2>2. MovesBroker(m, "consume") /\ med'[m] = med[m] /\ med[m].token \in TokenIds
    BY <2>1, GotoBroker DEF MediationLabels, BrokersOK
  <2>3. BrokersOK'
    BY <1>1, <2>1, <2>2, BrokersKept DEF MediationLabels, BrokersOK
  <2>. QED
    BY <1>1, <1>3, <2>1, <2>3
<1>8. CASE Consume(m) /\ Unused(m)
  <2>1. mpc[m] = "consume" /\ mpc' = [mpc EXCEPT ![m] = "execute"]
        /\ counts' = [counts EXCEPT ![med[m].token] = @ + 1]
        /\ UNCHANGED <<med, receipts, effects, mediations>>
    BY <1>8 DEF Consume
  <2>2. MovesBroker(m, "execute") /\ med'[m] = med[m] /\ med[m].token \in TokenIds
    BY <2>1, GotoBroker DEF MediationLabels, BrokersOK
  <2>3. BrokersOK'
    BY <1>1, <2>1, <2>2, BrokersKept DEF MediationLabels, BrokersOK
  <2>4. counts' \in Seq(Nat) /\ Len(counts') = Len(counts)
    BY <2>1, <2>2, CountUp
  <2>5. StoresOK'
    BY <1>1, <2>1, <2>4 DEF StoresOK, DecisionIds, TokenIds
  <2>. QED
    BY <1>1, <2>3, <2>5
<1>9. CASE Execute(m)
  <2>1. mpc[m] = "execute" /\ mpc' = [mpc EXCEPT ![m] = "receipt"]
        /\ effects' = [effects EXCEPT ![med[m].token] = @ + 1]
        /\ UNCHANGED <<med, receipts, counts, mediations>>
    BY <1>9 DEF Execute
  <2>2. MovesBroker(m, "receipt") /\ med'[m] = med[m] /\ med[m].token \in TokenIds
    BY <2>1, GotoBroker DEF MediationLabels, BrokersOK
  <2>3. BrokersOK'
    BY <1>1, <2>1, <2>2, BrokersKept DEF MediationLabels, BrokersOK
  <2>4. effects' \in Seq(Nat) /\ Len(effects') = Len(effects)
    BY <2>1, <2>2, CountUp
  <2>5. StoresOK'
    BY <1>1, <2>1, <2>4 DEF StoresOK, DecisionIds, TokenIds
  <2>. QED
    BY <1>1, <2>3, <2>5
<1>10. CASE ExecuteFails(m)
  <2>1. mpc[m] = "execute" /\ Emit(m, "FAILED") /\ UNCHANGED <<counts, mediations>>
        /\ (effects' = [effects EXCEPT ![med[m].token] = @ + 1] \/ UNCHANGED effects)
    BY <1>10 DEF ExecuteFails
  <2>2. MovesBroker(m, "idle") /\ receipts' \in [Outcomes -> Nat] /\ med[m].token \in TokenIds
    BY <1>2, <2>1, EmitDoes DEF BrokersOK
  <2>3. BrokersOK'
    BY <1>1, <2>1, <2>2, BrokersKept DEF MediationLabels, BrokersOK
  <2>4. effects' \in Seq(Nat) /\ Len(effects') = Len(effects)
    BY <2>1, <2>2, CountUp DEF StoresOK
  <2>5. StoresOK'
    BY <1>1, <2>1, <2>4 DEF StoresOK, DecisionIds, TokenIds
  <2>. QED
    BY <1>1, <2>3, <2>5
<1>11. CASE EndMediate(m)
  <2>1. MovesBroker(m, "idle") /\ receipts' \in [Outcomes -> Nat]
        /\ UNCHANGED <<counts, effects, mediations>>
    BY <1>2, <1>11, EmitDoes DEF EndMediate, EmitExecuted
  <2>2. BrokersOK'
    BY <1>1, <2>1, BrokersKept DEF MediationLabels, BrokersOK
  <2>. QED
    BY <1>1, <1>3, <2>1, <2>2
<1>. QED
  BY <1>4, <1>5, <1>6, <1>7, <1>8, <1>9, <1>10, <1>11, MediatorStepKinds

\* A step of the containment engine keeps the plane's type.
LEMMA FrameKeepsType ==
    ASSUME PlaneTypeOK, TypeOK', UNCHANGED planeVars
    PROVE  PlaneTypeOK'
<1>1. UNCHANGED <<nonces, max_sequence, decisions, approvals, tokens, store, counts, effects>>
      /\ UNCHANGED <<mpc, med, mediations, receipts>> /\ UNCHANGED workerVars
  BY DEF planeVars, requestVars, decisionVars, tokenVars, workerVars, brokerVars
<1>. QED
  BY <1>1, StoresStay, WorkersStay, BrokersStay DEF PlaneTypeOK

\* The engine's invariant survives its steps inside the plane.
LEMMA ContainmentKeepsInv ==
    ASSUME EngineInv, NEW t \in Threads, ContainmentStep(t)
    PROVE  EngineInv' /\ UNCHANGED planeVars
<1>1. EngineCall(t) \/ EngineStep(t)
  <2>1. CASE \E s \in Subjects, f \in Features : CallEvaluate(t, s, f)
    BY <2>1 DEF EngineCall
  <2>2. CASE \E s \in Subjects, target \in States : CallKillSwitch(t, s, target)
    BY <2>2 DEF EngineCall
  <2>3. CASE \E s \in Subjects, method \in Methods : CallRecover(t, s, method, TRUE)
    BY <2>3 DEF EngineCall
  <2>. QED
    BY <2>1, <2>2, <2>3 DEF ContainmentStep
<1>. QED
  BY <1>1, EngineStepKeepsInv DEF ContainmentStep

-----------------------------------------------------------------------------
(***************************************************************************)
(* The inductive invariant.                                                *)
(***************************************************************************)

\* evaluate has passed the replay guard and has not yet decided.
Undecided(w) ==
    wpc[w] \in {"session", "state", "gate", "policy"} /\ work[w].decision = 0

\* A decided call is on its way to a token.
Minting(w) == wpc[w] \in {"state", "gate", "mint"} /\ work[w].decision # 0

\* Where a worker is tells whether it has a decision, and a decision it has is
\* about its request.
WorkersAgree ==
    \A w \in Workers :
        /\ wpc[w] \in {"replay", "session", "policy"} => work[w].decision = 0
        /\ wpc[w] # "idle" /\ work[w].decision # 0 =>
              work[w].envelope = decisions[work[w].decision].envelope

\* A request is decided at most once.
OneDecision ==
    /\ \A d \in DecisionIds : decisions[d].envelope \in nonces
    /\ \A c, d \in DecisionIds : decisions[c].envelope = decisions[d].envelope => c = d

\* One worker at a time is about to decide a request, which has no decision.
OneDecider ==
    /\ \A w \in Workers : Undecided(w) =>
          /\ work[w].envelope \in nonces
          /\ \A d \in DecisionIds : decisions[d].envelope # work[w].envelope
    /\ \A w, u \in Workers :
          Undecided(w) /\ Undecided(u) /\ work[w].envelope = work[u].envelope => w = u

DecisionInv == WorkersAgree /\ OneDecision /\ OneDecider

\* One worker at a time is about to mint for a decision, which nobody refuses
\* and which has no token.
OneMinter ==
    /\ \A w \in Workers : Minting(w) =>
          /\ approvals[work[w].decision].state \in {"NONE", "GRANTED"}
          /\ \A i \in TokenIds : tokens[i].decision # work[w].decision
    /\ \A w, u \in Workers :
          Minting(w) /\ Minting(u) /\ work[w].decision = work[u].decision => w = u

\* A decision has at most one token, for the subject and action it is about.
OneToken ==
    /\ \A i, j \in TokenIds : tokens[i].decision = tokens[j].decision => i = j
    /\ \A i \in TokenIds :
          LET e == decisions[tokens[i].decision].envelope IN
          tokens[i].subject = SubjectOf[e] /\ tokens[i].action = ActionOf[e]

MintInv == OneMinter /\ OneToken /\ ApprovalRespected

\* A use is claimed at most once and before the effect.
ClaimedFirst == \A i \in TokenIds : counts[i] <= 1 /\ effects[i] <= counts[i]

\* What the validator established stays true of the token and the broker.
Validated ==
    \A m \in Mediators :
        /\ mpc[m] # "idle" => med[m].started_epoch <= capability_epoch
        /\ mpc[m] \in {"epoch", "consume", "execute", "receipt"} => Matches(m, med[m].token)
        /\ mpc[m] \in {"consume", "execute", "receipt"} =>
              tokens[med[m].token].capability_epoch >= med[m].started_epoch

\* The broker that claimed a token's use is alone with it and has yet to act.
OneExecutor ==
    /\ \A m \in Mediators : mpc[m] = "execute" =>
          counts[med[m].token] = 1 /\ effects[med[m].token] = 0
    /\ \A m, n \in Mediators :
          mpc[m] = "execute" /\ mpc[n] = "execute" /\ med[m].token = med[n].token => m = n

BrokerInv == ClaimedFirst /\ Validated /\ OneExecutor

\* Subject s was not blocked after one of its transitions from a to b.
Unblocked(s, a, b) ==
    \E n \in a..b : ~ blocks_new_consequential_tokens(StateAfter(s, n))

\* A call that passed the gate saw an unblocked state since it began.
GateInv ==
    /\ \A w \in Workers : wpc[w] # "idle" => work[w].since <= Len(transitions[Subject(w)])
    /\ \A w \in Workers : wpc[w] \in {"policy", "mint"} =>
          Unblocked(Subject(w), work[w].since, Len(transitions[Subject(w)]))
    /\ \A i \in TokenIds : /\ tokens[i].until <= Len(transitions[tokens[i].subject])
                           /\ Unblocked(tokens[i].subject, tokens[i].since, tokens[i].until)

PlaneInv == EngineInv /\ PlaneTypeOK /\ DecisionInv /\ MintInv /\ BrokerInv /\ GateInv

-----------------------------------------------------------------------------
(***************************************************************************)
(* One decision per request.                                               *)
(***************************************************************************)

\* A worker moves without adding a decision.
LEMMA DecisionInvMove ==
    ASSUME WorkersOK, DecisionInv, NEW w \in Workers, NEW l \in WorkLabels, Moves(w, l),
           SameDecisions, nonces \subseteq nonces',
           l \in {"replay", "session", "policy"} => work'[w].decision = 0,
           l # "idle" /\ work'[w].decision # 0 =>
              /\ work'[w].decision \in DecisionIds
              /\ work'[w].envelope = decisions[work'[w].decision].envelope,
           l \in {"session", "state", "gate", "policy"} /\ work'[w].decision = 0 =>
              \/ Undecided(w) /\ work'[w].envelope = work[w].envelope
              \/ work'[w].envelope \in nonces' \ nonces
    PROVE  DecisionInv'
<1>. USE DEF DecisionInv
<1>1. DecisionIds' = DecisionIds
  BY DEF SameDecisions, DecisionIds
<1>2. \A u \in Workers : wpc[u] # "idle" /\ work[u].decision # 0 => work[u].decision \in DecisionIds
  BY DEF WorkersOK
<1>3. WorkersAgree'
  BY <1>1, <1>2 DEF WorkersAgree, Moves, SameDecisions
<1>4. OneDecision'
  BY <1>1 DEF OneDecision, SameDecisions
<1>5. OneDecider'
  <2>1. \A u \in Workers \ {w} : Undecided(u)' <=> Undecided(u)
    BY DEF Undecided, Moves
  <2>2. Undecided(w)' => \/ Undecided(w) /\ work'[w].envelope = work[w].envelope
                         \/ work'[w].envelope \in nonces' \ nonces
    BY DEF Undecided, Moves
  <2>3. ASSUME NEW u \in Workers, Undecided(u)'
        PROVE  /\ work'[u].envelope \in nonces'
               /\ \A d \in DecisionIds : decisions[d].envelope # work'[u].envelope
    <3>1. CASE u = w
      BY <2>2, <2>3, <3>1 DEF OneDecider, OneDecision
    <3>2. CASE u # w
      BY <2>1, <2>3, <3>2 DEF OneDecider, Moves
    <3>. QED
      BY <3>1, <3>2
  <2>4. ASSUME NEW u \in Workers, NEW v \in Workers, Undecided(u)', Undecided(v)',
               work'[u].envelope = work'[v].envelope, u # v
        PROVE  FALSE
    <3>1. CASE u = w
      BY <2>1, <2>2, <2>4, <3>1 DEF OneDecider, Moves
    <3>2. CASE v = w
      BY <2>1, <2>2, <2>4, <3>2 DEF OneDecider, Moves
    <3>3. CASE u # w /\ v # w
      BY <2>1, <2>4, <3>3 DEF OneDecider, Moves
    <3>. QED
      BY <3>1, <3>2, <3>3
  <2>. QED
    BY <1>1, <2>3, <2>4 DEF OneDecider, SameDecisions
<1>. QED
  BY <1>3, <1>4, <1>5

\* The one worker that is to decide a request decides it.
LEMMA DecisionInvAdd ==
    ASSUME StoresOK, WorkersOK, DecisionInv, NEW w \in Workers, NEW l \in {"mint", "idle"},
           NEW st, Undecided(w), Moves(w, l), AddsDecision(work[w].envelope, st),
           UNCHANGED nonces,
           l = "mint" => /\ work'[w].decision = Len(decisions) + 1
                         /\ work'[w].envelope = work[w].envelope
    PROVE  DecisionInv'
<1>. USE DEF DecisionInv
<1>. DEFINE k == Len(decisions) + 1
<1>1. /\ DecisionIds' = DecisionIds \cup {k} /\ k \notin DecisionIds /\ k # 0
      /\ \A d \in DecisionIds : decisions'[d].envelope = decisions[d].envelope
      /\ decisions'[k].envelope = work[w].envelope
  BY DEF AddsDecision, DecisionIds, StoresOK
<1>. HIDE DEF k
<1>2. \A u \in Workers : wpc[u] # "idle" /\ work[u].decision # 0 => work[u].decision \in DecisionIds
  BY DEF WorkersOK
<1>3. /\ work[w].envelope \in nonces
      /\ \A d \in DecisionIds : decisions[d].envelope # work[w].envelope
      /\ \A u \in Workers \ {w} : Undecided(u) => work[u].envelope # work[w].envelope
  BY DEF OneDecider
<1>4. ~ Undecided(w)' /\ \A u \in Workers \ {w} : Undecided(u)' <=> Undecided(u)
  BY DEF Undecided, Moves
<1>5. WorkersAgree'
  BY <1>1, <1>2 DEF WorkersAgree, Moves, k
<1>6. OneDecision'
  BY <1>1, <1>3 DEF OneDecision
<1>7. OneDecider'
  BY <1>1, <1>3, <1>4 DEF OneDecider, Moves
<1>. QED
  BY <1>5, <1>6, <1>7

\* The other threads change neither the workers nor what the decisions are about.
LEMMA DecisionInvStay ==
    ASSUME WorkersOK, DecisionInv, SameDecisions, UNCHANGED nonces, UNCHANGED workerVars
    PROVE  DecisionInv'
<1>1. DecisionIds' = DecisionIds
  BY DEF SameDecisions, DecisionIds
<1>2. \A u \in Workers : wpc[u] # "idle" /\ work[u].decision # 0 => work[u].decision \in DecisionIds
  BY DEF WorkersOK
<1>. QED
  BY <1>1, <1>2 DEF DecisionInv, WorkersAgree, OneDecision, OneDecider, Undecided,
                    SameDecisions, workerVars

-----------------------------------------------------------------------------
(***************************************************************************)
(* One token per decision, and none without the approval asked for.        *)
(***************************************************************************)

\* The decision exists, and either nobody had to approve it or somebody did.
Allowed(d) == d \in DecisionIds /\ approvals[d].state \in {"NONE", "GRANTED"}
AllowedNext(d) == d \in DecisionIds' /\ approvals'[d].state \in {"NONE", "GRANTED"}

\* Nothing that was decided is taken back.
DecisionsStick ==
    \A d \in DecisionIds :
        /\ d \in DecisionIds' /\ decisions'[d].envelope = decisions[d].envelope
        /\ Allowed(d) => AllowedNext(d)

\* A worker's move without a mint keeps MintInv, if a worker that comes to
\* hold an allowed decision is the one that made it so.
LEMMA MintInvMove ==
    ASSUME StoresOK, WorkersOK, MintInv, NEW w \in Workers, NEW l \in WorkLabels, Moves(w, l),
           UNCHANGED tokens, DecisionsStick,
           l \in {"state", "gate", "mint"} /\ work'[w].decision # 0 =>
              /\ AllowedNext(work'[w].decision)
              /\ \/ Minting(w) /\ work'[w].decision = work[w].decision
                 \/ ~ Allowed(work'[w].decision)
    PROVE  MintInv'
<1>. USE DEF MintInv
<1>1. /\ TokenIds' = TokenIds
      /\ \A i \in TokenIds : tokens'[i] = tokens[i] /\ tokens[i].decision \in DecisionIds
  BY DEF TokenIds, StoresOK
<1>2. \A u \in Workers : Minting(u) => work[u].decision \in DecisionIds
  BY DEF WorkersOK, Minting
<1>3. \A i \in TokenIds : Allowed(tokens[i].decision) /\ AllowedNext(tokens[i].decision)
  BY <1>1 DEF ApprovalRespected, Allowed, AllowedNext, DecisionsStick
<1>4. OneToken' /\ ApprovalRespected'
  BY <1>1, <1>3 DEF OneToken, ApprovalRespected, Allowed, AllowedNext, DecisionsStick
<1>5. \A u \in Workers : Minting(u) => Allowed(work[u].decision) /\ AllowedNext(work[u].decision)
  BY <1>2 DEF OneMinter, Allowed, AllowedNext, DecisionsStick
<1>6. \A u \in Workers \ {w} :
         (Minting(u)' <=> Minting(u)) /\ work'[u] = work[u]
  BY DEF Minting, Moves
<1>7. Minting(w)' => /\ AllowedNext(work'[w].decision)
                     /\ \/ Minting(w) /\ work'[w].decision = work[w].decision
                        \/ ~ Allowed(work'[w].decision)
  BY DEF Minting, Moves
<1>8. ASSUME NEW u \in Workers, Minting(u)'
      PROVE  /\ AllowedNext(work'[u].decision)
             /\ \A i \in TokenIds : tokens[i].decision # work'[u].decision
  <2>1. CASE u = w
    BY <1>3, <1>7, <1>8, <2>1 DEF OneMinter
  <2>2. CASE u # w
    BY <1>5, <1>6, <1>8, <2>2 DEF OneMinter
  <2>. QED
    BY <2>1, <2>2
<1>9. ASSUME NEW u \in Workers, NEW v \in Workers, Minting(u)', Minting(v)',
             work'[u].decision = work'[v].decision, u # v
      PROVE  FALSE
  <2>1. CASE u = w
    BY <1>5, <1>6, <1>7, <1>9, <2>1 DEF OneMinter
  <2>2. CASE v = w
    BY <1>5, <1>6, <1>7, <1>9, <2>2 DEF OneMinter
  <2>3. CASE u # w /\ v # w
    BY <1>6, <1>9, <2>3 DEF OneMinter
  <2>. QED
    BY <2>1, <2>2, <2>3
<1>10. OneMinter'
  BY <1>1, <1>8, <1>9 DEF OneMinter, Allowed, AllowedNext
<1>. QED
  BY <1>4, <1>10

\* The one worker that is to mint for a decision mints.
LEMMA MintInvMint ==
    ASSUME StoresOK, WorkersOK, DecisionInv, MintInv, NEW w \in Workers, NEW t,
           wpc[w] = "mint", Moves(w, "present"), AddsToken(t),
           t.decision = work[w].decision,
           t.subject = SubjectOf[work[w].envelope], t.action = ActionOf[work[w].envelope],
           UNCHANGED decisionVars
    PROVE  MintInv'
<1>. USE DEF MintInv
<1>. DEFINE k == Len(tokens) + 1
<1>1. /\ TokenIds' = TokenIds \cup {k} /\ k \notin TokenIds
      /\ \A i \in TokenIds : tokens'[i] = tokens[i]
      /\ tokens'[k] = t
  BY DEF AddsToken, TokenIds, StoresOK
<1>. HIDE DEF k
<1>2. Minting(w) /\ work[w].decision \in DecisionIds
  BY DEF WorkersOK, Minting
<1>3. work[w].envelope = decisions[work[w].decision].envelope
  BY <1>2 DEF DecisionInv, WorkersAgree, Minting
<1>4. /\ approvals[work[w].decision].state \in {"NONE", "GRANTED"}
      /\ \A i \in TokenIds : tokens[i].decision # work[w].decision
      /\ \A u \in Workers \ {w} : Minting(u) => work[u].decision # work[w].decision
  BY <1>2 DEF OneMinter
<1>5. /\ ~ Minting(w)'
      /\ \A u \in Workers \ {w} : (Minting(u)' <=> Minting(u)) /\ work'[u] = work[u]
  BY DEF Minting, Moves
<1>6. UNCHANGED <<decisions, approvals>>
  BY DEF decisionVars
<1>7. OneToken'
  BY <1>1, <1>3, <1>4, <1>6 DEF OneToken
<1>8. ApprovalRespected'
  BY <1>1, <1>4, <1>6 DEF ApprovalRespected
<1>9. OneMinter'
  BY <1>1, <1>4, <1>5, <1>6 DEF OneMinter
<1>. QED
  BY <1>7, <1>8, <1>9

\* Steps that touch no worker and no token keep MintInv.
LEMMA MintInvStay ==
    ASSUME StoresOK, WorkersOK, MintInv, UNCHANGED workerVars, UNCHANGED tokens, DecisionsStick
    PROVE  MintInv'
<1>. USE DEF MintInv
<1>1. /\ TokenIds' = TokenIds
      /\ \A i \in TokenIds : tokens'[i] = tokens[i] /\ tokens[i].decision \in DecisionIds
  BY DEF TokenIds, StoresOK
<1>2. \A u \in Workers : Minting(u) => work[u].decision \in DecisionIds
  BY DEF WorkersOK, Minting
<1>3. OneToken' /\ ApprovalRespected'
  BY <1>1 DEF OneToken, ApprovalRespected, Allowed, AllowedNext, DecisionsStick
<1>4. \A u \in Workers : (Minting(u)' <=> Minting(u)) /\ work'[u] = work[u]
  BY DEF Minting, workerVars
<1>5. OneMinter'
  BY <1>1, <1>2, <1>4 DEF OneMinter, Allowed, AllowedNext, DecisionsStick
<1>. QED
  BY <1>3, <1>5

-----------------------------------------------------------------------------
(***************************************************************************)
(* Brokers: the use is claimed once, and what was validated stays so.      *)
(***************************************************************************)

\* Minting adds an unused token, and the epoch only grows.
LEMMA BrokerInvStay ==
    ASSUME BrokersOK, BrokerInv, UNCHANGED <<mpc, med>>,
           TokenIds \subseteq TokenIds',
           \A i \in TokenIds : /\ tokens'[i] = tokens[i] /\ counts'[i] = counts[i]
                               /\ effects'[i] = effects[i],
           \A i \in TokenIds' \ TokenIds : counts'[i] = 0 /\ effects'[i] = 0,
           capability_epoch \in Nat, capability_epoch' \in Nat,
           capability_epoch <= capability_epoch'
    PROVE  BrokerInv'
<1>. USE DEF BrokerInv
<1>1. \A m \in Mediators : mpc[m] \in {"epoch", "consume", "execute", "receipt"} =>
         med[m].token \in TokenIds
  BY DEF BrokersOK
<1>2. \A m \in Mediators : mpc[m] # "idle" => med[m].started_epoch \in Nat
  BY DEF BrokersOK, Mediation
<1>3. ClaimedFirst'
  BY DEF ClaimedFirst
<1>4. Validated'
  <2>. SUFFICES ASSUME NEW m \in Mediators
                PROVE  /\ mpc[m] # "idle" => med[m].started_epoch <= capability_epoch'
                       /\ mpc[m] \in {"epoch", "consume", "execute", "receipt"} =>
                             Matches(m, med[m].token)'
                       /\ mpc[m] \in {"consume", "execute", "receipt"} =>
                             tokens'[med[m].token].capability_epoch >= med[m].started_epoch
    BY DEF Validated
  <2>1. mpc[m] # "idle" => med[m].started_epoch <= capability_epoch'
    BY <1>2 DEF Validated
  <2>2. mpc[m] \in {"epoch", "consume", "execute", "receipt"} => Matches(m, med[m].token)'
    BY <1>1 DEF Validated, Matches
  <2>3. mpc[m] \in {"consume", "execute", "receipt"} =>
           tokens'[med[m].token].capability_epoch >= med[m].started_epoch
    BY <1>1 DEF Validated
  <2>. QED
    BY <2>1, <2>2, <2>3
<1>5. OneExecutor'
  BY <1>1 DEF OneExecutor
<1>. QED
  BY <1>3, <1>4, <1>5

\* A broker's step keeps what was validated for the others.
LEMMA ValidatedMove ==
    ASSUME BrokersOK, Validated, NEW m \in Mediators, NEW l \in MediationLabels,
           MovesBroker(m, l), UNCHANGED <<tokens, capability_epoch>>,
           l # "idle" => med'[m].started_epoch <= capability_epoch,
           l \in {"epoch", "consume", "execute", "receipt"} => Matches(m, med[m].token)',
           l \in {"consume", "execute", "receipt"} =>
              tokens[med'[m].token].capability_epoch >= med'[m].started_epoch
    PROVE  Validated'
<1>1. ASSUME NEW n \in Mediators \ {m}
      PROVE  /\ mpc'[n] # "idle" => med'[n].started_epoch <= capability_epoch
             /\ mpc'[n] \in {"epoch", "consume", "execute", "receipt"} =>
                   Matches(n, med[n].token)'
             /\ mpc'[n] \in {"consume", "execute", "receipt"} =>
                   tokens[med'[n].token].capability_epoch >= med'[n].started_epoch
  <2>1. mpc'[n] = mpc[n] /\ med'[n] = med[n]
    BY DEF MovesBroker
  <2>2. Matches(n, med[n].token)' <=> Matches(n, med[n].token)
    BY <2>1 DEF Matches
  <2>. QED
    BY <2>1, <2>2 DEF Validated
<1>2. mpc'[m] = l
  BY DEF MovesBroker
<1>. QED
  BY <1>1, <1>2 DEF Validated

\* A token still matches a mediation that has not changed.
LEMMA SameMatch ==
    ASSUME NEW m \in Mediators, UNCHANGED tokens, med'[m] = med[m]
    PROVE  Matches(m, med[m].token)' <=> Matches(m, med[m].token)
  BY DEF Matches

\* A broker moves to a label other than "execute" and uses no token.
LEMMA ExecutorMove ==
    ASSUME BrokersOK, OneExecutor, ClaimedFirst, NEW m \in Mediators,
           NEW l \in MediationLabels \ {"execute"}, MovesBroker(m, l),
           UNCHANGED <<tokens, counts, effects>>
    PROVE  OneExecutor' /\ ClaimedFirst'
  BY DEF OneExecutor, ClaimedFirst, MovesBroker, TokenIds

\* A mediation's step keeps BrokerInv.
LEMMA MediatorKeepsBrokers ==
    ASSUME PlaneTypeOK, BrokerInv, NEW m \in Mediators, MediatorBegins(m) \/ MediatorStep(m)
    PROVE  BrokerInv'
<1>. USE DEF PlaneTypeOK, BrokerInv
<1>1. UNCHANGED <<tokens, capability_epoch>> /\ TokenIds' = TokenIds
  BY MediatorFrame DEF vars, engineVars, TokenIds
<1>2. capability_epoch \in Nat
  BY DEF TypeOK
<1>3. CASE MediatorBegins(m)
  <2>1. PICK s \in Subjects, a \in Actions : BeginMediate(m, s, a)
    BY <1>3 DEF MediatorBegins
  <2>2. MovesBroker(m, "lookup") /\ med'[m].started_epoch = capability_epoch
        /\ UNCHANGED <<counts, effects>>
    BY <2>1, BeginMediateDoes DEF BeginMediate
  <2>3. Validated'
    BY <1>1, <1>2, <2>2, ValidatedMove DEF MediationLabels
  <2>. QED
    BY <1>1, <2>2, <2>3, ExecutorMove DEF MediationLabels
<1>4. CASE Denied(m) \/ EndMediate(m)
  <2>1. MovesBroker(m, "idle") /\ UNCHANGED <<counts, effects>>
    BY <1>4, EmitDoes DEF Denied, EndMediate, EmitExecuted, Outcomes
  <2>2. Validated'
    BY <1>1, <2>1, ValidatedMove DEF MediationLabels
  <2>. QED
    BY <1>1, <2>1, <2>2, ExecutorMove DEF MediationLabels
<1>5. CASE /\ mpc[m] = "lookup" /\ Takes(m, store[med[m].action])
           /\ UNCHANGED <<counts, mediations, effects>>
  <2>. DEFINE i == store[med[m].action]
  <2>1. /\ MovesBroker(m, "epoch") /\ Matches(m, i) /\ med'[m].token = i
        /\ med'[m].subject = med[m].subject /\ med'[m].action = med[m].action
        /\ med'[m].now = med[m].now /\ med'[m].started_epoch = med[m].started_epoch
    BY <1>5 DEF Takes
  <2>. HIDE DEF i
  <2>2. Matches(m, med[m].token)'
    BY <1>1, <2>1 DEF Matches
  <2>3. med[m].started_epoch <= capability_epoch
    BY <1>5 DEF Validated
  <2>4. Validated'
    BY <1>1, <2>1, <2>2, <2>3, ValidatedMove DEF MediationLabels
  <2>. QED
    BY <1>1, <1>5, <2>1, <2>4, ExecutorMove DEF MediationLabels
<1>6. CASE CheckEpoch(m) /\ EpochFresh(m)
  <2>1. mpc[m] = "epoch" /\ mpc' = [mpc EXCEPT ![m] = "consume"]
        /\ UNCHANGED <<med, counts, effects>>
        /\ tokens[med[m].token].capability_epoch = capability_epoch
    BY <1>6 DEF CheckEpoch, EpochFresh
  <2>2. MovesBroker(m, "consume") /\ med'[m] = med[m]
    BY <2>1, GotoBroker DEF MediationLabels
  <2>3. med[m].started_epoch <= capability_epoch /\ Matches(m, med[m].token)
        /\ med[m].started_epoch \in Nat
    BY <2>1 DEF Validated, BrokersOK, Mediation
  <2>4. Validated'
    <3>1. tokens[med'[m].token].capability_epoch >= med'[m].started_epoch
      BY <1>2, <2>1, <2>2, <2>3
    <3>. QED
      BY <1>1, <2>2, <2>3, <3>1, SameMatch, ValidatedMove DEF MediationLabels
  <2>. QED
    BY <1>1, <2>1, <2>2, <2>4, ExecutorMove DEF MediationLabels
<1>7. ASSUME mpc[m] \in {"consume", "execute"}, NEW l \in {"execute", "receipt"},
             mpc' = [mpc EXCEPT ![m] = l], UNCHANGED med
      PROVE  Validated' /\ MovesBroker(m, l) /\ med'[m] = med[m] /\ med[m].token \in TokenIds
  <2>1. MovesBroker(m, l) /\ med'[m] = med[m]
    BY <1>7, GotoBroker DEF MediationLabels
  <2>2. /\ med[m].started_epoch <= capability_epoch /\ Matches(m, med[m].token)
        /\ tokens[med[m].token].capability_epoch >= med[m].started_epoch
        /\ med[m].token \in TokenIds
    BY <1>7 DEF Validated, BrokersOK
  <2>. QED
    BY <1>1, <2>1, <2>2, SameMatch, ValidatedMove DEF MediationLabels
<1>8. CASE Consume(m) /\ Unused(m)
  <2>. DEFINE i == med[m].token
  <2>1. mpc[m] = "consume" /\ mpc' = [mpc EXCEPT ![m] = "execute"]
        /\ counts' = [counts EXCEPT ![i] = @ + 1]
        /\ UNCHANGED <<med, effects>> /\ counts[i] < 1
    BY <1>8 DEF Consume, Unused
  <2>2. Validated' /\ MovesBroker(m, "execute") /\ med'[m] = med[m] /\ i \in TokenIds
    BY <1>7, <2>1
  <2>. HIDE DEF i
  <2>3. /\ counts[i] \in Nat /\ effects[i] \in Nat /\ counts'[i] = counts[i] + 1
        /\ \A j \in TokenIds \ {i} : counts'[j] = counts[j]
    BY <2>1, <2>2, CountUp DEF StoresOK, TokenIds
  <2>4. counts[i] = 0 /\ effects[i] = 0 /\ counts'[i] = 1 /\ effects'[i] = 0
    BY <2>1, <2>2, <2>3 DEF ClaimedFirst
  <2>5. ClaimedFirst'
    BY <1>1, <2>1, <2>2, <2>3, <2>4 DEF ClaimedFirst
  <2>6. \A n \in Mediators \ {m} : mpc'[n] = "execute" =>
           /\ mpc[n] = "execute" /\ med'[n] = med[n] /\ med[n].token # i
           /\ med[n].token \in TokenIds
    BY <2>2, <2>4 DEF MovesBroker, OneExecutor, BrokersOK
  <2>7. OneExecutor'
    BY <2>1, <2>2, <2>3, <2>4, <2>6 DEF OneExecutor, i
  <2>. QED
    BY <2>2, <2>5, <2>7
<1>9. ASSUME mpc[m] = "execute", UNCHANGED counts,
             effects' = [effects EXCEPT ![med[m].token] = @ + 1] \/ UNCHANGED effects,
             NEW l \in {"receipt", "idle"}, MovesBroker(m, l)
      PROVE  ClaimedFirst' /\ OneExecutor'
  <2>. DEFINE i == med[m].token
  <2>1. i \in TokenIds /\ counts[i] = 1 /\ effects[i] = 0
    BY <1>9 DEF OneExecutor, BrokersOK
  <2>2. \A n \in Mediators \ {m} : mpc'[n] = "execute" =>
           /\ mpc[n] = "execute" /\ med'[n] = med[n] /\ med[n].token # i
           /\ med[n].token \in TokenIds
    BY <1>9 DEF MovesBroker, OneExecutor, BrokersOK
  <2>3. mpc'[m] # "execute"
    BY <1>9 DEF MovesBroker
  <2>4. /\ effects'[i] \in {0, 1}
        /\ \A j \in TokenIds \ {i} : effects'[j] = effects[j]
    <3>1. CASE effects' = [effects EXCEPT ![i] = @ + 1]
      <4>1. effects'[i] = effects[i] + 1 /\ \A j \in TokenIds \ {i} : effects'[j] = effects[j]
        BY <2>1, <3>1, CountUp
      <4>. QED
        BY <2>1, <4>1
    <3>2. CASE UNCHANGED effects
      BY <2>1, <3>2
    <3>. QED
      BY <1>9, <3>1, <3>2
  <2>. HIDE DEF i
  <2>5. ClaimedFirst'
    BY <1>1, <1>9, <2>1, <2>4 DEF ClaimedFirst
  <2>6. OneExecutor'
    BY <1>9, <2>2, <2>3, <2>4 DEF OneExecutor
  <2>. QED
    BY <2>5, <2>6
<1>10. CASE Execute(m)
  <2>1. mpc[m] = "execute" /\ mpc' = [mpc EXCEPT ![m] = "receipt"] /\ UNCHANGED <<med, counts>>
        /\ effects' = [effects EXCEPT ![med[m].token] = @ + 1]
    BY <1>10 DEF Execute
  <2>2. Validated' /\ MovesBroker(m, "receipt")
    BY <1>7, <2>1
  <2>. QED
    BY <1>9, <2>1, <2>2
<1>11. CASE ExecuteFails(m)
  <2>1. mpc[m] = "execute" /\ Emit(m, "FAILED") /\ UNCHANGED counts
        /\ (effects' = [effects EXCEPT ![med[m].token] = @ + 1] \/ UNCHANGED effects)
    BY <1>11 DEF ExecuteFails
  <2>2. MovesBroker(m, "idle")
    BY <2>1, EmitDoes DEF Outcomes
  <2>3. Validated'
    BY <1>1, <2>2, ValidatedMove DEF MediationLabels
  <2>. QED
    BY <1>9, <2>1, <2>2, <2>3
<1>. QED
  BY <1>3, <1>4, <1>5, <1>6, <1>8, <1>10, <1>11, MediatorStepKinds

-----------------------------------------------------------------------------
(***************************************************************************)
(* The gate: records are only appended, so what was seen stays on record.  *)
(***************************************************************************)

TransitionsGrow ==
    \A s \in Subjects :
        /\ Len(transitions[s]) <= Len(transitions'[s])
        /\ \A n \in 1..Len(transitions[s]) : transitions'[s][n] = transitions[s][n]

\* The engine only appends transitions and never lowers the epoch.
LEMMA ContainmentGrows ==
    ASSUME EngineInv, NEW t \in Threads, ContainmentStep(t)
    PROVE  TransitionsGrow /\ capability_epoch <= capability_epoch'
<1>. USE DEF EngineInv
<1>1. /\ capability_epoch \in Nat
      /\ \A s \in Subjects : transitions[s] \in Seq(Transition)
  BY DEF TypeOK
<1>2. CASE UNCHANGED <<transitions, capability_epoch>>
  BY <1>1, <1>2 DEF TransitionsGrow
<1>3. CASE Bump(t)
  <2>1. UNCHANGED transitions /\ capability_epoch' = capability_epoch + 1
    BY <1>3 DEF Bump, NextEpoch
  <2>. QED
    BY <1>1, <2>1 DEF TransitionsGrow
<1>4. CASE Commit(t)
  <2>1. /\ job[t].subject \in Subjects /\ RecordOf(t) \in Transition
    BY <1>4, CommitRecord DEF Commit
  <2>2. /\ transitions' = [transitions EXCEPT ![job[t].subject] = Append(@, RecordOf(t))]
        /\ UNCHANGED capability_epoch
    BY <1>4 DEF Commit
  <2>3. \A s \in Subjects : transitions'[s] = IF s = job[t].subject
                            THEN Append(transitions[s], RecordOf(t)) ELSE transitions[s]
    BY <2>1, <2>2 DEF TypeOK
  <2>4. ASSUME NEW s \in Subjects
        PROVE  /\ Len(transitions[s]) <= Len(transitions'[s])
               /\ \A n \in 1..Len(transitions[s]) : transitions'[s][n] = transitions[s][n]
    <3>1. CASE s = job[t].subject
      <4>1. transitions'[s] = Append(transitions[s], RecordOf(t))
        BY <2>3, <3>1
      <4>. QED
        BY <1>1, <2>1, <4>1
    <3>2. CASE s # job[t].subject
      BY <1>1, <2>3, <3>2
    <3>. QED
      BY <3>1, <3>2
  <2>. QED
    BY <1>1, <2>2, <2>4 DEF TransitionsGrow
<1>. QED
  BY <1>2, <1>3, <1>4
  DEF ContainmentStep, CallEvaluate, CallKillSwitch, CallRecover, Call, EngineStep,
      EnterCommits, EnterReturns

\* Subject s will have been unblocked after one of its transitions from a to b.
UnblockedNext(s, a, b) ==
    \E n \in a..b :
        ~ blocks_new_consequential_tokens(IF n = 0 THEN "NORMAL" ELSE transitions'[s][n].new)

\* A subject that was clear at some point of an interval was clear at some
\* point of any longer one.
LEMMA UnblockedGrows ==
    ASSUME TypeOK, TransitionsGrow, NEW s \in Subjects, NEW a \in Nat, NEW b \in Nat,
           NEW c \in Nat, b <= Len(transitions[s]), b <= c, Unblocked(s, a, b)
    PROVE  UnblockedNext(s, a, c)
<1>1. PICK n \in a..b : ~ blocks_new_consequential_tokens(StateAfter(s, n))
  BY DEF Unblocked
<1>2. n \in a..c /\ (n = 0 \/ n \in 1..Len(transitions[s]))
  BY <1>1 DEF TypeOK
<1>3. StateAfter(s, n) = IF n = 0 THEN "NORMAL" ELSE transitions'[s][n].new
  BY <1>2 DEF StateAfter, TransitionsGrow
<1>. QED
  BY <1>1, <1>2, <1>3 DEF UnblockedNext

\* What the invariant says of a worker and of a token, in the next state.
GateInvNext ==
    /\ \A w \in Workers : wpc'[w] # "idle" =>
          work'[w].since <= Len(transitions'[SubjectOf[work'[w].envelope]])
    /\ \A w \in Workers : wpc'[w] \in {"policy", "mint"} =>
          UnblockedNext(SubjectOf[work'[w].envelope], work'[w].since,
                        Len(transitions'[SubjectOf[work'[w].envelope]]))
    /\ \A i \in TokenIds' :
          /\ tokens'[i].until <= Len(transitions'[tokens'[i].subject])
          /\ UnblockedNext(tokens'[i].subject, tokens'[i].since, tokens'[i].until)

\* GateInvNext spells out GateInv'.
LEMMA GateInvNextIs == GateInvNext => GateInv'
  BY DEF GateInvNext, GateInv, UnblockedNext, Unblocked, StateAfter, Subject

\* The types the gate's argument needs.
LEMMA GateTypes ==
    ASSUME TypeOK, StoresOK, WorkersOK
    PROVE  /\ \A w \in Workers : wpc[w] # "idle" =>
                 Subject(w) \in Subjects /\ work[w].since \in Nat
           /\ \A i \in TokenIds : /\ tokens[i].subject \in Subjects
                                  /\ tokens[i].since \in Nat /\ tokens[i].until \in Nat
           /\ \A s \in Subjects : Len(transitions[s]) \in Nat
<1>1. ASSUME NEW w \in Workers, wpc[w] # "idle"
      PROVE  Subject(w) \in Subjects /\ work[w].since \in Nat
  <2>1. work[w] \in Work
    BY <1>1 DEF WorkersOK
  <2>2. work[w].envelope \in Envelopes /\ work[w].since \in Nat
    BY <2>1 DEF Work
  <2>. QED
    BY <2>2, PlaneAssumption DEF Subject
<1>2. ASSUME NEW i \in TokenIds
      PROVE  tokens[i].subject \in Subjects /\ tokens[i].since \in Nat /\ tokens[i].until \in Nat
  <2>1. tokens[i] \in Token
    BY <1>2 DEF StoresOK, TokenIds
  <2>. QED
    BY <2>1 DEF Token
<1>3. \A s \in Subjects : Len(transitions[s]) \in Nat
  BY DEF TypeOK
<1>. QED
  BY <1>1, <1>2, <1>3

\* The engine moves on, and nothing else.
LEMMA GateInvStay ==
    ASSUME TypeOK, TypeOK', StoresOK, WorkersOK, GateInv, TransitionsGrow,
           UNCHANGED workerVars, UNCHANGED tokens
    PROVE  GateInv'
<1>1. wpc' = wpc /\ work' = work /\ TokenIds' = TokenIds
  BY DEF workerVars, TokenIds
<1>2. \A s \in Subjects : Len(transitions[s]) \in Nat /\ Len(transitions'[s]) \in Nat
                          /\ Len(transitions[s]) <= Len(transitions'[s])
  BY DEF TypeOK, TransitionsGrow
<1>3. ASSUME NEW w \in Workers, wpc[w] # "idle"
      PROVE  /\ work[w].since <= Len(transitions'[Subject(w)])
             /\ wpc[w] \in {"policy", "mint"} =>
                   UnblockedNext(Subject(w), work[w].since, Len(transitions'[Subject(w)]))
  <2>1. Subject(w) \in Subjects /\ work[w].since \in Nat
        /\ work[w].since <= Len(transitions[Subject(w)])
    BY <1>3, GateTypes DEF GateInv
  <2>2. ASSUME wpc[w] \in {"policy", "mint"}
        PROVE  UnblockedNext(Subject(w), work[w].since, Len(transitions'[Subject(w)]))
    <3>1. Unblocked(Subject(w), work[w].since, Len(transitions[Subject(w)]))
      BY <2>2 DEF GateInv
    <3>. QED
      BY <1>2, <2>1, <3>1, UnblockedGrows
  <2>. QED
    BY <1>2, <2>1, <2>2
<1>4. ASSUME NEW i \in TokenIds
      PROVE  /\ tokens[i].until <= Len(transitions'[tokens[i].subject])
             /\ UnblockedNext(tokens[i].subject, tokens[i].since, tokens[i].until)
  <2>1. /\ tokens[i].subject \in Subjects
        /\ tokens[i].since \in Nat /\ tokens[i].until \in Nat
        /\ tokens[i].until <= Len(transitions[tokens[i].subject])
        /\ Unblocked(tokens[i].subject, tokens[i].since, tokens[i].until)
    BY <1>4, GateTypes DEF GateInv
  <2>2. UnblockedNext(tokens[i].subject, tokens[i].since, tokens[i].until)
    BY <2>1, UnblockedGrows
  <2>. QED
    BY <1>2, <2>1, <2>2
<1>5. GateInvNext
  BY <1>1, <1>3, <1>4 DEF GateInvNext, Subject
<1>. QED
  BY <1>5, GateInvNextIs

\* A worker moves, and may mint a token.
LEMMA GateInvMove ==
    ASSUME TypeOK, StoresOK, WorkersOK, GateInv, UNCHANGED transitions,
           NEW w \in Workers, NEW l \in WorkLabels, Moves(w, l),
           l # "idle" => work'[w].since <= Len(transitions[SubjectOf[work'[w].envelope]]),
           l \in {"policy", "mint"} =>
              Unblocked(SubjectOf[work'[w].envelope], work'[w].since,
                        Len(transitions[SubjectOf[work'[w].envelope]])),
           \A i \in TokenIds' :
              \/ i \in TokenIds /\ tokens'[i] = tokens[i]
              \/ /\ tokens'[i].until <= Len(transitions[tokens'[i].subject])
                 /\ Unblocked(tokens'[i].subject, tokens'[i].since, tokens'[i].until)
    PROVE  GateInv'
<1>1. \A s, a, b : Unblocked(s, a, b) <=> UnblockedNext(s, a, b)
  BY DEF Unblocked, UnblockedNext, StateAfter
<1>2. \A u \in Workers \ {w} : wpc'[u] = wpc[u] /\ work'[u] = work[u]
  BY DEF Moves
<1>3. wpc'[w] = l
  BY DEF Moves
<1>4. ASSUME NEW u \in Workers
      PROVE  /\ wpc'[u] # "idle" =>
                   work'[u].since <= Len(transitions[SubjectOf[work'[u].envelope]])
             /\ wpc'[u] \in {"policy", "mint"} =>
                   UnblockedNext(SubjectOf[work'[u].envelope], work'[u].since,
                                 Len(transitions[SubjectOf[work'[u].envelope]]))
  <2>1. CASE u = w
    BY <1>1, <1>3, <2>1
  <2>2. CASE u # w
    BY <1>1, <1>2, <2>2 DEF GateInv, Subject
  <2>. QED
    BY <2>1, <2>2
<1>5. ASSUME NEW i \in TokenIds'
      PROVE  /\ tokens'[i].until <= Len(transitions[tokens'[i].subject])
             /\ UnblockedNext(tokens'[i].subject, tokens'[i].since, tokens'[i].until)
  BY <1>1, <1>5 DEF GateInv
<1>6. GateInvNext
  BY <1>4, <1>5 DEF GateInvNext
<1>. QED
  BY <1>6, GateInvNextIs

\* The state that lets a worker pass the gate is the one after the last
\* transition on record.
LEMMA GateSeen ==
    ASSUME EngineInv, PlaneTypeOK, GateInv, NEW w \in Workers, wpc[w] = "gate", ~ Blocked(w)
    PROVE  Unblocked(Subject(w), work[w].since, Len(transitions[Subject(w)]))
<1>. USE DEF PlaneTypeOK
<1>. DEFINE s == Subject(w)
            n == Len(transitions[s])
<1>1. s \in Subjects /\ work[w].since \in Nat /\ n \in Nat /\ work[w].since <= n
  BY GateTypes DEF GateInv
<1>2. transitions[s] \in Seq(Transition)
  BY <1>1 DEF TypeOK
<1>3. state[s] = IF transitions[s] = <<>> THEN "NORMAL" ELSE transitions[s][n].new
  BY <1>1 DEF EngineInv, ChainLinked
<1>4. transitions[s] = <<>> <=> n = 0
  BY <1>2
<1>5. ~ blocks_new_consequential_tokens(state[s])
  BY DEF Blocked
<1>6. state[s] = StateAfter(s, n)
  BY <1>3, <1>4 DEF StateAfter
<1>7. n \in work[w].since .. n
  BY <1>1
<1>. HIDE DEF s, n
<1>8. Unblocked(s, work[w].since, n)
  BY <1>5, <1>6, <1>7 DEF Unblocked
<1>. QED
  BY <1>8 DEF s, n

-----------------------------------------------------------------------------
(***************************************************************************)
(* Every step keeps the invariant.                                         *)
(***************************************************************************)

\* A worker that changes no store but its own record.
LEMMA QuietMove ==
    ASSUME PlaneInv, NEW w \in Workers, NEW l \in WorkLabels, Moves(w, l),
           UNCHANGED <<nonces, decisions, approvals, tokens, counts, effects, mpc, med>>,
           UNCHANGED vars,
           l \in {"replay", "session", "policy"} => work'[w].decision = 0,
           l # "idle" => work'[w].decision \in {0} \cup DecisionIds,
           l # "idle" /\ work'[w].decision # 0 =>
              work'[w].envelope = decisions[work'[w].decision].envelope,
           l \in {"session", "state", "gate", "policy"} /\ work'[w].decision = 0 =>
              Undecided(w) /\ work'[w].envelope = work[w].envelope,
           l \in {"state", "gate", "mint"} /\ work'[w].decision # 0 =>
              Minting(w) /\ work'[w].decision = work[w].decision,
           l # "idle" => work'[w].since <= Len(transitions[SubjectOf[work'[w].envelope]]),
           l \in {"policy", "mint"} =>
              Unblocked(SubjectOf[work'[w].envelope], work'[w].since,
                        Len(transitions[SubjectOf[work'[w].envelope]]))
    PROVE  DecisionInv' /\ MintInv' /\ BrokerInv' /\ GateInv'
<1>. USE DEF PlaneInv, PlaneTypeOK
<1>1. UNCHANGED <<transitions, capability_epoch>>
  BY DEF vars, engineVars
<1>2. /\ TokenIds' = TokenIds /\ DecisionIds' = DecisionIds /\ SameDecisions
      /\ nonces \subseteq nonces'
  BY DEF TokenIds, DecisionIds, SameDecisions
<1>3. DecisionsStick
  BY <1>2 DEF DecisionsStick, Allowed, AllowedNext
<1>4. DecisionInv'
  BY <1>2, DecisionInvMove
<1>5. MintInv'
  <2>1. ASSUME l \in {"state", "gate", "mint"}, work'[w].decision # 0
        PROVE  AllowedNext(work'[w].decision)
    BY <1>2, <2>1 DEF MintInv, OneMinter, AllowedNext
  <2>. QED
    BY <1>3, <2>1, MintInvMove
<1>6. BrokerInv'
  <2>1. capability_epoch \in Nat /\ capability_epoch <= capability_epoch
    BY DEF TypeOK
  <2>. QED
    BY <1>1, <1>2, <2>1, BrokerInvStay
<1>7. GateInv'
  BY <1>1, <1>2, GateInvMove
<1>. QED
  BY <1>4, <1>5, <1>6, <1>7

\* evaluate begins: the invariant's parts are kept.
LEMMA BeginEvaluateKeeps ==
    ASSUME PlaneInv, NEW w \in Workers, NEW e \in Envelopes, BeginEvaluate(w, e)
    PROVE  DecisionInv' /\ MintInv' /\ BrokerInv' /\ GateInv'
<1>1. /\ Moves(w, "replay") /\ work'[w].envelope = e /\ work'[w].decision = 0
      /\ work'[w].since = Len(transitions[SubjectOf[e]])
  BY BeginEvaluateDoes DEF PlaneInv, PlaneTypeOK
<1>2. /\ UNCHANGED <<nonces, decisions, approvals, tokens, counts, effects, mpc, med>>
      /\ UNCHANGED vars
  BY DEF BeginEvaluate, requestVars, decisionVars, tokenVars, brokerVars
<1>3. Len(transitions[SubjectOf[e]]) \in Nat
  BY PlaneAssumption DEF PlaneInv, PlaneTypeOK, TypeOK
<1>4. work'[w].since <= Len(transitions[SubjectOf[work'[w].envelope]])
  BY <1>1, <1>3
<1>. QED
  BY <1>1, <1>2, <1>4, QuietMove DEF WorkLabels

\* approve begins: the invariant's parts are kept.
LEMMA BeginApproveKeeps ==
    ASSUME PlaneInv, NEW w \in Workers, NEW d \in DecisionIds, BeginApprove(w, d)
    PROVE  DecisionInv' /\ MintInv' /\ BrokerInv' /\ GateInv'
<1>. DEFINE e == decisions[d].envelope
<1>1. /\ Moves(w, "grant") /\ work'[w].envelope = e /\ work'[w].decision = d
      /\ work'[w].since = Len(transitions[SubjectOf[e]]) /\ e \in Envelopes
  BY BeginApproveDoes DEF PlaneInv, PlaneTypeOK
<1>2. /\ UNCHANGED <<nonces, decisions, approvals, tokens, counts, effects, mpc, med>>
      /\ UNCHANGED vars
  BY DEF BeginApprove, requestVars, decisionVars, tokenVars, brokerVars
<1>. HIDE DEF e
<1>3. Len(transitions[SubjectOf[e]]) \in Nat
  BY <1>1, PlaneAssumption DEF PlaneInv, PlaneTypeOK, TypeOK
<1>4. work'[w].since <= Len(transitions[SubjectOf[work'[w].envelope]])
  BY <1>1, <1>3
<1>5. work'[w].envelope = decisions[work'[w].decision].envelope
  BY <1>1 DEF e
<1>. QED
  BY <1>1, <1>2, <1>4, <1>5, QuietMove DEF WorkLabels

\* A request that is refused keeps the invariant's parts.
LEMMA GivesUpKeeps ==
    ASSUME PlaneInv, NEW w \in Workers, GivesUp(w)
    PROVE  DecisionInv' /\ MintInv' /\ BrokerInv' /\ GateInv'
<1>1. /\ Moves(w, "idle") /\ UNCHANGED vars
      /\ UNCHANGED <<nonces, decisions, approvals, tokens, counts, effects, mpc, med>>
  BY DEF GivesUp, requestVars, decisionVars, tokenVars, brokerVars
<1>. QED
  BY <1>1, QuietMove DEF WorkLabels

\* What the invariant says of worker w, as the lemmas below use it.
LEMMA WorkerFacts ==
    ASSUME PlaneInv, NEW w \in Workers, wpc[w] # "idle"
    PROVE  /\ work[w].decision \in {0} \cup DecisionIds
           /\ work[w].decision # 0 => work[w].envelope = decisions[work[w].decision].envelope
           /\ work[w].since <= Len(transitions[SubjectOf[work[w].envelope]])
           /\ wpc[w] \in {"policy", "mint"} =>
                 Unblocked(SubjectOf[work[w].envelope], work[w].since,
                           Len(transitions[SubjectOf[work[w].envelope]]))
  BY DEF PlaneInv, PlaneTypeOK, WorkersOK, DecisionInv, WorkersAgree, GateInv, Subject

\* A passed check keeps the invariant's parts.
LEMMA PassesKeeps ==
    ASSUME PlaneInv, NEW w \in Workers,
           NEW k \in {"session", "state", "gate"}, NEW l \in {"state", "gate", "policy", "mint"},
           Passes(w, k, l), l = "mint" => work[w].decision # 0,
           l = "policy" => work[w].decision = 0,
           k = "session" => l = "state",
           l \in {"policy", "mint"} => k = "gate" /\ ~ Blocked(w)
    PROVE  DecisionInv' /\ MintInv' /\ BrokerInv' /\ GateInv'
<1>1. /\ wpc[w] = k /\ Moves(w, l) /\ UNCHANGED vars /\ l \in WorkLabels
      /\ work'[w].envelope = work[w].envelope /\ work'[w].since = work[w].since
      /\ work'[w].decision = work[w].decision
      /\ UNCHANGED <<nonces, decisions, approvals, tokens, counts, effects, mpc, med>>
  BY DEF Passes, SameCall, SameDecision, requestVars, decisionVars, tokenVars, brokerVars,
         WorkLabels
<1>2. work[w].decision = 0 => Undecided(w)
  BY <1>1 DEF Undecided
<1>3. l \in {"state", "gate", "mint"} /\ work[w].decision # 0 => Minting(w)
  BY <1>1 DEF Minting, PlaneInv, DecisionInv, WorkersAgree
<1>4. l \in {"policy", "mint"} =>
         Unblocked(SubjectOf[work[w].envelope], work[w].since,
                   Len(transitions[SubjectOf[work[w].envelope]]))
  BY <1>1, GateSeen DEF PlaneInv, Subject
<1>. QED
  BY <1>1, <1>2, <1>3, <1>4, WorkerFacts, QuietMove

\* Committing the nonce makes this worker the envelope's only decider.
LEMMA CommitReplayKeeps ==
    ASSUME PlaneInv, NEW w \in Workers, CommitReplay(w)
    PROVE  DecisionInv' /\ MintInv' /\ BrokerInv' /\ GateInv'
<1>. USE DEF PlaneInv, PlaneTypeOK
<1>. DEFINE e == work[w].envelope
<1>1. /\ wpc[w] = "replay" /\ Goto(w, "session") /\ UNCHANGED work
      /\ e \notin nonces /\ nonces' = nonces \cup {e}
      /\ UNCHANGED <<decisions, approvals, tokens, counts, effects, mpc, med>>
      /\ UNCHANGED <<transitions, capability_epoch>>
  BY DEF CommitReplay, IsFresh, decisionVars, tokenVars, brokerVars, vars, engineVars
<1>2. Moves(w, "session") /\ work'[w] = work[w] /\ work[w].decision = 0
  BY <1>1, GotoMoves DEF WorkLabels, DecisionInv, WorkersAgree
<1>3. TokenIds' = TokenIds /\ DecisionIds' = DecisionIds /\ SameDecisions
  BY <1>1 DEF TokenIds, DecisionIds, SameDecisions
<1>4. DecisionsStick
  BY <1>1, <1>3 DEF DecisionsStick, Allowed, AllowedNext
<1>5. DecisionInv'
  BY <1>1, <1>2, <1>3, DecisionInvMove DEF WorkLabels
<1>6. MintInv'
  BY <1>1, <1>2, <1>4, MintInvMove DEF WorkLabels
<1>7. BrokerInv'
  <2>1. capability_epoch \in Nat /\ capability_epoch <= capability_epoch
    BY DEF TypeOK
  <2>. QED
    BY <1>1, <1>3, <2>1, BrokerInvStay
<1>8. GateInv'
  BY <1>1, <1>2, <1>3, WorkerFacts, GateInvMove DEF WorkLabels
<1>. QED
  BY <1>5, <1>6, <1>7, <1>8

\* A policy decision is the envelope's first, by OneDecider.
LEMMA PolicyDecidesKeeps ==
    ASSUME PlaneInv, NEW w \in Workers, PolicyAllows(w) \/ PolicyParks(w)
    PROVE  DecisionInv' /\ MintInv' /\ BrokerInv' /\ GateInv'
<1>. USE DEF PlaneInv, PlaneTypeOK
<1>. DEFINE e == work[w].envelope
            k == Len(decisions) + 1
<1>1. /\ wpc[w] = "policy" /\ UNCHANGED <<nonces, tokens, counts, effects, mpc, med>>
      /\ UNCHANGED <<transitions, capability_epoch>>
  BY DEF PolicyAllows, PolicyParks, requestVars, tokenVars, brokerVars, vars, engineVars
<1>2. Undecided(w)
  BY <1>1 DEF Undecided, DecisionInv, WorkersAgree
<1>3. ASSUME NEW st \in {"NONE", "PENDING"}, NEW l \in {"mint", "idle"},
             AddsDecision(e, st), Moves(w, l),
             l = "mint" => /\ st = "NONE" /\ SameCall(w)
                           /\ work'[w].decision = k
      PROVE  DecisionInv' /\ MintInv' /\ BrokerInv' /\ GateInv'
  <2>1. /\ DecisionIds' = DecisionIds \cup {k} /\ k \notin DecisionIds /\ k # 0
        /\ \A d \in DecisionIds : /\ decisions'[d].envelope = decisions[d].envelope
                                  /\ approvals'[d] = approvals[d]
        /\ approvals'[k].state = st
    <3>1. Len(decisions) \in Nat
      BY DEF StoresOK
    <3>2. DecisionIds' = 1..k
      BY <1>3 DEF AddsDecision, DecisionIds
    <3>3. DecisionIds' = DecisionIds \cup {k} /\ k \notin DecisionIds /\ k # 0
      BY <3>1, <3>2 DEF DecisionIds
    <3>. QED
      BY <1>3, <3>3 DEF AddsDecision
  <2>2. TokenIds' = TokenIds
    BY <1>1 DEF TokenIds
  <2>3. DecisionInv'
    BY <1>1, <1>2, <1>3, DecisionInvAdd DEF SameCall
  <2>4. MintInv'
    <3>1. DecisionsStick
      BY <2>1 DEF DecisionsStick, Allowed, AllowedNext
    <3>2. l = "mint" => AllowedNext(k) /\ ~ Allowed(k)
      BY <1>3, <2>1 DEF Allowed, AllowedNext
    <3>. HIDE DEF k
    <3>. QED
      BY <1>1, <1>3, <3>1, <3>2, MintInvMove DEF WorkLabels
  <2>5. BrokerInv'
    <3>1. capability_epoch \in Nat /\ capability_epoch <= capability_epoch
      BY DEF TypeOK
    <3>. QED
      BY <1>1, <2>2, <3>1, BrokerInvStay
  <2>6. GateInv'
    BY <1>1, <1>3, <2>2, WorkerFacts, GateInvMove DEF WorkLabels, SameCall
  <2>. QED
    BY <2>3, <2>4, <2>5, <2>6
<1>4. CASE PolicyAllows(w)
  BY <1>3, <1>4, PolicyAllowsAdds, PolicyAllowsDoes
<1>5. CASE PolicyParks(w)
  BY <1>3, <1>5, PolicyParksAdds, ReturnMoves DEF PolicyParks, EndPark
<1>. QED
  BY <1>4, <1>5

\* A grant makes this worker the decision's only minter.
LEMMA GrantKeeps ==
    ASSUME PlaneInv, NEW w \in Workers, Grant(w), Decidable(work[w].decision, work[w].now)
    PROVE  DecisionInv' /\ MintInv' /\ BrokerInv' /\ GateInv'
<1>. USE DEF PlaneInv, PlaneTypeOK
<1>. DEFINE d == work[w].decision
<1>1. /\ wpc[w] = "grant" /\ Goto(w, "state") /\ UNCHANGED work
      /\ approvals' = [approvals EXCEPT ![d].state = "GRANTED"]
      /\ UNCHANGED <<nonces, decisions, tokens, counts, effects, mpc, med>>
      /\ UNCHANGED <<transitions, capability_epoch>>
  BY DEF Grant, requestVars, tokenVars, brokerVars, vars, engineVars
<1>2. d \in DecisionIds /\ d # 0 /\ approvals[d].state = "PENDING"
  BY <1>1 DEF WorkersOK, Decidable, DecisionIds
<1>3. Moves(w, "state") /\ work'[w] = work[w]
  BY <1>1, GotoMoves DEF WorkLabels
<1>4. TokenIds' = TokenIds /\ DecisionIds' = DecisionIds /\ SameDecisions
  BY <1>1 DEF TokenIds, DecisionIds, SameDecisions
<1>. HIDE DEF d
<1>5. /\ approvals'[d].state = "GRANTED"
      /\ \A c \in DecisionIds \ {d} : approvals'[c] = approvals[c]
  BY <1>1, <1>2, DecideDoes
<1>6. DecisionsStick /\ AllowedNext(d) /\ ~ Allowed(d)
  BY <1>1, <1>2, <1>4, <1>5 DEF DecisionsStick, Allowed, AllowedNext
<1>7. DecisionInv'
  BY <1>1, <1>2, <1>3, <1>4, WorkerFacts, DecisionInvMove DEF WorkLabels, d
<1>8. MintInv'
  BY <1>1, <1>3, <1>6, MintInvMove DEF WorkLabels, d
<1>9. BrokerInv'
  <2>1. capability_epoch \in Nat /\ capability_epoch <= capability_epoch
    BY DEF TypeOK
  <2>. QED
    BY <1>1, <1>4, <2>1, BrokerInvStay
<1>10. GateInv'
  BY <1>1, <1>3, <1>4, WorkerFacts, GateInvMove DEF WorkLabels
<1>. QED
  BY <1>7, <1>8, <1>9, <1>10

\* A mint produces the decision's first token, by OneMinter.
LEMMA MintKeeps ==
    ASSUME PlaneInv, NEW w \in Workers, Mint(w)
    PROVE  DecisionInv' /\ MintInv' /\ BrokerInv' /\ GateInv'
<1>. USE DEF PlaneInv, PlaneTypeOK
<1>. DEFINE t == NewToken(w)
            s == SubjectOf[work[w].envelope]
<1>1. /\ wpc[w] = "mint" /\ UNCHANGED <<nonces, mpc, med>> /\ UNCHANGED decisionVars
      /\ UNCHANGED <<decisions, approvals>> /\ UNCHANGED <<transitions, capability_epoch>>
  BY DEF Mint, requestVars, decisionVars, vars, engineVars
<1>2. /\ AddsToken(t) /\ t.decision = work[w].decision
      /\ t.subject = s /\ t.action = ActionOf[work[w].envelope]
      /\ t.since = work[w].since /\ t.until = Len(transitions[s])
  BY MintAdds
<1>3. /\ Moves(w, "present") /\ work'[w].envelope = work[w].envelope
      /\ work'[w].decision = work[w].decision /\ work'[w].since = work[w].since
  BY MintDoes DEF SameCall, SameDecision
<1>4. DecisionIds' = DecisionIds /\ SameDecisions
  BY <1>1 DEF DecisionIds, SameDecisions
<1>. HIDE DEF t
<1>5. /\ TokenIds' = TokenIds \cup {Len(tokens) + 1} /\ tokens'[Len(tokens) + 1] = t
      /\ counts'[Len(tokens) + 1] = 0 /\ effects'[Len(tokens) + 1] = 0
      /\ \A i \in TokenIds : /\ tokens'[i] = tokens[i] /\ counts'[i] = counts[i]
                             /\ effects'[i] = effects[i]
  <2>1. Len(tokens) \in Nat
    BY DEF StoresOK
  <2>2. 1..(Len(tokens) + 1) = 1..Len(tokens) \cup {Len(tokens) + 1}
    BY <2>1
  <2>3. TokenIds' = TokenIds \cup {Len(tokens) + 1}
    BY <1>2, <2>2 DEF AddsToken, TokenIds
  <2>. HIDE DEF PlaneInv, PlaneTypeOK
  <2>. QED
    BY <1>2, <2>3 DEF AddsToken
<1>6. DecisionInv'
  BY <1>1, <1>3, <1>4, WorkerFacts, DecisionInvMove DEF WorkLabels
<1>7. MintInv'
  BY <1>1, <1>2, <1>3, MintInvMint
<1>8. BrokerInv'
  <2>1. capability_epoch \in Nat /\ capability_epoch <= capability_epoch
    BY DEF TypeOK
  <2>. QED
    BY <1>1, <1>5, <2>1, BrokerInvStay
<1>9. GateInv'
  <2>1. /\ work[w].since <= Len(transitions[s])
        /\ Unblocked(s, work[w].since, Len(transitions[s]))
    BY <1>1, WorkerFacts
  <2>2. s \in Subjects /\ Len(transitions[s]) \in Nat
    BY <1>1, GateTypes DEF Subject
  <2>3. /\ t.until <= Len(transitions[t.subject])
        /\ Unblocked(t.subject, t.since, t.until)
    BY <1>2, <2>1, <2>2
  <2>. QED
    BY <1>1, <1>3, <1>5, <2>1, <2>3, GateInvMove DEF WorkLabels
<1>. QED
  BY <1>6, <1>7, <1>8, <1>9

\* Presenting the token and logging keep the invariant's parts.
LEMMA RecordKeeps ==
    ASSUME PlaneInv, NEW w \in Workers, Present(w) \/ RecordDecision(w)
    PROVE  DecisionInv' /\ MintInv' /\ BrokerInv' /\ GateInv'
<1>. USE DEF PlaneInv, PlaneTypeOK
<1>1. CASE Present(w)
  <2>1. /\ wpc[w] = "present" /\ Goto(w, "record") /\ UNCHANGED work /\ UNCHANGED vars
        /\ UNCHANGED <<nonces, decisions, approvals, tokens, counts, effects, mpc, med>>
    BY <1>1 DEF Present, requestVars, decisionVars, brokerVars
  <2>2. Moves(w, "record") /\ work'[w] = work[w]
    BY <2>1, GotoMoves DEF WorkLabels
  <2>. QED
    BY <2>1, <2>2, WorkerFacts, QuietMove DEF WorkLabels
<1>2. CASE RecordDecision(w)
  <2>1. /\ Moves(w, "idle") /\ SameDecisions
        /\ UNCHANGED <<nonces, approvals, tokens, counts, effects, mpc, med>>
        /\ UNCHANGED <<transitions, capability_epoch>>
    <3>1. Moves(w, "idle")
      BY <1>2, ReturnMoves DEF RecordDecision
    <3>2. SameDecisions
      BY <1>2, RecordDoes
    <3>3. /\ UNCHANGED <<nonces, approvals, tokens, counts, effects, mpc, med>>
          /\ UNCHANGED <<transitions, capability_epoch>>
      BY <1>2 DEF RecordDecision, requestVars, tokenVars, brokerVars, vars, engineVars
    <3>. QED
      BY <3>1, <3>2, <3>3
  <2>2. TokenIds' = TokenIds /\ DecisionIds' = DecisionIds
    BY <2>1 DEF TokenIds, DecisionIds, SameDecisions
  <2>3. DecisionsStick
    BY <2>1, <2>2 DEF DecisionsStick, SameDecisions, Allowed, AllowedNext
  <2>4. DecisionInv' /\ MintInv'
    BY <2>1, <2>3, DecisionInvMove, MintInvMove DEF WorkLabels
  <2>5. capability_epoch \in Nat /\ capability_epoch <= capability_epoch
    BY DEF TypeOK
  <2>6. BrokerInv' /\ GateInv'
    BY <2>1, <2>2, <2>5, BrokerInvStay, GateInvMove DEF WorkLabels
  <2>. QED
    BY <2>4, <2>6
<1>. QED
  BY <1>1, <1>2

\* A worker's step keeps the inductive invariant.
LEMMA WorkerKeepsInv ==
    ASSUME PlaneInv, NEW w \in Workers, WorkerBegins(w) \/ WorkerStep(w)
    PROVE  PlaneInv'
<1>1. UNCHANGED vars
  BY DEF WorkerBegins, WorkerStep, EvaluateStep, BeginEvaluate, BeginApprove, CommitReplay,
         RejectReplay, CheckSession, PolicyDenies, PolicyAllows, PolicyParks, Grant,
         ReadState, Gate, Mint, Present, RecordDecision
<1>2. EngineInv' /\ PlaneTypeOK'
  BY <1>1, StutterKeepsInv, WorkerKeepsType DEF PlaneInv
<1>3. DecisionInv' /\ MintInv' /\ BrokerInv' /\ GateInv'
  <2>1. CASE WorkerBegins(w)
    BY <2>1, BeginEvaluateKeeps, BeginApproveKeeps DEF WorkerBegins
  <2>2. CASE WorkerStep(w)
    <3>. DEFINE l == IF work[w].decision = 0 THEN "policy" ELSE "mint"
    <3>1. CASE Passes(w, "gate", l) /\ ~ Blocked(w)
      BY <3>1, PassesKeeps
    <3>2. CASE Passes(w, "session", "state") \/ Passes(w, "state", "gate")
      BY <3>2, PassesKeeps
    <3>3. CASE GivesUp(w) \/ CommitReplay(w) \/ PolicyAllows(w) \/ PolicyParks(w)
      BY <3>3, GivesUpKeeps, CommitReplayKeeps, PolicyDecidesKeeps
    <3>4. CASE Grant(w) /\ Decidable(work[w].decision, work[w].now)
      BY <3>4, GrantKeeps
    <3>5. CASE Mint(w) \/ Present(w) \/ RecordDecision(w)
      BY <3>5, MintKeeps, RecordKeeps
    <3>. QED
      BY <2>2, <3>1, <3>2, <3>3, <3>4, <3>5, WorkerStepKinds DEF PlaneInv
  <2>. QED
    BY <2>1, <2>2
<1>. QED
  BY <1>2, <1>3 DEF PlaneInv

\* Denying an approval keeps the inductive invariant.
LEMMA DenyKeepsInv ==
    ASSUME PlaneInv, NEW d \in DecisionIds, DenyApproval(d)
    PROVE  PlaneInv'
<1>. USE DEF PlaneInv
<1>1. /\ approvals' = [approvals EXCEPT ![d].state = "DENIED"]
      /\ approvals[d].state = "PENDING"
      /\ UNCHANGED <<nonces, decisions, tokens, counts, effects, mpc, med>>
      /\ UNCHANGED vars /\ UNCHANGED workerVars
  BY DEF DenyApproval, Decidable, requestVars, tokenVars, brokerVars
<1>2. EngineInv' /\ PlaneTypeOK'
  BY <1>1, StutterKeepsInv, DenyKeepsType
<1>. USE DEF PlaneTypeOK
<1>3. /\ approvals'[d].state = "DENIED"
      /\ \A c \in DecisionIds \ {d} : approvals'[c] = approvals[c]
  BY <1>1, DecideDoes
<1>4. UNCHANGED <<transitions, capability_epoch>>
  BY <1>1 DEF vars, engineVars
<1>5. TokenIds' = TokenIds /\ DecisionIds' = DecisionIds /\ SameDecisions
  BY <1>1 DEF TokenIds, DecisionIds, SameDecisions
<1>6. DecisionsStick
  BY <1>1, <1>3, <1>5 DEF DecisionsStick, Allowed, AllowedNext
<1>7. DecisionInv' /\ MintInv'
  BY <1>1, <1>5, <1>6, DecisionInvStay, MintInvStay
<1>8. BrokerInv'
  <2>1. capability_epoch \in Nat /\ capability_epoch <= capability_epoch
    BY DEF TypeOK
  <2>. QED
    BY <1>1, <1>4, <1>5, <2>1, BrokerInvStay
<1>9. GateInv'
  <2>1. TransitionsGrow
    BY <1>4 DEF TransitionsGrow, TypeOK
  <2>. QED
    BY <1>1, <1>2, <2>1, GateInvStay
<1>. QED
  BY <1>2, <1>7, <1>8, <1>9

\* A mediation's step keeps the inductive invariant.
LEMMA MediatorKeepsInv ==
    ASSUME PlaneInv, NEW m \in Mediators, MediatorBegins(m) \/ MediatorStep(m)
    PROVE  PlaneInv'
<1>. USE DEF PlaneInv
<1>1. /\ UNCHANGED <<nonces, decisions, approvals, tokens>>
      /\ UNCHANGED vars /\ UNCHANGED workerVars
  BY MediatorFrame
<1>2. EngineInv' /\ PlaneTypeOK' /\ BrokerInv'
  BY <1>1, StutterKeepsInv, MediatorKeepsType, MediatorKeepsBrokers
<1>. USE DEF PlaneTypeOK
<1>3. DecisionIds' = DecisionIds /\ SameDecisions
  BY <1>1 DEF DecisionIds, SameDecisions
<1>4. DecisionsStick
  BY <1>1, <1>3 DEF DecisionsStick, Allowed, AllowedNext
<1>5. DecisionInv' /\ MintInv'
  BY <1>1, <1>3, <1>4, DecisionInvStay, MintInvStay
<1>6. GateInv'
  <2>1. TransitionsGrow
    BY <1>1 DEF TransitionsGrow, TypeOK, vars, engineVars
  <2>. QED
    BY <1>1, <1>2, <2>1, GateInvStay
<1>. QED
  BY <1>2, <1>5, <1>6

\* The engine, the clock, or nothing moves.
LEMMA EngineMoveKeepsInv ==
    ASSUME PlaneInv, EngineInv', TransitionsGrow, capability_epoch <= capability_epoch',
           UNCHANGED planeVars
    PROVE  PlaneInv'
<1>. USE DEF PlaneInv
<1>1. /\ UNCHANGED <<nonces, decisions, approvals, tokens, counts, effects, mpc, med>>
      /\ UNCHANGED workerVars
  BY DEF planeVars, requestVars, decisionVars, tokenVars, brokerVars
<1>2. TypeOK'
  BY DEF EngineInv
<1>3. PlaneTypeOK'
  BY <1>2, FrameKeepsType
<1>. USE DEF PlaneTypeOK
<1>4. TokenIds' = TokenIds /\ DecisionIds' = DecisionIds /\ SameDecisions
  BY <1>1 DEF TokenIds, DecisionIds, SameDecisions
<1>5. DecisionsStick
  BY <1>1, <1>4 DEF DecisionsStick, Allowed, AllowedNext
<1>6. DecisionInv' /\ MintInv'
  BY <1>1, <1>4, <1>5, DecisionInvStay, MintInvStay
<1>7. BrokerInv'
  <2>1. capability_epoch \in Nat /\ capability_epoch' \in Nat
    BY <1>2 DEF TypeOK
  <2>. QED
    BY <1>1, <1>4, <2>1, BrokerInvStay
<1>8. GateInv'
  BY <1>1, <1>2, GateInvStay
<1>. QED
  BY <1>3, <1>6, <1>7, <1>8

\* Every step of the plane keeps the inductive invariant.
LEMMA PlaneNextKeepsInv == PlaneInv /\ [PlaneNext]_allVars => PlaneInv'
<1>. SUFFICES ASSUME PlaneInv, [PlaneNext]_allVars PROVE PlaneInv'
  OBVIOUS
<1>1. CASE \E w \in Workers : WorkerBegins(w) \/ WorkerStep(w)
  BY <1>1, WorkerKeepsInv
<1>2. CASE \E d \in DecisionIds : DenyApproval(d)
  BY <1>2, DenyKeepsInv
<1>3. CASE \E m \in Mediators : MediatorBegins(m) \/ MediatorStep(m)
  BY <1>3, MediatorKeepsInv
<1>4. CASE \E t \in Threads : ContainmentStep(t)
  BY <1>4, ContainmentKeepsInv, ContainmentGrows, EngineMoveKeepsInv DEF PlaneInv
<1>5. ASSUME UNCHANGED <<transitions, capability_epoch>>
      PROVE  TransitionsGrow /\ capability_epoch <= capability_epoch'
  BY <1>5 DEF TransitionsGrow, PlaneInv, PlaneTypeOK, TypeOK
<1>6. CASE Tick /\ UNCHANGED planeVars
  <2>1. UNCHANGED <<transitions, capability_epoch>> /\ EngineInv'
    BY <1>6, TickKeepsInv DEF Tick, engineVars, PlaneInv
  <2>. QED
    BY <1>5, <1>6, <2>1, EngineMoveKeepsInv
<1>7. CASE UNCHANGED allVars
  <2>1. UNCHANGED vars /\ UNCHANGED planeVars /\ UNCHANGED <<transitions, capability_epoch>>
    BY <1>7 DEF allVars, vars, engineVars
  <2>2. EngineInv'
    BY <2>1, StutterKeepsInv DEF PlaneInv
  <2>. QED
    BY <1>5, <2>1, <2>2, EngineMoveKeepsInv
<1>. QED
  BY <1>1, <1>2, <1>3, <1>4, <1>6, <1>7 DEF PlaneNext, PlaneIdle

\* The inductive invariant holds initially.
LEMMA PlaneInitInv == PlaneInit => PlaneInv
<1>. SUFFICES ASSUME PlaneInit PROVE PlaneInv
  OBVIOUS
<1>. USE DEF PlaneInit
<1>1. EngineInv
  BY InitEngineInv
<1>2. DecisionIds = {} /\ TokenIds = {}
  BY DEF DecisionIds, TokenIds
<1>3. StoresOK
  BY <1>2 DEF StoresOK
<1>4. WorkersOK
  BY DEF WorkersOK, WorkLabels
<1>5. BrokersOK
  BY DEF BrokersOK, MediationLabels
<1>6. PlaneTypeOK
  BY <1>1, <1>3, <1>4, <1>5 DEF PlaneTypeOK, EngineInv
<1>7. DecisionInv /\ MintInv
  BY <1>2 DEF DecisionInv, WorkersAgree, OneDecision, OneDecider, Undecided,
              MintInv, OneMinter, OneToken, ApprovalRespected, Minting
<1>8. BrokerInv
  BY <1>2 DEF BrokerInv, ClaimedFirst, Validated, OneExecutor
<1>9. GateInv
  BY <1>2 DEF GateInv
<1>. QED
  BY <1>1, <1>6, <1>7, <1>8, <1>9 DEF PlaneInv

-----------------------------------------------------------------------------
(***************************************************************************)
(* Theorems.                                                               *)
(***************************************************************************)

\* The inductive invariant of the pipeline.
THEOREM PlaneInvariant == PlaneSpec => []PlaneInv
  BY PlaneInitInv, PlaneNextKeepsInv, PTL DEF PlaneSpec

\* Every variable of the pipeline keeps its type, and no store refers to a
\* decision or a token that does not exist.
THEOREM PlaneTypeCorrect == PlaneSpec => []PlaneTypeOK
<1>1. PlaneInv => PlaneTypeOK
  BY DEF PlaneInv
<1>. QED
  BY <1>1, PlaneInvariant, PTL

\* A signed request yields at most one token, however many workers get it and
\* however often its decision is approved (evaluate, approve).
THEOREM OneTokenPerEnvelopeHolds == PlaneSpec => []OneTokenPerEnvelope
<1>1. PlaneInv => OneTokenPerEnvelope
  <2>. SUFFICES ASSUME PlaneInv, NEW i \in TokenIds, NEW j \in TokenIds,
                       decisions[tokens[i].decision].envelope
                          = decisions[tokens[j].decision].envelope
                PROVE  i = j
    BY DEF OneTokenPerEnvelope
  <2>1. tokens[i].decision \in DecisionIds /\ tokens[j].decision \in DecisionIds
    BY DEF PlaneInv, PlaneTypeOK, StoresOK
  <2>2. tokens[i].decision = tokens[j].decision
    BY <2>1 DEF PlaneInv, DecisionInv, OneDecision
  <2>. QED
    BY <2>2 DEF PlaneInv, MintInv, OneToken
<1>. QED
  BY <1>1, PlaneInvariant, PTL

\* No token exists for a decision that waits for a human or was refused by one
\* (ApprovalStore.grant, deny and assert_granted).
THEOREM ApprovalRespectedHolds == PlaneSpec => []ApprovalRespected
<1>1. PlaneInv => ApprovalRespected
  BY DEF PlaneInv, MintInv
<1>. QED
  BY <1>1, PlaneInvariant, PTL

\* However many brokers race for a token, its action is performed at most once
\* (TokenUseTracker.consume before _execute).
THEOREM SingleUseHolds == PlaneSpec => []SingleUse
<1>1. PlaneInv => SingleUse
  <2>. SUFFICES ASSUME PlaneInv, NEW i \in TokenIds PROVE effects[i] <= 1
    BY DEF SingleUse
  <2>1. counts[i] \in Nat /\ effects[i] \in Nat
    BY DEF PlaneInv, PlaneTypeOK, StoresOK, TokenIds
  <2>. QED
    BY <2>1 DEF PlaneInv, BrokerInv, ClaimedFirst
<1>. QED
  BY <1>1, PlaneInvariant, PTL

\* What a broker performs was authorized for that subject, action and time, by
\* the decision behind the token it found (DecisionTokenValidator.validate).
THEOREM EffectAuthorizedHolds == PlaneSpec => []EffectAuthorized
<1>1. PlaneInv => EffectAuthorized
  <2>. SUFFICES ASSUME PlaneInv, NEW m \in Mediators, mpc[m] = "receipt"
                PROVE  LET t == tokens[med[m].token] IN
                       /\ SubjectOf[decisions[t.decision].envelope] = med[m].subject
                       /\ ActionOf[decisions[t.decision].envelope] = med[m].action
                       /\ t.not_before <= med[m].now /\ med[m].now < t.expires_at
    BY DEF EffectAuthorized
  <2>1. med[m].token \in TokenIds
    BY DEF PlaneInv, PlaneTypeOK, BrokersOK
  <2>2. Matches(m, med[m].token)
    BY DEF PlaneInv, BrokerInv, Validated
  <2>. QED
    BY <2>1, <2>2 DEF PlaneInv, MintInv, OneToken, Matches
<1>. QED
  BY <1>1, PlaneInvariant, PTL

\* A mediation that began after the epoch moved performs nothing under a token
\* from before (validator step 6, _bump_capability_epoch).
THEOREM OldTokensStayDeadHolds == PlaneSpec => []OldTokensStayDead
<1>1. PlaneInv => OldTokensStayDead
  BY DEF PlaneInv, BrokerInv, Validated, OldTokensStayDead
<1>. QED
  BY <1>1, PlaneInvariant, PTL

\* Every token's subject was not blocked at some moment of the call that minted
\* it, although the engine moves between the gate and the minting.
THEOREM GateHeldOnceHolds == PlaneSpec => []GateHeldOnce
<1>1. PlaneInv => GateHeldOnce
  BY DEF PlaneInv, GateInv, GateHeldOnce, Unblocked
<1>. QED
  BY <1>1, PlaneInvariant, PTL

-----------------------------------------------------------------------------
(***************************************************************************)
(* The books balance: mediations against receipts, effects against both.   *)
(***************************************************************************)

Busy == {m \in Mediators : mpc[m] # "idle"}
Receipting == {m \in Mediators : mpc[m] = "receipt"}
Performed == {i \in TokenIds : effects[i] > 0}

\* The sets AuditComplete counts are finite.
LEMMA AuditTypes ==
    ASSUME PlaneTypeOK
    PROVE  /\ IsFiniteSet(Busy) /\ IsFiniteSet(Receipting) /\ IsFiniteSet(Performed)
           /\ Cardinality(Busy) \in Nat /\ Cardinality(Receipting) \in Nat
           /\ Cardinality(Performed) \in Nat
           /\ receipts["EXECUTED"] \in Nat /\ receipts["FAILED"] \in Nat
           /\ receipts["DENIED"] \in Nat /\ mediations \in Nat
<1>1. IsFiniteSet(Busy) /\ IsFiniteSet(Receipting)
  <2>1. Busy \in SUBSET Mediators /\ Receipting \in SUBSET Mediators
    BY DEF Busy, Receipting
  <2>. QED
    BY <2>1, PlaneAssumption, FS_Subset
<1>2. IsFiniteSet(Performed)
  <2>1. Len(tokens) \in Nat
    BY DEF PlaneTypeOK, StoresOK
  <2>2. IsFiniteSet(1..Len(tokens))
    BY <2>1, FS_Interval
  <2>3. Performed \in SUBSET (1..Len(tokens))
    BY DEF Performed, TokenIds
  <2>. QED
    BY <2>2, <2>3, FS_Subset
<1>. QED
  BY <1>1, <1>2, FS_CardinalityType DEF PlaneTypeOK, BrokersOK, Outcomes

\* Adding and removing one element, counted.
LEMMA CountOne ==
    ASSUME NEW S, IsFiniteSet(S), NEW x
    PROVE  /\ Cardinality(S \cup {x}) = Cardinality(S) + (IF x \in S THEN 0 ELSE 1)
           /\ Cardinality(S \ {x}) = Cardinality(S) - (IF x \in S THEN 1 ELSE 0)
<1>1. Cardinality(S) \in Nat
  BY FS_CardinalityType
<1>2. Cardinality(S \cup {x}) = IF x \in S THEN Cardinality(S) ELSE Cardinality(S) + 1
  BY FS_AddElement
<1>3. Cardinality(S \ {x}) = IF x \in S THEN Cardinality(S) - 1 ELSE Cardinality(S)
  BY FS_RemoveElement
<1>. QED
  BY <1>1, <1>2, <1>3

\* A broker moves to label l.
LEMMA BrokerSets ==
    ASSUME PlaneTypeOK, NEW m \in Mediators, NEW l \in MediationLabels, MovesBroker(m, l)
    PROVE  /\ Cardinality(Busy') = Cardinality(Busy)
                 + (IF m \notin Busy /\ l # "idle" THEN 1 ELSE 0)
                 - (IF m \in Busy /\ l = "idle" THEN 1 ELSE 0)
           /\ Cardinality(Receipting') = Cardinality(Receipting)
                 + (IF m \notin Receipting /\ l = "receipt" THEN 1 ELSE 0)
                 - (IF m \in Receipting /\ l # "receipt" THEN 1 ELSE 0)
<1>1. /\ IsFiniteSet(Busy) /\ IsFiniteSet(Receipting)
      /\ Cardinality(Busy) \in Nat /\ Cardinality(Receipting) \in Nat
  BY AuditTypes
<1>2. Busy' = IF l = "idle" THEN Busy \ {m} ELSE Busy \cup {m}
  BY DEF Busy, MovesBroker
<1>3. Receipting' = IF l = "receipt" THEN Receipting \cup {m} ELSE Receipting \ {m}
  BY DEF Receipting, MovesBroker
<1>4. /\ Cardinality(Busy \cup {m}) = Cardinality(Busy) + (IF m \in Busy THEN 0 ELSE 1)
      /\ Cardinality(Busy \ {m}) = Cardinality(Busy) - (IF m \in Busy THEN 1 ELSE 0)
  BY <1>1, CountOne
<1>5. /\ Cardinality(Receipting \cup {m})
            = Cardinality(Receipting) + (IF m \in Receipting THEN 0 ELSE 1)
      /\ Cardinality(Receipting \ {m})
            = Cardinality(Receipting) - (IF m \in Receipting THEN 1 ELSE 0)
  BY <1>1, CountOne
<1>6. Cardinality(Busy') = Cardinality(Busy)
                 + (IF m \notin Busy /\ l # "idle" THEN 1 ELSE 0)
                 - (IF m \in Busy /\ l = "idle" THEN 1 ELSE 0)
  BY <1>1, <1>2, <1>4
<1>7. Cardinality(Receipting') = Cardinality(Receipting)
                 + (IF m \notin Receipting /\ l = "receipt" THEN 1 ELSE 0)
                 - (IF m \in Receipting /\ l # "receipt" THEN 1 ELSE 0)
  BY <1>1, <1>3, <1>5
<1>. QED
  BY <1>6, <1>7

\* The property, in terms of these sets.
Balanced(b, r, p) ==
    /\ mediations = receipts["EXECUTED"] + receipts["FAILED"] + receipts["DENIED"] + b
    /\ receipts["EXECUTED"] + r <= p
    /\ p <= receipts["EXECUTED"] + r + receipts["FAILED"]

\* AuditComplete as an equation between numbers.
LEMMA AuditBalanced ==
    AuditComplete <=> Balanced(Cardinality(Busy), Cardinality(Receipting), Cardinality(Performed))
  BY DEF AuditComplete, Balanced, Busy, Receipting, Performed

\* The receipts and the calls of the next state balance with b, r and p.
BalancedNext(b, r, p) ==
    /\ mediations' = receipts'["EXECUTED"] + receipts'["FAILED"] + receipts'["DENIED"] + b
    /\ receipts'["EXECUTED"] + r <= p
    /\ p <= receipts'["EXECUTED"] + r + receipts'["FAILED"]

\* The same equation in the next state.
LEMMA AuditBalancedNext ==
    BalancedNext(Cardinality(Busy'), Cardinality(Receipting'), Cardinality(Performed'))
       => AuditComplete'
  BY DEF AuditComplete, BalancedNext, Busy, Receipting, Performed

\* Nothing the books record changes.
LEMMA AuditStay ==
    ASSUME AuditComplete, UNCHANGED <<mpc, mediations, receipts>>, Performed' = Performed
    PROVE  AuditComplete'
  BY DEF AuditComplete, Performed

\* A mediation's step keeps the books balanced.
LEMMA MediatorKeepsAudit ==
    ASSUME PlaneInv, AuditComplete, NEW m \in Mediators, MediatorBegins(m) \/ MediatorStep(m)
    PROVE  AuditComplete'
<1>. DEFINE b == Cardinality(Busy)
            r == Cardinality(Receipting)
            p == Cardinality(Performed)
            x == receipts["EXECUTED"]
            f == receipts["FAILED"]
            d == receipts["DENIED"]
<1>1. /\ b \in Nat /\ r \in Nat /\ p \in Nat /\ x \in Nat /\ f \in Nat /\ d \in Nat
      /\ mediations \in Nat /\ IsFiniteSet(Performed)
      /\ mediations = x + f + d + b /\ x + r <= p /\ p <= x + r + f
  BY AuditTypes, AuditBalanced DEF Balanced, PlaneInv
<1>2. /\ (m \in Busy <=> mpc[m] # "idle") /\ (m \in Receipting <=> mpc[m] = "receipt")
      /\ TokenIds' = TokenIds
  BY MediatorFrame DEF Busy, Receipting, TokenIds
<1>3. UNCHANGED effects => Performed' = Performed
  BY <1>2 DEF Performed
<1>. DEFINE b1 == Cardinality(Busy')
            r1 == Cardinality(Receipting')
            p1 == Cardinality(Performed')
<1>4. ASSUME NEW l \in MediationLabels, MovesBroker(m, l)
      PROVE  /\ b1 = b + (IF mpc[m] = "idle" /\ l # "idle" THEN 1 ELSE 0)
                       - (IF mpc[m] # "idle" /\ l = "idle" THEN 1 ELSE 0)
             /\ r1 = r + (IF mpc[m] # "receipt" /\ l = "receipt" THEN 1 ELSE 0)
                       - (IF mpc[m] = "receipt" /\ l # "receipt" THEN 1 ELSE 0)
  BY <1>2, <1>4, BrokerSets DEF PlaneInv
<1>5. UNCHANGED effects => p1 = p
  BY <1>3
<1>. HIDE DEF b, r, p, b1, r1, p1
<1>. SUFFICES BalancedNext(b1, r1, p1)
  BY AuditBalancedNext DEF b1, r1, p1
<1>a. BrokersOK
  BY DEF PlaneInv, PlaneTypeOK
<1>6. CASE MediatorBegins(m)
  <2>1. PICK s \in Subjects, a \in Actions : BeginMediate(m, s, a)
    BY <1>6 DEF MediatorBegins
  <2>2. UNCHANGED <<effects, receipts>> /\ mediations' = mediations + 1 /\ mpc[m] = "idle"
    BY <2>1 DEF BeginMediate
  <2>3. MovesBroker(m, "lookup")
    BY <2>1, BeginMediateDoes DEF PlaneInv, PlaneTypeOK
  <2>4. b1 = b + 1 /\ r1 = r /\ p1 = p
    BY <1>1, <1>4, <1>5, <2>2, <2>3 DEF MediationLabels
  <2>. QED
    BY <1>1, <2>2, <2>4 DEF BalancedNext
<1>7. CASE Denied(m)
  <2>1. MovesBroker(m, "idle") /\ receipts'["DENIED"] = d + 1
        /\ receipts'["EXECUTED"] = x /\ receipts'["FAILED"] = f
        /\ UNCHANGED <<effects, mediations>> /\ mpc[m] \in {"lookup", "epoch", "consume"}
    BY <1>7, <1>a, EmitDoes DEF Denied, Outcomes
  <2>2. b1 = b - 1 /\ r1 = r /\ p1 = p
    BY <1>1, <1>4, <1>5, <2>1 DEF MediationLabels
  <2>. QED
    BY <1>1, <2>1, <2>2 DEF BalancedNext
<1>8. ASSUME NEW l \in {"epoch", "consume", "execute"}, MovesBroker(m, l),
             UNCHANGED <<effects, mediations, receipts>>,
             mpc[m] \in {"lookup", "epoch", "consume"}
      PROVE  BalancedNext(b1, r1, p1)
  <2>1. b1 = b /\ r1 = r /\ p1 = p
    BY <1>1, <1>4, <1>5, <1>8 DEF MediationLabels
  <2>. QED
    BY <1>1, <1>8, <2>1 DEF BalancedNext
<1>9. CASE /\ mpc[m] = "lookup" /\ Takes(m, store[med[m].action])
           /\ UNCHANGED <<counts, mediations, effects>>
  BY <1>8, <1>9 DEF Takes
<1>10. CASE CheckEpoch(m) /\ EpochFresh(m)
  BY <1>8, <1>10, <1>a, GotoBroker DEF CheckEpoch, MediationLabels
<1>11. CASE Consume(m) /\ Unused(m)
  BY <1>8, <1>11, <1>a, GotoBroker DEF Consume, MediationLabels
<1>12. ASSUME mpc[m] = "execute", effects' = [effects EXCEPT ![med[m].token] = @ + 1]
       PROVE  p1 = p + 1
  <2>. DEFINE i == med[m].token
  <2>1. i \in TokenIds /\ effects[i] = 0
    BY <1>12 DEF PlaneInv, PlaneTypeOK, BrokersOK, BrokerInv, OneExecutor
  <2>2. effects'[i] = effects[i] + 1 /\ \A j \in TokenIds \ {i} : effects'[j] = effects[j]
    BY <1>12, <2>1, CountUp DEF PlaneInv, PlaneTypeOK
  <2>. HIDE DEF i
  <2>3. i \notin Performed /\ Performed' = Performed \cup {i}
    BY <1>2, <2>1, <2>2 DEF Performed
  <2>4. Cardinality(Performed \cup {i}) = Cardinality(Performed) + 1
    BY <1>1, <2>3, FS_AddElement
  <2>. QED
    BY <2>3, <2>4 DEF p, p1
<1>13. CASE Execute(m)
  <2>1. mpc[m] = "execute" /\ mpc' = [mpc EXCEPT ![m] = "receipt"]
        /\ effects' = [effects EXCEPT ![med[m].token] = @ + 1]
        /\ UNCHANGED <<med, receipts, mediations>>
    BY <1>13 DEF Execute
  <2>2. MovesBroker(m, "receipt")
    BY <1>a, <2>1, GotoBroker DEF MediationLabels
  <2>3. b1 = b /\ r1 = r + 1 /\ p1 = p + 1
    BY <1>1, <1>4, <1>12, <2>1, <2>2 DEF MediationLabels
  <2>. QED
    BY <1>1, <2>1, <2>3 DEF BalancedNext
<1>14. CASE ExecuteFails(m)
  <2>1. mpc[m] = "execute" /\ Emit(m, "FAILED") /\ UNCHANGED mediations
        /\ (effects' = [effects EXCEPT ![med[m].token] = @ + 1] \/ UNCHANGED effects)
    BY <1>14 DEF ExecuteFails
  <2>2. MovesBroker(m, "idle") /\ receipts'["FAILED"] = f + 1
        /\ receipts'["EXECUTED"] = x /\ receipts'["DENIED"] = d
    BY <1>a, <2>1, EmitDoes DEF Outcomes
  <2>3. b1 = b - 1 /\ r1 = r
    BY <1>1, <1>4, <2>1, <2>2 DEF MediationLabels
  <2>4. p1 = p \/ p1 = p + 1
    BY <1>5, <1>12, <2>1
  <2>5. mediations' = mediations
    BY <2>1
  <2>. QED
    BY <1>1, <2>2, <2>3, <2>4, <2>5 DEF BalancedNext
<1>15. CASE EndMediate(m)
  <2>1. mpc[m] = "receipt" /\ Emit(m, "EXECUTED") /\ UNCHANGED <<effects, mediations>>
    BY <1>15 DEF EndMediate, EmitExecuted
  <2>2. MovesBroker(m, "idle") /\ receipts'["EXECUTED"] = x + 1
        /\ receipts'["FAILED"] = f /\ receipts'["DENIED"] = d
    BY <1>a, <2>1, EmitDoes DEF Outcomes
  <2>3. b1 = b - 1 /\ r1 = r - 1 /\ p1 = p
    BY <1>1, <1>4, <1>5, <2>1, <2>2 DEF MediationLabels
  <2>. QED
    BY <1>1, <2>1, <2>2, <2>3 DEF BalancedNext
<1>. QED
  BY <1>6, <1>7, <1>9, <1>10, <1>11, <1>13, <1>14, <1>15, MediatorStepKinds DEF PlaneInv

\* A worker's step leaves the books alone; what it mints is unused.
LEMMA WorkerKeepsAudit ==
    ASSUME PlaneInv, AuditComplete, NEW w \in Workers, WorkerBegins(w) \/ WorkerStep(w)
    PROVE  AuditComplete'
<1>1. CASE Mint(w)
  <2>1. UNCHANGED <<mpc, mediations, receipts>>
    BY <1>1 DEF Mint
  <2>2. AddsToken(NewToken(w))
    BY <1>1, MintAdds DEF PlaneInv, PlaneTypeOK
  <2>3. /\ TokenIds' = TokenIds \cup {Len(tokens) + 1}
        /\ effects'[Len(tokens) + 1] = 0 /\ \A i \in TokenIds : effects'[i] = effects[i]
    <3>1. Len(tokens) \in Nat /\ Len(tokens') = Len(tokens) + 1
      BY <2>2 DEF AddsToken, PlaneInv, PlaneTypeOK, StoresOK
    <3>2. TokenIds' = TokenIds \cup {Len(tokens) + 1}
      BY <3>1 DEF TokenIds
    <3>. QED
      BY <2>2, <3>2 DEF AddsToken
  <2>4. Performed' = Performed
    BY <2>3 DEF Performed
  <2>. QED
    BY <2>1, <2>4, AuditStay
<1>2. CASE ~ Mint(w)
  <2>1. UNCHANGED <<mpc, mediations, receipts, tokens, effects>>
    BY <1>2 DEF WorkerBegins, WorkerStep, EvaluateStep, BeginEvaluate, BeginApprove,
         CommitReplay, RejectReplay, CheckSession, PolicyDenies, PolicyAllows, PolicyParks,
         Grant, ReadState, Gate, Present, RecordDecision, tokenVars, brokerVars
  <2>2. Performed' = Performed
    BY <2>1 DEF Performed, TokenIds
  <2>. QED
    BY <2>1, <2>2, AuditStay
<1>. QED
  BY <1>1, <1>2

\* Every step of the plane keeps the books balanced.
LEMMA PlaneNextKeepsAudit ==
    PlaneInv /\ AuditComplete /\ [PlaneNext]_allVars => AuditComplete'
<1>. SUFFICES ASSUME PlaneInv, AuditComplete, [PlaneNext]_allVars PROVE AuditComplete'
  OBVIOUS
<1>1. CASE \E w \in Workers : WorkerBegins(w) \/ WorkerStep(w)
  BY <1>1, WorkerKeepsAudit
<1>2. CASE \E m \in Mediators : MediatorBegins(m) \/ MediatorStep(m)
  BY <1>2, MediatorKeepsAudit
<1>3. ASSUME UNCHANGED brokerVars, UNCHANGED tokens PROVE AuditComplete'
  <2>1. Performed' = Performed /\ UNCHANGED <<mpc, mediations, receipts>>
    BY <1>3 DEF Performed, TokenIds, brokerVars
  <2>. QED
    BY <2>1, AuditStay
<1>4. CASE \E d \in DecisionIds : DenyApproval(d)
  BY <1>3, <1>4 DEF DenyApproval, tokenVars
<1>5. CASE UNCHANGED planeVars
  BY <1>3, <1>5 DEF planeVars, tokenVars
<1>. QED
  BY <1>1, <1>2, <1>4, <1>5 DEF PlaneNext, PlaneIdle, ContainmentStep, allVars

\* Every mediation that is over left one receipt and every effect is receipted,
\* however the brokers interleave and whether or not execution fails (mediate).
THEOREM AuditCompleteHolds == PlaneSpec => []AuditComplete
<1>1. PlaneInit => AuditComplete
  <2>. SUFFICES ASSUME PlaneInit PROVE AuditComplete
    OBVIOUS
  <2>1. Busy = {} /\ Receipting = {} /\ Performed = {}
    BY DEF PlaneInit, Busy, Receipting, Performed, TokenIds
  <2>2. Cardinality({}) = 0
    BY FS_EmptySet
  <2>3. mediations = 0 /\ receipts["EXECUTED"] = 0 /\ receipts["FAILED"] = 0
        /\ receipts["DENIED"] = 0
    BY DEF PlaneInit, Outcomes
  <2>. QED
    BY <2>1, <2>2, <2>3, AuditBalanced DEF Balanced
<1>2. PlaneInv /\ AuditComplete /\ [PlaneNext]_allVars => AuditComplete'
  BY PlaneNextKeepsAudit
<1>. QED
  BY <1>1, <1>2, PlaneInvariant, PTL DEF PlaneSpec

-----------------------------------------------------------------------------
(***************************************************************************)
(* The pipeline implements the lifecycle of a request's authority.         *)
(***************************************************************************)

\* What decides the phase of request e, and whether its action was performed.
HasToken(e) == TokensOf(e) # {}
IsSpent(e) == \E i \in TokensOf(e) : counts[i] > 0
IsPerformed(e) == \E i \in TokensOf(e) : effects[i] > 0
Has(e, st) == \E d \in DecisionsOf(e) : approvals[d].state = st

\* The lifecycle sees nothing of this step at request e.
Quiet(e) == PhaseOf(e)' = PhaseOf(e) /\ PerformedFor(e)' = PerformedFor(e)

\* The refinement mapping, by the facts it depends on.
LEMMA PhaseIs ==
    ASSUME NEW e \in Envelopes
    PROVE  PhaseOf(e) =
             IF HasToken(e) THEN IF IsSpent(e) THEN "spent" ELSE "granted"
             ELSE IF Has(e, "GRANTED") THEN "approved"
             ELSE IF Has(e, "DENIED") THEN "denied"
             ELSE IF Has(e, "PENDING") THEN "parked"
             ELSE IF e \in nonces THEN "accepted"
             ELSE "new"
  BY DEF PhaseOf, HasToken, IsSpent, Has

\* An action is performed at most once, so the number is 0 or 1.
LEMMA PerformedIs ==
    PlaneInv => \A e \in Envelopes : PerformedFor(e) = IF IsPerformed(e) THEN 1 ELSE 0
<1>. SUFFICES ASSUME PlaneInv, NEW e \in Envelopes
              PROVE  PerformedFor(e) = IF IsPerformed(e) THEN 1 ELSE 0
  OBVIOUS
<1>1. CASE ~ IsPerformed(e)
  BY <1>1 DEF PerformedFor, IsPerformed
<1>2. CASE IsPerformed(e)
  <2>. DEFINE i == CHOOSE i \in TokensOf(e) : effects[i] > 0
  <2>1. i \in TokensOf(e) /\ effects[i] > 0
    BY <1>2 DEF IsPerformed
  <2>2. PerformedFor(e) = effects[i]
    BY <1>2 DEF PerformedFor, IsPerformed
  <2>. HIDE DEF i
  <2>3. i \in TokenIds
    BY <2>1 DEF TokensOf
  <2>4. effects[i] \in Nat /\ counts[i] \in Nat
    BY <2>3 DEF PlaneInv, PlaneTypeOK, StoresOK, TokenIds
  <2>5. effects[i] = 1
    BY <2>1, <2>3, <2>4 DEF PlaneInv, BrokerInv, ClaimedFirst
  <2>. QED
    BY <1>2, <2>2, <2>5
<1>. QED
  BY <1>1, <1>2

\* The effects of an envelope in the next state: none or one.
LEMMA PerformedIsNext ==
    PlaneInv' => (\A e \in Envelopes : PerformedFor(e) = IF IsPerformed(e) THEN 1 ELSE 0)'
  BY PerformedIs, PTL

\* A step that is quiet for every envelope is a stutter of the life cycle.
LEMMA StutterStep ==
    ASSUME \A e \in Envelopes : Quiet(e)
    PROVE  UNCHANGED <<[e \in Envelopes |-> PhaseOf(e)], [e \in Envelopes |-> PerformedFor(e)]>>
  BY DEF Quiet

\* A step that moves one envelope along Moves is a step of the life cycle.
LEMMA AdvanceStep ==
    ASSUME NEW e \in Envelopes, NEW p, <<PhaseOf(e), p>> \in Lifecycle!Moves,
           PhaseOf(e)' = p, PerformedFor(e)' = PerformedFor(e),
           \A f \in Envelopes \ {e} : Quiet(f)
    PROVE  Lifecycle!LifecycleNext
<1>1. p \in Lifecycle!Phases
  BY DEF Lifecycle!Moves, Lifecycle!Phases
<1>2. [f \in Envelopes |-> PhaseOf(f)]' = [[f \in Envelopes |-> PhaseOf(f)] EXCEPT ![e] = p]
  BY DEF Quiet
<1>3. UNCHANGED [f \in Envelopes |-> PerformedFor(f)]
  BY DEF Quiet
<1>4. Lifecycle!Advance(e, p)
  BY <1>2, <1>3 DEF Lifecycle!Advance
<1>. QED
  BY <1>1, <1>4 DEF Lifecycle!LifecycleNext

\* A step that performs one spent envelope is a step of the life cycle.
LEMMA PerformStep ==
    ASSUME NEW e \in Envelopes, PhaseOf(e) = "spent", PhaseOf(e)' = PhaseOf(e),
           PerformedFor(e) = 0, PerformedFor(e)' = 1,
           \A f \in Envelopes \ {e} : Quiet(f)
    PROVE  Lifecycle!LifecycleNext
<1>1. UNCHANGED [f \in Envelopes |-> PhaseOf(f)]
  BY DEF Quiet
<1>2. [f \in Envelopes |-> PerformedFor(f)]'
         = [[f \in Envelopes |-> PerformedFor(f)] EXCEPT ![e] = 1]
  BY DEF Quiet
<1>3. Lifecycle!Perform(e)
  BY <1>1, <1>2 DEF Lifecycle!Perform
<1>. QED
  BY <1>3 DEF Lifecycle!LifecycleNext

\* The refinement mapping in the next state.
LEMMA PhaseIsNext ==
    ASSUME NEW e \in Envelopes
    PROVE  PhaseOf(e)' =
             IF HasToken(e)' THEN IF IsSpent(e)' THEN "spent" ELSE "granted"
             ELSE IF Has(e, "GRANTED")' THEN "approved"
             ELSE IF Has(e, "DENIED")' THEN "denied"
             ELSE IF Has(e, "PENDING")' THEN "parked"
             ELSE IF e \in nonces' THEN "accepted"
             ELSE "new"
  BY DEF PhaseOf, HasToken, IsSpent, Has

\* Request e keeps its token, and whether it was used.
SameTokens(e) ==
    /\ HasToken(e)' <=> HasToken(e)
    /\ IsSpent(e)' <=> IsSpent(e)
    /\ IsPerformed(e)' <=> IsPerformed(e)

\* Request e keeps the state of its approval.
SameApproval(e) ==
    /\ Has(e, "GRANTED")' <=> Has(e, "GRANTED")
    /\ Has(e, "DENIED")' <=> Has(e, "DENIED")
    /\ Has(e, "PENDING")' <=> Has(e, "PENDING")

\* An envelope whose token, approval and nonce stay is quiet.
LEMMA QuietBits ==
    ASSUME PlaneInv, PlaneInv', NEW e \in Envelopes, SameTokens(e), SameApproval(e),
           e \in nonces' <=> e \in nonces
    PROVE  Quiet(e)
<1>1. PhaseOf(e)' = PhaseOf(e)
  BY PhaseIs, PhaseIsNext DEF SameTokens, SameApproval
<1>2. PerformedFor(e)' = PerformedFor(e)
  BY PerformedIs, PerformedIsNext DEF SameTokens
<1>. QED
  BY <1>1, <1>2 DEF Quiet

\* Decisions may be added or recorded; tokens and their uses stay.
LEMMA TokensStay ==
    ASSUME StoresOK, DecisionsStick, NEW e \in Envelopes, UNCHANGED tokens,
           \A i \in TokensOf(e) : counts'[i] = counts[i] /\ effects'[i] = effects[i]
    PROVE  TokensOf(e)' = TokensOf(e) /\ SameTokens(e)
<1>1. TokensOf(e)' = TokensOf(e)
  BY DEF TokensOf, TokenIds, DecisionsStick, StoresOK
<1>. QED
  BY <1>1 DEF SameTokens, HasToken, IsSpent, IsPerformed

\* An envelope whose approvals keep their state keeps its approval phase.
LEMMA ApprovalStays ==
    ASSUME NEW e \in Envelopes, SameDecisions,
           \A d \in DecisionsOf(e) : approvals'[d].state = approvals[d].state
    PROVE  DecisionsOf(e)' = DecisionsOf(e) /\ SameApproval(e)
<1>1. DecisionsOf(e)' = DecisionsOf(e)
  BY DEF DecisionsOf, DecisionIds, SameDecisions
<1>. QED
  BY <1>1 DEF SameApproval, Has

\* A request that has no decision has no token.
LEMMA NoDecisionNoToken ==
    ASSUME StoresOK, NEW e \in Envelopes, DecisionsOf(e) = {}
    PROVE  ~ HasToken(e) /\ ~ Has(e, "GRANTED") /\ ~ Has(e, "DENIED") /\ ~ Has(e, "PENDING")
  BY DEF StoresOK, HasToken, TokensOf, DecisionsOf, Has

\* The decision about a request is the only one.
LEMMA OnlyDecision ==
    ASSUME PlaneInv, NEW e \in Envelopes, NEW d \in DecisionIds, decisions[d].envelope = e
    PROVE  DecisionsOf(e) = {d} /\ e \in nonces
  BY DEF PlaneInv, DecisionInv, OneDecision, DecisionsOf

\* The token of a request is the only one.
LEMMA OnlyToken ==
    ASSUME PlaneInv, NEW e \in Envelopes, NEW i \in TokenIds,
           decisions[tokens[i].decision].envelope = e
    PROVE  TokensOf(e) = {i}
<1>1. \A j \in TokenIds : tokens[j].decision \in DecisionIds
  BY DEF PlaneInv, PlaneTypeOK, StoresOK
<1>2. ASSUME NEW j \in TokenIds, decisions[tokens[j].decision].envelope = e
      PROVE  j = i
  <2>1. tokens[i].decision = tokens[j].decision
    BY <1>1, <1>2 DEF PlaneInv, DecisionInv, OneDecision
  <2>. QED
    BY <2>1 DEF PlaneInv, MintInv, OneToken
<1>. QED
  BY <1>2 DEF TokensOf

\* Neither nonces nor decisions, approvals, tokens, uses or effects change.
LEMMA QuietStep ==
    ASSUME PlaneInv, PlaneInv', SameDecisions,
           UNCHANGED <<nonces, approvals, tokens, counts, effects>>
    PROVE  \A e \in Envelopes : Quiet(e)
<1>1. StoresOK /\ DecisionIds' = DecisionIds
  BY DEF PlaneInv, PlaneTypeOK, SameDecisions, DecisionIds
<1>2. DecisionsStick
  BY <1>1 DEF DecisionsStick, SameDecisions, Allowed, AllowedNext
<1>3. ASSUME NEW e \in Envelopes PROVE Quiet(e)
  <2>1. SameTokens(e) /\ SameApproval(e)
    BY <1>1, <1>2, TokensStay, ApprovalStays
  <2>. QED
    BY <2>1, QuietBits
<1>. QED
  BY <1>3

\* check_and_commit: a request becomes accepted.
LEMMA CommitReplayRefines ==
    ASSUME PlaneInv, PlaneInv', NEW w \in Workers, CommitReplay(w)
    PROVE  Lifecycle!LifecycleNext
<1>. USE DEF PlaneInv, PlaneTypeOK
<1>1. /\ wpc[w] = "replay" /\ work[w].envelope \notin nonces
      /\ nonces' = nonces \cup {work[w].envelope}
      /\ UNCHANGED <<decisions, approvals, tokens, counts, effects>>
  BY DEF CommitReplay, IsFresh, decisionVars, tokenVars, brokerVars
<1>2. PICK e \in Envelopes : e = work[w].envelope
  BY <1>1 DEF WorkersOK, Work
<1>3. SameDecisions /\ DecisionIds' = DecisionIds
  BY <1>1 DEF SameDecisions, DecisionIds
<1>4. DecisionsStick
  BY <1>1, <1>3 DEF DecisionsStick, Allowed, AllowedNext
<1>5. \A f \in Envelopes : SameTokens(f) /\ SameApproval(f)
  BY <1>1, <1>3, <1>4, TokensStay, ApprovalStays
<1>6. \A f \in Envelopes \ {e} : Quiet(f)
  BY <1>1, <1>2, <1>5, QuietBits
<1>7. DecisionsOf(e) = {}
  BY <1>1, <1>2 DEF DecisionInv, OneDecision, DecisionsOf
<1>8. ~ HasToken(e) /\ ~ Has(e, "GRANTED") /\ ~ Has(e, "DENIED") /\ ~ Has(e, "PENDING")
  BY <1>7, NoDecisionNoToken
<1>9. PhaseOf(e) = "new" /\ PhaseOf(e)' = "accepted"
  BY <1>1, <1>2, <1>5, <1>8, PhaseIs, PhaseIsNext DEF SameTokens, SameApproval
<1>10. PerformedFor(e)' = PerformedFor(e)
  BY <1>5, PerformedIs, PerformedIsNext DEF SameTokens
<1>11. <<"new", "accepted">> \in Lifecycle!Moves
  BY DEF Lifecycle!Moves
<1>. QED
  BY <1>6, <1>9, <1>10, <1>11, AdvanceStep

\* The policy decides: a request is parked, or nothing is seen yet.
LEMMA PolicyRefines ==
    ASSUME PlaneInv, PlaneInv', NEW w \in Workers, PolicyAllows(w) \/ PolicyParks(w)
    PROVE  Lifecycle!LifecycleNext \/ \A e \in Envelopes : Quiet(e)
<1>. USE DEF PlaneInv, PlaneTypeOK
<1>1. /\ wpc[w] = "policy" /\ UNCHANGED <<nonces, tokens, counts, effects>>
  BY DEF PolicyAllows, PolicyParks, requestVars, tokenVars, brokerVars
<1>2. PICK e \in Envelopes : e = work[w].envelope
  BY <1>1 DEF WorkersOK, Work
<1>3. e \in nonces /\ DecisionsOf(e) = {}
  <2>1. Undecided(w)
    BY <1>1 DEF Undecided, DecisionInv, WorkersAgree
  <2>. QED
    BY <1>2, <2>1 DEF DecisionInv, OneDecider, DecisionsOf
<1>4. PICK st \in {"NONE", "PENDING"} : AddsDecision(e, st)
  BY <1>2, PolicyAllowsAdds, PolicyParksAdds
<1>5. PICK k : /\ DecisionIds' = DecisionIds \cup {k} /\ k \notin DecisionIds
               /\ \A d \in DecisionIds : /\ decisions'[d].envelope = decisions[d].envelope
                                         /\ approvals'[d] = approvals[d]
               /\ decisions'[k].envelope = e /\ approvals'[k].state = st
  <2>1. Len(decisions) \in Nat
    BY DEF StoresOK
  <2>2. DecisionIds' = DecisionIds \cup {Len(decisions) + 1}
        /\ Len(decisions) + 1 \notin DecisionIds
    BY <1>4, <2>1 DEF AddsDecision, DecisionIds
  <2>. QED
    BY <1>4, <2>2 DEF AddsDecision
<1>6. DecisionsStick
  BY <1>5 DEF DecisionsStick, Allowed, AllowedNext
<1>7. \A f \in Envelopes : SameTokens(f)
  BY <1>1, <1>6, TokensStay
<1>8. \A f \in Envelopes \ {e} : DecisionsOf(f)' = DecisionsOf(f)
  BY <1>5 DEF DecisionsOf
<1>9. \A f \in Envelopes \ {e} : \A d \in DecisionsOf(f) : approvals'[d] = approvals[d]
  BY <1>5 DEF DecisionsOf
<1>10. \A f \in Envelopes \ {e} : SameApproval(f)
  BY <1>8, <1>9 DEF SameApproval, Has
<1>11. \A f \in Envelopes \ {e} : Quiet(f)
  BY <1>1, <1>7, <1>10, QuietBits
<1>12. DecisionsOf(e)' = {k}
  BY <1>3, <1>5 DEF DecisionsOf
<1>13. ~ HasToken(e) /\ ~ Has(e, "GRANTED") /\ ~ Has(e, "DENIED") /\ ~ Has(e, "PENDING")
  BY <1>3, NoDecisionNoToken
<1>14. /\ ~ Has(e, "GRANTED")' /\ ~ Has(e, "DENIED")'
       /\ (Has(e, "PENDING")' <=> st = "PENDING")
  BY <1>4, <1>5, <1>12 DEF Has
<1>15. CASE st = "NONE"
  <2>1. SameApproval(e)
    BY <1>13, <1>14, <1>15 DEF SameApproval
  <2>2. Quiet(e)
    BY <1>1, <1>7, <2>1, QuietBits
  <2>. QED
    BY <1>11, <2>2
<1>16. CASE st = "PENDING"
  <2>1. PhaseOf(e) = "accepted" /\ PhaseOf(e)' = "parked"
    BY <1>3, <1>7, <1>13, <1>14, <1>16, PhaseIs, PhaseIsNext DEF SameTokens
  <2>2. PerformedFor(e)' = PerformedFor(e)
    BY <1>7, PerformedIs, PerformedIsNext DEF SameTokens
  <2>3. <<"accepted", "parked">> \in Lifecycle!Moves
    BY DEF Lifecycle!Moves
  <2>. QED
    BY <1>11, <2>1, <2>2, <2>3, AdvanceStep
<1>. QED
  BY <1>15, <1>16

\* ApprovalStore._decide: a parked request is approved or denied, once.
LEMMA DecideRefines ==
    ASSUME PlaneInv, PlaneInv', NEW d \in DecisionIds, NEW st \in {"GRANTED", "DENIED"},
           approvals[d].state = "PENDING",
           approvals' = [approvals EXCEPT ![d].state = st],
           UNCHANGED <<nonces, decisions, tokens, counts, effects>>
    PROVE  Lifecycle!LifecycleNext
<1>. USE DEF PlaneInv, PlaneTypeOK
<1>1. PICK e \in Envelopes : e = decisions[d].envelope
  <2>1. decisions[d] \in Decision
    BY DEF StoresOK, DecisionIds
  <2>. QED
    BY <2>1 DEF Decision
<1>2. /\ approvals'[d].state = st
      /\ \A c \in DecisionIds \ {d} : approvals'[c] = approvals[c]
  BY DecideDoes
<1>3. SameDecisions /\ DecisionIds' = DecisionIds
  BY DEF SameDecisions, DecisionIds
<1>4. DecisionsStick
  BY <1>2, <1>3 DEF DecisionsStick, Allowed, AllowedNext
<1>5. \A f \in Envelopes : SameTokens(f)
  BY <1>4, TokensStay
<1>6. DecisionsOf(e) = {d} /\ DecisionsOf(e)' = {d}
  <2>1. DecisionsOf(e) = {d}
    BY <1>1, OnlyDecision
  <2>. QED
    BY <1>3, <2>1 DEF DecisionsOf
<1>7. \A f \in Envelopes \ {e} : \A c \in DecisionsOf(f) : approvals'[c] = approvals[c]
  BY <1>1, <1>2 DEF DecisionsOf
<1>8. \A f \in Envelopes \ {e} : Quiet(f)
  BY <1>3, <1>5, <1>7, ApprovalStays, QuietBits
<1>9. ~ HasToken(e)
  <2>1. \A i \in TokenIds : tokens[i].decision # d /\ tokens[i].decision \in DecisionIds
    BY DEF MintInv, ApprovalRespected, StoresOK
  <2>. QED
    BY <1>6, <2>1 DEF HasToken, TokensOf, DecisionsOf
<1>10. /\ ~ Has(e, "GRANTED") /\ ~ Has(e, "DENIED") /\ Has(e, "PENDING")
       /\ (Has(e, "GRANTED")' <=> st = "GRANTED") /\ (Has(e, "DENIED")' <=> st = "DENIED")
  BY <1>2, <1>6 DEF Has
<1>11. PhaseOf(e) = "parked"
  BY <1>9, <1>10, PhaseIs
<1>12. PhaseOf(e)' = IF st = "GRANTED" THEN "approved" ELSE "denied"
  BY <1>5, <1>9, <1>10, PhaseIsNext DEF SameTokens
<1>13. PerformedFor(e)' = PerformedFor(e)
  BY <1>5, PerformedIs, PerformedIsNext DEF SameTokens
<1>14. <<"parked", "approved">> \in Lifecycle!Moves /\ <<"parked", "denied">> \in Lifecycle!Moves
  BY DEF Lifecycle!Moves
<1>. QED
  BY <1>8, <1>11, <1>12, <1>13, <1>14, AdvanceStep

\* DecisionTokenAuthority.issue: the request's authority is granted.
LEMMA MintRefines ==
    ASSUME PlaneInv, PlaneInv', NEW w \in Workers, Mint(w)
    PROVE  Lifecycle!LifecycleNext
<1>. USE DEF PlaneInv, PlaneTypeOK
<1>1. /\ wpc[w] = "mint" /\ UNCHANGED <<nonces, decisions, approvals>>
  BY DEF Mint, requestVars, decisionVars
<1>2. PICK d \in DecisionIds : d = work[w].decision
  BY <1>1 DEF WorkersOK
<1>3. PICK e \in Envelopes : e = work[w].envelope /\ e = decisions[d].envelope
  <2>1. work[w].envelope \in Envelopes
    BY <1>1 DEF WorkersOK, Work
  <2>2. work[w].envelope = decisions[d].envelope
    BY <1>1, <1>2, WorkerFacts DEF DecisionIds
  <2>. QED
    BY <2>1, <2>2
<1>4. PICK k : /\ TokenIds' = TokenIds \cup {k} /\ k \notin TokenIds
               /\ tokens'[k].decision = d /\ counts'[k] = 0 /\ effects'[k] = 0
               /\ \A i \in TokenIds : /\ tokens'[i] = tokens[i] /\ counts'[i] = counts[i]
                                      /\ effects'[i] = effects[i]
  <2>1. AddsToken(NewToken(w)) /\ NewToken(w).decision = d /\ Len(tokens) \in Nat
    BY <1>2, MintAdds DEF StoresOK
  <2>2. TokenIds' = TokenIds \cup {Len(tokens) + 1} /\ Len(tokens) + 1 \notin TokenIds
    BY <2>1 DEF AddsToken, TokenIds
  <2>. QED
    BY <2>1, <2>2 DEF AddsToken
<1>5. SameDecisions
  BY <1>1 DEF SameDecisions
<1>6. \A f \in Envelopes : SameApproval(f)
  BY <1>1, <1>5, ApprovalStays
<1>7. \A f \in Envelopes \ {e} : TokensOf(f)' = TokensOf(f)
  BY <1>1, <1>3, <1>4 DEF TokensOf
<1>8. \A f \in Envelopes \ {e} : \A i \in TokensOf(f) :
         counts'[i] = counts[i] /\ effects'[i] = effects[i]
  BY <1>4 DEF TokensOf
<1>9. \A f \in Envelopes \ {e} : SameTokens(f)
  BY <1>7, <1>8 DEF SameTokens, HasToken, IsSpent, IsPerformed
<1>10. \A f \in Envelopes \ {e} : Quiet(f)
  BY <1>1, <1>6, <1>9, QuietBits
<1>11. DecisionsOf(e) = {d} /\ e \in nonces
  BY <1>3, OnlyDecision
<1>12. /\ approvals[d].state \in {"NONE", "GRANTED"}
       /\ \A i \in TokenIds : tokens[i].decision # d /\ tokens[i].decision \in DecisionIds
  BY <1>1, <1>2 DEF MintInv, OneMinter, Minting, StoresOK, DecisionIds
<1>13. TokensOf(e) = {} /\ TokensOf(e)' = {k}
  <2>1. \A i \in TokenIds : decisions[tokens[i].decision].envelope # e
    BY <1>11, <1>12 DEF DecisionsOf
  <2>. QED
    BY <1>1, <1>3, <1>4, <2>1 DEF TokensOf
<1>14. /\ ~ HasToken(e) /\ HasToken(e)' /\ ~ IsSpent(e)'
       /\ ~ IsPerformed(e) /\ ~ IsPerformed(e)'
  BY <1>4, <1>13 DEF HasToken, IsSpent, IsPerformed
<1>15. /\ Has(e, "GRANTED") <=> approvals[d].state = "GRANTED"
       /\ ~ Has(e, "DENIED") /\ ~ Has(e, "PENDING")
  BY <1>11, <1>12 DEF Has
<1>16. PhaseOf(e) \in {"accepted", "approved"}
  BY <1>11, <1>12, <1>14, <1>15, PhaseIs
<1>17. PhaseOf(e)' = "granted"
  BY <1>14, PhaseIsNext
<1>18. PerformedFor(e)' = PerformedFor(e)
  BY <1>14, PerformedIs, PerformedIsNext
<1>19. <<"accepted", "granted">> \in Lifecycle!Moves /\ <<"approved", "granted">> \in Lifecycle!Moves
  BY DEF Lifecycle!Moves
<1>. QED
  BY <1>10, <1>16, <1>17, <1>18, <1>19, AdvanceStep

\* The token's request, and what a step on this token alone leaves alone.
LEMMA TokenRequest ==
    ASSUME PlaneInv, PlaneInv', NEW i \in TokenIds,
           UNCHANGED <<nonces, decisions, approvals, tokens>>,
           \A j \in TokenIds \ {i} : counts'[j] = counts[j] /\ effects'[j] = effects[j]
    PROVE  \E e \in Envelopes :
              /\ TokensOf(e) = {i} /\ TokensOf(e)' = {i}
              /\ \A f \in Envelopes \ {e} : Quiet(f)
<1>. USE DEF PlaneInv, PlaneTypeOK
<1>1. PICK e \in Envelopes : e = decisions[tokens[i].decision].envelope
  <2>1. tokens[i].decision \in DecisionIds
    BY DEF StoresOK
  <2>2. decisions[tokens[i].decision] \in Decision
    BY <2>1 DEF StoresOK, DecisionIds
  <2>. QED
    BY <2>2 DEF Decision
<1>2. TokenIds' = TokenIds /\ SameDecisions /\ DecisionIds' = DecisionIds
  BY DEF TokenIds, SameDecisions, DecisionIds
<1>3. DecisionsStick
  BY <1>2 DEF DecisionsStick, Allowed, AllowedNext
<1>4. TokensOf(e) = {i} /\ TokensOf(e)' = {i}
  <2>1. TokensOf(e) = {i}
    BY <1>1, OnlyToken
  <2>. QED
    BY <1>2, <2>1 DEF TokensOf
<1>5. \A f \in Envelopes \ {e} : \A j \in TokensOf(f) : j # i /\ j \in TokenIds
  BY <1>1 DEF TokensOf
<1>6. \A f \in Envelopes \ {e} : SameTokens(f)
  BY <1>3, <1>5, TokensStay
<1>7. \A f \in Envelopes \ {e} : Quiet(f)
  BY <1>2, <1>6, ApprovalStays, QuietBits
<1>. QED
  BY <1>4, <1>7

\* TokenUseTracker.consume: the one use of the token is spent.
LEMMA ConsumeRefines ==
    ASSUME PlaneInv, PlaneInv', NEW m \in Mediators, Consume(m), Unused(m)
    PROVE  Lifecycle!LifecycleNext
<1>. USE DEF PlaneInv, PlaneTypeOK
<1>1. /\ mpc[m] = "consume" /\ counts' = [counts EXCEPT ![med[m].token] = @ + 1]
      /\ counts[med[m].token] < 1
      /\ UNCHANGED <<nonces, decisions, approvals, tokens, effects>>
  BY DEF Consume, Unused, requestVars, decisionVars, tokenVars
<1>2. PICK i \in TokenIds : i = med[m].token
  BY <1>1 DEF BrokersOK
<1>3. /\ counts[i] \in Nat /\ counts'[i] = counts[i] + 1
      /\ \A j \in TokenIds \ {i} : counts'[j] = counts[j]
  BY <1>1, <1>2, CountUp DEF StoresOK, TokenIds
<1>4. counts[i] = 0 /\ counts'[i] = 1 /\ effects'[i] = effects[i]
  BY <1>1, <1>2, <1>3
<1>5. PICK e \in Envelopes : /\ TokensOf(e) = {i} /\ TokensOf(e)' = {i}
                             /\ \A f \in Envelopes \ {e} : Quiet(f)
  BY <1>1, <1>3, TokenRequest
<1>6. HasToken(e) /\ HasToken(e)' /\ ~ IsSpent(e) /\ IsSpent(e)'
      /\ (IsPerformed(e)' <=> IsPerformed(e))
  BY <1>4, <1>5 DEF HasToken, IsSpent, IsPerformed
<1>7. PhaseOf(e) = "granted" /\ PhaseOf(e)' = "spent"
  BY <1>6, PhaseIs, PhaseIsNext
<1>8. PerformedFor(e)' = PerformedFor(e)
  BY <1>6, PerformedIs, PerformedIsNext
<1>9. <<"granted", "spent">> \in Lifecycle!Moves
  BY DEF Lifecycle!Moves
<1>. QED
  BY <1>5, <1>7, <1>8, <1>9, AdvanceStep

\* _execute: the action of a spent token is performed, for the first time.
LEMMA ExecuteRefines ==
    ASSUME PlaneInv, PlaneInv', NEW m \in Mediators, mpc[m] = "execute",
           effects' = [effects EXCEPT ![med[m].token] = @ + 1],
           UNCHANGED <<nonces, decisions, approvals, tokens, counts>>
    PROVE  Lifecycle!LifecycleNext
<1>. USE DEF PlaneInv, PlaneTypeOK
<1>1. PICK i \in TokenIds : i = med[m].token
  BY DEF BrokersOK
<1>2. counts[i] = 1 /\ effects[i] = 0
  BY <1>1 DEF BrokerInv, OneExecutor
<1>3. effects'[i] = effects[i] + 1 /\ \A j \in TokenIds \ {i} : effects'[j] = effects[j]
  BY <1>1, CountUp
<1>4. counts'[i] = 1 /\ effects'[i] = 1
  BY <1>2, <1>3
<1>5. PICK e \in Envelopes : /\ TokensOf(e) = {i} /\ TokensOf(e)' = {i}
                             /\ \A f \in Envelopes \ {e} : Quiet(f)
  BY <1>3, TokenRequest
<1>6. HasToken(e) /\ HasToken(e)' /\ IsSpent(e) /\ IsSpent(e)'
      /\ ~ IsPerformed(e) /\ IsPerformed(e)'
  BY <1>2, <1>4, <1>5 DEF HasToken, IsSpent, IsPerformed
<1>7. PhaseOf(e) = "spent" /\ PhaseOf(e)' = "spent"
  BY <1>6, PhaseIs, PhaseIsNext
<1>8. PerformedFor(e) = 0 /\ PerformedFor(e)' = 1
  BY <1>6, PerformedIs, PerformedIsNext
<1>. QED
  BY <1>5, <1>7, <1>8, PerformStep

\* A worker's step is a step of the life cycle or a stutter.
LEMMA WorkerRefines ==
    ASSUME PlaneInv, PlaneInv', NEW w \in Workers, WorkerBegins(w) \/ WorkerStep(w)
    PROVE  Lifecycle!LifecycleNext \/ \A e \in Envelopes : Quiet(e)
<1>1. CASE CommitReplay(w)
  BY <1>1, CommitReplayRefines
<1>2. CASE PolicyAllows(w) \/ PolicyParks(w)
  BY <1>2, PolicyRefines
<1>3. CASE Grant(w) /\ Decidable(work[w].decision, work[w].now)
  <2>1. /\ wpc[w] = "grant" /\ approvals[work[w].decision].state = "PENDING"
        /\ approvals' = [approvals EXCEPT ![work[w].decision].state = "GRANTED"]
        /\ UNCHANGED <<nonces, decisions, tokens, counts, effects>>
    BY <1>3 DEF Grant, Decidable, requestVars, tokenVars, brokerVars
  <2>2. work[w].decision \in DecisionIds
    BY <2>1 DEF PlaneInv, PlaneTypeOK, WorkersOK
  <2>. QED
    BY <2>1, <2>2, DecideRefines
<1>4. CASE Mint(w)
  BY <1>4, MintRefines
<1>5. CASE RecordDecision(w)
  <2>1. SameDecisions
    BY <1>5, RecordDoes DEF PlaneInv, PlaneTypeOK
  <2>2. UNCHANGED <<nonces, approvals, tokens, counts, effects>>
    BY <1>5 DEF RecordDecision, requestVars, tokenVars, brokerVars
  <2>. QED
    BY <2>1, <2>2, QuietStep
<1>6. ASSUME UNCHANGED <<nonces, decisions, approvals, tokens, counts, effects>>
      PROVE  \A e \in Envelopes : Quiet(e)
  <2>1. SameDecisions
    BY <1>6 DEF SameDecisions
  <2>. QED
    BY <1>6, <2>1, QuietStep
<1>7. CASE WorkerBegins(w)
  <2>1. UNCHANGED <<nonces, decisions, approvals, tokens, counts, effects>>
    BY <1>7 DEF WorkerBegins, BeginEvaluate, BeginApprove, requestVars, decisionVars,
                tokenVars, brokerVars
  <2>. QED
    BY <1>6, <2>1
<1>8. CASE Present(w)
  BY <1>6, <1>8 DEF Present, requestVars, decisionVars, brokerVars
<1>9. ASSUME GivesUp(w) \/ \E k, l : Passes(w, k, l)
      PROVE  \A e \in Envelopes : Quiet(e)
  <2>1. UNCHANGED <<nonces, decisions, approvals, tokens, counts, effects>>
    BY <1>9 DEF GivesUp, Passes, requestVars, decisionVars, tokenVars, brokerVars
  <2>. QED
    BY <1>6, <2>1
<1>10. CASE WorkerStep(w)
  BY <1>1, <1>2, <1>3, <1>4, <1>5, <1>8, <1>9, <1>10, WorkerStepKinds DEF PlaneInv
<1>. QED
  BY <1>7, <1>10

\* A mediation's step is a step of the life cycle or a stutter.
LEMMA MediatorRefines ==
    ASSUME PlaneInv, PlaneInv', NEW m \in Mediators, MediatorBegins(m) \/ MediatorStep(m)
    PROVE  Lifecycle!LifecycleNext \/ \A e \in Envelopes : Quiet(e)
<1>1. UNCHANGED <<nonces, decisions, approvals, tokens>> /\ SameDecisions
  BY MediatorFrame DEF SameDecisions
<1>2. ASSUME UNCHANGED <<counts, effects>> PROVE \A e \in Envelopes : Quiet(e)
  BY <1>1, <1>2, QuietStep
<1>3. CASE MediatorBegins(m)
  BY <1>2, <1>3 DEF MediatorBegins, BeginMediate
<1>4. CASE Denied(m)
  BY <1>2, <1>4 DEF Denied
<1>5. CASE UNCHANGED <<vars, requestVars, decisionVars, tokenVars, workerVars, counts,
                       mediations, effects>>
  BY <1>2, <1>5
<1>6. CASE CheckEpoch(m)
  BY <1>2, <1>6 DEF CheckEpoch
<1>7. CASE Consume(m) /\ Unused(m)
  BY <1>7, ConsumeRefines
<1>8. CASE Execute(m)
  <2>1. /\ mpc[m] = "execute" /\ UNCHANGED counts
        /\ effects' = [effects EXCEPT ![med[m].token] = @ + 1]
    BY <1>8 DEF Execute
  <2>. QED
    BY <1>1, <2>1, ExecuteRefines
<1>9. CASE ExecuteFails(m)
  <2>1. /\ mpc[m] = "execute" /\ UNCHANGED counts
        /\ (effects' = [effects EXCEPT ![med[m].token] = @ + 1] \/ UNCHANGED effects)
    BY <1>9 DEF ExecuteFails
  <2>. QED
    BY <1>1, <1>2, <2>1, ExecuteRefines
<1>10. CASE EndMediate(m)
  BY <1>2, <1>10 DEF EndMediate
<1>. QED
  BY <1>3, <1>4, <1>5, <1>6, <1>7, <1>8, <1>9, <1>10, MediatorStepKinds DEF PlaneInv

\* Every step of the plane is a step of the life cycle or a stutter.
LEMMA PlaneNextRefines ==
    PlaneInv /\ PlaneInv' /\ [PlaneNext]_allVars
       => [Lifecycle!LifecycleNext]_<<[e \in Envelopes |-> PhaseOf(e)],
                                      [e \in Envelopes |-> PerformedFor(e)]>>
<1>. SUFFICES ASSUME PlaneInv, PlaneInv', [PlaneNext]_allVars
              PROVE  Lifecycle!LifecycleNext \/ \A e \in Envelopes : Quiet(e)
  BY StutterStep
<1>1. CASE \E w \in Workers : WorkerBegins(w) \/ WorkerStep(w)
  BY <1>1, WorkerRefines
<1>2. CASE \E m \in Mediators : MediatorBegins(m) \/ MediatorStep(m)
  BY <1>2, MediatorRefines
<1>3. CASE \E d \in DecisionIds : DenyApproval(d)
  <2>1. PICK d \in DecisionIds : DenyApproval(d)
    BY <1>3
  <2>2. /\ approvals[d].state = "PENDING" /\ approvals' = [approvals EXCEPT ![d].state = "DENIED"]
        /\ UNCHANGED <<nonces, decisions, tokens, counts, effects>>
    BY <2>1 DEF DenyApproval, Decidable, requestVars, tokenVars, brokerVars
  <2>. QED
    BY <2>2, DecideRefines
<1>4. CASE UNCHANGED planeVars
  <2>1. SameDecisions /\ UNCHANGED <<nonces, approvals, tokens, counts, effects>>
    BY <1>4 DEF planeVars, requestVars, decisionVars, tokenVars, brokerVars, SameDecisions
  <2>. QED
    BY <2>1, QuietStep
<1>. QED
  BY <1>1, <1>2, <1>3, <1>4 DEF PlaneNext, PlaneIdle, ContainmentStep, allVars

\* The initial states map to initial states of the life cycle.
LEMMA PlaneInitRefines == PlaneInit => Lifecycle!LifecycleInit
<1>. SUFFICES ASSUME PlaneInit PROVE Lifecycle!LifecycleInit
  OBVIOUS
<1>1. PlaneInv
  BY PlaneInitInv
<1>2. nonces = {} /\ DecisionIds = {} /\ TokenIds = {}
  BY DEF PlaneInit, DecisionIds, TokenIds
<1>3. ASSUME NEW e \in Envelopes PROVE PhaseOf(e) = "new" /\ PerformedFor(e) = 0
  <2>1. TokensOf(e) = {} /\ DecisionsOf(e) = {}
    BY <1>2 DEF TokensOf, DecisionsOf
  <2>2. ~ HasToken(e) /\ ~ IsPerformed(e) /\ ~ Has(e, "GRANTED") /\ ~ Has(e, "DENIED")
        /\ ~ Has(e, "PENDING")
    BY <2>1 DEF HasToken, IsPerformed, Has
  <2>. QED
    BY <1>1, <1>2, <2>2, PhaseIs, PerformedIs
<1>. QED
  BY <1>3 DEF Lifecycle!LifecycleInit

\* The whole pipeline, with its races between workers, approvers, brokers and
\* administrators, implements the lifecycle of a request's authority: created
\* once, moving forward only, granted with the approval the policy asked for,
\* spent once, performed at most once.
THEOREM PlaneImplementsLifecycle == PlaneSpec => ImplementsLifecycle
<1>1. PlaneInit => Lifecycle!LifecycleInit
  BY PlaneInitRefines
<1>2. PlaneInv /\ PlaneInv' /\ [PlaneNext]_allVars
        => [Lifecycle!LifecycleNext]_<<[e \in Envelopes |-> PhaseOf(e)],
                                       [e \in Envelopes |-> PerformedFor(e)]>>
  BY PlaneNextRefines
<1>. QED
  BY <1>1, <1>2, PlaneInvariant, PTL DEF PlaneSpec, ImplementsLifecycle, Lifecycle!LifecycleSpec

=============================================================================

----------------------------- MODULE Onboarding -----------------------------
(***************************************************************************)
(* Deployment modes, shadow reports and agent activation                   *)
(* (onboarding/mode.py, shadow.py, profile.py, service.py) over one audit  *)
(* log.                                                                    *)
(*                                                                         *)
(* Administrators run in threads.  set_mode holds the mode's lock while it *)
(* changes the mode and appends the record; activations append to the same *)
(* log under the log's own lock only.                                      *)
(***************************************************************************)
EXTENDS AuditLog, Conformance, FiniteSets

CONSTANTS
    Threads, NoJob, NoThread,
    Modes,              \* modes administrators switch between
    Profiles,           \* [controls, build]: what a profile declares, and the
                        \* build its activation runs in
    MaxOperations       \* bound on calls and faults, in any mix

Outcomes == {"WOULD_ALLOW", "WOULD_DENY", "ALLOW", "WARN_ALLOW", "DENY"}

\* What a thread may be in the middle of: a change of mode, a checkpoint whose
\* log has been verified (after so many faults), or an outcome it is to report.
ModeJobs == [op : {"mode"}, old : Modes \cup {"OBSERVE"}, new : Modes]
CheckpointJobs == [op : {"verified"}, faults : Nat]
ReportJobs == [op : {"applied"}, outcome : Outcomes, base : BOOLEAN,
               recorded : Modes \cup {"OBSERVE"}]

ASSUME OnboardingAssumption ==
    /\ NoThread \notin Threads
    /\ NoJob \notin ModeJobs \cup CheckpointJobs \cup ReportJobs

VARIABLES
    mode, modeLock,     \* ModeController
    observations,       \* ShadowAggregator._obs
    active,             \* profiles returned as ENFORCED
    job,                \* what each thread is doing
    onRecord,           \* history: the mode last put on record
    faults,             \* corruptions so far
    operations          \* calls and faults so far

vars == <<events, checkpoints, sealed, mode, modeLock, observations, active, job,
          onRecord, faults, operations>>

Init ==
    /\ events = <<>> /\ checkpoints = {} /\ sealed = <<>>
    /\ mode = "OBSERVE" /\ modeLock = NoThread
    /\ observations = <<>>
    /\ active = {}
    /\ job = [t \in Threads |-> NoJob]
    /\ onRecord = "OBSERVE" /\ faults = 0 /\ operations = 0

Doing(t, op) == job[t] # NoJob /\ job[t].op = op
Operation == operations < MaxOperations /\ operations' = operations + 1
Begin(t, j) == Operation /\ job[t] = NoJob /\ job' = [job EXCEPT ![t] = j]
End(t) == job' = [job EXCEPT ![t] = NoJob]

Record(payload) ==
    /\ append(payload)
    /\ onRecord' = IF payload.action = "mode_change" THEN payload.new_mode ELSE onRecord

\* As if the lock were not taken.
MutNoLock == TRUE

ModeLockFree == modeLock = NoThread

\* set_mode: the mode changes before the record is written.
set_mode(t, new) ==
    /\ ModeLockFree
    /\ Begin(t, [op |-> "mode", old |-> mode, new |-> new])
    /\ modeLock' = t
    /\ mode' = new
    /\ UNCHANGED <<events, checkpoints, sealed, observations, active, onRecord,
                   faults>>

AuditMode(t) ==
    /\ Doing(t, "mode")
    /\ Record([action |-> "mode_change", old_mode |-> job[t].old,
               new_mode |-> job[t].new])
    /\ modeLock' = NoThread
    /\ End(t)
    /\ UNCHANGED <<checkpoints, mode, observations, active, faults, operations>>

\* As if a warning were reported as an ordinary ALLOW.
MutWarnIsAllow(m, base_allow) ==
    CASE m = "OBSERVE" -> IF base_allow THEN "WOULD_ALLOW" ELSE "WOULD_DENY"
      [] m = "WARN" -> "ALLOW"
      [] m = "ENFORCE" -> IF base_allow THEN "ALLOW" ELSE "DENY"
      [] OTHER -> "DENY"

apply_mode(m, base_allow) ==
    CASE m = "OBSERVE" -> IF base_allow THEN "WOULD_ALLOW" ELSE "WOULD_DENY"
      [] m = "WARN" -> IF base_allow THEN "ALLOW" ELSE "WARN_ALLOW"
      [] m = "ENFORCE" -> IF base_allow THEN "ALLOW" ELSE "DENY"
      [] OTHER -> "DENY"

\* The mode a log leaves in force after its first n records.
ChangesIn(log, n) == {i \in 1..n : log[i].action = "mode_change"}
Latest(S) == CHOOSE i \in S : \A j \in S : j <= i
ModeAfter(log, n) ==
    IF ChangesIn(log, n) = {} THEN "OBSERVE" ELSE log[Latest(ChangesIn(log, n))].new_mode

\* ModeController.apply reads the mode under the lock.  recorded is history.
apply(t, base_allow) ==
    /\ ModeLockFree
    /\ Begin(t, [op |-> "applied", outcome |-> apply_mode(mode, base_allow),
                 base |-> base_allow, recorded |-> onRecord])
    /\ UNCHANGED <<events, checkpoints, sealed, mode, modeLock, observations, active,
                   onRecord, faults>>

\* ShadowAggregator.record: the caller hands on the outcome when it gets to it.
record(t) ==
    /\ Doing(t, "applied")
    /\ observations' = Append(observations, [outcome |-> job[t].outcome,
                                  base |-> job[t].base, recorded |-> job[t].recorded])
    /\ End(t)
    /\ UNCHANGED <<events, checkpoints, sealed, mode, modeLock, active, onRecord,
                   faults, operations>>

\* ShadowReport.enforce_would_block
enforce_would_block ==
    Cardinality({i \in DOMAIN observations :
                    observations[i].outcome \in {"WOULD_DENY", "WARN_ALLOW"}})

Channels == {"tool", "network", "filesystem", "secret", "output"}
MandatoryControls ==
    {<<"sandbox", "no_unrestricted_egress">>}
    \cup (Channels \X {"mediated", "deny_direct"})

mandatory_controls_present(p) == MandatoryControls \subseteq p.controls

\* activate: the two gates in order, then the audited outcome.  The gates
\* read nothing shared, so the call takes effect in its append.
ActivationResult(p) ==
    IF ~mandatory_controls_present(p) THEN "BLOCKED"
    ELSE IF ~ConformancePassed(p.build) THEN "CONFORMANCE_FAILED"
    ELSE "ENFORCED"

activate(p) ==
    /\ Operation
    /\ Record([action |-> "onboarding_activation", result |-> ActivationResult(p)])
    /\ active' = IF ActivationResult(p) = "ENFORCED" THEN active \cup {p} ELSE active
    /\ UNCHANGED <<checkpoints, mode, modeLock, observations, job, faults>>

\* checkpoint verifies the chain, lets go of the lock, takes it again to read
\* the head, and signs what it read.
checkpoint(t) ==
    /\ verify
    /\ Begin(t, [op |-> "verified", faults |-> faults])
    /\ UNCHANGED <<events, checkpoints, sealed, mode, modeLock, observations, active,
                   onRecord, faults>>

\* log and struck are history: what was stored, and whether a fault struck
\* between the two readings.
ReadHeadAndSign(t) ==
    /\ Doing(t, "verified")
    /\ checkpoints' = checkpoints \cup {[body |-> HeadBody, log |-> Stored,
                                        struck |-> faults # job[t].faults]}
    /\ End(t)
    /\ UNCHANGED <<events, sealed, mode, modeLock, observations, active, onRecord,
                   faults, operations>>

\* Stored events are altered, taken out or lost.
Corrupt ==
    /\ Operation
    /\ faults' = faults + 1
    /\ \/ \E i \in DOMAIN events : Alter(i, [action |-> "altered"])
       \/ \E k \in 1..(Len(events) - 1) : Remove(k)
       \/ \E n \in 0..(Len(events) - 1) : Truncate(n)
    /\ UNCHANGED <<checkpoints, sealed, mode, modeLock, observations, active, job,
                   onRecord>>

Next ==
    \/ \E t \in Threads :
          \/ \E m \in Modes : set_mode(t, m)
          \/ AuditMode(t)
          \/ \E b \in BOOLEAN : apply(t, b)
          \/ record(t)
          \/ checkpoint(t) \/ ReadHeadAndSign(t)
    \/ \E p \in Profiles : activate(p)
    \/ Corrupt

Spec == Init /\ [][Next]_vars

-----------------------------------------------------------------------------
\* The log of an uncorrupted store tells the history of the mode: each change
\* starts from where the previous one ended, and outside set_mode the last one
\* led to the mode in force, however the administrators' calls interleave.
ModeAudited ==
    faults = 0 =>
        /\ \A i \in ChangesIn(Stored, Len(Stored)) :
              Stored[i].old_mode = ModeAfter(Stored, i - 1)
        /\ modeLock = NoThread => mode = ModeAfter(Stored, Len(Stored))

\* The shadow report's enforce_would_block is the number of refused actions
\* that were let through, under the mode the audit trail shows for each: no
\* action is decided under a mode that is not yet on record.
ShadowReportExact ==
    enforce_would_block =
        Cardinality({i \in DOMAIN observations :
            /\ ~observations[i].base
            /\ observations[i].recorded \in {"OBSERVE", "WARN"}})

\* What re-walking the chain tells, whatever was altered, taken out or cut off
\* and whatever was appended since: a chain that verifies holds, at every
\* position but the last, what was stored there when the next entry was
\* appended.  And a checkpoint signs the head of a chain that commits to the
\* whole log as it is stored at that moment, the entries appended between its
\* two readings included, unless a fault struck between the two.
TamperEvident ==
    /\ verify => \A i \in 1..(Len(events) - 1) : events[i].payload = sealed[i]
    /\ \A c \in checkpoints :
          ~c.struck => c.body.head_hash = Chain(c.log, c.body.covers_through_seq + 1)

\* An agent reaches ENFORCED only under a profile with every mandatory control
\* and in a build that enforces: the six checks, each satisfied by any refusal
\* at all, together find every build that omits what they are after or hides
\* the omission behind a test that refuses everything.
EnforcedConforms ==
    \A p \in active :
        /\ mandatory_controls_present(p)
        /\ Enforces(p.build,
                    [action : {"a", "b"}, decision : {"ALLOW", "DENY"}, epoch : 0..1,
                     defects : {{}} \cup {{d} : d \in Defects}],
                    {"a", "b"}, 0..1)

=============================================================================

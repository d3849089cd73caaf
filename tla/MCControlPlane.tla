--------------------------- MODULE MCControlPlane ---------------------------
(* Small instances of the control plane for TLC. *)
EXTENDS ControlPlane, TLC

CONSTANTS s1, s2, e1, e2, readFile

MCThresholds ==
    [suspicious_denials_60s |-> 3, suspicious_bypass_5m |-> 1,
     restricted_denials_5m |-> 8, restricted_bypass_5m |-> 2,
     quarantine_bypass_5m |-> 3, quarantine_secret_probe |-> 3]

\* Two bypass attempts: just enough for RESTRICTED.
MCFeatures ==
    {[denials_60s |-> 0, denials_5m |-> 0, bypass_attempts_5m |-> 2,
      secret_probe_count |-> 0, signal |-> FALSE]}

\* Two requests for the same action: both of one session, or of two.
MCSameSubject == [e \in Envelopes |-> s1]
MCTwoSubjects == (e1 :> s1) @@ (e2 :> s2)
MCOneAction == [e \in Envelopes |-> readFile]
MCSequences == [e \in Envelopes |-> IF e = e1 THEN 1 ELSE 2]

\* Requests and sessions that outlive the run, and ones that do not.
MCNeverExpires == [e \in Envelopes |-> MaxTime + 1]
MCSessionsLast == [s \in Subjects |-> MaxTime + 1]
MCSessionsShort == [s \in Subjects |-> 1]

SymmetricThreads == Permutations(Workers) \cup Permutations(Mediators)

=============================================================================

-------------------------- MODULE ContainmentModel --------------------------
(***************************************************************************)
(* The pure part of the containment engine: the ladder of states, the      *)
(* threshold assessment that picks a warranted state from behaviour        *)
(* features, the recovery table, and the capability ceiling of each state  *)
(* (cvztte/containment/model.py, policy.py and the table of engine.py).    *)
(***************************************************************************)
EXTENDS Integers

States == {"NORMAL", "SUSPICIOUS", "RESTRICTED", "QUARANTINED", "TERMINATED"}

\* Position on the ladder: a higher number is less authority.
severity(s) ==
    CASE s = "NORMAL"      -> 0
      [] s = "SUSPICIOUS"  -> 1
      [] s = "RESTRICTED"  -> 2
      [] s = "QUARANTINED" -> 3
      [] s = "TERMINATED"  -> 4

more_severe(a, b) == IF severity(a) >= severity(b) THEN a ELSE b

\* The gate the control plane asks before it mints.
blocks_new_consequential_tokens(s) == severity(s) >= severity("QUARANTINED")

-----------------------------------------------------------------------------
(***************************************************************************)
(* Threshold policy.  A feature map is abstracted to the counters and the  *)
(* one flag the rules read; t holds the configured thresholds.             *)
(***************************************************************************)

FeatureMaps(Counts) ==
    [denials_60s: Counts, denials_5m: Counts, bypass_attempts_5m: Counts,
     secret_probe_count: Counts, signal: BOOLEAN]

ThresholdMaps(Counts) ==
    [suspicious_denials_60s: Counts, suspicious_bypass_5m: Counts,
     restricted_denials_5m: Counts, restricted_bypass_5m: Counts,
     quarantine_bypass_5m: Counts, quarantine_secret_probe: Counts]

SuspiciousRule(f, t) ==
    \/ f.denials_60s >= t.suspicious_denials_60s
    \/ f.bypass_attempts_5m >= t.suspicious_bypass_5m

RestrictedRule(f, t) ==
    \/ f.denials_5m >= t.restricted_denials_5m
    \/ f.bypass_attempts_5m >= t.restricted_bypass_5m

QuarantineRule(f, t) ==
    \/ f.signal
    \/ f.bypass_attempts_5m >= t.quarantine_bypass_5m
    \/ f.secret_probe_count >= t.quarantine_secret_probe

\* The last rule that fires wins, whatever the earlier ones said.
assess(f, t) ==
    IF QuarantineRule(f, t) THEN "QUARANTINED"
    ELSE IF RestrictedRule(f, t) THEN "RESTRICTED"
    ELSE IF SuspiciousRule(f, t) THEN "SUSPICIOUS"
    ELSE "NORMAL"

\* f is at most g in every feature.
FeaturesLeq(f, g) ==
    /\ f.denials_60s <= g.denials_60s
    /\ f.denials_5m <= g.denials_5m
    /\ f.bypass_attempts_5m <= g.bypass_attempts_5m
    /\ f.secret_probe_count <= g.secret_probe_count
    /\ f.signal => g.signal

-----------------------------------------------------------------------------
(***************************************************************************)
(* Recovery: which methods may lower which state.                          *)
(***************************************************************************)

Methods == {"COOLDOWN_CLEAN", "FRESH_SESSION", "ADMIN_APPROVAL", "REONBOARD"}

recovery_allowed(s) ==
    CASE s = "SUSPICIOUS"  -> Methods
      [] s = "RESTRICTED"  -> Methods \ {"COOLDOWN_CLEAN"}
      [] s = "QUARANTINED" -> {"ADMIN_APPROVAL", "REONBOARD"}
      [] s = "TERMINATED"  -> {"REONBOARD"}
      [] OTHER             -> {}

\* A recovery that must name its approver: admin approval, and every method
\* but re-onboarding once the subject is QUARANTINED or worse.
approver_required(s, method) ==
    /\ method = "ADMIN_APPROVAL" \/ severity(s) >= severity("QUARANTINED")
    /\ method # "REONBOARD"

-----------------------------------------------------------------------------
(***************************************************************************)
(* Capability decay.                                                       *)
(***************************************************************************)

CapabilityAttributes ==
    [optional_high_risk: BOOLEAN, writes: BOOLEAN, external_network: BOOLEAN,
     secret_access: BOOLEAN, new_subagent: BOOLEAN, diagnostic: BOOLEAN]

\* What a RESTRICTED subject loses.
Consequential(attrs) ==
    \/ attrs.optional_high_risk
    \/ attrs.writes
    \/ attrs.external_network
    \/ attrs.secret_access
    \/ attrs.new_subagent

\* A plausible slip: SUSPICIOUS keeps only the optional high-risk
\* capabilities instead of dropping them (a lost "not").
MutCeilingSuspiciousInverted(s, attrs) ==
    CASE s = "NORMAL"      -> TRUE
      [] s = "SUSPICIOUS"  -> attrs.optional_high_risk
      [] s = "RESTRICTED"  -> ~ Consequential(attrs)
      [] s = "QUARANTINED" -> attrs.diagnostic
      [] OTHER             -> FALSE

ceiling_allows(s, attrs) ==
    CASE s = "NORMAL"      -> TRUE
      [] s = "SUSPICIOUS"  -> ~ attrs.optional_high_risk
      [] s = "RESTRICTED"  -> ~ Consequential(attrs)
      [] s = "QUARANTINED" -> attrs.diagnostic
      [] OTHER             -> FALSE

\* delegated, policy and runtime authority intersected, then the ceiling.
effective_capabilities(delegated, enterprise_policy, runtime_profile, s, profile) ==
    {c \in delegated \cap enterprise_policy \cap runtime_profile :
        ceiling_allows(s, profile[c])}

=============================================================================

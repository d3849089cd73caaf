--------------------------- MODULE MCContainment ---------------------------
(* Small instance of the containment engine and of capability decay for TLC. *)
EXTENDS CapabilityDecay, TLC

\* The reference thresholds of ContainmentThresholds, scaled to small counts.
MCThresholds ==
    [suspicious_denials_60s |-> 2, suspicious_bypass_5m |-> 1,
     restricted_denials_5m |-> 3, restricted_bypass_5m |-> 2,
     quarantine_bypass_5m |-> 3, quarantine_secret_probe |-> 2]

Quiet == [denials_60s |-> 0, denials_5m |-> 0, bypass_attempts_5m |-> 0,
          secret_probe_count |-> 0, signal |-> FALSE]

\* One feature map at each threshold.
MCFeatures ==
    {Quiet, [Quiet EXCEPT !.denials_60s = 2], [Quiet EXCEPT !.bypass_attempts_5m = 2],
     [Quiet EXCEPT !.signal = TRUE]}

Plain == [optional_high_risk |-> FALSE, writes |-> FALSE, external_network |-> FALSE,
          secret_access |-> FALSE, new_subagent |-> FALSE, diagnostic |-> FALSE]

\* The capabilities of the repository's decay test, one outside the grants, and
\* one that is both diagnostic and consequential: "probe" reports over the
\* network.
MCCapabilities ==
    {"read_file", "write_file", "http", "delete_all", "ping", "spawn", "probe"}

MCProfile ==
    [c \in MCCapabilities |->
        CASE c = "write_file" -> [Plain EXCEPT !.writes = TRUE]
          [] c = "http"       -> [Plain EXCEPT !.external_network = TRUE]
          [] c = "delete_all" -> [Plain EXCEPT !.optional_high_risk = TRUE]
          [] c = "ping"       -> [Plain EXCEPT !.diagnostic = TRUE]
          [] c = "probe"      -> [Plain EXCEPT !.diagnostic = TRUE,
                                               !.external_network = TRUE]
          [] c = "spawn"      -> [Plain EXCEPT !.new_subagent = TRUE]
          [] OTHER            -> Plain]

MCDelegated == MCCapabilities \ {"spawn"}

Symmetry == Permutations(Threads) \cup Permutations(Subjects)

=============================================================================

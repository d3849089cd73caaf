---------------------------- MODULE MCDelegation ----------------------------
(* A small delegation registry for TLC. *)
EXTENDS Delegation, TLC

Offer(caps, scopes, clearance, from, to) ==
    [capabilities |-> caps, resource_scopes |-> scopes, clearance |-> clearance,
     not_before |-> from, not_after |-> to]

\* The second offer is the first without its resource scope.
MCOffers ==
    {Offer({"fs:read", "shell:exec"}, scopes, "INTERNAL", 0, 1) :
        scopes \in {{"/data"}, {}}}

MCCovers == {<<"/data", "/data/a">>, <<"/tmp", "/tmp/a">>}

MCActions ==
    {[action_type |-> type, operation |-> "read", resource |-> r,
      data_classification |-> "INTERNAL", destination_domain |-> Absent,
      row_count |-> Absent, byte_count |-> Absent] :
        type \in {"FILE_READ", "SHELL_EXEC"}, r \in {"/data/a", "/tmp/a"}}

SymmetricThreads == Permutations(Threads)

=============================================================================

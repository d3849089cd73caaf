----------------------- MODULE MCConfidentialRelease -----------------------
(* Small instances of the confidential release service for TLC. *)
EXTENDS ConfidentialRelease, TLC

CONSTANTS scope, r1, r2, r3

MCNoLimits ==
    [window_seconds |-> 1, max_decrypts_per_window |-> Unset, min_group_size |-> 1,
     deny_individual_value |-> TRUE, differencing_min_symmetric_difference |-> 0,
     max_overlap_percent |-> Unset, require_approval_below_group_size |-> Unset,
     round_decimals |-> Unset]

\* One release per window, rounded.
MCBudget == [MCNoLimits EXCEPT !.max_decrypts_per_window = 1, !.round_decimals = 1]

\* Record sets that differ in at least two records and share at most 40% of the
\* smaller, and approval for groups of one.
MCPatterns ==
    [MCNoLimits EXCEPT !.differencing_min_symmetric_difference = 2,
                       !.max_overlap_percent = 40,
                       !.require_approval_below_group_size = 2]

Query(ids) ==
    [scope |-> scope, subset_ids |-> ids,
     aggregation_group_size |-> Cardinality(ids), release_kind |-> "AGGREGATE"]

MCOneQuery == {Query({r1, r2})}
MCOverlapping == {Query({r1, r2}), Query({r2, r3})}

MCAllPermissions == {CACPermissions}

CallerSymmetry == Permutations(Callers)

=============================================================================

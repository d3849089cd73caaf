-------------------------- MODULE QueryGovernance --------------------------
(***************************************************************************)
(* The rules by which QueryGovernor decides one release request against    *)
(* the earlier releases of its scope                                       *)
(* (cvztte/confidential_query/governance.py, models.py).                   *)
(*                                                                         *)
(* A query is [scope, subset_ids, aggregation_group_size, release_kind,    *)
(* timestamp]; the history of a scope is a sequence of                     *)
(* [timestamp, subset_ids].  The overlap limit is in percent.              *)
(***************************************************************************)
EXTENDS Integers, FiniteSets, Sequences

CONSTANTS
    Policy,  \* QueryGovernancePolicy
    Unset    \* a knob that is None

QueryGovernancePolicies ==
    [window_seconds: Nat,
     max_decrypts_per_window: Nat \cup {Unset},
     min_group_size: Nat,
     deny_individual_value: BOOLEAN,
     differencing_min_symmetric_difference: Nat,
     max_overlap_percent: Nat \cup {Unset},
     require_approval_below_group_size: Nat \cup {Unset},
     round_decimals: Nat \cup {Unset}]

ASSUME PolicyAssumption ==
    /\ Unset \notin Nat
    /\ Policy \in QueryGovernancePolicies

Decisions == {"ALLOW", "TRANSFORM", "REQUIRE_APPROVAL", "DENY"}

\* Mutant: the start of the window is left out.
MutRecentOpen(q, past) ==
    {i \in DOMAIN past : past[i].timestamp > q.timestamp - Policy.window_seconds}

\* The releases a decision looks back on, by their place in the history.
\* Timestamps come from the callers, so an entry may be later than the query
\* it is compared with.
recent(q, past) ==
    {i \in DOMAIN past : past[i].timestamp >= q.timestamp - Policy.window_seconds}

TooFine(q) ==
    \/ q.release_kind = "INDIVIDUAL" /\ Policy.deny_individual_value
    \/ q.aggregation_group_size < Policy.min_group_size

RateExceeded(q, past) ==
    /\ Policy.max_decrypts_per_window # Unset
    /\ Cardinality(recent(q, past)) >= Policy.max_decrypts_per_window

Differencing(cur, prev) ==
    Cardinality((cur \ prev) \cup (prev \ cur))
        \in 1..(Policy.differencing_min_symmetric_difference - 1)

Overlapping(cur, prev) ==
    LET smaller == IF Cardinality(cur) < Cardinality(prev) THEN cur ELSE prev IN
    /\ Policy.max_overlap_percent # Unset
    /\ cur # prev
    /\ 100 * Cardinality(cur \cap prev)
         > Policy.max_overlap_percent * Cardinality(smaller)

\* Mutant: a pattern is a risk only if it is both kinds at once.
MutPatternBoth(q, past) ==
    \E i \in recent(q, past) :
        LET prev == past[i].subset_ids IN
        /\ q.subset_ids # {}
        /\ prev # {}
        /\ Differencing(q.subset_ids, prev) /\ Overlapping(q.subset_ids, prev)

PatternRisk(q, past) ==
    \E i \in recent(q, past) :
        LET prev == past[i].subset_ids IN
        /\ q.subset_ids # {}
        /\ prev # {}
        /\ Differencing(q.subset_ids, prev) \/ Overlapping(q.subset_ids, prev)

SmallGroup(q) ==
    /\ Policy.require_approval_below_group_size # Unset
    /\ q.aggregation_group_size < Policy.require_approval_below_group_size

\* QueryGovernor.evaluate: the most restrictive rule that fires wins.
Decide(q, past) ==
    CASE TooFine(q) \/ RateExceeded(q, past) \/ PatternRisk(q, past) -> "DENY"
      [] OTHER -> IF SmallGroup(q) THEN "REQUIRE_APPROVAL"
                  ELSE IF Policy.round_decimals # Unset THEN "TRANSFORM"
                  ELSE "ALLOW"

allowed(decision) == decision # "DENY"

=============================================================================

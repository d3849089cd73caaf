------------------------------ MODULE Behavior ------------------------------
(***************************************************************************)
(* The behaviour engine's state of one scope (behavior/engine.py,          *)
(* behavior/model.py): the queue its windowed features count.  The         *)
(* cumulative features only count up and are left out.                     *)
(*                                                                         *)
(* Every caller reads its clock before it waits for the scope's lock, so   *)
(* events and prunings need not arrive in the order of their times.        *)
(***************************************************************************)
EXTENDS Integers, Sequences, FiniteSets

CONSTANTS
    Window60s, Window5m     \* rolling windows, in ticks

ASSUME WindowAssumption ==
    /\ Window60s \in Nat /\ Window5m \in Nat
    /\ Window60s < Window5m

VARIABLES
    executed,       \* times of EXECUTED events, as they were appended
    recorded,       \* history: every event applied
    prunedAt        \* history: the latest time a pruning was done for

behaviorVars == <<executed, recorded, prunedAt>>

BehaviorInit ==
    /\ executed = <<>>
    /\ recorded = <<>>
    /\ prunedAt = -Window5m

\* As if the queue were cut to the shorter window.
MutPruneShort(queue, at) ==
    LET keep == {i \in DOMAIN queue :
                   \E j \in 1..i : queue[j] >= at - Window60s}
    IN SubSeq(queue, Len(queue) - Cardinality(keep) + 1, Len(queue))

\* _prune pops from the left while the head is older than the largest window.
prune(queue, at) ==
    LET keep == {i \in DOMAIN queue :
                   \E j \in 1..i : queue[j] >= at - Window5m}
    IN SubSeq(queue, Len(queue) - Cardinality(keep) + 1, Len(queue))

Pruned(at) == prunedAt' = IF at > prunedAt THEN at ELSE prunedAt

\* _apply: only what was executed counts towards the windows, at the time the
\* event gives; the queue is pruned for the caller's clock.
apply(e, at) ==
    /\ executed' = prune(IF e.kind = "EXECUTED" THEN Append(executed, e.at)
                         ELSE executed, at)
    /\ recorded' = Append(recorded, e)
    /\ Pruned(at)

actions_last(queue, window, at) ==
    Cardinality({i \in DOMAIN queue : queue[i] >= at - window})

snapshot(at) ==
    LET queue == prune(executed, at)
    IN [computed_at |-> at,
        last_60s |-> actions_last(queue, Window60s, at),
        last_5m |-> actions_last(queue, Window5m, at),
        seen |-> Len(recorded), pruned |-> IF at > prunedAt THEN at ELSE prunedAt]

\* The EXECUTED events among the first n recorded that lie in the window.
InWindow(n, window, at) ==
    Cardinality({i \in 1..n : recorded[i].kind = "EXECUTED"
                              /\ recorded[i].at >= at - window})

\* A snapshot's windowed counts are the executed events of its window, no
\* proposal counted with its execution, as long as no caller with a later
\* clock has pruned past the start of that window: the margin is what the
\* largest window exceeds the counted one by.
SnapshotExact(s) ==
    /\ s.pruned <= s.computed_at + (Window5m - Window60s)
          => s.last_60s = InWindow(s.seen, Window60s, s.computed_at)
    /\ s.pruned = s.computed_at
          => s.last_5m = InWindow(s.seen, Window5m, s.computed_at)

=============================================================================

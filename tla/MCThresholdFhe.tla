--------------------------- MODULE MCThresholdFhe ---------------------------
(* A small threshold deployment for TLC. *)
EXTENDS ThresholdFhe, TLC

CONSTANTS a, b, c

MCOrder == <<a, b, c>>
\* In the ceremony's order: all participants, or all but one.
MCRosters ==
    {SelectSeq(MCOrder, LAMBDA p : p \in present) :
        present \in {Q \in SUBSET {a, b, c} : Cardinality(Q) >= 2}}

MCDeclarations == {[key_epoch |-> 0, multiplicative_depth |-> 1]}

SymmetricThreads == Permutations(Threads)

=============================================================================

---------------------------- MODULE MCOnboarding ----------------------------
(* Two administrators, one audit log. *)
EXTENDS Onboarding, TLC

Build(omitted, refusing) ==
    [x \in Tests |-> IF x \in refusing THEN "refuses"
                     ELSE IF x \in omitted THEN "omitted" ELSE "made"]

\* Builds that enforce, twice in spite of an omission; one per thing a check is
\* after; one that refuses everything, and one that hides an omission so.
MCBuilds ==
    {Build({}, {}), Build({"mac", "lookup"}, {}),
     Build({"presented"}, {}), Build({"effect"}, {}), Build({"epoch"}, {}),
     Build({"lookup", "hash", "constraints", "exact"}, {}),
     Build({}, {"use"}), Build({"epoch"}, {"mac"})}

\* Each build with all controls, and one profile that lacks a control.
MCProfiles ==
    {[controls |-> MandatoryControls, build |-> b] : b \in MCBuilds}
    \cup {[controls |-> MandatoryControls \ {<<"secret", "mediated">>},
           build |-> Build({}, {})]}

SymmetricThreads == Permutations(Threads)

=============================================================================

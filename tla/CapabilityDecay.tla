-------------------------- MODULE CapabilityDecay --------------------------
(***************************************************************************)
(* Capability decay on a running engine: what a subject may still do is    *)
(* recomputed from its current containment state on every read             *)
(* (ContainmentEngine.effective_capabilities).                             *)
(***************************************************************************)
EXTENDS Containment

CONSTANTS
    Capabilities,
    Delegated, EnterprisePolicy, RuntimeProfile,  \* the three grants
    Profile                                       \* classification of each capability

ASSUME CapabilityAssumption ==
    /\ Delegated \subseteq Capabilities
    /\ EnterprisePolicy \subseteq Capabilities
    /\ RuntimeProfile \subseteq Capabilities
    /\ Profile \in [Capabilities -> CapabilityAttributes]

\* The read a caller performs at the subject's current state.
EffectiveCapabilities(s) ==
    effective_capabilities(Delegated, EnterprisePolicy, RuntimeProfile,
                           state[s], Profile)

\* What a subject whose state does not improve may still gain: the diagnostic
\* capabilities that RESTRICTED took away, when it enters QUARANTINED.
\* _ceiling_allows asks only for "diagnostic" there, and nothing keeps a
\* profile from calling a capability both diagnostic and consequential.
Restored(s, c) ==
    /\ state[s] # "QUARANTINED" /\ state'[s] = "QUARANTINED"
    /\ Profile[c].diagnostic /\ Consequential(Profile[c])

\* A subject whose state does not improve gains no capability, whatever
\* concurrent calls do to it and however many rungs a step skips, but for the
\* diagnostic ones QUARANTINED gives back to a RESTRICTED or SUSPICIOUS subject
\* (_ceiling_allows, "monotonically tightens as the state escalates").
EscalationRestoresOnlyDiagnostics ==
    [][\A s \in Subjects : severity(state'[s]) >= severity(state[s]) =>
         \A c \in EffectiveCapabilities(s)' \ EffectiveCapabilities(s) :
             Restored(s, c)]_vars

=============================================================================

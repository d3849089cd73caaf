---------------------------- MODULE Conformance -----------------------------
(***************************************************************************)
(* The pre-activation conformance harness (onboarding/conformance.py).     *)
(*                                                                         *)
(* Each check wires a file broker, a token validator and its store afresh, *)
(* presents at most one token and mediates one request.  The harness wires *)
(* the enforcement code of the build it runs in, not the brokers deployed  *)
(* with the agent, and takes any refusal for the refusal it is looking     *)
(* for.  A build makes each test of the mediation, omits it, or has it     *)
(* refuse whatever comes; the harness has to tell the builds that enforce  *)
(* from the ones that do not.                                              *)
(***************************************************************************)
EXTENDS Naturals

\* The tests of a mediation: the store's lookup, those of authorize in order,
\* and the two the broker makes of the decision it gets.
Tests == {"lookup", "presented", "mac", "hash", "holder", "audience", "window",
          "epoch", "constraints", "use", "exact", "effect"}
Builds == [Tests -> {"made", "omitted", "refuses"}]

\* What else may be wrong with a token: a forged MAC, another subject's, another
\* broker's, outside its window, used up.
Defects == {"mac", "holder", "audience", "window", "use"}

\* DecisionTokenAuthority.issue
Token(action, decision, epoch) ==
    [action |-> action, decision |-> decision, epoch |-> epoch, defects |-> {}]

\* PresentedTokenStore.get; without its key it gives out whatever it holds.
get(build, store, action) ==
    IF build["lookup"] = "made"
    THEN {t \in store : t.action = action /\ "audience" \notin t.defects}
    ELSE store

\* Does a token stand up to a test?
Holds(test, t, action, epoch) ==
    /\ test \in {"hash", "constraints", "exact"} => t.action = action
    /\ test = "epoch" => t.epoch = epoch
    /\ test = "effect" => t.decision = "ALLOW"
    /\ test \notin t.defects

\* Does mediate execute the action?
mediate(build, store, action, epoch) ==
    /\ \A test \in Tests : build[test] # "refuses"
    /\ build["presented"] = "made" => get(build, store, action) # {}
    /\ \A t \in get(build, store, action) : \A test \in Tests :
          build[test] = "made" => Holds(test, t, action, epoch)

check_bypass_blocked(b) == ~mediate(b, {}, "bypass", 0)
check_happy_path(b) == mediate(b, {Token("ok", "ALLOW", 0)}, "ok", 0)
check_mediated_deny(b) == ~mediate(b, {Token("deny", "DENY", 0)}, "deny", 0)
check_exact_binding(b) == ~mediate(b, {Token("a", "ALLOW", 0)}, "b", 0)
check_adapter_context(b) == TRUE

\* As if only the engine's state were looked at.
MutKillStateOnly(b) == TRUE

\* kill_switch advances the capability epoch the validator reads.
check_kill_switch(b) == ~mediate(b, {Token("kill", "ALLOW", 0)}, "kill", 1)

ConformancePassed(b) ==
    /\ check_bypass_blocked(b)
    /\ check_happy_path(b)
    /\ check_mediated_deny(b)
    /\ check_exact_binding(b)
    /\ check_adapter_context(b)
    /\ check_kill_switch(b)

\* What enforcing means: whatever is presented, an action is executed only on
\* a token that allows that action in the current epoch, and always on one
\* with which nothing is wrong.
Enforces(build, tokens, actions, epochs) ==
    \A action \in actions, epoch \in epochs :
        /\ \A store \in {{}} \cup {{t} : t \in tokens} :
              mediate(build, store, action, epoch) =>
                  \E t \in store : /\ t.action = action
                                   /\ t.decision = "ALLOW"
                                   /\ t.epoch = epoch
        /\ mediate(build, {Token(action, "ALLOW", epoch)}, action, epoch)

=============================================================================

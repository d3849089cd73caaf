---------------------------- MODULE ControlPlane ----------------------------
(***************************************************************************)
(* The authorization pipeline composed with the containment engine         *)
(* (cvztte/control_plane/plane.py, approval.py, replay.py,                 *)
(* cvztte/decision/authority.py, validator.py, replay.py and               *)
(* enforcement/common.py).                                                 *)
(*                                                                         *)
(* Worker threads of the HTTP server run evaluate and approve; mediator    *)
(* threads run EnforcementBroker.mediate; administrators act on the        *)
(* containment engine.  Every lock in the code covers one step below, so   *)
(* what a thread read in an earlier step may be stale when it is used.     *)
(***************************************************************************)
EXTENDS Containment

CONSTANTS
    Workers, NoWork,         \* threads running evaluate or approve
    Mediators, NoMediation,  \* threads running mediate
    Envelopes,               \* signed requests; each has its own nonce
    Actions,                 \* (audience, action_hash) pairs
    SubjectOf,               \* envelope -> agent|runtime|session it is signed for
    ActionOf,                \* envelope -> the action and audience it asks for
    SequenceOf,              \* envelope -> its sequence number in the session
    RequestExpires,          \* envelope -> expires_at
    SessionExpires,          \* subject -> expires_at of its session
    TokenTTL, ApprovalTTL,
    MaxMediations            \* bound: calls of mediate

ASSUME PlaneAssumption ==
    /\ SubjectOf \in [Envelopes -> Subjects]
    /\ ActionOf \in [Envelopes -> Actions]
    /\ SequenceOf \in [Envelopes -> Nat \ {0}]
    /\ RequestExpires \in [Envelopes -> Nat]
    /\ SessionExpires \in [Subjects -> Nat]
    /\ TokenTTL \in Nat \ {0}
    /\ ApprovalTTL \in Nat
    /\ IsFiniteSet(Mediators)

VARIABLES
    nonces,        \* InMemoryReplayGuard._nonces
    max_sequence,  \* InMemoryReplayGuard._max_sequence, 0 before the first
    decisions,     \* ControlPlane._decisions, in order of decision id
    approvals,     \* ApprovalStore: the record of every decision
    tokens,        \* every token the authority minted; its index is its nonce
    store,         \* PresentedTokenStore: action -> token index, 0 for none
    counts,        \* InMemoryTokenUseTracker: uses of every token
    wpc, work,     \* the workers' program counters and locals
    mpc, med,      \* the mediators' program counters and locals
    mediations,    \* calls of mediate so far
    effects,       \* how often each token's action was performed
    receipts       \* receipts emitted, by outcome

requestVars == <<nonces, max_sequence>>
decisionVars == <<decisions, approvals>>
tokenVars == <<tokens, store>>
workerVars == <<wpc, work>>
brokerVars == <<counts, mpc, med, mediations, effects, receipts>>
planeVars == <<requestVars, decisionVars, tokenVars, workerVars, brokerVars>>
allVars == <<vars, planeVars>>

DecisionIds == 1..Len(decisions)
TokenIds == 1..Len(tokens)
Outcomes == {"EXECUTED", "FAILED", "DENIED"}

PlaneInit ==
    /\ Init
    /\ nonces = {}
    /\ max_sequence = [s \in Subjects |-> 0]
    /\ decisions = <<>>
    /\ approvals = <<>>
    /\ tokens = <<>>
    /\ store = [a \in Actions |-> 0]
    /\ counts = <<>>
    /\ wpc = [w \in Workers |-> "idle"]
    /\ work = [w \in Workers |-> NoWork]
    /\ mpc = [m \in Mediators |-> "idle"]
    /\ med = [m \in Mediators |-> NoMediation]
    /\ mediations = 0
    /\ effects = <<>>
    /\ receipts = [o \in Outcomes |-> 0]

-----------------------------------------------------------------------------
(***************************************************************************)
(* Workers: evaluate and approve.  Both read the clock once, on entry, and *)
(* use that value to the end.                                              *)
(***************************************************************************)

Goto(w, label) == wpc' = [wpc EXCEPT ![w] = label]

\* The call ends, with a result or by raising.
Return(w) ==
    /\ wpc' = [wpc EXCEPT ![w] = "idle"]
    /\ work' = [work EXCEPT ![w] = NoWork]

Subject(w) == SubjectOf[work[w].envelope]

\* Locals of a call: its envelope, decision id (0 before there is one), the
\* clock it read, the containment state it read, its token, and how many
\* transitions its subject had when the call began (used by properties only).
NewWork(e, d) ==
    [envelope |-> e, decision |-> d, now |-> clock, state |-> "NORMAL",
     token |-> 0, since |-> Len(transitions[SubjectOf[e]])]

\* evaluate, steps 1: verify_request.  Any authentic envelope may be delivered
\* any number of times; one that fails verification changes nothing.
BeginEvaluate(w, e) ==
    /\ wpc[w] = "idle"
    /\ clock < RequestExpires[e]
    /\ Goto(w, "replay")
    /\ work' = [work EXCEPT ![w] = NewWork(e, 0)]
    /\ UNCHANGED <<vars, requestVars, decisionVars, tokenVars, brokerVars>>

\* check_and_commit's two tests.
IsFresh(e) == e \notin nonces /\ SequenceOf[e] > max_sequence[SubjectOf[e]]

\* evaluate, step 2: replay and sequence are checked and committed at once.
CommitReplay(w) ==
    LET e == work[w].envelope IN
    /\ wpc[w] = "replay"
    /\ IsFresh(e)
    /\ nonces' = nonces \cup {e}
    /\ max_sequence' = [max_sequence EXCEPT ![SubjectOf[e]] = SequenceOf[e]]
    /\ Goto(w, "session")
    /\ UNCHANGED <<vars, decisionVars, tokenVars, work, brokerVars>>

\* Mutant: a replayed request is tried again instead of being refused.
MutSpinOnReplay(w) ==
    /\ wpc[w] = "replay"
    /\ ~ IsFresh(work[w].envelope)
    /\ UNCHANGED allVars

RejectReplay(w) ==
    /\ wpc[w] = "replay"
    /\ ~ IsFresh(work[w].envelope)
    /\ Return(w)
    /\ UNCHANGED <<vars, requestVars, decisionVars, tokenVars, brokerVars>>

\* evaluate, step 3: the session must still be active.
CheckSession(w) ==
    /\ wpc[w] = "session"
    /\ IF work[w].now < SessionExpires[Subject(w)]
         THEN Goto(w, "state") /\ UNCHANGED work
         ELSE Return(w)
    /\ UNCHANGED <<vars, requestVars, decisionVars, tokenVars, brokerVars>>

\* First read of the containment state: the one reported and put in the token.
ReadState(w) ==
    /\ wpc[w] = "state"
    /\ work' = [work EXCEPT ![w].state = state[Subject(w)]]
    /\ Goto(w, "gate")
    /\ UNCHANGED <<vars, requestVars, decisionVars, tokenVars, brokerVars>>

\* Mutant: the gate is never closed.
MutNeverBlocked(w) == FALSE

\* Second read of the containment state: the one that decides.
Blocked(w) == blocks_new_consequential_tokens(state[Subject(w)])

Gate(w) ==
    /\ wpc[w] = "gate"
    /\ IF Blocked(w) THEN Return(w)
       ELSE /\ Goto(w, IF work[w].decision = 0 THEN "policy" ELSE "mint")
            /\ UNCHANGED work
    /\ UNCHANGED <<vars, requestVars, decisionVars, tokenVars, brokerVars>>

\* evaluate, step 4: OPA refuses, or is unavailable.
PolicyDenies(w) ==
    /\ wpc[w] = "policy"
    /\ Return(w)
    /\ UNCHANGED <<vars, requestVars, decisionVars, tokenVars, brokerVars>>

NoApproval == [state |-> "NONE", expires_at |-> 0]

\* "dec_" and a fresh uuid.
NewDecisionId == Len(decisions) + 1

\* The policy allows without approval: a fresh decision id, then minting.
PolicyAllows(w) ==
    /\ wpc[w] = "policy"
    /\ decisions' = Append(decisions, [envelope |-> work[w].envelope, status |-> "NONE"])
    /\ approvals' = Append(approvals, NoApproval)
    /\ work' = [work EXCEPT ![w].decision = NewDecisionId]
    /\ Goto(w, "mint")
    /\ UNCHANGED <<vars, requestVars, tokenVars, brokerVars>>

\* Mutant: the decision is parked, but the call goes on to mint.
MutParkThenMint(w) ==
    /\ work' = [work EXCEPT ![w].decision = NewDecisionId]
    /\ Goto(w, "mint")

EndPark(w) == Return(w)

\* The policy requires approval: the decision is parked and nothing is minted.
\* The id is new, so nobody can act on it before evaluate has stored both.
PolicyParks(w) ==
    /\ wpc[w] = "policy"
    /\ decisions' = Append(decisions,
                           [envelope |-> work[w].envelope, status |-> "PENDING_APPROVAL"])
    /\ approvals' = Append(approvals,
                           [state |-> "PENDING", expires_at |-> work[w].now + ApprovalTTL])
    /\ EndPark(w)
    /\ UNCHANGED <<vars, requestVars, tokenVars, brokerVars>>

\* DecisionTokenAuthority.issue under the epoch of this moment.  The fields
\* after expires_at are not in the code; the properties below read them.
NewToken(w) ==
    [decision |-> work[w].decision, subject |-> Subject(w),
     action |-> ActionOf[work[w].envelope], capability_epoch |-> capability_epoch,
     containment_state |-> work[w].state,
     not_before |-> work[w].now, expires_at |-> work[w].now + TokenTTL,
     since |-> work[w].since, until |-> Len(transitions[Subject(w)])]

Mint(w) ==
    /\ wpc[w] = "mint"
    /\ tokens' = Append(tokens, NewToken(w))
    /\ counts' = Append(counts, 0)
    /\ effects' = Append(effects, 0)
    /\ work' = [work EXCEPT ![w].token = Len(tokens) + 1]
    /\ Goto(w, "present")
    /\ UNCHANGED <<vars, requestVars, decisionVars, store, mpc, med, mediations, receipts>>

\* PresentedTokenStore.present: a later token for the same action replaces it.
Present(w) ==
    /\ wpc[w] = "present"
    /\ store' = [store EXCEPT ![ActionOf[work[w].envelope]] = work[w].token]
    /\ Goto(w, "record")
    /\ UNCHANGED <<vars, requestVars, decisionVars, tokens, work, brokerVars>>

\* The ALLOW entry replaces the parked one, so nothing is pending any more.
RecordDecision(w) ==
    /\ wpc[w] = "record"
    /\ decisions' = [decisions EXCEPT ![work[w].decision].status = "ALLOW"]
    /\ Return(w)
    /\ UNCHANGED <<vars, requestVars, approvals, tokenVars, brokerVars>>

-----------------------------------------------------------------------------
\* approve: the parked decision is read first.
BeginApprove(w, d) ==
    /\ wpc[w] = "idle"
    /\ decisions[d].status = "PENDING_APPROVAL"
    /\ Goto(w, "grant")
    /\ work' = [work EXCEPT ![w] = NewWork(decisions[d].envelope, d)]
    /\ UNCHANGED <<vars, requestVars, decisionVars, tokenVars, brokerVars>>

\* Mutant: a decided approval may be decided again.
MutRedecidable(d, now) == now < approvals[d].expires_at

\* ApprovalStore._decide: pending and, at the caller's time, unexpired.
Decidable(d, now) == approvals[d].state = "PENDING" /\ now < approvals[d].expires_at

\* grant, then assert_granted: the second test uses the same clock value on a
\* record that no later call can change, so it cannot fail here.
Grant(w) ==
    LET d == work[w].decision IN
    /\ wpc[w] = "grant"
    /\ IF Decidable(d, work[w].now)
         THEN /\ approvals' = [approvals EXCEPT ![d].state = "GRANTED"]
              /\ Goto(w, "state")
              /\ UNCHANGED work
         ELSE Return(w) /\ UNCHANGED approvals
    /\ UNCHANGED <<vars, requestVars, decisions, tokenVars, brokerVars>>

\* deny_approval: one call of _decide.
DenyApproval(d) ==
    /\ Decidable(d, clock)
    /\ approvals' = [approvals EXCEPT ![d].state = "DENIED"]
    /\ UNCHANGED <<vars, requestVars, decisions, tokenVars, workerVars, brokerVars>>

-----------------------------------------------------------------------------
(***************************************************************************)
(* Mediators: EnforcementBroker.mediate with DecisionTokenValidator.       *)
(***************************************************************************)

\* The broker observes an operation of a subject and recomputes its hash.
\* started_epoch is read by properties only.
BeginMediate(m, s, a) ==
    /\ mpc[m] = "idle"
    /\ mediations < MaxMediations
    /\ mediations' = mediations + 1
    /\ med' = [med EXCEPT ![m] = [subject |-> s, action |-> a, now |-> clock, token |-> 0,
                                  started_epoch |-> capability_epoch]]
    /\ mpc' = [mpc EXCEPT ![m] = "lookup"]
    /\ UNCHANGED <<vars, requestVars, decisionVars, tokenVars, workerVars, counts,
                   effects, receipts>>

\* One receipt, and the call is over.
Emit(m, outcome) ==
    /\ receipts' = [receipts EXCEPT ![outcome] = @ + 1]
    /\ mpc' = [mpc EXCEPT ![m] = "idle"]
    /\ med' = [med EXCEPT ![m] = NoMediation]

\* Mutant: the agent, runtime and session of the token are not compared.
MutAnyHolder(m, i) ==
    /\ tokens[i].action = med[m].action
    /\ tokens[i].not_before <= med[m].now
    /\ med[m].now < tokens[i].expires_at

\* Validator steps 2 to 5 and 7: the token is for this action, this subject
\* and this time (the action hash covers target, operation and payload).
Matches(m, i) ==
    /\ tokens[i].action = med[m].action
    /\ tokens[i].subject = med[m].subject
    /\ tokens[i].not_before <= med[m].now
    /\ med[m].now < tokens[i].expires_at

\* The presented token is fetched and compared.
Lookup(m) ==
    LET i == store[med[m].action] IN
    /\ mpc[m] = "lookup"
    /\ IF i # 0 /\ Matches(m, i)
         THEN /\ med' = [med EXCEPT ![m].token = i]
              /\ mpc' = [mpc EXCEPT ![m] = "epoch"]
              /\ UNCHANGED receipts
         ELSE Emit(m, "DENIED")
    /\ UNCHANGED <<vars, requestVars, decisionVars, tokenVars, workerVars, counts,
                   mediations, effects>>

\* Mutant: the epoch of the token is not compared.
MutAnyEpoch(m) == TRUE

EpochFresh(m) == tokens[med[m].token].capability_epoch = capability_epoch

\* Validator step 6: the epoch is compared with the current one.
CheckEpoch(m) ==
    /\ mpc[m] = "epoch"
    /\ IF EpochFresh(m)
         THEN mpc' = [mpc EXCEPT ![m] = "consume"] /\ UNCHANGED <<med, receipts>>
         ELSE Emit(m, "DENIED")
    /\ UNCHANGED <<vars, requestVars, decisionVars, tokenVars, workerVars, counts,
                   mediations, effects>>

\* Mutant: one use too many.
MutUsesOffByOne(m) == counts[med[m].token] <= 1

\* max_uses is 1: the control plane never asks for more.
Unused(m) == counts[med[m].token] < 1

\* Validator step 8: TokenUseTracker.consume, one step under its lock.
Consume(m) ==
    /\ mpc[m] = "consume"
    /\ IF Unused(m)
         THEN /\ counts' = [counts EXCEPT ![med[m].token] = @ + 1]
              /\ mpc' = [mpc EXCEPT ![m] = "execute"]
              /\ UNCHANGED <<med, receipts>>
         ELSE Emit(m, "DENIED") /\ UNCHANGED counts
    /\ UNCHANGED <<vars, requestVars, decisionVars, tokenVars, workerVars,
                   mediations, effects>>

\* _execute performs the action; the receipt follows in a step of its own.
Execute(m) ==
    /\ mpc[m] = "execute"
    /\ effects' = [effects EXCEPT ![med[m].token] = @ + 1]
    /\ mpc' = [mpc EXCEPT ![m] = "receipt"]
    /\ UNCHANGED <<vars, requestVars, decisionVars, tokenVars, workerVars, counts,
                   med, mediations, receipts>>

\* _execute raises, before or after its effect: the token stays consumed and
\* the receipt says FAILED.
ExecuteFails(m) ==
    /\ mpc[m] = "execute"
    /\ \/ effects' = [effects EXCEPT ![med[m].token] = @ + 1]
       \/ UNCHANGED effects
    /\ Emit(m, "FAILED")
    /\ UNCHANGED <<vars, requestVars, decisionVars, tokenVars, workerVars, counts,
                   mediations>>

\* Mutant: the last receipt of mediate is forgotten.
MutNoReceipt(m) ==
    /\ mpc' = [mpc EXCEPT ![m] = "idle"]
    /\ med' = [med EXCEPT ![m] = NoMediation]
    /\ UNCHANGED receipts

EmitExecuted(m) == Emit(m, "EXECUTED")

EndMediate(m) ==
    /\ mpc[m] = "receipt"
    /\ EmitExecuted(m)
    /\ UNCHANGED <<vars, requestVars, decisionVars, tokenVars, workerVars, counts,
                   mediations, effects>>

-----------------------------------------------------------------------------
EvaluateStep(w) ==
    \/ CommitReplay(w) \/ RejectReplay(w) \/ CheckSession(w)
    \/ PolicyDenies(w) \/ PolicyAllows(w) \/ PolicyParks(w)

WorkerStep(w) ==
    \/ EvaluateStep(w)
    \/ Grant(w)
    \/ ReadState(w) \/ Gate(w) \/ Mint(w) \/ Present(w) \/ RecordDecision(w)

WorkerBegins(w) ==
    \/ \E e \in Envelopes : BeginEvaluate(w, e)
    \/ \E d \in DecisionIds : BeginApprove(w, d)

MediatorStep(m) ==
    \/ Lookup(m) \/ CheckEpoch(m) \/ Consume(m)
    \/ Execute(m) \/ ExecuteFails(m) \/ EndMediate(m)

MediatorBegins(m) == \E s \in Subjects, a \in Actions : BeginMediate(m, s, a)

\* AdminPlane.quarantine and reset_containment, where the principal is the
\* approver, and the behaviour engine's evaluate.
ContainmentStep(t) ==
    /\ \/ \E s \in Subjects, f \in Features : CallEvaluate(t, s, f)
       \/ \E s \in Subjects, target \in States : CallKillSwitch(t, s, target)
       \/ \E s \in Subjects, method \in Methods : CallRecover(t, s, method, TRUE)
       \/ EngineStep(t)
    /\ UNCHANGED planeVars

PlaneIdle ==
    /\ \A w \in Workers : wpc[w] = "idle"
    /\ \A m \in Mediators : mpc[m] = "idle"
    /\ \A t \in Threads : pc[t] = "idle"
    /\ UNCHANGED allVars

PlaneNext ==
    \/ \E w \in Workers : WorkerBegins(w) \/ WorkerStep(w)
    \/ \E d \in DecisionIds : DenyApproval(d)
    \/ \E m \in Mediators : MediatorBegins(m) \/ MediatorStep(m)
    \/ \E t \in Threads : ContainmentStep(t)
    \/ Tick /\ UNCHANGED planeVars
    \/ PlaneIdle

PlaneSpec == PlaneInit /\ [][PlaneNext]_allVars

\* Threads keep running: a call once begun goes on to its end.
PlaneFairness ==
    /\ \A w \in Workers : WF_allVars(WorkerStep(w))
    /\ \A m \in Mediators : WF_allVars(MediatorStep(m))
FairPlaneSpec == PlaneSpec /\ PlaneFairness

-----------------------------------------------------------------------------
(***************************************************************************)
(* Properties.                                                             *)
(***************************************************************************)

Work == [envelope: Envelopes, decision: Nat, now: Nat, state: States, token: Nat,
         since: Nat]
Mediation == [subject: Subjects, action: Actions, now: Nat, token: Nat,
              started_epoch: Nat]
Decision == [envelope: Envelopes, status: {"NONE", "PENDING_APPROVAL", "ALLOW"}]
Approval == [state: {"NONE", "PENDING", "GRANTED", "DENIED"}, expires_at: Nat]
Token == [decision: Nat \ {0}, subject: Subjects, action: Actions,
          capability_epoch: Nat, containment_state: States, not_before: Nat,
          expires_at: Nat, since: Nat, until: Nat]

WorkLabels == {"idle", "replay", "session", "state", "gate", "policy", "mint",
               "present", "record", "grant"}
MediationLabels == {"idle", "lookup", "epoch", "consume", "execute", "receipt"}

StoresOK ==
    /\ nonces \in SUBSET Envelopes
    /\ max_sequence \in [Subjects -> Nat]
    /\ decisions \in Seq(Decision)
    /\ approvals \in Seq(Approval) /\ Len(approvals) = Len(decisions)
    /\ tokens \in Seq(Token)
    /\ \A i \in TokenIds : tokens[i].decision \in DecisionIds
    /\ store \in [Actions -> {0} \cup TokenIds]
    /\ counts \in Seq(Nat) /\ Len(counts) = Len(tokens)
    /\ effects \in Seq(Nat) /\ Len(effects) = Len(tokens)

WorkersOK ==
    /\ wpc \in [Workers -> WorkLabels]
    /\ work \in [Workers -> Work \cup {NoWork}]
    /\ \A w \in Workers : wpc[w] # "idle" =>
          /\ work[w] \in Work
          /\ work[w].decision \in {0} \cup DecisionIds
          /\ wpc[w] \in {"mint", "present", "record", "grant"} => work[w].decision # 0
          /\ wpc[w] \in {"present", "record"} => work[w].token \in TokenIds

BrokersOK ==
    /\ mpc \in [Mediators -> MediationLabels]
    /\ med \in [Mediators -> Mediation \cup {NoMediation}]
    /\ \A m \in Mediators : mpc[m] # "idle" =>
          /\ med[m] \in Mediation
          /\ mpc[m] # "lookup" => med[m].token \in TokenIds
    /\ mediations \in Nat
    /\ receipts \in [Outcomes -> Nat]

\* Every variable keeps its type, and the stores agree in length: one
\* approval slot per decision, one use counter and one effect counter per
\* token, and no reference to a decision or token that does not exist.
PlaneTypeOK == TypeOK /\ StoresOK /\ WorkersOK /\ BrokersOK

\* A token's action is performed at most once, however many brokers race for
\* it: the use is counted before the effect and never given back.
SingleUse == \A i \in TokenIds : effects[i] <= 1

\* One signed request yields at most one token, whether it is delivered twice,
\* to two workers at once, or its decision is approved twice.
OneTokenPerEnvelope ==
    \A i, j \in TokenIds :
        decisions[tokens[i].decision].envelope = decisions[tokens[j].decision].envelope
            => i = j

\* No token exists for a decision whose approval is pending or was denied:
\* where the policy asked for a human, a human granted first, and a denial is
\* final.
ApprovalRespected ==
    \A i \in TokenIds : approvals[tokens[i].decision].state \in {"NONE", "GRANTED"}

\* Whatever is performed was authorized for that very subject and action, by
\* a token valid when the broker looked, although the store is shared by all
\* subjects and its entries are replaced while brokers run.
EffectAuthorized ==
    \A m \in Mediators : mpc[m] = "receipt" =>
        LET t == tokens[med[m].token] IN
        /\ SubjectOf[decisions[t.decision].envelope] = med[m].subject
        /\ ActionOf[decisions[t.decision].envelope] = med[m].action
        /\ t.not_before <= med[m].now /\ med[m].now < t.expires_at

\* A mediation that begins after a containment transition bumped the epoch
\* never performs an action under a token minted before that bump: a kill
\* switch really invalidates every outstanding token.
OldTokensStayDead ==
    \A m \in Mediators : mpc[m] = "receipt" =>
        tokens[med[m].token].capability_epoch >= med[m].started_epoch

\* The subject's state after its first n transitions.
StateAfter(s, n) == IF n = 0 THEN "NORMAL" ELSE transitions[s][n].new

\* For every token there was a moment between the start of the call that
\* minted it and the minting at which its subject was not blocked: a call
\* that starts after a kill switch returned mints nothing until the subject
\* recovers, on the evaluate path and on the approve path.
GateHeldOnce ==
    \A i \in TokenIds :
        \E n \in tokens[i].since .. tokens[i].until :
            ~ blocks_new_consequential_tokens(StateAfter(tokens[i].subject, n))

\* Every mediation that is over left exactly one receipt, and every action
\* that was performed has an EXECUTED or FAILED receipt or is about to emit
\* one: no effect of a broker goes unrecorded, and no EXECUTED receipt lacks
\* its effect.
AuditComplete ==
    LET performed == Cardinality({i \in TokenIds : effects[i] > 0})
        executed  == receipts["EXECUTED"] + Cardinality({m \in Mediators : mpc[m] = "receipt"})
    IN
    /\ mediations = receipts["EXECUTED"] + receipts["FAILED"] + receipts["DENIED"]
                     + Cardinality({m \in Mediators : mpc[m] # "idle"})
    /\ executed <= performed /\ performed <= executed + receipts["FAILED"]

-----------------------------------------------------------------------------
(***************************************************************************)
(* Refinement: what an observer who knows only requests sees.              *)
(***************************************************************************)

TokensOf(e) == {i \in TokenIds : decisions[tokens[i].decision].envelope = e}
DecisionsOf(e) == {d \in DecisionIds : decisions[d].envelope = e}

PhaseOf(e) ==
    IF TokensOf(e) # {}
      THEN IF \E i \in TokensOf(e) : counts[i] > 0 THEN "spent" ELSE "granted"
    ELSE IF \E d \in DecisionsOf(e) : approvals[d].state = "GRANTED" THEN "approved"
    ELSE IF \E d \in DecisionsOf(e) : approvals[d].state = "DENIED" THEN "denied"
    ELSE IF \E d \in DecisionsOf(e) : approvals[d].state = "PENDING" THEN "parked"
    ELSE IF e \in nonces THEN "accepted"
    ELSE "new"

PerformedFor(e) ==
    IF \E i \in TokensOf(e) : effects[i] > 0
      THEN effects[CHOOSE i \in TokensOf(e) : effects[i] > 0] ELSE 0

Lifecycle == INSTANCE AuthorityLifecycle WITH
    Requests  <- Envelopes,
    phase     <- [e \in Envelopes |-> PhaseOf(e)],
    performed <- [e \in Envelopes |-> PerformedFor(e)]

\* The whole pipeline, with its races between workers, approvers, brokers and
\* administrators, implements the lifecycle of a request's authority.
ImplementsLifecycle == Lifecycle!LifecycleSpec

\* Every evaluate, approve and mediate call comes to an end.
CallsReturn ==
    /\ \A w \in Workers : (wpc[w] # "idle") ~> (wpc[w] = "idle")
    /\ \A m \in Mediators : (mpc[m] # "idle") ~> (mpc[m] = "idle")

=============================================================================

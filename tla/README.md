# CV-ZTTE in TLA+

TLA+ specifications of CV-ZTTE, a zero-trust execution environment for AI
agents (`src/cvztte`, `src/enforcement`), with TLC runs on small instances and
TLAPS proofs. Every definition is read off the Python source; `PROJECT.json`
maps each one to the lines it stands for.

## 1. The system

An agent never acts on its own. It sends a *signed request* to the **control
plane**, which verifies it, commits its nonce and sequence number, checks the
session, asks the **containment engine** whether the subject may still gain
authority, asks **OPA** for a decision and, where the policy wants a human,
parks it for **approval**. If all agree the **decision-token authority** mints
a short-lived single-use token for exactly that action. An **enforcement
broker** later observes the real operation, recomputes its hash, validates the
token presented for it, performs the effect and emits a receipt. Behaviour
counters feed back into containment; a containment transition advances a global
*capability epoch*, which invalidates every outstanding token.

### Inventory

| Component | State | Operations | Hard behaviour | What makes it correct |
|---|---|---|---|---|
| containment engine (`containment/`) | state, transition records and last-transition time per subject; one capability epoch | evaluate, kill_switch, recover, reads | threads on one subject; many subjects sharing one epoch; a clock read before a lock | records form one chain; every epoch has one cause; recovery only through the table; escalation gives back no capability but a diagnostic one |
| control plane (`control_plane/plane.py`) | decisions with their parked mints | evaluate, approve, deny_approval, evaluate_execute, admin calls | a pipeline of separately locked steps on a threaded HTTP server | one token per request, human where asked, containment honoured |
| approvals (`control_plane/approval.py`) | records PENDING/GRANTED/DENIED with expiry | request, grant, deny, assert_granted | two approvers, grant against deny, expiry | decided once; denied never mints |
| replay guards (`control_plane/replay.py`, `replay/`) | nonces, last sequence per session | check_and_commit | duplicates and reordering; nonce expiry in Redis | a request is accepted at most once |
| decision tokens (`decision/`) | presented tokens by (audience, hash); use counts; epochs | issue, present, authorize, consume | epoch read, use count and effect are separate steps | single use, exact binding, stale epochs dead |
| enforcement brokers (`enforcement/`) | receipts; the file system, network and processes they act on | mediate | failure between consume, effect and receipt; paths replaced between system calls | one receipt per mediation, no unrecorded effect, nothing outside the workspace, nothing but the approved payload leaves |
| identity (`identity/`) | agents, keys PREPARED/ACTIVE/RETIRED/REVOKED | generate, import, activate, rotate, revoke, verify | long sequences of administrative calls | revocation is final; one active signing key |
| sessions (`session/`) | sessions with expiry | create, validate, revoke | expiry during a call | an expired or revoked session authorizes nothing |
| confidential analytics (`control_plane/cac_service.py`, `confidential_query/`, `cac/`) | parked decryptions, released results, query history | encrypt, compute, decrypt_request, approve_decrypt | stale containment state in a parked request; evaluate and record of the governor are separate; envelopes are written by the callers | budget exceeded by no more than the calls that overlap; one release per request, under an approval of the file decrypted; a trace that says what is known |
| threshold decryption and FHE broker client (`cac/`) | contexts, key files, a public key file per party, ciphertext files | register, key ceremony, encrypt, run, partial decrypt, fuse | rounds that fail after a file, ceremonies that overlap on the same files | fewer than all parties never decrypt; running a ceremony again repairs a failed one |
| delegation (`delegation/`, `enforcement/message_broker.py`) | authorities, delegations with a revoked flag, no lock | issue_root, issue_child, validate_for_agent, revoke, send | a revocation sweep during an issue, a validation or another sweep | authority only shrinks along a chain, also as the policy grants it; a revocation reaches every descendant |
| audit log (`audit/`) | hash chain, checkpoints | append, verify, checkpoint | a checkpoint takes the lock twice | what verifies is what was stored when the next entry came; a checkpoint signs the whole log |
| behaviour engine (`behavior/`) | event queues per scope, cumulative counters | record, transition, snapshot | window edges, callers whose clocks were read in another order | counters match the events in the window |
| lineage (`lineage/`) | provenance graph | record_*, queries | order of recordings | acyclic, complete ancestry |
| onboarding (`onboarding/`) | mode, shadow observations, enforced profiles | set_mode, observe, report, activate | mode changes against each other and against activations on one log | every mode change is on the log; only a build that passes is enforced |
| backpressure (`config/backpressure.py`) | semaphore, counters | enter, exit | two locks for one count | never above capacity; a permit comes back exactly once |
| policy, zkauthz, judge, ezkl, adapters, canonical encoding, apps, services | mostly none | pure functions, subprocesses, I/O | failure of a subprocess | fail closed |

The hazards this code is exposed to, each at its line, are in `PROJECT.json`.

## 2. Modules

* **ContainmentModel** - the pure part: the ladder (`severity`, `more_severe`),
  the threshold rules (`assess`), the recovery table, the capability ceiling.
  A feature map keeps the four counters and the one flag the rules read.
* **Containment** - `ContainmentEngine`. A call (`CallEvaluate`,
  `CallKillSwitch`, `CallRecover`) reads its clock and queues; `EnterCommits`
  or `EnterReturns` decides under the subject's lock; `Bump` is
  `_bump_capability_epoch`; `Commit` publishes state, time and record and
  releases the lock. `Bump` and `Commit` are separate because readers of the
  state and of the epoch take other locks and do see the moment between them.
  The epoch is a counter; the other epochs of `EpochSet` never move in the code.
* **CapabilityDecay** - `effective_capabilities`, read at the current state.
* **ControlPlane** (extends Containment) - workers run `evaluate` and
  `approve`, mediators run `mediate`, administrators act on the engine. Each
  action is one locked region or one read; a worker's or mediator's record holds
  what the call has read so far, including the clock value it took on entry and
  keeps using. OPA may deny, allow or require approval (it is external). A
  decision id and a token nonce are indexes into sequences, because the code
  draws fresh random ones. MACs, signatures and hashes are taken as sound. An
  action stands for the pair (audience, action_hash), the key of the token
  store. Two fields of a token (`since`, `until`) and one of a
  mediation (`started_epoch`) are history used by the properties only.
* **AuthorityLifecycle** - the abstract specification: a request's authority
  moves new -> accepted -> (parked -> approved | denied) -> granted -> spent,
  only forward, and the action is performed at most once, after spending.
  `ControlPlane` implements it under the mapping `PhaseOf`, `PerformedFor`.
* **KeyRegistry** - `identity/registry.py`. Administrators are threads because
  the registry has no lock: a call that needs the signature provider is split at
  that call (a subprocess), and the two loops over the dictionary take one record
  per step and raise when another thread has inserted a key, as Python does.
  A test and assignment of one record without a call in between is one step.
  `Verifies` and `SigningKeys` are the lookups. `overlapped` and `killed` are
  history for the properties.
* **QueryGovernance** - the governor's decision as a pure operator over a query
  and the earlier releases of its scope. **Lineage** - the provenance graph: node
  identity is (kind, reference), the richer record is kept, `trace` is the set of
  ancestors. **ConfidentialRelease** extends both with `CACService`: callers run
  `decrypt_request` and `approve_decrypt`; each step is one locked region or one
  subprocess. The caller passes the containment state it reads; it stays with the
  request. The result envelope is the caller's too, and the service compares it
  with nothing it kept: `Envelopes` has any identifier (a result, or one of the
  `Strays` the service never returned), any classification and the hash of any
  file, and `path` names any file, an input ciphertext included. The gate compares
  that hash with that file. The broker may fail at any time. A file that is
  replaced between the gate's reading and the broker's is outside the model, as
  are plaintext values and their rounding.
* **Policy** - the rego decision (`decide`) and the grant that `opa_input.py`
  derives from a delegation, as pure operators over small records. A resource is
  covered by a scope through the relation `Covers`, which stands for "is a
  prefix of".
* **Delegation** (extends Policy) - `DelegationRegistry` and the message broker.
  The registry has no lock: `issue_child` validates and inserts in two steps, the
  chain walk reads one ancestor per step, and the revocation sweep takes one
  entry per step and raises if the dictionary has grown. `send` validates the
  chain and then delivers. A refused call changes nothing and is no action.
* **FheBroker** - the context and program registries and the broker client. A
  key is the set of secret shares it is the sum of, so "decrypts" means "holds
  exactly these shares". Each call of the native program is a step and may stop
  after any file it writes. **ThresholdFhe** extends it with the ceremony round
  by round, the partial decryptions and their fusion. Two ceremonies share their
  files. `Rosters` are the participant lists decryption jobs name, any lists of
  parties in the proofs.
* **AuditLog** - `append`, `verify` and `checkpoint` in its two locked regions.
  The hash of an event is its preimage. `Alter`, `Remove` and `Truncate` are
  faults of the storage (external); `sealed` is history. `verify_checkpoint`
  checks a signature and reads no log, so there is nothing of it in the model.
* **Conformance** - the activation checks as operators over a *build*: each of
  the twelve tests between a request and its effect (the store's lookup, those of
  `authorize`, the exact match, the effect) is made, omitted, or refuses whatever
  comes. A check is satisfied by any refusal, as in the code. **Onboarding**
  extends both with the mode and its lock, the shadow observations and `activate`.
  `apply` and `record` are separate steps of one thread; the caller that hands the
  outcome from one to the other is not in the repository.
* **Brokers** - `mediate` with what each specialised broker observes, refuses,
  performs and receipts. The validator returns any decision, since a broker has to
  reject what does not match. A secret is *plain*, or *escaped* when JSON writes
  one of its characters differently; the search for it runs over the JSON text.
  The file broker runs one system call per step while
  `Swap` (external: another process of the workspace) replaces an entry.
  Files are inodes; `MaxInodes` bounds the file system, and an inode that a
  descriptor or an entry names is not given to a new file. `Swap` renames and
  plants symbolic links; it plants no hard link (section 4).
* **Freshness** (the Redis script with nonce expiry), **Admission**
  (`BoundedAdmission`, semaphore and counters apart) and **Behavior** (one scope
  of the engine) are composed by **Intake**: the SDK numbers requests and may
  restart, every request stays in the network, a worker verifies it, commits it,
  checks the session, asks OPA, then enters the bound and records a transition.
  A behaviour event carries a time of its own, and a job may raise before its event
  is appended. The cumulative counters of the behaviour engine are left out.
  Redis may fail before the script or lose its answer; OPA may be unreachable.
* **MC\*** - instances for TLC.
* **\*Proofs** - theorems: **ControlPlaneProofs** (containment engine, capability
  decay, pipeline, refinement), **KeyRegistryProofs**, **ReleaseProofs**
  (confidential release with governance and lineage), **DelegationProofs** (with the
  policy), **ThresholdFheProofs**, **OnboardingProofs** (with the audit log and the
  conformance checks), **BrokersProofs**, **IntakeProofs** (freshness, admission,
  behaviour windows).

Definitions whose names start with `Mut` are plausible slips of the code; each
breaks one property when it replaces the definition after it.

## 3. Runs

| Run | Instance | Shows |
|---|---|---|
| `containment` | 2 subjects, 2 threads, 3 transitions, clock 0..1, cooldown 1, the profile of the repository's decay test and a capability that is both diagnostic and external, fairness | chain, epochs, cooldown, recovery gate; what escalation may give back; locks are given back |
| `plane_mint` | 1 request, 2 workers, 1 broker, 2 transitions, clock 0..1 | one token per request; approvals respected; gate; stale tokens dead; implements AuthorityLifecycle |
| `plane_brokers` | 2 subjects sharing one action, 2 brokers, 3 mediations | single use; exact holder; complete audit |
| `plane_live` | 2 workers, 1 broker, fairness | every call returns |
| `keys` | 2 administrators, 2 agents, 2 keys, clock 0..1 | no verification gap, loops that raise included; one signing key; revoke_agent is final |
| `release` | 2 callers, 3 requests, limit 1 in a window of 1, public and confidential labels, timestamps 0 and 1 in any order, expiry, containment, no results (every release is of an input file under a stray name) | no window exceeds its limit by more than the calls that overlap; one release per request |
| `envelopes` | 2 callers, 1 ciphertext, 2 results of one program, stray names, 2 confidential requests for overlapping queries | an approval names the file decrypted; a trace is exactly what the service knows; nothing released leaks against what was accounted for when it was requested |
| `delegation` | 2 threads, 3 delegations, depth 2, an authority registered late, clock 0..1 | attenuation of delegations and of the grants derived from them; no message carries authority already revoked; a revocation that returns has reached all that existed when it began |
| `threshold` | 3 parties, 2 threads, 2 generations per party, 1 input, 1 result | a plaintext takes every party's share; a ceremony that runs alone repairs what others left |
| `onboarding` | 2 threads, 4 modes, 8 builds and a profile that lacks a control, 5 calls and faults in any mix | mode and log agree; shadow report exact; what verifies was stored so and a checkpoint signs the whole log; only enforcing builds are enforced |
| `brokers` | 2 threads, 3 swaps, 4 inodes, a request of every broker | no byte outside the workspace is read or written; every effect is on a receipt; nothing is touched without an ALLOW for it, and no plain secret leaves |
| `intake` | 2 workers, 2 agents, 1 session, 2 requests, 2 of 3 events, 1 SDK restart, clock 0..2, nonces forgotten after 1 tick, capacity 1, windows 0 and 1 | a request is committed at most once and in order; permits are exact and never exceed the capacity; window counts are exact up to clock order |

Bounds. Every race the properties are about needs two actors and at most two
transitions: the ladder has an escalation and a way back, a token is minted
before or after a bump, a record follows another. `MaxEpoch` counts transitions,
`MaxMediations` calls of mediate, `MaxTime` clock ticks; time to live values of
one tick make every expiry happen inside the bound. Threads are symmetric, and so
are agents and keys; runs with fairness use no symmetry. Two keys are
enough for a predecessor and a successor; two requests for one to be released
between the other's two governance checks, a third for one that comes after both.
Two results of one program share its node in the lineage. The eight builds are the
whole one, one per thing a check is after, and those that omit what no check probes
or hide an omission behind a test that refuses everything; the theorem is about all
of them. Three delegations make a
root, a child and a grandchild; three parties make a first, a middle and a last
round; three swaps replace a directory, put it back and plant a link; a clock of
three ticks lets a nonce be forgotten while its request is still valid. `Idle` and
`PlaneIdle` let a finished instance stutter so that a deadlock is still an error;
`delegation`, `threshold`, `onboarding`, `brokers` and `intake` stop when their
bounds are used up, which is no deadlock of the code (no action there waits for a
lock another thread keeps), so their configurations do not check for one.

Fairness. `Fairness` assumes weak fairness of a thread's steps inside its
critical section, `PlaneFairness` of a running call's steps: a thread that holds
no lock and waits for nobody is eventually scheduled. Nothing is assumed of
arrivals, of time or of administrators.

## 4. Where the code and its documentation differ

All of these are in the modules as the code has them; the properties state what
does hold.

1. plane.py:10 says a RESTRICTED+ subject cannot mint; the gate closes at
   QUARANTINED (containment/model.py:119). A subject that one denial too many has
   made RESTRICTED sends its next request and gets a token.
2. docs/KILL_SWITCH.md:22 says a kill blocks new mints; one that completes
   between the gate at plane.py:230 and the mint at plane.py:302 does not, and
   since the token is stamped with the epoch after the bump it is valid.
   `GateHeldOnce` says what remains: the gate was open at some time in the call.
3. registry.py:214 calls revocation irreversible; `import_verification_key`
   (registry.py:177) replaces a revoked record by an active one.
4. docs/CONFIDENTIAL_QUERY_GOVERNANCE.md:66 says a DENY never degrades to an
   allow; `_release_now` (cac_service.py:278) uses only the rounding of the
   decision, so of two parked requests that both fit the budget alone, the second
   is released after the governor answers DENY.
5. cac_service.py:244 says containment is re-checked; line 251 passes the state
   stored when the request was parked, so a recipient quarantined since gets the
   value.

Others:

* docs/CONTAINMENT.md:56 calls the ceilings monotone. `_ceiling_allows`
  (containment/model.py:79) asks at QUARANTINED only whether a capability is
  diagnostic, and no code keeps a profile from having one that also writes, uses
  the network, secrets or sub-agents, or is of high risk: such a capability is lost
  at SUSPICIOUS or RESTRICTED and comes back at QUARANTINED.
  `EscalationRestoresOnlyDiagnostics` says that nothing else does.
* plane.py:334 says the second approval test defends against expiry between
  grant and mint; both tests use the clock value of plane.py:323.
* registry.py:222 promises that `revoke_agent` revokes every key; a key whose
  generation began before is inserted ACTIVE afterwards (registry.py:150), and
  `verify_with_key` does not look at the agent. `KillSwitchFinal` therefore
  speaks of revocations that overlapped with no other call.
* governance.py:143 says "in one step"; evaluate and record are two locked
  regions, so calls that overlap between them exceed the rate limit together.
  `BudgetOvershootBounded` says that they exceed it by no more than their number
  less one. What is released although the second evaluation denies it (point 4) is
  not recorded, so the bound is on what is accounted for; for the same reason
  `NoLeakPattern` compares a release with those accounted for when its request
  came, and two requests that overlap may leak against each other.
* cac_service.py:177 and 181 take classification, identifier and hash from the
  envelope the caller supplies, and nothing compares it with what `compute`
  returned (`assert_no_substitution`, cac/envelope.py:82, has no caller): a result
  labelled PUBLIC by its requester is released without approval, and an input
  ciphertext can be released under any name. docs/CAC_ARCHITECTURE.md:68 says
  substitution is refused. `HumanApproved` therefore speaks of the label on the
  request, and `Traceable` says what a trace tells then: the hash on the release is
  that of the file, and it equals the one on the named result only if that was the
  file.
* docs/CONFIDENTIAL_QUERY_GOVERNANCE.md:57 gates small groups behind approval;
  cac_service.py:188 continues on REQUIRE_APPROVAL.
* docs/DATA_LINEAGE.md:11 says "exactly"; program nodes are shared
  (lineage/graph.py:106), so a trace names the ciphertexts of other results too.
* docs/DATA_LINEAGE.md:74 says every release links to its approval;
  cac_service.py:226 drops the caller's approval id.
* coordinator.py:14 says a missing party raises FHE_THRESHOLD_INSUFFICIENT; the
  coordinator service passes the number of the participants it was given as the
  number expected (services/decrypt-coordinator/main.py:85), so the test at
  coordinator.py:151 cannot fail there. The result is then meaningless numbers and
  never the plaintext: that is `AllPartiesNeeded`.
* audit/log.py:4 says any edit or removal is detected by `verify`; a truncated
  tail or a change of the last entry is not, and no code compares a checkpoint with
  the chain (`verify_checkpoint` checks the signature only). The chain is unkeyed,
  so a writer that recomputes every hash after its edit is not noticed either; the
  faults of the model leave the links alone. `checkpoint` verifies and reads the
  head under two acquisitions of the lock (log.py:141): a fault in between is
  signed. `TamperEvident` has all but the last entry, and checkpoints no fault
  split.
* `O_CREAT` and `O_TRUNC` in the file broker take effect before the descriptor is
  checked, and `unlink` is not checked again: a file can be created, emptied or
  removed outside the workspace. `BytesContained` is about bytes. A hard link in
  the workspace to a file outside would pass the test at file_broker.py:100, which
  looks at the path of the descriptor; `Swap` plants none.
* docs/ENFORCEMENT_FABRIC.md:66-68 says that a constraint mismatch is receipted and
  that an execution error performs no effect. `_assert_exact_match` (common.py:195)
  is outside the `try` and raises with no receipt, and an operation that fails after
  its effect, or whose result is withheld, has had it. `EffectsReceipted` says what
  holds: the first touches nothing, the second is on a FAILED receipt.
* docs/ENFORCEMENT_FABRIC.md:51 says a secret can never leak into a result.
  secret_broker.py:90 and mcp_gateway.py:92 look for the raw secret in
  `json.dumps` of the result, which escapes newlines, quotes, backslashes and
  non-ASCII characters: a secret with one of them is not found.
  `OnlyApprovedLeaves` speaks of the others.
* A request's freshness is committed (plane.py:217) before its session is
  checked, so a request of another agent that names the session uses up its
  sequence numbers although it is refused.
* A behaviour snapshot undercounts when a caller with a later clock has pruned
  before it; `WindowsExact` states the margin.
* A child inserted while its parent is being revoked keeps `revoked = False`; the
  chain walk refuses it all the same, which is how `NoLaundering` holds.
* The conformance harness wires the enforcement code of its own build and not the
  deployed brokers; `EnforcedConforms` is therefore about builds. A check passes on
  any `CVZTTEError` (conformance.py:139), and none presents a token with a bad MAC,
  of another agent or audience, expired or used up: a build that omits one of those
  tests is ENFORCED. What the checks do establish is that an action runs only on a
  token that allows it in the current epoch.
* `BoundedAdmission` and `BehaviorEngine` have no caller in the repository, nor do
  `PolicyBundleRegistry`, `FHEProgramRegistry.register` and `assert_no_substitution`.
  The first two are called in `Intake` the way their docstrings prescribe.

## 5. Proofs

Every invariant and every action property of the runs, and the refinement, is a
theorem of its specification: TLC checks the instance of section 3, the theorem
holds for every value of the constants that meets the named assumptions, so for
any number of threads, subjects, requests, keys, parties, events or files. The
bounds (`MaxEpoch`, `MaxTime`, `MaxGens` ...) are constants too: they cut off
behaviours, and the theorems hold wherever they are put. No theorem has a
hypothesis beyond those assumptions. Each inductive invariant was first checked by
TLC as an invariant of its component's instance.

None of the properties is inductive alone. What each proof adds:

| Module | Inductive invariant | What it says and why it is needed |
|---|---|---|
| ControlPlaneProofs | `EngineInv` | A thread in its critical section holds its subject's lock (`LocksHeld`), so what it decided on entry still stands at its commit (`DecisionsStand`); its stamp is later than every epoch recorded for the subject (`EpochsPast`), so the record it appends keeps the chain and claims an epoch nobody else has; `LastAtRecorded` ties the cooldown test to the records. |
| | `PlaneInv` | `EngineInv`, the types, and who may be where at the same time. `DecisionInv`: one worker at a time is about to decide a request, the one whose nonce commit succeeded. `MintInv`: one worker is about to mint for a decision, the one that decided it or the one whose grant succeeded. `BrokerInv`: one broker is about to act on a token, the one whose consume succeeded. `GateInv`: a call past the gate saw an unblocked state since it began. |
| KeyRegistryProofs | `RegistryInv` | `Serial`: what each unlocked loop has established at each position, as long as no call has overlapped another. `KilledOK`: after a completed `revoke_agent` the agent stays disabled and no call is left that could create a key for it. |
| ReleaseProofs | `ReleaseInv`, `HistoryOK` | `CarryInv`: a request is carried past the gate by the call that made it while it has no approval, or by the one approver whose grant succeeded; nothing else keeps two approvers apart, since the parked entry is removed only after publication. `LineageInv`: the nodes, arcs and hashes of all that is stored, and that nothing else is in the graph, stray names included. |
| | `BudgetInv` | For every window, what is accounted for in it and the callers between the two locked regions of the governor together stay below the limit plus the callers less one: a call that finds room adds itself to the second, recording moves it to the first. |
| | `LeakInv` | Every request past the first governance step, parked ones included, was vetted against the history known when it came; the history only grows, so it stays vetted. |
| DelegationProofs | `DelegationInv` | What a call has established about the whole lineage after each of its steps, in a form (`Sticks`) that survives what other threads do to an unlocked registry: insert, and set a revoked flag. `issue_child` compares with the parent alone; attenuation over the chain follows because lineages are closed upwards. |
| ThresholdFheProofs | `FheInv` | The public key file of the k-th party, once written, has a share of each of the first k parties, whichever ceremonies wrote it (`KeysOK`): enough for a complete key under any overlap. A ceremony that is alone knows that each file it wrote is the sum of the shares held now (`AloneOK`, `AgreedOK`). |
| OnboardingProofs | `OnboardingInv` | `CleanLog`: while nothing was corrupted the log tells the history of the mode, each change starting from the mode the one before it left, the last leaving the mode on record. `Linked`: whatever the faults, an entry never stands behind the position it was appended at, and one that still stands there links to what was stored before it then. `Signed`, `Relied`: a checkpoint signs what was stored, and its thread may rely on the chain it verified as long as no fault came. `ModeHeld`: outside `set_mode` the mode is the one on record. `Observed`: an outcome, reported or on its way, keeps the mode it was decided under. |
| BrokersProofs | `BrokersInv` | A call's program counter tells under which decision it runs, which descriptor it holds, what it may have touched and whether it has its receipt; a verified descriptor stays below the root. |
| IntakeProofs | `IntakeInv` | The sequence key bounds every committed number of its session (`KeyBounds`), which carries what the nonce set forgets; permits and counter are the sizes of two sets of workers; the queue counts what the history counts from every time no pruning has passed (`QueueExact`). |

`PlaneImplementsLifecycle` shows the refinement of `AuthorityLifecycle` under the
mapping of section 2: initial states map to the initial state, and each step of
the pipeline to one forward move of one request, one performance, or a stutter.
It uses `PlaneInv`: that a step moves one request only is that nobody else is
deciding, minting for or acting on it.

Arguments over data of any length (what a chain commits to, the last mode change of
a log, what pruning a queue leaves) go by the least counterexample: `LeastNatural`
says that a nonempty set of natural numbers has a least element, and the chain, or
the queue, gives a smaller one.

Other theorems: `AssessMonotone` (worse features never warrant a milder state, for
all thresholds) and `DecayMonotone` (for every profile, what a step that does not
improve a subject's state can give back).

### Assumptions

They are the named `ASSUME`s of the modules, evaluated by TLC in every run.
* Markers for "nobody" or "nothing" (`NoThread`, `NoJob`, `NoKey`, `NoCall`,
  `Unset`) are not values of what they stand beside.
* Times to live, windows, limits, thresholds and bounds are natural numbers, those
  that the code requires to be positive are (`TokenTTL`, `NonceTTL`, `Capacity`);
  envelopes have positive sequence numbers; the file system has room for the two
  files it starts with (`MaxInodes`).
* `Mediators`, `Workers` and `Callers` are finite sets, the last not empty: receipts,
  permits and overlapping calls are counted. A stray name is no number (`Strays`).
* The inputs that are given from outside have the fields the code reads
  (`Builds`, `Offers`, `Queries`, `Decisions`, `Actions`); principals that are or
  become authorities are principals.
* `CeremonyAssumption`: at least two parties (checked by
  `ThresholdKeyCeremony.__init__`) with different names. The second is not
  checked by the code (coordinator.py:65); two participants of one name would
  write the same files and `RetryHeals` would fail.

### Only model-checked

`LockReleased` and `CallsReturn`: liveness under fairness is out of reach of the
provers.

## 6. Plan

1. done: containment, capability decay, control plane, brokers, refinement; key
   registry; confidential release with governance and lineage.
2. done: Redis freshness, sessions and request verification; delegation and the
   rego decision; audit chain and checkpoints; behaviour windows; onboarding modes
   and conformance; bounded admission; threshold decryption and FHE contexts; what
   each broker observes and executes.
3. done: every invariant and action property, and the refinement, proved.
4. left: lemmas a reader may want by themselves (the governor's decision is
   monotone in its history; the rego decision denies by default); the safety part of liveness (a running call always has an enabled
   step) as far as it can be stated without `ENABLED`.

## 7. Not modelled

* Signature providers, canonical encoding, FHE arithmetic, zero-knowledge
  authorization: cryptography and encodings are taken as sound and injective. The
  circuit registry reads a pinned directory and never changes; `plane.py` does not
  call it.
* The judge and its proof of inference: numeric code whose answer is advisory.
* Framework adapters, HTTP routing, subprocess plumbing, file formats, the
  demonstration applications, the Go service and the C++ one but for its key
  generation (`OutPub`): they keep no protocol
  state of their own; clients see their outcomes as nondeterministic.
* The policy bundle registry (no caller) and the configuration profiles (static).
* Creation of sessions: the instances start with the sessions they use.

`PROJECT.json` lists every component with its status and reason.

---------------------------- MODULE KeyRegistry ----------------------------
(***************************************************************************)
(* KeyRegistry (cvztte/identity/registry.py): agents, their keys and the   *)
(* life cycle prepared -> active -> retired, with emergency revocation.    *)
(*                                                                         *)
(* The registry has no lock.  Administrators are threads; a call that asks *)
(* the signature provider for a key waits for a subprocess between its     *)
(* check of the agent and its insertion, and the two loops over the        *)
(* dictionary run one record at a time: Python raises in the middle of a   *)
(* loop when another thread has inserted a key since it began.             *)
(***************************************************************************)
EXTENDS Integers, Sequences

CONSTANTS
    Admins, NoOp,
    Agents,
    KeyIds,     \* fingerprints of key pairs
    NoKey,
    Windows,    \* validity windows: [delay, length] relative to creation
    MaxTime     \* bound on the clock

KeyStates == {"PREPARED", "ACTIVE", "RETIRED", "REVOKED"}

KeyRecords ==
    [agent: Agents, state: KeyStates, private: BOOLEAN,
     not_before: Nat, not_after: Nat]

ASSUME RegistryAssumption ==
    /\ NoKey \notin KeyIds \cup KeyRecords
    /\ Windows \subseteq [delay: Nat, length: Nat]
    /\ MaxTime \in Nat

VARIABLES
    clock,
    agents,   \* _agents: unknown, enabled or disabled
    keys,     \* _keys: records by key id
    order,    \* the key ids of _keys in insertion order
    pc, op,   \* the administrators' program counters and locals
    \* History, for the properties: whether two calls were ever in progress at
    \* once, and the agents for which revoke_agent returned before that.
    overlapped, killed

adminVars == <<pc, op, overlapped>>
registryVars == <<clock, agents, keys, order, adminVars, killed>>

Known == {k \in KeyIds : keys[k] # NoKey}

RegistryInit ==
    /\ clock = 0
    /\ agents = [a \in Agents |-> "unknown"]
    /\ keys = [k \in KeyIds |-> NoKey]
    /\ order = <<>>
    /\ pc = [t \in Admins |-> "idle"]
    /\ op = [t \in Admins |-> NoOp]
    /\ killed = {}
    /\ overlapped = FALSE

-----------------------------------------------------------------------------
(***************************************************************************)
(* Lookups.                                                                *)
(***************************************************************************)

within_window(k, now) == now >= keys[k].not_before /\ now < keys[k].not_after

\* verify_with_key, for a message that k really signed.
Verifies(k, now) ==
    /\ k \in Known
    /\ keys[k].state \notin {"REVOKED", "PREPARED"}
    /\ within_window(k, now)

\* The keys active_signing_key may return (it takes the first it meets).
SigningKeys(a) ==
    {k \in Known : /\ keys[k].agent = a
                   /\ keys[k].state = "ACTIVE"
                   /\ keys[k].private}

-----------------------------------------------------------------------------
(***************************************************************************)
(* Agents.                                                                 *)
(***************************************************************************)

RegisterAgent(t, a) ==
    /\ pc[t] = "idle"
    /\ agents[a] = "unknown"
    /\ agents' = [agents EXCEPT ![a] = "enabled"]
    /\ UNCHANGED <<clock, keys, order, adminVars, killed>>

DisableAgent(t, a) ==
    /\ pc[t] = "idle"
    /\ agents[a] # "unknown"
    /\ agents' = [agents EXCEPT ![a] = "disabled"]
    /\ UNCHANGED <<clock, keys, order, adminVars, killed>>

-----------------------------------------------------------------------------
(***************************************************************************)
(* Creating keys.                                                          *)
(***************************************************************************)

InProgress == {t \in Admins : pc[t] # "idle"}

Become(t, label, locals) ==
    /\ pc' = [pc EXCEPT ![t] = label]
    /\ op' = [op EXCEPT ![t] = locals]
    /\ overlapped' = (overlapped \/ \E u, v \in InProgress' : u # v)

Done(t) == Become(t, "idle", NoOp)

\* Mutant: a disabled agent passes.
MutKnownAgent(a) == agents[a] # "unknown"

\* _require_agent
RequireAgent(a) == agents[a] = "enabled"

\* generate_key, and rotate as its ACTIVE case, up to the provider call.
GenerateKey(t, a, state, window) ==
    /\ pc[t] = "idle"
    /\ state # "REVOKED"
    /\ RequireAgent(a)
    /\ Become(t, "generating", [agent |-> a, state |-> state, window |-> window])
    /\ UNCHANGED <<clock, agents, keys, order, killed>>

\* import_verification_key, up to the provider call.  Any public key may be
\* offered, in any state.
ImportKey(t, a, k, state, window) ==
    /\ pc[t] = "idle"
    /\ RequireAgent(a)
    /\ Become(t, "importing",
              [agent |-> a, state |-> state, window |-> window, key |-> k])
    /\ UNCHANGED <<clock, agents, keys, order, killed>>

NewRecord(t, private) ==
    [agent |-> op[t].agent, state |-> op[t].state, private |-> private,
     not_before |-> clock + op[t].window.delay,
     not_after |-> clock + op[t].window.delay + op[t].window.length]

\* The loops of _retire_other_active and revoke_agent: position, and the size
\* of the dictionary when the loop began.
LoopOver(a, keep, size) == [agent |-> a, keep |-> keep, next |-> 1, size |-> size]

\* Mutant: a new active key does not retire the previous one.
MutInsertOnly(t, k) ==
    /\ pc[t] = "generating"
    /\ k \notin Known
    /\ keys' = [keys EXCEPT ![k] = NewRecord(t, TRUE)]
    /\ order' = Append(order, k)
    /\ Done(t)
    /\ UNCHANGED <<clock, agents, killed>>

\* The provider has drawn a new key pair.
Insert(t, k) ==
    /\ pc[t] = "generating"
    /\ k \notin Known
    /\ keys' = [keys EXCEPT ![k] = NewRecord(t, TRUE)]
    /\ order' = Append(order, k)
    /\ IF op[t].state = "ACTIVE"
         THEN Become(t, "retiring", LoopOver(op[t].agent, k, Len(order) + 1))
         ELSE Done(t)
    /\ UNCHANGED <<clock, agents, killed>>

\* The import overwrites whatever record has the same fingerprint.
InsertImported(t) ==
    LET k == op[t].key IN
    /\ pc[t] = "importing"
    /\ keys' = [keys EXCEPT ![k] = NewRecord(t, FALSE)]
    /\ order' = IF k \in Known THEN order ELSE Append(order, k)
    /\ Done(t)
    /\ UNCHANGED <<clock, agents, killed>>

\* The provider cannot generate or parse the key, and the call raises.
ProviderFails(t) ==
    /\ pc[t] \in {"generating", "importing"}
    /\ Done(t)
    /\ UNCHANGED <<clock, agents, keys, order, killed>>

-----------------------------------------------------------------------------
(***************************************************************************)
(* activate, revoke, revoke_agent.                                         *)
(***************************************************************************)

Activate(t, k) ==
    /\ pc[t] = "idle"
    /\ k \in Known
    /\ keys[k].state # "REVOKED"
    /\ keys[k].private
    /\ keys' = [keys EXCEPT ![k].state = "ACTIVE"]
    /\ Become(t, "retiring", LoopOver(keys[k].agent, k, Len(order)))
    /\ UNCHANGED <<clock, agents, order, killed>>

Revoke(t, k) ==
    /\ pc[t] = "idle"
    /\ k \in Known
    /\ keys' = [keys EXCEPT ![k].state = "REVOKED"]
    /\ UNCHANGED <<clock, agents, order, adminVars, killed>>

RevokeAgent(t, a) ==
    /\ pc[t] = "idle"
    /\ Become(t, "revoking", LoopOver(a, NoKey, Len(order)))
    /\ UNCHANGED <<clock, agents, keys, order, killed>>

\* The next record of a loop, which raises if the dictionary has grown.
Grown(t) == Len(order) # op[t].size
AtEnd(t) == op[t].next > Len(order)
Current(t) == order[op[t].next]
Advance(t) == op' = [op EXCEPT ![t].next = @ + 1] /\ UNCHANGED <<pc, overlapped>>

\* Mutant: the predecessor goes back to where it came from.
MutRetiredState == "PREPARED"

RetiredState == "RETIRED"

RetireNext(t) ==
    LET k == Current(t) IN
    /\ pc[t] = "retiring"
    /\ ~ Grown(t)
    /\ ~ AtEnd(t)
    /\ keys' = IF /\ keys[k].agent = op[t].agent
                  /\ keys[k].state = "ACTIVE"
                  /\ k # op[t].keep
                 THEN [keys EXCEPT ![k].state = RetiredState]
                 ELSE keys
    /\ Advance(t)
    /\ UNCHANGED <<clock, agents, order, killed>>

RevokeNext(t) ==
    LET k == Current(t) IN
    /\ pc[t] = "revoking"
    /\ ~ Grown(t)
    /\ ~ AtEnd(t)
    /\ IF keys[k].agent = op[t].agent
         THEN keys' = [keys EXCEPT ![k].state = "REVOKED"]
         ELSE UNCHANGED keys
    /\ Advance(t)
    /\ UNCHANGED <<clock, agents, order, killed>>

LoopRaises(t) ==
    /\ pc[t] \in {"retiring", "revoking"}
    /\ Grown(t)
    /\ Done(t)
    /\ UNCHANGED <<clock, agents, keys, order, killed>>

RetireEnds(t) ==
    /\ pc[t] = "retiring"
    /\ ~ Grown(t)
    /\ AtEnd(t)
    /\ Done(t)
    /\ UNCHANGED <<clock, agents, keys, order, killed>>

\* revoke_agent disables the agent, if it is registered, and returns.
RevokeAgentEnds(t) ==
    LET a == op[t].agent IN
    /\ pc[t] = "revoking"
    /\ ~ Grown(t)
    /\ AtEnd(t)
    /\ agents' = IF agents[a] = "unknown" THEN agents
                 ELSE [agents EXCEPT ![a] = "disabled"]
    /\ killed' = IF agents[a] = "unknown" \/ overlapped THEN killed
                 ELSE killed \cup {a}
    /\ Done(t)
    /\ UNCHANGED <<clock, keys, order>>

-----------------------------------------------------------------------------

Tick ==
    /\ clock < MaxTime
    /\ clock' = clock + 1
    /\ UNCHANGED <<agents, keys, order, adminVars, killed>>

CreateKey(t) ==
    \E a \in Agents, w \in Windows :
        \/ \E s \in KeyStates : GenerateKey(t, a, s, w)
        \/ \E s \in KeyStates, k \in KeyIds : ImportKey(t, a, k, s, w)

AdminCall(t) ==
    \/ CreateKey(t)
    \/ \E a \in Agents : RegisterAgent(t, a) \/ DisableAgent(t, a) \/ RevokeAgent(t, a)
    \/ \E k \in KeyIds : Activate(t, k) \/ Revoke(t, k)

AdminStep(t) ==
    \/ \E k \in KeyIds : Insert(t, k)
    \/ InsertImported(t)
    \/ ProviderFails(t)
    \/ RetireNext(t)
    \/ RevokeNext(t)
    \/ LoopRaises(t)
    \/ RetireEnds(t)
    \/ RevokeAgentEnds(t)

RegistryNext ==
    \/ \E t \in Admins : AdminCall(t) \/ AdminStep(t)
    \/ Tick

RegistrySpec == RegistryInit /\ [][RegistryNext]_registryVars

-----------------------------------------------------------------------------
(***************************************************************************)
(* Properties.                                                             *)
(***************************************************************************)

\* Records have their type, and the insertion order lists exactly the known
\* keys, each once, which is what the loops over the dictionary rely on.
RegistryTypeOK ==
    /\ agents \in [Agents -> {"unknown", "enabled", "disabled"}]
    /\ keys \in [KeyIds -> KeyRecords \cup {NoKey}]
    /\ {order[i] : i \in DOMAIN order} = Known
    /\ \A i, j \in DOMAIN order : order[i] = order[j] => i = j

\* While no two calls have overlapped, an agent has between calls at most one
\* key it could sign with (active_signing_key: "The single ACTIVE, in-window
\* signing key").  Two overlapping rotations can leave two, because a loop that
\* raises retires nothing more.
OneSigningKey ==
    InProgress = {} /\ ~ overlapped =>
        \A a \in Agents : \A j, k \in SigningKeys(a) : j = k

\* Rotation and activation leave no gap: signatures of a key that verify before
\* a step verify after it, unless the step revokes or overwrites that key or
\* time passes (registry.py:9, "no gap in the ability to verify prior
\* signatures within their window").
NoVerificationGap ==
    [][\A k \in Known :
          /\ Verifies(k, clock)
          /\ clock' = clock
          /\ keys'[k].state # "REVOKED"
          /\ \A t \in Admins : ~ (pc[t] = "importing" /\ op[t].key = k)
          => Verifies(k, clock)']_registryVars

\* Once revoke_agent has returned, having overlapped with no other call, no key
\* of the agent signs or verifies again, whatever calls race after it: a
\* disabled agent can be given no new key and a revoked one is not activated.
\* (A creation that has passed _require_agent before still inserts its key,
\* which then verifies.)
KillSwitchFinal ==
    \A a \in killed : \A k \in Known :
        keys[k].agent = a => ~ Verifies(k, clock)

=============================================================================

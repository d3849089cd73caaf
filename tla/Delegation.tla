----------------------------- MODULE Delegation -----------------------------
(***************************************************************************)
(* The delegation registry (delegation/model.py) and the message broker    *)
(* that propagates delegations (enforcement/message_broker.py).            *)
(*                                                                         *)
(* The registry takes no lock.  issue_child tests its parent and inserts   *)
(* the child in two steps; validate_for_agent reads one ancestor per step; *)
(* revoke flags the root and then sweeps the dictionary one entry per      *)
(* step, and Python raises RuntimeError when the dictionary has grown      *)
(* since the pass began.  Delegations are kept in insertion order; an      *)
(* index stands for the delegation's identifier.  A refused call changes   *)
(* nothing and is not an action.                                           *)
(***************************************************************************)
EXTENDS Policy, Sequences

CONSTANTS
    Threads,
    NoCall,
    Principals,         \* agents and authorities
    Trusted,            \* authorities the registry is constructed with
    LateAuthorities,    \* authorities registered later
    Offers,             \* the authority a caller asks for
    Actions,            \* actions whose policy decision is compared
    AllowedExternal,    \* recipients configured at the message broker
    AllowSecretExternal,
    MaxTime,
    MaxDelegations,     \* bound on the registry's size
    ChainDepths         \* max_chain_depth arguments of issue_root

Authority ==
    [capabilities : SUBSET STRING, resource_scopes : SUBSET STRING,
     clearance : Classifications, not_before : Nat, not_after : Nat]

ASSUME DelegationAssumption ==
    /\ Offers \subseteq Authority
    /\ MaxTime \in Nat
    /\ ChainDepths \subseteq Nat
    /\ AllowSecretExternal \in BOOLEAN
    /\ NoCall \notin [op : STRING]
    /\ Trusted \cup LateAuthorities \subseteq Principals
    /\ \A act \in Actions : act.data_classification \in Classifications

VARIABLES
    authorities,    \* the keys of _authorities
    delegations,    \* _delegations, in insertion order
    lineage,        \* history: the delegation and its ancestors
    call,           \* the call each thread is executing
    clock

vars == <<authorities, delegations, lineage, call, clock>>

Init ==
    /\ authorities = Trusted
    /\ delegations = <<>>
    /\ lineage = <<>>
    /\ call = [t \in Threads |-> NoCall]
    /\ clock = 0

Ids == DOMAIN delegations

is_valid_at(d, now) == ~d.revoked /\ d.not_before <= now /\ now < d.not_after

register_authority(a) ==
    /\ authorities' = authorities \cup {a}
    /\ UNCHANGED <<delegations, lineage, call, clock>>

NewDelegation(offer, subject, maxDepth, depth, parent, issuer) ==
    [subject_agent_id |-> subject, capabilities |-> offer.capabilities,
     resource_scopes |-> offer.resource_scopes, clearance |-> offer.clearance,
     not_before |-> offer.not_before, not_after |-> offer.not_after,
     max_chain_depth |-> maxDepth, depth |-> depth, parent_id |-> parent,
     issuer_id |-> issuer, revoked |-> FALSE]

\* Room for one more, counting the children about to be inserted.
Room ==
    Len(delegations)
        + Cardinality({t \in Threads : call[t] # NoCall /\ call[t].op = "issue"})
        < MaxDelegations

Insert(d, ancestors) ==
    /\ delegations' = Append(delegations, d)
    /\ lineage' = Append(lineage, ancestors \cup {Len(delegations) + 1})

\* A trusted authority, never the subject itself, opens a chain.
issue_root(authority, subject, offer, maxDepth) ==
    /\ Room
    /\ authority \in authorities
    /\ authority # subject
    /\ offer.not_after > offer.not_before
    /\ Insert(NewDelegation(offer, subject, maxDepth, 0, 0, authority), {})
    /\ UNCHANGED <<authorities, call, clock>>

MutNoScopeTest(offer, parent) ==
    /\ offer.capabilities \subseteq parent.capabilities
    /\ class_rank[offer.clearance] <= class_rank[parent.clearance]
    /\ offer.not_before >= parent.not_before
    /\ offer.not_after <= parent.not_after

Narrows(offer, parent) ==
    /\ offer.capabilities \subseteq parent.capabilities
    /\ offer.resource_scopes \subseteq parent.resource_scopes
    /\ class_rank[offer.clearance] <= class_rank[parent.clearance]
    /\ offer.not_before >= parent.not_before
    /\ offer.not_after <= parent.not_after

\* Only the parent itself is tested, not its ancestors.
issue_child(t, p, subject, offer) ==
    LET parent == delegations[p] IN
    /\ call[t] = NoCall
    /\ Room
    /\ is_valid_at(parent, clock)
    /\ parent.depth + 1 <= parent.max_chain_depth
    /\ Narrows(offer, parent)
    /\ offer.not_after > offer.not_before
    /\ call' = [call EXCEPT ![t] =
           [op |-> "issue", parent |-> p,
            child |-> NewDelegation(offer, subject, parent.max_chain_depth,
                                    parent.depth + 1, p,
                                    parent.subject_agent_id)]]
    /\ UNCHANGED <<authorities, delegations, lineage, clock>>

InsertChild(t) ==
    /\ call[t] # NoCall /\ call[t].op = "issue"
    /\ Insert(call[t].child, lineage[call[t].parent])
    /\ call' = [call EXCEPT ![t] = NoCall]
    /\ UNCHANGED <<authorities, clock>>

\* Delegations already revoked when a call begins.
RevokedNow == {i \in Ids : delegations[i].revoked}

\* The walk starts at the delegation and uses the time read here.
WalkFrom(d, agent) ==
    [op |-> "walk", dlg |-> d, agent |-> agent, node |-> d, now |-> clock,
     before |-> RevokedNow]

validate_for_agent(t, d, agent) ==
    /\ call[t] = NoCall
    /\ delegations[d].subject_agent_id = agent
    /\ call' = [call EXCEPT ![t] = WalkFrom(d, agent)]
    /\ UNCHANGED <<authorities, delegations, lineage, clock>>

\* MessageBroker._execute up to the propagated delegation.
ExternalAllowed(to, external, class) ==
    external =>
        /\ to \in AllowedExternal
        /\ AllowSecretExternal \/ class \notin {"SECRET", "CONFIDENTIAL"}

send(t, to, external, class, d) ==
    /\ ExternalAllowed(to, external, class)
    /\ validate_for_agent(t, d, to)

MutFirstNodeOnly(node) == 0

Parent(node) == delegations[node].parent_id

\* One ancestor per step.  A parent precedes its child in the dictionary,
\* so the walk cannot meet a node twice and the cycle guard never fires.
Walk(t) ==
    LET c == call[t] IN
    /\ c # NoCall /\ c.op = "walk"
    /\ call' = [call EXCEPT ![t] =
           IF ~is_valid_at(delegations[c.node], c.now)
           THEN NoCall
           ELSE IF Parent(c.node) # 0
           THEN [c EXCEPT !.node = Parent(c.node)]
           ELSE [c EXCEPT !.op = "accepted"]]
    /\ UNCHANGED <<authorities, delegations, lineage, clock>>

\* A pass over _delegations.values() remembers the size it began with.
Pass(root, below) ==
    [op |-> "sweep", root |-> root, below |-> below, at |-> 1,
     size |-> Len(delegations), changed |-> FALSE]

Descendants(d) == {i \in Ids : d \in lineage[i]}

revoke(t, d) ==
    /\ call[t] = NoCall
    /\ delegations' = [delegations EXCEPT ![d].revoked = TRUE]
    /\ call' = [call EXCEPT ![t] = Pass(d, Descendants(d))]
    /\ UNCHANGED <<authorities, lineage, clock>>

MutOnlyChildren(i, root) ==
    ~delegations[i].revoked /\ delegations[i].parent_id = root

ToRevoke(i, root) ==
    LET d == delegations[i] IN
    ~d.revoked /\ d.parent_id # 0 /\ delegations[d.parent_id].revoked

\* One entry of the dictionary; RuntimeError abandons the sweep.
Sweep(t) ==
    LET c == call[t] IN
    /\ c # NoCall /\ c.op = "sweep"
    /\ \/ /\ Len(delegations) # c.size
          /\ call' = [call EXCEPT ![t] = NoCall]
          /\ UNCHANGED delegations
       \/ /\ Len(delegations) = c.size
          /\ c.at <= c.size
          /\ IF ToRevoke(c.at, c.root)
             THEN /\ delegations' = [delegations EXCEPT ![c.at].revoked = TRUE]
                  /\ call' = [call EXCEPT ![t] =
                            [c EXCEPT !.at = @ + 1, !.changed = TRUE]]
             ELSE /\ call' = [call EXCEPT ![t] = [c EXCEPT !.at = @ + 1]]
                  /\ UNCHANGED delegations
       \/ /\ Len(delegations) = c.size
          /\ c.at > c.size
          /\ call' = [call EXCEPT ![t] =
                 IF c.changed THEN Pass(c.root, c.below)
                 ELSE [c EXCEPT !.op = "revoked"]]
          /\ UNCHANGED delegations
    /\ UNCHANGED <<authorities, lineage, clock>>

\* The caller takes the result.
Return(t) ==
    /\ call[t] # NoCall /\ call[t].op \in {"accepted", "revoked"}
    /\ call' = [call EXCEPT ![t] = NoCall]
    /\ UNCHANGED <<authorities, delegations, lineage, clock>>

Tick ==
    /\ clock < MaxTime
    /\ clock' = clock + 1
    /\ UNCHANGED <<authorities, delegations, lineage, call>>

CallStep(t) == InsertChild(t) \/ Walk(t) \/ Sweep(t) \/ Return(t)

Next ==
    \/ \E a \in LateAuthorities : register_authority(a)
    \/ \E a, s \in Principals, o \in Offers, m \in ChainDepths :
          issue_root(a, s, o, m)
    \/ \E t \in Threads, i \in Ids :
          \/ \E s \in Principals, o \in Offers : issue_child(t, i, s, o)
          \/ \E s \in Principals : validate_for_agent(t, i, s)
          \/ \E s \in Principals, x \in BOOLEAN, c \in Classifications :
                send(t, s, x, c, i)
          \/ revoke(t, i)
    \/ \E t \in Threads : CallStep(t)
    \/ Tick

Spec == Init /\ [][Next]_vars

-----------------------------------------------------------------------------
Delegations ==
    [subject_agent_id : Principals, capabilities : SUBSET STRING,
     resource_scopes : SUBSET STRING, clearance : Classifications,
     not_before : Nat, not_after : Nat, max_chain_depth : Nat, depth : Nat,
     parent_id : Nat, issuer_id : Principals, revoked : BOOLEAN]

Calls ==
    [op : {"issue"}, parent : Ids, child : Delegations]
    \cup [op : {"walk", "accepted"}, dlg : Ids, agent : Principals, node : Ids,
          now : Nat, before : SUBSET Ids]
    \cup [op : {"sweep", "revoked"}, root : Ids, below : SUBSET Ids, at : Nat,
          size : Nat, changed : BOOLEAN]

\* The shape of the registry and of the calls in progress.
DelegationTypeOK ==
    /\ authorities \subseteq Principals
    /\ delegations \in Seq(Delegations)
    /\ lineage \in Seq(SUBSET Nat)
    /\ Len(lineage) = Len(delegations)
    /\ \A i \in Ids : lineage[i] \subseteq 1..i
    /\ \A i \in Ids : delegations[i].parent_id < i
    /\ call \in [Threads -> Calls \cup {NoCall}]
    /\ clock \in 0..MaxTime

Within(d, a) ==
    /\ d.capabilities \subseteq a.capabilities
    /\ d.resource_scopes \subseteq a.resource_scopes
    /\ class_rank[d.clearance] <= class_rank[a.clearance]
    /\ a.not_before <= d.not_before /\ d.not_after <= a.not_after

\* No delegation is wider than any delegation above it, however many
\* sub-agents the chain passes through, and no chain is deeper than its root
\* allowed ("cannot widen", "bounded chain depth"; issue_child compares with
\* the direct parent only).
Attenuated ==
    \A i \in Ids :
        /\ delegations[i].depth <= delegations[i].max_chain_depth
        /\ \A a \in lineage[i] :
              /\ Within(delegations[i], delegations[a])
              /\ delegations[i].max_chain_depth = delegations[a].max_chain_depth

\* What the policy allows the holder of a delegation it allows the holder of
\* every delegation above it: deriving the grant does not undo attenuation.
GrantsAttenuate ==
    \A i \in Ids : \A a \in lineage[i] \ {i} : \A act \in Actions :
        allow(act, grant_from_delegation(delegations[i]))
            => allow(act, grant_from_delegation(delegations[a]))

\* validate_for_agent, alone or for a propagated delegation, accepts only what
\* nothing above had been revoked when the call began, is inside every window
\* above, and belongs to the agent, although a child of a revoked delegation
\* may carry no flag (it was inserted after the sweep, or the sweep failed).
NoLaundering ==
    \A t \in Threads :
        call[t] # NoCall /\ call[t].op = "accepted" =>
            LET c == call[t] IN
            /\ delegations[c.dlg].subject_agent_id = c.agent
            /\ \A a \in lineage[c.dlg] :
                  /\ a \notin c.before
                  /\ delegations[a].not_before <= c.now
                  /\ c.now < delegations[a].not_after

\* When revoke returns normally, every descendant that existed when it was
\* called carries the flag, whatever other threads issued or revoked meanwhile.
RevocationPropagates ==
    \A t \in Threads :
        call[t] # NoCall /\ call[t].op = "revoked" =>
            \A i \in call[t].below : delegations[i].revoked

=============================================================================

-------------------------- MODULE DelegationProofs --------------------------
(***************************************************************************)
(* Proofs about the delegation registry, for any number of threads and any *)
(* length of chain.                                                        *)
(*                                                                         *)
(* issue_child compares a child with its direct parent, validate_for_agent *)
(* reads one ancestor per step, revoke sweeps one entry per step, and none *)
(* of them holds a lock.  The inductive invariant says what each call has  *)
(* established so far about the whole lineage, and Sticks says what other  *)
(* threads can do to it meanwhile: insert, and set a revoked flag.         *)
(***************************************************************************)
EXTENDS Delegation, TLAPS

\* What the other threads may do to the registry <<ds, ln>> between two steps
\* of a call.
Sticks(ds, ln, ds2, ln2) ==
    /\ Len(ds) <= Len(ds2)
    /\ \A i \in 1..Len(ds) :
          /\ ln2[i] = ln[i]
          /\ ds2[i].subject_agent_id = ds[i].subject_agent_id
          /\ ds2[i].capabilities = ds[i].capabilities
          /\ ds2[i].resource_scopes = ds[i].resource_scopes
          /\ ds2[i].clearance = ds[i].clearance
          /\ ds2[i].not_before = ds[i].not_before
          /\ ds2[i].not_after = ds[i].not_after
          /\ ds2[i].max_chain_depth = ds[i].max_chain_depth
          /\ ds2[i].depth = ds[i].depth
          /\ ds2[i].parent_id = ds[i].parent_id
          /\ ds[i].revoked => ds2[i].revoked

\* The lineage of a delegation is itself and its parent's lineage, and nothing
\* in it is narrower.
Chained(i, ds, ln) ==
    /\ ln[i] \subseteq 1..i
    /\ ds[i].parent_id < i
    /\ ln[i] = {i} \cup (IF ds[i].parent_id = 0 THEN {} ELSE ln[ds[i].parent_id])
    /\ ds[i].depth <= ds[i].max_chain_depth
    /\ \A a \in ln[i] :
          /\ Within(ds[i], ds[a])
          /\ ds[i].max_chain_depth = ds[a].max_chain_depth

Registry(ds, ln) ==
    /\ ds \in Seq(Delegations)
    /\ ln \in Seq(SUBSET Nat)
    /\ Len(ln) = Len(ds)
    /\ \A i \in 1..Len(ds) : Chained(i, ds, ln)

\* A child about to be inserted is within its parent.
Issuing(c, ds) ==
    /\ c \in [op : {"issue"}, parent : 1..Len(ds), child : Delegations]
    /\ c.child.parent_id = c.parent
    /\ c.child.depth <= c.child.max_chain_depth
    /\ c.child.max_chain_depth = ds[c.parent].max_chain_depth
    /\ Within(c.child, ds[c.parent])

\* The part of the lineage a walk has left to read.
Unread(c, ln) == IF c.op = "walk" THEN ln[c.node] ELSE {}

\* Everything a walk has read was clear when it began and is inside its window.
Walking(c, ds, ln) ==
    /\ c \in [op : {"walk", "accepted"}, dlg : 1..Len(ds), agent : Principals,
              node : 1..Len(ds), now : Nat, before : SUBSET (1..Len(ds))]
    /\ ds[c.dlg].subject_agent_id = c.agent
    /\ \A b \in c.before : ds[b].revoked
    /\ \A a \in ln[c.dlg] \ Unread(c, ln) :
          /\ a \notin c.before
          /\ ds[a].not_before <= c.now
          /\ c.now < ds[a].not_after

\* A parent precedes its children, so what a pass has gone over stays closed:
\* every descendant before the pass's position is revoked.
Sweeping(c, ds) ==
    /\ c \in [op : {"sweep", "revoked"}, root : 1..Len(ds),
              below : SUBSET (1..Len(ds)), at : Nat \ {0}, size : Nat, changed : BOOLEAN]
    /\ ds[c.root].revoked
    /\ \A i \in c.below \ {c.root} : ds[i].parent_id # 0 /\ ds[i].parent_id \in c.below
    /\ \A i \in c.below : i < c.at \/ c.op = "revoked" => ds[i].revoked

CallOK(c, ds, ln) ==
    c = NoCall \/ Issuing(c, ds) \/ Walking(c, ds, ln) \/ Sweeping(c, ds)

CallsOK ==
    /\ call \in [Threads -> Calls \cup {NoCall}]
    /\ \A t \in Threads : CallOK(call[t], delegations, lineage)

\* The inductive invariant.
DelegationInv ==
    /\ authorities \subseteq Principals
    /\ clock \in 0..MaxTime
    /\ Registry(delegations, lineage)
    /\ CallsOK

-----------------------------------------------------------------------------
(***************************************************************************)
(* Facts about registries and calls that mention no state.                 *)
(***************************************************************************)

\* class_rank orders the classifications.
LEMMA RankIsNat == \A c \in Classifications : class_rank[c] \in Nat
BY DEF Classifications, class_rank

\* Attenuation composes along a chain.
LEMMA WithinTransitive ==
    ASSUME NEW c \in Delegations, NEW p \in Delegations, NEW a \in Delegations,
           Within(c, p), Within(p, a)
    PROVE  Within(c, a)
<1>1. /\ class_rank[c.clearance] \in Nat /\ class_rank[p.clearance] \in Nat
      /\ class_rank[a.clearance] \in Nat
  BY RankIsNat DEF Delegations
<1>2. QED BY <1>1 DEF Within, Delegations

\* A scope is within itself.
LEMMA WithinReflexive ==
    ASSUME NEW c \in Delegations PROVE Within(c, c)
<1>1. class_rank[c.clearance] \in Nat BY RankIsNat DEF Delegations
<1>2. QED BY <1>1 DEF Within, Delegations

\* What other threads do keeps what a call has established.
LEMMA CallSticks ==
    ASSUME NEW ds, NEW ln, Registry(ds, ln), NEW ds2, NEW ln2, Sticks(ds, ln, ds2, ln2),
           Len(ds2) \in Nat, NEW c, CallOK(c, ds, ln)
    PROVE  CallOK(c, ds2, ln2)
<1>0. Len(ds) \in Nat BY DEF Registry
<1>1. CASE c = NoCall BY <1>1 DEF CallOK
<1>2. CASE Issuing(c, ds)
  <2>1. c.parent \in 1..Len(ds) BY <1>2 DEF Issuing
  <2>2. Within(c.child, ds2[c.parent]) BY <1>2, <2>1 DEF Issuing, Sticks, Within
  <2>3. c \in [op : {"issue"}, parent : 1..Len(ds2), child : Delegations]
    BY <1>2, <1>0 DEF Issuing, Sticks
  <2>4. QED BY <1>2, <2>1, <2>2, <2>3 DEF Issuing, Sticks, CallOK
<1>3. CASE Walking(c, ds, ln)
  <2>1. c.dlg \in 1..Len(ds) /\ c.node \in 1..Len(ds) /\ c.before \subseteq 1..Len(ds)
    BY <1>3 DEF Walking
  <2>2. ln2[c.dlg] = ln[c.dlg] /\ Unread(c, ln2) = Unread(c, ln)
    BY <2>1 DEF Sticks, Unread
  <2>3. ln[c.dlg] \subseteq 1..Len(ds)
    BY <2>1, <1>0 DEF Registry, Chained
  <2>4. c \in [op : {"walk", "accepted"}, dlg : 1..Len(ds2), agent : Principals,
               node : 1..Len(ds2), now : Nat, before : SUBSET (1..Len(ds2))]
    BY <1>3, <1>0 DEF Walking, Sticks
  <2>5. \A a \in ln2[c.dlg] \ Unread(c, ln2) :
           a \notin c.before /\ ds2[a].not_before <= c.now /\ c.now < ds2[a].not_after
    BY <1>3, <2>2, <2>3 DEF Walking, Sticks
  <2>6. ds2[c.dlg].subject_agent_id = c.agent /\ \A b \in c.before : ds2[b].revoked
    BY <1>3, <2>1 DEF Walking, Sticks
  <2>7. QED BY <2>4, <2>5, <2>6 DEF Walking, CallOK
<1>4. CASE Sweeping(c, ds)
  <2>1. c.root \in 1..Len(ds) /\ c.below \subseteq 1..Len(ds) BY <1>4 DEF Sweeping
  <2>2. c \in [op : {"sweep", "revoked"}, root : 1..Len(ds2),
               below : SUBSET (1..Len(ds2)), at : Nat \ {0}, size : Nat, changed : BOOLEAN]
    BY <1>4, <1>0 DEF Sweeping, Sticks
  <2>3. ds2[c.root].revoked BY <1>4, <2>1 DEF Sweeping, Sticks
  <2>4. \A i \in c.below : ds2[i].parent_id = ds[i].parent_id /\ (ds[i].revoked => ds2[i].revoked)
    BY <2>1 DEF Sticks
  <2>5. QED BY <1>4, <2>2, <2>3, <2>4 DEF Sweeping, CallOK
<1>5. QED BY <1>1, <1>2, <1>3, <1>4 DEF CallOK

\* Setting a flag keeps the registry and sticks.
LEMMA FlagKeepsRegistry ==
    ASSUME NEW ds, NEW ln, Registry(ds, ln), NEW d \in 1..Len(ds)
    PROVE  LET ds2 == [ds EXCEPT ![d].revoked = TRUE] IN
           /\ Registry(ds2, ln) /\ Sticks(ds, ln, ds2, ln) /\ Len(ds2) = Len(ds)
           /\ ds2[d].revoked
<1> DEFINE r == [ds[d] EXCEPT !.revoked = TRUE]
           ds2 == [ds EXCEPT ![d] = r]
<1>0. ds \in Seq(Delegations) /\ Len(ds) \in Nat BY DEF Registry
<1>1. ds[d] \in Delegations BY <1>0
<1>2. /\ r \in Delegations /\ r.revoked = TRUE
      /\ r.subject_agent_id = ds[d].subject_agent_id /\ r.capabilities = ds[d].capabilities
      /\ r.resource_scopes = ds[d].resource_scopes /\ r.clearance = ds[d].clearance
      /\ r.not_before = ds[d].not_before /\ r.not_after = ds[d].not_after
      /\ r.max_chain_depth = ds[d].max_chain_depth /\ r.depth = ds[d].depth
      /\ r.parent_id = ds[d].parent_id
  BY <1>1 DEF Delegations
<1> HIDE DEF r
<1>3. ds2 \in Seq(Delegations) /\ Len(ds2) = Len(ds) /\ ds2[d] = r
      /\ \A i \in (1..Len(ds)) \ {d} : ds2[i] = ds[i]
  BY <1>0, <1>2
<1> HIDE DEF ds2
<1>4. Sticks(ds, ln, ds2, ln) BY <1>2, <1>3, <1>0 DEF Sticks
<1>5. ASSUME NEW i \in 1..Len(ds) PROVE Chained(i, ds2, ln)
  <2>1. Chained(i, ds, ln) BY DEF Registry
  <2>2. ln[i] \subseteq 1..Len(ds) BY <2>1, <1>0 DEF Chained
  <2>3. \A a \in ln[i] : Within(ds2[i], ds2[a])
    BY <2>1, <2>2, <1>4 DEF Chained, Within, Sticks
  <2>4. \A a \in ln[i] : ds2[a].max_chain_depth = ds[a].max_chain_depth
    BY <2>2, <1>4 DEF Sticks
  <2>5. ds2[i].parent_id = ds[i].parent_id /\ ds2[i].depth = ds[i].depth
        /\ ds2[i].max_chain_depth = ds[i].max_chain_depth
    BY <1>4 DEF Sticks
  <2>6. QED BY <2>1, <2>3, <2>4, <2>5 DEF Chained
<1>6. Registry(ds2, ln) BY <1>3, <1>5 DEF Registry
<1>7. ds2 = [ds EXCEPT ![d].revoked = TRUE] BY DEF ds2, r
<1>8. QED BY <1>2, <1>3, <1>4, <1>6, <1>7

\* Inserting a root, or a child within its parent, keeps the registry.
LEMMA InsertKeepsRegistry ==
    ASSUME NEW ds, NEW ln, Registry(ds, ln), NEW d \in Delegations, NEW above,
           d.depth <= d.max_chain_depth,
           \/ d.parent_id = 0 /\ above = {}
           \/ /\ d.parent_id \in 1..Len(ds) /\ above = ln[d.parent_id]
              /\ Within(d, ds[d.parent_id])
              /\ d.max_chain_depth = ds[d.parent_id].max_chain_depth
    PROVE  LET ds2 == Append(ds, d)
               ln2 == Append(ln, above \cup {Len(ds) + 1})
           IN  Registry(ds2, ln2) /\ Sticks(ds, ln, ds2, ln2) /\ Len(ds2) = Len(ds) + 1
<1> DEFINE n == Len(ds) + 1
           up == above \cup {n}
           ds2 == Append(ds, d)
           ln2 == Append(ln, up)
<1>0. ds \in Seq(Delegations) /\ Len(ds) \in Nat /\ ln \in Seq(SUBSET Nat) /\ Len(ln) = Len(ds)
  BY DEF Registry
<1>1. above \subseteq 1..Len(ds)
  <2>1. ASSUME d.parent_id \in 1..Len(ds) PROVE ln[d.parent_id] \subseteq 1..Len(ds)
    BY <2>1, <1>0 DEF Registry, Chained
  <2>2. QED BY <2>1
<1>2. up \in SUBSET Nat
  <2>1. n \in Nat /\ 1..Len(ds) \subseteq Nat BY <1>0
  <2>2. QED BY <1>1, <2>1
<1>3. /\ ds2 \in Seq(Delegations) /\ Len(ds2) = n /\ ds2[n] = d
      /\ \A i \in 1..Len(ds) : ds2[i] = ds[i]
  BY <1>0
<1>4. /\ ln2 \in Seq(SUBSET Nat) /\ Len(ln2) = n /\ ln2[n] = up
      /\ \A i \in 1..Len(ds) : ln2[i] = ln[i]
  BY <1>0, <1>2
<1> HIDE DEF ds2, ln2
<1>5. Sticks(ds, ln, ds2, ln2) BY <1>0, <1>3, <1>4 DEF Sticks
<1>6. ASSUME NEW i \in 1..Len(ds) PROVE Chained(i, ds2, ln2)
  <2>1. Chained(i, ds, ln) BY DEF Registry
  <2>2. ln[i] \subseteq 1..Len(ds) BY <2>1, <1>0 DEF Chained
  <2>3. ds[i].parent_id \in Nat
    <3>1. ds[i] \in Delegations BY <1>0
    <3>2. QED BY <3>1 DEF Delegations
  <2>4. ds2[i] = ds[i] /\ ln2[i] = ln[i] /\ \A a \in ln[i] : ds2[a] = ds[a]
    BY <1>3, <1>4, <2>2
  <2>5. ds[i].parent_id # 0 => ln2[ds[i].parent_id] = ln[ds[i].parent_id]
    <3>1. ds[i].parent_id < i BY <2>1 DEF Chained
    <3>2. ds[i].parent_id # 0 => ds[i].parent_id \in 1..Len(ds) BY <3>1, <2>3, <1>0
    <3>3. QED BY <3>2, <1>4
  <2>6. QED BY <2>1, <2>4, <2>5 DEF Chained
<1>7. Chained(n, ds2, ln2)
  <2>1. ln2[n] \subseteq 1..n BY <1>0, <1>1, <1>4
  <2>2. d.parent_id < n BY <1>0
  <2>3. ln2[n] = {n} \cup (IF d.parent_id = 0 THEN {} ELSE ln2[d.parent_id])
    BY <1>0, <1>4
  <2>4. ASSUME NEW a \in above
        PROVE  Within(d, ds2[a]) /\ d.max_chain_depth = ds2[a].max_chain_depth
    <3> DEFINE p == d.parent_id
    <3>1. p \in 1..Len(ds) /\ a \in ln[p] /\ Within(d, ds[p])
          /\ d.max_chain_depth = ds[p].max_chain_depth
      BY <2>4
    <3>2. a \in 1..Len(ds) BY <1>1
    <3>3. Within(ds[p], ds[a]) /\ ds[p].max_chain_depth = ds[a].max_chain_depth
      BY <3>1 DEF Registry, Chained
    <3>4. ds[p] \in Delegations /\ ds[a] \in Delegations BY <1>0, <3>1, <3>2
    <3>5. QED BY <3>1, <3>2, <3>3, <3>4, <1>3, WithinTransitive
  <2>5. Within(d, ds2[n]) /\ d.max_chain_depth = ds2[n].max_chain_depth
    BY <1>3, WithinReflexive
  <2>6. QED BY <1>3, <1>4, <2>1, <2>2, <2>3, <2>4, <2>5 DEF Chained
<1>8. Registry(ds2, ln2) BY <1>0, <1>3, <1>4, <1>6, <1>7 DEF Registry
<1>9. QED BY <1>3, <1>5, <1>8 DEF ds2, ln2

-----------------------------------------------------------------------------
(***************************************************************************)
(* Every step keeps the inductive invariant.                               *)
(***************************************************************************)

\* The types of the calls, from what is known of them.
LEMMA CallTyped ==
    ASSUME NEW c, NEW ds, NEW ln, CallOK(c, ds, ln), DOMAIN ds = 1..Len(ds)
    PROVE  c \in [op : {"issue"}, parent : DOMAIN ds, child : Delegations]
                 \cup [op : {"walk", "accepted"}, dlg : DOMAIN ds, agent : Principals,
                       node : DOMAIN ds, now : Nat, before : SUBSET DOMAIN ds]
                 \cup [op : {"sweep", "revoked"}, root : DOMAIN ds, below : SUBSET DOMAIN ds,
                       at : Nat, size : Nat, changed : BOOLEAN]
                 \cup {NoCall}
<1>1. CASE c = NoCall BY <1>1
<1>2. CASE Issuing(c, ds) BY <1>2 DEF Issuing
<1>3. CASE Walking(c, ds, ln) BY <1>3 DEF Walking
<1>4. CASE Sweeping(c, ds) BY <1>4 DEF Sweeping
<1>5. QED BY <1>1, <1>2, <1>3, <1>4 DEF CallOK

\* The calls of all threads, when at most the call of t changes.
LEMMA CallsKept ==
    ASSUME Registry(delegations, lineage), CallsOK,
           Registry(delegations, lineage)',
           Sticks(delegations, lineage, delegations', lineage'),
           NEW t \in Threads, NEW c, call' = [call EXCEPT ![t] = c],
           CallOK(c, delegations', lineage')
    PROVE  CallsOK'
<1>1. DOMAIN delegations' = 1..Len(delegations') /\ Len(delegations') \in Nat BY DEF Registry
<1>2. \A u \in Threads : CallOK(call'[u], delegations', lineage')
  <2> SUFFICES ASSUME NEW u \in Threads PROVE CallOK(call'[u], delegations', lineage') OBVIOUS
  <2>1. CASE u = t BY <2>1 DEF CallsOK
  <2>2. CASE u # t
    <3>1. call'[u] = call[u] BY <2>2 DEF CallsOK
    <3>2. CallOK(call[u], delegations, lineage) BY DEF CallsOK
    <3>3. QED BY <3>1, <3>2, <1>1, CallSticks
  <2>3. QED BY <2>1, <2>2
<1>3. \A u \in Threads : call'[u] \in Calls' \cup {NoCall}
  BY <1>1, <1>2, CallTyped DEF Calls, Ids
<1>4. call' \in [Threads -> Calls' \cup {NoCall}]
  BY <1>3 DEF CallsOK
<1>5. QED BY <1>2, <1>4 DEF CallsOK

\* The same when no call changes.
LEMMA CallsStay ==
    ASSUME Registry(delegations, lineage), CallsOK,
           Registry(delegations, lineage)',
           Sticks(delegations, lineage, delegations', lineage'),
           UNCHANGED call
    PROVE  CallsOK'
<1>1. DOMAIN delegations' = 1..Len(delegations') /\ Len(delegations') \in Nat BY DEF Registry
<1>2. \A u \in Threads : CallOK(call'[u], delegations', lineage')
  BY <1>1, CallSticks DEF CallsOK
<1>3. \A u \in Threads : call'[u] \in Calls' \cup {NoCall}
  BY <1>1, <1>2, CallTyped DEF Calls, Ids
<1>4. call' \in [Threads -> Calls' \cup {NoCall}]
  BY <1>3 DEF CallsOK
<1>5. QED BY <1>2, <1>4 DEF CallsOK

\* A registry that does not change sticks.
LEMMA SameSticks ==
    ASSUME Registry(delegations, lineage), UNCHANGED <<delegations, lineage>>
    PROVE  /\ Registry(delegations, lineage)'
           /\ Sticks(delegations, lineage, delegations', lineage')
BY DEF Registry, Sticks

\* A call whose thread changes nothing shared.
LEMMA CallMoves ==
    ASSUME DelegationInv, NEW t \in Threads, NEW c, call' = [call EXCEPT ![t] = c],
           CallOK(c, delegations, lineage),
           UNCHANGED <<authorities, delegations, lineage, clock>>
    PROVE  DelegationInv'
<1>1. Registry(delegations, lineage)' /\ Sticks(delegations, lineage, delegations', lineage')
  BY SameSticks DEF DelegationInv
<1>2. CallOK(c, delegations', lineage') OBVIOUS
<1>3. CallsOK' BY <1>1, <1>2, CallsKept DEF DelegationInv
<1>4. QED BY <1>1, <1>3 DEF DelegationInv

\* The delegation an offer becomes.
LEMMA NewDelegationTyped ==
    ASSUME NEW o \in Offers, NEW s \in Principals, NEW m \in Nat, NEW depth \in Nat,
           NEW p \in Nat, NEW i \in Principals
    PROVE  NewDelegation(o, s, m, depth, p, i) \in Delegations
<1>1. o \in Authority BY DelegationAssumption
<1>2. QED BY <1>1 DEF Authority, NewDelegation, Delegations

\* issue_root inserts a chain of length one.
LEMMA RootKeeps ==
    ASSUME DelegationInv, NEW a \in Principals, NEW s \in Principals, NEW o \in Offers,
           NEW m \in ChainDepths, issue_root(a, s, o, m)
    PROVE  DelegationInv'
<1> DEFINE d == NewDelegation(o, s, m, 0, 0, a)
<1>1. m \in Nat BY DelegationAssumption
<1>2. d \in Delegations BY <1>1, NewDelegationTyped
<1>3. d.depth = 0 /\ d.max_chain_depth = m /\ d.parent_id = 0 BY DEF NewDelegation
<1>4. /\ delegations' = Append(delegations, d)
      /\ lineage' = Append(lineage, {} \cup {Len(delegations) + 1})
      /\ UNCHANGED <<authorities, call, clock>>
  BY DEF issue_root, Insert
<1> HIDE DEF d
<1>5. Registry(delegations', lineage') /\ Sticks(delegations, lineage, delegations', lineage')
  <2>1. Registry(delegations, lineage) BY DEF DelegationInv
  <2> DEFINE no == {}
  <2>2. no = {} OBVIOUS
  <2>3. lineage' = Append(lineage, no \cup {Len(delegations) + 1}) BY <1>4
  <2> HIDE DEF no
  <2>4. d.depth <= d.max_chain_depth BY <1>1, <1>3
  <2>5. d.parent_id = 0 /\ no = {} BY <1>3, <2>2
  <2>6. LET ds2 == Append(delegations, d)
            ln2 == Append(lineage, no \cup {Len(delegations) + 1})
        IN  Registry(ds2, ln2) /\ Sticks(delegations, lineage, ds2, ln2)
    BY <1>2, <2>1, <2>4, <2>5, InsertKeepsRegistry
  <2>7. QED BY <1>4, <2>3, <2>6
<1>6. CallsOK' BY <1>4, <1>5, CallsStay DEF DelegationInv
<1>7. QED BY <1>4, <1>5, <1>6 DEF DelegationInv

\* issue_child has checked its parent and drawn an id.
LEMMA IssueChildKeeps ==
    ASSUME DelegationInv, NEW t \in Threads, NEW p \in Ids, NEW s \in Principals,
           NEW o \in Offers, issue_child(t, p, s, o)
    PROVE  DelegationInv'
<1> DEFINE parent == delegations[p]
           d == NewDelegation(o, s, parent.max_chain_depth, parent.depth + 1, p,
                              parent.subject_agent_id)
           c == [op |-> "issue", parent |-> p, child |-> d]
<1>1. delegations \in Seq(Delegations) /\ p \in 1..Len(delegations) /\ p \in Nat
  BY DEF DelegationInv, Registry, Ids
<1>2. parent \in Delegations BY <1>1
<1>3. parent.max_chain_depth \in Nat /\ parent.depth \in Nat
      /\ parent.subject_agent_id \in Principals
  BY <1>2 DEF Delegations
<1>4. d \in Delegations BY <1>1, <1>3, NewDelegationTyped
<1>5. /\ parent.depth + 1 <= parent.max_chain_depth
      /\ Narrows(o, parent)
      /\ call' = [call EXCEPT ![t] = c]
      /\ UNCHANGED <<authorities, delegations, lineage, clock>>
  BY DEF issue_child
<1>6. /\ d.parent_id = p /\ d.depth = parent.depth + 1
      /\ d.max_chain_depth = parent.max_chain_depth
      /\ d.capabilities = o.capabilities /\ d.resource_scopes = o.resource_scopes
      /\ d.clearance = o.clearance /\ d.not_before = o.not_before
      /\ d.not_after = o.not_after
  BY DEF NewDelegation
<1>7. o.not_before \in Nat /\ parent.not_before \in Nat
  BY <1>2, DelegationAssumption DEF Authority, Delegations
<1>8. Within(d, parent) BY <1>5, <1>6, <1>7 DEF Narrows, Within
<1> HIDE DEF d
<1>9. Issuing(c, delegations)
  <2>1. c.parent = p /\ c.child = d /\ c.op = "issue" OBVIOUS
  <2>2. c \in [op : {"issue"}, parent : 1..Len(delegations), child : Delegations]
    BY <1>1, <1>4
  <2> HIDE DEF c
  <2>3. QED BY <1>5, <1>6, <1>8, <2>1, <2>2 DEF Issuing
<1>10. QED BY <1>5, <1>9, CallMoves DEF CallOK

\* The child is inserted under the parent that was checked.
LEMMA InsertChildKeeps ==
    ASSUME DelegationInv, NEW t \in Threads, InsertChild(t)
    PROVE  DelegationInv'
<1> DEFINE d == call[t].child
           up == lineage[call[t].parent]
<1>1. Registry(delegations, lineage) BY DEF DelegationInv
<1>2. Issuing(call[t], delegations)
  <2>1. CallOK(call[t], delegations, lineage) /\ call[t] # NoCall /\ call[t].op = "issue"
    BY DEF DelegationInv, CallsOK, InsertChild
  <2>2. ~ Walking(call[t], delegations, lineage) BY <2>1 DEF Walking
  <2>3. ~ Sweeping(call[t], delegations) BY <2>1 DEF Sweeping
  <2>4. QED BY <2>1, <2>2, <2>3 DEF CallOK
<1>3. /\ d \in Delegations /\ d.parent_id \in 1..Len(delegations)
      /\ up = lineage[d.parent_id] /\ d.depth <= d.max_chain_depth
      /\ Within(d, delegations[d.parent_id])
      /\ d.max_chain_depth = delegations[d.parent_id].max_chain_depth
  BY <1>2 DEF Issuing
<1>4. /\ delegations' = Append(delegations, d)
      /\ lineage' = Append(lineage, up \cup {Len(delegations) + 1})
      /\ call' = [call EXCEPT ![t] = NoCall]
      /\ UNCHANGED <<authorities, clock>>
  BY DEF InsertChild, Insert
<1> HIDE DEF d, up
<1>5. Registry(delegations', lineage') /\ Sticks(delegations, lineage, delegations', lineage')
  BY <1>1, <1>3, <1>4, InsertKeepsRegistry
<1>6. CallsOK' BY <1>1, <1>4, <1>5, CallsKept DEF DelegationInv, CallOK
<1>7. QED BY <1>4, <1>5, <1>6 DEF DelegationInv

\* A validation begins at the leaf.
LEMMA ValidateKeeps ==
    ASSUME DelegationInv, NEW t \in Threads, NEW d \in Ids, NEW s \in Principals,
           validate_for_agent(t, d, s)
    PROVE  DelegationInv'
<1> DEFINE c == WalkFrom(d, s)
<1>1. DOMAIN delegations = 1..Len(delegations) /\ MaxTime \in Nat
  BY DelegationAssumption DEF DelegationInv, Registry
<1>2. /\ c.op = "walk" /\ c.dlg = d /\ c.node = d /\ c.agent = s /\ c.before = RevokedNow
      /\ c \in [op : {"walk", "accepted"}, dlg : 1..Len(delegations), agent : Principals,
                node : 1..Len(delegations), now : Nat,
                before : SUBSET (1..Len(delegations))]
  <2>1. RevokedNow \subseteq 1..Len(delegations) BY <1>1 DEF RevokedNow, Ids
  <2>2. clock \in Nat BY <1>1 DEF DelegationInv
  <2>3. QED BY <1>1, <2>1, <2>2 DEF WalkFrom, Ids
<1> HIDE DEF c
<1>3. Walking(c, delegations, lineage)
  BY <1>2 DEF Walking, Unread, RevokedNow, validate_for_agent
<1>4. QED BY <1>3, CallMoves DEF CallOK, validate_for_agent, c

\* A validation moves one link up, refuses or accepts.
LEMMA WalkKeeps ==
    ASSUME DelegationInv, NEW t \in Threads, Walk(t)
    PROVE  DelegationInv'
<1> DEFINE c == call[t]
           n == c.node
           up == [c EXCEPT !.node = Parent(n)]
           end == [c EXCEPT !.op = "accepted"]
<1>1. DOMAIN delegations = 1..Len(delegations) /\ delegations \in Seq(Delegations)
      /\ Len(delegations) \in Nat
  BY DEF DelegationInv, Registry
<1>2. Walking(c, delegations, lineage) /\ c.op = "walk"
  <2>1. CallOK(c, delegations, lineage) /\ c # NoCall /\ c.op = "walk"
    BY DEF DelegationInv, CallsOK, Walk
  <2>2. QED BY <2>1 DEF CallOK, Issuing, Sweeping
<1>3. n \in 1..Len(delegations) /\ c.dlg \in 1..Len(delegations) BY <1>2 DEF Walking
<1>4. Chained(n, delegations, lineage) BY <1>3 DEF DelegationInv, Registry
<1>5. Parent(n) \in Nat
  <2>1. delegations[n] \in Delegations BY <1>1, <1>3
  <2>2. QED BY <2>1 DEF Parent, Delegations
<1>6. ASSUME is_valid_at(delegations[n], c.now)
      PROVE  n \notin c.before /\ delegations[n].not_before <= c.now
             /\ c.now < delegations[n].not_after
  BY <1>2, <1>6 DEF Walking, is_valid_at
<1>7. CASE ~ is_valid_at(delegations[n], c.now)
  <2>1. call' = [call EXCEPT ![t] = NoCall] BY <1>7 DEF Walk
  <2>2. QED BY <2>1, CallMoves DEF CallOK, Walk
<1>8. CASE is_valid_at(delegations[n], c.now) /\ Parent(n) # 0
  <2>1. Parent(n) \in 1..Len(delegations)
    BY <1>3, <1>4, <1>5, <1>8, <1>1 DEF Chained, Parent
  <2>2. lineage[n] = {n} \cup lineage[Parent(n)] BY <1>4, <1>8 DEF Chained, Parent
  <2>3. /\ up.op = "walk" /\ up.dlg = c.dlg /\ up.agent = c.agent /\ up.node = Parent(n)
        /\ up.now = c.now /\ up.before = c.before
        /\ up \in [op : {"walk", "accepted"}, dlg : 1..Len(delegations), agent : Principals,
                   node : 1..Len(delegations), now : Nat,
                   before : SUBSET (1..Len(delegations))]
    BY <1>2, <2>1 DEF Walking
  <2>4. call' = [call EXCEPT ![t] = up] BY <1>8 DEF Walk
  <2> HIDE DEF up
  <2>5. \A a \in lineage[c.dlg] \ lineage[Parent(n)] :
           /\ a \notin c.before
           /\ delegations[a].not_before <= c.now /\ c.now < delegations[a].not_after
    BY <1>2, <1>6, <1>8, <2>2 DEF Walking, Unread
  <2>6. Walking(up, delegations, lineage) BY <1>2, <2>3, <2>5 DEF Walking, Unread
  <2>7. QED BY <2>4, <2>6, CallMoves DEF CallOK, Walk
<1>9. CASE is_valid_at(delegations[n], c.now) /\ Parent(n) = 0
  <2>1. lineage[n] = {n} BY <1>4, <1>9 DEF Chained, Parent
  <2>2. /\ end.op = "accepted" /\ end.dlg = c.dlg /\ end.agent = c.agent
        /\ end.now = c.now /\ end.before = c.before
        /\ end \in [op : {"walk", "accepted"}, dlg : 1..Len(delegations), agent : Principals,
                    node : 1..Len(delegations), now : Nat,
                    before : SUBSET (1..Len(delegations))]
    BY <1>2 DEF Walking
  <2>3. call' = [call EXCEPT ![t] = end] BY <1>9 DEF Walk
  <2> HIDE DEF end
  <2>4. \A a \in lineage[c.dlg] :
           /\ a \notin c.before
           /\ delegations[a].not_before <= c.now /\ c.now < delegations[a].not_after
    BY <1>2, <1>6, <1>9, <2>1 DEF Walking, Unread
  <2>5. Walking(end, delegations, lineage) BY <1>2, <2>2, <2>4 DEF Walking, Unread
  <2>6. QED BY <2>3, <2>5, CallMoves DEF CallOK, Walk
<1>10. QED BY <1>7, <1>8, <1>9

\* A revocation marks its target and begins its sweep.
LEMMA RevokeKeeps ==
    ASSUME DelegationInv, NEW t \in Threads, NEW d \in Ids, revoke(t, d)
    PROVE  DelegationInv'
<1> DEFINE c == Pass(d, Descendants(d))
<1>1. /\ Registry(delegations, lineage) /\ DOMAIN delegations = 1..Len(delegations)
      /\ delegations \in Seq(Delegations) /\ Len(delegations) \in Nat
      /\ d \in 1..Len(delegations)
  BY DEF DelegationInv, Registry, Ids
<1>2. /\ delegations' = [delegations EXCEPT ![d].revoked = TRUE]
      /\ call' = [call EXCEPT ![t] = c]
      /\ UNCHANGED <<authorities, lineage, clock>>
  BY DEF revoke
<1>3. /\ Registry(delegations', lineage') /\ Sticks(delegations, lineage, delegations', lineage')
      /\ Len(delegations') = Len(delegations) /\ delegations'[d].revoked
  BY <1>1, <1>2, FlagKeepsRegistry
<1>4. /\ c.op = "sweep" /\ c.root = d /\ c.below = Descendants(d) /\ c.at = 1
      /\ c \in [op : {"sweep", "revoked"}, root : 1..Len(delegations'),
                below : SUBSET (1..Len(delegations')), at : Nat \ {0}, size : Nat,
                changed : BOOLEAN]
  <2>1. Descendants(d) \subseteq 1..Len(delegations') BY <1>1, <1>3 DEF Descendants, Ids
  <2>2. QED BY <1>1, <1>3, <2>1 DEF Pass
<1> HIDE DEF c
<1>5. ASSUME NEW i \in c.below, i # d
      PROVE  delegations'[i].parent_id # 0 /\ delegations'[i].parent_id \in c.below
  <2>1. i \in 1..Len(delegations) /\ d \in lineage[i]
    BY <1>1, <1>4 DEF Descendants, Ids
  <2>2. Chained(i, delegations, lineage) BY <1>1, <2>1 DEF Registry
  <2>3. delegations[i].parent_id # 0 /\ d \in lineage[delegations[i].parent_id]
    BY <1>5, <2>1, <2>2 DEF Chained
  <2>4. delegations[i].parent_id \in 1..Len(delegations)
    <3>1. delegations[i] \in Delegations BY <1>1, <2>1
    <3>2. delegations[i].parent_id \in Nat BY <3>1 DEF Delegations
    <3>3. QED BY <1>1, <2>1, <2>2, <2>3, <3>2 DEF Chained
  <2>5. delegations'[i].parent_id = delegations[i].parent_id BY <1>3, <2>1 DEF Sticks
  <2>6. QED BY <1>1, <1>4, <2>3, <2>4, <2>5 DEF Descendants, Ids
<1>6. Sweeping(c, delegations')
  <2>1. \A i \in c.below : i \in 1..Len(delegations) BY <1>1, <1>4 DEF Descendants, Ids
  <2>2. QED BY <1>1, <1>3, <1>4, <1>5, <2>1 DEF Sweeping
<1>7. CallsOK' BY <1>1, <1>2, <1>3, <1>6, CallsKept DEF DelegationInv, CallOK
<1>8. QED BY <1>2, <1>3, <1>7 DEF DelegationInv

\* What a sweep holds when it takes a step.
LEMMA SweepTypes ==
    ASSUME DelegationInv, NEW t \in Threads, Sweep(t)
    PROVE  /\ Registry(delegations, lineage) /\ DOMAIN delegations = 1..Len(delegations)
           /\ delegations \in Seq(Delegations) /\ Len(delegations) \in Nat
           /\ Sweeping(call[t], delegations) /\ call[t].op = "sweep"
           /\ UNCHANGED <<authorities, lineage, clock>>
<1>1. CallOK(call[t], delegations, lineage) /\ call[t] # NoCall /\ call[t].op = "sweep"
  BY DEF DelegationInv, CallsOK, Sweep
<1>2. ~ Issuing(call[t], delegations) BY <1>1 DEF Issuing
<1>3. ~ Walking(call[t], delegations, lineage) BY <1>1 DEF Walking
<1>4. Sweeping(call[t], delegations) BY <1>1, <1>2, <1>3 DEF CallOK
<1>5. QED BY <1>1, <1>4 DEF DelegationInv, Registry, Sweep

\* One entry of the dictionary: the position moves on, and a descendant at the
\* position is revoked by now, since its parent, which precedes it, is.
LEMMA SweepEntryKeeps ==
    ASSUME DelegationInv, NEW t \in Threads, Sweep(t),
           Len(delegations) = call[t].size, call[t].at <= call[t].size
    PROVE  DelegationInv'
<1> DEFINE c == call[t]
           at == c.at
           next == [c EXCEPT !.at = @ + 1]
           moved == [c EXCEPT !.at = @ + 1, !.changed = TRUE]
<1>1. /\ Registry(delegations, lineage) /\ DOMAIN delegations = 1..Len(delegations)
      /\ delegations \in Seq(Delegations) /\ Len(delegations) \in Nat
      /\ Sweeping(c, delegations) /\ c.op = "sweep"
      /\ UNCHANGED <<authorities, lineage, clock>>
  BY SweepTypes
<1>2. /\ c \in [op : {"sweep", "revoked"}, root : 1..Len(delegations),
                below : SUBSET (1..Len(delegations)), at : Nat \ {0}, size : Nat,
                changed : BOOLEAN]
  BY <1>1 DEF Sweeping
<1>3. /\ next.op = "sweep" /\ next.root = c.root /\ next.below = c.below /\ next.at = at + 1
      /\ next \in [op : {"sweep", "revoked"}, root : 1..Len(delegations),
                   below : SUBSET (1..Len(delegations)), at : Nat \ {0}, size : Nat,
                   changed : BOOLEAN]
  BY <1>1, <1>2
<1>4. /\ moved.op = "sweep" /\ moved.root = c.root /\ moved.below = c.below
      /\ moved.at = at + 1
      /\ moved \in [op : {"sweep", "revoked"}, root : 1..Len(delegations),
                    below : SUBSET (1..Len(delegations)), at : Nat \ {0}, size : Nat,
                    changed : BOOLEAN]
  <2>1. moved = [next EXCEPT !.changed = TRUE] OBVIOUS
  <2> HIDE DEF moved, next
  <2>2. QED BY <1>3, <2>1
<1>5. ASSUME at \in c.below, ~ delegations[at].revoked
      PROVE  ToRevoke(at, c.root)
  <2>1. at # c.root /\ at \in 1..Len(delegations) BY <1>1, <1>2, <1>5 DEF Sweeping
  <2>2. delegations[at].parent_id # 0 /\ delegations[at].parent_id \in c.below
    BY <1>1, <1>5, <2>1 DEF Sweeping
  <2>3. delegations[at].parent_id < at BY <1>1, <2>1 DEF Registry, Chained
  <2>4. delegations[delegations[at].parent_id].revoked
    BY <1>1, <2>2, <2>3 DEF Sweeping
  <2>5. QED BY <1>5, <2>2, <2>4 DEF ToRevoke
<1>6. at \in 1..Len(delegations) /\ ~ (at > c.size) BY <1>1, <1>2
<1>7. CASE ToRevoke(at, c.root)
  <2>1. /\ delegations' = [delegations EXCEPT ![at].revoked = TRUE]
        /\ call' = [call EXCEPT ![t] = moved]
    BY <1>6, <1>7, Zenon DEF Sweep
  <2>2. /\ Registry(delegations', lineage')
        /\ Sticks(delegations, lineage, delegations', lineage')
        /\ Len(delegations') = Len(delegations) /\ delegations'[at].revoked
    BY <1>1, <1>6, <2>1, FlagKeepsRegistry
  <2> HIDE DEF moved
  <2>3. \A i \in 1..Len(delegations) :
           /\ delegations'[i].parent_id = delegations[i].parent_id
           /\ delegations[i].revoked => delegations'[i].revoked
    BY <2>2 DEF Sticks
  <2>4. ASSUME NEW i \in c.below, i < at + 1 PROVE delegations'[i].revoked
    <3>1. i \in 1..Len(delegations) BY <1>2
    <3>2. i < at \/ i = at BY <1>6, <2>4, <3>1
    <3>3. CASE i = at BY <2>2, <3>3
    <3>4. CASE i < at
      <4>1. delegations[i].revoked BY <1>1, <3>4 DEF Sweeping
      <4>2. QED BY <2>3, <3>1, <4>1
    <3>5. QED BY <3>2, <3>3, <3>4
  <2>5. c.root \in 1..Len(delegations) /\ c.below \subseteq 1..Len(delegations) BY <1>2
  <2>6. Sweeping(moved, delegations')
    BY <1>1, <1>4, <2>2, <2>3, <2>4, <2>5 DEF Sweeping
  <2>7. CallsOK' BY <1>1, <2>1, <2>2, <2>6, CallsKept DEF DelegationInv, CallOK
  <2>8. QED BY <1>1, <2>2, <2>7 DEF DelegationInv
<1>8. CASE ~ ToRevoke(at, c.root)
  <2>1. UNCHANGED delegations /\ call' = [call EXCEPT ![t] = next]
    BY <1>6, <1>8, Zenon DEF Sweep
  <2> HIDE DEF next
  <2>2. \A i \in c.below : i < at + 1 => delegations[i].revoked
    BY <1>1, <1>2, <1>5, <1>8 DEF Sweeping
  <2>3. Sweeping(next, delegations)
    BY <1>1, <1>3, <2>2 DEF Sweeping
  <2>4. QED BY <1>1, <2>1, <2>3, CallMoves DEF CallOK
<1>9. QED BY <1>7, <1>8

\* The end of a pass: another one, or every descendant is revoked.
LEMMA SweepEndKeeps ==
    ASSUME DelegationInv, NEW t \in Threads, Sweep(t),
           Len(delegations) = call[t].size, call[t].at > call[t].size
    PROVE  DelegationInv'
<1> DEFINE c == call[t]
           again == Pass(c.root, c.below)
           end == [c EXCEPT !.op = "revoked"]
<1>1. /\ Registry(delegations, lineage) /\ DOMAIN delegations = 1..Len(delegations)
      /\ delegations \in Seq(Delegations) /\ Len(delegations) \in Nat
      /\ Sweeping(c, delegations) /\ c.op = "sweep"
      /\ UNCHANGED <<authorities, lineage, clock>>
  BY SweepTypes
<1>2. c \in [op : {"sweep", "revoked"}, root : 1..Len(delegations),
             below : SUBSET (1..Len(delegations)), at : Nat \ {0}, size : Nat,
             changed : BOOLEAN]
  BY <1>1 DEF Sweeping
<1>3. /\ again.op = "sweep" /\ again.root = c.root /\ again.below = c.below /\ again.at = 1
      /\ again \in [op : {"sweep", "revoked"}, root : 1..Len(delegations),
                    below : SUBSET (1..Len(delegations)), at : Nat \ {0}, size : Nat,
                    changed : BOOLEAN]
  BY <1>1, <1>2 DEF Pass
<1>4. /\ end.root = c.root /\ end.below = c.below
      /\ end \in [op : {"sweep", "revoked"}, root : 1..Len(delegations),
                  below : SUBSET (1..Len(delegations)), at : Nat \ {0}, size : Nat,
                  changed : BOOLEAN]
  BY <1>2
<1>5. \A i \in c.below : i < c.at /\ ~ (i < 1) BY <1>1, <1>2
<1>6. \A i \in c.below : delegations[i].revoked BY <1>1, <1>5 DEF Sweeping
<1>7. ~ (c.at <= c.size) BY <1>2
<1>8. /\ UNCHANGED delegations
      /\ \/ call' = [call EXCEPT ![t] = again]
         \/ call' = [call EXCEPT ![t] = end]
  <2>1. UNCHANGED delegations
        /\ call' = [call EXCEPT ![t] = IF c.changed THEN again ELSE end]
    BY <1>7, Zenon DEF Sweep
  <2>2. QED BY <2>1
<1> HIDE DEF again, end
<1>9. Sweeping(again, delegations) /\ Sweeping(end, delegations)
  BY <1>1, <1>3, <1>4, <1>6 DEF Sweeping
<1>10. QED BY <1>1, <1>8, <1>9, CallMoves DEF CallOK

\* A sweep handles one delegation, or ends.
LEMMA SweepKeeps ==
    ASSUME DelegationInv, NEW t \in Threads, Sweep(t)
    PROVE  DelegationInv'
<1>1. call[t].at \in Nat /\ call[t].size \in Nat BY SweepTypes DEF Sweeping
<1>2. CASE Len(delegations) # call[t].size
  <2>1. call' = [call EXCEPT ![t] = NoCall] /\ UNCHANGED delegations
    BY <1>2, Zenon DEF Sweep
  <2>2. QED BY <2>1, SweepTypes, CallMoves DEF CallOK
<1>3. CASE Len(delegations) = call[t].size
  <2>1. call[t].at <= call[t].size \/ call[t].at > call[t].size BY <1>1
  <2>2. QED BY <1>3, <2>1, SweepEntryKeeps, SweepEndKeeps
<1>4. QED BY <1>2, <1>3

\* A call returns.
LEMMA ReturnKeeps ==
    ASSUME DelegationInv, NEW t \in Threads, Return(t)
    PROVE  DelegationInv'
BY CallMoves DEF CallOK, Return

\* Every step preserves the invariant.
LEMMA NextKeepsInv == DelegationInv /\ [Next]_vars => DelegationInv'
<1> SUFFICES ASSUME DelegationInv, [Next]_vars PROVE DelegationInv'
  OBVIOUS
<1>1. ASSUME UNCHANGED <<delegations, lineage, call>>,
             authorities' \subseteq Principals, clock' \in 0..MaxTime
      PROVE  DelegationInv'
  <2>1. Registry(delegations, lineage)' /\ Sticks(delegations, lineage, delegations', lineage')
    BY <1>1, SameSticks DEF DelegationInv
  <2>2. CallsOK' BY <1>1, <2>1, CallsStay DEF DelegationInv
  <2>3. QED BY <1>1, <2>1, <2>2 DEF DelegationInv
<1>2. CASE UNCHANGED vars BY <1>1, <1>2 DEF vars, DelegationInv
<1>3. ASSUME NEW a \in LateAuthorities, register_authority(a) PROVE DelegationInv'
  BY <1>1, <1>3, DelegationAssumption DEF register_authority, DelegationInv
<1>4. CASE Tick
  <2>1. clock' \in 0..MaxTime BY <1>4, DelegationAssumption DEF Tick, DelegationInv
  <2>2. QED BY <1>1, <1>4, <2>1 DEF Tick, DelegationInv
<1>5. ASSUME NEW t \in Threads, CallStep(t) PROVE DelegationInv'
  BY <1>5, InsertChildKeeps, WalkKeeps, SweepKeeps, ReturnKeeps DEF CallStep
<1>6. ASSUME NEW a \in Principals, NEW s \in Principals, NEW o \in Offers,
             NEW m \in ChainDepths, issue_root(a, s, o, m)
      PROVE  DelegationInv'
  BY <1>6, RootKeeps
<1>7. ASSUME NEW t \in Threads, NEW i \in Ids,
             \/ \E s \in Principals, o \in Offers : issue_child(t, i, s, o)
             \/ \E s \in Principals : validate_for_agent(t, i, s)
             \/ \E s \in Principals, x \in BOOLEAN, c \in Classifications :
                   send(t, s, x, c, i)
             \/ revoke(t, i)
      PROVE  DelegationInv'
  BY <1>7, IssueChildKeeps, ValidateKeeps, RevokeKeeps DEF send
<1>8. QED BY <1>2, <1>3, <1>4, <1>5, <1>6, <1>7 DEF Next

\* The invariant holds initially.
LEMMA InitInv == Init => DelegationInv
<1> SUFFICES ASSUME Init PROVE DelegationInv OBVIOUS
<1>1. delegations = <<>> /\ lineage = <<>> /\ Len(delegations) = 0 /\ Len(lineage) = 0
  BY DEF Init
<1>2. Registry(delegations, lineage) BY <1>1 DEF Registry
<1>3. CallsOK BY DEF Init, CallsOK, CallOK
<1>4. QED BY <1>2, <1>3, DelegationAssumption DEF Init, DelegationInv

-----------------------------------------------------------------------------
(***************************************************************************)
(* The theorems.                                                           *)
(***************************************************************************)

\* The inductive invariant holds of every behaviour.
THEOREM DelegationInvariant == Spec => []DelegationInv
<1>1. QED BY InitInv, NextKeepsInv, PTL DEF Spec

\* The registry and the calls in progress always have their types.
THEOREM DelegationTypeCorrect == Spec => []DelegationTypeOK
<1>1. DelegationInv => DelegationTypeOK
  <2> SUFFICES ASSUME DelegationInv PROVE DelegationTypeOK OBVIOUS
  <2>1. DOMAIN delegations = 1..Len(delegations) BY DEF DelegationInv, Registry
  <2>2. QED BY <2>1 DEF DelegationInv, Registry, Chained, CallsOK, DelegationTypeOK, Ids
<1>2. QED BY <1>1, DelegationInvariant, PTL

\* No delegation is wider than anything above it, in a chain of any length,
\* although issue_child compares with the direct parent only.
THEOREM AttenuatedHolds == Spec => []Attenuated
<1>1. DelegationInv => Attenuated
  BY DEF DelegationInv, Registry, Chained, Attenuated, Ids
<1>2. QED BY <1>1, DelegationInvariant, PTL

\* What authz.rego allows under a delegation it allows under a wider one.
LEMMA AllowMonotone ==
    ASSUME NEW d \in Delegations, NEW a \in Delegations, Within(d, a), NEW act \in Actions,
           allow(act, grant_from_delegation(d))
    PROVE  allow(act, grant_from_delegation(a))
<1> DEFINE g == grant_from_delegation(d)
           h == grant_from_delegation(a)
<1>1. /\ g.capabilities \subseteq h.capabilities
      /\ g.resource_scopes \subseteq h.resource_scopes
      /\ g.allow_external_network => h.allow_external_network
      /\ g.shell_permitted => h.shell_permitted
      /\ g.secret_access_permitted => h.secret_access_permitted
  BY DEF grant_from_delegation, Within
<1>2. class_rank[g.clearance] <= class_rank[h.clearance]
      /\ class_rank[g.clearance] \in Nat /\ class_rank[h.clearance] \in Nat
  BY RankIsNat DEF grant_from_delegation, Within, Delegations
<1>3. class_rank[act.data_classification] \in Nat BY RankIsNat, DelegationAssumption
<1>4. scope_covered(act, g) => scope_covered(act, h) BY <1>1 DEF scope_covered
<1>5. required_capability(act) \in g.capabilities => required_capability(act) \in h.capabilities
  BY <1>1
<1>6. class_rank[act.data_classification] > class_rank[h.clearance]
        => class_rank[act.data_classification] > class_rank[g.clearance]
  BY <1>2, <1>3
<1> HIDE DEF g, h
<1>7. violation(act, h) \subseteq violation(act, g)
  BY <1>1, <1>4, <1>5, <1>6, Zenon DEF violation
<1>8. QED BY <1>7 DEF allow, g, h

\* Deriving the grant does not undo attenuation: what the policy allows the
\* holder of a delegation it allows the holder of every delegation above it.
THEOREM GrantsAttenuateHolds == Spec => []GrantsAttenuate
<1>1. DelegationInv => GrantsAttenuate
  <2> SUFFICES ASSUME DelegationInv, NEW i \in Ids, NEW a \in lineage[i] \ {i},
                      NEW act \in Actions, allow(act, grant_from_delegation(delegations[i]))
               PROVE  allow(act, grant_from_delegation(delegations[a]))
    BY DEF GrantsAttenuate
  <2>1. /\ delegations \in Seq(Delegations) /\ i \in 1..Len(delegations)
        /\ Len(delegations) \in Nat /\ Chained(i, delegations, lineage)
    BY DEF DelegationInv, Registry, Ids
  <2>2. a \in 1..Len(delegations) BY <2>1 DEF Chained
  <2>3. delegations[i] \in Delegations /\ delegations[a] \in Delegations BY <2>1, <2>2
  <2>4. Within(delegations[i], delegations[a]) BY <2>1 DEF Chained
  <2>5. QED BY <2>3, <2>4, AllowMonotone
<1>2. QED BY <1>1, DelegationInvariant, PTL

\* A validated delegation had nothing revoked above it when the call began, and
\* is inside every window above, whatever other threads did during the walk.
THEOREM NoLaunderingHolds == Spec => []NoLaundering
<1>1. DelegationInv => NoLaundering
  <2> SUFFICES ASSUME DelegationInv, NEW t \in Threads, call[t] # NoCall,
                      call[t].op = "accepted"
               PROVE  LET c == call[t] IN
                      /\ delegations[c.dlg].subject_agent_id = c.agent
                      /\ \A a \in lineage[c.dlg] :
                            /\ a \notin c.before
                            /\ delegations[a].not_before <= c.now
                            /\ c.now < delegations[a].not_after
    BY DEF NoLaundering
  <2>1. CallOK(call[t], delegations, lineage) BY DEF DelegationInv, CallsOK
  <2>2. Walking(call[t], delegations, lineage) BY <2>1 DEF CallOK, Issuing, Sweeping
  <2>3. QED BY <2>2 DEF Walking, Unread
<1>2. QED BY <1>1, DelegationInvariant, PTL

\* When revoke returns, every descendant it was called for carries the flag.
THEOREM RevocationPropagatesHolds == Spec => []RevocationPropagates
<1>1. DelegationInv => RevocationPropagates
  <2> SUFFICES ASSUME DelegationInv, NEW t \in Threads, call[t] # NoCall,
                      call[t].op = "revoked", NEW i \in call[t].below
               PROVE  delegations[i].revoked
    BY DEF RevocationPropagates
  <2>1. CallOK(call[t], delegations, lineage) BY DEF DelegationInv, CallsOK
  <2>2. Sweeping(call[t], delegations) BY <2>1 DEF CallOK, Issuing, Walking
  <2>3. QED BY <2>2 DEF Sweeping
<1>2. QED BY <1>1, DelegationInvariant, PTL

=============================================================================

------------------------- MODULE KeyRegistryProofs --------------------------
(***************************************************************************)
(* Proofs about the key registry, for any number of administrators, agents *)
(* and keys.                                                               *)
(*                                                                         *)
(* The registry has no lock, so what a loop over the dictionary has done   *)
(* holds only while no other call is in progress.  Serial says what each   *)
(* loop has established at each position as long as that is so; KilledOK   *)
(* says why nothing that happens later, in any interleaving, undoes a      *)
(* completed revoke_agent.                                                 *)
(***************************************************************************)
EXTENDS KeyRegistry, TLAPS

Loops == [agent : Agents, keep : KeyIds \cup {NoKey}, next : Nat \ {0}, size : Nat]

\* The locals of a call, by the place it has reached.
Locals(label) ==
    CASE label = "generating" ->
           [agent : Agents, state : KeyStates \ {"REVOKED"}, window : Windows]
      [] label = "importing" ->
           [agent : Agents, state : KeyStates, window : Windows, key : KeyIds]
      [] label \in {"retiring", "revoking"} -> Loops
      [] OTHER -> {NoOp}

AdminLabels == {"idle", "generating", "importing", "retiring", "revoking"}

AdminsOK ==
    /\ pc \in [Admins -> AdminLabels]
    /\ DOMAIN op = Admins
    /\ \A t \in Admins : op[t] \in Locals(pc[t])

StoreOK ==
    /\ clock \in Nat
    /\ order \in Seq(KeyIds)
    /\ killed \subseteq Agents
    /\ overlapped \in BOOLEAN
    /\ RegistryTypeOK

AtMostOne(a) == \A j, k \in SigningKeys(a) : j = k

\* The position of a loop of _retire_other_active: up to there the agent has
\* no signing key but the one to keep.
Retiring(t) ==
    /\ op[t].size = Len(order)
    /\ \A i \in DOMAIN order :
          i < op[t].next /\ order[i] \in SigningKeys(op[t].agent) => order[i] = op[t].keep

\* The position of a loop of revoke_agent: up to there every key of the agent
\* is revoked.
Revoking(t) ==
    /\ op[t].size = Len(order)
    /\ \A i \in DOMAIN order :
          i < op[t].next /\ keys[order[i]].agent = op[t].agent
             => keys[order[i]].state = "REVOKED"

\* While no two calls have overlapped.
Serial ==
    ~ overlapped =>
        /\ \A u, v \in InProgress : u = v
        /\ \A t \in Admins : pc[t] = "retiring" => Retiring(t)
        /\ \A t \in Admins : pc[t] = "revoking" => Revoking(t)
        /\ \A a \in Agents :
              AtMostOne(a) \/ \E t \in Admins : pc[t] = "retiring" /\ op[t].agent = a

\* After a completed revoke_agent: the agent stays disabled, so no call may
\* create a key for it, and its keys stay revoked.
KilledOK ==
    \A a \in killed :
        /\ agents[a] = "disabled"
        /\ \A k \in Known : keys[k].agent = a => keys[k].state = "REVOKED"
        /\ \A t \in Admins : pc[t] \in {"generating", "importing"} => op[t].agent # a

\* The inductive invariant.
RegistryInv == AdminsOK /\ StoreOK /\ Serial /\ KilledOK

-----------------------------------------------------------------------------
(***************************************************************************)
(* What the steps do to the records and to the calls.                      *)
(***************************************************************************)

\* Key k goes to state s; nothing else of any record changes.
SetsState(k, s) ==
    /\ keys' \in [KeyIds -> KeyRecords \cup {NoKey}]
    /\ Known' = Known
    /\ keys'[k].state = s
    /\ \A j \in Known :
          /\ keys'[j].agent = keys[j].agent
          /\ keys'[j].private = keys[j].private
          /\ keys'[j].not_before = keys[j].not_before
          /\ keys'[j].not_after = keys[j].not_after
    /\ \A j \in KeyIds \ {k} : keys'[j] = keys[j]

\* Setting the state of a stored key.
LEMMA StateSet ==
    ASSUME StoreOK, NEW k \in Known, NEW s \in KeyStates,
           keys' = [keys EXCEPT ![k].state = s]
    PROVE  SetsState(k, s)
<1> DEFINE r == [keys[k] EXCEPT !.state = s]
<1>1. k \in KeyIds /\ keys[k] \in KeyRecords
      /\ keys \in [KeyIds -> KeyRecords \cup {NoKey}]
  BY DEF Known, StoreOK, RegistryTypeOK
<1>2. /\ r \in KeyRecords /\ r.state = s /\ r.agent = keys[k].agent
      /\ r.private = keys[k].private /\ r.not_before = keys[k].not_before
      /\ r.not_after = keys[k].not_after
  BY <1>1 DEF KeyRecords
<1>3. keys' = [keys EXCEPT ![k] = r] OBVIOUS
<1> HIDE DEF r
<1>4. r # NoKey BY <1>2, RegistryAssumption
<1>5. /\ keys' \in [KeyIds -> KeyRecords \cup {NoKey}] /\ keys'[k] = r
      /\ \A j \in KeyIds \ {k} : keys'[j] = keys[j]
  BY <1>1, <1>2, <1>3
<1>6. Known' = Known BY <1>1, <1>4, <1>5 DEF Known
<1>7. QED BY <1>2, <1>5, <1>6 DEF SetsState, Known

\* A record is inserted or overwritten.
LEMMA RecordSet ==
    ASSUME StoreOK, NEW k \in KeyIds, NEW r \in KeyRecords,
           keys' = [keys EXCEPT ![k] = r],
           order' = IF k \in Known THEN order ELSE Append(order, k)
    PROVE  /\ keys' \in [KeyIds -> KeyRecords \cup {NoKey}]
           /\ Known' = Known \cup {k}
           /\ keys'[k] = r
           /\ \A j \in KeyIds \ {k} : keys'[j] = keys[j]
           /\ order' \in Seq(KeyIds)
           /\ {order'[i] : i \in DOMAIN order'} = Known'
           /\ \A i, j \in DOMAIN order' : order'[i] = order'[j] => i = j
           /\ Len(order') = IF k \in Known THEN Len(order) ELSE Len(order) + 1
<1>1. keys \in [KeyIds -> KeyRecords \cup {NoKey}] /\ order \in Seq(KeyIds)
      /\ Len(order) \in Nat /\ DOMAIN order = 1..Len(order)
  BY DEF StoreOK, RegistryTypeOK
<1>2. r # NoKey BY RegistryAssumption
<1>3. /\ keys' \in [KeyIds -> KeyRecords \cup {NoKey}] /\ keys'[k] = r
      /\ \A j \in KeyIds \ {k} : keys'[j] = keys[j]
  BY <1>1
<1>4. Known' = Known \cup {k} BY <1>2, <1>3 DEF Known
<1>5. CASE k \in Known
  <2>1. order' = order /\ Known' = Known BY <1>4, <1>5
  <2>2. QED BY <1>1, <1>3, <1>4, <1>5, <2>1 DEF StoreOK, RegistryTypeOK
<1>6. CASE k \notin Known
  <2>1. /\ order' \in Seq(KeyIds) /\ Len(order') = Len(order) + 1
        /\ order'[Len(order) + 1] = k
        /\ \A i \in 1..Len(order) : order'[i] = order[i]
        /\ DOMAIN order' = 1..(Len(order) + 1)
    BY <1>1, <1>6
  <2>2. \A i \in 1..Len(order) : order[i] \in Known
    BY <1>1 DEF StoreOK, RegistryTypeOK
  <2>3. {order'[i] : i \in DOMAIN order'} = Known \cup {k}
    <3>1. \A x \in Known : \E i \in 1..Len(order) : x = order[i]
      BY <1>1 DEF StoreOK, RegistryTypeOK
    <3>2. QED BY <1>1, <2>1, <2>2, <3>1
  <2>4. \A i, j \in DOMAIN order' : order'[i] = order'[j] => i = j
    <3>1. \A i, j \in 1..Len(order) : order[i] = order[j] => i = j
      BY <1>1 DEF StoreOK, RegistryTypeOK
    <3>2. \A i \in DOMAIN order' : i \in 1..Len(order) \/ i = Len(order) + 1
      BY <1>1, <2>1
    <3>3. QED BY <1>1, <1>6, <2>1, <2>2, <3>1, <3>2
  <2>5. QED BY <1>3, <1>4, <1>6, <2>1, <2>3, <2>4
<1>7. QED BY <1>5, <1>6

\* A call's place and locals change; the other calls stay.
LEMMA BecomeKeeps ==
    ASSUME AdminsOK, NEW t \in Admins, NEW l \in AdminLabels, NEW x \in Locals(l),
           Become(t, l, x)
    PROVE  /\ AdminsOK'
           /\ pc'[t] = l /\ op'[t] = x
           /\ \A u \in Admins \ {t} : pc'[u] = pc[u] /\ op'[u] = op[u]
           /\ overlapped' \in BOOLEAN
<1>1. /\ pc' = [pc EXCEPT ![t] = l] /\ op' = [op EXCEPT ![t] = x]
  BY DEF Become
<1>2. /\ pc' \in [Admins -> AdminLabels] /\ DOMAIN op' = Admins
      /\ pc'[t] = l /\ op'[t] = x
      /\ \A u \in Admins \ {t} : pc'[u] = pc[u] /\ op'[u] = op[u]
  BY <1>1 DEF AdminsOK
<1>3. \A u \in Admins : op'[u] \in Locals(pc'[u]) BY <1>2 DEF AdminsOK
<1>4. overlapped' \in BOOLEAN BY Zenon DEF Become
<1>5. QED BY <1>2, <1>3, <1>4 DEF AdminsOK

\* If the calls have not overlapped after a step that changes a call's place,
\* every other call is over.
LEMMA OthersIdle ==
    ASSUME AdminsOK, Serial, NEW t \in Admins, NEW l \in AdminLabels, NEW x \in Locals(l),
           Become(t, l, x), l # "idle" \/ pc[t] # "idle", ~ overlapped'
    PROVE  /\ ~ overlapped
           /\ \A u \in Admins \ {t} : pc'[u] = "idle"
<1>1. ~ overlapped /\ \A u, v \in InProgress' : u = v BY DEF Become
<1>2. pc'[t] = l /\ \A u \in Admins \ {t} : pc'[u] = pc[u] BY BecomeKeeps
<1>3. \A u, v \in InProgress : u = v BY <1>1 DEF Serial
<1>4. CASE l # "idle" BY <1>1, <1>2, <1>4 DEF InProgress
<1>5. CASE pc[t] # "idle" BY <1>1, <1>2, <1>3, <1>5 DEF InProgress
<1>6. QED BY <1>1, <1>4, <1>5

\* So Serial need only be shown of that call.
LEMMA SerialBecomes ==
    ASSUME AdminsOK, Serial, NEW t \in Admins, NEW l \in AdminLabels, NEW x \in Locals(l),
           Become(t, l, x), l # "idle" \/ pc[t] # "idle",
           ~ overlapped' =>
              /\ l = "retiring" => Retiring(t)'
              /\ l = "revoking" => Revoking(t)'
              /\ \A a \in Agents : AtMostOne(a)' \/ (l = "retiring" /\ x.agent = a)
    PROVE  Serial'
<1> SUFFICES ASSUME ~ overlapped'
             PROVE  /\ \A u, v \in InProgress' : u = v
                    /\ \A u \in Admins : pc'[u] = "retiring" => Retiring(u)'
                    /\ \A u \in Admins : pc'[u] = "revoking" => Revoking(u)'
                    /\ \A a \in Agents :
                          AtMostOne(a)' \/ \E u \in Admins : pc'[u] = "retiring" /\ op'[u].agent = a
  BY DEF Serial
<1>1. \A u \in Admins \ {t} : pc'[u] = "idle" BY OthersIdle
<1>2. pc'[t] = l /\ op'[t] = x BY BecomeKeeps
<1>3. \A u, v \in InProgress' : u = v BY <1>1 DEF InProgress
<1>4. \A u \in Admins : u # t => pc'[u] \notin {"retiring", "revoking"} BY <1>1
<1>5. QED BY <1>2, <1>3, <1>4

\* No key starts to sign, and a revoked key stays revoked.
KeysWane ==
    /\ keys' \in [KeyIds -> KeyRecords \cup {NoKey}]
    /\ Known' = Known
    /\ \A k \in Known :
          /\ keys'[k].agent = keys[k].agent
          /\ keys'[k].private = keys[k].private
          /\ keys'[k].state = "ACTIVE" => keys[k].state = "ACTIVE"
          /\ keys[k].state = "REVOKED" => keys'[k].state = "REVOKED"

\* Nothing changes.
LEMMA WaneSame ==
    ASSUME StoreOK, UNCHANGED keys PROVE KeysWane
BY DEF StoreOK, RegistryTypeOK, KeysWane, Known

\* A key is retired or revoked.
LEMMA WaneSet ==
    ASSUME NEW k \in Known, NEW s \in KeyStates, SetsState(k, s), s # "ACTIVE",
           keys[k].state = "REVOKED" => s = "REVOKED"
    PROVE  KeysWane
BY DEF SetsState, KeysWane, Known

\* No agent gains a signing key.
LEMMA WaneSigning ==
    ASSUME KeysWane
    PROVE  \A a \in Agents : /\ SigningKeys(a)' \subseteq SigningKeys(a)
                             /\ AtMostOne(a) => AtMostOne(a)'
BY DEF KeysWane, SigningKeys, AtMostOne

\* A step between calls, or of time, that only takes keys away.
LEMMA SerialStays ==
    ASSUME AdminsOK, StoreOK, Serial, KeysWane, UNCHANGED <<adminVars, order>>
    PROVE  Serial'
<1> SUFFICES ASSUME ~ overlapped
             PROVE  /\ \A u, v \in InProgress' : u = v
                    /\ \A u \in Admins : pc[u] = "retiring" => Retiring(u)'
                    /\ \A u \in Admins : pc[u] = "revoking" => Revoking(u)'
                    /\ \A a \in Agents :
                          AtMostOne(a)' \/ \E u \in Admins : pc[u] = "retiring" /\ op[u].agent = a
  BY DEF Serial, adminVars
<1>1. \A u, v \in InProgress' : u = v BY DEF Serial, InProgress, adminVars
<1>2. ASSUME NEW u \in Admins, pc[u] = "retiring" PROVE Retiring(u)'
  <2>1. Retiring(u) BY <1>2 DEF Serial
  <2>2. op[u].agent \in Agents BY <1>2 DEF AdminsOK, Locals, Loops
  <2>3. QED BY <2>1, <2>2, WaneSigning DEF Retiring, adminVars
<1>3. ASSUME NEW u \in Admins, pc[u] = "revoking" PROVE Revoking(u)'
  <2>1. Revoking(u) BY <1>3 DEF Serial
  <2>2. \A i \in DOMAIN order : order[i] \in Known BY DEF StoreOK, RegistryTypeOK
  <2>3. QED BY <2>1, <2>2 DEF Revoking, adminVars, KeysWane
<1>4. \A a \in Agents :
         AtMostOne(a)' \/ \E u \in Admins : pc[u] = "retiring" /\ op[u].agent = a
  BY WaneSigning DEF Serial
<1>5. QED BY <1>1, <1>2, <1>3, <1>4

\* What keeps a killed agent's keys revoked.
LEMMA KilledStays ==
    ASSUME KilledOK, UNCHANGED killed, killed \subseteq Agents,
           \A a \in Agents : agents[a] = "disabled" => agents'[a] = "disabled",
           \A k \in Known' :
              \/ /\ k \in Known /\ keys'[k].agent = keys[k].agent
                 /\ keys[k].state = "REVOKED" => keys'[k].state = "REVOKED"
              \/ keys'[k].agent \notin killed,
           \A t \in Admins : pc'[t] \in {"generating", "importing"} =>
              \/ pc[t] = pc'[t] /\ op'[t].agent = op[t].agent
              \/ agents[op'[t].agent] = "enabled"
    PROVE  KilledOK'
<1> SUFFICES ASSUME NEW a \in killed
             PROVE  /\ agents'[a] = "disabled"
                    /\ \A k \in Known' : keys'[k].agent = a => keys'[k].state = "REVOKED"
                    /\ \A t \in Admins : pc'[t] \in {"generating", "importing"} => op'[t].agent # a
  BY DEF KilledOK
<1>1. agents[a] = "disabled" /\ a \in Agents BY DEF KilledOK
<1>2. \A k \in Known' : keys'[k].agent = a => keys'[k].state = "REVOKED" BY DEF KilledOK
<1>3. \A t \in Admins : pc'[t] \in {"generating", "importing"} => op'[t].agent # a
  BY <1>1 DEF KilledOK
<1>4. QED BY <1>1, <1>2, <1>3

\* The store's type, when the order of insertion does not change.
LEMMA StoreKept ==
    ASSUME StoreOK, keys' \in [KeyIds -> KeyRecords \cup {NoKey}], Known' = Known,
           UNCHANGED order, clock' \in Nat, killed' \subseteq Agents, overlapped' \in BOOLEAN,
           agents' \in [Agents -> {"unknown", "enabled", "disabled"}]
    PROVE  StoreOK'
BY DEF StoreOK, RegistryTypeOK

-----------------------------------------------------------------------------
(***************************************************************************)
(* The steps, one by one.                                                  *)
(***************************************************************************)

\* Steps that touch no call in progress: register, disable, revoke, time.
LEMMA AtomicKeeps ==
    ASSUME RegistryInv, KeysWane, UNCHANGED <<adminVars, order, killed>>, clock' \in Nat,
           agents' \in [Agents -> {"unknown", "enabled", "disabled"}],
           \A a \in Agents : agents[a] = "disabled" => agents'[a] = "disabled"
    PROVE  RegistryInv'
<1>1. AdminsOK' BY DEF RegistryInv, AdminsOK, adminVars
<1>2. StoreOK' BY StoreKept DEF RegistryInv, StoreOK, KeysWane, adminVars
<1>3. Serial' BY SerialStays DEF RegistryInv
<1>4. KilledOK'
  <2>1. killed \subseteq Agents BY DEF RegistryInv, StoreOK
  <2>2. \A k \in Known' : /\ k \in Known /\ keys'[k].agent = keys[k].agent
                          /\ keys[k].state = "REVOKED" => keys'[k].state = "REVOKED"
    BY DEF KeysWane
  <2>3. QED BY <2>1, <2>2, KilledStays DEF RegistryInv, adminVars
<1>5. QED BY <1>1, <1>2, <1>3, <1>4 DEF RegistryInv

\* Steps that begin or end a call and leave the store alone.
LEMMA CallKeeps ==
    ASSUME RegistryInv, NEW t \in Admins, NEW l \in AdminLabels, NEW x \in Locals(l),
           Become(t, l, x), UNCHANGED <<clock, agents, keys, order, killed>>,
           \/ l = "idle" /\ pc[t] # "idle" /\ (pc[t] = "retiring" => Grown(t) \/ AtEnd(t))
           \/ l \in {"generating", "importing"} /\ pc[t] = "idle" /\ RequireAgent(x.agent)
           \/ l = "revoking" /\ pc[t] = "idle" /\ x.next = 1 /\ x.size = Len(order)
    PROVE  RegistryInv'
<1>1. /\ AdminsOK' /\ pc'[t] = l /\ op'[t] = x
      /\ \A u \in Admins \ {t} : pc'[u] = pc[u] /\ op'[u] = op[u]
      /\ overlapped' \in BOOLEAN
  BY BecomeKeeps DEF RegistryInv
<1>2. KeysWane BY WaneSame DEF RegistryInv
<1>3. StoreOK' BY <1>1, <1>2, StoreKept DEF RegistryInv, StoreOK, RegistryTypeOK, KeysWane
<1>4. Serial'
  <2>1. l = "revoking" => Revoking(t)'
    <3>1. DOMAIN order = 1..Len(order) BY DEF RegistryInv, StoreOK
    <3>2. QED BY <1>1, <3>1 DEF Revoking
  <2>2. ASSUME ~ overlapped', NEW a \in Agents PROVE AtMostOne(a)'
    <3>1. ~ overlapped /\ \A u \in Admins \ {t} : pc'[u] = "idle"
      BY <2>2, OthersIdle DEF RegistryInv
    <3>2. AtMostOne(a) \/ (pc[t] = "retiring" /\ op[t].agent = a)
      BY <1>1, <3>1 DEF RegistryInv, Serial
    <3>3. CASE pc[t] = "retiring" /\ op[t].agent = a
      <4>1. Retiring(t) /\ op[t] \in Loops
        BY <3>1, <3>3 DEF RegistryInv, Serial, AdminsOK, Locals
      <4>2. AtEnd(t) BY <3>3, <4>1 DEF Grown, Retiring
      <4>3. ASSUME NEW k \in SigningKeys(a) PROVE k = op[t].keep
        <5>1. k \in Known BY DEF SigningKeys
        <5>2. PICK i \in DOMAIN order : k = order[i]
          BY <5>1 DEF RegistryInv, StoreOK, RegistryTypeOK
        <5>3. i < op[t].next
          BY <4>1, <4>2 DEF AtEnd, Loops, RegistryInv, StoreOK
        <5>4. QED BY <3>3, <4>1, <5>2, <5>3 DEF Retiring
      <4>4. AtMostOne(a) BY <4>3 DEF AtMostOne
      <4>5. QED BY <4>4, <1>2, WaneSigning
    <3>4. QED BY <3>2, <3>3, <1>2, WaneSigning
  <2>3. QED BY <2>1, <2>2, SerialBecomes DEF RegistryInv
<1>5. KilledOK'
  <2>1. killed \subseteq Agents BY DEF RegistryInv, StoreOK
  <2>2. \A k \in Known' : /\ k \in Known /\ keys'[k].agent = keys[k].agent
                          /\ keys[k].state = "REVOKED" => keys'[k].state = "REVOKED"
    BY <1>2 DEF KeysWane
  <2>3. \A u \in Admins : pc'[u] \in {"generating", "importing"} =>
              \/ pc[u] = pc'[u] /\ op'[u].agent = op[u].agent
              \/ agents[op'[u].agent] = "enabled"
    BY <1>1 DEF RequireAgent
  <2>4. QED BY <2>1, <2>2, <2>3, KilledStays DEF RegistryInv
<1>6. QED BY <1>1, <1>3, <1>4, <1>5 DEF RegistryInv

\* Steps that end or continue a call by inserting a record for its agent.
LEMMA InsertKeeps ==
    ASSUME RegistryInv, NEW t \in Admins, pc[t] \in {"generating", "importing"},
           NEW k \in KeyIds, NEW r \in KeyRecords,
           r.agent = op[t].agent,
           keys' = [keys EXCEPT ![k] = r],
           order' = IF k \in Known THEN order ELSE Append(order, k),
           NEW l \in {"idle", "retiring"}, NEW x \in Locals(l), Become(t, l, x),
           l = "idle" => r.state # "ACTIVE" \/ ~ r.private,
           l = "retiring" => x.agent = r.agent /\ x.next = 1 /\ x.size = Len(order'),
           UNCHANGED <<clock, agents, killed>>
    PROVE  RegistryInv'
<1>0. l \in AdminLabels BY DEF AdminLabels
<1>1. /\ AdminsOK' /\ pc'[t] = l /\ op'[t] = x
      /\ \A u \in Admins \ {t} : pc'[u] = pc[u] /\ op'[u] = op[u]
      /\ overlapped' \in BOOLEAN
  BY <1>0, BecomeKeeps DEF RegistryInv
<1>2. /\ keys' \in [KeyIds -> KeyRecords \cup {NoKey}]
      /\ Known' = Known \cup {k} /\ keys'[k] = r
      /\ \A j \in KeyIds \ {k} : keys'[j] = keys[j]
      /\ order' \in Seq(KeyIds)
      /\ {order'[i] : i \in DOMAIN order'} = Known'
      /\ \A i, j \in DOMAIN order' : order'[i] = order'[j] => i = j
  BY RecordSet DEF RegistryInv
<1>3. StoreOK' BY <1>1, <1>2 DEF RegistryInv, StoreOK, RegistryTypeOK
<1>4. Serial'
  <2>1. l = "retiring" => Retiring(t)'
    <3>1. DOMAIN order' = 1..Len(order') BY <1>2
    <3>2. QED BY <1>1, <3>1 DEF Retiring
  <2>2. ASSUME ~ overlapped', NEW a \in Agents, ~ (l = "retiring" /\ x.agent = a)
        PROVE  AtMostOne(a)'
    <3>1. ~ overlapped /\ \A u \in Admins \ {t} : pc'[u] = "idle"
      BY <1>0, <2>2, OthersIdle DEF RegistryInv
    <3>2. AtMostOne(a) BY <1>1, <3>1 DEF RegistryInv, Serial
    <3>3. k \notin SigningKeys(a)' BY <1>2, <2>2 DEF SigningKeys
    <3>4. SigningKeys(a)' \subseteq SigningKeys(a) BY <1>2, <3>3 DEF SigningKeys, Known
    <3>5. QED BY <3>2, <3>4 DEF AtMostOne
  <2>3. QED BY <1>0, <2>1, <2>2, SerialBecomes DEF RegistryInv
<1>5. KilledOK'
  <2>1. killed \subseteq Agents BY DEF RegistryInv, StoreOK
  <2>2. r.agent \notin killed BY DEF RegistryInv, KilledOK
  <2>3. \A j \in Known' :
              \/ /\ j \in Known /\ keys'[j].agent = keys[j].agent
                 /\ keys[j].state = "REVOKED" => keys'[j].state = "REVOKED"
              \/ keys'[j].agent \notin killed
    BY <1>2, <2>2 DEF Known
  <2>4. QED BY <1>1, <2>1, <2>3, KilledStays DEF RegistryInv
<1>6. QED BY <1>1, <1>3, <1>4, <1>5 DEF RegistryInv

\* The record a call inserts.
LEMMA NewRecordTyped ==
    ASSUME RegistryInv, NEW t \in Admins, pc[t] \in {"generating", "importing"},
           NEW private \in BOOLEAN
    PROVE  /\ NewRecord(t, private) \in KeyRecords
           /\ NewRecord(t, private).agent = op[t].agent
           /\ NewRecord(t, private).state = op[t].state
           /\ NewRecord(t, private).private = private
<1>1. op[t].agent \in Agents /\ op[t].state \in KeyStates /\ op[t].window \in Windows
  BY DEF RegistryInv, AdminsOK, Locals
<1>2. op[t].window.delay \in Nat /\ op[t].window.length \in Nat
  BY <1>1, RegistryAssumption
<1>3. clock \in Nat BY DEF RegistryInv, StoreOK
<1>4. QED BY <1>1, <1>2, <1>3 DEF NewRecord, KeyRecords

\* A generated key is stored.
LEMMA GeneratedKeeps ==
    ASSUME RegistryInv, NEW t \in Admins, NEW k \in KeyIds, Insert(t, k)
    PROVE  RegistryInv'
<1> DEFINE r == NewRecord(t, TRUE)
           x == LoopOver(op[t].agent, k, Len(order) + 1)
<1>1. pc[t] = "generating" /\ k \notin Known BY DEF Insert
<1>2. /\ r \in KeyRecords /\ r.agent = op[t].agent /\ r.state = op[t].state
  BY <1>1, NewRecordTyped
<1>3. /\ keys' = [keys EXCEPT ![k] = r] /\ order' = Append(order, k)
      /\ UNCHANGED <<clock, agents, killed>>
      /\ IF op[t].state = "ACTIVE" THEN Become(t, "retiring", x) ELSE Become(t, "idle", NoOp)
  BY DEF Insert, Done
<1>4. op[t].agent \in Agents BY <1>1 DEF RegistryInv, AdminsOK, Locals
<1>5. Len(order) \in Nat /\ Len(order') = Len(order) + 1
  BY <1>3 DEF RegistryInv, StoreOK
<1>6. x \in Locals("retiring") /\ x.agent = op[t].agent /\ x.next = 1 /\ x.size = Len(order')
  BY <1>4, <1>5 DEF LoopOver, Locals, Loops
<1>7. NoOp \in Locals("idle") BY DEF Locals
<1> HIDE DEF r, x
<1>8. CASE op[t].state = "ACTIVE"
  BY <1>1, <1>2, <1>3, <1>6, <1>8, InsertKeeps
<1>9. CASE op[t].state # "ACTIVE"
  BY <1>1, <1>2, <1>3, <1>7, <1>9, InsertKeeps
<1>10. QED BY <1>8, <1>9

\* An imported key is stored, over whatever was there.
LEMMA ImportedKeeps ==
    ASSUME RegistryInv, NEW t \in Admins, InsertImported(t)
    PROVE  RegistryInv'
<1> DEFINE r == NewRecord(t, FALSE)
           k == op[t].key
<1>1. pc[t] = "importing" BY DEF InsertImported
<1>2. r \in KeyRecords /\ r.agent = op[t].agent /\ ~ r.private
  BY <1>1, NewRecordTyped
<1>3. k \in KeyIds BY <1>1 DEF RegistryInv, AdminsOK, Locals
<1>4. /\ keys' = [keys EXCEPT ![k] = r]
      /\ order' = IF k \in Known THEN order ELSE Append(order, k)
      /\ UNCHANGED <<clock, agents, killed>>
      /\ Become(t, "idle", NoOp)
  BY DEF InsertImported, Done
<1>5. NoOp \in Locals("idle") BY DEF Locals
<1> HIDE DEF r, k
<1>6. QED BY <1>1, <1>2, <1>3, <1>4, <1>5, InsertKeeps

\* activate makes a key signing and starts to retire the others.
LEMMA ActivateKeeps ==
    ASSUME RegistryInv, NEW t \in Admins, NEW k \in KeyIds, Activate(t, k)
    PROVE  RegistryInv'
<1> DEFINE x == LoopOver(keys[k].agent, k, Len(order))
<1>1. /\ pc[t] = "idle" /\ k \in Known /\ keys[k].state # "REVOKED"
      /\ keys' = [keys EXCEPT ![k].state = "ACTIVE"]
      /\ Become(t, "retiring", x)
      /\ UNCHANGED <<clock, agents, order, killed>>
  BY DEF Activate
<1>2. SetsState(k, "ACTIVE") BY <1>1, StateSet DEF RegistryInv, KeyStates
<1>3. keys[k].agent \in Agents /\ Len(order) \in Nat /\ DOMAIN order = 1..Len(order)
  BY <1>1 DEF RegistryInv, StoreOK, RegistryTypeOK, Known, KeyRecords
<1>4. "retiring" \in AdminLabels BY DEF AdminLabels
<1>5. x \in Locals("retiring") /\ x.agent = keys[k].agent /\ x.next = 1 /\ x.size = Len(order)
  BY <1>3 DEF LoopOver, Locals, Loops
<1> HIDE DEF x
<1>6. /\ AdminsOK' /\ pc'[t] = "retiring" /\ op'[t] = x
      /\ \A u \in Admins \ {t} : pc'[u] = pc[u] /\ op'[u] = op[u]
      /\ overlapped' \in BOOLEAN
  BY <1>1, <1>4, <1>5, BecomeKeeps DEF RegistryInv
<1>7. StoreOK'
  BY <1>1, <1>2, <1>6, StoreKept DEF RegistryInv, StoreOK, RegistryTypeOK, SetsState
<1>8. Serial'
  <2>1. Retiring(t)' BY <1>1, <1>3, <1>5, <1>6 DEF Retiring
  <2>2. ASSUME ~ overlapped', NEW a \in Agents, x.agent # a PROVE AtMostOne(a)'
    <3>1. ~ overlapped /\ \A u \in Admins \ {t} : pc'[u] = "idle"
      BY <1>1, <1>4, <1>5, <2>2, OthersIdle DEF RegistryInv
    <3>2. AtMostOne(a) BY <1>1, <1>6, <3>1 DEF RegistryInv, Serial
    <3>3. SigningKeys(a)' \subseteq SigningKeys(a)
      BY <1>1, <1>2, <1>5, <2>2 DEF SigningKeys, SetsState, Known
    <3>4. QED BY <3>2, <3>3 DEF AtMostOne
  <2>3. QED BY <1>1, <1>4, <1>5, <2>1, <2>2, SerialBecomes DEF RegistryInv
<1>9. KilledOK'
  <2>1. killed \subseteq Agents BY DEF RegistryInv, StoreOK
  <2>2. keys[k].agent \notin killed BY <1>1 DEF RegistryInv, KilledOK
  <2>3. \A j \in Known' :
              \/ /\ j \in Known /\ keys'[j].agent = keys[j].agent
                 /\ keys[j].state = "REVOKED" => keys'[j].state = "REVOKED"
              \/ keys'[j].agent \notin killed
    BY <1>1, <1>2, <2>2 DEF SetsState, Known
  <2>4. QED BY <1>1, <1>6, <2>1, <2>3, KilledStays DEF RegistryInv
<1>10. QED BY <1>6, <1>7, <1>8, <1>9 DEF RegistryInv

\* A loop moves on by one record.
LEMMA AdvanceDoes ==
    ASSUME AdminsOK, NEW t \in Admins, pc[t] \in {"retiring", "revoking"}, Advance(t)
    PROVE  /\ AdminsOK' /\ UNCHANGED <<pc, overlapped>>
           /\ op[t] \in Loops
           /\ op'[t].agent = op[t].agent /\ op'[t].keep = op[t].keep
           /\ op'[t].size = op[t].size /\ op'[t].next = op[t].next + 1
           /\ \A u \in Admins \ {t} : op'[u] = op[u]
<1> DEFINE x == [op[t] EXCEPT !.next = @ + 1]
<1>1. op[t] \in Loops BY DEF AdminsOK, Locals
<1>2. /\ x \in Loops /\ x.agent = op[t].agent /\ x.keep = op[t].keep
      /\ x.size = op[t].size /\ x.next = op[t].next + 1
  BY <1>1 DEF Loops
<1>3. op' = [op EXCEPT ![t] = x] /\ UNCHANGED <<pc, overlapped>> BY DEF Advance
<1> HIDE DEF x
<1>4. op'[t] = x /\ DOMAIN op' = Admins /\ \A u \in Admins \ {t} : op'[u] = op[u]
  BY <1>3 DEF AdminsOK
<1>5. AdminsOK'
  <2>1. \A u \in Admins : op'[u] \in Locals(pc[u])
    <3>1. x \in Locals(pc[t]) BY <1>2 DEF Locals
    <3>2. QED BY <1>4, <3>1 DEF AdminsOK
  <2>2. QED BY <1>3, <1>4, <2>1 DEF AdminsOK
<1>6. QED BY <1>1, <1>2, <1>3, <1>4, <1>5

\* The next record of either loop: keys wane, and the record at the position
\* is dealt with.
LEMMA LoopKeeps ==
    ASSUME RegistryInv, NEW t \in Admins, pc[t] \in {"retiring", "revoking"}, Advance(t),
           ~ Grown(t), ~ AtEnd(t), KeysWane, UNCHANGED <<clock, agents, order, killed>>,
           pc[t] = "retiring" /\ Current(t) \in SigningKeys(op[t].agent)'
              => Current(t) = op[t].keep,
           pc[t] = "revoking" /\ keys'[Current(t)].agent = op[t].agent
              => keys'[Current(t)].state = "REVOKED"
    PROVE  RegistryInv'
<1>1. /\ AdminsOK' /\ UNCHANGED <<pc, overlapped>>
      /\ op[t] \in Loops
      /\ op'[t].agent = op[t].agent /\ op'[t].keep = op[t].keep
      /\ op'[t].size = op[t].size /\ op'[t].next = op[t].next + 1
      /\ \A u \in Admins \ {t} : op'[u] = op[u]
  BY AdvanceDoes DEF RegistryInv
<1>2. StoreOK' BY <1>1, StoreKept DEF RegistryInv, StoreOK, RegistryTypeOK, KeysWane
<1>3. /\ DOMAIN order = 1..Len(order) /\ Len(order) \in Nat
      /\ \A i \in DOMAIN order : order[i] \in Known
      /\ op[t].next \in Nat /\ op[t].agent \in Agents
  BY <1>1 DEF RegistryInv, StoreOK, RegistryTypeOK, Loops
<1>4. Serial'
  <2> SUFFICES ASSUME ~ overlapped
               PROVE  /\ \A u, v \in InProgress' : u = v
                      /\ \A u \in Admins : pc[u] = "retiring" => Retiring(u)'
                      /\ \A u \in Admins : pc[u] = "revoking" => Revoking(u)'
                      /\ \A a \in Agents :
                            AtMostOne(a)' \/ \E u \in Admins : pc[u] = "retiring" /\ op'[u].agent = a
    BY <1>1 DEF Serial
  <2>1. \A u, v \in InProgress' : u = v BY <1>1 DEF RegistryInv, Serial, InProgress
  <2>2. \A u \in Admins : pc[u] # "idle" => u = t BY DEF RegistryInv, Serial, InProgress
  <2>3. ASSUME pc[t] = "retiring" PROVE Retiring(t)'
    <3>1. Retiring(t) BY <2>3 DEF RegistryInv, Serial
    <3>2. ASSUME NEW i \in DOMAIN order, i < op[t].next + 1,
                 order[i] \in SigningKeys(op[t].agent)'
          PROVE  order[i] = op[t].keep
      <4>1. CASE i = op[t].next BY <2>3, <3>2, <4>1 DEF Current
      <4>2. CASE i < op[t].next
        <5>1. order[i] \in SigningKeys(op[t].agent) BY <1>1, <1>3, <3>2 DEF SigningKeys, KeysWane
        <5>2. QED BY <3>1, <4>2, <5>1 DEF Retiring
      <4>3. QED BY <1>3, <3>2, <4>1, <4>2
    <3>3. QED BY <1>1, <3>1, <3>2 DEF Retiring, SigningKeys
  <2>4. ASSUME pc[t] = "revoking" PROVE Revoking(t)'
    <3>1. Revoking(t) BY <2>4 DEF RegistryInv, Serial
    <3>2. ASSUME NEW i \in DOMAIN order, i < op[t].next + 1,
                 keys'[order[i]].agent = op[t].agent
          PROVE  keys'[order[i]].state = "REVOKED"
      <4>1. CASE i = op[t].next BY <2>4, <3>2, <4>1 DEF Current
      <4>2. CASE i < op[t].next
        <5>1. order[i] \in Known BY <1>3
        <5>2. QED BY <3>1, <3>2, <4>2, <5>1 DEF Revoking, KeysWane
      <4>3. QED BY <1>3, <3>2, <4>1, <4>2
    <3>3. QED BY <1>1, <3>1, <3>2 DEF Revoking
  <2>5. \A a \in Agents :
           AtMostOne(a)' \/ \E u \in Admins : pc[u] = "retiring" /\ op'[u].agent = a
    BY <1>1, WaneSigning DEF RegistryInv, Serial
  <2>6. QED BY <2>1, <2>2, <2>3, <2>4, <2>5
<1>5. KilledOK'
  <2>1. killed \subseteq Agents BY DEF RegistryInv, StoreOK
  <2>2. \A k \in Known' : /\ k \in Known /\ keys'[k].agent = keys[k].agent
                          /\ keys[k].state = "REVOKED" => keys'[k].state = "REVOKED"
    BY DEF KeysWane
  <2>3. \A u \in Admins : pc'[u] \in {"generating", "importing"} =>
              pc[u] = pc'[u] /\ op'[u].agent = op[u].agent
    BY <1>1
  <2>4. QED BY <2>1, <2>2, <2>3, KilledStays DEF RegistryInv
<1>6. QED BY <1>1, <1>2, <1>4, <1>5 DEF RegistryInv

\* One iteration of _retire_other_active.
LEMMA RetireNextKeeps ==
    ASSUME RegistryInv, NEW t \in Admins, RetireNext(t)
    PROVE  RegistryInv'
<1> DEFINE k == Current(t)
<1>1. /\ pc[t] = "retiring" /\ ~ Grown(t) /\ ~ AtEnd(t) /\ Advance(t)
      /\ UNCHANGED <<clock, agents, order, killed>>
  BY DEF RetireNext
<1>2. op[t] \in Loops /\ op'[t].agent = op[t].agent
  BY <1>1, AdvanceDoes DEF RegistryInv
<1>3. k \in Known
  <2>1. op[t].next \in DOMAIN order BY <1>1, <1>2 DEF AtEnd, Loops, RegistryInv, StoreOK
  <2>2. QED BY <2>1 DEF Current, RegistryInv, StoreOK, RegistryTypeOK
<1>4. CASE keys[k].agent = op[t].agent /\ keys[k].state = "ACTIVE" /\ k # op[t].keep
  <2>1. keys' = [keys EXCEPT ![k].state = "RETIRED"]
    BY <1>4 DEF RetireNext, RetiredState
  <2> HIDE DEF k
  <2>2. SetsState(k, "RETIRED") BY <1>3, <2>1, StateSet DEF RegistryInv, KeyStates
  <2>3. KeysWane BY <1>3, <1>4, <2>2, WaneSet DEF KeyStates
  <2>4. k \notin SigningKeys(op[t].agent)' BY <2>2 DEF SetsState, SigningKeys
  <2>5. QED BY <1>1, <2>3, <2>4, LoopKeeps DEF k
<1>5. CASE ~ (keys[k].agent = op[t].agent /\ keys[k].state = "ACTIVE" /\ k # op[t].keep)
  <2>1. keys' = keys BY <1>5 DEF RetireNext
  <2>2. KeysWane BY <2>1, WaneSame DEF RegistryInv
  <2>3. k \in SigningKeys(op[t].agent)' => k = op[t].keep
    BY <1>2, <1>5, <2>1 DEF SigningKeys
  <2>4. QED BY <1>1, <2>2, <2>3, LoopKeeps
<1>6. QED BY <1>4, <1>5

\* One iteration of revoke_agent.
LEMMA RevokeNextKeeps ==
    ASSUME RegistryInv, NEW t \in Admins, RevokeNext(t)
    PROVE  RegistryInv'
<1> DEFINE k == Current(t)
<1>1. /\ pc[t] = "revoking" /\ ~ Grown(t) /\ ~ AtEnd(t) /\ Advance(t)
      /\ UNCHANGED <<clock, agents, order, killed>>
  BY DEF RevokeNext
<1>2. op[t] \in Loops BY <1>1, AdvanceDoes DEF RegistryInv
<1>3. k \in Known
  <2>1. op[t].next \in DOMAIN order BY <1>1, <1>2 DEF AtEnd, Loops, RegistryInv, StoreOK
  <2>2. QED BY <2>1 DEF Current, RegistryInv, StoreOK, RegistryTypeOK
<1>4. CASE keys[k].agent = op[t].agent
  <2>1. keys' = [keys EXCEPT ![k].state = "REVOKED"] BY <1>4 DEF RevokeNext
  <2> HIDE DEF k
  <2>2. SetsState(k, "REVOKED") BY <1>3, <2>1, StateSet DEF RegistryInv, KeyStates
  <2>3. KeysWane BY <1>3, <2>2, WaneSet DEF KeyStates
  <2>4. keys'[k].state = "REVOKED" BY <2>2 DEF SetsState
  <2>5. QED BY <1>1, <2>3, <2>4, LoopKeeps DEF k
<1>5. CASE keys[k].agent # op[t].agent
  <2>1. keys' = keys BY <1>5 DEF RevokeNext
  <2>2. KeysWane BY <2>1, WaneSame DEF RegistryInv
  <2>3. QED BY <1>1, <1>5, <2>1, <2>2, LoopKeeps
<1>6. QED BY <1>4, <1>5

\* revoke_agent returns: if it has been alone, every key of the agent is
\* revoked, and no other call is in progress that could add one.
LEMMA RevokeAgentEndsKeeps ==
    ASSUME RegistryInv, NEW t \in Admins, RevokeAgentEnds(t)
    PROVE  RegistryInv'
<1> DEFINE a == op[t].agent
<1>1. /\ pc[t] = "revoking" /\ ~ Grown(t) /\ AtEnd(t)
      /\ agents' = IF agents[a] = "unknown" THEN agents ELSE [agents EXCEPT ![a] = "disabled"]
      /\ killed' = IF agents[a] = "unknown" \/ overlapped THEN killed ELSE killed \cup {a}
      /\ Become(t, "idle", NoOp)
      /\ UNCHANGED <<clock, keys, order>>
  BY DEF RevokeAgentEnds, Done
<1>2. "idle" \in AdminLabels /\ NoOp \in Locals("idle") BY DEF AdminLabels, Locals
<1>3. /\ AdminsOK' /\ pc'[t] = "idle" /\ op'[t] = NoOp
      /\ \A u \in Admins \ {t} : pc'[u] = pc[u] /\ op'[u] = op[u]
      /\ overlapped' \in BOOLEAN
  BY <1>1, <1>2, BecomeKeeps DEF RegistryInv
<1>4. op[t] \in Loops /\ a \in Agents BY <1>1 DEF RegistryInv, AdminsOK, Locals, Loops
<1>5. KeysWane BY <1>1, WaneSame DEF RegistryInv
<1>6. /\ agents' \in [Agents -> {"unknown", "enabled", "disabled"}]
      /\ \A b \in Agents : agents[b] = "disabled" => agents'[b] = "disabled"
      /\ agents[a] # "unknown" => agents'[a] = "disabled"
  BY <1>1, <1>4 DEF RegistryInv, StoreOK, RegistryTypeOK
<1>7. StoreOK'
  <2>1. killed' \subseteq Agents BY <1>1, <1>4 DEF RegistryInv, StoreOK
  <2>2. QED BY <1>1, <1>3, <1>5, <1>6, <2>1, StoreKept DEF RegistryInv, StoreOK, KeysWane
<1>8. Serial'
  <2>1. ASSUME ~ overlapped', NEW b \in Agents PROVE AtMostOne(b)'
    <3>1. ~ overlapped /\ \A u \in Admins \ {t} : pc'[u] = "idle"
      BY <1>1, <1>2, <2>1, OthersIdle DEF RegistryInv
    <3>2. AtMostOne(b) BY <1>1, <1>3, <3>1 DEF RegistryInv, Serial
    <3>3. QED BY <3>2, <1>5, WaneSigning
  <2>2. QED BY <1>1, <1>2, <2>1, SerialBecomes DEF RegistryInv
<1>9. KilledOK'
  <2>1. ASSUME NEW b \in killed
        PROVE  /\ agents'[b] = "disabled"
               /\ \A k \in Known' : keys'[k].agent = b => keys'[k].state = "REVOKED"
               /\ \A u \in Admins : pc'[u] \in {"generating", "importing"} => op'[u].agent # b
    <3>1. b \in Agents BY DEF RegistryInv, StoreOK
    <3>2. \A k \in Known : keys[k].agent = b => keys[k].state = "REVOKED"
      BY DEF RegistryInv, KilledOK
    <3>3. \A u \in Admins : pc[u] \in {"generating", "importing"} => op[u].agent # b
      BY DEF RegistryInv, KilledOK
    <3>4. agents'[b] = "disabled" BY <1>6, <3>1 DEF RegistryInv, KilledOK
    <3>5. QED BY <1>1, <1>3, <3>2, <3>3, <3>4 DEF Known
  <2>2. ASSUME ~ overlapped, agents[a] # "unknown"
        PROVE  /\ \A k \in Known : keys[k].agent = a => keys[k].state = "REVOKED"
               /\ \A u \in Admins : pc'[u] = "idle"
    <3>1. Revoking(t) BY <1>1, <2>2 DEF RegistryInv, Serial
    <3>2. ASSUME NEW k \in Known, keys[k].agent = a PROVE keys[k].state = "REVOKED"
      <4>1. PICK i \in DOMAIN order : k = order[i] BY DEF RegistryInv, StoreOK, RegistryTypeOK
      <4>2. i < op[t].next BY <1>1, <1>4 DEF AtEnd, Loops, RegistryInv, StoreOK
      <4>3. QED BY <3>1, <3>2, <4>1, <4>2 DEF Revoking
    <3>3. \A u \in Admins \ {t} : pc[u] = "idle"
      BY <1>1, <2>2 DEF RegistryInv, Serial, InProgress
    <3>4. QED BY <1>3, <3>2, <3>3
  <2>3. CASE agents[a] = "unknown" \/ overlapped
    BY <1>1, <2>1, <2>3 DEF KilledOK
  <2>4. CASE ~ (agents[a] = "unknown" \/ overlapped)
    <3>1. /\ \A k \in Known : keys[k].agent = a => keys[k].state = "REVOKED"
          /\ \A u \in Admins : pc'[u] = "idle"
          /\ agents'[a] = "disabled" /\ Known' = Known /\ killed' = killed \cup {a}
      BY <1>1, <1>6, <2>2, <2>4 DEF Known
    <3> HIDE DEF a
    <3>2. QED BY <1>1, <2>1, <3>1 DEF KilledOK
  <2>5. QED BY <2>3, <2>4
<1>10. QED BY <1>3, <1>7, <1>8, <1>9 DEF RegistryInv

\* Every step preserves the invariant.
LEMMA RegistryNextKeepsInv == RegistryInv /\ [RegistryNext]_registryVars => RegistryInv'
<1> SUFFICES ASSUME RegistryInv, [RegistryNext]_registryVars PROVE RegistryInv'
  OBVIOUS
<1>0. /\ clock \in Nat /\ agents \in [Agents -> {"unknown", "enabled", "disabled"}]
      /\ Len(order) \in Nat
  BY DEF RegistryInv, StoreOK, RegistryTypeOK
<1>1. ASSUME UNCHANGED <<keys, order, adminVars, killed>>, clock' \in Nat,
             agents' \in [Agents -> {"unknown", "enabled", "disabled"}],
             \A a \in Agents : agents[a] = "disabled" => agents'[a] = "disabled"
      PROVE  RegistryInv'
  BY <1>1, WaneSame, AtomicKeeps DEF RegistryInv
<1>2. CASE UNCHANGED registryVars BY <1>0, <1>1, <1>2 DEF registryVars
<1>3. CASE Tick
  <2>1. clock' \in Nat BY <1>0, <1>3 DEF Tick
  <2>2. QED BY <1>0, <1>1, <1>3, <2>1 DEF Tick
<1>4. ASSUME NEW t \in Admins, AdminCall(t) PROVE RegistryInv'
  <2>1. ASSUME NEW a \in Agents, RegisterAgent(t, a) \/ DisableAgent(t, a) PROVE RegistryInv'
    BY <1>0, <1>1, <2>1 DEF RegisterAgent, DisableAgent
  <2>2. ASSUME NEW a \in Agents, NEW w \in Windows, NEW s \in KeyStates,
               GenerateKey(t, a, s, w)
        PROVE  RegistryInv'
    <3> DEFINE x == [agent |-> a, state |-> s, window |-> w]
    <3>1. x \in Locals("generating") /\ x.agent = a BY <2>2 DEF Locals, GenerateKey
    <3>2. /\ pc[t] = "idle" /\ RequireAgent(a) /\ Become(t, "generating", x)
          /\ UNCHANGED <<clock, agents, keys, order, killed>>
      BY <2>2 DEF GenerateKey
    <3> HIDE DEF x
    <3>3. QED BY <3>1, <3>2, CallKeeps DEF AdminLabels
  <2>3. ASSUME NEW a \in Agents, NEW w \in Windows, NEW s \in KeyStates, NEW k \in KeyIds,
               ImportKey(t, a, k, s, w)
        PROVE  RegistryInv'
    <3> DEFINE x == [agent |-> a, state |-> s, window |-> w, key |-> k]
    <3>1. x \in Locals("importing") /\ x.agent = a BY DEF Locals
    <3>2. /\ pc[t] = "idle" /\ RequireAgent(a) /\ Become(t, "importing", x)
          /\ UNCHANGED <<clock, agents, keys, order, killed>>
      BY <2>3 DEF ImportKey
    <3> HIDE DEF x
    <3>3. QED BY <3>1, <3>2, CallKeeps DEF AdminLabels
  <2>4. ASSUME NEW a \in Agents, RevokeAgent(t, a) PROVE RegistryInv'
    <3> DEFINE x == LoopOver(a, NoKey, Len(order))
    <3>1. x \in Locals("revoking") /\ x.next = 1 /\ x.size = Len(order)
      BY <1>0 DEF Locals, Loops, LoopOver
    <3>2. /\ pc[t] = "idle" /\ Become(t, "revoking", x)
          /\ UNCHANGED <<clock, agents, keys, order, killed>>
      BY <2>4 DEF RevokeAgent
    <3> HIDE DEF x
    <3>3. QED BY <3>1, <3>2, CallKeeps DEF AdminLabels
  <2>5. ASSUME NEW k \in KeyIds, Revoke(t, k) PROVE RegistryInv'
    <3>1. k \in Known /\ SetsState(k, "REVOKED")
      BY <2>5, StateSet DEF Revoke, RegistryInv, KeyStates
    <3>2. KeysWane BY <3>1, WaneSet DEF KeyStates
    <3>3. QED BY <1>0, <2>5, <3>2, AtomicKeeps DEF Revoke
  <2>6. ASSUME NEW k \in KeyIds, Activate(t, k) PROVE RegistryInv'
    BY <2>6, ActivateKeeps
  <2>7. QED BY <1>4, <2>1, <2>2, <2>3, <2>4, <2>5, <2>6 DEF AdminCall, CreateKey
<1>5. ASSUME NEW t \in Admins, AdminStep(t) PROVE RegistryInv'
  <2>1. "idle" \in AdminLabels /\ NoOp \in Locals("idle") BY DEF AdminLabels, Locals
  <2>2. CASE ProviderFails(t) \/ LoopRaises(t) \/ RetireEnds(t)
    <3>1. /\ pc[t] # "idle" /\ (pc[t] = "retiring" => Grown(t) \/ AtEnd(t))
          /\ Become(t, "idle", NoOp) /\ UNCHANGED <<clock, agents, keys, order, killed>>
      BY <2>2 DEF ProviderFails, LoopRaises, RetireEnds, Done
    <3>2. QED BY <2>1, <3>1, CallKeeps
  <2>3. QED BY <1>5, <2>2, GeneratedKeeps, ImportedKeeps, RetireNextKeeps, RevokeNextKeeps,
               RevokeAgentEndsKeeps DEF AdminStep
<1>6. QED BY <1>2, <1>3, <1>4, <1>5 DEF RegistryNext

\* The invariant holds initially.
LEMMA RegistryInitInv == RegistryInit => RegistryInv
<1> SUFFICES ASSUME RegistryInit PROVE RegistryInv OBVIOUS
<1>1. AdminsOK BY DEF RegistryInit, AdminsOK, AdminLabels, Locals
<1>2. Known = {} BY DEF RegistryInit, Known
<1>3. order = <<>> /\ Len(order) = 0 BY DEF RegistryInit
<1>4. StoreOK
  <2>1. DOMAIN order = {} BY <1>3
  <2>2. {order[i] : i \in DOMAIN order} = Known BY <1>2, <2>1
  <2>3. RegistryTypeOK BY <2>1, <2>2 DEF RegistryInit, RegistryTypeOK
  <2>4. clock \in Nat /\ order \in Seq(KeyIds) BY <1>3 DEF RegistryInit
  <2>5. killed \subseteq Agents /\ overlapped \in BOOLEAN BY Zenon DEF RegistryInit
  <2>6. QED BY <2>3, <2>4, <2>5 DEF StoreOK
<1>5. Serial BY <1>2 DEF RegistryInit, Serial, InProgress, AtMostOne, SigningKeys
<1>6. KilledOK BY DEF RegistryInit, KilledOK
<1>7. QED BY <1>1, <1>4, <1>5, <1>6 DEF RegistryInv

-----------------------------------------------------------------------------
(***************************************************************************)
(* The theorems.                                                           *)
(***************************************************************************)

\* The inductive invariant holds of every behaviour; it includes the type of
\* the registry (RegistryTypeOK).
THEOREM RegistryInvariant == RegistrySpec => []RegistryInv
<1>1. QED BY RegistryInitInv, RegistryNextKeepsInv, PTL DEF RegistrySpec

\* The records are well-formed, and the insertion order lists each known key
\* once.
THEOREM RegistryTypeCorrect == RegistrySpec => []RegistryTypeOK
<1>1. RegistryInv => RegistryTypeOK BY DEF RegistryInv, StoreOK
<1>2. QED BY <1>1, RegistryInvariant, PTL

\* Between calls that have not overlapped, active_signing_key has no choice.
THEOREM OneSigningKeyHolds == RegistrySpec => []OneSigningKey
<1>1. RegistryInv => OneSigningKey
  <2> SUFFICES ASSUME RegistryInv, InProgress = {}, ~ overlapped, NEW a \in Agents
               PROVE  AtMostOne(a)
    BY DEF OneSigningKey, AtMostOne
  <2>1. \A t \in Admins : pc[t] = "idle" BY DEF InProgress
  <2>2. QED BY <2>1 DEF RegistryInv, Serial
<1>2. QED BY <1>1, RegistryInvariant, PTL

\* A completed revoke_agent is final, whatever calls race after it.
THEOREM KillSwitchFinalHolds == RegistrySpec => []KillSwitchFinal
<1>1. RegistryInv => KillSwitchFinal
  BY DEF RegistryInv, KilledOK, KillSwitchFinal, Verifies
<1>2. QED BY <1>1, RegistryInvariant, PTL

\* A record keeps its window, and leaves ACTIVE or RETIRED only for the other
\* or for REVOKED.
KeySurvives(k) ==
    /\ keys'[k] # NoKey
    /\ keys'[k].not_before = keys[k].not_before
    /\ keys'[k].not_after = keys[k].not_after
    /\ keys'[k].state \in {keys[k].state, "ACTIVE", "RETIRED", "REVOKED"}

\* Every step is such for every key that is not being imported.
LEMMA NextSurvives ==
    ASSUME RegistryInv, [RegistryNext]_registryVars, NEW k \in Known,
           \A t \in Admins : ~ (pc[t] = "importing" /\ op[t].key = k)
    PROVE  KeySurvives(k)
<1>0. k \in KeyIds /\ keys[k] # NoKey BY DEF Known
<1>1. CASE UNCHANGED keys BY <1>0, <1>1 DEF KeySurvives
<1>2. ASSUME NEW j \in Known, NEW s \in {"ACTIVE", "RETIRED", "REVOKED"},
             keys' = [keys EXCEPT ![j].state = s]
      PROVE  KeySurvives(k)
  <2>1. SetsState(j, s) BY <1>2, StateSet DEF RegistryInv, KeyStates
  <2>2. QED BY <1>0, <2>1 DEF SetsState, KeySurvives, Known
<1>3. ASSUME NEW t \in Admins, NEW j \in KeyIds, Insert(t, j) PROVE KeySurvives(k)
  BY <1>0, <1>3 DEF Insert, RegistryInv, StoreOK, RegistryTypeOK, KeySurvives
<1>4. ASSUME NEW t \in Admins, InsertImported(t) PROVE KeySurvives(k)
  <2>1. op[t].key # k BY <1>4 DEF InsertImported
  <2>2. QED BY <1>0, <1>4, <2>1
          DEF InsertImported, RegistryInv, StoreOK, RegistryTypeOK, KeySurvives
<1>5. ASSUME NEW t \in Admins, RetireNext(t) \/ RevokeNext(t)
      PROVE  UNCHANGED keys \/ \E s \in {"RETIRED", "REVOKED"} :
                                  keys' = [keys EXCEPT ![Current(t)].state = s]
  BY <1>5 DEF RetireNext, RevokeNext, RetiredState
<1>6. ASSUME NEW t \in Admins, RetireNext(t) \/ RevokeNext(t) PROVE KeySurvives(k)
  <2>1. Current(t) \in Known
    <3>1. op[t] \in Loops BY <1>6 DEF RegistryInv, AdminsOK, Locals, RetireNext, RevokeNext
    <3>2. op[t].next \in DOMAIN order
      BY <1>6, <3>1 DEF AtEnd, Loops, RegistryInv, StoreOK, RetireNext, RevokeNext
    <3>3. QED BY <3>2 DEF Current, RegistryInv, StoreOK, RegistryTypeOK
  <2>2. QED BY <1>1, <1>2, <1>5, <1>6, <2>1
<1>7. ASSUME NEW t \in Admins, AdminCall(t) PROVE KeySurvives(k)
  <2>1. ASSUME NEW j \in KeyIds, Activate(t, j) \/ Revoke(t, j) PROVE KeySurvives(k)
    BY <1>2, <2>1 DEF Activate, Revoke
  <2>2. CASE CreateKey(t)
    BY <1>1, <2>2 DEF CreateKey, GenerateKey, ImportKey
  <2>3. ASSUME NEW a \in Agents, RegisterAgent(t, a) \/ DisableAgent(t, a) \/ RevokeAgent(t, a)
        PROVE  KeySurvives(k)
    BY <1>1, <2>3 DEF RegisterAgent, DisableAgent, RevokeAgent
  <2>4. QED BY <1>7, <2>1, <2>2, <2>3 DEF AdminCall
<1>8. ASSUME NEW t \in Admins, AdminStep(t) PROVE KeySurvives(k)
  <2>1. CASE ProviderFails(t) \/ LoopRaises(t) \/ RetireEnds(t) \/ RevokeAgentEnds(t)
    BY <1>1, <2>1 DEF ProviderFails, LoopRaises, RetireEnds, RevokeAgentEnds
  <2>2. QED BY <1>3, <1>4, <1>6, <1>8, <2>1 DEF AdminStep
<1>9. CASE Tick BY <1>1, <1>9 DEF Tick
<1>10. CASE UNCHANGED registryVars BY <1>1, <1>10 DEF registryVars
<1>11. QED BY <1>7, <1>8, <1>9, <1>10 DEF RegistryNext

\* Rotation and activation leave no gap in the ability to verify.
THEOREM NoVerificationGapHolds == RegistrySpec => NoVerificationGap
<1>1. RegistryInv /\ [RegistryNext]_registryVars =>
        [\A k \in Known :
            /\ Verifies(k, clock)
            /\ clock' = clock
            /\ keys'[k].state # "REVOKED"
            /\ \A t \in Admins : ~ (pc[t] = "importing" /\ op[t].key = k)
            => Verifies(k, clock)']_registryVars
  <2> SUFFICES ASSUME RegistryInv, [RegistryNext]_registryVars, NEW k \in Known,
                      Verifies(k, clock), clock' = clock, keys'[k].state # "REVOKED",
                      \A t \in Admins : ~ (pc[t] = "importing" /\ op[t].key = k)
               PROVE  Verifies(k, clock)'
    OBVIOUS
  <2>1. KeySurvives(k) BY NextSurvives
  <2>2. QED BY <2>1 DEF KeySurvives, Verifies, within_window, Known
<1>2. QED BY <1>1, RegistryInvariant, PTL DEF RegistrySpec, NoVerificationGap

=============================================================================

--------------------------- MODULE ReleaseProofs ----------------------------
(***************************************************************************)
(* Proofs about the confidential release service, for any number of        *)
(* callers, datasets, programs, queries and requests.                      *)
(*                                                                         *)
(* The service holds no lock from the gate to the publication, so nothing  *)
(* in _release_now itself keeps two approvers of one parked request from   *)
(* both releasing it.  What does is that the approval of a request only    *)
(* moves NONE -> PENDING -> GRANTED: a call carries a request past the     *)
(* gate either as the call that made it, while there is no approval, or as *)
(* the one approver whose grant succeeded.  CarryInv says so; LineageInv   *)
(* says which nodes, arcs and hashes the graph holds for what is stored.   *)
(* BudgetInv and LeakInv, at the end, are about the governor's history,    *)
(* which a call reads in one locked region and extends in another.         *)
(***************************************************************************)
EXTENDS ConfidentialRelease, FiniteSetTheorems, TLAPS

Stamp(q, t) ==
    [scope |-> q.scope, subset_ids |-> q.subset_ids,
     aggregation_group_size |-> q.aggregation_group_size,
     release_kind |-> q.release_kind, timestamp |-> t]

Stamped == {Stamp(q, t) : q \in Queries, t \in Timestamps}

Ids == Nat \cup Strays
FileNames == {"CIPHERTEXT", "RESULT"} \X Nat
FileHashes == {"FHE_RESULT"} \X FileNames

Computations == [parent : Ids, program : Programs]
ResultEnvelopes ==
    [ciphertext_id : Ids, classification : Classifications,
     result_ciphertext_hash : FileHashes]
DecryptRequests ==
    [path : FileNames, envelope : ResultEnvelopes, granted : Grants,
     containment_state : States, query : Stamped, approval_granted : BOOLEAN,
     known : Nat]
ApprovalStates == {"NONE", "PENDING", "GRANTED"}
Approvals == [state : ApprovalStates, expires : Nat, action_hash : FileHashes \cup {NoHash}]
Published == [request : Nat, release : Nat]
Calls ==
    [request : Nat, approving : BOOLEAN, now : 0..MaxTime, decision : Decisions,
     release : Nat]

Labels ==
    {"idle", "govern", "gate", "park", "grant", "decrypt", "account", "record",
     "release", "publish", "unpark"}

DataOK ==
    /\ ciphertexts \in Seq(Datasets)
    /\ computed \in Seq(Computations)
    /\ \A r \in DOMAIN computed : computed[r].parent \in CiphertextIds

\* A request names files that exist, and a result id that exists or a stray one.
Presented(request) ==
    /\ request.path \in Files
    /\ request.envelope.ciphertext_id \in ResultIds
    /\ \E f \in Files : request.envelope.result_ciphertext_hash = Hash("FHE_RESULT", f)

RequestsOK ==
    /\ clock \in 0..MaxTime
    /\ containment \in States
    /\ requests \in Seq(DecryptRequests)
    /\ approvals \in Seq(Approvals)
    /\ Len(approvals) = Len(requests)
    /\ pending \subseteq RequestIds
    /\ \A id \in DOMAIN requests : Presented(requests[id])

ReleasesOK ==
    /\ releases \in Seq(Nat)
    /\ \A k \in DOMAIN releases : releases[k] \in RequestIds
    /\ results \in Seq(Published)
    /\ \A i \in DOMAIN results :
          /\ results[i].request \in RequestIds
          /\ results[i].release \in DOMAIN releases
          /\ releases[results[i].release] = results[i].request

\* A call past its entry serves a request that exists; only approve_decrypt
\* grants, and a call about to publish has drawn a release id for its request.
CallOK(label, k) ==
    label # "idle" =>
        /\ k \in Calls
        /\ k.request \in RequestIds
        /\ label = "grant" => k.approving
        /\ label = "publish" =>
              k.release \in DOMAIN releases /\ releases[k.release] = k.request

CallersOK ==
    /\ pc \in [Callers -> Labels]
    /\ DOMAIN call = Callers
    /\ \A c \in Callers : CallOK(pc[c], call[c])

TypeInv == DataOK /\ RequestsOK /\ ReleasesOK /\ CallersOK

Accounted == [timestamp : Nat, subset_ids : {q.subset_ids : q \in Queries}]

HistoryOK == history \in [Scopes -> Seq(Accounted)]

-----------------------------------------------------------------------------
(***************************************************************************)
(* A request is carried past its grant by one call at a time, which agrees *)
(* with the approval store about why, and is published once.               *)
(***************************************************************************)

LiveLabels == {"govern", "gate", "decrypt", "account", "record", "release", "publish"}
PassedLabels == {"decrypt", "account", "record", "release", "publish"}

OneCarrier ==
    \A c, d \in Callers :
        pc[c] \in LiveLabels /\ pc[d] \in LiveLabels /\ call[c].request = call[d].request
            => c = d

Agreement ==
    \A c \in Callers :
        pc[c] \in LiveLabels =>
            approvals[call[c].request].state =
                IF call[c].approving THEN "GRANTED" ELSE "NONE"

Unpublished ==
    \A c \in Callers :
        pc[c] \in LiveLabels =>
            \A i \in DOMAIN results : results[i].request # call[c].request

Settled == \A i \in DOMAIN results : approvals[results[i].request].state # "PENDING"

\* The approval names the hash that the envelope of its request names.
ApprovalsBound ==
    \A id \in RequestIds :
        approvals[id].state # "NONE" =>
            approvals[id].action_hash = requests[id].envelope.result_ciphertext_hash

\* The file a request names is the one its envelope was made for.
Sound(request) ==
    request.envelope.result_ciphertext_hash = Hash("FHE_RESULT", request.path)

Vouched(request, approving) ==
    /\ Sound(request)
    /\ ApprovalRequired(request.envelope.classification) =>
          request.approval_granted \/ approving

PassedVouched ==
    \A c \in Callers : pc[c] \in PassedLabels => Vouched(Request(c), call[c].approving)

ReleasesSound == \A k \in DOMAIN releases : Sound(requests[releases[k]])

CarryInv ==
    /\ OneCarrier
    /\ Agreement
    /\ Unpublished
    /\ Settled
    /\ ApprovalsBound
    /\ PassedVouched
    /\ ReleasesSound
    /\ ReleasedOnce
    /\ HumanApproved

-----------------------------------------------------------------------------
(***************************************************************************)
(* The lineage graph holds the chain of everything that is stored.         *)
(***************************************************************************)

HashPinned(n) == n \in DOMAIN nodes /\ HasHash(nodes[n])

Arc(a, b) == a \in DOMAIN nodes /\ b \in DOMAIN nodes /\ <<a, b>> \in edges

CiphertextsLinked ==
    \A ct \in DOMAIN ciphertexts :
        Arc(<<"DATASET", ciphertexts[ct]>>, <<"CIPHERTEXT", ct>>)

ComputedLinked ==
    \A r \in DOMAIN computed :
        /\ Arc(<<"CIPHERTEXT", computed[r].parent>>, <<"PROGRAM", computed[r].program>>)
        /\ Arc(<<"PROGRAM", computed[r].program>>, <<"RESULT", r>>)
        /\ HashPinned(<<"RESULT", r>>)

RequestsLinked ==
    \A id \in DOMAIN requests :
        Arc(<<"RESULT", requests[id].envelope.ciphertext_id>>, <<"DECRYPT_REQUEST", id>>)

ReleasesLinked ==
    \A k \in DOMAIN releases :
        /\ Arc(<<"DECRYPT_REQUEST", releases[k]>>, <<"RELEASED_RESULT", k>>)
        /\ nodes[<<"RELEASED_RESULT", k>>].ref_hash =
              requests[releases[k]].envelope.result_ciphertext_hash

\* A result's node carries the hash of that result's file or none, and only
\* release ids that were drawn have nodes.
NodeFits(n, node) ==
    /\ n[1] = "RESULT" => node.ref_hash = NoHash \/ node.ref_hash = Hash("FHE_RESULT", n)
    /\ n[1] = "RELEASED_RESULT" => n[2] \in DOMAIN releases

NodesFit == \A n \in DOMAIN nodes : NodeFits(n, nodes[n])

\* What lies above a node of each kind: the graph has no other edges.
EdgeFits(a, b) ==
    /\ b[1] # "DATASET"
    /\ b[1] = "CIPHERTEXT" =>
          b[2] \in DOMAIN ciphertexts /\ a = <<"DATASET", ciphertexts[b[2]]>>
    /\ b[1] = "PROGRAM" =>
          \E r \in DOMAIN computed :
              computed[r].program = b[2] /\ a = <<"CIPHERTEXT", computed[r].parent>>
    /\ b[1] = "RESULT" =>
          b[2] \in DOMAIN computed /\ a = <<"PROGRAM", computed[b[2]].program>>
    /\ b[1] = "DECRYPT_REQUEST" =>
          /\ b[2] \in DOMAIN requests
          /\ a = <<"RESULT", requests[b[2]].envelope.ciphertext_id>>
    /\ b[1] = "RELEASED_RESULT" =>
          b[2] \in DOMAIN releases /\ a = <<"DECRYPT_REQUEST", releases[b[2]]>>

EdgesFit == \A e \in edges : EdgeFits(e[1], e[2])

LineageInv ==
    /\ CiphertextsLinked
    /\ ComputedLinked
    /\ RequestsLinked
    /\ ReleasesLinked
    /\ NodesFit
    /\ EdgesFit

\* The inductive invariant, but for the type of the governor's history.
ReleaseInv == TypeInv /\ CarryInv /\ LineageInv

-----------------------------------------------------------------------------
(***************************************************************************)
(* Facts the steps share.                                                  *)
(***************************************************************************)

\* Appending to a sequence keeps the entries that were there.
LEMMA Appended ==
    ASSUME NEW S, NEW s \in Seq(S), NEW e \in S, NEW t, t = Append(s, e)
    PROVE  /\ t \in Seq(S) /\ Len(s) \in Nat /\ Len(t) = Len(s) + 1
           /\ DOMAIN s = 1..Len(s) /\ DOMAIN t = 1..(Len(s) + 1)
           /\ DOMAIN s \subseteq DOMAIN t /\ DOMAIN t = DOMAIN s \cup {Len(s) + 1}
           /\ Len(s) + 1 \notin DOMAIN s
           /\ t[Len(s) + 1] = e
           /\ \A i \in DOMAIN s : t[i] = s[i]
<1>1. /\ t \in Seq(S) /\ Len(s) \in Nat /\ Len(t) = Len(s) + 1
      /\ DOMAIN s = 1..Len(s) /\ t[Len(s) + 1] = e
      /\ \A i \in 1..Len(s) : t[i] = s[i]
  OBVIOUS
<1>2. DOMAIN t = 1..Len(t) BY <1>1
<1>3. QED BY <1>1, <1>2

\* The stores' domains.
LEMMA Domains ==
    ASSUME TypeInv
    PROVE  /\ Len(ciphertexts) \in Nat /\ DOMAIN ciphertexts = 1..Len(ciphertexts)
           /\ Len(computed) \in Nat /\ DOMAIN computed = 1..Len(computed)
           /\ Len(requests) \in Nat /\ DOMAIN requests = 1..Len(requests)
           /\ DOMAIN approvals = 1..Len(requests)
           /\ Len(releases) \in Nat /\ DOMAIN releases = 1..Len(releases)
           /\ Len(results) \in Nat /\ DOMAIN results = 1..Len(results)
BY DEF TypeInv, DataOK, RequestsOK, ReleasesOK

\* A call that runs is a record.
LEMMA CallTyped ==
    ASSUME TypeInv, NEW c \in Callers, pc[c] # "idle"
    PROVE  /\ call[c] \in Calls /\ call[c].request \in RequestIds
           /\ call[c].request \in Nat /\ call[c].approving \in BOOLEAN
           /\ requests[call[c].request] \in DecryptRequests
           /\ approvals[call[c].request] \in Approvals
           /\ pc \in [Callers -> Labels] /\ DOMAIN call = Callers
<1>1. call[c] \in Calls /\ call[c].request \in RequestIds
  BY DEF TypeInv, CallersOK, CallOK
<1>2. call[c].request \in Nat /\ call[c].approving \in BOOLEAN
  BY <1>1 DEF Calls
<1>3. QED BY <1>1, <1>2, Domains DEF TypeInv, RequestsOK, CallersOK, RequestIds

\* Request ids and release ids are never taken back.
Grows ==
    /\ RequestIds \subseteq RequestIds'
    /\ \A x \in DOMAIN releases : x \in DOMAIN releases' /\ releases'[x] = releases[x]

\* A step of caller c leaves the other calls well formed.
LEMMA CallersKept ==
    ASSUME CallersOK, Grows, NEW c \in Callers, NEW l \in Labels,
           pc' = [pc EXCEPT ![c] = l], DOMAIN call' = Callers,
           \A d \in Callers \ {c} : call'[d] = call[d],
           CallOK(pc[c], call[c])'
    PROVE  CallersOK'
<1>1. pc' \in [Callers -> Labels] /\ \A d \in Callers \ {c} : pc'[d] = pc[d]
  BY DEF CallersOK
<1>2. ASSUME NEW d \in Callers \ {c} PROVE CallOK(pc[d], call[d])'
  <2>1. CallOK(pc[d], call[d]) BY DEF CallersOK
  <2>2. pc'[d] = pc[d] /\ call'[d] = call[d] BY <1>1
  <2>3. QED BY <2>1, <2>2 DEF CallOK, Grows
<1>3. QED BY <1>1, <1>2 DEF CallersOK

\* The same when no store grows and the call goes on or returns.
LEMMA CallersWalk ==
    ASSUME TypeInv, UNCHANGED <<requests, releases>>, NEW c \in Callers,
           pc[c] # "idle", NEW l \in Labels \ {"publish", "grant"},
           pc' = [pc EXCEPT ![c] = l],
           \/ call' = call
           \/ l = "idle" /\ call' = [call EXCEPT ![c] = NoCall]
    PROVE  CallersOK'
<1>1. CallersOK /\ Grows BY DEF TypeInv, Grows, RequestIds
<1>2. pc'[c] = l BY <1>1 DEF CallersOK
<1>3. DOMAIN call' = Callers /\ \A d \in Callers \ {c} : call'[d] = call[d]
  BY <1>1 DEF CallersOK
<1>4. CallOK(pc[c], call[c])'
  <2>1. CASE l = "idle" BY <1>2, <2>1 DEF CallOK
  <2>2. CASE l # "idle"
    <3>1. call'[c] = call[c] /\ RequestIds' = RequestIds BY <2>2 DEF RequestIds
    <3>2. QED BY <1>1, <1>2, <3>1 DEF CallersOK, CallOK
  <2>3. QED BY <2>1, <2>2
<1>5. QED BY <1>1, <1>3, <1>4, CallersKept

\* What is left of CarryInv when caller c moves on and nothing is published:
\* a caller that is live afterwards was live before with the same request.
LEMMA CarryWalk ==
    ASSUME TypeInv, CarryInv, NEW c \in Callers, NEW l \in Labels,
           pc' = [pc EXCEPT ![c] = l],
           \A d \in Callers \ {c} : call'[d] = call[d],
           UNCHANGED <<requests, approvals, results>>,
           \A x \in DOMAIN releases' : Sound(requests[releases'[x]]),
           l \in LiveLabels =>
               /\ pc[c] \in LiveLabels
               /\ call'[c].request = call[c].request
               /\ call'[c].approving = call[c].approving,
           l \in PassedLabels =>
               pc[c] \in PassedLabels \/ Vouched(Request(c), call[c].approving)
    PROVE  CarryInv'
<1>1. pc \in [Callers -> Labels] BY DEF TypeInv, CallersOK
<1>2. ASSUME NEW d \in Callers, pc'[d] \in LiveLabels
      PROVE  /\ pc[d] \in LiveLabels /\ call'[d].request = call[d].request
             /\ call'[d].approving = call[d].approving
  <2>1. CASE d = c BY <1>1, <1>2, <2>1
  <2>2. CASE d # c BY <1>1, <1>2, <2>2
  <2>3. QED BY <2>1, <2>2
<1>3. OneCarrier' BY <1>2 DEF CarryInv, OneCarrier
<1>4. Agreement' BY <1>2 DEF CarryInv, Agreement
<1>5. Unpublished' BY <1>2 DEF CarryInv, Unpublished
<1>6. PassedVouched'
  <2> SUFFICES ASSUME NEW d \in Callers, pc'[d] \in PassedLabels
               PROVE  Vouched(Request(d), call[d].approving)'
    BY DEF PassedVouched
  <2>1. pc'[d] \in LiveLabels BY DEF LiveLabels, PassedLabels
  <2>2. Request(d)' = Request(d) /\ call'[d].approving = call[d].approving
    BY <1>2, <2>1 DEF Request
  <2>3. Vouched(Request(d), call[d].approving)
    <3>1. CASE d = c BY <1>1, <3>1 DEF CarryInv, PassedVouched
    <3>2. CASE d # c BY <1>1, <3>2 DEF CarryInv, PassedVouched
    <3>3. QED BY <3>1, <3>2
  <2>4. QED BY <2>2, <2>3 DEF Vouched
<1>7. Settled' /\ ReleasedOnce' /\ HumanApproved'
  BY DEF CarryInv, Settled, ReleasedOnce, HumanApproved
<1>8. ApprovalsBound' BY DEF CarryInv, ApprovalsBound, RequestIds
<1>9. ReleasesSound' BY DEF ReleasesSound, Sound
<1>10. QED BY <1>3, <1>4, <1>5, <1>6, <1>7, <1>8, <1>9 DEF CarryInv

\* Lineage and the stores it describes as they were.
LEMMA LineageSame ==
    ASSUME LineageInv, UNCHANGED <<lineageVars, dataVars, requests, releases>>
    PROVE  LineageInv'
<1> USE DEF LineageInv, lineageVars, dataVars
<1>1. CiphertextsLinked' /\ ComputedLinked' /\ RequestsLinked' /\ ReleasesLinked'
  BY DEF CiphertextsLinked, ComputedLinked, RequestsLinked, ReleasesLinked, Arc,
         HashPinned, HasHash
<1>2. NodesFit' /\ EdgesFit' BY DEF NodesFit, NodeFits, EdgesFit, EdgeFits
<1>3. QED BY <1>1, <1>2

-----------------------------------------------------------------------------
(***************************************************************************)
(* Steps that only move a caller.                                          *)
(***************************************************************************)

Walks(c, l) ==
    /\ pc[c] # "idle"
    /\ pc' = [pc EXCEPT ![c] = l]
    /\ \/ call' = call
       \/ l = "idle" /\ call' = [call EXCEPT ![c] = NoCall]
    /\ l \in LiveLabels => pc[c] \in LiveLabels
    /\ l \in PassedLabels =>
          pc[c] \in PassedLabels \/ Vouched(Request(c), call[c].approving)
    /\ pending' \subseteq pending \cup {call[c].request}
    /\ UNCHANGED <<clock, containment, dataVars, requests, approvals, releaseVars,
                   lineageVars>>

\* Such a step preserves the invariant.
LEMMA WalkKeeps ==
    ASSUME ReleaseInv, NEW c \in Callers, NEW l \in Labels \ {"publish", "grant"}, Walks(c, l)
    PROVE  ReleaseInv'
<1>1. TypeInv /\ CarryInv /\ LineageInv BY DEF ReleaseInv
<1>2. call[c].request \in RequestIds BY <1>1, CallTyped DEF Walks
<1>3. CallersOK' BY <1>1, CallersWalk DEF Walks, releaseVars
<1>4. DataOK' /\ ReleasesOK'
  BY <1>1 DEF TypeInv, DataOK, CiphertextIds, ReleasesOK, Walks, dataVars, releaseVars, RequestIds
<1>5. RequestsOK'
  BY <1>1, <1>2 DEF TypeInv, RequestsOK, Presented, Files, ResultIds, Walks, dataVars,
                    RequestIds
<1>6. \A d \in Callers \ {c} : call'[d] = call[d]
  BY <1>1 DEF TypeInv, CallersOK, Walks
<1>7. l \in LiveLabels => call' = call BY DEF Walks, LiveLabels
<1>8. CarryInv'
  <2>1. \A x \in DOMAIN releases' : Sound(requests[releases'[x]])
    BY <1>1 DEF CarryInv, ReleasesSound, Walks, releaseVars
  <2>2. QED BY <1>1, <1>6, <1>7, <2>1, CarryWalk DEF Walks, releaseVars
<1>9. LineageInv' BY <1>1, LineageSame DEF Walks, releaseVars
<1>10. QED BY <1>3, <1>4, <1>5, <1>8, <1>9 DEF ReleaseInv, TypeInv

\* Govern, the gate's pass and refusal, Park, Decrypt and its failure,
\* RecordQuery and Unpark are such steps.
LEMMA WalkingSteps ==
    ASSUME ReleaseInv, NEW c \in Callers,
           \/ Govern(c) \/ GatePasses(c) \/ GateRefuses(c) \/ Park(c) \/ Decrypt(c)
           \/ DecryptFails(c) \/ RecordQuery(c) \/ Unpark(c)
    PROVE  ReleaseInv'
<1> USE DEF LiveLabels, PassedLabels, Goto, Return, approvalVars, releaseVars
<1>1. CASE Govern(c)
  <2>1. CASE allowed(Evaluate(Request(c).query))
    <3>1. Walks(c, "gate") BY <1>1, <2>1 DEF Govern, Walks
    <3>2. QED BY <3>1, WalkKeeps DEF Labels
  <2>2. CASE ~ allowed(Evaluate(Request(c).query))
    <3>1. Walks(c, "idle") BY <1>1, <2>2 DEF Govern, Walks
    <3>2. QED BY <3>1, WalkKeeps DEF Labels
  <2>3. QED BY <2>1, <2>2
<1>2. CASE GatePasses(c)
  <2>1. Vouched(Request(c), call[c].approving)
    BY <1>2 DEF GatePasses, HumanMissing, Intact, Vouched, Sound
  <2>2. Walks(c, "decrypt") BY <1>2, <2>1 DEF GatePasses, Walks
  <2>3. QED BY <2>2, WalkKeeps DEF Labels
<1>3. CASE GateRefuses(c)
  <2>1. Walks(c, "idle") BY <1>3 DEF GateRefuses, Walks
  <2>2. QED BY <2>1, WalkKeeps DEF Labels
<1>4. CASE Park(c)
  <2>1. Walks(c, "idle") BY <1>4 DEF Park, Walks
  <2>2. QED BY <2>1, WalkKeeps DEF Labels
<1>5. CASE Decrypt(c)
  <2>1. Walks(c, "account") BY <1>5 DEF Decrypt, Walks
  <2>2. QED BY <2>1, WalkKeeps DEF Labels
<1>6. CASE DecryptFails(c)
  <2>1. Walks(c, "idle") BY <1>6 DEF DecryptFails, Walks
  <2>2. QED BY <2>1, WalkKeeps DEF Labels
<1>7. CASE RecordQuery(c)
  <2>1. Walks(c, "release") BY <1>7 DEF RecordQuery, Walks
  <2>2. QED BY <2>1, WalkKeeps DEF Labels
<1>8. CASE Unpark(c)
  <2>1. Walks(c, "idle") BY <1>8 DEF Unpark, Walks
  <2>2. QED BY <2>1, WalkKeeps DEF Labels
<1>9. QED BY <1>1, <1>2, <1>3, <1>4, <1>5, <1>6, <1>7, <1>8

-----------------------------------------------------------------------------
(***************************************************************************)
(* Steps on the approval store.                                            *)
(***************************************************************************)

\* approve_decrypt begins: the caller is not live before its grant.
LEMMA ApproveKeeps ==
    ASSUME ReleaseInv, NEW c \in Callers, NEW id \in pending, ApproveDecrypt(c, id)
    PROVE  ReleaseInv'
<1> DEFINE k == NewCall(id, TRUE)
<1>1. TypeInv /\ CarryInv /\ LineageInv BY DEF ReleaseInv
<1>2. id \in RequestIds /\ id \in Nat
  BY <1>1, Domains DEF TypeInv, RequestsOK, RequestIds
<1>3. k \in Calls /\ k.request = id /\ k.approving
  BY <1>1, <1>2 DEF TypeInv, RequestsOK, Calls, NewCall, Decisions
<1> HIDE DEF k
<1>4. /\ pc' = [pc EXCEPT ![c] = "grant"] /\ call' = [call EXCEPT ![c] = k]
      /\ UNCHANGED <<clock, containment, dataVars, requests, pending, approvals,
                     releases, results, lineageVars>>
  BY DEF ApproveDecrypt, Goto, k, approvalVars, releaseVars
<1>5. /\ pc'[c] = "grant" /\ call'[c] = k /\ DOMAIN call' = Callers
      /\ \A d \in Callers \ {c} : call'[d] = call[d]
  BY <1>1, <1>4 DEF TypeInv, CallersOK
<1>6. CallOK(pc[c], call[c])' BY <1>2, <1>3, <1>4, <1>5 DEF CallOK, RequestIds
<1>7. CallersOK'
  BY <1>1, <1>4, <1>5, <1>6, CallersKept DEF TypeInv, Grows, RequestIds, Labels
<1>8. DataOK' /\ ReleasesOK' /\ RequestsOK'
  BY <1>1, <1>4 DEF TypeInv, DataOK, ReleasesOK, RequestsOK, Presented, Files,
                    CiphertextIds, ResultIds, dataVars, RequestIds
<1>9. CarryInv'
  <2>1. \A x \in DOMAIN releases' : Sound(requests[releases'[x]])
    BY <1>1, <1>4 DEF CarryInv, ReleasesSound
  <2>2. QED BY <1>1, <1>4, <1>5, <2>1, CarryWalk DEF LiveLabels, PassedLabels, Labels
<1>10. LineageInv' BY <1>1, <1>4, LineageSame
<1>11. QED BY <1>7, <1>8, <1>9, <1>10 DEF ReleaseInv, TypeInv

\* One approval record is replaced.
LEMMA ApprovalSet ==
    ASSUME RequestsOK, NEW id \in RequestIds, NEW a \in Approvals,
           approvals' = [approvals EXCEPT ![id] = a],
           UNCHANGED <<clock, containment, requests, pending, dataVars>>
    PROVE  /\ RequestsOK' /\ approvals'[id] = a
           /\ \A j \in RequestIds \ {id} : approvals'[j] = approvals[j]
<1>1. /\ Len(approvals) \in Nat /\ DOMAIN approvals = 1..Len(approvals)
      /\ id \in DOMAIN approvals /\ RequestIds = DOMAIN approvals
      /\ approvals \in [1..Len(approvals) -> Approvals]
  BY DEF RequestsOK, RequestIds
<1>2. approvals' \in [1..Len(approvals) -> Approvals] BY <1>1
<1>3. approvals' \in Seq(Approvals) /\ Len(approvals') = Len(approvals)
  BY <1>1, <1>2
<1>4. QED
  BY <1>1, <1>3 DEF RequestsOK, RequestIds, Presented, Files, ResultIds, dataVars

\* The gate parks a request: its maker, who carried it alone, stops.
LEMMA ParksKeeps ==
    ASSUME ReleaseInv, NEW c \in Callers, GateParks(c)
    PROVE  ReleaseInv'
<1> DEFINE id == call[c].request
           h == requests[id].envelope.result_ciphertext_hash
           a == [state |-> "PENDING", expires |-> call[c].now + ApprovalTTL,
                 action_hash |-> h]
<1>1. TypeInv /\ CarryInv /\ LineageInv BY DEF ReleaseInv
<1>2. pc[c] = "gate" /\ pc[c] # "idle" /\ ~ call[c].approving
  BY DEF GateParks, HumanMissing
<1>3. id \in RequestIds /\ call[c] \in Calls BY <1>1, <1>2, CallTyped
<1>4. a \in Approvals /\ a.state = "PENDING" /\ a.action_hash = h
  <2>1. call[c].now \in 0..MaxTime BY <1>3 DEF Calls
  <2>2. call[c].now + ApprovalTTL \in Nat BY <2>1, ReleaseAssumption
  <2>3. requests[id] \in DecryptRequests BY <1>1, <1>2, CallTyped
  <2>4. requests[id].envelope \in ResultEnvelopes BY <2>3 DEF DecryptRequests
  <2>5. h \in FileHashes BY <2>4 DEF ResultEnvelopes
  <2> HIDE DEF h
  <2>6. QED BY <2>2, <2>5 DEF Approvals, ApprovalStates
<1>5. /\ approvals' = [approvals EXCEPT ![id] = a]
      /\ pc' = [pc EXCEPT ![c] = "park"]
      /\ UNCHANGED <<clock, containment, dataVars, requests, pending, releases,
                     results, call, lineageVars>>
  BY DEF GateParks, Goto, releaseVars, Request
<1> HIDE DEF a
<1>6. /\ RequestsOK' /\ approvals'[id] = a
      /\ \A j \in RequestIds \ {id} : approvals'[j] = approvals[j]
  BY <1>1, <1>3, <1>4, <1>5, ApprovalSet DEF TypeInv
<1>7. CallersOK' BY <1>1, <1>2, <1>5, CallersWalk DEF Labels
<1>8. DataOK' /\ ReleasesOK'
  BY <1>1, <1>5 DEF TypeInv, DataOK, CiphertextIds, ReleasesOK, dataVars, RequestIds
<1>9. pc'[c] = "park" /\ \A d \in Callers \ {c} : pc'[d] = pc[d]
  BY <1>1, <1>5 DEF TypeInv, CallersOK
<1>10. ASSUME NEW d \in Callers, pc'[d] \in LiveLabels
       PROVE  /\ pc[d] \in LiveLabels /\ call[d].request # id
              /\ call[d].request \in RequestIds
  <2>1. d # c /\ pc[d] \in LiveLabels BY <1>9, <1>10 DEF LiveLabels
  <2>2. call[d].request # id
    BY <1>1, <1>2, <2>1 DEF CarryInv, OneCarrier, LiveLabels
  <2>3. QED BY <1>1, <2>1, <2>2, CallTyped DEF LiveLabels
<1>11. \A i \in DOMAIN results : results[i].request \in RequestIds \ {id}
  BY <1>1, <1>2 DEF CarryInv, Unpublished, LiveLabels, TypeInv, ReleasesOK
<1>12. CarryInv'
  <2>1. OneCarrier' BY <1>1, <1>5, <1>10 DEF CarryInv, OneCarrier
  <2>2. Agreement' BY <1>1, <1>5, <1>6, <1>10 DEF CarryInv, Agreement
  <2>3. Unpublished' BY <1>1, <1>5, <1>10 DEF CarryInv, Unpublished
  <2>4. Settled' BY <1>1, <1>5, <1>6, <1>11 DEF CarryInv, Settled
  <2>5. PassedVouched'
    BY <1>1, <1>5, <1>9 DEF CarryInv, PassedVouched, PassedLabels, Request, Vouched, Sound
  <2>6. ReleasedOnce' BY <1>1, <1>5 DEF CarryInv, ReleasedOnce
  <2>7. HumanApproved' BY <1>1, <1>5, <1>6, <1>11 DEF CarryInv, HumanApproved
  <2>8. ApprovalsBound'
    BY <1>1, <1>4, <1>5, <1>6 DEF CarryInv, ApprovalsBound, RequestIds
  <2>9. ReleasesSound' BY <1>1, <1>5 DEF CarryInv, ReleasesSound, Sound
  <2>10. QED BY <2>1, <2>2, <2>3, <2>4, <2>5, <2>6, <2>7, <2>8, <2>9 DEF CarryInv
<1>13. LineageInv' BY <1>1, <1>5, LineageSame
<1>14. QED BY <1>6, <1>7, <1>8, <1>12, <1>13 DEF ReleaseInv, TypeInv

\* The grant that succeeds: the approval was pending, so nobody carries the
\* request and nothing of it is published.
LEMMA GrantKeeps ==
    ASSUME ReleaseInv, NEW c \in Callers, Grant(c)
    PROVE  ReleaseInv'
<1> DEFINE id == call[c].request
           a == [approvals[id] EXCEPT !.state = "GRANTED"]
<1>1. TypeInv /\ CarryInv /\ LineageInv BY DEF ReleaseInv
<1>2. pc[c] = "grant" /\ pc[c] # "idle" BY DEF Grant
<1>3. id \in RequestIds /\ approvals[id] \in Approvals
      /\ call[c].approving \in BOOLEAN
  BY <1>1, <1>2, CallTyped
<1>4. CASE ~ Decidable(id, call[c].now)
  <2>1. Walks(c, "idle")
    BY <1>2, <1>4 DEF Grant, Walks, Return, LiveLabels, PassedLabels, approvalVars
  <2>2. QED BY <2>1, WalkKeeps DEF Labels
<1>5. CASE Decidable(id, call[c].now)
  <2>1. a \in Approvals /\ a.state = "GRANTED" /\ a.action_hash = approvals[id].action_hash
    BY <1>3 DEF Approvals, ApprovalStates
  <2>2. /\ approvals' = [approvals EXCEPT ![id] = a]
        /\ pc' = [pc EXCEPT ![c] = "gate"] /\ call' = call
        /\ UNCHANGED <<clock, containment, dataVars, requests, pending, releases,
                       results, lineageVars>>
    BY <1>5 DEF Grant, Goto, releaseVars
  <2> HIDE DEF a
  <2>3. approvals[id].state = "PENDING" BY <1>5 DEF Decidable
  <2>4. call[c].approving BY <1>1, <1>2 DEF TypeInv, CallersOK, CallOK
  <2>5. /\ RequestsOK' /\ approvals'[id] = a
        /\ \A j \in RequestIds \ {id} : approvals'[j] = approvals[j]
    BY <1>1, <1>3, <2>1, <2>2, ApprovalSet DEF TypeInv
  <2>6. CallersOK' BY <1>1, <1>2, <2>2, CallersWalk DEF Labels
  <2>7. DataOK' /\ ReleasesOK'
    BY <1>1, <2>2 DEF TypeInv, DataOK, CiphertextIds, ReleasesOK, dataVars, RequestIds
  <2>8. pc'[c] = "gate" /\ \A d \in Callers \ {c} : pc'[d] = pc[d]
    BY <1>1, <2>2 DEF TypeInv, CallersOK
  <2>9. ASSUME NEW d \in Callers \ {c}, pc'[d] \in LiveLabels
        PROVE  /\ pc[d] \in LiveLabels /\ call[d].request # id
               /\ call[d].request \in RequestIds
    <3>1. pc[d] \in LiveLabels BY <2>8, <2>9
    <3>2. call[d].request # id
      BY <1>1, <2>3, <3>1 DEF CarryInv, Agreement
    <3>3. QED BY <1>1, <3>1, <3>2, CallTyped DEF LiveLabels
  <2>10. \A i \in DOMAIN results : results[i].request \in RequestIds \ {id}
    BY <1>1, <2>3 DEF CarryInv, Settled, TypeInv, ReleasesOK
  <2>11. CarryInv'
    <3>1. OneCarrier' BY <1>1, <2>2, <2>9 DEF CarryInv, OneCarrier
    <3>2. Agreement'
      BY <1>1, <2>1, <2>2, <2>4, <2>5, <2>9 DEF CarryInv, Agreement
    <3>3. Unpublished' BY <1>1, <2>2, <2>9, <2>10 DEF CarryInv, Unpublished
    <3>4. Settled' BY <1>1, <2>2, <2>5, <2>10 DEF CarryInv, Settled
    <3>5. PassedVouched'
      BY <1>1, <2>2, <2>8
         DEF CarryInv, PassedVouched, PassedLabels, Request, Vouched, Sound
    <3>6. ReleasedOnce' BY <1>1, <2>2 DEF CarryInv, ReleasedOnce
    <3>7. HumanApproved' BY <1>1, <2>2, <2>5, <2>10 DEF CarryInv, HumanApproved
    <3>8. ApprovalsBound'
      BY <1>1, <2>1, <2>2, <2>3, <2>5 DEF CarryInv, ApprovalsBound, RequestIds
    <3>9. ReleasesSound' BY <1>1, <2>2 DEF CarryInv, ReleasesSound, Sound
    <3>10. QED BY <3>1, <3>2, <3>3, <3>4, <3>5, <3>6, <3>7, <3>8, <3>9 DEF CarryInv
  <2>12. LineageInv' BY <1>1, <2>2, LineageSame
  <2>13. QED BY <2>5, <2>6, <2>7, <2>11, <2>12 DEF ReleaseInv, TypeInv
<1>6. QED BY <1>4, <1>5

-----------------------------------------------------------------------------
(***************************************************************************)
(* Accounting, time and containment.                                       *)
(***************************************************************************)

\* Whatever the history, evaluate answers with one of the decisions.
LEMMA DecideTyped == \A q, past : Decide(q, past) \in Decisions
BY DEF Decide, Decisions

\* governed_release keeps its decision with the call.
LEMMA AccountKeeps ==
    ASSUME ReleaseInv, NEW c \in Callers, Account(c)
    PROVE  ReleaseInv'
<1> DEFINE q == Request(c).query
           l == IF allowed(Evaluate(q)) THEN "record" ELSE "release"
           k == [call[c] EXCEPT !.decision = Evaluate(q)]
<1>1. TypeInv /\ CarryInv /\ LineageInv BY DEF ReleaseInv
<1>2. pc[c] = "account" /\ pc[c] # "idle" BY DEF Account
<1>3. call[c] \in Calls /\ call[c].request \in RequestIds BY <1>1, <1>2, CallTyped
<1>4. Evaluate(q) \in Decisions BY DecideTyped DEF Evaluate
<1>5. /\ k \in Calls /\ k.request = call[c].request
      /\ k.approving = call[c].approving /\ k.release = call[c].release
  BY <1>3, <1>4 DEF Calls
<1>6. l \in {"record", "release"} OBVIOUS
<1>7. pc' = [pc EXCEPT ![c] = l] BY DEF Account, Goto
<1>8. call' = [call EXCEPT ![c] = k] BY DEF Account
<1>9. UNCHANGED <<clock, containment, dataVars, requests, pending, approvals,
                  releases, results, lineageVars>>
  BY DEF Account, approvalVars, releaseVars
<1> HIDE DEF k, l
<1>10. /\ pc'[c] = l /\ call'[c] = k /\ DOMAIN call' = Callers
       /\ \A d \in Callers \ {c} : call'[d] = call[d]
  BY <1>1, <1>7, <1>8 DEF TypeInv, CallersOK
<1>11. CallOK(pc[c], call[c])'
  BY <1>3, <1>5, <1>6, <1>9, <1>10 DEF CallOK, RequestIds
<1>12. l \in Labels /\ l \in LiveLabels /\ l \in PassedLabels
  BY <1>6 DEF Labels, LiveLabels, PassedLabels
<1>13. CallersOK'
  BY <1>1, <1>7, <1>9, <1>10, <1>11, <1>12, CallersKept DEF TypeInv, Grows, RequestIds
<1>14. DataOK' /\ ReleasesOK' /\ RequestsOK'
  BY <1>1, <1>9 DEF TypeInv, DataOK, ReleasesOK, RequestsOK, Presented, Files,
                    CiphertextIds, ResultIds, dataVars, RequestIds
<1>15. CarryInv'
  <2>1. \A x \in DOMAIN releases' : Sound(requests[releases'[x]])
    BY <1>1, <1>9 DEF CarryInv, ReleasesSound
  <2>2. QED
    BY <1>1, <1>2, <1>5, <1>7, <1>9, <1>10, <1>12, <2>1, CarryWalk
       DEF LiveLabels, PassedLabels
<1>16. LineageInv' BY <1>1, <1>9, LineageSame
<1>17. QED BY <1>13, <1>14, <1>15, <1>16 DEF ReleaseInv, TypeInv

\* Calls, requests, approvals and releases as they were.
LEMMA CarrySame ==
    ASSUME CarryInv, UNCHANGED <<requests, approvalVars, releaseVars, callerVars>>
    PROVE  CarryInv'
<1> USE DEF CarryInv, approvalVars, releaseVars, callerVars
<1>1. OneCarrier' /\ Agreement' /\ Unpublished' /\ Settled'
  BY DEF OneCarrier, Agreement, Unpublished, Settled
<1>2. ApprovalsBound' /\ PassedVouched' /\ ReleasesSound'
  BY DEF ApprovalsBound, RequestIds, PassedVouched, Vouched, Sound, Request, ReleasesSound
<1>3. ReleasedOnce' /\ HumanApproved' BY DEF ReleasedOnce, HumanApproved
<1>4. QED BY <1>1, <1>2, <1>3

\* Steps that leave the calls, the stores and the graph alone.
LEMMA EnvironmentKeeps ==
    ASSUME ReleaseInv, clock' \in 0..MaxTime, containment' \in States,
           UNCHANGED <<dataVars, requests, approvalVars, releaseVars, callerVars,
                       lineageVars>>
    PROVE  ReleaseInv'
<1>1. TypeInv'
  BY DEF ReleaseInv, TypeInv, DataOK, RequestsOK, Presented, Files, CiphertextIds,
         ResultIds, ReleasesOK, CallersOK, CallOK, RequestIds, dataVars, approvalVars,
         releaseVars, callerVars
<1>2. CarryInv' BY CarrySame DEF ReleaseInv
<1>3. LineageInv' BY LineageSame DEF ReleaseInv, releaseVars
<1>4. QED BY <1>1, <1>2, <1>3 DEF ReleaseInv

-----------------------------------------------------------------------------
(***************************************************************************)
(* The lineage graph only grows, and never loses a hash it has recorded.   *)
(***************************************************************************)

\* _add_node keeps one of the two records, and a hash if either has one.
LEMMA NodesAdded ==
    ASSUME NEW N, nodes' = AddNodes(nodes, N)
    PROVE  /\ DOMAIN nodes' = DOMAIN nodes \cup DOMAIN N
           /\ \A n \in DOMAIN nodes \ DOMAIN N : nodes'[n] = nodes[n]
           /\ \A n \in DOMAIN N \ DOMAIN nodes : nodes'[n] = N[n]
           /\ \A n \in DOMAIN N : nodes'[n] = N[n] \/ (n \in DOMAIN nodes /\ nodes'[n] = nodes[n])
           /\ \A n \in DOMAIN nodes : nodes[n].ref_hash # NoHash => nodes'[n].ref_hash # NoHash
           /\ \A n \in DOMAIN N : N[n].ref_hash # NoHash => nodes'[n].ref_hash # NoHash
<1>1. DOMAIN nodes' = DOMAIN nodes \cup DOMAIN N BY DEF AddNodes
<1>2. \A n \in DOMAIN nodes \ DOMAIN N : nodes'[n] = nodes[n] BY DEF AddNodes
<1>3. \A n \in DOMAIN N \ DOMAIN nodes : nodes'[n] = N[n] BY DEF AddNodes
<1>4. ASSUME NEW n \in DOMAIN nodes, n \in DOMAIN N
      PROVE  /\ nodes'[n] = N[n] \/ nodes'[n] = nodes[n]
             /\ nodes[n].ref_hash # NoHash \/ N[n].ref_hash # NoHash => nodes'[n].ref_hash # NoHash
  <2>1. CASE richer(N[n], nodes[n])
    <3>1. nodes'[n] = N[n] BY <1>4, <2>1 DEF AddNodes
    <3>2. nodes[n].ref_hash # NoHash => N[n].ref_hash # NoHash BY <2>1 DEF richer, HasHash
    <3>3. QED BY <3>1, <3>2
  <2>2. CASE ~ richer(N[n], nodes[n])
    <3>1. nodes'[n] = nodes[n] BY <1>4, <2>2 DEF AddNodes
    <3>2. N[n].ref_hash # NoHash => nodes[n].ref_hash # NoHash BY <2>2 DEF richer, HasHash
    <3>3. QED BY <3>1, <3>2
  <2>3. QED BY <2>1, <2>2
<1>5. \A n \in DOMAIN N : nodes'[n] = N[n] \/ (n \in DOMAIN nodes /\ nodes'[n] = nodes[n])
  BY <1>3, <1>4
<1>6. \A n \in DOMAIN nodes : nodes[n].ref_hash # NoHash => nodes'[n].ref_hash # NoHash
  BY <1>2, <1>4
<1>7. \A n \in DOMAIN N : N[n].ref_hash # NoHash => nodes'[n].ref_hash # NoHash
  BY <1>3, <1>4
<1>8. QED BY <1>1, <1>2, <1>3, <1>5, <1>6, <1>7

\* Nothing that is stored changes or goes: the facts about the graph that
\* speak of what is stored survive.
StoresGrow ==
    /\ \A x \in DOMAIN ciphertexts :
          x \in DOMAIN ciphertexts' /\ ciphertexts'[x] = ciphertexts[x]
    /\ \A x \in DOMAIN computed : x \in DOMAIN computed' /\ computed'[x] = computed[x]
    /\ \A x \in DOMAIN requests : x \in DOMAIN requests' /\ requests'[x] = requests[x]
    /\ \A x \in DOMAIN releases : x \in DOMAIN releases' /\ releases'[x] = releases[x]

\* What one record_* call leaves: the old links and hashes, and its own.  The
\* links of the stores it does not extend stay; no release is recorded twice.
LEMMA Recorded ==
    ASSUME TypeInv, LineageInv, StoresGrow, NEW N, NEW E, Record(N, E),
           \A n \in DOMAIN N : NodeFits(n, N[n])',
           \A x \in DOMAIN releases : <<"RELEASED_RESULT", x>> \notin DOMAIN N,
           \A e \in E : EdgeFits(e[1], e[2])'
    PROVE  /\ NodesFit' /\ EdgesFit'
           /\ \A a, b : Arc(a, b) => Arc(a, b)'
           /\ \A n : HashPinned(n) => HashPinned(n)'
           /\ \A n \in DOMAIN N : HasHash(N[n]) => HashPinned(n)'
           /\ \A a, b \in DOMAIN N : <<a, b>> \in E => Arc(a, b)'
           /\ \A n \in DOMAIN N \ DOMAIN nodes : nodes'[n] = N[n]
           /\ UNCHANGED ciphertexts => CiphertextsLinked'
           /\ UNCHANGED computed => ComputedLinked'
           /\ UNCHANGED requests => RequestsLinked'
           /\ UNCHANGED releases => ReleasesLinked'
           /\ \A x \in DOMAIN releases :
                 nodes'[<<"RELEASED_RESULT", x>>] = nodes[<<"RELEASED_RESULT", x>>]
<1>1. nodes' = AddNodes(nodes, N) /\ edges' = edges \cup E BY DEF Record
<1>2. /\ DOMAIN nodes' = DOMAIN nodes \cup DOMAIN N
      /\ \A n \in DOMAIN nodes \ DOMAIN N : nodes'[n] = nodes[n]
      /\ \A n \in DOMAIN N \ DOMAIN nodes : nodes'[n] = N[n]
      /\ \A n \in DOMAIN N : nodes'[n] = N[n] \/ (n \in DOMAIN nodes /\ nodes'[n] = nodes[n])
      /\ \A n \in DOMAIN nodes : nodes[n].ref_hash # NoHash => nodes'[n].ref_hash # NoHash
      /\ \A n \in DOMAIN N : N[n].ref_hash # NoHash => nodes'[n].ref_hash # NoHash
  BY <1>1, NodesAdded
<1>3. \A n : HashPinned(n) => HashPinned(n)' BY <1>2 DEF HashPinned, HasHash
<1>4. \A a, b : Arc(a, b) => Arc(a, b)' BY <1>1, <1>2 DEF Arc
<1>5. \A a, b \in DOMAIN N : <<a, b>> \in E => Arc(a, b)' BY <1>1, <1>2 DEF Arc
<1>6. \A n \in DOMAIN N : HasHash(N[n]) => HashPinned(n)'
  BY <1>2 DEF HashPinned, HasHash
<1>7. NodesFit'
  <2> SUFFICES ASSUME NEW n \in DOMAIN nodes' PROVE NodeFits(n, nodes[n])'
    BY DEF NodesFit
  <2>1. ASSUME n \in DOMAIN nodes, nodes'[n] = nodes[n] PROVE NodeFits(n, nodes[n])'
    <3>1. NodeFits(n, nodes[n]) BY <2>1 DEF LineageInv, NodesFit
    <3>2. QED BY <2>1, <3>1 DEF NodeFits, StoresGrow
  <2>2. ASSUME n \in DOMAIN N, nodes'[n] = N[n] PROVE NodeFits(n, nodes[n])'
    BY <2>2 DEF NodeFits
  <2>3. QED BY <1>2, <2>1, <2>2
<1>8. EdgesFit'
  <2> SUFFICES ASSUME NEW e \in edges' PROVE EdgeFits(e[1], e[2])' BY DEF EdgesFit
  <2>1. CASE e \in edges
    <3>1. PICK a, b : a = e[1] /\ b = e[2] OBVIOUS
    <3>2. EdgeFits(a, b) BY <2>1, <3>1 DEF LineageInv, EdgesFit
    <3>3. EdgeFits(a, b)' BY <3>2 DEF EdgeFits, StoresGrow
    <3>4. QED BY <3>1, <3>3
  <2>2. CASE e \in E BY <2>2
  <2>3. QED BY <1>1, <2>1, <2>2
<1>9. ASSUME NEW x \in DOMAIN releases
      PROVE  nodes'[<<"RELEASED_RESULT", x>>] = nodes[<<"RELEASED_RESULT", x>>]
  BY <1>2 DEF LineageInv, ReleasesLinked, Arc
<1>10. UNCHANGED ciphertexts => CiphertextsLinked'
  BY <1>4 DEF LineageInv, CiphertextsLinked
<1>11. UNCHANGED computed => ComputedLinked'
  BY <1>3, <1>4 DEF LineageInv, ComputedLinked
<1>12. UNCHANGED requests => RequestsLinked'
  BY <1>4 DEF LineageInv, RequestsLinked
<1>13. UNCHANGED releases => ReleasesLinked'
  <2> SUFFICES ASSUME UNCHANGED releases, NEW k \in DOMAIN releases
               PROVE  /\ Arc(<<"DECRYPT_REQUEST", releases[k]>>, <<"RELEASED_RESULT", k>>)'
                      /\ nodes'[<<"RELEASED_RESULT", k>>].ref_hash =
                            requests'[releases[k]].envelope.result_ciphertext_hash
    BY DEF ReleasesLinked
  <2>1. releases[k] \in DOMAIN requests
    BY Domains DEF TypeInv, ReleasesOK, RequestIds
  <2>2. requests'[releases[k]] = requests[releases[k]] BY <2>1 DEF StoresGrow
  <2>3. QED BY <1>4, <1>9, <2>2 DEF LineageInv, ReleasesLinked
<1>14. QED
  BY <1>2, <1>3, <1>4, <1>5, <1>6, <1>7, <1>8, <1>9, <1>10, <1>11, <1>12, <1>13

\* New files take nothing away from what requests name.
LEMMA FilesGrow ==
    ASSUME DOMAIN ciphertexts \subseteq DOMAIN ciphertexts',
           DOMAIN computed \subseteq DOMAIN computed'
    PROVE  /\ CiphertextIds \subseteq CiphertextIds'
           /\ \A x : Presented(x) => Presented(x)'
<1>1. Files \subseteq Files' BY DEF Files
<1>2. CiphertextIds \subseteq CiphertextIds' /\ ResultIds \subseteq ResultIds'
  BY DEF CiphertextIds, ResultIds
<1>3. QED BY <1>1, <1>2 DEF Presented

\* encrypt: a ciphertext node under its dataset.
LEMMA EncryptKeeps ==
    ASSUME ReleaseInv, NEW d \in Datasets, NEW g \in Grants, Encrypt(d, g)
    PROVE  ReleaseInv'
<1>1. TypeInv /\ CarryInv /\ LineageInv BY DEF ReleaseInv
<1>2. PICK ct : ct = Len(ciphertexts) + 1 OBVIOUS
<1>3. /\ ciphertexts' = Append(ciphertexts, d)
      /\ UNCHANGED <<clock, containment, computed, requests, approvalVars,
                     releaseVars, callerVars>>
  BY DEF Encrypt
<1>4. ciphertexts \in Seq(Datasets) BY <1>1 DEF TypeInv, DataOK
<1>5. /\ ciphertexts' \in Seq(Datasets)
      /\ DOMAIN ciphertexts' = DOMAIN ciphertexts \cup {ct} /\ ct \in Nat
      /\ ciphertexts'[ct] = d
      /\ \A i \in DOMAIN ciphertexts : ciphertexts'[i] = ciphertexts[i]
  BY <1>2, <1>3, <1>4, Appended
<1>6. CiphertextIds \subseteq CiphertextIds' /\ \A x : Presented(x) => Presented(x)'
  BY <1>3, <1>5, FilesGrow
<1>7. TypeInv'
  <2>1. DataOK' BY <1>1, <1>3, <1>5, <1>6 DEF TypeInv, DataOK
  <2>2. RequestsOK'
    BY <1>1, <1>3, <1>6 DEF TypeInv, RequestsOK, RequestIds, approvalVars
  <2>3. ReleasesOK' /\ CallersOK'
    BY <1>1, <1>3 DEF TypeInv, ReleasesOK, CallersOK, CallOK, RequestIds,
                      approvalVars, releaseVars, callerVars
  <2>4. QED BY <2>1, <2>2, <2>3 DEF TypeInv
<1>8. CarryInv' BY <1>1, <1>3, CarrySame
<1>9. StoresGrow BY <1>3, <1>5 DEF StoresGrow, releaseVars
<1>10. PICK h : h = Hash("FHE_CIPHERTEXT", <<"CIPHERTEXT", ct>>) OBVIOUS
<1>11. LineageInv'
  <2> DEFINE A == {"classification", "context_id", "key_epoch"}
             a == <<"DATASET", d>>
             b == <<"CIPHERTEXT", ct>>
             N == [n \in {a, b} |-> IF n[1] = "CIPHERTEXT" THEN Pinned(h, A) ELSE Bare]
             E == {<<a, b>>}
  <2>1. Record(N, E) BY <1>2, <1>10 DEF Encrypt, record_ciphertext
  <2>2. DOMAIN N = {a, b} OBVIOUS
  <2>3. \A n \in DOMAIN N : NodeFits(n, N[n])' BY <2>2 DEF NodeFits
  <2>4. \A x \in DOMAIN releases : <<"RELEASED_RESULT", x>> \notin DOMAIN N BY <2>2
  <2>5. EdgeFits(a, b)' BY <1>5 DEF EdgeFits
  <2> HIDE DEF N, a, b
  <2>6. \A e \in E : EdgeFits(e[1], e[2])' BY <2>5
  <2>7. <<a, b>> \in E /\ a \in DOMAIN N /\ b \in DOMAIN N BY <2>2
  <2> HIDE DEF E
  <2>8. /\ NodesFit' /\ EdgesFit' /\ ComputedLinked' /\ RequestsLinked' /\ ReleasesLinked'
        /\ \A x, y : Arc(x, y) => Arc(x, y)'
        /\ \A x, y \in DOMAIN N : <<x, y>> \in E => Arc(x, y)'
    BY <1>1, <1>3, <1>9, <2>1, <2>3, <2>4, <2>6, Recorded DEF releaseVars
  <2>9. Arc(a, b)' BY <2>7, <2>8
  <2>10. CiphertextsLinked'
    BY <1>1, <1>5, <2>8, <2>9 DEF CiphertextsLinked, LineageInv, a, b
  <2>11. QED BY <2>8, <2>10 DEF LineageInv
<1>12. QED BY <1>7, <1>8, <1>11 DEF ReleaseInv

\* compute: a result with its hash under its program, under the ciphertext its
\* envelope named.
LEMMA ComputeKeeps ==
    ASSUME ReleaseInv, NEW p \in Programs, NEW ct \in CiphertextIds,
           NEW g \in Grants, Compute(p, ct, g)
    PROVE  ReleaseInv'
<1> DEFINE e == [parent |-> ct, program |-> p]
<1>1. TypeInv /\ CarryInv /\ LineageInv BY DEF ReleaseInv
<1>2. PICK r : r = Len(computed) + 1 OBVIOUS
<1>3. /\ computed' = Append(computed, e)
      /\ UNCHANGED <<clock, containment, ciphertexts, requests, approvalVars,
                     releaseVars, callerVars>>
  BY DEF Compute
<1>4. e \in Computations /\ e.parent = ct /\ e.program = p
  <2>1. ct \in Ids BY <1>1, Domains DEF CiphertextIds, Ids
  <2>2. QED BY <2>1 DEF Computations
<1>5. computed \in Seq(Computations) BY <1>1 DEF TypeInv, DataOK
<1> HIDE DEF e
<1>6. /\ computed' \in Seq(Computations)
      /\ DOMAIN computed' = DOMAIN computed \cup {r} /\ r \in Nat
      /\ computed'[r] = e
      /\ \A i \in DOMAIN computed : computed'[i] = computed[i]
  BY <1>2, <1>3, <1>4, <1>5, Appended
<1>7. CiphertextIds' = CiphertextIds /\ \A x : Presented(x) => Presented(x)'
  BY <1>3, <1>6, FilesGrow DEF CiphertextIds
<1>8. TypeInv'
  <2>1. DataOK' BY <1>1, <1>3, <1>4, <1>6, <1>7 DEF TypeInv, DataOK
  <2>2. RequestsOK'
    BY <1>1, <1>3, <1>7 DEF TypeInv, RequestsOK, RequestIds, approvalVars
  <2>3. ReleasesOK' /\ CallersOK'
    BY <1>1, <1>3 DEF TypeInv, ReleasesOK, CallersOK, CallOK, RequestIds,
                      approvalVars, releaseVars, callerVars
  <2>4. QED BY <2>1, <2>2, <2>3 DEF TypeInv
<1>9. CarryInv' BY <1>1, <1>3, CarrySame
<1>10. StoresGrow BY <1>3, <1>6 DEF StoresGrow, releaseVars
<1>11. PICK h : h = Hash("FHE_RESULT", <<"RESULT", r>>) OBVIOUS
<1>12. h # NoHash BY <1>11 DEF Hash, NoHash
<1>13. LineageInv'
  <2> DEFINE a == <<"CIPHERTEXT", ct>>
             b == <<"PROGRAM", p>>
             d == <<"RESULT", r>>
             N == [n \in {a, b, d} |->
                      IF n[1] = "RESULT" THEN Pinned(h, {"lineage_id"})
                      ELSE IF n[1] = "PROGRAM" THEN Labelled({"version"}) ELSE Bare]
             E == {<<a, b>>, <<b, d>>}
  <2>1. Record(N, E) BY <1>2, <1>11 DEF Compute, record_result
  <2>2. DOMAIN N = {a, b, d} OBVIOUS
  <2>3. N[d] = Pinned(h, {"lineage_id"}) OBVIOUS
  <2>4. HasHash(N[d]) BY <1>12, <2>3 DEF HasHash, Pinned
  <2>5. \A n \in DOMAIN N : NodeFits(n, N[n])'
    <3>1. NodeFits(d, N[d])' BY <1>11, <2>3 DEF NodeFits, Pinned
    <3>2. NodeFits(a, N[a])' /\ NodeFits(b, N[b])' BY DEF NodeFits
    <3>3. QED BY <2>2, <3>1, <3>2
  <2>6. \A x \in DOMAIN releases : <<"RELEASED_RESULT", x>> \notin DOMAIN N BY <2>2
  <2>7. EdgeFits(a, b)'
    <3>1. r \in DOMAIN computed' /\ computed'[r].program = p /\ computed'[r].parent = ct
      BY <1>4, <1>6
    <3>2. QED BY <3>1 DEF EdgeFits
  <2>8. EdgeFits(b, d)' BY <1>4, <1>6 DEF EdgeFits
  <2> HIDE DEF N, a, b, d
  <2>9. \A x \in E : EdgeFits(x[1], x[2])' BY <2>7, <2>8
  <2>10. /\ <<a, b>> \in E /\ <<b, d>> \in E
         /\ a \in DOMAIN N /\ b \in DOMAIN N /\ d \in DOMAIN N
    BY <2>2
  <2> HIDE DEF E
  <2>11. /\ NodesFit' /\ EdgesFit' /\ CiphertextsLinked' /\ RequestsLinked'
         /\ ReleasesLinked'
         /\ \A x, y : Arc(x, y) => Arc(x, y)'
         /\ \A n : HashPinned(n) => HashPinned(n)'
         /\ \A n \in DOMAIN N : HasHash(N[n]) => HashPinned(n)'
         /\ \A x, y \in DOMAIN N : <<x, y>> \in E => Arc(x, y)'
    BY <1>1, <1>3, <1>10, <2>1, <2>5, <2>6, <2>9, Recorded DEF releaseVars
  <2>12. Arc(a, b)' /\ Arc(b, d)' /\ HashPinned(d)' BY <2>4, <2>10, <2>11
  <2>13. ComputedLinked'
    <3> SUFFICES ASSUME NEW x \in DOMAIN computed'
                 PROVE  /\ Arc(<<"CIPHERTEXT", computed[x].parent>>,
                               <<"PROGRAM", computed[x].program>>)'
                        /\ Arc(<<"PROGRAM", computed[x].program>>, <<"RESULT", x>>)'
                        /\ HashPinned(<<"RESULT", x>>)'
      BY DEF ComputedLinked
    <3>1. CASE x = r BY <1>4, <1>6, <2>12, <3>1 DEF a, b, d
    <3>2. CASE x \in DOMAIN computed
      BY <1>1, <1>6, <2>11, <3>2 DEF LineageInv, ComputedLinked
    <3>3. QED BY <1>6, <3>1, <3>2
  <2>14. QED BY <2>11, <2>13 DEF LineageInv
<1>14. QED BY <1>8, <1>9, <1>13 DEF ReleaseInv

\* decrypt_request begins: a new id, that nobody carries and nothing was
\* published for, linked to the result it asks for.
LEMMA RequestKeeps ==
    ASSUME ReleaseInv, HistoryOK, NEW c \in Callers, NEW f \in Files, NEW v \in Envelopes,
           NEW g \in Grants, NEW q \in Queries, NEW t \in Timestamps, NEW a \in Assertions,
           DecryptRequest(c, f, v, g, q, t, a)
    PROVE  ReleaseInv'
<1> DEFINE id == Len(requests) + 1
           e == [path |-> f, envelope |-> v,
                 granted |-> g, containment_state |-> containment,
                 query |-> Stamp(q, t), approval_granted |-> a,
                 known |-> Len(history[q.scope])]
           k == NewCall(id, FALSE)
<1>1. TypeInv /\ CarryInv /\ LineageInv BY DEF ReleaseInv
<1>2. /\ requests' = Append(requests, e)
      /\ approvals' = Append(approvals, NoApproval)
      /\ pc' = [pc EXCEPT ![c] = "govern"]
      /\ call' = [call EXCEPT ![c] = k]
      /\ UNCHANGED <<clock, containment, dataVars, pending, releases, results>>
  BY DEF DecryptRequest, Goto, Stamp, releaseVars
<1>3. e \in DecryptRequests /\ e.envelope = v /\ Presented(e)
  <2>1. Files \subseteq FileNames BY <1>1, Domains DEF Files, FileNames
  <2>2. /\ v.ciphertext_id \in ResultIds /\ v.classification \in Classifications
        /\ v.result_ciphertext_hash \in {Hash("FHE_RESULT", x) : x \in Files}
        /\ v = [ciphertext_id |-> v.ciphertext_id, classification |-> v.classification,
                result_ciphertext_hash |-> v.result_ciphertext_hash]
    BY DEF Envelopes
  <2>3. PICK x \in Files : v.result_ciphertext_hash = Hash("FHE_RESULT", x) BY <2>2
  <2>4. v.result_ciphertext_hash \in FileHashes BY <2>1, <2>3 DEF FileHashes, Hash
  <2>5. v.ciphertext_id \in Ids BY <1>1, <2>2, Domains DEF ResultIds, Ids
  <2>6. v \in ResultEnvelopes BY <2>2, <2>4, <2>5 DEF ResultEnvelopes
  <2>7. a \in BOOLEAN /\ Stamp(q, t) \in Stamped /\ containment \in States
    BY <1>1, ReleaseAssumption DEF Stamped, TypeInv, RequestsOK
  <2>8. Len(history[q.scope]) \in Nat BY ReleaseAssumption DEF HistoryOK
  <2>9. e \in DecryptRequests /\ e.envelope = v /\ e.path = f
    BY <2>1, <2>6, <2>7, <2>8 DEF DecryptRequests
  <2>10. QED BY <2>2, <2>3, <2>9 DEF Presented
<1>4. requests \in Seq(DecryptRequests) /\ approvals \in Seq(Approvals)
      /\ Len(approvals) = Len(requests) /\ Len(requests) \in Nat
      /\ DOMAIN requests = 1..Len(requests) /\ RequestIds = 1..Len(requests)
  BY <1>1, Domains DEF TypeInv, RequestsOK, RequestIds
<1>5. NoApproval \in Approvals /\ NoApproval.state = "NONE"
  BY DEF NoApproval, Approvals, ApprovalStates
<1>6. k \in Calls /\ k.request = id /\ k.approving = FALSE
  BY <1>1, <1>4 DEF TypeInv, RequestsOK, Calls, NewCall, Decisions
<1> HIDE DEF e, k
<1>7. /\ requests' \in Seq(DecryptRequests) /\ Len(requests') = id
      /\ DOMAIN requests' = DOMAIN requests \cup {id} /\ id \notin DOMAIN requests
      /\ requests'[id] = e
      /\ \A i \in DOMAIN requests : requests'[i] = requests[i]
  BY <1>2, <1>3, <1>4, Appended
<1>8. /\ approvals' \in Seq(Approvals) /\ Len(approvals') = id
      /\ approvals'[id] = NoApproval
      /\ \A i \in RequestIds : approvals'[i] = approvals[i]
  BY <1>2, <1>4, <1>5, Appended
<1>9. RequestIds' = RequestIds \cup {id} /\ id \notin RequestIds
  BY <1>4, <1>7 DEF RequestIds
<1>10. /\ pc'[c] = "govern" /\ call'[c] = k /\ DOMAIN call' = Callers
       /\ \A d \in Callers \ {c} : call'[d] = call[d] /\ pc'[d] = pc[d]
  BY <1>1, <1>2 DEF TypeInv, CallersOK
<1>11. TypeInv'
  <2>1. DataOK' BY <1>1, <1>2 DEF TypeInv, DataOK, CiphertextIds, dataVars
  <2>2. RequestsOK'
    <3>1. \A x : Presented(x) => Presented(x)' BY <1>2, FilesGrow DEF dataVars
    <3>2. \A i \in DOMAIN requests' : Presented(requests[i])'
      BY <1>1, <1>3, <1>7, <3>1 DEF TypeInv, RequestsOK
    <3>3. QED BY <1>1, <1>2, <1>7, <1>8, <1>9, <3>2 DEF TypeInv, RequestsOK
  <2>3. ReleasesOK' BY <1>1, <1>2, <1>9 DEF TypeInv, ReleasesOK
  <2>4. CallOK(pc[c], call[c])' BY <1>6, <1>9, <1>10 DEF CallOK
  <2>5. Grows BY <1>2, <1>9 DEF Grows
  <2>6. CallersOK' BY <1>1, <1>2, <1>10, <2>4, <2>5, CallersKept DEF TypeInv, Labels
  <2>7. QED BY <2>1, <2>2, <2>3, <2>6 DEF TypeInv
<1>12. \A d \in Callers \ {c} : pc[d] \in LiveLabels => call[d].request \in RequestIds
  BY <1>1, CallTyped DEF LiveLabels
<1>13. \A i \in DOMAIN results : results[i].request \in RequestIds
  BY <1>1 DEF TypeInv, ReleasesOK
<1>14. CarryInv'
  <2>1. OneCarrier' BY <1>1, <1>6, <1>9, <1>10, <1>12 DEF CarryInv, OneCarrier
  <2>2. Agreement'
    BY <1>1, <1>5, <1>6, <1>8, <1>10, <1>12 DEF CarryInv, Agreement
  <2>3. Unpublished'
    BY <1>1, <1>2, <1>6, <1>9, <1>10, <1>13 DEF CarryInv, Unpublished
  <2>4. Settled' BY <1>1, <1>2, <1>8, <1>13 DEF CarryInv, Settled
  <2>5. PassedVouched'
    <3> SUFFICES ASSUME NEW d \in Callers, pc'[d] \in PassedLabels
                 PROVE  Vouched(Request(d), call[d].approving)'
      BY DEF PassedVouched
    <3>1. d # c /\ pc[d] \in PassedLabels BY <1>10 DEF PassedLabels
    <3>2. call[d].request \in DOMAIN requests
      BY <1>4, <1>12, <3>1 DEF PassedLabels, LiveLabels
    <3>3. Request(d)' = Request(d) /\ call'[d] = call[d]
      BY <1>7, <1>10, <3>1, <3>2 DEF Request
    <3>4. QED BY <1>1, <3>1, <3>3 DEF CarryInv, PassedVouched, Vouched, Sound
  <2>6. ReleasedOnce' BY <1>1, <1>2 DEF CarryInv, ReleasedOnce
  <2>7. HumanApproved'
    BY <1>1, <1>2, <1>4, <1>7, <1>8, <1>13 DEF CarryInv, HumanApproved
  <2>8. ApprovalsBound'
    BY <1>1, <1>4, <1>5, <1>7, <1>8, <1>9 DEF CarryInv, ApprovalsBound
  <2>9. ReleasesSound'
    BY <1>1, <1>2, <1>4, <1>7 DEF CarryInv, ReleasesSound, Sound, TypeInv, ReleasesOK
  <2>10. QED BY <2>1, <2>2, <2>3, <2>4, <2>5, <2>6, <2>7, <2>8, <2>9 DEF CarryInv
<1>15. PICK x : x = id OBVIOUS
<1>16. PICK y : y = v.ciphertext_id OBVIOUS
<1>17. StoresGrow BY <1>2, <1>7 DEF StoresGrow, dataVars
<1>18. LineageInv'
  <2> DEFINE m == <<"RESULT", y>>
             n == <<"DECRYPT_REQUEST", x>>
             N == RequestNodes(y, x)
             E == {<<m, n>>}
  <2>1. Record(N, E) BY <1>15, <1>16 DEF DecryptRequest, record_decrypt_request
  <2>2. DOMAIN N = {m, n} /\ N[m] = Bare BY DEF RequestNodes
  <2>3. \A i \in DOMAIN N : NodeFits(i, N[i])'
    <3>1. NodeFits(m, N[m])' BY <2>2 DEF NodeFits, Bare
    <3>2. NodeFits(n, N[n])' BY DEF NodeFits
    <3>3. QED BY <2>2, <3>1, <3>2
  <2>4. \A i \in DOMAIN releases : <<"RELEASED_RESULT", i>> \notin DOMAIN N BY <2>2
  <2>5. EdgeFits(m, n)' BY <1>3, <1>7, <1>15, <1>16 DEF EdgeFits
  <2> HIDE DEF N, m, n
  <2>6. \A i \in E : EdgeFits(i[1], i[2])' BY <2>5
  <2>7. <<m, n>> \in E /\ m \in DOMAIN N /\ n \in DOMAIN N BY <2>2
  <2> HIDE DEF E
  <2>8. /\ NodesFit' /\ EdgesFit' /\ CiphertextsLinked' /\ ComputedLinked'
        /\ ReleasesLinked'
        /\ \A i, j : Arc(i, j) => Arc(i, j)'
        /\ \A i, j \in DOMAIN N : <<i, j>> \in E => Arc(i, j)'
    BY <1>1, <1>2, <1>17, <2>1, <2>3, <2>4, <2>6, Recorded DEF dataVars
  <2>9. Arc(m, n)' BY <2>7, <2>8
  <2>10. RequestsLinked'
    BY <1>1, <1>3, <1>7, <1>15, <1>16, <2>8, <2>9 DEF RequestsLinked, LineageInv, m, n
  <2>11. QED BY <2>8, <2>10 DEF LineageInv
<1>19. QED BY <1>11, <1>14, <1>18 DEF ReleaseInv

\* A release id is drawn and recorded for the request the caller carries.
LEMMA RecordReleaseKeeps ==
    ASSUME ReleaseInv, NEW c \in Callers, RecordRelease(c)
    PROVE  ReleaseInv'
<1> DEFINE id == call[c].request
           rel == Len(releases) + 1
           k == [call[c] EXCEPT !.release = rel]
<1>1. TypeInv /\ CarryInv /\ LineageInv BY DEF ReleaseInv
<1>2. pc[c] = "release" /\ pc[c] # "idle" BY DEF RecordRelease
<1>3. call[c] \in Calls /\ id \in RequestIds /\ id \in Nat BY <1>1, <1>2, CallTyped
<1>4. releases \in Seq(Nat) /\ Len(releases) \in Nat
  BY <1>1, Domains DEF TypeInv, ReleasesOK
<1>5. /\ k \in Calls /\ k.request = id /\ k.approving = call[c].approving
      /\ k.release = rel
  BY <1>3, <1>4 DEF Calls
<1>6. /\ releases' = Append(releases, id)
      /\ pc' = [pc EXCEPT ![c] = "publish"]
      /\ call' = [call EXCEPT ![c] = k]
      /\ UNCHANGED <<clock, containment, dataVars, requests, pending, approvals, results>>
  BY DEF RecordRelease, Goto, NewReleaseId, approvalVars
<1> HIDE DEF k
<1>7. /\ releases' \in Seq(Nat) /\ DOMAIN releases' = DOMAIN releases \cup {rel}
      /\ releases'[rel] = id
      /\ \A i \in DOMAIN releases : releases'[i] = releases[i]
  BY <1>3, <1>4, <1>6, Appended
<1>8. /\ pc'[c] = "publish" /\ call'[c] = k /\ DOMAIN call' = Callers
      /\ \A d \in Callers \ {c} : call'[d] = call[d]
  BY <1>1, <1>6 DEF TypeInv, CallersOK
<1>9. TypeInv'
  <2>1. DataOK' /\ RequestsOK'
    BY <1>1, <1>6 DEF TypeInv, DataOK, RequestsOK, Presented, Files, CiphertextIds,
                      ResultIds, dataVars, RequestIds
  <2>2. ReleasesOK' BY <1>1, <1>3, <1>6, <1>7 DEF TypeInv, ReleasesOK, RequestIds
  <2>3. CallOK(pc[c], call[c])'
    BY <1>3, <1>5, <1>6, <1>7, <1>8 DEF CallOK, RequestIds
  <2>4. Grows BY <1>6, <1>7 DEF Grows, RequestIds
  <2>5. CallersOK' BY <1>1, <1>6, <1>8, <2>3, <2>4, CallersKept DEF TypeInv, Labels
  <2>6. QED BY <2>1, <2>2, <2>5 DEF TypeInv
<1>10. Sound(requests[id])
  BY <1>1, <1>2 DEF CarryInv, PassedVouched, PassedLabels, Vouched, Request
<1>11. CarryInv'
  <2>1. \A x \in DOMAIN releases' : Sound(requests[releases'[x]])
    BY <1>1, <1>7, <1>10 DEF CarryInv, ReleasesSound
  <2>2. QED
    BY <1>1, <1>2, <1>5, <1>6, <1>8, <2>1, CarryWalk DEF LiveLabels, PassedLabels, Labels
<1>12. PICK x : x = rel OBVIOUS
<1>13. PICK y : y = id OBVIOUS
<1>14. PICK z : z = ReleaseApproval(c) OBVIOUS
<1>15. PICK h : h = requests[id].envelope.result_ciphertext_hash OBVIOUS
<1>16. StoresGrow BY <1>6, <1>7 DEF StoresGrow, dataVars
<1>17. LineageInv'
  <2> DEFINE a == <<"DECRYPT_REQUEST", y>>
             b == <<"RELEASED_RESULT", x>>
             N == [n \in {a, b} |->
                      IF n[1] = "RELEASED_RESULT" THEN Pinned(h, {"recipient"} \cup z)
                      ELSE Bare]
             E == {<<a, b>>}
  <2>1. Record(N, E)
    BY <1>12, <1>13, <1>14, <1>15
       DEF RecordRelease, record_release, NewReleaseId, Request
  <2>2. DOMAIN N = {a, b} /\ N[b] = Pinned(h, {"recipient"} \cup z) OBVIOUS
  <2>3. N[b].ref_hash = h BY <2>2 DEF Pinned
  <2>4. \A n \in DOMAIN N : NodeFits(n, N[n])'
    <3>1. NodeFits(a, N[a])' BY DEF NodeFits
    <3>2. NodeFits(b, N[b])' BY <1>7, <1>12 DEF NodeFits
    <3>3. QED BY <2>2, <3>1, <3>2
  <2>5. x \notin DOMAIN releases BY <1>4, <1>12
  <2>6. \A i \in DOMAIN releases : <<"RELEASED_RESULT", i>> \notin DOMAIN N BY <2>2, <2>5
  <2>7. b \notin DOMAIN nodes BY <1>1, <2>5 DEF LineageInv, NodesFit, NodeFits
  <2>8. EdgeFits(a, b)' BY <1>7, <1>12, <1>13 DEF EdgeFits
  <2> HIDE DEF N, a, b
  <2>9. \A e \in E : EdgeFits(e[1], e[2])' BY <2>8
  <2>10. <<a, b>> \in E /\ a \in DOMAIN N /\ b \in DOMAIN N BY <2>2
  <2> HIDE DEF E
  <2>11. /\ NodesFit' /\ EdgesFit' /\ CiphertextsLinked' /\ ComputedLinked'
         /\ RequestsLinked'
         /\ \A i, j : Arc(i, j) => Arc(i, j)'
         /\ \A i, j \in DOMAIN N : <<i, j>> \in E => Arc(i, j)'
         /\ \A n \in DOMAIN N \ DOMAIN nodes : nodes'[n] = N[n]
         /\ \A i \in DOMAIN releases :
               nodes'[<<"RELEASED_RESULT", i>>] = nodes[<<"RELEASED_RESULT", i>>]
    BY <1>1, <1>6, <1>16, <2>1, <2>4, <2>6, <2>9, Recorded DEF dataVars
  <2>12. Arc(a, b)' /\ nodes'[b].ref_hash = h BY <2>3, <2>7, <2>10, <2>11
  <2>13. ReleasesLinked'
    <3> SUFFICES ASSUME NEW i \in DOMAIN releases'
                 PROVE  /\ Arc(<<"DECRYPT_REQUEST", releases[i]>>,
                               <<"RELEASED_RESULT", i>>)'
                        /\ nodes'[<<"RELEASED_RESULT", i>>].ref_hash =
                              requests[releases'[i]].envelope.result_ciphertext_hash
      BY <1>6 DEF ReleasesLinked
    <3>1. CASE i = rel BY <1>7, <1>12, <1>13, <1>15, <2>12, <3>1 DEF a, b
    <3>2. CASE i \in DOMAIN releases
      BY <1>1, <1>7, <2>11, <3>2 DEF LineageInv, ReleasesLinked
    <3>3. QED BY <1>7, <3>1, <3>2
  <2>14. QED BY <2>11, <2>13 DEF LineageInv
<1>18. QED BY <1>9, <1>11, <1>17 DEF ReleaseInv

\* Publication: the caller carried the request alone, nothing of it was
\* published, and it is vouched for; the caller is no longer live.
LEMMA PublishKeeps ==
    ASSUME ReleaseInv, NEW c \in Callers, Publish(c)
    PROVE  ReleaseInv'
<1> DEFINE id == call[c].request
           e == [request |-> id, release |-> call[c].release]
           new == Len(results) + 1
<1>1. TypeInv /\ CarryInv /\ LineageInv BY DEF ReleaseInv
<1>2. pc[c] = "publish" /\ pc[c] # "idle" BY DEF Publish
<1>3. call[c] \in Calls /\ id \in RequestIds /\ requests[id] \in DecryptRequests
      /\ call[c].approving \in BOOLEAN
  BY <1>1, <1>2, CallTyped
<1>4. e \in Published /\ e.request = id /\ e.release \in DOMAIN releases
      /\ releases[e.release] = id
  BY <1>1, <1>2, <1>3 DEF TypeInv, CallersOK, CallOK, Calls, Published
<1>5. PICK l \in {"idle", "unpark"} :
        /\ pc' = [pc EXCEPT ![c] = l]
        /\ \/ call' = call
           \/ l = "idle" /\ call' = [call EXCEPT ![c] = NoCall]
  BY <1>3 DEF Publish, Goto, Return
<1>6. /\ results' = Append(results, e)
      /\ UNCHANGED <<clock, containment, dataVars, requests, pending, approvals,
                     releases, lineageVars>>
  BY DEF Publish, approvalVars
<1> HIDE DEF e
<1>7. results \in Seq(Published) BY <1>1 DEF TypeInv, ReleasesOK
<1>8. /\ results' \in Seq(Published)
      /\ DOMAIN results' = DOMAIN results \cup {new} /\ new \notin DOMAIN results
      /\ results'[new] = e
      /\ \A i \in DOMAIN results : results'[i] = results[i]
  BY <1>4, <1>6, <1>7, Appended
<1>9. TypeInv'
  <2>1. DataOK' /\ RequestsOK'
    BY <1>1, <1>6 DEF TypeInv, DataOK, RequestsOK, Presented, Files, CiphertextIds,
                      ResultIds, dataVars, RequestIds
  <2>2. ReleasesOK'
    BY <1>1, <1>3, <1>4, <1>6, <1>8 DEF TypeInv, ReleasesOK, RequestIds
  <2>3. CallersOK' BY <1>1, <1>2, <1>5, <1>6, CallersWalk DEF Labels
  <2>4. QED BY <2>1, <2>2, <2>3 DEF TypeInv
<1>10. /\ pc'[c] = l
       /\ \A d \in Callers \ {c} : pc'[d] = pc[d] /\ call'[d] = call[d]
  BY <1>1, <1>5 DEF TypeInv, CallersOK
<1>11. ASSUME NEW d \in Callers, pc'[d] \in LiveLabels
       PROVE  d # c /\ pc[d] \in LiveLabels /\ call'[d] = call[d]
              /\ call[d].request # id
  <2>1. d # c BY <1>10, <1>11 DEF LiveLabels
  <2>2. pc[d] \in LiveLabels /\ call'[d] = call[d] BY <1>10, <1>11, <2>1
  <2>3. QED BY <1>1, <1>2, <2>1, <2>2 DEF CarryInv, OneCarrier, LiveLabels
<1>12. approvals[id].state = IF call[c].approving THEN "GRANTED" ELSE "NONE"
  BY <1>1, <1>2 DEF CarryInv, Agreement, LiveLabels
<1>13. \A i \in DOMAIN results : results[i].request # id
  BY <1>1, <1>2 DEF CarryInv, Unpublished, LiveLabels
<1>14. CarryInv'
  <2>1. OneCarrier' BY <1>1, <1>11 DEF CarryInv, OneCarrier
  <2>2. Agreement' BY <1>1, <1>6, <1>11 DEF CarryInv, Agreement
  <2>3. Unpublished' BY <1>1, <1>4, <1>8, <1>11 DEF CarryInv, Unpublished
  <2>4. Settled' BY <1>1, <1>4, <1>6, <1>8, <1>12 DEF CarryInv, Settled
  <2>5. PassedVouched'
    <3> SUFFICES ASSUME NEW d \in Callers, pc'[d] \in PassedLabels
                 PROVE  Vouched(Request(d), call[d].approving)'
      BY DEF PassedVouched
    <3>1. d # c BY <1>10 DEF PassedLabels
    <3>2. Request(d)' = Request(d) /\ call'[d] = call[d] /\ pc[d] \in PassedLabels
      BY <1>6, <1>10, <3>1 DEF Request
    <3>3. QED BY <1>1, <3>2 DEF CarryInv, PassedVouched, Vouched, Sound
  <2>6. ReleasedOnce' BY <1>1, <1>4, <1>8, <1>13 DEF CarryInv, ReleasedOnce
  <2>7. HumanApproved'
    <3>1. Vouched(requests[id], call[c].approving)
      BY <1>1, <1>2 DEF CarryInv, PassedVouched, PassedLabels, Request
    <3>2. approvals[id].state # "NONE" =>
            approvals[id].action_hash = requests[id].envelope.result_ciphertext_hash
      BY <1>1, <1>3 DEF CarryInv, ApprovalsBound
    <3>3. ApprovalRequired(requests[id].envelope.classification) =>
            \/ requests[id].approval_granted
            \/ /\ approvals[id].state = "GRANTED"
               /\ approvals[id].action_hash = Hash("FHE_RESULT", requests[id].path)
      BY <1>12, <3>1, <3>2 DEF Vouched, Sound
    <3>4. QED BY <1>1, <1>4, <1>6, <1>8, <3>3 DEF CarryInv, HumanApproved
  <2>8. ApprovalsBound' /\ ReleasesSound'
    BY <1>1, <1>6 DEF CarryInv, ApprovalsBound, RequestIds, ReleasesSound, Sound
  <2>9. QED BY <2>1, <2>2, <2>3, <2>4, <2>5, <2>6, <2>7, <2>8 DEF CarryInv
<1>15. LineageInv' BY <1>1, <1>6, LineageSame
<1>16. QED BY <1>9, <1>14, <1>15 DEF ReleaseInv

-----------------------------------------------------------------------------
(***************************************************************************)
(* The theorems.                                                           *)
(***************************************************************************)

\* The invariant holds initially.
LEMMA InitEstablishes == ReleaseInit => ReleaseInv
<1> SUFFICES ASSUME ReleaseInit PROVE ReleaseInv OBVIOUS
<1> USE DEF ReleaseInit, LineageInit
<1>1. TypeInv
  BY ReleaseAssumption
     DEF TypeInv, DataOK, RequestsOK, ReleasesOK, CallersOK, CallOK, RequestIds,
         States, Labels
<1>2. CarryInv
  BY DEF CarryInv, OneCarrier, Agreement, Unpublished, Settled, PassedVouched,
         ApprovalsBound, ReleasesSound, RequestIds, ReleasedOnce, HumanApproved,
         LiveLabels, PassedLabels
<1>3. LineageInv
  BY DEF LineageInv, CiphertextsLinked, ComputedLinked, RequestsLinked, ReleasesLinked,
         NodesFit, EdgesFit
<1>4. QED BY <1>1, <1>2, <1>3 DEF ReleaseInv

\* The query of a request, with the caller's timestamp.
LEMMA QueryTyped ==
    ASSUME TypeInv, NEW id \in DOMAIN requests, NEW q, q = requests[id].query
    PROVE  /\ q.scope \in Scopes /\ q.timestamp \in Nat
           /\ q.subset_ids \in {x.subset_ids : x \in Queries}
<1>1. requests[id] \in DecryptRequests BY DEF TypeInv, RequestsOK
<1>2. q \in Stamped BY <1>1 DEF DecryptRequests
<1>3. PICK x \in Queries, t \in Timestamps : q = Stamp(x, t) BY <1>2 DEF Stamped
<1>4. q.scope = x.scope /\ q.timestamp = t /\ q.subset_ids = x.subset_ids
  BY <1>3 DEF Stamp
<1>5. QED BY <1>4, ReleaseAssumption

\* Accounted releases are never taken back.
HistoryGrows ==
    \A s \in Scopes :
        /\ Len(history[s]) <= Len(history'[s])
        /\ \A k \in DOMAIN history[s] :
              k \in DOMAIN history'[s] /\ history'[s][k] = history[s][k]

\* Only RecordQuery touches the history.
LEMMA OnlyRecords ==
    ASSUME [ReleaseNext]_releaseAllVars
    PROVE  UNCHANGED history \/ \E c \in Callers : RecordQuery(c)
<1>1. CASE Data BY <1>1 DEF Data, Encrypt, Compute
<1>2. ASSUME NEW c \in Callers, Arrive(c) PROVE UNCHANGED history
  BY <1>2 DEF Arrive, DecryptRequest, ApproveDecrypt
<1>3. ASSUME NEW c \in Callers, CallerStep(c) PROVE UNCHANGED history \/ RecordQuery(c)
  BY <1>3 DEF CallerStep, Govern, GatePasses, GateParks, GateRefuses, Park, Grant,
              Decrypt, DecryptFails, Account, RecordRelease, Publish, Unpark
<1>4. CASE Tick \/ \E s \in Containments : Contain(s) BY <1>4 DEF Tick, Contain
<1>5. CASE ReleaseIdle \/ UNCHANGED releaseAllVars
  BY <1>5 DEF ReleaseIdle, releaseAllVars
<1>6. QED BY <1>1, <1>2, <1>3, <1>4, <1>5 DEF ReleaseNext

\* What RecordQuery appends, and to which scope.
LEMMA RecordAppends ==
    ASSUME TypeInv, HistoryOK, NEW c \in Callers, RecordQuery(c),
           NEW q, q = Request(c).query
    PROVE  /\ HistoryOK' /\ HistoryGrows
           /\ q.scope \in Scopes /\ q.timestamp \in Nat
           /\ \A s \in Scopes \ {q.scope} : history'[s] = history[s]
           /\ Len(history[q.scope]) \in Nat
           /\ DOMAIN history[q.scope] = 1..Len(history[q.scope])
           /\ DOMAIN history'[q.scope] = 1..(Len(history[q.scope]) + 1)
           /\ history'[q.scope][Len(history[q.scope]) + 1].timestamp = q.timestamp
           /\ \A k \in DOMAIN history[q.scope] : history'[q.scope][k] = history[q.scope][k]
<1> DEFINE e == [timestamp |-> q.timestamp, subset_ids |-> q.subset_ids]
<1>1. pc[c] = "record" /\ pc[c] # "idle" BY DEF RecordQuery
<1>2. call[c].request \in DOMAIN requests BY <1>1, CallTyped, Domains DEF RequestIds
<1>3. /\ q.scope \in Scopes /\ q.timestamp \in Nat
      /\ q.subset_ids \in {x.subset_ids : x \in Queries}
  BY <1>2, QueryTyped DEF Request
<1>4. e \in Accounted /\ e.timestamp = q.timestamp BY <1>3 DEF Accounted
<1>5. history' = [history EXCEPT ![q.scope] = Append(history[q.scope], e)]
  BY DEF RecordQuery
<1> HIDE DEF e
<1>6. history[q.scope] \in Seq(Accounted) BY <1>3 DEF HistoryOK
<1>7. history'[q.scope] = Append(history[q.scope], e)
      /\ \A s \in Scopes \ {q.scope} : history'[s] = history[s]
  BY <1>3, <1>5 DEF HistoryOK
<1>8. PICK h : h = history[q.scope] OBVIOUS
<1>9. PICK t : t = history'[q.scope] OBVIOUS
<1>10. /\ t \in Seq(Accounted) /\ Len(h) \in Nat /\ Len(t) = Len(h) + 1
       /\ DOMAIN h = 1..Len(h) /\ DOMAIN t = 1..(Len(h) + 1)
       /\ DOMAIN h \subseteq DOMAIN t
       /\ t[Len(h) + 1] = e
       /\ \A i \in DOMAIN h : t[i] = h[i]
  BY <1>4, <1>6, <1>7, <1>8, <1>9, Appended
<1>11. HistoryOK'
  <2>1. Append(history[q.scope], e) \in Seq(Accounted) BY <1>7, <1>9, <1>10
  <2>2. QED BY <1>3, <1>5, <2>1 DEF HistoryOK
<1>12. HistoryGrows
  <2> SUFFICES ASSUME NEW s \in Scopes
               PROVE  /\ Len(history[s]) <= Len(history'[s])
                      /\ \A k \in DOMAIN history[s] :
                            k \in DOMAIN history'[s] /\ history'[s][k] = history[s][k]
    BY DEF HistoryGrows
  <2>1. CASE s = q.scope BY <1>8, <1>9, <1>10, <2>1
  <2>2. CASE s # q.scope
    <3>1. history[s] \in Seq(Accounted) BY DEF HistoryOK
    <3>2. Len(history[s]) \in Nat BY <3>1
    <3>3. history'[s] = history[s] BY <1>7, <2>2
    <3>4. QED BY <3>2, <3>3
  <2>3. QED BY <2>1, <2>2
<1>13. QED BY <1>3, <1>4, <1>7, <1>8, <1>9, <1>10, <1>11, <1>12

\* The history keeps its type and only grows.
LEMMA HistoryKeeps ==
    ASSUME TypeInv, HistoryOK, [ReleaseNext]_releaseAllVars
    PROVE  HistoryOK' /\ HistoryGrows
<1>1. CASE UNCHANGED history
  <2>1. \A s \in Scopes : Len(history[s]) \in Nat BY DEF HistoryOK
  <2>2. QED BY <1>1, <2>1 DEF HistoryOK, HistoryGrows
<1>2. ASSUME NEW c \in Callers, RecordQuery(c) PROVE HistoryOK' /\ HistoryGrows
  <2>1. PICK q : q = Request(c).query OBVIOUS
  <2>2. QED BY <1>2, <2>1, RecordAppends
<1>3. QED BY <1>1, <1>2, OnlyRecords

\* Every step preserves the invariant.
LEMMA NextPreserves ==
    ReleaseInv /\ HistoryOK /\ [ReleaseNext]_releaseAllVars => ReleaseInv' /\ HistoryOK'
<1> SUFFICES ASSUME ReleaseInv, HistoryOK, [ReleaseNext]_releaseAllVars
             PROVE  ReleaseInv'
  BY HistoryKeeps DEF ReleaseInv
<1>1. clock \in 0..MaxTime /\ containment \in States /\ MaxTime \in Nat
  BY ReleaseAssumption DEF ReleaseInv, TypeInv, RequestsOK
<1>2. CASE Data BY <1>2, EncryptKeeps, ComputeKeeps DEF Data
<1>3. ASSUME NEW c \in Callers, Arrive(c) PROVE ReleaseInv'
  <2>1. CASE \E f \in Files, e \in Envelopes, g \in Grants, q \in Queries,
               t \in Timestamps, a \in Assertions : DecryptRequest(c, f, e, g, q, t, a)
    <3>1. PICK f \in Files, e \in Envelopes, g \in Grants, q \in Queries,
               t \in Timestamps, a \in Assertions : DecryptRequest(c, f, e, g, q, t, a)
      BY <2>1
    <3>2. QED BY <3>1, RequestKeeps
  <2>2. CASE \E id \in pending : ApproveDecrypt(c, id) BY <2>2, ApproveKeeps
  <2>3. QED BY <1>3, <2>1, <2>2 DEF Arrive
<1>4. ASSUME NEW c \in Callers, CallerStep(c) PROVE ReleaseInv'
  BY <1>4, WalkingSteps, ParksKeeps, GrantKeeps, AccountKeeps, RecordReleaseKeeps,
     PublishKeeps DEF CallerStep
<1>5. CASE Tick
  <2>1. clock' \in 0..MaxTime /\ containment' \in States BY <1>1, <1>5 DEF Tick
  <2>2. QED BY <1>5, <2>1, EnvironmentKeeps DEF Tick
<1>6. ASSUME NEW s \in Containments, Contain(s) PROVE ReleaseInv'
  <2>1. clock' \in 0..MaxTime /\ containment' \in States
    BY <1>1, <1>6, ReleaseAssumption DEF Contain
  <2>2. QED BY <1>6, <2>1, EnvironmentKeeps DEF Contain
<1>7. CASE UNCHANGED releaseAllVars
  BY <1>1, <1>7, EnvironmentKeeps DEF releaseAllVars
<1>8. CASE ReleaseIdle BY <1>7, <1>8 DEF ReleaseIdle
<1>9. QED BY <1>2, <1>3, <1>4, <1>5, <1>6, <1>7, <1>8 DEF ReleaseNext

\* The inductive invariant holds in every reachable state.
THEOREM ReleaseInvariant == ReleaseSpec => [](ReleaseInv /\ HistoryOK)
<1>1. ReleaseInit => HistoryOK BY DEF ReleaseInit, HistoryOK
<1>2. QED BY <1>1, InitEstablishes, NextPreserves, PTL DEF ReleaseSpec

\* Type correctness.
THEOREM ReleaseTypeCorrect == ReleaseSpec => []ReleaseTypeOK
<1>1. ReleaseInv => ReleaseTypeOK
  <2> SUFFICES ASSUME ReleaseInv PROVE ReleaseTypeOK OBVIOUS
  <2>1. TypeInv BY DEF ReleaseInv
  <2>2. ASSUME NEW id \in RequestIds
        PROVE  /\ requests[id].path \in Files
               /\ requests[id].envelope \in Envelopes
               /\ approvals[id].state \in {"NONE", "PENDING", "GRANTED"}
    <3>1. id \in DOMAIN requests /\ id \in DOMAIN approvals
      BY <2>1, <2>2, Domains DEF RequestIds
    <3>2. approvals[id] \in Approvals BY <2>1, <3>1 DEF TypeInv, RequestsOK
    <3>3. Presented(requests[id]) /\ requests[id] \in DecryptRequests
      BY <2>1, <3>1 DEF TypeInv, RequestsOK
    <3>4. PICK v : v = requests[id].envelope OBVIOUS
    <3>5. v \in ResultEnvelopes BY <3>3, <3>4 DEF DecryptRequests
    <3>6. /\ v.classification \in Classifications
          /\ v = [ciphertext_id |-> v.ciphertext_id, classification |-> v.classification,
                  result_ciphertext_hash |-> v.result_ciphertext_hash]
      BY <3>5 DEF ResultEnvelopes
    <3>7. /\ v.ciphertext_id \in ResultIds
          /\ v.result_ciphertext_hash \in {Hash("FHE_RESULT", f) : f \in Files}
      BY <3>3, <3>4 DEF Presented
    <3>8. v \in Envelopes BY <3>6, <3>7 DEF Envelopes
    <3>9. QED BY <3>2, <3>3, <3>4, <3>8 DEF Presented, Approvals, ApprovalStates
  <2>3. ASSUME NEW c \in Callers, pc[c] # "idle"
        PROVE  /\ call[c].request \in RequestIds
               /\ call[c].decision \in Decisions
               /\ pc[c] = "publish" => releases[call[c].release] = call[c].request
    BY <2>1, <2>3 DEF TypeInv, CallersOK, CallOK, Calls
  <2>4. QED BY <2>1, <2>2, <2>3, Domains DEF ReleaseTypeOK, TypeInv, RequestsOK, RequestIds
<1>2. QED BY <1>1, ReleaseInvariant, PTL

\* However many approvers act on a parked request, it is published at most once.
THEOREM ReleasedOnceHolds == ReleaseSpec => []ReleasedOnce
<1>1. ReleaseInv => ReleasedOnce BY DEF ReleaseInv, CarryInv
<1>2. QED BY <1>1, ReleaseInvariant, PTL

\* A value labelled confidential or secret leaves only under a grant of its own
\* request that names the decrypted file, or when its requester vouched for one.
THEOREM HumanApprovedHolds == ReleaseSpec => []HumanApproved
<1>1. ReleaseInv => HumanApproved BY DEF ReleaseInv, CarryInv
<1>2. QED BY <1>1, ReleaseInvariant, PTL

-----------------------------------------------------------------------------
(***************************************************************************)
(* The trace of a release, exactly: one round reaches the parents of what  *)
(* the round before has added.                                             *)
(***************************************************************************)

LEMMA NextRound ==
    ASSUME NEW Q, NEW R, NEW T, Parents(Q) \subseteq Q \cup R, T = Parents(R)
    PROVE  /\ Upward(Q \cup R) = (Q \cup R) \cup T
           /\ Parents(Q \cup R) \subseteq (Q \cup R) \cup T
<1>1. Parents(Q \cup R) = Parents(Q) \cup Parents(R) BY DEF Parents
<1>2. QED BY <1>1 DEF Upward

\* A node's parents, when it has one arc and every arc into it is that one.
LEMMA OneParent ==
    ASSUME NEW a, NEW b, Arc(a, b), \A e \in edges : e[2] = b => e[1] = a
    PROVE  Parents({b}) = {a}
<1>1. <<a, b>> \in edges /\ <<a, b>>[1] = a /\ <<a, b>>[2] = b BY DEF Arc
<1>2. a \in Parents({b}) BY <1>1 DEF Parents
<1>3. QED BY <1>2 DEF Parents

\* The program of a result the service computed, or nothing.
ProgramOf(y) ==
    IF y \in DOMAIN computed THEN {<<"PROGRAM", computed[y].program>>} ELSE {}

Siblings(y) == {r \in DOMAIN computed : computed[r].program = computed[y].program}

\* The parents of a result's program are those of all its results.
LEMMA ProgramParents ==
    ASSUME LineageInv, NEW y \in DOMAIN computed
    PROVE  /\ Parents({<<"PROGRAM", computed[y].program>>}) =
                 {<<"CIPHERTEXT", computed[r].parent>> : r \in Siblings(y)}
           /\ \A r \in Siblings(y) : <<"CIPHERTEXT", computed[r].parent>> \in DOMAIN nodes
<1>1. PICK b : b = <<"PROGRAM", computed[y].program>> OBVIOUS
<1>2. ASSUME NEW r \in Siblings(y)
      PROVE  /\ <<"CIPHERTEXT", computed[r].parent>> \in Parents({b})
             /\ <<"CIPHERTEXT", computed[r].parent>> \in DOMAIN nodes
  <2>1. PICK a : a = <<"CIPHERTEXT", computed[r].parent>> OBVIOUS
  <2>2. Arc(a, b) BY <1>1, <2>1 DEF Siblings, LineageInv, ComputedLinked
  <2>3. <<a, b>> \in edges /\ <<a, b>>[1] = a /\ <<a, b>>[2] = b /\ a \in DOMAIN nodes
    BY <2>2 DEF Arc
  <2>4. QED BY <2>1, <2>3 DEF Parents
<1>3. ASSUME NEW e \in edges, e[2] = b
      PROVE  \E r \in Siblings(y) : e[1] = <<"CIPHERTEXT", computed[r].parent>>
  <2>1. EdgeFits(e[1], b) BY <1>3 DEF LineageInv, EdgesFit
  <2>2. b[1] = "PROGRAM" /\ b[2] = computed[y].program BY <1>1
  <2>3. QED BY <2>1, <2>2 DEF EdgeFits, Siblings
<1>4. QED BY <1>1, <1>2, <1>3 DEF Parents

\* The parents of a set of ciphertext nodes: the datasets of those encrypted here.
LEMMA CiphertextParents ==
    ASSUME LineageInv, NEW P
    PROVE  /\ Parents({<<"CIPHERTEXT", p>> : p \in P}) =
                 {<<"DATASET", ciphertexts[p]>> : p \in P \cap DOMAIN ciphertexts}
           /\ \A p \in P \cap DOMAIN ciphertexts :
                 <<"DATASET", ciphertexts[p]>> \in DOMAIN nodes
<1>1. ASSUME NEW p \in P \cap DOMAIN ciphertexts
      PROVE  /\ <<"DATASET", ciphertexts[p]>> \in Parents({<<"CIPHERTEXT", x>> : x \in P})
             /\ <<"DATASET", ciphertexts[p]>> \in DOMAIN nodes
  <2>1. PICK a : a = <<"DATASET", ciphertexts[p]>> OBVIOUS
  <2>2. PICK b : b = <<"CIPHERTEXT", p>> OBVIOUS
  <2>3. Arc(a, b) BY <2>1, <2>2 DEF LineageInv, CiphertextsLinked
  <2>4. <<a, b>> \in edges /\ <<a, b>>[1] = a /\ <<a, b>>[2] = b /\ a \in DOMAIN nodes
    BY <2>3 DEF Arc
  <2>5. b \in {<<"CIPHERTEXT", x>> : x \in P} BY <2>2
  <2>6. QED BY <2>1, <2>4, <2>5 DEF Parents
<1>2. ASSUME NEW e \in edges, NEW p \in P, e[2] = <<"CIPHERTEXT", p>>
      PROVE  p \in DOMAIN ciphertexts /\ e[1] = <<"DATASET", ciphertexts[p]>>
  <2>1. PICK b : b = <<"CIPHERTEXT", p>> OBVIOUS
  <2>2. EdgeFits(e[1], b) BY <1>2, <2>1 DEF LineageInv, EdgesFit
  <2>3. b[1] = "CIPHERTEXT" /\ b[2] = p BY <2>1
  <2>4. QED BY <2>2, <2>3 DEF EdgeFits
<1>3. QED BY <1>1, <1>2 DEF Parents

\* What two and three rounds above a result find is its provenance.
LEMMA ProvenanceIs ==
    ASSUME LineageInv, NEW y, NEW T3, NEW T4, NEW T5,
           T3 = ProgramOf(y), T4 = Parents(T3), T5 = Parents(T4)
    PROVE  T3 \cup T4 \cup T5 = Provenance(y) /\ T4 \cup T5 \subseteq DOMAIN nodes
<1>1. CASE y \notin DOMAIN computed
  <2>1. T3 = {} BY <1>1 DEF ProgramOf
  <2>2. T4 = {} BY <2>1 DEF Parents
  <2>3. T5 = {} BY <2>2 DEF Parents
  <2>4. Provenance(y) = {} BY <1>1 DEF Provenance
  <2>5. QED BY <2>1, <2>2, <2>3, <2>4
<1>2. CASE y \in DOMAIN computed
  <2> DEFINE P == {computed[r].parent : r \in Siblings(y)}
  <2>1. T3 = {<<"PROGRAM", computed[y].program>>} BY <1>2 DEF ProgramOf
  <2>2. /\ T4 = {<<"CIPHERTEXT", computed[r].parent>> : r \in Siblings(y)}
        /\ T4 \subseteq DOMAIN nodes
    BY <1>2, <2>1, ProgramParents
  <2>3. T4 = {<<"CIPHERTEXT", p>> : p \in P} BY <2>2
  <2>4. Provenance(y) =
          {<<"PROGRAM", computed[y].program>>}
            \cup {<<"CIPHERTEXT", p>> : p \in P}
            \cup {<<"DATASET", ciphertexts[p]>> : p \in P \cap DOMAIN ciphertexts}
    BY <1>2 DEF Provenance, Siblings
  <2> HIDE DEF P
  <2>5. /\ T5 = {<<"DATASET", ciphertexts[p]>> : p \in P \cap DOMAIN ciphertexts}
        /\ T5 \subseteq DOMAIN nodes
    BY <2>3, CiphertextParents
  <2>6. QED BY <2>1, <2>2, <2>3, <2>4, <2>5
<1>3. QED BY <1>1, <1>2

\* A published result leads back to exactly what the service knows of it, and
\* its hash tells whether the result it is filed under is what was decrypted.
THEOREM TraceableHolds == ReleaseSpec => []Traceable
<1>1. ReleaseInv => Traceable
  <2> SUFFICES ASSUME ReleaseInv, NEW i \in DOMAIN results
               PROVE  LET id == results[i].request
                          released == <<"RELEASED_RESULT", results[i].release>>
                          named == requests[id].envelope.ciphertext_id
                      IN  /\ trace(released) =
                                {released, <<"DECRYPT_REQUEST", id>>, <<"RESULT", named>>}
                                    \cup Provenance(named)
                          /\ nodes[released].ref_hash = Hash("FHE_RESULT", requests[id].path)
                          /\ nodes[released].ref_hash = nodes[<<"RESULT", named>>].ref_hash
                                <=> requests[id].path = <<"RESULT", named>>
    BY DEF Traceable
  <2>1. PICK id, rel : id = results[i].request /\ rel = results[i].release OBVIOUS
  <2>2. PICK y : y = requests[id].envelope.ciphertext_id OBVIOUS
  <2>3. TypeInv /\ CarryInv /\ LineageInv BY DEF ReleaseInv
  <2>4. rel \in DOMAIN releases /\ releases[rel] = id /\ id \in RequestIds
    BY <2>1, <2>3 DEF TypeInv, ReleasesOK
  <2>5. id \in DOMAIN requests BY <2>3, <2>4, Domains DEF RequestIds
  <2>6. PICK n1, n2, n3 : /\ n1 = <<"RELEASED_RESULT", rel>>
                          /\ n2 = <<"DECRYPT_REQUEST", id>>
                          /\ n3 = <<"RESULT", y>>
    OBVIOUS
  <2>7. Arc(n2, n1) BY <2>3, <2>4, <2>6 DEF LineageInv, ReleasesLinked
  <2>8. Arc(n3, n2) BY <2>2, <2>3, <2>5, <2>6 DEF LineageInv, RequestsLinked
  <2>9. Parents({n1}) = {n2}
    <3>1. ASSUME NEW e \in edges, e[2] = n1 PROVE e[1] = n2
      <4>1. EdgeFits(e[1], n1) BY <2>3, <3>1 DEF LineageInv, EdgesFit
      <4>2. n1[1] = "RELEASED_RESULT" /\ n1[2] = rel BY <2>6
      <4>3. QED BY <2>4, <2>6, <4>1, <4>2 DEF EdgeFits
    <3>2. QED BY <2>7, <3>1, OneParent
  <2>10. Parents({n2}) = {n3}
    <3>1. ASSUME NEW e \in edges, e[2] = n2 PROVE e[1] = n3
      <4>1. EdgeFits(e[1], n2) BY <2>3, <3>1 DEF LineageInv, EdgesFit
      <4>2. n2[1] = "DECRYPT_REQUEST" /\ n2[2] = id BY <2>6
      <4>3. QED BY <2>2, <2>6, <4>1, <4>2 DEF EdgeFits
    <3>2. QED BY <2>8, <3>1, OneParent
  <2>11. Parents({n3}) = ProgramOf(y) /\ ProgramOf(y) \subseteq DOMAIN nodes
    <3>1. ASSUME NEW e \in edges, e[2] = n3
          PROVE  y \in DOMAIN computed /\ e[1] = <<"PROGRAM", computed[y].program>>
      <4>1. EdgeFits(e[1], n3) BY <2>3, <3>1 DEF LineageInv, EdgesFit
      <4>2. n3[1] = "RESULT" /\ n3[2] = y BY <2>6
      <4>3. QED BY <4>1, <4>2 DEF EdgeFits
    <3>2. CASE y \notin DOMAIN computed BY <3>1, <3>2 DEF Parents, ProgramOf
    <3>3. CASE y \in DOMAIN computed
      <4>1. PICK a : a = <<"PROGRAM", computed[y].program>> OBVIOUS
      <4>2. Arc(a, n3) BY <2>3, <2>6, <3>3, <4>1 DEF LineageInv, ComputedLinked
      <4>3. Parents({n3}) = {a} BY <3>1, <4>1, <4>2, OneParent
      <4>4. QED BY <3>3, <4>1, <4>2, <4>3 DEF ProgramOf, Arc
    <3>4. QED BY <3>2, <3>3
  <2>12. PICK T3, T4, T5 : T3 = ProgramOf(y) /\ T4 = Parents(T3) /\ T5 = Parents(T4)
    OBVIOUS
  <2>13. T3 \cup T4 \cup T5 = Provenance(y) /\ T4 \cup T5 \subseteq DOMAIN nodes
    BY <2>3, <2>12, ProvenanceIs
  <2> DEFINE Q1 == {n1} \cup {n2}
             Q2 == Q1 \cup {n3}
             Q3 == Q2 \cup T3
             Q4 == Q3 \cup T4
             Q5 == Q4 \cup T5
  <2>14. Upward({n1}) = Q1 /\ Parents({n1}) \subseteq Q1 BY <2>9 DEF Upward
  <2>15. Upward(Q1) = Q2 /\ Parents(Q1) \subseteq Q2
    BY <2>10, <2>14, NextRound
  <2> HIDE DEF Q1
  <2>16. Upward(Q2) = Q3 /\ Parents(Q2) \subseteq Q3
    BY <2>11, <2>12, <2>15, NextRound
  <2> HIDE DEF Q2
  <2>17. Upward(Q3) = Q4 /\ Parents(Q3) \subseteq Q4
    BY <2>12, <2>16, NextRound
  <2> HIDE DEF Q3
  <2>18. Upward(Q4) = Q5 BY <2>12, <2>17, NextRound
  <2> HIDE DEF Q4
  <2>19. trace(n1) = Q5 \cap DOMAIN nodes BY <2>14, <2>15, <2>16, <2>17, <2>18 DEF trace
  <2>20. Q5 = {n1, n2, n3} \cup Provenance(y) BY <2>13 DEF Q1, Q2, Q3, Q4
  <2>21. {n1, n2, n3} \subseteq DOMAIN nodes BY <2>7, <2>8 DEF Arc
  <2>22. Provenance(y) \subseteq DOMAIN nodes BY <2>11, <2>12, <2>13
  <2>23. trace(n1) = {n1, n2, n3} \cup Provenance(y)
    BY <2>19, <2>20, <2>21, <2>22
  <2>24. PICK f : f = requests[id].path OBVIOUS
  <2>25. nodes[n1].ref_hash = Hash("FHE_RESULT", f)
    <3>1. nodes[n1].ref_hash = requests[id].envelope.result_ciphertext_hash
      BY <2>3, <2>4, <2>6 DEF LineageInv, ReleasesLinked
    <3>2. Sound(requests[id]) BY <2>3, <2>4 DEF CarryInv, ReleasesSound
    <3>3. QED BY <2>24, <3>1, <3>2 DEF Sound
  <2>26. Hash("FHE_RESULT", f) = nodes[n3].ref_hash <=> f = n3
    <3>1. \/ nodes[n3].ref_hash = NoHash
          \/ nodes[n3].ref_hash = Hash("FHE_RESULT", n3)
      <4>1. NodeFits(n3, nodes[n3]) BY <2>3, <2>21 DEF LineageInv, NodesFit
      <4>2. n3[1] = "RESULT" BY <2>6
      <4>3. QED BY <4>1, <4>2 DEF NodeFits
    <3>2. Hash("FHE_RESULT", f) # NoHash BY DEF Hash, NoHash
    <3>3. Hash("FHE_RESULT", f) = Hash("FHE_RESULT", n3) <=> f = n3 BY DEF Hash
    <3>4. ASSUME f = n3 PROVE nodes[n3].ref_hash # NoHash
      <4>1. f \in Files
        BY <2>3, <2>5, <2>24 DEF TypeInv, RequestsOK, Presented
      <4>2. y \in DOMAIN computed BY <2>6, <3>4, <4>1 DEF Files
      <4>3. HashPinned(n3) BY <2>3, <2>6, <4>2 DEF LineageInv, ComputedLinked
      <4>4. QED BY <4>3 DEF HashPinned, HasHash
    <3>5. QED BY <3>1, <3>2, <3>3, <3>4
  <2>27. QED BY <2>1, <2>2, <2>6, <2>23, <2>24, <2>25, <2>26
<1>2. QED BY <1>1, ReleaseInvariant, PTL

-----------------------------------------------------------------------------
(***************************************************************************)
(* The release budget.  A call between its two locked regions has been     *)
(* allowed and is not yet in the history; counted together, the accounted  *)
(* releases of a window and the calls about to add to it exceed the limit  *)
(* by less than the number of callers, because whoever is allowed has seen *)
(* fewer than the limit in the history.                                    *)
(***************************************************************************)

Within(q, x) == x <= q.timestamp /\ q.timestamp <= x + Policy.window_seconds

Between(s, x) ==
    {c \in Callers :
        pc[c] = "record" /\ Request(c).query.scope = s /\ Within(Request(c).query, x)}

Bounded(s, x) ==
    Cardinality(AccountedIn(s, x)) + Cardinality(Between(s, x))
        <= Policy.max_decrypts_per_window + Cardinality(Callers) - 1

BudgetInv ==
    Policy.max_decrypts_per_window # Unset => \A s \in Scopes, x \in Nat : Bounded(s, x)

\* The counts are natural numbers.
LEMMA CountsFinite ==
    ASSUME HistoryOK, NEW s \in Scopes, NEW x \in Nat
    PROVE  /\ IsFiniteSet(AccountedIn(s, x)) /\ IsFiniteSet(Between(s, x))
           /\ Cardinality(AccountedIn(s, x)) \in Nat
           /\ Cardinality(Between(s, x)) \in Nat
           /\ Cardinality(Between(s, x)) <= Cardinality(Callers)
           /\ Cardinality(Callers) \in Nat /\ Cardinality(Callers) >= 1
<1>1. history[s] \in Seq(Accounted) BY DEF HistoryOK
<1>2. Len(history[s]) \in Nat /\ DOMAIN history[s] = 1..Len(history[s]) BY <1>1
<1>3. IsFiniteSet(1..Len(history[s])) BY <1>2, FS_Interval
<1>4. AccountedIn(s, x) \subseteq 1..Len(history[s]) BY <1>2 DEF AccountedIn
<1>5. IsFiniteSet(AccountedIn(s, x)) BY <1>3, <1>4, FS_Subset
<1>6. IsFiniteSet(Callers) /\ Callers # {} BY ReleaseAssumption
<1>7. Between(s, x) \subseteq Callers BY DEF Between
<1>8. IsFiniteSet(Between(s, x)) /\ Cardinality(Between(s, x)) <= Cardinality(Callers)
  BY <1>6, <1>7, FS_Subset
<1>9. Cardinality(Callers) \in Nat /\ Cardinality(Callers) # 0
  BY <1>6, FS_CardinalityType, FS_EmptySet
<1>10. Cardinality(AccountedIn(s, x)) \in Nat /\ Cardinality(Between(s, x)) \in Nat
  BY <1>5, <1>8, FS_CardinalityType
<1>11. QED BY <1>5, <1>8, <1>9, <1>10

\* A window that gains no release and no call about to add one stays bounded.
LEMMA WindowKeeps ==
    ASSUME HistoryOK, HistoryOK', NEW s \in Scopes, NEW x \in Nat,
           Policy.max_decrypts_per_window \in Nat, Bounded(s, x),
           AccountedIn(s, x)' = AccountedIn(s, x), Between(s, x)' \subseteq Between(s, x)
    PROVE  Bounded(s, x)'
<1>1. IsFiniteSet(Between(s, x)) /\ Cardinality(Between(s, x)) \in Nat
      /\ Cardinality(AccountedIn(s, x)) \in Nat /\ Cardinality(Callers) \in Nat
  BY CountsFinite
<1>2. PICK B : B = Between(s, x)' OBVIOUS
<1>3. Cardinality(B) <= Cardinality(Between(s, x)) /\ IsFiniteSet(B)
  BY <1>1, <1>2, FS_Subset
<1>4. Cardinality(B) \in Nat BY <1>3, FS_CardinalityType
<1>5. QED BY <1>1, <1>2, <1>3, <1>4 DEF Bounded

\* The limit is a number when it is set.
LEMMA LimitTyped ==
    ASSUME Policy.max_decrypts_per_window # Unset
    PROVE  Policy.max_decrypts_per_window \in Nat
BY PolicyAssumption DEF QueryGovernancePolicies

LEMMA WindowTyped == Policy.window_seconds \in Nat
BY PolicyAssumption DEF QueryGovernancePolicies

\* Nobody enters the second region, and the history stands.
LEMMA QuietBudget ==
    ASSUME HistoryOK, BudgetInv, history' = history,
           \A d \in Callers :
               pc'[d] = "record" => pc[d] = "record" /\ Request(d)' = Request(d)
    PROVE  BudgetInv'
<1> SUFFICES ASSUME Policy.max_decrypts_per_window # Unset, NEW s \in Scopes, NEW x \in Nat
             PROVE  Bounded(s, x)'
  BY DEF BudgetInv
<1>1. HistoryOK' BY DEF HistoryOK
<1>2. Bounded(s, x) BY DEF BudgetInv
<1>3. AccountedIn(s, x)' = AccountedIn(s, x) BY DEF AccountedIn
<1>4. Between(s, x)' \subseteq Between(s, x)
  <2> SUFFICES ASSUME NEW d \in Between(s, x)' PROVE d \in Between(s, x) OBVIOUS
  <2>1. /\ d \in Callers /\ pc'[d] = "record" /\ (Request(d).query.scope = s)'
        /\ Within(Request(d).query, x)'
    BY DEF Between
  <2>2. pc[d] = "record" /\ Request(d)' = Request(d) BY <2>1
  <2>3. QED BY <2>1, <2>2 DEF Between, Within
<1>5. QED BY <1>1, <1>2, <1>3, <1>4, LimitTyped, WindowKeeps

\* The governor's first region: a call that is allowed has seen fewer releases
\* than the limit in every window it falls into.
LEMMA AccountBudget ==
    ASSUME ReleaseInv, HistoryOK, BudgetInv, NEW c \in Callers, Account(c)
    PROVE  BudgetInv'
<1> SUFFICES ASSUME Policy.max_decrypts_per_window # Unset, NEW s \in Scopes, NEW x \in Nat
             PROVE  Bounded(s, x)'
  BY DEF BudgetInv
<1>1. TypeInv BY DEF ReleaseInv
<1>2. pc[c] = "account" /\ pc[c] # "idle" BY DEF Account
<1>3. PICK q : q = Request(c).query OBVIOUS
<1>4. q.scope \in Scopes /\ q.timestamp \in Nat
  <2>1. call[c].request \in DOMAIN requests BY <1>1, <1>2, CallTyped, Domains DEF RequestIds
  <2>2. QED BY <1>1, <1>3, <2>1, QueryTyped DEF Request
<1>5. /\ history' = history /\ requests' = requests
      /\ pc' = [pc EXCEPT ![c] = IF allowed(Evaluate(q)) THEN "record" ELSE "release"]
      /\ call' = [call EXCEPT ![c].decision = Evaluate(q)]
  BY <1>3 DEF Account, Goto
<1>6. /\ pc'[c] = (IF allowed(Evaluate(q)) THEN "record" ELSE "release")
      /\ \A d \in Callers \ {c} : pc'[d] = pc[d] /\ call'[d] = call[d]
      /\ call'[c].request = call[c].request
  <2>1. call[c] \in Calls /\ pc \in [Callers -> Labels] /\ DOMAIN call = Callers
    BY <1>1, <1>2, CallTyped
  <2>2. call'[c] = [call[c] EXCEPT !.decision = Evaluate(q)] BY <1>5, <2>1
  <2>3. call'[c].request = call[c].request BY <2>1, <2>2 DEF Calls
  <2>4. QED BY <1>5, <2>1, <2>3
<1>7. \A d \in Callers : Request(d)' = Request(d) BY <1>5, <1>6 DEF Request
<1>8. HistoryOK' BY <1>5 DEF HistoryOK
<1>9. Bounded(s, x) /\ Policy.max_decrypts_per_window \in Nat BY LimitTyped DEF BudgetInv
<1>10. AccountedIn(s, x)' = AccountedIn(s, x) BY <1>5 DEF AccountedIn
<1>11. CASE allowed(Evaluate(q)) /\ s = q.scope /\ Within(q, x)
  <2>1. ~ RateExceeded(q, history[s]) BY <1>11 DEF allowed, Evaluate, Decide
  <2>2. PICK R : R = recent(q, history[s]) OBVIOUS
  <2>3. history[s] \in Seq(Accounted) BY DEF HistoryOK
  <2>4. Len(history[s]) \in Nat /\ DOMAIN history[s] = 1..Len(history[s]) BY <2>3
  <2>5. IsFiniteSet(R)
    <3>1. IsFiniteSet(1..Len(history[s])) BY <2>4, FS_Interval
    <3>2. R \subseteq 1..Len(history[s]) BY <2>2, <2>4 DEF recent
    <3>3. QED BY <3>1, <3>2, FS_Subset
  <2>6. AccountedIn(s, x) \subseteq R
    <3> SUFFICES ASSUME NEW i \in AccountedIn(s, x) PROVE i \in R OBVIOUS
    <3>1. i \in DOMAIN history[s] /\ x <= history[s][i].timestamp BY DEF AccountedIn
    <3>2. history[s][i] \in Accounted BY <2>3, <3>1
    <3>3. history[s][i].timestamp \in Nat BY <3>2 DEF Accounted
    <3>4. history[s][i].timestamp >= q.timestamp - Policy.window_seconds
      BY <1>4, <1>11, <3>1, <3>3, WindowTyped DEF Within
    <3>5. QED BY <2>2, <3>1, <3>4 DEF recent
  <2>7. Cardinality(AccountedIn(s, x)) <= Cardinality(R) /\ Cardinality(R) \in Nat
    BY <2>5, <2>6, FS_Subset, FS_CardinalityType
  <2>8. Cardinality(R) < Policy.max_decrypts_per_window
    BY <1>9, <2>1, <2>2, <2>7 DEF RateExceeded
  <2>9. /\ Cardinality(Between(s, x))' \in Nat
        /\ Cardinality(Between(s, x))' <= Cardinality(Callers)
        /\ Cardinality(Callers) \in Nat
    <3>1. IsFiniteSet(Callers) BY ReleaseAssumption
    <3>2. PICK B : B = Between(s, x)' OBVIOUS
    <3>3. B \subseteq Callers BY <3>2 DEF Between
    <3>4. IsFiniteSet(B) /\ Cardinality(B) <= Cardinality(Callers)
      BY <3>1, <3>3, FS_Subset
    <3>5. QED BY <3>1, <3>2, <3>4, FS_CardinalityType
  <2>10. Cardinality(AccountedIn(s, x)) \in Nat BY CountsFinite
  <2>11. QED BY <1>9, <1>10, <2>7, <2>8, <2>9, <2>10 DEF Bounded
<1>12. CASE ~ (allowed(Evaluate(q)) /\ s = q.scope /\ Within(q, x))
  <2>1. Between(s, x)' \subseteq Between(s, x)
    <3> SUFFICES ASSUME NEW d \in Between(s, x)' PROVE d \in Between(s, x) OBVIOUS
    <3>1. /\ d \in Callers /\ pc'[d] = "record" /\ (Request(d).query.scope = s)'
          /\ Within(Request(d).query, x)'
      BY DEF Between
    <3>2. Request(d)' = Request(d) BY <1>7, <3>1
    <3>3. d # c
      <4>1. SUFFICES ASSUME d = c PROVE FALSE OBVIOUS
      <4>2. allowed(Evaluate(q)) BY <1>6, <3>1, <4>1
      <4>3. QED BY <1>3, <1>12, <3>1, <3>2, <4>1, <4>2 DEF Within
    <3>4. QED BY <1>6, <3>1, <3>2, <3>3 DEF Between, Within
  <2>2. QED BY <1>8, <1>9, <1>10, <2>1, WindowKeeps
<1>13. QED BY <1>11, <1>12

\* The second region: the call leaves, its release comes in.
LEMMA RecordBudget ==
    ASSUME ReleaseInv, HistoryOK, BudgetInv, NEW c \in Callers, RecordQuery(c)
    PROVE  BudgetInv'
<1> SUFFICES ASSUME Policy.max_decrypts_per_window # Unset, NEW s \in Scopes, NEW x \in Nat
             PROVE  Bounded(s, x)'
  BY DEF BudgetInv
<1>1. TypeInv BY DEF ReleaseInv
<1>2. PICK q : q = Request(c).query OBVIOUS
<1>3. PICK n : n = Len(history[q.scope]) + 1 OBVIOUS
<1>4. /\ HistoryOK'
      /\ q.scope \in Scopes /\ q.timestamp \in Nat
      /\ \A z \in Scopes \ {q.scope} : history'[z] = history[z]
      /\ n \in Nat /\ n \notin DOMAIN history[q.scope]
      /\ DOMAIN history'[q.scope] = DOMAIN history[q.scope] \cup {n}
      /\ history'[q.scope][n].timestamp = q.timestamp
      /\ \A k \in DOMAIN history[q.scope] : history'[q.scope][k] = history[q.scope][k]
  <2>1. /\ HistoryOK'
        /\ q.scope \in Scopes /\ q.timestamp \in Nat
        /\ \A z \in Scopes \ {q.scope} : history'[z] = history[z]
        /\ Len(history[q.scope]) \in Nat
        /\ DOMAIN history[q.scope] = 1..Len(history[q.scope])
        /\ DOMAIN history'[q.scope] = 1..(Len(history[q.scope]) + 1)
        /\ history'[q.scope][Len(history[q.scope]) + 1].timestamp = q.timestamp
        /\ \A k \in DOMAIN history[q.scope] : history'[q.scope][k] = history[q.scope][k]
    BY <1>1, <1>2, RecordAppends
  <2>2. QED BY <1>3, <2>1
<1>5. pc[c] = "record" /\ pc' = [pc EXCEPT ![c] = "release"] /\ call' = call
      /\ requests' = requests
  BY DEF RecordQuery, Goto
<1>6. pc'[c] = "release" /\ \A d \in Callers \ {c} : pc'[d] = pc[d]
  BY <1>1, <1>5 DEF TypeInv, CallersOK
<1>7. Bounded(s, x) /\ Policy.max_decrypts_per_window \in Nat BY LimitTyped DEF BudgetInv
<1>8. Between(s, x)' \subseteq Between(s, x) \ {c}
  <2> SUFFICES ASSUME NEW d \in Between(s, x)' PROVE d \in Between(s, x) \ {c} OBVIOUS
  <2>1. /\ d \in Callers /\ pc'[d] = "record" /\ (Request(d).query.scope = s)'
        /\ Within(Request(d).query, x)'
    BY DEF Between
  <2>2. d # c BY <1>6, <2>1
  <2>3. Request(d)' = Request(d) BY <1>5 DEF Request
  <2>4. QED BY <1>6, <2>1, <2>2, <2>3 DEF Between, Within
<1>9. CASE s = q.scope /\ Within(q, x)
  <2>1. c \in Between(s, x) BY <1>2, <1>5, <1>9 DEF Between
  <2>2. AccountedIn(s, x)' = AccountedIn(s, x) \cup {n} /\ n \notin AccountedIn(s, x)
    BY <1>4, <1>9 DEF AccountedIn, Within
  <2>3. PICK A, B, P : A = AccountedIn(s, x) /\ B = Between(s, x) /\ P = Between(s, x)'
    OBVIOUS
  <2>4. IsFiniteSet(A) /\ IsFiniteSet(B) /\ Cardinality(A) \in Nat
        /\ Cardinality(B) \in Nat /\ Cardinality(Callers) \in Nat
    BY <2>3, CountsFinite
  <2>5. Cardinality(A \cup {n}) = Cardinality(A) + 1 BY <2>2, <2>3, <2>4, FS_AddElement
  <2>6. Cardinality(B \ {c}) = Cardinality(B) - 1 /\ IsFiniteSet(B \ {c})
    BY <2>1, <2>3, <2>4, FS_RemoveElement
  <2>7. Cardinality(P) <= Cardinality(B \ {c}) /\ Cardinality(P) \in Nat
    BY <1>8, <2>3, <2>6, FS_Subset, FS_CardinalityType
  <2>8. Cardinality(AccountedIn(s, x)') = Cardinality(A) + 1 BY <2>2, <2>3, <2>5
  <2>9. QED BY <1>7, <2>3, <2>4, <2>6, <2>7, <2>8 DEF Bounded
<1>10. CASE ~ (s = q.scope /\ Within(q, x))
  <2>1. AccountedIn(s, x)' = AccountedIn(s, x)
    <3>1. CASE s = q.scope BY <1>4, <1>10, <3>1 DEF AccountedIn, Within
    <3>2. CASE s # q.scope BY <1>4, <3>2 DEF AccountedIn
    <3>3. QED BY <3>1, <3>2
  <2>2. QED BY <1>4, <1>7, <1>8, <2>1, WindowKeeps
<1>11. QED BY <1>9, <1>10

\* Every other step is quiet: it brings nobody to the second region.
LEMMA OthersQuiet ==
    ASSUME ReleaseInv, [ReleaseNext]_releaseAllVars,
           \A c \in Callers : ~ Account(c) /\ ~ RecordQuery(c)
    PROVE  /\ history' = history
           /\ \A d \in Callers :
                 pc'[d] = "record" => pc[d] = "record" /\ Request(d)' = Request(d)
<1> DEFINE Quiet(d) == pc'[d] = "record" => pc[d] = "record" /\ Request(d)' = Request(d)
<1>1. TypeInv BY DEF ReleaseInv
<1>2. history' = history BY OnlyRecords
<1>3. CASE UNCHANGED <<pc, call, requests>>
  <2>1. \A d \in Callers : Quiet(d) BY <1>3 DEF Request
  <2>2. QED BY <1>2, <2>1
<1>4. ASSUME NEW c \in Callers, NEW l, l # "record", pc' = [pc EXCEPT ![c] = l],
             \A d \in Callers \ {c} : call'[d] = call[d],
             \A id \in DOMAIN requests : requests'[id] = requests[id]
      PROVE  \A d \in Callers : Quiet(d)
  <2> SUFFICES ASSUME NEW d \in Callers, pc'[d] = "record"
               PROVE  pc[d] = "record" /\ Request(d)' = Request(d)
    OBVIOUS
  <2>1. pc \in [Callers -> Labels] BY <1>1 DEF TypeInv, CallersOK
  <2>2. d # c /\ pc[d] = "record" BY <1>4, <2>1
  <2>3. call[d].request \in DOMAIN requests
    BY <1>1, <2>2, CallTyped, Domains DEF RequestIds
  <2>4. QED BY <1>4, <2>2, <2>3 DEF Request
<1>5. CASE Data BY <1>3, <1>5 DEF Data, Encrypt, Compute, callerVars
<1>6. ASSUME NEW c \in Callers, Arrive(c) PROVE \A d \in Callers : Quiet(d)
  <2>1. PICK l \in {"govern", "grant"} : pc' = [pc EXCEPT ![c] = l]
    BY <1>6 DEF Arrive, DecryptRequest, ApproveDecrypt, Goto
  <2>2. \E k : call' = [call EXCEPT ![c] = k]
    BY <1>6 DEF Arrive, DecryptRequest, ApproveDecrypt
  <2>3. \A d \in Callers \ {c} : call'[d] = call[d]
    BY <1>1, <2>2 DEF TypeInv, CallersOK
  <2>4. \A id \in DOMAIN requests : requests'[id] = requests[id]
    <3>1. requests' = requests \/ \E e : requests' = Append(requests, e)
      BY <1>6 DEF Arrive, DecryptRequest, ApproveDecrypt
    <3>2. requests \in Seq(DecryptRequests) BY <1>1 DEF TypeInv, RequestsOK
    <3>3. QED BY <3>1, <3>2
  <2>5. QED BY <1>4, <2>1, <2>3, <2>4
<1>7. ASSUME NEW c \in Callers, CallerStep(c) PROVE \A d \in Callers : Quiet(d)
  <2>1. requests' = requests
    BY <1>7 DEF CallerStep, Govern, GatePasses, GateParks, GateRefuses, Park, Grant,
                Decrypt, DecryptFails, Account, RecordQuery, RecordRelease, Publish, Unpark
  <2>2. PICK l \in Labels \ {"record"} : pc' = [pc EXCEPT ![c] = l]
    BY <1>7 DEF CallerStep, Govern, GatePasses, GateParks, GateRefuses, Park, Grant,
                Decrypt, DecryptFails, RecordRelease, Publish, Unpark, Goto, Return, Labels
  <2>3. call' = call \/ \E k : call' = [call EXCEPT ![c] = k]
    BY <1>7 DEF CallerStep, Govern, GatePasses, GateParks, GateRefuses, Park, Grant,
                Decrypt, DecryptFails, RecordRelease, Publish, Unpark, Return
  <2>4. \A d \in Callers \ {c} : call'[d] = call[d]
    BY <1>1, <2>3 DEF TypeInv, CallersOK
  <2>5. QED BY <1>4, <2>1, <2>2, <2>4
<1>8. CASE Tick \/ \E s \in Containments : Contain(s)
  BY <1>3, <1>8 DEF Tick, Contain, callerVars
<1>9. CASE ReleaseIdle \/ UNCHANGED releaseAllVars
  BY <1>3, <1>9 DEF ReleaseIdle, releaseAllVars, callerVars
<1>10. QED BY <1>2, <1>5, <1>6, <1>7, <1>8, <1>9 DEF ReleaseNext

\* No window exceeds its limit by as many releases as there are callers.
THEOREM BudgetOvershootHolds == ReleaseSpec => []BudgetOvershootBounded
<1>1. ReleaseInit => BudgetInv
  <2> SUFFICES ASSUME ReleaseInit, Policy.max_decrypts_per_window # Unset,
                      NEW s \in Scopes, NEW x \in Nat
               PROVE  Bounded(s, x)
    BY DEF BudgetInv
  <2>1. HistoryOK BY DEF ReleaseInit, HistoryOK
  <2>2. AccountedIn(s, x) = {} BY DEF AccountedIn, ReleaseInit
  <2>3. Between(s, x) = {} BY DEF Between, ReleaseInit
  <2>4. Cardinality({}) = 0 BY FS_EmptySet
  <2>5. Cardinality(Callers) \in Nat /\ Cardinality(Callers) >= 1 BY <2>1, CountsFinite
  <2>6. QED BY <2>2, <2>3, <2>4, <2>5, LimitTyped DEF Bounded
<1>2. ReleaseInv /\ HistoryOK /\ BudgetInv /\ [ReleaseNext]_releaseAllVars => BudgetInv'
  <2> SUFFICES ASSUME ReleaseInv, HistoryOK, BudgetInv, [ReleaseNext]_releaseAllVars
               PROVE  BudgetInv'
    OBVIOUS
  <2>1. CASE \E c \in Callers : Account(c) BY <2>1, AccountBudget
  <2>2. CASE \E c \in Callers : RecordQuery(c) BY <2>2, RecordBudget
  <2>3. CASE \A c \in Callers : ~ Account(c) /\ ~ RecordQuery(c)
    BY <2>3, OthersQuiet, QuietBudget
  <2>4. QED BY <2>1, <2>2, <2>3
<1>3. HistoryOK /\ BudgetInv => BudgetOvershootBounded
  <2> SUFFICES ASSUME HistoryOK, BudgetInv, Policy.max_decrypts_per_window # Unset,
                      NEW s \in Scopes, NEW i \in DOMAIN history[s]
               PROVE  Cardinality(AccountedIn(s, history[s][i].timestamp))
                          <= Policy.max_decrypts_per_window + Cardinality(Callers) - 1
    BY DEF BudgetOvershootBounded
  <2>1. history[s][i] \in Accounted BY DEF HistoryOK
  <2>2. PICK x \in Nat : x = history[s][i].timestamp BY <2>1 DEF Accounted
  <2>3. Bounded(s, x) BY DEF BudgetInv
  <2>4. Cardinality(AccountedIn(s, x)) \in Nat /\ Cardinality(Between(s, x)) \in Nat
        /\ Cardinality(Callers) \in Nat
    BY CountsFinite
  <2>5. QED BY <2>2, <2>3, <2>4, LimitTyped DEF Bounded
<1>4. QED BY <1>1, <1>2, <1>3, ReleaseInvariant, PTL DEF ReleaseSpec

-----------------------------------------------------------------------------
(***************************************************************************)
(* Leak patterns.  Govern compares the query with every release accounted  *)
(* for by then, a superset of those known when the request came in; the    *)
(* history never loses one, so what Govern has found stays true while the  *)
(* request is carried, parked, granted and published.                      *)
(***************************************************************************)

LeakFree(request) ==
    \A k \in 1..request.known :
        LET earlier == history[request.query.scope][k] IN
        request.query.timestamp <= earlier.timestamp + Policy.window_seconds =>
            ~ Leaks(request.query.subset_ids, earlier.subset_ids)

Vetted(id) == id \in DOMAIN requests /\ LeakFree(requests[id])

KnownFits(request) == request.known <= Len(history[request.query.scope])

GovernedLabels == Labels \ {"idle", "govern"}

LeakInv ==
    /\ \A id \in DOMAIN requests : KnownFits(requests[id])
    /\ \A c \in Callers : pc[c] \in GovernedLabels => Vetted(call[c].request)
    /\ \A id \in pending : Vetted(id)
    /\ \A i \in DOMAIN results : Vetted(results[i].request)

\* The history only grows, so a vetted request stays vetted.
LEMMA VettedKept ==
    ASSUME TypeInv, HistoryOK, HistoryOK', HistoryGrows, NEW id \in DOMAIN requests,
           KnownFits(requests[id]),
           id \in DOMAIN requests', requests'[id] = requests[id]
    PROVE  KnownFits(requests[id])' /\ (Vetted(id) => Vetted(id)')
<1>1. PICK r : r = requests[id] OBVIOUS
<1>2. PICK q : q = r.query OBVIOUS
<1>3. q.scope \in Scopes BY <1>1, <1>2, QueryTyped
<1>4. requests[id] \in DecryptRequests BY DEF TypeInv, RequestsOK
<1>5. r.known \in Nat BY <1>1, <1>4 DEF DecryptRequests
<1>6. history[q.scope] \in Seq(Accounted) BY <1>3 DEF HistoryOK
<1>7. Len(history[q.scope]) \in Nat /\ DOMAIN history[q.scope] = 1..Len(history[q.scope])
  BY <1>6
<1>8. r.known <= Len(history[q.scope]) BY <1>1, <1>2 DEF KnownFits
<1>9. /\ Len(history[q.scope]) <= Len(history'[q.scope])
      /\ \A k \in 1..r.known : history'[q.scope][k] = history[q.scope][k]
      /\ r.known <= Len(history'[q.scope])
  <2>1. /\ Len(history[q.scope]) <= Len(history'[q.scope])
        /\ \A k \in DOMAIN history[q.scope] :
              k \in DOMAIN history'[q.scope] /\ history'[q.scope][k] = history[q.scope][k]
    BY <1>3 DEF HistoryGrows
  <2>2. \A k \in 1..r.known : k \in DOMAIN history[q.scope] BY <1>5, <1>7, <1>8
  <2>3. Len(history'[q.scope]) \in Nat BY <1>3 DEF HistoryOK
  <2>4. QED BY <1>5, <1>7, <1>8, <2>1, <2>2, <2>3
<1>10. KnownFits(requests[id])' BY <1>1, <1>2, <1>9 DEF KnownFits
<1>11. ASSUME Vetted(id) PROVE Vetted(id)'
  <2>1. LeakFree(requests[id]) BY <1>11 DEF Vetted
  <2>2. LeakFree(requests[id])'
    <3> SUFFICES ASSUME NEW k \in 1..r.known,
                        q.timestamp <= history'[q.scope][k].timestamp + Policy.window_seconds
                 PROVE  ~ Leaks(q.subset_ids, history'[q.scope][k].subset_ids)
      BY <1>1, <1>2 DEF LeakFree
    <3>1. history'[q.scope][k] = history[q.scope][k] BY <1>9
    <3>2. QED BY <1>1, <1>2, <2>1, <3>1 DEF LeakFree
  <2>3. QED BY <2>2 DEF Vetted
<1>12. QED BY <1>10, <1>11

\* A query that governance allows leaks nothing together with the history.
LEMMA AllowedVets ==
    ASSUME TypeInv, HistoryOK, NEW id \in DOMAIN requests, KnownFits(requests[id]),
           allowed(Evaluate(requests[id].query))
    PROVE  Vetted(id)
<1>1. PICK r : r = requests[id] OBVIOUS
<1>2. PICK q : q = r.query OBVIOUS
<1>3. q.scope \in Scopes /\ q.timestamp \in Nat BY <1>1, <1>2, QueryTyped
<1>4. requests[id] \in DecryptRequests BY DEF TypeInv, RequestsOK
<1>5. r.known \in Nat BY <1>1, <1>4 DEF DecryptRequests
<1>6. history[q.scope] \in Seq(Accounted) BY <1>3 DEF HistoryOK
<1>7. ~ PatternRisk(q, history[q.scope])
  BY <1>1, <1>2 DEF allowed, Evaluate, Decide
<1>8. ASSUME NEW k \in 1..r.known,
             q.timestamp <= history[q.scope][k].timestamp + Policy.window_seconds
      PROVE  ~ Leaks(q.subset_ids, history[q.scope][k].subset_ids)
  <2>1. k \in DOMAIN history[q.scope]
    <3>1. Len(history[q.scope]) \in Nat BY <1>6
    <3>2. r.known <= Len(history[q.scope]) BY <1>1, <1>2 DEF KnownFits
    <3>3. QED BY <1>5, <1>6, <3>1, <3>2
  <2>2. history[q.scope][k] \in Accounted BY <1>6, <2>1
  <2>3. history[q.scope][k].timestamp \in Nat BY <2>2 DEF Accounted
  <2>4. history[q.scope][k].timestamp >= q.timestamp - Policy.window_seconds
    BY <1>3, <1>8, <2>3, WindowTyped
  <2>5. k \in recent(q, history[q.scope]) BY <2>1, <2>4 DEF recent
  <2>6. QED BY <1>7, <2>5 DEF PatternRisk, Leaks
<1>9. QED BY <1>1, <1>2, <1>8 DEF Vetted, LeakFree

\* A request is never changed, and a new one knows what is accounted for.
LEMMA RequestsKept ==
    ASSUME ReleaseInv, HistoryOK, [ReleaseNext]_releaseAllVars
    PROVE  /\ \A id \in DOMAIN requests : id \in DOMAIN requests' /\ requests'[id] = requests[id]
           /\ \A id \in DOMAIN requests' \ DOMAIN requests : KnownFits(requests[id])'
<1>1. TypeInv BY DEF ReleaseInv
<1>2. CASE requests' = requests BY <1>2
<1>3. ASSUME NEW c \in Callers, NEW f \in Files, NEW v \in Envelopes, NEW g \in Grants,
             NEW q \in Queries, NEW t \in Timestamps, NEW a \in Assertions,
             DecryptRequest(c, f, v, g, q, t, a)
      PROVE  /\ \A id \in DOMAIN requests :
                   id \in DOMAIN requests' /\ requests'[id] = requests[id]
             /\ \A id \in DOMAIN requests' \ DOMAIN requests : KnownFits(requests[id])'
  <2>1. PICK e : /\ requests' = Append(requests, e)
                 /\ e.known = Len(history[q.scope]) /\ e.query.scope = q.scope
    BY <1>3 DEF DecryptRequest
  <2>2. history' = history BY <1>3 DEF DecryptRequest
  <2>3. requests \in Seq(DecryptRequests) BY <1>1 DEF TypeInv, RequestsOK
  <2>4. Len(history[q.scope]) \in Nat BY ReleaseAssumption DEF HistoryOK
  <2>5. /\ DOMAIN requests' = DOMAIN requests \cup {Len(requests) + 1}
        /\ requests'[Len(requests) + 1] = e
        /\ \A id \in DOMAIN requests : requests'[id] = requests[id]
    BY <2>1, <2>3
  <2>6. QED BY <2>1, <2>2, <2>4, <2>5 DEF KnownFits
<1>4. CASE Data BY <1>2, <1>4 DEF Data, Encrypt, Compute
<1>5. CASE \E c \in Callers : Arrive(c)
  <2>1. PICK c \in Callers : Arrive(c) BY <1>5
  <2>2. CASE \E id \in pending : ApproveDecrypt(c, id) BY <1>2, <2>2 DEF ApproveDecrypt
  <2>3. CASE \E f \in Files, v \in Envelopes, g \in Grants, q \in Queries,
               t \in Timestamps, a \in Assertions : DecryptRequest(c, f, v, g, q, t, a)
    <3>1. PICK f \in Files, v \in Envelopes, g \in Grants, q \in Queries,
               t \in Timestamps, a \in Assertions : DecryptRequest(c, f, v, g, q, t, a)
      BY <2>3
    <3>2. QED BY <1>3, <3>1
  <2>4. QED BY <2>1, <2>2, <2>3 DEF Arrive
<1>6. CASE \E c \in Callers : CallerStep(c)
  BY <1>2, <1>6 DEF CallerStep, Govern, GatePasses, GateParks, GateRefuses, Park, Grant,
                    Decrypt, DecryptFails, Account, RecordQuery, RecordRelease, Publish, Unpark
<1>7. CASE Tick \/ \E s \in Containments : Contain(s) BY <1>2, <1>7 DEF Tick, Contain
<1>8. CASE ReleaseIdle \/ UNCHANGED releaseAllVars
  BY <1>2, <1>8 DEF ReleaseIdle, releaseAllVars
<1>9. QED BY <1>4, <1>5, <1>6, <1>7, <1>8 DEF ReleaseNext

\* Whatever is carried past governance, parked or published after a step had
\* been vetted before it.
StillVetted ==
    /\ \A c \in Callers : pc'[c] \in GovernedLabels => Vetted(call'[c].request)
    /\ \A id \in pending' : Vetted(id)
    /\ \A i \in DOMAIN results' : Vetted(results'[i].request)

LEMMA StepVets ==
    ASSUME ReleaseInv, HistoryOK, LeakInv, [ReleaseNext]_releaseAllVars
    PROVE  StillVetted
<1>1. TypeInv BY DEF ReleaseInv
<1>2. CASE UNCHANGED <<pc, call, pending, results>>
  BY <1>2 DEF StillVetted, LeakInv
<1>3. ASSUME NEW c \in Callers, NEW l, pc' = [pc EXCEPT ![c] = l],
             \A d \in Callers \ {c} : call'[d] = call[d],
             l \in GovernedLabels => Vetted(call'[c].request),
             \A id \in pending' : id \in pending \/ Vetted(id),
             \A i \in DOMAIN results' :
                 \/ i \in DOMAIN results /\ results'[i] = results[i]
                 \/ Vetted(results'[i].request)
      PROVE  StillVetted
  <2>1. pc \in [Callers -> Labels] BY <1>1 DEF TypeInv, CallersOK
  <2>2. ASSUME NEW d \in Callers, pc'[d] \in GovernedLabels PROVE Vetted(call'[d].request)
    <3>1. CASE d = c BY <1>3, <2>1, <2>2, <3>1
    <3>2. CASE d # c BY <1>3, <2>1, <2>2, <3>2 DEF LeakInv
    <3>3. QED BY <3>1, <3>2
  <2>3. \A id \in pending' : Vetted(id) BY <1>3 DEF LeakInv
  <2>4. \A i \in DOMAIN results' : Vetted(results'[i].request) BY <1>3 DEF LeakInv
  <2>5. QED BY <2>2, <2>3, <2>4 DEF StillVetted
<1>4. CASE Data
  BY <1>2, <1>4 DEF Data, Encrypt, Compute, callerVars, approvalVars, releaseVars
<1>5. ASSUME NEW c \in Callers, Arrive(c) PROVE StillVetted
  <2>1. CASE \E id \in pending : ApproveDecrypt(c, id)
    <3>1. PICK id \in pending : ApproveDecrypt(c, id) BY <2>1
    <3>2. PICK k : k = NewCall(id, TRUE) OBVIOUS
    <3>3. k.request = id BY <3>2 DEF NewCall
    <3>4. /\ pc' = [pc EXCEPT ![c] = "grant"] /\ call' = [call EXCEPT ![c] = k]
          /\ UNCHANGED <<pending, results>>
      BY <3>1, <3>2 DEF ApproveDecrypt, Goto, approvalVars, releaseVars
    <3>5. call'[c] = k /\ \A d \in Callers \ {c} : call'[d] = call[d]
      BY <1>1, <3>4 DEF TypeInv, CallersOK
    <3>6. Vetted(call'[c].request) BY <3>3, <3>5 DEF LeakInv
    <3>7. QED BY <1>3, <3>4, <3>5, <3>6
  <2>2. CASE \E f \in Files, v \in Envelopes, g \in Grants, q \in Queries,
               t \in Timestamps, a \in Assertions : DecryptRequest(c, f, v, g, q, t, a)
    <3>1. /\ pc' = [pc EXCEPT ![c] = "govern"] /\ \E k : call' = [call EXCEPT ![c] = k]
          /\ UNCHANGED <<pending, results>>
      BY <2>2 DEF DecryptRequest, Goto, releaseVars
    <3>2. \A d \in Callers \ {c} : call'[d] = call[d]
      BY <1>1, <3>1 DEF TypeInv, CallersOK
    <3>3. QED BY <1>3, <3>1, <3>2 DEF GovernedLabels
  <2>3. QED BY <1>5, <2>1, <2>2 DEF Arrive
<1>6. ASSUME NEW c \in Callers, CallerStep(c) PROVE StillVetted
  <2>1. pc[c] # "idle"
    BY <1>6 DEF CallerStep, Govern, GatePasses, GateParks, GateRefuses, Park, Grant,
                Decrypt, DecryptFails, Account, RecordQuery, RecordRelease, Publish, Unpark
  <2>2. /\ call[c] \in Calls /\ call[c].request \in DOMAIN requests
        /\ pc \in [Callers -> Labels] /\ DOMAIN call = Callers
    BY <1>1, <2>1, CallTyped, Domains DEF RequestIds
  <2>3. CASE Govern(c)
    <3>1. CASE allowed(Evaluate(Request(c).query))
      <4>1. pc' = [pc EXCEPT ![c] = "gate"] /\ UNCHANGED <<call, pending, results>>
        BY <2>3, <3>1 DEF Govern, Goto, approvalVars, releaseVars
      <4>2. Vetted(call[c].request)
        BY <1>1, <2>2, <3>1, AllowedVets DEF LeakInv, Request
      <4>3. QED BY <1>3, <4>1, <4>2
    <3>2. CASE ~ allowed(Evaluate(Request(c).query))
      <4>1. /\ pc' = [pc EXCEPT ![c] = "idle"] /\ call' = [call EXCEPT ![c] = NoCall]
            /\ UNCHANGED <<pending, results>>
        BY <2>3, <3>2 DEF Govern, Return, approvalVars, releaseVars
      <4>2. \A d \in Callers \ {c} : call'[d] = call[d] BY <2>2, <4>1
      <4>3. QED BY <1>3, <4>1, <4>2 DEF GovernedLabels
    <3>3. QED BY <3>1, <3>2
  <2>4. CASE ~ Govern(c)
    <3>1. pc[c] \in GovernedLabels
      BY <1>6, <2>4 DEF CallerStep, GatePasses, GateParks, GateRefuses, Park, Grant,
                Decrypt, DecryptFails, Account, RecordQuery, RecordRelease, Publish, Unpark,
                GovernedLabels, Labels
    <3>2. Vetted(call[c].request) BY <3>1 DEF LeakInv
    <3>3. PICK l : pc' = [pc EXCEPT ![c] = l] /\ (l = "idle" \/ call'[c].request = call[c].request)
                   /\ \A d \in Callers \ {c} : call'[d] = call[d]
      <4>1. CASE GatePasses(c) \/ GateParks(c) \/ Decrypt(c) \/ RecordQuery(c)
        BY <4>1 DEF GatePasses, GateParks, Decrypt, RecordQuery, Goto
      <4>2. CASE GateRefuses(c) \/ Park(c) \/ DecryptFails(c) \/ Unpark(c)
        BY <2>2, <4>2 DEF GateRefuses, Park, DecryptFails, Unpark, Return
      <4>3. CASE Grant(c) \/ Publish(c)
        BY <2>2, <4>3 DEF Grant, Publish, Goto, Return
      <4>4. CASE Account(c)
        <5>1. PICK x : call' = [call EXCEPT ![c].decision = x] BY <4>4 DEF Account
        <5>2. call'[c] = [call[c] EXCEPT !.decision = x]
              /\ \A d \in Callers \ {c} : call'[d] = call[d]
          BY <2>2, <5>1
        <5>3. call'[c].request = call[c].request BY <2>2, <5>2 DEF Calls
        <5>4. QED BY <4>4, <5>2, <5>3 DEF Account, Goto
      <4>5. CASE RecordRelease(c)
        <5>1. PICK x : call' = [call EXCEPT ![c].release = x] BY <4>5 DEF RecordRelease
        <5>2. call'[c] = [call[c] EXCEPT !.release = x]
              /\ \A d \in Callers \ {c} : call'[d] = call[d]
          BY <2>2, <5>1
        <5>3. call'[c].request = call[c].request BY <2>2, <5>2 DEF Calls
        <5>4. QED BY <4>5, <5>2, <5>3 DEF RecordRelease, Goto
      <4>6. QED BY <1>6, <2>4, <4>1, <4>2, <4>3, <4>4, <4>5 DEF CallerStep
    <3>4. pending' \subseteq pending \cup {call[c].request}
      BY <1>6, <2>4 DEF CallerStep, GatePasses, GateParks, GateRefuses, Park, Grant,
                Decrypt, DecryptFails, Account, RecordQuery, RecordRelease, Publish, Unpark,
                approvalVars
    <3>5. \A i \in DOMAIN results' :
             \/ i \in DOMAIN results /\ results'[i] = results[i]
             \/ results'[i].request = call[c].request
      <4>1. \/ results' = results
            \/ results' = Append(results, [request |-> call[c].request,
                                           release |-> call[c].release])
        BY <1>6, <2>4 DEF CallerStep, GatePasses, GateParks, GateRefuses, Park, Grant,
                Decrypt, DecryptFails, Account, RecordQuery, RecordRelease, Publish, Unpark,
                releaseVars
      <4>2. results \in Seq(Published) BY <1>1 DEF TypeInv, ReleasesOK
      <4>3. QED BY <4>1, <4>2
    <3>6. QED BY <1>3, <3>2, <3>3, <3>4, <3>5 DEF GovernedLabels
  <2>5. QED BY <2>3, <2>4
<1>7. CASE Tick \/ \E s \in Containments : Contain(s)
  BY <1>2, <1>7 DEF Tick, Contain, callerVars, approvalVars, releaseVars
<1>8. CASE ReleaseIdle \/ UNCHANGED releaseAllVars
  BY <1>2, <1>8 DEF ReleaseIdle, releaseAllVars, callerVars, approvalVars, releaseVars
<1>9. QED BY <1>4, <1>5, <1>6, <1>7, <1>8 DEF ReleaseNext

\* Nothing published, with or without a detour over an approver, completes a
\* pattern with what was accounted for when it was asked for.
THEOREM NoLeakHolds == ReleaseSpec => []NoLeakPattern
<1>1. ReleaseInit => LeakInv
  BY DEF ReleaseInit, LeakInv, GovernedLabels
<1>2. ReleaseInv /\ HistoryOK /\ LeakInv /\ [ReleaseNext]_releaseAllVars => LeakInv'
  <2> SUFFICES ASSUME ReleaseInv, HistoryOK, LeakInv, [ReleaseNext]_releaseAllVars
               PROVE  LeakInv'
    OBVIOUS
  <2>1. TypeInv /\ HistoryOK' /\ HistoryGrows BY HistoryKeeps DEF ReleaseInv
  <2>2. /\ \A id \in DOMAIN requests : id \in DOMAIN requests' /\ requests'[id] = requests[id]
        /\ \A id \in DOMAIN requests' \ DOMAIN requests : KnownFits(requests[id])'
    BY RequestsKept
  <2>3. StillVetted BY StepVets
  <2>4. ASSUME NEW id \in DOMAIN requests
        PROVE  KnownFits(requests[id])' /\ (Vetted(id) => Vetted(id)')
    BY <2>1, <2>2, VettedKept DEF LeakInv
  <2>5. \A id : Vetted(id) => Vetted(id)' BY <2>4 DEF Vetted
  <2>6. \A id \in DOMAIN requests' : KnownFits(requests[id])' BY <2>2, <2>4
  <2>7. \A c \in Callers : pc'[c] \in GovernedLabels => Vetted(call[c].request)'
    BY <2>3, <2>5 DEF StillVetted
  <2>8. \A id \in pending' : Vetted(id)' BY <2>3, <2>5 DEF StillVetted
  <2>9. \A i \in DOMAIN results' : Vetted(results[i].request)'
    BY <2>3, <2>5 DEF StillVetted
  <2>10. QED BY <2>6, <2>7, <2>8, <2>9 DEF LeakInv
<1>3. LeakInv => NoLeakPattern
  BY DEF LeakInv, Vetted, LeakFree, NoLeakPattern
<1>4. QED BY <1>1, <1>2, <1>3, ReleaseInvariant, PTL DEF ReleaseSpec

=============================================================================

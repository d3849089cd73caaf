------------------------- MODULE ConfidentialRelease -------------------------
(***************************************************************************)
(* CACService (cvztte/control_plane/cac_service.py) with its query         *)
(* governor, release gate, approval store and lineage graph.               *)
(*                                                                         *)
(* Callers are the threads that run decrypt_request and approve_decrypt.   *)
(* Every lock in the code (the service's, the governor's, the approval     *)
(* store's, the graph's) covers one step below.  The caller passes the     *)
(* containment state it has read; the service keeps it with the request.   *)
(*                                                                         *)
(* Envelopes are the callers' too.  The service keeps none of those it     *)
(* returned and compares what it is given with nothing but the bytes of    *)
(* the file the caller names, so the classification and the identifiers    *)
(* in an envelope are whatever the caller wrote there.                     *)
(***************************************************************************)
EXTENDS QueryGovernance, Lineage, ContainmentModel

CONSTANTS
    Callers, NoCall,
    Datasets, Programs, Scopes,
    Classifications,   \* classifications callers write into envelopes
    Strays,            \* identifiers in envelopes that the service never returned
    Grants,            \* permission sets callers hold
    Queries,           \* query requests callers make, without their timestamp
    Timestamps,        \* timestamps callers put on them
    Assertions,        \* values callers pass as approval_granted
    Containments,      \* states the engine moves the recipient to
    ApprovalTTL,
    MaxCiphertexts, MaxResults, MaxRequests, MaxTime  \* bounds

CACPermissions == {"READ_PLAINTEXT", "COMPUTE_ON_CIPHERTEXT", "DECRYPT_RESULT"}

ASSUME ReleaseAssumption ==
    /\ Classifications \subseteq {"PUBLIC", "INTERNAL", "CONFIDENTIAL", "SECRET"}
    /\ Grants \subseteq SUBSET CACPermissions
    /\ Assertions \subseteq BOOLEAN
    /\ Timestamps \subseteq Nat
    /\ Containments \subseteq States
    /\ Strays \cap Nat = {}
    /\ IsFiniteSet(Callers) /\ Callers # {}
    /\ ApprovalTTL \in Nat /\ MaxTime \in Nat
    /\ \A q \in Queries : q.scope \in Scopes

VARIABLES
    clock,
    containment,  \* the recipient's state at the containment engine
    ciphertexts,  \* ciphertext files written by encrypt: the dataset of each
    computed,     \* result files written by compute: parent (as claimed) and program
    requests,     \* parameters of every decrypt_request; the index is its id
    pending,      \* CACService._pending
    approvals,    \* ApprovalStore, by request
    history,      \* QueryGovernor._history
    releases,     \* release ids drawn so far: the request each one is for
    results,      \* CACService._results, in order of publication
    pc, call      \* the callers' program counters and locals

dataVars == <<ciphertexts, computed>>
approvalVars == <<pending, approvals>>
releaseVars == <<releases, results>>
callerVars == <<pc, call>>
releaseAllVars ==
    <<clock, containment, dataVars, requests, approvalVars, history,
      releaseVars, callerVars, lineageVars>>

NoApproval == [state |-> "NONE", expires |-> 0, action_hash |-> NoHash]

ReleaseInit ==
    /\ LineageInit
    /\ clock = 0
    /\ containment = "NORMAL"
    /\ ciphertexts = <<>>
    /\ computed = <<>>
    /\ requests = <<>>
    /\ pending = {}
    /\ approvals = <<>>
    /\ history = [s \in Scopes |-> <<>>]
    /\ releases = <<>>
    /\ results = <<>>
    /\ pc = [c \in Callers |-> "idle"]
    /\ call = [c \in Callers |-> NoCall]

-----------------------------------------------------------------------------
(***************************************************************************)
(* Permissions (cac/permissions.py, cac/guard.py) and the release gate     *)
(* (cac/threshold/release.py).                                             *)
(***************************************************************************)

ceiling_for(state) ==
    CASE state = "NORMAL" -> CACPermissions
      [] state \in {"SUSPICIOUS", "RESTRICTED"} -> {"COMPUTE_ON_CIPHERTEXT"}
      [] OTHER -> {}

Permitted(permission, granted, state) == permission \in granted \cap ceiling_for(state)

ApprovalRequired(classification) == classification \in {"CONFIDENTIAL", "SECRET"}

-----------------------------------------------------------------------------
(***************************************************************************)
(* encrypt and compute.  The broker's subprocess touches no shared state,  *)
(* and a call that fails leaves nothing behind, so each is one step.  Both *)
(* write a file under a fresh name and record its hash in the lineage.     *)
(***************************************************************************)

Files ==
    {<<"CIPHERTEXT", i>> : i \in DOMAIN ciphertexts}
        \cup {<<"RESULT", i>> : i \in DOMAIN computed}

CiphertextIds == DOMAIN ciphertexts \cup Strays
ResultIds == DOMAIN computed \cup Strays

Encrypt(dataset, granted) ==
    LET id == Len(ciphertexts) + 1 IN
    /\ id <= MaxCiphertexts
    /\ Permitted("READ_PLAINTEXT", granted, containment)
    /\ ciphertexts' = Append(ciphertexts, dataset)
    /\ record_ciphertext(dataset, id, Hash("FHE_CIPHERTEXT", <<"CIPHERTEXT", id>>))
    /\ UNCHANGED <<clock, containment, computed, requests, approvalVars, history,
                   releaseVars, callerVars>>

\* Every registered program takes one ciphertext, known to the lineage by the
\* id in the envelope that came with it.
Compute(program, parent, granted) ==
    LET id == Len(computed) + 1 IN
    /\ id <= MaxResults
    /\ Permitted("COMPUTE_ON_CIPHERTEXT", granted, containment)
    /\ computed' = Append(computed, [parent |-> parent, program |-> program])
    /\ record_result(parent, program, id, Hash("FHE_RESULT", <<"RESULT", id>>))
    /\ UNCHANGED <<clock, containment, ciphertexts, requests, approvalVars, history,
                   releaseVars, callerVars>>

-----------------------------------------------------------------------------
(***************************************************************************)
(* decrypt_request and approve_decrypt, up to the gate.                    *)
(***************************************************************************)

Goto(c, label) == pc' = [pc EXCEPT ![c] = label]

\* The call ends, with a result or by raising.
Return(c) ==
    /\ pc' = [pc EXCEPT ![c] = "idle"]
    /\ call' = [call EXCEPT ![c] = NoCall]

Request(c) == requests[call[c].request]

\* Locals: the request served, whether this is approve_decrypt, the clock read
\* on entry, the accounting decision and the release id.
NewCall(request, approving) ==
    [request |-> request, approving |-> approving, now |-> clock,
     decision |-> "DENY", release |-> 0]

\* The result envelopes a caller may present: any identifier, any
\* classification, and the hash of any file.
Envelopes ==
    [ciphertext_id: ResultIds, classification: Classifications,
     result_ciphertext_hash: {Hash("FHE_RESULT", f) : f \in Files}]

\* The request is recorded in lineage before anything can refuse it.  "known"
\* is a history variable: how many releases of the scope were accounted for
\* when the request came in.
DecryptRequest(c, path, envelope, granted, query, timestamp, asserted) ==
    LET id == Len(requests) + 1 IN
    /\ pc[c] = "idle"
    /\ id <= MaxRequests
    /\ requests' = Append(requests,
           [path |-> path, envelope |-> envelope,
            granted |-> granted, containment_state |-> containment,
            query |-> [scope |-> query.scope, subset_ids |-> query.subset_ids,
                       aggregation_group_size |-> query.aggregation_group_size,
                       release_kind |-> query.release_kind,
                       timestamp |-> timestamp],
            approval_granted |-> asserted,
            known |-> Len(history[query.scope])])
    /\ approvals' = Append(approvals, NoApproval)
    /\ record_decrypt_request(envelope.ciphertext_id, id)
    /\ Goto(c, "govern")
    /\ call' = [call EXCEPT ![c] = NewCall(id, FALSE)]
    /\ UNCHANGED <<clock, containment, dataVars, pending, history, releaseVars>>

\* 1. Query governance, against the history as it is now.
Evaluate(q) == Decide(q, history[q.scope])

Govern(c) ==
    /\ pc[c] = "govern"
    /\ IF allowed(Evaluate(Request(c).query))
         THEN Goto(c, "gate") /\ UNCHANGED call
         ELSE Return(c)
    /\ UNCHANGED <<clock, containment, dataVars, requests, approvalVars, history,
                   releaseVars, lineageVars>>

\* 2. ThresholdReleasePolicy.authorize, with the containment state that came
\* with the request.
HumanMissing(c) ==
    /\ ApprovalRequired(Request(c).envelope.classification)
    /\ ~ Request(c).approval_granted
    /\ ~ call[c].approving

MayDecrypt(c) ==
    Permitted("DECRYPT_RESULT", Request(c).granted, Request(c).containment_state)

\* The bytes of the file match the hash in the envelope.
Intact(c) ==
    Hash("FHE_RESULT", Request(c).path) = Request(c).envelope.result_ciphertext_hash

GatePasses(c) ==
    /\ pc[c] = "gate"
    /\ MayDecrypt(c)
    /\ Intact(c)
    /\ ~ HumanMissing(c)
    /\ Goto(c, "decrypt")
    /\ UNCHANGED <<clock, containment, dataVars, requests, approvalVars, history,
                   releaseVars, call, lineageVars>>

\* Mutant: a restricted result that lacks its approval is released.
MutGateParks(c) ==
    /\ pc[c] = "gate"
    /\ MayDecrypt(c)
    /\ Intact(c)
    /\ HumanMissing(c)
    /\ Goto(c, "decrypt")
    /\ UNCHANGED <<clock, containment, dataVars, requests, approvalVars, history,
                   releaseVars, call, lineageVars>>

\* The request is parked: first the approval record, then the context.
GateParks(c) ==
    /\ pc[c] = "gate"
    /\ MayDecrypt(c)
    /\ Intact(c)
    /\ HumanMissing(c)
    /\ approvals' = [approvals EXCEPT ![call[c].request] =
                        [state |-> "PENDING", expires |-> call[c].now + ApprovalTTL,
                         action_hash |-> Request(c).envelope.result_ciphertext_hash]]
    /\ Goto(c, "park")
    /\ UNCHANGED <<clock, containment, dataVars, requests, pending, history,
                   releaseVars, call, lineageVars>>

Park(c) ==
    /\ pc[c] = "park"
    /\ pending' = pending \cup {call[c].request}
    /\ Return(c)
    /\ UNCHANGED <<clock, containment, dataVars, requests, approvals, history,
                   releaseVars, lineageVars>>

\* The permission is missing, the file cannot be read, or its bytes do not match
\* the envelope.  For a parked request the grant is spent and the context stays.
GateRefuses(c) ==
    /\ pc[c] = "gate"
    /\ Return(c)
    /\ UNCHANGED <<clock, containment, dataVars, requests, approvalVars, history,
                   releaseVars, lineageVars>>

\* approve_decrypt: the parked context is read, then the approval is granted.
ApproveDecrypt(c, id) ==
    /\ pc[c] = "idle"
    /\ id \in pending
    /\ Goto(c, "grant")
    /\ call' = [call EXCEPT ![c] = NewCall(id, TRUE)]
    /\ UNCHANGED <<clock, containment, dataVars, requests, approvalVars, history,
                   releaseVars, lineageVars>>

\* Mutant: a granted approval can be granted again.
MutDecidable(id, now) ==
    /\ approvals[id].state \in {"PENDING", "GRANTED"}
    /\ now < approvals[id].expires

Decidable(id, now) ==
    /\ approvals[id].state = "PENDING"
    /\ now < approvals[id].expires

\* grant, then assert_granted with the same clock value, which cannot fail.
Grant(c) ==
    /\ pc[c] = "grant"
    /\ IF Decidable(call[c].request, call[c].now)
         THEN /\ approvals' = [approvals EXCEPT ![call[c].request].state = "GRANTED"]
              /\ Goto(c, "gate")
              /\ UNCHANGED call
         ELSE Return(c) /\ UNCHANGED approvals
    /\ UNCHANGED <<clock, containment, dataVars, requests, pending, history,
                   releaseVars, lineageVars>>

-----------------------------------------------------------------------------
(***************************************************************************)
(* _release_now: decrypt, account, record in lineage, publish.             *)
(***************************************************************************)

Decrypt(c) ==
    /\ pc[c] = "decrypt"
    /\ Goto(c, "account")
    /\ UNCHANGED <<clock, containment, dataVars, requests, approvalVars, history,
                   releaseVars, call, lineageVars>>

\* No broker, or its subprocess fails.
DecryptFails(c) ==
    /\ pc[c] = "decrypt"
    /\ Return(c)
    /\ UNCHANGED <<clock, containment, dataVars, requests, approvalVars, history,
                   releaseVars, lineageVars>>

\* governed_release: evaluate under the governor's lock ...
Account(c) ==
    LET decision == Evaluate(Request(c).query) IN
    /\ pc[c] = "account"
    /\ call' = [call EXCEPT ![c].decision = decision]
    /\ Goto(c, IF allowed(decision) THEN "record" ELSE "release")
    /\ UNCHANGED <<clock, containment, dataVars, requests, approvalVars, history,
                   releaseVars, lineageVars>>

\* ... and, under the lock again, record.
RecordQuery(c) ==
    LET q == Request(c).query IN
    /\ pc[c] = "record"
    /\ history' = [history EXCEPT ![q.scope] =
                      Append(@, [timestamp |-> q.timestamp, subset_ids |-> q.subset_ids])]
    /\ Goto(c, "release")
    /\ UNCHANGED <<clock, containment, dataVars, requests, approvalVars,
                   releaseVars, call, lineageVars>>

\* Only approve_decrypt hands an approval id on to lineage.
ReleaseApproval(c) == IF call[c].approving THEN {"approval_id"} ELSE {}

NewReleaseId == Len(releases) + 1

RecordRelease(c) ==
    /\ pc[c] = "release"
    /\ releases' = Append(releases, call[c].request)
    /\ record_release(call[c].request, NewReleaseId,
                      Request(c).envelope.result_ciphertext_hash, ReleaseApproval(c))
    /\ call' = [call EXCEPT ![c].release = NewReleaseId]
    /\ Goto(c, "publish")
    /\ UNCHANGED <<clock, containment, dataVars, requests, approvalVars, history, results>>

Publish(c) ==
    /\ pc[c] = "publish"
    /\ results' = Append(results,
           [request |-> call[c].request, release |-> call[c].release])
    /\ IF call[c].approving
         THEN Goto(c, "unpark") /\ UNCHANGED call
         ELSE Return(c)
    /\ UNCHANGED <<clock, containment, dataVars, requests, approvalVars, history,
                   releases, lineageVars>>

Unpark(c) ==
    /\ pc[c] = "unpark"
    /\ pending' = pending \ {call[c].request}
    /\ Return(c)
    /\ UNCHANGED <<clock, containment, dataVars, requests, approvals, history,
                   releaseVars, lineageVars>>

-----------------------------------------------------------------------------
(***************************************************************************)
(* The environment: time, and the containment engine moving the recipient. *)
(***************************************************************************)

Tick ==
    /\ clock < MaxTime
    /\ clock' = clock + 1
    /\ UNCHANGED <<containment, dataVars, requests, approvalVars, history,
                   releaseVars, callerVars, lineageVars>>

Contain(state) ==
    /\ containment # state
    /\ containment' = state
    /\ UNCHANGED <<clock, dataVars, requests, approvalVars, history,
                   releaseVars, callerVars, lineageVars>>

\* Nothing more has to happen once no call is running.
ReleaseIdle ==
    /\ \A c \in Callers : pc[c] = "idle"
    /\ UNCHANGED releaseAllVars

CallerStep(c) ==
    \/ Govern(c)
    \/ GatePasses(c)
    \/ GateParks(c)
    \/ GateRefuses(c)
    \/ Park(c)
    \/ Grant(c)
    \/ Decrypt(c)
    \/ DecryptFails(c)
    \/ Account(c)
    \/ RecordQuery(c)
    \/ RecordRelease(c)
    \/ Publish(c)
    \/ Unpark(c)

Data ==
    \E granted \in Grants :
        \/ \E d \in Datasets : Encrypt(d, granted)
        \/ \E p \in Programs, parent \in CiphertextIds : Compute(p, parent, granted)

Arrive(c) ==
    \/ \E f \in Files, e \in Envelopes, g \in Grants, q \in Queries,
          t \in Timestamps, a \in Assertions : DecryptRequest(c, f, e, g, q, t, a)
    \/ \E id \in pending : ApproveDecrypt(c, id)

ReleaseNext ==
    \/ Data
    \/ \E c \in Callers : Arrive(c) \/ CallerStep(c)
    \/ Tick
    \/ \E s \in Containments : Contain(s)
    \/ ReleaseIdle

ReleaseSpec == ReleaseInit /\ [][ReleaseNext]_releaseAllVars

-----------------------------------------------------------------------------
(***************************************************************************)
(* Properties.                                                             *)
(***************************************************************************)

RequestIds == 1..Len(requests)

\* Every variable keeps its type, and a caller past its entry serves a request
\* that exists; one that is about to publish has drawn its own release id.
ReleaseTypeOK ==
    /\ clock \in 0..MaxTime
    /\ containment \in States
    /\ pending \subseteq RequestIds
    /\ DOMAIN approvals = RequestIds
    /\ \A id \in RequestIds :
          /\ requests[id].path \in Files
          /\ requests[id].envelope \in Envelopes
          /\ approvals[id].state \in {"NONE", "PENDING", "GRANTED"}
    /\ \A c \in Callers :
          pc[c] # "idle" =>
              /\ call[c].request \in RequestIds
              /\ call[c].decision \in Decisions
              /\ pc[c] = "publish" => releases[call[c].release] = call[c].request

\* A decrypt request yields at most one published result, however many
\* approvers act on it while it is parked (approve_decrypt reads the parked
\* context before it grants, and removes it only after publication).
ReleasedOnce ==
    \A i, j \in DOMAIN results : results[i].request = results[j].request => i = j

\* A value that its requester labelled confidential or secret leaves only when
\* the requester vouched for an approval (cac_service.py:202), or under a
\* granted approval of that very request which names the hash of the very file
\* that was decrypted, however long the request was parked in between.
HumanApproved ==
    \A i \in DOMAIN results :
        LET id == results[i].request
            request == requests[id]
        IN  ApprovalRequired(request.envelope.classification) =>
                \/ request.approval_granted
                \/ /\ approvals[id].state = "GRANTED"
                   /\ approvals[id].action_hash = Hash("FHE_RESULT", request.path)

\* What the lineage holds above a result: its program, and every ciphertext any
\* result of that program was computed from, since a program is one node.
Provenance(result) ==
    LET siblings == {r \in DOMAIN computed :
                        computed[r].program = computed[result].program}
        parents == {computed[r].parent : r \in siblings}
    IN  IF result \notin DOMAIN computed THEN {}
        ELSE {<<"PROGRAM", computed[result].program>>}
               \cup {<<"CIPHERTEXT", p>> : p \in parents}
               \cup {<<"DATASET", ciphertexts[p]>> : p \in parents \cap DOMAIN ciphertexts}

\* Tracing a published result gives its request, the result its envelope named
\* and exactly what the service knows about that one: nothing when it never
\* returned the name, and the inputs of every computation with the same program
\* when it did.  The release carries the hash of the file that was decrypted,
\* and the same hash stands on the named result precisely when that file is the
\* result, however often its node was mentioned again as a bare reference
\* (LineageGraph.trace, _add_node).
Traceable ==
    \A i \in DOMAIN results :
        LET id == results[i].request
            released == <<"RELEASED_RESULT", results[i].release>>
            named == requests[id].envelope.ciphertext_id
        IN  /\ trace(released) =
                  {released, <<"DECRYPT_REQUEST", id>>, <<"RESULT", named>>}
                      \cup Provenance(named)
            /\ nodes[released].ref_hash = Hash("FHE_RESULT", requests[id].path)
            /\ nodes[released].ref_hash = nodes[<<"RESULT", named>>].ref_hash
                  <=> requests[id].path = <<"RESULT", named>>

\* The releases of scope s accounted for in the window that starts at x.
AccountedIn(s, x) ==
    {i \in DOMAIN history[s] :
        /\ x <= history[s][i].timestamp
        /\ history[s][i].timestamp <= x + Policy.window_seconds}

\* No rolling window of a scope exceeds its limit of accounted releases by more
\* than the calls that can overlap, whatever order the callers' timestamps come
\* in: each call evaluates in one locked region and records in another, so those
\* between the two regions may exceed it together, and nobody else
\* (governed_release).
BudgetOvershootBounded ==
    Policy.max_decrypts_per_window # Unset =>
        \A s \in Scopes : \A i \in DOMAIN history[s] :
            Cardinality(AccountedIn(s, history[s][i].timestamp))
                <= Policy.max_decrypts_per_window + Cardinality(Callers) - 1

\* The record sets of two releases single records out by their difference or by
\* their overlap.
Leaks(p, q) ==
    /\ p # {} /\ q # {}
    /\ Differencing(p, q) \/ Overlapping(p, q)

\* Nothing is published, directly or after it was parked, that singles records
\* out together with a release of its window which had been accounted for when
\* the request came in (decrypt_request, evaluate).
NoLeakPattern ==
    \A i \in DOMAIN results :
        LET request == requests[results[i].request]
            q == request.query
        IN  \A k \in 1..request.known :
                LET earlier == history[q.scope][k] IN
                q.timestamp <= earlier.timestamp + Policy.window_seconds =>
                    ~ Leaks(q.subset_ids, earlier.subset_ids)

=============================================================================

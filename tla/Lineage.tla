------------------------------ MODULE Lineage ------------------------------
(***************************************************************************)
(* LineageGraph (cvztte/lineage/graph.py, models.py): the provenance graph *)
(* dataset -> ciphertext -> program -> result -> request -> release.       *)
(*                                                                         *)
(* A node is identified by its kind and business reference alone; the hash *)
(* of the value it stands for and attribute names ride on it.  Every       *)
(* record_* method is one locked region, so each operator below is one     *)
(* step of its caller.                                                     *)
(***************************************************************************)
EXTENDS Integers, FiniteSets, Sequences

VARIABLES
    nodes,  \* _nodes: <<kind, ref>> -> [ref_hash, attributes]
    edges   \* _edges: pairs of nodes; each pair has one possible relation

lineageVars == <<nodes, edges>>

LineageInit ==
    /\ nodes = <<>>
    /\ edges = {}

\* The domain-separated hash of a file's bytes; different files differ in it.
Hash(domain, file) == <<domain, file>>
NoHash == <<"NONE", "NONE">>

Bare == [ref_hash |-> NoHash, attributes |-> {}]
Pinned(hash, attributes) == [ref_hash |-> hash, attributes |-> attributes]
Labelled(attributes) == [ref_hash |-> NoHash, attributes |-> attributes]

HasHash(node) == node.ref_hash # NoHash

\* Mutant: the latest record wins.
MutLatestWins(candidate, existing) == TRUE

\* Tuple comparison of _richer: the hash first, then the number of attributes.
richer(candidate, existing) ==
    \/ HasHash(candidate) /\ ~ HasHash(existing)
    \/ /\ HasHash(candidate) <=> HasHash(existing)
       /\ Cardinality(candidate.attributes) > Cardinality(existing.attributes)

\* _add_node for a function of new nodes: the richer record is kept.
AddNodes(known, new) ==
    [n \in DOMAIN known \cup DOMAIN new |->
        IF n \notin DOMAIN known THEN new[n]
        ELSE IF n \notin DOMAIN new THEN known[n]
        ELSE IF richer(new[n], known[n]) THEN new[n] ELSE known[n]]

Record(new, links) ==
    /\ nodes' = AddNodes(nodes, new)
    /\ edges' = edges \cup links

record_ciphertext(dataset, ct, hash) ==
    Record([n \in {<<"DATASET", dataset>>, <<"CIPHERTEXT", ct>>} |->
               IF n[1] = "CIPHERTEXT"
               THEN Pinned(hash, {"classification", "context_id", "key_epoch"})
               ELSE Bare],
           {<< <<"DATASET", dataset>>, <<"CIPHERTEXT", ct>> >>})

record_result(parent, program, result, hash) ==
    Record([n \in {<<"CIPHERTEXT", parent>>, <<"PROGRAM", program>>, <<"RESULT", result>>} |->
               IF n[1] = "RESULT" THEN Pinned(hash, {"lineage_id"})
               ELSE IF n[1] = "PROGRAM" THEN Labelled({"version"}) ELSE Bare],
           {<< <<"CIPHERTEXT", parent>>, <<"PROGRAM", program>> >>,
            << <<"PROGRAM", program>>, <<"RESULT", result>> >>})

RequestNodes(result, request) ==
    [n \in {<<"RESULT", result>>, <<"DECRYPT_REQUEST", request>>} |->
        IF n[1] = "DECRYPT_REQUEST" THEN Labelled({"requester", "purpose"}) ELSE Bare]

record_decrypt_request(result, request) ==
    Record(RequestNodes(result, request),
           {<< <<"RESULT", result>>, <<"DECRYPT_REQUEST", request>> >>})

\* approval is the set {"approval_id"} if the caller passes one, else empty.
record_release(request, release, hash, approval) ==
    Record([n \in {<<"DECRYPT_REQUEST", request>>, <<"RELEASED_RESULT", release>>} |->
               IF n[1] = "RELEASED_RESULT" THEN Pinned(hash, {"recipient"} \cup approval)
               ELSE Bare],
           {<< <<"DECRYPT_REQUEST", request>>, <<"RELEASED_RESULT", release>> >>})

Parents(S) == {e[1] : e \in {x \in edges : x[2] \in S}}
Upward(S) == S \cup Parents(S)

\* trace: the node and all its ancestors (their order is left out).  Every
\* edge goes one level down a chain of six kinds, so five rounds reach the
\* roots.
trace(node) ==
    Upward(Upward(Upward(Upward(Upward({node}))))) \cap DOMAIN nodes

=============================================================================

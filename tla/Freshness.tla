----------------------------- MODULE Freshness ------------------------------
(***************************************************************************)
(* The request freshness guard kept in Redis (replay/redis_freshness.py    *)
(* and the script replay_atomic.lua it runs as one EVAL).                  *)
(*                                                                         *)
(* A session has a set of nonces, whose expiry every commit puts off, and  *)
(* a sequence number that never expires.                                   *)
(***************************************************************************)
EXTENDS Integers, Sequences, FiniteSets

CONSTANTS
    Sessions,
    NonceTTL        \* nonce_ttl_seconds, in ticks

ASSUME NonceAssumption == NonceTTL \in Nat \ {0}

VARIABLES
    now,            \* the clock of the servers
    nonces,         \* per session: [set, expires]
    lastSeq,        \* per session: the last sequence committed, -1 at first
    committed       \* history: the requests committed, in order

freshVars == <<nonces, lastSeq, committed>>

FreshInit ==
    /\ nonces = [s \in Sessions |-> [set |-> {}, expires |-> 0]]
    /\ lastSeq = [s \in Sessions |-> -1]
    /\ committed = <<>>

sismember(s, nonce) == now < nonces[s].expires /\ nonce \in nonces[s].set

\* As if the comparison let an equal sequence number through.
MutSeqEqual(s, seq) == seq < lastSeq[s]

SequenceInvalid(s, seq) == seq <= lastSeq[s]

script_result(r) ==
    IF sismember(r.session, r.nonce) THEN "NONCE_REPLAY"
    ELSE IF SequenceInvalid(r.session, r.seq) THEN "SEQUENCE_INVALID"
    ELSE "OK"

\* What the script writes when it returns OK.
CommitFresh(r) ==
    LET s == r.session
        live == IF now < nonces[s].expires THEN nonces[s].set ELSE {}
    IN /\ nonces' = [nonces EXCEPT ![s] = [set |-> live \cup {r.nonce},
                                           expires |-> now + NonceTTL]]
       /\ lastSeq' = [lastSeq EXCEPT ![s] = r.seq]
       /\ committed' = Append(committed, r)

-----------------------------------------------------------------------------
\* However copies of the requests are delayed, duplicated and reordered, and
\* whatever nonces have expired in the meantime, a request is committed at
\* most once, and never after a later request of its session: the sequence
\* key that never expires carries what the nonce set forgets.
FreshAndInOrder ==
    \A i, j \in DOMAIN committed :
        i < j /\ committed[i].session = committed[j].session
            => committed[i].seq < committed[j].seq

=============================================================================

------------------------------ MODULE AuditLog ------------------------------
(***************************************************************************)
(* The hash-chained audit log and its signed checkpoints (audit/log.py).   *)
(*                                                                         *)
(* Hashes do not collide, so the hash of an event is the chain of bodies   *)
(* it commits to: that of its prev_hash, and its own.  append, verify and  *)
(* the reading of the head each hold the lock throughout and are one step; *)
(* checkpoint takes the lock twice.  Alter, Remove and Truncate are the    *)
(* faults the chain is for: what is stored changes, the links stay as they *)
(* were.                                                                   *)
(***************************************************************************)
EXTENDS Naturals, Sequences

VARIABLES
    events,         \* _events
    checkpoints,    \* the signed checkpoints handed out
    sealed          \* history: at each position, the payload stored there when
                    \* the entry after it was appended

Genesis == <<>>

event_hash(e) == Append(e.prev_hash, [seq |-> e.seq, payload |-> e.payload])

head_hash == IF events = <<>> THEN Genesis ELSE event_hash(events[Len(events)])

append(payload) ==
    /\ events' = Append(events, [seq |-> Len(events), payload |-> payload,
                                 prev_hash |-> head_hash])
    /\ sealed' = [i \in DOMAIN events |->
                     IF i = Len(events) THEN events[i].payload ELSE sealed[i]]

\* As if only the sequence numbers were re-walked.
MutSeqOnly == \A i \in DOMAIN events : events[i].seq = i - 1

verify ==
    \A i \in DOMAIN events :
        /\ events[i].seq = i - 1
        /\ events[i].prev_hash = IF i = 1 THEN Genesis
                                 ELSE event_hash(events[i - 1])

\* What a checkpoint signs, read under the second acquisition of the lock.
HeadBody == [covers_through_seq |-> Len(events) - 1, head_hash |-> head_hash]

\* The payloads as they are stored.
Stored == [i \in DOMAIN events |-> events[i].payload]

\* The hash of a log that holds these payloads, none lost and none altered.
Chain(log, n) == [i \in 1..n |-> [seq |-> i - 1, payload |-> log[i]]]

Alter(i, payload) == events' = [events EXCEPT ![i].payload = payload]

Remove(k) ==
    events' = [i \in 1..(Len(events) - 1) |-> IF i < k THEN events[i] ELSE events[i + 1]]

Truncate(n) == events' = SubSeq(events, 1, n)

=============================================================================

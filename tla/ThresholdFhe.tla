---------------------------- MODULE ThresholdFhe ----------------------------
(***************************************************************************)
(* The N-of-N key ceremony and the distributed decryption                  *)
(* (cac/threshold/authority.py, coordinator.py, service.py and             *)
(* services/decrypt-coordinator/main.py) beside the broker client.         *)
(*                                                                         *)
(* Each round of the ceremony and each partial decryption is a subprocess  *)
(* of its own.  A round writes the party's share and then the public key   *)
(* file named after the party; a round that fails leaves the first without *)
(* the second, and the ceremony is abandoned.  Nothing stops a second      *)
(* ceremony from starting meanwhile or later, and it uses the same files.  *)
(***************************************************************************)
EXTENDS FheBroker

CONSTANTS
    PartyOrder,     \* the participants, lead first
    Rosters,        \* participant lists of decryption jobs
    MaxGens         \* bound on the shares one party generates

Parties == {PartyOrder[k] : k \in DOMAIN PartyOrder}
N == Len(PartyOrder)

\* ThresholdKeyCeremony.__init__; the participants have different names, since
\* their files are named after them.
ASSUME CeremonyAssumption ==
    /\ PartyOrder \in Seq(Parties)
    /\ N >= 2
    /\ \A j, k \in DOMAIN PartyOrder : PartyOrder[j] = PartyOrder[k] => j = k
    /\ BrokerParty \notin Parties
    /\ \A s \in Rosters : s \in Seq(Parties)

VARIABLES
    gen,        \* how often each party has generated its share
    pubFile,    \* ceremony/<context>/pub-<party>.bin
    agreed      \* history: the last ceremony ran alone and none began since

vars == <<brokerVars, gen, pubFile, agreed>>

Init ==
    /\ BrokerInit
    /\ gen = [p \in Parties |-> 0]
    /\ pubFile = [p \in Parties |-> NoKey]
    /\ agreed = FALSE

Ceremonies == {t \in Threads : Doing(t, "ceremony")}

\* mp-gen-context rewrites the parameters only: the keys of an earlier
\* ceremony stay in the directory.
provision(t) ==
    /\ Idle(t)
    /\ job' = [c \in Threads |->
           IF c = t THEN [op |-> "ceremony", next |-> 1,
                          alone |-> Ceremonies = {}]
           ELSE IF c \in Ceremonies THEN [job[c] EXCEPT !.alone = FALSE]
           ELSE job[c]]
    /\ agreed' = FALSE
    /\ UNCHANGED <<registered, dir, files, gens, gen, pubFile>>

\* As if the loop never advanced pub: every join extends the lead's key.
MutJoinLead(k) == IF k = 1 THEN NoKey ELSE pubFile[PartyOrder[1]]

\* keygen_lead starts a key, keygen_join extends the one in the file the
\* previous participant wrote.
PrevPub(k) == IF k = 1 THEN NoKey ELSE pubFile[PartyOrder[k - 1]]

\* The share file holds the last share generated.
share(p) == IF gen[p] = 0 THEN NoKey ELSE Share(p, gen[p])

\* As if a file left by an earlier attempt were kept.
MutKeepFile(k, new) ==
    IF pubFile[PartyOrder[k]] # NoKey THEN pubFile[PartyOrder[k]]
    ELSE PrevPub(k) \cup new

OutPub(k, new) == PrevPub(k) \cup new

\* Round k; mp-keygen-* writes the share before the public key.
KeygenRound(t) ==
    LET k == job[t].next
        p == PartyOrder[k]
    IN
    /\ Doing(t, "ceremony") /\ k <= N
    /\ gen[p] < MaxGens
    /\ gen' = [gen EXCEPT ![p] = @ + 1]
    /\ pubFile' = [pubFile EXCEPT ![p] = OutPub(k, Share(p, gen[p] + 1))]
    /\ job' = [job EXCEPT ![t].next = k + 1]
    /\ UNCHANGED <<registered, dir, files, gens, agreed>>

\* A round that fails, before or after the share is written, ends it all.
KeygenFails(t) ==
    LET p == PartyOrder[job[t].next] IN
    /\ Doing(t, "ceremony") /\ job[t].next <= N
    /\ \/ UNCHANGED gen
       \/ gen[p] < MaxGens /\ gen' = [gen EXCEPT ![p] = @ + 1]
    /\ End(t)
    /\ UNCHANGED <<registered, dir, files, gens, pubFile, agreed>>

\* mp-install-public writes the public key, then the evaluation key.
InstallPublic(t) ==
    LET key == pubFile[PartyOrder[N]] IN
    /\ Doing(t, "ceremony") /\ job[t].next = N + 1
    /\ \/ dir' = dir /\ agreed' = FALSE
       \/ dir' = [dir EXCEPT !.pub = key] /\ agreed' = FALSE
       \/ /\ dir' = [dir EXCEPT !.pub = key, !.eval = key]
          /\ agreed' = (job[t].alone /\ Ceremonies = {t})
    /\ End(t)
    /\ UNCHANGED <<registered, files, gens, gen, pubFile>>

\* The decrypt service passes the number of participants of its job, a caller
\* of the class passes the number of parties.
expected_parties(present) == {Len(present), N}

\* DecryptCoordinator.decrypt up to the release gate: the participants are
\* counted, then the gate may refuse.
coordinate(t, i, present, expected) ==
    /\ Len(present) = expected
    /\ Start(t, [op |-> "partials", file |-> i, present |-> present,
                 got |-> {}, next |-> 1])
    /\ UNCHANGED <<registered, dir, files, gens, gen, pubFile, agreed>>

\* Each participant uses the share it holds at that moment.
PartialDecrypt(t) ==
    LET p == job[t].present[job[t].next] IN
    /\ Doing(t, "partials") /\ job[t].next <= Len(job[t].present)
    /\ gen[p] # 0
    /\ job' = [job EXCEPT ![t].got = @ \cup share(p), ![t].next = @ + 1]
    /\ UNCHANGED <<registered, dir, files, gens, gen, pubFile, agreed>>

PartialFails(t) ==
    /\ Doing(t, "partials")
    /\ End(t)
    /\ UNCHANGED <<registered, dir, files, gens, gen, pubFile, agreed>>

\* Fusing adds the partials: the plaintext when they cancel the key, numbers
\* without meaning otherwise.
Fuse(t) ==
    LET j == job[t] IN
    /\ Doing(t, "partials") /\ j.next > Len(j.present)
    /\ job' = [job EXCEPT ![t] =
           [op |-> "values", file |-> j.file,
            by |-> {j.present[k] : k \in DOMAIN j.present},
            right |-> files[j.file].sound /\ files[j.file].key = j.got]]
    /\ UNCHANGED <<registered, dir, files, gens, gen, pubFile, agreed>>

Return(t) ==
    /\ Doing(t, "values")
    /\ End(t)
    /\ UNCHANGED <<registered, dir, files, gens, gen, pubFile, agreed>>

Next ==
    \/ \E d \in Declarations, s \in Statuses :
          register(d, s) /\ UNCHANGED <<gen, pubFile, agreed>>
    \/ \E t \in Threads :
          \/ BrokerNext(t) /\ UNCHANGED <<gen, pubFile, agreed>>
          \/ provision(t) \/ KeygenRound(t) \/ KeygenFails(t) \/ InstallPublic(t)
          \/ \E i \in DOMAIN files, s \in Rosters : \E e \in expected_parties(s) :
                coordinate(t, i, s, e)
          \/ PartialDecrypt(t) \/ PartialFails(t) \/ Fuse(t) \/ Return(t)

Spec == Init /\ [][Next]_vars

-----------------------------------------------------------------------------
Complete(key) == \A p \in Parties : \E s \in key : s.party = p

\* Whatever rounds fail, are retried or overlap, a public key that data is
\* encrypted under is the broker's own or has a share of every party, and no
\* decryption that left a party out returns the plaintext: no ceremony ever
\* leaves a key that fewer than all parties can undo (coordinator.py,
\* "genuine OpenFHE N-of-N").
AllPartiesNeeded ==
    /\ \A key \in {dir.pub} \cup {files[i].key : i \in DOMAIN files} :
          key # NoKey => key \subseteq [party : {BrokerParty}, n : Nat]
                         \/ Complete(key)
    /\ \A t \in Threads :
          Doing(t, "values") /\ job[t].right => job[t].by \in {{BrokerParty}, Parties}

\* A ceremony that ran alone repairs whatever earlier attempts left behind:
\* the installed key is exactly the sum of the shares the parties hold, so
\* everything encrypted under it can be decrypted.
RetryHeals ==
    agreed /\ dir.pub \cap [party : {BrokerParty}, n : Nat] = {} =>
        dir.pub = UNION {share(p) : p \in Parties}

=============================================================================

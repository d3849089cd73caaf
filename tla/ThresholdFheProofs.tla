------------------------- MODULE ThresholdFheProofs -------------------------
(***************************************************************************)
(* Proofs about the key ceremony and the distributed decryption, for any   *)
(* number of parties, threads, ciphertext files and repeated ceremonies.   *)
(*                                                                         *)
(* The public key file of the k-th party, once written, holds a share of   *)
(* each of the first k parties whichever ceremonies wrote the files before *)
(* it: that is all an interrupted or overlapping ceremony can rely on.  A  *)
(* ceremony that ran alone knows more, namely that each file it wrote is   *)
(* the sum of the shares the parties hold now.                             *)
(***************************************************************************)
EXTENDS ThresholdFhe, TLAPS

Secrets == [party : Parties \cup {BrokerParty}, n : Nat]

\* Keys that data is encrypted under: the broker's own, or a joint one.
BrokersOwn(key) == key \subseteq [party : {BrokerParty}, n : Nat]
GoodKeys == {key \in SUBSET Secrets : key # NoKey /\ (BrokersOwn(key) \/ Complete(key))}

Dirs == [pub : GoodKeys \cup {NoKey}, sec : SUBSET Secrets, eval : SUBSET Secrets]
Envelopes == [key : GoodKeys, ctx : Declarations, allowed : AllowedSets \cup {{}},
              parent : Nat, sound : BOOLEAN]

CeremonyJobs == [op : {"ceremony"}, next : 1..(N + 1), alone : BOOLEAN]
PartialsJobs == [op : {"partials"}, file : Nat, present : Rosters, got : SUBSET Secrets,
                 next : Nat \ {0}]
ValuesJobs == [op : {"values"}, file : Nat, by : SUBSET (Parties \cup {BrokerParty}),
               right : BOOLEAN]
ClientJobs ==
    [op : {"provision"}, decl : Declarations]
    \cup [op : {"encrypt"}, ctx : Declarations, allowed : AllowedSets]
    \cup [op : {"evaluate"}, ctx : Declarations, input : Nat]
Jobs == CeremonyJobs \cup PartialsJobs \cup ValuesJobs \cup ClientJobs

\* What holds of a job beside n ciphertext files and these public key files.
JobOK(j, n, pub) ==
    /\ j.op = "ceremony" => \A k \in 1..N : k < j.next => pub[PartyOrder[k]] # NoKey
    /\ j.op = "partials" =>
          /\ j.file \in 1..n
          /\ \A s \in j.got : \E k \in DOMAIN j.present : s.party = j.present[k]
    /\ j.op = "values" => (j.right => j.by \in {{BrokerParty}, Parties})
    /\ j.op = "evaluate" => j.input \in 1..n

JobsOK ==
    /\ job \in [Threads -> Jobs \cup {NoJob}]
    /\ \A t \in Threads : job[t] # NoJob => JobOK(job[t], Len(files), pubFile)

ShareOf(k, key) == \E s \in key : s.party = PartyOrder[k]

KeysOK ==
    /\ gens \in Nat
    /\ gen \in [Parties -> Nat]
    /\ pubFile \in [Parties -> SUBSET Secrets]
    /\ \A k \in 1..N : pubFile[PartyOrder[k]] # NoKey =>
          \A j \in 1..k : ShareOf(j, pubFile[PartyOrder[k]])

\* A ceremony that is alone has summed up the shares held now.
Sum(k) == UNION {share(PartyOrder[j]) : j \in 1..k}

AloneOK ==
    \A t \in Threads : Doing(t, "ceremony") /\ job[t].alone =>
        /\ Ceremonies = {t}
        /\ \A k \in 1..N : k < job[t].next => pubFile[PartyOrder[k]] = Sum(k)

AgreedOK ==
    agreed => /\ Ceremonies = {}
              /\ \/ dir.pub = Sum(N)
                 \/ \E n \in Nat : dir.pub = Share(BrokerParty, n)

\* The inductive invariant.
FheInv ==
    /\ agreed \in BOOLEAN /\ dir \in Dirs /\ files \in Seq(Envelopes)
    /\ JobsOK /\ KeysOK /\ AloneOK /\ AgreedOK


-----------------------------------------------------------------------------
\* The participants, by position.
LEMMA OrderFacts ==
    /\ N \in Nat /\ N >= 2 /\ DOMAIN PartyOrder = 1..N
    /\ \A k \in 1..N : PartyOrder[k] \in Parties
    /\ \A p \in Parties : \E k \in 1..N : p = PartyOrder[k]
    /\ \A j, k \in 1..N : PartyOrder[j] = PartyOrder[k] => j = k
    /\ BrokerParty \notin Parties
<1>1. PartyOrder \in Seq(Parties) BY CeremonyAssumption
<1>2. N \in Nat /\ DOMAIN PartyOrder = 1..N BY <1>1 DEF N
<1>3. QED BY <1>2, CeremonyAssumption DEF Parties

\* The operation of a job tells which record it is.
LEMMA JobByOp ==
    ASSUME NEW j \in Jobs
    PROVE  /\ j.op = "ceremony" => j \in CeremonyJobs
           /\ j.op = "partials" => j \in PartialsJobs
           /\ j.op = "values" => j \in ValuesJobs
           /\ j.op = "encrypt" => j.ctx \in Declarations /\ j.allowed \in AllowedSets
           /\ j.op = "evaluate" => j.ctx \in Declarations /\ j.input \in Nat
BY DEF Jobs, CeremonyJobs, PartialsJobs, ValuesJobs, ClientJobs

\* The sums depend on the shares alone.
LEMMA SumKept == ASSUME UNCHANGED gen PROVE \A k : Sum(k)' = Sum(k)
BY DEF Sum, share

\* One thread's job is replaced by another that is neither ceremony.
LEMMA CeremoniesKept ==
    ASSUME JobsOK, NEW t \in Threads, NEW x, job' = [job EXCEPT ![t] = x],
           ~ Doing(t, "ceremony"), x = NoJob \/ x.op # "ceremony"
    PROVE  /\ Ceremonies' = Ceremonies
           /\ \A u \in Threads : Doing(u, "ceremony")' =>
                 Doing(u, "ceremony") /\ job'[u] = job[u]
<1>1. job'[t] = x /\ \A u \in Threads \ {t} : job'[u] = job[u] BY DEF JobsOK
<1>2. ASSUME NEW u \in Threads PROVE Doing(u, "ceremony")' <=> Doing(u, "ceremony")
  BY <1>1, <1>2 DEF Doing
<1>3. Ceremonies' = Ceremonies BY <1>2 DEF Ceremonies
<1>4. QED BY <1>1, <1>2, <1>3 DEF Doing

\* The jobs stay sound when one is replaced by a sound one and files are added.
LEMMA JobsStay ==
    ASSUME JobsOK, NEW t \in Threads, NEW x \in Jobs \cup {NoJob},
           job' = [job EXCEPT ![t] = x], Len(files) \in Nat,
           Len(files') \in Nat, Len(files) <= Len(files'),
           \A k \in 1..N : pubFile[PartyOrder[k]] # NoKey =>
                               pubFile'[PartyOrder[k]] # NoKey,
           x # NoJob => JobOK(x, Len(files'), pubFile')
    PROVE  JobsOK'
<1>1. job' \in [Threads -> Jobs \cup {NoJob}] BY DEF JobsOK
<1>2. job'[t] = x /\ \A u \in Threads \ {t} : job'[u] = job[u] BY DEF JobsOK
<1>3. 1..Len(files) \subseteq 1..Len(files') OBVIOUS
<1>4. ASSUME NEW u \in Threads, job'[u] # NoJob
      PROVE  JobOK(job'[u], Len(files'), pubFile')
  <2>1. CASE u = t BY <1>2, <1>4, <2>1
  <2>2. CASE u # t
    <3>1. job'[u] = job[u] /\ JobOK(job[u], Len(files), pubFile)
      BY <1>2, <1>4, <2>2 DEF JobsOK
    <3>2. QED BY <1>3, <3>1 DEF JobOK
  <2>3. QED BY <2>1, <2>2
<1>5. QED BY <1>1, <1>4 DEF JobsOK

\* Every step of the broker client and of a decryption: no ceremony moves, a
\* ciphertext file may be added and the broker may install a key of its own.
LEMMA OtherStep ==
    ASSUME FheInv, NEW t \in Threads, NEW x \in Jobs \cup {NoJob},
           job' = [job EXCEPT ![t] = x],
           ~ Doing(t, "ceremony"), x = NoJob \/ x.op # "ceremony",
           x # NoJob => JobOK(x, Len(files), pubFile),
           UNCHANGED <<gen, pubFile, agreed>>,
           gens' \in Nat,
           files' = files \/ \E f \in Envelopes : files' = Append(files, f),
           dir' \in Dirs,
           dir'.pub = dir.pub \/ \E n \in Nat : dir'.pub = Share(BrokerParty, n)
    PROVE  FheInv'
<1>1. files \in Seq(Envelopes) /\ Len(files) \in Nat BY DEF FheInv
<1>2. files' \in Seq(Envelopes) /\ Len(files') \in Nat /\ Len(files) <= Len(files')
  <2>1. CASE files' = files BY <1>1, <2>1
  <2>2. CASE \E f \in Envelopes : files' = Append(files, f)
    <3>1. PICK f \in Envelopes : files' = Append(files, f) BY <2>2
    <3>2. QED BY <1>1, <3>1
  <2>3. QED BY <2>1, <2>2
<1>3. x # NoJob => JobOK(x, Len(files'), pubFile')
  <2>1. 1..Len(files) \subseteq 1..Len(files') BY <1>1, <1>2
  <2>2. QED BY <2>1 DEF JobOK
<1>4. JobsOK' BY <1>1, <1>2, <1>3, JobsStay DEF FheInv
<1>5. KeysOK' BY DEF FheInv, KeysOK, ShareOf
<1>6. \A k : Sum(k)' = Sum(k) BY SumKept
<1>7. /\ Ceremonies' = Ceremonies
      /\ \A u \in Threads : Doing(u, "ceremony")' =>
            Doing(u, "ceremony") /\ job'[u] = job[u]
  BY CeremoniesKept DEF FheInv
<1>8. AloneOK'
  <2> SUFFICES ASSUME NEW u \in Threads, Doing(u, "ceremony")', job'[u].alone
               PROVE  /\ Ceremonies' = {u}
                      /\ \A k \in 1..N : k < job'[u].next =>
                            pubFile'[PartyOrder[k]] = Sum(k)'
    BY DEF AloneOK
  <2>1. Doing(u, "ceremony") /\ job'[u] = job[u] BY <1>7
  <2>2. QED BY <1>6, <1>7, <2>1 DEF FheInv, AloneOK
<1>9. AgreedOK'
  <2> SUFFICES ASSUME agreed
               PROVE  /\ Ceremonies' = {}
                      /\ \/ dir'.pub = Sum(N)'
                         \/ \E n \in Nat : dir'.pub = Share(BrokerParty, n)
    BY DEF AgreedOK
  <2>1. /\ Ceremonies = {}
        /\ \/ dir.pub = Sum(N)
           \/ \E n \in Nat : dir.pub = Share(BrokerParty, n)
    BY DEF FheInv, AgreedOK
  <2>2. QED BY <1>6, <1>7, <2>1
<1>10. QED BY <1>2, <1>4, <1>5, <1>8, <1>9 DEF FheInv

-----------------------------------------------------------------------------
\* It holds initially.
LEMMA InitHolds == Init => FheInv
<1> SUFFICES ASSUME Init PROVE FheInv OBVIOUS
<1> USE DEF Init, BrokerInit, NoKey
<1>1. files \in Seq(Envelopes) OBVIOUS
<1>2. agreed \in BOOLEAN /\ dir \in Dirs BY DEF Dirs
<1>3. JobsOK BY DEF JobsOK
<1>4. KeysOK BY OrderFacts DEF KeysOK
<1>5. AloneOK BY DEF AloneOK, Doing
<1>6. AgreedOK BY DEF AgreedOK
<1>7. QED BY <1>1, <1>2, <1>3, <1>4, <1>5, <1>6 DEF FheInv

\* register replaces a declaration; no key, file or job depends on it.
LEMMA RegisterKeeps ==
    ASSUME FheInv, NEW d \in Declarations, NEW s \in Statuses, register(d, s),
           UNCHANGED <<gen, pubFile, agreed>>
    PROVE  FheInv'
<1>1. UNCHANGED <<dir, files, gens, job, gen, pubFile, agreed>> BY DEF register
<1>2. JobsOK' BY <1>1 DEF FheInv, JobsOK
<1>3. KeysOK' BY <1>1 DEF FheInv, KeysOK
<1>4. AloneOK' BY <1>1 DEF FheInv, AloneOK, Ceremonies, Doing, Sum, share
<1>5. AgreedOK' BY <1>1 DEF FheInv, AgreedOK, Ceremonies, Doing, Sum, share
<1>6. QED BY <1>1, <1>2, <1>3, <1>4, <1>5 DEF FheInv


-----------------------------------------------------------------------------
\* The client's calls start on an idle thread and what they start is no ceremony.
LEMMA StartKeeps ==
    ASSUME FheInv, NEW t \in Threads, NEW x \in Jobs, Start(t, x),
           x.op # "ceremony", JobOK(x, Len(files), pubFile),
           UNCHANGED <<dir, files, gens, gen, pubFile, agreed>>
    PROVE  FheInv'
<1>1. job' = [job EXCEPT ![t] = x] /\ ~ Doing(t, "ceremony") BY DEF Start, Idle, Doing
<1>2. gens' \in Nat /\ dir' \in Dirs BY DEF FheInv, KeysOK
<1>3. QED BY <1>1, <1>2, OtherStep

\* provision_context, encrypt and evaluate, up to the native call.
LEMMA ClientStartsKeep ==
    ASSUME FheInv, NEW t \in Threads, NEW d \in Declarations,
           UNCHANGED <<gen, pubFile, agreed>>,
           \/ provision_context(t, d)
           \/ \E allowed \in AllowedSets : encrypt(t, d, allowed)
           \/ \E p \in Programs, i \in DOMAIN files : evaluate(t, d, p, i)
    PROVE  FheInv'
<1>1. CASE provision_context(t, d)
  <2> DEFINE x == [op |-> "provision", decl |-> d]
  <2>1. x \in Jobs BY DEF Jobs, ClientJobs
  <2>2. x.op = "provision" /\ JobOK(x, Len(files), pubFile) BY DEF JobOK
  <2>3. Start(t, x) /\ UNCHANGED <<dir, files, gens>> BY <1>1 DEF provision_context
  <2> HIDE DEF x
  <2>4. QED BY <2>1, <2>2, <2>3, StartKeeps
<1>2. ASSUME NEW allowed \in AllowedSets, encrypt(t, d, allowed) PROVE FheInv'
  <2> DEFINE x == [op |-> "encrypt", ctx |-> d, allowed |-> allowed]
  <2>1. x \in Jobs BY DEF Jobs, ClientJobs
  <2>2. x.op = "encrypt" /\ JobOK(x, Len(files), pubFile) BY DEF JobOK
  <2>3. Start(t, x) /\ UNCHANGED <<dir, files, gens>> BY <1>2 DEF encrypt
  <2> HIDE DEF x
  <2>4. QED BY <2>1, <2>2, <2>3, StartKeeps
<1>3. ASSUME NEW p \in Programs, NEW i \in DOMAIN files, evaluate(t, d, p, i)
      PROVE  FheInv'
  <2> DEFINE x == [op |-> "evaluate", ctx |-> d, input |-> i]
  <2>1. i \in 1..Len(files) /\ i \in Nat BY DEF FheInv
  <2>2. x \in Jobs BY <2>1 DEF Jobs, ClientJobs
  <2>3. x.op = "evaluate" /\ JobOK(x, Len(files), pubFile) BY <2>1 DEF JobOK
  <2>4. Start(t, x) /\ UNCHANGED <<dir, files, gens>> BY <1>3 DEF evaluate
  <2> HIDE DEF x
  <2>5. QED BY <2>2, <2>3, <2>4, StartKeeps
<1>4. QED BY <1>1, <1>2, <1>3

\* Single-key decryption returns what is by BrokerParty.
LEMMA DecryptKeeps ==
    ASSUME FheInv, NEW t \in Threads, NEW i \in DOMAIN files, decrypt(t, i),
           UNCHANGED <<gen, pubFile, agreed>>
    PROVE  FheInv'
<1> DEFINE ok == files[i].sound /\ files[i].key = dir.sec
           x == [op |-> "values", file |-> i, by |-> {BrokerParty}, right |-> ok]
<1>1. i \in Nat /\ files[i] \in Envelopes BY DEF FheInv
<1>2. ok \in BOOLEAN BY <1>1, Zenon DEF Envelopes
<1>3. Start(t, x) /\ UNCHANGED <<dir, files, gens>> BY Zenon DEF decrypt
<1> HIDE DEF ok
<1>4. x \in Jobs BY <1>1, <1>2 DEF Jobs, ValuesJobs
<1>5. x.op = "values" /\ JobOK(x, Len(files), pubFile) BY DEF JobOK
<1> HIDE DEF x
<1>6. QED BY <1>3, <1>4, <1>5, StartKeeps

\* A key of the broker's own is one that data may be encrypted under.
LEMMA BrokersShare ==
    ASSUME NEW n \in Nat
    PROVE  Share(BrokerParty, n) \in GoodKeys /\ Share(BrokerParty, n) \in SUBSET Secrets
<1>1. PICK s : s = [party |-> BrokerParty, n |-> n] OBVIOUS
<1>2. s \in [party : {BrokerParty}, n : Nat] /\ s \in Secrets BY <1>1 DEF Secrets
<1>3. Share(BrokerParty, n) = {s} BY <1>1 DEF Share
<1>4. QED BY <1>2, <1>3 DEF GoodKeys, BrokersOwn, NoKey

\* gen-context leaves the old public key or the broker's new one.
LEMMA GenContextKeeps ==
    ASSUME FheInv, NEW t \in Threads, GenContext(t), UNCHANGED <<gen, pubFile, agreed>>
    PROVE  FheInv'
<1>1. PICK key : key = Share(BrokerParty, gens + 1) OBVIOUS
<1>2. gens + 1 \in Nat BY DEF FheInv, KeysOK
<1>3. key \in GoodKeys /\ key \in SUBSET Secrets BY <1>1, <1>2, BrokersShare
<1>4. dir \in Dirs BY DEF FheInv
<1>5. \/ dir' = dir
      \/ dir' = [dir EXCEPT !.pub = key]
      \/ dir' = [dir EXCEPT !.pub = key, !.sec = key]
      \/ dir' = [dir EXCEPT !.pub = key, !.sec = key, !.eval = key]
  BY <1>1 DEF GenContext
<1>6. dir' \in Dirs /\ (dir'.pub = dir.pub \/ dir'.pub = key) BY <1>3, <1>4, <1>5 DEF Dirs
<1>7. dir'.pub = dir.pub \/ \E n \in Nat : dir'.pub = Share(BrokerParty, n)
  BY <1>1, <1>2, <1>6
<1>8. job' = [job EXCEPT ![t] = NoJob] /\ files' = files /\ gens' = gens + 1
  BY DEF GenContext, End
<1>9. ~ Doing(t, "ceremony") BY DEF GenContext, Doing
<1>10. QED BY <1>2, <1>6, <1>7, <1>8, <1>9, OtherStep

\* Data is encrypted under the public key installed at that moment.
LEMMA RunEncryptKeeps ==
    ASSUME FheInv, NEW t \in Threads, RunEncrypt(t), UNCHANGED <<gen, pubFile, agreed>>
    PROVE  FheInv'
<1>1. job[t] \in Jobs /\ job[t].op = "encrypt" BY DEF RunEncrypt, Doing, FheInv, JobsOK
<1>2. job[t].ctx \in Declarations /\ job[t].allowed \in AllowedSets BY <1>1, JobByOp
<1>3. dir \in Dirs BY DEF FheInv
<1>4. files' = files \/ \E f \in Envelopes : files' = Append(files, f)
  <2>1. CASE UNCHANGED files BY <2>1
  <2>2. CASE /\ dir.pub # NoKey
             /\ files' = Append(files,
                 [key |-> dir.pub, ctx |-> job[t].ctx, allowed |-> job[t].allowed,
                  parent |-> 0, sound |-> TRUE])
    <3>1. dir.pub \in GoodKeys BY <1>3, <2>2 DEF Dirs
    <3>2. [key |-> dir.pub, ctx |-> job[t].ctx, allowed |-> job[t].allowed,
           parent |-> 0, sound |-> TRUE] \in Envelopes
      BY <1>2, <3>1 DEF Envelopes
    <3>3. QED BY <2>2, <3>2
  <2>3. QED BY <2>1, <2>2 DEF RunEncrypt, RunFails
<1>5. job' = [job EXCEPT ![t] = NoJob] /\ UNCHANGED <<dir, gens>> BY DEF RunEncrypt, End
<1>6. ~ Doing(t, "ceremony") BY <1>1 DEF Doing
<1>7. gens' \in Nat /\ dir' \in Dirs BY <1>5 DEF FheInv, KeysOK
<1>8. QED BY <1>4, <1>5, <1>6, <1>7, OtherStep

\* A result is under the key of its input.
LEMMA RunEvaluateKeeps ==
    ASSUME FheInv, NEW t \in Threads, RunEvaluate(t), UNCHANGED <<gen, pubFile, agreed>>
    PROVE  FheInv'
<1> DEFINE input == files[job[t].input]
           ok == input.sound /\ dir.eval = input.key
           f == [key |-> input.key, ctx |-> job[t].ctx, allowed |-> {},
                 parent |-> job[t].input, sound |-> ok]
<1>1. job[t] \in Jobs /\ job[t] # NoJob /\ job[t].op = "evaluate"
  BY DEF RunEvaluate, Doing, FheInv, JobsOK
<1>2. job[t].ctx \in Declarations /\ job[t].input \in Nat BY <1>1, JobByOp
<1>3. job[t].input \in 1..Len(files) BY <1>1 DEF FheInv, JobsOK, JobOK
<1>4. input \in Envelopes BY <1>3 DEF FheInv
<1>5. files' = files \/ files' = Append(files, f) BY Zenon DEF RunEvaluate, RunFails
<1>6. ok \in BOOLEAN BY <1>4, Zenon DEF Envelopes
<1> HIDE DEF ok
<1>7. f \in Envelopes BY <1>2, <1>4, <1>6 DEF Envelopes
<1>8. job' = [job EXCEPT ![t] = NoJob] /\ UNCHANGED <<dir, gens>> BY DEF RunEvaluate, End
<1>9. ~ Doing(t, "ceremony") BY <1>1 DEF Doing
<1>10. gens' \in Nat /\ dir' \in Dirs BY <1>8 DEF FheInv, KeysOK
<1> HIDE DEF f
<1>11. QED BY <1>5, <1>7, <1>8, <1>9, <1>10, OtherStep

-----------------------------------------------------------------------------
\* A decryption job is given participants among the parties.
LEMMA CoordinateKeeps ==
    ASSUME FheInv, NEW t \in Threads, NEW i \in DOMAIN files, NEW s \in Rosters,
           NEW e, coordinate(t, i, s, e)
    PROVE  FheInv'
<1> DEFINE x == [op |-> "partials", file |-> i, present |-> s, got |-> {}, next |-> 1]
<1>1. i \in Nat /\ i \in 1..Len(files) BY DEF FheInv
<1>2. x \in Jobs BY <1>1 DEF Jobs, PartialsJobs
<1>3. x.op = "partials" /\ JobOK(x, Len(files), pubFile) BY <1>1 DEF JobOK
<1>4. Start(t, x) /\ UNCHANGED <<dir, files, gens, gen, pubFile, agreed>> BY DEF coordinate
<1> HIDE DEF x
<1>5. QED BY <1>2, <1>3, <1>4, StartKeeps

\* What a thread that decrypts has in hand.
LEMMA PartialsFacts ==
    ASSUME FheInv, NEW t \in Threads, Doing(t, "partials")
    PROVE  /\ job[t] \in PartialsJobs /\ ~ Doing(t, "ceremony")
           /\ job[t].present \in Seq(Parties)
           /\ job[t].file \in 1..Len(files)
           /\ \A s \in job[t].got :
                 \E k \in DOMAIN job[t].present : s.party = job[t].present[k]
           /\ dir \in Dirs /\ gens \in Nat
<1>1. job[t] # NoJob /\ job[t].op = "partials" BY DEF Doing
<1>2. job[t] \in Jobs BY <1>1 DEF FheInv, JobsOK
<1>3. job[t] \in PartialsJobs BY <1>1, <1>2, JobByOp
<1>4. job[t].present \in Seq(Parties) BY <1>3, CeremonyAssumption DEF PartialsJobs
<1>5. JobOK(job[t], Len(files), pubFile) BY <1>1 DEF FheInv, JobsOK
<1>6. QED BY <1>1, <1>3, <1>4, <1>5 DEF Doing, JobOK, FheInv, KeysOK

\* A partial decryption adds the share its own party holds.
LEMMA PartialDecryptKeeps ==
    ASSUME FheInv, NEW t \in Threads, PartialDecrypt(t)
    PROVE  FheInv'
<1>1. PICK j : j = job[t] OBVIOUS
<1>2. PICK p : p = j.present[j.next] OBVIOUS
<1>3. PICK got : got = j.got \cup share(p) OBVIOUS
<1>4. PICK x : x = [j EXCEPT !.got = got, !.next = j.next + 1] OBVIOUS
<1>5. Doing(t, "partials") BY DEF PartialDecrypt
<1>6. /\ j \in PartialsJobs /\ ~ Doing(t, "ceremony")
      /\ j.present \in Seq(Parties) /\ j.file \in 1..Len(files)
      /\ \A s \in j.got : \E k \in DOMAIN j.present : s.party = j.present[k]
      /\ dir \in Dirs /\ gens \in Nat
  BY <1>1, <1>5, PartialsFacts
<1>7. j.next \in Nat \ {0} /\ j.got \in SUBSET Secrets BY <1>6 DEF PartialsJobs
<1>8. j.next <= Len(j.present) /\ UNCHANGED <<dir, files, gens, gen, pubFile, agreed>>
  BY <1>1 DEF PartialDecrypt
<1>9. j.next \in DOMAIN j.present /\ p \in Parties BY <1>2, <1>6, <1>7, <1>8
<1>10. share(p) \in SUBSET Secrets /\ \A s \in share(p) : s.party = p
  <2>1. gen[p] \in Nat BY <1>9 DEF FheInv, KeysOK
  <2>2. PICK s : s = [party |-> p, n |-> gen[p]] OBVIOUS
  <2>3. s \in Secrets /\ s.party = p BY <1>9, <2>1, <2>2 DEF Secrets
  <2>4. share(p) = {} \/ share(p) = {s} BY <2>2 DEF share, Share, NoKey
  <2>5. QED BY <2>3, <2>4
<1>11. x \in PartialsJobs
  <2>1. got \in SUBSET Secrets BY <1>3, <1>7, <1>10
  <2>2. j.next + 1 \in Nat \ {0} BY <1>7
  <2>3. QED BY <1>4, <1>6, <2>1, <2>2 DEF PartialsJobs
<1>12. /\ x.op = "partials" /\ x.file = j.file /\ x.present = j.present /\ x.got = got
  BY <1>4, <1>6 DEF PartialsJobs
<1>13. \A s \in got : \E k \in DOMAIN j.present : s.party = j.present[k]
  BY <1>2, <1>3, <1>6, <1>9, <1>10
<1>14. JobOK(x, Len(files), pubFile) BY <1>6, <1>12, <1>13 DEF JobOK
<1>15. job' = [job EXCEPT ![t] = x]
  BY <1>1, <1>2, <1>3, <1>4 DEF PartialDecrypt
<1>16. x \in Jobs BY <1>11 DEF Jobs
<1>17. QED BY <1>6, <1>8, <1>12, <1>14, <1>15, <1>16, OtherStep

\* A thread that gives up, or returns its values, changes nothing else.
LEMMA EndKeeps ==
    ASSUME FheInv, NEW t \in Threads, End(t), ~ Doing(t, "ceremony"),
           UNCHANGED <<dir, files, gens, gen, pubFile, agreed>>
    PROVE  FheInv'
<1>1. gens' \in Nat /\ dir' \in Dirs BY DEF FheInv, KeysOK
<1>2. job' = [job EXCEPT ![t] = NoJob] BY DEF End
<1>3. QED BY <1>1, <1>2, OtherStep

\* Partials that cancel a key are from every party the key has a share of.
LEMMA FuseKeeps ==
    ASSUME FheInv, NEW t \in Threads, Fuse(t)
    PROVE  FheInv'
<1>1. PICK j : j = job[t] OBVIOUS
<1> DEFINE ok == files[j.file].sound /\ files[j.file].key = j.got
           by == {j.present[k] : k \in DOMAIN j.present}
           x == [op |-> "values", file |-> j.file, by |-> by, right |-> ok]
<1>2. Doing(t, "partials") BY DEF Fuse
<1>3. /\ j \in PartialsJobs /\ ~ Doing(t, "ceremony")
      /\ j.present \in Seq(Parties) /\ j.file \in 1..Len(files)
      /\ \A s \in j.got : \E k \in DOMAIN j.present : s.party = j.present[k]
      /\ dir \in Dirs /\ gens \in Nat
  BY <1>1, <1>2, PartialsFacts
<1>4. files[j.file] \in Envelopes /\ j.file \in Nat BY <1>3 DEF FheInv
<1>5. ok \in BOOLEAN BY <1>4, Zenon DEF Envelopes
<1>6. by \subseteq Parties BY <1>3
<1>7. ok => by = Parties
  <2> SUFFICES ASSUME ok PROVE by = Parties OBVIOUS
  <2>1. j.got \in GoodKeys BY <1>4 DEF Envelopes
  <2>2. \A s \in j.got : s.party \in by BY <1>3
  <2>3. ~ BrokersOwn(j.got)
    <3>1. PICK s : s \in j.got BY <2>1 DEF GoodKeys, NoKey
    <3>2. s.party \in Parties BY <1>6, <2>2, <3>1
    <3>3. QED BY <3>1, <3>2, OrderFacts DEF BrokersOwn
  <2>4. Complete(j.got) BY <2>1, <2>3 DEF GoodKeys
  <2>5. QED BY <1>6, <2>2, <2>4 DEF Complete
<1>8. job' = [job EXCEPT ![t] = x] /\ UNCHANGED <<dir, files, gens, gen, pubFile, agreed>>
  BY <1>1, Zenon DEF Fuse
<1> HIDE DEF ok, by
<1>9. x \in Jobs BY <1>4, <1>5, <1>6 DEF Jobs, ValuesJobs
<1>10. x.op = "values" /\ JobOK(x, Len(files), pubFile) BY <1>7 DEF JobOK
<1> HIDE DEF x
<1>11. QED BY <1>3, <1>8, <1>9, <1>10, OtherStep

-----------------------------------------------------------------------------
\* What a thread that runs a ceremony has in hand.
LEMMA CeremonyFacts ==
    ASSUME FheInv, NEW t \in Threads, Doing(t, "ceremony")
    PROVE  /\ job[t] \in CeremonyJobs /\ t \in Ceremonies
           /\ \A k \in 1..N : k < job[t].next => pubFile[PartyOrder[k]] # NoKey
           /\ ~ agreed
           /\ \A u \in Threads : Doing(u, "ceremony") /\ job[u].alone => u = t
<1>1. job[t] # NoJob /\ job[t].op = "ceremony" BY DEF Doing
<1>2. job[t] \in Jobs BY <1>1 DEF FheInv, JobsOK
<1>3. job[t] \in CeremonyJobs BY <1>1, <1>2, JobByOp
<1>4. JobOK(job[t], Len(files), pubFile) BY <1>1 DEF FheInv, JobsOK
<1>5. t \in Ceremonies BY DEF Ceremonies
<1>6. ~ agreed BY <1>5 DEF FheInv, AgreedOK
<1>7. ASSUME NEW u \in Threads, Doing(u, "ceremony"), job[u].alone PROVE u = t
  BY <1>5, <1>7 DEF FheInv, AloneOK
<1>8. QED BY <1>1, <1>3, <1>4, <1>5, <1>6, <1>7 DEF JobOK

\* A ceremony that begins leaves no other one alone.
LEMMA ProvisionKeeps ==
    ASSUME FheInv, NEW t \in Threads, provision(t)
    PROVE  FheInv'
<1> DEFINE none == Ceremonies = {}
<1>1. none \in BOOLEAN OBVIOUS
<1>2. PICK x : x = [op |-> "ceremony", next |-> 1, alone |-> none] OBVIOUS
<1>3. x \in Jobs /\ x.op = "ceremony" /\ x.next = 1 /\ x.alone = none
  BY <1>1, <1>2, OrderFacts DEF Jobs, CeremonyJobs
<1>4. job' = [c \in Threads |-> IF c = t THEN x
                                ELSE IF c \in Ceremonies THEN [job[c] EXCEPT !.alone = FALSE]
                                ELSE job[c]]
  BY <1>2 DEF provision
<1>5. agreed' = FALSE /\ UNCHANGED <<dir, files, gens, gen, pubFile>> BY DEF provision
<1> HIDE DEF none
<1>6. ASSUME NEW c \in Threads, c # t, c \in Ceremonies
      PROVE  /\ job'[c] \in CeremonyJobs /\ job'[c].op = "ceremony"
             /\ job'[c].next = job[c].next /\ ~ job'[c].alone
             /\ \A k \in 1..N : k < job[c].next => pubFile[PartyOrder[k]] # NoKey
  <2>1. Doing(c, "ceremony") BY <1>6 DEF Ceremonies
  <2>2. job[c] \in CeremonyJobs BY <2>1, CeremonyFacts
  <2>3. job'[c] = [job[c] EXCEPT !.alone = FALSE] BY <1>4, <1>6
  <2>4. job'[c] \in CeremonyJobs /\ job'[c].next = job[c].next /\ ~ job'[c].alone
    BY <2>2, <2>3 DEF CeremonyJobs
  <2>5. QED BY <2>1, <2>4, CeremonyFacts DEF CeremonyJobs
<1>7. ASSUME NEW c \in Threads PROVE job'[c] \in Jobs \cup {NoJob}
  <2>1. CASE c = t BY <1>3, <1>4, <2>1
  <2>2. CASE c # t /\ c \in Ceremonies BY <1>6, <2>2 DEF Jobs
  <2>3. CASE c # t /\ c \notin Ceremonies BY <1>4, <2>3 DEF FheInv, JobsOK
  <2>4. QED BY <2>1, <2>2, <2>3
<1>8. ASSUME NEW c \in Threads, job'[c] # NoJob PROVE JobOK(job'[c], Len(files), pubFile)
  <2>1. CASE c = t
    <3>1. job'[c] = x BY <1>4, <2>1
    <3>2. QED BY <1>3, <3>1, OrderFacts DEF JobOK
  <2>2. CASE c # t /\ c \in Ceremonies BY <1>6, <2>2 DEF JobOK
  <2>3. CASE c # t /\ c \notin Ceremonies
    <3>1. job'[c] = job[c] BY <1>4, <2>3
    <3>2. QED BY <1>8, <3>1 DEF FheInv, JobsOK
  <2>4. QED BY <2>1, <2>2, <2>3
<1>9. JobsOK'
  <2>1. job' \in [Threads -> Jobs \cup {NoJob}] BY <1>4, <1>7
  <2>2. QED BY <1>5, <1>8, <2>1 DEF JobsOK
<1>10. KeysOK' BY <1>5 DEF FheInv, KeysOK, ShareOf
<1>11. AloneOK'
  <2> SUFFICES ASSUME NEW c \in Threads, Doing(c, "ceremony")', job'[c].alone
               PROVE  /\ Ceremonies' = {c}
                      /\ \A k \in 1..N : k < job'[c].next =>
                            pubFile'[PartyOrder[k]] = Sum(k)'
    BY DEF AloneOK
  <2>1. c \notin Ceremonies \/ c = t BY <1>6
  <2>2. c = t
    <3>1. ASSUME c # t PROVE FALSE
      <4>1. job'[c] = job[c] BY <1>4, <2>1, <3>1
      <4>2. Doing(c, "ceremony") BY <4>1 DEF Doing
      <4>3. QED BY <2>1, <3>1, <4>2 DEF Ceremonies
    <3>2. QED BY <3>1
  <2>3. job'[t] = x BY <1>4
  <2>4. Ceremonies = {} BY <1>3, <2>2, <2>3 DEF none
  <2>5. \A u \in Threads \ {t} : job'[u] = job[u] BY <1>4, <2>4
  <2>6. Ceremonies' = {t}
    <3>1. \A u \in Threads \ {t} : ~ Doing(u, "ceremony")'
      BY <2>4, <2>5 DEF Ceremonies, Doing
    <3>2. QED BY <2>2, <3>1 DEF Ceremonies
  <2>7. QED BY <1>3, <2>2, <2>3, <2>6, OrderFacts
<1>12. AgreedOK' BY <1>5 DEF AgreedOK
<1>13. agreed' \in BOOLEAN /\ dir' \in Dirs /\ files' \in Seq(Envelopes) BY <1>5 DEF FheInv
<1>14. QED BY <1>9, <1>10, <1>11, <1>12, <1>13 DEF FheInv

\* A ceremony's end or failure leaves no ceremony that is alone.
LEMMA NoneAlone ==
    ASSUME FheInv, NEW t \in Threads, Doing(t, "ceremony"), End(t)
    PROVE  AloneOK' /\ Ceremonies' = Ceremonies \ {t}
<1>1. job'[t] = NoJob /\ \A u \in Threads \ {t} : job'[u] = job[u]
  BY DEF End, FheInv, JobsOK
<1>2. ~ Doing(t, "ceremony")' BY <1>1 DEF Doing
<1>3. \A u \in Threads \ {t} : Doing(u, "ceremony")' <=> Doing(u, "ceremony")
  BY <1>1 DEF Doing
<1>4. \A u \in Threads : ~ (Doing(u, "ceremony")' /\ job'[u].alone)
  BY <1>1, <1>2, <1>3, CeremonyFacts
<1>5. AloneOK' BY <1>4 DEF AloneOK
<1>6. QED BY <1>2, <1>3, <1>5 DEF Ceremonies

\* A round that fails may change a share, but then none is alone.
LEMMA KeygenFailsKeeps ==
    ASSUME FheInv, NEW t \in Threads, KeygenFails(t)
    PROVE  FheInv'
<1>1. Doing(t, "ceremony") /\ job[t].next <= N /\ End(t) BY DEF KeygenFails
<1>2. UNCHANGED <<dir, files, gens, pubFile, agreed>> BY DEF KeygenFails
<1>3. PICK p : p = PartyOrder[job[t].next] OBVIOUS
<1>4. p \in Parties
  <2>1. job[t] \in CeremonyJobs BY <1>1, CeremonyFacts
  <2>2. job[t].next \in 1..N BY <1>1, <2>1, OrderFacts DEF CeremonyJobs
  <2>3. QED BY <1>3, <2>2, OrderFacts
<1>5. gen' \in [Parties -> Nat]
  <2>1. gen' = gen \/ gen' = [gen EXCEPT ![p] = @ + 1] BY <1>3 DEF KeygenFails
  <2>2. QED BY <1>4, <2>1 DEF FheInv, KeysOK
<1>6. JobsOK'
  <2>1. job' = [job EXCEPT ![t] = NoJob] BY <1>1 DEF End
  <2>2. Len(files) \in Nat /\ Len(files') = Len(files) BY <1>2 DEF FheInv
  <2>3. Len(files') \in Nat /\ Len(files) <= Len(files') BY <2>2
  <2>4. \A k \in 1..N : pubFile[PartyOrder[k]] # NoKey => pubFile'[PartyOrder[k]] # NoKey
    BY <1>2
  <2>5. JobsOK BY DEF FheInv
  <2>6. QED BY <2>1, <2>2, <2>3, <2>4, <2>5, JobsStay
<1>7. KeysOK' BY <1>2, <1>5 DEF FheInv, KeysOK, ShareOf
<1>8. AloneOK' BY <1>1, NoneAlone
<1>9. ~ agreed BY <1>1, CeremonyFacts
<1>10. AgreedOK' BY <1>2, <1>9 DEF AgreedOK
<1>11. QED BY <1>2, <1>6, <1>7, <1>8, <1>10 DEF FheInv

\* The key the last round wrote has a share of every party.
LEMMA LastRound ==
    ASSUME FheInv, pubFile[PartyOrder[N]] # NoKey
    PROVE  pubFile[PartyOrder[N]] \in GoodKeys /\ pubFile[PartyOrder[N]] \in SUBSET Secrets
<1>1. PICK key : key = pubFile[PartyOrder[N]] OBVIOUS
<1>2. N \in 1..N /\ PartyOrder[N] \in Parties BY OrderFacts
<1>3. key \in SUBSET Secrets /\ \A j \in 1..N : ShareOf(j, key)
  BY <1>1, <1>2 DEF FheInv, KeysOK
<1>4. Complete(key) BY <1>3, OrderFacts DEF Complete, ShareOf
<1>5. QED BY <1>1, <1>3, <1>4 DEF GoodKeys

\* The key installed is complete, and the sum of the shares if alone.
LEMMA InstallPublicKeeps ==
    ASSUME FheInv, NEW t \in Threads, InstallPublic(t)
    PROVE  FheInv'
<1>1. Doing(t, "ceremony") /\ job[t].next = N + 1 /\ End(t) BY DEF InstallPublic
<1>2. UNCHANGED <<files, gens, gen, pubFile>> BY DEF InstallPublic
<1>3. PICK key : key = pubFile[PartyOrder[N]] OBVIOUS
<1>4. key # NoKey BY <1>1, <1>3, CeremonyFacts, OrderFacts
<1>5. key \in GoodKeys /\ key \in SUBSET Secrets BY <1>3, <1>4, LastRound
<1>6. \/ dir' = dir /\ agreed' = FALSE
      \/ dir' = [dir EXCEPT !.pub = key] /\ agreed' = FALSE
      \/ /\ dir' = [dir EXCEPT !.pub = key, !.eval = key]
         /\ agreed' = (job[t].alone /\ Ceremonies = {t})
  BY <1>3 DEF InstallPublic
<1>7. dir' \in Dirs /\ (agreed' => dir'.pub = key /\ job[t].alone /\ Ceremonies = {t})
  <2>1. dir \in Dirs BY DEF FheInv
  <2>2. QED BY <1>5, <1>6, <2>1 DEF Dirs
<1>8. agreed' \in BOOLEAN
  <2>1. job[t] \in CeremonyJobs BY <1>1, CeremonyFacts
  <2>2. job[t].alone \in BOOLEAN BY <2>1 DEF CeremonyJobs
  <2>3. (job[t].alone /\ Ceremonies = {t}) \in BOOLEAN BY <2>2, Zenon
  <2>4. QED BY <1>6, <2>3
<1>9. JobsOK'
  <2>1. job' = [job EXCEPT ![t] = NoJob] BY <1>1 DEF End
  <2>2. Len(files) \in Nat /\ Len(files') = Len(files) BY <1>2 DEF FheInv
  <2>3. Len(files') \in Nat /\ Len(files) <= Len(files') BY <2>2
  <2>4. \A k \in 1..N : pubFile[PartyOrder[k]] # NoKey => pubFile'[PartyOrder[k]] # NoKey
    BY <1>2
  <2>5. JobsOK BY DEF FheInv
  <2>6. QED BY <2>1, <2>2, <2>3, <2>4, <2>5, JobsStay
<1>10. KeysOK' BY <1>2 DEF FheInv, KeysOK, ShareOf
<1>11. AloneOK' /\ Ceremonies' = Ceremonies \ {t} BY <1>1, NoneAlone
<1>12. AgreedOK'
  <2> SUFFICES ASSUME agreed' PROVE Ceremonies' = {} /\ dir'.pub = Sum(N)'
    BY DEF AgreedOK
  <2>1. dir'.pub = key /\ job[t].alone /\ Ceremonies = {t} BY <1>7
  <2>2. key = Sum(N) BY <1>1, <1>3, <2>1, OrderFacts DEF FheInv, AloneOK
  <2>3. Sum(N)' = Sum(N) BY <1>2, SumKept
  <2>4. QED BY <1>11, <2>1, <2>2, <2>3
<1>13. QED BY <1>2, <1>7, <1>8, <1>9, <1>10, <1>11, <1>12 DEF FheInv

\* A round extends the previous file, whichever ceremony wrote it.
LEMMA KeygenRoundKeeps ==
    ASSUME FheInv, NEW t \in Threads, KeygenRound(t)
    PROVE  FheInv'
<1>1. PICK k : k = job[t].next OBVIOUS
<1>2. PICK p : p = PartyOrder[k] OBVIOUS
<1>3. PICK new : new = Share(p, gen[p] + 1) OBVIOUS
<1>4. PICK key : key = PrevPub(k) \cup new OBVIOUS
<1>5. PICK x : x = [job[t] EXCEPT !.next = k + 1] OBVIOUS
<1>6. Doing(t, "ceremony") /\ k <= N /\ UNCHANGED <<dir, files, gens, agreed>>
  BY <1>1 DEF KeygenRound
<1>7. /\ gen' = [gen EXCEPT ![p] = @ + 1]
      /\ pubFile' = [pubFile EXCEPT ![p] = key]
      /\ job' = [job EXCEPT ![t] = x]
  BY <1>1, <1>2, <1>3, <1>4, <1>5 DEF KeygenRound, OutPub
<1>8. /\ job[t] \in CeremonyJobs /\ ~ agreed
      /\ \A i \in 1..N : i < k => pubFile[PartyOrder[i]] # NoKey
      /\ \A u \in Threads : Doing(u, "ceremony") /\ job[u].alone => u = t
  BY <1>1, <1>6, CeremonyFacts
<1>9. k \in 1..N /\ p \in Parties
  <2>1. k \in 1..N BY <1>1, <1>6, <1>8, OrderFacts DEF CeremonyJobs
  <2>2. QED BY <1>2, <2>1, OrderFacts
<1>10. gen \in [Parties -> Nat] /\ pubFile \in [Parties -> SUBSET Secrets]
  BY DEF FheInv, KeysOK
<1>11. \A i \in 1..N : i # k => PartyOrder[i] # p /\ PartyOrder[i] \in Parties
  BY <1>2, <1>9, OrderFacts
<1>12. new \in SUBSET Secrets /\ \E s \in new : s.party = p
  <2>1. PICK s : s = [party |-> p, n |-> gen[p] + 1] OBVIOUS
  <2>2. s \in Secrets /\ s.party = p BY <1>9, <1>10, <2>1 DEF Secrets
  <2>3. new = {s} BY <1>3, <2>1 DEF Share
  <2>4. QED BY <2>2, <2>3
<1>13. /\ PrevPub(k) \in SUBSET Secrets
       /\ \A j \in 1..(k - 1) : ShareOf(j, PrevPub(k))
  <2>1. CASE k = 1 BY <2>1 DEF PrevPub, NoKey
  <2>2. CASE k # 1
    <3>1. k - 1 \in 1..N /\ k - 1 < k BY <1>9, <2>2, OrderFacts
    <3>2. PrevPub(k) = pubFile[PartyOrder[k - 1]] BY <2>2 DEF PrevPub
    <3>3. pubFile[PartyOrder[k - 1]] # NoKey BY <1>8, <3>1
    <3>4. PartyOrder[k - 1] \in Parties BY <3>1, OrderFacts
    <3>5. QED BY <1>10, <3>1, <3>2, <3>3, <3>4 DEF FheInv, KeysOK
  <2>3. QED BY <2>1, <2>2
<1>14. key \in SUBSET Secrets /\ key # NoKey /\ \A j \in 1..k : ShareOf(j, key)
  <2>1. ShareOf(k, key) BY <1>2, <1>4, <1>12 DEF ShareOf
  <2>2. \A j \in 1..(k - 1) : ShareOf(j, key) BY <1>4, <1>13 DEF ShareOf
  <2>3. \A j \in 1..k : j = k \/ j \in 1..(k - 1) BY <1>9, OrderFacts
  <2>4. key \in SUBSET Secrets /\ key # NoKey BY <1>4, <1>12, <1>13 DEF NoKey
  <2>5. QED BY <2>1, <2>2, <2>3, <2>4
<1>15. /\ gen' \in [Parties -> Nat] /\ gen'[p] = gen[p] + 1
       /\ pubFile' \in [Parties -> SUBSET Secrets] /\ pubFile'[p] = key
       /\ \A q \in Parties : q # p => gen'[q] = gen[q] /\ pubFile'[q] = pubFile[q]
  BY <1>7, <1>9, <1>10, <1>14
<1>16. KeysOK'
  <2>1. ASSUME NEW i \in 1..N, pubFile'[PartyOrder[i]] # NoKey
        PROVE  \A j \in 1..i : ShareOf(j, pubFile'[PartyOrder[i]])
    <3>1. CASE i = k BY <1>2, <1>14, <1>15, <3>1
    <3>2. CASE i # k
      <4>1. pubFile'[PartyOrder[i]] = pubFile[PartyOrder[i]] BY <1>11, <1>15, <3>2
      <4>2. QED BY <2>1, <4>1 DEF FheInv, KeysOK
    <3>3. QED BY <3>1, <3>2
  <2>2. gens' \in Nat BY <1>6 DEF FheInv, KeysOK
  <2>3. QED BY <1>15, <2>1, <2>2 DEF KeysOK, ShareOf
<1>17. /\ x \in CeremonyJobs /\ x.op = "ceremony" /\ x.next = k + 1
       /\ x.alone = job[t].alone
  BY <1>5, <1>8, <1>9, OrderFacts DEF CeremonyJobs
<1>18. \A i \in 1..N : pubFile[PartyOrder[i]] # NoKey => pubFile'[PartyOrder[i]] # NoKey
  BY <1>2, <1>11, <1>14, <1>15
<1>19. JobsOK'
  <2>1. \A i \in 1..N : i < k + 1 => pubFile'[PartyOrder[i]] # NoKey
    <3>1. ASSUME NEW i \in 1..N, i < k + 1 PROVE i = k \/ i < k
      BY <1>9, <3>1, OrderFacts
    <3>2. QED BY <1>2, <1>8, <1>14, <1>15, <1>18, <3>1
  <2>2. JobOK(x, Len(files'), pubFile') BY <1>17, <2>1 DEF JobOK
  <2>3. x \in Jobs BY <1>17 DEF Jobs
  <2>4. Len(files) \in Nat /\ Len(files') = Len(files) BY <1>6 DEF FheInv
  <2>5. Len(files') \in Nat /\ Len(files) <= Len(files') BY <2>4
  <2>6. JobsOK BY DEF FheInv
  <2>7. QED BY <1>7, <1>18, <2>2, <2>3, <2>4, <2>5, <2>6, JobsStay
<1>20. AloneOK'
  <2> SUFFICES ASSUME NEW u \in Threads, Doing(u, "ceremony")', job'[u].alone
               PROVE  /\ Ceremonies' = {u}
                      /\ \A i \in 1..N : i < job'[u].next =>
                            pubFile'[PartyOrder[i]] = Sum(i)'
    BY DEF AloneOK
  <2>1. job'[t] = x /\ \A v \in Threads \ {t} : job'[v] = job[v]
    BY <1>7 DEF FheInv, JobsOK
  <2>2. u = t BY <1>8, <2>1 DEF Doing
  <2>3. job[t].alone BY <1>17, <2>1, <2>2
  <2>4. /\ Ceremonies = {t}
        /\ \A i \in 1..N : i < k => pubFile[PartyOrder[i]] = Sum(i)
    BY <1>1, <1>6, <2>3 DEF FheInv, AloneOK
  <2>5. Ceremonies' = {t}
    <3>1. \A v \in Threads \ {t} : ~ Doing(v, "ceremony")'
      BY <2>1, <2>4 DEF Ceremonies, Doing
    <3>2. QED BY <2>2, <3>1 DEF Ceremonies
  <2>6. share(p)' = new
    <3>1. gen[p] \in Nat /\ gen'[p] = gen[p] + 1 BY <1>9, <1>10, <1>15
    <3>2. gen'[p] # 0 BY <3>1
    <3>3. QED BY <1>3, <3>1, <3>2 DEF share
  <2>7. \A i \in 1..N : i # k => share(PartyOrder[i])' = share(PartyOrder[i])
    BY <1>11, <1>15 DEF share
  <2>8. ASSUME NEW i \in 1..N, i < k PROVE Sum(i)' = Sum(i)
    <3>1. \A j \in 1..i : j \in 1..N /\ j # k BY <1>9, <2>8, OrderFacts
    <3>2. \A j \in 1..i : share(PartyOrder[j])' = share(PartyOrder[j]) BY <2>7, <3>1
    <3>3. QED BY <3>2 DEF Sum
  <2>9. key = Sum(k)'
    <3>1. CASE k = 1
      <4>1. Sum(k)' = share(p)' BY <1>2, <3>1 DEF Sum
      <4>2. QED BY <1>4, <2>6, <3>1, <4>1 DEF PrevPub, NoKey
    <3>2. CASE k # 1
      <4>1. k - 1 \in 1..N /\ k - 1 < k BY <1>9, <3>2, OrderFacts
      <4>2. PrevPub(k) = Sum(k - 1)' BY <2>4, <2>8, <3>2, <4>1 DEF PrevPub
      <4>3. 1..k = 1..(k - 1) \cup {k} BY <1>9, OrderFacts
      <4>4. Sum(k)' = Sum(k - 1)' \cup share(p)' BY <1>2, <4>3 DEF Sum
      <4>5. QED BY <1>4, <2>6, <4>2, <4>4
    <3>3. QED BY <3>1, <3>2
  <2>10. ASSUME NEW i \in 1..N, i < k + 1 PROVE pubFile'[PartyOrder[i]] = Sum(i)'
    <3>1. CASE i = k BY <1>2, <1>15, <2>9, <3>1
    <3>2. CASE i # k
      <4>1. i < k BY <1>9, <2>10, <3>2, OrderFacts
      <4>2. pubFile'[PartyOrder[i]] = pubFile[PartyOrder[i]] BY <1>11, <1>15, <3>2
      <4>3. QED BY <2>4, <2>8, <4>1, <4>2
    <3>3. QED BY <3>1, <3>2
  <2>11. QED BY <1>17, <2>1, <2>2, <2>5, <2>10
<1>21. AgreedOK' BY <1>6, <1>8 DEF AgreedOK
<1>22. QED BY <1>6, <1>16, <1>19, <1>20, <1>21 DEF FheInv

-----------------------------------------------------------------------------
\* The inductive invariant holds whatever ceremonies fail, repeat or overlap,
\* beside any work of the broker client.
THEOREM FheInvariant == Spec => []FheInv
<1>1. Init => FheInv BY InitHolds
<1>2. FheInv /\ [Next]_vars => FheInv'
  <2> SUFFICES ASSUME FheInv, [Next]_vars PROVE FheInv' OBVIOUS
  <2>1. ASSUME NEW d \in Declarations, NEW s \in Statuses, register(d, s),
               UNCHANGED <<gen, pubFile, agreed>>
        PROVE  FheInv'
    BY <2>1, RegisterKeeps
  <2>2. ASSUME NEW t \in Threads, BrokerNext(t), UNCHANGED <<gen, pubFile, agreed>>
        PROVE  FheInv'
    <3>1. CASE \E d \in Declarations :
                  \/ provision_context(t, d)
                  \/ \E allowed \in AllowedSets : encrypt(t, d, allowed)
                  \/ \E p \in Programs, i \in DOMAIN files : evaluate(t, d, p, i)
      BY <2>2, <3>1, ClientStartsKeep
    <3>2. CASE \E i \in DOMAIN files : decrypt(t, i) BY <2>2, <3>2, DecryptKeeps
    <3>3. CASE GenContext(t) BY <2>2, <3>3, GenContextKeeps
    <3>4. CASE RunEncrypt(t) BY <2>2, <3>4, RunEncryptKeeps
    <3>5. CASE RunEvaluate(t) BY <2>2, <3>5, RunEvaluateKeeps
    <3>6. QED BY <2>2, <3>1, <3>2, <3>3, <3>4, <3>5 DEF BrokerNext
  <2>3. ASSUME NEW t \in Threads, provision(t) PROVE FheInv' BY <2>3, ProvisionKeeps
  <2>4. ASSUME NEW t \in Threads, KeygenRound(t) PROVE FheInv' BY <2>4, KeygenRoundKeeps
  <2>5. ASSUME NEW t \in Threads, KeygenFails(t) PROVE FheInv' BY <2>5, KeygenFailsKeeps
  <2>6. ASSUME NEW t \in Threads, InstallPublic(t) PROVE FheInv'
    BY <2>6, InstallPublicKeeps
  <2>7. ASSUME NEW t \in Threads, NEW i \in DOMAIN files, NEW s \in Rosters,
               NEW e \in expected_parties(s), coordinate(t, i, s, e)
        PROVE  FheInv'
    BY <2>7, CoordinateKeeps
  <2>8. ASSUME NEW t \in Threads, PartialDecrypt(t) PROVE FheInv'
    BY <2>8, PartialDecryptKeeps
  <2>9. ASSUME NEW t \in Threads, PartialFails(t) PROVE FheInv'
    <3>1. ~ Doing(t, "ceremony") BY <2>9 DEF PartialFails, Doing
    <3>2. End(t) /\ UNCHANGED <<dir, files, gens, gen, pubFile, agreed>>
      BY <2>9 DEF PartialFails
    <3>3. QED BY <3>1, <3>2, EndKeeps
  <2>10. ASSUME NEW t \in Threads, Fuse(t) PROVE FheInv' BY <2>10, FuseKeeps
  <2>11. ASSUME NEW t \in Threads, Return(t) PROVE FheInv'
    <3>1. ~ Doing(t, "ceremony") BY <2>11 DEF Return, Doing
    <3>2. End(t) /\ UNCHANGED <<dir, files, gens, gen, pubFile, agreed>>
      BY <2>11 DEF Return
    <3>3. QED BY <3>1, <3>2, EndKeeps
  <2>12. CASE UNCHANGED vars
    <3>1. UNCHANGED <<dir, files, gens, job, gen, pubFile, agreed>>
      BY <2>12 DEF vars, brokerVars
    <3>2. JobsOK' BY <3>1 DEF FheInv, JobsOK
    <3>3. KeysOK' BY <3>1 DEF FheInv, KeysOK, ShareOf
    <3>4. AloneOK' BY <3>1 DEF FheInv, AloneOK, Ceremonies, Doing, Sum, share
    <3>5. AgreedOK' BY <3>1 DEF FheInv, AgreedOK, Ceremonies, Doing, Sum, share
    <3>6. QED BY <3>1, <3>2, <3>3, <3>4, <3>5 DEF FheInv
  <2>13. QED
    BY <2>1, <2>2, <2>3, <2>4, <2>5, <2>6, <2>7, <2>8, <2>9, <2>10, <2>11, <2>12 DEF Next
<1>3. QED BY <1>1, <1>2, PTL DEF Spec

\* No ceremony leaves a key that fewer than all parties can undo.
THEOREM AllPartiesNeededHolds == Spec => []AllPartiesNeeded
<1>1. FheInv => AllPartiesNeeded
  <2> SUFFICES ASSUME FheInv PROVE AllPartiesNeeded OBVIOUS
  <2>1. ASSUME NEW key \in {dir.pub} \cup {files[i].key : i \in DOMAIN files}, key # NoKey
        PROVE  key \in GoodKeys
    <3>1. CASE key = dir.pub BY <2>1, <3>1 DEF FheInv, Dirs
    <3>2. CASE \E i \in DOMAIN files : key = files[i].key
      <4>1. PICK i \in DOMAIN files : key = files[i].key BY <3>2
      <4>2. files[i] \in Envelopes BY DEF FheInv
      <4>3. QED BY <4>1, <4>2 DEF Envelopes
    <3>3. QED BY <3>1, <3>2
  <2>2. ASSUME NEW t \in Threads, Doing(t, "values"), job[t].right
        PROVE  job[t].by \in {{BrokerParty}, Parties}
    <3>1. JobOK(job[t], Len(files), pubFile) /\ job[t].op = "values"
      BY <2>2 DEF FheInv, JobsOK, Doing
    <3>2. QED BY <2>2, <3>1 DEF JobOK
  <2>3. QED BY <2>1, <2>2 DEF AllPartiesNeeded, GoodKeys, BrokersOwn
<1>2. QED BY <1>1, FheInvariant, PTL

\* A ceremony that ran alone installs the sum of the shares the parties hold.
THEOREM RetryHealsHolds == Spec => []RetryHeals
<1>1. FheInv => RetryHeals
  <2> SUFFICES ASSUME FheInv, agreed, dir.pub \cap [party : {BrokerParty}, n : Nat] = {}
               PROVE  dir.pub = UNION {share(p) : p \in Parties}
    BY DEF RetryHeals
  <2>1. ASSUME NEW n \in Nat, dir.pub = Share(BrokerParty, n) PROVE FALSE
    <3>1. PICK s : s = [party |-> BrokerParty, n |-> n] OBVIOUS
    <3>2. s \in [party : {BrokerParty}, n : Nat] BY <3>1
    <3>3. s \in dir.pub BY <2>1, <3>1 DEF Share
    <3>4. QED BY <3>2, <3>3
  <2>2. dir.pub = Sum(N) BY <2>1 DEF FheInv, AgreedOK
  <2>3. {share(PartyOrder[j]) : j \in 1..N} = {share(p) : p \in Parties}
    BY OrderFacts
  <2>4. QED BY <2>2, <2>3 DEF Sum
<1>2. QED BY <1>1, FheInvariant, PTL

=============================================================================

---------------------------- MODULE IntakeProofs ----------------------------
(***************************************************************************)
(* Proofs about the intake of requests, for any number of workers, agents, *)
(* sessions, requests and events, and any windows and lifetimes.           *)
(*                                                                         *)
(* Three arguments that meet only in the workers: the sequence key bounds  *)
(* every committed number of its session; the permits and the counter are  *)
(* the sizes of two sets of workers; and the queue counts what the history *)
(* counts above every time that no pruning has passed.                     *)
(***************************************************************************)
EXTENDS Intake, FiniteSetTheorems, FunctionTheorems, SequenceTheorems,
        WellFoundedInduction, TLAPS

Requests == [nonce : Nat, agent : Agents, session : Sessions, seq : Int,
             timestamp : Int, expires : Int]
CallPcs == {"verified", "committed", "validated", "allowed", "acquired", "entered",
            "snapped"}
Calls == [pc : CallPcs, req : Requests, now : Nat]
Endings == [pc : {"leaving", "left"}, raised : BOOLEAN]
Reports == [pc : {"recording"}, now : Nat]
Items == Calls \cup Endings \cup Reports \cup {Idle}

IntakeTypes ==
    /\ now \in Nat
    /\ counters \in [Agents \X Sessions -> Int]
    /\ issued \subseteq Requests /\ IsFiniteSet(issued)
    /\ work \in [Workers -> Items]

\* The sequence key of a session bounds what was committed of it.
KeyBounds ==
    /\ committed \in Seq(Requests)
    /\ lastSeq \in [Sessions -> Int]
    /\ \A i \in DOMAIN committed : committed[i].seq <= lastSeq[committed[i].session]

InQueue(queue, start) == {i \in DOMAIN queue : queue[i] >= start}
InHistory(log, n, start) ==
    {i \in 1..n : log[i].kind = "EXECUTED" /\ log[i].at >= start}

\* From any time no pruning has passed, the queue counts what happened.
Window(queue, log, pruned) ==
    \A start \in Int :
        start >= pruned - Window5m =>
            Cardinality(InQueue(queue, start)) = Cardinality(InHistory(log, Len(log), start))

QueueExact ==
    /\ executed \in Seq(Int)
    /\ recorded \in Seq(Events)
    /\ prunedAt \in Int
    /\ Window(executed, recorded, prunedAt)
    /\ \A s \in snapshots : s.seen \in 0..Len(recorded)

\* The inductive invariant.
IntakeInv ==
    /\ IntakeTypes
    /\ KeyBounds /\ FreshAndInOrder
    /\ permits \in Int /\ inflight \in Int /\ PermitsExact
    /\ QueueExact /\ WindowsExact

-----------------------------------------------------------------------------
(***************************************************************************)
(* Facts about queues.                                                     *)
(***************************************************************************)

\* One for a fact that holds.
Bit(b) == IF b THEN 1 ELSE 0

\* Every nonempty set of natural numbers has a least element.
LEMMA LeastNumber ==
    ASSUME NEW T, T \subseteq Nat, T # {}
    PROVE  \E m \in T : \A k \in T : m <= k
<1> DEFINE R == OpToRel(<, Nat)
<1>1. IsWellFoundedOn(R, Nat) BY NatLessThanWellFounded
<1>2. \A x, y \in Nat : <<x, y>> \in R <=> x < y BY DEF OpToRel
<1> HIDE DEF R
<1>3. PICK m \in T : \A y \in T : ~ (<<y, m>> \in R) BY <1>1, WFMin
<1>4. m \in Nat /\ \A y \in T : y \in Nat /\ ~ (y < m) BY <1>2, <1>3
<1>5. QED BY <1>4

\* _prune drops a prefix of the queue, all of it older than the window.
LEMMA PruneShape ==
    ASSUME NEW queue \in Seq(Int), NEW at \in Int
    PROVE  \E k \in 0..Len(queue) :
              /\ prune(queue, at) = SubSeq(queue, k + 1, Len(queue))
              /\ \A i \in 1..k : queue[i] < at - Window5m
<1> DEFINE n == Len(queue)
           keep == {i \in DOMAIN queue : \E j \in 1..i : queue[j] >= at - Window5m}
<1>1. n \in Nat /\ DOMAIN queue = 1..n OBVIOUS
<1>2. \A i \in 1..n : queue[i] \in Int OBVIOUS
<1>3. at - Window5m \in Int BY WindowAssumption
<1>4. prune(queue, at) = SubSeq(queue, n - Cardinality(keep) + 1, n) BY DEF prune
<1>5. CASE keep = {}
  <2>1. Cardinality(keep) = 0 BY <1>5, FS_EmptySet
  <2>2. \A i \in 1..n : queue[i] < at - Window5m
    <3> SUFFICES ASSUME NEW i \in 1..n, ~(queue[i] < at - Window5m) PROVE FALSE OBVIOUS
    <3>1. queue[i] >= at - Window5m BY <1>2, <1>3
    <3>2. i \in 1..i BY <1>1
    <3>3. i \in keep BY <1>1, <3>1, <3>2
    <3>4. QED BY <1>5, <3>3
  <2>3. n \in 0..n /\ n - 0 + 1 = n + 1 BY <1>1
  <2>4. QED BY <1>4, <2>1, <2>2, <2>3
<1>6. CASE keep # {}
  <2>1. keep \subseteq Nat BY <1>1
  <2>2. PICK m \in keep : \A k \in keep : m <= k BY <1>6, <2>1, LeastNumber
  <2>3. m \in 1..n BY <1>1, <2>2
  <2>4. PICK j \in 1..m : queue[j] >= at - Window5m BY <2>2
  <2>5. keep = m..n
    <3>1. ASSUME NEW i \in m..n PROVE i \in keep
      <4>1. i \in 1..n /\ j \in 1..i BY <1>1, <2>3, <2>4
      <4>2. QED BY <1>1, <2>4, <4>1
    <3>2. ASSUME NEW i \in keep PROVE i \in m..n
      <4>1. i \in 1..n /\ m <= i BY <1>1, <2>2
      <4>2. QED BY <1>1, <2>3, <4>1
    <3>3. QED BY <3>1, <3>2
  <2>6. Cardinality(keep) = n - m + 1
    <3>1. m \in Int /\ n \in Int /\ ~(m > n) BY <1>1, <2>3
    <3>2. Cardinality(m..n) = n - m + 1 BY <3>1, FS_Interval
    <3>3. QED BY <2>5, <3>2
  <2>7. \A i \in 1..(m - 1) : queue[i] < at - Window5m
    <3> SUFFICES ASSUME NEW i \in 1..(m - 1), ~(queue[i] < at - Window5m) PROVE FALSE
      OBVIOUS
    <3>1. i \in 1..n /\ i \in 1..i /\ ~(m <= i) BY <1>1, <2>3
    <3>2. queue[i] >= at - Window5m BY <1>2, <1>3, <3>1
    <3>3. i \in keep BY <1>1, <3>1, <3>2
    <3>4. QED BY <2>2, <3>1, <3>3
  <2>8. m - 1 \in 0..n /\ n - (n - m + 1) + 1 = (m - 1) + 1 BY <1>1, <2>3
  <2>9. prune(queue, at) = SubSeq(queue, (m - 1) + 1, n)
    <3> HIDE DEF keep
    <3>1. QED BY <1>4, <2>6, <2>8
  <2>10. QED BY <2>7, <2>8, <2>9
<1>7. QED BY <1>5, <1>6

\* The members of a queue from a given time on are finitely many.
LEMMA QueueFinite ==
    ASSUME NEW queue \in Seq(Int), NEW start
    PROVE  /\ IsFiniteSet(InQueue(queue, start))
           /\ Cardinality(InQueue(queue, start)) \in Nat
<1>1. Len(queue) \in Nat /\ DOMAIN queue = 1..Len(queue) OBVIOUS
<1>2. IsFiniteSet(1..Len(queue)) BY <1>1, FS_Interval
<1>3. InQueue(queue, start) \subseteq 1..Len(queue) BY <1>1 DEF InQueue
<1>4. QED BY <1>2, <1>3, FS_Subset, FS_CardinalityType

\* A pruning keeps what a count from a later time is about.
LEMMA PruneKeeps ==
    ASSUME NEW queue \in Seq(Int), NEW at \in Int
    PROVE  /\ prune(queue, at) \in Seq(Int)
           /\ \A start \in Int :
                 start >= at - Window5m =>
                     Cardinality(InQueue(prune(queue, at), start))
                         = Cardinality(InQueue(queue, start))
<1> DEFINE n == Len(queue)
<1>1. n \in Nat /\ DOMAIN queue = 1..n /\ \A i \in 1..n : queue[i] \in Int OBVIOUS
<1>2. PICK k \in 0..n : /\ prune(queue, at) = SubSeq(queue, k + 1, n)
                        /\ \A i \in 1..k : queue[i] < at - Window5m
  BY PruneShape
<1>3. PICK q : q = prune(queue, at) OBVIOUS
<1>4. /\ q \in Seq(Int) /\ Len(q) = n - k
      /\ \A i \in 1..(n - k) : q[i] = queue[i + k]
  <2>1. /\ SubSeq(queue, k + 1, n) \in Seq(Int)
        /\ Len(SubSeq(queue, k + 1, n)) = n - k
        /\ \A i \in 1..(n - k) : SubSeq(queue, k + 1, n)[i] = queue[i + k]
    <3>1. k + 1 \in Int /\ n \in Int /\ \A i \in (k + 1)..n : queue[i] \in Int
      BY <1>1, <1>2
    <3>2. /\ SubSeq(queue, k + 1, n) \in Seq(Int)
          /\ Len(SubSeq(queue, k + 1, n)) = IF k + 1 <= n THEN n - (k + 1) + 1 ELSE 0
          /\ \A i \in 1..(n - (k + 1) + 1) :
                SubSeq(queue, k + 1, n)[i] = queue[(k + 1) + i - 1]
      BY <3>1, SubSeqProperties
    <3>3. n - (k + 1) + 1 = n - k /\ (~(k + 1 <= n) => n - k = 0)
      <4>1. k \in Int /\ n \in Int /\ k <= n BY <1>1, <1>2
      <4> HIDE DEF n
      <4>2. QED BY <4>1
    <3>4. \A i \in 1..(n - k) : (k + 1) + i - 1 = i + k
      <4>1. k \in Int BY <1>2
      <4>2. \A i \in Int : (k + 1) + i - 1 = i + k BY <4>1
      <4>3. QED BY <4>2
    <3>5. QED BY <3>2, <3>3, <3>4
  <2>2. QED BY <1>2, <1>3, <2>1, Zenon
<1>5. ASSUME NEW start \in Int, start >= at - Window5m
      PROVE  Cardinality(InQueue(q, start)) = Cardinality(InQueue(queue, start))
  <2> DEFINE S == InQueue(q, start)
             T == InQueue(queue, start)
             f == [i \in S |-> i + k]
  <2>1. DOMAIN q = 1..(n - k) /\ k \in Nat /\ n - k \in Nat BY <1>1, <1>2, <1>4
  <2>2. f \in [S -> T]
    <3> SUFFICES ASSUME NEW i \in S PROVE i + k \in T OBVIOUS
    <3>1. i \in 1..(n - k) /\ q[i] >= start BY <2>1 DEF InQueue
    <3>2. i + k \in 1..n BY <1>1, <2>1, <3>1
    <3>3. queue[i + k] >= start BY <1>4, <3>1
    <3>4. QED BY <1>1, <3>2, <3>3 DEF InQueue
  <2>3. \A a, b \in S : f[a] = f[b] => a = b
    <3> SUFFICES ASSUME NEW a \in S, NEW b \in S, a + k = b + k PROVE a = b OBVIOUS
    <3>1. a \in Int /\ b \in Int BY <2>1 DEF InQueue
    <3>2. QED BY <2>1, <3>1
  <2>4. \A j \in T : \E i \in S : f[i] = j
    <3> SUFFICES ASSUME NEW j \in T PROVE \E i \in S : i + k = j OBVIOUS
    <3>1. j \in 1..n /\ queue[j] >= start BY <1>1 DEF InQueue
    <3>2. at - Window5m \in Int /\ queue[j] \in Int BY <1>1, <3>1, WindowAssumption
    <3>3. ~(queue[j] < at - Window5m) BY <1>5, <3>1, <3>2
    <3>4. j \notin 1..k BY <1>2, <3>3
    <3>5. j - k \in 1..(n - k) /\ (j - k) + k = j BY <1>1, <2>1, <3>1, <3>4
    <3>6. q[j - k] >= start BY <1>4, <3>1, <3>5
    <3>7. j - k \in S BY <2>1, <3>5, <3>6 DEF InQueue
    <3>8. QED BY <3>5, <3>7
  <2>5. f \in Bijection(S, T) BY <2>2, <2>3, <2>4, Fun_IsBij
  <2>6. ExistsBijection(S, T) BY <2>5 DEF ExistsBijection
  <2>7. IsFiniteSet(S) BY <1>4, QueueFinite
  <2>8. QED BY <2>6, <2>7, FS_Bijection
<1>6. QED BY <1>3, <1>4, <1>5

\* One more time in the queue counts for every start it is not before.
LEMMA QueueAppended ==
    ASSUME NEW queue \in Seq(Int), NEW x \in Int, NEW start \in Int
    PROVE  Cardinality(InQueue(Append(queue, x), start))
              = Cardinality(InQueue(queue, start)) + Bit(x >= start)
<1> DEFINE n == Len(queue)
<1>1. n \in Nat /\ DOMAIN queue = 1..n /\ n + 1 \notin 1..n OBVIOUS
<1>2. /\ Append(queue, x) \in Seq(Int) /\ Len(Append(queue, x)) = n + 1
      /\ Append(queue, x)[n + 1] = x
      /\ \A i \in 1..n : Append(queue, x)[i] = queue[i]
  OBVIOUS
<1>3. PICK q : q = Append(queue, x) OBVIOUS
<1>4. /\ q \in Seq(Int) /\ Len(q) = n + 1 /\ q[n + 1] = x
      /\ \A i \in 1..n : q[i] = queue[i]
  BY <1>2, <1>3, Zenon
<1>5. DOMAIN q = 1..(n + 1) BY <1>4
<1>6. \A i : i \in 1..(n + 1) <=> i \in 1..n \/ i = n + 1 BY <1>1
<1>7. InQueue(q, start) = IF x >= start THEN InQueue(queue, start) \cup {n + 1}
                          ELSE InQueue(queue, start)
  BY <1>1, <1>4, <1>5, <1>6 DEF InQueue
<1>8. /\ IsFiniteSet(InQueue(queue, start)) /\ Cardinality(InQueue(queue, start)) \in Nat
  BY QueueFinite
<1>9. n + 1 \notin InQueue(queue, start) BY <1>1 DEF InQueue
<1>10. Cardinality(InQueue(queue, start) \cup {n + 1})
         = Cardinality(InQueue(queue, start)) + 1
  BY <1>8, <1>9, FS_AddElement
<1>11. Cardinality(InQueue(q, start)) = Cardinality(InQueue(queue, start)) + Bit(x >= start)
  BY <1>7, <1>8, <1>10 DEF Bit
<1>12. QED BY <1>3, <1>11

\* One more event in the history counts where it is an execution not before
\* the start; the first events stay as they are.
LEMMA HistoryAppended ==
    ASSUME NEW log \in Seq(Events), NEW e \in Events
    PROVE  /\ Append(log, e) \in Seq(Events)
           /\ Len(Append(log, e)) = Len(log) + 1
           /\ \A n \in 0..Len(log) : \A start :
                 InHistory(Append(log, e), n, start) = InHistory(log, n, start)
           /\ \A start \in Int :
                 Cardinality(InHistory(Append(log, e), Len(log) + 1, start))
                    = Cardinality(InHistory(log, Len(log), start))
                        + Bit(e.kind = "EXECUTED" /\ e.at >= start)
<1> DEFINE m == Len(log)
<1>1. m \in Nat /\ DOMAIN log = 1..m /\ m + 1 \notin 1..m OBVIOUS
<1>2. /\ Append(log, e) \in Seq(Events) /\ Len(Append(log, e)) = m + 1
      /\ Append(log, e)[m + 1] = e
      /\ \A i \in 1..m : Append(log, e)[i] = log[i]
  OBVIOUS
<1>3. PICK v : v = Append(log, e) OBVIOUS
<1>4. /\ v \in Seq(Events) /\ Len(v) = m + 1 /\ v[m + 1] = e
      /\ \A i \in 1..m : v[i] = log[i]
  BY <1>2, <1>3, Zenon
<1>5. \A i : i \in 1..(m + 1) <=> i \in 1..m \/ i = m + 1 BY <1>1
<1>6. ASSUME NEW n \in 0..m, NEW start
      PROVE  InHistory(v, n, start) = InHistory(log, n, start)
  <2>1. \A i \in 1..n : i \in 1..m BY <1>1
  <2>2. \A i \in 1..n : v[i] = log[i] BY <1>4, <2>1
  <2>3. QED BY <2>2 DEF InHistory
<1>7. ASSUME NEW start \in Int
      PROVE  Cardinality(InHistory(v, m + 1, start))
                = Cardinality(InHistory(log, m, start))
                    + Bit(e.kind = "EXECUTED" /\ e.at >= start)
  <2> DEFINE S == InHistory(log, m, start)
  <2>1. InHistory(v, m + 1, start) =
          IF e.kind = "EXECUTED" /\ e.at >= start THEN S \cup {m + 1} ELSE S
    BY <1>1, <1>4, <1>5 DEF InHistory
  <2>2. S \subseteq 1..m /\ m + 1 \notin S BY <1>1 DEF InHistory
  <2>3. IsFiniteSet(1..m) BY <1>1, FS_Interval
  <2>4. IsFiniteSet(S) /\ Cardinality(S) \in Nat
    BY <2>2, <2>3, FS_Subset, FS_CardinalityType
  <2>5. Cardinality(S \cup {m + 1}) = Cardinality(S) + 1 BY <2>2, <2>4, FS_AddElement
  <2>6. CASE e.kind = "EXECUTED" /\ e.at >= start
    <3>1. InHistory(v, m + 1, start) = S \cup {m + 1} BY <2>1, <2>6
    <3>2. Bit(e.kind = "EXECUTED" /\ e.at >= start) = 1 BY <2>6 DEF Bit
    <3>3. QED BY <2>5, <3>1, <3>2
  <2>7. CASE ~(e.kind = "EXECUTED" /\ e.at >= start)
    <3>1. InHistory(v, m + 1, start) = S BY <2>1, <2>7
    <3>2. Bit(e.kind = "EXECUTED" /\ e.at >= start) = 0 BY <2>7 DEF Bit
    <3>3. QED BY <2>4, <3>1, <3>2
  <2>8. QED BY <2>6, <2>7
<1>8. QED BY <1>3, <1>4, <1>6, <1>7

\* The latest pruning, after one at a given time.
Later(at, pruned) == IF at > pruned THEN at ELSE pruned

\* A pruning leaves the window exact.
LEMMA WindowPruned ==
    ASSUME NEW queue \in Seq(Int), NEW log, NEW pruned \in Int, NEW at \in Int,
           Window(queue, log, pruned)
    PROVE  /\ Later(at, pruned) \in Int
           /\ prune(queue, at) \in Seq(Int)
           /\ Window(prune(queue, at), log, Later(at, pruned))
<1>1. /\ Later(at, pruned) \in Int /\ Later(at, pruned) >= at
      /\ Later(at, pruned) >= pruned
  BY DEF Later
<1>2. prune(queue, at) \in Seq(Int) BY PruneKeeps
<1>3. ASSUME NEW start \in Int, start >= Later(at, pruned) - Window5m
      PROVE  Cardinality(InQueue(prune(queue, at), start))
                = Cardinality(InHistory(log, Len(log), start))
  <2>1. start >= at - Window5m /\ start >= pruned - Window5m
    BY <1>1, <1>3, WindowAssumption
  <2>2. Cardinality(InQueue(prune(queue, at), start)) = Cardinality(InQueue(queue, start))
    BY <2>1, PruneKeeps
  <2>3. QED BY <2>1, <2>2 DEF Window
<1>4. QED BY <1>1, <1>2, <1>3 DEF Window

\* So does an event, put in the queue if it is an execution.
LEMMA WindowAppended ==
    ASSUME NEW queue \in Seq(Int), NEW log \in Seq(Events), NEW pruned \in Int,
           NEW e \in Events, e.at \in Int,
           Window(queue, log, pruned)
    PROVE  /\ (IF e.kind = "EXECUTED" THEN Append(queue, e.at) ELSE queue) \in Seq(Int)
           /\ Window(IF e.kind = "EXECUTED" THEN Append(queue, e.at) ELSE queue,
                     Append(log, e), pruned)
<1> DEFINE q == IF e.kind = "EXECUTED" THEN Append(queue, e.at) ELSE queue
<1>1. q \in Seq(Int) OBVIOUS
<1>2. ASSUME NEW start \in Int, start >= pruned - Window5m
      PROVE  Cardinality(InQueue(q, start))
                = Cardinality(InHistory(Append(log, e), Len(Append(log, e)), start))
  <2>1. Cardinality(InQueue(queue, start)) = Cardinality(InHistory(log, Len(log), start))
    BY <1>2 DEF Window
  <2>2. Cardinality(InQueue(q, start)) =
          Cardinality(InQueue(queue, start)) + Bit(e.kind = "EXECUTED" /\ e.at >= start)
    <3>1. Cardinality(InQueue(queue, start)) \in Nat BY QueueFinite
    <3>2. CASE e.kind = "EXECUTED" BY <3>2, QueueAppended DEF Bit
    <3>3. CASE e.kind # "EXECUTED" BY <3>1, <3>3 DEF Bit
    <3>4. QED BY <3>2, <3>3
  <2>3. QED BY <2>1, <2>2, HistoryAppended
<1>3. QED BY <1>1, <1>2 DEF Window

-----------------------------------------------------------------------------
(***************************************************************************)
(* The workers.                                                            *)
(***************************************************************************)

Held == {"acquired", "entered", "snapped", "leaving", "left"}
Counted == {"entered", "snapped", "leaving"}

\* What a worker at a program counter carries.
LEMMA ItemKinds ==
    ASSUME NEW x \in Items
    PROVE  /\ x.pc \in CallPcs => x \in Calls /\ x.req \in Requests /\ x.now \in Nat
           /\ x.pc \in {"leaving", "left"} => x \in Endings
           /\ x.pc = "recording" => x.now \in Nat
<1>1. CASE x \in Calls BY <1>1 DEF Calls, CallPcs
<1>2. CASE x \in Endings BY <1>2 DEF Endings, CallPcs
<1>3. CASE x \in Reports BY <1>3 DEF Reports, CallPcs
<1>4. CASE x = Idle BY <1>4 DEF Idle, CallPcs
<1>5. QED BY <1>1, <1>2, <1>3, <1>4 DEF Items

\* A call that goes on keeps its request and its clock.
LEMMA CallGoesOn ==
    ASSUME NEW x \in Calls, NEW p \in CallPcs
    PROVE  [x EXCEPT !.pc = p] \in Calls /\ [x EXCEPT !.pc = p].pc = p
BY DEF Calls

AtAny(f, P) == {u \in Workers : f[u].pc \in P}

\* One worker's step takes it out of a set of program counters or into it.
LEMMA OneWorkerMoves ==
    ASSUME NEW f, f \in [Workers -> Items], NEW w \in Workers, NEW x, NEW P
    PROVE  /\ Cardinality(AtAny(f, P)) \in Nat
           /\ Cardinality(AtAny([f EXCEPT ![w] = x], P)) =
                 Cardinality(AtAny(f, P)) + Bit(x.pc \in P) - Bit(f[w].pc \in P)
<1> DEFINE g == [f EXCEPT ![w] = x]
           A == {u \in Workers : f[u].pc \in P}
           B == {u \in Workers : g[u].pc \in P}
<1>1. IsFiniteSet(A) /\ Cardinality(A) \in Nat
  BY IntakeAssumption, FS_Subset, FS_CardinalityType
<1>2. IsFiniteSet(B) /\ Cardinality(B) \in Nat
  BY IntakeAssumption, FS_Subset, FS_CardinalityType
<1>3. g[w] = x /\ \A u \in Workers : u # w => g[u] = f[u] OBVIOUS
<1>6. A = AtAny(f, P) /\ B = AtAny(g, P) BY DEF AtAny
<1> SUFFICES Cardinality(B) = Cardinality(A) + Bit(x.pc \in P) - Bit(f[w].pc \in P)
  BY <1>1, <1>6
<1>4. CASE x.pc \in P
  <2>1. B = A \cup {w} BY <1>3, <1>4
  <2>2. w \in A <=> f[w].pc \in P OBVIOUS
  <2>3. Cardinality(B) = IF w \in A THEN Cardinality(A) ELSE Cardinality(A) + 1
    BY <1>1, <2>1, FS_AddElement
  <2>4. QED BY <1>1, <1>2, <1>4, <2>2, <2>3 DEF Bit
<1>5. CASE x.pc \notin P
  <2>1. B = A \ {w} BY <1>3, <1>5
  <2>2. w \in A <=> f[w].pc \in P OBVIOUS
  <2>3. Cardinality(B) = IF w \in A THEN Cardinality(A) - 1 ELSE Cardinality(A)
    BY <1>1, <2>1, FS_RemoveElement
  <2>4. QED BY <1>1, <1>2, <1>5, <2>2, <2>3 DEF Bit
<1>7. QED BY <1>4, <1>5

\* A worker goes to x, and the permits and the counter follow.
LEMMA WorkerMoves ==
    ASSUME IntakeInv, NEW w \in Workers, NEW x \in Items,
           work' = [work EXCEPT ![w] = x],
           UNCHANGED <<now, counters, issued>>,
           permits' = permits - Bit(x.pc \in Held) + Bit(work[w].pc \in Held),
           inflight' = inflight + Bit(x.pc \in Counted) - Bit(work[w].pc \in Counted),
           x.pc \in Held /\ work[w].pc \notin Held => permits > 0
    PROVE  IntakeTypes' /\ permits' \in Int /\ inflight' \in Int /\ PermitsExact'
<1>1. work \in [Workers -> Items] BY DEF IntakeInv, IntakeTypes, Items
<1>2. work' \in [Workers -> Items] BY <1>1
<1>3. IntakeTypes' BY <1>2 DEF IntakeInv, IntakeTypes, Items
<1>4. /\ Cardinality(Holding(Held)) \in Nat
      /\ Cardinality(Holding(Held)') =
            Cardinality(Holding(Held)) + Bit(x.pc \in Held) - Bit(work[w].pc \in Held)
  <2>1. Holding(Held) = AtAny(work, Held) /\ Holding(Held)' = AtAny(work', Held)
    BY DEF Holding, AtAny, Held
  <2>2. /\ Cardinality(AtAny(work, Held)) \in Nat
        /\ Cardinality(AtAny([work EXCEPT ![w] = x], Held)) =
              Cardinality(AtAny(work, Held)) + Bit(x.pc \in Held)
                  - Bit(work[w].pc \in Held)
    BY <1>1, OneWorkerMoves
  <2>3. QED BY <2>1, <2>2, Zenon
<1>5. /\ Cardinality(Holding(Counted)) \in Nat
      /\ Cardinality(Holding(Counted)') =
            Cardinality(Holding(Counted)) + Bit(x.pc \in Counted)
                - Bit(work[w].pc \in Counted)
  <2>1. Holding(Counted) = AtAny(work, Counted) /\ Holding(Counted)' = AtAny(work', Counted)
    BY DEF Holding, AtAny, Counted
  <2>2. /\ Cardinality(AtAny(work, Counted)) \in Nat
        /\ Cardinality(AtAny([work EXCEPT ![w] = x], Counted)) =
              Cardinality(AtAny(work, Counted)) + Bit(x.pc \in Counted)
                  - Bit(work[w].pc \in Counted)
    BY <1>1, OneWorkerMoves
  <2>3. QED BY <2>1, <2>2, Zenon
<1>6. /\ permits \in Int /\ inflight \in Int
      /\ permits = Capacity - Cardinality(Holding(Held))
      /\ inflight = Cardinality(Holding(Counted))
  BY DEF IntakeInv, PermitsExact, Held, Counted
<1>7. /\ Bit(x.pc \in Held) \in Int /\ Bit(work[w].pc \in Held) \in Int
      /\ Bit(x.pc \in Counted) \in Int /\ Bit(work[w].pc \in Counted) \in Int
  BY DEF Bit
<1>8. /\ permits' \in Int /\ inflight' \in Int
      /\ permits' = Capacity - Cardinality(Holding(Held)')
      /\ inflight' = Cardinality(Holding(Counted)')
  BY <1>4, <1>5, <1>6, <1>7, CapacityAssumption
<1>9. permits' >= 0
  <2>1. permits >= 0 BY DEF IntakeInv, PermitsExact
  <2>2. QED BY <1>6, <2>1 DEF Bit
<1>10. PermitsExact' BY <1>8, <1>9 DEF PermitsExact, Held, Counted
<1>11. QED BY <1>3, <1>8, <1>10

\* Where no worker's step is involved.
LEMMA WorkersRest ==
    ASSUME IntakeInv, UNCHANGED <<work, permits, inflight>>
    PROVE  permits' \in Int /\ inflight' \in Int /\ PermitsExact'
BY DEF IntakeInv, PermitsExact, Holding

\* Where Redis is not written.
LEMMA FreshRests ==
    ASSUME KeyBounds, FreshAndInOrder, UNCHANGED freshVars
    PROVE  KeyBounds' /\ FreshAndInOrder'
BY DEF KeyBounds, FreshAndInOrder, freshVars

\* Where the scope is not touched.
LEMMA WindowRests ==
    ASSUME QueueExact, WindowsExact, UNCHANGED <<behaviorVars, snapshots>>
    PROVE  QueueExact' /\ WindowsExact'
BY DEF QueueExact, WindowsExact, SnapshotExact, InWindow, behaviorVars

\* What Goto and Rest make of a worker.
LEMMA Goes ==
    ASSUME IntakeTypes, NEW w \in Workers, NEW p, Goto(w, p),
           \/ work[w].pc \in CallPcs /\ p \in CallPcs
           \/ work[w].pc = "leaving" /\ p = "left"
    PROVE  \E x \in Items : x.pc = p /\ work' = [work EXCEPT ![w] = x]
<1> DEFINE x == [work[w] EXCEPT !.pc = p]
<1>1. work \in [Workers -> Items] BY DEF IntakeTypes, Items
<1>2. work[w] \in Items BY <1>1
<1>3. work' = [work EXCEPT ![w] = x] BY <1>1 DEF Goto
<1>4. CASE work[w].pc \in CallPcs /\ p \in CallPcs
  <2>1. work[w] \in Calls BY <1>2, <1>4, ItemKinds
  <2>2. x \in Calls /\ x.pc = p BY <1>4, <2>1, CallGoesOn
  <2>3. QED BY <1>3, <2>2 DEF Items
<1>5. CASE work[w].pc = "leaving" /\ p = "left"
  <2>1. work[w] \in Endings BY <1>2, <1>5, ItemKinds
  <2>2. x \in Endings /\ x.pc = p BY <1>5, <2>1 DEF Endings
  <2>3. QED BY <1>3, <2>2 DEF Items
<1>6. QED BY <1>4, <1>5

\* A worker whose call is over.
LEMMA Rests ==
    ASSUME NEW w \in Workers, Rest(w)
    PROVE  Idle \in Items /\ Idle.pc = "idle" /\ work' = [work EXCEPT ![w] = Idle]
BY DEF Rest, Idle, Items

\* A worker that neither had a permit nor gets one.
LEMMA PlainMove ==
    ASSUME IntakeInv, NEW w \in Workers, NEW x \in Items,
           work' = [work EXCEPT ![w] = x],
           x.pc \notin Held, work[w].pc \notin Held,
           UNCHANGED <<now, counters, issued, admissionVars, behaviorVars, snapshots>>,
           KeyBounds', FreshAndInOrder'
    PROVE  IntakeInv'
<1>1. UNCHANGED <<now, counters, issued>> OBVIOUS
<1>2. permits \in Int /\ inflight \in Int BY DEF IntakeInv
<1>3. permits' = permits /\ inflight' = inflight BY DEF admissionVars
<1>4. /\ permits' = permits - Bit(x.pc \in Held) + Bit(work[w].pc \in Held)
      /\ inflight' = inflight + Bit(x.pc \in Counted) - Bit(work[w].pc \in Counted)
  BY <1>2, <1>3 DEF Bit, Held, Counted
<1>5. IntakeTypes' /\ permits' \in Int /\ inflight' \in Int /\ PermitsExact'
  BY <1>1, <1>4, WorkerMoves
<1>6. QueueExact' /\ WindowsExact' BY WindowRests DEF IntakeInv
<1>7. QED BY <1>5, <1>6 DEF IntakeInv

\* The script commits a request: its number passes the key and becomes it.
LEMMA Commits ==
    ASSUME KeyBounds, FreshAndInOrder, NEW r \in Requests,
           script_result(r) = "OK", CommitFresh(r)
    PROVE  KeyBounds' /\ FreshAndInOrder'
<1> DEFINE n == Len(committed)
<1>1. /\ committed \in Seq(Requests) /\ lastSeq \in [Sessions -> Int]
      /\ \A i \in DOMAIN committed : committed[i].seq <= lastSeq[committed[i].session]
  BY DEF KeyBounds
<1>2. r.session \in Sessions /\ r.seq \in Int BY DEF Requests
<1>3. /\ committed' = Append(committed, r)
      /\ lastSeq' = [lastSeq EXCEPT ![r.session] = r.seq]
  BY DEF CommitFresh
<1>4. lastSeq[r.session] < r.seq
  <2>1. ~ SequenceInvalid(r.session, r.seq) BY DEF script_result
  <2>2. QED BY <1>1, <1>2, <2>1 DEF SequenceInvalid
<1>5. n \in Nat /\ DOMAIN committed = 1..n BY <1>1
<1>6. /\ committed' \in Seq(Requests) /\ Len(committed') = n + 1
      /\ committed'[n + 1] = r /\ \A i \in 1..n : committed'[i] = committed[i]
  BY <1>1, <1>3
<1>7. DOMAIN committed' = 1..(n + 1) BY <1>6
<1>8. \A i \in 1..(n + 1) : i \in 1..n \/ i = n + 1 BY <1>5
<1>9. lastSeq' \in [Sessions -> Int] /\ lastSeq'[r.session] = r.seq
      /\ \A s \in Sessions : lastSeq[s] <= lastSeq'[s]
  BY <1>1, <1>2, <1>3, <1>4
<1>10. \A i \in 1..n : /\ committed[i].session \in Sessions /\ committed[i].seq \in Int
                       /\ lastSeq[committed[i].session] \in Int
                       /\ lastSeq'[committed[i].session] \in Int
                       /\ committed[i].seq <= lastSeq[committed[i].session]
  <2> SUFFICES ASSUME NEW i \in 1..n
               PROVE  /\ committed[i].session \in Sessions /\ committed[i].seq \in Int
                      /\ lastSeq[committed[i].session] \in Int
                      /\ lastSeq'[committed[i].session] \in Int
                      /\ committed[i].seq <= lastSeq[committed[i].session]
    OBVIOUS
  <2>1. committed[i] \in Requests BY <1>1, <1>5
  <2>2. committed[i].session \in Sessions /\ committed[i].seq \in Int BY <2>1 DEF Requests
  <2>3. QED BY <1>1, <1>5, <1>9, <2>2
<1> HIDE DEF n
<1>11. \A i \in 1..(n + 1) : committed'[i].seq <= lastSeq'[committed'[i].session]
  <2> SUFFICES ASSUME NEW i \in 1..(n + 1)
               PROVE  committed'[i].seq <= lastSeq'[committed'[i].session]
    OBVIOUS
  <2>1. CASE i = n + 1 BY <1>2, <1>6, <1>9, <2>1
  <2>2. CASE i \in 1..n
    <3>1. /\ committed[i].seq <= lastSeq[committed[i].session]
          /\ lastSeq[committed[i].session] <= lastSeq'[committed[i].session]
      BY <1>9, <1>10, <2>2
    <3>2. committed[i].seq <= lastSeq'[committed[i].session] BY <1>10, <2>2, <3>1
    <3>3. QED BY <1>6, <2>2, <3>2
  <2>3. QED BY <1>8, <2>1, <2>2
<1>12. KeyBounds' BY <1>6, <1>7, <1>9, <1>11 DEF KeyBounds
<1>13. ASSUME NEW i \in 1..(n + 1), NEW j \in 1..(n + 1), i < j,
              committed'[i].session = committed'[j].session
       PROVE  committed'[i].seq < committed'[j].seq
  <2>1. i \in 1..n BY <1>5, <1>13
  <2>2. CASE j = n + 1
    <3>1. committed[i].session = r.session BY <1>6, <1>13, <2>1, <2>2
    <3>2. committed[i].seq <= lastSeq[r.session] BY <1>10, <2>1, <3>1
    <3>3. committed[i].seq < r.seq
      <4>1. committed[i].seq \in Int /\ lastSeq[r.session] \in Int
        BY <1>1, <1>2, <1>10, <2>1
      <4>2. QED BY <1>2, <1>4, <3>2, <4>1
    <3>4. QED BY <1>6, <2>1, <2>2, <3>3
  <2>3. CASE j \in 1..n
    <3>1. i \in DOMAIN committed /\ j \in DOMAIN committed BY <1>5, <2>1, <2>3
    <3>2. committed[i].session = committed[j].session BY <1>6, <1>13, <2>1, <2>3
    <3>3. committed[i].seq < committed[j].seq BY <1>13, <3>1, <3>2 DEF FreshAndInOrder
    <3>4. QED BY <1>6, <2>1, <2>3, <3>3
  <2>4. QED BY <1>8, <2>2, <2>3
<1>14. FreshAndInOrder' BY <1>7, <1>13 DEF FreshAndInOrder
<1>15. QED BY <1>12, <1>14

\* An event is applied.
LEMMA EventApplied ==
    ASSUME QueueExact, WindowsExact, NEW e \in Events, NEW at \in Int, e.at \in Int,
           apply(e, at), UNCHANGED snapshots
    PROVE  QueueExact' /\ WindowsExact'
<1> DEFINE q == IF e.kind = "EXECUTED" THEN Append(executed, e.at) ELSE executed
<1>1. /\ executed \in Seq(Int) /\ recorded \in Seq(Events) /\ prunedAt \in Int
      /\ Window(executed, recorded, prunedAt)
      /\ \A s \in snapshots : s.seen \in 0..Len(recorded)
  BY DEF QueueExact
<1>2. /\ executed' = prune(q, at)
      /\ recorded' = Append(recorded, e)
      /\ prunedAt' = Later(at, prunedAt)
  BY DEF apply, Pruned, Later
<1>3. q \in Seq(Int) /\ Window(q, Append(recorded, e), prunedAt)
  BY <1>1, WindowAppended
<1>4. /\ Append(recorded, e) \in Seq(Events)
      /\ Len(Append(recorded, e)) = Len(recorded) + 1
      /\ \A n \in 0..Len(recorded) : \A start :
            InHistory(Append(recorded, e), n, start) = InHistory(recorded, n, start)
  BY <1>1, HistoryAppended
<1> HIDE DEF q
<1>5. /\ Later(at, prunedAt) \in Int /\ prune(q, at) \in Seq(Int)
      /\ Window(prune(q, at), Append(recorded, e), Later(at, prunedAt))
  BY <1>1, <1>3, WindowPruned
<1>6. Len(recorded) \in Nat /\ Len(recorded') = Len(recorded) + 1 BY <1>1, <1>2, <1>4
<1>7. \A s \in snapshots' : s.seen \in 0..Len(recorded') BY <1>1, <1>6
<1>8. Window(executed', recorded', prunedAt') BY <1>2, <1>5
<1>9. QueueExact' BY <1>2, <1>4, <1>5, <1>7, <1>8 DEF QueueExact
<1>10. ASSUME NEW s \in snapshots PROVE SnapshotExact(s)'
  <2>1. SnapshotExact(s) BY DEF WindowsExact
  <2>2. \A window, since : InWindow(s.seen, window, since)' = InWindow(s.seen, window, since)
    <3> SUFFICES ASSUME NEW window, NEW since
                 PROVE  InWindow(s.seen, window, since)' = InWindow(s.seen, window, since)
      OBVIOUS
    <3>1. InHistory(recorded', s.seen, since - window)
            = InHistory(recorded, s.seen, since - window)
      BY <1>1, <1>2, <1>4
    <3>2. QED BY <3>1 DEF InWindow, InHistory
  <2>3. QED BY <2>1, <2>2 DEF SnapshotExact
<1>11. WindowsExact' BY <1>10 DEF WindowsExact
<1>12. QED BY <1>9, <1>11

\* A snapshot is taken: it counts in the pruned queue.
LEMMA SnapshotTaken ==
    ASSUME QueueExact, WindowsExact, NEW at \in Int,
           executed' = prune(executed, at), Pruned(at), recorded' = recorded,
           snapshots' = snapshots \cup {snapshot(at)}
    PROVE  QueueExact' /\ WindowsExact'
<1> DEFINE q == prune(executed, at)
           s == snapshot(at)
<1>1. /\ executed \in Seq(Int) /\ recorded \in Seq(Events) /\ prunedAt \in Int
      /\ Window(executed, recorded, prunedAt)
      /\ \A c \in snapshots : c.seen \in 0..Len(recorded)
  BY DEF QueueExact
<1>2. prunedAt' = Later(at, prunedAt) BY DEF Pruned, Later
<1>3. /\ Later(at, prunedAt) \in Int /\ q \in Seq(Int)
      /\ Window(q, recorded, Later(at, prunedAt))
  BY <1>1, WindowPruned
<1>4. /\ s.computed_at = at /\ s.seen = Len(recorded) /\ s.pruned = Later(at, prunedAt)
      /\ s.last_60s = Cardinality(InQueue(q, at - Window60s))
      /\ s.last_5m = Cardinality(InQueue(q, at - Window5m))
  BY DEF snapshot, Later, actions_last, InQueue
<1>5. Len(recorded) \in Nat BY <1>1
<1>6. QueueExact'
  <2>1. \A c \in snapshots' : c.seen \in 0..Len(recorded') BY <1>1, <1>4, <1>5
  <2>2. Window(executed', recorded', prunedAt') BY <1>2, <1>3
  <2>3. QED BY <1>1, <1>2, <1>3, <2>1, <2>2 DEF QueueExact
<1>7. \A start \in Int : start >= Later(at, prunedAt) - Window5m =>
          Cardinality(InQueue(q, start)) = Cardinality(InHistory(recorded, Len(recorded), start))
  BY <1>3 DEF Window
<1>8. \A window : InWindow(Len(recorded), window, at)
                    = Cardinality(InHistory(recorded, Len(recorded), at - window))
  BY DEF InWindow, InHistory
<1> HIDE DEF q, s
<1>9. SnapshotExact(s)
  <2>1. ASSUME s.pruned <= s.computed_at + (Window5m - Window60s)
        PROVE  s.last_60s = InWindow(s.seen, Window60s, s.computed_at)
    <3>1. at - Window60s \in Int /\ at - Window60s >= Later(at, prunedAt) - Window5m
      BY <1>3, <1>4, <2>1, WindowAssumption
    <3>2. QED BY <1>4, <1>7, <1>8, <3>1
  <2>2. ASSUME s.pruned = s.computed_at
        PROVE  s.last_5m = InWindow(s.seen, Window5m, s.computed_at)
    <3>1. at - Window5m \in Int /\ at - Window5m >= Later(at, prunedAt) - Window5m
      BY <1>3, <1>4, <2>2, WindowAssumption
    <3>2. QED BY <1>4, <1>7, <1>8, <3>1
  <2>3. QED BY <2>1, <2>2 DEF SnapshotExact
<1>10. WindowsExact'
  <2>1. ASSUME NEW c, SnapshotExact(c) PROVE SnapshotExact(c)'
    BY <2>1 DEF SnapshotExact, InWindow
  <2>2. snapshots' = snapshots \cup {s} BY DEF s
  <2>3. \A c \in snapshots' : SnapshotExact(c) BY <1>9, <2>2 DEF WindowsExact
  <2>4. QED BY <2>1, <2>3 DEF WindowsExact
<1>11. QED BY <1>6, <1>10

-----------------------------------------------------------------------------
(***************************************************************************)
(* The actions.                                                            *)
(***************************************************************************)

\* At first nothing is committed, held or counted.
LEMMA InitHolds == Init => IntakeInv
<1> SUFFICES ASSUME Init PROVE IntakeInv OBVIOUS
<1>1. IntakeTypes
  <2>1. work \in [Workers -> Items] BY DEF Init, Items
  <2>2. IsFiniteSet(issued) BY FS_EmptySet DEF Init
  <2>3. QED BY <2>1, <2>2 DEF Init, IntakeTypes
<1>2. KeyBounds /\ FreshAndInOrder
  BY DEF Init, FreshInit, KeyBounds, FreshAndInOrder
<1>3. permits \in Int /\ inflight \in Int /\ PermitsExact
  <2>1. ASSUME NEW P, "idle" \notin P PROVE Holding(P) = {}
    BY <2>1 DEF Holding, Init, Idle
  <2>2. /\ Holding({"acquired", "entered", "snapped", "leaving", "left"}) = {}
        /\ Holding({"entered", "snapped", "leaving"}) = {}
    BY <2>1
  <2>3. Cardinality({}) = 0 BY FS_EmptySet
  <2>4. permits = Capacity /\ inflight = 0 BY DEF Init, AdmissionInit
  <2>5. QED BY <2>2, <2>3, <2>4, CapacityAssumption DEF PermitsExact
<1>4. QueueExact /\ WindowsExact
  <2>1. executed = <<>> /\ recorded = <<>> /\ prunedAt = -Window5m /\ snapshots = {}
    BY DEF Init, BehaviorInit
  <2>2. \A start : InQueue(executed, start) = {} /\ InHistory(recorded, Len(recorded), start) = {}
    BY <2>1 DEF InQueue, InHistory
  <2>3. Window(executed, recorded, prunedAt) BY <2>2 DEF Window
  <2>4. -Window5m \in Int BY WindowAssumption
  <2>5. executed \in Seq(Int) /\ recorded \in Seq(Events) BY <2>1
  <2>6. QED BY <2>1, <2>3, <2>4, <2>5 DEF QueueExact, WindowsExact
<1>5. QED BY <1>1, <1>2, <1>3, <1>4 DEF IntakeInv

\* The SDK builds a request with the next number of its counter.
LEMMA BuildKeeps ==
    ASSUME IntakeInv, NEW b \in Builds, build_and_sign(b)
    PROVE  IntakeInv'
<1> DEFINE key == <<b.agent, b.session>>
           r == [nonce |-> Cardinality(issued), agent |-> b.agent, session |-> b.session,
                 seq |-> counters[key] + 1, timestamp |-> now + b.drift,
                 expires |-> (now + b.drift) + b.ttl]
<1>1. /\ b.agent \in Agents /\ b.session \in Sessions /\ b.ttl \in Int /\ b.drift \in Int
  BY IntakeAssumption
<1>2. IntakeTypes BY DEF IntakeInv
<1>3. Cardinality(issued) \in Nat /\ now \in Nat BY <1>2, FS_CardinalityType DEF IntakeTypes
<1>4. key \in Agents \X Sessions /\ counters[key] \in Int BY <1>1, <1>2 DEF IntakeTypes
<1>5. r \in Requests BY <1>1, <1>3, <1>4 DEF Requests
<1>6. /\ counters' = [counters EXCEPT ![key] = counters[key] + 1]
      /\ issued' = issued \cup {r}
      /\ UNCHANGED <<now, freshVars, admissionVars, behaviorVars, work, snapshots>>
  BY DEF build_and_sign
<1> HIDE DEF r
<1>7. issued' \subseteq Requests /\ IsFiniteSet(issued')
  BY <1>2, <1>5, <1>6, FS_AddElement DEF IntakeTypes
<1>8. counters' \in [Agents \X Sessions -> Int] BY <1>2, <1>4, <1>6 DEF IntakeTypes
<1>9. IntakeTypes' BY <1>2, <1>6, <1>7, <1>8 DEF IntakeTypes
<1>10. permits' \in Int /\ inflight' \in Int /\ PermitsExact'
  BY <1>6, WorkersRest DEF admissionVars
<1>11. KeyBounds' /\ FreshAndInOrder' BY <1>6, FreshRests DEF IntakeInv
<1>12. QueueExact' /\ WindowsExact' BY <1>6, WindowRests DEF IntakeInv
<1>13. QED BY <1>9, <1>10, <1>11, <1>12 DEF IntakeInv

\* Steps that leave the workers and what they write alone.
LEMMA OthersKeep ==
    ASSUME IntakeInv, now' \in Nat, counters' \in [Agents \X Sessions -> Int],
           UNCHANGED <<issued, work, freshVars, admissionVars, behaviorVars, snapshots>>
    PROVE  IntakeInv'
<1>1. IntakeTypes' BY DEF IntakeInv, IntakeTypes
<1>2. permits' \in Int /\ inflight' \in Int /\ PermitsExact' BY WorkersRest DEF admissionVars
<1>3. KeyBounds' /\ FreshAndInOrder' BY FreshRests DEF IntakeInv
<1>4. QueueExact' /\ WindowsExact' BY WindowRests DEF IntakeInv
<1>5. QED BY <1>1, <1>2, <1>3, <1>4 DEF IntakeInv

\* A worker takes a request up.
LEMMA EvaluateKeeps ==
    ASSUME IntakeInv, NEW w \in Workers, NEW r \in issued, evaluate(w, r)
    PROVE  IntakeInv'
<1>1. r \in Requests /\ now \in Nat BY DEF IntakeInv, IntakeTypes
<1>2. PICK at : at = now OBVIOUS
<1>3. PICK c : c = [pc |-> "verified", req |-> r, now |-> at] OBVIOUS
<1>4. c \in Items /\ c.pc \notin Held
  <2>1. c \in Calls BY <1>1, <1>2, <1>3 DEF Calls, CallPcs
  <2>2. c.pc = "verified" BY <1>3
  <2>3. QED BY <2>1, <2>2 DEF Items, Held
<1>5. /\ work[w].pc = "idle" /\ work' = [work EXCEPT ![w] = c]
      /\ UNCHANGED <<now, freshVars, admissionVars, behaviorVars, counters, issued,
                     snapshots>>
  BY <1>2, <1>3 DEF evaluate, At
<1>6. KeyBounds' /\ FreshAndInOrder' BY <1>5, FreshRests DEF IntakeInv
<1>7. work[w].pc \notin Held BY <1>5 DEF Held
<1>8. QED BY <1>4, <1>5, <1>6, <1>7, PlainMove

\* The freshness script answers, or cannot be reached.
LEMMA CommitKeeps ==
    ASSUME IntakeInv, NEW w \in Workers, check_and_commit(w)
    PROVE  IntakeInv'
<1>1. /\ work[w].pc = "verified"
      /\ UNCHANGED <<now, counters, issued, admissionVars, behaviorVars, snapshots>>
  BY DEF check_and_commit, At
<1>2. work[w].req \in Requests
  <2>1. work[w] \in Items BY DEF IntakeInv, IntakeTypes, Items
  <2>2. QED BY <1>1, <2>1, ItemKinds DEF CallPcs
<1>3. KeyBounds' /\ FreshAndInOrder'
  <2>1. CASE script_result(work[w].req) = "OK" /\ CommitFresh(work[w].req)
    <3>1. PICK r : r = work[w].req OBVIOUS
    <3>2. script_result(r) = "OK" /\ CommitFresh(r) /\ r \in Requests BY <1>2, <2>1, <3>1
    <3>3. QED BY <3>2, Commits DEF IntakeInv
  <2>2. CASE UNCHANGED freshVars BY <2>2, FreshRests DEF IntakeInv
  <2>3. QED BY <2>1, <2>2 DEF check_and_commit
<1>4. \E x \in Items : x.pc \notin Held /\ work' = [work EXCEPT ![w] = x]
  <2>1. CASE Goto(w, "committed")
    <3>1. PICK x \in Items : x.pc = "committed" /\ work' = [work EXCEPT ![w] = x]
      BY <1>1, <2>1, Goes DEF IntakeInv, CallPcs
    <3>2. QED BY <3>1 DEF Held
  <2>2. CASE Rest(w) BY <2>2, Rests DEF Held
  <2>3. QED BY <2>1, <2>2 DEF check_and_commit
<1>5. work[w].pc \notin Held BY <1>1 DEF Held
<1>6. QED BY <1>1, <1>3, <1>4, <1>5, PlainMove

\* The session and the policy are consulted.
LEMMA DecideKeeps ==
    ASSUME IntakeInv, NEW w \in Workers, validate(w) \/ authorize(w)
    PROVE  IntakeInv'
<1>1. /\ work[w].pc \in {"committed", "validated"}
      /\ UNCHANGED <<now, counters, issued, freshVars, admissionVars, behaviorVars,
                     snapshots>>
      /\ Goto(w, "validated") \/ Goto(w, "allowed") \/ Rest(w)
  BY DEF validate, authorize, At
<1>2. KeyBounds' /\ FreshAndInOrder' BY <1>1, FreshRests DEF IntakeInv
<1>3. \E x \in Items : x.pc \notin Held /\ work' = [work EXCEPT ![w] = x]
  <2>1. ASSUME NEW p \in {"validated", "allowed"}, Goto(w, p)
        PROVE  \E x \in Items : x.pc \notin Held /\ work' = [work EXCEPT ![w] = x]
    <3>1. PICK x \in Items : x.pc = p /\ work' = [work EXCEPT ![w] = x]
      BY <1>1, <2>1, Goes DEF IntakeInv, CallPcs
    <3>2. QED BY <3>1 DEF Held
  <2>2. CASE Rest(w) BY <2>2, Rests DEF Held
  <2>3. QED BY <1>1, <2>1, <2>2
<1>4. work[w].pc \notin Held BY <1>1 DEF Held
<1>5. QED BY <1>1, <1>2, <1>3, <1>4, PlainMove

\* Steps of the admission bound.
LEMMA AdmissionKeeps ==
    ASSUME IntakeInv, NEW w \in Workers,
           admit(w) \/ Enter(w) \/ Leave(w) \/ Release(w)
    PROVE  IntakeInv'
<1>1. UNCHANGED <<now, counters, issued, freshVars, behaviorVars, snapshots>>
  BY DEF admit, Enter, Leave, Release
<1>2. permits \in Int /\ inflight \in Int /\ IntakeTypes BY DEF IntakeInv
<1>3. \E x \in Items :
         /\ work' = [work EXCEPT ![w] = x]
         /\ permits' = permits - Bit(x.pc \in Held) + Bit(work[w].pc \in Held)
         /\ inflight' = inflight + Bit(x.pc \in Counted) - Bit(work[w].pc \in Counted)
         /\ x.pc \in Held /\ work[w].pc \notin Held => permits > 0
  <2>1. CASE admit(w) /\ acquire /\ Goto(w, "acquired")
    <3>1. work[w].pc = "allowed" BY <2>1 DEF admit, At
    <3>2. PICK x \in Items : x.pc = "acquired" /\ work' = [work EXCEPT ![w] = x]
      BY <1>2, <2>1, <3>1, Goes DEF CallPcs
    <3>3. permits > 0 /\ permits' = permits - 1 /\ inflight' = inflight
      BY <2>1 DEF acquire
    <3>4. /\ permits' = permits - Bit(x.pc \in Held) + Bit(work[w].pc \in Held)
          /\ inflight' = inflight + Bit(x.pc \in Counted) - Bit(work[w].pc \in Counted)
          /\ x.pc \in Held /\ work[w].pc \notin Held => permits > 0
      BY <1>2, <3>1, <3>2, <3>3 DEF Bit, Held, Counted
    <3>5. QED BY <3>2, <3>4
  <2>2. CASE admit(w) /\ shed_job /\ Rest(w)
    <3>1. work[w].pc = "allowed" BY <2>2 DEF admit, At
    <3>2. permits' = permits /\ inflight' = inflight BY <2>2 DEF shed_job
    <3>3. QED BY <1>2, <2>2, <3>1, <3>2, Rests DEF Bit, Held, Counted
  <2>3. CASE Enter(w)
    <3>1. work[w].pc = "acquired" /\ Goto(w, "entered") BY <2>3 DEF Enter, At
    <3>2. PICK x \in Items : x.pc = "entered" /\ work' = [work EXCEPT ![w] = x]
      BY <1>2, <3>1, Goes DEF CallPcs
    <3>3. permits' = permits /\ inflight' = inflight + 1 BY <2>3 DEF Enter, enter
    <3>4. /\ permits' = permits - Bit(x.pc \in Held) + Bit(work[w].pc \in Held)
          /\ inflight' = inflight + Bit(x.pc \in Counted) - Bit(work[w].pc \in Counted)
          /\ x.pc \in Held /\ work[w].pc \notin Held => permits > 0
      BY <1>2, <3>1, <3>2, <3>3 DEF Bit, Held, Counted
    <3>5. QED BY <3>2, <3>4
  <2>4. CASE Leave(w)
    <3>1. work[w].pc = "leaving" /\ Goto(w, "left") BY <2>4 DEF Leave, At
    <3>2. PICK x \in Items : x.pc = "left" /\ work' = [work EXCEPT ![w] = x]
      BY <1>2, <3>1, Goes
    <3>3. permits' = permits /\ inflight' = inflight - 1 BY <2>4 DEF Leave, leave
    <3>4. /\ permits' = permits - Bit(x.pc \in Held) + Bit(work[w].pc \in Held)
          /\ inflight' = inflight + Bit(x.pc \in Counted) - Bit(work[w].pc \in Counted)
          /\ x.pc \in Held /\ work[w].pc \notin Held => permits > 0
      BY <1>2, <3>1, <3>2, <3>3 DEF Bit, Held, Counted
    <3>5. QED BY <3>2, <3>4
  <2>5. CASE Release(w)
    <3>1. work[w].pc = "left" /\ Rest(w) BY <2>5 DEF Release, At
    <3>2. permits' = permits + 1 /\ inflight' = inflight BY <2>5 DEF Release, release
    <3>3. QED BY <1>2, <3>1, <3>2, Rests DEF Bit, Held, Counted
  <2>6. QED BY <2>1, <2>2, <2>3, <2>4, <2>5 DEF admit
<1>4. IntakeTypes' /\ permits' \in Int /\ inflight' \in Int /\ PermitsExact'
  BY <1>1, <1>3, WorkerMoves
<1>5. KeyBounds' /\ FreshAndInOrder' BY <1>1, FreshRests DEF IntakeInv
<1>6. QueueExact' /\ WindowsExact' BY <1>1, WindowRests DEF IntakeInv
<1>7. QED BY <1>4, <1>5, <1>6 DEF IntakeInv

\* The snapshot is taken under the scope's lock.
LEMMA TransitionKeeps ==
    ASSUME IntakeInv, NEW w \in Workers, transition(w)
    PROVE  IntakeInv'
<1>1. /\ work[w].pc = "entered" /\ Goto(w, "snapped")
      /\ UNCHANGED <<now, freshVars, admissionVars, recorded, counters, issued>>
  BY DEF transition, At
<1>2. PICK at : at = work[w].now OBVIOUS
<1>3. at \in Int
  <2>1. work[w] \in Items BY DEF IntakeInv, IntakeTypes, Items
  <2>2. at \in Nat BY <1>1, <1>2, <2>1, ItemKinds DEF CallPcs
  <2>3. QED BY <2>2
<1>4. /\ executed' = prune(executed, at) /\ Pruned(at) /\ recorded' = recorded
      /\ snapshots' = snapshots \cup {snapshot(at)}
  BY <1>2 DEF transition
<1>5. QueueExact' /\ WindowsExact' BY <1>3, <1>4, SnapshotTaken DEF IntakeInv
<1>6. KeyBounds' /\ FreshAndInOrder' BY <1>1, FreshRests DEF IntakeInv
<1>7. PICK x \in Items : x.pc = "snapped" /\ work' = [work EXCEPT ![w] = x]
  BY <1>1, Goes DEF IntakeInv, CallPcs
<1>8. /\ permits' = permits - Bit(x.pc \in Held) + Bit(work[w].pc \in Held)
      /\ inflight' = inflight + Bit(x.pc \in Counted) - Bit(work[w].pc \in Counted)
      /\ x.pc \in Held /\ work[w].pc \notin Held => permits > 0
  BY <1>1, <1>7 DEF IntakeInv, admissionVars, Bit, Held, Counted
<1>9. IntakeTypes' /\ permits' \in Int /\ inflight' \in Int /\ PermitsExact'
  BY <1>1, <1>7, <1>8, WorkerMoves
<1>10. QED BY <1>5, <1>6, <1>9 DEF IntakeInv

\* The job ends and its event is applied.
LEMMA PerformKeeps ==
    ASSUME IntakeInv, NEW w \in Workers, Perform(w)
    PROVE  IntakeInv'
<1>1. /\ work[w].pc = "snapped"
      /\ UNCHANGED <<now, freshVars, admissionVars, counters, issued, snapshots>>
  BY DEF Perform, At
<1>2. PICK at : at = work[w].now OBVIOUS
<1>3. at \in Nat
  <2>1. work[w] \in Items BY DEF IntakeInv, IntakeTypes, Items
  <2>2. QED BY <1>1, <1>2, <2>1, ItemKinds DEF CallPcs
<1>4. /\ \/ \E e \in Events : apply(e, at)
         \/ UNCHANGED behaviorVars
      /\ \E raised \in BOOLEAN :
            work' = [work EXCEPT ![w] = [pc |-> "leaving", raised |-> raised]]
  BY <1>2 DEF Perform
<1>5. QueueExact' /\ WindowsExact'
  <2>1. CASE UNCHANGED behaviorVars BY <1>1, <2>1, WindowRests DEF IntakeInv
  <2>2. ASSUME NEW e \in Events, apply(e, at)
        PROVE  QueueExact' /\ WindowsExact'
    <3>1. e.at \in Int /\ at \in Int
      BY <1>3, IntakeAssumption
    <3>2. QED BY <1>1, <2>2, <3>1, EventApplied DEF IntakeInv
  <2>3. QED BY <1>4, <2>1, <2>2
<1>6. KeyBounds' /\ FreshAndInOrder' BY <1>1, FreshRests DEF IntakeInv
<1>7. PICK raised \in BOOLEAN :
         work' = [work EXCEPT ![w] = [pc |-> "leaving", raised |-> raised]]
  BY <1>4
<1>8. PICK x : x = [pc |-> "leaving", raised |-> raised] OBVIOUS
<1>9. x \in Items /\ x.pc = "leaving"
  <2>1. x \in Endings BY <1>8 DEF Endings
  <2>2. QED BY <1>8, <2>1 DEF Items
<1>10. /\ permits' = permits - Bit(x.pc \in Held) + Bit(work[w].pc \in Held)
       /\ inflight' = inflight + Bit(x.pc \in Counted) - Bit(work[w].pc \in Counted)
       /\ x.pc \in Held /\ work[w].pc \notin Held => permits > 0
  BY <1>1, <1>9 DEF IntakeInv, admissionVars, Bit, Held, Counted
<1>11. IntakeTypes' /\ permits' \in Int /\ inflight' \in Int /\ PermitsExact'
  BY <1>1, <1>7, <1>8, <1>9, <1>10, WorkerMoves
<1>12. QED BY <1>5, <1>6, <1>11 DEF IntakeInv

\* An event is reported from outside a job.
LEMMA RecordKeeps ==
    ASSUME IntakeInv, NEW w \in Workers, record(w) \/ Record(w)
    PROVE  IntakeInv'
<1>1. UNCHANGED <<now, freshVars, admissionVars, counters, issued, snapshots>>
  BY DEF record, Record
<1>2. KeyBounds' /\ FreshAndInOrder' BY <1>1, FreshRests DEF IntakeInv
<1>3. CASE record(w)
  <2>1. PICK x : x = [pc |-> "recording", now |-> now] OBVIOUS
  <2>2. x \in Items /\ x.pc \notin Held
    <3>1. x \in Reports BY <2>1 DEF IntakeInv, IntakeTypes, Reports
    <3>2. QED BY <2>1, <3>1 DEF Items, Held
  <2>3. work[w].pc \notin Held /\ work' = [work EXCEPT ![w] = x] /\ UNCHANGED behaviorVars
    BY <1>3, <2>1 DEF record, At, Held
  <2>4. QED BY <1>1, <1>2, <2>2, <2>3, PlainMove
<1>4. CASE Record(w)
  <2>1. work[w].pc = "recording" /\ Rest(w) BY <1>4 DEF Record, At
  <2>2. PICK at : at = work[w].now OBVIOUS
  <2>3. at \in Nat
    <3>1. work[w] \in Items BY DEF IntakeInv, IntakeTypes, Items
    <3>2. QED BY <2>1, <2>2, <3>1, ItemKinds
  <2>4. QueueExact' /\ WindowsExact'
    <3>1. CASE UNCHANGED behaviorVars BY <1>1, <3>1, WindowRests DEF IntakeInv
    <3>2. ASSUME NEW e \in Events, apply(e, at)
          PROVE  QueueExact' /\ WindowsExact'
      <4>1. e.at \in Int /\ at \in Int
        BY <2>3, IntakeAssumption
      <4>2. QED BY <1>1, <3>2, <4>1, EventApplied DEF IntakeInv
    <3>3. QED BY <1>4, <2>2, <3>1, <3>2 DEF Record
  <2>5. /\ Idle \in Items /\ work' = [work EXCEPT ![w] = Idle]
        /\ Idle.pc \notin Held /\ work[w].pc \notin Held
    BY <2>1, Rests DEF Held
  <2>6. /\ permits' = permits - Bit(Idle.pc \in Held) + Bit(work[w].pc \in Held)
        /\ inflight' = inflight + Bit(Idle.pc \in Counted) - Bit(work[w].pc \in Counted)
    BY <1>1, <2>5 DEF IntakeInv, admissionVars, Bit, Held, Counted
  <2>7. IntakeTypes' /\ permits' \in Int /\ inflight' \in Int /\ PermitsExact'
    BY <1>1, <2>5, <2>6, WorkerMoves
  <2>8. QED BY <1>2, <2>4, <2>7 DEF IntakeInv
<1>5. QED BY <1>3, <1>4

-----------------------------------------------------------------------------
\* The inductive invariant holds: sequence keys, permits and windows stay
\* exact under every interleaving of the workers, the agents and the clock.
THEOREM IntakeInvariant == Spec => []IntakeInv
<1>1. Init => IntakeInv BY InitHolds
<1>2. IntakeInv /\ [Next]_vars => IntakeInv'
  <2> SUFFICES ASSUME IntakeInv, [Next]_vars PROVE IntakeInv' OBVIOUS
  <2>1. ASSUME NEW b \in Builds, build_and_sign(b) PROVE IntakeInv' BY <2>1, BuildKeeps
  <2>2. CASE RestartSdk
    <3>1. now' \in Nat /\ counters' \in [Agents \X Sessions -> Int]
      BY <2>2 DEF RestartSdk, IntakeInv, IntakeTypes
    <3>2. QED BY <2>2, <3>1, OthersKeep DEF RestartSdk
  <2>3. ASSUME NEW w \in Workers, NEW r \in issued, evaluate(w, r) PROVE IntakeInv'
    BY <2>3, EvaluateKeeps
  <2>4. ASSUME NEW w \in Workers, record(w) PROVE IntakeInv' BY <2>4, RecordKeeps
  <2>5. ASSUME NEW w \in Workers, Step(w) PROVE IntakeInv'
    BY <2>5, CommitKeeps, DecideKeeps, AdmissionKeeps, TransitionKeeps, PerformKeeps,
       RecordKeeps DEF Step
  <2>6. ASSUME NEW s \in Sessions, revoke(s) PROVE IntakeInv'
    <3>1. now' \in Nat /\ counters' \in [Agents \X Sessions -> Int]
      BY <2>6 DEF revoke, IntakeInv, IntakeTypes
    <3>2. QED BY <2>6, <3>1, OthersKeep DEF revoke
  <2>7. CASE Tick
    <3>1. now' \in Nat /\ counters' \in [Agents \X Sessions -> Int]
      BY <2>7 DEF Tick, ownVars, IntakeInv, IntakeTypes
    <3>2. QED BY <2>7, <3>1, OthersKeep DEF Tick, ownVars
  <2>8. CASE UNCHANGED vars
    <3>1. now' \in Nat /\ counters' \in [Agents \X Sessions -> Int]
      BY <2>8 DEF vars, ownVars, IntakeInv, IntakeTypes
    <3>2. QED BY <2>8, <3>1, OthersKeep DEF vars, ownVars
  <2>9. QED BY <2>1, <2>2, <2>3, <2>4, <2>5, <2>6, <2>7, <2>8 DEF Next
<1>3. QED BY <1>1, <1>2, PTL DEF Spec

\* A request is committed at most once and in the order of its session,
\* whatever nonces have expired: only the sequence key is needed for it.
THEOREM FreshAndInOrderHolds == Spec => []FreshAndInOrder
<1>1. IntakeInv => FreshAndInOrder BY DEF IntakeInv
<1>2. QED BY <1>1, IntakeInvariant, PTL

\* The semaphore and the in-flight counter are exact for any number of workers
\* and any capacity, however jobs end.
THEOREM PermitsExactHolds == Spec => []PermitsExact
<1>1. IntakeInv => PermitsExact BY DEF IntakeInv
<1>2. QED BY <1>1, IntakeInvariant, PTL

\* Windowed counts are exact within the margin of the largest window, for any
\* windows and any order in which the workers' clocks reach the lock.
THEOREM WindowsExactHolds == Spec => []WindowsExact
<1>1. IntakeInv => WindowsExact BY DEF IntakeInv
<1>2. QED BY <1>1, IntakeInvariant, PTL

=============================================================================

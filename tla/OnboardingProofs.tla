-------------------------- MODULE OnboardingProofs --------------------------
(***************************************************************************)
(* Proofs about deployment modes, shadow reports, activation and the audit *)
(* log, for any number of threads, modes, profiles, operations and faults. *)
(*                                                                         *)
(* The mode is tied to the mode last put on record; while nothing was      *)
(* corrupted, that is the one the stored log leaves.  An event that is     *)
(* still at its position has a link to what was stored before it when it   *)
(* was appended, so a link that fits shows that this is stored there       *)
(* still.  A checkpoint past its first reading relies on a chain that      *)
(* verifies as long as no fault strikes, and the head of a chain that      *)
(* verifies commits to the whole log: by the least position where it does  *)
(* not.                                                                    *)
(***************************************************************************)
EXTENDS Onboarding, Integers, WellFoundedInduction, TLAPS

AllModes == Modes \cup {"OBSERVE"}
Jobs == ModeJobs \cup CheckpointJobs \cup ReportJobs
ModePayloads == [action : {"mode_change"}, old_mode : AllModes, new_mode : Modes]
ActivationPayloads ==
    [action : {"onboarding_activation"},
     result : {"BLOCKED", "CONFORMANCE_FAILED", "ENFORCED"}]
Payloads == ModePayloads \cup ActivationPayloads \cup {[action |-> "altered"]}
Bodies == [seq : Nat, payload : Payloads]
Events == [seq : Nat, payload : Payloads, prev_hash : Seq(Bodies)]
Observations == [outcome : Outcomes, base : BOOLEAN, recorded : AllModes]

OnboardingTypes ==
    /\ events \in Seq(Events)
    /\ faults \in Nat
    /\ mode \in AllModes
    /\ onRecord \in AllModes
    /\ modeLock \in Threads \cup {NoThread}
    /\ job \in [Threads -> Jobs \cup {NoJob}]
    /\ observations \in Seq(Observations)

\* Each change on record starts from the mode the records before it leave.
ModesChained(log) ==
    \A i \in ChangesIn(log, Len(log)) : log[i].old_mode = ModeAfter(log, i - 1)

\* While nothing was corrupted, the log tells the history of the mode.
CleanLog ==
    faults = 0 => ModesChained(Stored) /\ onRecord = ModeAfter(Stored, Len(Stored))

\* An event never stands behind the position it was appended at; if it still
\* stands there, its link is to what was stored before it then.
Linked ==
    \A i \in DOMAIN events :
        /\ events[i].seq >= i - 1
        /\ events[i].seq = i - 1 /\ i > 1 =>
              LET h == events[i].prev_hash
              IN Len(h) > 0 /\ h[Len(h)].payload = sealed[i - 1]

\* What a checkpoint signs.
Signed ==
    \A c \in checkpoints :
        ~c.struck => c.body.head_hash = Chain(c.log, c.body.covers_through_seq + 1)

LetThrough == {"WOULD_DENY", "WARN_ALLOW"}

\* An outcome that was decided under the mode on record.
Faithful(o) ==
    o.outcome \in LetThrough <=> (~ o.base /\ o.recorded \in {"OBSERVE", "WARN"})

Observed == \A i \in DOMAIN observations : Faithful(observations[i])

\* What a thread may rely on in the middle of a call.
Relied ==
    \A t \in Threads :
        /\ Doing(t, "verified") => job[t].faults <= faults
        /\ (Doing(t, "verified") /\ job[t].faults = faults) => verify
        /\ Doing(t, "applied") => Faithful(job[t])

\* The lock is held by the one thread that changes the mode; the mode is on
\* record unless it is held.
ModeHeld ==
    /\ \A t \in Threads : Doing(t, "mode") <=> modeLock = t
    /\ modeLock = NoThread => mode = onRecord
    /\ modeLock # NoThread => job[modeLock].new = mode /\ job[modeLock].old = onRecord

\* The inductive invariant.
OnboardingInv ==
    /\ OnboardingTypes
    /\ CleanLog
    /\ Linked
    /\ Signed
    /\ Observed
    /\ Relied
    /\ ModeHeld
    /\ EnforcedConforms

-----------------------------------------------------------------------------
(***************************************************************************)
(* Facts about logs.                                                       *)
(***************************************************************************)

\* Every nonempty set of natural numbers has a least element.
LEMMA LeastNatural ==
    ASSUME NEW T, T \subseteq Nat, T # {}
    PROVE  \E m \in T : \A k \in T : m <= k
<1> DEFINE R == OpToRel(<, Nat)
<1>1. IsWellFoundedOn(R, Nat) BY NatLessThanWellFounded
<1>2. \A x, y \in Nat : <<x, y>> \in R <=> x < y BY DEF OpToRel
<1> HIDE DEF R
<1>3. PICK m \in T : \A y \in T : ~ (<<y, m>> \in R) BY <1>1, WFMin
<1>4. m \in Nat /\ \A y \in T : y \in Nat /\ ~ (y < m) BY <1>2, <1>3
<1>5. QED BY <1>4

\* Every nonempty bounded set of positions has a latest element.
LEMMA LatestIn ==
    ASSUME NEW n \in Nat, NEW S, S \subseteq 1..n, S # {}
    PROVE  Latest(S) \in S /\ \A j \in S : j <= Latest(S)
<1> DEFINE T == {n - i : i \in S}
<1>1. T \subseteq Nat /\ T # {}
  <2>1. \A i \in S : n - i \in Nat OBVIOUS
  <2>2. QED BY <2>1
<1>2. PICK m \in T : \A k \in T : m <= k BY <1>1, LeastNatural
<1>3. PICK i \in S : m = n - i BY <1>2
<1>4. \A j \in S : j <= i
  <2> SUFFICES ASSUME NEW j \in S PROVE j <= i OBVIOUS
  <2>1. n - j \in T /\ i \in Nat /\ j \in Nat OBVIOUS
  <2>2. n - i <= n - j BY <1>2, <1>3, <2>1
  <2>3. QED BY <2>1, <2>2
<1>5. QED BY <1>4 DEF Latest

\* The hash of a log is a sequence of bodies.
LEMMA ChainTyped ==
    ASSUME NEW w \in Seq(Payloads), NEW n \in 0..Len(w)
    PROVE  Chain(w, n) \in [1..n -> Bodies]
<1>1. \A i \in 1..n : [seq |-> i - 1, payload |-> w[i]] \in Bodies
  <2> SUFFICES ASSUME NEW i \in 1..n
               PROVE  [seq |-> i - 1, payload |-> w[i]] \in Bodies
    OBVIOUS
  <2>1. Len(w) \in Nat /\ i \in 1..Len(w) OBVIOUS
  <2>2. w[i] \in Payloads /\ i - 1 \in Nat BY <2>1
  <2>3. QED BY <2>2 DEF Bodies
<1>2. QED BY <1>1 DEF Chain

\* One event more: the body is appended to the hash.
LEMMA ChainStep ==
    ASSUME NEW w \in Seq(Payloads), NEW n \in 1..Len(w)
    PROVE  Chain(w, n) = Append(Chain(w, n - 1), [seq |-> n - 1, payload |-> w[n]])
<1> DEFINE b == [seq |-> n - 1, payload |-> w[n]]
           s == Chain(w, n - 1)
           t == Append(s, b)
<1>1. Len(w) \in Nat /\ n \in Nat \ {0} /\ n - 1 \in 0..Len(w) /\ n - 1 \in Nat
  OBVIOUS
<1>2. s \in [1..(n - 1) -> Bodies] BY <1>1, ChainTyped
<1>3. b \in Bodies BY <1>1 DEF Bodies
<1>4. \A i \in 1..(n - 1) : s[i] = [seq |-> i - 1, payload |-> w[i]] BY DEF Chain
<1> HIDE DEF b, s
<1>5. s \in Seq(Bodies) /\ Len(s) = n - 1 BY <1>1, <1>2
<1>6. /\ t \in Seq(Bodies) /\ Len(t) = n
      /\ t[n] = b /\ \A i \in 1..(n - 1) : t[i] = s[i]
  BY <1>1, <1>3, <1>5
<1> HIDE DEF t
<1>7. t \in [1..n -> Bodies] BY <1>6
<1>8. ASSUME NEW i \in 1..n PROVE t[i] = [seq |-> i - 1, payload |-> w[i]]
  <2>1. CASE i \in 1..(n - 1) BY <1>4, <1>6, <2>1
  <2>2. CASE i = n BY <1>6, <2>2 DEF b
  <2>3. i \in 1..(n - 1) \/ i = n BY <1>1
  <2>4. QED BY <2>1, <2>2, <2>3
<1>9. t = [i \in 1..n |-> [seq |-> i - 1, payload |-> w[i]]] BY <1>7, <1>8
<1>10. QED BY <1>9 DEF Chain, b, s, t

\* Log v is w with payload p appended: what that does to the mode on record.
OneMore(v, w, p) ==
    /\ v \in Seq(Payloads) /\ Len(w) \in Nat /\ Len(v) = Len(w) + 1
    /\ v[Len(v)] = p /\ \A i \in 1..Len(w) : v[i] = w[i]
    /\ \A n \in 0..Len(w) :
          /\ ChangesIn(v, n) = ChangesIn(w, n)
          /\ ModeAfter(v, n) = ModeAfter(w, n)
    /\ ChangesIn(v, Len(v)) =
          ChangesIn(w, Len(w)) \cup (IF p.action = "mode_change" THEN {Len(v)} ELSE {})
    /\ ModeAfter(v, Len(v)) =
          IF p.action = "mode_change" THEN p.new_mode ELSE ModeAfter(w, Len(w))

LEMMA LogAppended ==
    ASSUME NEW w \in Seq(Payloads), NEW p \in Payloads, NEW v, v = Append(w, p)
    PROVE  OneMore(v, w, p)
<1>1. /\ v \in Seq(Payloads) /\ Len(w) \in Nat /\ Len(v) = Len(w) + 1
      /\ v[Len(v)] = p /\ \A i \in 1..Len(w) : v[i] = w[i]
  OBVIOUS
<1>2. ASSUME NEW n \in 0..Len(w)
      PROVE  /\ ChangesIn(v, n) = ChangesIn(w, n)
             /\ ModeAfter(v, n) = ModeAfter(w, n)
  <2>1. \A i \in 1..n : v[i] = w[i] BY <1>1
  <2>3. ChangesIn(v, n) = ChangesIn(w, n) BY <2>1 DEF ChangesIn
  <2>4. ModeAfter(v, n) = ModeAfter(w, n)
    <3>1. CASE ChangesIn(w, n) = {} BY <2>3, <3>1 DEF ModeAfter
    <3>2. CASE ChangesIn(w, n) # {}
      <4>1. ChangesIn(w, n) \subseteq 1..n BY DEF ChangesIn
      <4>2. Latest(ChangesIn(w, n)) \in 1..n BY <1>1, <3>2, <4>1, LatestIn
      <4>3. QED BY <2>1, <2>3, <4>2 DEF ModeAfter
    <3>3. QED BY <3>1, <3>2
  <2>5. QED BY <2>3, <2>4
<1>4. ChangesIn(v, Len(v)) =
         ChangesIn(w, Len(w)) \cup (IF p.action = "mode_change" THEN {Len(v)} ELSE {})
  BY <1>1 DEF ChangesIn
<1>5. ModeAfter(v, Len(v)) =
         IF p.action = "mode_change" THEN p.new_mode ELSE ModeAfter(w, Len(w))
  <2>1. ChangesIn(v, Len(v)) \subseteq 1..Len(v) BY DEF ChangesIn
  <2>2. CASE p.action = "mode_change"
    <3>1. Len(v) \in ChangesIn(v, Len(v)) BY <1>4, <2>2
    <3>2. /\ Latest(ChangesIn(v, Len(v))) \in 1..Len(v)
          /\ Len(v) <= Latest(ChangesIn(v, Len(v)))
      BY <1>1, <2>1, <3>1, LatestIn
    <3>3. Latest(ChangesIn(v, Len(v))) = Len(v) BY <1>1, <3>2
    <3>4. QED BY <1>1, <2>2, <3>1, <3>3 DEF ModeAfter
  <2>3. CASE p.action # "mode_change"
    <3>1. ChangesIn(v, Len(v)) = ChangesIn(w, Len(w)) BY <1>4, <2>3
    <3>2. CASE ChangesIn(w, Len(w)) = {} BY <2>3, <3>1, <3>2 DEF ModeAfter
    <3>3. CASE ChangesIn(w, Len(w)) # {}
      <4>1. ChangesIn(w, Len(w)) \subseteq 1..Len(w) BY DEF ChangesIn
      <4>2. Latest(ChangesIn(w, Len(w))) \in 1..Len(w) BY <1>1, <3>3, <4>1, LatestIn
      <4>3. QED BY <1>1, <2>3, <3>1, <4>2 DEF ModeAfter
    <3>4. QED BY <3>2, <3>3
  <2>4. QED BY <2>2, <2>3
<1>6. QED BY <1>1, <1>2, <1>4, <1>5 DEF OneMore

\* A record leaves the changes chained if it is none, or one from the mode in
\* force.
LEMMA ChainedOn ==
    ASSUME NEW v, NEW w, NEW p, OneMore(v, w, p), ModesChained(w),
           p.action = "mode_change" => p.old_mode = ModeAfter(w, Len(w))
    PROVE  ModesChained(v)
<1> DEFINE n == Len(w)
<1>1. /\ Len(v) = n + 1 /\ n \in Nat /\ v[n + 1] = p
      /\ \A i \in 1..n : v[i] = w[i]
      /\ \A i \in 0..n : ModeAfter(v, i) = ModeAfter(w, i)
      /\ ChangesIn(v, n + 1) =
            ChangesIn(w, n) \cup (IF p.action = "mode_change" THEN {n + 1} ELSE {})
  BY DEF OneMore
<1>2. ASSUME NEW i \in ChangesIn(w, n)
      PROVE  v[i].old_mode = ModeAfter(v, i - 1)
  <2>1. i \in 1..n BY DEF ChangesIn
  <2>2. w[i].old_mode = ModeAfter(w, i - 1) BY DEF ModesChained
  <2>3. i - 1 \in 0..n BY <1>1, <2>1
  <2>4. QED BY <1>1, <2>1, <2>2, <2>3
<1>3. p.action = "mode_change" => v[n + 1].old_mode = ModeAfter(v, (n + 1) - 1)
  <2>1. (n + 1) - 1 = n /\ n \in 0..n BY <1>1
  <2>2. QED BY <1>1, <2>1
<1>4. QED BY <1>1, <1>2, <1>3 DEF ModesChained

-----------------------------------------------------------------------------
(***************************************************************************)
(* The steps.                                                              *)
(***************************************************************************)

\* The hash of an event, and of the head, commits to a sequence of bodies.
LEMMA HashTyped ==
    ASSUME OnboardingTypes
    PROVE  /\ Len(events) \in Nat /\ DOMAIN events = 1..Len(events)
           /\ \A i \in DOMAIN events : events[i] \in Events
                 /\ event_hash(events[i]) \in Seq(Bodies)
           /\ head_hash \in Seq(Bodies)
           /\ Stored \in Seq(Payloads) /\ Len(Stored) = Len(events)
           /\ \A i \in DOMAIN events : Stored[i] = events[i].payload
<1>1. Len(events) \in Nat /\ DOMAIN events = 1..Len(events)
  BY DEF OnboardingTypes
<1>2. ASSUME NEW i \in DOMAIN events
      PROVE  events[i] \in Events /\ event_hash(events[i]) \in Seq(Bodies)
  <2>1. events[i] \in Events BY <1>1 DEF OnboardingTypes
  <2>2. /\ events[i].prev_hash \in Seq(Bodies)
        /\ events[i].seq \in Nat /\ events[i].payload \in Payloads
    BY <2>1 DEF Events
  <2>3. [seq |-> events[i].seq, payload |-> events[i].payload] \in Bodies
    BY <2>2 DEF Bodies
  <2>4. QED BY <2>1, <2>2, <2>3 DEF event_hash
<1>3. head_hash \in Seq(Bodies)
  <2>1. CASE events = <<>> BY <2>1 DEF head_hash, Genesis
  <2>2. CASE events # <<>>
    <3>1. Len(events) \in DOMAIN events BY <1>1, <2>2 DEF OnboardingTypes
    <3>2. QED BY <1>2, <2>2, <3>1 DEF head_hash
  <2>3. QED BY <2>1, <2>2
<1>4. /\ Stored \in Seq(Payloads) /\ Len(Stored) = Len(events)
      /\ \A i \in DOMAIN events : Stored[i] = events[i].payload
  <2>1. \A i \in 1..Len(events) : events[i].payload \in Payloads
    BY <1>1, <1>2 DEF Events
  <2>2. Stored \in [1..Len(events) -> Payloads] BY <1>1, <2>1 DEF Stored
  <2>3. QED BY <1>1, <2>2 DEF Stored
<1>5. QED BY <1>1, <1>2, <1>3, <1>4

\* The head of a chain that verifies commits to the whole log as it is stored.
LEMMA VerifiedHead ==
    ASSUME OnboardingTypes, verify
    PROVE  head_hash = Chain(Stored, Len(events))
<1> DEFINE Fits(i) == event_hash(events[i]) = Chain(Stored, i)
           Bad == {i \in DOMAIN events : ~ Fits(i)}
<1>1. /\ Len(events) \in Nat /\ DOMAIN events = 1..Len(events)
      /\ Stored \in Seq(Payloads) /\ Len(Stored) = Len(events)
      /\ \A i \in DOMAIN events : Stored[i] = events[i].payload
  BY HashTyped
<1>2. ASSUME NEW i \in DOMAIN events, i # 1 => Fits(i - 1)
      PROVE  Fits(i)
  <2>1. /\ events[i].seq = i - 1
        /\ events[i].prev_hash = IF i = 1 THEN Genesis ELSE event_hash(events[i - 1])
    BY DEF verify
  <2>2. events[i].prev_hash = Chain(Stored, i - 1)
    <3>1. CASE i = 1
      <4>1. Chain(Stored, 0) = <<>> BY DEF Chain
      <4>2. QED BY <2>1, <3>1, <4>1 DEF Genesis
    <3>2. CASE i # 1 BY <1>2, <2>1, <3>2
    <3>3. QED BY <3>1, <3>2
  <2>3. i \in 1..Len(Stored) BY <1>1
  <2>4. Chain(Stored, i) =
           Append(Chain(Stored, i - 1), [seq |-> i - 1, payload |-> Stored[i]])
    BY <1>1, <2>3, ChainStep
  <2>5. QED BY <1>1, <2>1, <2>2, <2>4 DEF event_hash
<1>3. Bad = {}
  <2> SUFFICES ASSUME Bad # {} PROVE FALSE OBVIOUS
  <2>1. Bad \subseteq Nat BY <1>1
  <2>2. PICK k \in Bad : \A j \in Bad : k <= j BY <2>1, LeastNatural
  <2>3. k \in DOMAIN events /\ ~ Fits(k) BY <2>2
  <2>4. k # 1 => Fits(k - 1)
    <3> SUFFICES ASSUME k # 1 PROVE Fits(k - 1) OBVIOUS
    <3>1. k - 1 \in DOMAIN events /\ ~ (k <= k - 1) BY <1>1, <2>3
    <3>2. k - 1 \notin Bad
      <4> HIDE DEF Bad
      <4>1. QED BY <2>2, <3>1
    <3>3. QED BY <3>1, <3>2
  <2> HIDE DEF Fits
  <2>5. QED BY <1>2, <2>3, <2>4
<1>4. CASE events = <<>>
  <2>1. Len(events) = 0 BY <1>4
  <2>2. Chain(Stored, 0) = <<>> BY DEF Chain
  <2>3. QED BY <1>4, <2>1, <2>2 DEF head_hash, Genesis
<1>5. CASE events # <<>>
  <2>1. Len(events) \in DOMAIN events BY <1>1, <1>5 DEF OnboardingTypes
  <2>2. Fits(Len(events)) BY <1>3, <2>1
  <2>3. QED BY <1>5, <2>2 DEF head_hash
<1>6. QED BY <1>4, <1>5

\* The last body a hash commits to.
LEMMA LastBody ==
    ASSUME NEW h \in Seq(Bodies), NEW b \in Bodies, NEW g, g = Append(h, b)
    PROVE  g \in Seq(Bodies) /\ Len(g) > 0 /\ g[Len(g)] = b
OBVIOUS

\* Functions that agree on their common domain are equal.
LEMMA SameFunction ==
    ASSUME NEW S, NEW T, NEW f \in [S -> T], NEW g \in [S -> T],
           \A x \in S : f[x] = g[x]
    PROVE  f = g
OBVIOUS

\* append, under the lock of the log.
LEMMA RecordKeeps ==
    ASSUME OnboardingInv, NEW p \in Payloads, Record(p), UNCHANGED faults
    PROVE  /\ events' \in Seq(Events) /\ Linked' /\ (verify => verify')
           /\ OneMore(Stored', Stored, p)
<1> DEFINE e == [seq |-> Len(events), payload |-> p, prev_hash |-> head_hash]
           n == Len(events)
<1>1. OnboardingTypes /\ Linked BY DEF OnboardingInv
<1>2. /\ events' = Append(events, e)
      /\ sealed' = [i \in DOMAIN events |->
                       IF i = Len(events) THEN events[i].payload ELSE sealed[i]]
  BY DEF Record, append
<1>3. /\ n \in Nat /\ DOMAIN events = 1..n
      /\ \A i \in DOMAIN events :
            events[i] \in Events /\ event_hash(events[i]) \in Seq(Bodies)
      /\ head_hash \in Seq(Bodies)
      /\ Stored \in Seq(Payloads) /\ Len(Stored) = n
      /\ \A i \in DOMAIN events : Stored[i] = events[i].payload
  BY <1>1, HashTyped
<1>4. e \in Events BY <1>3 DEF Events
<1>5. e.seq = n /\ e.payload = p /\ e.prev_hash = head_hash OBVIOUS
<1>6. events \in Seq(Events) BY <1>1 DEF OnboardingTypes
<1> HIDE DEF e
<1>7. /\ events' \in Seq(Events) /\ Len(events') = n + 1
      /\ events'[n + 1] = e /\ \A i \in 1..n : events'[i] = events[i]
  BY <1>2, <1>3, <1>4, <1>6
<1>8. DOMAIN events' = 1..(n + 1) BY <1>3, <1>7
<1>9. \A i \in DOMAIN events' : i \in 1..n \/ i = n + 1 BY <1>3, <1>8
<1>10. n > 0 => head_hash = event_hash(events[n]) /\ n \in DOMAIN events
  BY <1>3, <1>6 DEF head_hash
<1>11. n = 0 => head_hash = Genesis
  <2>1. n = 0 => events = <<>> BY <1>6
  <2>2. QED BY <2>1 DEF head_hash
<1> HIDE DEF n
<1>12. Linked'
  <2> SUFFICES ASSUME NEW i \in DOMAIN events'
               PROVE  /\ events'[i].seq >= i - 1
                      /\ events'[i].seq = i - 1 /\ i > 1 =>
                            /\ Len(events'[i].prev_hash) > 0
                            /\ events'[i].prev_hash[Len(events'[i].prev_hash)].payload
                                  = sealed'[i - 1]
    BY DEF Linked
  <2>1. CASE i \in 1..n
    <3>1. events'[i] = events[i] BY <1>7, <2>1
    <3>2. i > 1 => i - 1 \in DOMAIN events /\ i - 1 # n BY <1>3, <2>1
    <3>3. i > 1 => sealed'[i - 1] = sealed[i - 1] BY <1>2, <3>2 DEF n
    <3>4. QED BY <1>1, <1>3, <2>1, <3>1, <3>3 DEF Linked
  <2>2. CASE i = n + 1
    <3>1. events'[i].seq >= i - 1 BY <1>3, <1>5, <1>7, <2>2
    <3>2. ASSUME i > 1
          PROVE  /\ Len(head_hash) > 0
                 /\ head_hash[Len(head_hash)].payload = sealed'[i - 1]
      <4>1. n > 0 /\ i - 1 = n BY <1>3, <2>2, <3>2
      <4>2. PICK x : x = events[n] OBVIOUS
      <4>3. x \in Events BY <1>3, <1>10, <4>1, <4>2
      <4>4. PICK h : h = x.prev_hash OBVIOUS
      <4>5. PICK b : b = [seq |-> x.seq, payload |-> x.payload] OBVIOUS
      <4>6. h \in Seq(Bodies) /\ b \in Bodies /\ b.payload = x.payload
        BY <4>3, <4>4, <4>5 DEF Events, Bodies
      <4>7. PICK g : g = head_hash OBVIOUS
      <4>8. g = Append(h, b) BY <1>10, <4>1, <4>2, <4>4, <4>5, <4>7 DEF event_hash
      <4>9. Len(g) > 0 /\ g[Len(g)] = b BY <4>6, <4>8, LastBody
      <4>10. sealed'[n] = x.payload BY <1>2, <1>10, <4>1, <4>2 DEF n
      <4>11. QED BY <4>1, <4>6, <4>7, <4>9, <4>10
    <3>3. QED BY <1>5, <1>7, <2>2, <3>1, <3>2
  <2>3. QED BY <1>9, <2>1, <2>2
<1>13. verify => verify'
  <2> SUFFICES ASSUME verify, NEW i \in DOMAIN events'
               PROVE  /\ events'[i].seq = i - 1
                      /\ events'[i].prev_hash =
                            IF i = 1 THEN Genesis ELSE event_hash(events'[i - 1])
    BY DEF verify, event_hash
  <2>1. CASE i \in 1..n
    <3>1. i # 1 => i - 1 \in 1..n BY <1>3, <2>1
    <3>2. QED BY <1>3, <1>7, <2>1, <3>1 DEF verify
  <2>2. CASE i = n + 1
    <3>1. events'[i].seq = i - 1 BY <1>3, <1>5, <1>7, <2>2
    <3>2. CASE n = 0 BY <1>5, <1>7, <1>11, <2>2, <3>2
    <3>3. CASE n > 0
      <4>1. i # 1 /\ i - 1 = n /\ n \in 1..n BY <1>3, <2>2, <3>3
      <4>2. QED BY <1>5, <1>7, <1>10, <2>2, <3>1, <3>3, <4>1
    <3>4. QED BY <1>3, <3>1, <3>2, <3>3
  <2>3. QED BY <1>9, <2>1, <2>2
<1>14. OneMore(Stored', Stored, p)
  <2>1. PICK w : w = Stored OBVIOUS
  <2>2. PICK v : v = Stored' OBVIOUS
  <2>3. \A i \in 1..(n + 1) : events'[i] \in Events BY <1>7, <1>8
  <2>4. v = [i \in 1..(n + 1) |-> events'[i].payload] BY <1>8, <2>2 DEF Stored
  <2>5. v \in [1..(n + 1) -> Payloads]
    <3>1. \A i \in 1..(n + 1) : events'[i].payload \in Payloads BY <2>3 DEF Events
    <3>2. QED BY <2>4, <3>1
  <2>6. v[n + 1] = p /\ \A i \in 1..n : v[i] = w[i]
    BY <1>3, <1>5, <1>7, <2>1, <2>4
  <2>7. PICK u : u = Append(w, p) OBVIOUS
  <2>8. /\ w \in Seq(Payloads) /\ Len(w) = n BY <1>3, <2>1
  <2>9. /\ u \in Seq(Payloads) /\ Len(u) = n + 1 /\ u[n + 1] = p
        /\ \A i \in 1..n : u[i] = w[i]
    BY <1>3, <2>7, <2>8
  <2>10. u \in [1..(n + 1) -> Payloads] BY <2>9
  <2>11. \A i \in 1..(n + 1) : u[i] = v[i]
    <3>1. \A i \in 1..(n + 1) : i \in 1..n \/ i = n + 1 BY <1>3
    <3>2. QED BY <2>6, <2>9, <3>1
  <2>12. u = v
    <3>1. PICK D : D = 1..(n + 1) OBVIOUS
    <3>2. u \in [D -> Payloads] /\ v \in [D -> Payloads] /\ \A i \in D : u[i] = v[i]
      BY <2>5, <2>10, <2>11, <3>1, Zenon
    <3>3. \A f, g \in [D -> Payloads] : (\A i \in D : f[i] = g[i]) => f = g
      BY SameFunction
    <3>4. QED BY <3>2, <3>3, Zenon
  <2>13. OneMore(v, w, p) BY <2>7, <2>8, <2>12, LogAppended
  <2>14. QED BY <2>1, <2>2, <2>13
<1>15. QED BY <1>7, <1>12, <1>13, <1>14

\* A step that leaves the log as it is.
LEMMA LogSame ==
    ASSUME OnboardingInv, UNCHANGED <<events, sealed, onRecord, faults>>
    PROVE  CleanLog' /\ Linked' /\ (verify => verify')
<1>1. CleanLog'
  <2>1. UNCHANGED Stored BY DEF Stored
  <2>2. QED BY <2>1 DEF OnboardingInv, CleanLog
<1>2. Linked' BY DEF OnboardingInv, Linked
<1>3. verify => verify' BY DEF verify, event_hash
<1>4. QED BY <1>1, <1>2, <1>3

\* A thread takes up or puts down a job: what the others rely on.
LEMMA JobChanges ==
    ASSUME OnboardingInv, NEW t \in Threads, NEW j \in Jobs \cup {NoJob},
           job' = [job EXCEPT ![t] = j], UNCHANGED faults, verify => verify',
           j \in ReportJobs => Faithful(j),
           j \in CheckpointJobs => j.faults = faults /\ verify'
    PROVE  /\ job' \in [Threads -> Jobs \cup {NoJob}] /\ Relied'
           /\ job'[t] = j /\ \A u \in Threads \ {t} : job'[u] = job[u]
<1>1. OnboardingTypes /\ Relied BY DEF OnboardingInv
<1>2. /\ job' \in [Threads -> Jobs \cup {NoJob}]
      /\ job'[t] = j /\ \A u \in Threads \ {t} : job'[u] = job[u]
  BY <1>1 DEF OnboardingTypes
<1>3. faults \in Nat BY <1>1 DEF OnboardingTypes
<1>4. ASSUME NEW u \in Threads
      PROVE  /\ Doing(u, "verified")' => job'[u].faults <= faults'
             /\ (Doing(u, "verified")' /\ job'[u].faults = faults') => verify'
             /\ Doing(u, "applied")' => Faithful(job'[u])
  <2>1. CASE u # t
    <3>1. job'[u] = job[u] BY <1>2, <2>1
    <3>2. /\ Doing(u, "verified") => job[u].faults <= faults
          /\ (Doing(u, "verified") /\ job[u].faults = faults) => verify
          /\ Doing(u, "applied") => Faithful(job[u])
      BY <1>1 DEF Relied
    <3>3. /\ Doing(u, "verified")' <=> Doing(u, "verified")
          /\ Doing(u, "applied")' <=> Doing(u, "applied")
      BY <3>1 DEF Doing
    <3>4. QED BY <3>1, <3>2, <3>3
  <2>2. CASE u = t
    <3>1. job'[u] = j BY <1>2, <2>2
    <3>2. j # NoJob /\ j.op = "verified" => j \in CheckpointJobs
      BY DEF Jobs, ModeJobs, ReportJobs
    <3>3. j # NoJob /\ j.op = "applied" => j \in ReportJobs
      BY DEF Jobs, ModeJobs, CheckpointJobs
    <3>4. QED BY <1>3, <3>1, <3>2, <3>3 DEF Doing
  <2>3. QED BY <2>1, <2>2
<1>5. Relied' BY <1>4 DEF Relied, Faithful, Doing
<1>6. QED BY <1>2, <1>5

\* The job that is taken up or put down has nothing to do with the mode.
LEMMA ModeHeldStays ==
    ASSUME OnboardingInv, NEW t \in Threads, ~ Doing(t, "mode"), ~ Doing(t, "mode")',
           \A u \in Threads \ {t} : job'[u] = job[u],
           UNCHANGED <<mode, modeLock, onRecord>>
    PROVE  ModeHeld'
<1>1. OnboardingTypes /\ ModeHeld BY DEF OnboardingInv
<1>2. modeLock # t BY <1>1 DEF ModeHeld
<1>3. \A u \in Threads : Doing(u, "mode")' <=> Doing(u, "mode")
  <2> SUFFICES ASSUME NEW u \in Threads PROVE Doing(u, "mode")' <=> Doing(u, "mode")
    OBVIOUS
  <2>1. CASE u = t BY <2>1
  <2>2. CASE u # t BY <2>2 DEF Doing
  <2>3. QED BY <2>1, <2>2
<1>4. modeLock # NoThread => job'[modeLock] = job[modeLock]
  BY <1>1, <1>2 DEF OnboardingTypes
<1>5. QED BY <1>1, <1>3, <1>4 DEF ModeHeld

\* set_mode takes the lock: the mode leaves the record by the change the job
\* remembers.
LEMMA SetModeKeeps ==
    ASSUME OnboardingInv, NEW t \in Threads, NEW m \in Modes, set_mode(t, m)
    PROVE  OnboardingInv'
<1> DEFINE j == [op |-> "mode", old |-> mode, new |-> m]
<1>1. OnboardingTypes /\ ModeHeld BY DEF OnboardingInv
<1>2. /\ modeLock = NoThread /\ job[t] = NoJob /\ job' = [job EXCEPT ![t] = j]
      /\ modeLock' = t /\ mode' = m
      /\ UNCHANGED <<events, checkpoints, sealed, observations, active, onRecord, faults>>
  BY DEF set_mode, Begin, ModeLockFree
<1>3. j \in ModeJobs /\ j.op = "mode" /\ j.old = mode /\ j.new = m
  BY <1>1 DEF OnboardingTypes, AllModes, ModeJobs
<1> HIDE DEF j
<1>4. j \in Jobs /\ j # NoJob /\ j \notin ReportJobs /\ j \notin CheckpointJobs
  BY <1>3, OnboardingAssumption DEF Jobs, ReportJobs, CheckpointJobs
<1>5. CleanLog' /\ Linked' /\ (verify => verify') BY <1>2, LogSame
<1>6. /\ job' \in [Threads -> Jobs \cup {NoJob}] /\ Relied'
      /\ job'[t] = j /\ \A u \in Threads \ {t} : job'[u] = job[u]
  BY <1>2, <1>4, <1>5, JobChanges
<1>7. OnboardingTypes' BY <1>1, <1>2, <1>6 DEF OnboardingTypes, AllModes
<1>8. ModeHeld'
  <2>1. ASSUME NEW u \in Threads PROVE Doing(u, "mode")' <=> u = t
    <3>1. CASE u = t BY <1>3, <1>4, <1>6, <3>1 DEF Doing
    <3>2. CASE u # t
      <4>1. ~ Doing(u, "mode") BY <1>1, <1>2, OnboardingAssumption DEF ModeHeld
      <4>2. QED BY <1>6, <3>2, <4>1 DEF Doing
    <3>3. QED BY <3>1, <3>2
  <2>2. modeLock' # NoThread BY <1>2, OnboardingAssumption
  <2>3. QED BY <1>1, <1>2, <1>3, <1>6, <2>1, <2>2 DEF ModeHeld
<1>9. Signed' /\ Observed' /\ EnforcedConforms'
  BY <1>2 DEF OnboardingInv, Signed, Observed, EnforcedConforms
<1>10. QED BY <1>5, <1>6, <1>7, <1>8, <1>9 DEF OnboardingInv

\* The change goes on record, from the mode on record before, and the lock is
\* released.
LEMMA AuditModeKeeps ==
    ASSUME OnboardingInv, NEW t \in Threads, AuditMode(t)
    PROVE  OnboardingInv'
<1> DEFINE p == [action |-> "mode_change", old_mode |-> job[t].old,
                 new_mode |-> job[t].new]
<1>1. OnboardingTypes /\ ModeHeld /\ CleanLog BY DEF OnboardingInv
<1>2. /\ Doing(t, "mode") /\ Record(p) /\ modeLock' = NoThread
      /\ job' = [job EXCEPT ![t] = NoJob]
      /\ UNCHANGED <<checkpoints, mode, observations, active, faults>>
  BY DEF AuditMode, End
<1>3. modeLock = t /\ modeLock # NoThread
  BY <1>1, <1>2, OnboardingAssumption DEF ModeHeld
<1>4. job[t] \in ModeJobs
  BY <1>1, <1>2 DEF OnboardingTypes, Doing, Jobs, CheckpointJobs, ReportJobs
<1>5. /\ p \in Payloads /\ p.action = "mode_change" /\ p.new_mode = mode
      /\ p.old_mode = onRecord
  <2>1. job[t].old \in AllModes /\ job[t].new \in Modes
    BY <1>4 DEF ModeJobs, AllModes
  <2>2. p \in ModePayloads BY <2>1 DEF ModePayloads
  <2>3. QED BY <1>1, <1>3, <2>2 DEF Payloads, ModeHeld
<1>6. PICK q : q = p OBVIOUS
<1>7. onRecord' = mode
  <2>1. onRecord' = IF p.action = "mode_change" THEN p.new_mode ELSE onRecord
    BY <1>2 DEF Record
  <2> HIDE DEF p
  <2>2. QED BY <1>5, <2>1
<1> HIDE DEF p
<1>8. /\ events' \in Seq(Events) /\ Linked' /\ (verify => verify')
      /\ OneMore(Stored', Stored, q)
  BY <1>2, <1>5, <1>6, RecordKeeps
<1>9. NoJob \notin ReportJobs /\ NoJob \notin CheckpointJobs
  BY OnboardingAssumption
<1>10. /\ job' \in [Threads -> Jobs \cup {NoJob}] /\ Relied'
       /\ job'[t] = NoJob /\ \A u \in Threads \ {t} : job'[u] = job[u]
  BY <1>2, <1>8, <1>9, JobChanges
<1>11. OnboardingTypes' BY <1>1, <1>2, <1>7, <1>8, <1>10 DEF OnboardingTypes
<1>12. CleanLog'
  <2> SUFFICES ASSUME faults = 0
               PROVE  ModesChained(Stored') /\ onRecord' = ModeAfter(Stored', Len(Stored'))
    BY <1>2 DEF CleanLog
  <2>1. PICK w : w = Stored OBVIOUS
  <2>2. PICK v : v = Stored' OBVIOUS
  <2>3. ModesChained(w) /\ q.old_mode = ModeAfter(w, Len(w)) /\ OneMore(v, w, q)
    BY <1>1, <1>5, <1>6, <1>8, <2>1, <2>2 DEF CleanLog
  <2>4. ModesChained(v) BY <2>3, ChainedOn
  <2>5. ModeAfter(v, Len(v)) = mode BY <1>5, <1>6, <2>3 DEF OneMore
  <2>6. QED BY <1>7, <2>2, <2>4, <2>5
<1>13. ModeHeld'
  <2>1. ASSUME NEW u \in Threads PROVE ~ Doing(u, "mode")' /\ modeLock' # u
    <3>1. CASE u = t BY <1>2, <1>10, <3>1, OnboardingAssumption DEF Doing
    <3>2. CASE u # t
      <4>1. ~ Doing(u, "mode") BY <1>1, <1>3, <3>2 DEF ModeHeld
      <4>2. QED BY <1>2, <1>10, <3>2, <4>1, OnboardingAssumption DEF Doing
    <3>3. QED BY <3>1, <3>2
  <2>2. QED BY <1>2, <1>7, <2>1 DEF ModeHeld
<1>14. Signed' /\ Observed' /\ EnforcedConforms'
  BY <1>2 DEF OnboardingInv, Signed, Observed, EnforcedConforms
<1>15. QED BY <1>8, <1>10, <1>11, <1>12, <1>13, <1>14 DEF OnboardingInv

\* apply reads the mode while the lock is free: the mode on record.
LEMMA ApplyKeeps ==
    ASSUME OnboardingInv, NEW t \in Threads, NEW b \in BOOLEAN, apply(t, b)
    PROVE  OnboardingInv'
<1> DEFINE j == [op |-> "applied", outcome |-> apply_mode(mode, b), base |-> b,
                 recorded |-> onRecord]
<1>1. OnboardingTypes /\ ModeHeld BY DEF OnboardingInv
<1>2. /\ modeLock = NoThread /\ job[t] = NoJob /\ job' = [job EXCEPT ![t] = j]
      /\ UNCHANGED <<events, checkpoints, sealed, mode, modeLock, observations, active,
                     onRecord, faults>>
  BY DEF apply, Begin, ModeLockFree
<1>3. mode = onRecord BY <1>1, <1>2 DEF ModeHeld
<1>4. apply_mode(mode, b) \in Outcomes BY DEF apply_mode, Outcomes
<1>5. j \in ReportJobs BY <1>1, <1>4 DEF ReportJobs, OnboardingTypes, AllModes
<1>6. apply_mode(mode, b) \in LetThrough <=> (~ b /\ mode \in {"OBSERVE", "WARN"})
  BY DEF apply_mode, LetThrough
<1>7. Faithful(j) BY <1>3, <1>6 DEF Faithful
<1>8. j.op = "applied" OBVIOUS
<1> HIDE DEF j
<1>9. j \in Jobs /\ j \notin CheckpointJobs
  BY <1>5, <1>8 DEF Jobs, CheckpointJobs
<1>10. CleanLog' /\ Linked' /\ (verify => verify') BY <1>2, LogSame
<1>11. /\ job' \in [Threads -> Jobs \cup {NoJob}] /\ Relied'
       /\ job'[t] = j /\ \A u \in Threads \ {t} : job'[u] = job[u]
  BY <1>2, <1>7, <1>9, <1>10, JobChanges
<1>12. OnboardingTypes' BY <1>1, <1>2, <1>11 DEF OnboardingTypes
<1>13. ModeHeld'
  <2>1. ~ Doing(t, "mode") /\ ~ Doing(t, "mode")' BY <1>2, <1>8, <1>11 DEF Doing
  <2>2. QED BY <1>2, <1>11, <2>1, ModeHeldStays
<1>14. Signed' /\ Observed' /\ EnforcedConforms'
  BY <1>2 DEF OnboardingInv, Signed, Observed, EnforcedConforms
<1>15. QED BY <1>10, <1>11, <1>12, <1>13, <1>14 DEF OnboardingInv

\* record hands on what was decided.
LEMMA ReportKeeps ==
    ASSUME OnboardingInv, NEW t \in Threads, record(t)
    PROVE  OnboardingInv'
<1> DEFINE o == [outcome |-> job[t].outcome, base |-> job[t].base,
                 recorded |-> job[t].recorded]
<1>1. OnboardingTypes /\ ModeHeld /\ Relied /\ Observed BY DEF OnboardingInv
<1>2. /\ Doing(t, "applied") /\ job' = [job EXCEPT ![t] = NoJob]
      /\ observations' = Append(observations, o)
      /\ UNCHANGED <<events, checkpoints, sealed, mode, modeLock, active, onRecord,
                     faults>>
  BY DEF record, End
<1>3. job[t] \in ReportJobs
  BY <1>1, <1>2 DEF OnboardingTypes, Doing, Jobs, CheckpointJobs, ModeJobs
<1>4. o \in Observations BY <1>3 DEF Observations, ReportJobs, AllModes
<1>5. Faithful(o)
  <2>1. Faithful(job[t]) BY <1>1, <1>2 DEF Relied
  <2>2. QED BY <2>1 DEF Faithful
<1> HIDE DEF o
<1>6. /\ observations' \in Seq(Observations)
      /\ DOMAIN observations' = DOMAIN observations \cup {Len(observations) + 1}
      /\ observations'[Len(observations) + 1] = o
      /\ \A i \in DOMAIN observations : observations'[i] = observations[i]
  <2>1. observations \in Seq(Observations) BY <1>1 DEF OnboardingTypes
  <2>2. Len(observations) \in Nat /\ DOMAIN observations = 1..Len(observations)
    BY <2>1
  <2>3. /\ observations' \in Seq(Observations)
        /\ Len(observations') = Len(observations) + 1
        /\ observations'[Len(observations) + 1] = o
        /\ \A i \in 1..Len(observations) : observations'[i] = observations[i]
    BY <1>2, <1>4, <2>1
  <2>4. DOMAIN observations' = 1..(Len(observations) + 1) BY <2>3
  <2>5. QED BY <2>2, <2>3, <2>4
<1>7. Observed'
  <2> SUFFICES ASSUME NEW i \in DOMAIN observations' PROVE Faithful(observations'[i])
    BY DEF Observed, Faithful
  <2>1. CASE i \in DOMAIN observations BY <1>1, <1>6, <2>1 DEF Observed
  <2>2. CASE i = Len(observations) + 1 BY <1>5, <1>6, <2>2
  <2>3. QED BY <1>6, <2>1, <2>2
<1>8. CleanLog' /\ Linked' /\ (verify => verify') BY <1>2, LogSame
<1>9. NoJob \notin ReportJobs /\ NoJob \notin CheckpointJobs
  BY OnboardingAssumption
<1>10. /\ job' \in [Threads -> Jobs \cup {NoJob}] /\ Relied'
       /\ job'[t] = NoJob /\ \A u \in Threads \ {t} : job'[u] = job[u]
  BY <1>2, <1>8, <1>9, JobChanges
<1>11. OnboardingTypes' BY <1>1, <1>2, <1>6, <1>10 DEF OnboardingTypes
<1>12. ModeHeld'
  <2>1. ~ Doing(t, "mode") /\ ~ Doing(t, "mode")' BY <1>2, <1>10 DEF Doing
  <2>2. QED BY <1>2, <1>10, <2>1, ModeHeldStays
<1>13. Signed' /\ EnforcedConforms'
  BY <1>2 DEF OnboardingInv, Signed, EnforcedConforms
<1>14. QED BY <1>7, <1>8, <1>10, <1>11, <1>12, <1>13 DEF OnboardingInv

\* What a token has to stand up to in a build that passes: no test refuses
\* everything, for one token went through; the tests the other checks are after
\* are made, or would have let something through.
LEMMA PassedTests ==
    ASSUME NEW b, ConformancePassed(b)
    PROVE  /\ \A test \in Tests : b[test] # "refuses"
           /\ b["presented"] = "made" /\ b["effect"] = "made" /\ b["epoch"] = "made"
           /\ \/ b["lookup"] = "made"
              \/ \E test \in {"hash", "constraints", "exact"} : b[test] = "made"
<1>1. \A test \in Tests : b[test] # "refuses"
  BY DEF ConformancePassed, check_happy_path, mediate
<1>2. ASSUME NEW store, NEW action, NEW epoch, ~ mediate(b, store, action, epoch)
      PROVE  \/ b["presented"] = "made" /\ get(b, store, action) = {}
             \/ \E t \in get(b, store, action) : \E test \in Tests :
                   b[test] = "made" /\ ~ Holds(test, t, action, epoch)
  BY <1>1, <1>2 DEF mediate
<1>3. b["presented"] = "made"
  <2>1. ~ mediate(b, {}, "bypass", 0) BY DEF ConformancePassed, check_bypass_blocked
  <2>2. get(b, {}, "bypass") = {} BY DEF get
  <2>3. QED BY <1>2, <2>1, <2>2
<1>4. b["effect"] = "made"
  <2> DEFINE x == Token("deny", "DENY", 0)
  <2>1. ~ mediate(b, {x}, "deny", 0) BY DEF ConformancePassed, check_mediated_deny
  <2>2. x.action = "deny" /\ x.decision = "DENY" /\ x.epoch = 0 /\ x.defects = {}
    BY DEF Token
  <2> HIDE DEF x
  <2>3. get(b, {x}, "deny") = {x} BY <2>2 DEF get
  <2>4. PICK test \in Tests : b[test] = "made" /\ ~ Holds(test, x, "deny", 0)
    BY <1>2, <2>1, <2>3
  <2>5. QED BY <2>2, <2>4 DEF Holds
<1>5. b["epoch"] = "made"
  <2> DEFINE x == Token("kill", "ALLOW", 0)
  <2>1. ~ mediate(b, {x}, "kill", 1) BY DEF ConformancePassed, check_kill_switch
  <2>2. x.action = "kill" /\ x.decision = "ALLOW" /\ x.epoch = 0 /\ x.defects = {}
    BY DEF Token
  <2> HIDE DEF x
  <2>3. get(b, {x}, "kill") = {x} BY <2>2 DEF get
  <2>4. PICK test \in Tests : b[test] = "made" /\ ~ Holds(test, x, "kill", 1)
    BY <1>2, <2>1, <2>3
  <2>5. QED BY <2>2, <2>4 DEF Holds
<1>6. b["lookup"] # "made" =>
         \E test \in {"hash", "constraints", "exact"} : b[test] = "made"
  <2> SUFFICES ASSUME b["lookup"] # "made"
               PROVE  \E test \in {"hash", "constraints", "exact"} : b[test] = "made"
    OBVIOUS
  <2> DEFINE x == Token("a", "ALLOW", 0)
  <2>1. ~ mediate(b, {x}, "b", 0) BY DEF ConformancePassed, check_exact_binding
  <2>2. x.action = "a" /\ x.decision = "ALLOW" /\ x.epoch = 0 /\ x.defects = {}
    BY DEF Token
  <2> HIDE DEF x
  <2>3. get(b, {x}, "b") = {x} BY DEF get
  <2>4. PICK test \in Tests : b[test] = "made" /\ ~ Holds(test, x, "b", 0)
    BY <1>2, <2>1, <2>3
  <2>5. QED BY <2>2, <2>4 DEF Holds
<1>7. QED BY <1>1, <1>3, <1>4, <1>5, <1>6

\* A build that passes enforces, for whatever tokens, actions and epochs.
LEMMA PassedEnforces ==
    ASSUME NEW b, ConformancePassed(b), NEW tokens, NEW actions, NEW epochs
    PROVE  Enforces(b, tokens, actions, epochs)
<1>1. /\ \A test \in Tests : b[test] # "refuses"
      /\ b["presented"] = "made" /\ b["effect"] = "made" /\ b["epoch"] = "made"
      /\ \/ b["lookup"] = "made"
         \/ \E test \in {"hash", "constraints", "exact"} : b[test] = "made"
  BY PassedTests
<1>2. ASSUME NEW action, NEW epoch, NEW store, mediate(b, store, action, epoch)
      PROVE  \E t \in store : t.action = action /\ t.decision = "ALLOW" /\ t.epoch = epoch
  <2>1. PICK t : t \in get(b, store, action)
    BY <1>1, <1>2 DEF mediate
  <2>2. t \in store /\ (b["lookup"] = "made" => t.action = action) BY <2>1 DEF get
  <2>3. \A test \in Tests : b[test] = "made" => Holds(test, t, action, epoch)
    BY <1>2, <2>1 DEF mediate
  <2>4. Holds("effect", t, action, epoch) /\ Holds("epoch", t, action, epoch)
    BY <1>1, <2>3 DEF Tests
  <2>5. t.decision = "ALLOW" /\ t.epoch = epoch BY <2>4 DEF Holds
  <2>6. t.action = action
    <3>1. ASSUME NEW test \in {"hash", "constraints", "exact"}, b[test] = "made"
          PROVE  t.action = action
      <4>1. Holds(test, t, action, epoch) BY <2>3, <3>1 DEF Tests
      <4>2. QED BY <4>1 DEF Holds
    <3>2. QED BY <1>1, <2>2, <3>1
  <2>7. QED BY <2>2, <2>5, <2>6
<1>3. ASSUME NEW action, NEW epoch
      PROVE  mediate(b, {Token(action, "ALLOW", epoch)}, action, epoch)
  <2> DEFINE x == Token(action, "ALLOW", epoch)
  <2>1. x.action = action /\ x.decision = "ALLOW" /\ x.epoch = epoch /\ x.defects = {}
    BY DEF Token
  <2> HIDE DEF x
  <2>2. get(b, {x}, action) = {x} BY <2>1 DEF get
  <2>3. \A test \in Tests : Holds(test, x, action, epoch) BY <2>1 DEF Holds
  <2>4. mediate(b, {x}, action, epoch) BY <1>1, <2>2, <2>3 DEF mediate
  <2>5. QED BY <2>4 DEF x
<1>4. QED BY <1>2, <1>3 DEF Enforces

\* activate: both gates have passed when a profile becomes active.
LEMMA ActivateKeeps ==
    ASSUME OnboardingInv, NEW x \in Profiles, activate(x)
    PROVE  OnboardingInv'
<1> DEFINE p == [action |-> "onboarding_activation", result |-> ActivationResult(x)]
<1>1. OnboardingTypes /\ ModeHeld /\ EnforcedConforms /\ CleanLog /\ Relied
  BY DEF OnboardingInv
<1>2. /\ Record(p)
      /\ active' = IF ActivationResult(x) = "ENFORCED" THEN active \cup {x} ELSE active
      /\ UNCHANGED <<checkpoints, mode, modeLock, observations, job, faults>>
  BY DEF activate
<1>3. p \in Payloads /\ p.action # "mode_change"
  <2>1. ActivationResult(x) \in {"BLOCKED", "CONFORMANCE_FAILED", "ENFORCED"}
    BY DEF ActivationResult
  <2>2. p \in ActivationPayloads BY <2>1 DEF ActivationPayloads
  <2>3. QED BY <2>2 DEF Payloads
<1>4. PICK q : q = p OBVIOUS
<1>5. onRecord' = onRecord
  <2>1. onRecord' = IF p.action = "mode_change" THEN p.new_mode ELSE onRecord
    BY <1>2 DEF Record
  <2> HIDE DEF p
  <2>2. QED BY <1>3, <2>1
<1> HIDE DEF p
<1>6. /\ events' \in Seq(Events) /\ Linked' /\ (verify => verify')
      /\ OneMore(Stored', Stored, q)
  BY <1>2, <1>3, <1>4, RecordKeeps
<1>7. OnboardingTypes' BY <1>1, <1>2, <1>5, <1>6 DEF OnboardingTypes
<1>8. CleanLog'
  <2> SUFFICES ASSUME faults = 0
               PROVE  ModesChained(Stored') /\ onRecord' = ModeAfter(Stored', Len(Stored'))
    BY <1>2 DEF CleanLog
  <2>1. PICK w : w = Stored OBVIOUS
  <2>2. PICK v : v = Stored' OBVIOUS
  <2>3. /\ ModesChained(w) /\ onRecord = ModeAfter(w, Len(w))
        /\ OneMore(v, w, q) /\ q.action # "mode_change"
    BY <1>1, <1>3, <1>4, <1>6, <2>1, <2>2 DEF CleanLog
  <2>4. ModesChained(v) BY <2>3, ChainedOn
  <2>5. ModeAfter(v, Len(v)) = onRecord BY <2>3 DEF OneMore
  <2>6. QED BY <1>5, <2>2, <2>4, <2>5
<1>9. Relied' BY <1>1, <1>2, <1>6 DEF Relied, Doing, Faithful
<1>10. ModeHeld' BY <1>1, <1>2, <1>5 DEF ModeHeld, Doing
<1>11. EnforcedConforms'
  <2>1. CASE ActivationResult(x) = "ENFORCED"
    <3>1. mandatory_controls_present(x) /\ ConformancePassed(x.build)
      BY <2>1 DEF ActivationResult
    <3>2. \A tokens, actions, epochs : Enforces(x.build, tokens, actions, epochs)
      BY <3>1, PassedEnforces
    <3>3. QED BY <1>1, <1>2, <2>1, <3>1, <3>2 DEF EnforcedConforms
  <2>2. CASE ActivationResult(x) # "ENFORCED"
    BY <1>1, <1>2, <2>2 DEF EnforcedConforms
  <2>3. QED BY <2>1, <2>2
<1>12. Signed' /\ Observed' BY <1>2 DEF OnboardingInv, Signed, Observed
<1>13. QED BY <1>6, <1>7, <1>8, <1>9, <1>10, <1>11, <1>12 DEF OnboardingInv

\* checkpoint verifies the log and goes on without the lock.
LEMMA CheckpointKeeps ==
    ASSUME OnboardingInv, NEW t \in Threads, checkpoint(t)
    PROVE  OnboardingInv'
<1> DEFINE j == [op |-> "verified", faults |-> faults]
<1>1. OnboardingTypes BY DEF OnboardingInv
<1>2. /\ verify /\ job[t] = NoJob /\ job' = [job EXCEPT ![t] = j]
      /\ UNCHANGED <<events, checkpoints, sealed, mode, modeLock, observations, active,
                     onRecord, faults>>
  BY DEF checkpoint, Begin
<1>3. j \in CheckpointJobs /\ j.op = "verified" /\ j.faults = faults
  BY <1>1 DEF CheckpointJobs, OnboardingTypes
<1> HIDE DEF j
<1>4. j \in Jobs /\ j \notin ReportJobs BY <1>3 DEF Jobs, ReportJobs
<1>5. CleanLog' /\ Linked' /\ (verify => verify') BY <1>2, LogSame
<1>6. /\ job' \in [Threads -> Jobs \cup {NoJob}] /\ Relied'
      /\ job'[t] = j /\ \A u \in Threads \ {t} : job'[u] = job[u]
  BY <1>2, <1>3, <1>4, <1>5, JobChanges
<1>7. OnboardingTypes' BY <1>1, <1>2, <1>6 DEF OnboardingTypes
<1>8. ModeHeld'
  <2>1. ~ Doing(t, "mode") /\ ~ Doing(t, "mode")' BY <1>2, <1>3, <1>6 DEF Doing
  <2>2. QED BY <1>2, <1>6, <2>1, ModeHeldStays
<1>9. Signed' /\ Observed' /\ EnforcedConforms'
  BY <1>2 DEF OnboardingInv, Signed, Observed, EnforcedConforms
<1>10. QED BY <1>5, <1>6, <1>7, <1>8, <1>9 DEF OnboardingInv

\* The head is read and signed: of a chain that verifies, unless a fault struck.
LEMMA SignKeeps ==
    ASSUME OnboardingInv, NEW t \in Threads, ReadHeadAndSign(t)
    PROVE  OnboardingInv'
<1> DEFINE new == [body |-> HeadBody, log |-> Stored, struck |-> faults # job[t].faults]
<1>1. OnboardingTypes /\ Relied /\ Signed BY DEF OnboardingInv
<1>2. /\ Doing(t, "verified") /\ job' = [job EXCEPT ![t] = NoJob]
      /\ checkpoints' = checkpoints \cup {new}
      /\ UNCHANGED <<events, sealed, mode, modeLock, observations, active, onRecord,
                     faults>>
  BY DEF ReadHeadAndSign, End
<1>3. CleanLog' /\ Linked' /\ (verify => verify') BY <1>2, LogSame
<1>4. NoJob \notin ReportJobs /\ NoJob \notin CheckpointJobs
  BY OnboardingAssumption
<1>5. /\ job' \in [Threads -> Jobs \cup {NoJob}] /\ Relied'
      /\ job'[t] = NoJob /\ \A u \in Threads \ {t} : job'[u] = job[u]
  BY <1>2, <1>3, <1>4, JobChanges
<1>6. OnboardingTypes' BY <1>1, <1>2, <1>5 DEF OnboardingTypes
<1>7. ModeHeld'
  <2>1. ~ Doing(t, "mode") /\ ~ Doing(t, "mode")' BY <1>2, <1>5 DEF Doing
  <2>2. QED BY <1>2, <1>5, <2>1, ModeHeldStays
<1>8. Signed'
  <2> SUFFICES ASSUME NEW c \in checkpoints', ~ c.struck
               PROVE  c.body.head_hash = Chain(c.log, c.body.covers_through_seq + 1)
    BY DEF Signed, Chain
  <2>1. CASE c \in checkpoints BY <1>1, <2>1 DEF Signed
  <2>2. CASE c = new
    <3>1. faults = job[t].faults
      <4>1. new.struck <=> faults # job[t].faults BY Zenon
      <4>2. QED BY <2>2, <4>1, Zenon
    <3>2. verify BY <1>1, <1>2, <3>1 DEF Relied
    <3>3. head_hash = Chain(Stored, Len(events)) BY <1>1, <3>2, VerifiedHead
    <3>4. /\ c.log = Stored /\ c.body.head_hash = head_hash
          /\ c.body.covers_through_seq = Len(events) - 1
      BY <2>2 DEF HeadBody
    <3>5. (Len(events) - 1) + 1 = Len(events) BY <1>1, HashTyped
    <3>6. QED BY <3>3, <3>4, <3>5
  <2>3. QED BY <1>2, <2>1, <2>2
<1>9. Observed' /\ EnforcedConforms'
  BY <1>2 DEF OnboardingInv, Observed, EnforcedConforms
<1>10. QED BY <1>3, <1>5, <1>6, <1>7, <1>8, <1>9 DEF OnboardingInv

\* A fault leaves every event at or before the position it was appended at, and
\* its link as it was.
LEMMA CorruptKeeps ==
    ASSUME OnboardingInv, Corrupt
    PROVE  OnboardingInv'
<1>1. OnboardingTypes /\ Linked /\ Relied BY DEF OnboardingInv
<1>2. /\ faults' = faults + 1
      /\ UNCHANGED <<checkpoints, sealed, mode, modeLock, observations, active, job,
                     onRecord>>
  BY DEF Corrupt
<1>3. faults \in Nat /\ faults' \in Nat /\ faults' # 0 /\ ~ (faults' <= faults)
  BY <1>1, <1>2 DEF OnboardingTypes
<1>4. /\ events \in Seq(Events) /\ Len(events) \in Nat /\ DOMAIN events = 1..Len(events)
      /\ \A i \in DOMAIN events : events[i] \in Events
  BY <1>1, HashTyped DEF OnboardingTypes
<1>5. events' \in Seq(Events) /\ Linked'
  <2>1. ASSUME NEW i \in DOMAIN events, Alter(i, [action |-> "altered"])
        PROVE  events' \in Seq(Events) /\ Linked'
    <3> DEFINE e == [events[i] EXCEPT !.payload = [action |-> "altered"]]
    <3>1. e \in Events BY <1>4 DEF Events, Payloads
    <3>2. e.seq = events[i].seq /\ e.prev_hash = events[i].prev_hash BY <1>4 DEF Events
    <3>3. events' = [events EXCEPT ![i] = e] BY <2>1 DEF Alter
    <3> HIDE DEF e
    <3>4. /\ events' \in Seq(Events) /\ DOMAIN events' = DOMAIN events
          /\ \A k \in DOMAIN events : /\ events'[k].seq = events[k].seq
                                      /\ events'[k].prev_hash = events[k].prev_hash
      BY <1>4, <3>1, <3>2, <3>3
    <3>5. QED BY <1>1, <1>2, <3>4 DEF Linked
  <2>2. ASSUME NEW k \in 1..(Len(events) - 1), Remove(k)
        PROVE  events' \in Seq(Events) /\ Linked'
    <3> DEFINE n == Len(events) - 1
    <3>1. /\ n \in Nat
          /\ events' = [i \in 1..n |-> IF i < k THEN events[i] ELSE events[i + 1]]
      BY <1>4, <2>2 DEF Remove
    <3>2. \A i \in 1..n : i \in DOMAIN events /\ i + 1 \in DOMAIN events BY <1>4
    <3> HIDE DEF n
    <3>3. events' \in [1..n -> Events] BY <1>4, <3>1, <3>2
    <3>4. events' \in Seq(Events) /\ DOMAIN events' = 1..n BY <3>1, <3>3
    <3>5. ASSUME NEW i \in 1..n
          PROVE  \/ events'[i] = events[i]
                 \/ events'[i].seq >= i /\ events'[i].seq # i - 1
      <4>1. CASE i < k BY <3>1, <4>1
      <4>2. CASE ~ (i < k)
        <5>1. events'[i] = events[i + 1] BY <3>1, <4>2
        <5>2. events[i + 1].seq >= (i + 1) - 1 BY <1>1, <3>2 DEF Linked
        <5>3. events[i + 1].seq \in Nat BY <1>4, <3>2 DEF Events
        <5>4. QED BY <3>1, <5>1, <5>2, <5>3
      <4>3. QED BY <4>1, <4>2
    <3>6. \A i \in 1..n : i >= i - 1 /\ \A s \in Nat : s >= i => s >= i - 1
      BY <3>1
    <3>7. \A i \in 1..n : events'[i].seq \in Nat BY <3>3 DEF Events
    <3>8. QED BY <1>1, <1>2, <3>2, <3>4, <3>5, <3>6, <3>7 DEF Linked
  <2>3. ASSUME NEW n \in 0..(Len(events) - 1), Truncate(n)
        PROVE  events' \in Seq(Events) /\ Linked'
    <3>1. events' = SubSeq(events, 1, n) /\ n \in Nat /\ n <= Len(events)
      BY <1>4, <2>3 DEF Truncate
    <3>2. /\ events' \in Seq(Events) /\ Len(events') = n
          /\ \A i \in 1..n : events'[i] = events[i]
      BY <1>4, <3>1
    <3>3. DOMAIN events' = 1..n /\ 1..n \subseteq DOMAIN events BY <1>4, <3>1, <3>2
    <3>4. QED BY <1>1, <1>2, <3>2, <3>3 DEF Linked
  <2>4. QED BY <2>1, <2>2, <2>3 DEF Corrupt
<1>6. OnboardingTypes' BY <1>1, <1>2, <1>3, <1>5 DEF OnboardingTypes
<1>7. CleanLog' BY <1>3 DEF CleanLog
<1>8. Relied'
  <2> SUFFICES ASSUME NEW t \in Threads
               PROVE  /\ Doing(t, "verified") =>
                            (job[t].faults <= faults' /\ job[t].faults # faults')
                      /\ Doing(t, "applied") => Faithful(job[t])
    BY <1>2 DEF Relied, Doing, Faithful
  <2>1. Doing(t, "applied") => Faithful(job[t]) BY <1>1 DEF Relied
  <2>2. ASSUME Doing(t, "verified")
        PROVE  job[t].faults <= faults' /\ job[t].faults # faults'
    <3>1. job[t].faults \in Nat /\ job[t].faults <= faults
      <4>1. job[t] \in CheckpointJobs
        BY <1>1, <2>2 DEF OnboardingTypes, Doing, Jobs, ModeJobs, ReportJobs
      <4>2. job[t].faults \in Nat BY <4>1 DEF CheckpointJobs
      <4>3. QED BY <1>1, <2>2, <4>2 DEF Relied
    <3>2. QED BY <1>2, <1>3, <3>1
  <2>3. QED BY <2>1, <2>2
<1>9. Signed' /\ Observed' /\ ModeHeld' /\ EnforcedConforms'
  BY <1>2 DEF OnboardingInv, Signed, Observed, ModeHeld, Doing, EnforcedConforms
<1>10. QED BY <1>5, <1>6, <1>7, <1>8, <1>9 DEF OnboardingInv

-----------------------------------------------------------------------------
(***************************************************************************)
(* The theorems.                                                           *)
(***************************************************************************)

\* The invariant holds initially.
LEMMA InitInv == Init => OnboardingInv
<1> SUFFICES ASSUME Init PROVE OnboardingInv OBVIOUS
<1> USE DEF Init
<1>1. OnboardingTypes BY DEF OnboardingTypes, AllModes
<1>2. Linked /\ Signed /\ Observed /\ EnforcedConforms
  BY DEF Linked, Signed, Observed, EnforcedConforms
<1>3. CleanLog
  <2>1. Len(Stored) = 0 /\ Stored = <<>> BY DEF Stored
  <2>2. ChangesIn(Stored, Len(Stored)) = {} BY <2>1 DEF ChangesIn
  <2>3. QED BY <2>2 DEF CleanLog, ModesChained, ModeAfter
<1>4. Relied /\ ModeHeld BY OnboardingAssumption DEF ModeHeld, Relied, Doing
<1>5. QED BY <1>1, <1>2, <1>3, <1>4 DEF OnboardingInv

\* Every step preserves the invariant.
LEMMA NextKeepsInv == OnboardingInv /\ [Next]_vars => OnboardingInv'
<1> SUFFICES ASSUME OnboardingInv, [Next]_vars PROVE OnboardingInv' OBVIOUS
<1>1. CASE UNCHANGED vars
  <2>1. OnboardingTypes' BY <1>1 DEF vars, OnboardingInv, OnboardingTypes
  <2>2. CleanLog' /\ Linked' /\ (verify => verify') BY <1>1, LogSame DEF vars
  <2>3. Relied' BY <1>1, <2>2 DEF vars, OnboardingInv, Relied, Doing, Faithful
  <2>4. Signed' /\ Observed' /\ ModeHeld' /\ EnforcedConforms'
    BY <1>1 DEF vars, OnboardingInv, Signed, Observed, ModeHeld, Doing, EnforcedConforms
  <2>5. QED BY <2>1, <2>2, <2>3, <2>4 DEF OnboardingInv
<1>2. QED
  BY <1>1, SetModeKeeps, AuditModeKeeps, ApplyKeeps, ReportKeeps, CheckpointKeeps,
     SignKeeps, ActivateKeeps, CorruptKeeps DEF Next

\* The inductive invariant holds in every reachable state.
THEOREM OnboardingInvariant == Spec => []OnboardingInv
BY InitInv, NextKeepsInv, PTL DEF Spec

\* The log of an uncorrupted store tells the history of the mode.
THEOREM ModeAuditedHolds == Spec => []ModeAudited
<1>1. OnboardingInv => ModeAudited
  BY DEF OnboardingInv, CleanLog, ModesChained, ModeHeld, ModeAudited
<1>2. QED BY <1>1, OnboardingInvariant, PTL

\* The shadow report counts what was let through under the mode on record.
THEOREM ShadowReportExactHolds == Spec => []ShadowReportExact
<1>1. OnboardingInv => ShadowReportExact
  <2> SUFFICES ASSUME OnboardingInv PROVE ShadowReportExact OBVIOUS
  <2>1. {i \in DOMAIN observations : observations[i].outcome \in LetThrough} =
           {i \in DOMAIN observations :
               /\ ~observations[i].base
               /\ observations[i].recorded \in {"OBSERVE", "WARN"}}
    BY DEF OnboardingInv, Observed, Faithful
  <2>2. QED BY <2>1 DEF ShadowReportExact, enforce_would_block, LetThrough
<1>2. QED BY <1>1, OnboardingInvariant, PTL

\* A chain that verifies holds at every position but the last what was stored
\* there when the next entry was appended, and a checkpoint no fault struck
\* signs a chain that commits to the whole log.
THEOREM TamperEvidentHolds == Spec => []TamperEvident
<1>1. OnboardingInv => TamperEvident
  <2> SUFFICES ASSUME OnboardingInv, verify, NEW i \in 1..(Len(events) - 1)
               PROVE  events[i].payload = sealed[i]
    BY DEF TamperEvident, OnboardingInv, Signed
  <2>1. /\ Len(events) \in Nat /\ DOMAIN events = 1..Len(events)
        /\ \A k \in DOMAIN events : events[k] \in Events
    BY HashTyped DEF OnboardingInv
  <2>2. /\ i \in DOMAIN events /\ i + 1 \in DOMAIN events /\ i + 1 > 1
        /\ (i + 1) - 1 = i /\ i + 1 # 1
    BY <2>1
  <2>3. PICK g : g = events[i + 1].prev_hash OBVIOUS
  <2>4. events[i + 1].seq = i /\ g = event_hash(events[i]) BY <2>2, <2>3 DEF verify
  <2>5. g[Len(g)].payload = sealed[i] BY <2>2, <2>3, <2>4 DEF OnboardingInv, Linked
  <2>6. PICK h : h = events[i].prev_hash OBVIOUS
  <2>7. PICK b : b = [seq |-> events[i].seq, payload |-> events[i].payload] OBVIOUS
  <2>8. h \in Seq(Bodies) /\ b \in Bodies /\ b.payload = events[i].payload
    BY <2>1, <2>2, <2>6, <2>7 DEF Events, Bodies
  <2>9. g = Append(h, b) BY <2>4, <2>6, <2>7 DEF event_hash
  <2>10. g[Len(g)] = b BY <2>8, <2>9, LastBody
  <2>11. QED BY <2>5, <2>8, <2>10
<1>2. QED BY <1>1, OnboardingInvariant, PTL

\* Only a build that enforces, under a profile with every mandatory control, is
\* ever returned as enforced.
THEOREM EnforcedConformsHolds == Spec => []EnforcedConforms
<1>1. OnboardingInv => EnforcedConforms BY DEF OnboardingInv
<1>2. QED BY <1>1, OnboardingInvariant, PTL

=============================================================================

---------------------------- MODULE BrokersProofs ----------------------------
(***************************************************************************)
(* Proofs about the enforcement brokers, for any number of threads,        *)
(* requests and replacements by other processes, and a file system of any  *)
(* size.                                                                   *)
(*                                                                         *)
(* What a call may have done is told by its program counter alone: under   *)
(* which decision it runs, which descriptor it holds, and whether it has a *)
(* receipt.  A descriptor that was found below the root stays there, since *)
(* no inode in use is given to another file.                               *)
(***************************************************************************)
EXTENDS Brokers, FiniteSetTheorems, TLAPS

Pcs == {"observed", "execute", "resolved", "opened", "verified", "executed", "failed",
        "denied", "unbound"}
Contents == {"inside", "outside", "empty", "written"}
Results == Contents \cup {"none", "digest", "path", "response", "clean", "secret", "stdout",
                          "redacted", "text"}
Calls == [pc : Pcs, req : Requests, dec : Decisions \cup {Refused},
          fd : Inodes \cup {None}, result : Results, touched : BOOLEAN]

\* What a call that ended in EXECUTED may hand back.
Approved(r, result) ==
    /\ result # "outside"
    /\ result = "secret" => SecretForm(r) # "plain"

\* A decision under which something may be touched.
Permits(d) == d.effect = "ALLOW" /\ exact_match(d) /\ d \in Decisions

Decided == {"execute", "resolved", "opened", "verified", "executed", "failed"}

\* What holds of a call, wherever the inodes are.
CallOK(c, where) ==
    /\ c \in Calls
    /\ c.pc \notin Decided => ~ c.touched
    /\ c.pc \in Decided => Permits(c.dec)
    /\ c.pc \in {"resolved", "opened", "verified"} => c.req.kind = "file"
    /\ c.pc \in {"opened", "verified"} => c.fd \in Inodes
    /\ c.pc = "verified" => where[c.fd] = "in"
    /\ c.pc = "executed" => Approved(c.req, c.result)
    /\ c.pc # "executed" => c.result = "none"

CallsOK ==
    /\ call \in [Threads -> Calls \cup {Idle}]
    /\ \A t \in Threads : call[t] # Idle => CallOK(call[t], home)

\* The files: none holds a request's bytes outside, none inside holds others.
FilesOK ==
    /\ dir \in {"in", "out"}
    /\ entry \in [{"in", "out"} -> Inodes \cup {None, Link}]
    /\ home \in [Inodes -> {"in", "out"}]
    /\ data \in [Inodes -> Contents]
    /\ \A i \in Inodes : data[i] = "written" => home[i] = "in"
    /\ \A i \in Inodes : home[i] = "in" => data[i] # "outside"

ReceiptsOK == receipts \in Seq([thread : Threads, dec : Decisions \cup {Refused},
                                outcome : {"EXECUTED", "FAILED", "DENIED"}])

\* The inductive invariant.
BrokersInv == CallsOK /\ FilesOK /\ ReceiptsOK /\ ReceiptsMatch

-----------------------------------------------------------------------------
(***************************************************************************)
(* One call at a time.                                                     *)
(***************************************************************************)

AtEnd(c, pc, result, b) == [c EXCEPT !.pc = pc, !.result = result, !.touched = @ \/ b]

\* A call ends, or fails, or is denied: what else is in its record stays.
LEMMA Finished ==
    ASSUME NEW c \in Calls, NEW pc \in Pcs, NEW result \in Results, NEW b \in BOOLEAN
    PROVE  /\ AtEnd(c, pc, result, b) \in Calls
           /\ AtEnd(c, pc, result, b).pc = pc
           /\ AtEnd(c, pc, result, b).result = result
           /\ AtEnd(c, pc, result, b).req = c.req
           /\ AtEnd(c, pc, result, b).dec = c.dec
<1>1. (c.touched \/ b) \in BOOLEAN OBVIOUS
<1>2. AtEnd(c, pc, result, b) \in Calls BY <1>1 DEF AtEnd, Calls
<1>3. QED BY <1>2 DEF AtEnd, Calls

\* A call that executes counts as one that touched something.
LEMMA Executed ==
    ASSUME NEW c \in Calls, NEW result \in Results
    PROVE  /\ AtEnd(c, "executed", result, TRUE) \in Calls
           /\ AtEnd(c, "executed", result, TRUE).pc = "executed"
           /\ AtEnd(c, "executed", result, TRUE).result = result
           /\ AtEnd(c, "executed", result, TRUE).req = c.req
           /\ AtEnd(c, "executed", result, TRUE).dec = c.dec
<1>1. "executed" \in Pcs /\ (c.touched \/ TRUE) \in BOOLEAN BY DEF Pcs
<1>2. AtEnd(c, "executed", result, TRUE) \in Calls BY <1>1 DEF AtEnd, Calls
<1>3. QED BY <1>2 DEF AtEnd, Calls

\* Being denied touches nothing.
LEMMA Untouched ==
    ASSUME NEW c \in Calls, NEW pc, NEW result
    PROVE  AtEnd(c, pc, result, FALSE).touched <=> c.touched
BY DEF AtEnd, Calls

\* One call changes, and inodes in use by others stay where they are.
LEMMA OneCallMoves ==
    ASSUME CallsOK, NEW t \in Threads, NEW x, CallOK(x, home'),
           call' = [call EXCEPT ![t] = x],
           \A u \in Threads \ {t} :
               call[u] # Idle /\ call[u].fd \in Inodes => home'[call[u].fd] = home[call[u].fd]
    PROVE  CallsOK'
<1>1. call \in [Threads -> Calls \cup {Idle}] BY DEF CallsOK
<1>2. x \in Calls BY DEF CallOK
<1>3. call' \in [Threads -> Calls \cup {Idle}] BY <1>1, <1>2
<1>4. call'[t] = x /\ \A u \in Threads \ {t} : call'[u] = call[u] BY <1>1
<1>5. ASSUME NEW u \in Threads \ {t}, call[u] # Idle PROVE CallOK(call[u], home')
  <2>1. CallOK(call[u], home) BY <1>5 DEF CallsOK
  <2>2. call[u].pc = "verified" =>
           call[u].fd \in Inodes /\ home'[call[u].fd] = home[call[u].fd]
    BY <1>5, <2>1 DEF CallOK
  <2>3. QED BY <2>1, <2>2 DEF CallOK
<1>6. \A u \in Threads : call'[u] # Idle => CallOK(call'[u], home') BY <1>4, <1>5
<1>7. QED BY <1>3, <1>6 DEF CallsOK

EndPcs == {"executed", "failed", "denied"}

\* A call that goes on, or is refused before it is decided, has no receipt.
LEMMA NoReceipt ==
    ASSUME CallsOK, ReceiptsOK, ReceiptsMatch, NEW t \in Threads, NEW x,
           call' = [call EXCEPT ![t] = x], receipts' = receipts,
           call[t].pc \notin EndPcs, x.pc \notin EndPcs
    PROVE  ReceiptsOK' /\ ReceiptsMatch'
<1>1. call \in [Threads -> Calls \cup {Idle}] BY DEF CallsOK
<1>2. call'[t] = x /\ \A u \in Threads \ {t} : call'[u] = call[u] BY <1>1
<1>3. ReceiptsOK' BY DEF ReceiptsOK
<1>4. {i \in DOMAIN receipts : receipts[i].thread = t} = {}
  <2> DEFINE S == {i \in DOMAIN receipts : receipts[i].thread = t}
  <2>1. ~ Ended(t) BY DEF Ended, At, EndPcs
  <2>2. Cardinality(S) = 0 BY <2>1 DEF ReceiptsMatch
  <2>3. IsFiniteSet(DOMAIN receipts)
    <3>1. Len(receipts) \in Nat /\ DOMAIN receipts = 1..Len(receipts) BY DEF ReceiptsOK
    <3>2. QED BY <3>1, FS_Interval
  <2>4. IsFiniteSet(S) BY <2>3, FS_Subset
  <2>5. QED BY <2>2, <2>4, FS_EmptySet
<1>5. ~ Ended(t)' BY <1>2 DEF Ended, At, EndPcs
<1>6. \A u \in Threads \ {t} : Ended(u)' <=> Ended(u) BY <1>2 DEF Ended, At
<1>7. ReceiptsMatch'
  <2> SUFFICES ASSUME NEW u \in Threads
               PROVE  LET mine == {i \in DOMAIN receipts : receipts[i].thread = u}
                      IN /\ Cardinality(mine) = IF Ended(u)' THEN 1 ELSE 0
                         /\ \A i \in mine :
                               /\ receipts[i].outcome = "EXECUTED" <=> At(u, "executed")'
                               /\ call'[u].touched =>
                                     /\ receipts[i].outcome # "DENIED"
                                     /\ receipts[i].dec = call'[u].dec
    BY DEF ReceiptsMatch
  <2>1. CASE u = t BY <1>4, <1>5, <2>1, FS_EmptySet
  <2>2. CASE u # t
    <3>1. (Ended(u)' <=> Ended(u)) /\ call'[u] = call[u]
          /\ (At(u, "executed")' <=> At(u, "executed"))
      BY <1>2, <1>6, <2>2 DEF At
    <3>2. QED BY <3>1 DEF ReceiptsMatch
  <2>3. QED BY <2>1, <2>2
<1>8. QED BY <1>3, <1>7

\* A call that ends has the one receipt it emits then.
LEMMA OneReceipt ==
    ASSUME CallsOK, ReceiptsOK, ReceiptsMatch, NEW t \in Threads, NEW x,
           call' = [call EXCEPT ![t] = x],
           NEW d \in Decisions \cup {Refused}, NEW o \in {"EXECUTED", "FAILED", "DENIED"},
           receipts' = Append(receipts, [thread |-> t, dec |-> d, outcome |-> o]),
           call[t].pc \notin EndPcs, x.pc \in EndPcs,
           o = "EXECUTED" <=> x.pc = "executed",
           x.touched => o # "DENIED" /\ d = x.dec
    PROVE  ReceiptsOK' /\ ReceiptsMatch'
<1> DEFINE n == Len(receipts)
           r == [thread |-> t, dec |-> d, outcome |-> o]
           Receipts == [thread : Threads, dec : Decisions \cup {Refused},
                        outcome : {"EXECUTED", "FAILED", "DENIED"}]
           Mine(log, u) == {i \in DOMAIN log : log[i].thread = u}
<1>1. call \in [Threads -> Calls \cup {Idle}] BY DEF CallsOK
<1>2. call'[t] = x /\ \A u \in Threads \ {t} : call'[u] = call[u] BY <1>1
<1>3. receipts \in Seq(Receipts) /\ r \in Receipts BY DEF ReceiptsOK
<1>4. n \in Nat /\ DOMAIN receipts = 1..n BY <1>3
<1>5. r.thread = t /\ r.dec = d /\ r.outcome = o OBVIOUS
<1> HIDE DEF r
<1>6. /\ receipts' \in Seq(Receipts) /\ Len(receipts') = n + 1
      /\ receipts'[n + 1] = r /\ \A i \in 1..n : receipts'[i] = receipts[i]
  <2>1. receipts' = Append(receipts, r) BY DEF r
  <2>2. QED BY <1>3, <2>1
<1>7. ReceiptsOK' BY <1>6 DEF ReceiptsOK
<1>8. DOMAIN receipts' = 1..(n + 1) BY <1>6
<1>9. 1..(n + 1) = 1..n \cup {n + 1} BY <1>4
<1> HIDE DEF n, Receipts
<1>10. ~ Ended(t) /\ Ended(t)' BY <1>2 DEF Ended, At, EndPcs
<1>11. Mine(receipts, t) = {}
  <2>1. Cardinality(Mine(receipts, t)) = 0 BY <1>10 DEF ReceiptsMatch
  <2>2. n \in Int BY <1>4
  <2>3. IsFiniteSet(1..n) BY <2>2, FS_Interval
  <2>4. IsFiniteSet(Mine(receipts, t)) BY <1>4, <2>3, FS_Subset
  <2>5. QED BY <2>1, <2>4, FS_EmptySet
<1>12. Mine(receipts', t) = {n + 1}
  <2>1. \A i \in 1..n : receipts[i].thread # t BY <1>4, <1>11
  <2>2. QED BY <1>5, <1>6, <1>8, <1>9, <2>1
<1>13. \A u \in Threads \ {t} : Mine(receipts', u) = Mine(receipts, u)
  BY <1>4, <1>5, <1>6, <1>8, <1>9
<1>14. ASSUME NEW u \in Threads
       PROVE  /\ Cardinality(Mine(receipts', u)) = IF Ended(u)' THEN 1 ELSE 0
              /\ \A i \in Mine(receipts', u) :
                    /\ receipts'[i].outcome = "EXECUTED" <=> At(u, "executed")'
                    /\ call'[u].touched =>
                          /\ receipts'[i].outcome # "DENIED"
                          /\ receipts'[i].dec = call'[u].dec
  <2>1. CASE u = t
    <3>1. Cardinality({n + 1}) = 1 BY FS_Singleton
    <3>2. At(t, "executed")' <=> x.pc = "executed" BY <1>2 DEF At
    <3>3. Cardinality(Mine(receipts', t)) = IF Ended(t)' THEN 1 ELSE 0
      BY <1>10, <1>12, <3>1
    <3>4. /\ receipts'[n + 1].outcome = "EXECUTED" <=> At(t, "executed")'
          /\ call'[t].touched =>
                receipts'[n + 1].outcome # "DENIED" /\ receipts'[n + 1].dec = call'[t].dec
      BY <1>2, <1>5, <1>6, <3>2
    <3> HIDE DEF Mine
    <3>5. QED BY <1>12, <2>1, <3>3, <3>4
  <2>2. CASE u # t
    <3>1. /\ Ended(u)' <=> Ended(u) /\ call'[u] = call[u]
          /\ At(u, "executed")' <=> At(u, "executed")
      BY <1>2, <2>2 DEF At, Ended
    <3>2. Mine(receipts', u) = Mine(receipts, u) BY <1>13, <2>2
    <3>3. \A i \in Mine(receipts, u) : receipts'[i] = receipts[i] BY <1>4, <1>6
    <3>4. /\ Cardinality(Mine(receipts, u)) = IF Ended(u) THEN 1 ELSE 0
          /\ \A i \in Mine(receipts, u) :
                /\ receipts[i].outcome = "EXECUTED" <=> At(u, "executed")
                /\ call[u].touched =>
                      receipts[i].outcome # "DENIED" /\ receipts[i].dec = call[u].dec
      BY DEF ReceiptsMatch
    <3>5. call'[u] = call[u] /\ (Ended(u)' <=> Ended(u)) BY <1>2, <2>2 DEF At, Ended
    <3> HIDE DEF Mine
    <3>6. QED BY <3>1, <3>2, <3>3, <3>4, <3>5
  <2>3. QED BY <2>1, <2>2
<1>15. ReceiptsMatch' BY <1>14 DEF ReceiptsMatch
<1>16. QED BY <1>7, <1>15

\* The file system at rest.
LEMMA FilesRest == ASSUME FilesOK, UNCHANGED fs PROVE FilesOK' /\ home' = home
BY DEF FilesOK, fs

\* A call goes on without touching a file.
LEMMA GoesOn ==
    ASSUME BrokersInv, NEW t \in Threads, NEW x, CallOK(x, home),
           call[t].pc \notin EndPcs, x.pc \notin EndPcs,
           call' = [call EXCEPT ![t] = x], UNCHANGED <<receipts, fs>>
    PROVE  BrokersInv'
<1>1. FilesOK' /\ home' = home BY FilesRest DEF BrokersInv
<1>2. CallsOK' BY <1>1, OneCallMoves DEF BrokersInv
<1>3. ReceiptsOK' /\ ReceiptsMatch' BY NoReceipt DEF BrokersInv
<1>4. QED BY <1>1, <1>2, <1>3 DEF BrokersInv

Running == {"observed", "execute", "resolved", "opened", "verified"}

\* A decided call fails, whatever it has touched.
LEMMA Fails ==
    ASSUME BrokersInv, NEW t \in Threads, NEW b \in BOOLEAN, Fail(t, b),
           call[t].pc \in Running \ {"observed"}, FilesOK', home' = home
    PROVE  BrokersInv'
<1>1. PICK x : x = AtEnd(call[t], "failed", "none", b) OBVIOUS
<1>2. /\ call' = [call EXCEPT ![t] = x]
      /\ receipts' = Append(receipts, [thread |-> t, dec |-> call[t].dec, outcome |-> "FAILED"])
  BY <1>1 DEF Fail, emit, Finish, AtEnd
<1>3. call[t] # Idle BY DEF Running, Idle
<1>4. call[t] \in Calls BY <1>3 DEF BrokersInv, CallsOK
<1>5. call[t].dec \in Decisions \cup {Refused} BY <1>4 DEF Calls
<1>6. /\ x \in Calls /\ x.pc = "failed" /\ x.result = "none" /\ x.dec = call[t].dec
  <2>1. "failed" \in Pcs /\ "none" \in Results BY DEF Pcs, Results
  <2>2. /\ AtEnd(call[t], "failed", "none", b) \in Calls
        /\ AtEnd(call[t], "failed", "none", b).pc = "failed" /\ AtEnd(call[t], "failed", "none", b).result = "none"
        /\ AtEnd(call[t], "failed", "none", b).req = call[t].req /\ AtEnd(call[t], "failed", "none", b).dec = call[t].dec
    BY <1>4, <2>1, Finished
  <2>3. QED BY <1>1, <2>2
<1>7. CallOK(x, home')
  <2>1. CallOK(call[t], home) BY <1>3 DEF BrokersInv, CallsOK
  <2>2. Permits(x.dec) BY <1>6, <2>1 DEF CallOK, Running, Decided
  <2>3. QED BY <1>6, <2>2 DEF CallOK, Decided
<1>8. CallsOK' BY <1>2, <1>7, OneCallMoves DEF BrokersInv
<1>9. PICK d : d = call[t].dec OBVIOUS
<1>10. ReceiptsOK' /\ ReceiptsMatch'
  <2>1. call[t].pc \notin EndPcs /\ x.pc \in EndPcs BY <1>6 DEF EndPcs, Running
  <2>2. "FAILED" = "EXECUTED" <=> x.pc = "executed" BY <1>6
  <2>3. QED BY <1>2, <1>5, <1>6, <1>9, <2>1, <2>2, OneReceipt DEF BrokersInv
<1>11. QED BY <1>8, <1>10 DEF BrokersInv

\* A decided call returns a result that may leave.
LEMMA Returns ==
    ASSUME BrokersInv, NEW t \in Threads, NEW result \in Results, Return(t, result),
           call[t].pc \in Running \ {"observed"}, FilesOK', home' = home,
           Approved(call[t].req, result)
    PROVE  BrokersInv'
<1>1. PICK x : x = AtEnd(call[t], "executed", result, TRUE) OBVIOUS
<1>2. /\ call' = [call EXCEPT ![t] = x]
      /\ receipts' = Append(receipts,
                            [thread |-> t, dec |-> call[t].dec, outcome |-> "EXECUTED"])
  BY <1>1 DEF Return, emit, Finish, AtEnd
<1>3. call[t] # Idle BY DEF Running, Idle
<1>4. call[t] \in Calls /\ CallOK(call[t], home) BY <1>3 DEF BrokersInv, CallsOK
<1>5. call[t].dec \in Decisions \cup {Refused} BY <1>4 DEF Calls
<1>6. /\ x \in Calls /\ x.pc = "executed" /\ x.result = result /\ x.dec = call[t].dec
      /\ x.req = call[t].req
  <2>2. /\ AtEnd(call[t], "executed", result, TRUE) \in Calls
        /\ AtEnd(call[t], "executed", result, TRUE).pc = "executed" /\ AtEnd(call[t], "executed", result, TRUE).result = result
        /\ AtEnd(call[t], "executed", result, TRUE).req = call[t].req /\ AtEnd(call[t], "executed", result, TRUE).dec = call[t].dec
    BY <1>4, Executed
  <2>3. QED BY <1>1, <2>2
<1>7. Permits(x.dec) BY <1>4, <1>6 DEF CallOK, Running, Decided
<1>8. Approved(x.req, x.result) BY <1>6
<1>9. CallOK(x, home') BY <1>6, <1>7, <1>8 DEF CallOK, Decided
<1>10. CallsOK' BY <1>2, <1>9, OneCallMoves DEF BrokersInv
<1>11. PICK d : d = call[t].dec OBVIOUS
<1>12. ReceiptsOK' /\ ReceiptsMatch'
  <2>1. call[t].pc \notin EndPcs /\ x.pc \in EndPcs BY <1>6 DEF EndPcs, Running
  <2>2. "EXECUTED" = "EXECUTED" <=> x.pc = "executed" BY <1>6
  <2>3. QED BY <1>2, <1>5, <1>6, <1>11, <2>1, <2>2, OneReceipt DEF BrokersInv
<1>13. QED BY <1>10, <1>12 DEF BrokersInv

\* A call that has begun is in order.
LEMMA Begun ==
    ASSUME BrokersInv, NEW t \in Threads, call[t].pc \in Running
    PROVE  /\ call[t] # Idle /\ call[t] \in Calls /\ CallOK(call[t], home)
           /\ call[t].pc \notin EndPcs
BY DEF BrokersInv, CallsOK, Running, Idle, EndPcs

-----------------------------------------------------------------------------
(***************************************************************************)
(* The actions.                                                            *)
(***************************************************************************)

\* At first nothing runs, and the two files are where they belong.
LEMMA InitHolds == Init => BrokersInv
<1> SUFFICES ASSUME Init PROVE BrokersInv OBVIOUS
<1>1. CallsOK BY DEF Init, CallsOK
<1>2. FilesOK
  <2>1. 1 \in Inodes /\ 2 \in Inodes BY BrokersAssumption DEF Inodes
  <2>2. dir \in {"in", "out"} /\ home \in [Inodes -> {"in", "out"}] /\ data \in [Inodes -> Contents]
    BY DEF Init, Contents
  <2>3. entry \in [{"in", "out"} -> Inodes \cup {None, Link}] BY <2>1 DEF Init
  <2>4. \A i \in Inodes : data[i] # "written" /\ (home[i] = "in" => data[i] # "outside")
    BY DEF Init
  <2>5. QED BY <2>2, <2>3, <2>4 DEF FilesOK
<1>3. ReceiptsOK /\ ReceiptsMatch
  <2>1. receipts = <<>> /\ \A t \in Threads : call[t] = Idle BY DEF Init
  <2>2. \A t \in Threads : ~ Ended(t) BY <2>1 DEF Ended, At, Idle
  <2>3. \A t \in Threads : {i \in DOMAIN receipts : receipts[i].thread = t} = {} BY <2>1
  <2>4. Cardinality({}) = 0 BY FS_EmptySet
  <2>5. ReceiptsMatch BY <2>2, <2>3, <2>4 DEF ReceiptsMatch
  <2>6. QED BY <2>1, <2>5 DEF ReceiptsOK
<1>4. QED BY <1>1, <1>2, <1>3 DEF BrokersInv

\* A request is observed.
LEMMA ObserveKeeps ==
    ASSUME BrokersInv, NEW t \in Threads, NEW r \in Requests, observe(t, r)
    PROVE  BrokersInv'
<1>1. PICK x : x = [pc |-> "observed", req |-> r, dec |-> Refused, fd |-> None,
                    result |-> "none", touched |-> FALSE]
  OBVIOUS
<1>2. /\ call[t].pc = "idle" /\ call' = [call EXCEPT ![t] = x] /\ UNCHANGED <<receipts, fs>>
  BY <1>1 DEF observe, At
<1>3. /\ x.pc = "observed" /\ x.result = "none" /\ ~ x.touched BY <1>1
<1>4. x \in Calls BY <1>1 DEF Calls, Pcs, Results
<1>5. CallOK(x, home) BY <1>3, <1>4 DEF CallOK, Decided
<1>6. QED BY <1>2, <1>3, <1>5, GoesOn DEF EndPcs

\* The validator answers.
LEMMA AuthorizeKeeps ==
    ASSUME BrokersInv, NEW t \in Threads, authorize(t)
    PROVE  BrokersInv'
<1>1. call[t].pc = "observed" /\ UNCHANGED fs BY DEF authorize, At
<1>2. /\ call[t] \in Calls /\ CallOK(call[t], home) /\ call[t].pc \notin EndPcs
  BY <1>1, Begun DEF Running
<1>3. FilesOK' /\ home' = home BY <1>1, FilesRest DEF BrokersInv
<1>4. ASSUME NEW d \in Decisions \cup {Refused}, emit(t, d, "DENIED"),
             Finish(t, "denied", "none", FALSE)
      PROVE  BrokersInv'
  <2>1. PICK x : x = AtEnd(call[t], "denied", "none", FALSE) OBVIOUS
  <2>2. /\ call' = [call EXCEPT ![t] = x]
        /\ receipts' = Append(receipts, [thread |-> t, dec |-> d, outcome |-> "DENIED"])
    BY <1>4, <2>1 DEF emit, Finish, AtEnd
  <2>3. "denied" \in Pcs /\ "none" \in Results /\ FALSE \in BOOLEAN BY DEF Pcs, Results
  <2>4. /\ AtEnd(call[t], "denied", "none", FALSE) \in Calls
        /\ AtEnd(call[t], "denied", "none", FALSE).pc = "denied"
        /\ AtEnd(call[t], "denied", "none", FALSE).result = "none"
    BY <1>2, <2>3 DEF AtEnd, Calls
  <2>5. ~ AtEnd(call[t], "denied", "none", FALSE).touched
    <3>1. ~ call[t].touched BY <1>1, <1>2 DEF CallOK, Decided
    <3>2. QED BY <1>2, <3>1, Untouched
  <2>6. x \in Calls /\ x.pc = "denied" /\ x.result = "none" /\ ~ x.touched
    BY <2>1, <2>4, <2>5
  <2>7. CallOK(x, home') BY <2>6 DEF CallOK, Decided
  <2>8. CallsOK' BY <1>3, <2>2, <2>7, OneCallMoves DEF BrokersInv
  <2>9. ReceiptsOK' /\ ReceiptsMatch'
    <3>1. x.pc \in EndPcs /\ ("DENIED" = "EXECUTED" <=> x.pc = "executed")
      BY <2>6 DEF EndPcs
    <3>2. QED BY <1>2, <2>2, <2>6, <3>1, OneReceipt DEF BrokersInv
  <2>10. QED BY <1>3, <2>8, <2>9 DEF BrokersInv
<1>5. CASE Finish(t, "unbound", "none", FALSE) /\ UNCHANGED receipts
  <2>1. PICK x : x = AtEnd(call[t], "unbound", "none", FALSE) OBVIOUS
  <2>2. call' = [call EXCEPT ![t] = x] BY <1>5, <2>1 DEF Finish, AtEnd
  <2>3. "unbound" \in Pcs /\ "none" \in Results BY DEF Pcs, Results
  <2>4. /\ AtEnd(call[t], "unbound", "none", FALSE) \in Calls
        /\ AtEnd(call[t], "unbound", "none", FALSE).pc = "unbound"
        /\ AtEnd(call[t], "unbound", "none", FALSE).result = "none"
    BY <1>2, <2>3 DEF AtEnd, Calls
  <2>5. ~ AtEnd(call[t], "unbound", "none", FALSE).touched
    <3>1. ~ call[t].touched BY <1>1, <1>2 DEF CallOK, Decided
    <3>2. QED BY <1>2, <3>1, Untouched
  <2>6. x \in Calls /\ x.pc = "unbound" /\ x.result = "none" /\ ~ x.touched
    BY <2>1, <2>4, <2>5
  <2>7. CallOK(x, home) /\ x.pc \notin EndPcs BY <2>6 DEF CallOK, EndPcs, Decided
  <2>8. QED BY <1>1, <1>2, <1>5, <2>2, <2>7, GoesOn
<1>6. ASSUME NEW d \in Decisions, exact_match(d), d.effect = "ALLOW",
             call' = [call EXCEPT ![t] = [call[t] EXCEPT !.pc = "execute", !.dec = d]],
             UNCHANGED receipts
      PROVE  BrokersInv'
  <2>1. PICK x : x = [call[t] EXCEPT !.pc = "execute", !.dec = d] OBVIOUS
  <2>2. call' = [call EXCEPT ![t] = x] BY <1>6, <2>1
  <2>3. x \in Calls /\ x.pc = "execute" /\ x.dec = d /\ x.result = call[t].result
    BY <1>2, <2>1 DEF Calls, Pcs
  <2>4. x.result = "none" BY <1>1, <1>2, <2>3 DEF CallOK
  <2>5. CallOK(x, home) /\ x.pc \notin EndPcs
    BY <1>6, <2>3, <2>4 DEF CallOK, EndPcs, Decided, Permits
  <2>6. QED BY <1>1, <1>2, <1>6, <2>2, <2>5, GoesOn
<1>7. QED BY <1>4, <1>5, <1>6 DEF authorize

\* A step of the file broker that only moves on.
LEMMA FileStep ==
    ASSUME BrokersInv, NEW t \in Threads, NEW pc \in {"resolved", "verified"},
           call[t].pc \in {"execute", "opened"}, call[t].req.kind = "file",
           pc = "verified" => call[t].pc = "opened" /\ home[call[t].fd] = "in",
           call' = [call EXCEPT ![t] = [call[t] EXCEPT !.pc = pc]],
           UNCHANGED <<receipts, fs>>
    PROVE  BrokersInv'
<1>1. PICK x : x = [call[t] EXCEPT !.pc = pc] OBVIOUS
<1>2. /\ call[t] \in Calls /\ CallOK(call[t], home) /\ call[t].pc \notin EndPcs
  BY Begun DEF Running
<1>3. call' = [call EXCEPT ![t] = x] BY <1>1
<1>4. /\ x \in Calls /\ x.pc = pc /\ x.dec = call[t].dec /\ x.result = call[t].result
      /\ x.req = call[t].req /\ x.fd = call[t].fd
  BY <1>1, <1>2 DEF Calls, Pcs
<1>5. CallOK(x, home) /\ x.pc \notin EndPcs BY <1>2, <1>4 DEF CallOK, EndPcs, Decided
<1>6. QED BY <1>2, <1>3, <1>5, GoesOn

\* The path is resolved, or the descriptor verified.
LEMMA CheckKeeps ==
    ASSUME BrokersInv, NEW t \in Threads, Resolve(t) \/ Verify(t)
    PROVE  BrokersInv'
<1>1. UNCHANGED fs BY DEF Resolve, Verify
<1>2. FilesOK' /\ home' = home BY <1>1, FilesRest DEF BrokersInv
<1>3. ASSUME Fail(t, FALSE), call[t].pc \in {"execute", "opened"} PROVE BrokersInv'
  <2>1. FALSE \in BOOLEAN /\ call[t].pc \in Running \ {"observed"} BY <1>3 DEF Running
  <2>2. QED BY <1>2, <1>3, <2>1, Fails
<1>4. CASE Resolve(t)
  <2>1. call[t].pc = "execute" /\ call[t].req.kind = "file" BY <1>4 DEF Resolve, At
  <2>2. CASE Fail(t, FALSE) BY <1>3, <2>1, <2>2
  <2>3. CASE /\ call' = [call EXCEPT ![t] = [call[t] EXCEPT !.pc = "resolved"]]
             /\ UNCHANGED receipts
    BY <1>1, <2>1, <2>3, FileStep
  <2>4. QED BY <1>4, <2>2, <2>3 DEF Resolve
<1>5. CASE Verify(t)
  <2>1. call[t].pc = "opened" BY <1>5 DEF Verify, At
  <2>2. CASE Fail(t, FALSE) BY <1>3, <2>1, <2>2
  <2>3. CASE /\ descriptor_contained(call[t].fd)
             /\ call' = [call EXCEPT ![t] = [call[t] EXCEPT !.pc = "verified"]]
             /\ UNCHANGED receipts
    <3>1. call[t].req.kind = "file" BY <2>1, Begun DEF CallOK, Running
    <3>2. home[call[t].fd] = "in" BY <2>3 DEF descriptor_contained
    <3>3. QED BY <1>1, <2>1, <2>3, <3>1, <3>2, FileStep
  <2>4. QED BY <1>5, <2>2, <2>3 DEF Verify
<1>6. QED BY <1>4, <1>5

\* A file is opened: as it is, emptied, or new.
LEMMA OpenKeeps ==
    ASSUME BrokersInv, NEW t \in Threads, Open(t)
    PROVE  BrokersInv'
<1> DEFINE writing == call[t].req.op = "write"
           f == entry[dir]
<1>1. call[t].pc = "resolved" BY DEF Open, At
<1>2. /\ call[t] \in Calls /\ CallOK(call[t], home) /\ call[t].pc \notin EndPcs
  BY <1>1, Begun DEF Running
<1>3. /\ dir \in {"in", "out"} /\ entry \in [{"in", "out"} -> Inodes \cup {None, Link}]
      /\ home \in [Inodes -> {"in", "out"}] /\ data \in [Inodes -> Contents]
      /\ \A i \in Inodes : data[i] = "written" => home[i] = "in"
      /\ \A i \in Inodes : home[i] = "in" => data[i] # "outside"
  BY DEF BrokersInv, FilesOK
<1>4. ASSUME NEW i \in Inodes,
             call' = [call EXCEPT ![t] = [call[t] EXCEPT !.pc = "opened", !.fd = i,
                                                         !.touched = writing]],
             receipts' = receipts, FilesOK',
             \A u \in Threads \ {t} :
                 call[u] # Idle /\ call[u].fd \in Inodes =>
                     home'[call[u].fd] = home[call[u].fd]
      PROVE  BrokersInv'
  <2>1. PICK x : x = [call[t] EXCEPT !.pc = "opened", !.fd = i, !.touched = writing]
    OBVIOUS
  <2>2. call' = [call EXCEPT ![t] = x] BY <1>4, <2>1
  <2>3. writing \in BOOLEAN OBVIOUS
  <2> HIDE DEF writing
  <2>4. /\ x \in Calls /\ x.pc = "opened" /\ x.dec = call[t].dec /\ x.fd = i
        /\ x.result = call[t].result /\ x.req = call[t].req
    BY <1>2, <2>1, <2>3 DEF Calls, Pcs
  <2>5. CallOK(x, home') BY <1>1, <1>2, <2>4 DEF CallOK, Decided
  <2>6. CallsOK' BY <1>4, <2>2, <2>5, OneCallMoves DEF BrokersInv
  <2>7. x.pc \notin EndPcs BY <2>4 DEF EndPcs
  <2>8. ReceiptsOK' /\ ReceiptsMatch' BY <1>2, <1>4, <2>2, <2>7, NoReceipt DEF BrokersInv
  <2>9. QED BY <1>4, <2>6, <2>8 DEF BrokersInv
<1>5. CASE Fail(t, FALSE) /\ UNCHANGED fs
  <2>1. FALSE \in BOOLEAN /\ call[t].pc \in Running \ {"observed"} BY <1>1 DEF Running
  <2>2. FilesOK' /\ home' = home BY <1>5, FilesRest DEF BrokersInv
  <2>3. QED BY <1>5, <2>1, <2>2, Fails
<1>6. ASSUME NEW i \in FreeInodes,
             call' = [call EXCEPT ![t] = [call[t] EXCEPT !.pc = "opened", !.fd = i,
                                                         !.touched = writing]],
             entry' = [entry EXCEPT ![dir] = i], home' = [home EXCEPT ![i] = dir],
             data' = [data EXCEPT ![i] = "empty"], UNCHANGED <<receipts, dir, swaps>>
      PROVE  BrokersInv'
  <2>1. i \in Inodes /\ \A u \in Threads : call[u] # Idle => call[u].fd # i
    BY DEF FreeInodes
  <2>2. /\ home' \in [Inodes -> {"in", "out"}] /\ data' \in [Inodes -> Contents]
        /\ entry' \in [{"in", "out"} -> Inodes \cup {None, Link}]
    BY <1>3, <1>6, <2>1 DEF Contents
  <2>3. /\ data'[i] = "empty"
        /\ \A j \in Inodes \ {i} : data'[j] = data[j] /\ home'[j] = home[j]
    BY <1>3, <1>6, <2>1
  <2>4. FilesOK' BY <1>3, <1>6, <2>2, <2>3 DEF FilesOK
  <2>5. \A u \in Threads \ {t} : call[u] # Idle /\ call[u].fd \in Inodes =>
           home'[call[u].fd] = home[call[u].fd]
    BY <2>1, <2>3
  <2>6. QED BY <1>4, <1>6, <2>1, <2>4, <2>5
<1>7. ASSUME f \in Inodes,
             call' = [call EXCEPT ![t] = [call[t] EXCEPT !.pc = "opened", !.fd = f,
                                                         !.touched = writing]],
             data' = IF writing THEN [data EXCEPT ![f] = "empty"] ELSE data,
             UNCHANGED <<receipts, dir, entry, home, swaps>>
      PROVE  BrokersInv'
  <2>1. PICK i : i = f OBVIOUS
  <2>2. i \in Inodes BY <1>7, <2>1
  <2>3. data' \in [Inodes -> Contents] /\ \A j \in Inodes : data'[j] \in {data[j], "empty"}
    BY <1>3, <1>7, <2>1, <2>2 DEF Contents
  <2>4. FilesOK' BY <1>3, <1>7, <2>3 DEF FilesOK
  <2>5. QED BY <1>4, <1>7, <2>1, <2>2, <2>4
<1>8. QED
  <2>1. f \in Inodes \cup {None, Link} BY <1>3
  <2>2. CASE f = Link \/ (f = None /\ ~ writing)
    <3>1. Link # None BY BrokersAssumption DEF Link, None
    <3>2. Fail(t, FALSE) /\ UNCHANGED fs BY <2>2, <3>1 DEF Open, Where
    <3>3. QED BY <1>5, <3>2
  <2>3. CASE f = None /\ writing /\ f # Link
    <3>1. PICK i : i = CHOOSE j \in FreeInodes : TRUE OBVIOUS
    <3>2. /\ FreeInodes # {} /\ UNCHANGED <<receipts, dir, swaps>>
          /\ call' = [call EXCEPT ![t] = [call[t] EXCEPT !.pc = "opened", !.fd = i,
                                                         !.touched = writing]]
          /\ entry' = [entry EXCEPT ![dir] = i] /\ home' = [home EXCEPT ![i] = dir]
          /\ data' = [data EXCEPT ![i] = "empty"]
      BY <2>3, <3>1 DEF Open, Where
    <3>3. i \in FreeInodes BY <3>1, <3>2
    <3>4. QED BY <1>6, <3>2, <3>3
  <2>4. CASE f # None /\ f # Link
    <3>1. f \in Inodes BY <2>1, <2>4
    <3>2. /\ call' = [call EXCEPT ![t] = [call[t] EXCEPT !.pc = "opened", !.fd = f,
                                                         !.touched = writing]]
          /\ data' = IF writing THEN [data EXCEPT ![f] = "empty"] ELSE data
          /\ UNCHANGED <<receipts, dir, entry, home, swaps>>
      BY <2>4 DEF Open, Where
    <3>3. QED BY <1>7, <3>1, <3>2
  <2>5. QED BY <2>2, <2>3, <2>4

\* Bytes move through a verified descriptor.
LEMMA ReadOrWriteKeeps ==
    ASSUME BrokersInv, NEW t \in Threads, ReadOrWrite(t)
    PROVE  BrokersInv'
<1>1. call[t].pc = "verified" /\ UNCHANGED <<dir, entry, home, swaps>>
  BY DEF ReadOrWrite, At
<1>2. call[t].pc \in Running \ {"observed"} BY <1>1 DEF Running
<1>3. CallOK(call[t], home) BY <1>2, Begun
<1>4. call[t].fd \in Inodes /\ home[call[t].fd] = "in" /\ call[t].req.kind = "file"
  BY <1>1, <1>3 DEF CallOK
<1>5. PICK i : i = call[t].fd OBVIOUS
<1>6. i \in Inodes /\ home[i] = "in" BY <1>4, <1>5
<1>7. FilesOK BY DEF BrokersInv
<1>8. CASE Return(t, data[call[t].fd]) /\ UNCHANGED data
  <2>1. FilesOK' BY <1>1, <1>7, <1>8 DEF FilesOK
  <2>2. data[i] \in Contents /\ data[i] # "outside" BY <1>6, <1>7 DEF FilesOK
  <2>3. PICK result : result = data[i] OBVIOUS
  <2>4. result \in Results /\ Approved(call[t].req, result)
    BY <2>2, <2>3 DEF Results, Contents, Approved
  <2>5. Return(t, result) BY <1>5, <1>8, <2>3
  <2>6. QED BY <1>1, <1>2, <1>4, <2>1, <2>4, <2>5, Returns
<1>9. CASE Return(t, "digest") /\ data' = [data EXCEPT ![call[t].fd] = "written"]
  <2>1. data' = [data EXCEPT ![i] = "written"] BY <1>5, <1>9
  <2>2. /\ data' \in [Inodes -> Contents] /\ data'[i] = "written"
        /\ \A j \in Inodes \ {i} : data'[j] = data[j]
    BY <1>6, <1>7, <2>1 DEF FilesOK, Contents
  <2>3. FilesOK' BY <1>1, <1>6, <1>7, <2>2 DEF FilesOK
  <2>4. "digest" \in Results /\ Approved(call[t].req, "digest")
    BY DEF Results, Approved
  <2>5. QED BY <1>1, <1>2, <1>4, <1>9, <2>3, <2>4, Returns
<1>10. QED BY <1>8, <1>9 DEF ReadOrWrite

\* An entry is removed, or a system call fails.
LEMMA UnlinkKeeps ==
    ASSUME BrokersInv, NEW t \in Threads, Unlink(t) \/ SystemCallFails(t)
    PROVE  BrokersInv'
<1>1. call[t].pc \in {"resolved", "opened", "verified"} /\ UNCHANGED <<dir, home, data, swaps>>
  BY DEF Unlink, SystemCallFails, At, fs
<1>2. call[t].pc \in Running \ {"observed"} BY <1>1 DEF Running
<1>3. call[t].req.kind = "file" BY <1>1, <1>2, Begun DEF CallOK
<1>4. FilesOK BY DEF BrokersInv
<1>5. CASE Fail(t, FALSE) /\ UNCHANGED entry
  <2>1. FilesOK' BY <1>1, <1>4, <1>5 DEF FilesOK
  <2>2. FALSE \in BOOLEAN OBVIOUS
  <2>3. QED BY <1>1, <1>2, <1>5, <2>1, <2>2, Fails
<1>6. CASE Return(t, "path") /\ entry' = [entry EXCEPT ![Where] = None]
  <2>1. entry' \in [{"in", "out"} -> Inodes \cup {None, Link}]
    BY <1>4, <1>6 DEF FilesOK, Where
  <2>2. FilesOK' BY <1>1, <1>4, <2>1 DEF FilesOK
  <2>3. "path" \in Results /\ Approved(call[t].req, "path") BY DEF Results, Approved
  <2>4. QED BY <1>1, <1>2, <1>3, <1>6, <2>2, <2>3, Returns
<1>7. QED BY <1>5, <1>6 DEF Unlink, SystemCallFails, fs

\* Another process replaces an entry.
LEMMA SwapKeeps == ASSUME BrokersInv, Swap PROVE BrokersInv'
<1>1. UNCHANGED <<call, receipts, home, data>> BY DEF Swap
<1>2. FilesOK BY DEF BrokersInv
<1>3. dir' \in {"in", "out"} /\ entry' \in [{"in", "out"} -> Inodes \cup {None, Link}]
  <2>1. 1 \in Inodes BY BrokersAssumption DEF Inodes
  <2>2. CASE dir' \in {"in", "out"} \ {dir} /\ UNCHANGED entry BY <1>2, <2>2 DEF FilesOK
  <2>3. CASE entry' \in {[entry EXCEPT !["in"] = x] : x \in {1, None, Link}} /\ UNCHANGED dir
    <3>1. PICK x \in {1, None, Link} : entry' = [entry EXCEPT !["in"] = x] BY <2>3
    <3>2. x \in Inodes \cup {None, Link} BY <2>1
    <3>3. QED BY <1>2, <2>3, <3>1, <3>2 DEF FilesOK
  <2>4. QED BY <2>2, <2>3 DEF Swap
<1>4. FilesOK' BY <1>1, <1>2, <1>3 DEF FilesOK
<1>5. CallsOK' BY <1>1 DEF BrokersInv, CallsOK
<1>6. ReceiptsOK' /\ ReceiptsMatch'
  BY <1>1 DEF BrokersInv, ReceiptsOK, ReceiptsMatch, Ended, At
<1>7. QED BY <1>4, <1>5, <1>6 DEF BrokersInv

\* The effect of every other broker is one call downstream.
LEMMA ExecuteKeeps ==
    ASSUME BrokersInv, NEW t \in Threads, Execute(t)
    PROVE  BrokersInv'
<1>1. call[t].pc = "execute" /\ UNCHANGED fs BY DEF Execute, At
<1>2. call[t].pc \in Running \ {"observed"} BY <1>1 DEF Running
<1>3. FilesOK' /\ home' = home BY <1>1, FilesRest DEF BrokersInv
<1>4. PICK r : r = call[t].req OBVIOUS
<1>5. ASSUME NEW b \in BOOLEAN, Fail(t, b) PROVE BrokersInv' BY <1>2, <1>3, <1>5, Fails
<1>6. ASSUME NEW result \in Results, Approved(r, result), Return(t, result)
      PROVE  BrokersInv'
  BY <1>2, <1>3, <1>4, <1>6, Returns
<1>7. TRUE \in BOOLEAN /\ FALSE \in BOOLEAN OBVIOUS
<1>8. \A result \in {"response", "clean", "stdout", "redacted", "text"} :
         result \in Results /\ Approved(r, result)
  BY DEF Results, Approved
<1>9. ASSUME Egress(t, r) PROVE BrokersInv'
  <2>1. CASE Fail(t, FALSE) \/ Fail(t, TRUE) BY <1>5, <1>7, <2>1
  <2>2. CASE Return(t, "response") BY <1>6, <1>8, <2>2
  <2>3. QED BY <1>9, <2>1, <2>2 DEF Egress
<1>10. ASSUME Output(t, r) PROVE BrokersInv'
  <2>1. CASE Fail(t, FALSE) BY <1>5, <1>7, <2>1
  <2>2. CASE Return(t, "redacted") \/ Return(t, "text") BY <1>6, <1>8, <2>2
  <2>3. Shown(r) = "redacted" \/ Shown(r) = "text" BY DEF Shown
  <2>4. QED BY <1>10, <2>1, <2>2, <2>3 DEF Output
<1>11. ASSUME NEW results \in SUBSET {"clean", "secret"},
              Downstream(t, SecretForm(r), results)
       PROVE  BrokersInv'
  <2>1. CASE Fail(t, TRUE) BY <1>5, <1>7, <2>1
  <2>2. ASSUME NEW result \in results, ~ contains_secret(SecretForm(r), result),
               Return(t, result)
        PROVE  BrokersInv'
    <3>1. result \in Results /\ Approved(r, result)
      BY <1>11, <2>2 DEF contains_secret, Results, Approved
    <3>2. QED BY <1>6, <2>2, <3>1
  <2>3. QED BY <1>11, <2>1, <2>2 DEF Downstream
<1>12. ASSUME r.kind = "secret", Secret(t, r) PROVE BrokersInv'
  <2>1. CASE Fail(t, FALSE) BY <1>5, <1>7, <2>1
  <2>2. CASE Downstream(t, SecretForm(r), {"clean", "secret"}) BY <1>11, <2>2
  <2>3. QED BY <1>12, <2>1, <2>2 DEF Secret
<1>13. ASSUME r.kind = "mcp", Mcp(t, r) PROVE BrokersInv'
  <2>1. CASE Fail(t, FALSE) BY <1>5, <1>7, <2>1
  <2>2. CASE \/ Downstream(t, SecretForm(r), {"clean", "secret"})
             \/ Downstream(t, SecretForm(r), {"clean"})
    BY <1>11, <2>2
  <2>3. QED BY <1>13, <2>1, <2>2 DEF Mcp
<1>14. ASSUME r.kind = "process", Process(t, r) PROVE BrokersInv'
  <2>1. CASE Fail(t, FALSE) \/ Fail(t, TRUE) BY <1>5, <1>7, <2>1
  <2>2. CASE Return(t, "stdout") BY <1>6, <1>8, <1>14, <2>2
  <2>3. QED BY <1>14, <2>1, <2>2 DEF Process
<1>15. QED BY <1>4, <1>9, <1>10, <1>12, <1>13, <1>14 DEF Execute

-----------------------------------------------------------------------------
\* The inductive invariant holds under every interleaving of the brokers'
\* calls with one another and with other processes of the workspace.
THEOREM BrokersInvariant == Spec => []BrokersInv
<1>1. Init => BrokersInv BY InitHolds
<1>2. BrokersInv /\ [Next]_vars => BrokersInv'
  <2> SUFFICES ASSUME BrokersInv, [Next]_vars PROVE BrokersInv' OBVIOUS
  <2>1. ASSUME NEW t \in Threads, NEW r \in Requests, observe(t, r) PROVE BrokersInv'
    BY <2>1, ObserveKeeps
  <2>2. ASSUME NEW t \in Threads,
               \/ authorize(t) \/ Resolve(t) \/ Open(t) \/ Verify(t) \/ ReadOrWrite(t)
               \/ Unlink(t) \/ SystemCallFails(t) \/ Execute(t)
        PROVE  BrokersInv'
    BY <2>2, AuthorizeKeeps, CheckKeeps, OpenKeeps, ReadOrWriteKeeps, UnlinkKeeps,
       ExecuteKeeps
  <2>3. CASE Swap BY <2>3, SwapKeeps
  <2>4. CASE UNCHANGED vars
    <3>1. CallsOK' BY <2>4 DEF vars, BrokersInv, CallsOK
    <3>2. FilesOK' BY <2>4 DEF vars, BrokersInv, FilesOK
    <3>3. ReceiptsOK' BY <2>4 DEF vars, BrokersInv, ReceiptsOK
    <3>4. ReceiptsMatch' BY <2>4 DEF vars, BrokersInv, ReceiptsMatch, Ended, At
    <3>5. QED BY <3>1, <3>2, <3>3, <3>4 DEF BrokersInv
  <2>5. QED BY <2>1, <2>2, <2>3, <2>4 DEF Next
<1>3. QED BY <1>1, <1>2, PTL DEF Spec

\* Whatever is replaced between the file broker's system calls, no byte from
\* outside is returned and none of a request is written outside.
THEOREM BytesContainedHolds == Spec => []BytesContained
<1>1. BrokersInv => BytesContained
  <2> SUFFICES ASSUME BrokersInv PROVE BytesContained OBVIOUS
  <2>1. ASSUME NEW t \in Threads, call[t] # Idle PROVE call[t].result # "outside"
    <3>1. CallOK(call[t], home) BY <2>1 DEF BrokersInv, CallsOK
    <3>2. QED BY <3>1 DEF CallOK, Approved
  <2>2. QED BY <2>1 DEF BytesContained, BrokersInv, FilesOK
<1>2. QED BY <1>1, BrokersInvariant, PTL

\* Whatever a call touched is on its one receipt; a call that was denied, or
\* that the exact match refused without a receipt, touched nothing.
THEOREM EffectsReceiptedHolds == Spec => []EffectsReceipted
<1>1. BrokersInv => EffectsReceipted
  <2> SUFFICES ASSUME BrokersInv PROVE EffectsReceipted OBVIOUS
  <2>1. ASSUME NEW t \in Threads, At(t, "denied") \/ At(t, "unbound")
        PROVE  ~ call[t].touched
    <3>1. call[t] # Idle /\ call[t].pc \notin Decided BY <2>1 DEF At, Idle, Decided
    <3>2. QED BY <3>1 DEF BrokersInv, CallsOK, CallOK
  <2>2. QED BY <2>1 DEF EffectsReceipted, BrokersInv
<1>2. QED BY <1>1, BrokersInvariant, PTL

\* Nothing is touched but under an ALLOW for this action, and no secret that
\* JSON writes as it is leaves with a result.
THEOREM OnlyApprovedLeavesHolds == Spec => []OnlyApprovedLeaves
<1>1. BrokersInv => OnlyApprovedLeaves
  <2> SUFFICES ASSUME BrokersInv, NEW t \in Threads, call[t] # Idle
               PROVE  /\ call[t].touched =>
                            /\ call[t].dec.effect = "ALLOW"
                            /\ call[t].dec.differs \subseteq
                                  call[t].dec.unconstrained \cap {"operation", "payload"}
                      /\ call[t].result = "secret" => SecretForm(call[t].req) # "plain"
    BY DEF OnlyApprovedLeaves
  <2>1. CallOK(call[t], home) BY DEF BrokersInv, CallsOK
  <2>2. ASSUME call[t].touched
        PROVE  /\ call[t].dec.effect = "ALLOW"
               /\ call[t].dec.differs \subseteq
                     call[t].dec.unconstrained \cap {"operation", "payload"}
    <3>1. Permits(call[t].dec) BY <2>1, <2>2 DEF CallOK
    <3>2. call[t].dec.differs \subseteq Fields BY <3>1, BrokersAssumption DEF Permits
    <3>3. QED BY <3>1, <3>2 DEF Permits, exact_match, Fields
  <2>3. call[t].result = "secret" => SecretForm(call[t].req) # "plain"
    BY <2>1 DEF CallOK, Approved
  <2>4. QED BY <2>2, <2>3
<1>2. QED BY <1>1, BrokersInvariant, PTL

=============================================================================

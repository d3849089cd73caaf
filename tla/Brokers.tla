------------------------------ MODULE Brokers -------------------------------
(***************************************************************************)
(* The specialised enforcement brokers: file, egress, output, secret, MCP  *)
(* and process (enforcement/*.py), each reached through the mediation flow *)
(* of enforcement/common.py.                                               *)
(*                                                                         *)
(* A thread mediates one request.  The validator is the injected protocol: *)
(* it refuses, or returns a decision that may differ from the action in    *)
(* any field.  The file broker works on a path  d/f  below the workspace   *)
(* root while other workspace processes replace d or f between its system  *)
(* calls; every other effect is one downstream call.                       *)
(***************************************************************************)
EXTENDS Naturals, Sequences, FiniteSets

CONSTANTS
    Threads,
    Requests,       \* requests the agents make
    Decisions,      \* what the validator may return
    Refused,        \* the validator raises
    MaxBytes,       \* EgressConfig.max_bytes
    MaxInodes,      \* bound on the files the file system can hold
    MaxSwaps        \* bound on what workspace processes replace

\* What _assert_exact_match compares a decision with its action in.
Fields == {"hash", "target", "operation", "payload"}

ASSUME BrokersAssumption ==
    /\ MaxBytes \in Nat /\ MaxInodes \in Nat /\ MaxInodes >= 2
    /\ \A d \in Decisions : d.differs \subseteq Fields

VARIABLES
    call,           \* per thread: [pc, req, dec, fd, result, touched]
    receipts,       \* the receipts emitted, in order
    dir,            \* entry d of the root: "in" (a directory) or "out" (a link)
    entry,          \* entry f of the directory inside and the one outside
    home, data,     \* of each inode: its directory and its content
    swaps

vars == <<call, receipts, dir, entry, home, data, swaps>>
fs == <<dir, entry, home, data, swaps>>

Classes == {"PUBLIC", "INTERNAL", "CONFIDENTIAL", "SECRET"}
None == 0
Inodes == 1..MaxInodes  \* 1 and 2: f inside and outside before anything runs
Link == MaxInodes + 1   \* f is a symbolic link to the file outside

Idle == [pc |-> "idle"]

Init ==
    /\ call = [t \in Threads |-> Idle]
    /\ receipts = <<>>
    /\ dir = "in"
    /\ entry = [d \in {"in", "out"} |-> IF d = "in" THEN 1 ELSE 2]
    /\ home = [i \in Inodes |-> IF i = 1 THEN "in" ELSE "out"]
    /\ data = [i \in Inodes |-> IF i = 1 THEN "inside" ELSE "outside"]
    /\ swaps = 0

At(t, pc) == call[t].pc = pc

\* _emit
emit(t, decision, outcome) ==
    receipts' = Append(receipts,
        [thread |-> t, dec |-> decision, outcome |-> outcome])

Finish(t, pc, result, touched) ==
    call' = [call EXCEPT ![t] = [call[t] EXCEPT !.pc = pc, !.result = result,
                                                !.touched = @ \/ touched]]

\* observe refuses what it cannot turn into an action: an unknown operation,
\* a malformed URL, an empty argv.  Nothing is recorded of it.
observable(r) ==
    CASE r.kind = "file" -> r.op \in {"read", "write", "delete"}
      [] r.kind = "egress" -> r.host # "malformed"
      [] r.kind = "process" -> r.command # "empty"
      [] OTHER -> TRUE

observe(t, r) ==
    /\ At(t, "idle")
    /\ observable(r)
    /\ call' = [call EXCEPT ![t] =
           [pc |-> "observed", req |-> r, dec |-> Refused, fd |-> None,
            result |-> "none", touched |-> FALSE]]
    /\ UNCHANGED <<receipts, fs>>

\* _assert_exact_match: a decision that differs where it constrains.
exact_match(d) ==
    /\ d.differs \cap {"hash", "target"} = {}
    /\ d.differs \subseteq d.unconstrained

\* authorize, the exact match and the effect; no shared state lies between.
authorize(t) ==
    /\ At(t, "observed")
    /\ \/ /\ emit(t, Refused, "DENIED")
          /\ Finish(t, "denied", "none", FALSE)
       \/ \E d \in Decisions :
             \/ /\ ~exact_match(d)
                /\ Finish(t, "unbound", "none", FALSE)
                /\ UNCHANGED receipts
             \/ /\ exact_match(d) /\ d.effect # "ALLOW"
                /\ emit(t, d, "DENIED")
                /\ Finish(t, "denied", "none", FALSE)
             \/ /\ exact_match(d) /\ d.effect = "ALLOW"
                /\ call' = [call EXCEPT ![t] = [call[t] EXCEPT !.pc = "execute", !.dec = d]]
                /\ UNCHANGED receipts
    /\ UNCHANGED fs

Return(t, result) ==
    /\ emit(t, call[t].dec, "EXECUTED")
    /\ Finish(t, "executed", result, TRUE)

\* As if an exception of _execute were passed on without a receipt.
MutNoReceipt(t, touched) ==
    /\ UNCHANGED receipts
    /\ Finish(t, "failed", "none", touched)

\* _execute raises: FAILED, whatever the effect did before.
Fail(t, touched) ==
    /\ emit(t, call[t].dec, "FAILED")
    /\ Finish(t, "failed", "none", touched)

-----------------------------------------------------------------------------
\* File broker

\* _safe_resolve: where the path leads, links followed, must be inside.
safe_resolve(path) ==
    /\ path = "d/f"             \* neither absolute nor through ..
    /\ dir = "in"
    /\ entry["in"] # Link

Resolve(t) ==
    /\ At(t, "execute") /\ call[t].req.kind = "file"
    /\ IF safe_resolve(call[t].req.path)
       THEN /\ call' = [call EXCEPT ![t] = [call[t] EXCEPT !.pc = "resolved"]]
            /\ UNCHANGED receipts
       ELSE Fail(t, FALSE)
    /\ UNCHANGED fs

\* The directory the resolved path leads to at the time of a system call.
Where == dir

FreeInodes ==
    {i \in Inodes : /\ i \notin {entry["in"], entry["out"], 1, 2}
                    /\ \A t \in Threads : call[t] # Idle => call[t].fd # i}

\* os.open with O_NOFOLLOW; a write creates or truncates as part of it.
Open(t) ==
    /\ At(t, "resolved") /\ call[t].req.op \in {"read", "write"}
    /\ LET f == entry[Where]
           writing == call[t].req.op = "write"
           Opened(i) == call' = [call EXCEPT ![t] =
               [call[t] EXCEPT !.pc = "opened", !.fd = i, !.touched = writing]]
       IN CASE f = Link \/ (f = None /\ ~writing) ->
                 Fail(t, FALSE) /\ UNCHANGED fs
            [] f = None /\ writing ->
                 LET i == CHOOSE j \in FreeInodes : TRUE
                 IN /\ FreeInodes # {}
                    /\ Opened(i)
                    /\ entry' = [entry EXCEPT ![Where] = i]
                    /\ home' = [home EXCEPT ![i] = Where]
                    /\ data' = [data EXCEPT ![i] = "empty"]
                    /\ UNCHANGED <<receipts, dir, swaps>>
            [] OTHER ->
                 /\ Opened(f)
                 /\ data' = IF writing THEN [data EXCEPT ![f] = "empty"] ELSE data
                 /\ UNCHANGED <<receipts, dir, entry, home, swaps>>

\* As if the descriptor were trusted.
MutTrustDescriptor(fd) == TRUE

\* The realpath of /proc/self/fd/n is below the root.
descriptor_contained(fd) == home[fd] = "in"

Verify(t) ==
    /\ At(t, "opened")
    /\ IF descriptor_contained(call[t].fd)
       THEN /\ call' = [call EXCEPT ![t] = [call[t] EXCEPT !.pc = "verified"]]
            /\ UNCHANGED receipts
       ELSE Fail(t, FALSE)
    /\ UNCHANGED fs

\* A read answers with the hash of what it read, which tells contents apart.
ReadOrWrite(t) ==
    /\ At(t, "verified")
    /\ IF call[t].req.op = "read"
       THEN Return(t, data[call[t].fd]) /\ UNCHANGED data
       ELSE Return(t, "digest") /\ data' = [data EXCEPT ![call[t].fd] = "written"]
    /\ UNCHANGED <<dir, entry, home, swaps>>

\* Any system call on the resolved path may fail for reasons of its own.
SystemCallFails(t) ==
    /\ At(t, "resolved") \/ At(t, "opened") \/ At(t, "verified")
    /\ Fail(t, FALSE)
    /\ UNCHANGED fs

\* os.unlink removes the entry, a link included.
Unlink(t) ==
    /\ At(t, "resolved") /\ call[t].req.op = "delete"
    /\ IF entry[Where] = None
       THEN Fail(t, FALSE) /\ UNCHANGED entry
       ELSE Return(t, "path") /\ entry' = [entry EXCEPT ![Where] = None]
    /\ UNCHANGED <<dir, home, data, swaps>>

\* Another process of the workspace replaces d, or f inside it.
Swap ==
    /\ swaps < MaxSwaps
    /\ swaps' = swaps + 1
    /\ \/ dir' \in {"in", "out"} \ {dir} /\ UNCHANGED entry
       \/ /\ entry' \in {[entry EXCEPT !["in"] = x] : x \in {1, None, Link}}
          /\ entry' # entry
          /\ UNCHANGED dir
    /\ UNCHANGED <<call, receipts, home, data>>

-----------------------------------------------------------------------------
\* Egress proxy, output proxy, secret broker, MCP gateway, process broker

is_internal_host(host) == host = "internal"

\* allow_secret_egress_external is at its default, FALSE.
egress_denied(r) ==
    \/ r.size > MaxBytes
    \/ ~is_internal_host(r.host) /\ r.host # "listed"
    \/ ~is_internal_host(r.host) /\ r.class \in {"SECRET", "CONFIDENTIAL"}

\* The sender may raise.
Egress(t, r) ==
    IF egress_denied(r) THEN Fail(t, FALSE)
    ELSE Return(t, "response") \/ Fail(t, TRUE)

\* _decide
decide(r) ==
    IF "credential" \in r.marks \/ r.class = "SECRET" THEN "DENY"
    ELSE IF "pii" \in r.marks \/ r.class = "CONFIDENTIAL" THEN "REDACT"
    ELSE "ALLOW"

\* What is handed back: the text, or the text with every match replaced.
Shown(r) == IF decide(r) = "REDACT" THEN "redacted" ELSE "text"

Output(t, r) ==
    IF decide(r) = "DENY" THEN Fail(t, FALSE) ELSE Return(t, Shown(r))

\* As if the serialized result were not searched.
MutNoSearch(form, result) == FALSE

\* The secret is looked for in the JSON text of the result, where a newline, a
\* quote, a backslash or a non-ASCII character is escaped: a secret that has
\* one ("escaped") is not found there.
contains_secret(form, result) == result = "secret" /\ form = "plain"

\* A downstream operation or handler runs with the secret and raises, or
\* returns a result that may contain it; where it is found it is withheld.
Downstream(t, form, results) ==
    \/ Fail(t, TRUE)
    \/ \E result \in results :
          IF contains_secret(form, result) THEN Fail(t, TRUE) ELSE Return(t, result)

\* The form of the secret behind a handle, or of the credential of a server.
SecretForm(r) ==
    CASE r.kind = "secret" -> r.handle
      [] r.kind = "mcp" -> r.server

disclosure_op(op) == op \in {"reveal", "read", "read_secret", "get", "export"}

Secret(t, r) ==
    IF disclosure_op(r.op) \/ r.handle = "unknown" \/ r.op = "unregistered"
    THEN Fail(t, FALSE)
    ELSE Downstream(t, SecretForm(r), {"clean", "secret"})

\* An unmapped logical server is refused; the sanitizer may strip the result.
Mcp(t, r) ==
    IF r.server = "unmapped" THEN Fail(t, FALSE)
    ELSE \E sanitized \in BOOLEAN :
            Downstream(t, SecretForm(r), IF sanitized THEN {"clean"} ELSE {"clean", "secret"})

\* _resolve_command, then the child: it runs, times out or does not spawn.
Process(t, r) ==
    IF r.command # "listed" THEN Fail(t, FALSE)
    ELSE Return(t, "stdout") \/ Fail(t, TRUE) \/ Fail(t, FALSE)

Execute(t) ==
    /\ At(t, "execute")
    /\ LET r == call[t].req
       IN CASE r.kind = "egress" -> Egress(t, r)
            [] r.kind = "output" -> Output(t, r)
            [] r.kind = "secret" -> Secret(t, r)
            [] r.kind = "mcp" -> Mcp(t, r)
            [] r.kind = "process" -> Process(t, r)
            [] OTHER -> FALSE
    /\ UNCHANGED fs

Next ==
    \/ \E t \in Threads :
          \/ \E r \in Requests : observe(t, r)
          \/ authorize(t)
          \/ Resolve(t) \/ Open(t) \/ Verify(t) \/ ReadOrWrite(t) \/ Unlink(t)
          \/ SystemCallFails(t)
          \/ Execute(t)
    \/ Swap

Spec == Init /\ [][Next]_vars

-----------------------------------------------------------------------------
\* The ends of a call at which a receipt is emitted.  A call that the exact
\* match refuses ends without one ("unbound").
Ended(t) == At(t, "executed") \/ At(t, "failed") \/ At(t, "denied")

\* Whatever workspace processes replace between the broker's system calls, a
\* read returns no byte of a file outside the root and no content of a request
\* is written outside it.
BytesContained ==
    /\ \A t \in Threads : call[t] # Idle => call[t].result # "outside"
    /\ \A i \in Inodes : data[i] = "written" => home[i] = "in"

\* A call that was denied, failed or executed has exactly one receipt, any
\* other has none; a call that touched anything has a receipt with the decision
\* it ran under, which is not DENIED.
ReceiptsMatch ==
    \A t \in Threads :
        LET mine == {i \in DOMAIN receipts : receipts[i].thread = t}
        IN /\ Cardinality(mine) = IF Ended(t) THEN 1 ELSE 0
           /\ \A i \in mine :
                 /\ receipts[i].outcome = "EXECUTED" <=> At(t, "executed")
                 /\ call[t].touched =>
                       /\ receipts[i].outcome # "DENIED"
                       /\ receipts[i].dec = call[t].dec

\* No effect goes unrecorded: once a call is over, whatever it touched (a file
\* opened for writing, a downstream operation that then failed or whose result
\* was withheld) is on its one receipt, under the decision it ran with; a call
\* that ends without a receipt, refused by the exact match, or with a DENIED
\* one, touched nothing.
EffectsReceipted ==
    /\ ReceiptsMatch
    /\ \A t \in Threads : At(t, "denied") \/ At(t, "unbound") => ~call[t].touched

\* A broker touches nothing, not even in a call that then fails, unless the
\* validator decided ALLOW for this action, differing at most in an operation
\* or a payload the decision does not constrain; and a secret that JSON writes
\* character by character as it is leaves with no result.
OnlyApprovedLeaves ==
    \A t \in Threads : call[t] # Idle =>
        /\ call[t].touched =>
              /\ call[t].dec.effect = "ALLOW"
              /\ call[t].dec.differs
                     \subseteq call[t].dec.unconstrained \cap {"operation", "payload"}
        /\ call[t].result = "secret" => SecretForm(call[t].req) # "plain"

=============================================================================

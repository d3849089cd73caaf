----------------------------- MODULE MCBrokers ------------------------------
(* Requests of every broker, decisions of every kind. *)
EXTENDS Brokers, TLC

MCRequests ==
    [kind : {"file"}, op : {"read", "write", "delete"}, path : {"d/f"}]
    \cup [kind : {"file"}, op : {"read"}, path : {"absolute"}]
    \cup [kind : {"egress"}, host : {"internal", "listed", "other"},
          size : {MaxBytes, MaxBytes + 1}, class : {"INTERNAL", "CONFIDENTIAL"}]
    \cup [kind : {"output"}, marks : SUBSET {"credential", "pii"},
          class : {"INTERNAL", "CONFIDENTIAL", "SECRET"}]
    \cup [kind : {"secret"}, handle : {"plain", "escaped", "unknown"},
          op : {"reveal", "use", "unregistered"}]
    \cup [kind : {"mcp"}, server : {"plain", "escaped", "unmapped"}]
    \cup [kind : {"process"}, command : {"listed", "unlisted"}]

Decision(effect, differs, unconstrained) ==
    [effect |-> effect, differs |-> differs, unconstrained |-> unconstrained]

MCDecisions ==
    {Decision("ALLOW", {}, {}), Decision("DENY", {}, {}),
     Decision("ALLOW", {"hash"}, {}), Decision("ALLOW", {"operation"}, {}),
     Decision("ALLOW", {"payload"}, {"operation", "payload"})}

SymmetricThreads == Permutations(Threads)

=============================================================================

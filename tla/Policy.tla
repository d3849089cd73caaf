------------------------------- MODULE Policy -------------------------------
(***************************************************************************)
(* The hard policy: the grant derived from a delegation (opa_input.py) and *)
(* the decision authz.rego takes on an action under that grant.            *)
(*                                                                         *)
(* A resource is covered by a scope when the scope is a prefix of it; only *)
(* that relation matters, so it is the constant Covers.  A field an action *)
(* leaves out is Absent: in rego a comparison with an undefined value does *)
(* not hold, and neither does membership of one.                           *)
(***************************************************************************)
EXTENDS Naturals, FiniteSets

CONSTANTS
    Covers,             \* pairs <<scope, resource>>: the scope is a prefix
    NetworkAllowlist,   \* policy configuration, the same for every grant
    MaxRows, MaxBytes,
    Absent

ASSUME LimitsAssumption == MaxRows \in Nat /\ MaxBytes \in Nat

Classifications == {"PUBLIC", "INTERNAL", "CONFIDENTIAL", "SECRET"}

class_rank == [PUBLIC |-> 0, INTERNAL |-> 1, CONFIDENTIAL |-> 2, SECRET |-> 3]

static_cap ==
    [FILE_READ |-> "fs:read", MEMORY_READ |-> "memory:read",
     FILE_WRITE |-> "fs:write", FILE_DELETE |-> "fs:write",
     MEMORY_WRITE |-> "memory:write", NETWORK_REQUEST |-> "net:external",
     API_REQUEST |-> "net:external", EXTERNAL_MESSAGE |-> "net:external",
     AGENT_MESSAGE |-> "agent:message", USER_OUTPUT |-> "output:user",
     TOOL_CALL |-> "tool:call", MCP_CALL |-> "tool:call",
     CLOUD_CONTROL_ACTION |-> "cloud:control", PROCESS_EXEC |-> "shell:exec",
     SHELL_EXEC |-> "shell:exec", CODE_EXECUTION |-> "shell:exec",
     SECRET_ACCESS |-> "secret:read", FHE_ENCRYPT |-> "fhe:encrypt",
     FHE_COMPUTE |-> "fhe:compute", FHE_DECRYPT_REQUEST |-> "fhe:decrypt",
     FHE_PARTIAL_DECRYPT |-> "fhe:decrypt",
     FHE_COMBINE_DECRYPT |-> "fhe:decrypt", FHE_REENCRYPT |-> "fhe:compute",
     FHE_KEY_ROTATE |-> "fhe:admin", FHE_CONTEXT_CREATE |-> "fhe:admin"]

required_capability(act) ==
    IF act.action_type = "DB_OPERATION"
    THEN IF act.operation = "read" THEN "db:read" ELSE "db:write"
    ELSE IF act.action_type \in DOMAIN static_cap
         THEN static_cap[act.action_type]
         ELSE "unknown:capability"

is_network(act) ==
    act.action_type \in {"NETWORK_REQUEST", "API_REQUEST", "EXTERNAL_MESSAGE"}
is_shell(act) ==
    act.action_type \in {"PROCESS_EXEC", "SHELL_EXEC", "CODE_EXECUTION"}
is_secret(act) == act.action_type = "SECRET_ACCESS"
is_decrypt(act) ==
    act.action_type \in {"FHE_DECRYPT_REQUEST", "FHE_PARTIAL_DECRYPT",
                         "FHE_COMBINE_DECRYPT"}
is_write(act) ==
    \/ act.action_type \in {"FILE_WRITE", "FILE_DELETE", "MEMORY_WRITE"}
    \/ act.action_type = "DB_OPERATION" /\ act.operation # "read"

\* The boolean gates follow from the delegated capabilities.
grant_from_delegation(d) ==
    [capabilities |-> d.capabilities,
     resource_scopes |-> d.resource_scopes,
     clearance |-> d.clearance,
     allow_external_network |-> "net:external" \in d.capabilities,
     shell_permitted |-> "shell:exec" \in d.capabilities,
     secret_access_permitted |-> "secret:read" \in d.capabilities]

\* As if no scope meant every resource.
MutEmptyScopeIsAll(act, grant) ==
    \/ grant.resource_scopes = {}
    \/ \E s \in grant.resource_scopes : <<s, act.resource>> \in Covers

scope_covered(act, grant) ==
    \E s \in grant.resource_scopes : <<s, act.resource>> \in Covers

Exceeds(value, limit) == value # Absent /\ value > limit

\* The reasons for a hard DENY that hold of the action.
violation(act, grant) ==
    {v \in {"CAPABILITY_MISSING", "SCOPE_NOT_COVERED", "CLEARANCE_INSUFFICIENT",
            "EXTERNAL_NETWORK_FORBIDDEN", "DOMAIN_NOT_ALLOWLISTED",
            "SHELL_FORBIDDEN", "SECRET_ACCESS_FORBIDDEN",
            "DB_ROW_LIMIT_EXCEEDED", "EXTERNAL_BYTE_LIMIT_EXCEEDED"} :
        \/ v = "CAPABILITY_MISSING"
           /\ required_capability(act) \notin grant.capabilities
        \/ v = "SCOPE_NOT_COVERED" /\ ~scope_covered(act, grant)
        \/ v = "CLEARANCE_INSUFFICIENT"
           /\ class_rank[act.data_classification] > class_rank[grant.clearance]
        \/ v = "EXTERNAL_NETWORK_FORBIDDEN"
           /\ is_network(act) /\ ~grant.allow_external_network
        \/ v = "DOMAIN_NOT_ALLOWLISTED"
           /\ is_network(act) /\ act.destination_domain \notin NetworkAllowlist
        \/ v = "SHELL_FORBIDDEN" /\ is_shell(act) /\ ~grant.shell_permitted
        \/ v = "SECRET_ACCESS_FORBIDDEN"
           /\ is_secret(act) /\ ~grant.secret_access_permitted
        \/ v = "DB_ROW_LIMIT_EXCEEDED" /\ Exceeds(act.row_count, MaxRows)
        \/ v = "EXTERNAL_BYTE_LIMIT_EXCEEDED"
           /\ Exceeds(act.byte_count, MaxBytes)}

allow(act, grant) == violation(act, grant) = {}

risk_level(act) ==
    IF is_shell(act) \/ is_secret(act) \/ is_decrypt(act) THEN 4
    ELSE IF is_write(act) \/ is_network(act) THEN 3
    ELSE IF class_rank[act.data_classification] >= 2
            \/ act.action_type \in {"FILE_READ", "DB_OPERATION", "MEMORY_READ"}
         THEN 2
    ELSE IF class_rank[act.data_classification] >= 1 THEN 1 ELSE 0

\* What the plane acts on: the controls a risk level adds.
decision(act, grant) ==
    [allow |-> allow(act, grant),
     risk_level |-> risk_level(act),
     require_gnark_authz |-> risk_level(act) >= 3,
     require_behavior_check |-> risk_level(act) >= 2,
     require_ezkl |-> risk_level(act) >= 3,
     require_human_approval |-> risk_level(act) >= 4]

=============================================================================

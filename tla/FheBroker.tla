----------------------------- MODULE FheBroker ------------------------------
(***************************************************************************)
(* The FHE context and program registries and the client of the native     *)
(* broker (cac/context.py, program.py, envelope.py, broker.py), for one    *)
(* context identifier.                                                     *)
(*                                                                         *)
(* A key is the set of secret shares it is the sum of; the single-key mode *)
(* has one share, of the party BrokerParty.  The hash of a context is over *)
(* its declared parameters and not over its keys, so the declaration       *)
(* stands for the hash.  Every call of the native broker is a step of its  *)
(* own, and each may fail or be killed by its timeout part of the way.     *)
(***************************************************************************)
EXTENDS Naturals, Sequences, FiniteSets

CONSTANTS
    Threads, NoJob,
    Declarations,       \* [key_epoch, multiplicative_depth]
    Statuses,           \* statuses a declaration is registered with
    NoContext,
    BrokerParty,
    BrokerGens,         \* bound on the broker's own key generations
    AllowedSets,        \* allowed_programs arguments of encrypt
    MaxInputs, MaxResults   \* bounds on ciphertext files

VARIABLES
    registered,     \* the declaration _by_id holds, and its status
    dir,            \* the key files of the context directory
    files,          \* ciphertext files, each with its envelope
    gens,           \* keys the broker has generated by itself
    job             \* what each thread is doing

brokerVars == <<registered, dir, files, gens, job>>

\* default_programs: what each allowlisted program consumes.
ProgramDepth == [SUM_V1 |-> 0, AVERAGE_V1 |-> 1, WEIGHTED_SCORE_V1 |-> 1]
Programs == DOMAIN ProgramDepth

NoKey == {}

BrokerInit ==
    /\ registered = [decl |-> NoContext, status |-> "RETIRED"]
    /\ dir = [pub |-> NoKey, sec |-> NoKey, eval |-> NoKey]
    /\ files = <<>>
    /\ gens = 0
    /\ job = [t \in Threads |-> NoJob]

Idle(t) == job[t] = NoJob
Doing(t, op) == job[t] # NoJob /\ job[t].op = op
Start(t, j) == Idle(t) /\ job' = [job EXCEPT ![t] = j]
End(t) == job' = [job EXCEPT ![t] = NoJob]

\* FHEContextRegistry.register replaces whatever the identifier had.
register(d, status) ==
    /\ registered' = [decl |-> d, status |-> status]
    /\ UNCHANGED <<dir, files, gens, job>>

\* provision_context registers first, then generates the artifacts.
provision_context(t, d) ==
    /\ Start(t, [op |-> "provision", decl |-> d])
    /\ registered' = [decl |-> d, status |-> "ACTIVE"]
    /\ UNCHANGED <<dir, files, gens>>

Share(p, n) == {[party |-> p, n |-> n]}

\* gen-context writes the public, the secret and the evaluation keys in this
\* order; it may stop after any of them.
GenContext(t) ==
    LET key == Share(BrokerParty, gens + 1) IN
    /\ Doing(t, "provision")
    /\ gens < BrokerGens
    /\ \/ dir' = dir
       \/ dir' = [dir EXCEPT !.pub = key]
       \/ dir' = [dir EXCEPT !.pub = key, !.sec = key]
       \/ dir' = [dir EXCEPT !.pub = key, !.sec = key, !.eval = key]
    /\ gens' = gens + 1
    /\ End(t)
    /\ UNCHANGED <<registered, files>>

require_active(d) == registered.decl = d /\ registered.status = "ACTIVE"

\* The context is looked up here; the broker reads the key files later.
encrypt(t, expected, allowed) ==
    /\ require_active(expected)
    /\ Start(t, [op |-> "encrypt", ctx |-> expected, allowed |-> allowed])
    /\ UNCHANGED <<registered, dir, files, gens>>

Inputs == {i \in DOMAIN files : files[i].parent = 0}

\* _run raises (the broker is missing, times out, exits non-zero or prints no
\* JSON) or the output is oversized and removed.  No envelope is made, so a
\* file that was written is never used.
RunFails == UNCHANGED files

\* The broker fails without a public key.
RunEncrypt(t) ==
    /\ Doing(t, "encrypt")
    /\ \/ RunFails
       \/ /\ dir.pub # NoKey
          /\ Cardinality(Inputs) < MaxInputs
          /\ files' = Append(files,
                 [key |-> dir.pub, ctx |-> job[t].ctx, allowed |-> job[t].allowed,
                  parent |-> 0, sound |-> TRUE])
    /\ End(t)
    /\ UNCHANGED <<registered, dir, gens>>

\* _verify_inputs for a program of arity one: a dataset's envelope (a result
\* has no allowed programs), the same context and epoch, the same bytes.
VerifyInput(i, program, d) ==
    /\ files[i].parent = 0
    /\ files[i].ctx = d
    /\ program \in files[i].allowed

\* An allowlisted program that fits the depth of the context.
require(program, context_depth) ==
    /\ program \in Programs
    /\ ProgramDepth[program] <= context_depth

evaluate(t, expected, program, i) ==
    /\ require_active(expected)
    /\ require(program, expected.multiplicative_depth)
    /\ VerifyInput(i, program, expected)
    /\ Start(t, [op |-> "evaluate", ctx |-> expected, input |-> i])
    /\ UNCHANGED <<registered, dir, files, gens>>

\* With evaluation keys of another secret the result is noise.
RunEvaluate(t) ==
    LET input == files[job[t].input] IN
    /\ Doing(t, "evaluate")
    /\ \/ RunFails
       \/ /\ dir.eval # NoKey
          /\ Len(files) - Cardinality(Inputs) < MaxResults
          /\ files' = Append(files,
                 [key |-> input.key, ctx |-> job[t].ctx, allowed |-> {},
                  parent |-> job[t].input,
                  sound |-> input.sound /\ dir.eval = input.key])
    /\ End(t)
    /\ UNCHANGED <<registered, dir, gens>>

\* Single-key decryption looks at neither the context nor the envelope.
decrypt(t, i) ==
    /\ dir.sec # NoKey
    /\ Start(t, [op |-> "values", file |-> i, by |-> {BrokerParty},
                 right |-> files[i].sound /\ files[i].key = dir.sec])
    /\ UNCHANGED <<registered, dir, files, gens>>

BrokerNext(t) ==
    \/ \E d \in Declarations :
          \/ provision_context(t, d)
          \/ \E allowed \in AllowedSets : encrypt(t, d, allowed)
          \/ \E p \in Programs, i \in DOMAIN files : evaluate(t, d, p, i)
    \/ \E i \in DOMAIN files : decrypt(t, i)
    \/ GenContext(t) \/ RunEncrypt(t) \/ RunEvaluate(t)

=============================================================================

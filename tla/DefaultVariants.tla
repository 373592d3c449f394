--------------------------- MODULE DefaultVariants ---------------------------
(***************************************************************************)
(* Default variants for the product templates that have none               *)
(* (lib/actions/variant_manager.py): the workflow create-missing-variants, *)
(* and the check after an import, which makes them with                    *)
(* --fix-missing-variants and else warns.  Commands overlap: each searches *)
(* first and acts on what it has found.                                    *)
(***************************************************************************)
EXTENDS Integers, FiniteSets

CONSTANTS
    Command,      \* commands under way
    Template,     \* product templates, 1 .. n
    BatchSize,    \* variants to a create call, 200 in the code
    Unique,       \* whether the server refuses a second default variant
    MaxFaults     \* bound: calls that fail or whose answer is lost

VARIABLES
    variants,   \* server: template -> its default variants
    kind,       \* command -> workflow, dry run, fix or warn
    scope,      \* command -> the templates of its domain, or of its id map
    at,         \* command -> where it is
    todo,       \* command -> templates found and not dealt with
    batch,      \* command -> templates of a failed batch, to be tried singly
    created, failed,   \* command -> its counts
    found,      \* command -> the templates it found
    told,       \* command -> what it reported: none, ok, failed
    faults

vars == <<variants, kind, scope, at, todo, batch, created, failed, found, told, faults>>

Init ==
    /\ variants \in [Template -> {0, 1}]
    /\ kind \in [Command -> {"workflow", "dry run", "fix", "warn"}]
    /\ scope \in [Command -> SUBSET Template]
    /\ at = [c \in Command |-> "search"]
    /\ todo = [c \in Command |-> {}] /\ batch = [c \in Command |-> {}]
    /\ created = [c \in Command |-> 0] /\ failed = [c \in Command |-> 0]
    /\ found = [c \in Command |-> {}] /\ told = [c \in Command |-> "none"]
    /\ faults = 0

Fault == faults < MaxFaults /\ faults' = faults + 1
Go(c, place) == at' = [at EXCEPT ![c] = place]
-----------------------------------------------------------------------------
Orphans(c) == {t \in scope[c] : variants[t] = 0}

Find(c) ==
    /\ at[c] = "search"
    /\ found' = [found EXCEPT ![c] = Orphans(c)]
    /\ IF Orphans(c) = {} \/ kind[c] \in {"warn", "dry run"}
       THEN Go(c, "over") /\ told' = [told EXCEPT ![c] = "ok"] /\ UNCHANGED todo
       ELSE Go(c, "create") /\ todo' = [todo EXCEPT ![c] = Orphans(c)] /\ UNCHANGED told
    /\ UNCHANGED <<variants, kind, scope, batch, created, failed, faults>>

(* No connection, or the search fails: the check after an import goes on.  *)
FindFails(c) ==
    /\ at[c] = "search" /\ Fault
    /\ told' = [told EXCEPT ![c] = IF kind[c] \in {"fix", "warn"} THEN "none" ELSE "failed"]
    /\ Go(c, "over")
    /\ UNCHANGED <<variants, kind, scope, todo, batch, created, failed, found>>

Batch(c) == {t \in todo[c] : Cardinality({u \in todo[c] : u <= t}) <= BatchSize}
Makeable(some) == Unique => \A t \in some : variants[t] = 0
Make(some) == variants' = [t \in Template |-> variants[t] + IF t \in some THEN 1 ELSE 0]

CreateBatch(c) ==
    /\ at[c] = "create" /\ todo[c] # {} /\ batch[c] = {}
    /\ Makeable(Batch(c)) /\ Make(Batch(c))
    /\ created' = [created EXCEPT ![c] = @ + Cardinality(Batch(c))]
    /\ todo' = [todo EXCEPT ![c] = @ \ Batch(c)]
    /\ UNCHANGED <<kind, scope, at, batch, failed, found, told, faults>>

(* A call that raises: the server refuses, or does not do it, or does it   *)
(* and the answer is lost.                                                 *)
Raises(some) ==
    \/ ~Makeable(some) /\ UNCHANGED <<variants, faults>>
    \/ Fault /\ UNCHANGED variants
    \/ Makeable(some) /\ Fault /\ Make(some)

(* The templates of a batch that failed are tried one by one.              *)
BatchFails(c) ==
    /\ at[c] = "create" /\ todo[c] # {} /\ batch[c] = {}
    /\ Raises(Batch(c))
    /\ batch' = [batch EXCEPT ![c] = Batch(c)]
    /\ todo' = [todo EXCEPT ![c] = @ \ Batch(c)]
    /\ UNCHANGED <<kind, scope, at, created, failed, found, told>>

NextOne(c) == CHOOSE t \in batch[c] : \A u \in batch[c] : t <= u

CreateOne(c) ==
    /\ batch[c] # {} /\ Makeable({NextOne(c)}) /\ Make({NextOne(c)})
    /\ batch' = [batch EXCEPT ![c] = @ \ {NextOne(c)}]
    /\ created' = [created EXCEPT ![c] = @ + 1]
    /\ UNCHANGED <<kind, scope, at, todo, failed, found, told, faults>>

CountedNever(n) == n
Counted(n) == n + 1

OneFails(c) ==
    /\ batch[c] # {} /\ Raises({NextOne(c)})
    /\ batch' = [batch EXCEPT ![c] = @ \ {NextOne(c)}]
    /\ failed' = [failed EXCEPT ![c] = Counted(@)]
    /\ UNCHANGED <<kind, scope, at, todo, created, found, told>>

(* The check after an import does not say what failed.                     *)
Report(c) ==
    /\ at[c] = "create" /\ todo[c] = {} /\ batch[c] = {}
    /\ told' = [told EXCEPT ![c] = IF kind[c] = "fix" THEN "none"
                                   ELSE IF failed[c] = 0 THEN "ok" ELSE "failed"]
    /\ Go(c, "over")
    /\ UNCHANGED <<variants, kind, scope, todo, batch, created, failed, found, faults>>

Next ==
    \E c \in Command :
        \/ Find(c) \/ FindFails(c) \/ CreateBatch(c) \/ BatchFails(c) \/ CreateOne(c)
        \/ OneFails(c) \/ Report(c)

Spec == Init /\ [][Next]_vars
-----------------------------------------------------------------------------
TypeOK ==
    /\ variants \in [Template -> 0 .. 1 + 2 * Cardinality(Command)]
    /\ kind \in [Command -> {"workflow", "dry run", "fix", "warn"}]
    /\ at \in [Command -> {"search", "create", "over"}]
    /\ {scope, found, todo, batch} \subseteq [Command -> SUBSET Template]
    /\ \A c \in Command :
          todo[c] \subseteq found[c] /\ batch[c] \subseteq found[c] /\ found[c] \subseteq scope[c]
    /\ {created, failed} \subseteq [Command -> 0 .. Cardinality(Template)]
    /\ told \in [Command -> {"none", "ok", "failed"}]
    /\ faults \in 0 .. MaxFaults

(* A command that is over accounts for each template it found, and what it *)
(* says of them is so: after "ok" every template of its domain has a       *)
(* variant, unless it was only asked to look.                              *)
EveryTemplateCounted ==
    \A c \in Command : at[c] = "over" =>
        /\ kind[c] \in {"workflow", "fix"} => created[c] + failed[c] = Cardinality(found[c])
        /\ kind[c] = "workflow" /\ told[c] = "ok" => \A t \in scope[c] : variants[t] > 0

(* A template gets a second default variant only from a server that allows *)
(* it, when two commands had found it or an answer was lost.               *)
OneVariantEach ==
    \A t \in Template : variants[t] > 1 =>
        ~Unique /\ (faults > 0 \/ Cardinality({c \in Command : t \in found[c]}) > 1)

VariantsAreSound == TypeOK /\ EveryTemplateCounted /\ OneVariantEach
-----------------------------------------------------------------------------
(***************************************************************************)
(* What keeps itself true, step by step, and implies VariantsAreSound.     *)
(***************************************************************************)
Fixes(c) == kind[c] \in {"workflow", "fix"}

(* A template that a command has found is to do, in a failed batch or      *)
(* counted, and only those of a command that makes variants are.           *)
CountsHold ==
    \A c \in Command :
        /\ at[c] = "search" => found[c] = {}
        /\ at[c] # "over" => told[c] = "none"
        /\ at[c] # "create" => todo[c] = {} /\ batch[c] = {}
        /\ todo[c] \cap batch[c] = {}
        /\ IF Fixes(c)
           THEN created[c] + failed[c] + Cardinality(todo[c] \cup batch[c]) =
                    Cardinality(found[c])
           ELSE at[c] # "create" /\ created[c] = 0 /\ failed[c] = 0

(* What a workflow has not made it has still to do, or has counted.        *)
ScopeHolds ==
    \A c \in Command :
        kind[c] = "workflow" /\ at[c] # "search" =>
            /\ told[c] = "ok" => failed[c] = 0
            /\ told[c] # "failed" /\ failed[c] = 0 =>
                  \A t \in scope[c] : variants[t] > 0 \/ t \in todo[c] \cup batch[c]

(* A command makes a variant of a template at most in its batch and once   *)
(* more after it, the latter only when something has failed.               *)
Tried(t) == {c \in Command : t \in found[c] \ todo[c]}
Retried(t) == {c \in Command : t \in found[c] \ (todo[c] \cup batch[c])}

VariantsHold ==
    \A t \in Template :
        /\ variants[t] <= 1 + Cardinality(Tried(t)) + Cardinality(Retried(t))
        /\ Unique => variants[t] <= 1
        /\ ~Unique /\ faults = 0 =>
              /\ \A c \in Command : batch[c] = {}
              /\ (\E c \in Command : t \in found[c]) => variants[t] <= Cardinality(Tried(t))

VariantsInv == TypeOK /\ CountsHold /\ ScopeHolds /\ VariantsHold
=============================================================================

------------------------------- MODULE FlowRun -------------------------------
(***************************************************************************)
(* fluvo --flow-file (lib/flow.py, lib/flow_runner.py; __main__.py:        *)
(* run_project_flow, _run_flow_step, _render_flow_summary): the variables  *)
(* of a flow file are resolved, its flows are selected, and their steps    *)
(* run one after the other, each a command in this same process.  The text *)
(* of a variable is the sequence of variables it refers to.                *)
(***************************************************************************)
EXTENDS Integers, Sequences, Slicing

CONSTANTS
    Name,       \* names of variables
    Texts,      \* vars blocks: name -> text, for the names declared
    Override,   \* texts an --var or the environment may give a name
    MaxDepth,   \* _MAX_VAR_DEPTH, 25 in the code
    Flows,      \* flow files: [names, steps], the names of the flows and the steps of
                \* all of them, each [flow, command, onError, flowOnError, file]
    FailFile,   \* fail files of import steps
    MaxFaults   \* bound: steps that end in an error

VARIABLES
    raw,        \* _effective_raw_vars: name -> its text
    resolving,  \* the stack of resolve_one: [name, at]
    resolved,   \* name -> the names whose texts went into its value
    flows,      \* the flows of the file and their steps
    selected,   \* the steps to run, in order
    phase,      \* vars, run or over
    error,      \* what made the file invalid, or "none"
    results,    \* the steps that have run: [step, ok, rows]
    fates,      \* history: what became of each step
    onDisk,     \* fail file -> the number of rows on it
    aborted, exit, faults

vars == <<raw, resolving, resolved, flows, selected, phase, error, results, fates,
          onDisk, aborted, exit, faults>>

(* The declared names and those given by --var; --var goes before the      *)
(* environment, which goes before the file.                                *)
Effective(declared, cli, env) ==
    [n \in DOMAIN declared \cup DOMAIN cli |->
       IF n \in DOMAIN cli THEN cli[n]
       ELSE IF n \in DOMAIN env THEN env[n] ELSE declared[n]]

Overrides == {<< >>} \cup UNION {[{n} -> Override] : n \in Name}

Init ==
    /\ \E declared \in Texts, cli, env \in Overrides : raw = Effective(declared, cli, env)
    /\ flows \in Flows
    /\ resolving = << >> /\ resolved = << >> /\ selected = << >>
    /\ phase = "vars" /\ error = "none" /\ results = << >> /\ fates = << >>
    /\ onDisk \in [FailFile -> {0, 1}] /\ aborted = FALSE /\ exit = -1 /\ faults = 0
-----------------------------------------------------------------------------
(***************************************************************************)
(* resolve_one, in whatever order the names of a set come.                 *)
(***************************************************************************)
Fail(reason) == error' = reason /\ phase' = "over" /\ exit' = 1
Top == resolving[Len(resolving)]
Stacked == {resolving[i].name : i \in DOMAIN resolving}

(* The text is interpolated from left to right.                            *)
ToResolve ==
    IF resolving = << >> THEN DOMAIN raw \ DOMAIN resolved
    ELSE IF Top.at <= Len(raw[Top.name]) THEN {raw[Top.name][Top.at]} ELSE {}

Skip ==
    /\ resolving # << >>
    /\ \E n \in ToResolve \cap DOMAIN resolved :
          resolving' = [resolving EXCEPT ![Len(resolving)].at = @ + 1]
    /\ UNCHANGED <<resolved, phase, error, exit>>

Cyclic(n) == n \in Stacked

Enter ==
    \E n \in ToResolve \ DOMAIN resolved :
        IF Cyclic(n) THEN Fail("cycle") /\ UNCHANGED <<resolving, resolved>>
        ELSE IF n \notin DOMAIN raw THEN Fail("undefined") /\ UNCHANGED <<resolving, resolved>>
        ELSE IF Len(resolving) >= MaxDepth
             THEN Fail("depth") /\ UNCHANGED <<resolving, resolved>>
             ELSE /\ resolving' = Append(resolving, [name |-> n, at |-> 1])
                  /\ UNCHANGED <<resolved, phase, error, exit>>

Refs(n) == {raw[n][i] : i \in DOMAIN raw[n]}

(* The text itself, and the values of what it refers to.                   *)
ValueOf(n) == {n} \cup UNION {resolved[m] : m \in Refs(n)}

Return ==
    /\ resolving # << >> /\ ToResolve = {}
    /\ resolved' = [n \in DOMAIN resolved \cup {Top.name} |->
                      IF n = Top.name THEN ValueOf(n) ELSE resolved[n]]
    /\ resolving' = SubSeq(resolving, 1, Len(resolving) - 1)
    /\ UNCHANGED <<phase, error, exit>>

Resolve ==
    /\ phase = "vars" /\ (Skip \/ Enter \/ Return)
    /\ UNCHANGED <<raw, flows, selected, results, fates, onDisk, aborted, faults>>

(* Then the flows: names once each, and those asked for, in file order; a  *)
(* dry run only prints them.                                               *)
Distinct == \A i, j \in DOMAIN flows.names : flows.names[i] = flows.names[j] => i = j

StepsOf(asked) ==
    {i \in DOMAIN flows.steps : asked = {} \/ flows.names[flows.steps[i].flow] \in asked}

Select ==
    /\ phase = "vars" /\ resolving = << >> /\ DOMAIN resolved = DOMAIN raw
    /\ IF ~Distinct THEN Fail("flow") /\ UNCHANGED selected
       ELSE \E asked \in SUBSET {flows.names[i] : i \in DOMAIN flows.names} :
              \/ /\ selected' = ItemsAt(flows.steps, StepsOf(asked))
                 /\ phase' = "run" /\ UNCHANGED <<error, exit>>
              \/ Fail("no such flow") /\ UNCHANGED selected
              \/ phase' = "over" /\ exit' = 0 /\ UNCHANGED <<selected, error>>
    /\ UNCHANGED <<raw, resolving, resolved, flows, results, fates, onDisk, aborted, faults>>
-----------------------------------------------------------------------------
(***************************************************************************)
(* The steps.  A command is done; or some of its rows or records fail; or  *)
(* it ends at once, unable to do anything ("fatal"); or it is given        *)
(* arguments it returns at once for ("rejected"); or it raises.            *)
(***************************************************************************)
Fates == {"done", "partial", "fatal", "rejected", "raised"}

ExitCode(command, fate) ==
    CASE fate = "done" -> 0
      [] fate = "partial" -> IF command \in {"migrate", "export"} THEN 1 ELSE 0
      [] fate = "fatal" -> IF command \in {"import", "export"} THEN 1 ELSE 0
      [] fate = "rejected" -> 0
      [] fate = "raised" -> 1

(* Only an import that begins writes its fail file anew.                   *)
Rows(step, fate) ==
    IF step.command = "import" /\ fate \in {"done", "partial"}
    THEN [onDisk EXCEPT ![step.file] = IF fate = "partial" THEN 1 ELSE 0] ELSE onDisk

StopsByFlow(step, ok) == ~ok /\ step.flowOnError = "abort"
Stops(step, ok) == ~ok /\ step.onError = "abort"

Step(fate) ==
    /\ phase = "run" /\ Len(results) < Len(selected) /\ ~aborted
    /\ IF fate = "done" THEN UNCHANGED faults ELSE faults < MaxFaults /\ faults' = faults + 1
    /\ LET step == selected[Len(results) + 1]
           ok == ExitCode(step.command, fate) = 0
       IN  /\ onDisk' = Rows(step, fate)
           /\ results' = Append(results, [step |-> step, ok |-> ok,
                 rows |-> IF step.command = "import" THEN onDisk'[step.file] ELSE 0])
           /\ aborted' = Stops(step, ok)
    /\ fates' = Append(fates, fate)
    /\ UNCHANGED <<raw, resolving, resolved, flows, selected, phase, error, exit>>

AnyFailed == \E i \in DOMAIN results : ~results[i].ok

Finish ==
    /\ phase = "run" /\ (aborted \/ Len(results) = Len(selected))
    /\ phase' = "over" /\ exit' = IF AnyFailed THEN 1 ELSE 0
    /\ UNCHANGED <<raw, resolving, resolved, flows, selected, error, results, fates, onDisk,
                   aborted, faults>>

Next ==
    \/ Resolve \/ Select \/ Finish
    \/ \E fate \in Fates : Step(fate)

Spec == Init /\ [][Next]_vars
-----------------------------------------------------------------------------
VarsTypeOK ==
    /\ DOMAIN raw \subseteq Name /\ \A n \in DOMAIN raw : raw[n] \in Seq(Name)
    /\ resolving \in Seq([name : DOMAIN raw, at : Nat]) /\ Len(resolving) <= MaxDepth
    /\ \A i \in DOMAIN resolving : resolving[i].at \in 1 .. Len(raw[resolving[i].name]) + 1
    /\ resolved \in [DOMAIN resolved -> SUBSET Name] /\ DOMAIN resolved \subseteq DOMAIN raw

RunTypeOK ==
    /\ flows \in Flows /\ selected \in Seq({flows.steps[i] : i \in DOMAIN flows.steps})
    /\ phase \in {"vars", "run", "over"} /\ aborted \in BOOLEAN /\ exit \in -1 .. 1
    /\ error \in {"none", "cycle", "undefined", "depth", "flow", "no such flow"}
    /\ results \in Seq([step : {selected[i] : i \in DOMAIN selected}, ok : BOOLEAN,
                        rows : {0, 1}])
    /\ fates \in Seq(Fates) /\ Len(results) <= Len(selected) /\ Len(fates) = Len(results)
    /\ onDisk \in [FailFile -> {0, 1}] /\ faults \in 0 .. MaxFaults

TypeOK == VarsTypeOK /\ RunTypeOK

(* The names a name leads to: those in every set that has what its text    *)
(* refers to and, with a name, what that one's text refers to.             *)
Closed(S) == \A m \in S \cap DOMAIN raw : Refs(m) \subseteq S
Leads(n) == {x \in Name : \A S \in SUBSET Name : Refs(n) \subseteq S /\ Closed(S) => x \in S}

Cycle == \E n \in DOMAIN raw : n \in Leads(n)
Dangling == \E n \in DOMAIN raw : ~(Refs(n) \subseteq DOMAIN raw)
TooDeep ==
    \E chain \in [0 .. MaxDepth -> DOMAIN raw] :
        \A i \in 1 .. MaxDepth : chain[i] \in Refs(chain[i - 1])

(* Whatever order the names come in: a file with a cycle or a reference to *)
(* a name that is not there is refused, one without, no deeper than the    *)
(* limit, is accepted, and then every reference has been replaced.         *)
VarsAreRight ==
    /\ phase = "run" =>
          /\ ~Cycle /\ ~Dangling
          /\ \A n \in DOMAIN raw : n \in DOMAIN resolved /\ resolved[n] = {n} \cup Leads(n)
    /\ error = "cycle" => Cycle
    /\ error = "undefined" => Dangling
    /\ error = "depth" => TooDeep

(* The steps that ran are the first ones of those selected, in their       *)
(* order: up to the first that failed and whose own on_error says abort,   *)
(* or all; and the exit code is 0 only if the file was valid and each of   *)
(* them ended with exit code 0.                                            *)
RunsAsWritten ==
    phase = "over" /\ error = "none" =>
        /\ \A i \in DOMAIN results : results[i].step = selected[i]
        /\ \A i \in 1 .. Len(results) - 1 :
              results[i].ok \/ results[i].step.onError = "continue"
        /\ \/ Len(results) = Len(selected)
           \/ ~results[Len(results)].ok /\ results[Len(results)].step.onError = "abort"
        /\ exit = 0 <=> \A i \in DOMAIN results : results[i].ok

(* The failed rows the summary lists for a step that began its import are  *)
(* those of this run.                                                      *)
RowsAreOfThisRun ==
    \A i \in DOMAIN results :
        results[i].step.command = "import" /\ fates[i] \in {"done", "partial"} =>
            results[i].rows = IF fates[i] = "partial" THEN 1 ELSE 0

FlowIsSound == TypeOK /\ VarsAreRight /\ RunsAsWritten /\ RowsAreOfThisRun

(* A step that could do nothing at all stops the flow.                     *)
FatalStepStops ==
    \A i \in DOMAIN fates :
        fates[i] = "fatal" /\ selected[i].onError = "abort" => i = Len(fates) /\ aborted
-----------------------------------------------------------------------------
(* What makes FlowIsSound inductive.  A name on the stack leads to those   *)
(* above it and waits for the next one; what comes before in its text has  *)
(* a value.                                                                *)
StackHolds ==
    /\ \A i \in DOMAIN resolving :
          /\ resolving[i].name \notin DOMAIN resolved
          /\ \A k \in 1 .. resolving[i].at - 1 : raw[resolving[i].name][k] \in DOMAIN resolved
    /\ \A i, j \in DOMAIN resolving : i < j =>
          /\ resolving[i].name # resolving[j].name
          /\ resolving[j].name \in Leads(resolving[i].name)
    /\ \A i \in 1 .. Len(resolving) - 1 :
          /\ resolving[i].at <= Len(raw[resolving[i].name])
          /\ raw[resolving[i].name][resolving[i].at] = resolving[i + 1].name

(* The names with a value lead only to names with a value, and not to      *)
(* themselves.                                                             *)
ValuesHold ==
    /\ \A n \in DOMAIN resolved :
          /\ Refs(n) \subseteq DOMAIN resolved
          /\ n \notin Leads(n) /\ resolved[n] = {n} \cup Leads(n)
    /\ phase = "run" => DOMAIN resolved = DOMAIN raw

(* A flow goes on exactly until a step that fails says to abort.           *)
StepsHold ==
    /\ phase = "vars" => error = "none" /\ selected = << >>
    /\ results = << >> => ~aborted
    /\ \A i \in DOMAIN results :
          /\ results[i].step = selected[i]
          /\ IF i = Len(results) THEN aborted = Stops(results[i].step, results[i].ok)
             ELSE ~Stops(results[i].step, results[i].ok)
    /\ phase = "over" /\ error = "none" =>
          /\ aborted \/ Len(results) = Len(selected)
          /\ exit = IF AnyFailed THEN 1 ELSE 0

FlowInv == TypeOK /\ VarsAreRight /\ StackHolds /\ ValuesHold /\ StepsHold /\ RowsAreOfThisRun
=============================================================================

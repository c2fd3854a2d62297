--------------------------- MODULE WorkflowSource ---------------------------
(***************************************************************************)
(* A directory workflow from its files to the dispatch of its steps: the   *)
(* parser reads the files one by one (pkg/parser), validates what it has   *)
(* read, the engine fingerprints the tree, again file by file              *)
(* (pkg/source), records the digest or compares it with the recorded one   *)
(* (checkSourceIntegrity), and then looks up what each step names.         *)
(* Somebody may edit the tree at any time.                                 *)
(*                                                                         *)
(* A file is the record of what it defines; YAML is external.  Workflows   *)
(* have one step, which is what dispatch tells apart.  SHA-256 is taken    *)
(* to be injective: a digest is what it was made of.                       *)
(***************************************************************************)
EXTENDS Integers, Sequences, FiniteSets, FiniteSetsExt, SequencesExt

CONSTANTS
    Trees,       \* the trees a run may start from: functions on File
    Contents,    \* Contents[f]: what an edit may make of file f
    Executor,    \* the keys of buildExecutors
    MaxEdits,    \* bound: edits of the tree
    MaxAttempts  \* bound: the run and its resumes

(* ParseDir reads in this order; the rule file when all else is read. *)
ReadOrder == <<"meta.yaml", "vars.yaml", "vars/x.yaml", "rules.yaml",
               "step_types.yaml", "step_types/x.yaml",
               "workflows/a.yaml", "workflows/b.yaml", "gate/rules.yaml">>

(* Tree sorts by path. *)
HashOrder == <<"gate/rules.yaml", "meta.yaml", "rules.yaml", "scripts/run.py",
               "step_types.yaml", "step_types/x.yaml", "vars.yaml", "vars/x.yaml",
               "workflows/a.yaml", "workflows/b.yaml">>

File == ToSet(HashOrder)

ASSUME SourceAssumption ==
    /\ \A t \in Trees : t = [f \in File |-> t[f]]
    /\ DOMAIN Contents = File
    /\ "gate" \notin Executor
    /\ MaxEdits \in Nat /\ MaxAttempts \in Nat \ {0}

VARIABLES
    tree,     \* the files
    edits,    \* how many edits there were
    at,       \* where the process is
    next,     \* the next file to read or to hash
    read,     \* what the parser has read so far
    hashed,   \* what the fingerprint has read so far
    wf,       \* the WorkflowFile
    mode,     \* --source-integrity
    run,      \* the run's row: its entrypoint and digest
    looked,   \* the tree when its last file was hashed
    began,    \* the WorkflowFile of the first attempt, and its looked
    attempt,
    quiet,    \* nobody edited the tree while it was parsed and hashed,
              \* in the first attempt and in this one
    found     \* what the last dispatch found

vars == <<tree, edits, at, next, read, hashed, wf, mode, run, looked, began, attempt,
          quiet, found>>

None == [ok |-> FALSE]
NoRun == [entrypoint |-> "none", digest |-> <<>>]

Init ==
    /\ tree \in Trees
    /\ edits = 0
    /\ at = "read" /\ next = 1
    /\ read = <<>> /\ hashed = <<>>
    /\ wf = None /\ looked = None /\ began = None
    /\ mode \in {"warn", "strict", "off"}
    /\ run = NoRun
    /\ attempt = 1
    /\ quiet = [first |-> TRUE, now |-> TRUE]
    /\ found = "nothing"

Looking == at \in {"read", "hash"}

Edit(f, c) ==
    /\ edits < MaxEdits
    /\ c # tree[f]
    /\ tree' = [tree EXCEPT ![f] = c]
    /\ edits' = edits + 1
    /\ quiet' = [first |-> quiet.first /\ ~ (Looking /\ attempt = 1),
                 now |-> quiet.now /\ ~ Looking]
    /\ UNCHANGED <<at, next, read, hashed, wf, mode, run, looked, began, attempt, found>>

-----------------------------------------------------------------------------
(* The parser. *)

(* f with the values of g where g has any *)
Over(g, f) == [k \in DOMAIN f \cup DOMAIN g |-> IF k \in DOMAIN g THEN g[k] ELSE f[k]]

primitives == Executor \cup {"gate", "load_artifact", "set_fact", "assert",
                             "k8s_job", "k8s_job_wait", "llm_invoke", "jev"}

Readable(r) == \A f \in DOMAIN r : r[f].ok

(* readVars, readStepTypes: a name may be defined in one file only. *)
NoDuplicates(r) ==
    /\ r["vars.yaml"].names \cap r["vars/x.yaml"].names = {}
    /\ DOMAIN r["step_types.yaml"].types \cap DOMAIN r["step_types/x.yaml"].types = {}

(* loadRuleFiles: an entry with a file stands for the rules in it. *)
Rules(r) ==
    FlattenSeq([i \in DOMAIN r["rules.yaml"].rules |->
        IF r["rules.yaml"].rules[i] = "file" THEN r["gate/rules.yaml"].rules
        ELSE <<r["rules.yaml"].rules[i]>>])

(* the WorkflowFile that ParseDir puts together *)
Parsed(r) ==
    [ok |-> TRUE,
     entrypoint |-> r["meta.yaml"].entrypoint,
     rules |-> Rules(r),
     stepTypes |-> Over(r["step_types/x.yaml"].types, r["step_types.yaml"].types),
     workflows |-> <<r["workflows/a.yaml"].workflow, r["workflows/b.yaml"].workflow>>]

Names(w) == {w.workflows[i].name : i \in DOMAIN w.workflows}

(* Mutant: only literal gates of the entrypoint are looked at *)
ValidStepNoRules(w, s) ==
    /\ s.workflow # "" => s.templated \/ s.workflow \in Names(w)
    /\ s.workflow = "" => s.type # ""
    /\ s.type # "" => s.type \in primitives \cup DOMAIN w.stepTypes

(* validateSteps, of one step: the reference to a workflow, unless it is a *)
(* template, the type, and the rules of a step declared as a gate.         *)
ValidStep(w, s) ==
    /\ s.workflow # "" => s.templated \/ s.workflow \in Names(w)
    /\ s.workflow = "" => s.type # ""
    /\ s.type # "" => s.type \in primitives \cup DOMAIN w.stepTypes
    /\ s.type = "gate" => s.rules # {} /\ s.rules \subseteq ToSet(w.rules)

validate(w) ==
    /\ w.entrypoint \in Names(w)
    /\ IsInjective(w.rules)
    /\ Cardinality(Names(w)) = Len(w.workflows)
    /\ \A i \in DOMAIN w.workflows : ValidStep(w, w.workflows[i].step)

ReadFile ==
    /\ at = "read"
    /\ next <= Len(ReadOrder)
    /\ read' = Over([f \in {ReadOrder[next]} |-> tree[f]], read)
    /\ next' = next + 1
    /\ UNCHANGED <<tree, edits, at, hashed, wf, mode, run, looked, began, attempt, quiet, found>>

(* A file that cannot be read or decoded, a duplicate or what validate     *)
(* finds ends the command.                                                 *)
Accepted == Readable(read) /\ NoDuplicates(read) /\ validate(Parsed(read))

ParseDir ==
    /\ at = "read"
    /\ next > Len(ReadOrder)
    /\ IF Accepted
         THEN /\ wf' = Parsed(read)
              /\ at' = IF attempt > 1 /\ mode = "off" THEN "check" ELSE "hash"
         ELSE wf' = None /\ at' = "refused"
    /\ next' = 1
    /\ read' = <<>>
    /\ UNCHANGED <<tree, edits, hashed, mode, run, looked, began, attempt, quiet, found>>

-----------------------------------------------------------------------------
(* The fingerprint. *)

(* Mutant: the scripts, which the parser never reads, are left out *)
InDigestNoScripts == File \ {"scripts/run.py"}

(* every regular file under the root *)
InDigest == File

HashFile ==
    /\ at = "hash"
    /\ next <= Len(HashOrder)
    /\ hashed' = Over([f \in {HashOrder[next]} \cap InDigest |-> tree[f]], hashed)
    /\ next' = next + 1
    /\ UNCHANGED <<tree, edits, at, read, wf, mode, run, looked, began, attempt, quiet, found>>

Hashed ==
    /\ at = "hash"
    /\ next > Len(HashOrder)
    /\ next' = 1
    /\ at' = "check"
    /\ looked' = tree
    /\ UNCHANGED <<tree, edits, read, hashed, wf, mode, run, began, attempt, quiet, found>>

(* Run: the digest goes into the row. *)
CreateRun ==
    /\ at = "check" /\ attempt = 1
    /\ run' = [entrypoint |-> wf.entrypoint, digest |-> hashed]
    /\ began' = [wf |-> wf, looked |-> looked]
    /\ at' = "execute"
    /\ UNCHANGED <<tree, edits, next, read, hashed, wf, mode, looked, attempt, quiet, found>>

drifted == mode # "off" /\ hashed # run.digest

(* checkSourceIntegrity, then the entrypoint of the row in the new file *)
checkSourceIntegrity ==
    /\ at = "check" /\ attempt > 1
    /\ at' = IF (mode = "strict" /\ drifted) \/ run.entrypoint \notin Names(wf)
               THEN "refused" ELSE "execute"
    /\ UNCHANGED <<tree, edits, next, read, hashed, wf, mode, run, looked, began, attempt,
                   quiet, found>>

-----------------------------------------------------------------------------
(* The engine. *)

(* Mutant: the type's own parameters are applied last *)
ResolveTypeWins(w, s) ==
    IF s.type \in primitives \/ s.type \notin DOMAIN w.stepTypes
      THEN [base |-> s.type, params |-> s.params]
      ELSE LET st == w.stepTypes[s.type]
           IN  [base |-> st.base, params |-> Over(st.params, Over(s.params, st.defaults))]

HasHeaders(l) == "headers" \in DOMAIN l /\ l["headers"].map

(* mergeHeaderParams, of one layer: its headers, if it has a map of them,  *)
(* name by name over those of the layers before it                         *)
AddHeaders(l, h) == IF HasHeaders(l) THEN Over(l["headers"].entries, h) ELSE h

Headers(st, s) ==
    AddHeaders(s.params, AddHeaders(st.params, AddHeaders(st.defaults,
                                                          AddHeaders(st.job, <<>>))))

Text(by) == [map |-> FALSE, by |-> by, entries |-> <<>>]
HeaderMap(entries) == [map |-> TRUE, by |-> "merge", entries |-> entries]

WithHeaders(p, h) ==
    IF DOMAIN h = {} THEN p
    ELSE Over([k \in {"headers"} |-> HeaderMap(h)], p)

(* ResolveStepType: four layers, the later over the earlier *)
ResolveStepType(w, s) ==
    IF s.type \in primitives \/ s.type \notin DOMAIN w.stepTypes
      THEN [base |-> s.type, params |-> s.params]
      ELSE LET st == w.stepTypes[s.type]
           IN  [base |-> st.base,
                params |-> WithHeaders(Over(s.params, Over(st.params,
                                                           Over(st.defaults, st.job))),
                                       Headers(st, s))]

Lookup(w, s) ==
    LET base == ResolveStepType(w, s).base IN
    IF s.workflow # ""
      THEN IF s.workflow \in Names(w) THEN "workflow" ELSE "workflow not found"
    ELSE IF base = "gate"
      THEN IF s.rules \subseteq ToSet(w.rules) THEN "gate" ELSE "rule not found"
    ELSE IF base \in {"set_fact", "assert", "load_artifact"} THEN "engine"
    ELSE IF base \in Executor THEN "executor" ELSE "no executor"

(* executeStepCore looks up what the step of a workflow names. *)
Dispatch ==
    /\ at = "execute"
    /\ \E i \in DOMAIN wf.workflows : found' = Lookup(wf, wf.workflows[i].step)
    /\ at' = "executed"
    /\ UNCHANGED <<tree, edits, next, read, hashed, wf, mode, run, looked, began, attempt, quiet>>

(* The run has failed or paused, and a process resumes it. *)
Resume(m) ==
    /\ at = "executed" \/ (at = "refused" /\ run # NoRun)
    /\ attempt < MaxAttempts
    /\ attempt' = attempt + 1
    /\ mode' = m
    /\ at' = "read" /\ next' = 1
    /\ hashed' = <<>> /\ wf' = None
    /\ quiet' = [quiet EXCEPT !.now = TRUE]
    /\ found' = "nothing"
    /\ UNCHANGED <<tree, edits, read, run, looked, began>>

Next == \/ \E f \in File : \E c \in Contents[f] : Edit(f, c)
        \/ ReadFile \/ ParseDir \/ HashFile \/ Hashed \/ CreateRun
        \/ checkSourceIntegrity \/ Dispatch
        \/ \E m \in {"warn", "strict", "off"} : Resume(m)

Spec == Init /\ [][Next]_vars

-----------------------------------------------------------------------------
(* Properties *)

Executing == at \in {"execute", "executed"}

(* A strict resume that is let through executes the definition the run     *)
(* began with, in a tree that is the same down to the scripts, if nobody   *)
(* edited it while either attempt looked at it.                            *)
StrictMeansSame ==
    (Executing /\ attempt > 1 /\ mode = "strict" /\ quiet.first /\ quiet.now) =>
        began = [wf |-> wf, looked |-> looked]

(* A step finds the workflow, the rules and the executor it names, or it   *)
(* is one of those that validate leaves to the run: the name of a workflow *)
(* that is a template, the rules of a gate by another name, the base of a  *)
(* custom type, a primitive whose executor is not built.                   *)
FoundOrLeft(w, s) ==
    LET custom == s.type \in DOMAIN w.stepTypes \ primitives
        result == Lookup(w, s)
    IN  /\ result = "workflow not found" => s.templated
        /\ result = "rule not found" => custom /\ w.stepTypes[s.type].base = "gate"
        /\ result = "no executor" =>
              IF custom THEN w.stepTypes[s.type].base \notin Executor
              ELSE s.type \in primitives \ Executor

(* However the tree changed while it was read, what was accepted is closed *)
(* step by step: one that is left to the run excuses no other.             *)
AcceptedIsClosed ==
    Executing => \A i \in DOMAIN wf.workflows : FoundOrLeft(wf, wf.workflows[i].step)

Layers(st, s) == <<st.job, st.defaults, st.params, s.params>>
LastWith(layers, k) == Max({i \in DOMAIN layers : k \in DOMAIN layers[i]})

(* "Each layer overrides the previous one", and of headers "Step-level     *)
(* values override headers with the same name while preserving the other   *)
(* headers": stated layer by layer, without the code's loops, of the types *)
(* that are not hidden by a primitive of the same name.                    *)
LayersOverride ==
    Executing => \A i \in DOMAIN wf.workflows :
      LET s == wf.workflows[i].step IN
      s.type \in DOMAIN wf.stepTypes \ primitives =>
        LET layers == Layers(wf.stepTypes[s.type], s)
            merged == ResolveStepType(wf, s).params
            maps   == {j \in DOMAIN layers : HasHeaders(layers[j])}
        IN  /\ \A k \in DOMAIN merged \ {"headers"} :
                  merged[k] = layers[LastWith(layers, k)][k]
            /\ \A j \in maps : \A h \in DOMAIN layers[j]["headers"].entries :
                  (\A l \in maps : l > j => h \notin DOMAIN layers[l]["headers"].entries)
                    => merged["headers"].entries[h] = layers[j]["headers"].entries[h]

(* "Reject the resume": strict mode executes nothing but what the run      *)
(* began with (docs/guides/resuming-workflows.md).                         *)
StrictRejects == (Executing /\ attempt > 1 /\ mode = "strict") => wf = began.wf

(* "The `base` field must itself be a primitive"                           *)
(* (docs/reference/custom-step-types.md): no accepted type has another.    *)
BasesArePrimitive ==
    Executing => \A t \in DOMAIN wf.stepTypes : wf.stepTypes[t].base \in primitives

(* "step.Params (from the step using this type -- overrides everything)"   *)
(* (docs/reference/custom-step-types.md), headers that are not a map of    *)
(* names, such as a template, included.                                    *)
StepOverrides ==
    Executing => \A i \in DOMAIN wf.workflows :
      LET s == wf.workflows[i].step IN
      ("headers" \in DOMAIN s.params /\ ~ s.params["headers"].map) =>
          ResolveStepType(wf, s).params["headers"] = s.params["headers"]

=============================================================================

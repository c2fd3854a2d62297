----------------------------- MODULE RunContext -----------------------------
(***************************************************************************)
(* The variable context of a run, runCtx (pkg/engine/engine.go, facts.go,  *)
(* artifacts.go): what the steps put into it, what their rows keep of it,  *)
(* and how a resume puts it together again.  The context of a top-level    *)
(* run is rebuilt by ResumeWithVars from the stored vars and all completed *)
(* rows and then, step by step, by executeStepCore; the context of a       *)
(* sub-run comes from its caller, and only the second replay applies.      *)
(*                                                                         *)
(* A value is named by the step that made it, the version of the file it   *)
(* was read from, and the Go type of the numbers in it, which JSON does    *)
(* not keep.  The executors, the files and the pods are external.          *)
(***************************************************************************)
EXTENDS Integers, FiniteSets

CONSTANTS
  NSteps,       \* the length of the workflows
  Name,         \* the names of the steps, which may be keys of the context too
  Vars,         \* names of variables, facts and registers
  Workflows,    \* the workflows of the instance
  Initial,      \* the variables set by the file, the workflow or the caller
  Overrides,    \* the sets of variables --var may set on a resume
  Numbers,      \* the number types the values of the instance hold
  MaxAttempts,  \* bound on runs and resumes together
  MaxVersion    \* bound on the versions of the artifact file

StepIds == 1..NSteps
CtxKeys == Vars \cup {Name[i] : i \in StepIds}
NoKey == "no key"
Fresh == "fresh"

(***************************************************************************)
(* A step has a declared type, "alias" for one of the file's step_types,   *)
(* and the base it resolves to.  facts maps each fact of a set_fact or     *)
(* gate to the variable its template refers to, or to Fresh.               *)
(***************************************************************************)
Step == [type : {"set_fact", "gate", "load_artifact", "exec", "alias"},
         base : {"set_fact", "gate", "load_artifact", "exec"},
         facts : UNION {[D -> Vars \cup {Fresh}] : D \in SUBSET Vars},
         register : CtxKeys \cup {NoKey},
         artifacts : {"none", "required", "optional"},
         source : {"local", "k8s"},
         when : Vars \cup {NoKey}]

ASSUME ContextAssumption ==
  /\ NSteps \in Nat /\ MaxAttempts \in Nat \ {0} /\ MaxVersion \in Nat \ {0}
  /\ \A i, j \in StepIds : Name[i] = Name[j] => i = j
  /\ {Name[i] : i \in StepIds} \cap Vars = {} /\ NoKey \notin CtxKeys
  /\ Workflows \subseteq [StepIds -> Step]
  /\ \A w \in Workflows, i \in StepIds : w[i].type \in {w[i].base, "alias"}
  /\ Initial \subseteq CtxKeys
  /\ Overrides \subseteq SUBSET Vars
  /\ Numbers \subseteq {"int", "float"}

VARIABLES
  wf, top,  \* the workflow, and whether the run is not a sub-run
  num,      \* the type of the numbers in the values of this behaviour
  file,     \* the artifact file: its version, 0 when it is missing
  rows,     \* the rows of the steps
  ctx,      \* runCtx
  pc,       \* the step the process is at
  status,   \* the run's status
  attempt,  \* runs and resumes so far
  given,    \* the variables --var set in this attempt
  wrote,    \* history: what step i put into the context when it last ran
  passed    \* history: the steps that ran or were replayed in this attempt

contextVars == <<wf, top, num, file, rows, ctx, pc, status, attempt, given, wrote, passed>>
setting == <<wf, top, num>>

(***************************************************************************)
(* Values.                                                                 *)
(***************************************************************************)
Value == [by : 0..NSteps, version : 0..MaxVersion, num : {"int", "float"},
          part : {"absent", "nil", "text", "var", "override", "fact", "facts", "output",
                  "artifacts", "data"}]
Make(i, p, v, n) == [by |-> i, part |-> p, version |-> v, num |-> n]
Nil == Make(0, "nil", 0, "int")
EmptyText == Make(0, "text", 0, "int")
Override == Make(0, "override", 0, "int")
Absent == Make(0, "absent", 0, "int")

IsMap(v) == v.part \in {"output", "facts", "artifacts", "data"}

\* Mutant: plain json.Unmarshal makes a float64 of every number
DecodedFloat(v) == IF v.part \in {"absent", "nil", "text"} THEN v ELSE [v EXCEPT !.num = "float"]

\* json.Marshal and decodeState: a whole number comes back as an int
Decoded(v) == [v EXCEPT !.num = "int"]

\* Maps from keys to values, and runCtx[k] = v for each pair of one
Nothing == [k \in {} |-> Nil]
One(k, v) == [x \in {k} |-> v]
Merge(c, m) == [k \in CtxKeys |-> IF k \in DOMAIN m THEN m[k] ELSE c[k]]
DecodedMap(m) == [k \in DOMAIN m |-> Decoded(m[k])]

NoRow == [status |-> "none", at |-> 0, facts |-> Nothing, output |-> Absent,
          artifacts |-> Absent]

(***************************************************************************)
(* What a completed row puts back.                                         *)
(***************************************************************************)
\* The loop body of ResumeWithVars.  It asks for the declared type, not for the
\* base, and a stored value that is not a map is decoded to nil
Restored(i, r) ==
  LET s == wf[i] IN
  IF s.type \in {"set_fact", "gate"} THEN DecodedMap(r.facts)
  ELSE IF r.artifacts # Absent
       THEN One(Name[i], IF IsMap(r.artifacts) THEN Decoded(r.artifacts) ELSE Nil)
  ELSE IF r.output # Absent THEN One(Name[i], Decoded(r.output))
  ELSE Nothing

\* Mutant: the facts of a gate's receipt are not put back
ReplayedNoGate(i) ==
  LET s == wf[i]  r == rows[i] IN
  IF s.type = "set_fact" THEN DecodedMap(r.facts)
  ELSE IF s.register # NoKey /\ r.output # Absent THEN One(s.register, Decoded(r.output))
  ELSE Nothing

\* executeStepCore, for a step whose row is completed
Replayed(i) ==
  LET s == wf[i]  r == rows[i] IN
  IF s.type \in {"set_fact", "gate"} THEN DecodedMap(r.facts)
  ELSE IF s.register # NoKey /\ r.output # Absent THEN One(s.register, Decoded(r.output))
  ELSE Nothing

CompletedIn(rs) == {i \in StepIds : rs[i].status = "completed"}

\* The rows in the order of GetSteps (by started_at; within an attempt the steps
\* start in order), one over the other, over the stored vars
Rebuilt(rs, k) ==
  LET W == {i \in CompletedIn(rs) : k \in DOMAIN Restored(i, rs[i])}
      last == CHOOSE i \in W : \A j \in W :
                rs[j].at < rs[i].at \/ (rs[j].at = rs[i].at /\ j <= i)
  IN  IF W # {} THEN Restored(last, rs[last])[k]
      ELSE IF k \in Initial THEN Decoded(Make(0, "var", 0, num)) ELSE Absent

Inherited(k) == IF k \in Initial THEN Make(0, "var", 0, num) ELSE Absent

ContextInit ==
  /\ wf \in Workflows /\ top \in BOOLEAN /\ num \in Numbers
  /\ file \in 0..1
  /\ rows = [i \in StepIds |-> NoRow]
  /\ ctx = [k \in CtxKeys |-> Inherited(k)]
  /\ pc = 1 /\ status = "running" /\ attempt = 1 /\ given = {}
  /\ wrote = [i \in StepIds |-> Nothing]
  /\ passed = {}

(***************************************************************************)
(* The steps.                                                              *)
(***************************************************************************)
At(base) ==
  /\ status = "running" /\ pc <= NSteps
  /\ rows[pc].status # "completed"
  /\ wf[pc].base = base
  /\ wf[pc].when # NoKey => ctx[wf[pc].when] # Absent

\* The step puts m into the context and the loop goes on
Writes(m) ==
  /\ ctx' = Merge(ctx, m)
  /\ wrote' = [wrote EXCEPT ![pc] = m]
  /\ passed' = passed \cup {pc}
  /\ pc' = pc + 1
  /\ UNCHANGED <<setting, file, status, attempt, given>>

\* SaveStep, the error of which is ignored here
TrySave(r) == rows' = [rows EXCEPT ![pc] = r] \/ UNCHANGED rows

Row(st, facts, output, artifacts) ==
  [status |-> st, at |-> attempt, facts |-> facts, output |-> output,
   artifacts |-> artifacts]

\* failStep: the run ends, with whatever the step has put into the context
Fails(m) ==
  /\ TrySave(Row("failed", Nothing, Absent, Absent))
  /\ ctx' = Merge(ctx, m)
  /\ status' = "failed"
  /\ UNCHANGED <<setting, file, pc, attempt, given, wrote, passed>>

\* A completed step is not run again
Skip ==
  /\ status = "running" /\ pc <= NSteps
  /\ rows[pc].status = "completed"
  /\ ctx' = Merge(ctx, Replayed(pc))
  /\ passed' = passed \cup {pc}
  /\ pc' = pc + 1
  /\ UNCHANGED <<setting, file, rows, status, attempt, given, wrote>>

SkipWhenFalse ==
  /\ status = "running" /\ pc <= NSteps
  /\ rows[pc].status # "completed"
  /\ wf[pc].when # NoKey /\ ctx[wf[pc].when] = Absent
  /\ TrySave(Row("skipped", Nothing, Absent, Absent))
  /\ pc' = pc + 1
  /\ UNCHANGED <<setting, file, ctx, status, attempt, given, wrote, passed>>

\* evalFact: a reference to a variable gives its value, to none the empty text
EvalFact(e, c) ==
  IF e = Fresh THEN Make(pc, "fact", 0, num)
  ELSE IF c[e] = Absent THEN EmptyText ELSE c[e]

\* evalFacts ranges over a Go map: each fact sees those that happened to come
\* before it, and an error leaves the ones before it in the context
Orders(D) == {o \in [D -> 1..Cardinality(D)] : \A x, y \in D : o[x] = o[y] => x = y}

\* What the facts of f come to in the order o: each is evaluated in the context with
\* the facts that come before it
EvalFacts(f, o) ==
  {m \in [DOMAIN f -> {Make(pc, "fact", 0, num), EmptyText} \cup {ctx[k] : k \in CtxKeys}] :
     \A k \in DOMAIN f :
        m[k] = EvalFact(f[k], [x \in CtxKeys |->
                  IF x \in DOMAIN f /\ o[x] < o[k] THEN m[x] ELSE ctx[x]])}

Upto(m, o, n) == [k \in {x \in DOMAIN m : o[x] <= n} |-> m[k]]

SetFact ==
  /\ At("set_fact")
  /\ LET f == wf[pc].facts IN
     \E o \in Orders(DOMAIN f) : \E m \in EvalFacts(f, o) :
       \/ /\ Writes(m)
          /\ TrySave(Row("completed", m, Make(pc, "facts", 0, "int"), Absent))
       \/ \E n \in 0..Cardinality(DOMAIN f) : Fails(Upto(m, o, n))

\* evaluateGate: the facts of the receipt go into the context even when the gate
\* pauses the run; a gate reads all its facts in the context it finds
Gate ==
  /\ At("gate")
  /\ LET m == [k \in DOMAIN wf[pc].facts |-> EvalFact(wf[pc].facts[k], ctx)] IN
     \/ Writes(m) /\ TrySave(Row("completed", m, Make(pc, "facts", 0, "int"), Absent))
     \/ /\ TrySave(Row("paused", m, Make(pc, "facts", 0, "int"), Absent))
        /\ ctx' = Merge(ctx, m)
        /\ status' = "paused"
        /\ UNCHANGED <<setting, file, pc, attempt, given, wrote, passed>>
     \/ Fails(Nothing)

(***************************************************************************)
(* loadArtifacts.  A local file is read, missing, or cannot be read; of    *)
(* the pods the first that answers is taken, and when none does the error  *)
(* says "not found", whatever the reason.  Version 0 is nil.               *)
(***************************************************************************)
ReadArtifact(s) ==
  {<<"ok", file>> : x \in {1} \cap 1..file} \cup
  (IF file = 0 \/ s.source = "k8s" THEN {<<"missing", 0>>} ELSE {})
    \cup (IF s.source = "local" THEN {<<"error", 0>>} ELSE {})

Loaded(s) == {r[2] : r \in {x \in ReadArtifact(s) :
                x[1] = "ok" \/ (x[1] = "missing" /\ s.artifacts = "optional")}}
CannotLoad(s) == \E r \in ReadArtifact(s) :
                   r[1] = "error" \/ (r[1] = "missing" /\ s.artifacts = "required")

\* The row of a load_artifact step says nothing of what was loaded
LoadArtifact ==
  /\ At("load_artifact")
  /\ \/ \E v \in Loaded(wf[pc]) :
          /\ Writes(One(Name[pc], Make(pc, "artifacts", v, num)))
          /\ TrySave(Row("completed", Nothing, Absent, Absent))
     \/ CannotLoad(wf[pc]) /\ Fails(Nothing)

\* artifactsJSON: whatever the context holds under the step's name
Kept(c) == c[Name[pc]]

\* The executor has run (a failure that ignore_errors covers has an output too):
\* register, then artifacts, which hold the output as well, then SaveStep, the
\* error of which fails the run
Exec ==
  /\ At("exec")
  /\ LET s == wf[pc]
         out == Make(pc, "output", 0, num)
         reg == IF s.register = NoKey THEN Nothing ELSE One(s.register, out)
         Done(data) ==
           LET m == [k \in DOMAIN reg \cup DOMAIN data |->
                       IF k \in DOMAIN data THEN data[k] ELSE reg[k]]
           IN  \/ /\ rows' = [rows EXCEPT ![pc] = Row("completed", Nothing, out,
                                                     Kept(Merge(ctx, m)))]
                  /\ Writes(m)
               \/ /\ rows' = [rows EXCEPT ![pc] = Row("running", Nothing, Absent, Absent)]
                  /\ ctx' = Merge(ctx, m)
                  /\ status' = "failed"
                  /\ UNCHANGED <<setting, file, pc, attempt, given, wrote, passed>>
     IN  \/ s.artifacts = "none" /\ Done(Nothing)
         \/ s.artifacts # "none" /\ \E v \in Loaded(s) : Done(One(Name[pc], Make(pc, "data", v, num)))
         \/ s.artifacts # "none" /\ CannotLoad(s) /\ Fails(reg)
         \/ Fails(Nothing)

(***************************************************************************)
(* The run.                                                                *)
(***************************************************************************)
Finish ==
  /\ status = "running" /\ pc = NSteps + 1
  /\ status' = "completed"
  /\ UNCHANGED <<setting, file, rows, ctx, pc, attempt, given, wrote, passed>>

\* ResumeWithVars, after the rows from step r on were deleted by a rewind.  A
\* sub-run is called again by its parent, with the parent's overrides in its vars
Resume(over, r) ==
  /\ status \in {"failed", "paused"} \/ (status = "completed" /\ r <= NSteps)
  /\ status = "paused" => over # {}
  /\ attempt < MaxAttempts
  /\ rows' = [i \in StepIds |-> IF i >= r THEN NoRow ELSE rows[i]]
  /\ ctx' = [k \in CtxKeys |-> IF k \in over THEN Override
                            ELSE IF ~top THEN Inherited(k) ELSE Rebuilt(rows', k)]
  /\ given' = over
  /\ attempt' = attempt + 1
  /\ status' = "running" /\ pc' = 1 /\ passed' = {}
  /\ UNCHANGED <<setting, file, wrote>>

FileChanges ==
  /\ file' \in {0, (file + 1)} /\ file' # file /\ file' <= MaxVersion
  /\ UNCHANGED <<setting, rows, ctx, pc, status, attempt, given, wrote, passed>>

ContextNext ==
  \/ Skip \/ SkipWhenFalse \/ SetFact \/ Gate \/ LoadArtifact \/ Exec \/ Finish
  \/ \E over \in Overrides, r \in 1..(NSteps + 1) : Resume(over, r)
  \/ FileChanges

ContextSpec == ContextInit /\ [][ContextNext]_contextVars

(***************************************************************************)
(* Properties.                                                             *)
(***************************************************************************)
\* An executor's artifacts that only the first replay puts back, and either there is
\* none, or the second puts something else under the step's name
ArtifactsLost(i) ==
  /\ wf[i].base = "exec" /\ wf[i].artifacts # "none"
  /\ ~top \/ \E l \in StepIds : wf[l].register = Name[i]

\* Keys a step sets that no replay, or not the last one, puts back
Lost ==
  {Name[i] : i \in {j \in StepIds : wf[j].base = "load_artifact" \/ ArtifactsLost(j)}}
    \cup UNION {DOMAIN wf[i].facts : i \in {j \in StepIds : wf[j].type = "alias"}}

\* Keys that a replay sets and the step does not
Spurious ==
  {Name[i] : i \in {j \in StepIds :
     \/ wf[j].base = "exec" /\ wf[j].artifacts = "none" /\ wf[j].register # Name[j]
     \/ wf[j].base # "exec" /\ wf[j].type = "alias"}}
    \cup {wf[i].register : i \in {j \in StepIds :
            wf[j].base \in {"set_fact", "gate"} /\ wf[j].type = "alias"}}

ContextTypeOK ==
  /\ \A i \in StepIds :
       /\ rows[i].status \in {"none", "running", "completed", "failed", "paused", "skipped"}
       /\ rows[i].at \in 0..MaxAttempts
       /\ \A k \in DOMAIN rows[i].facts : k \in Vars /\ rows[i].facts[k] \in Value
       /\ rows[i].output \in Value /\ rows[i].artifacts \in Value
  /\ ctx \in [CtxKeys -> Value]
  /\ pc \in 1..(NSteps + 1) /\ file \in 0..MaxVersion
  /\ passed \subseteq 1..(pc - 1)

\* What the context holds under k when nothing was ever interrupted: the value of
\* the last step that set it, else the override, else the variable
Lived(k) ==
  LET W == {i \in passed : k \in DOMAIN wrote[i]}
  IN  IF W # {} THEN wrote[CHOOSE i \in W : \A j \in W : j <= i][k]
      ELSE IF k \in given THEN Override ELSE Inherited(k)

\* The same value, but for the type of whole numbers
SameValue(v, w) == v = w \/ v = [w EXCEPT !.num = "int"]

\* However often a run was stopped, resumed and rewound, a step that runs for the
\* first time sees what it would have seen in a run that was never stopped: facts,
\* gate receipts, registers and the artifacts of a top-level run as they were when
\* their steps completed, even if the file has changed since, later steps over
\* earlier ones, and an override where no completed step set the key
ContextAsLived ==
  (status = "running" /\ \A i \in CompletedIn(rows) : i < pc) =>
     \A k \in CtxKeys \ (Lost \cup Spurious) : SameValue(ctx[k], Lived(k))

\* The context is well formed and, where a step is about to run, as lived
ContextInv == ContextTypeOK /\ ContextAsLived

\* docs/reference/variables-and-context.md: "Each fact is set into the context
\* immediately, so later facts in the same set_fact step can reference earlier ones"
FactsChain ==
  \A i \in passed : wf[i].base = "set_fact" =>
    \A k \in DOMAIN wrote[i] :
      wf[i].facts[k] \in DOMAIN wrote[i] => SameValue(wrote[i][k], wrote[i][wf[i].facts[k]])

\* docs/reference/workflow-file.md: "The loaded content becomes available as a
\* variable for use in subsequent steps"
LoadedIsAvailable ==
  \A i \in passed : wf[i].base = "load_artifact" => ctx[Name[i]] # Absent

\* docs/reference/workflow-file.md: "If true, a missing file returns nil instead of
\* causing an error"
NilMeansMissing ==
  [][\A i \in StepIds : wrote'[i] # wrote[i] =>
       \A k \in DOMAIN wrote'[i] :
         (wrote'[i][k].part \in {"artifacts", "data"} /\ wrote'[i][k].version = 0)
           => file = 0]_contextVars

=============================================================================

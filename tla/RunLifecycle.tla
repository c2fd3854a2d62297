---------------------------- MODULE RunLifecycle ----------------------------
(***************************************************************************)
(* One run of a workflow from `markov run` to its end, through any number  *)
(* of `markov resume`s (pkg/engine/engine.go, rewind.go): the steps in     *)
(* order, the rescue and always handlers, gates that pause, checkpoints in *)
(* the state store, rewinding, edits of the workflow source between two    *)
(* attempts, the death of the process between any two accesses to the      *)
(* store, and reads and writes of the store that fail.  Steps that start   *)
(* other runs (for_each, workflow) are the subject of ForEach and RunTree. *)
(*                                                                         *)
(* One workflow variable is followed, the one a gate waits for: a gate     *)
(* pauses until it is "yes", the pattern of examples/pause-resume.yaml.    *)
(***************************************************************************)
EXTENDS StateStore, FiniteSets

CONSTANTS
  NSteps, NRescue, NAlways, \* lengths of the workflow's three sections
  Kind,           \* Kind[s]: "exec" (an executor runs it), "assert", "fact", "gate"
  Conditional,    \* the steps with a `when` condition
  FactValues,     \* what a set_fact may compute for the variable
  Rank,           \* Rank[i]: the place of step i's name in alphabetical order
  Overrides,      \* what an operator may pass with --var; "none": no --var
  Targets,        \* 0: no rewind, i: --rewind to step i, Changed: --rewind-changed
  Modes,          \* the --source-integrity modes in use
  MaxAttempts,    \* bound on runs and resumes together
  MaxEdits,       \* bound on edits of the workflow source
  MaxCrashes,     \* bound on deaths of the process
  MaxWriteFaults, \* bound on writes of the store that fail
  MaxReadFaults   \* bound on reads of a step row that fail

Section == {"steps", "rescue", "always"}

Length == [s \in Section |-> IF s = "steps" THEN NSteps
                             ELSE IF s = "rescue" THEN NRescue ELSE NAlways]

Main == {"steps"} \X (1..NSteps)
Rescue == {"rescue"} \X (1..NRescue)
Always == {"always"} \X (1..NAlways)
Handlers == Rescue \cup Always
StepId == Main \cup Handlers

Value == {"unset", "no", "yes"}
Changed == NSteps + 1

ASSUME LifecycleAssumption ==
  /\ NSteps \in Nat /\ NRescue \in Nat /\ NAlways \in Nat
  /\ Kind \in [StepId -> {"exec", "assert", "fact", "gate"}]
  /\ Conditional \subseteq StepId
  /\ FactValues \subseteq {"no", "yes"}
  /\ Rank \in [1..NSteps -> Nat]
  /\ \A i, j \in 1..NSteps : Rank[i] = Rank[j] => i = j
  /\ Overrides \subseteq {"none", "no", "yes"}
  /\ Targets \subseteq 0..Changed
  /\ Modes \subseteq {"off", "warn", "strict"}
  /\ MaxAttempts \in Nat /\ MaxEdits \in Nat /\ MaxCrashes \in Nat
  /\ MaxWriteFaults \in Nat /\ MaxReadFaults \in Nat

VARIABLES
  run,        \* the run's row in the store
  rows,       \* the step rows in the store
  src,        \* src[s]: the version of step s's definition in the source
  edits,      \* how often the source was edited: its digest
  pc,         \* what the process is doing; "down" when there is none
  sec, idx,   \* the step it is at
  ctx,        \* runCtx: the value of the variable
  mainErr,    \* the error of the normal steps: "none", "fail" or "pause"
  hErr,       \* some handler returned an error
  attempts,   \* runs and resumes so far
  given,      \* the --var of this attempt
  goal,       \* the rewind target of this attempt
  todo,       \* the main rows the rewind has still to delete
  remaining,  \* remaining_steps of the last run_resumed event
  ran,        \* history: the handlers started in this attempt
  owed,       \* history: the completed main rows that a rewind which was cut short
              \* had still to delete
  crashes, writeFaults, readFaults  \* how many of each so far

store == <<run, rows>>
place == <<sec, idx>>
errs == <<mainErr, hErr>>
request == <<attempts, given, goal>>
source == <<src, edits>>
faults == <<crashes, writeFaults, readFaults>>
vars == <<run, rows, src, edits, pc, sec, idx, ctx, mainErr, hErr, attempts,
          given, goal, todo, remaining, ran, owed, crashes, writeFaults, readFaults>>

Run == [status : RunStatus \cup {"none"}, digest : 0..MaxEdits, vars : Value]
Row == [status : StepStatus \cup {"none"}, at : 0..MaxAttempts,
        hash : 0..MaxEdits, output : Value]

TypeOK ==
  /\ run \in Run
  /\ rows \in [StepId -> Row]
  /\ src \in [StepId -> 0..MaxEdits] /\ edits \in 0..MaxEdits
  /\ pc \in {"down", "rewind", "step", "enter", "exec", "update"}
  /\ sec \in Section /\ idx \in 1..(Length[sec] + 1)
  /\ ctx \in Value
  /\ mainErr \in {"none", "fail", "pause"} /\ hErr \in BOOLEAN
  /\ attempts \in 0..MaxAttempts
  /\ given \in {"none", "no", "yes"} /\ goal \in 0..Changed
  /\ todo \subseteq 1..NSteps
  /\ remaining \in Int
  /\ ran \subseteq Handlers
  /\ owed \subseteq 1..NSteps
  /\ crashes \in 0..MaxCrashes /\ writeFaults \in 0..MaxWriteFaults
  /\ readFaults \in 0..MaxReadFaults

Init ==
  /\ run = NoRun
  /\ rows = [s \in StepId |-> NoStep]
  /\ src = [s \in StepId |-> 0] /\ edits = 0
  /\ pc = "down"
  /\ sec = "steps" /\ idx = 1
  /\ ctx = "unset"
  /\ mainErr = "none" /\ hErr = FALSE
  /\ attempts = 0 /\ given = "none" /\ goal = 0
  /\ todo = {}
  /\ remaining = 0
  /\ ran = {} /\ owed = {}
  /\ crashes = 0 /\ writeFaults = 0 /\ readFaults = 0

Cur == <<sec, idx>>
Step(i) == <<"steps", i>>
CompletedSteps == {s \in StepId : rows[s].status = "completed"}

(***************************************************************************)
(* Access to the store.  A write whose error the code ignores may leave    *)
(* the table as it was; one whose error it returns may fail instead.       *)
(***************************************************************************)
WriteFault == writeFaults < MaxWriteFaults /\ writeFaults' = writeFaults + 1

\* e.store.SaveStep(...) of the current step, the error ignored
TrySave(status, output) ==
  \/ rows' = SaveStep(rows, Cur, status, attempts, src[Cur], output)
     /\ UNCHANGED writeFaults
  \/ WriteFault /\ UNCHANGED rows

\* e.store.UpdateRun(...), the error ignored
TryUpdate(status) ==
  \/ run' = UpdateRun(run, status) /\ UNCHANGED writeFaults
  \/ WriteFault /\ UNCHANGED run

(***************************************************************************)
(* Starting an attempt.                                                    *)
(***************************************************************************)
Begin(var, target) ==
  /\ attempts < MaxAttempts
  /\ attempts' = attempts + 1
  /\ given' = var
  /\ goal' = target
  /\ sec' = "steps" /\ idx' = 1
  /\ mainErr' = "none" /\ hErr' = FALSE
  /\ ran' = {}

\* Engine.Run: the workflow's vars set the variable to "no".  When CreateRun
\* fails the command ends and nothing has changed
RunStart ==
  /\ pc = "down"
  /\ run.status = "none"
  /\ Begin("none", 0)
  /\ run' = CreateRun(run, edits, "no")
  /\ ctx' = "no"
  /\ pc' = "step"
  /\ UNCHANGED <<rows, source, todo, owed, remaining, faults>>

\* The completed steps whose definition differs from the one that ran
ChangedSteps == {s \in CompletedSteps : rows[s].hash # src[s]}

\* The step to re-run from; a changed handler cannot be a target
RewindAllowed(target) == target = Changed => ChangedSteps \cap Handlers = {}

\* Mutant: only the target's own row is cleared
RewindOnlyTarget(target) ==
  IF target \in 1..NSteps THEN {target}
  ELSE {i \in 1..NSteps : target = Changed
                            /\ \E k \in 1..i : Step(k) \in ChangedSteps}

\* Mutant: the latest target wins
RewindFromLatest(target) ==
  IF target \in 1..NSteps THEN target..NSteps
  ELSE {i \in 1..NSteps : target = Changed
                            /\ \A k \in 1..NSteps : Step(k) \in ChangedSteps => k <= i}

RewindFrom(target) ==
  IF target \in 1..NSteps THEN target..NSteps
  ELSE {i \in 1..NSteps : target = Changed
                            /\ \E k \in 1..i : Step(k) \in ChangedSteps}

\* The statuses from which ResumeWithVars goes on
StatusResumable(target) ==
  run.status \in {"failed", "paused"} \/ (target # 0 /\ run.status = "completed")

\* checkSourceIntegrity: only "strict" refuses a source that has changed
SourceAccepted(mode) == mode = "strict" => run.digest = edits

\* ResumeWithVars up to the first row that rewindFrom deletes
ResumeAccept(var, mode, target) ==
  /\ pc = "down"
  /\ StatusResumable(target)
  /\ run.status = "paused" => var # "none"
  /\ SourceAccepted(mode)
  /\ RewindAllowed(target)
  /\ Begin(var, target)
  /\ todo' = {i \in RewindFrom(target) : rows[Step(i)].status # "none"}
  /\ pc' = "rewind"
  /\ UNCHANGED <<store, source, ctx, owed, remaining, faults>>

\* What a rewind that ends here leaves behind
CutShort == owed \cup {i \in todo : rows[Step(i)].status = "completed"}

\* DeleteSteps: one statement per row, in the order of the names; a failed one
\* ends the command
DeleteOne ==
  /\ pc = "rewind"
  /\ \E i \in todo :
       /\ \A j \in todo : Rank[i] <= Rank[j]
       /\ \/ /\ rows' = DeleteStep(rows, Step(i))
             /\ todo' = todo \ {i} /\ owed' = owed \ {i}
             /\ UNCHANGED <<pc, writeFaults>>
          \/ /\ WriteFault
             /\ pc' = "down" /\ owed' = CutShort
             /\ UNCHANGED <<rows, todo>>
  /\ UNCHANGED <<run, source, place, ctx, errs, request, remaining, ran,
                 crashes, readFaults>>

\* The completed rows that replay a value of the variable, and their order in
\* GetSteps (by started_at; within an attempt steps start in order)
Carriers == {i \in 1..NSteps : Step(i) \in CompletedSteps
                                 /\ rows[Step(i)].output # "unset"}
StartedAfter(i, j) ==
  \/ rows[Step(i)].at > rows[Step(j)].at
  \/ rows[Step(i)].at = rows[Step(j)].at /\ i >= j

\* The value that the stored vars and the completed rows give the variable
Replayed(v) ==
  \/ Carriers = {} /\ v = run.vars
  \/ \E i \in Carriers : /\ \A j \in Carriers : StartedAfter(i, j)
                         /\ v = rows[Step(i)].output

\* The rest of ResumeWithVars: replay, overrides, UpdateRun, run_resumed
Restore ==
  /\ pc = "rewind"
  /\ todo = {}
  /\ \E v \in Value : Replayed(v) /\ ctx' = IF given = "none" THEN v ELSE given
  /\ TryUpdate("running")
  /\ remaining' = NSteps - Cardinality(CompletedSteps)
  /\ pc' = "step"
  /\ UNCHANGED <<rows, source, place, errs, request, todo, owed, ran, crashes, readFaults>>

(***************************************************************************)
(* executeSteps and executeTerminalSteps: one step after the other.        *)
(***************************************************************************)
AtStep ==
  /\ pc = "step"
  /\ idx <= Length[sec]
  /\ sec = "steps" => mainErr = "none"

\* The step returns: an error ends the normal steps, and is collected from a
\* handler (where a pause is an error)
Leave(err) ==
  /\ pc' = "step"
  /\ idx' = idx + 1
  /\ mainErr' = IF sec = "steps" THEN err ELSE mainErr
  /\ hErr' = (hErr \/ (sec # "steps" /\ err # "none"))
  /\ UNCHANGED sec

\* The section is over: the attempt ends, or the next section starts at some step
SectionEndAs(next, start, ends) ==
  /\ pc = "step"
  /\ idx > Length[sec] \/ (sec = "steps" /\ mainErr # "none")
  /\ IF sec = "always" \/ ends
     THEN pc' = "update" /\ UNCHANGED place
     ELSE sec' = next /\ idx' = start /\ UNCHANGED pc
  /\ UNCHANGED <<store, source, ctx, errs, request, todo, owed, remaining, ran, faults>>
AfterSection == IF sec = "steps" /\ mainErr = "fail" THEN "rescue" ELSE "always"

\* The section is over: rescue after an error, then always; a pause ends at once
SectionEnd == SectionEndAs(AfterSection, 1, mainErr = "pause")

(***************************************************************************)
(* executeStepCore.                                                        *)
(***************************************************************************)
\* Mutant: handlers are skipped like normal steps
SkipAnyCompleted ==
  /\ AtStep
  /\ rows[Cur].status = "completed"
  /\ ctx' = IF rows[Cur].output # "unset" THEN rows[Cur].output ELSE ctx
  /\ Leave("none")
  /\ UNCHANGED <<store, source, request, todo, owed, remaining, ran, faults>>

\* GetStep finds the row of a normal step completed: its facts are replayed
SkipCompleted ==
  /\ AtStep
  /\ sec = "steps"
  /\ rows[Cur].status = "completed"
  /\ ctx' = IF rows[Cur].output # "unset" THEN rows[Cur].output ELSE ctx
  /\ Leave("none")
  /\ UNCHANGED <<store, source, request, todo, owed, remaining, ran, faults>>

\* Mutant: completed steps are entered like any other
EnterAny ==
  /\ AtStep
  /\ ran' = IF sec = "steps" THEN ran ELSE ran \cup {Cur}
  /\ pc' = "enter"
  /\ UNCHANGED <<store, source, place, ctx, errs, request, todo, owed, remaining, faults>>

\* A handler, a step that is not completed, or a step whose row cannot be read
\* (the error of GetStep is ignored)
Enter ==
  /\ AtStep
  /\ \/ (sec # "steps" \/ rows[Cur].status # "completed") /\ UNCHANGED readFaults
     \/ /\ sec = "steps" /\ rows[Cur].status = "completed"
        /\ readFaults < MaxReadFaults
        /\ readFaults' = readFaults + 1
  /\ ran' = IF sec = "steps" THEN ran ELSE ran \cup {Cur}
  /\ pc' = "enter"
  /\ UNCHANGED <<store, source, place, ctx, errs, request, todo, owed, remaining,
                 crashes, writeFaults>>

WhenFalse ==
  /\ pc = "enter"
  /\ Cur \in Conditional
  /\ TrySave("skipped", "unset")
  /\ Leave("none")
  /\ UNCHANGED <<run, source, ctx, request, todo, owed, remaining, ran, crashes, readFaults>>

\* failStep before the step does anything: its condition, facts, assertions or
\* rules cannot be evaluated, or an assertion does not hold
EvaluationFails ==
  /\ pc = "enter"
  /\ Cur \in Conditional \/ Kind[Cur] # "exec"
  /\ TrySave("failed", "unset")
  /\ Leave("fail")
  /\ UNCHANGED <<run, source, ctx, request, todo, owed, remaining, ran, crashes, readFaults>>

SetFact ==
  /\ pc = "enter"
  /\ Kind[Cur] = "fact"
  /\ \E v \in FactValues : ctx' = v /\ TrySave("completed", v)
  /\ Leave("none")
  /\ UNCHANGED <<run, source, request, todo, owed, remaining, ran, crashes, readFaults>>

\* assert, and load_artifact: a completed row without output
Assert ==
  /\ pc = "enter"
  /\ Kind[Cur] = "assert"
  /\ TrySave("completed", "unset")
  /\ Leave("none")
  /\ UNCHANGED <<run, source, ctx, request, todo, owed, remaining, ran, crashes, readFaults>>

\* The receipt of a gate holds its facts, among them the variable
Gate ==
  /\ pc = "enter"
  /\ Kind[Cur] = "gate"
  /\ IF ctx = "yes" THEN TrySave("completed", ctx) /\ Leave("none")
     ELSE TrySave("paused", ctx) /\ Leave("pause")
  /\ UNCHANGED <<run, source, ctx, request, todo, owed, remaining, ran, crashes, readFaults>>

ExecBegin ==
  /\ pc = "enter"
  /\ Kind[Cur] = "exec"
  /\ TrySave("running", "unset")
  /\ pc' = "exec"
  /\ UNCHANGED <<run, source, place, ctx, errs, request, todo, owed, remaining, ran,
                 crashes, readFaults>>

\* The executor succeeds, or fails and ignore_errors covers it: the error of
\* this SaveStep is returned
ExecSucceeds ==
  /\ pc = "exec"
  /\ \/ /\ rows' = SaveStep(rows, Cur, "completed", attempts, src[Cur], "unset")
        /\ Leave("none")
        /\ UNCHANGED writeFaults
     \/ WriteFault /\ Leave("fail") /\ UNCHANGED rows
  /\ UNCHANGED <<run, source, ctx, request, todo, owed, remaining, ran, crashes, readFaults>>

\* The executor fails, or the parameters or artifacts of the step are not usable
ExecFails ==
  /\ pc = "exec"
  /\ TrySave("failed", "unset")
  /\ Leave("fail")
  /\ UNCHANGED <<run, source, ctx, request, todo, owed, remaining, ran, crashes, readFaults>>

(***************************************************************************)
(* The end of an attempt, and what happens around the process.             *)
(***************************************************************************)
\* Mutant: errors of handlers are dropped
OutcomeOfSteps ==
  IF mainErr = "pause" THEN "paused" ELSE IF mainErr = "fail" THEN "failed" ELSE "completed"

Outcome ==
  IF mainErr = "pause" THEN "paused"
  ELSE IF mainErr = "fail" \/ hErr THEN "failed" ELSE "completed"

\* The final UpdateRun of Run and ResumeWithVars
Finish ==
  /\ pc = "update"
  /\ TryUpdate(Outcome)
  /\ pc' = "down"
  /\ UNCHANGED <<rows, source, place, ctx, errs, request, todo, owed, remaining, ran,
                 crashes, readFaults>>

Crash ==
  /\ pc # "down"
  /\ crashes < MaxCrashes
  /\ crashes' = crashes + 1
  /\ pc' = "down"
  /\ owed' = IF pc = "rewind" THEN CutShort ELSE owed
  /\ UNCHANGED <<store, source, place, ctx, errs, request, todo, remaining, ran,
                 writeFaults, readFaults>>

\* The workflow source is edited: a step's definition, or something else
Edit ==
  /\ pc = "down"
  /\ edits < MaxEdits
  /\ edits' = edits + 1
  /\ \/ \E s \in StepId : src' = [src EXCEPT ![s] = edits + 1]
     \/ UNCHANGED src
  /\ UNCHANGED <<store, pc, place, ctx, errs, request, todo, owed, remaining, ran, faults>>

StepAction ==
  \/ SkipCompleted \/ Enter \/ WhenFalse \/ EvaluationFails
  \/ SetFact \/ Assert \/ Gate \/ ExecBegin \/ ExecSucceeds \/ ExecFails

Engine == DeleteOne \/ Restore \/ StepAction \/ SectionEnd \/ Finish

Operator ==
  \/ RunStart
  \/ \E var \in Overrides, mode \in Modes, target \in Targets :
       ResumeAccept(var, mode, target)
  \/ Edit

Next == Engine \/ Operator \/ Crash

Spec == Init /\ [][Next]_vars

(***************************************************************************)
(* Properties.                                                             *)
(***************************************************************************)
\* The steps of a section that every pass through it must complete: an executor
\* runs them and no condition skips them
Required == {s \in StepId : Kind[s] = "exec" /\ s \notin Conditional}

\* No read of a step row has failed so far
ReliableReads == readFaults = 0

\* Checkpoints are final: once a normal step is saved as completed its row is
\* neither overwritten nor executed again, in any attempt, unless a rewind deletes
\* it (the skip at the head of executeStepCore is all that guarantees this, and it
\* takes a failed read for a missing row)
CheckpointsAreFinal ==
  [][ReliableReads =>
       \A s \in Main : rows[s].status = "completed" =>
         rows'[s] = rows[s] \/ (pc = "rewind" /\ s[2] \in todo)]_vars

\* Results follow their inputs, whatever crashes and whatever write fails: a
\* completed row never stands after a required step that is not completed, or that
\* was executed again in a later attempt.  The exceptions are the rows that a rewind
\* which was cut short still owes (CompletedFromFreshInputs below says what comes of
\* them); a later rewind that gets to such a row ends the exception
CheckpointsInOrder ==
  (pc # "rewind" /\ ReliableReads) =>
    \A i, j \in 1..NSteps :
      (i < j /\ Step(i) \in Required /\ rows[Step(j)].status = "completed" /\ j \notin owed)
        => rows[Step(i)].status = "completed" /\ rows[Step(i)].at <= rows[Step(j)].at

\* A run is only recorded as completed when every required step has its result and
\* every required always handler ran, successfully, in the attempt that ended it
CompletedMeansDone ==
  (pc = "down" /\ run.status = "completed") =>
    \A s \in Required :
      /\ s \in Main => rows[s].status = "completed"
      /\ s \in Always => rows[s].status = "completed" /\ rows[s].at = attempts

\* An attempt that ends tears down completely: every always handler was started,
\* every rescue handler exactly when the normal steps failed, whatever the handlers
\* before them did; and none at all when the run pauses
TeardownComplete ==
  pc = "update" =>
    ran = IF mainErr = "pause" THEN {}
          ELSE IF mainErr = "fail" THEN Handlers ELSE Always

\* "Re-run from the earliest completed step whose definition changed": when a resume
\* with --rewind-changed completes, no reused result is of an older definition
RewindChangedFresh ==
  (pc = "update" /\ goal = Changed /\ Outcome = "completed") =>
    \A s \in CompletedSteps : rows[s].hash = src[s]

(***************************************************************************)
(* The inductive invariants behind these properties (proved in             *)
(* RunLifecycleProofs).  BaseInv and FreshInv hold whatever fails, the     *)
(* others as long as no read has failed; what a completed run is worth     *)
(* also needs rewinds that are not cut short.                              *)
(***************************************************************************)
WholeRewinds == Targets \subseteq {0} \/ (MaxCrashes = 0 /\ MaxWriteFaults = 0)

\* Where the process can be, section by section
PlaceInv ==
  /\ pc \in {"enter", "exec"} => idx <= Length[sec] /\ (sec = "steps" => mainErr = "none")
  /\ pc = "rewind" => sec = "steps" /\ idx = 1 /\ mainErr = "none" /\ ran = {} /\ ~hErr
  /\ pc \in {"step", "enter", "exec"} /\ sec = "rescue" => mainErr = "fail"
  /\ pc \in {"step", "enter", "exec"} /\ sec = "always" => mainErr # "pause"
  /\ pc \in {"step", "enter", "exec"} /\ sec = "steps" => ~hErr
  /\ pc = "update" => \/ sec = "steps" /\ mainErr = "pause"
                      \/ sec = "always" /\ mainErr # "pause" /\ idx = Length[sec] + 1

\* The handlers started so far are those before the current step, and the current
\* one once it has been entered
Before(section) ==
  {section} \X (1..(IF pc \in {"enter", "exec"} THEN idx ELSE idx - 1))
TeardownInv ==
  /\ pc \notin {"down", "rewind"} /\ sec = "steps" => ran = {}
  /\ pc \notin {"down", "rewind"} /\ sec = "rescue" => ran = Before("rescue")
  /\ pc \notin {"down", "rewind"} /\ sec = "always" =>
       ran = (IF mainErr = "fail" THEN Rescue ELSE {}) \cup Before("always")

\* In an attempt with --rewind-changed the completed rows of older definitions are
\* those the rewind has still to delete
FreshInv ==
  (pc # "down" /\ goal = Changed) =>
    \A s \in StepId : rows[s].status = "completed" =>
      rows[s].hash = src[s] \/ (pc = "rewind" /\ s \in Main /\ s[2] \in todo)

\* No row is of a later attempt
AtInv == \A s \in StepId : rows[s].at <= attempts

\* A step that is being executed is not a checkpoint
FinalInv ==
  /\ pc \in {"enter", "exec"} /\ sec = "steps" => rows[Cur].status # "completed"

\* The required steps before the current one are completed
ReqInv ==
  /\ pc \in {"step", "enter", "exec"} /\ sec = "steps" /\ mainErr = "none" =>
       \A i \in 1..NSteps :
         i < idx /\ Step(i) \in Required => rows[Step(i)].status = "completed"
  /\ pc \in {"step", "enter", "exec", "update"} /\ sec # "steps" /\ mainErr = "none" =>
       \A i \in 1..NSteps : Step(i) \in Required => rows[Step(i)].status = "completed"

\* The rows that no rewind owes or has yet to delete are in order; what it deletes is
\* closed under "later step"
OrderInv ==
  \A i, j \in 1..NSteps :
    (i < j /\ Step(i) \in Required /\ rows[Step(j)].status = "completed"
       /\ j \notin owed /\ (pc = "rewind" => j \notin todo))
      => /\ rows[Step(i)].status = "completed"
         /\ rows[Step(i)].at <= rows[Step(j)].at
         /\ pc = "rewind" => i \notin todo

\* While handlers run, those before the current one are completed in this attempt,
\* or an error is on record
AlwaysInv ==
  pc \in {"step", "enter", "exec", "update"} /\ sec = "always" /\ ~hErr =>
    \A k \in 1..NAlways :
      k < idx /\ <<"always", k>> \in Required =>
        /\ rows[<<"always", k>>].status = "completed"
        /\ rows[<<"always", k>>].at = attempts

\* While a process is alive the run is not completed, except before its rewind ends
AliveInv ==
  /\ pc \notin {"down", "rewind"} => run.status # "completed"
  /\ Targets \subseteq {0} => goal = 0 /\ todo = {} /\ (pc = "rewind" => run.status # "completed")

BaseInv == TypeOK /\ PlaceInv /\ TeardownInv
CheckpointInv == AtInv /\ FinalInv /\ ReqInv /\ OrderInv /\ AlwaysInv
                   /\ (WholeRewinds => AliveInv /\ CompletedMeansDone)

(***************************************************************************)
(* What the documentation or a comment says, and the code does not do.     *)
(***************************************************************************)
\* docs/guides/resuming-workflows.md: running steps run again on resume, and runs
\* are resumed "across pod restarts"
InterruptedRunResumable ==
  (pc = "down" /\ run.status # "none") =>
    run.status = "completed" \/ StatusResumable(0)

\* docs/reference/rule-engine.md: the override "is applied before the paused gate is
\* evaluated again"
OverrideReachesGate ==
  (pc = "enter" /\ Cur \in Main /\ Kind[Cur] = "gate" /\ given # "none" /\ goal = 0
     /\ rows[Cur].status = "paused") => ctx = given

\* engine.go on ResumeWithVars: the operator "records the input that releases the
\* gate"; the stored vars are what the next resume starts from
OverrideRecorded ==
  (pc = "step" /\ given # "none") => run.vars = given

\* docs/reference/state-store.md: run_resumed carries the "completed/remaining step
\* counts"
RemainingNotNegative == remaining >= 0

\* docs/reference/state-store.md: --rewind-changed "re-runs from the earliest changed
\* step"
RewindChangedAccepted ==
  (pc = "down" /\ run.status = "failed" /\ ChangedSteps \cap Main # {})
    => RewindAllowed(Changed)

\* docs/reference/state-store.md: "Rewinding deletes the step records of that step and
\* of every later step": a run never completes with a result that is older than the
\* result of an earlier required step
CompletedFromFreshInputs ==
  (pc = "update" /\ Outcome = "completed") =>
    \A i, j \in 1..NSteps :
      (i < j /\ Step(i) \in Required /\ rows[Step(j)].status = "completed")
        => rows[Step(i)].at <= rows[Step(j)].at

=============================================================================

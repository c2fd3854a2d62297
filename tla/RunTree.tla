------------------------------ MODULE RunTree ------------------------------
(***************************************************************************)
(* A run and the sub-runs its `workflow` steps start (executeSubWorkflow   *)
(* of pkg/engine/engine.go), and the rewinding of the whole tree           *)
(* (rewind.go), over several resumes.  A step that calls a sub-workflow    *)
(* has no row of its own: on resume it is called again, and what its       *)
(* sub-run has already done is found in the sub-run's rows, which are      *)
(* keyed by the name of the workflow and of the step.                      *)
(*                                                                         *)
(* A run's own steps are taken as a whole here (their inner order and the  *)
(* facts they replay are in RunLifecycle); so are the handlers at its end. *)
(* The process may die between any two, and the engine ignores what the    *)
(* state store answers to most reads and writes of a row: any row may fail *)
(* to be read or written, `refused` tells which ever did.                  *)
(***************************************************************************)
EXTENDS Integers, FiniteSets

CONSTANTS
  Runs, Root,     \* the run and all the sub-runs it may start
  Steps,          \* Steps[r]: number of steps of run r's workflow
  Child,          \* Child[<<r, i>>]: the sub-run that step i of r starts, or NoRun
  NoRun,
  Workflows,      \* the names a templated `workflow:` may resolve to
  Default,        \* the name in use otherwise
  Templated,      \* the sub-runs whose workflow name is a template
  Ignoring,       \* the sub-runs whose calling step has ignore_errors
  WithHandlers,   \* the runs whose workflow has `always` steps
  Conditional,    \* the steps with a `when`
  Gates,          \* the steps that may pause the run
  Targets,        \* 0: no rewind, i: --rewind to step i, -1: --rewind-changed
  MaxAttempts, MaxEdits, MaxCrashes, MaxRefused  \* bounds

Slot == UNION {{r} \X (1..Steps[r]) : r \in Runs}
Plain == {s \in Slot : Child[s] = NoRun}
RowId == Slot \X Workflows

\* What the state store may refuse: the row of a step, and the row of a run
RunRow(r) == <<r, 0>>
Cells == Slot \cup {RunRow(r) : r \in Runs}

ParentSlot(r) == CHOOSE s \in Slot : Child[s] = r

\* The runs from r up to the root: what any set with r has that has the caller of each
\* of its runs
Climbs(S) == \A p \in S \ {Root} : ParentSlot(p)[1] \in S
Ancestry == [r \in Runs |-> {q \in Runs : \A S \in SUBSET Runs :
                                             r \in S /\ Climbs(S) => q \in S}]
Ancestors(r) == Ancestry[r]

ASSUME TreeAssumption ==
  /\ Root \in Runs /\ NoRun \notin Runs
  /\ Steps \in [Runs -> Nat \ {0}]
  /\ Child \in [Slot -> (Runs \ {Root}) \cup {NoRun}]
  /\ \A r \in Runs \ {Root} :
       \E s \in Slot : Child[s] = r /\ \A t \in Slot : Child[t] = r => t = s
  /\ \A r \in Runs : Root \in Ancestors(r)
  /\ Default \in Workflows
  /\ Templated \subseteq Runs \ {Root} /\ Ignoring \subseteq Runs \ {Root}
  /\ WithHandlers \subseteq Runs
  /\ Conditional \subseteq Slot /\ Gates \subseteq Plain
  /\ Targets \subseteq -1..Steps[Root]
  /\ MaxAttempts \in Nat /\ MaxEdits \in Nat /\ MaxCrashes \in Nat /\ MaxRefused \in Nat

VARIABLES
  status, entry,  \* the rows of the runs: status, and the workflow they ran
  rows,           \* the step rows
  src, edits,     \* src[s]: version of the definition of a step
  pc, cur, idx,   \* what the process does, in which run, at which of its steps
  err,            \* the error the current run's steps ended with
  want,           \* want[r]: what r's workflow name resolves to in this attempt
  attempts, from, \* attempts so far; the first step rewound in this one, or 0
  goal,           \* the rewind asked for in this attempt
  todo,           \* the runs whose rows the rewind has still to delete
  crashes,
  torn,           \* history: a rewind was cut short
  refused         \* history: the rows the state store failed to read or write

table == <<status, entry, rows>>
source == <<src, edits>>
attempt == <<want, attempts, from, goal>>
history == <<torn, refused>>
vars == <<status, entry, rows, src, edits, pc, cur, idx, err, want, attempts, from,
          goal, todo, crashes, torn, refused>>

NoRow == [status |-> "none", at |-> 0, hash |-> 0]

TypeOK ==
  /\ status \in [Runs -> {"none", "running", "paused", "failed", "completed"}]
  /\ entry \in [Runs -> Workflows]
  /\ rows \in [RowId -> [status : {"none", "skipped", "paused", "failed", "completed"},
                         at : 0..MaxAttempts, hash : 0..MaxEdits]]
  /\ src \in [Slot -> 0..MaxEdits] /\ edits \in 0..MaxEdits
  /\ pc \in {"down", "rewind", "step", "handlers", "return"}
  /\ cur \in Runs /\ idx \in [Runs -> Nat]
  /\ \A r \in Runs : idx[r] \in 1..(Steps[r] + 1)
  /\ err \in {"none", "fail", "pause"}
  /\ want \in [Runs -> Workflows]
  /\ attempts \in 0..MaxAttempts /\ from \in 0..Steps[Root] /\ goal \in -1..Steps[Root]
  /\ todo \subseteq Runs /\ crashes \in 0..MaxCrashes
  /\ torn \in BOOLEAN /\ refused \subseteq Cells

Init ==
  /\ status = [r \in Runs |-> "none"] /\ entry = [r \in Runs |-> Default]
  /\ rows = [i \in RowId |-> NoRow]
  /\ src = [s \in Slot |-> 0] /\ edits = 0
  /\ pc = "down" /\ cur = Root /\ idx = [r \in Runs |-> 1]
  /\ err = "none"
  /\ want = [r \in Runs |-> Default]
  /\ attempts = 0 /\ from = 0 /\ goal = 0
  /\ todo = {} /\ crashes = 0
  /\ torn = FALSE /\ refused = {}

(***************************************************************************)
(* The tree.                                                               *)
(***************************************************************************)
\* The sub-run that the root started, of those from r up
Topmost(r) == {q \in Ancestors(r) \ {Root} : ParentSlot(q)[1] = Root}

\* rootTarget: the step of the root workflow that leads to a row
RootStep(s) ==
  IF s[1] = Root THEN s[2] ELSE ParentSlot(CHOOSE q \in Topmost(s[1]) : TRUE)[2]

(***************************************************************************)
(* The state store: any call about a row may fail.  The engine ignores     *)
(* that it could not read a step row or the row of a sub-run (it counts as *)
(* absent) and that it could not write one.                                *)
(***************************************************************************)
Refuse(c) ==
  /\ c \in refused \/ Cardinality(refused) < MaxRefused
  /\ refused' = refused \cup {c}

\* A run row is found by its own name; as a child, only below runs that have theirs
Recorded(r) == \A q \in Ancestors(r) : status[q] # "none"

(***************************************************************************)
(* Starting an attempt.                                                    *)
(***************************************************************************)
Names == {f \in [Runs -> Workflows] : \A r \in Runs \ Templated : f[r] = Default}

Begin(target) ==
  /\ pc = "down"
  /\ attempts < MaxAttempts
  /\ attempts' = attempts + 1
  /\ want' \in Names
  /\ goal' = target
  /\ cur' = Root /\ idx' = [r \in Runs |-> 1]
  /\ err' = "none"

Run ==
  /\ status[Root] = "none"
  /\ Begin(0)
  /\ status' = [status EXCEPT ![Root] = "running"]
  /\ pc' = "step"
  /\ from' = 0
  /\ UNCHANGED <<entry, rows, source, todo, crashes, history>>

ChangedRows ==
  {i \in RowId : Recorded(i[1][1]) /\ rows[i].status = "completed"
                   /\ rows[i].hash # src[i[1]]}
ChangedSteps == {RootStep(i[1]) : i \in ChangedRows}

\* The first step to run again, 0 when there is none: the earliest changed one, or
\* the one that leads to it
RewindIndex(target) ==
  IF target # -1 THEN target
  ELSE IF ChangedSteps = {} THEN 0
  ELSE CHOOSE i \in ChangedSteps : \A j \in ChangedSteps : i <= j

\* Mutant: only the sub-runs that the rewound steps started themselves
BelowDirectly(first) ==
  {r \in Runs : r # Root /\ Recorded(r) /\ ParentSlot(r)[1] = Root
                  /\ ParentSlot(r)[2] >= first}

\* The sub-runs under the rewound steps, and under those, as far as GetChildRuns
\* finds them
Below(first) ==
  {r \in Runs : r # Root /\ Recorded(r) /\ RootStep(<<r, 1>>) >= first}

Resume(target) ==
  /\ \/ status[Root] \in {"failed", "paused"}
     \/ status[Root] = "completed" /\ target # 0
  /\ Begin(target)
  /\ from' = RewindIndex(target)
  /\ todo' = IF RewindIndex(target) = 0 THEN {} ELSE {Root} \cup Below(RewindIndex(target))
  /\ pc' = "rewind"
  /\ UNCHANGED <<table, source, crashes, history>>

\* DeleteSteps of one run: of the rewound steps in the root, of every step below it;
\* a run before the runs under it
ClearRun(r) ==
  /\ pc = "rewind"
  /\ r \in todo /\ \A q \in todo : q \in Ancestors(r) => q = r
  /\ rows' = [i \in RowId |-> IF i[1][1] = r /\ (r = Root => i[1][2] >= from)
                              THEN NoRow ELSE rows[i]]
  /\ todo' = todo \ {r}
  /\ UNCHANGED <<status, entry, source, pc, cur, idx, err, attempt, crashes, history>>

\* UpdateRun: of a row that is there, unless it fails
SaveRun(r, st) ==
  \/ status' = [status EXCEPT ![r] = IF @ = "none" THEN @ ELSE st] /\ UNCHANGED refused
  \/ Refuse(RunRow(r)) /\ UNCHANGED status

Restore ==
  /\ pc = "rewind" /\ todo = {}
  /\ SaveRun(Root, "running")
  /\ pc' = "step"
  /\ UNCHANGED <<entry, rows, source, cur, idx, err, attempt, todo, crashes, torn>>

(***************************************************************************)
(* executeSteps in the current run.                                        *)
(***************************************************************************)
Here == <<cur, idx[cur]>>
HereRow == <<Here, want[cur]>>
AtStep == pc = "step" /\ err = "none" /\ idx[cur] <= Steps[cur]

Advance == idx' = [idx EXCEPT ![cur] = @ + 1]

SkipCompleted ==
  /\ AtStep /\ Here \in Plain
  /\ rows[HereRow].status = "completed"
  /\ Advance
  /\ UNCHANGED <<table, source, pc, cur, err, attempt, todo, crashes, history>>

\* SaveStep; a row that an executor leaves as running is one that failed
Save(st) ==
  rows' = [rows EXCEPT ![HereRow] = [status |-> st, at |-> attempts, hash |-> src[Here]]]

\* The step is executed: it has no result, or GetStep fails; its row may not be written
Ends(st) ==
  /\ AtStep
  /\ \/ rows[HereRow].status # "completed" /\ UNCHANGED refused /\ Save(st)
     \/ rows[HereRow].status = "completed" /\ Refuse(Here) /\ Save(st)
     \/ Refuse(Here) /\ UNCHANGED rows

\* The condition of a step, a call or not, is false
WhenFalse ==
  /\ Here \in Conditional
  /\ Ends("skipped") /\ Advance
  /\ UNCHANGED <<status, entry, source, pc, cur, err, attempt, todo, crashes, torn>>

\* The step fails; of a call, its condition, or the debugger's pause before it
Fails ==
  /\ Ends("failed") /\ err' = "fail"
  /\ UNCHANGED <<status, entry, source, pc, cur, idx, attempt, todo, crashes, torn>>

Exec ==
  /\ \/ Here \in Plain /\ Ends("completed") /\ Advance /\ UNCHANGED err
     \/ Here \in Gates /\ Ends("paused") /\ err' = "pause" /\ UNCHANGED idx
  /\ UNCHANGED <<status, entry, source, pc, cur, attempt, todo, crashes, torn>>

(***************************************************************************)
(* executeSubWorkflow.                                                     *)
(***************************************************************************)
Callee == Child[Here]

\* The workflow or its vars cannot be resolved
CallFails ==
  /\ AtStep /\ Here \notin Plain
  /\ err' = "fail"
  /\ UNCHANGED <<table, source, pc, cur, idx, attempt, todo, crashes, history>>

\* checkSubRunWorkflow: the sub-run ran another workflow before
CallRefused ==
  /\ AtStep /\ Here \notin Plain
  /\ status[Callee] # "none" /\ entry[Callee] # want[Callee]
  /\ err' = "fail"
  /\ UNCHANGED <<table, source, pc, cur, idx, attempt, todo, crashes, history>>

\* The sub-run has no row: CreateRun inserts it, or fails
Create ==
  /\ status[Callee] = "none"
  /\ \/ /\ status' = [status EXCEPT ![Callee] = "running"]
        /\ entry' = [entry EXCEPT ![Callee] = want[Callee]]
        /\ UNCHANGED refused
     \/ Refuse(RunRow(Callee)) /\ UNCHANGED <<status, entry>>

\* Mutant: the sub-run may go on in another workflow
AgainInAny == status[Callee] # "none" /\ UNCHANGED <<status, entry, refused>>

\* It has one, of the same workflow or not read: it stays as it is
Again ==
  /\ status[Callee] # "none"
  /\ \/ entry[Callee] = want[Callee] /\ UNCHANGED refused
     \/ entry[Callee] # want[Callee] /\ Refuse(RunRow(Callee))
  /\ UNCHANGED <<status, entry>>

Call ==
  /\ AtStep /\ Here \notin Plain
  /\ Create \/ Again
  /\ cur' = Callee
  /\ idx' = [idx EXCEPT ![Callee] = 1]
  /\ UNCHANGED <<rows, source, pc, err, attempt, todo, crashes, torn>>

\* The steps are over: handlers run unless they paused
StepsEnd ==
  /\ pc = "step"
  /\ err # "none" \/ idx[cur] > Steps[cur]
  /\ pc' = IF err # "pause" /\ cur \in WithHandlers THEN "handlers" ELSE "return"
  /\ UNCHANGED <<table, source, cur, idx, err, attempt, todo, crashes, history>>

\* executeTerminalSteps: completed or not, the handlers run again; they may fail
Handlers ==
  /\ pc = "handlers"
  /\ err' \in {err, "fail"}
  /\ pc' = "return"
  /\ UNCHANGED <<table, source, cur, idx, attempt, todo, crashes, history>>

\* Mutant: a run under a caller that ignores its errors is done whatever happened
OutcomeIgnored ==
  IF err = "pause" THEN "paused" ELSE IF err = "fail" /\ cur \notin Ignoring THEN "failed"
  ELSE "completed"

Outcome ==
  IF err = "pause" THEN "paused" ELSE IF err = "fail" THEN "failed" ELSE "completed"

\* What the caller sees of the sub-run's error
Propagates(r) == err = "pause" \/ (err = "fail" /\ r \notin Ignoring)

\* UpdateRun of the run, and the return to its caller
Return ==
  /\ pc = "return"
  /\ SaveRun(cur, Outcome)
  /\ IF cur = Root
     THEN pc' = "down" /\ UNCHANGED <<cur, idx, err>>
     ELSE /\ pc' = "step"
          /\ cur' = ParentSlot(cur)[1]
          /\ IF Propagates(cur) THEN UNCHANGED <<err, idx>>
             ELSE err' = "none" /\ idx' = [idx EXCEPT ![ParentSlot(cur)[1]] = @ + 1]
  /\ UNCHANGED <<entry, rows, source, attempt, todo, crashes, torn>>

Crash ==
  /\ pc # "down"
  /\ crashes < MaxCrashes
  /\ crashes' = crashes + 1
  /\ pc' = "down"
  /\ torn' = (torn \/ pc = "rewind")
  /\ cur' = Root /\ idx' = [r \in Runs |-> 1] /\ err' = "none"
  /\ todo' = {}
  /\ UNCHANGED <<table, source, attempt, refused>>

Edit ==
  /\ pc = "down"
  /\ edits < MaxEdits
  /\ edits' = edits + 1
  /\ \E s \in Plain : src' = [src EXCEPT ![s] = edits + 1]
  /\ UNCHANGED <<table, pc, cur, idx, err, attempt, todo, crashes, history>>

Engine ==
  \/ (\E r \in Runs : ClearRun(r)) \/ Restore
  \/ SkipCompleted \/ WhenFalse \/ Fails \/ Exec \/ CallFails \/ CallRefused \/ Call
  \/ StepsEnd \/ Handlers \/ Return

Next == Run \/ (\E t \in Targets : Resume(t)) \/ Engine \/ Crash \/ Edit

Spec == Init /\ [][Next]_vars

(***************************************************************************)
(* Properties.                                                             *)
(***************************************************************************)
Completed(i) == rows[i].status = "completed"
Skipped(i) == rows[i].status = "skipped" /\ rows[i].at = attempts

\* The state store never failed about the row of r, or of a run above it
Clear(r) == \A q \in Ancestors(r) : RunRow(q) \notin refused

\* checkSubRunWorkflow: "the other workflow's finished steps would be ignored and its
\* work silently redone or mixed in": the rows of a run are all of one workflow, over
\* any number of resumes in which the template resolves differently, unless the row
\* that says which was lost
OneWorkflowPerRun ==
  \A i, j \in RowId :
    (/\ i[1][1] = j[1][1] /\ RunRow(i[1][1]) \notin refused
     /\ rows[i].status # "none" /\ rows[j].status # "none") => i[2] = j[2]

\* A run that is saved as paused says where: a paused step, in a run that is paused
\* like all the runs above it, so that a resume leads back to the gate; the trail ends
\* only at a row that was not written (a rewind that was cut short has deleted rows,
\* and no longer says anything)
PauseIsLocated ==
  (pc = "down" /\ status[Root] = "paused" /\ ~torn) =>
    \E r \in Runs :
      /\ \A q \in Ancestors(r) : status[q] = "paused" \/ RunRow(q) \in refused
      /\ \/ RunRow(r) \in refused
         \/ \E s \in Plain : s[1] = r /\ (rows[<<s, entry[r]>>].status = "paused" \/ s \in refused)

\* Whatever the templates resolve to, edits change and rewinds delete: the table is
\* well-formed, never mixes two workflows in one run and leads back to a waiting gate
TreeInv == TypeOK /\ OneWorkflowPerRun /\ PauseIsLocated

\* What a run shows of a step it has passed: a result, a condition that was false in
\* this attempt, or a sub-run that completed, or failed where the calling step ignores
\* errors; unless the row that shows it was lost
StepDone(s) ==
  \/ s \in refused
  \/ Skipped(<<s, entry[s[1]]>>)
  \/ s \in Plain /\ Completed(<<s, entry[s[1]]>>)
  \/ /\ s \notin Plain
     /\ \/ RunRow(Child[s]) \in refused
        \/ status[Child[s]] = "completed"
        \/ status[Child[s]] = "failed" /\ Child[s] \in Ignoring

\* From the root down to r every run is completed, and was called
Reached(r) ==
  \A q \in Ancestors(r) :
    /\ status[q] = "completed" /\ RunRow(q) \notin refused
    /\ q # Root => ParentSlot(q) \notin refused
                     /\ ~Skipped(<<ParentSlot(q), entry[ParentSlot(q)[1]]>>)

\* A completed run is complete to the leaves: in it, and in every sub-run its completed
\* rows lead to, every step has been passed in the last attempt and shows it
CompletedToTheLeaves ==
  (pc = "down" /\ status[Root] = "completed" /\ ~torn) =>
    \A r \in Runs : Reached(r) => \A s \in Slot : s[1] = r => StepDone(s)

\* "Everything from that step on runs again with the current workflow": when a rewound
\* attempt succeeds, no result under the rewound steps, at any depth, is of an earlier
\* attempt, and after --rewind-changed none anywhere is of an older definition; a
\* sub-run is found only by the rows of the runs above it
Fresh(i) ==
  Completed(i) => /\ from # 0 /\ RootStep(i[1]) >= from => rows[i].at = attempts
                  /\ goal = -1 => rows[i].hash = src[i[1]]
RewoundIsFresh ==
  (pc = "return" /\ cur = Root /\ err = "none") =>
    \A i \in RowId : Clear(i[1][1]) => Fresh(i)

(***************************************************************************)
(* What the documentation or a message says, and the code does not do.     *)
(***************************************************************************)
\* docs/reference/state-store.md: "On resume, completed sub-runs are skipped": the
\* handlers of one that is not rewound do not run again
CompletedSubRunsSkipped ==
  (pc = "handlers" /\ cur # Root /\ ~(from # 0 /\ RootStep(<<cur, 1>>) >= from))
    => status[cur] # "completed"

\* The message of checkSubRunWorkflow: "start a new run, or rewind to before step": in
\* an attempt rewound to the call or before, the sub-run may run another workflow
RewindReleasesName ==
  (AtStep /\ from # 0 /\ from <= RootStep(Here) /\ Here \notin Plain)
    => status[Callee] = "none" \/ entry[Callee] = want[Callee]

\* The same of a sub-run whose own row was lost: its results survive the rewind
LostRunsAreRewound ==
  (pc = "return" /\ cur = Root /\ err = "none") => \A i \in RowId : Fresh(i)

=============================================================================

# A TLA+ model of Markov

Markov (`src/`) is a workflow runner: it executes the steps of a YAML workflow,
saves a row per step in a database, and can resume or rewind a run that failed,
paused or was edited. This directory holds TLA+ modules that model its core
logic, TLC configurations that check them on small instances, and TLAPS proofs
of the main results for instances of every size.

The questions it answers are those a test suite hardly reaches: what is left in
the database when a process dies between two writes, what two goroutines of a
`for_each` do to each other, what a debugger command does that arrives one
moment too late, what a resume finds in the cluster.

## 1. Inventory

| Component | State | Operations | Hard behaviour |
|---|---|---|---|
| Run engine (`pkg/engine/engine.go`) | run row, step rows, the context in memory | `Run`, `ResumeWithVars`, `executeWorkflow` (steps, rescue, always), `executeStepCore` | crash between writes; writes whose errors are ignored; what a resume replays |
| Rewind (`pkg/engine/rewind.go`) | definition hash in each row | `prepareResume`, `rewindIndex`, `rewindFrom`, `clearRun` | cut short between deletions; edits between attempts |
| `for_each` (`executeForEach`) | semaphore, WaitGroup, `failed`, first error, results, rows of items | the loop, one goroutine per item | interleavings; a flag that is stale after a wait |
| Sub-workflows (`executeSubWorkflow`) | a run row per sub-run, parent links | call, resume in place, rewind of a subtree | workflow names that resolve differently; crash between child and parent |
| Debugger (`pkg/engine/debug.go`) | `paused`, step mode, breakpoints, queue lock, a one-element command channel | match, pause, dispatch, evaluate, close | commands racing pauses; nobody left to resume a pause |
| HTTP callback (`pkg/callback/http.go`) | buffered channel, sender goroutine | `send`, `sendAndFlush`, `sendLoop`, `Close` | unreachable destination, retries, full buffer, send after close |
| Kubernetes Jobs (`pkg/executor/k8s_job.go`) | shared `onJobCreated`, Jobs in the cluster | `Create`, polling, `k8s_job_wait` | lost answers, timeouts, names that are taken |
| Jev decisions (`pkg/engine/jev.go`, `pkg/jev/client.go`) | receipts, a semaphore per connection | `decision`, `Execute` | retries against a deadline; an answer that cannot be saved |
| claude step (`pkg/executor/claude.go`) | the process, its pipe, counters | `consume`, `handle`, limits, cancellation | four parties racing at the end of a process |
| Gate rules (`pkg/engine/gate.go`) | facts, fired rules, receipt | `evaluateGate` | rules that chain and overwrite facts |
| State store (`pkg/state`) | tables `runs` and `steps` | upsert, update, delete | one statement at a time, any of which may fail |
| Context, facts, artifacts (`facts.go`, `artifacts.go`, `engine.go`) | `runCtx`, what rows keep of it | `evalFacts`, `loadArtifacts`, register, the two replays of a resume | what is replayed, from which row, over what; files that change meanwhile; numbers through JSON |
| Executors on the host (`pkg/executor`) | a child process and its descendants, temporary files, the file written | `Execute` of shell_exec, script_exec, ansible, write_file, prompt, http_request | timeouts against processes that hold pipes; a step cut short and executed again |
| JSONL and gRPC callbacks (`pkg/callback`) | a file under a lock, a connection | `write`, `sendEvent`, `Close` | several goroutines, a disk that fills, the order of destinations |
| Parser and source integrity (`pkg/parser`, `pkg/source`) | the files, the parsed definition, the digest in the run's row | `ParseDir`, `validate`, `ResolveStepType`, `Tree`, `checkSourceIntegrity` | a tree that is edited while it is read, or between reading and hashing |
| Template engine, schema, Postgres store, diagrams, flags | | | sequential; see section 8 |

The engine calls executors, the debugger (`debugPause` around every step) and
callbacks (`fireEvent`) synchronously from the goroutine of the step; it calls
itself for sub-workflows and from the goroutines of a `for_each`. Everything that
survives a process is in the store, and in the cluster. What makes each part
correct is stated with its runs in section 4; `PROJECT.json` lists the hazards,
each at its line, with the properties that watch it.

## 2. Plan

Modules are ordered by what a user loses when they are wrong.

1. `StateStore`, `RunLifecycle`: the life of one run over attempts (done, proved).
2. `ForEachContract`, `ForEach`: the concurrent loop and what it promises (done, proved).
3. `RunTree`: runs that call runs (done, proved).
4. `Debugger`, `HttpCallback`: the two parts that share state with the goroutines
   of a run (done, proved).
5. `K8sJob`, `Decision`, `ClaudeStep`, `Gate`: the steps with a protocol of
   their own (done, proved).
6. `RunContext`: what steps put into the context and what a resume makes of it
   (done, proved).
7. `LocalExec`, and `Executors`, which composes it with `ClaudeStep`; `Callbacks`,
   which extends `HttpCallback` to all destinations of an event (done, proved).
8. `WorkflowSource`: from the files to the dispatch of steps (done, proved).

"Proved" is said of the safety properties; liveness is checked (section 7).

## 3. The modules

Each module's header says which code it models; `PROJECT.json` maps every
definition to its lines. Definitions marked *Mutant* are plausible bugs of the
definition that follows them: each property is shown to fail when its mutant takes
that definition's place. They are no part of any specification.

`StateStore` — the rows and the statements on them (`CreateRun`, `UpdateRun`,
`SaveStep`, `DeleteStep`). `UpdateRun` writes the status only, as the SQL does.
The Postgres store runs the same statements.

`RunLifecycle` — one run. The variables are the two tables, the definitions of the
steps (`Edit` changes one between attempts), and the process: where it is (`pc`,
`sec`, `idx`), the context reduced to the one variable that gates and overrides
are about, and the errors so far. An attempt begins by `RunStart` or
`ResumeAccept`, deletes rows one at a time if it rewinds (`DeleteOne`), rebuilds
its context (`Restore`), and walks through the sections; `Enter` reads the row
(or fails to), and an action per kind of step executes it; `Finish` writes the
outcome. `Crash` ends the process between any two steps. Writes whose error the
code ignores may silently fail (`TrySave`, `TryUpdate`); those whose error it
returns fail the step, or end a rewind. `ran` and `owed` are history variables: the
handlers started in this attempt, and the completed rows that a rewind which was cut
short should have deleted. `MCRunLifecycle` gives the workflows of the runs.

`ForEach` — `executeForEach`: the loop (`ListAccepted`, `LoopExit`, `WhenTrue`,
`Acquire`, `Recheck`, `Spawn`, `Return`) and a goroutine per item (`Begin`,
`Execute`, `Report`, `Save`, `Release`, `Done`), in both variants: an item starts a
sub-workflow, or executes the step itself, whose `when` may be false. The goroutines
look neither at the error of `CreateRun` and `UpdateRun` nor, for most rows, at that of
`SaveStep`: `Refuse` lets the store refuse a call, and a completed row that cannot be
read is executed again. `late` and `refused` are history variables: the items whose slot
was taken when the error flag was already up, and those that had a call refused.
`ForEachContract` is what the rest of
the engine relies on: items start and end, at most `Limit` at once, and the step
returns when none is active with the right verdict. `ImplementsContract` is the
refinement: an item is active while it holds its slot.

`RunTree` — a tree of runs executed depth first: the engine's call stack is `cur`
and the position of each run. The rows are those of `StateStore`, per run and
workflow name, because a sub-run that is resumed under another workflow would
write rows beside the old ones. The engine ignores most errors of the store here: any
row of a step may be taken for absent when it is read, or not written, and so may the
row of a sub-run. `refused` is a history variable with the rows this ever happened to.

`Debugger` — the goroutines of a run at their pause points, the reader of the
control channel, and the run's outcome. `Match`, `TakeTurn`, `Hold`, `Receive` and
`Apply` are the parts of `match` and `pause` between which other goroutines and
commands come in. The queue is a lock held through a pause.

`HttpCallback` — reporters, the bounded channel, the sender with its three
attempts, and `Close` with its ten seconds. Events are numbered in the order in
which they enter the channel.

`K8sJob` — steps that share one executor, and the cluster. Jobs carry who created
them in which attempt, which the code does not know: the properties are about that.
A read of the shared field sees any earlier write, because loads and stores of the
word are separate actions.

`Decision` — callers ask through one connection; receipts outlive attempts; the
server may answer anew every time.

`ClaudeStep` — the process, one tool that inherits its pipes, the reader and
os/exec's goroutine. `eventsLimit` may be negative, as the code lets it be. A message carries one block of content; the CLI repeats a
message's usage as it grows.

`Gate` — Grule fires the runnable rule of highest salience (any of equals), then
the code collects. Fact values are missing, false or true.

`RunContext` — one workflow, its rows and its context, as a top-level run or as a
sub-run. A value is named by the step that made it, the version of the file it came
from and the Go type of its numbers; `Decoded` is the way through JSON and back.
`Restored` is the loop of `ResumeWithVars`, `Replayed` what `executeStepCore` does
with a completed row; the two differ, and the second runs over the first. Facts are
evaluated in any order, as Go ranges over a map. `wrote` and `passed` are history
variables from which `Lived` computes the context of a run that was never stopped.
`Lost` and `Spurious` name the keys for which the code does not keep that promise,
by the kind of step that owns them: what load_artifact loaded; facts of a set_fact or
gate under an alias of `step_types`, whose declared type the replay asks for; the
artifacts of a sub-run's step, and of a step under whose name an output is registered;
and the step names, or registers of an aliased set_fact or gate, under which a replay
puts outputs that the step itself never set.

`LocalExec` — the other executors that act on the runner's host, one step at a time.
`temp` counts the temporary files that `Execute` has yet to remove (it ignores the
error of `os.Remove`), `child` and `heir` are the process and a descendant
with its pipes, `output` counts the pieces written and copied, `file` is what
write_file leaves. `Again` executes the step once more, from any point: after a
failure, or when the runner died. `Executors` is the dispatch: a step has one of the
executors of `LocalExec` or claude, and the other stays idle.

`Callbacks` — `fireEvent` over the list of destinations. It extends `HttpCallback`:
an event that `json.Marshal` refuses reaches no destination (`Unmarshalled`), any other
goes through the HTTP callback, then the JSONL file (lock, encode, write,
fsync) and then the gRPC server, in the reporting goroutine. The encoder fails for
good after a failed write. The reader of the debugger may report at any time.

`WorkflowSource` — a workflow directory of ten files, somebody who edits it, and the
process: `ReadFile` and `HashFile` look at one file each, so that an edit may come
between any two. A digest is what was hashed. `Accepted` is what parser and
validation let through; `Lookup` is what `executeStepCore` looks up for a step. The
parameters and headers of a step of a custom type are laid over one another in four
layers (`Over`, `AddHeaders`).

`MC*` modules only define constants that a configuration file cannot express.

## 4. The runs

Every run is `tlc -config <run>.cfg <module>`. The regular runs, one per question:

| Run (module) | Instance | Properties |
|---|---|---|
| `RunLifecycle_resume` (`MCRunLifecycle`) | a conditional set_fact, a gate and an executor step, one rescue and two always handlers (an assertion and an executor); one crash, one lost write, one failed read, two resumes with and without override | `CompletedMeansDone`: a completed run has every result, and its teardown in the attempt that ended it; `TeardownComplete`: at the end of an attempt exactly the handlers that apply have started; `CheckpointsAreFinal`: a completed step is never redone (as long as no read has failed) |
| `RunLifecycle_rewind` (`MCRunLifecycle`) | every rewind target, two edits, strict and warn, three attempts, a crash and a failing write at any point, of a rewind too | `CheckpointsInOrder`: no result is older than one it was computed from, but for the rows that a rewind which was cut short still owes; `RewindChangedFresh`: `--rewind-changed` leaves no result of an old definition |
| `ForEach` (`MCForEach`) | three items with keys on two slots, each a sub-workflow or each the step itself, rows of an earlier attempt, two items with refused store calls | `BoundedConcurrency`, `StopsAfterError`; `SettledOnReturn`: on return the rows say how the items ended, and where the store refused a call, what they said before or `running`; `NothingLost`; `Returns`: the step returns unless an executor never does; `ImplementsContract` |
| `RunTree` (`MCRunTree`) | three levels, a templated workflow name, a caller that ignores errors, handlers, a conditional step and a conditional call, a gate, an edit, a crash, a row that cannot be read or written, rewinds | `TreeInv` (types, one workflow per run, and every pause leads back to its gate), `CompletedToTheLeaves` (results, skips of this attempt and finished sub-runs all the way down), `RewoundIsFresh`; each unless the row that would show it was lost |
| `Debugger` (`MCDebugger`) | two goroutines, stop, conditional and log breakpoints, all commands, closing at any point | `PauseInv` (types, one pause, and no request for step mode used twice), `StepModeHolds`, `NothingLeftBlocked`, `AbandonedPauseFails` |
| `Callbacks` (`Callbacks`) | two goroutines and the debugger's reader on a buffer that fills, with and without a log and a server | `SenderInv` (types, order, drained on close), `LogInv` (whole lines, in order, complete on close), `FlushCoversEarlier`, `ProcessEnds` |
| `K8sJob` (`MCK8sJob`) | a Job step and a waiter, both with deadlines, three attempts | `JobInv` (types, and no Job run twice at once), `OwnJobDecides`, `TimedStepsEnd` |
| `Decision` (`MCDecision`) | three callers on two slots, one question asked twice, two attempts | `ClientInv` (types, slots and limits), `AnswersAreStable`, `CallersEnd` |
| `Executors` (`Executors`) | claude: two turns and a sub-agent under all four limits; the others: every kind and option, a timeout, three executions | `LimitsInv` (types, and a breach is real), `SuccessIsEarned`, `StoppedStepsEnd`; `LocalInv` (types, temporary files removed, written files and output whole), `HostStepsEnd` (a process or request ends after its timeout unless a descendant keeps its pipes) |
| `RunContext` (`MCRunContext`) | 3-step workflows that mix all kinds of steps, aliases, registers and artifacts; three attempts, rewinds, overrides, lost writes | `ContextInv`: a step that runs for the first time finds the context of a run that was never stopped, except under `Lost` and `Spurious` |
| `WorkflowSource` (`MCWorkflowSource`) | small trees with every kind of reference, two edits at any moment, two attempts in any mode | `StrictMeansSame`: what a strict resume executes is what the run began with, down to the scripts, if nobody edited while either looked; `AcceptedIsClosed`: what was accepted is found at dispatch; `LayersOverride` |
| `Gate` (`MCGate`) | all gates of two or three rules over two facts, saliences -1, 0 and 1 | `HighestSalienceWins`: the action is that of a fired rule of the highest salience, which no rule that applies to the facts left outranks; when only negative ones fired, or none, the gate continues. `GateInv` (`ReceiptRestoresContext`: what the rules left is what later steps and a resume see; `RulesSettle`: no rule that applies is left) |

### Where the code and its documentation part

A `_v_` configuration checks one sentence of the documentation, or of a comment or
message of the code, that the code does not keep: TLC's trace is the explanation.
They are kept beside the regular runs, for a change of the code or of the
documentation to be tried on, and are run in the same way (the module is the one the
name begins with, or its `MC` module). Where the table names a regular configuration,
it is that one with this property in place of its own. Paths are relative
to `src/`.

| Configuration | Property | Line | What the trace shows, and what was said |
|---|---|---|---|
| `RunLifecycle_v_interrupted` | `InterruptedRunResumable` | `pkg/engine/engine.go:277` | A run whose process died keeps the status running, and ResumeWithVars only accepts failed and paused runs (and completed ones with a rewind). docs/guides/resuming-workflows.md:106 says "Paused, failed, running, missing, or pending steps run again." and :179 "To resume across pod restarts, use Postgres or mount persistent storage". |
| `RunLifecycle_v_override` | `OverrideReachesGate` | `pkg/engine/engine.go:559` | On resume a completed set_fact step ahead of the gate is replayed over the override before the gate sees it. docs/reference/rule-engine.md:59 says the override "is applied before the paused gate is evaluated again". |
| `RunLifecycle_v_recorded` | `OverrideRecorded` | `pkg/engine/engine.go:343` | The overrides go into run.VarsJSON in memory, but UpdateRun (pkg/state/sqlite.go:124) does not write vars_json, so the next resume does not have them. The comment on ResumeWithVars, pkg/engine/engine.go:265-267, says a variable is required "so an operator records the input that releases the gate". |
| `RunLifecycle_v_remaining` | `RemainingNotNegative` | `pkg/engine/engine.go:365` | remaining_steps is len(wf.Steps) minus every completed row of the run, handlers' rows included, and can be negative. docs/reference/state-store.md:155 describes "completed/remaining step counts". |
| `RunLifecycle_v_rewind` | `CompletedFromFreshInputs` | `pkg/engine/rewind.go:266` | A rewind deletes the rows one by one, in the order of their names, without a transaction over them; interrupted, it leaves later steps completed, and the next plain resume completes the run on their old results. docs/reference/state-store.md:193 says "Rewinding deletes the step records of that step and of every later step of the entrypoint workflow". |
| `RunLifecycle_v_changed` | `RewindChangedAccepted` | `pkg/engine/rewind.go:236` | With a changed rescue or always step among the changed ones, --rewind-changed is refused although a normal step changed as well. docs/reference/state-store.md:190 says "`markov resume <run_id> --rewind-changed` re-runs from the earliest changed step." |
| `ForEach_v_results` | `ResultsFromAllThatRan` | `pkg/engine/engine.go:1411` | For a for_each over a step, an item that fails returns before its context is appended to the results. docs/reference/for-each.md:171 says "Registered results / Still collected from all iterations that ran" and :150 "This includes contexts from iterations that ran but failed." |
| `Debugger.cfg` | `TerminateStops` | `pkg/engine/debug.go:598` | The resume channel holds one command and dispatch drops one that does not fit: a terminate sent right after a continue is lost and the run completes. docs/reference/debugging.md:64 says "`terminate` / / Stop the run." |
| `Debugger_v_swallowed` | `TerminateStops` | `pkg/engine/engine.go:1365` | Inside a for_each with ignore_errors the termination error counts as an ignored failure of the item and the run goes on to completed. docs/reference/debugging.md:64 says "`terminate` / / Stop the run. The step is recorded as failed". |
| `Debugger.cfg` | `TerminatedIsResumable` | `pkg/engine/debug.go:590` | terminate on a running run cancels the context that the final UpdateRun of Run uses (pkg/engine/engine.go:257), so the row stays running and resume refuses it. docs/reference/debugging.md:64 says "the run can be continued with `markov resume`". |
| `Debugger.cfg` | `EvaluateWhilePaused` | `pkg/engine/debug.go:606` | evaluate takes the paused state, then renders its variables without holding the pause; the step may be released and write them meanwhile. docs/reference/debugging.md:63 says "While paused, render the expression against the paused variables". |
| `HttpCallback_v_panic` | `NeverPanics` | `pkg/callback/http.go:99` | Close closes the channel while the debugger's reader goroutine may still report an event; the send on the closed channel panics. docs/reference/callbacks.md:3 says "Errors in callbacks are logged but never fail the workflow." |
| `RunTree.cfg` | `CompletedSubRunsSkipped` | `pkg/engine/engine.go:650` | Only the row of the calling step is looked at: a sub-run that completed before the process died is entered again, and its rescue and always steps run again. docs/reference/state-store.md:201 says "On resume, completed sub-runs are skipped via the normal step deduplication logic." |
| `RunTree.cfg` | `RewindReleasesName` | `pkg/engine/engine.go:1509` | A rewind deletes the step rows of a sub-run but keeps its run row, whose entrypoint checkSubRunWorkflow compares: the call stays refused after the rewind its own message advises, pkg/engine/engine.go:1509 "(start a new run, or rewind to before step %q)". |
| `RunTree.cfg` | `LostRunsAreRewound` | `pkg/engine/engine.go:1109` | The error of CreateRun is ignored for a sub-run: it goes on without a row, and a rewind, which finds sub-runs by the rows of their parents (pkg/engine/rewind.go:276-310), leaves its results in place. docs/reference/state-store.md:193 says "Rewinding deletes the step records of that step and of every later step of the entrypoint workflow (including `for_each` iterations), and every record of the sub-runs those steps started". |
| `K8sJob_v_events` | `EventsNameTheirStep` | `pkg/executor/k8s_job.go:63` | One executor value serves all steps, and each step writes its closure to the same field: with two k8s_job steps at once the event of one can carry the other's names. docs/reference/callbacks.md:134 says "`job_created` / K8s Job resource created / `workflow_name`, `step_name`". |
| `K8sJob.cfg` | `EveryStepGetsItsJob` | `pkg/engine/engine.go:1671` | The Job's name is made of prefix, run ID and step name only, and failed Jobs stay for ttl_seconds (86400): the re-run of a failed step on resume is refused by the API server because the name is taken. docs/guides/resuming-workflows.md:106 says "Paused, failed, running, missing, or pending steps run again." |
| `K8sJob_v_items` | `EveryStepGetsItsJob` | `pkg/engine/engine.go:1671` | The items of a for_each over a k8s_job step all have the step's name in their Job's name, so only one of them gets its Job. docs/reference/for-each.md:72 says "the step is executed directly for each item". |
| `K8sJob.cfg` | `TimedOutJobsAreDeleted` | `pkg/executor/k8s_job.go:568` | When the context ends, waitForJobCompletion returns; nothing deletes the Job. docs/design/mvp-design.md:202 says "`k8s_job`: engine stops polling and deletes the Job". |
| `ClaudeStep_v_tools` | `ToolsAreStopped` | `pkg/executor/claude_proc_unix.go:19` | The group gets SIGTERM only; the SIGKILL that os/exec sends after WaitDelay goes to the claude process alone, so a tool that ignores SIGTERM lives on. docs/reference/step-types.md:229 says "When a limit is exceeded it stops the process (and any tools it started)"; the comment pkg/executor/claude_proc_unix.go:11-12 "so tools spawned by claude do not outlive it". |
| `Gate_v_negative` | `HighestSalienceDecides` | `pkg/engine/gate.go:84` | The search for the highest salience starts at -1 and compares with >, so fired rules of salience -1 or less never determine the action. docs/reference/step-types.md:866 says "The highest-salience fired rule determines the gate action." |
| `RunContext.cfg` | `FactsChain` | `pkg/engine/facts.go:13` | The facts of a set_fact are evaluated in the random order of a Go map: one that refers to another of the same step may see its old value, or none. docs/reference/variables-and-context.md:85 says "Each fact is set into the context **immediately**, so later facts in the same `set_fact` step can reference earlier ones". |
| `RunContext.cfg` | `LoadedIsAvailable` | `pkg/engine/engine.go:863` | The row of a load_artifact step has neither output nor artifacts, so after a resume the steps behind it run without what it loaded. docs/reference/workflow-file.md:348 says "The loaded content becomes available as a variable for use in subsequent steps". |
| `RunContext.cfg` | `NilMeansMissing` | `pkg/engine/artifacts.go:35` | When no pod answers, for whatever reason, the error says "not found", and an optional artifact becomes nil although the file is there. docs/reference/workflow-file.md:355 says "If true, a missing file returns nil instead of causing an error". |
| `Executors.cfg` | `TimeoutBounds` | `pkg/executor/shell_exec.go:28` | After the timeout the step waits for pipes that a background process has inherited (no WaitDelay); prompt and write_file do not look at their context at all. docs/reference/step-types.md:14 says "Maximum execution time in seconds" and :302 "use the step-level `timeout` to bound the whole run". |
| `WorkflowSource.cfg` | `StrictRejects` | `pkg/engine/engine.go:449` | The files are parsed before they are hashed: an edit that is undone, or made, in between lets strict mode execute another definition than the run began with. docs/guides/resuming-workflows.md:91 says "Reject the resume with both digests". |
| `WorkflowSource.cfg` | `BasesArePrimitive` | `pkg/parser/parser.go:421` | resolveType looks the type's name up and never its base, so a wrong base is accepted and fails at dispatch. docs/reference/custom-step-types.md:50 says "The `base` field must itself be a primitive". |
| `WorkflowSource.cfg` | `StepOverrides` | `pkg/parser/parser.go:512` | mergeHeaderParams replaces a step's headers that are not a map (a template) by the map of the lower layers. docs/reference/custom-step-types.md:30 says "overrides everything". |

Others have no configuration, because the property itself excludes them: the keys in
`Lost` and `Spurious` of `RunContext` (section 3), the steps that `FoundOrLeft` of
`WorkflowSource` finds to be left to the run (a workflow name that is a template, a base
that is no primitive, `llm_invoke`, which has no executor, and a gate under an alias,
whose rules are not checked), a custom type named
like a primitive, which the parser accepts and the primitive then hides
(`LayersOverride` is about the other types), and the dropped
error of `GetStep` (`pkg/engine/engine.go:553`), by which a completed step whose row
cannot be read is executed again. `CheckpointsAreFinal` and `CheckpointsInOrder` are
therefore stated under `ReliableReads`: no read has failed so far. `RunTree` has the same
read error, and the ignored errors of writes, below the root: its properties except the
rows in `refused`.

## 5. Bounds

Bounds are constants named `Max...` (attempts, edits, crashes, faults, commands,
events) and the sizes of the sets. They are the smallest at which every action
fires and the hazard can happen, and one more where that is cheap:

- three steps give a step before, at and after the interesting one; two attempts
  are needed for any resume property and a third lets a rewound or failed attempt be
  followed by a plain one; one crash and one lost write at every possible point is
  what the crash properties quantify over, and the proofs lift the number;
- `MaxRefused` bounds the rows that the store refuses to read or write: two items of a
  `for_each`, so that two goroutines meet it at once, and one row of a tree, which may
  be refused any number of times;
- three items on two slots make the loop wait while two goroutines run, which is the
  only way to fail between its two checks; the proofs cover any number;
- three steps, three attempts and two versions of the artifact file let a file change
  between a step, its replay and the step behind it; two variables let facts refer to
  each other and be overwritten; an override sets the one that gates and conditions use;
- three executions of a step on the host: one cut short, one redone, one after that;
  two pieces of output, one before and one after the child has ended;
- two edits, one in each of two attempts, or one that undoes the other; two workflow
  files, so that a reference may go across;
- three runs in a chain are the least with a run that is neither root nor leaf; one edit
  and one crash at every point of three attempts;
- saliences -1, 0 and 1: below, at and above the first one that the search accepts;
- two goroutines and two commands: one paused, one queued, and a second command while
  the first is pending; the end of the channel comes on top;
- a buffer that two workers and the reader fill, and block on; `MaxFired` bounds the
  events when all three destinations are configured, still with two writers at once;
- a Job step and a waiter over three attempts, so that two earlier Jobs can be met;
  three callers on two slots; a pipe of two events.

`ForEach` is run for both variants (`Variants`), with the keys in the order of their
first use (`Fields`), as a key's name does not matter; the theorems of section 7 hold with
and without keys and `ignore_errors` and for any keys.

Runs with `CHECK_DEADLOCK FALSE` are those whose process ends and is not started
again once its attempts are used up, or whose parties may all be done. The others
have an explicit action for having ended, so that a stuck goroutine is a deadlock.

## 6. Fairness

Fairness is weak, on the steps of each goroutine: Go's scheduler runs a goroutine
that can run, and timers fire. `Decision` assumes strong fairness of a caller
waiting for a slot, since senders blocked on a Go channel are served in order.
`Callbacks` assumes only that some goroutine of the runner goes on while one can,
every request and call having a timeout; `LocalExec` that the runner's goroutines and
os/exec's watcher run, that the timeout fires, and that net/http gives up when the
context has ended. `RunLifecycle`, `RunTree`, `RunContext`, `Gate` and `WorkflowSource`
are checked for safety only. Nothing is assumed of what is outside: a Kubernetes Job may never finish, the claude
process and its tool may hang, a background process may keep its pipes, an operator may
never answer, a destination may fail every time, a debugger's
client may never send a command (only that its channel, once closed, is seen to be
closed). A step's timeout is optional, so that an executor may never return: `ForEach`
assumes nothing of executors, and `Returns` says that the step returns unless some
executor never does. A request is assumed to return where the code gives it a timeout.

## 7. What is proved

The modules named `...Proofs` hold the theorems; `tlapm <module>.tla` checks one.
They hold for every value of the constants that satisfies the modules' assumptions,
which TLC evaluates on each run. Each inductive invariant was checked by TLC, on the
constants of the component's run, before it was proved. Three of the modules hold the
proofs about two components that do not meet: `DecisionProofs` those about `Gate`,
`ExecutorsProofs` those about `K8sJob`, `ForEachProofs` those about `RunContext`. That is
why the operators of `Gate`, `K8sJob` and `RunContext` have names of their own
(`GateSpec`, `JobSpec`, `ContextSpec`).

| Module | Theorems | Property of a run |
|---|---|---|
| `RunLifecycleProofs` | `BaseInvariance`, `TeardownIsComplete`, `RewindChangedIsFresh`, `CheckpointsStayInOrder`, `CompletedRunsAreDone`, `CompletedStepsAreKept` | `TeardownComplete`, `RewindChangedFresh`, `CheckpointsInOrder`, `CompletedMeansDone`, `CheckpointsAreFinal` |
| `ForEachProofs` | `Invariance`, `ConcurrencyIsBounded`, `LoopStopsAfterError`, `ItemsUseDistinctRows`, `RowsSettledOnReturn`, `SuccessLosesNothing`, `ImplementsForEachContract`; `ContextIsAsLived` | `BoundedConcurrency`, `StopsAfterError`, `SettledOnReturn`, `NothingLost`, `ImplementsContract`; `ContextInv` |
| `RunTreeProofs` | `TreeIsSound`, `CompletedIsComplete`, `RewindIsComplete` | `TreeInv`, `CompletedToTheLeaves`, `RewoundIsFresh` |
| `CallbacksProofs` | `SenderKeepsOrder`, `FlushedUpTo`, `FanOutImplementsHttp`, `LogIsFaithful` | `SenderInv`, `FlushCoversEarlier`, `LogInv` |
| `DecisionProofs` | `LimitsRespected`, `OneAnswer`; `GateSettles`, `HighestWins` | `ClientInv`, `AnswersAreStable`; `GateInv`, `HighestSalienceWins` |
| `ExecutorsProofs` | `LimitsAreReal`, `SuccessCountsAll`, `HostStepsAreWhole`; `NoRerunWhileRunning`, `SuccessIsOwn` | `LimitsInv`, `SuccessIsEarned`, `LocalInv`; `JobInv`, `OwnJobDecides` |
| `DebuggerProofs` | `PausesAreOrderly`, `StepModeStops` | `PauseInv`, `StepModeHolds` |
| `WorkflowSourceProofs` | `StrictResumeIsSame`, `AcceptedFilesAreClosed`, `LaterLayersOverride` | `StrictMeansSame`, `AcceptedIsClosed`, `LayersOverride` |

**RunLifecycle.** `TeardownComplete` is not inductive: the handlers already run must
be tied to the position of the process. `BaseInv` does it, as `TypeOK`, `PlaceInv`
(which sections and errors go with which `pc`) and `TeardownInv` (the handlers run
so far are exactly those before the current place). It is preserved by every action,
crashes, lost writes and failed reads included: `BaseInvariance`, from which
`TeardownIsComplete` follows. `RewindChangedIsFresh` adds `FreshInv`: during an
attempt with `--rewind-changed` the completed rows of older definitions are among
those the rewind has still to delete, whatever fails.

The checkpoint theorems are about what holds as long as no read has failed: that is a
state predicate, `ReliableReads`, in the properties themselves. Until then `CheckpointInv`
is inductive, over any crashes, failing writes and rewinds: no row is of a later attempt,
a step being executed is no checkpoint, the required steps before the current one are
completed, rows are in order but for those that a rewind has yet to delete or, cut short,
still owes, and what it deletes is closed under later steps, and handlers passed without
error are completed in this attempt. `CheckpointsStayInOrder` and `CompletedStepsAreKept`
follow. `CompletedRunsAreDone` has a hypothesis on the constants, `WholeRewinds` (no
rewinds, or neither crashes nor failing writes): only then has a living process no
completed run, because the row of a completed run says `completed` until its rewind has
deleted all it should, and still does when the rewind is cut short with results gone. That
`CompletedMeansDone` survives a failed read is checked by `RunLifecycle_resume`.

**ForEach.** `IInv` says who owns each token of the semaphore (`SlotInv`), that the
WaitGroup counts the goroutines that have not called `Done` (`WaitInv`), that items
start in order (`FrontierInv`), that a slot taken too late ends the loop without a launch (`LateInv`), that keys
are distinct once anything is launched (`KeyInv`), that the row of an item is its
outcome or, where the store refused a call, what it was or `running` (`RowInv`), and that the flag is up before an item with a stopping outcome
lets go (`ErrInv`). Cardinality lemmas (`MoveIn`, `MoveInside`, `MoveOut`,
`MoveDone`) carry the counting. `DistinctRows` and the four safety properties
of the run follow, and `ImplementsForEachContract` proves the refinement step by
step.

**RunTree.** The tree is any finite one in which every run is below the root
(`TreeAssumption`). `Ancestors` is the least set that contains the run and climbs with
it, so what the proofs need of the tree (nothing is above itself, a child has its own
ancestors and its parent's, what holds at the root and passes from parent to child
holds everywhere) follows by giving the right climbing set, without recursion. The
three properties are about the moment an attempt ends; the invariant says what is
already so while it is under way. `RowsInv`: rows are of the workflow that their run
has run, unless its own row was lost. `StackInv`: the current run and its ancestors are under way, each at the step
that calls the next. `PassedInv`: what a run has passed in this attempt is done, a
sub-run being done when it has passed all its own steps. All of these, and the three
properties, make an exception of what a row in `refused` would say, and only of that. `PauseInv`: a pause on its way
up has left a paused run at every level below. `FreshInv`: during a rewind, whatever is
to be rewound or has changed is among what is still to delete; after it, none is left.

**HttpCallback and Callbacks.** Events are numbers in the order of the channel, so the
invariant is about intervals. `QueueInv`: the channel holds the last of them, without a
gap; `SettledInv`: those before the one that the sender works on are settled;
`ArrivedInv`: the last one the destination saw is not later than that; `PhasesInv`
ties the reporters, the sender and `Close` to them. `FlushCoversEarlier` is a property
of steps and follows from `SettledInv`. `FanOutImplementsHttp` shows that the loop over
all destinations takes only steps of the HTTP callback, or none of its own, so all of
this holds of the composition. `LogIndInv` adds the lock of the file, the events that
each goroutine has logged, and the encoder's sticky error. Only
the names of the goroutines are assumed to differ.

**K8sJob.** `JobInv` needs that a name is never taken twice in the cluster, which
`Create` and its lost answers keep. `OwnJobDecides` has a hypothesis, `OwnNames`: no
other step has the Job name of a `k8s_job` step, and nothing outside creates one. The
items of a `for_each` do not satisfy it (`K8sJob_v_items`). `OwnInv` then says that
the Job a step watches is the one of this attempt: the name had to be free at `Create`,
and nobody else can take it.

**Decision.** `Inv` counts slots by their owners, with cardinality lemmas for a caller
that enters, stays in or leaves `Holding`, and ties what was used of a question to its
receipt: an answer is used only when it is the saved one. `DecisionAssumption` says
that callers are finitely many and have questions of their own: the identity that
`decision` computes contains the name under which the step, or item, is stored.

**Executors.** The claude step and those of `LocalExec` have an invariant each; the
dispatch lets one of them move. For claude, `PipeInv` relates three parties: what the
CLI has spent on a message is what the last report in the pipe says, or, if there is
none, what the reader has counted, unless it stopped counting at a breach. `CountInv`
says that a breach is exactly an excess of that count, `StopInv` why the contexts ended,
and `ReturnInv` that an outcome stays true because the CLI is gone. That the reader's
excess is the CLI's too needs a fact about sums: `TotalIsMonotone`, proved by induction
on the size of a set of messages (`UpFromZero`, `SumsExist`), as `Total` is a fold.
`HostInv` follows a step from call to call: what is in the file after each of them, and
what the child's end says.

**Gate.** `HasHighest` and `Untouched` are preserved by each rule that fires: one of the
fired rules has the highest salience, and a fact that no fired rule set is as it was.
`HighestWins` joins the first to the fact that no rule which applies is left, for any
saliences. It says what the code does with negative ones, which the search for the highest
starts above: the gate continues. That they should decide is `HighestSalienceDecides`,
which `Gate_v_negative` refutes.

**Debugger.** `QueueInv`: the queue is held by exactly the one goroutine between its turn
and the end of its pause; `PausedInv`: what `d.paused` names is that goroutine's pause,
and step mode is off meanwhile. That a request for step mode pauses at most one
goroutine is a matter of counting: `RequestInv` says that step mode on is a request not
yet used, and `CommandInv` that the step commands applied, in a pause's channel, received,
and about to be sent are together no more than those read. `HitInv` bounds the hits of a
breakpoint by the goroutines that have been past it. The goroutines are assumed to be
finitely many.

**WorkflowSource.** `Progress` ties what was read and hashed to the places of the two
loops. `Fresh`: as long as nobody edited while the attempt looks, all of it is what the
tree holds, so that the digest determines the definition. `Recorded`: the row keeps the
digest of the first attempt; `Checked`: strict mode lets an attempt through only with that
digest. `StrictResumeIsSame` joins the two attempts through it. `AcceptedFilesAreClosed`
follows from `Validated` and a lemma that dispatch finds what `validate` lets through, step
by step, or fails for a reason of that step's own that `validate` leaves to the run;
`LaterLayersOverride` from lemmas on maps laid over one another.

**RunContext.** What the property compares, the context and the history, is related by
way of the rows. `RowsInv`: the row of a completed step keeps what the step put into the
context when it last ran. `ReplayPart` and `RestorePart` are the two replays: under a key
that is neither lost nor spurious the second puts back what the step wrote, but for the
artifacts of an executor, and the first puts back those, and nothing under a key that its
step does not set. `PassedInv`: completed steps behind the process have been passed in
this attempt. `CtxInv` distinguishes two kinds of keys: the artifacts of a step are in the
context from the resume on (`LoadedInv`; `OnlyOwn` shows that no other step sets them);
any other key has the value of the last passed step that sets it (`ReplayedInv`), and
between the resume and the first replay of such a step it may have any value that the
first replay gave it, which is why nothing is said then. That the order of the rows in
`Rebuilt` has a last one is proved from `GreatestNat`. The theorem holds for any length,
any mixture of steps that satisfies `ContextAssumption` (a step name is no variable, and a
step's type is its base or an alias) and any overrides of variables.

Two of these proofs found something that the instances of the runs had not. `LayersOverride`
was false of a custom type named like a primitive, and `ContextAsLived` of the `register`
of an aliased set_fact or gate, which its first run ignores and its replay sets
(`pkg/engine/engine.go:571`); both are now stated as exceptions (sections 3 and 4). The
assumptions on the constants say what the configurations had kept tacitly: finitely many
goroutines, none of them called `free`; no executor called `gate`; at least one attempt
and one version of the artifact file.

Only model-checked: the liveness properties (`Returns`, `ProcessEnds`, `TimedStepsEnd`,
`CallersEnd`, `StoppedStepsEnd`, `HostStepsEnd`, `NothingLeftBlocked`,
`AbandonedPauseFails`), as fairness and `ENABLED` are outside what the prover does, and
`CompletedMeansDone` after a failed read. Every other property of a regular run is a
theorem. No module uses a recursive operator. The provers cannot use the library's
induction theorems, which have an operator as parameter; where induction is needed it is
on a set of numbers (`UpFromZero`, `LeastOf`, `LeastNat`), from the fact that a set of
numbers has a least one.

## 8. What is not modelled

- Template rendering (a vendored pongo2), expression evaluation and the translation
  of conditions to GRL: pure functions on strings. A condition's outcome is a choice.
- Of the parser: YAML decoding, single-file workflows, the parameter checks of each
  step type, `workflow_names`, and the schema generated from constants. Of the
  fingerprint: symlinks, file modes and exclusions; files outside the tree (an absolute
  rule file) are not in the digest, and not in the model.
- The formats of artifacts (YAML, Markdown tables) and the coercion of rendered text:
  a value is who made it, of which version, with which type of numbers.
- The arguments and environments that executors build, and what a process does with
  them; parameters are valid or not.
- That stdout and stderr are two descriptors: a child that holds one of the pipes is not
  told apart from one that holds both (os/exec waits for either).
- The gRPC connection's own reconnection, and the parsing of callback URLs.
- The Postgres store: same interface and, statement by statement, the same upserts,
  updates and deletes as SQLite; concurrent processes on one run are outside both.
- Listing and diagram commands, flags and output.
- Windows (`claude_proc_other.go`).

------------------------------ MODULE ForEach ------------------------------
(***************************************************************************)
(* executeForEach of pkg/engine/engine.go: the loop that hands out the     *)
(* items of a list to goroutines through a counting semaphore, and the     *)
(* goroutines, in both variants (a sub-workflow per item, or the step      *)
(* itself per item).  The loop and every goroutine are processes; a step   *)
(* of the model lies between two accesses to what they share (sem, failed, *)
(* errOnce/firstErr, results, wg, the state store).  The store may refuse  *)
(* a call (a terminated run has cancelled the context of its writes); the  *)
(* goroutines do not look at the error.                                    *)
(***************************************************************************)
EXTENDS Integers, FiniteSets, Sequences

CONSTANTS
  N,                \* length of the list
  StepConcurrency,  \* the step's `concurrency`; 0 or less when not set
  FileForks,        \* the workflow file's `forks`; 0 or less when not set
  Variants,         \* the values of `workflow` to consider
  IgnoreErrors,     \* the step's ignore_errors flag
  UseKey,           \* TRUE: for_each_key is set
  Fields,           \* Fields[i]: what the for_each_key field of item i may hold
  PriorStatuses,    \* what the store may already hold for an item (resume)
  MaxRefused        \* bound on the items whose store calls may be refused

RowStatus == {"absent", "running", "paused", "failed", "skipped", "completed"}

Items == 1..N

\* 0 stands for "the item has no such field"
Keys == 0..N

ASSUME ConstantsAssumption ==
  /\ N \in Nat
  /\ StepConcurrency \in Int
  /\ FileForks \in Int
  /\ Variants \subseteq BOOLEAN
  /\ IgnoreErrors \in BOOLEAN
  /\ UseKey \in BOOLEAN
  /\ PriorStatuses \subseteq RowStatus
  /\ Fields \in [Items -> SUBSET Keys]
  /\ MaxRefused \in Nat

Forks == IF FileForks <= 0 THEN 5 ELSE FileForks

Concurrency == IF StepConcurrency <= 0 THEN Forks ELSE StepConcurrency

VARIABLES
  loop,      \* where the loop is
  next,      \* the item the loop is at
  workflow,  \* TRUE: the step calls a sub-workflow per item; fixed
  key,       \* key[i]: the value of the for_each_key field of item i; fixed
  prior,     \* the rows the step found when it started; fixed
  sem,       \* tokens in the semaphore channel
  wg,        \* the WaitGroup's counter
  failed,    \* the atomic flag the loop reads
  firstErr,  \* the error errOnce recorded: "none", "fail" or "pause"
  worker,    \* where the goroutine of each item is
  out,       \* how each item's execution ended
  row,       \* the stored status of the sub-run (or step row) of each key
  results,   \* the items whose contexts were appended to the results
  ret,       \* what executeForEach returned
  late,      \* history: the items whose slot was taken when failed was already set
  refused    \* history: the items that had a store call refused

loopVars == <<loop, next>>
syncVars == <<sem, wg>>
errVars == <<failed, firstErr>>
fixed == <<workflow, key, prior>>
vars == <<loop, next, fixed, sem, wg, failed, firstErr, worker, out, row,
          results, ret, late, refused>>

LoopState == {"validate", "head", "acquire", "recheck", "spawn", "wait",
              "returned"}
WorkerState == {"idle", "starting", "running", "executed", "reported",
                "unwinding", "released", "done"}
Outcome == {"ok", "fail", "pause", "setup"}

TypeOK ==
  /\ loop \in LoopState
  /\ next \in 1..(N + 1)
  /\ workflow \in BOOLEAN
  /\ key \in [Items -> Keys]
  /\ prior \in [Keys -> RowStatus]
  /\ sem \in 0..Concurrency
  /\ wg \in 0..N
  /\ failed \in BOOLEAN
  /\ firstErr \in {"none", "fail", "pause"}
  /\ worker \in [Items -> WorkerState]
  /\ out \in [Items -> Outcome \cup {"none"}]
  /\ row \in [Keys -> RowStatus]
  /\ results \in SUBSET Items
  /\ ret \in {"none", "ok", "fail", "pause"}
  /\ late \in SUBSET Items
  /\ refused \in SUBSET Items

\* The row an item's state lives in: its key, or its index without for_each_key
KeyOf(i) == IF UseKey THEN key[i] ELSE i

Init ==
  /\ loop = "validate"
  /\ next = 1
  /\ workflow \in Variants
  /\ key \in {k \in [Items -> Keys] : \A i \in Items : k[i] \in Fields[i]}
  /\ ~UseKey => \A i \in Items : key[i] = i
  /\ sem = 0
  /\ wg = 0
  /\ failed = FALSE
  /\ firstErr = "none"
  /\ worker = [i \in Items |-> "idle"]
  /\ out = [i \in Items |-> "none"]
  /\ \E p \in [Items -> PriorStatuses] :
       prior = [k \in Keys |-> IF k \in Items THEN p[k] ELSE "absent"]
  /\ row = prior
  /\ results = {}
  /\ ret = "none"
  /\ late = {}
  /\ refused = {}

(***************************************************************************)
(* errOnce.Do: the first error wins, and raises the flag the loop reads.   *)
(***************************************************************************)
RecordFirst(kind) ==
  /\ failed' = TRUE
  /\ firstErr' = IF firstErr = "none" THEN kind ELSE firstErr

(***************************************************************************)
(* The loop.                                                               *)
(***************************************************************************)
\* Mutant: the keys must exist, but may repeat
KeysPresent == UseKey => \A i \in Items : key[i] # 0

KeysValid ==
  UseKey => /\ \A i \in Items : key[i] # 0
            /\ \A i, j \in Items : key[i] = key[j] => i = j

\* The list or the sort field cannot be resolved, or the keys are not valid
ListRejected ==
  /\ loop = "validate"
  /\ loop' = "returned"
  /\ ret' = "fail"
  /\ UNCHANGED <<next, fixed, sem, wg, failed, firstErr, worker, out, row,
                 results, late, refused>>

ListAccepted ==
  /\ loop = "validate"
  /\ KeysValid
  /\ loop' = "head"
  /\ UNCHANGED <<next, fixed, sem, wg, failed, firstErr, worker, out, row,
                 results, ret, late, refused>>

\* The list is exhausted, or an error is already known
LoopExit ==
  /\ loop = "head"
  /\ next > N \/ failed
  /\ loop' = "wait"
  /\ UNCHANGED <<next, fixed, sem, wg, failed, firstErr, worker, out, row,
                 results, ret, late, refused>>

WhenError ==
  /\ loop = "head" /\ next <= N /\ ~failed
  /\ RecordFirst("fail")
  /\ loop' = "wait"
  /\ UNCHANGED <<next, fixed, sem, wg, worker, out, row, results, ret, late, refused>>

WhenFalse ==
  /\ loop = "head" /\ next <= N /\ ~failed
  /\ next' = next + 1
  /\ UNCHANGED <<loop, fixed, sem, wg, failed, firstErr, worker, out, row,
                 results, ret, late, refused>>

WhenTrue ==
  /\ loop = "head" /\ next <= N /\ ~failed
  /\ loop' = "acquire"
  /\ UNCHANGED <<next, fixed, sem, wg, failed, firstErr, worker, out, row,
                 results, ret, late, refused>>

\* Mutant: the channel never blocks
AcquireUnbounded ==
  /\ loop = "acquire"
  /\ sem' = sem + 1
  /\ loop' = "recheck"
  /\ late' = IF failed THEN late \cup {next} ELSE late
  /\ UNCHANGED <<next, fixed, wg, failed, firstErr, worker, out, row, results, ret, refused>>

\* sem <- struct{}{}: blocks while the channel is full
Acquire ==
  /\ loop = "acquire"
  /\ sem < Concurrency
  /\ sem' = sem + 1
  /\ loop' = "recheck"
  /\ late' = IF failed THEN late \cup {next} ELSE late
  /\ UNCHANGED <<next, fixed, wg, failed, firstErr, worker, out, row, results, ret, refused>>

\* Mutant: the loop does not look at the flag again
RecheckNothing ==
  /\ loop = "recheck"
  /\ loop' = "spawn"
  /\ UNCHANGED <<next, fixed, sem, wg, failed, firstErr, worker, out, row, results,
                 ret, late, refused>>

Recheck ==
  /\ loop = "recheck"
  /\ \/ failed /\ sem' = sem - 1 /\ loop' = "wait"
     \/ ~failed /\ loop' = "spawn" /\ UNCHANGED sem
  /\ UNCHANGED <<next, fixed, wg, failed, firstErr, worker, out, row, results,
                 ret, late, refused>>

\* wg.Add(1); go func(...) {...}(i, item)
Spawn ==
  /\ loop = "spawn"
  /\ wg' = wg + 1
  /\ worker' = [worker EXCEPT ![next] = "starting"]
  /\ next' = next + 1
  /\ loop' = "head"
  /\ UNCHANGED <<fixed, sem, failed, firstErr, out, row, results, ret, late, refused>>

\* wg.Wait(), register the results, return firstErr
Return ==
  /\ loop = "wait"
  /\ wg = 0
  /\ loop' = "returned"
  /\ ret' = IF firstErr = "none" THEN "ok" ELSE firstErr
  /\ UNCHANGED <<next, fixed, sem, wg, failed, firstErr, worker, out, row,
                 results, late, refused>>

(***************************************************************************)
(* The goroutine of item i.                                                *)
(***************************************************************************)
\* The sub-workflow cannot be resolved, its vars cannot be rendered, or its
\* sub-run belongs to another workflow: ignore_errors is not consulted
SetupError(i) ==
  /\ workflow
  /\ worker[i] = "starting"
  /\ RecordFirst("fail")
  /\ out' = [out EXCEPT ![i] = "setup"]
  /\ worker' = [worker EXCEPT ![i] = "unwinding"]
  /\ UNCHANGED <<loop, next, fixed, sem, wg, row, results, ret, late, refused>>

\* The store refuses a call of item i: its context is cancelled, the disk is full...
Refuse(i) ==
  /\ i \in refused \/ Cardinality(refused) < MaxRefused
  /\ refused' = refused \cup {i}

\* CreateRun is an INSERT whose error is ignored: an existing row stays as it is, and
\* the sub-run is executed without a row when it could not be written
Begin(i) ==
  /\ worker[i] = "starting"
  /\ worker' = [worker EXCEPT ![i] = "running"]
  /\ \/ /\ row' = IF workflow /\ row[KeyOf(i)] = "absent"
                  THEN [row EXCEPT ![KeyOf(i)] = "running"] ELSE row
        /\ UNCHANGED refused
     \/ workflow /\ Refuse(i) /\ UNCHANGED row
  /\ UNCHANGED <<loop, next, fixed, sem, wg, failed, firstErr, out, results, ret,
                 late>>

\* The statuses an item that ended with o is saved with; a step item whose `when` is
\* false is skipped, which is no error
Settles(o) ==
  {s \in RowStatus : \/ o = "ok" /\ s = "completed"
                     \/ o = "ok" /\ s = "skipped" /\ ~workflow
                     \/ o = "fail" /\ s = "failed"
                     \/ o = "pause" /\ s = "paused"}

\* executeWorkflow returns; what it does to its own rows is not modelled here
ExecuteSubRun(i, o) ==
  /\ workflow
  /\ UNCHANGED <<row, refused>>

\* A completed item is replayed
Replay(i, o) ==
  /\ ~workflow
  /\ row[KeyOf(i)] = "completed" /\ o = "ok"
  /\ UNCHANGED <<row, refused>>

\* Any other is executed, and writes its row itself
ExecuteStep(i, o) ==
  /\ ~workflow
  /\ row[KeyOf(i)] # "completed"
  /\ \E s \in Settles(o) : row' = [row EXCEPT ![KeyOf(i)] = s]
  /\ UNCHANGED refused

\* GetStep fails, and the item is executed although it is completed; or a write fails:
\* only that of an executor's result fails the item, and leaves the row "running"
ExecuteRefused(i, o) ==
  /\ ~workflow
  /\ Refuse(i)
  /\ \E s \in Settles(o) \cup {row[KeyOf(i)]} \cup (IF o = "fail" THEN {"running"} ELSE {}) :
       row' = [row EXCEPT ![KeyOf(i)] = s]

\* executeWorkflow or executeStepWithStateName returns
Execute(i) ==
  /\ worker[i] = "running"
  /\ \E o \in {"ok", "fail", "pause"} :
       /\ ExecuteSubRun(i, o) \/ Replay(i, o) \/ ExecuteStep(i, o) \/ ExecuteRefused(i, o)
       /\ out' = [out EXCEPT ![i] = o]
  /\ worker' = [worker EXCEPT ![i] = "executed"]
  /\ UNCHANGED <<loop, next, fixed, sem, wg, failed, firstErr, results, ret, late>>

\* Mutant: a paused item is an item like any other
StopsOnFailure(o) == o = "fail" /\ ~IgnoreErrors

\* The outcomes that end the loop: ignore_errors covers failures, not pauses
Stops(o) == o = "pause" \/ (o = "fail" /\ ~IgnoreErrors)

\* errOnce.Do(...) when the outcome stops the loop.  A step item that stops it
\* returns at once; a sub-workflow item goes on to save and append
Report(i) ==
  /\ worker[i] = "executed"
  /\ IF Stops(out[i]) THEN RecordFirst(out[i]) ELSE UNCHANGED errVars
  /\ worker' = [worker EXCEPT ![i] = IF Stops(out[i]) /\ ~workflow
                                     THEN "unwinding" ELSE "reported"]
  /\ UNCHANGED <<loop, next, fixed, sem, wg, out, row, results, ret, late, refused>>

\* e.store.UpdateRun(ctx, subRun), then results = append(results, ...).  The error of
\* UpdateRun is ignored, and an UPDATE of a row that was not created changes nothing
Save(i) ==
  /\ worker[i] = "reported"
  /\ \/ /\ \E s \in Settles(out[i]) :
             row' = IF workflow /\ row[KeyOf(i)] # "absent"
                    THEN [row EXCEPT ![KeyOf(i)] = s] ELSE row
        /\ UNCHANGED refused
     \/ workflow /\ Refuse(i) /\ UNCHANGED row
  /\ results' = results \cup {i}
  /\ worker' = [worker EXCEPT ![i] = "unwinding"]
  /\ UNCHANGED <<loop, next, fixed, sem, wg, failed, firstErr, out, ret, late>>

\* Mutant: the goroutine ends without giving its slot back
ReleaseNothing(i) ==
  /\ worker[i] = "unwinding"
  /\ worker' = [worker EXCEPT ![i] = "released"]
  /\ UNCHANGED <<loop, next, fixed, sem, wg, failed, firstErr, out, row, results, ret,
                 late, refused>>

\* The deferred calls, last registered first: <-sem, then wg.Done()
Release(i) ==
  /\ worker[i] = "unwinding"
  /\ sem' = sem - 1
  /\ worker' = [worker EXCEPT ![i] = "released"]
  /\ UNCHANGED <<loop, next, fixed, wg, failed, firstErr, out, row, results, ret,
                 late, refused>>

Done(i) ==
  /\ worker[i] = "released"
  /\ wg' = wg - 1
  /\ worker' = [worker EXCEPT ![i] = "done"]
  /\ UNCHANGED <<loop, next, fixed, sem, failed, firstErr, out, row, results, ret,
                 late, refused>>

Loop ==
  \/ ListRejected \/ ListAccepted \/ LoopExit
  \/ WhenError \/ WhenFalse \/ WhenTrue
  \/ Acquire \/ Recheck \/ Spawn \/ Return

\* What the engine's own code does; Execute is an executor, or a whole sub-run
Own(i) ==
  SetupError(i) \/ Begin(i) \/ Report(i) \/ Save(i) \/ Release(i) \/ Done(i)

Worker(i) == Own(i) \/ Execute(i)

\* executeForEach has returned: nothing is left to do
Finished == loop = "returned" /\ UNCHANGED vars

Next == Loop \/ (\E i \in Items : Worker(i)) \/ Finished

(***************************************************************************)
(* The Go scheduler runs every runnable goroutine eventually.  Nothing is  *)
(* assumed of the executors: a step's timeout is optional.                 *)
(***************************************************************************)
Fairness == WF_vars(Loop) /\ \A i \in Items : WF_vars(Own(i))

Spec == Init /\ [][Next]_vars
FairSpec == Spec /\ Fairness

(***************************************************************************)
(* Properties.                                                             *)
(***************************************************************************)
\* The items whose goroutine holds a slot
InFlight == {i \in Items : worker[i] \in {"starting", "running", "executed",
                                          "reported", "unwinding"}}

\* The goroutines the WaitGroup counts
Counted == {i \in Items : worker[i] \notin {"idle", "done"}}

\* "A buffered channel of size `concurrency` acts as a semaphore": at no time
\* do more than `concurrency` goroutines run an item
BoundedConcurrency == Cardinality(InFlight) <= Concurrency

\* "So no new item starts after an earlier one failed": an item that gets its slot
\* when an error is already known never starts, although the loop looked at the flag
\* before it waited for the slot (with one slot, no item at all starts after an error)
StopsAfterError == \A i \in late : worker[i] = "idle"

\* Two goroutines never work on the same sub-run or step row: the duplicate-key
\* check of the loop is what keeps items apart
DistinctRows ==
  \A i, j \in InFlight : KeyOf(i) = KeyOf(j) => i = j

\* What the store says of an item that ended is how it ended.  Where it refused a call
\* of the item, it may still say what it said before, or that the item is running
Settled(i) ==
  \/ row[KeyOf(i)] \in Settles(out[i])
  \/ i \in refused /\ row[KeyOf(i)] \in {prior[KeyOf(i)], "running"}

\* When the step returns, every goroutine it started has ended and left its item
\* settled; the row of an item that did not run is as it was
SettledOnReturn ==
  loop = "returned" =>
    \A i \in Items :
      /\ worker[i] \in {"idle", "done"}
      /\ IF out[i] \in {"none", "setup"} THEN row[KeyOf(i)] = prior[KeyOf(i)]
         ELSE Settled(i)

\* An error is not lost: the step succeeds only if no item paused and none failed
\* (or failures are ignored), with the results of every item that ran
NothingLost ==
  ret = "ok" =>
    /\ \A i \in Items : out[i] \in {"none", "ok"} \/ (IgnoreErrors /\ out[i] = "fail")
    /\ results = {i \in Items : out[i] # "none"}

\* Every launched item ends and the step returns, unless an executor never does: the
\* loop and the goroutines never wait for a slot or for the WaitGroup forever
Returns == <>(loop = "returned") \/ <>[](\E i \in Items : worker[i] = "running")

(***************************************************************************)
(* The inductive invariant behind these properties (proved in              *)
(* ForEachProofs).                                                         *)
(***************************************************************************)
\* Every token of the semaphore belongs to a goroutine or to the loop itself
Held == IF loop \in {"recheck", "spawn"} THEN 1 ELSE 0
SlotInv == sem = Cardinality(InFlight) + Held

\* The WaitGroup counts exactly the goroutines that have not called Done
WaitInv == wg = Cardinality(Counted)

\* The loop launches items in list order, and only items of the list
FrontierInv ==
  /\ \A i \in Items : i >= next => worker[i] = "idle"
  /\ loop \in {"acquire", "recheck", "spawn"} => next <= N
  /\ loop = "validate" => \A i \in Items : worker[i] = "idle"
  /\ loop = "returned" => \A i \in Items : worker[i] \in {"idle", "done"}

\* A slot that is taken too late ends the loop without a launch
LateInv ==
  /\ late \subseteq {next}
  /\ late # {} => failed /\ loop \in {"recheck", "wait", "returned"}

\* Past the validation, and once an item is launched, the keys are distinct
KeyInv ==
  /\ loop \notin {"validate", "returned"} => KeysValid
  /\ (\E i \in Items : worker[i] # "idle") => KeysValid

\* A row is what the step found until the item's own goroutine writes it, and says how
\* the item ended once that goroutine has saved it
Untouched(i) ==
  worker[i] \in {"idle", "starting"} \/ out[i] = "setup" \/ (worker[i] = "running" /\ ~workflow)
SubRunUnderWay(i) == workflow /\ worker[i] \in {"running", "executed", "reported"}
Saved(i) ==
  \/ worker[i] \in {"unwinding", "released", "done"} /\ out[i] # "setup"
  \/ worker[i] \in {"executed", "reported"} /\ ~workflow

RowInv ==
  \A i \in Items :
    /\ (worker[i] \in {"idle", "starting", "running"}) <=> (out[i] = "none")
    /\ worker[i] \in {"executed", "reported"} => out[i] # "setup"
    /\ Untouched(i) => row[KeyOf(i)] = prior[KeyOf(i)]
    /\ SubRunUnderWay(i) => /\ row[KeyOf(i)] \in {prior[KeyOf(i)], "running"}
                            /\ row[KeyOf(i)] = "absent" => i \in refused
    /\ Saved(i) => Settled(i)

\* The flag and the first error agree, a stopping outcome raises the flag before
\* its goroutine unwinds, and only a goroutine that raised it may skip its result
ErrInv ==
  /\ failed <=> firstErr # "none"
  /\ firstErr = "pause" => \E i \in Items : out[i] = "pause"
  /\ \A i \in Items :
       worker[i] \in {"reported", "unwinding", "released", "done"}
         => failed \/ (out[i] # "setup" /\ ~Stops(out[i]))
  /\ \A i \in results : worker[i] \in {"unwinding", "released", "done"}
  /\ \A i \in Items :
       worker[i] \in {"unwinding", "released", "done"} => failed \/ i \in results
  /\ ret # "none" <=> loop = "returned"
  /\ ret = "ok" => ~failed
  /\ ret = "pause" => firstErr = "pause"

IInv == TypeOK /\ SlotInv /\ WaitInv /\ FrontierInv /\ LateInv /\ KeyInv
          /\ RowInv /\ ErrInv

(***************************************************************************)
(* docs/reference/for-each.md, "Registered results": "Still collected from *)
(* all iterations that ran".  A step item that fails returns before it     *)
(* appends.                                                                *)
(***************************************************************************)
ResultsFromAllThatRan ==
  loop = "returned" => {i \in Items : out[i] \in {"ok", "fail"}} \subseteq results

(***************************************************************************)
(* ForEach implements ForEachContract: an item is active while it holds    *)
(* its slot, and shows its outcome once the slot is given back.            *)
(***************************************************************************)
ItemState(i) ==
  IF i \in InFlight THEN "active" ELSE IF worker[i] = "idle" THEN "idle" ELSE out[i]

Contract == INSTANCE ForEachContract
              WITH Limit <- Concurrency, st <- [i \in Items |-> ItemState(i)]

\* Every behaviour of the loop and its goroutines is one the contract allows
ImplementsContract == Contract!ContractSpec

=============================================================================

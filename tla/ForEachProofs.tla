--------------------------- MODULE ForEachProofs ---------------------------
(***************************************************************************)
(* Proofs about ForEach for every list length, concurrency and setting of  *)
(* the step's flags, and, from the first line across on, about RunContext  *)
(* for every workflow, context and sequence of resumes.                    *)
(***************************************************************************)
EXTENDS ForEach, RunContext, FiniteSetTheorems, WellFoundedInduction, TLAPS

USE DEF fixed

(***************************************************************************)
(* The effective concurrency is at least one whatever the step and the     *)
(* file ask for, so the semaphore channel is never unbuffered.             *)
(***************************************************************************)
LEMMA ConcurrencyPositive == Concurrency \in Nat /\ Concurrency >= 1
  BY ConstantsAssumption DEF Concurrency, Forks

\* The sets of goroutines are finite: their cardinalities are numbers
LEMMA GoroutinesFinite ==
  /\ IsFiniteSet(Items)
  /\ Cardinality(Items) = N
  /\ IsFiniteSet(InFlight) /\ Cardinality(InFlight) \in Nat
  /\ IsFiniteSet(Counted) /\ Cardinality(Counted) \in 0..N
  <1>1. IsFiniteSet(Items) /\ Cardinality(Items) = N
    BY ConstantsAssumption, FS_Interval DEF Items
  <1>2. InFlight \subseteq Items /\ Counted \subseteq Items
    BY DEF InFlight, Counted
  <1>3. IsFiniteSet(InFlight) /\ IsFiniteSet(Counted)
    BY <1>1, <1>2, FS_Subset
  <1>4. Cardinality(Counted) <= Cardinality(Items)
    BY <1>1, <1>2, FS_Subset
  <1>5. Cardinality(InFlight) \in Nat /\ Cardinality(Counted) \in Nat
    BY <1>3, FS_CardinalityType
  <1> QED
    BY <1>1, <1>3, <1>4, <1>5, ConstantsAssumption

(***************************************************************************)
(* How a step changes the two sets of goroutines, from what it does to     *)
(* worker alone.                                                           *)
(***************************************************************************)
SlotStates == {"starting", "running", "executed", "reported", "unwinding"}

\* A goroutine that moves without taking or giving back a slot, or ending
LEMMA MoveInside ==
  ASSUME TypeOK, NEW i \in Items, NEW s \in SlotStates,
         worker[i] \in SlotStates,
         worker' = [worker EXCEPT ![i] = s]
  PROVE  InFlight' = InFlight /\ Counted' = Counted
  BY DEF TypeOK, InFlight, Counted, SlotStates

\* A goroutine is launched
LEMMA MoveIn ==
  ASSUME TypeOK, NEW i \in Items, worker[i] = "idle",
         worker' = [worker EXCEPT ![i] = "starting"]
  PROVE  /\ Cardinality(InFlight') = Cardinality(InFlight) + 1
         /\ Cardinality(Counted') = Cardinality(Counted) + 1
  <1>1. InFlight' = InFlight \cup {i} /\ i \notin InFlight
    BY DEF TypeOK, InFlight
  <1>2. Counted' = Counted \cup {i} /\ i \notin Counted
    BY DEF TypeOK, Counted
  <1> QED
    BY <1>1, <1>2, GoroutinesFinite, FS_AddElement

\* A goroutine gives its slot back
LEMMA MoveOut ==
  ASSUME TypeOK, NEW i \in Items, worker[i] = "unwinding",
         worker' = [worker EXCEPT ![i] = "released"]
  PROVE  /\ Cardinality(InFlight') = Cardinality(InFlight) - 1
         /\ Counted' = Counted
  <1>1. InFlight' = InFlight \ {i} /\ i \in InFlight
    BY DEF TypeOK, InFlight
  <1>2. Counted' = Counted
    BY DEF TypeOK, Counted
  <1> QED
    BY <1>1, <1>2, GoroutinesFinite, FS_RemoveElement

\* A goroutine ends
LEMMA MoveDone ==
  ASSUME TypeOK, NEW i \in Items, worker[i] = "released",
         worker' = [worker EXCEPT ![i] = "done"]
  PROVE  /\ InFlight' = InFlight
         /\ Cardinality(Counted') = Cardinality(Counted) - 1
  <1>1. Counted' = Counted \ {i} /\ i \in Counted
    BY DEF TypeOK, Counted
  <1>2. InFlight' = InFlight
    BY DEF TypeOK, InFlight
  <1> QED
    BY <1>1, <1>2, GoroutinesFinite, FS_RemoveElement

(***************************************************************************)
(* The invariant holds initially.                                          *)
(***************************************************************************)
LEMMA InitIInv == Init => IInv
  <1> SUFFICES ASSUME Init PROVE IInv
    OBVIOUS
  <1>1. InFlight = {} /\ Counted = {}
    BY DEF Init, InFlight, Counted
  <1>2. Cardinality(InFlight) = 0 /\ Cardinality(Counted) = 0
    BY <1>1, FS_EmptySet
  <1>3. TypeOK
    <2>1. row \in [Keys -> RowStatus] /\ prior \in [Keys -> RowStatus]
      BY ConstantsAssumption DEF Init, RowStatus
    <2>4. workflow \in BOOLEAN /\ key \in [Items -> Keys]
      BY ConstantsAssumption DEF Init
    <2>2. next \in 1..(N + 1) /\ sem \in 0..Concurrency /\ wg \in 0..N
      BY ConstantsAssumption, ConcurrencyPositive DEF Init
    <2>3. worker \in [Items -> WorkerState] /\ out \in [Items -> Outcome \cup {"none"}]
      BY DEF Init, WorkerState
    <2> QED
      BY <2>1, <2>2, <2>3, <2>4 DEF Init, TypeOK, LoopState
  <1>4. SlotInv /\ WaitInv
    BY <1>2 DEF Init, SlotInv, WaitInv, Held
  <1>5. FrontierInv /\ LateInv /\ KeyInv
    BY DEF Init, FrontierInv, LateInv, KeyInv
  <1>6. RowInv /\ ErrInv
    <2>1. \A i \in Items : /\ worker[i] = "idle" /\ out[i] = "none"
                           /\ row = prior
      BY DEF Init
    <2>2. RowInv
      BY <2>1 DEF RowInv, Untouched, SubRunUnderWay, Saved
    <2>3. ErrInv
      BY DEF Init, ErrInv
    <2> QED BY <2>2, <2>3
  <1> QED
    BY <1>3, <1>4, <1>5, <1>6 DEF IInv

(***************************************************************************)
(* What Execute does to the rows: its own row alone, whatever its variant  *)
(* and whatever the store refuses.                                         *)
(***************************************************************************)
LEMMA SettlesType == \A o : Settles(o) \subseteq RowStatus
  BY DEF Settles, RowStatus

LEMMA RowWritten ==
  ASSUME TypeOK, NEW i \in Items, KeyOf(i) \in Keys, NEW o \in Outcome,
         ExecuteSubRun(i, o) \/ Replay(i, o) \/ ExecuteStep(i, o) \/ ExecuteRefused(i, o)
  PROVE  /\ row' \in [Keys -> RowStatus] /\ refused' \in SUBSET Items
         /\ \A k \in Keys : k # KeyOf(i) => row'[k] = row[k]
         /\ refused \subseteq refused' /\ refused' \subseteq refused \cup {i}
  <1>1. CASE ExecuteSubRun(i, o) \/ Replay(i, o)
    BY <1>1 DEF ExecuteSubRun, Replay, TypeOK
  <1>2. CASE ExecuteStep(i, o)
    BY <1>2, SettlesType DEF ExecuteStep, TypeOK
  <1>3. CASE ExecuteRefused(i, o)
    <2>1. PICK s \in Settles(o) \cup {row[KeyOf(i)]}
                       \cup (IF o = "fail" THEN {"running"} ELSE {}) :
                 row' = [row EXCEPT ![KeyOf(i)] = s]
      BY <1>3 DEF ExecuteRefused
    <2>2. s \in RowStatus
      BY SettlesType DEF RowStatus, TypeOK
    <2>3. refused' = refused \cup {i}
      BY <1>3 DEF ExecuteRefused, Refuse
    <2> QED BY <2>1, <2>2, <2>3 DEF TypeOK
  <1> QED BY <1>1, <1>2, <1>3

(***************************************************************************)
(* Types are preserved; the counters stay in their ranges because of the   *)
(* slot and wait-group invariants.                                         *)
(***************************************************************************)
LEMMA TypeStep == IInv /\ [Next]_vars => TypeOK'
  <1> SUFFICES ASSUME IInv, [Next]_vars PROVE TypeOK'
    OBVIOUS
  <1> USE ConstantsAssumption, ConcurrencyPositive
  <1>0. TypeOK /\ SlotInv /\ WaitInv /\ FrontierInv
    BY DEF IInv
  <1>k. \A i \in Items : KeyOf(i) \in Keys
    BY <1>0 DEF TypeOK, KeyOf, Keys, Items
  <1>1. CASE ListRejected \/ ListAccepted \/ LoopExit \/ Return
    BY <1>0, <1>1 DEF TypeOK, LoopState, ListRejected, ListAccepted, LoopExit, Return
  <1>2. CASE WhenError \/ WhenFalse \/ WhenTrue
    <2>1. next' \in 1..(N + 1)
      BY <1>0, <1>2 DEF TypeOK, WhenError, WhenFalse, WhenTrue
    <2> QED
      BY <1>0, <1>2, <2>1
         DEF TypeOK, LoopState, WhenError, WhenFalse, WhenTrue, RecordFirst
  <1>3. CASE Acquire
    <2>1. next \in Items
      BY <1>0, <1>3 DEF Acquire, FrontierInv, TypeOK, Items
    <2> QED
      BY <1>0, <1>3, <2>1 DEF TypeOK, LoopState, Acquire
  <1>4. CASE Recheck
    BY <1>0, <1>4, GoroutinesFinite
       DEF TypeOK, LoopState, Recheck, SlotInv, Held
  <1>5. CASE Spawn
    <2>1. next \in Items /\ worker[next] = "idle"
      BY <1>0, <1>5 DEF Spawn, FrontierInv, TypeOK, Items
    <2>2. Counted \subseteq Items \ {next}
      BY <2>1 DEF Counted
    <2>3. Cardinality(Counted) <= Cardinality(Items \ {next})
      BY <2>2, GoroutinesFinite, FS_Subset, FS_RemoveElement
    <2>4. Cardinality(Items \ {next}) = N - 1
      BY <2>1, GoroutinesFinite, FS_RemoveElement
    <2>5. wg' \in 0..N
      BY <1>0, <1>5, <2>3, <2>4, GoroutinesFinite DEF Spawn, WaitInv
    <2>6. worker' \in [Items -> WorkerState]
      BY <1>0, <1>5 DEF Spawn, TypeOK, WorkerState
    <2> QED
      BY <1>0, <1>5, <2>1, <2>5, <2>6 DEF Spawn, TypeOK, LoopState, Items
  <1>6. ASSUME NEW i \in Items, Worker(i) PROVE TypeOK'
    <2>1. CASE SetupError(i) \/ Begin(i) \/ Report(i)
      BY <1>0, <2>1 DEF SetupError, Begin, Refuse, Report, RecordFirst, errVars, Stops,
                        TypeOK, WorkerState, Outcome, RowStatus
    <2>2. CASE Execute(i)
      BY <1>0, <1>k, <2>2, RowWritten DEF Execute, TypeOK, WorkerState, Outcome
    <2>3. CASE Save(i)
      BY <1>0, <1>k, <2>3, SettlesType DEF Save, Refuse, TypeOK, WorkerState
    <2>4. CASE Release(i)
      <3>1. i \in InFlight
        BY <2>4 DEF Release, InFlight
      <3>2. Cardinality(InFlight) >= 1
        <4>1. Cardinality(InFlight \ {i}) = Cardinality(InFlight) - 1
              /\ IsFiniteSet(InFlight \ {i})
          BY <3>1, GoroutinesFinite, FS_RemoveElement
        <4>2. Cardinality(InFlight \ {i}) \in Nat
          BY <4>1, FS_CardinalityType
        <4> QED BY <4>1, <4>2, GoroutinesFinite
      <3> QED
        BY <1>0, <2>4, <3>2, GoroutinesFinite
           DEF Release, TypeOK, WorkerState, SlotInv, Held
    <2>5. CASE Done(i)
      <3>1. i \in Counted
        BY <2>5 DEF Done, Counted
      <3>2. Cardinality(Counted) >= 1
        <4>1. Cardinality(Counted \ {i}) = Cardinality(Counted) - 1
              /\ IsFiniteSet(Counted \ {i})
          BY <3>1, GoroutinesFinite, FS_RemoveElement
        <4>2. Cardinality(Counted \ {i}) \in Nat
          BY <4>1, FS_CardinalityType
        <4> QED BY <4>1, <4>2, GoroutinesFinite
      <3> QED
        BY <1>0, <2>5, <3>2, GoroutinesFinite DEF Done, TypeOK, WorkerState, WaitInv
    <2> QED
      BY <1>6, <2>1, <2>2, <2>3, <2>4, <2>5 DEF Worker, Own
  <1>7. CASE UNCHANGED vars
    BY <1>0, <1>7 DEF vars, TypeOK
  <1> QED
    BY <1>1, <1>2, <1>3, <1>4, <1>5, <1>6, <1>7 DEF Next, Loop, Finished

(***************************************************************************)
(* Slots and the wait group follow the goroutines.                         *)
(***************************************************************************)
LEMMA CountStep == IInv /\ [Next]_vars => SlotInv' /\ WaitInv'
  <1> SUFFICES ASSUME IInv, [Next]_vars PROVE SlotInv' /\ WaitInv'
    OBVIOUS
  <1>0. TypeOK /\ SlotInv /\ WaitInv /\ FrontierInv
    BY DEF IInv
  <1>1. ASSUME UNCHANGED worker PROVE InFlight' = InFlight /\ Counted' = Counted
    BY <1>1 DEF InFlight, Counted
  <1>2. CASE ListRejected \/ ListAccepted \/ LoopExit \/ WhenError \/ WhenFalse
             \/ WhenTrue \/ Acquire \/ Recheck \/ Return
    BY <1>0, <1>1, <1>2, GoroutinesFinite
       DEF ListRejected, ListAccepted, LoopExit, WhenError, WhenFalse, WhenTrue,
           Acquire, Recheck, Return, SlotInv, WaitInv, Held, TypeOK
  <1>3. CASE Spawn
    <2>1. next \in Items /\ worker[next] = "idle"
      BY <1>0, <1>3, ConstantsAssumption DEF Spawn, FrontierInv, TypeOK, Items
    <2>2. /\ Cardinality(InFlight') = Cardinality(InFlight) + 1
          /\ Cardinality(Counted') = Cardinality(Counted) + 1
      BY <1>0, <1>3, <2>1, MoveIn DEF Spawn
    <2> QED
      BY <1>0, <1>3, <2>2, GoroutinesFinite DEF Spawn, SlotInv, WaitInv, Held
  <1>4. ASSUME NEW i \in Items, Worker(i) PROVE SlotInv' /\ WaitInv'
    <2>1. CASE SetupError(i) \/ Begin(i) \/ Execute(i) \/ Report(i) \/ Save(i)
      <3>1. worker[i] \in SlotStates
        BY <2>1 DEF SetupError, Begin, Execute, Report, Save, SlotStates
      <3>2. \E s \in SlotStates : worker' = [worker EXCEPT ![i] = s]
        BY <2>1 DEF SetupError, Begin, Execute, Report, Save, SlotStates
      <3>3. InFlight' = InFlight /\ Counted' = Counted
        BY <1>0, <3>1, <3>2, MoveInside
      <3> QED
        BY <1>0, <2>1, <3>3
           DEF SetupError, Begin, Execute, Report, Save, SlotInv, WaitInv, Held
    <2>2. CASE Release(i)
      <3>1. /\ Cardinality(InFlight') = Cardinality(InFlight) - 1
            /\ Counted' = Counted
        BY <1>0, <2>2, MoveOut DEF Release
      <3> QED
        BY <1>0, <2>2, <3>1, GoroutinesFinite DEF Release, SlotInv, WaitInv, Held
    <2>3. CASE Done(i)
      <3>1. /\ InFlight' = InFlight
            /\ Cardinality(Counted') = Cardinality(Counted) - 1
        BY <1>0, <2>3, MoveDone DEF Done
      <3> QED
        BY <1>0, <2>3, <3>1, GoroutinesFinite DEF Done, SlotInv, WaitInv, Held
    <2> QED
      BY <1>4, <2>1, <2>2, <2>3 DEF Worker, Own
  <1>5. CASE UNCHANGED vars
    BY <1>0, <1>1, <1>5 DEF vars, SlotInv, WaitInv, Held
  <1> QED
    BY <1>2, <1>3, <1>4, <1>5 DEF Next, Loop, Finished

\* A WaitGroup at zero means that no goroutine is left
LEMMA ZeroMeansNone ==
  ASSUME WaitInv, wg = 0 PROVE Counted = {}
  BY GoroutinesFinite, FS_EmptySet DEF WaitInv

(***************************************************************************)
(* The loop launches items in order, and returns when none is in flight.   *)
(***************************************************************************)
LEMMA FrontierStep == IInv /\ [Next]_vars => FrontierInv'
  <1> SUFFICES ASSUME IInv, [Next]_vars PROVE FrontierInv'
    OBVIOUS
  <1> USE ConstantsAssumption
  <1>0. TypeOK /\ WaitInv /\ FrontierInv
    BY DEF IInv
  <1>1. CASE ListRejected \/ ListAccepted \/ LoopExit \/ WhenError \/ WhenFalse
             \/ WhenTrue \/ Acquire \/ Recheck
    BY <1>0, <1>1
       DEF ListRejected, ListAccepted, LoopExit, WhenError, WhenFalse, WhenTrue,
           Acquire, Recheck, FrontierInv, TypeOK, Items
  <1>2. CASE Spawn
    BY <1>0, <1>2 DEF Spawn, FrontierInv, TypeOK, Items
  <1>3. CASE Return
    <2>1. \A i \in Items : worker[i] \in {"idle", "done"}
      BY <1>0, <1>3, ZeroMeansNone DEF Return, Counted
    <2> QED
      BY <1>0, <1>3, <2>1 DEF Return, FrontierInv
  <1>4. ASSUME NEW i \in Items, Worker(i) PROVE FrontierInv'
    <2>1. worker[i] \notin {"idle", "done"}
      BY <1>4 DEF Worker, Own, SetupError, Begin, Execute, Report, Save, Release, Done
    <2>2. \E s \in WorkerState : worker' = [worker EXCEPT ![i] = s]
      BY <1>4 DEF Worker, Own, SetupError, Begin, Execute, Report, Save, Release, Done,
                  WorkerState
    <2>3. UNCHANGED loopVars
      BY <1>4 DEF Worker, Own, SetupError, Begin, Execute, Report, Save, Release, Done,
                  loopVars
    <2> QED
      BY <1>0, <2>1, <2>2, <2>3 DEF FrontierInv, TypeOK, loopVars
  <1>5. CASE UNCHANGED vars
    BY <1>0, <1>5 DEF vars, FrontierInv
  <1> QED
    BY <1>1, <1>2, <1>3, <1>4, <1>5 DEF Next, Loop, Finished

(***************************************************************************)
(* An item whose slot is taken when the flag is up is the one the loop is  *)
(* at, and the second check of the flag turns the loop away from it.       *)
(***************************************************************************)
LEMMA LateStep == IInv /\ [Next]_vars => LateInv'
  <1> SUFFICES ASSUME IInv, [Next]_vars PROVE LateInv'
    OBVIOUS
  <1>0. TypeOK /\ FrontierInv /\ LateInv
    BY DEF IInv
  <1>1. CASE ListRejected \/ ListAccepted \/ LoopExit \/ WhenError \/ WhenFalse
             \/ WhenTrue \/ Recheck \/ Return
    BY <1>0, <1>1
       DEF ListRejected, ListAccepted, LoopExit, WhenError, WhenFalse, WhenTrue,
           Recheck, Return, RecordFirst, LateInv
  <1>2. CASE Acquire
    BY <1>0, <1>2 DEF Acquire, LateInv
  <1>3. CASE Spawn
    BY <1>0, <1>3 DEF Spawn, LateInv
  <1>4. ASSUME NEW i \in Items, Worker(i) PROVE LateInv'
    <2>1. UNCHANGED <<loop, next, late>> /\ (failed => failed')
      BY <1>0, <1>4
         DEF Worker, Own, SetupError, Begin, Execute, Report, Save, Release, Done,
             RecordFirst, errVars
    <2> QED
      BY <1>0, <2>1 DEF LateInv
  <1>5. CASE UNCHANGED vars
    BY <1>0, <1>5 DEF vars, LateInv
  <1> QED
    BY <1>1, <1>2, <1>3, <1>4, <1>5 DEF Next, Loop, Finished

\* No item is launched before the keys have been checked
LEMMA KeyStep == IInv /\ [Next]_vars => KeyInv'
  <1> SUFFICES ASSUME IInv, [Next]_vars PROVE KeyInv'
    OBVIOUS
  <1>0. TypeOK /\ FrontierInv /\ KeyInv
    BY DEF IInv
  <1>1. KeysValid' <=> KeysValid
    BY DEF Next, Loop, ListRejected, ListAccepted, LoopExit, WhenError, WhenFalse,
           WhenTrue, Acquire, Recheck, Spawn, Return, Worker, Own, SetupError, Begin,
           Execute, Report, Save, Release, Done, Finished, vars, KeysValid
  <1>2. CASE Loop
    BY <1>0, <1>1, <1>2
       DEF Loop, ListRejected, ListAccepted, LoopExit, WhenError, WhenFalse,
           WhenTrue, Acquire, Recheck, Spawn, Return, FrontierInv, KeyInv
  <1>3. ASSUME NEW i \in Items, Worker(i) PROVE KeyInv'
    <2>1. worker[i] # "idle" /\ UNCHANGED loop
      BY <1>3 DEF Worker, Own, SetupError, Begin, Execute, Report, Save, Release, Done
    <2> QED
      BY <1>0, <1>1, <2>1 DEF KeyInv
  <1>4. CASE UNCHANGED vars
    BY <1>0, <1>1, <1>4 DEF vars, KeyInv
  <1> QED
    BY <1>2, <1>3, <1>4 DEF Next, Finished

\* Two launched items never share a row
LEMMA RowsApart ==
  ASSUME KeyInv, NEW i \in Items, NEW j \in Items, i # j, worker[i] # "idle"
  PROVE  KeyOf(i) # KeyOf(j)
  BY DEF KeyInv, KeysValid, KeyOf

(***************************************************************************)
(* What is known of one item's row.                                        *)
(***************************************************************************)
RowOf(i) ==
  /\ (worker[i] \in {"idle", "starting", "running"}) <=> (out[i] = "none")
  /\ worker[i] \in {"executed", "reported"} => out[i] # "setup"
  /\ Untouched(i) => row[KeyOf(i)] = prior[KeyOf(i)]
  /\ SubRunUnderWay(i) => /\ row[KeyOf(i)] \in {prior[KeyOf(i)], "running"}
                          /\ row[KeyOf(i)] = "absent" => i \in refused
  /\ Saved(i) => Settled(i)

\* An item of the step variant is settled when its execution returns; a sub-run's row
\* is not touched by its caller meanwhile
LEMMA ExecuteSettles ==
  ASSUME TypeOK, NEW i \in Items, KeyOf(i) \in Keys, KeyOf(i)' = KeyOf(i),
         UNCHANGED <<workflow, prior>>, RowOf(i), Execute(i)
  PROVE  RowOf(i)'
  <1>1. PICK o \in {"ok", "fail", "pause"} :
          /\ ExecuteSubRun(i, o) \/ Replay(i, o) \/ ExecuteStep(i, o) \/ ExecuteRefused(i, o)
          /\ out' = [out EXCEPT ![i] = o]
    BY DEF Execute
  <1>2. /\ worker[i] = "running" /\ worker'[i] = "executed"
        /\ out[i] = "none" /\ out'[i] = o
    BY <1>1 DEF Execute, RowOf, TypeOK
  <1>3. Settles(o)' = Settles(o)
    BY DEF Settles
  <1>4. CASE workflow
    <2>1. UNCHANGED <<row, refused>>
      BY <1>1, <1>4 DEF ExecuteSubRun, Replay, ExecuteStep, ExecuteRefused
    <2> QED
      BY <1>2, <1>4, <2>1 DEF RowOf, Untouched, SubRunUnderWay, Saved
  <1>5. CASE ~workflow
    <2>1. row[KeyOf(i)] = prior[KeyOf(i)]
      BY <1>2, <1>5 DEF RowOf, Untouched
    <2>2. \/ row'[KeyOf(i)] \in Settles(o)
          \/ i \in refused' /\ row'[KeyOf(i)] \in {prior[KeyOf(i)], "running"}
      <3>1. CASE Replay(i, o)
        BY <1>5, <3>1 DEF Replay, Settles, RowStatus
      <3>2. CASE ExecuteStep(i, o)
        BY <3>2 DEF ExecuteStep, TypeOK
      <3>3. CASE ExecuteRefused(i, o)
        BY <2>1, <3>3 DEF ExecuteRefused, Refuse, TypeOK
      <3> QED
        BY <1>1, <1>5, <3>1, <3>2, <3>3 DEF ExecuteSubRun
    <2> QED
      BY <1>2, <1>3, <1>5, <2>2 DEF RowOf, Untouched, SubRunUnderWay, Saved, Settled
  <1> QED BY <1>4, <1>5 DEF TypeOK

\* UpdateRun leaves the sub-run's row settled: with its outcome, or, when the store
\* refused a call of the item, as it was or "running"
LEMMA SaveSettles ==
  ASSUME TypeOK, NEW i \in Items, KeyOf(i) \in Keys, KeyOf(i)' = KeyOf(i),
         UNCHANGED <<workflow, prior>>, RowOf(i), Save(i)
  PROVE  RowOf(i)'
  <1>1. /\ worker[i] = "reported" /\ worker'[i] = "unwinding" /\ UNCHANGED out
        /\ out[i] # "none" /\ out[i] # "setup"
    BY DEF Save, RowOf, TypeOK
  <1>2. Settles(out[i])' = Settles(out[i])
    BY <1>1 DEF Settles
  <1>3. CASE ~workflow
    <2>1. UNCHANGED <<row, refused>>
      BY <1>3 DEF Save
    <2>2. Settled(i)
      BY <1>1, <1>3 DEF RowOf, Saved
    <2> QED
      BY <1>1, <1>2, <1>3, <2>1, <2>2
         DEF RowOf, Untouched, SubRunUnderWay, Saved, Settled
  <1>4. CASE workflow
    <2>1. /\ row[KeyOf(i)] \in {prior[KeyOf(i)], "running"}
          /\ row[KeyOf(i)] = "absent" => i \in refused
      BY <1>1, <1>4 DEF RowOf, SubRunUnderWay
    <2>2. \/ row'[KeyOf(i)] \in Settles(out[i])
          \/ i \in refused' /\ row'[KeyOf(i)] \in {prior[KeyOf(i)], "running"}
      BY <1>4, <2>1 DEF Save, Refuse, TypeOK
    <2> QED
      BY <1>1, <1>2, <1>4, <2>2 DEF RowOf, Untouched, SubRunUnderWay, Saved, Settled
  <1> QED BY <1>3, <1>4 DEF TypeOK

(***************************************************************************)
(* The row of an item changes only through the item's own goroutine.       *)
(***************************************************************************)
LEMMA RowStep == IInv /\ [Next]_vars => RowInv'
  <1> SUFFICES ASSUME IInv, [Next]_vars PROVE RowInv'
    OBVIOUS
  <1>0. TypeOK /\ FrontierInv /\ KeyInv /\ RowInv
    BY DEF IInv
  <1>1. (\A i \in Items : KeyOf(i)' = KeyOf(i)) /\ UNCHANGED <<workflow, prior>>
    BY DEF Next, Loop, ListRejected, ListAccepted, LoopExit, WhenError, WhenFalse,
           WhenTrue, Acquire, Recheck, Spawn, Return, Worker, Own, SetupError, Begin,
           Execute, Report, Save, Release, Done, Finished, vars, KeyOf
  <1>2. \A i \in Items : KeyOf(i) \in Keys
    BY <1>0, ConstantsAssumption DEF TypeOK, KeyOf, Keys, Items
  <1>3. CASE Loop /\ ~Spawn
    <2>1. UNCHANGED <<worker, out, row, refused>>
      BY <1>3 DEF Loop, ListRejected, ListAccepted, LoopExit, WhenError, WhenFalse,
                  WhenTrue, Acquire, Recheck, Return
    <2> QED
      BY <1>0, <1>1, <2>1 DEF RowInv, Untouched, SubRunUnderWay, Saved, Settled, Settles
  <1>4. CASE Spawn
    <2>1. next \in Items /\ worker[next] = "idle"
      BY <1>0, <1>4, ConstantsAssumption DEF Spawn, FrontierInv, TypeOK, Items
    <2> QED
      BY <1>0, <1>1, <1>4, <2>1
         DEF Spawn, RowInv, TypeOK, Untouched, SubRunUnderWay, Saved, Settled, Settles
  <1>5. ASSUME NEW i \in Items, Worker(i) PROVE RowInv'
    <2>1. worker[i] # "idle"
      BY <1>5 DEF Worker, Own, SetupError, Begin, Execute, Report, Save, Release, Done
    <2>2. ASSUME NEW j \in Items, j # i
          PROVE  /\ worker'[j] = worker[j] /\ out'[j] = out[j]
                 /\ row'[KeyOf(j)] = row[KeyOf(j)]
                 /\ j \in refused' <=> j \in refused
      <3>1. KeyOf(i) # KeyOf(j)
        BY <1>0, <2>1, <2>2, RowsApart
      <3>2. CASE Own(i)
        BY <1>0, <1>2, <2>2, <3>1, <3>2
           DEF Own, SetupError, Begin, Refuse, Report, Save, Release, Done, TypeOK
      <3>3. CASE Execute(i)
        BY <1>0, <1>2, <2>2, <3>1, <3>3, RowWritten DEF Execute, Outcome, TypeOK
      <3> QED
        BY <1>5, <3>2, <3>3 DEF Worker
    <2>3. ASSUME NEW j \in Items, j # i
          PROVE  RowOf(j)'
      BY <1>0, <1>1, <2>2, <2>3
         DEF RowInv, RowOf, Untouched, SubRunUnderWay, Saved, Settled, Settles
    <2>4. RowOf(i)
      BY <1>0 DEF RowInv, RowOf
    <2>5. i \in refused => i \in refused'
      <3>1. CASE Own(i)
        BY <3>1 DEF Own, SetupError, Begin, Refuse, Report, Save, Release, Done
      <3>2. CASE Execute(i)
        BY <1>0, <1>2, <3>2, RowWritten DEF Execute, Outcome
      <3> QED
        BY <1>5, <3>1, <3>2 DEF Worker
    <2>6. RowOf(i)'
      <3>1. CASE SetupError(i) \/ Report(i) \/ Release(i) \/ Done(i)
        BY <1>0, <1>1, <1>2, <2>4, <3>1
           DEF SetupError, Report, Release, Done, TypeOK,
               RowOf, Untouched, SubRunUnderWay, Saved, Settled, Settles
      <3>2. CASE Begin(i)
        BY <1>0, <1>1, <1>2, <2>4, <3>2
           DEF Begin, Refuse, TypeOK, RowOf, Untouched, SubRunUnderWay, Saved
      <3>3. CASE Execute(i)
        BY <1>0, <1>1, <1>2, <2>4, <3>3, ExecuteSettles
      <3>4. CASE Save(i)
        BY <1>0, <1>1, <1>2, <2>4, <3>4, SaveSettles
      <3> QED
        BY <1>5, <3>1, <3>2, <3>3, <3>4 DEF Worker, Own
    <2> QED
      BY <2>3, <2>6 DEF RowInv, RowOf
  <1>6. CASE UNCHANGED vars
    BY <1>0, <1>1, <1>6
       DEF vars, RowInv, Untouched, SubRunUnderWay, Saved, Settled, Settles
  <1> QED
    BY <1>3, <1>4, <1>5, <1>6 DEF Next, Finished

(***************************************************************************)
(* Errors are recorded before the goroutine that met them unwinds.         *)
(***************************************************************************)
LEMMA ErrStep == IInv /\ [Next]_vars => ErrInv'
  <1> SUFFICES ASSUME IInv, [Next]_vars PROVE ErrInv'
    OBVIOUS
  <1>0. TypeOK /\ FrontierInv /\ RowInv /\ ErrInv
    BY DEF IInv
  <1>1. CASE ListRejected \/ ListAccepted \/ LoopExit \/ WhenError \/ WhenFalse
             \/ WhenTrue \/ Acquire \/ Recheck
    BY <1>0, <1>1
       DEF ListRejected, ListAccepted, LoopExit, WhenError, WhenFalse, WhenTrue,
           Acquire, Recheck, RecordFirst, ErrInv, TypeOK, FrontierInv, RowInv
  <1>2. CASE Spawn
    <2>1. next \in Items /\ worker[next] = "idle"
      BY <1>0, <1>2, ConstantsAssumption DEF Spawn, FrontierInv, TypeOK, Items
    <2> QED
      BY <1>0, <1>2, <2>1 DEF Spawn, ErrInv, TypeOK
  <1>3. CASE Return
    BY <1>0, <1>3 DEF Return, ErrInv, TypeOK
  <1>4. ASSUME NEW i \in Items, Worker(i) PROVE ErrInv'
    <2>1. loop # "returned" /\ worker[i] \notin {"idle", "done"}
      BY <1>0, <1>4 DEF Worker, Own, SetupError, Begin, Execute, Report, Save, Release,
                        Done, FrontierInv
    <2>2. CASE SetupError(i)
      BY <1>0, <2>1, <2>2 DEF SetupError, RecordFirst, ErrInv, RowInv, TypeOK
    <2>3. CASE Begin(i) \/ Release(i) \/ Done(i)
      BY <1>0, <2>1, <2>3 DEF Begin, Release, Done, ErrInv, TypeOK
    <2>4. CASE Execute(i)
      BY <1>0, <2>1, <2>4 DEF Execute, ErrInv, RowInv, TypeOK
    <2>5. CASE Report(i)
      BY <1>0, <2>1, <2>5 DEF Report, RecordFirst, errVars, Stops, ErrInv, RowInv, TypeOK
    <2>6. CASE Save(i)
      BY <1>0, <2>1, <2>6 DEF Save, ErrInv, RowInv, TypeOK
    <2> QED
      BY <1>4, <2>2, <2>3, <2>4, <2>5, <2>6 DEF Worker, Own
  <1>5. CASE UNCHANGED vars
    BY <1>0, <1>5 DEF vars, ErrInv, Stops
  <1> QED
    BY <1>1, <1>2, <1>3, <1>4, <1>5 DEF Next, Loop, Finished

(***************************************************************************)
(* The inductive invariant holds in every reachable state.                 *)
(***************************************************************************)
THEOREM Invariance == Spec => []IInv
  <1>1. IInv /\ [Next]_vars => IInv'
    BY TypeStep, CountStep, FrontierStep, LateStep, KeyStep, RowStep, ErrStep
       DEF IInv
  <1> QED
    BY InitIInv, <1>1, PTL DEF Spec

(***************************************************************************)
(* At no time do more than `concurrency` goroutines of executeForEach run  *)
(* an item, for every list and every concurrency.                          *)
(***************************************************************************)
THEOREM ConcurrencyIsBounded == Spec => []BoundedConcurrency
  <1>1. IInv => BoundedConcurrency
    BY GoroutinesFinite, ConcurrencyPositive
       DEF IInv, TypeOK, SlotInv, Held, BoundedConcurrency
  <1> QED
    BY <1>1, Invariance, PTL

(***************************************************************************)
(* An item whose slot is taken when an error is already known is never     *)
(* launched (the second check of `failed` in the loop).                    *)
(***************************************************************************)
THEOREM LoopStopsAfterError == Spec => []StopsAfterError
  <1>1. IInv => StopsAfterError
    BY DEF IInv, TypeOK, LateInv, FrontierInv, StopsAfterError
  <1> QED
    BY <1>1, Invariance, PTL

(***************************************************************************)
(* The duplicate-key check keeps concurrent items on different sub-runs.   *)
(***************************************************************************)
THEOREM ItemsUseDistinctRows == Spec => []DistinctRows
  <1>1. IInv => DistinctRows
    <2> SUFFICES ASSUME IInv, NEW i \in InFlight, NEW j \in InFlight, i # j
                 PROVE  KeyOf(i) # KeyOf(j)
      BY DEF DistinctRows
    <2> QED
      BY RowsApart DEF IInv, InFlight
  <1> QED
    BY <1>1, Invariance, PTL

(***************************************************************************)
(* When executeForEach returns, every goroutine has ended; the row of an   *)
(* item that ran says how it ended, or, when the store refused one of the  *)
(* item's calls, is as it was or "running"; the row of an item that did    *)
(* not run is untouched.                                                   *)
(***************************************************************************)
THEOREM RowsSettledOnReturn == Spec => []SettledOnReturn
  <1>1. IInv => SettledOnReturn
    BY DEF IInv, TypeOK, FrontierInv, RowInv, Untouched, Saved, Outcome, SettledOnReturn
  <1> QED
    BY <1>1, Invariance, PTL

\* In a state of the invariant, success means that nothing was lost
LEMMA SuccessHere == IInv => NothingLost
  <1> SUFFICES ASSUME IInv, ret = "ok" PROVE NothingLost
    BY DEF NothingLost
  <1>1. \A i \in Items : worker[i] \in {"idle", "done"}
    BY DEF IInv, ErrInv, FrontierInv
  <1>2. ~failed
    BY DEF IInv, ErrInv
  <1>3. \A i \in Items : out[i] # "none" <=> worker[i] = "done"
    BY <1>1 DEF IInv, RowInv
  <1>4. \A i \in Items : i \in results <=> worker[i] = "done"
    BY <1>1, <1>2 DEF IInv, ErrInv, TypeOK
  <1>5. \A i \in Items : worker[i] = "done" => out[i] # "setup" /\ ~Stops(out[i])
    BY <1>2 DEF IInv, ErrInv
  <1>6. results = {i \in Items : out[i] # "none"}
    BY <1>3, <1>4 DEF IInv, TypeOK
  <1>7. \A i \in Items : out[i] \in {"none", "ok"} \/ (IgnoreErrors /\ out[i] = "fail")
    BY <1>3, <1>5, ConstantsAssumption DEF IInv, TypeOK, Outcome, Stops
  <1> QED
    BY <1>6, <1>7 DEF NothingLost

(***************************************************************************)
(* A for_each that succeeds has lost no error and no result.               *)
(***************************************************************************)
THEOREM SuccessLosesNothing == Spec => []NothingLost
  BY SuccessHere, Invariance, PTL

(***************************************************************************)
(* The loop, the semaphore and the goroutines implement the contract of    *)
(* the step.                                                               *)
(***************************************************************************)
ContractState == [i \in Items |-> ItemState(i)]

\* What each step does to the contract's view of the items
LEMMA ContractStep ==
  IInv /\ IInv' /\ [Next]_vars => [Contract!ContractNext]_(Contract!contractVars)
  <1> SUFFICES ASSUME IInv, IInv', [Next]_vars
               PROVE  [Contract!ContractNext]_(Contract!contractVars)
    OBVIOUS
  <1> USE DEF Contract!contractVars
  <1>0. TypeOK /\ TypeOK' /\ SlotInv /\ FrontierInv /\ RowInv /\ ErrInv
    BY DEF IInv
  <1>1. \A i \in Items : i \in InFlight <=> worker[i] \in SlotStates
    BY DEF InFlight, SlotStates
  <1>2. \A i \in Items : i \in InFlight' <=> worker'[i] \in SlotStates
    BY DEF InFlight, SlotStates
  <1>3. ASSUME UNCHANGED <<worker, out, ret>>
        PROVE  UNCHANGED <<ContractState, ret>>
    BY <1>3 DEF ContractState, ItemState, InFlight
  <1>4. CASE ListAccepted \/ LoopExit \/ WhenError \/ WhenFalse \/ WhenTrue
             \/ Acquire \/ Recheck \/ UNCHANGED vars
    BY <1>3, <1>4
       DEF ListAccepted, LoopExit, WhenError, WhenFalse, WhenTrue, Acquire, Recheck,
           vars, ContractState
  <1>5. CASE ListRejected \/ Return
    <2>1. UNCHANGED ContractState
      BY <1>5 DEF ListRejected, Return, ContractState, ItemState, InFlight
    <2>2. ret = "none" /\ ret' # "none"
      BY <1>0, <1>5 DEF ListRejected, Return, ErrInv, TypeOK
    <2>3. \A i \in Items : worker[i] \in {"idle", "done"}
      BY <1>0, <1>5 DEF ListRejected, Return, FrontierInv, IInv
    <2>4. \A i \in Items : ContractState[i] = IF worker[i] = "idle" THEN "idle" ELSE out[i]
      BY <1>1, <2>3 DEF ContractState, ItemState, SlotStates
    <2>5. {i \in Items : ContractState[i] = "active"} = {}
      BY <1>0, <2>4 DEF TypeOK, Outcome
    <2>6. ASSUME ret' = "ok"
          PROVE  \A i \in Items : \/ ContractState[i] \in {"ok", "idle"}
                                  \/ IgnoreErrors /\ ContractState[i] = "fail"
      <3>1. NothingLost'
        BY SuccessHere, PTL
      <3> QED
        BY <1>0, <1>5, <2>3, <2>4, <2>6, <3>1
           DEF ListRejected, Return, NothingLost, RowInv
    <2>7. ASSUME ret' = "pause"
          PROVE  \E i \in Items : ContractState[i] = "pause"
      BY <1>0, <1>5, <2>3, <2>4, <2>7 DEF ListRejected, Return, ErrInv, RowInv
    <2>8. Contract!Return
      BY <1>0, <2>1, <2>2, <2>5, <2>6, <2>7
         DEF Contract!Return, Contract!Active, Contract!Tolerated, ContractState, TypeOK
    <2> QED
      BY <2>8 DEF Contract!ContractNext
  <1>6. CASE Spawn
    <2>1. next \in Items /\ worker[next] = "idle" /\ ret = "none"
      BY <1>0, <1>6, ConstantsAssumption
         DEF Spawn, FrontierInv, ErrInv, TypeOK, Items
    <2>2. {i \in Items : ContractState[i] = "active"} = InFlight
      BY <1>0, <1>1 DEF ContractState, ItemState, TypeOK, Outcome, InFlight
    <2>3. Cardinality(InFlight) < Concurrency
      BY <1>0, <1>6, GoroutinesFinite, ConcurrencyPositive
         DEF Spawn, SlotInv, Held, TypeOK
    <2>4. ContractState' = [ContractState EXCEPT ![next] = "active"]
      BY <1>0, <1>1, <1>2, <1>6, <2>1
         DEF Spawn, ContractState, ItemState, SlotStates, TypeOK
    <2>5. ContractState[next] = "idle"
      BY <1>1, <2>1 DEF ContractState, ItemState, SlotStates
    <2>6. Contract!Cardinality(InFlight) = Cardinality(InFlight)
      BY DEF Contract!Cardinality, Cardinality, Contract!IsFiniteSet, IsFiniteSet
    <2>7. Contract!Start(next)
      BY <1>6, <2>1, <2>2, <2>3, <2>4, <2>5, <2>6
         DEF Spawn, Contract!Start, Contract!Active, ContractState
    <2> QED
      BY <2>1, <2>7 DEF Contract!ContractNext
  <1>7. ASSUME NEW i \in Items, Worker(i)
        PROVE  [Contract!ContractNext]_(Contract!contractVars)
    <2>0. UNCHANGED ret
      BY <1>7 DEF Worker, Own, SetupError, Begin, Execute, Report, Save, Release, Done
    <2>1. CASE SetupError(i) \/ Begin(i) \/ Execute(i) \/ Report(i) \/ Save(i)
      <3>1. \A j \in Items : ItemState(j)' = ItemState(j)
        BY <1>0, <1>1, <1>2, <2>1
           DEF SetupError, Begin, Execute, Report, Save, ItemState, SlotStates, TypeOK
      <3> QED
        BY <2>0, <3>1 DEF ContractState
    <2>2. CASE Done(i)
      <3>1. \A j \in Items : ItemState(j)' = ItemState(j)
        BY <1>0, <1>1, <1>2, <2>2 DEF Done, ItemState, SlotStates, TypeOK
      <3> QED
        BY <2>0, <3>1 DEF ContractState
    <2>3. CASE Release(i)
      <3>1. out[i] \in Contract!Ended
        BY <1>0, <2>3 DEF Release, RowInv, TypeOK, Outcome, Contract!Ended
      <3>2. ContractState' = [ContractState EXCEPT ![i] = out[i]]
        BY <1>0, <1>1, <1>2, <2>3
           DEF Release, ContractState, ItemState, SlotStates, TypeOK
      <3>3. ContractState[i] = "active"
        BY <1>1, <2>3 DEF Release, ContractState, ItemState, SlotStates
      <3>4. Contract!End(i)
        BY <2>0, <3>1, <3>2, <3>3 DEF Contract!End, ContractState
      <3> QED
        BY <3>4 DEF Contract!ContractNext
    <2> QED
      BY <1>7, <2>1, <2>2, <2>3 DEF Worker, Own
  <1> QED
    BY <1>4, <1>5, <1>6, <1>7 DEF Next, Loop, Finished

\* Every behaviour of executeForEach is one that the for_each contract allows
THEOREM ImplementsForEachContract == Spec => ImplementsContract
  <1>1. Init => Contract!ContractInit
    BY DEF Init, Contract!ContractInit, ItemState, InFlight
  <1>2. Spec => []IInv
    BY Invariance
  <1> QED
    BY <1>1, <1>2, ContractStep, PTL
       DEF Spec, ImplementsContract, Contract!ContractSpec

-----------------------------------------------------------------------------
(* The context of a run (RunContext). *)

(* A nonempty set of naturals has a least element. *)
LEMMA LeastNat ==
    ASSUME NEW S \in SUBSET Nat, S # {}
    PROVE  \E x \in S : \A y \in S : x <= y
<1> DEFINE Less == {p \in Nat \X Nat : p[1] < p[2]}
<1>1. IsWellFoundedOn(Less, Nat)
  BY NatLessThanWellFounded DEF OpToRel
<1>2. PICK x \in S : \A y \in S : ~ (<<y, x>> \in Less)
  <2> HIDE DEF Less
  <2> QED BY <1>1, WFMin
<1>3. ASSUME NEW y \in S PROVE x <= y
  <2>1. x \in Nat /\ y \in Nat /\ ~ (<<y, x>> \in Less)
    BY <1>2
  <2>2. <<y, x>> \in Nat \X Nat /\ <<y, x>>[1] = y /\ <<y, x>>[2] = x
    BY <2>1
  <2>3. ~ (y < x)
    BY <2>1, <2>2
  <2> QED BY <2>1, <2>3
<1> QED BY <1>3

(* What a step puts into the context: pairs of a key of its own and a value. *)
StepKeys(i) ==
  IF wf[i].base \in {"set_fact", "gate"} THEN DOMAIN wf[i].facts
  ELSE IF wf[i].base = "load_artifact" THEN {Name[i]}
  ELSE ({wf[i].register} \ {NoKey})
          \cup (IF wf[i].artifacts = "none" THEN {} ELSE {Name[i]})

IsOf(m, i) == DOMAIN m \subseteq StepKeys(i) /\ \A k \in DOMAIN m : m[k] \in Value

StepStatus == {"none", "running", "completed", "failed", "paused", "skipped"}

RowForm(r) ==
  /\ r.status \in StepStatus /\ r.at \in 0..MaxAttempts
  /\ \A k \in DOMAIN r.facts : k \in Vars /\ r.facts[k] \in Value
  /\ r.output \in Value /\ r.artifacts \in Value

(* The form of the state. *)
ContextForm ==
  /\ wf \in Workflows /\ top \in BOOLEAN /\ num \in {"int", "float"}
  /\ file \in 0..MaxVersion /\ attempt \in 1..MaxAttempts
  /\ pc \in 1..(NSteps + 1)
  /\ status \in {"running", "failed", "paused", "completed"}
  /\ given \in SUBSET Vars
  /\ rows = [i \in StepIds |-> rows[i]] /\ \A i \in StepIds : RowForm(rows[i])
  /\ ctx \in [CtxKeys -> Value]
  /\ wrote = [i \in StepIds |-> wrote[i]] /\ \A i \in StepIds : IsOf(wrote[i], i)
  /\ passed \subseteq 1..(pc - 1)

(* The row r of step i keeps what the step put into the context, m. *)
Keeps(i, r, m) ==
  LET s == wf[i] IN
  /\ s.base \in {"set_fact", "gate"} => r.facts = m /\ r.artifacts = Absent
  /\ s.base = "load_artifact" => r.output = Absent /\ r.artifacts = Absent
  /\ s.base = "exec" =>
       /\ r.output.part = "output"
       /\ s.register # NoKey => s.register \in DOMAIN m
       /\ (s.register # NoKey /\ (s.register # Name[i] \/ s.artifacts = "none")) =>
             m[s.register] = r.output
       /\ s.artifacts # "none" => /\ Name[i] \in DOMAIN m /\ m[Name[i]].part = "data"
                                  /\ r.artifacts = m[Name[i]]
       /\ (s.artifacts = "none" /\ s.register = Name[i]) => r.artifacts = m[Name[i]]

Completed(i) == rows[i].status = "completed"

RowsInv == \A i \in StepIds : Completed(i) => Keeps(i, rows[i], wrote[i])

(* Behind the process every completed step has been passed, and an executor *)
(* is passed only when its row is saved.                                    *)
PassedInv ==
  /\ \A i \in StepIds : (Completed(i) /\ i < pc) => i \in passed
  /\ \A i \in passed : wf[i].base = "exec" => Completed(i)

(* The keys the property is about, and those that only the first replay     *)
(* puts back: the artifacts of executors.                                   *)
Good == CtxKeys \ (Lost \cup Spurious)
HasArtifacts(j) == wf[j].base = "exec" /\ wf[j].artifacts # "none"

Writers(k) == {i \in passed : k \in DOMAIN wrote[i]}
Before(k) == IF k \in given THEN Override ELSE Inherited(k)

(* The artifacts of step j are in the context from the resume on. *)
LoadedInv(k, j) ==
  IF Completed(j) THEN SameValue(ctx[k], wrote[j][k]) ELSE SameValue(ctx[k], Before(k))

(* Any other key has the value of the last step that was passed and sets    *)
(* it, and none but the first value if no step sets it, here or further on. *)
ReplayedInv(k) ==
  /\ \A i \in Writers(k) : (\A j \in Writers(k) : j <= i) => SameValue(ctx[k], wrote[i][k])
  /\ (Writers(k) = {} /\ \A i \in StepIds : (Completed(i) /\ i >= pc) => k \notin DOMAIN wrote[i])
       => SameValue(ctx[k], Before(k))

CtxInv ==
  \A k \in Good :
    /\ \A j \in StepIds : (HasArtifacts(j) /\ k = Name[j]) => LoadedInv(k, j)
    /\ (\A j \in StepIds : HasArtifacts(j) => k # Name[j]) => ReplayedInv(k)

ContextInd == ContextForm /\ RowsInv /\ (status = "running" => PassedInv /\ CtxInv)

LEMMA Made ==
    ASSUME NEW i \in 0..NSteps, NEW v \in 0..MaxVersion, NEW n \in {"int", "float"},
           NEW p \in {"absent", "nil", "text", "var", "override", "fact", "facts", "output",
                     "artifacts", "data"}
    PROVE  Make(i, p, v, n) \in Value /\ Make(i, p, v, n).part = p
BY DEF Make, Value

LEMMA Values ==
    /\ Nil \in Value /\ EmptyText \in Value /\ Override \in Value /\ Absent \in Value
    /\ Absent.part = "absent"
<1>1. 0 \in 0..NSteps /\ 0 \in 0..MaxVersion
  BY ContextAssumption
<1> QED BY <1>1, Made DEF Nil, EmptyText, Override, Absent

LEMMA DecodedForm ==
    ASSUME NEW v \in Value
    PROVE  /\ Decoded(v) \in Value /\ Decoded(v).part = v.part
           /\ Decoded(v) = [v EXCEPT !.num = "int"]
BY DEF Decoded, Value

LEMMA SameDecoded ==
    ASSUME NEW v \in Value
    PROVE  SameValue(Decoded(v), v) /\ SameValue(v, v)
BY DEF Decoded, SameValue

LEMMA InheritedForm ==
    ASSUME ContextForm, NEW k
    PROVE  Inherited(k) \in Value /\ Before(k) \in Value
<1>1. 0 \in 0..NSteps /\ 0 \in 0..MaxVersion
  BY ContextAssumption
<1>2. Inherited(k) \in Value
  BY <1>1, Made, Values DEF Inherited, ContextForm
<1> QED BY <1>2, Values DEF Before

(* What the assumptions say of a step. *)
LEMMA StepForm ==
    ASSUME ContextForm, NEW i \in StepIds
    PROVE  /\ wf[i].base \in {"set_fact", "gate", "load_artifact", "exec"}
           /\ wf[i].type \in {wf[i].base, "alias"}
           /\ DOMAIN wf[i].facts \subseteq Vars
           /\ \A k \in DOMAIN wf[i].facts : wf[i].facts[k] \in Vars \cup {Fresh}
           /\ wf[i].register \in CtxKeys \cup {NoKey}
           /\ wf[i].artifacts \in {"none", "required", "optional"}
           /\ Name[i] \in CtxKeys /\ Name[i] \notin Vars
           /\ StepKeys(i) \subseteq CtxKeys
<1>1. wf[i] \in Step /\ wf[i].type \in {wf[i].base, "alias"}
  BY ContextAssumption DEF ContextForm
<1>2. /\ wf[i].base \in {"set_fact", "gate", "load_artifact", "exec"}
      /\ wf[i].facts \in UNION {[D -> Vars \cup {Fresh}] : D \in SUBSET Vars}
      /\ wf[i].register \in CtxKeys \cup {NoKey}
      /\ wf[i].artifacts \in {"none", "required", "optional"}
  BY <1>1 DEF Step
<1>3. PICK D \in SUBSET Vars : wf[i].facts \in [D -> Vars \cup {Fresh}]
  BY <1>2
<1>4. Name[i] \in CtxKeys /\ Name[i] \notin Vars
  BY ContextAssumption DEF CtxKeys
<1>5. StepKeys(i) \subseteq CtxKeys
  BY <1>2, <1>3, <1>4 DEF StepKeys, CtxKeys
<1> QED BY <1>1, <1>2, <1>3, <1>4, <1>5

LEMMA NamesDiffer ==
    ASSUME NEW i \in StepIds, NEW j \in StepIds, Name[i] = Name[j]
    PROVE  i = j
BY ContextAssumption

LEMMA MergeForm ==
    ASSUME NEW c \in [CtxKeys -> Value], NEW m, \A k \in DOMAIN m : m[k] \in Value
    PROVE  /\ Merge(c, m) \in [CtxKeys -> Value]
           /\ \A k \in CtxKeys : Merge(c, m)[k] = IF k \in DOMAIN m THEN m[k] ELSE c[k]
BY DEF Merge

(* The second replay puts back what the step put into the context, but for  *)
(* the artifacts of an executor.                                            *)
LEMMA ReplayPart ==
    ASSUME ContextForm, RowsInv, NEW i \in StepIds, Completed(i), NEW k \in Good
    PROVE  /\ k \in DOMAIN Replayed(i) =>
                k \in DOMAIN wrote[i] /\ Replayed(i)[k] = Decoded(wrote[i][k])
           /\ (k \in DOMAIN wrote[i] /\ k \notin DOMAIN Replayed(i)) =>
                HasArtifacts(i) /\ k = Name[i]
<1> DEFINE s == wf[i]
           r == rows[i]
           m == wrote[i]
<1>1. Keeps(i, r, m)
  BY DEF RowsInv
<1>2. DOMAIN m \subseteq StepKeys(i)
  BY DEF ContextForm, IsOf
<1>3. /\ s.base \in {"set_fact", "gate", "load_artifact", "exec"}
      /\ s.type \in {s.base, "alias"}
  BY StepForm
<1>4. k \notin Lost /\ k \notin Spurious
  BY DEF Good
<1>5. CASE s.base \in {"set_fact", "gate"} /\ s.type # "alias"
  <2>1. Replayed(i) = DecodedMap(r.facts)
    BY <1>3, <1>5 DEF Replayed
  <2>2. r.facts = m
    BY <1>1, <1>5 DEF Keeps
  <2> QED BY <2>1, <2>2 DEF One, Nothing, DecodedMap
<1>6. CASE s.base \in {"set_fact", "gate"} /\ s.type = "alias"
  <2>1. k \notin DOMAIN s.facts
    BY <1>4, <1>6 DEF Lost
  <2>2. k \notin DOMAIN m
    BY <1>2, <1>6, <2>1 DEF StepKeys
  <2>3. k # s.register
    BY <1>4, <1>6 DEF Spurious
  <2>4. Replayed(i) = IF s.register # NoKey /\ r.output # Absent
                      THEN One(s.register, Decoded(r.output)) ELSE Nothing
    BY <1>6 DEF Replayed
  <2>5. k \notin DOMAIN Replayed(i)
    BY <2>3, <2>4 DEF One, Nothing, DecodedMap
  <2> QED BY <2>2, <2>5
<1>7. CASE s.base = "load_artifact"
  <2>1. k # Name[i]
    BY <1>4, <1>7 DEF Lost
  <2>2. k \notin DOMAIN m
    BY <1>2, <1>7, <2>1 DEF StepKeys
  <2>3. r.output = Absent
    BY <1>1, <1>7 DEF Keeps
  <2>4. Replayed(i) = Nothing
    BY <1>3, <1>7, <2>3 DEF Replayed
  <2> QED BY <2>2, <2>4 DEF One, Nothing, DecodedMap
<1>8. CASE s.base = "exec"
  <2>1. Absent.part = "absent" /\ r.output.part = "output"
    BY <1>1, <1>8, Values DEF Keeps
  <2>2. r.output # Absent
    BY <2>1
  <2>3. Replayed(i) = IF s.register # NoKey THEN One(s.register, Decoded(r.output))
                      ELSE Nothing
    BY <1>3, <1>8, <2>2 DEF Replayed
  <2>4. ASSUME k \in DOMAIN Replayed(i)
        PROVE  k \in DOMAIN m /\ Replayed(i)[k] = Decoded(m[k])
    <3>1. s.register # NoKey /\ k = s.register /\ Replayed(i)[k] = Decoded(r.output)
      BY <2>3, <2>4 DEF One, Nothing, DecodedMap
    <3>2. ASSUME s.register = Name[i], s.artifacts # "none" PROVE FALSE
      <4>1. \E l \in StepIds : wf[l].register = Name[i]
        BY <3>2
      <4>2. ArtifactsLost(i)
        BY <1>8, <3>2, <4>1 DEF ArtifactsLost
      <4>3. Name[i] \in Lost
        BY <4>2 DEF Lost
      <4> QED BY <1>4, <3>1, <3>2, <4>3
    <3> QED BY <1>1, <1>8, <3>1, <3>2 DEF Keeps
  <2>5. ASSUME k \in DOMAIN m, k \notin DOMAIN Replayed(i)
        PROVE  HasArtifacts(i) /\ k = Name[i]
    <3>1. k \in StepKeys(i)
      BY <1>2, <2>5
    <3>2. k # s.register \/ s.register = NoKey
      BY <2>3, <2>5 DEF One, Nothing, DecodedMap
    <3> QED BY <1>8, <3>1, <3>2 DEF StepKeys, HasArtifacts
  <2> QED BY <2>4, <2>5
<1> QED BY <1>3, <1>5, <1>6, <1>7, <1>8

(* The first replay puts back the artifacts of the executors, and nothing   *)
(* under a key that its step does not set.                                  *)
LEMMA RestorePart ==
    ASSUME ContextForm, RowsInv, NEW i \in StepIds, Completed(i), NEW k \in Good
    PROVE  /\ k \in DOMAIN Restored(i, rows[i]) => k \in DOMAIN wrote[i]
           /\ (HasArtifacts(i) /\ k = Name[i]) =>
                /\ k \in DOMAIN Restored(i, rows[i])
                /\ Restored(i, rows[i])[k] = Decoded(wrote[i][k])
<1> DEFINE s == wf[i]
           r == rows[i]
           m == wrote[i]
<1>1. Keeps(i, r, m)
  BY DEF RowsInv
<1>3. /\ s.base \in {"set_fact", "gate", "load_artifact", "exec"}
      /\ s.type \in {s.base, "alias"}
  BY StepForm
<1>4. k \notin Lost /\ k \notin Spurious
  BY DEF Good
<1>5. CASE s.base \in {"set_fact", "gate"} /\ s.type # "alias"
  <2>1. Restored(i, r) = DecodedMap(r.facts)
    BY <1>3, <1>5 DEF Restored
  <2>2. r.facts = m
    BY <1>1, <1>5 DEF Keeps
  <2> QED BY <1>5, <2>1, <2>2 DEF HasArtifacts, One, Nothing, DecodedMap
<1>6. CASE s.base \in {"set_fact", "gate"} /\ s.type = "alias"
  <2>1. r.artifacts = Absent /\ k # Name[i]
    BY <1>1, <1>4, <1>6 DEF Keeps, Spurious
  <2>2. Restored(i, r) = IF r.output # Absent THEN One(Name[i], Decoded(r.output)) ELSE Nothing
    BY <1>6, <2>1 DEF Restored
  <2> QED BY <1>6, <2>1, <2>2 DEF HasArtifacts, One, Nothing, DecodedMap
<1>7. CASE s.base = "load_artifact"
  <2>1. r.artifacts = Absent /\ r.output = Absent
    BY <1>1, <1>7 DEF Keeps
  <2>2. Restored(i, r) = Nothing
    BY <1>3, <1>7, <2>1 DEF Restored
  <2> QED BY <1>7, <2>2 DEF HasArtifacts, One, Nothing, DecodedMap
<1>8. CASE s.base = "exec" /\ s.artifacts # "none"
  <2>1. /\ Absent.part = "absent" /\ r.artifacts.part = "data"
        /\ Name[i] \in DOMAIN m /\ r.artifacts = m[Name[i]]
    BY <1>1, <1>8, Values DEF Keeps
  <2>2. r.artifacts # Absent /\ IsMap(r.artifacts)
    BY <2>1 DEF IsMap
  <2>3. Restored(i, r) = One(Name[i], Decoded(m[Name[i]]))
    BY <1>3, <1>8, <2>1, <2>2 DEF Restored
  <2> QED BY <2>1, <2>3 DEF One, Nothing, DecodedMap
<1>9. CASE s.base = "exec" /\ s.artifacts = "none"
  <2>1. DOMAIN Restored(i, r) \subseteq {Name[i]}
    <3>1. \A v : DOMAIN One(Name[i], v) = {Name[i]}
      BY DEF One, Nothing
    <3>2. DOMAIN Nothing = {}
      BY DEF One, Nothing
    <3>3. \/ \E v : Restored(i, r) = One(Name[i], v)
          \/ Restored(i, r) = Nothing
      BY <1>3, <1>9 DEF Restored
    <3> QED BY <3>1, <3>2, <3>3
  <2>2. ASSUME k = Name[i] PROVE k \in DOMAIN m
    <3>1. s.register = Name[i]
      BY <1>4, <1>9, <2>2 DEF Spurious
    <3>2. s.register # NoKey
      BY <1>4, <3>1, StepForm, ContextAssumption DEF CtxKeys
    <3> QED BY <1>1, <1>9, <2>2, <3>1, <3>2 DEF Keeps
  <2> QED BY <1>9, <2>1, <2>2 DEF HasArtifacts
<1> QED BY <1>3, <1>5, <1>6, <1>7, <1>8, <1>9

-----------------------------------------------------------------------------
(* The steps. *)

(* A step has run and has put m into the context; its row r is saved, or    *)
(* lost, which fails the run if the step is an executor's.                  *)
Ran(m, r) ==
  /\ status = "running" /\ pc \in StepIds /\ ~ Completed(pc)
  /\ IsOf(m, pc) /\ RowForm(r) /\ r.status = "completed" /\ Keeps(pc, r, m)
  /\ Writes(m)
  /\ \/ rows' = [rows EXCEPT ![pc] = r]
     \/ wf[pc].base # "exec" /\ rows' = rows

(* A step has failed, or paused the run, and has left m in the context. *)
Stopped(m, r) ==
  /\ pc \in StepIds /\ ~ Completed(pc)
  /\ \A k \in DOMAIN m : m[k] \in Value
  /\ RowForm(r) /\ r.status # "completed"
  /\ rows' = [rows EXCEPT ![pc] = r] \/ rows' = rows
  /\ ctx' = Merge(ctx, m)
  /\ status' \in {"failed", "paused"}
  /\ UNCHANGED <<setting, file, pc, attempt, given, wrote, passed>>

LEMMA RowMade ==
    ASSUME ContextForm, NEW st \in StepStatus, NEW f, NEW o \in Value, NEW a \in Value,
           \A k \in DOMAIN f : k \in Vars /\ f[k] \in Value
    PROVE  /\ RowForm(Row(st, f, o, a))
           /\ Row(st, f, o, a).status = st /\ Row(st, f, o, a).facts = f
           /\ Row(st, f, o, a).output = o /\ Row(st, f, o, a).artifacts = a
<1>1. attempt \in 0..MaxAttempts
  BY ContextAssumption DEF ContextForm
<1> QED BY <1>1 DEF Row, RowForm

LEMMA NothingForm == DOMAIN Nothing = {}
BY DEF Nothing

LEMMA FailsIsStopped ==
    ASSUME ContextForm, pc \in StepIds, ~ Completed(pc), NEW m, Fails(m),
           \A k \in DOMAIN m : m[k] \in Value
    PROVE  \E r : Stopped(m, r)
<1> DEFINE r == Row("failed", Nothing, Absent, Absent)
<1>1. RowForm(r) /\ r.status = "failed"
  BY RowMade, NothingForm, Values DEF StepStatus
<1>2. rows' = [rows EXCEPT ![pc] = r] \/ rows' = rows
  BY DEF Fails, TrySave
<1> HIDE DEF r
<1>3. /\ ctx' = Merge(ctx, m) /\ status' = "failed"
      /\ UNCHANGED <<setting, file, pc, attempt, given, wrote, passed>>
  BY DEF Fails
<1> QED BY <1>1, <1>2, <1>3 DEF Stopped

LEMMA AtForm ==
    ASSUME ContextForm, NEW b, At(b)
    PROVE  status = "running" /\ pc \in StepIds /\ ~ Completed(pc) /\ wf[pc].base = b
BY ContextAssumption DEF At, ContextForm, StepIds, Completed

LEMMA EvalFactForm ==
    ASSUME ContextForm, pc \in StepIds, NEW e \in Vars \cup {Fresh}
    PROVE  EvalFact(e, ctx) \in Value
<1>1. Make(pc, "fact", 0, num) \in Value
  BY ContextAssumption, Made DEF ContextForm, StepIds
<1>2. CASE e = Fresh
  BY <1>1, <1>2 DEF EvalFact
<1>3. CASE e # Fresh
  <2>1. e \in CtxKeys /\ ctx[e] \in Value
    BY <1>3 DEF ContextForm, CtxKeys
  <2> QED BY <1>3, <2>1, Values DEF EvalFact
<1> QED BY <1>2, <1>3

LEMMA SetFactKind ==
    ASSUME ContextForm, SetFact
    PROVE  \E m, r : Ran(m, r) \/ Stopped(m, r)
<1> DEFINE f == wf[pc].facts
<1>1. status = "running" /\ pc \in StepIds /\ ~ Completed(pc) /\ wf[pc].base = "set_fact"
  BY AtForm DEF SetFact
<1>2. PICK o \in Orders(DOMAIN f) : \E m \in EvalFacts(f, o) :
        \/ /\ Writes(m)
           /\ TrySave(Row("completed", m, Make(pc, "facts", 0, "int"), Absent))
        \/ \E n \in 0..Cardinality(DOMAIN f) : Fails(Upto(m, o, n))
  BY DEF SetFact
<1>3. PICK m \in EvalFacts(f, o) :
        \/ /\ Writes(m)
           /\ TrySave(Row("completed", m, Make(pc, "facts", 0, "int"), Absent))
        \/ \E n \in 0..Cardinality(DOMAIN f) : Fails(Upto(m, o, n))
  BY <1>2
<1>4. Make(pc, "fact", 0, num) \in Value /\ Make(pc, "facts", 0, "int") \in Value
  <2>1. /\ pc \in 0..NSteps /\ 0 \in 0..MaxVersion
        /\ num \in {"int", "float"} /\ "int" \in {"int", "float"}
    BY <1>1, ContextAssumption DEF ContextForm, StepIds
  <2> QED BY <2>1, Made
<1>5. DOMAIN m = DOMAIN f /\ \A k \in DOMAIN m : m[k] \in Value
  BY <1>4, Values DEF EvalFacts, ContextForm
<1>6. DOMAIN f \subseteq Vars
  BY <1>1, StepForm
<1> DEFINE r == Row("completed", m, Make(pc, "facts", 0, "int"), Absent)
<1>7. CASE Writes(m) /\ TrySave(r)
  <2>1. RowForm(r) /\ r.status = "completed" /\ r.facts = m /\ r.artifacts = Absent
    BY <1>4, <1>5, <1>6, RowMade, Values DEF StepStatus
  <2>2. rows' = [rows EXCEPT ![pc] = r] \/ rows' = rows
    BY <1>7 DEF TrySave
  <2> HIDE DEF r
  <2>3. IsOf(m, pc)
    BY <1>1, <1>5 DEF IsOf, StepKeys
  <2>4. Keeps(pc, r, m)
    BY <1>1, <2>1 DEF Keeps
  <2>5. Ran(m, r)
    BY <1>1, <1>7, <2>1, <2>2, <2>3, <2>4 DEF Ran
  <2> QED BY <2>5
<1>8. ASSUME NEW n \in 0..Cardinality(DOMAIN f), Fails(Upto(m, o, n))
      PROVE  \E x : Stopped(Upto(m, o, n), x)
  <2>1. \A k \in DOMAIN Upto(m, o, n) : Upto(m, o, n)[k] \in Value
    BY <1>5 DEF Upto
  <2> QED BY <1>1, <1>8, <2>1, FailsIsStopped
<1> QED BY <1>3, <1>7, <1>8

LEMMA GateKind ==
    ASSUME ContextForm, Gate
    PROVE  \E m, r : Ran(m, r) \/ Stopped(m, r)
<1> DEFINE m == [k \in DOMAIN wf[pc].facts |-> EvalFact(wf[pc].facts[k], ctx)]
           o == Make(pc, "facts", 0, "int")
           r == Row("completed", m, o, Absent)
           q == Row("paused", m, o, Absent)
<1>1. status = "running" /\ pc \in StepIds /\ ~ Completed(pc) /\ wf[pc].base = "gate"
  BY AtForm DEF Gate
<1>2. \/ Writes(m) /\ TrySave(r)
      \/ /\ TrySave(q)
         /\ ctx' = Merge(ctx, m)
         /\ status' = "paused"
         /\ UNCHANGED <<setting, file, pc, attempt, given, wrote, passed>>
      \/ Fails(Nothing)
  BY DEF Gate
<1>3. DOMAIN m = DOMAIN wf[pc].facts /\ \A k \in DOMAIN m : m[k] \in Value
  BY <1>1, EvalFactForm, StepForm
<1>4. DOMAIN wf[pc].facts \subseteq Vars
  BY <1>1, StepForm
<1>5. o \in Value
  BY <1>1, ContextAssumption, Made DEF ContextForm, StepIds
<1> HIDE DEF m, o
<1>6. /\ RowForm(r) /\ r.status = "completed" /\ r.facts = m /\ r.artifacts = Absent
      /\ RowForm(q) /\ q.status = "paused"
  BY <1>3, <1>4, <1>5, RowMade, Values DEF StepStatus
<1>7. CASE Writes(m) /\ TrySave(r)
  <2>1. rows' = [rows EXCEPT ![pc] = r] \/ rows' = rows
    BY <1>7 DEF TrySave
  <2>2. IsOf(m, pc)
    BY <1>1, <1>3 DEF IsOf, StepKeys
  <2> HIDE DEF r
  <2>3. Keeps(pc, r, m)
    BY <1>1, <1>6 DEF Keeps
  <2>4. Ran(m, r)
    BY <1>1, <1>6, <1>7, <2>1, <2>2, <2>3 DEF Ran
  <2> QED BY <2>4
<1>8. CASE /\ TrySave(q)
           /\ ctx' = Merge(ctx, m)
           /\ status' = "paused"
           /\ UNCHANGED <<setting, file, pc, attempt, given, wrote, passed>>
  <2>1. rows' = [rows EXCEPT ![pc] = q] \/ rows' = rows
    BY <1>8 DEF TrySave
  <2> HIDE DEF q
  <2>2. Stopped(m, q)
    BY <1>1, <1>3, <1>6, <1>8, <2>1 DEF Stopped
  <2> QED BY <2>2
<1>9. CASE Fails(Nothing)
  BY <1>1, <1>9, FailsIsStopped, NothingForm
<1> QED BY <1>2, <1>7, <1>8, <1>9

LEMMA LoadedForm ==
    ASSUME ContextForm, NEW s, NEW v \in Loaded(s)
    PROVE  v \in 0..MaxVersion
<1>1. 0 \in 0..MaxVersion /\ file \in 0..MaxVersion
  BY ContextAssumption DEF ContextForm
<1>2. \A r \in ReadArtifact(s) : r[2] \in 0..MaxVersion
  BY <1>1 DEF ReadArtifact
<1> QED BY <1>2 DEF Loaded

LEMMA LoadKind ==
    ASSUME ContextForm, LoadArtifact
    PROVE  \E m, r : Ran(m, r) \/ Stopped(m, r)
<1>1. status = "running" /\ pc \in StepIds /\ ~ Completed(pc) /\ wf[pc].base = "load_artifact"
  BY AtForm DEF LoadArtifact
<1>2. CASE CannotLoad(wf[pc]) /\ Fails(Nothing)
  BY <1>1, <1>2, FailsIsStopped, NothingForm
<1>3. ASSUME NEW v \in Loaded(wf[pc]),
             Writes(One(Name[pc], Make(pc, "artifacts", v, num))),
             TrySave(Row("completed", Nothing, Absent, Absent))
      PROVE  \E m, r : Ran(m, r)
  <2> DEFINE m == One(Name[pc], Make(pc, "artifacts", v, num))
             r == Row("completed", Nothing, Absent, Absent)
  <2>1. pc \in 0..NSteps /\ num \in {"int", "float"}
    BY <1>1, ContextAssumption DEF ContextForm, StepIds
  <2>2. Make(pc, "artifacts", v, num) \in Value
    BY <1>3, <2>1, LoadedForm, Made
  <2>3. DOMAIN m = {Name[pc]} /\ \A k \in DOMAIN m : m[k] \in Value
    BY <2>2 DEF One
  <2>4. RowForm(r) /\ r.status = "completed" /\ r.output = Absent /\ r.artifacts = Absent
    BY NothingForm, RowMade, Values DEF StepStatus
  <2>5. Writes(m) /\ (rows' = [rows EXCEPT ![pc] = r] \/ rows' = rows)
    BY <1>3 DEF TrySave
  <2> HIDE DEF m, r
  <2>6. IsOf(m, pc)
    BY <1>1, <2>3 DEF IsOf, StepKeys
  <2>7. Keeps(pc, r, m)
    BY <1>1, <2>4 DEF Keeps
  <2>8. Ran(m, r)
    BY <1>1, <2>4, <2>5, <2>6, <2>7 DEF Ran
  <2> QED BY <2>8
<1> QED BY <1>2, <1>3 DEF LoadArtifact

(* What an executor's step puts into the context: its output, if it is to   *)
(* be registered, and its artifacts, if it has any, over it.                *)
Registered(result) == IF wf[pc].register = NoKey THEN Nothing ELSE One(wf[pc].register, result)

Both(result, data) ==
  [k \in DOMAIN Registered(result) \cup DOMAIN data |->
     IF k \in DOMAIN data THEN data[k] ELSE Registered(result)[k]]

ExecDone(result, data) ==
  \/ /\ rows' = [rows EXCEPT ![pc] = Row("completed", Nothing, result, Kept(Merge(ctx, Both(result, data))))]
     /\ Writes(Both(result, data))
  \/ /\ rows' = [rows EXCEPT ![pc] = Row("running", Nothing, Absent, Absent)]
     /\ ctx' = Merge(ctx, Both(result, data))
     /\ status' = "failed"
     /\ UNCHANGED <<setting, file, pc, attempt, given, wrote, passed>>

LEMMA DoneKind ==
    ASSUME ContextForm, status = "running", pc \in StepIds, ~ Completed(pc), wf[pc].base = "exec",
           NEW result \in Value, result.part = "output", NEW data, ExecDone(result, data),
           \/ wf[pc].artifacts = "none" /\ DOMAIN data = {}
           \/ /\ wf[pc].artifacts # "none" /\ DOMAIN data = {Name[pc]}
              /\ data[Name[pc]] \in Value /\ data[Name[pc]].part = "data"
    PROVE  \E m, r : Ran(m, r) \/ Stopped(m, r)
<1> DEFINE s == wf[pc]
           m == Both(result, data)
           a == Kept(Merge(ctx, m))
           r == Row("completed", Nothing, result, a)
           q == Row("running", Nothing, Absent, Absent)
<1>1. /\ s.register # NoKey => DOMAIN Registered(result) = {s.register}
                               /\ Registered(result)[s.register] = result
      /\ s.register = NoKey => DOMAIN Registered(result) = {}
  BY DEF Registered, One, Nothing
<1>2. /\ DOMAIN m = DOMAIN Registered(result) \cup DOMAIN data
      /\ \A k \in DOMAIN m : m[k] = IF k \in DOMAIN data THEN data[k] ELSE Registered(result)[k]
  BY DEF Both
<1> HIDE DEF m
<1>3. \A k \in DOMAIN m : m[k] \in Value
  BY <1>1, <1>2
<1>4. DOMAIN m \subseteq StepKeys(pc)
  BY <1>1, <1>2 DEF StepKeys
<1>5. /\ Merge(ctx, m) \in [CtxKeys -> Value]
      /\ \A k \in CtxKeys : Merge(ctx, m)[k] = IF k \in DOMAIN m THEN m[k] ELSE ctx[k]
  BY <1>3, MergeForm DEF ContextForm
<1>6. a \in Value /\ (Name[pc] \in DOMAIN m => a = m[Name[pc]])
  BY <1>5, StepForm DEF Kept
<1> HIDE DEF a
<1>7. /\ RowForm(r) /\ r.status = "completed" /\ r.output = result /\ r.artifacts = a
      /\ RowForm(q) /\ q.status = "running"
  BY <1>6, NothingForm, RowMade, Values DEF StepStatus
<1>8. CASE rows' = [rows EXCEPT ![pc] = r] /\ Writes(m)
  <2> HIDE DEF r
  <2>0. /\ s.register # NoKey => s.register \in DOMAIN m
        /\ (s.register # NoKey /\ (s.register # Name[pc] \/ s.artifacts = "none")) =>
              m[s.register] = result
        /\ s.artifacts # "none" => Name[pc] \in DOMAIN m /\ m[Name[pc]].part = "data"
    BY <1>1, <1>2
  <2>1. Keeps(pc, r, m)
    <3>1. Name[pc] # NoKey
      BY StepForm, ContextAssumption
    <3>2. (s.artifacts = "none" /\ s.register = Name[pc]) => a = m[Name[pc]]
      BY <1>6, <2>0, <3>1
    <3>3. s.artifacts # "none" => a = m[Name[pc]]
      BY <1>6, <2>0
    <3> QED BY <1>7, <2>0, <3>2, <3>3 DEF Keeps
  <2>2. Ran(m, r)
    BY <1>3, <1>4, <1>7, <1>8, <2>1 DEF Ran, IsOf
  <2> QED BY <2>2
<1>9. CASE /\ rows' = [rows EXCEPT ![pc] = q]
           /\ ctx' = Merge(ctx, m)
           /\ status' = "failed"
           /\ UNCHANGED <<setting, file, pc, attempt, given, wrote, passed>>
  <2> HIDE DEF q
  <2>1. Stopped(m, q)
    BY <1>3, <1>7, <1>9 DEF Stopped
  <2> QED BY <2>1
<1> QED BY <1>8, <1>9 DEF ExecDone, m, a

LEMMA ExecKind ==
    ASSUME ContextForm, Exec
    PROVE  \E m, r : Ran(m, r) \/ Stopped(m, r)
<1> DEFINE s == wf[pc]
           result == Make(pc, "output", 0, num)
<1>1. status = "running" /\ pc \in StepIds /\ ~ Completed(pc) /\ s.base = "exec"
  BY AtForm DEF Exec
<1>2. \/ s.artifacts = "none" /\ ExecDone(result, Nothing)
      \/ /\ s.artifacts # "none"
         /\ \E v \in Loaded(s) : ExecDone(result, One(Name[pc], Make(pc, "data", v, num)))
      \/ s.artifacts # "none" /\ CannotLoad(s) /\ Fails(Registered(result))
      \/ Fails(Nothing)
  BY DEF Exec, ExecDone, Both, Registered
<1>3. pc \in 0..NSteps /\ num \in {"int", "float"} /\ 0 \in 0..MaxVersion
  BY <1>1, ContextAssumption DEF ContextForm, StepIds
<1>4. result \in Value /\ result.part = "output"
  BY <1>3, Made
<1> HIDE DEF result
<1>5. CASE s.artifacts = "none" /\ ExecDone(result, Nothing)
  BY <1>1, <1>4, <1>5, NothingForm, DoneKind
<1>6. ASSUME s.artifacts # "none", NEW v \in Loaded(s),
             ExecDone(result, One(Name[pc], Make(pc, "data", v, num)))
      PROVE  \E m, r : Ran(m, r) \/ Stopped(m, r)
  <2> DEFINE d == One(Name[pc], Make(pc, "data", v, num))
  <2>1. Make(pc, "data", v, num) \in Value /\ Make(pc, "data", v, num).part = "data"
    BY <1>3, <1>6, LoadedForm, Made
  <2>2. /\ DOMAIN d = {Name[pc]} /\ d[Name[pc]] \in Value /\ d[Name[pc]].part = "data"
    BY <2>1 DEF One
  <2> HIDE DEF d
  <2>3. ExecDone(result, d)
    BY <1>6 DEF d
  <2> QED BY <1>1, <1>4, <1>6, <2>2, <2>3, DoneKind
<1>7. CASE Fails(Registered(result))
  <2>1. \A k \in DOMAIN Registered(result) : Registered(result)[k] \in Value
    BY <1>4 DEF Registered, One, Nothing
  <2> QED BY <1>1, <1>7, <2>1, FailsIsStopped
<1>8. CASE Fails(Nothing)
  BY <1>1, <1>8, FailsIsStopped, NothingForm
<1> QED BY <1>2, <1>5, <1>6, <1>7, <1>8

(* What a step does that is neither skipped nor passed over. *)
LEMMA StepKinds ==
    ASSUME ContextForm, SetFact \/ Gate \/ LoadArtifact \/ Exec
    PROVE  \E m, r : Ran(m, r) \/ Stopped(m, r)
BY SetFactKind, GateKind, LoadKind, ExecKind

-----------------------------------------------------------------------------
(* The invariant. *)

LEMMA ContextInitInv == ContextInit => ContextInd
<1> SUFFICES ASSUME ContextInit PROVE ContextInd
  OBVIOUS
<1> USE DEF ContextInit
<1>1. /\ wf \in Workflows /\ top \in BOOLEAN /\ num \in {"int", "float"}
      /\ file \in 0..MaxVersion /\ attempt \in 1..MaxAttempts
      /\ pc \in 1..(NSteps + 1) /\ given \in SUBSET Vars /\ passed = {}
      /\ status = "running"
  BY ContextAssumption
<1>2. \A i \in StepIds : /\ rows[i] = NoRow /\ wrote[i] = Nothing
  OBVIOUS
<1>3. RowForm(NoRow) /\ NoRow.status # "completed" /\ DOMAIN Nothing = {}
  BY Values, NothingForm, ContextAssumption DEF NoRow, RowForm, StepStatus
<1>4. \A k : Inherited(k) \in Value
  <2>1. 0 \in 0..NSteps /\ 0 \in 0..MaxVersion
    BY ContextAssumption
  <2> QED BY <1>1, <2>1, Made, Values DEF Inherited
<1>5. ContextForm
  <2>1. ctx \in [CtxKeys -> Value]
    BY <1>4
  <2>2. rows = [i \in StepIds |-> rows[i]] /\ wrote = [i \in StepIds |-> wrote[i]]
    OBVIOUS
  <2>3. \A i \in StepIds : RowForm(rows[i]) /\ IsOf(wrote[i], i)
    BY <1>2, <1>3 DEF IsOf
  <2> QED BY <1>1, <2>1, <2>2, <2>3 DEF ContextForm
<1>6. \A i \in StepIds : ~ Completed(i)
  BY <1>2, <1>3 DEF Completed
<1>7. RowsInv /\ PassedInv
  BY <1>1, <1>6 DEF RowsInv, PassedInv
<1>8. ASSUME NEW k \in CtxKeys PROVE ctx[k] = Before(k) /\ SameValue(ctx[k], Before(k))
  BY DEF Before, SameValue
<1>9. CtxInv
  <2>1. \A k \in CtxKeys : ReplayedInv(k)
    BY <1>1, <1>8 DEF ReplayedInv, Writers
  <2>2. \A k \in CtxKeys, j \in StepIds : LoadedInv(k, j)
    BY <1>6, <1>8 DEF LoadedInv
  <2> QED BY <2>1, <2>2 DEF CtxInv, Good
<1> QED BY <1>5, <1>7, <1>9 DEF ContextInd

LEMMA SameSetting ==
    ASSUME UNCHANGED setting
    PROVE  /\ Good' = Good
           /\ \A i : StepKeys(i)' = StepKeys(i) /\ HasArtifacts(i)' = HasArtifacts(i)
           /\ \A k : Inherited(k)' = Inherited(k)
           /\ \A i : wf'[i] = wf[i]
<1>1. wf' = wf /\ top' = top /\ num' = num
  BY DEF setting
<1>2. \A i : ArtifactsLost(i)' = ArtifactsLost(i)
  BY <1>1 DEF ArtifactsLost
<1>3. Lost' = Lost /\ Spurious' = Spurious
  BY <1>1, <1>2 DEF Lost, Spurious
<1> QED BY <1>1, <1>3 DEF Good, StepKeys, HasArtifacts, Inherited

(* Rows and what was written, after the step at pc has changed them. *)
LEMMA RowsKept ==
    ASSUME ContextForm, UNCHANGED setting, pc \in StepIds, NEW r, NEW m, RowForm(r), IsOf(m, pc),
           rows' = [rows EXCEPT ![pc] = r] \/ rows' = rows,
           wrote' = [wrote EXCEPT ![pc] = m] \/ wrote' = wrote
    PROVE  /\ rows' = [i \in StepIds |-> rows'[i]] /\ \A i \in StepIds : RowForm(rows'[i])
           /\ wrote' = [i \in StepIds |-> wrote'[i]]
           /\ \A i \in StepIds : IsOf(wrote[i], i)'
           /\ \A i \in StepIds \ {pc} : rows'[i] = rows[i] /\ wrote'[i] = wrote[i]
<1>1. /\ rows = [i \in StepIds |-> rows[i]] /\ \A i \in StepIds : RowForm(rows[i])
      /\ wrote = [i \in StepIds |-> wrote[i]] /\ \A i \in StepIds : IsOf(wrote[i], i)
  BY DEF ContextForm
<1>2. /\ rows' = [i \in StepIds |-> rows'[i]]
      /\ rows'[pc] \in {r, rows[pc]} /\ \A i \in StepIds \ {pc} : rows'[i] = rows[i]
  BY <1>1
<1>3. /\ wrote' = [i \in StepIds |-> wrote'[i]]
      /\ wrote'[pc] \in {m, wrote[pc]} /\ \A i \in StepIds \ {pc} : wrote'[i] = wrote[i]
  BY <1>1
<1>4. \A i \in StepIds : RowForm(rows'[i])
  BY <1>1, <1>2
<1>5. \A i \in StepIds : IsOf(wrote'[i], i)
  BY <1>1, <1>3
<1>6. ASSUME NEW i \in StepIds PROVE IsOf(wrote[i], i)'
  <2>1. StepKeys(i)' = StepKeys(i)
    BY SameSetting
  <2> QED BY <1>5, <2>1 DEF IsOf
<1> QED BY <1>2, <1>3, <1>4, <1>6

LEMMA KeepsStays ==
    ASSUME UNCHANGED setting, NEW i, NEW r, NEW m, Keeps(i, r, m), rows'[i] = r, wrote'[i] = m
    PROVE  Keeps(i, rows[i], wrote[i])'
BY SameSetting DEF Keeps

LEMMA StoppedInv ==
    ASSUME ContextInd, NEW m, NEW r, Stopped(m, r)
    PROVE  ContextInd'
<1> USE DEF ContextInd
<1>1. /\ UNCHANGED <<setting, file, pc, attempt, given, wrote, passed>>
      /\ status' \in {"failed", "paused"}
  BY DEF Stopped
<1>2. IsOf(wrote[pc], pc) /\ pc \in StepIds
  BY DEF Stopped, ContextForm
<1>3. /\ rows' = [i \in StepIds |-> rows'[i]] /\ \A i \in StepIds : RowForm(rows'[i])
      /\ wrote' = [i \in StepIds |-> wrote'[i]] /\ \A i \in StepIds : IsOf(wrote[i], i)'
      /\ \A i \in StepIds \ {pc} : rows'[i] = rows[i] /\ wrote'[i] = wrote[i]
  BY <1>1, <1>2, RowsKept DEF Stopped
<1>4. ctx' \in [CtxKeys -> Value]
  BY MergeForm DEF Stopped, ContextForm
<1>5. ContextForm'
  <2>1. \A i \in StepIds : RowForm(rows[i])'
    BY <1>3 DEF RowForm
  <2> QED BY <1>1, <1>3, <1>4, <2>1 DEF ContextForm, setting
<1>6. rows'[pc].status # "completed"
  BY <1>2 DEF Stopped, Completed, ContextForm
<1>7. RowsInv'
  <2> SUFFICES ASSUME NEW i \in StepIds, Completed(i)'
               PROVE  Keeps(i, rows[i], wrote[i])'
    BY DEF RowsInv
  <2>1. i # pc
    BY <1>6 DEF Completed
  <2>2. Completed(i) /\ rows'[i] = rows[i] /\ wrote'[i] = wrote[i]
    BY <1>3, <2>1 DEF Completed
  <2> QED BY <1>1, <2>2, KeepsStays DEF RowsInv
<1> QED BY <1>1, <1>5, <1>7

LEMMA RanForm ==
    ASSUME ContextInd, NEW m, NEW r, Ran(m, r)
    PROVE  /\ ContextForm' /\ RowsInv'
           /\ \A i \in StepIds \ {pc} : rows'[i] = rows[i] /\ wrote'[i] = wrote[i]
           /\ wrote'[pc] = m /\ (wf[pc].base = "exec" => rows'[pc].status = "completed")
           /\ \A k \in CtxKeys : ctx'[k] = IF k \in DOMAIN m THEN m[k] ELSE ctx[k]
<1> USE DEF ContextInd
<1>1. /\ UNCHANGED <<setting, file, status, attempt, given>>
      /\ ctx' = Merge(ctx, m) /\ wrote' = [wrote EXCEPT ![pc] = m]
      /\ passed' = passed \cup {pc} /\ pc' = pc + 1
      /\ pc \in StepIds
  BY DEF Ran, Writes
<1>2. /\ rows' = [i \in StepIds |-> rows'[i]] /\ \A i \in StepIds : RowForm(rows'[i])
      /\ wrote' = [i \in StepIds |-> wrote'[i]] /\ \A i \in StepIds : IsOf(wrote[i], i)'
      /\ \A i \in StepIds \ {pc} : rows'[i] = rows[i] /\ wrote'[i] = wrote[i]
  BY <1>1, RowsKept DEF Ran
<1>3. /\ ctx' \in [CtxKeys -> Value]
      /\ \A k \in CtxKeys : ctx'[k] = IF k \in DOMAIN m THEN m[k] ELSE ctx[k]
  BY <1>1, MergeForm DEF Ran, IsOf, ContextForm
<1>4. pc' \in 1..(NSteps + 1) /\ passed' \subseteq 1..(pc' - 1)
  BY <1>1, ContextAssumption DEF ContextForm, StepIds
<1>5. ContextForm'
  <2>1. \A i \in StepIds : RowForm(rows[i])'
    BY <1>2 DEF RowForm
  <2> QED BY <1>1, <1>2, <1>3, <1>4, <2>1 DEF ContextForm, setting
<1>6. wrote'[pc] = m
  BY <1>1 DEF ContextForm
<1>7. rows'[pc] = r \/ (wf[pc].base # "exec" /\ rows' = rows)
  BY <1>1 DEF Ran, ContextForm
<1>8. RowsInv'
  <2> SUFFICES ASSUME NEW i \in StepIds, Completed(i)'
               PROVE  Keeps(i, rows[i], wrote[i])'
    BY DEF RowsInv
  <2>1. CASE i # pc
    <3>1. Completed(i) /\ rows'[i] = rows[i] /\ wrote'[i] = wrote[i]
      BY <1>2, <2>1 DEF Completed
    <3> QED BY <1>1, <3>1, KeepsStays DEF RowsInv
  <2>2. CASE i = pc
    <3>1. rows'[pc] = r
      BY <1>7, <2>2 DEF Completed, Ran
    <3>2. Keeps(pc, r, m)
      BY DEF Ran
    <3> QED BY <1>1, <1>6, <2>2, <3>1, <3>2, KeepsStays
  <2> QED BY <2>1, <2>2
<1>9. wf[pc].base = "exec" => rows'[pc].status = "completed"
  BY <1>7 DEF Ran, Completed
<1> QED BY <1>2, <1>3, <1>5, <1>6, <1>8, <1>9

(* A key under which an executor's artifacts are kept is set by no other    *)
(* step.                                                                    *)
LEMMA OnlyOwn ==
    ASSUME ContextForm, NEW j \in StepIds, HasArtifacts(j), Name[j] \in Good,
           NEW i \in StepIds, Name[j] \in StepKeys(i)
    PROVE  i = j
<1>1. Name[j] \notin Vars /\ DOMAIN wf[i].facts \subseteq Vars
  BY StepForm
<1>2. Name[j] # wf[i].register
  <2> SUFFICES ASSUME Name[j] = wf[i].register PROVE FALSE
    OBVIOUS
  <2>1. ArtifactsLost(j)
    BY DEF HasArtifacts, ArtifactsLost
  <2>2. Name[j] \in Lost
    BY <2>1 DEF Lost
  <2> QED BY <2>2 DEF Good
<1>3. Name[j] = Name[i]
  BY <1>1, <1>2 DEF StepKeys
<1> QED BY <1>3, NamesDiffer

LEMMA SameItself == \A v : SameValue(v, v)
BY DEF SameValue

LEMMA RanInv ==
    ASSUME ContextInd, NEW m, NEW r, Ran(m, r)
    PROVE  ContextInd'
<1> USE DEF ContextInd
<1>1. /\ UNCHANGED <<setting, file, status, attempt, given>>
      /\ passed' = passed \cup {pc} /\ pc' = pc + 1
      /\ pc \in StepIds /\ pc \in Nat /\ status = "running" /\ rows[pc].status # "completed"
  BY DEF Ran, Writes, Completed, StepIds
<1>2. /\ ContextForm' /\ RowsInv'
      /\ \A i \in StepIds \ {pc} : rows'[i] = rows[i] /\ wrote'[i] = wrote[i]
      /\ wrote'[pc] = m /\ (wf[pc].base = "exec" => rows'[pc].status = "completed")
      /\ \A k \in CtxKeys : ctx'[k] = IF k \in DOMAIN m THEN m[k] ELSE ctx[k]
  BY RanForm
<1>3. passed \subseteq 1..(pc - 1) /\ passed \subseteq StepIds \ {pc}
  BY <1>1, ContextAssumption DEF ContextForm, StepIds
<1>4. PassedInv /\ CtxInv
  BY <1>1
<1>5. PassedInv'
  <2>1. ASSUME NEW i \in StepIds, Completed(i)', i < pc' PROVE i \in passed'
    <3>1. CASE i = pc
      BY <1>1, <3>1
    <3>2. CASE i # pc
      <4>1. Completed(i) /\ i < pc
        BY <1>1, <1>2, <2>1, <3>2 DEF Completed, StepIds
      <4> QED BY <1>1, <1>4, <4>1 DEF PassedInv
    <3> QED BY <3>1, <3>2
  <2>2. ASSUME NEW i \in passed', wf'[i].base = "exec" PROVE Completed(i)'
    <3>1. CASE i = pc
      BY <1>1, <1>2, <2>2, <3>1 DEF Completed, setting
    <3>2. CASE i # pc
      BY <1>1, <1>2, <1>3, <1>4, <2>2, <3>2 DEF Completed, setting, PassedInv
    <3> QED BY <3>1, <3>2
  <2> QED BY <2>1, <2>2 DEF PassedInv
<1>6. \A k : Before(k)' = Before(k)
  BY <1>1, SameSetting DEF Before
<1>7. ASSUME NEW k \in Good, NEW j \in StepIds, HasArtifacts(j), k = Name[j]
      PROVE  LoadedInv(k, j)'
  <2>0. k \in CtxKeys
    BY DEF Good
  <2>1. CASE j = pc
    <3>1. k \in DOMAIN m
      BY <1>7, <2>1 DEF Ran, Keeps, HasArtifacts
    <3>2. ctx'[k] = wrote'[j][k] /\ rows'[j].status = "completed"
      BY <1>2, <1>7, <2>0, <2>1, <3>1 DEF HasArtifacts
    <3> QED BY <3>2, SameItself DEF LoadedInv, Completed
  <2>2. CASE j # pc
    <3>1. k \notin StepKeys(pc)
      BY <1>1, <1>7, <2>2, OnlyOwn
    <3>2. k \notin DOMAIN m
      BY <3>1 DEF Ran, IsOf
    <3>3. ctx'[k] = ctx[k] /\ rows'[j] = rows[j] /\ wrote'[j] = wrote[j]
      BY <1>2, <2>0, <2>2, <3>2
    <3>4. LoadedInv(k, j)
      BY <1>4, <1>7 DEF CtxInv
    <3> QED BY <1>6, <3>3, <3>4 DEF LoadedInv, Completed
  <2> QED BY <2>1, <2>2
<1>8. ASSUME NEW k \in Good, ReplayedInv(k) PROVE ReplayedInv(k)'
  <2>0. k \in CtxKeys
    BY DEF Good
  <2>1. CASE k \in DOMAIN m
    <3>1. ctx'[k] = wrote'[pc][k]
      BY <1>2, <2>0, <2>1
    <3>2. pc \in Writers(k)'
      BY <1>1, <1>2, <2>1 DEF Writers
    <3>3. ASSUME NEW i \in Writers(k)', pc <= i PROVE i = pc
      <4>1. i \in passed'
        BY <3>3 DEF Writers
      <4>2. i = pc \/ i \in 1..(pc - 1)
        BY <1>1, <1>3, <4>1
      <4> QED BY <1>1, <3>3, <4>2
    <3> QED BY <3>1, <3>2, <3>3, SameItself DEF ReplayedInv
  <2>2. CASE k \notin DOMAIN m
    <3>1. ctx'[k] = ctx[k]
      BY <1>2, <2>0, <2>2
    <3>2. Writers(k)' = Writers(k)
      BY <1>1, <1>2, <1>3, <2>2 DEF Writers
    <3>3. \A i \in Writers(k) : wrote'[i] = wrote[i]
      BY <1>2, <1>3 DEF Writers
    <3>4. \A i \in Writers(k)' : (\A j \in Writers(k)' : j <= i) => SameValue(ctx'[k], wrote'[i][k])
      BY <1>8, <3>1, <3>2, <3>3 DEF ReplayedInv
    <3>5. ASSUME Writers(k)' = {},
                 \A i \in StepIds : (Completed(i)' /\ i >= pc') => k \notin DOMAIN wrote'[i]
          PROVE  SameValue(ctx'[k], Before(k)')
      <4>1. ASSUME NEW i \in StepIds, Completed(i), i >= pc PROVE k \notin DOMAIN wrote[i]
        <5>1. i # pc /\ i >= pc'
          BY <1>1, <4>1 DEF Completed, StepIds
        <5> QED BY <1>2, <3>5, <4>1, <5>1 DEF Completed
      <4> QED BY <1>6, <1>8, <3>1, <3>2, <3>5, <4>1 DEF ReplayedInv
    <3> QED BY <3>4, <3>5 DEF ReplayedInv
  <2> QED BY <2>1, <2>2
<1>9. CtxInv'
  <2>1. Good' = Good /\ \A i : HasArtifacts(i)' = HasArtifacts(i)
    BY <1>1, SameSetting
  <2> QED BY <1>4, <1>7, <1>8, <2>1 DEF CtxInv
<1> QED BY <1>1, <1>2, <1>5, <1>9

LEMMA ReplayedForm ==
    ASSUME ContextForm, NEW i \in StepIds
    PROVE  \A k \in DOMAIN Replayed(i) : Replayed(i)[k] \in Value
<1>1. /\ \A k \in DOMAIN rows[i].facts : rows[i].facts[k] \in Value
      /\ rows[i].output \in Value
  BY DEF ContextForm, RowForm
<1>2. Decoded(rows[i].output) \in Value
  BY <1>1, DecodedForm
<1>3. \A k \in DOMAIN DecodedMap(rows[i].facts) : DecodedMap(rows[i].facts)[k] \in Value
  BY <1>1, DecodedForm DEF DecodedMap
<1>4. \A x : \A k \in DOMAIN One(x, Decoded(rows[i].output)) :
               One(x, Decoded(rows[i].output))[k] \in Value
  BY <1>2 DEF One
<1>5. \/ Replayed(i) = DecodedMap(rows[i].facts)
      \/ Replayed(i) = One(wf[i].register, Decoded(rows[i].output))
      \/ Replayed(i) = Nothing
  BY DEF Replayed
<1> QED BY <1>3, <1>4, <1>5, NothingForm

LEMMA SkipInv == ContextInd /\ Skip => ContextInd'
<1> SUFFICES ASSUME ContextInd, Skip PROVE ContextInd'
  OBVIOUS
<1> USE DEF ContextInd
<1>1. /\ UNCHANGED <<setting, file, rows, status, attempt, given, wrote>>
      /\ ctx' = Merge(ctx, Replayed(pc)) /\ passed' = passed \cup {pc} /\ pc' = pc + 1
      /\ pc \in StepIds /\ pc \in Nat /\ status = "running" /\ Completed(pc)
  BY DEF Skip, Completed, StepIds, ContextForm
<1>2. /\ ctx' \in [CtxKeys -> Value]
      /\ \A k \in CtxKeys :
           ctx'[k] = IF k \in DOMAIN Replayed(pc) THEN Replayed(pc)[k] ELSE ctx[k]
  BY <1>1, ReplayedForm, MergeForm DEF ContextForm
<1>3. passed \subseteq 1..(pc - 1) /\ passed \subseteq StepIds \ {pc}
  BY <1>1, ContextAssumption DEF ContextForm, StepIds
<1>4. PassedInv /\ CtxInv
  BY <1>1
<1>5. \A i \in StepIds : /\ rows'[i] = rows[i] /\ wrote'[i] = wrote[i]
                         /\ (IsOf(wrote[i], i)' <=> IsOf(wrote[i], i))
  BY <1>1, SameSetting DEF IsOf
<1>6. ContextForm'
  <2>1. pc' \in 1..(NSteps + 1) /\ passed' \subseteq 1..(pc' - 1)
    BY <1>1, ContextAssumption DEF ContextForm, StepIds
  <2>2. \A i \in StepIds : RowForm(rows[i])'
    BY <1>5 DEF RowForm, ContextForm
  <2>3. \A i \in StepIds : IsOf(wrote[i], i)'
    BY <1>5 DEF ContextForm
  <2> QED BY <1>1, <1>2, <2>1, <2>2, <2>3 DEF ContextForm, setting
<1>7. RowsInv'
  BY <1>1, <1>5, KeepsStays DEF RowsInv, Completed
<1>8. PassedInv'
  <2>1. ASSUME NEW i \in StepIds, Completed(i)', i < pc' PROVE i \in passed'
    <3>1. CASE i = pc
      BY <1>1, <3>1
    <3>2. CASE i # pc
      <4>1. Completed(i) /\ i < pc
        BY <1>1, <1>5, <2>1, <3>2 DEF Completed, StepIds
      <4> QED BY <1>1, <1>4, <4>1 DEF PassedInv
    <3> QED BY <3>1, <3>2
  <2>2. ASSUME NEW i \in passed', wf'[i].base = "exec" PROVE Completed(i)'
    <3>1. Completed(i)
      BY <1>1, <1>4, <2>2 DEF setting, PassedInv
    <3> QED BY <1>1, <3>1 DEF Completed
  <2> QED BY <2>1, <2>2 DEF PassedInv
<1>9. \A k : Before(k)' = Before(k)
  BY <1>1, SameSetting DEF Before
<1>10. ASSUME NEW k \in Good, NEW j \in StepIds, HasArtifacts(j), k = Name[j]
       PROVE  LoadedInv(k, j)'
  <2>1. k \in CtxKeys /\ LoadedInv(k, j)
    BY <1>4, <1>10 DEF Good, CtxInv
  <2>2. CASE k \in DOMAIN Replayed(pc)
    <3>1. k \in DOMAIN wrote[pc] /\ Replayed(pc)[k] = Decoded(wrote[pc][k])
      BY <1>1, <2>2, ReplayPart
    <3>2. k \in StepKeys(pc) /\ wrote[pc][k] \in Value
      BY <1>1, <3>1 DEF ContextForm, IsOf
    <3>3. pc = j
      BY <1>1, <1>10, <3>2, OnlyOwn
    <3>4. SameValue(ctx'[k], wrote[j][k])
      BY <1>2, <2>1, <2>2, <3>1, <3>2, <3>3, SameDecoded
    <3> QED BY <1>1, <1>5, <3>3, <3>4 DEF LoadedInv, Completed
  <2>3. CASE k \notin DOMAIN Replayed(pc)
    <3>1. ctx'[k] = ctx[k]
      BY <1>2, <2>1, <2>3
    <3> QED BY <1>5, <1>9, <2>1, <3>1 DEF LoadedInv, Completed
  <2> QED BY <2>2, <2>3
<1>11. ASSUME NEW k \in Good, \A j \in StepIds : HasArtifacts(j) => k # Name[j]
       PROVE  ReplayedInv(k)'
  <2>1. k \in CtxKeys /\ ReplayedInv(k)
    BY <1>4, <1>11 DEF Good, CtxInv
  <2>2. k \in DOMAIN wrote[pc] <=> k \in DOMAIN Replayed(pc)
    BY <1>1, <1>11, ReplayPart
  <2>3. CASE k \in DOMAIN wrote[pc]
    <3>1. SameValue(ctx'[k], wrote'[pc][k])
      <4>1. Replayed(pc)[k] = Decoded(wrote[pc][k]) /\ wrote[pc][k] \in Value
        BY <1>1, <2>2, <2>3, ReplayPart DEF ContextForm, IsOf
      <4> QED BY <1>1, <1>2, <1>5, <2>1, <2>2, <2>3, <4>1, SameDecoded
    <3>2. pc \in Writers(k)'
      BY <1>1, <1>5, <2>3 DEF Writers
    <3>3. ASSUME NEW i \in Writers(k)', pc <= i PROVE i = pc
      <4>1. i \in passed'
        BY <3>3 DEF Writers
      <4>2. i = pc \/ i \in 1..(pc - 1)
        BY <1>1, <1>3, <4>1
      <4> QED BY <1>1, <3>3, <4>2
    <3> QED BY <3>1, <3>2, <3>3 DEF ReplayedInv
  <2>4. CASE k \notin DOMAIN wrote[pc]
    <3>1. ctx'[k] = ctx[k]
      BY <1>2, <2>1, <2>2, <2>4
    <3>2. Writers(k)' = Writers(k)
      BY <1>1, <2>4 DEF Writers
    <3>3. \A i \in Writers(k)' : (\A j \in Writers(k)' : j <= i) => SameValue(ctx'[k], wrote'[i][k])
      BY <1>1, <2>1, <3>1, <3>2 DEF ReplayedInv
    <3>4. ASSUME Writers(k)' = {},
                 \A i \in StepIds : (Completed(i)' /\ i >= pc') => k \notin DOMAIN wrote'[i]
          PROVE  SameValue(ctx'[k], Before(k)')
      <4>1. ASSUME NEW i \in StepIds, Completed(i), i >= pc PROVE k \notin DOMAIN wrote[i]
        <5>1. i = pc \/ i >= pc'
          BY <1>1, <4>1 DEF StepIds
        <5>2. Completed(i)'
          BY <1>1, <4>1 DEF Completed
        <5> QED BY <1>1, <2>4, <3>4, <5>1, <5>2
      <4> QED BY <1>9, <2>1, <3>1, <3>2, <3>4, <4>1 DEF ReplayedInv
    <3> QED BY <3>3, <3>4 DEF ReplayedInv
  <2> QED BY <2>3, <2>4
<1>12. CtxInv'
  <2>1. Good' = Good /\ \A i : HasArtifacts(i)' = HasArtifacts(i)
    BY <1>1, SameSetting
  <2> QED BY <1>10, <1>11, <2>1 DEF CtxInv
<1> QED BY <1>1, <1>6, <1>7, <1>8, <1>12

LEMMA FinishInv == ContextInd /\ (Finish \/ FileChanges) => ContextInd'
<1> SUFFICES ASSUME ContextInd, Finish \/ FileChanges PROVE ContextInd'
  OBVIOUS
<1> USE DEF ContextInd
<1>1. /\ UNCHANGED <<setting, rows, ctx, pc, attempt, given, wrote, passed>>
      /\ status' = "completed" \/ status' = status
      /\ file' \in 0..MaxVersion
  BY DEF Finish, FileChanges, ContextForm, setting
<1>2. /\ Good' = Good /\ \A i : HasArtifacts(i)' = HasArtifacts(i)
      /\ \A i : StepKeys(i)' = StepKeys(i) /\ \A k : Before(k)' = Before(k)
  BY <1>1, SameSetting DEF Before
<1>3. ContextForm'
  <2>1. \A i \in StepIds : RowForm(rows[i])' /\ IsOf(wrote[i], i)'
    BY <1>1, <1>2 DEF RowForm, IsOf, ContextForm
  <2> QED BY <1>1, <2>1 DEF ContextForm, setting
<1>4. RowsInv'
  BY <1>1, KeepsStays DEF RowsInv, Completed
<1>5. ASSUME status' = "running" PROVE PassedInv' /\ CtxInv'
  <2>1. PassedInv /\ CtxInv
    BY <1>1, <1>5
  <2>2. PassedInv'
    BY <1>1, <2>1 DEF PassedInv, Completed, setting
  <2>3. \A k, j : LoadedInv(k, j)' <=> LoadedInv(k, j)
    BY <1>1, <1>2 DEF LoadedInv, Completed
  <2>4. \A k : ReplayedInv(k)' <=> ReplayedInv(k)
    BY <1>1, <1>2 DEF ReplayedInv, Writers, Completed
  <2> QED BY <1>2, <2>1, <2>2, <2>3, <2>4 DEF CtxInv
<1> QED BY <1>3, <1>4, <1>5

LEMMA SkipWhenFalseInv == ContextInd /\ SkipWhenFalse => ContextInd'
<1> SUFFICES ASSUME ContextInd, SkipWhenFalse PROVE ContextInd'
  OBVIOUS
<1> DEFINE r == Row("skipped", Nothing, Absent, Absent)
<1> USE DEF ContextInd
<1>1. /\ UNCHANGED <<setting, file, ctx, status, attempt, given, wrote, passed>>
      /\ pc' = pc + 1
      /\ rows' = [rows EXCEPT ![pc] = r] \/ rows' = rows
      /\ pc \in StepIds /\ pc \in Nat /\ status = "running" /\ ~ Completed(pc)
  BY DEF SkipWhenFalse, TrySave, Completed, StepIds, ContextForm
<1>0. pc' = pc + 1 /\ pc \in 1..NSteps /\ NSteps \in Nat /\ \A i \in StepIds : i \in Nat
  BY <1>1, ContextAssumption DEF StepIds
<1>2. RowForm(r) /\ r.status # "completed"
  BY RowMade, NothingForm, Values DEF StepStatus
<1> HIDE DEF r
<1>3. /\ rows' = [i \in StepIds |-> rows'[i]] /\ \A i \in StepIds : RowForm(rows'[i])
      /\ wrote' = [i \in StepIds |-> wrote'[i]] /\ \A i \in StepIds : IsOf(wrote[i], i)'
      /\ \A i \in StepIds \ {pc} : rows'[i] = rows[i] /\ wrote'[i] = wrote[i]
  <2>1. IsOf(wrote[pc], pc)
    BY <1>1 DEF ContextForm
  <2> QED BY <1>1, <1>2, <2>1, RowsKept
<1>4. ContextForm'
  <2>1. \A i \in StepIds : RowForm(rows[i])'
    BY <1>3 DEF RowForm
  <2>2. pc' \in 1..(NSteps + 1) /\ passed' \subseteq 1..(pc' - 1)
    <3>1. passed \subseteq 1..(pc - 1)
      BY DEF ContextForm
    <3>2. pc' \in 1..(NSteps + 1)
      BY <1>0
    <3>3. 1..(pc - 1) \subseteq 1..(pc' - 1)
      BY <1>0
    <3> QED BY <1>1, <3>1, <3>2, <3>3
  <2> QED BY <1>1, <1>3, <2>1, <2>2 DEF ContextForm, setting
<1>5. ASSUME NEW i \in StepIds, Completed(i)'
      PROVE  i # pc /\ Completed(i) /\ rows'[i] = rows[i]
  <2>1. rows'[pc] = r \/ rows'[pc] = rows[pc]
    BY <1>1 DEF ContextForm
  <2>2. rows'[pc].status # "completed"
    BY <1>1, <1>2, <2>1 DEF Completed
  <2>3. i # pc
    BY <1>5, <2>2 DEF Completed
  <2> QED BY <1>3, <1>5, <2>3 DEF Completed
<1>6. RowsInv'
  BY <1>1, <1>3, <1>5, KeepsStays DEF RowsInv
<1>7. PassedInv /\ CtxInv
  BY <1>1
<1>8. PassedInv'
  <2>1. ASSUME NEW i \in StepIds, Completed(i)', i < pc' PROVE i \in passed'
    <3>1. Completed(i) /\ i # pc
      BY <1>5, <2>1
    <3>2. i < pc
      BY <1>0, <2>1, <3>1
    <3> QED BY <1>1, <1>7, <3>1, <3>2 DEF PassedInv
  <2>2. ASSUME NEW i \in passed', wf'[i].base = "exec" PROVE Completed(i)'
    <3>1. i \in StepIds \ {pc}
      <4>1. i \in 1..(pc - 1)
        BY <1>1 DEF ContextForm
      <4> QED BY <1>1, <4>1, ContextAssumption DEF StepIds
    <3>2. Completed(i)
      BY <1>1, <1>7, <2>2 DEF setting, PassedInv
    <3> QED BY <1>3, <3>1, <3>2 DEF Completed
  <2> QED BY <2>1, <2>2 DEF PassedInv
<1>9. \A k : Before(k)' = Before(k)
  BY <1>1, SameSetting DEF Before
<1>10. ASSUME NEW k, NEW j \in StepIds, LoadedInv(k, j) PROVE LoadedInv(k, j)'
  <2>1. Completed(j)' <=> Completed(j)
    <3>1. ASSUME Completed(j) PROVE Completed(j)'
      <4>1. j # pc
        BY <1>1, <3>1
      <4> QED BY <1>3, <3>1, <4>1 DEF Completed
    <3> QED BY <1>5, <3>1
  <2> QED BY <1>1, <1>9, <1>10, <2>1 DEF LoadedInv
<1>11. ASSUME NEW k, ReplayedInv(k) PROVE ReplayedInv(k)'
  <2>1. Writers(k)' = Writers(k) /\ ctx' = ctx /\ wrote' = wrote
    BY <1>1 DEF Writers
  <2>2. ASSUME Writers(k)' = {},
               \A i \in StepIds : (Completed(i)' /\ i >= pc') => k \notin DOMAIN wrote'[i]
        PROVE  SameValue(ctx'[k], Before(k)')
    <3>1. ASSUME NEW i \in StepIds, Completed(i), i >= pc PROVE k \notin DOMAIN wrote[i]
      <4>1. i # pc
        BY <1>1, <3>1
      <4>2. i >= pc'
        BY <1>0, <3>1, <4>1
      <4>3. Completed(i)'
        BY <1>3, <3>1, <4>1 DEF Completed
      <4> QED BY <2>1, <2>2, <4>2, <4>3
    <3> QED BY <1>9, <1>11, <2>1, <2>2, <3>1 DEF ReplayedInv
  <2> QED BY <1>11, <2>1, <2>2 DEF ReplayedInv
<1>12. CtxInv'
  <2>1. Good' = Good /\ \A i : HasArtifacts(i)' = HasArtifacts(i)
    BY <1>1, SameSetting
  <2> QED BY <1>7, <1>10, <1>11, <2>1 DEF CtxInv
<1> QED BY <1>1, <1>4, <1>6, <1>8, <1>12

-----------------------------------------------------------------------------
(* The first replay. *)

LEMMA GreatestNat ==
    ASSUME NEW bound \in Nat, NEW S \in SUBSET (0..bound), S # {}
    PROVE  \E x \in S : \A y \in S : y <= x
<1> DEFINE T == {bound - x : x \in S}
<1>1. T \subseteq Nat /\ T # {}
  <2>1. ASSUME NEW x \in S PROVE bound - x \in Nat
    <3>1. x \in 0..bound
      OBVIOUS
    <3> QED BY <3>1
  <2> QED BY <2>1
<1>2. PICK t \in T : \A u \in T : t <= u
  <2> HIDE DEF T
  <2> QED BY <1>1, LeastNat
<1>3. PICK x \in S : t = bound - x
  BY <1>2
<1>4. ASSUME NEW y \in S PROVE y <= x
  <2>1. bound - x <= bound - y
    BY <1>2, <1>3
  <2>2. x \in 0..bound /\ y \in 0..bound
    OBVIOUS
  <2> QED BY <2>1, <2>2
<1> QED BY <1>4

LEMMA RestoredForm ==
    ASSUME ContextForm, NEW i \in StepIds, NEW r, RowForm(r)
    PROVE  \A k \in DOMAIN Restored(i, r) : Restored(i, r)[k] \in Value
<1>1. /\ \A k \in DOMAIN r.facts : r.facts[k] \in Value
      /\ r.output \in Value /\ r.artifacts \in Value
  BY DEF RowForm
<1>2. Decoded(r.output) \in Value /\ Decoded(r.artifacts) \in Value /\ Nil \in Value
  BY <1>1, DecodedForm, Values
<1>3. \A k \in DOMAIN DecodedMap(r.facts) : DecodedMap(r.facts)[k] \in Value
  BY <1>1, DecodedForm DEF DecodedMap
<1>4. \A x, v : v \in Value => \A k \in DOMAIN One(x, v) : One(x, v)[k] \in Value
  BY DEF One
<1>5. \/ Restored(i, r) = DecodedMap(r.facts)
      \/ Restored(i, r) = One(Name[i], Decoded(r.artifacts))
      \/ Restored(i, r) = One(Name[i], Nil)
      \/ Restored(i, r) = One(Name[i], Decoded(r.output))
      \/ Restored(i, r) = Nothing
  BY DEF Restored
<1> QED BY <1>2, <1>3, <1>4, <1>5, NothingForm

(* A key of the rebuilt context has the value some completed row gives it,  *)
(* and the stored one only if there is none.                                *)
LEMMA RebuiltForm ==
    ASSUME ContextForm, NEW rs, \A i \in StepIds : RowForm(rs[i]), NEW k
    PROVE  /\ Rebuilt(rs, k) \in Value
           /\ \/ \E i \in StepIds : /\ rs[i].status = "completed"
                                    /\ k \in DOMAIN Restored(i, rs[i])
                                    /\ Rebuilt(rs, k) = Restored(i, rs[i])[k]
              \/ /\ SameValue(Rebuilt(rs, k), Inherited(k))
                 /\ \A i \in StepIds : rs[i].status = "completed" =>
                                        k \notin DOMAIN Restored(i, rs[i])
<1> DEFINE W == {i \in CompletedIn(rs) : k \in DOMAIN Restored(i, rs[i])}
           Last(i) == \A j \in W :
                        rs[j].at < rs[i].at \/ (rs[j].at = rs[i].at /\ j <= i)
           last == CHOOSE i \in W : Last(i)
<1>1. Rebuilt(rs, k) =
        IF W # {} THEN Restored(last, rs[last])[k]
        ELSE IF k \in Initial THEN Decoded(Make(0, "var", 0, num)) ELSE Absent
  BY DEF Rebuilt
<1>2. CASE W # {}
  <2>1. /\ \A i \in W : i \in StepIds /\ i \in 0..NSteps /\ rs[i].at \in 0..MaxAttempts
        /\ NSteps \in Nat /\ MaxAttempts \in Nat
    BY ContextAssumption DEF RowForm, CompletedIn, StepIds
  <2>2. \E i \in W : Last(i)
    <3> HIDE DEF W
    <3> DEFINE A == {rs[i].at : i \in W}
    <3>1. PICK a \in A : \A b \in A : b <= a
      <4>1. A \in SUBSET (0..MaxAttempts) /\ A # {}
        BY <1>2, <2>1
      <4> HIDE DEF A
      <4> QED BY <2>1, <4>1, GreatestNat
    <3> DEFINE S == {i \in W : rs[i].at = a}
    <3>2. PICK i \in S : \A j \in S : j <= i
      <4>1. S \in SUBSET (0..NSteps) /\ S # {}
        BY <2>1, <3>1
      <4> HIDE DEF S
      <4> QED BY <2>1, <4>1, GreatestNat
    <3>3. i \in W /\ rs[i].at = a
      BY <3>2
    <3>4. ASSUME NEW j \in W
          PROVE  rs[j].at < rs[i].at \/ (rs[j].at = rs[i].at /\ j <= i)
      <4>1. rs[j].at <= a /\ a \in 0..MaxAttempts /\ rs[j].at \in 0..MaxAttempts
        BY <2>1, <3>1, <3>3
      <4>2. rs[j].at = a => j <= i
        BY <3>2
      <4> QED BY <3>3, <4>1, <4>2
    <3> QED BY <3>3, <3>4
  <2>3. last \in W
    <3> HIDE DEF W, Last
    <3> QED BY <2>2
  <2>4. /\ last \in StepIds /\ rs[last].status = "completed"
        /\ k \in DOMAIN Restored(last, rs[last])
    BY <2>3 DEF CompletedIn
  <2>5. Rebuilt(rs, k) = Restored(last, rs[last])[k]
    BY <1>1, <1>2
  <2> HIDE DEF last
  <2>6. Restored(last, rs[last])[k] \in Value
    BY <2>4, RestoredForm
  <2> QED BY <2>4, <2>5, <2>6
<1>3. CASE W = {}
  <2>1. Make(0, "var", 0, num) \in Value
    BY Made, ContextAssumption DEF ContextForm
  <2>2. Rebuilt(rs, k) = IF k \in Initial THEN Decoded(Make(0, "var", 0, num)) ELSE Absent
    BY <1>1, <1>3
  <2>3. Inherited(k) = IF k \in Initial THEN Make(0, "var", 0, num) ELSE Absent
    BY DEF Inherited
  <2>4. \A i \in StepIds : rs[i].status = "completed" => k \notin DOMAIN Restored(i, rs[i])
    BY <1>3 DEF CompletedIn
  <2> QED BY <2>1, <2>2, <2>3, <2>4, DecodedForm, SameDecoded, SameItself, Values
<1> QED BY <1>2, <1>3

LEMMA ResumeInv ==
    ASSUME ContextInd, NEW over \in Overrides, NEW r \in 1..(NSteps + 1), Resume(over, r)
    PROVE  ContextInd'
<1> USE DEF ContextInd
<1>1. /\ UNCHANGED <<setting, file, wrote>> /\ status' = "running"
      /\ pc' = 1 /\ passed' = {} /\ given' = over /\ attempt' = attempt + 1
      /\ attempt < MaxAttempts
  BY DEF Resume
<1>2. /\ rows' = [i \in StepIds |-> IF i >= r THEN NoRow ELSE rows[i]]
      /\ ctx' = [k \in CtxKeys |-> IF k \in over THEN Override
                                 ELSE IF ~ top THEN Inherited(k) ELSE Rebuilt(rows', k)]
  BY DEF Resume
<1>3. RowForm(NoRow) /\ NoRow.status # "completed"
  BY Values, NothingForm, ContextAssumption DEF NoRow, RowForm, StepStatus
<1>4. /\ rows' = [i \in StepIds |-> rows'[i]]
      /\ \A i \in StepIds : rows'[i] = NoRow \/ rows'[i] = rows[i]
  BY <1>2
<1>5. \A i \in StepIds : RowForm(rows'[i])
  BY <1>3, <1>4 DEF ContextForm
<1>6. \A i \in StepIds : Completed(i)' => Completed(i) /\ rows'[i] = rows[i]
  BY <1>3, <1>4 DEF Completed
<1>7. \A k \in CtxKeys :
        /\ k \in over => ctx'[k] = Override
        /\ k \notin over => ctx'[k] = IF top THEN Rebuilt(rows', k) ELSE Inherited(k)
  BY <1>2
<1>8. ContextForm'
  <2>1. ctx' \in [CtxKeys -> Value]
    <3>1. \A k \in CtxKeys : ctx'[k] \in Value
      <4>1. \A k \in CtxKeys : Rebuilt(rows', k) \in Value
        BY <1>5, RebuiltForm
      <4>2. \A k \in CtxKeys : Inherited(k) \in Value
        BY InheritedForm
      <4> QED BY <1>7, <4>1, <4>2, Values
    <3> QED BY <1>2, <3>1
  <2>2. \A i \in StepIds : RowForm(rows[i])'
    BY <1>5 DEF RowForm
  <2>3. \A i \in StepIds : IsOf(wrote[i], i)'
    BY <1>1, SameSetting DEF IsOf, ContextForm
  <2>4. /\ pc' \in 1..(NSteps + 1) /\ passed' \subseteq 1..(pc' - 1)
        /\ attempt' \in 1..MaxAttempts /\ given' \in SUBSET Vars
    <3>1. attempt \in 1..MaxAttempts /\ MaxAttempts \in Nat /\ NSteps \in Nat
      BY ContextAssumption DEF ContextForm
    <3>2. over \in SUBSET Vars
      BY ContextAssumption
    <3> QED BY <1>1, <3>1, <3>2
  <2> QED BY <1>1, <1>4, <2>1, <2>2, <2>3, <2>4 DEF ContextForm, setting
<1>9. RowsInv'
  <2> SUFFICES ASSUME NEW i \in StepIds, Completed(i)'
               PROVE  Keeps(i, rows[i], wrote[i])'
    BY DEF RowsInv
  <2> QED BY <1>1, <1>6, KeepsStays DEF RowsInv
<1>10. PassedInv'
  <2>1. \A i \in StepIds : ~ (i < pc')
    BY <1>1 DEF StepIds
  <2> QED BY <1>1, <2>1 DEF PassedInv
<1>11. ASSUME NEW k
       PROVE  Before(k)' = IF k \in over THEN Override ELSE Inherited(k)
  BY <1>1, SameSetting DEF Before
<1>12. ASSUME NEW k \in Good, NEW j \in StepIds, HasArtifacts(j), k = Name[j]
       PROVE  LoadedInv(k, j)'
  <2>1. k \notin over /\ k \in CtxKeys
    BY <1>12, StepForm, ContextAssumption DEF Good
  <2>2. top
    <3> SUFFICES ASSUME ~ top PROVE FALSE
      OBVIOUS
    <3>1. ArtifactsLost(j)
      BY <1>12 DEF HasArtifacts, ArtifactsLost
    <3>2. Name[j] \in Lost
      BY <3>1 DEF Lost
    <3> QED BY <1>12, <3>2 DEF Good
  <2>3. ctx'[k] = Rebuilt(rows', k)
    BY <1>7, <2>1, <2>2
  <2>4. ASSUME NEW i \in StepIds, Completed(i)', k \in DOMAIN Restored(i, rows'[i])
        PROVE  i = j
    <3>1. k \in DOMAIN wrote[i]
      BY <1>6, <2>4, RestorePart
    <3>2. k \in StepKeys(i)
      BY <3>1 DEF ContextForm, IsOf
    <3> QED BY <1>12, <3>2, OnlyOwn
  <2>5. CASE Completed(j)'
    <3>1. Completed(j) /\ rows'[j] = rows[j]
      BY <1>6, <2>5
    <3>2. /\ k \in DOMAIN Restored(j, rows'[j])
          /\ Restored(j, rows'[j])[k] = Decoded(wrote[j][k])
          /\ k \in DOMAIN wrote[j]
      BY <1>12, <3>1, RestorePart
    <3>3. wrote[j][k] \in Value
      BY <3>2 DEF ContextForm, IsOf
    <3>4. k \in DOMAIN Restored(j, rows[j])
      BY <3>1, <3>2
    <3>5. \E i \in StepIds : /\ rows'[i].status = "completed"
                             /\ k \in DOMAIN Restored(i, rows'[i])
                             /\ Rebuilt(rows', k) = Restored(i, rows'[i])[k]
      BY <1>5, <2>5, <3>2, RebuiltForm DEF Completed
    <3>6. Rebuilt(rows', k) = Restored(j, rows'[j])[k]
      BY <2>4, <3>5 DEF Completed
    <3>7. SameValue(ctx'[k], wrote'[j][k])
      BY <1>1, <2>3, <3>2, <3>3, <3>6, SameDecoded
    <3> QED BY <2>5, <3>7 DEF LoadedInv
  <2>6. CASE ~ Completed(j)'
    <3>1. ~ \E i \in StepIds : /\ rows'[i].status = "completed"
                               /\ k \in DOMAIN Restored(i, rows'[i])
                               /\ Rebuilt(rows', k) = Restored(i, rows'[i])[k]
      BY <2>4, <2>6 DEF Completed
    <3>2. SameValue(Rebuilt(rows', k), Inherited(k))
      BY <1>5, <3>1, RebuiltForm
    <3> QED BY <1>11, <2>1, <2>3, <2>6, <3>2 DEF LoadedInv
  <2> QED BY <2>5, <2>6
<1>13. ASSUME NEW k \in Good
       PROVE  ReplayedInv(k)'
  <2>0. k \in CtxKeys
    BY DEF Good
  <2>1. Writers(k)' = {}
    BY <1>1 DEF Writers
  <2>2. ASSUME \A i \in StepIds : (Completed(i)' /\ i >= pc') => k \notin DOMAIN wrote'[i]
        PROVE  SameValue(ctx'[k], Before(k)')
    <3>1. ASSUME NEW i \in StepIds, Completed(i)' PROVE k \notin DOMAIN Restored(i, rows'[i])
      <4>1. k \notin DOMAIN wrote[i]
        <5>1. i >= pc'
          BY <1>1 DEF StepIds
        <5> QED BY <1>1, <2>2, <3>1, <5>1
      <4> QED BY <1>6, <3>1, <4>1, RestorePart
    <3>2. SameValue(Rebuilt(rows', k), Inherited(k))
      BY <1>5, <3>1, RebuiltForm DEF Completed
    <3>3. ctx'[k] = Before(k)' \/ (ctx'[k] = Rebuilt(rows', k) /\ Before(k)' = Inherited(k))
      BY <1>7, <1>11, <2>0
    <3> QED BY <3>2, <3>3, SameItself
  <2> QED BY <2>1, <2>2 DEF ReplayedInv
<1>14. CtxInv'
  <2>1. Good' = Good /\ \A i : HasArtifacts(i)' = HasArtifacts(i)
    BY <1>1, SameSetting
  <2> QED BY <1>12, <1>13, <2>1 DEF CtxInv
<1> QED BY <1>8, <1>9, <1>10, <1>14

LEMMA ContextStepInv == ContextInd /\ [ContextNext]_contextVars => ContextInd'
<1> SUFFICES ASSUME ContextInd, [ContextNext]_contextVars PROVE ContextInd'
  OBVIOUS
<1>1. CASE Skip
  BY <1>1, SkipInv
<1>2. CASE SkipWhenFalse
  BY <1>2, SkipWhenFalseInv
<1>3. CASE SetFact \/ Gate \/ LoadArtifact \/ Exec
  <2>1. PICK m, r : Ran(m, r) \/ Stopped(m, r)
    BY <1>3, StepKinds DEF ContextInd
  <2> QED BY <2>1, RanInv, StoppedInv
<1>4. CASE Finish \/ FileChanges
  BY <1>4, FinishInv
<1>5. CASE \E over \in Overrides, r \in 1..(NSteps + 1) : Resume(over, r)
  BY <1>5, ResumeInv
<1>6. CASE UNCHANGED contextVars
  <2>1. ContextForm' /\ RowsInv'
    <3>1. \A i : IsOf(wrote[i], i)' <=> IsOf(wrote[i], i)
      BY <1>6 DEF contextVars, IsOf, StepKeys
    <3>2. \A i : Keeps(i, rows[i], wrote[i])' <=> Keeps(i, rows[i], wrote[i])
      BY <1>6 DEF contextVars, Keeps
    <3>3. \A i : RowForm(rows[i])' <=> RowForm(rows[i])
      BY <1>6 DEF contextVars
    <3> QED BY <1>6, <3>1, <3>2, <3>3 DEF contextVars, ContextInd, ContextForm, RowsInv, Completed
  <2>2. UNCHANGED setting
    BY <1>6 DEF contextVars, setting
  <2>3. \A k, j : LoadedInv(k, j)' <=> LoadedInv(k, j)
    BY <1>6, <2>2, SameSetting DEF contextVars, LoadedInv, Completed, Before
  <2>4. \A k : ReplayedInv(k)' <=> ReplayedInv(k)
    BY <1>6, <2>2, SameSetting DEF contextVars, ReplayedInv, Writers, Completed, Before
  <2>5. CtxInv' <=> CtxInv
    BY <2>2, <2>3, <2>4, SameSetting DEF CtxInv
  <2>6. PassedInv' <=> PassedInv
    BY <1>6 DEF contextVars, PassedInv, Completed
  <2> QED BY <1>6, <2>1, <2>5, <2>6 DEF contextVars, ContextInd
<1> QED BY <1>1, <1>2, <1>3, <1>4, <1>5, <1>6 DEF ContextNext

LEMMA ContextInvariance == ContextSpec => []ContextInd
BY ContextInitInv, ContextStepInv, PTL DEF ContextSpec

(* What the context holds when nothing is interrupted, by the steps that    *)
(* set the key.                                                             *)
LEMMA LivedForm ==
    ASSUME ContextForm, NEW k
    PROVE  \/ Writers(k) = {} /\ Lived(k) = Before(k)
           \/ \E i \in Writers(k) : (\A j \in Writers(k) : j <= i) /\ Lived(k) = wrote[i][k]
<1> DEFINE Top(i) == \A j \in Writers(k) : j <= i
           last == CHOOSE i \in Writers(k) : Top(i)
<1>1. Lived(k) = IF Writers(k) # {} THEN wrote[last][k] ELSE Before(k)
  BY DEF Lived, Before, Writers
<1>2. CASE Writers(k) # {}
  <2>1. Writers(k) \subseteq 0..NSteps /\ NSteps \in Nat
    <3>1. passed \subseteq 1..(pc - 1) /\ pc \in 1..(NSteps + 1) /\ NSteps \in Nat
      BY ContextAssumption DEF ContextForm
    <3>2. passed \subseteq 0..NSteps
      BY <3>1
    <3> QED BY <3>1, <3>2 DEF Writers
  <2>2. \E i \in Writers(k) : Top(i)
    BY <1>2, <2>1, GreatestNat
  <2>3. last \in Writers(k) /\ Top(last)
    <3> HIDE DEF Top
    <3> QED BY <2>2
  <2>4. Lived(k) = wrote[last][k]
    BY <1>1, <1>2
  <2> HIDE DEF last
  <2> QED BY <2>3, <2>4
<1> QED BY <1>1, <1>2

LEMMA InvIsAsLived == ContextInd => ContextInv
<1> SUFFICES ASSUME ContextInd PROVE ContextInv
  OBVIOUS
<1> USE DEF ContextInd
<1>1. ContextTypeOK
  BY DEF ContextForm, RowForm, StepStatus, ContextTypeOK
<1>2. ContextAsLived
  <2> SUFFICES ASSUME status = "running", \A i \in CompletedIn(rows) : i < pc,
                      NEW k \in Good
               PROVE  SameValue(ctx[k], Lived(k))
    BY DEF ContextAsLived, Good
  <2>1. PassedInv /\ CtxInv
    OBVIOUS
  <2>2. \A i \in StepIds : Completed(i) => i < pc /\ i \in passed
    BY <2>1 DEF PassedInv, CompletedIn, Completed
  <2>3. ASSUME NEW j \in StepIds, HasArtifacts(j), k = Name[j]
        PROVE  SameValue(ctx[k], Lived(k))
    <3>1. LoadedInv(k, j)
      BY <2>1, <2>3 DEF CtxInv
    <3>2. ASSUME NEW i \in Writers(k) PROVE i = j
      <4>1. i \in StepIds
        <5>1. i \in 1..(pc - 1) /\ pc \in 1..(NSteps + 1) /\ NSteps \in Nat
          BY <3>2, ContextAssumption DEF Writers, ContextForm
        <5> QED BY <5>1 DEF StepIds
      <4>2. k \in StepKeys(i)
        BY <3>2, <4>1 DEF Writers, ContextForm, IsOf
      <4> QED BY <2>3, <4>1, <4>2, OnlyOwn
    <3>3. CASE Completed(j)
      <4>1. j \in passed /\ k \in DOMAIN wrote[j]
        BY <2>2, <2>3, <3>3 DEF RowsInv, Keeps, HasArtifacts
      <4>2. j \in Writers(k)
        BY <4>1 DEF Writers
      <4>3. Lived(k) = wrote[j][k]
        BY <3>2, <4>2, LivedForm
      <4> QED BY <3>1, <3>3, <4>3 DEF LoadedInv
    <3>4. CASE ~ Completed(j)
      <4>1. j \notin passed
        BY <2>1, <2>3, <3>4 DEF PassedInv, HasArtifacts
      <4>2. Writers(k) = {}
        BY <3>2, <4>1 DEF Writers
      <4>3. Lived(k) = Before(k)
        BY <4>2, LivedForm
      <4> QED BY <3>1, <3>4, <4>3 DEF LoadedInv
    <3> QED BY <3>3, <3>4
  <2>4. ASSUME \A j \in StepIds : HasArtifacts(j) => k # Name[j]
        PROVE  SameValue(ctx[k], Lived(k))
    <3>1. ReplayedInv(k)
      BY <2>1, <2>4 DEF CtxInv
    <3>2. CASE Writers(k) = {} /\ Lived(k) = Before(k)
      <4>1. \A i \in StepIds : ~ (Completed(i) /\ i >= pc)
        <5>1. \A i \in StepIds : i \in Int /\ pc \in Int
          BY ContextAssumption DEF StepIds, ContextForm
        <5> QED BY <2>2, <5>1
      <4> QED BY <3>1, <3>2, <4>1 DEF ReplayedInv
    <3>3. CASE \E i \in Writers(k) :
                  (\A j \in Writers(k) : j <= i) /\ Lived(k) = wrote[i][k]
      BY <3>1, <3>3 DEF ReplayedInv
    <3> QED BY <3>2, <3>3, LivedForm
  <2> QED BY <2>3, <2>4
<1> QED BY <1>1, <1>2 DEF ContextInv

(* The context of a run, rebuilt by ResumeWithVars and executeStepCore, is  *)
(* well formed, and however often the run was stopped, rewound and resumed, *)
(* with whatever overrides, a step that runs for the first time sees under  *)
(* every key that is neither lost nor spurious the value it would have seen *)
(* in a run that was never stopped, up to the type of its numbers.          *)
THEOREM ContextIsAsLived == ContextSpec => []ContextInv
BY ContextInvariance, InvIsAsLived, PTL

=============================================================================

------------------------- MODULE RunLifecycleProofs -------------------------
(***************************************************************************)
(* Proofs about RunLifecycle, for workflows and bounds of any size.        *)
(***************************************************************************)
EXTENDS RunLifecycle, FiniteSetTheorems, TLAPS

USE LifecycleAssumption

\* The current step is a step of the workflow as long as the section has one
LEMMA CurIsStep ==
  ASSUME sec \in Section, idx \in 1..(Length[sec] + 1), idx <= Length[sec]
  PROVE  Cur \in StepId
BY DEF Section, Length, Cur, StepId, Main, Handlers, Rescue, Always

\* A workflow has finitely many steps
LEMMA StepIdFinite == IsFiniteSet(StepId)
<1>1. \A n \in Nat : IsFiniteSet(1..n)
  BY FS_Interval
<1>2. IsFiniteSet({"steps"}) /\ IsFiniteSet({"rescue"}) /\ IsFiniteSet({"always"})
  BY FS_Singleton
<1>3. IsFiniteSet(Main) /\ IsFiniteSet(Rescue) /\ IsFiniteSet(Always)
  BY <1>1, <1>2, FS_Product DEF Main, Rescue, Always
<1>4. IsFiniteSet(Handlers)
  BY <1>3, FS_Union DEF Handlers
<1> QED BY <1>3, <1>4, FS_Union DEF StepId

\* What a step row becomes, whether or not the write succeeds
LEMMA SaveKeepsType ==
  ASSUME TypeOK, Cur \in StepId,
         NEW status \in StepStatus, NEW output \in Value,
         TrySave(status, output)
  PROVE  /\ rows' \in [StepId -> Row]
         /\ writeFaults' \in 0..MaxWriteFaults
<1>1. rows \in [StepId -> Row] /\ src \in [StepId -> 0..MaxEdits]
      /\ attempts \in 0..MaxAttempts /\ writeFaults \in 0..MaxWriteFaults
  BY DEF TypeOK
<1>2. CASE /\ rows' = SaveStep(rows, Cur, status, attempts, src[Cur], output)
           /\ UNCHANGED writeFaults
  <2>1. [status |-> status, at |-> attempts, hash |-> src[Cur], output |-> output] \in Row
    BY <1>1 DEF Row
  <2> QED BY <1>1, <1>2, <2>1 DEF SaveStep
<1>3. CASE WriteFault /\ UNCHANGED rows
  BY <1>1, <1>3 DEF WriteFault
<1> QED BY <1>2, <1>3 DEF TrySave

\* What the run row becomes, whether or not the write succeeds
LEMMA UpdateKeepsType ==
  ASSUME TypeOK, NEW status \in RunStatus, TryUpdate(status)
  PROVE  run' \in Run /\ writeFaults' \in 0..MaxWriteFaults
<1>1. run \in Run /\ writeFaults \in 0..MaxWriteFaults
  BY DEF TypeOK
<1> QED BY <1>1 DEF TryUpdate, UpdateRun, WriteFault, Run

\* Leaving a step moves to the next place of the section
LEMMA LeaveKeepsType ==
  ASSUME TypeOK, idx <= Length[sec],
         NEW err \in {"none", "fail", "pause"}, Leave(err)
  PROVE  /\ pc' \in {"down", "rewind", "step", "enter", "exec", "update"}
         /\ sec' \in Section /\ idx' \in 1..(Length[sec'] + 1)
         /\ mainErr' \in {"none", "fail", "pause"} /\ hErr' \in BOOLEAN
<1>1. sec \in Section /\ idx \in 1..(Length[sec] + 1) /\ Length[sec] \in Nat
      /\ mainErr \in {"none", "fail", "pause"}
  BY DEF TypeOK, Section, Length
<1>2. idx + 1 \in 1..(Length[sec] + 1)
  BY <1>1
<1>3. hErr' \in BOOLEAN
  BY Zenon DEF Leave
<1> QED BY <1>1, <1>2, <1>3 DEF Leave

\* Type correctness is kept by every step
LEMMA TypeStep ==
  ASSUME TypeOK, PlaceInv, [Next]_vars
  PROVE  TypeOK'
<1> USE DEF store, place, errs, request, source, faults
<1>0. /\ run \in Run
      /\ rows \in [StepId -> Row]
      /\ sec \in Section /\ idx \in 1..(Length[sec] + 1)
      /\ Length[sec] \in Nat
  BY DEF TypeOK, Section, Length
<1>1. ASSUME NEW var, NEW target, Begin(var, target), var \in {"none", "no", "yes"},
             target \in 0..Changed
      PROVE  /\ attempts' \in 0..MaxAttempts
             /\ given' \in {"none", "no", "yes"} /\ goal' \in 0..Changed
             /\ sec' \in Section /\ idx' \in 1..(Length[sec'] + 1)
             /\ mainErr' \in {"none", "fail", "pause"} /\ hErr' \in BOOLEAN
             /\ ran' \subseteq Handlers
  <2>1. attempts \in 0..MaxAttempts /\ Length["steps"] \in Nat
    BY DEF TypeOK, Section, Length
  <2>2. attempts' \in 0..MaxAttempts
    BY <1>1, <2>1 DEF Begin
  <2>3. idx' \in 1..(Length[sec'] + 1)
    BY <1>1, <2>1 DEF Begin
  <2> QED BY <1>1, <2>2, <2>3 DEF Begin, Section
<1>2. CASE RunStart
  <2>1. run' \in Run
    BY <1>0, <1>2 DEF RunStart, CreateRun, Run, RunStatus, Value, TypeOK
  <2>2. Begin("none", 0) /\ 0 \in 0..Changed
    BY <1>2 DEF RunStart, Changed
  <2>3. /\ attempts' \in 0..MaxAttempts
        /\ given' \in {"none", "no", "yes"} /\ goal' \in 0..Changed
        /\ sec' \in Section /\ idx' \in 1..(Length[sec'] + 1)
        /\ mainErr' \in {"none", "fail", "pause"} /\ hErr' \in BOOLEAN
        /\ ran' \subseteq Handlers
    BY <1>1, <2>2
  <2>4. ctx' \in Value /\ pc' = "step"
    BY <1>2 DEF RunStart, Value
  <2> QED BY <1>2, <2>1, <2>3, <2>4 DEF RunStart, TypeOK
<1>3. ASSUME NEW var \in Overrides, NEW mode \in Modes, NEW target \in Targets,
             ResumeAccept(var, mode, target)
      PROVE  TypeOK'
  <2>1. todo' \subseteq 1..NSteps
    BY <1>3 DEF ResumeAccept, RewindFrom
  <2> QED BY <1>1, <1>3, <2>1 DEF ResumeAccept, TypeOK
<1>4. CASE DeleteOne
  <2>0. NoStep \in Row
    BY DEF NoStep, Row, Value
  <2>1. rows' \in [StepId -> Row]
    BY <1>0, <1>4, <2>0 DEF DeleteOne, DeleteStep
  <2>2. writeFaults' \in 0..MaxWriteFaults
    BY <1>4 DEF DeleteOne, WriteFault, TypeOK
  <2>3. owed' \subseteq 1..NSteps
    BY <1>4 DEF DeleteOne, CutShort, TypeOK
  <2> QED BY <1>4, <2>1, <2>2, <2>3 DEF DeleteOne, TypeOK
<1>5. CASE Restore
  <2>1. run' \in Run /\ writeFaults' \in 0..MaxWriteFaults
    BY <1>5, UpdateKeepsType DEF Restore, RunStatus
  <2>2. ctx' \in Value
    BY <1>5 DEF Restore, TypeOK, Value
  <2>3. CompletedSteps \in SUBSET StepId
    BY DEF CompletedSteps
  <2>4. Cardinality(CompletedSteps) \in Nat
    BY <2>3, StepIdFinite, FS_Subset, FS_CardinalityType
  <2>5. remaining' \in Int
    BY <1>5, <2>4 DEF Restore
  <2> QED BY <1>5, <2>1, <2>2, <2>5 DEF Restore, TypeOK
<1>6. CASE SectionEnd
  <2>1. sec' \in Section /\ idx' \in 1..(Length[sec'] + 1)
    <3>1. \A s \in Section : Length[s] \in Nat
      BY DEF Section, Length
    <3> QED BY <1>0, <1>6, <3>1 DEF SectionEnd, SectionEndAs, AfterSection, Section
  <2> QED BY <1>6, <2>1 DEF SectionEnd, SectionEndAs, AfterSection, TypeOK
<1>7. CASE SkipCompleted
  <2>1. Cur \in StepId /\ idx <= Length[sec]
    BY <1>0, <1>7, CurIsStep DEF SkipCompleted, AtStep
  <2>2. rows[Cur].output \in Value
    BY <1>0, <2>1 DEF Row
  <2>3. ctx' \in Value
    BY <1>7, <2>2 DEF SkipCompleted, TypeOK
  <2> QED BY <1>7, <2>1, <2>3, LeaveKeepsType DEF SkipCompleted, TypeOK
<1>8. CASE Enter
  <2>1. Cur \in StepId
    BY <1>0, <1>8, CurIsStep DEF Enter, AtStep
  <2>2. ran' \subseteq Handlers
    <3>1. sec # "steps" => Cur \in Handlers
      BY <2>1 DEF Cur, StepId, Main
    <3> QED BY <1>8, <3>1 DEF Enter, TypeOK
  <2>3. readFaults' \in 0..MaxReadFaults
    BY <1>8 DEF Enter, TypeOK
  <2> QED BY <1>8, <2>2, <2>3 DEF Enter, TypeOK
<1>9. ASSUME pc \in {"enter", "exec"}
      PROVE  Cur \in StepId /\ idx <= Length[sec]
  BY <1>0, <1>9, CurIsStep DEF PlaceInv
<1>10. CASE WhenFalse
  <2>1. rows' \in [StepId -> Row] /\ writeFaults' \in 0..MaxWriteFaults
    BY <1>9, <1>10, SaveKeepsType DEF WhenFalse, StepStatus, Value
  <2> QED BY <1>9, <1>10, <2>1, LeaveKeepsType DEF WhenFalse, TypeOK
<1>11. CASE EvaluationFails
  <2>1. rows' \in [StepId -> Row] /\ writeFaults' \in 0..MaxWriteFaults
    BY <1>9, <1>11, SaveKeepsType DEF EvaluationFails, StepStatus, Value
  <2> QED BY <1>9, <1>11, <2>1, LeaveKeepsType DEF EvaluationFails, TypeOK
<1>12. CASE SetFact
  <2>1. PICK v \in FactValues : ctx' = v /\ TrySave("completed", v)
    BY <1>12 DEF SetFact
  <2>2. v \in Value
    BY DEF Value
  <2>3. rows' \in [StepId -> Row] /\ writeFaults' \in 0..MaxWriteFaults
    BY <1>9, <1>12, <2>1, <2>2, SaveKeepsType DEF SetFact, StepStatus
  <2> QED BY <1>9, <1>12, <2>1, <2>2, <2>3, LeaveKeepsType DEF SetFact, TypeOK
<1>13. CASE Assert
  <2>1. rows' \in [StepId -> Row] /\ writeFaults' \in 0..MaxWriteFaults
    BY <1>9, <1>13, SaveKeepsType DEF Assert, StepStatus, Value
  <2> QED BY <1>9, <1>13, <2>1, LeaveKeepsType DEF Assert, TypeOK
<1>14. CASE Gate
  <2>0. ctx \in Value
    BY DEF TypeOK
  <2>1. rows' \in [StepId -> Row] /\ writeFaults' \in 0..MaxWriteFaults
    BY <1>9, <1>14, <2>0, SaveKeepsType DEF Gate, StepStatus
  <2> QED BY <1>9, <1>14, <2>1, LeaveKeepsType DEF Gate, TypeOK
<1>15. CASE ExecBegin
  <2>1. rows' \in [StepId -> Row] /\ writeFaults' \in 0..MaxWriteFaults
    BY <1>9, <1>15, SaveKeepsType DEF ExecBegin, StepStatus, Value
  <2> QED BY <1>15, <2>1 DEF ExecBegin, TypeOK
<1>16. CASE ExecSucceeds
  <2>1. TrySave("completed", "unset") /\ \E err \in {"none", "fail"} : Leave(err)
    BY <1>16 DEF ExecSucceeds, TrySave
  <2>2. rows' \in [StepId -> Row] /\ writeFaults' \in 0..MaxWriteFaults
    BY <1>9, <1>16, <2>1, SaveKeepsType DEF ExecSucceeds, StepStatus, Value
  <2> QED BY <1>9, <1>16, <2>1, <2>2, LeaveKeepsType DEF ExecSucceeds, TypeOK
<1>17. CASE ExecFails
  <2>1. rows' \in [StepId -> Row] /\ writeFaults' \in 0..MaxWriteFaults
    BY <1>9, <1>17, SaveKeepsType DEF ExecFails, StepStatus, Value
  <2> QED BY <1>9, <1>17, <2>1, LeaveKeepsType DEF ExecFails, TypeOK
<1>18. CASE Finish
  <2>1. run' \in Run /\ writeFaults' \in 0..MaxWriteFaults
    BY <1>18, UpdateKeepsType DEF Finish, Outcome, RunStatus
  <2> QED BY <1>18, <2>1 DEF Finish, TypeOK
<1>19. CASE Crash
  <2>1. owed' \subseteq 1..NSteps
    BY <1>19 DEF Crash, CutShort, TypeOK
  <2> QED BY <1>19, <2>1 DEF Crash, TypeOK
<1>20. CASE Edit
  <2>1. edits' \in 0..MaxEdits /\ edits + 1 \in 0..MaxEdits
    BY <1>20 DEF Edit, TypeOK
  <2>2. src' \in [StepId -> 0..MaxEdits]
    BY <1>20, <2>1 DEF Edit, TypeOK
  <2> QED BY <1>20, <2>1, <2>2 DEF Edit, TypeOK
<1>21. CASE UNCHANGED vars
  BY <1>21 DEF vars, TypeOK
<1> QED BY <1>2, <1>3, <1>4, <1>5, <1>6, <1>7, <1>8, <1>10, <1>11, <1>12, <1>13,
           <1>14, <1>15, <1>16, <1>17, <1>18, <1>19, <1>20, <1>21
        DEF Next, Engine, StepAction, Operator

\* The actions that end the current step, and what they have in common
LEMMA ReturningActions ==
  ASSUME \/ SkipCompleted \/ WhenFalse \/ EvaluationFails \/ SetFact \/ Assert
         \/ Gate \/ ExecSucceeds \/ ExecFails
  PROVE  /\ \E err \in {"none", "fail", "pause"} : Leave(err)
         /\ UNCHANGED <<run, attempts, given, goal, todo, ran>>
BY DEF SkipCompleted, WhenFalse, EvaluationFails, SetFact, Assert, Gate,
       ExecSucceeds, ExecFails, store, request

\* The process moves through the sections in order
LEMMA PlaceStep ==
  ASSUME TypeOK, PlaceInv, [Next]_vars
  PROVE  PlaceInv'
<1> USE DEF store, place, errs, request, source, faults
<1>0. /\ sec \in Section /\ idx \in 1..(Length[sec] + 1)
      /\ \A s \in Section : Length[s] \in Nat
  BY DEF TypeOK, Section, Length
<1>1. CASE RunStart
  BY <1>1 DEF RunStart, Begin, PlaceInv
<1>2. ASSUME NEW var \in Overrides, NEW mode \in Modes, NEW target \in Targets,
             ResumeAccept(var, mode, target)
      PROVE  PlaceInv'
  BY <1>2 DEF ResumeAccept, Begin, PlaceInv
<1>3. CASE DeleteOne
  BY <1>3 DEF DeleteOne, PlaceInv
<1>4. CASE Restore
  BY <1>4 DEF Restore, PlaceInv
<1>5. CASE SectionEnd
  <2>1. /\ pc = "step"
        /\ idx > Length[sec] \/ (sec = "steps" /\ mainErr # "none")
        /\ UNCHANGED <<mainErr, hErr, ran>>
    BY <1>5 DEF SectionEnd, SectionEndAs, AfterSection
  <2>2. CASE sec = "always" \/ mainErr = "pause"
    <3>1. pc' = "update" /\ sec' = sec /\ idx' = idx
      BY <1>5, <2>2 DEF SectionEnd, SectionEndAs, AfterSection
    <3>2. sec = "always" => idx = Length[sec] + 1
      BY <1>0, <2>1
    <3>a. sec \in {"steps", "rescue", "always"}
      BY <1>0 DEF Section
    <3>b. (sec = "rescue" => mainErr = "fail") /\ (sec = "always" => mainErr # "pause")
      BY <2>1 DEF PlaceInv
    <3>3. (sec = "always" /\ mainErr # "pause") \/ (sec = "steps" /\ mainErr = "pause")
      BY <2>2, <3>a, <3>b
    <3> QED BY <2>1, <3>1, <3>2, <3>3 DEF PlaceInv
  <2>3. CASE ~(sec = "always" \/ mainErr = "pause")
    <3>1. /\ sec' = IF sec = "steps" /\ mainErr = "fail" THEN "rescue" ELSE "always"
          /\ idx' = 1 /\ pc' = "step"
      BY <1>5, <2>1, <2>3 DEF SectionEnd, SectionEndAs, AfterSection
    <3> QED BY <1>0, <2>1, <2>3, <3>1 DEF PlaceInv, Section
  <2> QED BY <2>2, <2>3
<1>6. CASE Enter
  BY <1>6 DEF Enter, AtStep, PlaceInv
<1>7. CASE ExecBegin
  BY <1>7 DEF ExecBegin, PlaceInv
<1>8. CASE \/ SkipCompleted \/ WhenFalse \/ EvaluationFails \/ SetFact \/ Assert
           \/ Gate \/ ExecSucceeds \/ ExecFails
  <2>1. PICK err \in {"none", "fail", "pause"} : Leave(err)
    BY <1>8, ReturningActions
  <2>2. pc \in {"step", "enter", "exec"} /\ (sec = "steps" => mainErr = "none")
        /\ (pc = "step" => sec = "steps")
    BY <1>8 DEF SkipCompleted, WhenFalse, EvaluationFails, SetFact, Assert, Gate,
                ExecSucceeds, ExecFails, AtStep, PlaceInv
  <2>3. pc' = "step" /\ sec' = sec
        /\ mainErr' = (IF sec = "steps" THEN err ELSE mainErr)
    BY <2>1 DEF Leave
  <2>4. sec = "steps" => ~hErr'
    BY <2>1, <2>2, Zenon DEF Leave, PlaceInv
  <2> QED BY <2>2, <2>3, <2>4 DEF PlaceInv
<1>9. CASE Finish
  BY <1>9 DEF Finish, PlaceInv
<1>10. CASE Crash
  BY <1>10 DEF Crash, PlaceInv
<1>11. CASE Edit
  BY <1>11 DEF Edit, PlaceInv
<1>12. CASE UNCHANGED vars
  BY <1>12 DEF vars, PlaceInv
<1> QED BY <1>1, <1>2, <1>3, <1>4, <1>5, <1>6, <1>7, <1>8, <1>9, <1>10, <1>11, <1>12
        DEF Next, Engine, StepAction, Operator

\* The handlers started are exactly those the process has passed
LEMMA TeardownStep ==
  ASSUME TypeOK, PlaceInv, TeardownInv, [Next]_vars
  PROVE  TeardownInv'
<1> USE DEF store, place, errs, request, source, faults
<1>0. /\ sec \in {"steps", "rescue", "always"} /\ idx \in 1..(Length[sec] + 1)
      /\ Length["rescue"] = NRescue /\ Length["always"] = NAlways
      /\ Length[sec] \in Nat
  BY DEF TypeOK, Section, Length
<1>1. CASE RunStart
  BY <1>1 DEF RunStart, Begin, TeardownInv
<1>2. ASSUME NEW var \in Overrides, NEW mode \in Modes, NEW target \in Targets,
             ResumeAccept(var, mode, target)
      PROVE  TeardownInv'
  BY <1>2 DEF ResumeAccept, TeardownInv
<1>3. CASE DeleteOne
  BY <1>3 DEF DeleteOne, TeardownInv
<1>4. CASE Restore
  BY <1>4 DEF Restore, PlaceInv, TeardownInv
<1>5. CASE SectionEnd
  <2>1. /\ pc = "step"
        /\ idx > Length[sec] \/ (sec = "steps" /\ mainErr # "none")
        /\ UNCHANGED <<mainErr, hErr, ran>>
    BY <1>5 DEF SectionEnd, SectionEndAs, AfterSection
  <2>2. CASE sec = "always" \/ mainErr = "pause"
    BY <1>5, <2>1, <2>2 DEF SectionEnd, SectionEndAs, AfterSection, TeardownInv, Before
  <2>3. CASE ~(sec = "always" \/ mainErr = "pause")
    <3>1. /\ sec' = IF sec = "steps" /\ mainErr = "fail" THEN "rescue" ELSE "always"
          /\ idx' = 1 /\ pc' = "step"
      BY <1>5, <2>1, <2>3 DEF SectionEnd, SectionEndAs, AfterSection
    <3>2. Before("rescue")' = {} /\ Before("always")' = {}
      BY <3>1 DEF Before
    <3>3. CASE sec = "steps"
      <4>1. ran' = {}
        BY <2>1, <3>3 DEF TeardownInv
      <4>2. mainErr \in {"none", "fail"}
        BY <2>3 DEF TypeOK
      <4> QED BY <2>1, <3>1, <3>2, <3>3, <4>1, <4>2 DEF TeardownInv
    <3>4. CASE sec = "rescue"
      <4>1. mainErr = "fail"
        BY <2>1, <3>4 DEF PlaceInv
      <4>2. idx - 1 = NRescue
        BY <1>0, <2>1, <3>4
      <4>3. ran' = Rescue
        BY <2>1, <3>4, <4>2 DEF TeardownInv, Before, Rescue
      <4> QED BY <2>1, <3>1, <3>2, <3>4, <4>1, <4>3 DEF TeardownInv
    <3> QED BY <1>0, <2>3, <3>3, <3>4
  <2> QED BY <2>2, <2>3
<1>6. CASE Enter
  <2>1. /\ pc = "step" /\ pc' = "enter" /\ UNCHANGED <<sec, idx, mainErr>>
        /\ ran' = IF sec = "steps" THEN ran ELSE ran \cup {Cur}
    BY <1>6 DEF Enter, AtStep
  <2>2. CASE sec = "steps"
    BY <2>1, <2>2 DEF TeardownInv
  <2>3. ASSUME NEW section, sec = section
        PROVE  Before(section)' = Before(section) \cup {Cur}
    <3>1. Before(section) = {section} \X (1..(idx - 1))
      BY <2>1 DEF Before
    <3>2. Before(section)' = {section} \X (1..idx)
      BY <2>1 DEF Before
    <3>3. 1..idx = (1..(idx - 1)) \cup {idx}
      BY <1>0
    <3> QED BY <2>3, <3>1, <3>2, <3>3 DEF Cur
  <2>4. CASE sec = "rescue"
    BY <2>1, <2>3, <2>4 DEF TeardownInv
  <2>5. CASE sec = "always"
    BY <2>1, <2>3, <2>5 DEF TeardownInv
  <2> QED BY <1>0, <2>2, <2>4, <2>5
<1>7. CASE ExecBegin
  BY <1>7 DEF ExecBegin, TeardownInv, Before
<1>8. CASE \/ SkipCompleted \/ WhenFalse \/ EvaluationFails \/ SetFact \/ Assert
           \/ Gate \/ ExecSucceeds \/ ExecFails
  <2>1. PICK err \in {"none", "fail", "pause"} : Leave(err)
    BY <1>8, ReturningActions
  <2>2. pc \in {"step", "enter", "exec"} /\ (pc = "step" => sec = "steps") /\ ran' = ran
    BY <1>8, ReturningActions DEF SkipCompleted, WhenFalse, EvaluationFails, SetFact,
       Assert, Gate, ExecSucceeds, ExecFails, AtStep
  <2>3. pc' = "step" /\ sec' = sec /\ idx' - 1 = idx /\ (sec # "steps" => mainErr' = mainErr)
    BY <1>0, <2>1 DEF Leave
  <2>4. ASSUME NEW section, pc # "step"
        PROVE  Before(section)' = Before(section)
    BY <2>2, <2>3, <2>4 DEF Before
  <2> QED BY <2>2, <2>3, <2>4 DEF TeardownInv
<1>9. CASE Finish
  BY <1>9 DEF Finish, TeardownInv
<1>10. CASE Crash
  BY <1>10 DEF Crash, TeardownInv
<1>11. CASE Edit
  BY <1>11 DEF Edit, TeardownInv
<1>12. CASE UNCHANGED vars
  BY <1>12 DEF vars, TeardownInv, Before
<1> QED BY <1>1, <1>2, <1>3, <1>4, <1>5, <1>6, <1>7, <1>8, <1>9, <1>10, <1>11, <1>12
        DEF Next, Engine, StepAction, Operator

(***************************************************************************)
(* What holds whatever fails.                                              *)
(***************************************************************************)
\* Every reachable state is well typed, and the process is where its handlers say
THEOREM BaseInvariance == Spec => []BaseInv
<1>1. Init => BaseInv
  <2> SUFFICES ASSUME Init PROVE BaseInv
    OBVIOUS
  <2>1. NoRun \in Run
    BY DEF NoRun, Run, Value
  <2>2. NoStep \in Row
    BY DEF NoStep, Row, Value
  <2>3. Length["steps"] \in Nat
    BY DEF Length, Section
  <2>a. rows \in [StepId -> Row] /\ src \in [StepId -> 0..MaxEdits]
    BY <2>2 DEF Init
  <2>b. idx \in 1..(Length[sec] + 1) /\ goal \in 0..Changed
    BY <2>3 DEF Init, Changed
  <2>c. /\ edits \in 0..MaxEdits /\ attempts \in 0..MaxAttempts
        /\ crashes \in 0..MaxCrashes /\ writeFaults \in 0..MaxWriteFaults
        /\ readFaults \in 0..MaxReadFaults
    BY DEF Init
  <2>d. ctx \in Value /\ sec \in Section /\ remaining \in Int
        /\ todo \subseteq 1..NSteps /\ ran \subseteq Handlers
    BY DEF Init, Value, Section
  <2>4. TypeOK
    BY <2>1, <2>a, <2>b, <2>c, <2>d DEF Init, TypeOK
  <2> QED BY <2>4 DEF Init, BaseInv, PlaceInv, TeardownInv
<1>2. BaseInv /\ [Next]_vars => BaseInv'
  BY TypeStep, PlaceStep, TeardownStep DEF BaseInv
<1> QED BY <1>1, <1>2, PTL DEF Spec

\* executeWorkflow tears down completely: at the end of an attempt every handler of
\* the sections that apply has been started, and none when the run pauses
THEOREM TeardownIsComplete == Spec => []TeardownComplete
<1>1. BaseInv => TeardownComplete
  <2> SUFFICES ASSUME BaseInv, pc = "update"
               PROVE  ran = IF mainErr = "pause" THEN {}
                            ELSE IF mainErr = "fail" THEN Handlers ELSE Always
    BY DEF TeardownComplete
  <2>1. CASE sec = "steps" /\ mainErr = "pause"
    BY <2>1 DEF BaseInv, TeardownInv
  <2>2. CASE sec = "always" /\ mainErr # "pause" /\ idx = Length[sec] + 1
    <3>1. idx - 1 = NAlways
      BY <2>2 DEF Length, Section
    <3>2. Before("always") = Always
      BY <3>1 DEF Before, Always
    <3> QED BY <2>2, <3>2 DEF BaseInv, TeardownInv, Handlers
  <2> QED BY <2>1, <2>2 DEF BaseInv, PlaceInv
<1> QED BY <1>1, BaseInvariance, PTL

\* A write of the current row records the definition that the step has now
LEMMA SaveRecordsDefinition ==
  ASSUME TypeOK, Cur \in StepId, NEW status, NEW output, TrySave(status, output)
  PROVE  \A s \in StepId : rows'[s] = rows[s] \/ rows'[s].hash = src[s]
BY DEF TypeOK, TrySave, SaveStep

\* --rewind-changed leaves no result of an older definition behind, whatever fails:
\* a rewind that is cut short ends the attempt
THEOREM RewindChangedIsFresh == Spec => []RewindChangedFresh
<1> USE DEF store, place, errs, request, source, faults
<1>1. Init => FreshInv
  BY DEF Init, FreshInv
<1>2. BaseInv /\ FreshInv /\ [Next]_vars => FreshInv'
  <2> SUFFICES ASSUME BaseInv, FreshInv, [Next]_vars PROVE FreshInv'
    OBVIOUS
  <2>0. TypeOK /\ PlaceInv /\ rows \in [StepId -> Row]
    BY DEF BaseInv, TypeOK
  <2>1. CASE RunStart
    BY <2>1 DEF RunStart, Begin, FreshInv, Changed
  <2>2. ASSUME NEW var \in Overrides, NEW mode \in Modes, NEW target \in Targets,
               ResumeAccept(var, mode, target)
        PROVE  FreshInv'
    <3>1. /\ pc' = "rewind" /\ goal' = target /\ RewindAllowed(target)
          /\ todo' = {i \in RewindFrom(target) : rows[Step(i)].status # "none"}
          /\ UNCHANGED <<rows, src>>
      BY <2>2 DEF ResumeAccept, Begin
    <3> SUFFICES ASSUME target = Changed, NEW s \in StepId,
                        rows[s].status = "completed", rows[s].hash # src[s]
                 PROVE  s \in Main /\ s[2] \in todo'
      BY <3>1 DEF FreshInv
    <3>2. s \in ChangedSteps
      BY DEF ChangedSteps, CompletedSteps
    <3>3. s \in Main
      BY <3>1, <3>2 DEF RewindAllowed, StepId
    <3>4. PICK k \in 1..NSteps : s = Step(k)
      BY <3>3 DEF Main, Step
    <3>5. k \in RewindFrom(target)
      <4>1. Changed \notin 1..NSteps /\ k \in 1..k
        BY DEF Changed
      <4> QED BY <3>2, <3>4, <4>1 DEF RewindFrom
    <3> QED BY <3>1, <3>3, <3>4, <3>5 DEF Step
  <2>3. CASE DeleteOne
    <3>1. PICK d \in todo :
            \/ rows' = DeleteStep(rows, Step(d)) /\ todo' = todo \ {d} /\ pc' = pc
            \/ pc' = "down"
      BY <2>3 DEF DeleteOne
    <3>2. pc = "rewind" /\ UNCHANGED <<goal, src>>
      BY <2>3 DEF DeleteOne
    <3>3. CASE rows' = DeleteStep(rows, Step(d)) /\ todo' = todo \ {d} /\ pc' = pc
      <4>1. \A s \in StepId : s # Step(d) => rows'[s] = rows[s]
        BY <2>0, <3>3 DEF DeleteStep
      <4>2. Step(d) \in StepId => rows'[Step(d)].status = "none"
        BY <2>0, <3>3 DEF DeleteStep, NoStep
      <4>3. \A s \in Main : s # Step(d) => s[2] # d
        BY DEF Main, Step
      <4> QED BY <3>2, <3>3, <4>1, <4>2, <4>3 DEF FreshInv
    <3> QED BY <3>1, <3>3 DEF FreshInv
  <2>4. CASE Restore
    BY <2>4 DEF Restore, FreshInv
  <2>5. CASE SkipCompleted \/ Enter \/ SectionEnd
    <3>1. UNCHANGED <<rows, src, goal, todo>> /\ pc = "step"
      BY <2>5 DEF SkipCompleted, Enter, SectionEnd, SectionEndAs, AfterSection, AtStep
    <3> QED BY <3>1 DEF FreshInv
  <2>6. CASE \/ WhenFalse \/ EvaluationFails \/ SetFact \/ Assert \/ Gate
             \/ ExecBegin \/ ExecSucceeds \/ ExecFails
    <3>1. pc \in {"enter", "exec"} /\ UNCHANGED <<src, goal, todo>>
      BY <2>6 DEF WhenFalse, EvaluationFails, SetFact, Assert, Gate, ExecBegin,
                  ExecSucceeds, ExecFails
    <3>2. \E status, output : TrySave(status, output)
      BY <2>6 DEF WhenFalse, EvaluationFails, SetFact, Assert, Gate, ExecBegin,
                  ExecSucceeds, ExecFails, TrySave
    <3>3. Cur \in StepId
      BY <2>0, <3>1, CurIsStep DEF TypeOK, PlaceInv
    <3>4. \A s \in StepId : rows'[s] = rows[s] \/ rows'[s].hash = src[s]
      BY <2>0, <3>2, <3>3, SaveRecordsDefinition
    <3> QED BY <3>1, <3>4 DEF FreshInv
  <2>7. CASE Finish \/ Crash \/ Edit
    BY <2>7 DEF Finish, Crash, Edit, FreshInv
  <2>8. CASE UNCHANGED vars
    BY <2>8 DEF vars, FreshInv
  <2> QED BY <2>1, <2>2, <2>3, <2>4, <2>5, <2>6, <2>7, <2>8
          DEF Next, Engine, StepAction, Operator
<1>3. FreshInv => RewindChangedFresh
  BY DEF FreshInv, RewindChangedFresh, CompletedSteps
<1> QED BY <1>1, <1>2, <1>3, BaseInvariance, PTL DEF Spec

(***************************************************************************)
(* Checkpoints, as long as no read fails.                                  *)
(***************************************************************************)
LEMMA StepIsStep == \A i \in 1..NSteps : Step(i) \in StepId /\ Step(i) \in Main
BY DEF Step, StepId, Main

LEMMA CurOfSteps ==
  ASSUME TypeOK
  PROVE  /\ sec = "steps" => Cur = Step(idx)
         /\ \A i \in 1..NSteps : Cur = Step(i) => sec = "steps" /\ i = idx
         /\ \A k \in 1..NAlways : Cur = <<"always", k>> <=> sec = "always" /\ k = idx
BY DEF Cur, Step

\* A write of the current row touches no other row
LEMMA SaveFrame ==
  ASSUME TypeOK, Cur \in StepId, NEW status, NEW output, TrySave(status, output)
  PROVE  /\ \A s \in StepId : s # Cur => rows'[s] = rows[s]
         /\ \/ rows'[Cur] = rows[Cur]
            \/ rows'[Cur].status = status /\ rows'[Cur].at = attempts
BY DEF TypeOK, TrySave, SaveStep

\* The actions that execute a step to its end: what they do to its row, and that a
\* required step ends without an error only with its checkpoint written
LEMMA SavingActions ==
  ASSUME TypeOK, PlaceInv,
         \/ WhenFalse \/ EvaluationFails \/ SetFact \/ Assert \/ Gate
         \/ ExecSucceeds \/ ExecFails
  PROVE  /\ pc \in {"enter", "exec"} /\ Cur \in StepId
         /\ UNCHANGED <<run, attempts, goal, todo, owed>>
         /\ \A s \in StepId : s # Cur => rows'[s] = rows[s]
         /\ \/ rows'[Cur] = rows[Cur]
            \/ rows'[Cur].at = attempts
         /\ \E err \in {"none", "fail", "pause"} :
              /\ Leave(err)
              /\ (err = "none" /\ Cur \in Required)
                   => rows'[Cur].status = "completed" /\ rows'[Cur].at = attempts
<1>1. pc \in {"enter", "exec"} /\ UNCHANGED <<run, attempts, goal, todo, owed>>
  BY DEF WhenFalse, EvaluationFails, SetFact, Assert, Gate, ExecSucceeds, ExecFails,
         request
<1>2. Cur \in StepId
  BY <1>1, CurIsStep DEF TypeOK, PlaceInv
<1>3. CASE WhenFalse
  BY <1>1, <1>2, <1>3, SaveFrame DEF WhenFalse, Required
<1>4. CASE EvaluationFails
  BY <1>1, <1>2, <1>4, SaveFrame DEF EvaluationFails
<1>5. CASE SetFact
  BY <1>1, <1>2, <1>5, SaveFrame DEF SetFact, Required
<1>6. CASE Assert
  BY <1>1, <1>2, <1>6, SaveFrame DEF Assert, Required
<1>7. CASE Gate
  BY <1>1, <1>2, <1>7, SaveFrame DEF Gate, Required
<1>8. CASE ExecSucceeds
  <2>1. TrySave("completed", "unset")
    BY <1>8 DEF ExecSucceeds, TrySave
  <2>2. \/ Leave("none") /\ rows'[Cur].status = "completed" /\ rows'[Cur].at = attempts
        \/ Leave("fail")
    BY <1>2, <1>8 DEF ExecSucceeds, SaveStep, TypeOK
  <2> QED BY <1>1, <1>2, <2>1, <2>2, SaveFrame
<1>9. CASE ExecFails
  BY <1>1, <1>2, <1>9, SaveFrame DEF ExecFails
<1> QED BY <1>3, <1>4, <1>5, <1>6, <1>7, <1>8, <1>9

\* Executing a step to its end keeps the checkpoints
LEMMA SavingKeepsCheckpoints ==
  ASSUME TypeOK, PlaceInv, CheckpointInv,
         \/ WhenFalse \/ EvaluationFails \/ SetFact \/ Assert \/ Gate
         \/ ExecSucceeds \/ ExecFails
  PROVE  CheckpointInv'
<1>1. /\ pc \in {"enter", "exec"} /\ Cur \in StepId
      /\ UNCHANGED <<run, attempts, goal, todo, owed>>
      /\ \A s \in StepId : s # Cur => rows'[s] = rows[s]
      /\ \/ rows'[Cur] = rows[Cur]
         \/ rows'[Cur].at = attempts
  BY SavingActions
<1>2. PICK err \in {"none", "fail", "pause"} :
        /\ Leave(err)
        /\ (err = "none" /\ Cur \in Required)
             => rows'[Cur].status = "completed" /\ rows'[Cur].at = attempts
  BY SavingActions
<1>3. /\ pc' = "step" /\ sec' = sec /\ idx' = idx + 1
      /\ mainErr' = (IF sec = "steps" THEN err ELSE mainErr)
  BY <1>2 DEF Leave
<1>4. /\ sec \in {"steps", "rescue", "always"} /\ idx \in Nat /\ attempts \in Nat
      /\ \A s \in StepId : rows[s].at \in Nat
  BY DEF TypeOK, Section, Row
<1>5. sec = "steps" => Cur = Step(idx) /\ idx \in 1..NSteps /\ mainErr = "none"
                         /\ rows[Cur].status # "completed"
  <2>1. idx \in 1..(Length[sec] + 1) /\ Length["steps"] = NSteps
    BY DEF TypeOK, Length, Section
  <2>2. idx <= Length[sec] /\ (sec = "steps" => mainErr = "none")
    BY <1>1 DEF PlaceInv
  <2>3. sec = "steps" => idx \in 1..NSteps
    BY <2>1, <2>2
  <2> QED BY <1>1, <2>2, <2>3, CurOfSteps DEF CheckpointInv, FinalInv
<1>6. \A i \in 1..NSteps : /\ Step(i) \in StepId
                           /\ ~(sec = "steps" /\ i = idx) => rows'[Step(i)] = rows[Step(i)]
  BY <1>1, StepIsStep, CurOfSteps
<1>7. AtInv'
  BY <1>1, <1>4 DEF CheckpointInv, AtInv
<1>8. FinalInv'
  BY <1>3 DEF FinalInv
<1>9. ReqInv'
  <2>1. CASE sec = "steps"
    <3>1. \A i \in 1..NSteps : i < idx /\ Step(i) \in Required
                                 => rows[Step(i)].status = "completed"
      BY <1>1, <1>5, <2>1 DEF CheckpointInv, ReqInv
    <3>2. ASSUME NEW i \in 1..NSteps, i < idx + 1, Step(i) \in Required, err = "none"
          PROVE  rows'[Step(i)].status = "completed"
      <4>1. CASE i < idx
        BY <1>4, <1>6, <3>1, <3>2, <4>1
      <4>2. CASE i = idx
        BY <1>2, <1>5, <2>1, <3>2, <4>2
      <4> QED BY <1>4, <3>2, <4>1, <4>2
    <3> QED BY <1>3, <2>1, <3>2 DEF ReqInv, Step, Required
  <2>2. CASE sec # "steps"
    BY <1>1, <1>3, <1>6, <2>2 DEF CheckpointInv, ReqInv, Step, Required
  <2> QED BY <2>1, <2>2
<1>10. OrderInv'
  <2> SUFFICES ASSUME NEW i \in 1..NSteps, NEW j \in 1..NSteps,
                      i < j, Step(i) \in Required, rows'[Step(j)].status = "completed",
                      j \notin owed
               PROVE  /\ rows'[Step(i)].status = "completed"
                      /\ rows'[Step(i)].at <= rows'[Step(j)].at
    BY <1>1, <1>3 DEF OrderInv, Step, Required
  <2>1. ASSUME rows[Step(j)].status = "completed"
        PROVE  rows[Step(i)].status = "completed" /\ rows[Step(i)].at <= rows[Step(j)].at
    BY <1>1, <2>1 DEF CheckpointInv, OrderInv
  <2>2. CASE sec = "steps" /\ j = idx
    <3>1. rows'[Step(j)].at = attempts
      BY <1>1, <1>5, <2>2
    <3>2. rows[Step(i)].status = "completed"
      BY <1>1, <1>5, <2>2 DEF CheckpointInv, ReqInv
    <3>3. rows'[Step(i)] = rows[Step(i)] /\ rows[Step(i)].at <= attempts
      BY <1>6, <2>2 DEF CheckpointInv, AtInv
    <3> QED BY <3>1, <3>2, <3>3
  <2>3. CASE ~(sec = "steps" /\ j = idx)
    <3>1. rows'[Step(j)] = rows[Step(j)]
      BY <1>6, <2>3
    <3>2. ~(sec = "steps" /\ i = idx)
      BY <1>5, <2>1, <3>1
    <3>3. rows'[Step(i)] = rows[Step(i)]
      BY <1>6, <3>2
    <3> QED BY <2>1, <3>1, <3>3
  <2> QED BY <2>2, <2>3
<1>11. AlwaysInv'
  <2> SUFFICES ASSUME sec = "always", ~hErr', NEW k \in 1..NAlways,
                      k < idx + 1, <<"always", k>> \in Required
               PROVE  /\ rows'[<<"always", k>>].status = "completed"
                      /\ rows'[<<"always", k>>].at = attempts
    BY <1>1, <1>3 DEF AlwaysInv, Required
  <2>1. ~hErr /\ err = "none"
    BY <1>2, Zenon DEF Leave
  <2>2. CASE k = idx
    BY <1>2, <2>1, <2>2, CurOfSteps
  <2>3. CASE k < idx
    <3>1. rows'[<<"always", k>>] = rows[<<"always", k>>]
      BY <1>1, <1>4, <2>3, CurOfSteps DEF Required
    <3> QED BY <1>1, <2>1, <2>3, <3>1 DEF CheckpointInv, AlwaysInv
  <2> QED BY <1>4, <2>2, <2>3
<1>12. WholeRewinds => AliveInv' /\ CompletedMeansDone'
  BY <1>1, <1>3 DEF CheckpointInv, AliveInv, CompletedMeansDone
<1> QED BY <1>7, <1>8, <1>9, <1>10, <1>11, <1>12 DEF CheckpointInv

\* Looking a step up, starting it and passing over its checkpoint keep them too
LEMMA OtherStepsKeepCheckpoints ==
  ASSUME TypeOK, PlaceInv, CheckpointInv, ReliableReads',
         SkipCompleted \/ Enter \/ ExecBegin
  PROVE  CheckpointInv'
<1> USE DEF store, place, errs, request, source, faults
<1>1. /\ sec \in {"steps", "rescue", "always"} /\ idx \in Nat /\ attempts \in Nat
      /\ \A s \in StepId : rows[s].at \in Nat
      /\ readFaults \in 0..MaxReadFaults
  BY DEF TypeOK, Section, Row
<1>2. CASE SkipCompleted
  <2>1. /\ pc = "step" /\ sec = "steps" /\ mainErr = "none"
        /\ rows[Cur].status = "completed"
        /\ UNCHANGED <<run, rows, attempts, goal, todo, owed>>
    BY <1>2 DEF SkipCompleted, AtStep
  <2>2. pc' = "step" /\ sec' = sec /\ idx' = idx + 1
    BY <1>2 DEF SkipCompleted, Leave
  <2>3. ReqInv'
    <3> SUFFICES ASSUME NEW i \in 1..NSteps, i < idx + 1, Step(i) \in Required
                 PROVE  rows[Step(i)].status = "completed"
      BY <2>1, <2>2 DEF ReqInv, Step, Required
    <3>1. CASE i < idx
      BY <2>1, <3>1 DEF CheckpointInv, ReqInv
    <3>2. CASE i = idx
      BY <2>1, <3>2, CurOfSteps
    <3> QED BY <1>1, <3>1, <3>2
  <2> QED BY <2>1, <2>2, <2>3 DEF CheckpointInv, AtInv, FinalInv, OrderInv, AlwaysInv,
             AliveInv, CompletedMeansDone, Step, Required
<1>3. CASE Enter
  <2>1. /\ pc = "step" /\ pc' = "enter"
        /\ UNCHANGED <<run, rows, attempts, goal, todo, owed, sec, idx, mainErr, hErr>>
    BY <1>3 DEF Enter, AtStep
  <2>2. sec = "steps" => rows[Cur].status # "completed"
    BY <1>1, <1>3 DEF Enter, ReliableReads
  <2>3. FinalInv'
    BY <2>1, <2>2 DEF FinalInv, Cur
  <2> QED BY <2>1, <2>3 DEF CheckpointInv, AtInv, ReqInv, OrderInv, AlwaysInv,
             AliveInv, CompletedMeansDone, Step, Required
<1>4. CASE ExecBegin
  <2>1. /\ pc = "enter" /\ pc' = "exec"
        /\ UNCHANGED <<run, attempts, goal, todo, owed, sec, idx, mainErr, hErr>>
    BY <1>4 DEF ExecBegin
  <2>2. Cur \in StepId
    BY <2>1, CurIsStep DEF TypeOK, PlaceInv
  <2>3. /\ \A s \in StepId : s # Cur => rows'[s] = rows[s]
        /\ \/ rows'[Cur] = rows[Cur]
           \/ rows'[Cur].status = "running" /\ rows'[Cur].at = attempts
    BY <1>4, <2>2, SaveFrame DEF ExecBegin
  <2>4. sec = "steps" => rows[Cur].status # "completed" /\ rows'[Cur].status # "completed"
    BY <2>1, <2>3 DEF CheckpointInv, FinalInv
  <2>5. \A i \in 1..NSteps : /\ Step(i) \in StepId
                             /\ ~(sec = "steps" /\ i = idx) => rows'[Step(i)] = rows[Step(i)]
    BY <2>3, StepIsStep, CurOfSteps
  <2>6. AtInv'
    BY <1>1, <2>1, <2>2, <2>3 DEF CheckpointInv, AtInv
  <2>7. FinalInv'
    BY <2>1, <2>4 DEF FinalInv, Cur
  <2>8. ReqInv'
    BY <1>1, <2>1, <2>5 DEF CheckpointInv, ReqInv, Step, Required
  <2>9. OrderInv'
    <3> SUFFICES ASSUME NEW i \in 1..NSteps, NEW j \in 1..NSteps,
                        i < j, Step(i) \in Required, rows'[Step(j)].status = "completed",
                        j \notin owed
                 PROVE  /\ rows'[Step(i)].status = "completed"
                        /\ rows'[Step(i)].at <= rows'[Step(j)].at
      BY <2>1 DEF OrderInv, Step, Required
    <3>1. rows'[Step(j)] = rows[Step(j)]
      BY <2>4, <2>5, CurOfSteps
    <3>2. rows[Step(i)].status = "completed" /\ rows[Step(i)].at <= rows[Step(j)].at
      BY <2>1, <3>1 DEF CheckpointInv, OrderInv
    <3>3. rows'[Step(i)] = rows[Step(i)]
      BY <2>4, <2>5, <3>2, CurOfSteps
    <3> QED BY <3>1, <3>2, <3>3
  <2>10. AlwaysInv'
    <3>1. \A k \in 1..NAlways : k < idx /\ <<"always", k>> \in Required
                                  => rows'[<<"always", k>>] = rows[<<"always", k>>]
      BY <1>1, <2>3, CurOfSteps DEF Required
    <3> QED BY <2>1, <3>1 DEF CheckpointInv, AlwaysInv, Required
  <2>11. WholeRewinds => AliveInv' /\ CompletedMeansDone'
    BY <2>1 DEF CheckpointInv, AliveInv, CompletedMeansDone
  <2> QED BY <2>6, <2>7, <2>8, <2>9, <2>10, <2>11 DEF CheckpointInv
<1> QED BY <1>2, <1>3, <1>4

\* A rewind that is cut short owes every completed row that it had still to delete:
\* the others are in order
LEMMA CutShortCovers ==
  ASSUME OrderInv, pc' # "rewind", owed' = CutShort, UNCHANGED rows
  PROVE  OrderInv'
BY DEF OrderInv, CutShort, Step, Required

\* Starting an attempt, rewinding and restoring
LEMMA StartKeepsCheckpoints ==
  ASSUME TypeOK, PlaceInv, CheckpointInv,
         \/ RunStart \/ DeleteOne \/ Restore
         \/ \E var \in Overrides, mode \in Modes, target \in Targets :
              ResumeAccept(var, mode, target)
  PROVE  CheckpointInv'
<1> USE DEF store, place, errs, request, source, faults
<1>1. /\ attempts \in Nat /\ writeFaults \in 0..MaxWriteFaults
      /\ \A s \in StepId : rows[s].at \in Nat
      /\ \A i \in 1..NSteps : Step(i) \in StepId
      /\ rows \in [StepId -> Row] /\ todo \subseteq 1..NSteps
  BY StepIsStep DEF TypeOK, Row
<1>2. CASE RunStart
  <2>1. /\ pc = "down" /\ pc' = "step" /\ rows' = rows /\ sec' = "steps" /\ idx' = 1
        /\ attempts' = attempts + 1 /\ goal' = 0 /\ todo' = todo /\ owed' = owed
        /\ run.status = "none" /\ run' = CreateRun(run, edits, "no")
    BY <1>2 DEF RunStart, Begin
  <2>2. run'.status = "running"
    BY <2>1 DEF CreateRun
  <2>3. AtInv'
    BY <1>1, <2>1 DEF CheckpointInv, AtInv
  <2>4. ReqInv'
    BY <2>1 DEF ReqInv
  <2>5. OrderInv'
    BY <2>1 DEF CheckpointInv, OrderInv, Step, Required
  <2>6. WholeRewinds => AliveInv'
    BY <2>1, <2>2 DEF CheckpointInv, AliveInv
  <2> QED BY <2>1, <2>3, <2>4, <2>5, <2>6
          DEF CheckpointInv, FinalInv, AlwaysInv, CompletedMeansDone
<1>3. ASSUME NEW var \in Overrides, NEW mode \in Modes, NEW target \in Targets,
             ResumeAccept(var, mode, target)
      PROVE  CheckpointInv'
  <2>1. /\ pc = "down" /\ pc' = "rewind" /\ rows' = rows /\ run' = run
        /\ attempts' = attempts + 1 /\ goal' = target /\ owed' = owed
        /\ todo' = {i \in RewindFrom(target) : rows[Step(i)].status # "none"}
        /\ StatusResumable(target)
    BY <1>3 DEF ResumeAccept, Begin
  <2>2. AtInv'
    BY <1>1, <2>1 DEF CheckpointInv, AtInv
  <2>3. OrderInv'
    <3> SUFFICES ASSUME NEW i \in 1..NSteps, NEW j \in 1..NSteps,
                        i < j, Step(i) \in Required, rows[Step(j)].status = "completed",
                        j \notin owed, j \notin todo'
                 PROVE  /\ rows[Step(i)].status = "completed"
                        /\ rows[Step(i)].at <= rows[Step(j)].at
                        /\ i \notin todo'
      BY <2>1 DEF OrderInv, Step, Required
    <3>1. j \notin RewindFrom(target)
      BY <2>1
    <3>2. i \notin RewindFrom(target)
      BY <3>1 DEF RewindFrom
    <3>3. i \notin todo'
      BY <2>1, <3>2
    <3> QED BY <2>1, <3>3 DEF CheckpointInv, OrderInv
  <2>4. WholeRewinds => AliveInv'
    <3>1. ASSUME Targets \subseteq {0}
          PROVE  target = 0 /\ RewindFrom(target) = {} /\ run.status # "completed"
      <4>1. target = 0 /\ 0 \notin 1..NSteps /\ 0 # Changed
        BY <3>1 DEF Changed
      <4> QED BY <2>1, <4>1 DEF RewindFrom, StatusResumable
    <3> QED BY <2>1, <3>1 DEF CheckpointInv, AliveInv
  <2> QED BY <2>1, <2>2, <2>3, <2>4
          DEF CheckpointInv, FinalInv, ReqInv, AlwaysInv, CompletedMeansDone
<1>4. CASE DeleteOne
  <2>0. pc = "rewind" /\ UNCHANGED <<run, attempts, goal>>
    BY <1>4 DEF DeleteOne
  <2>1. ASSUME WholeRewinds
        PROVE  ~WriteFault /\ ~(Targets \subseteq {0})
    <3>1. ~(Targets \subseteq {0})
      BY <1>4, <2>1 DEF DeleteOne, CheckpointInv, AliveInv
    <3> QED BY <1>1, <2>1, <3>1 DEF WholeRewinds, WriteFault
  <2>2. PICK d \in todo :
          \/ /\ rows' = DeleteStep(rows, Step(d)) /\ pc' = pc
             /\ todo' = todo \ {d} /\ owed' = owed \ {d}
          \/ WriteFault /\ pc' = "down" /\ owed' = CutShort /\ UNCHANGED <<rows, todo>>
    BY <1>4 DEF DeleteOne
  <2>3. CASE /\ rows' = DeleteStep(rows, Step(d)) /\ pc' = pc
             /\ todo' = todo \ {d} /\ owed' = owed \ {d}
    <3>1. /\ rows'[Step(d)].status = "none" /\ rows'[Step(d)].at = 0
          /\ \A s \in StepId : s # Step(d) => rows'[s] = rows[s]
      BY <1>1, <2>3 DEF DeleteStep, NoStep
    <3>2. \A i \in 1..NSteps : i # d => rows'[Step(i)] = rows[Step(i)]
      BY <1>1, <3>1 DEF Step
    <3>3. AtInv'
      BY <1>1, <2>0, <3>1 DEF CheckpointInv, AtInv
    <3>4. OrderInv'
      <4> SUFFICES ASSUME NEW i \in 1..NSteps, NEW j \in 1..NSteps,
                          i < j, Step(i) \in Required, rows'[Step(j)].status = "completed",
                          j \notin owed', j \notin todo'
                   PROVE  /\ rows'[Step(i)].status = "completed"
                          /\ rows'[Step(i)].at <= rows'[Step(j)].at
                          /\ i \notin todo'
        BY <2>0, <2>3 DEF OrderInv, Step, Required
      <4>1. j # d /\ j \notin todo /\ j \notin owed /\ rows'[Step(j)] = rows[Step(j)]
        BY <2>3, <3>1, <3>2
      <4>2. rows[Step(i)].status = "completed" /\ rows[Step(i)].at <= rows[Step(j)].at
            /\ i \notin todo
        BY <2>0, <4>1 DEF CheckpointInv, OrderInv
      <4>3. rows'[Step(i)] = rows[Step(i)]
        BY <3>2, <4>2
      <4> QED BY <2>3, <4>1, <4>2, <4>3
    <3> QED BY <2>0, <2>1, <2>3, <3>3, <3>4
            DEF CheckpointInv, FinalInv, ReqInv, AlwaysInv, AliveInv, CompletedMeansDone
  <2>4. CASE WriteFault /\ pc' = "down" /\ owed' = CutShort /\ UNCHANGED <<rows, todo>>
    <3>1. OrderInv'
      BY <2>0, <2>4, CutShortCovers DEF CheckpointInv
    <3> QED BY <2>0, <2>1, <2>4, <3>1
            DEF CheckpointInv, AtInv, FinalInv, ReqInv, AlwaysInv
  <2> QED BY <2>2, <2>3, <2>4
<1>5. CASE Restore
  <2>1. /\ pc = "rewind" /\ pc' = "step" /\ todo = {} /\ TryUpdate("running")
        /\ UNCHANGED <<rows, attempts, goal, todo, owed, sec, idx, mainErr, hErr>>
    BY <1>5 DEF Restore
  <2>2. sec = "steps" /\ idx = 1
    BY <2>1 DEF PlaceInv
  <2>3. WholeRewinds => run'.status # "completed"
    <3>1. CASE run' = UpdateRun(run, "running")
      BY <3>1 DEF UpdateRun
    <3>2. CASE WriteFault /\ UNCHANGED run
      BY <1>1, <2>1, <3>2 DEF WholeRewinds, WriteFault, CheckpointInv, AliveInv
    <3> QED BY <2>1, <3>1, <3>2 DEF TryUpdate
  <2>4. OrderInv'
    BY <2>1 DEF CheckpointInv, OrderInv, Step, Required
  <2>5. WholeRewinds => AliveInv'
    BY <2>1, <2>3 DEF CheckpointInv, AliveInv
  <2> QED BY <2>1, <2>2, <2>4, <2>5
          DEF CheckpointInv, AtInv, FinalInv, ReqInv, AlwaysInv, CompletedMeansDone
<1> QED BY <1>2, <1>3, <1>4, <1>5

\* Going from section to section, ending the attempt, and what happens around it
LEMMA EndKeepsCheckpoints ==
  ASSUME TypeOK, PlaceInv, CheckpointInv,
         SectionEnd \/ Finish \/ Crash \/ Edit \/ UNCHANGED vars
  PROVE  CheckpointInv'
<1> USE DEF store, place, errs, request, source, faults
<1>1. /\ sec \in {"steps", "rescue", "always"} /\ idx \in 1..(Length[sec] + 1)
      /\ Length["steps"] = NSteps /\ Length["always"] = NAlways
      /\ writeFaults \in 0..MaxWriteFaults /\ crashes \in 0..MaxCrashes
      /\ mainErr \in {"none", "fail", "pause"}
  BY DEF TypeOK, Section, Length
<1>2. CASE SectionEnd
  <2>1. /\ pc = "step" /\ UNCHANGED <<run, rows, attempts, goal, todo, owed, mainErr, hErr>>
        /\ idx > Length[sec] \/ (sec = "steps" /\ mainErr # "none")
    BY <1>2 DEF SectionEnd, SectionEndAs, AfterSection
  <2>2. CASE sec = "always" \/ mainErr = "pause"
    <3>1. pc' = "update" /\ sec' = sec /\ idx' = idx
      BY <1>2, <2>2 DEF SectionEnd, SectionEndAs, AfterSection
    <3> QED BY <2>1, <2>2, <3>1 DEF CheckpointInv, AtInv, FinalInv, ReqInv, OrderInv,
               AlwaysInv, AliveInv, CompletedMeansDone, Step, Required
  <2>3. CASE ~(sec = "always" \/ mainErr = "pause")
    <3>1. /\ sec' \in {"rescue", "always"}
          /\ sec' = "always" => sec = "rescue" \/ mainErr = "none"
          /\ idx' = 1 /\ pc' = "step"
      BY <1>1, <1>2, <2>1, <2>3 DEF SectionEnd, SectionEndAs, AfterSection
    <3>2. ReqInv'
      <4>1. mainErr = "none" => sec = "steps" /\ idx > NSteps
        BY <1>1, <2>1, <2>3 DEF PlaceInv
      <4>2. mainErr = "none" =>
              \A i \in 1..NSteps : Step(i) \in Required => rows[Step(i)].status = "completed"
        BY <1>1, <2>1, <4>1 DEF CheckpointInv, ReqInv
      <4> QED BY <2>1, <3>1, <4>2 DEF ReqInv, Step, Required
    <3> QED BY <2>1, <3>1, <3>2 DEF CheckpointInv, AtInv, FinalInv, OrderInv,
               AlwaysInv, AliveInv, CompletedMeansDone, Step, Required
  <2> QED BY <2>2, <2>3
<1>3. CASE Finish
  <2>1. /\ pc = "update" /\ pc' = "down" /\ TryUpdate(Outcome)
        /\ UNCHANGED <<rows, attempts, goal, todo, owed>>
    BY <1>3 DEF Finish
  <2>2. WholeRewinds => CompletedMeansDone'
    <3> SUFFICES ASSUME WholeRewinds, run'.status = "completed", NEW s \in Required
                 PROVE  /\ s \in Main => rows[s].status = "completed"
                        /\ s \in Always => rows[s].status = "completed"
                                             /\ rows[s].at = attempts
      BY <2>1 DEF CompletedMeansDone, Required
    <3>1. run.status # "completed"
      BY <2>1 DEF CheckpointInv, AliveInv
    <3>2. Outcome = "completed"
      BY <2>1, <3>1 DEF TryUpdate, UpdateRun
    <3>3. mainErr = "none" /\ ~hErr
      BY <1>1, <3>2 DEF Outcome
    <3>4. sec = "always" /\ idx = NAlways + 1
      BY <1>1, <2>1, <3>3 DEF PlaceInv
    <3>5. \A i \in 1..NSteps : Step(i) \in Required => rows[Step(i)].status = "completed"
      BY <2>1, <3>3, <3>4 DEF CheckpointInv, ReqInv
    <3>6. \A k \in 1..NAlways : <<"always", k>> \in Required =>
            /\ rows[<<"always", k>>].status = "completed"
            /\ rows[<<"always", k>>].at = attempts
      BY <2>1, <3>3, <3>4 DEF CheckpointInv, AlwaysInv
    <3> QED BY <3>5, <3>6 DEF Main, Always, Step
  <2> QED BY <2>1, <2>2 DEF CheckpointInv, AtInv, FinalInv, ReqInv, OrderInv,
             AlwaysInv, AliveInv, Step, Required
<1>4. CASE Crash
  <2>1. /\ pc # "down" /\ pc' = "down" /\ MaxCrashes # 0
        /\ owed' = (IF pc = "rewind" THEN CutShort ELSE owed)
        /\ UNCHANGED <<run, rows, attempts, goal, todo>>
    BY <1>1, <1>4 DEF Crash
  <2>2. OrderInv'
    <3>1. CASE pc = "rewind"
      BY <2>1, <3>1, CutShortCovers DEF CheckpointInv
    <3>2. CASE pc # "rewind"
      BY <2>1, <3>2 DEF CheckpointInv, OrderInv, Step, Required
    <3> QED BY <3>1, <3>2
  <2>3. WholeRewinds => AliveInv' /\ CompletedMeansDone'
    <3> SUFFICES ASSUME WholeRewinds PROVE AliveInv' /\ CompletedMeansDone'
      OBVIOUS
    <3>1. Targets \subseteq {0}
      BY <2>1 DEF WholeRewinds
    <3>2. todo = {} /\ run.status # "completed"
      BY <2>1, <3>1 DEF CheckpointInv, AliveInv
    <3> QED BY <2>1, <3>2 DEF CheckpointInv, AliveInv, CompletedMeansDone
  <2> QED BY <2>1, <2>2, <2>3 DEF CheckpointInv, AtInv, FinalInv, ReqInv, AlwaysInv
<1>5. CASE Edit \/ UNCHANGED vars
  <2>1. UNCHANGED <<run, rows, pc, sec, idx, mainErr, hErr, attempts, goal, todo, owed>>
    BY <1>5 DEF Edit, vars
  <2> QED BY <2>1 DEF CheckpointInv, AtInv, FinalInv, ReqInv, OrderInv, AlwaysInv,
             AliveInv, CompletedMeansDone, Step, Required, Cur
<1> QED BY <1>2, <1>3, <1>4, <1>5

\* Failed reads are counted, never forgotten
LEMMA FailedReadsStay ==
  ASSUME TypeOK, [Next]_vars, ReliableReads'
  PROVE  ReliableReads
<1> USE DEF ReliableReads, store, place, errs, request, source, faults
<1>1. readFaults \in Nat
  BY DEF TypeOK
<1>2. CASE Enter
  BY <1>1, <1>2 DEF Enter
<1>3. CASE \/ SkipCompleted \/ WhenFalse \/ EvaluationFails \/ SetFact \/ Assert
           \/ Gate \/ ExecBegin \/ ExecSucceeds \/ ExecFails
  BY <1>3 DEF SkipCompleted, WhenFalse, EvaluationFails, SetFact, Assert, Gate,
              ExecBegin, ExecSucceeds, ExecFails
<1>4. CASE \/ RunStart \/ DeleteOne \/ Restore \/ SectionEnd \/ Finish \/ Crash \/ Edit
           \/ UNCHANGED vars
           \/ \E var \in Overrides, mode \in Modes, target \in Targets :
                ResumeAccept(var, mode, target)
  BY <1>4 DEF RunStart, DeleteOne, Restore, SectionEnd, SectionEndAs, AfterSection,
              Finish, Crash, Edit, ResumeAccept, vars
<1> QED BY <1>2, <1>3, <1>4 DEF Next, Engine, StepAction, Operator

\* The invariants of the checkpoints, as long as no read has failed
THEOREM CheckpointInvariance == Spec => [](BaseInv /\ (ReliableReads => CheckpointInv))
<1>1. Init => CheckpointInv
  <2> SUFFICES ASSUME Init PROVE CheckpointInv
    OBVIOUS
  <2>1. \A s \in StepId : rows[s].status = "none" /\ rows[s].at = 0
    BY DEF Init, NoStep
  <2>2. run.status = "none" /\ pc = "down" /\ attempts = 0 /\ todo = {} /\ goal = 0
    BY DEF Init, NoRun
  <2> QED BY <2>1, <2>2, StepIsStep DEF CheckpointInv, AtInv, FinalInv, ReqInv, OrderInv,
             AlwaysInv, AliveInv, CompletedMeansDone
<1>2. BaseInv /\ (ReliableReads => CheckpointInv) /\ [Next]_vars
        => (ReliableReads => CheckpointInv)'
  <2> SUFFICES ASSUME BaseInv, ReliableReads => CheckpointInv, [Next]_vars,
                      ReliableReads'
               PROVE  CheckpointInv'
    OBVIOUS
  <2> USE DEF BaseInv
  <2>0. CheckpointInv
    BY FailedReadsStay
  <2>1. CASE \/ WhenFalse \/ EvaluationFails \/ SetFact \/ Assert \/ Gate
             \/ ExecSucceeds \/ ExecFails
    BY <2>0, <2>1, SavingKeepsCheckpoints
  <2>2. CASE SkipCompleted \/ Enter \/ ExecBegin
    BY <2>0, <2>2, OtherStepsKeepCheckpoints
  <2>3. CASE \/ RunStart \/ DeleteOne \/ Restore
             \/ \E var \in Overrides, mode \in Modes, target \in Targets :
                  ResumeAccept(var, mode, target)
    BY <2>0, <2>3, StartKeepsCheckpoints
  <2>4. CASE SectionEnd \/ Finish \/ Crash \/ Edit \/ UNCHANGED vars
    BY <2>0, <2>4, EndKeepsCheckpoints
  <2> QED BY <2>1, <2>2, <2>3, <2>4 DEF Next, Engine, StepAction, Operator
<1> QED BY <1>1, <1>2, BaseInvariance, PTL DEF Spec

\* Results follow their inputs: the checkpoints left by any sequence of attempts,
\* crashes, failed writes and rewinds are in order, but for the rows that a rewind
\* which was cut short still owes
THEOREM CheckpointsStayInOrder == Spec => []CheckpointsInOrder
<1>1. (ReliableReads => CheckpointInv) => CheckpointsInOrder
  BY DEF CheckpointInv, OrderInv, CheckpointsInOrder
<1> QED BY <1>1, CheckpointInvariance, PTL

\* A run recorded as completed has all its results and a complete teardown, if no
\* rewind can be cut short (the row says `completed` until it is over)
THEOREM CompletedRunsAreDone ==
  ASSUME WholeRewinds
  PROVE  Spec => [](ReliableReads => CompletedMeansDone)
<1>1. CheckpointInv => CompletedMeansDone
  BY DEF CheckpointInv
<1> QED BY <1>1, CheckpointInvariance, PTL

\* Once saved as completed, a normal step is never executed or overwritten again
\* unless a rewind deletes its row
THEOREM CompletedStepsAreKept == Spec => CheckpointsAreFinal
<1> DEFINE Kept == ReliableReads =>
                     \A s \in Main : rows[s].status = "completed" =>
                       rows'[s] = rows[s] \/ (pc = "rewind" /\ s[2] \in todo)
<1>1. BaseInv /\ (ReliableReads => CheckpointInv) /\ [Next]_vars => [Kept]_vars
  <2> SUFFICES ASSUME BaseInv, CheckpointInv, Next,
                      NEW s \in Main, rows[s].status = "completed", rows'[s] # rows[s]
               PROVE  pc = "rewind" /\ s[2] \in todo
    BY DEF Kept
  <2> USE DEF store
  <2>0. s \in StepId /\ (s = Cur => sec = "steps")
    BY DEF StepId, Main, Cur
  <2>1. CASE \/ WhenFalse \/ EvaluationFails \/ SetFact \/ Assert \/ Gate
             \/ ExecSucceeds \/ ExecFails
    <3>1. pc \in {"enter", "exec"} /\ \A t \in StepId : t # Cur => rows'[t] = rows[t]
      BY <2>1, SavingActions DEF BaseInv
    <3> QED BY <2>0, <3>1 DEF CheckpointInv, FinalInv
  <2>2. CASE ExecBegin
    <3>1. pc = "enter" /\ Cur \in StepId
      BY <2>2, CurIsStep DEF ExecBegin, BaseInv, TypeOK, PlaceInv
    <3>2. \A t \in StepId : t # Cur => rows'[t] = rows[t]
      BY <2>2, <3>1, SaveFrame DEF ExecBegin, BaseInv
    <3> QED BY <2>0, <3>1, <3>2 DEF CheckpointInv, FinalInv
  <2>3. CASE DeleteOne
    <3>1. PICK d \in todo : rows' = DeleteStep(rows, Step(d)) \/ rows' = rows
      BY <2>3 DEF DeleteOne
    <3>2. s = Step(d)
      BY <2>0, <3>1 DEF DeleteStep, BaseInv, TypeOK
    <3> QED BY <2>3, <3>1, <3>2 DEF DeleteOne, Step
  <2>4. CASE \/ SkipCompleted \/ Enter \/ RunStart \/ Restore \/ SectionEnd \/ Finish
             \/ Crash \/ Edit
             \/ \E var \in Overrides, mode \in Modes, target \in Targets :
                  ResumeAccept(var, mode, target)
    BY <2>4 DEF SkipCompleted, Enter, RunStart, Restore, SectionEnd, SectionEndAs, AfterSection, Finish, Crash, Edit,
                ResumeAccept
  <2> QED BY <2>1, <2>2, <2>3, <2>4 DEF Next, Engine, StepAction, Operator
<1> QED BY <1>1, CheckpointInvariance, PTL DEF Spec, CheckpointsAreFinal

=============================================================================

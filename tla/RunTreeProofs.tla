---------------------------- MODULE RunTreeProofs ----------------------------
(***************************************************************************)
(* Proofs about RunTree, for any tree of runs, any workflows and rewinds,  *)
(* and any number of attempts, edits and crashes.                          *)
(***************************************************************************)
EXTENDS RunTree, WellFoundedInduction, TLAPS

Running == pc \in {"step", "handlers", "return"}

Lost(r) == RunRow(r) \in refused

Row == [status : {"none", "skipped", "paused", "failed", "completed"},
        at : 0..MaxAttempts, hash : 0..MaxEdits]

\* The rows of a run are of the workflow it has run, and a run that has rows exists
RowsInv ==
  \A i \in RowId : rows[i].status # "none" =>
    Lost(i[1][1]) \/ (i[2] = entry[i[1][1]] /\ status[i[1][1]] # "none")

\* A run that has a row has a caller that has one
ChainInv ==
  \A r \in Runs \ {Root} : status[r] # "none" =>
    Lost(ParentSlot(r)[1]) \/ status[ParentSlot(r)[1]] # "none"

\* The run and its callers are under way: each is at the step that calls the next, and
\* runs the workflow that its name resolves to in this attempt
StackInv ==
  /\ status[Root] = "none" => pc = "down"
  /\ Running => (Lost(Root) \/ status[Root] = "running") /\ todo = {}
  /\ Running => \A q \in Ancestors(cur) :
       /\ Lost(q) \/ (status[q] # "none" /\ entry[q] = want[q])
       /\ q # Root => idx[ParentSlot(q)[1]] = ParentSlot(q)[2]
  /\ pc = "rewind" => cur = Root /\ err = "none" /\ \A r \in Runs : idx[r] = 1
  /\ pc = "down" => todo = {}
  /\ entry[Root] = Default /\ want[Root] = Default
  /\ pc \in {"handlers", "return"} /\ err = "none" => idx[cur] > Steps[cur]
  /\ pc = "handlers" => err # "pause"

\* What a run has passed in this attempt is done: its condition was false, it has its
\* result, or it is a sub-run that has passed all its own steps or whose failure is
\* ignored
Passed(s) ==
  \/ s \in refused
  \/ Skipped(<<s, want[s[1]]>>)
  \/ Child[s] = NoRun /\ Completed(<<s, want[s[1]]>>)
  \/ /\ Child[s] # NoRun
     /\ \/ Lost(Child[s])
        \/ /\ status[Child[s]] = "completed"
           /\ idx[Child[s]] > Steps[Child[s]] /\ entry[Child[s]] = want[Child[s]]
        \/ status[Child[s]] = "failed" /\ Child[s] \in Ignoring
PassedInv == \A s \in Slot : s[2] < idx[s[1]] => Passed(s)

EndedInv ==
  (pc = "down" /\ status[Root] = "completed" /\ ~torn) => Lost(Root) \/ idx[Root] > Steps[Root]

\* Under the run that the pause has reached there is the paused step, and the runs
\* between are paused
PausedAt(r) ==
  \/ Lost(r)
  \/ \E s \in Plain : s[1] = r /\ (rows[<<s, entry[r]>>].status = "paused" \/ s \in refused)

PauseInv ==
  (Running /\ err = "pause") =>
    \E r \in Runs : /\ cur \in Ancestors(r) /\ PausedAt(r)
                    /\ \A q \in Ancestors(r) \ Ancestors(cur) : status[q] = "paused" \/ Lost(q)

\* What is rewound or changed is deleted before the steps run
Rewound(i) == from # 0 /\ RootStep(i[1]) >= from
Changed(i) == goal = -1 /\ rows[i].status = "completed" /\ rows[i].hash # src[i[1]]

FreshInv ==
  /\ pc = "rewind" => \A i \in RowId : Clear(i[1][1]) =>
       /\ Rewound(i) /\ rows[i].status # "none" => i[1][1] \in todo
       /\ Changed(i) => Rewound(i)
  /\ Running => \A i \in RowId : Clear(i[1][1]) /\ rows[i].status = "completed" =>
       /\ Rewound(i) => rows[i].at = attempts
       /\ ~ Changed(i)

Inv == TypeOK /\ RowsInv /\ ChainInv /\ StackInv /\ PassedInv /\ EndedInv /\ PauseInv
         /\ PauseIsLocated /\ FreshInv

-----------------------------------------------------------------------------
(***************************************************************************)
(* The tree.                                                               *)
(***************************************************************************)
LEMMA SlotForm ==
  /\ \A s \in Slot : s[1] \in Runs /\ s[2] \in 1..Steps[s[1]] /\ s = <<s[1], s[2]>>
  /\ \A r \in Runs : \A k \in 1..Steps[r] : <<r, k>> \in Slot
BY DEF Slot

LEMMA ParentForm ==
  ASSUME NEW r \in Runs \ {Root}
  PROVE  /\ ParentSlot(r) \in Slot /\ Child[ParentSlot(r)] = r
         /\ ParentSlot(r)[1] \in Runs /\ ParentSlot(r)[2] \in 1..Steps[ParentSlot(r)[1]]
         /\ \A t \in Slot : Child[t] = r => t = ParentSlot(r)
<1>1. \E s \in Slot : Child[s] = r
  BY TreeAssumption
<1>2. ParentSlot(r) \in Slot /\ Child[ParentSlot(r)] = r
  BY <1>1 DEF ParentSlot
<1> QED BY <1>2, SlotForm, TreeAssumption

LEMMA ClimbUp ==
  ASSUME NEW r \in Runs
  PROVE  /\ Ancestors(r) \subseteq Runs /\ r \in Ancestors(r) /\ Climbs(Ancestors(r))
         /\ \A S \in SUBSET Runs : r \in S /\ Climbs(S) => Ancestors(r) \subseteq S
<1>1. Ancestors(r) = {q \in Runs : \A S \in SUBSET Runs : r \in S /\ Climbs(S) => q \in S}
  BY DEF Ancestors, Ancestry
<1>2. Climbs(Ancestors(r))
  <2> SUFFICES ASSUME NEW p \in Ancestors(r) \ {Root} PROVE ParentSlot(p)[1] \in Ancestors(r)
    BY DEF Climbs
  <2>1. p \in Runs \ {Root} /\ ParentSlot(p)[1] \in Runs
    BY <1>1, ParentForm
  <2>2. ASSUME NEW S \in SUBSET Runs, r \in S, Climbs(S) PROVE ParentSlot(p)[1] \in S
    BY <1>1, <2>1, <2>2 DEF Climbs
  <2> QED BY <1>1, <2>1, <2>2
<1> QED BY <1>1, <1>2

LEMMA AncestorsOfRoot == Ancestors(Root) = {Root}
<1>1. Climbs({Root})
  BY DEF Climbs
<1> QED BY <1>1, ClimbUp, TreeAssumption

LEMMA AncestorsOfChild ==
  ASSUME NEW r \in Runs \ {Root}
  PROVE  Ancestors(r) = {r} \cup Ancestors(ParentSlot(r)[1])
<1> DEFINE p == ParentSlot(r)[1]
<1>1. p \in Runs
  BY ParentForm
<1>2. Climbs({r} \cup Ancestors(p)) /\ {r} \cup Ancestors(p) \subseteq Runs
  BY <1>1, ClimbUp DEF Climbs
<1>3. p \in Ancestors(r)
  BY ClimbUp DEF Climbs
<1>4. Ancestors(p) \subseteq Ancestors(r)
  BY <1>1, <1>3, ClimbUp
<1> QED BY <1>2, <1>4, ClimbUp

\* Induction down the tree
LEMMA DownTheTree ==
  ASSUME NEW P \in SUBSET Runs, Root \in P,
         \A x \in Runs \ {Root} : ParentSlot(x)[1] \in P => x \in P
  PROVE  P = Runs
<1> SUFFICES ASSUME NEW r \in Runs \ P PROVE FALSE
  OBVIOUS
<1>1. Climbs(Runs \ P)
  BY ParentForm DEF Climbs
<1>2. Root \in Ancestors(r)
  BY TreeAssumption
<1> QED BY <1>1, <1>2, ClimbUp

\* A run is not under itself
LEMMA NotUnderItself ==
  ASSUME NEW r \in Runs \ {Root}
  PROVE  r \notin Ancestors(ParentSlot(r)[1])
<1> SUFFICES ASSUME r \in Ancestors(ParentSlot(r)[1]) PROVE FALSE
  OBVIOUS
<1> DEFINE S == {q \in Runs : r \in Ancestors(q)}
<1>1. Climbs(S)
  <2> SUFFICES ASSUME NEW q \in S \ {Root} PROVE ParentSlot(q)[1] \in S
    BY DEF Climbs
  <2>1. q \in Runs \ {Root} /\ ParentSlot(q)[1] \in Runs
    BY ParentForm
  <2>2. Ancestors(q) = {q} \cup Ancestors(ParentSlot(q)[1])
    BY <2>1, AncestorsOfChild
  <2> QED BY <2>1, <2>2
<1>2. r \in S
  BY ClimbUp
<1> HIDE DEF S
<1>3. Root \in S
  <2>1. S \in SUBSET Runs
    BY DEF S
  <2> QED BY <1>1, <1>2, <2>1, ClimbUp, TreeAssumption
<1> QED BY <1>3, AncestorsOfRoot DEF S

\* The callers of a caller are callers
LEMMA AncestorsNest ==
  ASSUME NEW r \in Runs, NEW q \in Ancestors(r)
  PROVE  Ancestors(q) \subseteq Ancestors(r)
BY ClimbUp

\* A sub-run is under the step of the root that its caller's step is under
LEMMA RootStepOfChild ==
  ASSUME NEW r \in Runs \ {Root}, NEW k
  PROVE  RootStep(<<r, k>>) = RootStep(ParentSlot(r))
<1> DEFINE p == ParentSlot(r)[1]
<1>0. p \in Runs /\ ParentSlot(r) \in Slot
  BY ParentForm
<1>1. <<r, k>>[1] = r
  OBVIOUS
<1>2. Ancestors(r) = {r} \cup Ancestors(p)
  BY AncestorsOfChild
<1>3. RootStep(<<r, k>>) = ParentSlot(CHOOSE q \in Topmost(r) : TRUE)[2]
  BY <1>1 DEF RootStep
<1>4. CASE p = Root
  <2>1. Topmost(r) = {r}
    BY <1>2, <1>4, AncestorsOfRoot DEF Topmost
  <2>2. (CHOOSE q \in Topmost(r) : TRUE) = r
    BY <2>1
  <2>3. RootStep(ParentSlot(r)) = ParentSlot(r)[2]
    BY <1>4 DEF RootStep
  <2> QED BY <1>3, <2>2, <2>3
<1>5. CASE p # Root
  <2>1. Topmost(r) = Topmost(p)
    BY <1>2, <1>5 DEF Topmost
  <2>2. RootStep(ParentSlot(r)) = ParentSlot(CHOOSE q \in Topmost(p) : TRUE)[2]
    BY <1>5 DEF RootStep
  <2> QED BY <1>3, <2>1, <2>2
<1> QED BY <1>4, <1>5

\* Every step is under one of the root's
LEMMA RootStepForm == \A s \in Slot : RootStep(s) \in 1..Steps[Root]
<1> DEFINE P == {r \in Runs : \A s \in Slot : s[1] = r => RootStep(s) \in 1..Steps[Root]}
<1>1. Root \in P
  BY SlotForm, TreeAssumption DEF RootStep
<1>2. ASSUME NEW x \in Runs \ {Root}, ParentSlot(x)[1] \in P PROVE x \in P
  <2>1. ParentSlot(x) \in Slot
    BY ParentForm
  <2>2. RootStep(ParentSlot(x)) \in 1..Steps[Root]
    BY <1>2, <2>1
  <2>3. ASSUME NEW s \in Slot, s[1] = x PROVE RootStep(s) \in 1..Steps[Root]
    <3>1. s = <<x, s[2]>>
      BY <2>3, SlotForm
    <3> QED BY <2>2, <3>1, RootStepOfChild
  <2> QED BY <2>3
<1>3. P = Runs
  <2> HIDE DEF P
  <2>1. P \in SUBSET Runs
    BY DEF P
  <2> QED BY <1>1, <1>2, <2>1, DownTheTree
<1> QED BY <1>3, SlotForm

\* A nonempty set of naturals has a least element
LEMMA LeastOf ==
  ASSUME NEW S \in SUBSET Nat, S # {}
  PROVE  \E x \in S : \A y \in S : x <= y
<1> DEFINE Less == {p \in Nat \X Nat : p[1] < p[2]}
<1>1. IsWellFoundedOn(Less, Nat)
  BY NatLessThanWellFounded DEF OpToRel
<1>2. PICK x \in S : \A y \in S : ~ (<<y, x>> \in Less)
  <2> HIDE DEF Less
  <2> QED BY <1>1, WFMin
<1>3. ASSUME NEW y \in S PROVE x <= y
  <2>1. x \in Nat /\ y \in Nat /\ ~ (<<y, x>> \in Less)
    BY <1>2
  <2>2. <<y, x>> \in Nat \X Nat /\ <<y, x>>[1] = y /\ <<y, x>>[2] = x
    BY <2>1
  <2>3. ~ (y < x)
    BY <2>1, <2>2
  <2> QED BY <2>1, <2>3
<1> QED BY <1>3

-----------------------------------------------------------------------------
(***************************************************************************)
(* The invariant holds at first.                                           *)
(***************************************************************************)
LEMMA RowForm ==
  ASSUME NEW i \in RowId
  PROVE  /\ i[1] \in Slot /\ i[2] \in Workflows /\ i = <<i[1], i[2]>>
         /\ i[1][1] \in Runs /\ i[1][2] \in 1..Steps[i[1][1]]
<1>1. i[1] \in Slot /\ i[2] \in Workflows /\ i = <<i[1], i[2]>>
  BY DEF RowId
<1> QED BY <1>1, SlotForm

LEMMA RowIdForm ==
  ASSUME NEW s \in Slot, NEW w \in Workflows
  PROVE  <<s, w>> \in RowId /\ <<s, w>>[1] = s /\ <<s, w>>[2] = w
BY DEF RowId

LEMMA CellForm ==
  /\ \A s \in Slot : s \in Cells
  /\ \A r \in Runs : RunRow(r) \in Cells
BY DEF Cells

LEMMA NoRowForm ==
  /\ NoRow \in Row
  /\ NoRow.status = "none"
BY TreeAssumption DEF NoRow, Row

LEMMA StepsForm == \A r \in Runs : Steps[r] \in Nat \ {0}
BY TreeAssumption

LEMMA NamesForm ==
  ASSUME NEW f \in Names
  PROVE  f \in [Runs -> Workflows] /\ f[Root] = Default
BY TreeAssumption DEF Names

LEMMA RowsType == TypeOK => rows \in [RowId -> Row]
BY DEF TypeOK, Row

LEMMA InitInv == Init => Inv
<1> SUFFICES ASSUME Init PROVE Inv
  OBVIOUS
<1>1. rows \in [RowId -> Row] /\ \A i \in RowId : rows[i].status = "none"
  BY NoRowForm DEF Init
<1>2. idx \in [Runs -> Nat] /\ \A r \in Runs : idx[r] \in 1..(Steps[r] + 1)
  BY StepsForm DEF Init
<1>3. TypeOK
  <2>1. /\ Root \in Runs /\ Default \in Workflows /\ Steps[Root] \in Nat
        /\ MaxAttempts \in Nat /\ MaxEdits \in Nat /\ MaxCrashes \in Nat
    BY TreeAssumption
  <2>2. /\ status \in [Runs -> {"none", "running", "paused", "failed", "completed"}]
        /\ entry \in [Runs -> Workflows] /\ want \in [Runs -> Workflows]
        /\ src \in [Slot -> 0..MaxEdits] /\ edits \in 0..MaxEdits
    BY <2>1 DEF Init
  <2>3. /\ attempts \in 0..MaxAttempts /\ from \in 0..Steps[Root]
        /\ goal \in -1..Steps[Root] /\ crashes \in 0..MaxCrashes
    BY <2>1 DEF Init
  <2>4. /\ pc = "down" /\ cur \in Runs /\ err = "none" /\ torn \in BOOLEAN
        /\ todo \subseteq Runs /\ refused \subseteq Cells
    BY <2>1 DEF Init
  <2> QED BY <1>1, <1>2, <2>2, <2>3, <2>4 DEF TypeOK, Row
<1>4. RowsInv
  BY <1>1 DEF RowsInv
<1>5. StackInv /\ ChainInv
  BY TreeAssumption DEF Init, StackInv, ChainInv, Running
<1>6. EndedInv /\ PauseInv /\ PauseIsLocated /\ FreshInv
  BY TreeAssumption DEF Init, EndedInv, PauseInv, PauseIsLocated, FreshInv, Running
<1>7. PassedInv
  BY SlotForm DEF Init, PassedInv
<1> QED BY <1>3, <1>4, <1>5, <1>6, <1>7 DEF Inv

(***************************************************************************)
(* The state store.                                                        *)
(***************************************************************************)
LEMMA RefuseForm ==
  ASSUME TypeOK, NEW c \in Cells, UNCHANGED refused \/ Refuse(c)
  PROVE  refused' \subseteq Cells /\ refused \subseteq refused'
BY DEF Refuse, TypeOK

\* UpdateRun changes no other row, and makes none
LEMMA SaveRunForm ==
  ASSUME TypeOK, NEW r \in Runs, NEW st \in {"running", "paused", "failed", "completed"},
         SaveRun(r, st)
  PROVE  /\ status' \in [Runs -> {"none", "running", "paused", "failed", "completed"}]
         /\ \A q \in Runs : status'[q] = "none" <=> status[q] = "none"
         /\ \A q \in Runs : q # r => status'[q] = status[q]
         /\ status'[r] = st \/ status[r] = "none" \/ RunRow(r) \in refused'
         /\ refused' \subseteq Cells /\ refused \subseteq refused'
<1>1. refused' \subseteq Cells /\ refused \subseteq refused'
  BY RefuseForm, CellForm DEF SaveRun
<1>2. CASE status' = [status EXCEPT ![r] = IF status[r] = "none" THEN status[r] ELSE st]
  BY <1>1, <1>2 DEF TypeOK
<1>3. CASE Refuse(RunRow(r)) /\ UNCHANGED status
  BY <1>1, <1>3 DEF TypeOK, Refuse
<1> QED BY <1>2, <1>3 DEF SaveRun

\* Of a run whose row, and those above it, were never lost, GetChildRuns finds the row
LEMMA RecordedForm ==
  ASSUME Inv, NEW r \in Runs, Clear(r), status[r] # "none"
  PROVE  Recorded(r)
<1> DEFINE P == {x \in Runs : Clear(x) /\ status[x] # "none" => Recorded(x)}
<1>1. Root \in P
  BY AncestorsOfRoot, TreeAssumption DEF Recorded
<1>2. ASSUME NEW x \in Runs \ {Root}, ParentSlot(x)[1] \in P PROVE x \in P
  <2>1. Ancestors(x) = {x} \cup Ancestors(ParentSlot(x)[1])
    BY AncestorsOfChild
  <2>2. ParentSlot(x)[1] \in Runs /\ ParentSlot(x)[1] \in Ancestors(ParentSlot(x)[1])
    BY ParentForm, ClimbUp
  <2>3. SUFFICES ASSUME Clear(x), status[x] # "none" PROVE Recorded(x)
    OBVIOUS
  <2>4. Clear(ParentSlot(x)[1]) /\ ~ Lost(ParentSlot(x)[1])
    BY <2>1, <2>2, <2>3 DEF Clear, Lost
  <2>5. Recorded(ParentSlot(x)[1])
    BY <1>2, <2>3, <2>4 DEF Inv, ChainInv
  <2> QED BY <2>1, <2>3, <2>5 DEF Recorded
<1>3. P = Runs
  <2> HIDE DEF P
  <2>1. P \in SUBSET Runs
    BY DEF P
  <2> QED BY <1>1, <1>2, <2>1, DownTheTree
<1> QED BY <1>3

(***************************************************************************)
(* Starting an attempt.                                                    *)
(***************************************************************************)
LEMMA BeginForm ==
  ASSUME Inv, NEW t \in Int, Begin(t)
  PROVE  /\ pc = "down" /\ cur' = Root /\ err' = "none" /\ goal' = t
         /\ idx' \in [Runs -> Nat] /\ \A r \in Runs : idx'[r] = 1
         /\ \A r \in Runs : idx'[r] \in 1..(Steps[r] + 1)
         /\ want' \in [Runs -> Workflows] /\ want'[Root] = Default
         /\ attempts' \in 0..MaxAttempts
<1>1. attempts' \in 0..MaxAttempts
  BY TreeAssumption DEF Begin, Inv, TypeOK
<1> QED BY <1>1, NamesForm, StepsForm DEF Begin

LEMMA RunInv == ASSUME Inv, Run PROVE Inv'
<1>1. /\ pc = "down" /\ cur' = Root /\ err' = "none" /\ goal' = 0
      /\ idx' \in [Runs -> Nat] /\ \A r \in Runs : idx'[r] = 1
      /\ \A r \in Runs : idx'[r] \in 1..(Steps[r] + 1)
      /\ want' \in [Runs -> Workflows] /\ want'[Root] = Default
      /\ attempts' \in 0..MaxAttempts
  BY BeginForm DEF Run
<1>2. /\ status' = [status EXCEPT ![Root] = "running"] /\ pc' = "step"
      /\ from' = 0 /\ status[Root] = "none"
      /\ UNCHANGED <<entry, rows, src, edits, todo, crashes, torn, refused>>
  BY DEF Run, source, history
<1>3. Root \in Runs /\ Steps[Root] \in Nat \ {0} /\ -1..Steps[Root] \subseteq Int
  BY TreeAssumption
<1>4. TypeOK'
  BY <1>1, <1>2, <1>3 DEF Inv, TypeOK
<1>5. RowsInv'
  BY <1>2, <1>3, RowForm DEF Inv, RowsInv, TypeOK, Lost
<1>6. StackInv'
  <2>1. Ancestors(cur') = {Root}
    BY <1>1, AncestorsOfRoot
  <2>2. todo = {}
    BY <1>1 DEF Inv, StackInv
  <2> QED BY <1>1, <1>2, <1>3, <2>1, <2>2 DEF Inv, StackInv, Running, TypeOK
<1>7. ChainInv'
  BY <1>2, <1>3, ParentForm DEF Inv, ChainInv, TypeOK, Lost
<1>8. PassedInv'
  BY <1>1, SlotForm DEF PassedInv
<1>9. EndedInv' /\ PauseInv' /\ PauseIsLocated'
  BY <1>1, <1>2 DEF EndedInv, PauseInv, PauseIsLocated, Running
<1>10. FreshInv'
  BY <1>1, <1>2 DEF FreshInv, Running, Rewound, Changed
<1> QED BY <1>4, <1>5, <1>6, <1>7, <1>8, <1>9, <1>10 DEF Inv

\* The rewind starts at a step of the root, and no later than what has changed
LEMMA RewindForm ==
  ASSUME Inv, NEW t \in Targets
  PROVE  /\ RewindIndex(t) \in 0..Steps[Root]
         /\ t = -1 => \A i \in ChangedRows :
              RewindIndex(t) # 0 /\ RootStep(i[1]) >= RewindIndex(t)
<1>1. Steps[Root] \in Nat /\ t \in -1..Steps[Root]
  BY TreeAssumption
<1>2. CASE t # -1
  BY <1>1, <1>2 DEF RewindIndex
<1>3. CASE t = -1
  <2>1. ChangedSteps \subseteq 1..Steps[Root]
    BY RowForm, RootStepForm DEF ChangedSteps, ChangedRows
  <2>2. \A i \in ChangedRows : RootStep(i[1]) \in ChangedSteps
    BY DEF ChangedSteps
  <2>3. CASE ChangedSteps = {}
    BY <1>1, <1>3, <2>2, <2>3 DEF RewindIndex
  <2>4. CASE ChangedSteps # {}
    <3>1. \E x \in ChangedSteps : \A y \in ChangedSteps : x <= y
      BY <1>1, <2>1, <2>4, LeastOf
    <3>2. /\ RewindIndex(t) \in ChangedSteps
          /\ \A y \in ChangedSteps : RewindIndex(t) <= y
      BY <1>3, <2>4, <3>1 DEF RewindIndex
    <3>3. \A y \in ChangedSteps : y \in Nat \ {0} /\ y <= Steps[Root]
      BY <1>1, <2>1
    <3>4. RewindIndex(t) \in Nat \ {0} /\ RewindIndex(t) <= Steps[Root]
      BY <3>2, <3>3
    <3>5. \A i \in ChangedRows : RootStep(i[1]) \in Nat /\ RewindIndex(t) <= RootStep(i[1])
      BY <2>2, <3>2, <3>3
    <3> QED BY <1>1, <3>4, <3>5
  <2> QED BY <2>3, <2>4
<1> QED BY <1>2, <1>3

LEMMA ResumeInv == ASSUME Inv, NEW t \in Targets, Resume(t) PROVE Inv'
<1>0. Root \in Runs /\ Steps[Root] \in Nat /\ t \in Int /\ t \in -1..Steps[Root]
  BY TreeAssumption
<1>1. /\ pc = "down" /\ cur' = Root /\ err' = "none" /\ goal' = t
      /\ idx' \in [Runs -> Nat] /\ \A r \in Runs : idx'[r] = 1
      /\ \A r \in Runs : idx'[r] \in 1..(Steps[r] + 1)
      /\ want' \in [Runs -> Workflows] /\ want'[Root] = Default
      /\ attempts' \in 0..MaxAttempts
  BY <1>0, BeginForm DEF Resume
<1>2. /\ status[Root] # "none" /\ pc' = "rewind" /\ from' = RewindIndex(t)
      /\ todo' = IF from' = 0 THEN {} ELSE {Root} \cup Below(from')
      /\ UNCHANGED <<status, entry, rows, src, edits, crashes, torn, refused>>
  BY DEF Resume, table, source, history
<1>3. TypeOK'
  <2>1. from' \in 0..Steps[Root]
    BY <1>2, RewindForm
  <2>2. todo' \subseteq Runs
    BY <1>0, <1>2 DEF Below
  <2> QED BY <1>0, <1>1, <1>2, <2>1, <2>2 DEF Inv, TypeOK
<1>4. RowsInv' /\ ChainInv'
  BY <1>2 DEF Inv, RowsInv, ChainInv, Lost
<1>5. StackInv'
  BY <1>0, <1>1, <1>2 DEF Inv, StackInv, Running
<1>6. PassedInv'
  BY <1>1, SlotForm DEF PassedInv
<1>7. EndedInv' /\ PauseInv' /\ PauseIsLocated'
  BY <1>2 DEF EndedInv, PauseInv, PauseIsLocated, Running
<1>8. FreshInv'
  <2> SUFFICES ASSUME NEW i \in RowId, Clear(i[1][1])
               PROVE  /\ Rewound(i)' /\ rows[i].status # "none" => i[1][1] \in todo'
                      /\ Changed(i)' => Rewound(i)'
    BY <1>2 DEF FreshInv, Running, Clear
  <2>0. ASSUME rows[i].status # "none" PROVE i[1][1] \in Runs /\ Recorded(i[1][1])
    <3>1. i[1][1] \in Runs
      BY RowForm
    <3>2. status[i[1][1]] # "none"
      BY <2>0, <3>1, ClimbUp DEF Inv, RowsInv, Clear, Lost
    <3> QED BY <3>1, <3>2, RecordedForm
  <2>1. Changed(i)' => Rewound(i)'
    BY <1>1, <1>2, <2>0, RewindForm DEF Changed, Rewound, ChangedRows
  <2>2. ASSUME Rewound(i)', rows[i].status # "none" PROVE i[1][1] \in todo'
    <3>1. i[1][1] \in Runs /\ Recorded(i[1][1]) /\ i[1] = <<i[1][1], i[1][2]>>
      BY <2>0, <2>2, RowForm, SlotForm
    <3>2. from' # 0 /\ RootStep(i[1]) >= from'
      BY <2>2 DEF Rewound
    <3>3. CASE i[1][1] = Root
      BY <1>2, <3>2, <3>3
    <3>4. CASE i[1][1] # Root
      <4>1. RootStep(<<i[1][1], 1>>) = RootStep(i[1])
        BY <3>1, <3>4, RootStepOfChild
      <4> QED BY <1>2, <3>1, <3>2, <3>4, <4>1 DEF Below
    <3> QED BY <3>3, <3>4
  <2> QED BY <2>1, <2>2
<1> QED BY <1>3, <1>4, <1>5, <1>6, <1>7, <1>8 DEF Inv

LEMMA ClearRunInv == ASSUME Inv, NEW r \in Runs, ClearRun(r) PROVE Inv'
<1>1. /\ pc = "rewind" /\ r \in todo /\ todo' = todo \ {r}
      /\ rows' = [i \in RowId |-> IF i[1][1] = r /\ (r = Root => i[1][2] >= from)
                                  THEN NoRow ELSE rows[i]]
      /\ UNCHANGED <<status, entry, src, edits, pc, cur, idx, err, want, attempts, from,
                     goal, crashes, torn, refused>>
  BY DEF ClearRun, source, attempt, history
<1>2. rows' \in [RowId -> Row] /\ \A i \in RowId : rows'[i] = NoRow \/ rows'[i] = rows[i]
  BY <1>1, RowsType, NoRowForm DEF Inv
<1>3. TypeOK'
  BY <1>1, <1>2 DEF Inv, TypeOK, Row
<1>4. RowsInv' /\ ChainInv'
  BY <1>1, <1>2, NoRowForm DEF Inv, RowsInv, ChainInv, Lost
<1>5. StackInv'
  BY <1>1 DEF Inv, StackInv, Running
<1>6. PassedInv'
  BY <1>1, SlotForm DEF Inv, StackInv, PassedInv
<1>7. EndedInv' /\ PauseInv' /\ PauseIsLocated'
  BY <1>1 DEF EndedInv, PauseInv, PauseIsLocated, Running
<1>8. FreshInv'
  <2> SUFFICES ASSUME NEW i \in RowId, Clear(i[1][1])
               PROVE  /\ Rewound(i)' /\ rows'[i].status # "none" => i[1][1] \in todo'
                      /\ Changed(i)' => Rewound(i)'
    BY <1>1 DEF FreshInv, Running, Clear
  <2>1. Rewound(i)' = Rewound(i) /\ (Changed(i)' => Changed(i))
    BY <1>1, <1>2, NoRowForm DEF Rewound, Changed
  <2>2. ASSUME Rewound(i), rows'[i].status # "none" PROVE i[1][1] \in todo'
    <3>1. rows'[i] = rows[i] /\ i[1][1] \in todo
      BY <1>1, <1>2, <2>2, NoRowForm DEF Inv, FreshInv
    <3>2. ASSUME i[1][1] = r PROVE FALSE
      <4>1. r = Root => i[1][2] >= from
        BY <2>2, <3>2 DEF Rewound, RootStep
      <4> QED BY <1>1, <2>2, <3>2, <4>1, NoRowForm
    <3> QED BY <1>1, <3>1, <3>2
  <2> QED BY <1>1, <2>1, <2>2 DEF Inv, FreshInv
<1> QED BY <1>3, <1>4, <1>5, <1>6, <1>7, <1>8 DEF Inv

LEMMA RestoreInv == ASSUME Inv, Restore PROVE Inv'
<1>1. /\ pc = "rewind" /\ todo = {} /\ pc' = "step" /\ SaveRun(Root, "running")
      /\ UNCHANGED <<entry, rows, src, edits, cur, idx, err, want, attempts, from, goal, todo,
                     crashes, torn>>
  BY DEF Restore, source, attempt
<1>2. Root \in Runs /\ TypeOK
  BY TreeAssumption DEF Inv
<1>3. /\ status' \in [Runs -> {"none", "running", "paused", "failed", "completed"}]
      /\ \A q \in Runs : status'[q] = "none" <=> status[q] = "none"
      /\ \A q \in Runs : q # Root => status'[q] = status[q]
      /\ status'[Root] = "running" \/ status[Root] = "none" \/ RunRow(Root) \in refused'
      /\ refused' \subseteq Cells /\ refused \subseteq refused'
  BY <1>1, <1>2, SaveRunForm
<1>4. TypeOK'
  BY <1>1, <1>2, <1>3 DEF TypeOK
<1>5. RowsInv'
  BY <1>1, <1>3, RowForm DEF Inv, RowsInv, Lost
<1>6. ChainInv'
  BY <1>3, ParentForm DEF Inv, ChainInv, Lost
<1>7. StackInv'
  <2>1. cur = Root /\ Ancestors(cur) = {Root} /\ status[Root] # "none"
    BY <1>1, AncestorsOfRoot DEF Inv, StackInv
  <2> QED BY <1>1, <1>2, <1>3, <2>1 DEF Inv, StackInv, Running, Lost
<1>8. PassedInv'
  BY <1>1, SlotForm DEF Inv, StackInv, PassedInv
<1>9. EndedInv' /\ PauseIsLocated'
  BY <1>1 DEF EndedInv, PauseIsLocated
<1>10. PauseInv'
  BY <1>1 DEF Inv, StackInv, PauseInv, Running
<1>11. FreshInv'
  BY <1>1, <1>3 DEF Inv, FreshInv, Running, Rewound, Changed, Clear
<1> QED BY <1>4, <1>5, <1>6, <1>7, <1>8, <1>9, <1>10, <1>11 DEF Inv

(***************************************************************************)
(* Steps.                                                                  *)
(***************************************************************************)
LEMMA HereForm ==
  ASSUME Inv, AtStep
  PROVE  /\ pc = "step" /\ err = "none" /\ cur \in Runs /\ cur \in Ancestors(cur)
         /\ idx[cur] \in Nat /\ idx[cur] <= Steps[cur] /\ Steps[cur] \in Nat
         /\ Here \in Slot /\ Here[1] = cur /\ Here[2] = idx[cur]
         /\ Lost(cur) \/ (entry[cur] = want[cur] /\ status[cur] # "none")
<1>1. /\ pc = "step" /\ err = "none" /\ cur \in Runs /\ idx[cur] <= Steps[cur]
      /\ idx[cur] \in 1..(Steps[cur] + 1)
  BY DEF AtStep, Inv, TypeOK
<1>2. cur \in Ancestors(cur) /\ Steps[cur] \in Nat
  BY <1>1, ClimbUp, StepsForm
<1>3. Here \in Slot /\ Here[1] = cur /\ Here[2] = idx[cur]
  BY <1>1, <1>2, SlotForm DEF Here
<1> QED BY <1>1, <1>2, <1>3 DEF Inv, StackInv, Running

LEMMA HereRowForm ==
  ASSUME Inv, AtStep
  PROVE  /\ HereRow \in RowId /\ HereRow[1] = Here /\ HereRow[2] = want[cur]
         /\ HereRow = <<Here, want[Here[1]]>>
<1>1. want[cur] \in Workflows /\ Here[1] = cur
  BY HereForm DEF Inv, TypeOK
<1> QED BY <1>1, HereForm, RowIdForm DEF HereRow

\* The current run passes its step
LEMMA AdvanceForm ==
  ASSUME Inv, AtStep, Advance
  PROVE  /\ idx' \in [Runs -> Nat] /\ \A r \in Runs : idx'[r] \in 1..(Steps[r] + 1)
         /\ idx'[cur] = idx[cur] + 1 /\ \A r \in Runs : r # cur => idx'[r] = idx[r]
         /\ \A q \in Ancestors(cur) \ {Root} : ParentSlot(q)[1] # cur
         /\ \A s \in Slot : s[2] < idx'[s[1]] => s[2] < idx[s[1]] \/ s = Here
         /\ \A r \in Runs : idx'[r] >= idx[r]
<1>1. idx \in [Runs -> Nat] /\ \A r \in Runs : idx[r] \in 1..(Steps[r] + 1)
  BY DEF Inv, TypeOK
<1>2. idx' = [idx EXCEPT ![cur] = idx[cur] + 1]
  BY DEF Advance
<1>3. idx'[cur] = idx[cur] + 1 /\ \A r \in Runs : r # cur => idx'[r] = idx[r]
  BY <1>1, <1>2, HereForm
<1>4. ASSUME NEW q \in Ancestors(cur) \ {Root}, ParentSlot(q)[1] = cur PROVE FALSE
  <2>1. q \in Runs \ {Root}
    BY HereForm, ClimbUp
  <2>2. q \notin Ancestors(cur)
    BY <1>4, <2>1, NotUnderItself
  <2> QED BY <2>2
<1>5. ASSUME NEW s \in Slot, s[2] < idx'[s[1]], ~ (s[2] < idx[s[1]]) PROVE s = Here
  <2>1. s[1] \in Runs /\ s[2] \in Nat /\ s = <<s[1], s[2]>>
    BY SlotForm, StepsForm
  <2>2. s[1] = cur /\ s[2] = idx[cur]
    BY <1>3, <1>5, <2>1, HereForm
  <2> QED BY <2>1, <2>2 DEF Here
<1>6. \A r \in Runs : idx'[r] >= idx[r]
  BY <1>1, <1>3
<1> QED BY <1>1, <1>2, <1>3, <1>4, <1>5, <1>6, HereForm, StepsForm

\* The callers of the current run stay where they are
LEMMA AdvanceStack ==
  ASSUME Inv, AtStep, Advance, UNCHANGED <<status, entry, want, pc, cur, todo>>,
         err' = "none", refused \subseteq refused'
  PROVE  StackInv'
<1>1. pc = "step"
  BY DEF AtStep
<1>2. \A q \in Ancestors(cur) \ {Root} : q \in Runs \ {Root} /\ ParentSlot(q)[1] \in Runs
  BY HereForm, ClimbUp, ParentForm
<1>3. \A q \in Ancestors(cur) \ {Root} : idx'[ParentSlot(q)[1]] = idx[ParentSlot(q)[1]]
  BY <1>2, AdvanceForm
<1> QED BY <1>1, <1>3 DEF Inv, StackInv, Running, Lost

\* What has been passed stays so while no other row than the current one is written
LEMMA StaysPassed ==
  ASSUME Inv, AtStep, NEW s \in Slot, s # Here, Passed(s),
         UNCHANGED <<status, entry, want, attempts>>, refused \subseteq refused',
         \A i \in RowId : i # HereRow => rows'[i] = rows[i],
         \A r \in Runs : idx'[r] \in Nat /\ idx'[r] >= idx[r]
  PROVE  Passed(s)'
<1>1. s[1] \in Runs /\ want[s[1]] \in Workflows
  BY SlotForm DEF Inv, TypeOK
<1>2. <<s, want[s[1]]>> \in RowId /\ <<s, want[s[1]]>>[1] = s
  BY <1>1, RowIdForm
<1>3. <<s, want[s[1]]>> # HereRow
  BY <1>2, HereRowForm
<1>4. rows'[<<s, want[s[1]]>>] = rows[<<s, want[s[1]]>>]
  BY <1>2, <1>3
<1>5. Child[s] # NoRun => Child[s] \in Runs
  BY TreeAssumption
<1>6. Child[s] # NoRun /\ idx[Child[s]] > Steps[Child[s]] => idx'[Child[s]] > Steps[Child[s]]
  BY <1>5, StepsForm DEF Inv, TypeOK
<1> QED BY <1>4, <1>6 DEF Passed, Skipped, Completed, Lost

LEMMA StepPassed ==
  ASSUME Inv, AtStep, NEW h \in Slot, h = Here, UNCHANGED <<status, entry, want, attempts>>, refused \subseteq refused',
         \A i \in RowId : i # HereRow => rows'[i] = rows[i],
         UNCHANGED idx \/ (Advance /\ Passed(h)')
  PROVE  PassedInv'
<1> SUFFICES ASSUME NEW s \in Slot, s[2] < idx'[s[1]] PROVE Passed(s)'
  BY DEF PassedInv
<1>1. s[1] \in Runs /\ s[2] \in Nat
  BY SlotForm, StepsForm
<1>2. \A r \in Runs : idx[r] \in Nat /\ idx'[r] \in Nat /\ idx'[r] >= idx[r]
  BY AdvanceForm DEF Inv, TypeOK
<1>3. CASE s = Here
  <2>1. Advance /\ Passed(h)'
    BY <1>1, <1>3, HereForm
  <2> QED BY <1>3, <2>1
<1>4. CASE s # Here
  <2>1. s[2] < idx[s[1]]
    BY <1>4, AdvanceForm
  <2>2. Passed(s)
    BY <2>1 DEF Inv, PassedInv
  <2> QED BY <1>2, <1>4, <2>2, StaysPassed
<1> QED BY <1>3, <1>4

LEMMA SkipCompletedInv == ASSUME Inv, SkipCompleted PROVE Inv'
<1>1. /\ AtStep /\ Here \in Plain /\ rows[HereRow].status = "completed" /\ Advance
      /\ UNCHANGED <<status, entry, rows, src, edits, pc, cur, err, want, attempts, from, goal,
                     todo, crashes, torn, refused>>
  BY DEF SkipCompleted, table, source, attempt, history
<1>2. pc = "step" /\ err = "none"
  BY <1>1 DEF AtStep
<1>3. TypeOK'
  BY <1>1, AdvanceForm DEF Inv, TypeOK
<1>4. RowsInv' /\ ChainInv'
  BY <1>1 DEF Inv, RowsInv, ChainInv, Lost
<1>5. StackInv'
  BY <1>1, <1>2, AdvanceStack
<1>6. PassedInv'
  <2>1. PICK h \in Slot : h = Here
    BY <1>1, HereForm
  <2>2. Child[h] = NoRun /\ Completed(<<h, want[h[1]]>>)
    BY <1>1, <2>1, HereRowForm DEF Plain, Completed
  <2>3. Passed(h)'
    BY <1>1, <2>2 DEF Passed, Completed
  <2>4. refused \subseteq refused' /\ \A i \in RowId : i # HereRow => rows'[i] = rows[i]
    BY <1>1
  <2> QED BY <1>1, <2>1, <2>3, <2>4, StepPassed
<1>7. EndedInv' /\ PauseInv' /\ PauseIsLocated'
  BY <1>1, <1>2 DEF EndedInv, PauseInv, PauseIsLocated
<1>8. FreshInv'
  BY <1>1 DEF Inv, FreshInv, Running, Rewound, Changed, Clear
<1> QED BY <1>3, <1>4, <1>5, <1>6, <1>7, <1>8 DEF Inv

\* The row of the current step is written, or was lost, and no other row changes
LEMMA EndsForm ==
  ASSUME Inv, NEW st \in {"skipped", "paused", "failed", "completed"}, Ends(st)
  PROVE  /\ rows' \in [RowId -> Row]
         /\ \A i \in RowId : i # HereRow => rows'[i] = rows[i]
         /\ refused' \subseteq Cells /\ refused \subseteq refused'
         /\ \/ rows'[HereRow].status = st /\ rows'[HereRow].at = attempts
               /\ rows'[HereRow].hash = src[Here]
            \/ rows' = rows /\ Here \in refused'
<1> DEFINE new == [status |-> st, at |-> attempts, hash |-> src[Here]]
<1>1. AtStep /\ (UNCHANGED refused \/ Refuse(Here)) /\ TypeOK
  BY DEF Ends, Inv
<1>2. refused' \subseteq Cells /\ refused \subseteq refused'
  BY <1>1, HereForm, CellForm, RefuseForm
<1>3. new \in Row /\ new.status = st /\ new.at = attempts /\ new.hash = src[Here]
  BY <1>1, HereForm DEF Row, TypeOK
<1>4. rows \in [RowId -> Row] /\ HereRow \in RowId
  BY <1>1, RowsType, HereRowForm
<1>5. CASE rows' = [rows EXCEPT ![HereRow] = new]
  <2> HIDE DEF new
  <2> QED BY <1>2, <1>3, <1>4, <1>5
<1>6. CASE Refuse(Here) /\ UNCHANGED rows
  BY <1>2, <1>4, <1>6 DEF Refuse
<1> QED BY <1>5, <1>6 DEF Ends, Save

LEMMA EndsInv ==
  ASSUME Inv, NEW st \in {"skipped", "paused", "failed", "completed"}, Ends(st),
         UNCHANGED <<status, entry, src, edits, pc, cur, want, attempts, from, goal, todo,
                     crashes, torn>>,
         \/ Advance /\ UNCHANGED err /\ (st = "skipped" \/ (st = "completed" /\ Here \in Plain))
         \/ UNCHANGED idx /\ st = "failed" /\ err' = "fail"
         \/ UNCHANGED idx /\ st = "paused" /\ err' = "pause" /\ Here \in Plain
  PROVE  Inv'
<1>1. AtStep
  BY DEF Ends
<1>2. /\ pc = "step" /\ err = "none" /\ cur \in Runs /\ cur \in Ancestors(cur)
      /\ Here \in Slot /\ Here[1] = cur
      /\ Lost(cur) \/ (entry[cur] = want[cur] /\ status[cur] # "none")
  BY <1>1, HereForm
<1>3. /\ HereRow \in RowId /\ HereRow[1] = Here /\ HereRow[2] = want[cur]
      /\ HereRow = <<Here, want[cur]>>
  BY <1>1, <1>2, HereRowForm
<1>4. /\ rows' \in [RowId -> Row]
      /\ \A i \in RowId : i # HereRow => rows'[i] = rows[i]
      /\ refused' \subseteq Cells /\ refused \subseteq refused'
      /\ \/ rows'[HereRow].status = st /\ rows'[HereRow].at = attempts
            /\ rows'[HereRow].hash = src[Here]
         \/ rows' = rows /\ Here \in refused'
  BY EndsForm
<1>5. TypeOK'
  <2>1. idx' \in [Runs -> Nat] /\ \A r \in Runs : idx'[r] \in 1..(Steps[r] + 1)
    BY <1>1, AdvanceForm DEF Inv, TypeOK
  <2>2. err' \in {"none", "fail", "pause"}
    BY <1>2
  <2> QED BY <1>4, <2>1, <2>2 DEF Inv, TypeOK, Row
<1>6. RowsInv'
  <2> SUFFICES ASSUME NEW i \in RowId, rows'[i].status # "none", ~ Lost(i[1][1])'
               PROVE  i[2] = entry[i[1][1]] /\ status[i[1][1]] # "none"
    BY DEF RowsInv
  <2>1. ~ Lost(i[1][1])
    BY <1>4 DEF Lost
  <2>2. CASE i = HereRow
    BY <1>2, <1>3, <2>1, <2>2
  <2>3. CASE i # HereRow
    BY <1>4, <2>1, <2>3 DEF Inv, RowsInv
  <2> QED BY <2>2, <2>3
<1>7. ChainInv'
  BY <1>4 DEF Inv, ChainInv, Lost
<1>8. StackInv'
  <2>1. CASE Advance /\ UNCHANGED err
    BY <1>1, <1>2, <1>4, <2>1, AdvanceStack
  <2>2. CASE UNCHANGED idx
    BY <1>2, <1>4, <2>2 DEF Inv, StackInv, Running, Lost
  <2> QED BY <2>1, <2>2
<1>9. PassedInv'
  <2>1. PICK h \in Slot : h = Here
    BY <1>2
  <2>2. ASSUME Advance PROVE Passed(h)'
    <3>1. st = "skipped" \/ (st = "completed" /\ Here \in Plain)
      <4>1. idx' # idx
        BY <1>1, <1>2, <2>2, AdvanceForm DEF Inv, TypeOK
      <4> QED BY <4>1
    <3>2. HereRow = <<h, want[h[1]]>>
      BY <1>2, <1>3, <2>1
    <3>3. CASE rows' = rows /\ Here \in refused'
      BY <2>1, <3>3 DEF Passed
    <3>4. CASE rows'[HereRow].status = st /\ rows'[HereRow].at = attempts
      <4>1. rows'[<<h, want'[h[1]]>>].status = st /\ rows'[<<h, want'[h[1]]>>].at = attempts'
        BY <3>2, <3>4
      <4>2. CASE st = "skipped"
        BY <4>1, <4>2 DEF Passed, Skipped
      <4>3. CASE st = "completed" /\ Child[h] = NoRun
        BY <4>1, <4>3 DEF Passed, Completed
      <4> QED BY <2>1, <3>1, <4>2, <4>3 DEF Plain
    <3> QED BY <1>4, <3>3, <3>4
  <2> QED BY <1>1, <1>4, <2>1, <2>2, StepPassed
<1>10. EndedInv' /\ PauseIsLocated'
  BY <1>2 DEF EndedInv, PauseIsLocated
<1>11. PauseInv'
  <2> SUFFICES ASSUME err' = "pause"
               PROVE  \E r \in Runs : /\ cur \in Ancestors(r) /\ PausedAt(r)'
                                      /\ \A q \in Ancestors(r) \ Ancestors(cur) :
                                            status[q] = "paused" \/ Lost(q)'
    BY DEF PauseInv
  <2>1. st = "paused" /\ Here \in Plain
    BY <1>2
  <2>2. PICK r \in Runs : r = cur
    BY <1>2
  <2>3. PICK h \in Plain : h = Here
    BY <2>1
  <2>4. PausedAt(r)'
    <3>1. CASE Lost(cur)
      BY <1>4, <2>2, <3>1 DEF PausedAt, Lost
    <3>2. CASE Here \in refused'
      BY <1>2, <2>2, <2>3, <3>2 DEF PausedAt
    <3>3. CASE entry[cur] = want[cur] /\ rows'[HereRow].status = st
      <4>1. rows'[<<h, entry'[r]>>].status = "paused" /\ h[1] = r
        BY <1>2, <1>3, <2>1, <2>2, <2>3, <3>3
      <4> QED BY <4>1 DEF PausedAt
    <3> QED BY <1>2, <1>4, <3>1, <3>2, <3>3
  <2>5. cur \in Ancestors(r) /\ Ancestors(r) \ Ancestors(cur) = {}
    BY <1>2, <2>2, ClimbUp
  <2> QED BY <2>4, <2>5
<1>12. FreshInv'
  <2> SUFFICES ASSUME NEW i \in RowId, Clear(i[1][1])', rows'[i].status = "completed"
               PROVE  (Rewound(i)' => rows'[i].at = attempts) /\ ~ Changed(i)'
    BY <1>2 DEF FreshInv
  <2>0. Clear(i[1][1])
    BY <1>4 DEF Clear
  <2>1. CASE rows'[i] = rows[i]
    BY <1>2, <2>0, <2>1 DEF Inv, FreshInv, Running, Rewound, Changed
  <2>2. CASE rows'[i].at = attempts /\ rows'[i].hash = src[i[1]]
    BY <2>2 DEF Changed
  <2> QED BY <1>3, <1>4, <2>1, <2>2
<1> QED BY <1>5, <1>6, <1>7, <1>8, <1>9, <1>10, <1>11, <1>12 DEF Inv

LEMMA StepEndsInv == ASSUME Inv, WhenFalse \/ Fails \/ Exec PROVE Inv'
<1>1. CASE WhenFalse
  BY <1>1, EndsInv DEF WhenFalse, source, attempt
<1>2. CASE Fails
  BY <1>2, EndsInv DEF Fails, source, attempt
<1>3. CASE Exec
  <2>1. UNCHANGED <<status, entry, src, edits, pc, cur, want, attempts, from, goal, todo,
                    crashes, torn>>
    BY <1>3 DEF Exec, source, attempt
  <2>2. CASE Here \in Plain /\ Ends("completed") /\ Advance /\ UNCHANGED err
    BY <2>1, <2>2, EndsInv
  <2>3. CASE Here \in Gates /\ Ends("paused") /\ err' = "pause" /\ UNCHANGED idx
    BY <2>1, <2>3, EndsInv, TreeAssumption
  <2> QED BY <1>3, <2>2, <2>3 DEF Exec
<1> QED BY <1>1, <1>2, <1>3

(***************************************************************************)
(* Sub-workflows.                                                          *)
(***************************************************************************)
LEMMA CallFailsInv == ASSUME Inv, CallFails \/ CallRefused PROVE Inv'
<1>1. /\ AtStep /\ err' = "fail"
      /\ UNCHANGED <<status, entry, rows, src, edits, pc, cur, idx, want, attempts, from, goal,
                     todo, crashes, torn, refused>>
  BY DEF CallFails, CallRefused, table, source, attempt, history
<1>2. pc = "step"
  BY <1>1 DEF AtStep
<1>3. TypeOK'
  BY <1>1 DEF Inv, TypeOK
<1>4. RowsInv' /\ ChainInv'
  BY <1>1 DEF Inv, RowsInv, ChainInv, Lost
<1>5. PassedInv'
  BY <1>1 DEF Inv, PassedInv, Passed, Skipped, Completed, Lost
<1>6. StackInv'
  BY <1>1, <1>2 DEF Inv, StackInv, Running, Lost
<1>7. EndedInv' /\ PauseInv' /\ PauseIsLocated'
  BY <1>1, <1>2 DEF EndedInv, PauseInv, PauseIsLocated
<1>8. FreshInv'
  BY <1>1 DEF Inv, FreshInv, Running, Rewound, Changed, Clear
<1> QED BY <1>3, <1>4, <1>5, <1>6, <1>7, <1>8 DEF Inv

LEMMA CallInv == ASSUME Inv, Call PROVE Inv'
<1>1. /\ AtStep /\ Here \notin Plain
      /\ Create \/ Again
      /\ cur' = Callee /\ idx' = [idx EXCEPT ![Callee] = 1]
      /\ UNCHANGED <<rows, src, edits, pc, err, want, attempts, from, goal, todo, crashes,
                     torn>>
  BY DEF Call, source, attempt
<1>2. /\ pc = "step" /\ err = "none" /\ cur \in Runs /\ cur \in Ancestors(cur)
      /\ Here \in Slot /\ Here[1] = cur /\ Here[2] = idx[cur] /\ idx[cur] \in Nat
      /\ Lost(cur) \/ status[cur] # "none"
  BY <1>1, HereForm
<1>3. Callee \in Runs /\ Callee # Root /\ Child[Here] = Callee
  BY <1>1, <1>2, TreeAssumption DEF Callee, Plain
<1>4. ParentSlot(Callee) = Here
  BY <1>2, <1>3, ParentForm
<1>5. Ancestors(Callee) = {Callee} \cup Ancestors(cur) /\ Callee \notin Ancestors(cur)
  BY <1>2, <1>3, <1>4, AncestorsOfChild, NotUnderItself
<1>6. /\ refused' \subseteq Cells /\ refused \subseteq refused'
      /\ UNCHANGED refused \/ Refuse(RunRow(Callee))
  <2>1. UNCHANGED refused \/ Refuse(RunRow(Callee))
    BY <1>1 DEF Create, Again
  <2>2. RunRow(Callee) \in Cells /\ TypeOK
    BY <1>3, CellForm DEF Inv
  <2> QED BY <2>1, <2>2, RefuseForm
<1>7. /\ status' \in [Runs -> {"none", "running", "paused", "failed", "completed"}]
      /\ entry' \in [Runs -> Workflows]
      /\ \A r \in Runs : r # Callee => status'[r] = status[r] /\ entry'[r] = entry[r]
      /\ status[Callee] # "none" => status'[Callee] # "none" /\ entry'[Callee] = entry[Callee]
      /\ RunRow(Callee) \in refused' \/ (status'[Callee] # "none" /\ entry'[Callee] = want[Callee])
  <2>0. /\ status \in [Runs -> {"none", "running", "paused", "failed", "completed"}]
        /\ entry \in [Runs -> Workflows] /\ want \in [Runs -> Workflows]
    BY DEF Inv, TypeOK
  <2>1. CASE /\ status[Callee] = "none"
             /\ status' = [status EXCEPT ![Callee] = "running"]
             /\ entry' = [entry EXCEPT ![Callee] = want[Callee]]
    BY <1>3, <2>0, <2>1
  <2>2. CASE Refuse(RunRow(Callee)) /\ UNCHANGED <<status, entry>>
    <3>1. RunRow(Callee) \in refused'
      BY <2>2 DEF Refuse
    <3> QED BY <2>0, <2>2, <3>1
  <2>3. CASE status[Callee] # "none" /\ entry[Callee] = want[Callee] /\ UNCHANGED <<status, entry>>
    BY <2>0, <2>3
  <2> QED BY <1>1, <2>1, <2>2, <2>3 DEF Create, Again
<1>8. PICK c \in Runs \ {Root} : c = Callee
  BY <1>3
<1>9. /\ cur' = c /\ c # cur /\ idx' = [idx EXCEPT ![c] = 1]
      /\ idx' \in [Runs -> Nat] /\ \A r \in Runs : idx'[r] \in 1..(Steps[r] + 1)
      /\ \A r \in Runs : r # c => idx'[r] = idx[r]
      /\ idx'[c] = 1 /\ ParentSlot(c) = Here /\ Child[Here] = c
  BY <1>1, <1>2, <1>3, <1>4, <1>5, <1>8, StepsForm DEF Inv, TypeOK
<1>10. /\ status' \in [Runs -> {"none", "running", "paused", "failed", "completed"}]
       /\ entry' \in [Runs -> Workflows]
       /\ \A r \in Runs : r # c => status'[r] = status[r] /\ entry'[r] = entry[r]
       /\ status[c] # "none" => status'[c] # "none" /\ entry'[c] = entry[c]
       /\ RunRow(c) \in refused' \/ (status'[c] # "none" /\ entry'[c] = want[c])
       /\ Ancestors(c) = {c} \cup Ancestors(cur) /\ c \notin Ancestors(cur)
  BY <1>5, <1>7, <1>8
<1>11. TypeOK'
  BY <1>1, <1>6, <1>9, <1>10 DEF Inv, TypeOK
<1>12. RowsInv'
  <2> SUFFICES ASSUME NEW i \in RowId, rows[i].status # "none", ~ Lost(i[1][1])'
               PROVE  i[2] = entry'[i[1][1]] /\ status'[i[1][1]] # "none"
    BY <1>1 DEF RowsInv
  <2>1. ~ Lost(i[1][1])
    BY <1>6 DEF Lost
  <2> QED BY <1>10, <2>1, RowForm DEF Inv, RowsInv
<1>13. ChainInv'
  <2> SUFFICES ASSUME NEW r \in Runs \ {Root}, status'[r] # "none", ~ Lost(ParentSlot(r)[1])'
               PROVE  status'[ParentSlot(r)[1]] # "none"
    BY DEF ChainInv
  <2>1. ~ Lost(ParentSlot(r)[1]) /\ ParentSlot(r)[1] \in Runs
    BY <1>6, ParentForm DEF Lost
  <2>2. CASE r = c
    BY <1>2, <1>9, <1>10, <2>1, <2>2
  <2>3. CASE r # c
    BY <1>10, <2>1, <2>3 DEF Inv, ChainInv
  <2> QED BY <2>2, <2>3
<1>14. StackInv'
  <2>1. Ancestors(cur) \subseteq Runs
    BY <1>2, ClimbUp
  <2>2. ASSUME NEW q \in Ancestors(c)
        PROVE  /\ Lost(q)' \/ (status'[q] # "none" /\ entry'[q] = want[q])
               /\ q # Root => idx'[ParentSlot(q)[1]] = ParentSlot(q)[2]
    <3>1. CASE q = c
      <4>1. ParentSlot(c)[1] = cur /\ ParentSlot(c)[2] = idx[cur]
        BY <1>2, <1>9
      <4>2. idx'[cur] = idx[cur]
        BY <1>2, <1>9
      <4> QED BY <1>10, <3>1, <4>1, <4>2 DEF Lost
    <3>2. CASE q \in Ancestors(cur)
      <4>1. q \in Runs /\ q # c /\ (Lost(q) \/ (status[q] # "none" /\ entry[q] = want[q]))
            /\ (q # Root => idx[ParentSlot(q)[1]] = ParentSlot(q)[2])
        BY <1>2, <1>10, <2>1, <3>2 DEF Inv, StackInv, Running
      <4>2. q # Root => ParentSlot(q)[1] \in Ancestors(cur)
        BY <1>2, <3>2, ClimbUp DEF Climbs
      <4>3. q # Root => idx'[ParentSlot(q)[1]] = idx[ParentSlot(q)[1]]
        BY <1>9, <1>10, <2>1, <4>2
      <4> QED BY <1>6, <1>10, <4>1, <4>3 DEF Lost
    <3> QED BY <1>10, <3>1, <3>2
  <2>3. status'[Root] = status[Root] /\ entry'[Root] = entry[Root]
    BY <1>8, <1>10, TreeAssumption
  <2> QED BY <1>1, <1>2, <1>6, <1>9, <2>2, <2>3 DEF Inv, StackInv, Running, Lost
<1>15. PassedInv'
  <2> SUFFICES ASSUME NEW s \in Slot, s[2] < idx'[s[1]] PROVE Passed(s)'
    BY DEF PassedInv
  <2>1. s[1] \in Runs /\ s[2] \in Nat \ {0}
    BY SlotForm, StepsForm
  <2>2. s[1] # c
    BY <1>9, <2>1
  <2>3. idx'[s[1]] = idx[s[1]]
    BY <1>9, <2>1, <2>2
  <2>4. s # Here /\ Passed(s)
    BY <1>2, <2>1, <2>3 DEF Inv, PassedInv
  <2>5. Child[s] # c
    BY <1>8, <1>9, <2>4, ParentForm
  <2>6. Child[s] # NoRun => Child[s] \in Runs
    BY TreeAssumption
  <2> QED BY <1>1, <1>6, <1>9, <1>10, <2>4, <2>5, <2>6 DEF Passed, Skipped, Completed, Lost
<1>16. EndedInv' /\ PauseInv' /\ PauseIsLocated'
  BY <1>1, <1>2 DEF EndedInv, PauseInv, PauseIsLocated
<1>17. FreshInv'
  <2> SUFFICES ASSUME NEW i \in RowId, Clear(i[1][1])', rows[i].status = "completed"
               PROVE  (Rewound(i)' => rows[i].at = attempts) /\ ~ Changed(i)'
    BY <1>1, <1>2 DEF FreshInv
  <2>1. Clear(i[1][1])
    BY <1>6 DEF Clear
  <2> QED BY <1>1, <1>2, <2>1 DEF Inv, FreshInv, Running, Rewound, Changed
<1> QED BY <1>11, <1>12, <1>13, <1>14, <1>15, <1>16, <1>17 DEF Inv

LEMMA StepsEndInv == ASSUME Inv, StepsEnd PROVE Inv'
<1>1. /\ pc = "step" /\ (err # "none" \/ idx[cur] > Steps[cur])
      /\ pc' = IF err # "pause" /\ cur \in WithHandlers THEN "handlers" ELSE "return"
      /\ UNCHANGED <<status, entry, rows, src, edits, cur, idx, err, want, attempts, from, goal,
                     todo, crashes, torn, refused>>
  BY DEF StepsEnd, table, source, attempt, history
<1>2. pc' \in {"handlers", "return"}
  BY <1>1
<1>3. TypeOK'
  BY <1>1 DEF Inv, TypeOK
<1>4. RowsInv' /\ ChainInv'
  BY <1>1 DEF Inv, RowsInv, ChainInv, Lost
<1>5. PassedInv'
  BY <1>1 DEF Inv, PassedInv, Passed, Skipped, Completed, Lost
<1>6. StackInv'
  BY <1>1 DEF Inv, StackInv, Running, Lost
<1>7. EndedInv' /\ PauseIsLocated'
  BY <1>2 DEF EndedInv, PauseIsLocated
<1>8. PauseInv'
  BY <1>1 DEF Inv, PauseInv, Running, PausedAt, Lost
<1>9. FreshInv'
  BY <1>1 DEF Inv, FreshInv, Running, Rewound, Changed, Clear
<1> QED BY <1>3, <1>4, <1>5, <1>6, <1>7, <1>8, <1>9 DEF Inv

LEMMA HandlersInv == ASSUME Inv, Handlers PROVE Inv'
<1>1. /\ pc = "handlers" /\ err' \in {err, "fail"}
      /\ pc' = "return"
      /\ UNCHANGED <<status, entry, rows, src, edits, cur, idx, want, attempts, from, goal,
                     todo, crashes, torn, refused>>
  BY DEF Handlers, table, source, attempt, history
<1>2. TypeOK'
  BY <1>1 DEF Inv, TypeOK
<1>3. RowsInv' /\ ChainInv'
  BY <1>1 DEF Inv, RowsInv, ChainInv, Lost
<1>4. PassedInv'
  BY <1>1 DEF Inv, PassedInv, Passed, Skipped, Completed, Lost
<1>5. StackInv'
  BY <1>1 DEF Inv, StackInv, Running, Lost
<1>6. EndedInv' /\ PauseIsLocated'
  BY <1>1 DEF EndedInv, PauseIsLocated
<1>7. PauseInv'
  BY <1>1 DEF Inv, StackInv, PauseInv
<1>8. FreshInv'
  BY <1>1 DEF Inv, FreshInv, Running, Rewound, Changed, Clear
<1> QED BY <1>2, <1>3, <1>4, <1>5, <1>6, <1>7, <1>8 DEF Inv

LEMMA OutcomeForm ==
  ASSUME Inv
  PROVE  /\ Outcome \in {"running", "paused", "failed", "completed"}
         /\ Outcome = "completed" => err = "none"
         /\ Outcome = "paused" <=> err = "pause"
         /\ err = "none" => Outcome = "completed"
         /\ err = "fail" => Outcome = "failed"
BY DEF Outcome, Inv, TypeOK

LEMMA ReturnForm ==
  ASSUME Inv, Return
  PROVE  /\ status' \in [Runs -> {"none", "running", "paused", "failed", "completed"}]
         /\ \A q \in Runs : status'[q] = "none" <=> status[q] = "none"
         /\ \A q \in Runs : q # cur => status'[q] = status[q]
         /\ status'[cur] = Outcome \/ status[cur] = "none" \/ RunRow(cur) \in refused'
         /\ refused' \subseteq Cells /\ refused \subseteq refused' /\ cur \in Runs
<1>1. cur \in Runs /\ TypeOK /\ SaveRun(cur, Outcome)
  BY DEF Inv, TypeOK, Return
<1>2. PICK c \in Runs : c = cur
  BY <1>1
<1>3. PICK st \in {"running", "paused", "failed", "completed"} : st = Outcome
  BY OutcomeForm
<1>4. SaveRun(c, st)
  BY <1>1, <1>2, <1>3
<1>5. /\ status' \in [Runs -> {"none", "running", "paused", "failed", "completed"}]
      /\ \A q \in Runs : status'[q] = "none" <=> status[q] = "none"
      /\ \A q \in Runs : q # c => status'[q] = status[q]
      /\ status'[c] = st \/ status[c] = "none" \/ RunRow(c) \in refused'
      /\ refused' \subseteq Cells /\ refused \subseteq refused'
  BY <1>1, <1>4, SaveRunForm
<1> QED BY <1>1, <1>2, <1>3, <1>5

\* The run returns, and its process ends
LEMMA RootReturnInv == ASSUME Inv, Return, cur = Root PROVE Inv'
<1>1. /\ pc = "return" /\ pc' = "down"
      /\ UNCHANGED <<cur, idx, err, entry, rows, src, edits, want, attempts, from, goal, todo,
                     crashes, torn>>
  BY DEF Return, source, attempt
<1>2. Root \in Runs /\ status[Root] # "none"
  BY <1>1, TreeAssumption DEF Inv, StackInv
<1>3. /\ status' \in [Runs -> {"none", "running", "paused", "failed", "completed"}]
      /\ \A q \in Runs : status'[q] = "none" <=> status[q] = "none"
      /\ \A r \in Runs : r # Root => status'[r] = status[r]
      /\ status'[Root] = Outcome \/ RunRow(Root) \in refused'
      /\ refused' \subseteq Cells /\ refused \subseteq refused'
  BY <1>2, ReturnForm
<1>4. TypeOK'
  BY <1>1, <1>3 DEF Inv, TypeOK
<1>5. RowsInv'
  BY <1>1, <1>3, RowForm DEF Inv, RowsInv, Lost
<1>6. ChainInv'
  BY <1>3, ParentForm DEF Inv, ChainInv, Lost
<1>7. StackInv'
  BY <1>1, <1>2, <1>3 DEF Inv, StackInv, Running
<1>8. PassedInv'
  <2>1. \A s \in Slot : Child[s] # NoRun => Child[s] \in Runs /\ Child[s] # Root
    BY TreeAssumption
  <2> QED BY <1>1, <1>3, <2>1 DEF Inv, PassedInv, Passed, Skipped, Completed, Lost
<1>9. EndedInv'
  BY <1>1, <1>3, OutcomeForm DEF Inv, StackInv, EndedInv, Lost
<1>10. PauseInv' /\ FreshInv'
  BY <1>1 DEF PauseInv, FreshInv, Running
<1>11. PauseIsLocated'
  <2> SUFFICES ASSUME status'[Root] = "paused"
               PROVE  \E r \in Runs : /\ \A q \in Ancestors(r) : status'[q] = "paused" \/ Lost(q)'
                                      /\ PausedAt(r)'
    BY DEF PauseIsLocated, PausedAt, Lost
  <2>1. CASE RunRow(Root) \in refused'
    <3>1. Ancestors(Root) = {Root}
      BY AncestorsOfRoot
    <3> QED BY <1>2, <2>1, <3>1 DEF PausedAt, Lost
  <2>2. CASE RunRow(Root) \notin refused'
    <3>0. err = "pause"
      BY <1>3, <2>2, OutcomeForm
    <3>1. PICK r \in Runs : /\ PausedAt(r)
                            /\ \A q \in Ancestors(r) \ Ancestors(cur) :
                                  status[q] = "paused" \/ Lost(q)
      BY <1>1, <3>0 DEF Inv, PauseInv, Running
    <3>2. Ancestors(cur) = {Root} /\ Ancestors(r) \subseteq Runs
      BY AncestorsOfRoot, ClimbUp
    <3>3. \A q \in Ancestors(r) : status'[q] = "paused" \/ Lost(q)'
      BY <1>3, <3>1, <3>2 DEF Lost
    <3>4. PausedAt(r)'
      BY <1>1, <1>3, <3>1 DEF PausedAt, Lost
    <3> QED BY <3>3, <3>4
  <2> QED BY <2>1, <2>2
<1> QED BY <1>4, <1>5, <1>6, <1>7, <1>8, <1>9, <1>10, <1>11 DEF Inv

\* A sub-run returns to its caller
LEMMA SubReturnInv == ASSUME Inv, Return, cur # Root PROVE Inv'
<1> DEFINE p == ParentSlot(cur)[1]
<1>1. /\ pc = "return" /\ pc' = "step"
      /\ cur' = p
      /\ \/ Propagates(cur) /\ UNCHANGED <<err, idx>>
         \/ /\ ~ Propagates(cur) /\ err' = "none"
            /\ idx' = [idx EXCEPT ![p] = idx[p] + 1]
      /\ UNCHANGED <<entry, rows, src, edits, want, attempts, from, goal, todo, crashes, torn>>
  BY DEF Return, source, attempt
<1>2. cur \in Runs /\ cur \in Ancestors(cur)
  BY ClimbUp DEF Inv, TypeOK
<1>3. /\ p \in Runs /\ ParentSlot(cur) \in Slot /\ Child[ParentSlot(cur)] = cur
      /\ ParentSlot(cur)[2] \in 1..Steps[p]
      /\ \A s \in Slot : Child[s] = cur => s = ParentSlot(cur)
  BY <1>2, ParentForm
<1>4. Ancestors(cur) = {cur} \cup Ancestors(p) /\ cur \notin Ancestors(p) /\ p \in Ancestors(p)
  BY <1>2, <1>3, AncestorsOfChild, NotUnderItself, ClimbUp
<1>5. idx[p] = ParentSlot(cur)[2] /\ idx[p] \in 1..Steps[p] /\ p # cur
  BY <1>1, <1>2, <1>3, <1>4 DEF Inv, StackInv, Running
<1>6. /\ status' \in [Runs -> {"none", "running", "paused", "failed", "completed"}]
      /\ \A q \in Runs : status'[q] = "none" <=> status[q] = "none"
      /\ \A q \in Runs : q # cur => status'[q] = status[q]
      /\ status'[cur] = Outcome \/ RunRow(cur) \in refused'
      /\ refused' \subseteq Cells /\ refused \subseteq refused'
      /\ RunRow(cur) \in refused' \/ entry[cur] = want[cur]
  <2>1. Lost(cur) \/ (status[cur] # "none" /\ entry[cur] = want[cur])
    BY <1>1, <1>2 DEF Inv, StackInv, Running
  <2> QED BY <2>1, ReturnForm DEF Lost
<1>7. /\ idx' \in [Runs -> Nat] /\ \A r \in Runs : idx'[r] \in 1..(Steps[r] + 1)
      /\ \A r \in Runs : r # p => idx'[r] = idx[r]
      /\ idx'[p] = IF Propagates(cur) THEN idx[p] ELSE idx[p] + 1
  BY <1>1, <1>3, <1>5, StepsForm DEF Inv, TypeOK
<1> HIDE DEF p
<1>8. TypeOK'
  BY <1>1, <1>3, <1>6, <1>7 DEF Inv, TypeOK
<1>9. RowsInv'
  BY <1>1, <1>6, RowForm DEF Inv, RowsInv, Lost
<1>10. ChainInv'
  BY <1>6, ParentForm DEF Inv, ChainInv, Lost
<1>11. StackInv'
  <2>1. Ancestors(p) \subseteq Runs
    BY <1>3, ClimbUp
  <2>2. ASSUME NEW q \in Ancestors(p)
        PROVE  /\ Lost(q)' \/ (status'[q] # "none" /\ entry[q] = want[q])
               /\ q # Root => idx'[ParentSlot(q)[1]] = ParentSlot(q)[2]
    <3>1. /\ q \in Runs /\ q # cur
          /\ Lost(q) \/ (status[q] # "none" /\ entry[q] = want[q])
          /\ (q # Root => idx[ParentSlot(q)[1]] = ParentSlot(q)[2])
      BY <1>1, <1>4, <2>1 DEF Inv, StackInv, Running
    <3>2. q # Root => ParentSlot(q)[1] \in Runs /\ ParentSlot(q)[1] # p
      BY <2>1, <2>2, <3>1, NotUnderItself, ParentForm
    <3> QED BY <1>6, <1>7, <3>1, <3>2 DEF Lost
  <2>3. status'[Root] = status[Root]
    BY <1>6, TreeAssumption
  <2> QED BY <1>1, <1>6, <2>2, <2>3 DEF Inv, StackInv, Running, Lost
<1>12. PassedInv'
  <2> SUFFICES ASSUME NEW s \in Slot, s[2] < idx'[s[1]] PROVE Passed(s)'
    BY DEF PassedInv
  <2>1. s[1] \in Runs /\ s[2] \in Nat \ {0} /\ s = <<s[1], s[2]>>
    BY SlotForm, StepsForm
  <2>2. CASE s = ParentSlot(cur)
    <3>1. Child[s] = cur /\ cur # NoRun /\ ~ Propagates(cur)
      BY <1>2, <1>3, <1>5, <1>7, <2>1, <2>2, TreeAssumption DEF p
    <3>2. \/ err = "none" /\ Outcome = "completed" /\ idx[cur] > Steps[cur]
          \/ err = "fail" /\ Outcome = "failed" /\ cur \in Ignoring
      BY <1>1, <3>1, OutcomeForm DEF Propagates, Inv, TypeOK, StackInv
    <3>3. PICK c \in Runs : c = cur
      BY <1>2
    <3>4. CASE RunRow(c) \in refused'
      BY <3>1, <3>3, <3>4 DEF Passed, Lost
    <3>5. CASE RunRow(c) \notin refused'
      <4>1. entry'[c] = want'[c] /\ status'[c] = Outcome /\ idx'[c] = idx[c]
        BY <1>1, <1>2, <1>5, <1>6, <1>7, <3>3, <3>5
      <4> QED BY <3>1, <3>2, <3>3, <4>1 DEF Passed
    <3> QED BY <3>4, <3>5
  <2>3. CASE s # ParentSlot(cur)
    <3>1. s[2] < idx[s[1]]
      <4>1. CASE s[1] # p
        BY <1>7, <2>1, <4>1
      <4>2. CASE s[1] = p
        <5>1. s[2] # ParentSlot(cur)[2]
          BY <1>3, <2>1, <2>3, <4>2, SlotForm DEF p
        <5> QED BY <1>5, <1>7, <2>1, <4>2, <5>1, StepsForm
      <4> QED BY <4>1, <4>2
    <3>2. Child[s] # cur /\ Passed(s)
      BY <1>3, <2>3, <3>1 DEF Inv, PassedInv
    <3>3. CASE Child[s] = NoRun
      BY <1>1, <1>6, <3>2, <3>3 DEF Passed, Skipped, Completed
    <3>4. CASE Child[s] # NoRun
      <4>1. Child[s] \in Runs
        BY <3>4, TreeAssumption
      <4>2. idx[Child[s]] > Steps[Child[s]] => idx'[Child[s]] > Steps[Child[s]]
        BY <1>5, <1>7, <4>1, StepsForm DEF Inv, TypeOK
      <4> QED BY <1>1, <1>6, <3>2, <3>4, <4>1, <4>2 DEF Passed, Skipped, Completed, Lost
    <3> QED BY <3>3, <3>4
  <2> QED BY <2>2, <2>3
<1>13. EndedInv' /\ PauseIsLocated'
  BY <1>1 DEF EndedInv, PauseIsLocated
<1>14. PauseInv'
  <2> SUFFICES ASSUME err' = "pause"
               PROVE  \E r \in Runs : /\ p \in Ancestors(r) /\ PausedAt(r)'
                                      /\ \A q \in Ancestors(r) \ Ancestors(p) :
                                            status'[q] = "paused" \/ Lost(q)'
    BY <1>1 DEF PauseInv
  <2>1. err = "pause"
    BY <1>1
  <2>2. PICK r \in Runs : /\ cur \in Ancestors(r) /\ PausedAt(r)
                          /\ \A q \in Ancestors(r) \ Ancestors(cur) :
                                status[q] = "paused" \/ Lost(q)
    BY <1>1, <2>1 DEF Inv, PauseInv, Running
  <2>3. Ancestors(r) \subseteq Runs /\ p \in Ancestors(r)
    BY <1>4, <2>2, ClimbUp, AncestorsNest
  <2>4. \A q \in Ancestors(r) \ Ancestors(p) : status'[q] = "paused" \/ Lost(q)'
    BY <1>4, <1>6, <2>1, <2>2, <2>3, OutcomeForm DEF Lost
  <2>5. PausedAt(r)'
    BY <1>1, <1>6, <2>2 DEF PausedAt, Lost
  <2> QED BY <2>3, <2>4, <2>5
<1>15. FreshInv'
  <2>1. \A r \in Runs : Clear(r)' => Clear(r)
    BY <1>6 DEF Clear
  <2>2. \A i \in RowId : i[1][1] \in Runs
    BY RowForm
  <2>3. ASSUME NEW i \in RowId, Clear(i[1][1])', rows'[i].status = "completed"
        PROVE  (Rewound(i)' => rows'[i].at = attempts') /\ ~ Changed(i)'
    <3>1. Clear(i[1][1])
      BY <2>1, <2>2, <2>3
    <3> QED BY <1>1, <2>3, <3>1 DEF Inv, FreshInv, Running, Rewound, Changed
  <2> QED BY <1>1, <2>3 DEF FreshInv
<1> QED BY <1>8, <1>9, <1>10, <1>11, <1>12, <1>13, <1>14, <1>15 DEF Inv

LEMMA CrashInv == ASSUME Inv, Crash PROVE Inv'
<1>1. /\ pc # "down" /\ crashes < MaxCrashes /\ crashes' = crashes + 1 /\ pc' = "down"
      /\ torn' = (torn \/ pc = "rewind")
      /\ cur' = Root /\ idx' = [r \in Runs |-> 1] /\ err' = "none" /\ todo' = {}
      /\ UNCHANGED <<status, entry, rows, src, edits, want, attempts, from, goal, refused>>
  BY DEF Crash, table, source, attempt
<1>2. Root \in Runs /\ \A r \in Runs : idx'[r] = 1 /\ Steps[r] \in Nat \ {0}
  BY <1>1, TreeAssumption
<1>3. TypeOK'
  BY <1>1, <1>2, TreeAssumption DEF Inv, TypeOK
<1>4. RowsInv' /\ ChainInv'
  BY <1>1 DEF Inv, RowsInv, ChainInv, Lost
<1>5. PassedInv'
  BY <1>2, SlotForm DEF PassedInv
<1>6. StackInv' /\ PauseInv' /\ FreshInv'
  BY <1>1 DEF Inv, StackInv, PauseInv, FreshInv, Running
<1>7. torn' \/ status[Root] = "running" \/ Lost(Root)
  BY <1>1 DEF Inv, TypeOK, StackInv, Running
<1>8. EndedInv'
  BY <1>1, <1>7 DEF EndedInv, Lost
<1>9. PauseIsLocated'
  <2> SUFFICES ASSUME Lost(Root) PROVE PauseIsLocated'
    BY <1>1, <1>7 DEF PauseIsLocated
  <2>1. Ancestors(Root) = {Root}
    BY AncestorsOfRoot
  <2> QED BY <1>1, <1>2, <2>1 DEF PauseIsLocated, Lost
<1> QED BY <1>3, <1>4, <1>5, <1>6, <1>8, <1>9 DEF Inv

LEMMA EditInv == ASSUME Inv, Edit PROVE Inv'
<1>1. /\ pc = "down" /\ edits < MaxEdits /\ edits' = edits + 1
      /\ \E s \in Plain : src' = [src EXCEPT ![s] = edits + 1]
      /\ UNCHANGED <<status, entry, rows, pc, cur, idx, err, want, attempts, from, goal,
                     todo, crashes, torn, refused>>
  BY DEF Edit, table, attempt, history
<1>2. edits' \in 0..MaxEdits /\ src' \in [Slot -> 0..MaxEdits]
  BY <1>1, TreeAssumption DEF Inv, TypeOK, Plain
<1>3. TypeOK'
  BY <1>1, <1>2 DEF Inv, TypeOK
<1>4. RowsInv' /\ ChainInv'
  BY <1>1 DEF Inv, RowsInv, ChainInv, Lost
<1>5. PassedInv'
  BY <1>1 DEF Inv, PassedInv, Passed, Skipped, Completed, Lost
<1>6. StackInv' /\ PauseInv' /\ FreshInv' /\ EndedInv'
  BY <1>1 DEF Inv, StackInv, PauseInv, FreshInv, EndedInv, Running, Lost
<1>7. PauseIsLocated'
  BY <1>1 DEF Inv, PauseIsLocated
<1> QED BY <1>3, <1>4, <1>5, <1>6, <1>7 DEF Inv

-----------------------------------------------------------------------------
LEMMA StepInv == Inv /\ [Next]_vars => Inv'
<1> SUFFICES ASSUME Inv, [Next]_vars PROVE Inv'
  OBVIOUS
<1>1. CASE UNCHANGED vars
  <2>1. UNCHANGED <<status, entry, rows, src, edits, pc, cur, idx, err, want, attempts, from,
                    goal, todo, crashes, torn, refused>>
    BY <1>1 DEF vars
  <2>2. TypeOK' /\ RowsInv' /\ ChainInv'
    BY <2>1 DEF Inv, TypeOK, RowsInv, ChainInv, Lost
  <2>3. PassedInv' /\ StackInv'
    BY <2>1 DEF Inv, PassedInv, Passed, Skipped, Completed, StackInv, Running, Lost
  <2>4. EndedInv' /\ PauseIsLocated'
    BY <2>1 DEF Inv, EndedInv, PauseIsLocated, Lost
  <2>5. PauseInv'
    BY <2>1 DEF Inv, PauseInv, PausedAt, Running, Lost
  <2>6. FreshInv'
    BY <2>1 DEF Inv, FreshInv, Running, Rewound, Changed, Clear
  <2> QED BY <2>2, <2>3, <2>4, <2>5, <2>6 DEF Inv
<1>2. CASE Engine
  BY <1>2, ClearRunInv, RestoreInv, SkipCompletedInv, StepEndsInv, CallFailsInv, CallInv,
     StepsEndInv, HandlersInv, RootReturnInv, SubReturnInv DEF Engine
<1> QED BY <1>1, <1>2, RunInv, ResumeInv, CrashInv, EditInv DEF Next

LEMMA Invariance == Spec => []Inv
BY InitInv, StepInv, PTL DEF Spec

\* Over any number of resumes, rewinds, edits, crashes and rows that the store fails to
\* read or write, and whatever the templates resolve to: the tables are well-formed, the
\* rows of a run are of one workflow, and a paused run leads down to the step that
\* paused, each unless the row that would say so was lost
THEOREM TreeIsSound == Spec => []TreeInv
<1>1. Inv => TreeInv
  <2> SUFFICES ASSUME Inv PROVE OneWorkflowPerRun
    BY DEF Inv, TreeInv
  <2> QED BY DEF Inv, RowsInv, OneWorkflowPerRun, Lost
<1> QED BY <1>1, Invariance, PTL

\* A completed run is complete to the leaves of its tree, as far as the rows that were
\* not lost lead: each step shows its result, its false condition or its finished sub-run
THEOREM CompletedIsComplete == Spec => []CompletedToTheLeaves
<1>1. Inv => CompletedToTheLeaves
  <2> SUFFICES ASSUME Inv, pc = "down", status[Root] = "completed", ~ torn
               PROVE  \A r \in Runs : Reached(r) => \A s \in Slot : s[1] = r => StepDone(s)
    BY DEF CompletedToTheLeaves
  <2> DEFINE Ended(r) == idx[r] > Steps[r] /\ entry[r] = want[r]
             P == {r \in Runs : Reached(r) => Ended(r)}
  <2>1. Root \in P
    <3>1. Root \in Ancestors(Root) /\ Root \in Runs
      BY TreeAssumption
    <3> QED BY <3>1 DEF Inv, EndedInv, StackInv, Reached, Lost
  <2>2. ASSUME NEW x \in Runs \ {Root}, ParentSlot(x)[1] \in P PROVE x \in P
    <3> SUFFICES ASSUME Reached(x) PROVE Ended(x)
      OBVIOUS
    <3> DEFINE p == ParentSlot(x)[1]
    <3>1. /\ p \in Runs /\ ParentSlot(x) \in Slot /\ Child[ParentSlot(x)] = x
          /\ ParentSlot(x)[2] \in 1..Steps[p]
      BY ParentForm
    <3>2. Ancestors(x) = {x} \cup Ancestors(p)
      BY AncestorsOfChild
    <3>3. Ended(p)
      BY <2>2, <3>2 DEF Reached
    <3>4. ParentSlot(x)[2] < idx[p] /\ x # NoRun
      BY <3>1, <3>3, StepsForm, TreeAssumption DEF Inv, TypeOK
    <3>5. Passed(ParentSlot(x))
      BY <3>1, <3>4 DEF Inv, PassedInv
    <3>6. /\ status[x] = "completed" /\ ~ Lost(x) /\ ParentSlot(x) \notin refused
          /\ ~ Skipped(<<ParentSlot(x), want[p]>>)
      BY <3>2, <3>3 DEF Reached, Lost
    <3> QED BY <3>1, <3>4, <3>5, <3>6 DEF Passed
  <2>3. P = Runs
    <3> HIDE DEF P
    <3>1. P \in SUBSET Runs
      BY DEF P
    <3> QED BY <2>1, <2>2, <3>1, DownTheTree
  <2>4. ASSUME NEW r \in Runs, Ended(r), NEW s \in Slot, s[1] = r PROVE StepDone(s)
    <3>1. s[2] < idx[s[1]]
      BY <2>4, SlotForm, StepsForm DEF Inv, TypeOK
    <3>2. Passed(s)
      BY <3>1 DEF Inv, PassedInv
    <3> QED BY <2>4, <3>2 DEF Passed, StepDone, Plain, Lost
  <2> QED BY <2>3, <2>4
<1> QED BY <1>1, Invariance, PTL

\* When a rewound attempt succeeds, every result under the rewound steps is of this
\* attempt, at any depth, and after --rewind-changed every result is of the present
\* definition of its step, in every run that no lost row hides
THEOREM RewindIsComplete == Spec => []RewoundIsFresh
<1>1. Inv => RewoundIsFresh
  BY DEF Inv, FreshInv, Running, Rewound, Changed, Completed, Fresh, RewoundIsFresh
<1> QED BY <1>1, Invariance, PTL

=============================================================================

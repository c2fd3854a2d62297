------------------------- MODULE WorkflowSourceProofs -------------------------
(***************************************************************************)
(* Proofs about WorkflowSource, for any trees, any edits at any moment and *)
(* any number of attempts.                                                 *)
(***************************************************************************)
EXTENDS WorkflowSource, TLAPS

(* The parser and the fingerprint have read so many files of their order.  *)
ReadFiles(n) == {ReadOrder[i] : i \in 1..(n - 1)}
HashedFiles(n) == {HashOrder[i] : i \in 1..(n - 1)}

Form ==
    /\ tree = [f \in File |-> tree[f]]
    /\ at \in {"read", "hash", "check", "refused", "execute", "executed"}
    /\ mode \in {"warn", "strict", "off"}
    /\ attempt \in Nat \ {0}
    /\ next \in Nat \ {0}
    /\ quiet \in [first : BOOLEAN, now : BOOLEAN]
    /\ read = [f \in DOMAIN read |-> read[f]]
    /\ hashed = [f \in DOMAIN hashed |-> hashed[f]]

(* Where the loops are, and what they have read; the first attempt hashes  *)
(* in every mode, a resume unless it is off.                               *)
Digesting == attempt = 1 \/ mode # "off"

Progress ==
    /\ at = "read" => /\ next <= Len(ReadOrder) + 1
                      /\ DOMAIN read = ReadFiles(next)
                      /\ DOMAIN hashed = {}
    /\ at # "read" => DOMAIN read = {}
    /\ at = "hash" => next <= Len(HashOrder) + 1 /\ DOMAIN hashed = HashedFiles(next)
    /\ at \in {"check", "execute", "executed"} /\ Digesting => DOMAIN hashed = File
    /\ at # "read" /\ at # "hash" => next = 1

(* What was read while nobody edited is what the tree holds. *)
Fresh ==
    quiet.now =>
        /\ at = "read" => \A f \in DOMAIN read : read[f] = tree[f]
        /\ at = "hash" => \A f \in DOMAIN hashed : hashed[f] = tree[f]
        /\ at = "hash" => wf = Parsed(tree)
        /\ at \in {"check", "execute", "executed"} /\ Digesting =>
              hashed = looked /\ wf = Parsed(looked)

(* The row of the run keeps what the first attempt began with. *)
Recorded ==
    /\ attempt = 1 => quiet.first = quiet.now
    /\ attempt = 1 /\ at \in {"read", "hash", "check"} => run = NoRun
    /\ attempt > 1 \/ at \in {"execute", "executed"} => run # NoRun
    /\ run # NoRun /\ quiet.first =>
          run.digest = began.looked /\ began.wf = Parsed(began.looked)
    /\ run # NoRun => began = [wf |-> began.wf, looked |-> began.looked]

(* Strict mode lets an attempt through only with the recorded digest. *)
Checked ==
    at \in {"execute", "executed"} /\ attempt > 1 /\ mode = "strict" =>
        hashed = run.digest

(* What goes on has been validated. *)
Validated == at \in {"hash", "check", "execute", "executed"} => validate(wf)

Inv == Form /\ Progress /\ Fresh /\ Recorded /\ Checked /\ Validated

-----------------------------------------------------------------------------
(* Maps laid over one another, and the two orders. *)

LEMMA OverForm ==
    ASSUME NEW f, NEW g
    PROVE  /\ DOMAIN Over(g, f) = DOMAIN f \cup DOMAIN g
           /\ Over(g, f) = [k \in DOMAIN Over(g, f) |-> Over(g, f)[k]]
           /\ \A k \in DOMAIN g : Over(g, f)[k] = g[k]
           /\ \A k \in DOMAIN f \ DOMAIN g : Over(g, f)[k] = f[k]
BY DEF Over

LEMMA Orders ==
    /\ Len(ReadOrder) = 9 /\ Len(HashOrder) = 10
    /\ \A i \in 1..9 : ReadOrder[i] \in File
    /\ \A i \in 1..10 : HashOrder[i] \in File
    /\ File = HashedFiles(11)
<1>1. Len(ReadOrder) = 9
  BY DEF ReadOrder
<1>2. Len(HashOrder) = 10 /\ DOMAIN HashOrder = 1..10
  BY DEF HashOrder
<1>3. File = {HashOrder[i] : i \in 1..10}
  BY <1>2 DEF File, ToSet
<1>4. \A i \in 1..10 : HashOrder[i] \in File
  BY <1>3
<1>5. /\ HashOrder[1] = "gate/rules.yaml" /\ HashOrder[2] = "meta.yaml"
      /\ HashOrder[3] = "rules.yaml" /\ HashOrder[5] = "step_types.yaml"
      /\ HashOrder[6] = "step_types/x.yaml" /\ HashOrder[7] = "vars.yaml"
      /\ HashOrder[8] = "vars/x.yaml" /\ HashOrder[9] = "workflows/a.yaml"
      /\ HashOrder[10] = "workflows/b.yaml"
  BY DEF HashOrder
<1>6. {"gate/rules.yaml", "meta.yaml", "rules.yaml", "step_types.yaml",
       "step_types/x.yaml", "vars.yaml", "vars/x.yaml", "workflows/a.yaml",
       "workflows/b.yaml"} \subseteq File
  BY <1>4, <1>5
<1>7. \A i \in 1..9 : ReadOrder[i] \in
        {"gate/rules.yaml", "meta.yaml", "rules.yaml", "step_types.yaml",
         "step_types/x.yaml", "vars.yaml", "vars/x.yaml", "workflows/a.yaml",
         "workflows/b.yaml"}
  BY DEF ReadOrder
<1> QED BY <1>1, <1>2, <1>3, <1>4, <1>6, <1>7 DEF HashedFiles

(* Reading one more file of an order. *)
LEMMA OneMore ==
    ASSUME NEW n \in Nat \ {0}
    PROVE  /\ ReadFiles(n + 1) = ReadFiles(n) \cup {ReadOrder[n]}
           /\ HashedFiles(n + 1) = HashedFiles(n) \cup {HashOrder[n]}
           /\ ReadFiles(1) = {} /\ HashedFiles(1) = {}
<1>1. 1..(n + 1 - 1) = (1..(n - 1)) \cup {n}
  OBVIOUS
<1>2. 1..(1 - 1) = {}
  OBVIOUS
<1> QED BY <1>1, <1>2 DEF ReadFiles, HashedFiles

(* What ParseDir puts together is determined by the files it has read. *)
LEMMA ParsedSame ==
    ASSUME NEW r, NEW t, \A f \in ReadFiles(10) : r[f] = t[f]
    PROVE  Parsed(r) = Parsed(t)
<1>1. /\ ReadOrder[1] = "meta.yaml" /\ ReadOrder[4] = "rules.yaml"
      /\ ReadOrder[5] = "step_types.yaml" /\ ReadOrder[6] = "step_types/x.yaml"
      /\ ReadOrder[7] = "workflows/a.yaml" /\ ReadOrder[8] = "workflows/b.yaml"
      /\ ReadOrder[9] = "gate/rules.yaml"
  BY DEF ReadOrder
<1>2. \A i \in 1..9 : ReadOrder[i] \in ReadFiles(10)
  BY DEF ReadFiles
<1>3. /\ r["meta.yaml"] = t["meta.yaml"] /\ r["rules.yaml"] = t["rules.yaml"]
      /\ r["step_types.yaml"] = t["step_types.yaml"]
      /\ r["step_types/x.yaml"] = t["step_types/x.yaml"]
      /\ r["workflows/a.yaml"] = t["workflows/a.yaml"]
      /\ r["workflows/b.yaml"] = t["workflows/b.yaml"]
      /\ r["gate/rules.yaml"] = t["gate/rules.yaml"]
  BY <1>1, <1>2
<1>4. Rules(r) = Rules(t)
  BY <1>3 DEF Rules
<1> QED BY <1>3, <1>4 DEF Parsed

-----------------------------------------------------------------------------

LEMMA InitInv == Init => Inv
<1> SUFFICES ASSUME Init PROVE Inv
  OBVIOUS
<1>1. tree = [f \in File |-> tree[f]]
  BY SourceAssumption DEF Init
<1>2. quiet \in [first : BOOLEAN, now : BOOLEAN] /\ quiet.first = quiet.now
  BY DEF Init
<1>3. DOMAIN read = {} /\ DOMAIN hashed = {}
  BY DEF Init
<1>4. read = [f \in DOMAIN read |-> read[f]] /\ hashed = [f \in DOMAIN hashed |-> hashed[f]]
  BY DEF Init
<1>5. Form
  BY <1>1, <1>2, <1>4 DEF Init, Form
<1>6. Progress
  <2>1. DOMAIN read = ReadFiles(1)
    BY <1>3, OneMore
  <2> QED BY <1>3, <2>1, Orders DEF Init, Progress
<1>7. Fresh
  BY <1>3 DEF Init, Fresh
<1>8. Recorded
  BY <1>2 DEF Init, Recorded
<1>9. Checked /\ Validated
  BY DEF Init, Checked, Validated
<1> QED BY <1>5, <1>6, <1>7, <1>8, <1>9 DEF Inv

LEMMA EditInv ==
    ASSUME Inv, NEW f \in File, NEW c, Edit(f, c)
    PROVE  Inv'
<1> USE DEF Inv
<1>1. /\ tree' = [tree EXCEPT ![f] = c]
      /\ quiet' = [first |-> quiet.first /\ ~ (Looking /\ attempt = 1),
                   now |-> quiet.now /\ ~ Looking]
      /\ UNCHANGED <<at, next, read, hashed, wf, mode, run, looked, began, attempt, found>>
  BY DEF Edit
<1>2. tree' = [g \in File |-> tree'[g]]
  BY <1>1 DEF Form
<1>3. /\ quiet'.now => quiet.now /\ at \notin {"read", "hash"}
      /\ quiet'.first => quiet.first
      /\ (attempt = 1 /\ quiet.first = quiet.now) => quiet'.first = quiet'.now
      /\ quiet' \in [first : BOOLEAN, now : BOOLEAN]
  BY <1>1 DEF Form, Looking
<1>4. Form'
  BY <1>1, <1>2, <1>3 DEF Form
<1>5. Progress' /\ Checked' /\ Validated'
  BY <1>1 DEF Progress, Digesting, Checked, Validated
<1>6. Fresh'
  BY <1>1, <1>3 DEF Fresh, Digesting
<1>7. Recorded'
  BY <1>1, <1>3 DEF Recorded
<1> QED BY <1>4, <1>5, <1>6, <1>7

LEMMA ReadFileInv == ASSUME Inv, ReadFile PROVE Inv'
<1> USE DEF Inv
<1> DEFINE g == [f \in {ReadOrder[next]} |-> tree[f]]
<1>1. /\ at = "read" /\ next <= 9 /\ next' = next + 1
      /\ read' = Over(g, read)
      /\ UNCHANGED <<tree, edits, at, hashed, wf, mode, run, looked, began, attempt,
                     quiet, found>>
  BY Orders DEF ReadFile
<1>2. DOMAIN g = {ReadOrder[next]} /\ g[ReadOrder[next]] = tree[ReadOrder[next]]
  OBVIOUS
<1> HIDE DEF g
<1>3. /\ DOMAIN read' = DOMAIN read \cup {ReadOrder[next]}
      /\ read' = [f \in DOMAIN read' |-> read'[f]]
      /\ read'[ReadOrder[next]] = tree[ReadOrder[next]]
      /\ \A f \in DOMAIN read \ {ReadOrder[next]} : read'[f] = read[f]
  <2>1. /\ DOMAIN Over(g, read) = DOMAIN read \cup DOMAIN g
        /\ Over(g, read) = [k \in DOMAIN Over(g, read) |-> Over(g, read)[k]]
        /\ \A k \in DOMAIN g : Over(g, read)[k] = g[k]
        /\ \A k \in DOMAIN read \ DOMAIN g : Over(g, read)[k] = read[k]
    BY OverForm
  <2>2. PICK r : r = Over(g, read)
    OBVIOUS
  <2>3. read' = r
    BY <1>1, <2>2
  <2> QED BY <1>2, <2>1, <2>2, <2>3
<1>4. Form'
  BY <1>1, <1>3 DEF Form
<1>5. Progress'
  <2>1. DOMAIN read' = ReadFiles(next')
    BY <1>1, <1>3, OneMore DEF Progress, Form
  <2> QED BY <1>1, <2>1, Orders DEF Progress, Form
<1>6. Fresh'
  BY <1>1, <1>3 DEF Fresh
<1>7. Recorded' /\ Checked' /\ Validated'
  BY <1>1 DEF Recorded, Checked, Validated
<1> QED BY <1>4, <1>5, <1>6, <1>7

LEMMA ParseDirInv == ASSUME Inv, ParseDir PROVE Inv'
<1> USE DEF Inv
<1>1. /\ at = "read" /\ next = 10 /\ next' = 1 /\ read' = <<>>
      /\ DOMAIN read = ReadFiles(10) /\ DOMAIN hashed = {}
      /\ UNCHANGED <<tree, edits, hashed, mode, run, looked, began, attempt, quiet, found>>
  BY Orders DEF ParseDir, Progress, Form
<1>2. DOMAIN read' = {} /\ read' = [f \in DOMAIN read' |-> read'[f]]
  BY <1>1
<1>3. CASE Accepted
  <2>1. /\ wf' = Parsed(read) /\ validate(Parsed(read))
        /\ at' = IF attempt > 1 /\ mode = "off" THEN "check" ELSE "hash"
    BY <1>3 DEF ParseDir, Accepted
  <2>2. quiet.now => wf' = Parsed(tree)
    BY <1>1, <2>1, ParsedSame DEF Fresh
  <2>3. at' \in {"check", "hash"} /\ (at' = "check" => attempt > 1 /\ mode = "off")
    BY <2>1
  <2>4. Form'
    BY <1>1, <1>2, <2>3 DEF Form
  <2>5. Progress'
    BY <1>1, <1>2, <2>3, OneMore, Orders DEF Progress, Digesting, Form
  <2>6. Fresh'
    <3>1. quiet' = quiet /\ tree' = tree /\ hashed' = hashed
      BY <1>1
    <3>2. Parsed(tree)' = Parsed(tree)
      BY <1>1 DEF Parsed, Rules
    <3>3. at' = "check" => ~ Digesting'
      BY <1>1, <2>3 DEF Digesting, Form
    <3> QED BY <1>1, <2>2, <2>3, <3>1, <3>2, <3>3 DEF Fresh
  <2>7. Recorded' /\ Checked'
    BY <1>1, <2>3 DEF Recorded, Checked, Form
  <2>8. Validated'
    <3>1. validate(wf)' = validate(wf')
      BY DEF validate, Names, ValidStep
    <3> QED BY <2>1, <3>1 DEF Validated
  <2> QED BY <2>4, <2>5, <2>6, <2>7, <2>8
<1>4. CASE ~ Accepted
  <2>1. at' = "refused"
    BY <1>4 DEF ParseDir
  <2>2. Form'
    BY <1>1, <1>2, <2>1 DEF Form
  <2> QED BY <1>1, <1>2, <2>1, <2>2 DEF Progress, Fresh, Recorded, Checked, Validated
<1> QED BY <1>3, <1>4

LEMMA HashFileInv == ASSUME Inv, HashFile PROVE Inv'
<1> USE DEF Inv
<1> DEFINE g == [f \in {HashOrder[next]} \cap InDigest |-> tree[f]]
<1>1. /\ at = "hash" /\ next <= 10 /\ next' = next + 1
      /\ hashed' = Over(g, hashed)
      /\ UNCHANGED <<tree, edits, at, read, wf, mode, run, looked, began, attempt,
                     quiet, found>>
  BY Orders DEF HashFile
<1>2. DOMAIN g = {HashOrder[next]} /\ g[HashOrder[next]] = tree[HashOrder[next]]
  BY <1>1, Orders DEF InDigest, Form
<1> HIDE DEF g
<1>3. /\ DOMAIN hashed' = DOMAIN hashed \cup {HashOrder[next]}
      /\ hashed' = [f \in DOMAIN hashed' |-> hashed'[f]]
      /\ hashed'[HashOrder[next]] = tree[HashOrder[next]]
      /\ \A f \in DOMAIN hashed \ {HashOrder[next]} : hashed'[f] = hashed[f]
  <2>1. /\ DOMAIN Over(g, hashed) = DOMAIN hashed \cup DOMAIN g
        /\ Over(g, hashed) = [k \in DOMAIN Over(g, hashed) |-> Over(g, hashed)[k]]
        /\ \A k \in DOMAIN g : Over(g, hashed)[k] = g[k]
        /\ \A k \in DOMAIN hashed \ DOMAIN g : Over(g, hashed)[k] = hashed[k]
    BY OverForm
  <2>2. PICK r : r = Over(g, hashed)
    OBVIOUS
  <2>3. hashed' = r
    BY <1>1, <2>2
  <2> QED BY <1>2, <2>1, <2>2, <2>3
<1>4. Form'
  BY <1>1, <1>3 DEF Form
<1>5. Progress'
  <2>1. DOMAIN hashed' = HashedFiles(next')
    BY <1>1, <1>3, OneMore DEF Progress, Form
  <2> QED BY <1>1, <2>1, Orders DEF Progress, Form
<1>6. Fresh'
  <2>1. Parsed(tree)' = Parsed(tree)
    BY <1>1 DEF Parsed, Rules
  <2> QED BY <1>1, <1>3, <2>1 DEF Fresh
<1>7. Recorded' /\ Checked'
  BY <1>1 DEF Recorded, Checked
<1>8. Validated'
  BY <1>1 DEF Validated, validate, Names, ValidStep
<1> QED BY <1>4, <1>5, <1>6, <1>7, <1>8

(* The fingerprint of a tree that nobody edited is the tree. *)
LEMMA HashedInv == ASSUME Inv, Hashed PROVE Inv'
<1> USE DEF Inv
<1>1. /\ at = "hash" /\ next = 11 /\ next' = 1 /\ at' = "check" /\ looked' = tree
      /\ UNCHANGED <<tree, edits, read, hashed, wf, mode, run, began, attempt, quiet,
                     found>>
      /\ DOMAIN hashed = File
  BY Orders DEF Hashed, Progress, Form
<1>2. Form' /\ Progress'
  BY <1>1 DEF Form, Progress
<1>3. Fresh'
  <2>1. ASSUME quiet.now PROVE hashed = tree /\ wf = Parsed(tree)
    <3>1. \A f \in File : hashed[f] = tree[f]
      BY <1>1, <2>1 DEF Fresh
    <3>2. hashed = [f \in File |-> hashed[f]] /\ tree = [f \in File |-> tree[f]]
      BY <1>1 DEF Form
    <3>3. hashed = tree
      BY <3>1, <3>2
    <3> QED BY <1>1, <2>1, <3>3 DEF Fresh
  <2>2. PICK t : t = tree
    OBVIOUS
  <2>3. looked' = t /\ quiet' = quiet /\ hashed' = hashed /\ wf' = wf
    BY <1>1, <2>2
  <2>4. Parsed(looked)' = Parsed(t)
    BY <2>3 DEF Parsed, Rules
  <2> QED BY <1>1, <2>1, <2>2, <2>3, <2>4 DEF Fresh
<1>4. Recorded' /\ Checked'
  BY <1>1 DEF Recorded, Checked, Form
<1>5. Validated'
  BY <1>1 DEF Validated, validate, Names, ValidStep
<1> QED BY <1>2, <1>3, <1>4, <1>5

LEMMA CreateRunInv == ASSUME Inv, CreateRun PROVE Inv'
<1> USE DEF Inv
<1>1. /\ at = "check" /\ attempt = 1 /\ at' = "execute"
      /\ run' = [entrypoint |-> wf.entrypoint, digest |-> hashed]
      /\ began' = [wf |-> wf, looked |-> looked]
      /\ UNCHANGED <<tree, edits, next, read, hashed, wf, mode, looked, attempt, quiet,
                     found>>
  BY DEF CreateRun
<1>2. run'.digest = hashed /\ began'.wf = wf /\ began'.looked = looked
      /\ began' = [wf |-> began'.wf, looked |-> began'.looked]
  BY <1>1
<1>3. run' # NoRun
  <2>1. DOMAIN hashed = File /\ File # {}
    BY <1>1, Orders DEF Progress, Digesting
  <2>2. NoRun.digest = <<>> /\ DOMAIN <<>> = {}
    BY DEF NoRun
  <2> QED BY <1>2, <2>1, <2>2
<1>4. quiet.first => hashed = looked /\ wf = Parsed(looked)
  BY <1>1 DEF Recorded, Fresh, Digesting
<1>5. Form' /\ Progress'
  BY <1>1 DEF Form, Progress, Digesting
<1>6. Fresh'
  <2>1. Parsed(looked)' = Parsed(looked)
    BY <1>1 DEF Parsed, Rules
  <2> QED BY <1>1, <2>1 DEF Fresh, Digesting
<1>7. Recorded'
  <2>1. PICK l, w : l = looked /\ w = wf
    OBVIOUS
  <2>2. began'.looked = l /\ began'.wf = w /\ quiet' = quiet
    BY <1>1, <1>2, <2>1
  <2>3. Parsed(began.looked)' = Parsed(l)
    BY <2>2 DEF Parsed, Rules
  <2> QED BY <1>1, <1>2, <1>3, <1>4, <2>1, <2>2, <2>3 DEF Recorded
<1>8. Checked'
  BY <1>1 DEF Checked
<1>9. Validated'
  BY <1>1 DEF Validated, validate, Names, ValidStep
<1> QED BY <1>5, <1>6, <1>7, <1>8, <1>9

(* The steps that leave what was looked at and recorded alone. *)
LEMMA GoesOn ==
    ASSUME Inv,
           UNCHANGED <<tree, next, read, hashed, wf, mode, run, looked, began, attempt,
                       quiet>>,
           at \in {"check", "execute"}, at' \in {"refused", "execute", "executed"},
           at = "check" => attempt > 1
    PROVE  Form' /\ Progress' /\ Fresh' /\ Recorded' /\ Validated'
<1> USE DEF Inv
<1>1. Parsed(looked)' = Parsed(looked) /\ Parsed(began.looked)' = Parsed(began.looked)
  BY DEF Parsed, Rules
<1>2. Form' /\ Progress'
  BY DEF Form, Progress, Digesting
<1>3. Fresh'
  BY <1>1 DEF Fresh, Digesting
<1>4. Recorded'
  BY <1>1 DEF Recorded, Form
<1>5. Validated'
  BY DEF Validated, validate, Names, ValidStep
<1> QED BY <1>2, <1>3, <1>4, <1>5

LEMMA CheckInv == ASSUME Inv, checkSourceIntegrity PROVE Inv'
<1>1. /\ at = "check" /\ attempt > 1
      /\ at' = IF (mode = "strict" /\ drifted) \/ run.entrypoint \notin Names(wf)
                 THEN "refused" ELSE "execute"
      /\ UNCHANGED <<tree, edits, next, read, hashed, wf, mode, run, looked, began,
                     attempt, quiet, found>>
  BY DEF checkSourceIntegrity
<1>2. at' \in {"refused", "execute"}
  BY <1>1
<1>3. Checked'
  BY <1>1 DEF Checked, drifted
<1> QED BY <1>1, <1>2, <1>3, GoesOn DEF Inv

LEMMA DispatchInv == ASSUME Inv, Dispatch PROVE Inv'
<1>1. Form' /\ Progress' /\ Fresh' /\ Recorded' /\ Validated'
  BY GoesOn DEF Dispatch
<1>2. Checked'
  BY DEF Dispatch, Checked, Inv
<1> QED BY <1>1, <1>2 DEF Inv

LEMMA ResumeInv == ASSUME Inv, NEW m \in {"warn", "strict", "off"}, Resume(m) PROVE Inv'
<1> USE DEF Inv
<1>1. /\ at \in {"executed", "refused"} /\ run # NoRun
      /\ attempt' = attempt + 1 /\ mode' = m
      /\ at' = "read" /\ next' = 1 /\ hashed' = <<>> /\ wf' = None
      /\ quiet' = [quiet EXCEPT !.now = TRUE]
      /\ UNCHANGED <<tree, edits, read, run, looked, began>>
  BY DEF Resume, Recorded
<1>2. /\ quiet' \in [first : BOOLEAN, now : BOOLEAN] /\ quiet'.first = quiet.first
      /\ attempt' \in Nat \ {0} /\ attempt' > 1 /\ attempt' # 1
  <2>1. attempt' \in Nat \ {0} /\ attempt' > 1 /\ attempt' # 1
    <3>1. attempt \in Nat \ {0} /\ attempt' = attempt + 1
      BY <1>1 DEF Form
    <3> QED BY <3>1
  <2>2. quiet' \in [first : BOOLEAN, now : BOOLEAN] /\ quiet'.first = quiet.first
    <3>1. quiet \in [first : BOOLEAN, now : BOOLEAN] /\ quiet' = [quiet EXCEPT !.now = TRUE]
      BY <1>1 DEF Form
    <3> QED BY <3>1
  <2> QED BY <2>1, <2>2
<1>3. DOMAIN hashed' = {} /\ hashed' = [f \in DOMAIN hashed' |-> hashed'[f]]
  BY <1>1
<1>4. DOMAIN read' = {}
  BY <1>1 DEF Progress
<1>5. Form'
  BY <1>1, <1>2, <1>3 DEF Form
<1>6. Progress'
  BY <1>1, <1>3, <1>4, OneMore, Orders DEF Progress
<1>7. Fresh'
  BY <1>1, <1>4 DEF Fresh
<1>8. Recorded'
  <2>1. Parsed(began.looked)' = Parsed(began.looked)
    BY <1>1 DEF Parsed, Rules
  <2>2. /\ quiet'.first = quiet.first /\ attempt' # 1 /\ run # NoRun
        /\ run' = run /\ began' = began
    BY <1>1, <1>2
  <2> QED BY <2>1, <2>2 DEF Recorded
<1>9. Checked' /\ Validated'
  BY <1>1 DEF Checked, Validated
<1> QED BY <1>5, <1>6, <1>7, <1>8, <1>9

LEMMA StepInv == Inv /\ [Next]_vars => Inv'
<1> SUFFICES ASSUME Inv, [Next]_vars PROVE Inv'
  OBVIOUS
<1>1. CASE UNCHANGED vars
  <2> USE DEF Inv
  <2>1. UNCHANGED <<tree, edits, at, next, read, hashed, wf, mode, run, looked, began,
                    attempt, quiet>>
    BY <1>1 DEF vars
  <2>2. /\ Parsed(tree)' = Parsed(tree) /\ Parsed(looked)' = Parsed(looked)
        /\ Parsed(began.looked)' = Parsed(began.looked)
    BY <2>1 DEF Parsed, Rules
  <2>3. Form' /\ Progress' /\ Checked'
    BY <2>1 DEF Form, Progress, Digesting, Checked
  <2>4. Fresh'
    BY <2>1, <2>2 DEF Fresh, Digesting
  <2>5. Recorded'
    BY <2>1, <2>2 DEF Recorded
  <2>6. Validated'
    BY <2>1 DEF Validated, validate, Names, ValidStep
  <2> QED BY <2>3, <2>4, <2>5, <2>6
<1> QED BY <1>1, EditInv, ReadFileInv, ParseDirInv, HashFileInv, HashedInv, CreateRunInv,
           CheckInv, DispatchInv, ResumeInv DEF Next

LEMMA Invariance == Spec => []Inv
BY InitInv, StepInv, PTL DEF Spec

-----------------------------------------------------------------------------

(* However the files are edited, and whatever was resumed before: a resume *)
(* that strict mode lets through executes the definition the run began     *)
(* with, in a tree that is the same to the last script, if nobody edited   *)
(* it while the parser and the fingerprint looked, in the first attempt or *)
(* in this one (currentSourceDigest, checkSourceIntegrity).                *)
THEOREM StrictResumeIsSame == Spec => []StrictMeansSame
<1>1. Inv => StrictMeansSame
  <2> SUFFICES ASSUME Inv, Executing, attempt > 1, mode = "strict",
                      quiet.first, quiet.now
               PROVE  began = [wf |-> wf, looked |-> looked]
    BY DEF StrictMeansSame
  <2> USE DEF Inv
  <2>1. at \in {"check", "execute", "executed"} /\ Digesting
    BY DEF Executing, Digesting
  <2>2. hashed = looked /\ wf = Parsed(looked)
    BY <2>1 DEF Fresh
  <2>3. run # NoRun /\ hashed = run.digest
    BY DEF Executing, Checked, Recorded
  <2>4. run.digest = began.looked /\ began.wf = Parsed(began.looked)
    BY <2>3 DEF Recorded
  <2>5. began = [wf |-> began.wf, looked |-> began.looked]
    BY <2>3 DEF Recorded
  <2> QED BY <2>2, <2>3, <2>4, <2>5
<1> QED BY <1>1, Invariance, PTL

(* What validate lets through, dispatch finds; what it does not find is    *)
(* what validate has not looked at.                                        *)
LEMMA ValidIsFound == ASSUME NEW w, NEW s, ValidStep(w, s) PROVE FoundOrLeft(w, s)
<1> DEFINE custom == s.type \in DOMAIN w.stepTypes \ primitives
<1>1. CASE s.workflow # ""
  BY <1>1 DEF ValidStep, FoundOrLeft, Lookup
<1>2. CASE s.workflow = "" /\ ~ custom
  <2>1. s.type \in primitives
    BY <1>2 DEF ValidStep
  <2>2. ResolveStepType(w, s).base = s.type
    BY <2>1 DEF ResolveStepType
  <2> QED BY <1>2, <2>1, <2>2 DEF ValidStep, FoundOrLeft, Lookup
<1>3. CASE s.workflow = "" /\ custom
  <2>1. ResolveStepType(w, s).base = w.stepTypes[s.type].base
    BY <1>3 DEF ResolveStepType
  <2> QED BY <1>3, <2>1 DEF FoundOrLeft, Lookup
<1> QED BY <1>1, <1>2, <1>3

(* Whatever mixture of old and new files the parser saw, each step of what *)
(* it accepted finds what it names, or fails for one of the four reasons   *)
(* that validate leaves to the run (validateSteps, dispatch).              *)
THEOREM AcceptedFilesAreClosed == Spec => []AcceptedIsClosed
<1>1. Inv => AcceptedIsClosed
  BY ValidIsFound DEF Inv, Validated, validate, Executing, AcceptedIsClosed
<1> QED BY <1>1, Invariance, PTL

-----------------------------------------------------------------------------
(* The layers of parameters. *)

LEMMA OverOf ==
    ASSUME NEW f, NEW g, NEW r, r = Over(g, f)
    PROVE  /\ DOMAIN r = DOMAIN f \cup DOMAIN g
           /\ \A k \in DOMAIN g : k \in DOMAIN r /\ r[k] = g[k]
           /\ \A k \in DOMAIN f \ DOMAIN g : k \in DOMAIN r /\ r[k] = f[k]
           /\ \A k \in DOMAIN r : k \in DOMAIN f \/ k \in DOMAIN g
BY DEF Over

LEMMA FourLayers ==
    ASSUME NEW st, NEW s
    PROVE  /\ DOMAIN Layers(st, s) = 1..4
           /\ Layers(st, s)[1] = st.job /\ Layers(st, s)[2] = st.defaults
           /\ Layers(st, s)[3] = st.params /\ Layers(st, s)[4] = s.params
BY DEF Layers

(* The last layer that has a key. *)
LEMMA LastIs ==
    ASSUME NEW st, NEW s, NEW k, NEW n \in 1..4,
           k \in DOMAIN Layers(st, s)[n],
           \A i \in 1..4 : i > n => k \notin DOMAIN Layers(st, s)[i]
    PROVE  LastWith(Layers(st, s), k) = n
<1> DEFINE S == {i \in 1..4 : k \in DOMAIN Layers(st, s)[i]}
<1>1. n \in S /\ \A i \in S : n >= i
  OBVIOUS
<1>2. \A m \in S : (\A i \in S : m >= i) => m = n
  BY <1>1
<1>3. Max(S) = n
  <2> HIDE DEF S
  <2> QED BY <1>1, <1>2 DEF Max
<1> QED BY <1>3, FourLayers DEF LastWith

Merged(st, s) == Over(s.params, Over(st.params, Over(st.defaults, st.job)))

(* The code's four loops give each key the value of the last layer with it. *)
LEMMA MergedIsLast ==
    ASSUME NEW st, NEW s, NEW k \in DOMAIN Merged(st, s)
    PROVE  Merged(st, s)[k] = Layers(st, s)[LastWith(Layers(st, s), k)][k]
<1> DEFINE a == Over(st.defaults, st.job)
           b == Over(st.params, a)
           m == Merged(st, s)
<1>1. a = Over(st.defaults, st.job) /\ b = Over(st.params, a) /\ m = Over(s.params, b)
  BY DEF Merged
<1> HIDE DEF a, b, m
<1>2. /\ \A x \in DOMAIN st.defaults : a[x] = st.defaults[x]
      /\ \A x \in DOMAIN st.job \ DOMAIN st.defaults : a[x] = st.job[x]
      /\ \A x \in DOMAIN a : x \in DOMAIN st.job \/ x \in DOMAIN st.defaults
  BY <1>1 DEF Over
<1>3. /\ \A x \in DOMAIN st.params : b[x] = st.params[x]
      /\ \A x \in DOMAIN a \ DOMAIN st.params : b[x] = a[x]
      /\ \A x \in DOMAIN b : x \in DOMAIN a \/ x \in DOMAIN st.params
  BY <1>1 DEF Over
<1>4. /\ \A x \in DOMAIN s.params : m[x] = s.params[x]
      /\ \A x \in DOMAIN b \ DOMAIN s.params : m[x] = b[x]
      /\ \A x \in DOMAIN m : x \in DOMAIN b \/ x \in DOMAIN s.params
      /\ k \in DOMAIN m
  BY <1>1 DEF Over, m
<1> SUFFICES m[k] = Layers(st, s)[LastWith(Layers(st, s), k)][k]
  BY DEF m
<1>5. CASE k \in DOMAIN s.params
  <2>1. LastWith(Layers(st, s), k) = 4
    BY <1>5, LastIs, FourLayers
  <2> QED BY <1>4, <1>5, <2>1, FourLayers
<1>6. CASE k \notin DOMAIN s.params /\ k \in DOMAIN st.params
  <2>1. LastWith(Layers(st, s), k) = 3
    BY <1>6, LastIs, FourLayers
  <2>2. m[k] = st.params[k]
    BY <1>3, <1>4, <1>6
  <2> QED BY <2>1, <2>2, FourLayers
<1>7. CASE k \notin DOMAIN s.params /\ k \notin DOMAIN st.params /\ k \in DOMAIN st.defaults
  <2>1. LastWith(Layers(st, s), k) = 2
    BY <1>7, LastIs, FourLayers
  <2>2. m[k] = st.defaults[k]
    BY <1>2, <1>3, <1>4, <1>7
  <2> QED BY <2>1, <2>2, FourLayers
<1>8. CASE /\ k \notin DOMAIN s.params /\ k \notin DOMAIN st.params
           /\ k \notin DOMAIN st.defaults
  <2>1. k \in DOMAIN st.job /\ m[k] = st.job[k]
    BY <1>2, <1>3, <1>4, <1>8
  <2>2. LastWith(Layers(st, s), k) = 1
    BY <1>8, <2>1, LastIs, FourLayers
  <2> QED BY <2>1, <2>2, FourLayers
<1> QED BY <1>5, <1>6, <1>7, <1>8

(* A layer has a header by this name. *)
Names1(l, x) == HasHeaders(l) /\ x \in DOMAIN l["headers"].entries

LEMMA AddStep ==
    ASSUME NEW l, NEW h, NEW x
    PROVE  /\ Names1(l, x) => /\ x \in DOMAIN AddHeaders(l, h)
                              /\ AddHeaders(l, h)[x] = l["headers"].entries[x]
           /\ (~ Names1(l, x) /\ x \in DOMAIN h) =>
                /\ x \in DOMAIN AddHeaders(l, h)
                /\ AddHeaders(l, h)[x] = h[x]
<1> DEFINE e == l["headers"].entries
           r == AddHeaders(l, h)
<1>1. CASE ~ HasHeaders(l)
  <2>1. r = h /\ ~ Names1(l, x)
    BY <1>1 DEF AddHeaders, Names1
  <2> QED BY <2>1
<1>2. CASE HasHeaders(l)
  <2>1. r = Over(e, h)
    BY <1>2 DEF AddHeaders
  <2>2. Names1(l, x) <=> x \in DOMAIN e
    BY <1>2, Zenon DEF Names1
  <2> HIDE DEF e, r
  <2>3. /\ \A k \in DOMAIN e : k \in DOMAIN r /\ r[k] = e[k]
        /\ \A k \in DOMAIN h \ DOMAIN e : k \in DOMAIN r /\ r[k] = h[k]
    BY <2>1, OverOf
  <2>4. /\ Names1(l, x) => x \in DOMAIN r /\ r[x] = e[x]
        /\ (~ Names1(l, x) /\ x \in DOMAIN h) => x \in DOMAIN r /\ r[x] = h[x]
    BY <2>2, <2>3
  <2> QED BY <2>4 DEF e, r
<1> QED BY <1>1, <1>2

(* Each header is that of the last layer that names it. *)
LEMMA HeadersAreLast ==
    ASSUME NEW st, NEW s, NEW j \in 1..4, NEW x,
           Names1(Layers(st, s)[j], x),
           \A i \in 1..4 : i > j => ~ Names1(Layers(st, s)[i], x)
    PROVE  /\ x \in DOMAIN Headers(st, s)
           /\ Headers(st, s)[x] = Layers(st, s)[j]["headers"].entries[x]
<1> DEFINE a == AddHeaders(st.job, <<>>)
           b == AddHeaders(st.defaults, a)
           c == AddHeaders(st.params, b)
           d == AddHeaders(s.params, c)
<1>1. Headers(st, s) = d
  BY DEF Headers
<1>2. /\ Names1(st.job, x) => x \in DOMAIN a /\ a[x] = st.job["headers"].entries[x]
  BY AddStep
<1> HIDE DEF a
<1>3. /\ Names1(st.defaults, x) =>
            x \in DOMAIN b /\ b[x] = st.defaults["headers"].entries[x]
      /\ (~ Names1(st.defaults, x) /\ x \in DOMAIN a) => x \in DOMAIN b /\ b[x] = a[x]
  BY AddStep
<1> HIDE DEF b
<1>4. /\ Names1(st.params, x) =>
            x \in DOMAIN c /\ c[x] = st.params["headers"].entries[x]
      /\ (~ Names1(st.params, x) /\ x \in DOMAIN b) => x \in DOMAIN c /\ c[x] = b[x]
  BY AddStep
<1> HIDE DEF c
<1>5. /\ Names1(s.params, x) =>
            x \in DOMAIN d /\ d[x] = s.params["headers"].entries[x]
      /\ (~ Names1(s.params, x) /\ x \in DOMAIN c) => x \in DOMAIN d /\ d[x] = c[x]
  BY AddStep
<1> HIDE DEF d
<1>6. CASE j = 4
  BY <1>1, <1>5, <1>6, FourLayers
<1>7. CASE j = 3
  <2>1. ~ Names1(s.params, x)
    BY <1>7, FourLayers
  <2> QED BY <1>1, <1>4, <1>5, <1>7, <2>1, FourLayers
<1>8. CASE j = 2
  <2>1. ~ Names1(s.params, x) /\ ~ Names1(st.params, x)
    BY <1>8, FourLayers
  <2> QED BY <1>1, <1>3, <1>4, <1>5, <1>8, <2>1, FourLayers
<1>9. CASE j = 1
  <2>1. ~ Names1(s.params, x) /\ ~ Names1(st.params, x) /\ ~ Names1(st.defaults, x)
    BY <1>9, FourLayers
  <2> QED BY <1>1, <1>2, <1>3, <1>4, <1>5, <1>9, <2>1, FourLayers
<1> QED BY <1>6, <1>7, <1>8, <1>9

LEMMA HeadersJoin ==
    ASSUME NEW p, NEW h
    PROVE  /\ \A k \in DOMAIN WithHeaders(p, h) \ {"headers"} :
                 k \in DOMAIN p /\ WithHeaders(p, h)[k] = p[k]
           /\ DOMAIN h # {} => WithHeaders(p, h)["headers"].entries = h
<1> DEFINE g == [k \in {"headers"} |-> HeaderMap(h)]
<1>1. CASE DOMAIN h = {}
  BY <1>1 DEF WithHeaders
<1>2. CASE DOMAIN h # {}
  <2>1. WithHeaders(p, h) = Over(g, p)
    BY <1>2 DEF WithHeaders
  <2>2. DOMAIN g = {"headers"} /\ g["headers"] = HeaderMap(h)
    OBVIOUS
  <2>3. HeaderMap(h).entries = h
    BY DEF HeaderMap
  <2> HIDE DEF g
  <2>4. PICK r : r = WithHeaders(p, h)
    OBVIOUS
  <2>5. /\ \A k \in DOMAIN g : k \in DOMAIN r /\ r[k] = g[k]
        /\ \A k \in DOMAIN p \ DOMAIN g : k \in DOMAIN r /\ r[k] = p[k]
        /\ \A k \in DOMAIN r : k \in DOMAIN p \/ k \in DOMAIN g
    BY <2>1, <2>4 DEF Over
  <2>6. /\ \A k \in DOMAIN r \ {"headers"} : k \in DOMAIN p /\ r[k] = p[k]
        /\ r["headers"].entries = h
    BY <2>2, <2>3, <2>5
  <2> QED BY <2>4, <2>6
<1> QED BY <1>1, <1>2

(* Every parameter of a step of a custom type is that of the last layer    *)
(* that sets it, and every header that of the last layer that has it,      *)
(* whatever the types and steps of the file are (ResolveStepType,          *)
(* mergeHeaderParams).                                                     *)
THEOREM LaterLayersOverride == Spec => []LayersOverride
<1>1. LayersOverride
  <2> SUFFICES ASSUME NEW i \in DOMAIN wf.workflows,
                      wf.workflows[i].step.type \in DOMAIN wf.stepTypes \ primitives
               PROVE  LET s == wf.workflows[i].step
                          layers == Layers(wf.stepTypes[s.type], s)
                          merged == ResolveStepType(wf, s).params
                          maps   == {j \in DOMAIN layers : HasHeaders(layers[j])}
                      IN  /\ \A k \in DOMAIN merged \ {"headers"} :
                                merged[k] = layers[LastWith(layers, k)][k]
                          /\ \A j \in maps : \A h \in DOMAIN layers[j]["headers"].entries :
                                (\A l \in maps : l > j =>
                                     h \notin DOMAIN layers[l]["headers"].entries)
                                  => merged["headers"].entries[h]
                                       = layers[j]["headers"].entries[h]
    BY DEF LayersOverride
  <2> DEFINE s == wf.workflows[i].step
             st == wf.stepTypes[s.type]
             layers == Layers(st, s)
             merged == ResolveStepType(wf, s).params
             maps   == {j \in DOMAIN layers : HasHeaders(layers[j])}
  <2>1. merged = WithHeaders(Merged(st, s), Headers(st, s))
    BY DEF ResolveStepType, Merged
  <2>2. DOMAIN layers = 1..4
    BY FourLayers
  <2> HIDE DEF s, st, merged
  <2>3. \A k \in DOMAIN merged \ {"headers"} : merged[k] = layers[LastWith(layers, k)][k]
    BY <2>1, HeadersJoin, MergedIsLast
  <2>4. ASSUME NEW j \in maps, NEW h \in DOMAIN layers[j]["headers"].entries,
               \A l \in maps : l > j => h \notin DOMAIN layers[l]["headers"].entries
        PROVE  merged["headers"].entries[h] = layers[j]["headers"].entries[h]
    <3>1. j \in 1..4 /\ Names1(layers[j], h)
      BY <2>2, <2>4 DEF Names1
    <3>2. \A l \in 1..4 : l > j => ~ Names1(layers[l], h)
      BY <2>2, <2>4 DEF Names1
    <3>3. /\ h \in DOMAIN Headers(st, s)
          /\ Headers(st, s)[h] = layers[j]["headers"].entries[h]
      BY <3>1, <3>2, HeadersAreLast
    <3>4. merged["headers"].entries = Headers(st, s)
      BY <2>1, <3>3, HeadersJoin
    <3> QED BY <3>3, <3>4
  <2> QED BY <2>3, <2>4 DEF s, st, merged
<1> QED BY <1>1, PTL

=============================================================================

---------------------------- MODULE DebuggerProofs ----------------------------
(***************************************************************************)
(* Proofs about Debugger, for any finite number of goroutines, any number  *)
(* of steps, any breakpoints and any number of commands.                   *)
(***************************************************************************)
EXTENDS Debugger, FiniteSetTheorems, TLAPS

(* The form of the state. *)
Form ==
  /\ gpc \in [G -> {"at", "queued", "turn", "paused", "taken", "exec"} \cup Ended]
  /\ pos \in [G -> Points]
  /\ why \in [G -> {"none", "until", "condition_error", "breakpoint", "step"}]
  /\ got \in [G -> Resuming \cup {"none"}]
  /\ queue \in G \cup {"free"}
  /\ bps \in BreakpointLists \cup {[p \in Points |-> "off"]}
  /\ hits \in [Points -> Nat]
  /\ stepMode \in BOOLEAN /\ closed \in BOOLEAN /\ cancelled \in BOOLEAN
  /\ until \in BeforePoints \cup {0}
  /\ paused \in PauseId \cup {None} /\ target \in PauseId \cup {None}
  /\ abandoned \in PauseId \cup {None}
  /\ box \in [PauseId -> Resuming \cup {"empty"}]
  /\ cpc \in {"read", "cancel", "send", "render", "abort", "closed"}
  /\ cmd \in (Cmds \cap Resuming) \cup {"none"} /\ reads \in 0..MaxCmds
  /\ over \in BOOLEAN /\ saved \in {"running", "failed", "completed"}
  /\ stepCmds \in Nat /\ stepPauses \in Nat
  /\ asked \in BOOLEAN

(* Only steps run between two debug points: a goroutine that executes is   *)
(* at the point before a step.  Its command reaches a pause, not nobody.   *)
PlaceInv ==
  /\ \A g \in G : gpc[g] = "exec" => pos[g] \in BeforePoints
  /\ cpc = "send" => cmd # "none"

(* d.queue is held by the one goroutine that is between its turn and the   *)
(* end of pause.                                                           *)
QueueInv == \A g \in G : gpc[g] \in {"turn", "paused", "taken"} <=> queue = g

(* d.paused is that goroutine's pause once it is blocked, and step mode is *)
(* off as long as it is.                                                   *)
PausedInv ==
  /\ \A g \in G : gpc[g] \in {"paused", "taken"} => paused = <<g, pos[g]>>
  /\ paused # None => \E g \in G : gpc[g] \in {"paused", "taken"}
  /\ paused # None => ~stepMode

(* Step mode on is a request not yet used. *)
RequestInv == stepPauses + (IF stepMode THEN 1 ELSE 0) <= stepCmds

(* The step commands on their way: in the channel of a pause, received and *)
(* not applied, or about to be sent.                                       *)
Boxed == {i \in PauseId : box[i] = "step"}
Taken == {g \in G : gpc[g] = "taken" /\ got[g] = "step"}
Sending == IF cpc = "send" /\ cmd = "step" THEN 1 ELSE 0

CommandInv ==
  stepCmds + Cardinality(Boxed) + Cardinality(Taken) + Sending
    <= reads + (IF StepFlag THEN 1 ELSE 0)

(* The goroutines that have been through match at a point: a breakpoint    *)
(* there was hit by each of them at most once.                             *)
Past(p) == {g \in G : pos[g] > p \/ (pos[g] = p /\ gpc[g] # "at")}

HitInv == \A p \in Points : hits[p] <= Cardinality(Past(p))

Inv ==
  /\ Form /\ PlaceInv /\ QueueInv /\ PausedInv /\ RequestInv /\ CommandInv
  /\ HitInv

-----------------------------------------------------------------------------
(* Facts about pauses, points and finite sets. *)

LEMMA NobodyIsNoPause == None \notin PauseId
BY DEF None, PauseId

LEMMA PauseParts ==
    ASSUME NEW g \in G, NEW p \in Points, NEW h \in G, NEW q \in Points
    PROVE  /\ <<g, p>> \in PauseId
           /\ <<g, p>> = <<h, q>> => g = h /\ p = q
BY DEF PauseId

LEMMA PointsFollow ==
    /\ 1 \in BeforePoints
    /\ \A p \in Points : p \in Nat /\ p # 0
    /\ \A p \in Points : p # 2 * NSteps => p + 1 \in Points
    /\ \A p \in BeforePoints : p \in Points /\ p # 2 * NSteps
<1>1. NSteps \in Nat /\ NSteps >= 1
  BY DebuggerAssumption
<1>2. (2 * NSteps) % 2 = 0
  BY <1>1
<1> QED BY <1>1, <1>2 DEF Points, BeforePoints

(* Every set of goroutines, and of pauses, is finite. *)
LEMMA FiniteParts ==
    /\ \A S \in SUBSET G : IsFiniteSet(S) /\ Cardinality(S) \in Nat
                           /\ Cardinality(S) <= Cardinality(G)
    /\ \A S \in SUBSET PauseId : IsFiniteSet(S) /\ Cardinality(S) \in Nat
<1>1. IsFiniteSet(G) /\ IsFiniteSet(Points)
  BY DebuggerAssumption, FS_Interval DEF Points
<1>2. IsFiniteSet(PauseId)
  BY <1>1, FS_Product DEF PauseId
<1> QED BY <1>1, <1>2, FS_Subset, FS_CardinalityType

-----------------------------------------------------------------------------
(* What a goroutine's step does to its own place. *)

Moves(g, S) ==
  /\ gpc' \in [G -> {"at", "queued", "turn", "paused", "taken", "exec"} \cup Ended]
  /\ pos' \in [G -> Points]
  /\ \A h \in G : h # g => gpc'[h] = gpc[h] /\ pos'[h] = pos[h]
  /\ gpc'[g] \in S
  /\ gpc'[g] = "exec" => pos'[g] \in BeforePoints
  /\ pos'[g] > pos[g] \/ (pos'[g] = pos[g] /\ gpc'[g] # "at")

LEMMA Goes ==
    ASSUME Form, NEW g \in G,
           NEW w \in {"queued", "turn", "paused", "taken"} \cup Ended,
           Goto(g, w), UNCHANGED pos
    PROVE  Moves(g, {w}) /\ pos'[g] = pos[g]
BY PointsFollow DEF Form, Goto, Moves, Ended

LEMMA Passes ==
    ASSUME Form, NEW g \in G, Pass(g)
    PROVE  /\ Moves(g, {"exec", "at", "ok"})
           /\ gpc'[g] = "exec" => pos[g] \in BeforePoints
<1>1. pos[g] \in Points
  BY DEF Form
<1>2. CASE pos[g] \in BeforePoints
  BY <1>1, <1>2, PointsFollow DEF Form, Pass, Goto, Moves, Ended
<1>3. CASE pos[g] \notin BeforePoints /\ pos[g] = 2 * NSteps
  BY <1>1, <1>3, PointsFollow DEF Form, Pass, Goto, Moves, Ended
<1>4. CASE pos[g] \notin BeforePoints /\ pos[g] # 2 * NSteps
  <2>1. /\ gpc' = [gpc EXCEPT ![g] = "at"]
        /\ pos' = [pos EXCEPT ![g] = pos[g] + 1]
    BY <1>4 DEF Pass, Goto
  <2>2. pos[g] + 1 \in Points /\ pos[g] \in Nat
    BY <1>1, <1>4, PointsFollow
  <2> QED BY <2>1, <2>2 DEF Form, Moves
<1> QED BY <1>2, <1>3, <1>4

LEMMA Executes ==
    ASSUME Form, PlaceInv, NEW g \in G, Execute(g)
    PROVE  Moves(g, {"at", "failed"})
<1>1. pos[g] \in Points /\ pos[g] + 1 \in Points /\ pos[g] \in Nat
  BY PointsFollow DEF Execute, Form, PlaceInv
<1>2. CASE Goto(g, "at") /\ pos' = [pos EXCEPT ![g] = pos[g] + 1]
  BY <1>1, <1>2 DEF Form, Goto, Moves
<1>3. CASE Goto(g, "failed") /\ UNCHANGED pos
  BY <1>1, <1>3 DEF Form, Goto, Moves, Ended
<1> QED BY <1>2, <1>3 DEF Execute

(* Whoever has been through match at a point stays among those. *)
LEMMA PastGrows ==
    ASSUME Form, NEW g \in G, NEW S, Moves(g, S), NEW p \in Points
    PROVE  /\ Past(p) \subseteq Past(p)'
           /\ Cardinality(Past(p)) <= Cardinality(Past(p)')
           /\ Cardinality(Past(p)') \in Nat /\ Cardinality(Past(p)) \in Nat
<1>1. Past(p) \in SUBSET G /\ Past(p)' \in SUBSET G
  BY DEF Past
<1>2. Past(p) \subseteq Past(p)'
  BY PointsFollow DEF Form, Moves, Past
<1> QED BY <1>1, <1>2, FiniteParts, FS_Subset

LEMMA HitsKept ==
    ASSUME Form, HitInv, NEW g \in G, NEW S, Moves(g, S), UNCHANGED hits
    PROVE  HitInv'
<1> SUFFICES ASSUME NEW p \in Points PROVE hits[p] <= Cardinality(Past(p)')
  BY DEF HitInv
<1>1. hits[p] \in Nat /\ hits[p] <= Cardinality(Past(p))
  BY DEF Form, HitInv
<1> QED BY <1>1, PastGrows

(* No new step command is on its way. *)
LEMMA CommandsKept ==
    ASSUME Form, Form', CommandInv, box' = box,
           \A h \in G : gpc'[h] = "taken" => gpc[h] = "taken" /\ got'[h] = got[h],
           stepCmds' + Sending' + reads <= stepCmds + Sending + reads'
    PROVE  CommandInv'
<1>1. Boxed' = Boxed /\ Boxed \in SUBSET PauseId
  BY DEF Boxed
<1>2. Taken' \in SUBSET Taken /\ Taken \in SUBSET G
  BY DEF Taken
<1>3. /\ Cardinality(Boxed) \in Nat /\ Cardinality(Taken) \in Nat
      /\ Cardinality(Taken') \in Nat /\ Cardinality(Taken') <= Cardinality(Taken)
  BY <1>1, <1>2, FiniteParts, FS_Subset
<1>4. /\ stepCmds \in Nat /\ stepCmds' \in Nat /\ reads \in Nat /\ reads' \in Nat
      /\ Sending \in Nat /\ Sending' \in Nat
  BY DebuggerAssumption DEF Form, Sending
<1> DEFINE asks == IF StepFlag THEN 1 ELSE 0
<1>5. asks \in Nat
  OBVIOUS
<1>6. stepCmds + Cardinality(Boxed) + Cardinality(Taken) + Sending <= reads + asks
  BY DEF CommandInv
<1> HIDE DEF asks
<1>7. stepCmds' + Cardinality(Boxed) + Cardinality(Taken') + Sending' <= reads' + asks
  BY <1>3, <1>4, <1>5, <1>6
<1> QED BY <1>1, <1>7 DEF CommandInv, asks

-----------------------------------------------------------------------------
(* The goroutines' actions. *)

LEMMA ReasonForm ==
    ASSUME NEW p, NEW o
    PROVE  Reason(p, o) \in {"none", "condition_error", "breakpoint", "step"}
BY DEF Reason

LEMMA MatchMoves ==
    ASSUME Form, NEW g \in G, Match(g)
    PROVE  /\ Moves(g, {"exec", "at", "ok", "queued"})
           /\ (stepMode /\ ~closed) => gpc'[g] # "exec"
<1>1. CASE closed /\ Pass(g)
  BY <1>1, Passes DEF Moves
<1>2. CASE Goto(g, "queued") /\ UNCHANGED pos
  BY <1>2, Goes DEF Moves
<1>3. ASSUME NEW o \in Outcomes(pos[g]), Reason(pos[g], o) = "none", Pass(g)
      PROVE  /\ Moves(g, {"exec", "at", "ok", "queued"})
             /\ stepMode => gpc'[g] # "exec"
  BY <1>3, Passes DEF Moves, Reason
<1> QED BY <1>1, <1>2, <1>3 DEF Match

LEMMA MatchInv ==
    ASSUME Inv, NEW g \in G, Match(g)
    PROVE  Inv'
<1> USE DEF Inv
<1>1. Moves(g, {"exec", "at", "ok", "queued"})
  BY MatchMoves
<1>2. /\ gpc[g] = "at"
      /\ UNCHANGED <<got, queue, bps, stepMode, paused, closed, box, cancelled>>
      /\ UNCHANGED <<cpc, cmd, target, reads>> /\ UNCHANGED <<over, saved>>
      /\ UNCHANGED <<stepCmds, stepPauses, abandoned, asked>>
  BY DEF Match, controlVars, runVars, historyVars
<1>3. pos[g] \in Points
  BY DEF Form
<1>4. /\ until' \in BeforePoints \cup {0}
      /\ why' \in [G -> {"none", "until", "condition_error", "breakpoint", "step"}]
  BY ReasonForm DEF Match, Form
<1>5. \/ hits' = hits
      \/ hits' = [hits EXCEPT ![pos[g]] = @ + 1] /\ (pos'[g] > pos[g] \/ gpc'[g] # "at")
  BY <1>1 DEF Match, Moves
<1>6. hits' \in [Points -> Nat]
  BY <1>3, <1>5 DEF Form
<1>7. Form'
  BY <1>1, <1>2, <1>4, <1>6 DEF Form, Moves
<1>8. PlaceInv' /\ QueueInv' /\ PausedInv' /\ RequestInv'
  <2>1. PlaceInv' /\ QueueInv'
    BY <1>1, <1>2 DEF Moves, PlaceInv, QueueInv
  <2>2. \A h \in G : (gpc'[h] \in {"paused", "taken"} <=> gpc[h] \in {"paused", "taken"})
                     /\ (gpc[h] \in {"paused", "taken"} => pos'[h] = pos[h])
    BY <1>1, <1>2 DEF Moves
  <2> QED BY <1>2, <2>1, <2>2 DEF PausedInv, RequestInv
<1>9. CommandInv'
  <2>1. stepCmds' + Sending' + reads <= stepCmds + Sending + reads'
    BY <1>2, DebuggerAssumption DEF Form, Sending
  <2> QED BY <1>1, <1>2, <1>7, <2>1, CommandsKept DEF Moves
<1>10. HitInv'
  <2>1. CASE hits' = hits
    BY <1>1, <2>1, HitsKept
  <2>2. CASE hits' = [hits EXCEPT ![pos[g]] = @ + 1]
    <3> SUFFICES ASSUME NEW p \in Points PROVE hits'[p] <= Cardinality(Past(p)')
      BY DEF HitInv
    <3>1. /\ hits[p] \in Nat /\ hits[p] <= Cardinality(Past(p))
          /\ Cardinality(Past(p)) <= Cardinality(Past(p)')
          /\ Cardinality(Past(p)) \in Nat /\ Cardinality(Past(p)') \in Nat
      BY <1>1, PastGrows DEF Form, HitInv
    <3>2. CASE p # pos[g]
      BY <1>3, <2>2, <3>1, <3>2 DEF Form
    <3>3. CASE p = pos[g]
      <4>1. g \notin Past(p)
        BY <1>2, <1>3, <3>3, PointsFollow DEF Past
      <4>2. g \in Past(p)'
        BY <1>1, <3>3 DEF Past, Moves
      <4>3. Past(p)' \in SUBSET G /\ Past(p) \in SUBSET (Past(p)' \ {g})
        BY <1>1, <4>1, PastGrows DEF Past
      <4>4. Cardinality(Past(p)' \ {g}) = Cardinality(Past(p)') - 1
        BY <4>2, <4>3, FiniteParts, FS_RemoveElement
      <4>5. Cardinality(Past(p)) <= Cardinality(Past(p)' \ {g})
        BY <4>3, FiniteParts, FS_Subset
      <4>6. hits'[p] = hits[p] + 1
        BY <1>3, <2>2, <3>3 DEF Form
      <4> QED BY <3>1, <4>4, <4>5, <4>6
    <3> QED BY <3>2, <3>3
  <2> QED BY <1>5, <2>1, <2>2
<1> QED BY <1>7, <1>8, <1>9, <1>10

LEMMA TakeTurnInv ==
    ASSUME Inv, NEW g \in G, TakeTurn(g)
    PROVE  Inv'
<1> USE DEF Inv
<1>1. Moves(g, {"turn"}) /\ pos' = pos
  BY Goes DEF TakeTurn
<1>2. /\ gpc[g] = "queued" /\ queue = "free" /\ queue' = g
      /\ UNCHANGED <<pos, why, got, bps, hits, stepMode, until, paused, closed, box,
                     cancelled>>
      /\ UNCHANGED <<cpc, cmd, target, reads>> /\ UNCHANGED <<over, saved>>
      /\ UNCHANGED <<stepCmds, stepPauses, abandoned, asked>>
  BY DEF TakeTurn, controlVars, runVars, historyVars
<1>3. Form'
  BY <1>1, <1>2 DEF Form, Moves
<1>4. QueueInv' /\ PlaceInv'
  BY <1>1, <1>2, DebuggerAssumption DEF Moves, QueueInv, PlaceInv
<1>5. PausedInv' /\ RequestInv'
  BY <1>1, <1>2 DEF Moves, PausedInv, RequestInv
<1>6. CommandInv'
  <2>1. stepCmds' + Sending' + reads <= stepCmds + Sending + reads'
    BY <1>2, DebuggerAssumption DEF Form, Sending
  <2> QED BY <1>1, <1>2, <1>3, <2>1, CommandsKept DEF Moves
<1>7. HitInv'
  BY <1>1, <1>2, HitsKept
<1> QED BY <1>3, <1>4, <1>5, <1>6, <1>7

LEMMA HoldInv ==
    ASSUME Inv, NEW g \in G, Hold(g)
    PROVE  Inv'
<1> USE DEF Inv
<1>1. /\ gpc[g] = "turn" /\ why' = [why EXCEPT ![g] = "none"]
      /\ UNCHANGED <<got, bps, hits, until, closed, box, cancelled>>
      /\ UNCHANGED <<cpc, cmd, target, reads>> /\ UNCHANGED <<over, saved>>
      /\ UNCHANGED <<stepCmds, abandoned, asked>>
  BY DEF Hold, controlVars, runVars
<1>2. queue = g /\ pos[g] \in Points /\ <<g, pos[g]>> \in PauseId
  BY <1>1, PauseParts DEF Form, QueueInv
<1>3. \A h \in G : h # g => gpc[h] \notin {"turn", "paused", "taken"}
  BY <1>2 DEF QueueInv
<1>4. paused = None
  BY <1>1, <1>3 DEF PausedInv, Form
<1>7. why' \in [G -> {"none", "until", "condition_error", "breakpoint", "step"}]
  BY <1>1 DEF Form
<1>8. gpc' \in [G -> {"at", "queued", "turn", "paused", "taken", "exec"} \cup Ended]
      /\ pos' \in [G -> Points] /\ queue' \in G \cup {"free"}
  BY <1>2, Passes, Goes DEF Hold, Block, Moves
<1>5. CASE Pass(g) /\ queue' = "free" /\ UNCHANGED <<paused, stepMode, stepPauses>>
  <2>1. Moves(g, {"exec", "at", "ok"})
    BY <1>5, Passes
  <2>2. Form'
    BY <1>1, <1>5, <1>7, <1>8 DEF Form
  <2>3. PlaceInv' /\ QueueInv'
    BY <1>1, <1>2, <1>3, <1>5, <2>1, DebuggerAssumption DEF Moves, PlaceInv, QueueInv
  <2>4. PausedInv' /\ RequestInv'
    BY <1>1, <1>3, <1>4, <1>5, <2>1 DEF Moves, PausedInv, RequestInv
  <2>5. CommandInv'
    <3>1. stepCmds' + Sending' + reads <= stepCmds + Sending + reads'
      BY <1>1, DebuggerAssumption DEF Form, Sending
    <3> QED BY <1>1, <2>1, <2>2, <3>1, CommandsKept DEF Moves
  <2> QED BY <1>1, <2>1, <2>2, <2>3, <2>4, <2>5, HitsKept
<1>6. CASE Block(g) /\ ~ (closed \/ (why[g] = "step" /\ ~stepMode))
  <2>1. /\ paused' = <<g, pos[g]>> /\ stepMode' = FALSE
        /\ stepPauses' = stepPauses + (IF why[g] = "step" THEN 1 ELSE 0)
        /\ UNCHANGED <<pos, queue>>
        /\ why[g] = "step" => stepMode
    BY <1>6 DEF Block, Form
  <2>2. Moves(g, {"paused"}) /\ pos'[g] = pos[g]
    BY <1>6, Goes DEF Block
  <2>3. Form'
    <3>1. stepPauses' \in Nat
      <4>1. stepPauses \in Nat
        BY DEF Form
      <4> QED BY <2>1, <4>1
    <3>2. paused' \in PauseId /\ stepMode' \in BOOLEAN
      BY <1>2, <2>1
    <3> QED BY <1>1, <1>7, <1>8, <3>1, <3>2 DEF Form
  <2>4. PlaceInv' /\ QueueInv'
    BY <1>1, <1>2, <1>3, <2>1, <2>2 DEF Moves, PlaceInv, QueueInv
  <2>5. PausedInv'
    BY <1>3, <2>1, <2>2 DEF Moves, PausedInv
  <2>6. RequestInv'
    BY <1>1, <2>1 DEF RequestInv, Form
  <2>7. CommandInv'
    <3>1. stepCmds' + Sending' + reads <= stepCmds + Sending + reads'
      BY <1>1, DebuggerAssumption DEF Form, Sending
    <3> QED BY <1>1, <2>2, <2>3, <3>1, CommandsKept DEF Moves
  <2> QED BY <1>1, <2>2, <2>3, <2>4, <2>5, <2>6, <2>7, HitsKept
<1> QED BY <1>5, <1>6 DEF Hold

(* A command leaves the channel for the goroutine. *)
LEMMA ReceiveInv ==
    ASSUME Inv, NEW g \in G, Receive(g)
    PROVE  Inv'
<1> USE DEF Inv
<1> DEFINE i == <<g, pos[g]>>
<1>1. /\ gpc[g] = "paused" /\ box[i] # "empty"
      /\ got' = [got EXCEPT ![g] = box[i]] /\ box' = [box EXCEPT ![i] = "empty"]
      /\ UNCHANGED <<pos, why, queue, bps, hits, stepMode, until, paused, closed,
                     cancelled>>
      /\ UNCHANGED <<cpc, cmd, target, reads>> /\ UNCHANGED <<over, saved>>
      /\ UNCHANGED <<stepCmds, stepPauses, abandoned, asked>>
  BY DEF Receive, controlVars, runVars, historyVars
<1>2. Moves(g, {"taken"}) /\ pos'[g] = pos[g]
  BY Goes DEF Receive
<1>3. i \in PauseId
  BY PauseParts DEF Form
<1>4. box[i] \in Resuming /\ box' \in [PauseId -> Resuming \cup {"empty"}]
  BY <1>1, <1>3 DEF Form
<1>5. got' \in [G -> Resuming \cup {"none"}]
  BY <1>1, <1>4 DEF Form
<1>6. Form'
  BY <1>1, <1>2, <1>4, <1>5 DEF Form, Moves
<1>7. PlaceInv' /\ QueueInv'
  BY <1>1, <1>2 DEF Moves, PlaceInv, QueueInv
<1>8. PausedInv' /\ RequestInv'
  <2>1. \A h \in G : gpc'[h] \in {"paused", "taken"} <=> gpc[h] \in {"paused", "taken"}
    BY <1>1, <1>2 DEF Moves
  <2> QED BY <1>1, <2>1 DEF PausedInv, RequestInv
<1>9. CommandInv'
  <2>1. g \notin Taken
    BY <1>1 DEF Taken
  <2>2. /\ Boxed' = Boxed \ {i}
    BY <1>1, <1>3 DEF Boxed, Form
  <2>3. CASE box[i] = "step"
    <3>1. i \in Boxed
      BY <1>3, <2>3 DEF Boxed
    <3>2. Taken' = Taken \cup {g}
      BY <1>1, <1>2, <1>6, <2>3 DEF Taken, Moves, Form
    <3>3. Boxed \in SUBSET PauseId /\ Taken \in SUBSET G
      BY DEF Boxed, Taken
    <3>4. /\ Cardinality(Boxed') = Cardinality(Boxed) - 1
          /\ Cardinality(Taken') = Cardinality(Taken) + 1
          /\ Cardinality(Boxed) \in Nat /\ Cardinality(Taken) \in Nat
      BY <2>1, <2>2, <3>1, <3>2, <3>3, FiniteParts, FS_RemoveElement, FS_AddElement
    <3>5. Sending' = Sending /\ Sending \in Nat
      BY <1>1 DEF Sending
    <3> DEFINE asks == IF StepFlag THEN 1 ELSE 0
    <3>6. asks \in Nat
      OBVIOUS
    <3>7. stepCmds + Cardinality(Boxed) + Cardinality(Taken) + Sending <= reads + asks
      BY DEF CommandInv
    <3> HIDE DEF asks
    <3>8. stepCmds' + Cardinality(Boxed') + Cardinality(Taken') + Sending' <= reads' + asks
      BY <1>1, <3>4, <3>5, <3>6, <3>7 DEF Form
    <3> QED BY <3>8 DEF CommandInv, asks
  <2>4. CASE box[i] # "step"
    <3>1. Boxed' = Boxed
      BY <2>2, <2>4 DEF Boxed
    <3>2. Taken' = Taken
      BY <1>1, <1>2, <1>6, <2>4 DEF Taken, Moves, Form
    <3>3. Sending' = Sending
      BY <1>1 DEF Sending
    <3> QED BY <1>1, <3>1, <3>2, <3>3 DEF CommandInv
  <2> QED BY <2>3, <2>4
<1>10. HitInv'
  BY <1>1, <1>2, HitsKept
<1> QED BY <1>6, <1>7, <1>8, <1>9, <1>10

(* The queue is free again, and nobody is paused. *)
LEMMA Leaves ==
    ASSUME QueueInv, PausedInv, NEW g \in G, gpc[g] \in {"paused", "taken"},
           NEW S, Moves(g, S), S \cap {"turn", "paused", "taken"} = {},
           queue' = "free", paused' = None
    PROVE  QueueInv' /\ PausedInv'
<1>1. \A h \in G : h # g => gpc[h] \notin {"turn", "paused", "taken"}
  BY DEF QueueInv
<1>2. \A h \in G : gpc'[h] \notin {"turn", "paused", "taken"}
  BY <1>1 DEF Moves
<1> QED BY <1>2, DebuggerAssumption DEF QueueInv, PausedInv

LEMMA ContextDoneInv ==
    ASSUME Inv, NEW g \in G, ContextDone(g)
    PROVE  Inv'
<1> USE DEF Inv
<1>1. /\ gpc[g] = "paused" /\ paused' = None /\ queue' = "free"
      /\ UNCHANGED <<pos, why, got, bps, hits, stepMode, until, closed, box, cancelled>>
      /\ UNCHANGED <<cpc, cmd, target, reads>> /\ UNCHANGED <<over, saved>>
      /\ UNCHANGED <<stepCmds, stepPauses, abandoned, asked>>
  BY DEF ContextDone, controlVars, runVars, historyVars
<1>2. Moves(g, {"failed"})
  BY Goes DEF ContextDone, Ended
<1>3. Form'
  BY <1>1, <1>2 DEF Form, Moves
<1>4. PlaceInv' /\ RequestInv'
  BY <1>1, <1>2 DEF Moves, PlaceInv, RequestInv
<1>5. QueueInv' /\ PausedInv'
  BY <1>1, <1>2, Leaves
<1>6. CommandInv'
  <2>1. stepCmds' + Sending' + reads <= stepCmds + Sending + reads'
    BY <1>1, DebuggerAssumption DEF Form, Sending
  <2> QED BY <1>1, <1>2, <1>3, <2>1, CommandsKept DEF Moves
<1> QED BY <1>1, <1>2, <1>3, <1>4, <1>5, <1>6, HitsKept

(* The command takes effect: a step command turns from one on its way into *)
(* a request for step mode.                                                *)
LEMMA ApplyInv ==
    ASSUME Inv, NEW g \in G, Apply(g)
    PROVE  Inv'
<1> USE DEF Inv
<1>1. /\ gpc[g] = "taken" /\ paused' = None /\ queue' = "free"
      /\ stepMode' = (got[g] = "step")
      /\ stepCmds' = stepCmds + (IF got[g] = "step" THEN 1 ELSE 0)
      /\ got' = [got EXCEPT ![g] = "none"]
      /\ UNCHANGED <<why, bps, hits, closed, box, cancelled>>
      /\ UNCHANGED <<cpc, cmd, target, reads>> /\ UNCHANGED <<over, saved>>
      /\ UNCHANGED <<stepPauses, abandoned, asked>>
  BY DEF Apply, controlVars, runVars
<1>2. Moves(g, {"exec", "at", "ok", "failed"})
  <2>1. CASE Goto(g, "failed") /\ UNCHANGED pos
    BY <2>1, Goes DEF Moves, Ended
  <2>2. CASE Pass(g)
    BY <2>2, Passes DEF Moves
  <2> QED BY <2>1, <2>2 DEF Apply
<1>3. until' \in BeforePoints \cup {0}
  BY DEF Apply, Form
<1>4. stepCmds' \in Nat /\ stepMode' \in BOOLEAN /\ paused' \in PauseId \cup {None}
  <2>1. stepCmds \in Nat
    BY DEF Form
  <2> QED BY <1>1, <2>1
<1>5. got' \in [G -> Resuming \cup {"none"}]
  BY <1>1 DEF Form
<1>6. Form'
  <2>1. gpc' \in [G -> {"at", "queued", "turn", "paused", "taken", "exec"} \cup Ended]
        /\ pos' \in [G -> Points] /\ queue' \in G \cup {"free"}
    BY <1>1, <1>2 DEF Moves
  <2> QED BY <1>1, <1>3, <1>4, <1>5, <2>1 DEF Form
<1>7. PlaceInv'
  BY <1>1, <1>2 DEF Moves, PlaceInv
<1>8. QueueInv' /\ PausedInv'
  BY <1>1, <1>2, Leaves
<1>9. RequestInv'
  <2>1. stepPauses \in Nat /\ stepCmds \in Nat /\ ~stepMode
    BY <1>1, NobodyIsNoPause, PauseParts DEF PausedInv, Form
  <2>2. stepPauses <= stepCmds
    BY <2>1 DEF RequestInv
  <2>3. CASE got[g] = "step"
    BY <1>1, <2>1, <2>2, <2>3 DEF RequestInv
  <2>4. CASE got[g] # "step"
    <3>1. ~stepMode'
      BY <1>1, <2>4, Zenon
    <3>2. stepCmds' = stepCmds /\ stepPauses' = stepPauses
      <4>1. stepCmds' = stepCmds + (IF got[g] = "step" THEN 1 ELSE 0)
        BY <1>1, Zenon
      <4>2. stepPauses' = stepPauses
        BY <1>1, Zenon
      <4> QED BY <2>1, <2>4, <4>1, <4>2
    <3> QED BY <2>1, <2>2, <3>1, <3>2 DEF RequestInv
  <2> QED BY <2>3, <2>4
<1>10. CommandInv'
  <2>1. CASE got[g] = "step"
    <3>1. g \in Taken /\ Taken' = Taken \ {g}
      <4>1. g \in Taken /\ g \notin Taken'
        BY <1>1, <1>2, <2>1 DEF Taken, Moves
      <4>2. got \in [G -> Resuming \cup {"none"}]
        BY DEF Form
      <4>3. \A h \in G : h # g => gpc'[h] = gpc[h] /\ got'[h] = got[h]
        BY <1>1, <1>2, <4>2 DEF Moves
      <4> QED BY <4>1, <4>3 DEF Taken
    <3>2. Boxed' = Boxed /\ Boxed \in SUBSET PauseId /\ Taken \in SUBSET G
      BY <1>1 DEF Boxed, Taken
    <3>3. /\ Cardinality(Taken') = Cardinality(Taken) - 1
          /\ Cardinality(Boxed) \in Nat /\ Cardinality(Taken) \in Nat
      BY <3>1, <3>2, FiniteParts, FS_RemoveElement
    <3>4. Sending' = Sending /\ Sending \in Nat
      BY <1>1 DEF Sending
    <3>5. stepCmds' = stepCmds + 1 /\ stepCmds \in Nat
      BY <1>1, <2>1 DEF Form
    <3> DEFINE asks == IF StepFlag THEN 1 ELSE 0
    <3>6. asks \in Nat /\ reads \in Nat
      BY DebuggerAssumption DEF Form
    <3>7. stepCmds + Cardinality(Boxed) + Cardinality(Taken) + Sending <= reads + asks
      BY DEF CommandInv
    <3> HIDE DEF asks
    <3>8. stepCmds' + Cardinality(Boxed') + Cardinality(Taken') + Sending' <= reads' + asks
      BY <1>1, <3>2, <3>3, <3>4, <3>5, <3>6, <3>7
    <3> QED BY <3>8 DEF CommandInv, asks
  <2>2. CASE got[g] # "step"
    <3>1. stepCmds' = stepCmds
      BY <1>1, <2>2 DEF Form
    <3>2. stepCmds' + Sending' + reads <= stepCmds + Sending + reads'
      BY <1>1, <3>1, DebuggerAssumption DEF Form, Sending
    <3>3. \A h \in G : gpc'[h] = "taken" => gpc[h] = "taken" /\ got'[h] = got[h]
      BY <1>1, <1>2 DEF Moves, Form
    <3> QED BY <1>1, <1>6, <3>2, <3>3, CommandsKept
  <2> QED BY <2>1, <2>2
<1>11. HitInv'
  BY <1>1, <1>2, HitsKept
<1> QED BY <1>6, <1>7, <1>8, <1>9, <1>10, <1>11

LEMMA ExecuteInv ==
    ASSUME Inv, NEW g \in G, Execute(g)
    PROVE  Inv'
<1> USE DEF Inv
<1>1. /\ gpc[g] = "exec"
      /\ UNCHANGED <<why, got, queue, bps, hits, stepMode, until, paused, closed, box,
                     cancelled>>
      /\ UNCHANGED <<cpc, cmd, target, reads>> /\ UNCHANGED <<over, saved>>
      /\ UNCHANGED <<stepCmds, stepPauses, abandoned, asked>>
  BY DEF Execute, controlVars, runVars, historyVars
<1>2. Moves(g, {"at", "failed"})
  BY Executes
<1>3. Form'
  BY <1>1, <1>2 DEF Form, Moves
<1>4. PlaceInv' /\ QueueInv'
  BY <1>1, <1>2 DEF Moves, PlaceInv, QueueInv
<1>5. PausedInv' /\ RequestInv'
  <2>1. \A h \in G : (gpc'[h] \in {"paused", "taken"} <=> gpc[h] \in {"paused", "taken"})
                     /\ (gpc[h] \in {"paused", "taken"} => pos'[h] = pos[h])
    BY <1>1, <1>2 DEF Moves
  <2> QED BY <1>1, <2>1 DEF PausedInv, RequestInv
<1>6. CommandInv'
  <2>1. stepCmds' + Sending' + reads <= stepCmds + Sending + reads'
    BY <1>1, DebuggerAssumption DEF Form, Sending
  <2> QED BY <1>1, <1>2, <1>3, <2>1, CommandsKept DEF Moves
<1> QED BY <1>1, <1>2, <1>3, <1>4, <1>5, <1>6, HitsKept

-----------------------------------------------------------------------------
(* The reader's actions and the end of the run leave the goroutines where  *)
(* they are.                                                               *)

LEMMA StayPut ==
    ASSUME Inv, UNCHANGED <<gpc, pos, why, got, queue, paused>>
    PROVE  /\ QueueInv'
           /\ (cpc' = "send" => cmd' # "none") => PlaceInv'
           /\ (hits' = hits \/ hits' = [p \in Points |-> 0]) => HitInv'
           /\ (paused # None => ~stepMode') => PausedInv'
<1> USE DEF Inv
<1>1. QueueInv' /\ ((cpc' = "send" => cmd' # "none") => PlaceInv')
  BY DEF QueueInv, PlaceInv
<1>2. (paused # None => ~stepMode') => PausedInv'
  BY DEF PausedInv
<1>3. \A p \in Points : /\ Past(p)' = Past(p) /\ Cardinality(Past(p)) \in Nat
  BY FiniteParts DEF Past
<1>4. hits' = hits => HitInv'
  BY <1>3 DEF HitInv
<1>5. hits' = [p \in Points |-> 0] => HitInv'
  BY <1>3 DEF HitInv
<1> QED BY <1>1, <1>2, <1>4, <1>5

LEMMA SetBreakpointsInv == ASSUME Inv, SetBreakpoints PROVE Inv'
<1> USE DEF Inv
<1>1. /\ UNCHANGED <<gpc, pos, why, got, queue, stepMode, until, paused, closed, box,
                     cancelled, cpc, cmd, target>>
      /\ UNCHANGED <<over, saved, stepCmds, stepPauses, abandoned, asked>>
      /\ bps' \in BreakpointLists /\ hits' = [p \in Points |-> 0]
      /\ reads < MaxCmds /\ reads' = reads + 1
  BY DEF SetBreakpoints, Read, goroutineVars, runVars, historyVars
<1>2. Form'
  BY <1>1, DebuggerAssumption DEF Form
<1>3. PlaceInv' /\ QueueInv' /\ PausedInv' /\ HitInv'
  BY <1>1, StayPut DEF PlaceInv, PausedInv
<1>4. RequestInv'
  BY <1>1 DEF RequestInv
<1>5. CommandInv'
  <2>1. stepCmds' + Sending' + reads <= stepCmds + Sending + reads'
    BY <1>1, DebuggerAssumption DEF Form, Sending
  <2> QED BY <1>1, <1>2, <2>1, CommandsKept
<1> QED BY <1>2, <1>3, <1>4, <1>5

LEMMA DispatchRunningInv ==
    ASSUME Inv, NEW c \in Cmds, DispatchRunning(c)
    PROVE  Inv'
<1> USE DEF Inv
<1>1. /\ UNCHANGED <<gpc, pos, why, got, queue, bps, hits, paused, closed, box,
                     cancelled, cmd, target>>
      /\ UNCHANGED <<over, saved, stepPauses, abandoned, asked>>
      /\ paused = None /\ reads < MaxCmds /\ reads' = reads + 1
      /\ stepMode' = IF c = "continue" THEN FALSE ELSE IF c = "step" THEN TRUE ELSE stepMode
      /\ stepCmds' = stepCmds + (IF c = "step" THEN 1 ELSE 0)
      /\ cpc' = IF c = "terminate" THEN "cancel" ELSE "read"
  BY DEF DispatchRunning, Read, goroutineVars, runVars
<1>2. until' \in BeforePoints \cup {0}
  BY DEF DispatchRunning, Form
<1>3. stepCmds \in Nat /\ stepPauses \in Nat /\ reads \in Nat
      /\ stepCmds' \in Nat /\ stepMode' \in BOOLEAN /\ stepMode \in BOOLEAN
  <2>1. stepCmds \in Nat /\ stepPauses \in Nat /\ reads \in Nat /\ stepMode \in BOOLEAN
    BY DebuggerAssumption DEF Form
  <2>2. stepMode' \in BOOLEAN
    BY <1>1, <2>1
  <2>3. stepCmds' \in Nat
    BY <1>1, <2>1
  <2> QED BY <2>1, <2>2, <2>3
<1>4. Form'
  <2>1. reads' \in 0..MaxCmds
    BY <1>1, <1>3, DebuggerAssumption
  <2>2. cpc' \in {"read", "cancel"}
    BY <1>1
  <2>3. /\ UNCHANGED <<gpc, pos, why, got, queue, bps, hits, paused, closed, box,
                       cancelled, cmd, target>>
        /\ UNCHANGED <<over, saved, stepPauses, abandoned, asked>>
    BY <1>1
  <2> QED BY <1>2, <1>3, <2>1, <2>2, <2>3 DEF Form
<1>5. PlaceInv' /\ QueueInv' /\ PausedInv' /\ HitInv'
  BY <1>1, StayPut
<1>6. RequestInv'
  <2>1. CASE c = "step"
    BY <1>1, <1>3, <2>1 DEF RequestInv
  <2>2. CASE c # "step"
    BY <1>1, <1>3, <2>2 DEF RequestInv
  <2> QED BY <2>1, <2>2
<1>7. CommandInv'
  <2>1. Sending' = 0 /\ Sending \in Nat
    BY <1>1 DEF Sending
  <2>2. stepCmds' + Sending' + reads <= stepCmds + Sending + reads'
    BY <1>1, <1>3, <2>1
  <2> QED BY <1>1, <1>4, <2>2, CommandsKept
<1> QED BY <1>4, <1>5, <1>6, <1>7

LEMMA DispatchPausedInv ==
    ASSUME Inv, NEW c \in Cmds, DispatchPaused(c)
    PROVE  Inv'
<1> USE DEF Inv
<1>1. /\ UNCHANGED <<gpc, pos, why, got, queue, bps, hits, stepMode, until, paused,
                     closed, box, cancelled>>
      /\ UNCHANGED <<over, saved, stepCmds, stepPauses, abandoned>>
      /\ c \in Cmds \cap Resuming /\ cpc = "read"
      /\ reads < MaxCmds /\ reads' = reads + 1
      /\ cpc' = "send" /\ cmd' = c /\ target' = paused
      /\ asked' = (asked \/ c = "terminate")
  BY DEF DispatchPaused, Read, goroutineVars, runVars
<1>2. Form'
  <2>1. reads' \in 0..MaxCmds
    BY <1>1, DebuggerAssumption DEF Form
  <2>2. asked' \in BOOLEAN
    BY <1>1
  <2> QED BY <1>1, <2>1, <2>2 DEF Form
<1>3. PlaceInv' /\ QueueInv' /\ PausedInv' /\ HitInv'
  BY <1>1, StayPut DEF Resuming, PausedInv
<1>4. RequestInv'
  BY <1>1 DEF RequestInv
<1>5. CommandInv'
  <2>1. Sending' <= Sending + 1 /\ Sending' \in Nat /\ Sending \in Nat
    BY <1>1 DEF Sending
  <2>2. stepCmds' + Sending' + reads <= stepCmds + Sending + reads'
    <3>1. stepCmds' = stepCmds /\ reads' = reads + 1
      BY <1>1
    <3>2. stepCmds \in Nat /\ reads \in Nat
      BY DebuggerAssumption DEF Form
    <3>3. PICK x, y : x = Sending /\ y = Sending'
      OBVIOUS
    <3>4. x \in Nat /\ y \in Nat /\ y <= x + 1
      BY <2>1, <3>3
    <3>5. stepCmds' + y + reads <= stepCmds + x + reads'
      BY <3>1, <3>2, <3>4
    <3> QED BY <3>3, <3>5
  <2> QED BY <1>1, <1>2, <2>2, CommandsKept
<1> QED BY <1>2, <1>3, <1>4, <1>5

(* A command enters the channel of the pause it is for, unless one is      *)
(* there already.                                                          *)
LEMMA SendForm ==
    ASSUME Form, NEW c \in Resuming, Send(c)
    PROVE  box' \in [PauseId -> Resuming \cup {"empty"}]
BY DEF Form, Send

LEMMA SendCommandInv == ASSUME Inv, SendCommand PROVE Inv'
<1> USE DEF Inv
<1>1. /\ UNCHANGED <<gpc, pos, why, got, queue, bps, hits, stepMode, until, paused,
                     closed, cancelled>>
      /\ UNCHANGED <<reads, over, saved, stepCmds, stepPauses, abandoned, asked>>
      /\ cpc = "send" /\ Send(cmd)
      /\ cpc' = "read" /\ cmd' = "none" /\ target' = None
  BY DEF SendCommand, NextLine, goroutineVars, runVars, historyVars
<1>2. cmd \in Resuming
  BY <1>1 DEF PlaceInv, Form
<1>3. Form'
  <2>1. box' \in [PauseId -> Resuming \cup {"empty"}]
    BY <1>1, <1>2, SendForm
  <2> QED BY <1>1, <2>1 DEF Form
<1>4. PlaceInv' /\ QueueInv' /\ PausedInv' /\ HitInv'
  BY <1>1, StayPut DEF PausedInv
<1>5. RequestInv'
  BY <1>1 DEF RequestInv
<1>6. CommandInv'
  <2>1. Boxed \in SUBSET PauseId /\ Boxed' \in SUBSET PauseId /\ Taken \in SUBSET G
    BY DEF Boxed, Taken
  <2>2. Taken' = Taken
    BY <1>1 DEF Taken
  <2>3. Sending' = 0 /\ Sending \in Nat
    BY <1>1 DEF Sending
  <2>4. Boxed' \in SUBSET (Boxed \cup {target})
    BY <1>1 DEF Boxed, Form, Send
  <2>5. cmd # "step" => Boxed' \in SUBSET Boxed
    BY <1>1 DEF Boxed, Form, Send
  <2>6. Cardinality(Boxed') <= Cardinality(Boxed) + Sending
    <3>1. CASE cmd = "step"
      <4>1. IsFiniteSet(Boxed) /\ Cardinality(Boxed) \in Nat
        BY <2>1, FiniteParts
      <4>2. /\ IsFiniteSet(Boxed \cup {target})
            /\ Cardinality(Boxed \cup {target}) <= Cardinality(Boxed) + 1
        BY <4>1, FS_AddElement
      <4>3. Cardinality(Boxed') <= Cardinality(Boxed \cup {target})
        BY <2>4, <4>2, FS_Subset
      <4>4. Sending = 1
        BY <1>1, <3>1 DEF Sending
      <4>5. Cardinality(Boxed') \in Nat /\ Cardinality(Boxed \cup {target}) \in Nat
        BY <2>1, <4>2, FiniteParts, FS_CardinalityType
      <4> QED BY <4>1, <4>2, <4>3, <4>4, <4>5
    <3>2. CASE cmd # "step"
      <4>1. Cardinality(Boxed') <= Cardinality(Boxed) /\ Sending = 0
        BY <2>1, <2>5, <3>2, FiniteParts, FS_Subset DEF Sending
      <4> QED BY <2>1, <4>1, FiniteParts
    <3> QED BY <3>1, <3>2
  <2>7. /\ Cardinality(Boxed) \in Nat /\ Cardinality(Boxed') \in Nat
        /\ Cardinality(Taken) \in Nat /\ stepCmds \in Nat /\ reads \in Nat
    BY <2>1, FiniteParts, DebuggerAssumption DEF Form
  <2> DEFINE asks == IF StepFlag THEN 1 ELSE 0
  <2>8. asks \in Nat
    OBVIOUS
  <2>9. stepCmds + Cardinality(Boxed) + Cardinality(Taken) + Sending <= reads + asks
    BY DEF CommandInv
  <2> HIDE DEF asks
  <2>10. stepCmds' + Cardinality(Boxed') + Cardinality(Taken') + Sending' <= reads' + asks
    BY <1>1, <2>2, <2>3, <2>6, <2>7, <2>8, <2>9
  <2> QED BY <2>10 DEF CommandInv, asks
<1> QED BY <1>3, <1>4, <1>5, <1>6

(* What else the reader does, and the end of the run: no command is read   *)
(* for a pause or sent to one as a step.                                   *)
LEMMA QuietInv ==
    ASSUME Inv, Form', RequestInv',
           UNCHANGED <<gpc, pos, why, got, queue, paused, stepCmds>>,
           Boxed' \in SUBSET Boxed, reads' >= reads, cpc' # "send",
           hits' = hits \/ hits' = [p \in Points |-> 0],
           stepMode' => stepMode
    PROVE  Inv'
<1> USE DEF Inv
<1>1. PlaceInv' /\ QueueInv' /\ PausedInv' /\ HitInv'
  BY StayPut DEF PausedInv, Form
<1>2. CommandInv'
  <2>1. Boxed \in SUBSET PauseId /\ Taken \in SUBSET G /\ Taken' = Taken
    BY DEF Boxed, Taken
  <2>2. /\ Cardinality(Boxed) \in Nat /\ Cardinality(Boxed') \in Nat
        /\ Cardinality(Boxed') <= Cardinality(Boxed)
        /\ Cardinality(Taken) \in Nat
    BY <2>1, FiniteParts, FS_Subset
  <2>3. stepCmds \in Nat /\ reads \in Nat /\ reads' \in Nat
    BY DebuggerAssumption DEF Form
  <2>4. Sending' = 0 /\ Sending \in Nat
    BY DEF Sending
  <2> DEFINE asks == IF StepFlag THEN 1 ELSE 0
  <2>5. asks \in Nat
    OBVIOUS
  <2>6. stepCmds + Cardinality(Boxed) + Cardinality(Taken) + Sending <= reads + asks
    BY DEF CommandInv
  <2> HIDE DEF asks
  <2>7. stepCmds' + Cardinality(Boxed') + Cardinality(Taken') + Sending' <= reads' + asks
    BY <2>1, <2>2, <2>3, <2>4, <2>5, <2>6
  <2> QED BY <2>7 DEF CommandInv, asks
<1> QED BY <1>1, <1>2

LEMMA EvaluateInv == ASSUME Inv, Evaluate PROVE Inv'
<1> USE DEF Inv
<1>1. /\ UNCHANGED <<gpc, pos, why, got, queue, bps, hits, stepMode, until, paused,
                     closed, box, cancelled, cmd>>
      /\ UNCHANGED <<over, saved, stepCmds, stepPauses, abandoned, asked>>
      /\ reads < MaxCmds /\ reads' = reads + 1
      /\ cpc' \in {"read", "render"} /\ target' = paused
  BY DEF Evaluate, Read, goroutineVars, runVars, historyVars
<1>2. Form' /\ reads' >= reads
  BY <1>1, DebuggerAssumption DEF Form
<1>3. Boxed' = Boxed /\ RequestInv'
  BY <1>1 DEF Boxed, RequestInv
<1> QED BY <1>1, <1>2, <1>3, QuietInv

LEMMA CancelRenderInv == ASSUME Inv, Cancel \/ Render PROVE Inv'
<1> USE DEF Inv
<1>1. /\ UNCHANGED <<gpc, pos, why, got, queue, bps, hits, stepMode, until, paused,
                     closed, box, reads>>
      /\ UNCHANGED <<over, saved, stepCmds, stepPauses, abandoned, asked>>
      /\ cpc' = "read" /\ cancelled' \in BOOLEAN
      /\ cmd' \in {cmd, "none"} /\ target' \in {target, None}
  BY DEF Cancel, Render, NextLine, goroutineVars, runVars, historyVars, Form
<1>2. Form' /\ reads' >= reads
  BY <1>1, DebuggerAssumption DEF Form
<1>3. Boxed' = Boxed /\ RequestInv'
  BY <1>1 DEF Boxed, RequestInv
<1> QED BY <1>1, <1>2, <1>3, QuietInv

LEMMA CloseInv == ASSUME Inv, Close PROVE Inv'
<1> USE DEF Inv
<1>1. /\ UNCHANGED <<gpc, pos, why, got, queue, paused, box, cancelled, cmd, reads>>
      /\ UNCHANGED <<over, saved, stepCmds, stepPauses, asked>>
      /\ closed' = TRUE /\ stepMode' = FALSE /\ until' = 0
      /\ bps' = [p \in Points |-> "off"] /\ hits' = [p \in Points |-> 0]
      /\ target' = paused /\ cpc' \in {"closed", "abort"}
      /\ abandoned' \in {paused, None}
  BY DEF Close, goroutineVars, runVars
<1>2. Form' /\ reads' >= reads
  <2>1. /\ bps' \in BreakpointLists \cup {[p \in Points |-> "off"]}
        /\ hits' \in [Points -> Nat]
    BY <1>1
  <2>2. /\ UNCHANGED <<gpc, pos, why, got, queue, paused, box, cancelled, cmd, reads>>
        /\ UNCHANGED <<over, saved, stepCmds, stepPauses, asked>>
        /\ closed' \in BOOLEAN /\ stepMode' \in BOOLEAN /\ until' = 0
        /\ target' = paused /\ cpc' \in {"closed", "abort"}
        /\ abandoned' \in {paused, None}
    BY <1>1
  <2>3. reads' >= reads
    BY <2>2, DebuggerAssumption DEF Form
  <2> QED BY <2>1, <2>2, <2>3 DEF Form
<1>3. Boxed' = Boxed
  BY <1>1 DEF Boxed
<1>4. RequestInv'
  BY <1>1 DEF RequestInv, Form
<1> QED BY <1>1, <1>2, <1>3, <1>4, QuietInv

LEMMA SendAbortInv == ASSUME Inv, SendAbort PROVE Inv'
<1> USE DEF Inv
<1>1. /\ UNCHANGED <<gpc, pos, why, got, queue, bps, hits, stepMode, until, paused,
                     closed, cancelled>>
      /\ UNCHANGED <<cmd, reads, over, saved, stepCmds, stepPauses, abandoned, asked>>
      /\ Send("abort") /\ cpc' = "closed" /\ target' = None
  BY DEF SendAbort, goroutineVars, runVars, historyVars
<1>2. box' \in [PauseId -> Resuming \cup {"empty"}]
  BY <1>1, SendForm DEF Resuming
<1>3. Form' /\ reads' >= reads
  BY <1>1, <1>2, DebuggerAssumption DEF Form
<1>4. Boxed' \in SUBSET Boxed
  BY <1>1 DEF Boxed, Form, Send
<1>5. RequestInv'
  BY <1>1 DEF RequestInv
<1> QED BY <1>1, <1>3, <1>4, <1>5, QuietInv

LEMMA EndRunInv == ASSUME Inv, EndRun PROVE Inv'
<1> USE DEF Inv
<1>1. /\ UNCHANGED <<gpc, pos, why, got, queue, bps, hits, stepMode, until, paused,
                     closed, box, cancelled>>
      /\ UNCHANGED <<cpc, cmd, target, reads, stepCmds, stepPauses, abandoned, asked>>
      /\ over' = TRUE /\ saved' \in {saved, "failed", "completed"}
  BY DEF EndRun, goroutineVars, controlVars, historyVars
<1>2. Form'
  BY <1>1 DEF Form
<1>3. PlaceInv' /\ QueueInv' /\ PausedInv' /\ HitInv'
  BY <1>1, StayPut DEF PlaceInv, PausedInv
<1>4. RequestInv'
  BY <1>1 DEF RequestInv
<1>5. CommandInv'
  BY <1>1 DEF CommandInv, Boxed, Taken, Sending
<1> QED BY <1>2, <1>3, <1>4, <1>5

-----------------------------------------------------------------------------

LEMMA InitInv == Init => Inv
<1> SUFFICES ASSUME Init PROVE Inv
  OBVIOUS
<1>1. Form
  <2>1. 1 \in Points /\ 0 \in 0..MaxCmds
    BY PointsFollow, DebuggerAssumption
  <2>2. /\ gpc \in [G -> {"at", "queued", "turn", "paused", "taken", "exec"} \cup Ended]
        /\ pos \in [G -> Points] /\ got \in [G -> Resuming \cup {"none"}]
        /\ why \in [G -> {"none", "until", "condition_error", "breakpoint", "step"}]
        /\ hits \in [Points -> Nat] /\ box \in [PauseId -> Resuming \cup {"empty"}]
    BY <2>1 DEF Init
  <2>3. /\ bps \in BreakpointLists \cup {[p \in Points |-> "off"]}
        /\ stepMode \in BOOLEAN
    BY DebuggerAssumption DEF Init
  <2>4. stepCmds \in Nat
    BY DEF Init
  <2>5. /\ queue = "free" /\ closed = FALSE /\ cancelled = FALSE /\ until = 0
        /\ paused = None /\ target = None /\ abandoned = None
        /\ cpc = "read" /\ cmd = "none" /\ reads = 0
        /\ over = FALSE /\ saved = "running" /\ stepPauses = 0 /\ asked = FALSE
    BY DEF Init
  <2> QED BY <2>1, <2>2, <2>3, <2>4, <2>5 DEF Form
<1>2. PlaceInv /\ QueueInv /\ PausedInv
  BY DebuggerAssumption DEF Init, PlaceInv, QueueInv, PausedInv
<1>3. RequestInv
  BY DebuggerAssumption DEF Init, RequestInv
<1>4. CommandInv
  <2>1. Boxed = {} /\ Taken = {} /\ Sending = 0
    BY DEF Init, Boxed, Taken, Sending
  <2> QED BY <2>1, FS_EmptySet DEF Init, CommandInv
<1>5. HitInv
  <2>1. \A p \in Points : hits[p] = 0 /\ Cardinality(Past(p)) \in Nat
    BY FiniteParts DEF Init, Past
  <2> QED BY <2>1 DEF HitInv
<1> QED BY <1>1, <1>2, <1>3, <1>4, <1>5 DEF Inv

LEMMA StepInv == Inv /\ [Next]_vars => Inv'
<1> SUFFICES ASSUME Inv, [Next]_vars PROVE Inv'
  OBVIOUS
<1>1. CASE UNCHANGED vars
  BY <1>1 DEF vars, Inv, Form, PlaceInv, QueueInv, PausedInv, RequestInv, CommandInv,
              HitInv, Boxed, Taken, Sending, Past
<1>2. ASSUME NEW g \in G, Goroutine(g) PROVE Inv'
  BY <1>2, MatchInv, TakeTurnInv, HoldInv, ReceiveInv, ContextDoneInv, ApplyInv,
     ExecuteInv DEF Goroutine
<1>3. CASE Reader
  BY <1>3, CancelRenderInv, SendCommandInv, SendAbortInv DEF Reader
<1>4. CASE Operator
  BY <1>4, SetBreakpointsInv, EvaluateInv, CloseInv, DispatchRunningInv,
     DispatchPausedInv DEF Operator
<1> QED BY <1>1, <1>2, <1>3, <1>4, EndRunInv DEF Next, Over

LEMMA Invariance == Spec => []Inv
BY InitInv, StepInv, PTL DEF Spec

(* For any number of goroutines, steps and commands: the debugger's state  *)
(* is well-formed, d.paused is the pause of the one goroutine that is      *)
(* blocked in it, and a request for step mode pauses one goroutine at most,*)
(* however many saw it and queued (matchDebugger and pause, under d.mu and *)
(* d.queue).                                                               *)
THEOREM PausesAreOrderly == Spec => []PauseInv
<1>1. Inv => PauseInv
  <2> SUFFICES ASSUME Inv PROVE PauseInv
    OBVIOUS
  <2> USE DEF Inv
  <2>1. hits \in [Points -> 0..Cardinality(G)]
    <3>1. \A p \in Points : /\ Cardinality(Past(p)) \in Nat /\ Cardinality(G) \in Nat
                            /\ Cardinality(Past(p)) <= Cardinality(G)
      BY FiniteParts DEF Past
    <3>2. \A p \in Points : hits[p] \in 0..Cardinality(G)
      BY <3>1 DEF Form, HitInv
    <3> QED BY <3>2 DEF Form
  <2>2. stepCmds \in 0..(MaxCmds + 1)
    <3>1. /\ Cardinality(Boxed) \in Nat /\ Cardinality(Taken) \in Nat /\ Sending \in Nat
      BY FiniteParts DEF Boxed, Taken, Sending
    <3>2. stepCmds \in Nat /\ reads \in Nat /\ reads <= MaxCmds /\ MaxCmds \in Nat
      BY DebuggerAssumption DEF Form
    <3> DEFINE asks == IF StepFlag THEN 1 ELSE 0
    <3>3. asks \in Nat /\ asks <= 1
      OBVIOUS
    <3>4. stepCmds + Cardinality(Boxed) + Cardinality(Taken) + Sending <= reads + asks
      BY DEF CommandInv
    <3> HIDE DEF asks
    <3> QED BY <3>1, <3>2, <3>3, <3>4
  <2>3. TypeOK
    BY <2>1, <2>2 DEF Form, TypeOK
  <2>4. OnePause
    <3>1. \A g \in G : gpc[g] \in {"paused", "taken"} => paused = <<g, pos[g]>>
      BY DEF PausedInv
    <3>2. paused # None => \E g \in G : gpc[g] \in {"paused", "taken"}
      BY DEF PausedInv
    <3>3. \A g \in G : gpc[g] \in {"paused", "taken"} => paused # None
      BY <3>1, NobodyIsNoPause, PauseParts DEF Form
    <3> QED BY <3>1, <3>2, <3>3 DEF OnePause
  <2>5. StepPausesAreAskedFor
    BY DEF RequestInv, StepPausesAreAskedFor, Form
  <2> QED BY <2>3, <2>4, <2>5 DEF PauseInv
<1> QED BY <1>1, Invariance, PTL

(* While step mode is on and the channel open no goroutine starts a step,  *)
(* whatever it saw before it queued: match gives it a reason to pause, and *)
(* pause lets go of it only when step mode is off or the channel closed.   *)
THEOREM StepModeStops == Spec => StepModeHolds
<1>1. Inv /\ [Next]_vars =>
        [(stepMode /\ ~closed) =>
           \A g \in G : gpc'[g] = "exec" => gpc[g] = "exec"]_vars
  <2> SUFFICES ASSUME Inv, Next, stepMode, ~closed,
                      NEW h \in G, gpc'[h] = "exec", gpc[h] # "exec"
               PROVE  FALSE
    OBVIOUS
  <2> USE DEF Inv
  <2>1. paused = None
    BY DEF PausedInv, Form
  <2>2. \A g \in G : gpc[g] \notin {"paused", "taken"}
    BY <2>1, NobodyIsNoPause, PauseParts DEF PausedInv, Form
  <2>3. ASSUME NEW g \in G, Goroutine(g) PROVE FALSE
    <3>1. CASE Match(g)
      BY <3>1, MatchMoves DEF Moves
    <3>2. CASE TakeTurn(g)
      BY <3>2 DEF TakeTurn, Goto, Form
    <3>3. CASE Hold(g)
      BY <3>3 DEF Hold, Block, Goto, Form
    <3>4. CASE Receive(g) \/ ContextDone(g) \/ Apply(g)
      BY <2>2, <3>4 DEF Receive, ContextDone, Apply
    <3>5. CASE Execute(g)
      BY <3>5, Executes DEF Moves
    <3> QED BY <2>3, <3>1, <3>2, <3>3, <3>4, <3>5 DEF Goroutine
  <2>4. ~ (gpc' = gpc)
    OBVIOUS
  <2>5. CASE Reader \/ Operator \/ EndRun \/ Over
    BY <2>4, <2>5 DEF Reader, Cancel, SendCommand, Render, SendAbort, Operator,
       SetBreakpoints, Evaluate, Close, DispatchRunning, DispatchPaused, EndRun, Over,
       goroutineVars, vars
  <2> QED BY <2>3, <2>5 DEF Next
<1> QED BY <1>1, Invariance, PTL DEF Spec, StepModeHolds

=============================================================================

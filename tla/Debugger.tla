------------------------------ MODULE Debugger ------------------------------
(***************************************************************************)
(* The step-through debugger of pkg/engine/debug.go.  Three kinds of       *)
(* processes share its state: the goroutines that run steps (concurrent    *)
(* for_each items of one sub-workflow, or a single run) and stop at        *)
(* breakpoints, the reader of the control channel, which hands them        *)
(* commands one line at a time, and the run that ends when they have       *)
(* ended.  What is done under d.mu is one action; d.queue is a variable,   *)
(* because a goroutine holds it while it is paused.                        *)
(*                                                                         *)
(* A goroutine passes the debug points 1, 2, ...: odd ones lie before a    *)
(* step, even ones after it.  A pause is named by its goroutine and its    *)
(* point: every pause of the code has a pausedState of its own.            *)
(***************************************************************************)
EXTENDS Integers, FiniteSets

CONSTANTS
  G,               \* the goroutines that run steps
  NSteps,          \* steps each of them runs
  Skip,            \* `skip` of the breakpoints
  BreakpointLists, \* the lists an operator may set: kinds of breakpoint by point
  StepFlag,        \* TRUE: --step
  Cmds,            \* the commands in use
  MaxCmds,         \* bound on the commands read
  IgnoreErrors     \* ignore_errors of the for_each step the goroutines belong to

Points == 1..(2 * NSteps)
BeforePoints == {p \in Points : p % 2 = 1}
PauseId == G \X Points
None == <<>>

ASSUME DebuggerAssumption ==
  /\ IsFiniteSet(G) /\ "free" \notin G
  /\ NSteps \in Nat \ {0}
  /\ Skip \in Nat
  /\ BreakpointLists \subseteq [Points -> {"off", "stop", "when", "log"}]
  /\ BreakpointLists # {}
  /\ StepFlag \in BOOLEAN
  /\ Cmds \subseteq {"continue", "step", "until", "terminate", "evaluate",
                     "set_breakpoints"}
  /\ MaxCmds \in Nat
  /\ IgnoreErrors \in BOOLEAN

VARIABLES
  gpc,        \* where each goroutine is
  pos,        \* the debug point it is at
  why,        \* the reason match gave it
  got,        \* the command it received
  queue,      \* d.queue: the goroutine that may pause, or "free"
  bps, hits,  \* d.bps, and how often each breakpoint was hit
  stepMode, until, paused, closed,  \* the fields of the Debugger
  box,        \* the resume channel (capacity 1) of every pause
  cancelled,  \* the run's context
  cpc,        \* where the control reader is
  cmd, target,\* the command it handles, and the pause it read from d.paused
  reads,      \* commands read so far
  over,       \* the run has ended (and the process with it)
  saved,      \* the status of the run in the store
  stepCmds, stepPauses, \* history: requests for, and pauses of, step mode
  abandoned,  \* history: the pause that was blocked when the channel closed
  asked       \* history: a terminate was read while the run was paused

goroutineVars == <<gpc, pos, why, got>>
controlVars == <<cpc, cmd, target, reads>>
runVars == <<over, saved>>
historyVars == <<stepCmds, stepPauses, abandoned, asked>>
vars == <<gpc, pos, why, got, queue, bps, hits, stepMode, until, paused, closed,
          box, cancelled, cpc, cmd, target, reads, over, saved, stepCmds, stepPauses,
          abandoned, asked>>

Resuming == {"continue", "step", "until", "terminate", "abort"}
Ended == {"ok", "failed"}

TypeOK ==
  /\ gpc \in [G -> {"at", "queued", "turn", "paused", "taken", "exec"} \cup Ended]
  /\ pos \in [G -> Points]
  /\ why \in [G -> {"none", "until", "condition_error", "breakpoint", "step"}]
  /\ got \in [G -> Resuming \cup {"none"}]
  /\ queue \in G \cup {"free"}
  /\ bps \in BreakpointLists \cup {[p \in Points |-> "off"]}
  /\ hits \in [Points -> 0..Cardinality(G)]
  /\ stepMode \in BOOLEAN /\ closed \in BOOLEAN /\ cancelled \in BOOLEAN
  /\ until \in BeforePoints \cup {0}
  /\ paused \in PauseId \cup {None} /\ target \in PauseId \cup {None}
  /\ abandoned \in PauseId \cup {None}
  /\ box \in [PauseId -> Resuming \cup {"empty"}]
  /\ cpc \in {"read", "cancel", "send", "render", "abort", "closed"}
  /\ cmd \in (Cmds \cap Resuming) \cup {"none"} /\ reads \in 0..MaxCmds
  /\ over \in BOOLEAN /\ saved \in {"running", "failed", "completed"}
  /\ stepCmds \in 0..(MaxCmds + 1) /\ stepPauses \in Nat
  /\ asked \in BOOLEAN

Init ==
  /\ gpc = [g \in G |-> "at"] /\ pos = [g \in G |-> 1]
  /\ why = [g \in G |-> "none"] /\ got = [g \in G |-> "none"]
  /\ queue = "free"
  /\ bps \in BreakpointLists /\ hits = [p \in Points |-> 0]
  /\ stepMode = StepFlag /\ until = 0 /\ paused = None /\ closed = FALSE
  /\ box = [i \in PauseId |-> "empty"]
  /\ cancelled = FALSE
  /\ cpc = "read" /\ cmd = "none" /\ target = None /\ reads = 0
  /\ over = FALSE /\ saved = "running"
  /\ stepCmds = (IF StepFlag THEN 1 ELSE 0) /\ stepPauses = 0
  /\ abandoned = None /\ asked = FALSE

(***************************************************************************)
(* The goroutines: debugPause, match and pause.                            *)
(***************************************************************************)
Goto(g, where) == gpc' = [gpc EXCEPT ![g] = where]

\* debugPause returns nil: the step starts, or the next one is reached
Pass(g) ==
  IF pos[g] \in BeforePoints THEN Goto(g, "exec") /\ UNCHANGED pos
  ELSE IF pos[g] = 2 * NSteps THEN Goto(g, "ok") /\ UNCHANGED pos
  ELSE Goto(g, "at") /\ pos' = [pos EXCEPT ![g] = pos[g] + 1]

\* What the breakpoint at point p may do: nothing, a condition that cannot be
\* evaluated, or a hit
Outcomes(p) ==
  {o \in {"none", "error", "hit"} :
     /\ o = "none" => bps[p] \in {"off", "when"}
     /\ o = "error" => bps[p] = "when"
     /\ o = "hit" => bps[p] # "off"}

\* Mutant: step mode stops only where there is no breakpoint
ReasonOffOnly(p, o) ==
  IF o = "error" THEN "condition_error"
  ELSE IF o = "hit" /\ hits[p] >= Skip /\ bps[p] # "log" THEN "breakpoint"
  ELSE IF stepMode /\ p \in BeforePoints /\ o = "none" THEN "step" ELSE "none"

\* Hits up to `skip` are ignored, logpoints never stop
Reason(p, o) ==
  IF o = "error" THEN "condition_error"
  ELSE IF o = "hit" /\ hits[p] >= Skip /\ bps[p] # "log" THEN "breakpoint"
  ELSE IF stepMode /\ p \in BeforePoints THEN "step" ELSE "none"

Match(g) ==
  /\ gpc[g] = "at"
  /\ \/ closed /\ Pass(g) /\ UNCHANGED <<why, until, hits>>
     \/ /\ ~closed /\ until = pos[g]
        /\ until' = 0
        /\ why' = [why EXCEPT ![g] = "until"]
        /\ Goto(g, "queued")
        /\ UNCHANGED <<pos, hits>>
     \/ /\ ~closed /\ until # pos[g]
        /\ \E o \in Outcomes(pos[g]) :
             /\ hits' = IF o = "hit" THEN [hits EXCEPT ![pos[g]] = @ + 1] ELSE hits
             /\ why' = [why EXCEPT ![g] = Reason(pos[g], o)]
             /\ IF Reason(pos[g], o) = "none" THEN Pass(g)
                ELSE Goto(g, "queued") /\ UNCHANGED pos
        /\ UNCHANGED until
  /\ UNCHANGED <<got, queue, bps, stepMode, paused, closed, box, cancelled,
                 controlVars, runVars, historyVars>>

\* Mutant: pauses do not wait their turn
TakeTurnAtOnce(g) ==
  /\ gpc[g] = "queued"
  /\ queue' = g
  /\ Goto(g, "turn")
  /\ UNCHANGED <<pos, why, got, bps, hits, stepMode, until, paused, closed, box,
                 cancelled, controlVars, runVars, historyVars>>

\* d.queue.Lock()
TakeTurn(g) ==
  /\ gpc[g] = "queued"
  /\ queue = "free"
  /\ queue' = g
  /\ Goto(g, "turn")
  /\ UNCHANGED <<pos, why, got, bps, hits, stepMode, until, paused, closed, box,
                 cancelled, controlVars, runVars, historyVars>>

\* The pause becomes the one that commands are handed to
Block(g) ==
  /\ paused' = <<g, pos[g]>>
  /\ stepMode' = FALSE
  /\ stepPauses' = stepPauses + (IF why[g] = "step" THEN 1 ELSE 0)
  /\ Goto(g, "paused")
  /\ UNCHANGED <<pos, queue>>

\* Mutant: the channel may have been closed while the goroutine waited its turn
HoldClosed(g) ==
  /\ gpc[g] = "turn"
  /\ IF why[g] = "step" /\ ~stepMode
     THEN /\ queue' = "free" /\ Pass(g)
          /\ UNCHANGED <<paused, stepMode, stepPauses>>
     ELSE Block(g)
  /\ why' = [why EXCEPT ![g] = "none"]
  /\ UNCHANGED <<got, bps, hits, until, closed, box, cancelled, controlVars,
                 runVars, stepCmds, abandoned, asked>>

\* The head of pause, under d.mu, once the goroutine has its turn
Hold(g) ==
  /\ gpc[g] = "turn"
  /\ IF closed \/ (why[g] = "step" /\ ~stepMode)
     THEN /\ queue' = "free" /\ Pass(g)
          /\ UNCHANGED <<paused, stepMode, stepPauses>>
     ELSE Block(g)
  /\ why' = [why EXCEPT ![g] = "none"]
  /\ UNCHANGED <<got, bps, hits, until, closed, box, cancelled, controlVars,
                 runVars, stepCmds, abandoned, asked>>

\* case cmd = <-st.resume
Receive(g) ==
  /\ gpc[g] = "paused"
  /\ box[<<g, pos[g]>>] # "empty"
  /\ got' = [got EXCEPT ![g] = box[<<g, pos[g]>>]]
  /\ box' = [box EXCEPT ![<<g, pos[g]>>] = "empty"]
  /\ Goto(g, "taken")
  /\ UNCHANGED <<pos, why, queue, bps, hits, stepMode, until, paused, closed,
                 cancelled, controlVars, runVars, historyVars>>

\* case <-ctx.Done()
ContextDone(g) ==
  /\ gpc[g] = "paused"
  /\ cancelled
  /\ paused' = None
  /\ queue' = "free"
  /\ Goto(g, "failed")
  /\ UNCHANGED <<pos, why, got, bps, hits, stepMode, until, closed, box, cancelled,
                 controlVars, runVars, historyVars>>

\* Mutant: a closed channel releases the step instead of failing it
ApplyNoAbort(g) ==
  /\ gpc[g] = "taken"
  /\ paused' = None
  /\ stepMode' = (got[g] = "step")
  /\ stepCmds' = stepCmds + (IF got[g] = "step" THEN 1 ELSE 0)
  /\ until' \in IF got[g] = "until" THEN BeforePoints ELSE {until}
  /\ queue' = "free"
  /\ IF got[g] = "terminate" THEN Goto(g, "failed") /\ UNCHANGED pos ELSE Pass(g)
  /\ got' = [got EXCEPT ![g] = "none"]
  /\ UNCHANGED <<why, bps, hits, closed, box, cancelled, controlVars, runVars,
                 stepPauses, abandoned, asked>>

\* The end of pause: the command takes effect.  (stepMode has been off since the
\* pause began, so the commands that leave it alone leave it off)
Apply(g) ==
  /\ gpc[g] = "taken"
  /\ paused' = None
  /\ stepMode' = (got[g] = "step")
  /\ stepCmds' = stepCmds + (IF got[g] = "step" THEN 1 ELSE 0)
  /\ until' \in IF got[g] = "until" THEN BeforePoints ELSE {until}
  /\ queue' = "free"
  /\ IF got[g] \in {"terminate", "abort"} THEN Goto(g, "failed") /\ UNCHANGED pos
     ELSE Pass(g)
  /\ got' = [got EXCEPT ![g] = "none"]
  /\ UNCHANGED <<why, bps, hits, closed, box, cancelled, controlVars, runVars,
                 stepPauses, abandoned, asked>>

\* The step itself: it may fail, with or without its context cancelled
Execute(g) ==
  /\ gpc[g] = "exec"
  /\ \/ Goto(g, "at") /\ pos' = [pos EXCEPT ![g] = pos[g] + 1]
     \/ Goto(g, "failed") /\ UNCHANGED pos
  /\ UNCHANGED <<why, got, queue, bps, hits, stepMode, until, paused, closed, box,
                 cancelled, controlVars, runVars, historyVars>>

Goroutine(g) ==
  \/ Match(g) \/ TakeTurn(g) \/ Hold(g) \/ Receive(g) \/ ContextDone(g)
  \/ Apply(g) \/ Execute(g)

(***************************************************************************)
(* The control reader: Serve, Handle, dispatch, evaluate, closeControl.    *)
(***************************************************************************)
AllEnded == \A g \in G : gpc[g] \in Ended

\* A line is read; nobody reads once the process is over
Read ==
  /\ cpc = "read"
  /\ ~over
  /\ reads < MaxCmds
  /\ reads' = reads + 1

\* The reader is done with the line
NextLine == cpc' = "read" /\ cmd' = "none" /\ target' = None

SetBreakpoints ==
  /\ "set_breakpoints" \in Cmds
  /\ Read
  /\ bps' \in BreakpointLists
  /\ hits' = [p \in Points |-> 0]
  /\ UNCHANGED <<goroutineVars, queue, stepMode, until, paused, closed, box,
                 cancelled, cpc, cmd, target, runVars, historyVars>>

\* The locked part of dispatch with nobody paused: the command is applied at once
DispatchRunning(c) ==
  /\ c \in Cmds \cap Resuming
  /\ Read
  /\ paused = None
  /\ stepMode' = IF c = "continue" THEN FALSE ELSE IF c = "step" THEN TRUE ELSE stepMode
  /\ stepCmds' = stepCmds + (IF c = "step" THEN 1 ELSE 0)
  /\ until' \in IF c = "until" THEN BeforePoints ELSE {until}
  /\ cpc' = IF c = "terminate" THEN "cancel" ELSE "read"
  /\ UNCHANGED <<goroutineVars, queue, bps, hits, paused, closed, box, cancelled,
                 cmd, target, runVars, stepPauses, abandoned, asked>>

\* ... and with a pause: the command is handed to it after d.mu is released
DispatchPaused(c) ==
  /\ c \in Cmds \cap Resuming
  /\ Read
  /\ paused # None
  /\ cpc' = "send" /\ cmd' = c /\ target' = paused
  /\ asked' = (asked \/ c = "terminate")
  /\ UNCHANGED <<goroutineVars, queue, bps, hits, stepMode, until, paused, closed,
                 box, cancelled, runVars, stepCmds, stepPauses, abandoned>>

\* cancel()
Cancel ==
  /\ cpc = "cancel"
  /\ cancelled' = TRUE
  /\ cpc' = "read"
  /\ UNCHANGED <<goroutineVars, queue, bps, hits, stepMode, until, paused, closed,
                 box, cmd, target, reads, runVars, historyVars>>

\* select { case p.resume <- cmd: default: }
Send(c) ==
  box' = IF box[target] = "empty" THEN [box EXCEPT ![target] = c] ELSE box

SendCommand ==
  /\ cpc = "send"
  /\ Send(cmd)
  /\ NextLine
  /\ UNCHANGED <<goroutineVars, queue, bps, hits, stepMode, until, paused, closed,
                 cancelled, reads, runVars, historyVars>>

\* evaluate: the expression is rendered after d.mu is released
Evaluate ==
  /\ "evaluate" \in Cmds
  /\ Read
  /\ cpc' = IF paused = None THEN "read" ELSE "render"
  /\ target' = paused
  /\ UNCHANGED <<goroutineVars, queue, bps, hits, stepMode, until, paused, closed,
                 box, cancelled, cmd, runVars, historyVars>>

Render ==
  /\ cpc = "render"
  /\ NextLine
  /\ UNCHANGED <<goroutineVars, queue, bps, hits, stepMode, until, paused, closed,
                 box, cancelled, reads, runVars, historyVars>>

\* The reader ends: closeControl, under d.mu
Close ==
  /\ cpc = "read"
  /\ ~over
  /\ closed' = TRUE
  /\ bps' = [p \in Points |-> "off"] /\ hits' = [p \in Points |-> 0]
  /\ stepMode' = FALSE /\ until' = 0
  /\ target' = paused
  /\ cpc' = IF paused = None THEN "closed" ELSE "abort"
  /\ abandoned' = IF /\ paused # None
                     /\ box[paused] = "empty" /\ gpc[paused[1]] = "paused"
                  THEN paused ELSE None
  /\ UNCHANGED <<goroutineVars, queue, paused, box, cancelled, cmd, reads, runVars,
                 stepCmds, stepPauses, asked>>

SendAbort ==
  /\ cpc = "abort"
  /\ Send("abort")
  /\ cpc' = "closed" /\ target' = None
  /\ UNCHANGED <<goroutineVars, queue, bps, hits, stepMode, until, paused, closed,
                 cancelled, cmd, reads, runVars, historyVars>>

Reader == Cancel \/ SendCommand \/ Render \/ SendAbort

Operator ==
  \/ SetBreakpoints \/ Evaluate \/ Close
  \/ \E c \in Cmds : DispatchRunning(c) \/ DispatchPaused(c)

(***************************************************************************)
(* The end of the run: UpdateRun with the run's context fails when that    *)
(* context is cancelled, and its error is ignored.                         *)
(***************************************************************************)
RunFails == ~IgnoreErrors /\ \E g \in G : gpc[g] = "failed"

EndRun ==
  /\ AllEnded
  /\ ~over
  /\ over' = TRUE
  /\ saved' = IF cancelled THEN saved ELSE IF RunFails THEN "failed" ELSE "completed"
  /\ UNCHANGED <<goroutineVars, queue, bps, hits, stepMode, until, paused, closed,
                 box, cancelled, controlVars, historyVars>>

\* Nothing is left to do
Over == over /\ UNCHANGED vars

Next ==
  \/ (\E g \in G : Goroutine(g)) \/ Reader \/ Operator \/ EndRun \/ Over

(***************************************************************************)
(* Steps are bounded by their timeout and the reader handles what it has   *)
(* read; whether a further command comes, and when the channel closes, is  *)
(* up to the operator.                                                     *)
(***************************************************************************)
Fairness == (\A g \in G : WF_vars(Goroutine(g))) /\ WF_vars(Reader)

Spec == Init /\ [][Next]_vars
FairSpec == Spec /\ Fairness

(***************************************************************************)
(* Properties.                                                             *)
(***************************************************************************)
\* "Only one pause is active at a time", and the pause commands are handed to is the
\* one that is blocked: d.paused is set exactly while one goroutine waits or has not
\* yet applied its command
OnePause ==
  {<<g, pos[g]>> : g \in {h \in G : gpc[h] \in {"paused", "taken"}}}
    = (IF paused = None THEN {} ELSE {paused})

\* "A `continue` drops step-mode pauses queued behind it": every request for step mode
\* is used by one pause at most, however many goroutines saw it and queued
StepPausesAreAskedFor == stepPauses <= stepCmds

\* However matches, turns and commands interleave, the debugger's state is well-formed,
\* agrees with the goroutine that is blocked in it, and no request pauses two of them
PauseInv == TypeOK /\ OnePause /\ StepPausesAreAskedFor

\* "Pause before the next step that starts, in any workflow or iteration": while step
\* mode is on (and the channel open), no goroutine starts a step
StepModeHolds ==
  [][(stepMode /\ ~closed) =>
       \A g \in G : gpc'[g] = "exec" => gpc[g] = "exec"]_vars

\* "So nothing is left blocked": once the control channel is closed every goroutine
\* ends, wherever it was (matched, queued, about to pause or paused)
NothingLeftBlocked == (cpc = "closed") ~> AllEnded

\* "If standard input closes while the run is paused, the run is aborted (failed)": a
\* goroutine that was blocked with no command on its way ends with an error
AbandonedPauseFails ==
  \A g \in G : (abandoned # None /\ abandoned[1] = g) ~> (gpc[g] = "failed")

(***************************************************************************)
(* What docs/reference/debugging.md says, and the code does not do.        *)
(***************************************************************************)
\* "terminate: Stop the run": a terminate read while the run is paused stops it
TerminateStops == (asked /\ over) => saved # "completed"

\* "The step is recorded as failed and the run can be continued with markov resume":
\* a run that a terminate stopped has a status from which it can be resumed
TerminatedIsResumable == (cancelled /\ over) => saved = "failed"

\* "While paused, render the expression against the paused variables": the step does
\* not run, and change the variables, while the expression is rendered
EvaluateWhilePaused == cpc = "render" => gpc[target[1]] \in {"paused", "taken"}

=============================================================================

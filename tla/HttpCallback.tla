---------------------------- MODULE HttpCallback ----------------------------
(***************************************************************************)
(* The HTTP callback of pkg/callback/http.go: a bounded channel that the   *)
(* goroutines of the engine put events into, a sender that posts them one  *)
(* at a time with retries, terminal events that wait until they are sent,  *)
(* and Close, which waits for the sender for a limited time.  An event is  *)
(* named by its place in the channel's order.                              *)
(***************************************************************************)
EXTENDS Integers, Sequences

CONSTANTS
  Workers,      \* goroutines of the engine that report events while the run runs
  MaxEvents,    \* bound on the events of each of them
  ReaderEvents, \* bound on the events of the debugger's control reader
  BufferSize,   \* --callback-buffer-size; 0 or less stands for the default
  Default       \* the default size (1000 in the code)

ASSUME CallbackAssumption ==
  /\ MaxEvents \in Nat /\ ReaderEvents \in Nat
  /\ BufferSize \in Int /\ Default \in Nat \ {0}
  /\ {"main", "reader"} \cap Workers = {}

Capacity == IF BufferSize <= 0 THEN Default ELSE BufferSize
Attempts == 3

VARIABLES
  ch,        \* the channel: the events that wait
  closed,    \* the channel is closed
  count,     \* events enqueued so far
  left,      \* left[w]: events worker w has still to report
  waits,     \* waits[p]: the event whose `done` process p waits for, or 0
  reader,    \* events the control reader has still to report
  main,      \* where the main goroutine is
  cur, try,  \* the event the sender holds (0: none), and the attempts so far
  sender,    \* FALSE once sendLoop has returned
  settled,   \* the events the sender is done with
  received,  \* the events that reached the destination, in order
  timedOut   \* Close gave up waiting

vars == <<ch, closed, count, left, waits, reader, main, cur, try, sender, settled,
          received, timedOut>>

Procs == Workers \cup {"main"}
Live == main \notin {"exit", "panic"}

TypeOK ==
  /\ ch \in Seq(1..count) /\ Len(ch) <= Capacity
  /\ closed \in BOOLEAN /\ sender \in BOOLEAN /\ timedOut \in BOOLEAN
  /\ count \in Nat
  /\ left \in [Workers -> 0..MaxEvents]
  /\ waits \in [Procs -> 0..count]
  /\ reader \in 0..ReaderEvents
  /\ main \in {"running", "flush", "close", "closing", "exit", "panic"}
  /\ cur \in 0..count /\ try \in 0..Attempts
  /\ settled \subseteq 1..count
  /\ received \in Seq(1..count)

Init ==
  /\ ch = <<>> /\ closed = FALSE /\ count = 0
  /\ left \in [Workers -> 0..MaxEvents]
  /\ waits = [p \in Procs |-> 0]
  /\ reader \in 0..ReaderEvents
  /\ main = "running"
  /\ cur = 0 /\ try = 0 /\ sender = TRUE
  /\ settled = {} /\ received = <<>> /\ timedOut = FALSE

(***************************************************************************)
(* send and sendAndFlush.                                                  *)
(***************************************************************************)
\* h.ch <- httpEvent{...}: blocks while the channel is full
Enqueue ==
  /\ Len(ch) < Capacity
  /\ ch' = Append(ch, count + 1)
  /\ count' = count + 1

senderVars == <<cur, try, sender, settled, received>>

\* A goroutine of the engine reports an event.  run_paused of an item's sub-run is
\* flushed: the goroutine waits until it is sent
Report(w) ==
  /\ Live /\ left[w] > 0 /\ waits[w] = 0
  /\ Enqueue
  /\ left' = [left EXCEPT ![w] = @ - 1]
  /\ \/ UNCHANGED waits
     \/ waits' = [waits EXCEPT ![w] = count + 1]
  /\ UNCHANGED <<closed, reader, main, senderVars, timedOut>>

\* Mutant: done is closed when the sender takes the event
FlushReturnsTaken(p) ==
  /\ Live
  /\ waits[p] \in settled \cup ({cur} \ {0})
  /\ waits' = [waits EXCEPT ![p] = 0]
  /\ main' = IF p = "main" THEN "close" ELSE main
  /\ UNCHANGED <<ch, closed, count, left, reader, senderVars, timedOut>>

\* <-done, which the sender closes when it is done with the event
FlushReturns(p) ==
  /\ Live
  /\ waits[p] \in settled
  /\ waits' = [waits EXCEPT ![p] = 0]
  /\ main' = IF p = "main" THEN "close" ELSE main
  /\ UNCHANGED <<ch, closed, count, left, reader, senderVars, timedOut>>

\* run_completed, run_failed or run_paused of the run, when its steps have ended
Terminal ==
  /\ main = "running"
  /\ \A w \in Workers : left[w] = 0 /\ waits[w] = 0
  /\ Enqueue
  /\ waits' = [waits EXCEPT !["main"] = count + 1]
  /\ main' = "flush"
  /\ UNCHANGED <<closed, left, reader, senderVars, timedOut>>

\* json.Marshal refuses an event (the facts of a receipt may be anything): the call
\* returns its error, which is only logged, and nothing is sent or waited for
Unmarshalled(p) ==
  /\ Live
  /\ \/ /\ p \in Workers /\ left[p] > 0 /\ waits[p] = 0
        /\ left' = [left EXCEPT ![p] = @ - 1]
        /\ UNCHANGED main
     \/ /\ p = "main" /\ main = "running"
        /\ \A w \in Workers : left[w] = 0 /\ waits[w] = 0
        /\ main' = "close"
        /\ UNCHANGED left
  /\ UNCHANGED <<ch, closed, count, waits, reader, senderVars, timedOut>>

\* The debugger's control reader reports an event: it lives until the process ends,
\* and a send on a closed channel panics
ReaderReports ==
  /\ Live /\ reader > 0
  /\ \/ ~closed /\ Enqueue /\ UNCHANGED main
     \/ closed /\ main' = "panic" /\ UNCHANGED <<ch, count>>
  /\ reader' = reader - 1
  /\ UNCHANGED <<closed, left, waits, senderVars, timedOut>>

(***************************************************************************)
(* sendLoop and sendWithRetry.                                             *)
(***************************************************************************)
clientVars == <<closed, count, left, waits, reader, main, timedOut>>

Take ==
  /\ Live /\ sender /\ cur = 0 /\ ch # <<>>
  /\ cur' = Head(ch) /\ ch' = Tail(ch) /\ try' = 0
  /\ UNCHANGED <<clientVars, sender, settled, received>>

Settle == settled' = settled \cup {cur} /\ cur' = 0 /\ try' = 0

Arrives == received' = Append(received, cur)

\* 2xx; or the event is given up at once: no request can be built, 3xx or 4xx
Answered ==
  /\ Live /\ cur # 0
  /\ Arrives \/ UNCHANGED received
  /\ Settle
  /\ UNCHANGED <<ch, clientVars, sender>>

\* Mutants: retries never end; a failed event goes back to the end of the channel
FailedForever ==
  /\ Live /\ cur # 0
  /\ try' = (try + 1) % Attempts
  /\ UNCHANGED <<cur, received, settled, ch, clientVars, sender>>
FailedRequeued ==
  /\ Live /\ cur # 0 /\ Len(ch) < Capacity
  /\ Arrives \/ UNCHANGED received
  /\ ch' = Append(ch, cur)
  /\ Settle
  /\ UNCHANGED <<clientVars, sender>>

\* A network error, a timeout or 5xx, whether or not the event reached the
\* destination: the third one is the last
Failed ==
  /\ Live /\ cur # 0
  /\ Arrives \/ UNCHANGED received
  /\ IF try + 1 < Attempts THEN try' = try + 1 /\ UNCHANGED <<cur, settled>>
     ELSE Settle
  /\ UNCHANGED <<ch, clientVars, sender>>

\* The channel is closed and empty
LoopEnds ==
  /\ Live /\ sender /\ cur = 0 /\ closed /\ ch = <<>>
  /\ sender' = FALSE
  /\ UNCHANGED <<ch, clientVars, cur, try, settled, received>>

Sender == Take \/ Answered \/ Failed \/ LoopEnds

(***************************************************************************)
(* Close, and the end of the process.                                      *)
(***************************************************************************)
Close ==
  /\ main = "close"
  /\ closed' = TRUE
  /\ main' = "closing"
  /\ UNCHANGED <<ch, count, left, waits, reader, senderVars, timedOut>>

CloseReturns ==
  /\ main = "closing"
  /\ \/ ~sender /\ UNCHANGED timedOut
     \/ sender /\ timedOut' = TRUE
  /\ main' = "exit"
  /\ UNCHANGED <<ch, closed, count, left, waits, reader, senderVars>>

Ended == ~Live /\ UNCHANGED vars

Next ==
  \/ (\E w \in Workers : Report(w)) \/ Terminal \/ Close \/ CloseReturns
  \/ (\E p \in Procs : FlushReturns(p) \/ Unmarshalled(p))
  \/ ReaderReports \/ Sender \/ Ended

Spec == Init /\ [][Next]_vars

(***************************************************************************)
(* Properties.                                                             *)
(***************************************************************************)
\* "run_completed, run_failed, and run_paused events block until sent": when such a
\* call returns, the sender is done with its event and with every event that any
\* goroutine reported before it
FlushCoversEarlier ==
  [][\A p \in Procs : (waits[p] # 0 /\ waits'[p] = 0) => 1..waits[p] \subseteq settled]_vars

\* The destination sees events in the order they were reported: an event may arrive
\* again (its answer was lost) but never after a later one
DeliveredInOrder ==
  \A i, j \in DOMAIN received : i < j => received[i] <= received[j]

\* "Drains the buffer": when Close returns without having timed out no event is left
DrainedOnClose == (main = "exit" /\ ~timedOut) => 1..count = settled

\* Whatever the destination does, the buffer keeps its bound, the destination sees the
\* events in order, and a Close that had the time leaves none behind
SenderInv == TypeOK /\ DeliveredInOrder /\ DrainedOnClose

\* "If a callback destination is unreachable, events are dropped after retries and the
\* workflow continues": whatever the destination does, the process ends
ProcessEnds == <>(~Live)

\* docs/reference/callbacks.md: callback errors "never fail the workflow"
NeverPanics == main # "panic"

=============================================================================

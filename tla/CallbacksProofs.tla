-------------------------- MODULE CallbacksProofs --------------------------
(***************************************************************************)
(* Proofs about HttpCallback and Callbacks, for any number of goroutines   *)
(* and events, any buffer size and whatever the destinations do.           *)
(***************************************************************************)
EXTENDS Callbacks, SequenceTheorems, TLAPS

(***************************************************************************)
(* The HTTP callback.                                                      *)
(***************************************************************************)
HttpForm ==
  /\ ch \in Seq(Nat) /\ received \in Seq(Nat)
  /\ closed \in BOOLEAN /\ sender \in BOOLEAN /\ timedOut \in BOOLEAN
  /\ count \in Nat
  /\ left \in [Workers -> 0..MaxEvents]
  /\ waits \in [Procs -> 0..count]
  /\ reader \in 0..ReaderEvents
  /\ main \in {"running", "flush", "close", "closing", "exit", "panic"}
  /\ cur \in Nat /\ try \in 0..Attempts

\* The events that the sender has taken from the channel
Taken == count - Len(ch)

\* The channel holds the events after the last one taken, which is the one in hand
QueueInv ==
  /\ Len(ch) <= Capacity /\ Len(ch) <= count
  /\ \A i \in 1..Len(ch) : ch[i] = Taken + i
  /\ cur # 0 => cur = Taken

\* The sender is done with all that it has taken but the one in hand
SettledInv == settled = 1..(IF cur = 0 THEN Taken ELSE Taken - 1)

\* What has arrived is of the events taken, and in order
ArrivedInv ==
  /\ \A i \in 1..Len(received) : received[i] \in 1..Taken
  /\ \A i, j \in 1..Len(received) : i < j => received[i] <= received[j]

\* The goroutines have ended before the run's last event, and that event is sent
\* before Close; the sender ends with an empty channel that nothing is sent to
PhasesInv ==
  /\ main # "running" => \A w \in Workers : left[w] = 0
  /\ waits["main"] # 0 => main = "flush"
  /\ closed => main \in {"closing", "exit", "panic"}
  /\ main \in {"closing", "exit"} => closed
  /\ ~sender => closed /\ Len(ch) = 0 /\ cur = 0
  /\ main = "exit" /\ ~timedOut => ~sender

HttpInv == HttpForm /\ QueueInv /\ SettledInv /\ ArrivedInv /\ PhasesInv

(***************************************************************************)
(* The log.                                                                *)
(***************************************************************************)
Stage == {"idle", "http", "lock", "encode", "half", "sync", "grpc"}
Fire == [at : Stage, event : Nat]
Line == [event : Nat, by : Firing, whole : BOOLEAN]

LogForm ==
  /\ logging \in BOOLEAN /\ broken \in BOOLEAN
  /\ fire \in [Firing -> Fire] /\ lines \in Seq(Line)

\* A goroutine that reports an event has one of its own
FiringInv ==
  /\ \A p \in Firing : fire[p] = Idle \/ (fire[p].at # "idle" /\ fire[p].event \in 1..count)
  /\ \A p, q \in Firing : (p # q /\ fire[p].at # "idle" /\ fire[q].at # "idle")
                            => fire[p].event # fire[q].event

\* The lock is held by one at most
LockInv == \A p, q \in Holder : p = q

\* A line that is being written is the last; one to come is new, and later than those
\* of the same goroutine
Pending(p) == fire[p].at \in {"http", "lock", "encode"}

LinesInv ==
  /\ \A i \in 1..Len(lines) : lines[i].event \in 1..count
  /\ \A p \in Firing : fire[p].at = "half" => Len(lines) > 0
  /\ \A p \in Firing : Pending(p) =>
       \A i \in 1..Len(lines) :
         /\ lines[i].event # fire[p].event
         /\ lines[i].by = p => lines[i].event < fire[p].event

\* The run's last event is reported when its goroutines are done, and only once
LastInv ==
  /\ main # "running" => \A w \in Workers : fire[w] = Idle
  /\ main = "running" => fire["main"] = Idle
  /\ main = "running" \/ Pending("main") => \A i \in 1..Len(lines) : lines[i].by # "main"
  /\ main \in {"closing", "exit"} => fire["main"] = Idle

\* An event is in the file, or will be, or could not be written
AllLogged ==
  logging => \A e \in 1..count :
    \/ broken
    \/ \E i \in 1..Len(lines) : lines[i].event = e
    \/ \E p \in Firing : Pending(p) /\ fire[p].event = e

LogIndInv ==
  LogForm /\ FiringInv /\ LockInv /\ LinesInv /\ LinesAreWhole /\ LogInOrder
          /\ LastInv /\ AllLogged

-----------------------------------------------------------------------------
(***************************************************************************)
(* Proof of the HTTP callback's invariant.                                 *)
(***************************************************************************)
LEMMA CapacityForm == Capacity \in Nat \ {0}
BY CallbackAssumption DEF Capacity

LEMMA HttpNumbers ==
  ASSUME HttpInv
  PROVE  /\ Len(ch) \in Nat /\ Len(received) \in Nat /\ Taken \in Nat
         /\ cur # 0 => Taken >= 1
BY LenProperties DEF HttpInv, HttpForm, QueueInv, Taken

LEMMA HttpInit == Init => HttpInv
<1> SUFFICES ASSUME Init PROVE HttpInv
  OBVIOUS
<1>1. <<>> \in Seq(Nat) /\ Len(<<>>) = 0
  BY EmptySeq
<1>2. HttpForm
  <2>1. waits \in [Procs -> 0..count] /\ try \in 0..Attempts
    BY DEF Init, Attempts
  <2> QED BY <1>1, <2>1 DEF Init, HttpForm
<1>3. QueueInv /\ SettledInv /\ ArrivedInv
  BY <1>1, CapacityForm DEF Init, QueueInv, SettledInv, ArrivedInv, Taken
<1>4. PhasesInv
  BY DEF Init, PhasesInv, Procs
<1> QED BY <1>2, <1>3, <1>4 DEF HttpInv

\* An event goes to the end of the channel; those before it stay where they are
LEMMA Enqueued ==
  ASSUME HttpInv, Enqueue
  PROVE  /\ ch' \in Seq(Nat) /\ count' = count + 1
         /\ Len(ch') = Len(ch) + 1 /\ Taken' = Taken
         /\ Len(ch') <= Capacity /\ Len(ch') <= count'
         /\ \A i \in 1..Len(ch') : ch'[i] = Taken + i
<1>1. ch \in Seq(Nat) /\ count + 1 \in Nat /\ count \in Nat /\ Len(ch) \in Nat
  BY HttpNumbers DEF HttpInv, HttpForm
<1>2. /\ ch' \in Seq(Nat) /\ Len(ch') = Len(ch) + 1
      /\ \A i \in 1..Len(ch) : ch'[i] = ch[i]
      /\ ch'[Len(ch) + 1] = count + 1
  BY <1>1, AppendProperties DEF Enqueue
<1>3. Taken' = Taken
  BY <1>1, <1>2 DEF Enqueue, Taken
<1>4. ASSUME NEW i \in 1..Len(ch') PROVE ch'[i] = Taken + i
  <2>1. CASE i \in 1..Len(ch)
    BY <1>2, <2>1 DEF HttpInv, QueueInv
  <2>2. CASE i = Len(ch) + 1
    BY <1>1, <1>2, <2>2 DEF Taken
  <2> QED BY <1>1, <1>2, <2>1, <2>2
<1> QED BY <1>1, <1>2, <1>3, <1>4, CapacityForm DEF Enqueue, HttpInv, QueueInv

\* Nothing the sender has is disturbed
LEMMA SenderKeeps ==
  ASSUME HttpInv, UNCHANGED senderVars, Taken' = Taken
  PROVE  SettledInv' /\ ArrivedInv' /\ (cur' # 0 => cur' = Taken')
BY DEF HttpInv, QueueInv, SettledInv, ArrivedInv, senderVars

LEMMA WaitsGrow ==
  ASSUME NEW n \in Nat, NEW f \in [Procs -> 0..n], NEW p \in Procs
  PROVE  f \in [Procs -> 0..(n + 1)] /\ [f EXCEPT ![p] = n + 1] \in [Procs -> 0..(n + 1)]
<1>1. \A q \in Procs : f[q] \in 0..(n + 1)
  BY SMT
<1>2. n + 1 \in 0..(n + 1)
  BY SMT
<1> QED BY <1>1, <1>2

LEMMA ReportInv ==
  ASSUME HttpInv, NEW w \in Workers, Report(w)
  PROVE  HttpInv'
<1>1. /\ Enqueue /\ Live /\ left[w] > 0 /\ waits[w] = 0
      /\ left' = [left EXCEPT ![w] = @ - 1]
      /\ waits' = waits \/ waits' = [waits EXCEPT ![w] = count + 1]
      /\ UNCHANGED <<closed, reader, main, senderVars, timedOut>>
  BY DEF Report
<1>2. w \in Procs /\ w # "main" /\ "main" \in Procs
  BY CallbackAssumption DEF Procs
<1>3. main = "running"
  BY <1>1 DEF HttpInv, HttpForm, PhasesInv
<1>4. HttpForm'
  <2>1. count \in Nat /\ count' = count + 1 /\ ch' \in Seq(Nat)
    BY <1>1, Enqueued DEF HttpInv, HttpForm
  <2>2. waits' \in [Procs -> 0..count']
    <3>1. waits \in [Procs -> 0..count]
      BY DEF HttpInv, HttpForm
    <3>2. /\ waits \in [Procs -> 0..(count + 1)]
          /\ [waits EXCEPT ![w] = count + 1] \in [Procs -> 0..(count + 1)]
      BY <1>2, <2>1, <3>1, WaitsGrow
    <3> QED BY <1>1, <2>1, <3>2
  <2>3. left' \in [Workers -> 0..MaxEvents]
    BY <1>1, CallbackAssumption DEF HttpInv, HttpForm
  <2> QED BY <1>1, <2>1, <2>2, <2>3 DEF HttpInv, HttpForm, senderVars
<1>5. QueueInv' /\ SettledInv' /\ ArrivedInv'
  BY <1>1, Enqueued, SenderKeeps DEF QueueInv
<1>6. PhasesInv'
  BY <1>1, <1>2, <1>3, Enqueued DEF HttpInv, HttpForm, PhasesInv, senderVars
<1> QED BY <1>4, <1>5, <1>6 DEF HttpInv

LEMMA TerminalInv == ASSUME HttpInv, Terminal PROVE HttpInv'
<1>1. /\ Enqueue /\ main = "running" /\ main' = "flush"
      /\ \A w \in Workers : left[w] = 0
      /\ waits' = [waits EXCEPT !["main"] = count + 1]
      /\ UNCHANGED <<closed, left, reader, senderVars, timedOut>>
  BY DEF Terminal
<1>2. HttpForm'
  <2>1. count \in Nat /\ count' = count + 1 /\ ch' \in Seq(Nat)
    BY <1>1, Enqueued DEF HttpInv, HttpForm
  <2>2. waits' \in [Procs -> 0..count']
    <3>1. "main" \in Procs
      BY DEF Procs
    <3> QED BY <1>1, <2>1, <3>1, WaitsGrow DEF HttpInv, HttpForm
  <2> QED BY <1>1, <2>1, <2>2 DEF HttpInv, HttpForm, senderVars
<1>3. QueueInv' /\ SettledInv' /\ ArrivedInv'
  BY <1>1, Enqueued, SenderKeeps DEF QueueInv
<1>4. PhasesInv'
  BY <1>1, Enqueued DEF HttpInv, HttpForm, PhasesInv, senderVars
<1> QED BY <1>2, <1>3, <1>4 DEF HttpInv

LEMMA ReaderInv == ASSUME HttpInv, ReaderReports PROVE HttpInv'
<1>1. /\ Live /\ reader > 0 /\ reader' = reader - 1
      /\ UNCHANGED <<closed, left, waits, senderVars, timedOut>>
  BY DEF ReaderReports
<1>2. CASE ~ closed /\ Enqueue /\ UNCHANGED main
  <2>1. HttpForm'
    BY <1>1, <1>2, Enqueued, CallbackAssumption DEF HttpInv, HttpForm, senderVars
  <2>2. QueueInv' /\ SettledInv' /\ ArrivedInv'
    BY <1>1, <1>2, Enqueued, SenderKeeps DEF QueueInv
  <2>3. PhasesInv'
    BY <1>1, <1>2, Enqueued DEF HttpInv, HttpForm, PhasesInv, senderVars
  <2> QED BY <2>1, <2>2, <2>3 DEF HttpInv
<1>3. CASE closed /\ main' = "panic" /\ UNCHANGED <<ch, count>>
  <2>0. Taken' = Taken
    BY <1>3 DEF Taken
  <2>1. HttpForm'
    BY <1>1, <1>3, CallbackAssumption DEF HttpInv, HttpForm, senderVars
  <2>2. QueueInv' /\ SettledInv' /\ ArrivedInv'
    BY <1>1, <1>3, <2>0, SenderKeeps DEF HttpInv, QueueInv
  <2>3. PhasesInv'
    BY <1>1, <1>3 DEF HttpInv, HttpForm, PhasesInv, senderVars, Live
  <2> QED BY <2>1, <2>2, <2>3 DEF HttpInv
<1> QED BY <1>2, <1>3 DEF ReaderReports

LEMMA FlushInv ==
  ASSUME HttpInv, NEW p \in Procs, FlushReturns(p)
  PROVE  HttpInv'
<1>1. /\ Live /\ waits[p] \in settled /\ waits' = [waits EXCEPT ![p] = 0]
      /\ main' = IF p = "main" THEN "close" ELSE main
      /\ UNCHANGED <<ch, closed, count, left, reader, senderVars, timedOut>>
  BY DEF FlushReturns
<1>2. waits[p] # 0
  BY <1>1, HttpNumbers DEF HttpInv, SettledInv
<1>3. Taken' = Taken
  BY <1>1 DEF Taken
<1>4. HttpForm'
  BY <1>1 DEF HttpInv, HttpForm, senderVars
<1>5. QueueInv' /\ SettledInv' /\ ArrivedInv'
  BY <1>1, <1>3, SenderKeeps DEF HttpInv, QueueInv
<1>6. PhasesInv'
  BY <1>1, <1>2 DEF HttpInv, HttpForm, PhasesInv, senderVars, Procs
<1> QED BY <1>4, <1>5, <1>6 DEF HttpInv

LEMMA TakeInv == ASSUME HttpInv, Take PROVE HttpInv'
<1>1. /\ Live /\ sender /\ cur = 0 /\ ch # <<>>
      /\ cur' = Head(ch) /\ ch' = Tail(ch) /\ try' = 0
      /\ UNCHANGED <<clientVars, sender, settled, received>>
  BY DEF Take
<1>2. /\ ch \in Seq(Nat) /\ Len(ch) \in Nat \ {0} /\ count \in Nat /\ Taken \in Nat
      /\ Len(ch) <= Capacity /\ Len(ch) <= count
      /\ \A i \in 1..Len(ch) : ch[i] = Taken + i
  BY <1>1, EmptySeq, HttpNumbers DEF HttpInv, HttpForm, QueueInv
<1>3. /\ ch' \in Seq(Nat) /\ Len(ch') = Len(ch) - 1 /\ cur' = ch[1]
      /\ \A i \in 1..Len(ch') : ch'[i] = ch[i + 1]
  BY <1>1, <1>2, HeadTailProperties
<1>4. Taken' = Taken + 1 /\ cur' = Taken'
  BY <1>1, <1>2, <1>3 DEF Taken, clientVars
<1>5. HttpForm'
  BY <1>1, <1>2, <1>3, <1>4 DEF HttpInv, HttpForm, clientVars, Attempts
<1>6. QueueInv'
  BY <1>1, <1>2, <1>3, <1>4, CapacityForm DEF QueueInv, clientVars
<1>7. SettledInv'
  BY <1>1, <1>2, <1>4 DEF HttpInv, SettledInv
<1>8. ArrivedInv'
  BY <1>1, <1>2, <1>4 DEF HttpInv, ArrivedInv
<1>9. PhasesInv'
  BY <1>1 DEF HttpInv, HttpForm, PhasesInv, clientVars
<1> QED BY <1>5, <1>6, <1>7, <1>8, <1>9 DEF HttpInv

\* The event in hand arrives, or does not
LEMMA ArrivesInv ==
  ASSUME HttpInv, cur # 0, Arrives \/ UNCHANGED received, Taken' = Taken
  PROVE  received' \in Seq(Nat) /\ ArrivedInv'
<1>1. /\ received \in Seq(Nat) /\ Len(received) \in Nat /\ cur \in Nat /\ cur = Taken
      /\ cur \in 1..Taken
  BY HttpNumbers DEF HttpInv, HttpForm, QueueInv
<1>2. CASE Arrives
  <2>1. /\ received' \in Seq(Nat) /\ Len(received') = Len(received) + 1
        /\ \A i \in 1..Len(received) : received'[i] = received[i]
        /\ received'[Len(received) + 1] = cur
    BY <1>1, <1>2, AppendProperties DEF Arrives
  <2>2. ASSUME NEW i \in 1..Len(received') PROVE received'[i] \in 1..Taken
    <3>1. CASE i \in 1..Len(received)
      BY <2>1, <3>1 DEF HttpInv, ArrivedInv
    <3>2. CASE i = Len(received) + 1
      BY <1>1, <2>1, <3>2
    <3> QED BY <1>1, <2>1, <3>1, <3>2
  <2>3. ASSUME NEW i \in 1..Len(received'), NEW j \in 1..Len(received'), i < j
        PROVE  received'[i] <= received'[j]
    <3>1. i \in 1..Len(received)
      BY <1>1, <2>1, <2>3
    <3>2. CASE j \in 1..Len(received)
      BY <2>1, <2>3, <3>1, <3>2 DEF HttpInv, ArrivedInv
    <3>3. CASE j = Len(received) + 1
      BY <1>1, <2>1, <3>1, <3>3 DEF HttpInv, ArrivedInv
    <3> QED BY <1>1, <2>1, <3>2, <3>3
  <2> QED BY <2>1, <2>2, <2>3 DEF ArrivedInv
<1>3. CASE UNCHANGED received
  BY <1>1, <1>3 DEF HttpInv, ArrivedInv
<1> QED BY <1>2, <1>3

LEMMA AnsweredInv == ASSUME HttpInv, Answered \/ Failed PROVE HttpInv'
<1>1. /\ Live /\ cur # 0 /\ (Arrives \/ UNCHANGED received)
      /\ UNCHANGED <<ch, clientVars, sender>>
  BY DEF Answered, Failed
<1>2. Settle \/ (try + 1 < Attempts /\ try' = try + 1 /\ UNCHANGED <<cur, settled>>)
  BY DEF Answered, Failed
<1>3. Taken' = Taken
  BY <1>1 DEF Taken, clientVars
<1>4. received' \in Seq(Nat) /\ ArrivedInv'
  BY <1>1, <1>3, ArrivesInv
<1>5. HttpForm' /\ QueueInv'
  BY <1>1, <1>2, <1>3, <1>4 DEF HttpInv, HttpForm, QueueInv, clientVars, Settle, Attempts
<1>6. SettledInv'
  <2>1. Taken \in Nat /\ Taken >= 1 /\ cur = Taken /\ settled = 1..(Taken - 1)
    BY <1>1, HttpNumbers DEF HttpInv, QueueInv, SettledInv
  <2>2. CASE Settle
    BY <1>3, <2>1, <2>2 DEF Settle, SettledInv
  <2>3. CASE UNCHANGED <<cur, settled>>
    BY <1>3, <2>3 DEF HttpInv, SettledInv
  <2> QED BY <1>2, <2>2, <2>3
<1>7. PhasesInv'
  BY <1>1, <1>2 DEF HttpInv, HttpForm, PhasesInv, clientVars, Settle
<1> QED BY <1>4, <1>5, <1>6, <1>7 DEF HttpInv

\* The steps that only end something
LEMMA EndsInv == ASSUME HttpInv, LoopEnds \/ Close \/ CloseReturns PROVE HttpInv'
<1>1. UNCHANGED <<ch, count, left, waits, reader, cur, try, settled, received>>
  BY DEF LoopEnds, Close, CloseReturns, senderVars, clientVars
<1>2. Taken' = Taken
  BY <1>1 DEF Taken
<1>3. QueueInv' /\ SettledInv' /\ ArrivedInv'
  BY <1>1, <1>2 DEF HttpInv, QueueInv, SettledInv, ArrivedInv
<1>4. CASE LoopEnds
  <2>1. Len(ch) = 0
    BY <1>4, EmptySeq DEF LoopEnds
  <2> QED BY <1>1, <1>3, <1>4, <2>1 DEF LoopEnds, clientVars, HttpInv, HttpForm, PhasesInv
<1>5. CASE Close
  BY <1>1, <1>3, <1>5 DEF Close, senderVars, HttpInv, HttpForm, PhasesInv
<1>6. CASE CloseReturns
  BY <1>1, <1>3, <1>6 DEF CloseReturns, senderVars, HttpInv, HttpForm, PhasesInv
<1> QED BY <1>4, <1>5, <1>6

LEMMA UnmarshalledInv == ASSUME HttpInv, NEW p \in Procs, Unmarshalled(p) PROVE HttpInv'
<1>1. UNCHANGED <<ch, closed, count, waits, reader, senderVars, timedOut>>
  BY DEF Unmarshalled
<1>2. Taken' = Taken
  BY <1>1 DEF Taken
<1>3. QueueInv' /\ SettledInv' /\ ArrivedInv'
  BY <1>1, <1>2, SenderKeeps DEF HttpInv, QueueInv
<1>4. CASE /\ p \in Workers /\ Live /\ left[p] > 0 /\ UNCHANGED main
           /\ left' = [left EXCEPT ![p] = @ - 1]
  <2>1. main = "running"
    BY <1>4 DEF HttpInv, HttpForm, PhasesInv
  <2>2. left' \in [Workers -> 0..MaxEvents]
    BY <1>4, CallbackAssumption DEF HttpInv, HttpForm
  <2> QED BY <1>1, <1>3, <1>4, <2>1, <2>2 DEF senderVars, HttpInv, HttpForm, PhasesInv
<1>5. CASE /\ main = "running" /\ main' = "close" /\ UNCHANGED left
           /\ \A w \in Workers : left[w] = 0 /\ waits[w] = 0
  BY <1>1, <1>3, <1>5 DEF senderVars, HttpInv, HttpForm, PhasesInv
<1> QED BY <1>4, <1>5 DEF Unmarshalled

LEMMA HttpStepInv == HttpInv /\ [Next]_vars => HttpInv'
<1> SUFFICES ASSUME HttpInv, [Next]_vars PROVE HttpInv'
  OBVIOUS
<1>1. CASE UNCHANGED vars
  BY <1>1 DEF vars, HttpInv, HttpForm, QueueInv, SettledInv, ArrivedInv, PhasesInv, Taken
<1>2. CASE \E p \in Procs : FlushReturns(p) \/ Unmarshalled(p)
  BY <1>2, FlushInv, UnmarshalledInv
<1> QED BY <1>1, <1>2, ReportInv, TerminalInv, ReaderInv, TakeInv, AnsweredInv, EndsInv
        DEF Next, Sender, Ended

LEMMA HttpInvariance == Spec => []HttpInv
BY HttpInit, HttpStepInv, PTL DEF Spec

\* Whatever the destination answers, loses or delays, and whoever reports at once: the
\* buffer keeps its bound, events arrive in the order they were reported, and a Close
\* that did not time out leaves none behind
THEOREM SenderKeepsOrder == Spec => []SenderInv
<1>1. HttpInv => SenderInv
  <2> SUFFICES ASSUME HttpInv PROVE SenderInv
    OBVIOUS
  <2>1. Len(ch) \in Nat /\ Len(received) \in Nat /\ Taken \in Nat /\ count \in Nat
    BY HttpNumbers DEF HttpInv, HttpForm
  <2>2. Taken <= count
    BY <2>1 DEF Taken
  <2>3. ch \in Seq(1..count)
    <3>1. \A i \in 1..Len(ch) : ch[i] \in 1..count
      BY <2>1 DEF HttpInv, QueueInv, Taken
    <3>2. ch \in [1..Len(ch) -> Nat]
      BY LenProperties DEF HttpInv, HttpForm
    <3>3. ch \in [1..Len(ch) -> 1..count]
      BY <3>1, <3>2
    <3> QED BY <2>1, <3>3, SeqDef
  <2>4. received \in Seq(1..count)
    <3>1. received \in [1..Len(received) -> 1..count]
      BY <2>1, <2>2, LenProperties DEF HttpInv, HttpForm, ArrivedInv
    <3> QED BY <2>1, <3>1, SeqDef
  <2>5. TypeOK
    BY <2>1, <2>2, <2>3, <2>4 DEF HttpInv, HttpForm, QueueInv, SettledInv, TypeOK
  <2>6. DeliveredInOrder
    BY LenProperties DEF HttpInv, HttpForm, ArrivedInv, DeliveredInOrder
  <2>7. DrainedOnClose
    BY <2>1 DEF HttpInv, SettledInv, PhasesInv, DrainedOnClose, Taken
  <2> QED BY <2>5, <2>6, <2>7 DEF SenderInv
<1> QED BY <1>1, HttpInvariance, PTL

LEMMA FlushStep ==
  ASSUME HttpInv, [Next]_vars, NEW p \in Procs, waits[p] # 0, waits'[p] = 0
  PROVE  1..waits[p] \subseteq settled
<1>1. waits[p] \in 0..count /\ count \in Nat
  BY DEF HttpInv, HttpForm
<1>2. waits[p] \in settled
  <2>1. CASE \E q \in Procs : FlushReturns(q)
    BY <2>1 DEF FlushReturns, HttpInv, HttpForm
  <2>2. CASE \E w \in Workers : Report(w)
    BY <1>1, <2>2 DEF Report, HttpInv, HttpForm
  <2>3. CASE Terminal
    BY <1>1, <2>3 DEF Terminal, HttpInv, HttpForm
  <2>4. CASE UNCHANGED waits
    BY <2>4
  <2>5. CASE \E q \in Procs : Unmarshalled(q)
    BY <2>4, <2>5 DEF Unmarshalled
  <2> QED BY <2>1, <2>2, <2>3, <2>4, <2>5
          DEF Next, Sender, Take, Answered, Failed, LoopEnds, clientVars, Close, CloseReturns,
              ReaderReports, Ended, vars
<1> QED BY <1>1, <1>2, HttpNumbers DEF HttpInv, SettledInv

\* When the report of a terminal event returns, the sender is done with that event and
\* with every event that any goroutine reported before it
THEOREM FlushedUpTo == Spec => FlushCoversEarlier
<1>1. HttpInv /\ [Next]_vars =>
        [\A p \in Procs : (waits[p] # 0 /\ waits'[p] = 0) => 1..waits[p] \subseteq settled]_vars
  BY FlushStep
<1> QED BY <1>1, HttpInvariance, PTL DEF Spec, FlushCoversEarlier

-----------------------------------------------------------------------------
(***************************************************************************)
(* With more destinations the HTTP callback works as before.               *)
(***************************************************************************)
LEMMA FanOutStep == [FanOutNext]_allVars => [Next]_vars
<1> SUFFICES ASSUME [FanOutNext]_allVars PROVE [Next]_vars
  OBVIOUS
<1>1. CASE RunStep
  BY <1>1 DEF RunStep, Next
<1>2. CASE HttpStep
  BY <1>2 DEF HttpStep, Next
<1>3. ASSUME NEW p \in Firing, FanOut(p) PROVE UNCHANGED vars
  BY <1>3 DEF FanOut, HttpReturned, Lock, Encode, Written, Sync, Invoke
<1>4. CASE ReaderStep
  BY <1>4 DEF ReaderStep, Next
<1>5. CASE Ended /\ UNCHANGED logVars
  BY <1>5 DEF Ended
<1>6. CASE UNCHANGED allVars
  BY <1>6 DEF allVars
<1> QED BY <1>1, <1>2, <1>3, <1>4, <1>5, <1>6 DEF FanOutNext, Progress

\* fireEvent with several destinations implements the HTTP callback alone
THEOREM FanOutImplementsHttp == FanOutSpec => Spec
<1>1. FanOutInit => Init
  BY DEF FanOutInit
<1> QED BY <1>1, FanOutStep, PTL DEF FanOutSpec, Spec

-----------------------------------------------------------------------------
(***************************************************************************)
(* Proof of the log's invariant.                                           *)
(***************************************************************************)
LEMMA FiringForm ==
  /\ "main" \in Firing /\ "reader" \in Firing /\ "main" # "reader"
  /\ \A w \in Workers : w \in Firing /\ w # "main" /\ w # "reader"
  /\ \A p \in Firing : p \in Workers \/ p = "main" \/ p = "reader"
BY CallbackAssumption DEF Firing, Procs

LEMMA IdleForm == Idle \in Fire /\ Idle.at = "idle" /\ Idle.event = 0
BY DEF Idle, Fire, Stage

LEMMA LinesForm ==
  ASSUME LogForm
  PROVE  /\ Len(lines) \in Nat /\ DOMAIN lines = 1..Len(lines)
         /\ \A i \in 1..Len(lines) : lines[i] \in Line
BY LenProperties DEF LogForm

LEMMA LogInit == FanOutInit => LogIndInv
<1> SUFFICES ASSUME FanOutInit PROVE LogIndInv
  OBVIOUS
<1>0. main = "running" /\ count = 0
  BY DEF FanOutInit, Init
<1>1. lines \in Seq(Line) /\ Len(lines) = 0
  BY EmptySeq DEF FanOutInit
<1>2. DOMAIN lines = 1..0
  BY <1>1, LenProperties
<1>3. \A p \in Firing : fire[p] = Idle
  BY DEF FanOutInit
<1>4. LogForm
  BY <1>1, IdleForm DEF FanOutInit, LogForm
<1>5. FiringInv /\ LockInv /\ LinesInv
  BY <1>1, <1>3, IdleForm DEF FiringInv, LockInv, Holder, LinesInv, Pending
<1>6. LinesAreWhole /\ LogInOrder
  BY <1>2 DEF LinesAreWhole, LogInOrder
<1>7. LastInv
  BY <1>0, <1>1, <1>3, FiringForm DEF LastInv
<1>8. AllLogged
  BY <1>0 DEF AllLogged
<1> QED BY <1>4, <1>5, <1>6, <1>7, <1>8 DEF LogIndInv

\* A step of the HTTP callback that reports nothing
LEMMA QuietInv ==
  ASSUME LogIndInv, UNCHANGED <<logVars, count>>, LastInv'
  PROVE  LogIndInv'
<1>1. UNCHANGED <<logging, fire, lines, broken, count>>
  BY DEF logVars
<1>2. LogForm' /\ FiringInv' /\ LockInv' /\ LinesInv'
  BY <1>1 DEF LogIndInv, LogForm, FiringInv, LockInv, Holder, LinesInv, Pending
<1>3. LinesAreWhole' /\ LogInOrder'
  BY <1>1 DEF LogIndInv, LinesAreWhole, LogInOrder
<1>4. AllLogged'
  BY <1>1 DEF LogIndInv, AllLogged, Pending
<1> QED BY <1>2, <1>3, <1>4 DEF LogIndInv

\* p reports an event: when there is a log, it has the next number
LEMMA ToHttpForm ==
  ASSUME LogIndInv, count \in Nat, NEW p \in Firing, ToHttp(p)
  PROVE  /\ UNCHANGED <<logging, lines, broken>> /\ fire[p] = Idle
         /\ fire' \in [Firing -> Fire]
         /\ \A q \in Firing : q # p => fire'[q] = fire[q]
         /\ logging => fire'[p].at = "http" /\ fire'[p].event = count + 1
         /\ ~ logging => fire' = fire
<1> DEFINE new == [at |-> "http", event |-> count + 1]
<1>1. new \in Fire /\ new.at = "http" /\ new.event = count + 1
  BY DEF Fire, Stage
<1>2. fire' = IF logging THEN [fire EXCEPT ![p] = new] ELSE fire
  BY DEF ToHttp
<1>3. fire \in [Firing -> Fire]
  BY DEF LogIndInv, LogForm
<1> HIDE DEF new
<1> QED BY <1>1, <1>2, <1>3 DEF ToHttp

LEMMA ReportsInv ==
  ASSUME LogIndInv, count \in Nat, NEW p \in Firing, ToHttp(p), count' = count + 1, LastInv'
  PROVE  LogIndInv'
<1>1. /\ UNCHANGED <<logging, lines, broken>> /\ fire[p] = Idle
      /\ fire' \in [Firing -> Fire]
      /\ \A q \in Firing : q # p => fire'[q] = fire[q]
      /\ logging => fire'[p].at = "http" /\ fire'[p].event = count + 1
      /\ ~ logging => fire' = fire
  BY ToHttpForm
<1>2. Len(lines) \in Nat /\ \A i \in 1..Len(lines) : lines[i].event \in 1..count
  BY LinesForm DEF LogIndInv, LinesInv
<1>3. LogForm'
  BY <1>1 DEF LogIndInv, LogForm
<1>4. FiringInv'
  <2>1. \A q \in Firing : fire[q] = Idle \/ (fire[q].at # "idle" /\ fire[q].event \in 1..count)
    BY DEF LogIndInv, FiringInv
  <2>2. CASE ~ logging
    BY <1>1, <2>1, <2>2 DEF LogIndInv, FiringInv
  <2>3. CASE logging
    <3>1. \A q \in Firing : \/ fire'[q] = Idle
                            \/ fire'[q].at # "idle" /\ fire'[q].event \in 1..(count + 1)
      BY <1>1, <2>1, <2>3
    <3>2. \A q \in Firing : (q # p /\ fire'[q].at # "idle") => fire'[q].event # count + 1
      BY <1>1, <2>1, IdleForm
    <3>3. \A q, r \in Firing : (q # p /\ r # p /\ q # r /\ fire'[q].at # "idle"
                                  /\ fire'[r].at # "idle") => fire'[q].event # fire'[r].event
      BY <1>1 DEF LogIndInv, FiringInv
    <3> QED BY <1>1, <2>3, <3>1, <3>2, <3>3 DEF FiringInv
  <2> QED BY <2>2, <2>3
<1>5. LockInv'
  BY <1>1, IdleForm DEF LogIndInv, LockInv, Holder
<1>6. LinesInv'
  BY <1>1, <1>2, IdleForm DEF LogIndInv, LinesInv, Pending
<1>7. LogInOrder'
  BY <1>1 DEF LogIndInv, LogInOrder
<1>8. LinesAreWhole'
  BY <1>1, IdleForm DEF LogIndInv, LinesAreWhole
<1>9. AllLogged'
  <2> SUFFICES ASSUME logging, NEW e \in 1..(count + 1)
               PROVE  \/ broken
                      \/ \E i \in 1..Len(lines) : lines[i].event = e
                      \/ \E q \in Firing : Pending(q)' /\ fire'[q].event = e
    BY <1>1 DEF AllLogged
  <2>1. CASE e = count + 1
    BY <1>1, <2>1 DEF Pending
  <2>2. CASE e \in 1..count
    <3>1. \A q \in Firing : Pending(q) => Pending(q)' /\ fire'[q].event = fire[q].event
      BY <1>1, IdleForm DEF Pending
    <3> QED BY <2>2, <3>1 DEF LogIndInv, AllLogged
  <2> QED BY <2>1, <2>2
<1> QED BY <1>3, <1>4, <1>5, <1>6, <1>7, <1>8, <1>9 DEF LogIndInv

-----------------------------------------------------------------------------
\* fireEvent of p goes on with its event, or is over
Moves(p) ==
  /\ fire[p].at # "idle"
  /\ UNCHANGED <<count, main, logging>>
  /\ fire' \in [Firing -> Fire]
  /\ \A q \in Firing : q # p => fire'[q] = fire[q]
  /\ fire'[p] = Idle \/ (fire'[p].at # "idle" /\ fire'[p].event = fire[p].event)

LEMMA GoMoves ==
  ASSUME LogIndInv, NEW p \in Firing, NEW s \in Stage \ {"idle"}, Go(p, s),
         fire[p].at # "idle", UNCHANGED <<vars, logging>>
  PROVE  Moves(p) /\ fire'[p].at = s
<1>1. fire \in [Firing -> Fire]
  BY DEF LogIndInv, LogForm
<1> DEFINE new == [fire[p] EXCEPT !.at = s]
<1>2. new \in Fire /\ new.at = s /\ new.event = fire[p].event
  BY <1>1 DEF Fire
<1>3. fire' = [fire EXCEPT ![p] = new]
  BY DEF Go
<1> HIDE DEF new
<1>4. UNCHANGED <<count, main, logging>>
  BY DEF vars
<1> QED BY <1>1, <1>2, <1>3, <1>4 DEF Moves

LEMMA MovesFiring ==
  ASSUME LogIndInv, NEW p \in Firing, Moves(p)
  PROVE  FiringInv'
BY IdleForm DEF LogIndInv, FiringInv, Moves

\* The steps that do not touch the file, and after which p has still to write or not as
\* before
LEMMA MovesInv ==
  ASSUME LogIndInv, NEW p \in Firing, Moves(p), UNCHANGED <<lines, broken>>,
         Pending(p)' = Pending(p), fire[p].at # "half", fire'[p].at # "half", LockInv'
  PROVE  LogIndInv'
<1>1. FiringInv'
  BY MovesFiring
<1>2. LogForm'
  BY DEF LogIndInv, LogForm, Moves
<1>3. \A q \in Firing : /\ Pending(q)' = Pending(q)
                        /\ Pending(q) => fire'[q].event = fire[q].event
                        /\ fire'[q].at = "half" <=> fire[q].at = "half"
  BY IdleForm DEF Moves, Pending
<1>4. LinesInv'
  BY <1>3 DEF LogIndInv, LinesInv, Moves
<1>5. LinesAreWhole' /\ LogInOrder'
  BY <1>3 DEF LogIndInv, LinesAreWhole, LogInOrder
<1>6. LastInv'
  BY <1>3, FiringForm, IdleForm DEF LogIndInv, LastInv, Moves
<1>7. AllLogged'
  BY <1>3 DEF LogIndInv, AllLogged, Moves
<1> QED BY <1>1, <1>2, <1>4, <1>5, <1>6, <1>7, LockInv' DEF LogIndInv

\* The lock is free, or stays with its holder
LEMMA LockKept ==
  ASSUME LogIndInv, NEW p \in Firing, Moves(p), p \in Holder \/ fire'[p].at \notin {"encode", "half", "sync"}
  PROVE  LockInv'
BY DEF LogIndInv, LockInv, Holder, Moves

LEMMA InvokeMoves ==
  ASSUME LogIndInv, NEW p \in Firing, Invoke(p)
  PROVE  Moves(p) /\ fire'[p] = Idle
<1>1. fire \in [Firing -> Fire]
  BY DEF LogIndInv, LogForm
<1>2. fire' = [fire EXCEPT ![p] = Idle] /\ fire[p].at = "grpc"
  BY DEF Invoke
<1>3. UNCHANGED <<count, main, logging>>
  BY DEF Invoke, vars
<1> QED BY <1>1, <1>2, <1>3, IdleForm DEF Moves

LEMMA PlainInv ==
  ASSUME LogIndInv, NEW p \in Firing, HttpReturned(p) \/ Lock(p) \/ Sync(p) \/ Invoke(p)
  PROVE  LogIndInv'
<1>0. UNCHANGED <<vars, logging>> /\ UNCHANGED <<lines, broken>>
  BY DEF HttpReturned, Lock, Sync, Invoke
<1>1. CASE HttpReturned(p)
  <2>1. fire[p].at = "http" /\ Go(p, "lock")
    BY <1>1 DEF HttpReturned
  <2>2. Moves(p) /\ fire'[p].at = "lock"
    BY <1>0, <2>1, GoMoves DEF Stage
  <2>3. LockInv'
    BY <2>2, LockKept
  <2> QED BY <1>0, <2>1, <2>2, <2>3, MovesInv DEF Pending
<1>2. CASE Lock(p)
  <2>1. fire[p].at = "lock" /\ Go(p, "encode") /\ Holder = {}
    BY <1>2 DEF Lock
  <2>2. Moves(p) /\ fire'[p].at = "encode"
    BY <1>0, <2>1, GoMoves DEF Stage
  <2>3. LockInv'
    BY <2>1, <2>2 DEF Moves, LockInv, Holder
  <2> QED BY <1>0, <2>1, <2>2, <2>3, MovesInv DEF Pending
<1>3. CASE Sync(p)
  <2>1. fire[p].at = "sync" /\ Go(p, "grpc")
    BY <1>3 DEF Sync
  <2>2. Moves(p) /\ fire'[p].at = "grpc"
    BY <1>0, <2>1, GoMoves DEF Stage
  <2>3. LockInv'
    BY <2>2, LockKept
  <2> QED BY <1>0, <2>1, <2>2, <2>3, MovesInv DEF Pending
<1>4. CASE Invoke(p)
  <2>1. fire[p].at = "grpc"
    BY <1>4 DEF Invoke
  <2>2. Moves(p) /\ fire'[p].at = "idle"
    BY <1>4, InvokeMoves, IdleForm
  <2>3. LockInv'
    BY <2>2, LockKept
  <2> QED BY <1>0, <2>1, <2>2, <2>3, MovesInv DEF Pending
<1> QED BY <1>1, <1>2, <1>3, <1>4

\* A line is added: p's event, by p
LEMMA LineAdded ==
  ASSUME LogIndInv, NEW p \in Firing, Moves(p), fire[p].at = "encode",
         fire'[p].at = "half", ~ broken, UNCHANGED broken,
         lines' = Append(lines, [event |-> fire[p].event, by |-> p, whole |-> FALSE])
  PROVE  LogIndInv'
<1> DEFINE l == [event |-> fire[p].event, by |-> p, whole |-> FALSE]
           n == Len(lines)
<1>1. l \in Line /\ l.event = fire[p].event /\ l.by = p /\ l.whole = FALSE
  BY DEF LogIndInv, LogForm, Line, Fire
<1>2. lines' = Append(lines, l)
  OBVIOUS
<1> HIDE DEF l
<1>3. /\ lines \in Seq(Line) /\ n \in Nat /\ DOMAIN lines = 1..n
      /\ lines' \in Seq(Line) /\ Len(lines') = n + 1
      /\ \A i \in 1..n : lines'[i] = lines[i]
      /\ lines'[n + 1] = l
  BY <1>1, <1>2, LinesForm, AppendProperties DEF LogIndInv, LogForm
<1>4. DOMAIN lines' = 1..(n + 1)
  BY <1>3, LenProperties
<1>5. \A i \in 1..(n + 1) : i \in 1..n \/ i = n + 1
  BY <1>3
<1>6. /\ Pending(p) /\ ~ Pending(p)' /\ fire[p].event \in 1..count /\ fire[p] # Idle
      /\ \A q \in Firing : q # p => Pending(q)' = Pending(q) /\ fire'[q] = fire[q]
  BY IdleForm DEF LogIndInv, FiringInv, Moves, Pending
<1> HIDE DEF n
<1>7. LogForm' /\ FiringInv'
  BY <1>3, MovesFiring DEF LogIndInv, LogForm, Moves
<1>8. LockInv'
  BY LockKept DEF Holder
<1>9. LinesInv'
  <2>1. \A i \in 1..Len(lines') : lines'[i].event \in 1..count'
    BY <1>1, <1>3, <1>5, <1>6 DEF LogIndInv, LinesInv, Moves, n
  <2>2. \A q \in Firing : fire'[q].at = "half" => Len(lines') > 0
    BY <1>3
  <2>3. ASSUME NEW q \in Firing, Pending(q)', NEW i \in 1..Len(lines')
        PROVE  /\ lines'[i].event # fire'[q].event
               /\ lines'[i].by = q => lines'[i].event < fire'[q].event
    <3>1. q # p /\ Pending(q) /\ fire'[q] = fire[q]
      BY <1>6, <2>3
    <3>2. CASE i \in 1..n
      BY <1>3, <3>1, <3>2 DEF LogIndInv, LinesInv, n
    <3>3. CASE i = n + 1
      BY <1>1, <1>3, <1>6, <3>1, <3>3, IdleForm DEF LogIndInv, FiringInv, Pending
    <3> QED BY <1>3, <1>5, <3>2, <3>3
  <2> QED BY <2>1, <2>2, <2>3 DEF LinesInv
<1>10. LinesAreWhole'
  <2>1. \A q \in Firing : fire[q].at # "half"
    BY DEF LogIndInv, LockInv, Holder
  <2>2. \A i \in 1..n : lines[i].whole
    BY <1>3, <2>1 DEF LogIndInv, LinesAreWhole
  <2> QED BY <1>1, <1>3, <1>4, <1>5, <2>2 DEF LinesAreWhole
<1>11. LogInOrder'
  <2> SUFFICES ASSUME NEW i \in 1..(n + 1), NEW j \in 1..(n + 1), i < j
               PROVE  /\ lines'[i].event # lines'[j].event
                      /\ lines'[i].by = lines'[j].by => lines'[i].event < lines'[j].event
                      /\ lines'[i].by = "main" => lines'[j].by = "reader"
    BY <1>4 DEF LogInOrder
  <2>1. i \in 1..n
    BY <1>3
  <2>2. CASE j \in 1..n
    <3>1. DOMAIN lines = 1..n
      BY LinesForm DEF LogIndInv, n
    <3>2. /\ lines[i].event # lines[j].event
          /\ lines[i].by = lines[j].by => lines[i].event < lines[j].event
          /\ lines[i].by = "main" => lines[j].by = "reader"
      BY <2>1, <2>2, <3>1 DEF LogIndInv, LogInOrder
    <3>3. lines'[i] = lines[i] /\ lines'[j] = lines[j]
      BY <1>3, <2>1, <2>2
    <3> QED BY <3>2, <3>3
  <2>3. CASE j = n + 1
    <3>1. /\ lines[i].event # fire[p].event
          /\ lines[i].by = p => lines[i].event < fire[p].event
      BY <1>6, <2>1 DEF LogIndInv, LinesInv, n
    <3>2. lines[i].by = "main" => p = "reader"
      BY <1>6, <2>1, FiringForm DEF LogIndInv, LastInv, n
    <3> QED BY <1>1, <1>3, <2>1, <2>3, <3>1, <3>2
  <2> QED BY <1>5, <2>2, <2>3
<1>12. LastInv'
  <2>1. p = "main" => main' # "running" /\ ~ Pending("main")'
    BY <1>6, FiringForm DEF LogIndInv, LastInv, Moves
  <2>2. Pending("main")' => Pending("main")
    BY <1>6, FiringForm
  <2>3. main' = "running" \/ Pending("main")' =>
          \A i \in 1..Len(lines') : lines'[i].by # "main"
    BY <1>1, <1>3, <1>5, <2>1, <2>2 DEF LogIndInv, LastInv, Moves, n
  <2> QED BY <1>6, <2>3, FiringForm DEF LogIndInv, LastInv, Moves
<1>13. AllLogged'
  <2> SUFFICES ASSUME logging, NEW e \in 1..count
               PROVE  \/ \E i \in 1..Len(lines') : lines'[i].event = e
                      \/ \E q \in Firing : Pending(q)' /\ fire'[q].event = e
    BY DEF AllLogged, Moves
  <2>1. CASE fire[p].event = e
    BY <1>1, <1>3, <2>1
  <2>2. CASE fire[p].event # e
    <3>1. \/ \E i \in 1..n : lines[i].event = e
          \/ \E q \in Firing : Pending(q) /\ fire[q].event = e
      BY DEF LogIndInv, AllLogged, n
    <3>2. \A i \in 1..n : i \in 1..Len(lines')
      BY <1>3
    <3> QED BY <1>3, <1>6, <2>2, <3>1, <3>2
  <2> QED BY <2>1, <2>2
<1> QED BY <1>7, <1>8, <1>9, <1>10, <1>11, <1>12, <1>13 DEF LogIndInv

\* Encode returns an error, now or as before
LEMMA LineRefused ==
  ASSUME LogIndInv, NEW p \in Firing, Moves(p), fire[p].at = "encode",
         fire'[p].at = "grpc", UNCHANGED <<lines, broken>>, broken
  PROVE  LogIndInv'
<1>1. /\ ~ Pending(p)'
      /\ \A q \in Firing : q # p => Pending(q)' = Pending(q) /\ fire'[q] = fire[q]
      /\ \A q \in Firing : fire'[q].at = "half" <=> fire[q].at = "half"
      /\ fire[p] # Idle
  BY IdleForm DEF Moves, Pending
<1>2. LogForm' /\ FiringInv'
  BY MovesFiring DEF LogIndInv, LogForm, Moves
<1>3. LockInv'
  BY LockKept
<1>4. LinesInv'
  BY <1>1 DEF LogIndInv, LinesInv, Moves
<1>5. LinesAreWhole' /\ LogInOrder'
  BY <1>1 DEF LogIndInv, LinesAreWhole, LogInOrder
<1>6. LastInv'
  BY <1>1, FiringForm DEF LogIndInv, LastInv, Moves
<1>7. AllLogged'
  BY <1>1 DEF LogIndInv, AllLogged, Moves
<1> QED BY <1>2, <1>3, <1>4, <1>5, <1>6, <1>7 DEF LogIndInv

LEMMA EncodeInv == ASSUME LogIndInv, NEW p \in Firing, Encode(p) PROVE LogIndInv'
<1>1. fire[p].at = "encode" /\ UNCHANGED <<vars, logging>> /\ UNCHANGED broken
  BY DEF Encode
<1>2. CASE /\ ~ broken /\ Go(p, "half")
           /\ lines' = Append(lines, [event |-> fire[p].event, by |-> p, whole |-> FALSE])
  <2>1. Moves(p) /\ fire'[p].at = "half"
    BY <1>1, <1>2, GoMoves DEF Stage
  <2> QED BY <1>1, <1>2, <2>1, LineAdded
<1>3. CASE /\ Go(p, "grpc") /\ UNCHANGED lines /\ broken
  <2>1. Moves(p) /\ fire'[p].at = "grpc"
    BY <1>1, <1>3, GoMoves DEF Stage
  <2> QED BY <1>1, <1>3, <2>1, LineRefused
<1> QED BY <1>2, <1>3 DEF Encode

\* The line in hand ends: the lines say what they said, and the last is whole or the
\* callback is silenced
LEMMA LineEnds ==
  ASSUME LogIndInv, NEW p \in Firing, Moves(p), fire[p].at = "half",
         fire'[p].at \in {"sync", "grpc"},
         broken \in BOOLEAN, broken' \in BOOLEAN, broken => broken',
         lines' \in Seq(Line), Len(lines') = Len(lines),
         \A i \in 1..Len(lines) : /\ lines'[i].event = lines[i].event
                                  /\ lines'[i].by = lines[i].by
                                  /\ i # Len(lines) => lines'[i] = lines[i],
         broken' \/ lines'[Len(lines)].whole
  PROVE  LogIndInv'
<1>1. /\ ~ Pending(p)' /\ ~ Pending(p)
      /\ \A q \in Firing : q # p => Pending(q)' = Pending(q) /\ fire'[q] = fire[q]
      /\ fire[p] # Idle
  BY IdleForm DEF Moves, Pending
<1>2. /\ Len(lines) \in Nat /\ DOMAIN lines = 1..Len(lines)
      /\ DOMAIN lines' = 1..Len(lines)
  BY LinesForm, LenProperties DEF LogIndInv
<1>3. LogForm' /\ FiringInv'
  BY MovesFiring DEF LogIndInv, LogForm, Moves
<1>4. LockInv'
  BY LockKept DEF Holder
<1>5. LinesInv'
  <2>1. \A q \in Firing : fire'[q].at = "half" => fire[q].at = "half"
    BY <1>1
  <2>2. \A q \in Firing : Pending(q)' => Pending(q) /\ fire'[q] = fire[q]
    BY <1>1
  <2>3. count' = count
    BY DEF Moves
  <2>4. \A i \in 1..Len(lines') : lines'[i].event \in 1..count'
    BY <2>3 DEF LogIndInv, LinesInv
  <2>5. \A q \in Firing : fire'[q].at = "half" => Len(lines') > 0
    BY <2>1 DEF LogIndInv, LinesInv
  <2>6. ASSUME NEW q \in Firing, Pending(q)', NEW i \in 1..Len(lines')
        PROVE  /\ lines'[i].event # fire'[q].event
               /\ lines'[i].by = q => lines'[i].event < fire'[q].event
    <3>1. i \in 1..Len(lines) /\ Pending(q) /\ fire'[q] = fire[q]
      BY <2>2, <2>6
    <3>2. lines'[i].event = lines[i].event /\ lines'[i].by = lines[i].by
      BY <3>1
    <3> QED BY <3>1, <3>2 DEF LogIndInv, LinesInv
  <2> QED BY <2>4, <2>5, <2>6 DEF LinesInv
<1>6. LinesAreWhole'
  BY <1>2 DEF LogIndInv, LinesAreWhole
<1>7. LogInOrder'
  <2> SUFFICES ASSUME NEW i \in 1..Len(lines), NEW j \in 1..Len(lines), i < j
               PROVE  /\ lines'[i].event # lines'[j].event
                      /\ lines'[i].by = lines'[j].by => lines'[i].event < lines'[j].event
                      /\ lines'[i].by = "main" => lines'[j].by = "reader"
    BY <1>2 DEF LogInOrder
  <2>1. /\ lines'[i].event = lines[i].event /\ lines'[i].by = lines[i].by
        /\ lines'[j].event = lines[j].event /\ lines'[j].by = lines[j].by
    OBVIOUS
  <2>2. /\ lines[i].event # lines[j].event
        /\ lines[i].by = lines[j].by => lines[i].event < lines[j].event
        /\ lines[i].by = "main" => lines[j].by = "reader"
    BY <1>2 DEF LogIndInv, LogInOrder
  <2> QED BY <2>1, <2>2
<1>8. LastInv'
  <2>1. \A i \in 1..Len(lines') : i \in 1..Len(lines) /\ lines'[i].by = lines[i].by
    BY <1>2
  <2>2. fire["main"] = Idle => fire'["main"] = Idle
    BY <1>1, FiringForm DEF Moves
  <2>3. \A w \in Workers : fire[w] = Idle => fire'[w] = Idle
    BY <1>1, FiringForm DEF Moves
  <2>4. Pending("main")' => Pending("main")
    BY <1>1, FiringForm
  <2>5. main' = main
    BY DEF Moves
  <2> QED BY <2>1, <2>2, <2>3, <2>4, <2>5 DEF LogIndInv, LastInv
<1>9. AllLogged'
  <2> SUFFICES ASSUME logging, NEW e \in 1..count
               PROVE  \/ broken'
                      \/ \E i \in 1..Len(lines) : lines'[i].event = e
                      \/ \E q \in Firing : Pending(q)' /\ fire'[q].event = e
    BY DEF AllLogged, Moves
  <2>1. \/ broken
        \/ \E i \in 1..Len(lines) : lines[i].event = e
        \/ \E q \in Firing : Pending(q) /\ fire[q].event = e
    BY DEF LogIndInv, AllLogged
  <2>2. \A i \in 1..Len(lines) : lines'[i].event = lines[i].event
    OBVIOUS
  <2> QED BY <1>1, <2>1, <2>2
<1> QED BY <1>3, <1>4, <1>5, <1>6, <1>7, <1>8, <1>9 DEF LogIndInv

LEMMA WrittenInv == ASSUME LogIndInv, NEW p \in Firing, Written(p) PROVE LogIndInv'
<1>1. fire[p].at = "half" /\ UNCHANGED <<vars, logging>>
  BY DEF Written
<1>2. /\ lines \in Seq(Line) /\ Len(lines) \in Nat /\ broken \in BOOLEAN
      /\ \A i \in 1..Len(lines) : lines[i] \in Line
  BY LinesForm DEF LogIndInv, LogForm
<1>3. CASE /\ lines' = [lines EXCEPT ![Len(lines)].whole = TRUE]
           /\ Go(p, "sync") /\ UNCHANGED broken
  <2>1. Moves(p) /\ fire'[p].at = "sync"
    BY <1>1, <1>3, GoMoves DEF Stage
  <2>2. Len(lines) \in 1..Len(lines)
    BY <1>1, <1>2 DEF LogIndInv, LinesInv
  <2> DEFINE l == [lines[Len(lines)] EXCEPT !.whole = TRUE]
  <2>3. /\ l \in Line /\ l.whole /\ l.event = lines[Len(lines)].event
        /\ l.by = lines[Len(lines)].by
    BY <1>2, <2>2 DEF Line
  <2>4. lines' = [lines EXCEPT ![Len(lines)] = l]
    BY <1>3
  <2> HIDE DEF l
  <2>5. /\ lines' \in Seq(Line) /\ Len(lines') = Len(lines)
        /\ \A i \in 1..Len(lines) : lines'[i] = IF i = Len(lines) THEN l ELSE lines[i]
    BY <1>2, <2>2, <2>3, <2>4, ExceptSeq
  <2> QED BY <1>1, <1>2, <1>3, <2>1, <2>2, <2>3, <2>5, LineEnds
<1>4. CASE WriteFailed(p)
  <2>1. Go(p, "grpc") /\ broken' = TRUE /\ UNCHANGED lines
    BY <1>4 DEF WriteFailed
  <2>2. Moves(p) /\ fire'[p].at = "grpc"
    BY <1>1, <2>1, GoMoves DEF Stage
  <2> QED BY <1>1, <1>2, <2>1, <2>2, LineEnds
<1> QED BY <1>3, <1>4 DEF Written

-----------------------------------------------------------------------------
LEMMA RunStepInv == ASSUME HttpInv, LogIndInv, RunStep PROVE LogIndInv'
<1>0. count \in Nat
  BY DEF HttpInv, HttpForm
<1>1. ASSUME NEW w \in Workers, Report(w), ToHttp(w) PROVE LogIndInv'
  <2>1. w \in Firing /\ w # "main"
    BY FiringForm
  <2>2. main = "running" /\ main' = "running" /\ count' = count + 1
    <3>1. left[w] > 0
      BY <1>1 DEF Report
    <3> QED BY <1>1, <3>1 DEF Report, Enqueue, HttpInv, PhasesInv
  <2>3. /\ UNCHANGED lines
        /\ \A q \in Firing : q # w => fire'[q] = fire[q]
    BY <1>0, <1>1, <2>1, ToHttpForm
  <2>4. LastInv'
    BY <2>1, <2>2, <2>3, FiringForm DEF LogIndInv, LastInv
  <2> QED BY <1>0, <1>1, <2>1, <2>2, <2>4, ReportsInv
<1>2. CASE Terminal /\ NotFiring(Workers) /\ ToHttp("main")
  <2>1. main = "running" /\ main' = "flush" /\ count' = count + 1
    BY <1>2 DEF Terminal, Enqueue
  <2>2. /\ UNCHANGED lines
        /\ \A q \in Firing : q # "main" => fire'[q] = fire[q]
    BY <1>0, <1>2, FiringForm, ToHttpForm
  <2>3. LastInv'
    BY <1>2, <2>1, <2>2, FiringForm DEF LogIndInv, LastInv, NotFiring
  <2> QED BY <1>0, <1>2, <2>1, <2>3, FiringForm, ReportsInv
<1>3. CASE Close /\ fire["main"] = Idle /\ UNCHANGED logVars
  <2>1. UNCHANGED <<count, fire, lines>> /\ main = "close" /\ main' = "closing"
    BY <1>3 DEF Close, logVars
  <2>2. LastInv'
    BY <1>3, <2>1 DEF LogIndInv, LastInv, Pending
  <2> QED BY <1>3, <2>1, <2>2, QuietInv
<1>4. CASE CloseReturns /\ Holder = {} /\ UNCHANGED logVars
  <2>1. UNCHANGED <<count, fire, lines>> /\ main = "closing" /\ main' = "exit"
    BY <1>4 DEF CloseReturns, logVars
  <2>2. LastInv'
    BY <2>1 DEF LogIndInv, LastInv, Pending
  <2> QED BY <1>4, <2>1, <2>2, QuietInv
<1>5. ASSUME NEW p \in Procs, Unmarshalled(p), fire[p] = Idle,
             p = "main" => NotFiring(Workers), UNCHANGED logVars
      PROVE  LogIndInv'
  <2>1. UNCHANGED <<count, fire, lines>>
    BY <1>5 DEF Unmarshalled, logVars
  <2>2. \/ UNCHANGED main
        \/ p = "main" /\ main = "running" /\ main' = "close"
    BY <1>5 DEF Unmarshalled
  <2>3. LastInv'
    BY <1>5, <2>1, <2>2 DEF LogIndInv, LastInv, Pending, NotFiring
  <2> QED BY <1>5, <2>1, <2>3, QuietInv
<1> QED BY <1>1, <1>2, <1>3, <1>4, <1>5 DEF RunStep

LEMMA ReaderStepInv == ASSUME HttpInv, LogIndInv, ReaderStep PROVE LogIndInv'
<1>0. count \in Nat
  BY DEF HttpInv, HttpForm
<1>1. CASE closed
  <2>1. UNCHANGED <<count, fire, lines>> /\ UNCHANGED logVars /\ main' = "panic"
    BY <1>1 DEF ReaderStep, ReaderReports, logVars
  <2>2. main # "running"
    BY <1>1 DEF HttpInv, PhasesInv
  <2>3. LastInv'
    BY <2>1, <2>2 DEF LogIndInv, LastInv, Pending
  <2> QED BY <2>1, <2>3, QuietInv
<1>2. CASE ~ closed
  <2>1. ToHttp("reader") /\ count' = count + 1 /\ main' = main
    BY <1>2 DEF ReaderStep, ReaderReports, Enqueue
  <2>2. /\ UNCHANGED lines
        /\ \A q \in Firing : q # "reader" => fire'[q] = fire[q]
    BY <1>0, <2>1, FiringForm, ToHttpForm
  <2>3. LastInv'
    BY <2>1, <2>2, FiringForm DEF LogIndInv, LastInv, Pending
  <2> QED BY <1>0, <2>1, <2>3, FiringForm, ReportsInv
<1> QED BY <1>1, <1>2

LEMMA HttpStepLog == ASSUME HttpInv, LogIndInv, HttpStep PROVE LogIndInv'
<1>1. UNCHANGED <<count, fire, lines>> /\ UNCHANGED logVars
  BY DEF HttpStep, FlushReturns, Sender, Take, Answered, Failed, LoopEnds, clientVars, logVars
<1>2. main' = main \/ (main = "flush" /\ main' = "close")
  <2>1. CASE Sender
    BY <2>1 DEF Sender, Take, Answered, Failed, LoopEnds, clientVars
  <2>2. ASSUME NEW p \in Procs, FlushReturns(p)
        PROVE  main' = main \/ (main = "flush" /\ main' = "close")
    <3>1. waits[p] # 0
      BY <2>2, HttpNumbers DEF FlushReturns, HttpInv, SettledInv
    <3> QED BY <2>2, <3>1 DEF FlushReturns, HttpInv, PhasesInv
  <2> QED BY <2>1, <2>2 DEF HttpStep
<1>3. LastInv'
  BY <1>1, <1>2 DEF LogIndInv, LastInv, Pending
<1> QED BY <1>1, <1>3, QuietInv

LEMMA LogStep == HttpInv /\ LogIndInv /\ [FanOutNext]_allVars => LogIndInv'
<1> SUFFICES ASSUME HttpInv, LogIndInv, [FanOutNext]_allVars PROVE LogIndInv'
  OBVIOUS
<1>1. ASSUME NEW p \in Firing, FanOut(p) PROVE LogIndInv'
  BY <1>1, PlainInv, EncodeInv, WrittenInv DEF FanOut
<1>2. CASE UNCHANGED <<vars, logVars>>
  <2>1. UNCHANGED <<count, main, fire, lines>> /\ UNCHANGED logVars
    BY <1>2 DEF vars, logVars
  <2>2. LastInv'
    BY <2>1 DEF LogIndInv, LastInv, Pending
  <2> QED BY <2>1, <2>2, QuietInv
<1> QED BY <1>1, <1>2, RunStepInv, ReaderStepInv, HttpStepLog
        DEF FanOutNext, Progress, Ended, allVars

\* Whichever goroutines report at once and whatever fails, the file is a faithful log of
\* the run: whole lines, every event once and in order, the run's end last, and nothing
\* missing when it is closed but what could not be written
THEOREM LogIsFaithful == FanOutSpec => []LogInv
<1>1. LogIndInv => LogInv
  <2> SUFFICES ASSUME LogIndInv PROVE LoggedOnClose
    BY DEF LogIndInv, LogInv
  <2> SUFFICES ASSUME logging, main \in {"closing", "exit"}, ~ broken,
                      NEW e \in 1..count, e \notin {lines[i].event : i \in DOMAIN lines}
               PROVE  e \in {fire["reader"].event}
    BY DEF LoggedOnClose
  <2>1. DOMAIN lines = 1..Len(lines)
    BY LinesForm DEF LogIndInv
  <2>2. \A p \in Firing : Pending(p) => p = "reader"
    BY FiringForm, IdleForm DEF LogIndInv, LastInv, Pending
  <2> QED BY <2>1, <2>2 DEF LogIndInv, AllLogged
<1>2. FanOutSpec => []HttpInv
  BY FanOutImplementsHttp, HttpInvariance, PTL
<1> QED BY <1>1, <1>2, LogInit, LogStep, PTL DEF FanOutSpec

=============================================================================

------------------------------ MODULE Callbacks ------------------------------
(***************************************************************************)
(* fireEvent with several destinations: an event goes to the HTTP callback *)
(* (HttpCallback), then, if they are configured, to a JSONL file and a     *)
(* gRPC server (pkg/callback/jsonl.go, grpc.go), in the goroutine that     *)
(* reports it; an error of one is logged and the next is called.           *)
(*                                                                         *)
(* encoding/json is external: an Encoder hands a line to the file in one   *)
(* write, and after a failed write it fails for good.  So is the server.   *)
(***************************************************************************)
EXTENDS HttpCallback, FiniteSetsExt

CONSTANT MaxFired  \* bound on the events before the last when all three are configured

ASSUME FanOutAssumption == MaxFired \in Nat

VARIABLES
  logging,   \* JSONL and gRPC callbacks are configured
  fire,      \* fire[p]: where fireEvent of p is, and its event
  lines,     \* the file: the event of each line, who wrote it, and whether it is whole
  broken     \* the Encoder's sticky error

logVars == <<logging, fire, lines, broken>>
allVars == <<vars, logVars>>

Firing == Procs \cup {"reader"}
Idle == [at |-> "idle", event |-> 0]
Holder == {p \in Firing : fire[p].at \in {"encode", "half", "sync"}}

Go(p, next) == fire' = [fire EXCEPT ![p].at = next]

FanOutInit ==
  /\ Init
  /\ logging \in BOOLEAN
  /\ logging => FoldSet(LAMBDA w, n : n + left[w], reader, Workers) <= MaxFired
  /\ fire = [p \in Firing |-> Idle]
  /\ lines = <<>> /\ broken = FALSE

-----------------------------------------------------------------------------
\* cb.OnX of the HTTP callback: the event has its number from here on
ToHttp(p) ==
  /\ fire[p] = Idle
  /\ fire' = IF logging THEN [fire EXCEPT ![p] = [at |-> "http", event |-> count + 1]]
             ELSE fire
  /\ UNCHANGED <<logging, lines, broken>>

\* It has returned, at once or after the flush
HttpReturned(p) ==
  /\ Live /\ fire[p].at = "http"
  /\ p \in Procs => waits[p] = 0
  /\ Go(p, "lock")
  /\ UNCHANGED <<vars, logging, lines, broken>>

\* Mutant: no mutex
LockAlways(p) ==
  /\ Live /\ fire[p].at = "lock"
  /\ Go(p, "encode")
  /\ UNCHANGED <<vars, logging, lines, broken>>

\* j.mu.Lock()
Lock(p) ==
  /\ Live /\ fire[p].at = "lock" /\ Holder = {}
  /\ Go(p, "encode")
  /\ UNCHANGED <<vars, logging, lines, broken>>

\* j.enc.Encode: the line begins to be written; or the Encoder has failed
\* before, and write returns the error
Encode(p) ==
  /\ Live /\ fire[p].at = "encode"
  /\ \/ /\ ~broken
        /\ lines' = Append(lines, [event |-> fire[p].event, by |-> p, whole |-> FALSE])
        /\ Go(p, "half")
     \/ /\ broken
        /\ Go(p, "grpc")
        /\ UNCHANGED lines
  /\ UNCHANGED <<vars, logging, broken>>

\* the disk is full: what is written of the line stays
WriteFailed(p) ==
  /\ broken' = TRUE
  /\ Go(p, "grpc")
  /\ UNCHANGED lines

\* The write ends, with the whole line or with an error
Written(p) ==
  /\ Live /\ fire[p].at = "half"
  /\ \/ /\ lines' = [lines EXCEPT ![Len(lines)].whole = TRUE]
        /\ Go(p, "sync")
        /\ UNCHANGED broken
     \/ WriteFailed(p)
  /\ UNCHANGED <<vars, logging>>

\* j.f.Sync(), and the deferred Unlock; its error is only logged
Sync(p) ==
  /\ Live /\ fire[p].at = "sync"
  /\ Go(p, "grpc")
  /\ UNCHANGED <<vars, logging, lines, broken>>

-----------------------------------------------------------------------------
\* sendEvent: the call is answered or refused, or its five seconds pass; the error is
\* logged, and the event may or may not have been handled
Invoke(p) ==
  /\ Live /\ fire[p].at = "grpc"
  /\ fire' = [fire EXCEPT ![p] = Idle]
  /\ UNCHANGED <<vars, logging, lines, broken>>

-----------------------------------------------------------------------------
NotFiring(P) == \A p \in P : fire[p] = Idle

\* A goroutine of the run reports an event, or the run has returned: its end is
\* reported, then CloseCallbacks is called, and JSONL's Close takes the lock.  What
\* cannot be marshalled reaches no destination: each has it encoded as JSON
RunStep ==
  \/ \E w \in Workers : Report(w) /\ ToHttp(w)
  \/ Terminal /\ NotFiring(Workers) /\ ToHttp("main")
  \/ \E p \in Procs : /\ Unmarshalled(p) /\ fire[p] = Idle
                      /\ p = "main" => NotFiring(Workers)
                      /\ UNCHANGED logVars
  \/ Close /\ fire["main"] = Idle /\ UNCHANGED logVars
  \/ CloseReturns /\ Holder = {} /\ UNCHANGED logVars

ReaderStep ==
  /\ ReaderReports /\ fire["reader"] = Idle
  /\ IF closed THEN UNCHANGED logVars ELSE ToHttp("reader")

HttpStep == ((\E p \in Procs : FlushReturns(p)) \/ Sender) /\ UNCHANGED logVars

FanOut(p) == HttpReturned(p) \/ Lock(p) \/ Encode(p) \/ Written(p) \/ Sync(p) \/ Invoke(p)

Progress == RunStep \/ HttpStep \/ \E p \in Firing : FanOut(p)

FanOutNext == Progress \/ ReaderStep \/ (Ended /\ UNCHANGED logVars)

(***************************************************************************)
(* While a goroutine of the runner can go on, some goroutine does: every   *)
(* request and call has a timeout.  Nothing is asked of the debugger.      *)
(***************************************************************************)
FanOutSpec == FanOutInit /\ [][FanOutNext]_allVars /\ WF_allVars(Progress)

(***************************************************************************)
(* Properties.                                                             *)
(***************************************************************************)
\* "One JSON object per line": only the last line can be cut short, and only by the
\* write that silenced the callback; nobody's line is inside another's
LinesAreWhole ==
  \A i \in DOMAIN lines : ~lines[i].whole =>
      i = Len(lines) /\ (broken \/ \E p \in Firing : fire[p].at = "half")

\* The file has an event once, each goroutine's in the order it reported them, and
\* the run's end after all that its steps reported
LogInOrder ==
  \A i, j \in DOMAIN lines : i < j =>
      /\ lines[i].event # lines[j].event
      /\ lines[i].by = lines[j].by => lines[i].event < lines[j].event
      /\ lines[i].by = "main" => lines[j].by = "reader"

\* "`fsync` after every event": when the run ends the file has every event of its
\* goroutines that could be encoded, or a write has failed
LoggedOnClose ==
  (logging /\ main \in {"closing", "exit"} /\ ~broken) =>
      1..count \ {lines[i].event : i \in DOMAIN lines}
          \subseteq {fire["reader"].event}

\* The file is a faithful log of the run, whoever reports at once and whatever fails
LogInv == LinesAreWhole /\ LogInOrder /\ LoggedOnClose

=============================================================================

----------------------------- MODULE ClaudeStep -----------------------------
(***************************************************************************)
(* The claude step (pkg/executor/claude.go): the step runs the claude CLI  *)
(* in a process group of its own, reads its event stream until the pipe    *)
(* ends, counts turns and tokens as the events arrive and stops the        *)
(* process when a limit is exceeded.  Four parties run at once: the CLI,   *)
(* a tool the CLI has started (it inherits the pipes), the reader, and the *)
(* goroutine of os/exec that acts when the context ends.                   *)
(*                                                                         *)
(* The CLI, its tool and the contexts' timers are external.                *)
(***************************************************************************)
EXTENDS Integers, Sequences, FiniteSets, FiniteSetsExt

CONSTANTS
    Turn,         \* ids of top-level assistant messages
    SubAgent,     \* ids of messages with a parent_tool_use_id
    Tokens,       \* the usage counts a message may report (counted())
    maxTurns,     \* limits; 0 is no limit
    maxTokens,
    maxDuration,  \* whether limits.max_duration is set
    Timeout,      \* whether the step has a timeout
    eventsLimit,  \* events_limit; a negative one is not refused
    PipeSize,     \* bound: events in the pipe
    MaxEvents     \* bound: events the CLI emits before its result

Message == Turn \cup SubAgent

ASSUME ClaudeAssumption ==
    /\ Turn \cap SubAgent = {} /\ IsFiniteSet(Message)
    /\ Tokens \subseteq Nat \ {0}
    /\ {maxTurns, maxTokens, PipeSize, MaxEvents} \subseteq Nat
    /\ eventsLimit \in Int
    /\ {maxDuration, Timeout} \subseteq BOOLEAN

VARIABLES
    cli,      \* the process: "none", "running", or its exit
    tool,     \* the tool it has started: none, one that obeys SIGTERM or not
    pipe,     \* what has been written and not been read
    closed,   \* os/exec has closed the read end of the pipes
    sent,     \* how many events the CLI has written
    spent,    \* the usage the CLI last reported, per message
    ctx,      \* the step's context
    runCtx,   \* the context of the process, a child of ctx
    signalled, \* cmd.Cancel was called
    stream,   \* claudeStream: what the reader has made of the events
    pc,       \* Execute: "idle", "start", "consume", "wait", "done"
    outcome   \* what Execute returned

external == <<cli, tool, sent, spent>>
contexts == <<ctx, runCtx, signalled>>
vars == <<cli, tool, pipe, closed, sent, spent, ctx, runCtx, signalled,
          stream, pc, outcome>>

Exits == {"exit 0", "exit 1", "killed"}

Assistant(m, n) == [type |-> "assistant", id |-> m, tokens |-> n]
ResultEvent(bad) == [type |-> "result", id |-> "none", tokens |-> IF bad THEN 1 ELSE 0]

OtherEvent == [type |-> "system or user", id |-> "none", tokens |-> 0]

(* p is "start", or "idle" when another executor has the step *)
InitAt(p) ==
    /\ cli = "none"
    /\ tool = "none"
    /\ pipe = <<>>
    /\ closed = FALSE
    /\ sent = 0
    /\ spent = [m \in Message |-> 0]
    /\ ctx = "live"
    /\ runCtx = "live"
    /\ signalled = FALSE
    /\ stream = [turnIDs |-> {}, usage |-> [m \in Message |-> 0],
                 events |-> 0, truncated |-> FALSE,
                 result |-> "none", breach |-> "none"]
    /\ pc = p
    /\ outcome = "none"

Init == InitAt("start")

(* A parameter, a limit or a flag is not valid, the directory is missing,  *)
(* or the process does not start.                                          *)
Reject ==
    /\ pc = "start"
    /\ pc' = "done"
    /\ outcome' = "invalid"
    /\ UNCHANGED <<external, pipe, closed, contexts, stream>>

(* cmd.Start, which refuses a context that has ended *)
Start ==
    /\ pc = "start"
    /\ ctx = "live"
    /\ cli' = "running"
    /\ pc' = "consume"
    /\ UNCHANGED <<tool, pipe, closed, sent, spent, contexts, stream, outcome>>

-----------------------------------------------------------------------------
(* The CLI and its tool. *)

(* A message is streamed as several events; each repeats the usage of the  *)
(* message so far.                                                         *)
EmitAssistant(m, n) ==
    /\ cli = "running"
    /\ sent < MaxEvents
    /\ Len(pipe) < PipeSize
    /\ n >= spent[m]
    /\ pipe' = Append(pipe, Assistant(m, n))
    /\ spent' = [spent EXCEPT ![m] = n]
    /\ sent' = sent + 1
    /\ UNCHANGED <<cli, tool, closed, contexts, stream, pc, outcome>>

(* The session's init event, or a tool's result. *)
EmitOther ==
    /\ cli = "running"
    /\ sent < MaxEvents
    /\ Len(pipe) < PipeSize
    /\ pipe' = Append(pipe, OtherEvent)
    /\ sent' = sent + 1
    /\ UNCHANGED <<cli, tool, closed, spent, contexts, stream, pc, outcome>>

(* The result is the last event. *)
EmitResult(bad) ==
    /\ cli = "running"
    /\ sent <= MaxEvents
    /\ Len(pipe) < PipeSize
    /\ pipe' = Append(pipe, ResultEvent(bad))
    /\ sent' = MaxEvents + 1
    /\ UNCHANGED <<cli, tool, closed, spent, contexts, stream, pc, outcome>>

StartTool(t) ==
    /\ cli = "running"
    /\ tool = "none"
    /\ tool' = t
    /\ UNCHANGED <<cli, pipe, closed, sent, spent, contexts, stream, pc, outcome>>

(* The CLI ends, of itself or because of the signal. *)
Exit(e) ==
    /\ cli = "running"
    /\ e = "killed" => signalled
    /\ cli' = e
    /\ UNCHANGED <<tool, pipe, closed, sent, spent, contexts, stream, pc, outcome>>

ToolEnds ==
    /\ tool # "none"
    /\ tool' = "none"
    /\ UNCHANGED <<cli, pipe, closed, sent, spent, contexts, stream, pc, outcome>>

-----------------------------------------------------------------------------
(* The contexts and os/exec. *)

(* limits.max_duration has passed *)
DurationOver ==
    /\ maxDuration
    /\ runCtx = "live"
    /\ pc \in {"consume", "wait"}
    /\ runCtx' = "deadline"
    /\ UNCHANGED <<external, pipe, closed, ctx, signalled, stream, pc, outcome>>

(* The step's timeout has passed, which ends the child context too. *)
StepTimeout ==
    /\ Timeout
    /\ ctx = "live"
    /\ pc \notin {"idle", "done"}
    /\ ctx' = "done"
    /\ runCtx' = IF runCtx = "live" THEN "deadline" ELSE runCtx
    /\ UNCHANGED <<external, pipe, closed, signalled, stream, pc, outcome>>

(* cmd.Cancel: SIGTERM to the whole group. *)
Cancel ==
    /\ runCtx # "live"
    /\ ~ signalled
    /\ pc \in {"consume", "wait"}
    /\ signalled' = TRUE
    /\ UNCHANGED <<external, pipe, closed, ctx, runCtx, stream, pc, outcome>>

(* Mutant: the CLI is killed, and the pipes stay open *)
WaitDelayKillsOnly ==
    /\ signalled
    /\ cli = "running"
    /\ cli' = "killed"
    /\ UNCHANGED <<tool, pipe, closed, sent, spent, contexts, stream, pc, outcome>>

(* cmd.WaitDelay after the signal: SIGKILL to the CLI alone, and the pipes *)
(* are closed under whoever still holds them.  Standard output and error   *)
(* are one pipe here: a descendant that has kept one of the two is not     *)
(* told from one that has both.                                            *)
WaitDelayOver ==
    /\ signalled
    /\ ~ closed
    /\ pc # "done"
    /\ closed' = TRUE
    /\ cli' = IF cli = "running" THEN "killed" ELSE cli
    /\ UNCHANGED <<tool, pipe, sent, spent, contexts, stream, pc, outcome>>

-----------------------------------------------------------------------------
(* The reader. *)

(* emit, with store set *)
Stored(s) ==
    IF s.events >= eventsLimit THEN [s EXCEPT !.truncated = TRUE]
                               ELSE [s EXCEPT !.events = @ + 1]

Total(usage) == FoldSet(LAMBDA m, n : n + usage[m], 0, Message)

totalUsage(s) == Total(s.usage)

(* exceed, the half that concerns the stream *)
exceed(s, limit) == Stored([s EXCEPT !.breach = limit])

(* Mutant: a sub-agent's messages are passed over *)
countTopLevel(s, ev) ==
    IF ev.id \in Turn THEN [s EXCEPT !.turnIDs = @ \cup {ev.id},
                                     !.usage[ev.id] = ev.tokens]
                      ELSE s

(* handleAssistant: turns are top-level message ids, and the latest usage  *)
(* of a message replaces what it had reported before.                      *)
count(s, ev) ==
    [s EXCEPT !.turnIDs = IF ev.id \in Turn THEN @ \cup {ev.id} ELSE @,
              !.usage[ev.id] = ev.tokens]

overTurns(s) == maxTurns > 0 /\ Cardinality(s.turnIDs) > maxTurns

(* Mutant: the limit itself is too many *)
overTokensAt(s) == maxTokens > 0 /\ totalUsage(s) >= maxTokens

overTokens(s) == maxTokens > 0 /\ totalUsage(s) > maxTokens

handleAssistant(s, ev) ==
    LET t == count(Stored(s), ev)  \* the text or tool call it carries
    IN  IF overTurns(t) THEN exceed(t, "max_turns")
        ELSE IF overTokens(t) THEN exceed(t, "max_tokens")
        ELSE t

handleResult(s, ev) ==
    Stored([s EXCEPT !.result = IF ev.tokens = 1 THEN "error" ELSE "ok"])

(* After a breach the pipe is drained, and its events are ignored. *)
handle(s, ev) ==
    IF s.breach # "none" THEN s
    ELSE IF ev.type = "assistant" THEN handleAssistant(s, ev)
    ELSE IF ev.type = "result" THEN handleResult(s, ev)
    ELSE Stored(s)

(* One line is read and handled; a breach cancels runCtx. *)
Read ==
    /\ pc = "consume"
    /\ ~ closed
    /\ pipe # <<>>
    /\ pipe' = Tail(pipe)
    /\ stream' = handle(stream, Head(pipe))
    /\ runCtx' = IF runCtx = "live" /\ stream'.breach # "none"
                   THEN "cancelled" ELSE runCtx
    /\ UNCHANGED <<external, closed, ctx, signalled, pc, outcome>>

(* EOF: everything is read and nobody holds the other end.  Or the read    *)
(* end was closed, and the unread rest is lost.                            *)
EndOfStream ==
    /\ pc = "consume"
    /\ closed \/ (pipe = <<>> /\ cli # "running" /\ tool = "none")
    /\ pc' = "wait"
    /\ UNCHANGED <<external, pipe, closed, contexts, stream, outcome>>

(* Execute, after Wait: the deadline is looked at again, and a breach      *)
(* found now is added to the events.                                       *)
Breach ==
    IF stream.breach = "none" /\ runCtx = "deadline" /\ ctx = "live"
      THEN "max_duration" ELSE stream.breach

(* the switch at the end of Execute *)
Outcome ==
    IF Breach # "none" THEN Breach
    ELSE IF ctx = "done" THEN "timeout"
    ELSE IF stream.result = "none" THEN "no result"
    ELSE IF stream.result = "error" THEN "is_error"
    ELSE IF cli # "exit 0" THEN "exit"
    ELSE "ok"

Wait ==
    /\ pc = "wait"
    /\ cli # "running"
    /\ pc' = "done"
    /\ outcome' = Outcome
    /\ stream' = IF Breach = stream.breach THEN stream ELSE Stored(stream)
    /\ UNCHANGED <<external, pipe, closed, contexts>>

-----------------------------------------------------------------------------

Outside == \/ \E m \in Message, n \in Tokens : EmitAssistant(m, n)
           \/ EmitOther \/ \E bad \in BOOLEAN : EmitResult(bad)
           \/ \E t \in {"obeys", "ignores"} : StartTool(t)
           \/ \E e \in Exits : Exit(e)
           \/ ToolEnds

Next == \/ Reject \/ Start \/ Outside \/ DurationOver \/ StepTimeout
        \/ Cancel \/ WaitDelayOver \/ Read \/ EndOfStream \/ Wait

(* The goroutines go on when they can and timers fire.  The CLI and its    *)
(* tool owe nothing, except that a tool that does not ignore SIGTERM ends  *)
(* when it gets it.                                                        *)
Fairness ==
    /\ WF_vars(Start \/ Reject)
    /\ WF_vars(Read) /\ WF_vars(EndOfStream) /\ WF_vars(Wait)
    /\ WF_vars(Cancel) /\ WF_vars(WaitDelayOver)
    /\ WF_vars(DurationOver) /\ WF_vars(StepTimeout)
    /\ WF_vars(signalled /\ tool = "obeys" /\ ToolEnds)

Spec == Init /\ [][Next]_vars /\ Fairness

-----------------------------------------------------------------------------
(* Properties *)

Exceeds(n, limit) == limit > 0 /\ n > limit

(* how many events the output has room for: none when the limit is below 0 *)
Room == IF eventsLimit < 0 THEN 0 ELSE eventsLimit

(* The processes and the pipe are in a state of theirs; the events kept    *)
(* for the output never pass events_limit, and truncated says so.          *)
TypeOK ==
    /\ Len(pipe) <= PipeSize
    /\ cli \in Exits \cup {"none", "running"} /\ tool \in {"none", "obeys", "ignores"}
    /\ stream.events \in 0..Room
    /\ stream.truncated => stream.events = Room

(* A step that succeeds has read everything the CLI reported, a result     *)
(* without an error and a clean exit included, and stayed within the       *)
(* limits by what the CLI really spent: not one event was dropped, or      *)
(* counted twice, between the process, the pipe and the reader.            *)
SuccessIsEarned ==
    outcome = "ok" =>
        /\ stream.usage = spent
        /\ ~ Exceeds(Total(spent), maxTokens)
        /\ ~ Exceeds(Cardinality({m \in Turn : spent[m] > 0}), maxTurns)
        /\ cli = "exit 0" /\ stream.result = "ok" /\ runCtx = "live"

(* A step is failed for a limit only if the run had really exceeded it,    *)
(* however often the messages repeated their usage.                        *)
BreachIsReal ==
    /\ outcome = "max_tokens" => Exceeds(Total(spent), maxTokens)
    /\ outcome = "max_turns" =>
         Exceeds(Cardinality({m \in Turn : spent[m] > 0}), maxTurns)
    /\ outcome = "max_duration" => maxDuration /\ runCtx = "deadline"

(* Whatever the order of events, timers and exits, what is kept of the     *)
(* stream is bounded and a breach is a real one.                           *)
LimitsInv == TypeOK /\ BreachIsReal

(* Once its context has ended, by a limit, max_duration or the timeout,    *)
(* the step ends, even if the CLI and its tool ignore SIGTERM and keep the *)
(* pipes open.                                                             *)
StoppedStepsEnd == runCtx # "live" ~> pc = "done"

(* "When a limit is exceeded it stops the process (and any tools it        *)
(* started)" (docs/reference/step-types.md).  Only SIGTERM goes to the     *)
(* group; the SIGKILL after WaitDelay goes to the CLI alone.               *)
ToolsAreStopped == stream.breach # "none" ~> tool = "none"

=============================================================================

--------------------------- MODULE ExecutorsProofs ---------------------------
(***************************************************************************)
(* Proofs about the executors: those of Executors for any number of        *)
(* messages, any limits and any amount of output, and K8sJob for any       *)
(* steps, names, attempts and behaviour of the cluster.                    *)
(***************************************************************************)
EXTENDS Executors, K8sJob, FiniteSetTheorems, WellFoundedInduction, TLAPS

-----------------------------------------------------------------------------
(* Sums: what Total computes, by induction on the size of a set. *)

LEMMA UpFromZero ==
    ASSUME NEW S \in SUBSET Nat, 0 \in S, \A n \in S : n + 1 \in S
    PROVE  S = Nat
<1> SUFFICES ASSUME Nat \ S # {} PROVE FALSE
  OBVIOUS
<1> DEFINE Less == {p \in Nat \X Nat : p[1] < p[2]}
<1>1. IsWellFoundedOn(Less, Nat)
  BY NatLessThanWellFounded DEF OpToRel
<1>2. PICK x \in Nat \ S : \A y \in Nat \ S : ~ (<<y, x>> \in Less)
  <2> HIDE DEF Less
  <2> QED BY <1>1, WFMin
<1>3. x # 0 /\ x - 1 \in Nat
  BY <1>2
<1>4. <<x - 1, x>> \in Less
  BY <1>3
<1>5. x - 1 \in S
  BY <1>2, <1>3, <1>4
<1> QED BY <1>2, <1>5

(* How the fold of Total takes a set apart. *)
One(s) == CHOOSE x \in s : TRUE

Sums(u, f) ==
    f = [s \in SUBSET Message |-> IF s = {} THEN 0 ELSE f[s \ {One(s)}] + u[One(s)]]

LEMMA TotalUnfolds ==
    ASSUME NEW u
    PROVE  Total(u) = (CHOOSE f : Sums(u, f))[Message]
BY Zenon DEF Total, FoldSet, MapThenFoldSet, Sums, One

(* The sizes of the sets of messages. *)
LEMMA SetsOfMessages ==
    ASSUME NEW s \in SUBSET Message
    PROVE  /\ IsFiniteSet(s) /\ Cardinality(s) \in Nat
           /\ Cardinality(s) = 0 <=> s = {}
           /\ s # {} => /\ One(s) \in s /\ One(s) \in Message
                        /\ s \ {One(s)} \in SUBSET Message
                        /\ Cardinality(s \ {One(s)}) = Cardinality(s) - 1
<1>1. IsFiniteSet(s)
  BY ClaudeAssumption, FS_Subset
<1>2. Cardinality(s) \in Nat /\ (Cardinality(s) = 0 <=> s = {})
  BY <1>1, FS_CardinalityType, FS_EmptySet
<1>3. s # {} => One(s) \in s
  BY DEF One
<1>4. s # {} => Cardinality(s \ {One(s)}) = Cardinality(s) - 1
  BY <1>1, <1>3, FS_RemoveElement
<1> QED BY <1>1, <1>2, <1>3, <1>4

(* There is such a function: it is built up from the smaller sets. *)
LEMMA SumsExist ==
    ASSUME NEW u \in [Message -> Nat]
    PROVE  \E f : Sums(u, f)
<1> DEFINE Next1(f, s) == IF s = {} THEN 0 ELSE f[s \ {One(s)}] + u[One(s)]
           Good(n) == \E f \in [SUBSET Message -> Nat] :
                        \A s \in SUBSET Message : Cardinality(s) <= n => f[s] = Next1(f, s)
           G == {n \in Nat : Good(n)}
<1>1. 0 \in G
  <2> DEFINE f == [s \in SUBSET Message |-> 0]
  <2>1. f \in [SUBSET Message -> Nat]
    OBVIOUS
  <2>2. ASSUME NEW s \in SUBSET Message, Cardinality(s) <= 0 PROVE f[s] = Next1(f, s)
    <3>1. Cardinality(s) \in Nat /\ (Cardinality(s) = 0 <=> s = {})
      BY SetsOfMessages
    <3>2. s = {}
      BY <2>2, <3>1
    <3> QED BY <3>2
  <2> QED BY <2>1, <2>2
<1>2. ASSUME NEW n \in G PROVE n + 1 \in G
  <2>1. PICK f \in [SUBSET Message -> Nat] :
          \A s \in SUBSET Message : Cardinality(s) <= n => f[s] = Next1(f, s)
    OBVIOUS
  <2> DEFINE g == [s \in SUBSET Message |-> IF Cardinality(s) <= n THEN f[s] ELSE Next1(f, s)]
  <2>2. g \in [SUBSET Message -> Nat]
    <3> SUFFICES ASSUME NEW s \in SUBSET Message PROVE Next1(f, s) \in Nat
      OBVIOUS
    <3> QED BY SetsOfMessages
  <2>3. ASSUME NEW s \in SUBSET Message, Cardinality(s) <= n + 1 PROVE g[s] = Next1(g, s)
    <3>1. g[s] = Next1(f, s)
      BY <2>1
    <3>2. CASE s = {}
      BY <3>1, <3>2
    <3>3. CASE s # {}
      <4>1. s \ {One(s)} \in SUBSET Message /\ Cardinality(s \ {One(s)}) <= n
        BY <3>3, <2>3, SetsOfMessages
      <4>2. g[s \ {One(s)}] = f[s \ {One(s)}]
        BY <4>1
      <4> QED BY <3>1, <3>3, <4>2
    <3> QED BY <3>2, <3>3
  <2>4. n + 1 \in Nat
    OBVIOUS
  <2> HIDE DEF g
  <2> QED BY <2>2, <2>3, <2>4
<1>3. G = Nat
  <2>1. G \in SUBSET Nat
    OBVIOUS
  <2> HIDE DEF G
  <2> QED BY <1>1, <1>2, <2>1, UpFromZero
<1>4. IsFiniteSet(Message) /\ Cardinality(Message) \in Nat
  BY SetsOfMessages
<1>5. Good(Cardinality(Message))
  BY <1>3, <1>4
<1>6. PICK f \in [SUBSET Message -> Nat] :
        \A s \in SUBSET Message : Cardinality(s) <= Cardinality(Message) => f[s] = Next1(f, s)
  BY <1>5
<1>7. \A s \in SUBSET Message : f[s] = Next1(f, s)
  <2> TAKE s \in SUBSET Message
  <2>1. Cardinality(s) <= Cardinality(Message)
    BY <1>4, FS_Subset
  <2> QED BY <1>6, <2>1
<1>8. f = [s \in SUBSET Message |-> Next1(f, s)]
  BY <1>7
<1> QED BY <1>8 DEF Sums

(* A sum is at most another if its parts are. *)
LEMMA TotalIsMonotone ==
    ASSUME NEW u \in [Message -> Nat], NEW v \in [Message -> Nat],
           \A m \in Message : u[m] <= v[m]
    PROVE  Total(u) \in Nat /\ Total(v) \in Nat /\ Total(u) <= Total(v)
<1> DEFINE f == CHOOSE h : Sums(u, h)
           g == CHOOSE h : Sums(v, h)
           G == {n \in Nat : \A s \in SUBSET Message : Cardinality(s) = n =>
                               f[s] \in Nat /\ g[s] \in Nat /\ f[s] <= g[s]}
<1>1. Sums(u, f) /\ Sums(v, g)
  BY SumsExist
<1> HIDE DEF f, g
<1>2. \A s \in SUBSET Message :
         /\ f[s] = IF s = {} THEN 0 ELSE f[s \ {One(s)}] + u[One(s)]
         /\ g[s] = IF s = {} THEN 0 ELSE g[s \ {One(s)}] + v[One(s)]
  BY <1>1 DEF Sums
<1>3. 0 \in G
  <2>1. ASSUME NEW s \in SUBSET Message, Cardinality(s) = 0 PROVE f[s] = 0 /\ g[s] = 0
    <3>1. s = {}
      BY <2>1, SetsOfMessages
    <3> QED BY <1>2, <3>1
  <2> QED BY <2>1
<1>4. ASSUME NEW n \in G PROVE n + 1 \in G
  <2> SUFFICES ASSUME NEW s \in SUBSET Message, Cardinality(s) = n + 1
               PROVE  f[s] \in Nat /\ g[s] \in Nat /\ f[s] <= g[s]
    OBVIOUS
  <2>1. s # {} /\ One(s) \in Message
    BY SetsOfMessages
  <2> DEFINE t == s \ {One(s)}
  <2>2. t \in SUBSET Message /\ Cardinality(t) = n
    BY <2>1, SetsOfMessages
  <2>3. f[t] \in Nat /\ g[t] \in Nat /\ f[t] <= g[t]
    BY <2>2
  <2>4. f[s] = f[t] + u[One(s)] /\ g[s] = g[t] + v[One(s)]
    BY <1>2, <2>1
  <2>5. u[One(s)] \in Nat /\ v[One(s)] \in Nat /\ u[One(s)] <= v[One(s)]
    BY <2>1
  <2> HIDE DEF t
  <2> QED BY <2>3, <2>4, <2>5
<1>5. G = Nat
  <2>1. G \in SUBSET Nat
    OBVIOUS
  <2> HIDE DEF G
  <2> QED BY <1>3, <1>4, <2>1, UpFromZero
<1>6. Cardinality(Message) \in G /\ Message \in SUBSET Message
  <2>1. Cardinality(Message) \in Nat
    BY SetsOfMessages
  <2> HIDE DEF G
  <2> QED BY <1>5, <2>1
<1>7. f[Message] \in Nat /\ g[Message] \in Nat /\ f[Message] <= g[Message]
  BY <1>6
<1>8. Total(u) = f[Message] /\ Total(v) = g[Message]
  BY TotalUnfolds, Zenon DEF f, g
<1> QED BY <1>7, <1>8

LEMMA TotalOfZeros ==
    Total([m \in Message |-> 0]) = 0
<1> DEFINE u == [m \in Message |-> 0]
           f == CHOOSE h : Sums(u, h)
           G == {n \in Nat : \A s \in SUBSET Message : Cardinality(s) = n => f[s] = 0}
<1>1. Sums(u, f)
  BY SumsExist
<1> HIDE DEF f
<1>2. \A s \in SUBSET Message : f[s] = IF s = {} THEN 0 ELSE f[s \ {One(s)}] + u[One(s)]
  BY <1>1 DEF Sums
<1>3. 0 \in G
  BY <1>2, SetsOfMessages
<1>4. ASSUME NEW n \in G PROVE n + 1 \in G
  <2> SUFFICES ASSUME NEW s \in SUBSET Message, Cardinality(s) = n + 1
               PROVE  f[s] = 0
    OBVIOUS
  <2>1. s # {} /\ One(s) \in Message /\ s \ {One(s)} \in SUBSET Message
        /\ Cardinality(s \ {One(s)}) = n
    BY SetsOfMessages
  <2>2. f[s \ {One(s)}] = 0 /\ u[One(s)] = 0
    BY <2>1
  <2> QED BY <1>2, <2>1, <2>2
<1>5. G = Nat
  <2>1. G \in SUBSET Nat
    OBVIOUS
  <2> HIDE DEF G
  <2> QED BY <1>3, <1>4, <2>1, UpFromZero
<1>6. Cardinality(Message) \in G /\ Message \in SUBSET Message
  <2>1. Cardinality(Message) \in Nat
    BY SetsOfMessages
  <2> HIDE DEF G
  <2> QED BY <1>5, <2>1
<1> QED BY <1>6, TotalUnfolds DEF f

-----------------------------------------------------------------------------
(* The claude step. *)

Event == {Assistant(m, n) : m \in Message, n \in Tokens}
           \cup {ResultEvent(bad) : bad \in BOOLEAN} \cup {OtherEvent}

StreamForm ==
    [turnIDs : SUBSET Turn, usage : [Message -> Nat], events : 0..Room,
     truncated : BOOLEAN, result : {"none", "ok", "error"},
     breach : {"none", "max_turns", "max_tokens"}]

ClaudeForm ==
    /\ TypeOK
    /\ pipe \in Seq(Event) /\ spent \in [Message -> Nat] /\ stream \in StreamForm
    /\ ctx \in {"live", "done"} /\ runCtx \in {"live", "deadline", "cancelled"}
    /\ signalled \in BOOLEAN /\ closed \in BOOLEAN
    /\ pc \in {"idle", "start", "consume", "wait", "done"}

(* e reports the usage of m. *)
Reports(e, m) == e.type = "assistant" /\ e.id = m

(* What the CLI has spent on a message is what the last event in the pipe  *)
(* reports; when there is none, it is what the reader has counted, unless  *)
(* it stopped counting at a breach.  No earlier report is higher.          *)
PipeInv ==
    \A m \in Message :
        /\ stream.usage[m] <= spent[m]
        /\ \A i \in 1..Len(pipe) : Reports(pipe[i], m) =>
             /\ pipe[i].tokens <= spent[m]
             /\ (\A j \in (i + 1)..Len(pipe) : ~ Reports(pipe[j], m)) =>
                   pipe[i].tokens = spent[m]
        /\ (stream.breach = "none" /\ \A i \in 1..Len(pipe) : ~ Reports(pipe[i], m)) =>
             stream.usage[m] = spent[m]

TurnsOf(usage) == {m \in Turn : usage[m] > 0}

OverTokens(usage) == Exceeds(Total(usage), maxTokens)
OverTurns(usage) == Exceeds(Cardinality(TurnsOf(usage)), maxTurns)

(* The turns are the top-level messages counted so far, and the stream is  *)
(* in breach exactly of the limit that this count exceeds.                 *)
CountInv ==
    /\ stream.turnIDs = TurnsOf(stream.usage)
    /\ stream.breach = "none" => ~ OverTokens(stream.usage) /\ ~ OverTurns(stream.usage)
    /\ stream.breach = "max_tokens" => OverTokens(stream.usage)
    /\ stream.breach = "max_turns" => OverTurns(stream.usage)

(* Why the contexts ended, and that nothing is lost while they have not.   *)
StopInv ==
    /\ runCtx = "cancelled" => stream.breach # "none"
    /\ (runCtx = "deadline" /\ ctx = "live") => maxDuration
    /\ signalled => runCtx # "live"
    /\ closed => signalled
    /\ pc = "wait" => closed \/ (pipe = <<>> /\ cli # "running")

(* What Execute has returned is still so: the CLI has ended. *)
ReturnInv ==
    /\ pc \in {"idle", "start"} => cli = "none"
    /\ pc = "done" => cli # "running"
    /\ pc # "done" => outcome = "none"
    /\ outcome \in {"max_tokens", "max_turns"} => stream.breach = outcome
    /\ outcome = "max_duration" => maxDuration /\ runCtx = "deadline"
    /\ outcome = "ok" => /\ stream.breach = "none" /\ stream.usage = spent
                         /\ cli = "exit 0" /\ stream.result = "ok" /\ runCtx = "live"

ClaudeInv == ClaudeForm /\ PipeInv /\ CountInv /\ StopInv /\ ReturnInv

-----------------------------------------------------------------------------
(* The steps on the host. *)

Piece == {"old", "part", "whole"}

FileForm == [pieces : Seq(Piece), mode : {"none", "other", "umask", "requested"}]

(* The parts of the state have their form, and Execute is at a place of    *)
(* the step's own type.                                                    *)
HostForm ==
    /\ LocalTypeOK
    /\ output \in [written : Nat, read : Nat]
    /\ file \in FileForm
    /\ at \in {"running", "reaped"} => kind \in Process
    /\ at \in {"opened", "written"} => kind = "write_file"
    /\ at = "asked" => kind = "prompt"
    /\ at = "sent" => kind = "http_request"

(* What is in the file between the calls that make it. *)
FileInv ==
    /\ at = "opened" => options.append \/ file.pieces = <<>>
    /\ at = "written" => /\ Len(file.pieces) > 0 /\ file.pieces[Len(file.pieces)] = "whole"
                         /\ options.append \/ file.pieces = <<"whole">>

(* A process that was waited for has ended, and its end was reported. *)
ProcessInv ==
    /\ at = "reaped" => child # "running"
    /\ (kind \in Process /\ at = "done" /\ result.err = "none") => child = "0"

HostInv == HostForm /\ FileInv /\ ProcessInv /\ TempFilesRemoved /\ WriteSettles /\ OutputIsWhole

-----------------------------------------------------------------------------
(* What the reader makes of one event. *)

Kept(s) == s.truncated => s.events = Room

LEMMA StoredKeeps ==
    ASSUME NEW s \in StreamForm, Kept(s)
    PROVE  /\ Stored(s) \in StreamForm /\ Kept(Stored(s))
           /\ Stored(s).turnIDs = s.turnIDs /\ Stored(s).usage = s.usage
           /\ Stored(s).result = s.result /\ Stored(s).breach = s.breach
<1>1. /\ eventsLimit \in Int /\ Room \in Nat /\ eventsLimit <= Room
      /\ Room > 0 => Room = eventsLimit
  BY ClaudeAssumption DEF Room
<1>2. CASE s.events >= eventsLimit
  <2>1. Stored(s) = [s EXCEPT !.truncated = TRUE]
    BY <1>2 DEF Stored
  <2>2. s.events = Room
    <3>1. s.events \in 0..Room /\ s.events >= eventsLimit
      BY <1>2 DEF StreamForm
    <3> QED BY <1>1, <3>1
  <2> QED BY <2>1, <2>2 DEF StreamForm, Kept
<1>3. CASE ~ (s.events >= eventsLimit)
  <2>1. Stored(s) = [s EXCEPT !.events = s.events + 1]
    BY <1>3 DEF Stored
  <2>2. s.events + 1 \in 0..Room /\ ~ s.truncated
    <3>1. s.events \in 0..Room /\ s.events < eventsLimit
      BY <1>1, <1>3 DEF StreamForm
    <3> QED BY <1>1, <3>1 DEF Kept
  <2> QED BY <2>1, <2>2 DEF StreamForm, Kept
<1> QED BY <1>2, <1>3

LEMMA EventForm ==
    ASSUME NEW ev \in Event
    PROVE  /\ ev.type = "assistant" => ev.id \in Message /\ ev.tokens \in Nat \ {0}
           /\ ev.tokens \in Nat
<1>1. CASE \E m \in Message, n \in Tokens : ev = Assistant(m, n)
  <2>1. PICK m \in Message, n \in Tokens : ev = Assistant(m, n)
    BY <1>1
  <2>2. ev.id = m /\ ev.tokens = n
    BY <2>1 DEF Assistant
  <2> QED BY <2>2, ClaudeAssumption
<1>2. CASE \E bad \in BOOLEAN : ev = ResultEvent(bad)
  BY <1>2 DEF ResultEvent
<1>3. CASE ev = OtherEvent
  BY <1>3 DEF OtherEvent
<1> QED BY <1>1, <1>2, <1>3 DEF Event

LEMMA CountKeeps ==
    ASSUME NEW s \in StreamForm, Kept(s), s.turnIDs = TurnsOf(s.usage),
           NEW m \in Message, NEW ev \in Event, Reports(ev, m)
    PROVE  /\ count(s, ev) \in StreamForm /\ Kept(count(s, ev))
           /\ count(s, ev).usage = [s.usage EXCEPT ![m] = ev.tokens]
           /\ count(s, ev).turnIDs = TurnsOf(count(s, ev).usage)
           /\ count(s, ev).result = s.result /\ count(s, ev).breach = s.breach
<1>1. ev.id = m /\ ev.tokens \in Nat \ {0}
  BY EventForm DEF Reports
<1> DEFINE ids == IF m \in Turn THEN s.turnIDs \cup {m} ELSE s.turnIDs
           u == [s.usage EXCEPT ![m] = ev.tokens]
<1>2. s.turnIDs \in SUBSET Turn /\ s.usage \in [Message -> Nat]
  BY DEF StreamForm
<1>3. count(s, ev) = [s EXCEPT !.turnIDs = ids, !.usage = u]
  BY <1>1, <1>2 DEF count, StreamForm
<1>4. ids \in SUBSET Turn /\ u \in [Message -> Nat]
  BY <1>1, <1>2
<1>5. ids = TurnsOf(u)
  BY <1>1, <1>2 DEF TurnsOf, Message
<1> HIDE DEF ids, u
<1>6. /\ count(s, ev) \in StreamForm
      /\ count(s, ev).turnIDs = ids /\ count(s, ev).usage = u
      /\ count(s, ev).result = s.result /\ count(s, ev).breach = s.breach
      /\ count(s, ev).events = s.events /\ count(s, ev).truncated = s.truncated
  BY <1>3, <1>4 DEF StreamForm
<1> QED BY <1>5, <1>6 DEF u, Kept

(* An event of an assistant is counted, and then the limits are looked at. *)
LEMMA AssistantCounts ==
    ASSUME NEW s \in StreamForm, Kept(s), s.breach = "none", s.turnIDs = TurnsOf(s.usage),
           NEW m \in Message, NEW ev \in Event, Reports(ev, m)
    PROVE  LET t == handle(s, ev)
           IN  /\ t \in StreamForm /\ Kept(t)
               /\ t.usage = [s.usage EXCEPT ![m] = ev.tokens]
               /\ t.turnIDs = TurnsOf(t.usage)
               /\ t.breach = IF OverTurns(t.usage) THEN "max_turns"
                             ELSE IF OverTokens(t.usage) THEN "max_tokens" ELSE "none"
<1> DEFINE c == count(Stored(s), ev)
<1>1. /\ c \in StreamForm /\ Kept(c)
      /\ c.usage = [s.usage EXCEPT ![m] = ev.tokens]
      /\ c.turnIDs = TurnsOf(c.usage) /\ c.breach = "none"
  <2>1. /\ Stored(s) \in StreamForm /\ Kept(Stored(s))
        /\ Stored(s).turnIDs = s.turnIDs /\ Stored(s).usage = s.usage
        /\ Stored(s).breach = "none"
    BY StoredKeeps
  <2> QED BY <2>1, CountKeeps
<1> HIDE DEF c
<1>2. (overTurns(c) <=> OverTurns(c.usage)) /\ (overTokens(c) <=> OverTokens(c.usage))
  BY <1>1 DEF overTurns, overTokens, OverTurns, OverTokens, totalUsage, Exceeds
<1>3. handle(s, ev) = IF OverTurns(c.usage) THEN exceed(c, "max_turns")
                      ELSE IF OverTokens(c.usage) THEN exceed(c, "max_tokens") ELSE c
  BY <1>2 DEF handle, handleAssistant, Reports, c
<1>4. ASSUME NEW limit \in {"max_turns", "max_tokens"}
      PROVE  /\ exceed(c, limit) \in StreamForm /\ Kept(exceed(c, limit))
             /\ exceed(c, limit).usage = c.usage /\ exceed(c, limit).turnIDs = c.turnIDs
             /\ exceed(c, limit).breach = limit
  <2> DEFINE b == [c EXCEPT !.breach = limit]
  <2>1. /\ b \in StreamForm /\ Kept(b) /\ b.breach = limit
        /\ b.usage = c.usage /\ b.turnIDs = c.turnIDs
    BY <1>1 DEF StreamForm, Kept
  <2> HIDE DEF b
  <2>2. exceed(c, limit) = Stored(b)
    BY DEF exceed, b
  <2> QED BY <2>1, <2>2, StoredKeeps
<1>5. CASE OverTurns(c.usage)
  BY <1>1, <1>3, <1>4, <1>5
<1>6. CASE ~ OverTurns(c.usage) /\ OverTokens(c.usage)
  BY <1>1, <1>3, <1>4, <1>6
<1>7. CASE ~ OverTurns(c.usage) /\ ~ OverTokens(c.usage)
  BY <1>1, <1>3, <1>7
<1> QED BY <1>5, <1>6, <1>7

(* Other events are only kept. *)
LEMMA OthersAreKept ==
    ASSUME NEW s \in StreamForm, Kept(s), NEW ev \in Event,
           s.breach # "none" \/ ev.type # "assistant"
    PROVE  LET t == handle(s, ev)
           IN  /\ t \in StreamForm /\ Kept(t) /\ t.breach = s.breach
               /\ t.usage = s.usage /\ t.turnIDs = s.turnIDs
<1>1. CASE s.breach # "none"
  BY <1>1 DEF handle
<1>2. CASE s.breach = "none" /\ ev.type = "result"
  <2> DEFINE b == [s EXCEPT !.result = IF ev.tokens = 1 THEN "error" ELSE "ok"]
  <2>1. /\ b \in StreamForm /\ Kept(b) /\ b.breach = s.breach
        /\ b.usage = s.usage /\ b.turnIDs = s.turnIDs
    BY DEF StreamForm, Kept
  <2> HIDE DEF b
  <2>2. handle(s, ev) = Stored(b)
    BY <1>2 DEF handle, handleResult, b
  <2> QED BY <2>1, <2>2, StoredKeeps
<1>3. CASE s.breach = "none" /\ ev.type \notin {"assistant", "result"}
  <2>1. handle(s, ev) = Stored(s)
    BY <1>3 DEF handle
  <2> QED BY <2>1, StoredKeeps
<1> QED BY <1>1, <1>2, <1>3

-----------------------------------------------------------------------------

LEMMA ClaudeInitially ==
    ASSUME NEW p \in {"idle", "start"}, InitAt(p)
    PROVE  ClaudeInv
<1> DEFINE zeros == [m \in Message |-> 0]
<1>1. stream = [turnIDs |-> {}, usage |-> zeros, events |-> 0, truncated |-> FALSE,
                result |-> "none", breach |-> "none"]
  BY DEF InitAt
<1>2. {maxTurns, maxTokens, Room, PipeSize} \subseteq Nat
  BY ClaudeAssumption DEF Room
<1>3. ClaudeForm
  <2>1. pipe \in Seq(Event) /\ Len(pipe) = 0
    BY DEF InitAt
  <2>2. zeros \in [Message -> Nat] /\ spent = zeros
    BY DEF InitAt
  <2> HIDE DEF zeros
  <2>3. stream \in StreamForm /\ stream.events = 0 /\ ~ stream.truncated
    BY <1>1, <1>2, <2>2 DEF StreamForm
  <2>4. TypeOK
    BY <1>2, <2>1, <2>3 DEF TypeOK, InitAt
  <2> QED BY <2>1, <2>2, <2>3, <2>4 DEF ClaudeForm, InitAt
<1>4. PipeInv
  <2>1. pipe = <<>> /\ stream.usage = zeros /\ spent = zeros
    BY <1>1 DEF InitAt
  <2> QED BY <2>1 DEF PipeInv
<1>5. CountInv
  <2>1. TurnsOf(zeros) = {}
    BY DEF TurnsOf, Message
  <2>2. ~ OverTurns(zeros)
    BY <1>2, <2>1, FS_EmptySet DEF OverTurns, Exceeds
  <2>3. ~ OverTokens(zeros)
    BY <1>2, TotalOfZeros DEF OverTokens, Exceeds
  <2> HIDE DEF zeros
  <2> QED BY <1>1, <2>1, <2>2, <2>3 DEF CountInv
<1>6. StopInv /\ ReturnInv
  BY DEF InitAt, StopInv, ReturnInv
<1> QED BY <1>3, <1>4, <1>5, <1>6 DEF ClaudeInv

(* What leaves the pipe, the count and the CLI's account alone. *)
LEMMA CountsUnchanged ==
    ASSUME PipeInv, CountInv,
           UNCHANGED <<pipe, spent, stream.turnIDs, stream.usage, stream.breach>>
    PROVE  PipeInv' /\ CountInv'
BY DEF PipeInv, CountInv, Reports, TurnsOf, OverTokens, OverTurns, Exceeds

(* The CLI writes an event that reports no usage. *)
LEMMA OtherIsWritten ==
    ASSUME ClaudeForm, PipeInv, CountInv, NEW e \in Event, e.type # "assistant",
           pipe' = Append(pipe, e), UNCHANGED <<spent, stream>>
    PROVE  PipeInv' /\ CountInv'
<1>1. pipe \in Seq(Event)
  BY DEF ClaudeForm
<1>2. /\ Len(pipe') = Len(pipe) + 1 /\ Len(pipe) \in Nat
      /\ \A i \in 1..Len(pipe) : pipe'[i] = pipe[i]
      /\ pipe'[Len(pipe) + 1] = e
  BY <1>1
<1>3. PipeInv'
  <2> SUFFICES ASSUME NEW m \in Message
               PROVE  /\ stream'.usage[m] <= spent'[m]
                      /\ \A i \in 1..Len(pipe') : Reports(pipe'[i], m) =>
                           /\ pipe'[i].tokens <= spent'[m]
                           /\ (\A j \in (i + 1)..Len(pipe') : ~ Reports(pipe'[j], m)) =>
                                 pipe'[i].tokens = spent'[m]
                      /\ (stream'.breach = "none"
                           /\ \A i \in 1..Len(pipe') : ~ Reports(pipe'[i], m)) =>
                           stream'.usage[m] = spent'[m]
    BY DEF PipeInv, Reports
  <2>1. ~ Reports(e, m)
    BY DEF Reports
  <2>2. ASSUME NEW i \in 1..Len(pipe'), Reports(pipe'[i], m)
        PROVE  /\ pipe'[i].tokens <= spent'[m]
               /\ (\A j \in (i + 1)..Len(pipe') : ~ Reports(pipe'[j], m)) =>
                     pipe'[i].tokens = spent'[m]
    <3>1. i \in 1..Len(pipe) /\ pipe'[i] = pipe[i]
      BY <1>2, <2>1, <2>2
    <3>2. \A j \in (i + 1)..Len(pipe) : j \in (i + 1)..Len(pipe') /\ pipe'[j] = pipe[j]
      BY <1>2, <3>1
    <3> QED BY <2>2, <3>1, <3>2 DEF PipeInv
  <2> QED BY <1>2, <2>2 DEF PipeInv
<1>4. CountInv'
  BY DEF CountInv, TurnsOf, OverTokens, OverTurns, Exceeds
<1> QED BY <1>3, <1>4

(* The CLI reports the usage of a message, at least what it was before. *)
LEMMA UsageIsWritten ==
    ASSUME ClaudeForm, PipeInv, CountInv, NEW x \in Message, NEW n \in Tokens,
           n >= spent[x], pipe' = Append(pipe, Assistant(x, n)),
           spent' = [spent EXCEPT ![x] = n], UNCHANGED stream
    PROVE  PipeInv' /\ CountInv'
<1> DEFINE e == Assistant(x, n)
<1>1. pipe \in Seq(Event) /\ e \in Event /\ spent \in [Message -> Nat] /\ n \in Nat
      /\ stream.usage \in [Message -> Nat]
  BY ClaudeAssumption DEF ClaudeForm, Event, StreamForm
<1>2. e.type = "assistant" /\ e.id = x /\ e.tokens = n
  BY DEF Assistant
<1> HIDE DEF e
<1>3. /\ Len(pipe') = Len(pipe) + 1 /\ Len(pipe) \in Nat
      /\ \A i \in 1..Len(pipe) : pipe'[i] = pipe[i] /\ pipe[i] \in Event
      /\ pipe'[Len(pipe) + 1] = e
  BY <1>1 DEF e
<1>4. ASSUME NEW m \in Message
      PROVE  /\ stream.usage[m] <= spent'[m]
             /\ \A i \in 1..Len(pipe') : Reports(pipe'[i], m) =>
                  /\ pipe'[i].tokens <= spent'[m]
                  /\ (\A j \in (i + 1)..Len(pipe') : ~ Reports(pipe'[j], m)) =>
                        pipe'[i].tokens = spent'[m]
             /\ (stream.breach = "none" /\ \A i \in 1..Len(pipe') : ~ Reports(pipe'[i], m)) =>
                  stream.usage[m] = spent'[m]
  <2>1. spent[m] \in Nat /\ spent'[m] \in Nat /\ spent[m] <= spent'[m]
        /\ spent'[m] = IF m = x THEN n ELSE spent[m]
    BY <1>1
  <2>2. Reports(e, m) <=> m = x
    BY <1>2 DEF Reports
  <2>3. stream.usage[m] <= spent'[m]
    <3>1. stream.usage[m] <= spent[m] /\ stream.usage[m] \in Nat
      BY <1>1 DEF PipeInv
    <3> QED BY <2>1, <3>1
  <2>4. ASSUME NEW i \in 1..Len(pipe'), Reports(pipe'[i], m)
        PROVE  /\ pipe'[i].tokens <= spent'[m]
               /\ (\A j \in (i + 1)..Len(pipe') : ~ Reports(pipe'[j], m)) =>
                     pipe'[i].tokens = spent'[m]
    <3>1. CASE i = Len(pipe) + 1
      BY <1>2, <1>3, <2>1, <2>2, <2>4, <3>1
    <3>2. CASE i \in 1..Len(pipe)
      <4>1. pipe'[i] = pipe[i] /\ pipe[i].tokens \in Nat
        BY <1>3, <3>2, EventForm
      <4>2. pipe[i].tokens <= spent[m]
        BY <2>4, <3>2, <4>1 DEF PipeInv
      <4>3. ASSUME \A j \in (i + 1)..Len(pipe') : ~ Reports(pipe'[j], m)
            PROVE  pipe[i].tokens = spent'[m]
        <5>1. Len(pipe) + 1 \in (i + 1)..Len(pipe')
          BY <1>3, <3>2
        <5>2. m # x
          BY <1>3, <2>2, <4>3, <5>1
        <5>3. \A j \in (i + 1)..Len(pipe) : j \in (i + 1)..Len(pipe') /\ pipe'[j] = pipe[j]
          BY <1>3, <3>2
        <5> QED BY <2>1, <2>4, <3>2, <4>1, <4>3, <5>2, <5>3 DEF PipeInv
      <4> QED BY <2>1, <4>1, <4>2, <4>3
    <3> QED BY <1>3, <3>1, <3>2
  <2>5. ASSUME stream.breach = "none", \A i \in 1..Len(pipe') : ~ Reports(pipe'[i], m)
        PROVE  stream.usage[m] = spent'[m]
    <3>1. m # x
      BY <1>3, <2>2, <2>5
    <3>2. \A i \in 1..Len(pipe) : ~ Reports(pipe[i], m)
      BY <1>3, <2>5
    <3> QED BY <2>1, <2>5, <3>1, <3>2 DEF PipeInv
  <2> QED BY <2>3, <2>4, <2>5
<1>5. PipeInv'
  BY <1>4 DEF PipeInv, Reports
<1>6. CountInv'
  BY DEF CountInv, TurnsOf, OverTokens, OverTurns, Exceeds
<1> QED BY <1>5, <1>6

(* The reader takes the first event. *)
LEMMA EventIsRead ==
    ASSUME ClaudeForm, PipeInv, CountInv, Read
    PROVE  /\ stream' \in StreamForm /\ Kept(stream')
           /\ pipe' \in Seq(Event) /\ Len(pipe') <= PipeSize
           /\ stream.breach # "none" => stream'.breach # "none"
           /\ PipeInv' /\ CountInv'
<1> DEFINE ev == Head(pipe)
<1>1. /\ pipe \in Seq(Event) /\ pipe # <<>> /\ Len(pipe) <= PipeSize
      /\ spent \in [Message -> Nat] /\ spent' = spent
      /\ stream \in StreamForm /\ Kept(stream) /\ stream.usage \in [Message -> Nat]
      /\ pipe' = Tail(pipe) /\ stream' = handle(stream, ev)
  BY DEF ClaudeForm, TypeOK, StreamForm, Kept, Read, external
<1>2. /\ pipe' \in Seq(Event) /\ Len(pipe) \in Nat \ {0} /\ Len(pipe') = Len(pipe) - 1
      /\ \A i \in 1..Len(pipe') : i + 1 \in 1..Len(pipe) /\ pipe'[i] = pipe[i + 1]
      /\ 1 \in 1..Len(pipe) /\ ev = pipe[1] /\ ev \in Event
  BY <1>1
<1>3. Len(pipe') <= PipeSize
  BY <1>1, <1>2, ClaudeAssumption
<1> HIDE DEF ev
(* What is still in the pipe was in it, and what follows it still does. *)
<1>4. ASSUME NEW m \in Message, NEW i \in 1..Len(pipe'), Reports(pipe'[i], m)
      PROVE  /\ pipe'[i].tokens <= spent[m]
             /\ (\A j \in (i + 1)..Len(pipe') : ~ Reports(pipe'[j], m)) =>
                   pipe'[i].tokens = spent[m]
  <2>1. i + 1 \in 1..Len(pipe) /\ pipe'[i] = pipe[i + 1]
    BY <1>2
  <2>2. pipe[i + 1].tokens <= spent[m]
    BY <1>4, <2>1 DEF PipeInv
  <2>3. ASSUME \A j \in (i + 1)..Len(pipe') : ~ Reports(pipe'[j], m)
        PROVE  pipe[i + 1].tokens = spent[m]
    <3>1. ASSUME NEW k \in (i + 2)..Len(pipe) PROVE ~ Reports(pipe[k], m)
      <4>1. k - 1 \in (i + 1)..Len(pipe') /\ pipe'[k - 1] = pipe[k]
        BY <1>2
      <4> QED BY <2>3, <4>1
    <3>2. (i + 1) + 1 = i + 2
      OBVIOUS
    <3> QED BY <1>4, <2>1, <3>1, <3>2 DEF PipeInv
  <2> QED BY <2>1, <2>2, <2>3
<1>5. CASE stream.breach # "none" \/ ev.type # "assistant"
  <2>1. /\ stream' \in StreamForm /\ Kept(stream') /\ stream'.breach = stream.breach
        /\ stream'.usage = stream.usage /\ stream'.turnIDs = stream.turnIDs
    BY <1>1, <1>2, <1>5, OthersAreKept
  <2>2. ASSUME NEW m \in Message, stream.breach = "none",
               \A i \in 1..Len(pipe') : ~ Reports(pipe'[i], m)
        PROVE  stream.usage[m] = spent[m]
    <3>1. ASSUME NEW i \in 1..Len(pipe) PROVE ~ Reports(pipe[i], m)
      <4>1. CASE i = 1
        BY <1>2, <1>5, <2>2, <4>1 DEF Reports
      <4>2. CASE i # 1
        <5>1. i - 1 \in 1..Len(pipe') /\ pipe'[i - 1] = pipe[i]
          BY <1>2, <4>2
        <5> QED BY <2>2, <5>1
      <4> QED BY <4>1, <4>2
    <3> QED BY <2>2, <3>1 DEF PipeInv
  <2>3. PipeInv'
    <3>1. \A m \in Message : stream'.usage[m] <= spent'[m]
      BY <1>1, <2>1 DEF PipeInv
    <3> QED BY <1>1, <1>4, <2>1, <2>2, <3>1 DEF PipeInv, Reports
  <2>4. CountInv'
    BY <2>1 DEF CountInv, TurnsOf, OverTokens, OverTurns, Exceeds
  <2> QED BY <1>2, <1>3, <2>1, <2>3, <2>4
<1>6. CASE stream.breach = "none" /\ ev.type = "assistant"
  <2>1. PICK x \in Message : Reports(ev, x)
    BY <1>2, <1>6, EventForm DEF Reports
  <2>2. /\ stream' \in StreamForm /\ Kept(stream')
        /\ stream'.usage = [stream.usage EXCEPT ![x] = ev.tokens]
        /\ stream'.turnIDs = TurnsOf(stream'.usage)
        /\ stream'.breach = IF OverTurns(stream'.usage) THEN "max_turns"
                            ELSE IF OverTokens(stream'.usage) THEN "max_tokens" ELSE "none"
    BY <1>1, <1>2, <1>6, <2>1, AssistantCounts DEF CountInv
  <2>3. CountInv'
    BY <2>2 DEF CountInv, TurnsOf, OverTokens, OverTurns, Exceeds
  <2>4. ev.tokens \in Nat /\ ev.tokens <= spent[x]
    BY <1>2, <2>1, EventForm DEF PipeInv
  <2>5. \A m \in Message : stream'.usage[m] <= spent[m]
    BY <1>1, <2>2, <2>4 DEF PipeInv
  <2>6. ASSUME NEW m \in Message, \A i \in 1..Len(pipe') : ~ Reports(pipe'[i], m)
        PROVE  stream'.usage[m] = spent[m]
    <3>1. \A k \in 2..Len(pipe) : ~ Reports(pipe[k], m)
      <4> TAKE k \in 2..Len(pipe)
      <4>1. k - 1 \in 1..Len(pipe') /\ pipe'[k - 1] = pipe[k]
        BY <1>2
      <4> QED BY <2>6, <4>1
    <3>2. CASE m = x
      <4>1. ev.tokens = spent[x]
        <5>1. 1 + 1 = 2
          OBVIOUS
        <5> QED BY <1>2, <2>1, <3>1, <3>2, <5>1 DEF PipeInv
      <4> QED BY <1>1, <2>2, <3>2, <4>1
    <3>3. CASE m # x
      <4>1. ~ Reports(ev, m)
        BY <2>1, <3>3 DEF Reports
      <4>2. \A i \in 1..Len(pipe) : ~ Reports(pipe[i], m)
        BY <1>2, <3>1, <4>1
      <4>3. stream.usage[m] = spent[m]
        BY <1>6, <4>2 DEF PipeInv
      <4> QED BY <1>1, <2>2, <3>3, <4>3
    <3> QED BY <3>2, <3>3
  <2>7. PipeInv'
    BY <1>1, <1>4, <2>5, <2>6 DEF PipeInv, Reports
  <2> QED BY <1>2, <1>3, <1>6, <2>2, <2>3, <2>7
<1> QED BY <1>5, <1>6

LEMMA ClaudeStepKeeps ==
    ASSUME ClaudeInv, Next
    PROVE  ClaudeInv'
<1>0. /\ ClaudeForm /\ PipeInv /\ CountInv /\ StopInv /\ ReturnInv
      /\ pipe \in Seq(Event) /\ Len(pipe) \in Nat /\ PipeSize \in Nat
  BY ClaudeAssumption DEF ClaudeInv, ClaudeForm
<1> USE <1>0
<1> DEFINE Rest == ClaudeForm' /\ StopInv' /\ ReturnInv'
<1>1. CASE Reject
  <2>1. UNCHANGED <<pipe, spent, stream>>
    BY <1>1 DEF Reject, external
  <2>2. Rest
    BY <1>1 DEF Reject, external, contexts, ClaudeForm, TypeOK, StopInv, ReturnInv
  <2> QED BY <2>1, <2>2, CountsUnchanged DEF ClaudeInv
<1>2. CASE Start
  <2>1. UNCHANGED <<pipe, spent, stream>>
    BY <1>2 DEF Start
  <2>2. Rest
    BY <1>2 DEF Start, contexts, ClaudeForm, TypeOK, StopInv, ReturnInv
  <2> QED BY <2>1, <2>2, CountsUnchanged DEF ClaudeInv
<1>3. ASSUME NEW m \in Message, NEW n \in Tokens, EmitAssistant(m, n) PROVE ClaudeInv'
  <2>1. PipeInv' /\ CountInv'
    BY <1>3, UsageIsWritten DEF EmitAssistant
  <2>2. Assistant(m, n) \in Event /\ n \in Nat
    BY ClaudeAssumption DEF Event
  <2>3. /\ pipe' \in Seq(Event) /\ Len(pipe') <= PipeSize
        /\ spent' \in [Message -> Nat]
    BY <1>3, <2>2 DEF EmitAssistant, ClaudeForm
  <2>4. ClaudeForm'
    BY <1>3, <2>3 DEF EmitAssistant, contexts, ClaudeForm, TypeOK
  <2>5. StopInv' /\ ReturnInv'
    BY <1>3 DEF EmitAssistant, contexts, StopInv, ReturnInv
  <2> QED BY <2>1, <2>4, <2>5 DEF ClaudeInv
<1>4. ASSUME NEW e \in Event, e.type # "assistant", cli = "running", Len(pipe) < PipeSize,
             pipe' = Append(pipe, e),
             UNCHANGED <<cli, tool, closed, spent, contexts, stream, pc, outcome>>
      PROVE  ClaudeInv'
  <2>1. PipeInv' /\ CountInv'
    BY <1>4, OtherIsWritten
  <2>2. pipe' \in Seq(Event) /\ Len(pipe') <= PipeSize
    BY <1>4
  <2>3. ClaudeForm'
    BY <1>4, <2>2 DEF contexts, ClaudeForm, TypeOK
  <2>4. StopInv' /\ ReturnInv'
    BY <1>4 DEF contexts, StopInv, ReturnInv
  <2> QED BY <2>1, <2>3, <2>4 DEF ClaudeInv
<1>5. CASE EmitOther
  <2>1. OtherEvent \in Event
    BY DEF Event
  <2>2. OtherEvent.type # "assistant"
    BY DEF OtherEvent
  <2> QED BY <1>4, <1>5, <2>1, <2>2 DEF EmitOther
<1>6. ASSUME NEW bad \in BOOLEAN, EmitResult(bad) PROVE ClaudeInv'
  <2>1. ResultEvent(bad) \in Event /\ ResultEvent(bad).type # "assistant"
    BY DEF Event, ResultEvent
  <2> QED BY <1>4, <1>6, <2>1 DEF EmitResult
<1>7. ASSUME NEW t \in {"obeys", "ignores"}, StartTool(t) PROVE ClaudeInv'
  <2>1. UNCHANGED <<pipe, spent, stream>>
    BY <1>7 DEF StartTool
  <2>2. Rest
    BY <1>7 DEF StartTool, contexts, ClaudeForm, TypeOK, StopInv, ReturnInv
  <2> QED BY <2>1, <2>2, CountsUnchanged DEF ClaudeInv
<1>8. ASSUME NEW e \in Exits, Exit(e) PROVE ClaudeInv'
  <2>1. UNCHANGED <<pipe, spent, stream>>
    BY <1>8 DEF Exit
  <2>2. Rest
    BY <1>8 DEF Exit, Exits, contexts, ClaudeForm, TypeOK, StopInv, ReturnInv
  <2> QED BY <2>1, <2>2, CountsUnchanged DEF ClaudeInv
<1>9. CASE ToolEnds
  <2>1. UNCHANGED <<pipe, spent, stream>>
    BY <1>9 DEF ToolEnds
  <2>2. Rest
    BY <1>9 DEF ToolEnds, contexts, ClaudeForm, TypeOK, StopInv, ReturnInv
  <2> QED BY <2>1, <2>2, CountsUnchanged DEF ClaudeInv
<1>10. CASE DurationOver
  <2>1. UNCHANGED <<pipe, spent, stream>>
    BY <1>10 DEF DurationOver, external
  <2>2. Rest
    BY <1>10 DEF DurationOver, external, ClaudeForm, TypeOK, StopInv, ReturnInv
  <2> QED BY <2>1, <2>2, CountsUnchanged DEF ClaudeInv
<1>11. CASE StepTimeout
  <2>1. UNCHANGED <<pipe, spent, stream>>
    BY <1>11 DEF StepTimeout, external
  <2>2. Rest
    BY <1>11 DEF StepTimeout, external, ClaudeForm, TypeOK, StopInv, ReturnInv
  <2> QED BY <2>1, <2>2, CountsUnchanged DEF ClaudeInv
<1>12. CASE Cancel
  <2>1. UNCHANGED <<pipe, spent, stream>>
    BY <1>12 DEF Cancel, external
  <2>2. Rest
    BY <1>12 DEF Cancel, external, ClaudeForm, TypeOK, StopInv, ReturnInv
  <2> QED BY <2>1, <2>2, CountsUnchanged DEF ClaudeInv
<1>13. CASE WaitDelayOver
  <2>1. UNCHANGED <<pipe, spent, stream>>
    BY <1>13 DEF WaitDelayOver
  <2>2. Rest
    BY <1>13 DEF WaitDelayOver, contexts, Exits, ClaudeForm, TypeOK, StopInv, ReturnInv
  <2> QED BY <2>1, <2>2, CountsUnchanged DEF ClaudeInv
<1>14. CASE Read
  <2>1. /\ stream' \in StreamForm /\ Kept(stream')
        /\ pipe' \in Seq(Event) /\ Len(pipe') <= PipeSize
        /\ stream.breach # "none" => stream'.breach # "none"
        /\ PipeInv' /\ CountInv'
    BY <1>14, EventIsRead
  <2>2. ClaudeForm'
    <3>1. stream'.events \in 0..Room /\ (stream'.truncated => stream'.events = Room)
      BY <2>1 DEF StreamForm, Kept
    <3> QED BY <1>14, <2>1, <3>1 DEF Read, external, ClaudeForm, TypeOK, Room
  <2>3. StopInv' /\ ReturnInv'
    BY <1>14, <2>1 DEF Read, external, ClaudeForm, StopInv, ReturnInv
  <2> QED BY <2>1, <2>2, <2>3 DEF ClaudeInv
<1>15. CASE EndOfStream
  <2>1. UNCHANGED <<pipe, spent, stream>>
    BY <1>15 DEF EndOfStream, external
  <2>2. Rest
    BY <1>15 DEF EndOfStream, external, contexts, ClaudeForm, TypeOK, StopInv, ReturnInv
  <2> QED BY <2>1, <2>2, CountsUnchanged DEF ClaudeInv
<1>16. CASE Wait
  <2>0. /\ stream \in StreamForm /\ Kept(stream)
        /\ Stored(stream) \in StreamForm /\ Kept(Stored(stream))
        /\ Stored(stream).turnIDs = stream.turnIDs /\ Stored(stream).usage = stream.usage
        /\ Stored(stream).result = stream.result /\ Stored(stream).breach = stream.breach
    <3>1. stream \in StreamForm /\ Kept(stream)
      BY DEF ClaudeForm, TypeOK, Kept
    <3> QED BY <3>1, StoredKeeps
  <2>1. /\ UNCHANGED <<pipe, spent, stream.turnIDs, stream.usage, stream.breach, stream.result>>
        /\ stream' \in StreamForm /\ Kept(stream')
    <3> HIDE DEF Breach, Stored
    <3> QED BY <1>16, <2>0 DEF Wait, external
  <2>2. ClaudeForm' /\ StopInv'
    <3>1. stream'.events \in 0..Room /\ (stream'.truncated => stream'.events = Room)
      BY <2>1 DEF StreamForm, Kept
    <3>2. TypeOK'
      BY <1>16, <2>1, <3>1 DEF Wait, external, ClaudeForm, TypeOK, Room
    <3>3. ClaudeForm'
      BY <1>16, <2>1, <3>2 DEF Wait, external, contexts, ClaudeForm
    <3>4. StopInv'
      BY <1>16, <2>1 DEF Wait, external, contexts, ClaudeForm, StopInv
    <3> QED BY <3>3, <3>4
  <2>3. stream.breach \in {"none", "max_turns", "max_tokens"} /\ spent \in [Message -> Nat]
        /\ stream.usage \in [Message -> Nat]
    BY DEF ClaudeForm, StreamForm
  <2>4. ASSUME Outcome = "ok"
        PROVE  /\ stream.breach = "none" /\ stream.usage = spent
               /\ cli = "exit 0" /\ stream.result = "ok" /\ runCtx = "live"
    <3>1. /\ Breach = "none" /\ ctx = "live" /\ stream.result \in {"ok"} /\ cli = "exit 0"
      BY <2>3, <2>4 DEF Outcome, Breach, ClaudeForm, StreamForm
    <3>2. stream.breach = "none" /\ runCtx = "live"
      BY <3>1 DEF Breach, StopInv, ClaudeForm
    <3>3. pipe = <<>>
      BY <1>16, <3>2 DEF Wait, StopInv
    <3>4. \A m \in Message : stream.usage[m] = spent[m]
      BY <3>2, <3>3 DEF PipeInv
    <3>5. PICK u : u = stream.usage
      OBVIOUS
    <3>6. u = spent
      <4>1. u \in [Message -> Nat] /\ \A m \in Message : u[m] = spent[m]
        BY <2>3, <3>4, <3>5
      <4> QED BY <2>3, <4>1
    <3> QED BY <3>1, <3>2, <3>5, <3>6
  <2>5. Outcome \in {"max_tokens", "max_turns"} => stream.breach = Outcome
    BY <2>3 DEF Outcome, Breach
  <2>6. Outcome = "max_duration" => maxDuration /\ runCtx = "deadline"
    BY <2>3 DEF Outcome, Breach, StopInv
  <2>7. ReturnInv'
    <3> HIDE DEF Outcome
    <3> QED BY <1>16, <2>1, <2>4, <2>5, <2>6 DEF Wait, external, contexts, ReturnInv
  <2> QED BY <2>1, <2>2, <2>7, CountsUnchanged DEF ClaudeInv
<1> QED BY <1>1, <1>2, <1>3, <1>5, <1>6, <1>7, <1>8, <1>9, <1>10, <1>11, <1>12, <1>13,
           <1>14, <1>15, <1>16 DEF Next, Outside

(* While another executor has the step. *)
LEMMA ClaudeStutters ==
    ASSUME ClaudeInv, UNCHANGED vars
    PROVE  ClaudeInv'
<1>1. UNCHANGED <<pipe, spent, stream>>
  BY DEF vars
<1>2. PipeInv' /\ CountInv'
  BY <1>1, CountsUnchanged DEF ClaudeInv
<1>3. ClaudeForm /\ StopInv /\ ReturnInv
  BY DEF ClaudeInv
<1>4. ClaudeForm'
  BY <1>3 DEF vars, ClaudeForm, TypeOK
<1>5. StopInv' /\ ReturnInv'
  BY <1>3 DEF vars, StopInv, ReturnInv
<1> QED BY <1>2, <1>4, <1>5 DEF ClaudeInv

LEMMA ClaudeInvariant == Dispatch => []ClaudeInv
<1>1. DispatchInit => ClaudeInv
  BY ClaudeInitially DEF DispatchInit
<1>2. ClaudeInv /\ [DispatchNext]_execVars => ClaudeInv'
  BY ClaudeStepKeeps, ClaudeStutters DEF DispatchNext, execVars
<1> QED BY <1>1, <1>2, PTL DEF Dispatch

(* A limit that the reader's count exceeds is exceeded by what the CLI has *)
(* spent, which is no less.                                                *)
LEMMA SpentExceeds ==
    ASSUME NEW u \in [Message -> Nat], NEW v \in [Message -> Nat],
           \A m \in Message : u[m] <= v[m]
    PROVE  /\ OverTokens(u) => OverTokens(v)
           /\ OverTurns(u) => OverTurns(v)
<1>1. {maxTurns, maxTokens} \subseteq Nat /\ Turn \subseteq Message /\ IsFiniteSet(Turn)
  BY ClaudeAssumption, FS_Subset DEF Message
<1>2. OverTokens(u) => OverTokens(v)
  BY <1>1, TotalIsMonotone DEF OverTokens, Exceeds
<1>3. TurnsOf(u) \in SUBSET TurnsOf(v) /\ TurnsOf(v) \in SUBSET Turn
  <2>1. \A m \in Turn : u[m] \in Nat /\ v[m] \in Nat /\ u[m] <= v[m]
    BY <1>1
  <2> QED BY <2>1 DEF TurnsOf
<1>4. /\ Cardinality(TurnsOf(u)) \in Nat /\ Cardinality(TurnsOf(v)) \in Nat
      /\ Cardinality(TurnsOf(u)) <= Cardinality(TurnsOf(v))
  <2>1. IsFiniteSet(TurnsOf(v))
    BY <1>1, <1>3, FS_Subset
  <2>2. IsFiniteSet(TurnsOf(u)) /\ Cardinality(TurnsOf(u)) <= Cardinality(TurnsOf(v))
    BY <1>3, <2>1, FS_Subset
  <2> QED BY <2>1, <2>2, FS_CardinalityType
<1>5. OverTurns(u) => OverTurns(v)
  BY <1>1, <1>4 DEF OverTurns, Exceeds
<1> QED BY <1>2, <1>5

(* However events, timers, signals and exits interleave, what is kept of   *)
(* the stream (emit of pkg/executor/claude.go) stays within events_limit,  *)
(* and a step that fails for a limit had exceeded it.                      *)
THEOREM LimitsAreReal == Dispatch => []LimitsInv
<1>1. ClaudeInv => LimitsInv
  <2> SUFFICES ASSUME ClaudeInv PROVE LimitsInv
    OBVIOUS
  <2>1. /\ TypeOK /\ spent \in [Message -> Nat] /\ stream.usage \in [Message -> Nat]
        /\ \A m \in Message : stream.usage[m] <= spent[m]
    BY DEF ClaudeInv, ClaudeForm, StreamForm, PipeInv
  <2>2. /\ OverTokens(stream.usage) => OverTokens(spent)
        /\ OverTurns(stream.usage) => OverTurns(spent)
    BY <2>1, SpentExceeds
  <2>3. outcome = "max_tokens" => OverTokens(spent)
    BY <2>2 DEF ClaudeInv, ReturnInv, CountInv
  <2>4. outcome = "max_turns" => OverTurns(spent)
    BY <2>2 DEF ClaudeInv, ReturnInv, CountInv
  <2>5. outcome = "max_duration" => maxDuration /\ runCtx = "deadline"
    BY DEF ClaudeInv, ReturnInv
  <2> QED BY <2>1, <2>3, <2>4, <2>5
          DEF LimitsInv, BreachIsReal, OverTokens, OverTurns, TurnsOf
<1> QED BY <1>1, ClaudeInvariant, PTL

(* A claude step that succeeds has read every report of the CLI and stayed *)
(* within its limits by them: the pipe was empty and the CLI gone when     *)
(* Execute (pkg/executor/claude.go) looked at the count.                   *)
THEOREM SuccessCountsAll == Dispatch => []SuccessIsEarned
<1>1. ClaudeInv => SuccessIsEarned
  <2> SUFFICES ASSUME ClaudeInv, outcome = "ok" PROVE SuccessIsEarned
    BY DEF SuccessIsEarned
  <2>1. /\ stream.breach = "none" /\ stream.usage = spent
        /\ cli = "exit 0" /\ stream.result = "ok" /\ runCtx = "live"
    BY DEF ClaudeInv, ReturnInv
  <2>2. ~ OverTokens(stream.usage) /\ ~ OverTurns(stream.usage)
    BY <2>1 DEF ClaudeInv, CountInv
  <2>3. ~ OverTokens(spent) /\ ~ OverTurns(spent)
    BY <2>1, <2>2
  <2> QED BY <2>1, <2>3 DEF SuccessIsEarned, OverTokens, OverTurns, TurnsOf
<1> QED BY <1>1, ClaudeInvariant, PTL

-----------------------------------------------------------------------------

LEMMA PieceIsAppended ==
    ASSUME NEW f \in FileForm, NEW x \in Piece
    PROVE  LET g == [f EXCEPT !.pieces = Append(@, x)]
           IN  /\ g \in FileForm /\ Len(g.pieces) > 0 /\ g.pieces[Len(g.pieces)] = x
               /\ f.pieces = <<>> => g.pieces = <<x>>
<1> DEFINE g == [f EXCEPT !.pieces = Append(@, x)]
<1>1. f.pieces \in Seq(Piece)
  BY DEF FileForm
<1>2. PICK s : s = Append(f.pieces, x)
  OBVIOUS
<1>3. /\ s \in Seq(Piece) /\ Len(s) > 0 /\ s[Len(s)] = x
  BY <1>1, <1>2
<1>4. f.pieces = <<>> => s = <<x>>
  BY <1>2
<1>5. g = [f EXCEPT !.pieces = s]
  BY <1>2
<1>6. g \in FileForm /\ g.pieces = s
  BY <1>3, <1>5 DEF FileForm
<1> QED BY <1>3, <1>4, <1>6

LEMMA HostInitially ==
    ASSUME NEW p \in {"idle", "start"}, LocalInit(p)
    PROVE  HostInv
<1>1. /\ output \in [written : Nat, read : Nat] /\ output.written = 0 /\ output.read = 0
      /\ at = p /\ execution = 1
      /\ MaxOutput \in Nat /\ MaxExecutions \in Nat \ {0}
  BY LocalAssumption DEF LocalInit, NoOutput
<1>2. file \in FileForm
  <2>1. <<>> \in Seq(Piece) /\ <<"old">> \in Seq(Piece)
    BY DEF Piece
  <2>2. \/ file = [pieces |-> <<>>, mode |-> "none"]
        \/ file = [pieces |-> <<"old">>, mode |-> "other"]
    BY DEF LocalInit
  <2>3. PICK s, o : s = <<>> /\ o = <<"old">>
    OBVIOUS
  <2>4. file = [pieces |-> s, mode |-> "none"] \/ file = [pieces |-> o, mode |-> "other"]
    BY <2>2, <2>3
  <2>5. s \in Seq(Piece) /\ o \in Seq(Piece)
    BY <2>1, <2>3
  <2> QED BY <2>4, <2>5 DEF FileForm
<1>3. HostForm
  <2>1. /\ kind \in LocalKind /\ execCtx = "live" /\ temp = 0
        /\ child = "none" /\ heir \in BOOLEAN /\ killed \in BOOLEAN
    BY DEF LocalInit
  <2>2. temp \in 0..2 /\ execution \in 1..MaxExecutions
        /\ 0 <= output.read /\ output.read <= output.written /\ output.written <= MaxOutput
    BY <1>1, <2>1
  <2> QED BY <1>1, <1>2, <2>1, <2>2 DEF HostForm, LocalTypeOK
<1> QED BY <1>1, <1>3
        DEF HostInv, FileInv, ProcessInv, TempFilesRemoved, WriteSettles, OutputIsWhole

LEMMA HostStepKeeps ==
    ASSUME HostInv, LocalNext
    PROVE  HostInv'
<1>0. /\ HostForm /\ FileInv /\ ProcessInv /\ TempFilesRemoved /\ WriteSettles /\ OutputIsWhole
      /\ MaxOutput \in Nat /\ MaxExecutions \in Nat \ {0}
  BY LocalAssumption DEF HostInv
<1> USE <1>0
<1> DEFINE Ends == FileInv' /\ ProcessInv' /\ TempFilesRemoved' /\ WriteSettles' /\ OutputIsWhole'
(* Execute returns an error, whatever it has made of the file. *)
<1>1. ASSUME NEW why, why # "none", Fail(why), file' \in FileForm,
             UNCHANGED <<kind, options, execCtx, processVars, execution>>
      PROVE  HostInv'
  <2>1. HostForm'
    BY <1>1 DEF Fail, Return, processVars, HostForm, LocalTypeOK
  <2>2. Ends
    BY <1>1 DEF Fail, Return, FileInv, ProcessInv, TempFilesRemoved, WriteSettles, OutputIsWhole
  <2> QED BY <2>1, <2>2 DEF HostInv
<1>2. file \in FileForm
  BY DEF HostForm
(* A step of another type than a process or write_file returns. *)
<1>3. ASSUME kind \in {"prompt", "http_request"}, NEW r, Return(r),
             UNCHANGED <<kind, options, execCtx, processVars, file, execution>>
      PROVE  HostInv'
  <2>1. HostForm'
    BY <1>3 DEF Return, processVars, HostForm, LocalTypeOK
  <2>2. Ends
    BY <1>3 DEF Return, Process, FileInv, ProcessInv, TempFilesRemoved, WriteSettles, OutputIsWhole
  <2> QED BY <2>1, <2>2 DEF HostInv
<1>4. CASE Invalid \/ CannotWriteTemp \/ CannotOpen \/ EndOfInput \/ NoResponse
  BY <1>1, <1>2, <1>4 DEF Invalid, CannotWriteTemp, CannotOpen, EndOfInput, NoResponse
<1>5. CASE MakeTemp
  <2>1. HostForm'
    BY <1>5 DEF MakeTemp, Temps, processVars, HostForm, LocalTypeOK
  <2>2. Ends
    BY <1>5 DEF MakeTemp, FileInv, ProcessInv, TempFilesRemoved, WriteSettles, OutputIsWhole
  <2> QED BY <2>1, <2>2 DEF HostInv
<1>6. CASE WroteTemp
  <2>1. HostForm'
    BY <1>6 DEF WroteTemp, processVars, HostForm, LocalTypeOK
  <2>2. Ends
    BY <1>6 DEF WroteTemp, FileInv, ProcessInv, TempFilesRemoved, WriteSettles, OutputIsWhole
  <2> QED BY <2>1, <2>2 DEF HostInv
<1>7. CASE StartChild
  <2>1. HostForm'
    BY <1>7 DEF StartChild, HostForm, LocalTypeOK
  <2>2. Ends
    BY <1>7 DEF StartChild, FileInv, ProcessInv, TempFilesRemoved, WriteSettles, OutputIsWhole
  <2> QED BY <2>1, <2>2 DEF HostInv
<1>8. CASE CannotStart
  <2>1. HostForm'
    BY <1>8 DEF CannotStart, Return, processVars, HostForm, LocalTypeOK
  <2>2. Ends
    BY <1>8 DEF CannotStart, Return, FileInv, ProcessInv, TempFilesRemoved, WriteSettles, OutputIsWhole
  <2> QED BY <2>1, <2>2 DEF HostInv
<1>9. CASE Writes
  <2>1. output' = [written |-> output.written + 1, read |-> output.read]
    BY <1>9 DEF Writes, HostForm
  <2>2. output.written \in Nat /\ output.read \in Nat /\ output.written < MaxOutput
    BY <1>9 DEF Writes, HostForm
  <2>3. HostForm'
    BY <1>9, <2>1, <2>2 DEF Writes, HostForm, LocalTypeOK
  <2>4. Ends
    BY <1>9 DEF Writes, FileInv, ProcessInv, TempFilesRemoved, WriteSettles, OutputIsWhole
  <2> QED BY <2>3, <2>4 DEF HostInv
<1>10. CASE Forks
  <2>1. HostForm'
    BY <1>10 DEF Forks, HostForm, LocalTypeOK
  <2>2. Ends
    BY <1>10 DEF Forks, FileInv, ProcessInv, TempFilesRemoved, WriteSettles, OutputIsWhole
  <2> QED BY <2>1, <2>2 DEF HostInv
<1>11. ASSUME NEW e \in {"0", "1"}, ChildExits(e) PROVE HostInv'
  <2>1. HostForm'
    BY <1>11 DEF ChildExits, HostForm, LocalTypeOK
  <2>2. Ends
    BY <1>11 DEF ChildExits, FileInv, ProcessInv, TempFilesRemoved, WriteSettles, OutputIsWhole
  <2> QED BY <2>1, <2>2 DEF HostInv
<1>12. CASE HeirEnds
  <2>1. HostForm'
    BY <1>12 DEF HeirEnds, HostForm, LocalTypeOK
  <2>2. Ends
    BY <1>12 DEF HeirEnds, FileInv, ProcessInv, TempFilesRemoved, WriteSettles, OutputIsWhole
  <2> QED BY <2>1, <2>2 DEF HostInv
<1>13. CASE Kill
  <2>1. HostForm'
    BY <1>13 DEF Kill, HostForm, LocalTypeOK
  <2>2. Ends
    BY <1>13 DEF Kill, FileInv, ProcessInv, TempFilesRemoved, WriteSettles, OutputIsWhole
  <2> QED BY <2>1, <2>2 DEF HostInv
<1>14. CASE Copy
  <2>1. output' = [written |-> output.written, read |-> output.read + 1]
    BY <1>14 DEF Copy, HostForm
  <2>2. output.written \in Nat /\ output.read \in Nat /\ output.read < output.written
    BY <1>14 DEF Copy, HostForm
  <2>3. HostForm'
    BY <1>14, <2>1, <2>2 DEF Copy, HostForm, LocalTypeOK
  <2>4. Ends
    BY <1>14 DEF Copy, FileInv, ProcessInv, TempFilesRemoved, WriteSettles, OutputIsWhole
  <2> QED BY <2>3, <2>4 DEF HostInv
<1>15. CASE Reap
  <2>1. HostForm'
    BY <1>15 DEF Reap, processVars, HostForm, LocalTypeOK
  <2>2. Ends
    BY <1>15 DEF Reap, processVars, FileInv, ProcessInv, TempFilesRemoved, WriteSettles, OutputIsWhole
  <2> QED BY <2>1, <2>2 DEF HostInv
<1>16. CASE RunReturns
  <2>1. HostForm'
    BY <1>16 DEF RunReturns, Ran, Return, processVars, HostForm, LocalTypeOK
  <2>2. kind \in Process /\ kind # "write_file"
    BY <1>16 DEF RunReturns, HostForm, Process
  <2>3. result'.exit = child /\ result'.err = RunError /\ (RunError = "none" => child = "0" /\ ~ killed)
    BY <1>16 DEF RunReturns, Ran, Return, RunError
  <2>4. Ends
    BY <1>16, <2>2, <2>3 DEF RunReturns, Ran, Return, processVars, FileInv, ProcessInv,
                             TempFilesRemoved, WriteSettles, OutputIsWhole
  <2> QED BY <2>1, <2>4 DEF HostInv
<1>17. CASE OpenFile
  <2>1. file' \in FileForm
        /\ file'.pieces = Opened
    BY <1>2, <1>17 DEF OpenFile, Opened, FileForm
  <2>2. HostForm'
    BY <1>17, <2>1 DEF OpenFile, processVars, HostForm, LocalTypeOK
  <2>3. Ends
    BY <1>17, <2>1 DEF OpenFile, Opened, FileInv, ProcessInv, TempFilesRemoved, WriteSettles, OutputIsWhole
  <2> QED BY <2>2, <2>3 DEF HostInv
<1>18. CASE WriteContent
  <2>1. "whole" \in Piece
    BY DEF Piece
  <2>2. /\ file' \in FileForm /\ Len(file'.pieces) > 0 /\ file'.pieces[Len(file'.pieces)] = "whole"
        /\ file.pieces = <<>> => file'.pieces = <<"whole">>
    BY <1>2, <1>18, <2>1, PieceIsAppended DEF WriteContent
  <2>3. HostForm'
    BY <1>18, <2>2 DEF WriteContent, processVars, HostForm, LocalTypeOK
  <2>4. Ends
    BY <1>18, <2>2 DEF WriteContent, FileInv, ProcessInv, TempFilesRemoved, WriteSettles, OutputIsWhole
  <2> QED BY <2>3, <2>4 DEF HostInv
<1>19. CASE WriteFails
  <2>1. file' \in FileForm
    BY <1>2, <1>19, PieceIsAppended DEF WriteFails, Piece
  <2> QED BY <1>1, <1>19, <2>1 DEF WriteFails
<1>20. CASE Chmod
  <2>1. CASE UNCHANGED file /\ Fail("chmod")
    BY <1>1, <1>2, <1>20, <2>1 DEF Chmod
  <2>2. CASE /\ file' = [file EXCEPT !.mode = "requested"]
             /\ Return([err |-> "none", exit |-> "none", output |-> TRUE])
    <3>1. /\ file'.pieces = file.pieces /\ file'.mode = "requested"
          /\ file' \in FileForm
      BY <1>2, <2>2 DEF FileForm
    <3>2. HostForm'
      BY <1>20, <2>2, <3>1 DEF Chmod, Return, processVars, HostForm, LocalTypeOK
    <3>3. kind = "write_file" /\ kind \notin Process
      BY <1>20 DEF Chmod, HostForm, Process
    <3>4. Ends
      BY <1>20, <2>2, <3>1, <3>3 DEF Chmod, Return, FileInv, ProcessInv, TempFilesRemoved,
                                     WriteSettles, OutputIsWhole
    <3> QED BY <3>2, <3>4 DEF HostInv
  <2> QED BY <1>20, <2>1, <2>2 DEF Chmod
<1>21. CASE Ask \/ Send
  <2>1. HostForm'
    BY <1>21 DEF Ask, Send, processVars, HostForm, LocalTypeOK
  <2>2. Ends
    BY <1>21 DEF Ask, Send, FileInv, ProcessInv, TempFilesRemoved, WriteSettles, OutputIsWhole
  <2> QED BY <2>1, <2>2 DEF HostInv
<1>22. ASSUME NEW line \in {"", "choice", "other"}, Answer(line) PROVE HostInv'
  <2>1. CASE Understood(line)
    BY <1>3, <1>22, <2>1 DEF Answer, HostForm
  <2>2. CASE ~ Understood(line)
    <3>1. UNCHANGED localVars
      BY <1>22, <2>2 DEF Answer, processVars, localVars
    <3>2. HostForm'
      BY <3>1 DEF localVars, HostForm, LocalTypeOK
    <3>3. Ends
      BY <3>1 DEF localVars, FileInv, ProcessInv, TempFilesRemoved, WriteSettles, OutputIsWhole
    <3> QED BY <3>2, <3>3 DEF HostInv
  <2> QED BY <2>1, <2>2
<1>23. ASSUME NEW bad \in BOOLEAN, Response(bad) PROVE HostInv'
  <2>1. kind = "http_request"
    BY <1>23 DEF Response, HostForm
  <2> QED BY <1>3, <1>23, <2>1 DEF Response
<1>24. CASE DeadlineOver
  <2>1. HostForm'
    BY <1>24 DEF DeadlineOver, processVars, HostForm, LocalTypeOK
  <2>2. Ends
    BY <1>24 DEF DeadlineOver, processVars, FileInv, ProcessInv, TempFilesRemoved, WriteSettles, OutputIsWhole
  <2> QED BY <2>1, <2>2 DEF HostInv
<1>25. CASE Again
  <2>1. /\ output' \in [written : Nat, read : Nat] /\ output'.written = 0 /\ output'.read = 0
        /\ execution' \in 1..MaxExecutions /\ temp' = 0
    BY <1>25 DEF Again, NoOutput, HostForm, LocalTypeOK
  <2>2. temp' \in 0..2
        /\ 0 <= output'.read /\ output'.read <= output'.written /\ output'.written <= MaxOutput
    BY <2>1
  <2>3. heir' \in BOOLEAN /\ killed' \in BOOLEAN
    BY <1>25 DEF Again
  <2>4. HostForm'
    BY <1>25, <2>1, <2>2, <2>3 DEF Again, HostForm, LocalTypeOK
  <2>5. Ends
    BY <1>25 DEF Again, FileInv, ProcessInv, TempFilesRemoved, WriteSettles, OutputIsWhole
  <2> QED BY <2>4, <2>5 DEF HostInv
<1> QED BY <1>4, <1>5, <1>6, <1>7, <1>8, <1>9, <1>10, <1>11, <1>12, <1>13, <1>14, <1>15, <1>16,
           <1>17, <1>18, <1>19, <1>20, <1>21, <1>22, <1>23, <1>24, <1>25
        DEF LocalNext, Host, Execute

LEMMA HostStutters ==
    ASSUME HostInv, UNCHANGED localVars
    PROVE  HostInv'
<1>1. HostForm'
  BY DEF HostInv, localVars, HostForm, LocalTypeOK
<1>2. FileInv' /\ ProcessInv' /\ TempFilesRemoved' /\ WriteSettles' /\ OutputIsWhole'
  BY DEF HostInv, localVars, FileInv, ProcessInv, TempFilesRemoved, WriteSettles, OutputIsWhole
<1> QED BY <1>1, <1>2 DEF HostInv

(* However often a step is executed and wherever it fails, it leaves no    *)
(* temporary file, a write_file that succeeds leaves its content whole,    *)
(* and a process that succeeds has had all its output read (cmd.Run in     *)
(* pkg/executor/shell_exec.go, script_exec.go and ansible.go).             *)
THEOREM HostStepsAreWhole == Dispatch => []LocalInv
<1>1. DispatchInit => HostInv
  BY HostInitially DEF DispatchInit
<1>2. HostInv /\ [DispatchNext]_execVars => HostInv'
  BY HostStepKeeps, HostStutters DEF DispatchNext, execVars
<1>3. HostInv => LocalInv
  BY DEF HostInv, HostForm, LocalInv
<1> QED BY <1>1, <1>2, <1>3, PTL DEF Dispatch

-----------------------------------------------------------------------------
(* The Job executors (K8sJob). *)

Job == [name : {NameOf(x) : x \in Exec}, by : Exec, attempt : 1..MaxAttempts,
        state : JobState]

(* The form of the state. *)
Form ==
    /\ onJobCreated \in Step \cup {None}
    /\ jobs \subseteq Job /\ done \subseteq Job
    /\ stage \in [Exec -> {"idle", "create", "created", "poll", "return", "done"}]
    /\ ending \in [Exec -> Result]
    /\ attempt \in [Exec -> 1..MaxAttempts]

(* The closure in the shared executor is that of a step under way. *)
FieldInv == onJobCreated # None => stage[onJobCreated] \notin {"idle", "done"}

(* A Job has the name of whoever made it, and the cluster has one Job of   *)
(* a name.                                                                 *)
ClusterInv ==
    /\ \A j \in jobs : j.name = NameOf(j.by)
    /\ \A j, k \in jobs : j.name = k.name => j = k

Inv == Form /\ FieldInv /\ ClusterInv

LEMMA EndedJob ==
    ASSUME NEW j \in Job, NEW st \in {"complete", "failed"}
    PROVE  /\ [j EXCEPT !.state = st] \in Job
           /\ [j EXCEPT !.state = st].name = j.name
           /\ [j EXCEPT !.state = st].by = j.by
           /\ [j EXCEPT !.state = st].attempt = j.attempt
           /\ [j EXCEPT !.state = st].state = st
BY DEF Job, JobState

LEMMA InitInv == JobInit => Inv
BY K8sJobAssumption DEF JobInit, Inv, Form, FieldInv, ClusterInv, Result

(* What a step makes is a Job of its name, in its attempt. *)
LEMMA NewJobForm ==
    ASSUME Form, NEW x \in Exec
    PROVE  /\ NewJob(x) \in Job
           /\ NewJob(x).name = NameOf(x) /\ NewJob(x).by = x
           /\ NewJob(x).attempt = attempt[x] /\ NewJob(x).state = "active"
BY DEF Form, NewJob, Job, JobState

(* A new Job joins the cluster where its name is free. *)
LEMMA AddJob ==
    ASSUME Inv, NEW x \in Exec, Named(NameOf(x)) = {},
           jobs' = jobs \cup {NewJob(x)}
    PROVE  jobs' \subseteq Job /\ ClusterInv'
<1>1. /\ NewJob(x) \in Job
      /\ NewJob(x).name = NameOf(x) /\ NewJob(x).by = x
  BY NewJobForm DEF Inv
<1>2. \A j \in jobs : j.name # NameOf(x)
  BY DEF Named
<1>3. \A y : NameOf(y)' = NameOf(y)
  BY DEF NameOf
<1>4. \A j \in jobs' : j.name = NameOf(j.by)
  BY <1>1 DEF Inv, ClusterInv
<1>5. \A j, k \in jobs' : j.name = k.name => j = k
  BY <1>1, <1>2 DEF Inv, ClusterInv
<1> QED BY <1>1, <1>3, <1>4, <1>5 DEF Inv, Form, ClusterInv

(* A Job of the cluster ends: its name and maker stay. *)
LEMMA EndJob ==
    ASSUME Inv, NEW j \in jobs, NEW st \in {"complete", "failed"},
           jobs' = (jobs \ {j}) \cup {[j EXCEPT !.state = st]}
    PROVE  jobs' \subseteq Job /\ ClusterInv'
<1> DEFINE e == [j EXCEPT !.state = st]
<1>1. j \in Job
  BY DEF Inv, Form
<1>2. e \in Job /\ e.name = j.name /\ e.by = j.by
  BY <1>1, EndedJob
<1> HIDE DEF e
<1>3. jobs' = (jobs \ {j}) \cup {e}
  BY DEF e
<1>4. \A y : NameOf(y)' = NameOf(y)
  BY DEF NameOf
<1>5. \A k \in jobs' : k.name = NameOf(k.by)
  BY <1>2, <1>3 DEF Inv, ClusterInv
<1>6. \A k, l \in jobs' : k.name = l.name => k = l
  BY <1>2, <1>3 DEF Inv, ClusterInv
<1> QED BY <1>2, <1>3, <1>4, <1>5, <1>6 DEF Inv, Form, ClusterInv

(* Jobs can only go away otherwise, which leaves the names distinct. *)
LEMMA FewerJobs ==
    ASSUME Inv, jobs' \subseteq jobs
    PROVE  jobs' \subseteq Job /\ ClusterInv'
BY DEF Inv, Form, ClusterInv, NameOf

-----------------------------------------------------------------------------

LEMMA StepNextInv ==
    ASSUME Inv, NEW s \in Step, StepNext(s)
    PROVE  Inv'
<1>0. s \in Exec /\ s # None
  BY K8sJobAssumption DEF Exec
<1>1. CASE SetOnJobCreated(s)
  <2>1. ClusterInv' /\ jobs' \subseteq Job
    BY <1>1, FewerJobs DEF SetOnJobCreated
  <2> QED BY <1>0, <1>1, <2>1 DEF SetOnJobCreated, Inv, Form, FieldInv
<1>2. CASE Create(s)
  <2>1. ClusterInv' /\ jobs' \subseteq Job
    BY <1>0, <1>2, AddJob, FewerJobs DEF Create
  <2>2. Form'
    BY <1>0, <1>2, <2>1 DEF Create, ReturnsWith, Inv, Form, Result
  <2>3. FieldInv'
    BY <1>0, <1>2, K8sJobAssumption DEF Create, ReturnsWith, Inv, Form, FieldInv, Exec
  <2> QED BY <2>1, <2>2, <2>3 DEF Inv
<1>3. CASE CreateFails(s)
  <2>1. PICK made \in BOOLEAN : /\ made => Named(NameOf(s)) = {}
                                /\ jobs' = IF made THEN jobs \cup {NewJob(s)} ELSE jobs
    BY <1>3 DEF CreateFails
  <2>2. ClusterInv' /\ jobs' \subseteq Job
    <3>1. CASE made
      BY <1>0, <2>1, <3>1, AddJob
    <3>2. CASE ~ made
      BY <2>1, <3>2, FewerJobs
    <3> QED BY <3>1, <3>2
  <2>3. Form'
    BY <1>0, <1>3, <2>2 DEF CreateFails, ReturnsWith, Inv, Form, Result
  <2>4. FieldInv'
    BY <1>0, <1>3, K8sJobAssumption DEF CreateFails, ReturnsWith, Inv, Form, FieldInv, Exec
  <2> QED BY <2>2, <2>3, <2>4 DEF Inv
<1>4. CASE JobCreated(s)
  <2>1. ClusterInv' /\ jobs' \subseteq Job
    BY <1>4, FewerJobs DEF JobCreated
  <2> QED BY <1>0, <1>4, <2>1, K8sJobAssumption DEF JobCreated, Inv, Form, FieldInv, Exec
<1> QED BY <1>1, <1>2, <1>3, <1>4 DEF StepNext

LEMMA WatchStartsInv ==
    ASSUME Inv, NEW w \in Waiter, WatchStarts(w)
    PROVE  Inv'
<1>1. ClusterInv' /\ jobs' \subseteq Job
  BY FewerJobs DEF WatchStarts
<1> QED BY <1>1, K8sJobAssumption DEF WatchStarts, Inv, Form, FieldInv, Exec

(* What a poll may decide *)
LEMMA StatusForm ==
    ASSUME NEW x \in Exec
    PROVE  Status(x) \notin {"pending", "running"} => Status(x) \in Result
BY DEF Status, Result

LEMMA ExecNextInv ==
    ASSUME Inv, NEW x \in Exec, ExecNext(x)
    PROVE  Inv'
<1>1. ClusterInv' /\ jobs' \subseteq Job
  BY FewerJobs DEF ExecNext, Poll, PollFails, Deadline, StepReturns
<1>2. CASE Poll(x) \/ PollFails(x) \/ Deadline(x)
  <2>1. PICK r \in Result : ReturnsWith(x, r)
    BY <1>2, StatusForm DEF Poll, PollFails, Deadline, Result
  <2>2. UNCHANGED <<onJobCreated, jobs, attempt, reported, done>>
    BY <1>2 DEF Poll, PollFails, Deadline
  <2> QED BY <1>1, <2>1, <2>2, K8sJobAssumption DEF ReturnsWith, Inv, Form, FieldInv, Exec
<1>3. CASE StepReturns(x)
  BY <1>1, <1>3, K8sJobAssumption DEF StepReturns, Inv, Form, FieldInv, Exec
<1> QED BY <1>2, <1>3 DEF ExecNext

LEMMA ResumeInv ==
    ASSUME Inv, Resume
    PROVE  Inv'
<1> DEFINE again == {x \in Exec : ending[x] # "completed"}
<1>1. /\ \A x \in Exec : stage[x] = "done"
      /\ \A x \in again : attempt[x] < MaxAttempts
      /\ stage' = [x \in Exec |-> IF x \in again THEN "idle" ELSE "done"]
      /\ ending' = [x \in Exec |-> IF x \in again THEN "none" ELSE ending[x]]
      /\ attempt' = [x \in Exec |-> IF x \in again THEN attempt[x] + 1 ELSE attempt[x]]
      /\ UNCHANGED <<onJobCreated, jobs, reported, done>>
  BY DEF Resume
<1>2. onJobCreated = None
  BY <1>1 DEF Inv, Form, FieldInv, Exec
<1>3. ClusterInv' /\ jobs' \subseteq Job
  BY <1>1, FewerJobs
<1>4. \A x \in Exec : attempt'[x] \in 1..MaxAttempts
  BY <1>1, K8sJobAssumption DEF Inv, Form
<1> QED BY <1>1, <1>2, <1>3, <1>4 DEF Inv, Form, FieldInv, Result

LEMMA ClusterStepInv ==
    ASSUME Inv, Cluster
    PROVE  Inv'
<1>1. ASSUME NEW j \in jobs, NEW st \in {"complete", "failed"}, JobEnds(j, st)
      PROVE  Inv'
  <2>1. ClusterInv' /\ jobs' \subseteq Job
    BY <1>1, EndJob DEF JobEnds
  <2> QED BY <1>1, <2>1 DEF JobEnds, Inv, Form, FieldInv
<1>2. ASSUME NEW j \in jobs, JobExpires(j)
      PROVE  Inv'
  <2>1. ClusterInv' /\ jobs' \subseteq Job
    BY <1>2, FewerJobs DEF JobExpires
  <2> QED BY <1>2, <2>1 DEF JobExpires, Inv, Form, FieldInv
<1>3. ASSUME NEW w \in Waiter, JobAppears(w)
      PROVE  Inv'
  <2>1. ClusterInv' /\ jobs' \subseteq Job
    BY <1>3, AddJob DEF JobAppears, Exec
  <2> QED BY <1>3, <2>1 DEF JobAppears, Inv, Form, FieldInv
<1> QED BY <1>1, <1>2, <1>3 DEF Cluster

LEMMA StepInv == Inv /\ [JobNext]_jobVars => Inv'
<1> SUFFICES ASSUME Inv, [JobNext]_jobVars PROVE Inv'
  OBVIOUS
<1>1. CASE UNCHANGED jobVars
  BY <1>1 DEF jobVars, Inv, Form, FieldInv, ClusterInv, NameOf
<1> QED BY <1>1, StepNextInv, WatchStartsInv, ExecNextInv, ResumeInv, ClusterStepInv DEF JobNext

(* The invariant holds throughout. *)
LEMMA Invariance == JobSpec => []Inv
BY InitInv, StepInv, PTL DEF JobSpec

(* The shared executor's field is always that of a step under way, and no  *)
(* step ever has two Jobs running, over any number of attempts whose       *)
(* answers may be lost: buildJob gives every attempt the same name.        *)
THEOREM NoRerunWhileRunning == JobSpec => []JobInv
<1>1. Inv => JobInv
  <2> SUFFICES ASSUME Inv PROVE JobInv
    OBVIOUS
  <2>1. JobTypeOK
    BY DEF Inv, Form, FieldInv, Job, JobTypeOK
  <2>2. NoConcurrentRerun
    BY DEF Inv, ClusterInv, NoConcurrentRerun
  <2> QED BY <2>1, <2>2 DEF JobInv
<1> QED BY <1>1, Invariance, PTL

-----------------------------------------------------------------------------

(* The Job name of a k8s_job step is its own: no other step has it (they   *)
(* are of different runs, or have different names, and are not items of    *)
(* one for_each), and nothing else creates a Job of that name for a        *)
(* k8s_job_wait to find.  Waits may be for the same Job.                   *)
OwnNames == \A s \in Step, x \in Exec : NameOf(s) = NameOf(x) => s = x

(* While a step watches, a Job of its name is the one this attempt made. *)
WatchedIsOwn ==
    \A s \in Step, j \in jobs :
        (stage[s] \in {"created", "poll"} /\ j.name = NameOf(s)) =>
            j.by = s /\ j.attempt = attempt[s]

(* A Job that is complete has completed. *)
CompleteIsDone ==
    \A j \in jobs : j.state = "complete" =>
        \E d \in done : d.name = j.name /\ d.by = j.by /\ d.attempt = j.attempt

OwnInv == WatchedIsOwn /\ CompleteIsDone /\ OwnJobDecides

(* A poll that says completed saw a complete Job of the step's name. *)
LEMMA CompletedStatus ==
    ASSUME NEW x \in Exec, Status(x) = "completed"
    PROVE  \E j \in jobs : j.name = NameOf(x) /\ j.state = "complete"
<1>1. Named(NameOf(x)) # {}
  BY DEF Status
<1> DEFINE j == CHOOSE j \in Named(NameOf(x)) : TRUE
<1>2. j \in Named(NameOf(x))
  BY <1>1
<1>3. j.state = "complete"
  BY <1>1 DEF Status
<1> QED BY <1>2, <1>3 DEF Named

(* The steps that change neither attempts nor results, and lose no         *)
(* completed Job, keep what the results rest on.                           *)
LEMMA DecidedStays ==
    ASSUME OwnJobDecides, done \subseteq done', UNCHANGED <<ending, attempt>>
    PROVE  OwnJobDecides'
BY DEF OwnJobDecides, NameOf

LEMMA OwnStep == ASSUME OwnNames PROVE Inv /\ OwnInv /\ [JobNext]_jobVars => OwnInv'
<1> SUFFICES ASSUME Inv, OwnInv, [JobNext]_jobVars PROVE OwnInv'
  OBVIOUS
<1>0. \A y : NameOf(y)' = NameOf(y)
  BY DEF NameOf
<1>1. ASSUME NEW s \in Step, StepNext(s) PROVE OwnInv'
  <2>0. s \in Exec
    BY DEF Exec
  <2>1. CASE SetOnJobCreated(s) \/ JobCreated(s)
    <3>1. UNCHANGED <<jobs, ending, attempt, done>>
      BY <2>1 DEF SetOnJobCreated, JobCreated
    <3>2. WatchedIsOwn'
      BY <1>0, <2>0, <2>1, <3>1 DEF SetOnJobCreated, JobCreated, Inv, Form, OwnInv, WatchedIsOwn, Exec
    <3> QED BY <3>1, <3>2, DecidedStays DEF OwnInv, CompleteIsDone
  <2>2. CASE Create(s) /\ Named(NameOf(s)) = {}
    <3>1. /\ jobs' = jobs \cup {NewJob(s)}
          /\ stage' = [stage EXCEPT ![s] = "created"]
          /\ UNCHANGED <<ending, attempt, done>>
      BY <2>2 DEF Create
    <3>2. /\ NewJob(s).name = NameOf(s) /\ NewJob(s).by = s
          /\ NewJob(s).attempt = attempt[s] /\ NewJob(s).state = "active"
      BY <2>0, NewJobForm DEF Inv
    <3>3. \A j \in jobs : j.name # NameOf(s)
      BY <2>2 DEF Named
    <3>4. WatchedIsOwn'
      BY <1>0, <2>0, <3>1, <3>2, <3>3 DEF Inv, Form, OwnInv, WatchedIsOwn, OwnNames, Exec
    <3>5. CompleteIsDone'
      BY <3>1, <3>2 DEF OwnInv, CompleteIsDone
    <3> QED BY <3>1, <3>4, <3>5, DecidedStays DEF OwnInv
  <2>3. CASE Create(s) /\ Named(NameOf(s)) # {}
    <3>1. ReturnsWith(s, "exists") /\ UNCHANGED <<jobs, attempt, done>>
      BY <2>3 DEF Create
    <3>2. WatchedIsOwn' /\ CompleteIsDone'
      BY <1>0, <2>0, <3>1 DEF ReturnsWith, Inv, Form, OwnInv, WatchedIsOwn, CompleteIsDone
    <3>3. OwnJobDecides'
      BY <1>0, <2>0, <3>1 DEF ReturnsWith, Inv, Form, OwnInv, OwnJobDecides
    <3> QED BY <3>2, <3>3 DEF OwnInv
  <2>4. CASE CreateFails(s)
    <3>1. PICK made \in BOOLEAN : /\ made => Named(NameOf(s)) = {}
                                  /\ jobs' = IF made THEN jobs \cup {NewJob(s)} ELSE jobs
      BY <2>4 DEF CreateFails
    <3>2. ReturnsWith(s, "error") /\ UNCHANGED <<attempt, done>>
      BY <2>4 DEF CreateFails
    <3>3. /\ NewJob(s).name = NameOf(s) /\ NewJob(s).by = s
          /\ NewJob(s).attempt = attempt[s] /\ NewJob(s).state = "active"
      BY <2>0, NewJobForm DEF Inv
    <3>4. \A j \in jobs' : j \in jobs \/ j = NewJob(s)
      BY <3>1
    <3>5. WatchedIsOwn'
      BY <1>0, <2>0, <3>2, <3>3, <3>4 DEF ReturnsWith, Inv, Form, OwnInv, WatchedIsOwn, OwnNames, Exec
    <3>6. CompleteIsDone'
      BY <3>2, <3>3, <3>4 DEF OwnInv, CompleteIsDone
    <3>7. OwnJobDecides'
      BY <1>0, <2>0, <3>2 DEF ReturnsWith, Inv, Form, OwnInv, OwnJobDecides
    <3> QED BY <3>5, <3>6, <3>7 DEF OwnInv
  <2> QED BY <1>1, <2>1, <2>2, <2>3, <2>4 DEF StepNext
<1>2. ASSUME NEW w \in Waiter, WatchStarts(w) PROVE OwnInv'
  <2>1. UNCHANGED <<jobs, ending, attempt, done>>
    BY <1>2 DEF WatchStarts
  <2>2. WatchedIsOwn'
    BY <1>0, <1>2, <2>1, K8sJobAssumption DEF WatchStarts, Inv, Form, OwnInv, WatchedIsOwn, Exec
  <2> QED BY <2>1, <2>2, DecidedStays DEF OwnInv, CompleteIsDone
<1>3. ASSUME NEW x \in Exec, ExecNext(x) PROVE OwnInv'
  <2>1. UNCHANGED <<jobs, attempt, done>>
    BY <1>3 DEF ExecNext, Poll, PollFails, Deadline, StepReturns
  <2>2. \A s \in Step : stage'[s] \in {"created", "poll"} => stage[s] \in {"created", "poll"}
    BY <1>3 DEF ExecNext, Poll, PollFails, Deadline, StepReturns, ReturnsWith, Inv, Form, Exec
  <2>3. WatchedIsOwn' /\ CompleteIsDone'
    BY <1>0, <2>1, <2>2 DEF OwnInv, WatchedIsOwn, CompleteIsDone
  <2>4. CASE Poll(x)
    <3>1. ReturnsWith(x, Status(x)) /\ stage[x] = "poll"
      BY <2>4 DEF Poll
    <3>2. ASSUME Status(x) = "completed"
          PROVE  \E j \in done : /\ j.name = NameOf(x)
                                 /\ x \in Step => j.by = x /\ j.attempt = attempt[x]
      <4>1. PICK j \in jobs : j.name = NameOf(x) /\ j.state = "complete"
        BY <3>2, CompletedStatus
      <4>2. PICK d \in done : d.name = j.name /\ d.by = j.by /\ d.attempt = j.attempt
        BY <4>1 DEF OwnInv, CompleteIsDone
      <4> QED BY <3>1, <4>1, <4>2 DEF OwnInv, WatchedIsOwn
    <3>3. OwnJobDecides'
      BY <1>0, <2>1, <3>1, <3>2 DEF ReturnsWith, Inv, Form, OwnInv, OwnJobDecides
    <3> QED BY <2>3, <3>3 DEF OwnInv
  <2>5. CASE PollFails(x) \/ Deadline(x)
    <3>1. \A y \in Exec : ending'[y] = "completed" => ending[y] = "completed"
      BY <2>5 DEF PollFails, Deadline, ReturnsWith, Inv, Form
    <3> QED BY <1>0, <2>1, <2>3, <3>1 DEF OwnInv, OwnJobDecides
  <2>6. CASE StepReturns(x)
    BY <2>1, <2>3, <2>6, DecidedStays DEF StepReturns, OwnInv
  <2> QED BY <1>3, <2>4, <2>5, <2>6 DEF ExecNext
<1>4. CASE Resume
  <2>1. /\ \A s \in Step : stage'[s] \notin {"created", "poll"}
        /\ \A x \in Exec : ending'[x] = "completed" =>
              ending[x] = "completed" /\ attempt'[x] = attempt[x]
        /\ UNCHANGED <<jobs, done>>
    BY <1>4 DEF Resume, Exec
  <2> QED BY <1>0, <2>1 DEF OwnInv, WatchedIsOwn, CompleteIsDone, OwnJobDecides
<1>5. ASSUME NEW j \in jobs, NEW st \in {"complete", "failed"}, JobEnds(j, st)
      PROVE  OwnInv'
  <2> DEFINE e == [j EXCEPT !.state = st]
  <2>1. j \in Job
    BY DEF Inv, Form
  <2>2. /\ e.name = j.name /\ e.by = j.by /\ e.attempt = j.attempt /\ e.state = st
    BY <2>1, EndedJob
  <2> HIDE DEF e
  <2>3. /\ jobs' = (jobs \ {j}) \cup {e}
        /\ done' = IF st = "complete" THEN done \cup {j} ELSE done
        /\ UNCHANGED <<stage, ending, attempt>>
    BY <1>5 DEF JobEnds, e
  <2>4. WatchedIsOwn'
    BY <1>0, <2>2, <2>3 DEF OwnInv, WatchedIsOwn
  <2>5. CompleteIsDone'
    BY <2>2, <2>3 DEF OwnInv, CompleteIsDone
  <2> QED BY <2>3, <2>4, <2>5, DecidedStays DEF OwnInv
<1>6. ASSUME NEW j \in jobs, JobExpires(j) PROVE OwnInv'
  <2>1. jobs' \subseteq jobs /\ UNCHANGED <<stage, ending, attempt, done>>
    BY <1>6 DEF JobExpires
  <2>2. WatchedIsOwn' /\ CompleteIsDone'
    BY <1>0, <2>1 DEF OwnInv, WatchedIsOwn, CompleteIsDone
  <2> QED BY <2>1, <2>2, DecidedStays DEF OwnInv
<1>7. ASSUME NEW w \in Waiter, JobAppears(w) PROVE OwnInv'
  <2>0. w \in Exec /\ w \notin Step
    BY K8sJobAssumption DEF Exec
  <2>1. jobs' = jobs \cup {NewJob(w)} /\ UNCHANGED <<stage, ending, attempt, done>>
    BY <1>7 DEF JobAppears
  <2>2. NewJob(w).name = NameOf(w) /\ NewJob(w).state = "active"
    BY <2>0, NewJobForm DEF Inv
  <2>3. \A s \in Step : NameOf(s) # NameOf(w)
    BY <2>0 DEF OwnNames, Exec
  <2>4. WatchedIsOwn' /\ CompleteIsDone'
    BY <1>0, <2>1, <2>2, <2>3 DEF OwnInv, WatchedIsOwn, CompleteIsDone
  <2> QED BY <2>1, <2>4, DecidedStays DEF OwnInv
<1>8. CASE UNCHANGED jobVars
  BY <1>8, <1>0, DecidedStays DEF jobVars, OwnInv, WatchedIsOwn, CompleteIsDone
<1> QED BY <1>1, <1>2, <1>3, <1>4, <1>5, <1>6, <1>7, <1>8 DEF JobNext, Cluster

(* A step whose Job names are its own succeeds only by the Job that this   *)
(* very attempt created, and that has completed: never by one that an      *)
(* earlier attempt, or a create whose answer was lost, left behind.        *)
THEOREM SuccessIsOwn == ASSUME OwnNames PROVE JobSpec => []OwnJobDecides
<1>1. JobInit => OwnInv
  BY DEF JobInit, OwnInv, WatchedIsOwn, CompleteIsDone, OwnJobDecides
<1>2. Inv /\ OwnInv /\ [JobNext]_jobVars => OwnInv'
  BY OwnStep
<1>3. OwnInv => OwnJobDecides
  BY DEF OwnInv
<1> QED BY <1>1, <1>2, <1>3, Invariance, PTL DEF JobSpec
=============================================================================

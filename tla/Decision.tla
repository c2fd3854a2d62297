------------------------------ MODULE Decision ------------------------------
(***************************************************************************)
(* Jev decisions (pkg/engine/jev.go) and the client that asks them         *)
(* (pkg/jev/client.go).  A step's condition, or a gate's facts, may ask a  *)
(* remote model.  The engine keeps each answer as an internal step row,    *)
(* the receipt, keyed by the identity of the question, and reuses it when  *)
(* the step is evaluated again.  The items of a for_each ask at the same   *)
(* time; a connection admits Concurrency of them at once.                  *)
(*                                                                         *)
(* The server is external: it may answer the same question differently     *)
(* each time, ask to be retried, or fail.                                  *)
(***************************************************************************)
EXTENDS Integers, Sequences, FiniteSets

CONSTANTS
    Caller,       \* the steps and items of the run that ask
    Asks,         \* the identities each asks, in order
    Answer,       \* what the server may answer
    Concurrency,  \* of the connection, with its default of 1 applied
    MaxRuns       \* bound: how often the run is run, resumed or rewound

NoAnswer == "none"

(* A run has finitely many steps and items, and the identity of a question *)
(* names the step or item that asks it, so no two of them share one.       *)
ASSUME DecisionAssumption ==
    /\ IsFiniteSet(Caller)
    /\ \A c \in Caller : Asks[c] \in Seq(STRING) /\ Asks[c] # <<>>
    /\ \A c, d \in Caller : c # d =>
         \A i \in 1..Len(Asks[c]), j \in 1..Len(Asks[d]) : Asks[c][i] # Asks[d][j]
    /\ NoAnswer \notin Answer
    /\ Concurrency \in Nat \ {0}
    /\ MaxRuns \in Nat \ {0}

Identity == UNION {{Asks[c][i] : i \in 1..Len(Asks[c])} : c \in Caller}

(* client.Execute: three attempts at most *)
MaxTries == 3

VARIABLES
    receipt,   \* the row of each identity: its status and answer
    slots,     \* c.limits: how many of the connection's slots are taken
    pc,        \* where each caller is
    next,      \* which of its questions it is at
    tries,     \* the client's attempt counter
    reply,     \* the answer the client has returned, not saved yet
    runs,      \* how often the run was started
    used       \* history: the answers its callers were given

vars == <<receipt, slots, pc, next, tries, reply, runs, used>>

Ended == {"ok", "failed"}
Holding == {"send", "backoff"}

Key(c) == Asks[c][next[c]]

Init ==
    /\ receipt = [k \in Identity |-> [status |-> "absent", answer |-> NoAnswer]]
    /\ slots = 0
    /\ pc = [c \in Caller |-> "ask"]
    /\ next = [c \in Caller |-> 1]
    /\ tries = [c \in Caller |-> 0]
    /\ reply = [c \in Caller |-> NoAnswer]
    /\ runs = 1
    /\ used = [k \in Identity |-> {}]

(* decision returns an answer: the caller goes on to its next question. *)
Given(c, a) ==
    /\ used' = [used EXCEPT ![Key(c)] = @ \cup {a}]
    /\ IF next[c] < Len(Asks[c])
         THEN /\ next' = [next EXCEPT ![c] = @ + 1]
              /\ pc' = [pc EXCEPT ![c] = "ask"]
         ELSE /\ pc' = [pc EXCEPT ![c] = "ok"]
              /\ UNCHANGED next

(* decision: a completed receipt answers the question. *)
Reusable(r) == r.status = "completed"

Lookup(c) ==
    /\ pc[c] = "ask"
    /\ Reusable(receipt[Key(c)])
    /\ Given(c, receipt[Key(c)].answer)
    /\ UNCHANGED <<receipt, slots, tries, reply, runs>>

(* Otherwise the receipt is saved as running and the client is called. *)
Start(c) ==
    /\ pc[c] = "ask"
    /\ ~ Reusable(receipt[Key(c)])
    /\ receipt' = [receipt EXCEPT ![Key(c)] =
                      [status |-> "running", answer |-> NoAnswer]]
    /\ pc' = [pc EXCEPT ![c] = "acquire"]
    /\ tries' = [tries EXCEPT ![c] = 0]
    /\ UNCHANGED <<slots, next, reply, runs, used>>

(* The row cannot be read, or the running receipt not be saved. *)
StoreFails(c) ==
    /\ pc[c] = "ask"
    /\ pc' = [pc EXCEPT ![c] = "failed"]
    /\ UNCHANGED <<receipt, slots, next, tries, reply, runs, used>>

(* client.Execute: c.limits[name] <- struct{}{} *)
Acquire(c) ==
    /\ pc[c] = "acquire"
    /\ slots < Concurrency
    /\ slots' = slots + 1
    /\ pc' = [pc EXCEPT ![c] = "send"]
    /\ UNCHANGED <<receipt, next, tries, reply, runs, used>>

(* failStep: the receipt becomes failed.  Its context may be the one that  *)
(* has ended; then the row cannot be written and stays running.            *)
Fails(c) ==
    /\ pc' = [pc EXCEPT ![c] = "failed"]
    /\ \E saved \in BOOLEAN :
         receipt' = IF saved
                      THEN [receipt EXCEPT ![Key(c)] =
                               [status |-> "failed", answer |-> NoAnswer]]
                      ELSE receipt

(* The deadline passes while the client waits for a slot. *)
DeadlineWaiting(c) ==
    /\ pc[c] = "acquire"
    /\ Fails(c)
    /\ UNCHANGED <<slots, next, tries, reply, runs, used>>

(* It passes while the client waits to try again. *)
DeadlineBackoff(c) ==
    /\ pc[c] = "backoff"
    /\ Fails(c)
    /\ slots' = slots - 1
    /\ UNCHANGED <<next, tries, reply, runs, used>>

Sent(c) == tries' = [tries EXCEPT ![c] = @ + 1]

(* A valid response.  The client returns it and gives the slot back. *)
Replied(c) ==
    /\ pc[c] = "send"
    /\ \E a \in Answer : reply' = [reply EXCEPT ![c] = a]
    /\ Sent(c)
    /\ slots' = slots - 1
    /\ pc' = [pc EXCEPT ![c] = "persist"]
    /\ UNCHANGED <<receipt, next, runs, used>>

(* Mutant: the count starts at 1, and is compared as if it started at 0 *)
MayRetryOnceMore(c) == tries[c] < MaxTries

MayRetry(c) == tries[c] < MaxTries - 1

(* 429, 502, 503 or 504, and there is an attempt left. *)
RetryLater(c) ==
    /\ pc[c] = "send"
    /\ MayRetry(c)
    /\ Sent(c)
    /\ pc' = [pc EXCEPT ![c] = "backoff"]
    /\ UNCHANGED <<receipt, slots, next, reply, runs, used>>

(* Mutant: a retry waits for a slot of its own *)
BackoffReacquires(c) ==
    /\ pc[c] = "backoff"
    /\ slots < Concurrency
    /\ slots' = slots + 1
    /\ pc' = [pc EXCEPT ![c] = "send"]
    /\ UNCHANGED <<receipt, next, tries, reply, runs, used>>

Backoff(c) ==
    /\ pc[c] = "backoff"
    /\ pc' = [pc EXCEPT ![c] = "send"]
    /\ UNCHANGED <<receipt, slots, next, tries, reply, runs, used>>

(* Another status, a transport failure, the deadline, an invalid response. *)
FailedReply(c) ==
    /\ pc[c] = "send"
    /\ Fails(c)
    /\ Sent(c)
    /\ slots' = slots - 1
    /\ UNCHANGED <<next, reply, runs, used>>

(* Mutant: the answer is used whether or not the receipt could be saved *)
PersistMaybe(c) ==
    /\ pc[c] = "persist"
    /\ \E saved \in BOOLEAN :
         receipt' = IF saved
                      THEN [receipt EXCEPT ![Key(c)] =
                               [status |-> "completed", answer |-> reply[c]]]
                      ELSE receipt
    /\ reply' = [reply EXCEPT ![c] = NoAnswer]
    /\ Given(c, reply[c])
    /\ UNCHANGED <<slots, tries, runs>>

(* The completed receipt is saved before the answer is used. *)
Persist(c) ==
    /\ pc[c] = "persist"
    /\ receipt' = [receipt EXCEPT ![Key(c)] =
                      [status |-> "completed", answer |-> reply[c]]]
    /\ reply' = [reply EXCEPT ![c] = NoAnswer]
    /\ Given(c, reply[c])
    /\ UNCHANGED <<slots, tries, runs>>

(* "persisting decision": the answer is lost, and the caller fails. *)
PersistFails(c) ==
    /\ pc[c] = "persist"
    /\ reply' = [reply EXCEPT ![c] = NoAnswer]
    /\ pc' = [pc EXCEPT ![c] = "failed"]
    /\ UNCHANGED <<receipt, slots, next, tries, runs, used>>

(* The run ends and goes on later: the failed steps are evaluated again,   *)
(* and of the others any that paused, or that a rewind goes back to.  The  *)
(* receipts stay: a rewind deletes the rows of the workflow's steps, which *)
(* they are not (clearRun does delete those of a sub-run it clears).       *)
Resume ==
    /\ \A c \in Caller : pc[c] \in Ended
    /\ runs < MaxRuns
    /\ runs' = runs + 1
    /\ \E again \in SUBSET Caller :
         /\ again # {}
         /\ {c \in Caller : pc[c] = "failed"} \subseteq again
         /\ pc' = [c \in Caller |-> IF c \in again THEN "ask" ELSE pc[c]]
         /\ next' = [c \in Caller |-> IF c \in again THEN 1 ELSE next[c]]
    /\ UNCHANGED <<receipt, slots, tries, reply, used>>

-----------------------------------------------------------------------------

(* The engine's and the client's own steps.  Replied, RetryLater and       *)
(* FailedReply are together what ends a request; the deadline sees to it   *)
(* that one of them happens.                                               *)
Proceed(c) == \/ Lookup(c) \/ Start(c) \/ Acquire(c)
              \/ Replied(c) \/ RetryLater(c) \/ FailedReply(c)
              \/ Backoff(c) \/ Persist(c)

Fault(c) == \/ StoreFails(c) \/ DeadlineWaiting(c) \/ DeadlineBackoff(c)
            \/ PersistFails(c)

Next == \/ \E c \in Caller : Proceed(c) \/ Fault(c)
        \/ Resume

(* Waiting for a slot of a channel is first come first served, so a caller *)
(* that could take one again and again gets it.                            *)
Fairness == \A c \in Caller : WF_vars(Proceed(c)) /\ SF_vars(Acquire(c))

Spec == Init /\ [][Next]_vars /\ Fairness

-----------------------------------------------------------------------------
(* Properties *)

(* The values are of their types and c.limits counts the callers inside    *)
(* the client: no path out of Execute keeps a slot or gives back two.      *)
TypeOK ==
    /\ \A k \in Identity :
         /\ receipt[k].status \in {"absent", "running", "failed", "completed"}
         /\ receipt[k].answer \in Answer \cup {NoAnswer}
         /\ receipt[k].status = "completed" <=> receipt[k].answer # NoAnswer
    /\ slots = Cardinality({c \in Caller : pc[c] \in Holding})
    /\ \A c \in Caller : reply[c] # NoAnswer <=> pc[c] = "persist"

(* Whoever asks a question of this run, in whatever attempt, is given      *)
(* one answer, although the server would answer it anew each time: an      *)
(* answer is used only after its receipt is saved, and a saved one is      *)
(* never asked again.                                                      *)
AnswersAreStable == \A k \in Identity : Cardinality(used[k]) <= 1

(* The connection never has more requests in flight than it allows, those  *)
(* waiting to be retried included, and a request is sent at most three     *)
(* times for one call.                                                     *)
ConnectionIsRespected ==
    /\ Cardinality({c \in Caller : pc[c] \in Holding}) <= Concurrency
    /\ \A c \in Caller : tries[c] <= 3

(* On every path through retries, waits and deadlines, the slots the       *)
(* client counts are those its callers hold, and the limits are kept.      *)
ClientInv == TypeOK /\ ConnectionIsRespected

(* A question ends in an answer or an error, and no caller waits for ever  *)
(* for a slot that another one took with it.                               *)
CallersEnd == \A c \in Caller : pc[c] = "acquire" ~> pc[c] \in Ended \cup {"ask"}

=============================================================================

--------------------------- MODULE DecisionProofs ---------------------------
(***************************************************************************)
(* Proofs about the two steps that decide something: Decision, for any     *)
(* number of callers, questions, answers, slots and resumes, and Gate, for *)
(* any keys, rules, facts and number of cycles.                            *)
(***************************************************************************)
EXTENDS Decision, Gate, FiniteSetTheorems, WellFoundedInduction, TLAPS

(* The form of the state. *)
Form ==
    /\ receipt \in [Identity -> [status : {"absent", "running", "failed", "completed"},
                                 answer : Answer \cup {NoAnswer}]]
    /\ slots \in Nat
    /\ pc \in [Caller -> {"ask", "acquire", "persist"} \cup Holding \cup Ended]
    /\ next \in [Caller -> Nat]
    /\ \A c \in Caller : next[c] \in 1..Len(Asks[c])
    /\ tries \in [Caller -> Nat]
    /\ reply \in [Caller -> Answer \cup {NoAnswer}]
    /\ used \in [Identity -> SUBSET Answer]

(* The callers inside the client, which c.limits counts *)
Inside == {c \in Caller : pc[c] \in Holding}

Counted == slots = Cardinality(Inside) /\ slots <= Concurrency

(* How often a caller can have sent its request, by where it is *)
Tried ==
    \A c \in Caller : /\ pc[c] = "acquire" => tries[c] = 0
                      /\ pc[c] \in Holding => tries[c] <= 2
                      /\ tries[c] <= 3

(* An answer is in a receipt that is completed, or in the hands of the     *)
(* caller that is about to complete it.                                    *)
Kept ==
    /\ \A k \in Identity : receipt[k].status = "completed" <=> receipt[k].answer # NoAnswer
    /\ \A c \in Caller : reply[c] # NoAnswer <=> pc[c] = "persist"

(* What was used is in the receipt, and nobody is asking what a receipt    *)
(* already answers.                                                        *)
Stable ==
    /\ \A k \in Identity : used[k] \subseteq {receipt[k].answer}
    /\ \A k \in Identity : receipt[k].status # "completed" => used[k] = {}
    /\ \A c \in Caller : pc[c] \in {"acquire", "persist"} \cup Holding =>
                            receipt[Key(c)].status # "completed"

Inv == Form /\ Counted /\ Tried /\ Kept /\ Stable

-----------------------------------------------------------------------------

(* The question a caller is at is one of its own. *)
LEMMA KeyIsOwn ==
    ASSUME Form
    PROVE  /\ \A c \in Caller : Key(c) \in Identity
           /\ \A c, d \in Caller : c # d => Key(c) # Key(d)
<1>1. \A c \in Caller : Key(c) \in {Asks[c][i] : i \in 1..Len(Asks[c])}
  BY DEF Form, Key
<1>2. \A c \in Caller : Key(c) \in Identity
  BY <1>1 DEF Identity
<1>3. \A c, d \in Caller : c # d => Key(c) # Key(d)
  BY DecisionAssumption DEF Form, Key
<1> QED BY <1>2, <1>3

LEMMA InitInv == Init => Inv
<1> SUFFICES ASSUME Init PROVE Inv
  OBVIOUS
<1>1. Form
  <2>1. \A c \in Caller : 1 \in 1..Len(Asks[c])
    <3> SUFFICES ASSUME NEW c \in Caller PROVE Len(Asks[c]) >= 1
      OBVIOUS
    <3>1. Asks[c] \in Seq(STRING) /\ Asks[c] # <<>>
      BY DecisionAssumption
    <3> QED BY <3>1
  <2> QED BY <2>1 DEF Init, Form, Holding, Ended
<1>2. Counted
  <2>1. Inside = {}
    BY DEF Init, Inside, Holding
  <2> QED BY <2>1, FS_EmptySet, DecisionAssumption DEF Init, Counted
<1>3. Tried /\ Kept /\ Stable
  BY DEF Init, Tried, Kept, Stable, Holding
<1> QED BY <1>1, <1>2, <1>3 DEF Inv

(* Whoever enters the client takes a slot, and whoever leaves gives one back. *)
LEMMA InsideCount ==
    ASSUME Form, NEW c \in Caller, NEW to,
           pc' = [pc EXCEPT ![c] = to]
    PROVE  /\ IsFiniteSet(Inside)
           /\ c \notin Inside /\ to \in Holding => Cardinality(Inside') = Cardinality(Inside) + 1
           /\ c \in Inside /\ to \notin Holding => Cardinality(Inside') = Cardinality(Inside) - 1
           /\ (c \in Inside <=> to \in Holding) => Inside' = Inside
<1>1. IsFiniteSet(Inside)
  BY FS_Subset, DecisionAssumption DEF Inside
<1>2. \A d \in Caller : pc'[d] = IF d = c THEN to ELSE pc[d]
  BY DEF Form
<1>3. ASSUME c \notin Inside, to \in Holding
      PROVE  Cardinality(Inside') = Cardinality(Inside) + 1
  <2>1. Inside' = Inside \cup {c}
    BY <1>2, <1>3 DEF Inside
  <2> QED BY <1>1, <1>3, <2>1, FS_AddElement
<1>4. ASSUME c \in Inside, to \notin Holding
      PROVE  Cardinality(Inside') = Cardinality(Inside) - 1
  <2>1. Inside' = Inside \ {c}
    BY <1>2, <1>4 DEF Inside
  <2> QED BY <1>1, <1>4, <2>1, FS_RemoveElement
<1>5. ASSUME c \in Inside <=> to \in Holding
      PROVE  Inside' = Inside
  BY <1>2, <1>5 DEF Inside
<1> QED BY <1>1, <1>3, <1>4, <1>5

(* The caller has its answer: it goes to its next question, or is done. *)
LEMMA GivenMoves ==
    ASSUME Form, NEW c \in Caller, NEW a \in Answer, Given(c, a)
    PROVE  /\ pc' = [pc EXCEPT ![c] = pc'[c]]
           /\ pc'[c] \in {"ask", "ok"}
           /\ next' \in [Caller -> Nat]
           /\ \A d \in Caller : next'[d] \in 1..Len(Asks[d])
           /\ \A d \in Caller \ {c} : next'[d] = next[d]
           /\ used' = [used EXCEPT ![Key(c)] = @ \cup {a}]
<1>1. /\ pc \in [Caller -> {"ask", "acquire", "persist"} \cup Holding \cup Ended]
      /\ next \in [Caller -> Nat]
      /\ \A d \in Caller : next[d] \in 1..Len(Asks[d])
  BY DEF Form
<1>2. used' = [used EXCEPT ![Key(c)] = @ \cup {a}]
  BY DEF Given
<1>3. CASE next[c] < Len(Asks[c])
  <2>1. /\ next' = [next EXCEPT ![c] = @ + 1]
        /\ pc' = [pc EXCEPT ![c] = "ask"]
    BY <1>3 DEF Given
  <2>2. Len(Asks[c]) \in Nat
    BY DecisionAssumption
  <2>3. next[c] + 1 \in 1..Len(Asks[c])
    BY <1>1, <1>3, <2>2
  <2> QED BY <1>1, <1>2, <2>1, <2>3
<1>4. CASE ~ (next[c] < Len(Asks[c]))
  <2>1. next' = next /\ pc' = [pc EXCEPT ![c] = "ok"]
    BY <1>4 DEF Given
  <2> QED BY <1>1, <1>2, <2>1
<1> QED BY <1>3, <1>4

(* A call fails: its receipt, which was not completed, still is not. *)
LEMMA FailsKeeps ==
    ASSUME Inv, NEW c \in Caller, Fails(c),
           pc[c] \in {"acquire"} \cup Holding
    PROVE  /\ pc' = [pc EXCEPT ![c] = "failed"]
           /\ receipt' \in [Identity -> [status : {"absent", "running", "failed", "completed"},
                                         answer : Answer \cup {NoAnswer}]]
           /\ \A k \in Identity : /\ receipt'[k].status = "completed" <=> receipt[k].status = "completed"
                                  /\ receipt'[k].answer = receipt[k].answer
<1>1. pc' = [pc EXCEPT ![c] = "failed"]
  BY DEF Fails
<1>2. PICK saved \in BOOLEAN :
         receipt' = IF saved
                      THEN [receipt EXCEPT ![Key(c)] =
                               [status |-> "failed", answer |-> NoAnswer]]
                      ELSE receipt
  BY DEF Fails
<1>3. Key(c) \in Identity
  BY KeyIsOwn DEF Inv
<1>4. receipt[Key(c)].status # "completed" /\ receipt[Key(c)].answer = NoAnswer
  BY <1>3 DEF Inv, Stable, Kept
<1>5. CASE saved
  BY <1>1, <1>2, <1>3, <1>4, <1>5 DEF Inv, Form
<1>6. CASE ~ saved
  BY <1>1, <1>2, <1>6 DEF Inv, Form
<1> QED BY <1>5, <1>6

-----------------------------------------------------------------------------

LEMMA LookupInv ==
    ASSUME Inv, NEW c \in Caller, Lookup(c)
    PROVE  Inv'
<1> DEFINE k == Key(c)
<1>1. k \in Identity
  BY KeyIsOwn DEF Inv
<1>2. /\ pc[c] = "ask" /\ receipt[k].status = "completed"
      /\ Given(c, receipt[k].answer)
      /\ UNCHANGED <<receipt, slots, tries, reply, runs>>
  BY DEF Lookup, Reusable
<1>3. receipt[k].answer \in Answer
  BY <1>1, <1>2 DEF Inv, Form, Kept
<1>4. /\ pc' = [pc EXCEPT ![c] = pc'[c]]
      /\ pc'[c] \in {"ask", "ok"}
      /\ next' \in [Caller -> Nat]
      /\ \A d \in Caller : next'[d] \in 1..Len(Asks[d])
      /\ \A d \in Caller \ {c} : next'[d] = next[d]
      /\ used' = [used EXCEPT ![k] = @ \cup {receipt[k].answer}]
  BY <1>2, <1>3, GivenMoves DEF Inv
<1>5. Form'
  BY <1>1, <1>2, <1>3, <1>4 DEF Inv, Form, Ended
<1>6. Counted'
  <2>1. c \notin Inside /\ pc'[c] \notin Holding
    BY <1>2, <1>4 DEF Inside, Holding
  <2>2. Inside' = Inside
    BY <1>4, <2>1, InsideCount DEF Inv
  <2> QED BY <1>2, <2>2 DEF Inv, Counted
<1>7. Tried' /\ Kept'
  BY <1>2, <1>4 DEF Inv, Form, Tried, Kept, Holding
<1>8. Stable'
  <2>1. \A d \in Caller \ {c} : Key(d)' = Key(d)
    BY <1>4 DEF Key
  <2> QED BY <1>1, <1>2, <1>4, <2>1 DEF Inv, Form, Stable, Holding
<1> QED BY <1>5, <1>6, <1>7, <1>8 DEF Inv

LEMMA StartInv ==
    ASSUME Inv, NEW c \in Caller, Start(c)
    PROVE  Inv'
<1> DEFINE k == Key(c)
<1>1. k \in Identity /\ \A d \in Caller \ {c} : Key(d) # k
  BY KeyIsOwn DEF Inv
<1>2. /\ pc[c] = "ask" /\ receipt[k].status # "completed"
      /\ receipt' = [receipt EXCEPT ![k] = [status |-> "running", answer |-> NoAnswer]]
      /\ pc' = [pc EXCEPT ![c] = "acquire"]
      /\ tries' = [tries EXCEPT ![c] = 0]
      /\ UNCHANGED <<slots, next, reply, runs, used>>
  BY DEF Start, Reusable
<1>3. Form'
  BY <1>1, <1>2 DEF Inv, Form
<1>4. Counted'
  <2>1. Inside' = Inside
    BY <1>2, InsideCount DEF Inv, Inside, Holding
  <2> QED BY <1>2, <2>1 DEF Inv, Counted
<1>5. Tried' /\ Kept'
  BY <1>1, <1>2 DEF Inv, Form, Tried, Kept, Holding
<1>6. Stable'
  <2>1. \A d \in Caller : Key(d)' = Key(d)
    BY <1>2 DEF Key
  <2> QED BY <1>1, <1>2, <2>1 DEF Inv, Form, Stable, Holding
<1> QED BY <1>3, <1>4, <1>5, <1>6 DEF Inv

(* Acquire, Backoff, RetryLater and StoreFails only move the caller: the   *)
(* receipts, the answers and the questions stay as they are.               *)
LEMMA MoveInv ==
    ASSUME Inv, NEW c \in Caller,
           Acquire(c) \/ Backoff(c) \/ RetryLater(c) \/ StoreFails(c)
    PROVE  Inv'
<1>1. UNCHANGED <<receipt, next, reply, used>>
  BY DEF Acquire, Backoff, RetryLater, StoreFails
<1>2. \A d \in Caller : Key(d)' = Key(d)
  BY <1>1 DEF Key
<1>3. CASE Acquire(c)
  <2>1. Inside' # Inside /\ Cardinality(Inside') = Cardinality(Inside) + 1
    BY <1>3, InsideCount, FS_CardinalityType DEF Inv, Acquire, Inside, Holding, Form
  <2>2. Form' /\ Counted'
    BY <1>1, <1>3, <2>1, DecisionAssumption DEF Inv, Acquire, Form, Counted, Holding
  <2> QED BY <1>1, <1>2, <1>3, <2>2 DEF Inv, Acquire, Form, Tried, Kept, Stable, Holding
<1>4. CASE Backoff(c) \/ RetryLater(c)
  <2>1. Inside' = Inside
    BY <1>4, InsideCount DEF Inv, Backoff, RetryLater, Inside, Holding
  <2>2. Form'
    <3>1. pc' \in [Caller -> {"ask", "acquire", "persist"} \cup Holding \cup Ended]
      BY <1>4 DEF Inv, Form, Backoff, RetryLater, Holding
    <3>2. tries' \in [Caller -> Nat] /\ slots' = slots
      BY <1>4 DEF Inv, Form, Backoff, RetryLater, Sent
    <3> QED BY <1>1, <3>1, <3>2 DEF Inv, Form
  <2>4. Counted'
    BY <1>4, <2>1 DEF Inv, Backoff, RetryLater, Counted
  <2>3. Tried'
    BY <1>4 DEF Inv, Backoff, RetryLater, MayRetry, MaxTries, Sent, Form, Tried, Holding
  <2> QED BY <1>1, <1>2, <1>4, <2>2, <2>3, <2>4
          DEF Inv, Backoff, RetryLater, Form, Kept, Stable, Holding
<1>5. CASE StoreFails(c)
  <2>1. Inside' = Inside
    BY <1>5, InsideCount DEF Inv, StoreFails, Inside, Holding
  <2>2. Form' /\ Counted'
    BY <1>1, <1>5, <2>1 DEF Inv, StoreFails, Form, Counted, Holding, Ended
  <2> QED BY <1>1, <1>2, <1>5, <2>2 DEF Inv, StoreFails, Form, Tried, Kept, Stable, Holding
<1> QED BY <1>3, <1>4, <1>5

(* A call that fails, waiting or sending, gives back the slot it has. *)
LEMMA FailInv ==
    ASSUME Inv, NEW c \in Caller,
           DeadlineWaiting(c) \/ DeadlineBackoff(c) \/ FailedReply(c)
    PROVE  Inv'
<1>1. /\ pc[c] \in {"acquire"} \cup Holding
      /\ Fails(c)
      /\ slots' = IF c \in Inside THEN slots - 1 ELSE slots
      /\ UNCHANGED <<next, reply, used>>
  BY DEF DeadlineWaiting, DeadlineBackoff, FailedReply, Holding, Inside
<1>2. /\ pc' = [pc EXCEPT ![c] = "failed"]
      /\ receipt' \in [Identity -> [status : {"absent", "running", "failed", "completed"},
                                    answer : Answer \cup {NoAnswer}]]
      /\ \A k \in Identity : /\ receipt'[k].status = "completed" <=> receipt[k].status = "completed"
                             /\ receipt'[k].answer = receipt[k].answer
  BY <1>1, FailsKeeps
<1>3. /\ tries' \in [Caller -> Nat]
      /\ \A d \in Caller : /\ d # c => tries'[d] = tries[d]
                           /\ tries'[d] <= 3
  BY DEF DeadlineWaiting, DeadlineBackoff, FailedReply, Sent, Inv, Form, Tried, Holding
<1>4. Counted' /\ slots' \in Nat
  <2>1. IsFiniteSet(Inside) /\ Cardinality(Inside) \in Nat
    BY <1>2, InsideCount, FS_CardinalityType DEF Inv
  <2>4. "failed" \notin Holding
    BY DEF Holding
  <2>2. CASE c \in Inside
    <3>1. Cardinality(Inside') = Cardinality(Inside) - 1
      BY <1>2, <2>2, <2>4, InsideCount DEF Inv
    <3>2. Cardinality(Inside) >= 1
      BY <2>1, <2>2, FS_EmptySet
    <3> QED BY <1>1, <2>1, <2>2, <3>1, <3>2, DecisionAssumption DEF Inv, Counted
  <2>3. CASE c \notin Inside
    <3>1. Inside' = Inside
      BY <1>2, <2>3, <2>4, InsideCount DEF Inv
    <3> QED BY <1>1, <2>1, <2>3, <3>1 DEF Inv, Counted
  <2> QED BY <2>2, <2>3
<1>5. Form'
  BY <1>1, <1>2, <1>3, <1>4 DEF Inv, Form, Ended
<1>6. Tried' /\ Kept'
  BY <1>1, <1>2, <1>3 DEF Inv, Form, Tried, Kept, Holding
<1>7. Stable'
  <2>1. \A d \in Caller : Key(d)' = Key(d) /\ Key(d) \in Identity
    BY <1>1, KeyIsOwn DEF Key, Inv
  <2> QED BY <1>1, <1>2, <2>1 DEF Inv, Form, Stable, Holding
<1> QED BY <1>4, <1>5, <1>6, <1>7 DEF Inv

LEMMA RepliedInv ==
    ASSUME Inv, NEW c \in Caller, Replied(c)
    PROVE  Inv'
<1>1. PICK a \in Answer : reply' = [reply EXCEPT ![c] = a]
  BY DEF Replied
<1>2. /\ pc[c] = "send"
      /\ tries' = [tries EXCEPT ![c] = @ + 1]
      /\ slots' = slots - 1
      /\ pc' = [pc EXCEPT ![c] = "persist"]
      /\ UNCHANGED <<receipt, next, runs, used>>
  BY DEF Replied, Sent
<1>3. Counted' /\ slots' \in Nat
  <2>1. c \in Inside /\ IsFiniteSet(Inside) /\ Cardinality(Inside) \in Nat
    BY <1>2, InsideCount, FS_CardinalityType DEF Inv, Inside, Holding
  <2>4. "persist" \notin Holding
    BY DEF Holding
  <2>2. Cardinality(Inside') = Cardinality(Inside) - 1
    BY <1>2, <2>1, <2>4, InsideCount DEF Inv
  <2>3. Cardinality(Inside) >= 1
    BY <2>1, FS_EmptySet
  <2> QED BY <1>2, <2>1, <2>2, <2>3, DecisionAssumption DEF Inv, Counted
<1>4. Form'
  BY <1>1, <1>2, <1>3 DEF Inv, Form
<1>5. Tried' /\ Kept'
  BY <1>1, <1>2, DecisionAssumption DEF Inv, Form, Tried, Kept, Holding
<1>6. Stable'
  <2>1. \A d \in Caller : Key(d)' = Key(d)
    BY <1>2 DEF Key
  <2> QED BY <1>2, <2>1 DEF Inv, Form, Stable, Holding
<1> QED BY <1>3, <1>4, <1>5, <1>6 DEF Inv

(* The one step that completes a receipt: it had no answer before, and     *)
(* nobody else is at this question.                                        *)
LEMMA PersistInv ==
    ASSUME Inv, NEW c \in Caller, Persist(c)
    PROVE  Inv'
<1> DEFINE k == Key(c)
<1>1. k \in Identity /\ \A d \in Caller \ {c} : Key(d) # k /\ Key(d) \in Identity
  BY KeyIsOwn DEF Inv
<1>2. /\ pc[c] = "persist"
      /\ receipt' = [receipt EXCEPT ![k] = [status |-> "completed", answer |-> reply[c]]]
      /\ reply' = [reply EXCEPT ![c] = NoAnswer]
      /\ Given(c, reply[c])
      /\ UNCHANGED <<slots, tries, runs>>
  BY DEF Persist
<1>3. reply[c] \in Answer /\ reply[c] # NoAnswer
  BY <1>2, DecisionAssumption DEF Inv, Form, Kept
<1>4. /\ pc' = [pc EXCEPT ![c] = pc'[c]]
      /\ pc'[c] \in {"ask", "ok"}
      /\ next' \in [Caller -> Nat]
      /\ \A d \in Caller : next'[d] \in 1..Len(Asks[d])
      /\ \A d \in Caller \ {c} : next'[d] = next[d]
      /\ used' = [used EXCEPT ![k] = @ \cup {reply[c]}]
  BY <1>2, <1>3, GivenMoves DEF Inv
<1>5. Form'
  BY <1>1, <1>2, <1>3, <1>4 DEF Inv, Form, Ended
<1>6. Counted'
  <2>1. Inside' = Inside
    BY <1>2, <1>4, InsideCount DEF Inv, Inside, Holding
  <2> QED BY <1>2, <2>1 DEF Inv, Counted
<1>7. Tried' /\ Kept'
  BY <1>1, <1>2, <1>3, <1>4 DEF Inv, Form, Tried, Kept, Holding
<1>8. Stable'
  <2>1. \A d \in Caller \ {c} : Key(d)' = Key(d)
    BY <1>4 DEF Key
  <2>2. used[k] = {}
    BY <1>1, <1>2 DEF Inv, Stable
  <2>3. \A j \in Identity : /\ used'[j] \subseteq {receipt'[j].answer}
                            /\ receipt'[j].status # "completed" => used'[j] = {}
    <3> SUFFICES ASSUME NEW j \in Identity
                 PROVE  /\ used'[j] \subseteq {receipt'[j].answer}
                        /\ receipt'[j].status # "completed" => used'[j] = {}
      OBVIOUS
    <3>1. CASE j = k
      BY <1>1, <1>2, <1>4, <2>2, <3>1 DEF Inv, Form
    <3>2. CASE j # k
      BY <1>1, <1>2, <1>4, <3>2 DEF Inv, Form, Stable
    <3> QED BY <3>1, <3>2
  <2>4. \A d \in Caller : pc'[d] \in {"acquire", "persist"} \cup Holding =>
                            d # c /\ receipt'[Key(d)].status # "completed"
    BY <1>1, <1>2, <1>4 DEF Inv, Form, Stable, Holding
  <2> QED BY <2>1, <2>3, <2>4 DEF Stable, Holding
<1> QED BY <1>5, <1>6, <1>7, <1>8 DEF Inv

LEMMA PersistFailsInv ==
    ASSUME Inv, NEW c \in Caller, PersistFails(c)
    PROVE  Inv'
<1>1. /\ pc[c] = "persist"
      /\ reply' = [reply EXCEPT ![c] = NoAnswer]
      /\ pc' = [pc EXCEPT ![c] = "failed"]
      /\ UNCHANGED <<receipt, slots, next, tries, runs, used>>
  BY DEF PersistFails
<1>2. Form'
  BY <1>1 DEF Inv, Form, Ended
<1>3. Counted'
  <2>1. Inside' = Inside
    BY <1>1, InsideCount DEF Inv, Inside, Holding
  <2> QED BY <1>1, <2>1 DEF Inv, Counted
<1>4. \A d \in Caller : Key(d)' = Key(d)
  BY <1>1 DEF Key
<1> QED BY <1>1, <1>2, <1>3, <1>4 DEF Inv, Form, Tried, Kept, Stable, Holding

LEMMA ResumeInv ==
    ASSUME Inv, Resume
    PROVE  Inv'
<1>1. /\ \A c \in Caller : pc[c] \in Ended
      /\ UNCHANGED <<receipt, slots, tries, reply, used>>
  BY DEF Resume
<1>2. PICK again \in SUBSET Caller :
         /\ pc' = [c \in Caller |-> IF c \in again THEN "ask" ELSE pc[c]]
         /\ next' = [c \in Caller |-> IF c \in again THEN 1 ELSE next[c]]
  BY DEF Resume
<1>3. \A c \in Caller : Len(Asks[c]) \in Nat /\ next[c] \in 1..Len(Asks[c])
  BY DecisionAssumption DEF Inv, Form
<1>4. \A c \in Caller : 1 \in 1..Len(Asks[c])
  BY <1>3
<1>5. Form'
  BY <1>1, <1>2, <1>4 DEF Inv, Form, Ended
<1>6. Inside' = Inside
  BY <1>1, <1>2 DEF Inside, Holding, Ended
<1> QED BY <1>1, <1>2, <1>5, <1>6 DEF Inv, Counted, Tried, Kept, Stable, Holding, Ended

LEMMA StepInv == Inv /\ [Next]_vars => Inv'
<1> SUFFICES ASSUME Inv, [Next]_vars PROVE Inv'
  OBVIOUS
<1>1. ASSUME NEW c \in Caller, Proceed(c) PROVE Inv'
  BY <1>1, LookupInv, StartInv, MoveInv, RepliedInv, FailInv, PersistInv DEF Proceed
<1>2. ASSUME NEW c \in Caller, Fault(c) PROVE Inv'
  BY <1>2, MoveInv, FailInv, PersistFailsInv DEF Fault
<1>3. CASE UNCHANGED vars
  BY <1>3 DEF vars, Inv, Form, Counted, Inside, Tried, Kept, Stable, Key
<1> QED BY <1>1, <1>2, <1>3, ResumeInv DEF Next

(* The invariant holds throughout. *)
LEMMA Invariance == Spec => []Inv
BY InitInv, StepInv, PTL DEF Spec

-----------------------------------------------------------------------------

(* c.limits counts the callers inside client.Execute on every path through *)
(* it, never more than Concurrency are, and no request is sent more than   *)
(* three times.                                                            *)
THEOREM LimitsRespected == Spec => []ClientInv
<1>1. Inv => ClientInv
  <2> SUFFICES ASSUME Inv PROVE ClientInv
    OBVIOUS
  <2>1. TypeOK
    BY DEF Inv, Form, Counted, Inside, Kept, TypeOK
  <2>2. ConnectionIsRespected
    BY DEF Inv, Counted, Inside, Tried, ConnectionIsRespected
  <2> QED BY <2>1, <2>2 DEF ClientInv
<1> QED BY <1>1, Invariance, PTL

(* Within a run and all its resumes, a question of a step has one answer,  *)
(* although the server may answer it differently each time it is asked.    *)
THEOREM OneAnswer == Spec => []AnswersAreStable
<1>1. Inv => AnswersAreStable
  <2> SUFFICES ASSUME Inv, NEW k \in Identity PROVE Cardinality(used[k]) <= 1
    BY DEF AnswersAreStable
  <2>1. used[k] \subseteq {receipt[k].answer}
    BY DEF Inv, Stable
  <2>2. /\ IsFiniteSet({receipt[k].answer})
        /\ Cardinality({receipt[k].answer}) = 1
    BY FS_Singleton
  <2> QED BY <2>1, <2>2, FS_Subset
<1> QED BY <1>1, Invariance, PTL

-----------------------------------------------------------------------------
(* The gate step (Gate). *)

(* A nonempty set of naturals has a least element. *)
LEMMA LeastOf ==
    ASSUME NEW S \in SUBSET Nat, S # {}
    PROVE  Min(S) \in S /\ \A y \in S : Min(S) <= y
<1> DEFINE Less == {p \in Nat \X Nat : p[1] < p[2]}
<1>1. IsWellFoundedOn(Less, Nat)
  BY NatLessThanWellFounded DEF OpToRel
<1>2. PICK x \in S : \A y \in S : ~ (<<y, x>> \in Less)
  <2> HIDE DEF Less
  <2> QED BY <1>1, WFMin
<1>3. ASSUME NEW y \in S PROVE x <= y
  <2>1. x \in Nat /\ y \in Nat /\ ~ (<<y, x>> \in Less)
    BY <1>2
  <2>2. <<y, x>> \in Nat \X Nat /\ <<y, x>>[1] = y /\ <<y, x>>[2] = x
    BY <2>1
  <2>3. ~ (y < x)
    BY <2>1, <2>2
  <2> QED BY <2>1, <2>3
<1> QED BY <1>3 DEF Min

-----------------------------------------------------------------------------

(* The form of the state; every cycle fired a rule that had not fired. *)
GateForm ==
    /\ rules \in RuleLists /\ gateFacts \in GateFacts
    /\ before \in [FactKey -> Value] /\ data \in [FactKey -> Value]
    /\ fired \subseteq 1..Len(rules)
    /\ IsFiniteSet(fired) /\ cycle = Cardinality(fired) /\ cycle <= MaxCycle
    /\ status \in {"execute", "completed", "paused", "failed"}

(* A fact that no fired rule has set is the gate's, or the context's. *)
Untouched ==
    \A k \in FactKey : (\A i \in fired : rules[i].set # k) =>
        data[k] = Over(gateFacts, before)[k]

(* One of the fired rules is of the highest salience. *)
HasHighest ==
    fired # {} => \E i \in fired : \A j \in fired : rules[j].salience <= rules[i].salience

(* What the gate has left, if it has ended. *)
Left ==
    /\ status = "execute" => runCtx = before
    /\ Decided => /\ Runnable = {}
                  /\ runCtx = Over(Facts, before)
                  /\ output = [action |-> Action, fired |-> fired, facts |-> Facts]
    /\ status = "failed" => Runnable # {} /\ cycle = MaxCycle

GateInd == GateForm /\ Untouched /\ HasHighest /\ Left

LEMMA ListForm ==
    ASSUME GateForm
    PROVE  /\ Len(rules) \in Nat
           /\ \A i \in 1..Len(rules) : rules[i] \in Rule
           /\ gateFacts \in [DOMAIN gateFacts -> Value] /\ DOMAIN gateFacts \subseteq FactKey
<1>1. rules \in Seq(Rule)
  BY GateAssumption DEF GateForm
<1>2. PICK ks \in SUBSET FactKey : gateFacts \in [ks -> Value]
  BY GateAssumption DEF GateForm
<1> QED BY <1>1, <1>2

(* The facts of the receipt, over the context the gate started from, are   *)
(* the facts that the rules were decided on.                               *)
LEMMA FactsRestore ==
    ASSUME GateForm, Untouched
    PROVE  Over(Facts, before) = data
<1> DEFINE Set == {rules[i].set : i \in fired} \ {NoKey}
<1>1. Set \subseteq FactKey
  BY ListForm DEF GateForm, Rule
<1>2. DOMAIN gateFacts \subseteq FactKey /\ DOMAIN before = FactKey /\ DOMAIN data = FactKey
  BY ListForm DEF GateForm
<1>3. SetFacts = [k \in Set |-> data[k]]
  BY DEF SetFacts
<1>4. Facts = [k \in DOMAIN gateFacts \cup Set |->
                  IF k \in Set THEN data[k] ELSE gateFacts[k]]
  BY <1>3 DEF Facts, Over
<1>5. Over(Facts, before) =
        [k \in FactKey |-> IF k \in DOMAIN gateFacts \cup Set
                       THEN IF k \in Set THEN data[k] ELSE gateFacts[k]
                       ELSE before[k]]
  BY <1>1, <1>2, <1>4 DEF Over
<1>6. Over(gateFacts, before) =
        [k \in FactKey |-> IF k \in DOMAIN gateFacts THEN gateFacts[k] ELSE before[k]]
  BY <1>2 DEF Over
<1>7. \A k \in FactKey \ Set : data[k] = Over(gateFacts, before)[k]
  BY GateAssumption DEF Untouched
<1>8. data = [k \in FactKey |-> data[k]]
  BY DEF GateForm
<1> QED BY <1>5, <1>6, <1>7, <1>8

LEMMA GateInitInv == GateInit => GateInd
<1> SUFFICES ASSUME GateInit PROVE GateInd
  OBVIOUS
<1>1. PICK ks \in SUBSET FactKey : gateFacts \in [ks -> Value]
  BY GateAssumption DEF GateInit
<1>2. data \in [FactKey -> Value]
  BY <1>1 DEF GateInit, Over
<1>3. IsFiniteSet(fired) /\ Cardinality(fired) = 0
  BY FS_EmptySet DEF GateInit
<1> QED BY <1>2, <1>3, GateAssumption
        DEF GateInit, GateInd, GateForm, Untouched, HasHighest, Left, Decided

LEMMA FireInv == ASSUME GateInd, NEW i \in 1..Len(rules), Fire(i) PROVE GateInd'
<1>1. /\ UNCHANGED <<rules, gateFacts, before, status, runCtx, output>>
      /\ fired' = fired \cup {i} /\ i \notin fired /\ cycle' = cycle + 1
      /\ status = "execute" /\ cycle < MaxCycle
  BY DEF Fire, Runnable
<1>2. rules[i] \in Rule /\ \A j \in fired : rules[j] \in Rule
  BY ListForm DEF GateInd, GateForm
<1>3. IsFiniteSet(fired') /\ Cardinality(fired') = cycle'
  BY <1>1, FS_AddElement DEF GateInd, GateForm
<1>4. GateForm'
  <2>1. data' \in [FactKey -> Value]
    BY <1>2 DEF Fire, GateInd, GateForm, Rule
  <2>2. cycle' <= MaxCycle
    BY <1>1, GateAssumption, FS_CardinalityType DEF GateInd, GateForm
  <2> QED BY <1>1, <1>3, <2>1, <2>2 DEF GateInd, GateForm
<1>5. Untouched'
  <2>1. Over(gateFacts, before)' = Over(gateFacts, before)
    BY <1>1 DEF Over
  <2>2. \A k \in FactKey : rules[i].set # k => data'[k] = data[k]
    BY DEF Fire, GateInd, GateForm
  <2> QED BY <1>1, <2>1, <2>2 DEF GateInd, Untouched
<1>6. HasHighest'
  <2>1. \A j \in fired \cup {i} : rules[j].salience \in Int
    BY <1>2 DEF Rule
  <2>2. CASE fired = {}
    BY <1>1, <2>1, <2>2 DEF HasHighest
  <2>3. CASE fired # {}
    <3>1. PICK h \in fired : \A j \in fired : rules[j].salience <= rules[h].salience
      BY <2>3 DEF GateInd, HasHighest
    <3>2. CASE rules[i].salience <= rules[h].salience
      BY <1>1, <2>1, <3>1, <3>2 DEF HasHighest
    <3>3. CASE rules[h].salience <= rules[i].salience
      BY <1>1, <2>1, <3>1, <3>3 DEF HasHighest
    <3> QED BY <2>1, <3>1, <3>2, <3>3
  <2> QED BY <2>2, <2>3
<1>7. Left'
  BY <1>1 DEF GateInd, Left, Decided
<1> QED BY <1>4, <1>5, <1>6, <1>7 DEF GateInd

LEMMA GateStepInv == GateInd /\ [GateNext]_gateVars => GateInd'
<1> SUFFICES ASSUME GateInd, [GateNext]_gateVars PROVE GateInd'
  OBVIOUS
<1>1. CASE \E i \in 1..Len(rules) : Fire(i)
  BY <1>1, FireInv
<1>2. CASE CyclesExhausted
  <2>1. UNCHANGED <<rules, gateFacts, before, data, fired, cycle, runCtx, output>>
    BY <1>2 DEF CyclesExhausted
  <2>2. Runnable' = Runnable /\ Over(gateFacts, before)' = Over(gateFacts, before)
    BY <2>1 DEF Runnable, Holds, Over
  <2> QED BY <1>2, <2>1, <2>2
          DEF CyclesExhausted, GateInd, GateForm, Untouched, HasHighest, Left, Decided
<1>3. CASE Collect
  <2>1. UNCHANGED <<rules, gateFacts, before, data, fired, cycle>>
    BY <1>3 DEF Collect
  <2>2. /\ Runnable' = Runnable /\ Over(gateFacts, before)' = Over(gateFacts, before)
        /\ Facts' = Facts /\ Action' = Action
    BY <2>1 DEF Runnable, Holds, Over, Facts, SetFacts, Action
  <2>3. Over(Facts, before)' = Over(Facts, before)
    BY <2>1, <2>2 DEF Over
  <2> QED BY <1>3, <2>1, <2>2, <2>3
          DEF Collect, GateInd, GateForm, Untouched, HasHighest, Left, Decided
<1>4. CASE UNCHANGED gateVars
  <2>1. /\ Runnable' = Runnable /\ Over(gateFacts, before)' = Over(gateFacts, before)
        /\ Facts' = Facts /\ Action' = Action /\ Decided' = Decided
    BY <1>4 DEF gateVars, Runnable, Holds, Over, Facts, SetFacts, Action, Decided
  <2>2. Over(Facts, before)' = Over(Facts, before)
    BY <1>4, <2>1 DEF gateVars, Over
  <2> QED BY <1>4, <2>1, <2>2 DEF gateVars, GateInd, GateForm, Untouched, HasHighest, Left
<1> QED BY <1>1, <1>2, <1>3, <1>4 DEF GateNext

LEMMA GateInvariance == GateSpec => []GateInd
BY GateInitInv, GateStepInv, PTL DEF GateSpec

-----------------------------------------------------------------------------

(* Whatever the rules are and in whatever order they fire: a gate that has *)
(* decided leaves the facts its rules were decided on, its receipt gives   *)
(* them back on a resume, no rule is left to fire, and it fails only if it *)
(* has more rules than cycles.                                             *)
THEOREM GateSettles == GateSpec => []GateInv
<1>1. GateInd => GateInv
  <2> SUFFICES ASSUME GateInd PROVE GateInv
    OBVIOUS
  <2>1. ReceiptRestoresContext
    BY FactsRestore DEF GateInd, Left, ReceiptRestoresContext
  <2>2. Decided => \A i \in 1..Len(rules) \ fired : ~ Holds(rules[i], runCtx)
    BY <2>1 DEF GateInd, Left, ReceiptRestoresContext, Runnable
  <2>3. status = "failed" => Len(rules) > MaxCycle
    <3> SUFFICES ASSUME status = "failed" PROVE Len(rules) > MaxCycle
      OBVIOUS
    <3>1. fired \subseteq 1..Len(rules) /\ fired # 1..Len(rules)
      BY DEF GateInd, GateForm, Left, Runnable
    <3>2. Len(rules) \in Nat
      BY ListForm DEF GateInd
    <3>3. IsFiniteSet(1..Len(rules)) /\ Cardinality(1..Len(rules)) = Len(rules)
      BY <3>2, FS_Interval
    <3>4. /\ Cardinality(fired) <= Cardinality(1..Len(rules))
          /\ Cardinality(fired) # Cardinality(1..Len(rules))
          /\ Cardinality(fired) \in Nat
      BY <3>1, <3>3, FS_Subset, FS_CardinalityType DEF GateInd, GateForm
    <3> QED BY <3>2, <3>3, <3>4, GateAssumption DEF GateInd, GateForm, Left
  <2> QED BY <2>1, <2>2, <2>3 DEF GateInv, RulesSettle
<1> QED BY <1>1, GateInvariance, PTL

(* Whatever the saliences, negative ones too: the gate obeys the fired rule *)
(* of highest salience, or continues when that is below 0, and no rule that *)
(* applies to the facts it leaves behind outranks the one it obeyed.        *)
THEOREM HighestWins == GateSpec => []HighestSalienceWins
<1>1. GateInd => HighestSalienceWins
  <2> DEFINE heard == {j \in 1..Len(rules) : j \in fired \/ Holds(rules[j], runCtx)}
             eligible == {i \in fired : rules[i].salience > -1}
             highest == {i \in eligible : \A j \in eligible :
                            rules[j].salience <= rules[i].salience}
  <2> SUFFICES ASSUME GateInd, Decided
               PROVE  \/ \E i \in fired :
                           /\ rules[i].salience >= 0
                           /\ \A j \in heard : rules[j].salience <= rules[i].salience
                           /\ output.action = rules[i].action
                      \/ /\ output.action = "continue"
                         /\ \A j \in heard : rules[j].salience < 0
    BY DEF HighestSalienceWins
  <2>1. heard = fired
    <3>1. runCtx = data /\ fired \subseteq 1..Len(rules)
      BY FactsRestore DEF GateInd, GateForm, Left
    <3>2. \A j \in 1..Len(rules) : Holds(rules[j], data) => j \in fired
      BY DEF GateInd, Left, Runnable
    <3> QED BY <3>1, <3>2
  <2>2. fired \subseteq Nat /\ \A i \in fired : rules[i].salience \in Int
    BY ListForm DEF GateInd, GateForm, Rule
  <2>3. output.action = IF highest = {} THEN "continue" ELSE rules[Min(highest)].action
    BY DEF GateInd, Left, Action
  <2>4. CASE eligible = {}
    <3>1. \A j \in fired : rules[j].salience < 0
      BY <2>2, <2>4
    <3> QED BY <2>1, <2>3, <2>4, <3>1
  <2>5. CASE eligible # {}
    <3>1. PICK h \in fired : \A j \in fired : rules[j].salience <= rules[h].salience
      BY <2>5 DEF GateInd, HasHighest
    <3>2. h \in highest /\ highest \subseteq Nat
      <4>1. PICK e \in fired : rules[e].salience > -1
        BY <2>5
      <4>2. rules[h].salience > -1
        BY <2>2, <3>1, <4>1
      <4> QED BY <2>2, <3>1, <4>2
    <3>3. Min(highest) \in highest
      <4> HIDE DEF highest
      <4> QED BY <3>2, LeastOf
    <3> DEFINE m == Min(highest)
    <3>4. /\ m \in fired /\ rules[m].salience > -1
          /\ \A j \in eligible : rules[j].salience <= rules[m].salience
      BY <3>3
    <3>5. output.action = rules[m].action
      BY <2>3, <3>3
    <3> HIDE DEF m
    <3>6. \A j \in fired : rules[j].salience <= rules[m].salience /\ rules[m].salience >= 0
      BY <2>2, <3>4
    <3> QED BY <2>1, <3>4, <3>5, <3>6
  <2> QED BY <2>4, <2>5
<1> QED BY <1>1, GateInvariance, PTL

=============================================================================

-------------------------------- MODULE Gate --------------------------------
(***************************************************************************)
(* The gate step (pkg/engine/gate.go, factstore.go and the gate branch of  *)
(* executeStepCore).  The gate's rules are run by Grule, a forward         *)
(* chaining engine: the runnable rule of highest salience fires, its facts *)
(* are set, and the rest are looked at again.  The engine then picks the   *)
(* gate's action, merges the facts into the run's context and saves a      *)
(* receipt, from which a resumed run rebuilds that context.                *)
(*                                                                         *)
(* Grule is external.  Of a fact's value the model keeps what the rules'   *)
(* conditions tell apart: missing or nil, false (or empty, or zero), true. *)
(***************************************************************************)
EXTENDS Integers, Sequences, FiniteSets, FiniteSetsExt

CONSTANTS
    FactKey,    \* the names of facts
    RuleLists,  \* the lists of rules a gate may name, see Rule
    GateFacts,  \* the facts: blocks a gate may have, resolved
    MaxCycle    \* 100 in the code

Value == {"nil", "false", "true"}
NoKey == "none"

(* parser.Rule: the condition tests one fact, and set_fact sets one. *)
Rule == [salience : Int, action : {"continue", "skip", "pause"},
         test : {"IsTrue", "NotTrue", "IsNil", "NotNil"}, on : FactKey,
         set : FactKey \cup {NoKey}, to : Value]

ASSUME GateAssumption ==
    /\ NoKey \notin FactKey
    /\ RuleLists \subseteq Seq(Rule)
    /\ GateFacts \subseteq UNION {[ks -> Value] : ks \in SUBSET FactKey}
    /\ MaxCycle \in Nat \ {0}

VARIABLES
    rules,      \* the gate's rules, in the order it names them
    gateFacts,  \* its resolved facts
    before,     \* runCtx when the gate starts
    data,       \* the FactStore
    fired,      \* which rules have fired, by position
    cycle,      \* Grule's cycle counter
    status,     \* "execute", then "completed", "paused" or "failed"
    runCtx,     \* the run's context
    output      \* the gate's output, its receipt

gateVars == <<rules, gateFacts, before, data, fired, cycle, status, runCtx, output>>

(* f with the values of g where g has any *)
Over(g, f) == [k \in DOMAIN f \cup DOMAIN g |-> IF k \in DOMAIN g THEN g[k] ELSE f[k]]

NoReceipt == [action |-> "none", fired |-> {}, facts |-> <<>>]

GateInit ==
    /\ rules \in RuleLists
    /\ gateFacts \in GateFacts
    /\ before \in [FactKey -> Value]
    /\ data = Over(gateFacts, before)
    /\ fired = {}
    /\ cycle = 0
    /\ status = "execute"
    /\ runCtx = before
    /\ output = NoReceipt

(* FactStore.IsTrue and IsNil *)
Holds(r, f) ==
    CASE r.test = "IsTrue"  -> f[r.on] = "true"
      [] r.test = "NotTrue" -> f[r.on] # "true"
      [] r.test = "IsNil"   -> f[r.on] = "nil"
      [] r.test = "NotNil"  -> f[r.on] # "nil"

(* A compiled rule ends by retracting itself. *)
Runnable == {i \in 1..Len(rules) : i \notin fired /\ Holds(rules[i], data)}

(* The then part of a compiled rule: its set_fact, MarkFired, Retract.     *)
(* Among rules of the same salience the order is Grule's.                  *)
Fire(i) ==
    /\ status = "execute"
    /\ i \in Runnable
    /\ \A j \in Runnable : rules[j].salience <= rules[i].salience
    /\ cycle < MaxCycle
    /\ cycle' = cycle + 1
    /\ data' = IF rules[i].set = NoKey THEN data
               ELSE [data EXCEPT ![rules[i].set] = rules[i].to]
    /\ fired' = fired \cup {i}
    /\ UNCHANGED <<rules, gateFacts, before, status, runCtx, output>>

(* Execute returns an error, and the step fails. *)
CyclesExhausted ==
    /\ status = "execute"
    /\ Runnable # {}
    /\ cycle = MaxCycle
    /\ status' = "failed"
    /\ UNCHANGED <<rules, gateFacts, before, data, fired, cycle, runCtx, output>>

(* Mutant: the last rule that fired, in the gate's order, decides *)
ActionOfLast == IF fired = {} THEN "continue" ELSE rules[Max(fired)].action

(* The loop that collects the results: the comparison is strict and starts *)
(* from -1, so of equals the first counts and a rule below 0 never does.   *)
Action ==
    LET eligible == {i \in fired : rules[i].salience > -1}
        highest  == {i \in eligible : \A j \in eligible :
                        rules[j].salience <= rules[i].salience}
    IN  IF highest = {} THEN "continue" ELSE rules[Min(highest)].action

(* what the fired rules have set, as it is in the end *)
SetFacts == [k \in {rules[i].set : i \in fired} \ {NoKey} |-> data[k]]

(* Mutant: only what the rules set is kept *)
FactsOfRules == SetFacts

(* Rule assignments win over the gate's facts. *)
Facts == Over(SetFacts, gateFacts)

(* The results are collected, the context is updated, the receipt saved. *)
Collect ==
    /\ status = "execute"
    /\ Runnable = {}
    /\ runCtx' = Over(Facts, runCtx)
    /\ output' = [action |-> Action, fired |-> fired, facts |-> Facts]
    /\ status' = IF Action = "pause" THEN "paused" ELSE "completed"
    /\ UNCHANGED <<rules, gateFacts, before, data, fired, cycle>>

GateNext == (\E i \in 1..Len(rules) : Fire(i)) \/ CyclesExhausted \/ Collect

GateSpec == GateInit /\ [][GateNext]_gateVars

-----------------------------------------------------------------------------
(* Properties *)

Decided == status \in {"completed", "paused"}

(* The gate obeys the fired rule of highest salience, and no rule that      *)
(* applies to the facts it leaves behind outranks that one, although the    *)
(* rules enable and disable one another on the way.  The search starts at   *)
(* -1: when only rules below 0 fired the gate continues.                    *)
HighestSalienceWins ==
    LET heard == {j \in 1..Len(rules) : j \in fired \/ Holds(rules[j], runCtx)}
    IN  Decided =>
          \/ \E i \in fired :
                /\ rules[i].salience >= 0
                /\ \A j \in heard : rules[j].salience <= rules[i].salience
                /\ output.action = rules[i].action
          \/ /\ output.action = "continue"
             /\ \A j \in heard : rules[j].salience < 0

(* Later steps see the facts the rules were decided on, and so does a      *)
(* resumed run that replays the receipt over the context the gate started  *)
(* from, whichever rules fired and in whatever order they overwrote facts. *)
ReceiptRestoresContext ==
    Decided => /\ runCtx = data
               /\ Over(output.facts, before) = data

(* Rules chain until none is left to fire: a decided gate has no rule that *)
(* would apply to the facts it leaves behind, and a gate fails only if it  *)
(* has more rules than cycles, for no rule fires twice.                    *)
RulesSettle ==
    /\ Decided => \A i \in 1..Len(rules) \ fired : ~ Holds(rules[i], runCtx)
    /\ status = "failed" => Len(rules) > MaxCycle

(* What a decided gate leaves to later steps and attempts is settled.      *)
GateInv == ReceiptRestoresContext /\ RulesSettle

(* What the documentation says, and the code does not do for saliences     *)
(* below 0: "The highest-salience fired rule determines the gate action"   *)
(* (docs/reference/step-types.md).                                         *)
HighestSalienceDecides ==
    Decided =>
        IF fired = {} THEN output.action = "continue"
        ELSE \E i \in fired :
                /\ \A j \in fired : rules[j].salience <= rules[i].salience
                /\ output.action = rules[i].action

=============================================================================

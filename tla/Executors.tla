------------------------------ MODULE Executors ------------------------------
(***************************************************************************)
(* One step on the runner's host: executeStepCore finds the executor of    *)
(* the step's base type and calls its Execute.  The executors share        *)
(* nothing; the one that is not called stays idle.                         *)
(***************************************************************************)
EXTENDS ClaudeStep, LocalExec

execVars == <<vars, localVars>>

(* exec, ok := e.executors[base] *)
DispatchInit ==
    \/ InitAt("start") /\ LocalInit("idle")
         /\ kind = "shell_exec" /\ file.mode = "none"
    \/ InitAt("idle") /\ LocalInit("start")

DispatchNext == \/ Next /\ UNCHANGED localVars
                \/ LocalNext /\ UNCHANGED vars

Dispatch == /\ DispatchInit /\ [][DispatchNext]_execVars
            /\ Fairness /\ LocalFairness

=============================================================================

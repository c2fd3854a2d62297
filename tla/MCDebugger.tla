----------------------------- MODULE MCDebugger -----------------------------
(***************************************************************************)
(* Instances of Debugger for TLC.                                          *)
(***************************************************************************)
EXTENDS Debugger

NoBreakpoints == [p \in Points |-> "off"]

\* A breakpoint before the last step, a conditional one after the first, and a
\* logpoint before it
StopWhenLog == [p \in Points |-> IF p = 2 * NSteps - 1 THEN "stop"
                                 ELSE IF p = 2 THEN "when" ELSE "log"]

SomeLists == {NoBreakpoints, StopWhenLog}
NoList == {NoBreakpoints}

=============================================================================

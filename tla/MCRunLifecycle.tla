--------------------------- MODULE MCRunLifecycle ---------------------------
(***************************************************************************)
(* Small workflows for RunLifecycle.                                       *)
(***************************************************************************)
EXTENDS RunLifecycle

\* build, approve, deploy; report; unlock
ApprovalKind ==
  [s \in StepId |-> IF s = Step(2) THEN "gate" ELSE "exec"]

\* decide, approve, deploy: the variable is computed by the first step
DecideKind ==
  [s \in StepId |-> IF s = Step(1) THEN "fact"
                    ELSE IF s = Step(2) THEN "gate" ELSE "exec"]

\* build, verify, publish
PlainKind ==
  [s \in StepId |-> IF s = Step(2) THEN "assert" ELSE "exec"]

\* decide, approve, deploy; report; a check and an unlock at the end
MixedKind ==
  [s \in StepId |-> IF s = Step(1) THEN "fact"
                    ELSE IF s = Step(2) THEN "gate"
                    ELSE IF s = <<"always", 1>> THEN "assert" ELSE "exec"]

None == {}
First == {Step(1)}

\* The names of the steps are in alphabetical order, or in the opposite order
Ascending == [i \in 1..NSteps |-> i]
Descending == [i \in 1..NSteps |-> NSteps - i]

=============================================================================

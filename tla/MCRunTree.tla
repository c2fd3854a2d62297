----------------------------- MODULE MCRunTree -----------------------------
(***************************************************************************)
(* An instance of RunTree for TLC: main is <<step, call a>>, a is <<call   *)
(* b>>, b is <<step>>, a gate; the call of b and that step have a `when`.  *)
(***************************************************************************)
EXTENDS RunTree

Three == {"main", "a", "b"}
ThreeSteps == [r \in Three |-> IF r = "main" THEN 2 ELSE 1]
Calls ==
  [s \in {<<"main", 1>>, <<"main", 2>>, <<"a", 1>>, <<"b", 1>>} |->
     IF s = <<"main", 2>> THEN "a" ELSE IF s = <<"a", 1>> THEN "b" ELSE "norun"]
WithWhen == {<<"a", 1>>, <<"b", 1>>}
GateSteps == {<<"b", 1>>}
RewindTargets == {0, -1, 1, 2}

=============================================================================

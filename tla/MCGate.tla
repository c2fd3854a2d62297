------------------------------- MODULE MCGate -------------------------------
(* The gates of the small instances: two or three rules, each with its own *)
(* action, that need or refute one of two facts and may set one.           *)
EXTENDS Gate

CONSTANT Saliences

WithNegative == {-1, 0}
AroundZero == {-1, 0, 1}

Acts == <<"continue", "pause", "skip">>

OneRule(i) ==
    {[salience |-> s, action |-> Acts[i], test |-> t, on |-> k,
      set |-> f[1], to |-> f[2]] :
        s \in Saliences, t \in {"IsTrue", "NotTrue"}, k \in FactKey,
        f \in {<<NoKey, "true">>, <<"x", "true">>, <<"y", "false">>}}

Lists == {<<a, b>> : a \in OneRule(1), b \in OneRule(2)} \cup
         {<<a, b, c>> : a \in OneRule(1), b \in OneRule(2), c \in OneRule(3)}

OneFact == {<<>>, [k \in {"x"} |-> "true"]}

=============================================================================

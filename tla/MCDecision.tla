----------------------------- MODULE MCDecision -----------------------------
(* What the callers of the small instance of Decision ask: one asks the    *)
(* same question twice, the other two steps ask one each.                  *)
EXTENDS Decision

SmallAsks == [c \in Caller |-> IF c = "a" THEN <<"k1", "k1">>
                          ELSE IF c = "b" THEN <<"k2">> ELSE <<"k3">>]

=============================================================================

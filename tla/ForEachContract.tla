-------------------------- MODULE ForEachContract --------------------------
(***************************************************************************)
(* What a for_each step promises to the workflow that contains it          *)
(* (docs/reference/for-each.md): items run at most Limit at a time, every  *)
(* item that was started has ended before the step returns, and what the   *)
(* step returns is justified by how its items ended.  How the loop, the    *)
(* semaphore and the goroutines achieve it is the business of ForEach,     *)
(* which implements this specification.                                    *)
(***************************************************************************)
EXTENDS Naturals, FiniteSets

CONSTANTS
  Items,          \* the items of the list
  Limit,          \* how many items may be in flight
  IgnoreErrors    \* the step's ignore_errors flag

VARIABLES
  st,             \* st[i]: where item i is, or how it ended
  ret             \* what the step returned: "none" until it returns

contractVars == <<st, ret>>

Ended == {"ok", "fail", "pause", "setup"}

Active == {i \in Items : st[i] = "active"}

(***************************************************************************)
(* A failure of the item's own work stops the step unless ignore_errors is *)
(* set; a pause, and a failure to set the item up, always do.              *)
(***************************************************************************)
Tolerated(i) == st[i] \in {"ok", "idle"} \/ (IgnoreErrors /\ st[i] = "fail")

ContractInit ==
  /\ st = [i \in Items |-> "idle"]
  /\ ret = "none"

Start(i) ==
  /\ ret = "none"
  /\ st[i] = "idle"
  /\ Cardinality(Active) < Limit
  /\ st' = [st EXCEPT ![i] = "active"]
  /\ UNCHANGED ret

End(i) ==
  /\ st[i] = "active"
  /\ \E o \in Ended : st' = [st EXCEPT ![i] = o]
  /\ UNCHANGED ret

(***************************************************************************)
(* "fail" may also come from the loop itself (the list, its keys or        *)
(* for_each_when could not be evaluated), with every item tolerated.       *)
(***************************************************************************)
Return ==
  /\ ret = "none"
  /\ Active = {}
  /\ \/ ret' = "ok" /\ \A i \in Items : Tolerated(i)
     \/ ret' = "pause" /\ \E i \in Items : st[i] = "pause"
     \/ ret' = "fail"
  /\ UNCHANGED st

ContractNext ==
  \/ \E i \in Items : Start(i) \/ End(i)
  \/ Return

ContractSpec == ContractInit /\ [][ContractNext]_contractVars

=============================================================================

------------------------------ MODULE MCK8sJob ------------------------------
(* Job names for the small instances of K8sJob. *)
EXTENDS K8sJob

CONSTANTS a, b, w

(* Two steps of different runs, and a watched Job of another name. *)
DistinctNames == [x \in Exec |-> x]

(* Two items of one for_each step: same run ID, same step name. *)
ItemNames == [x \in Exec |-> IF x \in Step THEN "step" ELSE x]

=============================================================================

----------------------------- MODULE MCForEach -----------------------------
(***************************************************************************)
(* An instance of ForEach for TLC.  What a key is called does not matter:  *)
(* an item has no key field (0), the key of an item before it, or the next *)
(* key that has not been used.                                             *)
(***************************************************************************)
EXTENDS ForEach

NamedInOrder == [i \in 1..N |-> 0..i]

=============================================================================

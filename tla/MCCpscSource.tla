----------------------------- MODULE MCCpscSource ------------------------------
(***************************************************************************)
(* Small instances of CpscSource: two recalls, one recorded response.      *)
(***************************************************************************)
EXTENDS CpscSource, TLC

MCRecordedResponses == {[r \in {"r1"} |-> "v1"]}

Symmetry == Permutations(Jobs)
=============================================================================

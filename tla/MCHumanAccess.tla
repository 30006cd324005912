----------------------------- MODULE MCHumanAccess -----------------------------
(***************************************************************************)
(* Small instances of HumanAccess; each instance of the service admits     *)
(* every address or none.                                                  *)
(***************************************************************************)
EXTENDS HumanAccess, TLC
Symmetry ==
  Permutations(Requests) \cup Permutations(Redemptions) \cup Permutations(FactorCalls)
MCPolicies == {Emails, {}}
=============================================================================

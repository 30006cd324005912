--------------------------- MODULE MCEvidenceReviews ---------------------------
(***************************************************************************)
(* Small instances of EvidenceReviews: two operators, the first of whom    *)
(* has the evaluation.                                                     *)
(***************************************************************************)
EXTENDS EvidenceReviews
CONSTANTS seller, other
MCOwner == [e \in Evaluations |-> seller]
MCGrants == {{ReadEvidence}, {ReportReview}}
Symmetry == Permutations(Keys) \cup Permutations(Calls) \cup Permutations(Acknowledgements)
=============================================================================

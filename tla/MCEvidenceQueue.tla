---------------------------- MODULE MCEvidenceQueue ----------------------------
(***************************************************************************)
(* Small instances of EvidenceQueue.  The CPSC source has one recall "r"   *)
(* in two wordings; both match every submitted content.                    *)
(***************************************************************************)
EXTENDS EvidenceQueueLedger, TLC

MCRecords == {<<"r", 1>>, <<"r", 2>>}
MCMatching == Contents \X MCRecords

\* The recall is absent or present.
MCSourceStates == {{}, {<<"r", 1>>}}
\* The recall is absent, present, or reworded.
MCRewordedStates == {{}, {<<"r", 1>>}, {<<"r", 2>>}}

Symmetry == Permutations(Procs)
OperatorSymmetry == Permutations(Procs) \cup Permutations(Operators)
=============================================================================

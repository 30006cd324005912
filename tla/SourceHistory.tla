----------------------------- MODULE SourceHistory -----------------------------
(***************************************************************************)
(* What the CPSC source promises the evidence queue: a history of complete *)
(* revisions, the last one current, that only grows, one whole revision at *)
(* a time; and a pause that a bad response may bring.                      *)
(***************************************************************************)
EXTENDS Naturals, Sequences

CONSTANTS Observations, RecordSets

VARIABLES revisions, paused

vars == <<revisions, paused>>

Init == revisions = <<>> /\ paused = FALSE

\* A completed revision becomes current.
Promote ==
  /\ Len(revisions') = Len(revisions) + 1
  /\ LET new == revisions'[Len(revisions) + 1]
     IN /\ revisions' = Append(revisions, new)
        /\ new \in [observed : Observations, records : RecordSets]
  /\ UNCHANGED paused

\* A bad response pauses the service, a founder resumes it.
Pause == paused' = TRUE /\ UNCHANGED revisions
Resume == paused' = FALSE /\ UNCHANGED revisions

Next == Promote \/ Pause \/ Resume

Spec == Init /\ [][Next]_vars
=============================================================================

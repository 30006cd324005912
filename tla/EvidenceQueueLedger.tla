-------------------------- MODULE EvidenceQueueLedger --------------------------
(***************************************************************************)
(* The evidence queue implements the submission ledger: an evaluation is   *)
(* an entry, open when it is readable, refused when it was rejected.       *)
(***************************************************************************)
EXTENDS EvidenceQueue

EntryState(e) ==
  IF Readable(e) THEN "open" ELSE IF Rejected(e) THEN "refused" ELSE "held"

Entry(e) ==
  [operator |-> evaluations[e].operator, key |-> evaluations[e].key,
   content |-> evaluations[e].content, counts |-> evaluations[e].counts,
   candidate |-> evaluations[e].rows # {}, state |-> EntryState(e)]

Ledger == INSTANCE SubmissionLedger WITH
  Keys <- AllKeys, Limit <- AuditQueueLimit,
  entries <- [e \in Evaluations |-> Entry(e)],
  paused <- pause.isPaused

\* Every step of every interleaving of handlers, founder and source is a step of the
\* ledger or leaves it alone.
ImplementsLedger == Ledger!Spec

\* What the queue sees of the CPSC source.
SourceSeen == INSTANCE SourceHistory WITH
  Observations <- Nat, RecordSets <- SourceStates, revisions <- revisions,
  paused <- pause.isPaused

\* No handler and no founder writes anything of the source but the pause.
ReadsTheHistory == SourceSeen!Spec
=============================================================================

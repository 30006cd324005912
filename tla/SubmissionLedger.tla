--------------------------- MODULE SubmissionLedger ----------------------------
(***************************************************************************)
(* What the evidence queue promises, without statements, locks or source   *)
(* revisions: an append-only ledger of results, one per idempotency key,   *)
(* in which a candidate result among the first Limit counted ones is held  *)
(* until a founder decides once, and to which nothing is added while the   *)
(* service is paused.                                                      *)
(***************************************************************************)
EXTENDS Integers, Sequences, FiniteSets

CONSTANTS Operators, Keys, Contents, Limit

VARIABLES entries, paused

vars == <<entries, paused>>

Counted == Cardinality({i \in 1..Len(entries) : entries[i].counts})

Fresh(o, k) == \A i \in 1..Len(entries) : ~(entries[i].operator = o /\ entries[i].key = k)

Results == [operator : Operators, key : Keys, content : Contents,
            counts : BOOLEAN, candidate : BOOLEAN, state : {"open", "held"}]

\* The ledger grows by one result, under a key nobody used: held when it has
\* candidates and the gate still counts.
Enter ==
  /\ ~paused
  /\ UNCHANGED paused
  /\ Len(entries') = Len(entries) + 1
  /\ LET new == entries'[Len(entries) + 1]
     IN /\ entries' = Append(entries, new)
        /\ new \in Results
        /\ Fresh(new.operator, new.key)
        /\ new.state = "held" <=> new.candidate /\ Counted < Limit

\* A founder opens a held result, or refuses it and thereby pauses the service.
Decide(i, state) ==
  /\ entries[i].state = "held"
  /\ entries' = [entries EXCEPT ![i].state = state]
  /\ paused' = (paused \/ state = "refused")

\* The service is paused or resumed.
Switch == paused' = ~paused /\ UNCHANGED entries

Init == entries = <<>> /\ paused = FALSE

Next ==
  \/ Enter
  \/ \E i \in 1..Len(entries), state \in {"open", "refused"} : Decide(i, state)
  \/ Switch

Spec == Init /\ [][Next]_vars
=============================================================================

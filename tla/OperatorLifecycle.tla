--------------------------- MODULE OperatorLifecycle ---------------------------
(***************************************************************************)
(* What data rights promise an operator: an account opens, may be asked to *)
(* be deleted, which is never taken back, and is erased at once with every *)
(* trace of the operator and one receipt.  Nothing about an operator is    *)
(* recorded before the account opens or after the erasure.                 *)
(***************************************************************************)
EXTENDS Naturals

CONSTANT Operators

VARIABLES
  stage,     \* how far each operator's account has come
  traces,    \* the operators some record mentions
  receipts   \* deletion completion receipts, which mention nobody

vars == <<stage, traces, receipts>>

Known == {o \in Operators : stage[o] \in {"open", "leaving"}}

Init ==
  /\ stage = [o \in Operators |-> "unused"]
  /\ traces = {}
  /\ receipts = 0

Open(o) ==
  /\ stage[o] = "unused"
  /\ stage' = [stage EXCEPT ![o] = "open"]
  /\ traces' \in {traces, traces \cup {o}}
  /\ UNCHANGED receipts

\* Records are written about operators that have an account.
Record(o) ==
  /\ o \in Known
  /\ traces' = traces \cup {o}
  /\ UNCHANGED <<stage, receipts>>

AskDeletion(o) ==
  /\ stage[o] = "open"
  /\ stage' = [stage EXCEPT ![o] = "leaving"]
  /\ traces' = traces \cup {o}
  /\ UNCHANGED receipts

\* A record may mention another operator as well, who then loses that trace.
Erase(o) ==
  /\ o \in Known
  /\ stage' = [stage EXCEPT ![o] = "erased"]
  /\ traces' \in SUBSET (traces \ {o})
  /\ receipts' = receipts + 1

Next == \E o \in Operators : Open(o) \/ Record(o) \/ AskDeletion(o) \/ Erase(o)

Spec == Init /\ [][Next]_vars
=============================================================================

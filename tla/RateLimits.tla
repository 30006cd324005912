------------------------------ MODULE RateLimits -------------------------------
(***************************************************************************)
(* What the limits of the service promise, without rows, locks, lagging    *)
(* clocks or the pruning of logs: an event is admitted for some subjects   *)
(* at a time only when each of them has fewer than its limit of admissions *)
(* later than one window before that time.                                 *)
(***************************************************************************)
EXTENDS Integers, FiniteSets

CONSTANTS
  Subjects,   \* an address, a network, the whole service, a session, a key
  Events,     \* what is admitted: a link sent, an attempt judged, a request served
  Limit,      \* of each subject
  Window,     \* of each subject
  Times       \* what a clock may read

\* What the theorem about this module asks of the constants.
LimitsAreNumbers ==
  /\ Limit \in [Subjects -> Nat]
  /\ Window \in [Subjects -> Nat]
  /\ Times \subseteq Nat

VARIABLE admitted   \* each subject's admissions: events and the times they count for

Admissions == [event : Events, at : Times]

Later(s, t) == {a \in admitted[s] : a.at > t}

\* The events may come in another order than their times.
Admit(e, t) ==
  /\ \A s \in Subjects : \A a \in admitted[s] : a.event # e
  /\ admitted' = [s \in Subjects |-> admitted'[s]]
  /\ \A s \in Subjects :
       \/ admitted'[s] = admitted[s]
       \/ /\ admitted'[s] = admitted[s] \cup {[event |-> e, at |-> t]}
          /\ Cardinality(Later(s, t - Window[s])) < Limit[s]

Init == admitted = [s \in Subjects |-> {}]

Next ==
  /\ admitted' # admitted
  /\ \E e \in Events, t \in Times : Admit(e, t)

Spec == Init /\ [][Next]_admitted

-----------------------------------------------------------------------------
TypeOK ==
  /\ admitted \in [Subjects -> SUBSET Admissions]
  /\ \A s \in Subjects : IsFiniteSet(admitted[s])

Within(s, t) == {a \in Later(s, t - Window[s]) : a.at <= t}

\* However a window is placed, no subject is admitted more often in it than its limit.
Bounded == \A s \in Subjects, t \in Times : Cardinality(Within(s, t)) <= Limit[s]
=============================================================================

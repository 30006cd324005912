--------------------------- MODULE RateLimitsProofs ----------------------------
(***************************************************************************)
(* The limits hold in every window, for every value of the constants: the  *)
(* admission committed last in a window counted every other one of it,     *)
(* whatever the order of their times.                                      *)
(***************************************************************************)
EXTENDS RateLimits, FiniteSetTheorems, TLAPS

\* Admissions are of known events at known times, finitely many.
LEMMA LimitsTypeInit == Init => TypeOK
  BY FS_EmptySet DEF Init, TypeOK

\* They stay so when one more is admitted.
LEMMA LimitsTypeNext ==
  ASSUME TypeOK, NEW e \in Events, NEW t \in Times, Admit(e, t)
  PROVE  TypeOK'
<1> DEFINE new == [event |-> e, at |-> t]
<1>1. new \in Admissions
  BY DEF Admissions
<1>2. ASSUME NEW s \in Subjects
      PROVE  admitted'[s] \in SUBSET Admissions /\ IsFiniteSet(admitted'[s])
  <2>1. admitted[s] \in SUBSET Admissions /\ IsFiniteSet(admitted[s])
    BY DEF TypeOK
  <2>2. IsFiniteSet(admitted[s] \cup {new})
    BY <2>1, FS_AddElement
  <2>3. admitted'[s] = admitted[s] \/ admitted'[s] = admitted[s] \cup {new}
    BY DEF Admit
  <2> QED BY <1>1, <2>1, <2>2, <2>3
<1>3. admitted' = [s \in Subjects |-> admitted'[s]]
  BY DEF Admit
<1> QED BY <1>2, <1>3 DEF TypeOK

\* The new admission joins only windows whose other admissions it has counted.
LEMMA BoundedNext ==
  ASSUME LimitsAreNumbers, TypeOK, Bounded,
         NEW e \in Events, NEW t \in Times, Admit(e, t)
  PROVE  Bounded'
<1> SUFFICES ASSUME NEW s \in Subjects, NEW u \in Times
             PROVE  Cardinality(Within(s, u)') <= Limit[s]
  BY DEF Bounded
<1> DEFINE new == [event |-> e, at |-> t]
           old == Within(s, u)
<1>1. /\ Limit[s] \in Nat /\ Window[s] \in Nat /\ u \in Nat /\ t \in Nat
      /\ \A a \in admitted[s] : a.at \in Nat
      /\ IsFiniteSet(admitted[s])
  <2>1. admitted[s] \in SUBSET Admissions /\ IsFiniteSet(admitted[s])
    BY DEF TypeOK
  <2>2. \A a \in admitted[s] : a.at \in Times
    BY <2>1 DEF Admissions
  <2> QED BY <2>1, <2>2 DEF LimitsAreNumbers
<1>2. Cardinality(old) <= Limit[s]
  BY DEF Bounded
<1>3. /\ Within(s, u)' = {a \in admitted'[s] : u - Window[s] < a.at /\ a.at <= u}
      /\ old = {a \in admitted[s] : u - Window[s] < a.at /\ a.at <= u}
  BY <1>1 DEF Within, Later
<1>4. admitted'[s] = admitted[s] \/ admitted'[s] = admitted[s] \cup {new}
  BY DEF Admit
<1>5. CASE admitted'[s] = admitted[s] \/ ~(u - Window[s] < t /\ t <= u)
  <2>1. Within(s, u)' = old
    BY <1>3, <1>4, <1>5
  <2> QED BY <1>2, <2>1
<1>6. CASE admitted'[s] # admitted[s] /\ u - Window[s] < t /\ t <= u
  <2>1. Within(s, u)' = old \cup {new}
    BY <1>3, <1>4, <1>6
  <2>2. old \subseteq Later(s, t - Window[s])
    BY <1>1, <1>6 DEF Within, Later
  <2>3. IsFiniteSet(Later(s, t - Window[s])) /\ IsFiniteSet(old)
    BY <1>1, FS_Subset DEF Later, Within
  <2>4. /\ Cardinality(old) <= Cardinality(Later(s, t - Window[s]))
        /\ Cardinality(old) \in Nat /\ Cardinality(Later(s, t - Window[s])) \in Nat
    BY <2>2, <2>3, FS_Subset, FS_CardinalityType
  <2>5. Cardinality(Later(s, t - Window[s])) < Limit[s]
    BY <1>6 DEF Admit
  <2>6. Cardinality(old \cup {new}) \in {Cardinality(old), Cardinality(old) + 1}
    BY <2>3, FS_AddElement
  <2> QED BY <1>1, <2>1, <2>4, <2>5, <2>6
<1> QED BY <1>5, <1>6

\* No subject is ever admitted more often than its limit in any window of time,
\* although requests commit in another order than the times they carry.
THEOREM LimitsBounded ==
  ASSUME LimitsAreNumbers
  PROVE  Spec => []Bounded
<1>1. Init => TypeOK /\ Bounded
  <2> SUFFICES ASSUME Init PROVE Bounded
    BY LimitsTypeInit
  <2>1. ASSUME NEW s \in Subjects, NEW u \in Times PROVE Cardinality(Within(s, u)) <= Limit[s]
    <3>1. Within(s, u) = {}
      BY DEF Init, Within, Later
    <3> QED BY <3>1, FS_EmptySet DEF LimitsAreNumbers
  <2> QED BY <2>1 DEF Bounded
<1>2. TypeOK /\ Bounded /\ [Next]_admitted => (TypeOK /\ Bounded)'
  <2> SUFFICES ASSUME TypeOK, Bounded, [Next]_admitted PROVE (TypeOK /\ Bounded)'
    OBVIOUS
  <2>1. CASE Next
    BY <2>1, LimitsTypeNext, BoundedNext DEF Next
  <2>2. CASE UNCHANGED admitted
    BY <2>2 DEF TypeOK, Bounded, Within, Later
  <2> QED BY <2>1, <2>2
<1> QED BY <1>1, <1>2, PTL DEF Spec
=============================================================================

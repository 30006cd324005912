--------------------------- MODULE AgentAccessProofs ---------------------------
(***************************************************************************)
(* What keys and the authentication of calls keep, for every number of     *)
(* operators, keys and calls and every limit.  The steps are those of      *)
(* AgentAccess and those by which EvidenceReviews goes on with a call.     *)
(***************************************************************************)
EXTENDS AgentAccess, FiniteSetTheorems, TLAPS

\* A call that was let through goes on or fails.
Through == {"authorised", "seen", "recorded", "answered", "reported"}
Works(q) ==
  /\ calls[q].step \in {"authorised", "seen", "recorded"}
  /\ \/ \E step \in {"seen", "recorded", "answered", "reported"} :
          calls' = [calls EXCEPT ![q].step = step]
     \/ calls' = [calls EXCEPT ![q] = [NoCall EXCEPT !.step = "failed"]]
  /\ UNCHANGED <<clock, people, keys, log>>

AccessStep ==
  \/ AccessNext
  \/ \E q \in Calls : Works(q)
  \/ \E o \in Operators : EraseAccess(o)
  \/ UNCHANGED accessVars

-----------------------------------------------------------------------------
(* The inductive invariant *)

\* One creation at a time counts an operator's keys, and what it counted still holds.
KeyLocks ==
  \A k, l \in Keys :
    keys[k].step = "counted" /\ keys[l].step = "counted" /\ keys[k].operator = keys[l].operator
    => k = l
RoomIsLeft ==
  \A k \in Keys : keys[k].step = "counted" /\ keys[k].room =>
    Cardinality(ActiveKeys(keys[k].operator)) < MaxActiveKeys

\* One call at a time counts a key's requests, and what it counted still holds.
RateLocks ==
  \A q, r \in Calls :
    calls[q].step = "counted" /\ calls[r].step = "counted" /\ calls[q].key = calls[r].key => q = r
Since(k, t) == {x \in admitted[k] : x.at > t}
CountsHold ==
  \A q \in Calls : calls[q].step = "counted" /\ Exists(calls[q].key) =>
    Cardinality(Since(calls[q].key, calls[q].at - Minute)) < RequestsPerMinute

\* What was let through is in the log, or too old for any count still to come.
LogIsKept ==
  \A k \in Keys : Exists(k) => \A x \in admitted[k] :
    \/ [key |-> k, call |-> x.event, at |-> x.at] \in attempts
    \/ x.at + Minute <= clock - Lag
NothingYet == \A k \in Keys : keys[k].step \in {"new", "counted"} => admitted[k] = {}

\* Calls are let through once, with the key they were read with.
AdmittedCalls ==
  /\ \A k \in Keys : \A x \in admitted[k] : calls[x.event].step \in Through \cup {"failed"}
  /\ \A q \in Calls : calls[q].step \in Through => \E x \in admitted[calls[q].key] : x.event = q
KeysOfCalls ==
  \A q \in Calls : calls[q].step \notin {"new", "failed"} =>
    LET k == calls[q].key
    IN /\ keys[k].step \notin {"new", "counted"}
       /\ Exists(k) => keys[k].operator = calls[q].operator /\ calls[q].scope \in keys[k].scopes

KeysInv == KeyLocks /\ RoomIsLeft /\ KeysAreBounded
CallsInv == RateLocks /\ CountsHold /\ LogIsKept /\ NothingYet /\ AdmittedCalls /\ KeysOfCalls

-----------------------------------------------------------------------------
(* Types *)

\* Initially nothing is recorded.
LEMMA AccessTypeInit == AccessInit => AccessTypeOK
<1> SUFFICES ASSUME AccessInit PROVE AccessTypeOK
  OBVIOUS
<1>1. NoKey \in KeyLocals /\ NoCall \in CallLocals
  BY LimitAssumption DEF NoKey, NoCall, KeyLocals, CallLocals, Times, None
<1>2. IsFiniteSet(attempts)
  BY FS_EmptySet DEF AccessInit
<1>3. clock \in Times /\ operators \in SUBSET Operators /\ signedIn \in SUBSET operators
  BY LimitAssumption DEF AccessInit, Times
<1>4. keys \in [Keys -> KeyLocals] /\ calls \in [Calls -> CallLocals]
  BY <1>1 DEF AccessInit
<1>5. attempts \in SUBSET Rows /\ admitted \in [Keys -> SUBSET [event : Calls, at : Times]]
  BY DEF AccessInit
<1>6. \A k \in Keys : ~Exists(k)
  BY DEF AccessInit, Exists, NoKey
<1>7. \A q \in Calls : calls[q].step = "new"
  BY DEF AccessInit, NoCall
<1> QED
  BY <1>2, <1>3, <1>4, <1>5, <1>6, <1>7 DEF AccessTypeOK

\* Types of what the steps put into keys and calls.
LEMMA AccessTypeNext == ASSUME AccessTypeOK, AccessStep PROVE AccessTypeOK'
<1> USE DEF AccessTypeOK
<1>1. ASSUME NEW k \in Keys, NEW o \in Operators, NEW scopes \in Grants, CountKeys(k, o, scopes)
      PROVE  AccessTypeOK'
  <2>1. scopes \in SUBSET Scopes
    BY KeysAssumption
  <2>2. [step |-> "counted", operator |-> o, scopes |-> scopes,
         room |-> Cardinality(ActiveKeys(o)) < MaxActiveKeys] \in KeyLocals
    BY <2>1 DEF KeyLocals
  <2> QED BY <1>1, <2>2 DEF CountKeys, people, log, Exists
<1>2. ASSUME NEW k \in Keys, CommitKey(k) PROVE AccessTypeOK'
  <2>1. NoKey \in KeyLocals /\ [keys[k] EXCEPT !.step = "active"] \in KeyLocals
    BY DEF KeyLocals, NoKey
  <2>2. [keys[k] EXCEPT !.step = "active"].operator = keys[k].operator
    BY DEF KeyLocals
  <2> QED BY <1>2, <2>1, <2>2 DEF CommitKey, people, log, Exists, NoKey
<1>3. ASSUME NEW k \in Keys, RevokeKey(k) PROVE AccessTypeOK'
  <2>1. keys' \in [Keys -> KeyLocals]
    BY <1>3 DEF RevokeKey, KeyLocals
  <2> QED BY <1>3, <2>1 DEF RevokeKey, people, log, Exists, KeyLocals
<1>4. ASSUME NEW o \in Operators, RequestDeletion(o) PROVE AccessTypeOK'
  <2>1. keys' \in [Keys -> KeyLocals]
    BY <1>4 DEF RequestDeletion, KeyLocals
  <2> QED BY <1>4, <2>1 DEF RequestDeletion, ActiveKeys, people, log, Exists, KeyLocals
<1>5. ASSUME NEW o \in Operators, SignIn(o) \/ SignOut(o) PROVE AccessTypeOK'
  BY <1>5 DEF SignIn, SignOut, people, log, Exists
<1>6. ASSUME NEW q \in Calls, NEW k \in Keys, NEW scope \in Scopes, ReadKey(q, k, scope)
      PROVE  AccessTypeOK'
  <2>1. keys[k].operator \in Operators \cup {None} /\ 0 \in Times
    BY LimitAssumption DEF KeyLocals, Times
  <2>2. [step |-> "read", key |-> k, operator |-> keys[k].operator, scope |-> scope, at |-> 0]
          \in CallLocals
    BY <2>1 DEF CallLocals
  <2> QED BY <1>6, <2>2 DEF ReadKey, people, log, Exists
<1>7. ASSUME NEW q \in Calls, CountRequests(q) PROVE AccessTypeOK'
  <2>1. NoCall \in CallLocals
    BY LimitAssumption DEF NoCall, CallLocals, Times
  <2>2. \A at \in Times : [calls[q] EXCEPT !.step = "counted", !.at = at] \in CallLocals
    BY DEF CallLocals
  <2>3. calls' \in [Calls -> CallLocals]
    BY <1>7, <2>1, <2>2 DEF CountRequests, Readings
  <2> QED BY <1>7, <2>3 DEF CountRequests, people, log, Exists, CallLocals, NoCall
<1>8. ASSUME NEW q \in Calls, CommitRequest(q) PROVE AccessTypeOK'
  <2>1. NoCall \in CallLocals /\ 0 \in Times
    BY LimitAssumption DEF NoCall, CallLocals, Times
  <2>2. calls' \in [Calls -> CallLocals]
    BY <1>8, <2>1 DEF CommitRequest, CallLocals
  <2>3. calls[q].key \in Keys /\ calls[q].at \in Times
    BY <1>8 DEF CommitRequest, CallLocals
  <2> DEFINE row == [key |-> calls[q].key, call |-> q, at |-> calls[q].at]
  <2>4. attempts' \in SUBSET Rows /\ IsFiniteSet(attempts')
    <3>1. row \in Rows
      BY <2>3 DEF Rows
    <3>2. attempts' = attempts \cup {row} \/ attempts' = attempts
      BY <1>8 DEF CommitRequest, log
    <3>3. IsFiniteSet(attempts \cup {row})
      <4> HIDE DEF row
      <4>1. IsFiniteSet(attempts)
        OBVIOUS
      <4> QED BY <4>1, FS_AddElement
    <3> QED BY <3>1, <3>2, <3>3
  <2>5. admitted' \in [Keys -> SUBSET [event : Calls, at : Times]]
    BY <1>8, <2>3 DEF CommitRequest, log
  <2> QED BY <1>8, <2>2, <2>4, <2>5 DEF CommitRequest, people, Exists, CallLocals, NoCall
<1>9. ASSUME NEW q \in Calls, AbortCall(q) PROVE AccessTypeOK'
  <2>1. NoCall \in CallLocals
    BY LimitAssumption DEF NoCall, CallLocals, Times
  <2> QED BY <1>9, <2>1 DEF AbortCall, people, log, Exists, NoCall
<1>10. ASSUME Prune PROVE AccessTypeOK'
  <2>1. attempts' \subseteq attempts /\ IsFiniteSet(attempts')
    BY <1>10, FS_Subset DEF Prune, Kept
  <2> QED BY <1>10, <2>1 DEF Prune, people, Exists
<1>11. ASSUME Tick PROVE AccessTypeOK'
  <2>1. clock' \in Times
    BY <1>11, LimitAssumption DEF Tick, Times
  <2> QED BY <1>11, <2>1 DEF Tick, people, log, Exists
<1>12. ASSUME NEW q \in Calls, Works(q) PROVE AccessTypeOK'
  <2>1. [NoCall EXCEPT !.step = "failed"] \in CallLocals
    BY LimitAssumption DEF NoCall, CallLocals, Times
  <2>2. calls' \in [Calls -> CallLocals]
    BY <1>12, <2>1 DEF Works, CallLocals
  <2> QED BY <1>12, <2>2 DEF Works, people, log, Exists, CallLocals, NoCall
<1>13. ASSUME NEW o \in Operators, EraseAccess(o) PROVE AccessTypeOK'
  <2>1. [NoKey EXCEPT !.step = "erased"] \in KeyLocals
    BY DEF NoKey, KeyLocals
  <2>2. attempts' \subseteq attempts /\ IsFiniteSet(attempts')
    BY <1>13, FS_Subset DEF EraseAccess
  <2> QED BY <1>13, <2>1, <2>2 DEF EraseAccess, Exists, NoKey
<1>14. CASE UNCHANGED accessVars
  BY <1>14 DEF accessVars, Exists
<1> QED
  BY <1>1, <1>2, <1>3, <1>4, <1>5, <1>6, <1>7, <1>8, <1>9, <1>10, <1>11, <1>12, <1>13, <1>14
  DEF AccessStep, AccessNext
-----------------------------------------------------------------------------
(* Keys *)

\* An operator's active keys can be counted.
LEMMA ActiveKeysFinite ==
  ASSUME NEW o
  PROVE  IsFiniteSet(ActiveKeys(o)) /\ Cardinality(ActiveKeys(o)) \in Nat
<1>1. ActiveKeys(o) \subseteq Keys
  BY DEF ActiveKeys
<1>2. IsFiniteSet(ActiveKeys(o))
  BY <1>1, KeysAssumption, FS_Subset
<1> QED BY <1>2, FS_CardinalityType

\* Keys that are only taken away, or not counted any more, leave the bound as it is.
LEMMA FewerKeys ==
  ASSUME KeysInv,
         \A o : ActiveKeys(o)' \subseteq ActiveKeys(o),
         \A k \in Keys : keys'[k].step = "counted" => keys'[k] = keys[k]
  PROVE  KeysInv'
<1>1. \A o : Cardinality(ActiveKeys(o)') <= Cardinality(ActiveKeys(o))
             /\ Cardinality(ActiveKeys(o)) \in Nat /\ Cardinality(ActiveKeys(o)') \in Nat
  <2> SUFFICES ASSUME NEW o
               PROVE  /\ Cardinality(ActiveKeys(o)') <= Cardinality(ActiveKeys(o))
                      /\ Cardinality(ActiveKeys(o)) \in Nat /\ Cardinality(ActiveKeys(o)') \in Nat
    OBVIOUS
  <2>1. IsFiniteSet(ActiveKeys(o)) /\ Cardinality(ActiveKeys(o)) \in Nat
    BY ActiveKeysFinite
  <2>2. ActiveKeys(o)' \subseteq ActiveKeys(o)
    OBVIOUS
  <2>3. IsFiniteSet(ActiveKeys(o)')
    BY <2>1, <2>2, FS_Subset
  <2> QED BY <2>1, <2>2, <2>3, FS_Subset, FS_CardinalityType
<1>2. MaxActiveKeys \in Nat
  BY LimitAssumption
<1>3. KeyLocks'
  BY DEF KeysInv, KeyLocks
<1>4. RoomIsLeft'
  BY <1>1, <1>2 DEF KeysInv, RoomIsLeft
<1>5. KeysAreBounded'
  BY <1>1, <1>2 DEF KeysInv, KeysAreBounded
<1> QED BY <1>3, <1>4, <1>5 DEF KeysInv

\* Every step keeps the bound: a creation that counted holds the lock, so that no other
\* creation of its operator commits before it.
LEMMA KeysNext == ASSUME AccessTypeOK, KeysInv, AccessStep PROVE KeysInv'
<1>0. keys \in [Keys -> KeyLocals]
  BY DEF AccessTypeOK
<1>1. ASSUME NEW k \in Keys, NEW o \in Operators, NEW scopes \in Grants, CountKeys(k, o, scopes)
      PROVE  KeysInv'
  <2> DEFINE room == Cardinality(ActiveKeys(o)) < MaxActiveKeys
  <2>1. /\ keys[k].step = "new"
        /\ keys' = [keys EXCEPT ![k] =
             [step |-> "counted", operator |-> o, scopes |-> scopes, room |-> room]]
        /\ \A l \in Keys : keys[l].step = "counted" => keys[l].operator # o
    BY <1>1 DEF CountKeys, KeyLockFree
  <2> HIDE DEF room
  <2>2. keys'[k].step = "counted" /\ keys'[k].operator = o /\ keys'[k].room = room
    BY <1>0, <2>1
  <2>3. \A l \in Keys \ {k} : keys'[l] = keys[l]
    BY <1>0, <2>1
  <2>4. ASSUME NEW p PROVE ActiveKeys(p)' = ActiveKeys(p)
    BY <2>1, <2>2, <2>3 DEF ActiveKeys
  <2>5. KeyLocks'
    BY <2>1, <2>2, <2>3 DEF KeysInv, KeyLocks
  <2>6. RoomIsLeft'
    <3> SUFFICES ASSUME NEW l \in Keys, keys'[l].step = "counted", keys'[l].room
                 PROVE  Cardinality(ActiveKeys(keys[l].operator)') < MaxActiveKeys
      BY <2>4 DEF RoomIsLeft
    <3> QED BY <2>2, <2>3, <2>4 DEF KeysInv, RoomIsLeft, room
  <2>7. KeysAreBounded'
    BY <2>4 DEF KeysInv, KeysAreBounded
  <2> QED BY <2>5, <2>6, <2>7 DEF KeysInv
<1>2. ASSUME NEW k \in Keys, CommitKey(k) PROVE KeysInv'
  <2>1. keys[k].step = "counted"
    BY <1>2 DEF CommitKey
  <2>2. CASE keys[k].room /\ keys[k].operator \in operators
    <3>0. PICK o : o = keys[k].operator
      OBVIOUS
    <3>1. keys' = [keys EXCEPT ![k] = [@ EXCEPT !.step = "active"]]
      BY <1>2, <2>2 DEF CommitKey
    <3>2. keys'[k].step = "active" /\ keys'[k].operator = o
      BY <1>0, <3>0, <3>1 DEF KeyLocals
    <3>3. \A l \in Keys \ {k} : keys'[l] = keys[l]
      BY <1>0, <3>1
    <3>4. ActiveKeys(o)' = ActiveKeys(o) \cup {k}
      BY <2>1, <3>0, <3>2, <3>3 DEF ActiveKeys
    <3>5. ASSUME NEW p, p # o PROVE ActiveKeys(p)' = ActiveKeys(p)
      BY <2>1, <3>0, <3>2, <3>3, <3>5 DEF ActiveKeys
    <3>6. \A l \in Keys : keys'[l].step = "counted" =>
            keys'[l] = keys[l] /\ keys[l].operator # o
      BY <2>1, <3>0, <3>2, <3>3 DEF KeysInv, KeyLocks
    <3>7. Cardinality(ActiveKeys(o)) < MaxActiveKeys
      BY <2>1, <2>2, <3>0 DEF KeysInv, RoomIsLeft
    <3>8. Cardinality(ActiveKeys(o)') <= MaxActiveKeys
      <4>1. IsFiniteSet(ActiveKeys(o)) /\ Cardinality(ActiveKeys(o)) \in Nat
        BY ActiveKeysFinite
      <4>2. Cardinality(ActiveKeys(o) \cup {k}) \in
              {Cardinality(ActiveKeys(o)), Cardinality(ActiveKeys(o)) + 1}
        BY <4>1, FS_AddElement
      <4> QED BY <3>4, <3>7, <4>1, <4>2, LimitAssumption
    <3>9. KeyLocks'
      BY <3>6 DEF KeysInv, KeyLocks
    <3>10. RoomIsLeft'
      BY <3>5, <3>6 DEF KeysInv, RoomIsLeft
    <3>11. KeysAreBounded'
      BY <3>5, <3>8 DEF KeysInv, KeysAreBounded
    <3> QED BY <3>9, <3>10, <3>11 DEF KeysInv
  <2>3. CASE ~(keys[k].room /\ keys[k].operator \in operators)
    <3>1. keys' = [keys EXCEPT ![k] = NoKey]
      BY <1>2, <2>3 DEF CommitKey
    <3>2. keys'[k].step = "new" /\ \A l \in Keys \ {k} : keys'[l] = keys[l]
      BY <1>0, <3>1 DEF NoKey
    <3>3. \A o : ActiveKeys(o)' \subseteq ActiveKeys(o)
      BY <3>2 DEF ActiveKeys
    <3> QED BY <3>2, <3>3, FewerKeys
  <2> QED BY <2>2, <2>3
<1>3. ASSUME NEW k \in Keys, RevokeKey(k) PROVE KeysInv'
  <2>1. keys'[k].step = "revoked" /\ \A l \in Keys \ {k} : keys'[l] = keys[l]
    BY <1>0, <1>3 DEF RevokeKey, KeyLocals
  <2>2. \A o : ActiveKeys(o)' \subseteq ActiveKeys(o)
    BY <2>1 DEF ActiveKeys
  <2> QED BY <2>1, <2>2, FewerKeys
<1>4. ASSUME NEW o \in Operators, RequestDeletion(o) PROVE KeysInv'
  <2>1. \A k \in Keys : keys'[k] = keys[k] \/ keys'[k].step = "revoked"
    BY <1>0, <1>4 DEF RequestDeletion, KeyLocals
  <2>2. \A p : ActiveKeys(p)' \subseteq ActiveKeys(p)
    BY <2>1 DEF ActiveKeys
  <2> QED BY <2>1, <2>2, FewerKeys
<1>5. ASSUME NEW o \in Operators, EraseAccess(o) PROVE KeysInv'
  <2>1. \A k \in Keys : keys'[k] = keys[k] \/ keys'[k].step = "erased"
    BY <1>0, <1>5 DEF EraseAccess, NoKey
  <2>2. \A p : ActiveKeys(p)' \subseteq ActiveKeys(p)
    BY <2>1 DEF ActiveKeys
  <2> QED BY <2>1, <2>2, FewerKeys
<1>6. CASE UNCHANGED keys
  <2>1. \A p : ActiveKeys(p)' \subseteq ActiveKeys(p)
    BY <1>6 DEF ActiveKeys
  <2> QED BY <1>6, <2>1, FewerKeys
<1> QED
  BY <1>1, <1>2, <1>3, <1>4, <1>5, <1>6
  DEF AccessStep, AccessNext, SignIn, SignOut, ReadKey, CountRequests, CommitRequest, AbortCall,
      Prune, Tick, Works, accessVars
-----------------------------------------------------------------------------
(* Calls *)

\* What a call counts in the log is no less than what was let through since: the rows that
\* were pruned are too old for the oldest reading of the clock.
LEMMA TheLogSuffices ==
  ASSUME AccessTypeOK, LogIsKept, NEW k \in Keys, Exists(k), NEW at \in Readings
  PROVE  /\ Cardinality(Since(k, at - Minute)) \in Nat
         /\ Cardinality(Recent(k, at)) \in Nat
         /\ Cardinality(Since(k, at - Minute)) <= Cardinality(Recent(k, at))
<1> DEFINE S == Since(k, at - Minute)
           R == Recent(k, at)
           f == [x \in S |-> [key |-> k, call |-> x.event, at |-> x.at]]
<1>1. /\ IsFiniteSet(R)
  <2>1. R \subseteq attempts /\ IsFiniteSet(attempts)
    BY DEF Recent, AccessTypeOK
  <2> QED BY <2>1, FS_Subset
<1>2. S \subseteq [event : Calls, at : Times]
  BY DEF Since, AccessTypeOK
<1>3. /\ clock \in Nat /\ at \in Nat /\ clock - Lag <= at /\ Minute \in Nat /\ Lag \in Nat
      /\ Times \subseteq Nat
  BY LimitAssumption DEF AccessTypeOK, Readings, Times
<1>4. ASSUME NEW x \in S PROVE f[x] \in R
  <2>1. x \in admitted[k] /\ x.at > at - Minute /\ x.at \in Nat
    BY <1>2, <1>3 DEF Since
  <2>2. ~(x.at + Minute <= clock - Lag)
    BY <1>3, <2>1
  <2>3. [key |-> k, call |-> x.event, at |-> x.at] \in attempts
    BY <2>1, <2>2 DEF LogIsKept
  <2> QED BY <2>1, <2>3 DEF Recent
<1>5. \A x, y \in S : f[x] = f[y] => x = y
  <2> SUFFICES ASSUME NEW x \in S, NEW y \in S, f[x] = f[y] PROVE x = y
    OBVIOUS
  <2>1. x.event = y.event /\ x.at = y.at
    OBVIOUS
  <2> QED BY <1>2, <2>1
<1> HIDE DEF S, R
<1>6. f \in Injection(S, R)
  BY <1>4, <1>5, Zenon DEF Injection, IsInjective
<1>7. IsFiniteSet(S) /\ Cardinality(S) <= Cardinality(R)
  BY <1>1, <1>6, FS_Injection
<1> QED BY <1>1, <1>7, FS_CardinalityType DEF S, R

\* Keys, the log and the clock move while calls wait: nothing the calls rely on is lost.
LEMMA CallsWait ==
  ASSUME AccessTypeOK, CallsInv, UNCHANGED <<admitted, calls>>,
         \A k \in Keys : keys[k].step \notin {"new", "counted"} =>
           /\ keys'[k].step \notin {"new", "counted"}
           /\ Exists(k)' => /\ Exists(k) /\ keys'[k].operator = keys[k].operator
                            /\ keys'[k].scopes = keys[k].scopes,
         \A k \in Keys : Exists(k) /\ Exists(k)' => \A x \in admitted[k] :
           \/ [key |-> k, call |-> x.event, at |-> x.at] \in attempts'
           \/ x.at + Minute <= clock' - Lag
  PROVE  CallsInv'
<1>1. RateLocks'
  BY DEF CallsInv, RateLocks
<1>2. CountsHold'
  <2> SUFFICES ASSUME NEW q \in Calls, calls[q].step = "counted", Exists(calls[q].key)'
               PROVE  Cardinality(Since(calls[q].key, calls[q].at - Minute)') < RequestsPerMinute
    BY DEF CountsHold
  <2>1. Exists(calls[q].key)
    BY DEF CallsInv, KeysOfCalls, AccessTypeOK
  <2>2. Since(calls[q].key, calls[q].at - Minute)' = Since(calls[q].key, calls[q].at - Minute)
    BY DEF Since
  <2> QED BY <2>1, <2>2 DEF CallsInv, CountsHold
<1>3. LogIsKept'
  <2> SUFFICES ASSUME NEW k \in Keys, Exists(k)', NEW x \in admitted[k]
               PROVE  \/ [key |-> k, call |-> x.event, at |-> x.at] \in attempts'
                      \/ x.at + Minute <= clock' - Lag
    BY DEF LogIsKept
  <2>1. CASE keys[k].step \in {"new", "counted"}
    BY <2>1 DEF CallsInv, NothingYet
  <2>2. CASE keys[k].step \notin {"new", "counted"}
    BY <2>2
  <2> QED BY <2>1, <2>2
<1>4. NothingYet'
  BY DEF CallsInv, NothingYet
<1>5. AdmittedCalls'
  BY DEF CallsInv, AdmittedCalls
<1>6. KeysOfCalls'
  <2> SUFFICES ASSUME NEW q \in Calls, calls[q].step \notin {"new", "failed"}
               PROVE  LET k == calls[q].key
                      IN  /\ keys'[k].step \notin {"new", "counted"}
                          /\ Exists(k)' => /\ keys'[k].operator = calls[q].operator
                                           /\ calls[q].scope \in keys'[k].scopes
    BY DEF KeysOfCalls
  <2>1. calls[q].key \in Keys
    BY DEF AccessTypeOK
  <2> QED BY <2>1 DEF CallsInv, KeysOfCalls
<1> QED BY <1>1, <1>2, <1>3, <1>4, <1>5, <1>6 DEF CallsInv

\* One call goes on, and nothing is let through.
LEMMA CallGoesOn ==
  ASSUME AccessTypeOK, CallsInv, UNCHANGED <<clock, keys, log>>,
         NEW q \in Calls,
         \A r \in Calls \ {q} : calls'[r] = calls[r],
         calls[q].step \in Through \cup {"failed"} => calls'[q].step \in Through \cup {"failed"},
         calls'[q].step \in Through => calls[q].step \in Through,
         calls'[q].step \in Through => calls'[q].key = calls[q].key,
         calls'[q].step \notin {"new", "failed"} =>
           LET k == calls'[q].key
           IN /\ keys[k].step \notin {"new", "counted"}
              /\ Exists(k) => /\ keys[k].operator = calls'[q].operator
                              /\ calls'[q].scope \in keys[k].scopes,
         calls'[q].step = "counted" =>
           /\ RateLockFree(calls'[q].key)
           /\ Exists(calls'[q].key) =>
                Cardinality(Since(calls'[q].key, calls'[q].at - Minute)) < RequestsPerMinute
  PROVE  CallsInv'
<1>1. RateLocks'
  BY DEF CallsInv, RateLocks, RateLockFree
<1>2. CountsHold'
  <2> SUFFICES ASSUME NEW r \in Calls, calls'[r].step = "counted", Exists(calls'[r].key)
               PROVE  Cardinality(Since(calls'[r].key, calls'[r].at - Minute)) < RequestsPerMinute
    BY DEF CountsHold, Exists, Since, log
  <2> QED BY DEF CallsInv, CountsHold
<1>3. LogIsKept' /\ NothingYet'
  BY DEF CallsInv, LogIsKept, NothingYet, log, Exists
<1>4. AdmittedCalls'
  <2>1. ASSUME NEW k \in Keys, NEW x \in admitted[k]
        PROVE  calls'[x.event].step \in Through \cup {"failed"}
    <3>1. x.event \in Calls /\ calls[x.event].step \in Through \cup {"failed"}
      BY DEF CallsInv, AdmittedCalls, AccessTypeOK
    <3> QED BY <3>1
  <2>2. ASSUME NEW r \in Calls, calls'[r].step \in Through
        PROVE  \E x \in admitted[calls'[r].key] : x.event = r
    BY <2>2 DEF CallsInv, AdmittedCalls
  <2> QED BY <2>1, <2>2 DEF AdmittedCalls, log
<1>5. KeysOfCalls'
  BY DEF CallsInv, KeysOfCalls, Exists
<1> QED BY <1>1, <1>2, <1>3, <1>4, <1>5 DEF CallsInv

\* A call is let through: it was the only one of its key that had counted.
LEMMA CallIsLetThrough ==
  ASSUME AccessTypeOK, CallsInv, NEW q \in Calls, CommitRequest(q), Exists(calls[q].key)
  PROVE  CallsInv'
<1>1. PICK k \in Keys : k = calls[q].key
  BY DEF CommitRequest, AccessTypeOK
<1>2. PICK at \in Times : at = calls[q].at
  BY DEF AccessTypeOK, CallLocals
<1>3. /\ calls[q].step = "counted" /\ Exists(k)
      /\ attempts' = attempts \cup {[key |-> k, call |-> q, at |-> at]}
      /\ admitted' = [admitted EXCEPT ![k] = @ \cup {[event |-> q, at |-> at]}]
      /\ UNCHANGED <<clock, people, keys>>
  BY <1>1, <1>2 DEF CommitRequest
<1>4. /\ calls'[q].step = "authorised" /\ calls'[q].key = k
      /\ calls'[q].operator = calls[q].operator /\ calls'[q].scope = calls[q].scope
      /\ \A r \in Calls \ {q} : calls'[r] = calls[r]
  BY <1>1 DEF CommitRequest, AccessTypeOK, CallLocals
<1>5. /\ admitted'[k] = admitted[k] \cup {[event |-> q, at |-> at]}
      /\ \A l \in Keys \ {k} : admitted'[l] = admitted[l]
  BY <1>3 DEF AccessTypeOK
<1>6. RateLocks'
  BY <1>4 DEF CallsInv, RateLocks
<1>7. CountsHold'
  <2> SUFFICES ASSUME NEW r \in Calls, calls'[r].step = "counted", Exists(calls'[r].key)
               PROVE  Cardinality(Since(calls[r].key, calls[r].at - Minute)') < RequestsPerMinute
    BY <1>3 DEF CountsHold, Exists
  <2>1. r # q /\ calls'[r] = calls[r]
    BY <1>4
  <2>2. calls[r].key \in Keys /\ calls[r].key # k
    BY <1>1, <1>3, <2>1 DEF CallsInv, RateLocks, AccessTypeOK
  <2>3. Since(calls[r].key, calls[r].at - Minute)' = Since(calls[r].key, calls[r].at - Minute)
    BY <1>5, <2>1, <2>2 DEF Since
  <2> QED BY <2>1, <2>3 DEF CallsInv, CountsHold
<1>8. LogIsKept'
  BY <1>3, <1>5 DEF CallsInv, LogIsKept, Exists
<1>9. NothingYet'
  BY <1>3, <1>5 DEF CallsInv, NothingYet, Exists
<1>10. AdmittedCalls'
  <2>1. ASSUME NEW l \in Keys, NEW x \in admitted'[l]
        PROVE  calls'[x.event].step \in Through \cup {"failed"}
    <3>1. CASE x \in admitted[l]
      <4>1. x.event \in Calls /\ calls[x.event].step \in Through \cup {"failed"}
        BY <3>1 DEF CallsInv, AdmittedCalls, AccessTypeOK
      <4> QED BY <1>4, <4>1 DEF Through
    <3>2. CASE x = [event |-> q, at |-> at]
      BY <1>4, <3>2 DEF Through
    <3> QED BY <1>5, <3>1, <3>2
  <2>2. ASSUME NEW r \in Calls, calls'[r].step \in Through
        PROVE  \E x \in admitted'[calls'[r].key] : x.event = r
    <3>1. CASE r = q
      <4>1. [event |-> q, at |-> at] \in admitted'[k]
        BY <1>5
      <4> QED BY <1>4, <3>1, <4>1
    <3>2. CASE r # q
      <4>1. calls[r].key \in Keys /\ \E x \in admitted[calls[r].key] : x.event = r
        BY <1>4, <2>2, <3>2 DEF CallsInv, AdmittedCalls, AccessTypeOK, Through
      <4> QED BY <1>4, <1>5, <3>2, <4>1
    <3> QED BY <3>1, <3>2
  <2> QED BY <2>1, <2>2 DEF AdmittedCalls
<1>11. KeysOfCalls'
  BY <1>1, <1>3, <1>4 DEF CallsInv, KeysOfCalls, Exists
<1> QED BY <1>6, <1>7, <1>8, <1>9, <1>10, <1>11 DEF CallsInv

\* What every step keeps about calls.
LEMMA CallsNext == ASSUME AccessTypeOK, CallsInv, AccessStep PROVE CallsInv'
<1>0. keys \in [Keys -> KeyLocals] /\ calls \in [Calls -> CallLocals]
  BY DEF AccessTypeOK
<1>1. ASSUME NEW k \in Keys, NEW o \in Operators, NEW scopes \in Grants, CountKeys(k, o, scopes)
      PROVE  CallsInv'
  <2>1. /\ keys[k].step = "new" /\ \A l \in Keys \ {k} : keys'[l] = keys[l]
        /\ keys'[k].step = "counted"
    BY <1>0, <1>1 DEF CountKeys
  <2>2. UNCHANGED <<clock, attempts, admitted, calls>>
    BY <1>1 DEF CountKeys, log
  <2>3. LogIsKept
    BY DEF CallsInv
  <2> QED BY <2>1, <2>2, <2>3, CallsWait DEF Exists, LogIsKept
<1>2. ASSUME NEW k \in Keys, CommitKey(k) PROVE CallsInv'
  <2>1. keys[k].step = "counted" /\ \A l \in Keys \ {k} : keys'[l] = keys[l]
    BY <1>0, <1>2 DEF CommitKey
  <2>2. UNCHANGED <<clock, attempts, admitted, calls>>
    BY <1>2 DEF CommitKey, log
  <2>3. LogIsKept
    BY DEF CallsInv
  <2> QED BY <2>1, <2>2, <2>3, CallsWait DEF Exists, LogIsKept
<1>3. ASSUME NEW k \in Keys, RevokeKey(k) PROVE CallsInv'
  <2>1. /\ keys[k].step = "active" /\ \A l \in Keys \ {k} : keys'[l] = keys[l]
        /\ keys'[k].step = "revoked"
        /\ keys'[k].operator = keys[k].operator /\ keys'[k].scopes = keys[k].scopes
    BY <1>0, <1>3 DEF RevokeKey, KeyLocals
  <2>2. UNCHANGED <<clock, attempts, admitted, calls>>
    BY <1>3 DEF RevokeKey, log
  <2>3. LogIsKept
    BY DEF CallsInv
  <2> QED BY <2>1, <2>2, <2>3, CallsWait DEF Exists, LogIsKept
<1>4. ASSUME NEW o \in Operators, RequestDeletion(o) PROVE CallsInv'
  <2>1. \A k \in Keys :
          \/ keys'[k] = keys[k]
          \/ /\ keys[k].step = "active" /\ keys'[k].step = "revoked"
             /\ keys'[k].operator = keys[k].operator /\ keys'[k].scopes = keys[k].scopes
    BY <1>0, <1>4 DEF RequestDeletion, ActiveKeys, KeyLocals
  <2>2. UNCHANGED <<clock, attempts, admitted, calls>>
    BY <1>4 DEF RequestDeletion, log
  <2>3. LogIsKept
    BY DEF CallsInv
  <2> QED BY <2>1, <2>2, <2>3, CallsWait DEF Exists, LogIsKept
<1>5. ASSUME NEW o \in Operators, EraseAccess(o) PROVE CallsInv'
  <2>1. \A k \in Keys :
          \/ keys'[k] = keys[k] /\ (Exists(k) => keys[k].operator # o)
          \/ Exists(k) /\ keys'[k].step = "erased"
    BY <1>0, <1>5 DEF EraseAccess, NoKey
  <2>2. UNCHANGED <<clock, admitted, calls>> /\ attempts' = {a \in attempts : keys[a.key].operator # o}
    BY <1>5 DEF EraseAccess
  <2>3. ASSUME NEW k \in Keys, Exists(k), Exists(k)', NEW x \in admitted[k]
        PROVE  \/ [key |-> k, call |-> x.event, at |-> x.at] \in attempts'
               \/ x.at + Minute <= clock' - Lag
    <3>1. keys[k].operator # o
      BY <2>1, <2>3 DEF Exists
    <3> QED BY <2>2, <2>3, <3>1 DEF CallsInv, LogIsKept
  <2> QED BY <2>1, <2>2, <2>3, CallsWait DEF Exists
<1>6. CASE Prune
  <2>1. UNCHANGED <<clock, keys, admitted, calls>>
    BY <1>6 DEF Prune, people
  <2>2. PICK t \in Readings : attempts' = Kept(t)
    BY <1>6 DEF Prune
  <2>3. ASSUME NEW k \in Keys, Exists(k), NEW x \in admitted[k]
        PROVE  \/ [key |-> k, call |-> x.event, at |-> x.at] \in attempts'
               \/ x.at + Minute <= clock' - Lag
    <3>1. x.at \in Nat /\ t \in Nat /\ t <= clock /\ clock \in Nat
      BY LimitAssumption DEF AccessTypeOK, Readings, Times
    <3>2. CASE x.at > t - Retention
      BY <2>1, <2>2, <2>3, <3>2 DEF Kept, CallsInv, LogIsKept
    <3>3. CASE ~(x.at > t - Retention)
      BY <2>1, <3>1, <3>3, LimitAssumption, RetentionAssumption
    <3> QED BY <3>2, <3>3
  <2> QED BY <2>1, <2>3, CallsWait DEF Exists
<1>7. CASE Tick
  <2>1. UNCHANGED <<keys, attempts, admitted, calls>> /\ clock' = clock + 1
    BY <1>7 DEF Tick, log
  <2>2. ASSUME NEW k \in Keys, Exists(k), NEW x \in admitted[k]
        PROVE  \/ [key |-> k, call |-> x.event, at |-> x.at] \in attempts'
               \/ x.at + Minute <= clock' - Lag
    <3>1. x.at \in Nat /\ clock \in Nat
      BY LimitAssumption DEF AccessTypeOK, Times
    <3> QED BY <2>1, <2>2, <3>1, LimitAssumption DEF CallsInv, LogIsKept
  <2> QED BY <2>1, <2>2, CallsWait DEF Exists
<1>8. ASSUME NEW q \in Calls, NEW k \in Keys, NEW scope \in Scopes, ReadKey(q, k, scope)
      PROVE  CallsInv'
  <2>1. /\ UNCHANGED <<clock, keys, log>> /\ calls[q].step = "new"
        /\ keys[k].step = "active" /\ scope \in keys[k].scopes
    BY <1>8 DEF ReadKey
  <2>2. /\ calls'[q].step = "read" /\ calls'[q].key = k /\ calls'[q].scope = scope
        /\ calls'[q].operator = keys[k].operator
        /\ \A r \in Calls \ {q} : calls'[r] = calls[r]
    BY <1>0, <1>8 DEF ReadKey
  <2> QED BY <2>1, <2>2, CallGoesOn DEF Through
<1>9. ASSUME NEW q \in Calls, CountRequests(q) PROVE CallsInv'
  <2>1. UNCHANGED <<clock, keys, log>> /\ calls[q].step = "read" /\ RateLockFree(calls[q].key)
    BY <1>9 DEF CountRequests
  <2>2. \A r \in Calls \ {q} : calls'[r] = calls[r]
    BY <1>0, <1>9 DEF CountRequests
  <2>3. PICK at \in Readings :
          calls' = [calls EXCEPT ![q] =
            IF Cardinality(Recent(calls[q].key, at)) < RequestsPerMinute
            THEN [@ EXCEPT !.step = "counted", !.at = at] ELSE NoCall]
    BY <1>9 DEF CountRequests
  <2>4. CASE Cardinality(Recent(calls[q].key, at)) < RequestsPerMinute
    <3>1. /\ calls'[q].step = "counted" /\ calls'[q].at = at /\ calls'[q].key = calls[q].key
          /\ calls'[q].operator = calls[q].operator /\ calls'[q].scope = calls[q].scope
      BY <1>0, <2>3, <2>4 DEF CallLocals
    <3>2. calls[q].key \in Keys
      BY <2>1 DEF AccessTypeOK
    <3>3. Exists(calls[q].key) =>
            Cardinality(Since(calls[q].key, at - Minute)) < RequestsPerMinute
      BY <2>4, <3>2, TheLogSuffices, LimitAssumption DEF CallsInv
    <3>4. LET k == calls[q].key
          IN /\ keys[k].step \notin {"new", "counted"}
             /\ Exists(k) => keys[k].operator = calls[q].operator /\ calls[q].scope \in keys[k].scopes
      BY <2>1 DEF CallsInv, KeysOfCalls
    <3> QED BY <2>1, <2>2, <3>1, <3>3, <3>4, CallGoesOn DEF Through
  <2>5. CASE ~(Cardinality(Recent(calls[q].key, at)) < RequestsPerMinute)
    <3>1. calls'[q].step = "new"
      BY <1>0, <2>3, <2>5 DEF NoCall
    <3> QED BY <2>1, <2>2, <3>1, CallGoesOn DEF Through
  <2> QED BY <2>4, <2>5
<1>10. ASSUME NEW q \in Calls, CommitRequest(q) PROVE CallsInv'
  <2>1. CASE ~Exists(calls[q].key)
    <3>1. /\ UNCHANGED <<clock, keys, log>> /\ calls[q].step = "counted"
          /\ calls'[q].step = "new" /\ \A r \in Calls \ {q} : calls'[r] = calls[r]
      BY <1>0, <1>10, <2>1 DEF CommitRequest, NoCall
    <3> QED BY <3>1, CallGoesOn DEF Through
  <2> QED BY <1>10, <2>1, CallIsLetThrough
<1>11. ASSUME NEW q \in Calls, AbortCall(q) PROVE CallsInv'
  <2>1. /\ UNCHANGED <<clock, keys, log>> /\ calls[q].step \in {"read", "counted"}
        /\ calls'[q].step = "new" /\ \A r \in Calls \ {q} : calls'[r] = calls[r]
    BY <1>0, <1>11 DEF AbortCall, NoCall
  <2> QED BY <2>1, CallGoesOn DEF Through
<1>12. ASSUME NEW q \in Calls, Works(q) PROVE CallsInv'
  <2>1. UNCHANGED <<clock, keys, log>> /\ calls[q].step \in Through
    BY <1>12 DEF Works, Through
  <2>2. \A r \in Calls \ {q} : calls'[r] = calls[r]
    BY <1>0, <1>12 DEF Works
  <2>3. \/ calls'[q].step = "failed"
        \/ /\ calls'[q].step \in Through /\ calls'[q].key = calls[q].key
           /\ calls'[q].operator = calls[q].operator /\ calls'[q].scope = calls[q].scope
    BY <1>0, <1>12 DEF Works, CallLocals, Through, NoCall
  <2>4. LET k == calls[q].key
        IN /\ keys[k].step \notin {"new", "counted"}
           /\ Exists(k) => keys[k].operator = calls[q].operator /\ calls[q].scope \in keys[k].scopes
    BY <2>1 DEF CallsInv, KeysOfCalls, Through
  <2> QED BY <2>1, <2>2, <2>3, <2>4, CallGoesOn DEF Through
<1>13. CASE UNCHANGED <<clock, keys, attempts, admitted, calls>>
  <2>1. LogIsKept
    BY DEF CallsInv
  <2> QED BY <1>13, <2>1, CallsWait DEF Exists, LogIsKept
<1> QED
  BY <1>1, <1>2, <1>3, <1>4, <1>5, <1>6, <1>7, <1>8, <1>9, <1>10, <1>11, <1>12, <1>13
  DEF AccessStep, AccessNext, SignIn, SignOut, accessVars, log

\* The limits count as the calls do.
LEMMA SameCardinality == ASSUME NEW S PROVE Limits!Cardinality(S) = Cardinality(S)
  BY DEF Limits!Cardinality, Cardinality

\* Every step lets one call through within the limit of its key, or none.
LEMMA CallsKeepToLimits ==
  ASSUME AccessTypeOK, CallsInv, AccessStep
  PROVE  [Limits!Next]_admitted
<1>1. ASSUME NEW q \in Calls, CommitRequest(q), Exists(calls[q].key) PROVE [Limits!Next]_admitted
  <2>1. PICK k \in Keys : k = calls[q].key
    BY <1>1 DEF CommitRequest, AccessTypeOK
  <2>2. PICK at \in Times : at = calls[q].at
    BY DEF AccessTypeOK, CallLocals
  <2>3. admitted' = [admitted EXCEPT ![k] = @ \cup {[event |-> q, at |-> at]}]
    BY <1>1, <2>1, <2>2 DEF CommitRequest
  <2>4. \A l \in Keys : \A x \in admitted[l] : x.event # q
    BY <1>1 DEF CallsInv, AdmittedCalls, CommitRequest, Through
  <2>5. admitted' = [l \in Keys |-> admitted'[l]]
    BY <2>3 DEF AccessTypeOK
  <2>6. Cardinality(Limits!Later(k, at - Minute)) < RequestsPerMinute
    <3>1. Limits!Later(k, at - Minute) = Since(k, at - Minute)
      BY DEF Limits!Later, Since
    <3> QED BY <1>1, <2>1, <2>2, <3>1 DEF CallsInv, CountsHold, CommitRequest
  <2>7. ASSUME NEW l \in Keys
        PROVE  \/ admitted'[l] = admitted[l]
               \/ /\ admitted'[l] = admitted[l] \cup {[event |-> q, at |-> at]}
                  /\ Cardinality(Limits!Later(l, at - [s \in Keys |-> Minute][l]))
                       < [s \in Keys |-> RequestsPerMinute][l]
    BY <2>3, <2>6 DEF AccessTypeOK
  <2>8. Limits!Admit(q, at)
    BY <2>4, <2>5, <2>7, SameCardinality DEF Limits!Admit
  <2> QED BY <2>8 DEF Limits!Next
<1> QED
  BY <1>1
  DEF AccessStep, AccessNext, CountKeys, CommitKey, RevokeKey, RequestDeletion, SignIn, SignOut,
      ReadKey, CountRequests, CommitRequest, AbortCall, Prune, Tick, Works, EraseAccess, accessVars,
      log

\* Initially there is nothing to keep.
LEMMA AccessInvInit == AccessInit => KeysInv /\ CallsInv /\ Limits!Init
<1> SUFFICES ASSUME AccessInit PROVE KeysInv /\ CallsInv /\ Limits!Init
  OBVIOUS
<1>1. /\ \A k \in Keys : keys[k].step = "new" /\ admitted[k] = {}
      /\ \A q \in Calls : calls[q].step = "new"
  BY DEF AccessInit, NoKey, NoCall
<1>2. KeysAreBounded
  <2> SUFFICES ASSUME NEW o \in Operators PROVE Cardinality(ActiveKeys(o)) <= MaxActiveKeys
    BY DEF KeysAreBounded
  <2>1. ActiveKeys(o) = {}
    BY <1>1 DEF ActiveKeys
  <2> QED BY <2>1, FS_EmptySet, LimitAssumption
<1>3. KeysInv
  BY <1>1, <1>2 DEF KeysInv, KeyLocks, RoomIsLeft
<1>4. CallsInv
  BY <1>1
  DEF CallsInv, RateLocks, CountsHold, LogIsKept, NothingYet, AdmittedCalls, KeysOfCalls, Exists,
      Through
<1>5. Limits!Init
  BY DEF AccessInit, Limits!Init
<1> QED BY <1>3, <1>4, <1>5
=============================================================================

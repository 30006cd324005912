------------------------------ MODULE AgentAccess ------------------------------
(***************************************************************************)
(* Delegated agent keys and the authentication of agent calls              *)
(* (src/agent_data_oracle/agent_access.py), among deletion requests, which *)
(* revoke keys, and the pruning of the attempt log.                        *)
(*                                                                         *)
(* A transaction that counts before it inserts is two steps, with its      *)
(* advisory lock held in between.  A call that fails leaves nothing: its   *)
(* id stands for the next try.                                             *)
(***************************************************************************)
EXTENDS Integers, FiniteSets

CONSTANTS
  Operators,       \* operator ids
  Keys,            \* calls of create_key, each with the key it may create
  Scopes,          \* ALLOWED_AGENT_SCOPES
  Grants,          \* the sets of scopes that operators ask for
  Calls,           \* requests of agents to the API
  MaxActiveKeys,   \* MAX_ACTIVE_AGENT_KEYS
  RequestsPerMinute, Minute,
  Retention,       \* SECURITY_LOG_RETENTION
  Lag,             \* how old a clock reading may be when it is used
  MaxClock

None == "none"

ASSUME KeysAssumption ==
  /\ None \notin Keys \cup Operators
  /\ IsFiniteSet(Keys)
  /\ Grants \subseteq (SUBSET Scopes) \ {{}}
ASSUME LimitAssumption ==
  {MaxActiveKeys, RequestsPerMinute, Minute, Retention, Lag, MaxClock} \subseteq Nat
\* The log is kept long enough for every count that may still be made.
ASSUME RetentionAssumption == Lag + Minute <= Retention

VARIABLES
  clock,      \* the time
  operators,  \* the rows of operators
  signedIn,   \* declared operators with an active session (an old one counts as signed in anew)
  keys,       \* agent_api_keys, and the creations under way
  attempts,   \* agent_api_request_attempts
  admitted,   \* history: what was let through with each key
  calls       \* each agent call: its step and its locals

people == <<operators, signedIn>>
log == <<attempts, admitted>>
accessVars == <<clock, operators, signedIn, keys, attempts, admitted, calls>>

Times == 0..MaxClock
Readings == {t \in Times : clock - Lag <= t /\ t <= clock}
Rows == [key : Keys, call : Calls, at : Times]

NoKey == [step |-> "new", operator |-> None, scopes |-> {}, room |-> FALSE]
NoCall == [step |-> "new", key |-> None, operator |-> None, scope |-> None, at |-> 0]

ActiveKeys(o) == {k \in Keys : keys[k].step = "active" /\ keys[k].operator = o}
Exists(k) == keys[k].step \in {"active", "revoked"}

-----------------------------------------------------------------------------
(* Keys *)

\* Only a declared operator who signed in a short time ago changes keys.
MayChangeKeys(o) == o \in signedIn

\* pg_advisory_xact_lock on agent-key:<operator>
NoKeyLock(o) == TRUE   \* mutant of KeyLockFree
KeyLockFree(o) == \A k \in Keys : keys[k].step = "counted" => keys[k].operator # o

\* The transaction has the operator's lock and counts.
CountKeys(k, o, scopes) ==
  /\ keys[k].step = "new"
  /\ MayChangeKeys(o)
  /\ KeyLockFree(o)
  /\ keys' = [keys EXCEPT ![k] =
       [step |-> "counted", operator |-> o, scopes |-> scopes,
        room |-> Cardinality(ActiveKeys(o)) < MaxActiveKeys]]
  /\ UNCHANGED <<clock, people, log, calls>>

\* The foreign key refuses the row when the operator was erased meanwhile.
CommitKey(k) ==
  /\ keys[k].step = "counted"
  /\ keys' = [keys EXCEPT ![k] =
       IF keys[k].room /\ keys[k].operator \in operators
       THEN [@ EXCEPT !.step = "active"] ELSE NoKey]
  /\ UNCHANGED <<clock, people, log, calls>>

RevokeKey(k) ==
  /\ keys[k].step = "active" /\ MayChangeKeys(keys[k].operator)
  /\ keys' = [keys EXCEPT ![k].step = "revoked"]
  /\ UNCHANGED <<clock, people, log, calls>>

\* Every session and every key there is; a key still being created stays.
RequestDeletion(o) ==
  /\ o \in signedIn
  /\ signedIn' = signedIn \ {o}
  /\ keys' = [k \in Keys |->
       IF k \in ActiveKeys(o) THEN [keys[k] EXCEPT !.step = "revoked"] ELSE keys[k]]
  /\ UNCHANGED <<clock, operators, log, calls>>

SignIn(o) ==
  /\ o \in operators \ signedIn
  /\ signedIn' = signedIn \cup {o}
  /\ UNCHANGED <<clock, operators, keys, log, calls>>

\* A session is revoked or expires.
SignOut(o) ==
  /\ o \in signedIn
  /\ signedIn' = signedIn \ {o}
  /\ UNCHANGED <<clock, operators, keys, log, calls>>

-----------------------------------------------------------------------------
(* Authentication of a call *)

\* The key's row is read without a lock.
ReadKey(q, k, scope) ==
  /\ calls[q].step = "new"
  /\ keys[k].step = "active"
  /\ scope \in keys[k].scopes
  /\ calls' = [calls EXCEPT ![q] =
       [step |-> "read", key |-> k, operator |-> keys[k].operator, scope |-> scope, at |-> 0]]
  /\ UNCHANGED <<clock, people, keys, log>>

Recent(k, at) == {a \in attempts : a.key = k /\ a.at > at - Minute}

\* pg_advisory_xact_lock on agent-rate:<key>
NoRateLock(k) == TRUE   \* mutant of RateLockFree
RateLockFree(k) == \A q \in Calls : calls[q].step = "counted" => calls[q].key # k

\* The transaction has the key's lock and counts; a call above the limit is refused.
CountRequests(q) ==
  /\ calls[q].step = "read"
  /\ RateLockFree(calls[q].key)
  /\ \E at \in Readings :
       calls' = [calls EXCEPT ![q] =
         IF Cardinality(Recent(calls[q].key, at)) < RequestsPerMinute
         THEN [@ EXCEPT !.step = "counted", !.at = at] ELSE NoCall]
  /\ UNCHANGED <<clock, people, keys, log>>

\* Nobody asks again whether the key was revoked; an erased key has no row to refer to.
CommitRequest(q) ==
  LET k == calls[q].key
  IN /\ calls[q].step = "counted"
     /\ IF Exists(k)
        THEN /\ attempts' = attempts \cup {[key |-> k, call |-> q, at |-> calls[q].at]}
             /\ admitted' = [admitted EXCEPT ![k] = @ \cup {[event |-> q, at |-> calls[q].at]}]
             /\ calls' = [calls EXCEPT ![q].step = "authorised", ![q].at = 0]
        ELSE calls' = [calls EXCEPT ![q] = NoCall] /\ UNCHANGED log
     /\ UNCHANGED <<clock, people, keys>>

AbortCall(q) ==
  /\ calls[q].step \in {"read", "counted"}
  /\ calls' = [calls EXCEPT ![q] = NoCall]
  /\ UNCHANGED <<clock, people, keys, log>>

PruneAfterMinute(at) == {a \in attempts : a.at > at - Minute}   \* mutant of Kept
Kept(at) == {a \in attempts : a.at > at - Retention}

\* Job data-cleanup, run at the present time.
Prune ==
  /\ \E at \in Readings : attempts' = Kept(at)
  /\ attempts' # attempts
  /\ UNCHANGED <<clock, people, keys, admitted, calls>>

Tick ==
  /\ clock < MaxClock
  /\ clock' = clock + 1
  /\ UNCHANGED <<people, keys, log, calls>>

\* What the erasure of an operator does to keys and their attempts.
EraseAccess(o) ==
  /\ o \in operators
  /\ operators' = operators \ {o} /\ signedIn' = signedIn \ {o}
  /\ keys' = [k \in Keys |->
       IF Exists(k) /\ keys[k].operator = o THEN [NoKey EXCEPT !.step = "erased"] ELSE keys[k]]
  /\ attempts' = {a \in attempts : keys[a.key].operator # o}
  /\ UNCHANGED <<clock, admitted, calls>>

AccessInit ==
  /\ clock = 0
  /\ operators = Operators /\ signedIn = {}
  /\ keys = [k \in Keys |-> NoKey]
  /\ attempts = {}
  /\ admitted = [k \in Keys |-> {}]
  /\ calls = [q \in Calls |-> NoCall]

AccessNext ==
  \/ \E k \in Keys, o \in Operators, scopes \in Grants : CountKeys(k, o, scopes)
  \/ \E k \in Keys : CommitKey(k) \/ RevokeKey(k)
  \/ \E o \in Operators : RequestDeletion(o) \/ SignIn(o) \/ SignOut(o)
  \/ \E q \in Calls, k \in Keys, scope \in Scopes : ReadKey(q, k, scope)
  \/ \E q \in Calls : CountRequests(q) \/ CommitRequest(q) \/ AbortCall(q)
  \/ Prune
  \/ Tick

-----------------------------------------------------------------------------
(* Properties *)

KeyLocals == [step : {"new", "counted", "active", "revoked", "erased"},
              operator : Operators \cup {None}, scopes : SUBSET Scopes, room : BOOLEAN]
CallLocals == [step : {"new", "read", "counted", "authorised", "seen", "recorded", "answered", "failed",
                       "reported"},
               key : Keys \cup {None}, operator : Operators \cup {None},
               scope : Scopes \cup {None}, at : Times]

\* Keys and calls are of these shapes, and the keys there are belong to operators there are.
AccessTypeOK ==
  /\ clock \in Times
  /\ operators \in SUBSET Operators /\ signedIn \in SUBSET operators
  /\ keys \in [Keys -> KeyLocals]
  /\ attempts \in SUBSET Rows /\ IsFiniteSet(attempts)
  /\ admitted \in [Keys -> SUBSET [event : Calls, at : Times]]
  /\ calls \in [Calls -> CallLocals]
  /\ \A k \in Keys : Exists(k) => keys[k].operator \in operators
  /\ \A q \in Calls : calls[q].step \notin {"new", "failed"} => calls[q].key \in Keys

\* No operator ever has more active keys than allowed, whatever creations, revocations
\* and deletion requests run at once (AgentAccess.create_key).
KeysAreBounded == \A o \in Operators : Cardinality(ActiveKeys(o)) <= MaxActiveKeys

Limits == INSTANCE RateLimits WITH
  Subjects <- Keys, Events <- Calls,
  Limit <- [k \in Keys |-> RequestsPerMinute], Window <- [k \in Keys |-> Minute]

\* The calls let through with a key keep to its limit in any minute, although they
\* commit in another order than their readings of the clock and the log they count is
\* pruned meanwhile (AgentAccess.authenticate, cleanup).
ImplementsRateLimits == Limits!Spec
=============================================================================

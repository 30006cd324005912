------------------------------ MODULE HumanAccess ------------------------------
(***************************************************************************)
(* Passwordless sign-in, browser sessions and the founder's second factor  *)
(* (src/agent_data_oracle/auth.py), among the pruning of the attempt log   *)
(* (data_rights.py) and deletion requests, which revoke sessions.          *)
(*                                                                         *)
(* Every call reads its clock before its transaction: what it uses as now  *)
(* is a reading up to Lag old, which also stands for two instances whose   *)
(* clocks differ.  A transaction that counts before it inserts is two      *)
(* steps, with its advisory lock held in between.  An address stands for   *)
(* the one operator who has it.                                            *)
(***************************************************************************)
EXTENDS Integers, FiniteSets

CONSTANTS
  Emails,           \* normalised addresses
  Invalid,          \* the subject of every address that does not normalise
  Founders,         \* the addresses in founder_emails
  Networks,         \* network identities
  Service,          \* the subject of sign_in_delivery_admissions
  Policies,         \* whom the serving instances' preview policies admit
  Requests,         \* calls of request_sign_in, each with the token it may issue
  Redemptions,      \* calls of consume_sign_in_token, each with the session it may open
  FactorCalls,      \* calls of confirm_totp_enrollment and verify_founder_second_factor
  Codes,            \* the recovery codes of an enrolment
  EmailLimit, NetworkLimit, DeliveryLimit, FactorLimit,
  Hour, DeliveryWindow, FactorWindow,
  TokenLifetime, SessionLifetime, ReauthenticationLifetime,
  Retention,        \* SECURITY_LOG_RETENTION
  Lag,              \* how old a clock reading may be when it is used
  MaxClock

Subjects == Emails \cup {Invalid} \cup Networks \cup {Service} \cup Redemptions

\* The limit and the window of each subject.
LimitOf == [s \in Subjects |->
  IF s \in Networks THEN NetworkLimit ELSE IF s = Service THEN DeliveryLimit
  ELSE IF s \in Redemptions THEN FactorLimit ELSE EmailLimit]
WindowOf == [s \in Subjects |->
  IF s = Service THEN DeliveryWindow ELSE IF s \in Redemptions THEN FactorWindow ELSE Hour]

ASSUME SubjectsAssumption ==
  /\ Invalid \notin Emails /\ Service \notin Emails \cup {Invalid} \cup Networks
  /\ Networks \cap (Emails \cup {Invalid}) = {}
  /\ Redemptions \cap (Emails \cup {Invalid} \cup Networks \cup {Service}) = {}
  /\ Requests \cap FactorCalls = {}
  /\ Invalid \notin FactorCalls /\ {"none", "totp", "wrong"} \cap Codes = {}
  /\ Founders \subseteq Emails /\ Policies \subseteq SUBSET Emails
ASSUME NumbersAssumption ==
  /\ {EmailLimit, NetworkLimit, DeliveryLimit, FactorLimit} \subseteq Nat
  /\ {Hour, DeliveryWindow, FactorWindow} \subseteq Nat
  /\ {TokenLifetime, SessionLifetime, ReauthenticationLifetime} \subseteq Nat
  /\ {Retention, Lag, MaxClock} \subseteq Nat
\* The log is kept long enough for every count that may still be made.
ASSUME RetentionAssumption == \A s \in Subjects : Lag + WindowOf[s] <= Retention

VARIABLES
  clock,       \* the time
  attempts,    \* the rows of auth_attempts and sign_in_delivery_admissions
  admitted,    \* history: the links issued for an address, a network and the service,
               \* and the credentials judged in a session
  request,     \* each call of request_sign_in: its step and its locals
  consumed,    \* the requests whose token has consumed_at
  operators,   \* the addresses that have an account
  declared,    \* those with declaration_recorded_at
  sessions,    \* browser_sessions, by the call that opened them
  factors,     \* founder_totp_factors with auth_recovery_codes
  calls        \* each second-factor call: its step and its locals

signIn == <<request, consumed>>
accounts == <<operators, declared>>
secondFactor == <<factors, calls>>
log == <<attempts, admitted>>
vars == <<clock, attempts, admitted, request, consumed, operators, declared, sessions, factors, calls>>

Times == 0..MaxClock
Readings == {t \in Times : clock - Lag <= t /\ t <= clock}
Rows == [subject : Subjects, event : Requests \cup FactorCalls, at : Times]

NoRequest == [step |-> "new", email |-> Invalid, network |-> Service, at |-> 0, within |-> FALSE]
NoSession == [operator |-> Invalid]
NoFactor == [by |-> Invalid]
NoCall == [step |-> "new", session |-> Service, at |-> 0, within |-> FALSE,
           credential |-> "none", found |-> FALSE]

-----------------------------------------------------------------------------
(* What the queries compute *)

Recent(s, at) == {a \in attempts : a.subject = s /\ a.at > at - WindowOf[s]}
BelowLimit(s, at) == Cardinality(Recent(s, at)) < LimitOf[s]

Opened(c) == sessions[c] # NoSession
Active(c, at) == Opened(c) /\ ~sessions[c].revoked /\ at < sessions[c].created + SessionLifetime
Reauthenticated(c, at) == at - sessions[c].created <= ReauthenticationLifetime

SubjectsOf(r) == {request[r].email, request[r].network, Service}

\* An instance without a preview policy admits everybody.
Admits(policy, email) == email \in policy

Admitting(S, e, t) ==
  [s \in Subjects |-> IF s \in S THEN admitted[s] \cup {[event |-> e, at |-> t]} ELSE admitted[s]]

-----------------------------------------------------------------------------
(* Sign-in links *)

\* pg_advisory_xact_lock on sign-in-delivery-global
NoLock == TRUE   \* mutant of DeliveryLockFree
DeliveryLockFree == \A r \in Requests : request[r].step # "counted"

\* The transaction has the locks, of the service and then of both subjects, and counts.
CountDeliveries(r) ==
  /\ request[r].step = "new"
  /\ DeliveryLockFree
  /\ \E e \in Emails \cup {Invalid}, n \in Networks, at \in Readings :
       request' = [request EXCEPT ![r] =
         [step |-> "counted", email |-> e, network |-> n, at |-> at,
          within |-> \A s \in {e, n, Service} : BelowLimit(s, at)]]
  /\ UNCHANGED <<clock, log, consumed, accounts, sessions, secondFactor>>

\* It commits the attempts of the address and of the network, and, when the policy
\* and the counts admit it, the admission and the token.
CommitSignIn(r, policy) ==
  LET isAdmitted == Admits(policy, request[r].email) /\ request[r].within
      counting == IF isAdmitted THEN SubjectsOf(r) ELSE SubjectsOf(r) \ {Service}
  IN /\ request[r].step = "counted"
     /\ attempts' = attempts \cup
          {[subject |-> s, event |-> r, at |-> request[r].at] : s \in counting}
     /\ admitted' = IF isAdmitted THEN Admitting(SubjectsOf(r), r, request[r].at) ELSE admitted
     /\ request' = [request EXCEPT ![r] =
          IF isAdmitted THEN [@ EXCEPT !.step = "admitted"] ELSE [NoRequest EXCEPT !.step = "refused"]]
     /\ UNCHANGED <<clock, consumed, accounts, sessions, secondFactor>>

\* After the commit the link is sent up to three times.  It may arrive before a retry,
\* and although every attempt was taken for a failure; or it never does.
MayArrive(r) == request[r].step = "admitted"

\* The instance dies, or the database refuses, before the commit: nothing is left of
\* the call, and it may be made again.
AbortSignIn(r) ==
  /\ request[r].step = "counted"
  /\ request' = [request EXCEPT ![r] = NoRequest]
  /\ UNCHANGED <<clock, log, consumed, accounts, sessions, secondFactor>>

\* The account is opened unless it is there.
NotUpserted(e) == operators   \* mutant of Upserted
Upserted(e) == operators \cup {e}

\* One statement takes an unused and unexpired token; an identity the policy does not
\* admit has used it up for nothing.
TokenIsLive(r, at) ==   \* mutant of TokenIsGood
  request[r].at <= at /\ at < request[r].at + TokenLifetime
TokenIsGood(r, at) ==
  r \notin consumed /\ request[r].at <= at /\ at < request[r].at + TokenLifetime

Redeem(c, r, policy) ==
  /\ ~Opened(c) /\ MayArrive(r)
  /\ \E at \in Readings :
       /\ TokenIsGood(r, at)
       /\ consumed' = consumed \cup {r}
       /\ IF Admits(policy, request[r].email)
          THEN /\ operators' = Upserted(request[r].email)
               /\ sessions' = [sessions EXCEPT ![c] =
                    [operator |-> request[r].email, token |-> r, created |-> at,
                     revoked |-> FALSE, verified |-> FALSE]]
          ELSE UNCHANGED <<operators, sessions>>
  /\ UNCHANGED <<clock, log, request, declared, secondFactor>>

-----------------------------------------------------------------------------
(* Sessions *)

Declare(c) ==
  /\ \E at \in Readings :
       Active(c, at) /\ at - sessions[c].created < ReauthenticationLifetime
  /\ sessions[c].operator \notin declared
  /\ declared' = declared \cup {sessions[c].operator}
  /\ UNCHANGED <<clock, log, signIn, operators, sessions, secondFactor>>

\* A row is revoked at no time before it was created (a CHECK of the table).
SignOut(c) ==
  /\ Opened(c) /\ ~sessions[c].revoked
  /\ \E at \in Readings : sessions[c].created <= at
  /\ sessions' = [sessions EXCEPT ![c].revoked = TRUE]
  /\ UNCHANGED <<clock, log, signIn, accounts, secondFactor>>

\* A deletion request revokes the operator's sessions.  One opened after the
\* request's reading of the clock makes the CHECK fail, and the request with it.
RequestDeletion(c) ==
  /\ \E seen \in Readings : Active(c, seen) /\ Reauthenticated(c, seen)
  /\ sessions[c].operator \in declared
  /\ LET own == {d \in Redemptions : Opened(d) /\ sessions[d].operator = sessions[c].operator}
     IN /\ \E at \in Readings : \A d \in own : sessions[d].revoked \/ sessions[d].created <= at
        /\ sessions' = [d \in Redemptions |->
             IF d \in own THEN [sessions[d] EXCEPT !.revoked = TRUE] ELSE sessions[d]]
  /\ UNCHANGED <<clock, log, signIn, accounts, secondFactor>>

-----------------------------------------------------------------------------
(* The founder's second factor *)

IsDeclaredFounder(c) == sessions[c].operator \in Founders \cap declared

\* Who asks is read before the transaction; the code shown by the authenticator is right.
BeginEnrollment(v, c) ==
  /\ calls[v].step = "new"
  /\ \E at \in Readings : Active(c, at) /\ Reauthenticated(c, at)
  /\ IsDeclaredFounder(c)
  /\ factors[sessions[c].operator] = NoFactor
  /\ calls' = [calls EXCEPT ![v].step = "enrolling", ![v].session = c]
  /\ UNCHANGED <<clock, log, signIn, accounts, sessions, factors>>

\* The factor's primary key refuses the later of two enrolments.
Keyless(o) == TRUE   \* mutant of Unenrolled
Unenrolled(o) == factors[o] = NoFactor

CommitEnrollment(v) ==
  LET c == calls[v].session
      o == sessions[c].operator
  IN /\ calls[v].step = "enrolling"
     /\ IF Unenrolled(o)
        THEN /\ factors' = [factors EXCEPT ![o] = [by |-> v, unused |-> Codes]]
             /\ sessions' = [sessions EXCEPT ![c].verified = TRUE]
             /\ calls' = [calls EXCEPT ![v].step = "enrolled"]
        ELSE /\ calls' = [calls EXCEPT ![v] = NoCall]
             /\ UNCHANGED <<factors, sessions>>
     /\ UNCHANGED <<clock, log, signIn, accounts>>

BeginVerification(v, c) ==
  /\ calls[v].step = "new"
  /\ \E at \in Readings : Active(c, at)
  /\ IsDeclaredFounder(c)
  /\ calls' = [calls EXCEPT ![v].step = "checked", ![v].session = c]
  /\ UNCHANGED <<clock, log, signIn, accounts, sessions, factors>>

IsUnused(o, code) == factors[o] # NoFactor /\ code \in factors[o].unused

\* The transaction has the session's lock, counts its attempts, and looks for the
\* credential among the unused recovery codes.
CountAttempts(v) ==
  /\ calls[v].step = "checked"
  /\ \A w \in FactorCalls : calls[w].step = "counted" => calls[w].session # calls[v].session
  /\ \E at \in Readings, credential \in Codes \cup {"totp", "wrong"} :
       calls' = [calls EXCEPT ![v] =
         [step |-> "counted", session |-> calls[v].session, at |-> at,
          within |-> BelowLimit(calls[v].session, at), credential |-> credential,
          found |-> IsUnused(sessions[calls[v].session].operator, credential)]]
  /\ UNCHANGED <<clock, log, signIn, accounts, sessions, factors>>

\* A recovery code found unused may have been used by another session since.
WasUnused(v) == calls[v].found   \* mutant of StillUnused
StillUnused(v) ==
  calls[v].found /\ IsUnused(sessions[calls[v].session].operator, calls[v].credential)

Outcome(v) ==
  IF ~calls[v].within THEN "limited"
  ELSE IF calls[v].credential = "totp" \/ StillUnused(v) THEN "verified" ELSE "invalid"

\* The attempt is recorded whatever comes of it.
CommitVerification(v) ==
  LET c == calls[v].session
      o == sessions[c].operator
  IN /\ calls[v].step = "counted"
     /\ attempts' = attempts \cup {[subject |-> c, event |-> v, at |-> calls[v].at]}
     /\ admitted' = IF calls[v].within THEN Admitting({c}, v, calls[v].at) ELSE admitted
     /\ calls' = [calls EXCEPT ![v] =
          IF Outcome(v) = "limited" THEN [NoCall EXCEPT !.step = "limited"]
          ELSE [@ EXCEPT !.step = Outcome(v), !.found = FALSE]]
     /\ factors' = IF Outcome(v) = "verified" /\ calls[v].credential \in Codes
                   THEN [factors EXCEPT ![o].unused = @ \ {calls[v].credential}] ELSE factors
     /\ sessions' = IF Outcome(v) = "verified" /\ Active(c, calls[v].at)
                    THEN [sessions EXCEPT ![c].verified = TRUE] ELSE sessions
     /\ UNCHANGED <<clock, signIn, accounts>>

AbortCall(v) ==
  /\ calls[v].step \in {"enrolling", "checked", "counted"}
  /\ calls' = [calls EXCEPT ![v] = NoCall]
  /\ UNCHANGED <<clock, log, signIn, accounts, sessions, factors>>

-----------------------------------------------------------------------------
(* Time and cleanup *)

PruneAfterWindow(at) == {a \in attempts : a.at > at - Hour}   \* mutant of Kept
Kept(at) == {a \in attempts : a.at > at - Retention}

\* Job data-cleanup, run at the present time.
Prune ==
  /\ \E at \in Readings : attempts' = Kept(at)
  /\ attempts' # attempts
  /\ UNCHANGED <<clock, admitted, signIn, accounts, sessions, secondFactor>>

Tick ==
  /\ clock < MaxClock
  /\ clock' = clock + 1
  /\ UNCHANGED <<log, signIn, accounts, sessions, secondFactor>>

Init ==
  /\ clock = 0
  /\ attempts = {}
  /\ admitted = [s \in Subjects |-> {}]
  /\ request = [r \in Requests |-> NoRequest]
  /\ consumed = {}
  /\ operators = {} /\ declared = {}
  /\ sessions = [c \in Redemptions |-> NoSession]
  /\ factors = [o \in Emails |-> NoFactor]
  /\ calls = [v \in FactorCalls |-> NoCall]

SigningIn(r) ==
  \/ CountDeliveries(r)
  \/ \E policy \in Policies : CommitSignIn(r, policy)
  \/ AbortSignIn(r)
  \/ \E c \in Redemptions, policy \in Policies : Redeem(c, r, policy)

Verifying(v) ==
  \/ \E c \in Redemptions : BeginEnrollment(v, c) \/ BeginVerification(v, c)
  \/ CommitEnrollment(v)
  \/ CountAttempts(v)
  \/ CommitVerification(v)
  \/ AbortCall(v)

Next ==
  \/ \E r \in Requests : SigningIn(r)
  \/ \E c \in Redemptions : Declare(c) \/ SignOut(c) \/ RequestDeletion(c)
  \/ \E v \in FactorCalls : Verifying(v)
  \/ Prune
  \/ Tick

Spec == Init /\ [][Next]_vars

-----------------------------------------------------------------------------
(* Properties *)

RequestSteps == {"new", "counted", "admitted", "refused"}
CallSteps == {"new", "enrolling", "enrolled", "checked", "counted",
              "verified", "invalid", "limited"}
RequestLocals == [step : RequestSteps, email : Emails \cup {Invalid},
                  network : Networks \cup {Service}, at : Times, within : BOOLEAN]
SessionRows == [operator : Emails, token : Requests, created : Times,
                revoked : BOOLEAN, verified : BOOLEAN]
FactorRows == [by : FactorCalls, unused : SUBSET Codes]
CallLocals == [step : CallSteps, session : Redemptions \cup {Service}, at : Times,
               within : BOOLEAN, credential : Codes \cup {"none", "totp", "wrong"},
               found : BOOLEAN]

\* Rows and locals are of these shapes, every session belongs to an account, and every
\* call that passed its first check has a session.
TypeOK ==
  /\ clock \in Times
  /\ attempts \in SUBSET Rows /\ IsFiniteSet(attempts)
  /\ admitted \in [Subjects -> SUBSET [event : Requests \cup FactorCalls, at : Times]]
  /\ request \in [Requests -> RequestLocals]
  /\ consumed \in SUBSET Requests
  /\ declared \in SUBSET Emails /\ operators \in SUBSET Emails
  /\ sessions \in [Redemptions -> SessionRows \cup {NoSession}]
  /\ factors \in [Emails -> FactorRows \cup {NoFactor}]
  /\ calls \in [FactorCalls -> CallLocals]
  /\ \A c \in Redemptions : Opened(c) => sessions[c].operator \in operators
  /\ \A v \in FactorCalls : calls[v].session # Service =>
       calls[v].session \in Redemptions /\ Opened(calls[v].session)

\* A sign-in link opens at most one session and a recovery code completes at most one
\* verification, from whatever number of requests and sessions they are presented at
\* once (consume_sign_in_token, verify_founder_second_factor).
CredentialsWorkOnce ==
  /\ \A c, d \in Redemptions :
       Opened(c) /\ Opened(d) /\ sessions[c].token = sessions[d].token => c = d
  /\ \A v, w \in FactorCalls :
       /\ calls[v].step = "verified" /\ calls[w].step = "verified"
       /\ calls[v].credential = calls[w].credential /\ calls[v].credential \in Codes
       /\ sessions[calls[v].session].operator = sessions[calls[w].session].operator
       => v = w

\* The recovery codes an enrolment answered with are those that are stored, although two
\* sessions may enrol at once; a session is verified only by its own enrolment or
\* verification; and a code is used up only by a verification that succeeded
\* (confirm_totp_enrollment, verify_founder_second_factor).
SecondFactorsAreEarned ==
  /\ \A v \in FactorCalls : calls[v].step = "enrolled" =>
       factors[sessions[calls[v].session].operator].by = v
  /\ \A c \in Redemptions : Opened(c) /\ sessions[c].verified =>
       \E v \in FactorCalls : calls[v].session = c /\ calls[v].step \in {"enrolled", "verified"}
  /\ \A o \in Emails : factors[o] # NoFactor =>
       \A k \in Codes \ factors[o].unused :
         \E v \in FactorCalls : /\ calls[v].step = "verified" /\ calls[v].credential = k
                                /\ sessions[calls[v].session].operator = o

Limits == INSTANCE RateLimits WITH
  Events <- Requests \cup FactorCalls, Limit <- LimitOf, Window <- WindowOf

\* Links and judged credentials keep to the limits of every address, network, session and
\* of the service, in any window of time: although calls commit in another order than
\* their readings of the clock, and the log they count is pruned meanwhile
\* (request_sign_in, verify_founder_second_factor, cleanup).
ImplementsRateLimits == Limits!Spec
=============================================================================

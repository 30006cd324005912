--------------------------- MODULE HumanAccessProofs ---------------------------
(***************************************************************************)
(* What sign-in links, sessions and the second factor keep, for every      *)
(* number of addresses, networks and calls and every limit.                *)
(***************************************************************************)
EXTENDS HumanAccess, FiniteSetTheorems, TLAPS

-----------------------------------------------------------------------------
(* The inductive invariant *)

Since(s, t) == {x \in admitted[s] : x.at > t}
FewSince(s, at) == Cardinality(Since(s, at - WindowOf[s])) < LimitOf[s]

\* One transaction at a time counts deliveries, and what it counted still holds.
OneCounts ==
  \A r, q \in Requests : request[r].step = "counted" /\ request[q].step = "counted" => r = q
LinkCounts ==
  \A r \in Requests : request[r].step = "counted" /\ request[r].within =>
    \A s \in SubjectsOf(r) : FewSince(s, request[r].at)

\* One transaction at a time counts a session's attempts, and what it counted still holds.
FactorLocks ==
  \A v, w \in FactorCalls :
    calls[v].step = "counted" /\ calls[w].step = "counted" /\ calls[v].session = calls[w].session
    => v = w
FactorCounts ==
  \A v \in FactorCalls : calls[v].step = "counted" /\ calls[v].within =>
    FewSince(calls[v].session, calls[v].at)

\* What was admitted is in the log, or too old for any count still to come.
LogIsKept ==
  \A s \in Subjects : \A x \in admitted[s] :
    \/ [subject |-> s, event |-> x.event, at |-> x.at] \in attempts
    \/ x.at + WindowOf[s] <= clock - Lag

\* Links and attempts are admitted once.
AdmittedOnce ==
  \A s \in Subjects : \A x \in admitted[s] :
    /\ x.event \in Requests => request[x.event].step = "admitted"
    /\ x.event \in FactorCalls => calls[x.event].step \in {"verified", "invalid"}

LimitsInv == OneCounts /\ LinkCounts /\ FactorLocks /\ FactorCounts /\ LogIsKept /\ AdmittedOnce

OwnerOf(v) == sessions[calls[v].session].operator

\* A call that goes on or has ended well has a session.
HasSession ==
  \A v \in FactorCalls : calls[v].step \notin {"new", "limited"} =>
    calls[v].session \in Redemptions /\ Opened(calls[v].session)

\* A session's link is used up, and a code that verified is not among the unused ones.
LinksAreUsed == \A c \in Redemptions : Opened(c) => sessions[c].token \in consumed
CodesAreUsed ==
  \A v \in FactorCalls : calls[v].step = "verified" /\ calls[v].credential \in Codes =>
    factors[OwnerOf(v)] # NoFactor /\ calls[v].credential \notin factors[OwnerOf(v)].unused
EnrolledOnce ==
  \A v \in FactorCalls : calls[v].step = "enrolled" => factors[OwnerOf(v)] # NoFactor

FactorsInv ==
  HasSession /\ LinksAreUsed /\ CodesAreUsed /\ EnrolledOnce
  /\ CredentialsWorkOnce /\ SecondFactorsAreEarned

Inv == TypeOK /\ LimitsInv /\ FactorsInv

-----------------------------------------------------------------------------
(* Types *)

\* The limit and the window of a subject are numbers.
LEMMA SubjectsHaveLimits ==
  ASSUME NEW s \in Subjects
  PROVE  LimitOf[s] \in Nat /\ WindowOf[s] \in Nat /\ Lag + WindowOf[s] <= Retention
  BY NumbersAssumption, RetentionAssumption DEF LimitOf, WindowOf

\* A link's subjects are subjects, and no sessions.
LEMMA SubjectsOfLinks ==
  ASSUME TypeOK, NEW r \in Requests
  PROVE  SubjectsOf(r) \subseteq Subjects /\ SubjectsOf(r) \cap Redemptions = {}
<1>1. request[r].email \in Emails \cup {Invalid} /\ request[r].network \in Networks \cup {Service}
  BY DEF TypeOK, RequestLocals
<1> QED BY <1>1, SubjectsAssumption DEF SubjectsOf, Subjects

\* An open session is a row.
LEMMA SessionsAreRows ==
  ASSUME TypeOK, NEW c \in Redemptions
  PROVE  Opened(c) <=> sessions[c] \in SessionRows
  BY SubjectsAssumption DEF TypeOK, Opened, NoSession, SessionRows

\* An enrolled factor is a row.
LEMMA FactorsAreRows ==
  ASSUME TypeOK, NEW o \in Emails
  PROVE  factors[o] # NoFactor <=> factors[o] \in FactorRows
  BY SubjectsAssumption DEF TypeOK, NoFactor, FactorRows

\* What is in no row yet.
LEMMA EmptyLocals ==
  /\ NoRequest \in RequestLocals /\ [NoRequest EXCEPT !.step = "refused"] \in RequestLocals
  /\ NoCall \in CallLocals /\ [NoCall EXCEPT !.step = "limited"] \in CallLocals
  /\ Readings \subseteq Times /\ 0 \in Times
<1>1. 0 \in Times
  BY NumbersAssumption DEF Times
<1> QED
  BY <1>1
  DEF NoRequest, NoCall, RequestLocals, CallLocals, RequestSteps, CallSteps, Readings

\* Initially there are no accounts, links, sessions or factors.
LEMMA TypeInit == Init => TypeOK
<1> SUFFICES ASSUME Init PROVE TypeOK
  OBVIOUS
<1>1. IsFiniteSet(attempts)
  BY FS_EmptySet DEF Init
<1>2. request \in [Requests -> RequestLocals] /\ calls \in [FactorCalls -> CallLocals] /\ clock \in Times
  BY EmptyLocals DEF Init
<1>3. \A c \in Redemptions : ~Opened(c)
  BY DEF Init, Opened
<1>4. \A v \in FactorCalls : calls[v].session = Service
  BY DEF Init, NoCall
<1> QED BY <1>1, <1>2, <1>3, <1>4 DEF Init, TypeOK

\* Sessions are opened and never closed.
SessionsKept ==
  /\ sessions' \in [Redemptions -> SessionRows \cup {NoSession}]
  /\ \A c \in Redemptions : Opened(c) =>
       /\ Opened(c)' /\ sessions'[c].operator = sessions[c].operator
       /\ sessions'[c].token = sessions[c].token

\* They are kept when nothing is written,
LEMMA SessionsSame == ASSUME TypeOK, UNCHANGED sessions PROVE SessionsKept
  BY DEF TypeOK, SessionsKept, Opened

\* when one of them is revoked or verified,
LEMMA SessionsChange ==
  ASSUME TypeOK, NEW c \in Redemptions, Opened(c),
         \/ sessions' = [sessions EXCEPT ![c].revoked = TRUE]
         \/ sessions' = [sessions EXCEPT ![c].verified = TRUE]
  PROVE  SessionsKept
<1>1. sessions[c] \in SessionRows
  BY SessionsAreRows
<1>2. /\ sessions'[c] \in SessionRows /\ sessions'[c].operator = sessions[c].operator
      /\ sessions'[c].token = sessions[c].token
      /\ \A d \in Redemptions \ {c} : sessions'[d] = sessions[d]
  <2>1. /\ [sessions[c] EXCEPT !.revoked = TRUE] \in SessionRows
        /\ [sessions[c] EXCEPT !.revoked = TRUE].operator = sessions[c].operator
        /\ [sessions[c] EXCEPT !.revoked = TRUE].token = sessions[c].token
    BY <1>1 DEF SessionRows
  <2>2. /\ [sessions[c] EXCEPT !.verified = TRUE] \in SessionRows
        /\ [sessions[c] EXCEPT !.verified = TRUE].operator = sessions[c].operator
        /\ [sessions[c] EXCEPT !.verified = TRUE].token = sessions[c].token
    BY <1>1 DEF SessionRows
  <2>3. PICK row \in SessionRows : /\ sessions' = [sessions EXCEPT ![c] = row]
                                  /\ row.operator = sessions[c].operator
                                  /\ row.token = sessions[c].token
    BY <2>1, <2>2
  <2> QED BY <2>3 DEF TypeOK
<1>3. sessions'[c] # NoSession
  BY <1>2, SubjectsAssumption DEF NoSession, SessionRows
<1> QED BY <1>2, <1>3 DEF TypeOK, SessionsKept, Opened

\* and when a deletion request revokes those of its operator.
LEMMA SessionsRevoked ==
  ASSUME TypeOK, NEW c \in Redemptions, RequestDeletion(c)
  PROVE  /\ SessionsKept
         /\ \A d \in Redemptions : Opened(d)' => Opened(d) /\ sessions'[d].verified = sessions[d].verified
<1>1. \A d \in Redemptions :
        \/ sessions'[d] = sessions[d]
        \/ Opened(d) /\ sessions'[d] = [sessions[d] EXCEPT !.revoked = TRUE]
  BY DEF RequestDeletion
<1>2. ASSUME NEW d \in Redemptions, Opened(d)
      PROVE  /\ sessions'[d] \in SessionRows /\ sessions'[d].operator = sessions[d].operator
             /\ sessions'[d].token = sessions[d].token /\ sessions'[d].verified = sessions[d].verified
             /\ sessions'[d] # NoSession
  <2>1. sessions[d] \in SessionRows
    BY <1>2, SessionsAreRows
  <2>2. [sessions[d] EXCEPT !.revoked = TRUE] \in SessionRows
    BY <2>1 DEF SessionRows
  <2>3. sessions'[d] \in SessionRows /\ sessions'[d].operator = sessions[d].operator
        /\ sessions'[d].token = sessions[d].token /\ sessions'[d].verified = sessions[d].verified
    BY <1>1, <2>1, <2>2 DEF SessionRows
  <2> QED BY <2>3, SubjectsAssumption DEF NoSession, SessionRows
<1>3. sessions' \in [Redemptions -> SessionRows \cup {NoSession}]
  <2>1. \A d \in Redemptions : sessions'[d] \in SessionRows \cup {NoSession}
    BY <1>1, <1>2 DEF TypeOK
  <2>2. sessions' = [d \in Redemptions |-> sessions'[d]]
    BY DEF RequestDeletion
  <2> QED BY <2>1, <2>2
<1> QED BY <1>1, <1>2, <1>3 DEF SessionsKept, Opened
\* Rows of the log are of subjects and events, however many a transaction inserts.
LEMMA RowsOfLink ==
  ASSUME TypeOK, NEW r \in Requests, NEW S, S \subseteq SubjectsOf(r), NEW t \in Times
  PROVE  LET new == {[subject |-> s, event |-> r, at |-> t] : s \in S}
         IN  new \subseteq Rows /\ IsFiniteSet(attempts \cup new)
<1> DEFINE row(s) == [subject |-> s, event |-> r, at |-> t]
           new == {row(s) : s \in S}
           all == ((attempts \cup {row(request[r].email)}) \cup {row(request[r].network)}) \cup {row(Service)}
<1>1. new \subseteq Rows
  BY SubjectsOfLinks DEF Rows
<1>2. attempts \cup new \subseteq all
  BY DEF SubjectsOf
<1>3. IsFiniteSet(attempts)
  BY DEF TypeOK
<1> HIDE DEF row
<1>4. IsFiniteSet(all)
  BY <1>3, FS_AddElement
<1>5. IsFiniteSet(attempts \cup new)
  BY <1>2, <1>4, FS_Subset
<1> QED BY <1>1, <1>5 DEF row

HaveAccounts == \A c \in Redemptions : Opened(c) => sessions[c].operator \in operators
HaveSessions ==
  \A v \in FactorCalls : calls[v].session # Service =>
    calls[v].session \in Redemptions /\ Opened(calls[v].session)

\* Every step keeps the shapes of rows and locals.
LEMMA TypeNext == ASSUME TypeOK, HasSession, [Next]_vars PROVE TypeOK'
<1>0. /\ clock \in Times
      /\ attempts \in SUBSET Rows /\ IsFiniteSet(attempts)
      /\ admitted \in [Subjects -> SUBSET [event : Requests \cup FactorCalls, at : Times]]
      /\ request \in [Requests -> RequestLocals]
      /\ consumed \in SUBSET Requests
      /\ declared \in SUBSET Emails /\ operators \in SUBSET Emails
      /\ factors \in [Emails -> FactorRows \cup {NoFactor}]
      /\ calls \in [FactorCalls -> CallLocals]
      /\ \A c \in Redemptions : Opened(c) => sessions[c].operator \in operators
      /\ \A v \in FactorCalls : calls[v].session # Service =>
           calls[v].session \in Redemptions /\ Opened(calls[v].session)
  BY DEF TypeOK
\* Sessions that stay keep what refers to them.
<1>a. ASSUME SessionsKept,
             \A c \in Redemptions : Opened(c)' => Opened(c) \/ sessions'[c].operator \in operators',
             operators \subseteq operators',
             \A v \in FactorCalls : calls'[v].session # Service =>
               calls'[v].session \in Redemptions /\ Opened(calls'[v].session)
      PROVE  /\ sessions' \in [Redemptions -> SessionRows \cup {NoSession}]
             /\ HaveAccounts' /\ HaveSessions'
  <2>1. HaveAccounts'
    BY <1>0, <1>a DEF SessionsKept, HaveAccounts
  <2>2. HaveSessions'
    BY <1>a DEF SessionsKept, HaveSessions, Opened
  <2> QED BY <1>a, <2>1, <2>2 DEF SessionsKept
<1>b. ASSUME SessionsKept, \A c \in Redemptions : Opened(c)' => Opened(c),
             UNCHANGED <<operators, calls>>
      PROVE  /\ sessions' \in [Redemptions -> SessionRows \cup {NoSession}]
             /\ HaveAccounts' /\ HaveSessions'
  BY <1>0, <1>a, <1>b
<1>1. ASSUME NEW r \in Requests, CountDeliveries(r) PROVE TypeOK'
  <2>1. request' \in [Requests -> RequestLocals]
    <3>1. PICK e \in Emails \cup {Invalid}, n \in Networks, at \in Readings :
            request' = [request EXCEPT ![r] =
              [step |-> "counted", email |-> e, network |-> n, at |-> at,
               within |-> \A s \in {e, n, Service} : BelowLimit(s, at)]]
      BY <1>1 DEF CountDeliveries
    <3>2. PICK within \in BOOLEAN : within = \A s \in {e, n, Service} : BelowLimit(s, at)
      OBVIOUS
    <3>3. [step |-> "counted", email |-> e, network |-> n, at |-> at, within |-> within] \in RequestLocals
      BY EmptyLocals DEF RequestLocals, RequestSteps
    <3> QED BY <1>0, <3>1, <3>2, <3>3
  <2> QED BY <1>0, <1>1, <2>1 DEF CountDeliveries, TypeOK, log, accounts, secondFactor, Opened
<1>2. ASSUME NEW r \in Requests, NEW policy \in Policies, CommitSignIn(r, policy) PROVE TypeOK'
  <2> DEFINE isAdmitted == Admits(policy, request[r].email) /\ request[r].within
             counting == IF isAdmitted THEN SubjectsOf(r) ELSE SubjectsOf(r) \ {Service}
  <2>1. PICK t \in Times : t = request[r].at
    BY <1>0 DEF RequestLocals
  <2>2. attempts' \in SUBSET Rows /\ IsFiniteSet(attempts')
    <3>1. attempts' = attempts \cup {[subject |-> s, event |-> r, at |-> t] : s \in counting}
      BY <1>2, <2>1 DEF CommitSignIn
    <3>2. counting \subseteq SubjectsOf(r)
      OBVIOUS
    <3> HIDE DEF counting
    <3> QED BY <1>0, <3>1, <3>2, RowsOfLink
  <2>3. admitted' \in [Subjects -> SUBSET [event : Requests \cup FactorCalls, at : Times]]
    <3>1. admitted' = Admitting(SubjectsOf(r), r, t) \/ admitted' = admitted
      BY <1>2, <2>1 DEF CommitSignIn
    <3> QED BY <1>0, <3>1 DEF Admitting
  <2>4. request' \in [Requests -> RequestLocals]
    <3>1. [request[r] EXCEPT !.step = "admitted"] \in RequestLocals
      BY <1>0 DEF RequestLocals, RequestSteps
    <3> QED BY <1>0, <1>2, <3>1, EmptyLocals DEF CommitSignIn
  <2> QED BY <1>0, <1>2, <2>2, <2>3, <2>4 DEF CommitSignIn, TypeOK, accounts, secondFactor, Opened
<1>3. ASSUME NEW r \in Requests, AbortSignIn(r) PROVE TypeOK'
  <2>1. request' \in [Requests -> RequestLocals]
    BY <1>0, <1>3, EmptyLocals DEF AbortSignIn
  <2> QED BY <1>0, <1>3, <2>1 DEF AbortSignIn, TypeOK, log, accounts, secondFactor, Opened
<1>4. ASSUME NEW r \in Requests, NEW c \in Redemptions, NEW policy \in Policies, Redeem(c, r, policy)
      PROVE  TypeOK'
  <2>1. UNCHANGED <<clock, log, request, declared, secondFactor>> /\ consumed' = consumed \cup {r}
    BY <1>4 DEF Redeem
  <2>2. \/ UNCHANGED <<operators, sessions>>
        \/ \E at \in Times :
             /\ Admits(policy, request[r].email)
             /\ operators' = Upserted(request[r].email)
             /\ sessions' = [sessions EXCEPT ![c] =
                  [operator |-> request[r].email, token |-> r, created |-> at,
                   revoked |-> FALSE, verified |-> FALSE]]
    BY <1>4, EmptyLocals DEF Redeem
  <2>3. CASE UNCHANGED <<operators, sessions>>
    BY <1>0, <2>1, <2>3 DEF TypeOK, log, secondFactor, Opened
  <2>4. ASSUME NEW at \in Times, Admits(policy, request[r].email),
               operators' = Upserted(request[r].email),
               sessions' = [sessions EXCEPT ![c] =
                 [operator |-> request[r].email, token |-> r, created |-> at,
                  revoked |-> FALSE, verified |-> FALSE]]
        PROVE  TypeOK'
    <3>1. PICK e \in Emails : e = request[r].email
      BY <2>4, SubjectsAssumption DEF Admits
    <3>0. [operator |-> e, token |-> r, created |-> at, revoked |-> FALSE, verified |-> FALSE]
            \in SessionRows
      BY DEF SessionRows
    <3>2. PICK row \in SessionRows :
            row = [operator |-> e, token |-> r, created |-> at, revoked |-> FALSE, verified |-> FALSE]
      BY <3>0
    <3>3. sessions' = [sessions EXCEPT ![c] = row]
      BY <2>4, <3>1, <3>2
    <3>4. row # NoSession /\ ~Opened(c)
      BY <1>4, SubjectsAssumption DEF NoSession, SessionRows, Redeem
    <3>5. SessionsKept
      BY <1>4, <3>3, <3>4 DEF SessionsKept, TypeOK, Opened
    <3>6. \A d \in Redemptions : Opened(d)' => Opened(d) \/ sessions'[d].operator \in operators'
      BY <2>4, <3>1, <3>2, <3>3 DEF TypeOK, Opened, Upserted
    <3>7. operators \subseteq operators' /\ operators' \subseteq Emails
      BY <1>0, <2>4, <3>1 DEF Upserted
    <3>8. \A v \in FactorCalls : calls'[v].session # Service =>
            calls'[v].session \in Redemptions /\ Opened(calls'[v].session)
      BY <1>0, <2>1 DEF secondFactor
    <3> QED BY <1>0, <1>a, <2>1, <3>5, <3>6, <3>7, <3>8
      DEF TypeOK, HaveAccounts, HaveSessions, log, secondFactor
  <2> QED BY <2>2, <2>3, <2>4
<1>5. ASSUME NEW c \in Redemptions, Declare(c) PROVE TypeOK'
  <2>1. sessions[c].operator \in Emails
    BY <1>0, <1>5 DEF Declare, Active
  <2> QED BY <1>0, <1>5, <2>1 DEF Declare, TypeOK, log, signIn, secondFactor, Opened
<1>6. ASSUME NEW c \in Redemptions, SignOut(c) PROVE TypeOK'
  <2>1. SessionsKept
    BY <1>6, SessionsChange DEF SignOut
  <2>2. \A d \in Redemptions : Opened(d)' => Opened(d)
    BY <1>6 DEF SignOut, Opened, TypeOK
  <2>3. UNCHANGED <<clock, log, signIn, accounts, secondFactor>>
    BY <1>6 DEF SignOut
  <2> QED BY <1>0, <1>b, <2>1, <2>2, <2>3
    DEF TypeOK, HaveAccounts, HaveSessions, log, signIn, accounts, secondFactor
<1>7. ASSUME NEW c \in Redemptions, RequestDeletion(c) PROVE TypeOK'
  <2>1. SessionsKept /\ \A d \in Redemptions : Opened(d)' => Opened(d)
    BY <1>7, SessionsRevoked
  <2>2. UNCHANGED <<clock, log, signIn, accounts, secondFactor>>
    BY <1>7 DEF RequestDeletion
  <2> QED BY <1>0, <1>b, <2>1, <2>2
    DEF TypeOK, HaveAccounts, HaveSessions, log, signIn, accounts, secondFactor
\* A call that goes on names a session that is open.
<1>c. ASSUME NEW v \in FactorCalls, NEW call \in CallLocals, calls' = [calls EXCEPT ![v] = call],
             call.session # Service => call.session \in Redemptions /\ Opened(call.session)
      PROVE  /\ calls' \in [FactorCalls -> CallLocals]
             /\ \A w \in FactorCalls : calls'[w].session # Service =>
                  calls'[w].session \in Redemptions /\ Opened(calls'[w].session)
  BY <1>0, <1>c
<1>8. ASSUME NEW v \in FactorCalls, NEW c \in Redemptions, BeginEnrollment(v, c) \/ BeginVerification(v, c)
      PROVE  TypeOK'
  <2>1. PICK step \in {"enrolling", "checked"} :
          calls' = [calls EXCEPT ![v] = [@ EXCEPT !.step = step, !.session = c]]
    BY <1>8 DEF BeginEnrollment, BeginVerification
  <2>2. [calls[v] EXCEPT !.step = step, !.session = c] \in CallLocals
    BY <1>0 DEF CallLocals, CallSteps
  <2>3. [calls[v] EXCEPT !.step = step, !.session = c].session = c
    BY <1>0 DEF CallLocals
  <2>4. Opened(c)
    BY <1>8 DEF BeginEnrollment, BeginVerification, Active
  <2>5. /\ calls' \in [FactorCalls -> CallLocals]
        /\ \A w \in FactorCalls : calls'[w].session # Service =>
             calls'[w].session \in Redemptions /\ Opened(calls'[w].session)
    BY <1>c, <2>1, <2>2, <2>3, <2>4
  <2>6. UNCHANGED <<clock, log, signIn, accounts, sessions, factors>>
    BY <1>8 DEF BeginEnrollment, BeginVerification
  <2> QED BY <1>0, <2>5, <2>6 DEF TypeOK, log, signIn, accounts, Opened
<1>9. ASSUME NEW v \in FactorCalls, CommitEnrollment(v) PROVE TypeOK'
  <2>1. PICK c \in Redemptions : c = calls[v].session /\ Opened(c)
    BY <1>9 DEF CommitEnrollment, HasSession
  <2>2. PICK o \in Emails : o = sessions[c].operator
    BY <1>0, <2>1, SessionsAreRows DEF SessionRows
  <2>3. UNCHANGED <<clock, log, signIn, accounts>>
    BY <1>9 DEF CommitEnrollment
  <2>4. CASE Unenrolled(o)
    <3>1. /\ factors' = [factors EXCEPT ![o] = [by |-> v, unused |-> Codes]]
          /\ sessions' = [sessions EXCEPT ![c].verified = TRUE]
          /\ calls' = [calls EXCEPT ![v].step = "enrolled"]
      BY <1>9, <2>1, <2>2, <2>4 DEF CommitEnrollment
    <3>2. factors' \in [Emails -> FactorRows \cup {NoFactor}]
      BY <1>0, <3>1 DEF FactorRows
    <3>3. SessionsKept
      BY <2>1, <3>1, SessionsChange
    <3>4. \A d \in Redemptions : Opened(d)' => Opened(d)
      BY <2>1, <3>1 DEF Opened, TypeOK
    <3>5. [calls[v] EXCEPT !.step = "enrolled"] \in CallLocals
          /\ [calls[v] EXCEPT !.step = "enrolled"].session = c
      BY <1>0, <2>1 DEF CallLocals, CallSteps
    <3>6. /\ calls' \in [FactorCalls -> CallLocals]
          /\ \A w \in FactorCalls : calls'[w].session # Service =>
               calls'[w].session \in Redemptions /\ Opened(calls'[w].session)
      BY <1>c, <2>1, <3>1, <3>5
    <3> QED BY <1>0, <1>a, <2>3, <3>2, <3>3, <3>4, <3>6
      DEF TypeOK, HaveAccounts, HaveSessions, log, signIn, accounts
  <2>5. CASE ~Unenrolled(o)
    <3>1. calls' = [calls EXCEPT ![v] = NoCall] /\ UNCHANGED <<factors, sessions>>
      BY <1>9, <2>1, <2>2, <2>5 DEF CommitEnrollment
    <3>2. NoCall.session = Service
      BY DEF NoCall
    <3>3. /\ calls' \in [FactorCalls -> CallLocals]
          /\ \A w \in FactorCalls : calls'[w].session # Service =>
               calls'[w].session \in Redemptions /\ Opened(calls'[w].session)
      BY <1>c, <3>1, <3>2, EmptyLocals
    <3> QED BY <1>0, <2>3, <3>1, <3>3 DEF TypeOK, log, signIn, accounts, Opened
  <2> QED BY <2>4, <2>5
<1>10. ASSUME NEW v \in FactorCalls, CountAttempts(v) PROVE TypeOK'
  <2>1. PICK at \in Readings, credential \in Codes \cup {"totp", "wrong"} :
       calls' = [calls EXCEPT ![v] =
         [step |-> "counted", session |-> calls[v].session, at |-> at,
          within |-> BelowLimit(calls[v].session, at), credential |-> credential,
          found |-> IsUnused(sessions[calls[v].session].operator, credential)]]
    BY <1>10 DEF CountAttempts
  <2>2. [step |-> "counted", session |-> calls[v].session, at |-> at,
         within |-> BelowLimit(calls[v].session, at), credential |-> credential,
         found |-> IsUnused(sessions[calls[v].session].operator, credential)] \in CallLocals
    BY <1>0, EmptyLocals DEF CallLocals, CallSteps, BelowLimit, IsUnused
  <2>3. PICK call \in CallLocals : calls' = [calls EXCEPT ![v] = call] /\ call.session = calls[v].session
    BY <2>1, <2>2
  <2>6. /\ calls' \in [FactorCalls -> CallLocals]
        /\ \A w \in FactorCalls : calls'[w].session # Service =>
             calls'[w].session \in Redemptions /\ Opened(calls'[w].session)
    BY <1>0, <1>c, <2>3
  <2>7. UNCHANGED <<clock, log, signIn, accounts, sessions, factors>>
    BY <1>10 DEF CountAttempts
  <2> QED BY <1>0, <2>6, <2>7 DEF TypeOK, log, signIn, accounts, Opened
<1>11. ASSUME NEW v \in FactorCalls, CommitVerification(v) PROVE TypeOK'
  <2>1. PICK c \in Redemptions : c = calls[v].session /\ Opened(c)
    BY <1>11 DEF CommitVerification, HasSession
  <2>2. PICK o \in Emails : o = sessions[c].operator
    BY <1>0, <2>1, SessionsAreRows DEF SessionRows
  <2>3. UNCHANGED <<clock, signIn, accounts>>
    BY <1>11 DEF CommitVerification
  <2>4. PICK t \in Times : t = calls[v].at
    BY <1>0 DEF CallLocals
  <2>5. attempts' \in SUBSET Rows /\ IsFiniteSet(attempts')
    <3>1. PICK row \in Rows : row = [subject |-> c, event |-> v, at |-> t]
      BY DEF Rows, Subjects
    <3>2. attempts' = attempts \cup {row}
      BY <1>11, <2>1, <2>4, <3>1 DEF CommitVerification
    <3> QED BY <1>0, <3>1, <3>2, FS_AddElement
  <2>6. admitted' \in [Subjects -> SUBSET [event : Requests \cup FactorCalls, at : Times]]
    <3>1. admitted' = Admitting({c}, v, t) \/ admitted' = admitted
      BY <1>11, <2>1, <2>4 DEF CommitVerification
    <3> QED BY <1>0, <3>1 DEF Admitting
  <2>7. PICK call \in CallLocals : calls' = [calls EXCEPT ![v] = call] /\ call.session \in {c, Service}
    <3>1. [NoCall EXCEPT !.step = "limited"].session = Service
      BY DEF NoCall
    <3>2. Outcome(v) \in {"limited", "verified", "invalid"}
      BY DEF Outcome
    <3>3. /\ [calls[v] EXCEPT !.step = Outcome(v), !.found = FALSE] \in CallLocals
          /\ [calls[v] EXCEPT !.step = Outcome(v), !.found = FALSE].session = c
      BY <1>0, <2>1, <3>2 DEF CallLocals, CallSteps
    <3>4. calls' = [calls EXCEPT ![v] =
            IF Outcome(v) = "limited" THEN [NoCall EXCEPT !.step = "limited"]
            ELSE [@ EXCEPT !.step = Outcome(v), !.found = FALSE]]
      BY <1>11 DEF CommitVerification
    <3>5. CASE Outcome(v) = "limited"
      BY <3>1, <3>4, <3>5, EmptyLocals
    <3>6. CASE Outcome(v) # "limited"
      BY <3>3, <3>4, <3>6
    <3> QED BY <3>5, <3>6
  <2>8. /\ calls' \in [FactorCalls -> CallLocals]
        /\ \A w \in FactorCalls : calls'[w].session # Service =>
             calls'[w].session \in Redemptions /\ Opened(calls'[w].session)
    BY <1>c, <2>1, <2>7
  <2>9. factors' \in [Emails -> FactorRows \cup {NoFactor}]
    <3>1. CASE Outcome(v) = "verified" /\ calls[v].credential \in Codes
      <4>1. StillUnused(v)
        BY <3>1, SubjectsAssumption DEF Outcome
      <4>2. factors[o] \in FactorRows
        BY <2>1, <2>2, <4>1, FactorsAreRows DEF StillUnused, IsUnused
      <4>3. [factors[o] EXCEPT !.unused = @ \ {calls[v].credential}] \in FactorRows
        BY <4>2 DEF FactorRows
      <4>4. factors' = [factors EXCEPT ![o].unused = @ \ {calls[v].credential}]
        BY <1>11, <2>1, <2>2, <3>1 DEF CommitVerification
      <4> QED BY <1>0, <4>3, <4>4
    <3>2. CASE ~(Outcome(v) = "verified" /\ calls[v].credential \in Codes)
      BY <1>0, <1>11, <3>2 DEF CommitVerification
    <3> QED BY <3>1, <3>2
  <2>10. UNCHANGED sessions \/ sessions' = [sessions EXCEPT ![c].verified = TRUE]
    BY <1>11, <2>1 DEF CommitVerification
  <2>11. SessionsKept
    BY <2>1, <2>10, SessionsSame, SessionsChange
  <2>12. \A d \in Redemptions : Opened(d)' => Opened(d)
    BY <2>1, <2>10 DEF Opened, TypeOK
  <2> QED
    BY <1>0, <1>a, <2>3, <2>5, <2>6, <2>8, <2>9, <2>11, <2>12
    DEF TypeOK, HaveAccounts, HaveSessions, signIn, accounts
<1>12. ASSUME NEW v \in FactorCalls, AbortCall(v) PROVE TypeOK'
  <2>1. NoCall.session = Service
    BY DEF NoCall
  <2>2. /\ calls' \in [FactorCalls -> CallLocals]
        /\ \A w \in FactorCalls : calls'[w].session # Service =>
             calls'[w].session \in Redemptions /\ Opened(calls'[w].session)
    BY <1>12, <1>c, <2>1, EmptyLocals DEF AbortCall
  <2> QED BY <1>0, <1>12, <2>2 DEF AbortCall, TypeOK, log, signIn, accounts, Opened
<1>13. ASSUME Prune PROVE TypeOK'
  <2>1. attempts' \subseteq attempts /\ IsFiniteSet(attempts')
    BY <1>0, <1>13, FS_Subset DEF Prune, Kept
  <2> QED BY <1>0, <1>13, <2>1 DEF Prune, TypeOK, signIn, accounts, secondFactor, Opened
<1>14. ASSUME Tick PROVE TypeOK'
  <2>1. clock' \in Times
    BY <1>0, <1>14, NumbersAssumption DEF Tick, Times
  <2> QED BY <1>0, <1>14, <2>1 DEF Tick, TypeOK, log, signIn, accounts, secondFactor, Opened
<1>15. CASE UNCHANGED vars
  BY <1>15 DEF vars, TypeOK, Opened
<1> QED
  BY <1>1, <1>2, <1>3, <1>4, <1>5, <1>6, <1>7, <1>8, <1>9, <1>10, <1>11, <1>12, <1>13, <1>14, <1>15
  DEF Next, SigningIn, Verifying
-----------------------------------------------------------------------------
(* Limits *)

\* What a transaction counts in the log is no less than what was admitted since: the rows
\* that were pruned are too old for the oldest reading of the clock.
LEMMA TheLogSuffices ==
  ASSUME TypeOK, LogIsKept, NEW s \in Subjects, NEW at \in Readings, BelowLimit(s, at)
  PROVE  FewSince(s, at)
<1> DEFINE S == Since(s, at - WindowOf[s])
           R == Recent(s, at)
           f == [x \in S |-> [subject |-> s, event |-> x.event, at |-> x.at]]
<1>1. IsFiniteSet(R)
  <2>1. R \subseteq attempts /\ IsFiniteSet(attempts)
    BY DEF Recent, TypeOK
  <2> QED BY <2>1, FS_Subset
<1>2. S \subseteq [event : Requests \cup FactorCalls, at : Times]
  BY DEF Since, TypeOK
<1>3. /\ clock \in Nat /\ at \in Nat /\ clock - Lag <= at /\ Lag \in Nat /\ Times \subseteq Nat
  BY NumbersAssumption DEF TypeOK, Readings, Times
<1>4. ASSUME NEW x \in S PROVE f[x] \in R
  <2>1. x \in admitted[s] /\ x.at > at - WindowOf[s] /\ x.at \in Nat
    BY <1>2, <1>3 DEF Since
  <2>2. ~(x.at + WindowOf[s] <= clock - Lag)
    BY <1>3, <2>1, SubjectsHaveLimits
  <2>3. [subject |-> s, event |-> x.event, at |-> x.at] \in attempts
    BY <2>1, <2>2 DEF LogIsKept
  <2> QED BY <2>1, <2>3 DEF Recent
<1>5. \A x, y \in S : f[x] = f[y] => x = y
  <2> SUFFICES ASSUME NEW x \in S, NEW y \in S, f[x] = f[y] PROVE x = y
    OBVIOUS
  <2>1. x.event = y.event /\ x.at = y.at
    OBVIOUS
  <2> QED BY <1>2, <2>1
<1> HIDE DEF S, R
<1>6. f \in Injection(S, R)
  BY <1>4, <1>5, Zenon DEF Injection, IsInjective
<1>7. IsFiniteSet(S) /\ Cardinality(S) <= Cardinality(R)
  BY <1>1, <1>6, FS_Injection
<1>8. Cardinality(R) < LimitOf[s] /\ LimitOf[s] \in Nat
  BY SubjectsHaveLimits DEF BelowLimit, R
<1>9. Cardinality(S) < LimitOf[s]
  BY <1>1, <1>7, <1>8, FS_CardinalityType
<1> QED BY <1>9 DEF FewSince, S

\* The log and the clock move while transactions wait.
LEMMA LogMoves ==
  ASSUME LimitsInv, UNCHANGED <<admitted, request, calls>>,
         \A s \in Subjects : \A x \in admitted[s] :
           \/ [subject |-> s, event |-> x.event, at |-> x.at] \in attempts'
           \/ x.at + WindowOf[s] <= clock' - Lag
  PROVE  LimitsInv'
<1>1. OneCounts' /\ FactorLocks' /\ AdmittedOnce'
  BY DEF LimitsInv, OneCounts, FactorLocks, AdmittedOnce
<1>2. LinkCounts' /\ FactorCounts'
  BY DEF LimitsInv, LinkCounts, FactorCounts, SubjectsOf, FewSince, Since
<1>3. LogIsKept'
  BY DEF LogIsKept
<1> QED BY <1>1, <1>2, <1>3 DEF LimitsInv

\* A request for a link goes on, and nothing is admitted.
LEMMA RequestGoesOn ==
  ASSUME LimitsInv, UNCHANGED <<clock, admitted, calls>>, attempts \subseteq attempts',
         NEW r \in Requests,
         \A q \in Requests \ {r} : request'[q] = request[q],
         request[r].step # "admitted",
         request'[r].step = "counted" =>
           /\ DeliveryLockFree
           /\ request'[r].within => \A s \in SubjectsOf(r)' : FewSince(s, request'[r].at)
  PROVE  LimitsInv'
<1>1. OneCounts'
  BY DEF LimitsInv, OneCounts, DeliveryLockFree
<1>2. LinkCounts'
  <2> SUFFICES ASSUME NEW q \in Requests, request'[q].step = "counted", request'[q].within,
                      NEW s \in SubjectsOf(q)'
               PROVE  FewSince(s, request'[q].at)
    BY DEF LinkCounts, FewSince, Since
  <2>1. CASE q = r
    BY <2>1
  <2>2. CASE q # r
    BY <2>2 DEF LimitsInv, LinkCounts, SubjectsOf
  <2> QED BY <2>1, <2>2
<1>3. FactorLocks' /\ FactorCounts'
  BY DEF LimitsInv, FactorLocks, FactorCounts, FewSince, Since
<1>4. LogIsKept' /\ AdmittedOnce'
  BY DEF LimitsInv, LogIsKept, AdmittedOnce
<1> QED BY <1>1, <1>2, <1>3, <1>4 DEF LimitsInv

\* A second-factor call goes on, and nothing is admitted.
LEMMA FactorCallGoesOn ==
  ASSUME LimitsInv, UNCHANGED <<clock, admitted, request>>, attempts \subseteq attempts',
         NEW v \in FactorCalls,
         \A w \in FactorCalls \ {v} : calls'[w] = calls[w],
         calls[v].step \notin {"verified", "invalid"},
         calls'[v].step = "counted" =>
           /\ \A w \in FactorCalls : calls[w].step = "counted" => calls[w].session # calls'[v].session
           /\ calls'[v].within => FewSince(calls'[v].session, calls'[v].at)
  PROVE  LimitsInv'
<1>1. OneCounts' /\ LinkCounts'
  BY DEF LimitsInv, OneCounts, LinkCounts, SubjectsOf, FewSince, Since
<1>2. FactorLocks'
  BY DEF LimitsInv, FactorLocks
<1>3. FactorCounts'
  <2> SUFFICES ASSUME NEW w \in FactorCalls, calls'[w].step = "counted", calls'[w].within
               PROVE  FewSince(calls'[w].session, calls'[w].at)
    BY DEF FactorCounts, FewSince, Since
  <2> QED BY DEF LimitsInv, FactorCounts
<1>4. LogIsKept' /\ AdmittedOnce'
  BY DEF LimitsInv, LogIsKept, AdmittedOnce
<1> QED BY <1>1, <1>2, <1>3, <1>4 DEF LimitsInv

\* A link is admitted, for its address, its network and the service.
LinkIsAdmitted(r) ==
  /\ request[r].step = "counted" /\ request[r].within
  /\ admitted' = Admitting(SubjectsOf(r), r, request[r].at)

\* The call had the service's lock since it counted, so every limit still holds after it.
LEMMA LinkCommits ==
  ASSUME TypeOK, LimitsInv, HasSession, NEW r \in Requests, LinkIsAdmitted(r),
         UNCHANGED <<clock, calls>>,
         attempts' = attempts \cup {[subject |-> s, event |-> r, at |-> request[r].at] : s \in SubjectsOf(r)},
         \A q \in Requests \ {r} : request'[q] = request[q],
         request'[r].step = "admitted"
  PROVE  LimitsInv'
<1>1. SubjectsOf(r) \subseteq Subjects /\ SubjectsOf(r) \cap Redemptions = {}
  BY SubjectsOfLinks
<1>2. PICK t \in Times : t = request[r].at
  BY DEF TypeOK, RequestLocals
<1>3. \A s \in Subjects :
        admitted'[s] = IF s \in SubjectsOf(r) THEN admitted[s] \cup {[event |-> r, at |-> t]} ELSE admitted[s]
  BY <1>2 DEF LinkIsAdmitted, Admitting
<1>4. OneCounts' /\ LinkCounts'
  BY DEF LimitsInv, OneCounts, LinkCounts, LinkIsAdmitted
<1>5. FactorLocks'
  BY DEF LimitsInv, FactorLocks
<1>6. FactorCounts'
  <2> SUFFICES ASSUME NEW v \in FactorCalls, calls[v].step = "counted", calls[v].within
               PROVE  FewSince(calls[v].session, calls[v].at)'
    BY DEF FactorCounts
  <2>1. calls[v].session \in Subjects /\ calls[v].session \notin SubjectsOf(r)
    BY <1>1 DEF HasSession, Subjects
  <2>2. admitted'[calls[v].session] = admitted[calls[v].session]
    BY <1>3, <2>1
  <2> QED BY <2>2 DEF LimitsInv, FactorCounts, FewSince, Since
<1>7. LogIsKept'
  <2> SUFFICES ASSUME NEW s \in Subjects, NEW x \in admitted'[s]
               PROVE  \/ [subject |-> s, event |-> x.event, at |-> x.at] \in attempts'
                      \/ x.at + WindowOf[s] <= clock - Lag
    BY DEF LogIsKept
  <2>1. CASE x \in admitted[s]
    BY <2>1 DEF LimitsInv, LogIsKept
  <2>2. CASE s \in SubjectsOf(r) /\ x = [event |-> r, at |-> t]
    BY <1>2, <2>2
  <2> QED BY <1>3, <2>1, <2>2
<1>8. AdmittedOnce'
  <2> SUFFICES ASSUME NEW s \in Subjects, NEW x \in admitted'[s]
               PROVE  /\ x.event \in Requests => request'[x.event].step = "admitted"
                      /\ x.event \in FactorCalls => calls[x.event].step \in {"verified", "invalid"}
    BY DEF AdmittedOnce
  <2>1. CASE x \in admitted[s]
    BY <2>1 DEF LimitsInv, AdmittedOnce
  <2>2. CASE x = [event |-> r, at |-> t]
    BY <2>2, SubjectsAssumption
  <2> QED BY <1>3, <2>1, <2>2
<1> QED BY <1>4, <1>5, <1>6, <1>7, <1>8 DEF LimitsInv

\* A credential is judged, for its session.
AttemptIsAdmitted(v) ==
  /\ calls[v].step = "counted" /\ calls[v].within
  /\ admitted' = Admitting({calls[v].session}, v, calls[v].at)

\* The call had the session's lock since it counted, so its limit still holds after it.
LEMMA AttemptCommits ==
  ASSUME TypeOK, LimitsInv, HasSession, NEW v \in FactorCalls, AttemptIsAdmitted(v),
         UNCHANGED <<clock, request>>,
         attempts' = attempts \cup {[subject |-> calls[v].session, event |-> v, at |-> calls[v].at]},
         \A w \in FactorCalls \ {v} : calls'[w] = calls[w],
         calls'[v].step \in {"verified", "invalid"}
  PROVE  LimitsInv'
<1>1. PICK c \in Redemptions : c = calls[v].session
  BY DEF AttemptIsAdmitted, HasSession
<1>2. PICK t \in Times : t = calls[v].at
  BY DEF TypeOK, CallLocals
<1>3. \A s \in Subjects :
        admitted'[s] = IF s = c THEN admitted[s] \cup {[event |-> v, at |-> t]} ELSE admitted[s]
  BY <1>1, <1>2 DEF AttemptIsAdmitted, Admitting
<1>4. OneCounts'
  BY DEF LimitsInv, OneCounts
<1>5. LinkCounts'
  <2> SUFFICES ASSUME NEW r \in Requests, request[r].step = "counted", request[r].within,
                      NEW s \in SubjectsOf(r)
               PROVE  FewSince(s, request[r].at)'
    BY DEF LinkCounts, SubjectsOf
  <2>1. s \in Subjects /\ s # c
    BY SubjectsOfLinks
  <2>2. admitted'[s] = admitted[s]
    BY <1>3, <2>1
  <2> QED BY <2>2 DEF LimitsInv, LinkCounts, FewSince, Since
<1>6. FactorLocks'
  BY DEF LimitsInv, FactorLocks
<1>7. FactorCounts'
  <2> SUFFICES ASSUME NEW w \in FactorCalls, calls'[w].step = "counted", calls'[w].within
               PROVE  FewSince(calls[w].session, calls[w].at)'
    BY DEF FactorCounts
  <2>1. w # v /\ calls'[w] = calls[w]
    OBVIOUS
  <2>2. calls[w].session \in Subjects /\ calls[w].session # c
    BY <1>1, <2>1 DEF HasSession, Subjects, LimitsInv, FactorLocks, AttemptIsAdmitted
  <2>3. admitted'[calls[w].session] = admitted[calls[w].session]
    BY <1>3, <2>2
  <2> QED BY <2>1, <2>3 DEF LimitsInv, FactorCounts, FewSince, Since
<1>8. LogIsKept'
  <2> SUFFICES ASSUME NEW s \in Subjects, NEW x \in admitted'[s]
               PROVE  \/ [subject |-> s, event |-> x.event, at |-> x.at] \in attempts'
                      \/ x.at + WindowOf[s] <= clock - Lag
    BY DEF LogIsKept
  <2>1. CASE x \in admitted[s]
    BY <2>1 DEF LimitsInv, LogIsKept
  <2>2. CASE s = c /\ x = [event |-> v, at |-> t]
    BY <1>1, <1>2, <2>2
  <2> QED BY <1>3, <2>1, <2>2
<1>9. AdmittedOnce'
  <2> SUFFICES ASSUME NEW s \in Subjects, NEW x \in admitted'[s]
               PROVE  /\ x.event \in Requests => request[x.event].step = "admitted"
                      /\ x.event \in FactorCalls => calls'[x.event].step \in {"verified", "invalid"}
    BY DEF AdmittedOnce
  <2>1. CASE x \in admitted[s]
    BY <2>1 DEF LimitsInv, AdmittedOnce
  <2>2. CASE x = [event |-> v, at |-> t]
    BY <2>2, SubjectsAssumption
  <2> QED BY <1>3, <2>1, <2>2
<1> QED BY <1>4, <1>5, <1>6, <1>7, <1>8, <1>9 DEF LimitsInv
\* What the commit of a request for a link does to the log.
LEMMA SignInCommits ==
  ASSUME TypeOK, NEW r \in Requests, NEW policy \in Policies, CommitSignIn(r, policy)
  PROVE  /\ UNCHANGED <<clock, calls>> /\ attempts \subseteq attempts' /\ request[r].step = "counted"
         /\ \A q \in Requests \ {r} : request'[q] = request[q]
         /\ \/ /\ LinkIsAdmitted(r) /\ request'[r].step = "admitted"
               /\ attempts' = attempts \cup
                    {[subject |-> s, event |-> r, at |-> request[r].at] : s \in SubjectsOf(r)}
            \/ request'[r].step = "refused" /\ UNCHANGED admitted
<1>1. UNCHANGED <<clock, calls>> /\ attempts \subseteq attempts' /\ request[r].step = "counted"
  BY DEF CommitSignIn, secondFactor
<1>2. \A q \in Requests \ {r} : request'[q] = request[q]
  BY DEF CommitSignIn, TypeOK
<1>3. CASE Admits(policy, request[r].email) /\ request[r].within
  <2>1. request'[r].step = "admitted"
    BY <1>3 DEF CommitSignIn, TypeOK, RequestLocals
  <2> QED BY <1>1, <1>2, <1>3, <2>1 DEF CommitSignIn, LinkIsAdmitted
<1>4. CASE ~(Admits(policy, request[r].email) /\ request[r].within)
  <2>1. request'[r].step = "refused"
    BY <1>4 DEF CommitSignIn, TypeOK, NoRequest
  <2> QED BY <1>1, <1>2, <1>4, <2>1 DEF CommitSignIn
<1> QED BY <1>3, <1>4

\* What the commit of a verification does to it.
LEMMA VerificationCommits ==
  ASSUME TypeOK, NEW v \in FactorCalls, CommitVerification(v)
  PROVE  /\ UNCHANGED <<clock, request>> /\ attempts \subseteq attempts' /\ calls[v].step = "counted"
         /\ \A w \in FactorCalls \ {v} : calls'[w] = calls[w]
         /\ \/ /\ AttemptIsAdmitted(v) /\ calls'[v].step = Outcome(v) /\ Outcome(v) \in {"verified", "invalid"}
               /\ calls'[v].session = calls[v].session /\ calls'[v].credential = calls[v].credential
               /\ attempts' = attempts \cup {[subject |-> calls[v].session, event |-> v, at |-> calls[v].at]}
            \/ calls'[v].step = "limited" /\ Outcome(v) = "limited" /\ UNCHANGED admitted
<1>1. UNCHANGED <<clock, request>> /\ attempts \subseteq attempts' /\ calls[v].step = "counted"
  BY DEF CommitVerification, signIn
<1>2. \A w \in FactorCalls \ {v} : calls'[w] = calls[w]
  BY DEF CommitVerification, TypeOK
<1>3. CASE calls[v].within
  <2>1. Outcome(v) \in {"verified", "invalid"}
    BY <1>3 DEF Outcome
  <2>2. /\ calls'[v].step = Outcome(v) /\ calls'[v].session = calls[v].session
        /\ calls'[v].credential = calls[v].credential
    BY <2>1 DEF CommitVerification, TypeOK, CallLocals
  <2> QED BY <1>1, <1>2, <1>3, <2>1, <2>2 DEF CommitVerification, AttemptIsAdmitted
<1>4. CASE ~calls[v].within
  <2>1. Outcome(v) = "limited"
    BY <1>4 DEF Outcome
  <2>2. calls'[v].step = "limited"
    BY <2>1 DEF CommitVerification, TypeOK, NoCall
  <2> QED BY <1>1, <1>2, <1>4, <2>1, <2>2 DEF CommitVerification
<1> QED BY <1>3, <1>4

\* What every step keeps about the limits.
LEMMA LimitsNext == ASSUME TypeOK, HasSession, LimitsInv, [Next]_vars PROVE LimitsInv'
<1>1. ASSUME NEW r \in Requests, CountDeliveries(r) PROVE LimitsInv'
  <2>1. PICK e \in Emails \cup {Invalid}, n \in Networks, at \in Readings :
          request' = [request EXCEPT ![r] =
            [step |-> "counted", email |-> e, network |-> n, at |-> at,
             within |-> \A s \in {e, n, Service} : BelowLimit(s, at)]]
    BY <1>1 DEF CountDeliveries
  <2>2. /\ request[r].step = "new" /\ DeliveryLockFree /\ UNCHANGED <<clock, log, calls>>
    BY <1>1 DEF CountDeliveries, secondFactor
  <2>3. /\ request'[r].email = e /\ request'[r].network = n /\ request'[r].at = at
        /\ request'[r].within => \A s \in {e, n, Service} : BelowLimit(s, at)
        /\ \A q \in Requests \ {r} : request'[q] = request[q]
    BY <2>1 DEF TypeOK
  <2>4. ASSUME request'[r].within, NEW s \in SubjectsOf(r)' PROVE FewSince(s, request'[r].at)
    <3>1. s \in {e, n, Service} /\ s \in Subjects
      BY <2>3, <2>4 DEF SubjectsOf, Subjects
    <3> QED BY <2>3, <2>4, <3>1, TheLogSuffices DEF LimitsInv
  <2> QED BY <2>2, <2>3, <2>4, RequestGoesOn DEF log
<1>2. ASSUME NEW r \in Requests, NEW policy \in Policies, CommitSignIn(r, policy) PROVE LimitsInv'
  BY <1>2, SignInCommits, LinkCommits, RequestGoesOn
<1>3. ASSUME NEW r \in Requests, AbortSignIn(r) PROVE LimitsInv'
  <2>1. /\ request[r].step = "counted" /\ request'[r].step = "new"
        /\ \A q \in Requests \ {r} : request'[q] = request[q]
        /\ UNCHANGED <<clock, log, calls>>
    BY <1>3 DEF AbortSignIn, TypeOK, NoRequest, secondFactor
  <2> QED BY <2>1, RequestGoesOn DEF log
<1>4. ASSUME NEW v \in FactorCalls, NEW c \in Redemptions, BeginEnrollment(v, c) \/ BeginVerification(v, c)
      PROVE  LimitsInv'
  <2>1. /\ calls[v].step = "new" /\ calls'[v].step \in {"enrolling", "checked"}
        /\ \A w \in FactorCalls \ {v} : calls'[w] = calls[w]
    BY <1>4 DEF BeginEnrollment, BeginVerification, TypeOK, CallLocals
  <2>2. UNCHANGED <<clock, log, request>>
    BY <1>4 DEF BeginEnrollment, BeginVerification, signIn
  <2> QED BY <2>1, <2>2, FactorCallGoesOn DEF log
<1>5. ASSUME NEW v \in FactorCalls, CommitEnrollment(v) PROVE LimitsInv'
  <2>1. /\ calls[v].step = "enrolling" /\ calls'[v].step \in {"enrolled", "new"}
        /\ \A w \in FactorCalls \ {v} : calls'[w] = calls[w]
    BY <1>5 DEF CommitEnrollment, TypeOK, CallLocals, NoCall
  <2>2. UNCHANGED <<clock, log, request>>
    BY <1>5 DEF CommitEnrollment, signIn
  <2> QED BY <2>1, <2>2, FactorCallGoesOn DEF log
<1>6. ASSUME NEW v \in FactorCalls, CountAttempts(v) PROVE LimitsInv'
  <2>1. PICK at \in Readings, credential \in Codes \cup {"totp", "wrong"} :
       calls' = [calls EXCEPT ![v] =
         [step |-> "counted", session |-> calls[v].session, at |-> at,
          within |-> BelowLimit(calls[v].session, at), credential |-> credential,
          found |-> IsUnused(sessions[calls[v].session].operator, credential)]]
    BY <1>6 DEF CountAttempts
  <2>2. /\ calls[v].step = "checked" /\ UNCHANGED <<clock, log, request>>
        /\ \A w \in FactorCalls : calls[w].step = "counted" => calls[w].session # calls[v].session
    BY <1>6 DEF CountAttempts, signIn
  <2>3. /\ calls'[v].session = calls[v].session /\ calls'[v].at = at
        /\ calls'[v].within => BelowLimit(calls[v].session, at)
        /\ \A w \in FactorCalls \ {v} : calls'[w] = calls[w]
    BY <2>1 DEF TypeOK
  <2>4. calls[v].session \in Subjects
    BY <2>2 DEF HasSession, Subjects
  <2>5. calls'[v].within => FewSince(calls'[v].session, calls'[v].at)
    BY <2>3, <2>4, TheLogSuffices DEF LimitsInv
  <2> QED BY <2>2, <2>3, <2>5, FactorCallGoesOn DEF log
<1>7. ASSUME NEW v \in FactorCalls, CommitVerification(v) PROVE LimitsInv'
  <2>1. CASE AttemptIsAdmitted(v) /\ calls'[v].step \in {"verified", "invalid"}
             /\ attempts' = attempts \cup {[subject |-> calls[v].session, event |-> v, at |-> calls[v].at]}
    BY <1>7, <2>1, VerificationCommits, AttemptCommits
  <2>2. CASE calls'[v].step = "limited" /\ UNCHANGED admitted
    BY <1>7, <2>2, VerificationCommits, FactorCallGoesOn
  <2> QED BY <1>7, <2>1, <2>2, VerificationCommits
<1>8. ASSUME NEW v \in FactorCalls, AbortCall(v) PROVE LimitsInv'
  <2>1. /\ calls[v].step \in {"enrolling", "checked", "counted"} /\ calls'[v].step = "new"
        /\ \A w \in FactorCalls \ {v} : calls'[w] = calls[w]
        /\ UNCHANGED <<clock, log, request>>
    BY <1>8 DEF AbortCall, TypeOK, NoCall, signIn
  <2> QED BY <2>1, FactorCallGoesOn DEF log
<1>9. ASSUME Prune PROVE LimitsInv'
  <2>1. UNCHANGED <<clock, admitted, request, calls>>
    BY <1>9 DEF Prune, signIn, secondFactor
  <2>2. PICK t \in Readings : attempts' = Kept(t)
    BY <1>9 DEF Prune
  <2>3. ASSUME NEW s \in Subjects, NEW x \in admitted[s]
        PROVE  \/ [subject |-> s, event |-> x.event, at |-> x.at] \in attempts'
               \/ x.at + WindowOf[s] <= clock' - Lag
    <3>1. x.at \in Nat /\ t \in Nat /\ t <= clock /\ clock \in Nat
      BY NumbersAssumption DEF TypeOK, Readings, Times
    <3>2. CASE x.at > t - Retention
      BY <2>1, <2>2, <3>2 DEF Kept, LimitsInv, LogIsKept
    <3>3. CASE ~(x.at > t - Retention)
      BY <2>1, <3>1, <3>3, NumbersAssumption, SubjectsHaveLimits
    <3> QED BY <3>2, <3>3
  <2> QED BY <2>1, <2>3, LogMoves
<1>10. ASSUME Tick PROVE LimitsInv'
  <2>1. UNCHANGED <<attempts, admitted, request, calls>> /\ clock' = clock + 1
    BY <1>10 DEF Tick, log, signIn, secondFactor
  <2>2. ASSUME NEW s \in Subjects, NEW x \in admitted[s]
        PROVE  \/ [subject |-> s, event |-> x.event, at |-> x.at] \in attempts'
               \/ x.at + WindowOf[s] <= clock' - Lag
    <3>1. x.at \in Nat /\ clock \in Nat
      BY NumbersAssumption DEF TypeOK, Times
    <3> QED BY <2>1, <2>2, <3>1, NumbersAssumption, SubjectsHaveLimits DEF LimitsInv, LogIsKept
  <2> QED BY <2>1, <2>2, LogMoves
<1>11. CASE UNCHANGED <<clock, attempts, admitted, request, calls>>
  BY <1>11, LogMoves DEF LimitsInv, LogIsKept
<1> QED
  BY <1>1, <1>2, <1>3, <1>4, <1>5, <1>6, <1>7, <1>8, <1>9, <1>10, <1>11
  DEF Next, SigningIn, Verifying, Redeem, Declare, SignOut, RequestDeletion, vars, log, signIn,
      secondFactor

\* The limits count as the transactions do.
LEMMA SameCardinality == ASSUME NEW S PROVE Limits!Cardinality(S) = Cardinality(S)
  BY DEF Limits!Cardinality, Cardinality

\* What is admitted for some subjects is within the limit of each.
LEMMA AdmittingIsAdmit ==
  ASSUME NEW e \in Requests \cup FactorCalls, NEW t \in Times, NEW S \in SUBSET Subjects,
         admitted' = Admitting(S, e, t),
         \A s \in S : FewSince(s, t),
         \A s \in Subjects : \A x \in admitted[s] : x.event # e
  PROVE  [Limits!Next]_admitted
<1>1. admitted' = [s \in Subjects |-> admitted'[s]]
  BY DEF Admitting
<1>2. ASSUME NEW s \in Subjects
      PROVE  \/ admitted'[s] = admitted[s]
             \/ /\ admitted'[s] = admitted[s] \cup {[event |-> e, at |-> t]}
                /\ Cardinality(Limits!Later(s, t - WindowOf[s])) < LimitOf[s]
  BY DEF Admitting, FewSince, Since, Limits!Later
<1>3. Limits!Admit(e, t)
  BY <1>1, <1>2, SameCardinality DEF Limits!Admit
<1> QED BY <1>3 DEF Limits!Next

\* Every step admits one link or attempt within the limits, or none.
LEMMA StepsKeepToLimits ==
  ASSUME TypeOK, HasSession, LimitsInv, [Next]_vars
  PROVE  [Limits!Next]_admitted
<1>1. ASSUME NEW r \in Requests, LinkIsAdmitted(r) PROVE [Limits!Next]_admitted
  <2>1. request[r].at \in Times
    BY DEF TypeOK, RequestLocals
  <2>2. \A s \in SubjectsOf(r) : FewSince(s, request[r].at)
    BY <1>1 DEF LinkIsAdmitted, LimitsInv, LinkCounts
  <2>3. \A s \in Subjects : \A x \in admitted[s] : x.event # r
    BY <1>1 DEF LinkIsAdmitted, LimitsInv, AdmittedOnce
  <2> QED BY <1>1, <2>1, <2>2, <2>3, SubjectsOfLinks, AdmittingIsAdmit DEF LinkIsAdmitted
<1>2. ASSUME NEW v \in FactorCalls, AttemptIsAdmitted(v) PROVE [Limits!Next]_admitted
  <2>1. calls[v].at \in Times
    BY DEF TypeOK, CallLocals
  <2>2. FewSince(calls[v].session, calls[v].at)
    BY <1>2 DEF AttemptIsAdmitted, LimitsInv, FactorCounts
  <2>3. \A s \in Subjects : \A x \in admitted[s] : x.event # v
    BY <1>2 DEF AttemptIsAdmitted, LimitsInv, AdmittedOnce
  <2>4. {calls[v].session} \in SUBSET Subjects
    BY <1>2 DEF AttemptIsAdmitted, HasSession, Subjects
  <2> QED BY <1>2, <2>1, <2>2, <2>3, <2>4, AdmittingIsAdmit DEF AttemptIsAdmitted
<1>3. ASSUME NEW r \in Requests, SigningIn(r) PROVE UNCHANGED admitted \/ LinkIsAdmitted(r)
  BY <1>3, SignInCommits DEF SigningIn, CountDeliveries, AbortSignIn, Redeem, log
<1>4. ASSUME NEW v \in FactorCalls, Verifying(v) PROVE UNCHANGED admitted \/ AttemptIsAdmitted(v)
  BY <1>4, VerificationCommits
  DEF Verifying, BeginEnrollment, BeginVerification, CommitEnrollment, CountAttempts, AbortCall, log
<1>5. CASE UNCHANGED admitted
  BY <1>5
<1> QED
  BY <1>1, <1>2, <1>3, <1>4, <1>5 DEF Next, Declare, SignOut, RequestDeletion, Prune, Tick, vars, log
-----------------------------------------------------------------------------
(* Credentials and the second factor *)

\* A link opens one session, and a code completes one verification.
LinksWorkOnce ==
  \A c, d \in Redemptions :
    Opened(c) /\ Opened(d) /\ sessions[c].token = sessions[d].token => c = d
CodesWorkOnce ==
  \A v, w \in FactorCalls :
    /\ calls[v].step = "verified" /\ calls[w].step = "verified"
    /\ calls[v].credential = calls[w].credential /\ calls[v].credential \in Codes
    /\ OwnerOf(v) = OwnerOf(w)
    => v = w

\* The parts of what is earned.
OwnCodes == \A v \in FactorCalls : calls[v].step = "enrolled" => factors[OwnerOf(v)].by = v
EarnedSessions ==
  \A c \in Redemptions : Opened(c) /\ sessions[c].verified =>
    \E v \in FactorCalls : calls[v].session = c /\ calls[v].step \in {"enrolled", "verified"}
EarnedCodes ==
  \A o \in Emails : factors[o] # NoFactor => \A k \in Codes \ factors[o].unused :
    \E v \in FactorCalls : calls[v].step = "verified" /\ calls[v].credential = k /\ OwnerOf(v) = o

\* The invariant by its parts.
LEMMA FactorsInvParts ==
  FactorsInv <=>
    /\ HasSession /\ LinksAreUsed /\ CodesAreUsed /\ EnrolledOnce
    /\ LinksWorkOnce /\ CodesWorkOnce /\ OwnCodes /\ EarnedSessions /\ EarnedCodes
  BY DEF FactorsInv, CredentialsWorkOnce, SecondFactorsAreEarned, LinksWorkOnce, CodesWorkOnce,
         OwnCodes, EarnedSessions, EarnedCodes, OwnerOf

\* Links are used up and sessions opened, revoked or declared; the calls stay as they are.
LEMMA SessionsMove ==
  ASSUME TypeOK, FactorsInv, SessionsKept, UNCHANGED <<factors, calls>>,
         LinksAreUsed', LinksWorkOnce',
         \A c \in Redemptions : Opened(c)' /\ sessions'[c].verified => Opened(c) /\ sessions[c].verified
  PROVE  FactorsInv'
<1> USE FactorsInvParts
<1>1. HasSession'
  BY DEF HasSession, SessionsKept, Opened
<1>2. \A v \in FactorCalls : calls[v].step \in {"enrolled", "verified"} => OwnerOf(v)' = OwnerOf(v)
  BY DEF HasSession, SessionsKept, OwnerOf
<1>3. CodesAreUsed' /\ EnrolledOnce' /\ CodesWorkOnce' /\ OwnCodes'
  BY <1>2 DEF CodesAreUsed, EnrolledOnce, CodesWorkOnce, OwnCodes
<1>4. EarnedSessions'
  BY DEF EarnedSessions
<1>5. EarnedCodes'
  BY <1>2 DEF EarnedCodes
<1> QED
  BY <1>1, <1>3, <1>4, <1>5
  DEF FactorsInv, CredentialsWorkOnce, SecondFactorsAreEarned, LinksWorkOnce, CodesWorkOnce,
      OwnCodes, EarnedSessions, EarnedCodes, OwnerOf

\* A call that has not ended well goes on or fails.
LEMMA CallsMove ==
  ASSUME TypeOK, FactorsInv, UNCHANGED <<consumed, sessions, factors>>,
         NEW v \in FactorCalls,
         \A w \in FactorCalls \ {v} : calls'[w] = calls[w],
         calls[v].step \notin {"enrolled", "verified"},
         calls'[v].step \notin {"enrolled", "verified"},
         calls'[v].step \notin {"new", "limited"} =>
           calls'[v].session \in Redemptions /\ Opened(calls'[v].session)
  PROVE  FactorsInv'
<1> USE FactorsInvParts
<1>1. HasSession'
  BY DEF HasSession, Opened
<1>2. \A w \in FactorCalls : calls'[w].step \in {"enrolled", "verified"} =>
        w # v /\ calls'[w] = calls[w] /\ OwnerOf(w)' = OwnerOf(w)
  BY DEF OwnerOf
<1>3. LinksAreUsed' /\ LinksWorkOnce'
  BY DEF LinksAreUsed, LinksWorkOnce, Opened
<1>4. CodesAreUsed' /\ EnrolledOnce' /\ CodesWorkOnce' /\ OwnCodes'
  BY <1>2 DEF CodesAreUsed, EnrolledOnce, CodesWorkOnce, OwnCodes
<1>5. \A w \in FactorCalls : calls[w].step \in {"enrolled", "verified"} =>
        w # v /\ calls'[w] = calls[w] /\ OwnerOf(w)' = OwnerOf(w)
  BY DEF OwnerOf
<1>6. EarnedSessions'
  BY <1>5 DEF EarnedSessions, Opened
<1>7. EarnedCodes'
  BY <1>5 DEF EarnedCodes
<1> QED
  BY <1>1, <1>3, <1>4, <1>6, <1>7
  DEF FactorsInv, CredentialsWorkOnce, SecondFactorsAreEarned, LinksWorkOnce, CodesWorkOnce,
      OwnCodes, EarnedSessions, EarnedCodes, OwnerOf

\* A call ends well: it enrols a factor nobody has, or verifies with what is not used up.
LEMMA CallEndsWell ==
  ASSUME TypeOK, FactorsInv, UNCHANGED consumed,
         NEW v \in FactorCalls, NEW c \in Redemptions, NEW o \in Emails,
         calls[v].session = c, Opened(c), sessions[c].operator = o,
         calls[v].step \notin {"enrolled", "verified"},
         \A w \in FactorCalls \ {v} : calls'[w] = calls[w],
         calls'[v].session = c,
         UNCHANGED sessions \/ sessions' = [sessions EXCEPT ![c].verified = TRUE],
         \A p \in Emails \ {o} : factors'[p] = factors[p],
         \/ /\ calls'[v].step = "enrolled" /\ factors[o] = NoFactor
            /\ factors'[o] # NoFactor /\ factors'[o].by = v /\ factors'[o].unused = Codes
         \/ /\ calls'[v].step = "verified" /\ calls'[v].credential \notin Codes
            /\ factors'[o] = factors[o]
         \/ /\ calls'[v].step = "verified" /\ calls'[v].credential \in Codes
            /\ factors[o] # NoFactor /\ calls'[v].credential \in factors[o].unused
            /\ factors'[o] # NoFactor /\ factors'[o].by = factors[o].by
            /\ factors'[o].unused = factors[o].unused \ {calls'[v].credential}
  PROVE  FactorsInv'
<1> USE FactorsInvParts
<1>1. SessionsKept
  BY SessionsSame, SessionsChange
<1>2. \A d \in Redemptions : Opened(d)' => Opened(d) /\ (sessions'[d].verified => sessions[d].verified \/ d = c)
  BY DEF Opened, TypeOK
<1>3. HasSession'
  BY <1>1 DEF HasSession, SessionsKept, Opened
<1>4. OwnerOf(v)' = o
  BY <1>1 DEF OwnerOf, SessionsKept
<1>5. \A w \in FactorCalls \ {v} : calls[w].step \in {"enrolled", "verified"} =>
        OwnerOf(w)' = OwnerOf(w) /\ OwnerOf(w) \in Emails
  <2> SUFFICES ASSUME NEW w \in FactorCalls \ {v}, calls[w].step \in {"enrolled", "verified"}
               PROVE  OwnerOf(w)' = OwnerOf(w) /\ OwnerOf(w) \in Emails
    OBVIOUS
  <2>1. calls[w].session \in Redemptions /\ Opened(calls[w].session) /\ calls'[w] = calls[w]
    BY DEF HasSession
  <2>2. sessions[calls[w].session] \in SessionRows
    BY <2>1, SessionsAreRows
  <2>3. OwnerOf(w) \in Emails
    BY <2>2 DEF OwnerOf, SessionRows
  <2> QED BY <1>1, <2>1, <2>3 DEF OwnerOf, SessionsKept
<1>6. LinksAreUsed' /\ LinksWorkOnce'
  BY <1>1, <1>2 DEF LinksAreUsed, LinksWorkOnce, SessionsKept
<1>7. CodesAreUsed'
  <2> SUFFICES ASSUME NEW w \in FactorCalls, calls'[w].step = "verified", calls'[w].credential \in Codes
               PROVE  factors'[OwnerOf(w)'] # NoFactor
                      /\ calls'[w].credential \notin factors'[OwnerOf(w)'].unused
    BY DEF CodesAreUsed
  <2>1. CASE w = v
    BY <1>4, <2>1
  <2>2. CASE w # v
    <3>1. /\ factors[OwnerOf(w)] # NoFactor /\ calls[w].credential \notin factors[OwnerOf(w)].unused
          /\ OwnerOf(w)' = OwnerOf(w) /\ OwnerOf(w) \in Emails /\ calls'[w] = calls[w]
      BY <1>5, <2>2 DEF CodesAreUsed
    <3>2. CASE OwnerOf(w) = o
      BY <3>1, <3>2
    <3>3. CASE OwnerOf(w) # o
      BY <3>1, <3>3
    <3> QED BY <3>2, <3>3
  <2> QED BY <2>1, <2>2
<1>8. EnrolledOnce' /\ OwnCodes'
  <2> SUFFICES ASSUME NEW w \in FactorCalls, calls'[w].step = "enrolled"
               PROVE  factors'[OwnerOf(w)'] # NoFactor /\ factors'[OwnerOf(w)'].by = w
    BY DEF EnrolledOnce, OwnCodes
  <2>1. CASE w = v
    BY <1>4, <2>1
  <2>2. CASE w # v
    <3>1. /\ factors[OwnerOf(w)] # NoFactor /\ factors[OwnerOf(w)].by = w
          /\ OwnerOf(w)' = OwnerOf(w) /\ OwnerOf(w) \in Emails
      BY <1>5, <2>2 DEF EnrolledOnce, OwnCodes
    <3>2. CASE OwnerOf(w) = o
      BY <3>1, <3>2
    <3>3. CASE OwnerOf(w) # o
      BY <3>1, <3>3
    <3> QED BY <3>2, <3>3
  <2> QED BY <2>1, <2>2
<1>9. CodesWorkOnce'
  <2>1. ASSUME NEW w \in FactorCalls \ {v}, calls'[w].step = "verified", calls'[v].step = "verified",
               calls'[v].credential = calls'[w].credential, calls'[v].credential \in Codes,
               OwnerOf(w)' = OwnerOf(v)'
        PROVE  FALSE
    <3>1. calls[w].step = "verified" /\ OwnerOf(w) = o /\ calls[w].credential = calls'[v].credential
      BY <1>4, <1>5, <2>1
    <3> QED BY <2>1, <3>1 DEF CodesAreUsed
  <2>2. ASSUME NEW w \in FactorCalls \ {v}, NEW u \in FactorCalls \ {v},
               calls'[w].step = "verified", calls'[u].step = "verified",
               calls'[w].credential = calls'[u].credential, calls'[w].credential \in Codes,
               OwnerOf(w)' = OwnerOf(u)'
        PROVE  w = u
    BY <1>5, <2>2 DEF CodesWorkOnce
  <2> QED BY <2>1, <2>2 DEF CodesWorkOnce
<1>10. EarnedSessions'
  <2> SUFFICES ASSUME NEW d \in Redemptions, Opened(d)', sessions'[d].verified
               PROVE  \E w \in FactorCalls : calls'[w].session = d /\ calls'[w].step \in {"enrolled", "verified"}
    BY DEF EarnedSessions
  <2>1. CASE d = c
    BY <2>1
  <2>2. CASE d # c
    BY <1>2, <2>2 DEF EarnedSessions
  <2> QED BY <2>1, <2>2
<1>11. EarnedCodes'
  <2> SUFFICES ASSUME NEW p \in Emails, factors'[p] # NoFactor, NEW k \in Codes \ factors'[p].unused
               PROVE  \E w \in FactorCalls :
                        calls'[w].step = "verified" /\ calls'[w].credential = k /\ OwnerOf(w)' = p
    BY DEF EarnedCodes
  <2>1. CASE p = o /\ calls'[v].step = "verified" /\ calls'[v].credential = k
    BY <1>4, <2>1
  <2>2. CASE ~(p = o /\ calls'[v].step = "verified" /\ calls'[v].credential = k)
    <3>1. factors[p] # NoFactor /\ k \notin factors[p].unused
      <4>1. CASE p = o
        BY <2>2, <4>1
      <4>2. CASE p # o
        BY <4>2
      <4> QED BY <4>1, <4>2
    <3>2. PICK w \in FactorCalls : calls[w].step = "verified" /\ calls[w].credential = k /\ OwnerOf(w) = p
      BY <3>1 DEF EarnedCodes
    <3>3. w # v
      BY <3>2
    <3> QED BY <1>5, <3>2, <3>3
  <2> QED BY <2>1, <2>2
<1> QED
  BY <1>3, <1>6, <1>7, <1>8, <1>9, <1>10, <1>11
  DEF FactorsInv, CredentialsWorkOnce, SecondFactorsAreEarned, LinksWorkOnce, CodesWorkOnce,
      OwnCodes, EarnedSessions, EarnedCodes, OwnerOf
\* Every step keeps that credentials work once and second factors are earned.
LEMMA FactorsNext == ASSUME TypeOK, FactorsInv, [Next]_vars PROVE FactorsInv'
<1>0. HasSession /\ LinksAreUsed /\ LinksWorkOnce
  BY FactorsInvParts
<1>1. ASSUME NEW r \in Requests, NEW c \in Redemptions, NEW policy \in Policies, Redeem(c, r, policy)
      PROVE  FactorsInv'
  <2>1. UNCHANGED <<factors, calls>> /\ consumed' = consumed \cup {r} /\ r \notin consumed /\ ~Opened(c)
    BY <1>1 DEF Redeem, secondFactor, TokenIsGood
  <2>2. CASE UNCHANGED sessions
    <3>1. SessionsKept
      BY <2>2, SessionsSame
    <3>2. LinksAreUsed' /\ LinksWorkOnce'
      BY <1>0, <2>1, <2>2 DEF LinksAreUsed, LinksWorkOnce, Opened
    <3> QED BY <2>1, <2>2, <3>1, <3>2, SessionsMove DEF Opened
  <2>3. CASE ~UNCHANGED sessions
    <3>1. PICK at \in Times :
            sessions' = [sessions EXCEPT ![c] =
              [operator |-> request[r].email, token |-> r, created |-> at,
               revoked |-> FALSE, verified |-> FALSE]]
      BY <1>1, <2>3, EmptyLocals DEF Redeem
    <3>2. request[r].email \in Emails
      BY <1>1, <2>3, SubjectsAssumption DEF Redeem, Admits
    <3>3. /\ sessions'[c] \in SessionRows /\ sessions'[c].operator \in Emails
          /\ sessions'[c].token = r /\ sessions'[c].verified = FALSE
          /\ \A d \in Redemptions \ {c} : sessions'[d] = sessions[d]
      BY <3>1, <3>2 DEF TypeOK, SessionRows
    <3>4. sessions'[c] # NoSession
      BY <3>3, SubjectsAssumption DEF NoSession
    <3>5. sessions' \in [Redemptions -> SessionRows \cup {NoSession}]
      BY <3>1, <3>3 DEF TypeOK
    <3>6. SessionsKept
      BY <2>1, <3>3, <3>5 DEF SessionsKept, Opened
    <3>7. LinksAreUsed' /\ LinksWorkOnce'
      BY <1>0, <2>1, <3>3 DEF LinksAreUsed, LinksWorkOnce, Opened
    <3> QED BY <2>1, <3>3, <3>6, <3>7, SessionsMove DEF Opened
  <2> QED BY <2>2, <2>3
<1>2. ASSUME NEW c \in Redemptions, SignOut(c) \/ RequestDeletion(c) PROVE FactorsInv'
  <2>1. UNCHANGED <<consumed, factors, calls>>
    BY <1>2 DEF SignOut, RequestDeletion, signIn, secondFactor
  <2>2. SessionsKept
        /\ \A d \in Redemptions : Opened(d)' => Opened(d) /\ sessions'[d].verified = sessions[d].verified
    <3>1. CASE RequestDeletion(c)
      BY <3>1, SessionsRevoked
    <3>2. CASE SignOut(c)
      <4>1. Opened(c) /\ sessions' = [sessions EXCEPT ![c].revoked = TRUE]
        BY <3>2 DEF SignOut
      <4>2. sessions[c] \in SessionRows
        BY <4>1, SessionsAreRows
      <4>3. sessions'[c].verified = sessions[c].verified
        BY <4>1, <4>2 DEF SessionRows, TypeOK
      <4>4. \A d \in Redemptions \ {c} : sessions'[d] = sessions[d]
        BY <4>1 DEF TypeOK
      <4> QED BY <4>1, <4>3, <4>4, SessionsChange DEF Opened
    <3> QED BY <1>2, <3>1, <3>2
  <2>3. LinksAreUsed' /\ LinksWorkOnce'
    BY <1>0, <2>1, <2>2 DEF LinksAreUsed, LinksWorkOnce, SessionsKept
  <2> QED BY <2>1, <2>2, <2>3, SessionsMove
<1>3. ASSUME NEW v \in FactorCalls, NEW c \in Redemptions, BeginEnrollment(v, c) \/ BeginVerification(v, c)
      PROVE  FactorsInv'
  <2>1. /\ calls[v].step = "new" /\ calls'[v].step \in {"enrolling", "checked"} /\ calls'[v].session = c
        /\ \A w \in FactorCalls \ {v} : calls'[w] = calls[w]
    BY <1>3 DEF BeginEnrollment, BeginVerification, TypeOK, CallLocals
  <2>2. UNCHANGED <<consumed, sessions, factors>> /\ Opened(c)
    BY <1>3 DEF BeginEnrollment, BeginVerification, signIn, Active
  <2> QED BY <2>1, <2>2, CallsMove
<1>4. ASSUME NEW v \in FactorCalls, CommitEnrollment(v) PROVE FactorsInv'
  <2>1. PICK c \in Redemptions : c = calls[v].session /\ Opened(c)
    BY <1>0, <1>4 DEF CommitEnrollment, HasSession
  <2>2. PICK o \in Emails : o = sessions[c].operator
    BY <2>1, SessionsAreRows DEF SessionRows
  <2>3. /\ UNCHANGED consumed /\ calls[v].step = "enrolling"
        /\ \A w \in FactorCalls \ {v} : calls'[w] = calls[w]
    BY <1>4 DEF CommitEnrollment, signIn, TypeOK
  <2>4. CASE Unenrolled(o)
    <3>1. /\ factors' = [factors EXCEPT ![o] = [by |-> v, unused |-> Codes]]
          /\ sessions' = [sessions EXCEPT ![c].verified = TRUE]
          /\ calls' = [calls EXCEPT ![v].step = "enrolled"]
      BY <1>4, <2>1, <2>2, <2>4 DEF CommitEnrollment
    <3>2. calls'[v].step = "enrolled" /\ calls'[v].session = c
      BY <2>1, <3>1 DEF TypeOK, CallLocals
    <3>3. /\ factors'[o].by = v /\ factors'[o].unused = Codes
          /\ \A p \in Emails \ {o} : factors'[p] = factors[p]
      BY <3>1 DEF TypeOK
    <3>4. factors'[o] # NoFactor
      BY <3>3, SubjectsAssumption DEF NoFactor
    <3> QED BY <2>1, <2>2, <2>3, <2>4, <3>1, <3>2, <3>3, <3>4, CallEndsWell DEF Unenrolled
  <2>5. CASE ~Unenrolled(o)
    <3>1. calls'[v].step = "new" /\ UNCHANGED <<factors, sessions>>
      BY <1>4, <2>1, <2>2, <2>5 DEF CommitEnrollment, NoCall, TypeOK
    <3> QED BY <2>3, <3>1, CallsMove
  <2> QED BY <2>4, <2>5
<1>5. ASSUME NEW v \in FactorCalls, CountAttempts(v) PROVE FactorsInv'
  <2>1. PICK at \in Readings, credential \in Codes \cup {"totp", "wrong"} :
       calls' = [calls EXCEPT ![v] =
         [step |-> "counted", session |-> calls[v].session, at |-> at,
          within |-> BelowLimit(calls[v].session, at), credential |-> credential,
          found |-> IsUnused(sessions[calls[v].session].operator, credential)]]
    BY <1>5 DEF CountAttempts
  <2>2. calls[v].step = "checked" /\ UNCHANGED <<consumed, sessions, factors>>
    BY <1>5 DEF CountAttempts, signIn
  <2>3. /\ calls'[v].session = calls[v].session /\ calls'[v].step = "counted"
        /\ \A w \in FactorCalls \ {v} : calls'[w] = calls[w]
    BY <2>1 DEF TypeOK
  <2>4. calls[v].session \in Redemptions /\ Opened(calls[v].session)
    BY <1>0, <2>2 DEF HasSession
  <2> QED BY <2>2, <2>3, <2>4, CallsMove
<1>6. ASSUME NEW v \in FactorCalls, CommitVerification(v) PROVE FactorsInv'
  <2>1. PICK c \in Redemptions : c = calls[v].session /\ Opened(c)
    BY <1>0, <1>6 DEF CommitVerification, HasSession
  <2>2. PICK o \in Emails : o = sessions[c].operator
    BY <2>1, SessionsAreRows DEF SessionRows
  <2>3. /\ UNCHANGED consumed /\ calls[v].step = "counted"
        /\ \A w \in FactorCalls \ {v} : calls'[w] = calls[w]
    BY <1>6, VerificationCommits DEF CommitVerification, signIn
  <2>4. CASE Outcome(v) = "verified"
    <3>1. /\ calls'[v].step = "verified" /\ calls'[v].session = c
          /\ calls'[v].credential = calls[v].credential
      BY <1>6, <2>1, <2>4, VerificationCommits
    <3>2. UNCHANGED sessions \/ sessions' = [sessions EXCEPT ![c].verified = TRUE]
      BY <1>6, <2>1 DEF CommitVerification
    <3>3. CASE calls[v].credential \in Codes
      <4>1. StillUnused(v)
        BY <2>4, <3>3, SubjectsAssumption DEF Outcome
      <4>2. factors[o] # NoFactor /\ calls[v].credential \in factors[o].unused
        BY <2>1, <2>2, <4>1 DEF StillUnused, IsUnused
      <4>3. factors[o] \in FactorRows
        BY <4>2, FactorsAreRows
      <4>4. factors' = [factors EXCEPT ![o].unused = @ \ {calls[v].credential}]
        BY <1>6, <2>1, <2>2, <2>4, <3>3 DEF CommitVerification
      <4>5. /\ factors'[o].by = factors[o].by /\ factors'[o].by \in FactorCalls
            /\ factors'[o].unused = factors[o].unused \ {calls[v].credential}
            /\ \A p \in Emails \ {o} : factors'[p] = factors[p]
        BY <4>3, <4>4 DEF FactorRows, TypeOK
      <4>6. factors'[o] # NoFactor
        BY <4>5, SubjectsAssumption DEF NoFactor
      <4>7. /\ calls[v].step \notin {"enrolled", "verified"} /\ calls[v].session = c
            /\ sessions[c].operator = o /\ Opened(c)
        BY <2>1, <2>2, <2>3
      <4>8. /\ calls'[v].step = "verified" /\ calls'[v].credential \in Codes
            /\ factors[o] # NoFactor /\ calls'[v].credential \in factors[o].unused
            /\ factors'[o] # NoFactor /\ factors'[o].by = factors[o].by
            /\ factors'[o].unused = factors[o].unused \ {calls'[v].credential}
        BY <3>1, <3>3, <4>2, <4>5, <4>6
      <4>9. UNCHANGED consumed /\ calls'[v].session = c
        BY <2>3, <3>1
      <4> QED BY <2>3, <3>2, <4>5, <4>7, <4>8, <4>9, CallEndsWell
    <3>4. CASE calls[v].credential \notin Codes
      <4>1. UNCHANGED factors
        BY <1>6, <3>4 DEF CommitVerification
      <4> QED BY <2>1, <2>2, <2>3, <3>1, <3>2, <3>4, <4>1, CallEndsWell
    <3> QED BY <3>3, <3>4
  <2>5. CASE Outcome(v) # "verified"
    <3>1. UNCHANGED <<factors, sessions>>
      BY <1>6, <2>5 DEF CommitVerification
    <3>2. \/ calls'[v].step = "invalid" /\ calls'[v].session = c
          \/ calls'[v].step = "limited"
      BY <1>6, <2>1, <2>5, VerificationCommits
    <3> QED BY <2>1, <2>3, <3>1, <3>2, CallsMove
  <2> QED BY <2>4, <2>5
<1>7. ASSUME NEW v \in FactorCalls, AbortCall(v) PROVE FactorsInv'
  <2>1. /\ calls[v].step \in {"enrolling", "checked", "counted"} /\ calls'[v].step = "new"
        /\ \A w \in FactorCalls \ {v} : calls'[w] = calls[w]
        /\ UNCHANGED <<consumed, sessions, factors>>
    BY <1>7 DEF AbortCall, TypeOK, NoCall, signIn
  <2> QED BY <2>1, CallsMove
<1>8. CASE UNCHANGED <<consumed, sessions, factors, calls>>
  <2>1. SessionsKept
    BY <1>8, SessionsSame
  <2>2. LinksAreUsed' /\ LinksWorkOnce'
    BY <1>0, <1>8 DEF LinksAreUsed, LinksWorkOnce, Opened
  <2> QED BY <1>8, <2>1, <2>2, SessionsMove DEF Opened
<1> QED
  BY <1>1, <1>2, <1>3, <1>4, <1>5, <1>6, <1>7, <1>8
  DEF Next, SigningIn, Verifying, CountDeliveries, CommitSignIn, AbortSignIn, Declare, Prune, Tick,
      vars, signIn, secondFactor

-----------------------------------------------------------------------------
(* Theorems *)

\* Initially nothing is counted, admitted, opened or enrolled.
LEMMA InvInit == Init => Inv /\ Limits!Init
<1> SUFFICES ASSUME Init PROVE Inv /\ Limits!Init
  OBVIOUS
<1>1. /\ \A r \in Requests : request[r].step = "new"
      /\ \A v \in FactorCalls : calls[v].step = "new"
      /\ \A s \in Subjects : admitted[s] = {}
      /\ \A c \in Redemptions : ~Opened(c)
      /\ \A o \in Emails : factors[o] = NoFactor
  BY DEF Init, NoRequest, NoCall, Opened
<1>2. LimitsInv
  BY <1>1 DEF LimitsInv, OneCounts, LinkCounts, FactorLocks, FactorCounts, LogIsKept, AdmittedOnce
<1>3. FactorsInv
  BY <1>1
  DEF FactorsInv, HasSession, LinksAreUsed, CodesAreUsed, EnrolledOnce, CredentialsWorkOnce,
      SecondFactorsAreEarned
<1>4. Limits!Init
  BY DEF Init, Limits!Init
<1> QED BY <1>2, <1>3, <1>4, TypeInit DEF Inv

\* The inductive invariant of links, sessions, limits and factors.
LEMMA InvNext == Inv /\ [Next]_vars => Inv'
<1> SUFFICES ASSUME Inv, [Next]_vars PROVE Inv'
  OBVIOUS
<1>1. TypeOK /\ LimitsInv /\ FactorsInv /\ HasSession
  BY DEF Inv, FactorsInv
<1> QED BY <1>1, TypeNext, LimitsNext, FactorsNext DEF Inv

\* Every state satisfies it.
LEMMA Invariance == Spec => []Inv
  BY InvInit, InvNext, PTL DEF Spec

\* Rows and locals keep their shapes.
THEOREM TypeCorrect == Spec => []TypeOK
  BY Invariance, PTL DEF Inv

\* However many requests redeem a link or present a recovery code at once, one succeeds.
THEOREM CredentialsOnce == Spec => []CredentialsWorkOnce
  BY Invariance, PTL DEF Inv, FactorsInv

\* However enrolments and verifications interleave, the codes an enrolment answered with
\* are the ones stored, and only a verification that succeeded uses one up.
THEOREM SecondFactorsEarned == Spec => []SecondFactorsAreEarned
  BY Invariance, PTL DEF Inv, FactorsInv

\* Links and judged credentials implement the limits: Bounded of RateLimits holds of every
\* address, network and session and of the service.
THEOREM AccessWithinLimits == Spec => ImplementsRateLimits
<1>1. Inv /\ [Next]_vars => [Limits!Next]_admitted
  BY StepsKeepToLimits DEF Inv, FactorsInv
<1>2. Init => Limits!Init
  BY InvInit
<1> QED BY <1>1, <1>2, Invariance, PTL DEF Spec, ImplementsRateLimits, Limits!Spec

\* What is proved of every system of limits, for addresses, networks, the service and
\* sessions.
AccessLimits == INSTANCE RateLimitsProofs WITH
  Events <- Requests \cup FactorCalls, Limit <- LimitOf, Window <- WindowOf

\* However a window is placed, no address and no network gets more links in it, the
\* service sends no more, and no session tries more codes than its limit, although calls
\* commit in another order than their readings of the clock and the log they count is
\* pruned meanwhile (request_sign_in, verify_founder_second_factor, cleanup).
THEOREM SubjectsAreLimited == Spec => []Limits!Bounded
<1>1. AccessLimits!LimitsAreNumbers
  <2>1. Times \subseteq Nat
    BY NumbersAssumption DEF Times
  <2>2. LimitOf \in [Subjects -> Nat] /\ WindowOf \in [Subjects -> Nat]
    BY SubjectsHaveLimits, NumbersAssumption DEF LimitOf, WindowOf
  <2> QED BY <2>1, <2>2 DEF AccessLimits!LimitsAreNumbers
<1>2. AccessLimits!Spec => []AccessLimits!Bounded
  BY <1>1, AccessLimits!LimitsBounded
<1>3. Limits!Spec => AccessLimits!Spec
  <2>1. Limits!Init => AccessLimits!Init
    BY DEF Limits!Init, AccessLimits!Init
  <2>2. Limits!Next => AccessLimits!Next
    BY DEF Limits!Next, AccessLimits!Next, Limits!Admit, AccessLimits!Admit, Limits!Later,
       AccessLimits!Later, Limits!Cardinality, AccessLimits!Cardinality
  <2> QED BY <2>1, <2>2, PTL DEF Limits!Spec, AccessLimits!Spec
<1>4. AccessLimits!Bounded => Limits!Bounded
  BY DEF Limits!Bounded, AccessLimits!Bounded, Limits!Within, AccessLimits!Within, Limits!Later,
     AccessLimits!Later, Limits!Cardinality, AccessLimits!Cardinality
<1> QED BY <1>2, <1>3, <1>4, AccessWithinLimits, PTL DEF ImplementsRateLimits
=============================================================================

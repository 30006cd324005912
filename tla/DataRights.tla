------------------------------ MODULE DataRights -------------------------------
(***************************************************************************)
(* Operator data rights (src/agent_data_oracle/data_rights.py): deletion   *)
(* requests, incident holds, and the cleanup job with its erasure of an    *)
(* operator, among the transactions that write about operators meanwhile.  *)
(*                                                                         *)
(* A cleanup is one job invocation.  Each of its statements that reads     *)
(* what is used later is a step of its own; what the erasure writes is     *)
(* seen by nobody before its commit and is one step.  Another table's row  *)
(* that refers to an operator cannot be written while an erasure has the   *)
(* operators row locked (FOR UPDATE against the foreign key's KEY SHARE).  *)
(***************************************************************************)
EXTENDS Integers, FiniteSets

CONSTANTS
  Operators,        \* operator ids, none used for a second account
  Founders,         \* those with operators.is_founder
  Evaluations,      \* ids of evaluations
  Cleanups,         \* invocations of job data-cleanup
  RetentionPeriod,  \* FOUNDER_TEST_RETENTION
  ResponseTarget,   \* DELETION_RESPONSE_TARGET
  ClockTimes,       \* what the clocks of the processes may read
  JobTimes          \* what --now of a job may be

ASSUME OperatorsAssumption == IsFiniteSet(Operators) /\ Founders \subseteq Operators
ASSUME PeriodsAssumption == RetentionPeriod \in Nat /\ ResponseTarget \in Nat
ASSUME TimesAssumption == ClockTimes \subseteq Nat /\ JobTimes \subseteq Nat

None == "none"
ASSUME NoneAssumption == None \notin Operators \cup Evaluations

VARIABLES
  operators,    \* the rows of operators
  created,      \* operators.created_at of these
  erased,       \* history: ids whose operators row was deleted
  credentials,  \* the operators with rows in browser_sessions or agent_api_keys,
                \* revoked or not
  evaluations,  \* evidence_evaluations with inputs and rows
  audits,       \* evaluation_audits: the founder who audited an evaluation
  holder,       \* the transaction that has the row of global_pause_state locked
  reviewing,    \* evaluations whose row a report or an acknowledgement has locked
  holds,        \* the operators with rows in operator_retention_holds, all of them
                \* active: the program never sets released_at
  work,         \* operator_deletion_work
  isPaused,     \* global_pause_state.is_paused
  named,        \* global_pause_state.activated_by and .resolved_by
  actors,       \* the operators named in global_pause_events
  receipts,     \* how many deletion_completion_receipts there are
  pc, job       \* each cleanup's next step and its local variables

people == <<operators, created, erased>>
records == <<credentials, evaluations, audits>>
pauseRow == <<isPaused, named, actors>>
locks == <<holder, reviewing>>
jobs == <<pc, job>>
vars == <<operators, created, erased, credentials, evaluations, audits, holder, reviewing,
          holds, work, isPaused, named, actors, receipts, pc, job>>

NoWork == [requested |-> 0, due |-> -1]   \* no row: a real one is due after its request
Works == [requested : ClockTimes, due : Nat]

\* The transactions that begin with the pause row: a submission, a manual pause or its
\* end, and an audit, which asks for the evaluation's row next.
Writing == {"submission", "switch", "audit"}
NoHolder == [kind |-> None, by |-> None, evaluation |-> None]
Holders == [kind : Writing \cup {"asking"}, by : Operators, evaluation : Evaluations \cup {None}]

\* A row of the list of pending requests.
Requests == [operator : Operators, work : Works]

\* The locals of a cleanup.  kept is a history variable: operators with an
\* active hold ever since the job began.
Jobs == [at : Nat, pending : SUBSET Requests, expired : SUBSET Operators,
         target : Operators \cup {None},
         rows : SUBSET Evaluations, audited : SUBSET Evaluations, kept : SUBSET Operators]
NoJob == [at |-> 0, pending |-> {}, expired |-> {}, target |-> None, rows |-> {},
          audited |-> {}, kept |-> {}]
Steps == {"idle", "expired", "next", "overdue", "pause", "lock", "dependents",
          "evaluations", "pauseRow", "crashed"}

-----------------------------------------------------------------------------
(* What the queries compute *)

Held(o) == o \in holds
Pending(o) == work[o] # NoWork
OverdueAfter(due, at) == due < at   \* mutant of Overdue
Overdue(due, at) == due <= at

ExpiredEarly(at) ==   \* mutant of Expired
  {o \in operators : created[o] <= at - RetentionPeriod + 1 /\ ~Held(o)}
\* Operators past their retention without an active hold.
Expired(at) == {o \in operators : created[o] <= at - RetentionPeriod /\ ~Held(o)}

At(c, step) == pc[c] = step

\* The row of o is locked by an erasure between its FOR UPDATE and its end.
NotLocking(c) == pc[c] \in {"evaluations", "pauseRow"}   \* mutant of Erasing
Erasing(c) == pc[c] \in {"dependents", "evaluations", "pauseRow"}
RowFree(o) == \A c \in Cleanups : Erasing(c) => job[c].target # o

AuditedEvaluations(o) ==   \* mutant of OwnEvaluations
  {e \in Evaluations : evaluations[e] = o /\ audits[e] # None}
OwnEvaluations(o) == {e \in Evaluations : evaluations[e] = o}
AuditsOfRows(c) == {e \in job[c].rows : audits[e] # None}   \* mutant of OwnAudits
OwnAudits(c) ==
  {e \in Evaluations : audits[e] # None /\ (audits[e] = job[c].target \/ e \in job[c].rows)}

\* The operators that some row other than their account mentions.
Traces ==
  {o \in Operators :
     \/ Held(o)
     \/ Pending(o)
     \/ o \in actors \cup {named.activated, named.resolved}
     \/ o \in credentials
     \/ \E e \in Evaluations : o \in {evaluations[e], audits[e]}}

-----------------------------------------------------------------------------
(* Who waits for whom *)

\* The pause row keeps an overdue pause waiting, and the erasure of an operator it
\* names; the row of an evaluation keeps the erasure waiting that deletes it.
HolderBlocks(c) ==
  /\ holder # NoHolder
  /\ \/ At(c, "pause")
     \/ At(c, "evaluations") /\ holder.kind = "audit" /\ holder.evaluation \in job[c].rows
     \/ At(c, "pauseRow") /\ job[c].target \in {named.activated, named.resolved}
ReviewBlocks(e, c) == At(c, "evaluations") /\ e \in reviewing \cap job[c].rows

\* An erasure keeps everything waiting that refers to its operator, and once it has
\* deleted an evaluation, who asks for that.
ErasureBlocksHolder(c) ==
  \/ holder.kind \in Writing /\ Erasing(c) /\ job[c].target = holder.by
  \/ holder.kind = "asking" /\ At(c, "pauseRow") /\ holder.evaluation \in job[c].rows
ErasureBlocksReview(c, e) ==
  /\ e \in reviewing
  /\ Erasing(c)
  /\ job[c].target = evaluations[e]
ReviewBlocksHolder(e) == holder.kind = "asking" /\ holder.evaluation = e /\ e \in reviewing

HolderGoesOn == /\ \A c \in Cleanups : ~ErasureBlocksHolder(c)
                /\ \A e \in Evaluations : ~ReviewBlocksHolder(e)
ReviewGoesOn(e) == \A c \in Cleanups : ~ErasureBlocksReview(c, e)
ErasureGoesOn(c) == ~HolderBlocks(c) /\ \A e \in Evaluations : ~ReviewBlocks(e, c)

-----------------------------------------------------------------------------
(* Operators, and what is recorded about them *)

\* A sign-in token is redeemed: the account is opened unless it is there, and a
\* session begins.  (A new agent key is the same to this module.)
SignIn(o, at) ==
  /\ RowFree(o)
  /\ o \notin erased
  /\ operators' = operators \cup {o}
  /\ created' = IF o \in operators THEN created ELSE [created EXCEPT ![o] = at]
  /\ credentials' = credentials \cup {o}
  /\ UNCHANGED <<erased, evaluations, audits, locks, holds, work, pauseRow, receipts, jobs>>

\* A transaction about o takes the pause row with its first statement.
TakePauseRow(kind, o, e) ==
  /\ holder = NoHolder
  /\ o \in operators
  /\ holder' = [kind |-> kind, by |-> o, evaluation |-> e]
  /\ UNCHANGED <<people, records, reviewing, holds, work, pauseRow, receipts, jobs>>

BeginSubmission(o, e) ==
  ~isPaused /\ evaluations[e] = None /\ TakePauseRow("submission", o, e)
BeginSwitch(f) == TakePauseRow("switch", f, None)
BeginAudit(f, e) == TakePauseRow("asking", f, e)

\* The audit goes on with the row of the evaluation, if that is there and unaudited.
LockAudited ==
  LET e == holder.evaluation
  IN /\ holder.kind = "asking"
     /\ HolderGoesOn
     /\ holder' = IF evaluations[e] # None /\ audits[e] = None
                  THEN [holder EXCEPT !.kind = "audit"] ELSE NoHolder
     /\ UNCHANGED <<people, records, reviewing, holds, work, pauseRow, receipts, jobs>>

\* The transaction writes a row that refers to its operator, and commits.
Write(kind) ==
  /\ holder.kind = kind
  /\ HolderGoesOn
  /\ holder.by \in operators
  /\ holder' = NoHolder
  /\ UNCHANGED <<people, credentials, reviewing, holds, work, receipts, jobs>>

RecordSubmission ==
  /\ Write("submission")
  /\ evaluations' = [evaluations EXCEPT ![holder.evaluation] = holder.by]
  /\ UNCHANGED <<audits, pauseRow>>

\* _activate_pause
Activate(f) ==
  /\ isPaused' = TRUE
  /\ named' = [activated |-> f, resolved |-> None]
  /\ actors' = actors \cup {f}

RecordAudit(rejected) ==
  /\ Write("audit")
  /\ audits' = [audits EXCEPT ![holder.evaluation] = holder.by]
  /\ IF rejected THEN Activate(holder.by) ELSE UNCHANGED pauseRow
  /\ UNCHANGED evaluations

\* A founder pauses or resumes by hand.
SwitchPause ==
  /\ Write("switch")
  /\ \/ ~isPaused /\ Activate(holder.by)
     \/ /\ isPaused
        /\ isPaused' = FALSE
        /\ named' = [named EXCEPT !.resolved = holder.by]
        /\ actors' = actors \cup {holder.by}
  /\ UNCHANGED <<evaluations, audits>>

\* The operator's row is gone, which the foreign key refuses.
WriteFails ==
  /\ holder.kind \in Writing
  /\ holder.by \notin operators
  /\ holder' = NoHolder
  /\ UNCHANGED <<people, records, reviewing, holds, work, pauseRow, receipts, jobs>>

\* The handler dies.
AbortHolder ==
  /\ holder # NoHolder
  /\ holder' = NoHolder
  /\ UNCHANGED <<people, records, reviewing, holds, work, pauseRow, receipts, jobs>>

\* A report or an acknowledgement locks the row of an evaluation of its operator.
BeginReview(e) ==
  /\ evaluations[e] # None
  /\ e \notin reviewing
  /\ ~(holder.kind = "audit" /\ holder.evaluation = e)
  /\ \A c \in Cleanups : ~(At(c, "pauseRow") /\ e \in job[c].rows)
  /\ reviewing' = reviewing \cup {e}
  /\ UNCHANGED <<people, records, holder, holds, work, pauseRow, receipts, jobs>>

\* It writes its row, which refers to the operator and is no more than a part of the
\* evaluation here, and commits.
RecordReview(e) ==
  /\ e \in reviewing
  /\ ReviewGoesOn(e)
  /\ reviewing' = reviewing \ {e}
  /\ UNCHANGED <<people, records, holder, holds, work, pauseRow, receipts, jobs>>

AbortReview(e) ==
  /\ e \in reviewing
  /\ reviewing' = reviewing \ {e}
  /\ UNCHANGED <<people, records, holder, holds, work, pauseRow, receipts, jobs>>

-----------------------------------------------------------------------------
(* Requests and holds *)

\* The first request stands.  The credentials are revoked and their rows kept, which is
\* the same to this module.
Request(o, at) ==
  IF Pending(o) THEN work[o] ELSE [requested |-> at, due |-> at + ResponseTarget]

RequestDeletion(o, at) ==
  /\ o \in operators
  /\ RowFree(o)
  /\ work' = [work EXCEPT ![o] = Request(o, at)]
  /\ UNCHANGED <<people, records, locks, holds, pauseRow, receipts, jobs>>

PlaceIncidentHold(o) ==
  /\ o \in operators
  /\ RowFree(o)
  /\ holds' = holds \cup {o}
  /\ UNCHANGED <<people, records, locks, work, pauseRow, receipts, jobs>>

-----------------------------------------------------------------------------
(* The cleanup job *)

others == <<operators, created, erased, credentials, evaluations, audits, holder, reviewing,
            holds, work, isPaused, named, actors, receipts>>

\* The locals that outlive the erasure of one operator.
Forget(c) == [job EXCEPT ![c].target = None, ![c].rows = {}, ![c].audited = {}]

Running(c) == pc[c] \notin {"idle", "crashed"}
GoTo(c, step) == pc' = [pc EXCEPT ![c] = step]

\* The job is started, or again after its end, with any --now, and lists the requests.
StartCleanup(c) ==
  /\ ~Running(c)
  /\ GoTo(c, "expired")
  /\ \E at \in JobTimes :
       job' = [job EXCEPT ![c] =
                 [NoJob EXCEPT !.at = at, !.kept = holds,
                               !.pending = {[operator |-> o, work |-> work[o]] :
                                              o \in {p \in Operators : Pending(p)}}]]
  /\ UNCHANGED others

ListExpired(c) ==
  /\ At(c, "expired")
  /\ GoTo(c, "next")
  /\ job' = [job EXCEPT ![c].expired = Expired(job[c].at)]
  /\ UNCHANGED others

\* ORDER BY requested_at
FirstPending(c) ==
  {p \in job[c].pending : \A q \in job[c].pending : p.work.requested <= q.work.requested}

WithoutLook(c) ==   \* mutant of NextPending
  /\ At(c, "next")
  /\ \E p \in FirstPending(c) :
       job' = [job EXCEPT ![c].pending = @ \ {p}, ![c].target = p.operator]
  /\ GoTo(c, "lock")
  /\ UNCHANGED others

WaitForRelease(c) ==   \* mutant of NextPending
  /\ At(c, "next")
  /\ \E p \in FirstPending(c) :
       /\ ~Held(p.operator)
       /\ job' = [job EXCEPT ![c].pending = @ \ {p}, ![c].target = p.operator]
  /\ GoTo(c, "lock")
  /\ UNCHANGED others

\* A pending request: an active hold defers it, but an overdue one pauses;
\* without a hold the erasure begins.
NextPending(c) ==
  /\ At(c, "next")
  /\ \E p \in FirstPending(c) :
       \/ /\ Held(p.operator)
          /\ IF Overdue(p.work.due, job[c].at) THEN GoTo(c, "overdue") ELSE UNCHANGED pc
          /\ job' = [job EXCEPT ![c].pending = @ \ {p}]
       \/ /\ ~Held(p.operator)
          /\ GoTo(c, "lock")
          /\ job' = [job EXCEPT ![c].pending = @ \ {p}, ![c].target = p.operator]
  /\ UNCHANGED others

\* The pause is looked at without a lock, and set when it was off.
ReadPause(c) ==
  /\ At(c, "overdue")
  /\ IF isPaused THEN GoTo(c, "next") ELSE GoTo(c, "pause")
  /\ UNCHANGED <<job, others>>

PauseForOverdueDeletion(c) ==
  /\ At(c, "pause")
  /\ ErasureGoesOn(c)
  /\ isPaused' = TRUE
  /\ named' = [named EXCEPT !.activated = None]
  /\ GoTo(c, "next")
  /\ UNCHANGED <<people, records, locks, holds, work, actors, receipts, job>>

\* ORDER BY created_at
FirstExpired(c) ==
  {o \in job[c].expired : \A p \in job[c].expired : created[o] <= created[p]}

\* An operator of the other list: its hold is not looked at again.
NextExpired(c) ==
  /\ At(c, "next")
  /\ job[c].pending = {}
  /\ \E o \in FirstExpired(c) :
       job' = [job EXCEPT ![c].expired = @ \ {o}, ![c].target = o]
  /\ GoTo(c, "lock")
  /\ UNCHANGED others

LockAnyway(c) ==   \* mutant of LockOperator
  /\ At(c, "lock")
  /\ RowFree(job[c].target)
  /\ GoTo(c, "dependents")
  /\ job' = [job EXCEPT ![c].rows = OwnEvaluations(job[c].target)]
  /\ UNCHANGED others

\* SELECT ... FOR UPDATE waits for another erasure of the operator, and may
\* then find no row.  The ids read next cannot change while the row is locked.
LockOperator(c) ==
  /\ At(c, "lock")
  /\ RowFree(job[c].target)
  /\ \/ /\ job[c].target \in operators
        /\ GoTo(c, "dependents")
        /\ job' = [job EXCEPT ![c].rows = OwnEvaluations(job[c].target)]
     \/ /\ job[c].target \notin operators
        /\ GoTo(c, "next")
        /\ job' = Forget(c)
  /\ UNCHANGED others

\* Audits by the operator and of its evaluations, as committed now.
DeleteAudits(c) ==
  /\ At(c, "dependents")
  /\ GoTo(c, "evaluations")
  /\ job' = [job EXCEPT ![c].audited = OwnAudits(c)]
  /\ UNCHANGED others

\* The evaluations' rows are waited for.  An audit that was written since still
\* refers to its evaluation.
DeleteEvaluations(c) ==
  /\ At(c, "evaluations")
  /\ ErasureGoesOn(c)
  /\ \A e \in job[c].rows : audits[e] = None \/ e \in job[c].audited
  /\ GoTo(c, "pauseRow")
  /\ UNCHANGED <<job, others>>

Cleared(o, name) == IF name = o THEN None ELSE name

\* The pause row is waited for if it names the operator; the rest follows and commits.
Erase(c) ==
  LET o == job[c].target
  IN /\ At(c, "pauseRow")
     /\ ErasureGoesOn(c)
     /\ GoTo(c, "next")
     /\ operators' = operators \ {o}
     /\ erased' = erased \cup {o}
     /\ credentials' = credentials \ {o}
     /\ evaluations' =
          [e \in Evaluations |-> IF e \in job[c].rows THEN None ELSE evaluations[e]]
     /\ audits' = [e \in Evaluations |-> IF e \in job[c].audited THEN None ELSE audits[e]]
     /\ holds' = holds \ {o}
     /\ work' = [work EXCEPT ![o] = NoWork]
     /\ named' = [activated |-> Cleared(o, named.activated),
                  resolved |-> Cleared(o, named.resolved)]
     /\ actors' = actors \ {o}
     /\ receipts' = receipts + 1
     /\ job' = [d \in Cleanups |-> [Forget(c)[d] EXCEPT !.kept = @ \ {o}]]
     /\ UNCHANGED <<created, locks, isPaused>>

EraseFails(c) ==
  /\ At(c, "evaluations")
  /\ ErasureGoesOn(c)
  /\ \E e \in job[c].rows : audits[e] # None /\ e \notin job[c].audited
  /\ GoTo(c, "crashed")
  /\ job' = [job EXCEPT ![c] = NoJob]
  /\ UNCHANGED others

\* Both lists are done.
EndCleanup(c) ==
  /\ At(c, "next")
  /\ job[c].pending = {}
  /\ job[c].expired = {}
  /\ GoTo(c, "idle")
  /\ job' = [job EXCEPT ![c] = NoJob]
  /\ UNCHANGED others

\* The job dies anywhere; its open transaction is rolled back.
Crash(c) ==
  /\ Running(c)
  /\ GoTo(c, "crashed")
  /\ job' = [job EXCEPT ![c] = NoJob]
  /\ UNCHANGED others

\* An erasure waits for a transaction that waits for it: PostgreSQL ends one of the two.
DeadlockWithHolder(c) == HolderBlocks(c) /\ ErasureBlocksHolder(c)
DeadlockWithReview(c, e) == ReviewBlocks(e, c) /\ ErasureBlocksReview(c, e)
Deadlocked(c) ==
  DeadlockWithHolder(c) \/ \E e \in Evaluations : DeadlockWithReview(c, e)
BreakDeadlock(c) ==
  \/ DeadlockWithHolder(c) /\ (AbortHolder \/ Crash(c))
  \/ \E e \in Evaluations : DeadlockWithReview(c, e) /\ (AbortReview(e) \/ Crash(c))

-----------------------------------------------------------------------------

Init ==
  /\ operators = {}
  /\ created = [o \in Operators |-> 0]
  /\ erased = {}
  /\ credentials = {}
  /\ evaluations = [e \in Evaluations |-> None]
  /\ audits = [e \in Evaluations |-> None]
  /\ holder = NoHolder
  /\ reviewing = {}
  /\ holds = {}
  /\ work = [o \in Operators |-> NoWork]
  /\ isPaused = FALSE
  /\ named = [activated |-> None, resolved |-> None]
  /\ actors = {}
  /\ receipts = 0
  /\ pc = [c \in Cleanups |-> "idle"]
  /\ job = [c \in Cleanups |-> NoJob]

CleanupStep(c) ==
  \/ ListExpired(c) \/ NextPending(c) \/ ReadPause(c)
  \/ PauseForOverdueDeletion(c) \/ NextExpired(c) \/ LockOperator(c) \/ DeleteAudits(c)
  \/ DeleteEvaluations(c) \/ Erase(c) \/ EraseFails(c) \/ EndCleanup(c)

OperatorStep(o) ==
  \/ \E at \in ClockTimes : SignIn(o, at) \/ RequestDeletion(o, at)
  \/ \E e \in Evaluations : BeginSubmission(o, e)
  \/ PlaceIncidentHold(o)

FounderStep(f) == BeginSwitch(f) \/ \E e \in Evaluations : BeginAudit(f, e)

HolderStep == \/ LockAudited
              \/ RecordSubmission
              \/ \E rejected \in BOOLEAN : RecordAudit(rejected)
              \/ SwitchPause
              \/ WriteFails

ReviewStep(e) == BeginReview(e) \/ RecordReview(e) \/ AbortReview(e)

Next ==
  \/ \E o \in Operators : OperatorStep(o)
  \/ \E f \in Founders : FounderStep(f)
  \/ HolderStep \/ AbortHolder
  \/ \E e \in Evaluations : ReviewStep(e)
  \/ \E c \in Cleanups : StartCleanup(c) \/ CleanupStep(c) \/ Crash(c)

Spec == Init /\ [][Next]_vars

\* Started jobs and transactions go on, locks are granted in the order they were asked
\* for, and deadlocks are broken.
FairSpec == Spec /\ SF_vars(HolderStep)
                 /\ \A e \in Evaluations : WF_vars(RecordReview(e))
                 /\ \A c \in Cleanups : SF_vars(CleanupStep(c)) /\ WF_vars(BreakDeadlock(c))

-----------------------------------------------------------------------------
(* Properties *)

\* The tables' rows and the jobs' locals have the types of their columns
\* (migrations 0005, 0008, 0009, 0016).
TypeOK ==
  /\ operators \subseteq Operators
  /\ created \in [Operators -> Nat]
  /\ erased \subseteq Operators
  /\ credentials \subseteq Operators
  /\ evaluations \in [Evaluations -> Operators \cup {None}]
  /\ audits \in [Evaluations -> Founders \cup {None}]
  /\ holder \in Holders \cup {NoHolder}
  /\ reviewing \subseteq Evaluations
  /\ holds \subseteq Operators
  /\ work \in [Operators -> Works \cup {NoWork}]
  /\ isPaused \in BOOLEAN
  /\ named \in [activated : Founders \cup {None}, resolved : Founders \cup {None}]
  /\ actors \subseteq Founders
  /\ receipts \in 0..Cardinality(Operators)
  /\ pc \in [Cleanups -> Steps]
  /\ job \in [Cleanups -> Jobs]

\* Erasure is whole: whatever was written while the cleanup ran, no session, key,
\* evaluation, audit, hold, request or pause event mentions an operator without an
\* account, and every audit has its evaluation (_erase_operator, data_rights.py:421).
ErasureIsWhole ==
  /\ Traces \subseteq operators
  /\ \A e \in Evaluations : audits[e] # None => evaluations[e] # None

\* Every erasure leaves exactly one receipt, although the lists of two jobs, or both
\* lists of one, may name the same operator (data_rights.py:449 and 612).
OneReceiptEach == receipts = Cardinality(erased) /\ erased \cap operators = {}

\* A hold in force since the cleanup began is respected: the operator is not the one
\* being erased (data_rights.py:354 and 342).
HoldsDefer ==
  \A c \in Cleanups : pc[c] = "lock" \/ Erasing(c) => job[c].target \notin job[c].kept

\* Transactions take the rows of operators, of evaluations and of the pause in different
\* orders, and yet whatever an erasure keeps waiting, the erasure goes on, or it and one
\* transaction of its operator or about its operator's evaluations wait for each other:
\* every deadlock is of these two, and PostgreSQL ends it by ending either (_erase_operator,
\* data_rights.py:421; record_founder_audit, evidence_queue.py:1614).
OnlyPairsDeadlock ==
  \A c \in Cleanups :
    (\/ ErasureBlocksHolder(c)
     \/ \E e \in Evaluations : ErasureBlocksReview(c, e))
      => ErasureGoesOn(c) \/ Deadlocked(c)

\* Nobody is erased without having asked for it or having been kept the retention
\* period, by the --now of the job that does it (data_rights.py:325 and 337).
ErasedForAReason ==
  [][\A o \in operators \ operators' :
        \/ Pending(o)
        \/ \E c \in Cleanups : /\ job[c].target = o
                               /\ Erasing(c)
                               /\ created[o] + RetentionPeriod <= job[c].at]_vars

\* A held operator's overdue request pauses the service, unless the hold goes with an
\* erasure or the job dies first (_pause_for_overdue_deletion, data_rights.py:393).
OverdueIsAnswered ==
  \A c \in Cleanups, o \in Operators :
    (/\ At(c, "next") /\ o \in job[c].kept
     /\ \E p \in job[c].pending : p.operator = o /\ p.work.due <= job[c].at)
      ~> (isPaused \/ ~Held(o) \/ pc[c] = "crashed")

\* Every started cleanup ends, whatever rows it waits for (cleanup, data_rights.py:306).
CleanupsEnd == \A c \in Cleanups : Running(c) ~> ~Running(c)

\* An active hold prevents erasure (docs/operator-data-rights.md).
HoldPreventsErasure == [][\A o \in operators \ operators' : ~Held(o)]_vars

\* Operators have one life, whatever is written about them while they are erased: the
\* program implements the lifecycle that the data rights promise.
Stage ==
  [o \in Operators |-> IF o \in erased THEN "erased"
                       ELSE IF o \notin operators THEN "unused"
                       ELSE IF Pending(o) THEN "leaving" ELSE "open"]
Lifecycle == INSTANCE OperatorLifecycle WITH stage <- Stage, traces <- Traces
ImplementsLifecycle == Lifecycle!Spec

================================================================================

--------------------------- MODULE DataRightsProofs ----------------------------
(***************************************************************************)
(* Theorems about DataRights, for every set of operators, founders,        *)
(* evaluations and cleanups and every value of the periods and times.      *)
(***************************************************************************)
EXTENDS DataRights, FiniteSetTheorems, TLAPS

-----------------------------------------------------------------------------
(* The transactions that are no cleanups *)

\* A transaction takes or gives up a lock, and the tables stay as they are.
LockStep ==
  \/ \E o \in Operators, e \in Evaluations : BeginSubmission(o, e)
  \/ \E f \in Founders : BeginSwitch(f) \/ \E e \in Evaluations : BeginAudit(f, e)
  \/ LockAudited \/ WriteFails \/ AbortHolder
  \/ \E e \in Evaluations : ReviewStep(e)

\* The transaction with the pause row writes and commits.
WriteStep ==
  RecordSubmission \/ (\E rejected \in BOOLEAN : RecordAudit(rejected)) \/ SwitchPause

TransactionStep ==
  \/ \E o \in Operators, at \in ClockTimes : SignIn(o, at) \/ RequestDeletion(o, at)
  \/ \E o \in Operators : PlaceIncidentHold(o)
  \/ LockStep \/ WriteStep

\* A step is one of these or one of a cleanup.
LEMMA Kinds ==
  Next => TransactionStep \/ \E c \in Cleanups : StartCleanup(c) \/ CleanupStep(c) \/ Crash(c)
  BY DEF Next, TransactionStep, LockStep, WriteStep, OperatorStep, FounderStep, HolderStep

\* What a lock leaves alone.
LEMMA LocksOnly == LockStep => UNCHANGED <<people, records, holds, work, pauseRow, receipts, jobs>>
  BY DEF LockStep, BeginSubmission, BeginSwitch, BeginAudit, TakePauseRow, LockAudited,
     WriteFails, AbortHolder, ReviewStep, BeginReview, RecordReview, AbortReview

\* What a write leaves alone; it ends its transaction, of an operator with an account.
LEMMA WritesOnly ==
  WriteStep => /\ UNCHANGED <<people, credentials, reviewing, holds, work, receipts, jobs>>
               /\ holder' = NoHolder
               /\ holder.kind \in Writing
               /\ holder.by \in operators
               /\ \A c \in Cleanups : Erasing(c) => job[c].target # holder.by
  BY DEF WriteStep, RecordSubmission, RecordAudit, SwitchPause, Write, Writing, HolderGoesOn,
     ErasureBlocksHolder

-----------------------------------------------------------------------------
(* Types *)

\* The transaction with the pause row is about an evaluation unless it is a switch, and of
\* a founder unless it is a submission.
HolderTyped ==
  /\ holder \in Holders \cup {NoHolder}
  /\ holder.kind \in {"submission", "asking", "audit"} => holder.evaluation \in Evaluations
  /\ holder.kind \in {"switch", "asking", "audit"} => holder.by \in Founders

\* Every table has the type of its columns; the number of receipts is bounded
\* separately.
TablesTyped ==
  /\ operators \subseteq Operators
  /\ created \in [Operators -> Nat]
  /\ erased \subseteq Operators
  /\ credentials \subseteq Operators
  /\ evaluations \in [Evaluations -> Operators \cup {None}]
  /\ audits \in [Evaluations -> Founders \cup {None}]
  /\ reviewing \subseteq Evaluations
  /\ holds \subseteq Operators
  /\ work \in [Operators -> Works \cup {NoWork}]
  /\ receipts \in Nat

\* The pause row and the events of the pause name founders.
PauseTyped ==
  /\ isPaused \in BOOLEAN
  /\ named \in [activated : Founders \cup {None}, resolved : Founders \cup {None}]
  /\ actors \subseteq Founders

\* So have the locals of the jobs, and an erasure has an operator.
JobsTyped ==
  /\ pc \in [Cleanups -> Steps]
  /\ job \in [Cleanups -> Jobs]
  /\ \A c \in Cleanups : pc[c] = "lock" \/ Erasing(c) => job[c].target \in Operators

TypeInv == HolderTyped /\ TablesTyped /\ PauseTyped /\ JobsTyped

\* A started job has locals of the right types.
LEMMA NoJobType == NoJob \in Jobs
  BY DEF NoJob, Jobs

\* Nobody has the pause row.
LEMMA NoHolderType == NoHolder.kind \notin Writing \cup {"asking"}
  BY DEF NoHolder, Writing, None

\* The type invariant holds initially.
LEMMA TypeInit == Init => TypeInv
<1> SUFFICES ASSUME Init PROVE TypeInv
  OBVIOUS
<1>0. HolderTyped
  BY NoHolderType DEF Init, HolderTyped, Writing
<1>1. TablesTyped /\ PauseTyped
  BY DEF Init, TablesTyped, PauseTyped
<1>2. JobsTyped
  BY NoJobType DEF Init, JobsTyped, Steps, Erasing
<1> QED BY <1>0, <1>1, <1>2 DEF TypeInv

\* The pause row is taken by transactions of the right types.
LEMMA HolderSteps ==
  ASSUME TypeInv, Next
  PROVE  HolderTyped'
<1> USE OperatorsAssumption DEF TypeInv, HolderTyped
<1>1. CASE holder' = NoHolder
  BY <1>1, NoHolderType DEF Writing
<1>2. CASE UNCHANGED holder
  BY <1>2
<1>3. ASSUME NEW o \in Operators, NEW e \in Evaluations, BeginSubmission(o, e)
      PROVE  HolderTyped'
  BY <1>3 DEF BeginSubmission, TakePauseRow, Holders, Writing
<1>4. ASSUME NEW f \in Founders, BeginSwitch(f) PROVE HolderTyped'
  BY <1>4 DEF BeginSwitch, TakePauseRow, Holders, Writing
<1>5. ASSUME NEW f \in Founders, NEW e \in Evaluations, BeginAudit(f, e) PROVE HolderTyped'
  BY <1>5 DEF BeginAudit, TakePauseRow, Holders, Writing
<1>6. CASE LockAudited
  <2>1. CASE holder' = [holder EXCEPT !.kind = "audit"]
    <3>1. holder \in Holders /\ holder.kind = "asking"
      BY <1>6, NoHolderType DEF LockAudited
    <3> QED BY <2>1, <3>1 DEF Holders, Writing
  <2> QED BY <1>6, <1>1, <2>1 DEF LockAudited
<1> QED
  <2>1. CASE TransactionStep
    BY <2>1, <1>1, <1>2, <1>3, <1>4, <1>5, <1>6, WritesOnly
    DEF TransactionStep, LockStep, SignIn, RequestDeletion, PlaceIncidentHold, locks,
        WriteFails, AbortHolder, ReviewStep, BeginReview, RecordReview, AbortReview
  <2>2. ASSUME NEW c \in Cleanups, StartCleanup(c) \/ CleanupStep(c) \/ Crash(c)
        PROVE  UNCHANGED holder
    BY <2>2 DEF StartCleanup, CleanupStep, Crash, ListExpired, NextPending, ReadPause,
       PauseForOverdueDeletion, NextExpired, LockOperator, DeleteAudits, DeleteEvaluations,
       Erase, EraseFails, EndCleanup, others, locks
  <2> QED BY <2>1, <2>2, <1>2, Kinds

\* Transactions about operators keep the types.
LEMMA TypeTables ==
  ASSUME TypeInv, TransactionStep
  PROVE  TablesTyped' /\ JobsTyped'
<1> USE OperatorsAssumption, PeriodsAssumption, TimesAssumption
<1>j. jobs' = jobs
  BY LocksOnly, WritesOnly DEF TransactionStep, SignIn, RequestDeletion, PlaceIncidentHold
<1>0. JobsTyped'
  BY <1>j DEF jobs, TypeInv, JobsTyped, Erasing
<1> USE DEF TypeInv, TablesTyped
<1>1. ASSUME NEW o \in Operators, NEW at \in ClockTimes, SignIn(o, at) PROVE TablesTyped'
  BY <1>1 DEF SignIn, locks
<1>2. ASSUME NEW o \in Operators, NEW at \in ClockTimes, RequestDeletion(o, at)
      PROVE  TablesTyped'
  <2>1. Request(o, at) \in Works
    BY DEF Request, Works, Pending
  <2> QED BY <1>2, <2>1 DEF RequestDeletion, people, records, locks
<1>3. ASSUME NEW o \in Operators, PlaceIncidentHold(o) PROVE TablesTyped'
  BY <1>3 DEF PlaceIncidentHold, people, records, locks
<1>4. ASSUME LockStep PROVE TablesTyped'
  <2>1. reviewing' \subseteq Evaluations
    <3>1. ASSUME NEW e \in Evaluations, ReviewStep(e) PROVE reviewing' \subseteq Evaluations
      BY <3>1 DEF ReviewStep, BeginReview, RecordReview, AbortReview
    <3>2. CASE UNCHANGED reviewing
      BY <3>2
    <3> QED
      BY <1>4, <3>1, <3>2 DEF LockStep, BeginSubmission, BeginSwitch, BeginAudit, TakePauseRow,
         LockAudited, WriteFails, AbortHolder
  <2>2. UNCHANGED <<people, records, holds, work, receipts>>
    BY <1>4, LocksOnly
  <2> QED BY <2>1, <2>2 DEF people, records
<1>5. ASSUME WriteStep PROVE TablesTyped'
  <2>0. UNCHANGED <<people, credentials, reviewing, holds, work, receipts>>
    BY <1>5, WritesOnly
  <2>1. CASE RecordSubmission
    <3>1. /\ evaluations' = [evaluations EXCEPT ![holder.evaluation] = holder.by]
          /\ UNCHANGED audits
          /\ holder.by \in operators
      BY <2>1 DEF RecordSubmission, Write
    <3> QED BY <2>0, <3>1 DEF people
  <2>2. ASSUME NEW rejected \in BOOLEAN, RecordAudit(rejected) PROVE TablesTyped'
    <3>1. /\ audits' = [audits EXCEPT ![holder.evaluation] = holder.by]
          /\ UNCHANGED evaluations
          /\ holder.by \in Founders
      BY <2>2 DEF RecordAudit, Write, HolderTyped
    <3> QED BY <2>0, <3>1 DEF people
  <2>3. CASE SwitchPause
    <3>1. UNCHANGED <<evaluations, audits>>
      BY <2>3 DEF SwitchPause
    <3> QED BY <2>0, <3>1 DEF people
  <2> QED BY <1>5, <2>1, <2>2, <2>3 DEF WriteStep
<1> QED BY <1>0, <1>1, <1>2, <1>3, <1>4, <1>5 DEF TransactionStep

\* What a founder writes about the pause names the founder.
LEMMA ActivationTyped ==
  ASSUME PauseTyped, NEW f \in Founders, Activate(f)
  PROVE  PauseTyped'
  BY DEF PauseTyped, Activate

\* The pause is always typed.
LEMMA PauseSteps ==
  ASSUME TypeInv, Next
  PROVE  PauseTyped'
<1> USE DEF TypeInv
<1>1. CASE UNCHANGED pauseRow
  BY <1>1 DEF pauseRow, PauseTyped
<1>2. CASE WriteStep
  <2>1. ASSUME NEW rejected \in BOOLEAN, RecordAudit(rejected) PROVE PauseTyped'
    <3>1. holder.by \in Founders
      BY <2>1 DEF RecordAudit, Write, HolderTyped
    <3> QED BY <1>1, <2>1, <3>1, ActivationTyped DEF RecordAudit
  <2>2. CASE SwitchPause
    <3>1. holder.by \in Founders
      BY <2>2 DEF SwitchPause, Write, HolderTyped
    <3>2. CASE /\ isPaused' = FALSE
               /\ named' = [named EXCEPT !.resolved = holder.by]
               /\ actors' = actors \cup {holder.by}
      BY <3>1, <3>2 DEF PauseTyped
    <3> QED BY <2>2, <3>1, <3>2, ActivationTyped DEF SwitchPause
  <2> QED BY <1>1, <1>2, <2>1, <2>2 DEF WriteStep, RecordSubmission
<1>3. ASSUME NEW c \in Cleanups, StartCleanup(c) \/ CleanupStep(c) \/ Crash(c)
      PROVE  PauseTyped'
  <2>1. CASE Erase(c)
    <3>1. /\ UNCHANGED isPaused
          /\ named' = [activated |-> Cleared(job[c].target, named.activated),
                       resolved |-> Cleared(job[c].target, named.resolved)]
          /\ actors' = actors \ {job[c].target}
      BY <2>1 DEF Erase
    <3> QED BY <3>1 DEF PauseTyped, Cleared
  <2>2. CASE PauseForOverdueDeletion(c)
    <3>1. /\ isPaused' = TRUE /\ UNCHANGED actors
          /\ named' = [named EXCEPT !.activated = None]
      BY <2>2 DEF PauseForOverdueDeletion
    <3> QED BY <3>1 DEF PauseTyped
  <2>3. CASE UNCHANGED pauseRow
    BY <2>3, <1>1
  <2> QED
    BY <1>3, <2>1, <2>2, <2>3 DEF StartCleanup, CleanupStep, Crash, ListExpired, NextPending,
       ReadPause, NextExpired, LockOperator, DeleteAudits, DeleteEvaluations, EraseFails,
       EndCleanup, others, pauseRow
<1> QED
  BY <1>1, <1>2, <1>3, Kinds, LocksOnly
  DEF TransactionStep, SignIn, RequestDeletion, PlaceIncidentHold

\* The tables keep their types in a cleanup.
LEMMA TablesInCleanups ==
  ASSUME TypeInv, NEW c \in Cleanups, StartCleanup(c) \/ CleanupStep(c) \/ Crash(c)
  PROVE  TablesTyped'
<1> USE DEF TypeInv, TablesTyped
<1>1. CASE Erase(c)
  <2>1. job[c].target \in Operators
    BY <1>1 DEF JobsTyped, Erase, Erasing, At
  <2> QED BY <1>1, <2>1 DEF Erase, Cleared, locks
<1>2. CASE PauseForOverdueDeletion(c)
  BY <1>2 DEF PauseForOverdueDeletion, people, records, locks
<1>3. CASE UNCHANGED others
  BY <1>3 DEF others
<1> QED
  BY <1>1, <1>2, <1>3 DEF StartCleanup, CleanupStep, Crash, ListExpired, NextPending,
     ReadPause, NextExpired, LockOperator, DeleteAudits, DeleteEvaluations, EraseFails,
     EndCleanup

\* The locals keep their types in a cleanup.
LEMMA JobsInCleanups ==
  ASSUME TypeInv, NEW c \in Cleanups, StartCleanup(c) \/ CleanupStep(c) \/ Crash(c)
  PROVE  JobsTyped'
<1> USE NoJobType DEF TypeInv, JobsTyped, GoTo, Steps, At, Erasing
<1>1. CASE StartCleanup(c)
  <2> DEFINE listed == {[operator |-> o, work |-> work[o]] : o \in {p \in Operators : Pending(p)}}
  <2>1. PICK at \in JobTimes :
          job' = [job EXCEPT ![c] = [NoJob EXCEPT !.at = at, !.kept = holds, !.pending = listed]]
    BY <1>1 DEF StartCleanup
  <2>2. listed \subseteq Requests
    BY DEF Pending, TablesTyped, Requests
  <2>3. [NoJob EXCEPT !.at = at, !.kept = holds, !.pending = listed] \in Jobs
    <3> HIDE DEF listed
    <3> QED BY <2>2, TimesAssumption DEF NoJob, Jobs, TablesTyped
  <2> HIDE DEF listed
  <2> QED BY <1>1, <2>1, <2>3 DEF StartCleanup
<1>2. CASE ListExpired(c)
  <2>1. Expired(job[c].at) \subseteq Operators
    BY DEF Expired, TablesTyped
  <2>2. job' \in [Cleanups -> Jobs]
    BY <1>2, <2>1 DEF ListExpired, Jobs
  <2> QED BY <1>2, <2>2 DEF ListExpired
<1>3. CASE NextPending(c)
  <2>1. PICK p \in FirstPending(c) :
          \/ job' = [job EXCEPT ![c].pending = @ \ {p}]
             /\ (GoTo(c, "overdue") \/ UNCHANGED pc)
          \/ job' = [job EXCEPT ![c].pending = @ \ {p}, ![c].target = p.operator]
             /\ GoTo(c, "lock")
    BY <1>3 DEF NextPending
  <2>2. p.operator \in Operators
    BY DEF FirstPending, Jobs, Requests
  <2>3. job' \in [Cleanups -> Jobs]
    BY <2>1, <2>2 DEF Jobs
  <2>4. pc' \in [Cleanups -> Steps]
    BY <2>1
  <2>5. pc'[c] \in {"overdue", "next"} \/ job'[c].target = p.operator
    BY <1>3, <2>1 DEF NextPending, Jobs
  <2>6. \A d \in Cleanups \ {c} : pc'[d] = pc[d] /\ job'[d] = job[d]
    BY <2>1
  <2> QED BY <2>2, <2>3, <2>4, <2>5, <2>6
<1>4. CASE ReadPause(c)
  BY <1>4 DEF ReadPause
<1>5. CASE PauseForOverdueDeletion(c)
  BY <1>5 DEF PauseForOverdueDeletion
<1>6. CASE NextExpired(c)
  <2>1. PICK o \in FirstExpired(c) :
          job' = [job EXCEPT ![c].expired = @ \ {o}, ![c].target = o]
    BY <1>6 DEF NextExpired
  <2>2. o \in Operators
    BY DEF FirstExpired, Jobs
  <2>3. job' \in [Cleanups -> Jobs]
    BY <2>1, <2>2 DEF Jobs
  <2> QED BY <1>6, <2>1, <2>2, <2>3 DEF NextExpired, Jobs
<1>7. CASE LockOperator(c)
  <2>1. job' \in [Cleanups -> Jobs]
    <3>1. CASE job' = [job EXCEPT ![c].rows = OwnEvaluations(job[c].target)]
      <4>1. OwnEvaluations(job[c].target) \subseteq Evaluations
        BY DEF OwnEvaluations
      <4> QED BY <3>1, <4>1 DEF Jobs
    <3>2. CASE job' = Forget(c)
      BY <3>2 DEF Forget, Jobs
    <3> QED BY <1>7, <3>1, <3>2 DEF LockOperator
  <2>2. \A d \in Cleanups : d # c => job'[d] = job[d] /\ pc'[d] = pc[d]
    BY <1>7 DEF LockOperator, Forget
  <2>3. pc'[c] = "next" \/ job'[c].target = job[c].target
    BY <1>7 DEF LockOperator, Jobs
  <2>4. pc' \in [Cleanups -> Steps]
    BY <1>7 DEF LockOperator
  <2>5. job[c].target \in Operators
    BY <1>7 DEF LockOperator
  <2> QED BY <2>1, <2>2, <2>3, <2>4, <2>5
<1>8. CASE DeleteAudits(c)
  <2>1. job' \in [Cleanups -> Jobs]
    BY <1>8 DEF DeleteAudits, OwnAudits, Jobs
  <2> QED BY <1>8, <2>1 DEF DeleteAudits, Jobs
<1>11. CASE DeleteEvaluations(c)
  BY <1>11 DEF DeleteEvaluations
<1>9. CASE Erase(c)
  <2>1. /\ Forget(c) \in [Cleanups -> Jobs]
        /\ \A d \in Cleanups : d # c => Forget(c)[d].target = job[d].target
    BY DEF Forget, Jobs
  <2>2. \A d \in Cleanups : /\ job'[d] \in Jobs
                            /\ d # c => job'[d].target = job[d].target
    BY <1>9, <2>1 DEF Erase, Jobs
  <2>3. job' \in [Cleanups -> Jobs]
    BY <1>9, <2>2 DEF Erase
  <2> QED BY <1>9, <2>2, <2>3 DEF Erase
<1>10. CASE EraseFails(c) \/ EndCleanup(c) \/ Crash(c)
  BY <1>10 DEF EraseFails, EndCleanup, Crash
<1> QED
  BY <1>1, <1>2, <1>3, <1>4, <1>5, <1>6, <1>7, <1>8, <1>9, <1>10, <1>11 DEF CleanupStep

-----------------------------------------------------------------------------
(* Erasure is whole *)

\* An erasure knows all evaluations of its operator, whose row it alone has.
Alone ==
  /\ \A c \in Cleanups :
       Erasing(c) => /\ job[c].target \in operators
                     /\ job[c].rows = OwnEvaluations(job[c].target)
  /\ \A c, d \in Cleanups :
       Erasing(c) /\ Erasing(d) /\ job[c].target = job[d].target => c = d

\* Later it knows all the audits by the operator.
AuditsKnown ==
  \A c \in Cleanups : \A e \in Evaluations :
    pc[c] \in {"evaluations", "pauseRow"} /\ audits[e] = job[c].target => e \in job[c].audited

\* Then it has the rows of the evaluations, which are as good as gone.
RowsTaken ==
  \A c \in Cleanups :
    pc[c] = "pauseRow" =>
      /\ job[c].rows \cap reviewing = {}
      /\ \A e \in job[c].rows : audits[e] = None \/ e \in job[c].audited
      /\ holder.kind = "audit" => holder.evaluation \notin job[c].rows

\* A lock keeps what was read under it: the evaluation is not there yet, or there and
\* not audited, or there.
LocksKeep ==
  /\ holder.kind = "submission" => evaluations[holder.evaluation] = None
  /\ holder.kind = "audit" => /\ evaluations[holder.evaluation] # None
                              /\ audits[holder.evaluation] = None
  /\ \A e \in reviewing : evaluations[e] # None

\* Who is named in the pause row is also named in an event.
NamesKept == {named.activated, named.resolved} \subseteq actors \cup {None}

LockInv == Alone /\ AuditsKnown /\ RowsTaken /\ LocksKeep /\ NamesKept

WholeInv == LockInv /\ ErasureIsWhole

\* Taking a lock breaks none and leaves no trace.
LEMMA WholeLocks ==
  ASSUME TypeInv, WholeInv, LockStep
  PROVE  WholeInv'
<1>1. UNCHANGED <<people, records, holds, work, pauseRow, jobs>>
  BY LocksOnly
<1>2. ErasureIsWhole' /\ Alone' /\ AuditsKnown' /\ NamesKept'
  BY <1>1 DEF WholeInv, LockInv, ErasureIsWhole, Traces, Held, Pending, Alone, AuditsKnown,
     NamesKept, Erasing, OwnEvaluations, people, records, pauseRow, jobs
<1> USE <1>1, NoHolderType
    DEF WholeInv, LockInv, RowsTaken, LocksKeep, TypeInv, HolderTyped, records, jobs
<1>3. CASE UNCHANGED reviewing /\ (holder' = NoHolder \/ holder'.kind \in {"asking", "switch"})
  BY <1>2, <1>3 DEF Writing
<1>4. ASSUME NEW o \in Operators, NEW e \in Evaluations, BeginSubmission(o, e) PROVE WholeInv'
  BY <1>2, <1>4 DEF BeginSubmission, TakePauseRow
<1>5. CASE LockAudited /\ holder' # NoHolder
  <2>1. /\ holder'.kind = "audit" /\ holder'.evaluation = holder.evaluation
        /\ evaluations[holder.evaluation] # None /\ audits[holder.evaluation] = None
        /\ UNCHANGED reviewing
    <3>1. holder \in Holders
      BY <1>5 DEF LockAudited
    <3> QED BY <1>5, <3>1 DEF LockAudited, Holders
  <2>2. ASSUME NEW c \in Cleanups, pc[c] = "pauseRow" PROVE holder.evaluation \notin job[c].rows
    BY <1>5, <2>2 DEF LockAudited, HolderGoesOn, ErasureBlocksHolder, At
  <2> QED BY <1>2, <2>1, <2>2
<1>6. ASSUME NEW e \in Evaluations, BeginReview(e) PROVE WholeInv'
  BY <1>2, <1>6 DEF BeginReview, At
<1>7. ASSUME NEW e \in Evaluations, RecordReview(e) \/ AbortReview(e) PROVE WholeInv'
  BY <1>2, <1>7 DEF RecordReview, AbortReview
<1> QED
  BY <1>3, <1>4, <1>5, <1>6, <1>7
  DEF LockStep, BeginSwitch, BeginAudit, TakePauseRow, LockAudited, WriteFails, AbortHolder,
      ReviewStep

\* A write leaves the trace of an operator with an account, whom nobody erases.
LEMMA WholeWrites ==
  ASSUME TypeInv, WholeInv, WriteStep
  PROVE  WholeInv'
<1>1. /\ UNCHANGED <<people, credentials, reviewing, holds, work, jobs>>
      /\ holder' = NoHolder
      /\ holder.by \in operators
      /\ \A c \in Cleanups : Erasing(c) => job[c].target # holder.by
  BY WritesOnly
<1> USE <1>1, NoHolderType, OperatorsAssumption, NoneAssumption
    DEF WholeInv, LockInv, TypeInv, HolderTyped, TablesTyped, people, jobs
<1>2. CASE RecordSubmission
  <2>1. /\ evaluations' = [evaluations EXCEPT ![holder.evaluation] = holder.by]
        /\ UNCHANGED <<audits, pauseRow>>
        /\ evaluations[holder.evaluation] = None /\ holder.evaluation \in Evaluations
    BY <1>2 DEF RecordSubmission, Write, LocksKeep
  <2>2. ErasureIsWhole'
    BY <2>1 DEF ErasureIsWhole, Traces, Held, Pending, pauseRow
  <2>3. Alone'
    BY <2>1 DEF Alone, Erasing, OwnEvaluations
  <2>4. AuditsKnown' /\ RowsTaken' /\ LocksKeep' /\ NamesKept'
    BY <2>1 DEF AuditsKnown, RowsTaken, LocksKeep, NamesKept, pauseRow, Writing
  <2> QED BY <2>2, <2>3, <2>4
<1>3. ASSUME NEW rejected \in BOOLEAN, RecordAudit(rejected) PROVE WholeInv'
  <2>1. /\ audits' = [audits EXCEPT ![holder.evaluation] = holder.by]
        /\ UNCHANGED evaluations
        /\ holder.kind = "audit"
        /\ holder.evaluation \in Evaluations /\ holder.by \in Founders
        /\ evaluations[holder.evaluation] # None
        /\ UNCHANGED pauseRow \/ Activate(holder.by)
    BY <1>3 DEF RecordAudit, Write, LocksKeep
  <2>2. NamesKept' /\ actors' \subseteq actors \cup {holder.by}
    BY <2>1 DEF NamesKept, Activate, pauseRow
  <2>3. ErasureIsWhole'
    BY <2>1, <2>2 DEF ErasureIsWhole, Traces, Held, Pending, NamesKept
  <2>4. Alone'
    BY <2>1 DEF Alone, Erasing, OwnEvaluations
  <2>5. AuditsKnown'
    BY <2>1 DEF AuditsKnown, Erasing
  <2>6. RowsTaken' /\ LocksKeep'
    BY <2>1 DEF RowsTaken, LocksKeep, Writing
  <2> QED BY <2>2, <2>3, <2>4, <2>5, <2>6
<1>4. CASE SwitchPause
  <2>1. UNCHANGED records /\ holder.by \in Founders
    BY <1>4 DEF SwitchPause, Write, records
  <2>2. NamesKept' /\ actors' \subseteq actors \cup {holder.by}
    BY <1>4 DEF SwitchPause, NamesKept, Activate, PauseTyped
  <2>3. ErasureIsWhole'
    BY <2>1, <2>2 DEF ErasureIsWhole, Traces, Held, Pending, NamesKept, records
  <2>4. Alone' /\ AuditsKnown' /\ RowsTaken' /\ LocksKeep'
    BY <2>1 DEF Alone, AuditsKnown, RowsTaken, LocksKeep, Erasing, OwnEvaluations, records,
       Writing
  <2> QED BY <2>2, <2>3, <2>4
<1> QED BY <1>2, <1>3, <1>4 DEF WriteStep

\* So no transaction breaks a lock or leaves a trace of somebody without an account.
LEMMA WholeTables ==
  ASSUME TypeInv, WholeInv, TransactionStep
  PROVE  WholeInv'
<1> USE OperatorsAssumption, NoneAssumption
<1> USE DEF TypeInv, TablesTyped, WholeInv, LockInv, ErasureIsWhole, Traces, Erasing, Alone,
            AuditsKnown, RowsTaken, LocksKeep, NamesKept, OwnEvaluations, RowFree, Held, Pending
<1>1. ASSUME NEW o \in Operators, NEW at \in ClockTimes, SignIn(o, at) PROVE WholeInv'
  BY <1>1 DEF SignIn, pauseRow, jobs, locks
<1>2. ASSUME NEW o \in Operators, NEW at \in ClockTimes, RequestDeletion(o, at) PROVE WholeInv'
  BY <1>2 DEF RequestDeletion, people, records, pauseRow, jobs, locks
<1>3. ASSUME NEW o \in Operators, PlaceIncidentHold(o) PROVE WholeInv'
  BY <1>3 DEF PlaceIncidentHold, people, records, pauseRow, jobs, locks
<1> QED BY <1>1, <1>2, <1>3, WholeLocks, WholeWrites DEF TransactionStep

\* What a cleanup leaves of a job that is not its own.
LEMMA OtherJobs ==
  ASSUME TypeInv, NEW c \in Cleanups, StartCleanup(c) \/ CleanupStep(c) \/ Crash(c),
         NEW d \in Cleanups, d # c
  PROVE  /\ pc'[d] = pc[d]
         /\ job'[d].target = job[d].target /\ job'[d].rows = job[d].rows
         /\ job'[d].audited = job[d].audited /\ job'[d].at = job[d].at
         /\ job'[d].expired = job[d].expired /\ job'[d].pending = job[d].pending
<1> USE DEF TypeInv, JobsTyped, GoTo, Jobs
<1>1. CASE Erase(c)
  BY <1>1 DEF Erase, Forget
<1>2. CASE ~Erase(c)
  <2>1. job'[d] = job[d] /\ pc'[d] = pc[d]
    BY <1>2 DEF StartCleanup, CleanupStep, Crash, ListExpired, NextPending, ReadPause,
       PauseForOverdueDeletion, NextExpired, LockOperator, Forget, DeleteAudits,
       DeleteEvaluations, EraseFails, EndCleanup
  <2> QED BY <2>1
<1> QED BY <1>1, <1>2

\* The commit of an erasure removes every trace of its operator, and takes no other
\* transaction's rows away.
LEMMA WholeErase ==
  ASSUME TypeInv, WholeInv, NEW c \in Cleanups, Erase(c)
  PROVE  WholeInv'
<1> DEFINE o == job[c].target
<1>o. \A d \in Cleanups \ {c} :
         /\ pc'[d] = pc[d]
         /\ job'[d].target = job[d].target /\ job'[d].rows = job[d].rows
         /\ job'[d].audited = job[d].audited
  BY OtherJobs DEF CleanupStep
<1> USE NoneAssumption DEF TypeInv, JobsTyped, GoTo, At
<1>1. /\ pc[c] = "pauseRow" /\ pc'[c] = "next" /\ Erasing(c)
      /\ operators' = operators \ {o}
      /\ credentials' = credentials \ {o} /\ holds' = holds \ {o} /\ actors' = actors \ {o}
      /\ named' = [activated |-> Cleared(o, named.activated),
                   resolved |-> Cleared(o, named.resolved)]
      /\ work' = [work EXCEPT ![o] = NoWork]
      /\ UNCHANGED locks
      /\ evaluations' =
           [e \in Evaluations |-> IF e \in job[c].rows THEN None ELSE evaluations[e]]
      /\ audits' = [e \in Evaluations |-> IF e \in job[c].audited THEN None ELSE audits[e]]
  BY DEF Erase, Erasing
<1>2. o \in Operators /\ o \in operators /\ job[c].rows = OwnEvaluations(o)
  BY <1>1 DEF WholeInv, LockInv, Alone
<1>3. /\ \A e \in Evaluations : audits[e] = o => e \in job[c].audited
      /\ \A e \in job[c].rows : audits[e] = None \/ e \in job[c].audited
      /\ holder.kind = "audit" => holder.evaluation \notin job[c].rows
      /\ job[c].rows \cap reviewing = {}
  BY <1>1 DEF WholeInv, LockInv, AuditsKnown, RowsTaken
<1> HIDE DEF o
<1>4. ErasureIsWhole'
  <2>1. Traces \subseteq operators
    BY DEF WholeInv, ErasureIsWhole
  <2>2. ASSUME NEW p \in Traces' PROVE p \in Traces /\ p # o
    BY <1>1, <1>2, <1>3 DEF Traces, Held, Pending, OwnEvaluations, TablesTyped, Cleared
  <2>3. \A e \in Evaluations : audits'[e] # None => evaluations'[e] # None
    BY <1>1, <1>3 DEF WholeInv, ErasureIsWhole, TablesTyped
  <2> QED BY <1>1, <2>1, <2>2, <2>3 DEF ErasureIsWhole
<1>5. Alone'
  <2>1. \A d \in Cleanups : Erasing(d)' => /\ Erasing(d) /\ d # c
                                          /\ job[d].target # o /\ job[d].target \in Operators
                                          /\ job'[d].target = job[d].target
                                          /\ job'[d].rows = job[d].rows
    BY <1>o, <1>1 DEF Erasing, WholeInv, LockInv, Alone, o
  <2>2. ASSUME NEW d \in Cleanups, Erasing(d)'
        PROVE  OwnEvaluations(job[d].target)' = job[d].rows
    <3>1. job[d].rows = {e \in Evaluations : evaluations[e] = job[d].target}
      BY <2>1, <2>2 DEF WholeInv, LockInv, Alone, OwnEvaluations
    <3>2. OwnEvaluations(job[d].target)' = {e \in Evaluations : evaluations'[e] = job'[d].target}
      BY DEF OwnEvaluations
    <3>3. \A e \in job[c].rows : evaluations[e] = o
      BY <1>2 DEF OwnEvaluations
    <3>4. {e \in Evaluations : evaluations'[e] = job'[d].target}
            = {e \in Evaluations : evaluations[e] = job[d].target}
      BY <1>1, <2>1, <2>2, <3>3
    <3> QED BY <3>1, <3>2, <3>4
  <2>3. \A d \in Cleanups : Erasing(d)' => job'[d].target \in operators'
    BY <1>1, <2>1 DEF WholeInv, LockInv, Alone
  <2>4. \A d, e \in Cleanups :
          Erasing(d)' /\ Erasing(e)' /\ job'[d].target = job'[e].target => d = e
    BY <2>1 DEF WholeInv, LockInv, Alone
  <2>5. \A d \in Cleanups : Erasing(d)' => job'[d].rows = OwnEvaluations(job[d].target)'
    BY <2>1, <2>2
  <2> QED BY <2>3, <2>4, <2>5 DEF Alone
<1>6. AuditsKnown'
  BY <1>o, <1>1 DEF WholeInv, LockInv, AuditsKnown, Erasing
<1>7. RowsTaken'
  BY <1>o, <1>1 DEF WholeInv, LockInv, RowsTaken, locks, Jobs
<1>8. LocksKeep'
  BY <1>1, <1>3 DEF WholeInv, LockInv, LocksKeep, HolderTyped, TablesTyped, locks
<1>9. NamesKept'
  BY <1>1 DEF WholeInv, LockInv, NamesKept, Cleared
<1> QED BY <1>4, <1>5, <1>6, <1>7, <1>8, <1>9 DEF WholeInv, LockInv

\* Before its commit a cleanup writes nothing that is seen but the pause.
LEMMA WholeCleanups ==
  ASSUME TypeInv, WholeInv, NEW c \in Cleanups, StartCleanup(c) \/ CleanupStep(c) \/ Crash(c)
  PROVE  WholeInv'
<1>1. CASE Erase(c)
  BY <1>1, WholeErase
<1>2. CASE ~Erase(c)
  <2>o. \A d \in Cleanups \ {c} :
           /\ pc'[d] = pc[d]
           /\ job'[d].target = job[d].target /\ job'[d].rows = job[d].rows
           /\ job'[d].audited = job[d].audited
    BY OtherJobs
  <2> USE NoneAssumption DEF TypeInv, JobsTyped, GoTo, At
  <2>1. /\ UNCHANGED <<operators, evaluations, audits, locks, credentials, holds, work, actors>>
        /\ named' = named \/ named' = [named EXCEPT !.activated = None]
    BY <1>2 DEF StartCleanup, CleanupStep, Crash, ListExpired, NextPending, ReadPause,
       PauseForOverdueDeletion, NextExpired, LockOperator, DeleteAudits, DeleteEvaluations,
       EraseFails, EndCleanup, others, records, people, locks
  <2>2. ErasureIsWhole' /\ LocksKeep' /\ NamesKept'
    BY <2>1 DEF WholeInv, LockInv, ErasureIsWhole, Traces, Held, Pending, LocksKeep, NamesKept,
       TablesTyped, PauseTyped, locks
  <2>3. \/ LockOperator(c) \/ DeleteAudits(c) \/ DeleteEvaluations(c)
        \/ pc'[c] \notin {"dependents", "evaluations", "pauseRow"}
    BY <1>2 DEF StartCleanup, CleanupStep, Crash, Running, ListExpired, NextPending,
       ReadPause, PauseForOverdueDeletion, NextExpired, EraseFails, EndCleanup
  <2> USE <2>o, <2>1 DEF WholeInv, LockInv, Alone, AuditsKnown, RowsTaken, Erasing,
                         OwnEvaluations, locks
  <2>4. CASE LockOperator(c)
    <3>1. CASE job[c].target \in operators
      <4>1. /\ pc'[c] = "dependents"
            /\ job'[c].target = job[c].target
            /\ job'[c].rows = OwnEvaluations(job[c].target)
            /\ \A d \in Cleanups : Erasing(d) => job[d].target # job[c].target
        BY <2>4, <3>1 DEF LockOperator, RowFree, Jobs
      <4> QED BY <2>2, <3>1, <4>1
    <3>2. CASE job[c].target \notin operators
      <4>1. pc'[c] = "next"
        BY <2>4, <3>2 DEF LockOperator
      <4> QED BY <2>2, <4>1
    <3> QED BY <3>1, <3>2
  <2>5. CASE DeleteAudits(c)
    <3>1. /\ pc[c] = "dependents" /\ pc'[c] = "evaluations"
          /\ job'[c].target = job[c].target
          /\ job'[c].rows = job[c].rows
          /\ job'[c].audited = OwnAudits(c)
      BY <2>5 DEF DeleteAudits, Jobs
    <3>2. \A e \in Evaluations : audits[e] = job[c].target => e \in OwnAudits(c)
      BY <3>1 DEF OwnAudits
    <3> QED BY <2>2, <3>1, <3>2
  <2>6. CASE DeleteEvaluations(c)
    <3>1. /\ pc[c] = "evaluations" /\ pc'[c] = "pauseRow"
          /\ job' = job
          /\ \A e \in job[c].rows : audits[e] = None \/ e \in job[c].audited
          /\ job[c].rows \cap reviewing = {}
          /\ holder.kind = "audit" => holder.evaluation \notin job[c].rows
      BY <2>6, NoHolderType DEF DeleteEvaluations, ErasureGoesOn, HolderBlocks, ReviewBlocks, Jobs,
         Writing, TablesTyped
    <3> QED BY <2>2, <3>1
  <2>7. CASE pc'[c] \notin {"dependents", "evaluations", "pauseRow"}
    BY <2>2, <2>7
  <2> QED BY <2>3, <2>4, <2>5, <2>6, <2>7
<1> QED BY <1>1, <1>2

-----------------------------------------------------------------------------
(* Receipts *)

\* Only an erasure touches receipts and erased ids; its operator had an account.
LEMMA ReceiptsStep ==
  ASSUME TypeInv, WholeInv, OneReceiptEach, [Next]_vars
  PROVE  OneReceiptEach'
<1> USE DEF OneReceiptEach
<1>1. ASSUME NEW c \in Cleanups, Erase(c) PROVE OneReceiptEach'
  <2>1. job[c].target \in operators /\ job[c].target \notin erased
    BY <1>1 DEF Erase, Erasing, At, WholeInv, LockInv, Alone
  <2>2. IsFiniteSet(erased)
    BY OperatorsAssumption, FS_Subset DEF TypeInv, TablesTyped
  <2>3. Cardinality(erased \cup {job[c].target}) = Cardinality(erased) + 1
    BY <2>1, <2>2, FS_AddElement
  <2> QED BY <1>1, <2>1, <2>3 DEF Erase
<1>2. ASSUME NEW o \in Operators, NEW at \in ClockTimes, SignIn(o, at) PROVE OneReceiptEach'
  BY <1>2 DEF SignIn
<1>3. CASE UNCHANGED <<people, receipts>>
  BY <1>3 DEF people
<1> QED
  BY <1>1, <1>2, <1>3, Kinds, LocksOnly, WritesOnly
  DEF TransactionStep, RequestDeletion, PlaceIncidentHold, StartCleanup, CleanupStep, Crash,
      ListExpired, NextPending, ReadPause, PauseForOverdueDeletion, NextExpired, LockOperator,
      DeleteAudits, DeleteEvaluations, EraseFails, EndCleanup, others, people, vars

-----------------------------------------------------------------------------
(* Holds and reasons *)

\* Why a cleanup may erase an operator, unless another one has done it.
Reason(c, o) ==
  \/ Pending(o)
  \/ o \in erased
  \/ o \in operators /\ created[o] + RetentionPeriod <= job[c].at

\* The operators on a cleanup's lists, and the one it erases, have a reason.
Founded(c) ==
  /\ \A p \in job[c].pending : Reason(c, p.operator)
  /\ \A o \in job[c].expired : Reason(c, o)
  /\ pc[c] = "lock" \/ Erasing(c) => Reason(c, job[c].target)

\* An operator held since the cleanup began is still held, and on no list but that
\* of the requests; it is not being erased.
Respectful(c) ==
  /\ job[c].kept \subseteq holds
  /\ job[c].expired \cap job[c].kept = {}
  /\ pc[c] = "lock" \/ Erasing(c) => job[c].target \notin job[c].kept

ListInv == \A c \in Cleanups : Founded(c) /\ Respectful(c)

\* Transactions about operators add to what the lists were made from.
LEMMA ListTables ==
  ASSUME TypeInv, OneReceiptEach, ListInv,
         TransactionStep
  PROVE  ListInv'
<1> USE DEF TypeInv, TablesTyped
<1> DEFINE Grows == /\ jobs' = jobs /\ erased' = erased
                    /\ holds \subseteq holds' /\ operators \subseteq operators'
                    /\ \A o \in operators : created'[o] = created[o]
                    /\ \A o \in Operators : Pending(o) => Pending(o)'
<1>1. Grows
  <2>1. ASSUME NEW o \in Operators, NEW at \in ClockTimes, SignIn(o, at) PROVE Grows
    BY <2>1 DEF SignIn, jobs, Pending, OneReceiptEach
  <2>2. ASSUME NEW o \in Operators, NEW at \in ClockTimes, RequestDeletion(o, at) PROVE Grows
    BY <2>2 DEF RequestDeletion, Request, people, jobs, Pending
  <2>3. ASSUME NEW o \in Operators, PlaceIncidentHold(o) PROVE Grows
    BY <2>3 DEF PlaceIncidentHold, people, jobs, Pending
  <2>4. CASE UNCHANGED <<people, holds, work, jobs>>
    BY <2>4 DEF people, jobs, Pending
  <2> QED
    BY <2>1, <2>2, <2>3, <2>4, LocksOnly, WritesOnly DEF TransactionStep
<1>2. \A c \in Cleanups : \A o \in Operators : Reason(c, o) => Reason(c, o)'
  BY <1>1 DEF Reason, jobs
<1>3. ASSUME NEW c \in Cleanups PROVE Founded(c)'
  BY <1>1, <1>2 DEF ListInv, Founded, jobs, JobsTyped, Jobs, Requests, Erasing
<1>4. ASSUME NEW c \in Cleanups PROVE Respectful(c)'
  BY <1>1 DEF ListInv, Respectful, jobs, Erasing
<1> QED BY <1>3, <1>4 DEF ListInv

\* Unless the cleanup adds to its lists, they stay as good as they were.
LEMMA ListShrinks ==
  ASSUME TypeInv, ListInv, NEW c \in Cleanups,
         UNCHANGED <<people, work, holds>>,
         job'[c].pending \subseteq job[c].pending, job'[c].expired \subseteq job[c].expired,
         job'[c].at = job[c].at, job'[c].kept = job[c].kept,
         \/ pc'[c] \notin {"lock", "dependents", "evaluations", "pauseRow"}
         \/ Reason(c, job'[c].target) /\ job'[c].target \notin job[c].kept
  PROVE  Founded(c)' /\ Respectful(c)'
<1>1. \A o : Reason(c, o) => Reason(c, o)'
  BY DEF Reason, Pending, people
<1>2. Founded(c)'
  BY <1>1 DEF ListInv, Founded, Erasing, Reason, Pending, people
<1>3. Respectful(c)'
  BY DEF ListInv, Respectful, Erasing
<1> QED BY <1>2, <1>3

\* Only an erasure takes an operator from the tables, and from what the cleanups keep.
LEMMA OthersAlone ==
  ASSUME TypeInv, NEW c \in Cleanups, ~Erase(c), StartCleanup(c) \/ CleanupStep(c) \/ Crash(c)
  PROVE  /\ UNCHANGED <<people, work, holds>>
         /\ \A d \in Cleanups \ {c} : pc'[d] = pc[d] /\ job'[d] = job[d]
<1> USE DEF TypeInv, JobsTyped, GoTo
<1>1. UNCHANGED <<people, work, holds>>
  BY DEF StartCleanup, CleanupStep, Crash, ListExpired, NextPending, ReadPause,
     PauseForOverdueDeletion, NextExpired, LockOperator, DeleteAudits, DeleteEvaluations,
     EraseFails, EndCleanup, others, people
<1>2. \A d \in Cleanups \ {c} : pc'[d] = pc[d] /\ job'[d] = job[d]
  BY DEF StartCleanup, CleanupStep, Crash, ListExpired, NextPending, ReadPause,
     PauseForOverdueDeletion, NextExpired, LockOperator, Forget, DeleteAudits,
     DeleteEvaluations, EraseFails, EndCleanup
<1> QED BY <1>1, <1>2

\* An erasure takes its operator from every list of kept ones, and gives the others
\* on the lists a reason to find no row.
LEMMA ListErase ==
  ASSUME TypeInv, ListInv, NEW c \in Cleanups, Erase(c)
  PROVE  ListInv'
<1> USE DEF TypeInv, JobsTyped
<1>1. /\ pc'[c] = "next" /\ job'[c].at = job[c].at
      /\ job'[c].pending = job[c].pending /\ job'[c].expired = job[c].expired
  BY DEF Erase, Forget, Jobs, GoTo
<1>2. \A d \in Cleanups \ {c} :
        /\ pc'[d] = pc[d] /\ job'[d].at = job[d].at /\ job'[d].target = job[d].target
        /\ job'[d].pending = job[d].pending /\ job'[d].expired = job[d].expired
  BY DEF Erase, Forget, Jobs, GoTo
<1>3. \A d \in Cleanups : job'[d].kept = job[d].kept \ {job[c].target}
  BY DEF Erase, Forget, Jobs
<1>4. ASSUME NEW d \in Cleanups, NEW o \in Operators, Reason(d, o) PROVE Reason(d, o)'
  <2>1. job'[d].at = job[d].at
    BY <1>1, <1>2
  <2>2. CASE o = job[c].target
    BY <2>2 DEF Erase, Reason
  <2>3. CASE o # job[c].target
    <3>1. work'[o] = work[o] /\ created' = created
      BY <2>3 DEF Erase, TablesTyped
    <3> QED BY <1>4, <2>1, <2>3, <3>1 DEF Erase, Reason, Pending
  <2> QED BY <2>2, <2>3
<1>5. ASSUME NEW d \in Cleanups PROVE Founded(d)'
  <2>1. /\ \A p \in job[d].pending : p.operator \in Operators
        /\ job[d].expired \subseteq Operators
    BY DEF Jobs, Requests
  <2>2. job'[d].pending = job[d].pending /\ job'[d].expired = job[d].expired
    BY <1>1, <1>2
  <2>3. CASE d = c
    BY <1>1, <1>4, <2>1, <2>2, <2>3 DEF ListInv, Founded, Erasing
  <2>4. CASE d # c
    BY <1>2, <1>4, <2>1, <2>2, <2>4 DEF ListInv, Founded, Erasing
  <2> QED BY <2>3, <2>4
<1>6. ASSUME NEW d \in Cleanups PROVE Respectful(d)'
  <2>1. holds' = holds \ {job[c].target}
    BY DEF Erase
  <2>2. CASE d = c
    BY <1>1, <1>3, <2>1, <2>2 DEF ListInv, Respectful, Erasing
  <2>3. CASE d # c
    BY <1>2, <1>3, <2>1, <2>3 DEF ListInv, Respectful, Erasing
  <2> QED BY <2>2, <2>3
<1> QED BY <1>5, <1>6 DEF ListInv

\* A cleanup makes its lists from what holds then, and looks at the hold of a
\* requester before it erases.
LEMMA ListOwn ==
  ASSUME TypeInv, ListInv,
         NEW c \in Cleanups, ~Erase(c), StartCleanup(c) \/ CleanupStep(c) \/ Crash(c)
  PROVE  Founded(c)' /\ Respectful(c)'
<1>0. UNCHANGED <<people, work, holds>>
  BY OthersAlone
<1> USE DEF TypeInv, JobsTyped, GoTo, At
<1>1. CASE StartCleanup(c)
  <2>1. PICK at \in JobTimes :
          job' = [job EXCEPT ![c] =
                    [NoJob EXCEPT !.at = at, !.kept = holds,
                                  !.pending = {[operator |-> o, work |-> work[o]] :
                                                 o \in {p \in Operators : Pending(p)}}]]
    BY <1>1 DEF StartCleanup
  <2>2. /\ job'[c].pending = {[operator |-> o, work |-> work[o]] :
                                o \in {p \in Operators : Pending(p)}}
        /\ job'[c].kept = holds /\ job'[c].expired = {} /\ pc'[c] = "expired"
    BY <1>1, <2>1 DEF StartCleanup, NoJob
  <2>3. \A p \in job'[c].pending : Pending(p.operator)
    BY <2>2
  <2>4. Founded(c)'
    BY <1>0, <2>2, <2>3 DEF Founded, Erasing, Reason, Pending
  <2>5. Respectful(c)'
    BY <1>0, <2>2 DEF Respectful, Erasing
  <2> QED BY <2>4, <2>5
<1>2. CASE ListExpired(c)
  <2>1. /\ job'[c].expired = Expired(job[c].at) /\ job'[c].at = job[c].at
        /\ job'[c].kept = job[c].kept /\ job'[c].pending = job[c].pending
        /\ pc'[c] = "next"
    BY <1>2 DEF ListExpired, Jobs
  <2>2. ASSUME NEW o \in Expired(job[c].at)
        PROVE  o \in operators /\ created[o] + RetentionPeriod <= job[c].at /\ o \notin holds
    <3>1. o \in Operators /\ created[o] \in Nat /\ job[c].at \in Nat
      BY DEF Expired, TablesTyped, Jobs
    <3> QED BY <3>1, PeriodsAssumption DEF Expired, Held
  <2>3. \A p \in job[c].pending : Reason(c, p.operator)
    BY DEF ListInv, Founded
  <2>4. Founded(c)'
    BY <1>0, <2>1, <2>2, <2>3 DEF Founded, Erasing, Reason, Pending, people
  <2>5. Respectful(c)'
    BY <1>0, <2>1, <2>2 DEF ListInv, Respectful, Erasing
  <2> QED BY <2>4, <2>5
<1>3. CASE NextPending(c)
  <2>1. PICK p \in job[c].pending :
          \/ /\ job' = [job EXCEPT ![c].pending = @ \ {p}]
             /\ pc'[c] \in {"overdue", "next"}
          \/ /\ job' = [job EXCEPT ![c].pending = @ \ {p}, ![c].target = p.operator]
             /\ ~Held(p.operator)
    BY <1>3 DEF NextPending, FirstPending
  <2>2. Reason(c, p.operator)
    BY <2>1 DEF ListInv, Founded
  <2>3. /\ job'[c].pending \subseteq job[c].pending /\ job'[c].expired = job[c].expired
        /\ job'[c].at = job[c].at /\ job'[c].kept = job[c].kept
        /\ pc'[c] \in {"overdue", "next"} \/ (job'[c].target = p.operator /\ ~Held(p.operator))
    BY <2>1 DEF Jobs
  <2>4. ~Held(p.operator) => p.operator \notin job[c].kept
    BY DEF Held, ListInv, Respectful
  <2> QED BY <1>0, <2>2, <2>3, <2>4, ListShrinks
<1>4. CASE ReadPause(c) \/ PauseForOverdueDeletion(c)
  <2>1. job' = job /\ pc'[c] \in {"next", "pause"}
    BY <1>4 DEF ReadPause, PauseForOverdueDeletion, others
  <2> QED BY <1>0, <2>1, ListShrinks
<1>5. CASE NextExpired(c)
  <2>1. PICK o \in job[c].expired :
          job' = [job EXCEPT ![c].expired = @ \ {o}, ![c].target = o]
    BY <1>5 DEF NextExpired, FirstExpired
  <2>2. Reason(c, o) /\ o \notin job[c].kept
    BY DEF ListInv, Founded, Respectful
  <2>3. /\ job'[c].pending = job[c].pending /\ job'[c].expired \subseteq job[c].expired
        /\ job'[c].at = job[c].at /\ job'[c].kept = job[c].kept /\ job'[c].target = o
    BY <2>1 DEF Jobs
  <2> QED BY <1>0, <2>2, <2>3, ListShrinks
<1>6. CASE LockOperator(c) \/ DeleteAudits(c) \/ DeleteEvaluations(c)
  <2>1. Reason(c, job[c].target) /\ job[c].target \notin job[c].kept
    BY <1>6 DEF LockOperator, DeleteAudits, DeleteEvaluations, Erasing, ListInv, Founded,
       Respectful
  <2>2. /\ job'[c].pending = job[c].pending /\ job'[c].expired = job[c].expired
        /\ job'[c].at = job[c].at /\ job'[c].kept = job[c].kept
        /\ pc'[c] = "next" \/ job'[c].target = job[c].target
    BY <1>6 DEF LockOperator, DeleteAudits, DeleteEvaluations, Forget, Jobs
  <2> QED BY <1>0, <2>1, <2>2, ListShrinks
<1>7. CASE EraseFails(c) \/ EndCleanup(c) \/ Crash(c)
  <2>1. job'[c] = NoJob /\ pc'[c] \in {"crashed", "idle"}
    BY <1>7 DEF EraseFails, EndCleanup, Crash
  <2> QED BY <2>1 DEF NoJob, Founded, Respectful, Erasing
<1> QED BY <1>1, <1>2, <1>3, <1>4, <1>5, <1>6, <1>7 DEF CleanupStep

\* So the lists of all cleanups stay well founded and respect the holds.
LEMMA ListCleanups ==
  ASSUME TypeInv, ListInv,
         NEW c \in Cleanups, StartCleanup(c) \/ CleanupStep(c) \/ Crash(c)
  PROVE  ListInv'
<1>1. CASE Erase(c)
  BY <1>1, ListErase
<1>2. CASE ~Erase(c)
  <2>1. Founded(c)' /\ Respectful(c)'
    BY <1>2, ListOwn
  <2>2. /\ UNCHANGED <<people, work, holds>>
        /\ \A d \in Cleanups \ {c} : pc'[d] = pc[d] /\ job'[d] = job[d]
    BY <1>2, OthersAlone
  <2>3. ASSUME NEW d \in Cleanups \ {c} PROVE Founded(d)' /\ Respectful(d)'
    BY <2>2 DEF ListInv, Founded, Respectful, Erasing, Reason, Pending, people
  <2> QED BY <2>1, <2>3 DEF ListInv
<1> QED BY <1>1, <1>2

-----------------------------------------------------------------------------
(* The inductive invariant *)

Inv == TypeInv /\ WholeInv /\ OneReceiptEach /\ ListInv

\* It holds initially.
LEMMA InvInit == Init => Inv
<1> SUFFICES ASSUME Init PROVE Inv
  OBVIOUS
<1>1. LockInv
  BY NoHolderType DEF Init, LockInv, Alone, AuditsKnown, RowsTaken, LocksKeep, NamesKept,
     Erasing, Writing
<1>2. Traces = {}
  BY NoneAssumption DEF Init, Traces, Held, Pending
<1>3. \A e \in Evaluations : audits[e] = None
  BY DEF Init
<1>4. OneReceiptEach
  BY FS_EmptySet DEF Init, OneReceiptEach
<1>5. ListInv
  BY DEF Init, ListInv, Founded, Respectful, NoJob, Erasing
<1> QED
  BY <1>1, <1>2, <1>3, <1>4, <1>5, TypeInit DEF Inv, WholeInv, ErasureIsWhole

\* Every step keeps it.
LEMMA InvStep == Inv /\ [Next]_vars => Inv'
<1> SUFFICES ASSUME Inv, [Next]_vars PROVE Inv'
  OBVIOUS
<1> USE DEF Inv
<1>1. CASE Next
  <2>0. OneReceiptEach' /\ HolderTyped' /\ PauseTyped'
    BY <1>1, ReceiptsStep, HolderSteps, PauseSteps
  <2>1. CASE TransactionStep
    BY <2>0, <2>1, TypeTables, WholeTables, ListTables DEF TypeInv
  <2>2. ASSUME NEW c \in Cleanups, StartCleanup(c) \/ CleanupStep(c) \/ Crash(c) PROVE Inv'
    <3>1. TypeInv'
      BY <2>0, <2>2, TablesInCleanups, JobsInCleanups DEF TypeInv
    <3>2. WholeInv' /\ ListInv'
      BY <2>2, WholeCleanups, ListCleanups
    <3> QED BY <2>0, <3>1, <3>2
  <2> QED BY <1>1, <2>1, <2>2, Kinds
<1>2. CASE UNCHANGED vars
  BY <1>2 DEF vars, TypeInv, HolderTyped, TablesTyped, PauseTyped, JobsTyped, WholeInv,
     LockInv, Alone, AuditsKnown, RowsTaken, LocksKeep, NamesKept, ErasureIsWhole, Traces, Held,
     Pending,
     Erasing, OwnEvaluations, OneReceiptEach, ListInv, Founded, Respectful, Reason
<1> QED BY <1>1, <1>2

\* The invariant of every behaviour.
LEMMA Invariance == Spec => []Inv
  BY InvInit, InvStep, PTL DEF Spec

-----------------------------------------------------------------------------
(* Theorems *)

\* The tables and the jobs are typed, and there are at most as many receipts as
\* operators (migrations 0005, 0008, 0009, 0016).
THEOREM TypeCorrect == Spec => []TypeOK
<1>1. Inv => TypeOK
  <2> SUFFICES ASSUME Inv PROVE TypeOK
    OBVIOUS
  <2>1. Cardinality(erased) <= Cardinality(Operators)
    BY OperatorsAssumption, FS_Subset DEF Inv, TypeInv, TablesTyped
  <2>2. Cardinality(Operators) \in Nat
    BY OperatorsAssumption, FS_CardinalityType
  <2>3. receipts \in 0..Cardinality(Operators)
    BY <2>1, <2>2 DEF Inv, TypeInv, TablesTyped, OneReceiptEach
  <2> QED BY <2>3 DEF Inv, TypeInv, HolderTyped, TablesTyped, PauseTyped, JobsTyped, TypeOK
<1> QED BY <1>1, Invariance, PTL

\* Erasure is whole: at no time does a row mention an operator without an account, or
\* an audit an evaluation that is gone (_erase_operator, data_rights.py:421).
THEOREM ErasureStaysWhole == Spec => []ErasureIsWhole
<1>1. Inv => ErasureIsWhole
  BY DEF Inv, WholeInv
<1> QED BY <1>1, Invariance, PTL

\* Whatever lists name an operator, one erasure and one receipt come of it
\* (data_rights.py:449 and 612).
THEOREM ReceiptsCountErasures == Spec => []OneReceiptEach
<1>1. Inv => OneReceiptEach
  BY DEF Inv
<1> QED BY <1>1, Invariance, PTL

\* No cleanup goes on to erase an operator held since it began (data_rights.py:354
\* and 342).
THEOREM HoldsAreRespected == Spec => []HoldsDefer
<1>1. Inv => HoldsDefer
  BY DEF Inv, ListInv, Respectful, HoldsDefer
<1> QED BY <1>1, Invariance, PTL

\* Whatever an erasure keeps waiting, it goes on or it and one other transaction wait for
\* each other: ending either of two transactions ends every deadlock (_erase_operator,
\* data_rights.py:421; record_founder_audit, evidence_queue.py:1614).
THEOREM DeadlocksArePairs == Spec => []OnlyPairsDeadlock
<1>1. Inv => OnlyPairsDeadlock
  <2> SUFFICES ASSUME Inv, NEW c \in Cleanups, ~Deadlocked(c),
                      \/ ErasureBlocksHolder(c)
                      \/ \E e \in Evaluations : ErasureBlocksReview(c, e)
               PROVE  ErasureGoesOn(c)
    BY DEF OnlyPairsDeadlock
  <2> USE DEF Inv, WholeInv, LockInv, At
  <2>1. Erasing(c) /\ job[c].rows = {e \in Evaluations : evaluations[e] = job[c].target}
    BY DEF ErasureBlocksHolder, ErasureBlocksReview, Erasing, Alone, OwnEvaluations
  <2>2. ASSUME NEW e \in Evaluations PROVE ~ReviewBlocks(e, c)
    BY <2>1 DEF ReviewBlocks, ErasureBlocksReview, Deadlocked, DeadlockWithReview
  <2>3. ~HolderBlocks(c)
    <3>1. CASE ErasureBlocksHolder(c)
      BY <3>1 DEF Deadlocked, DeadlockWithHolder
    <3>2. ASSUME NEW e \in Evaluations, ErasureBlocksReview(c, e) PROVE ~HolderBlocks(c)
      <4>1. e \in reviewing \cap job[c].rows
        BY <2>1, <3>2 DEF ErasureBlocksReview
      <4>2. pc[c] = "dependents"
        BY <2>1, <2>2, <4>1 DEF Erasing, RowsTaken, ReviewBlocks
      <4> QED BY <4>2 DEF HolderBlocks
    <3> QED BY <3>1, <3>2
  <2> QED BY <2>2, <2>3 DEF ErasureGoesOn
<1> QED BY <1>1, Invariance, PTL

\* Nobody is erased without a request or an expired retention, however old the lists
\* are that name the operator (data_rights.py:325 and 337).
THEOREM ErasuresHaveReasons == Spec => ErasedForAReason
<1> DEFINE A == \A o \in operators \ operators' :
                  \/ Pending(o)
                  \/ \E c \in Cleanups : /\ job[c].target = o
                                         /\ Erasing(c)
                                         /\ created[o] + RetentionPeriod <= job[c].at
<1>1. Inv /\ [Next]_vars => [A]_vars
  <2> SUFFICES ASSUME Inv, Next PROVE A
    OBVIOUS
  <2>1. CASE operators \subseteq operators'
    BY <2>1
  <2>2. ASSUME NEW c \in Cleanups, Erase(c) PROVE A
    <3>1. operators \ operators' \subseteq {job[c].target} /\ Erasing(c)
      BY <2>2 DEF Erase, Erasing, At
    <3>2. Reason(c, job[c].target) /\ job[c].target \notin erased
      BY <3>1 DEF Inv, ListInv, Founded, WholeInv, LockInv, Alone, OneReceiptEach
    <3> QED BY <3>1, <3>2 DEF Reason
  <2> QED
    BY <2>1, <2>2, Kinds, LocksOnly, WritesOnly
    DEF TransactionStep, SignIn, RequestDeletion, PlaceIncidentHold, StartCleanup, CleanupStep,
        Crash, ListExpired, NextPending, ReadPause, PauseForOverdueDeletion, NextExpired,
        LockOperator, DeleteAudits, DeleteEvaluations, EraseFails, EndCleanup, others, people
<1> QED BY <1>1, Invariance, PTL DEF Spec, ErasedForAReason

\* HoldPreventsErasure fails, and this is all that fails: an operator is erased by a
\* cleanup that had begun before the operator's hold was placed (data_rights.py:337-359).
HoldsComeLate ==
  [][\A o \in operators \ operators' :
        \E c \in Cleanups : Erasing(c) /\ job[c].target = o /\ o \notin job[c].kept]_vars

\* No operator is erased whose hold was there when the cleanup began (data_rights.py:337
\* and 354).
THEOREM EarlierHoldsPrevent == Spec => HoldsComeLate
<1> DEFINE A == \A o \in operators \ operators' :
                  \E c \in Cleanups : Erasing(c) /\ job[c].target = o /\ o \notin job[c].kept
<1>1. Inv /\ [Next]_vars => [A]_vars
  <2> SUFFICES ASSUME Inv, Next PROVE A
    OBVIOUS
  <2>1. CASE operators \subseteq operators'
    BY <2>1
  <2>2. ASSUME NEW c \in Cleanups, Erase(c) PROVE A
    <3>1. operators \ operators' \subseteq {job[c].target} /\ Erasing(c)
      BY <2>2 DEF Erase, Erasing, At
    <3>2. job[c].target \notin job[c].kept
      BY <3>1 DEF Inv, ListInv, Respectful
    <3> QED BY <3>1, <3>2
  <2> QED
    BY <2>1, <2>2, Kinds, LocksOnly, WritesOnly
    DEF TransactionStep, SignIn, RequestDeletion, PlaceIncidentHold, StartCleanup, CleanupStep,
        Crash, ListExpired, NextPending, ReadPause, PauseForOverdueDeletion, NextExpired,
        LockOperator, DeleteAudits, DeleteEvaluations, EraseFails, EndCleanup, others, people
<1> QED BY <1>1, Invariance, PTL DEF Spec, HoldsComeLate

-----------------------------------------------------------------------------
(* Cleanups move on *)

\* The order of a cleanup's steps for one operator, up to the look at the lists.
Place ==
  [overdue |-> 1, pause |-> 2, lock |-> 3, dependents |-> 4, evaluations |-> 5, pauseRow |-> 6,
   next |-> 7, expired |-> 0, idle |-> 0, crashed |-> 0]

SameLists(c) == job'[c].pending = job[c].pending /\ job'[c].expired = job[c].expired
Struck(c) ==
  /\ pc[c] = "next"
  /\ job'[c].pending \subseteq job[c].pending
  /\ job'[c].expired \subseteq job[c].expired
  /\ ~SameLists(c)

\* After its lists are made, a cleanup that changes its place or its lists strikes an
\* operator off a list, or leaves the lists alone and comes to a later place: it ends by
\* being done, refused or killed, or waits for ever for a row (cleanup,
\* data_rights.py:353-365).
CleanupsMoveOn ==
  [][\A c \in Cleanups :
        Running(c) /\ pc[c] # "expired" /\ Running(c)' =>
          \/ Struck(c)
          \/ SameLists(c) /\ (pc'[c] = pc[c] \/ Place[pc[c]] < Place[pc'[c]])]_vars

\* The steps between two looks at the lists are in order.
LEMMA Places ==
  ASSUME NEW c \in Cleanups,
         \/ pc[c] = "overdue" /\ pc'[c] \in {"pause", "next"}
         \/ pc[c] = "pause" /\ pc'[c] = "next"
         \/ pc[c] = "lock" /\ pc'[c] \in {"dependents", "next"}
         \/ pc[c] = "dependents" /\ pc'[c] = "evaluations"
         \/ pc[c] = "evaluations" /\ pc'[c] = "pauseRow"
         \/ pc[c] = "pauseRow" /\ pc'[c] = "next"
  PROVE  Place[pc[c]] < Place[pc'[c]]
<1>1. /\ Place["overdue"] = 1 /\ Place["pause"] = 2 /\ Place["lock"] = 3
      /\ Place["dependents"] = 4 /\ Place["evaluations"] = 5
      /\ Place["pauseRow"] = 6 /\ Place["next"] = 7
  BY DEF Place
<1>2. CASE pc[c] = "overdue" \/ pc[c] = "pause"
  BY <1>1, <1>2
<1>3. CASE pc[c] = "lock"
  BY <1>1, <1>3
<1>4. CASE pc[c] \in {"dependents", "evaluations", "pauseRow"}
  BY <1>1, <1>4
<1> QED BY <1>2, <1>3, <1>4

\* Every step of a cleanup brings it nearer to its end: the lists of finitely many
\* operators shrink, and between two looks at them the steps go one way
\* (cleanup, data_rights.py:353-365).
THEOREM CleanupsAdvance == Spec => CleanupsMoveOn
<1> DEFINE Moves(c) ==
             \/ Struck(c)
             \/ SameLists(c) /\ (pc'[c] = pc[c] \/ Place[pc[c]] < Place[pc'[c]])
           A == \A c \in Cleanups :
                  Running(c) /\ pc[c] # "expired" /\ Running(c)' =>
                    \/ Struck(c)
                    \/ SameLists(c) /\ (pc'[c] = pc[c] \/ Place[pc[c]] < Place[pc'[c]])
<1>1. Inv /\ [Next]_vars => [A]_vars
  <2> SUFFICES ASSUME Inv, Next, NEW c \in Cleanups,
                      Running(c), pc[c] # "expired", Running(c)'
               PROVE  Moves(c)
    OBVIOUS
  <2> USE DEF Inv, TypeInv, JobsTyped, GoTo, At
  <2>1. CASE TransactionStep
    <3>1. UNCHANGED jobs
      BY <2>1, LocksOnly, WritesOnly DEF TransactionStep, SignIn, RequestDeletion,
         PlaceIncidentHold
    <3> QED BY <3>1 DEF jobs, SameLists
  <2>2. ASSUME NEW d \in Cleanups, d # c, StartCleanup(d) \/ CleanupStep(d) \/ Crash(d)
        PROVE  Moves(c)
    BY <2>2, OtherJobs DEF SameLists
  <2>3. CASE StartCleanup(c) \/ Crash(c) \/ EraseFails(c) \/ EndCleanup(c) \/ ListExpired(c)
    BY <2>3 DEF StartCleanup, Crash, EraseFails, EndCleanup, ListExpired, Running
  <2>4. CASE NextPending(c)
    <3>1. PICK p \in job[c].pending :
            \/ job' = [job EXCEPT ![c].pending = @ \ {p}]
            \/ job' = [job EXCEPT ![c].pending = @ \ {p}, ![c].target = p.operator]
      BY <2>4 DEF NextPending, FirstPending
    <3>2. job'[c].pending = job[c].pending \ {p} /\ job'[c].expired = job[c].expired
      BY <3>1 DEF Jobs
    <3>3. Struck(c)
      BY <2>4, <3>1, <3>2 DEF NextPending, Struck, SameLists
    <3> QED BY <3>3
  <2>5. CASE NextExpired(c)
    <3>1. PICK o \in job[c].expired :
            job' = [job EXCEPT ![c].expired = @ \ {o}, ![c].target = o]
      BY <2>5 DEF NextExpired, FirstExpired
    <3>2. job'[c].pending = job[c].pending /\ job'[c].expired = job[c].expired \ {o}
      BY <3>1 DEF Jobs
    <3>3. Struck(c)
      BY <2>5, <3>1, <3>2 DEF NextExpired, Struck, SameLists
    <3> QED BY <3>3
  <2>6. CASE \/ ReadPause(c) \/ PauseForOverdueDeletion(c) \/ LockOperator(c)
             \/ DeleteAudits(c) \/ DeleteEvaluations(c) \/ Erase(c)
    <3>1. SameLists(c)
      <4> USE DEF SameLists
      <4>1. CASE Erase(c)
        BY <4>1 DEF Erase, Forget, Jobs
      <4>2. CASE LockOperator(c) \/ DeleteAudits(c)
        BY <4>2 DEF LockOperator, DeleteAudits, Forget, Jobs
      <4>3. CASE UNCHANGED job
        BY <4>3
      <4> QED
        BY <2>6, <4>1, <4>2, <4>3 DEF ReadPause, PauseForOverdueDeletion, DeleteEvaluations
    <3>2. \/ pc[c] = "overdue" /\ pc'[c] \in {"pause", "next"}
          \/ pc[c] = "pause" /\ pc'[c] = "next"
          \/ pc[c] = "lock" /\ pc'[c] \in {"dependents", "next"}
          \/ pc[c] = "dependents" /\ pc'[c] = "evaluations"
          \/ pc[c] = "evaluations" /\ pc'[c] = "pauseRow"
          \/ pc[c] = "pauseRow" /\ pc'[c] = "next"
      BY <2>6 DEF ReadPause, PauseForOverdueDeletion, LockOperator, DeleteAudits,
         DeleteEvaluations, Erase
    <3>3. Place[pc[c]] < Place[pc'[c]]
      BY <3>2, Places
    <3> QED BY <3>1, <3>3
  <2> QED BY <2>1, <2>2, <2>3, <2>4, <2>5, <2>6, Kinds DEF CleanupStep
<1> QED BY <1>1, Invariance, PTL DEF Spec, CleanupsMoveOn

-----------------------------------------------------------------------------
(* DataRights implements OperatorLifecycle *)

\* Initially nobody has an account and nobody is mentioned.
LEMMA LifecycleInit == Init => Lifecycle!Init
<1> SUFFICES ASSUME Init PROVE Lifecycle!Init
  OBVIOUS
<1>1. Traces = {}
  BY NoneAssumption DEF Init, Traces, Held, Pending
<1>2. Stage = [o \in Operators |-> "unused"]
  BY DEF Init, Stage
<1> QED BY <1>1, <1>2 DEF Init, Lifecycle!Init

\* A transaction that changes no account and mentions one more operator, who has
\* one, is a step of the lifecycle.
LEMMA RecordImplemented ==
  ASSUME NEW o \in Operators, Inv, o \in operators,
         Stage' = Stage, Traces' = Traces \cup {o}, receipts' = receipts
  PROVE  Lifecycle!Next
<1>1. Stage[o] \in {"open", "leaving"}
  BY DEF Stage, Inv, OneReceiptEach
<1>2. Lifecycle!Record(o)
  BY <1>1 DEF Lifecycle!Record, Lifecycle!Known
<1> QED BY <1>2 DEF Lifecycle!Next

\* A sign-in opens the account, or mentions an operator who has one.
LEMMA SignInImplemented ==
  ASSUME Inv, NEW o \in Operators, NEW at \in ClockTimes, SignIn(o, at)
  PROVE  Lifecycle!Next
<1> USE DEF Inv, TypeInv, TablesTyped
<1>1. Traces' = Traces \cup {o}
  BY DEF SignIn, Traces, Held, Pending, pauseRow
<1>2. CASE o \in operators
  <2>1. Stage' = Stage /\ receipts' = receipts
    BY <1>2 DEF SignIn, Stage, Pending
  <2> QED BY <1>1, <1>2, <2>1, RecordImplemented
<1>3. CASE o \notin operators
  <2>1. ~Pending(o) /\ o \notin erased
    BY <1>3 DEF SignIn, WholeInv, ErasureIsWhole, Traces
  <2>2. Stage[o] = "unused"
    BY <1>3, <2>1 DEF Stage
  <2>3. Stage' = [Stage EXCEPT ![o] = "open"]
    BY <1>3, <2>1 DEF SignIn, Stage, Pending
  <2>4. Lifecycle!Open(o)
    BY <1>1, <2>2, <2>3 DEF SignIn, Lifecycle!Open
  <2> QED BY <2>4 DEF Lifecycle!Next
<1> QED BY <1>2, <1>3

\* The first request is that of the lifecycle; another one only mentions the operator.
LEMMA RequestImplemented ==
  ASSUME Inv, NEW o \in Operators, NEW at \in ClockTimes, RequestDeletion(o, at)
  PROVE  Lifecycle!Next
<1> USE DEF Inv, TypeInv, TablesTyped
<1>1. Request(o, at) # NoWork
  BY PeriodsAssumption, TimesAssumption DEF Request, NoWork, Pending
<1>2. Traces' = Traces \cup {o}
  BY <1>1 DEF RequestDeletion, Traces, Held, Pending, records, pauseRow
<1>3. o \in operators /\ o \notin erased
  BY DEF RequestDeletion, OneReceiptEach
<1>4. CASE Pending(o)
  <2>1. Stage' = Stage /\ receipts' = receipts
    BY <1>4 DEF RequestDeletion, Request, Stage, Pending, people
  <2> QED BY <1>2, <1>3, <2>1, RecordImplemented
<1>5. CASE ~Pending(o)
  <2>1. Stage[o] = "open"
    BY <1>3, <1>5 DEF Stage
  <2>2. Stage' = [Stage EXCEPT ![o] = "leaving"]
    BY <1>1, <1>3 DEF RequestDeletion, Stage, Pending, people
  <2>3. Lifecycle!AskDeletion(o)
    BY <1>2, <2>1, <2>2 DEF RequestDeletion, Lifecycle!AskDeletion
  <2> QED BY <2>3 DEF Lifecycle!Next
<1> QED BY <1>4, <1>5

\* The other transactions mention an operator who has an account, or nobody.
LEMMA WritesImplemented ==
  ASSUME Inv, LockStep \/ WriteStep \/ \E o \in Operators : PlaceIncidentHold(o)
  PROVE  Lifecycle!Next \/ UNCHANGED <<Stage, Traces, receipts>>
<1> USE OperatorsAssumption, NoneAssumption DEF Inv, TypeInv, TablesTyped
<1>0. Stage' = Stage /\ receipts' = receipts
  BY LocksOnly, WritesOnly DEF PlaceIncidentHold, Stage, Pending, people
<1>1. ASSUME NEW o \in Operators, PlaceIncidentHold(o) PROVE Lifecycle!Next
  <2>1. Traces' = Traces \cup {o} /\ o \in operators
    BY <1>1 DEF PlaceIncidentHold, Traces, Held, Pending, records, pauseRow
  <2> QED BY <1>0, <2>1, RecordImplemented
<1>2. CASE LockStep
  BY <1>0, <1>2, LocksOnly DEF Traces, Held, Pending, records, pauseRow
<1>3. CASE WriteStep
  <2>1. /\ UNCHANGED <<credentials, holds, work>>
        /\ holder.by \in operators /\ holder.by \in Operators
    BY <1>3, WritesOnly
  <2>2. Traces' = Traces \cup {holder.by}
    <3>1. CASE RecordSubmission
      <4>1. /\ evaluations' = [evaluations EXCEPT ![holder.evaluation] = holder.by]
            /\ UNCHANGED <<audits, pauseRow>>
            /\ evaluations[holder.evaluation] = None /\ holder.evaluation \in Evaluations
        BY <3>1 DEF RecordSubmission, Write, WholeInv, LockInv, LocksKeep, HolderTyped
      <4> QED BY <2>1, <4>1 DEF Traces, Held, Pending, pauseRow
    <3>2. ASSUME NEW rejected \in BOOLEAN, RecordAudit(rejected)
          PROVE  Traces' = Traces \cup {holder.by}
      <4>1. /\ audits' = [audits EXCEPT ![holder.evaluation] = holder.by]
            /\ UNCHANGED evaluations
            /\ audits[holder.evaluation] = None /\ holder.evaluation \in Evaluations
            /\ UNCHANGED pauseRow \/ Activate(holder.by)
        BY <3>2 DEF RecordAudit, Write, WholeInv, LockInv, LocksKeep, HolderTyped
      <4>2. {named.activated, named.resolved} \subseteq actors \cup {None}
        BY DEF WholeInv, LockInv, NamesKept
      <4> QED BY <2>1, <4>1, <4>2 DEF Traces, Held, Pending, pauseRow, Activate
    <3>3. CASE SwitchPause
      <4>1. /\ UNCHANGED <<evaluations, audits>>
            /\ actors' = actors \cup {holder.by}
            /\ {named'.activated, named'.resolved}
                 \subseteq {named.activated, named.resolved, holder.by, None}
        BY <3>3 DEF SwitchPause, Activate, PauseTyped
      <4>2. {named.activated, named.resolved} \subseteq actors \cup {None}
        BY DEF WholeInv, LockInv, NamesKept
      <4> QED BY <2>1, <4>1, <4>2 DEF Traces, Held, Pending
    <3> QED BY <1>3, <3>1, <3>2, <3>3 DEF WriteStep
  <2> QED BY <1>0, <2>1, <2>2, RecordImplemented
<1> QED BY <1>1, <1>2, <1>3

\* An erasure is one step of the lifecycle; the cleanup's other steps are none.
LEMMA CleanupImplemented ==
  ASSUME Inv, NEW c \in Cleanups, StartCleanup(c) \/ CleanupStep(c) \/ Crash(c)
  PROVE  Lifecycle!Next \/ UNCHANGED <<Stage, Traces, receipts>>
<1> USE DEF Inv, TypeInv, TablesTyped
<1>1. CASE Erase(c)
  <2> DEFINE o == job[c].target
  <2>1. o \in operators /\ o \in Operators /\ o \notin erased
    BY <1>1 DEF Erase, At, Erasing, WholeInv, LockInv, Alone, OneReceiptEach
  <2>2. /\ job[c].rows = OwnEvaluations(o)
        /\ \A e \in Evaluations : audits[e] = o => e \in job[c].audited
    BY <1>1 DEF Erase, At, Erasing, WholeInv, LockInv, Alone, AuditsKnown
  <2>3. Traces' \subseteq Traces \ {o}
    <3>1. ASSUME NEW p \in Traces' PROVE p \in Traces
      BY <1>1, NoneAssumption DEF Erase, Traces, Held, Pending, Cleared
    <3>2. o \notin Traces'
      BY <1>1, <2>1, <2>2, NoneAssumption DEF Erase, Traces, Held, Pending, OwnEvaluations,
         Cleared
    <3> QED BY <3>1, <3>2
  <2>4. Stage[o] \in {"open", "leaving"}
    BY <2>1 DEF Stage
  <2>5. Stage' = [Stage EXCEPT ![o] = "erased"]
    BY <1>1, <2>1 DEF Erase, Stage, Pending
  <2>6. Lifecycle!Erase(o)
    BY <1>1, <2>1, <2>3, <2>4, <2>5 DEF Erase, Lifecycle!Erase, Lifecycle!Known
  <2> QED BY <2>1, <2>6 DEF Lifecycle!Next
<1>2. CASE ~Erase(c)
  <2>1. /\ UNCHANGED <<operators, erased, credentials, evaluations, audits, holds, work, actors,
                       receipts>>
        /\ named' = named \/ named' = [named EXCEPT !.activated = None]
    BY <1>2 DEF StartCleanup, CleanupStep, Crash, ListExpired, NextPending, ReadPause,
       PauseForOverdueDeletion, NextExpired, LockOperator, DeleteAudits, DeleteEvaluations,
       EraseFails, EndCleanup, others, records, people
  <2>2. {named.activated, named.resolved} \subseteq actors \cup {None}
    BY DEF WholeInv, LockInv, NamesKept
  <2> QED BY <2>1, <2>2, NoneAssumption DEF Stage, Traces, Held, Pending, PauseTyped
<1> QED BY <1>1, <1>2

\* Whatever is written about operators while cleanups, split at every statement,
\* erase them, each has one life: nothing is recorded before its account opens or
\* after its erasure, which is whole and leaves one receipt.
THEOREM LifecycleIsImplemented == Spec => ImplementsLifecycle
<1>1. Inv /\ [Next]_vars => [Lifecycle!Next]_(Lifecycle!vars)
  <2> SUFFICES ASSUME Inv, [Next]_vars
               PROVE  Lifecycle!Next \/ UNCHANGED <<Stage, Traces, receipts>>
    BY DEF Lifecycle!vars
  <2>1. CASE UNCHANGED vars
    BY <2>1 DEF vars, Stage, Traces, Held, Pending
  <2>2. CASE Next
    BY <2>2, Kinds, SignInImplemented, RequestImplemented, WritesImplemented, CleanupImplemented
    DEF TransactionStep
  <2> QED BY <2>1, <2>2
<1> QED
  BY <1>1, LifecycleInit, Invariance, PTL DEF Spec, ImplementsLifecycle, Lifecycle!Spec

================================================================================

# Verification of agent-data-oracle

Listings of second-hand goods are compared with the recalls of the US CPSC. An operator (a
person, or an agent with an API key) submits identifiers; the program answers with an
*evidence evaluation*: the recall records that are candidates for the submission, taken from
one revision of the CPSC source, recorded immutably. The first candidate evaluations are held
until the founder has audited them. Everything is one Python process per request handler or
job around one PostgreSQL database, and every interleaving happens in that database.

This directory holds TLA+ modules of that program, TLC runs on small instances and theorems
checked by TLAPS for every instance. `PROJECT.json` lists components, runs, mutants, the
source lines of each definition, findings, hazards and theorems.

## The parts of the system

Paths are below `src/agent_data_oracle/`.

| Part | State | Operations | Hard behaviour | What makes it correct |
|---|---|---|---|---|
| Evidence evaluations, audit gate, safety pause (`evidence_queue.py`) | `evidence_evaluations` with rows, refresh links, releases, audits, gate counter, pause and its events | submit, refresh, list and read, audit, manual pause, resume | many statements per request under READ COMMITTED, locks taken late, retries under an idempotency key, pause and rejection during a submission, refresh chains | one evaluation per key; nothing committed while paused; nothing readable before its audit; chains do not fork; rows of one revision |
| Reviews, acknowledgements, retrieval events (`evidence_queue.py`) | append-only rows per released evaluation | report, retrieve, acknowledge | a chain of acknowledgements whose times are read before the lock; an agent's call in four transactions | one chain per evaluation; records only of the owner's released evaluations; no answer without its event |
| CPSC source refresh (`cpsc_source.py`) | runs and revisions, record versions, current projection, tombstones, refresh state | refresh (daily, weekly), recorded refresh, fixture import, status | session advisory lock over network calls, retries, rejected responses, a promotion that reads before it locks, crashes with a pending run | revisions are whole and immutable; no record lost without a tombstone; late publications caught up; a bad response pauses |
| Matching (`evidence_queue.py`, `frozen_matching.py`) | none | normalise, match | - | deterministic; the frozen matcher agrees |
| Data rights (`data_rights.py`) | requests, holds, receipts | request, hold, cleanup with erasure and retention, export | unlocked lists before per-operator erasure, holds racing it, rows of other transactions in flight, the overdue pause | erased whole and once, for a reason; a hold in force at the start defers; overdue means paused |
| Human access (`auth.py`) | tokens, deliveries, sessions, TOTP factors, recovery codes and attempts | request and redeem a link, declare, sign out, enrol, second factor | limits counted under advisory locks with clock readings taken before them, over a log that is pruned; tokens redeemed twice; two sessions of one founder | limits hold in every window; a link or recovery code works once; the codes shown are the codes stored |
| Agent access (`agent_access.py`) | API keys, request attempts | create, revoke, authenticate | counts and inserts in two statements, a key read before its lock, revocation and erasure during a request | at most three keys and thirty requests in any minute |
| Preview access (`preview_access.py`) | a policy per instance, one in-process admission | admit | instances with different policies | asked at sign-in and again at redemption |
| Database (`database.py`) | connection pool | transaction, session | five connections, no overflow | commit whole or roll back |
| Web, CLI, config, observability | none | routes, jobs | - | translate calls |
| Migrations | constraints and triggers | - | uniqueness under concurrency | used as guards of the actions |
| Infrastructure, images, scripts, `research/` | - | - | - | out of scope |

How they interact: web handlers call the queue, access and data-rights classes; the CPSC jobs
of `cli.py` call `cpsc_source.py`. Components share tables, not calls. The queue reads the
source through two tables, `cpsc_current_source_revision` and `cpsc_current_records`, and both
write the singleton row of the pause; data rights delete the queue's rows and also pause. A
deletion request revokes the sessions of human access and the keys of agent access, the
cleanup prunes the logs both count, and agent calls reach the queue's rows only after agent
access has let them through.

## Modules

| Module | What it is |
|---|---|
| `SubmissionLedger` | abstract: what submitters and founders may rely on - entries appear one at a time, never change, are decided once |
| `EvidenceQueue` | the queue, statement by statement |
| `EvidenceQueueLedger` | the refinement mapping to `SubmissionLedger`, and what the queue sees of `SourceHistory` |
| `MCEvidenceQueue` | source histories and symmetry for TLC |
| `EvidenceQueueProofs`, `EvidenceQueueLedgerProofs` | theorems |
| `SourceHistory` | abstract: what the source promises the queue - a history of whole revisions that only grows, and a pause |
| `CpscSource` | the source jobs, transaction by transaction |
| `MCCpscSource` | instances for TLC |
| `CpscSourceProofs` | theorems |
| `OperatorLifecycle` | abstract: what data rights promise an operator - one life, nothing recorded before or after it, one receipt |
| `DataRights` | requests, holds, and the cleanup job statement by statement, among the transactions that write about operators |
| `MCDataRights` | the instance for TLC |
| `DataRightsProofs` | theorems |
| `RateLimits` | abstract: what every limit of the service promises, without rows, locks, lagging clocks or pruning |
| `RateLimitsProofs` | that the promise means a bound in every window |
| `HumanAccess` | sign-in links, sessions and second factors, among the pruning of the log and deletion requests; implements `RateLimits` |
| `MCHumanAccess`, `HumanAccessProofs` | the instance for TLC; theorems |
| `AgentAccess` | keys and the authentication of calls; implements `RateLimits` |
| `EvidenceReviews` | extends `AgentAccess` by what agents and humans record about an evaluation: the composition of keys, calls, records, releases and erasure |
| `MCEvidenceReviews`, `AgentAccessProofs`, `EvidenceReviewsProofs` | the instance for TLC; lemmas on the steps of `AgentAccess` and theorems of the composition |

### EvidenceQueue

A process of `Procs` is one handler. `pc` names the statement it runs next and `req` its local
variables. A statement under READ COMMITTED sees what is committed when it runs, so each read
that is used later is a step of its own; what a transaction writes after its last lock is one
step (`Commit`), because nobody sees it before. The advisory lock on the idempotency key and
the pause row's lock are held from their statement to the end (`HoldsKey`, `HoldsPause`).

- `Submit`, `ClaimKey`, `LockPause`, `CheckFreshness`, `ReadRevision`, `ReadRecords`, `Commit`
  are `submit_evaluation` and `_submit_evaluation`. `ClaimKey` contains the replay and the
  conflict answer. `Commit` writes gate counter, evaluation, rows and refresh link, or meets a
  UNIQUE constraint and answers with an error.
- `Refresh`, `ReadPredecessor`, `ReadCurrentRevision`, `ReadCurrentObservation`,
  `ReadSuccessor` are `refresh_evaluation`; the recursion into a successor starts over at
  `ReadPredecessor`, and a new evaluation continues with `ClaimKey`.
- `Abort` is any failure of a handler before its answer, `Return` the answer leaving it.
- `Approve`, `Reject`, `ManualPause`, `ResolvePause` are founder transactions. Each locks the
  pause row with its first statement, so each is one step that waits for that row.
- `Promote` and `SourceIntegrityPause` are what the source does to the queue's tables. A
  promoted revision may carry any earlier observation time: `--observed-at` is an argument.
- `Candidates` is matching: the records of a revision that fit a submitted content. Contents,
  keys and records are model values; a record's text is its wording (`Delta` tells a reworded
  recall from an added or a removed one).

### CpscSource

A process of `Jobs` is one command. `StartLive` is `job cpsc-refresh`, which waits for the
session lock (`Lock`) and then reads, retrieves, and promotes or fails; `StartRecorded` is a
refresh with `--fixture` or `cpsc-import-fixture`, which take no lock. `StartRevision`,
`Reject`, `Promote`, `FinishFailed` and `RecordTransportFailure` are the transactions.
`_promote_revision` reads the projection first (`ReadCurrentRecords`) and takes its first row
lock only when it writes, so it is two steps. `Crash` ends a job anywhere and frees its lock;
what it committed stays.

The CPSC service is the environment: `feed` is what it would answer, `published` the date of
each record, which may lie up to `PublicationLag` before the day the record shows. `seen` in a
job's locals is a history variable, the feed as retrieved; no action reads it. Parsing and
hashing are abstracted to a response that is valid or refused.

### DataRights

A process of `Cleanups` is one `job data-cleanup`. `StartCleanup` and `ListExpired` read its two
lists, without locks; `NextPending` looks at the hold of the next requester and goes on to
`ReadPause` and `PauseForOverdueDeletion` (`_pause_for_overdue_deletion`, an unlocked reading
and a later writing) or to the erasure; `NextExpired` goes to the erasure directly.
`_erase_operator` is `LockOperator`, `DeleteAudits`, `DeleteEvaluations` or `EraseFails`, and
`Erase`: its `SELECT ... FOR UPDATE` on the operators row, the deletion of the audits that are
committed then, the deletion of the evaluations with its wait for their rows, and the rest,
with its wait for the pause row if that names the operator. A job that dies or fails (`Crash`,
`EraseFails`) loses its locals and rolls the open transaction back; it may be started again.

The other transactions are there for what they write about operators, and for the row locks
they hold meanwhile. A submission, a manual pause or its end, and a founder's audit lock the
pause row with their first statement (`holder`, at most one of them); the audit then asks for
the evaluation's row (`LockAudited`). A report or an acknowledgement locks the row of its
evaluation (`reviewing`). Each ends with a row whose foreign key refers to `operators`, which
waits for an erasure of that operator and fails after it (`WriteFails`). `SignIn`,
`RequestDeletion` and `PlaceIncidentHold` lock nothing an erasure waits for in this model and
are one step each (`RowFree`). `HolderBlocks`, `ReviewBlocks`, `ErasureBlocksHolder`,
`ErasureBlocksReview` and `ReviewBlocksHolder` say who waits for whom; `Deadlocked` is the pair
PostgreSQL would find, and `BreakDeadlock` ends one of the two.

In the code the erasure also deletes login tokens, sessions and the deletion request, so a
redemption of a link, or a repeated request of the same operator, can be the other half of a
deadlock. They hold one such row and wait for the operator, exactly as a report does with its
evaluation, and are left out.

`Traces` collects the operators that any of these rows mentions; rows that only accompany an
evaluation, a session or a key (inputs, releases, attempts, factors) go with them. Of sessions
and keys the module keeps which operators have any, revoked or not (`credentials`). `erased` and
`kept` are history variables. The program never sets `released_at` of a hold, so every hold row
is active until its operator is erased. An email that signs in again after an erasure gets a
new operator id; ids are what the module counts.

### HumanAccess

The methods of `auth.py` read their clock first and open a transaction afterwards. What a
statement uses as the present time is therefore a *reading* up to `Lag` old, which also stands
for two instances whose clocks differ; each use chooses its own reading.

- `CountDeliveries` and `CommitSignIn` are `request_sign_in`: three advisory locks and three
  counts, then everything that is invisible before the commit (attempts, and with the
  policy's and the limits' consent the delivery admission and the token). Since every request
  takes the service's lock first, one lock stands for the three. Delivery by mail is outside:
  a link may arrive once it is committed, however often it was sent (`MayArrive`).
- `Redeem` is `consume_sign_in_token`, one UPDATE that takes the token and the account and
  session that follow it; an identity that the policy refuses has used its token.
- `Declare`, `SignOut`, `RequestDeletion` are what happens to accounts and sessions; the
  CHECK that no row is revoked before it was created may refuse the last two.
- `BeginEnrollment` and `CommitEnrollment` are `confirm_totp_enrollment`, with the unlocked
  look for a factor and the primary key that decides. `BeginVerification`, `CountAttempts`
  and `CommitVerification` are `verify_founder_second_factor`: the session is read, then the
  attempts of the session are counted under its lock and the credential judged, then the
  attempt is committed. The recovery codes are the operator's, not the session's, so the
  UPDATE that takes a code may find it gone (`StillUnused`).
- `Prune` is the cleanup's deletion of old attempts, by its own reading; `AbortSignIn` and
  `AbortCall` any failure before a commit.

`admitted` is a history variable: which links and judged credentials were admitted for a
subject, and the time each counts for. Only the refinement reads it. `RetentionAssumption`
is a condition of the code: log rows are kept (ninety days) for the longest window and a lag.

### AgentAccess and EvidenceReviews

`CountKeys` and `CommitKey` are `create_key`, `RevokeKey` is `revoke_key`; `ReadKey`,
`CountRequests` and `CommitRequest` the three parts of `authenticate`: the unlocked reading of
the key, the count under the key's advisory lock, and the commit, at which an erased key is
refused by its foreign key and a revoked one is not. `EraseAccess` is what an erasure does to
keys and attempts, `RequestDeletion` what a request does.

`EvidenceReviews` continues where `authenticate` returns. An agent's call goes from
`authorised` to `ReportAgentReview`, or through `ReadContract`, `RecordRetrieval` and `Answer`,
each a transaction of its own, or ends in `Fail`. A human's `OpenEvidence` is one transaction;
`ReadPrior` and `Acknowledge` are `record_human_acknowledgement`, in between with the advisory
lock and the evaluation's row lock (`RowFree`), for which reports, retrievals and the erasure
wait. `Release` and `Erase` are the queue's and the cleanup's steps, seen at their commits;
their insides are `EvidenceQueue` and `DataRights`. Outcomes and notes of reviews are left out.

## Runs

Every run names in its cfg the properties it checks; every property of a passing run has a
mutant of the code that breaks it under the same cfg.

| Run | Instance | Shows |
|---|---|---|
| `queue_gate` | two handlers, two operators, one key, limit 1, two revisions | the audit gate, final rejection, pause, ownership, the ledger refinement |
| `queue_refresh` | two handlers, one operator, two contents, three revisions | idempotency keys, rows, refresh chains, deltas, what a promotion may lose, which requests a UNIQUE constraint refuses, that handlers go forward |
| `queue_live` | clock, stale revisions, fair scheduling | the 48-hour rule and that each request is answered |
| `source_jobs` | two jobs of any kind, two runs, one change of the feed | tombstones, pause on rejection, the history refinement, that jobs end |
| `source_live` | two live jobs, three runs, two changes | nothing lost under the lock, late publications caught up |
| `rights_cleanup` | a founder and a seller, one evaluation, one job run again and again, before and at the deadline | whole erasure, one receipt, holds, reasons, deadlocks of two only, the lifecycle refinement, the overdue pause, that cleanups end |
| `access_human` | one founder, one network, two links, two sessions, three second-factor calls, one recovery code | the limits refinement, that links and codes work once, that second factors are earned |
| `api_reviews` | two operators, one evaluation, two keys, two agent calls, two acknowledgements | key and rate limits, the chain of acknowledgements, that records are rightful |
| `queue_lost_candidates`, `queue_chain`, `source_tombstone`, `rights_hold` | smallest that shows it | four sentences of the repository that the code does not keep (below) |

**Bounds.** Two processes interleave in every way two statements can; a third would repeat the
roles, since every lock is exclusive and every hazard listed is between two actors. Two keys or
contents and two operators are what the ownership and key properties tell apart; three revisions
are the least with a chain of two refreshes. An audit limit of 1 puts the boundary inside the
run (the code's 20 is `AuditQueueLimit`, and the theorem holds for every value). Two runs of the
source are what a tombstone and an overlapping promotion need, three what a failure between two
live refreshes needs. Time is counted in units of the two windows: grace 1 and overlap 1 with a
clock that passes both. In `rights_cleanup` retention and response target are 1, so that a job
at time 1 meets both exactly and one at time 0 neither. Two cleanups at once with two operators
are too many states for a quick run (millions, against 192,000 with one); TLC takes one job,
which may stop anywhere and start again, and what holds among any number of them at once is
proved. In `access_human` and `api_reviews` every limit and every window is 1, `Lag` is 1 and
`Retention` 2, the least that `RetentionAssumption` admits; so each limit is reached by the
first event and raced for by the second, readings differ by a whole window, and pruning removes
rows as soon as it may. Three second-factor calls are one enrolment and two verifications with
the same code. A token lives 2, so that its last moment and its end lie within the clock of 0 to
2. `MaxTime`, `MaxClock`, `MaxRuns`, `MaxChanges`, `MaxRevisions` and `MaxPauseEvents` only end
the exploration. `source_jobs`, `source_live`, `access_human` and `api_reviews` say
`CHECK_DEADLOCK FALSE`: the source may rest when nobody starts another job, and each link, call
and acknowledgement of an instance happens once. All two-process bounds of the access modules
are lifted by the proofs.

**Fairness.** `FairSpec` of the queue and of the source is strong fairness of each process's
own statements. A coroutine or job that was started keeps being scheduled, and PostgreSQL
queues the waiters of row and advisory locks, so a lock that is freed again and again is
granted in the end; weak fairness would deny that queue. The cleanup's
statements are treated alike, and so are those of the transaction that has the pause row; a
report or an acknowledgement waits only for an erasure and goes on when it need not (weakly
fair), and PostgreSQL breaks a deadlock once it exists. That a job is ever started is not
assumed, nor anything about new requests, founders, promotions, time, crashes or the CPSC
service.

## Findings

1. *Lost candidates* (`queue_lost_candidates`). The revision id and the records of a
   submission are read by two statements. A promotion between them leaves the join empty, and
   an evaluation that states that no candidate was found is released, although its own
   revision has one. `RowsOfOneRevision` bounds the damage: rows never mix revisions.
2. *Unreadable chains* (`queue_chain`). After two refreshes in a row the middle evaluation has
   two refresh rows and its contract can no longer be read.
3. *Missing tombstone* (`source_tombstone`). A recorded weekly refresh takes no lock and can
   commit inside a live one. `LiveRefreshesLoseNothing` says what the lock does guarantee.
4. *Held, and erased* (`rights_hold`). A cleanup looks at a requester's hold in a transaction of
   its own before the erasure, and at the holds of the expired operators only when it lists
   them. A hold placed after that is deleted with its operator. `HoldsDefer` says what does
   hold: a hold in force since the job began defers it.

Each finding has a theorem that says how far it goes, for every instance:
`OnlyPromotionsLose` (a submission that no promotion overtakes misses nothing),
`MiddlesAreUnreadable` (exactly the evaluations in the middle of a chain are concerned),
`LossesAreOvertaken` (a record is lost to an import or to an overtaken promotion, never
otherwise) and `EarlierHoldsPrevent` (the hold came after the job had begun).

Also seen while modelling, and kept in the models without a run of their own: a refresh whose
recursion reaches a held successor answers "not found" about a readable evaluation; the
48-hour rule is checked on one reading of the source while another revision, with an older
observation, is used (`FreshnessWasChecked` says what does hold); a key revoked between its
reading and its count still authorises that one call; a key being created while its operator
requests deletion stays active until the erasure.

## Proofs

`tlapm` checks every theorem to the last leaf.

*EvidenceQueueProofs.* `TypeInv` adds to `TypeOK` what a handler's locals satisfy before each
statement (`LocalsOK`). `KeysClaimedOnce` rests on an invariant that a handler past `ClaimKey`
holds its key's lock, and no two handlers hold the same. `PauseIsRespected` rests on the pause
row: from `LockPause` to the commit the row is held and not paused, and every transaction that
pauses waits for it. `GateIsKept` needs that the counter equals the counted evaluations and that
only held evaluations are audited and released; `RejectionIsFinal` that an evaluation has one
decision. `FreshInv` follows a submission's locals: the revision it reads is one whose
predecessors or itself passed the freshness rule, and the rows it computes are of that revision;
tables only grow (`Grows`), so what a handler read stays true while others promote and commit.
It gives `RowsAreOfOneRevision` and `FreshnessIsChecked`. `ChainInv` follows a refresh: it stays
with the inputs it was asked about and moves to later revisions only, and it submits under a key
that names a revision; an evaluation under such a key is of that revision or a later one
(`KeptUp`). Without this last part `RefreshesFormChains` is not inductive, for a refresh may be
answered with the evaluation another refresh committed under the same key. `AnswersFitTheCaller`
follows from the same invariant, and so does `MiddlesAreUnreadable`, with the cardinality of a
set of two links. `OnlyPromotionsLose` needs that a submission's revision is the current one or
an older one, and that its rows are complete as long as it is current (`CompleteInv`).
`OnlyLostRefreshesFail` traces an error back to `Commit`, where `KeyInv` leaves the constraint
on keys nothing to refuse and `ChainInv` says what a refresh asked about. `HandlersAdvance`
needs that the successor a refresh restarts from is of a later revision (`ChainInv`), so that
the recursion has a measure. `LedgerIsImplemented` maps each commit to an entry, each audit to a
decision, everything else to a stutter. `SourceIsOnlyRead` shows that the queue sees a
`SourceHistory`, which `HistoryIsImplemented` shows the source to be: the two components meet in
one abstract specification, and the queue writes nothing of it but the pause.

*CpscSourceProofs.* Each step of a job is sorted into one of three shapes: `Quiet` (locals
only), `Adds` (a run is appended) and `Finishes` (the job's own run gets its final row).
`RunInv` says that a job between its first and its last transaction owns its run, which is
pending, and that promoted runs are completed; hence no step touches a row that is not pending
(`OutcomesStay`), and `HistoryIsImplemented` and `TombstonesStayTrue` follow, the latter with
`TombInv`: what a job read is the content of a completed revision. `RejectedMeansPaused` needs
only that a run keeps the mode of the job that owns it. `LockInv` gives
`LiveRefreshesKeepRecords`: a run without the lock is one without retrieval attempts, so while
only live runs exist, what the lock's holder read is still current when it writes. It would not
be inductive without the clause on attempts, since a recorded promotion invalidates the reading.
It gives `TurnsAreTaken` as well. Without the lock, `TombInv` alone still gives
`LossesAreOvertaken`: a promotion whose reading is of the current run drops nothing unburied.
`JobsAdvance` orders a job's steps and counts its retries. `CatchInv` gives
`RefreshesHaveCaughtUp`: as long as only live refreshes have run, the projection misses nothing
the API had published before the overlap ahead of its observation time, whatever failed or
crashed in between, and whoever holds the lock and has its answer would leave everything it saw.
What the API shows late is within the overlap of the time every run observes, which is where
`LagAssumption` is needed.

*DataRightsProofs.* The invariant has four parts. `TypeInv`. `WholeInv`: `ErasureIsWhole`, and
what makes it inductive, `LockInv`: while an operator is being erased its account is there, the
job's `rows` are exactly the operator's evaluations and no other job erases the same operator
(`Alone`); after `DeleteAudits` every audit by the operator is among the deleted ones
(`AuditsKnown`); after `DeleteEvaluations` nobody else has the rows of its evaluations
(`RowsTaken`); what a transaction read under a lock stays true (`LocksKeep`); and whoever the
pause row names is named in an event (`NamesKept`). `OneReceiptEach`. `ListInv`: whoever is on a
job's lists has a reason to be erased or has been erased (`Founded`), and an operator held since
the job began is on no list but that of the requests (`Respectful`); it gives
`HoldsAreRespected`, `ErasuresHaveReasons` and `EarlierHoldsPrevent`. `DeadlocksArePairs`
follows from `WholeInv`: an erasure that has got to the pause row keeps no report or
acknowledgement waiting (`RowsTaken`), and one that waits for an evaluation waits for a
transaction of the operator it has locked (`Alone`), so the two are a pair and no longer cycle
forms. `CleanupsAdvance` orders the steps between two looks at the lists; each look strikes an
operator off a finite list. `LifecycleIsImplemented` maps a sign-in to the opening of an account
or a record, the first request to the asking, each erasure to one, other writes to records. The
step lemmas `LocksOnly`, `WritesOnly` and `HolderSteps` sort the transactions by what they
change, so that each part of the invariant is shown once per kind of step.

*RateLimitsProofs.* `Admit` asks for fewer than the limit of admissions *later than one window
before* its time, including those later than the time itself. That makes `LimitsBounded` true
for events that commit in any order: of the admissions in a window, the one committed last
counted all the others.

*HumanAccessProofs.* Three parts. `TypeOK`. `LimitsInv`: one request at a time has counted
links and one call per session has counted attempts (the locks); whoever has counted was
within the limits of everything admitted since (`LinkCounts`, `FactorCounts`); every admission
that a count may still ask for is in the log (`LogIsKept`, where `RetentionAssumption` is
needed); and no event is admitted twice. The refinement `AccessWithinLimits` follows, since a
commit adds one admission and the count it relied on, made over rows of the pruned log, is
mapped one to one to the admissions it stands for. `FactorsInv`: a session's link is consumed,
a code that verified is not among the unused ones, whoever enrolled finds its factor;
`CredentialsWorkOnce` and `SecondFactorsAreEarned` are inductive only with these. The lemmas
`CallsMove` and `CallEndsWell` state the two ways a second-factor call goes on, for all steps.
`SubjectsAreLimited` puts the refinement and `LimitsBounded` together (the theorem module of
`RateLimits` is instantiated with the mapping): the bound on every window holds of the program
itself.

*AgentAccessProofs and EvidenceReviewsProofs.* `AccessStep` is what a step of the composition
may do to keys and calls, so that the lemmas about `AgentAccess` are proved once and hold for
all steps of `EvidenceReviews`. `KeysInv`: one creation per operator has counted, and while it
has found room there is room. `CallsInv` is `LimitsInv` for keys. `AcksInv`: one
acknowledgement per evaluation holds the lock, and what it read is the last of the history;
`CurrentIsLast` proves that the query for an acknowledgement nothing supersedes finds exactly
that one, for histories of any length. `KeysAreLimited` is the end-to-end bound on calls, as
`SubjectsAreLimited` is on links and attempts. `RecordsInv` ties each record to a call that was let
through, with the scope and the operator its key still has.

Assumptions, all in the modules that use the constants: limits and windows are natural
numbers, the publication lag is within the overlap, recorded responses are sets of records, no
process and no operator is called "none", there are finitely many operators, founders are
operators, times are natural numbers, names of different kinds differ, an asked-for set of scopes
is not empty, every evaluation has an owner, and logs are kept for the longest window and a lag
(`RetentionAssumption`). TLC evaluates them in every run.

**Only model-checked:** `RequestsAreAnswered`, `JobsEnd`, `OverdueIsAnswered` and `CleanupsEnd`
(liveness under fairness is beyond the prover), and the findings. What is proved towards the
four are their safety halves: no process goes round in circles (`HandlersAdvance`, `JobsAdvance`,
`CleanupsAdvance`), no lock outlives its job (`TurnsAreTaken`), and no cycle of locks is longer
than the two that PostgreSQL breaks (`DeadlocksArePairs`). Every invariant and every other
action property of the passing runs is a theorem.

## Not modelled, and the plan

In this order:

1. `Pause`: a composition of the three writers of the pause row (queue, source, data rights),
   for which trigger the row names and who may overwrite it.
2. `Matching`: normalisation and matching as operators against a reference definition over
   bounded inputs, and the frozen matcher; lemmas on determinism. Until then `Candidates` of
   `EvidenceQueue` is any function of a content and a revision's records.
3. The rest of data rights: the expiry of refresh links and the export. Neither changes what
   the properties tell apart.

Not planned. *Preview access*: the policy is modelled, the single-use admission of the local
manual preview lives in one process's memory. *Web*: forms, pages and the in-browser journeys
keep no state; the order in which a handler calls the components is in their actions.
*TOTP codes*: the program does not make them single-use within their validity, so no property
says so; recovery codes are. Consumed login tokens are never deleted before an erasure. The
connection pool (SQLAlchemy's), configuration and logging, parsing and hashing of CPSC records
(data, not control), infrastructure and scripts are out of scope.

## Checking it

    tlc -workers 2 -config EvidenceQueue_gate.cfg MCEvidenceQueue
    tlc -workers 2 -config CpscSource_live.cfg MCCpscSource
    tlapm EvidenceQueueProofs.tla
    tlapm CpscSourceProofs.tla
    tlc -workers 2 -config DataRights_cleanup.cfg MCDataRights
    tlapm DataRightsProofs.tla
    tlc -workers 2 -config HumanAccess_access.cfg MCHumanAccess
    tlapm HumanAccessProofs.tla
    tlc -workers 2 -config EvidenceReviews_calls.cfg MCEvidenceReviews
    tlapm EvidenceReviewsProofs.tla

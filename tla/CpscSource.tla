------------------------------ MODULE CpscSource -------------------------------
(***************************************************************************)
(* The CPSC source (src/agent_data_oracle/cpsc_source.py, started by the   *)
(* cpsc jobs of cli.py): ingestion runs, the source revisions they make,   *)
(* the current projection, tombstones and the source integrity pause.      *)
(*                                                                         *)
(* A job is a process.  Each transaction is one step, except promotion:    *)
(* it reads the current records first and locks only when it writes, so    *)
(* another job's promotion can commit between the two.                     *)
(***************************************************************************)
EXTENDS Integers, Sequences, FiniteSets

CONSTANTS
  Jobs,               \* concurrent CLI jobs
  Recalls, Versions,  \* recall identifiers and the contents a record may have
  RecordedModes,      \* modes run on a recorded response, which take no lock
  RecordedResponses,  \* the recorded responses, functions from recalls to versions
  GraceWindow,        \* timedelta(hours=48)
  Overlap,            \* timedelta(days=7)
  PublicationLag,     \* how long after its LastPublishDate the API may first show a record
  MaxAttempts,        \* MAX_RETRIEVAL_ATTEMPTS
  MaxTime, MaxRuns, MaxChanges   \* bounds of the environment

Modes == {"daily", "full", "fixture"}

\* A set of source records: at most one version of each recall.
RecordSets == UNION {[R -> Versions] : R \in SUBSET Recalls}

ASSUME RecordedAssumption == /\ RecordedModes \subseteq Modes
                             /\ RecordedResponses \subseteq RecordSets
ASSUME LagAssumption == /\ GraceWindow \in Nat
                        /\ Overlap \in Nat
                        /\ PublicationLag \in 0..Overlap
ASSUME AttemptsAssumption == MaxAttempts \in Nat \ {0}

VARIABLES
  now,          \* the clock
  feed,         \* what the CPSC API would answer: recall |-> version
  published,    \* the LastPublishDate of each recall
  changes,      \* how often the feed changed
  runs,         \* cpsc_ingestion_runs with their revision, in run_sequence order
  promoted,     \* the runs cpsc_current_source_revision named, the current one last
  tombstones,   \* cpsc_source_tombstones
  isPaused,     \* global_pause_state.is_paused
  refreshState, \* cpsc_source_refresh_state
  lock,         \* the job holding pg_advisory_lock('cpsc-refresh')
  pc, job       \* each job's next step and its local variables

world == <<now, feed, published, changes>>
tables == <<runs, promoted, tombstones>>
flags == <<isPaused, refreshState>>
vars == <<now, feed, published, changes, runs, promoted, tombstones, isPaused, refreshState,
          lock, pc, job>>

None == "none"
ASSUME JobsAssumption == None \notin Jobs

NoTime == -1
NoRecords == [r \in {} |-> None]

\* The locals of a job that was not started.
NoJob == [mode |-> None, observed |-> 0, last |-> NoTime, attempts |-> 0,
          valid |-> TRUE, response |-> NoRecords, seen |-> NoRecords, run |-> 0,
          base |-> NoRecords, baseRun |-> 0]

-----------------------------------------------------------------------------
(* What the queries compute *)

Current == IF promoted = <<>> THEN 0 ELSE promoted[Len(promoted)]
CurrentRecords == IF Current = 0 THEN NoRecords ELSE runs[Current].records
LastCompletedObservedAt == IF Current = 0 THEN NoTime ELSE runs[Current].observed

\* The records of new, and those of old that new does not have.
Overlay(new, old) ==
  [r \in DOMAIN new \cup DOMAIN old |-> IF r \in DOMAIN new THEN new[r] ELSE old[r]]

\* The API's answer: all records, or those published since a date.
PublishedSince(date) == [r \in {x \in DOMAIN feed : published[x] >= date} |-> feed[r]]
WithoutOverlap(mode, last) ==   \* mutant of Answer
  IF mode = "daily" THEN PublishedSince(last) ELSE feed
Answer(mode, last) ==
  IF mode = "daily" THEN PublishedSince(last - Overlap) ELSE feed

\* The records of the new revision.  A daily response is laid over what it omits.
NewRecords(j) ==
  IF job[j].mode = "daily" THEN Overlay(job[j].response, job[j].base)
  ELSE job[j].response

\* cpsc_ingestion_runs once the revision is complete.
InPlace(j) ==   \* mutant of Completed: the records go to the current revision
  [runs EXCEPT ![job[j].run].state = "completed",
               ![IF Current = 0 THEN job[j].run ELSE Current].records = NewRecords(j)]
Completed(j) ==
  [runs EXCEPT ![job[j].run].state = "completed",
               ![job[j].run].records = NewRecords(j)]

\* A complete reconciliation buries what it no longer finds.
BuryAll(j) ==   \* mutant of NewTombstones
  IF job[j].mode # "full" THEN {}
  ELSE {[run |-> job[j].run, recall |-> r, lastSeen |-> job[j].baseRun] :
          r \in DOMAIN job[j].base}
NewTombstones(j) ==
  IF job[j].mode # "full" THEN {}
  ELSE {[run |-> job[j].run, recall |-> r, lastSeen |-> job[j].baseRun] :
          r \in DOMAIN job[j].base \ DOMAIN job[j].response}

-----------------------------------------------------------------------------
(* Moves of one job *)

Continue(j, label) == pc' = [pc EXCEPT ![j] = label]

LockLeaks(j) == lock   \* mutant of Unlocked
Unlocked(j) == IF lock = j THEN None ELSE lock

\* The job ends, normally or not: its session closes and its advisory lock with it.
End(j) ==
  /\ Continue(j, "idle")
  /\ job' = [job EXCEPT ![j] = NoJob]
  /\ lock' = Unlocked(j)

InFlight == {j \in Jobs : pc[j] # "idle" /\ job[j].run = 0}
MayStart(j) == pc[j] = "idle" /\ Len(runs) + Cardinality(InFlight) < MaxRuns

\* job cpsc-refresh: the observation time is a command argument, read before the lock.
StartLive(j) ==
  /\ MayStart(j)
  /\ \E mode \in {"daily", "full"}, observed \in 0..now :
       job' = [job EXCEPT ![j] = [NoJob EXCEPT !.mode = mode, !.observed = observed]]
  /\ Continue(j, "lock")
  /\ UNCHANGED <<world, tables, flags, lock>>

\* job cpsc-refresh --fixture and cpsc-import-fixture: no lock, a recorded response.
StartRecorded(j) ==
  /\ MayStart(j)
  /\ \E mode \in RecordedModes, observed \in 0..now, response \in RecordedResponses,
        valid \in BOOLEAN :
       job' = [job EXCEPT ![j] = [NoJob EXCEPT !.mode = mode, !.observed = observed,
                 !.response = response, !.valid = valid]]
  /\ Continue(j, "start")
  /\ UNCHANGED <<world, tables, flags, lock>>

LockIgnored == TRUE   \* mutant of LockFree
LockFree == lock = None

\* _source_refresh_lock: held until the whole refresh has ended.
Lock(j) ==
  /\ pc[j] = "lock"
  /\ LockFree
  /\ lock' = j
  /\ Continue(j, "last")
  /\ UNCHANGED <<world, tables, flags, job>>

\* A daily refresh needs a completed revision of at most 48 hours before.
Refused(mode, observed, last) ==
  mode = "daily" /\ (last = NoTime \/ observed - last > GraceWindow)

ReadLastCompleted(j) ==
  /\ pc[j] = "last"
  /\ job' = [job EXCEPT ![j].last = LastCompletedObservedAt]
  /\ Continue(j, IF Refused(job[j].mode, job[j].observed, LastCompletedObservedAt)
                 THEN "transport" ELSE "fetch")
  /\ UNCHANGED <<world, tables, flags, lock>>

\* One attempt of retrieve_cpsc_response.
Receive(j) ==
  /\ pc[j] = "fetch"
  /\ \E valid \in BOOLEAN :
       job' = [job EXCEPT ![j].response = Answer(job[j].mode, job[j].last),
                          ![j].valid = valid, ![j].seen = feed]
  /\ Continue(j, "start")
  /\ UNCHANGED <<world, tables, flags, lock>>

OneRetryMore(j) == job[j].attempts < MaxAttempts   \* mutant of MayRetry
MayRetry(j) == job[j].attempts < MaxAttempts - 1

FetchFails(j) ==
  /\ pc[j] = "fetch"
  /\ \/ /\ MayRetry(j)   \* transient
        /\ job' = [job EXCEPT ![j].attempts = @ + 1]
        /\ UNCHANGED pc
     \/ Continue(j, "transport") /\ UNCHANGED job   \* permanent, or the last attempt
  /\ UNCHANGED <<world, tables, flags, lock>>

\* attempts is retrieval_attempts, which tells live refreshes from recorded ones.
Run(j, state, attempts) ==
  [mode |-> job[j].mode, observed |-> job[j].observed, state |-> state,
   attempts |-> attempts, records |-> NoRecords]

\* _record_transport_failure: a failed run, in one transaction.
RecordTransportFailure(j) ==
  /\ pc[j] = "transport"
  /\ runs' = Append(runs, Run(j, "failed", MaxAttempts))
  /\ refreshState' = [refreshState EXCEPT !.lastFailure = "transport"]
  /\ End(j)
  /\ UNCHANGED <<world, promoted, tombstones, isPaused>>

\* _start_revision: the pending run is committed before the response is parsed.
StartRevision(j) ==
  /\ pc[j] = "start"
  /\ runs' = Append(runs, Run(j, "pending", IF lock = j THEN 1 ELSE 0))
  /\ job' = [job EXCEPT ![j].run = Len(runs) + 1]
  /\ Continue(j, IF ~job[j].valid THEN "reject"
                 ELSE IF job[j].mode = "fixture" THEN "promote" ELSE "base")
  /\ UNCHANGED <<world, promoted, tombstones, flags, lock>>

PauseOnce(j) == isPaused \/ refreshState.integrity = None   \* mutant of PauseAfter
PauseAfter(j) == isPaused \/ job[j].mode # "fixture"

\* parse_source_records refused the response: the run is rejected, and the service
\* paused unless the response came from cpsc-import-fixture.
Reject(j) ==
  /\ pc[j] = "reject"
  /\ runs' = [runs EXCEPT ![job[j].run].state = "rejected"]
  /\ isPaused' = PauseAfter(j)
  /\ refreshState' = IF job[j].mode = "fixture" THEN refreshState
                     ELSE [lastFailure |-> "integrity", integrity |-> "integrity"]
  /\ End(j)
  /\ UNCHANGED <<world, promoted, tombstones>>

\* _promote_revision reads cpsc_current_records without a lock.
ReadCurrentRecords(j) ==
  /\ pc[j] = "base"
  /\ job' = [job EXCEPT ![j].base = CurrentRecords, ![j].baseRun = Current]
  /\ Continue(j, "promote")
  /\ UNCHANGED <<world, tables, flags, lock>>

\* The rest of _promote_revision: from the UPDATE of cpsc_source_refresh_state on, the
\* row lock makes promotions take turns.
Promote(j) ==
  /\ pc[j] = "promote"
  /\ runs' = Completed(j)
  /\ promoted' = Append(promoted, job[j].run)
  /\ tombstones' = tombstones \cup NewTombstones(j)
  /\ refreshState' = [refreshState EXCEPT !.lastFailure = None]
  /\ End(j)
  /\ UNCHANGED <<world, isPaused>>

\* A statement of the promotion fails and everything it wrote is rolled back; the run
\* is marked failed in a transaction of its own.
PromotionFails(j) ==
  /\ pc[j] \in {"base", "promote"}
  /\ Continue(j, "failed")
  /\ UNCHANGED <<world, tables, flags, lock, job>>

FinishFailed(j) ==
  /\ pc[j] = "failed"
  /\ runs' = [runs EXCEPT ![job[j].run].state = "failed"]
  /\ refreshState' = IF job[j].mode = "fixture" THEN refreshState
                     ELSE [refreshState EXCEPT !.lastFailure = "promotion_failed"]
  /\ End(j)
  /\ UNCHANGED <<world, promoted, tombstones, isPaused>>

\* The job is killed, its connection lost, or an exception escapes it.
Crash(j) ==
  /\ pc[j] # "idle"
  /\ End(j)
  /\ UNCHANGED <<world, tables, flags>>

-----------------------------------------------------------------------------
(* Environment *)

jobs == <<lock, pc, job>>

\* CPSC publishes a recall or a new version of it; the API may show it late.
Publish(r, v) ==
  /\ changes < MaxChanges
  /\ changes' = changes + 1
  /\ feed' = Overlay([x \in {r} |-> v], feed)
  /\ \E date \in (now - PublicationLag)..now : published' = [published EXCEPT ![r] = date]
  /\ UNCHANGED <<now, tables, flags, jobs>>

\* CPSC withdraws a recall.
Withdraw(r) ==
  /\ changes < MaxChanges
  /\ changes' = changes + 1
  /\ r \in DOMAIN feed
  /\ feed' = [x \in DOMAIN feed \ {r} |-> feed[x]]
  /\ published' = [published EXCEPT ![r] = 0]
  /\ UNCHANGED <<now, tables, flags, jobs>>

\* resolve_pause: the founder lifts the pause.
ResolvePause ==
  /\ isPaused
  /\ isPaused' = FALSE
  /\ UNCHANGED <<world, tables, refreshState, jobs>>

Tick ==
  /\ now < MaxTime
  /\ now' = now + 1
  /\ UNCHANGED <<feed, published, changes, tables, flags, jobs>>

-----------------------------------------------------------------------------
Init ==
  /\ now = 0
  /\ feed = NoRecords
  /\ published = [r \in Recalls |-> 0]
  /\ changes = 0
  /\ runs = <<>>
  /\ promoted = <<>>
  /\ tombstones = {}
  /\ isPaused = FALSE
  /\ refreshState = [lastFailure |-> None, integrity |-> None]
  /\ lock = None
  /\ pc = [j \in Jobs |-> "idle"]
  /\ job = [j \in Jobs |-> NoJob]

Step(j) ==
  \/ Lock(j)
  \/ ReadLastCompleted(j)
  \/ Receive(j)
  \/ FetchFails(j)
  \/ RecordTransportFailure(j)
  \/ StartRevision(j)
  \/ Reject(j)
  \/ ReadCurrentRecords(j)
  \/ Promote(j)
  \/ PromotionFails(j)
  \/ FinishFailed(j)

Job(j) == StartLive(j) \/ StartRecorded(j) \/ Step(j) \/ Crash(j)

Environment == \/ \E r \in Recalls, v \in Versions : Publish(r, v)
               \/ \E r \in Recalls : Withdraw(r)
               \/ ResolvePause
               \/ Tick

Next == (\E j \in Jobs : Job(j)) \/ Environment

Spec == Init /\ [][Next]_vars

\* A started job keeps running, and pg_advisory_lock queues its waiters.
FairSpec == Spec /\ \A j \in Jobs : SF_vars(Step(j))
-----------------------------------------------------------------------------
(* Properties *)

Labels == {"idle", "lock", "last", "fetch", "transport", "start", "reject", "base",
           "promote", "failed"}
RunStates == {"pending", "completed", "failed", "rejected"}
Times == Nat \cup {NoTime}

\* Every table and every local variable holds values of its columns or its type, and no
\* job makes more than MaxAttempts requests.
TypeOK ==
  /\ now \in Nat
  /\ feed \in RecordSets
  /\ published \in [Recalls -> Int]
  /\ changes \in Nat
  /\ runs \in Seq([mode : Modes, observed : Nat, state : RunStates, attempts : 0..MaxAttempts,
                   records : RecordSets])
  /\ promoted \in Seq(Nat)
  /\ tombstones \subseteq [run : Nat, recall : Recalls, lastSeen : Nat]
  /\ isPaused \in BOOLEAN
  /\ refreshState \in [lastFailure : {None, "transport", "promotion_failed", "integrity"},
                       integrity : {None, "integrity"}]
  /\ lock \in Jobs \cup {None}
  /\ pc \in [Jobs -> Labels]
  /\ job \in [Jobs -> [mode : Modes \cup {None}, observed : Nat, last : Times,
                      attempts : 0..(MaxAttempts - 1), valid : BOOLEAN, response : RecordSets,
                      seen : RecordSets, run : Nat, base : RecordSets, baseRun : Nat]]

\* Only live refreshes have run so far.
OnlyLiveRuns == \A i \in 1..Len(runs) : runs[i].attempts > 0

\* Live refreshes take turns: a record leaves the projection only through a complete
\* reconciliation that buries it, however refreshes, crashes and retries interleave.
LiveRefreshesLoseNothing ==
  [][OnlyLiveRuns' =>
       \A r \in DOMAIN CurrentRecords \ DOMAIN CurrentRecords' :
         [run |-> Current', recall |-> r, lastSeen |-> Current] \in tombstones']_vars

\* The seven-day overlap makes up for late publication and for every failed, rejected
\* or crashed refresh before: a completed live refresh has each record as the API had
\* it when the response was retrieved.
RefreshesCatchUp ==
  [][OnlyLiveRuns' /\ promoted' # promoted =>
       \A j \in Jobs : pc[j] = "promote" /\ pc'[j] # "promote" =>
         \A r \in DOMAIN job[j].seen :
           /\ r \in DOMAIN CurrentRecords'
           /\ CurrentRecords'[r] = job[j].seen[r]]_vars

\* A tombstone tells the truth also when recorded jobs run unlocked: the recall is not
\* in the revision that buried it, and was in the one it was last seen in.
TombstonesAreTrue ==
  \A t \in tombstones :
    /\ runs[t.run].state = "completed" /\ t.recall \notin DOMAIN runs[t.run].records
    /\ runs[t.lastSeen].state = "completed" /\ t.recall \in DOMAIN runs[t.lastSeen].records

\* Each refused refresh response pauses the service, also the one after a founder
\* resumed it.
RejectionPauses ==
  [][\A i \in 1..Len(runs) :
       /\ runs[i].mode # "fixture"
       /\ runs[i].state = "pending"
       /\ runs'[i].state = "rejected"
       => isPaused']_vars

\* Every started job ends, and with it its turn at the lock.
JobsEnd == \A j \in Jobs : pc[j] # "idle" ~> pc[j] = "idle"

\* The runs that were promoted, as the evidence queue sees them.
Revision(i) == [observed |-> runs[promoted[i]].observed, records |-> runs[promoted[i]].records]
History == INSTANCE SourceHistory WITH
  Observations <- Nat,
  revisions <- [i \in 1..Len(promoted) |-> Revision(i)],
  paused <- isPaused

\* Whatever jobs run, fail and crash, the evidence queue sees whole revisions appear one
\* after the other and never change.
ImplementsHistory == History!Spec

-----------------------------------------------------------------------------
(* What the repository says and the code does not do *)

\* "weekly performs complete reconciliation; a missing prior record becomes an immutable
\* tombstone, never a deletion": a record that a weekly refresh drops from the
\* projection has a tombstone.
MissingBecomesTombstone ==
  [][/\ promoted' # promoted
     /\ runs[Current'].mode = "full"
     => \A r \in DOMAIN CurrentRecords \ DOMAIN CurrentRecords' :
          \E t \in tombstones' : t.run = Current' /\ t.recall = r]_vars
=============================================================================

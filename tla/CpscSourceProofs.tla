--------------------------- MODULE CpscSourceProofs ----------------------------
(***************************************************************************)
(* Theorems about CpscSource, for every set of jobs, recalls, versions and *)
(* recorded responses, and every grace window, overlap and retry limit.    *)
(***************************************************************************)
EXTENDS CpscSource, SequenceTheorems, TLAPS

\* A job that has committed its pending run.
AtRun == {"reject", "base", "promote", "failed"}

RunRows == [mode : Modes, observed : Nat, state : RunStates, attempts : 0..MaxAttempts,
            records : RecordSets]

Locals == [mode : Modes \cup {None}, observed : Nat, last : Times,
           attempts : 0..(MaxAttempts - 1), valid : BOOLEAN, response : RecordSets,
           seen : RecordSets, run : Nat, base : RecordSets, baseRun : Nat]

\* What a job's locals r satisfy before the statement l.
LocalsOK(l, r) ==
  /\ l # "idle" => r.mode \in Modes
  /\ l \in AtRun => r.run \in 1..Len(runs)

PromotedExist == \A i \in 1..Len(promoted) : promoted[i] \in 1..Len(runs)

TypeInv ==
  /\ TypeOK
  /\ \A j \in Jobs : LocalsOK(pc[j], job[j])
  /\ PromotedExist

-----------------------------------------------------------------------------
(* Sets of source records *)

\* A set of records is a function from some recalls to versions.
LEMMA RecordSetsAre ==
  ASSUME NEW f
  PROVE  f \in RecordSets <=> \E R \in SUBSET Recalls : f \in [R -> Versions]
  BY Zenon DEF RecordSets

\* The empty set of records, and what merging, filtering and withdrawing yield.
LEMMA NoRecordsType == NoRecords \in RecordSets
<1>1. NoRecords \in [{} -> Versions]
  BY DEF NoRecords
<1> QED BY <1>1, RecordSetsAre

LEMMA OverlayType ==
  ASSUME NEW f \in RecordSets, NEW g \in RecordSets
  PROVE  Overlay(f, g) \in RecordSets
<1>1. PICK R \in SUBSET Recalls : f \in [R -> Versions]
  BY RecordSetsAre
<1>2. PICK S \in SUBSET Recalls : g \in [S -> Versions]
  BY RecordSetsAre
<1>3. Overlay(f, g) \in [R \cup S -> Versions]
  BY <1>1, <1>2 DEF Overlay
<1>4. R \cup S \in SUBSET Recalls
  OBVIOUS
<1> QED BY <1>3, <1>4, RecordSetsAre

LEMMA RestrictionType ==
  ASSUME NEW f \in RecordSets, NEW D \in SUBSET DOMAIN f
  PROVE  [r \in D |-> f[r]] \in RecordSets
<1>1. PICK R \in SUBSET Recalls : f \in [R -> Versions]
  BY RecordSetsAre
<1>2. D \in SUBSET Recalls /\ [r \in D |-> f[r]] \in [D -> Versions]
  BY <1>1
<1> QED BY <1>2, RecordSetsAre

LEMMA SingletonType ==
  ASSUME NEW r \in Recalls, NEW v \in Versions
  PROVE  [x \in {r} |-> v] \in RecordSets
<1>1. [x \in {r} |-> v] \in [{r} -> Versions] /\ {r} \in SUBSET Recalls
  OBVIOUS
<1> QED BY <1>1, RecordSetsAre

LEMMA DomainType ==
  ASSUME NEW f \in RecordSets
  PROVE  DOMAIN f \subseteq Recalls
<1>1. PICK R \in SUBSET Recalls : f \in [R -> Versions]
  BY RecordSetsAre
<1> QED BY <1>1

\* The locals of a job that was not started.
LEMMA NoJobType == NoJob \in Locals
  BY NoRecordsType, AttemptsAssumption DEF NoJob, Locals, None, NoTime, Times

\* The empty database satisfies the typing invariant.
LEMMA InitType == Init => TypeInv
<1> SUFFICES ASSUME Init PROVE TypeInv
  OBVIOUS
<1>1. runs \in Seq(RunRows) /\ promoted \in Seq(Nat) /\ Len(promoted) = 0
  BY DEF Init
<1>2. job \in [Jobs -> Locals] /\ pc \in [Jobs -> Labels]
  BY NoJobType DEF Init, Labels
<1>3. TypeOK
  <2>1. feed \in RecordSets /\ published \in [Recalls -> Int]
    BY NoRecordsType DEF Init
  <2>2. refreshState \in [lastFailure : {None, "transport", "promotion_failed", "integrity"},
                          integrity : {None, "integrity"}]
    BY DEF Init
  <2> QED BY <1>1, <1>2, <2>1, <2>2 DEF Init, TypeOK, RunRows, Locals
<1> QED BY <1>1, <1>3 DEF Init, TypeInv, LocalsOK, AtRun, PromotedExist

-----------------------------------------------------------------------------
(* The shapes of a job's step *)

\* The parts of the typing invariant, by name.
LEMMA Types ==
  ASSUME TypeInv
  PROVE  /\ runs \in Seq(RunRows) /\ promoted \in Seq(Nat)
         /\ Len(runs) \in Nat /\ Len(promoted) \in Nat
         /\ \A i \in 1..Len(runs) : runs[i] \in RunRows
         /\ job \in [Jobs -> Locals] /\ pc \in [Jobs -> Labels]
         /\ \A j \in Jobs : LocalsOK(pc[j], job[j])
<1>1. runs \in Seq(RunRows) /\ promoted \in Seq(Nat)
  BY DEF TypeInv, TypeOK, RunRows
<1>2. job \in [Jobs -> Locals]
  BY DEF TypeInv, TypeOK, Locals
<1>3. \A i \in 1..Len(runs) : runs[i] \in RunRows
  BY <1>1, ElementOfSeq
<1> QED BY <1>1, <1>2, <1>3 DEF TypeInv, TypeOK

\* The current revision is a run, and its records are a set of records.
LEMMA CurrentType ==
  ASSUME TypeInv
  PROVE  /\ Current \in 0..Len(runs)
         /\ CurrentRecords \in RecordSets
         /\ LastCompletedObservedAt \in Times
<1>1. Current \in 0..Len(runs)
  <2>1. CASE promoted = <<>>
    BY <2>1, Types DEF Current
  <2>2. CASE promoted # <<>>
    <3>1. Len(promoted) \in 1..Len(promoted)
      BY <2>2, Types, EmptySeq
    <3> QED BY <2>2, <3>1, Types DEF Current, TypeInv, PromotedExist
  <2> QED BY <2>1, <2>2
<1>2. Current # 0 => runs[Current] \in RunRows
  BY <1>1, Types
<1> QED BY <1>1, <1>2, NoRecordsType DEF CurrentRecords, LastCompletedObservedAt, RunRows, Times, NoTime

\* A statement that moves one job to well-typed locals and touches no table keeps the
\* typing invariant.
LEMMA LocalStep ==
  ASSUME TypeInv, NEW j \in Jobs, NEW l \in Labels, NEW r \in Locals, LocalsOK(l, r),
         Continue(j, l), job' = [job EXCEPT ![j] = r], lock' \in Jobs \cup {None},
         UNCHANGED <<world, tables, flags>>
  PROVE  TypeInv'
<1>1. job' \in [Jobs -> Locals] /\ pc' \in [Jobs -> Labels]
  BY Types DEF Continue
<1>2. TypeOK'
  BY <1>1 DEF TypeInv, TypeOK, Locals, world, tables, flags
<1>3. ASSUME NEW i \in Jobs PROVE LocalsOK(pc[i], job[i])'
  <2>1. pc'[i] = (IF i = j THEN l ELSE pc[i]) /\ job'[i] = IF i = j THEN r ELSE job[i]
    BY Types DEF Continue
  <2> QED BY <2>1, Types DEF LocalsOK, tables
<1> QED BY <1>2, <1>3 DEF TypeInv, PromotedExist, tables

\* So does the end of a job that changes rows of runs or adds one.
LEMMA EndStep ==
  ASSUME TypeInv, NEW j \in Jobs, End(j),
         runs' \in Seq(RunRows), Len(runs') >= Len(runs),
         promoted' \in Seq(Nat), PromotedExist',
         tombstones' \subseteq [run : Nat, recall : Recalls, lastSeen : Nat],
         isPaused' \in BOOLEAN,
         refreshState' \in [lastFailure : {None, "transport", "promotion_failed", "integrity"},
                            integrity : {None, "integrity"}],
         UNCHANGED world
  PROVE  TypeInv'
<1>1. job' \in [Jobs -> Locals] /\ pc' \in [Jobs -> Labels]
  BY Types, NoJobType DEF End, Continue, Labels
<1>2. lock' \in Jobs \cup {None}
  BY DEF End, Unlocked, TypeInv, TypeOK
<1>3. TypeOK'
  BY <1>1, <1>2 DEF TypeInv, TypeOK, RunRows, Locals, world
<1>4. ASSUME NEW i \in Jobs PROVE LocalsOK(pc[i], job[i])'
  <2>1. /\ pc'[i] = (IF i = j THEN "idle" ELSE pc[i])
        /\ job'[i] = IF i = j THEN NoJob ELSE job[i]
    BY Types DEF End, Continue
  <2>2. Len(runs) \in Nat /\ Len(runs') \in Nat
    BY Types
  <2> QED BY <2>1, <2>2, Types DEF LocalsOK, AtRun
<1> QED BY <1>3, <1>4 DEF TypeInv

\* The row of a job's run once it failed, was rejected or was promoted.
Failed(j, s) == [runs[job[j].run] EXCEPT !.state = s]
Whole(j) == [runs[job[j].run] EXCEPT !.state = "completed", !.records = NewRecords(j)]

\* The runs after a job's own run was finished: one row changed.
LEMMA FinishedRuns ==
  ASSUME TypeInv, NEW j \in Jobs, pc[j] \in AtRun, NEW s \in RunStates,
         runs' = [runs EXCEPT ![job[j].run].state = s]
  PROVE  /\ job[j].run \in 1..Len(runs)
         /\ runs' \in Seq(RunRows) /\ Len(runs') = Len(runs)
         /\ \A i \in 1..Len(runs) :
              runs'[i] = IF i = job[j].run THEN Failed(j, s) ELSE runs[i]
<1> DEFINE k == job[j].run
           row == Failed(j, s)
<1>1. k \in 1..Len(runs) /\ runs \in Seq(RunRows)
  BY Types DEF LocalsOK
<1>2. row \in RunRows
  BY <1>1, Types DEF RunRows, Failed
<1>3. runs' = [runs EXCEPT ![k] = row]
  BY <1>1 DEF Failed
<1> HIDE DEF row, k
<1>4. /\ [runs EXCEPT ![k] = row] \in Seq(RunRows)
      /\ Len([runs EXCEPT ![k] = row]) = Len(runs)
      /\ \A i \in 1..Len(runs) : [runs EXCEPT ![k] = row][i] = IF i = k THEN row ELSE runs[i]
  BY <1>1, <1>2, ExceptSeq
<1> QED BY <1>1, <1>3, <1>4 DEF row, k

\* The runs after a promotion: the new revision is complete, the others as before.
LEMMA CompletedRuns ==
  ASSUME TypeInv, NEW j \in Jobs, pc[j] \in AtRun, runs' = Completed(j)
  PROVE  /\ job[j].run \in 1..Len(runs)
         /\ NewRecords(j) \in RecordSets
         /\ runs' \in Seq(RunRows) /\ Len(runs') = Len(runs)
         /\ \A i \in 1..Len(runs) : runs'[i] = IF i = job[j].run THEN Whole(j) ELSE runs[i]
<1> DEFINE k == job[j].run
           row == Whole(j)
<1>1. k \in 1..Len(runs) /\ runs \in Seq(RunRows)
  BY Types DEF LocalsOK
<1>2. NewRecords(j) \in RecordSets
  BY Types, OverlayType DEF NewRecords, Locals
<1>3. row \in RunRows
  BY <1>1, <1>2, Types DEF RunRows, RunStates, Whole
<1>4. runs' = [runs EXCEPT ![k] = row]
  BY <1>1, Types DEF Completed, Whole
<1> HIDE DEF row, k
<1>5. /\ [runs EXCEPT ![k] = row] \in Seq(RunRows)
      /\ Len([runs EXCEPT ![k] = row]) = Len(runs)
      /\ \A i \in 1..Len(runs) : [runs EXCEPT ![k] = row][i] = IF i = k THEN row ELSE runs[i]
  BY <1>1, <1>3, ExceptSeq
<1> QED BY <1>1, <1>2, <1>4, <1>5 DEF row, k

-----------------------------------------------------------------------------
(* Type correctness *)

\* The API's answer is a set of records.
LEMMA AnswerType ==
  ASSUME TypeInv, NEW mode, NEW last
  PROVE  Answer(mode, last) \in RecordSets
<1>1. feed \in RecordSets
  BY DEF TypeInv, TypeOK
<1>2. PublishedSince(last - Overlap) \in RecordSets
  BY <1>1, RestrictionType DEF PublishedSince
<1> QED BY <1>1, <1>2 DEF Answer

\* Every statement that touches only a job's locals keeps the typing invariant.
LEMMA LocalsType ==
  ASSUME TypeInv, NEW j \in Jobs,
         \/ StartLive(j) \/ StartRecorded(j) \/ Lock(j) \/ ReadLastCompleted(j) \/ Receive(j)
         \/ FetchFails(j) \/ ReadCurrentRecords(j) \/ PromotionFails(j) \/ Crash(j)
  PROVE  TypeInv'
<1>0. /\ job[j] \in Locals /\ LocalsOK(pc[j], job[j])
      /\ now \in Nat /\ lock \in Jobs \cup {None}
  BY Types DEF TypeInv, TypeOK
<1>1. CASE StartLive(j)
  <2>1. PICK mode \in {"daily", "full"}, observed \in 0..now :
          job' = [job EXCEPT ![j] = [NoJob EXCEPT !.mode = mode, !.observed = observed]]
    BY <1>1 DEF StartLive
  <2> DEFINE r == [NoJob EXCEPT !.mode = mode, !.observed = observed]
  <2>2. mode \in Modes /\ observed \in Nat
    BY <1>0 DEF Modes
  <2>3. r \in Locals /\ LocalsOK("lock", r)
    BY <2>2, NoJobType DEF Locals, NoJob, LocalsOK, AtRun
  <2> HIDE DEF r
  <2> QED BY <1>0, <1>1, <2>1, <2>3, LocalStep DEF StartLive, Labels, r
<1>2. CASE StartRecorded(j)
  <2>1. PICK mode \in RecordedModes, observed \in 0..now, response \in RecordedResponses,
             valid \in BOOLEAN :
          job' = [job EXCEPT ![j] = [NoJob EXCEPT !.mode = mode, !.observed = observed,
                    !.response = response, !.valid = valid]]
    BY <1>2 DEF StartRecorded
  <2> DEFINE r == [NoJob EXCEPT !.mode = mode, !.observed = observed,
                     !.response = response, !.valid = valid]
  <2>2. mode \in Modes /\ response \in RecordSets /\ observed \in Nat
    BY <1>0, RecordedAssumption
  <2>3. r \in Locals /\ LocalsOK("start", r)
    BY <2>2, NoJobType DEF Locals, NoJob, LocalsOK, AtRun
  <2> HIDE DEF r
  <2> QED BY <1>0, <1>2, <2>1, <2>3, LocalStep DEF StartRecorded, Labels, r
<1>3. CASE Lock(j)
  <2>1. job' = [job EXCEPT ![j] = job[j]]
    BY <1>3, Types DEF Lock
  <2>2. LocalsOK("last", job[j])
    BY <1>0, <1>3 DEF Lock, LocalsOK, AtRun
  <2> QED BY <1>0, <1>3, <2>1, <2>2, LocalStep DEF Lock, Labels
<1>4. CASE ReadLastCompleted(j)
  <2> DEFINE r == [job[j] EXCEPT !.last = LastCompletedObservedAt]
             l == IF Refused(job[j].mode, job[j].observed, LastCompletedObservedAt)
                  THEN "transport" ELSE "fetch"
  <2>1. r \in Locals
    BY <1>0, CurrentType DEF Locals
  <2>2. LocalsOK(l, r) /\ l \in Labels
    BY <1>0, <1>4 DEF ReadLastCompleted, LocalsOK, AtRun, Locals, Labels
  <2>3. job' = [job EXCEPT ![j] = r]
    BY <1>0, <1>4 DEF ReadLastCompleted, Locals
  <2> HIDE DEF r, l
  <2> QED BY <1>0, <1>4, <2>1, <2>2, <2>3, LocalStep DEF ReadLastCompleted, l
<1>5. CASE Receive(j)
  <2>1. PICK valid \in BOOLEAN :
          job' = [job EXCEPT ![j].response = Answer(job[j].mode, job[j].last),
                             ![j].valid = valid, ![j].seen = feed]
    BY <1>5 DEF Receive
  <2> DEFINE r == [job[j] EXCEPT !.response = Answer(job[j].mode, job[j].last),
                                 !.valid = valid, !.seen = feed]
  <2>2. feed \in RecordSets /\ Answer(job[j].mode, job[j].last) \in RecordSets
    BY AnswerType DEF TypeInv, TypeOK
  <2>3. r \in Locals
    BY <1>0, <2>2 DEF Locals
  <2>4. LocalsOK("start", r)
    BY <1>0, <1>5 DEF Receive, LocalsOK, AtRun, Locals
  <2>5. job' = [job EXCEPT ![j] = r]
    BY <2>1, Types
  <2> HIDE DEF r
  <2> QED BY <1>0, <1>5, <2>3, <2>4, <2>5, LocalStep DEF Receive, Labels
<1>6. CASE FetchFails(j)
  <2> DEFINE r == [job[j] EXCEPT !.attempts = @ + 1]
  <2>1. CASE MayRetry(j) /\ job' = [job EXCEPT ![j].attempts = @ + 1] /\ UNCHANGED pc
    <3>1. r \in Locals
      BY <1>0, <2>1, AttemptsAssumption DEF MayRetry, Locals
    <3>2. LocalsOK("fetch", r)
      BY <1>0, <1>6 DEF FetchFails, LocalsOK, AtRun, Locals
    <3>3. job' = [job EXCEPT ![j] = r] /\ Continue(j, "fetch")
      BY <1>6, <2>1, Types DEF FetchFails, Continue
    <3> HIDE DEF r
    <3> QED BY <1>0, <1>6, <3>1, <3>2, <3>3, LocalStep DEF FetchFails, Labels
  <2>2. CASE Continue(j, "transport") /\ UNCHANGED job
    <3>1. job' = [job EXCEPT ![j] = job[j]]
      BY <2>2, Types
    <3>2. LocalsOK("transport", job[j])
      BY <1>0, <1>6 DEF FetchFails, LocalsOK, AtRun
    <3> QED BY <1>0, <1>6, <2>2, <3>1, <3>2, LocalStep DEF FetchFails, Labels
  <2> QED BY <1>6, <2>1, <2>2 DEF FetchFails
<1>7. CASE ReadCurrentRecords(j)
  <2> DEFINE r == [job[j] EXCEPT !.base = CurrentRecords, !.baseRun = Current]
  <2>1. CurrentRecords \in RecordSets /\ Current \in Nat
    BY CurrentType, Types
  <2>2. r \in Locals
    BY <1>0, <2>1 DEF Locals
  <2>3. LocalsOK("promote", r)
    BY <1>0, <1>7 DEF ReadCurrentRecords, LocalsOK, AtRun, Locals
  <2>4. job' = [job EXCEPT ![j] = r]
    BY <1>7, Types DEF ReadCurrentRecords
  <2> HIDE DEF r
  <2> QED BY <1>0, <1>7, <2>2, <2>3, <2>4, LocalStep DEF ReadCurrentRecords, Labels
<1>8. CASE PromotionFails(j)
  <2>1. job' = [job EXCEPT ![j] = job[j]]
    BY <1>8, Types DEF PromotionFails
  <2>2. LocalsOK("failed", job[j])
    BY <1>0, <1>8 DEF PromotionFails, LocalsOK, AtRun
  <2> QED BY <1>0, <1>8, <2>1, <2>2, LocalStep DEF PromotionFails, Labels
<1>9. CASE Crash(j)
  <2>1. LocalsOK("idle", NoJob) /\ lock' \in Jobs \cup {None}
    BY <1>0, <1>9 DEF Crash, End, Unlocked, LocalsOK, AtRun
  <2> QED BY <1>9, <2>1, NoJobType, LocalStep DEF Crash, End, Labels
<1> QED
  BY <1>1, <1>2, <1>3, <1>4, <1>5, <1>6, <1>7, <1>8, <1>9

\* Every statement of a job that writes tables keeps the typing invariant.
LEMMA TablesType ==
  ASSUME TypeInv, NEW j \in Jobs,
         \/ RecordTransportFailure(j) \/ StartRevision(j) \/ Reject(j) \/ Promote(j)
         \/ FinishFailed(j)
  PROVE  TypeInv'
<1>0. /\ job[j] \in Locals /\ LocalsOK(pc[j], job[j])
      /\ runs \in Seq(RunRows) /\ Len(runs) \in Nat
      /\ refreshState \in [lastFailure : {None, "transport", "promotion_failed", "integrity"},
                           integrity : {None, "integrity"}]
      /\ isPaused \in BOOLEAN
      /\ tombstones \subseteq [run : Nat, recall : Recalls, lastSeen : Nat]
      /\ lock \in Jobs \cup {None}
      /\ promoted \in Seq(Nat) /\ Len(promoted) \in Nat
      /\ \A i \in 1..Len(promoted) : promoted[i] \in 1..Len(runs)
  BY Types DEF TypeInv, TypeOK, PromotedExist
<1>1. ASSUME NEW s \in {"failed", "pending"}, NEW n \in 0..MaxAttempts,
             pc[j] \in {"transport", "start"}
      PROVE  /\ Append(runs, Run(j, s, n)) \in Seq(RunRows)
             /\ Len(Append(runs, Run(j, s, n))) = Len(runs) + 1
  <2>1. Run(j, s, n) \in RunRows
    BY <1>0, <1>1, NoRecordsType DEF Run, RunRows, RunStates, LocalsOK, Locals
  <2> QED BY <1>0, <2>1
<1>2. CASE RecordTransportFailure(j)
  <2>1. runs' \in Seq(RunRows) /\ Len(runs') = Len(runs) + 1
    BY <1>1, <1>2, AttemptsAssumption DEF RecordTransportFailure
  <2>2. PromotedExist'
    BY <1>0, <1>2, <2>1 DEF RecordTransportFailure, PromotedExist
  <2>3. refreshState' \in [lastFailure : {None, "transport", "promotion_failed", "integrity"},
                           integrity : {None, "integrity"}]
    BY <1>0, <1>2 DEF RecordTransportFailure
  <2>4. /\ promoted' \in Seq(Nat) /\ isPaused' \in BOOLEAN
        /\ tombstones' \subseteq [run : Nat, recall : Recalls, lastSeen : Nat]
        /\ UNCHANGED world /\ End(j)
    BY <1>0, <1>2 DEF RecordTransportFailure
  <2> QED BY <1>0, <1>2, <2>1, <2>2, <2>3, <2>4, EndStep
<1>3. CASE StartRevision(j)
  <2> DEFINE r == [job[j] EXCEPT !.run = Len(runs) + 1]
             l == IF ~job[j].valid THEN "reject"
                  ELSE IF job[j].mode = "fixture" THEN "promote" ELSE "base"
  <2>1. runs' \in Seq(RunRows) /\ Len(runs') = Len(runs) + 1
    BY <1>1, <1>3, AttemptsAssumption DEF StartRevision
  <2>0. Len(runs) + 1 \in Nat
    BY <1>0
  <2>a. r \in Locals
    BY <1>0, <2>0 DEF Locals
  <2>b. job' = [job EXCEPT ![j] = r]
    BY <1>3, Types DEF StartRevision
  <2>2. r \in Locals /\ job' = [job EXCEPT ![j] = r]
    BY <2>a, <2>b
  <2>3. l \in Labels /\ pc' = [pc EXCEPT ![j] = l]
    BY <1>3 DEF StartRevision, Continue, Labels
  <2>4. r.mode \in Modes /\ r.run \in 1..Len(runs')
    BY <1>0, <1>3, <2>1 DEF StartRevision, LocalsOK, Locals
  <2> HIDE DEF r, l
  <2>5. job' \in [Jobs -> Locals] /\ pc' \in [Jobs -> Labels]
    BY <2>2, <2>3, Types
  <2>6. TypeOK'
    BY <1>3, <2>1, <2>5 DEF StartRevision, TypeInv, TypeOK, RunRows, Locals, world, flags
  <2>7. ASSUME NEW i \in Jobs PROVE LocalsOK(pc[i], job[i])'
    <3>1. pc'[i] = (IF i = j THEN l ELSE pc[i]) /\ job'[i] = IF i = j THEN r ELSE job[i]
      BY <2>2, <2>3, Types
    <3>2. CASE i = j
      BY <2>4, <3>1, <3>2 DEF LocalsOK
    <3>3. CASE i # j
      <4>1. LocalsOK(pc[i], job[i])
        BY Types
      <4> QED BY <1>0, <2>1, <3>1, <3>3, <4>1 DEF LocalsOK
    <3> QED BY <3>2, <3>3
  <2>8. PromotedExist'
    BY <1>0, <1>3, <2>1 DEF StartRevision, PromotedExist
  <2> QED BY <2>6, <2>7, <2>8 DEF TypeInv
<1>4. CASE Reject(j)
  <2>1. pc[j] \in AtRun /\ "rejected" \in RunStates
    BY <1>4 DEF Reject, AtRun, RunStates
  <2>2. runs' \in Seq(RunRows) /\ Len(runs') = Len(runs)
    BY <1>4, <2>1, FinishedRuns DEF Reject
  <2>3. PromotedExist'
    BY <1>0, <1>4, <2>2 DEF Reject, PromotedExist
  <2>4. isPaused' \in BOOLEAN
    BY <1>0, <1>4 DEF Reject, PauseAfter
  <2>5. refreshState' \in [lastFailure : {None, "transport", "promotion_failed", "integrity"},
                           integrity : {None, "integrity"}]
    BY <1>0, <1>4 DEF Reject
  <2> QED BY <1>0, <1>4, <2>2, <2>3, <2>4, <2>5, EndStep DEF Reject
<1>5. CASE FinishFailed(j)
  <2>1. pc[j] \in AtRun /\ "failed" \in RunStates
    BY <1>5 DEF FinishFailed, AtRun, RunStates
  <2>2. runs' \in Seq(RunRows) /\ Len(runs') = Len(runs)
    BY <1>5, <2>1, FinishedRuns DEF FinishFailed
  <2>3. PromotedExist'
    BY <1>0, <1>5, <2>2 DEF FinishFailed, PromotedExist
  <2>4. refreshState' \in [lastFailure : {None, "transport", "promotion_failed", "integrity"},
                           integrity : {None, "integrity"}]
    BY <1>0, <1>5 DEF FinishFailed
  <2>5. /\ promoted' \in Seq(Nat) /\ isPaused' \in BOOLEAN
        /\ tombstones' \subseteq [run : Nat, recall : Recalls, lastSeen : Nat]
        /\ UNCHANGED world /\ End(j)
    BY <1>0, <1>5 DEF FinishFailed
  <2> QED BY <1>0, <1>5, <2>2, <2>3, <2>4, <2>5, EndStep
<1>6. CASE Promote(j)
  <2>1. pc[j] \in AtRun
    BY <1>6 DEF Promote, AtRun
  <2>2. job[j].run \in 1..Len(runs) /\ runs' \in Seq(RunRows) /\ Len(runs') = Len(runs)
    BY <1>6, <2>1, CompletedRuns DEF Promote
  <2>3. promoted' \in Seq(Nat) /\ PromotedExist'
    BY <1>0, <1>6, <2>2 DEF Promote, PromotedExist
  <2>4. NewTombstones(j) \subseteq [run : Nat, recall : Recalls, lastSeen : Nat]
    <3>1. DOMAIN job[j].base \subseteq Recalls
      BY <1>0, DomainType DEF Locals
    <3> QED BY <1>0, <3>1 DEF NewTombstones, Locals
  <2>5. tombstones' \subseteq [run : Nat, recall : Recalls, lastSeen : Nat]
    BY <1>0, <1>6, <2>4 DEF Promote
  <2>6. refreshState' \in [lastFailure : {None, "transport", "promotion_failed", "integrity"},
                           integrity : {None, "integrity"}]
    BY <1>0, <1>6 DEF Promote
  <2> QED BY <1>0, <1>6, <2>2, <2>3, <2>5, <2>6, EndStep DEF Promote
<1> QED BY <1>2, <1>3, <1>4, <1>5, <1>6

\* So do the environment and the founder.
LEMMA EnvironmentType ==
  ASSUME TypeInv, Environment
  PROVE  TypeInv'
<1>0. /\ feed \in RecordSets /\ published \in [Recalls -> Int] /\ changes \in Nat /\ now \in Nat
      /\ \A j \in Jobs : LocalsOK(pc[j], job[j])
  BY DEF TypeInv, TypeOK
<1>1. ASSUME NEW r \in Recalls, NEW v \in Versions, Publish(r, v)
      PROVE  TypeInv'
  <2>1. feed' \in RecordSets
    BY <1>0, <1>1, OverlayType, SingletonType DEF Publish
  <2>2. published' \in [Recalls -> Int]
    <3>1. PICK date \in (now - PublicationLag)..now :
            published' = [published EXCEPT ![r] = date]
      BY <1>1 DEF Publish
    <3>2. date \in Int
      BY <3>1
    <3> QED BY <1>0, <3>1, <3>2
  <2>3. changes' \in Nat
    BY <1>0, <1>1 DEF Publish
  <2>4. TypeOK'
    BY <1>1, <2>1, <2>2, <2>3 DEF Publish, TypeInv, TypeOK, tables, flags, jobs
  <2> QED BY <1>0, <1>1, <2>4 DEF Publish, TypeInv, LocalsOK, PromotedExist, tables, jobs
<1>2. ASSUME NEW r \in Recalls, Withdraw(r)
      PROVE  TypeInv'
  <2>1. feed' \in RecordSets
    BY <1>0, <1>2, RestrictionType DEF Withdraw
  <2>2. published' \in [Recalls -> Int] /\ changes' \in Nat
    BY <1>0, <1>2 DEF Withdraw
  <2>3. TypeOK'
    BY <1>2, <2>1, <2>2 DEF Withdraw, TypeInv, TypeOK, tables, flags, jobs
  <2> QED BY <1>0, <1>2, <2>3 DEF Withdraw, TypeInv, LocalsOK, PromotedExist, tables, jobs
<1>3. CASE ResolvePause
  <2>1. TypeOK'
    BY <1>3 DEF ResolvePause, TypeInv, TypeOK, world, tables, jobs
  <2> QED BY <1>0, <1>3, <2>1 DEF ResolvePause, TypeInv, LocalsOK, PromotedExist, tables, jobs
<1>4. CASE Tick
  <2>1. TypeOK'
    BY <1>0, <1>4 DEF Tick, TypeInv, TypeOK, tables, flags, jobs
  <2> QED BY <1>0, <1>4, <2>1 DEF Tick, TypeInv, LocalsOK, PromotedExist, tables, jobs
<1> QED BY <1>1, <1>2, <1>3, <1>4 DEF Environment

\* No step takes a table or a local variable out of its type.
LEMMA NextType == TypeInv /\ [Next]_vars => TypeInv'
<1> SUFFICES ASSUME TypeInv, [Next]_vars PROVE TypeInv'
  OBVIOUS
<1>1. ASSUME NEW j \in Jobs, Job(j) PROVE TypeInv'
  BY <1>1, LocalsType, TablesType DEF Job, Step
<1>2. CASE UNCHANGED vars
  BY <1>2 DEF TypeInv, TypeOK, LocalsOK, PromotedExist, vars
<1> QED BY <1>1, <1>2, EnvironmentType DEF Next

\* The typing invariant always holds.
LEMMA TypeInvariant == Spec => []TypeInv
  BY InitType, NextType, PTL DEF Spec

\* Every table and every local variable of a job always holds values of its type, and no
\* job makes more than MaxAttempts requests.
THEOREM TypeCorrect == Spec => []TypeOK
<1>1. TypeInv => TypeOK
  BY DEF TypeInv
<1> QED BY <1>1, TypeInvariant, PTL

-----------------------------------------------------------------------------
(* Each run belongs to one job until it is finished *)

RunInv ==
  /\ \A j \in Jobs : pc[j] \in AtRun => /\ runs[job[j].run].state = "pending"
                                        /\ runs[job[j].run].mode = job[j].mode
  /\ \A i, j \in Jobs : i # j /\ pc[i] \in AtRun /\ pc[j] \in AtRun => job[i].run # job[j].run
  /\ \A i \in 1..Len(promoted) : runs[promoted[i]].state = "completed"

OthersKept(j) == \A i \in Jobs \ {j} : pc'[i] = pc[i] /\ job'[i] = job[i]

\* A step of job j that touches neither a table nor the run of its locals.
Quiet(j) ==
  /\ UNCHANGED tables
  /\ OthersKept(j)
  /\ pc'[j] \in AtRun => /\ pc[j] \in AtRun
                         /\ job'[j].run = job[j].run
                         /\ job'[j].mode = job[j].mode

\* A step that finishes the run of job j as the row given, and ends the job.
Finishes(j, row) ==
  /\ OthersKept(j)
  /\ pc[j] \in AtRun /\ pc'[j] = "idle"
  /\ job[j].run \in 1..Len(runs)
  /\ Len(runs') = Len(runs)
  /\ \A i \in 1..Len(runs) : runs'[i] = IF i = job[j].run THEN row ELSE runs[i]

\* A step of job j that adds the run given to the table.
Adds(j, row) ==
  /\ OthersKept(j)
  /\ Len(runs') = Len(runs) + 1
  /\ \A i \in 1..Len(runs) : runs'[i] = runs[i]
  /\ runs'[Len(runs) + 1] = row

\* Assigning one job's control and locals keeps the other jobs'.
LEMMA EndKeepsOthers ==
  ASSUME TypeInv, NEW j \in Jobs, End(j)
  PROVE  OthersKept(j) /\ pc'[j] = "idle" /\ job'[j] = NoJob
  BY Types DEF End, Continue, OthersKept

\* The steps on locals are quiet.
LEMMA QuietSteps ==
  ASSUME TypeInv, NEW j \in Jobs,
         \/ StartLive(j) \/ StartRecorded(j) \/ Lock(j) \/ ReadLastCompleted(j) \/ Receive(j)
         \/ FetchFails(j) \/ ReadCurrentRecords(j) \/ PromotionFails(j) \/ Crash(j)
  PROVE  Quiet(j)
<1>1. job \in [Jobs -> Locals] /\ pc \in [Jobs -> Labels] /\ job[j] \in Locals
  BY Types
<1>2. CASE StartLive(j)
  BY <1>1, <1>2 DEF StartLive, Continue, Quiet, OthersKept, AtRun
<1>3. CASE StartRecorded(j)
  BY <1>1, <1>3 DEF StartRecorded, Continue, Quiet, OthersKept, AtRun
<1>4. CASE Lock(j)
  BY <1>1, <1>4 DEF Lock, Continue, Quiet, OthersKept, AtRun
<1>5. CASE ReadLastCompleted(j)
  BY <1>1, <1>5 DEF ReadLastCompleted, Continue, Quiet, OthersKept, AtRun
<1>6. CASE Receive(j)
  BY <1>1, <1>6 DEF Receive, Continue, Quiet, OthersKept, AtRun
<1>7. CASE FetchFails(j)
  BY <1>1, <1>7 DEF FetchFails, Continue, Quiet, OthersKept, AtRun
<1>8. CASE ReadCurrentRecords(j)
  BY <1>1, <1>8 DEF ReadCurrentRecords, Continue, Quiet, OthersKept, AtRun, Locals
<1>9. CASE PromotionFails(j)
  BY <1>1, <1>9 DEF PromotionFails, Continue, Quiet, OthersKept, AtRun
<1>10. CASE Crash(j)
  BY <1>10, EndKeepsOthers DEF Crash, Quiet, AtRun
<1> QED
  BY <1>2, <1>3, <1>4, <1>5, <1>6, <1>7, <1>8, <1>9, <1>10

\* The steps that finish a run.
LEMMA FinishingSteps ==
  ASSUME TypeInv, NEW j \in Jobs
  PROVE  /\ Reject(j) => Finishes(j, Failed(j, "rejected"))
         /\ FinishFailed(j) => Finishes(j, Failed(j, "failed"))
         /\ Promote(j) => Finishes(j, Whole(j))
<1>1. Reject(j) => Finishes(j, Failed(j, "rejected"))
  BY FinishedRuns, EndKeepsOthers DEF Reject, Finishes, Failed, AtRun, RunStates
<1>2. FinishFailed(j) => Finishes(j, Failed(j, "failed"))
  BY FinishedRuns, EndKeepsOthers DEF FinishFailed, Finishes, Failed, AtRun, RunStates
<1>3. Promote(j) => Finishes(j, Whole(j))
  BY CompletedRuns, EndKeepsOthers DEF Promote, Finishes, Whole, AtRun
<1> QED BY <1>1, <1>2, <1>3

\* The steps that add a run.
LEMMA AddingSteps ==
  ASSUME TypeInv, NEW j \in Jobs
  PROVE  /\ RecordTransportFailure(j) => /\ Adds(j, Run(j, "failed", MaxAttempts))
                                         /\ pc'[j] = "idle"
         /\ StartRevision(j) => /\ Adds(j, Run(j, "pending", IF lock = j THEN 1 ELSE 0))
                                /\ pc'[j] \in AtRun
                                /\ job'[j] = [job[j] EXCEPT !.run = Len(runs) + 1]
<1>1. runs \in Seq(RunRows) /\ Len(runs) \in Nat
  BY Types
<1>2. ASSUME NEW row, runs' = Append(runs, row)
      PROVE  /\ Len(runs') = Len(runs) + 1
             /\ \A i \in 1..Len(runs) : runs'[i] = runs[i]
             /\ runs'[Len(runs) + 1] = row
  BY <1>1, <1>2
<1>3. RecordTransportFailure(j) => /\ Adds(j, Run(j, "failed", MaxAttempts))
                                   /\ pc'[j] = "idle"
  BY <1>2, EndKeepsOthers DEF RecordTransportFailure, Adds
<1>4. ASSUME StartRevision(j)
      PROVE  /\ Adds(j, Run(j, "pending", IF lock = j THEN 1 ELSE 0))
             /\ pc'[j] \in AtRun
             /\ job'[j] = [job[j] EXCEPT !.run = Len(runs) + 1]
  <2>1. job' = [job EXCEPT ![j] = [job[j] EXCEPT !.run = Len(runs) + 1]]
    BY <1>4, Types DEF StartRevision
  <2>2. OthersKept(j) /\ pc'[j] \in AtRun
    BY <1>4, <2>1, Types DEF StartRevision, Continue, OthersKept, AtRun
  <2>3. job'[j] = [job[j] EXCEPT !.run = Len(runs) + 1]
    BY <2>1, Types
  <2>4. runs' = Append(runs, Run(j, "pending", IF lock = j THEN 1 ELSE 0))
    BY <1>4 DEF StartRevision
  <2> QED BY <1>2, <2>2, <2>3, <2>4 DEF Adds
<1> QED BY <1>3, <1>4

\* The environment and the founder touch no run and no job.
LEMMA EnvironmentSteps ==
  ASSUME Environment
  PROVE  UNCHANGED <<runs, promoted, tombstones, lock, pc, job>>
  BY DEF Environment, Publish, Withdraw, ResolvePause, Tick, tables, jobs

\* A quiet step keeps each job's run its own ...
LEMMA QuietRuns ==
  ASSUME TypeInv, RunInv, NEW j \in Jobs, Quiet(j)
  PROVE  RunInv'
<1>1. ASSUME NEW i \in Jobs, pc'[i] \in AtRun
      PROVE  pc[i] \in AtRun /\ job'[i].run = job[i].run /\ job'[i].mode = job[i].mode
  BY <1>1 DEF Quiet, OthersKept
<1> QED BY <1>1 DEF RunInv, Quiet, tables

\* ... so does a step that adds a run ...
LEMMA AddedRuns ==
  ASSUME TypeInv, RunInv, NEW j \in Jobs, NEW row, Adds(j, row), UNCHANGED promoted,
         pc'[j] \in AtRun => /\ job'[j].run = Len(runs) + 1
                             /\ row.state = "pending"
                             /\ row.mode = job'[j].mode
  PROVE  RunInv'
<1>1. ASSUME NEW i \in Jobs, pc[i] \in AtRun
      PROVE  job[i].run \in 1..Len(runs)
  BY <1>1, Types DEF LocalsOK
<1>2. ASSUME NEW i \in Jobs, pc'[i] \in AtRun
      PROVE  /\ runs'[job'[i].run].state = "pending"
             /\ runs'[job'[i].run].mode = job'[i].mode
  BY <1>1, <1>2 DEF RunInv, Adds, OthersKept
<1>3. ASSUME NEW i \in Jobs, NEW h \in Jobs, i # h, pc'[i] \in AtRun, pc'[h] \in AtRun
      PROVE  job'[i].run # job'[h].run
  <2>1. Len(runs) \in Nat
    BY Types
  <2>2. CASE i # j /\ h # j
    BY <1>3, <2>2 DEF RunInv, Adds, OthersKept
  <2>3. CASE i = j
    BY <1>1, <1>3, <2>1, <2>3 DEF Adds, OthersKept
  <2>4. CASE h = j
    BY <1>1, <1>3, <2>1, <2>4 DEF Adds, OthersKept
  <2> QED BY <2>2, <2>3, <2>4
<1>4. ASSUME NEW i \in 1..Len(promoted') PROVE runs'[promoted'[i]].state = "completed"
  BY <1>4 DEF RunInv, Adds, TypeInv, PromotedExist
<1> QED BY <1>2, <1>3, <1>4 DEF RunInv

\* ... and a step that finishes one.
LEMMA OwnRuns ==
  ASSUME TypeInv, RunInv, NEW j \in Jobs, NEW row, Finishes(j, row),
         \/ UNCHANGED promoted
         \/ promoted' = Append(promoted, job[j].run) /\ row.state = "completed"
  PROVE  RunInv'
<1>1. ASSUME NEW i \in Jobs, pc'[i] \in AtRun
      PROVE  /\ i # j /\ pc'[i] = pc[i] /\ job'[i] = job[i]
             /\ runs'[job[i].run] = runs[job[i].run]
  <2>1. i # j
    BY <1>1 DEF Finishes, AtRun
  <2>2. pc'[i] = pc[i] /\ job'[i] = job[i]
    BY <2>1 DEF Finishes, OthersKept
  <2>3. job[i].run \in 1..Len(runs) /\ job[i].run # job[j].run
    BY <1>1, <2>1, <2>2, Types DEF LocalsOK, RunInv, Finishes
  <2> QED BY <2>1, <2>2, <2>3 DEF Finishes
<1>2. ASSUME NEW i \in 1..Len(promoted) PROVE runs'[promoted[i]] = runs[promoted[i]]
  <2>1. promoted[i] # job[j].run
    BY DEF RunInv, Finishes
  <2> QED BY <2>1 DEF Finishes, TypeInv, PromotedExist
<1>3. ASSUME NEW i \in 1..Len(promoted') PROVE runs'[promoted'[i]].state = "completed"
  <2>1. CASE UNCHANGED promoted
    BY <1>2, <2>1 DEF RunInv
  <2>2. CASE promoted' = Append(promoted, job[j].run) /\ row.state = "completed"
    <3>1. Len(promoted) \in Nat /\ promoted \in Seq(Nat)
      BY Types
    <3>2. CASE i = Len(promoted) + 1
      BY <2>2, <3>1, <3>2 DEF Finishes
    <3>3. CASE i \in 1..Len(promoted)
      BY <1>2, <2>2, <3>1, <3>3 DEF RunInv
    <3> QED BY <2>2, <3>1, <3>2, <3>3
  <2> QED BY <2>1, <2>2
<1> QED BY <1>1, <1>3 DEF RunInv

\* Every step keeps each job's run its own, and promoted runs complete.
LEMMA NextRuns == TypeInv /\ RunInv /\ [Next]_vars => RunInv'
<1> SUFFICES ASSUME TypeInv, RunInv, [Next]_vars PROVE RunInv'
  OBVIOUS
<1>1. ASSUME NEW j \in Jobs, Job(j) PROVE RunInv'
  <2>0. job[j] \in Locals /\ runs \in Seq(RunRows)
    BY Types
  <2>1. CASE \/ StartLive(j) \/ StartRecorded(j) \/ Lock(j) \/ ReadLastCompleted(j) \/ Receive(j)
             \/ FetchFails(j) \/ ReadCurrentRecords(j) \/ PromotionFails(j) \/ Crash(j)
    BY <2>1, QuietSteps, QuietRuns
  <2>2. CASE RecordTransportFailure(j)
    BY <2>2, AddingSteps, AddedRuns DEF RecordTransportFailure, AtRun
  <2>3. CASE StartRevision(j)
    <3>1. /\ job'[j].run = Len(runs) + 1
          /\ job'[j].mode = job[j].mode
      BY <2>0, <2>3, AddingSteps DEF Locals
    <3>2. UNCHANGED promoted
      BY <2>3 DEF StartRevision
    <3> QED BY <2>3, <3>1, <3>2, AddingSteps, AddedRuns DEF Run
  <2>4. CASE Reject(j)
    BY <2>4, FinishingSteps, OwnRuns DEF Reject
  <2>5. CASE FinishFailed(j)
    BY <2>5, FinishingSteps, OwnRuns DEF FinishFailed
  <2>6. CASE Promote(j)
    <3>1. Finishes(j, Whole(j)) /\ promoted' = Append(promoted, job[j].run)
      BY <2>6, FinishingSteps DEF Promote
    <3>2. Whole(j).state = "completed"
      <4>1. runs[job[j].run] \in RunRows
        BY <3>1, Types DEF Finishes
      <4> QED BY <4>1 DEF Whole, RunRows
    <3> QED BY <3>1, <3>2, OwnRuns
  <2> QED BY <1>1, <2>1, <2>2, <2>3, <2>4, <2>5, <2>6 DEF Job, Step
<1>2. CASE Environment
  BY <1>2, EnvironmentSteps DEF RunInv
<1>3. CASE UNCHANGED vars
  BY <1>3 DEF RunInv, vars
<1> QED BY <1>1, <1>2, <1>3 DEF Next

\* Each job's run is always its own, and promoted runs are complete.
LEMMA RunInvariant == Spec => [](TypeInv /\ RunInv)
<1>1. Init => RunInv
  BY DEF Init, RunInv, AtRun
<1>2. (TypeInv /\ RunInv) /\ [Next]_vars => (TypeInv /\ RunInv)'
  BY NextType, NextRuns
<1> QED BY <1>1, <1>2, InitType, PTL DEF Spec

-----------------------------------------------------------------------------
(* The source implements the history the evidence queue reads *)

HistoryRows == [observed : Nat, records : RecordSets]
RevisionsSeen == [i \in 1..Len(promoted) |-> Revision(i)]

\* The revisions promoted so far are a sequence of whole revisions.
LEMMA RevisionsType ==
  ASSUME TypeInv
  PROVE  /\ RevisionsSeen \in Seq(HistoryRows)
         /\ Len(RevisionsSeen) = Len(promoted)
         /\ \A i \in 1..Len(promoted) : RevisionsSeen[i] = Revision(i)
<1>1. \A i \in 1..Len(promoted) : Revision(i) \in HistoryRows
  <2>1. \A i \in 1..Len(promoted) : runs[promoted[i]] \in RunRows
    BY Types DEF TypeInv, PromotedExist
  <2> QED BY <2>1 DEF Revision, HistoryRows, RunRows
<1>2. Len(promoted) \in Nat
  BY Types
<1>3. RevisionsSeen \in [1..Len(promoted) -> HistoryRows]
  BY <1>1 DEF RevisionsSeen
<1> QED BY <1>2, <1>3 DEF RevisionsSeen

\* A step that promotes nothing shows the queue the same revisions.
LEMMA HistoryKept ==
  ASSUME TypeInv, TypeInv', UNCHANGED promoted,
         \A i \in 1..Len(promoted) : runs'[promoted[i]] = runs[promoted[i]]
  PROVE  UNCHANGED RevisionsSeen
<1>1. \A i \in 1..Len(promoted) : Revision(i)' = Revision(i)
  BY DEF Revision
<1> QED BY <1>1 DEF RevisionsSeen

\* Finishing a run leaves the rows of promoted runs alone.
LEMMA PromotedRowsKept ==
  ASSUME TypeInv, RunInv, NEW j \in Jobs, NEW row, Finishes(j, row)
  PROVE  \A i \in 1..Len(promoted) : runs'[promoted[i]] = runs[promoted[i]]
<1> SUFFICES ASSUME NEW i \in 1..Len(promoted) PROVE runs'[promoted[i]] = runs[promoted[i]]
  OBVIOUS
<1>1. promoted[i] # job[j].run
  BY DEF RunInv, Finishes
<1> QED BY <1>1 DEF Finishes, TypeInv, PromotedExist

\* A promotion appends one whole revision.
LEMMA HistoryGrows ==
  ASSUME TypeInv, TypeInv', RunInv, NEW j \in Jobs, Promote(j)
  PROVE  /\ Len(RevisionsSeen') = Len(RevisionsSeen) + 1
         /\ RevisionsSeen' = Append(RevisionsSeen, RevisionsSeen'[Len(RevisionsSeen) + 1])
         /\ RevisionsSeen'[Len(RevisionsSeen) + 1] \in HistoryRows
<1>1. promoted' = Append(promoted, job[j].run) /\ promoted \in Seq(Nat) /\ Len(promoted) \in Nat
  BY Types DEF Promote
<1>2. Len(promoted') = Len(promoted) + 1
  BY <1>1
<1>3. \A i \in 1..Len(promoted) : promoted'[i] = promoted[i]
  BY <1>1
<1>4. /\ RevisionsSeen' \in Seq(HistoryRows)
      /\ Len(RevisionsSeen') = Len(promoted')
      /\ \A i \in 1..Len(promoted') : RevisionsSeen'[i] = Revision(i)'
  <2>1. (/\ RevisionsSeen \in Seq(HistoryRows)
         /\ Len(RevisionsSeen) = Len(promoted)
         /\ \A i \in 1..Len(promoted) : RevisionsSeen[i] = Revision(i))'
    BY RevisionsType, PTL
  <2> QED BY <2>1 DEF HistoryRows
<1>5. \A i \in 1..Len(promoted) : Revision(i)' = Revision(i)
  BY <1>3, FinishingSteps, PromotedRowsKept DEF Revision
<1> DEFINE new == RevisionsSeen'[Len(promoted) + 1]
<1>6. new \in HistoryRows
  BY <1>1, <1>2, <1>4, ElementOfSeq
<1>7. RevisionsSeen' = Append(RevisionsSeen, new)
  <2>1. Append(RevisionsSeen, new) \in Seq(HistoryRows)
    BY <1>6, RevisionsType
  <2>2. Len(Append(RevisionsSeen, new)) = Len(RevisionsSeen')
    BY <1>2, <1>4, <1>6, RevisionsType
  <2>3. \A i \in 1..Len(RevisionsSeen') : RevisionsSeen'[i] = Append(RevisionsSeen, new)[i]
    <3> SUFFICES ASSUME NEW i \in 1..Len(RevisionsSeen')
                 PROVE  RevisionsSeen'[i] = Append(RevisionsSeen, new)[i]
      OBVIOUS
    <3>1. CASE i = Len(promoted) + 1
      BY <1>1, <3>1, RevisionsType
    <3>2. CASE i \in 1..Len(promoted)
      <4>1. Append(RevisionsSeen, new)[i] = RevisionsSeen[i]
        BY <3>2, RevisionsType
      <4> HIDE DEF new
      <4> QED BY <1>1, <1>2, <1>4, <1>5, <3>2, <4>1, RevisionsType
    <3>3. i = Len(promoted) + 1 \/ i \in 1..Len(promoted)
      BY <1>1, <1>2, <1>4
    <3> QED BY <3>1, <3>2, <3>3
  <2> HIDE DEF new
  <2> QED BY <1>4, <2>1, <2>2, <2>3, SeqEqual
<1> QED BY <1>2, <1>4, <1>6, <1>7, RevisionsType

\* Every step is a step of SourceHistory or invisible to it.
LEMMA HistoryStep ==
  TypeInv /\ TypeInv' /\ RunInv /\ [Next]_vars => [History!Next]_(History!vars)
<1> SUFFICES ASSUME TypeInv, TypeInv', RunInv, [Next]_vars
             PROVE  [History!Next]_(History!vars)
  OBVIOUS
<1> USE DEF RevisionsSeen
<1>0. ASSUME UNCHANGED promoted,
             \A i \in 1..Len(promoted) : runs'[promoted[i]] = runs[promoted[i]],
             isPaused' \in {isPaused, TRUE, FALSE}
      PROVE  [History!Next]_(History!vars)
  <2>1. UNCHANGED RevisionsSeen
    BY <1>0, HistoryKept
  <2>2. isPaused \in BOOLEAN
    BY DEF TypeInv, TypeOK
  <2>3. CASE isPaused' = isPaused
    BY <2>1, <2>3 DEF History!vars
  <2>4. CASE isPaused' = TRUE
    BY <2>1, <2>4 DEF History!Next, History!Pause
  <2>5. CASE isPaused' = FALSE
    BY <2>1, <2>5 DEF History!Next, History!Resume
  <2> QED BY <1>0, <2>3, <2>4, <2>5
<1>1. ASSUME NEW j \in Jobs, Job(j) PROVE [History!Next]_(History!vars)
  <2>1. CASE \/ StartLive(j) \/ StartRecorded(j) \/ Lock(j) \/ ReadLastCompleted(j) \/ Receive(j)
             \/ FetchFails(j) \/ ReadCurrentRecords(j) \/ PromotionFails(j) \/ Crash(j)
    <3>1. Quiet(j)
      BY <2>1, QuietSteps
    <3>2. UNCHANGED isPaused
      BY <2>1 DEF StartLive, StartRecorded, Lock, ReadLastCompleted, Receive, FetchFails,
                  ReadCurrentRecords, PromotionFails, Crash, flags
    <3> QED BY <1>0, <3>1, <3>2 DEF Quiet, tables
  <2>2. CASE RecordTransportFailure(j) \/ StartRevision(j)
    <3>1. \A i \in 1..Len(runs) : runs'[i] = runs[i]
      BY <2>2, AddingSteps DEF Adds
    <3>2. UNCHANGED <<promoted, isPaused>>
      BY <2>2 DEF RecordTransportFailure, StartRevision, flags
    <3> QED BY <1>0, <3>1, <3>2 DEF TypeInv, PromotedExist
  <2>3. CASE Reject(j)
    <3>1. UNCHANGED promoted /\ isPaused' \in {isPaused, TRUE, FALSE}
      BY <2>3 DEF Reject, PauseAfter
    <3> QED BY <1>0, <2>3, <3>1, FinishingSteps, PromotedRowsKept
  <2>4. CASE FinishFailed(j)
    <3>1. UNCHANGED <<promoted, isPaused>>
      BY <2>4 DEF FinishFailed
    <3> QED BY <1>0, <2>4, <3>1, FinishingSteps, PromotedRowsKept
  <2>5. CASE Promote(j)
    <3>1. UNCHANGED isPaused
      BY <2>5 DEF Promote
    <3> QED BY <2>5, <3>1, HistoryGrows DEF History!Next, History!Promote, HistoryRows
  <2> QED BY <1>1, <2>1, <2>2, <2>3, <2>4, <2>5 DEF Job, Step
<1>2. CASE Environment
  <2>1. UNCHANGED <<runs, promoted>>
    BY <1>2, EnvironmentSteps
  <2>2. isPaused' \in {isPaused, TRUE, FALSE}
    BY <1>2 DEF Environment, Publish, Withdraw, ResolvePause, Tick, flags
  <2> QED BY <1>0, <2>1, <2>2
<1>3. CASE UNCHANGED vars
  BY <1>0, <1>3 DEF vars
<1> QED BY <1>1, <1>2, <1>3 DEF Next

\* Whatever jobs run, overlap, fail and crash, the evidence queue sees whole revisions
\* appear one after the other and never change, and pauses switched on and off.
THEOREM HistoryIsImplemented == Spec => ImplementsHistory
<1>1. Init => History!Init
  <2> SUFFICES ASSUME Init PROVE History!Init
    OBVIOUS
  <2>1. Len(promoted) = 0
    BY DEF Init
  <2>2. RevisionsSeen \in Seq(HistoryRows) /\ Len(RevisionsSeen) = 0
    BY <2>1, InitType, RevisionsType
  <2>3. RevisionsSeen = <<>>
    BY <2>2, EmptySeq
  <2> QED BY <2>3 DEF Init, History!Init, RevisionsSeen
<1> QED
  BY <1>1, RunInvariant, HistoryStep, PTL DEF Spec, ImplementsHistory, History!Spec

-----------------------------------------------------------------------------
(* Completed revisions are immutable, and tombstones stay true *)

\* The step of a job is quiet, adds a run, or finishes its own.
LEMMA JobSteps ==
  ASSUME TypeInv, NEW j \in Jobs, Job(j)
  PROVE  \/ Quiet(j)
         \/ \E row : Adds(j, row)
         \/ \E row : Finishes(j, row)
  BY QuietSteps, AddingSteps, FinishingSteps DEF Job, Step

\* No step touches a run that was completed, rejected or marked failed.
LEMMA FinalRowsKept ==
  ASSUME TypeInv, RunInv, [Next]_vars, NEW i \in 1..Len(runs), runs[i].state # "pending"
  PROVE  i \in 1..Len(runs') /\ runs'[i] = runs[i]
<1>0. Len(runs) \in Nat
  BY Types
<1>1. ASSUME NEW j \in Jobs, Job(j) PROVE i \in 1..Len(runs') /\ runs'[i] = runs[i]
  <2>1. CASE Quiet(j)
    BY <2>1 DEF Quiet, tables
  <2>2. ASSUME NEW row, Adds(j, row) PROVE i \in 1..Len(runs') /\ runs'[i] = runs[i]
    BY <1>0, <2>2 DEF Adds
  <2>3. ASSUME NEW row, Finishes(j, row) PROVE i \in 1..Len(runs') /\ runs'[i] = runs[i]
    <3>1. i # job[j].run
      BY <2>3 DEF RunInv, Finishes
    <3> QED BY <2>3, <3>1 DEF Finishes
  <2> QED BY <1>1, <2>1, <2>2, <2>3, JobSteps
<1>2. CASE Environment
  BY <1>2, EnvironmentSteps
<1>3. CASE UNCHANGED vars
  BY <1>3 DEF vars
<1> QED BY <1>1, <1>2, <1>3 DEF Next

\* In particular a completed one.
LEMMA CompletedRowsKept ==
  ASSUME TypeInv, RunInv, [Next]_vars, NEW i \in 1..Len(runs), runs[i].state = "completed"
  PROVE  i \in 1..Len(runs') /\ runs'[i] = runs[i]
  BY FinalRowsKept

\* A run has one outcome: once it is completed, rejected or failed, neither the job that
\* made it nor any other changes its row or its records (import_cpsc_refresh_response,
\* cpsc_source.py:664-727).
RunsAreFinal ==
  [][\A i \in 1..Len(runs) :
        runs[i].state # "pending" => i \in 1..Len(runs') /\ runs'[i] = runs[i]]_vars

\* However jobs overlap, crash and fail after a commit, what a run came to stays.
THEOREM OutcomesStay == Spec => RunsAreFinal
<1>1. TypeInv /\ RunInv /\ [Next]_vars
       => [\A i \in 1..Len(runs) :
             runs[i].state # "pending" => i \in 1..Len(runs') /\ runs'[i] = runs[i]]_vars
  BY FinalRowsKept
<1> QED BY <1>1, RunInvariant, PTL DEF Spec, RunsAreFinal

\* What a job read is the content of a completed revision, or of none.
BaseOK(j) ==
  \/ job[j].baseRun = 0 /\ job[j].base = NoRecords
  \/ /\ job[j].baseRun \in 1..Len(runs)
     /\ runs[job[j].baseRun].state = "completed"
     /\ runs[job[j].baseRun].records = job[j].base

TombstoneOK(t) ==
  /\ t.run \in 1..Len(runs) /\ t.lastSeen \in 1..Len(runs)
  /\ runs[t.run].state = "completed" /\ t.recall \notin DOMAIN runs[t.run].records
  /\ runs[t.lastSeen].state = "completed" /\ t.recall \in DOMAIN runs[t.lastSeen].records

TombInv ==
  /\ \A j \in Jobs : pc[j] = "promote" /\ job[j].mode # "fixture" => BaseOK(j)
  /\ \A t \in tombstones : TombstoneOK(t)

\* Facts about completed runs survive every step.
LEMMA FactsKept ==
  ASSUME TypeInv, RunInv, [Next]_vars
  PROVE  /\ \A j \in Jobs : BaseOK(j) /\ job'[j] = job[j] => BaseOK(j)'
         /\ \A t : TombstoneOK(t) => TombstoneOK(t)'
  BY CompletedRowsKept DEF BaseOK, TombstoneOK

\* The current revision is complete.
LEMMA CurrentCompleted ==
  ASSUME TypeInv, RunInv, Current # 0
  PROVE  Current \in 1..Len(runs) /\ runs[Current].state = "completed"
<1>1. promoted # <<>>
  BY DEF Current
<1>2. Len(promoted) \in 1..Len(promoted)
  BY <1>1, Types, EmptySeq
<1> QED BY <1>1, <1>2 DEF Current, RunInv, TypeInv, PromotedExist

\* Only ReadCurrentRecords brings a live job to its promotion, with a fresh reading.
LEMMA PromoteEntered ==
  ASSUME TypeInv, NEW j \in Jobs, Job(j), pc'[j] = "promote", job'[j].mode # "fixture"
  PROVE  /\ ReadCurrentRecords(j)
         /\ UNCHANGED <<tables, lock>>
         /\ job'[j].base = CurrentRecords /\ job'[j].baseRun = Current
<1>0. job \in [Jobs -> Locals] /\ pc \in [Jobs -> Labels] /\ job[j] \in Locals
  BY Types
<1>1. \/ RecordTransportFailure(j) \/ Reject(j) \/ FinishFailed(j) \/ Promote(j) \/ Crash(j)
      => pc'[j] = "idle"
  BY EndKeepsOthers DEF RecordTransportFailure, Reject, FinishFailed, Promote, Crash
<1>2. \/ StartLive(j) \/ StartRecorded(j) \/ Lock(j) \/ ReadLastCompleted(j) \/ Receive(j)
      \/ PromotionFails(j)
      => pc'[j] # "promote"
  BY <1>0 DEF StartLive, StartRecorded, Lock, ReadLastCompleted, Receive, PromotionFails, Continue
<1>3. FetchFails(j) => pc'[j] # "promote"
  BY <1>0 DEF FetchFails, Continue
<1>4. ~StartRevision(j)
  <2> SUFFICES ASSUME StartRevision(j) PROVE FALSE
    OBVIOUS
  <2>1. job'[j].mode = job[j].mode
    BY <1>0, AddingSteps DEF Locals
  <2>2. pc'[j] # "promote"
    BY <1>0, <2>1 DEF StartRevision, Continue
  <2> QED BY <2>2
<1>5. ReadCurrentRecords(j)
  BY <1>1, <1>2, <1>3, <1>4 DEF Job, Step
<1>6. job' = [job EXCEPT ![j] = [job[j] EXCEPT !.base = CurrentRecords, !.baseRun = Current]]
  BY <1>5, <1>0 DEF ReadCurrentRecords
<1> QED BY <1>0, <1>5, <1>6 DEF ReadCurrentRecords, Locals

\* Every step keeps tombstones true and readings faithful.
LEMMA NextTombstones == TypeInv /\ RunInv /\ TombInv /\ [Next]_vars => TombInv'
<1> SUFFICES ASSUME TypeInv, RunInv, TombInv, [Next]_vars PROVE TombInv'
  OBVIOUS
<1>1. ASSUME NEW j \in Jobs, Job(j) PROVE TombInv'
  <2>1. OthersKept(j)
    BY <1>1, JobSteps DEF Quiet, Adds, Finishes
  <2>2. ASSUME NEW i \in Jobs, pc'[i] = "promote", job'[i].mode # "fixture" PROVE BaseOK(i)'
    <3>1. CASE i # j
      BY <2>1, <2>2, <3>1, FactsKept DEF TombInv, OthersKept
    <3>2. CASE i = j
      <4>1. job'[j].base = CurrentRecords /\ job'[j].baseRun = Current /\ UNCHANGED tables
        BY <1>1, <2>2, <3>2, PromoteEntered
      <4> QED BY <3>2, <4>1, CurrentCompleted DEF BaseOK, CurrentRecords, tables
    <3> QED BY <3>1, <3>2
  <2>3. ASSUME NEW t \in tombstones' PROVE TombstoneOK(t)'
    <3>1. CASE t \in tombstones
      BY <3>1, FactsKept DEF TombInv
    <3>2. CASE t \notin tombstones
      <4>1. Promote(j)
        BY <1>1, <3>2, QuietSteps DEF Job, Step, Quiet, tables, RecordTransportFailure,
              StartRevision, Reject, FinishFailed
      <4>2. t \in NewTombstones(j) /\ Finishes(j, Whole(j)) /\ pc[j] = "promote"
        BY <3>2, <4>1, FinishingSteps DEF Promote
      <4>3. PICK r \in DOMAIN job[j].base \ DOMAIN job[j].response :
              t = [run |-> job[j].run, recall |-> r, lastSeen |-> job[j].baseRun]
        BY <4>2 DEF NewTombstones
      <4>4. job[j].mode = "full"
        BY <4>2 DEF NewTombstones
      <4>5. BaseOK(j) /\ job[j].base # NoRecords
        <5>1. DOMAIN NoRecords = {}
          BY DEF NoRecords
        <5> QED BY <4>2, <4>3, <4>4, <5>1 DEF TombInv
      <4>6. job[j].baseRun # job[j].run /\ job[j].baseRun \in 1..Len(runs)
        BY <4>2, <4>5 DEF BaseOK, RunInv, Finishes
      <4>7. runs[job[j].run] \in RunRows
        BY <4>2, Types DEF Finishes
      <4>8. runs'[job[j].run].state = "completed" /\ runs'[job[j].run].records = job[j].response
        BY <4>2, <4>4, <4>7 DEF Finishes, Whole, RunRows, NewRecords
      <4>9. runs'[job[j].baseRun].state = "completed" /\ runs'[job[j].baseRun].records = job[j].base
        BY <4>2, <4>5, <4>6 DEF BaseOK, Finishes
      <4> QED BY <4>2, <4>3, <4>6, <4>8, <4>9 DEF TombstoneOK, Finishes
    <3> QED BY <3>1, <3>2
  <2> QED BY <2>2, <2>3 DEF TombInv
<1>2. CASE Environment
  BY <1>2, EnvironmentSteps DEF TombInv, BaseOK, TombstoneOK
<1>3. CASE UNCHANGED vars
  BY <1>3 DEF TombInv, BaseOK, TombstoneOK, vars
<1> QED BY <1>1, <1>2, <1>3 DEF Next

\* A tombstone stays true, also when recorded jobs run without the lock: the recall is
\* not in the revision that buried it, and was in the one it was last seen in.
THEOREM TombstonesStayTrue == Spec => []TombstonesAreTrue
<1>1. Init => TombInv
  BY DEF Init, TombInv
<1>2. TombInv => TombstonesAreTrue
  BY DEF TombInv, TombstoneOK, TombstonesAreTrue
<1>3. (TypeInv /\ RunInv /\ TombInv) /\ [Next]_vars => (TypeInv /\ RunInv /\ TombInv)'
  BY NextType, NextRuns, NextTombstones
<1>4. Init => TypeInv /\ RunInv
  BY InitType DEF Init, RunInv, AtRun
<1> QED BY <1>1, <1>2, <1>3, <1>4, PTL DEF Spec

-----------------------------------------------------------------------------
(* Rejected refresh responses pause the service *)

\* A step rejects a run only as Reject of the job that owns it.
LEMMA RejectedBy ==
  ASSUME TypeInv, RunInv, [Next]_vars,
         NEW i \in 1..Len(runs), runs[i].state = "pending", runs'[i].state = "rejected"
  PROVE  \E j \in Jobs : Reject(j) /\ i = job[j].run
<1>0. runs[i] \in RunRows /\ Len(runs) \in Nat
  BY Types
<1>1. PICK j \in Jobs : Job(j)
  BY EnvironmentSteps DEF Next, vars
<1>2. ~Quiet(j)
  BY DEF Quiet, tables
<1>3. \A row : ~Adds(j, row)
  BY DEF Adds
<1>4. ASSUME NEW row, Finishes(j, row), row.state # "rejected" PROVE FALSE
  BY <1>4 DEF Finishes
<1>5. ~Promote(j) /\ ~FinishFailed(j)
  <2> SUFFICES ASSUME Promote(j) \/ FinishFailed(j) PROVE FALSE
    OBVIOUS
  <2>1. runs[job[j].run] \in RunRows
    BY FinishingSteps, Types DEF Finishes
  <2>2. Whole(j).state = "completed" /\ Failed(j, "failed").state = "failed"
    BY <2>1 DEF Whole, Failed, RunRows
  <2> QED BY <1>4, <2>2, FinishingSteps
<1>6. Reject(j)
  BY <1>1, <1>2, <1>3, <1>5, QuietSteps, AddingSteps DEF Job, Step
<1>7. i = job[j].run
  BY <1>6, FinishingSteps DEF Finishes
<1> QED BY <1>6, <1>7

\* Each refused response of a refresh pauses the service in the step that rejects its
\* run, also after a founder resumed it.
THEOREM RejectedMeansPaused == Spec => RejectionPauses
<1> DEFINE Pauses == \A i \in 1..Len(runs) :
             /\ runs[i].mode # "fixture"
             /\ runs[i].state = "pending"
             /\ runs'[i].state = "rejected"
             => isPaused'
<1>1. TypeInv /\ RunInv /\ [Next]_vars => [Pauses]_vars
  <2> SUFFICES ASSUME TypeInv, RunInv, [Next]_vars, NEW i \in 1..Len(runs),
                      runs[i].mode # "fixture", runs[i].state = "pending",
                      runs'[i].state = "rejected"
               PROVE  isPaused'
    OBVIOUS
  <2>1. PICK j \in Jobs : Reject(j) /\ i = job[j].run
    BY RejectedBy
  <2>2. job[j].mode # "fixture"
    BY <2>1 DEF Reject, RunInv, AtRun
  <2> QED BY <2>1, <2>2 DEF Reject, PauseAfter
<1> QED BY <1>1, RunInvariant, PTL DEF Spec, RejectionPauses

-----------------------------------------------------------------------------
(* Under the session lock live refreshes lose nothing *)

Fetching == {"last", "fetch", "transport"}

\* The lock covers a live refresh from its first reading to its end; a run without the
\* lock shows as one without retrieval attempts; and what the holder read is current as
\* long as only live refreshes have run.
LockOK(j) ==
  /\ lock = j => pc[j] \in Fetching \cup AtRun \cup {"start"} /\ job[j].mode # "fixture"
  /\ pc[j] = "lock" => job[j].mode # "fixture"
  /\ pc[j] \in Fetching => lock = j
  /\ pc[j] \in AtRun /\ lock # j => runs[job[j].run].attempts = 0
  /\ pc[j] = "promote" /\ lock = j /\ OnlyLiveRuns =>
       job[j].baseRun = Current /\ job[j].base = CurrentRecords

LockInv == \A j \in Jobs : LockOK(j)

\* A job neither takes nor releases the lock of another.
LEMMA LockKept ==
  ASSUME TypeInv, NEW j \in Jobs, Job(j), NEW i \in Jobs, i # j
  PROVE  lock' = i <=> lock = i
<1>1. i # None
  BY JobsAssumption
<1>2. End(j) => (lock' = i <=> lock = i)
  BY <1>1 DEF End, Unlocked
<1>3. Lock(j) => (lock' = i <=> lock = i)
  BY <1>1 DEF Lock, LockFree
<1> QED
  BY <1>2, <1>3 DEF Job, Step, StartLive, StartRecorded, ReadLastCompleted, Receive, FetchFails,
     RecordTransportFailure, StartRevision, Reject, ReadCurrentRecords, Promote, PromotionFails,
     FinishFailed, Crash

\* No step forgets a run or how it was retrieved.
LEMMA AttemptsKept ==
  ASSUME TypeInv, NEW j \in Jobs, Job(j), NEW k \in 1..Len(runs)
  PROVE  k \in 1..Len(runs') /\ runs'[k].attempts = runs[k].attempts
<1>0. Len(runs) \in Nat /\ runs[k] \in RunRows
  BY Types
<1>1. CASE Quiet(j)
  BY <1>1 DEF Quiet, tables
<1>2. ASSUME NEW row, Adds(j, row) PROVE k \in 1..Len(runs') /\ runs'[k].attempts = runs[k].attempts
  BY <1>0, <1>2 DEF Adds
<1>3. Failed(j, "rejected").attempts = runs[job[j].run].attempts
  BY DEF Failed
<1>4. Failed(j, "failed").attempts = runs[job[j].run].attempts
  BY DEF Failed
<1>5. Whole(j).attempts = runs[job[j].run].attempts
  BY DEF Whole
<1>6. CASE \/ Finishes(j, Failed(j, "rejected"))
           \/ Finishes(j, Failed(j, "failed"))
           \/ Finishes(j, Whole(j))
  BY <1>0, <1>3, <1>4, <1>5, <1>6 DEF Finishes
<1> QED BY <1>1, <1>2, <1>6, QuietSteps, AddingSteps, FinishingSteps DEF Job, Step

\* If only live runs are left after a step, only those were there before.
LEMMA LiveBefore ==
  ASSUME TypeInv, NEW j \in Jobs, Job(j), OnlyLiveRuns'
  PROVE  OnlyLiveRuns
  BY AttemptsKept DEF OnlyLiveRuns

\* A promotion without the lock shows in the runs.
LEMMA LivePromotion ==
  ASSUME TypeInv, RunInv, LockInv, NEW j \in Jobs, Promote(j), OnlyLiveRuns'
  PROVE  /\ lock = j
         /\ job[j].baseRun = Current /\ job[j].base = CurrentRecords
         /\ job[j].mode # "fixture"
<1>1. pc[j] = "promote" /\ pc[j] \in AtRun /\ job[j].run \in 1..Len(runs)
  BY FinishingSteps DEF Promote, AtRun, Finishes
<1>2. OnlyLiveRuns
  BY LiveBefore DEF Job, Step
<1>3. lock = j
  BY <1>1, <1>2 DEF LockInv, LockOK, OnlyLiveRuns
<1> QED BY <1>1, <1>2, <1>3 DEF LockInv, LockOK

\* Only a promotion, and only of the lock's holder, changes the projection.
LEMMA ProjectionKept ==
  ASSUME TypeInv, RunInv, [Next]_vars, \A j \in Jobs : ~Promote(j)
  PROVE  UNCHANGED promoted /\ Current' = Current /\ CurrentRecords' = CurrentRecords
<1>1. UNCHANGED promoted
  <2>1. ASSUME NEW j \in Jobs, Job(j) PROVE UNCHANGED promoted
    BY <2>1, QuietSteps DEF Job, Step, Quiet, tables, RecordTransportFailure, StartRevision,
       Reject, FinishFailed
  <2> QED BY <2>1, EnvironmentSteps DEF Next, vars
<1>2. Current' = Current
  BY <1>1 DEF Current
<1>3. Current # 0 => runs'[Current] = runs[Current]
  BY CurrentCompleted, CompletedRowsKept
<1> QED BY <1>1, <1>2, <1>3 DEF CurrentRecords

\* A job's step keeps what the lock guarantees the other jobs ...
LEMMA OthersLock ==
  ASSUME TypeInv, RunInv, LockInv, NEW j \in Jobs, Job(j), NEW i \in Jobs, i # j
  PROVE  LockOK(i)'
<1>1. pc'[i] = pc[i] /\ job'[i] = job[i]
  BY JobSteps DEF Quiet, Adds, Finishes, OthersKept
<1>2. lock' = i <=> lock = i
  BY LockKept
<1>3. pc[i] \in AtRun => runs'[job[i].run].attempts = runs[job[i].run].attempts
  BY AttemptsKept, Types DEF LocalsOK
<1>4. ASSUME pc[i] = "promote", lock = i, OnlyLiveRuns'
      PROVE  job[i].baseRun = Current' /\ job[i].base = CurrentRecords'
  <2>1. \A h \in Jobs : ~Promote(h)
    <3>1. ~Promote(j)
      BY <1>4, LivePromotion
    <3>2. ASSUME NEW h \in Jobs, Promote(h), h # j PROVE FALSE
      <4>1. pc'[h] = pc[h]
        BY <3>2, JobSteps DEF Quiet, Adds, Finishes, OthersKept
      <4>2. pc'[h] = "idle" /\ pc[h] = "promote"
        BY <3>2, FinishingSteps DEF Promote, Finishes
      <4> QED BY <4>1, <4>2
    <3> QED BY <3>1, <3>2
  <2>2. OnlyLiveRuns
    BY <1>4, LiveBefore
  <2>3. [Next]_vars
    BY DEF Next
  <2> QED BY <1>4, <2>1, <2>2, <2>3, ProjectionKept DEF LockInv, LockOK
<1> QED BY <1>1, <1>2, <1>3, <1>4 DEF LockInv, LockOK

\* ... and what it guarantees the job itself.
LEMMA OwnLock ==
  ASSUME TypeInv, RunInv, LockInv, NEW j \in Jobs, Job(j)
  PROVE  LockOK(j)'
<1>0. /\ job \in [Jobs -> Locals] /\ pc \in [Jobs -> Labels] /\ job[j] \in Locals
      /\ j # None /\ LockOK(j)
  BY Types, JobsAssumption DEF LockInv
<1> USE DEF Fetching, AtRun
<1>1. ASSUME End(j) PROVE LockOK(j)'
  BY <1>0, <1>1, EndKeepsOthers DEF LockOK, End, Unlocked
<1>2. CASE StartLive(j)
  <2>1. PICK mode \in {"daily", "full"}, observed \in 0..now :
          job' = [job EXCEPT ![j] = [NoJob EXCEPT !.mode = mode, !.observed = observed]]
    BY <1>2 DEF StartLive
  <2>2. job'[j].mode # "fixture"
    BY <1>0, <2>1 DEF NoJob
  <2>3. pc'[j] = "lock" /\ pc[j] = "idle" /\ lock' = lock
    BY <1>0, <1>2 DEF StartLive, MayStart, Continue
  <2> QED BY <1>0, <2>2, <2>3 DEF LockOK
<1>3. CASE StartRecorded(j)
  <2>1. pc'[j] = "start" /\ pc[j] = "idle" /\ lock' = lock
    BY <1>0, <1>3 DEF StartRecorded, MayStart, Continue
  <2> QED BY <1>0, <2>1 DEF LockOK
<1>4. CASE Lock(j)
  BY <1>0, <1>4 DEF Lock, Continue, LockOK
<1>5. CASE ReadLastCompleted(j)
  <2>1. pc[j] = "last" /\ pc'[j] \in {"transport", "fetch"} /\ lock' = lock
    BY <1>0, <1>5 DEF ReadLastCompleted, Continue
  <2>2. job'[j].mode = job[j].mode
    BY <1>0, <1>5 DEF ReadLastCompleted, Locals
  <2> QED BY <1>0, <2>1, <2>2 DEF LockOK
<1>6. CASE Receive(j)
  <2>1. pc[j] = "fetch" /\ pc'[j] = "start" /\ lock' = lock
    BY <1>0, <1>6 DEF Receive, Continue
  <2>2. job'[j].mode = job[j].mode
    BY <1>0, <1>6 DEF Receive, Locals
  <2> QED BY <1>0, <2>1, <2>2 DEF LockOK
<1>7. CASE FetchFails(j)
  <2>1. pc[j] = "fetch" /\ pc'[j] \in {"fetch", "transport"} /\ lock' = lock
    BY <1>0, <1>7 DEF FetchFails, Continue
  <2>2. job'[j].mode = job[j].mode
    BY <1>0, <1>7 DEF FetchFails, Locals
  <2> QED BY <1>0, <2>1, <2>2 DEF LockOK
<1>8. CASE StartRevision(j)
  <2>1. job'[j].run = Len(runs) + 1 /\ job'[j].mode = job[j].mode
    BY <1>0, <1>8, AddingSteps DEF Locals
  <2>2. lock' = lock /\ pc[j] = "start" /\ pc'[j] \in {"reject", "promote", "base"}
    BY <1>0, <1>8 DEF StartRevision, Continue
  <2>3. runs'[Len(runs) + 1].attempts = IF lock = j THEN 1 ELSE 0
    <3>1. runs'[Len(runs) + 1] = Run(j, "pending", IF lock = j THEN 1 ELSE 0)
      BY <1>8, AddingSteps DEF Adds
    <3> QED BY <3>1 DEF Run
  <2>4. pc'[j] = "promote" => job[j].mode = "fixture"
    BY <1>0, <1>8 DEF StartRevision, Continue
  <2> QED BY <1>0, <2>1, <2>2, <2>3, <2>4 DEF LockOK
<1>9. CASE ReadCurrentRecords(j)
  <2>1. job' = [job EXCEPT ![j] = [job[j] EXCEPT !.base = CurrentRecords, !.baseRun = Current]]
    BY <1>0, <1>9 DEF ReadCurrentRecords
  <2>2. /\ job'[j].run = job[j].run /\ job'[j].mode = job[j].mode
        /\ job'[j].base = CurrentRecords /\ job'[j].baseRun = Current
    BY <1>0, <2>1 DEF Locals
  <2>3. pc[j] = "base" /\ pc'[j] = "promote" /\ UNCHANGED <<lock, tables>>
    BY <1>0, <1>9 DEF ReadCurrentRecords, Continue
  <2>4. Current' = Current /\ CurrentRecords' = CurrentRecords /\ runs' = runs
    BY <2>3 DEF tables, Current, CurrentRecords
  <2> QED BY <1>0, <2>2, <2>3, <2>4 DEF LockOK
<1>10. CASE PromotionFails(j)
  BY <1>0, <1>10 DEF PromotionFails, Continue, LockOK, tables
<1> QED
  BY <1>1, <1>2, <1>3, <1>4, <1>5, <1>6, <1>7, <1>8, <1>9, <1>10
  DEF Job, Step, RecordTransportFailure, Reject, Promote, FinishFailed, Crash

\* Every step keeps what the lock guarantees.
LEMMA NextLock == TypeInv /\ RunInv /\ LockInv /\ [Next]_vars => LockInv'
<1> SUFFICES ASSUME TypeInv, RunInv, LockInv, [Next]_vars PROVE LockInv'
  OBVIOUS
<1>1. ASSUME NEW j \in Jobs, Job(j) PROVE LockInv'
  <2>1. ASSUME NEW i \in Jobs PROVE LockOK(i)'
    BY <1>1, OthersLock, OwnLock
  <2> QED BY <2>1 DEF LockInv
<1>2. CASE Environment
  BY <1>2, EnvironmentSteps DEF LockInv, LockOK, OnlyLiveRuns, Current, CurrentRecords
<1>3. CASE UNCHANGED vars
  BY <1>3 DEF LockInv, LockOK, OnlyLiveRuns, Current, CurrentRecords, vars
<1> QED BY <1>1, <1>2, <1>3 DEF Next

\* A promotion makes the job's run current, with the records its response amounts to.
LEMMA PromotedIsCurrent ==
  ASSUME TypeInv, NEW j \in Jobs, Promote(j)
  PROVE  /\ Current' = job[j].run /\ Current' # 0
         /\ CurrentRecords' = NewRecords(j)
         /\ LastCompletedObservedAt' = runs[job[j].run].observed
<1>1. promoted' = Append(promoted, job[j].run) /\ promoted \in Seq(Nat) /\ Len(promoted) \in Nat
  BY Types DEF Promote
<1>2. /\ job[j].run \in 1..Len(runs) /\ runs'[job[j].run] = Whole(j)
      /\ runs[job[j].run] \in RunRows
  BY FinishingSteps, Types DEF Finishes
<1>3. Current' = job[j].run /\ Current' # 0
  <2>1. Len(promoted') = Len(promoted) + 1 /\ promoted'[Len(promoted) + 1] = job[j].run
    BY <1>1
  <2>2. promoted' # <<>>
    BY <1>1, <2>1
  <2> QED BY <1>2, <2>1, <2>2, Types DEF Current
<1> QED BY <1>2, <1>3 DEF CurrentRecords, LastCompletedObservedAt, Whole, RunRows

\* A promotion under the lock drops a record only with a tombstone for it.
LEMMA PromotionLosesNothing ==
  ASSUME TypeInv, RunInv, LockInv, NEW j \in Jobs, Promote(j), OnlyLiveRuns',
         NEW r \in DOMAIN CurrentRecords \ DOMAIN CurrentRecords'
  PROVE  [run |-> Current', recall |-> r, lastSeen |-> Current] \in tombstones'
<1>1. /\ lock = j /\ job[j].mode # "fixture"
      /\ job[j].baseRun = Current /\ job[j].base = CurrentRecords
  BY LivePromotion
<1>2. Current' = job[j].run /\ CurrentRecords' = NewRecords(j)
  BY PromotedIsCurrent
<1>3. job[j].mode \in {"daily", "full"}
  BY <1>1, Types DEF Promote, LocalsOK, Modes
<1>4. job[j].mode = "full"
  <2>1. job[j].mode = "daily" => DOMAIN CurrentRecords \subseteq DOMAIN NewRecords(j)
    BY <1>1 DEF NewRecords, Overlay
  <2> QED BY <1>2, <1>3, <2>1
<1>5. r \in DOMAIN job[j].base \ DOMAIN job[j].response
  BY <1>1, <1>2, <1>4 DEF NewRecords
<1>6. [run |-> job[j].run, recall |-> r, lastSeen |-> job[j].baseRun] \in NewTombstones(j)
  BY <1>4, <1>5 DEF NewTombstones
<1> QED BY <1>1, <1>2, <1>6 DEF Promote

\* As long as only live refreshes run, a record leaves the projection only through a
\* complete reconciliation that buries it, however refreshes, crashes and retries
\* interleave.
THEOREM LiveRefreshesKeepRecords == Spec => LiveRefreshesLoseNothing
<1>1. Init => TypeInv /\ RunInv /\ LockInv
  <2>1. Init => TypeInv /\ RunInv
    BY InitType DEF Init, RunInv, AtRun
  <2>2. Init => LockInv
    BY JobsAssumption DEF Init, LockInv, LockOK, AtRun, Fetching
  <2> QED BY <2>1, <2>2
<1>2. (TypeInv /\ RunInv /\ LockInv) /\ [Next]_vars => (TypeInv /\ RunInv /\ LockInv)'
  BY NextType, NextRuns, NextLock
<1> DEFINE Kept == OnlyLiveRuns' =>
             \A r \in DOMAIN CurrentRecords \ DOMAIN CurrentRecords' :
               [run |-> Current', recall |-> r, lastSeen |-> Current] \in tombstones'
<1>3. TypeInv /\ RunInv /\ LockInv /\ [Next]_vars => [Kept]_vars
  <2> SUFFICES ASSUME TypeInv, RunInv, LockInv, [Next]_vars, OnlyLiveRuns',
                      NEW r \in DOMAIN CurrentRecords \ DOMAIN CurrentRecords'
               PROVE  [run |-> Current', recall |-> r, lastSeen |-> Current] \in tombstones'
    OBVIOUS
  <2>1. CASE \E j \in Jobs : Promote(j)
    BY <2>1, PromotionLosesNothing
  <2>2. CASE \A j \in Jobs : ~Promote(j)
    BY <2>2, ProjectionKept
  <2> QED BY <2>1, <2>2
<1> QED BY <1>1, <1>2, <1>3, PTL DEF Spec, LiveRefreshesLoseNothing

-----------------------------------------------------------------------------
(* What may be lost without the lock *)

Buried(r) == [run |-> Current', recall |-> r, lastSeen |-> Current] \in tombstones'
Overtaken(j) == /\ pc[j] = "promote" /\ pc'[j] = "idle"
                /\ job[j].run = Current' /\ job[j].baseRun # Current

\* MissingBecomesTombstone fails, and this is all that fails: a record leaves the projection
\* unburied through an import of recorded responses, which replaces the projection, or
\* through a promotion that another one overtook after it had read the projection
\* (_promote_revision, cpsc_source.py:425 and 515).
OnlyOvertakenLose ==
  [][\A r \in DOMAIN CurrentRecords \ DOMAIN CurrentRecords' :
        \/ Buried(r)
        \/ runs[Current'].mode = "fixture"
        \/ \E j \in Jobs : Overtaken(j)]_vars

\* What a promotion read is the projection it replaces, unless it was overtaken.
LEMMA ReadingIsCurrent ==
  ASSUME TypeInv, TombInv, NEW j \in Jobs, Promote(j), job[j].mode # "fixture",
         job[j].baseRun = Current
  PROVE  job[j].base = CurrentRecords
<1>1. BaseOK(j)
  BY DEF TombInv, Promote
<1> QED BY <1>1 DEF BaseOK, CurrentRecords

\* Whatever jobs overlap, with the lock or without, each record that leaves the projection
\* is buried, or was imported over, or lost to an overtaken promotion.
THEOREM LossesAreOvertaken == Spec => OnlyOvertakenLose
<1> DEFINE Kept == \A r \in DOMAIN CurrentRecords \ DOMAIN CurrentRecords' :
                     \/ Buried(r)
                     \/ runs[Current'].mode = "fixture"
                     \/ \E j \in Jobs : Overtaken(j)
<1>1. Init => TypeInv /\ RunInv /\ TombInv
  BY InitType DEF Init, RunInv, TombInv, AtRun
<1>2. (TypeInv /\ RunInv /\ TombInv) /\ [Next]_vars => (TypeInv /\ RunInv /\ TombInv)'
  BY NextType, NextRuns, NextTombstones
<1>3. TypeInv /\ RunInv /\ TombInv /\ [Next]_vars => [Kept]_vars
  <2> SUFFICES ASSUME TypeInv, RunInv, TombInv, [Next]_vars,
                      NEW r \in DOMAIN CurrentRecords \ DOMAIN CurrentRecords'
               PROVE  \/ Buried(r)
                      \/ runs[Current'].mode = "fixture"
                      \/ \E j \in Jobs : Overtaken(j)
    OBVIOUS
  <2>1. PICK j \in Jobs : Promote(j)
    BY ProjectionKept
  <2>2. /\ Current' = job[j].run /\ CurrentRecords' = NewRecords(j)
        /\ pc[j] = "promote" /\ pc'[j] = "idle"
    BY <2>1, PromotedIsCurrent, EndKeepsOthers DEF Promote
  <2>3. runs[Current'].mode = job[j].mode /\ job[j].mode \in Modes
    BY <2>2, Types DEF RunInv, AtRun, LocalsOK
  <2>4. CASE job[j].baseRun # Current
    BY <2>2, <2>4 DEF Overtaken
  <2>5. CASE job[j].baseRun = Current /\ job[j].mode = "full"
    <3>1. r \in DOMAIN job[j].base \ DOMAIN job[j].response
      BY <2>1, <2>2, <2>5, ReadingIsCurrent DEF NewRecords
    <3>2. [run |-> job[j].run, recall |-> r, lastSeen |-> job[j].baseRun] \in NewTombstones(j)
      BY <2>5, <3>1 DEF NewTombstones
    <3> QED BY <2>1, <2>2, <2>5, <3>2 DEF Promote, Buried
  <2>6. CASE job[j].baseRun = Current /\ job[j].mode = "daily"
    <3>1. DOMAIN CurrentRecords \subseteq DOMAIN NewRecords(j)
      BY <2>1, <2>6, ReadingIsCurrent DEF NewRecords, Overlay
    <3> QED BY <2>2, <3>1
  <2> QED BY <2>3, <2>4, <2>5, <2>6 DEF Modes
<1> QED BY <1>1, <1>2, <1>3, PTL DEF Spec, OnlyOvertakenLose

-----------------------------------------------------------------------------
(* The session lock, and the order of a job's steps *)

\* A live refresh holds the session lock as long as it fetches, and whoever holds it is a
\* live refresh that runs: one that ended, failed or was killed holds nothing
\* (_source_refresh_lock, cpsc_source.py:751).
RefreshesTakeTurns ==
  /\ lock # None => pc[lock] \notin {"idle", "lock"} /\ job[lock].mode # "fixture"
  /\ \A i, j \in Jobs : pc[i] \in Fetching /\ pc[j] \in Fetching => i = j

\* At most one live refresh fetches at a time, and no lock outlives its job.
THEOREM TurnsAreTaken == Spec => []RefreshesTakeTurns
<1>1. Init => TypeInv /\ RunInv /\ LockInv
  <2>1. Init => TypeInv /\ RunInv
    BY InitType DEF Init, RunInv, AtRun
  <2>2. Init => LockInv
    BY JobsAssumption DEF Init, LockInv, LockOK, AtRun, Fetching
  <2> QED BY <2>1, <2>2
<1>2. (TypeInv /\ RunInv /\ LockInv) /\ [Next]_vars => (TypeInv /\ RunInv /\ LockInv)'
  BY NextType, NextRuns, NextLock
<1>3. TypeInv /\ LockInv => RefreshesTakeTurns
  <2>1. TypeInv => lock \in Jobs \cup {None}
    BY DEF TypeInv, TypeOK
  <2> QED BY <2>1 DEF LockInv, LockOK, RefreshesTakeTurns, Fetching, AtRun
<1> QED BY <1>1, <1>2, <1>3, PTL DEF Spec

\* The order of a job's steps.
Place == [lock |-> 1, last |-> 2, fetch |-> 3, transport |-> 4, start |-> 4, base |-> 5,
          reject |-> 6, promote |-> 6, failed |-> 7, idle |-> 8]

\* A job that has not ended goes on to a later step, or asks the API again, which it does
\* less than MaxAttempts times (refresh_cpsc_source, cpsc_source.py:811-850, and
\* retrieve_cpsc_response, 117-127).
JobsMoveOn ==
  [][\A j \in Jobs :
        pc[j] # "idle" =>
          \/ pc'[j] = pc[j] /\ job'[j] = job[j]
          \/ Place[pc[j]] < Place[pc'[j]]
          \/ /\ pc[j] = "fetch" /\ pc'[j] = "fetch"
             /\ job'[j].attempts = job[j].attempts + 1
             /\ job'[j].attempts < MaxAttempts]_vars

\* The steps are in order.
LEMMA Places ==
  /\ Place["lock"] < Place["last"] /\ Place["last"] < Place["fetch"]
  /\ Place["last"] < Place["transport"]
  /\ Place["fetch"] < Place["start"] /\ Place["fetch"] < Place["transport"]
  /\ \A s \in {"reject", "base", "promote"} : Place["start"] < Place[s]
  /\ Place["base"] < Place["promote"]
  /\ Place["base"] < Place["failed"] /\ Place["promote"] < Place["failed"]
  /\ \A s \in Labels \ {"idle"} : Place[s] < Place["idle"]
  BY DEF Place, Labels

\* A job's own step brings it nearer to its end.
LEMMA OwnMoves ==
  ASSUME TypeInv, NEW j \in Jobs, Job(j), pc[j] # "idle"
  PROVE  \/ Place[pc[j]] < Place[pc'[j]]
         \/ /\ pc[j] = "fetch" /\ pc'[j] = "fetch"
            /\ job'[j].attempts = job[j].attempts + 1
            /\ job'[j].attempts < MaxAttempts
<1>0. pc \in [Jobs -> Labels] /\ job \in [Jobs -> Locals] /\ job[j] \in Locals
      /\ job[j].attempts \in Nat
  BY Types, AttemptsAssumption DEF Locals
<1>1. ASSUME End(j) PROVE Place[pc[j]] < Place[pc'[j]]
  BY <1>0, <1>1, EndKeepsOthers, Places
<1>2. CASE Lock(j)
  BY <1>0, <1>2, Places DEF Lock, Continue
<1>3. CASE ReadLastCompleted(j)
  <2>1. pc[j] = "last" /\ pc'[j] \in {"transport", "fetch"}
    BY <1>0, <1>3 DEF ReadLastCompleted, Continue
  <2> QED BY <2>1, Places
<1>4. CASE Receive(j)
  BY <1>0, <1>4, Places DEF Receive, Continue
<1>5. CASE FetchFails(j)
  <2>1. CASE pc' = pc
    <3>1. MayRetry(j) /\ job' = [job EXCEPT ![j] = [job[j] EXCEPT !.attempts = job[j].attempts + 1]]
      BY <1>0, <1>5, <2>1 DEF FetchFails, Continue
    <3>2. job'[j].attempts = job[j].attempts + 1
      BY <1>0, <3>1 DEF Locals
    <3>3. job[j].attempts + 1 < MaxAttempts
      BY <1>0, <3>1, AttemptsAssumption DEF MayRetry
    <3> QED BY <1>5, <2>1, <3>2, <3>3 DEF FetchFails
  <2>2. CASE Continue(j, "transport")
    BY <1>0, <1>5, <2>2, Places DEF FetchFails, Continue
  <2> QED BY <1>5, <2>1, <2>2 DEF FetchFails
<1>6. CASE StartRevision(j)
  <2>1. pc[j] = "start" /\ pc'[j] \in {"reject", "promote", "base"}
    BY <1>0, <1>6 DEF StartRevision, Continue
  <2> QED BY <2>1, Places
<1>7. CASE ReadCurrentRecords(j)
  BY <1>0, <1>7, Places DEF ReadCurrentRecords, Continue
<1>8. CASE PromotionFails(j)
  <2>1. pc[j] \in {"base", "promote"} /\ pc'[j] = "failed"
    BY <1>0, <1>8 DEF PromotionFails, Continue
  <2> QED BY <2>1, Places
<1> QED
  BY <1>1, <1>2, <1>3, <1>4, <1>5, <1>6, <1>7, <1>8
  DEF Job, Step, StartLive, StartRecorded, MayStart, RecordTransportFailure, Reject, Promote,
      FinishFailed, Crash

\* Jobs wait for the lock, for the network or for nothing: each step leads on, and the
\* retries are counted.
THEOREM JobsAdvance == Spec => JobsMoveOn
<1> DEFINE Moves == \A j \in Jobs :
        pc[j] # "idle" =>
          \/ pc'[j] = pc[j] /\ job'[j] = job[j]
          \/ Place[pc[j]] < Place[pc'[j]]
          \/ /\ pc[j] = "fetch" /\ pc'[j] = "fetch"
             /\ job'[j].attempts = job[j].attempts + 1
             /\ job'[j].attempts < MaxAttempts
<1>1. TypeInv /\ [Next]_vars => [Moves]_vars
  <2> SUFFICES ASSUME TypeInv, Next, NEW j \in Jobs, pc[j] # "idle",
                      ~(pc'[j] = pc[j] /\ job'[j] = job[j])
               PROVE  \/ Place[pc[j]] < Place[pc'[j]]
                      \/ /\ pc[j] = "fetch" /\ pc'[j] = "fetch"
                         /\ job'[j].attempts = job[j].attempts + 1
                         /\ job'[j].attempts < MaxAttempts
    OBVIOUS
  <2>1. PICK i \in Jobs : Job(i)
    BY EnvironmentSteps DEF Next
  <2>2. i = j
    BY <2>1, JobSteps DEF Quiet, Adds, Finishes, OthersKept
  <2> QED BY <2>1, <2>2, OwnMoves
<1> QED BY <1>1, TypeInvariant, PTL DEF Spec, JobsMoveOn

-----------------------------------------------------------------------------
(* A completed live refresh has caught up with the API *)

\* No job and no run was observed later than now, and a run was when its job was.
ObservedInv ==
  /\ \A j \in Jobs : job[j].observed <= now
  /\ \A i \in 1..Len(runs) : runs[i].observed <= now
  /\ \A j \in Jobs : pc[j] \in AtRun => runs[job[j].run].observed = job[j].observed

\* The records hold whatever the API has published before the date, as it is now.
HoldsUntil(records, date) ==
  \A r \in DOMAIN feed : published[r] < date => r \in DOMAIN records /\ records[r] = feed[r]

Includes(records, others) ==
  \A r \in DOMAIN others : r \in DOMAIN records /\ records[r] = others[r]

\* The projection as job j's response would leave it.
Laid(j) == IF job[j].mode = "daily" THEN Overlay(job[j].response, CurrentRecords)
           ELSE job[j].response

\* A job about to fetch asks from the current revision on.  Once it has an answer, the
\* projection would have all that the API had then, and what the API has published
\* since is within the overlap of the time the job observes.
Catching(j) ==
  /\ pc[j] = "fetch" => /\ job[j].last = LastCompletedObservedAt
                        /\ job[j].mode = "daily" => Current # 0
  /\ pc[j] \in AtRun \cup {"start"} => /\ Includes(Laid(j), job[j].seen)
                                       /\ HoldsUntil(job[j].seen, job[j].observed - Overlap)

\* As long as only live refreshes have run, the projection misses nothing older than the
\* overlap before its observation, and the lock's holder is catching up with the rest.
CatchInv ==
  OnlyLiveRuns =>
    /\ Current # 0 => HoldsUntil(CurrentRecords, LastCompletedObservedAt - Overlap)
    /\ \A j \in Jobs : lock = j => Catching(j)

\* At most one job promotes in a step.
LEMMA OnePromotion ==
  ASSUME TypeInv, NEW j \in Jobs, Job(j), NEW h \in Jobs, Promote(h)
  PROVE  h = j
<1> SUFFICES ASSUME h # j PROVE FALSE
  OBVIOUS
<1>1. pc'[h] = pc[h]
  BY JobSteps DEF Quiet, Adds, Finishes, OthersKept
<1>2. pc'[h] = "idle" /\ pc[h] = "promote"
  BY FinishingSteps DEF Promote, Finishes
<1> QED BY <1>1, <1>2

\* What a job observes it read from the clock when it started.
LEMMA ObservedKept ==
  ASSUME TypeInv, ObservedInv, NEW j \in Jobs, Job(j)
  PROVE  /\ now' = now /\ feed' = feed /\ published' = published
         /\ job'[j].observed \in 0..now
         /\ pc[j] \in AtRun \cup {"start"} /\ pc'[j] \in AtRun =>
              job'[j].observed = job[j].observed
<1>0. /\ now \in Nat /\ job \in [Jobs -> Locals] /\ job[j] \in Locals
      /\ job[j].observed \in 0..now /\ pc \in [Jobs -> Labels]
  BY Types DEF TypeInv, TypeOK, ObservedInv, Locals
<1>1. now' = now /\ feed' = feed /\ published' = published
  BY DEF Job, Step, StartLive, StartRecorded, Lock, ReadLastCompleted, Receive, FetchFails,
     RecordTransportFailure, StartRevision, Reject, ReadCurrentRecords, Promote, PromotionFails,
     FinishFailed, Crash, world
<1>2. CASE End(j)
  BY <1>0, <1>1, <1>2, EndKeepsOthers DEF NoJob, AtRun
<1>3. CASE StartLive(j)
  <2>1. PICK mode \in {"daily", "full"}, observed \in 0..now :
          job' = [job EXCEPT ![j] = [NoJob EXCEPT !.mode = mode, !.observed = observed]]
    BY <1>3 DEF StartLive
  <2>2. job'[j].observed = observed /\ pc'[j] \notin AtRun
    BY <1>0, <1>3, <2>1 DEF NoJob, StartLive, Continue, AtRun
  <2> QED BY <1>1, <2>2
<1>4. CASE StartRecorded(j)
  <2>1. PICK mode \in RecordedModes, observed \in 0..now, response \in RecordedResponses,
             valid \in BOOLEAN :
          job' = [job EXCEPT ![j] = [NoJob EXCEPT !.mode = mode, !.observed = observed,
                    !.response = response, !.valid = valid]]
    BY <1>4 DEF StartRecorded
  <2>2. job'[j].observed = observed /\ pc'[j] \notin AtRun
    BY <1>0, <1>4, <2>1 DEF NoJob, StartRecorded, Continue, AtRun
  <2> QED BY <1>1, <2>2
<1>5. ASSUME \/ Lock(j) \/ ReadLastCompleted(j) \/ Receive(j) \/ FetchFails(j)
             \/ StartRevision(j) \/ ReadCurrentRecords(j) \/ PromotionFails(j)
      PROVE  job'[j].observed = job[j].observed
  <2>1. Lock(j) \/ PromotionFails(j) => job'[j] = job[j]
    BY DEF Lock, PromotionFails
  <2>2. ReadLastCompleted(j) => job'[j] = [job[j] EXCEPT !.last = LastCompletedObservedAt]
    BY <1>0 DEF ReadLastCompleted
  <2>3. Receive(j) => job'[j].observed = job[j].observed
    BY <1>0 DEF Receive, Locals
  <2>4. FetchFails(j) => job'[j] = job[j] \/ job'[j] = [job[j] EXCEPT !.attempts = @ + 1]
    BY <1>0 DEF FetchFails
  <2>5. ReadCurrentRecords(j) =>
          job'[j] = [job[j] EXCEPT !.base = CurrentRecords, !.baseRun = Current]
    BY <1>0 DEF ReadCurrentRecords
  <2> QED BY <1>0, <1>5, <2>1, <2>2, <2>3, <2>4, <2>5, AddingSteps DEF Locals
<1> QED BY <1>0, <1>1, <1>2, <1>3, <1>4, <1>5
    DEF Job, Step, RecordTransportFailure, Reject, Promote, FinishFailed, Crash

\* No step records a time that has not come.
LEMMA NextObserved == TypeInv /\ ObservedInv /\ [Next]_vars => ObservedInv'
<1> SUFFICES ASSUME TypeInv, ObservedInv, [Next]_vars PROVE ObservedInv'
  OBVIOUS
<1>0. /\ now \in Nat /\ Len(runs) \in Nat
      /\ \A j \in Jobs : job[j] \in Locals /\ job[j].observed \in Nat
      /\ \A i \in 1..Len(runs) : runs[i] \in RunRows /\ runs[i].observed \in Nat
  BY Types DEF TypeInv, TypeOK, Locals, RunRows
<1>1. ASSUME NEW j \in Jobs, Job(j) PROVE ObservedInv'
  <2>0. /\ now' = now /\ job'[j].observed <= now
        /\ pc[j] \in AtRun \cup {"start"} /\ pc'[j] \in AtRun =>
             job'[j].observed = job[j].observed
    BY <1>0, <1>1, ObservedKept
  <2>1. OthersKept(j)
    BY <1>1, JobSteps DEF Quiet, Adds, Finishes
  <2>2. ASSUME NEW i \in Jobs PROVE job'[i].observed <= now'
    BY <2>0, <2>1 DEF OthersKept, ObservedInv
  <2>3. ASSUME NEW i \in Jobs, pc[i] \in AtRun PROVE job[i].run \in 1..Len(runs)
    BY <2>3, Types DEF LocalsOK
  <2>4. CASE Quiet(j)
    BY <2>0, <2>2, <2>4 DEF Quiet, OthersKept, ObservedInv, tables
  <2>5. ASSUME NEW row, Adds(j, row), row.observed = job[j].observed,
               pc'[j] \in AtRun => pc[j] = "start" /\ job'[j].run = Len(runs) + 1
        PROVE  ObservedInv'
    <3>1. ASSUME NEW i \in 1..Len(runs') PROVE runs'[i].observed <= now'
      BY <1>0, <2>0, <2>5, <3>1 DEF Adds, ObservedInv
    <3>2. ASSUME NEW i \in Jobs, pc'[i] \in AtRun
          PROVE  runs'[job'[i].run].observed = job'[i].observed
      BY <1>0, <2>0, <2>3, <2>5, <3>2 DEF Adds, OthersKept, ObservedInv
    <3> QED BY <2>2, <3>1, <3>2 DEF ObservedInv
  <2>6. ASSUME NEW row, Finishes(j, row), row.observed = runs[job[j].run].observed
        PROVE  ObservedInv'
    <3>1. ASSUME NEW i \in 1..Len(runs') PROVE runs'[i].observed <= now'
      BY <1>0, <2>0, <2>6 DEF Finishes, ObservedInv
    <3>2. ASSUME NEW i \in Jobs, pc'[i] \in AtRun
          PROVE  runs'[job'[i].run].observed = job'[i].observed
      BY <2>3, <2>6, <3>2 DEF Finishes, OthersKept, ObservedInv, AtRun
    <3> QED BY <2>2, <3>1, <3>2 DEF ObservedInv
  <2>7. CASE RecordTransportFailure(j)
    <3>1. Run(j, "failed", MaxAttempts).observed = job[j].observed /\ pc'[j] \notin AtRun
      BY <2>7, AddingSteps DEF Run, AtRun
    <3>2. Adds(j, Run(j, "failed", MaxAttempts))
      BY <2>7, AddingSteps
    <3> QED BY <2>5, <3>1, <3>2
  <2>8. CASE StartRevision(j)
    <3>1. pc[j] = "start" /\ job'[j] = [job[j] EXCEPT !.run = Len(runs) + 1]
      BY <2>8, AddingSteps DEF StartRevision
    <3>2. job'[j].run = Len(runs) + 1
      BY <1>0, <3>1 DEF Locals
    <3>3. Run(j, "pending", IF lock = j THEN 1 ELSE 0).observed = job[j].observed
      BY DEF Run
    <3> QED BY <2>5, <2>8, <3>1, <3>2, <3>3, AddingSteps
  <2>9. ASSUME Reject(j) \/ FinishFailed(j) \/ Promote(j) PROVE ObservedInv'
    <3>1. /\ Failed(j, "rejected").observed = runs[job[j].run].observed
          /\ Failed(j, "failed").observed = runs[job[j].run].observed
          /\ Whole(j).observed = runs[job[j].run].observed
      BY DEF Failed, Whole
    <3> QED BY <2>6, <2>9, <3>1, FinishingSteps
  <2> QED BY <1>1, <2>4, <2>7, <2>8, <2>9, QuietSteps DEF Job, Step
<1>2. CASE Environment
  <2>1. now' = now \/ now' = now + 1
    BY <1>2 DEF Environment, Publish, Withdraw, ResolvePause, Tick, world
  <2> QED BY <1>0, <1>2, <2>1, EnvironmentSteps DEF ObservedInv
<1>3. CASE UNCHANGED vars
  BY <1>3 DEF ObservedInv, vars
<1> QED BY <1>1, <1>2, <1>3 DEF Next

\* Without a promotion the projection stays as it is.
LEMMA StillCurrent ==
  ASSUME TypeInv, RunInv, NEW j \in Jobs, Job(j), ~Promote(j)
  PROVE  /\ Current' = Current /\ CurrentRecords' = CurrentRecords
         /\ LastCompletedObservedAt' = LastCompletedObservedAt
<1>1. [Next]_vars /\ \A h \in Jobs : ~Promote(h)
  BY OnePromotion DEF Next
<1>2. Current' = Current /\ CurrentRecords' = CurrentRecords
  BY <1>1, ProjectionKept
<1>3. Current # 0 => runs'[Current] = runs[Current]
  BY <1>1, CurrentCompleted, CompletedRowsKept
<1> QED BY <1>2, <1>3 DEF LastCompletedObservedAt

\* A job that has its answer keeps it to the end.
LEMMA AnswerKept ==
  ASSUME NEW j \in Jobs, Catching(j), pc[j] \in AtRun \cup {"start"}, pc'[j] \in AtRun,
         job'[j].mode = job[j].mode, job'[j].response = job[j].response,
         job'[j].seen = job[j].seen, job'[j].observed = job[j].observed,
         UNCHANGED <<feed, published>>, CurrentRecords' = CurrentRecords
  PROVE  Catching(j)'
  BY DEF Catching, Laid, Includes, HoldsUntil, AtRun

\* The answer and the projection together have all that the API has, since the daily
\* refresh asks from the overlap before the current revision on.
LEMMA AnswerCatchesUp ==
  ASSUME TypeInv, RunInv, ObservedInv, NEW j \in Jobs, Receive(j), Catching(j),
         Current # 0 => HoldsUntil(CurrentRecords, LastCompletedObservedAt - Overlap)
  PROVE  Catching(j)'
<1>0. /\ job \in [Jobs -> Locals] /\ job[j] \in Locals /\ pc \in [Jobs -> Labels]
      /\ feed \in RecordSets /\ published \in [Recalls -> Int] /\ DOMAIN feed \subseteq Recalls
  BY Types, DomainType DEF TypeInv, TypeOK
<1>1. /\ pc[j] = "fetch" /\ pc'[j] = "start"
      /\ job'[j].mode = job[j].mode /\ job'[j].seen = feed
      /\ job'[j].response = Answer(job[j].mode, job[j].last)
      /\ job'[j].observed = job[j].observed
  BY <1>0 DEF Receive, Continue, Locals
<1>2. /\ UNCHANGED <<feed, published>>
      /\ CurrentRecords' = CurrentRecords
  BY DEF Receive, world, tables, CurrentRecords, Current
<1>3. HoldsUntil(job[j].seen, job[j].observed - Overlap)'
  BY <1>1, <1>2 DEF HoldsUntil
<1>4. Includes(Laid(j), job[j].seen)'
  <2>1. CASE job[j].mode # "daily"
    BY <1>1, <2>1 DEF Includes, Laid, Answer
  <2>2. CASE job[j].mode = "daily"
    <3> DEFINE date == LastCompletedObservedAt - Overlap
               answer == PublishedSince(date)
    <3>1. Current # 0 /\ job'[j].response = answer
      BY <1>1, <2>2 DEF Catching, Answer
    <3>2. date \in Int
      BY CurrentType, LagAssumption DEF Times, NoTime
    <3> HIDE DEF date
    <3>3. ASSUME NEW r \in DOMAIN feed
          PROVE  /\ r \in DOMAIN answer \cup DOMAIN CurrentRecords
                 /\ feed[r] = IF r \in DOMAIN answer THEN answer[r] ELSE CurrentRecords[r]
      <4>1. published[r] \in Int
        BY <1>0
      <4>2. CASE published[r] >= date
        BY <4>2 DEF PublishedSince
      <4>3. CASE published[r] < date
        BY <3>1, <3>2, <4>1, <4>3 DEF PublishedSince, HoldsUntil, date
      <4> QED BY <3>2, <4>1, <4>2, <4>3
    <3>4. Laid(j)' = Overlay(answer, CurrentRecords)
      BY <1>1, <1>2, <2>2, <3>1 DEF Laid, Overlay
    <3> QED BY <1>1, <1>2, <3>3, <3>4 DEF Includes, Overlay
  <2> QED BY <2>1, <2>2
<1> QED BY <1>1, <1>3, <1>4 DEF Catching, AtRun

\* The lock's holder goes on catching up ...
LEMMA HolderCatches ==
  ASSUME TypeInv, RunInv, LockInv, ObservedInv, CatchInv, OnlyLiveRuns,
         NEW j \in Jobs, Job(j), lock' = j
  PROVE  Catching(j)'
<1>0. /\ job \in [Jobs -> Locals] /\ pc \in [Jobs -> Labels] /\ job[j] \in Locals
      /\ j # None /\ LockOK(j)
  BY Types, JobsAssumption DEF LockInv
<1>1. ~End(j) /\ ~Promote(j)
  BY <1>0 DEF Promote, End, Unlocked
<1>2. CASE Lock(j)
  BY <1>0, <1>2 DEF Lock, Continue, Catching, AtRun
<1>3. CASE lock' = lock
  <2>1. Catching(j) /\ pc[j] \notin {"idle", "lock"}
    BY <1>0, <1>3 DEF CatchInv, LockOK, Fetching, AtRun
  <2>2. UNCHANGED <<feed, published>> /\ CurrentRecords' = CurrentRecords
    BY <1>1, ObservedKept, StillCurrent
  <2>3. CASE ReadLastCompleted(j)
    <3> DEFINE last == LastCompletedObservedAt
    <3>1. pc'[j] \in {"transport", "fetch"} /\ UNCHANGED tables
      BY <1>0, <2>3 DEF ReadLastCompleted, Continue
    <3>2. pc'[j] = "fetch" => ~Refused(job[j].mode, job[j].observed, last)
      BY <1>0, <2>3 DEF ReadLastCompleted, Continue
    <3>3. job'[j].mode = job[j].mode /\ job'[j].last = last
      BY <1>0, <2>3 DEF ReadLastCompleted, Locals
    <3>4. last' = last /\ Current' = Current
      BY <3>1 DEF tables, LastCompletedObservedAt, Current
    <3>5. last # NoTime => Current # 0
      BY DEF LastCompletedObservedAt
    <3> QED BY <3>1, <3>2, <3>3, <3>4, <3>5 DEF Catching, AtRun, Refused
  <2>4. CASE Receive(j)
    BY <2>1, <2>4, AnswerCatchesUp DEF CatchInv
  <2>5. CASE FetchFails(j)
    <3>1. pc[j] = "fetch" /\ pc'[j] \in {"fetch", "transport"} /\ UNCHANGED tables
      BY <1>0, <2>5 DEF FetchFails, Continue
    <3>2. job'[j].mode = job[j].mode /\ job'[j].last = job[j].last
      <4>1. job'[j] = job[j] \/ job'[j] = [job[j] EXCEPT !.attempts = @ + 1]
        BY <1>0, <2>5 DEF FetchFails
      <4> QED BY <1>0, <4>1 DEF Locals
    <3> QED BY <2>1, <3>1, <3>2 DEF Catching, AtRun, tables, LastCompletedObservedAt, Current
  <2>6. CASE StartRevision(j)
    <3>1. pc[j] = "start" /\ pc'[j] \in AtRun
      BY <2>6, AddingSteps DEF StartRevision
    <3>2. job'[j] = [job[j] EXCEPT !.run = Len(runs) + 1]
      BY <2>6, AddingSteps
    <3> QED BY <1>0, <2>1, <2>2, <3>1, <3>2, AnswerKept DEF Locals
  <2>7. CASE ReadCurrentRecords(j)
    <3>1. pc[j] \in AtRun /\ pc'[j] \in AtRun
      BY <1>0, <2>7 DEF ReadCurrentRecords, Continue, AtRun
    <3>2. job'[j] = [job[j] EXCEPT !.base = CurrentRecords, !.baseRun = Current]
      BY <1>0, <2>7 DEF ReadCurrentRecords
    <3> QED BY <1>0, <2>1, <2>2, <3>1, <3>2, AnswerKept DEF Locals
  <2>8. CASE PromotionFails(j)
    <3>1. pc[j] \in AtRun /\ pc'[j] \in AtRun /\ job'[j] = job[j]
      BY <1>0, <2>8 DEF PromotionFails, Continue, AtRun
    <3> QED BY <2>1, <2>2, <3>1, AnswerKept
  <2>9. ~StartLive(j) /\ ~StartRecorded(j) /\ ~Lock(j)
    BY <2>1 DEF StartLive, StartRecorded, MayStart, Lock
  <2> QED BY <1>1, <2>3, <2>4, <2>5, <2>6, <2>7, <2>8, <2>9
      DEF Job, Step, RecordTransportFailure, Reject, FinishFailed, Crash
<1> QED
  BY <1>1, <1>2, <1>3 DEF Job, Step, StartLive, StartRecorded, ReadLastCompleted, Receive,
     FetchFails, RecordTransportFailure, StartRevision, Reject, ReadCurrentRecords,
     PromotionFails, FinishFailed, Crash

\* ... its promotion leaves the projection with what it caught up with ...
LEMMA PromotionCatches ==
  ASSUME TypeInv, RunInv, LockInv, ObservedInv, CatchInv, NEW j \in Jobs, Promote(j),
         OnlyLiveRuns'
  PROVE  /\ Includes(CurrentRecords', job[j].seen)
         /\ HoldsUntil(CurrentRecords, LastCompletedObservedAt - Overlap)'
<1>1. /\ lock = j /\ job[j].base = CurrentRecords
      /\ pc[j] = "promote" /\ job[j].mode # "fixture"
  BY LivePromotion DEF Promote
<1>2. Catching(j)
  <2>1. OnlyLiveRuns
    BY LiveBefore DEF Job, Step
  <2> QED BY <1>1, <2>1 DEF CatchInv
<1>3. CurrentRecords' = Laid(j)
  BY <1>1, PromotedIsCurrent DEF NewRecords, Laid
<1>4. LastCompletedObservedAt' = job[j].observed
  BY <1>1, PromotedIsCurrent DEF ObservedInv, AtRun
<1>5. UNCHANGED <<feed, published>>
  BY DEF Promote, world
<1>6. Includes(Laid(j), job[j].seen) /\ HoldsUntil(job[j].seen, job[j].observed - Overlap)
  BY <1>1, <1>2 DEF Catching, AtRun
<1> QED BY <1>3, <1>4, <1>5, <1>6 DEF Includes, HoldsUntil

\* ... and what the API publishes later is too recent for any revision to have missed it.
LEMMA FeedMoves ==
  ASSUME TypeInv, ObservedInv, Environment, NEW records, NEW observed \in Int,
         observed <= now, HoldsUntil(records, observed - Overlap)
  PROVE  \A r \in DOMAIN feed' : published'[r] < observed - Overlap =>
           r \in DOMAIN records /\ records[r] = feed'[r]
<1>0. /\ now \in Nat /\ feed \in RecordSets /\ DOMAIN feed \subseteq Recalls
      /\ published \in [Recalls -> Int] /\ Overlap \in Nat /\ PublicationLag \in Nat
      /\ PublicationLag <= Overlap
  BY DomainType, LagAssumption DEF TypeInv, TypeOK
<1>1. ASSUME NEW x \in Recalls, NEW v \in Versions, Publish(x, v),
             NEW r \in DOMAIN feed', published'[r] < observed - Overlap
      PROVE  r \in DOMAIN records /\ records[r] = feed'[r]
  <2>1. PICK date \in (now - PublicationLag)..now :
          published' = [published EXCEPT ![x] = date]
    BY <1>1 DEF Publish
  <2>2. r \in DOMAIN feed \cup {x} /\ (r # x => feed'[r] = feed[r])
    BY <1>1 DEF Publish, Overlay
  <2>3. r # x
    BY <1>0, <1>1, <2>1
  <2> QED BY <1>0, <1>1, <2>1, <2>2, <2>3 DEF HoldsUntil
<1>2. ASSUME NEW x \in Recalls, Withdraw(x),
             NEW r \in DOMAIN feed', published'[r] < observed - Overlap
      PROVE  r \in DOMAIN records /\ records[r] = feed'[r]
  <2>1. r \in DOMAIN feed /\ r # x /\ feed'[r] = feed[r]
    BY <1>2 DEF Withdraw
  <2>2. published'[r] = published[r]
    BY <1>0, <1>2, <2>1 DEF Withdraw
  <2> QED BY <1>2, <2>1, <2>2 DEF HoldsUntil
<1>3. ResolvePause \/ Tick => UNCHANGED <<feed, published>>
  BY DEF ResolvePause, Tick, world
<1> QED BY <1>1, <1>2, <1>3 DEF Environment, HoldsUntil

\* Every step keeps up with the API.
LEMMA NextCatch ==
  TypeInv /\ RunInv /\ LockInv /\ ObservedInv /\ CatchInv /\ [Next]_vars => CatchInv'
<1> SUFFICES ASSUME TypeInv, RunInv, LockInv, ObservedInv, CatchInv, [Next]_vars,
                    OnlyLiveRuns'
             PROVE  /\ Current' # 0 =>
                         HoldsUntil(CurrentRecords, LastCompletedObservedAt - Overlap)'
                    /\ \A j \in Jobs : lock' = j => Catching(j)'
  BY DEF CatchInv
<1>1. ASSUME NEW j \in Jobs, Job(j)
      PROVE  /\ Current' # 0 =>
                  HoldsUntil(CurrentRecords, LastCompletedObservedAt - Overlap)'
             /\ \A i \in Jobs : lock' = i => Catching(i)'
  <2>0. OnlyLiveRuns
    BY <1>1, LiveBefore
  <2>1. UNCHANGED <<feed, published>>
    BY <1>1, ObservedKept
  <2>2. CASE Promote(j)
    <3>1. lock = j /\ j # None
      BY <2>2, LivePromotion, JobsAssumption
    <3>2. lock' = None
      BY <2>2, <3>1 DEF Promote, End, Unlocked
    <3> QED BY <2>2, <3>2, PromotionCatches, JobsAssumption
  <2>3. CASE ~Promote(j)
    <3>1. /\ Current' = Current /\ CurrentRecords' = CurrentRecords
          /\ LastCompletedObservedAt' = LastCompletedObservedAt
      BY <1>1, <2>3, StillCurrent
    <3>2. ASSUME NEW i \in Jobs, lock' = i PROVE Catching(i)'
      <4>1. CASE i = j
        BY <1>1, <2>0, <3>2, <4>1, HolderCatches
      <4>2. CASE i # j
        <5>1. pc'[i] = pc[i] /\ job'[i] = job[i]
          BY <1>1, <4>2, JobSteps DEF Quiet, Adds, Finishes, OthersKept
        <5>2. Catching(i)
          BY <1>1, <2>0, <3>2, <4>2, LockKept DEF CatchInv
        <5> QED BY <2>1, <3>1, <5>1, <5>2 DEF Catching, Laid, Includes, HoldsUntil
      <4> QED BY <4>1, <4>2
    <3>3. Current # 0 => HoldsUntil(CurrentRecords, LastCompletedObservedAt - Overlap)
      BY <2>0 DEF CatchInv
    <3> QED BY <2>1, <3>1, <3>2, <3>3 DEF HoldsUntil
  <2> QED BY <2>2, <2>3
<1>2. CASE Environment
  <2>1. UNCHANGED <<runs, promoted, lock, pc, job>>
    BY <1>2, EnvironmentSteps
  <2>2. /\ Current' = Current /\ CurrentRecords' = CurrentRecords
        /\ LastCompletedObservedAt' = LastCompletedObservedAt /\ OnlyLiveRuns
    BY <2>1 DEF Current, CurrentRecords, LastCompletedObservedAt, OnlyLiveRuns
  <2>3. Current # 0 => LastCompletedObservedAt \in Int /\ LastCompletedObservedAt <= now
    <3>1. Current # 0 => Current \in 1..Len(runs) /\ runs[Current] \in RunRows
      BY CurrentType, Types
    <3> QED BY <3>1 DEF LastCompletedObservedAt, ObservedInv, RunRows
  <2>4. Current # 0 => HoldsUntil(CurrentRecords, LastCompletedObservedAt - Overlap)'
    BY <1>2, <2>2, <2>3, FeedMoves DEF CatchInv, HoldsUntil
  <2>5. ASSUME NEW j \in Jobs, lock' = j PROVE Catching(j)'
    <3>1. Catching(j) /\ job[j].observed \in Int /\ job[j].observed <= now
      BY <2>1, <2>2, <2>5, Types DEF CatchInv, ObservedInv, Locals
    <3>2. pc[j] \in AtRun \cup {"start"} =>
            HoldsUntil(job[j].seen, job[j].observed - Overlap)'
      BY <1>2, <2>1, <3>1, FeedMoves DEF Catching, HoldsUntil
    <3> QED BY <2>1, <2>2, <3>1, <3>2 DEF Catching, Laid
  <2> QED BY <2>2, <2>4, <2>5
<1>3. CASE UNCHANGED vars
  BY <1>3 DEF CatchInv, Catching, Laid, Includes, HoldsUntil, OnlyLiveRuns, Current,
     CurrentRecords, LastCompletedObservedAt, vars
<1> QED BY <1>1, <1>2, <1>3 DEF Next

\* The overlap makes up for late publication and for every failed, rejected or crashed
\* refresh before: as long as only live refreshes run, each completed one has every
\* record as the API had it when the response was retrieved.
THEOREM RefreshesHaveCaughtUp == Spec => RefreshesCatchUp
<1> DEFINE Inv == TypeInv /\ RunInv /\ LockInv /\ ObservedInv /\ CatchInv
           Caught == OnlyLiveRuns' /\ promoted' # promoted =>
             \A j \in Jobs : pc[j] = "promote" /\ pc'[j] # "promote" =>
               \A r \in DOMAIN job[j].seen :
                 /\ r \in DOMAIN CurrentRecords'
                 /\ CurrentRecords'[r] = job[j].seen[r]
<1>1. Init => Inv
  <2>1. Init => TypeInv /\ RunInv
    BY InitType DEF Init, RunInv, AtRun
  <2>2. Init => LockInv
    BY JobsAssumption DEF Init, LockInv, LockOK, AtRun, Fetching
  <2>3. Init => ObservedInv /\ CatchInv
    BY JobsAssumption DEF Init, ObservedInv, CatchInv, AtRun, NoJob, Current
  <2> QED BY <2>1, <2>2, <2>3
<1>2. Inv /\ [Next]_vars => Inv'
  BY NextType, NextRuns, NextLock, NextObserved, NextCatch
<1>3. Inv /\ [Next]_vars => [Caught]_vars
  <2> SUFFICES ASSUME Inv, [Next]_vars, OnlyLiveRuns', promoted' # promoted,
                      NEW j \in Jobs, pc[j] = "promote", pc'[j] # "promote"
               PROVE  Includes(CurrentRecords', job[j].seen)
    BY DEF Includes
  <2>1. PICK i \in Jobs : Promote(i)
    BY ProjectionKept
  <2>2. PICK h \in Jobs : Job(h)
    BY <2>1 DEF Job, Step
  <2>3. h = j
    BY <2>2, JobSteps DEF Quiet, Adds, Finishes, OthersKept
  <2>4. Promote(j)
    BY <2>1, <2>2, <2>3, OnePromotion
  <2> QED BY <2>4, PromotionCatches
<1> QED BY <1>1, <1>2, <1>3, PTL DEF Spec, RefreshesCatchUp

================================================================================

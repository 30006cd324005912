-------------------------- MODULE EvidenceQueueProofs --------------------------
(***************************************************************************)
(* Theorems about EvidenceQueue, for every set of handlers, operators,     *)
(* keys, contents and records, every audit limit and every source.         *)
(***************************************************************************)
EXTENDS EvidenceQueueLedger, FiniteSetTheorems, SequenceTheorems, TLAPS

Refreshing == {"predecessor", "currentRevision", "currentObservation", "successor"}
Submitting == Serialized \cup {"pause", "idempotency"}

\* What a handler's locals r satisfy before the statement l.
LocalsOK(l, r) ==
  /\ r.from \in 0..Len(evaluations)
  /\ l \in Refreshing => r.operator \in Operators /\ r.from # 0
  /\ l \in Submitting => r.operator \in Operators /\ r.content \in Contents
  /\ l = "revision" => Current # 0
  /\ l = "records" => r.revision \in 1..Current

TypeInv ==
  /\ TypeOK
  /\ \A p \in Procs : LocalsOK(pc[p], req[p])
  /\ \A l \in links : l.successor \in Evaluations

\* The empty database satisfies the typing invariant.
LEMMA InitType == Init => TypeInv
  BY DEF Init, TypeInv, TypeOK, LocalsOK, NoRequest, NoReply, None, Labels, Requests,
         Refreshing, Submitting, Serialized, AllKeys, ReplyKinds, Rows, Triggers, NoObservation

\* Matching a set of records yields some of its records.
LEMMA CandidatesType ==
  ASSUME NEW c, NEW S \in SUBSET Records
  PROVE  Candidates(c, S) \in Rows
  BY DEF Candidates, Rows

\* The stored delta of two row sets is a delta of recalls.
LEMMA DeltaType ==
  ASSUME NEW A \in Rows, NEW B \in Rows
  PROVE  Delta(A, B) \in Deltas
  BY DEF Delta, Deltas, Recalls, Rows

-----------------------------------------------------------------------------
(* Moves that change the locals of one handler only *)

\* A statement that moves one handler to well-typed locals and touches no table
\* keeps the typing invariant.
LEMMA LocalStep ==
  ASSUME TypeInv, NEW p \in Procs, NEW l \in Labels, NEW r \in Requests, LocalsOK(l, r),
         Continue(p, l), req' = [req EXCEPT ![p] = r],
         UNCHANGED <<source, ledger, review, pausing>>
  PROVE  TypeInv'
<1>1. TypeOK'
  BY DEF TypeInv, TypeOK, Continue, source, ledger, review, pausing
<1>2. ASSUME NEW q \in Procs PROVE LocalsOK(pc[q], req[q])'
  <2>1. pc'[q] = IF q = p THEN l ELSE pc[q]
    BY DEF TypeInv, TypeOK, Continue
  <2>2. req'[q] = IF q = p THEN r ELSE req[q]
    BY DEF TypeInv, TypeOK
  <2> QED BY <2>1, <2>2 DEF TypeInv, LocalsOK, Current, source, ledger
<1>3. \A m \in links' : m.successor \in Evaluations'
  BY DEF TypeInv, Evaluations, ledger
<1> QED BY <1>1, <1>2, <1>3 DEF TypeInv

\* So does an answer...
LEMMA ReplyStep ==
  ASSUME TypeInv, NEW p \in Procs, NEW kind \in ReplyKinds, NEW e \in Nat,
         Reply(p, kind, e), UNCHANGED <<source, ledger, review, pausing>>
  PROVE  TypeInv'
<1> DEFINE r == [req[p] EXCEPT !.reply = [kind |-> kind, evaluation |-> e]]
<1>1. req[p] \in Requests /\ LocalsOK(pc[p], req[p])
  BY DEF TypeInv, TypeOK
<1>2. r \in Requests
  BY <1>1 DEF Requests
<1>3. LocalsOK("answered", r)
  BY <1>1 DEF LocalsOK, Requests, Refreshing, Submitting, Serialized
<1>4. req' = [req EXCEPT ![p] = r] /\ Continue(p, "answered")
  BY DEF Reply
<1>5. "answered" \in Labels
  BY DEF Labels
<1> QED BY <1>2, <1>3, <1>4, <1>5, LocalStep

\* ... and a statement that leaves the locals alone.
LEMMA ContinueStep ==
  ASSUME TypeInv, NEW p \in Procs, NEW l \in Labels, LocalsOK(l, req[p]),
         Continue(p, l), UNCHANGED <<req, source, ledger, review, pausing>>
  PROVE  TypeInv'
<1>1. req[p] \in Requests /\ req' = [req EXCEPT ![p] = req[p]]
  BY DEF TypeInv, TypeOK
<1> QED BY <1>1, LocalStep

\* Revisions and evaluations are numbered from one, and each is a row of its type.
LEMMA LengthsType ==
  ASSUME TypeInv
  PROVE  /\ Current \in Nat
         /\ Len(evaluations) \in Nat
         /\ CurrentObservation \in Nat \cup {NoObservation}
         /\ \A v \in 1..Current : revisions[v].records \in SUBSET Records
         /\ \A e \in Evaluations : evaluations[e] \in EvaluationRows
<1>1. revisions \in Seq([observed : Nat, records : SourceStates])
  BY DEF TypeInv, TypeOK
<1>2. evaluations \in Seq(EvaluationRows)
  BY DEF TypeInv, TypeOK
<1>3. Current \in Nat /\ Len(evaluations) \in Nat
  BY <1>1, <1>2 DEF Current
<1>4. \A v \in 1..Current : revisions[v] \in [observed : Nat, records : SourceStates]
  BY <1>1, ElementOfSeq DEF Current
<1>5. \A e \in Evaluations : evaluations[e] \in EvaluationRows
  BY <1>2 DEF Evaluations
<1> QED
  BY <1>3, <1>4, <1>5, RecordsAssumption DEF CurrentObservation

\* Every statement of a handler but the commit keeps the typing invariant.
LEMMA HandlerType ==
  ASSUME TypeInv, NEW p \in Procs, Handler(p), ~Commit(p)
  PROVE  TypeInv'
<1>0. /\ req[p] \in Requests
      /\ LocalsOK(pc[p], req[p])
      /\ now \in Nat
      /\ Current \in Nat
      /\ Len(evaluations) \in Nat
  BY LengthsType DEF TypeInv, TypeOK
<1>1. CASE Submit(p)
  <2>1. PICK o \in Operators, k \in Keys, c \in Contents :
          req' = [req EXCEPT ![p] = [NoRequest EXCEPT
            !.operator = o, !.key = SubmissionKey(k), !.content = c,
            !.counts = CountsTowardAuditGate, !.evaluatedAt = now]]
    BY <1>1 DEF Submit
  <2> DEFINE r == [NoRequest EXCEPT
            !.operator = o, !.key = SubmissionKey(k), !.content = c,
            !.counts = CountsTowardAuditGate, !.evaluatedAt = now]
  <2>2. r \in Requests
    BY <1>0, GateAssumption DEF Requests, NoRequest, NoReply, AllKeys, ReplyKinds, Rows
  <2>3. LocalsOK("idempotency", r)
    BY <1>0 DEF LocalsOK, NoRequest, Refreshing, Submitting
  <2> HIDE DEF r
  <2> QED BY <1>1, <2>1, <2>2, <2>3, LocalStep DEF Submit, Labels, r
<1>2. CASE Refresh(p)
  <2>1. PICK o \in Operators, e \in Evaluations :
          req' = [req EXCEPT ![p] = [NoRequest EXCEPT !.operator = o, !.asked = e, !.from = e]]
    BY <1>2 DEF Refresh
  <2> DEFINE r == [NoRequest EXCEPT !.operator = o, !.asked = e, !.from = e]
  <2>a. e \in Nat \ {0}
    BY <1>0 DEF Evaluations
  <2>b. NoRequest \in Requests
    BY DEF NoRequest, NoReply, Requests, AllKeys, ReplyKinds, Rows
  <2>2. r \in Requests
    BY <2>a, <2>b DEF Requests
  <2>3. LocalsOK("predecessor", r)
    BY <1>0 DEF LocalsOK, NoRequest, Refreshing, Submitting, Serialized, Evaluations
  <2> HIDE DEF r
  <2> QED BY <1>2, <2>1, <2>2, <2>3, LocalStep DEF Refresh, Labels, r
<1>3. CASE ReadPredecessor(p)
  <2>1. LocalsOK("currentRevision", req[p])
    BY <1>0, <1>3 DEF ReadPredecessor, LocalsOK, Refreshing, Submitting, Serialized
  <2> QED BY <1>3, <2>1, ReplyStep, ContinueStep DEF ReadPredecessor, Labels, ReplyKinds
<1>4. CASE ReadCurrentRevision(p)
  <2> DEFINE r == [req[p] EXCEPT !.revision = Current]
  <2>1. r \in Requests /\ LocalsOK("currentObservation", r)
    BY <1>0, <1>4 DEF ReadCurrentRevision, LocalsOK, Refreshing, Submitting, Serialized, Requests
  <2>2. req' = [req EXCEPT ![p] = r]
    BY <1>4 DEF ReadCurrentRevision, Labels
  <2> HIDE DEF r
  <2> QED BY <1>4, <2>1, <2>2, LocalStep DEF ReadCurrentRevision, Labels
<1>5. CASE ReadCurrentObservation(p)
  <2> DEFINE r == [req[p] EXCEPT !.observed = CurrentObservation]
  <2>0. CurrentObservation \in Nat \cup {NoObservation}
    BY LengthsType
  <2>1. r \in Requests /\ LocalsOK("successor", r)
    BY <1>0, <1>5, <2>0
      DEF ReadCurrentObservation, LocalsOK, Refreshing, Submitting, Serialized, Requests
  <2>2. req' = [req EXCEPT ![p] = r]
    BY <1>5 DEF ReadCurrentObservation, Labels
  <2> HIDE DEF r
  <2> QED BY <1>5, <2>1, <2>2, LocalStep DEF ReadCurrentObservation, Labels
<1>7. CASE ClaimKey(p)
  <2>1. LocalsOK("pause", req[p])
    BY <1>0, <1>7 DEF ClaimKey, LocalsOK, Refreshing, Submitting, Serialized
  <2> QED BY <1>7, <2>1, ReplyStep, ContinueStep DEF ClaimKey, Labels, ReplyKinds, Previous, Evaluations
<1>8. CASE LockPause(p)
  <2>1. LocalsOK("freshness", req[p])
    BY <1>0, <1>8 DEF LockPause, LocalsOK, Refreshing, Submitting, Serialized
  <2> QED BY <1>8, <2>1, ReplyStep, ContinueStep DEF LockPause, Labels, Serialized, ReplyKinds
<1>9. CASE CheckFreshness(p)
  <2>1. ~Stale(req[p].evaluatedAt, CurrentObservation) => LocalsOK("revision", req[p])
    BY <1>0, <1>9
      DEF CheckFreshness, LocalsOK, Refreshing, Submitting, Serialized, Stale, CurrentObservation
  <2> QED BY <1>9, <2>1, ReplyStep, ContinueStep DEF CheckFreshness, Labels, Serialized, ReplyKinds
<1>10. CASE ReadRevision(p)
  <2> DEFINE r == [req[p] EXCEPT !.revision = Current]
  <2>1. r \in Requests /\ LocalsOK("records", r)
    BY <1>0, <1>10 DEF ReadRevision, LocalsOK, Refreshing, Submitting, Serialized, Requests
  <2>2. req' = [req EXCEPT ![p] = r]
    BY <1>10 DEF ReadRevision, Labels, Serialized
  <2> HIDE DEF r
  <2> QED BY <1>10, <2>1, <2>2, LocalStep DEF ReadRevision, Labels, Serialized
<1>11. CASE ReadRecords(p)
  <2> DEFINE r == [req[p] EXCEPT !.rows = Candidates(req[p].content, CurrentRecords(req[p].revision))]
  <2>0. CurrentRecords(req[p].revision) \in SUBSET Records
    BY <1>0, <1>11, LengthsType DEF ReadRecords, LocalsOK, CurrentRecords
  <2>1. r \in Requests /\ LocalsOK("commit", r)
    BY <1>0, <1>11, <2>0, CandidatesType
      DEF ReadRecords, LocalsOK, Refreshing, Submitting, Serialized, Requests
  <2>2. req' = [req EXCEPT ![p] = r]
    BY <1>11 DEF ReadRecords, Labels, Serialized
  <2> HIDE DEF r
  <2> QED BY <1>11, <2>1, <2>2, LocalStep DEF ReadRecords, Labels, Serialized
<1>12. CASE Abort(p) \/ Return(p)
  <2>1. NoRequest \in Requests /\ LocalsOK("idle", NoRequest)
    BY <1>0
      DEF LocalsOK, NoRequest, NoReply, Requests, Refreshing, Submitting, Serialized, AllKeys, ReplyKinds, Rows
  <2> QED BY <1>12, <2>1, LocalStep DEF Abort, Return, Labels
<1>6. CASE ReadSuccessor(p)
  <2> DEFINE e == req[p].from
             r == [req[p] EXCEPT !.key = RefreshKey(e, req[p].revision),
                                 !.content = evaluations[e].content, !.evaluatedAt = now]
  <2>1. e \in Evaluations /\ req[p].operator \in Operators
    BY <1>0, <1>6 DEF ReadSuccessor, LocalsOK, Refreshing, Evaluations
  <2>2. Successors(e) \subseteq Evaluations
    BY DEF TypeInv, Successors
  <2>3. CASE \E kind \in ReplyKinds, s \in Nat : Reply(p, kind, s)
    BY <1>6, <2>3, ReplyStep DEF ReadSuccessor
  <2>4. CASE \E s \in Successors(e) :
               req' = [req EXCEPT ![p].from = s] /\ Continue(p, "predecessor")
    <3>1. PICK s \in Successors(e) :
            req' = [req EXCEPT ![p] = [req[p] EXCEPT !.from = s]] /\ Continue(p, "predecessor")
      BY <2>4
    <3> DEFINE t == [req[p] EXCEPT !.from = s]
    <3>2. s \in Nat \ {0} /\ s \in 0..Len(evaluations)
      BY <1>0, <2>2 DEF Evaluations
    <3>3. t \in Requests
      BY <1>0, <3>2 DEF Requests
    <3>4. LocalsOK("predecessor", t)
      BY <1>0, <2>1, <3>2 DEF LocalsOK, Requests, Submitting, Serialized
    <3>5. req' = [req EXCEPT ![p] = t]
      BY <3>1
    <3> HIDE DEF t
    <3> QED BY <1>6, <3>1, <3>3, <3>4, <3>5, LocalStep DEF ReadSuccessor, Labels
  <2>5. CASE /\ req' = [req EXCEPT ![p].key = RefreshKey(e, req[p].revision),
                                  ![p].content = evaluations[e].content,
                                  ![p].evaluatedAt = now]
             /\ Continue(p, "idempotency")
    <3>1. evaluations[e].content \in Contents
      BY <2>1, LengthsType DEF EvaluationRows
    <3>2. e \in Nat /\ req[p].revision \in Nat
      BY <1>0 DEF Requests
    <3>3. r \in Requests
      BY <1>0, <3>1, <3>2 DEF Requests, RefreshKey, AllKeys
    <3>4. LocalsOK("idempotency", r)
      BY <1>0, <2>1, <3>1 DEF LocalsOK, Requests, Refreshing
    <3>5. req' = [req EXCEPT ![p] = r]
      BY <1>0, <2>5 DEF TypeInv, TypeOK
    <3> HIDE DEF r
    <3> QED BY <1>6, <2>5, <3>3, <3>4, <3>5, LocalStep DEF ReadSuccessor, Labels
  <2>6. Evaluations \subseteq Nat
    BY <1>0 DEF Evaluations
  <2> QED
    BY <1>6, <2>1, <2>2, <2>3, <2>4, <2>5, <2>6 DEF ReadSuccessor, ReplyKinds
<1> QED
  BY <1>1, <1>2, <1>3, <1>4, <1>5, <1>6, <1>7, <1>8, <1>9, <1>10, <1>11, <1>12 DEF Handler, Statement

-----------------------------------------------------------------------------
(* Moves that write tables *)

\* The row and the link a commit writes.
LEMMA CommitRows ==
  ASSUME TypeInv, NEW p \in Procs, Commit(p)
  PROVE  /\ NewEvaluation(p) \in EvaluationRows
         /\ NewLinks(p, Len(evaluations) + 1) \subseteq
              [predecessor : Evaluations, successor : Nat, delta : Deltas]
<1>1. req[p] \in Requests /\ LocalsOK("commit", req[p]) /\ gateCount \in Nat
  BY DEF TypeInv, TypeOK, Commit
<1>2. req[p].operator \in Operators /\ req[p].content \in Contents
  BY <1>1 DEF LocalsOK, Submitting, Serialized
<1>3. NewEvaluation(p) \in EvaluationRows
  BY <1>1, <1>2 DEF NewEvaluation, Requests, EvaluationRows
<1>4. ASSUME req[p].from # 0 PROVE req[p].from \in Evaluations
  BY <1>1, <1>4, LengthsType DEF LocalsOK, Evaluations
<1>5. ASSUME req[p].from # 0
      PROVE  Delta(evaluations[req[p].from].rows, req[p].rows) \in Deltas
  <2>1. evaluations[req[p].from].rows \in Rows
    BY <1>4, <1>5, LengthsType DEF EvaluationRows
  <2> QED BY <1>1, <2>1, DeltaType DEF Requests
<1> QED BY <1>3, <1>4, <1>5, LengthsType DEF NewLinks

\* What a successful commit appends.
Committed(p) ==
  /\ evaluations' = Append(evaluations, NewEvaluation(p))
  /\ links' = links \cup NewLinks(p, Len(evaluations) + 1)
  /\ gateCount' = GateAfter(p)
  /\ Reply(p, "created", Len(evaluations) + 1)
  /\ ~UniqueViolation(p)

\* A successful commit adds exactly one evaluation, at the end.
LEMMA AppendedEvaluation ==
  ASSUME TypeInv, NEW p \in Procs, Commit(p), Committed(p)
  PROVE  /\ Len(evaluations') = Len(evaluations) + 1
         /\ evaluations' \in Seq(EvaluationRows)
         /\ Evaluations' = Evaluations \cup {Len(evaluations) + 1}
         /\ Len(evaluations) + 1 \notin Evaluations
         /\ \A e \in Evaluations : evaluations'[e] = evaluations[e]
         /\ evaluations'[Len(evaluations) + 1] = NewEvaluation(p)
<1>1. evaluations \in Seq(EvaluationRows)
  BY DEF TypeInv, TypeOK
<1>2. NewEvaluation(p) \in EvaluationRows
  BY CommitRows
<1>3. Len(evaluations) \in Nat
  BY LengthsType
<1>4. /\ evaluations' \in Seq(EvaluationRows)
      /\ Len(evaluations') = Len(evaluations) + 1
      /\ \A e \in 1..Len(evaluations) : evaluations'[e] = evaluations[e]
      /\ evaluations'[Len(evaluations) + 1] = NewEvaluation(p)
  BY <1>1, <1>2, AppendProperties DEF Committed
<1> QED BY <1>3, <1>4 DEF Evaluations

\* The commit of a submission keeps the typing invariant.
LEMMA CommitType ==
  ASSUME TypeInv, NEW p \in Procs, Commit(p)
  PROVE  TypeInv'
<1>1. CASE Committed(p)
  <2> DEFINE r == [req[p] EXCEPT !.reply = [kind |-> "created", evaluation |-> Len(evaluations) + 1]]
  <2>1. /\ req[p] \in Requests /\ LocalsOK("commit", req[p])
        /\ gateCount \in Nat /\ Len(evaluations) \in Nat
    BY LengthsType DEF TypeInv, TypeOK, Commit
  <2>2. r \in Requests
    BY <2>1 DEF Requests, ReplyKinds
  <2>3. /\ pc' = [pc EXCEPT ![p] = "answered"]
        /\ req' = [req EXCEPT ![p] = r]
    BY <1>1 DEF Committed, Reply, Continue
  <2>4. UNCHANGED <<source, review, pausing>>
    BY DEF Commit
  <2>5. gateCount' \in Nat
    BY <1>1, <2>1 DEF Committed, GateAfter
  <2>6. links' \subseteq [predecessor : Nat, successor : Nat, delta : Deltas]
    BY <1>1, <2>1, CommitRows DEF Committed, Evaluations, TypeInv, TypeOK
  <2>7. TypeOK'
    BY <1>1, <2>2, <2>3, <2>4, <2>5, <2>6, AppendedEvaluation
       DEF TypeInv, TypeOK, source, review, pausing, Labels
  <2>8. ASSUME NEW q \in Procs PROVE LocalsOK(pc[q], req[q])'
    <3>1. pc'[q] = IF q = p THEN "answered" ELSE pc[q]
      BY <2>3 DEF TypeInv, TypeOK
    <3>2. req'[q].from = req[q].from /\ (q # p => req'[q] = req[q])
      BY <2>1, <2>3 DEF TypeInv, TypeOK, Requests
    <3>3. Len(evaluations') = Len(evaluations) + 1
      BY <1>1, AppendedEvaluation
    <3>4. LocalsOK(pc[q], req[q]) /\ Current' = Current
      BY <2>4 DEF TypeInv, Current, source
    <3> QED BY <2>1, <3>1, <3>2, <3>3, <3>4
            DEF LocalsOK, Refreshing, Submitting, Serialized
  <2>9. \A l \in links' : l.successor \in Evaluations'
    BY <1>1, AppendedEvaluation DEF Committed, NewLinks, TypeInv
  <2> QED BY <2>7, <2>8, <2>9 DEF TypeInv
<1>2. CASE Reply(p, "error", 0) /\ UNCHANGED ledger
  BY <1>2, ReplyStep DEF Commit, ReplyKinds
<1> QED BY <1>1, <1>2 DEF Commit, Committed

\* Founder and environment steps change no evaluation and no handler.
LEMMA OtherType ==
  ASSUME TypeInv, Founder \/ Environment
  PROVE  TypeInv'
<1>0. UNCHANGED <<ledger, handlers>>
  BY DEF Founder, Environment, Approve, Reject, ManualPause, ResolvePause,
         SourceIntegrityPause, Promote, Tick
<1>1. Current' \in Nat /\ Current' >= Current
  <2>1. CASE Promote
    <3>1. PICK observed \in 0..now, records \in SourceStates :
            revisions' = Append(revisions, [observed |-> observed, records |-> records])
      BY <2>1 DEF Promote
    <3> QED BY <3>1 DEF Current, TypeInv, TypeOK
  <2>2. CASE UNCHANGED revisions
    BY <2>2, LengthsType DEF Current
  <2> QED BY <2>1, <2>2 DEF Founder, Environment, Approve, Reject, ManualPause,
             ResolvePause, SourceIntegrityPause, Tick, source
<1>2. \A q \in Procs : LocalsOK(pc[q], req[q])'
  BY <1>0, <1>1, LengthsType DEF TypeInv, LocalsOK, ledger, handlers
<1>3. \A l \in links' : l.successor \in Evaluations'
  BY <1>0 DEF TypeInv, ledger, Evaluations
<1>4. CASE \E e \in Evaluations : Approve(e)
  <2>1. TypeOK'
    BY <1>4, LengthsType
      DEF TypeInv, TypeOK, Approve, RecordAudit, source, ledger, pausing, handlers, Evaluations
  <2> QED BY <1>2, <1>3, <2>1 DEF TypeInv
<1>5. CASE \E e \in Evaluations : Reject(e)
  <2>1. TypeOK'
    BY <1>5, LengthsType
      DEF TypeInv, TypeOK, Reject, RecordAudit, ActivatePause, Triggers, source, ledger, handlers, Evaluations
  <2> QED BY <1>2, <1>3, <2>1 DEF TypeInv
<1>6. CASE ManualPause \/ ResolvePause \/ SourceIntegrityPause
  <2>1. /\ pause' \in [isPaused : BOOLEAN, trigger : Triggers]
        /\ pauseEvents' \in Seq([action : {"activated", "resolved"}, trigger : Triggers])
    <3> USE DEF TypeInv, TypeOK, Triggers
    <3>1. CASE ManualPause
      BY <3>1 DEF ManualPause, ActivatePause
    <3>2. CASE ResolvePause
      <4>1. pause' = [pause EXCEPT !.isPaused = FALSE] /\ pause.trigger \in Triggers
        BY <3>2 DEF ResolvePause
      <4>2. [action |-> "resolved", trigger |-> pause.trigger]
              \in [action : {"activated", "resolved"}, trigger : Triggers]
        BY <4>1
      <4>3. pause' \in [isPaused : BOOLEAN, trigger : Triggers]
        BY <4>1
      <4> QED BY <3>2, <4>2, <4>3, AppendProperties DEF ResolvePause
    <3>3. CASE SourceIntegrityPause
      BY <3>3 DEF SourceIntegrityPause
    <3> QED BY <1>6, <3>1, <3>2, <3>3
  <2>2. UNCHANGED <<source, ledger, review, handlers>>
    BY <1>6 DEF ManualPause, ResolvePause, SourceIntegrityPause
  <2>3. TypeOK'
    BY <2>1, <2>2 DEF TypeInv, TypeOK, source, ledger, review, handlers
  <2> QED BY <1>2, <1>3, <2>3 DEF TypeInv
<1>7. CASE Promote \/ Tick
  <2>1. now' \in Nat /\ revisions' \in Seq([observed : Nat, records : SourceStates])
    <3> USE DEF TypeInv, TypeOK
    <3>1. CASE Promote
      <4>1. PICK observed \in 0..now, records \in SourceStates :
              revisions' = Append(revisions, [observed |-> observed, records |-> records])
        BY <3>1 DEF Promote
      <4>2. [observed |-> observed, records |-> records] \in [observed : Nat, records : SourceStates]
        OBVIOUS
      <4> QED BY <3>1, <4>1, <4>2, AppendProperties DEF Promote
    <3>2. CASE Tick
      BY <3>2 DEF Tick
    <3> QED BY <1>7, <3>1, <3>2
  <2>2. UNCHANGED <<ledger, review, pausing, handlers>>
    BY <1>7 DEF Promote, Tick
  <2>3. TypeOK'
    BY <2>1, <2>2 DEF TypeInv, TypeOK, ledger, review, pausing, handlers
  <2> QED BY <1>2, <1>3, <2>3 DEF TypeInv
<1> QED BY <1>4, <1>5, <1>6, <1>7 DEF Founder, Environment

\* The typing invariant depends on the state only.
LEMMA StutterType ==
  ASSUME TypeInv, UNCHANGED vars
  PROVE  TypeInv'
  BY DEF TypeInv, TypeOK, LocalsOK, vars, Current, Evaluations

\* The typing invariant is inductive.
LEMMA TypeStep == TypeInv /\ [Next]_vars => TypeInv'
  BY HandlerType, CommitType, OtherType, StutterType DEF Next

\* Every reachable state is well typed, for any number of handlers and operators.
THEOREM TypeCorrect == Spec => []TypeOK
<1>1. Spec => []TypeInv
  BY InitType, TypeStep, PTL DEF Spec
<1>2. TypeInv => TypeOK
  BY DEF TypeInv
<1> QED BY <1>1, <1>2, PTL

-----------------------------------------------------------------------------
(* Locks and the pause *)

Claimed == Serialized \cup {"pause"}

\* A handler's move changes no other handler's locals, writes tables only by a
\* commit, and takes a lock only as ClaimKey and LockPause do.
LEMMA HandlerFrame ==
  ASSUME TypeInv, NEW p \in Procs, Handler(p)
  PROVE  /\ UNCHANGED <<source, review, pausing>>
         /\ \A q \in Procs \ {p} : pc'[q] = pc[q] /\ req'[q] = req[q]
         /\ UNCHANGED ledger \/ (Commit(p) /\ Committed(p) /\ pc'[p] = "answered")
         /\ pc'[p] \in Serialized =>
              pc[p] \in Serialized \/ (PauseRowFree /\ ~pause.isPaused)
         /\ pc'[p] \in Claimed =>
              /\ req'[p].operator = req[p].operator
              /\ req'[p].key = req[p].key
              /\ \/ pc[p] \in Claimed
                 \/ /\ Previous(req[p].operator, req[p].key) = {}
                    /\ \A q \in Procs : ~HoldsKey(q, req[p].operator, req[p].key)
<1>1. pc \in [Procs -> Labels] /\ req \in [Procs -> Requests]
  BY DEF TypeInv, TypeOK
<1> USE DEF Claimed, Serialized, Continue, Reply
<1>2. CASE Submit(p) \/ Refresh(p) \/ Abort(p) \/ Return(p)
  BY <1>1, <1>2 DEF Submit, Refresh, Abort, Return
<1>3. CASE ReadPredecessor(p) \/ ReadCurrentRevision(p) \/ ReadCurrentObservation(p)
  BY <1>1, <1>3 DEF ReadPredecessor, ReadCurrentRevision, ReadCurrentObservation
<1>4. CASE ReadSuccessor(p)
  BY <1>1, <1>4 DEF ReadSuccessor
<1>5. CASE ClaimKey(p)
  BY <1>1, <1>5 DEF ClaimKey
<1>6. CASE LockPause(p)
  BY <1>1, <1>6 DEF LockPause
<1>7. CASE CheckFreshness(p)
  BY <1>1, <1>7 DEF CheckFreshness
<1>8. CASE ReadRevision(p) \/ ReadRecords(p)
  BY <1>1, <1>8 DEF ReadRevision, ReadRecords, Requests
<1>9. CASE Commit(p)
  BY <1>1, <1>9 DEF Commit, Committed
<1> QED
  BY <1>2, <1>3, <1>4, <1>5, <1>6, <1>7, <1>8, <1>9 DEF Handler, Statement

\* Whatever is not a handler's move leaves handlers and evaluations alone, and takes
\* the pause row before it changes the pause.
LEMMA OtherFrame ==
  ASSUME Founder \/ Environment
  PROVE  /\ UNCHANGED <<ledger, handlers>>
         /\ PauseRowFree \/ UNCHANGED pause
  BY DEF Founder, Environment, Approve, Reject, RecordAudit, ManualPause, ResolvePause,
         SourceIntegrityPause, Promote, Tick, pausing

\* The row lock is exclusive, and its holder has seen no pause and none has begun.
PauseInv ==
  /\ \A p \in Procs : HoldsPause(p) => ~pause.isPaused
  /\ \A p, q \in Procs : HoldsPause(p) /\ HoldsPause(q) => p = q

\* The row lock on global_pause_state keeps the pause off while any submission is
\* past its pause check.
LEMMA PauseStep ==
  ASSUME TypeInv, PauseInv, [Next]_vars
  PROVE  PauseInv'
<1>1. ASSUME NEW p \in Procs, Handler(p) PROVE PauseInv'
  <2>1. UNCHANGED pause
    BY <1>1, HandlerFrame DEF pausing
  <2>2. \A q \in Procs \ {p} : HoldsPause(q)' <=> HoldsPause(q)
    BY <1>1, HandlerFrame DEF HoldsPause
  <2>3. HoldsPause(p)' => HoldsPause(p) \/ (PauseRowFree /\ ~pause.isPaused)
    BY <1>1, HandlerFrame DEF HoldsPause
  <2> QED BY <2>1, <2>2, <2>3 DEF PauseInv, PauseRowFree
<1>2. CASE Founder \/ Environment
  BY <1>2, OtherFrame DEF PauseInv, PauseRowFree, HoldsPause, handlers
<1>3. CASE UNCHANGED vars
  BY <1>3 DEF PauseInv, HoldsPause, vars
<1> QED BY <1>1, <1>2, <1>3 DEF Next

\* The advisory lock is exclusive, and under it the key is still unused.
KeyInv ==
  /\ \A p, q \in Procs :
       /\ pc[p] \in Claimed /\ pc[q] \in Claimed
       /\ req[p].operator = req[q].operator
       /\ req[p].key = req[q].key
       => p = q
  /\ \A p \in Procs : pc[p] \in Claimed => Previous(req[p].operator, req[p].key) = {}
  /\ \A e, f \in Evaluations :
       /\ evaluations[e].operator = evaluations[f].operator
       /\ evaluations[e].key = evaluations[f].key
       => e = f

\* The advisory lock keeps a claimed key unused until the claimer commits.
LEMMA KeyStep ==
  ASSUME TypeInv, KeyInv, [Next]_vars
  PROVE  KeyInv'
<1>1. ASSUME NEW p \in Procs, Handler(p) PROVE KeyInv'
  <2>1. ASSUME NEW q \in Procs, NEW r \in Procs,
               pc'[q] \in Claimed, pc'[r] \in Claimed,
               req'[q].operator = req'[r].operator, req'[q].key = req'[r].key
        PROVE  q = r
    BY <1>1, <2>1, HandlerFrame DEF KeyInv, HoldsKey, Claimed
  <2>2. CASE UNCHANGED ledger
    BY <1>1, <2>1, <2>2, HandlerFrame DEF KeyInv, ledger, Previous, Evaluations
  <2>3. CASE Commit(p) /\ Committed(p) /\ pc'[p] = "answered"
    <3> DEFINE n == Len(evaluations) + 1
    <3>1. /\ evaluations'[n].operator = req[p].operator
          /\ evaluations'[n].key = req[p].key
      <4>1. evaluations'[n] = NewEvaluation(p)
        BY <2>3, AppendedEvaluation
      <4> QED BY <4>1 DEF NewEvaluation
    <3>2. /\ Evaluations' = Evaluations \cup {n}
          /\ n \notin Evaluations
          /\ \A e \in Evaluations : evaluations'[e] = evaluations[e]
      BY <2>3, AppendedEvaluation
    <3>3. pc[p] \in Claimed /\ Previous(req[p].operator, req[p].key) = {}
      BY <2>3 DEF KeyInv, Commit, Claimed, Serialized
    <3>4. ASSUME NEW q \in Procs, pc'[q] \in Claimed
          PROVE  Previous(req[q].operator, req[q].key)' = {}
      <4>1. q # p /\ pc[q] \in Claimed /\ req'[q] = req[q]
        BY <1>1, <2>3, <3>4, HandlerFrame DEF Claimed, Serialized
      <4>2. ~(req[q].operator = req[p].operator /\ req[q].key = req[p].key)
        BY <3>3, <4>1 DEF KeyInv
      <4>3. Previous(req[q].operator, req[q].key) = {}
        BY <4>1 DEF KeyInv
      <4> QED BY <3>1, <3>2, <4>1, <4>2, <4>3 DEF Previous
    <3>5. ASSUME NEW e \in Evaluations', NEW f \in Evaluations',
                 evaluations'[e].operator = evaluations'[f].operator,
                 evaluations'[e].key = evaluations'[f].key
          PROVE  e = f
      BY <3>1, <3>2, <3>3, <3>5 DEF KeyInv, Previous
    <3> QED BY <2>1, <3>4, <3>5 DEF KeyInv
  <2> QED BY <1>1, <2>2, <2>3, HandlerFrame
<1>2. CASE Founder \/ Environment
  BY <1>2, OtherFrame DEF KeyInv, Previous, Evaluations, ledger, handlers
<1>3. CASE UNCHANGED vars
  BY <1>3 DEF KeyInv, Previous, Evaluations, vars
<1> QED BY <1>1, <1>2, <1>3 DEF Next

\* Retries and races under one idempotency key leave one evaluation, and no handler
\* that passed the lookup finds another evaluation under its key.
THEOREM KeysClaimedOnce == Spec => []KeysAreClaimedOnce
<1>1. Init => TypeInv /\ KeyInv
  BY InitType DEF Init, KeyInv, Claimed, Serialized, Evaluations
<1>2. TypeInv /\ KeyInv /\ [Next]_vars => TypeInv' /\ KeyInv'
  BY TypeStep, KeyStep
<1>3. KeyInv => KeysAreClaimedOnce
  BY DEF KeyInv, KeysAreClaimedOnce, Claimed
<1> QED BY <1>1, <1>2, <1>3, PTL DEF Spec

\* Nothing is committed while the service is paused: the row lock a submission holds
\* from its pause check to its commit keeps every pause out.
THEOREM PauseIsRespected == Spec => NoNewWorkWhilePaused
<1>1. Init => TypeInv /\ PauseInv
  BY InitType DEF Init, PauseInv, HoldsPause, Serialized
<1>2. TypeInv /\ PauseInv /\ [Next]_vars => TypeInv' /\ PauseInv'
  BY TypeStep, PauseStep
<1>3. TypeInv /\ PauseInv /\ [Next]_vars => [evaluations' # evaluations => ~pause.isPaused]_vars
  <2> SUFFICES ASSUME TypeInv, PauseInv, Next, evaluations' # evaluations
               PROVE  ~pause.isPaused
    BY DEF vars
  <2>1. PICK p \in Procs : Handler(p)
    BY OtherFrame DEF Next, ledger
  <2>2. Commit(p)
    BY <2>1, HandlerFrame DEF ledger
  <2> QED BY <2>2 DEF Commit, PauseInv, HoldsPause, Serialized
<1> QED BY <1>1, <1>2, <1>3, PTL DEF Spec, NoNewWorkWhilePaused

-----------------------------------------------------------------------------
(* The audit gate *)

\* A queue with no candidates is never left waiting for an audit nobody is shown,
\* and only held queues are audited.
OnlyHeldAreAudited ==
  \A a \in audits : /\ a.evaluation \in Evaluations
                     /\ evaluations[a.evaluation].rows # {}
                     /\ ~evaluations[a.evaluation].released

\* The stored gate count is the number of committed queues that count.
GateCountsCommitted ==
  gateCount = Cardinality({e \in Evaluations : evaluations[e].counts})

\* A decision is about a held candidate evaluation, is taken once, and a release
\* always rests on an approval.
AuditInv ==
  /\ OnlyHeldAreAudited
  /\ \A a, b \in audits : a.evaluation = b.evaluation => a = b
  /\ \A e \in releases : Approved(e)

\* The gate counter is the number of counted queues, and what it let through at
\* creation came after the limit or has no candidates.
GateInv ==
  /\ GateCountsCommitted
  /\ \A e \in Evaluations :
       evaluations[e].rows # {} /\ CountedBefore(e) < AuditQueueLimit => ~evaluations[e].released

ReviewInv == AuditInv /\ GateInv

\* An audit or a release names an existing evaluation.
LEMMA ReviewedExist ==
  ASSUME AuditInv
  PROVE  /\ releases \subseteq Evaluations
         /\ \A e : Approved(e) \/ Rejected(e) => e \in Evaluations
  BY DEF AuditInv, OnlyHeldAreAudited, Approved, Rejected

\* Releases and audits stay in step: approved is released, rejected is neither.
LEMMA AuditStep ==
  ASSUME TypeInv, AuditInv, [Next]_vars
  PROVE  AuditInv'
<1>1. ASSUME NEW p \in Procs, Handler(p) PROVE AuditInv'
  <2>1. UNCHANGED <<releases, audits>>
    BY <1>1, HandlerFrame DEF review
  <2>2. \A e \in Evaluations : e \in Evaluations' /\ evaluations'[e] = evaluations[e]
    BY <1>1, HandlerFrame, AppendedEvaluation DEF ledger, Evaluations
  <2> QED BY <2>1, <2>2 DEF AuditInv, OnlyHeldAreAudited, Approved
<1>2. ASSUME NEW e \in Evaluations, Approve(e) \/ Reject(e) PROVE AuditInv'
  <2>1. UNCHANGED evaluations
    BY <1>2 DEF Approve, Reject, ledger
  <2>2. PICK d \in {"approved", "rejected"} :
          /\ audits' = audits \cup {[evaluation |-> e, decision |-> d]}
          /\ releases' = IF d = "approved" THEN releases \cup {e} ELSE releases
    BY <1>2 DEF Approve, Reject, RecordAudit
  <2>3. Held(e) /\ ~Audited(e)
    BY <1>2 DEF Approve, Reject, RecordAudit
  <2>4. OnlyHeldAreAudited'
    BY <2>1, <2>2, <2>3 DEF AuditInv, OnlyHeldAreAudited, Held, Readable, Evaluations
  <2>5. \A a, b \in audits' : a.evaluation = b.evaluation => a = b
    BY <2>2, <2>3 DEF AuditInv, Audited
  <2>6. \A f \in releases' : Approved(f)'
    BY <2>2 DEF AuditInv, Approved
  <2> QED BY <2>4, <2>5, <2>6 DEF AuditInv
<1>3. CASE UNCHANGED <<evaluations, releases, audits>>
  BY <1>3 DEF AuditInv, OnlyHeldAreAudited, Approved, Evaluations
<1> QED
  BY <1>1, <1>2, <1>3 DEF Next, Founder, Environment, ManualPause, ResolvePause,
     SourceIntegrityPause, Promote, Tick, review, ledger, vars

\* The counted queues among the first m.
CountedUpTo(m) == {f \in 1..m : evaluations[f].counts}

\* The counted evaluations up to a number are finitely many, so they can be counted.
LEMMA CountedFinite ==
  ASSUME NEW m \in Nat
  PROVE  IsFiniteSet(CountedUpTo(m))
<1>1. IsFiniteSet(1..m)
  BY FS_Interval
<1> QED BY <1>1, FS_Subset DEF CountedUpTo

\* Each commit and each founder decision keeps the audit gate.
LEMMA GateStep ==
  ASSUME TypeInv, GateInv, [Next]_vars
  PROVE  GateInv'
<1>1. CASE UNCHANGED ledger
  BY <1>1 DEF GateInv, GateCountsCommitted, CountedBefore, Evaluations, ledger
<1>2. ASSUME NEW p \in Procs, Commit(p), Committed(p) PROVE GateInv'
  <2>0. PICK m \in Nat : m = Len(evaluations)
    BY LengthsType
  <2> DEFINE n == m + 1
  <2>1. /\ Evaluations = 1..m /\ Evaluations' = 1..n
        /\ Evaluations' = Evaluations \cup {n} /\ n \notin Evaluations
        /\ \A e \in Evaluations : evaluations'[e] = evaluations[e]
        /\ evaluations'[n] = NewEvaluation(p)
    BY <1>2, <2>0, AppendedEvaluation DEF Evaluations
  <2>2. /\ evaluations'[n].counts = req[p].counts
        /\ evaluations'[n].rows = req[p].rows
        /\ evaluations'[n].released = ~HeldByGate(req[p].rows, gateCount + 1)
    BY <2>1 DEF NewEvaluation
  <2>3. gateCount = Cardinality(CountedUpTo(m))
    BY <2>1 DEF GateInv, GateCountsCommitted, CountedUpTo
  <2>4. CountedUpTo(n)' = IF req[p].counts THEN CountedUpTo(m) \cup {n} ELSE CountedUpTo(m)
    BY <2>1, <2>2 DEF CountedUpTo, Evaluations
  <2>5. GateCountsCommitted'
    <3>1. IsFiniteSet(CountedUpTo(m)) /\ n \notin CountedUpTo(m)
      BY <2>1, CountedFinite DEF CountedUpTo
    <3>2. gateCount' = Cardinality(CountedUpTo(n)')
      BY <1>2, <2>3, <2>4, <3>1, FS_AddElement DEF Committed, GateAfter
    <3>3. CountedUpTo(n)' = {e \in Evaluations' : evaluations'[e].counts}
      BY <2>1 DEF CountedUpTo, Evaluations
    <3> QED BY <3>2, <3>3 DEF GateCountsCommitted
  <2>6. ASSUME NEW e \in Evaluations', evaluations'[e].rows # {},
               CountedBefore(e)' < AuditQueueLimit
        PROVE  ~evaluations'[e].released
    <3>1. \A f \in 1..(e - 1) : evaluations'[f] = evaluations[f]
      BY <2>1 DEF Evaluations
    <3>2. CountedBefore(e)' = CountedBefore(e)
      BY <3>1 DEF CountedBefore
    <3>3. CASE e \in Evaluations
      BY <2>1, <2>6, <3>2, <3>3 DEF GateInv
    <3>4. CASE e = n
      <4>1. CountedBefore(e) = gateCount
        BY <2>0, <2>1, <2>3, <3>4 DEF CountedBefore, CountedUpTo
      <4>2. gateCount \in Nat
        BY DEF TypeInv, TypeOK
      <4>3. req[p].rows # {} /\ gateCount + 1 <= AuditQueueLimit
        BY <2>2, <2>6, <3>2, <3>4, <4>1, <4>2, GateAssumption
      <4> QED BY <2>2, <3>4, <4>3 DEF HeldByGate
    <3> QED BY <2>1, <3>3, <3>4
  <2> QED BY <2>5, <2>6 DEF GateInv
<1> QED
  BY <1>1, <1>2, HandlerFrame, OtherFrame DEF Next, vars, ledger

\* The strengthened invariant holds in every reachable state.
LEMMA ReviewInduction == Spec => [](TypeInv /\ PauseInv /\ ReviewInv)
<1>1. Init => TypeInv /\ PauseInv
  BY InitType DEF Init, PauseInv, HoldsPause, Serialized
<1>2. Init => ReviewInv
  <2>1. Init => Evaluations = {}
    BY DEF Init, Evaluations
  <2> QED BY <2>1, FS_EmptySet
          DEF Init, ReviewInv, AuditInv, OnlyHeldAreAudited, GateInv, GateCountsCommitted
<1>3. TypeInv /\ PauseInv /\ ReviewInv /\ [Next]_vars => (TypeInv /\ PauseInv /\ ReviewInv)'
  BY TypeStep, PauseStep, AuditStep, GateStep DEF ReviewInv
<1> QED BY <1>1, <1>2, <1>3, PTL DEF Spec

\* The first AuditQueueLimit counted queues, and the refreshes committed among them,
\* are readable with candidates only once a founder approved them.
THEOREM GateIsKept == Spec => []AuditGate
<1>1. ReviewInv => AuditGate
  BY DEF ReviewInv, AuditInv, GateInv, AuditGate, Readable
<1> QED BY <1>1, ReviewInduction, PTL

\* What a founder rejected never becomes readable, whatever is submitted, refreshed,
\* audited again or resumed later.
THEOREM RejectionIsFinal == Spec => []RejectedNeverReadable
<1>1. ReviewInv => RejectedNeverReadable
  BY DEF ReviewInv, AuditInv, OnlyHeldAreAudited, RejectedNeverReadable, Rejected, Approved, Readable
<1> QED BY <1>1, ReviewInduction, PTL

-----------------------------------------------------------------------------
(* Revisions, rows and freshness *)

\* Revisions and evaluations are only added, and a release is not taken back.
Grows ==
  /\ Current' \in Nat /\ Current <= Current'
  /\ \A v \in 1..Current : revisions'[v] = revisions[v]
  /\ Evaluations \subseteq Evaluations'
  /\ \A e \in Evaluations : evaluations'[e] = evaluations[e]
  /\ releases \subseteq releases'

\* Every step lets the tables grow.
LEMMA Growth == ASSUME TypeInv, [Next]_vars PROVE Grows
<1>1. Current \in Nat /\ Len(evaluations) \in Nat
  BY LengthsType
<1>2. CASE UNCHANGED <<revisions, evaluations, releases>>
  BY <1>1, <1>2 DEF Grows, Current, Evaluations
<1>3. ASSUME NEW p \in Procs, Handler(p) PROVE Grows
  <2>1. UNCHANGED <<revisions, releases>>
    BY <1>3, HandlerFrame DEF source, review
  <2>2. CASE UNCHANGED ledger
    BY <1>2, <2>1, <2>2 DEF ledger
  <2>3. CASE Commit(p) /\ Committed(p)
    BY <1>1, <2>1, <2>3, AppendedEvaluation DEF Grows, Current
  <2> QED BY <1>3, <2>2, <2>3, HandlerFrame
<1>4. CASE Promote
  <2>1. PICK observed \in 0..now, records \in SourceStates :
          revisions' = Append(revisions, [observed |-> observed, records |-> records])
    BY <1>4 DEF Promote
  <2>2. revisions \in Seq([observed : Nat, records : SourceStates])
        /\ [observed |-> observed, records |-> records] \in [observed : Nat, records : SourceStates]
    BY DEF TypeInv, TypeOK
  <2>3. /\ Len(revisions') = Len(revisions) + 1
        /\ \A v \in 1..Len(revisions) : revisions'[v] = revisions[v]
    BY <2>1, <2>2, AppendProperties
  <2>4. UNCHANGED <<evaluations, releases>>
    BY <1>4 DEF Promote, ledger, review
  <2> QED BY <1>1, <2>3, <2>4 DEF Grows, Current, Evaluations
<1>5. CASE \E e \in Evaluations : Approve(e)
  <2>1. releases \subseteq releases' /\ UNCHANGED <<revisions, evaluations>>
    BY <1>5 DEF Approve, source, ledger
  <2> QED BY <1>1, <2>1 DEF Grows, Current, Evaluations
<1>6. CASE \/ \E e \in Evaluations : Reject(e)
           \/ ManualPause \/ ResolvePause \/ SourceIntegrityPause \/ Tick
  BY <1>2, <1>6 DEF Reject, ManualPause, ResolvePause, SourceIntegrityPause, Tick,
     source, ledger, review
<1>7. CASE UNCHANGED vars
  BY <1>2, <1>7 DEF vars
<1> QED BY <1>3, <1>4, <1>5, <1>6, <1>7 DEF Next, Founder, Environment

\* What a row of an evaluation, or the locals that become one, say of its revision.
IsFresh(at, rev) == \E v \in 1..rev : at - revisions[v].observed <= SourceWindow
OneRevision(r) ==
  r.rows = {} \/ r.rows = Candidates(r.content, revisions[r.revision].records)

FreshLocals(l, r) ==
  /\ l = "revision" => IsFresh(r.evaluatedAt, Current)
  /\ l \in {"records", "commit"} => r.revision \in 1..Current /\ IsFresh(r.evaluatedAt, r.revision)
  /\ l = "commit" => OneRevision(r)

FreshRow(e) ==
  /\ evaluations[e].revision \in 1..Current
  /\ IsFresh(evaluations[e].evaluatedAt, evaluations[e].revision)
  /\ OneRevision(evaluations[e])

FreshInv ==
  /\ \A e \in Evaluations : FreshRow(e)
  /\ \A p \in Procs : FreshLocals(pc[p], req[p])

\* What was known of a handler's locals stays true while others act.
LEMMA FreshLocalsKept ==
  ASSUME TypeInv, Grows, NEW l, NEW r \in Requests, FreshLocals(l, r)
  PROVE  FreshLocals(l, r)'
<1>1. Current \in Nat
  BY LengthsType
<1>2. ASSUME NEW at \in Nat, NEW rev \in Nat, rev <= Current, IsFresh(at, rev)
      PROVE  \A n \in Nat : rev <= n => IsFresh(at, n)'
  BY <1>1, <1>2 DEF IsFresh, Grows
<1>3. r.evaluatedAt \in Nat /\ r.revision \in Nat
  BY DEF Requests
<1>4. l = "revision" => IsFresh(r.evaluatedAt, Current)'
  <2>1. l = "revision" => IsFresh(r.evaluatedAt, Current)
    BY DEF FreshLocals
  <2> QED BY <1>1, <1>2, <1>3, <2>1 DEF IsFresh, Grows
<1>5. l \in {"records", "commit"} =>
        r.revision \in 1..Current' /\ IsFresh(r.evaluatedAt, r.revision)'
  BY <1>1, <1>2, <1>3 DEF FreshLocals, Grows
<1>6. l = "commit" => OneRevision(r)'
  BY <1>1 DEF FreshLocals, OneRevision, Grows
<1> QED BY <1>4, <1>5, <1>6 DEF FreshLocals

\* So does what is known of evaluations.
LEMMA FreshRowsKept ==
  ASSUME TypeInv, FreshInv, Grows, NEW e \in Evaluations
  PROVE  FreshRow(e)'
<1>1. Current \in Nat
  BY LengthsType
<1>2. evaluations'[e] = evaluations[e]
  BY DEF Grows
<1>3. evaluations[e].revision \in 1..Current
  BY DEF FreshInv, FreshRow
<1>4. \A v \in 1..Current : revisions'[v] = revisions[v] /\ v \in 1..Current'
  BY <1>1 DEF Grows
<1>5. \A v \in 1..evaluations[e].revision : v \in 1..Current
  BY <1>1, <1>3
<1> QED BY <1>2, <1>3, <1>4, <1>5 DEF FreshInv, FreshRow, IsFresh, OneRevision

\* A handler's statement leaves locals that say what they must of the revision it read.
LEMMA FreshMove ==
  ASSUME TypeInv, FreshInv, NEW p \in Procs, Handler(p)
  PROVE  FreshLocals(pc'[p], req'[p])
<1>1. /\ pc \in [Procs -> Labels] /\ req \in [Procs -> Requests]
      /\ req[p] \in Requests /\ LocalsOK(pc[p], req[p]) /\ FreshLocals(pc[p], req[p])
      /\ Current \in Nat
  BY LengthsType DEF TypeInv, TypeOK, FreshInv
<1>2. CASE pc'[p] \notin {"revision", "records", "commit"}
  BY <1>2 DEF FreshLocals
<1>3. CASE CheckFreshness(p) /\ pc'[p] = "revision"
  <2>1. UNCHANGED req /\ ~Stale(req[p].evaluatedAt, CurrentObservation)
    BY <1>1, <1>3 DEF CheckFreshness, Reply, Continue
  <2>2. Current # 0 /\ ~(req[p].evaluatedAt - revisions[Current].observed > SourceWindow)
    BY <2>1 DEF Stale, CurrentObservation
  <2>3. req[p].evaluatedAt \in Nat /\ revisions[Current].observed \in Nat
    <3>1. CurrentObservation \in Nat \cup {NoObservation} /\ CurrentObservation # NoObservation
      BY <2>1, LengthsType DEF Stale
    <3> QED BY <1>1, <2>2, <3>1 DEF Requests, CurrentObservation
  <2>4. IsFresh(req[p].evaluatedAt, Current)
    BY <1>1, <2>2, <2>3, WindowAssumption DEF IsFresh
  <2> QED BY <1>3, <2>1, <2>4 DEF FreshLocals
<1>4. CASE ReadRevision(p)
  <2>1. pc'[p] = "records" /\ req'[p] = [req[p] EXCEPT !.revision = Current]
    BY <1>1, <1>4 DEF ReadRevision, Continue
  <2>2. req'[p].revision = Current /\ req'[p].evaluatedAt = req[p].evaluatedAt
    BY <1>1, <2>1 DEF Requests
  <2>3. Current # 0 /\ IsFresh(req[p].evaluatedAt, Current)
    BY <1>1, <1>4 DEF ReadRevision, FreshLocals, LocalsOK
  <2> QED BY <1>1, <2>1, <2>2, <2>3 DEF FreshLocals
<1>5. CASE ReadRecords(p)
  <2> DEFINE found == Candidates(req[p].content, CurrentRecords(req[p].revision))
  <2>1. pc'[p] = "commit" /\ req'[p] = [req[p] EXCEPT !.rows = found]
    BY <1>1, <1>5 DEF ReadRecords, Continue
  <2>2. /\ req'[p].revision = req[p].revision /\ req'[p].evaluatedAt = req[p].evaluatedAt
        /\ req'[p].content = req[p].content /\ req'[p].rows = found
    BY <1>1, <2>1 DEF Requests
  <2>3. req[p].revision \in 1..Current /\ IsFresh(req[p].evaluatedAt, req[p].revision)
    BY <1>1, <1>5 DEF ReadRecords, FreshLocals
  <2>4. CASE req[p].revision = Current
    BY <2>1, <2>2, <2>3, <2>4 DEF FreshLocals, OneRevision, CurrentRecords
  <2>5. CASE req[p].revision # Current
    <3>1. found = {}
      BY <2>5 DEF CurrentRecords, Candidates
    <3> QED BY <2>1, <2>2, <2>3, <3>1 DEF FreshLocals, OneRevision
  <2> QED BY <2>4, <2>5
<1>6. \/ CheckFreshness(p) /\ pc'[p] = "revision"
      \/ ReadRevision(p) \/ ReadRecords(p)
      \/ pc'[p] \notin {"revision", "records", "commit"}
  <2> USE DEF Continue, Reply
  <2>1. CASE Submit(p) \/ Refresh(p) \/ Abort(p) \/ Return(p)
    BY <1>1, <2>1 DEF Submit, Refresh, Abort, Return
  <2>2. CASE ReadPredecessor(p) \/ ReadCurrentRevision(p) \/ ReadCurrentObservation(p)
    BY <1>1, <2>2 DEF ReadPredecessor, ReadCurrentRevision, ReadCurrentObservation
  <2>3. CASE ReadSuccessor(p)
    BY <1>1, <2>3 DEF ReadSuccessor
  <2>4. CASE ClaimKey(p) \/ LockPause(p) \/ Commit(p)
    BY <1>1, <2>4 DEF ClaimKey, LockPause, Commit
  <2>5. CASE CheckFreshness(p)
    BY <1>1, <2>5 DEF CheckFreshness
  <2> QED BY <1>1, <2>1, <2>2, <2>3, <2>4, <2>5, HandlerFrame DEF Handler, Statement
<1> QED BY <1>2, <1>3, <1>4, <1>5, <1>6

\* Every step keeps rows to their revisions and revisions fresh.
LEMMA FreshStep == ASSUME TypeInv, FreshInv, [Next]_vars PROVE FreshInv'
<1>1. Grows
  BY Growth
<1>2. ASSUME NEW q \in Procs, FreshLocals(pc'[q], req'[q])
      PROVE  FreshLocals(pc[q], req[q])'
  <2>1. req'[q] \in Requests
    BY TypeStep DEF TypeInv, TypeOK
  <2>2. PICK l : l = pc'[q]
    OBVIOUS
  <2>5. PICK r \in Requests : r = req'[q]
    BY <2>1
  <2>3. FreshLocals(l, r)
    BY <1>2, <2>2, <2>5
  <2>4. FreshLocals(l, r)'
    BY <1>1, <2>3, FreshLocalsKept
  <2> QED BY <2>2, <2>5, <2>4 DEF FreshLocals, OneRevision, IsFresh
<1>3. ASSUME NEW q \in Procs PROVE FreshLocals(pc'[q], req'[q])
  <2>1. CASE Handler(q)
    BY <2>1, FreshMove
  <2>2. CASE pc'[q] = pc[q] /\ req'[q] = req[q]
    BY <2>2 DEF FreshInv
  <2>3. (pc'[q] = pc[q] /\ req'[q] = req[q]) \/ Handler(q)
    BY HandlerFrame, OtherFrame DEF Next, vars, handlers
  <2> QED BY <2>1, <2>2, <2>3
<1>4. \A e \in Evaluations : FreshRow(e)'
  BY <1>1, FreshRowsKept
<1>5. ASSUME NEW p \in Procs, Commit(p), Committed(p)
      PROVE  FreshInv'
  <2> DEFINE new == NewEvaluation(p)
  <2>0. PICK n : n = Len(evaluations) + 1
    OBVIOUS
  <2>1. evaluations'[n] = new /\ Evaluations' = Evaluations \cup {n}
    BY <1>5, <2>0, AppendedEvaluation
  <2>2. /\ new.revision = req[p].revision /\ new.evaluatedAt = req[p].evaluatedAt
        /\ new.content = req[p].content /\ new.rows = req[p].rows
    BY DEF NewEvaluation
  <2>3. /\ req[p].revision \in 1..Current /\ IsFresh(req[p].evaluatedAt, req[p].revision)
        /\ OneRevision(req[p])
    BY <1>5 DEF Commit, FreshInv, FreshLocals
  <2>4. UNCHANGED revisions /\ Current' = Current
    BY <1>5 DEF Commit, source, Current
  <2> HIDE DEF new
  <2>5. FreshRow(n)'
    BY <2>1, <2>2, <2>3, <2>4 DEF FreshRow, IsFresh, OneRevision
  <2> QED BY <1>2, <1>3, <1>4, <2>1, <2>5 DEF FreshInv
<1>6. CASE Evaluations' = Evaluations
  BY <1>2, <1>3, <1>4, <1>6 DEF FreshInv
<1>7. CASE \E p \in Procs : Commit(p) /\ Committed(p)
  BY <1>5, <1>7
<1>8. Evaluations' = Evaluations \/ \E p \in Procs : Commit(p) /\ Committed(p)
  BY HandlerFrame, OtherFrame DEF Next, vars, ledger, Evaluations
<1> QED BY <1>6, <1>7, <1>8

\* Every state keeps them.
LEMMA FreshInduction == Spec => [](TypeInv /\ FreshInv)
<1>1. Init => TypeInv /\ FreshInv
  BY InitType DEF Init, FreshInv, FreshLocals, Evaluations
<1>2. TypeInv /\ FreshInv /\ [Next]_vars => (TypeInv /\ FreshInv)'
  BY TypeStep, FreshStep
<1> QED BY <1>1, <1>2, PTL DEF Spec

\* Whatever is promoted between the statements of a submission, the rows of an evaluation
\* are the candidates of its revision, or none.
THEOREM RowsAreOfOneRevision == Spec => []RowsOfOneRevision
<1>1. FreshInv => RowsOfOneRevision
  BY DEF FreshInv, FreshRow, OneRevision, RowsOfOneRevision
<1> QED BY <1>1, FreshInduction, PTL

\* Every evaluation rests on a revision that was fresh while its request was in flight,
\* or on a later one, for every window and every order of observation times.
THEOREM FreshnessIsChecked == Spec => []FreshnessWasChecked
<1>1. FreshInv => FreshnessWasChecked
  BY DEF FreshInv, FreshRow, IsFresh, FreshnessWasChecked
<1> QED BY <1>1, FreshInduction, PTL

-----------------------------------------------------------------------------
(* Refresh chains and answers *)

\* The labels of a refresh that has seen its predecessor.
Seen == (Refreshing \ {"predecessor"}) \cup Submitting

\* A refresh stays with the inputs it was asked to refresh, and goes on to later revisions
\* only; the key it submits under names the revision it does not fall behind.
FollowsAsked(r) ==
  /\ {r.asked, r.from} \subseteq {0} \cup Evaluations /\ (r.from = 0 <=> r.asked = 0)
  /\ r.from # 0 => /\ evaluations[r.from].content = evaluations[r.asked].content
                   /\ evaluations[r.asked].revision <= evaluations[r.from].revision
SawPredecessor(r) == Readable(r.from) /\ evaluations[r.from].operator = r.operator
ReadLater(r) == evaluations[r.from].revision <= r.revision /\ r.revision <= Current
SubmitsLater(r) ==
  /\ r.content = evaluations[r.from].content
  /\ r.key \in Nat \X Nat /\ evaluations[r.from].revision < r.key[2]
  /\ r.key[2] <= r.revision /\ r.revision <= Current
IsAnswerTo(r, e) ==
  /\ e \in {0} \cup Evaluations
  /\ e # 0 => /\ evaluations[e].operator = r.operator
              /\ r.asked = 0 => evaluations[e].content = r.content
              /\ r.asked # 0 => /\ evaluations[e].content = evaluations[r.asked].content
                                /\ evaluations[e].revision >= evaluations[r.asked].revision

ChainLocals(l, r) ==
  /\ FollowsAsked(r)
  /\ l \in Seen /\ r.from # 0 => SawPredecessor(r)
  /\ l \in {"currentObservation", "successor"} => r.from # 0 /\ ReadLater(r)
  /\ l \in Submitting => IF r.from = 0 THEN r.key \notin Nat \X Nat ELSE SubmitsLater(r)
  /\ l = "answered" => IsAnswerTo(r, r.reply.evaluation)

ChainLink(l) ==
  LET old == evaluations[l.predecessor]
      new == evaluations[l.successor]
  IN /\ l.predecessor \in Evaluations /\ l.successor \in Evaluations
     /\ l.predecessor < l.successor
     /\ old.operator = new.operator /\ old.content = new.content
     /\ old.revision < new.revision
     /\ Readable(l.predecessor)
     /\ l.delta = Delta(old.rows, new.rows)

KeptUp(e) == evaluations[e].key \in Nat \X Nat => evaluations[e].key[2] <= evaluations[e].revision

ChainInv ==
  /\ \A e \in Evaluations : KeptUp(e)
  /\ \A l \in links : ChainLink(l)
  /\ \A l, m \in links : l.predecessor = m.predecessor \/ l.successor = m.successor => l = m
  /\ \A p \in Procs : ChainLocals(pc[p], req[p])

\* What was known of a handler's locals stays true while others act.
LEMMA ChainLocalsKept ==
  ASSUME TypeInv, Grows, NEW l, NEW r \in Requests, ChainLocals(l, r)
  PROVE  ChainLocals(l, r)'
<1>1. Current \in Nat /\ r.revision \in Nat /\ 0 \notin Evaluations
  BY LengthsType DEF Requests, Evaluations
<1>2. \A e \in Evaluations :
        e \in Evaluations' /\ evaluations'[e] = evaluations[e] /\ (Readable(e) => Readable(e)')
  BY DEF Grows, Readable
<1>3. FollowsAsked(r)'
  BY <1>2 DEF ChainLocals, FollowsAsked
<1>4. {r.asked, r.from, r.reply.evaluation} \subseteq {0} \cup Evaluations \/ l # "answered"
  BY DEF ChainLocals, FollowsAsked, IsAnswerTo
<1>5. r.from # 0 => r.from \in Evaluations
  BY DEF ChainLocals, FollowsAsked
<1>6. l \in Seen /\ r.from # 0 => SawPredecessor(r)'
  BY <1>2, <1>5 DEF ChainLocals, SawPredecessor
<1>7. ASSUME l \in {"currentObservation", "successor"} PROVE r.from # 0 /\ ReadLater(r)'
  <2>1. r.from # 0 /\ ReadLater(r) /\ evaluations'[r.from] = evaluations[r.from]
    BY <1>2, <1>5, <1>7 DEF ChainLocals
  <2> QED BY <1>1, <2>1 DEF ReadLater, Grows
<1>8. ASSUME l \in Submitting, r.from # 0 PROVE SubmitsLater(r)'
  <2>1. SubmitsLater(r) /\ evaluations'[r.from] = evaluations[r.from]
    BY <1>2, <1>5, <1>8 DEF ChainLocals
  <2> QED BY <1>1, <2>1 DEF SubmitsLater, Grows
<1>9. ASSUME l = "answered" PROVE IsAnswerTo(r, r.reply.evaluation)'
  <2>1. IsAnswerTo(r, r.reply.evaluation)
    BY <1>9 DEF ChainLocals
  <2>2. r.asked # 0 => evaluations'[r.asked] = evaluations[r.asked]
    BY <1>2, <1>4, <1>9
  <2>3. r.reply.evaluation # 0 =>
          /\ r.reply.evaluation \in Evaluations'
          /\ evaluations'[r.reply.evaluation] = evaluations[r.reply.evaluation]
    BY <1>2, <1>4, <1>9
  <2> QED BY <2>1, <2>2, <2>3 DEF IsAnswerTo
<1> QED BY <1>3, <1>6, <1>7, <1>8, <1>9 DEF ChainLocals

\* So does what is known of evaluations and links.
LEMMA ChainRowsKept ==
  ASSUME TypeInv, ChainInv, Grows
  PROVE  /\ \A e \in Evaluations : KeptUp(e)'
         /\ \A l \in links : ChainLink(l)'
<1>1. \A e \in Evaluations :
        e \in Evaluations' /\ evaluations'[e] = evaluations[e] /\ (Readable(e) => Readable(e)')
  BY DEF Grows, Readable
<1>2. \A e \in Evaluations : KeptUp(e)'
  BY <1>1 DEF ChainInv, KeptUp
<1>3. ASSUME NEW l \in links PROVE ChainLink(l)'
  <2>1. ChainLink(l)
    BY DEF ChainInv
  <2> QED BY <1>1, <2>1 DEF ChainLink
<1> QED BY <1>2, <1>3

\* An answer is known to fit before it is given.
LEMMA AnswerMove ==
  ASSUME TypeInv, NEW p \in Procs, ChainLocals(pc[p], req[p]), NEW kind, NEW e,
         Reply(p, kind, e), IsAnswerTo(req[p], e)
  PROVE  ChainLocals(pc'[p], req'[p])
<1>1. req[p] \in Requests
  BY DEF TypeInv, TypeOK
<1>2. pc'[p] = "answered" /\ req'[p] = [req[p] EXCEPT !.reply = [kind |-> kind, evaluation |-> e]]
  BY DEF Reply, Continue, TypeInv, TypeOK
<1>3. /\ req'[p].asked = req[p].asked /\ req'[p].from = req[p].from
      /\ req'[p].operator = req[p].operator /\ req'[p].content = req[p].content
      /\ req'[p].reply.evaluation = e
  BY <1>1, <1>2 DEF Requests
<1>4. FollowsAsked(req'[p]) /\ IsAnswerTo(req'[p], e)
  BY <1>3 DEF ChainLocals, FollowsAsked, IsAnswerTo
<1> QED BY <1>2, <1>3, <1>4 DEF ChainLocals, Seen, Refreshing, Submitting, Serialized

\* A handler's statement but a successful commit keeps a refresh on its chain.
LEMMA ChainMove ==
  ASSUME TypeInv, FreshInv, ChainInv, NEW p \in Procs, Handler(p), UNCHANGED evaluations
  PROVE  ChainLocals(pc'[p], req'[p])
<1>0. /\ pc \in [Procs -> Labels] /\ req \in [Procs -> Requests]
      /\ req[p] \in Requests /\ LocalsOK(pc[p], req[p]) /\ ChainLocals(pc[p], req[p])
      /\ Current \in Nat /\ Len(evaluations) \in Nat
      /\ \A e \in Evaluations : evaluations[e] \in EvaluationRows /\ e # 0
  BY LengthsType DEF TypeInv, TypeOK, ChainInv, Evaluations
<1>1. IsAnswerTo(req[p], 0)
  BY DEF IsAnswerTo
<1> USE DEF Continue
<1>2. CASE Submit(p)
  <2>1. PICK o \in Operators, k \in Keys, c \in Contents :
          req' = [req EXCEPT ![p] = [NoRequest EXCEPT
            !.operator = o, !.key = SubmissionKey(k), !.content = c,
            !.counts = CountsTowardAuditGate, !.evaluatedAt = now]]
    BY <1>2 DEF Submit
  <2>2. pc'[p] = "idempotency" /\ req'[p].from = 0 /\ req'[p].asked = 0 /\ req'[p].key = <<k>>
    BY <1>0, <1>2, <2>1 DEF Submit, NoRequest, SubmissionKey
  <2>3. <<k>> \notin Nat \X Nat
    OBVIOUS
  <2> QED BY <2>2, <2>3 DEF ChainLocals, FollowsAsked, Submitting, Serialized
<1>3. CASE Refresh(p)
  <2>1. PICK o \in Operators, e \in Evaluations :
          req' = [req EXCEPT ![p] = [NoRequest EXCEPT !.operator = o, !.asked = e, !.from = e]]
    BY <1>3 DEF Refresh
  <2>2. pc'[p] = "predecessor" /\ req'[p].from = e /\ req'[p].asked = e
    BY <1>0, <1>3, <2>1 DEF Refresh, NoRequest
  <2>3. evaluations[e].revision \in Nat
    BY <1>0 DEF EvaluationRows
  <2> QED BY <1>0, <2>2, <2>3
          DEF ChainLocals, FollowsAsked, Seen, Refreshing, Submitting, Serialized
<1>4. CASE ReadPredecessor(p)
  <2>1. CASE Visible(p) /\ pc' = [pc EXCEPT ![p] = "currentRevision"] /\ UNCHANGED req
    <3>1. pc'[p] = "currentRevision" /\ req'[p] = req[p]
      BY <1>0, <2>1
    <3> QED BY <1>0, <2>1, <3>1
            DEF ChainLocals, SawPredecessor, Visible, Submitting, Serialized
  <2> QED BY <1>0, <1>1, <1>4, <2>1, AnswerMove DEF ReadPredecessor
<1>5. CASE ReadCurrentRevision(p)
  <2>1. pc'[p] = "currentObservation" /\ req'[p] = [req[p] EXCEPT !.revision = Current]
    BY <1>0, <1>5 DEF ReadCurrentRevision
  <2>2. /\ req'[p].revision = Current /\ req'[p].from = req[p].from
        /\ req'[p].asked = req[p].asked /\ req'[p].operator = req[p].operator
    BY <1>0, <2>1 DEF Requests
  <2>3. req[p].from \in Evaluations /\ req[p].from # 0
    BY <1>0, <1>5 DEF ReadCurrentRevision, LocalsOK, Refreshing, Evaluations
  <2>4. evaluations[req[p].from].revision <= Current
    BY <1>0, <2>3 DEF FreshInv, FreshRow
  <2>5. FollowsAsked(req'[p]) /\ SawPredecessor(req'[p]) /\ ReadLater(req'[p])
    BY <1>0, <1>5, <2>2, <2>3, <2>4
       DEF ReadCurrentRevision, ChainLocals, FollowsAsked, SawPredecessor, ReadLater, Seen, Refreshing
  <2> QED BY <2>1, <2>2, <2>3, <2>5 DEF ChainLocals, Submitting, Serialized
<1>6. CASE ReadCurrentObservation(p)
  <2>1. pc'[p] = "successor" /\ req'[p] = [req[p] EXCEPT !.observed = CurrentObservation]
    BY <1>0, <1>6 DEF ReadCurrentObservation
  <2>2. /\ req'[p].revision = req[p].revision /\ req'[p].from = req[p].from
        /\ req'[p].asked = req[p].asked /\ req'[p].operator = req[p].operator
    BY <1>0, <2>1 DEF Requests
  <2> QED BY <1>0, <1>6, <2>1, <2>2
          DEF ReadCurrentObservation, ChainLocals, FollowsAsked, SawPredecessor, ReadLater,
              Seen, Refreshing, Submitting, Serialized
<1>7. CASE ReadSuccessor(p)
  <2> DEFINE e == req[p].from
             rev == req[p].revision
  <2>1. /\ e \in Evaluations /\ FollowsAsked(req[p]) /\ SawPredecessor(req[p])
        /\ req[p].asked \in Evaluations /\ evaluations[e].revision <= rev /\ rev <= Current
    BY <1>0, <1>7 DEF ReadSuccessor, ChainLocals, FollowsAsked, ReadLater, Seen, Refreshing
  <2>2. \A f \in Evaluations : evaluations[f].revision \in Nat
    BY <1>0 DEF EvaluationRows
  <2>3. ASSUME NEW s \in Successors(e)
        PROVE  /\ s \in Evaluations /\ evaluations[s].operator = req[p].operator
               /\ evaluations[s].content = evaluations[req[p].asked].content
               /\ evaluations[s].revision >= evaluations[req[p].asked].revision
    <3>1. PICK l \in links : l.predecessor = e /\ l.successor = s
      BY DEF Successors
    <3>2. /\ s \in Evaluations /\ evaluations[e].operator = evaluations[s].operator
          /\ evaluations[e].content = evaluations[s].content
          /\ evaluations[e].revision < evaluations[s].revision
      BY <3>1 DEF ChainInv, ChainLink
    <3> QED BY <1>0, <2>1, <2>2, <3>2 DEF FollowsAsked, SawPredecessor
  <2>4. CASE Reply(p, "unavailable", 0)
    BY <1>0, <1>1, <2>4, AnswerMove
  <2>5. CASE \E s \in Successors(e) \cup {e} : Reply(p, "unchanged", s)
    <3>1. PICK s \in Successors(e) \cup {e} : Reply(p, "unchanged", s)
      BY <2>5
    <3>2. IsAnswerTo(req[p], s)
      BY <1>0, <2>1, <2>3 DEF IsAnswerTo, FollowsAsked, SawPredecessor
    <3> QED BY <1>0, <3>1, <3>2, AnswerMove
  <2>6. CASE \E s \in Successors(e) :
               req' = [req EXCEPT ![p].from = s] /\ pc' = [pc EXCEPT ![p] = "predecessor"]
    <3>1. PICK s \in Successors(e) :
            req' = [req EXCEPT ![p].from = s] /\ pc' = [pc EXCEPT ![p] = "predecessor"]
      BY <2>6
    <3>2. pc'[p] = "predecessor" /\ req'[p].from = s /\ req'[p].asked = req[p].asked
      BY <1>0, <3>1 DEF Requests
    <3>3. FollowsAsked(req'[p])
      BY <1>0, <2>1, <2>3, <3>2 DEF FollowsAsked
    <3> QED BY <3>2, <3>3 DEF ChainLocals, Seen, Refreshing, Submitting, Serialized
  <2>7. CASE /\ evaluations[e].revision # rev
             /\ req' = [req EXCEPT ![p].key = RefreshKey(e, rev),
                                  ![p].content = evaluations[e].content, ![p].evaluatedAt = now]
             /\ pc' = [pc EXCEPT ![p] = "idempotency"]
    <3>1. /\ pc'[p] = "idempotency" /\ req'[p].from = e /\ req'[p].asked = req[p].asked
          /\ req'[p].operator = req[p].operator /\ req'[p].revision = rev
          /\ req'[p].content = evaluations[e].content /\ req'[p].key = <<e, rev>>
      BY <1>0, <2>7 DEF Requests, RefreshKey
    <3>2. e \in Nat /\ rev \in Nat /\ e # 0 /\ <<e, rev>>[2] = rev
      BY <1>0, <2>1 DEF Requests
    <3>3. <<e, rev>> \in Nat \X Nat
      BY <3>2
    <3>4. evaluations[e].revision < rev
      BY <1>0, <2>1, <2>2, <2>7, <3>2
    <3>5. SubmitsLater(req'[p]) /\ FollowsAsked(req'[p]) /\ SawPredecessor(req'[p])
      BY <2>1, <3>1, <3>2, <3>3, <3>4 DEF SubmitsLater, FollowsAsked, SawPredecessor
    <3> QED BY <3>1, <3>2, <3>5 DEF ChainLocals
  <2> QED BY <1>7, <2>4, <2>5, <2>6, <2>7 DEF ReadSuccessor
<1>8. CASE ClaimKey(p)
  <2>1. CASE UNCHANGED req /\ pc' = [pc EXCEPT ![p] = "pause"]
    BY <1>0, <1>8, <2>1 DEF ClaimKey, ChainLocals, Seen, Submitting, Serialized, Refreshing
  <2>2. CASE \E e \in Previous(req[p].operator, req[p].key) :
               SameSubmission(e, p) /\ Reply(p, "replayed", e)
    <3>1. PICK e \in Previous(req[p].operator, req[p].key) :
            SameSubmission(e, p) /\ Reply(p, "replayed", e)
      BY <2>2
    <3>2. /\ e \in Evaluations /\ evaluations[e].operator = req[p].operator
          /\ evaluations[e].key = req[p].key /\ evaluations[e].content = req[p].content
      BY <3>1 DEF Previous, SameSubmission
    <3>3. ASSUME req[p].asked # 0
          PROVE  /\ evaluations[e].content = evaluations[req[p].asked].content
                 /\ evaluations[e].revision >= evaluations[req[p].asked].revision
      <4>1. FollowsAsked(req[p]) /\ SubmitsLater(req[p])
            /\ req[p].from \in Evaluations /\ req[p].asked \in Evaluations
        BY <1>0, <1>8, <3>3 DEF ClaimKey, ChainLocals, FollowsAsked, Submitting
      <4>2. req[p].key[2] <= evaluations[e].revision
        BY <3>2, <4>1 DEF ChainInv, KeptUp, SubmitsLater
      <4>3. req[p].key[2] \in Nat /\ \A f \in Evaluations : evaluations[f].revision \in Nat
        BY <1>0, <4>1 DEF EvaluationRows, SubmitsLater
      <4> QED BY <1>0, <3>2, <4>1, <4>2, <4>3 DEF FollowsAsked, SubmitsLater
    <3>4. IsAnswerTo(req[p], e)
      BY <3>2, <3>3 DEF IsAnswerTo
    <3> QED BY <1>0, <3>1, <3>4, AnswerMove
  <2> QED BY <1>0, <1>1, <1>8, <2>1, <2>2, AnswerMove DEF ClaimKey
<1>9. CASE LockPause(p) \/ CheckFreshness(p)
  <2>1. CASE pc'[p] \in {"freshness", "revision"} /\ UNCHANGED req
    BY <1>0, <1>9, <2>1
       DEF LockPause, CheckFreshness, ChainLocals, Seen, Submitting, Serialized, Refreshing
  <2> QED BY <1>0, <1>1, <1>9, <2>1, AnswerMove DEF LockPause, CheckFreshness
<1>10. CASE ReadRevision(p)
  <2>1. pc'[p] = "records" /\ req'[p] = [req[p] EXCEPT !.revision = Current]
    BY <1>0, <1>10 DEF ReadRevision
  <2>2. /\ req'[p].revision = Current /\ req'[p].from = req[p].from /\ req'[p].key = req[p].key
        /\ req'[p].asked = req[p].asked /\ req'[p].operator = req[p].operator
        /\ req'[p].content = req[p].content
    BY <1>0, <2>1 DEF Requests
  <2>3. /\ FollowsAsked(req[p]) /\ (req[p].from # 0 => SawPredecessor(req[p]))
        /\ IF req[p].from = 0 THEN req[p].key \notin Nat \X Nat ELSE SubmitsLater(req[p])
    BY <1>0, <1>10 DEF ReadRevision, ChainLocals, Seen, Submitting, Serialized
  <2>4. req[p].from # 0 => SubmitsLater(req'[p])
    BY <1>0, <2>2, <2>3 DEF SubmitsLater, Requests
  <2> QED BY <2>1, <2>2, <2>3, <2>4
          DEF ChainLocals, FollowsAsked, SawPredecessor, Seen, Refreshing, Submitting, Serialized
<1>11. CASE ReadRecords(p)
  <2>1. pc'[p] = "commit" /\ \E found : req'[p] = [req[p] EXCEPT !.rows = found]
    BY <1>0, <1>11 DEF ReadRecords
  <2>2. /\ req'[p].revision = req[p].revision /\ req'[p].from = req[p].from
        /\ req'[p].key = req[p].key /\ req'[p].asked = req[p].asked
        /\ req'[p].operator = req[p].operator /\ req'[p].content = req[p].content
    BY <1>0, <2>1 DEF Requests
  <2>3. /\ FollowsAsked(req[p]) /\ (req[p].from # 0 => SawPredecessor(req[p]))
        /\ IF req[p].from = 0 THEN req[p].key \notin Nat \X Nat ELSE SubmitsLater(req[p])
    BY <1>0, <1>11 DEF ReadRecords, ChainLocals, Seen, Submitting, Serialized
  <2> QED BY <2>1, <2>2, <2>3
          DEF ChainLocals, FollowsAsked, SawPredecessor, SubmitsLater, Seen, Refreshing, Submitting, Serialized
<1>12. CASE Commit(p)
  <2>1. Reply(p, "error", 0)
    BY <1>12, AppendedEvaluation, <1>0 DEF Commit, Committed
  <2> QED BY <1>0, <1>1, <2>1, AnswerMove
<1>13. CASE Abort(p) \/ Return(p)
  <2>1. pc'[p] = "idle" /\ req'[p].from = 0 /\ req'[p].asked = 0
    BY <1>0, <1>13 DEF Abort, Return, NoRequest
  <2> QED BY <2>1 DEF ChainLocals, FollowsAsked, Seen, Refreshing, Submitting, Serialized
<1> QED
  BY <1>2, <1>3, <1>4, <1>5, <1>6, <1>7, <1>8, <1>9, <1>10, <1>11, <1>12, <1>13 DEF Handler, Statement

\* What a submission commits goes on the chain of its predecessor, if it has one.
LEMMA ChainCommit ==
  ASSUME TypeInv, FreshInv, ChainInv, NEW p \in Procs, Handler(p), Commit(p), Committed(p)
  PROVE  ChainInv'
<1>0. /\ pc \in [Procs -> Labels] /\ req \in [Procs -> Requests]
      /\ req[p] \in Requests /\ ChainLocals("commit", req[p])
      /\ Current \in Nat /\ Len(evaluations) \in Nat
      /\ \A e \in Evaluations : evaluations[e] \in EvaluationRows /\ e # 0
  BY LengthsType DEF TypeInv, TypeOK, ChainInv, Evaluations, Commit
<1> DEFINE r == req[p]
           new == NewEvaluation(p)
<1>1. PICK n \in Nat : n = Len(evaluations) + 1
  BY <1>0
<1>2. /\ Evaluations' = Evaluations \cup {n} /\ n \notin Evaluations
      /\ evaluations'[n] = new /\ \A e \in Evaluations : evaluations'[e] = evaluations[e] /\ e < n
  <2>1. \A e \in Evaluations : e < n
    BY <1>0, <1>1 DEF Evaluations
  <2> QED BY <1>1, <2>1, AppendedEvaluation
<1>3. /\ new.operator = r.operator /\ new.key = r.key /\ new.content = r.content
      /\ new.revision = r.revision /\ new.rows = r.rows
  BY DEF NewEvaluation
<1>4. Grows
  BY Growth DEF Next
<1>5. /\ FollowsAsked(r) /\ (r.from # 0 => SawPredecessor(r))
      /\ IF r.from = 0 THEN r.key \notin Nat \X Nat ELSE SubmitsLater(r)
  BY <1>0 DEF ChainLocals, Seen, Submitting, Serialized
<1>6. r.from # 0 => r.from \in Evaluations /\ r.asked \in Evaluations
  BY <1>5 DEF FollowsAsked
<1>7. r.from # 0 => evaluations[r.from].revision < r.revision
  <2>1. r.from # 0 => /\ evaluations[r.from].revision \in Nat /\ r.revision \in Nat /\ r.key[2] \in Nat
                     /\ evaluations[r.from].revision < r.key[2] /\ r.key[2] <= r.revision
    BY <1>0, <1>5, <1>6 DEF Requests, EvaluationRows, SubmitsLater
  <2> QED BY <2>1
<1>8. \A e \in Evaluations' : KeptUp(e)'
  <2>1. KeptUp(n)'
    BY <1>2, <1>3, <1>5 DEF KeptUp, SubmitsLater
  <2> QED BY <1>2, <1>4, <2>1, ChainRowsKept
<1>9. links' = links \cup NewLinks(p, n) /\ Successors(r.from) = {}
  BY <1>1 DEF Committed, UniqueViolation
<1>10. ASSUME NEW l \in NewLinks(p, n)
       PROVE  /\ r.from # 0 /\ l.predecessor = r.from /\ l.successor = n
              /\ l.delta = Delta(evaluations[r.from].rows, r.rows)
  BY <1>10 DEF NewLinks
<1>11. ASSUME NEW l \in NewLinks(p, n) PROVE ChainLink(l)'
  <2>1. /\ l.predecessor \in Evaluations /\ l.predecessor = r.from /\ l.successor = n
        /\ l.delta = Delta(evaluations[r.from].rows, r.rows)
    BY <1>6, <1>10
  <2>2. evaluations'[l.predecessor] = evaluations[r.from] /\ evaluations'[l.successor] = new
    BY <1>2, <2>1
  <2>3. Readable(l.predecessor)'
    BY <1>4, <1>5, <1>10, <2>1, <2>2 DEF SawPredecessor, Readable, Grows
  <2>4. /\ evaluations[r.from].operator = new.operator /\ evaluations[r.from].content = new.content
        /\ evaluations[r.from].revision < new.revision
    BY <1>3, <1>5, <1>7, <1>10 DEF SawPredecessor, SubmitsLater
  <2>5. l.delta = Delta(evaluations[r.from].rows, new.rows)
    BY <1>3, <2>1
  <2> HIDE DEF r, new
  <2> QED BY <1>2, <2>1, <2>2, <2>3, <2>4, <2>5 DEF ChainLink, Delta
<1>12. \A l \in links' : ChainLink(l)'
  BY <1>4, <1>9, <1>11, ChainRowsKept
<1>13. \A l, m \in links' : l.predecessor = m.predecessor \/ l.successor = m.successor => l = m
  <2>1. \A l \in links : l.predecessor # r.from /\ l.successor # n
    BY <1>2, <1>9 DEF Successors, ChainInv, ChainLink
  <2>2. \A l, m \in NewLinks(p, n) : l = m
    BY DEF NewLinks
  <2> QED BY <1>9, <1>10, <2>1, <2>2 DEF ChainInv
<1>14. ChainLocals(pc[p], req[p])'
  <2>1. pc'[p] = "answered" /\ req'[p] = [r EXCEPT !.reply = [kind |-> "created", evaluation |-> n]]
    BY <1>0, <1>1 DEF Committed, Reply, Continue
  <2>2. /\ req'[p].asked = r.asked /\ req'[p].from = r.from /\ req'[p].operator = r.operator
        /\ req'[p].content = r.content /\ req'[p].reply.evaluation = n
    BY <1>0, <2>1 DEF Requests
  <2>3. FollowsAsked(req[p])'
    BY <1>2, <1>5, <1>6, <2>2 DEF FollowsAsked
  <2>4. ASSUME r.asked # 0
        PROVE  /\ new.content = evaluations[r.asked].content
               /\ new.revision >= evaluations[r.asked].revision
    <3>1. r.from # 0 /\ r.content = evaluations[r.asked].content
          /\ evaluations[r.asked].revision <= evaluations[r.from].revision
      BY <1>5, <2>4 DEF FollowsAsked, SubmitsLater
    <3>2. {evaluations[r.asked].revision, evaluations[r.from].revision, r.revision} \subseteq Nat
      BY <1>0, <1>6, <3>1 DEF EvaluationRows, Requests
    <3> QED BY <1>3, <1>7, <3>1, <3>2
  <2>5. IsAnswerTo(req[p], n)'
    <3>1. r.asked # 0 => evaluations'[r.asked] = evaluations[r.asked]
      BY <1>2, <1>5, <1>6 DEF FollowsAsked
    <3> HIDE DEF r, new
    <3> QED BY <1>2, <1>3, <2>2, <2>4, <3>1 DEF IsAnswerTo
  <2> QED BY <2>1, <2>2, <2>3, <2>5
          DEF ChainLocals, IsAnswerTo, Seen, Refreshing, Submitting, Serialized
<1>15. ASSUME NEW q \in Procs, q # p PROVE ChainLocals(pc[q], req[q])'
  <2>1. PICK l : l = pc[q]
    OBVIOUS
  <2>2. PICK s \in Requests : s = req[q]
    BY <1>0
  <2>3. ChainLocals(l, s)'
    BY <1>4, <2>1, <2>2, ChainLocalsKept DEF ChainInv
  <2>4. pc'[q] = l /\ req'[q] = s
    BY <1>15, <2>1, <2>2, HandlerFrame
  <2> QED BY <2>3, <2>4
    DEF ChainLocals, FollowsAsked, SawPredecessor, ReadLater, SubmitsLater, IsAnswerTo
<1> QED BY <1>8, <1>12, <1>13, <1>14, <1>15 DEF ChainInv

\* Every step keeps chains and answers.
LEMMA ChainStep == ASSUME TypeInv, FreshInv, ChainInv, [Next]_vars PROVE ChainInv'
<1>1. Grows
  BY Growth
<1>2. CASE UNCHANGED ledger
  <2>1. \A e \in Evaluations' : KeptUp(e)'
    BY <1>1, <1>2, ChainRowsKept DEF ledger, Evaluations
  <2>2. /\ \A l \in links' : ChainLink(l)'
        /\ \A l, m \in links' : l.predecessor = m.predecessor \/ l.successor = m.successor => l = m
    BY <1>1, <1>2, ChainRowsKept DEF ledger, ChainInv
  <2>3. ASSUME NEW q \in Procs PROVE ChainLocals(pc[q], req[q])'
    <3>1. ChainLocals(pc'[q], req'[q])
      <4>1. CASE Handler(q)
        BY <1>2, <4>1, ChainMove DEF ledger
      <4>2. CASE pc'[q] = pc[q] /\ req'[q] = req[q]
        BY <4>2 DEF ChainInv
      <4>3. (pc'[q] = pc[q] /\ req'[q] = req[q]) \/ Handler(q)
        BY HandlerFrame, OtherFrame DEF Next, vars, handlers
      <4> QED BY <4>1, <4>2, <4>3
    <3>2. req'[q] \in Requests
      BY TypeStep DEF TypeInv, TypeOK
    <3>3. PICK l : l = pc'[q]
      OBVIOUS
    <3>4. PICK s \in Requests : s = req'[q]
      BY <3>2
    <3>5. ChainLocals(l, s)'
      BY <1>1, <3>1, <3>3, <3>4, ChainLocalsKept
    <3> QED BY <3>3, <3>4, <3>5
            DEF ChainLocals, FollowsAsked, SawPredecessor, ReadLater, SubmitsLater, IsAnswerTo
  <2> QED BY <2>1, <2>2, <2>3 DEF ChainInv
<1>3. CASE \E p \in Procs : Handler(p) /\ Commit(p) /\ Committed(p)
  BY <1>3, ChainCommit
<1> QED BY <1>2, <1>3, HandlerFrame, OtherFrame DEF Next, vars, ledger

\* Every state keeps them.
LEMMA ChainInduction == Spec => [](TypeInv /\ FreshInv /\ ChainInv)
<1>1. Init => ChainInv
  BY DEF Init, ChainInv, ChainLocals, FollowsAsked, NoRequest, Evaluations, Seen, Refreshing,
         Submitting, Serialized
<1>2. TypeInv /\ FreshInv /\ ChainInv /\ [Next]_vars => ChainInv'
  BY ChainStep
<1> QED BY <1>1, <1>2, FreshInduction, PTL DEF Spec

\* However many refreshes and promotions overlap, the refreshes of a submission form one
\* chain of later and later revisions, each link with the difference of its two ends.
THEOREM RefreshesFormChains == Spec => []RefreshChains
<1>1. ChainInv => RefreshChains
  BY DEF ChainInv, ChainLink, RefreshChains
<1> QED BY <1>1, ChainInduction, PTL

\* ReleasedContractsReadable fails for these evaluations, and for no others: the ones that
\* refresh an evaluation and were refreshed themselves.
InTheMiddle(e) == \E l, m \in links : l.successor = e /\ m.predecessor = e
OnlyMiddlesUnreadable ==
  \A e \in Evaluations : Cardinality(ContractRows(e)) <= 1 <=> ~InTheMiddle(e)

\* An evaluation's contract can be read unless the evaluation is in the middle of a chain;
\* then it never can (_contract_from_evaluation, evidence_queue.py:1132).
THEOREM MiddlesAreUnreadable == Spec => []OnlyMiddlesUnreadable
<1>1. RefreshChains => OnlyMiddlesUnreadable
  <2> SUFFICES ASSUME RefreshChains, NEW e \in Evaluations
               PROVE  Cardinality(ContractRows(e)) <= 1 <=> ~InTheMiddle(e)
    BY DEF OnlyMiddlesUnreadable
  <2>1. ASSUME NEW l \in links, NEW m \in links, l.successor = e, m.predecessor = e
        PROVE  ~(Cardinality(ContractRows(e)) <= 1)
    <3>1. ContractRows(e) = {l} \cup {m}
      BY <2>1 DEF ContractRows, RefreshChains
    <3>2. l # m
      <4>1. l.predecessor < l.successor
        BY <2>1 DEF RefreshChains
      <4>2. e \in Int /\ ~(e < e)
        BY DEF Evaluations
      <4> QED BY <2>1, <4>1, <4>2
    <3>3. Cardinality({l} \cup {m}) = 2
      <4>1. m \notin {l} /\ IsFiniteSet({l}) /\ Cardinality({l}) = 1
        BY <3>2, FS_Singleton
      <4>2. Cardinality({l} \cup {m}) = Cardinality({l}) + 1
        BY <4>1, FS_AddElement
      <4> QED BY <4>1, <4>2
    <3> QED BY <3>1, <3>3
  <2>2. ASSUME ~InTheMiddle(e) PROVE Cardinality(ContractRows(e)) <= 1
    <3>1. CASE ContractRows(e) = {}
      BY <3>1, FS_EmptySet
    <3>2. CASE ContractRows(e) # {}
      <4>1. PICK l : l \in ContractRows(e)
        BY <3>2
      <4>2. ContractRows(e) = {l}
        BY <2>2, <4>1 DEF ContractRows, RefreshChains, InTheMiddle
      <4>3. Cardinality({l}) = 1
        BY FS_Singleton
      <4> QED BY <4>2, <4>3
    <3> QED BY <3>1, <3>2
  <2> QED BY <2>1, <2>2 DEF InTheMiddle
<1> QED BY <1>1, RefreshesFormChains, PTL

\* Whoever is answered gets an own evaluation, of the inputs sent or asked about, from a
\* revision no earlier than the one asked about.
THEOREM AnswersFitTheCaller == Spec => []AnswersAreTheCallers
<1>1. ChainInv => AnswersAreTheCallers
  BY DEF ChainInv, ChainLocals, IsAnswerTo, AnswersAreTheCallers
<1> QED BY <1>1, ChainInduction, PTL

-----------------------------------------------------------------------------
(* What a submission may miss *)

\* While the revision it read is current, a handler's rows are all of its candidates.
Complete(r) == r.rows = Candidates(r.content, revisions[r.revision].records)
CompleteInv ==
  \A p \in Procs :
    /\ pc[p] \in {"records", "commit"} => req[p].revision <= Current
    /\ pc[p] = "commit" /\ req[p].revision = Current => Complete(req[p])

\* A handler at "records" or "commit" has read its revision and, at "commit", its rows.
LEMMA CompleteMove ==
  ASSUME TypeInv, CompleteInv, NEW p \in Procs, Handler(p)
  PROVE  /\ pc'[p] \in {"records", "commit"} => req'[p].revision <= Current
         /\ pc'[p] = "commit" /\ req'[p].revision = Current => Complete(req'[p])
<1>0. /\ pc \in [Procs -> Labels] /\ req \in [Procs -> Requests]
      /\ req[p] \in Requests /\ Current \in Nat
  BY LengthsType DEF TypeInv, TypeOK
<1>1. CASE ReadRevision(p)
  <2>1. pc'[p] = "records" /\ req'[p] = [req[p] EXCEPT !.revision = Current]
    BY <1>0, <1>1 DEF ReadRevision, Continue
  <2> QED BY <1>0, <2>1 DEF Requests
<1>2. CASE ReadRecords(p)
  <2> DEFINE found == Candidates(req[p].content, CurrentRecords(req[p].revision))
  <2>1. pc[p] = "records" /\ pc'[p] = "commit" /\ req'[p] = [req[p] EXCEPT !.rows = found]
    BY <1>0, <1>2 DEF ReadRecords, Continue
  <2>2. /\ req'[p].revision = req[p].revision /\ req'[p].content = req[p].content
        /\ req'[p].rows = found
    BY <1>0, <2>1 DEF Requests
  <2> QED BY <2>1, <2>2 DEF CompleteInv, Complete, CurrentRecords
<1>3. ReadRevision(p) \/ ReadRecords(p) \/ pc'[p] \notin {"records", "commit"}
  <2> USE DEF Continue, Reply
  <2>1. CASE Submit(p) \/ Refresh(p) \/ Abort(p) \/ Return(p)
    BY <1>0, <2>1 DEF Submit, Refresh, Abort, Return
  <2>2. CASE ReadPredecessor(p) \/ ReadCurrentRevision(p) \/ ReadCurrentObservation(p)
    BY <1>0, <2>2 DEF ReadPredecessor, ReadCurrentRevision, ReadCurrentObservation
  <2>3. CASE ReadSuccessor(p)
    BY <1>0, <2>3 DEF ReadSuccessor
  <2>4. CASE ClaimKey(p) \/ LockPause(p) \/ CheckFreshness(p) \/ Commit(p)
    BY <1>0, <2>4 DEF ClaimKey, LockPause, CheckFreshness, Commit
  <2> QED BY <2>1, <2>2, <2>3, <2>4 DEF Handler, Statement
<1> QED BY <1>1, <1>2, <1>3

\* Later revisions are appended, so a revision that is current has been so since it was read.
LEMMA CompleteStep == ASSUME TypeInv, CompleteInv, [Next]_vars PROVE CompleteInv'
<1>1. Grows
  BY Growth
<1>2. Current \in Nat /\ \A q \in Procs : req[q].revision \in Nat /\ req'[q].revision \in Nat
  BY LengthsType, TypeStep DEF TypeInv, TypeOK, Requests
<1>3. ASSUME NEW q \in Procs
      PROVE  /\ pc'[q] \in {"records", "commit"} => req'[q].revision <= Current
             /\ pc'[q] = "commit" /\ req'[q].revision = Current => Complete(req'[q])
  <2>1. CASE Handler(q)
    BY <2>1, CompleteMove
  <2>2. CASE pc'[q] = pc[q] /\ req'[q] = req[q]
    BY <2>2 DEF CompleteInv
  <2> QED BY <2>1, <2>2, HandlerFrame, OtherFrame DEF Next, vars, handlers
<1>4. ASSUME NEW q \in Procs
      PROVE  pc'[q] \in {"records", "commit"} => req'[q].revision <= Current'
  BY <1>1, <1>2, <1>3 DEF Grows
<1>5. ASSUME NEW q \in Procs, pc'[q] = "commit", req'[q].revision = Current'
      PROVE  Complete(req[q])'
  <2>1. req'[q].revision = Current /\ Complete(req'[q])
    BY <1>1, <1>2, <1>3, <1>5 DEF Grows
  <2>2. UNCHANGED revisions \/ Promote
    BY HandlerFrame DEF Next, Founder, Environment, Approve, Reject, ManualPause, ResolvePause,
       SourceIntegrityPause, Tick, source, vars
  <2>3. UNCHANGED revisions
    <3>1. Promote => Current' = Current + 1
      BY AppendProperties DEF Promote, Current, TypeInv, TypeOK
    <3> QED BY <1>2, <1>5, <2>1, <2>2, <3>1
  <2> QED BY <2>1, <2>3 DEF Complete
<1> QED BY <1>4, <1>5 DEF CompleteInv

\* The race of a submission with a promotion is the only way to lose candidates, for every
\* matching, every source and any number of handlers and promotions.
THEOREM OnlyPromotionsLose == Spec => OnlyPromotionsLoseCandidates
<1>1. Init => TypeInv /\ CompleteInv
  BY InitType DEF Init, CompleteInv
<1>2. TypeInv /\ CompleteInv /\ [Next]_vars => TypeInv' /\ CompleteInv'
  BY TypeStep, CompleteStep
<1>3. TypeInv /\ CompleteInv /\ [Next]_vars =>
        [\A e \in Evaluations' \ Evaluations :
           LET row == evaluations'[e] IN
           row.rows # Candidates(row.content, revisions[row.revision].records)
             => row.revision < Current]_vars
  <2> SUFFICES ASSUME TypeInv, CompleteInv, Next, NEW e \in Evaluations' \ Evaluations,
                      evaluations'[e].rows
                        # Candidates(evaluations'[e].content,
                                     revisions[evaluations'[e].revision].records)
               PROVE  evaluations'[e].revision < Current
    BY DEF vars
  <2>1. PICK p \in Procs : Handler(p)
    BY OtherFrame DEF Next, ledger, Evaluations
  <2>2. Commit(p) /\ Committed(p)
    BY <2>1, HandlerFrame DEF ledger, Evaluations
  <2>3. evaluations'[e] = NewEvaluation(p)
    BY <2>2, AppendedEvaluation
  <2>4. /\ evaluations'[e].rows = req[p].rows /\ evaluations'[e].content = req[p].content
        /\ evaluations'[e].revision = req[p].revision
    BY <2>3 DEF NewEvaluation
  <2>5. pc[p] = "commit" /\ req[p].revision \in Nat /\ Current \in Nat
    BY <2>2, LengthsType DEF Commit, TypeInv, TypeOK, Requests
  <2> QED BY <2>4, <2>5 DEF CompleteInv, Complete
<1> QED BY <1>1, <1>2, <1>3, PTL DEF Spec, OnlyPromotionsLoseCandidates

-----------------------------------------------------------------------------
(* Progress of the handlers *)

\* A statement of one attempt leads to a later label; only a refresh that found a successor
\* of an older revision than it read goes back.
LEMMA StatementsAdvance ==
  ASSUME TypeInv, NEW p \in Procs, Handler(p), pc[p] # "idle"
  PROVE  \/ Position[pc[p]] < Position[pc'[p]]
         \/ /\ pc[p] = "successor"
            /\ \E s \in Successors(req[p].from) :
                 evaluations[s].revision # req[p].revision /\ req'[p].from = s
<1>1. pc \in [Procs -> Labels] /\ req \in [Procs -> Requests] /\ req[p] \in Requests
  BY DEF TypeInv, TypeOK
<1> USE DEF Continue, Reply, Position
<1>2. CASE Return(p)
  BY <1>1, <1>2 DEF Return
<1>3. CASE Abort(p)
  BY <1>1, <1>3 DEF Abort, Labels, Serialized
<1>4. CASE ReadPredecessor(p) \/ ReadCurrentRevision(p) \/ ReadCurrentObservation(p)
  BY <1>1, <1>4 DEF ReadPredecessor, ReadCurrentRevision, ReadCurrentObservation
<1>5. CASE ReadSuccessor(p)
  <2>1. CASE \E s \in Successors(req[p].from) :
               /\ evaluations[s].revision # req[p].revision
               /\ req' = [req EXCEPT ![p].from = s]
    <3>1. PICK s \in Successors(req[p].from) :
               /\ evaluations[s].revision # req[p].revision
               /\ req' = [req EXCEPT ![p].from = s]
      BY <2>1
    <3>2. req'[p].from = s
      BY <1>1, <3>1 DEF Requests
    <3> QED BY <1>5, <3>1, <3>2 DEF ReadSuccessor
  <2>2. CASE pc'[p] \in {"answered", "idempotency"}
    BY <1>5, <2>2 DEF ReadSuccessor
  <2> QED BY <1>1, <1>5, <2>1, <2>2 DEF ReadSuccessor
<1>6. CASE ClaimKey(p)
  BY <1>1, <1>6 DEF ClaimKey
<1>7. CASE LockPause(p) \/ CheckFreshness(p)
  BY <1>1, <1>7 DEF LockPause, CheckFreshness
<1>8. CASE ReadRevision(p) \/ ReadRecords(p) \/ Commit(p)
  BY <1>1, <1>8 DEF ReadRevision, ReadRecords, Commit
<1> QED
  BY <1>2, <1>3, <1>4, <1>5, <1>6, <1>7, <1>8 DEF Handler, Statement, Submit, Refresh

\* The recursion of a refresh climbs a chain of strictly later revisions, none of them later
\* than the current one, so no handler goes round in circles however chains grow meanwhile.
THEOREM HandlersAdvance == Spec => HandlersMoveOn
<1>1. TypeInv /\ FreshInv /\ ChainInv /\ [Next]_vars =>
        [\A p \in Procs :
           pc[p] # "idle" /\ pc'[p] # pc[p] =>
             \/ Position[pc[p]] < Position[pc'[p]]
             \/ /\ evaluations[req[p].from].revision < evaluations[req'[p].from].revision
                /\ evaluations[req'[p].from].revision <= Current]_vars
  <2> SUFFICES ASSUME TypeInv, FreshInv, ChainInv, Next,
                      NEW p \in Procs, pc[p] # "idle", pc'[p] # pc[p],
                      ~(Position[pc[p]] < Position[pc'[p]])
               PROVE  /\ evaluations[req[p].from].revision < evaluations[req'[p].from].revision
                      /\ evaluations[req'[p].from].revision <= Current
    BY DEF vars
  <2>1. Handler(p)
    BY HandlerFrame, OtherFrame DEF Next, handlers
  <2>2. PICK s \in Successors(req[p].from) : req'[p].from = s
    BY <2>1, StatementsAdvance
  <2>3. PICK l \in links : l.predecessor = req[p].from /\ l.successor = s
    BY <2>2 DEF Successors
  <2>4. /\ s \in Evaluations
        /\ evaluations[req[p].from].revision < evaluations[s].revision
    BY <2>3 DEF ChainInv, ChainLink
  <2>5. evaluations[s].revision \in 1..Current
    BY <2>4 DEF FreshInv, FreshRow
  <2> QED BY <2>2, <2>4, <2>5
<1> QED BY <1>1, ChainInduction, PTL DEF Spec, HandlersMoveOn

\* What an answered handler knows of the error it was answered with.
LostRefresh(r) == r.asked # 0 /\ r.from # 0 /\ Successors(r.from) # {}
ErrorInv ==
  \A p \in Procs :
    pc[p] = "answered" /\ req[p].reply.kind = "error" => LostRefresh(req[p])

\* An error is the answer to a commit that met a UNIQUE constraint, to nothing else.
LEMMA ErrorMove ==
  ASSUME TypeInv, NEW p \in Procs, Handler(p),
         pc'[p] = "answered", req'[p].reply.kind = "error"
  PROVE  /\ Commit(p) /\ UniqueViolation(p)
         /\ req'[p].asked = req[p].asked /\ req'[p].from = req[p].from
<1>1. pc \in [Procs -> Labels] /\ req \in [Procs -> Requests] /\ req[p] \in Requests
  BY DEF TypeInv, TypeOK
<1>2. ASSUME NEW kind, NEW e, Reply(p, kind, e)
      PROVE  /\ kind = "error"
             /\ req'[p].asked = req[p].asked /\ req'[p].from = req[p].from
  <2>1. req'[p] = [req[p] EXCEPT !.reply = [kind |-> kind, evaluation |-> e]]
    BY <1>1, <1>2 DEF Reply
  <2> QED BY <1>1, <2>1 DEF Requests
<1> USE DEF Continue
<1>3. CASE Submit(p) \/ Refresh(p) \/ Abort(p) \/ Return(p)
  BY <1>1, <1>3 DEF Submit, Refresh, Abort, Return
<1>4. CASE ReadPredecessor(p)
  BY <1>1, <1>2, <1>4 DEF ReadPredecessor
<1>5. CASE ReadCurrentRevision(p) \/ ReadCurrentObservation(p)
  BY <1>1, <1>5 DEF ReadCurrentRevision, ReadCurrentObservation
<1>6. CASE ReadSuccessor(p)
  BY <1>1, <1>2, <1>6 DEF ReadSuccessor
<1>7. CASE ClaimKey(p)
  BY <1>1, <1>2, <1>7 DEF ClaimKey
<1>8. CASE LockPause(p)
  BY <1>1, <1>2, <1>8 DEF LockPause
<1>9. CASE CheckFreshness(p)
  BY <1>1, <1>2, <1>9 DEF CheckFreshness
<1>10. CASE ReadRevision(p) \/ ReadRecords(p)
  BY <1>1, <1>10 DEF ReadRevision, ReadRecords
<1>11. CASE Commit(p)
  <2>1. CASE Reply(p, "created", Len(evaluations) + 1)
    BY <1>2, <2>1
  <2>2. CASE UniqueViolation(p) /\ Reply(p, "error", 0)
    BY <1>2, <1>11, <2>2
  <2> QED BY <1>11, <2>1, <2>2 DEF Commit
<1> QED BY <1>3, <1>4, <1>5, <1>6, <1>7, <1>8, <1>9, <1>10, <1>11 DEF Handler, Statement

\* A link once committed stays, and the key lock leaves a commit no other constraint to
\* violate than the one on predecessors.
LEMMA ErrorStep ==
  ASSUME TypeInv, KeyInv, ChainInv, ErrorInv, [Next]_vars
  PROVE  ErrorInv'
<1>1. links \subseteq links'
  <2>1. \A p \in Procs : Handler(p) => links \subseteq links'
    BY HandlerFrame DEF Committed, ledger
  <2> QED BY <2>1, OtherFrame DEF Next, vars, ledger
<1>2. \A n : Successors(n) # {} => Successors(n)' # {}
  BY <1>1 DEF Successors
<1>3. ASSUME NEW p \in Procs, pc'[p] = "answered", req'[p].reply.kind = "error"
      PROVE  LostRefresh(req[p])'
  <2>1. CASE Handler(p)
    <3>1. /\ Commit(p) /\ UniqueViolation(p)
          /\ req'[p].asked = req[p].asked /\ req'[p].from = req[p].from
      BY <1>3, <2>1, ErrorMove
    <3>2. Previous(req[p].operator, req[p].key) = {} /\ ChainLocals("commit", req[p])
      BY <3>1 DEF Commit, KeyInv, ChainInv, Claimed, Serialized
    <3>3. Successors(req[p].from) # {}
      BY <3>1, <3>2 DEF UniqueViolation
    <3>4. req[p].from \in Evaluations
      BY <3>3 DEF Successors, ChainInv, ChainLink
    <3>5. req[p].from # 0 /\ req[p].asked # 0
      BY <3>2, <3>4 DEF Evaluations, ChainLocals, FollowsAsked
    <3> QED BY <1>2, <3>1, <3>3, <3>5 DEF LostRefresh
  <2>2. CASE pc'[p] = pc[p] /\ req'[p] = req[p]
    BY <1>2, <1>3, <2>2 DEF ErrorInv, LostRefresh
  <2> QED BY <2>1, <2>2, HandlerFrame, OtherFrame DEF Next, vars, handlers
<1> QED BY <1>3 DEF ErrorInv

\* Only a refresh that lost a race for its predecessor is answered with an error: retries
\* and races of plain submissions always end in their evaluation, a conflict or a refusal.
THEOREM OnlyLostRefreshesFail == Spec => []ErrorsAreLostRefreshes
<1>1. Init => KeyInv /\ ErrorInv
  BY DEF Init, KeyInv, ErrorInv, Claimed, Serialized, Evaluations
<1>2. TypeInv /\ KeyInv /\ ChainInv /\ ErrorInv /\ [Next]_vars => KeyInv' /\ ErrorInv'
  BY KeyStep, ErrorStep
<1>3. ErrorInv => ErrorsAreLostRefreshes
  BY DEF ErrorInv, LostRefresh, ErrorsAreLostRefreshes
<1> QED BY <1>1, <1>2, <1>3, ChainInduction, PTL DEF Spec
=============================================================================

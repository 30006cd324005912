----------------------------- MODULE EvidenceQueue -----------------------------
(***************************************************************************)
(* The evidence queue: submission, refresh, founder audit and global pause *)
(* (src/agent_data_oracle/evidence_queue.py) over the tables of migrations *)
(* 0006-0008 and 0015, as PostgreSQL runs them at READ COMMITTED.          *)
(*                                                                         *)
(* A handler is a process.  Each of its statements whose answer another    *)
(* transaction can change is a step of its own; statements that run under  *)
(* a lock which freezes what they read are one step with the statement     *)
(* that took the lock.  Writes become visible at COMMIT, so the writing    *)
(* part of a transaction is one step.                                      *)
(***************************************************************************)
EXTENDS Integers, Sequences, FiniteSets

CONSTANTS
  Procs,                  \* concurrent request handlers
  Operators, Keys,        \* operators and the idempotency keys clients choose
  Contents,               \* submitted identifier tuples, up to their hash
  Records,                \* CPSC record literals, <<recall number, text>>
  SourceStates,           \* the record sets a revision may carry
  Matching,               \* <<content, record>> pairs match_cpsc_record accepts
  SourceWindow,           \* timedelta(hours=48)
  AuditQueueLimit,        \* FOUNDER_AUDIT_QUEUE_LIMIT
  CountsTowardAuditGate,  \* EvidenceQueues(counts_toward_audit_gate=...)
  MaxTime, MaxRevisions, MaxPauseEvents   \* bounds of the environment

ASSUME RecordsAssumption == Matching \subseteq Contents \X Records
                            /\ SourceStates \subseteq SUBSET Records
ASSUME WindowAssumption == SourceWindow \in Nat
ASSUME GateAssumption == AuditQueueLimit \in Nat /\ CountsTowardAuditGate \in BOOLEAN

VARIABLES
  now,          \* the clock every handler reads
  revisions,    \* completed CPSC revisions, the last one current
  evaluations,  \* evidence_evaluations with their rows, in commit order
  releases,     \* evaluation_releases
  audits,       \* evaluation_audits
  links,        \* evidence_evaluation_refreshes
  gateCount,    \* audit_gate_state.committed_queue_count
  pause,        \* global_pause_state
  pauseEvents,  \* global_pause_events
  pc, req       \* each handler's next statement and its local variables

source == <<revisions, now>>
review == <<releases, audits>>
pausing == <<pause, pauseEvents>>
ledger == <<evaluations, links, gateCount>>
vars == <<now, revisions, evaluations, releases, audits, links, gateCount,
          pause, pauseEvents, pc, req>>

None == "none"
NoObservation == -1
NoReply == [kind |-> None, evaluation |-> 0]
SubmissionKey(k) == <<k>>
RefreshKey(e, r) == <<e, r>>

\* The locals of a handler that serves no request.
NoRequest == [operator |-> None, key |-> <<>>, content |-> None, counts |-> FALSE,
              asked |-> 0, from |-> 0, evaluatedAt |-> 0, revision |-> 0,
              observed |-> NoObservation, rows |-> {}, reply |-> NoReply]

-----------------------------------------------------------------------------
(* What the queries compute *)

Candidates(content, records) == {r \in records : <<content, r>> \in Matching}

Recalls(rows) == {r[1] : r \in rows}

\* The delta stored with a refresh: recalls added, removed and reworded.
Delta(before, after) ==
  [added   |-> Recalls(after) \ Recalls(before),
   removed |-> Recalls(before) \ Recalls(after),
   changed |-> Recalls(after \ before) \cap Recalls(before \ after)]

Current == Len(revisions)
CurrentObservation ==
  IF Current = 0 THEN NoObservation ELSE revisions[Current].observed
StaleAfterAnotherDay(at, observed) ==   \* mutant of Stale
  observed = NoObservation \/ at - observed > SourceWindow + 1
Stale(at, observed) == observed = NoObservation \/ at - observed > SourceWindow

Evaluations == 1..Len(evaluations)
Readable(e) == evaluations[e].released \/ e \in releases
Held(e) == /\ evaluations[e].rows # {}
           /\ ~Readable(e)
Rejected(e) == [evaluation |-> e, decision |-> "rejected"] \in audits
Approved(e) == [evaluation |-> e, decision |-> "approved"] \in audits
ApprovedBefore(e) == Approved(e)   \* mutant of Audited
Audited(e) == \E a \in audits : a.evaluation = e

Previous(o, key) ==
  {e \in Evaluations : evaluations[e].operator = o /\ evaluations[e].key = key}
Successors(e) == {l.successor : l \in {m \in links : m.predecessor = e}}

\* pg_advisory_xact_lock on (operator, key), from its grant to the end of the
\* transaction; the row lock on global_pause_state likewise.
Serialized == {"freshness", "revision", "records", "commit"}
NoKeyLock(p, o, key) == FALSE   \* mutant of HoldsKey
HoldsKey(p, o, key) == /\ pc[p] \in Serialized \cup {"pause"}
                       /\ req[p].operator = o
                       /\ req[p].key = key
HoldsPause(p) == pc[p] \in Serialized
PauseRowNotLocked == TRUE   \* mutant of PauseRowFree
PauseRowFree == \A p \in Procs : ~HoldsPause(p)

-----------------------------------------------------------------------------
(* Moves of one handler *)

Continue(p, label) == pc' = [pc EXCEPT ![p] = label]

Reply(p, kind, e) ==
  /\ Continue(p, "answered")
  /\ req' = [req EXCEPT ![p].reply = [kind |-> kind, evaluation |-> e]]

\* submit_evaluation is called: the clock is read before the transaction begins.
Submit(p) ==
  /\ pc[p] = "idle"
  /\ \E o \in Operators, k \in Keys, c \in Contents :
       req' = [req EXCEPT ![p] = [NoRequest EXCEPT
                 !.operator = o, !.key = SubmissionKey(k), !.content = c,
                 !.counts = CountsTowardAuditGate, !.evaluatedAt = now]]
  /\ Continue(p, "idempotency")
  /\ UNCHANGED <<source, ledger, review, pausing>>

\* refresh_evaluation is called, for any evaluation of anybody.
Refresh(p) ==
  /\ pc[p] = "idle"
  /\ \E o \in Operators, e \in Evaluations :
       req' = [req EXCEPT ![p] = [NoRequest EXCEPT
                 !.operator = o, !.asked = e, !.from = e]]
  /\ Continue(p, "predecessor")
  /\ UNCHANGED <<source, ledger, review, pausing>>

ReleasedToAnyone(p) == Readable(req[p].from)   \* mutant of Visible
Visible(p) == /\ Readable(req[p].from)
              /\ evaluations[req[p].from].operator = req[p].operator

\* The predecessor must be released and the caller's; then the pause is read,
\* without a lock.
ReadPredecessor(p) ==
  /\ pc[p] = "predecessor"
  /\ \/ ~Visible(p) /\ Reply(p, "not_found", 0)
     \/ Visible(p) /\ pause.isPaused /\ Reply(p, "paused", 0)
     \/ /\ Visible(p)
        /\ ~pause.isPaused
        /\ Continue(p, "currentRevision")
        /\ UNCHANGED req
  /\ UNCHANGED <<source, ledger, review, pausing>>

ReadCurrentRevision(p) ==
  /\ pc[p] = "currentRevision"
  /\ req' = [req EXCEPT ![p].revision = Current]
  /\ Continue(p, "currentObservation")
  /\ UNCHANGED <<source, ledger, review, pausing>>

ReadCurrentObservation(p) ==
  /\ pc[p] = "currentObservation"
  /\ req' = [req EXCEPT ![p].observed = CurrentObservation]
  /\ Continue(p, "successor")
  /\ UNCHANGED <<source, ledger, review, pausing>>

\* The existing successor and the decision taken on everything read so far: an
\* answer, a recursive call on the successor, or a submission under the refresh key.
ReadSuccessor(p) ==
  /\ pc[p] = "successor"
  /\ LET e == req[p].from
         rev == req[p].revision
         usable == rev # 0 /\ ~Stale(now, req[p].observed)
     IN \/ ~usable /\ Reply(p, "unavailable", 0)
        \/ /\ usable
           /\ \E s \in Successors(e) :
                \/ evaluations[s].revision = rev /\ Reply(p, "unchanged", s)
                \/ /\ evaluations[s].revision # rev
                   /\ req' = [req EXCEPT ![p].from = s]
                   /\ Continue(p, "predecessor")
        \/ /\ usable
           /\ Successors(e) = {}
           /\ \/ evaluations[e].revision = rev /\ Reply(p, "unchanged", e)
              \/ /\ evaluations[e].revision # rev
                 /\ req' = [req EXCEPT ![p].key = RefreshKey(e, rev),
                                       ![p].content = evaluations[e].content,
                                       ![p].evaluatedAt = now]
                 /\ Continue(p, "idempotency")
  /\ UNCHANGED <<source, ledger, review, pausing>>

SameOperator(e, p) == evaluations[e].operator = req[p].operator   \* mutant of SameSubmission
SameSubmission(e, p) == evaluations[e].content = req[p].content

\* The advisory lock on the idempotency key, then the previous result under it.
ClaimKey(p) ==
  /\ pc[p] = "idempotency"
  /\ \A q \in Procs : ~HoldsKey(q, req[p].operator, req[p].key)
  /\ LET previous == Previous(req[p].operator, req[p].key)
     IN \/ \E e \in previous :
             IF SameSubmission(e, p)
             THEN Reply(p, "replayed", e) ELSE Reply(p, "conflict", 0)
        \/ previous = {} /\ Continue(p, "pause") /\ UNCHANGED req
  /\ UNCHANGED <<source, ledger, review, pausing>>

WaitOutPause(p) ==   \* mutant of LockPause
  /\ pc[p] = "pause"
  /\ PauseRowFree
  /\ ~pause.isPaused
  /\ Continue(p, "freshness")
  /\ UNCHANGED <<req, source, ledger, review, pausing>>

\* SELECT is_paused ... FOR UPDATE: held until the transaction ends.
LockPause(p) ==
  /\ pc[p] = "pause"
  /\ PauseRowFree
  /\ \/ pause.isPaused /\ Reply(p, "paused", 0)
     \/ ~pause.isPaused /\ Continue(p, "freshness") /\ UNCHANGED req
  /\ UNCHANGED <<source, ledger, review, pausing>>

\* The 48-hour rule, on the revision current at this statement.
CheckFreshness(p) ==
  /\ pc[p] = "freshness"
  /\ LET stale == Stale(req[p].evaluatedAt, CurrentObservation)
     IN \/ stale /\ Reply(p, "unavailable", 0)
        \/ ~stale /\ Continue(p, "revision") /\ UNCHANGED req
  /\ UNCHANGED <<source, ledger, review, pausing>>

ReadRevision(p) ==
  /\ pc[p] = "revision"
  /\ req' = [req EXCEPT ![p].revision = Current]
  /\ Continue(p, "records")
  /\ UNCHANGED <<source, ledger, review, pausing>>

\* cpsc_current_records WHERE revision_id = rev: the table holds the rows of the
\* current revision only.
LatestRecords(rev) == revisions[Current].records   \* mutant of CurrentRecords
CurrentRecords(rev) == IF rev = Current THEN revisions[rev].records ELSE {}

\* The records of the revision read before, matched.
ReadRecords(p) ==
  /\ pc[p] = "records"
  /\ req' = [req EXCEPT ![p].rows =
                Candidates(req[p].content, CurrentRecords(req[p].revision))]
  /\ Continue(p, "commit")
  /\ UNCHANGED <<source, ledger, review, pausing>>

\* The audit gate holds a candidate queue while the count is within the limit.
HeldBelowLimit(rows, number) == rows # {} /\ number < AuditQueueLimit   \* mutant of HeldByGate
HeldByGate(rows, number) == rows # {} /\ number <= AuditQueueLimit

RestampedEvaluation(p) ==   \* mutant of NewEvaluation
  LET r == req[p] IN
  [operator |-> r.operator, key |-> r.key, content |-> r.content,
   revision |-> Current, evaluatedAt |-> r.evaluatedAt, rows |-> r.rows,
   released |-> ~HeldByGate(r.rows, gateCount + 1), counts |-> r.counts,
   number |-> gateCount + 1]

\* The row INSERTed into evidence_evaluations (with its queue number, which the
\* code computes and drops).
NewEvaluation(p) ==
  LET r == req[p] IN
  [operator |-> r.operator, key |-> r.key, content |-> r.content,
   revision |-> r.revision, evaluatedAt |-> r.evaluatedAt, rows |-> r.rows,
   released |-> ~HeldByGate(r.rows, gateCount + 1), counts |-> r.counts,
   number |-> gateCount + 1]

BackwardLinks(p, e) ==   \* mutant of NewLinks
  LET f == req[p].from IN
  IF f = 0 THEN {}
  ELSE {[predecessor |-> e, successor |-> f,
         delta |-> Delta(evaluations[f].rows, req[p].rows)]}

NewLinks(p, e) ==
  LET f == req[p].from IN
  IF f = 0 THEN {}
  ELSE {[predecessor |-> f, successor |-> e,
         delta |-> Delta(evaluations[f].rows, req[p].rows)]}

GateGivesBack(p) == IF req[p].counts THEN gateCount - 1 ELSE gateCount   \* mutant of GateAfter
GateAfter(p) == IF req[p].counts THEN gateCount + 1 ELSE gateCount

\* UNIQUE (operator_id, idempotency_key) and UNIQUE (predecessor_evaluation_id).
KeyTaken(p) == Previous(req[p].operator, req[p].key) # {}   \* mutant of UniqueViolation
UniqueViolation(p) == \/ Previous(req[p].operator, req[p].key) # {}
                      \/ Successors(req[p].from) # {}

\* Gate, evaluation, rows and refresh link are written and committed, or a UNIQUE
\* constraint rejects them and everything rolls back.
Commit(p) ==
  /\ pc[p] = "commit"
  /\ LET e == Len(evaluations) + 1
     IN \/ /\ ~UniqueViolation(p)
           /\ evaluations' = Append(evaluations, NewEvaluation(p))
           /\ links' = links \cup NewLinks(p, e)
           /\ gateCount' = GateAfter(p)
           /\ Reply(p, "created", e)
        \/ /\ UniqueViolation(p)
           /\ Reply(p, "error", 0)
           /\ UNCHANGED ledger
  /\ UNCHANGED <<source, review, pausing>>

\* The handler is cancelled or its connection lost: PostgreSQL rolls back.
Abort(p) ==
  /\ pc[p] \notin {"idle", "answered"}
  /\ Continue(p, "idle")
  /\ req' = [req EXCEPT ![p] = NoRequest]
  /\ UNCHANGED <<source, ledger, review, pausing>>

\* The response leaves (or is lost after COMMIT, which the database cannot tell).
Return(p) ==
  /\ pc[p] = "answered"
  /\ Continue(p, "idle")
  /\ req' = [req EXCEPT ![p] = NoRequest]
  /\ UNCHANGED <<source, ledger, review, pausing>>

-----------------------------------------------------------------------------
(* Founder transactions: all take the pause row first, so one step each *)

handlers == <<pc, req>>

\* _activate_pause overwrites the pause, also one already active.
ActivatePause(trigger) ==
  /\ pause' = [isPaused |-> TRUE, trigger |-> trigger]
  /\ pauseEvents' = Append(pauseEvents, [action |-> "activated", trigger |-> trigger])

RecordAudit(e, decision) ==
  /\ PauseRowFree
  /\ Held(e)
  /\ ~Audited(e)
  /\ audits' = audits \cup {[evaluation |-> e, decision |-> decision]}

Approve(e) ==
  /\ RecordAudit(e, "approved")
  /\ releases' = releases \cup {e}
  /\ UNCHANGED <<source, ledger, pausing, handlers>>

Reject(e) ==
  /\ RecordAudit(e, "rejected")
  /\ ActivatePause("material_audit_rejection")
  /\ UNCHANGED <<source, ledger, releases, handlers>>

ManualPause ==
  /\ PauseRowFree
  /\ ~pause.isPaused
  /\ Len(pauseEvents) < MaxPauseEvents
  /\ ActivatePause("manual_founder_pause")
  /\ UNCHANGED <<source, ledger, review, handlers>>

ResolvePause ==
  /\ PauseRowFree
  /\ pause.isPaused
  /\ pause' = [pause EXCEPT !.isPaused = FALSE]
  /\ pauseEvents' = Append(pauseEvents, [action |-> "resolved", trigger |-> pause.trigger])
  /\ UNCHANGED <<source, ledger, review, handlers>>

-----------------------------------------------------------------------------
(* Environment *)

\* The CPSC refresh pauses on an invalid response, and writes no event.
SourceIntegrityPause ==
  /\ PauseRowFree
  /\ ~pause.isPaused
  /\ Len(pauseEvents) < MaxPauseEvents
  /\ pause' = [isPaused |-> TRUE, trigger |-> "source_integrity"]
  /\ UNCHANGED <<source, ledger, review, pauseEvents, handlers>>

\* _promote_revision commits: it does not take the pause row.  The observation time
\* is the caller's argument, so it may lie before the current one.
Promote ==
  /\ Current < MaxRevisions
  /\ \E observed \in 0..now, records \in SourceStates :
       revisions' = Append(revisions, [observed |-> observed, records |-> records])
  /\ UNCHANGED <<now, ledger, review, pausing, handlers>>

Tick ==
  /\ now < MaxTime
  /\ now' = now + 1
  /\ UNCHANGED <<revisions, ledger, review, pausing, handlers>>

-----------------------------------------------------------------------------
Init ==
  /\ now = 0
  /\ revisions = <<>>
  /\ evaluations = <<>>
  /\ releases = {}
  /\ audits = {}
  /\ links = {}
  /\ gateCount = 0
  /\ pause = [isPaused |-> FALSE, trigger |-> None]
  /\ pauseEvents = <<>>
  /\ pc = [p \in Procs |-> "idle"]
  /\ req = [p \in Procs |-> NoRequest]

\* A statement of a handler that the database executes.
Statement(p) ==
  \/ ReadPredecessor(p)
  \/ ReadCurrentRevision(p)
  \/ ReadCurrentObservation(p)
  \/ ReadSuccessor(p)
  \/ ClaimKey(p)
  \/ LockPause(p)
  \/ CheckFreshness(p)
  \/ ReadRevision(p)
  \/ ReadRecords(p)
  \/ Commit(p)
  \/ Return(p)

Handler(p) == Submit(p) \/ Refresh(p) \/ Statement(p) \/ Abort(p)

Founder == \/ \E e \in Evaluations : Approve(e) \/ Reject(e)
           \/ ManualPause
           \/ ResolvePause

Environment == SourceIntegrityPause \/ Promote \/ Tick

Next == (\E p \in Procs : Handler(p)) \/ Founder \/ Environment

Spec == Init /\ [][Next]_vars

\* A started request keeps running, and PostgreSQL queues lock waiters, so a
\* statement that can run again and again is eventually executed.
FairSpec == Spec /\ \A p \in Procs : SF_vars(Statement(p))

-----------------------------------------------------------------------------
(* Properties *)

AllKeys == {<<>>} \cup {SubmissionKey(k) : k \in Keys} \cup (Nat \X Nat)
Labels == Serialized \cup {"idle", "predecessor", "currentRevision",
  "currentObservation", "successor", "idempotency", "pause", "answered"}
ReplyKinds == {None, "not_found", "paused", "unavailable", "unchanged", "replayed",
  "conflict", "created", "error"}
Deltas == [added : SUBSET Recalls(Records), removed : SUBSET Recalls(Records),
           changed : SUBSET Recalls(Records)]

Rows == SUBSET Records
EvaluationRows ==
  [operator : Operators, key : AllKeys, content : Contents, revision : Nat,
   evaluatedAt : Nat, rows : Rows, released : BOOLEAN, counts : BOOLEAN, number : Nat]
Requests ==
  [operator : Operators \cup {None}, key : AllKeys, content : Contents \cup {None},
   counts : BOOLEAN, asked : Nat, from : Nat, evaluatedAt : Nat, revision : Nat,
   observed : Nat \cup {NoObservation}, rows : Rows,
   reply : [kind : ReplyKinds, evaluation : Nat]]
Triggers == {None, "material_audit_rejection", "manual_founder_pause", "source_integrity"}

\* Every table and every local variable holds values of its columns or its type.
TypeOK ==
  /\ now \in Nat
  /\ revisions \in Seq([observed : Nat, records : SourceStates])
  /\ evaluations \in Seq(EvaluationRows)
  /\ releases \subseteq Nat
  /\ audits \subseteq [evaluation : Nat, decision : {"approved", "rejected"}]
  /\ links \subseteq [predecessor : Nat, successor : Nat, delta : Deltas]
  /\ gateCount \in Nat
  /\ pause \in [isPaused : BOOLEAN, trigger : Triggers]
  /\ pauseEvents \in Seq([action : {"activated", "resolved"}, trigger : Triggers])
  /\ pc \in [Procs -> Labels]
  /\ req \in [Procs -> Requests]

\* Retries and concurrent calls under one idempotency key make one evaluation, and
\* the advisory lock alone sees to it: a handler past the lookup never meets another
\* evaluation under its key, so the UNIQUE constraint never turns a retry into an error.
KeysAreClaimedOnce ==
  /\ \A e, f \in Evaluations :
       /\ evaluations[e].operator = evaluations[f].operator
       /\ evaluations[e].key = evaluations[f].key
       => e = f
  /\ \A p \in Procs :
       pc[p] \in Serialized \cup {"pause"} => Previous(req[p].operator, req[p].key) = {}

\* Whatever promotions commit between the statements of a submission, its rows
\* never mix two revisions: they are the candidates of its revision, or none.
RowsOfOneRevision ==
  \A e \in Evaluations :
    LET row == evaluations[e] IN
    \/ row.rows = {}
    \/ row.rows = Candidates(row.content, revisions[row.revision].records)

\* The founder audit gate: a candidate queue committed while fewer than
\* AuditQueueLimit counted queues precede it is readable only once approved, the
\* refresh successors included.
CountedBefore(e) == Cardinality({f \in 1..(e - 1) : evaluations[f].counts})
AuditGate ==
  \A e \in Evaluations :
    /\ evaluations[e].rows # {}
    /\ CountedBefore(e) < AuditQueueLimit
    /\ Readable(e)
    => Approved(e)

\* An audit decision is taken once: what the founder rejected is never readable.
RejectedNeverReadable == \A e \in Evaluations : Rejected(e) => ~Readable(e) /\ ~Approved(e)

\* Concurrent refreshes build one chain per submission: a successor has the inputs
\* and the operator of its predecessor, a newer revision, and the stored delta is
\* the difference of the two.
RefreshChains ==
  /\ \A l, m \in links : l.predecessor = m.predecessor \/ l.successor = m.successor => l = m
  /\ \A l \in links :
       LET old == evaluations[l.predecessor]
           new == evaluations[l.successor]
       IN /\ l.predecessor < l.successor
          /\ old.operator = new.operator
          /\ old.content = new.content
          /\ old.revision < new.revision
          /\ Readable(l.predecessor)
          /\ l.delta = Delta(old.rows, new.rows)

\* An answer carries an evaluation of the caller, on the inputs the caller sent or
\* (for a refresh) the inputs of the evaluation it asked to refresh.
AnswersAreTheCallers ==
  \A p \in Procs :
    pc[p] = "answered" /\ req[p].reply.evaluation # 0 =>
      LET row == evaluations[req[p].reply.evaluation] IN
      /\ row.operator = req[p].operator
      /\ IF req[p].asked = 0
         THEN row.content = req[p].content
         ELSE /\ row.content = evaluations[req[p].asked].content
              /\ row.revision >= evaluations[req[p].asked].revision

\* No evaluation is committed while the pause is active, however the pause and the
\* submission interleave; in particular a rejection stops every submission in flight.
NoNewWorkWhilePaused == [][evaluations' # evaluations => ~pause.isPaused]_vars

\* Every evaluation rests on a revision that passed the 48-hour rule while its request
\* was in flight, or on one promoted after that revision.
FreshnessWasChecked ==
  \A e \in Evaluations :
    \E v \in 1..evaluations[e].revision :
      evaluations[e].evaluatedAt - revisions[v].observed <= SourceWindow

\* A submission loses candidates only to a promotion that commits between its statements:
\* while the revision it read is still current when it commits, its rows are complete.
OnlyPromotionsLoseCandidates ==
  [][\A e \in Evaluations' \ Evaluations :
       LET row == evaluations'[e] IN
       row.rows # Candidates(row.content, revisions[row.revision].records)
         => row.revision < Current]_vars

\* Nobody but a refresh that lost a race meets a UNIQUE violation: a plain submission,
\* retried and raced as often as clients like, is never answered with an error, and a
\* refresh only when another one has put a successor on its predecessor.
ErrorsAreLostRefreshes ==
  \A p \in Procs :
    pc[p] = "answered" /\ req[p].reply.kind = "error" =>
      /\ req[p].asked # 0
      /\ Successors(req[p].from) # {}

\* The order of the statements of one attempt.
Position == [predecessor |-> 1, currentRevision |-> 2, currentObservation |-> 3,
  successor |-> 4, idempotency |-> 5, pause |-> 6, freshness |-> 7, revision |-> 8,
  records |-> 9, commit |-> 10, answered |-> 11, idle |-> 12]

\* No handler goes round in circles: a statement leads to a later one, or restarts the
\* refresh (the recursive call of refresh_evaluation) from an evaluation of a strictly
\* later revision, and there are only so many revisions.
HandlersMoveOn ==
  [][\A p \in Procs :
       pc[p] # "idle" /\ pc'[p] # pc[p] =>
         \/ Position[pc[p]] < Position[pc'[p]]
         \/ /\ evaluations[req[p].from].revision < evaluations[req'[p].from].revision
            /\ evaluations[req'[p].from].revision <= Current]_vars

\* Every request is answered (or its handler dies): recursion along a refresh chain
\* ends and no handler waits for a lock for ever.
RequestsAreAnswered == \A p \in Procs : pc[p] # "idle" ~> pc[p] \in {"answered", "idle"}

-----------------------------------------------------------------------------
(* What the repository says and the code does not do *)

\* "No candidate recall-to-listing action records were found for these submitted
\* identifiers at the recorded evaluation time": an evaluation without candidates
\* stands on a revision without candidates.
NoCandidateMeansNone ==
  \A e \in Evaluations :
    evaluations[e].rows = {} =>
      Candidates(evaluations[e].content, revisions[evaluations[e].revision].records) = {}

\* "... a released queue remains reproducible": the refresh row that is read with a
\* contract is one row or none (one_or_none), so that a released queue can be read.
ContractRows(e) == {l \in links : l.predecessor = e \/ l.successor = e}
ReleasedContractsReadable ==
  \A e \in Evaluations : Readable(e) => Cardinality(ContractRows(e)) <= 1
=============================================================================

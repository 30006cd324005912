---------------------------- MODULE EvidenceReviews ----------------------------
(***************************************************************************)
(* What is recorded about a released evaluation: agents' review reports,   *)
(* retrievals of its source evidence, and human acknowledgements, each of  *)
(* which supersedes the one before it (evidence_queue.py), through the     *)
(* endpoints of web.py.  An agent's call is authenticated in a transaction *)
(* of its own (AgentAccess) and does its work in later ones; releases,     *)
(* revocations and the erasure of its operator come in between.            *)
(***************************************************************************)
EXTENDS AgentAccess, SequencesExt

CONSTANTS
  Evaluations,       \* ids of evaluations
  Owner,             \* the operator of each
  Acknowledgements,  \* calls of record_human_acknowledgement, each with its row
  ReadEvidence,      \* the scope evidence:read
  ReportReview       \* the scope reviews:report-agent

ASSUME OwnersAssumption == Owner \in [Evaluations -> Operators]
ASSUME ScopesAssumption == {ReadEvidence, ReportReview} \subseteq Scopes
ASSUME AcknowledgementsAssumption == None \notin Acknowledgements \cup Evaluations

VARIABLES
  evaluations,   \* the rows of evidence_evaluations
  released,      \* those with a released_at, their own or in evaluation_releases
  reports,       \* agent_review_reports
  retrievals,    \* source_evidence_retrievals
  about,         \* the evaluation each agent call names, once it has looked at it
  acks,          \* each acknowledgement: its step and its locals
  history        \* human_review_acknowledgements of each evaluation, in the order committed

reviewVars == <<evaluations, released, reports, retrievals, about, acks, history>>
vars == <<accessVars, reviewVars>>

NoAck == [step |-> "new", evaluation |-> None, prior |-> None]

OfAnyone(e, o) == e \in evaluations \cap released   \* mutant of ReadableBy
ReadableBy(e, o) == e \in evaluations \cap released /\ Owner[e] = o

-----------------------------------------------------------------------------
(* Agents *)

\* FOR UPDATE OF evaluations, which an acknowledgement holds until its commit
NoRowLock(e) == TRUE   \* mutant of RowFree and of AcknowledgementLockFree
RowFree(e) == \A a \in Acknowledgements : acks[a].step = "locked" => acks[a].evaluation # e

MayReport(q) == calls[q].step = "authorised" /\ calls[q].scope = ReportReview

\* One transaction: the report is for the operator whose key was authenticated.
ReportAgentReview(q, e) ==
  /\ MayReport(q)
  /\ ReadableBy(e, calls[q].operator) /\ RowFree(e)
  /\ Exists(calls[q].key)
  /\ reports' = reports \cup {[call |-> q, evaluation |-> e]}
  /\ calls' = [calls EXCEPT ![q].step = "reported"]
  /\ about' = [about EXCEPT ![q] = e]
  /\ UNCHANGED <<clock, people, keys, log, evaluations, released, retrievals, acks, history>>

\* The contract is read in one transaction, the retrieval recorded in the next, and the
\* answer sent after it.  A row that refers to an evaluation waits for its lock, too.
ReadContract(q, e) ==
  /\ calls[q].step = "authorised" /\ calls[q].scope = ReadEvidence
  /\ ReadableBy(e, calls[q].operator)
  /\ calls' = [calls EXCEPT ![q].step = "seen"]
  /\ about' = [about EXCEPT ![q] = e]
  /\ UNCHANGED <<clock, people, keys, log, evaluations, released, reports, retrievals, acks,
                 history>>

RecordRetrieval(q) ==
  /\ calls[q].step = "seen"
  /\ ReadableBy(about[q], calls[q].operator) /\ RowFree(about[q])
  /\ Exists(calls[q].key)
  /\ retrievals' = retrievals \cup {[call |-> q, evaluation |-> about[q]]}
  /\ calls' = [calls EXCEPT ![q].step = "recorded"]
  /\ UNCHANGED <<clock, people, keys, log, evaluations, released, reports, about, acks, history>>

BeforeTheRecord == {"seen", "recorded"}   \* mutant of Answerable
Answerable == {"recorded"}

Answer(q) ==
  /\ calls[q].step \in Answerable
  /\ calls' = [calls EXCEPT ![q].step = "answered"]
  /\ UNCHANGED <<clock, people, keys, log, reviewVars>>

\* Nothing is found, or the database refuses: the call is answered with a problem.
Fail(q) ==
  /\ calls[q].step \in {"authorised", "seen"}
  /\ calls' = [calls EXCEPT ![q] = [NoCall EXCEPT !.step = "failed"]]
  /\ about' = [about EXCEPT ![q] = None]
  /\ UNCHANGED <<clock, people, keys, log, evaluations, released, reports, retrievals, acks,
                 history>>

-----------------------------------------------------------------------------
(* Humans *)

\* The operator of a released evaluation, signed in.
MayReview(e) == Owner[e] \in signedIn /\ ReadableBy(e, Owner[e])

\* An operator opens a row's official page: one transaction records it.
OpenEvidence(e) ==
  /\ MayReview(e) /\ RowFree(e)
  /\ retrievals' = retrievals \cup {[call |-> None, evaluation |-> e]}
  /\ UNCHANGED <<accessVars, evaluations, released, reports, about, acks, history>>

\* The rows nothing supersedes yet.
CurrentOf(e) ==
  {x \in ToSet(history[e]) : \A y \in ToSet(history[e]) : y.supersedes # x.ack}

\* pg_advisory_xact_lock on human-acknowledgement:<evaluation>, then FOR UPDATE
AcknowledgementLockFree(e) == RowFree(e)

ReadPrior(a, e) ==
  /\ acks[a].step = "new"
  /\ MayReview(e) /\ AcknowledgementLockFree(e)
  /\ \E prior \in IF CurrentOf(e) = {} THEN {None} ELSE {x.ack : x \in CurrentOf(e)} :
       acks' = [acks EXCEPT ![a] = [step |-> "locked", evaluation |-> e, prior |-> prior]]
  /\ UNCHANGED <<accessVars, evaluations, released, reports, retrievals, about, history>>

Acknowledge(a) ==
  /\ acks[a].step = "locked"
  /\ history' = [history EXCEPT ![acks[a].evaluation] =
       Append(@, [ack |-> a, supersedes |-> acks[a].prior])]
  /\ acks' = [acks EXCEPT ![a] = [NoAck EXCEPT !.step = "done"]]
  /\ UNCHANGED <<accessVars, evaluations, released, reports, retrievals, about>>

AbortAcknowledgement(a) ==
  /\ acks[a].step = "locked"
  /\ acks' = [acks EXCEPT ![a] = NoAck]
  /\ UNCHANGED <<accessVars, evaluations, released, reports, retrievals, about, history>>

-----------------------------------------------------------------------------
(* Releases and erasure *)

\* At the submission, or when a founder approves the audit.
Release(e) ==
  /\ e \in evaluations \ released
  /\ released' = released \cup {e}
  /\ UNCHANGED <<accessVars, evaluations, reports, retrievals, about, acks, history>>

OnlyOwn(o) == {e \in evaluations : Owner[e] = o}

\* The erasure of an operator, seen at its commit.  It waits for locked evaluations.
Erase(o) ==
  /\ EraseAccess(o)
  /\ \A e \in OnlyOwn(o) : RowFree(e)
  /\ evaluations' = evaluations \ OnlyOwn(o)
  /\ released' = released \ OnlyOwn(o)
  /\ reports' = {x \in reports : x.evaluation \notin OnlyOwn(o)}
  /\ retrievals' = {x \in retrievals : x.evaluation \notin OnlyOwn(o)}
  /\ history' = [e \in Evaluations |-> IF e \in OnlyOwn(o) THEN <<>> ELSE history[e]]
  /\ UNCHANGED <<about, acks>>

Init ==
  /\ AccessInit
  /\ evaluations = Evaluations /\ released = {}
  /\ reports = {} /\ retrievals = {}
  /\ about = [q \in Calls |-> None]
  /\ acks = [a \in Acknowledgements |-> NoAck]
  /\ history = [e \in Evaluations |-> <<>>]

AgentsNext ==
  \/ \E q \in Calls, e \in Evaluations : ReportAgentReview(q, e) \/ ReadContract(q, e)
  \/ \E q \in Calls : RecordRetrieval(q) \/ Answer(q) \/ Fail(q)

HumansNext ==
  \/ \E e \in Evaluations : OpenEvidence(e) \/ Release(e)
  \/ \E a \in Acknowledgements, e \in Evaluations : ReadPrior(a, e)
  \/ \E a \in Acknowledgements : Acknowledge(a) \/ AbortAcknowledgement(a)

Next ==
  \/ AccessNext /\ UNCHANGED reviewVars
  \/ AgentsNext
  \/ HumansNext
  \/ \E o \in Operators : Erase(o)

Spec == Init /\ [][Next]_vars

-----------------------------------------------------------------------------
(* Properties *)

Records == [call : Calls \cup {None}, evaluation : Evaluations]
AckRows == [ack : Acknowledgements, supersedes : Acknowledgements \cup {None}]

\* Rows and locals are of these shapes, and releases are of evaluations there are.
TypeOK ==
  /\ AccessTypeOK
  /\ evaluations \in SUBSET Evaluations /\ released \in SUBSET evaluations
  /\ reports \in SUBSET Records /\ retrievals \in SUBSET Records
  /\ about \in [Calls -> Evaluations \cup {None}]
  /\ acks \in [Acknowledgements ->
       [step : {"new", "locked", "done"}, evaluation : Evaluations \cup {None},
        prior : Acknowledgements \cup {None}]]
  /\ history \in [Evaluations -> Seq(AckRows)]
  /\ \A a \in Acknowledgements : acks[a].step = "locked" => acks[a].evaluation \in evaluations

\* The acknowledgements of an evaluation supersede each other in the order in which they
\* were committed, so that exactly the last one is current, however many are given at
\* once (docs/api-v1.md: "current human acknowledgement, its immutable supersession
\* history"; record_human_acknowledgement).
AcknowledgementsChain ==
  \A e \in Evaluations : \A i \in 1..Len(history[e]) :
    history[e][i].supersedes = IF i = 1 THEN None ELSE history[e][i - 1].ack

\* Whatever happened between the authentication of a call and its work, each report and
\* retrieval is of a released evaluation that is still there, by an agent with that scope
\* whose key was let through and belongs to the owner; and evidence an agent was given is
\* on record, unless its operator was erased since (record_agent_review,
\* record_source_evidence_retrieval, _erase_operator).
RecordsAreRightful ==
  /\ \A x \in reports \cup retrievals : x.evaluation \in released
  /\ \A x \in reports \cup retrievals : x.call # None =>
       LET k == calls[x.call].key
       IN /\ keys[k].operator = Owner[x.evaluation] /\ Exists(k)
          /\ x \in reports => ReportReview \in keys[k].scopes
          /\ x \in retrievals => ReadEvidence \in keys[k].scopes
          /\ \E y \in admitted[k] : y.event = x.call
  /\ \A q \in Calls : calls[q].step = "answered" =>
       [call |-> q, evaluation |-> about[q]] \in retrievals \/ about[q] \notin evaluations
=============================================================================

------------------------ MODULE EvidenceQueueLedgerProofs ------------------------
(***************************************************************************)
(* The evidence queue implements the submission ledger, for every value of *)
(* the constants: each step is a ledger step under the mapping of          *)
(* EvidenceQueueLedger, or leaves the ledger alone.                        *)
(***************************************************************************)
EXTENDS EvidenceQueueProofs

\* The ledger the current state stands for.
Entries == [e \in Evaluations |-> Entry(e)]

\* The mapped ledger has one entry per evaluation.
LEMMA EntriesShape ==
  ASSUME TypeInv
  PROVE  /\ Len(Entries) = Len(evaluations)
         /\ DOMAIN Entries = Evaluations
         /\ \A e \in Evaluations : Entries[e] = Entry(e)
         /\ Entries \in Seq({Entry(e) : e \in Evaluations})
<1>1. Len(evaluations) \in Nat
  BY LengthsType
<1>2. Entries \in Seq({Entry(e) : e \in Evaluations})
  BY <1>1, IsASeq DEF Entries, Evaluations
<1> QED BY <1>1, <1>2, LenProperties DEF Entries, Evaluations

\* The empty database is the empty ledger.
LEMMA LedgerInit == Init => Ledger!Init
<1> SUFFICES ASSUME Init PROVE Ledger!Init
  OBVIOUS
<1>1. Evaluations = {}
  BY DEF Init, Evaluations
<1>2. Entries = <<>>
  BY <1>1 DEF Entries
<1> QED BY <1>2 DEF Init, Ledger!Init, Entries

\* Steps that keep evaluations, releases, audits and the pause stutter.
LEMMA LedgerStutter ==
  ASSUME UNCHANGED <<evaluations, releases, audits, pause>>
  PROVE  UNCHANGED Ledger!vars
  BY DEF Ledger!vars, Entry, EntryState, Readable, Rejected, Evaluations

\* A commit enters one result, held exactly when the gate holds it.
LEMMA LedgerCommit ==
  ASSUME TypeInv, PauseInv, ReviewInv, NEW p \in Procs, Commit(p), Committed(p)
  PROVE  Ledger!Enter
<1>0. PICK m \in Nat : m = Len(evaluations)
  BY LengthsType
<1> DEFINE n == m + 1
<1>1. /\ Evaluations = 1..m /\ Evaluations' = 1..n
      /\ n \notin Evaluations
      /\ \A e \in Evaluations : evaluations'[e] = evaluations[e]
      /\ evaluations'[n] = NewEvaluation(p)
  BY <1>0, AppendedEvaluation DEF Evaluations
<1>2. UNCHANGED <<releases, audits, pause>> /\ ~pause.isPaused
  BY DEF Commit, review, pausing, PauseInv, HoldsPause, Serialized
<1>3. n \notin releases /\ ~Rejected(n)
  BY <1>1, ReviewedExist DEF ReviewInv
<1>4. \A e \in Evaluations : Entry(e)' = Entry(e)
  BY <1>1, <1>2 DEF Entry, EntryState, Readable, Rejected
<1>5. /\ evaluations'[n].operator = req[p].operator
      /\ evaluations'[n].key = req[p].key
      /\ evaluations'[n].content = req[p].content
      /\ evaluations'[n].counts = req[p].counts
      /\ evaluations'[n].rows = req[p].rows
      /\ evaluations'[n].released = ~HeldByGate(req[p].rows, gateCount + 1)
  BY <1>1 DEF NewEvaluation
<1>6. EntryState(n)' = IF HeldByGate(req[p].rows, gateCount + 1) THEN "held" ELSE "open"
  BY <1>2, <1>3, <1>5 DEF EntryState, Readable, Rejected
<1>7. Entry(n)' = [operator |-> req[p].operator, key |-> req[p].key,
                   content |-> req[p].content, counts |-> req[p].counts,
                   candidate |-> req[p].rows # {},
                   state |-> IF HeldByGate(req[p].rows, gateCount + 1) THEN "held" ELSE "open"]
  BY <1>5, <1>6 DEF Entry
<1>8. Entries' = Append(Entries, Entry(n)')
  <2> DEFINE S == {Entry(e) : e \in Evaluations} \cup {Entry(n)'}
             grown == Append(Entries, Entry(n)')
  <2>1. m \in Nat /\ Entries = [e \in 1..m |-> Entry(e)] /\ \A e \in 1..m : Entry(e) \in S
    BY <1>0, <1>1 DEF Entries
  <2>2. Entries \in Seq(S) /\ Entry(n)' \in S
    BY <2>1, IsASeq
  <2>3. Len(Entries) = m
    BY <1>0, <1>1, EntriesShape
  <2>4. /\ grown \in Seq(S) /\ Len(grown) = n
        /\ grown[n] = Entry(n)'
        /\ \A e \in 1..m : grown[e] = Entry(e)
    BY <2>1, <2>2, <2>3, AppendProperties
  <2>5. Entries' = [e \in 1..n |-> Entry(e)']
    BY <1>1 DEF Entries
  <2>6. \A e \in 1..n : Entry(e)' = grown[e]
    BY <1>1, <1>4, <2>1, <2>4
  <2>7. grown = [e \in 1..n |-> grown[e]]
    BY <2>4
  <2> QED BY <2>5, <2>6, <2>7
<1>9. Ledger!Counted = gateCount
  <2>1. Ledger!Counted = Cardinality({i \in 1..Len(Entries) : Entries[i].counts})
    BY Zenon DEF Ledger!Counted, Entries, Cardinality, Ledger!Cardinality
  <2>2. {i \in 1..Len(Entries) : Entries[i].counts} = {e \in Evaluations : evaluations[e].counts}
    BY <1>0, <1>1, EntriesShape DEF Entry
  <2> QED BY <2>1, <2>2 DEF ReviewInv, GateInv, GateCountsCommitted
<1>10. Ledger!Fresh(req[p].operator, req[p].key)
  <2>1. \A e \in Evaluations :
          ~(evaluations[e].operator = req[p].operator /\ evaluations[e].key = req[p].key)
    BY DEF Committed, UniqueViolation, Previous
  <2>2. \A i \in 1..Len(Entries) :
          ~(Entries[i].operator = req[p].operator /\ Entries[i].key = req[p].key)
    BY <1>0, <1>1, <2>1, EntriesShape DEF Entry
  <2> QED BY <2>2 DEF Ledger!Fresh, Entries
<1>11. /\ req[p].operator \in Operators /\ req[p].content \in Contents
       /\ req[p].key \in AllKeys /\ req[p].counts \in BOOLEAN
       /\ req[p].rows \in Rows /\ gateCount \in Nat
  BY DEF TypeInv, TypeOK, Requests, Commit, LocalsOK, Submitting, Serialized
<1> DEFINE new == Entry(n)'
<1>12. new \in Ledger!Results
  <2> DEFINE candidate == req[p].rows # {}
             state == IF HeldByGate(req[p].rows, gateCount + 1) THEN "held" ELSE "open"
  <2>1. candidate \in BOOLEAN /\ state \in {"open", "held"}
    OBVIOUS
  <2>2. new = [operator |-> req[p].operator, key |-> req[p].key, content |-> req[p].content,
               counts |-> req[p].counts, candidate |-> candidate, state |-> state]
    BY <1>7
  <2> HIDE DEF new, candidate, state
  <2> QED BY <1>11, <2>1, <2>2 DEF Ledger!Results
<1>13. new.state = "held" <=> new.candidate /\ Ledger!Counted < AuditQueueLimit
  <2>1. new.state = "held" <=> HeldByGate(req[p].rows, gateCount + 1)
    BY <1>7
  <2>2. new.candidate <=> req[p].rows # {}
    <3> DEFINE candidate == req[p].rows # {}
               state == IF HeldByGate(req[p].rows, gateCount + 1) THEN "held" ELSE "open"
    <3>1. new = [operator |-> req[p].operator, key |-> req[p].key, content |-> req[p].content,
                 counts |-> req[p].counts, candidate |-> candidate, state |-> state]
      BY <1>7
    <3> HIDE DEF new, candidate, state
    <3>2. new.candidate = candidate
      BY <3>1
    <3> QED BY Zenon, <3>2 DEF candidate
  <2> HIDE DEF new
  <2> QED BY <1>9, <1>11, <2>1, <2>2, GateAssumption DEF HeldByGate
<1>14. new.operator = req[p].operator /\ new.key = req[p].key
  BY <1>7
<1>15. /\ Len(Entries) = m /\ Len(Entries') = m + 1 /\ Entries'[n] = new
  BY <1>0, <1>1, <1>8, EntriesShape, CommitType DEF Entries
<1> HIDE DEF new
<1> QED BY <1>2, <1>8, <1>10, <1>12, <1>13, <1>14, <1>15 DEF Ledger!Enter, Entries, new

\* An audit decides one held entry.
LEMMA LedgerAudit ==
  ASSUME TypeInv, ReviewInv, NEW e \in Evaluations, Approve(e) \/ Reject(e)
  PROVE  Ledger!Next
<1>1. PICK d \in {"approved", "rejected"} :
        /\ audits' = audits \cup {[evaluation |-> e, decision |-> d]}
        /\ releases' = IF d = "approved" THEN releases \cup {e} ELSE releases
        /\ pause'.isPaused = (pause.isPaused \/ d = "rejected")
  <2>1. CASE Approve(e)
    <3>1. UNCHANGED pause /\ pause.isPaused \in BOOLEAN
      BY <2>1 DEF Approve, pausing, TypeInv, TypeOK
    <3> QED BY <2>1, <3>1 DEF Approve, RecordAudit
  <2>2. CASE Reject(e)
    <3>1. pause'.isPaused = TRUE
      BY <2>2 DEF Reject, ActivatePause
    <3> QED BY <2>2, <3>1 DEF Reject, RecordAudit
  <2> QED BY <2>1, <2>2
<1>2. UNCHANGED evaluations /\ Held(e) /\ ~Audited(e)
  BY DEF Approve, Reject, RecordAudit, ledger
<1> DEFINE state == IF d = "approved" THEN "open" ELSE "refused"
<1>3. EntryState(e) = "held" /\ EntryState(e)' = state
  BY <1>1, <1>2 DEF EntryState, Held, Readable, Audited, Rejected
<1>4. \A f \in Evaluations : f # e => EntryState(f)' = EntryState(f)
  BY <1>1, <1>2 DEF EntryState, Readable, Rejected
<1>5. Entries' = [Entries EXCEPT ![e].state = state]
  BY <1>2, <1>3, <1>4 DEF Entries, Entry, Evaluations
<1>6. e \in 1..Len(Entries) /\ Entries[e].state = "held"
  BY <1>3, EntriesShape DEF Entry, Evaluations
<1>7. Ledger!Decide(e, state)
  BY <1>1, <1>5, <1>6 DEF Ledger!Decide, Entries
<1> QED BY <1>6, <1>7 DEF Ledger!Next, Entries

\* Every step of the evidence queue is a step of the ledger or leaves it alone.
LEMMA LedgerStep ==
  ASSUME TypeInv, PauseInv, ReviewInv, [Next]_vars
  PROVE  [Ledger!Next]_(Ledger!vars)
<1>1. ASSUME NEW p \in Procs, Handler(p) PROVE [Ledger!Next]_(Ledger!vars)
  <2>1. CASE Commit(p) /\ Committed(p)
    BY <2>1, LedgerCommit DEF Ledger!Next
  <2>2. CASE UNCHANGED ledger
    BY <1>1, <2>2, HandlerFrame, LedgerStutter DEF ledger, review, pausing
  <2> QED BY <1>1, <2>1, <2>2, HandlerFrame
<1>2. CASE \E e \in Evaluations : Approve(e) \/ Reject(e)
  BY <1>2, LedgerAudit
<1>3. CASE ManualPause \/ ResolvePause \/ SourceIntegrityPause
  <2>1. pause'.isPaused = ~pause.isPaused
    <3>1. pause \in [isPaused : BOOLEAN, trigger : Triggers]
      BY DEF TypeInv, TypeOK
    <3>2. CASE ManualPause \/ SourceIntegrityPause
      <4>1. pause'.isPaused = TRUE /\ ~pause.isPaused
        BY <3>2 DEF ManualPause, SourceIntegrityPause, ActivatePause
      <4> QED BY <3>1, <4>1
    <3>3. CASE ResolvePause
      BY <3>1, <3>3 DEF ResolvePause
    <3> QED BY <1>3, <3>2, <3>3
  <2>2. UNCHANGED <<evaluations, releases, audits>>
    BY <1>3 DEF ManualPause, ResolvePause, SourceIntegrityPause, ledger, review
  <2>3. Ledger!Switch
    BY <2>1, <2>2 DEF Ledger!Switch, Entry, EntryState, Readable, Rejected, Evaluations
  <2> QED BY <2>3 DEF Ledger!Next
<1>4. CASE Promote \/ Tick \/ UNCHANGED vars
  BY <1>4, LedgerStutter DEF Promote, Tick, vars, ledger, review, pausing
<1> QED BY <1>1, <1>2, <1>3, <1>4 DEF Next, Founder, Environment

\* Handlers split at every statement, crashes, retries, refreshes, audits and pauses
\* in any interleaving implement the atomic ledger: append-only, one result per
\* idempotency key, nothing entered while paused, candidates held by the gate until
\* one final decision.
THEOREM LedgerIsImplemented == Spec => ImplementsLedger
<1>1. Spec => [][Ledger!Next]_(Ledger!vars)
  BY LedgerStep, ReviewInduction, PTL DEF Spec
<1> QED BY <1>1, LedgerInit, PTL DEF Spec, ImplementsLedger, Ledger!Spec

-----------------------------------------------------------------------------
(* The queue and the source *)

\* The queue, its founders and its handlers read the history that the source promises and
\* is proved to keep (CpscSourceProofs), and write nothing of it but the pause: what the
\* queue assumes of the source is a history of that kind.
THEOREM SourceIsOnlyRead == Spec => ReadsTheHistory
<1>1. Init => SourceSeen!Init
  BY DEF Init, SourceSeen!Init
<1>2. TypeInv /\ [Next]_vars => [SourceSeen!Next]_(SourceSeen!vars)
  <2> SUFFICES ASSUME TypeInv, [Next]_vars PROVE [SourceSeen!Next]_(SourceSeen!vars)
    OBVIOUS
  <2>0. pause \in [isPaused : BOOLEAN, trigger : Triggers]
    BY DEF TypeInv, TypeOK
  <2>1. ASSUME NEW p \in Procs, Handler(p) PROVE UNCHANGED SourceSeen!vars
    BY <2>1, HandlerFrame DEF source, pausing, SourceSeen!vars
  <2>2. ASSUME NEW e \in Evaluations, Approve(e) \/ Reject(e)
        PROVE  [SourceSeen!Next]_(SourceSeen!vars)
    BY <2>2 DEF Approve, Reject, ActivatePause, source, pausing, SourceSeen!vars, SourceSeen!Next, SourceSeen!Pause
  <2>3. CASE ManualPause \/ SourceIntegrityPause
    BY <2>3 DEF ManualPause, SourceIntegrityPause, ActivatePause, source, SourceSeen!Next, SourceSeen!Pause
  <2>4. CASE ResolvePause
    BY <2>0, <2>4 DEF ResolvePause, source, SourceSeen!Next, SourceSeen!Resume
  <2>5. CASE Promote
    <3>1. PICK observed \in 0..now, records \in SourceStates :
            revisions' = Append(revisions, [observed |-> observed, records |-> records])
      BY <2>5 DEF Promote
    <3> DEFINE new == [observed |-> observed, records |-> records]
    <3>2. now \in Nat /\ revisions \in Seq([observed : Nat, records : SourceStates])
      BY DEF TypeInv, TypeOK
    <3>3. new \in [observed : Nat, records : SourceStates]
      BY <3>1, <3>2
    <3>4. /\ Len(revisions') = Len(revisions) + 1
          /\ revisions'[Len(revisions) + 1] = new
      BY <3>1, <3>2, <3>3, AppendProperties
    <3>5. UNCHANGED pause.isPaused
      BY <2>5 DEF Promote, pausing
    <3> QED BY <3>1, <3>3, <3>4, <3>5 DEF SourceSeen!Promote, SourceSeen!Next
  <2>6. CASE Tick \/ UNCHANGED vars
    BY <2>6 DEF Tick, vars, pausing, SourceSeen!vars
  <2> QED BY <2>1, <2>2, <2>3, <2>4, <2>5, <2>6 DEF Next, Founder, Environment
<1> QED BY <1>1, <1>2, ReviewInduction, PTL DEF Spec, ReadsTheHistory, SourceSeen!Spec
=============================================================================

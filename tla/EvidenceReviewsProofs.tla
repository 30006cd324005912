------------------------- MODULE EvidenceReviewsProofs -------------------------
(***************************************************************************)
(* What keys, calls, acknowledgements and the records of evaluations keep, *)
(* for every number of them: the parts of AgentAccessProofs, the chain of  *)
(* acknowledgements and the rightfulness of records.                       *)
(***************************************************************************)
EXTENDS EvidenceReviews, AgentAccessProofs, SequenceTheorems

-----------------------------------------------------------------------------
(* The inductive invariant *)

LastAck(e) == history[e][Len(history[e])].ack

\* An acknowledgement is committed once.
CommittedOnce ==
  \A e \in Evaluations : \A i, j \in 1..Len(history[e]) :
    /\ acks[history[e][i].ack].step = "done"
    /\ history[e][i].ack = history[e][j].ack => i = j
\* Whoever has an evaluation's lock has it alone, and knows its last acknowledgement.
LockedAlone ==
  \A a, b \in Acknowledgements :
    acks[a].step = "locked" /\ acks[b].step = "locked" /\ acks[a].evaluation = acks[b].evaluation
    => a = b
PriorIsLast ==
  \A a \in Acknowledgements : acks[a].step = "locked" =>
    acks[a].prior = IF history[acks[a].evaluation] = <<>> THEN None ELSE LastAck(acks[a].evaluation)
AcksInv == AcknowledgementsChain /\ CommittedOnce /\ LockedAlone /\ PriorIsLast

\* The call of a record was let through for its scope, with a key of the owner.
RowOf(x, steps, scope) ==
  /\ x.call \in Calls
  /\ calls[x.call].step \in steps /\ calls[x.call].scope = scope
  /\ calls[x.call].operator = Owner[x.evaluation]
  /\ Exists(calls[x.call].key)
ReportRows == \A x \in reports : RowOf(x, {"reported"}, ReportReview)
RetrievalRows == \A x \in retrievals : x.call # None => RowOf(x, {"recorded", "answered"}, ReadEvidence)
OnRecord ==
  \A q \in Calls : calls[q].step \in {"recorded", "answered"} =>
    [call |-> q, evaluation |-> about[q]] \in retrievals \/ about[q] \notin evaluations
RecordsInv ==
  /\ \A x \in reports \cup retrievals : x.evaluation \in released
  /\ ReportRows /\ RetrievalRows /\ OnRecord
  /\ \A q \in Calls : calls[q].step = "seen" => calls[q].scope = ReadEvidence

Inv == TypeOK /\ KeysInv /\ CallsInv /\ AcksInv /\ RecordsInv

-----------------------------------------------------------------------------
(* Types *)

\* Every step is one of those that keys and calls are proved about.
LEMMA NextIsAccessStep == [Next]_vars => AccessStep
<1>1. ASSUME NEW q \in Calls, NEW e \in Evaluations, ReportAgentReview(q, e) \/ ReadContract(q, e)
      PROVE  Works(q)
  BY <1>1 DEF ReportAgentReview, ReadContract, MayReport, Works
<1>2. ASSUME NEW q \in Calls, RecordRetrieval(q) \/ Answer(q) \/ Fail(q)
      PROVE  Works(q)
  BY <1>2 DEF RecordRetrieval, Answer, Answerable, Fail, Works
<1>3. HumansNext => UNCHANGED accessVars
  BY DEF HumansNext, OpenEvidence, Release, ReadPrior, Acknowledge, AbortAcknowledgement
<1>4. ASSUME NEW o \in Operators, Erase(o) PROVE EraseAccess(o)
  BY <1>4 DEF Erase
<1> QED BY <1>1, <1>2, <1>3, <1>4 DEF Next, AgentsNext, AccessStep, vars

\* Initially evaluations are there and nothing is recorded.
LEMMA TypeInit == Init => TypeOK
<1> SUFFICES ASSUME Init PROVE TypeOK
  OBVIOUS
<1>1. AccessTypeOK
  BY AccessTypeInit DEF Init
<1>2. /\ acks \in [Acknowledgements ->
           [step : {"new", "locked", "done"}, evaluation : Evaluations \cup {None},
            prior : Acknowledgements \cup {None}]]
      /\ \A a \in Acknowledgements : acks[a].step # "locked"
  BY DEF Init, NoAck
<1>3. history \in [Evaluations -> Seq(AckRows)]
  BY DEF Init
<1> QED BY <1>1, <1>2, <1>3 DEF Init, TypeOK

AckLocals == [step : {"new", "locked", "done"}, evaluation : Evaluations \cup {None},
              prior : Acknowledgements \cup {None}]

\* Every step keeps the shapes of rows and locals.
LEMMA TypeNext == ASSUME TypeOK, [Next]_vars PROVE TypeOK'
<1>0. AccessTypeOK'
  BY NextIsAccessStep, AccessTypeNext DEF TypeOK
<1>a. /\ evaluations \in SUBSET Evaluations /\ released \in SUBSET evaluations
      /\ reports \in SUBSET Records /\ retrievals \in SUBSET Records
      /\ about \in [Calls -> Evaluations \cup {None}]
      /\ acks \in [Acknowledgements -> AckLocals]
      /\ history \in [Evaluations -> Seq(AckRows)]
      /\ \A a \in Acknowledgements : acks[a].step = "locked" => acks[a].evaluation \in evaluations
  BY DEF TypeOK, AckLocals
<1> SUFFICES
      /\ evaluations' \in SUBSET Evaluations /\ released' \in SUBSET evaluations'
      /\ reports' \in SUBSET Records /\ retrievals' \in SUBSET Records
      /\ about' \in [Calls -> Evaluations \cup {None}]
      /\ acks' \in [Acknowledgements -> AckLocals]
      /\ history' \in [Evaluations -> Seq(AckRows)]
      /\ \A a \in Acknowledgements : acks'[a].step = "locked" => acks'[a].evaluation \in evaluations'
  BY <1>0 DEF TypeOK, AckLocals
<1>1. CASE UNCHANGED reviewVars
  BY <1>1, <1>a DEF reviewVars
<1>2. ASSUME NEW q \in Calls, NEW e \in Evaluations, ReportAgentReview(q, e) \/ ReadContract(q, e)
      PROVE  UNCHANGED <<evaluations, released, retrievals, acks, history>>
             /\ reports' \in SUBSET Records /\ about' \in [Calls -> Evaluations \cup {None}]
  BY <1>2, <1>a DEF ReportAgentReview, ReadContract, Records
<1>3. ASSUME NEW q \in Calls, RecordRetrieval(q) \/ Answer(q) \/ Fail(q)
      PROVE  UNCHANGED <<evaluations, released, reports, acks, history>>
             /\ retrievals' \in SUBSET Records /\ about' \in [Calls -> Evaluations \cup {None}]
  BY <1>3, <1>a DEF RecordRetrieval, ReadableBy, Answer, Fail, Records, reviewVars
<1>4. ASSUME NEW e \in Evaluations, OpenEvidence(e) \/ Release(e)
      PROVE  UNCHANGED <<evaluations, reports, about, acks, history>>
             /\ retrievals' \in SUBSET Records /\ released' \in SUBSET evaluations'
  BY <1>4, <1>a DEF OpenEvidence, MayReview, ReadableBy, Release, Records
<1>5. ASSUME NEW a \in Acknowledgements, NEW e \in Evaluations, ReadPrior(a, e)
      PROVE  /\ UNCHANGED <<evaluations, released, reports, retrievals, about, history>>
             /\ acks' \in [Acknowledgements -> AckLocals]
             /\ \A b \in Acknowledgements : acks'[b].step = "locked" => acks'[b].evaluation \in evaluations
  <2>1. PICK prior \in IF CurrentOf(e) = {} THEN {None} ELSE {x.ack : x \in CurrentOf(e)} :
          acks' = [acks EXCEPT ![a] = [step |-> "locked", evaluation |-> e, prior |-> prior]]
    BY <1>5 DEF ReadPrior
  <2>2. ToSet(history[e]) \subseteq AckRows
    BY <1>a DEF ToSet
  <2>3. prior \in Acknowledgements \cup {None}
    BY <2>1, <2>2 DEF CurrentOf, AckRows
  <2>4. e \in evaluations
    BY <1>5 DEF ReadPrior, MayReview, ReadableBy
  <2>5. [step |-> "locked", evaluation |-> e, prior |-> prior] \in AckLocals
    BY <2>3 DEF AckLocals
  <2> QED BY <1>5, <1>a, <2>1, <2>4, <2>5 DEF ReadPrior
<1>6. ASSUME NEW a \in Acknowledgements, Acknowledge(a) \/ AbortAcknowledgement(a)
      PROVE  /\ UNCHANGED <<evaluations, released, reports, retrievals, about>>
             /\ acks' \in [Acknowledgements -> AckLocals]
             /\ history' \in [Evaluations -> Seq(AckRows)]
             /\ \A b \in Acknowledgements : acks'[b].step = "locked" => acks'[b].evaluation \in evaluations
  <2>1. NoAck \in AckLocals /\ [NoAck EXCEPT !.step = "done"] \in AckLocals
    BY DEF NoAck, AckLocals
  <2>2. acks[a].step = "locked"
    BY <1>6 DEF Acknowledge, AbortAcknowledgement
  <2>3. acks[a].evaluation \in Evaluations /\ [ack |-> a, supersedes |-> acks[a].prior] \in AckRows
    BY <1>a, <2>2 DEF AckLocals, AckRows
  <2>4. history' \in [Evaluations -> Seq(AckRows)]
    <3>1. Append(history[acks[a].evaluation], [ack |-> a, supersedes |-> acks[a].prior]) \in Seq(AckRows)
      <4> HIDE DEF AckRows
      <4>1. history[acks[a].evaluation] \in Seq(AckRows)
        BY <1>a, <2>3
      <4> QED BY <2>3, <4>1, AppendProperties
    <3> QED BY <1>6, <1>a, <3>1 DEF Acknowledge, AbortAcknowledgement
  <2>5. /\ acks' \in [Acknowledgements -> AckLocals] /\ acks'[a].step # "locked"
        /\ \A b \in Acknowledgements \ {a} : acks'[b] = acks[b]
    <3>1. NoAck.step # "locked" /\ [NoAck EXCEPT !.step = "done"].step # "locked"
      BY DEF NoAck
    <3>2. PICK v \in AckLocals : acks' = [acks EXCEPT ![a] = v] /\ v.step # "locked"
      BY <1>6, <2>1, <3>1, Zenon DEF Acknowledge, AbortAcknowledgement
    <3> QED BY <1>a, <3>2
  <2>6. UNCHANGED <<evaluations, released, reports, retrievals, about>>
    BY <1>6 DEF Acknowledge, AbortAcknowledgement
  <2> QED BY <1>a, <2>4, <2>5, <2>6
<1>7. ASSUME NEW o \in Operators, Erase(o)
      PROVE  /\ evaluations' \in SUBSET Evaluations /\ released' \in SUBSET evaluations'
             /\ reports' \in SUBSET Records /\ retrievals' \in SUBSET Records
             /\ UNCHANGED <<about, acks>>
             /\ history' \in [Evaluations -> Seq(AckRows)]
             /\ \A a \in Acknowledgements : acks[a].step = "locked" => acks[a].evaluation \in evaluations'
  BY <1>7, <1>a DEF Erase, OnlyOwn, RowFree
<1> QED BY <1>a, <1>1, <1>2, <1>3, <1>4, <1>5, <1>6, <1>7 DEF Next, AgentsNext, HumansNext, vars
-----------------------------------------------------------------------------
(* Acknowledgements *)

\* What a history holds.
LEMMA AcksOfHistory ==
  ASSUME TypeOK, NEW e \in Evaluations, NEW i \in 1..Len(history[e])
  PROVE  history[e][i] \in AckRows /\ history[e][i].ack \in Acknowledgements
<1>1. history[e] \in Seq(AckRows)
  BY DEF TypeOK
<1>2. history[e][i] \in AckRows
  BY <1>1, ElementOfSeq
<1> QED BY <1>2 DEF AckRows

\* The one acknowledgement nothing supersedes is the last.
LEMMA CurrentIsLast ==
  ASSUME TypeOK, AcknowledgementsChain, CommittedOnce, NEW e \in Evaluations
  PROVE  /\ history[e] = <<>> => CurrentOf(e) = {}
         /\ history[e] # <<>> => /\ CurrentOf(e) # {}
                                 /\ \A x \in CurrentOf(e) : x.ack = LastAck(e)
<1> DEFINE h == history[e]
<1>1. h \in Seq(AckRows) /\ Len(h) \in Nat /\ DOMAIN h = 1..Len(h)
  BY DEF TypeOK
<1>2. ToSet(h) = {h[i] : i \in 1..Len(h)}
  BY <1>1 DEF ToSet
<1>3. \A i \in 1..Len(h) : h[i] \in AckRows /\ h[i].ack # None
  BY AcksOfHistory, AcknowledgementsAssumption
<1>4. \A i \in 1..Len(h) : h[i].supersedes = IF i = 1 THEN None ELSE h[i - 1].ack
  BY DEF AcknowledgementsChain
<1>5. \A i, j \in 1..Len(h) : h[i].ack = h[j].ack => i = j
  BY DEF CommittedOnce
<1> HIDE DEF h
<1>6. CASE h = <<>>
  <2>1. ToSet(h) = {}
    BY <1>2, <1>6
  <2> QED BY <1>6, <2>1 DEF CurrentOf, h
<1>7. CASE h # <<>>
  <2>1. Len(h) \in 1..Len(h)
    BY <1>1, <1>7, EmptySeq
  <2>2. \A i \in 1..Len(h) : h[i].supersedes # h[Len(h)].ack
    <3> SUFFICES ASSUME NEW i \in 1..Len(h), h[i].supersedes = h[Len(h)].ack PROVE FALSE
      OBVIOUS
    <3>1. i # 1
      BY <1>3, <1>4, <2>1
    <3>2. i - 1 \in 1..Len(h) /\ h[i - 1].ack = h[Len(h)].ack
      BY <1>1, <1>4, <3>1
    <3>3. i - 1 = Len(h)
      BY <1>5, <2>1, <3>2
    <3> QED BY <1>1, <3>3
  <2>3. h[Len(h)] \in CurrentOf(e)
    BY <1>2, <2>1, <2>2 DEF CurrentOf, h
  <2>4. ASSUME NEW x \in CurrentOf(e) PROVE x.ack = h[Len(h)].ack
    <3>1. PICK i \in 1..Len(h) : x = h[i]
      BY <1>2, <2>4 DEF CurrentOf, h
    <3>2. \A j \in 1..Len(h) : h[j].supersedes # h[i].ack
      BY <1>2, <2>4, <3>1 DEF CurrentOf, h
    <3>3. ~(i < Len(h))
      <4> SUFFICES ASSUME i < Len(h) PROVE FALSE
        OBVIOUS
      <4>1. i + 1 \in 1..Len(h) /\ i + 1 # 1 /\ (i + 1) - 1 = i
        BY <1>1
      <4>2. h[i + 1].supersedes = h[i].ack
        BY <1>4, <4>1
      <4> QED BY <3>2, <4>1, <4>2
    <3>4. i = Len(h)
      <4>1. i \in Nat /\ i <= Len(h) /\ Len(h) \in Nat
        BY <1>1
      <4> QED BY <3>3, <4>1
    <3> QED BY <3>1, <3>4
  <2> QED BY <1>7, <2>3, <2>4 DEF h, LastAck
<1> QED BY <1>6, <1>7

\* Every step keeps the chain: the lock is held from the read of the last acknowledgement
\* to the commit of the one that supersedes it.
LEMMA AcksNext == ASSUME TypeOK, AcksInv, [Next]_vars PROVE AcksInv'
<1>0. /\ acks \in [Acknowledgements -> AckLocals] /\ history \in [Evaluations -> Seq(AckRows)]
      /\ \A a \in Acknowledgements : acks[a].step = "locked" => acks[a].evaluation \in evaluations
      /\ evaluations \in SUBSET Evaluations
  BY DEF TypeOK, AckLocals
<1>1. CASE UNCHANGED <<acks, history>>
  BY <1>1 DEF AcksInv, AcknowledgementsChain, CommittedOnce, LockedAlone, PriorIsLast, LastAck
<1>2. ASSUME NEW a \in Acknowledgements, NEW e \in Evaluations, ReadPrior(a, e) PROVE AcksInv'
  <2>1. PICK prior \in IF CurrentOf(e) = {} THEN {None} ELSE {x.ack : x \in CurrentOf(e)} :
          acks' = [acks EXCEPT ![a] = [step |-> "locked", evaluation |-> e, prior |-> prior]]
    BY <1>2 DEF ReadPrior
  <2>2. /\ acks[a].step = "new" /\ UNCHANGED history
        /\ \A b \in Acknowledgements : acks[b].step = "locked" => acks[b].evaluation # e
    BY <1>2 DEF ReadPrior, AcknowledgementLockFree, RowFree
  <2>3. /\ acks'[a].step = "locked" /\ acks'[a].evaluation = e /\ acks'[a].prior = prior
        /\ \A b \in Acknowledgements \ {a} : acks'[b] = acks[b]
    BY <1>0, <2>1
  <2>4. prior = IF history[e] = <<>> THEN None ELSE LastAck(e)
    BY <2>1, CurrentIsLast DEF AcksInv
  <2>5. AcknowledgementsChain'
    BY <2>2 DEF AcksInv, AcknowledgementsChain
  <2>6. CommittedOnce'
    <3>1. \A f \in Evaluations : \A i \in 1..Len(history[f]) : history[f][i].ack \in Acknowledgements
      BY AcksOfHistory
    <3> QED BY <2>2, <2>3, <3>1 DEF AcksInv, CommittedOnce
  <2>7. LockedAlone'
    BY <2>2, <2>3 DEF AcksInv, LockedAlone
  <2>8. PriorIsLast'
    <3> SUFFICES ASSUME NEW b \in Acknowledgements, acks'[b].step = "locked"
                 PROVE  acks'[b].prior = IF history[acks'[b].evaluation] = <<>> THEN None
                                         ELSE LastAck(acks'[b].evaluation)
      BY <2>2 DEF PriorIsLast, LastAck
    <3> QED BY <2>3, <2>4 DEF AcksInv, PriorIsLast
  <2> QED BY <2>5, <2>6, <2>7, <2>8 DEF AcksInv
<1>3. ASSUME NEW a \in Acknowledgements, Acknowledge(a) PROVE AcksInv'
  <2>1. PICK e \in Evaluations : e = acks[a].evaluation
    BY <1>0, <1>3 DEF Acknowledge
  <2>2. PICK row : row = [ack |-> a, supersedes |-> acks[a].prior]
    OBVIOUS
  <2>3. /\ history'[e] = Append(history[e], row)
        /\ \A f \in Evaluations \ {e} : history'[f] = history[f]
    BY <1>0, <1>3, <2>1, <2>2 DEF Acknowledge
  <2>4. /\ acks[a].step = "locked" /\ acks'[a].step = "done"
        /\ \A b \in Acknowledgements \ {a} : acks'[b] = acks[b]
    BY <1>0, <1>3 DEF Acknowledge, NoAck
  <2>5. row \in AckRows /\ row.ack = a /\ row.supersedes = acks[a].prior
    BY <1>0, <2>2 DEF AckRows, AckLocals
  <2>6. /\ Len(history[e]) \in Nat
        /\ Len(history'[e]) = Len(history[e]) + 1
        /\ \A i \in 1..Len(history[e]) : history'[e][i] = history[e][i]
        /\ history'[e][Len(history[e]) + 1] = row
    <3>1. history[e] \in Seq(AckRows)
      BY <1>0
    <3> QED BY <2>3, <2>5, <3>1, AppendProperties, LenProperties
  <2>7. row.supersedes = IF history[e] = <<>> THEN None ELSE history[e][Len(history[e])].ack
    BY <2>1, <2>4, <2>5 DEF AcksInv, PriorIsLast, LastAck
  <2>8. history[e] = <<>> <=> Len(history[e]) = 0
    BY <1>0, EmptySeq
  <2>9. AcknowledgementsChain'
    <3> SUFFICES ASSUME NEW f \in Evaluations, NEW i \in 1..Len(history'[f])
                 PROVE  history'[f][i].supersedes = IF i = 1 THEN None ELSE history'[f][i - 1].ack
      BY DEF AcknowledgementsChain
    <3>1. CASE f # e
      BY <2>3, <3>1 DEF AcksInv, AcknowledgementsChain
    <3>2. CASE f = e /\ i = Len(history[e]) + 1
      BY <2>6, <2>7, <2>8, <3>2
    <3>3. CASE f = e /\ i \in 1..Len(history[e])
      <4>1. history[e][i].supersedes = IF i = 1 THEN None ELSE history[e][i - 1].ack
        BY <3>3 DEF AcksInv, AcknowledgementsChain
      <4>2. i # 1 => i - 1 \in 1..Len(history[e])
        BY <2>6, <3>3
      <4> QED BY <2>6, <3>3, <4>1, <4>2
    <3> QED BY <2>6, <3>1, <3>2, <3>3
  <2>10. \A f \in Evaluations : \A i \in 1..Len(history[f]) :
           acks[history[f][i].ack].step = "done" /\ history[f][i].ack \in Acknowledgements
    BY AcksOfHistory DEF AcksInv, CommittedOnce
  <2>11. CommittedOnce'
    <3> SUFFICES ASSUME NEW f \in Evaluations, NEW i \in 1..Len(history'[f]),
                        NEW j \in 1..Len(history'[f])
                 PROVE  /\ acks'[history'[f][i].ack].step = "done"
                        /\ history'[f][i].ack = history'[f][j].ack => i = j
      BY DEF CommittedOnce
    <3>1. CASE f # e
      BY <2>3, <2>4, <2>10, <3>1 DEF AcksInv, CommittedOnce
    <3>2. CASE f = e
      <4>1. \A k \in 1..Len(history'[e]) :
              \/ k = Len(history[e]) + 1 /\ history'[e][k].ack = a
              \/ /\ k \in 1..Len(history[e]) /\ history'[e][k].ack = history[e][k].ack
                 /\ history[e][k].ack # a /\ acks'[history[e][k].ack].step = "done"
        BY <2>4, <2>5, <2>6, <2>10
      <4>2. \A k, l \in 1..Len(history[e]) : history[e][k].ack = history[e][l].ack => k = l
        BY DEF AcksInv, CommittedOnce
      <4> QED BY <2>4, <3>2, <4>1, <4>2
    <3> QED BY <3>1, <3>2
  <2>12. LockedAlone'
    BY <2>4 DEF AcksInv, LockedAlone
  <2>13. PriorIsLast'
    <3> SUFFICES ASSUME NEW b \in Acknowledgements, acks'[b].step = "locked"
                 PROVE  acks'[b].prior = IF history'[acks'[b].evaluation] = <<>> THEN None
                                         ELSE LastAck(acks[b].evaluation)'
      BY <2>4 DEF PriorIsLast, LastAck
    <3>1. /\ b # a /\ acks'[b] = acks[b] /\ acks[b].step = "locked"
          /\ acks[b].evaluation \in Evaluations
      BY <1>0, <2>4
    <3>2. acks[b].evaluation # e
      BY <2>1, <2>4, <3>1 DEF AcksInv, LockedAlone
    <3> QED BY <2>3, <3>1, <3>2 DEF AcksInv, PriorIsLast, LastAck
  <2> QED BY <2>9, <2>11, <2>12, <2>13 DEF AcksInv
<1>4. ASSUME NEW a \in Acknowledgements, AbortAcknowledgement(a) PROVE AcksInv'
  <2>1. /\ UNCHANGED history /\ acks[a].step = "locked" /\ acks'[a].step = "new"
        /\ \A b \in Acknowledgements \ {a} : acks'[b] = acks[b]
    BY <1>0, <1>4 DEF AbortAcknowledgement, NoAck
  <2>2. \A f \in Evaluations : \A i \in 1..Len(history[f]) : history[f][i].ack \in Acknowledgements
    BY AcksOfHistory
  <2>3. AcknowledgementsChain' /\ CommittedOnce'
    BY <2>1, <2>2 DEF AcksInv, AcknowledgementsChain, CommittedOnce
  <2>4. LockedAlone' /\ PriorIsLast'
    BY <2>1 DEF AcksInv, LockedAlone, PriorIsLast, LastAck
  <2> QED BY <2>3, <2>4 DEF AcksInv
<1>5. ASSUME NEW o \in Operators, Erase(o) PROVE AcksInv'
  <2>1. /\ UNCHANGED acks
        /\ \A f \in Evaluations : history'[f] = history[f] \/ (f \in OnlyOwn(o) /\ history'[f] = <<>>)
        /\ \A f \in OnlyOwn(o) : RowFree(f)
    BY <1>0, <1>5 DEF Erase
  <2>2. \A a \in Acknowledgements : acks[a].step = "locked" =>
          acks[a].evaluation \in Evaluations /\ history'[acks[a].evaluation] = history[acks[a].evaluation]
    BY <1>0, <2>1 DEF RowFree
  <2>3. \A f \in Evaluations : history'[f] = history[f] \/ 1..Len(history'[f]) = {}
    BY <2>1
  <2>4. AcknowledgementsChain' /\ CommittedOnce'
    BY <2>1, <2>3 DEF AcksInv, AcknowledgementsChain, CommittedOnce
  <2>5. LockedAlone'
    BY <2>1 DEF AcksInv, LockedAlone
  <2>6. PriorIsLast'
    <3> SUFFICES ASSUME NEW a \in Acknowledgements, acks[a].step = "locked"
                 PROVE  acks[a].prior = IF history'[acks[a].evaluation] = <<>> THEN None
                                        ELSE LastAck(acks[a].evaluation)'
      BY <2>1 DEF PriorIsLast, LastAck
    <3> QED BY <2>1, <2>2 DEF AcksInv, PriorIsLast, LastAck
  <2> QED BY <2>4, <2>5, <2>6 DEF AcksInv
<1>6. \/ UNCHANGED <<acks, history>>
      \/ \E a \in Acknowledgements, e \in Evaluations : ReadPrior(a, e)
      \/ \E a \in Acknowledgements : Acknowledge(a) \/ AbortAcknowledgement(a)
      \/ \E o \in Operators : Erase(o)
  BY DEF Next, AgentsNext, HumansNext, vars, reviewVars, ReportAgentReview, ReadContract,
         RecordRetrieval, Answer, Fail, OpenEvidence, Release
<1> QED BY <1>1, <1>2, <1>3, <1>4, <1>5, <1>6
-----------------------------------------------------------------------------
(* Records *)

\* A call whose record is there stays as it is, but for the answer.
Settled(q) ==
  /\ calls'[q].key = calls[q].key /\ calls'[q].scope = calls[q].scope
  /\ calls'[q].operator = calls[q].operator
  /\ calls[q].step = "reported" => calls'[q].step = "reported"
  /\ calls[q].step \in {"recorded", "answered"} => calls'[q].step \in {"recorded", "answered"}

\* Records are only added, by calls that were let through for them.
LEMMA RecordsGrow ==
  ASSUME TypeOK, RecordsInv,
         released \subseteq released', UNCHANGED evaluations, retrievals \subseteq retrievals',
         \A k \in Keys : Exists(k) => Exists(k)',
         \A q \in Calls : calls[q].step \in {"reported", "recorded", "answered"} => Settled(q),
         \A x \in reports' \ reports :
           x.evaluation \in released' /\ RowOf(x, {"reported"}, ReportReview)',
         \A x \in retrievals' \ retrievals :
           /\ x.evaluation \in released'
           /\ x.call # None => RowOf(x, {"recorded", "answered"}, ReadEvidence)',
         \A q \in Calls : calls'[q].step \in {"recorded", "answered"} =>
           \/ calls[q].step \in {"recorded", "answered"} /\ about'[q] = about[q]
           \/ [call |-> q, evaluation |-> about'[q]] \in retrievals',
         \A q \in Calls : calls'[q].step = "seen" => calls'[q].scope = ReadEvidence
  PROVE  RecordsInv'
<1>1. ASSUME NEW x \in reports, RowOf(x, {"reported"}, ReportReview)
      PROVE  RowOf(x, {"reported"}, ReportReview)'
  <2>1. x.call \in Calls /\ calls[x.call].step = "reported" /\ Settled(x.call)
    BY <1>1 DEF RowOf
  <2>2. calls[x.call].key \in Keys
    BY <2>1 DEF TypeOK, AccessTypeOK
  <2> QED BY <1>1, <2>1, <2>2 DEF RowOf, Settled
<1>2. ASSUME NEW x \in retrievals, RowOf(x, {"recorded", "answered"}, ReadEvidence)
      PROVE  RowOf(x, {"recorded", "answered"}, ReadEvidence)'
  <2>1. x.call \in Calls /\ calls[x.call].step \in {"recorded", "answered"} /\ Settled(x.call)
    BY <1>2 DEF RowOf
  <2>2. calls[x.call].key \in Keys
    BY <2>1 DEF TypeOK, AccessTypeOK
  <2> QED BY <1>2, <2>1, <2>2 DEF RowOf, Settled
<1>3. \A x \in reports' \cup retrievals' : x.evaluation \in released'
  BY DEF RecordsInv
<1>4. ReportRows'
  BY <1>1 DEF RecordsInv, ReportRows
<1>5. RetrievalRows'
  BY <1>2 DEF RecordsInv, RetrievalRows
<1>6. OnRecord'
  BY DEF RecordsInv, OnRecord
<1> QED BY <1>3, <1>4, <1>5, <1>6 DEF RecordsInv

\* Every step keeps records rightful.
LEMMA RecordsNext == ASSUME TypeOK, CallsInv, RecordsInv, [Next]_vars PROVE RecordsInv'
<1>0. keys \in [Keys -> KeyLocals] /\ calls \in [Calls -> CallLocals] /\ about \in [Calls -> Evaluations \cup {None}]
  BY DEF TypeOK, AccessTypeOK
<1>a. \A q \in Calls : calls[q].step = "seen" => calls[q].scope = ReadEvidence
  BY DEF RecordsInv
<1>1. CASE AccessNext /\ UNCHANGED reviewVars
  <2>1. \A k \in Keys : Exists(k) => Exists(k)'
    <3>1. ASSUME NEW k \in Keys, NEW o \in Operators, NEW scopes \in Grants, CountKeys(k, o, scopes)
          PROVE  \A l \in Keys : Exists(l) => Exists(l)'
      <4>1. keys[k].step = "new" /\ \A l \in Keys \ {k} : keys'[l] = keys[l]
        BY <1>0, <3>1 DEF CountKeys
      <4> QED BY <4>1 DEF Exists
    <3>2. ASSUME NEW k \in Keys, CommitKey(k) PROVE \A l \in Keys : Exists(l) => Exists(l)'
      <4>1. keys[k].step = "counted" /\ \A l \in Keys \ {k} : keys'[l] = keys[l]
        BY <1>0, <3>2 DEF CommitKey
      <4> QED BY <4>1 DEF Exists
    <3>3. ASSUME NEW k \in Keys, RevokeKey(k) PROVE \A l \in Keys : Exists(l) => Exists(l)'
      <4>1. keys'[k].step = "revoked" /\ \A l \in Keys \ {k} : keys'[l] = keys[l]
        BY <1>0, <3>3 DEF RevokeKey, KeyLocals
      <4> QED BY <4>1 DEF Exists
    <3>4. ASSUME NEW o \in Operators, RequestDeletion(o) PROVE \A l \in Keys : Exists(l) => Exists(l)'
      <4>1. \A l \in Keys : keys'[l] = keys[l] \/ keys'[l].step = "revoked"
        BY <1>0, <3>4 DEF RequestDeletion, KeyLocals
      <4> QED BY <4>1 DEF Exists
    <3>5. CASE UNCHANGED keys
      BY <3>5 DEF Exists
    <3> QED
      BY <1>1, <3>1, <3>2, <3>3, <3>4, <3>5
      DEF AccessNext, SignIn, SignOut, ReadKey, CountRequests, CommitRequest, AbortCall, Prune, Tick
  <2>2. \A q \in Calls : \/ calls'[q] = calls[q]
                         \/ /\ calls[q].step \in {"new", "read", "counted"}
                            /\ calls'[q].step \in {"new", "read", "counted", "authorised"}
    <3>1. ASSUME NEW q \in Calls, NEW k \in Keys, NEW scope \in Scopes, ReadKey(q, k, scope)
          PROVE  /\ \A r \in Calls \ {q} : calls'[r] = calls[r]
                 /\ calls[q].step = "new" /\ calls'[q].step = "read"
      BY <1>0, <3>1 DEF ReadKey
    <3>2. ASSUME NEW q \in Calls, CountRequests(q)
          PROVE  /\ \A r \in Calls \ {q} : calls'[r] = calls[r]
                 /\ calls[q].step = "read" /\ calls'[q].step \in {"new", "counted"}
      <4>1. \A at \in Readings : [calls[q] EXCEPT !.step = "counted", !.at = at].step = "counted"
        BY <1>0 DEF CallLocals
      <4>2. NoCall.step = "new"
        BY DEF NoCall
      <4>3. \E v : calls' = [calls EXCEPT ![q] = v] /\ v.step \in {"new", "counted"}
        BY <3>2, <4>1, <4>2, Zenon DEF CountRequests
      <4>4. calls[q].step = "read"
        BY <3>2 DEF CountRequests
      <4> QED BY <1>0, <4>3, <4>4
    <3>3. ASSUME NEW q \in Calls, CommitRequest(q)
          PROVE  /\ \A r \in Calls \ {q} : calls'[r] = calls[r]
                 /\ calls[q].step = "counted" /\ calls'[q].step \in {"new", "authorised"}
      BY <1>0, <3>3 DEF CommitRequest, NoCall, CallLocals
    <3>4. ASSUME NEW q \in Calls, AbortCall(q)
          PROVE  /\ \A r \in Calls \ {q} : calls'[r] = calls[r]
                 /\ calls[q].step \in {"read", "counted"} /\ calls'[q].step = "new"
      BY <1>0, <3>4 DEF AbortCall, NoCall
    <3> QED
      BY <1>1, <3>1, <3>2, <3>3, <3>4
      DEF AccessNext, CountKeys, CommitKey, RevokeKey, RequestDeletion, SignIn, SignOut, Prune, Tick
  <2>3. \A q \in Calls : calls[q].step \in {"reported", "recorded", "answered"} => Settled(q)
    BY <2>2 DEF Settled
  <2>4. \A q \in Calls : calls'[q].step = "seen" => calls'[q].scope = ReadEvidence
    BY <1>a, <2>2
  <2>5. \A q \in Calls : calls'[q].step \in {"recorded", "answered"} =>
          calls[q].step \in {"recorded", "answered"}
    BY <2>2
  <2> QED BY <1>1, <2>1, <2>3, <2>4, <2>5, RecordsGrow DEF reviewVars
<1>2. ASSUME NEW q \in Calls, NEW e \in Evaluations, ReportAgentReview(q, e) PROVE RecordsInv'
  <2>1. /\ UNCHANGED <<keys, evaluations, released, retrievals>>
        /\ reports' = reports \cup {[call |-> q, evaluation |-> e]}
        /\ calls[q].step = "authorised" /\ calls[q].scope = ReportReview
        /\ e \in released /\ Owner[e] = calls[q].operator /\ Exists(calls[q].key)
    BY <1>2 DEF ReportAgentReview, MayReport, ReadableBy
  <2>2. /\ \A r \in Calls \ {q} : calls'[r] = calls[r] /\ about'[r] = about[r]
        /\ calls'[q].step = "reported" /\ calls'[q].scope = calls[q].scope
        /\ calls'[q].operator = calls[q].operator /\ calls'[q].key = calls[q].key
    BY <1>0, <1>2 DEF ReportAgentReview, CallLocals
  <2>3. \A r \in Calls : calls[r].step \in {"reported", "recorded", "answered"} => Settled(r)
    BY <2>1, <2>2 DEF Settled
  <2>4. \A x \in reports' \ reports :
          x.evaluation \in released' /\ RowOf(x, {"reported"}, ReportReview)'
    BY <2>1, <2>2 DEF RowOf, Exists
  <2> QED BY <1>a, <2>1, <2>2, <2>3, <2>4, RecordsGrow DEF Exists
<1>3. ASSUME NEW q \in Calls, NEW e \in Evaluations, ReadContract(q, e) PROVE RecordsInv'
  <2>1. /\ UNCHANGED <<keys, evaluations, released, reports, retrievals>>
        /\ calls[q].step = "authorised" /\ calls[q].scope = ReadEvidence
    BY <1>3 DEF ReadContract
  <2>2. /\ \A r \in Calls \ {q} : calls'[r] = calls[r] /\ about'[r] = about[r]
        /\ calls'[q].step = "seen" /\ calls'[q].scope = calls[q].scope
    BY <1>0, <1>3 DEF ReadContract, CallLocals
  <2>3. \A r \in Calls : calls[r].step \in {"reported", "recorded", "answered"} => Settled(r)
    BY <2>1, <2>2 DEF Settled
  <2> QED BY <1>a, <2>1, <2>2, <2>3, RecordsGrow DEF Exists
<1>4. ASSUME NEW q \in Calls, RecordRetrieval(q) PROVE RecordsInv'
  <2>1. /\ UNCHANGED <<keys, evaluations, released, reports, about>>
        /\ retrievals' = retrievals \cup {[call |-> q, evaluation |-> about[q]]}
        /\ calls[q].step = "seen" /\ calls[q].scope = ReadEvidence
        /\ about[q] \in released /\ Owner[about[q]] = calls[q].operator /\ Exists(calls[q].key)
    BY <1>a, <1>4 DEF RecordRetrieval, ReadableBy
  <2>2. /\ \A r \in Calls \ {q} : calls'[r] = calls[r]
        /\ calls'[q].step = "recorded" /\ calls'[q].scope = calls[q].scope
        /\ calls'[q].operator = calls[q].operator /\ calls'[q].key = calls[q].key
    BY <1>0, <1>4 DEF RecordRetrieval, CallLocals
  <2>3. \A r \in Calls : calls[r].step \in {"reported", "recorded", "answered"} => Settled(r)
    BY <2>1, <2>2 DEF Settled
  <2>4. \A x \in retrievals' \ retrievals :
          x.evaluation \in released' /\ RowOf(x, {"recorded", "answered"}, ReadEvidence)'
    BY <2>1, <2>2 DEF RowOf, Exists
  <2> QED BY <1>a, <2>1, <2>2, <2>3, <2>4, RecordsGrow DEF Exists
<1>5. ASSUME NEW q \in Calls, Answer(q) PROVE RecordsInv'
  <2>1. UNCHANGED <<keys, reviewVars>> /\ calls[q].step = "recorded"
    BY <1>5 DEF Answer, Answerable
  <2>2. /\ \A r \in Calls \ {q} : calls'[r] = calls[r]
        /\ calls'[q].step = "answered" /\ calls'[q].scope = calls[q].scope
        /\ calls'[q].operator = calls[q].operator /\ calls'[q].key = calls[q].key
    BY <1>0, <1>5 DEF Answer, CallLocals
  <2>3. \A r \in Calls : calls[r].step \in {"reported", "recorded", "answered"} => Settled(r)
    BY <2>1, <2>2 DEF Settled
  <2> QED BY <1>a, <2>1, <2>2, <2>3, RecordsGrow DEF Exists, reviewVars
<1>6. ASSUME NEW q \in Calls, Fail(q) PROVE RecordsInv'
  <2>1. /\ UNCHANGED <<keys, evaluations, released, reports, retrievals>>
        /\ calls[q].step \in {"authorised", "seen"}
    BY <1>6 DEF Fail
  <2>2. /\ \A r \in Calls \ {q} : calls'[r] = calls[r] /\ about'[r] = about[r]
        /\ calls'[q].step = "failed"
    BY <1>0, <1>6 DEF Fail, NoCall
  <2>3. \A r \in Calls : calls[r].step \in {"reported", "recorded", "answered"} => Settled(r)
    BY <2>1, <2>2 DEF Settled
  <2> QED BY <1>a, <2>1, <2>2, <2>3, RecordsGrow DEF Exists
<1>7. ASSUME HumansNext PROVE RecordsInv'
  <2>1. UNCHANGED <<keys, calls, evaluations, reports, about>> /\ released \subseteq released'
    BY <1>7
      DEF HumansNext, OpenEvidence, Release, ReadPrior, Acknowledge, AbortAcknowledgement, accessVars
  <2>2. /\ retrievals \subseteq retrievals'
        /\ \A x \in retrievals' \ retrievals : x.call = None /\ x.evaluation \in released'
    <3>1. ASSUME NEW e \in Evaluations, OpenEvidence(e)
          PROVE  /\ retrievals' = retrievals \cup {[call |-> None, evaluation |-> e]}
                 /\ e \in released'
      BY <3>1 DEF OpenEvidence, MayReview, ReadableBy
    <3>2. (\E e \in Evaluations : OpenEvidence(e)) \/ UNCHANGED retrievals
      BY <1>7 DEF HumansNext, Release, ReadPrior, Acknowledge, AbortAcknowledgement
    <3> QED BY <3>1, <3>2
  <2>3. \A r \in Calls : Settled(r)
    BY <2>1 DEF Settled
  <2> QED BY <1>a, <2>1, <2>2, <2>3, RecordsGrow DEF Exists
<1>8. ASSUME NEW o \in Operators, Erase(o) PROVE RecordsInv'
  <2>1. /\ UNCHANGED <<calls, about>>
        /\ evaluations' = evaluations \ OnlyOwn(o) /\ released' = released \ OnlyOwn(o)
        /\ reports' = {x \in reports : x.evaluation \notin OnlyOwn(o)}
        /\ retrievals' = {x \in retrievals : x.evaluation \notin OnlyOwn(o)}
    BY <1>8 DEF Erase, EraseAccess
  <2>2. \A k \in Keys : Exists(k) /\ keys[k].operator # o => Exists(k)'
    BY <1>0, <1>8 DEF Erase, EraseAccess, Exists
  <2>3. ASSUME NEW x, NEW steps, NEW scope,
               x.evaluation \in released \ OnlyOwn(o), RowOf(x, steps, scope),
               steps \subseteq {"reported", "recorded", "answered"}
        PROVE  RowOf(x, steps, scope)'
    <3>1. /\ x.call \in Calls /\ calls[x.call].step \notin {"new", "failed"}
          /\ Exists(calls[x.call].key) /\ calls[x.call].operator = Owner[x.evaluation]
      BY <2>3 DEF RowOf
    <3>2. Owner[x.evaluation] # o
      BY <2>3 DEF TypeOK, OnlyOwn
    <3>3. calls[x.call].key \in Keys
      BY <3>1 DEF TypeOK, AccessTypeOK
    <3>4. keys[calls[x.call].key].operator = calls[x.call].operator
      BY <3>1 DEF CallsInv, KeysOfCalls
    <3>5. Exists(calls[x.call].key)'
      BY <2>1, <2>2, <3>1, <3>2, <3>3, <3>4 DEF Exists
    <3> QED BY <2>1, <2>3, <3>5 DEF RowOf
  <2>4. \A x \in reports' \cup retrievals' : x.evaluation \in released'
    BY <2>1 DEF RecordsInv
  <2>5. ReportRows' /\ RetrievalRows'
    BY <2>1, <2>3, <2>4 DEF RecordsInv, ReportRows, RetrievalRows
  <2>6. OnRecord'
    BY <2>1 DEF RecordsInv, OnRecord
  <2> QED BY <1>a, <2>1, <2>4, <2>5, <2>6 DEF RecordsInv
<1>9. CASE UNCHANGED vars
  <2>1. \A r \in Calls : Settled(r)
    BY <1>9 DEF Settled, vars, accessVars
  <2> QED BY <1>a, <1>9, <2>1, RecordsGrow DEF vars, accessVars, reviewVars, Exists
<1> QED BY <1>1, <1>2, <1>3, <1>4, <1>5, <1>6, <1>7, <1>8, <1>9 DEF Next, AgentsNext

-----------------------------------------------------------------------------
(* Theorems *)

\* Initially there is nothing to keep.
LEMMA InvInit == Init => Inv /\ Limits!Init
<1> SUFFICES ASSUME Init PROVE Inv /\ Limits!Init
  OBVIOUS
<1>1. /\ \A q \in Calls : calls[q].step = "new"
      /\ \A a \in Acknowledgements : acks[a].step = "new"
  BY DEF Init, AccessInit, NoCall, NoAck
<1>2. AcksInv
  <2>1. \A e \in Evaluations : 1..Len(history[e]) = {}
    BY DEF Init
  <2> QED BY <1>1, <2>1 DEF AcksInv, AcknowledgementsChain, CommittedOnce, LockedAlone, PriorIsLast
<1>3. RecordsInv
  BY <1>1 DEF Init, RecordsInv, ReportRows, RetrievalRows, OnRecord
<1> QED BY <1>2, <1>3, TypeInit, AccessInvInit DEF Init, Inv

\* The inductive invariant of keys, calls, acknowledgements and records.
LEMMA InvNext == Inv /\ [Next]_vars => Inv'
  BY NextIsAccessStep, TypeNext, KeysNext, CallsNext, AcksNext, RecordsNext DEF Inv, TypeOK

\* Every state satisfies it.
LEMMA Invariance == Spec => []Inv
  BY InvInit, InvNext, PTL DEF Spec

\* What a record says of its call is what the keys and the admissions say.
LEMMA RecordsAreRightfulHere == Inv => RecordsAreRightful
<1> SUFFICES ASSUME Inv PROVE RecordsAreRightful
  OBVIOUS
<1>1. ASSUME NEW x \in reports \cup retrievals, x.call # None
      PROVE  LET k == calls[x.call].key
             IN /\ keys[k].operator = Owner[x.evaluation] /\ Exists(k)
                /\ x \in reports => ReportReview \in keys[k].scopes
                /\ x \in retrievals => ReadEvidence \in keys[k].scopes
                /\ \E y \in admitted[k] : y.event = x.call
  <2>1. \/ x \in reports /\ RowOf(x, {"reported"}, ReportReview)
        \/ x \in retrievals /\ RowOf(x, {"recorded", "answered"}, ReadEvidence)
    BY <1>1 DEF Inv, RecordsInv, ReportRows, RetrievalRows
  <2>2. /\ x \in reports => RowOf(x, {"reported"}, ReportReview)
        /\ x \in retrievals => RowOf(x, {"recorded", "answered"}, ReadEvidence)
    BY <1>1 DEF Inv, RecordsInv, ReportRows, RetrievalRows
  <2>3. /\ x.call \in Calls /\ calls[x.call].step \in Through
        /\ calls[x.call].operator = Owner[x.evaluation] /\ Exists(calls[x.call].key)
    BY <2>1 DEF RowOf, Through
  <2>4. /\ keys[calls[x.call].key].operator = calls[x.call].operator
        /\ calls[x.call].scope \in keys[calls[x.call].key].scopes
    BY <2>3 DEF Inv, CallsInv, KeysOfCalls, Through
  <2>5. \E y \in admitted[calls[x.call].key] : y.event = x.call
    BY <2>3 DEF Inv, CallsInv, AdmittedCalls
  <2> QED BY <2>2, <2>3, <2>4, <2>5 DEF RowOf
<1>2. \A x \in reports \cup retrievals : x.evaluation \in released
  BY DEF Inv, RecordsInv
<1>3. \A q \in Calls : calls[q].step = "answered" =>
        [call |-> q, evaluation |-> about[q]] \in retrievals \/ about[q] \notin evaluations
  BY DEF Inv, RecordsInv, OnRecord
<1> QED BY <1>1, <1>2, <1>3, Zenon DEF RecordsAreRightful

\* Rows, keys and calls keep their shapes.
THEOREM TypeCorrect == Spec => []TypeOK
  BY Invariance, PTL DEF Inv

\* However many creations, revocations and deletion requests run at once, no operator has
\* more active keys than allowed.
THEOREM KeysBounded == Spec => []KeysAreBounded
  BY Invariance, PTL DEF Inv, KeysInv

\* However many acknowledgements are given at once, each supersedes the one before it.
THEOREM AcknowledgementsInOrder == Spec => []AcknowledgementsChain
  BY Invariance, PTL DEF Inv, AcksInv

\* Whatever happens between the authentication of a call and its work, its record is
\* rightful, and evidence that was given is on record.
THEOREM RecordsRightful == Spec => []RecordsAreRightful
  BY Invariance, RecordsAreRightfulHere, PTL

\* The calls let through with each key implement the limits: Bounded of RateLimits holds.
THEOREM CallsWithinLimits == Spec => ImplementsRateLimits
<1>1. Inv /\ [Next]_vars => [Limits!Next]_admitted
  BY NextIsAccessStep, CallsKeepToLimits DEF Inv, TypeOK
<1>2. Init => Limits!Init
  BY InvInit
<1> QED BY <1>1, <1>2, Invariance, PTL DEF Spec, ImplementsRateLimits, Limits!Spec

\* What is proved of every system of limits, for the keys.
KeyLimits == INSTANCE RateLimitsProofs WITH
  Subjects <- Keys, Events <- Calls,
  Limit <- [k \in Keys |-> RequestsPerMinute], Window <- [k \in Keys |-> Minute]

\* However a minute is placed, no key is let through more often in it than its limit,
\* although calls commit in another order than their readings of the clock and the log
\* they count is pruned meanwhile (AgentAccess.authenticate, cleanup).
THEOREM KeysAreLimited == Spec => []Limits!Bounded
<1>1. KeyLimits!LimitsAreNumbers
  <2>1. RequestsPerMinute \in Nat /\ Minute \in Nat /\ MaxClock \in Nat
    BY LimitAssumption
  <2>2. Times \subseteq Nat
    BY <2>1 DEF Times
  <2> QED BY <2>1, <2>2 DEF KeyLimits!LimitsAreNumbers
<1>2. KeyLimits!Spec => []KeyLimits!Bounded
  BY <1>1, KeyLimits!LimitsBounded
<1>3. Limits!Spec => KeyLimits!Spec
  <2>1. Limits!Init => KeyLimits!Init
    BY DEF Limits!Init, KeyLimits!Init
  <2>2. Limits!Next => KeyLimits!Next
    BY DEF Limits!Next, KeyLimits!Next, Limits!Admit, KeyLimits!Admit, Limits!Later,
       KeyLimits!Later, Limits!Cardinality, KeyLimits!Cardinality
  <2> QED BY <2>1, <2>2, PTL DEF Limits!Spec, KeyLimits!Spec
<1>4. KeyLimits!Bounded => Limits!Bounded
  BY DEF Limits!Bounded, KeyLimits!Bounded, Limits!Within, KeyLimits!Within, Limits!Later,
     KeyLimits!Later, Limits!Cardinality, KeyLimits!Cardinality
<1> QED BY <1>2, <1>3, <1>4, CallsWithinLimits, PTL DEF ImplementsRateLimits
=============================================================================

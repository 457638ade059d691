------------------------ MODULE ApprovalQueueProofs ------------------------
(***************************************************************************)
(* Proofs about ApprovalQueue.                                             *)
(***************************************************************************)
EXTENDS ApprovalQueue, TLAPS

\* An open request has no settled verdict.
LEMMA OpenIsUnsettled == Open \notin Settled /\ Unknown \notin Settled
BY DEF Open, Unknown, Settled, Decisions, Lapsed

\* Every step keeps the types and what the askers were told in step with the
\* record: only an open verdict ever changes, and nobody was told that one.
LEMMA QueueStep ==
  ASSUME TypeOK, ToldIsOnRecord, [Next]_vars
  PROVE  TypeOK' /\ ToldIsOnRecord'
<1>1. CASE \E i \in Id : Park(i)
  <2>1. PICK i \in Id : Park(i)
    BY <1>1
  <2> QED
    BY <2>1, OpenIsUnsettled DEF TypeOK, ToldIsOnRecord, Park, NoAnswer
<1>2. CASE \E t \in Task, i \in Id, v \in Decisions : Decide(t, i, v)
  <2>1. PICK t \in Task, i \in Id, v \in Decisions : Decide(t, i, v)
    BY <1>2
  <2>2. v \in Settled
    BY DEF Settled
  <2>3. TypeOK'
    BY <2>1, <2>2 DEF TypeOK, Decide, Tell
  <2>4. ASSUME NEW u \in Task, answer'[u] # NoAnswer
        PROVE  verdict'[answer'[u].id] = answer'[u].verdict
    <3>1. CASE u = t
      BY <2>1, <3>1 DEF TypeOK, Decide, Tell
    <3>2. CASE u # t
      BY <2>1, <2>4, <3>2, OpenIsUnsettled DEF TypeOK, ToldIsOnRecord, Decide, Tell
    <3> QED
      BY <3>1, <3>2
  <2> QED
    BY <2>3, <2>4 DEF ToldIsOnRecord
<1>3. CASE \E S \in SUBSET Id : Lapse(S)
  <2>1. PICK S \in SUBSET Id : Lapse(S)
    BY <1>3
  <2> QED
    BY <2>1, OpenIsUnsettled DEF TypeOK, ToldIsOnRecord, Lapse, Settled
<1>4. CASE \E t \in Task, i \in Id : Answer(t, i)
  <2>1. PICK t \in Task, i \in Id : Answer(t, i)
    BY <1>4
  <2> QED
    BY <2>1 DEF TypeOK, ToldIsOnRecord, Answer, Tell
<1>5. CASE \E T \in SUBSET Task : Leave(T)
  BY <1>5 DEF TypeOK, ToldIsOnRecord, Leave
<1>6. CASE UNCHANGED vars
  BY <1>6 DEF TypeOK, ToldIsOnRecord, vars
<1> QED
  BY <1>1, <1>2, <1>3, <1>4, <1>5, <1>6 DEF Next

\* Whoever was told a verdict was told the one on record, for any number of
\* requests and askers (approvals/store.py, resolve).
THEOREM ToldIsTrue == Spec => [](TypeOK /\ ToldIsOnRecord)
<1>1. Init => TypeOK /\ ToldIsOnRecord
  BY DEF Init, TypeOK, ToldIsOnRecord
<1> QED
  BY <1>1, QueueStep, PTL DEF Spec
=============================================================================

---------------------------- MODULE GatewayProofs ----------------------------
(***************************************************************************)
(* What Gateway's inductive invariant proves.                              *)
(***************************************************************************)
EXTENDS Gateway, TLAPS

USE ModeAssumption, CallAssumption

\* What may happen to the queue in one step: open requests are settled, unknown
\* ones opened, and nothing else is touched.
Settles ==
  /\ Queue!TypeOK'
  /\ \A i \in Id : \/ verdict'[i] = verdict[i]
                   \/ /\ verdict[i] \in {Queue!Unknown, Queue!Open}
                      /\ verdict'[i] # Queue!Unknown

LEMMA OpenIsUnsettled ==
  /\ {Queue!Unknown, Queue!Open} \cap Queue!Settled = {}
  /\ Queue!Unknown # Queue!Open
  /\ Queue!Decisions \subseteq Queue!Settled
BY DEF Queue!Open, Queue!Unknown, Queue!Settled, Queue!Decisions, Queue!Lapsed

\* What is settled has one of three statuses, and is signed by an approver.
LEMMA SettledVerdict ==
  ASSUME NEW v \in Queue!Settled
  PROVE  v.status \in {"approved", "denied", "expired"} /\ v.by \in Approver
BY DEF Queue!Settled, Queue!Decisions, Queue!Lapsed, Queue!Approvers, Queue!Deniers, Approver

-----------------------------------------------------------------------------
(* The queue's operations *)

LEMMA Unchanged ==
  ASSUME Queue!TypeOK, UNCHANGED queueVars
  PROVE  Settles
BY DEF Settles, queueVars, Queue!TypeOK

LEMMA ParkSettles ==
  ASSUME Queue!TypeOK, NEW i \in Id, Queue!Park(i)
  PROVE  Settles /\ verdict'[i] # Queue!Unknown
BY OpenIsUnsettled DEF Settles, Queue!TypeOK, Queue!Park

LEMMA DecideSettles ==
  ASSUME Queue!TypeOK, NEW t \in Call \cup Desk, NEW i \in Id, NEW v \in Queue!Decisions,
         Queue!Decide(t, i, v)
  PROVE  Settles /\ verdict'[i] = v
<1>1. v \in Queue!Settled
  BY OpenIsUnsettled
<1>2. verdict' = [verdict EXCEPT ![i] = v] /\ verdict[i] = Queue!Open
  BY DEF Queue!Decide
<1>3. answer' = [answer EXCEPT ![t] = [id |-> i, verdict |-> v]]
  BY DEF Queue!Decide, Queue!Tell
<1> QED
  BY <1>1, <1>2, <1>3, OpenIsUnsettled DEF Settles, Queue!TypeOK

LEMMA LapseSettles ==
  ASSUME Queue!TypeOK, NEW S \in SUBSET Id, Queue!Lapse(S)
  PROVE  Settles
BY OpenIsUnsettled DEF Settles, Queue!TypeOK, Queue!Lapse, Queue!Settled

LEMMA AnswerSettles ==
  ASSUME Queue!TypeOK, NEW t \in Call \cup Desk, NEW i \in Id, Queue!Answer(t, i)
  PROVE  Settles /\ verdict' = verdict /\ verdict[i] \in Queue!Settled
BY DEF Settles, Queue!TypeOK, Queue!Answer, Queue!Tell

LEMMA LeaveSettles ==
  ASSUME Queue!TypeOK, NEW T, Queue!Leave(T)
  PROVE  Settles /\ verdict' = verdict
BY DEF Settles, Queue!TypeOK, Queue!Leave

-----------------------------------------------------------------------------
(* One call moves, the others stand by *)

\* What is settled stays as it is.
LEMMA SettledStays ==
  ASSUME Queue!TypeOK, Settles, NEW i \in Id
  PROVE  /\ verdict[i].status \in {"approved", "denied", "expired"} => verdict'[i] = verdict[i]
         /\ verdict[i] # Queue!Unknown => verdict'[i] # Queue!Unknown
BY DEF Settles, Queue!TypeOK, Queue!Open, Queue!Unknown

\* A call's record stays true whatever happens to the queue.
LEMMA StaysRight ==
  ASSUME TypeOK, Settles, NEW c \in Call, call'[c] = call[c],
         c \in executed => c \in executed'
  PROVE  /\ FiledRight(c) => FiledRight(c)'
         /\ OnFile(c) => OnFile(c)'
         /\ Permitted(c) => Permitted(c)'
         /\ Permitted(c) /\ Credited(c) => Credited(c)'
<1> DEFINE i == call[c].id
<1>1. i \in Id \cup {None}
  BY DEF TypeOK, CallRecord
<1>2. ASSUME i \in Id, verdict[i].status \in {"approved", "denied", "expired"}
      PROVE  verdict'[i] = verdict[i]
  BY <1>2, SettledStays DEF TypeOK
<1>3. OnFile(c) => OnFile(c)'
  BY SettledStays DEF OnFile, TypeOK
<1>4. Permitted(c) => Permitted(c)'
  BY <1>1, <1>2 DEF Permitted
<1>5. Permitted(c) /\ Credited(c) => Credited(c)'
  BY <1>1, <1>2 DEF Permitted, Credited
<1>6. FiledRight(c) => FiledRight(c)'
  <2>1. SUFFICES ASSUME FiledRight(c) PROVE FiledRight(c)'
    OBVIOUS
  <2>2. CASE i # None /\ call[c].outcome # "awaiting_approval"
    <3>1. verdict[i].status \in {"approved", "denied", "expired"}
      BY <2>1, <2>2 DEF FiledRight, OutcomesOf
    <3> QED
      BY <1>1, <1>2, <1>3, <2>1, <2>2, <3>1 DEF FiledRight, Credited
  <2>3. CASE ~(i # None /\ call[c].outcome # "awaiting_approval")
    BY <1>3, <2>1, <2>3 DEF FiledRight
  <2> QED
    BY <2>2, <2>3
<1> QED
  BY <1>3, <1>4, <1>5, <1>6

\* A call that does not move keeps what it knows.
LEMMA Bystander ==
  ASSUME TypeOK, Settles, NEW c \in Call, StageInv(c), call'[c] = call[c], stage'[c] = stage[c],
         c \in executed' <=> c \in executed, audit \subseteq audit'
  PROVE  StageInv(c)'
BY StaysRight DEF StageInv

LEMMA Moved ==
  ASSUME TypeOK, NEW c \in Call, NEW s \in Stage, NEW r \in CallRecord, Go(c, s, r)
  PROVE  /\ stage' \in [Call -> Stage] /\ call' \in [Call -> CallRecord]
         /\ stage'[c] = s /\ call'[c] = r
         /\ \A d \in Call \ {c} : stage'[d] = stage[d] /\ call'[d] = call[d]
BY DEF TypeOK, Go

\* An event that is written stays true of its call, which has ended.
LEMMA AuditStays ==
  ASSUME IInv, Settles, executed \subseteq executed', audit' = audit,
         \A c \in Call : stage[c] = "answered" => stage'[c] = "answered" /\ call'[c] = call[c]
  PROVE  AuditInv'
<1>1. SUFFICES ASSUME NEW e \in audit
               PROVE  stage'[e.call] = "answered" /\ e = EventOf(e.call)' /\ FiledRight(e.call)'
  BY DEF AuditInv
<1>2. e.call \in Call
  BY DEF IInv, TypeOK, Event
<1>3. stage[e.call] = "answered" /\ e = EventOf(e.call) /\ FiledRight(e.call)
  BY DEF IInv, AuditInv
<1>4. stage'[e.call] = "answered" /\ call'[e.call] = call[e.call]
  BY <1>2, <1>3
<1>5. e = EventOf(e.call)'
  BY <1>3, <1>4 DEF EventOf
<1>6. FiledRight(e.call)'
  BY <1>2, <1>3, <1>4, StaysRight DEF IInv
<1> QED
  BY <1>4, <1>5, <1>6

LEMMA LinksStay ==
  ASSUME IInv, Settles, links' = links
  PROVE  LinksAreOnFile'
<1>1. links \subseteq Id
  BY DEF IInv, TypeOK
<1> QED
  BY <1>1, SettledStays DEF IInv, TypeOK, LinksAreOnFile

\* It is enough to look at the call that moves.
LEMMA OneMoves ==
  ASSUME IInv, Settles, NEW c \in Call, NEW s \in Stage, NEW r \in CallRecord, Go(c, s, r),
         stage[c] # "answered", executed' \in {executed, executed \cup {c}},
         UNCHANGED <<links, audit>>, StageInv(c)'
  PROVE  IInv'
<1>1. TypeOK'
  BY Moved DEF IInv, TypeOK, Settles
<1>2. ASSUME NEW d \in Call PROVE StageInv(d)'
  <2>1. CASE d # c
    BY <2>1, Moved, Bystander DEF IInv
  <2> QED
    BY <2>1
<1>3. AuditInv'
  BY Moved, AuditStays DEF IInv
<1> QED
  BY <1>1, <1>2, <1>3, LinksStay DEF IInv

\* A step of nobody's call.
LEMMA NobodyMoves ==
  ASSUME IInv, Settles, UNCHANGED <<stage, call, executed, audit, links>>
  PROVE  IInv'
<1>1. TypeOK'
  BY DEF IInv, TypeOK, Settles
<1>2. \A c \in Call : StageInv(c)'
  BY Bystander DEF IInv
<1> QED
  BY <1>1, <1>2, AuditStays, LinksStay DEF IInv

-----------------------------------------------------------------------------
(* Arriving *)

LEMMA LookedRecord ==
  ASSUME NEW tool \in Tool, NEW ruling \in Ruling
  PROVE  /\ Looked(tool, ruling) \in CallRecord
         /\ Looked(tool, ruling).action \in Action
         /\ Looked(tool, ruling).action = IF ruling = "unregistered" THEN "deny" ELSE ruling
         /\ Looked(tool, ruling).id = None
         /\ Looked(tool, ruling).tool = tool
         /\ Looked(tool, ruling).approver = None
BY DEF Looked, NoCall, CallRecord, Ruling, Action, Approver

\* A call that was filed before anybody was asked.
LEMMA FiledEarly ==
  ASSUME IInv, NEW c \in Call, stage[c] = "new", NEW r \in CallRecord, r.action \in Action,
         r.tool \in Tool, r.id = None,
         NEW o \in {"unknown_tool", "denied_by_policy"}, File(c, r, o),
         UNCHANGED <<queueVars, links, executed, audit>>
  PROVE  IInv'
<1> DEFINE f == [r EXCEPT !.outcome = o]
<1>1. o \in Outcome 
  BY DEF Outcome
<1>2. f \in CallRecord /\ f.action \in Action /\ f.tool \in Tool /\ f.id = None /\ f.outcome = o
  BY <1>1 DEF CallRecord
<1>3. Go(c, "record", f) /\ "record" \in Stage
  BY DEF File, Stage
<1> HIDE DEF f
<1>4. stage'[c] = "record" /\ call'[c] = f
  BY <1>2, <1>3, Moved DEF IInv
<1>5. Settles
  BY Unchanged DEF IInv, TypeOK
<1>6. c \notin executed
  BY DEF IInv, StageInv
<1>7. StageInv(c)'
  BY <1>1, <1>2, <1>4, <1>6 DEF StageInv, FiledRight
<1> QED
  BY <1>2, <1>3, <1>5, <1>7, OneMoves

\* A call that goes on to another await without having been carried out.
LEMMA GoesOn ==
  ASSUME IInv, NEW c \in Call, NEW s \in {"open", "look", "wait", "dismiss", "send", "gone"},
         NEW r \in CallRecord, Go(c, s, r), stage[c] # "answered",
         r.action \in Action, r.tool \in Tool, Settles, c \notin executed,
         s \in {"open", "look", "wait", "dismiss"} => r.id \in Id,
         s \in {"wait", "dismiss"} => verdict'[r.id] # Queue!Unknown,
         s = "send" => IF r.id = None THEN r.action = "allow"
                       ELSE verdict'[r.id].status = "approved" /\ r.approver = verdict'[r.id].by,
         UNCHANGED <<links, executed, audit>>
  PROVE  IInv'
<1>1. s \in Stage
  BY DEF Stage
<1>2. stage'[c] = s /\ call'[c] = r
  BY <1>1, Moved DEF IInv
<1>3. StageInv(c)'
  BY <1>2 DEF StageInv, OnFile, Permitted, Credited
<1> QED
  BY <1>1, <1>3, OneMoves

LEMMA ArriveInv ==
  ASSUME IInv, NEW c \in Call, NEW tool \in Tool, NEW ruling \in Ruling,
         Arrive(c, tool, ruling)
  PROVE  IInv'
<1> DEFINE r == Looked(tool, ruling)
<1>1. /\ r \in CallRecord /\ r.action \in Action /\ r.id = None /\ r.approver = None
      /\ r.tool = tool
      /\ r.action = IF ruling = "unregistered" THEN "deny" ELSE ruling
  BY LookedRecord
<1>2. /\ stage[c] = "new" /\ c \notin executed
      /\ UNCHANGED <<queueVars, links, executed, audit>>
  BY DEF Arrive, IInv, StageInv
<1>3. Settles
  BY <1>2, Unchanged DEF IInv, TypeOK
<1>4. CASE ruling = "unregistered" /\ File(c, r, "unknown_tool")
  BY <1>1, <1>2, <1>4, FiledEarly
<1>5. CASE ruling = "allow" /\ Go(c, "send", r)
  BY <1>1, <1>2, <1>3, <1>5, GoesOn
<1>6. CASE ruling = "deny" /\ File(c, r, "denied_by_policy")
  BY <1>1, <1>2, <1>6, FiledEarly
<1>7. ASSUME NEW i \in Id, Go(c, "open", [r EXCEPT !.id = i]) PROVE IInv'
  <2>1. [r EXCEPT !.id = i] \in CallRecord /\ [r EXCEPT !.id = i].id = i
        /\ [r EXCEPT !.id = i].action \in Action /\ [r EXCEPT !.id = i].tool = tool
    BY <1>1 DEF CallRecord
  <2> QED
    BY <1>2, <1>3, <1>7, <2>1, GoesOn
<1> QED
  BY <1>4, <1>5, <1>6, <1>7 DEF Arrive

LEMMA RetryInv ==
  ASSUME IInv, NEW c \in Call, NEW i \in Id, NEW tool \in Tool, NEW ruling \in Ruling,
         Retry(c, i, tool, ruling)
  PROVE  IInv'
<1> DEFINE r == Looked(tool, ruling)
<1>1. r \in CallRecord /\ r.action \in Action /\ r.tool \in Tool /\ r.id = None
  BY LookedRecord
<1>2. /\ stage[c] = "new" /\ c \notin executed
      /\ UNCHANGED <<queueVars, links, executed, audit>>
  BY DEF Retry, IInv, StageInv
<1>3. Settles
  BY <1>2, Unchanged DEF IInv, TypeOK
<1>4. CASE File(c, r, "unknown_tool")
  BY <1>1, <1>2, <1>4, FiledEarly
<1>5. CASE Go(c, "look", [r EXCEPT !.id = i])
  <2>1. [r EXCEPT !.id = i] \in CallRecord /\ [r EXCEPT !.id = i].id = i
        /\ [r EXCEPT !.id = i].action \in Action /\ [r EXCEPT !.id = i].tool \in Tool
    BY <1>1 DEF CallRecord
  <2> QED
    BY <1>2, <1>3, <1>5, <2>1, GoesOn
<1> QED
  BY <1>4, <1>5 DEF Retry

-----------------------------------------------------------------------------
(* Approval *)

LEMMA OpenInv ==
  ASSUME IInv, NEW c \in Call, Open(c)
  PROVE  IInv'
<1> DEFINE r == call[c]
           f == [r EXCEPT !.outcome = "awaiting_approval"]
<1>1. /\ r \in CallRecord /\ r.action \in Action /\ r.id \in Id /\ r.tool \in Tool
      /\ stage[c] = "open" /\ c \notin executed
      /\ UNCHANGED <<links, executed, audit>>
  BY DEF Open, IInv, TypeOK, StageInv
<1>2. Settles /\ verdict'[r.id] # Queue!Unknown
  BY <1>1, ParkSettles DEF Open, IInv, TypeOK
<1>3. CASE File(c, r, "awaiting_approval")
  <2>1. "awaiting_approval" \in Outcome /\ "record" \in Stage
    BY DEF Outcome, Stage
  <2>2. f \in CallRecord /\ f.action \in Action /\ f.id = r.id /\ f.outcome = "awaiting_approval"
        /\ f.tool = r.tool
    BY <1>1, <2>1 DEF CallRecord
  <2>3. Go(c, "record", f)
    BY <1>3 DEF File
  <2> HIDE DEF f
  <2>4. stage'[c] = "record" /\ call'[c] = f
    BY <2>1, <2>2, <2>3, Moved DEF IInv
  <2>5. StageInv(c)'
    BY <1>1, <1>2, <1>3, <2>1, <2>2, <2>4 DEF StageInv, FiledRight, OnFile
  <2> QED
    BY <1>1, <1>2, <2>1, <2>2, <2>3, <2>5, OneMoves
<1>4. CASE Go(c, "wait", r)
  BY <1>1, <1>2, <1>4, GoesOn
<1> QED
  BY <1>3, <1>4 DEF Open

\* A call goes by the verdict on record.
LEMMA ApplyInv ==
  ASSUME IInv, NEW c \in Call, stage[c] \in {"wait", "look", "dismiss"}, call[c].id \in Id,
         Settles, NEW v \in Queue!Settled, verdict'[call[c].id] = v,
         NEW o \in Outcome, v.status # "approved" => o \in OutcomesOf(v.status), Apply(c, v, o),
         o # "awaiting_approval", o # "forwarded",
         UNCHANGED <<links, executed, audit>>
  PROVE  IInv'
<1> DEFINE r == [call[c] EXCEPT !.approver = v.by]
           f == [r EXCEPT !.outcome = o]
<1>1. c \notin executed /\ call[c] \in CallRecord /\ call[c].action \in Action /\ call[c].tool \in Tool
  BY DEF IInv, TypeOK, StageInv
<1>2. /\ r \in CallRecord /\ r.action \in Action /\ r.tool \in Tool /\ r.approver = v.by
      /\ r.id = call[c].id /\ r.id # None
  BY <1>1, SettledVerdict DEF CallRecord
<1>3. CASE v.status = "approved"
  <2>1. Go(c, "send", r)
    BY <1>3 DEF Apply
  <2> QED
    BY <1>1, <1>2, <1>3, <2>1, GoesOn
<1>4. CASE v.status # "approved"
  <2>1. Go(c, "record", f) /\ "record" \in Stage
    BY <1>4 DEF Apply, File, Stage
  <2>2. /\ f \in CallRecord /\ f.action \in Action /\ f.tool \in Tool /\ f.id = r.id
        /\ f.approver = v.by /\ f.outcome = o
    BY <1>2 DEF CallRecord
  <2> HIDE DEF f
  <2>3. stage'[c] = "record" /\ call'[c] = f
    BY <2>1, <2>2, Moved DEF IInv
  <2>4. StageInv(c)'
    BY <1>1, <1>2, <1>4, <2>2, <2>3 DEF StageInv, FiledRight, Credited, OutcomesOf
  <2> QED
    BY <2>1, <2>2, <2>4, OneMoves
<1> QED
  BY <1>3, <1>4

LEMMA OutcomeOfVerdict ==
  ASSUME NEW v \in Queue!Settled
  PROVE  /\ OutcomeOf(v) \in Outcome \ {"awaiting_approval", "forwarded"}
         /\ v.status # "approved" =>
              OutcomeOf(v) \in OutcomesOf(v.status) /\ "dismissed_by_client" \in OutcomesOf(v.status)
<1>1. v.status \in {"approved", "denied", "expired"}
  BY SettledVerdict
<1>2. CASE v.status = "approved"
  BY <1>2 DEF OutcomeOf, Outcome
<1>3. CASE v.status = "denied"
  BY <1>3 DEF OutcomeOf, Outcome, OutcomesOf
<1>4. CASE v.status = "expired"
  BY <1>4 DEF OutcomeOf, Outcome, OutcomesOf
<1> QED
  BY <1>1, <1>2, <1>3, <1>4

LEMMA WaitEndsInv ==
  ASSUME IInv, NEW c \in Call, WaitEnds(c)
  PROVE  IInv'
<1> DEFINE v == verdict[call[c].id]
<1>1. stage[c] = "wait" /\ call[c].id \in Id
  BY DEF WaitEnds, IInv, StageInv, OnFile
<1>2. Settles /\ verdict' = verdict /\ v \in Queue!Settled
  BY <1>1, AnswerSettles DEF WaitEnds, IInv, TypeOK
<1> QED
  BY <1>1, <1>2, OutcomeOfVerdict, ApplyInv DEF WaitEnds

LEMMA DeadlineInv ==
  ASSUME IInv, NEW c \in Call, Deadline(c)
  PROVE  IInv'
<1> DEFINE i == call[c].id
           v == [status |-> "approved", by |-> TimeoutApprover]
<1>1. stage[c] = "wait" /\ i \in Id
  BY DEF Deadline, IInv, StageInv, OnFile
<1>2. CASE ApproveOnTimeout /\ Queue!Decide(c, i, v) /\ Apply(c, v, OutcomeOf(v))
  <2>1. v \in Queue!Decisions
    BY <1>2 DEF Queue!Decisions, Queue!Approvers
  <2>2. Settles /\ verdict'[i] = v
    BY <1>1, <1>2, <2>1, DecideSettles DEF IInv, TypeOK
  <2>3. v \in Queue!Settled
    BY <2>1, OpenIsUnsettled
  <2> HIDE DEF v
  <2> QED
    BY <1>1, <1>2, <2>2, <2>3, OutcomeOfVerdict, ApplyInv DEF Deadline
<1>3. CASE Queue!Lapse({i}) /\ UNCHANGED <<stage, call>>
  <2>1. Settles
    BY <1>1, <1>3, LapseSettles DEF IInv, TypeOK
  <2> QED
    BY <1>3, <2>1, NobodyMoves DEF Deadline, IInv, TypeOK
<1> QED
  BY <1>2, <1>3 DEF Deadline

LEMMA LookInv ==
  ASSUME IInv, NEW c \in Call, Look(c)
  PROVE  IInv'
<1> DEFINE i == call[c].id
<1>1. /\ stage[c] = "look" /\ i \in Id /\ c \notin executed
      /\ call[c] \in CallRecord /\ call[c].action \in Action /\ call[c].tool \in Tool
      /\ UNCHANGED <<links, executed, audit>>
  BY DEF Look, IInv, TypeOK, StageInv
<1>2. CASE Go(c, "answered", call[c]) /\ UNCHANGED queueVars
  <2>1. Settles
    BY <1>2, Unchanged DEF IInv, TypeOK
  <2>2. "answered" \in Stage
    BY DEF Stage
  <2>3. stage'[c] = "answered" /\ call'[c] = call[c]
    BY <1>1, <1>2, <2>2, Moved DEF IInv
  <2>4. StageInv(c)'
    BY <1>1, <2>3 DEF StageInv
  <2> QED
    BY <1>1, <1>2, <2>1, <2>2, <2>4, OneMoves
<1>3. CASE verdict[i] = Queue!Open /\ Go(c, "dismiss", call[c]) /\ UNCHANGED queueVars
  <2>1. Settles
    BY <1>3, Unchanged DEF IInv, TypeOK
  <2>2. verdict'[i] # Queue!Unknown
    BY <1>3, OpenIsUnsettled DEF queueVars
  <2> QED
    BY <1>1, <1>3, <2>1, <2>2, GoesOn
<1>4. CASE Queue!Answer(c, i) /\ Apply(c, verdict[i], OutcomeOf(verdict[i]))
  <2>1. Settles /\ verdict' = verdict /\ verdict[i] \in Queue!Settled
    BY <1>1, <1>4, AnswerSettles DEF IInv, TypeOK
  <2> QED
    BY <1>1, <1>4, <2>1, OutcomeOfVerdict, ApplyInv
<1> QED
  BY <1>2, <1>3, <1>4 DEF Look

LEMMA DismissInv ==
  ASSUME IInv, NEW c \in Call, Dismiss(c)
  PROVE  IInv'
<1> DEFINE i == call[c].id
           v == [status |-> "denied", by |-> ClientApprover]
           o == "dismissed_by_client"
<1>1. /\ stage[c] = "dismiss" /\ i \in Id /\ o \in Outcome
      /\ UNCHANGED <<links, executed, audit>>
  BY DEF Dismiss, IInv, StageInv, OnFile, Outcome
<1>2. CASE Queue!Decide(c, i, v) /\ Apply(c, v, o)
  <2>1. v \in Queue!Decisions
    BY DEF Queue!Decisions, Queue!Deniers
  <2>2. Settles /\ verdict'[i] = v
    BY <1>1, <1>2, <2>1, DecideSettles DEF IInv, TypeOK
  <2>3. v \in Queue!Settled
    BY <2>1, OpenIsUnsettled
  <2> HIDE DEF v
  <2> QED
    BY <1>1, <1>2, <2>2, <2>3, OutcomeOfVerdict, ApplyInv
<1>3. CASE Queue!Answer(c, i) /\ Apply(c, verdict[i], o)
  <2>1. Settles /\ verdict' = verdict /\ verdict[i] \in Queue!Settled
    BY <1>1, <1>3, AnswerSettles DEF IInv, TypeOK
  <2> QED
    BY <1>1, <1>3, <2>1, OutcomeOfVerdict, ApplyInv
<1> QED
  BY <1>2, <1>3 DEF Dismiss

-----------------------------------------------------------------------------
(* The upstream and the audit log *)

LEMMA UpstreamRunsInv ==
  ASSUME IInv, NEW c \in Call, UpstreamRuns(c)
  PROVE  IInv'
<1>1. /\ stage[c] = "send" /\ call[c] \in CallRecord /\ call[c].action \in Action /\ call[c].tool \in Tool
      /\ Permitted(c) /\ Credited(c) /\ executed' = executed \cup {c}
      /\ UNCHANGED <<queueVars, links, audit>>
  BY DEF UpstreamRuns, IInv, TypeOK, StageInv
<1>2. Settles
  BY <1>1, Unchanged DEF IInv, TypeOK
<1>3. Go(c, "reply", call[c]) /\ "reply" \in Stage
  BY DEF UpstreamRuns, Stage
<1>4. stage'[c] = "reply" /\ call'[c] = call[c]
  BY <1>1, <1>3, Moved DEF IInv
<1>5. StageInv(c)'
  BY <1>1, <1>4 DEF StageInv, Permitted, Credited, queueVars
<1> QED
  BY <1>1, <1>2, <1>3, <1>5, OneMoves

\* The upstream's answer, or its failure, is filed.
LEMMA ForwardedInv ==
  ASSUME IInv, NEW c \in Call, stage[c] \in {"send", "reply"}, NEW o \in {"forwarded", "error"},
         File(c, call[c], o), o = "forwarded" => c \in executed,
         UNCHANGED <<queueVars, links, executed, audit>>
  PROVE  IInv'
<1> DEFINE r == call[c]
           f == [r EXCEPT !.outcome = o]
<1>1. r \in CallRecord /\ r.action \in Action /\ r.tool \in Tool /\ Permitted(c) /\ Credited(c)
  BY DEF IInv, TypeOK, StageInv
<1>2. Settles
  BY Unchanged DEF IInv, TypeOK
<1>3. Go(c, "record", f) /\ "record" \in Stage /\ o \in Outcome
  BY DEF File, Stage, Outcome
<1>4. /\ f \in CallRecord /\ f.action = r.action /\ f.tool = r.tool /\ f.id = r.id
      /\ f.approver = r.approver /\ f.outcome = o
  BY <1>1, <1>3 DEF CallRecord
<1> HIDE DEF f
<1>5. stage'[c] = "record" /\ call'[c] = f
  BY <1>3, <1>4, Moved DEF IInv
<1>6. Permitted(c)' /\ Credited(c)'
  BY <1>1, <1>4, <1>5 DEF Permitted, Credited, queueVars
<1>7. f.id # None => o \in OutcomesOf(verdict'[f.id].status)
  BY <1>5, <1>6 DEF Permitted, OutcomesOf
<1>8. FiledRight(c)'
  BY <1>3, <1>4, <1>5, <1>6, <1>7 DEF FiledRight
<1>9. StageInv(c)'
  BY <1>1, <1>4, <1>5, <1>6, <1>8 DEF StageInv
<1> QED
  BY <1>2, <1>3, <1>4, <1>9, OneMoves

LEMMA RecordInv ==
  ASSUME IInv, NEW c \in Call, Record(c)
  PROVE  IInv'
<1> DEFINE r == call[c]
<1>1. /\ stage[c] = "record" /\ r \in CallRecord /\ r.action \in Action /\ r.tool \in Tool
      /\ FiledRight(c)
      /\ Go(c, "answered", r) /\ "answered" \in Stage
      /\ audit' = audit \cup {EventOf(c)} /\ UNCHANGED executed
  BY DEF Record, IInv, TypeOK, StageInv, Stage
<1>2. Settles /\ verdict' = verdict
  BY LeaveSettles DEF Record, IInv, TypeOK
<1>3. /\ stage' \in [Call -> Stage] /\ call' \in [Call -> CallRecord]
      /\ stage'[c] = "answered" /\ call'[c] = r
      /\ \A d \in Call \ {c} : stage'[d] = stage[d] /\ call'[d] = call[d]
  BY <1>1, Moved DEF IInv
<1>4. EventOf(c) \in Event /\ EventOf(c)' = EventOf(c) /\ EventOf(c).call = c
  BY <1>1, <1>3 DEF EventOf, Event, CallRecord, FiledRight
<1>5. links' \subseteq Id /\ LinksAreOnFile'
  <2>1. CASE r.outcome = "awaiting_approval"
    <3>1. r.id \in Id /\ verdict[r.id] # Queue!Unknown
      BY <1>1, <2>1 DEF FiledRight, OnFile
    <3>2. links' = links \cup {r.id}
      BY <2>1 DEF Record
    <3> QED
      BY <1>2, <3>1, <3>2 DEF LinksAreOnFile, IInv, TypeOK
  <2>2. CASE r.outcome # "awaiting_approval"
    <3>1. links' = links
      BY <2>2 DEF Record
    <3> QED
      BY <1>2, <3>1 DEF LinksAreOnFile, IInv, TypeOK
  <2> QED
    BY <2>1, <2>2
<1>6. TypeOK'
  BY <1>1, <1>2, <1>3, <1>4, <1>5 DEF IInv, TypeOK, Settles
<1>7. FiledRight(c)'
  BY <1>1, <1>2, <1>3, StaysRight DEF IInv
<1>8. ASSUME NEW d \in Call PROVE StageInv(d)'
  <2>1. CASE d # c
    BY <1>1, <1>2, <1>3, <2>1, Bystander DEF IInv
  <2>2. CASE d = c
    <3>1. c \in executed => Permitted(c)'
      BY <1>2, <1>3 DEF IInv, StageInv, Permitted
    <3>2. \E e \in audit' : e.call = c
      BY <1>1, <1>4
    <3> QED
      BY <1>1, <1>3, <2>2, <3>1, <3>2 DEF StageInv
  <2> QED
    BY <2>1, <2>2
<1>9. ASSUME NEW e \in audit'
       PROVE  stage'[e.call] = "answered" /\ e = EventOf(e.call)' /\ FiledRight(e.call)'
  <2>1. CASE e \in audit
    <3>1. e.call \in Call /\ stage[e.call] = "answered" /\ e = EventOf(e.call) /\ FiledRight(e.call)
      BY <2>1 DEF IInv, AuditInv, TypeOK, Event
    <3>2. e.call # c
      BY <1>1, <3>1
    <3>3. stage'[e.call] = "answered" /\ call'[e.call] = call[e.call]
      BY <1>3, <3>1, <3>2
    <3>4. e = EventOf(e.call)'
      BY <3>1, <3>3 DEF EventOf
    <3>5. FiledRight(e.call)'
      BY <1>1, <1>2, <3>1, <3>3, StaysRight DEF IInv
    <3> QED
      BY <3>3, <3>4, <3>5
  <2>2. CASE e = EventOf(c)
    BY <1>3, <1>4, <1>7, <2>2
  <2> QED
    BY <1>1, <2>1, <2>2
<1> QED
  BY <1>5, <1>6, <1>8, <1>9 DEF IInv, AuditInv

-----------------------------------------------------------------------------
(* Around the gateway *)

LEMMA HangUpInv ==
  ASSUME IInv, NEW c \in Call, HangUp(c)
  PROVE  IInv'
<1>1. /\ call[c] \in CallRecord /\ stage[c] \notin {"new", "answered"}
      /\ call[c].action \in Action /\ call[c].tool \in Tool
      /\ Go(c, "gone", call[c]) /\ "gone" \in Stage
      /\ UNCHANGED <<links, executed, audit>>
  BY DEF HangUp, Active, IInv, TypeOK, StageInv, Stage
<1>2. Settles /\ verdict' = verdict
  BY LeaveSettles DEF HangUp, IInv, TypeOK
<1>3. stage'[c] = "gone" /\ call'[c] = call[c]
  BY <1>1, Moved DEF IInv
<1>4. c \in executed => Permitted(c)'
  BY <1>2, <1>3 DEF IInv, StageInv, Permitted
<1>5. StageInv(c)'
  BY <1>1, <1>3, <1>4 DEF StageInv
<1> QED
  BY <1>1, <1>2, <1>5, OneMoves

LEMMA CrashInv ==
  ASSUME IInv, Crash
  PROVE  IInv'
<1>1. /\ \A c \in Call : /\ ~Active(c) => stage'[c] = stage[c]
                         /\ Active(c) => stage'[c] = "gone"
      /\ UNCHANGED <<links, call, executed, audit>>
  BY DEF Crash
<1>2. Settles /\ verdict' = verdict
  BY LeaveSettles DEF Crash, IInv, TypeOK
<1>3. TypeOK'
  BY <1>2 DEF Crash, IInv, TypeOK, Settles, Stage
<1>4. ASSUME NEW c \in Call PROVE StageInv(c)'
  <2>1. CASE Active(c)
    <3>1. call[c].action \in Action /\ call[c].tool \in Tool /\ stage'[c] = "gone" /\ call'[c] = call[c]
      BY <1>1, <2>1 DEF IInv, StageInv, Active
    <3>2. c \in executed => Permitted(c)'
      BY <1>1, <1>2 DEF IInv, StageInv, Permitted
    <3> QED
      BY <1>1, <3>1, <3>2 DEF StageInv
  <2>2. CASE ~Active(c)
    BY <1>1, <1>2, <2>2, Bystander DEF IInv
  <2> QED
    BY <2>1, <2>2
<1>5. AuditInv'
  BY <1>1, <1>2, AuditStays DEF Active
<1> QED
  BY <1>1, <1>2, <1>3, <1>4, <1>5, LinksStay DEF IInv

LEMMA DecideInv ==
  ASSUME IInv, NEW u \in Desk, NEW i \in Id, NEW v \in Queue!Decisions, Decide(u, i, v)
  PROVE  IInv'
<1>1. Settles
  BY DecideSettles DEF Decide, IInv, TypeOK
<1> QED
  BY <1>1, NobodyMoves DEF Decide, IInv, TypeOK

-----------------------------------------------------------------------------
(* The invariant, and what follows from it *)

LEMMA InitInv == Init => IInv
<1> SUFFICES ASSUME Init PROVE IInv
  OBVIOUS
<1>1. NoCall \in CallRecord
  BY DEF NoCall, CallRecord, Approver
<1>2. Queue!TypeOK
  BY DEF Init, Queue!Init, Queue!TypeOK
<1>3. TypeOK
  BY <1>1, <1>2 DEF Init, TypeOK, Stage
<1>4. ASSUME NEW c \in Call PROVE StageInv(c)
  BY DEF Init, StageInv
<1>5. AuditInv /\ LinksAreOnFile
  BY DEF Init, AuditInv, LinksAreOnFile
<1> QED
  BY <1>3, <1>4, <1>5 DEF IInv

LEMMA NextInv ==
  ASSUME IInv, [Next]_vars
  PROVE  IInv'
<1>1. ASSUME NEW c \in Call, NEW tool \in Tool, NEW ruling \in Ruling, Arrive(c, tool, ruling)
      PROVE  IInv'
  BY <1>1, ArriveInv
<1>2. ASSUME NEW c \in Call, NEW i \in Id, NEW tool \in Tool, NEW ruling \in Ruling,
             Retry(c, i, tool, ruling)
      PROVE  IInv'
  BY <1>2, RetryInv
<1>3. ASSUME NEW c \in Call, Proceed(c) PROVE IInv'
  BY <1>3, OpenInv, LookInv, DismissInv, WaitEndsInv, RecordInv DEF Proceed
<1>4. ASSUME NEW c \in Call, Deadline(c) PROVE IInv'
  BY <1>4, DeadlineInv
<1>5. ASSUME NEW c \in Call, Upstream(c) PROVE IInv'
  <2>1. CASE UpstreamRuns(c)
    BY <2>1, UpstreamRunsInv
  <2>2. CASE UpstreamReplies(c)
    <3>1. PICK o \in {"forwarded", "error"} : File(c, call[c], o)
      BY <2>2 DEF UpstreamReplies
    <3>2. stage[c] = "reply" /\ c \in executed
      BY <2>2 DEF UpstreamReplies, IInv, StageInv
    <3> QED
      BY <2>2, <3>1, <3>2, ForwardedInv DEF UpstreamReplies
  <2>3. CASE UpstreamFails(c)
    BY <2>3, ForwardedInv DEF UpstreamFails
  <2> QED
    BY <1>5, <2>1, <2>2, <2>3 DEF Upstream
<1>6. ASSUME NEW c \in Call, HangUp(c) PROVE IInv'
  BY <1>6, HangUpInv
<1>7. ASSUME NEW u \in Desk, NEW i \in Id, NEW v \in Queue!Decisions, Decide(u, i, v) PROVE IInv'
  BY <1>7, DecideInv
<1>8. ASSUME NEW u \in Desk, DeskLeaves(u) PROVE IInv'
  <2>1. Settles
    BY <1>8, LeaveSettles DEF DeskLeaves, IInv, TypeOK
  <2> QED
    BY <1>8, <2>1, NobodyMoves DEF DeskLeaves, IInv, TypeOK
<1>9. ASSUME NEW S \in SUBSET Id, Sweep(S) PROVE IInv'
  <2>1. Settles
    BY <1>9, LapseSettles DEF Sweep, IInv, TypeOK
  <2> QED
    BY <1>9, <2>1, NobodyMoves DEF Sweep, IInv, TypeOK
<1>10. CASE Crash
  BY <1>10, CrashInv
<1>11. CASE UNCHANGED vars
  <2>1. Settles
    BY <1>11, Unchanged DEF vars, queueVars, IInv, TypeOK
  <2> QED
    BY <1>11, <2>1, NobodyMoves DEF vars, IInv, TypeOK
<1> QED
  BY <1>1, <1>2, <1>3, <1>4, <1>5, <1>6, <1>7, <1>8, <1>9, <1>10, <1>11 DEF Next

\* The gateway's inductive invariant: what each await leaves a call knowing
\* (call_tool and the methods it awaits).
THEOREM Inductive == Spec => []IInv
BY InitInv, NextInv, PTL DEF Spec

\* The types, for any number of calls, requests and approvers.
THEOREM TypeCorrect == Spec => []TypeOK
<1>1. IInv => TypeOK
  BY DEF IInv
<1> QED
  BY <1>1, Inductive, PTL

\* Nothing is carried out but what policy allowed or what came with an approval
\* that is granted and stays so, whatever call comes with it and whoever races whom
\* (call_tool, _resume, _apply_approval, _forward).
THEOREM PermissionIsNeeded == Spec => []OnlyPermittedRuns
<1>1. IInv => OnlyPermittedRuns
  BY DEF IInv, TypeOK, StageInv, Permitted, OnlyPermittedRuns
<1> QED
  BY <1>1, Inductive, PTL

\* The audit log never contradicts the approval queue (_apply_approval, _record).
THEOREM AuditHolds == Spec => []AuditAgreesWithQueue
<1>1. ASSUME IInv PROVE AuditAgreesWithQueue
  <2>1. SUFFICES ASSUME NEW e \in audit, e.id # None, e.outcome # "awaiting_approval"
                 PROVE  e.approver = verdict[e.id].by /\ e.outcome \in OutcomesOf(verdict[e.id].status)
    BY DEF AuditAgreesWithQueue
  <2>2. e = EventOf(e.call) /\ FiledRight(e.call)
    BY <1>1 DEF IInv, AuditInv
  <2>3. e.id = call[e.call].id /\ e.outcome = call[e.call].outcome
        /\ e.approver = call[e.call].approver
    BY <2>2 DEF EventOf
  <2> QED
    BY <2>1, <2>2, <2>3 DEF FiledRight, Credited
<1> QED
  BY <1>1, Inductive, PTL

\* What was carried out and answered is recorded, once, as what it was
\* (_forward, _record).
THEOREM AuditIsTrue == Spec => []AuditIsFaithful
<1>1. ASSUME IInv PROVE AuditIsFaithful
  <2>1. \A e \in audit : e = EventOf(e.call) /\ FiledRight(e.call)
    BY <1>1 DEF IInv, AuditInv
  <2>2. \A e \in audit : e.outcome = call[e.call].outcome
    BY <2>1 DEF EventOf
  <2>3. \A e \in audit : e.outcome = "forwarded" => e.call \in executed
    BY <2>1, <2>2 DEF FiledRight
  <2>4. \A e, f \in audit : e.call = f.call => e = f
    BY <2>1
  <2>5. \A c \in executed : stage[c] = "answered" => \E e \in audit : e.call = c
    BY <1>1 DEF IInv, TypeOK, StageInv
  <2> QED
    BY <2>3, <2>4, <2>5 DEF AuditIsFaithful
<1> QED
  BY <1>1, Inductive, PTL

\* Every link a client holds is to a request on file, or to one of a database
\* since replaced (_require_approval, _record).
THEOREM LinksHold == Spec => []LinksAreOnFile
<1>1. IInv => LinksAreOnFile
  BY DEF IInv
<1> QED
  BY <1>1, Inductive, PTL

-----------------------------------------------------------------------------
(* The gateway and the queue it shares with the approvers                  *)

\* An operation of the queue is a step of it.
LEMMA QueueSteps ==
  /\ \A i \in Id : Queue!Park(i) => Queue!Next
  /\ \A t \in Call \cup Desk, i \in Id, v \in Queue!Decisions : Queue!Decide(t, i, v) => Queue!Next
  /\ \A S \in SUBSET Id : Queue!Lapse(S) => Queue!Next
  /\ \A t \in Call \cup Desk, i \in Id : Queue!Answer(t, i) => Queue!Next
  /\ \A T \in SUBSET (Call \cup Desk) : Queue!Leave(T) => Queue!Next
BY DEF Queue!Next

\* The verdicts the gateway itself gives are ones it is entitled to.
LEMMA GatewayDecides ==
  /\ [status |-> "denied", by |-> ClientApprover] \in Queue!Decisions
  /\ ApproveOnTimeout => [status |-> "approved", by |-> TimeoutApprover] \in Queue!Decisions
BY DEF Queue!Decisions, Queue!Approvers, Queue!Deniers

LEMMA ProceedKeepsRules ==
  ASSUME IInv, NEW c \in Call, Proceed(c)
  PROVE  Queue!Next \/ UNCHANGED queueVars
<1>1. /\ stage[c] \in {"open", "look", "wait", "dismiss"} => call[c].id \in Id
      /\ c \in Call \cup Desk /\ {c} \in SUBSET (Call \cup Desk)
  BY DEF IInv, StageInv, OnFile
<1>2. CASE Open(c)
  BY <1>1, <1>2, QueueSteps DEF Open
<1>3. CASE Look(c)
  BY <1>1, <1>3, QueueSteps DEF Look
<1>4. CASE Dismiss(c)
  BY <1>1, <1>4, QueueSteps, GatewayDecides DEF Dismiss
<1>5. CASE WaitEnds(c)
  BY <1>1, <1>5, QueueSteps DEF WaitEnds
<1>6. CASE Record(c)
  BY <1>1, <1>6, QueueSteps DEF Record
<1> QED
  BY <1>2, <1>3, <1>4, <1>5, <1>6 DEF Proceed

LEMMA StepsKeepRules ==
  ASSUME IInv, [Next]_vars
  PROVE  [Queue!Next]_(Queue!vars)
<1>1. SUFFICES Queue!Next \/ UNCHANGED queueVars
  BY DEF Queue!vars, queueVars
<1>2. CASE \E c \in Call, tool \in Tool, ruling \in Ruling : Arrive(c, tool, ruling)
  BY <1>2 DEF Arrive
<1>3. CASE \E c \in Call, i \in Id, tool \in Tool, ruling \in Ruling : Retry(c, i, tool, ruling)
  BY <1>3 DEF Retry
<1>4. CASE \E c \in Call : Proceed(c)
  BY <1>4, ProceedKeepsRules
<1>5. ASSUME NEW c \in Call, Deadline(c) PROVE Queue!Next
  <2>1. call[c].id \in Id /\ {call[c].id} \in SUBSET Id
    BY <1>5 DEF Deadline, IInv, StageInv, OnFile
  <2> QED
    BY <1>5, <2>1, QueueSteps, GatewayDecides DEF Deadline
<1>6. CASE \E c \in Call : Upstream(c)
  BY <1>6 DEF Upstream, UpstreamRuns, UpstreamReplies, UpstreamFails
<1>7. ASSUME NEW c \in Call, HangUp(c) PROVE Queue!Next
  BY <1>7, QueueSteps DEF HangUp
<1>8. CASE \E u \in Desk, i \in Id, v \in Queue!Decisions : Decide(u, i, v)
  BY <1>8, QueueSteps DEF Decide
<1>9. CASE \E u \in Desk : DeskLeaves(u)
  BY <1>9, QueueSteps DEF DeskLeaves
<1>10. CASE \E S \in SUBSET Id : Sweep(S)
  BY <1>10, QueueSteps DEF Sweep
<1>11. CASE Crash
  BY <1>11, QueueSteps DEF Crash
<1>12. CASE UNCHANGED vars
  BY <1>12 DEF vars, queueVars
<1> QED
  BY <1>2, <1>3, <1>4, <1>5, <1>6, <1>7, <1>8, <1>9, <1>10, <1>11, <1>12 DEF Next

\* The gateway and the approvers keep to the queue's rules, crashes and hang-ups
\* included: whatever they do to a request is a step ApprovalQueue allows, so
\* what is proved of the queue is true of the one the gateway uses
\* (_require_approval, _resume, _apply_approval).
THEOREM KeepsQueueRules == Spec => Queue!Spec
<1>1. Init => Queue!Init
  BY DEF Init
<1>2. IInv /\ [Next]_vars => [Queue!Next]_(Queue!vars)
  BY StepsKeepRules
<1> QED
  BY <1>1, <1>2, Inductive, PTL DEF Spec, Queue!Spec

QueueProofs == INSTANCE ApprovalQueueProofs WITH Task <- Call \cup Desk

\* The queue of ApprovalQueueProofs is the gateway's, under another name.
LEMMA TheSameQueue ==
  /\ Queue!Init => QueueProofs!Init
  /\ [Queue!Next]_(Queue!vars) => [QueueProofs!Next]_(QueueProofs!vars)
  /\ QueueProofs!ToldIsOnRecord => Queue!ToldIsOnRecord
<1> USE DEF Queue!Unknown, QueueProofs!Unknown, Queue!NoAnswer, QueueProofs!NoAnswer
<1>1. Queue!Init => QueueProofs!Init
  BY DEF Queue!Init, QueueProofs!Init
<1>2. Queue!Settled = QueueProofs!Settled /\ Queue!Decisions = QueueProofs!Decisions
  BY DEF Queue!Settled, QueueProofs!Settled, Queue!Lapsed, QueueProofs!Lapsed,
         Queue!Decisions, QueueProofs!Decisions, Queue!Approvers, QueueProofs!Approvers,
         Queue!Deniers, QueueProofs!Deniers
<1>3. [Queue!Next]_(Queue!vars) => [QueueProofs!Next]_(QueueProofs!vars)
  BY <1>2 DEF Queue!vars, QueueProofs!vars, Queue!Next, QueueProofs!Next, Queue!Open, QueueProofs!Open,
         Queue!Lapsed, QueueProofs!Lapsed, Queue!Tell, QueueProofs!Tell, Queue!Park, QueueProofs!Park,
         Queue!Decide, QueueProofs!Decide, Queue!Lapse, QueueProofs!Lapse,
         Queue!Answer, QueueProofs!Answer, Queue!Leave, QueueProofs!Leave
<1>4. QueueProofs!ToldIsOnRecord => Queue!ToldIsOnRecord
  BY DEF Queue!ToldIsOnRecord, QueueProofs!ToldIsOnRecord
<1> QED
  BY <1>1, <1>3, <1>4

\* Nobody is ever told a verdict that is not, and does not stay, the one on
\* record: not a call that raced the deadline, not the approver who lost to it
\* (approvals/store.py, resolve).
THEOREM ToldIsOnRecord == Spec => []Queue!ToldIsOnRecord
BY TheSameQueue, KeepsQueueRules, QueueProofs!ToldIsTrue, PTL DEF Queue!Spec, QueueProofs!Spec
=============================================================================

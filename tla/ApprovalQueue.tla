--------------------------- MODULE ApprovalQueue ---------------------------
(***************************************************************************)
(* What the approval queue promises, with no clock, database, event or     *)
(* coroutine in sight: every parked request gets at most one verdict, the  *)
(* verdict is one that somebody entitled to it gave, and whoever is told a *)
(* verdict is told the one on record.  ApprovalService implements this.    *)
(***************************************************************************)
EXTENDS FiniteSets

CONSTANTS Id,               \* approval ids
          Task,             \* whoever asks the queue something
          Human,            \* names an approver signs with
          TimeoutApprover,  \* "system:timeout"
          ClientApprover,   \* "system:client-dismissed"
          None,             \* no value
          ApproveOnTimeout  \* the deployment chose on_timeout: allow

VARIABLES verdict,  \* verdict[i]: the verdict on record for request i
          answer    \* answer[t]: the settled verdict t has been told, if any

vars == <<verdict, answer>>

Unknown  == [status |-> "absent",  by |-> None]
Open     == [status |-> "pending", by |-> None]
Lapsed   == [status |-> "expired", by |-> TimeoutApprover]
NoAnswer == [id |-> None, verdict |-> Unknown]

(***************************************************************************)
(* The verdicts somebody may give.  Silence counts as consent only where   *)
(* the deployment said so, and the requesting client can only refuse.      *)
(***************************************************************************)
Approvers == Human \cup (IF ApproveOnTimeout THEN {TimeoutApprover} ELSE {})
Deniers   == Human \cup {ClientApprover}
Decisions == [status : {"approved"}, by : Approvers]
                \cup [status : {"denied"}, by : Deniers]
Settled   == Decisions \cup {Lapsed}

TypeOK ==
  /\ verdict \in [Id -> {Unknown, Open} \cup Settled]
  /\ answer \in [Task -> [id : Id, verdict : Settled] \cup {NoAnswer}]

Init ==
  /\ verdict = [i \in Id |-> Unknown]
  /\ answer = [t \in Task |-> NoAnswer]

Tell(t, i, v) == answer' = [answer EXCEPT ![t] = [id |-> i, verdict |-> v]]

\* A call is parked.
Park(i) ==
  /\ verdict[i] = Unknown
  /\ verdict' = [verdict EXCEPT ![i] = Open]
  /\ UNCHANGED answer

\* Bug: a second decision overwrites the first.
DecideAgain(t, i, v) ==
  /\ verdict[i] # Unknown
  /\ verdict' = [verdict EXCEPT ![i] = v]
  /\ Tell(t, i, v)

\* The first decision on an open request stands, and its author is told so.
Decide(t, i, v) ==
  /\ verdict[i] = Open
  /\ verdict' = [verdict EXCEPT ![i] = v]
  /\ Tell(t, i, v)

\* Requests whose time is up lapse, several at once.
Lapse(S) ==
  /\ \A i \in S : verdict[i] = Open
  /\ verdict' = [i \in Id |-> IF i \in S THEN Lapsed ELSE verdict[i]]
  /\ UNCHANGED answer

\* Somebody is told the verdict on record.
Answer(t, i) ==
  /\ verdict[i] \in Settled
  /\ Tell(t, i, verdict[i])
  /\ UNCHANGED verdict

\* Askers go away: they are done, have hung up, or the process restarted.
Leave(T) ==
  /\ answer' = [t \in Task |-> IF t \in T THEN NoAnswer ELSE answer[t]]
  /\ UNCHANGED verdict

Next ==
  \/ \E i \in Id : Park(i)
  \/ \E t \in Task, i \in Id, v \in Decisions : Decide(t, i, v)
  \/ \E S \in SUBSET Id : Lapse(S)
  \/ \E t \in Task, i \in Id : Answer(t, i)
  \/ \E T \in SUBSET Task : Leave(T)

Spec == Init /\ [][Next]_vars

-----------------------------------------------------------------------------
(* Whoever has been told a verdict was told the one on record, and nothing *)
(* decided later has changed it (approvals/store.py, resolve).             *)
ToldIsOnRecord ==
  \A t \in Task : answer[t] # NoAnswer => verdict[answer[t].id] = answer[t].verdict
=============================================================================

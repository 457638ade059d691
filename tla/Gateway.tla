------------------------------ MODULE Gateway ------------------------------
(***************************************************************************)
(* proxy/gateway.py: one tools/call through policy, approval, the upstream *)
(* and the audit log.  The approval queue is used by its specification     *)
(* (ApprovalQueue, which ApprovalService implements), so there is no clock *)
(* here: a request may lapse whenever it is open.                          *)
(*                                                                         *)
(* A call is one run of call_tool, and stage names what it is waiting for. *)
(* Between two awaits it is undisturbed, so each action is what follows an *)
(* await up to the next one.                                               *)
(***************************************************************************)
EXTENDS FiniteSets

CONSTANTS Id,               \* approval ids
          Forgotten,        \* ids clients hold from a database since replaced
          Call,             \* tools/call requests
          Desk,             \* requests to the approval UI
          Tool,             \* tools, with the arguments they are called with
          Human,            \* names approvers type into the form
          TimeoutApprover,  \* "system:timeout"
          ClientApprover,   \* "system:client-dismissed"
          None,             \* Python's None
          ApproveOnTimeout, \* approvals.on_timeout is "allow"
          Mode              \* approvals.mode: "auto", "elicit" or "block"

ASSUME ModeAssumption == Mode \in {"auto", "elicit", "block"}

ASSUME CallAssumption ==
  /\ ApproveOnTimeout \in BOOLEAN
  /\ Forgotten \subseteq Id
  /\ None \notin Id \cup Tool \cup Human
  /\ TimeoutApprover \notin Human \cup {ClientApprover, None}
  /\ ClientApprover \notin Human \cup {None}
  /\ Call \cap Desk = {}

VARIABLES verdict,   \* the queue: the verdict on each approval request
          answer,    \* the queue: what each asker has been told
          links,     \* ids of approvals that clients were handed
          stage,     \* what each call awaits
          call,      \* what each call has found out so far
          executed,  \* calls an upstream has carried out
          audit      \* audit_events

queueVars == <<verdict, answer>>
vars == <<verdict, answer, links, stage, call, executed, audit>>

Queue == INSTANCE ApprovalQueue WITH Task <- Call \cup Desk

Action == {"allow", "deny", "require_approval"}
Ruling == Action \cup {"unregistered"}
Outcome == {"forwarded", "denied_by_policy", "denied_by_approver", "dismissed_by_client",
            "timed_out", "awaiting_approval", "error", "unknown_tool"}
Stage == {"new", "open", "wait", "look", "dismiss", "send", "reply", "record",
          "answered", "gone"}
Approver == Human \cup {TimeoutApprover, ClientApprover, None}

CallRecord == [tool : Tool \cup {None}, action : Action \cup {None},
               id : Id \cup {None}, outcome : Outcome \cup {None}, approver : Approver]

NoCall == [tool |-> None, action |-> None, id |-> None, outcome |-> None, approver |-> None]

Event == [call : Call, tool : Tool, action : Action, outcome : Outcome, id : Id \cup {None},
          approver : Approver]

TypeOK ==
  /\ Queue!TypeOK
  /\ links \subseteq Id
  /\ stage \in [Call -> Stage]
  /\ call \in [Call -> CallRecord]
  /\ executed \subseteq Call
  /\ audit \subseteq Event

Init ==
  /\ Queue!Init
  /\ links = Forgotten
  /\ stage = [c \in Call |-> "new"]
  /\ call = [c \in Call |-> NoCall]
  /\ executed = {}
  /\ audit = {}

-----------------------------------------------------------------------------
(* Coroutine plumbing *)

Go(c, s, r) ==
  /\ stage' = [stage EXCEPT ![c] = s]
  /\ call' = [call EXCEPT ![c] = r]

\* On to _record() with the given outcome.
File(c, r, outcome) == Go(c, "record", [r EXCEPT !.outcome = outcome])

\* An id new_approval_id() may still produce.
Fresh(i) ==
  /\ verdict[i] = Queue!Unknown
  /\ i \notin links
  /\ \A c \in Call : call[c].id # i

\* _use_elicitation().
UseElicitation(supports) == Mode = "elicit" \/ (Mode = "auto" /\ supports)

-----------------------------------------------------------------------------
(* call_tool(): lookup, policy, and the branch they lead to *)

\* The ruling is what the registry and the policy make of the call now.  Both
\* the tools and what they say of themselves may change at any time, so it may
\* be any, for a retry too.

\* Bug: a tool that is not registered has no decision.
LookedUndecided(tool, ruling) == [NoCall EXCEPT !.tool = tool, !.action = ruling]

Looked(tool, ruling) ==
  [NoCall EXCEPT !.tool = tool, !.action = IF ruling = "unregistered" THEN "deny" ELSE ruling]

Arrive(c, tool, ruling) ==
  LET r == Looked(tool, ruling) IN
  /\ stage[c] = "new"
  /\ \/ ruling = "unregistered" /\ File(c, r, "unknown_tool")
     \/ ruling = "allow" /\ Go(c, "send", r)
     \/ ruling = "deny" /\ File(c, r, "denied_by_policy")
     \/ /\ ruling = "require_approval"
        /\ \E i \in Id : Fresh(i) /\ Go(c, "open", [r EXCEPT !.id = i])
  /\ UNCHANGED <<queueVars, links, executed, audit>>

\* A retry carrying the state of an approval: the client is to send the call
\* again that the approval was asked for, but may send any.
Retry(c, i, tool, ruling) ==
  LET r == Looked(tool, ruling) IN
  /\ stage[c] = "new"
  /\ i \in links
  /\ \/ ruling = "unregistered" /\ File(c, r, "unknown_tool")
     \/ ruling # "unregistered" /\ Go(c, "look", [r EXCEPT !.id = i])
  /\ UNCHANGED <<queueVars, links, executed, audit>>

-----------------------------------------------------------------------------
(* _require_approval(), _resume() and _apply_approval() *)

OutcomeOf(v) == IF v.status = "expired" THEN "timed_out" ELSE "denied_by_approver"

\* Bug: only a denial stops the call.
ApplyUnlessDenied(c, v, outcome) ==
  LET r == [call[c] EXCEPT !.approver = v.by] IN
  \/ v.status # "denied" /\ Go(c, "send", r)
  \/ v.status = "denied" /\ File(c, r, outcome)

\* _apply_approval(): a granted request is forwarded, any other is filed.
Apply(c, v, outcome) ==
  LET r == [call[c] EXCEPT !.approver = v.by] IN
  \/ v.status = "approved" /\ Go(c, "send", r)
  \/ v.status # "approved" /\ File(c, r, outcome)

\* Bug: the link is made before the request is stored, and storing it fails.
OpenUnstored(c) ==
  /\ stage[c] = "open"
  /\ File(c, call[c], "awaiting_approval")
  /\ UNCHANGED <<queueVars, links, executed, audit>>

\* Whether the client supports URL elicitation comes with each request.
Open(c) ==
  /\ stage[c] = "open"
  /\ Queue!Park(call[c].id)
  /\ \E supports \in BOOLEAN :
       \/ UseElicitation(supports) /\ File(c, call[c], "awaiting_approval")
       \/ ~UseElicitation(supports) /\ Go(c, "wait", call[c])
  /\ UNCHANGED <<links, executed, audit>>

\* wait() returns the settled request.
WaitEnds(c) ==
  /\ stage[c] = "wait"
  /\ Queue!Answer(c, call[c].id)
  /\ Apply(c, verdict[call[c].id], OutcomeOf(verdict[call[c].id]))
  /\ UNCHANGED <<links, executed, audit>>

\* Bug: wait() has no deadline of its own, and relies on being told.
DeadlineIfOpen(c) ==
  LET v == [status |-> "approved", by |-> TimeoutApprover] IN
  /\ ApproveOnTimeout
  /\ stage[c] = "wait"
  /\ Queue!Decide(c, call[c].id, v)
  /\ Apply(c, v, OutcomeOf(v))
  /\ UNCHANGED <<links, executed, audit>>

\* wait() reaches the deadline of an open request.
Deadline(c) ==
  LET i == call[c].id
      v == [status |-> "approved", by |-> TimeoutApprover]
  IN /\ stage[c] = "wait"
     /\ verdict[i] = Queue!Open
     /\ \/ /\ ApproveOnTimeout
           /\ Queue!Decide(c, i, v)
           /\ Apply(c, v, OutcomeOf(v))
        \/ /\ ~ApproveOnTimeout
           /\ Queue!Lapse({i})
           /\ UNCHANGED <<stage, call>>
     /\ UNCHANGED <<links, executed, audit>>

\* get() on behalf of a retry.  An id not on file is answered unrecorded.
Look(c) ==
  LET i == call[c].id IN
  /\ stage[c] = "look"
  /\ \/ /\ verdict[i] = Queue!Unknown
        /\ Go(c, "answered", call[c])
        /\ UNCHANGED queueVars
     \/ /\ verdict[i] = Queue!Open
        /\ Go(c, "dismiss", call[c])
        /\ UNCHANGED queueVars
     \/ /\ Queue!Answer(c, i)
        /\ Apply(c, verdict[i], OutcomeOf(verdict[i]))
  /\ UNCHANGED <<links, executed, audit>>

\* Bug: dismiss() reports what it meant to write, not the row.
DismissBlindly(c) ==
  LET i == call[c].id
      v == [status |-> "denied", by |-> ClientApprover]
  IN /\ stage[c] = "dismiss"
     /\ Queue!Decide(c, i, v) \/ Queue!Answer(c, i)
     /\ Apply(c, v, "dismissed_by_client")
     /\ UNCHANGED <<links, executed, audit>>

\* dismiss(): closes the request, or finds it settled since it was read.
Dismiss(c) ==
  LET i == call[c].id
      v == [status |-> "denied", by |-> ClientApprover]
  IN /\ stage[c] = "dismiss"
     /\ \/ Queue!Decide(c, i, v) /\ Apply(c, v, "dismissed_by_client")
        \/ Queue!Answer(c, i) /\ Apply(c, verdict[i], "dismissed_by_client")
     /\ UNCHANGED <<links, executed, audit>>

-----------------------------------------------------------------------------
(* _forward() and _record() *)

\* The upstream carries the call out; its reply is on the way.
UpstreamRuns(c) ==
  /\ stage[c] = "send"
  /\ executed' = executed \cup {c}
  /\ Go(c, "reply", call[c])
  /\ UNCHANGED <<queueVars, links, audit>>

\* The reply arrives, or is lost with the connection.
UpstreamReplies(c) ==
  /\ stage[c] = "reply"
  /\ \E outcome \in {"forwarded", "error"} : File(c, call[c], outcome)
  /\ UNCHANGED <<queueVars, links, executed, audit>>

\* Bug: an UpstreamError is recorded like a reply.
UpstreamFailsUnnoticed(c) ==
  /\ stage[c] = "send"
  /\ File(c, call[c], "forwarded")
  /\ UNCHANGED <<queueVars, links, executed, audit>>

\* UpstreamError before the call got there.
UpstreamFails(c) ==
  /\ stage[c] = "send"
  /\ File(c, call[c], "error")
  /\ UNCHANGED <<queueVars, links, executed, audit>>

EventOf(c) ==
  [call |-> c, tool |-> call[c].tool, action |-> call[c].action,
   outcome |-> call[c].outcome, id |-> call[c].id, approver |-> call[c].approver]

\* The audit row is written and the client is answered.
Record(c) ==
  /\ stage[c] = "record"
  /\ audit' = audit \cup {EventOf(c)}
  /\ Go(c, "answered", call[c])
  /\ links' = IF call[c].outcome = "awaiting_approval" THEN links \cup {call[c].id} ELSE links
  /\ Queue!Leave({c})
  /\ UNCHANGED executed

-----------------------------------------------------------------------------
(* Around the gateway *)

\* An approver decides an open request.
Decide(u, i, v) ==
  /\ v.by \in Human
  /\ Queue!Decide(u, i, v)
  /\ UNCHANGED <<links, stage, call, executed, audit>>

DeskLeaves(u) ==
  /\ answer[u] # Queue!NoAnswer
  /\ Queue!Leave({u})
  /\ UNCHANGED <<links, stage, call, executed, audit>>

\* Somebody reads the queue after the deadline of some requests.
Sweep(S) ==
  /\ S # {}
  /\ Queue!Lapse(S)
  /\ UNCHANGED <<links, stage, call, executed, audit>>

Active(c) == stage[c] \notin {"new", "answered", "gone"}

\* The client hangs up and the call is cancelled at whatever it awaits.
HangUp(c) ==
  /\ Active(c)
  /\ Go(c, "gone", call[c])
  /\ Queue!Leave({c})
  /\ UNCHANGED <<links, executed, audit>>

\* The process dies and comes back: the database and the clients' links remain.
Crash ==
  /\ stage' = [c \in Call |-> IF Active(c) THEN "gone" ELSE stage[c]]
  /\ Queue!Leave(Call \cup Desk)
  /\ UNCHANGED <<links, call, executed, audit>>

Proceed(c) == Open(c) \/ Look(c) \/ Dismiss(c) \/ WaitEnds(c) \/ Record(c)

Upstream(c) == UpstreamRuns(c) \/ UpstreamReplies(c) \/ UpstreamFails(c)

Next ==
  \/ \E c \in Call, tool \in Tool, ruling \in Ruling :
       Arrive(c, tool, ruling) \/ \E i \in Id : Retry(c, i, tool, ruling)
  \/ \E c \in Call : Proceed(c) \/ Deadline(c) \/ Upstream(c) \/ HangUp(c)
  \/ \E u \in Desk, i \in Id, v \in Queue!Decisions : Decide(u, i, v)
  \/ \E u \in Desk : DeskLeaves(u)
  \/ \E S \in SUBSET Id : Sweep(S)
  \/ Crash

Spec == Init /\ [][Next]_vars

\* The event loop runs what is ready, a deadline comes, an upstream answers.
FairSpec ==
  /\ Spec
  /\ \A c \in Call : WF_vars(Proceed(c)) /\ WF_vars(Deadline(c)) /\ WF_vars(Upstream(c))

-----------------------------------------------------------------------------
(* Safety *)

\* An upstream carries out nothing but what policy allowed when it was asked,
\* or what came with an approval that is granted and stays so.  Which call the
\* approval is of, the gateway does not compare: see WhatRunsWasApproved
\* (call_tool, _resume, _apply_approval, _forward).
OnlyPermittedRuns ==
  \A c \in executed :
    IF call[c].id = None THEN call[c].action = "allow"
                         ELSE verdict[call[c].id].status = "approved"

\* Each audit row tells what became of the approval it names: its approver is
\* the one on record, and its outcome is one that verdict can lead to
\* (_apply_approval, _record).
OutcomesOf(status) ==
  CASE status = "approved" -> {"forwarded", "error"}
    [] status = "denied"   -> {"denied_by_approver", "dismissed_by_client"}
    [] status = "expired"  -> {"timed_out", "dismissed_by_client"}
    [] OTHER -> {}

AuditAgreesWithQueue ==
  \A e \in audit :
    e.id # None /\ e.outcome # "awaiting_approval" =>
      /\ e.approver = verdict[e.id].by
      /\ e.outcome \in OutcomesOf(verdict[e.id].status)

\* A call is carried out and answered only with its one audit row written, and
\* the row says "forwarded" only of calls that were (_forward, _record).
AuditIsFaithful ==
  /\ \A c \in executed : stage[c] = "answered" => \E e \in audit : e.call = c
  /\ \A e \in audit : e.outcome = "forwarded" => e.call \in executed
  /\ \A e, f \in audit : e.call = f.call => e = f

\* A client holds a link only to a request on file, so a retry that finds
\* nothing holds one from another database (_require_approval, _resume).
LinksAreOnFile ==
  \A i \in links : i \in Forgotten \/ verdict[i] # Queue!Unknown

-----------------------------------------------------------------------------
(* Why they hold: an inductive invariant.  Each await leaves the call knowing *)
(* what it relies on afterwards; verdicts that are settled never change.      *)

Permitted(c) ==
  IF call[c].id = None THEN call[c].action = "allow"
                       ELSE verdict[call[c].id].status = "approved"

OnFile(c) == call[c].id \in Id /\ verdict[call[c].id] # Queue!Unknown

Credited(c) == call[c].id # None => call[c].approver = verdict[call[c].id].by

\* What a call is filed as is true of it.
FiledRight(c) ==
  /\ call[c].outcome \in Outcome
  /\ call[c].outcome = "forwarded" => c \in executed
  /\ call[c].outcome = "awaiting_approval" =>
       OnFile(c)
  /\ call[c].id # None /\ call[c].outcome # "awaiting_approval" =>
       Credited(c) /\ call[c].outcome \in OutcomesOf(verdict[call[c].id].status)

StageInv(c) ==
  /\ stage[c] # "new" => call[c].action \in Action /\ call[c].tool \in Tool
  /\ stage[c] \in {"new", "open", "wait", "look", "dismiss", "send"} => c \notin executed
  /\ stage[c] \in {"open", "look"} => call[c].id \in Id
  /\ stage[c] \in {"wait", "dismiss"} => OnFile(c)
  /\ stage[c] \in {"send", "reply"} => Permitted(c) /\ Credited(c)
  /\ stage[c] = "reply" => c \in executed
  /\ stage[c] = "record" => FiledRight(c)
  /\ c \in executed => Permitted(c)
  /\ c \in executed /\ stage[c] = "answered" => \E e \in audit : e.call = c

AuditInv ==
  \A e \in audit : stage[e.call] = "answered" /\ e = EventOf(e.call) /\ FiledRight(e.call)

IInv ==
  /\ TypeOK
  /\ \A c \in Call : StageInv(c)
  /\ AuditInv
  /\ LinksAreOnFile

-----------------------------------------------------------------------------
(* Liveness *)

\* Every call ends, answered or cut off, whoever fails to decide it.
EveryCallEnds == \A c \in Call : Active(c) ~> stage[c] \in {"answered", "gone"}

-----------------------------------------------------------------------------
(* What the documentation says *)

\* dismissed_by_client: "No approver ever ruled on it, so it must not be filed
\* as a human denial" (audit/models.py), nor the other way round.
DismissalsAreFiledAsSuch ==
  \A e \in audit : /\ e.outcome = "dismissed_by_client" => e.approver \notin Human
                   /\ e.outcome = "denied_by_approver" => e.approver \in Human

\* An approver decides on a call, and must "see exactly what they are approving"
\* (tests/integration/test_ui.py); it then "completes only once someone approves
\* it" (README.md): what is carried out under an approval is the call that the
\* approval was asked for.
WhatRunsWasApproved ==
  \A c \in executed, e \in audit :
    e.outcome = "awaiting_approval" /\ e.id = call[c].id => e.tool = call[c].tool
=============================================================================

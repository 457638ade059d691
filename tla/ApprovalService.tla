-------------------------- MODULE ApprovalService --------------------------
(***************************************************************************)
(* approvals/service.py and approvals/store.py, driven the way             *)
(* proxy/gateway.py and ui/app.py drive them.                              *)
(*                                                                         *)
(* A task is one coroutine: a tools/call handler or a UI request.  Every   *)
(* database call holds the connection's lock until the coroutine that made *)
(* it has resumed, and a coroutine that has resumed runs to its next await *)
(* undisturbed.  An action is therefore one database call with the code    *)
(* that follows it, and pc names the call a task is queued for.  The time  *)
(* a statement is stamped with is read before queueing for the lock, so it *)
(* is kept in the task's frame.                                            *)
(***************************************************************************)
EXTENDS Integers

CONSTANTS Id,               \* approval ids (secrets.token_urlsafe, never reused)
          Forgotten,        \* ids clients hold from a database since replaced
          Task,             \* coroutines
          Human,            \* names approvers type into the form
          TimeoutApprover,  \* "system:timeout"
          ClientApprover,   \* "system:client-dismissed"
          None,             \* Python's None
          Timeout,          \* approvals.timeout_seconds, in clock ticks
          MaxClock,         \* bound on the clock
          ApproveOnTimeout, \* approvals.on_timeout is "allow"
          UiInProcess       \* the UI runs in the gatekeeper's own process

ASSUME TimeAssumption == Timeout \in Nat \ {0} /\ MaxClock \in Nat

ASSUME FlagAssumption == ApproveOnTimeout \in BOOLEAN /\ UiInProcess \in BOOLEAN

ASSUME ActorAssumption ==
  /\ TimeoutApprover \notin Human \cup {ClientApprover, None}
  /\ ClientApprover \notin Human \cup {None}
  /\ None \notin Human \cup Id

ASSUME ForgottenAssumption == Forgotten \subseteq Id

VARIABLES now,        \* datetime.now(UTC)
          rows,       \* the approvals table
          links,      \* ids clients were handed as request_state
          registered, \* keys of ApprovalService._events
          fired,      \* ids whose current anyio.Event has been set
          pc,         \* what each task is queued for
          frame       \* each task's local variables

serviceVars == <<now, rows, links, registered, fired, pc, frame>>
memory == <<registered, fired>>

Actor == Human \cup {TimeoutApprover, ClientApprover}
Resolution == {"approved", "denied", "expired"}

\* A row of the table; "absent" stands for a query that fetches no row.
Row == [status   : Resolution \cup {"absent", "pending"},
        expires  : Nat,
        decided  : Nat \cup {None},
        approver : Actor \cup {None}]

NoRow == [status |-> "absent", expires |-> 0, decided |-> None, approver |-> None]

Label == {"idle", "create", "firstGet", "asleep", "reGet", "get", "sweep",
          "reread", "list", "resolve", "done"}

\* What a task is for.  The first four are tools/call handlers, the rest UI.
Handler == {"block", "elicit", "retry", "dismiss"}
Op == Handler \cup {"none", "view", "decide", "poll"}

Frame == [op : Op, id : Id \cup {None}, stamp : Nat, approved : BOOLEAN,
          approver : Actor \cup {None}, ret : Row, listed : SUBSET Id]

NoFrame == [op |-> "none", id |-> None, stamp |-> 0, approved |-> FALSE,
            approver |-> None, ret |-> NoRow, listed |-> {}]

ServiceTypeOK ==
  /\ now \in 0..MaxClock
  /\ rows \in [Id -> Row]
  /\ links \subseteq Id
  /\ registered \subseteq Id
  /\ fired \subseteq Id
  /\ pc \in [Task -> Label]
  /\ frame \in [Task -> Frame]

ServiceInit ==
  /\ now = 0
  /\ rows = [i \in Id |-> NoRow]
  /\ links = Forgotten
  /\ registered = {}
  /\ fired = {}
  /\ pc = [t \in Task |-> "idle"]
  /\ frame = [t \in Task |-> NoFrame]

-----------------------------------------------------------------------------
(* Rows *)

IsResolved(row) == row.status \in Resolution

\* Bug: the deadline itself still counts as in time.
IsExpiredAtLate(row, at) == row.status = "pending" /\ at > row.expires

IsExpiredAt(row, at) == row.status = "pending" /\ at >= row.expires

\* Bug: the deadline is set on the wrong side of the creation time.
PendingRowBackdated(createdAt) ==
  [status |-> "pending", expires |-> createdAt - Timeout,
   decided |-> None, approver |-> None]

\* INSERT, with the deadline counted from the moment open() began.
PendingRow(createdAt) ==
  [status |-> "pending", expires |-> createdAt + Timeout,
   decided |-> None, approver |-> None]

\* Bug: the UPDATE is not restricted to pending rows.
ResolvedRowUnguarded(row, approved, approver, decidedAt) ==
  [row EXCEPT !.status = IF approved THEN "approved" ELSE "denied",
              !.decided = decidedAt, !.approver = approver]

\* resolve(): a decision, but only against a still-pending row.
ResolvedRow(row, approved, approver, decidedAt) ==
  IF row.status = "pending"
  THEN [row EXCEPT !.status = IF approved THEN "approved" ELSE "denied",
                   !.decided = decidedAt, !.approver = approver]
  ELSE row

\* Bug: a row due this very moment is left for the next sweep.
ExpiredRowLate(row, moment) ==
  IF row.status = "pending" /\ row.expires < moment
  THEN [row EXCEPT !.status = "expired", !.decided = moment,
                   !.approver = TimeoutApprover]
  ELSE row

\* Bug: decided rows are swept along with the open ones.
ExpiredRowUnguarded(row, moment) ==
  IF row.status # "absent" /\ row.expires <= moment
  THEN [row EXCEPT !.status = "expired", !.decided = moment,
                   !.approver = TimeoutApprover]
  ELSE row

\* expire_overdue(), for one row.
ExpiredRow(row, moment) ==
  IF row.status = "pending" /\ row.expires <= moment
  THEN [row EXCEPT !.status = "expired", !.decided = moment,
                   !.approver = TimeoutApprover]
  ELSE row

-----------------------------------------------------------------------------
(* Coroutine plumbing *)

Go(t, label, f) ==
  /\ pc' = [pc EXCEPT ![t] = label]
  /\ frame' = [frame EXCEPT ![t] = f]

\* A local that will not be read again is reset, so that it tells no two
\* states apart.
Spent(f) == [f EXCEPT !.stamp = 0, !.approved = FALSE, !.approver = None]

\* The service call returns row.
Return(t, row) == Go(t, "done", [Spent(frame[t]) EXCEPT !.ret = row])

Begin(t, label, f) == pc[t] = "idle" /\ Go(t, label, f)

\* An id that new_approval_id() may still produce.
Fresh(i) ==
  /\ rows[i].status = "absent"
  /\ i \notin links
  /\ \A t \in Task : frame[t].id # i

\* Bug: whoever comes when the lock is free gets it.
InAnyTurn(t) == TRUE

\* Tasks of one process wait for its connection in line (anyio.Lock), so the
\* statements they stamped before they joined it are carried out in the order
\* of the stamps.  Reads may come anywhere in between.
SameProcess(t, u) == UiInProcess \/ (frame[t].op \in Handler <=> frame[u].op \in Handler)

InTurn(t) ==
  \A u \in Task : pc[u] \in {"create", "sweep", "resolve"} /\ SameProcess(t, u)
                  => frame[t].stamp <= frame[u].stamp

-----------------------------------------------------------------------------
(* open() and the branch of _require_approval that follows it *)

\* A call needs approval.  The bound on the clock leaves room for its deadline.
Park(t, i, how) ==
  /\ Fresh(i)
  /\ now + Timeout <= MaxClock
  /\ Begin(t, "create", [NoFrame EXCEPT !.op = how, !.id = i, !.stamp = now])
  /\ UNCHANGED <<now, rows, links, memory>>

Create(t) ==
  LET f == frame[t]
      row == PendingRow(f.stamp)
  IN /\ pc[t] = "create" /\ InTurn(t)
     /\ rows' = [rows EXCEPT ![f.id] = row]
     /\ registered' = registered \cup {f.id}
     /\ \/ f.op = "elicit" /\ Return(t, row)
        \/ f.op = "block" /\ Go(t, "firstGet", Spent(f))
     /\ UNCHANGED <<now, links, fired>>

-----------------------------------------------------------------------------
(* wait() *)

\* Bug: fails open whatever on_timeout says.
SettleTimeoutOpen(t) ==
  Go(t, "resolve", [frame[t] EXCEPT !.stamp = now, !.approved = TRUE,
                                    !.approver = TimeoutApprover])

SettleTimeout(t) ==
  IF ApproveOnTimeout
  THEN Go(t, "resolve", [frame[t] EXCEPT !.stamp = now, !.approved = TRUE,
                                         !.approver = TimeoutApprover])
  ELSE Go(t, "sweep", [frame[t] EXCEPT !.stamp = now])

\* Bug: the event is dropped on every pass, not only on the way out.
LoopForgetting(t, keys) ==
  LET i == frame[t].id IN
  /\ registered' = keys \ {i}
  /\ \/ now < rows[i].expires /\ Go(t, "asleep", frame[t])
     \/ now >= rows[i].expires /\ SettleTimeout(t)

\* Bug: the deadline is not looked at again.
LoopForever(t, keys) ==
  /\ Go(t, "asleep", frame[t])
  /\ registered' = keys

\* Top of the loop on a pending row; keys is what _events holds by then.
Loop(t, keys) ==
  LET i == frame[t].id IN
  \/ /\ now < rows[i].expires
     /\ Go(t, "asleep", frame[t])
     /\ registered' = keys
  \/ /\ now >= rows[i].expires
     /\ SettleTimeout(t)
     /\ registered' = keys \ {i}

\* setdefault() keeps the event open() registered, or makes an unset one.
FirstGet(t) ==
  LET i == frame[t].id IN
  /\ pc[t] = "firstGet"
  /\ \/ /\ IsResolved(rows[i])
        /\ Return(t, rows[i])
        /\ UNCHANGED memory
     \/ /\ ~IsResolved(rows[i])
        /\ Loop(t, registered \cup {i})
        /\ fired' = IF i \in registered THEN fired ELSE fired \ {i}
  /\ UNCHANGED <<now, rows, links>>

Wake(t) ==
  /\ pc[t] = "asleep"
  /\ Go(t, "reGet", frame[t])
  /\ UNCHANGED <<now, rows, links, memory>>

WakeOnEvent(t) == frame[t].id \in fired /\ Wake(t)

\* Bug: one timer for the whole wait, no polling in between.
WakeAtDeadline(t) ==
  pc[t] = "asleep" /\ now >= rows[frame[t].id].expires /\ Wake(t)

\* move_on_after(): half a second, less than any tick the clock is cut into.
WakeOnTimer(t) == Wake(t)

ReGet(t) ==
  LET i == frame[t].id IN
  /\ pc[t] = "reGet"
  /\ \/ /\ IsResolved(rows[i])
        /\ Return(t, rows[i])
        /\ registered' = registered \ {i}
     \/ /\ ~IsResolved(rows[i])
        /\ Loop(t, registered)
  /\ UNCHANGED <<now, rows, links, fired>>

-----------------------------------------------------------------------------
(* get(), and the dismissal a retry falls into when nobody has decided *)

\* A client retries with the state it was given; an approver opens the page.
Retry(t, i) ==
  /\ i \in links
  /\ Begin(t, "get", [NoFrame EXCEPT !.op = "retry", !.id = i])
  /\ UNCHANGED <<now, rows, links, memory>>

View(t, i) ==
  /\ rows[i].status # "absent"
  /\ Begin(t, "get", [NoFrame EXCEPT !.op = "view", !.id = i])
  /\ UNCHANGED <<now, rows, links, memory>>

Got(t, row) ==
  IF frame[t].op = "retry" /\ row.status = "pending"
  THEN Go(t, "resolve", [frame[t] EXCEPT !.op = "dismiss", !.stamp = now,
                           !.approved = FALSE, !.approver = ClientApprover])
  ELSE Return(t, row)

Get(t) ==
  LET row == rows[frame[t].id] IN
  /\ pc[t] = "get"
  /\ \/ /\ IsExpiredAt(row, now)
        /\ Go(t, "sweep", [frame[t] EXCEPT !.stamp = now])
     \/ /\ ~IsExpiredAt(row, now)
        /\ Got(t, row)
  /\ UNCHANGED <<now, rows, links, memory>>

\* expire_overdue(): before the queue page is listed, else before a reread.
\* The page keeps the stamp, for NothingOverdueIsShownOpen.
Sweep(t) ==
  /\ pc[t] = "sweep" /\ InTurn(t)
  /\ rows' = [i \in Id |-> ExpiredRow(rows[i], frame[t].stamp)]
  /\ \/ frame[t].op = "poll" /\ Go(t, "list", frame[t])
     \/ frame[t].op # "poll" /\ Go(t, "reread", Spent(frame[t]))
  /\ UNCHANGED <<now, links, memory>>

Reread(t) ==
  /\ pc[t] = "reread"
  /\ Got(t, rows[frame[t].id])
  /\ UNCHANGED <<now, rows, links, memory>>

\* Bug: the queue is listed without expire_overdue().
PollUnswept(t) ==
  /\ Begin(t, "list", [NoFrame EXCEPT !.op = "poll", !.stamp = now])
  /\ UNCHANGED <<now, rows, links, memory>>

\* pending(), polled by the open queue page.
Poll(t) ==
  /\ Begin(t, "sweep", [NoFrame EXCEPT !.op = "poll", !.stamp = now])
  /\ UNCHANGED <<now, rows, links, memory>>

\* Its second call: what is pending by then is on the page.
List(t) ==
  /\ pc[t] = "list"
  /\ Go(t, "done", [Spent(frame[t]) EXCEPT !.listed = {i \in Id : rows[i].status = "pending"}])
  /\ UNCHANGED <<now, rows, links, memory>>

-----------------------------------------------------------------------------
(* decide(), dismiss() and the fail-open branch of _settle_timeout() *)

\* An approver posts the form, from the queue or from a page opened earlier.
Decide(t, i, approved, who) ==
  /\ rows[i].status # "absent"
  /\ Begin(t, "resolve", [NoFrame EXCEPT !.op = "decide", !.id = i, !.stamp = now,
                            !.approved = approved, !.approver = who])
  /\ UNCHANGED <<now, rows, links, memory>>

\* Bug: decide() forgets to set the event.
SignalNobody(op, i) ==
  /\ fired' = fired
  /\ registered' = IF op = "dismiss" THEN registered \ {i} ELSE registered

\* What each caller does to _events once resolve() has returned.
Signal(op, i) ==
  \/ /\ op = "decide"
     /\ fired' = IF UiInProcess /\ i \in registered THEN fired \cup {i} ELSE fired
     /\ UNCHANGED registered
  \/ /\ op = "dismiss"
     /\ fired' = fired \cup (registered \cap {i})
     /\ registered' = registered \ {i}
  \/ /\ op = "block"
     /\ UNCHANGED memory

Resolve(t) ==
  LET f == frame[t]
      row == ResolvedRow(rows[f.id], f.approved, f.approver, f.stamp)
  IN /\ pc[t] = "resolve" /\ InTurn(t)
     /\ rows' = [rows EXCEPT ![f.id] = row]
     /\ Return(t, row)
     /\ Signal(f.op, f.id)
     /\ UNCHANGED <<now, links>>

-----------------------------------------------------------------------------
(* Around the service *)

\* The caller replies; an elicited client now holds the link.
Finish(t) ==
  /\ pc[t] = "done"
  /\ Go(t, "idle", NoFrame)
  /\ links' = IF frame[t].op = "elicit" THEN links \cup {frame[t].id} ELSE links
  /\ UNCHANGED <<now, rows, memory>>

\* The client hangs up and its handler is cancelled at whatever it awaits.
Abandon(t) ==
  /\ pc[t] # "idle"
  /\ frame[t].op \in Handler
  /\ Go(t, "idle", NoFrame)
  /\ UNCHANGED <<now, rows, links, memory>>

\* The process dies and comes back: only the database survives.
Restart ==
  /\ pc' = [t \in Task |-> "idle"]
  /\ frame' = [t \in Task |-> NoFrame]
  /\ registered' = {}
  /\ fired' = {}
  /\ UNCHANGED <<now, rows, links>>

Tick ==
  /\ now < MaxClock
  /\ now' = now + 1
  /\ UNCHANGED <<rows, links, memory, pc, frame>>

\* The steps the event loop and the worker thread owe a task.
Proceed(t) ==
  \/ Create(t) \/ FirstGet(t) \/ ReGet(t) \/ Get(t)
  \/ Sweep(t) \/ Reread(t) \/ List(t) \/ Resolve(t)

\* A request reaches the gatekeeper.
Arrive(t) ==
  \/ \E i \in Id, how \in {"block", "elicit"} : Park(t, i, how)
  \/ \E i \in Id : Retry(t, i) \/ View(t, i)
  \/ \E i \in Id, approved \in BOOLEAN, who \in Human : Decide(t, i, approved, who)
  \/ Poll(t)

Next ==
  \/ \E t \in Task : Arrive(t) \/ Proceed(t) \/ WakeOnEvent(t) \/ WakeOnTimer(t)
                       \/ Finish(t) \/ Abandon(t)
  \/ Restart
  \/ Tick

Spec == ServiceInit /\ [][Next]_serviceVars

-----------------------------------------------------------------------------
(* Fairness: the event loop and the worker threads run what is ready, and  *)
(* events and timers wake their tasks.  Requests, hang-ups, restarts and   *)
(* even the passing of time are never owed.                                *)
Running ==
  \A t \in Task : /\ WF_serviceVars(Proceed(t) \/ Finish(t))
                  /\ WF_serviceVars(WakeOnEvent(t))
                  /\ WF_serviceVars(WakeOnTimer(t))

FairSpec == Spec /\ Running

-----------------------------------------------------------------------------
(* Safety *)

\* The first decision on a request stands, whoever else acts on it later and
\* whatever the clock says by then (store.resolve, store.expire_overdue).
DecisionIsFinal ==
  [][\A i \in Id : IsResolved(rows[i]) => rows'[i] = rows[i]]_serviceVars

\* Nothing is granted or refused without somebody entitled to do so: consent
\* comes from a person, or from the clock where on_timeout says so and only
\* once the deadline has passed; a timeout is never recorded early
\* (service._settle_timeout, store.resolve, store.expire_overdue).
EntitledRow(row) ==
  /\ row.status = "approved" =>
       \/ row.approver \in Human
       \/ /\ ApproveOnTimeout
          /\ row.approver = TimeoutApprover
          /\ row.decided >= row.expires
  /\ row.status = "denied" => row.approver \in Human \cup {ClientApprover}
  /\ row.status = "expired" =>
       row.approver = TimeoutApprover /\ row.decided >= row.expires

SilenceIsNotConsent == \A i \in Id : EntitledRow(rows[i])

\* What a caller is told is what the table says and goes on saying, and a
\* blocked call, a retry or a decision is never answered with an open row
\* (service.wait, service.get, service.decide, gateway._resume).
AnsweredTruly(t) ==
  LET f == frame[t] IN
  pc[t] = "done" =>
    /\ IsResolved(f.ret) => f.ret = rows[f.id]
    /\ f.op \in {"block", "dismiss", "decide"} => IsResolved(f.ret)
    /\ f.op = "retry" => IsResolved(f.ret) \/ rows[f.id].status = "absent"

AnswersAreFinal == \A t \in Task : AnsweredTruly(t)

\* Although rows expire only when somebody looks, a request's own page never
\* shows it as open at or after its deadline (service.get); and the queue page,
\* where it shares the gatekeeper's process, lists none that was overdue when
\* the page was asked for.  One whose deadline passes between that and the
\* listing, two calls later, may still be on it (service.pending).
NothingOverdueIsShownOpen ==
  [][\A t \in Task :
       pc[t] # "done" /\ pc'[t] = "done" =>
         /\ frame[t].op = "view" /\ frame'[t].ret.status = "pending"
              => now < frame'[t].ret.expires
         /\ frame[t].op = "poll" /\ UiInProcess
              => \A i \in frame'[t].listed : frame[t].stamp < rows[i].expires]_serviceVars

\* A decision made in this process never leaves the blocked call it settles
\* asleep on an event nobody will set (service.open, decide, wait).
NoLostWakeup ==
  UiInProcess =>
    \A t \in Task :
      pc[t] = "asleep" /\ rows[frame[t].id].approver \in Human
        => frame[t].id \in fired

-----------------------------------------------------------------------------
(* Why they hold: an inductive invariant.  A request has one owner until its *)
(* link is handed out, so no other task creates it, dismisses it or forgets  *)
(* its event; and each await leaves the task knowing what it needs to know.  *)

Owner(t) == frame[t].op \in {"block", "elicit"}

OneOwner ==
  \A t, u \in Task : Owner(t) /\ Owner(u) /\ frame[t].id = frame[u].id => t = u

RowsInv ==
  \A i \in Id : /\ EntitledRow(rows[i])
                /\ ~IsResolved(rows[i]) => rows[i].approver = None

\* Whose id a task may be working on.
IdInv(t) ==
  LET f == frame[t] IN
  /\ pc[t] = "idle" => f = NoFrame
  /\ pc[t] # "idle" /\ f.op # "poll" => f.id \in Id
  /\ f.op = "poll" => f.id = None /\ f.ret = NoRow
  /\ Owner(t) => f.id \notin links
  /\ f.op \in {"retry", "dismiss"} => f.id \in links
  /\ f.op \in {"view", "decide", "dismiss"} => rows[f.id].status # "absent"

\* What a task knows of its row at each await.
StepInv(t) ==
  LET f == frame[t]
      row == rows[f.id]
  IN /\ pc[t] = "create" => Owner(t) /\ row.status = "absent"
     /\ pc[t] \in {"firstGet", "asleep", "reGet"} =>
          f.op = "block" /\ row.status # "absent"
     /\ pc[t] \in {"asleep", "reGet"} => f.id \in registered
     /\ pc[t] = "get" => f.op \in {"retry", "view"}
     /\ pc[t] = "sweep" =>
          \/ f.op = "poll"
          \/ /\ f.op \in {"block", "retry", "view"}
             /\ row.status # "absent"
             /\ f.stamp >= row.expires
     /\ pc[t] = "list" => f.op = "poll"
     /\ pc[t] = "reread" => f.op \in {"block", "retry", "view"} /\ IsResolved(row)
     /\ pc[t] = "resolve" =>
          /\ f.op \in {"block", "dismiss", "decide"}
          /\ row.status # "absent"
          /\ EntitledRow(ResolvedRow([row EXCEPT !.status = "pending"],
                                     f.approved, f.approver, f.stamp))

IInv ==
  /\ ServiceTypeOK
  /\ OneOwner
  /\ RowsInv
  /\ \A t \in Task : IdInv(t) /\ StepInv(t) /\ AnsweredTruly(t)
  /\ NoLostWakeup

-----------------------------------------------------------------------------
(* Liveness *)

\* A blocked call is let go once its deadline has passed, unless its client or
\* the process goes away first (service.wait, _settle_timeout).
BlockedCallReturns ==
  \A t \in Task :
    pc[t] = "asleep" /\ now >= rows[frame[t].id].expires ~> pc[t] \in {"done", "idle"}

\* A decision reaches the call blocked on it however far off the deadline is,
\* even if no event is ever set (service.wait's polling interval).
DecisionIsNoticed ==
  \A t \in Task :
    pc[t] = "asleep" /\ IsResolved(rows[frame[t].id]) ~> pc[t] \in {"done", "idle"}

-----------------------------------------------------------------------------
(* What the documentation says of the timeout *)

\* "No answer within the timeout is a denial" (README.md): a person's approval
\* counts only if it came within the deadline.
NoAnswerInTimeIsDenial ==
  \A i \in Id : rows[i].status = "approved" /\ rows[i].approver \in Human
               => rows[i].decided < rows[i].expires

\* "on_timeout is 'allow', so calls nobody answers are forwarded" (cli.py): in
\* such a deployment no request is refused for want of an answer.
UnansweredIsForwarded ==
  ApproveOnTimeout => \A i \in Id : rows[i].status # "expired"

-----------------------------------------------------------------------------
(* The queue's promise: the table's verdicts, and what callers were told *)

Verdict(row) == [status |-> row.status, by |-> row.approver]

Told(t) ==
  IF pc[t] = "done" /\ IsResolved(frame[t].ret)
  THEN [id |-> frame[t].id, verdict |-> Verdict(frame[t].ret)]
  ELSE [id |-> None, verdict |-> Verdict(NoRow)]

Queue == INSTANCE ApprovalQueue
           WITH verdict <- [i \in Id |-> Verdict(rows[i])],
                answer  <- [t \in Task |-> Told(t)]

\* ApprovalService implements ApprovalQueue.
ImplementsQueue == Queue!Spec
=============================================================================

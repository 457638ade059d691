----------------------- MODULE ApprovalServiceProofs -----------------------
(***************************************************************************)
(* Proofs about ApprovalService, for every set of ids, tasks and approvers *)
(* and for every timeout and clock bound.                                  *)
(***************************************************************************)
EXTENDS ApprovalService, TLAPS

USE TimeAssumption, FlagAssumption, ActorAssumption, ForgottenAssumption

\* Moving one task keeps every pc a label and every frame a frame.
LEMMA GoType ==
  ASSUME ServiceTypeOK, NEW t \in Task, NEW l \in Label, NEW f \in Frame, Go(t, l, f)
  PROVE  pc' \in [Task -> Label] /\ frame' \in [Task -> Frame]
BY DEF ServiceTypeOK, Go

LEMMA FrameFields ==
  ASSUME NEW f \in Frame
  PROVE  /\ f.op \in Op
         /\ f.id \in Id \cup {None}
         /\ f.stamp \in Nat
         /\ f.approved \in BOOLEAN
         /\ f.approver \in Actor \cup {None}
         /\ f.ret \in Row
         /\ f.listed \in SUBSET Id
BY DEF Frame

LEMMA RowTypes ==
  /\ NoRow \in Row
  /\ \A n \in Nat : PendingRow(n) \in Row
  /\ \A row \in Row, approved \in BOOLEAN, who \in Actor, n \in Nat :
       ResolvedRow(row, approved, who, n) \in Row
  /\ \A row \in Row, n \in Nat : ExpiredRow(row, n) \in Row
<1>1. NoRow \in Row
  BY DEF NoRow, Row
<1>2. ASSUME NEW n \in Nat PROVE PendingRow(n) \in Row
  BY DEF PendingRow, Row
<1>3. ASSUME NEW row \in Row, NEW approved \in BOOLEAN, NEW who \in Actor, NEW n \in Nat
      PROVE  ResolvedRow(row, approved, who, n) \in Row
  BY DEF ResolvedRow, Row, Resolution
<1>4. ASSUME NEW row \in Row, NEW n \in Nat PROVE ExpiredRow(row, n) \in Row
  BY DEF ExpiredRow, Row, Resolution, Actor
<1> QED
  BY <1>1, <1>2, <1>3, <1>4

LEMMA FrameTypes ==
  /\ NoFrame \in Frame
  /\ \A f \in Frame : Spent(f) \in Frame
BY RowTypes DEF NoFrame, Frame, Spent, Op, Handler

LEMMA ReturnType ==
  ASSUME ServiceTypeOK, NEW t \in Task, NEW row \in Row, Return(t, row)
  PROVE  pc' \in [Task -> Label] /\ frame' \in [Task -> Frame]
<1>1. [Spent(frame[t]) EXCEPT !.ret = row] \in Frame
  BY FrameTypes DEF ServiceTypeOK, Frame
<1>2. Go(t, "done", [Spent(frame[t]) EXCEPT !.ret = row])
  BY DEF Return
<1> QED
  BY <1>1, <1>2, GoType DEF Label

LEMMA NowIsNat == ServiceTypeOK => now \in Nat
BY DEF ServiceTypeOK

LEMMA Labels ==
  /\ {"none", "view", "decide", "poll", "block", "elicit", "retry", "dismiss"} \subseteq Op
  /\ Human \cup {TimeoutApprover, ClientApprover} \subseteq Actor
BY DEF Op, Handler, Actor

LEMMA LoopType ==
  ASSUME ServiceTypeOK, NEW t \in Task, frame[t].id \in Id, NEW keys \in SUBSET Id,
         Loop(t, keys)
  PROVE  /\ pc' \in [Task -> Label] /\ frame' \in [Task -> Frame]
         /\ registered' \subseteq Id
<1>1. registered' \subseteq Id
  BY DEF Loop
<1>2. CASE Go(t, "asleep", frame[t])
  BY <1>1, <1>2, GoType DEF ServiceTypeOK, Label
<1>3. CASE SettleTimeout(t)
  <2> DEFINE approve == [frame[t] EXCEPT !.stamp = now, !.approved = TRUE,
                                         !.approver = TimeoutApprover]
             expire  == [frame[t] EXCEPT !.stamp = now]
  <2>0. frame[t] \in Frame /\ now \in Nat /\ TimeoutApprover \in Actor
    BY NowIsNat, Labels DEF ServiceTypeOK
  <2>1. approve \in Frame /\ expire \in Frame
    BY <2>0 DEF Frame
  <2>2. Go(t, "resolve", approve) \/ Go(t, "sweep", expire)
    BY <1>3 DEF SettleTimeout
  <2> HIDE DEF approve, expire
  <2> QED
    BY <1>1, <2>1, <2>2, GoType DEF Label
<1> QED
  BY <1>2, <1>3 DEF Loop

LEMMA GotType ==
  ASSUME ServiceTypeOK, NEW t \in Task, NEW row \in Row, Got(t, row)
  PROVE  pc' \in [Task -> Label] /\ frame' \in [Task -> Frame]
<1> DEFINE f == [frame[t] EXCEPT !.op = "dismiss", !.stamp = now,
                   !.approved = FALSE, !.approver = ClientApprover]
<1>0. frame[t] \in Frame /\ now \in Nat /\ ClientApprover \in Actor /\ "dismiss" \in Op
  BY NowIsNat, Labels DEF ServiceTypeOK
<1>1. f \in Frame
  BY <1>0 DEF Frame
<1>2. Go(t, "resolve", f) \/ Return(t, row)
  BY DEF Got
<1> HIDE DEF f
<1> QED
  BY <1>1, <1>2, GoType, ReturnType DEF Label

\* The state a task enters an action with, and the types that go with it.
LEMMA ArriveType ==
  ASSUME ServiceTypeOK, NEW t \in Task, Arrive(t)
  PROVE  ServiceTypeOK'
<1>0. /\ NoFrame \in Frame /\ now \in Nat /\ Human \subseteq Actor
      /\ {"block", "elicit", "retry", "view", "decide", "poll"} \subseteq Op
  BY FrameTypes, NowIsNat, Labels
<1>1. UNCHANGED <<now, rows, links, memory>>
  BY DEF Arrive, Park, Retry, View, Decide, Poll
<1>2. pc' \in [Task -> Label] /\ frame' \in [Task -> Frame]
  <2>1. CASE \E i \in Id, how \in {"block", "elicit"} : Park(t, i, how)
    <3>1. PICK i \in Id, how \in {"block", "elicit"} : Park(t, i, how)
      BY <2>1
    <3> DEFINE f == [NoFrame EXCEPT !.op = how, !.id = i, !.stamp = now]
    <3>2. f \in Frame
      BY <1>0 DEF Frame
    <3>3. Go(t, "create", f)
      BY <3>1 DEF Park, Begin
    <3> HIDE DEF f
    <3> QED
      BY <3>2, <3>3, GoType DEF Label
  <2>2. CASE \E i \in Id : Retry(t, i) \/ View(t, i)
    <3>1. PICK i \in Id : Retry(t, i) \/ View(t, i)
      BY <2>2
    <3> DEFINE f(op) == [NoFrame EXCEPT !.op = op, !.id = i]
    <3>2. f("retry") \in Frame /\ f("view") \in Frame
      BY <1>0 DEF Frame
    <3>3. Go(t, "get", f("retry")) \/ Go(t, "get", f("view"))
      BY <3>1 DEF Retry, View, Begin
    <3> HIDE DEF f
    <3> QED
      BY <3>2, <3>3, GoType DEF Label
  <2>3. CASE \E i \in Id, approved \in BOOLEAN, who \in Human : Decide(t, i, approved, who)
    <3>1. PICK i \in Id, approved \in BOOLEAN, who \in Human : Decide(t, i, approved, who)
      BY <2>3
    <3> DEFINE f == [NoFrame EXCEPT !.op = "decide", !.id = i, !.stamp = now,
                       !.approved = approved, !.approver = who]
    <3>2. f \in Frame
      BY <1>0 DEF Frame
    <3>3. Go(t, "resolve", f)
      BY <3>1 DEF Decide, Begin
    <3> HIDE DEF f
    <3> QED
      BY <3>2, <3>3, GoType DEF Label
  <2>4. CASE Poll(t)
    <3> DEFINE f == [NoFrame EXCEPT !.op = "poll", !.stamp = now]
    <3>1. f \in Frame
      BY <1>0 DEF Frame
    <3>2. Go(t, "sweep", f)
      BY <2>4 DEF Poll, Begin
    <3> HIDE DEF f
    <3> QED
      BY <3>1, <3>2, GoType DEF Label
  <2> QED
    BY <2>1, <2>2, <2>3, <2>4 DEF Arrive
<1> QED
  BY <1>1, <1>2 DEF ServiceTypeOK, memory

\* The invariant tells each step that the id it works on is a real one.
LEMMA ProceedType ==
  ASSUME ServiceTypeOK, NEW t \in Task, Proceed(t), IdInv(t), StepInv(t)
  PROVE  ServiceTypeOK'
<1> DEFINE f == frame[t]
           i == frame[t].id
<1>0. f \in Frame /\ now \in Nat /\ NoRow \in Row
  BY NowIsNat, RowTypes DEF ServiceTypeOK
<1>1. CASE Create(t)
  <2>1. i \in Id
    BY <1>1 DEF Create, IdInv, StepInv, Owner
  <2>2. PendingRow(f.stamp) \in Row
    BY <1>0, RowTypes, FrameFields
  <2>3. Return(t, PendingRow(f.stamp)) \/ Go(t, "firstGet", Spent(f))
    BY <1>1 DEF Create
  <2>4. pc' \in [Task -> Label] /\ frame' \in [Task -> Frame]
    BY <1>0, <2>2, <2>3, ReturnType, GoType, FrameTypes DEF Label
  <2> QED
    BY <1>1, <2>1, <2>2, <2>4 DEF Create, ServiceTypeOK
<1>2. CASE FirstGet(t)
  <2>1. i \in Id
    BY <1>2 DEF FirstGet, IdInv, StepInv
  <2>2. rows[i] \in Row /\ registered \cup {i} \in SUBSET Id
    BY <2>1 DEF ServiceTypeOK
  <2>3. \/ Return(t, rows[i]) /\ UNCHANGED memory
        \/ Loop(t, registered \cup {i})
    BY <1>2 DEF FirstGet
  <2>5. UNCHANGED memory \/ fired' \subseteq fired
    BY <1>2 DEF FirstGet
  <2>4. /\ pc' \in [Task -> Label] /\ frame' \in [Task -> Frame]
        /\ registered' \subseteq Id /\ fired' \subseteq Id
    BY <2>1, <2>2, <2>3, <2>5, ReturnType, LoopType DEF memory, ServiceTypeOK
  <2> QED
    BY <1>2, <2>4 DEF FirstGet, ServiceTypeOK
<1>3. CASE ReGet(t)
  <2>1. i \in Id
    BY <1>3 DEF ReGet, IdInv, StepInv
  <2>2. rows[i] \in Row /\ registered \in SUBSET Id
    BY <2>1 DEF ServiceTypeOK
  <2>3. (Return(t, rows[i]) /\ registered' \subseteq Id) \/ Loop(t, registered)
    BY <1>3 DEF ReGet, ServiceTypeOK
  <2>4. /\ pc' \in [Task -> Label] /\ frame' \in [Task -> Frame]
        /\ registered' \subseteq Id
    BY <2>1, <2>2, <2>3, ReturnType, LoopType
  <2> QED
    BY <1>3, <2>4 DEF ReGet, ServiceTypeOK
<1>4. CASE Get(t)
  <2>1. rows[i] \in Row
    BY <1>4 DEF Get, IdInv, StepInv, ServiceTypeOK
  <2>2. [f EXCEPT !.stamp = now] \in Frame
    BY <1>0 DEF Frame
  <2>3. Got(t, rows[i]) \/ Go(t, "sweep", [f EXCEPT !.stamp = now])
    BY <1>4 DEF Get
  <2>4. pc' \in [Task -> Label] /\ frame' \in [Task -> Frame]
    <3> HIDE DEF f
    <3> QED
      BY <2>1, <2>2, <2>3, GotType, GoType DEF Label
  <2> QED
    BY <1>4, <2>4 DEF Get, ServiceTypeOK, memory
<1>5. CASE Sweep(t)
  <2>1. rows' \in [Id -> Row]
    BY <1>0, <1>5, RowTypes, FrameFields DEF Sweep, ServiceTypeOK
  <2>2. Go(t, "list", f) \/ Go(t, "reread", Spent(f))
    BY <1>5 DEF Sweep
  <2>3. pc' \in [Task -> Label] /\ frame' \in [Task -> Frame]
    BY <1>0, <2>2, GoType, FrameTypes DEF Label
  <2> QED
    BY <1>5, <2>1, <2>3 DEF Sweep, ServiceTypeOK, memory
<1>6. CASE Reread(t)
  <2>1. rows[i] \in Row
    BY <1>6 DEF Reread, IdInv, StepInv, ServiceTypeOK
  <2>2. pc' \in [Task -> Label] /\ frame' \in [Task -> Frame]
    BY <1>6, <2>1, GotType DEF Reread
  <2> QED
    BY <1>6, <2>2 DEF Reread, ServiceTypeOK, memory
<1>7. CASE Resolve(t)
  <2>1. i \in Id /\ f.approver # None
    BY <1>7 DEF Resolve, IdInv, StepInv, EntitledRow, ResolvedRow, ServiceTypeOK, Row
  <2>2. ResolvedRow(rows[i], f.approved, f.approver, f.stamp) \in Row
    BY <1>0, <2>1, RowTypes, FrameFields DEF ServiceTypeOK
  <2>3. pc' \in [Task -> Label] /\ frame' \in [Task -> Frame]
    BY <1>7, <2>2, ReturnType DEF Resolve
  <2>4. registered' \subseteq Id /\ fired' \subseteq Id
    BY <1>7, <2>1 DEF Resolve, Signal, ServiceTypeOK, memory
  <2>5. rows' \in [Id -> Row]
    BY <1>7, <2>1, <2>2 DEF Resolve, ServiceTypeOK
  <2> QED
    BY <1>7, <2>3, <2>4, <2>5 DEF Resolve, ServiceTypeOK
<1>8. CASE List(t)
  <2> DEFINE g == [Spent(f) EXCEPT !.listed = {j \in Id : rows[j].status = "pending"}]
  <2>1. g \in Frame
    BY <1>0, FrameTypes DEF Frame
  <2>2. Go(t, "done", g)
    BY <1>8 DEF List
  <2> HIDE DEF g
  <2>3. pc' \in [Task -> Label] /\ frame' \in [Task -> Frame]
    BY <2>1, <2>2, GoType DEF Label
  <2> QED
    BY <1>8, <2>3 DEF List, ServiceTypeOK, memory
<1> QED
  BY <1>1, <1>2, <1>3, <1>4, <1>5, <1>6, <1>7, <1>8 DEF Proceed

LEMMA OtherType ==
  ASSUME ServiceTypeOK, \A t \in Task : IdInv(t)
  PROVE  /\ \A t \in Task : WakeOnEvent(t) \/ WakeOnTimer(t) \/ Finish(t) \/ Abandon(t)
                            => ServiceTypeOK'
         /\ Restart \/ Tick \/ UNCHANGED serviceVars => ServiceTypeOK'
<1>1. ASSUME NEW t \in Task, Wake(t) PROVE ServiceTypeOK'
  <2>1. frame[t] \in Frame
    BY DEF ServiceTypeOK
  <2> QED
    BY <1>1, <2>1, GoType DEF Wake, ServiceTypeOK, memory, Label
<1>2. ASSUME NEW t \in Task, Finish(t) PROVE ServiceTypeOK'
  <2>1. links' \subseteq Id
    BY <1>2 DEF Finish, ServiceTypeOK, IdInv
  <2> QED
    BY <1>2, <2>1, GoType, FrameTypes DEF Finish, ServiceTypeOK, memory, Label
<1>3. ASSUME NEW t \in Task, Abandon(t) PROVE ServiceTypeOK'
  BY <1>3, GoType, FrameTypes DEF Abandon, ServiceTypeOK, memory, Label
<1>4. Restart => ServiceTypeOK'
  BY FrameTypes DEF Restart, ServiceTypeOK, Label
<1>5. Tick => ServiceTypeOK'
  BY DEF Tick, ServiceTypeOK, memory
<1>6. UNCHANGED serviceVars => ServiceTypeOK'
  BY DEF serviceVars, ServiceTypeOK
<1> QED
  BY <1>1, <1>2, <1>3, <1>4, <1>5, <1>6 DEF WakeOnEvent, WakeOnTimer

-----------------------------------------------------------------------------
(* What an action may do to the other tasks *)

\* A row only moves on, and only its owner, creating it, makes it exist.
RowMoves(t, i) ==
  \/ rows'[i] = rows[i]
  \/ rows[i].status = "pending" /\ IsResolved(rows'[i]) /\ rows'[i].expires = rows[i].expires
  \/ rows[i].status = "absent" /\ Owner(t) /\ i = frame[t].id /\ rows'[i].status = "pending"

\* Who may take an event away, and what a decision does to it.
EventMoves(t, i) ==
  /\ i \in registered /\ i \notin registered' =>
       i = frame[t].id /\ (Owner(t) \/ frame[t].op = "dismiss")
  /\ i \in fired /\ i \in registered => i \in fired'
  /\ UiInProcess /\ rows'[i] # rows[i] /\ rows'[i].approver \in Human /\ i \in registered
       => i \in fired' \/ (Owner(t) /\ i = frame[t].id)

LinkMoves(t, i) ==
  /\ i \in links => i \in links'
  /\ i \in links' => i \in links \/ (Owner(t) /\ i = frame[t].id)

Undisturbing(t) == \A i \in Id : RowMoves(t, i) /\ EventMoves(t, i) /\ LinkMoves(t, i)

TaskInv(t) ==
  /\ IdInv(t)
  /\ StepInv(t)
  /\ AnsweredTruly(t)
  /\ UiInProcess /\ pc[t] = "asleep" /\ rows[frame[t].id].approver \in Human
       => frame[t].id \in fired

LEMMA IInvByTask ==
  IInv <=> ServiceTypeOK /\ OneOwner /\ RowsInv /\ \A t \in Task : TaskInv(t)
BY DEF IInv, TaskInv, NoLostWakeup

\* The other tasks never notice.
LEMMA Bystander ==
  ASSUME IInv, NEW t \in Task, NEW u \in Task \ {t},
         pc'[u] = pc[u], frame'[u] = frame[u], Undisturbing(t)
  PROVE  TaskInv(u)'
<1> DEFINE f == frame[u]
           i == frame[u].id
<1>1. IdInv(u) /\ StepInv(u) /\ AnsweredTruly(u) /\ IdInv(t)
  BY DEF IInv
<1>2. ASSUME i \in Id PROVE RowMoves(t, i) /\ EventMoves(t, i) /\ LinkMoves(t, i)
  BY <1>2 DEF Undisturbing
<1>3. Owner(t) /\ Owner(u) => frame[t].id # i
  BY DEF IInv, OneOwner
<1>4. IdInv(u)'
  BY <1>1, <1>2, <1>3 DEF IdInv, Owner, RowMoves, LinkMoves, IsResolved, Resolution, NoFrame
<1>5. StepInv(u)'
  <2>1. CASE pc[u] \in {"create", "firstGet", "asleep", "reGet", "get"}
    BY <1>1, <1>2, <1>3, <2>1
       DEF StepInv, IdInv, Owner, RowMoves, EventMoves, IsResolved, Resolution
  <2>2. CASE pc[u] \in {"sweep", "reread", "list"}
    BY <1>1, <1>2, <2>2 DEF StepInv, IdInv, RowMoves, IsResolved, Resolution
  <2>3. CASE pc[u] = "resolve"
    BY <1>1, <1>2, <2>3
       DEF StepInv, IdInv, RowMoves, IsResolved, Resolution, EntitledRow, ResolvedRow
  <2> QED
    BY <1>1, <2>1, <2>2, <2>3 DEF StepInv
<1>6. AnsweredTruly(u)'
  BY <1>1, <1>2 DEF AnsweredTruly, IdInv, RowMoves, Owner, IsResolved, Resolution, NoRow
<1>7. (UiInProcess /\ pc[u] = "asleep" /\ rows[frame[u].id].approver \in Human
         => frame[u].id \in fired)'
  BY <1>1, <1>2, <1>3 DEF IInv, NoLostWakeup, StepInv, IdInv, EventMoves, Owner
<1> QED
  BY <1>4, <1>5, <1>6, <1>7 DEF TaskInv

-----------------------------------------------------------------------------
(* The task that acts *)

LEMMA Moved ==
  ASSUME ServiceTypeOK, NEW t \in Task, NEW l, NEW f, Go(t, l, f)
  PROVE  /\ pc'[t] = l
         /\ frame'[t] = f
         /\ \A u \in Task \ {t} : pc'[u] = pc[u] /\ frame'[u] = frame[u]
BY DEF ServiceTypeOK, Go

\* t ends up owning what it owned before, or an id nobody works on.
Ownership(t) ==
  Owner(t)' => \/ Owner(t) /\ frame'[t].id = frame[t].id
               \/ \A u \in Task : frame[u].id # frame'[t].id

\* What is left to show of an action once Bystander is known.
LEMMA Assemble ==
  ASSUME IInv, ServiceTypeOK', NEW t \in Task, NEW l, NEW f, Go(t, l, f),
         Undisturbing(t), Ownership(t), RowsInv', TaskInv(t)'
  PROVE  IInv'
<1>1. \A u \in Task \ {t} : pc'[u] = pc[u] /\ frame'[u] = frame[u]
  BY Moved DEF IInv
<1>2. \A u \in Task : TaskInv(u)'
  BY <1>1, Bystander
<1>3. OneOwner'
  BY <1>1 DEF IInv, OneOwner, Owner, Ownership
<1>4. (ServiceTypeOK /\ OneOwner /\ RowsInv /\ \A u \in Task : TaskInv(u))'
  BY <1>2, <1>3
<1> QED
  BY <1>4 DEF IInv, TaskInv, NoLostWakeup

LEMMA StillTables ==
  ASSUME UNCHANGED <<rows, links, memory>>, NEW t \in Task
  PROVE  Undisturbing(t)
<1>1. rows' = rows /\ links' = links /\ registered' = registered /\ fired' = fired
  BY DEF memory
<1>2. ASSUME NEW i \in Id PROVE RowMoves(t, i)
  BY <1>1 DEF RowMoves
<1>3. ASSUME NEW i \in Id PROVE EventMoves(t, i)
  BY <1>1 DEF EventMoves
<1>4. ASSUME NEW i \in Id PROVE LinkMoves(t, i)
  BY <1>1 DEF LinkMoves
<1> QED
  BY <1>2, <1>3, <1>4 DEF Undisturbing

LEMMA CreateInv ==
  ASSUME IInv, ServiceTypeOK', NEW t \in Task, Create(t)
  PROVE  IInv'
<1> DEFINE f == frame[t]
           i == frame[t].id
           row == PendingRow(f.stamp)
<1>1. /\ Owner(t) /\ i \in Id /\ i \notin links /\ rows[i].status = "absent"
      /\ f \in Frame /\ rows \in [Id -> Row] /\ f.stamp \in Nat /\ i # None
  BY FrameFields DEF IInv, ServiceTypeOK, IdInv, StepInv, Create
<1>2. rows' = [rows EXCEPT ![i] = row] /\ links' = links /\ fired' = fired
        /\ registered' = registered \cup {i}
  BY DEF Create
<1>3. row.status = "pending" /\ row.approver = None /\ ~IsResolved(row)
  BY DEF PendingRow, IsResolved, Resolution
<1>4. /\ rows'[i] = row
      /\ \A j \in Id : j # i => rows'[j] = rows[j]
  BY <1>1, <1>2
<1>5. Undisturbing(t)
  BY <1>1, <1>2, <1>3, <1>4 DEF Undisturbing, RowMoves, EventMoves, LinkMoves
<1>6. RowsInv'
  BY <1>3, <1>4 DEF IInv, RowsInv, EntitledRow
<1>7. PICK l, g : Go(t, l, g) /\ g.op = f.op /\ g.id = i
                   /\ \/ l = "done" /\ f.op = "elicit" /\ g.ret = row
                      \/ l = "firstGet" /\ f.op = "block"
  <2>1. CASE f.op = "elicit" /\ Return(t, row)
    <3> DEFINE g == [Spent(f) EXCEPT !.ret = row]
    <3>1. g.op = f.op /\ g.id = i /\ g.ret = row
      BY <1>1 DEF Spent, Frame
    <3>2. Go(t, "done", g)
      BY <2>1 DEF Return
    <3> QED
      BY <2>1, <3>1, <3>2
  <2>2. CASE f.op = "block" /\ Go(t, "firstGet", Spent(f))
    <3>1. Spent(f).op = f.op /\ Spent(f).id = i
      BY <1>1 DEF Spent, Frame
    <3> QED
      BY <2>2, <3>1
  <2> QED
    BY <2>1, <2>2 DEF Create
<1>8. pc'[t] = l /\ frame'[t] = g
  BY <1>7, Moved DEF IInv
<1>9. Ownership(t)
  BY <1>1, <1>7, <1>8 DEF Ownership, Owner
<1>10. TaskInv(t)'
  BY <1>1, <1>2, <1>3, <1>4, <1>7, <1>8
     DEF TaskInv, IdInv, StepInv, AnsweredTruly, Owner
<1> QED
  BY <1>5, <1>6, <1>7, <1>9, <1>10, Assemble

\* A step that leaves the table alone and keeps the task's business.
LEMMA StillRows ==
  ASSUME IInv, UNCHANGED rows
  PROVE  RowsInv'
BY DEF IInv, RowsInv

\* Going back to sleep, or giving up at the deadline.
LEMMA LoopInv ==
  ASSUME IInv, NEW t \in Task, frame[t].op = "block", frame[t].id \in Id,
         rows[frame[t].id].status = "pending", frame[t].id \notin links,
         NEW keys, frame[t].id \in keys, Loop(t, keys),
         UNCHANGED <<now, rows, links>>
  PROVE  TaskInv(t)' /\ Ownership(t) /\ \E l, f : Go(t, l, f)
<1> DEFINE f == frame[t]
           i == frame[t].id
<1>1. /\ f \in Frame /\ rows[i] \in Row /\ now \in Nat /\ i # None
      /\ rows[i].approver = None /\ rows[i].expires \in Nat
  <2>1. f \in Frame /\ rows[i] \in Row /\ now \in Nat /\ i # None
    BY NowIsNat DEF IInv, ServiceTypeOK
  <2>2. rows[i].expires \in Nat
    BY <2>1 DEF Row
  <2>3. rows[i].approver = None
    <3>1. ~IsResolved(rows[i])
      BY DEF IsResolved, Resolution
    <3> QED
      BY <3>1 DEF IInv, RowsInv
  <2> QED
    BY <2>1, <2>2, <2>3
<1>2. CASE Go(t, "asleep", f) /\ registered' = keys
  <2>1. pc'[t] = "asleep" /\ frame'[t] = f
    BY <1>2, Moved DEF IInv
  <2> QED
    BY <1>1, <1>2, <2>1
       DEF TaskInv, IdInv, StepInv, AnsweredTruly, Ownership, Owner
<1>3. CASE now >= rows[i].expires /\ SettleTimeout(t)
  <2>1. CASE ApproveOnTimeout
    <3> DEFINE g == [f EXCEPT !.stamp = now, !.approved = TRUE, !.approver = TimeoutApprover]
    <3>1. Go(t, "resolve", g)
      BY <1>3, <2>1 DEF SettleTimeout
    <3>2. /\ g.op = "block" /\ g.id = i /\ g.stamp = now /\ g.approved
          /\ g.approver = TimeoutApprover
      BY <1>1 DEF Frame
    <3>3. pc'[t] = "resolve" /\ frame'[t] = g
      BY <3>1, Moved DEF IInv
    <3>4. EntitledRow(ResolvedRow([rows[i] EXCEPT !.status = "pending"],
                                   g.approved, g.approver, g.stamp))
      BY <1>1, <1>3, <2>1, <3>2 DEF EntitledRow, ResolvedRow, Row
    <3> HIDE DEF g
    <3> QED
      BY <1>1, <3>1, <3>2, <3>3, <3>4
         DEF TaskInv, IdInv, StepInv, AnsweredTruly, Ownership, Owner
  <2>2. CASE ~ApproveOnTimeout
    <3> DEFINE g == [f EXCEPT !.stamp = now]
    <3>1. Go(t, "sweep", g)
      BY <1>3, <2>2 DEF SettleTimeout
    <3>2. g.op = "block" /\ g.id = i /\ g.stamp = now
      BY <1>1 DEF Frame
    <3>3. pc'[t] = "sweep" /\ frame'[t] = g
      BY <3>1, Moved DEF IInv
    <3> HIDE DEF g
    <3> QED
      BY <1>1, <1>3, <3>1, <3>2, <3>3
         DEF TaskInv, IdInv, StepInv, AnsweredTruly, Ownership, Owner
  <2> QED
    BY <2>1, <2>2
<1> QED
  BY <1>2, <1>3 DEF Loop

\* Answering with the row the table holds.
LEMMA ReturnInv ==
  ASSUME IInv, NEW t \in Task, frame[t].op # "poll", frame[t].op # "none", frame[t].id \in Id,
         NEW row \in Row, Return(t, row), rows' = [rows EXCEPT ![frame[t].id] = row],
         links' = links,
         frame[t].op \in {"block", "dismiss", "decide"} => IsResolved(row),
         frame[t].op = "retry" => IsResolved(row) \/ row.status = "absent",
         frame[t].op \in {"view", "decide", "dismiss"} => row.status # "absent"
  PROVE  TaskInv(t)' /\ Ownership(t) /\ \E l, f : Go(t, l, f)
<1> DEFINE f == [Spent(frame[t]) EXCEPT !.ret = row]
<1>1. frame[t] \in Frame /\ IdInv(t) /\ rows'[frame[t].id] = row /\ frame[t].id # None
  BY DEF IInv, ServiceTypeOK
<1>2. f.op = frame[t].op /\ f.id = frame[t].id /\ f.ret = row
  BY <1>1 DEF Spent, Frame
<1>3. Go(t, "done", f)
  BY DEF Return
<1>4. pc'[t] = "done" /\ frame'[t] = f
  BY <1>3, Moved DEF IInv
<1> HIDE DEF f
<1> QED
  BY <1>1, <1>2, <1>3, <1>4
     DEF TaskInv, IdInv, StepInv, AnsweredTruly, Ownership, Owner

LEMMA FirstGetInv ==
  ASSUME IInv, ServiceTypeOK', NEW t \in Task, FirstGet(t)
  PROVE  IInv'
<1> DEFINE i == frame[t].id
<1>1. /\ frame[t].op = "block" /\ Owner(t) /\ i \in Id /\ i \notin links
      /\ rows[i].status # "absent" /\ rows[i] \in Row /\ rows \in [Id -> Row]
  BY DEF IInv, IdInv, StepInv, Owner, FirstGet, ServiceTypeOK
<1>2. rows' = rows /\ links' = links /\ now' = now
  BY DEF FirstGet
<1>3. RowsInv'
  BY <1>2, StillRows
<1>4. CASE IsResolved(rows[i]) /\ Return(t, rows[i]) /\ UNCHANGED memory
  <2>1. Undisturbing(t)
    BY <1>2, <1>4, StillTables
  <2>2. TaskInv(t)' /\ Ownership(t) /\ \E l, f : Go(t, l, f)
    BY <1>1, <1>2, <1>4, ReturnInv
  <2> QED
    BY <1>3, <2>1, <2>2, Assemble
<1>5. CASE /\ ~IsResolved(rows[i])
           /\ Loop(t, registered \cup {i})
           /\ fired' = IF i \in registered THEN fired ELSE fired \ {i}
  <2>1. rows[i].status = "pending"
    BY <1>1, <1>5 DEF IsResolved, Row, Resolution
  <2>2. \A j \in registered : j \in registered' \/ j = i
    BY <1>5 DEF Loop
  <2>3. Undisturbing(t)
    BY <1>1, <1>2, <1>5, <2>2 DEF Undisturbing, RowMoves, EventMoves, LinkMoves
  <2>4. TaskInv(t)' /\ Ownership(t) /\ \E l, f : Go(t, l, f)
    BY <1>1, <1>2, <1>5, <2>1, LoopInv
  <2> QED
    BY <1>3, <2>3, <2>4, Assemble
<1> QED
  BY <1>4, <1>5 DEF FirstGet

LEMMA ReGetInv ==
  ASSUME IInv, ServiceTypeOK', NEW t \in Task, ReGet(t)
  PROVE  IInv'
<1> DEFINE i == frame[t].id
<1>1. /\ frame[t].op = "block" /\ Owner(t) /\ i \in Id /\ i \notin links /\ i \in registered
      /\ rows[i].status # "absent" /\ rows[i] \in Row /\ rows \in [Id -> Row]
  BY DEF IInv, IdInv, StepInv, Owner, ReGet, ServiceTypeOK
<1>2. rows' = rows /\ links' = links /\ now' = now /\ fired' = fired
  BY DEF ReGet
<1>3. RowsInv'
  BY <1>2, StillRows
<1>4. \A j \in registered : j \in registered' \/ j = i
  BY DEF ReGet, Loop
<1>5. Undisturbing(t)
  BY <1>1, <1>2, <1>4 DEF Undisturbing, RowMoves, EventMoves, LinkMoves
<1>6. TaskInv(t)' /\ Ownership(t) /\ \E l, f : Go(t, l, f)
  <2>1. CASE IsResolved(rows[i]) /\ Return(t, rows[i])
    BY <1>1, <1>2, <2>1, ReturnInv
  <2>2. CASE ~IsResolved(rows[i]) /\ Loop(t, registered)
    <3>1. rows[i].status = "pending"
      BY <1>1, <2>2 DEF IsResolved, Row, Resolution
    <3> QED
      BY <1>1, <1>2, <2>2, <3>1, LoopInv
  <2> QED
    BY <2>1, <2>2 DEF ReGet
<1> QED
  BY <1>3, <1>5, <1>6, Assemble

\* A row that has been read: answered, or dismissed if it is still open.
LEMMA GotInv ==
  ASSUME IInv, NEW t \in Task, frame[t].id \in Id,
         \/ frame[t].op \in {"retry", "view"}
         \/ frame[t].op = "block" /\ IsResolved(rows[frame[t].id]),
         Got(t, rows[frame[t].id]), UNCHANGED <<rows, links>>
  PROVE  TaskInv(t)' /\ Ownership(t) /\ \E l, f : Go(t, l, f)
<1> DEFINE i == frame[t].id
<1>1. /\ rows[i] \in Row /\ rows' = [rows EXCEPT ![i] = rows[i]] /\ links' = links
      /\ frame[t] \in Frame /\ i # None /\ IdInv(t)
  BY DEF IInv, ServiceTypeOK
<1>2. frame[t].op = "view" => rows[i].status # "absent"
  BY <1>1 DEF IdInv
<1>3. CASE ~(frame[t].op = "retry" /\ rows[i].status = "pending") /\ Return(t, rows[i])
  <2>1. frame[t].op = "retry" => IsResolved(rows[i]) \/ rows[i].status = "absent"
    BY <1>1, <1>3 DEF IsResolved, Row, Resolution
  <2> QED
    BY <1>1, <1>2, <1>3, <2>1, ReturnInv
<1>4. CASE frame[t].op = "retry" /\ rows[i].status = "pending"
  <2> DEFINE g == [frame[t] EXCEPT !.op = "dismiss", !.stamp = now,
                     !.approved = FALSE, !.approver = ClientApprover]
  <2>1. Go(t, "resolve", g)
    BY <1>4 DEF Got
  <2>2. g.op = "dismiss" /\ g.id = i /\ ~g.approved /\ g.approver = ClientApprover
    BY <1>1 DEF Frame
  <2>3. pc'[t] = "resolve" /\ frame'[t] = g
    BY <2>1, Moved DEF IInv
  <2>4. EntitledRow(ResolvedRow([rows[i] EXCEPT !.status = "pending"],
                                 g.approved, g.approver, g.stamp))
    BY <1>1, <2>2 DEF EntitledRow, ResolvedRow, Row
  <2> HIDE DEF g
  <2> QED
    BY <1>1, <1>4, <2>1, <2>2, <2>3, <2>4
       DEF TaskInv, IdInv, StepInv, AnsweredTruly, Ownership, Owner
<1> QED
  BY <1>3, <1>4 DEF Got

LEMMA GetInv ==
  ASSUME IInv, ServiceTypeOK', NEW t \in Task, Get(t)
  PROVE  IInv'
<1> DEFINE f == frame[t]
           i == frame[t].id
<1>1. /\ f.op \in {"retry", "view"} /\ i \in Id /\ f \in Frame /\ rows[i] \in Row
      /\ i # None /\ IdInv(t) /\ rows' = rows /\ links' = links /\ now \in Nat
  BY NowIsNat DEF IInv, IdInv, StepInv, Get, ServiceTypeOK
<1>2. Undisturbing(t)
  BY StillTables DEF Get
<1>3. RowsInv'
  BY <1>1, StillRows
<1>4. TaskInv(t)' /\ Ownership(t) /\ \E l, g : Go(t, l, g)
  <2>1. CASE Got(t, rows[i])
    BY <1>1, <2>1, GotInv
  <2>2. CASE IsExpiredAt(rows[i], now)
    <3> DEFINE g == [f EXCEPT !.stamp = now]
    <3>1. Go(t, "sweep", g)
      BY <2>2 DEF Get
    <3>2. g.op = f.op /\ g.id = i /\ g.stamp = now
      BY <1>1 DEF Frame
    <3>3. pc'[t] = "sweep" /\ frame'[t] = g
      BY <3>1, Moved DEF IInv
    <3>4. rows[i].status # "absent" /\ now >= rows[i].expires
      BY <2>2 DEF IsExpiredAt
    <3> HIDE DEF g
    <3> QED
      BY <1>1, <3>1, <3>2, <3>3, <3>4
         DEF TaskInv, IdInv, StepInv, AnsweredTruly, Ownership, Owner
  <2> QED
    BY <2>1, <2>2 DEF Get
<1> QED
  BY <1>2, <1>3, <1>4, Assemble

LEMMA RereadInv ==
  ASSUME IInv, ServiceTypeOK', NEW t \in Task, Reread(t)
  PROVE  IInv'
<1> DEFINE i == frame[t].id
<1>1. /\ frame[t].op \in {"block", "retry", "view"} /\ i \in Id /\ IsResolved(rows[i])
      /\ UNCHANGED <<rows, links>>
  BY DEF IInv, IdInv, StepInv, Reread
<1>2. Undisturbing(t)
  BY StillTables DEF Reread
<1>3. TaskInv(t)' /\ Ownership(t) /\ \E l, f : Go(t, l, f)
  BY <1>1, GotInv DEF Reread
<1> QED
  BY <1>1, <1>2, <1>3, StillRows, Assemble

\* expire_overdue() settles overdue rows and leaves the rest alone.
LEMMA SweptRow ==
  ASSUME NEW row \in Row, NEW moment \in Nat
  PROVE  LET new == ExpiredRow(row, moment) IN
         /\ \/ new = row
            \/ /\ row.status = "pending" /\ IsResolved(new)
               /\ new.expires = row.expires /\ new.approver = TimeoutApprover
               /\ EntitledRow(new)
         /\ row.status # "absent" /\ moment >= row.expires => IsResolved(new)
BY DEF ExpiredRow, Row, IsResolved, Resolution, EntitledRow

LEMMA SweepInv ==
  ASSUME IInv, ServiceTypeOK', NEW t \in Task, Sweep(t)
  PROVE  IInv'
<1> DEFINE f == frame[t]
           new(i) == ExpiredRow(rows[i], f.stamp)
<1>1. f \in Frame /\ f.stamp \in Nat /\ IdInv(t) /\ StepInv(t) /\ rows \in [Id -> Row]
  BY FrameFields DEF IInv, ServiceTypeOK
<1>2. \A i \in Id : rows'[i] = new(i) /\ rows[i] \in Row
  BY <1>1 DEF Sweep
<1>3. \A i \in Id :
        /\ \/ rows'[i] = rows[i]
           \/ /\ rows[i].status = "pending" /\ IsResolved(rows'[i])
              /\ rows'[i].expires = rows[i].expires /\ rows'[i].approver = TimeoutApprover
              /\ EntitledRow(rows'[i])
        /\ rows[i].status # "absent" /\ f.stamp >= rows[i].expires => IsResolved(rows'[i])
  BY <1>1, <1>2, SweptRow
<1>4. links' = links /\ registered' = registered /\ fired' = fired
  BY DEF Sweep, memory
<1>5. Undisturbing(t)
  BY <1>3, <1>4 DEF Undisturbing, RowMoves, EventMoves, LinkMoves
<1>6. RowsInv'
  BY <1>3 DEF IInv, RowsInv
<1>7. TaskInv(t)' /\ Ownership(t) /\ \E l, g : Go(t, l, g)
  <2>1. CASE f.op = "poll" /\ Go(t, "list", f)
    <3>1. pc'[t] = "list" /\ frame'[t] = f
      BY <2>1, Moved DEF IInv
    <3> QED
      BY <1>1, <2>1, <3>1
         DEF TaskInv, IdInv, StepInv, AnsweredTruly, Ownership, Owner
  <2>2. CASE f.op # "poll" /\ Go(t, "reread", Spent(f))
    <3>1. Spent(f).op = f.op /\ Spent(f).id = f.id
      BY <1>1 DEF Spent, Frame
    <3>2. pc'[t] = "reread" /\ frame'[t] = Spent(f)
      BY <2>2, Moved DEF IInv
    <3>3. f.id \in Id /\ f.op \in {"block", "retry", "view"} /\ IsResolved(rows'[f.id])
      BY <1>1, <1>3, <2>2 DEF Sweep, IdInv, StepInv
    <3>4. rows'[f.id].status # "absent"
      BY <3>3 DEF IsResolved, Resolution
    <3> QED
      BY <1>1, <1>4, <2>2, <3>1, <3>2, <3>3, <3>4
         DEF TaskInv, IdInv, StepInv, AnsweredTruly, Ownership, Owner, NoFrame
  <2> QED
    BY <2>1, <2>2 DEF Sweep
<1> QED
  BY <1>5, <1>6, <1>7, Assemble

LEMMA ListInv ==
  ASSUME IInv, ServiceTypeOK', NEW t \in Task, List(t)
  PROVE  IInv'
<1> DEFINE f == frame[t]
           g == [Spent(f) EXCEPT !.listed = {i \in Id : rows[i].status = "pending"}]
<1>1. f \in Frame /\ f.op = "poll" /\ f.id = None /\ f.ret = NoRow
  BY DEF List, IInv, ServiceTypeOK, IdInv, StepInv
<1>2. UNCHANGED <<rows, links, memory>> /\ Go(t, "done", g)
  BY DEF List
<1>3. Undisturbing(t) /\ RowsInv'
  BY <1>2, StillTables, StillRows
<1>4. g.op = "poll" /\ g.id = None /\ g.ret = NoRow
  BY <1>1 DEF Spent, Frame
<1>5. pc'[t] = "done" /\ frame'[t] = g
  BY <1>2, Moved DEF IInv
<1>6. ~IsResolved(NoRow)
  BY DEF NoRow, IsResolved, Resolution
<1> HIDE DEF g
<1>7. TaskInv(t)' /\ Ownership(t)
  BY <1>4, <1>5, <1>6
     DEF TaskInv, IdInv, StepInv, AnsweredTruly, Ownership, Owner
<1> QED
  BY <1>2, <1>3, <1>7, Assemble

\* resolve() against a row that exists: the row is settled afterwards, by this
\* decision if it was still open and by the earlier one if not.
LEMMA ResolvedRowFacts ==
  ASSUME NEW row \in Row, row.status # "absent", NEW approved \in BOOLEAN,
         NEW who \in Actor, NEW n \in Nat
  PROVE  LET new == ResolvedRow(row, approved, who, n) IN
         /\ IsResolved(new)
         /\ \/ new = row
            \/ /\ row.status = "pending"
               /\ new.expires = row.expires
               /\ new = ResolvedRow([row EXCEPT !.status = "pending"], approved, who, n)
<1>1. row.status = "pending" => row = [row EXCEPT !.status = "pending"]
  BY DEF Row
<1> QED
  BY <1>1 DEF ResolvedRow, Row, IsResolved, Resolution

LEMMA ResolveInv ==
  ASSUME IInv, ServiceTypeOK', NEW t \in Task, Resolve(t)
  PROVE  IInv'
<1> DEFINE f == frame[t]
           i == frame[t].id
           row == ResolvedRow(rows[i], f.approved, f.approver, f.stamp)
<1>1. /\ f \in Frame /\ i \in Id /\ rows \in [Id -> Row] /\ rows[i] \in Row /\ IdInv(t)
      /\ f.op \in {"block", "dismiss", "decide"} /\ rows[i].status # "absent"
  BY DEF IInv, ServiceTypeOK, IdInv, StepInv, Resolve
<1>2. EntitledRow(ResolvedRow([rows[i] EXCEPT !.status = "pending"],
                               f.approved, f.approver, f.stamp))
  BY DEF IInv, StepInv, Resolve
<1>3. f.approved \in BOOLEAN /\ f.stamp \in Nat /\ f.approver \in Actor
  <2>1. f.approver # None
    BY <1>1, <1>2 DEF EntitledRow, ResolvedRow, Row
  <2> QED
    BY <1>1, <2>1, FrameFields
<1>4. /\ IsResolved(row)
      /\ \/ row = rows[i]
         \/ rows[i].status = "pending" /\ row.expires = rows[i].expires /\ EntitledRow(row)
  BY <1>1, <1>2, <1>3, ResolvedRowFacts
<1>5. row \in Row
  BY <1>1, <1>3, RowTypes
<1>6. rows' = [rows EXCEPT ![i] = row] /\ links' = links /\ Return(t, row) /\ Signal(f.op, i)
  BY DEF Resolve
<1> HIDE DEF row
<1>7. rows'[i] = row /\ \A j \in Id : j # i => rows'[j] = rows[j]
  BY <1>1, <1>6
<1>8. RowsInv'
  BY <1>4, <1>7 DEF IInv, RowsInv
<1>9. Undisturbing(t)
  <2>1. \A j \in Id : RowMoves(t, j) /\ LinkMoves(t, j)
    BY <1>4, <1>6, <1>7 DEF RowMoves, LinkMoves
  <2>2. \A j \in Id : EventMoves(t, j)
    <3>1. CASE f.op = "decide"
      BY <1>6, <1>7, <3>1 DEF EventMoves, Signal
    <3>2. CASE f.op = "dismiss"
      BY <1>6, <1>7, <3>2 DEF EventMoves, Signal
    <3>3. CASE f.op = "block"
      <4>1. Owner(t) /\ registered' = registered /\ fired' = fired
        BY <1>6, <3>3 DEF Owner, Signal, memory
      <4> QED
        BY <1>7, <4>1 DEF EventMoves
    <3> QED
      BY <1>1, <3>1, <3>2, <3>3
  <2> QED
    BY <2>1, <2>2 DEF Undisturbing
<1>10. TaskInv(t)' /\ Ownership(t) /\ \E l, g : Go(t, l, g)
  <2>1. f.op \in {"view", "decide", "dismiss"} => row.status # "absent"
    BY <1>4 DEF IsResolved, Resolution
  <2> QED
    BY <1>1, <1>4, <1>5, <1>6, <2>1, ReturnInv
<1> QED
  BY <1>8, <1>9, <1>10, Assemble

LEMMA ArriveInv ==
  ASSUME IInv, ServiceTypeOK', NEW t \in Task, Arrive(t)
  PROVE  IInv'
<1>1. UNCHANGED <<now, rows, links, memory>>
  BY DEF Arrive, Park, Retry, View, Decide, Poll
<1>2. Undisturbing(t) /\ RowsInv'
  BY <1>1, StillTables, StillRows
<1>3. now \in Nat /\ rows \in [Id -> Row]
  BY NowIsNat DEF IInv, ServiceTypeOK
<1>4. TaskInv(t)' /\ Ownership(t) /\ \E l, g : Go(t, l, g)
  <2>1. CASE \E i \in Id, how \in {"block", "elicit"} : Park(t, i, how)
    <3>1. PICK i \in Id, how \in {"block", "elicit"} : Park(t, i, how)
      BY <2>1
    <3> DEFINE g == [NoFrame EXCEPT !.op = how, !.id = i, !.stamp = now]
    <3>2. Go(t, "create", g) /\ rows[i].status = "absent" /\ i \notin links
            /\ \A u \in Task : frame[u].id # i
      BY <3>1 DEF Park, Begin, Fresh
    <3>3. g.op = how /\ g.id = i
      BY DEF NoFrame
    <3>4. pc'[t] = "create" /\ frame'[t] = g
      BY <3>2, Moved DEF IInv
    <3> HIDE DEF g
    <3> QED
      BY <1>1, <3>2, <3>3, <3>4
         DEF TaskInv, IdInv, StepInv, AnsweredTruly, Ownership, Owner
  <2>2. CASE \E i \in Id : Retry(t, i) \/ View(t, i)
    <3>1. PICK i \in Id : Retry(t, i) \/ View(t, i)
      BY <2>2
    <3>2. PICK op \in {"retry", "view"} :
            /\ Go(t, "get", [NoFrame EXCEPT !.op = op, !.id = i])
            /\ op = "retry" => i \in links
            /\ op = "view" => rows[i].status # "absent"
      BY <3>1 DEF Retry, View, Begin
    <3> DEFINE g == [NoFrame EXCEPT !.op = op, !.id = i]
    <3>3. g.op = op /\ g.id = i
      BY DEF NoFrame
    <3>4. pc'[t] = "get" /\ frame'[t] = g
      BY <3>2, Moved DEF IInv
    <3>5. Go(t, "get", g)
      BY <3>2
    <3> HIDE DEF g
    <3> QED
      BY <1>1, <3>2, <3>3, <3>4, <3>5
         DEF TaskInv, IdInv, StepInv, AnsweredTruly, Ownership, Owner
  <2>3. CASE \E i \in Id, approved \in BOOLEAN, who \in Human : Decide(t, i, approved, who)
    <3>1. PICK i \in Id, approved \in BOOLEAN, who \in Human : Decide(t, i, approved, who)
      BY <2>3
    <3> DEFINE g == [NoFrame EXCEPT !.op = "decide", !.id = i, !.stamp = now,
                       !.approved = approved, !.approver = who]
    <3>2. Go(t, "resolve", g) /\ rows[i].status # "absent"
      BY <3>1 DEF Decide, Begin
    <3>3. g.op = "decide" /\ g.id = i /\ g.approver = who /\ g.approved = approved
      BY DEF NoFrame
    <3>4. pc'[t] = "resolve" /\ frame'[t] = g
      BY <3>2, Moved DEF IInv
    <3>5. EntitledRow(ResolvedRow([rows[i] EXCEPT !.status = "pending"],
                                   g.approved, g.approver, g.stamp))
      BY <1>3, <3>3 DEF EntitledRow, ResolvedRow, Row
    <3> HIDE DEF g
    <3> QED
      BY <1>1, <3>2, <3>3, <3>4, <3>5
         DEF TaskInv, IdInv, StepInv, AnsweredTruly, Ownership, Owner
  <2>4. CASE Poll(t)
    <3> DEFINE g == [NoFrame EXCEPT !.op = "poll", !.stamp = now]
    <3>1. Go(t, "sweep", g)
      BY <2>4 DEF Poll, Begin
    <3>2. g.op = "poll" /\ g.id = None /\ g.ret = NoRow
      BY DEF NoFrame
    <3>3. pc'[t] = "sweep" /\ frame'[t] = g
      BY <3>1, Moved DEF IInv
    <3> HIDE DEF g
    <3> QED
      BY <3>1, <3>2, <3>3
         DEF TaskInv, IdInv, StepInv, AnsweredTruly, Ownership, Owner
  <2> QED
    BY <2>1, <2>2, <2>3, <2>4 DEF Arrive
<1> QED
  BY <1>2, <1>4, Assemble

LEMMA WakeInv ==
  ASSUME IInv, ServiceTypeOK', NEW t \in Task, Wake(t)
  PROVE  IInv'
<1>1. Go(t, "reGet", frame[t]) /\ UNCHANGED <<now, rows, links, memory>> /\ pc[t] = "asleep"
  BY DEF Wake
<1>2. Undisturbing(t) /\ RowsInv'
  BY <1>1, StillTables, StillRows
<1>3. pc'[t] = "reGet" /\ frame'[t] = frame[t]
  BY <1>1, Moved DEF IInv
<1>4. IdInv(t) /\ StepInv(t) /\ registered' = registered /\ rows' = rows /\ links' = links
  BY <1>1 DEF IInv, memory
<1>5. TaskInv(t)' /\ Ownership(t)
  BY <1>1, <1>3, <1>4 DEF TaskInv, IdInv, StepInv, AnsweredTruly, Ownership, Owner
<1> QED
  BY <1>1, <1>2, <1>5, Assemble

\* A task that goes idle keeps nothing.
LEMMA IdleTask ==
  ASSUME NEW t \in Task, pc'[t] = "idle", frame'[t] = NoFrame
  PROVE  TaskInv(t)' /\ Ownership(t)
<1>1. NoFrame.op = "none"
  BY DEF NoFrame
<1> QED
  BY <1>1 DEF TaskInv, IdInv, StepInv, AnsweredTruly, Ownership, Owner

LEMMA FinishInv ==
  ASSUME IInv, ServiceTypeOK', NEW t \in Task, Finish(t) \/ Abandon(t)
  PROVE  IInv'
<1>1. Go(t, "idle", NoFrame) /\ UNCHANGED rows /\ UNCHANGED memory
  BY DEF Finish, Abandon, memory
<1>2. TaskInv(t)' /\ Ownership(t)
  BY <1>1, Moved, IdleTask DEF IInv
<1>3. \A i \in Id : LinkMoves(t, i)
  BY DEF LinkMoves, Finish, Abandon, Owner
<1>4. Undisturbing(t)
  BY <1>1, <1>3 DEF Undisturbing, RowMoves, EventMoves, memory
<1> QED
  BY <1>1, <1>2, <1>4, StillRows, Assemble

LEMMA RestartInv ==
  ASSUME IInv, ServiceTypeOK', Restart
  PROVE  IInv'
<1>1. \A t \in Task : pc'[t] = "idle" /\ frame'[t] = NoFrame
  BY DEF Restart
<1>2. ASSUME NEW t \in Task PROVE TaskInv(t)' /\ ~Owner(t)'
  <2>1. pc'[t] = "idle" /\ frame'[t] = NoFrame
    BY <1>1
  <2>2. ~Owner(t)'
    BY <2>1 DEF Owner, NoFrame
  <2> QED
    BY <2>1, <2>2, IdleTask
<1>3. RowsInv'
  BY StillRows DEF Restart
<1> QED
  BY <1>2, <1>3 DEF IInv, OneOwner, TaskInv, NoLostWakeup

LEMMA TickInv ==
  ASSUME IInv, ServiceTypeOK', UNCHANGED <<rows, links, memory, pc, frame>>
  PROVE  IInv'
<1>1. UNCHANGED <<rows, links, registered, fired, pc, frame>>
  BY DEF memory
<1> QED
  BY <1>1 DEF IInv, OneOwner, Owner, RowsInv, IdInv, StepInv, AnsweredTruly, NoLostWakeup

-----------------------------------------------------------------------------
(* The invariant *)

LEMMA InitInv == ServiceInit => IInv
<1> SUFFICES ASSUME ServiceInit PROVE IInv
  OBVIOUS
<1>1. ServiceTypeOK
  BY RowTypes, FrameTypes DEF ServiceInit, ServiceTypeOK, Label
<1>2. OneOwner
  BY DEF ServiceInit, OneOwner, Owner, NoFrame
<1>3. RowsInv
  BY DEF ServiceInit, RowsInv, EntitledRow, NoRow
<1>4. ASSUME NEW t \in Task PROVE IdInv(t) /\ StepInv(t) /\ AnsweredTruly(t)
  BY DEF ServiceInit, IdInv, StepInv, AnsweredTruly, Owner, NoFrame
<1>5. NoLostWakeup
  BY DEF ServiceInit, NoLostWakeup
<1> QED
  BY <1>1, <1>2, <1>3, <1>4, <1>5 DEF IInv

LEMMA NextInv == IInv /\ [Next]_serviceVars => IInv'
<1> SUFFICES ASSUME IInv, [Next]_serviceVars PROVE IInv'
  OBVIOUS
<1>1. ServiceTypeOK /\ \A t \in Task : IdInv(t) /\ StepInv(t)
  BY DEF IInv
<1>2. ASSUME NEW t \in Task, Arrive(t) PROVE IInv'
  BY <1>1, <1>2, ArriveType, ArriveInv
<1>3. ASSUME NEW t \in Task, Proceed(t) PROVE IInv'
  <2>1. ServiceTypeOK'
    BY <1>1, <1>3, ProceedType
  <2> QED
    BY <1>3, <2>1, CreateInv, FirstGetInv, ReGetInv, GetInv, SweepInv, RereadInv,
       ListInv, ResolveInv DEF Proceed
<1>4. ASSUME NEW t \in Task, WakeOnEvent(t) \/ WakeOnTimer(t) PROVE IInv'
  BY <1>1, <1>4, OtherType, WakeInv DEF WakeOnEvent, WakeOnTimer
<1>5. ASSUME NEW t \in Task, Finish(t) \/ Abandon(t) PROVE IInv'
  BY <1>1, <1>5, OtherType, FinishInv
<1>6. CASE Restart
  BY <1>1, <1>6, OtherType, RestartInv
<1>7. CASE Tick
  BY <1>1, <1>7, OtherType, TickInv DEF Tick
<1>8. CASE UNCHANGED serviceVars
  <2>1. ServiceTypeOK'
    BY <1>1, <1>8, OtherType
  <2>2. UNCHANGED <<rows, links, memory, pc, frame>>
    BY <1>8 DEF serviceVars, memory
  <2> QED
    BY <2>1, <2>2, TickInv
<1> QED
  BY <1>2, <1>3, <1>4, <1>5, <1>6, <1>7, <1>8 DEF Next

\* Every reachable state satisfies the inductive invariant.
THEOREM Inductive == Spec => []IInv
BY InitInv, NextInv, PTL DEF Spec

\* Every variable keeps its type, whatever the timeout and however many tasks.
THEOREM TypeCorrect == Spec => []ServiceTypeOK
<1>1. IInv => ServiceTypeOK
  BY DEF IInv
<1> QED
  BY <1>1, Inductive, PTL

\* No verdict is on record that nobody entitled to it gave, and no timeout was
\* recorded before its deadline (service._settle_timeout, store.resolve).
THEOREM ConsentIsGiven == Spec => []SilenceIsNotConsent
<1>1. IInv => SilenceIsNotConsent
  BY DEF IInv, RowsInv, SilenceIsNotConsent
<1> QED
  BY <1>1, Inductive, PTL

\* Whoever has been answered was told what the table still says, and no
\* blocked call, retry or decision was answered with an open row
\* (service.wait, service.get, service.decide, gateway._resume).
THEOREM AnswersHold == Spec => []AnswersAreFinal
<1>1. IInv => AnswersAreFinal
  BY DEF IInv, AnswersAreFinal
<1> QED
  BY <1>1, Inductive, PTL

\* A blocked call whose request a person in this process has decided has been
\* signalled (service.open, service.decide, service.wait).
THEOREM WakeupsAreNotLost == Spec => []NoLostWakeup
<1>1. IInv => NoLostWakeup
  BY DEF IInv
<1> QED
  BY <1>1, Inductive, PTL

\* The tables are written by create(), expire_overdue() and resolve() only.
LEMMA OnlyThreeWriters ==
  ASSUME [Next]_serviceVars, ~\E t \in Task : Create(t) \/ Sweep(t) \/ Resolve(t)
  PROVE  rows' = rows
BY DEF Next, Arrive, Proceed, Park, Retry, View, Decide, Poll, FirstGet, ReGet, Get, Reread, List,
       WakeOnEvent, WakeOnTimer, Wake, Finish, Abandon, Restart, Tick, serviceVars

\* The first decision on a request stands (store.resolve's status check,
\* store.expire_overdue's WHERE clause, and the uniqueness of ids).
THEOREM FirstDecisionStands == Spec => DecisionIsFinal
<1>1. ASSUME IInv, [Next]_serviceVars
      PROVE  \A i \in Id : IsResolved(rows[i]) => rows'[i] = rows[i]
  <2>1. ASSUME NEW t \in Task, Create(t), NEW i \in Id, IsResolved(rows[i])
        PROVE  rows'[i] = rows[i]
    <3>1. rows[frame[t].id].status = "absent"
      BY <1>1, <2>1 DEF IInv, StepInv, Create
    <3>2. frame[t].id # i
      BY <2>1, <3>1 DEF IsResolved, Resolution
    <3> QED
      BY <1>1, <2>1, <3>2 DEF Create, IInv, ServiceTypeOK
  <2>2. ASSUME NEW t \in Task, Sweep(t), NEW i \in Id, IsResolved(rows[i])
        PROVE  rows'[i] = rows[i]
    BY <2>2 DEF Sweep, ExpiredRow, IsResolved, Resolution
  <2>3. ASSUME NEW t \in Task, Resolve(t), NEW i \in Id, IsResolved(rows[i])
        PROVE  rows'[i] = rows[i]
    BY <1>1, <2>3 DEF Resolve, ResolvedRow, IsResolved, Resolution, IInv, ServiceTypeOK
  <2> QED
    BY <1>1, <2>1, <2>2, <2>3, OnlyThreeWriters
<1> QED
  BY <1>1, Inductive, PTL DEF Spec, DecisionIsFinal

-----------------------------------------------------------------------------
(* What the queue page lists *)

\* Nobody holds a stamp from the future.  In one process, once the page's own
\* sweep has run, what is still open falls due only after the page was asked
\* for; and a request still to be inserted was opened no earlier than that,
\* because the connection serves its tasks in line.
ListingInv ==
  /\ \A t \in Task : frame[t].stamp <= now
  /\ UiInProcess =>
       \A t \in Task : pc[t] = "list" =>
         /\ \A i \in Id : rows[i].status = "pending" => frame[t].stamp < rows[i].expires
         /\ \A u \in Task : pc[u] = "create" => frame[t].stamp <= frame[u].stamp

Acts(t) == Arrive(t) \/ Proceed(t) \/ Wake(t) \/ Finish(t) \/ Abandon(t)

\* t goes to l with f, stamped now, as before or not at all; to insert a row,
\* now; to list the queue, as its sweep was.
Lands(t, l, f) ==
  /\ Go(t, l, f)
  /\ f.stamp \in {0, now, frame[t].stamp}
  /\ l = "create" => f.stamp = now
  /\ l = "list" => Sweep(t) /\ f = frame[t]

Stamped(t) == \E l, f : Lands(t, l, f)

LEMMA LoopStamp ==
  ASSUME ServiceTypeOK, NEW t \in Task, NEW keys, Loop(t, keys)
  PROVE  Stamped(t)
<1> DEFINE approve == [frame[t] EXCEPT !.stamp = now, !.approved = TRUE,
                                       !.approver = TimeoutApprover]
           expire  == [frame[t] EXCEPT !.stamp = now]
<1>1. approve.stamp = now /\ expire.stamp = now
  BY DEF ServiceTypeOK, Frame
<1>2. Go(t, "asleep", frame[t]) \/ Go(t, "resolve", approve) \/ Go(t, "sweep", expire)
  BY DEF Loop, SettleTimeout
<1> HIDE DEF approve, expire
<1>3. Lands(t, "asleep", frame[t]) \/ Lands(t, "resolve", approve) \/ Lands(t, "sweep", expire)
  BY <1>1, <1>2 DEF Lands
<1> QED
  BY <1>3 DEF Stamped

LEMMA ReturnStamp ==
  ASSUME ServiceTypeOK, NEW t \in Task, NEW row, Return(t, row)
  PROVE  Stamped(t)
<1> DEFINE f == [Spent(frame[t]) EXCEPT !.ret = row]
<1>1. f.stamp = 0
  BY FrameTypes DEF ServiceTypeOK, Spent, Frame
<1>2. Go(t, "done", f)
  BY DEF Return
<1> HIDE DEF f
<1>3. Lands(t, "done", f)
  BY <1>1, <1>2 DEF Lands
<1> QED
  BY <1>3 DEF Stamped

LEMMA GotStamp ==
  ASSUME ServiceTypeOK, NEW t \in Task, NEW row, Got(t, row)
  PROVE  Stamped(t)
<1> DEFINE f == [frame[t] EXCEPT !.op = "dismiss", !.stamp = now,
                   !.approved = FALSE, !.approver = ClientApprover]
<1>1. f.stamp = now
  BY DEF ServiceTypeOK, Frame
<1>2. Go(t, "resolve", f) \/ Return(t, row)
  BY DEF Got
<1> HIDE DEF f
<1>3. Go(t, "resolve", f) => Lands(t, "resolve", f)
  BY <1>1 DEF Lands
<1> QED
  BY <1>2, <1>3, ReturnStamp DEF Stamped

LEMMA ArriveStamp ==
  ASSUME NEW t \in Task, Arrive(t)
  PROVE  Stamped(t)
<1>1. CASE \E i \in Id, how \in {"block", "elicit"} : Park(t, i, how)
  <2>1. PICK i \in Id, how \in {"block", "elicit"} : Park(t, i, how)
    BY <1>1
  <2> DEFINE f == [NoFrame EXCEPT !.op = how, !.id = i, !.stamp = now]
  <2>2. f.stamp = now
    BY DEF NoFrame
  <2>3. Go(t, "create", f)
    BY <2>1 DEF Park, Begin
  <2> HIDE DEF f
  <2>4. Lands(t, "create", f)
    BY <2>2, <2>3 DEF Lands
  <2> QED
    BY <2>4 DEF Stamped
<1>2. CASE \E i \in Id : Retry(t, i) \/ View(t, i)
  <2>1. PICK i \in Id : Retry(t, i) \/ View(t, i)
    BY <1>2
  <2> DEFINE f(op) == [NoFrame EXCEPT !.op = op, !.id = i]
  <2>2. f("retry").stamp = 0 /\ f("view").stamp = 0
    BY DEF NoFrame
  <2>3. Go(t, "get", f("retry")) \/ Go(t, "get", f("view"))
    BY <2>1 DEF Retry, View, Begin
  <2> HIDE DEF f
  <2>4. Lands(t, "get", f("retry")) \/ Lands(t, "get", f("view"))
    BY <2>2, <2>3 DEF Lands
  <2> QED
    BY <2>4 DEF Stamped
<1>3. CASE \E i \in Id, approved \in BOOLEAN, who \in Human : Decide(t, i, approved, who)
  <2>1. PICK i \in Id, approved \in BOOLEAN, who \in Human : Decide(t, i, approved, who)
    BY <1>3
  <2> DEFINE f == [NoFrame EXCEPT !.op = "decide", !.id = i, !.stamp = now,
                     !.approved = approved, !.approver = who]
  <2>2. f.stamp = now
    BY DEF NoFrame
  <2>3. Go(t, "resolve", f)
    BY <2>1 DEF Decide, Begin
  <2> HIDE DEF f
  <2>4. Lands(t, "resolve", f)
    BY <2>2, <2>3 DEF Lands
  <2> QED
    BY <2>4 DEF Stamped
<1>4. CASE Poll(t)
  <2> DEFINE f == [NoFrame EXCEPT !.op = "poll", !.stamp = now]
  <2>1. f.stamp = now
    BY DEF NoFrame
  <2>2. Go(t, "sweep", f)
    BY <1>4 DEF Poll, Begin
  <2> HIDE DEF f
  <2>3. Lands(t, "sweep", f)
    BY <2>1, <2>2 DEF Lands
  <2> QED
    BY <2>3 DEF Stamped
<1> QED
  BY <1>1, <1>2, <1>3, <1>4 DEF Arrive

LEMMA NewStamp ==
  ASSUME ServiceTypeOK, NEW t \in Task, Acts(t)
  PROVE  Stamped(t) /\ now' = now
<1>1. now' = now
  BY DEF Acts, Arrive, Park, Retry, View, Decide, Poll, Proceed, Create, FirstGet, ReGet, Get,
         Sweep, Reread, List, Resolve, Wake, Finish, Abandon
<1>2. frame[t] \in Frame /\ NoFrame.stamp = 0
  BY DEF ServiceTypeOK, NoFrame
<1>3. Spent(frame[t]) \in Frame /\ Spent(frame[t]).stamp = 0
  BY <1>2, FrameTypes DEF Spent, Frame
<1>4. ASSUME Create(t) \/ Sweep(t) PROVE Stamped(t)
  <2> DEFINE f == Spent(frame[t])
             row == PendingRow(frame[t].stamp)
  <2>1. \/ Return(t, row)
        \/ Go(t, "firstGet", f)
        \/ Go(t, "reread", f)
        \/ Go(t, "list", frame[t]) /\ Sweep(t)
    BY <1>4 DEF Create, Sweep
  <2>2. f.stamp = 0
    BY <1>3
  <2> HIDE DEF f, row
  <2>3. CASE Return(t, row)
    BY <2>3, ReturnStamp
  <2>4. CASE Go(t, "firstGet", f)
    <3>1. Lands(t, "firstGet", f)
      BY <2>2, <2>4 DEF Lands
    <3> QED
      BY <3>1 DEF Stamped
  <2>5. CASE Go(t, "reread", f)
    <3>1. Lands(t, "reread", f)
      BY <2>2, <2>5 DEF Lands
    <3> QED
      BY <3>1 DEF Stamped
  <2>6. CASE Go(t, "list", frame[t]) /\ Sweep(t)
    <3>1. Lands(t, "list", frame[t])
      BY <2>6 DEF Lands
    <3> QED
      BY <3>1 DEF Stamped
  <2> QED
    BY <2>1, <2>3, <2>4, <2>5, <2>6
<1>5. ASSUME FirstGet(t) \/ ReGet(t) \/ Reread(t) \/ Resolve(t) PROVE Stamped(t)
  <2> DEFINE f == frame[t]
             row == rows[f.id]
             new == ResolvedRow(row, f.approved, f.approver, f.stamp)
  <2>1. \/ Return(t, row) \/ Got(t, row) \/ Return(t, new)
        \/ Loop(t, registered \cup {f.id}) \/ Loop(t, registered)
    BY <1>5 DEF FirstGet, ReGet, Reread, Resolve
  <2> HIDE DEF f, row, new
  <2> QED
    BY <2>1, ReturnStamp, GotStamp, LoopStamp
<1>6. ASSUME Get(t) PROVE Stamped(t)
  <2> DEFINE f == [frame[t] EXCEPT !.stamp = now]
  <2>1. f.stamp = now
    BY <1>2 DEF Frame
  <2> DEFINE row == rows[frame[t].id]
  <2>2. Go(t, "sweep", f) \/ Got(t, row)
    BY <1>6 DEF Get
  <2> HIDE DEF f, row
  <2>3. Go(t, "sweep", f) => Lands(t, "sweep", f)
    BY <2>1 DEF Lands
  <2>4. Go(t, "sweep", f) => Stamped(t)
    BY <2>3 DEF Stamped
  <2> QED
    BY <2>2, <2>4, GotStamp
<1>7. ASSUME List(t) PROVE Stamped(t)
  <2> DEFINE f == [Spent(frame[t]) EXCEPT !.listed = {i \in Id : rows[i].status = "pending"}]
  <2>1. f.stamp = 0
    BY <1>3 DEF Frame
  <2>2. Go(t, "done", f)
    BY <1>7 DEF List
  <2> HIDE DEF f
  <2>3. Lands(t, "done", f)
    BY <2>1, <2>2 DEF Lands
  <2> QED
    BY <2>3 DEF Stamped
<1>8. ASSUME Wake(t) \/ Finish(t) \/ Abandon(t) PROVE Stamped(t)
  <2>1. Go(t, "reGet", frame[t]) \/ Go(t, "idle", NoFrame)
    BY <1>8 DEF Wake, Finish, Abandon
  <2>2. Lands(t, "reGet", frame[t]) \/ Lands(t, "idle", NoFrame)
    BY <1>2, <2>1 DEF Lands
  <2> QED
    BY <2>2 DEF Stamped
<1> QED
  BY <1>1, <1>4, <1>5, <1>6, <1>7, <1>8, ArriveStamp DEF Acts, Proceed

\* What an action does to the deadlines of the rows that are open after it.
LEMMA OpenRows ==
  ASSUME IInv, NEW t \in Task, Acts(t), NEW i \in Id, rows'[i].status = "pending"
  PROVE  \/ rows[i].status = "pending" /\ rows'[i].expires = rows[i].expires
              /\ (Sweep(t) => frame[t].stamp < rows[i].expires)
         \/ pc[t] = "create" /\ rows'[i].expires = frame[t].stamp + Timeout
<1>1. rows \in [Id -> Row] /\ rows[i] \in Row /\ frame[t] \in Frame /\ frame[t].stamp \in Nat
      /\ rows[i].expires \in Nat
  BY FrameFields DEF IInv, ServiceTypeOK, Row
<1>2. CASE Create(t)
  BY <1>1, <1>2 DEF Create, PendingRow, IInv, StepInv, Sweep
<1>3. CASE Sweep(t)
  <2>1. rows'[i] = ExpiredRow(rows[i], frame[t].stamp)
    BY <1>3 DEF Sweep
  <2>2. rows'[i] = rows[i] /\ ~(rows[i].expires <= frame[t].stamp)
    BY <1>1, <2>1 DEF ExpiredRow, Row
  <2> QED
    BY <1>1, <2>2
<1>4. CASE Resolve(t)
  BY <1>1, <1>4 DEF Resolve, ResolvedRow, Row, Sweep
<1>5. CASE ~Create(t) /\ ~Sweep(t) /\ ~Resolve(t)
  <2>1. rows' = rows
    BY <1>5 DEF Acts, Arrive, Proceed, Park, Retry, View, Decide, Poll, FirstGet, ReGet, Get,
           Reread, List, Wake, Finish, Abandon
  <2> QED
    BY <1>5, <2>1
<1> QED
  BY <1>2, <1>3, <1>4, <1>5

LEMMA ActsKeepListing ==
  ASSUME IInv, ListingInv, NEW t \in Task, Acts(t)
  PROVE  ListingInv'
<1>1. PICK l, f : Lands(t, l, f)
  BY NewStamp DEF IInv, Stamped
<1>2. /\ pc'[t] = l /\ frame'[t] = f /\ now' = now
      /\ \A u \in Task \ {t} : pc'[u] = pc[u] /\ frame'[u] = frame[u]
  BY <1>1, Moved, NewStamp DEF IInv, Lands
<1>3. /\ now \in Nat
      /\ \A u \in Task : frame[u].stamp \in Nat /\ frame[u].stamp <= now
      /\ \A i \in Id : rows[i].expires \in Nat
  BY NowIsNat, FrameFields DEF IInv, ServiceTypeOK, ListingInv, Row
<1>4. f.stamp \in Nat /\ f.stamp <= now
  BY <1>1, <1>3 DEF Lands
<1>5. \A u \in Task : frame'[u].stamp <= now'
  BY <1>2, <1>3, <1>4
<1>6. ASSUME UiInProcess, NEW u \in Task, pc'[u] = "list"
      PROVE  /\ frame'[u].stamp = frame[u].stamp
             /\ \/ u = t /\ Sweep(t)
                \/ u # t /\ pc[u] = "list"
  BY <1>1, <1>2, <1>6 DEF Lands
<1>7. ASSUME UiInProcess, NEW u \in Task, pc'[u] = "list", NEW v \in Task, pc[v] = "create"
      PROVE  frame[u].stamp <= frame[v].stamp
  <2>1. Sweep(t) => frame[t].stamp <= frame[v].stamp
    BY <1>7 DEF Sweep, InTurn, SameProcess
  <2> QED
    BY <1>6, <1>7, <2>1 DEF ListingInv
<1>8. ASSUME UiInProcess, NEW u \in Task, pc'[u] = "list", NEW v \in Task, pc'[v] = "create"
      PROVE  frame'[u].stamp <= frame'[v].stamp
  <2>1. CASE v = t
    <3>1. frame'[v].stamp = now
      BY <1>1, <1>2, <1>8, <2>1 DEF Lands
    <3> QED
      BY <1>3, <1>6, <1>8, <3>1
  <2>2. CASE v # t
    BY <1>2, <1>6, <1>7, <1>8, <2>2
  <2> QED
    BY <2>1, <2>2
<1>9. ASSUME UiInProcess, NEW u \in Task, pc'[u] = "list", NEW i \in Id,
             rows'[i].status = "pending"
      PROVE  frame'[u].stamp < rows'[i].expires
  <2>1. CASE pc[t] = "create" /\ rows'[i].expires = frame[t].stamp + Timeout
    BY <1>3, <1>6, <1>7, <1>9, <2>1
  <2>2. CASE rows[i].status = "pending" /\ rows'[i].expires = rows[i].expires
              /\ (Sweep(t) => frame[t].stamp < rows[i].expires)
    BY <1>6, <1>9, <2>2 DEF ListingInv
  <2> QED
    BY <1>9, <2>1, <2>2, OpenRows
<1> QED
  BY <1>5, <1>8, <1>9 DEF ListingInv

LEMMA NextListing == IInv /\ ListingInv /\ [Next]_serviceVars => ListingInv'
<1> SUFFICES ASSUME IInv, ListingInv, [Next]_serviceVars PROVE ListingInv'
  OBVIOUS
<1>1. now \in Nat /\ \A t \in Task : frame[t].stamp \in Nat
  BY NowIsNat, FrameFields DEF IInv, ServiceTypeOK
<1>2. CASE \E t \in Task : Acts(t)
  BY <1>2, ActsKeepListing
<1>3. CASE Restart
  <2>1. \A t \in Task : pc'[t] = "idle" /\ frame'[t].stamp = 0 /\ now' = now
    BY <1>3 DEF Restart, NoFrame
  <2> QED
    BY <1>1, <2>1 DEF ListingInv
<1>4. CASE Tick \/ UNCHANGED serviceVars
  <2>1. UNCHANGED <<rows, pc, frame>> /\ now' \in {now, now + 1}
    BY <1>4 DEF Tick, serviceVars
  <2> QED
    BY <1>1, <2>1 DEF ListingInv
<1> QED
  BY <1>2, <1>3, <1>4 DEF Next, Acts, WakeOnEvent, WakeOnTimer

LEMMA AlwaysListing == Spec => [](IInv /\ ListingInv)
<1>1. ServiceInit => ListingInv
  BY DEF ServiceInit, ListingInv, NoFrame
<1> QED
  BY <1>1, InitInv, NextInv, NextListing, PTL DEF Spec

\* A step that answers a page is the last of the calls that page makes.
LEMMA PageAnswers ==
  ASSUME IInv, [Next]_serviceVars, NEW t \in Task, pc[t] # "done", pc'[t] = "done",
         frame[t].op \in {"view", "poll"}
  PROVE  \/ frame[t].op = "view" /\ (Get(t) \/ Reread(t))
         \/ frame[t].op = "poll" /\ List(t)
<1>1. PICK u \in Task : Acts(u)
  BY DEF Acts, Next, WakeOnEvent, WakeOnTimer, Restart, Tick, serviceVars, IInv, ServiceTypeOK
<1>2. u = t
  <2>1. \E l, f : Go(u, l, f)
    BY <1>1, NewStamp DEF IInv, Stamped, Lands
  <2> QED
    BY <2>1, Moved DEF IInv
<1>3. Proceed(t)
  <2>1. \A l, f : Go(t, l, f) => l = "done"
    BY Moved DEF IInv
  <2>2. ~Arrive(t) /\ ~Wake(t) /\ ~Finish(t) /\ ~Abandon(t)
    BY <2>1 DEF Arrive, Park, Retry, View, Decide, Poll, Begin, Wake, Finish, Abandon
  <2> QED
    BY <1>1, <1>2, <2>2 DEF Acts
<1>4. ~Sweep(t)
  BY Moved DEF Sweep, IInv
<1> QED
  BY <1>3, <1>4 DEF Proceed, StepInv, Create, FirstGet, ReGet, Get, Reread, List, Resolve,
                    IInv, Owner

\* A request's own page never shows it open past its deadline (service.get),
\* and the queue page, in the gatekeeper's process, lists nothing that was
\* overdue when it was asked for: its sweep and every insertion take their
\* stamps before they queue for the connection, which serves them in line
\* (service.pending, db.transact).
THEOREM OverdueIsNotShown == Spec => NothingOverdueIsShownOpen
<1>1. ASSUME IInv, [Next]_serviceVars, NEW t \in Task,
             pc[t] # "done", pc'[t] = "done", frame[t].op = "view",
             frame'[t].ret.status = "pending"
      PROVE  now < frame'[t].ret.expires
  <2>1. IdInv(t) /\ StepInv(t) /\ frame[t] \in Frame
    BY <1>1 DEF IInv, ServiceTypeOK
  <2>2. Get(t) \/ Reread(t)
    BY <1>1, PageAnswers
  <2>3. PICK row : /\ row = rows[frame[t].id] /\ Return(t, row)
                   /\ ~IsExpiredAt(row, now)
    BY <1>1, <2>1, <2>2, Moved
       DEF Get, Reread, Got, StepInv, IInv, IsResolved, Resolution, IsExpiredAt
  <2>4. frame'[t].ret = row
    <3>1. [Spent(frame[t]) EXCEPT !.ret = row].ret = row
      BY <2>1, FrameTypes DEF Frame
    <3>2. Go(t, "done", [Spent(frame[t]) EXCEPT !.ret = row])
      BY <2>3 DEF Return
    <3>3. frame'[t] = [Spent(frame[t]) EXCEPT !.ret = row]
      BY <1>1, <3>2 DEF Go, IInv, ServiceTypeOK
    <3> QED
      BY <3>1, <3>3
  <2>5. row \in Row /\ now \in Nat
    <3>1. frame[t].id \in Id
      BY <1>1, <2>1 DEF IdInv, NoFrame
    <3> QED
      BY <1>1, <2>3, <3>1, NowIsNat DEF IInv, ServiceTypeOK
  <2> QED
    BY <1>1, <2>3, <2>4, <2>5 DEF IsExpiredAt, Row
<1>2. ASSUME IInv, ListingInv, [Next]_serviceVars, NEW t \in Task,
             pc[t] # "done", pc'[t] = "done", frame[t].op = "poll", UiInProcess,
             NEW i \in frame'[t].listed
      PROVE  frame[t].stamp < rows[i].expires
  <2> DEFINE f == [Spent(frame[t]) EXCEPT !.listed = {j \in Id : rows[j].status = "pending"}]
  <2>1. List(t) /\ pc[t] = "list"
    BY <1>2, PageAnswers DEF List
  <2>2. Spent(frame[t]) \in Frame
    BY <1>2, FrameTypes DEF IInv, ServiceTypeOK
  <2>3. f.listed = {j \in Id : rows[j].status = "pending"}
    BY <2>2 DEF Frame
  <2>4. Go(t, "done", f)
    BY <2>1 DEF List
  <2> HIDE DEF f
  <2>5. frame'[t] = f
    BY <1>2, <2>4, Moved DEF IInv
  <2>6. i \in Id /\ rows[i].status = "pending"
    BY <1>2, <2>3, <2>5
  <2> QED
    BY <1>2, <2>1, <2>6 DEF ListingInv
<1>3. IInv /\ ListingInv /\ [Next]_serviceVars =>
        [\A t \in Task :
           pc[t] # "done" /\ pc'[t] = "done" =>
             /\ frame[t].op = "view" /\ frame'[t].ret.status = "pending"
                  => now < frame'[t].ret.expires
             /\ frame[t].op = "poll" /\ UiInProcess
                  => \A i \in frame'[t].listed : frame[t].stamp < rows[i].expires]_serviceVars
  BY <1>1, <1>2
<1> QED
  BY <1>3, AlwaysListing, PTL DEF Spec, NothingOverdueIsShownOpen

-----------------------------------------------------------------------------
(* ApprovalService implements ApprovalQueue: every step of a coroutine is a  *)
(* step of the queue it serves, or leaves the queue as it is.                *)

verdict == [i \in Id |-> Verdict(rows[i])]
answer == [t \in Task |-> Told(t)]

\* The rows somebody entitled has settled are the queue's settled verdicts.
LEMMA SettledRow ==
  ASSUME NEW row \in Row, IsResolved(row), EntitledRow(row)
  PROVE  /\ Verdict(row) \in Queue!Settled
         /\ row.status # "expired" => Verdict(row) \in Queue!Decisions
BY DEF Row, Actor, IsResolved, Resolution, EntitledRow, Verdict, Queue!Settled, Queue!Decisions,
       Queue!Lapsed, Queue!Approvers, Queue!Deniers

LEMMA NothingTold ==
  /\ Queue!NoAnswer = [id |-> None, verdict |-> Verdict(NoRow)]
  /\ \A t \in Task : pc[t] # "done" \/ ~IsResolved(frame[t].ret) => Told(t) = Queue!NoAnswer
BY DEF Queue!NoAnswer, Queue!Unknown, Told, Verdict, NoRow

\* When one task moves, only what it has been told can change.
LEMMA AnswerMoves ==
  ASSUME IInv, NEW t \in Task, NEW l, NEW f, Go(t, l, f)
  PROVE  /\ answer' = [answer EXCEPT ![t] = Told(t)']
         /\ \A u \in Task \ {t} : Told(u)' = Told(u)
<1>1. \A u \in Task \ {t} : Told(u)' = Told(u)
  BY Moved DEF IInv, Told
<1> QED
  BY <1>1 DEF answer

\* A step after which the acting task has been told nothing.
LEMMA SilentStep ==
  ASSUME IInv, NEW t \in Task, NEW l, NEW f, Go(t, l, f), rows' = rows,
         Told(t)' = Queue!NoAnswer
  PROVE  Queue!Next
<1>1. answer' = [u \in Task |-> IF u \in {t} THEN Queue!NoAnswer ELSE answer[u]]
  BY AnswerMoves DEF answer
<1>2. verdict' = verdict
  BY DEF verdict
<1>3. Queue!Leave({t})
  BY <1>1, <1>2 DEF Queue!Leave, answer, verdict
<1> QED
  BY <1>3 DEF Queue!Next

\* A step that answers the acting task with the row the table holds.
LEMMA AnswerStep ==
  ASSUME IInv, NEW t \in Task, frame[t].id \in Id, Return(t, rows[frame[t].id]), rows' = rows
  PROVE  Queue!Next
<1> DEFINE i == frame[t].id
           row == rows[frame[t].id]
           f == [Spent(frame[t]) EXCEPT !.ret = row]
<1>1. Go(t, "done", f)
  BY DEF Return
<1>2. f.id = i /\ f.ret = row
  BY DEF IInv, ServiceTypeOK, Spent, Frame
<1>3. pc'[t] = "done" /\ frame'[t] = f
  BY <1>1, Moved DEF IInv
<1>4. row \in Row /\ EntitledRow(row)
  BY DEF IInv, ServiceTypeOK, RowsInv
<1> HIDE DEF f
<1>5. CASE IsResolved(row)
  <2>1. Told(t)' = [id |-> i, verdict |-> Verdict(row)]
    BY <1>2, <1>3, <1>5 DEF Told
  <2>2. verdict[i] = Verdict(row) /\ verdict' = verdict
    BY DEF verdict
  <2>3. Queue!Answer(t, i)
    BY <1>1, <1>4, <1>5, <2>1, <2>2, SettledRow, AnswerMoves
       DEF Queue!Answer, Queue!Tell, answer, verdict
  <2> QED
    BY <2>3 DEF Queue!Next
<1>6. CASE ~IsResolved(row)
  <2>1. Told(t)' = Queue!NoAnswer
    BY <1>2, <1>3, <1>6, NothingTold DEF Told
  <2> QED
    BY <1>1, <2>1, SilentStep
<1> QED
  BY <1>5, <1>6

\* A step that leaves the acting task queued, asleep or idle.
LEMMA UnansweredStep ==
  ASSUME IInv, NEW t \in Task, NEW l, l # "done", NEW f, Go(t, l, f), rows' = rows
  PROVE  Queue!Next
<1>1. pc'[t] = l
  BY Moved DEF IInv
<1>2. Told(t)' = Queue!NoAnswer
  BY <1>1, NothingTold DEF Told
<1> QED
  BY <1>2, SilentStep

LEMMA CreateParks ==
  ASSUME IInv, NEW t \in Task, Create(t)
  PROVE  Queue!Next
<1> DEFINE f == frame[t]
           i == frame[t].id
           row == PendingRow(f.stamp)
<1>1. /\ i \in Id /\ f \in Frame /\ rows \in [Id -> Row] /\ pc[t] = "create"
      /\ rows[i].status = "absent" /\ rows[i].approver = None
  BY DEF Create, IInv, ServiceTypeOK, IdInv, StepInv, Owner, RowsInv, IsResolved, Resolution
<1>2. rows' = [rows EXCEPT ![i] = row]
  BY DEF Create
<1>3. Verdict(row) = Queue!Open /\ ~IsResolved(row)
  BY DEF PendingRow, Verdict, Queue!Open, IsResolved, Resolution
<1>4. verdict[i] = Queue!Unknown /\ verdict' = [verdict EXCEPT ![i] = Queue!Open]
  BY <1>1, <1>2, <1>3 DEF verdict, Verdict, Queue!Unknown
<1>5. PICK l, g : Go(t, l, g) /\ (l = "done" => g.ret = row)
  <2> DEFINE g == [Spent(f) EXCEPT !.ret = row]
  <2>1. g.ret = row
    BY <1>1, FrameTypes DEF Frame
  <2>2. Go(t, "done", g) \/ Go(t, "firstGet", Spent(f))
    BY DEF Create, Return
  <2> HIDE DEF f, g
  <2>3. CASE Go(t, "done", g)
    BY <2>1, <2>3
  <2>4. CASE Go(t, "firstGet", Spent(f))
    BY <2>4
  <2> QED
    BY <2>2, <2>3, <2>4
<1>6. pc'[t] = l /\ frame'[t] = g
  BY <1>5, Moved DEF IInv
<1>7. Told(t)' = Queue!NoAnswer /\ Told(t) = Queue!NoAnswer
  BY <1>1, <1>3, <1>5, <1>6, NothingTold DEF Told
<1>8. answer' = answer
  BY <1>5, <1>7, AnswerMoves DEF answer
<1>9. Queue!Park(i)
  BY <1>4, <1>8 DEF Queue!Park, verdict, answer
<1> QED
  BY <1>1, <1>9 DEF Queue!Next

LEMMA SweepLapses ==
  ASSUME IInv, NEW t \in Task, Sweep(t)
  PROVE  Queue!Next
<1> DEFINE f == frame[t]
           S == {i \in Id : rows[i].status = "pending" /\ rows[i].expires <= f.stamp}
<1>1. /\ f \in Frame /\ rows \in [Id -> Row] /\ pc[t] = "sweep"
      /\ \A i \in Id : rows[i].status = "pending" => rows[i].approver = None
  BY DEF Sweep, IInv, ServiceTypeOK, RowsInv, IsResolved, Resolution
<1>2. \A i \in Id : rows'[i] = ExpiredRow(rows[i], f.stamp)
  BY DEF Sweep
<1>3. \A i \in S : verdict[i] = Queue!Open
  BY <1>1 DEF verdict, Verdict, Queue!Open
<1>4. ASSUME NEW i \in Id
      PROVE  Verdict(rows'[i]) = IF i \in S THEN Queue!Lapsed ELSE Verdict(rows[i])
  <2>1. rows[i] \in Row /\ rows'[i] = ExpiredRow(rows[i], f.stamp)
    BY <1>1, <1>2
  <2>2. CASE i \in S
    <3>1. rows'[i].status = "expired" /\ rows'[i].approver = TimeoutApprover
      BY <2>1, <2>2 DEF ExpiredRow, Row
    <3> QED
      BY <2>2, <3>1 DEF Verdict, Queue!Lapsed
  <2>3. CASE i \notin S
    <3>1. rows'[i] = rows[i]
      BY <2>1, <2>3 DEF ExpiredRow
    <3> QED
      BY <2>3, <3>1
  <2> QED
    BY <2>2, <2>3
<1>5. verdict' = [i \in Id |-> IF i \in S THEN Queue!Lapsed ELSE verdict[i]]
  BY <1>4 DEF verdict
<1>6. PICK l, g : Go(t, l, g) /\ l # "done"
  BY DEF Sweep
<1>7. pc'[t] = l
  BY <1>6, Moved DEF IInv
<1>8. Told(t)' = Queue!NoAnswer /\ Told(t) = Queue!NoAnswer
  BY <1>1, <1>6, <1>7, NothingTold DEF Told
<1>9. answer' = answer
  BY <1>6, <1>8, AnswerMoves DEF answer
<1>10. S \in SUBSET Id
  OBVIOUS
<1> HIDE DEF S
<1>11. Queue!Lapse(S)
  BY <1>3, <1>5, <1>9 DEF Queue!Lapse, verdict, answer
<1> QED
  BY <1>10, <1>11 DEF Queue!Next

LEMMA ResolveDecides ==
  ASSUME IInv, NEW t \in Task, Resolve(t)
  PROVE  Queue!Next
<1> DEFINE f == frame[t]
           i == frame[t].id
           row == ResolvedRow(rows[i], f.approved, f.approver, f.stamp)
<1>1. /\ i \in Id /\ f \in Frame /\ rows \in [Id -> Row] /\ rows[i] \in Row
      /\ rows[i].status # "absent" /\ EntitledRow(rows[i])
      /\ ~IsResolved(rows[i]) => rows[i].approver = None
      /\ EntitledRow(ResolvedRow([rows[i] EXCEPT !.status = "pending"],
                                 f.approved, f.approver, f.stamp))
  BY DEF Resolve, IInv, ServiceTypeOK, IdInv, StepInv, RowsInv
<1>2. rows' = [rows EXCEPT ![i] = row] /\ Return(t, row)
  BY DEF Resolve
<1>3. CASE rows[i].status # "pending"
  <2>1. row = rows[i]
    BY <1>3 DEF ResolvedRow
  <2>2. rows' = rows
    BY <1>1, <1>2, <2>1
  <2> QED
    BY <1>1, <1>2, <2>1, <2>2, AnswerStep
<1>4. CASE rows[i].status = "pending"
  <2>1. f.approved \in BOOLEAN /\ f.stamp \in Nat /\ f.approver \in Actor
    <3>1. f.approver # None
      BY <1>1 DEF EntitledRow, ResolvedRow, Row
    <3> QED
      BY <1>1, <3>1, FrameFields
  <2>2. row \in Row
    BY <1>1, <2>1, RowTypes
  <2>3. row.status \in {"approved", "denied"} /\ IsResolved(row)
    BY <1>1, <1>4 DEF ResolvedRow, Row, IsResolved, Resolution
  <2>4. EntitledRow(row)
    <3>1. rows[i] = [rows[i] EXCEPT !.status = "pending"]
      BY <1>1, <1>4 DEF Row
    <3> QED
      BY <1>1, <3>1
  <2> HIDE DEF row
  <2>5. Verdict(row) \in Queue!Decisions
    BY <2>2, <2>3, <2>4, SettledRow
  <2>6. verdict[i] = Queue!Open /\ verdict' = [verdict EXCEPT ![i] = Verdict(row)]
    BY <1>1, <1>2, <1>4 DEF verdict, Verdict, Queue!Open, IsResolved, Resolution
  <2> DEFINE g == [Spent(f) EXCEPT !.ret = row]
  <2>7. Go(t, "done", g)
    BY <1>2 DEF Return
  <2>8. g.id = i /\ g.ret = row
    BY <1>1 DEF Spent, Frame
  <2>9. pc'[t] = "done" /\ frame'[t] = g
    BY <2>7, Moved DEF IInv
  <2> HIDE DEF g
  <2>10. Told(t)' = [id |-> i, verdict |-> Verdict(row)]
    BY <2>3, <2>8, <2>9 DEF Told
  <2>11. Queue!Decide(t, i, Verdict(row))
    BY <2>6, <2>7, <2>10, AnswerMoves DEF Queue!Decide, Queue!Tell, verdict, answer
  <2> QED
    BY <1>1, <2>5, <2>11 DEF Queue!Next
<1> QED
  BY <1>3, <1>4

-----------------------------------------------------------------------------

LEMMA StartsEmpty == ServiceInit => Queue!Init
BY NothingTold DEF ServiceInit, Queue!Init, Queue!Unknown, Verdict, NoRow, Told

\* Answered with the row just read, or queued for the next call.
LEMMA ReadsAnswer ==
  ASSUME IInv, NEW t \in Task, FirstGet(t) \/ ReGet(t) \/ Get(t) \/ Reread(t)
  PROVE  Queue!Next
<1>1. frame[t].id \in Id
  BY DEF FirstGet, ReGet, Get, Reread, IInv, IdInv, StepInv
<1>2. rows' = rows
  BY DEF FirstGet, ReGet, Get, Reread
<1>3. Return(t, rows[frame[t].id]) \/ \E l, f : l # "done" /\ Go(t, l, f)
  BY DEF FirstGet, ReGet, Get, Reread, Got, Loop, SettleTimeout
<1> QED
  BY <1>1, <1>2, <1>3, AnswerStep, UnansweredStep

\* The queue page is told of no verdict.
LEMMA ListsOnly ==
  ASSUME IInv, NEW t \in Task, List(t)
  PROVE  Queue!Next
<1> DEFINE g == [Spent(frame[t]) EXCEPT !.listed = {i \in Id : rows[i].status = "pending"}]
<1>1. Go(t, "done", g) /\ rows' = rows /\ ~IsResolved(g.ret)
  <2>1. frame[t] \in Frame /\ frame[t].ret = NoRow
    BY DEF List, IInv, ServiceTypeOK, IdInv, StepInv
  <2>2. g.ret = NoRow
    BY <2>1 DEF Spent, Frame
  <2>3. ~IsResolved(NoRow)
    BY DEF NoRow, IsResolved, Resolution
  <2> QED
    BY <2>2, <2>3 DEF List
<1> HIDE DEF g
<1>2. frame'[t] = g
  BY <1>1, Moved DEF IInv
<1>3. Told(t)' = Queue!NoAnswer
  BY <1>1, <1>2, NothingTold DEF Told
<1> QED
  BY <1>1, <1>3, SilentStep

LEMMA OthersAreSilent ==
  ASSUME IInv, NEW t \in Task, Arrive(t) \/ Wake(t) \/ Finish(t) \/ Abandon(t)
  PROVE  Queue!Next
<1>1. rows' = rows
  BY DEF Arrive, Park, Retry, View, Decide, Poll, Wake, Finish, Abandon
<1>2. \E l, f : l # "done" /\ Go(t, l, f)
  BY DEF Arrive, Park, Retry, View, Decide, Poll, Begin, Wake, Finish, Abandon
<1> QED
  BY <1>1, <1>2, UnansweredStep

LEMMA RestartLeaves ==
  ASSUME Restart
  PROVE  Queue!Next
<1>1. \A t \in Task : Told(t)' = Queue!NoAnswer
  BY NothingTold DEF Restart, Told
<1>2. answer' = [t \in Task |-> IF t \in Task THEN Queue!NoAnswer ELSE answer[t]]
  BY <1>1 DEF answer
<1>3. verdict' = verdict
  BY DEF Restart, verdict
<1>4. Queue!Leave(Task)
  BY <1>2, <1>3 DEF Queue!Leave, verdict, answer
<1> QED
  BY <1>4 DEF Queue!Next

LEMMA StepsImplement ==
  ASSUME IInv, [Next]_serviceVars
  PROVE  [Queue!Next]_(Queue!vars)
<1>1. CASE \E t \in Task : Arrive(t) \/ Wake(t) \/ Finish(t) \/ Abandon(t)
  BY <1>1, OthersAreSilent
<1>2. CASE \E t \in Task : Proceed(t)
  BY <1>2, CreateParks, ReadsAnswer, SweepLapses, ListsOnly, ResolveDecides
     DEF Proceed
<1>3. CASE Restart
  BY <1>3, RestartLeaves
<1>4. CASE Tick \/ UNCHANGED serviceVars
  <2>1. UNCHANGED <<rows, pc, frame>>
    BY <1>4 DEF Tick, serviceVars
  <2> QED
    BY <2>1 DEF Queue!vars, Told
<1> QED
  BY <1>1, <1>2, <1>3, <1>4 DEF Next, WakeOnEvent, WakeOnTimer

\* The service, with its clock, database, events and coroutines, keeps the
\* queue's promise: one verdict per request, given by somebody entitled to it,
\* and everybody told the one on record (approvals/service.py, store.py).
THEOREM Refinement == Spec => ImplementsQueue
<1>1. ServiceInit => Queue!Init
  BY StartsEmpty
<1>2. IInv /\ [Next]_serviceVars => [Queue!Next]_(Queue!vars)
  BY StepsImplement
<1> QED
  BY <1>1, <1>2, Inductive, PTL DEF Spec, ImplementsQueue, Queue!Spec
=============================================================================

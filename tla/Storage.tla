------------------------------- MODULE Storage -------------------------------
(***************************************************************************)
(* db.py and the statements approvals/store.py and audit/store.py run on   *)
(* it: one SQLite connection behind a lock, used by the tasks of the       *)
(* serving process, on a file that a UI run in another process may write.  *)
(*                                                                         *)
(* A call to the Database is one step, for the lock is held throughout and *)
(* SQLite lets one writer at a time commit.  What a step leaves on the     *)
(* connection is state: sqlite3 opens a transaction by itself before a     *)
(* statement that writes, and only commit() or rollback() end it.          *)
(***************************************************************************)
EXTENDS Integers, SequencesExt

CONSTANTS Task,       \* coroutines of the serving process
          Id,         \* approval ids
          Verdict,    \* what approvers decide
          Timeout,    \* the deployment's timeout, in ticks
          Limit,      \* rows the reader of the audit page asks for
          Cap,        \* rows a page has at most
          MaxClock,   \* bound on the clock
          MaxEvents,  \* bound on the audit rows
          MaxFaults,  \* bound on statements that fail
          None        \* no value

ASSUME StorageAssumption ==
  Timeout \in Nat \ {0} /\ Limit \in 1..Cap /\ {Cap, MaxClock, MaxEvents, MaxFaults} \subseteq Nat

VARIABLES disk,      \* what is committed
          isOpen,    \* whether the connection is there
          txn,       \* the transaction it is left in
          line,      \* the lock: its holder, then who waits, in order
          call,      \* each task's call
          now,       \* the clock
          reply,     \* history: the last call to return, until another is made
          suspect,   \* history: an execute() failed, and nothing has ended its transaction
          exported,  \* history: the rows of the last export
          reader,    \* who pages through the audit log, and history: what they
                     \* have seen and are to see
          faults     \* statements that failed

vars == <<disk, isOpen, txn, line, call, now, reply, suspect, exported, reader, faults>>

Status == {"pending", "expired"} \cup Verdict
Row == [status : Status, expires : Nat]
AuditRow == [id : Nat, at : Nat]
Store == [rows : [Id -> Row \cup {None}], log : Seq(AuditRow)]

NoTxn == [open |-> FALSE, base |-> None, view |-> None]
AtStart == [offset |-> 0, seen |-> {}, owed |-> {}]

\* The calls the two stores make; moments are taken before the lock is.
Calls ==
  [op : {"get"}, id : Id]
    \cup [op : {"create"}, id : Id, at : 0..MaxClock]
    \cup [op : {"resolve"}, id : Id, verdict : Verdict]
    \cup [op : {"expire", "record"}, at : 0..MaxClock]
    \cup [op : {"export", "page"}]

Writes == {"create", "record", "resolve", "expire"}

ASSUME NoneAssumption == None \notin Calls

TypeOK ==
  /\ disk \in Store
  /\ isOpen \in BOOLEAN
  /\ txn \in [open : BOOLEAN, base : Store \cup {None}, view : Store \cup {None}]
  /\ ~txn.open => txn = NoTxn
  /\ call \in [Task -> Calls \cup {None}]
  /\ line \in Seq(Task) /\ IsInjective(line) /\ ToSet(line) = {t \in Task : call[t] # None}
  /\ now \in 0..MaxClock
  /\ reply = None \/ (reply.call \in Calls /\ reply.ok \in BOOLEAN)
  /\ suspect \in BOOLEAN
  /\ exported \in Seq(AuditRow)
  /\ reader \in [offset : Nat, seen : SUBSET ToSet(disk.log), owed : SUBSET ToSet(disk.log)]
  /\ faults \in 0..MaxFaults

Init ==
  /\ disk = [rows |-> [i \in Id |-> None], log |-> <<>>]
  /\ isOpen = TRUE
  /\ txn = NoTxn
  /\ line = <<>>
  /\ call = [t \in Task |-> None]
  /\ now = 0
  /\ reply = None
  /\ suspect = FALSE
  /\ exported = <<>>
  /\ reader = AtStart
  /\ faults = 0

-----------------------------------------------------------------------------
(* Statements *)

IsPending(row) == row # None /\ row.status = "pending"

\* What a statement makes of the tables.
Put(s, c) ==
  CASE c.op = "create" ->
         [s EXCEPT !.rows[c.id] = [status |-> "pending", expires |-> c.at + Timeout]]
    [] c.op = "record" ->
         [s EXCEPT !.log = Append(@, [id |-> Len(@) + 1, at |-> c.at])]
    [] c.op = "resolve" ->
         IF IsPending(s.rows[c.id]) THEN [s EXCEPT !.rows[c.id].status = c.verdict] ELSE s
    [] c.op = "expire" ->
         [s EXCEPT !.rows = [i \in Id |-> IF IsPending(@[i]) /\ @[i].expires <= c.at
                                          THEN [@[i] EXCEPT !.status = "expired"] ELSE @[i]]]
    [] OTHER -> s

\* ORDER BY created_at ASC, id ASC
Precedes(a, b) == a.at < b.at \/ (a.at = b.at /\ a.id < b.id)

OldestFirst(log) ==
  CHOOSE s \in [DOMAIN log -> ToSet(log)] : \A i, j \in DOMAIN log : i < j => Precedes(s[i], s[j])

\* The newest rows first, after the ones skipped (recent).
Page(log, skipped) ==
  LET newest == Reverse(OldestFirst(log))
  IN SubSeq(newest, skipped + 1, Min({Len(newest), skipped + Min({Limit, Cap})}))

\* What a call returns.
Value(s, c) ==
  CASE c.op \in {"get", "resolve"} -> s.rows[c.id]
    [] c.op = "export" -> OldestFirst(s.log)
    [] c.op = "page" -> Page(s.log, reader.offset)
    [] OTHER -> None

-----------------------------------------------------------------------------
(* The lock *)

\* Who is making such a call.
Making(op) == {t \in Task : call[t] # None /\ call[t].op = op}

\* Ids are fresh, the rows of the audit log bounded, and the reader asks for
\* one page at a time.
IsDue(c) ==
  /\ "at" \in DOMAIN c => c.at = now
  /\ c.op = "create" => disk.rows[c.id] = None /\ \A t \in Making("create") : call[t].id # c.id
  /\ c.op = "record" => Len(disk.log) + Cardinality(Making("record")) < MaxEvents
  /\ c.op = "page" => Making("page") = {}

\* Bug: a newcomer may take the lock before the one it was promised to.
AskBarging(t, c) ==
  /\ call[t] = None
  /\ IsDue(c)
  /\ call' = [call EXCEPT ![t] = c]
  /\ line' = <<t>> \o line
  /\ reply' = None
  /\ UNCHANGED <<disk, isOpen, txn, now, suspect, exported, reader, faults>>

\* A task makes a call and stands in line for the lock, with no await between.
Ask(t, c) ==
  /\ call[t] = None
  /\ IsDue(c)
  /\ call' = [call EXCEPT ![t] = c]
  /\ line' = Append(line, t)
  /\ reply' = None
  /\ UNCHANGED <<disk, isOpen, txn, now, suspect, exported, reader, faults>>

\* Bug: the lock is released only when run() returns.
LeaveHolding(t, ok, value) ==
  /\ line' = IF ok THEN Tail(line) ELSE line
  /\ call' = IF ok THEN [call EXCEPT ![t] = None] ELSE call
  /\ reply' = [call |-> call[t], ok |-> ok, value |-> value]
  /\ UNCHANGED <<isOpen, now>>

\* The lock is released, whether run() returned or raised.
Leave(t, ok, value) ==
  /\ line' = Tail(line)
  /\ call' = [call EXCEPT ![t] = None]
  /\ reply' = [call |-> call[t], ok |-> ok, value |-> value]
  /\ UNCHANGED <<isOpen, now>>

\* Bug: a task cancelled while it waits keeps its place.
CancelInLine(t) ==
  /\ t \in ToSet(line)
  /\ call' = [call EXCEPT ![t] = None]
  /\ reply' = None
  /\ UNCHANGED <<disk, isOpen, txn, line, now, suspect, exported, reader, faults>>

\* A task that waits for the lock is cancelled; one whose statement runs in
\* its thread is not.
Cancel(t) ==
  /\ \E k \in DOMAIN line : line[k] = t /\ line' = RemoveAt(line, k)
  /\ call' = [call EXCEPT ![t] = None]
  /\ reply' = None
  /\ UNCHANGED <<disk, isOpen, txn, now, suspect, exported, reader, faults>>

-----------------------------------------------------------------------------
(* The connection *)

\* The committed state a transaction started from, and what it has made of it.
Base == IF txn.base = None THEN disk ELSE txn.base
View == IF txn.view = None THEN disk ELSE txn.view

\* SQLite refuses to write from a snapshot others have written past.
IsStale == Base # disk

\* A statement fails: the file is locked by the other process for too long,
\* a value cannot be bound, the device reports an error.
Fault == faults < MaxFaults /\ faults' = faults + 1

\* Bug: the commit is left out.
ExecuteUncommitted(t) ==
  /\ call[t].op \in {"create", "record"}
  /\ ~IsStale
  /\ txn' = [open |-> TRUE, base |-> disk, view |-> Put(View, call[t])]
  /\ suspect' = FALSE
  /\ Leave(t, TRUE, None)
  /\ UNCHANGED <<disk, exported, reader, faults>>

Execute(t) ==
  /\ call[t].op \in {"create", "record"}
  /\ ~IsStale
  /\ disk' = Put(View, call[t])
  /\ txn' = NoTxn
  /\ suspect' = FALSE
  /\ Leave(t, TRUE, None)
  /\ UNCHANGED <<exported, reader, faults>>

\* A statement that fails leaves its transaction open; a COMMIT that fails is
\* undone by SQLite.
ExecuteRaises(t) ==
  /\ call[t].op \in {"create", "record"}
  /\ IF IsStale THEN UNCHANGED faults ELSE Fault
  /\ \/ txn' = [txn EXCEPT !.open = TRUE] /\ suspect' = TRUE
     \/ ~IsStale /\ txn' = NoTxn /\ suspect' = FALSE
  /\ Leave(t, FALSE, None)
  /\ UNCHANGED <<disk, exported, reader>>

\* Bug: the link skips as many rows as a page may have.
FollowCapped(page) ==
  LET from == IF reader.offset = 0 THEN [AtStart EXCEPT !.owed = ToSet(View.log)] ELSE reader
  IN IF Len(page) = Limit
     THEN [from EXCEPT !.offset = @ + Cap, !.seen = @ \cup ToSet(page)]
     ELSE AtStart

\* The page has an "Older" link if it is full; without one the reader starts
\* over.
Follow(page) ==
  LET from == IF reader.offset = 0 THEN [AtStart EXCEPT !.owed = ToSet(View.log)] ELSE reader
  IN IF Len(page) = Limit
     THEN [from EXCEPT !.offset = @ + Limit, !.seen = @ \cup ToSet(page)]
     ELSE AtStart

\* A read inside an open transaction takes its snapshot, or keeps it.
Fetch(t) ==
  LET c == call[t] IN
  /\ c.op \in {"get", "export", "page"}
  /\ txn' = IF txn.open THEN [open |-> TRUE, base |-> Base, view |-> View] ELSE NoTxn
  /\ exported' = IF c.op = "export" THEN Value(View, c) ELSE exported
  /\ reader' = IF c.op = "page" THEN Follow(Value(View, c)) ELSE reader
  /\ Leave(t, TRUE, Value(View, c))
  /\ UNCHANGED <<disk, suspect, faults>>

FetchRaises(t) ==
  /\ call[t].op \in {"get", "export", "page"}
  /\ Fault
  /\ Leave(t, FALSE, None)
  /\ UNCHANGED <<disk, txn, suspect, exported, reader>>

\* BEGIN IMMEDIATE is refused inside a transaction; the UPDATE of
\* expire_overdue() joins it.
IsRefused(c) == IsStale \/ (c.op = "resolve" /\ txn.open)

Transact(t) ==
  /\ call[t].op \in {"resolve", "expire"}
  /\ ~IsRefused(call[t])
  /\ disk' = Put(View, call[t])
  /\ txn' = NoTxn
  /\ suspect' = FALSE
  /\ Leave(t, TRUE, Value(disk', call[t]))
  /\ UNCHANGED <<exported, reader, faults>>

\* Bug: work fails after its UPDATE and nothing rolls back.
TransactRaisesKeeping(t) ==
  /\ call[t].op \in {"resolve", "expire"}
  /\ IF IsRefused(call[t]) THEN UNCHANGED faults ELSE Fault
  /\ txn' = [open |-> TRUE, base |-> Base, view |-> Put(View, call[t])]
  /\ suspect' = FALSE
  /\ Leave(t, FALSE, None)
  /\ UNCHANGED <<disk, exported, reader>>

\* Whatever the work had done is rolled back.
TransactRaises(t) ==
  /\ call[t].op \in {"resolve", "expire"}
  /\ IF IsRefused(call[t]) THEN UNCHANGED faults ELSE Fault
  /\ txn' = NoTxn
  /\ suspect' = FALSE
  /\ Leave(t, FALSE, None)
  /\ UNCHANGED <<disk, exported, reader>>

\* _require(): there is no connection any more.
Refuse(t) == Leave(t, FALSE, None) /\ UNCHANGED <<disk, txn, suspect, exported, reader, faults>>

\* The task whose turn it is has its statements run.
Run ==
  /\ line # <<>>
  /\ LET t == Head(line) IN
     \/ isOpen /\ (Execute(t) \/ ExecuteRaises(t))
     \/ isOpen /\ (Fetch(t) \/ FetchRaises(t))
     \/ isOpen /\ (Transact(t) \/ TransactRaises(t))
     \/ ~isOpen /\ Refuse(t)

-----------------------------------------------------------------------------
(* The world *)

\* The UI's process settles a request, on a connection that never executes.
OtherProcess(i, status) ==
  /\ IsPending(disk.rows[i])
  /\ status = "expired" => disk.rows[i].expires <= now
  /\ disk' = [disk EXCEPT !.rows[i].status = status]
  /\ reply' = None
  /\ UNCHANGED <<isOpen, txn, line, call, now, suspect, exported, reader, faults>>

\* The process shuts down while UI requests are still served: the connection
\* is closed without the lock, which undoes what is not committed.
Close ==
  /\ isOpen
  /\ isOpen' = FALSE
  /\ txn' = NoTxn
  /\ suspect' = FALSE
  /\ reply' = None
  /\ UNCHANGED <<disk, line, call, now, exported, reader, faults>>

\* The process ends, or dies, and another opens the file.
Restart ==
  /\ isOpen' = TRUE
  /\ txn' = NoTxn
  /\ line' = <<>>
  /\ call' = [t \in Task |-> None]
  /\ reply' = None
  /\ suspect' = FALSE
  /\ UNCHANGED <<disk, now, exported, reader, faults>>

Tick ==
  /\ now < MaxClock
  /\ now' = now + 1
  /\ reply' = None
  /\ UNCHANGED <<disk, isOpen, txn, line, call, suspect, exported, reader, faults>>

Next ==
  \/ \E t \in Task : (\E c \in Calls : Ask(t, c)) \/ Cancel(t)
  \/ Run
  \/ \E i \in Id, status \in Status \ {"pending"} : OtherProcess(i, status)
  \/ Close
  \/ Restart
  \/ Tick

Spec == Init /\ [][Next]_vars

\* A worker thread runs what has the lock; a statement ends or fails, at the
\* latest by the busy timeout.
FairSpec == Spec /\ WF_vars(Run)

-----------------------------------------------------------------------------
(* Properties *)

AppliedOnceOrNever ==
  IF reply'.ok /\ reply'.call.op \in Writes
  THEN disk' = Put(disk, reply'.call) /\ reply'.value = Value(disk', reply'.call)
  ELSE disk' = disk

\* A call that writes and returns has been applied once to what was committed,
\* and returns what is committed then; one that raises has no effect, then or
\* later (execute, transact).
CallsAreAtomic == [][reply' # None /\ reply' # reply => AppliedOnceOrNever]_vars

\* What is read is what is committed, decisions of the other process included,
\* unless an execute() has failed and nothing has ended its transaction since
\* (fetch_one, fetch_all).
OnlyAFailedWriteHidesDecisions ==
  [][reply' # None /\ reply' # reply /\ reply'.ok /\ ~suspect =>
       reply'.value = Value(disk', reply'.call)]_vars

\* "an export ... can be appended to by a later export without reordering"
\* (audit/store.py): rows enter the log in the order of their timestamps,
\* although these are taken before the lock.
LaterExportsExtendEarlier == [][IsPrefix(exported, exported')]_vars

\* Who follows "Older" from the first page to a page without it has seen every
\* event recorded when they began, whatever was recorded meanwhile (audit_log).
OlderPagesMissNothing ==
  [][reader.offset > 0 /\ reader'.offset = 0 =>
       reader.owed \subseteq reader.seen \cup ToSet(reply'.value)]_vars

\* Every call to the database returns or raises, unless its task is cancelled or
\* the process goes down first (Database, its lock).
EveryCallReturns == \A t \in Task : t \in ToSet(line) ~> t \notin ToSet(line)
=============================================================================

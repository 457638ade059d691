---------------------------- MODULE StorageProofs ----------------------------
(***************************************************************************)
(* Database calls are atomic, later exports extend earlier ones and paging *)
(* through the audit log misses nothing, for any number of tasks, requests *)
(* and events, pages of any length, and any failures and decisions of      *)
(* other processes.                                                        *)
(***************************************************************************)
EXTENDS Storage, SequenceTheorems, WellFoundedInduction, TLAPS

\* What is left on the connection is at most a snapshot that nothing has been
\* written to, and only a failed execute() leaves that.
TxnInv ==
  /\ suspect \in BOOLEAN
  /\ \/ ~suspect /\ txn = NoTxn
     \/ suspect /\ \E s : txn = [open |-> TRUE, base |-> s, view |-> s]

-----------------------------------------------------------------------------
(* The invariant *)

\* Nothing has been written to the transaction.
LEMMA SameSnapshot == ASSUME TxnInv PROVE View = Base
  <1>1. PICK s : txn = [open |-> txn.open, base |-> s, view |-> s] BY DEF TxnInv, NoTxn
  <1>2. txn.base = s /\ txn.view = s BY <1>1
  <1> QED BY <1>2 DEF View, Base

\* A read keeps the snapshot of an open transaction, or takes one.
LEMMA FetchKeeps == ASSUME TxnInv, NEW t, Fetch(t) PROVE TxnInv'
  <1>1. suspect' = suspect /\ (txn.open <=> suspect) BY DEF Fetch, TxnInv, NoTxn
  <1>2. CASE suspect
    <2>1. View = Base BY <1>2, SameSnapshot
    <2>2. txn' = [open |-> TRUE, base |-> Base, view |-> Base] BY <1>1, <1>2, <2>1 DEF Fetch
    <2> QED BY <1>1, <1>2, <2>2 DEF TxnInv
  <1>3. CASE ~suspect BY <1>1, <1>3 DEF Fetch, TxnInv, NoTxn
  <1> QED BY <1>2, <1>3

\* A statement that fails writes nothing to the transaction it leaves open.
LEMMA ExecuteRaisesKeeps == ASSUME TxnInv, NEW t, ExecuteRaises(t) PROVE TxnInv'
  <1>1. CASE txn' = [txn EXCEPT !.open = TRUE] /\ suspect' = TRUE
    <2>1. PICK o, s : txn = [open |-> o, base |-> s, view |-> s] BY DEF TxnInv, NoTxn
    <2>2. txn' = [open |-> TRUE, base |-> s, view |-> s] BY <1>1, <2>1
    <2> QED BY <1>1, <2>2 DEF TxnInv
  <1>2. CASE txn' = NoTxn /\ suspect' = FALSE BY <1>2 DEF TxnInv, NoTxn
  <1> QED BY <1>1, <1>2 DEF ExecuteRaises

LEMMA RunKeeps == ASSUME TxnInv, Run PROVE TxnInv'
  <1> DEFINE t == Head(line)
  <1> HIDE DEF t
  <1>1. CASE txn' = NoTxn /\ suspect' = FALSE BY <1>1 DEF TxnInv, NoTxn
  <1>2. CASE UNCHANGED <<txn, suspect>> BY <1>2 DEF TxnInv
  <1>3. CASE Execute(t) BY <1>1, <1>3 DEF Execute
  <1>4. CASE ExecuteRaises(t) BY <1>4, ExecuteRaisesKeeps
  <1>5. CASE Fetch(t) BY <1>5, FetchKeeps
  <1>6. CASE FetchRaises(t) BY <1>2, <1>6 DEF FetchRaises
  <1>7. CASE Transact(t) BY <1>1, <1>7 DEF Transact
  <1>8. CASE TransactRaises(t) BY <1>1, <1>8 DEF TransactRaises
  <1>9. CASE Refuse(t) BY <1>2, <1>9 DEF Refuse
  <1> QED BY <1>3, <1>4, <1>5, <1>6, <1>7, <1>8, <1>9 DEF Run, t

LEMMA NextKeeps == TxnInv /\ [Next]_vars => TxnInv'
  <1> SUFFICES ASSUME TxnInv, [Next]_vars PROVE TxnInv' OBVIOUS
  <1>1. CASE txn' = NoTxn /\ suspect' = FALSE BY <1>1 DEF TxnInv, NoTxn
  <1>2. CASE UNCHANGED <<txn, suspect>> BY <1>2 DEF TxnInv
  <1>3. ASSUME NEW t \in Task, NEW c \in Calls, Ask(t, c) PROVE TxnInv' BY <1>2, <1>3 DEF Ask
  <1>4. ASSUME NEW t \in Task, Cancel(t) PROVE TxnInv' BY <1>2, <1>4 DEF Cancel
  <1>5. CASE Run BY <1>5, RunKeeps
  <1>6. ASSUME NEW i \in Id, NEW status \in Status, OtherProcess(i, status) PROVE TxnInv'
    BY <1>2, <1>6 DEF OtherProcess
  <1>7. CASE Close BY <1>1, <1>7 DEF Close
  <1>8. CASE Restart BY <1>1, <1>8 DEF Restart
  <1>9. CASE Tick BY <1>2, <1>9 DEF Tick
  <1>10. CASE UNCHANGED vars BY <1>2, <1>10 DEF vars
  <1> QED BY <1>3, <1>4, <1>5, <1>6, <1>7, <1>8, <1>9, <1>10 DEF Next

\* No call leaves anything half done on the connection.
THEOREM Inductive == Spec => []TxnInv
  <1>1. Init => TxnInv BY DEF Init, TxnInv, NoTxn
  <1> QED BY <1>1, NextKeeps, PTL DEF Spec

-----------------------------------------------------------------------------
(* What the invariant means for a call *)

\* A transaction that is not stale sees what is committed.
LEMMA FreshView == ASSUME TxnInv, ~IsStale PROVE View = disk
  BY SameSnapshot DEF IsStale

\* Without a failed execute() behind it, the connection sees what is committed.
LEMMA CleanView == ASSUME TxnInv, ~suspect PROVE View = disk
  BY DEF TxnInv, NoTxn, View

\* execute() returns nothing.
LEMMA NothingReturned ==
  ASSUME NEW s, NEW c, c.op \in {"create", "record"} PROVE Value(s, c) = None
  BY DEF Value

\* Only what has the lock makes a reply.
LEMMA OnlyRunReplies ==
  ASSUME [Next]_vars, reply' # None, reply' # reply PROVE Run
  BY DEF Next, vars, Ask, Cancel, OtherProcess, Close, Restart, Tick

\* The reply is to the call at the head of the line.
LEMMA ReplyIs ==
  ASSUME NEW t, NEW ok, NEW value, Leave(t, ok, value)
  PROVE  reply'.call = call[t] /\ reply'.ok = ok /\ reply'.value = value
  BY DEF Leave

\* A call of any kind, by whether it writes and returns.
LEMMA RunIsAtomic ==
  ASSUME TxnInv, Run
  PROVE  AppliedOnceOrNever
  <1> DEFINE t == Head(line)
  <1> HIDE DEF t
  <1>1. ASSUME NEW value, Leave(t, FALSE, value), disk' = disk
        PROVE  AppliedOnceOrNever
    BY <1>1, ReplyIs DEF AppliedOnceOrNever
  <1>2. CASE Execute(t)
    <2>1. disk' = Put(disk, call[t]) BY <1>2, FreshView DEF Execute
    <2>2. reply'.call = call[t] /\ reply'.value = None BY <1>2, ReplyIs DEF Execute
    <2>3. Value(disk', call[t]) = None BY <1>2, NothingReturned DEF Execute
    <2>4. reply'.ok /\ call[t].op \in Writes BY <1>2, ReplyIs DEF Execute, Writes
    <2> QED BY <2>1, <2>2, <2>3, <2>4 DEF AppliedOnceOrNever
  <1>3. CASE Transact(t)
    <2>1. disk' = Put(disk, call[t]) BY <1>3, FreshView DEF Transact, IsRefused
    <2>2. reply'.call = call[t] /\ reply'.value = Value(disk', call[t])
      BY <1>3, ReplyIs DEF Transact
    <2>3. reply'.ok /\ call[t].op \in Writes BY <1>3, ReplyIs DEF Transact, Writes
    <2> QED BY <2>1, <2>2, <2>3 DEF AppliedOnceOrNever
  <1>4. CASE Fetch(t)
    <2>1. disk' = disk BY <1>4 DEF Fetch
    <2>2. reply'.call.op \notin Writes BY <1>4, ReplyIs DEF Fetch, Writes
    <2> QED BY <2>1, <2>2 DEF AppliedOnceOrNever
  <1>5. CASE ExecuteRaises(t) BY <1>1, <1>5 DEF ExecuteRaises
  <1>6. CASE FetchRaises(t) BY <1>1, <1>6 DEF FetchRaises
  <1>7. CASE TransactRaises(t) BY <1>1, <1>7 DEF TransactRaises
  <1>8. CASE Refuse(t) BY <1>1, <1>8 DEF Refuse
  <1> QED BY <1>2, <1>3, <1>4, <1>5, <1>6, <1>7, <1>8 DEF Run, t

\* A call that returns, with no failed execute() before it, tells what is
\* committed then.
LEMMA RunTellsTheTruth ==
  ASSUME TxnInv, Run, reply'.ok, ~suspect PROVE reply'.value = Value(disk', reply'.call)
  <1> DEFINE t == Head(line)
  <1> HIDE DEF t
  <1>1. CASE Fetch(t)
    <2>1. reply'.value = Value(View, call[t]) /\ reply'.call = call[t] /\ disk' = disk
      BY <1>1, ReplyIs DEF Fetch
    <2> QED BY <2>1, CleanView
  <1>2. CASE Execute(t)
    <2>1. reply'.value = None /\ reply'.call = call[t] BY <1>2, ReplyIs DEF Execute
    <2>2. Value(disk', call[t]) = None BY <1>2, NothingReturned DEF Execute
    <2> QED BY <2>1, <2>2
  <1>3. CASE Transact(t) BY <1>3, ReplyIs DEF Transact
  <1>4. ASSUME NEW value, Leave(t, FALSE, value) PROVE FALSE BY <1>4, ReplyIs
  <1>5. ~ExecuteRaises(t) /\ ~FetchRaises(t) /\ ~TransactRaises(t) /\ ~Refuse(t)
    BY <1>4 DEF ExecuteRaises, FetchRaises, TransactRaises, Refuse
  <1> QED BY <1>1, <1>2, <1>3, <1>5 DEF Run, t

-----------------------------------------------------------------------------
(* The theorems *)

\* A call that writes and returns is applied once, to what is committed, and
\* one that raises has no effect (Database.execute, Database.transact).
THEOREM CallsDoNotTear == Spec => CallsAreAtomic
  <1>1. TxnInv /\ [Next]_vars =>
          [reply' # None /\ reply' # reply => AppliedOnceOrNever]_vars
    BY OnlyRunReplies, RunIsAtomic
  <1> QED BY <1>1, Inductive, PTL DEF Spec, CallsAreAtomic

\* What is read is committed, unless an execute() failed before and nothing has
\* ended its transaction (Database.fetch_one, fetch_all).
THEOREM ReadsAreCommitted == Spec => OnlyAFailedWriteHidesDecisions
  <1>1. TxnInv /\ [Next]_vars =>
          [reply' # None /\ reply' # reply /\ reply'.ok /\ ~suspect =>
             reply'.value = Value(disk', reply'.call)]_vars
    BY OnlyRunReplies, RunTellsTheTruth
  <1> QED BY <1>1, Inductive, PTL DEF Spec, OnlyAFailedWriteHidesDecisions

-----------------------------------------------------------------------------
(* Types *)

\* Which calls carry what.
LEMMA CallFields ==
  ASSUME NEW c \in Calls
  PROVE  /\ c.op \in {"create", "resolve"} => c.id \in Id
         /\ c.op = "resolve" => c.verdict \in Verdict
         /\ c.op \in {"create", "expire", "record"} => "at" \in DOMAIN c /\ c.at \in 0..MaxClock
  BY StorageAssumption DEF Calls

\* A statement keeps the tables what they are, and only a recording one adds
\* to the log.
LEMMA PutTyped ==
  ASSUME NEW s \in Store, NEW c \in Calls
  PROVE  /\ Put(s, c) \in Store
         /\ c.op # "record" => Put(s, c).log = s.log
         /\ c.op = "record" => Put(s, c).log = Append(s.log, [id |-> Len(s.log) + 1, at |-> c.at])
  <1> USE CallFields, StorageAssumption
  <1>1. PICK rows \in [Id -> Row \cup {None}], log \in Seq(AuditRow) : s = [rows |-> rows, log |-> log]
    BY DEF Store
  <1>2. CASE c.op = "create"
    <2> DEFINE row == [status |-> "pending", expires |-> c.at + Timeout]
    <2>1. row \in Row BY <1>2 DEF Row, Status
    <2>2. [rows EXCEPT ![c.id] = row] \in [Id -> Row \cup {None}] BY <1>2, <2>1
    <2>3. Put(s, c) = [rows |-> [rows EXCEPT ![c.id] = row], log |-> log] BY <1>1, <1>2 DEF Put
    <2> QED BY <1>1, <1>2, <2>2, <2>3 DEF Store
  <1>3. CASE c.op = "record"
    <2> DEFINE row == [id |-> Len(log) + 1, at |-> c.at]
    <2>1. row \in AuditRow BY <1>3 DEF AuditRow
    <2>2. Append(log, row) \in Seq(AuditRow) BY <2>1
    <2>3. Put(s, c) = [rows |-> rows, log |-> Append(log, row)] BY <1>1, <1>3 DEF Put
    <2> DEFINE longer == Append(log, row)
    <2> HIDE DEF longer
    <2>4. Put(s, c) = [rows |-> rows, log |-> longer] /\ longer \in Seq(AuditRow)
      BY <2>2, <2>3 DEF longer
    <2>5. Put(s, c).log = longer /\ Put(s, c) \in Store BY <2>4 DEF Store
    <2>6. s.log = log BY <1>1
    <2> QED BY <1>3, <2>5, <2>6 DEF longer
  <1>4. CASE c.op = "resolve" /\ IsPending(s.rows[c.id])
    <2>1. rows[c.id] \in Row BY <1>1, <1>4 DEF IsPending
    <2>2. PICK e \in Nat : rows[c.id] = [status |-> "pending", expires |-> e]
      BY <1>1, <1>4, <2>1 DEF IsPending, Row
    <2> DEFINE row == [status |-> c.verdict, expires |-> e]
    <2>3. row \in Row BY <1>4 DEF Row, Status
    <2>4. Put(s, c) = [rows |-> [rows EXCEPT ![c.id] = row], log |-> log]
      BY <1>1, <1>4, <2>2 DEF Put
    <2> HIDE DEF row
    <2>5. [rows EXCEPT ![c.id] = row] \in [Id -> Row \cup {None}] BY <1>4, <2>3
    <2> QED BY <1>1, <1>4, <2>4, <2>5 DEF Store
  <1>5. CASE c.op = "expire"
    <2> DEFINE swept == [i \in Id |-> IF IsPending(rows[i]) /\ rows[i].expires <= c.at
                                      THEN [rows[i] EXCEPT !.status = "expired"] ELSE rows[i]]
    <2>1. Put(s, c) = [rows |-> swept, log |-> log] BY <1>1, <1>5 DEF Put
    <2>2. ASSUME NEW i \in Id PROVE swept[i] \in Row \cup {None}
      <3>1. CASE IsPending(rows[i])
        <4>1. [rows[i] EXCEPT !.status = "expired"] \in Row BY <3>1 DEF IsPending, Row, Status
        <4> QED BY <4>1
      <3> QED BY <3>1
    <2> HIDE DEF swept
    <2>3. swept \in [Id -> Row \cup {None}] BY <2>2 DEF swept
    <2> QED BY <1>1, <1>5, <2>1, <2>3 DEF Store
  <1>6. CASE c.op \notin Writes BY <1>1, <1>6 DEF Put, Writes, Store
  <1>7. CASE c.op = "resolve" /\ ~IsPending(s.rows[c.id]) BY <1>7 DEF Put
  <1> QED BY <1>2, <1>3, <1>4, <1>5, <1>6, <1>7 DEF Writes

-----------------------------------------------------------------------------
(* The order of the log *)

\* Rows are numbered as they are inserted, and never with an earlier timestamp.
InOrder(log) ==
  /\ \A k \in DOMAIN log : log[k].id = k
  /\ \A j, k \in DOMAIN log : j < k => log[j].at <= log[k].at

\* In an ordered log a row precedes another when it stands before it.
LEMMA PrecedesByPlace ==
  ASSUME NEW log \in Seq(AuditRow), InOrder(log), NEW j \in DOMAIN log, NEW k \in DOMAIN log
  PROVE  Precedes(log[j], log[k]) <=> j < k
  <1>1. log[j] \in AuditRow /\ log[k] \in AuditRow BY ElementOfSeq
  <1>2. log[j].at \in Nat /\ log[k].at \in Nat BY <1>1 DEF AuditRow
  <1>3. log[j].id = j /\ log[k].id = k BY DEF InOrder
  <1>4. j \in Nat /\ k \in Nat OBVIOUS
  <1>5. CASE j < k BY <1>2, <1>3, <1>4, <1>5 DEF InOrder, Precedes
  <1>6. CASE k < j BY <1>2, <1>3, <1>4, <1>6 DEF InOrder, Precedes
  <1>7. CASE j = k BY <1>2, <1>3, <1>4, <1>7 DEF Precedes
  <1> QED BY <1>4, <1>5, <1>6, <1>7

LEMMA LeastElement ==
  ASSUME NEW T, T \subseteq Nat, T # {} PROVE \E x \in T : \A y \in T : x <= y
  <1>1. PICK x \in T : \A y \in T : ~(<<y, x>> \in OpToRel(<, Nat))
    BY WFMin, NatLessThanWellFounded
  <1>2. \A y \in T : ~(y < x) BY <1>1 DEF OpToRel
  <1> QED BY <1>2

\* A function that grows on 1..n and stays within it moves nothing.
LEMMA GrowingIsIdentity ==
  ASSUME NEW n \in Nat, NEW f \in [1..n -> 1..n], \A i, j \in 1..n : i < j => f[i] < f[j]
  PROVE  \A i \in 1..n : f[i] = i
  <1>1. \A i \in 1..n : f[i] >= i
    <2> DEFINE Low == {i \in 1..n : f[i] < i}
    <2>1. SUFFICES ASSUME Low # {} PROVE FALSE OBVIOUS
    <2>2. Low \subseteq Nat OBVIOUS
    <2>3. PICK i \in Low : \A j \in Low : i <= j
      <3> HIDE DEF Low
      <3> QED BY <2>1, <2>2, LeastElement
    <2>4. f[i] \in 1..n /\ f[i] < i /\ i \in 1..n OBVIOUS
    <2>5. f[f[i]] < f[i] BY <2>4
    <2>6. f[i] \in Low BY <2>4, <2>5
    <2> QED BY <2>3, <2>4, <2>6
  <1>2. \A i \in 1..n : f[i] <= i
    <2> DEFINE High == {d \in 0..n : n - d \in 1..n /\ f[n - d] > n - d}
    <2>1. SUFFICES ASSUME High # {} PROVE FALSE
      <3>1. SUFFICES ASSUME NEW i \in 1..n, f[i] > i PROVE FALSE BY DEF High
      <3>2. n - i \in 0..n /\ n - (n - i) = i OBVIOUS
      <3>3. n - i \in High BY <3>1, <3>2
      <3> QED BY <2>1, <3>3
    <2>2. High \subseteq Nat OBVIOUS
    <2>3. PICK d \in High : \A e \in High : d <= e
      <3> HIDE DEF High
      <3> QED BY <2>1, <2>2, LeastElement
    <2> DEFINE i == n - d
    <2>4. i \in 1..n /\ f[i] \in 1..n /\ f[i] > i OBVIOUS
    <2>5. f[f[i]] > f[i] BY <2>4
    <2>6. n - f[i] \in 0..n /\ n - (n - f[i]) = f[i] BY <2>4
    <2>7. n - f[i] \in High BY <2>4, <2>5, <2>6
    <2>8. n - f[i] < d BY <2>4
    <2> QED BY <2>3, <2>4, <2>6, <2>7, <2>8
  <1> QED BY <1>1, <1>2

\* ORDER BY created_at, id gives an ordered log as it was inserted.
LEMMA OrderedAsInserted ==
  ASSUME NEW log \in Seq(AuditRow), InOrder(log)
  PROVE  OldestFirst(log) = log
  <1> DEFINE Sorted(s) == \A i, j \in DOMAIN log : i < j => Precedes(s[i], s[j])
             n == Len(log)
  <1>1. n \in Nat /\ DOMAIN log = 1..n OBVIOUS
  <1>2. log \in [DOMAIN log -> ToSet(log)] /\ Sorted(log) BY PrecedesByPlace DEF ToSet
  <1>3. ASSUME NEW s \in [DOMAIN log -> ToSet(log)], Sorted(s) PROVE s = log
    <2> DEFINE f == [i \in 1..n |-> s[i].id]
    <2>1. ASSUME NEW i \in 1..n PROVE f[i] \in 1..n /\ s[i] = log[f[i]]
      <3>1. PICK k \in 1..n : s[i] = log[k] BY <1>1 DEF ToSet
      <3>2. log[k].id = k BY <1>1 DEF InOrder
      <3> QED BY <3>1, <3>2
    <2>2. ASSUME NEW i \in 1..n, NEW j \in 1..n, i < j PROVE f[i] < f[j]
      <3>1. Precedes(log[f[i]], log[f[j]]) BY <1>1, <1>3, <2>1, <2>2
      <3>2. f[i] \in DOMAIN log /\ f[j] \in DOMAIN log BY <1>1, <2>1
      <3> HIDE DEF f
      <3> QED BY <3>1, <3>2, PrecedesByPlace
    <2>3. f \in [1..n -> 1..n] BY <2>1
    <2> HIDE DEF f, n
    <2>4. \A i \in 1..n : f[i] = i BY <1>1, <2>2, <2>3, GrowingIsIdentity
    <2>5. \A i \in DOMAIN log : s[i] = log[i] BY <1>1, <2>1, <2>4
    <2> QED BY <2>5
  <1> HIDE DEF n
  <1>4. OldestFirst(log) = CHOOSE s \in [DOMAIN log -> ToSet(log)] : Sorted(s) BY DEF OldestFirst
  <1> HIDE DEF Sorted
  <1> QED BY <1>2, <1>3, <1>4

-----------------------------------------------------------------------------
(* The pages of the log *)

LEMMA MinOfTwo ==
  ASSUME NEW a \in Int, NEW b \in Int PROVE Min({a, b}) = IF a <= b THEN a ELSE b
  <1> DEFINE m == IF a <= b THEN a ELSE b
  <1>1. m \in {a, b} /\ \A y \in {a, b} : m <= y OBVIOUS
  <1>2. \A x \in {a, b} : (\A y \in {a, b} : x <= y) => x = m OBVIOUS
  <1> HIDE DEF m
  <1>3. Min({a, b}) = m BY <1>1, <1>2 DEF Min
  <1> QED BY <1>3 DEF m

\* A page that is not full ends the log, and a full one has all the rows its
\* link skips.
LEMMA PageShows ==
  ASSUME NEW log \in Seq(AuditRow), InOrder(log), NEW skipped \in 0..Len(log)
  PROVE  LET page == Page(log, skipped)
             left == Len(log) - skipped
         IN /\ ToSet(page) \subseteq ToSet(log)
            /\ Len(page) = Limit =>
                 /\ Limit <= left
                 /\ \A r \in ToSet(log) : r.id <= left /\ left - Limit < r.id => r \in ToSet(page)
            /\ Len(page) # Limit =>
                 \A r \in ToSet(log) : r.id <= left => r \in ToSet(page)
  <1> DEFINE n == Len(log)
             newest == Reverse(log)
             last == IF n <= skipped + Limit THEN n ELSE skipped + Limit
             page == Page(log, skipped)
  <1>1. n \in Nat /\ skipped \in Nat /\ skipped <= n /\ Limit \in Nat \ {0} /\ Cap \in Int
    BY StorageAssumption
  <1>2. newest \in Seq(AuditRow) /\ Len(newest) = n /\ \A i \in 1..n : newest[i] = log[n - i + 1]
    <2>1. \A i \in 1..n : log[n - i + 1] \in AuditRow OBVIOUS
    <2>2. newest = [i \in 1..n |-> log[n - i + 1]] BY DEF Reverse
    <2> QED BY <1>1, <2>1, <2>2
  <1>3. page = SubSeq(newest, skipped + 1, last)
    <2>1. Limit <= Cap BY StorageAssumption
    <2>2. Min({Limit, Cap}) = Limit BY <1>1, <2>1, MinOfTwo
    <2>3. Min({n, skipped + Limit}) = last BY <1>1, MinOfTwo
    <2> HIDE DEF n, newest, last
    <2> QED BY <1>2, <2>2, <2>3, OrderedAsInserted DEF Page, newest
  <1> HIDE DEF newest, page
  <1>4. /\ last \in skipped..n
        /\ last = n \/ last = skipped + Limit
        /\ last <= skipped + Limit
    BY <1>1
  <1> HIDE DEF last
  <1>5. /\ page \in Seq(AuditRow) /\ Len(page) = last - skipped
        /\ \A i \in 1..(last - skipped) : page[i] = newest[skipped + i]
    BY <1>1, <1>2, <1>3, <1>4
  <1> HIDE DEF n
  <1>6. \A i \in 1..(last - skipped) : page[i] = log[n - skipped - i + 1]
    <2> SUFFICES ASSUME NEW i \in 1..(last - skipped) PROVE page[i] = log[n - skipped - i + 1]
      OBVIOUS
    <2>1. skipped + i \in 1..n BY <1>1, <1>4
    <2>2. n - (skipped + i) + 1 = n - skipped - i + 1 BY <1>1, <1>4
    <2> QED BY <1>2, <1>5, <2>1, <2>2
  <1>7. ToSet(page) \subseteq ToSet(log)
    <2> SUFFICES ASSUME NEW i \in 1..(last - skipped) PROVE page[i] \in ToSet(log)
      BY <1>1, <1>4, <1>5 DEF ToSet
    <2>1. n - skipped - i + 1 \in DOMAIN log BY <1>1, <1>4 DEF n
    <2> QED BY <1>6, <2>1 DEF ToSet
  <1>8. ASSUME NEW r \in ToSet(log), r.id <= n - skipped, n - last < r.id PROVE r \in ToSet(page)
    <2>1. PICK k \in 1..n : r = log[k] BY DEF ToSet, n
    <2>2. r.id = k BY <2>1 DEF InOrder, n
    <2> DEFINE i == n - skipped - k + 1
    <2>3. i \in 1..(last - skipped) BY <1>1, <1>4, <1>8, <2>2
    <2>4. n - skipped - i + 1 = k BY <1>1
    <2> HIDE DEF i
    <2>5. page[i] = r BY <1>6, <2>1, <2>3, <2>4
    <2>6. DOMAIN page = 1..(last - skipped) BY <1>1, <1>4, <1>5
    <2> QED BY <2>3, <2>5, <2>6 DEF ToSet
  <1>9. ASSUME NEW r \in ToSet(log) PROVE r.id \in 1..n
    <2>1. PICK k \in DOMAIN log : r = log[k] BY DEF ToSet
    <2> QED BY <2>1 DEF InOrder, n
  <1>10. Len(page) = Limit =>
           /\ Limit <= n - skipped
           /\ \A r \in ToSet(log) :
                r.id <= n - skipped /\ n - skipped - Limit < r.id => r \in ToSet(page)
    <2> SUFFICES ASSUME last - skipped = Limit
                 PROVE  /\ Limit <= n - skipped
                        /\ \A r \in ToSet(log) :
                             r.id <= n - skipped /\ n - skipped - Limit < r.id => r \in ToSet(page)
      BY <1>5
    <2>1. n - skipped - Limit = n - last BY <1>1, <1>4
    <2> QED BY <1>1, <1>4, <1>8, <2>1
  <1>11. Len(page) # Limit => \A r \in ToSet(log) : r.id <= n - skipped => r \in ToSet(page)
    <2> SUFFICES ASSUME last - skipped # Limit, NEW r \in ToSet(log), r.id <= n - skipped
                 PROVE  r \in ToSet(page)
      BY <1>5
    <2>1. last = n BY <1>1, <1>4
    <2>2. n - last < r.id BY <1>1, <1>9, <2>1
    <2> QED BY <1>8, <2>2
  <1> QED BY <1>7, <1>10, <1>11 DEF n, page

-----------------------------------------------------------------------------
(* The line *)

\* Where in the line an event waits to be recorded.
Recording == {k \in DOMAIN line : call[line[k]].op = "record"}

\* Who makes a call stands in the line once, and events wait in the order of
\* the timestamps they have.
LineInv ==
  /\ call \in [Task -> Calls \cup {None}]
  /\ line \in Seq(Task) /\ IsInjective(line) /\ ToSet(line) = {t \in Task : call[t] # None}
  /\ now \in 0..MaxClock
  /\ \A k \in Recording : call[line[k]].at <= now
  /\ \A j, k \in Recording : j < k => call[line[j]].at <= call[line[k]].at

\* The k-th in line leaves it and the others close up.
LeavesFrom(k) ==
  /\ Len(line') = Len(line) - 1
  /\ line' \in Seq(Task)
  /\ \A j \in 1..(Len(line) - 1) : line'[j] = line[IF j < k THEN j ELSE j + 1]
  /\ call' = [call EXCEPT ![line[k]] = None]

LEMMA FirstLeaves ==
  ASSUME LineInv, line # <<>>, NEW ok, NEW value, Leave(Head(line), ok, value)
  PROVE  LeavesFrom(1) /\ Head(line) = line[1] /\ 1 \in DOMAIN line
  <1>1. Head(line) = line[1] /\ line' = Tail(line) /\ 1 \in DOMAIN line BY DEF LineInv, Leave
  <1>2. \A j \in 1..(Len(line) - 1) : Tail(line)[j] = line[j + 1] BY DEF LineInv
  <1>3. \A j \in 1..(Len(line) - 1) : ~(j < 1) BY DEF LineInv
  <1>4. Len(Tail(line)) = Len(line) - 1 /\ Tail(line) \in Seq(Task) BY DEF LineInv
  <1> QED BY <1>1, <1>2, <1>3, <1>4 DEF LeavesFrom, Leave

LEMMA CancelledLeaves ==
  ASSUME LineInv, NEW t, Cancel(t)
  PROVE  \E k \in DOMAIN line : LeavesFrom(k)
  <1>1. PICK k \in DOMAIN line : line[k] = t /\ line' = RemoveAt(line, k) BY DEF Cancel
  <1> DEFINE n == Len(line)
             front == SubSeq(line, 1, k - 1)
             back == SubSeq(line, k + 1, n)
  <1>2. n \in Nat /\ k \in 1..n /\ line \in Seq(Task) BY DEF LineInv
  <1>3. front \in Seq(Task) /\ Len(front) = k - 1 /\ \A j \in 1..(k - 1) : front[j] = line[j]
    BY <1>2
  <1>4. back \in Seq(Task) /\ Len(back) = n - k /\ \A j \in 1..(n - k) : back[j] = line[k + j]
    BY <1>2
  <1>5. line' = front \o back BY <1>1 DEF RemoveAt
  <1> HIDE DEF front, back
  <1>6. line' \in Seq(Task) /\ Len(line') = n - 1
    BY <1>2, <1>3, <1>4, <1>5, ConcatProperties
  <1>7. ASSUME NEW j \in 1..(n - 1) PROVE line'[j] = line[IF j < k THEN j ELSE j + 1]
    <2>1. CASE j < k
      <3>1. line'[j] = front[j] BY <1>2, <1>3, <1>4, <1>5, <2>1, ConcatProperties
      <3> QED BY <1>2, <1>3, <2>1, <3>1
    <2>2. CASE ~(j < k)
      <3>1. j \in 1..(Len(front) + Len(back)) /\ ~(j <= Len(front)) BY <1>2, <1>3, <1>4, <2>2
      <3>2. line'[j] = back[j - Len(front)] BY <1>3, <1>4, <1>5, <3>1, ConcatProperties
      <3>3. line'[j] = back[j - (k - 1)] BY <1>3, <3>2
      <3>4. j - (k - 1) \in 1..(n - k) /\ k + (j - (k - 1)) = j + 1 BY <1>2, <2>2
      <3> QED BY <1>4, <2>2, <3>3, <3>4
    <2> QED BY <2>1, <2>2
  <1>8. call' = [call EXCEPT ![line[k]] = None] BY <1>1 DEF Cancel
  <1> QED BY <1>6, <1>7, <1>8 DEF LeavesFrom

\* Who is left in the line keeps its call and its place among the others.
LEMMA LeavingKeepsOrder ==
  ASSUME LineInv, NEW k \in DOMAIN line, LeavesFrom(k), now' = now
  PROVE  /\ LineInv'
         /\ \A j \in Recording' : \E i \in Recording :
              i # k /\ call'[line'[j]] = call[line[i]]
  <1> DEFINE n == Len(line)
             was(j) == IF j < k THEN j ELSE j + 1
  <1>1. n \in Nat /\ k \in 1..n /\ DOMAIN line = 1..n /\ DOMAIN line' = 1..(n - 1)
    BY DEF LineInv, LeavesFrom
  <1>2. ASSUME NEW j \in 1..(n - 1)
        PROVE  /\ was(j) \in 1..n /\ was(j) # k /\ line'[j] = line[was(j)]
               /\ line[was(j)] \in Task
    BY <1>1 DEF LeavesFrom, LineInv
  <1>3. \A j \in 1..(n - 1) : call'[line'[j]] = call[line[was(j)]]
    <2> SUFFICES ASSUME NEW j \in 1..(n - 1) PROVE call'[line'[j]] = call[line[was(j)]] OBVIOUS
    <2>1. line[was(j)] # line[k] BY <1>1, <1>2 DEF LineInv, IsInjective
    <2> HIDE DEF was
    <2> QED BY <1>2, <2>1 DEF LeavesFrom, LineInv
  <1>4. \A i, j \in 1..(n - 1) : i < j <=> was(i) < was(j) BY <1>1
  <1>5. \A i, j \in 1..(n - 1) : was(i) = was(j) => i = j BY <1>1
  <1>6. \A i \in 1..n : i # k => \E j \in 1..(n - 1) : was(j) = i
    <2> SUFFICES ASSUME NEW i \in 1..n, i # k PROVE \E j \in 1..(n - 1) : was(j) = i OBVIOUS
    <2>1. CASE i < k
      <3> WITNESS i \in 1..(n - 1)
      <3> QED BY <2>1
    <2>2. CASE i > k
      <3>1. i - 1 \in 1..(n - 1) /\ was(i - 1) = i BY <1>1, <2>2
      <3> QED BY <3>1
    <2> QED BY <1>1, <2>1, <2>2
  <1> HIDE DEF was, n
  <1>7. \A j \in Recording' : j \in 1..(n - 1) /\ was(j) \in Recording
    BY <1>1, <1>2, <1>3 DEF Recording
  <1>8. call' \in [Task -> Calls \cup {None}] BY DEF LineInv, LeavesFrom
  <1>9. line' \in Seq(Task) BY DEF LeavesFrom
  <1>10. IsInjective(line')
    <2> SUFFICES ASSUME NEW i \in 1..(n - 1), NEW j \in 1..(n - 1), line'[i] = line'[j] PROVE i = j
      BY <1>1 DEF IsInjective
    <2>1. was(i) = was(j) BY <1>1, <1>2 DEF LineInv, IsInjective
    <2> QED BY <1>5, <2>1
  <1>11. ToSet(line') = {t \in Task : call'[t] # None}
    <2>1. ASSUME NEW t \in ToSet(line') PROVE t \in Task /\ call'[t] # None
      <3>1. PICK j \in 1..(n - 1) : t = line'[j] BY <1>1 DEF ToSet
      <3>2. line[was(j)] \in ToSet(line) BY <1>1, <1>2 DEF ToSet
      <3> QED BY <1>2, <1>3, <3>1, <3>2 DEF LineInv
    <2>2. ASSUME NEW t \in Task, call'[t] # None PROVE t \in ToSet(line')
      <3>1. t # line[k] /\ call[t] # None BY <2>2 DEF LeavesFrom, LineInv
      <3>2. t \in ToSet(line) BY <3>1 DEF LineInv
      <3>3. PICK i \in 1..n : t = line[i] BY <1>1, <3>2 DEF ToSet
      <3>4. PICK j \in 1..(n - 1) : was(j) = i BY <1>6, <3>1, <3>3
      <3>5. line'[j] = t BY <1>2, <3>3, <3>4
      <3> QED BY <1>1, <3>5 DEF ToSet
    <2> QED BY <2>1, <2>2
  <1>12. \A j \in Recording' : call'[line'[j]].at <= now'
    BY <1>3, <1>7 DEF LineInv
  <1>13. \A i, j \in Recording' : i < j => call'[line'[i]].at <= call'[line'[j]].at
    BY <1>3, <1>4, <1>7 DEF LineInv
  <1>14. \A j \in Recording' : \E i \in Recording : i # k /\ call'[line'[j]] = call[line[i]]
    BY <1>2, <1>3, <1>7
  <1>15. now' \in 0..MaxClock BY DEF LineInv
  <1>16. LineInv' BY <1>8, <1>9, <1>10, <1>11, <1>12, <1>13, <1>15 DEF LineInv
  <1> QED BY <1>14, <1>16

LEMMA AskKeepsOrder ==
  ASSUME LineInv, NEW t \in Task, NEW c \in Calls, Ask(t, c)
  PROVE  /\ LineInv'
         /\ \A j \in Recording' : \/ j \in Recording /\ call'[line'[j]] = call[line[j]]
                                  \/ call'[line'[j]].at = now
  <1> DEFINE n == Len(line)
  <1>1. /\ n \in Nat /\ DOMAIN line = 1..n
        /\ line' = Append(line, t) /\ line' \in Seq(Task) /\ Len(line') = n + 1
        /\ DOMAIN line' = 1..(n + 1)
        /\ \A j \in 1..n : line'[j] = line[j]
        /\ line'[n + 1] = t
    BY DEF LineInv, Ask
  <1>2. call' = [call EXCEPT ![t] = c] /\ call[t] = None /\ now' = now /\ c # None
    BY NoneAssumption DEF Ask
  <1>3. \A j \in 1..n : line[j] \in Task /\ line[j] # t
    <2> SUFFICES ASSUME NEW j \in 1..n PROVE line[j] \in Task /\ line[j] # t OBVIOUS
    <2>1. line[j] \in ToSet(line) BY <1>1 DEF ToSet
    <2> QED BY <1>2, <2>1 DEF LineInv
  <1>4. (\A j \in 1..n : call'[line'[j]] = call[line[j]]) /\ call'[line'[n + 1]] = c
    BY <1>1, <1>2, <1>3 DEF LineInv
  <1>5. c.op = "record" => c.at = now BY CallFields DEF Ask, IsDue
  <1> HIDE DEF n
  <1>6. ASSUME NEW j \in Recording'
        PROVE  \/ j \in Recording /\ j \in 1..n /\ call'[line'[j]] = call[line[j]]
               \/ j = n + 1 /\ call'[line'[j]].at = now
    <2>1. CASE j \in 1..n BY <1>1, <1>4, <2>1 DEF Recording
    <2>2. CASE j = n + 1 BY <1>4, <1>5, <2>2 DEF Recording
    <2> QED BY <1>1, <2>1, <2>2 DEF Recording
  <1>7. call' \in [Task -> Calls \cup {None}] BY <1>2 DEF LineInv
  <1>8. IsInjective(line')
    BY <1>1, <1>3 DEF LineInv, IsInjective
  <1>9. ToSet(line') = {u \in Task : call'[u] # None}
    <2>1. ToSet(line') = ToSet(line) \cup {t}
      <3>1. \A u : u \in ToSet(line') <=> u \in ToSet(line) \/ u = t BY <1>1 DEF ToSet
      <3> QED BY <3>1
    <2>2. {u \in Task : call'[u] # None} = {u \in Task : call[u] # None} \cup {t}
      BY <1>2 DEF LineInv
    <2> QED BY <2>1, <2>2 DEF LineInv
  <1>10. \A j \in Recording' : call'[line'[j]].at <= now'
    BY <1>2, <1>6 DEF LineInv
  <1>11. \A i, j \in Recording' : i < j => call'[line'[i]].at <= call'[line'[j]].at
    <2> SUFFICES ASSUME NEW i \in Recording', NEW j \in Recording', i < j
                 PROVE  call'[line'[i]].at <= call'[line'[j]].at
      OBVIOUS
    <2>1. CASE j \in Recording /\ j \in 1..n /\ call'[line'[j]] = call[line[j]]
      <3>1. i \in Recording /\ call'[line'[i]] = call[line[i]] BY <1>1, <1>6, <2>1
      <3> QED BY <2>1, <3>1 DEF LineInv
    <2>2. CASE call'[line'[j]].at = now BY <1>2, <1>10, <2>2
    <2> QED BY <1>6, <2>1, <2>2
  <1>12. LineInv' BY <1>1, <1>2, <1>7, <1>8, <1>9, <1>10, <1>11 DEF LineInv
  <1> QED BY <1>6, <1>12

-----------------------------------------------------------------------------
(* The invariant of the log and its readers *)

\* No event is recorded with an earlier timestamp than those in the log.
LogInv ==
  /\ disk \in Store /\ InOrder(disk.log)
  /\ \A e \in DOMAIN disk.log : disk.log[e].at <= now
  /\ \A k \in Recording, e \in DOMAIN disk.log : disk.log[e].at <= call[line[k]].at

\* Whatever snapshot the connection keeps has the log as it is, for only this
\* process adds to it.
SnapshotInv ==
  /\ txn \in [open : BOOLEAN, base : Store \cup {None}, view : Store \cup {None}]
  /\ ~txn.open => txn = NoTxn
  /\ txn.base # None => txn.base.log = disk.log

\* What has been read is still there, and who pages has seen what they skip.
ReadInv ==
  /\ exported \in Seq(AuditRow) /\ IsPrefix(exported, disk.log)
  /\ reader \in [offset : Nat, seen : SUBSET ToSet(disk.log), owed : SUBSET ToSet(disk.log)]
  /\ reader.offset <= Len(disk.log)
  /\ \A r \in reader.owed : Len(disk.log) - reader.offset < r.id => r \in reader.seen

RestInv ==
  /\ isOpen \in BOOLEAN /\ faults \in 0..MaxFaults
  /\ reply = None \/ (reply.call \in Calls /\ reply.ok \in BOOLEAN)

Inv == TxnInv /\ LineInv /\ LogInv /\ SnapshotInv /\ ReadInv /\ RestInv

LEMMA InvTypes == Inv => TypeOK
  BY DEF Inv, TypeOK, TxnInv, LineInv, LogInv, SnapshotInv, ReadInv, RestInv

\* What the connection sees has the committed log.
LEMMA ViewHasLog ==
  ASSUME TxnInv, LogInv, SnapshotInv
  PROVE  Base \in Store /\ View = Base /\ View.log = disk.log
  <1>1. View = Base BY SameSnapshot
  <1>2. Base \in Store BY DEF Base, SnapshotInv, LogInv
  <1>3. Base.log = disk.log BY DEF Base, SnapshotInv
  <1> QED BY <1>1, <1>2, <1>3

-----------------------------------------------------------------------------
(* Steps of what has the lock *)

\* Whoever runs is the first in line, and leaves it.
LEMMA RunLeaves ==
  ASSUME LineInv, Run
  PROVE  /\ 1 \in DOMAIN line /\ Head(line) = line[1]
         /\ call[line[1]] \in Calls
         /\ LeavesFrom(1) /\ now' = now /\ isOpen' = isOpen
         /\ reply'.call = call[line[1]] /\ reply'.ok \in BOOLEAN
  <1> DEFINE t == Head(line)
  <1>1. line # <<>> BY DEF Run
  <1>2. \E value : \E ok \in BOOLEAN : Leave(t, ok, value)
    <2> HIDE DEF t
    <2>1. CASE Execute(t) BY <2>1 DEF Execute
    <2>2. CASE ExecuteRaises(t) BY <2>2 DEF ExecuteRaises
    <2>3. CASE Fetch(t) BY <2>3 DEF Fetch
    <2>4. CASE FetchRaises(t) BY <2>4 DEF FetchRaises
    <2>5. CASE Transact(t) BY <2>5 DEF Transact
    <2>6. CASE TransactRaises(t) BY <2>6 DEF TransactRaises
    <2>7. CASE Refuse(t) BY <2>7 DEF Refuse
    <2> QED BY <2>1, <2>2, <2>3, <2>4, <2>5, <2>6, <2>7 DEF Run, t
  <1>3. PICK value : \E ok \in BOOLEAN : Leave(t, ok, value) BY <1>2
  <1>4. PICK ok \in BOOLEAN : Leave(t, ok, value) BY <1>3
  <1>5. LeavesFrom(1) /\ t = line[1] /\ 1 \in DOMAIN line BY <1>1, <1>4, FirstLeaves
  <1>6. now' = now /\ isOpen' = isOpen BY <1>4 DEF Leave
  <1>7. reply'.call = call[t] /\ reply'.ok = ok BY <1>4, ReplyIs
  <1>8. call[line[1]] \in Calls
    <2>1. line[1] \in ToSet(line) BY <1>5 DEF ToSet
    <2> QED BY <2>1 DEF LineInv
  <1> QED BY <1>5, <1>6, <1>7, <1>8

\* What a run leaves on disk: the log as it was, or one event more.
Recorded(c) == disk'.log = Append(disk.log, [id |-> Len(disk.log) + 1, at |-> c.at])

LEMMA RunWrites ==
  ASSUME TxnInv, LineInv, LogInv, Run
  PROVE  /\ disk' \in Store
         /\ \/ disk'.log = disk.log
            \/ call[line[1]].op = "record" /\ Recorded(call[line[1]])
  <1> DEFINE t == Head(line)
             c == call[line[1]]
  <1>1. t = line[1] /\ c \in Calls BY RunLeaves
  <1> HIDE DEF t
  <1>2. CASE UNCHANGED disk BY <1>2 DEF LogInv
  <1>3. CASE disk' = Put(disk, c)
    <2>1. disk \in Store BY DEF LogInv
    <2>2. CASE c.op = "record" BY <1>1, <1>3, <2>1, <2>2, PutTyped DEF Recorded
    <2>3. CASE c.op # "record" BY <1>1, <1>3, <2>1, <2>3, PutTyped
    <2> QED BY <2>2, <2>3
  <1>4. CASE Execute(t) BY <1>1, <1>3, <1>4, FreshView DEF Execute
  <1>5. CASE ExecuteRaises(t) BY <1>2, <1>5 DEF ExecuteRaises
  <1>6. CASE Fetch(t) BY <1>2, <1>6 DEF Fetch
  <1>7. CASE FetchRaises(t) BY <1>2, <1>7 DEF FetchRaises
  <1>8. CASE Transact(t) BY <1>1, <1>3, <1>8, FreshView DEF Transact, IsRefused
  <1>9. CASE TransactRaises(t) BY <1>2, <1>9 DEF TransactRaises
  <1>10. CASE Refuse(t) BY <1>2, <1>10 DEF Refuse
  <1> QED BY <1>4, <1>5, <1>6, <1>7, <1>8, <1>9, <1>10 DEF Run, t

\* An event that is recorded is the newest of the log.
LEMMA RecordingKeepsOrder ==
  ASSUME LineInv, LogInv, Run, call[line[1]].op = "record", Recorded(call[line[1]])
  PROVE  /\ InOrder(disk'.log)
         /\ DOMAIN disk'.log = 1..(Len(disk.log) + 1)
         /\ \A e \in DOMAIN disk.log : disk'.log[e] = disk.log[e]
         /\ disk'.log[Len(disk.log) + 1].at = call[line[1]].at
  <1> DEFINE n == Len(disk.log)
             c == call[line[1]]
             row == [id |-> n + 1, at |-> c.at]
  <1>1. disk.log \in Seq(AuditRow) /\ n \in Nat /\ DOMAIN disk.log = 1..n BY DEF LogInv, Store
  <1>2. 1 \in DOMAIN line /\ c \in Calls BY RunLeaves
  <1>3. 1 \in Recording BY <1>2 DEF Recording
  <1>4. \A e \in 1..n : disk.log[e].at <= c.at BY <1>1, <1>3 DEF LogInv
  <1>5. c.at \in Nat BY <1>2, CallFields, StorageAssumption
  <1>6. row \in AuditRow BY <1>1, <1>5 DEF AuditRow
  <1>7. row.id = n + 1 /\ row.at = c.at OBVIOUS
  <1>8. disk'.log = Append(disk.log, row) BY DEF Recorded
  <1> HIDE DEF row, n
  <1>9. /\ DOMAIN disk'.log = 1..(n + 1)
        /\ \A e \in 1..n : disk'.log[e] = disk.log[e]
        /\ disk'.log[n + 1] = row
    BY <1>1, <1>6, <1>8, AppendProperties DEF n
  <1>10. \A k \in 1..(n + 1) : disk'.log[k].id = k BY <1>1, <1>7, <1>9 DEF LogInv, InOrder
  <1>11. \A j, k \in 1..(n + 1) : j < k => disk'.log[j].at <= disk'.log[k].at
    <2> SUFFICES ASSUME NEW j \in 1..(n + 1), NEW k \in 1..(n + 1), j < k
                 PROVE  disk'.log[j].at <= disk'.log[k].at
      OBVIOUS
    <2>1. j \in 1..n /\ disk'.log[j] = disk.log[j] BY <1>1, <1>9
    <2>2. CASE k = n + 1
      <3>1. disk'.log[k].at = c.at BY <1>7, <1>9, <2>2
      <3> QED BY <1>4, <2>1, <3>1
    <2>3. CASE k \in 1..n
      <3>1. disk'.log[k] = disk.log[k] BY <1>9, <2>3
      <3>2. disk.log[j].at <= disk.log[k].at BY <1>1, <2>1, <2>3 DEF LogInv, InOrder
      <3> QED BY <2>1, <3>1, <3>2
    <2> QED BY <1>1, <2>2, <2>3
  <1> QED BY <1>1, <1>7, <1>9, <1>10, <1>11 DEF InOrder, n

LEMMA RunKeepsLog ==
  ASSUME TxnInv, LineInv, LogInv, Run
  PROVE  LineInv' /\ LogInv'
  <1>1. /\ 1 \in DOMAIN line /\ call[line[1]] \in Calls /\ LeavesFrom(1) /\ now' = now
    BY RunLeaves
  <1>2. /\ LineInv'
        /\ \A j \in Recording' : \E i \in Recording : i # 1 /\ call'[line'[j]] = call[line[i]]
    BY <1>1, LeavingKeepsOrder
  <1>3. disk' \in Store BY RunWrites
  <1>4. CASE disk'.log = disk.log
    <2>1. \A j \in Recording', e \in DOMAIN disk'.log : disk'.log[e].at <= call'[line'[j]].at
      BY <1>2, <1>4 DEF LogInv
    <2>2. InOrder(disk'.log) /\ \A e \in DOMAIN disk'.log : disk'.log[e].at <= now'
      BY <1>1, <1>4 DEF LogInv
    <2> QED BY <1>2, <1>3, <2>1, <2>2 DEF LogInv
  <1>5. CASE call[line[1]].op = "record" /\ Recorded(call[line[1]])
    <2> DEFINE n == Len(disk.log)
    <2>1. /\ InOrder(disk'.log) /\ DOMAIN disk'.log = 1..(n + 1)
          /\ \A e \in DOMAIN disk.log : disk'.log[e] = disk.log[e]
          /\ disk'.log[n + 1].at = call[line[1]].at
      BY <1>5, RecordingKeepsOrder
    <2>2. n \in Nat /\ DOMAIN disk.log = 1..n BY DEF LogInv, Store
    <2>3. 1 \in Recording BY <1>1, <1>5 DEF Recording
    <2> HIDE DEF n
    <2>4. ASSUME NEW e \in DOMAIN disk'.log PROVE disk'.log[e].at <= now'
      <3>1. CASE e = n + 1 BY <1>1, <2>1, <2>3, <3>1 DEF LineInv
      <3>2. CASE e \in 1..n BY <1>1, <2>1, <2>2, <3>2 DEF LogInv
      <3> QED BY <2>1, <2>2, <3>1, <3>2
    <2>5. ASSUME NEW j \in Recording', NEW e \in DOMAIN disk'.log
          PROVE  disk'.log[e].at <= call'[line'[j]].at
      <3>1. PICK i \in Recording : i # 1 /\ call'[line'[j]] = call[line[i]] BY <1>2
      <3>2. 1 < i
        <4>1. i \in Nat /\ i >= 1 BY DEF Recording, LineInv
        <4> QED BY <3>1, <4>1
      <3>3. CASE e = n + 1
        <4>1. call[line[1]].at <= call[line[i]].at BY <2>3, <3>2 DEF LineInv
        <4> QED BY <2>1, <3>1, <3>3, <4>1
      <3>4. CASE e \in 1..n BY <2>1, <2>2, <3>1, <3>4 DEF LogInv
      <3> QED BY <2>1, <2>2, <3>3, <3>4
    <2> QED BY <1>2, <1>3, <2>1, <2>4, <2>5 DEF LogInv
  <1> QED BY <1>4, <1>5, RunWrites

-----------------------------------------------------------------------------
(* Steps of the readers *)

\* The rest of ReadInv, of a reader who has come to r in a log.
Paged(r, log) ==
  /\ r \in [offset : Nat, seen : SUBSET ToSet(log), owed : SUBSET ToSet(log)]
  /\ r.offset <= Len(log)
  /\ \A e \in r.owed : Len(log) - r.offset < e.id => e \in r.seen

\* Following a link keeps count of what is skipped, and a page without one
\* shows all that is left.
LEMMA FollowKeeps ==
  ASSUME LogInv, View.log = disk.log, Paged(reader, disk.log)
  PROVE  LET page == Page(disk.log, reader.offset)
         IN /\ Paged(Follow(page), disk.log)
            /\ reader.offset > 0 /\ Follow(page).offset = 0
                 => reader.owed \subseteq reader.seen \cup ToSet(page)
  <1> DEFINE log == disk.log
             n == Len(log)
             page == Page(log, reader.offset)
             from == IF reader.offset = 0 THEN [AtStart EXCEPT !.owed = ToSet(View.log)]
                     ELSE reader
             rows == ToSet(log)
  <1>1. log \in Seq(AuditRow) /\ n \in Nat /\ InOrder(log) BY DEF LogInv, Store
  <1>2. PICK o \in Nat, seen \in SUBSET rows, owed \in SUBSET rows :
          from = [offset |-> o, seen |-> seen, owed |-> owed] /\ o = reader.offset
    <2>1. CASE reader.offset = 0
      <3>1. from = [offset |-> 0, seen |-> {}, owed |-> rows] BY <2>1 DEF AtStart
      <3> QED BY <2>1, <3>1
    <2>2. CASE reader.offset # 0 BY <2>2 DEF Paged
    <2> QED BY <2>1, <2>2
  <1>3. o \in 0..n BY <1>1, <1>2 DEF Paged
  <1>4. \A e \in rows : e.id \in 1..n
    <2> SUFFICES ASSUME NEW k \in DOMAIN log PROVE log[k].id \in 1..n BY DEF ToSet
    <2> QED BY <1>1 DEF InOrder
  <1>5. \A e \in owed : n - o < e.id => e \in seen
    <2>1. CASE reader.offset = 0 BY <1>1, <1>2, <1>4, <2>1
    <2>2. CASE reader.offset # 0
      <3>1. from = reader BY <2>2
      <3>2. o = reader.offset /\ seen = reader.seen /\ owed = reader.owed BY <1>2, <3>1
      <3> QED BY <3>2 DEF Paged
    <2> QED BY <2>1, <2>2
  <1> HIDE DEF from, page
  <1>6. /\ ToSet(page) \subseteq rows
        /\ Len(page) = Limit =>
             /\ Limit <= n - o
             /\ \A e \in rows : e.id <= n - o /\ n - o - Limit < e.id => e \in ToSet(page)
        /\ Len(page) # Limit => \A e \in rows : e.id <= n - o => e \in ToSet(page)
    <2> HIDE DEF log
    <2> QED BY <1>1, <1>2, <1>3, PageShows DEF page
  <1>7. Limit \in Nat \ {0} BY StorageAssumption
  <1> HIDE DEF rows, n
  <1>8. CASE Len(page) = Limit
    <2> DEFINE shown == ToSet(page)
    <2> HIDE DEF shown
    <2>1. Follow(page) = [from EXCEPT !.offset = @ + Limit, !.seen = @ \cup shown]
      BY <1>8 DEF Follow, from, shown
    <2>2. Follow(page) = [offset |-> o + Limit, seen |-> seen \cup ToSet(page), owed |-> owed]
      BY <1>2, <2>1 DEF shown
    <2>3. \A e \in owed : n - (o + Limit) < e.id => e \in seen \cup ToSet(page)
      <3> SUFFICES ASSUME NEW e \in owed, n - (o + Limit) < e.id PROVE e \in seen \cup ToSet(page)
        OBVIOUS
      <3>1. e.id \in Nat /\ n \in Nat BY <1>1, <1>4 DEF n
      <3>2. CASE n - o < e.id BY <1>5, <3>2
      <3>3. CASE ~(n - o < e.id)
        <4>1. e.id <= n - o /\ n - o - Limit < e.id BY <1>7, <3>1, <3>3
        <4> QED BY <1>6, <1>8, <4>1
      <3> QED BY <3>2, <3>3
    <2>4. o + Limit \in Nat \ {0} /\ o + Limit <= n BY <1>1, <1>6, <1>7, <1>8 DEF n
    <2>5. Paged(Follow(page), log) BY <1>6, <2>2, <2>3, <2>4 DEF Paged, rows, n
    <2>6. Follow(page).offset # 0 BY <2>2, <2>4
    <2> QED BY <2>5, <2>6 DEF page
  <1>9. CASE Len(page) # Limit
    <2>1. Follow(page) = [offset |-> 0, seen |-> {}, owed |-> {}]
      BY <1>9 DEF Follow, AtStart
    <2>2. Paged(Follow(page), log) BY <1>1, <2>1 DEF Paged, n
    <2>3. ASSUME reader.offset > 0, NEW e \in reader.owed PROVE e \in reader.seen \cup ToSet(page)
      <3>1. e \in rows /\ e.id \in Nat /\ n \in Nat
        BY <1>1, <1>4, <2>3 DEF Paged, rows, n
      <3>2. CASE n - o < e.id BY <1>2, <2>3, <3>2 DEF Paged, n
      <3>3. CASE e.id <= n - o BY <1>6, <1>9, <3>1, <3>3
      <3> QED BY <3>1, <3>2, <3>3
    <2> QED BY <2>2, <2>3 DEF page
  <1> QED BY <1>8, <1>9

\* The log only grows, so what has been read is still there.
LEMMA ReadStays ==
  ASSUME LogInv, ReadInv, UNCHANGED <<exported, reader>>,
         disk'.log = disk.log \/ \E c \in Calls : c.op = "record" /\ Recorded(c)
  PROVE  ReadInv'
  <1> DEFINE n == Len(disk.log)
  <1>1. CASE disk'.log = disk.log BY <1>1 DEF ReadInv
  <1>2. ASSUME NEW c \in Calls, c.op = "record", Recorded(c) PROVE ReadInv'
    <2>1. disk.log \in Seq(AuditRow) /\ n \in Nat BY DEF LogInv, Store
    <2>2. [id |-> n + 1, at |-> c.at] \in AuditRow
      BY <1>2, <2>1, CallFields, StorageAssumption DEF AuditRow
    <2>3. /\ disk'.log \in Seq(AuditRow) /\ Len(disk'.log) = n + 1
          /\ \A i \in 1..n : disk'.log[i] = disk.log[i]
      BY <1>2, <2>1, <2>2, AppendProperties DEF Recorded
    <2>4. ToSet(disk.log) \subseteq ToSet(disk'.log)
      <3> SUFFICES ASSUME NEW i \in 1..n PROVE disk.log[i] \in ToSet(disk'.log)
        BY <2>1 DEF ToSet
      <3> QED BY <2>1, <2>3 DEF ToSet
    <2>5. IsPrefix(exported', disk'.log)
      <3> DEFINE m == Len(exported)
      <3>1. m \in Nat /\ m <= n BY DEF ReadInv, IsPrefix
      <3>2. SubSeq(exported, 1, m) = SubSeq(disk.log, 1, m) BY DEF ReadInv, IsPrefix
      <3>3. SubSeq(disk'.log, 1, m) = SubSeq(disk.log, 1, m)
        BY <2>1, <2>3, <3>1
      <3> QED BY <2>1, <2>3, <3>1, <3>2, <3>3 DEF IsPrefix
    <2> HIDE DEF n
    <2>6. \A e \in reader.owed : e.id \in Nat
      <3> SUFFICES ASSUME NEW e \in reader.owed PROVE e.id \in Nat OBVIOUS
      <3>1. PICK k \in DOMAIN disk.log : e = disk.log[k] BY DEF ReadInv, ToSet
      <3> QED BY <2>1, <3>1 DEF LogInv, InOrder
    <2>7. reader.offset \in Nat /\ reader.offset <= n BY DEF ReadInv, n
    <2>8. \A e \in reader.owed : (n + 1) - reader.offset < e.id => e \in reader.seen
      <3> SUFFICES ASSUME NEW e \in reader.owed, (n + 1) - reader.offset < e.id
                   PROVE  e \in reader.seen
        OBVIOUS
      <3>1. n - reader.offset < e.id BY <2>1, <2>6, <2>7
      <3> QED BY <3>1 DEF ReadInv, n
    <2>9. reader.offset <= Len(disk'.log) BY <2>1, <2>3, <2>7
    <2> QED BY <2>3, <2>4, <2>5, <2>8, <2>9 DEF ReadInv
  <1> QED BY <1>1, <1>2

LEMMA RunKeepsReads ==
  ASSUME TxnInv, LineInv, LogInv, SnapshotInv, ReadInv, Run
  PROVE  ReadInv'
  <1> DEFINE t == Head(line)
  <1>1. /\ t = line[1] /\ call[line[1]] \in Calls
        /\ disk'.log = disk.log
             \/ (call[line[1]].op = "record" /\ Recorded(call[line[1]]))
    BY RunLeaves, RunWrites
  <1> HIDE DEF t
  <1>2. CASE UNCHANGED <<exported, reader>> BY <1>1, <1>2, ReadStays
  <1>3. CASE Fetch(t)
    <2>1. View.log = disk.log BY ViewHasLog
    <2>2. disk.log \in Seq(AuditRow) /\ InOrder(disk.log) BY DEF LogInv, Store
    <2>3. disk' = disk BY <1>3 DEF Fetch
    <2>4. exported' \in Seq(AuditRow) /\ IsPrefix(exported', disk.log)
      <3>1. CASE exported' = exported BY <3>1 DEF ReadInv
      <3>2. CASE call[t].op = "export"
        <4>1. exported' = disk.log
          BY <1>3, <2>1, <2>2, <3>2, OrderedAsInserted DEF Fetch, Value
        <4> QED BY <2>2, <4>1 DEF IsPrefix
      <3> QED BY <1>3, <3>1, <3>2 DEF Fetch
    <2>5. Paged(reader, disk.log) BY DEF ReadInv, Paged
    <2>6. Paged(reader', disk.log)
      <3>1. CASE reader' = reader BY <2>5, <3>1
      <3>2. CASE call[t].op = "page"
        <4>1. reader' = Follow(Page(disk.log, reader.offset))
          BY <1>3, <2>1, <3>2 DEF Fetch, Value
        <4> QED BY <2>1, <2>5, <4>1, FollowKeeps
      <3> QED BY <1>3, <3>1, <3>2 DEF Fetch
    <2> QED BY <2>3, <2>4, <2>6 DEF ReadInv, Paged
  <1>4. CASE Execute(t) BY <1>2, <1>4 DEF Execute
  <1>5. CASE ExecuteRaises(t) BY <1>2, <1>5 DEF ExecuteRaises
  <1>6. CASE FetchRaises(t) BY <1>2, <1>6 DEF FetchRaises
  <1>7. CASE Transact(t) BY <1>2, <1>7 DEF Transact
  <1>8. CASE TransactRaises(t) BY <1>2, <1>8 DEF TransactRaises
  <1>9. CASE Refuse(t) BY <1>2, <1>9 DEF Refuse
  <1> QED BY <1>3, <1>4, <1>5, <1>6, <1>7, <1>8, <1>9 DEF Run, t

LEMMA RunKeepsSnapshot ==
  ASSUME TxnInv, LineInv, LogInv, SnapshotInv, RestInv, Run
  PROVE  SnapshotInv' /\ RestInv'
  <1> DEFINE t == Head(line)
  <1>1. t = line[1] /\ reply'.call \in Calls /\ reply'.ok \in BOOLEAN /\ isOpen' = isOpen
    BY RunLeaves
  <1> HIDE DEF t
  <1>2. faults' \in 0..MaxFaults => RestInv' BY <1>1 DEF RestInv
  <1>3. ASSUME Fault PROVE faults' \in 0..MaxFaults BY <1>3, StorageAssumption DEF Fault, RestInv
  <1>4. ASSUME UNCHANGED faults PROVE faults' \in 0..MaxFaults BY <1>4 DEF RestInv
  <1>5. ASSUME txn' = NoTxn PROVE SnapshotInv' BY <1>5 DEF SnapshotInv, NoTxn
  <1>6. ASSUME UNCHANGED <<disk, txn>> PROVE SnapshotInv' BY <1>6 DEF SnapshotInv
  <1>7. CASE Execute(t) BY <1>2, <1>4, <1>5, <1>7 DEF Execute
  <1>8. CASE ExecuteRaises(t)
    <2>1. faults' \in 0..MaxFaults BY <1>3, <1>4, <1>8 DEF ExecuteRaises
    <2>2. disk' = disk BY <1>8 DEF ExecuteRaises
    <2>3. CASE txn' = [txn EXCEPT !.open = TRUE]
      <3>1. txn' \in [open : BOOLEAN, base : Store \cup {None}, view : Store \cup {None}]
        BY <2>3 DEF SnapshotInv
      <3>2. txn'.open /\ txn'.base = txn.base BY <2>3 DEF SnapshotInv
      <3> QED BY <1>2, <2>1, <2>2, <3>1, <3>2 DEF SnapshotInv
    <2>4. CASE txn' = NoTxn BY <1>2, <1>5, <2>1, <2>4
    <2> QED BY <1>8, <2>3, <2>4 DEF ExecuteRaises
  <1>9. CASE Fetch(t)
    <2>1. disk' = disk /\ UNCHANGED faults BY <1>9 DEF Fetch
    <2>2. CASE txn' = [open |-> TRUE, base |-> Base, view |-> View]
      <3>1. Base \in Store /\ View \in Store /\ Base.log = disk.log BY ViewHasLog
      <3> QED BY <1>2, <1>4, <2>1, <2>2, <3>1 DEF SnapshotInv
    <2>3. CASE txn' = NoTxn BY <1>2, <1>4, <1>5, <2>1, <2>3
    <2> QED BY <1>9, <2>2, <2>3 DEF Fetch
  <1>10. CASE FetchRaises(t) BY <1>2, <1>3, <1>6, <1>10 DEF FetchRaises
  <1>11. CASE Transact(t) BY <1>2, <1>4, <1>5, <1>11 DEF Transact
  <1>12. CASE TransactRaises(t) BY <1>2, <1>3, <1>4, <1>5, <1>12 DEF TransactRaises
  <1>13. CASE Refuse(t) BY <1>2, <1>4, <1>6, <1>13 DEF Refuse
  <1> QED BY <1>7, <1>8, <1>9, <1>10, <1>11, <1>12, <1>13 DEF Run, t

-----------------------------------------------------------------------------
(* The other steps *)

LEMMA AskKeeps ==
  ASSUME Inv, NEW t \in Task, NEW c \in Calls, Ask(t, c) PROVE Inv'
  <1>1. /\ LineInv'
        /\ \A j \in Recording' : \/ j \in Recording /\ call'[line'[j]] = call[line[j]]
                                 \/ call'[line'[j]].at = now
    BY AskKeepsOrder DEF Inv
  <1>2. UNCHANGED <<disk, isOpen, txn, now, suspect, exported, reader, faults>> /\ reply' = None
    BY DEF Ask
  <1>3. TxnInv' /\ SnapshotInv' /\ ReadInv' /\ RestInv'
    BY <1>2 DEF Inv, TxnInv, SnapshotInv, ReadInv, RestInv
  <1>4. \A j \in Recording', e \in DOMAIN disk.log : disk.log[e].at <= call'[line'[j]].at
    BY <1>1 DEF Inv, LogInv
  <1>5. LogInv' BY <1>2, <1>4 DEF Inv, LogInv
  <1> QED BY <1>1, <1>3, <1>5 DEF Inv

LEMMA CancelKeeps ==
  ASSUME Inv, NEW t, Cancel(t) PROVE Inv'
  <1>1. PICK k \in DOMAIN line : LeavesFrom(k) BY CancelledLeaves DEF Inv
  <1>2. UNCHANGED <<disk, isOpen, txn, now, suspect, exported, reader, faults>> /\ reply' = None
    BY DEF Cancel
  <1>3. /\ LineInv'
        /\ \A j \in Recording' : \E i \in Recording : call'[line'[j]] = call[line[i]]
    BY <1>1, <1>2, LeavingKeepsOrder DEF Inv
  <1>4. TxnInv' /\ SnapshotInv' /\ ReadInv' /\ RestInv'
    BY <1>2 DEF Inv, TxnInv, SnapshotInv, ReadInv, RestInv
  <1>5. \A j \in Recording', e \in DOMAIN disk.log : disk.log[e].at <= call'[line'[j]].at
    BY <1>3 DEF Inv, LogInv
  <1>6. LogInv' BY <1>2, <1>5 DEF Inv, LogInv
  <1> QED BY <1>3, <1>4, <1>6 DEF Inv

LEMMA OtherProcessKeeps ==
  ASSUME Inv, NEW i \in Id, NEW status \in Status, OtherProcess(i, status) PROVE Inv'
  <1>1. PICK rows \in [Id -> Row \cup {None}], log \in Seq(AuditRow) :
          disk = [rows |-> rows, log |-> log]
    BY DEF Inv, LogInv, Store
  <1>2. IsPending(rows[i]) /\ disk' = [disk EXCEPT !.rows[i].status = status]
    BY <1>1 DEF OtherProcess
  <1>3. PICK e \in Nat : rows[i] = [status |-> "pending", expires |-> e]
    BY <1>2 DEF IsPending, Row
  <1> DEFINE row == [status |-> status, expires |-> e]
  <1>4. row \in Row BY DEF Row
  <1>5. disk' = [rows |-> [rows EXCEPT ![i] = row], log |-> log] BY <1>1, <1>2, <1>3
  <1> HIDE DEF row
  <1>6. [rows EXCEPT ![i] = row] \in [Id -> Row \cup {None}] BY <1>4
  <1>7. disk' \in Store /\ disk'.log = disk.log BY <1>1, <1>5, <1>6 DEF Store
  <1>8. UNCHANGED <<isOpen, txn, line, call, now, suspect, exported, reader, faults>>
        /\ reply' = None
    BY DEF OtherProcess
  <1> QED BY <1>7, <1>8
    DEF Inv, TxnInv, LineInv, LogInv, SnapshotInv, ReadInv, RestInv, Recording

LEMMA CloseKeeps == ASSUME Inv, Close PROVE Inv'
  <1>1. /\ UNCHANGED <<disk, line, call, now, exported, reader, faults>>
        /\ txn' = NoTxn /\ suspect' = FALSE /\ reply' = None /\ isOpen' = FALSE
    BY DEF Close
  <1> QED BY <1>1
    DEF Inv, TxnInv, LineInv, LogInv, SnapshotInv, ReadInv, RestInv, Recording, NoTxn

LEMMA RestartKeeps == ASSUME Inv, Restart PROVE Inv'
  <1>1. /\ UNCHANGED <<disk, now, exported, reader, faults>>
        /\ txn' = NoTxn /\ suspect' = FALSE /\ reply' = None /\ isOpen' = TRUE
        /\ line' = <<>> /\ call' = [t \in Task |-> None]
    BY DEF Restart
  <1>2. Recording' = {} /\ line' \in Seq(Task) BY <1>1 DEF Recording
  <1>3. LineInv' BY <1>1, <1>2 DEF Inv, LineInv, IsInjective, ToSet
  <1>4. LogInv' BY <1>1, <1>2 DEF Inv, LogInv
  <1>5. TxnInv' /\ SnapshotInv' /\ ReadInv' /\ RestInv'
    BY <1>1 DEF Inv, TxnInv, SnapshotInv, ReadInv, RestInv, NoTxn
  <1> QED BY <1>3, <1>4, <1>5 DEF Inv

LEMMA TickKeeps == ASSUME Inv, Tick PROVE Inv'
  <1>1. /\ UNCHANGED <<disk, isOpen, txn, line, call, suspect, exported, reader, faults>>
        /\ now' = now + 1 /\ now < MaxClock /\ reply' = None
    BY DEF Tick
  <1>2. now \in 0..MaxClock /\ now' \in 0..MaxClock
    BY <1>1, StorageAssumption DEF Inv, LineInv
  <1>3. LineInv'
    <2>1. Recording' = Recording BY <1>1 DEF Recording
    <2>2. ASSUME NEW k \in Recording PROVE call[line[k]].at <= now'
      <3>1. line[k] \in ToSet(line) /\ call[line[k]].op = "record" BY DEF Recording, ToSet
      <3>2. call[line[k]] \in Calls BY <3>1 DEF Inv, LineInv
      <3>3. call[line[k]].at \in Nat BY <3>1, <3>2, CallFields, StorageAssumption
      <3>4. call[line[k]].at <= now BY DEF Inv, LineInv
      <3> QED BY <1>1, <1>2, <3>3, <3>4
    <2> QED BY <1>1, <1>2, <2>1, <2>2 DEF Inv, LineInv
  <1>4. LogInv'
    <2>1. Recording' = Recording BY <1>1 DEF Recording
    <2>2. ASSUME NEW e \in DOMAIN disk.log PROVE disk.log[e].at <= now'
      <3>1. disk.log[e] \in AuditRow BY ElementOfSeq DEF Inv, LogInv, Store
      <3>2. disk.log[e].at \in Nat /\ disk.log[e].at <= now
        BY <3>1 DEF Inv, LogInv, AuditRow
      <3> QED BY <1>1, <1>2, <3>2
    <2> QED BY <1>1, <2>1, <2>2 DEF Inv, LogInv
  <1>5. TxnInv' /\ SnapshotInv' /\ ReadInv' /\ RestInv'
    BY <1>1 DEF Inv, TxnInv, SnapshotInv, ReadInv, RestInv
  <1> QED BY <1>3, <1>4, <1>5 DEF Inv

-----------------------------------------------------------------------------
(* The theorems about the log *)

LEMMA StepKeeps == ASSUME Inv, [Next]_vars PROVE Inv'
  <1>1. ASSUME NEW t \in Task, NEW c \in Calls, Ask(t, c) PROVE Inv' BY <1>1, AskKeeps
  <1>2. ASSUME NEW t \in Task, Cancel(t) PROVE Inv' BY <1>2, CancelKeeps
  <1>3. CASE Run
    <2>1. TxnInv' BY <1>3, RunKeeps DEF Inv
    <2>2. LineInv' /\ LogInv' BY <1>3, RunKeepsLog DEF Inv
    <2>3. ReadInv' BY <1>3, RunKeepsReads DEF Inv
    <2>4. SnapshotInv' /\ RestInv' BY <1>3, RunKeepsSnapshot DEF Inv
    <2> QED BY <2>1, <2>2, <2>3, <2>4 DEF Inv
  <1>4. ASSUME NEW i \in Id, NEW status \in Status, OtherProcess(i, status) PROVE Inv'
    BY <1>4, OtherProcessKeeps
  <1>5. CASE Close BY <1>5, CloseKeeps
  <1>6. CASE Restart BY <1>6, RestartKeeps
  <1>7. CASE Tick BY <1>7, TickKeeps
  <1>8. CASE UNCHANGED vars
    BY <1>8
    DEF vars, Inv, TxnInv, LineInv, LogInv, SnapshotInv, ReadInv, RestInv, Recording
  <1> QED BY <1>1, <1>2, <1>3, <1>4, <1>5, <1>6, <1>7, <1>8 DEF Next

LEMMA InitInv == Init => Inv
  <1> SUFFICES ASSUME Init PROVE Inv OBVIOUS
  <1>1. TxnInv BY DEF Init, TxnInv, NoTxn
  <1>2. Recording = {} BY DEF Init, Recording
  <1>3. LineInv BY <1>2, StorageAssumption DEF Init, LineInv, IsInjective, ToSet
  <1>4. disk \in Store /\ disk.log = <<>> BY DEF Init, Store
  <1>5. LogInv BY <1>2, <1>4 DEF LogInv, InOrder
  <1>6. SnapshotInv BY DEF Init, SnapshotInv, NoTxn
  <1>7. ReadInv
    <2>1. reader = [offset |-> 0, seen |-> {}, owed |-> {}] /\ exported = <<>>
      BY DEF Init, AtStart
    <2>2. IsPrefix(exported, disk.log) BY <1>4, <2>1 DEF IsPrefix
    <2> QED BY <1>4, <2>1, <2>2 DEF ReadInv
  <1>8. RestInv BY StorageAssumption DEF Init, RestInv
  <1> QED BY <1>1, <1>3, <1>5, <1>6, <1>7, <1>8 DEF Inv

LEMMA InductiveInv == Spec => []Inv
  BY InitInv, StepKeeps, PTL DEF Spec

\* Tables, transaction, line and readers are what they should be, and who makes
\* a call stands in the line exactly once (Database, its lock).
THEOREM TypeCorrect == Spec => []TypeOK
  BY InductiveInv, InvTypes, PTL

\* An export is a prefix of every later one: events enter the log in the order
\* of timestamps that were taken before the lock, for the lock is fair
\* (AuditLogger.record, AuditStore.export).
THEOREM ExportsOnlyGrow == Spec => LaterExportsExtendEarlier
  <1>1. ASSUME Inv, [Next]_vars PROVE IsPrefix(exported, exported')
    <2>1. disk.log \in Seq(AuditRow) /\ InOrder(disk.log) BY <1>1 DEF Inv, LogInv, Store
    <2>2. exported \in Seq(AuditRow) /\ IsPrefix(exported, disk.log) BY <1>1 DEF Inv, ReadInv
    <2>3. exported' = exported \/ exported' = disk.log
      <3> DEFINE t == Head(line)
      <3> HIDE DEF t
      <3>1. CASE Fetch(t)
        <4>1. View.log = disk.log BY <1>1, ViewHasLog DEF Inv
        <4> QED BY <2>1, <3>1, <4>1, OrderedAsInserted DEF Fetch, Value
      <3>2. CASE Run /\ ~Fetch(t)
        BY <3>2 DEF Run, t, Execute, ExecuteRaises, FetchRaises, Transact, TransactRaises, Refuse
      <3>3. CASE ~Run
        BY <1>1, <3>3 DEF Next, vars, Ask, Cancel, OtherProcess, Close, Restart, Tick
      <3> QED BY <3>1, <3>2, <3>3
    <2>4. IsPrefix(exported, exported) BY <2>2 DEF IsPrefix
    <2> QED BY <2>2, <2>3, <2>4
  <1>2. Inv /\ [Next]_vars => [IsPrefix(exported, exported')]_vars BY <1>1
  <1> QED BY <1>2, InductiveInv, PTL DEF Spec, LaterExportsExtendEarlier

\* Whoever follows "Older" to a page without it has seen every event recorded
\* when they began, whatever was recorded meanwhile (audit_log, recent).
THEOREM PagingMissesNothing == Spec => OlderPagesMissNothing
  <1>1. ASSUME Inv, [Next]_vars, reader.offset > 0, reader'.offset = 0
        PROVE  reader.owed \subseteq reader.seen \cup ToSet(reply'.value)
    <2> DEFINE t == Head(line)
    <2>1. reader' # reader BY <1>1 DEF Inv, ReadInv
    <2>2. Run
      BY <1>1, <2>1 DEF Next, vars, Ask, Cancel, OtherProcess, Close, Restart, Tick
    <2> HIDE DEF t
    <2>3. Fetch(t)
      BY <2>1, <2>2 DEF Run, t, Execute, ExecuteRaises, FetchRaises, Transact, TransactRaises, Refuse
    <2>4. View.log = disk.log BY <1>1, ViewHasLog DEF Inv
    <2>5. call[t].op = "page" /\ reader' = Follow(Page(disk.log, reader.offset))
      BY <2>1, <2>3, <2>4 DEF Fetch, Value
    <2>6. reply'.value = Page(disk.log, reader.offset)
      <3>1. reply'.value = Value(View, call[t]) BY <2>3, ReplyIs DEF Fetch
      <3> QED BY <2>4, <2>5, <3>1 DEF Value
    <2>7. Paged(reader, disk.log) BY <1>1 DEF Inv, ReadInv, Paged
    <2> QED BY <1>1, <2>4, <2>5, <2>6, <2>7, FollowKeeps DEF Inv
  <1>2. Inv /\ [Next]_vars =>
          [reader.offset > 0 /\ reader'.offset = 0 =>
             reader.owed \subseteq reader.seen \cup ToSet(reply'.value)]_vars
    BY <1>1
  <1> QED BY <1>2, InductiveInv, PTL DEF Spec, OlderPagesMissNothing
=============================================================================

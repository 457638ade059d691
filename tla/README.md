# mcp-gatekeeper in TLA+

mcp-gatekeeper stands between an MCP client and its tool servers: every
`tools/call` is looked up, judged by policy, possibly parked until a person
decides, forwarded, and written to an audit log. This directory holds TLA+
models of the parts where that is hard to get right, the TLC runs that check
them, and TLAPS proofs of what matters most. `PROJECT.json` maps every
definition to the lines it models (`src/mcp_gatekeeper/`).

## Inventory

| Component | State | Operations | Interacts with |
|---|---|---|---|
| Approval service (`approvals/service.py`) | `_events`: one `anyio.Event` per parked call | `open`, `decide`, `dismiss`, `get`, `wait`, `pending` | store below; gateway and UI above |
| Approval store (`approvals/store.py`, `models.py`) | the `approvals` table | `create`, `get`, `resolve`, `expire_overdue`, `pending` | database |
| Gateway (`proxy/gateway.py`, `server.py`) | `_registry`; one coroutine per call | `call_tool`, `list_tools`, `refresh_registry` | registry, policy, service, upstreams, audit |
| Registry (`proxy/registry.py`) | immutable snapshot of tools | `build`, `namespace`, `split_namespace` | upstreams, gateway |
| Policy engine (`policy/engine.py`, `models.py`) | none | `evaluate` | globs |
| Globs (`policy/glob.py`) | none | `match_tool`, `match_path`, `canonical_value` | – |
| Audit (`audit/`) | the `audit_events` table | `record`, `recent`, `export_jsonl`, `redact_arguments` | database |
| Upstreams (`proxy/upstream.py`) | open connections | connect, `list_tools`, `call_tool`, close | MCP SDK |
| UI (`ui/app.py`) | none of its own | queue page, approval page, `decide`, audit page | service, audit |
| Database (`db.py`) | one shared SQLite connection and a lock | `execute`, `fetch_*`, `transact` | worker threads |
| Config (`config/`), CLI (`cli.py`) | configuration file | load, validate, wire, serve | all |

What is hard:

* **Concurrency.** Every request is a coroutine on one event loop, and every
  database call is an await. Two approvers, a retrying client, a sweep started
  by a page and a waiter at its deadline all act on one row.
* **Time.** Deadlines are compared in three places (`wait`, `is_expired_at`,
  the SQL of `expire_overdue`), rows expire only when somebody reads, and the
  statement's time is read before the lock is taken.
* **Two ways to wait.** An in-process event and half-second polling, because
  the UI may run in another process.
* **Failure.** Clients hang up in the middle, upstreams fail or lose replies,
  the process restarts with calls parked, clients come back with the state of
  a database that has since been replaced.
* **Snapshots.** Policy and registry are read when a call is parked and again
  when it is retried; refreshes overlap.
* **One connection for everybody.** Every task's statements run on the same
  SQLite connection, so what a failed statement leaves on it is the next task's
  problem, whoever that is.
* **A file decides.** What a rule covers depends on how the document is read,
  how its globs compile and how a path is followed into a call's arguments;
  what is stored depends on a second use of the same globs.
* **Start and stop.** Upstreams come up one by one or fail, an interrupt may
  come at any time, and requests may still be at work when connections go.

What makes each part correct: the first decision stands; nobody grants or
refuses who may not; whoever is told something is told what is on record; a
waiter is woken and always let go; nothing runs that was not permitted; the
audit log says what happened and agrees with the queue; a broken upstream hurts
itself only; the first rule of the document all of whose statements are true
decides, and silence never widens a rule; the audit log masks what the document
says and loses nothing else; a database call happens entirely or not at all;
exports and pages do not depend on when they are taken.

## Modules

| Module | Models |
|---|---|
| `ApprovalQueue` | what the queue promises: at most one verdict per request, by somebody entitled to it, told truly. No clock, database, event or coroutine |
| `ApprovalService` | service and store at the grain of one database call per step, driven as the gateway and the UI drive them |
| `Gateway` | one `tools/call` from lookup to audit row, over the abstract queue (`Queue == INSTANCE ApprovalQueue`) |
| `Registry` | names, `ToolRegistry.build` and overlapping runs of `refresh_registry` |
| `Serve` | extends `Registry` to the life of a process: `run` and `_serve`, `UpstreamManager` |
| `Glob` | the pattern compiler and what a compiled pattern matches; what the documentation says a glob covers |
| `Arguments` | extends `Glob`: the JSON values that the arguments of a call are made of |
| `PolicyEngine` | extends `Arguments`: `evaluate`, rule by rule |
| `Config` | what a `gatekeeper.yaml` must be to be accepted, and the policy it becomes |
| `PolicyDocument` | extends `PolicyEngine` with `Config`: one call judged by the policy its document states; what the documentation says of a rule |
| `Redaction` | extends `Arguments`: `redact_arguments` |
| `GovernedCall` | extends the last two: one call from the document to the rows that keep its arguments |
| `Storage` | `db.py` and the statements of both stores on it, a reader of the audit log, the UI in another process |
| `ApprovalQueueProofs`, `ApprovalServiceProofs`, `GatewayProofs`, `GlobProofs`, `GovernedCallProofs`, `PolicyEngineProofs`, `ServeProofs`, `StorageProofs` | the proofs |
| `MC...` | constants for TLC |

`Gateway` may use `ApprovalQueue` in place of the service because
`ApprovalService` implements it: checked by `approval_refines_queue`, proved as
`Refinement`. `Retry`, `View`, `Decide` and `Park` of `ApprovalService` are the
first half of handlers whose other half (policy, upstream, audit) is in
`Gateway`.

Definitions marked *Bug* are mutated forms of the definition that follows them.
No specification uses them; each stands for a mistake that the property
`PROJECT.json` pairs it with must, and does, reject.

### ApprovalService: what a step is

A database call holds the connection's lock from before its statement until the
coroutine that made it has resumed (`async with self._lock: await
run_sync(...)`), and anyio does not cancel a thread call half way. A resumed
coroutine then runs undisturbed to its next await. So one action is one
database call *and* the code up to the next await, and `pc[t]` names the call
task `t` is queued for:

| `pc` | Waiting for | Action |
|---|---|---|
| `create` | `store.create` in `open` | `Create` |
| `firstGet` | the first `store.get` in `wait` | `FirstGet` |
| `asleep` | the event or the half-second timer | `WakeOnEvent`, `WakeOnTimer` |
| `reGet` | `store.get` in the loop | `ReGet` |
| `get`, `reread` | the two reads of `get` | `Get`, `Reread` |
| `sweep` | `expire_overdue` | `Sweep` |
| `list` | `store.pending`, the second call of `pending` | `List` |
| `resolve` | `resolve`, for `decide`, `dismiss` or a fail-open deadline | `Resolve` |
| `done` | the answer on its way out | `Finish` |

Times are read *before* the lock is queued for, hence `frame[t].stamp`. But the
lock is fair, so the statements of one process are carried out in the order of
their stamps (`InTurn`; the UI is in the same process if `UiInProcess`). Reads
carry no time and may come anywhere in between. What this gives the queue page
is the second half of `NothingOverdueIsShownOpen`: in the gatekeeper's process
it lists nothing that was overdue when the page was asked for. It is not more
than that: a request whose deadline passes between the page's two calls is
listed as open, and so may be one that a gatekeeper in another process inserts
late.
`registered` and `fired` are the keys of `_events` and those whose event is
set. `Abandon` cancels a handler at any await, `Restart` loses everything but
the table, `Tick` advances the clock. Rows are never deleted, so an id that was
created stays; ids of a replaced database (`Forgotten`) are found by nobody.
Locals that are not read again are reset (`Spent`), which merges equal states
and nothing else. `Restart` also resets UI requests, as if a UI in another
process went down with the gatekeeper; such a UI could only carry on with a
request that this model lets start anew.

### Gateway

`stage[c]` is the await a call is at; `call[c]` what it knows. `Deadline` is the
waiting call's own deadline, `Sweep` somebody else's read past it. What registry
lookup and policy make of a call (its ruling) and whether its client supports
URL elicitation are chosen anew each time the code asks, since either may have
changed. An upstream may run a call and lose the reply (`UpstreamReplies` with
outcome `error`). A `Tool` is a tool with the arguments it is called with. A
retry may be of *any* tool and come with any link (`Retry`), for `call_tool`
takes `request_state` as it comes and compares it with nothing. So
`OnlyPermittedRuns` says that what runs came with a granted approval, and
`WhatRunsWasApproved`, which says that the approval was of that call, is refuted
by `gateway_retries`. The branch for an upstream that is not connected is left out: `ListedToolsHaveConnections` of `Serve` says that it
cannot be reached. A switched-off audit log is the business of `GovernedCall`.

### Registry and Serve

Names are sequences of characters, since joining and splitting them is the
point. A refresh reads the connected upstreams in order; a read may fail. Two
history variables say what was on offer at some time (`window`) and all the time
(`steady`) since a run began; no guard reads them.

`Serve` puts the life of `_serve` around this: `phase` is how far it is, `opened`
the exit stack of `UpstreamManager`. `Main` is the task of `_serve`, which does
the first refresh; the other clients are `tools/list` requests, which come in
with `Handle` and go on with `Work`. `Stop` is the end of the server: no request
comes in any more, but those at work go on or are cancelled, one by one.
`Forget` is the first thing `__aexit__` does, and `CloseLast` and `Exit` the
rest of the way. A uvicorn server that is made to exit at once does not wait for
its requests, so one may still be reading when the connections go; the
dictionary it iterates over has then changed size and its loop raises. `Interrupt`
is an interrupt during `__aenter__`, after which `__aexit__` is not called.

Neither the database nor the approval UI is part of `Serve`. UI requests are
tasks of uvicorn which the task group of `_serve` does not wait for, so they may
outlive the database; what happens to them then is `Close` of `Storage`.

### Config, Glob, PolicyEngine, PolicyDocument, Redaction and GovernedCall

A document is a function from the keys it has, so an absent key, a misspelt one
and an explicit `false` differ as they do in the file. An argument is a JSON
value: a record of its kind and its text, fields or items. Values nest finitely
(`Depth`), and `Index` is what `str()` makes of the positions in a list. Texts
are sequences of characters. `redact` is a recursive function of values, whose
body is `RedactedUnder`.

A compiled pattern is a sequence of fragments, one per regex fragment
`_compile` puts out, and `Ends` says what each matches; the regex engine is
`IsMatch`. `Emit` is one turn of `_compile`'s loop. In `PolicyDocument` a
document is loaded (`Load`) and `evaluate` goes through the rules it becomes
(`Evaluate`); `GovernedCall` adds what becomes of the arguments: a call that
needs approval is parked (`Park`) and in the end recorded (`Record`). What the
documentation says of globs, rules and redact patterns is defined a second
time, of the document as it is written and without the definitions of the code:
`Matches` (with `Covers`) in `Glob`, `Holds` (with `HasArgument` and `Within`) in
`PolicyDocument`, `CoversPath` and `IsStoredAs` in `GovernedCall`.

Two details of the code the references have to follow: `$` also matches before
a newline at the very end of a text, and a trailing `**` covers its parent only
behind another level, so `**.token` masks no top-level `token`.

`redact_arguments` joins the keys of a path with `/` and turns the dots of a
pattern into `/`. So a key that is empty, contains a `/` or ends in a newline,
and a pattern with a `/`, or with a `**` that is part of a level (`a**`), mean
something else to it than a path of keys and a pattern of levels. `PlainKey` and
`PlainPattern` rule these out; the instance has none (`PlainAssumption` of
`MCGovernedCall`), and `RedactionIsExact` says nothing of them.

### Storage

A call to the `Database` is one step (`Run`), made by the head of `line`, the
lock's holder. sqlite3 opens a transaction by itself before a statement that
writes; `txn` is the one that is left open, with the committed state it started
from (`base`) and what it has made of it (`view`). A statement may fail at any
time (`Fault`, bounded by `MaxFaults`) and must fail if others have committed
past its snapshot (`IsStale`, SQLite's BUSY_SNAPSHOT). `ExecuteRaises` leaves
the transaction open, `TransactRaises` rolls back; an open transaction makes
`BEGIN IMMEDIATE` fail (`IsRefused`). `OtherProcess` is a decision or an expiry
made by a UI in another process on the same file. `reader` follows the "Older"
links of the audit page. Times are taken before the lock, in the calls
themselves.

## Runs

| Run | Bounds | Shows |
|---|---|---|
| `approval_race` | 1 request, 3 tasks, 2 approvers, clock 0..2, timeout 1 | types, no consent by silence, true answers, no lost wakeup, first decision final, nothing overdue shown open |
| `approval_refines_queue` | 1 request and 1 forgotten id, 2 tasks, 1 approver, clock 0..2, fail-open, UI elsewhere | the inductive invariant of the proofs; the service implements the queue; polling alone delivers a decision; a passed deadline lets a blocked call go |
| `gateway_safety` | 3 calls, 1 request and 1 forgotten id, fail-open, mode auto | the inductive invariant of the proofs; only permitted calls run; the audit log agrees with the queue and with what ran; links are on file |
| `gateway_ends` | 2 calls, fail-closed | every call ends |
| `registry_refresh` | 2 upstreams that come up or fail, 2 definitions, `_serve` and 2 refreshes, changes of the upstreams | isolation of broken upstreams at the start and at a refresh, freshness of what is published, attribution of misses, what is listed is connected until the connections are forgotten |
| `storage` | 2 tasks, 1 request, 1 verdict, 2 events, 1 fault, clock 0..1, pages of 1 row of at most 2 | database calls are atomic; what is read is committed, with one exception; exports extend each other; paging misses nothing; every call returns |
| `governed_call` | documents of up to 3 of 12 rules, globs of up to 4 of 4 characters, texts of up to 3 of 3, up to 2 of 8 redact patterns on 5 argument objects | the document decides; silence never widens; redaction is exact |

Why the bounds are enough. Three tasks on one request give every pair of racing
writers a third party that reads. With `Timeout = 1` a deadline falls on a tick,
so "before", "at" and, with `MaxClock = 2`, "after" all occur. The polling
interval is shorter than a tick, so a timer may fire at any time. One sweep that
settles several rows at once, some not the sweeper's own, is beyond these
instances; the proofs cover any number. Three calls are one that parks and two
retries, which a second retry needs. The changes let both upstreams change
during a refresh. In `storage` two tasks suffice for one call to overtake
another in line; the other process conflicts with either by deciding or
expiring; `Limit` below `Cap` tells a page's size from its maximum, and two
events make a log of two pages. Three rules are a pair that overlaps and one
between them; a glob of four characters has every arrangement of a literal, a
separator and two stars with something before or behind. Tasks, approvers, calls
and fresh ids are interchangeable in safety runs, hence the symmetry; runs with
liveness use none.

Deadlock is checked except where a system stops by nature: `governed_call` and
`stored_arguments` (one call), and `registry_refresh` (the process exits, or the
upstreams have changed as often as they may).

### Fairness

`FairSpec` of `ApprovalService`: the event loop and the worker threads run what
is ready, an event that is set wakes its waiters and `move_on_after` fires
(`Running`). Requests, hang-ups, restarts and even the passing of time are never
owed, so a decision has to be noticed without the help of the deadline. All are
weak fairness: such a step stays enabled until it is taken. In `Gateway` an
upstream is assumed to answer or fail, and a deadline to come; the second is
what `approval_refines_queue` shows of the service once time has passed, the first is
an assumption, since the gateway sets no timeout on upstream calls.
`FairSpec` of `Storage`: the worker thread of the task at the head of the line
ends or fails, at the latest by SQLite's busy timeout of 30 seconds. `Serve` has
no fairness, since nothing bounds how long an upstream may take to connect.

### Where documentation and code differ

Each of these is a run in which TLC finds the documented claim violated.

| Run | Claim | What happens |
|---|---|---|
| `approval_late` | README.md:28 "No answer within the timeout is a denial." | `resolve` does not look at the deadline: a late decision is accepted if nobody has read the request since |
| `approval_fail_open` | cli.py:121 "calls nobody answers are forwarded" | `get` and `pending` expire overdue rows whatever `on_timeout` says |
| `gateway_dismissals` | audit/models.py:27 "No approver ever ruled on it, so it must not be filed as a human denial." | a denial posted between the retry's read and its dismissal is filed as a dismissal; a second retry of a dismissed request is filed as a human denial. TLC stops at the shorter of the two |
| `gateway_retries` | README.md:248 "The client cannot approve its own call."; tests/integration/test_ui.py:160 "The approver must be able to see exactly what they are approving." | a retry of another tool, or with other arguments, is carried out under the approval its state names, whatever policy says of it by then |
| `stored_arguments` | README.md:258 "A secret matching a `redact` pattern never reaches the database" | `approvals.arguments` has a parked call's arguments as they came; only the audit log redacts |

README.md:29 says that every call is recorded. `AuditIsFaithful` says how far
that goes in the code: a call that was carried out *and* answered has its row. A
call cut off between the upstream's work and the row has none, and neither has
the answer to a retry whose approval is not on file (`Look`).

## Proofs

TLC checks the instances above; TLAPS proves, for every value of the constants:

| Theorem | Module | Statement |
|---|---|---|
| `ToldIsTrue` | `ApprovalQueueProofs` | `Spec => [](TypeOK /\ ToldIsOnRecord)` |
| `Inductive` | `ApprovalServiceProofs` | `Spec => []IInv` |
| `TypeCorrect` | | `Spec => []ServiceTypeOK` |
| `ConsentIsGiven` | | `Spec => []SilenceIsNotConsent` |
| `AnswersHold` | | `Spec => []AnswersAreFinal` |
| `WakeupsAreNotLost` | | `Spec => []NoLostWakeup` |
| `FirstDecisionStands` | | `Spec => DecisionIsFinal` |
| `OverdueIsNotShown` | | `Spec => NothingOverdueIsShownOpen` |
| `Refinement` | | `Spec => ImplementsQueue` |
| `GlobsAreAsDocumented` | `GlobProofs` | for all patterns and texts, `MatchTool` and `MatchPath` are `Matches` |
| `Inductive` | `PolicyEngineProofs` | `Spec => []IInv` |
| `FirstRuleWins` | | `Spec => []FirstRuleDecides` |
| `SayingLessIsSafe` | | `Spec => []SilenceNeverWidens` |
| `DocumentsAreObeyed` | | `DocumentSpec => []DocumentDecides` |
| `CallInductive` | `GovernedCallProofs` | `CallSpec => []CallInv` |
| `GovernedCallsAreTyped` | | `CallSpec => []GovernedTypeOK` |
| `GovernedCallsAreJudged` | | `CallSpec => [](FirstRuleDecides /\ DocumentDecides /\ SilenceNeverWidens)` |
| `OnlySecretsAreMasked` | | `PlainKeys` and `PlainDocuments` imply `CallSpec => []RedactionIsExact` |
| `Inductive` | `GatewayProofs` | `Spec => []IInv` |
| `TypeCorrect` | | `Spec => []TypeOK` |
| `PermissionIsNeeded` | | `Spec => []OnlyPermittedRuns` |
| `AuditHolds` | | `Spec => []AuditAgreesWithQueue` |
| `AuditIsTrue` | | `Spec => []AuditIsFaithful` |
| `LinksHold` | | `Spec => []LinksAreOnFile` |
| `KeepsQueueRules` | | `Spec => Queue!Spec` |
| `ToldIsOnRecord` | | `Spec => []Queue!ToldIsOnRecord` |
| `TypeCorrect` | `ServeProofs` | `ServeSpec => []ServeTypeOK` |
| `ListedIsConnected` | | `ServeSpec => []ListedToolsHaveConnections` |
| `PublishedIsNew` | | `ServeSpec => PublishedIsRecent` |
| `FailuresStayIsolated` | | `ServeSpec => []FailuresAreIsolated` |
| `SplittingWorks` | | `WellNamed` implies `ServeSpec => []SplittingIsUnambiguous` |
| `MissesAreFiled` | | `WellNamed` implies `ServeSpec => []MissesAreFiledUnderTheirUpstream` |
| `BrokenBlankThemselves` | | `WellNamed` implies `ServeSpec => BrokenUpstreamsBlankOnlyThemselves` |
| `Inductive` | `StorageProofs` | `Spec => []TxnInv` |
| `TypeCorrect` | | `Spec => []TypeOK` |
| `CallsDoNotTear` | | `Spec => CallsAreAtomic` |
| `ReadsAreCommitted` | | `Spec => OnlyAFailedWriteHidesDecisions` |
| `ExportsOnlyGrow` | | `Spec => LaterExportsExtendEarlier` |
| `PagingMissesNothing` | | `Spec => OlderPagesMissNothing` |

Assumptions: the timeout is positive; `system:timeout` and
`system:client-dismissed` are different names and no approver types either into
the form; forgotten ids are ids; no call is a UI request; configured upstreams
have different names, and no definition of a tool is "no value"; a page has at
least one row. JSON values are made of JSON values that nest less deep, to a bound
that may be any number (`DepthAssumption`), and no list is longer than `Index`;
texts are made of characters that are not called like a class of characters of
the model (`Class`), and `/` is one of them (`SeparatorAssumption`). A document
that is accepted gives what it states a value: its rules become rules
(`DocumentsAssumption`), and no hint is called `args`.

`WellNamed` is a hypothesis and no assumption, for the configuration does not
ensure it: no upstream's name ends in half a separator and no tool is without a
name. Without it the three theorems are false, and so is what registry.py:6
says, "Splitting is unambiguous": the tool `_x` of an upstream `fs` and the tool
`x` of an upstream `fs_`, a name that config/models.py:57 accepts, have one
name, which is taken apart as `fs` and `_x`. No run is kept for this; give
`Upstreams` such a name and check `SplittingIsUnambiguous` to see it.
`PlainKeys` and `PlainDocuments` are hypotheses for the same reason: any JSON
object may be a call's arguments, and the configuration accepts any pattern.

**The service: invariant.** None of the properties is inductive. That a decision wakes
its waiter needs that the event it sleeps on is still registered, which needs
that no other task forgets it, which needs that a retry can only be of a
request whose link was handed out, while a blocked call's never is. So `IInv`
says: every request has one owner until its link is out (`OneOwner`, `IdInv`);
each await leaves the task knowing what it relies on afterwards (`StepInv`: its
row exists, is settled, is due, its event is registered); rows have entitled
authors (`RowsInv`); answers are true (`AnsweredTruly`).

**The service: argument.** A step moves one task. For every other task it is enough that
the step keeps settled rows, existing rows and registered events
(`Bystander`); for the task itself each action has a lemma (`CreateInv`,
`LoopInv`, `SweepInv`, ...). `Assemble` puts the halves together and `NextInv`
goes through the actions. `DecisionIsFinal` follows from `IInv` because only
`Create`, `Sweep` and `Resolve` write rows. For `OverdueIsNotShown` a second
invariant says what the queue page may rely on between its two calls
(`ListingInv`): what is open falls due after the page's stamp, and whoever is
still to insert a row was stamped no earlier (`OpenRows`, `NewStamp`). For the
refinement, a step that
writes no row and answers nobody is a stutter (`SilentStep`), a read that
answers is `Answer`, and `Create`, `Sweep` and `Resolve` are `Park`, `Lapse` and
`Decide` or `Answer` (`CreateParks`, `SweepLapses`, `ResolveDecides`); a listing
tells nobody a verdict (`ListsOnly`).

**The gateway.** `IInv` says what each await leaves a call knowing: that its
request is on file (`OnFile`), that it is permitted and credited to whoever is on
record (`Permitted`, `Credited`), that what it is about to be filed as is true
(`FiledRight`); and that an audit row is still what its call knows (`AuditInv`).
Others can disturb none of it, because a verdict that is settled never changes
(`Settles`) and that is all a step does to a call it does not move
(`Bystander`). `OneMoves` puts the two halves together, and each action has a
lemma about the call it moves. Every step of the gateway is a step of the
abstract queue or leaves it alone (`StepsKeepRules`), so what the queue's own
theorem says, that whoever is told something is told what is on record, holds of
the gateway too (`ToldIsOnRecord`).

**The process.** `RunInv` says of a refresh under way that all it has collected
is in `window`, from upstreams that are connected; `TakeUpKeeps` shows it for the
next reply or failure, `OneRun` for the other runs. That `build` lists what was
collected (`BuildLists`) needs that among finitely many positions one is the
last, which comes from the library's well-founded order on the naturals.
`PhaseInv` says what is open in each phase. `TurnInv` says which upstreams have
had their turn: those before the next one are connected or have failed, in the
order of the configuration, which is what isolation comes to. `SteadyInv` says
that what an upstream that was read has offered all the time is collected. That
two tools never share a name is `EntrySplits`: the first separator of a name is
where `namespace` put it.

**The database.** `TxnInv`: nothing is ever written to a transaction that is left
open. So one that may still write sees what is committed (`FreshView`), and so
does any without a failed `execute` behind it (`CleanView`).

Why an export is a prefix of every later one: times are taken before the lock,
but the lock is fair, so the line is in the order of its events' times (`LineInv`) and none is
older than what is in the log (`LogInv`); sorting the log then leaves it as it is.
A snapshot left on the connection has the log as it is, since only this process
adds to it (`SnapshotInv`). `ReadInv` is what the reader of the pages relies on:
an event it is owed that is further up than its offset has been seen, for
events that come in meanwhile only move others down.

**Globs.** What is out after p characters of a pattern splits the text exactly
where the rest of the pattern, as documented, covers what is left (`LoopInv`), with
two exceptions: after the first of two stars the second is skipped, and after
the separator of a trailing `/**` the fragment to come replaces it. `LoopStep` is
one turn of the loop. Both sides are recursions over numbers, and that such
functions exist is proved where they are used (`CompiledIs`, `ReachedIs`, `CoveredIs`).

**The policy.** `IInv` is that no rule before the one looked at matches. Without an
argument a path leads to what it did or to null (`ResolvesLess`), and a null
matches nothing. For `DocumentsAreObeyed`: what a path resolves to is the one
value found at its depth along it, whatever the depth (`FindsBelow`,
`ResolvesToWhatIsThere`); with `GlobsAreAsDocumented` an argument condition
matches exactly if the argument is there and covered (`ArgumentAsStated`); and a
rule matches exactly if each of its statements is true (`RuleAsStated`), a hint
that is asked to be false included.

**Redaction.** A text joins a path if each key is a part of it and its separators
are those between the keys (`Joins`). Within one level of a pattern the compiled
glob goes through a key inside the text as the documented one goes through the
key alone (`WithinLevel`), and it leaves the level exactly at a separator or at
the end (`LeavesAt`). So behind each level the places reached in the text are
the keys reached in the path (`LevelStep`), and the pattern matches the text
exactly if it covers the path (`PathsAreText`, which builds on
`GlobsAreAsDocumented`). That there is a function `redact` is an induction over
the depth of values (`RedactExists`). What is stored at any depth along a path
that no pattern covers is then `redact` of the value there, under the text of
that path (`IsRedacted`, `InsideIsRedacted`), hence masked, descended into or as
it came, as `RedactionIsExact` wants it.

**Only model-checked.** Liveness (`EveryCallReturns`, `BlockedCallReturns`,
`DecisionIsNoticed`, `EveryCallEnds`), which the prover cannot reach.

## Not modelled

* Row payloads other than what is named above, message texts, notes, latencies,
  rendering, the filters and the count of the audit page, the output of
  `validate` and `version`.
* Parsing YAML and the types of scalars in it; the wording of rejections.
* The MCP SDK: transports, sessions and the parsing of `_meta`. Connecting is a
  step that succeeds or fails. `list_tools` of an upstream reads the first page
  of its list only, and that is what `offered` stands for. `HttpUpstream.headers`
  is accepted by the configuration and used by nobody.
* A wall clock that is set back.
* `_events` entries that outlive their request: visible in `registered`, but the
  code promises no bound.
* The audit page asked for more rows than a page may have: it then shows no
  "Older" link, so the reader of `Storage` asks for fewer.
* Of SQLite, all but snapshots, refusals and failures: file modes, schema
  versions and pragmas.

Each hazard in `PROJECT.json` without a property says why it has none.

## Plan

1. Done: queue, service, refinement, gateway, registry, process, policy, globs,
   configuration, redaction, storage, and the proofs above.
2. A composition of `ApprovalService` and `Gateway` on one small instance, to
   check the gateway's audit properties with the clock and the events in place.
3. A composition of `ApprovalService` with the failures of `Storage`: a waiter
   whose read raises leaves its call, which `Gateway` knows only as `HangUp`.

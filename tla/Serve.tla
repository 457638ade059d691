-------------------------------- MODULE Serve --------------------------------
(***************************************************************************)
(* The life of a gatekeeper process: run() and _serve() of cli.py and the  *)
(* UpstreamManager of proxy/upstream.py, around the registry.  The         *)
(* configured upstreams are connected one by one, the tools are read once, *)
(* clients are served, and the upstreams are closed again in the opposite  *)
(* order.  The database, opened before and closed after all this, is       *)
(* Storage's; so are the requests to the approval UI, which use nothing    *)
(* else, and which the end of _serve() does not wait for.                  *)
(***************************************************************************)
EXTENDS Registry, SequencesExt

CONSTANT Main  \* the task that runs _serve()

ASSUME MainAssumption == Main \in Client

VARIABLES phase,     \* how far _serve() is
          next,      \* the upstream to connect next
          failures,  \* UpstreamManager.failures
          opened     \* the exit stack: open connections, the latest last

processVars == <<phase, next, failures, opened>>
serveVars == <<vars, processVars>>

Phase == {"start", "connecting", "refreshing", "serving", "stopping", "closing", "exited"}

ServeTypeOK ==
  /\ TypeOK
  /\ phase \in Phase
  /\ next \in 1..(Len(Upstreams) + 1)
  /\ failures \subseteq Upstream
  /\ opened \in Seq(Upstream)

ServeInit ==
  /\ connections = <<>>
  /\ offered \in [Upstream -> [ToolName -> Definition \cup {None}]]
  /\ registry = Build(NoTools)
  /\ refresh = [c \in Client |-> Idle]
  /\ filed = None
  /\ changes = 0
  /\ window = [c \in Client |-> {}]
  /\ steady = [c \in Client |-> {}]
  /\ phase = "start"
  /\ next = 1
  /\ failures = {}
  /\ opened = <<>>

-----------------------------------------------------------------------------
(* Starting *)

\* The configuration is not accepted, or the transport unknown.
Refuse ==
  /\ phase = "start"
  /\ phase' = "exited"
  /\ UNCHANGED <<vars, next, failures, opened>>

Accept ==
  /\ phase = "start"
  /\ phase' = "connecting"
  /\ UNCHANGED <<vars, next, failures, opened>>

Connect ==
  /\ phase = "connecting" /\ next \in DOMAIN Upstreams
  /\ connections' = Append(connections, Upstreams[next])
  /\ opened' = Append(opened, Upstreams[next])
  /\ next' = next + 1
  /\ UNCHANGED <<offered, changes, registry, refresh, filed, history, phase, failures>>

\* Bug: the loop ends at the first upstream that does not come up.
ConnectFailsForAll ==
  /\ phase = "connecting" /\ next \in DOMAIN Upstreams
  /\ failures' = failures \cup {Upstreams[next]}
  /\ next' = Len(Upstreams) + 1
  /\ UNCHANGED <<vars, phase, opened>>

\* The failure is noted, and the other upstreams still get their turn.
ConnectFails ==
  /\ phase = "connecting" /\ next \in DOMAIN Upstreams
  /\ failures' = failures \cup {Upstreams[next]}
  /\ next' = next + 1
  /\ UNCHANGED <<vars, phase, opened>>

\* All upstreams have had their turn: the first refresh begins.
Connected ==
  /\ phase = "connecting" /\ next = Len(Upstreams) + 1
  /\ phase' = "refreshing"
  /\ Begin(Main)
  /\ UNCHANGED <<next, failures, opened>>

RefreshFirst ==
  /\ phase = "refreshing"
  /\ \/ (Read(Main) \/ ReadFails(Main)) /\ UNCHANGED phase
     \/ Publish(Main) /\ phase' = "serving"
  /\ UNCHANGED <<next, failures, opened>>

-----------------------------------------------------------------------------
(* Serving *)

\* Requests come in.
Handle ==
  /\ phase = "serving"
  /\ \/ \E c \in Client \ {Main} : Begin(c)
     \/ \E e \in Entry : Call(NameOf(e))
  /\ UNCHANGED processVars

\* They go on while the process stops, until they are done or cancelled.
Work ==
  /\ phase \in {"serving", "stopping", "closing"}
  /\ \E c \in Client \ {Main} : Read(c) \/ ReadFails(c) \/ Publish(c) \/ Cancel(c)
  /\ UNCHANGED processVars

Drift ==
  /\ phase \in {"refreshing", "serving", "stopping"}
  /\ \E u \in Upstream, t \in ToolName, d \in Definition \cup {None} : Change(u, t, d)
  /\ UNCHANGED processVars

-----------------------------------------------------------------------------
(* Stopping *)

\* Bug: the connections are let go before the server has stopped.
StopServing ==
  /\ phase = "serving"
  /\ phase' = "stopping"
  /\ connections' = <<>>
  /\ UNCHANGED <<offered, changes, registry, refresh, filed, history, next, failures, opened>>

\* The client is gone, or the user interrupts: no more requests come in.  An
\* interrupt of the first refresh cancels it.
Stop ==
  /\ \/ phase = "serving" /\ UNCHANGED vars
     \/ phase = "refreshing" /\ Cancel(Main)
  /\ phase' = "stopping"
  /\ UNCHANGED <<next, failures, opened>>

\* Bug: refresh_registry() looks at what is connected at every turn of its loop.
ForgetUnderneath ==
  /\ phase = "stopping"
  /\ phase' = "closing"
  /\ connections' = <<>>
  /\ UNCHANGED <<offered, changes, registry, refresh, filed, history, next, failures, opened>>

\* UpstreamManager.__aexit__() forgets its connections.  Most often no request
\* is left by then, but a server made to exit at once waits for none; then the
\* dictionary a refresh loops over changes in size, and at its next turn the
\* loop raises.
Forget ==
  /\ phase = "stopping"
  /\ phase' = "closing"
  /\ connections' = <<>>
  /\ refresh' = [c \in Client |-> Idle]
  /\ window' = [c \in Client |-> {}]
  /\ steady' = [c \in Client |-> {}]
  /\ UNCHANGED <<offered, changes, registry, filed, next, failures, opened>>

\* An interrupt while an upstream connects: __aenter__() has not returned, so
\* nothing calls __aexit__(), and what is open stays so.
Interrupt ==
  /\ phase = "connecting"
  /\ phase' = "exited"
  /\ UNCHANGED <<vars, next, failures, opened>>

CloseLast ==
  /\ phase = "closing" /\ opened # <<>>
  /\ opened' = Front(opened)
  /\ UNCHANGED <<vars, phase, next, failures>>

Exit ==
  /\ phase = "closing" /\ opened = <<>>
  /\ phase' = "exited"
  /\ UNCHANGED <<vars, next, failures, opened>>

ServeNext ==
  \/ Refuse \/ Accept
  \/ Connect \/ ConnectFails \/ Connected \/ RefreshFirst
  \/ Handle \/ Work \/ Drift
  \/ Stop \/ Forget \/ Interrupt \/ CloseLast \/ Exit

ServeSpec == ServeInit /\ [][ServeNext]_serveVars

-----------------------------------------------------------------------------
(* Properties *)

\* What is listed can be called: from the first request on, and while the
\* process stops, the upstream of every listed tool has its connection, up to
\* the moment they are all forgotten (_forward, UpstreamManager.__aexit__).
ListedToolsHaveConnections ==
  phase \in {"serving", "stopping"} =>
    \A n \in DOMAIN registry : registry[n].upstream \in ToSet(connections) \cap ToSet(opened)

\* Whatever upstreams fail, the others are connected, in the order they are
\* configured in, and the ones that failed are told apart from them
\* (UpstreamManager.__aenter__).
FailuresAreIsolated ==
  phase \in {"refreshing", "serving", "stopping"} =>
    /\ ToSet(connections) = Upstream \ failures
    /\ \A i, j \in DOMAIN connections :
         i < j => Position(connections[i]) < Position(connections[j])
=============================================================================

------------------------------ MODULE Registry ------------------------------
(***************************************************************************)
(* proxy/registry.py and refresh_registry() of proxy/gateway.py: several   *)
(* upstreams flattened into one list of tools, which every tools/list      *)
(* reads again, one upstream at a time, while other requests run.          *)
(*                                                                         *)
(* A name is the sequence of its characters, since how names are joined    *)
(* and taken apart is the point of namespacing.                            *)
(***************************************************************************)
EXTENDS Integers, Sequences, FiniteSetsExt

CONSTANTS Upstreams,   \* names of the configured upstreams, in order
          ToolName,    \* names upstreams give their tools
          Definition,  \* what an upstream says of a tool, hints included
          Client,      \* tasks that refresh the registry
          MaxChanges,  \* bound on the changes of the upstreams
          None         \* no value

ASSUME UpstreamsAssumption ==
  /\ Upstreams \in Seq(Seq(STRING))
  /\ \A i, j \in DOMAIN Upstreams : Upstreams[i] = Upstreams[j] => i = j
  /\ ToolName \subseteq Seq(STRING)
  /\ MaxChanges \in Nat
  /\ None \notin Definition \cup (Seq(STRING) \X Seq(STRING))

VARIABLES connections,  \* the connected upstreams, in order
          offered,      \* what each upstream offers now
          changes,      \* how often that has changed
          registry,     \* Gateway._registry
          refresh,      \* each task's run of refresh_registry()
          filed,        \* the audit row of the last call, if it was unknown_tool
          window,       \* history: tools offered at some time since a run began
          steady        \* history: tools offered, and never unreadable, since then

history == <<window, steady>>
vars == <<connections, offered, changes, registry, refresh, filed, history>>

Upstream == {Upstreams[k] : k \in DOMAIN Upstreams}
Count == Len(connections)

Nothing == [t \in ToolName |-> None]
NoTools == [u \in Upstream |-> Nothing]
Idle == [at |-> 0, collected |-> NoTools]

-----------------------------------------------------------------------------
(* Names *)

Underscore == "_"

Namespace(upstream, tool) == upstream \o <<Underscore, Underscore>> \o tool

\* Where a separator starts in a name.
Separators(name) ==
  {k \in 1..(Len(name) - 1) : name[k] = Underscore /\ name[k + 1] = Underscore}

\* Bug: the last separator is taken for the boundary (rpartition).
SplitLast(name) ==
  IF Separators(name) = {} THEN None
  ELSE LET k == Max(Separators(name))
       IN <<SubSeq(name, 1, k - 1), SubSeq(name, k + 2, Len(name))>>

\* str.partition(): the first separator is the boundary.
SplitNamespace(name) ==
  IF Separators(name) = {} THEN None
  ELSE LET k == Min(Separators(name))
           upstream == SubSeq(name, 1, k - 1)
           tool == SubSeq(name, k + 2, Len(name))
       IN IF upstream = <<>> \/ tool = <<>> THEN None ELSE <<upstream, tool>>

-----------------------------------------------------------------------------
(* Entries *)

Entry == [upstream : Upstream, remote : ToolName, tool : Definition]

Entries(tools) ==
  {e \in Entry : tools[e.upstream][e.remote] = e.tool}

\* What the connected upstreams offer.
OnOffer(tools) == {e \in Entries(tools) : \E k \in DOMAIN connections : connections[k] = e.upstream}

NameOf(e) == Namespace(e.upstream, e.remote)

Position(u) == CHOOSE k \in DOMAIN Upstreams : Upstreams[k] = u

\* Bug: tools keep the names their upstreams gave them.
BuildBare(tools) ==
  LET E == Entries(tools) IN
  [n \in {e.remote : e \in E} |-> CHOOSE e \in E : e.remote = n]

\* ToolRegistry.build(): of two tools with one name the later stays.
Build(tools) ==
  LET E == Entries(tools) IN
  [n \in {NameOf(e) : e \in E} |->
     CHOOSE e \in E :
       /\ NameOf(e) = n
       /\ \A f \in E : NameOf(f) = n => Position(f.upstream) <= Position(e.upstream)]

Known == {r \in UNION {[N -> Entry] : N \in SUBSET {NameOf(e) : e \in Entry}} :
            \A n \in DOMAIN r : NameOf(r[n]) = n}

TypeOK ==
  /\ connections \in Seq(Upstream)
  /\ offered \in [Upstream -> [ToolName -> Definition \cup {None}]]
  /\ changes \in 0..MaxChanges
  /\ registry \in Known
  /\ refresh \in [Client -> [at : 0..(Count + 1),
                             collected : [Upstream -> [ToolName -> Definition \cup {None}]]]]
  /\ window \in [Client -> SUBSET Entry]
  /\ steady \in [Client -> SUBSET Entry]
  /\ \A c \in Client : steady[c] \subseteq window[c]

\* The connected upstreams are some of the configured ones.
Init ==
  /\ \E C \in SUBSET Upstream : connections = SelectSeq(Upstreams, LAMBDA u : u \in C)
  /\ offered \in [Upstream -> [ToolName -> Definition \cup {None}]]
  /\ registry = Build(NoTools)
  /\ refresh = [c \in Client |-> Idle]
  /\ filed = None
  /\ changes = 0
  /\ window = [c \in Client |-> {}]
  /\ steady = [c \in Client |-> {}]

-----------------------------------------------------------------------------
(* Upstreams *)

\* An upstream adds, drops or redefines a tool.
Change(u, t, d) ==
  /\ changes < MaxChanges
  /\ changes' = changes + 1
  /\ offered' = [offered EXCEPT ![u][t] = d]
  /\ window' = [c \in Client |-> IF refresh[c].at = 0 THEN {}
                                 ELSE window[c] \cup OnOffer(offered')]
  /\ steady' = [c \in Client |-> steady[c] \cap OnOffer(offered')]
  /\ UNCHANGED <<connections, registry, refresh, filed>>

-----------------------------------------------------------------------------
(* tools/list: list_tools() and refresh_registry() *)

Begin(c) ==
  /\ refresh[c].at = 0
  /\ refresh' = [refresh EXCEPT ![c] = [Idle EXCEPT !.at = 1]]
  /\ window' = [window EXCEPT ![c] = OnOffer(offered)]
  /\ steady' = [steady EXCEPT ![c] = OnOffer(offered)]
  /\ UNCHANGED <<connections, offered, changes, registry, filed>>

\* A run after the next upstream, with the tools that are taken to be its own.
After(run, tools) ==
  [at |-> run.at + 1, collected |-> [run.collected EXCEPT ![connections[run.at]] = tools]]

\* The next upstream answers; its reply is taken up when the task resumes.
Read(c) ==
  /\ refresh[c].at \in DOMAIN connections
  /\ refresh' = [refresh EXCEPT ![c] = After(@, offered[connections[@.at]])]
  /\ UNCHANGED <<connections, offered, changes, registry, filed, history>>

\* Bug: an unreadable upstream keeps the tools it was last known for.
ReadFailsKeeping(c) ==
  LET u == connections[refresh[c].at]
      known == [t \in ToolName |-> IF Namespace(u, t) \in DOMAIN registry
                                   THEN registry[Namespace(u, t)].tool ELSE None]
  IN /\ refresh[c].at \in DOMAIN connections
     /\ refresh' = [refresh EXCEPT ![c] = After(@, known)]
     /\ steady' = [steady EXCEPT ![c] = {e \in @ : e.upstream # u}]
     /\ UNCHANGED <<connections, offered, changes, registry, filed, window>>

\* Bug: the first unreadable upstream ends the run with nothing collected.
ReadFailsForAll(c) ==
  LET u == connections[refresh[c].at] IN
  /\ refresh[c].at \in DOMAIN connections
  /\ refresh' = [refresh EXCEPT ![c] = [Idle EXCEPT !.at = Count + 1]]
  /\ steady' = [steady EXCEPT ![c] = {e \in @ : e.upstream # u}]
  /\ UNCHANGED <<connections, offered, changes, registry, filed, window>>

\* UpstreamError: the upstream counts as having no tools this time.
ReadFails(c) ==
  LET u == connections[refresh[c].at] IN
  /\ refresh[c].at \in DOMAIN connections
  /\ refresh' = [refresh EXCEPT ![c] = After(@, Nothing)]
  /\ steady' = [steady EXCEPT ![c] = {e \in @ : e.upstream # u}]
  /\ UNCHANGED <<connections, offered, changes, registry, filed, window>>

\* The last reply is in: the snapshot is replaced by the new one.
Publish(c) ==
  /\ refresh[c].at = Count + 1
  /\ registry' = Build(refresh[c].collected)
  /\ refresh' = [refresh EXCEPT ![c] = Idle]
  /\ window' = [window EXCEPT ![c] = {}]
  /\ steady' = [steady EXCEPT ![c] = {}]
  /\ UNCHANGED <<connections, offered, changes, filed>>

\* The client hangs up on its tools/list, or it is cancelled.
Cancel(c) ==
  /\ refresh[c].at # 0
  /\ refresh' = [refresh EXCEPT ![c] = Idle]
  /\ window' = [window EXCEPT ![c] = {}]
  /\ steady' = [steady EXCEPT ![c] = {}]
  /\ UNCHANGED <<connections, offered, changes, registry, filed>>

-----------------------------------------------------------------------------
(* tools/call: the lookup of call_tool(), and _unknown_tool() *)

\* A call by a name this gatekeeper may once have listed.
Call(name) ==
  LET split == SplitNamespace(name) IN
  /\ filed' = IF name \in DOMAIN registry THEN None
              ELSE [name |-> name, upstream |-> IF split = None THEN "unknown" ELSE split[1]]
  /\ UNCHANGED <<connections, offered, changes, registry, refresh, history>>

Next ==
  \/ \E u \in Upstream, t \in ToolName, d \in Definition \cup {None} : Change(u, t, d)
  \/ \E c \in Client : \/ Begin(c) \/ Read(c) \/ ReadFails(c)
                       \/ Publish(c) \/ Cancel(c)
  \/ \E e \in Entry : Call(NameOf(e))

Spec == Init /\ [][Next]_vars

-----------------------------------------------------------------------------
(* Properties *)

\* A tool whose upstream is connected, offered it throughout a refresh and could be read is
\* in the list it publishes, whichever other upstreams broke, changed or were
\* read by other requests meanwhile (refresh_registry).
BrokenUpstreamsBlankOnlyThemselves ==
  [][\A c \in Client :
       refresh[c].at = Count + 1 /\ refresh'[c].at = 0
       /\ registry' = Build(refresh[c].collected) =>
         \A e \in steady[c] : NameOf(e) \in DOMAIN registry' /\ registry'[NameOf(e)] = e]_vars

\* A refresh publishes only what was on offer, hints included, at some time
\* since it began, although replies of slower and faster runs cross
\* (refresh_registry).
PublishedIsRecent ==
  [][registry' # registry =>
       \E c \in Client :
         /\ refresh[c].at # 0 /\ refresh'[c].at = 0
         /\ \A n \in DOMAIN registry' : registry'[n] \in window[c]]_vars

\* A call of a tool that is no longer there is recorded under the upstream
\* that used to offer it (_unknown_tool, split_namespace).
MissesAreFiledUnderTheirUpstream ==
  filed # None => \A e \in Entry : NameOf(e) = filed.name => filed.upstream = e.upstream

\* "Splitting is unambiguous ... the *first* separator is always the namespace
\* boundary" (registry.py), for the names the config accepts.
SplittingIsUnambiguous ==
  \A n \in DOMAIN registry :
    SplitNamespace(n) = <<registry[n].upstream, registry[n].remote>>
=============================================================================

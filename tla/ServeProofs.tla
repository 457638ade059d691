----------------------------- MODULE ServeProofs -----------------------------
(***************************************************************************)
(* What the life of a process keeps true of its registry, for any number   *)
(* of upstreams, tools and requests.                                       *)
(***************************************************************************)
EXTENDS Serve, TLAPS, WellFoundedInduction, SequenceTheorems

\* What a run of refresh_registry() has collected was on offer since it began,
\* by upstreams that are connected.
CollectedInv(c) ==
  refresh[c].at # 0 =>
    /\ OnOffer(offered) \subseteq window[c]
    /\ Entries(refresh[c].collected) \subseteq window[c]
    /\ \A e \in Entries(refresh[c].collected) : e.upstream \in ToSet(connections)

\* What has been on offer since, and readable, is collected as soon as its
\* upstream has been read.
SteadyInv(c) ==
  /\ refresh[c].at = 0 => steady[c] = {}
  /\ steady[c] \subseteq OnOffer(offered)
  /\ \A e \in steady[c], k \in DOMAIN connections :
       k < refresh[c].at /\ connections[k] = e.upstream => e \in Entries(refresh[c].collected)

RunInv(c) == CollectedInv(c) /\ SteadyInv(c)

RegistryInv == TypeOK /\ \A c \in Client : RunInv(c)

\* What is open, and who is at work, in each phase.
PhaseInv ==
  /\ phase = "start" => connections = <<>> /\ opened = <<>>
  /\ phase \in {"connecting", "refreshing", "serving", "stopping"} => connections = opened
  /\ \A c \in Client : refresh[c].at # 0 => phase \in {"refreshing", "serving", "stopping"}

\* Which upstreams have had their turn, and what came of it.
TurnInv ==
  /\ phase = "start" => next = 1 /\ failures = {}
  /\ phase \in {"refreshing", "serving", "stopping"} => next = Len(Upstreams) + 1
  /\ phase \in {"start", "connecting", "refreshing", "serving", "stopping"} =>
       /\ failures \subseteq {Upstreams[k] : k \in 1..(next - 1)}
       /\ ToSet(connections) = {Upstreams[k] : k \in 1..(next - 1)} \ failures
       /\ \A i, j \in DOMAIN connections :
            i < j => Position(connections[i]) < Position(connections[j])

ListedInv ==
  phase \notin {"closing", "exited"} =>
    \A n \in DOMAIN registry : registry[n].upstream \in ToSet(connections)

IInv == ServeTypeOK /\ RegistryInv /\ PhaseInv /\ TurnInv /\ ListedInv

-----------------------------------------------------------------------------
(* ToolRegistry.build() *)

LEMMA PositionType == ASSUME NEW u \in Upstream PROVE Position(u) \in DOMAIN Upstreams
  <1>1. \E k \in DOMAIN Upstreams : Upstreams[k] = u BY DEF Upstream
  <1> QED BY <1>1 DEF Position

\* Some position is the last of any that are given.
LEMMA LastPosition ==
  ASSUME NEW S \in SUBSET DOMAIN Upstreams, S # {}
  PROVE  \E k \in S : \A j \in S : j <= k
  <1> DEFINE T == {Len(Upstreams) - k : k \in S}
  <1>1. DOMAIN Upstreams = 1..Len(Upstreams) /\ Len(Upstreams) \in Nat BY UpstreamsAssumption
  <1>2. T \subseteq Nat /\ T # {} BY <1>1
  <1>3. PICK x \in T : \A y \in T : ~(<<y, x>> \in OpToRel(<, Nat))
    BY <1>2, WFMin, NatLessThanWellFounded
  <1>4. \A y \in T : ~(y < x) BY <1>2, <1>3 DEF OpToRel
  <1>5. PICK k \in S : x = Len(Upstreams) - k BY <1>3
  <1>6. ASSUME NEW j \in S PROVE j <= k
    <2>1. ~(Len(Upstreams) - j < Len(Upstreams) - k) BY <1>4, <1>5
    <2> QED BY <1>1, <2>1
  <1> QED BY <1>6

\* What is listed was collected, and is found by its own name.
LEMMA BuildLists ==
  ASSUME NEW tools, NEW n \in DOMAIN Build(tools)
  PROVE  Build(tools)[n] \in Entries(tools) /\ NameOf(Build(tools)[n]) = n
  <1> DEFINE N == {e \in Entries(tools) : NameOf(e) = n}
             S == {Position(e.upstream) : e \in N}
             Best(e) == /\ NameOf(e) = n
                        /\ \A f \in Entries(tools) :
                             NameOf(f) = n => Position(f.upstream) <= Position(e.upstream)
  <1>1. DOMAIN Build(tools) = {NameOf(e) : e \in Entries(tools)} BY DEF Build
  <1>2. N # {} BY <1>1
  <1>3. \A e \in Entries(tools) : e.upstream \in Upstream BY DEF Entries, Entry
  <1>4. S \subseteq DOMAIN Upstreams /\ S # {} BY <1>2, <1>3, PositionType
  <1>5. PICK k \in S : \A j \in S : j <= k BY <1>4, LastPosition
  <1>6. PICK e \in N : k = Position(e.upstream) BY <1>5
  <1>7. e \in Entries(tools) /\ Best(e) BY <1>5, <1>6
  <1>8. Build(tools)[n] = CHOOSE f \in Entries(tools) : Best(f) BY DEF Build
  <1> HIDE DEF Best
  <1>9. Build(tools)[n] \in Entries(tools) /\ Best(Build(tools)[n]) BY <1>7, <1>8
  <1> QED BY <1>9 DEF Best

LEMMA BuildType == ASSUME NEW tools PROVE Build(tools) \in Known
  <1> DEFINE r == Build(tools)
             N == {NameOf(e) : e \in Entry}
  <1>1. DOMAIN r \in SUBSET N BY DEF Build, Entries
  <1>2. \A n \in DOMAIN r : r[n] \in Entry /\ NameOf(r[n]) = n BY BuildLists DEF Entries
  <1>3. r = [n \in DOMAIN r |-> r[n]] BY DEF Build
  <1> HIDE DEF r
  <1>4. r \in [DOMAIN r -> Entry] BY <1>2, <1>3
  <1> QED BY <1>1, <1>2, <1>4 DEF Known, r

LEMMA NothingListed == Entries(NoTools) = {}
  BY UpstreamsAssumption DEF Entries, Entry, NoTools, Nothing

-----------------------------------------------------------------------------
(* refresh_registry() and its surroundings *)

LEMMA IdleType == NoTools \in [Upstream -> [ToolName -> Definition \cup {None}]]
  BY DEF NoTools, Nothing

LEMMA ChangeKeeps ==
  ASSUME RegistryInv, NEW u \in Upstream, NEW t \in ToolName, NEW d \in Definition \cup {None},
         Change(u, t, d)
  PROVE  RegistryInv'
  <1>1. offered' \in [Upstream -> [ToolName -> Definition \cup {None}]]
    BY DEF RegistryInv, TypeOK, Change
  <1>2. OnOffer(offered') \subseteq Entry BY DEF OnOffer, Entries
  <1>3. changes' \in 0..MaxChanges
    BY UpstreamsAssumption DEF RegistryInv, TypeOK, Change
  <1>4. window' \in [Client -> SUBSET Entry] /\ steady' \in [Client -> SUBSET Entry]
    BY <1>2 DEF RegistryInv, TypeOK, Change
  <1>5. UNCHANGED <<connections, refresh, registry>> BY DEF Change
  <1>6. ASSUME NEW c \in Client PROVE steady'[c] \subseteq window'[c] /\ RunInv(c)'
    <2>1. RunInv(c) /\ steady[c] \subseteq window[c] BY DEF RegistryInv, TypeOK
    <2>2. /\ window'[c] = IF refresh[c].at = 0 THEN {} ELSE window[c] \cup OnOffer(offered')
          /\ steady'[c] = steady[c] \cap OnOffer(offered')
      BY DEF Change
    <2>3. OnOffer(offered)' = OnOffer(offered') BY <1>5 DEF OnOffer, Entries
    <2>4. Entries(refresh[c].collected)' = Entries(refresh[c].collected)
      BY <1>5 DEF Entries
    <2>5. steady'[c] \subseteq window'[c] /\ CollectedInv(c)'
      BY <1>5, <2>1, <2>2, <2>3, <2>4 DEF RunInv, CollectedInv, SteadyInv
    <2>6. SteadyInv(c)' BY <1>5, <2>1, <2>2, <2>3, <2>4 DEF RunInv, SteadyInv
    <2> QED BY <2>5, <2>6 DEF RunInv
  <1>7. TypeOK'
    <2>1. (Count = Count') BY <1>5 DEF Count
    <2> QED BY <1>1, <1>3, <1>4, <1>5, <1>6, <2>1 DEF RegistryInv, TypeOK
  <1> QED BY <1>6, <1>7 DEF RegistryInv

Run == [at : 0..(Count + 1), collected : [Upstream -> [ToolName -> Definition \cup {None}]]]

\* A step of one task leaves the runs of the others alone.
LEMMA OneRun ==
  ASSUME RegistryInv, NEW c \in Client, NEW r \in Run,
         NEW w \in SUBSET Entry, NEW s \in SUBSET w,
         UNCHANGED <<connections, offered, changes>>, registry' \in Known,
         refresh' = [refresh EXCEPT ![c] = r],
         window' = [window EXCEPT ![c] = w],
         steady' = [steady EXCEPT ![c] = s],
         RunInv(c)'
  PROVE  RegistryInv'
  <1>1. Count' = Count BY DEF Count
  <1>2. refresh' \in [Client -> Run] BY DEF RegistryInv, TypeOK, Run
  <1>3. window' \in [Client -> SUBSET Entry] /\ steady' \in [Client -> SUBSET Entry]
    BY DEF RegistryInv, TypeOK
  <1>4. \A d \in Client : steady'[d] \subseteq window'[d] BY DEF RegistryInv, TypeOK
  <1>5. ASSUME NEW d \in Client PROVE RunInv(d)'
    <2>1. CASE d = c BY <2>1
    <2>2. CASE d # c
      <3>1. refresh'[d] = refresh[d] /\ window'[d] = window[d] /\ steady'[d] = steady[d]
        BY <2>2 DEF RegistryInv, TypeOK
      <3>2. OnOffer(offered)' = OnOffer(offered) BY DEF OnOffer, Entries
      <3>3. Entries(refresh[d].collected)' = Entries(refresh[d].collected)
        BY <3>1 DEF Entries
      <3>4. RunInv(d) BY DEF RegistryInv
      <3>5. CollectedInv(d)' BY <3>1, <3>2, <3>3, <3>4 DEF RunInv, CollectedInv, ToSet
      <3>6. SteadyInv(d)' BY <3>1, <3>2, <3>3, <3>4 DEF RunInv, SteadyInv
      <3> QED BY <3>5, <3>6 DEF RunInv
    <2> QED BY <2>1, <2>2
  <1>6. TypeOK' BY <1>1, <1>2, <1>3, <1>4 DEF RegistryInv, TypeOK, Run
  <1> QED BY <1>5, <1>6 DEF RegistryInv

LEMMA BeginKeeps == ASSUME RegistryInv, NEW c \in Client, Begin(c) PROVE RegistryInv'
  <1> DEFINE r == [at |-> 1, collected |-> NoTools]
             w == OnOffer(offered)
  <1>1. r \in Run
    <2>1. Count \in Nat BY DEF RegistryInv, TypeOK, Count
    <2> QED BY <2>1, IdleType DEF Run
  <1>2. w \in SUBSET Entry BY DEF OnOffer, Entries
  <1>3. /\ refresh' = [refresh EXCEPT ![c] = r]
        /\ window' = [window EXCEPT ![c] = w]
        /\ steady' = [steady EXCEPT ![c] = w]
        /\ UNCHANGED <<connections, offered, changes, registry>>
    <2>1. [Idle EXCEPT !.at = 1] = r BY DEF Idle
    <2> QED BY <2>1 DEF Begin
  <1>4. RunInv(c)'
    <2>1. refresh'[c] = r /\ window'[c] = w /\ steady'[c] = w
      BY <1>3 DEF RegistryInv, TypeOK
    <2>2. OnOffer(offered)' = w BY <1>3 DEF OnOffer, Entries
    <2>3. Entries(refresh[c].collected)' = {} BY <2>1, NothingListed DEF Entries
    <2>4. \A k \in DOMAIN connections' : ~(k < 1) BY DEF RegistryInv, TypeOK, Begin
    <2> QED BY <2>1, <2>2, <2>3, <2>4 DEF RunInv, CollectedInv, SteadyInv
  <1> QED BY <1>1, <1>2, <1>3, <1>4, OneRun DEF RegistryInv, TypeOK

\* The reply of the next upstream is taken up, or counts as none.
LEMMA TakeUpKeeps ==
  ASSUME RegistryInv, NEW c \in Client, refresh[c].at \in DOMAIN connections,
         NEW tools \in [ToolName -> Definition \cup {None}],
         tools = offered[connections[refresh[c].at]] \/ tools = Nothing,
         NEW s \in SUBSET steady[c],
         tools = offered[connections[refresh[c].at]]
           \/ \A e \in s : e.upstream # connections[refresh[c].at],
         UNCHANGED <<connections, offered, changes, registry, window>>,
         refresh' = [refresh EXCEPT ![c] = After(@, tools)],
         steady' = [steady EXCEPT ![c] = s]
  PROVE  RegistryInv'
  <1> DEFINE k == refresh[c].at
             u == connections[k]
             old == refresh[c].collected
             new == [old EXCEPT ![u] = tools]
             r == [at |-> k + 1, collected |-> new]
  <1>1. k \in 1..Count /\ u \in Upstream /\ u \in ToSet(connections)
    BY DEF RegistryInv, TypeOK, Count, ToSet
  <1>2. old \in [Upstream -> [ToolName -> Definition \cup {None}]]
    BY DEF RegistryInv, TypeOK
  <1>3. r \in Run
    <2>1. Count \in Nat BY DEF RegistryInv, TypeOK, Count
    <2>2. new \in [Upstream -> [ToolName -> Definition \cup {None}]] BY <1>1, <1>2
    <2> QED BY <1>1, <2>1, <2>2 DEF Run
  <1>4. refresh' = [refresh EXCEPT ![c] = r] BY DEF After
  <1>5. window[c] \in SUBSET Entry /\ s \in SUBSET window[c] BY DEF RegistryInv, TypeOK
  <1>6. window' = [window EXCEPT ![c] = window[c]] BY DEF RegistryInv, TypeOK
  <1>7. RunInv(c)'
    <2>1. refresh'[c] = r /\ window'[c] = window[c] BY <1>4 DEF RegistryInv, TypeOK
    <2>2. /\ OnOffer(offered) \subseteq window[c]
          /\ Entries(old) \subseteq window[c]
          /\ \A e \in Entries(old) : e.upstream \in ToSet(connections)
      BY <1>1 DEF RegistryInv, RunInv, CollectedInv
    <2>3. OnOffer(offered)' = OnOffer(offered) BY DEF OnOffer, Entries
    <2>4. Entries(refresh[c].collected)' = Entries(new)
      <3>1. refresh'[c].collected = new BY <2>1
      <3> HIDE DEF new
      <3> QED BY <3>1 DEF Entries
    <2>5. ASSUME NEW e \in Entries(new)
          PROVE  e \in window[c] /\ e.upstream \in ToSet(connections)
      <3>1. e \in Entry /\ new[e.upstream][e.remote] = e.tool BY DEF Entries
      <3>2. CASE e.upstream = u
        <4>1. tools[e.remote] = e.tool BY <1>1, <1>2, <3>1, <3>2
        <4>2. tools # Nothing BY <3>1, <4>1, UpstreamsAssumption DEF Nothing, Entry
        <4>3. e \in Entries(offered) BY <3>1, <3>2, <4>1, <4>2 DEF Entries
        <4>4. e \in OnOffer(offered) BY <3>2, <4>3 DEF OnOffer
        <4> QED BY <1>1, <2>2, <3>2, <4>4
      <3>3. CASE e.upstream # u
        <4>1. new[e.upstream] = old[e.upstream] BY <1>1, <1>2, <3>1, <3>3 DEF Entry
        <4> QED BY <2>2, <3>1, <4>1 DEF Entries
      <3> QED BY <3>2, <3>3
    <2>6. ToSet(connections)' = ToSet(connections) BY DEF ToSet
    <2>7. CollectedInv(c)' BY <2>1, <2>2, <2>3, <2>4, <2>5, <2>6 DEF CollectedInv
    <2>8. steady'[c] = s /\ SteadyInv(c) BY DEF RegistryInv, TypeOK, RunInv
    <2>9. ASSUME NEW e \in s, NEW j \in DOMAIN connections, j < k + 1, connections[j] = e.upstream
          PROVE  e \in Entries(new)
      <3>1. e \in Entries(offered) BY <2>8 DEF SteadyInv, OnOffer
      <3>2. e \in Entry /\ offered[e.upstream][e.remote] = e.tool BY <3>1 DEF Entries
      <3>3. CASE e.upstream = u
        <4>1. tools = offered[u] BY <3>3
        <4>2. new[u] = tools BY <1>1, <1>2
        <4> QED BY <3>2, <3>3, <4>1, <4>2 DEF Entries
      <3>4. CASE e.upstream # u
        <4>1. new[e.upstream] = old[e.upstream] BY <1>1, <1>2, <3>2, <3>4 DEF Entry
        <4>2. j < k BY <1>1, <2>9, <3>4 DEF RegistryInv, TypeOK, Count
        <4>3. e \in Entries(old) BY <2>8, <2>9, <4>2 DEF SteadyInv
        <4> QED BY <4>1, <4>3 DEF Entries
      <3> QED BY <3>3, <3>4
    <2>10. s \subseteq OnOffer(offered)' BY <2>3, <2>8 DEF SteadyInv
    <2>11. k + 1 # 0 BY <1>1
    <2> HIDE DEF new
    <2>12. SteadyInv(c)' BY <2>1, <2>4, <2>8, <2>9, <2>10, <2>11 DEF SteadyInv
    <2> QED BY <2>7, <2>12 DEF RunInv
  <1> HIDE DEF r
  <1> QED BY <1>3, <1>4, <1>5, <1>6, <1>7, OneRun DEF RegistryInv, TypeOK

LEMMA ReadKeeps == ASSUME RegistryInv, NEW c \in Client, Read(c) PROVE RegistryInv'
  <1> DEFINE tools == offered[connections[refresh[c].at]]
  <1>1. tools \in [ToolName -> Definition \cup {None}] BY DEF RegistryInv, TypeOK, Read
  <1>2. steady' = [steady EXCEPT ![c] = steady[c]] BY DEF RegistryInv, TypeOK, Read, history
  <1>3. refresh' = [refresh EXCEPT ![c] = After(@, tools)] BY DEF Read
  <1>4. /\ refresh[c].at \in DOMAIN connections
        /\ UNCHANGED <<connections, offered, changes, registry, window>>
    BY DEF Read, history
  <1> QED BY <1>1, <1>2, <1>3, <1>4, TakeUpKeeps

LEMMA ReadFailsKeeps == ASSUME RegistryInv, NEW c \in Client, ReadFails(c) PROVE RegistryInv'
  <1> DEFINE s == {e \in steady[c] : e.upstream # connections[refresh[c].at]}
  <1>1. Nothing \in [ToolName -> Definition \cup {None}] BY DEF Nothing
  <1>2. steady' = [steady EXCEPT ![c] = s] BY DEF RegistryInv, TypeOK, ReadFails
  <1>3. refresh' = [refresh EXCEPT ![c] = After(@, Nothing)] BY DEF ReadFails
  <1>4. /\ refresh[c].at \in DOMAIN connections
        /\ UNCHANGED <<connections, offered, changes, registry, window>>
    BY DEF ReadFails
  <1>5. s \in SUBSET steady[c] /\ \A e \in s : e.upstream # connections[refresh[c].at] OBVIOUS
  <1> HIDE DEF s
  <1> QED BY <1>1, <1>2, <1>3, <1>4, <1>5, TakeUpKeeps

\* A run is over, and the registry one that build() makes or the one before.
LEMMA EndKeeps ==
  ASSUME RegistryInv, NEW c \in Client, registry' \in Known,
         UNCHANGED <<connections, offered, changes>>,
         refresh' = [refresh EXCEPT ![c] = Idle],
         window' = [window EXCEPT ![c] = {}],
         steady' = [steady EXCEPT ![c] = {}]
  PROVE  RegistryInv'
  <1>1. Idle \in Run
    <2>1. Count \in Nat BY DEF RegistryInv, TypeOK, Count
    <2> QED BY <2>1, IdleType DEF Run, Idle
  <1>2. RunInv(c)'
    <2>1. refresh'[c].at = 0 /\ steady'[c] = {} BY DEF RegistryInv, TypeOK, Idle
    <2>2. \A k \in DOMAIN connections' : ~(k < 0) BY DEF RegistryInv, TypeOK
    <2> QED BY <2>1, <2>2 DEF RunInv, CollectedInv, SteadyInv
  <1>3. {} \in SUBSET Entry /\ {} \in SUBSET {} OBVIOUS
  <1> QED BY <1>1, <1>2, <1>3, OneRun

LEMMA PublishKeeps == ASSUME RegistryInv, NEW c \in Client, Publish(c) PROVE RegistryInv'
  BY BuildType, EndKeeps DEF Publish

LEMMA CancelKeeps == ASSUME RegistryInv, NEW c \in Client, Cancel(c) PROVE RegistryInv'
  BY EndKeeps DEF Cancel, RegistryInv, TypeOK

LEMMA CallKeeps == ASSUME RegistryInv, NEW name, Call(name) PROVE RegistryInv'
  <1>1. UNCHANGED <<connections, offered, changes, registry, refresh, window, steady>>
    BY DEF Call, history
  <1>2. TypeOK' BY <1>1 DEF RegistryInv, TypeOK, Count
  <1>3. ASSUME NEW c \in Client PROVE RunInv(c)'
    BY <1>1 DEF RegistryInv, RunInv, CollectedInv, SteadyInv, OnOffer, Entries, ToSet
  <1> QED BY <1>2, <1>3 DEF RegistryInv

-----------------------------------------------------------------------------
(* The phases of the process *)

\* Steps of the process that leave every run of refresh_registry() alone.
LEMMA RegistryUntouched == ASSUME RegistryInv, UNCHANGED vars PROVE RegistryInv'
  <1>1. UNCHANGED <<connections, offered, changes, registry, refresh, window, steady>>
    BY DEF vars, history
  <1>2. TypeOK' BY <1>1 DEF RegistryInv, TypeOK, Count
  <1>3. ASSUME NEW c \in Client PROVE RunInv(c)'
    BY <1>1 DEF RegistryInv, RunInv, CollectedInv, SteadyInv, OnOffer, Entries, ToSet
  <1> QED BY <1>2, <1>3 DEF RegistryInv

\* Connections may change while nobody reads.
LEMMA NobodyReads ==
  ASSUME RegistryInv, connections' \in Seq(Upstream),
         UNCHANGED <<offered, changes, registry>>,
         \/ /\ \A c \in Client : refresh[c].at = 0
            /\ UNCHANGED <<refresh, window, steady>>
         \/ /\ refresh' = [c \in Client |-> Idle]
            /\ window' = [c \in Client |-> {}]
            /\ steady' = [c \in Client |-> {}]
  PROVE  RegistryInv' /\ \A c \in Client : refresh'[c].at = 0
  <1>1. Count' \in Nat BY DEF Count
  <1>2. CASE UNCHANGED <<refresh, window, steady>> /\ \A c \in Client : refresh[c].at = 0
    <2>1. refresh' \in [Client -> Run'] BY <1>1, <1>2 DEF RegistryInv, TypeOK, Run
    <2>2. TypeOK' BY <1>2, <2>1 DEF RegistryInv, TypeOK, Run
    <2>3. \A c \in Client : steady[c] = {} BY <1>2 DEF RegistryInv, RunInv, SteadyInv
    <2> QED BY <1>2, <2>2, <2>3 DEF RegistryInv, RunInv, CollectedInv, SteadyInv
  <1>3. CASE /\ refresh' = [c \in Client |-> Idle]
             /\ window' = [c \in Client |-> {}]
             /\ steady' = [c \in Client |-> {}]
    <2>1. Idle \in Run' BY <1>1, IdleType DEF Run, Idle
    <2>2. refresh' \in [Client -> Run'] BY <1>3, <2>1
    <2>3. TypeOK' BY <1>3, <2>2 DEF RegistryInv, TypeOK, Run
    <2>4. \A c \in Client : refresh'[c].at = 0 /\ steady'[c] = {} BY <1>3 DEF Idle
    <2> QED BY <2>3, <2>4 DEF RegistryInv, RunInv, CollectedInv, SteadyInv
  <1> QED BY <1>2, <1>3

LEMMA UpstreamsInOrder ==
  Len(Upstreams) \in Nat /\ \A k \in DOMAIN Upstreams : Upstreams[k] \in Upstream /\ k \in 1..Len(Upstreams)
  BY UpstreamsAssumption DEF Upstream

\* Upstreams have names of their own.
LEMMA PositionOf == ASSUME NEW k \in DOMAIN Upstreams PROVE Position(Upstreams[k]) = k
  <1>1. Upstreams[k] \in Upstream BY DEF Upstream
  <1>2. Position(Upstreams[k]) \in DOMAIN Upstreams BY <1>1, PositionType
  <1>3. Upstreams[Position(Upstreams[k])] = Upstreams[k] BY DEF Position
  <1> QED BY <1>2, <1>3, UpstreamsAssumption

\* Those before the k-th.
Before(k) == {Upstreams[j] : j \in 1..(k - 1)}

LEMMA BeforeGrows ==
  ASSUME NEW k \in DOMAIN Upstreams
  PROVE  /\ Before(k + 1) = Before(k) \cup {Upstreams[k]}
         /\ Upstreams[k] \notin Before(k)
         /\ \A u \in Before(k) : Position(u) < k
  <1>1. k \in 1..Len(Upstreams) /\ Len(Upstreams) \in Nat BY UpstreamsInOrder
  <1>2. 1..((k + 1) - 1) = (1..(k - 1)) \cup {k} BY <1>1
  <1>3. \A j \in 1..(k - 1) : j \in DOMAIN Upstreams /\ j < k BY <1>1, UpstreamsAssumption
  <1>4. \A j \in 1..(k - 1) : Position(Upstreams[j]) < k BY <1>3, PositionOf
  <1>5. \A j \in 1..(k - 1) : Upstreams[j] # Upstreams[k] BY <1>1, <1>3, UpstreamsAssumption
  <1> QED BY <1>2, <1>4, <1>5 DEF Before

LEMMA StartKeeps == ASSUME IInv, Refuse \/ Accept PROVE IInv'
  <1>1. RegistryInv' BY RegistryUntouched DEF IInv, Refuse, Accept
  <1>2. UNCHANGED <<connections, refresh>> BY DEF Refuse, Accept, vars
  <1>3. ServeTypeOK' BY <1>1 DEF IInv, RegistryInv, ServeTypeOK, Refuse, Accept, Phase
  <1>4. PhaseInv' BY <1>2 DEF IInv, PhaseInv, Refuse, Accept, ServeTypeOK
  <1>5. TurnInv' BY <1>2 DEF IInv, TurnInv, Refuse, Accept, ToSet
  <1>6. ListedInv'
    <2>1. UNCHANGED registry /\ phase = "start" BY DEF Refuse, Accept, vars
    <2> QED BY <1>2, <2>1 DEF IInv, ListedInv, ToSet
  <1> QED BY <1>1, <1>3, <1>4, <1>5, <1>6 DEF IInv

LEMMA ConnectKeeps == ASSUME IInv, Connect PROVE IInv'
  <1>1. Upstreams[next] \in Upstream /\ next \in 1..Len(Upstreams) /\ Len(Upstreams) \in Nat
    BY UpstreamsInOrder DEF Connect
  <1>2. connections' \in Seq(Upstream) /\ opened' \in Seq(Upstream)
    BY <1>1 DEF IInv, ServeTypeOK, TypeOK, Connect
  <1>3. \A c \in Client : refresh[c].at = 0 BY DEF IInv, PhaseInv, Connect
  <1>4. RegistryInv' /\ \A c \in Client : refresh'[c].at = 0
    BY <1>2, <1>3, NobodyReads DEF IInv, Connect, history
  <1>5. ServeTypeOK' BY <1>1, <1>2, <1>4 DEF IInv, RegistryInv, ServeTypeOK, Connect
  <1>6. PhaseInv' BY <1>4 DEF IInv, PhaseInv, Connect
  <1>7. TurnInv'
    <2> DEFINE u == Upstreams[next]
               n == Len(connections)
    <2>1. /\ failures \subseteq Before(next) /\ ToSet(connections) = Before(next) \ failures
          /\ \A i, j \in DOMAIN connections :
               i < j => Position(connections[i]) < Position(connections[j])
      BY DEF IInv, TurnInv, Before, Connect
    <2>2. /\ Before(next + 1) = Before(next) \cup {u} /\ u \notin Before(next)
          /\ \A v \in Before(next) : Position(v) < next
      BY BeforeGrows DEF Connect
    <2>3. Position(u) = next BY PositionOf DEF Connect
    <2>4. /\ n \in Nat /\ DOMAIN connections = 1..n /\ DOMAIN connections' = 1..(n + 1)
          /\ \A i \in 1..n : connections'[i] = connections[i]
          /\ connections'[n + 1] = u
      BY <1>1, <1>2 DEF IInv, ServeTypeOK, TypeOK, Connect
    <2> HIDE DEF n
    <2>5. ToSet(connections') = ToSet(connections) \cup {u}
      <3>1. \A v : v \in ToSet(connections') <=> v \in ToSet(connections) \/ v = u
        BY <2>4 DEF ToSet
      <3> QED BY <3>1
    <2> HIDE DEF u
    <2>6. ToSet(connections') = Before(next + 1) \ failures BY <2>1, <2>2, <2>5
    <2>7. \A i \in 1..n : Position(connections[i]) < next
      <3>1. \A i \in 1..n : connections[i] \in ToSet(connections) BY <2>4 DEF ToSet
      <3> QED BY <2>1, <2>2, <3>1
    <2>8. \A i, j \in DOMAIN connections' :
            i < j => Position(connections'[i]) < Position(connections'[j])
      <3> SUFFICES ASSUME NEW i \in 1..(n + 1), NEW j \in 1..(n + 1), i < j
                   PROVE  Position(connections'[i]) < Position(connections'[j])
        BY <2>4
      <3>1. CASE j = n + 1 BY <2>3, <2>4, <2>7, <3>1
      <3>2. CASE j \in 1..n BY <2>1, <2>4, <3>2
      <3> QED BY <2>4, <3>1, <3>2
    <2>9. next' = next + 1 /\ failures' = failures /\ phase' = "connecting" BY DEF Connect
    <2> QED BY <2>1, <2>2, <2>6, <2>8, <2>9 DEF TurnInv, Before
  <1>8. ListedInv'
    <2>1. ToSet(connections) \subseteq ToSet(connections')
      <3>1. \A i \in DOMAIN connections :
              i \in DOMAIN connections' /\ connections'[i] = connections[i]
        BY <1>1 DEF IInv, ServeTypeOK, TypeOK, Connect
      <3> QED BY <3>1 DEF ToSet
    <2>2. UNCHANGED registry /\ phase = "connecting" BY DEF Connect
    <2> QED BY <2>1, <2>2 DEF IInv, ListedInv
  <1> QED BY <1>4, <1>5, <1>6, <1>7, <1>8 DEF IInv

LEMMA ConnectFailsKeeps == ASSUME IInv, ConnectFails PROVE IInv'
  <1>1. Upstreams[next] \in Upstream /\ next \in 1..Len(Upstreams) /\ Len(Upstreams) \in Nat
    BY UpstreamsInOrder DEF ConnectFails
  <1>2. RegistryInv' BY RegistryUntouched DEF IInv, ConnectFails
  <1>3. UNCHANGED <<connections, refresh>> BY DEF ConnectFails, vars
  <1>4. ServeTypeOK' BY <1>1, <1>2 DEF IInv, RegistryInv, ServeTypeOK, ConnectFails
  <1>5. PhaseInv' BY <1>3 DEF IInv, PhaseInv, ConnectFails
  <1>6. TurnInv'
    <2> DEFINE u == Upstreams[next]
    <2>1. /\ failures \subseteq Before(next) /\ ToSet(connections) = Before(next) \ failures
      BY DEF IInv, TurnInv, Before, ConnectFails
    <2>2. Before(next + 1) = Before(next) \cup {u} /\ u \notin Before(next)
      BY BeforeGrows DEF ConnectFails
    <2>3. next' = next + 1 /\ failures' = failures \cup {u} /\ phase' = "connecting"
      BY DEF ConnectFails
    <2> HIDE DEF u
    <2>4. failures' \subseteq Before(next + 1) /\ ToSet(connections) = Before(next + 1) \ failures'
      BY <2>1, <2>2, <2>3
    <2>5. ToSet(connections') = ToSet(connections) /\ DOMAIN connections' = DOMAIN connections
      BY <1>3
    <2> QED BY <1>3, <2>3, <2>4, <2>5 DEF IInv, TurnInv, Before, ConnectFails
  <1>7. ListedInv'
    <2>1. UNCHANGED registry /\ phase = "connecting" BY DEF ConnectFails, vars
    <2> QED BY <1>3, <2>1 DEF IInv, ListedInv, ToSet
  <1> QED BY <1>2, <1>4, <1>5, <1>6, <1>7 DEF IInv

\* While tools are read and clients are served, the connections stay.
LEMMA WorkKeeps ==
  ASSUME IInv, RegistryInv',
         phase \in {"connecting", "refreshing", "serving", "stopping"},
         phase' \in {"refreshing", "serving", "stopping"},
         phase = "connecting" => next = Len(Upstreams) + 1,
         UNCHANGED <<connections, next, failures, opened>>,
         \/ registry' = registry
         \/ \A n \in DOMAIN registry' : registry'[n].upstream \in ToSet(connections)
  PROVE  IInv'
  <1>1. ServeTypeOK' BY DEF IInv, RegistryInv, ServeTypeOK, Phase
  <1>2. PhaseInv' BY DEF IInv, PhaseInv
  <1>3. ListedInv' BY DEF IInv, ListedInv, ToSet
  <1>4. TurnInv' BY DEF IInv, TurnInv, ToSet
  <1> QED BY <1>1, <1>2, <1>3, <1>4 DEF IInv

\* What a run lists has its connection, and was on offer since it began.
LEMMA PublishLists ==
  ASSUME RegistryInv, NEW c \in Client, Publish(c), NEW n \in DOMAIN registry'
  PROVE  registry'[n] \in window[c] /\ registry'[n].upstream \in ToSet(connections)
  <1>1. refresh[c].at # 0 BY DEF Publish, RegistryInv, TypeOK, Count
  <1>2. registry' = Build(refresh[c].collected) BY DEF Publish
  <1>3. registry'[n] \in Entries(refresh[c].collected) BY <1>2, BuildLists
  <1> QED BY <1>1, <1>3 DEF RegistryInv, RunInv, CollectedInv

LEMMA ConnectedKeeps == ASSUME IInv, Connected PROVE IInv'
  <1>1. RegistryInv' BY MainAssumption, BeginKeeps DEF IInv, Connected
  <1> QED BY <1>1, WorkKeeps DEF Connected, Begin

LEMMA RefreshFirstKeeps == ASSUME IInv, RefreshFirst PROVE IInv'
  <1>1. CASE Read(Main) /\ UNCHANGED phase
    <2>1. RegistryInv' BY <1>1, MainAssumption, ReadKeeps DEF IInv
    <2> QED BY <1>1, <2>1, WorkKeeps DEF RefreshFirst, Read
  <1>2. CASE ReadFails(Main) /\ UNCHANGED phase
    <2>1. RegistryInv' BY <1>2, MainAssumption, ReadFailsKeeps DEF IInv
    <2> QED BY <1>2, <2>1, WorkKeeps DEF RefreshFirst, ReadFails
  <1>3. CASE Publish(Main) /\ phase' = "serving"
    <2>1. RegistryInv' BY <1>3, MainAssumption, PublishKeeps DEF IInv
    <2>2. \A n \in DOMAIN registry' : registry'[n].upstream \in ToSet(connections)
      BY <1>3, MainAssumption, PublishLists DEF IInv
    <2>3. UNCHANGED connections BY <1>3 DEF Publish
    <2> QED BY <1>3, <2>1, <2>2, <2>3, WorkKeeps DEF RefreshFirst
  <1> QED BY <1>1, <1>2, <1>3 DEF RefreshFirst

LEMMA HandleKeeps == ASSUME IInv, Handle PROVE IInv'
  <1>1. UNCHANGED <<phase, next, failures, opened>> /\ phase = "serving"
    BY DEF Handle, processVars
  <1>2. ASSUME RegistryInv', UNCHANGED <<connections, registry>> PROVE IInv'
    BY <1>1, <1>2, WorkKeeps
  <1>3. ASSUME NEW c \in Client, Begin(c) PROVE IInv'
    BY <1>2, <1>3, BeginKeeps DEF IInv, Begin
  <1>4. ASSUME NEW name, Call(name) PROVE IInv'
    BY <1>2, <1>4, CallKeeps DEF IInv, Call
  <1> QED BY <1>3, <1>4 DEF Handle

LEMMA RequestsKeep == ASSUME IInv, Work PROVE IInv'
  <1>1. UNCHANGED <<phase, next, failures, opened>> BY DEF Work, processVars
  <1>2. ASSUME NEW c \in Client, refresh[c].at # 0 PROVE phase \in {"refreshing", "serving", "stopping"}
    BY <1>2 DEF IInv, PhaseInv
  <1>3. ASSUME NEW c \in Client, refresh[c].at # 0, RegistryInv', UNCHANGED <<connections, registry>>
        PROVE  IInv'
    BY <1>1, <1>2, <1>3, WorkKeeps
  <1>4. ASSUME NEW c \in Client, Read(c) \/ ReadFails(c) \/ Publish(c) \/ Cancel(c)
        PROVE  refresh[c].at # 0
    BY <1>4 DEF IInv, RegistryInv, TypeOK, Count, Read, ReadFails, Publish, Cancel
  <1>5. ASSUME NEW c \in Client, Read(c) PROVE IInv'
    BY <1>3, <1>4, <1>5, ReadKeeps DEF IInv, Read
  <1>6. ASSUME NEW c \in Client, ReadFails(c) PROVE IInv'
    BY <1>3, <1>4, <1>6, ReadFailsKeeps DEF IInv, ReadFails
  <1>7. ASSUME NEW c \in Client, Publish(c) PROVE IInv'
    <2>1. RegistryInv' BY <1>7, PublishKeeps DEF IInv
    <2>2. \A n \in DOMAIN registry' : registry'[n].upstream \in ToSet(connections)
      BY <1>7, PublishLists DEF IInv
    <2>3. UNCHANGED connections BY <1>7 DEF Publish
    <2>4. phase \in {"refreshing", "serving", "stopping"} BY <1>2, <1>4, <1>7
    <2> QED BY <1>1, <2>1, <2>2, <2>3, <2>4, WorkKeeps
  <1>8. ASSUME NEW c \in Client, Cancel(c) PROVE IInv'
    BY <1>3, <1>4, <1>8, CancelKeeps DEF IInv, Cancel
  <1> QED BY <1>5, <1>6, <1>7, <1>8 DEF Work

LEMMA DriftKeeps == ASSUME IInv, Drift PROVE IInv'
  <1>1. RegistryInv' BY ChangeKeeps DEF IInv, Drift
  <1> QED BY <1>1, WorkKeeps DEF Drift, Change, processVars

LEMMA StopKeeps == ASSUME IInv, Stop PROVE IInv'
  <1>1. RegistryInv'
    BY MainAssumption, RegistryUntouched, CancelKeeps DEF IInv, Stop
  <1>2. UNCHANGED <<connections, registry, next, failures, opened>>
    BY DEF Stop, Cancel, vars
  <1>3. phase \in {"refreshing", "serving"} /\ phase' = "stopping" BY DEF Stop
  <1> QED BY <1>1, <1>2, <1>3, WorkKeeps

LEMMA ForgetKeeps == ASSUME IInv, Forget PROVE IInv'
  <1>1. connections' \in Seq(Upstream)
    <2>1. connections' = <<>> BY DEF Forget
    <2> QED BY <2>1
  <1>2. RegistryInv' /\ \A c \in Client : refresh'[c].at = 0
    BY <1>1, NobodyReads DEF IInv, Forget
  <1>3. ServeTypeOK' BY <1>2 DEF IInv, RegistryInv, ServeTypeOK, Forget, Phase
  <1>4. PhaseInv' /\ TurnInv' /\ ListedInv'
    BY <1>2 DEF IInv, PhaseInv, TurnInv, ListedInv, Forget
  <1> QED BY <1>2, <1>3, <1>4 DEF IInv

LEMMA EndingKeeps == ASSUME IInv, Interrupt \/ CloseLast \/ Exit PROVE IInv'
  <1>1. RegistryInv' BY RegistryUntouched DEF IInv, Interrupt, CloseLast, Exit
  <1>2. UNCHANGED <<connections, refresh>> BY DEF Interrupt, CloseLast, Exit, vars
  <1>3. opened' \in Seq(Upstream)
    BY DEF IInv, ServeTypeOK, Interrupt, CloseLast, Exit, Front
  <1>4. ServeTypeOK'
    BY <1>1, <1>3
    DEF IInv, RegistryInv, ServeTypeOK, Interrupt, CloseLast, Exit, Phase
  <1>5. PhaseInv' /\ TurnInv' /\ ListedInv'
    BY <1>2 DEF IInv, PhaseInv, TurnInv, ListedInv, Interrupt, CloseLast, Exit
  <1> QED BY <1>1, <1>4, <1>5 DEF IInv

-----------------------------------------------------------------------------
(* The theorems *)

LEMMA InitHolds == ServeInit => IInv
  <1> SUFFICES ASSUME ServeInit PROVE IInv OBVIOUS
  <1>1. Len(Upstreams) \in Nat BY UpstreamsInOrder
  <1>2. Idle \in Run BY IdleType DEF ServeInit, Count, Run, Idle
  <1>3. refresh \in [Client -> Run] BY <1>2 DEF ServeInit
  <1>4. \A c \in Client : refresh[c].at = 0 /\ steady[c] = {} BY DEF ServeInit, Idle
  <1>5. TypeOK
    BY <1>3, BuildType, UpstreamsAssumption DEF ServeInit, TypeOK, Run
  <1>6. ServeTypeOK
    <2>1. next \in 1..(Len(Upstreams) + 1) BY <1>1 DEF ServeInit
    <2>2. opened \in Seq(Upstream)
      <3>1. opened = <<>> BY DEF ServeInit
      <3> QED BY <3>1
    <2>4. failures \subseteq Upstream BY DEF ServeInit
    <2>3. phase \in Phase BY DEF ServeInit, Phase
    <2> QED BY <1>5, <2>1, <2>2, <2>3, <2>4 DEF ServeTypeOK
  <1>7. ListedInv
    <2>1. \A n \in DOMAIN registry : registry[n] \in Entries(NoTools)
      BY BuildLists DEF ServeInit
    <2> QED BY <2>1, NothingListed DEF ListedInv
  <1> QED BY <1>4, <1>5, <1>6, <1>7
          DEF IInv, RegistryInv, RunInv, CollectedInv, SteadyInv, PhaseInv, TurnInv, ServeInit, ToSet

LEMMA NextKeeps == IInv /\ [ServeNext]_serveVars => IInv'
  <1> SUFFICES ASSUME IInv, [ServeNext]_serveVars PROVE IInv' OBVIOUS
  <1>1. CASE UNCHANGED serveVars
    <2>1. UNCHANGED <<connections, refresh, registry>> /\ UNCHANGED processVars /\ UNCHANGED vars
      BY <1>1 DEF serveVars, vars
    <2>2. RegistryInv' BY <2>1, RegistryUntouched DEF IInv
    <2> QED BY <2>1, <2>2
            DEF IInv, RegistryInv, ServeTypeOK, PhaseInv, TurnInv, ListedInv, processVars, ToSet
  <1> QED BY <1>1, StartKeeps, ConnectKeeps, ConnectFailsKeeps, ConnectedKeeps,
             RefreshFirstKeeps, HandleKeeps, RequestsKeep, DriftKeeps, StopKeeps,
             ForgetKeeps, EndingKeeps
          DEF ServeNext

\* The invariant of a process and its registry.
THEOREM Inductive == ServeSpec => []IInv
  BY InitHolds, NextKeeps, PTL DEF ServeSpec

\* Type correctness.
THEOREM TypeCorrect == ServeSpec => []ServeTypeOK
  <1>1. IInv => ServeTypeOK BY DEF IInv
  <1> QED BY <1>1, Inductive, PTL

\* The upstream of every listed tool has its connection until all connections
\* are forgotten (_forward, UpstreamManager.__aexit__).
THEOREM ListedIsConnected == ServeSpec => []ListedToolsHaveConnections
  <1>1. IInv => ListedToolsHaveConnections
    BY DEF IInv, ListedInv, PhaseInv, ListedToolsHaveConnections
  <1> QED BY <1>1, Inductive, PTL

PublishedWasOffered(c) ==
  /\ refresh[c].at # 0 /\ refresh'[c].at = 0
  /\ \A n \in DOMAIN registry' : registry'[n] \in window[c]

LEMMA OnlyPublishLists ==
  ASSUME IInv, [ServeNext]_serveVars, registry' # registry
  PROVE  \E c \in Client : Publish(c)
  <1>1. registry' = registry \/ RefreshFirst \/ Work
    BY DEF ServeNext, serveVars, vars, Refuse, Accept, Connect, ConnectFails, Connected,
           Begin, Handle, Call, Drift, Change, Stop, Cancel, Forget, Interrupt, CloseLast, Exit
  <1>2. CASE RefreshFirst BY <1>2, MainAssumption DEF RefreshFirst, Read, ReadFails
  <1>3. CASE Work BY <1>3 DEF Work, Read, ReadFails, Cancel
  <1> QED BY <1>1, <1>2, <1>3

\* What is published was on offer, hints included, at some time since the
\* refresh that publishes it began (refresh_registry).
THEOREM PublishedIsNew == ServeSpec => PublishedIsRecent
  <1>1. ASSUME IInv, [ServeNext]_serveVars, registry' # registry
        PROVE  \E c \in Client : PublishedWasOffered(c)
    <2>1. PICK c \in Client : Publish(c) BY <1>1, OnlyPublishLists
    <2>2. refresh[c].at # 0 /\ refresh'[c].at = 0
      BY <1>1, <2>1 DEF Publish, IInv, RegistryInv, TypeOK, Count, Idle
    <2>3. \A n \in DOMAIN registry' : registry'[n] \in window[c]
      BY <1>1, <2>1, PublishLists DEF IInv
    <2> QED BY <2>2, <2>3 DEF PublishedWasOffered
  <1>2. IInv /\ [ServeNext]_serveVars =>
          [registry' # registry =>
             \E c \in Client :
               /\ refresh[c].at # 0 /\ refresh'[c].at = 0
               /\ \A n \in DOMAIN registry' : registry'[n] \in window[c]]_vars
    BY <1>1 DEF PublishedWasOffered
  <1> QED BY <1>2, Inductive, PTL DEF ServeSpec, PublishedIsRecent

\* Upstreams that fail leave the others connected, in their order, and are told
\* apart from them (UpstreamManager.__aenter__).
THEOREM FailuresStayIsolated == ServeSpec => []FailuresAreIsolated
  <1>1. ASSUME IInv PROVE FailuresAreIsolated
    <2>1. Upstream = {Upstreams[k] : k \in 1..((Len(Upstreams) + 1) - 1)}
      BY UpstreamsAssumption DEF Upstream
    <2> QED BY <1>1, <2>1 DEF IInv, TurnInv, FailuresAreIsolated
  <1> QED BY <1>1, Inductive, PTL

-----------------------------------------------------------------------------
(* Names *)

\* What splitting relies on: the config accepts no upstream without a name or
\* with a separator in it, but does accept one that ends in half a separator;
\* and tools have a name.
WellNamed ==
  /\ \A u \in Upstream : u # <<>> /\ Separators(u) = {} /\ u[Len(u)] # Underscore
  /\ \A t \in ToolName : t # <<>>

LEMMA NameTypes ==
  ASSUME NEW e \in Entry PROVE e.upstream \in Seq(STRING) /\ e.remote \in Seq(STRING)
  BY UpstreamsAssumption DEF Entry, Upstream

LEMMA LeastOf ==
  ASSUME NEW S, NEW k \in S, S \subseteq Int, \A j \in S : k <= j
  PROVE  Min(S) = k
  <1>1. \A x \in S : (\A y \in S : x <= y) => x = k OBVIOUS
  <1> QED BY <1>1 DEF Min

Char == STRING \cup {Underscore}

\* The first separator of a name is the one that joined it.
LEMMA SplitsBack ==
  ASSUME NEW u \in Seq(Char), NEW t \in Seq(Char),
         u # <<>>, Separators(u) = {}, u[Len(u)] # Underscore, t # <<>>
  PROVE  SplitNamespace(Namespace(u, t)) = <<u, t>>
  <1> DEFINE m == Len(u)
             n == Len(t)
             mid == <<Underscore, Underscore>>
             name == Namespace(u, t)
  <1>1. m \in Nat \ {0} /\ n \in Nat \ {0}
    <2>1. m \in Nat \ {0} BY EmptySeq
    <2>2. n \in Nat \ {0} BY EmptySeq
    <2> QED BY <2>1, <2>2
  <1>2. /\ name \in Seq(Char) /\ Len(name) = m + 2 + n
        /\ \A i \in 1..m : name[i] = u[i]
        /\ name[m + 1] = Underscore /\ name[m + 2] = Underscore
        /\ \A i \in 1..n : name[m + 2 + i] = t[i]
    <2>1. mid \in Seq(Char) BY DEF Char
    <2>2. Len(mid) = 2 /\ mid[1] = Underscore /\ mid[2] = Underscore OBVIOUS
    <2> HIDE DEF mid
    <2> DEFINE front == u \o mid
    <2>3. /\ front \in Seq(Char) /\ Len(front) = m + 2
          /\ \A i \in 1..(m + 2) : front[i] = IF i <= m THEN u[i] ELSE mid[i - m]
      <3>1. /\ front \in Seq(Char) /\ Len(front) = Len(u) + Len(mid)
            /\ \A i \in 1..(Len(u) + Len(mid)) :
                 front[i] = IF i <= Len(u) THEN u[i] ELSE mid[i - Len(u)]
        BY <2>1, ConcatProperties
      <3> QED BY <2>2, <3>1
    <2>4. name = front \o t BY DEF Namespace, mid
    <2> HIDE DEF front, name
    <2>5. /\ name \in Seq(Char) /\ Len(name) = m + 2 + n
          /\ \A i \in 1..(m + 2 + n) : name[i] = IF i <= m + 2 THEN front[i] ELSE t[i - (m + 2)]
      <3>1. /\ name \in Seq(Char) /\ Len(name) = Len(front) + Len(t)
            /\ \A i \in 1..(Len(front) + Len(t)) :
                 name[i] = IF i <= Len(front) THEN front[i] ELSE t[i - Len(front)]
        BY <2>3, <2>4, ConcatProperties
      <3> QED BY <2>3, <3>1
    <2> HIDE DEF m, n
    <2>6. \A i \in 1..m : name[i] = u[i] BY <1>1, <2>3, <2>5
    <2>7. name[m + 1] = Underscore /\ name[m + 2] = Underscore
      <3>1. front[m + 1] = mid[1] /\ front[m + 2] = mid[2] BY <1>1, <2>3
      <3> QED BY <1>1, <2>2, <2>5, <3>1
    <2>8. \A i \in 1..n : name[m + 2 + i] = t[i] BY <1>1, <2>5
    <2> QED BY <2>5, <2>6, <2>7, <2>8
  <1> HIDE DEF name, m, n
  <1>3. m + 1 \in Separators(name) BY <1>1, <1>2 DEF Separators
  <1>4. \A k \in Separators(name) : m + 1 <= k
    <2> SUFFICES ASSUME NEW k \in 1..m, name[k] = Underscore, name[k + 1] = Underscore PROVE FALSE
      BY <1>1, <1>2 DEF Separators
    <2>1. CASE k = m BY <1>1, <1>2, <2>1 DEF m
    <2>2. CASE k < m
      <3>1. k \in 1..(m - 1) /\ k + 1 \in 1..m BY <1>1, <2>2
      <3>2. u[k] = Underscore /\ u[k + 1] = Underscore BY <1>2, <3>1
      <3>3. k \in Separators(u) BY <3>1, <3>2 DEF Separators, m
      <3> QED BY <3>3
    <2> QED BY <1>1, <2>1, <2>2
  <1>5. Min(Separators(name)) = m + 1
    <2>1. Separators(name) \subseteq Int BY DEF Separators
    <2> QED BY <1>3, <1>4, <2>1, LeastOf
  <1>6. SubSeq(name, 1, (m + 1) - 1) = u
    <2> DEFINE s == SubSeq(name, 1, (m + 1) - 1)
    <2>1. s \in Seq(Char) /\ Len(s) = m /\ \A i \in 1..m : s[i] = u[i] BY <1>1, <1>2
    <2> QED BY <2>1, SeqEqual DEF m
  <1>7. SubSeq(name, (m + 1) + 2, Len(name)) = t
    <2> DEFINE s == SubSeq(name, (m + 1) + 2, Len(name))
    <2>1. s \in Seq(Char) /\ Len(s) = n /\ \A i \in 1..n : s[i] = name[m + 2 + i]
      BY <1>1, <1>2
    <2>2. \A i \in 1..n : s[i] = t[i] BY <1>2, <2>1
    <2> QED BY <2>1, <2>2, SeqEqual DEF n
  <1> QED BY <1>3, <1>5, <1>6, <1>7 DEF SplitNamespace, name

LEMMA EntrySplits ==
  ASSUME WellNamed, NEW e \in Entry
  PROVE  SplitNamespace(NameOf(e)) = <<e.upstream, e.remote>>
  <1>1. e.upstream \in Upstream /\ e.remote \in ToolName BY DEF Entry
  <1>2. e.upstream \in Seq(Char) /\ e.remote \in Seq(Char)
    BY NameTypes, SeqMonotonic DEF Char
  <1> QED BY <1>1, <1>2, SplitsBack DEF WellNamed, NameOf

\* So every tool has a name of its own.
LEMMA NamesApart ==
  ASSUME WellNamed, NEW e \in Entry, NEW f \in Entry, NameOf(e) = NameOf(f)
  PROVE  e.upstream = f.upstream /\ e.remote = f.remote
  <1>1. <<e.upstream, e.remote>> = <<f.upstream, f.remote>> BY EntrySplits
  <1> QED BY <1>1

\* build() lists all that was collected.
LEMMA BuildListsAll ==
  ASSUME WellNamed, NEW tools, NEW e \in Entries(tools)
  PROVE  NameOf(e) \in DOMAIN Build(tools) /\ Build(tools)[NameOf(e)] = e
  <1> DEFINE f == Build(tools)[NameOf(e)]
  <1>1. NameOf(e) \in DOMAIN Build(tools) BY DEF Build
  <1>2. f \in Entries(tools) /\ NameOf(f) = NameOf(e) BY <1>1, BuildLists
  <1> HIDE DEF f
  <1>3. f \in Entry /\ e \in Entry BY <1>2 DEF Entries
  <1>4. f.upstream = e.upstream /\ f.remote = e.remote BY <1>2, <1>3, NamesApart
  <1>5. f.tool = e.tool BY <1>2, <1>4 DEF Entries
  <1>6. f = e BY <1>3, <1>4, <1>5 DEF Entry
  <1> QED BY <1>1, <1>6 DEF f

\* "Splitting is unambiguous" (registry.py), unless an upstream's name ends in
\* half a separator.
THEOREM SplittingWorks ==
  ASSUME WellNamed PROVE ServeSpec => []SplittingIsUnambiguous
  <1>1. ASSUME IInv PROVE SplittingIsUnambiguous
    <2>1. \A n \in DOMAIN registry : registry[n] \in Entry /\ NameOf(registry[n]) = n
      BY <1>1 DEF IInv, RegistryInv, TypeOK, Known
    <2> QED BY <2>1, EntrySplits DEF SplittingIsUnambiguous
  <1> QED BY <1>1, Inductive, PTL

\* A call of a tool that is no longer there is recorded under the upstream that
\* used to offer it (_unknown_tool, split_namespace).
THEOREM MissesAreFiled ==
  ASSUME WellNamed PROVE ServeSpec => []MissesAreFiledUnderTheirUpstream
  <1>1. ASSUME NEW e \in Entry, Call(NameOf(e)) PROVE MissesAreFiledUnderTheirUpstream'
    <2> SUFFICES ASSUME filed' # None, NEW f \in Entry, NameOf(f) = filed'.name
                 PROVE  filed'.upstream = f.upstream
      BY DEF MissesAreFiledUnderTheirUpstream
    <2>1. <<e.upstream, e.remote>> # None BY NameTypes, UpstreamsAssumption
    <2>2. filed'.name = NameOf(e) /\ filed'.upstream = e.upstream
      BY <1>1, <2>1, EntrySplits DEF Call
    <2> QED BY <2>2, NamesApart
  <1>2. ASSUME ServeInit PROVE MissesAreFiledUnderTheirUpstream
    BY <1>2 DEF ServeInit, MissesAreFiledUnderTheirUpstream
  <1>3. ASSUME MissesAreFiledUnderTheirUpstream, [ServeNext]_serveVars
        PROVE  MissesAreFiledUnderTheirUpstream'
    <2>1. CASE UNCHANGED filed BY <1>3, <2>1 DEF MissesAreFiledUnderTheirUpstream
    <2>2. UNCHANGED filed \/ \E e \in Entry : Call(NameOf(e))
      BY <1>3 DEF ServeNext, serveVars, vars, Refuse, Accept, Connect, ConnectFails,
                  Connected, RefreshFirst, Handle, Work, Drift, Begin, Read, ReadFails, Publish,
                  Cancel, Change, Stop, Forget, Interrupt, CloseLast, Exit
    <2> QED BY <1>1, <2>1, <2>2
  <1> QED BY <1>2, <1>3, PTL DEF ServeSpec

\* Whichever upstreams broke, changed or were read by other requests meanwhile,
\* a refresh lists every tool that was on offer, and readable, throughout
\* (refresh_registry).
THEOREM BrokenBlankThemselves ==
  ASSUME WellNamed PROVE ServeSpec => BrokenUpstreamsBlankOnlyThemselves
  <1>1. ASSUME IInv, NEW c \in Client, refresh[c].at = Count + 1, NEW e \in steady[c]
        PROVE  e \in Entries(refresh[c].collected)
    <2>1. SteadyInv(c) BY <1>1 DEF IInv, RegistryInv, RunInv
    <2>2. PICK k \in DOMAIN connections : connections[k] = e.upstream
      BY <1>1, <2>1 DEF SteadyInv, OnOffer
    <2>3. k < Count + 1 BY <1>1 DEF IInv, RegistryInv, TypeOK, Count
    <2> QED BY <1>1, <2>1, <2>2, <2>3 DEF SteadyInv
  <1>2. IInv => [\A c \in Client :
                   refresh[c].at = Count + 1 /\ refresh'[c].at = 0
                   /\ registry' = Build(refresh[c].collected) =>
                     \A e \in steady[c] : NameOf(e) \in DOMAIN registry' /\ registry'[NameOf(e)] = e]_vars
    BY <1>1, BuildListsAll
  <1> QED BY <1>2, Inductive, PTL DEF BrokenUpstreamsBlankOnlyThemselves
=============================================================================

------------------------------ MODULE GlobProofs ------------------------------
(***************************************************************************)
(* A compiled glob matches what the documentation says the glob covers.    *)
(***************************************************************************)
EXTENDS Glob, Integers, Sequences, SequenceTheorems, WellFoundedInduction, TLAPS

\* The fragments of patterns over these characters.
Token(Char) == Char \cup Class

-----------------------------------------------------------------------------
(* Recursion over numbers *)

LEMMA LeastElement ==
  ASSUME NEW T, T \subseteq Nat, T # {} PROVE \E x \in T : \A y \in T : x <= y
<1>1. PICK x \in T : \A y \in T : ~(<<y, x>> \in OpToRel(<, Nat))
  BY WFMin, NatLessThanWellFounded
<1>2. \A y \in T : ~(y < x)
  BY <1>1 DEF OpToRel
<1> QED
  BY <1>2

\* A set of numbers up to n that has 0 and the successors of what it has has all.
LEMMA UpTo ==
  ASSUME NEW n \in Nat, NEW T, 0 \in T, \A k \in 0..(n - 1) : k \in T => k + 1 \in T
  PROVE  \A k \in 0..n : k \in T
<1> DEFINE Missing == {k \in 0..n : k \notin T}
<1>1. SUFFICES ASSUME Missing # {} PROVE FALSE
  OBVIOUS
<1>2. PICK k \in Missing : \A j \in Missing : k <= j
  <2>1. Missing \subseteq Nat
    OBVIOUS
  <2> HIDE DEF Missing
  <2> QED
    BY <1>1, <2>1, LeastElement
<1>3. k # 0 /\ k \in 0..n /\ k \notin T
  BY <1>2
<1>4. k - 1 \in 0..(n - 1) /\ k - 1 \in T
  BY <1>2, <1>3
<1> QED
  BY <1>3, <1>4

\* f[k] is what k steps lead to, from a.
Repetition(f, n, a, F) == f[0] = a /\ \A k \in 1..n : f[k] = F[k][f[k - 1]]

LEMMA Repeats ==
  ASSUME NEW V, NEW a \in V, NEW F \in [Nat -> [V -> V]], NEW n \in Nat
  PROVE  \E f \in [0..n -> V] : Repetition(f, n, a, F)
<1> DEFINE Runs(m) == \E f \in [0..m -> V] : Repetition(f, m, a, F)
           T == {m \in Nat : Runs(m)}
<1>1. Runs(0)
  <2> DEFINE f == [k \in 0..0 |-> a]
  <2>1. f \in [0..0 -> V] /\ Repetition(f, 0, a, F)
    BY DEF Repetition
  <2> QED
    BY <2>1
<1>2. ASSUME NEW m \in Nat, Runs(m) PROVE Runs(m + 1)
  <2>1. PICK f \in [0..m -> V] : Repetition(f, m, a, F)
    BY <1>2
  <2> DEFINE g == [k \in 0..(m + 1) |-> IF k = m + 1 THEN F[m + 1][f[m]] ELSE f[k]]
  <2>2. F[m + 1][f[m]] \in V
    BY <2>1
  <2>3. g \in [0..(m + 1) -> V] /\ g[0] = a
    BY <2>1, <2>2 DEF Repetition
  <2>4. ASSUME NEW k \in 1..(m + 1) PROVE g[k] = F[k][g[k - 1]]
    <3>1. g[k - 1] = f[k - 1]
      OBVIOUS
    <3>2. CASE k = m + 1
      <4>1. g[k] = F[m + 1][f[m]] /\ k - 1 = m
        BY <3>2
      <4> QED
        BY <3>1, <3>2, <4>1
    <3>3. CASE k # m + 1
      <4>1. k \in 1..m /\ g[k] = f[k]
        BY <3>3
      <4> QED
        BY <2>1, <3>1, <4>1 DEF Repetition
    <3> QED
      BY <3>2, <3>3
  <2> HIDE DEF g
  <2> QED
    BY <2>3, <2>4 DEF Repetition
<1> HIDE DEF Runs
<1>3. 0 \in T /\ \A k \in 0..(n - 1) : k \in T => k + 1 \in T
  BY <1>1, <1>2
<1> HIDE DEF T
<1>4. \A k \in 0..n : k \in T
  BY <1>3, UpTo
<1>5. n \in T
  BY <1>4
<1> QED
  BY <1>5 DEF T, Runs

-----------------------------------------------------------------------------
(* Matching: the places a text can be left at *)

\* reached[k] of Reached().
IsReached(f, regex, text) ==
  /\ f \in [0..Len(regex) -> SUBSET (0..Len(text))]
  /\ f[0] = {0}
  /\ \A k \in 1..Len(regex) : f[k] = Onward(regex[k], text, f[k - 1])

LEMMA EndsInText ==
  ASSUME NEW fragment, NEW text, Len(text) \in Nat, NEW i \in 0..Len(text)
  PROVE  Ends(fragment, text, i) \subseteq 0..Len(text)
<1>1. i..Len(text) \subseteq 0..Len(text)
  OBVIOUS
<1> QED
  BY <1>1, Zenon DEF Ends

LEMMA OnwardInText ==
  ASSUME NEW fragment, NEW text, Len(text) \in Nat, NEW places \in SUBSET (0..Len(text))
  PROVE  Onward(fragment, text, places) \in SUBSET (0..Len(text))
BY EndsInText DEF Onward

LEMMA ReachedIs ==
  ASSUME NEW regex, NEW text, Len(regex) \in Nat, Len(text) \in Nat
  PROVE  \E f : IsReached(f, regex, text) /\ Reached(regex, text) = f[Len(regex)]
<1> DEFINE n == Len(regex)
           V == SUBSET (0..Len(text))
           F == [k \in Nat |-> [S \in V |-> Onward(regex[k], text, S)]]
           Body(f) == [k \in 0..n |-> IF k = 0 THEN {0}
                                      ELSE Onward(regex[k], text, f[k - 1])]
           reached == CHOOSE f : f = Body(f)
<1>1. F \in [Nat -> [V -> V]]
  <2>1. \A k \in Nat, S \in V : F[k][S] \in V
    BY OnwardInText
  <2> QED
    BY <2>1
<1>2. \E f : IsReached(f, regex, text)
  <2>1. {0} \in V
    OBVIOUS
  <2>2. PICK f \in [0..n -> V] : Repetition(f, n, {0}, F)
    <3> HIDE DEF F, V
    <3> QED
      BY <1>1, <2>1, Repeats
  <2>3. ASSUME NEW k \in 1..n PROVE f[k] = Onward(regex[k], text, f[k - 1])
    <3>1. k \in Nat /\ f[k - 1] \in V
      OBVIOUS
    <3> QED
      BY <2>2, <3>1 DEF Repetition
  <2> QED
    BY <2>2, <2>3 DEF IsReached, Repetition
<1>3. PICK f : IsReached(f, regex, text)
  BY <1>2
<1>4. f = Body(f)
  <2>1. \A k \in 0..n : f[k] = Body(f)[k]
    BY <1>3 DEF IsReached
  <2> QED
    BY <1>3, <2>1 DEF IsReached
<1>5. reached = Body(reached)
  <2> HIDE DEF Body
  <2> QED
    BY <1>4
<1>6. Reached(regex, text) = reached[n]
  BY DEF Reached
<1>7. \A h : /\ DOMAIN Body(h) = 0..n
             /\ Body(h)[0] = {0}
             /\ \A k \in 1..n : Body(h)[k] = Onward(regex[k], text, h[k - 1])
  OBVIOUS
<1>8. \A h : (\A k \in 0..n : Body(h)[k] \in V) => Body(h) \in [0..n -> V]
  OBVIOUS
<1>9. IsReached(reached, regex, text)
  <2> HIDE DEF reached, Body
  <2>1. reached[0] = {0} /\ \A k \in 1..n : reached[k] = Onward(regex[k], text, reached[k - 1])
    BY <1>5, <1>7
  <2>2. \A k \in 0..n : reached[k] \in V
    <3> DEFINE T == {k \in 0..n : reached[k] \in V}
    <3>1. 0 \in T
      BY <2>1
    <3>2. ASSUME NEW k \in 0..(n - 1), k \in T PROVE k + 1 \in T
      <4>1. k + 1 \in 1..n /\ (k + 1) - 1 = k
        OBVIOUS
      <4>2. reached[k + 1] = Onward(regex[k + 1], text, reached[k])
        BY <2>1, <4>1
      <4> QED
        BY <3>2, <4>2, OnwardInText
    <3> HIDE DEF T
    <3>3. \A k \in 0..n : k \in T
      BY <3>1, <3>2, UpTo
    <3> QED
      BY <3>3 DEF T
  <2>3. reached \in [0..n -> V]
    BY <1>5, <1>8, <2>2
  <2> QED
    BY <2>1, <2>3 DEF IsReached
<1> QED
  BY <1>6, <1>9

LEMMA ReachedNone ==
  ASSUME NEW text, Len(text) \in Nat
  PROVE  Reached(<<>>, text) = {0}
<1>1. Len(<<>>) = 0
  BY EmptySeq
<1> QED
  BY <1>1, ReachedIs DEF IsReached

\* One more fragment goes on from where those before it can leave the text.
LEMMA ReachedAppend ==
  ASSUME NEW S, NEW regex \in Seq(S), NEW fragment \in S, NEW text, Len(text) \in Nat
  PROVE  /\ Reached(Append(regex, fragment), text) = Onward(fragment, text, Reached(regex, text))
         /\ Reached(regex, text) \in SUBSET (0..Len(text))
<1> DEFINE n == Len(regex)
           longer == Append(regex, fragment)
<1>1. /\ n \in Nat /\ Len(longer) = n + 1 /\ longer[n + 1] = fragment
      /\ \A k \in 1..n : longer[k] = regex[k]
  BY AppendProperties, LenProperties
<1> HIDE DEF n, longer
<1>2. PICK f : IsReached(f, regex, text) /\ Reached(regex, text) = f[n]
  BY <1>1, ReachedIs DEF n
<1>3. PICK g : IsReached(g, longer, text) /\ Reached(longer, text) = g[n + 1]
  BY <1>1, ReachedIs
<1> DEFINE T == {k \in 0..n : f[k] = g[k]}
<1>4. 0 \in T
  <2>1. f[0] = {0} /\ g[0] = {0}
    BY <1>2, <1>3 DEF IsReached
  <2>2. 0 \in 0..n /\ f[0] = g[0]
    BY <1>1, <2>1
  <2> QED
    BY <2>2
<1>5. ASSUME NEW k \in 0..(n - 1), k \in T PROVE k + 1 \in T
  <2>1. k + 1 \in 1..n /\ k + 1 \in 1..(n + 1) /\ (k + 1) - 1 = k
    BY <1>1
  <2>2. f[k + 1] = Onward(regex[k + 1], text, f[k])
    BY <1>2, <2>1 DEF IsReached, n
  <2>3. g[k + 1] = Onward(longer[k + 1], text, g[k])
    BY <1>1, <1>3, <2>1 DEF IsReached
  <2> QED
    BY <1>1, <1>5, <2>1, <2>2, <2>3
<1>6. f[n] = g[n]
  <2> HIDE DEF T
  <2>1. \A k \in 0..n : k \in T
    BY <1>1, <1>4, <1>5, UpTo
  <2>2. n \in T
    BY <1>1, <2>1
  <2> QED
    BY <2>2 DEF T
<1>7. g[n + 1] = Onward(longer[n + 1], text, g[n])
  <2>1. n + 1 \in 1..(n + 1) /\ (n + 1) - 1 = n
    BY <1>1
  <2> QED
    BY <1>1, <1>3, <2>1 DEF IsReached
<1>8. f[n] \in SUBSET (0..Len(text))
  BY <1>1, <1>2 DEF IsReached, n
<1> QED
  BY <1>1, <1>2, <1>3, <1>6, <1>7, <1>8 DEF longer

-----------------------------------------------------------------------------
(* Compiling: the loop's states *)

LoopState(Char) == [out : Seq(Token(Char)), skip : BOOLEAN]

\* done[i] of Compile().
IsCompiled(f, Char, pattern, aware) ==
  /\ f \in [0..Len(pattern) -> LoopState(Char)]
  /\ f[0] = [out |-> <<>>, skip |-> FALSE]
  /\ \A i \in 1..Len(pattern) : f[i] = Emit(pattern, aware, i, f[i - 1])

LEMMA FragmentIsToken ==
  ASSUME NEW Char, NEW char \in Char, NEW aware \in BOOLEAN
  PROVE  Fragment(char, aware) \in Token(Char)
<1>1. CASE char = "*"
  BY <1>1 DEF Fragment, Token, Class
<1>2. CASE char = "?"
  BY <1>2 DEF Fragment, Token, Class
<1>3. CASE char \notin {"*", "?"}
  BY <1>3 DEF Fragment, Token, Class
<1> QED
  BY <1>1, <1>2, <1>3

LEMMA EmitKeepsType ==
  ASSUME NEW Char, NEW pattern \in Seq(Char), NEW aware \in BOOLEAN, NEW i \in 1..Len(pattern),
         NEW done \in LoopState(Char)
  PROVE  Emit(pattern, aware, i, done) \in LoopState(Char)
<1> DEFINE isDoubled == aware /\ pattern[i] = "*" /\ i < Len(pattern) /\ pattern[i + 1] = "*"
           out == done.out
           one == Append(out, Fragment(pattern[i], aware))
           below == [out EXCEPT ![Len(out)] = "and-below"]
           any == Append(out, "anything")
<1>1. out \in Seq(Token(Char)) /\ isDoubled \in BOOLEAN /\ pattern[i] \in Char
  BY ElementOfSeq DEF LoopState
<1>2. Emit(pattern, aware, i, done) =
        IF done.skip THEN [out |-> out, skip |-> FALSE]
        ELSE [skip |-> isDoubled,
              out |-> IF ~isDoubled THEN one
                      ELSE IF CoversParent(out, i, Len(pattern)) THEN below ELSE any]
  BY DEF Emit
<1> HIDE DEF isDoubled, out
<1>3. one \in Seq(Token(Char)) /\ any \in Seq(Token(Char))
  <2>1. Fragment(pattern[i], aware) \in Token(Char) /\ "anything" \in Token(Char)
    BY <1>1, FragmentIsToken DEF Token, Class
  <2> QED
    BY <1>1, <2>1, AppendProperties
<1>4. CoversParent(out, i, Len(pattern)) => below \in Seq(Token(Char))
  <2> SUFFICES ASSUME out # <<>> PROVE below \in Seq(Token(Char))
    BY DEF CoversParent
  <2>1. Len(out) \in 1..Len(out) /\ "and-below" \in Token(Char)
    BY <1>1, EmptySeq DEF Token, Class
  <2> QED
    BY <1>1, <2>1, ExceptSeq
<1> HIDE DEF one, below, any
<1> QED
  BY <1>1, <1>2, <1>3, <1>4 DEF LoopState

LEMMA CompiledIs ==
  ASSUME NEW Char, NEW pattern \in Seq(Char), NEW aware \in BOOLEAN
  PROVE  \E f : IsCompiled(f, Char, pattern, aware) /\ Compile(pattern, aware) = f[Len(pattern)].out
<1> DEFINE n == Len(pattern)
           a == [out |-> <<>>, skip |-> FALSE]
           F == [k \in Nat |-> [s \in LoopState(Char) |->
                   IF k \in 1..n THEN Emit(pattern, aware, k, s) ELSE s]]
           Body(f) == [i \in 0..n |-> IF i = 0 THEN a ELSE Emit(pattern, aware, i, f[i - 1])]
           done == CHOOSE f : f = Body(f)
<1>1. a \in LoopState(Char) /\ n \in Nat
  BY DEF LoopState
<1>2. F \in [Nat -> [LoopState(Char) -> LoopState(Char)]]
  <2>1. \A k \in Nat, s \in LoopState(Char) : F[k][s] \in LoopState(Char)
    BY EmitKeepsType
  <2> QED
    BY <2>1
<1>3. PICK f \in [0..n -> LoopState(Char)] : Repetition(f, n, a, F)
  <2> HIDE DEF F, a, n
  <2> QED
    BY <1>1, <1>2, Repeats
<1>4. f = Body(f)
  <2>1. ASSUME NEW k \in 1..n PROVE f[k] = Emit(pattern, aware, k, f[k - 1])
    <3>1. k \in Nat /\ f[k - 1] \in LoopState(Char)
      OBVIOUS
    <3> QED
      BY <1>3, <3>1 DEF Repetition
  <2>2. f[0] = a
    BY <1>3 DEF Repetition
  <2> HIDE DEF a
  <2>3. \A k \in 0..n : f[k] = Body(f)[k]
    BY <2>1, <2>2
  <2> QED
    BY <2>3
<1>5. done = Body(done)
  <2> HIDE DEF Body
  <2> QED
    BY <1>4
<1>6. Compile(pattern, aware) = done[n].out
  BY DEF Compile
<1>7. \A h : /\ Body(h)[0] = a
             /\ \A k \in 1..n : Body(h)[k] = Emit(pattern, aware, k, h[k - 1])
  OBVIOUS
<1>8. \A h : (\A k \in 0..n : Body(h)[k] \in LoopState(Char)) => Body(h) \in [0..n -> LoopState(Char)]
  OBVIOUS
<1>9. IsCompiled(done, Char, pattern, aware)
  <2> HIDE DEF done, Body
  <2>1. done[0] = a /\ \A k \in 1..n : done[k] = Emit(pattern, aware, k, done[k - 1])
    BY <1>5, <1>7
  <2>2. \A k \in 0..n : done[k] \in LoopState(Char)
    <3> DEFINE T == {k \in 0..n : done[k] \in LoopState(Char)}
    <3>1. 0 \in T
      BY <1>1, <2>1
    <3>2. ASSUME NEW k \in 0..(n - 1), k \in T PROVE k + 1 \in T
      <4>1. k + 1 \in 1..n /\ (k + 1) - 1 = k
        OBVIOUS
      <4>2. done[k + 1] = Emit(pattern, aware, k + 1, done[k])
        BY <2>1, <4>1
      <4> QED
        BY <3>2, <4>1, <4>2, EmitKeepsType
    <3> HIDE DEF T
    <3>3. \A k \in 0..n : k \in T
      BY <1>1, <3>1, <3>2, UpTo
    <3> QED
      BY <3>3 DEF T
  <2>3. done \in [0..n -> LoopState(Char)]
    BY <1>5, <1>8, <2>2
  <2> QED
    BY <2>1, <2>3 DEF IsCompiled
<1> QED
  BY <1>6, <1>9

-----------------------------------------------------------------------------
(* What the documentation says: the places covered *)

\* from[p] of CoversUpTo().
IsCovered(f, pattern, text, m, levels) ==
  /\ f \in [0..Len(pattern) -> SUBSET (0..m)]
  /\ f[Len(pattern)] = {m}
  /\ \A p \in 0..(Len(pattern) - 1) :
       f[p] = CoveredFrom(pattern, text, m, levels, p, f[p + 1], f[p + 2])

LEMMA CoveredInText ==
  ASSUME NEW pattern, NEW text, NEW m \in Nat, NEW levels, NEW p, NEW next, NEW later
  PROVE  CoveredFrom(pattern, text, m, levels, p, next, later) \in SUBSET (0..m)
BY Zenon DEF CoveredFrom

\* The later places are asked for only where there are two more characters.
LEMMA LaterIsNotAsked ==
  ASSUME NEW pattern, Len(pattern) \in Nat, NEW text, NEW m, NEW levels, NEW next, NEW x, NEW y
  PROVE  CoveredFrom(pattern, text, m, levels, Len(pattern) - 1, next, x)
           = CoveredFrom(pattern, text, m, levels, Len(pattern) - 1, next, y)
<1>1. ~(Len(pattern) - 1 + 2 <= Len(pattern))
  OBVIOUS
<1> QED
  BY <1>1, Zenon DEF CoveredFrom

LEMMA CoveredIs ==
  ASSUME NEW pattern, Len(pattern) \in Nat, NEW text, NEW m \in Nat, NEW levels
  PROVE  \E f : /\ IsCovered(f, pattern, text, m, levels)
                /\ CoversUpTo(pattern, text, m, levels) <=> 0 \in f[0]
<1> DEFINE n == Len(pattern)
           V == SUBSET (0..m)
           At(p, next, later) == CoveredFrom(pattern, text, m, levels, p, next, later)
           Pair == [here : V, next : V]
           a == [here |-> {m}, next |-> {}]
           F == [k \in Nat |-> [s \in Pair |-> [here |-> At(n - k, s.here, s.next), next |-> s.here]]]
           Body(f) == [p \in 0..n |-> IF p = n THEN {m} ELSE At(p, f[p + 1], f[p + 2])]
           from == CHOOSE f : f = Body(f)
<1>1. \A p, next, later : At(p, next, later) \in V
  BY CoveredInText
<1>2. \A next, x, y : At(n - 1, next, x) = At(n - 1, next, y)
  BY LaterIsNotAsked
<1> HIDE DEF At
<1>3. F \in [Nat -> [Pair -> Pair]] /\ a \in Pair
  BY <1>1
<1>4. PICK h \in [0..n -> Pair] : Repetition(h, n, a, F)
  <2> HIDE DEF F, a, Pair, n
  <2>1. n \in Nat
    BY DEF n
  <2> QED
    BY <1>3, <2>1, Repeats
<1>5. ASSUME NEW k \in 1..n
      PROVE  h[k] = [here |-> At(n - k, h[k - 1].here, h[k - 1].next), next |-> h[k - 1].here]
  <2> DEFINE s == h[k - 1]
  <2>1. k \in Nat /\ s \in Pair
    <3> HIDE DEF Pair
    <3> QED
      OBVIOUS
  <2>2. F[k][s] = [here |-> At(n - k, s.here, s.next), next |-> s.here]
    <3> HIDE DEF Pair, s
    <3> QED
      BY <2>1
  <2>3. h[k] = F[k][s]
    <3> HIDE DEF F, Pair
    <3> QED
      BY <1>4 DEF Repetition
  <2> QED
    BY <2>2, <2>3
<1>6. h[0] = a
  BY <1>4 DEF Repetition
<1> DEFINE f == [p \in 0..n |-> h[n - p].here]
<1>7. f = Body(f)
  <2>1. ASSUME NEW p \in 0..(n - 1) PROVE f[p] = At(p, f[p + 1], f[p + 2])
    <3> DEFINE k == n - p
    <3>1. k \in 1..n /\ n - k = p /\ p + 1 \in 0..n /\ n - (p + 1) = k - 1
      OBVIOUS
    <3>2. f[p] = h[k].here /\ f[p + 1] = h[k - 1].here
      BY <3>1
    <3> HIDE DEF f, k
    <3> HIDE DEF Body, F, a, Pair
    <3>3. f[p] = At(p, f[p + 1], h[k - 1].next)
      <4>1. h[k] = [here |-> At(n - k, h[k - 1].here, h[k - 1].next), next |-> h[k - 1].here]
        BY <1>5, <3>1
      <4> QED
        BY <3>1, <3>2, <4>1
    <3>4. CASE p = n - 1
      BY <1>2, <3>3, <3>4
    <3>5. CASE p # n - 1
      <4>1. k - 1 \in 1..n /\ p + 2 \in 0..n /\ n - (p + 2) = (k - 1) - 1
        BY <3>1, <3>5
      <4>2. h[k - 1].next = h[(k - 1) - 1].here
        <5> DEFINE i == k - 1
        <5>1. i \in 1..n
          BY <4>1
        <5> HIDE DEF i
        <5>2. h[i] = [here |-> At(n - i, h[i - 1].here, h[i - 1].next), next |-> h[i - 1].here]
          BY <1>5, <5>1
        <5>3. h[i].next = h[i - 1].here
          BY <5>2
        <5> QED
          BY <5>3 DEF i
      <4>3. f[p + 2] = h[n - (p + 2)].here
        BY <4>1 DEF f
      <4> QED
        BY <3>3, <4>1, <4>2, <4>3
    <3> QED
      BY <3>4, <3>5
  <2>2. f[n] = {m}
    BY <1>6
  <2>3. ASSUME NEW p \in 0..n PROVE f[p] = Body(f)[p]
    <3> HIDE DEF f
    <3>1. Body(f)[p] = IF p = n THEN {m} ELSE At(p, f[p + 1], f[p + 2])
      OBVIOUS
    <3>2. p # n => p \in 0..(n - 1)
      OBVIOUS
    <3> QED
      BY <2>1, <2>2, <3>1, <3>2
  <2> QED
    BY <2>3
<1>8. from = Body(from)
  <2> HIDE DEF Body, f
  <2> QED
    BY <1>7
<1>9. CoversUpTo(pattern, text, m, levels) <=> 0 \in from[0]
  BY DEF CoversUpTo, At
<1>10. \A g : /\ Body(g)[n] = {m}
              /\ \A p \in 0..(n - 1) : Body(g)[p] = At(p, g[p + 1], g[p + 2])
              /\ Body(g) \in [0..n -> V]
  <2> TAKE g
  <2>1. \A p \in 0..n : Body(g)[p] \in V
    BY <1>1
  <2>2. Body(g) \in [0..n -> V]
    BY <2>1
  <2>3. Body(g)[n] = {m} /\ \A p \in 0..(n - 1) : Body(g)[p] = At(p, g[p + 1], g[p + 2])
    OBVIOUS
  <2> QED
    BY <2>2, <2>3
<1>11. IsCovered(from, pattern, text, m, levels)
  <2> HIDE DEF Body, from
  <2>1. from[n] = {m} /\ \A p \in 0..(n - 1) : from[p] = At(p, from[p + 1], from[p + 2])
    BY <1>8, <1>10
  <2>2. from \in [0..n -> V]
    BY <1>8, <1>10
  <2> QED
    BY <2>1, <2>2 DEF IsCovered, At
<1> QED
  BY <1>9, <1>11

-----------------------------------------------------------------------------
(* What one fragment matches is what its part of the pattern covers *)

LEMMA EndsOf ==
  ASSUME NEW text, Len(text) \in Nat, NEW i \in 0..Len(text)
  PROVE  /\ Ends("anything", text, i) = i..Len(text)
         /\ Ends("in-level", text, i) = {j \in i..Len(text) : \A k \in (i + 1)..j : text[k] # "/"}
         /\ \A j : j \in Ends("any-one", text, i) <=> j = i + 1 /\ j <= Len(text)
         /\ \A j : j \in Ends("not-/", text, i) <=> j = i + 1 /\ j <= Len(text) /\ text[j] # "/"
         /\ \A j : j \in Ends("and-below", text, i) <=>
              j \in i..Len(text) /\ (j = i \/ text[i + 1] = "/")
         /\ \A c : c \notin Class =>
              \A j : j \in Ends(c, text, i) <=> j = i + 1 /\ j <= Len(text) /\ text[j] = c
<1> DEFINE rest == i..Len(text)
<1>1. \A j : j \in rest \cap {i + 1} <=> j = i + 1 /\ j <= Len(text)
  OBVIOUS
<1>2. Ends("anything", text, i) = rest
  BY Zenon DEF Ends
<1>3. Ends("in-level", text, i) = {j \in rest : \A k \in (i + 1)..j : text[k] # "/"}
  BY Zenon DEF Ends
<1>4. Ends("any-one", text, i) = rest \cap {i + 1}
  BY Zenon DEF Ends
<1>5. Ends("not-/", text, i) = {j \in rest \cap {i + 1} : \A k \in (i + 1)..j : text[k] # "/"}
  BY Zenon DEF Ends
<1>6. Ends("and-below", text, i) = {i} \cup {j \in rest : j > i /\ text[i + 1] = "/"}
  BY Zenon DEF Ends
<1>7. ASSUME NEW c, c \notin Class PROVE Ends(c, text, i) = {j \in rest \cap {i + 1} : text[j] = c}
  BY <1>7, Zenon DEF Ends, Class
<1>8. \A j : j \in Ends("and-below", text, i) <=> j \in rest /\ (j = i \/ text[i + 1] = "/")
  <2>1. \A j : j = i \/ (j \in rest /\ j > i) <=> j \in rest
    OBVIOUS
  <2>2. \A j : j \in Ends("and-below", text, i) <=> j = i \/ (j \in rest /\ j > i /\ text[i + 1] = "/")
    BY <1>6
  <2> HIDE DEF rest
  <2> QED
    BY <2>1, <2>2
<1>9. \A j : j \in Ends("not-/", text, i) <=> j = i + 1 /\ j <= Len(text) /\ text[j] # "/"
  <2>1. \A j : j \in Ends("not-/", text, i) <=>
          j = i + 1 /\ j <= Len(text) /\ \A k \in (i + 1)..j : text[k] # "/"
    BY <1>1, <1>5
  <2>2. \A j : j = i + 1 => ((\A k \in (i + 1)..j : text[k] # "/") <=> text[j] # "/")
    OBVIOUS
  <2> QED
    BY <2>1, <2>2
<1>10. \A j : j \in Ends("any-one", text, i) <=> j = i + 1 /\ j <= Len(text)
  BY <1>1, <1>4
<1>11. ASSUME NEW c, c \notin Class, NEW j
       PROVE  j \in Ends(c, text, i) <=> j = i + 1 /\ j <= Len(text) /\ text[j] = c
  BY <1>1, <1>7, <1>11
<1> HIDE DEF rest
<1> QED
  BY <1>2, <1>3, <1>8, <1>9, <1>10, <1>11 DEF rest

\* Whether there are two stars behind the first p characters, or "/**" that
\* ends the pattern.
IsDoubled(pattern, p) == p + 2 <= Len(pattern) /\ pattern[p + 1] = "*" /\ pattern[p + 2] = "*"
IsBelow(pattern, p) ==
  p + 3 = Len(pattern) /\ pattern[p + 1] = "/" /\ pattern[p + 2] = "*" /\ pattern[p + 3] = "*"

\* What one character of the pattern, but for these, covers.
CoversCharacter(char, text, m, levels, next, i) ==
  /\ i \in 0..m
  /\ char = "*" => \E j \in next : i <= j /\ (levels => \A k \in (i + 1)..j : text[k] # "/")
  /\ char = "?" => i + 1 \in next /\ (levels => \A k \in (i + 1)..(i + 1) : text[k] # "/")
  /\ char \notin {"*", "?"} => i + 1 \in next /\ text[i + 1] = char

LEMMA CoveredByCharacter ==
  ASSUME NEW pattern, NEW text, NEW m \in Nat, NEW levels \in BOOLEAN, NEW p \in Nat,
         NEW next \in SUBSET (0..m), NEW later,
         ~(levels /\ IsBelow(pattern, p)), ~(levels /\ IsDoubled(pattern, p))
  PROVE  \A i : i \in CoveredFrom(pattern, text, m, levels, p, next, later) <=>
                 CoversCharacter(pattern[p + 1], text, m, levels, next, i)
<1> DEFINE now == CoveredFrom(pattern, text, m, levels, p, next, later)
           Ahead(i) == {j \in next : i <= j}
           InLevel(i, j) == \A k \in (i + 1)..j : text[k] # "/"
<1>1. CASE pattern[p + 1] = "*"
  <2>1. now = {i \in 0..m : \E j \in Ahead(i) : levels => InLevel(i, j)}
    BY <1>1, Zenon DEF CoveredFrom, IsBelow, IsDoubled
  <2>2. "*" # "?"
    OBVIOUS
  <2> QED
    BY <1>1, <2>1, <2>2, Zenon DEF CoversCharacter
<1>2. CASE pattern[p + 1] = "?"
  <2>1. now = {i \in 0..m : i + 1 \in next /\ (levels => InLevel(i, i + 1))}
    BY <1>2, Zenon DEF CoveredFrom, IsBelow, IsDoubled
  <2>2. "*" # "?"
    OBVIOUS
  <2> QED
    BY <1>2, <2>1, <2>2, Zenon DEF CoversCharacter
<1>3. CASE pattern[p + 1] \notin {"*", "?"}
  <2>1. now = {i \in 0..m : i + 1 \in next /\ text[i + 1] = pattern[p + 1]}
    BY <1>3, Zenon DEF CoveredFrom, IsBelow, IsDoubled
  <2> QED
    BY <1>3, <2>1, Zenon DEF CoversCharacter
<1> QED
  BY <1>1, <1>2, <1>3, Zenon

LEMMA OneCharacter ==
  ASSUME NEW Char, Char \cap Class = {}, NEW pattern \in Seq(Char),
         NEW text, Len(text) \in Nat, NEW m \in 0..Len(text), NEW levels \in BOOLEAN,
         NEW p \in 0..(Len(pattern) - 1), NEW next \in SUBSET (0..m), NEW later,
         ~(levels /\ IsBelow(pattern, p)), ~(levels /\ IsDoubled(pattern, p)),
         NEW i \in 0..Len(text)
  PROVE  i \in CoveredFrom(pattern, text, m, levels, p, next, later) <=>
           \E j \in Ends(Fragment(pattern[p + 1], levels), text, i) : j \in next
<1> DEFINE char == pattern[p + 1]
           now == CoveredFrom(pattern, text, m, levels, p, next, later)
           InLevel(j) == \A k \in (i + 1)..j : text[k] # "/"
<1>1. char \in Char /\ p \in Nat /\ m \in Nat
  BY ElementOfSeq
<1>2. i \in now <=>
        /\ i \in 0..m
        /\ char = "*" => \E j \in next : i <= j /\ (levels => InLevel(j))
        /\ char = "?" => i + 1 \in next /\ (levels => InLevel(i + 1))
        /\ char \notin {"*", "?"} => i + 1 \in next /\ text[i + 1] = char
  <2>1. i \in now <=> CoversCharacter(char, text, m, levels, next, i)
    BY <1>1, CoveredByCharacter
  <2> QED
    BY <2>1, Zenon DEF CoversCharacter
<1>3. /\ levels => Fragment("*", levels) = "in-level" /\ Fragment("?", levels) = "not-/"
      /\ ~levels => Fragment("*", levels) = "anything" /\ Fragment("?", levels) = "any-one"
      /\ char \notin {"*", "?"} => Fragment(char, levels) = char
  <2>1. "*" # "?"
    OBVIOUS
  <2> QED
    BY <2>1, Zenon DEF Fragment
<1>4. \A j \in next : j \in 0..m /\ (i <= j <=> j \in i..Len(text))
  OBVIOUS
<1> HIDE DEF char, now
<1>5. CASE char = "*"
  <2>1. i \in now <=> i \in 0..m /\ \E j \in next : i <= j /\ (levels => InLevel(j))
    BY <1>2, <1>5
  <2>2. (\E j \in next : i <= j) => i \in 0..m
    BY <1>4
  <2> HIDE DEF InLevel
  <2>3. CASE levels
    <3>1. Ends("in-level", text, i) = {j \in i..Len(text) : InLevel(j)}
      BY EndsOf DEF InLevel
    <3> QED
      BY <1>3, <1>4, <1>5, <2>1, <2>2, <2>3, <3>1, Zenon DEF char, now
  <2>4. CASE ~levels
    <3>1. Ends("anything", text, i) = i..Len(text)
      BY EndsOf
    <3> QED
      BY <1>3, <1>4, <1>5, <2>1, <2>2, <2>4, <3>1, Zenon DEF char, now
  <2> QED
    BY <2>3, <2>4
<1>6. i + 1 \in next => i \in 0..m /\ i + 1 <= Len(text)
  BY <1>4
<1>7. CASE char = "?"
  <2>1. InLevel(i + 1) <=> text[i + 1] # "/"
    OBVIOUS
  <2>2. i \in now <=> i + 1 \in next /\ (levels => text[i + 1] # "/")
    BY <1>2, <1>6, <1>7, <2>1
  <2>3. CASE levels
    <3>1. \A j : j \in Ends("not-/", text, i) <=> j = i + 1 /\ j <= Len(text) /\ text[j] # "/"
      BY EndsOf
    <3> QED
      BY <1>3, <1>6, <1>7, <2>2, <2>3, <3>1, Zenon DEF char, now
  <2>4. CASE ~levels
    <3>1. \A j : j \in Ends("any-one", text, i) <=> j = i + 1 /\ j <= Len(text)
      BY EndsOf
    <3> QED
      BY <1>3, <1>6, <1>7, <2>2, <2>4, <3>1, Zenon DEF char, now
  <2> QED
    BY <2>3, <2>4
<1>8. CASE char \notin {"*", "?"}
  <2>1. \A j : j \in Ends(char, text, i) <=> j = i + 1 /\ j <= Len(text) /\ text[j] = char
    BY <1>1, EndsOf
  <2>2. i \in now <=> i + 1 \in next /\ text[i + 1] = char
    BY <1>2, <1>6, <1>8
  <2> QED
    BY <1>3, <1>6, <1>8, <2>1, <2>2, Zenon DEF char, now
<1> QED
  BY <1>5, <1>7, <1>8

LEMMA TwoStars ==
  ASSUME NEW pattern, NEW text, Len(text) \in Nat, NEW m \in 0..Len(text), NEW p \in Nat,
         NEW next, NEW later \in SUBSET (0..m), IsDoubled(pattern, p), NEW i \in 0..Len(text)
  PROVE  i \in CoveredFrom(pattern, text, m, TRUE, p, next, later) <=>
           \E j \in Ends("anything", text, i) : j \in later
<1>1. pattern[p + 1] # "/"
  BY DEF IsDoubled
<1>2. CoveredFrom(pattern, text, m, TRUE, p, next, later)
        = {x \in 0..m : {j \in later : x <= j} # {}}
  BY <1>1, Zenon DEF CoveredFrom, IsDoubled
<1>3. \A j \in later : j \in 0..m /\ (i <= j <=> j \in i..Len(text))
  OBVIOUS
<1>4. Ends("anything", text, i) = i..Len(text)
  BY EndsOf
<1>5. (\E j \in later : i <= j) => i \in 0..m
  BY <1>3
<1> QED
  BY <1>2, <1>3, <1>4, <1>5, Zenon

\* The fragment leads from just the places of now to some of next.
SplitAlike(text, fragment, now, next) ==
  \A i \in 0..Len(text) : i \in now <=> \E j \in Ends(fragment, text, i) : j \in next

LEMMA LevelsBelow ==
  ASSUME NEW pattern, NEW text, Len(text) \in Nat, NEW m \in 0..Len(text), NEW p \in Nat,
         NEW next, NEW later, IsBelow(pattern, p)
  PROVE  SplitAlike(text, "and-below", CoveredFrom(pattern, text, m, TRUE, p, next, later), {m})
<1>1. SUFFICES ASSUME NEW i \in 0..Len(text)
               PROVE  i \in CoveredFrom(pattern, text, m, TRUE, p, next, later) <=>
                        \E j \in Ends("and-below", text, i) : j \in {m}
  BY DEF SplitAlike
<1>2. CoveredFrom(pattern, text, m, TRUE, p, next, later)
        = {x \in 0..m : x = m \/ text[x + 1] = "/"}
  BY Zenon DEF CoveredFrom, IsBelow
<1>3. m \in i..Len(text) <=> i \in 0..m
  OBVIOUS
<1>4. m \in Ends("and-below", text, i) <=> m \in i..Len(text) /\ (m = i \/ text[i + 1] = "/")
  BY EndsOf
<1> QED
  BY <1>2, <1>3, <1>4, Zenon

Meet(S, T) == \E i \in S : i \in T


\* What is so of every place is so of all the places reached.
LEMMA Carried ==
  ASSUME NEW text, Len(text) \in Nat, NEW fragment, NEW R \in SUBSET (0..Len(text)), NEW now, NEW next,
         SplitAlike(text, fragment, now, next)
  PROVE  Meet(R, now) <=> Meet(Onward(fragment, text, R), next)
BY Zenon DEF Meet, Onward, SplitAlike

-----------------------------------------------------------------------------
(* One turn of the loop *)

EndsLevel(out) == out # <<>> /\ out[Len(out)] = "/"

LEMMA FragmentOfSeparator ==
  ASSUME NEW char, NEW aware \in BOOLEAN
  PROVE  Fragment(char, aware) = "/" <=> char = "/"
<1>1. "/" \notin {"*", "?", "in-level", "anything", "not-/", "any-one"} /\ "*" # "?"
  OBVIOUS
<1> QED
  BY <1>1, Zenon DEF Fragment

LEMMA LastOfAppend ==
  ASSUME NEW S, NEW s \in Seq(S), NEW e \in S
  PROVE  EndsLevel(Append(s, e)) <=> e = "/"
<1> DEFINE t == Append(s, e)
<1>1. t # <<>> /\ Len(t) = Len(s) + 1 /\ t[Len(s) + 1] = e
  BY AppendProperties, LenProperties
<1> HIDE DEF t
<1>2. t[Len(t)] = e
  BY <1>1
<1>3. EndsLevel(t) <=> e = "/"
  BY <1>1, <1>2 DEF EndsLevel
<1> QED
  BY <1>3 DEF t

LEMMA LastReplaced ==
  ASSUME NEW S, NEW s \in Seq(S), NEW e \in S, NEW d \in S
  PROVE  [Append(s, e) EXCEPT ![Len(Append(s, e))] = d] = Append(s, d)
<1> DEFINE t == Append(s, e)
           u == Append(s, d)
           v == [t EXCEPT ![Len(t)] = d]
<1>1. t \in Seq(S) /\ Len(t) = Len(s) + 1 /\ Len(s) \in Nat
  BY AppendProperties, LenProperties
<1>2. /\ u \in Seq(S) /\ Len(u) = Len(s) + 1 /\ u[Len(s) + 1] = d
      /\ \A i \in 1..Len(s) : u[i] = s[i] /\ t[i] = s[i]
  BY AppendProperties
<1>3. v \in Seq(S) /\ Len(v) = Len(t) /\ \A j \in 1..Len(t) : v[j] = IF j = Len(t) THEN d ELSE t[j]
  <2>1. Len(t) \in 1..Len(t)
    BY <1>1
  <2> HIDE DEF t
  <2> QED
    BY <1>1, <2>1, ExceptSeq
<1> HIDE DEF t, u, v
<1>4. \A i \in 1..Len(v) : v[i] = u[i]
  BY <1>1, <1>2, <1>3
<1>5. u = v
  BY <1>1, <1>2, <1>3, <1>4, SeqEqual
<1> QED
  BY <1>5 DEF t, u, v

LEMMA EmitSkips ==
  ASSUME NEW pattern, NEW aware, NEW i, NEW done, done.skip
  PROVE  Emit(pattern, aware, i, done) = [out |-> done.out, skip |-> FALSE]
BY Zenon DEF Emit

LEMMA EmitOne ==
  ASSUME NEW pattern, Len(pattern) \in Nat, NEW aware, NEW p \in 0..(Len(pattern) - 1),
         NEW done, ~done.skip, ~(aware /\ IsDoubled(pattern, p))
  PROVE  Emit(pattern, aware, p + 1, done)
           = [skip |-> FALSE, out |-> Append(done.out, Fragment(pattern[p + 1], aware))]
<1> DEFINE isDoubled == aware /\ pattern[p + 1] = "*" /\ p + 1 < Len(pattern) /\ pattern[p + 1 + 1] = "*"
<1>1. ~isDoubled
  BY DEF IsDoubled
<1>2. isDoubled = FALSE
  BY <1>1
<1> QED
  BY <1>1, <1>2, Zenon DEF Emit

ParentIsCovered(pattern, p, out) == EndsLevel(out) /\ p + 2 = Len(pattern)

EmittedStars(pattern, p, out) ==
  IF ParentIsCovered(pattern, p, out) THEN [out EXCEPT ![Len(out)] = "and-below"] ELSE Append(out, "anything")

LEMMA EmitStars ==
  ASSUME NEW pattern, Len(pattern) \in Nat, NEW aware, NEW p \in 0..(Len(pattern) - 1),
         NEW done, ~done.skip, aware, IsDoubled(pattern, p)
  PROVE  Emit(pattern, aware, p + 1, done)
           = [skip |-> TRUE, out |-> EmittedStars(pattern, p, done.out)]
<1> DEFINE isDoubled == aware /\ pattern[p + 1] = "*" /\ p + 1 < Len(pattern) /\ pattern[p + 1 + 1] = "*"
<1>1. isDoubled
  BY DEF IsDoubled
<1>2. isDoubled = TRUE
  BY <1>1
<1>3. CoversParent(done.out, p + 1, Len(pattern)) <=> ParentIsCovered(pattern, p, done.out)
  BY DEF CoversParent, ParentIsCovered, EndsLevel
<1>4. Emit(pattern, aware, p + 1, done)
        = [skip |-> TRUE,
           out |-> IF CoversParent(done.out, p + 1, Len(pattern))
                   THEN [done.out EXCEPT ![Len(done.out)] = "and-below"]
                   ELSE Append(done.out, "anything")]
  BY <1>1, <1>2, Zenon DEF Emit
<1> QED
  BY <1>3, <1>4, Zenon DEF EmittedStars

-----------------------------------------------------------------------------
(* The loop's invariant                                                    *)
(*                                                                         *)
(* D are the loop's states and C the places covered.  The text is covered  *)
(* from its beginning exactly if what is out after p characters can leave  *)
(* it where the other characters cover it from.  Between the separator and *)
(* the stars of a last "/**" that is not so, for the separator is going to *)
(* be taken back; there it is so of the state before.                      *)

InParent(pattern, levels, p) == levels /\ p # 0 /\ IsBelow(pattern, p - 1)

Splits(out, text, places, C) == Meet(Reached(out, text), places) <=> 0 \in C[0]

Before(S, out, text, places, C) ==
  \E start \in Seq(S) : out = Append(start, "/") /\ Splits(start, text, places, C)

LoopInv(Char, pattern, text, levels, D, C, p) ==
  LET n == Len(pattern)
      out == D[p].out
  IN /\ EndsLevel(out) <=> p # 0 /\ pattern[p] = "/"
     /\ D[p].skip =>
          /\ p \in 1..(n - 1) /\ pattern[p] = "*" /\ pattern[p + 1] = "*"
          /\ Splits(out, text, C[p + 1], C)
     /\ ~D[p].skip /\ InParent(pattern, levels, p) =>
          Before(Token(Char), out, text, C[p - 1], C)
     /\ ~D[p].skip /\ ~InParent(pattern, levels, p) => Splits(out, text, C[p], C)

\* One more fragment splits the text as well as those before it did.
LEMMA SplitsOn ==
  ASSUME NEW S, NEW out \in Seq(S), NEW fragment \in S, NEW text, Len(text) \in Nat,
         NEW now, NEW next, NEW C, Splits(out, text, now, C), SplitAlike(text, fragment, now, next)
  PROVE  Splits(Append(out, fragment), text, next, C)
<1>1. /\ Reached(Append(out, fragment), text) = Onward(fragment, text, Reached(out, text))
      /\ Reached(out, text) \in SUBSET (0..Len(text))
  BY ReachedAppend
<1>2. Meet(Reached(out, text), now) <=> Meet(Onward(fragment, text, Reached(out, text)), next)
  BY <1>1, Carried
<1> QED
  BY <1>1, <1>2, Zenon DEF Splits

LEMMA LoopStep ==
  ASSUME NEW Char, Char \cap Class = {}, NEW pattern \in Seq(Char), NEW text, Len(text) \in Nat,
         NEW m \in 0..Len(text), NEW levels \in BOOLEAN, NEW D, NEW C,
         IsCompiled(D, Char, pattern, levels), IsCovered(C, pattern, text, m, levels),
         NEW p \in 0..(Len(pattern) - 1), LoopInv(Char, pattern, text, levels, D, C, p)
  PROVE  LoopInv(Char, pattern, text, levels, D, C, p + 1)
<1> DEFINE n == Len(pattern)
           q == p + 1
           T == Token(Char)
<1>1. /\ n \in Nat /\ q \in 1..n /\ q # 0 /\ q - 1 = p /\ q + 1 = p + 2 /\ p \in Nat
      /\ pattern[q] \in Char
  BY ElementOfSeq, LenProperties
<1>2. D[p].out \in Seq(T) /\ D[p].skip \in BOOLEAN /\ D[q] = Emit(pattern, levels, q, D[p])
  <2>1. D[p] \in LoopState(Char)
    BY <1>1 DEF IsCompiled
  <2>2. D[q] = Emit(pattern, levels, q, D[q - 1])
    BY <1>1 DEF IsCompiled
  <2> QED
    BY <1>1, <2>1, <2>2 DEF LoopState
<1> HIDE DEF T
<1>3. C[p] = CoveredFrom(pattern, text, m, levels, p, C[q], C[p + 2])
  BY DEF IsCovered
<1>4. C[q] \in SUBSET (0..m)
  <2>1. q \in 0..n
    BY <1>1
  <2> QED
    BY <2>1 DEF IsCovered
<1>5. InParent(pattern, levels, q) <=> levels /\ IsBelow(pattern, p)
  BY <1>1 DEF InParent
<1>6. InParent(pattern, levels, p) =>
        p # 0 /\ p + 2 = n /\ pattern[p] = "/" /\ levels /\ IsDoubled(pattern, p)
  <2> SUFFICES ASSUME levels, p # 0, IsBelow(pattern, p - 1)
               PROVE  p + 2 = n /\ pattern[p] = "/" /\ IsDoubled(pattern, p)
    BY DEF InParent
  <2>1. (p - 1) + 3 = p + 2 /\ (p - 1) + 1 = p /\ (p - 1) + 2 = p + 1
    BY <1>1
  <2> QED
    BY <1>1, <2>1 DEF IsBelow, IsDoubled
<1>7. "anything" \in T /\ "and-below" \in T /\ Fragment(pattern[q], levels) \in T
  BY <1>1, FragmentIsToken DEF T, Token, Class
<1>8. CASE D[p].skip
  <2>1. D[q] = [out |-> D[p].out, skip |-> FALSE]
    <3>1. Emit(pattern, levels, q, D[p]) = [out |-> D[p].out, skip |-> FALSE]
      BY <1>8, EmitSkips, Zenon
    <3> QED
      BY <1>2, <3>1
  <2>2. D[q].out = D[p].out /\ ~D[q].skip
    BY <2>1
  <2>3. /\ pattern[p] = "*" /\ pattern[q] = "*" /\ Splits(D[p].out, text, C[q], C)
        /\ EndsLevel(D[p].out) <=> p # 0 /\ pattern[p] = "/"
    BY <1>8 DEF LoopInv
  <2>4. ~InParent(pattern, levels, q)
    BY <1>5, <2>3 DEF IsBelow
  <2>5. ~EndsLevel(D[q].out) /\ pattern[q] # "/"
    BY <2>2, <2>3
  <2> QED
    BY <2>2, <2>3, <2>4, <2>5 DEF LoopInv
<1>9. CASE ~D[p].skip /\ levels /\ IsDoubled(pattern, p)
  <2>1. p + 2 <= n /\ pattern[q] = "*" /\ pattern[q + 1] = "*" /\ pattern[q] # "/"
    BY <1>1, <1>9 DEF IsDoubled
  <2>2. q \in 1..(n - 1)
    BY <1>1, <2>1
  <2>3. ParentIsCovered(pattern, p, D[p].out) <=> InParent(pattern, levels, p)
    <3>1. p # 0 /\ pattern[p] = "/" /\ p + 2 = n => IsBelow(pattern, p - 1)
      <4>1. (p - 1) + 3 = p + 2 /\ (p - 1) + 1 = p /\ (p - 1) + 2 = p + 1
        BY <1>1
      <4> QED
        BY <1>9, <4>1 DEF IsBelow, IsDoubled
    <3> QED
      BY <1>6, <1>9, <3>1 DEF LoopInv, InParent, ParentIsCovered
  <2>4. SUFFICES D[q].skip /\ ~EndsLevel(D[q].out) /\ Splits(D[q].out, text, C[q + 1], C)
    BY <2>1, <2>2 DEF LoopInv
  <2>5. D[q] = [skip |-> TRUE, out |-> EmittedStars(pattern, p, D[p].out)]
    <3>1. Emit(pattern, levels, q, D[p])
            = [skip |-> TRUE, out |-> EmittedStars(pattern, p, D[p].out)]
      BY <1>1, <1>9, EmitStars, Zenon
    <3> QED
      BY <1>2, <3>1
  <2>6. D[q].skip /\ D[q].out = EmittedStars(pattern, p, D[p].out)
    BY <2>5
  <2>7. levels = TRUE
    BY <1>9
  <2>8. CASE InParent(pattern, levels, p)
    <3>1. PICK start \in Seq(T) : D[p].out = Append(start, "/") /\ Splits(start, text, C[p - 1], C)
      BY <1>9, <2>8 DEF LoopInv, Before, T
    <3>2. "/" \in T
      <4>1. p \in 1..n /\ pattern[p] = "/"
        BY <1>1, <1>6, <2>8
      <4> QED
        BY <4>1, ElementOfSeq DEF T, Token
    <3>3. D[q].out = Append(start, "and-below")
      <4>1. D[q].out = [D[p].out EXCEPT ![Len(D[p].out)] = "and-below"]
        BY <2>3, <2>6, <2>8, Zenon DEF EmittedStars
      <4> QED
        BY <1>7, <3>1, <3>2, <4>1, LastReplaced
    <3>4. p - 1 \in Nat /\ p - 1 \in 0..(n - 1) /\ IsBelow(pattern, p - 1)
      BY <1>1, <2>8 DEF InParent
    <3>5. C[p - 1] = CoveredFrom(pattern, text, m, TRUE, p - 1, C[(p - 1) + 1], C[(p - 1) + 2])
      BY <2>7, <3>4 DEF IsCovered
    <3>6. C[q + 1] = {m}
      BY <1>1, <1>6, <2>8 DEF IsCovered
    <3> DEFINE parent == p - 1
    <3> HIDE DEF parent, q, n
    <3>7. SplitAlike(text, "and-below", C[parent], C[q + 1])
      <4>1. parent \in Nat /\ IsBelow(pattern, parent)
        BY <3>4 DEF parent
      <4>2. C[parent] = CoveredFrom(pattern, text, m, TRUE, parent, C[parent + 1], C[parent + 2])
        BY <3>5 DEF parent
      <4>3. SplitAlike(text, "and-below",
                       CoveredFrom(pattern, text, m, TRUE, parent, C[parent + 1], C[parent + 2]), {m})
        BY <4>1, LevelsBelow, Zenon
      <4> QED
        BY <3>6, <4>2, <4>3
    <3>8. Splits(start, text, C[parent], C)
      BY <3>1 DEF parent
    <3>9. Splits(D[q].out, text, C[q + 1], C)
      BY <1>7, <3>1, <3>3, <3>7, <3>8, SplitsOn
    <3>10. ~EndsLevel(D[q].out)
      BY <1>7, <3>1, <3>3, LastOfAppend
    <3> QED
      BY <2>6, <3>9, <3>10
  <2>9. CASE ~InParent(pattern, levels, p)
    <3>1. D[q].out = Append(D[p].out, "anything")
      BY <2>3, <2>6, <2>9, Zenon DEF EmittedStars
    <3>2. Splits(D[p].out, text, C[p], C)
      BY <1>9, <2>9 DEF LoopInv
    <3>3. C[q + 1] \in SUBSET (0..m) /\ C[p + 2] = C[q + 1]
      <4>1. q + 1 \in 0..n /\ p + 2 = q + 1
        BY <1>1, <2>1
      <4> QED
        BY <4>1 DEF IsCovered
    <3> HIDE DEF q, n
    <3>4. SplitAlike(text, "anything", C[p], C[q + 1])
      <4>1. C[p] = CoveredFrom(pattern, text, m, TRUE, p, C[q], C[q + 1]) /\ IsDoubled(pattern, p)
        BY <1>3, <1>9, <2>7, <3>3
      <4> DEFINE now == CoveredFrom(pattern, text, m, TRUE, p, C[q], C[q + 1])
      <4>2. \A i \in 0..Len(text) : i \in now <=> \E j \in Ends("anything", text, i) : j \in C[q + 1]
        BY <1>1, <3>3, <4>1, TwoStars, Zenon
      <4> HIDE DEF now
      <4>3. C[p] = now
        BY <4>1 DEF now
      <4> QED
        BY <4>2, <4>3 DEF SplitAlike
    <3>5. Splits(D[q].out, text, C[q + 1], C)
      BY <1>2, <1>7, <3>1, <3>2, <3>4, SplitsOn
    <3>6. ~EndsLevel(D[q].out)
      BY <1>2, <1>7, <3>1, LastOfAppend
    <3> QED
      BY <2>6, <3>5, <3>6
  <2> QED
    BY <2>8, <2>9
<1>10. CASE ~D[p].skip /\ ~(levels /\ IsDoubled(pattern, p))
  <2>1. ~InParent(pattern, levels, p) /\ Splits(D[p].out, text, C[p], C)
    BY <1>6, <1>10 DEF LoopInv
  <2>2. D[q] = [skip |-> FALSE, out |-> Append(D[p].out, Fragment(pattern[q], levels))]
    <3>1. Emit(pattern, levels, q, D[p])
            = [skip |-> FALSE, out |-> Append(D[p].out, Fragment(pattern[q], levels))]
      BY <1>1, <1>10, EmitOne, Zenon
    <3> QED
      BY <1>2, <3>1
  <2>3. D[q].out = Append(D[p].out, Fragment(pattern[q], levels)) /\ ~D[q].skip
    BY <2>2
  <2>4. EndsLevel(D[q].out) <=> pattern[q] = "/"
    <3>1. Fragment(pattern[q], levels) = "/" <=> pattern[q] = "/"
      BY FragmentOfSeparator
    <3> HIDE DEF q, n
    <3> QED
      BY <1>2, <1>7, <2>3, <3>1, LastOfAppend
  <2>5. CASE InParent(pattern, levels, q)
    <3>1. pattern[q] = "/" /\ Fragment(pattern[q], levels) = "/"
      BY <1>5, <2>5, FragmentOfSeparator DEF IsBelow
    <3>2. Before(Token(Char), D[q].out, text, C[q - 1], C)
      BY <1>1, <1>2, <2>1, <2>3, <3>1 DEF Before, T
    <3> QED
      BY <1>1, <2>3, <2>4, <2>5, <3>2 DEF LoopInv
  <2>6. CASE ~InParent(pattern, levels, q)
    <3>1. ~(levels /\ IsBelow(pattern, p)) /\ ~(levels /\ IsDoubled(pattern, p))
      BY <1>5, <1>10, <2>6
    <3>2. SplitAlike(text, Fragment(pattern[q], levels), C[p], C[q])
      <4> DEFINE now == CoveredFrom(pattern, text, m, levels, p, C[q], C[p + 2])
      <4>1. \A i \in 0..Len(text) :
              i \in now <=> \E j \in Ends(Fragment(pattern[q], levels), text, i) : j \in C[q]
        BY <1>4, <3>1, OneCharacter, Zenon
      <4> HIDE DEF now
      <4>2. C[p] = now
        BY <1>3 DEF now
      <4> QED
        BY <4>1, <4>2 DEF SplitAlike
    <3>3. Splits(D[q].out, text, C[q], C)
      <4> HIDE DEF q, n
      <4> QED
        BY <1>2, <1>7, <2>1, <2>3, <3>2, SplitsOn
    <3> QED
      BY <1>1, <2>3, <2>4, <2>6, <3>3 DEF LoopInv
  <2> QED
    BY <2>5, <2>6
<1> QED
  BY <1>2, <1>8, <1>9, <1>10

-----------------------------------------------------------------------------
(* The result *)

LEMMA CompiledCovers ==
  ASSUME NEW Char, Char \cap Class = {}, NEW pattern \in Seq(Char), NEW text, Len(text) \in Nat,
         NEW m \in 0..Len(text), NEW levels \in BOOLEAN
  PROVE  m \in Reached(Compile(pattern, levels), text) <=> CoversUpTo(pattern, text, m, levels)
<1> DEFINE n == Len(pattern)
<1>1. n \in Nat /\ m \in Nat
  BY LenProperties
<1>2. PICK D : IsCompiled(D, Char, pattern, levels) /\ Compile(pattern, levels) = D[n].out
  BY CompiledIs
<1>3. PICK C : IsCovered(C, pattern, text, m, levels) /\ (CoversUpTo(pattern, text, m, levels) <=> 0 \in C[0])
  BY <1>1, CoveredIs
<1> DEFINE T == {p \in 0..n : LoopInv(Char, pattern, text, levels, D, C, p)}
<1>4. 0 \in T
  <2>1. D[0] = [out |-> <<>>, skip |-> FALSE]
    BY <1>2 DEF IsCompiled
  <2>2. D[0].out = <<>> /\ ~D[0].skip
    BY <2>1
  <2>3. ~EndsLevel(D[0].out) /\ ~InParent(pattern, levels, 0)
    BY <2>2 DEF EndsLevel, InParent
  <2>4. Splits(D[0].out, text, C[0], C)
    BY <2>2, ReachedNone DEF Splits, Meet
  <2>5. LoopInv(Char, pattern, text, levels, D, C, 0)
    BY <2>2, <2>3, <2>4 DEF LoopInv
  <2> QED
    BY <1>1, <2>5
<1>5. ASSUME NEW p \in 0..(n - 1), p \in T PROVE p + 1 \in T
  <2>1. p + 1 \in 0..n /\ LoopInv(Char, pattern, text, levels, D, C, p)
    BY <1>1, <1>5
  <2>2. LoopInv(Char, pattern, text, levels, D, C, p + 1)
    BY <1>2, <1>3, <2>1, LoopStep
  <2> QED
    BY <2>1, <2>2
<1>6. LoopInv(Char, pattern, text, levels, D, C, n)
  <2> HIDE DEF T, n
  <2>1. \A p \in 0..n : p \in T
    BY <1>1, <1>4, <1>5, UpTo
  <2>2. n \in T
    BY <1>1, <2>1
  <2> QED
    BY <2>2 DEF T
<1>7. ~D[n].skip
  BY <1>1, <1>6 DEF LoopInv
<1>8. ~InParent(pattern, levels, n)
  BY <1>1 DEF InParent, IsBelow
<1>9. Splits(D[n].out, text, C[n], C)
  BY <1>6, <1>7, <1>8 DEF LoopInv
<1>10. C[n] = {m}
  BY <1>3 DEF IsCovered
<1> HIDE DEF n
<1>11. m \in Reached(D[n].out, text) <=> 0 \in C[0]
  BY <1>9, <1>10 DEF Splits, Meet
<1> QED
  BY <1>2, <1>3, <1>11

(***************************************************************************)
(* The regex that _compile() makes of a glob matches a text exactly if the *)
(* documentation says that the glob covers it, whatever the pattern and    *)
(* the text: reading two stars as one, the separator taken back for a trailing   *)
(* "/**" and the skipped second star never change what a policy means.  No *)
(* character goes by the name of a class of characters.                    *)
(***************************************************************************)
THEOREM GlobsAreAsDocumented ==
  ASSUME NEW Char, Char \cap Class = {}, NEW pattern \in Seq(Char), NEW text, Len(text) \in Nat
  PROVE  /\ MatchPath(pattern, text) <=> Matches(pattern, text, TRUE)
         /\ MatchTool(pattern, text) <=> Matches(pattern, text, FALSE)
<1>1. ASSUME NEW levels \in BOOLEAN
      PROVE  IsMatch(Compile(pattern, levels), text) <=> Matches(pattern, text, levels)
  <2>1. ASSUME NEW m \in 0..Len(text)
        PROVE  m \in Reached(Compile(pattern, levels), text) <=> CoversUpTo(pattern, text, m, levels)
    BY CompiledCovers
  <2>2. Len(text) \in 0..Len(text) /\ (Len(text) > 0 => Len(text) - 1 \in 0..Len(text))
    OBVIOUS
  <2>3. Len(text) \in Reached(Compile(pattern, levels), text) <=> Covers(pattern, text, levels)
    BY <2>1, <2>2 DEF Covers
  <2>4. Len(text) > 0 =>
          (Len(text) - 1 \in Reached(Compile(pattern, levels), text)
             <=> CoversUpTo(pattern, text, Len(text) - 1, levels))
    BY <2>1, <2>2
  <2> QED
    BY <2>3, <2>4, Zenon DEF IsMatch, Matches
<1> QED
  BY <1>1 DEF MatchPath, MatchTool
=============================================================================

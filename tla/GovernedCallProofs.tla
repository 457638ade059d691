-------------------------- MODULE GovernedCallProofs --------------------------
(***************************************************************************)
(* Proofs about GovernedCall: the audit log keeps what the documentation   *)
(* says it keeps.                                                          *)
(***************************************************************************)
EXTENDS GovernedCall, PolicyEngineProofs

-----------------------------------------------------------------------------
(* Recursion from the end *)

\* Each value depends on later ones only.
LooksAhead(F, n, V) ==
  /\ F \in [0..n -> [[0..n -> V] -> V]]
  /\ \A p \in 0..n : \A g, h \in [0..n -> V] :
       (\A q \in (p + 1)..n : g[q] = h[q]) => F[p][g] = F[p][h]

Solves(f, F, n, V) == f \in [0..n -> V] /\ \A p \in 0..n : f[p] = F[p][f]

\* What looks ahead only has a solution.
LEMMA LaterFirst ==
  ASSUME NEW n \in Nat, NEW V, NEW v \in V, NEW F, LooksAhead(F, n, V)
  PROVE  \E f : Solves(f, F, n, V)
<1>0. F \in [0..n -> [[0..n -> V] -> V]]
  BY DEF LooksAhead
<1> DEFINE W == [0..n -> V]
           Next1(k, g) == IF k \in 1..(n + 1) THEN [g EXCEPT ![n + 1 - k] = F[n + 1 - k][g]] ELSE g
           G == [k \in Nat |-> [g \in W |-> Next1(k, g)]]
           a == [p \in 0..n |-> v]
<1>1. ASSUME NEW k \in Nat, NEW g \in W PROVE Next1(k, g) \in W
  <2>1. CASE k \in 1..(n + 1)
    <3>1. n + 1 - k \in 0..n
      BY <2>1
    <3>2. F[n + 1 - k][g] \in V
      BY <1>0, <3>1
    <3> QED
      BY <2>1, <3>1, <3>2
  <2> QED
    BY <2>1
<1>2. G \in [Nat -> [W -> W]] /\ a \in W
  <2> HIDE DEF W, Next1
  <2>1. G \in [Nat -> [W -> W]]
    BY <1>1
  <2>2. a \in W
    BY DEF W
  <2> QED
    BY <2>1, <2>2
<1>3. PICK h \in [0..(n + 1) -> W] : Repetition(h, n + 1, a, G)
  <2> HIDE DEF G, W, a
  <2>1. n + 1 \in Nat
    OBVIOUS
  <2> QED
    BY <1>2, <2>1, Repeats
<1>4. ASSUME NEW k \in 1..(n + 1)
      PROVE  h[k] = [h[k - 1] EXCEPT ![n + 1 - k] = F[n + 1 - k][h[k - 1]]]
  <2>1. k \in Nat /\ h[k - 1] \in W
    <3> HIDE DEF W
    <3> QED
      OBVIOUS
  <2>2. G[k][h[k - 1]] = Next1(k, h[k - 1])
    <3> HIDE DEF W, Next1
    <3> QED
      BY <2>1
  <2>3. h[k] = G[k][h[k - 1]]
    <3> HIDE DEF G, W
    <3> QED
      BY <1>3 DEF Repetition
  <2> QED
    BY <2>2, <2>3
<1> DEFINE Solved(k) == \A p \in (n + 1 - k)..n : h[k][p] = F[p][h[k]]
           T == {k \in 0..(n + 1) : Solved(k)}
<1>5. 0 \in T
  <2>1. (n + 1 - 0)..n = {}
    OBVIOUS
  <2> QED
    BY <2>1
<1>6. ASSUME NEW k \in 0..n, k \in T PROVE k + 1 \in T
  <2> DEFINE g == h[k]
             c == h[k + 1]
             at == n - k
  <2>1. k + 1 \in 1..(n + 1) /\ (k + 1) - 1 = k /\ n + 1 - (k + 1) = at /\ at \in 0..n
    OBVIOUS
  <2>2. c = [g EXCEPT ![at] = F[at][g]]
    <3> HIDE DEF W, G
    <3>1. h[k + 1] = [h[(k + 1) - 1] EXCEPT ![n + 1 - (k + 1)] = F[n + 1 - (k + 1)][h[(k + 1) - 1]]]
      BY <1>4, <2>1
    <3> QED
      BY <2>1, <3>1
  <2>3. g \in W /\ c \in W
    <3> HIDE DEF W
    <3> QED
      BY <2>1
  <2>4. \A p \in (at + 1)..n : g[p] = F[p][g]
    <3>1. n + 1 - k = at + 1
      OBVIOUS
    <3> QED
      BY <1>6, <3>1
  <2> HIDE DEF g, c, at
  <2>5. \A q \in (at + 1)..n : g[q] = c[q]
    BY <2>1, <2>2, <2>3
  <2>6. c[at] = F[at][g]
    BY <2>1, <2>2, <2>3
  <2>7. ASSUME NEW p \in at..n PROVE c[p] = F[p][c]
    <3>1. p \in 0..n /\ \A q \in (p + 1)..n : g[q] = c[q]
      BY <2>1, <2>5
    <3>2. F[p][g] = F[p][c]
      BY <2>3, <3>1 DEF LooksAhead
    <3>3. CASE p = at
      BY <2>6, <3>2, <3>3
    <3>4. CASE p # at
      BY <2>1, <2>4, <2>5, <3>2, <3>4
    <3> QED
      BY <3>3, <3>4
  <2>8. \A p \in (n + 1 - (k + 1))..n : h[k + 1][p] = F[p][h[k + 1]]
    BY <2>1, <2>7 DEF c
  <2> QED
    BY <2>1, <2>8
<1>7. n + 1 \in T
  <2> HIDE DEF T
  <2>1. n + 1 \in Nat /\ (n + 1) - 1 = n
    OBVIOUS
  <2>2. \A k \in 0..(n + 1) : k \in T
    BY <1>5, <1>6, <2>1, UpTo
  <2> QED
    BY <2>2
<1>8. h[n + 1] \in W
  <2> HIDE DEF W
  <2> QED
    OBVIOUS
<1>9. (n + 1 - (n + 1))..n = 0..n
  OBVIOUS
<1> QED
  BY <1>7, <1>8, <1>9 DEF Solves

-----------------------------------------------------------------------------
(* The levels of a pattern *)

EndsAt(pattern, p, q) ==
  /\ q \in p..Len(pattern)
  /\ q = Len(pattern) \/ pattern[q + 1] = "."
  /\ \A k \in (p + 1)..q : pattern[k] # "."

LEMMA LevelEnds ==
  ASSUME NEW pattern, Len(pattern) \in Nat, NEW p \in 0..Len(pattern)
  PROVE  EndsAt(pattern, p, LevelEnd(pattern, p))
<1> DEFINE n == Len(pattern)
           Stops == {q \in p..n : q = n \/ pattern[q + 1] = "."}
<1>1. PICK q \in Stops : \A x \in Stops : q <= x
  <2>1. Stops \subseteq Nat /\ n \in Stops
    OBVIOUS
  <2> HIDE DEF Stops
  <2> QED
    BY <2>1, LeastElement
<1>2. ASSUME NEW k \in (p + 1)..q PROVE pattern[k] # "."
  <2>1. k - 1 \in p..n /\ ~(q <= k - 1)
    BY <1>1
  <2>2. k - 1 \notin Stops
    BY <1>1, <2>1
  <2>3. (k - 1) + 1 = k
    OBVIOUS
  <2> QED
    BY <2>1, <2>2, <2>3
<1>3. \E x \in p..n : /\ x = n \/ pattern[x + 1] = "."
                      /\ \A k \in (p + 1)..x : pattern[k] # "."
  BY <1>1, <1>2
<1> QED
  BY <1>3 DEF LevelEnd, EndsAt

\* from[p] of CoversPath().
IsFrom(f, pattern, path) ==
  /\ f \in [0..Len(pattern) -> SUBSET (0..Len(path))]
  /\ \A p \in 0..Len(pattern) : f[p] = CoveredKeys(pattern, path, p, f)

LEMMA CoversPathIs ==
  ASSUME NEW pattern, Len(pattern) \in Nat, NEW path, Len(path) \in Nat
  PROVE  \E f : IsFrom(f, pattern, path) /\ (CoversPath(pattern, path) <=> 0 \in f[0])
<1> DEFINE n == Len(pattern)
           V == SUBSET (0..Len(path))
           W == [0..n -> V]
           F == [p \in 0..n |-> [g \in W |-> CoveredKeys(pattern, path, p, g)]]
           Body(f) == [p \in 0..n |-> CoveredKeys(pattern, path, p, f)]
           from == CHOOSE f : f = Body(f)
<1>1. \A p, g : CoveredKeys(pattern, path, p, g) \in V
  BY Zenon DEF CoveredKeys
<1>2. ASSUME NEW p \in 0..n, NEW g \in W, NEW h \in W, \A q \in (p + 1)..n : g[q] = h[q]
      PROVE  CoveredKeys(pattern, path, p, g) = CoveredKeys(pattern, path, p, h)
  <2> DEFINE end == LevelEnd(pattern, p)
  <2>1. end \in p..n
    BY LevelEnds DEF EndsAt
  <2>2. CASE end = n
    BY <2>2, Zenon DEF CoveredKeys
  <2>3. CASE end # n
    <3>1. end + 1 \in (p + 1)..n
      <4> HIDE DEF end
      <4> QED
        BY <2>1, <2>3
    <3>2. g[end + 1] = h[end + 1]
      BY <1>2, <3>1
    <3> QED
      BY <3>2, Zenon DEF CoveredKeys
  <2> QED
    BY <2>2, <2>3
<1>3. \E f \in W : \A p \in 0..n : f[p] = CoveredKeys(pattern, path, p, f)
  <2>1. F \in [0..n -> [W -> V]]
    BY <1>1
  <2>2. \A p \in 0..n : \A g \in W : F[p][g] = CoveredKeys(pattern, path, p, g)
    OBVIOUS
  <2>3. {} \in V /\ n \in Nat
    OBVIOUS
  <2>4. LooksAhead(F, n, V)
    <3>1. \A p \in 0..n : \A g, h \in W : (\A q \in (p + 1)..n : g[q] = h[q]) => F[p][g] = F[p][h]
      <4> HIDE DEF F, W
      <4> QED
        BY <1>2, <2>2
    <3> HIDE DEF F, V
    <3> QED
      BY <2>1, <3>1 DEF LooksAhead
  <2> HIDE DEF F, V
  <2>5. \E f \in W : \A p \in 0..n : f[p] = F[p][f]
    <3> HIDE DEF n
    <3>1. \E f : Solves(f, F, n, V)
      BY <2>3, <2>4, LaterFirst
    <3> QED
      BY <3>1 DEF Solves
  <2> HIDE DEF W
  <2> QED
    BY <2>2, <2>5
<1>4. PICK f \in W : \A p \in 0..n : f[p] = CoveredKeys(pattern, path, p, f)
  BY <1>3
<1>5. f = Body(f)
  BY <1>4
<1>6. from = Body(from)
  <2> HIDE DEF Body
  <2> QED
    BY <1>5
<1>7. \A g : /\ Body(g) \in W
             /\ \A p \in 0..n : Body(g)[p] = CoveredKeys(pattern, path, p, g)
  BY <1>1
<1>8. IsFrom(from, pattern, path)
  <2> HIDE DEF from, Body
  <2>1. from \in W /\ \A p \in 0..n : from[p] = CoveredKeys(pattern, path, p, from)
    BY <1>6, <1>7
  <2> QED
    BY <2>1 DEF IsFrom
<1>9. CoversPath(pattern, path) <=> 0 \in from[0]
  BY DEF CoversPath
<1> QED
  BY <1>8, <1>9

-----------------------------------------------------------------------------
(* A level of a pattern and a key of a path *)

\* The part of a text from behind a up to b.
IsPart(part, text, a, b) == Len(part) = b - a /\ \A k \in 1..(b - a) : part[k] = text[a + k]

\* A key that is a part of the text between two separators.
IsKey(key, text, m, a, b) ==
  /\ m \in Nat /\ a \in 0..m /\ b \in a..m
  /\ IsPart(key, text, a, b)
  /\ \A k \in (a + 1)..b : text[k] # "/"
  /\ b = m \/ text[b + 1] = "/"

\* Places in the text are covered as those in the key are, if what is behind the
\* key is covered.
Alike(now, here, a, b, S) == \A x \in a..b : x \in now <=> x - a \in here /\ b \in S

CoversAlike(char, text, m, next, key, after, a, b, S) ==
  \A x \in a..b : CoversCharacter(char, text, m, TRUE, next, x)
                  <=> CoversCharacter(char, key, b - a, FALSE, after, x - a) /\ b \in S

LEMMA CharacterInKey ==
  ASSUME NEW key, NEW text, NEW m, NEW a, NEW b, IsKey(key, text, m, a, b),
         NEW char, char # "/", NEW next \in SUBSET (0..m), NEW after \in SUBSET (0..(b - a)),
         NEW S, Alike(next, after, a, b, S)
  PROVE  CoversAlike(char, text, m, next, key, after, a, b, S)
<1> SUFFICES ASSUME NEW x \in a..b
             PROVE  CoversCharacter(char, text, m, TRUE, next, x)
                      <=> CoversCharacter(char, key, b - a, FALSE, after, x - a) /\ b \in S
  BY DEF CoversAlike
<1>1. /\ m \in Nat /\ a \in 0..m /\ b \in a..m /\ x \in 0..m /\ x - a \in 0..(b - a)
      /\ b = m \/ text[b + 1] = "/"
      /\ \A k \in (a + 1)..b : text[k] # "/"
      /\ \A k \in 1..(b - a) : key[k] = text[a + k]
  BY DEF IsKey, IsPart
<1>2. \A y \in a..b : y \in next <=> y - a \in after /\ b \in S
  BY DEF Alike
<1>3. CASE char = "*"
  <2>1. CoversCharacter(char, text, m, TRUE, next, x)
          <=> \E j \in next : x <= j /\ \A k \in (x + 1)..j : text[k] # "/"
    BY <1>1, <1>3 DEF CoversCharacter
  <2>2. CoversCharacter(char, key, b - a, FALSE, after, x - a) <=> \E j \in after : x - a <= j
    BY <1>1, <1>3 DEF CoversCharacter
  <2>3. ASSUME NEW j \in next, x <= j, \A k \in (x + 1)..j : text[k] # "/"
        PROVE  j - a \in after /\ b \in S /\ x - a <= j - a
    <3>1. j <= b
      <4> SUFFICES ASSUME ~(j <= b) PROVE FALSE
        OBVIOUS
      <4>1. b + 1 \in (x + 1)..j /\ b # m
        BY <1>1
      <4> QED
        BY <1>1, <2>3, <4>1
    <3> QED
      BY <1>1, <1>2, <2>3, <3>1
  <2>4. ASSUME NEW j \in after, x - a <= j, b \in S
        PROVE  j + a \in next /\ x <= j + a /\ \A k \in (x + 1)..(j + a) : text[k] # "/"
    <3>1. j + a \in a..b /\ (j + a) - a = j
      BY <1>1
    <3> QED
      BY <1>1, <1>2, <2>4, <3>1
  <2>5. (\E j \in next : x <= j /\ \A k \in (x + 1)..j : text[k] # "/")
          => (\E j \in after : x - a <= j) /\ b \in S
    BY <2>3
  <2>6. (\E j \in after : x - a <= j) /\ b \in S
          => \E j \in next : x <= j /\ \A k \in (x + 1)..j : text[k] # "/"
    BY <2>4
  <2> QED
    BY <2>1, <2>2, <2>5, <2>6
<1>4. ASSUME x + 1 \in next, text[x + 1] # "/"
      PROVE  x + 1 \in a..b
  <2>1. x + 1 \in 0..m
    BY <1>4
  <2>2. x # b
    BY <1>1, <1>4, <2>1
  <2> QED
    BY <1>1, <2>2
<1>5. x + 1 \in a..b => (x + 1 \in next <=> (x - a) + 1 \in after /\ b \in S) /\ text[x + 1] # "/"
  <2>1. (x + 1) - a = (x - a) + 1
    BY <1>1
  <2> QED
    BY <1>1, <1>2, <2>1
<1>6. (x - a) + 1 \in after => x + 1 \in a..b
  BY <1>1
<1>7. CASE char = "?"
  <2>1. CoversCharacter(char, text, m, TRUE, next, x) <=> x + 1 \in next /\ text[x + 1] # "/"
    BY <1>1, <1>7 DEF CoversCharacter
  <2>2. CoversCharacter(char, key, b - a, FALSE, after, x - a) <=> (x - a) + 1 \in after
    BY <1>1, <1>7 DEF CoversCharacter
  <2> QED
    BY <1>4, <1>5, <1>6, <2>1, <2>2
<1>8. CASE char \notin {"*", "?"}
  <2>1. CoversCharacter(char, text, m, TRUE, next, x) <=> x + 1 \in next /\ text[x + 1] = char
    BY <1>1, <1>8 DEF CoversCharacter
  <2>2. CoversCharacter(char, key, b - a, FALSE, after, x - a)
          <=> (x - a) + 1 \in after /\ key[(x - a) + 1] = char
    BY <1>1, <1>8 DEF CoversCharacter
  <2>3. x + 1 \in a..b => key[(x - a) + 1] = text[x + 1]
    <3>1. x + 1 \in a..b => (x - a) + 1 \in 1..(b - a) /\ a + ((x - a) + 1) = x + 1
      BY <1>1
    <3> QED
      BY <1>1, <3>1
  <2> QED
    BY <1>4, <1>5, <1>6, <2>1, <2>2, <2>3
<1> QED
  BY <1>3, <1>7, <1>8

\* What a character stands for at p, where neither "**" nor "/**" is.
ByCharacter(f, pattern, text, m, levels, p) ==
  \A i : i \in f[p] <=> CoversCharacter(pattern[p + 1], text, m, levels, f[p + 1], i)

LEMMA CharacterAt ==
  ASSUME NEW pattern, Len(pattern) \in Nat, NEW text, NEW m \in Nat, NEW levels \in BOOLEAN,
         NEW f, IsCovered(f, pattern, text, m, levels), NEW p \in 0..(Len(pattern) - 1),
         ~(levels /\ IsBelow(pattern, p)), ~(levels /\ IsDoubled(pattern, p))
  PROVE  ByCharacter(f, pattern, text, m, levels, p)
<1>1. p \in Nat /\ p + 1 \in 0..Len(pattern)
  OBVIOUS
<1>2. /\ f[p + 1] \in SUBSET (0..m)
      /\ f[p] = CoveredFrom(pattern, text, m, levels, p, f[p + 1], f[p + 2])
  BY <1>1 DEF IsCovered
<1> QED
  BY <1>1, <1>2, CoveredByCharacter DEF ByCharacter

\* A level of a translated pattern that is not "**".
IsLevel(level, P, p, q) ==
  /\ p \in Nat /\ Len(P) \in Nat /\ q \in p..Len(P)
  /\ IsPart(level, P, p, q)
  /\ \A k \in (p + 1)..q : P[k] # "/"
  /\ \A k \in (p + 1)..(q - 1) : ~(P[k] = "*" /\ P[k + 1] = "*")
  /\ q = Len(P) \/ P[q + 1] = "/"

\* It covers a key in the text as it covers the key alone.
LEMMA WithinLevel ==
  ASSUME NEW level, NEW P, NEW p, NEW q, IsLevel(level, P, p, q),
         NEW key, NEW text, NEW m, NEW a, NEW b, IsKey(key, text, m, a, b),
         NEW C, IsCovered(C, P, text, m, TRUE), NEW D, IsCovered(D, level, key, b - a, FALSE),
         Alike(C[q], {b - a}, a, b, C[q])
  PROVE  a \in C[p] <=> 0 \in D[0] /\ b \in C[q]
<1> DEFINE S == C[q]
           Inv(k) == Alike(C[q - k], D[q - p - k], a, b, S)
           T == {k \in 0..(q - p) : Inv(k)}
<1>1. /\ p \in Nat /\ q \in Nat /\ p <= q /\ Len(P) \in Nat /\ q <= Len(P) /\ Len(level) = q - p
      /\ m \in Nat /\ a \in 0..m /\ b \in a..m
  BY DEF IsLevel, IsKey, IsPart
<1>2. /\ C \in [0..Len(P) -> SUBSET (0..m)]
      /\ D \in [0..(q - p) -> SUBSET (0..(b - a))]
      /\ D[q - p] = {b - a}
  BY <1>1 DEF IsCovered
<1>3. 0 \in T
  <2>1. q - 0 = q /\ q - p - 0 = q - p /\ 0 \in 0..(q - p)
    BY <1>1
  <2>2. C[q - 0] = C[q] /\ D[q - p - 0] = {b - a}
    BY <1>2, <2>1
  <2>3. Inv(0)
    BY <2>2, Zenon
  <2> HIDE DEF Inv
  <2> QED
    BY <2>1, <2>3
<1>4. ASSUME NEW k \in 0..((q - p) - 1), k \in T PROVE k + 1 \in T
  <2> DEFINE x == q - (k + 1)
             y == x - p
             char == P[x + 1]
  <2>1. /\ x \in p..(q - 1) /\ x \in 0..(Len(P) - 1) /\ x \in Nat /\ x + 1 = q - k
        /\ y \in 0..((q - p) - 1) /\ y \in Nat /\ y + 1 = q - p - k /\ y = q - p - (k + 1)
        /\ x + 1 \in (p + 1)..q /\ p + (y + 1) = x + 1 /\ y + 1 \in 1..(q - p)
        /\ k + 1 \in 0..(q - p)
    BY <1>1
  <2> HIDE DEF x, y
  <2>2. char # "/" /\ level[y + 1] = char
    BY <2>1 DEF IsLevel, IsPart
  <2>3. ~IsBelow(P, x) /\ ~IsDoubled(P, x)
    <3>1. ~IsBelow(P, x)
      BY <2>2 DEF IsBelow
    <3>2. CASE x + 1 \in (p + 1)..(q - 1)
      <4>1. (x + 1) + 1 = x + 2
        BY <2>1
      <4> QED
        BY <3>1, <3>2, <4>1 DEF IsLevel, IsDoubled
    <3>3. CASE x + 1 = q
      <4>1. x + 2 = q + 1 /\ (x + 2 <= Len(P) => P[q + 1] = "/")
        BY <1>1, <2>1, <3>3 DEF IsLevel
      <4> QED
        BY <3>1, <4>1 DEF IsDoubled
    <3> QED
      BY <1>1, <2>1, <3>2, <3>3
  <2>4. C[x + 1] \in SUBSET (0..m) /\ D[y + 1] \in SUBSET (0..(b - a))
    BY <1>1, <1>2, <2>1
  <2>5. ByCharacter(C, P, text, m, TRUE, x)
    BY <1>1, <2>1, <2>3, CharacterAt
  <2>6. ByCharacter(D, level, key, b - a, FALSE, y)
    <3>1. b - a \in Nat /\ y \in 0..(Len(level) - 1) /\ Len(level) \in Nat
      BY <1>1, <2>1
    <3> QED
      BY <3>1, CharacterAt
  <2>7. Alike(C[x + 1], D[y + 1], a, b, S)
    BY <1>4, <2>1
  <2> HIDE DEF char, S
  <2>8. CoversAlike(char, text, m, C[x + 1], key, D[y + 1], a, b, S)
    BY <2>2, <2>4, <2>7, CharacterInKey
  <2>9. Alike(C[x], D[y], a, b, S)
    BY <2>2, <2>5, <2>6, <2>8 DEF Alike, ByCharacter, CoversAlike, char
  <2> QED
    BY <2>1, <2>9 DEF x
<1>5. Inv(q - p)
  <2>1. q - p \in Nat
    BY <1>1
  <2> HIDE DEF T
  <2>2. \A k \in 0..(q - p) : k \in T
    BY <1>3, <1>4, <2>1, UpTo
  <2>3. q - p \in T
    BY <2>1, <2>2
  <2> QED
    BY <2>3 DEF T
<1>6. q - (q - p) = p /\ q - p - (q - p) = 0 /\ a \in a..b /\ a - a = 0
  BY <1>1
<1> QED
  BY <1>5, <1>6 DEF Alike

-----------------------------------------------------------------------------
(* A pattern and a path as one text *)

\* The text is the keys of the path with separators between them; key i + 1 is
\* what is behind the first s[i] characters.
Joins(text, s, path) ==
  /\ text \in Text /\ path \in Seq(Text)
  /\ s \in [0..Len(path) -> Nat] /\ s[0] = 0
  /\ IF path = <<>> THEN text = <<>> ELSE s[Len(path)] = Len(text) + 1
  /\ \A i, j \in 0..Len(path) : i < j => s[i] < s[j]
  /\ \A i \in 1..Len(path) : IsPart(path[i], text, s[i - 1], s[i] - 1) /\ PlainKey(path[i])
  /\ \A k \in 1..Len(text) : text[k] = "/" <=> \E i \in 1..(Len(path) - 1) : k = s[i]

\* The text of no keys, and that of one more.
LEMMA NothingJoined == Joins(<<>>, [i \in 0..0 |-> 0], <<>>)
<1>1. Len(<<>>) = 0 /\ <<>> \in Seq(Text) /\ <<>> \in Text
  BY EmptySeq DEF Text
<1> QED
  BY <1>1 DEF Joins

LEMMA KeysMakeText ==
  ASSUME NEW text, NEW s, NEW path, Joins(text, s, path), path # <<>>
  PROVE  text # <<>> /\ Len(text) > 0
<1> DEFINE n == Len(path)
           m == Len(text)
<1>1. m \in Nat /\ n \in Nat /\ n > 0
  BY LenProperties, EmptySeq DEF Joins, Text
<1>2. s \in [0..n -> Nat] /\ s[n] = m + 1 /\ s[0] = 0 /\ \A i, j \in 0..n : i < j => s[i] < s[j]
  BY DEF Joins
<1>3. IsPart(path[1], text, s[0], s[1] - 1) /\ PlainKey(path[1])
  <2>1. 1 \in 1..n /\ 1 - 1 = 0
    BY <1>1
  <2> QED
    BY <2>1 DEF Joins
<1>4. Len(path[1]) \in Nat /\ Len(path[1]) # 0
  BY <1>3, EmptySeq DEF PlainKey, Text
<1> HIDE DEF n, m
<1>5. s[1] \in Nat /\ s[1] >= 2 /\ (n = 1 \/ s[1] < s[n])
  BY <1>1, <1>2, <1>3, <1>4 DEF IsPart
<1>6. m > 0
  BY <1>1, <1>2, <1>5
<1> QED
  BY <1>6, EmptySeq DEF m

LEMMA OneMoreJoined ==
  ASSUME NEW text, NEW s, NEW path, Joins(text, s, path), NEW key, PlainKey(key)
  PROVE  \E r : Joins(Under(text, key), r, Append(path, key))
<1> DEFINE n == Len(path)
           m == Len(text)
           longer == Append(path, key)
           joined == Under(text, key)
           r == [i \in 0..(n + 1) |-> IF i = n + 1 THEN Len(joined) + 1 ELSE s[i]]
<1>1. /\ text \in Text /\ path \in Seq(Text) /\ key \in Text /\ n \in Nat /\ m \in Nat /\ Len(key) \in Nat
      /\ Len(key) > 0
  <2>1. Len(key) # 0
    BY EmptySeq DEF PlainKey, Text
  <2> QED
    BY <2>1 DEF Joins, PlainKey, Text
<1>2. /\ longer \in Seq(Text) /\ Len(longer) = n + 1 /\ longer[n + 1] = key
      /\ \A k \in 1..n : longer[k] = path[k]
  BY <1>1, AppendProperties
<1>3. "/" \in Character
  BY SeparatorAssumption
<1>4. CASE path = <<>>
  <2>1. n = 0 /\ text = <<>> /\ m = 0 /\ joined = key
    BY <1>4, EmptySeq DEF Joins, Under
  <2>2. r \in [0..1 -> Nat] /\ r[0] = 0 /\ r[1] = Len(key) + 1
    BY <1>1, <2>1 DEF Joins
  <2>3. longer # <<>> /\ Len(longer) = 1 /\ longer[1] = key
    <3>1. Len(longer) = 1 /\ longer[1] = key
      BY <1>2, <2>1
    <3> HIDE DEF longer
    <3> QED
      BY <3>1, EmptySeq
  <2>4. IsPart(key, key, 0, Len(key) + 1 - 1)
    BY <1>1 DEF IsPart
  <2> HIDE DEF r, longer, n, m
  <2>5. \A i \in 1..1 : IsPart(longer[i], key, r[i - 1], r[i] - 1) /\ PlainKey(longer[i])
    BY <2>2, <2>3, <2>4
  <2>6. \A i, j \in 0..1 : i < j => r[i] < r[j]
    BY <1>1, <2>2
  <2>7. \A k \in 1..Len(key) : key[k] = "/" <=> \E i \in 1..(1 - 1) : k = r[i]
    BY DEF PlainKey
  <2>8. Joins(key, r, longer)
    BY <1>1, <1>2, <2>2, <2>3, <2>5, <2>6, <2>7 DEF Joins
  <2> QED
    BY <2>1, <2>8 DEF r, longer, n
<1>5. CASE path # <<>>
  <2>1. n > 0 /\ s \in [0..n -> Nat] /\ s[n] = m + 1 /\ s[0] = 0
    BY <1>1, <1>5, EmptySeq DEF Joins
  <2>0. \A i, j \in 0..n : i < j => s[i] < s[j]
    BY DEF Joins
  <2>2. text # <<>> /\ m > 0
    BY <1>5, KeysMakeText
  <2>3. joined = Append(text, "/") \o key
    BY <2>2 DEF Under
  <2>4. /\ joined \in Text /\ Len(joined) = m + 1 + Len(key)
        /\ \A k \in 1..m : joined[k] = text[k]
        /\ joined[m + 1] = "/"
        /\ \A k \in 1..Len(key) : joined[m + 1 + k] = key[k]
    <3>1. /\ Append(text, "/") \in Text /\ Len(Append(text, "/")) = m + 1 /\ Append(text, "/")[m + 1] = "/"
          /\ \A k \in 1..m : Append(text, "/")[k] = text[k]
      BY <1>1, <1>3, AppendProperties DEF Text
    <3> QED
      BY <1>1, <2>3, <3>1, ConcatProperties DEF Text
  <2>5. /\ r \in [0..(n + 1) -> Nat] /\ r[0] = 0 /\ r[n + 1] = m + 1 + Len(key) + 1
        /\ \A i \in 0..n : r[i] = s[i]
    BY <1>1, <2>1, <2>4
  <2> HIDE DEF r, longer, joined, n, m
  <2>6. \A i, j \in 0..(n + 1) : i < j => r[i] < r[j]
    <3>1. \A i, j \in 0..n : i < j => r[i] < r[j]
      BY <2>0, <2>5
    <3>2. \A i \in 0..n : r[i] <= m + 1
      <4> SUFFICES ASSUME NEW i \in 0..n PROVE r[i] <= m + 1
        OBVIOUS
      <4>1. (i = n \/ s[i] < s[n]) /\ r[i] = s[i] /\ s[i] \in Nat /\ s[n] = m + 1
        BY <1>1, <2>0, <2>1, <2>5
      <4> QED
        BY <1>1, <4>1
    <3> QED
      BY <1>1, <2>5, <3>1, <3>2
  <2>7. ASSUME NEW i \in 1..(n + 1)
        PROVE  IsPart(longer[i], joined, r[i - 1], r[i] - 1) /\ PlainKey(longer[i])
    <3>1. CASE i = n + 1
      <4>1. i - 1 = n /\ n \in 0..n /\ r[i - 1] = m + 1 /\ r[i] - 1 = m + 1 + Len(key)
        BY <1>1, <2>1, <2>5, <3>1
      <4> QED
        BY <1>1, <1>2, <2>4, <3>1, <4>1 DEF IsPart
    <3>2. CASE i # n + 1
      <4>1. i \in 1..n /\ i - 1 \in 0..n /\ i \in 0..n
        BY <1>1, <3>2
      <4>2. IsPart(path[i], text, s[i - 1], s[i] - 1) /\ PlainKey(path[i])
        BY <4>1 DEF Joins, n
      <4>3. r[i - 1] = s[i - 1] /\ r[i] = s[i] /\ longer[i] = path[i]
        BY <1>2, <2>5, <4>1
      <4>4. s[i] <= m + 1 /\ s[i - 1] \in Nat /\ s[i] \in Nat
        <5>1. i = n \/ s[i] < s[n]
          BY <1>1, <2>0, <4>1
        <5> QED
          BY <1>1, <2>1, <4>1, <5>1
      <4>5. \A k \in 1..(s[i] - 1 - s[i - 1]) : s[i - 1] + k \in 1..m
        BY <1>1, <4>4
      <4> QED
        BY <2>4, <4>2, <4>3, <4>4, <4>5 DEF IsPart
    <3> QED
      BY <3>1, <3>2
  <2>8. ASSUME NEW k \in 1..Len(joined)
        PROVE  joined[k] = "/" <=> \E i \in 1..((n + 1) - 1) : k = r[i]
    <3>1. \A i \in 1..n : r[i] = s[i] /\ (i # n => s[i] < m + 1)
      BY <1>1, <2>0, <2>1, <2>5
    <3>2. CASE k \in 1..m
      <4>1. text[k] = "/" <=> \E i \in 1..(n - 1) : k = s[i]
        BY <3>2 DEF Joins, n, m
      <4>2. (\E i \in 1..(n - 1) : k = s[i]) <=> \E i \in 1..((n + 1) - 1) : k = r[i]
        <5>1. \A i \in 1..(n - 1) : i \in 1..((n + 1) - 1) /\ r[i] = s[i]
          BY <1>1, <3>1
        <5>2. \A i \in 1..((n + 1) - 1) : k = r[i] => i \in 1..(n - 1)
          BY <1>1, <2>1, <3>1, <3>2
        <5> QED
          BY <5>1, <5>2
      <4> QED
        BY <2>4, <3>2, <4>1, <4>2
    <3>3. CASE k = m + 1
      <4>1. n \in 1..((n + 1) - 1) /\ k = r[n]
        BY <1>1, <2>1, <3>1, <3>3
      <4> QED
        BY <2>4, <3>3, <4>1
    <3>4. CASE k > m + 1
      <4>1. k - (m + 1) \in 1..Len(key) /\ m + 1 + (k - (m + 1)) = k
        BY <1>1, <2>4, <3>4
      <4>2. joined[k] # "/"
        BY <2>4, <4>1 DEF PlainKey
      <4> QED
        BY <1>1, <2>1, <3>1, <3>4, <4>2
    <3> QED
      BY <1>1, <2>4, <3>2, <3>3, <3>4
  <2>9. longer # <<>>
    BY <1>1, <1>2, EmptySeq
  <2>10. Joins(joined, r, longer)
    BY <1>1, <1>2, <2>4, <2>5, <2>6, <2>7, <2>8, <2>9 DEF Joins
  <2> QED
    BY <2>10 DEF joined, longer
<1> QED
  BY <1>4, <1>5

LEMMA TranslatedIs ==
  ASSUME NEW pattern, PlainPattern(pattern)
  PROVE  /\ Len(pattern) \in Nat
         /\ Translated(pattern) \in Text /\ Len(Translated(pattern)) = Len(pattern)
         /\ \A k \in 1..Len(pattern) :
              /\ Translated(pattern)[k] = "/" <=> pattern[k] = "."
              /\ pattern[k] # "." => Translated(pattern)[k] = pattern[k]
<1> DEFINE n == Len(pattern)
           P == Translated(pattern)
<1>1. n \in Nat /\ DOMAIN pattern = 1..n /\ \A k \in 1..n : pattern[k] \in Character /\ pattern[k] # "/"
  BY LenProperties, ElementOfSeq DEF PlainPattern, Text
<1>2. P = [k \in 1..n |-> IF pattern[k] = "." THEN "/" ELSE pattern[k]]
  BY <1>1 DEF Translated
<1>3. P \in [1..n -> Character]
  BY <1>1, <1>2, SeparatorAssumption
<1>4. P \in Seq(Character) /\ Len(P) = n
  <2> HIDE DEF P
  <2>1. P \in Seq(Character)
    BY <1>1, <1>3, SeqDef
  <2> QED
    BY <1>1, <1>3, <2>1, LenProperties
<1>5. ASSUME NEW k \in 1..n
      PROVE  (P[k] = "/" <=> pattern[k] = ".") /\ (pattern[k] # "." => P[k] = pattern[k])
  BY <1>1, <1>2
<1> QED
  BY <1>1, <1>4, <1>5 DEF Text

LEMMA KeyAt ==
  ASSUME NEW text, NEW s, NEW path, Joins(text, s, path), NEW i \in 0..(Len(path) - 1)
  PROVE  IsKey(path[i + 1], text, Len(text), s[i], s[i + 1] - 1)
<1> DEFINE n == Len(path)
           m == Len(text)
           a == s[i]
           b == s[i + 1] - 1
<1>1. /\ n \in Nat /\ m \in Nat /\ n > 0
      /\ i \in 0..n /\ i + 1 \in 1..n /\ i + 1 \in 0..n /\ (i + 1) - 1 = i /\ n \in 0..n
  <2>1. n \in Nat /\ m \in Nat
    BY LenProperties DEF Joins, Text
  <2> QED
    BY <2>1
<1>2. /\ s \in [0..n -> Nat] /\ s[n] = m + 1 /\ \A x, y \in 0..n : x < y => s[x] < s[y]
      /\ IsPart(path[i + 1], text, a, b) /\ PlainKey(path[i + 1])
      /\ \A k \in 1..m : text[k] = "/" <=> \E x \in 1..(n - 1) : k = s[x]
  <2>1. path # <<>>
    BY <1>1, EmptySeq
  <2> QED
    BY <1>1, <2>1 DEF Joins
<1> HIDE DEF n, m
<1>3. a \in Nat /\ s[i + 1] \in Nat /\ a < s[i + 1] /\ (i + 1 = n \/ s[i + 1] < m + 1)
  BY <1>1, <1>2
<1>4. m \in Nat /\ a \in 0..m /\ b \in a..m
  BY <1>1, <1>2, <1>3
<1>5. ASSUME NEW k \in (a + 1)..b PROVE text[k] # "/"
  <2>1. k - a \in 1..(b - a) /\ a + (k - a) = k
    BY <1>4
  <2>2. path[i + 1][k - a] # "/"
    BY <1>2, <2>1 DEF PlainKey, IsPart
  <2> QED
    BY <1>2, <2>1, <2>2 DEF IsPart
<1>6. b = m \/ text[b + 1] = "/"
  <2>1. CASE i + 1 = n
    BY <1>1, <1>2, <2>1
  <2>2. CASE i + 1 # n
    <3>1. s[i + 1] \in 1..m /\ i + 1 \in 1..(n - 1) /\ b + 1 = s[i + 1]
      BY <1>1, <1>3, <2>2
    <3> QED
      BY <1>2, <3>1
  <2> QED
    BY <2>1, <2>2
<1> QED
  BY <1>2, <1>4, <1>5, <1>6 DEF IsKey, m

\* A pattern, a path and its text, with the places that the pattern without its
\* first p characters covers the rest from: among the keys, and in the text.
IsSetting(pattern, path, from, text, s, C) ==
  /\ PlainPattern(pattern) /\ path # <<>> /\ Joins(text, s, path)
  /\ IsFrom(from, pattern, path)
  /\ IsCovered(C, Translated(pattern), text, Len(text), TRUE)

\* The pattern covers the same keys.
StartsAlike(C, s, path, from, p) == \A i \in 0..(Len(path) - 1) : s[i] \in C[p] <=> i \in from[p]

\* The places are those behind the keys before one of next.
Leaves(places, s, path, next) ==
  \A x : x \in places <=> \E y \in 1..Len(path) : y \in next /\ x = s[y] - 1

NextKeys(pattern, path, q, from) == IF q = Len(pattern) THEN {Len(path)} ELSE from[q + 1]

\* The last level, "**", is all that is left.
IsLast(pattern, p) == p + 2 = Len(pattern) /\ pattern[p + 1] = "*" /\ pattern[p + 2] = "*"

LEMMA LevelIs ==
  ASSUME NEW pattern, pattern \in Text, NEW p \in 0..Len(pattern), NEW q \in p..Len(pattern)
  PROVE  LET level == SubSeq(pattern, p + 1, q)
         IN /\ IsPart(level, pattern, p, q) /\ Len(level) \in Nat
            /\ level = <<"*", "*">> <=> q = p + 2 /\ pattern[p + 1] = "*" /\ pattern[p + 2] = "*"
<1> DEFINE level == SubSeq(pattern, p + 1, q)
<1>1. /\ Len(pattern) \in Nat /\ p \in Nat /\ q \in Nat /\ p <= q
      /\ \A k \in (p + 1)..q : pattern[k] \in Character
  BY LenProperties, ElementOfSeq DEF Text
<1>2. /\ level \in Seq(Character)
      /\ Len(level) = IF p + 1 <= q THEN q - (p + 1) + 1 ELSE 0
      /\ \A k \in 1..(q - (p + 1) + 1) : level[k] = pattern[(p + 1) + k - 1]
  BY <1>1, SubSeqProperties
<1>3. Len(level) = q - p /\ \A k \in 1..(q - p) : level[k] = pattern[p + k]
  <2> HIDE DEF level
  <2> QED
    BY <1>1, <1>2
<1>4. level = <<"*", "*">> => q = p + 2 /\ pattern[p + 1] = "*" /\ pattern[p + 2] = "*"
  <2> HIDE DEF level
  <2> QED
    BY <1>1, <1>3
<1>5. q = p + 2 /\ pattern[p + 1] = "*" /\ pattern[p + 2] = "*" => level = <<"*", "*">>
  <2> SUFFICES ASSUME q = p + 2, pattern[p + 1] = "*", pattern[p + 2] = "*"
               PROVE  level = <<"*", "*">>
    OBVIOUS
  <2>1. Len(level) = 2 /\ level[1] = "*" /\ level[2] = "*"
    BY <1>1, <1>3
  <2> HIDE DEF level
  <2>2. level = [k \in 1..2 |-> level[k]]
    BY <1>2, <2>1, LenProperties
  <2> QED
    BY <2>1, <2>2
<1>6. q - p \in Nat
  BY <1>1
<1> QED
  BY <1>3, <1>4, <1>5, <1>6 DEF IsPart

LEMMA PathIsCovered ==
  ASSUME NEW pattern, NEW path, NEW from, NEW text, NEW s, NEW C,
         IsSetting(pattern, path, from, text, s, C), NEW p \in 1..Len(pattern)
  PROVE  /\ IsLast(pattern, p) => from[p] = 0..Len(path)
         /\ ~IsLast(pattern, p) => Len(path) \notin from[p]
<1> DEFINE n == Len(pattern)
           m == Len(path)
           q == LevelEnd(pattern, p)
           level == SubSeq(pattern, p + 1, q)
           next == NextKeys(pattern, path, q, from)
<1>1. n \in Nat /\ m \in Nat /\ p \in 0..n
  BY TranslatedIs DEF IsSetting, Joins
<1>2. EndsAt(pattern, p, q)
  BY <1>1, LevelEnds
<1>3. q \in p..n /\ next \in SUBSET (0..m)
  BY <1>1, <1>2 DEF EndsAt, NextKeys, IsSetting, IsFrom
<1>4. /\ level = <<"*", "*">> =>
           from[p] = {i \in 0..m : IF q = n THEN i < m \/ p > 0 ELSE \E j \in next : i < j}
      /\ level # <<"*", "*">> => \A i \in from[p] : i + 1 \in next
  <2>1. from[p] = CoveredKeys(pattern, path, p, from)
    BY <1>1 DEF IsSetting, IsFrom
  <2> QED
    BY <2>1, Zenon DEF CoveredKeys, NextKeys
<1>5. level = <<"*", "*">> /\ q = n <=> IsLast(pattern, p)
  <2>1. pattern \in Text
    BY DEF IsSetting, PlainPattern
  <2>2. level = <<"*", "*">> <=> q = p + 2 /\ pattern[p + 1] = "*" /\ pattern[p + 2] = "*"
    BY <1>1, <1>3, <2>1, LevelIs
  <2>3. IsLast(pattern, p) => q = n
    BY <1>1, <1>2 DEF IsLast, EndsAt
  <2> QED
    BY <1>1, <1>3, <2>2, <2>3 DEF IsLast
<1> HIDE DEF level, q, next
<1>6. CASE level = <<"*", "*">> /\ q = n
  <2>1. from[p] = {i \in 0..m : TRUE}
    BY <1>1, <1>4, <1>6
  <2> QED
    BY <1>5, <1>6, <2>1
<1>7. CASE level = <<"*", "*">> /\ q # n
  <2>1. m \notin from[p]
    BY <1>1, <1>3, <1>4, <1>7
  <2> QED
    BY <1>5, <1>7, <2>1
<1>8. CASE level # <<"*", "*">>
  <2>1. m \notin from[p]
    BY <1>1, <1>3, <1>4, <1>8
  <2> QED
    BY <1>5, <1>8, <2>1
<1> QED
  BY <1>6, <1>7, <1>8

LEMMA StartsAre ==
  ASSUME NEW text, NEW s, NEW path, Joins(text, s, path), path # <<>>
  PROVE  /\ Len(text) \in Nat /\ Len(path) \in Nat /\ Len(path) > 0
         /\ s \in [0..Len(path) -> Nat] /\ s[Len(path)] = Len(text) + 1 /\ s[0] = 0
         /\ \A i, j \in 0..Len(path) : i < j => s[i] < s[j]
         /\ \A k \in 1..Len(text) : text[k] = "/" <=> \E i \in 1..(Len(path) - 1) : k = s[i]
         /\ \A i \in 1..(Len(path) - 1) : s[i] \in 1..Len(text) /\ text[s[i]] = "/"
<1> DEFINE n == Len(path)
           m == Len(text)
<1>1. n \in Nat /\ m \in Nat /\ n > 0
  <2>1. n \in Nat /\ m \in Nat
    BY LenProperties DEF Joins, Text
  <2>2. n # 0
    BY EmptySeq DEF Joins
  <2> QED
    BY <2>1, <2>2
<1>2. /\ s \in [0..n -> Nat] /\ s[n] = m + 1 /\ s[0] = 0
      /\ \A i, j \in 0..n : i < j => s[i] < s[j]
      /\ \A k \in 1..m : text[k] = "/" <=> \E i \in 1..(n - 1) : k = s[i]
  BY DEF Joins
<1> HIDE DEF n, m
<1>3. ASSUME NEW i \in 1..(n - 1) PROVE s[i] \in 1..m /\ text[s[i]] = "/"
  <2>1. 0 \in 0..n /\ i \in 0..n /\ n \in 0..n /\ 0 < i /\ i < n
    BY <1>1
  <2>2. s[0] < s[i] /\ s[i] < s[n] /\ s[i] \in Nat
    BY <1>2, <2>1
  <2>3. s[i] \in 1..m
    BY <1>1, <1>2, <2>2
  <2> QED
    BY <1>2, <2>3
<1> QED
  BY <1>1, <1>2, <1>3 DEF n, m

LEMMA LeavesAt ==
  ASSUME NEW pattern, NEW path, NEW from, NEW text, NEW s, NEW C,
         IsSetting(pattern, path, from, text, s, C), NEW q \in 0..Len(pattern),
         q = Len(pattern) \/ pattern[q + 1] = ".",
         q # Len(pattern) => StartsAlike(C, s, path, from, q + 1)
  PROVE  Leaves(C[q], s, path, NextKeys(pattern, path, q, from))
<1> DEFINE n == Len(pattern)
           M == Len(path)
           m == Len(text)
           P == Translated(pattern)
           next == NextKeys(pattern, path, q, from)
<1>1. /\ m \in Nat /\ M \in Nat /\ M > 0
      /\ s \in [0..M -> Nat] /\ s[M] = m + 1
      /\ \A k \in 1..m : text[k] = "/" <=> \E i \in 1..(M - 1) : k = s[i]
      /\ \A i \in 1..(M - 1) : s[i] \in 1..m /\ text[s[i]] = "/"
  BY StartsAre DEF IsSetting
<1>2. /\ n \in Nat /\ Len(P) = n
      /\ \A k \in 1..n : /\ P[k] = "/" <=> pattern[k] = "."
                         /\ pattern[k] # "." => P[k] = pattern[k]
  BY TranslatedIs DEF IsSetting
<1>3. IsCovered(C, P, text, m, TRUE)
  BY DEF IsSetting
<1> HIDE DEF n, M, m, P
<1>4. CASE q = n
  <2>1. C[q] = {m} /\ next = {M}
    BY <1>2, <1>3, <1>4 DEF IsCovered, NextKeys, n, M
  <2>2. ASSUME NEW x PROVE x \in C[q] <=> \E y \in 1..M : y \in next /\ x = s[y] - 1
    <3>1. M \in 1..M /\ s[M] - 1 = m
      BY <1>1
    <3> QED
      BY <2>1, <3>1
  <2> QED
    BY <2>2 DEF Leaves, M
<1>5. CASE q # n
  <2>1. /\ q + 1 \in 1..n /\ q \in 0..(n - 1) /\ q \in Nat /\ P[q + 1] = "/"
        /\ next = from[q + 1] /\ StartsAlike(C, s, path, from, q + 1)
    BY <1>2, <1>5 DEF NextKeys, n
  <2>2. C[q] = CoveredFrom(P, text, m, TRUE, q, C[q + 1], C[q + 2])
    BY <1>2, <1>3, <2>1 DEF IsCovered
  <2>3. IsBelow(P, q) <=> IsLast(pattern, q + 1)
    <3>1. \A k \in 1..n : P[k] = "*" <=> pattern[k] = "*"
      BY <1>2
    <3>2. (q + 1) + 1 = q + 2 /\ (q + 1) + 2 = q + 3
      BY <2>1
    <3>3. q + 3 = n => q + 2 \in 1..n /\ q + 3 \in 1..n
      BY <2>1
    <3> QED
      BY <1>2, <2>1, <3>1, <3>2, <3>3 DEF IsBelow, IsLast, n
  <2>4. CASE IsLast(pattern, q + 1)
    <3>1. C[q] = {i \in 0..m : i = m \/ text[i + 1] = "/"}
      BY <2>2, <2>3, <2>4, Zenon DEF CoveredFrom, IsBelow
    <3>2. next = 0..M
      BY <2>1, <2>4, PathIsCovered DEF n, M
    <3>3. ASSUME NEW x \in C[q] PROVE \E y \in 1..M : y \in next /\ x = s[y] - 1
      <4>1. CASE x = m
        <5>1. M \in 1..M /\ M \in next /\ x = s[M] - 1
          BY <1>1, <3>2, <4>1
        <5> QED
          BY <5>1
      <4>2. CASE x # m
        <5>1. x \in 0..m /\ x + 1 \in 1..m /\ text[x + 1] = "/"
          BY <1>1, <3>1, <4>2
        <5>2. PICK y \in 1..(M - 1) : x + 1 = s[y]
          BY <1>1, <5>1
        <5>3. y \in 1..M /\ y \in next /\ x = s[y] - 1
          BY <1>1, <3>2, <5>1, <5>2
        <5> QED
          BY <5>3
      <4> QED
        BY <4>1, <4>2
    <3>4. ASSUME NEW y \in 1..M PROVE s[y] - 1 \in C[q]
      <4>1. CASE y = M
        BY <1>1, <3>1, <4>1
      <4>2. CASE y # M
        <5>1. s[y] \in 1..m /\ text[s[y]] = "/"
          BY <1>1, <4>2
        <5>2. (s[y] - 1) + 1 = s[y] /\ s[y] - 1 \in 0..m
          BY <1>1, <5>1
        <5> QED
          BY <3>1, <5>1, <5>2
      <4> QED
        BY <4>1, <4>2
    <3> QED
      BY <3>3, <3>4 DEF Leaves, M
  <2>5. CASE ~IsLast(pattern, q + 1)
    <3>1. M \notin next
      BY <2>1, <2>5, PathIsCovered DEF n, M
    <3>2. ~IsDoubled(P, q)
      BY <2>1 DEF IsDoubled
    <3>3. ByCharacter(C, P, text, m, TRUE, q)
      BY <1>1, <1>2, <1>3, <2>1, <2>3, <2>5, <3>2, CharacterAt
    <3>4. \A x : x \in C[q] <=> x \in 0..m /\ x + 1 \in C[q + 1] /\ text[x + 1] = "/"
      BY <2>1, <3>3 DEF ByCharacter, CoversCharacter
    <3>5. C[q + 1] \in SUBSET (0..m)
      BY <1>2, <1>3, <2>1 DEF IsCovered
    <3>6. ASSUME NEW x \in C[q] PROVE \E y \in 1..M : y \in next /\ x = s[y] - 1
      <4>1. x \in 0..m /\ x + 1 \in 1..m /\ text[x + 1] = "/" /\ x + 1 \in C[q + 1]
        BY <1>1, <3>4, <3>5
      <4>2. PICK y \in 1..(M - 1) : x + 1 = s[y]
        BY <1>1, <4>1
      <4>3. y \in 0..(M - 1)
        BY <1>1
      <4>4. y \in next
        BY <2>1, <4>1, <4>2, <4>3 DEF StartsAlike, M
      <4>5. y \in 1..M /\ x = s[y] - 1
        BY <1>1, <4>1, <4>2
      <4> QED
        BY <4>4, <4>5
    <3>7. ASSUME NEW y \in 1..M, y \in next PROVE s[y] - 1 \in C[q]
      <4>1. y \in 1..(M - 1) /\ y \in 0..(M - 1)
        BY <1>1, <3>1, <3>7
      <4>2. s[y] \in 1..m /\ text[s[y]] = "/"
        BY <1>1, <4>1
      <4>3. s[y] \in C[q + 1]
        BY <2>1, <3>7, <4>1 DEF StartsAlike, M
      <4>4. (s[y] - 1) + 1 = s[y] /\ s[y] - 1 \in 0..m
        BY <1>1, <4>2
      <4> QED
        BY <3>4, <4>2, <4>3, <4>4
    <3> QED
      BY <3>6, <3>7 DEF Leaves, M
  <2> QED
    BY <2>4, <2>5
<1> QED
  BY <1>4, <1>5

\* Places behind a key.
LEMMA KeyLeaves ==
  ASSUME NEW text, NEW s, NEW path, Joins(text, s, path), NEW i \in 0..(Len(path) - 1),
         NEW places, NEW next, Leaves(places, s, path, next)
  PROVE  LET a == s[i]
             b == s[i + 1] - 1
         IN /\ b \in places <=> i + 1 \in next
            /\ Alike(places, {b - a}, a, b, places)
<1> DEFINE M == Len(path)
           a == s[i]
           b == s[i + 1] - 1
<1>1. /\ M \in Nat /\ i \in 0..M /\ i + 1 \in 0..M /\ i + 1 \in 1..M
      /\ s \in [0..M -> Nat] /\ \A x, y \in 0..M : x < y => s[x] < s[y]
  <2>1. M \in Nat
    BY LenProperties DEF Joins
  <2> QED
    BY <2>1 DEF Joins
<1>2. \A x : x \in places <=> \E y \in 1..M : y \in next /\ x = s[y] - 1
  BY DEF Leaves
<1> HIDE DEF M
<1>3. a \in Nat /\ b \in Nat /\ a <= b
  BY <1>1
<1>4. ASSUME NEW y \in 1..M, s[y] - 1 \in a..b PROVE y = i + 1
  <2>1. y \in 0..M /\ s[y] \in Nat
    BY <1>1
  <2>2. CASE y < i + 1
    <3>1. y = i \/ y < i
      BY <1>1, <2>2
    <3>2. s[y] <= s[i]
      BY <1>1, <2>1, <3>1
    <3> QED
      BY <1>3, <1>4, <2>1, <3>2
  <2>3. CASE y > i + 1
    <3>1. s[i + 1] < s[y]
      BY <1>1, <2>1, <2>3
    <3> QED
      BY <1>1, <1>4, <2>1, <3>1
  <2> QED
    BY <1>1, <2>1, <2>2, <2>3
<1>5. b \in places <=> i + 1 \in next
  <2>1. b \in a..b
    BY <1>3
  <2> QED
    BY <1>1, <1>2, <1>4, <2>1
<1>6. ASSUME NEW x \in a..b PROVE x \in places <=> x - a \in {b - a} /\ b \in places
  <2>1. x \in places => x = b
    BY <1>2, <1>4
  <2>2. x - a = b - a <=> x = b
    BY <1>3
  <2> QED
    BY <2>1, <2>2
<1> QED
  BY <1>5, <1>6 DEF Alike

LEMMA LevelStep ==
  ASSUME NEW pattern, NEW path, NEW from, NEW text, NEW s, NEW C,
         IsSetting(pattern, path, from, text, s, C), NEW p \in 0..Len(pattern),
         LevelEnd(pattern, p) # Len(pattern) =>
           StartsAlike(C, s, path, from, LevelEnd(pattern, p) + 1)
  PROVE  StartsAlike(C, s, path, from, p)
<1> DEFINE n == Len(pattern)
           M == Len(path)
           m == Len(text)
           P == Translated(pattern)
           q == LevelEnd(pattern, p)
           level == SubSeq(pattern, p + 1, q)
           next == NextKeys(pattern, path, q, from)
<1>1. /\ m \in Nat /\ M \in Nat /\ M > 0
      /\ s \in [0..M -> Nat] /\ s[M] = m + 1 /\ s[0] = 0
      /\ \A i, j \in 0..M : i < j => s[i] < s[j]
  BY StartsAre DEF IsSetting
<1>2. /\ n \in Nat /\ Len(P) = n
      /\ \A k \in 1..n : /\ P[k] = "/" <=> pattern[k] = "."
                         /\ pattern[k] # "." => P[k] = pattern[k]
  BY TranslatedIs DEF IsSetting
<1>3. IsCovered(C, P, text, m, TRUE) /\ IsFrom(from, pattern, path)
  BY DEF IsSetting
<1>4. EndsAt(pattern, p, q)
  BY <1>2, LevelEnds
<1>5. /\ q \in p..n /\ q \in 0..n /\ p \in Nat /\ q \in Nat /\ (q = n \/ pattern[q + 1] = ".")
      /\ \A k \in (p + 1)..q : pattern[k] # "."
  BY <1>2, <1>4 DEF EndsAt
<1>6. Leaves(C[q], s, path, next)
  <2> HIDE DEF q
  <2> QED
    BY <1>5, LeavesAt DEF q
<1>7. /\ IsPart(level, pattern, p, q) /\ Len(level) \in Nat
      /\ level = <<"*", "*">> <=> q = p + 2 /\ pattern[p + 1] = "*" /\ pattern[p + 2] = "*"
  <2>1. pattern \in Text
    BY DEF IsSetting, PlainPattern
  <2> HIDE DEF q
  <2> QED
    BY <1>5, <2>1, LevelIs
<1>8. /\ level = <<"*", "*">> =>
           from[p] = {i \in 0..M : IF q = n THEN i < M \/ p > 0 ELSE \E j \in next : i < j}
      /\ level # <<"*", "*">> =>
           from[p] = {i \in 0..M : i + 1 \in next /\ Covers(level, path[i + 1], FALSE)}
  <2>1. from[p] = CoveredKeys(pattern, path, p, from)
    BY <1>3 DEF IsFrom
  <2> QED
    BY <2>1, Zenon DEF CoveredKeys, NextKeys
<1>9. SUFFICES ASSUME NEW i \in 0..(M - 1) PROVE s[i] \in C[p] <=> i \in from[p]
  BY DEF StartsAlike
<1> DEFINE key == path[i + 1]
           a == s[i]
           b == s[i + 1] - 1
<1> HIDE DEF n, M, m, P, q, level, next
<1>10. i \in 0..M /\ i < M /\ i + 1 \in 1..M /\ a \in Nat /\ a <= m
  <2>1. M \in 0..M /\ i \in 0..M /\ i < M /\ i + 1 \in 1..M
    BY <1>1
  <2>2. s[i] < s[M] /\ s[i] \in Nat
    BY <1>1, <2>1
  <2> QED
    BY <1>1, <2>1, <2>2
<1>11. CASE level = <<"*", "*">>
  <2>1. IsDoubled(P, p) /\ ~IsBelow(P, p) /\ p \in 0..(n - 1) /\ p + 2 = q
    <3>1. p + 1 \in 1..n /\ p + 2 \in 1..n /\ p + 2 = q
      BY <1>2, <1>5, <1>7, <1>11
    <3>2. P[p + 1] = "*" /\ P[p + 2] = "*"
      BY <1>2, <1>7, <1>11, <3>1
    <3> QED
      BY <1>2, <1>5, <3>1, <3>2 DEF IsDoubled, IsBelow
  <2>2. C[p] = {x \in 0..m : {j \in C[q] : x <= j} # {}}
    <3>1. C[p] = CoveredFrom(P, text, m, TRUE, p, C[p + 1], C[p + 2])
      BY <1>2, <1>3, <2>1 DEF IsCovered
    <3>2. P[p + 1] # "/"
      BY <2>1 DEF IsDoubled
    <3>3. C[p] = {x \in 0..m : {j \in C[p + 2] : x <= j} # {}}
      BY <2>1, <3>1, <3>2, Zenon DEF CoveredFrom, IsDoubled
    <3> QED
      BY <2>1, <3>3
  <2>3. a \in C[p] <=> \E j \in C[q] : a <= j
    <3>1. a \in 0..m
      BY <1>1, <1>10
    <3> QED
      BY <2>2, <3>1
  <2>4. (\E j \in C[q] : a <= j) <=> \E y \in 1..M : y \in next /\ i < y
    <3>1. \A x : x \in C[q] <=> \E y \in 1..M : y \in next /\ x = s[y] - 1
      BY <1>6 DEF Leaves, M
    <3>2. ASSUME NEW y \in 1..M PROVE a <= s[y] - 1 <=> i < y
      <4>1. y \in 0..M /\ s[y] \in Nat
        BY <1>1
      <4>2. (i < y => s[i] < s[y]) /\ (y < i => s[y] < s[i])
        BY <1>1, <1>10, <4>1
      <4> QED
        BY <1>1, <1>10, <4>1, <4>2
    <3> QED
      BY <3>1, <3>2
  <2>5. i \in from[p] <=> \E y \in 1..M : y \in next /\ i < y
    <3>1. CASE q = n
      <4>1. next = {M} /\ i \in from[p]
        BY <1>8, <1>10, <1>11, <3>1 DEF NextKeys, next, n, M
      <4> QED
        BY <1>1, <1>10, <4>1
    <3>2. CASE q # n
      <4>1. next \in SUBSET (0..M)
        BY <1>2, <1>3, <1>5, <3>2 DEF IsFrom, NextKeys, next, n, M
      <4>2. i \in from[p] <=> \E j \in next : i < j
        BY <1>8, <1>10, <1>11, <3>2
      <4> QED
        BY <1>1, <1>10, <4>1, <4>2
    <3> QED
      BY <3>1, <3>2
  <2> QED
    BY <2>3, <2>4, <2>5
<1>12. CASE level # <<"*", "*">>
  <2>1. IsLevel(level, P, p, q)
    <3>1. \A k \in (p + 1)..q : k \in 1..n /\ P[k] = pattern[k]
      BY <1>2, <1>5
    <3>2. IsPart(level, P, p, q)
      <4>1. \A k \in 1..(q - p) : p + k \in (p + 1)..q
        BY <1>5
      <4> QED
        BY <1>7, <3>1, <4>1 DEF IsPart
    <3>3. ASSUME NEW k \in (p + 1)..(q - 1), P[k] = "*", P[k + 1] = "*" PROVE FALSE
      <4>1. k \in (p + 1)..q /\ k + 1 \in (p + 1)..q /\ k \in 1..(n - 1)
        BY <1>2, <1>5
      <4>2. pattern[k] = "*" /\ pattern[k + 1] = "*"
        BY <3>1, <3>3, <4>1
      <4>3. IsWhole(pattern, k)
        BY <4>1, <4>2 DEF IsSetting, PlainPattern, n
      <4>4. k = p + 1
        <5>1. k # p + 1 => k # 1 /\ k - 1 \in (p + 1)..q
          BY <1>5, <4>1
        <5> QED
          BY <1>5, <4>3, <5>1 DEF IsWhole
      <4>5. k + 1 = q
        <5>1. k + 1 # q => k + 1 # n /\ k + 2 \in (p + 1)..q
          BY <1>2, <1>5, <4>1
        <5> QED
          BY <1>5, <4>3, <5>1 DEF IsWhole, n
      <4>6. q = p + 2 /\ pattern[p + 1] = "*" /\ pattern[p + 2] = "*"
        BY <1>5, <4>2, <4>4, <4>5
      <4> QED
        BY <1>7, <1>12, <4>6
    <3>4. \A k \in (p + 1)..q : P[k] # "/"
      BY <1>2, <1>5, <3>1
    <3>5. q = n \/ P[q + 1] = "/"
      BY <1>2, <1>5
    <3> QED
      BY <1>2, <1>5, <3>2, <3>3, <3>4, <3>5 DEF IsLevel
  <2>2. IsKey(key, text, m, a, b)
    BY KeyAt DEF IsSetting, m, M
  <2>3. b \in C[q] <=> i + 1 \in next
    BY <1>6, KeyLeaves DEF IsSetting, M
  <2>4. Alike(C[q], {b - a}, a, b, C[q])
    BY <1>6, KeyLeaves DEF IsSetting, M
  <2>5. Len(key) = b - a /\ b - a \in Nat
    BY <2>2 DEF IsKey, IsPart
  <2> HIDE DEF key, a, b
  <2>6. PICK D : IsCovered(D, level, key, b - a, FALSE)
                   /\ (CoversUpTo(level, key, b - a, FALSE) <=> 0 \in D[0])
    BY <1>7, <2>5, CoveredIs
  <2>7. a \in C[p] <=> 0 \in D[0] /\ b \in C[q]
    BY <1>3, <2>1, <2>2, <2>4, <2>6, WithinLevel
  <2>8. 0 \in D[0] <=> Covers(level, key, FALSE)
    BY <2>5, <2>6 DEF Covers
  <2>9. i \in from[p] <=> i + 1 \in next /\ Covers(level, key, FALSE)
    BY <1>8, <1>10, <1>12 DEF key
  <2> QED
    BY <2>3, <2>7, <2>8, <2>9 DEF a
<1> QED
  BY <1>11, <1>12

\* The pattern, as redact_arguments() translates it, matches the text of just the
\* paths that it covers key by key.
LEMMA PathsAreText ==
  ASSUME NEW pattern, PlainPattern(pattern), NEW text, NEW s, NEW path, Joins(text, s, path), path # <<>>
  PROVE  MatchPath(Translated(pattern), text) <=> CoversPath(pattern, path)
<1> DEFINE n == Len(pattern)
           M == Len(path)
           m == Len(text)
           P == Translated(pattern)
<1>1. /\ m \in Nat /\ M \in Nat /\ M > 0 /\ s \in [0..M -> Nat] /\ s[M] = m + 1 /\ s[0] = 0
      /\ \A i, j \in 0..M : i < j => s[i] < s[j]
  BY StartsAre
<1>2. n \in Nat /\ Len(P) = n /\ P \in Text
  BY TranslatedIs
<1> HIDE DEF P, m, n, M
<1>3. PICK from : IsFrom(from, pattern, path) /\ (CoversPath(pattern, path) <=> 0 \in from[0])
  BY <1>1, <1>2, CoversPathIs DEF n, M
<1>4. PICK C : IsCovered(C, P, text, m, TRUE) /\ (CoversUpTo(P, text, m, TRUE) <=> 0 \in C[0])
  BY <1>1, <1>2, CoveredIs
<1>5. IsSetting(pattern, path, from, text, s, C)
  BY <1>3, <1>4 DEF IsSetting, P, m
<1> DEFINE Goes(p) == StartsAlike(C, s, path, from, p)
           T == {k \in 0..n : \A p \in (n - k)..n : Goes(p)}
<1> HIDE DEF Goes
<1>6. ASSUME NEW p \in 0..n, \A x \in (p + 1)..n : Goes(x) PROVE Goes(p)
  <2> DEFINE q == LevelEnd(pattern, p)
  <2>1. q \in p..n
    BY <1>2, LevelEnds DEF EndsAt, n
  <2> HIDE DEF q
  <2>2. q # n => Goes(q + 1)
    BY <1>2, <1>6, <2>1
  <2> QED
    BY <1>5, <2>2, LevelStep DEF Goes, q, n
<1>7. 0 \in T
  <2>1. \A p \in (n - 0)..n : p = n /\ p \in 0..n /\ (p + 1)..n = {}
    BY <1>2
  <2>2. \A p \in (n - 0)..n : Goes(p)
    BY <1>6, <2>1
  <2> QED
    BY <1>2, <2>2
<1>8. ASSUME NEW k \in 0..(n - 1), k \in T PROVE k + 1 \in T
  <2>1. \A p \in (n - k)..n : Goes(p)
    BY <1>8
  <2>2. Goes(n - (k + 1))
    <3>1. n - (k + 1) \in 0..n /\ (n - (k + 1)) + 1 = n - k
      BY <1>2
    <3> QED
      BY <1>6, <2>1, <3>1
  <2>3. \A p \in (n - (k + 1))..n : p = n - (k + 1) \/ p \in (n - k)..n
    BY <1>2
  <2> QED
    BY <1>2, <2>1, <2>2, <2>3
<1>9. Goes(0)
  <2> HIDE DEF T
  <2>1. n \in T
    <3>1. \A k \in 0..n : k \in T
      BY <1>2, <1>7, <1>8, UpTo
    <3> QED
      BY <1>2, <3>1
  <2>2. 0 \in (n - n)..n
    BY <1>2
  <2> QED
    BY <2>1, <2>2 DEF T
<1>10. 0 \in C[0] <=> 0 \in from[0]
  <2>1. 0 \in 0..(M - 1) /\ s[0] = 0
    BY <1>1
  <2> QED
    BY <1>9, <2>1 DEF Goes, StartsAlike, M
<1>11. text[m] # "\n"
  <2>1. M \in 1..M /\ M - 1 \in 0..M /\ M - 1 < M /\ M \in 0..M
    BY <1>1
  <2>2. PlainKey(path[M]) /\ IsPart(path[M], text, s[M - 1], s[M] - 1)
    BY <2>1 DEF Joins, M
  <2>3. Len(path[M]) \in Nat /\ Len(path[M]) # 0
    BY <2>2, EmptySeq DEF PlainKey, Text
  <2>4. s[M - 1] \in Nat /\ Len(path[M]) = m - s[M - 1]
    BY <1>1, <2>1, <2>2 DEF IsPart
  <2>5. path[M][m - s[M - 1]] = text[s[M - 1] + (m - s[M - 1])] /\ s[M - 1] + (m - s[M - 1]) = m
    <3>1. /\ m - s[M - 1] \in 1..(s[M] - 1 - s[M - 1])
          /\ s[M - 1] + (m - s[M - 1]) = m
      BY <1>1, <2>3, <2>4
    <3> QED
      BY <2>2, <3>1 DEF IsPart
  <2> QED
    BY <2>2, <2>4, <2>5 DEF PlainKey
<1>12. Matches(P, text, TRUE) <=> CoversUpTo(P, text, m, TRUE)
  BY <1>11, Zenon DEF Matches, Covers, m
<1>13. MatchPath(P, text) <=> Matches(P, text, TRUE)
  <2>1. Character \cap Class = {} /\ P \in Seq(Character)
    BY <1>2 DEF Character, Text
  <2> QED
    BY <1>1, <2>1, GlobsAreAsDocumented DEF m
<1> QED
  BY <1>3, <1>4, <1>10, <1>12, <1>13 DEF P

-----------------------------------------------------------------------------
(* Redacting *)

LEMMA UnderIsText ==
  ASSUME NEW p \in Text, NEW key \in Text
  PROVE  Under(p, key) \in Text /\ Append(p, "/") \o key \in Text
BY SeparatorAssumption DEF Under, Text

\* What is within a value, with its key, and one level less deep.
LEMMA WithinValue ==
  ASSUME NEW v \in Values
  PROVE  /\ v.kind = "object" => \A key \in DOMAIN v.fields :
              key \in Text /\ v.fields[key] \in Values /\ Depth[v.fields[key]] < Depth[v]
         /\ v.kind = "list" => \A k \in DOMAIN v.items :
              Index[k] \in Text /\ v.items[k] \in Values /\ Depth[v.items[k]] < Depth[v]
<1>1. v.kind = "object" => \A key \in DOMAIN v.fields :
        key \in Text /\ v.fields[key] \in Values /\ Depth[v.fields[key]] < Depth[v]
  BY ValuesAssumption, DepthAssumption
<1>2. ASSUME v.kind = "list", NEW k \in DOMAIN v.items
      PROVE  Index[k] \in Text /\ v.items[k] \in Values /\ Depth[v.items[k]] < Depth[v]
  <2>1. v.items \in Seq(Values) /\ Len(v.items) <= Len(Index) /\ Index \in Seq(Text)
    BY <1>2, ValuesAssumption, IndexAssumption
  <2>2. k \in 1..Len(v.items) /\ k \in 1..Len(Index)
    BY <1>2, <2>1, LenProperties
  <2>3. v.items[k] \in Values /\ Index[k] \in Text
    BY <2>1, <2>2, ElementOfSeq
  <2> QED
    BY <1>2, <2>3, DepthAssumption
<1> QED
  BY <1>1, <1>2

\* Functions alike on what is within a value lead to the same.
LEMMA StepsAlike ==
  ASSUME NEW v \in Values, NEW patterns, NEW f, NEW g,
         \A w \in Values : Depth[w] < Depth[v] => \A t \in Text : f[w][t] = g[w][t]
  PROVE  RedactedUnder(f, v, patterns) = RedactedUnder(g, v, patterns)
<1> DEFINE Arm(h, p) == RedactedUnder(h, v, patterns)[p]
<1>1. ASSUME NEW p \in Text, ~IsMasked(p, patterns), v.kind = "object"
      PROVE  [key \in DOMAIN v.fields |-> f[v.fields[key]][Under(p, key)]]
               = [key \in DOMAIN v.fields |-> g[v.fields[key]][Under(p, key)]]
  BY <1>1, WithinValue, UnderIsText
<1>2. ASSUME NEW p \in Text, ~IsMasked(p, patterns), v.kind = "list"
      PROVE  [k \in DOMAIN v.items |-> f[v.items[k]][Append(p, "/") \o Index[k]]]
               = [k \in DOMAIN v.items |-> g[v.items[k]][Append(p, "/") \o Index[k]]]
  BY <1>2, WithinValue, UnderIsText
<1>3. "object" # "list"
  OBVIOUS
<1>4. ASSUME NEW p \in Text PROVE Arm(f, p) = Arm(g, p)
  BY <1>1, <1>2, <1>3, Zenon DEF RedactedUnder
<1>5. \A h : RedactedUnder(h, v, patterns) = [p \in Text |-> Arm(h, p)]
  BY DEF RedactedUnder
<1> HIDE DEF Arm
<1> QED
  BY <1>4, <1>5

\* The values less deep than n are redacted as redact() does.
RedactsUpTo(f, n, patterns) ==
  \A v \in Values : Depth[v] < n =>
    \A p \in Text : f[v][p] = RedactedUnder(f, v, patterns)[p]

LEMMA RedactExists ==
  ASSUME NEW patterns
  PROVE  \E f : f = [v \in Values |-> RedactedUnder(f, v, patterns)]
<1> DEFINE Body(f) == [v \in Values |-> RedactedUnder(f, v, patterns)]
           T == {n \in 0..(MaxDepth + 1) : \E f : RedactsUpTo(f, n, patterns)}
<1>1. MaxDepth \in Nat /\ \A v \in Values : Depth[v] \in 0..MaxDepth
  BY DepthAssumption
<1>2. \A f, v : v \in Values => Body(f)[v] = RedactedUnder(f, v, patterns)
  OBVIOUS
<1>3. \A f, g : (\A v \in Values : RedactedUnder(f, v, patterns) = RedactedUnder(g, v, patterns))
                  => Body(f) = Body(g)
  OBVIOUS
<1> HIDE DEF Body
<1>4. 0 \in T
  <2>1. \A v \in Values : ~(Depth[v] < 0)
    BY <1>1
  <2>2. RedactsUpTo(<<>>, 0, patterns)
    BY <2>1 DEF RedactsUpTo
  <2> QED
    BY <1>1, <2>2
<1>5. ASSUME NEW n \in 0..MaxDepth, n \in T PROVE n + 1 \in T
  <2>1. PICK f : RedactsUpTo(f, n, patterns)
    BY <1>5
  <2>2. ASSUME NEW v \in Values, Depth[v] < n + 1
        PROVE  Body(f)[v] = RedactedUnder(Body(f), v, patterns)
    <3>1. ASSUME NEW w \in Values, Depth[w] < Depth[v], NEW t \in Text
          PROVE  f[w][t] = Body(f)[w][t]
      <4>1. Depth[w] < n
        BY <1>1, <2>2, <3>1
      <4> QED
        BY <1>2, <2>1, <4>1 DEF RedactsUpTo
    <3>2. RedactedUnder(f, v, patterns) = RedactedUnder(Body(f), v, patterns)
      BY <3>1, StepsAlike
    <3> QED
      BY <1>2, <3>2
  <2>3. RedactsUpTo(Body(f), n + 1, patterns)
    BY <2>2 DEF RedactsUpTo
  <2> QED
    BY <1>1, <2>3
<1>6. MaxDepth + 1 \in T
  <2> HIDE DEF T
  <2>1. MaxDepth + 1 \in Nat /\ (MaxDepth + 1) - 1 = MaxDepth
    BY <1>1
  <2>2. \A n \in 0..(MaxDepth + 1) : n \in T
    BY <1>4, <1>5, <2>1, UpTo
  <2> QED
    BY <2>1, <2>2
<1>7. PICK f : RedactsUpTo(f, MaxDepth + 1, patterns)
  BY <1>6
<1>8. ASSUME NEW v \in Values, NEW p \in Text PROVE f[v][p] = RedactedUnder(f, v, patterns)[p]
  <2>1. Depth[v] < MaxDepth + 1
    BY <1>1
  <2> QED
    BY <1>7, <2>1 DEF RedactsUpTo
<1>9. ASSUME NEW v \in Values
      PROVE  RedactedUnder(f, v, patterns) = RedactedUnder(Body(f), v, patterns)
  <2>1. \A w \in Values : \A t \in Text : f[w][t] = Body(f)[w][t]
    BY <1>2, <1>8
  <2> QED
    BY <2>1, StepsAlike
<1>10. Body(f) = Body(Body(f))
  BY <1>3, <1>9
<1> QED
  BY <1>10 DEF Body

LEMMA RedactIs ==
  ASSUME NEW patterns
  PROVE  \E f : \A v \in Values : \A p \in Text :
           /\ Redact(v, p, patterns) = f[v][p]
           /\ f[v] = RedactedUnder(f, v, patterns)
<1> DEFINE Body(f) == [v \in Values |-> RedactedUnder(f, v, patterns)]
           redact == CHOOSE f : f = Body(f)
<1>1. redact = Body(redact)
  <2>1. \E f : f = Body(f)
    BY RedactExists
  <2> HIDE DEF Body
  <2> QED
    BY <2>1
<1>2. \A f, v : v \in Values => Body(f)[v] = RedactedUnder(f, v, patterns)
  OBVIOUS
<1>3. \A v, p : Redact(v, p, patterns) = redact[v][p]
  BY DEF Redact
<1> HIDE DEF redact, Body
<1> QED
  BY <1>1, <1>2, <1>3

\* What redact() returns for a value in terms of what it returns for what is within.
LEMMA RedactUnfolds ==
  ASSUME NEW patterns, NEW v \in Values, NEW p \in Text
  PROVE  LET out == Redact(v, p, patterns) IN
         /\ IsMasked(p, patterns) => out = Redacted
         /\ ~IsMasked(p, patterns) /\ v.kind = "object" =>
              /\ out.kind = "object" /\ DOMAIN out.fields = DOMAIN v.fields
              /\ \A key \in DOMAIN v.fields :
                   out.fields[key] = Redact(v.fields[key], Under(p, key), patterns)
         /\ ~IsMasked(p, patterns) /\ v.kind = "list" =>
              /\ out.kind = "list" /\ DOMAIN out.items = DOMAIN v.items
              /\ \A k \in DOMAIN v.items :
                   out.items[k] = Redact(v.items[k], Append(p, "/") \o Index[k], patterns)
         /\ ~IsMasked(p, patterns) /\ v.kind \notin {"object", "list"} => out = v
<1>1. PICK f : \A w \in Values : \A t \in Text :
                 /\ Redact(w, t, patterns) = f[w][t]
                 /\ f[w] = RedactedUnder(f, w, patterns)
  BY RedactIs
<1> DEFINE out == Redact(v, p, patterns)
<1>2. out = CASE IsMasked(p, patterns) -> Redacted
              [] ~IsMasked(p, patterns) /\ v.kind = "object" ->
                   [kind |-> "object",
                    fields |-> [key \in DOMAIN v.fields |-> f[v.fields[key]][Under(p, key)]]]
              [] ~IsMasked(p, patterns) /\ v.kind = "list" ->
                   [kind |-> "list",
                    items |-> [k \in DOMAIN v.items |-> f[v.items[k]][Append(p, "/") \o Index[k]]]]
              [] OTHER -> v
  <2>1. out = RedactedUnder(f, v, patterns)[p]
    BY <1>1
  <2> HIDE DEF out
  <2> QED
    BY <2>1 DEF RedactedUnder
<1> HIDE DEF out
<1>3. IsMasked(p, patterns) => out = Redacted
  BY <1>2, Zenon
<1>4. ASSUME ~IsMasked(p, patterns), v.kind = "object"
      PROVE  /\ out.kind = "object" /\ DOMAIN out.fields = DOMAIN v.fields
             /\ \A key \in DOMAIN v.fields :
                  out.fields[key] = Redact(v.fields[key], Under(p, key), patterns)
  <2>1. v.kind # "list"
    BY <1>4
  <2>2. out = [kind |-> "object",
               fields |-> [key \in DOMAIN v.fields |-> f[v.fields[key]][Under(p, key)]]]
    BY <1>2, <1>4, <2>1, Zenon
  <2>3. \A key \in DOMAIN v.fields :
          Redact(v.fields[key], Under(p, key), patterns) = f[v.fields[key]][Under(p, key)]
    BY <1>1, <1>4, WithinValue, UnderIsText
  <2> QED
    BY <2>2, <2>3
<1>5. ASSUME ~IsMasked(p, patterns), v.kind = "list"
      PROVE  /\ out.kind = "list" /\ DOMAIN out.items = DOMAIN v.items
             /\ \A k \in DOMAIN v.items :
                  out.items[k] = Redact(v.items[k], Append(p, "/") \o Index[k], patterns)
  <2>1. v.kind # "object"
    BY <1>5
  <2>2. out = [kind |-> "list",
               items |-> [k \in DOMAIN v.items |-> f[v.items[k]][Append(p, "/") \o Index[k]]]]
    BY <1>2, <1>5, <2>1, Zenon
  <2>3. \A k \in DOMAIN v.items :
          Redact(v.items[k], Append(p, "/") \o Index[k], patterns) = f[v.items[k]][Append(p, "/") \o Index[k]]
    BY <1>1, <1>5, WithinValue, UnderIsText
  <2> QED
    BY <2>2, <2>3
<1>6. ~IsMasked(p, patterns) /\ v.kind \notin {"object", "list"} => out = v
  BY <1>2, Zenon
<1> QED
  BY <1>3, <1>4, <1>5, <1>6 DEF out

-----------------------------------------------------------------------------
(* What is stored *)

\* What is stored is the value as redact() returns it for the text of its path.
IsRedacted(e, patterns) ==
  /\ e.value \in Values
  /\ e.value.kind = "list" => e.path # <<>>
  /\ \E text, s : Joins(text, s, e.path) /\ e.stored = Redact(e.value, text, patterns)

LEMMA SecretsAreMasked ==
  ASSUME NEW patterns, PlainPatterns(patterns), NEW text, NEW s, NEW path, Joins(text, s, path)
  PROVE  IsMasked(text, patterns) <=> IsSecret(path, patterns)
<1>1. CASE path = <<>>
  <2>1. text = <<>>
    BY <1>1 DEF Joins
  <2> QED
    BY <1>1, <2>1 DEF IsMasked, IsSecret
<1>2. CASE path # <<>>
  <2>1. text # <<>>
    BY <1>2, KeysMakeText
  <2>2. \A k \in DOMAIN patterns :
          MatchPath(Translated(patterns[k]), text) <=> CoversPath(patterns[k], path)
    BY <1>2, PathsAreText DEF PlainPatterns
  <2> QED
    BY <1>2, <2>1, <2>2 DEF IsMasked, IsSecret
<1> QED
  BY <1>1, <1>2

LEMMA RedactedIsRight ==
  ASSUME NEW patterns, PlainPatterns(patterns), NEW e, IsRedacted(e, patterns)
  PROVE  IsRight(e, patterns)
<1> DEFINE v == e.value
<1>1. PICK text, s : Joins(text, s, e.path) /\ e.stored = Redact(v, text, patterns)
  BY DEF IsRedacted
<1>2. v \in Values /\ text \in Text
  BY <1>1 DEF IsRedacted, Joins
<1>3. IsMasked(text, patterns) <=> IsSecret(e.path, patterns)
  BY <1>1, SecretsAreMasked
<1> HIDE DEF v
<1>4. /\ IsMasked(text, patterns) => e.stored = Redacted
      /\ ~IsMasked(text, patterns) /\ v.kind = "object" =>
           e.stored.kind = "object" /\ DOMAIN e.stored.fields = DOMAIN v.fields
      /\ ~IsMasked(text, patterns) /\ v.kind = "list" =>
           e.stored.kind = "list" /\ DOMAIN e.stored.items = DOMAIN v.items
      /\ ~IsMasked(text, patterns) /\ v.kind \notin {"object", "list"} => e.stored = v
  <2> DEFINE out == Redact(v, text, patterns)
  <2>1. /\ IsMasked(text, patterns) => out = Redacted
        /\ ~IsMasked(text, patterns) /\ v.kind = "object" =>
             out.kind = "object" /\ DOMAIN out.fields = DOMAIN v.fields
        /\ ~IsMasked(text, patterns) /\ v.kind = "list" =>
             out.kind = "list" /\ DOMAIN out.items = DOMAIN v.items
        /\ ~IsMasked(text, patterns) /\ v.kind \notin {"object", "list"} => out = v
    BY <1>2, RedactUnfolds
  <2> HIDE DEF out
  <2>2. e.stored = out
    BY <1>1 DEF out
  <2> QED
    BY <2>1, <2>2
<1>5. "object" # "list"
  OBVIOUS
<1> QED
  BY <1>3, <1>4, <1>5, Zenon DEF IsRight, v

LEMMA InsideIsRedacted ==
  ASSUME PlainKeys, NEW patterns, PlainPatterns(patterns), NEW e, IsRedacted(e, patterns),
         ~IsSecret(e.path, patterns), NEW x \in Inside(e)
  PROVE  IsRedacted(x, patterns)
<1> DEFINE v == e.value
<1>1. PICK text, s : Joins(text, s, e.path) /\ e.stored = Redact(v, text, patterns)
  BY DEF IsRedacted
<1>2. v \in Values /\ text \in Text /\ e.path \in Seq(Text) /\ (v.kind = "list" => e.path # <<>>)
  BY <1>1 DEF IsRedacted, Joins
<1>3. ~IsMasked(text, patterns)
  BY <1>1, SecretsAreMasked
<1>4. /\ v.kind = "object" =>
           \E key \in DOMAIN v.fields :
             x = [path |-> Append(e.path, key), value |-> v.fields[key], stored |-> e.stored.fields[key]]
      /\ v.kind = "list" =>
           \E k \in DOMAIN v.items :
             x = [path |-> Append(e.path, Index[k]), value |-> v.items[k], stored |-> e.stored.items[k]]
      /\ v.kind \in {"object", "list"}
  <2>1. "object" # "list"
    OBVIOUS
  <2> QED
    BY <2>1, Zenon DEF Inside
<1> HIDE DEF v
<1>5. \A key \in Text : Append(e.path, key) # <<>>
  BY <1>2, AppendProperties
<1>6. CASE v.kind = "object"
  <2>1. PICK key \in DOMAIN v.fields :
          x = [path |-> Append(e.path, key), value |-> v.fields[key], stored |-> e.stored.fields[key]]
    BY <1>4, <1>6
  <2>2. key \in Text /\ v.fields[key] \in Values /\ PlainKey(key)
    BY <1>2, <1>6, WithinValue DEF PlainKeys
  <2>3. e.stored.fields[key] = Redact(v.fields[key], Under(text, key), patterns)
    BY <1>1, <1>2, <1>3, <1>6, RedactUnfolds
  <2>4. PICK r : Joins(Under(text, key), r, Append(e.path, key))
    BY <1>1, <2>2, OneMoreJoined
  <2> QED
    BY <1>5, <2>1, <2>2, <2>3, <2>4 DEF IsRedacted
<1>7. CASE v.kind = "list"
  <2>1. PICK k \in DOMAIN v.items :
          x = [path |-> Append(e.path, Index[k]), value |-> v.items[k], stored |-> e.stored.items[k]]
    BY <1>4, <1>7
  <2>2. Index[k] \in Text /\ v.items[k] \in Values /\ PlainKey(Index[k])
    BY <1>2, <1>7, WithinValue DEF PlainKeys
  <2>3. Under(text, Index[k]) = Append(text, "/") \o Index[k]
    <3>1. text # <<>>
      BY <1>1, <1>2, <1>7, KeysMakeText
    <3> QED
      BY <3>1 DEF Under
  <2>4. e.stored.items[k] = Redact(v.items[k], Under(text, Index[k]), patterns)
    <3> DEFINE out == Redact(v, text, patterns)
    <3>1. out.items[k] = Redact(v.items[k], Append(text, "/") \o Index[k], patterns)
      BY <1>2, <1>3, <1>7, RedactUnfolds
    <3> HIDE DEF out
    <3>2. e.stored = out
      BY <1>1 DEF out
    <3> QED
      BY <2>3, <3>1, <3>2
  <2>5. PICK r : Joins(Under(text, Index[k]), r, Append(e.path, Index[k]))
    BY <1>1, <2>2, OneMoreJoined
  <2> QED
    BY <1>5, <2>1, <2>2, <2>4, <2>5 DEF IsRedacted
<1> QED
  BY <1>4, <1>6, <1>7

\* at[d] of IsStoredAs().
IsAt(at, value, stored, patterns) ==
  /\ at[0] = {[path |-> <<>>, value |-> value, stored |-> stored]}
  /\ \A d \in 1..MaxDepth : at[d] = UnmaskedWithin(at[d - 1], patterns)

LEMMA StoredAsIs ==
  ASSUME NEW value, NEW stored, NEW patterns
  PROVE  \E at : /\ IsAt(at, value, stored, patterns)
                 /\ IsStoredAs(value, stored, patterns)
                      <=> \A d \in 0..MaxDepth : \A e \in at[d] : IsRight(e, patterns)
<1> DEFINE a == {[path |-> <<>>, value |-> value, stored |-> stored]}
           To(f, n) == [d \in 0..n |-> IF d = 0 THEN a ELSE UnmaskedWithin(f[d - 1], patterns)]
           at == CHOOSE f : f = To(f, MaxDepth)
           T == {n \in 0..MaxDepth : \E f : f = To(f, n)}
<1>1. MaxDepth \in Nat
  BY DepthAssumption
<1>2. IsStoredAs(value, stored, patterns)
        <=> \A d \in 0..MaxDepth : \A e \in at[d] : IsRight(e, patterns)
  BY DEF IsStoredAs
<1>3. \A f : /\ To(f, MaxDepth)[0] = a
             /\ \A d \in 1..MaxDepth : To(f, MaxDepth)[d] = UnmaskedWithin(f[d - 1], patterns)
  BY <1>1
<1> HIDE DEF a
<1>4. 0 \in T
  <2> DEFINE f == [d \in 0..0 |-> a]
  <2>1. f = To(f, 0)
    OBVIOUS
  <2> HIDE DEF f
  <2>2. \E x : x = To(x, 0)
    BY <2>1
  <2> QED
    BY <1>1, <2>2
<1>5. ASSUME NEW n \in 0..(MaxDepth - 1), n \in T PROVE n + 1 \in T
  <2>1. PICK f : f = To(f, n)
    BY <1>5
  <2> DEFINE g == [d \in 0..(n + 1) |-> IF d = n + 1 THEN UnmaskedWithin(f[n], patterns) ELSE f[d]]
  <2>2. ASSUME NEW d \in 0..(n + 1)
        PROVE  g[d] = IF d = 0 THEN a ELSE UnmaskedWithin(g[d - 1], patterns)
    <3>1. CASE d = n + 1
      <4>1. d # 0 /\ d - 1 = n /\ g[n] = f[n]
        BY <1>1, <3>1
      <4> QED
        BY <3>1, <4>1
    <3>2. CASE d # n + 1
      <4>1. d \in 0..n /\ g[d] = f[d] /\ (d # 0 => g[d - 1] = f[d - 1])
        BY <1>1, <3>2
      <4>2. f[d] = IF d = 0 THEN a ELSE UnmaskedWithin(f[d - 1], patterns)
        BY <2>1, <4>1
      <4> QED
        BY <4>1, <4>2
    <3> QED
      BY <3>1, <3>2
  <2>3. g = [d \in 0..(n + 1) |-> g[d]]
    OBVIOUS
  <2> HIDE DEF g
  <2>4. g = To(g, n + 1)
    BY <2>2, <2>3
  <2> QED
    BY <1>1, <2>4
<1>6. \E f : f = To(f, MaxDepth)
  <2> HIDE DEF T
  <2>1. \A n \in 0..MaxDepth : n \in T
    BY <1>1, <1>4, <1>5, UpTo
  <2>2. MaxDepth \in T
    BY <1>1, <2>1
  <2> QED
    BY <2>2 DEF T
<1>7. at = To(at, MaxDepth)
  <2> HIDE DEF To
  <2> QED
    BY <1>6
<1> HIDE DEF at, To
<1>8. IsAt(at, value, stored, patterns)
  BY <1>3, <1>7 DEF IsAt, a
<1> QED
  BY <1>2, <1>8

\* What RedactArguments() returns is what is to be stored.
LEMMA StoredIsRight ==
  ASSUME PlainKeys, NEW patterns, PlainPatterns(patterns),
         NEW arguments \in Values, arguments.kind = "object"
  PROVE  IsStoredAs(arguments, RedactArguments(arguments, patterns), patterns)
<1> DEFINE stored == RedactArguments(arguments, patterns)
<1>1. PICK at : /\ IsAt(at, arguments, stored, patterns)
                /\ IsStoredAs(arguments, stored, patterns)
                     <=> \A d \in 0..MaxDepth : \A e \in at[d] : IsRight(e, patterns)
  BY StoredAsIs
<1>2. MaxDepth \in Nat
  BY DepthAssumption
<1> DEFINE T == {d \in 0..MaxDepth : \A e \in at[d] : IsRedacted(e, patterns)}
<1>3. 0 \in T
  <2> DEFINE e == [path |-> <<>>, value |-> arguments, stored |-> stored]
  <2>1. e.path = <<>> /\ e.value = arguments /\ e.stored = Redact(arguments, <<>>, patterns)
    BY DEF RedactArguments
  <2> HIDE DEF e
  <2>2. \E text, s : Joins(text, s, e.path) /\ e.stored = Redact(e.value, text, patterns)
    BY <2>1, NothingJoined
  <2>3. IsRedacted(e, patterns)
    BY <2>1, <2>2 DEF IsRedacted
  <2> QED
    BY <1>1, <1>2, <2>3 DEF IsAt, e
<1>4. ASSUME NEW d \in 0..(MaxDepth - 1), d \in T PROVE d + 1 \in T
  <2>1. d + 1 \in 1..MaxDepth /\ (d + 1) - 1 = d /\ d + 1 \in 0..MaxDepth
    BY <1>2
  <2>2. at[d + 1] = UnmaskedWithin(at[d], patterns)
    BY <1>1, <2>1 DEF IsAt
  <2>3. ASSUME NEW x \in at[d + 1] PROVE IsRedacted(x, patterns)
    <3>1. PICK e \in at[d] : ~IsSecret(e.path, patterns) /\ x \in Inside(e)
      BY <2>2 DEF UnmaskedWithin
    <3>2. IsRedacted(e, patterns)
      BY <1>4, <3>1
    <3> QED
      BY <3>1, <3>2, InsideIsRedacted
  <2> QED
    BY <2>1, <2>3
<1>5. \A d \in 0..MaxDepth : d \in T
  <2> HIDE DEF T
  <2> QED
    BY <1>2, <1>3, <1>4, UpTo
<1>6. \A d \in 0..MaxDepth : \A e \in at[d] : IsRight(e, patterns)
  BY <1>5, RedactedIsRight
<1> QED
  BY <1>1, <1>6

-----------------------------------------------------------------------------
(* The call *)

\* A decision stays what it was, or is taken by evaluate().
LEMMA CallSteps ==
  [CallNext]_callVars =>
    /\ [Evaluate]_documentVars
    /\ UNCHANGED <<document, request>>
<1> SUFFICES ASSUME [CallNext]_callVars
             PROVE  [Evaluate]_documentVars /\ UNCHANGED <<document, request>>
  OBVIOUS
<1>1. [Evaluate]_documentVars
  BY Zenon DEF CallNext, Decide, Park, Record, callVars
<1>2. UNCHANGED <<document, request>>
  BY <1>1, Zenon DEF Evaluate, Next, Scan, FallBack, documentVars, vars
<1> QED
  BY <1>1, <1>2

CallInv == DocumentInv /\ GovernedTypeOK

LEMMA CallInitial == CallInit => CallInv
<1> SUFFICES ASSUME CallInit PROVE CallInv
  OBVIOUS
<1>1. DocumentInv
  BY LoadedInv DEF CallInit
<1>2. parked = None /\ recorded = None /\ answered = FALSE
  BY DEF CallInit
<1> QED
  BY <1>1, <1>2, Zenon DEF CallInv, GovernedTypeOK, DocumentInv, IInv

\* The arguments are an object, and so is what is kept of them.
LEMMA RedactedArgumentsAreAnObject ==
  ASSUME DocumentInv, NEW patterns
  PROVE  /\ request.arguments \in Values /\ request.arguments.kind = "object"
         /\ RedactArguments(request.arguments, patterns).kind = "object"
<1>1. request.arguments \in Values /\ request.arguments.kind = "object"
  BY DEF DocumentInv, IInv, TypeOK, Request
<1>2. <<>> \in Text
  BY EmptySeq DEF Text
<1>3. ~IsMasked(<<>>, patterns)
  BY DEF IsMasked
<1>4. RedactArguments(request.arguments, patterns).kind = "object"
  BY <1>1, <1>2, <1>3, RedactUnfolds DEF RedactArguments
<1> QED
  BY <1>1, <1>4

LEMMA CallStep == CallInv /\ [CallNext]_callVars => CallInv'
<1> SUFFICES ASSUME CallInv, [CallNext]_callVars PROVE CallInv'
  OBVIOUS
<1>1. DocumentInv' /\ UNCHANGED <<document, request>> /\ [Evaluate]_documentVars
  BY CallSteps, EvaluatedInv DEF CallInv
<1>2. TypeOK'
  BY <1>1, Zenon DEF DocumentInv, IInv
<1>3. parked' \in {None, request.arguments}
  BY <1>1, Zenon DEF CallInv, GovernedTypeOK, CallNext, Decide, Park, Record, callVars
<1>4. recorded' # None => recorded'.kind = "object"
  <2>1. CASE Record
    <3>1. recorded' \in {RedactArguments(request.arguments, Get(AuditOf(document), "redact", <<>>)), None}
      BY <2>1, Zenon DEF Record
    <3> QED
      BY <3>1, RedactedArgumentsAreAnObject DEF CallInv
  <2>2. CASE UNCHANGED recorded
    BY <2>2 DEF CallInv, GovernedTypeOK
  <2> QED
    BY <2>1, <2>2, Zenon DEF CallNext, Decide, Park, callVars
<1>5. decision # None => decision' # None
  BY <1>1, Zenon DEF Evaluate, Next, Scan, FallBack, documentVars, vars
<1>6. answered' => decision' # None
  BY <1>5, Zenon DEF CallInv, GovernedTypeOK, CallNext, Decide, Park, Record, callVars
<1> QED
  BY <1>1, <1>2, <1>3, <1>4, <1>6 DEF CallInv, GovernedTypeOK

THEOREM CallInductive == CallSpec => []CallInv
BY CallInitial, CallStep, PTL DEF CallSpec

\* Whatever the document and the call, the approval queue has the arguments of
\* the call or nothing, the audit log an object or nothing, and only a call that
\* is decided is answered (call_tool, _require_approval, _record).
THEOREM GovernedCallsAreTyped == CallSpec => []GovernedTypeOK
<1>1. CallInv => GovernedTypeOK
  BY DEF CallInv
<1> QED
  BY <1>1, CallInductive, PTL

\* Nor does what is done with a decision change it: it is the first rule's, the
\* document's, and saying less would not have widened it (call_tool).
THEOREM GovernedCallsAreJudged ==
  CallSpec => [](FirstRuleDecides /\ DocumentDecides /\ SilenceNeverWidens)
<1>1. CallInv => FirstRuleDecides /\ DocumentDecides /\ SilenceNeverWidens
  <2> SUFFICES ASSUME CallInv PROVE FirstRuleDecides /\ DocumentDecides /\ SilenceNeverWidens
    OBVIOUS
  <2>1. IInv /\ DocumentInv
    BY DEF CallInv, DocumentInv
  <2> QED
    BY <2>1, SilenceIsSafe, DecidedAsStated DEF IInv
<1> QED
  BY <1>1, CallInductive, PTL

(***************************************************************************)
(* Whatever the patterns and however the arguments nest, the audit log has *)
(* "[redacted]" for just what a pattern covers, level by level, and all    *)
(* else as it came: joining the keys with "/", the pattern's dots turned   *)
(* into "/" and the glob compiled for it tell the same levels apart        *)
(* (redact_arguments).  Keys and patterns are plain, for others mean       *)
(* something else to the code than to the documentation.                   *)
(***************************************************************************)
THEOREM OnlySecretsAreMasked ==
  ASSUME PlainKeys, PlainDocuments PROVE CallSpec => []RedactionIsExact
<1>1. CallInit => RedactionIsExact
  BY DEF CallInit, RedactionIsExact
<1>2. CallInv /\ RedactionIsExact /\ [CallNext]_callVars => RedactionIsExact'
  <2> SUFFICES ASSUME CallInv, RedactionIsExact, [CallNext]_callVars PROVE RedactionIsExact'
    OBVIOUS
  <2>1. UNCHANGED <<document, request>>
    BY CallSteps
  <2>2. Patterns' = Patterns
    BY <2>1 DEF Patterns
  <2>3. CASE Record
    <3>1. decision # None /\ recorded' \in {RedactArguments(request.arguments, Patterns), None}
      BY <2>3, Zenon DEF Record, Patterns
    <3>2. PlainPatterns(Patterns)
      BY <3>1 DEF CallInv, DocumentInv, PlainDocuments, Patterns
    <3>3. IsStoredAs(request.arguments, RedactArguments(request.arguments, Patterns), Patterns)
      BY <3>2, RedactedArgumentsAreAnObject, StoredIsRight DEF CallInv
    <3> QED
      BY <2>1, <2>2, <3>1, <3>3 DEF RedactionIsExact
  <2>4. CASE UNCHANGED recorded
    BY <2>1, <2>2, <2>4 DEF RedactionIsExact
  <2> QED
    BY <2>3, <2>4, Zenon DEF CallNext, Decide, Park, callVars
<1> QED
  BY <1>1, <1>2, CallInductive, PTL DEF CallSpec
=============================================================================

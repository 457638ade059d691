-------------------------- MODULE PolicyEngineProofs --------------------------
(***************************************************************************)
(* Proofs about PolicyEngine and PolicyDocument.                           *)
(***************************************************************************)
EXTENDS PolicyDocument, GlobProofs

IInv == TypeOK /\ FirstRuleDecides

\* A policy's rules are a sequence of rules and it has a default.
LEMMA PolicyParts ==
  ASSUME NEW p \in Policy
  PROVE  /\ Len(p.rules) \in Nat
         /\ \A k \in 1..Len(p.rules) : p.rules[k].action \in Action
         /\ p.default \in Action
<1>1. p \in [rules : Seq(Rule), default : Action]
  BY DEF Policy
<1>2. p.rules \in Seq(Rule) /\ p.default \in Action
  BY <1>1
<1>3. Len(p.rules) \in Nat /\ \A k \in 1..Len(p.rules) : p.rules[k] \in Rule
  BY <1>2
<1>4. \A r \in Rule : r.action \in Action
  BY DEF Rule
<1> QED
  BY <1>2, <1>3, <1>4

\* One look at a rule: it decides, or the scan moves past it.
LEMMA ScanStep ==
  ASSUME IInv, decision = None, Scan, UNCHANGED <<policy, request>>
  PROVE  IInv'
<1> DEFINE p == policy
<1>1. /\ Len(p.rules) \in Nat /\ index \in 1..Len(p.rules)
      /\ p.rules[index].action \in Action
  BY PolicyParts DEF IInv, TypeOK, Scan
<1>2. CASE /\ RuleMatches(p.rules[index], request)
           /\ decision' = [action |-> p.rules[index].action, rule_index |-> index]
           /\ UNCHANGED index
  <2>1. TypeOK'
    BY <1>1, <1>2 DEF IInv, TypeOK, Decision
  <2>2. \A k \in 1..(index - 1) : ~RuleMatches(p.rules[k], request)
    BY DEF IInv, FirstRuleDecides
  <2>3. RuleMatches(policy.rules[index], request)' <=> RuleMatches(policy.rules[index], request)
    BY <1>2 DEF RuleMatches
  <2>4. \A k : RuleMatches(policy.rules[k], request)' <=> RuleMatches(policy.rules[k], request)
    BY DEF RuleMatches
  <2>5. FirstRuleDecides'
    BY <1>1, <1>2, <2>2, <2>3, <2>4 DEF FirstRuleDecides
  <2> QED
    BY <2>1, <2>5 DEF IInv
<1>3. CASE /\ ~RuleMatches(p.rules[index], request)
           /\ index' = index + 1
           /\ UNCHANGED decision
  <2>1. TypeOK'
    BY <1>1, <1>3 DEF IInv, TypeOK
  <2>2. \A k \in 1..(index' - 1) : ~RuleMatches(p.rules[k], request)
    BY <1>1, <1>3 DEF IInv, FirstRuleDecides
  <2>3. \A k : RuleMatches(policy.rules[k], request)' <=> RuleMatches(policy.rules[k], request)
    BY DEF RuleMatches
  <2>4. FirstRuleDecides'
    BY <1>3, <2>2, <2>3 DEF FirstRuleDecides
  <2> QED
    BY <2>1, <2>4 DEF IInv
<1> QED
  BY <1>2, <1>3 DEF Scan

\* The default is taken only past the last rule.
LEMMA FallBackStep ==
  ASSUME IInv, FallBack, UNCHANGED <<policy, request>>
  PROVE  IInv'
<1>1. policy.default \in Action
  BY PolicyParts DEF IInv, TypeOK
<1>2. TypeOK'
  BY <1>1 DEF IInv, TypeOK, FallBack, Decision
<1>3. \A k : RuleMatches(policy.rules[k], request)' <=> RuleMatches(policy.rules[k], request)
  BY DEF RuleMatches
<1>4. FirstRuleDecides'
  BY <1>3 DEF IInv, FirstRuleDecides, FallBack
<1> QED
  BY <1>2, <1>4 DEF IInv

LEMMA InvariantStep == IInv /\ [Next]_vars => IInv'
<1> SUFFICES ASSUME IInv, [Next]_vars PROVE IInv'
  OBVIOUS
<1>1. CASE Next
  BY <1>1, ScanStep, FallBackStep DEF Next
<1>2. CASE UNCHANGED vars
  BY <1>2 DEF vars, IInv, TypeOK, FirstRuleDecides, RuleMatches
<1> QED
  BY <1>1, <1>2

\* The invariant of evaluate(): types, and no match before the rule it looks at.
THEOREM Inductive == Spec => []IInv
<1>1. Init => IInv
  <2> SUFFICES ASSUME Init PROVE IInv
    OBVIOUS
  <2>1. Len(policy.rules) \in Nat
    BY PolicyParts DEF Init
  <2> QED
    BY <2>1 DEF Init, IInv, TypeOK, FirstRuleDecides
<1> QED
  BY <1>1, InvariantStep, PTL DEF Spec

\* evaluate() returns the action of the first rule that matches, and the
\* default if none does, for any policy and any call (evaluate).
THEOREM FirstRuleWins == Spec => []FirstRuleDecides
<1>1. IInv => FirstRuleDecides
  BY DEF IInv
<1> QED
  BY <1>1, Inductive, PTL

-----------------------------------------------------------------------------
(* Resolving arguments *)

\* One segment of a path: the field it names, or null.
StepInto(value, segment) ==
  IF value.kind = "object" /\ segment \in DOMAIN value.fields
  THEN value.fields[segment] ELSE Null

\* What following the first segments of a path comes to.
Follows(f, n, arguments, path) ==
  /\ f = [k \in 0..n |-> f[k]]
  /\ f[0] = arguments
  /\ \A k \in 1..n : f[k] = StepInto(f[k - 1], path[k])

\* Every path can be followed, to null if nowhere else.
LEMMA EveryPathIsFollowed ==
  ASSUME NEW arguments, NEW path, NEW n \in Nat
  PROVE  \E f : Follows(f, n, arguments, path)
<1> DEFINE Leads(m) == \E f : Follows(f, m, arguments, path)
           Stuck == {m \in Nat : ~Leads(m)}
<1>1. SUFFICES ASSUME Stuck # {} PROVE FALSE
  OBVIOUS
<1>2. PICK m \in Stuck : \A y \in Stuck : m <= y
  <2>1. Stuck \subseteq Nat
    OBVIOUS
  <2> HIDE DEF Stuck
  <2> QED
    BY <1>1, <2>1, LeastElement
<1>3. m # 0
  <2> DEFINE f == [k \in 0..0 |-> arguments]
  <2>1. Follows(f, 0, arguments, path)
    BY DEF Follows
  <2> QED
    BY <2>1
<1>4. m - 1 \in Nat /\ m - 1 \notin Stuck
  BY <1>2, <1>3
<1>5. PICK f : Follows(f, m - 1, arguments, path)
  BY <1>4
<1> DEFINE g == [k \in 0..m |-> IF k = m THEN StepInto(f[m - 1], path[m]) ELSE f[k]]
<1>6. g[0] = arguments /\ g = [k \in 0..m |-> g[k]]
  BY <1>3, <1>5 DEF Follows
<1>7. ASSUME NEW k \in 1..m PROVE g[k] = StepInto(g[k - 1], path[k])
  <2>1. g[k - 1] = f[k - 1]
    BY <1>4
  <2>2. CASE k = m
    BY <2>1, <2>2
  <2>3. CASE k # m
    <3>1. k \in 1..(m - 1) /\ g[k] = f[k]
      BY <2>3
    <3>2. f[k] = StepInto(f[k - 1], path[k])
      BY <1>5, <3>1 DEF Follows
    <3> QED
      BY <2>1, <3>1, <3>2
  <2> QED
    BY <2>2, <2>3
<1> HIDE DEF g
<1>8. Follows(g, m, arguments, path)
  BY <1>6, <1>7 DEF Follows
<1> QED
  BY <1>2, <1>8

\* _resolve_argument() follows the whole path.
LEMMA Resolves ==
  ASSUME NEW arguments, NEW path, Len(path) \in Nat
  PROVE  \E f : /\ Follows(f, Len(path), arguments, path)
                /\ ResolveArgument(arguments, path) = f[Len(path)]
<1> DEFINE n == Len(path)
           Body(f) == [k \in 0..n |->
                         IF k = 0 THEN arguments
                         ELSE IF f[k - 1].kind = "object" /\ path[k] \in DOMAIN f[k - 1].fields
                              THEN f[k - 1].fields[path[k]]
                              ELSE Null]
           current == CHOOSE f : f = Body(f)
<1>1. PICK f : Follows(f, n, arguments, path)
  BY EveryPathIsFollowed
<1>2. f = Body(f)
  <2>1. \A k \in 0..n : f[k] = Body(f)[k]
    BY <1>1 DEF Follows, StepInto
  <2>2. f = [k \in 0..n |-> f[k]]
    BY <1>1 DEF Follows
  <2> QED
    BY <2>1, <2>2
<1>3. current = Body(current)
  <2> HIDE DEF Body
  <2> QED
    BY <1>2
<1>4. ResolveArgument(arguments, path) = current[n]
  BY DEF ResolveArgument
<1>5. Follows(current, n, arguments, path)
  <2> HIDE DEF current
  <2>1. current[0] = arguments
    BY <1>3
  <2>2. \A k \in 1..n : current[k] = StepInto(current[k - 1], path[k])
    BY <1>3 DEF StepInto
  <2>3. current = [k \in 0..n |-> current[k]]
    BY <1>3
  <2> QED
    BY <2>1, <2>2, <2>3 DEF Follows
<1> QED
  BY <1>4, <1>5

\* The arguments of a call with one fewer.
Without(arguments, gone) ==
  [kind |-> "object",
   fields |-> [k \in DOMAIN arguments.fields \ {gone} |-> arguments.fields[k]]]

\* Without an argument, a path resolves to what it did or to null.
LEMMA ResolvesLess ==
  ASSUME NEW arguments, NEW gone, NEW path,
         arguments = [kind |-> "object", fields |-> arguments.fields],
         Len(path) \in Nat \ {0}
  PROVE  ResolveArgument(Without(arguments, gone), path) \in {ResolveArgument(arguments, path), Null}
<1> DEFINE n == Len(path)
           less == Without(arguments, gone)
<1>1. PICK f : Follows(f, n, arguments, path) /\ ResolveArgument(arguments, path) = f[n]
  BY Resolves
<1>2. PICK g : Follows(g, n, less, path) /\ ResolveArgument(less, path) = g[n]
  BY Resolves
<1> DEFINE Wrong == {k \in 1..n : g[k] # f[k] /\ g[k] # Null}
<1>3. Wrong = {}
  <2> SUFFICES ASSUME Wrong # {} PROVE FALSE
    OBVIOUS
  <2>1. PICK k \in Wrong : \A j \in Wrong : k <= j
    <3>1. Wrong \subseteq Nat
      OBVIOUS
    <3> HIDE DEF Wrong
    <3> QED
      BY <3>1, LeastElement
  <2>2. /\ f[k] = StepInto(f[k - 1], path[k])
        /\ g[k] = StepInto(g[k - 1], path[k])
    BY <1>1, <1>2 DEF Follows
  <2>3. CASE k = 1
    <3>1. f[0] = arguments /\ g[0] = less
      BY <1>1, <1>2 DEF Follows
    <3>2. g[1] = Null \/ g[1] = f[1]
      BY <2>2, <2>3, <3>1 DEF StepInto, Without
    <3> QED
      BY <2>3, <3>2
  <2>4. CASE k # 1
    <3>1. k - 1 \in 1..n /\ k - 1 \notin Wrong
      BY <2>1, <2>4
    <3>2. CASE g[k - 1] = f[k - 1]
      BY <2>2, <3>2
    <3>3. CASE g[k - 1] = Null
      <4>1. g[k] = Null
        BY <2>2, <3>3 DEF StepInto, Null
      <4> QED
        BY <4>1
    <3> QED
      BY <3>1, <3>2, <3>3
  <2> QED
    BY <2>3, <2>4
<1> QED
  BY <1>1, <1>2, <1>3

-----------------------------------------------------------------------------
(* Saying less *)

LEMMA QuieterArguments ==
  ASSUME NEW arguments, NEW gone, NEW a \in ArgumentCondition,
         arguments = [kind |-> "object", fields |-> arguments.fields],
         ArgumentMatches(Without(arguments, gone), a)
  PROVE  ArgumentMatches(arguments, a)
<1> DEFINE value == ResolveArgument(Without(arguments, gone), a.path)
<1>1. Len(a.path) \in Nat
  BY DEF ArgumentCondition
<1>2. value.kind # "null" /\ IsScalar(value)
  BY DEF ArgumentMatches
<1>3. Len(a.path) # 0
  <2> SUFFICES ASSUME Len(a.path) = 0 PROVE FALSE
    OBVIOUS
  <2>1. PICK f : Follows(f, Len(a.path), Without(arguments, gone), a.path) /\ value = f[Len(a.path)]
    BY <1>1, Resolves
  <2>2. value = Without(arguments, gone)
    BY <2>1 DEF Follows
  <2> QED
    BY <1>2, <2>2 DEF IsScalar, Without
<1>4. value # Null
  BY <1>2 DEF Null
<1>5. value = ResolveArgument(arguments, a.path)
  BY <1>1, <1>3, <1>4, ResolvesLess
<1> QED
  BY <1>5 DEF ArgumentMatches

\* A rule that matches the quieter call matches the call.
LEMMA QuieterMatchesLess ==
  ASSUME NEW rule \in Rule, NEW req \in Request, NEW quiet \in Quieter(req),
         RuleMatches(rule, quiet)
  PROVE  RuleMatches(rule, req)
<1>1. /\ req = [tool |-> req.tool, upstream |-> req.upstream, annotations |-> req.annotations,
                arguments |-> req.arguments]
      /\ req.annotations \in AnnotationView
      /\ req.arguments = [kind |-> "object", fields |-> req.arguments.fields]
  BY ValuesAssumption DEF Request
<1>2. rule.condition \in RuleCondition /\ rule.condition.arguments \subseteq ArgumentCondition
  BY DEF Rule, RuleCondition
<1>3. CASE \E h \in Hint : quiet = [req EXCEPT !.annotations[h] = None]
  <2>1. PICK h \in Hint : quiet = [req EXCEPT !.annotations[h] = None]
    BY <1>3
  <2>2. quiet = [tool |-> req.tool, upstream |-> req.upstream,
                 annotations |-> [req.annotations EXCEPT ![h] = None],
                 arguments |-> req.arguments]
    BY <1>1, <2>1
  <2>3. /\ quiet.tool = req.tool /\ quiet.upstream = req.upstream
        /\ quiet.arguments = req.arguments
        /\ quiet.annotations = [req.annotations EXCEPT ![h] = None]
    BY <2>2
  <2>4. AnnotationsMatch(quiet.annotations, rule.condition)
    BY DEF RuleMatches
  <2>5. AnnotationsMatch(req.annotations, rule.condition)
    BY <1>1, <2>3, <2>4 DEF AnnotationsMatch, AnnotationView
  <2> QED
    BY <2>3, <2>5 DEF RuleMatches
<1>4. CASE \E gone \in DOMAIN req.arguments.fields :
             quiet = [req EXCEPT !.arguments.fields =
                        [k \in DOMAIN req.arguments.fields \ {gone} |-> req.arguments.fields[k]]]
  <2>1. PICK gone \in DOMAIN req.arguments.fields :
             quiet = [req EXCEPT !.arguments.fields =
                        [k \in DOMAIN req.arguments.fields \ {gone} |-> req.arguments.fields[k]]]
    BY <1>4
  <2> DEFINE left == [k \in DOMAIN req.arguments.fields \ {gone} |-> req.arguments.fields[k]]
  <2>2. quiet = [tool |-> req.tool, upstream |-> req.upstream, annotations |-> req.annotations,
                 arguments |-> [req.arguments EXCEPT !.fields = left]]
    <3> HIDE DEF left
    <3>1. quiet = [req EXCEPT !.arguments.fields = left]
      BY <2>1 DEF left
    <3> QED
      BY <1>1, <3>1
  <2>3. [req.arguments EXCEPT !.fields = left] = Without(req.arguments, gone)
    <3>1. Without(req.arguments, gone) = [kind |-> "object", fields |-> left]
      BY DEF Without
    <3> HIDE DEF left
    <3> QED
      BY <1>1, <3>1
  <2> HIDE DEF left
  <2>4. /\ quiet.tool = req.tool /\ quiet.upstream = req.upstream
        /\ quiet.annotations = req.annotations
        /\ quiet.arguments = Without(req.arguments, gone)
    BY <2>2, <2>3
  <2>5. \A a \in rule.condition.arguments : ArgumentMatches(Without(req.arguments, gone), a)
    BY <2>4 DEF RuleMatches
  <2>6. \A a \in rule.condition.arguments : ArgumentMatches(req.arguments, a)
    BY <1>1, <1>2, <2>5, QuieterArguments
  <2> QED
    BY <2>4, <2>6 DEF RuleMatches
<1> QED
  BY <1>3, <1>4 DEF Quieter

LEMMA SilenceIsSafe == IInv => SilenceNeverWidens
<1> SUFFICES ASSUME IInv, decision # None, NEW k \in DOMAIN policy.rules, NEW req \in Quieter(request),
                    decision.rule_index = None \/ k < decision.rule_index,
                    RuleMatches(policy.rules[k], req)
             PROVE  FALSE
  BY DEF SilenceNeverWidens
<1>1. policy.rules \in Seq(Rule) /\ request \in Request
  BY DEF IInv, TypeOK, Policy
<1>2. policy.rules[k] \in Rule /\ k \in 1..Len(policy.rules) /\ index \in Nat
  BY <1>1 DEF IInv, TypeOK
<1>3. RuleMatches(policy.rules[k], request)
  BY <1>1, <1>2, QuieterMatchesLess
<1>4. k < index
  BY <1>2, NoneAssumption DEF IInv, FirstRuleDecides
<1> QED
  BY <1>2, <1>3, <1>4 DEF IInv, FirstRuleDecides

\* Saying less, a hint or an argument, never brings a call under a rule that
\* comes before the one that decides it (_annotations_match,
\* _argument_matches).
THEOREM SayingLessIsSafe == Spec => []SilenceNeverWidens
BY SilenceIsSafe, Inductive, PTL

-----------------------------------------------------------------------------
(* What is in an argument object *)

Found == [path : Seq(Text), value : Values]

LEMMA BelowIsFound ==
  ASSUME NEW found \in SUBSET Found
  PROVE  Below(found) \in SUBSET Found
<1>1. SUFFICES ASSUME NEW x \in found, x.value.kind = "object", NEW key \in DOMAIN x.value.fields
               PROVE  [path |-> Append(x.path, key), value |-> x.value.fields[key]] \in Found
  BY DEF Below
<1>2. x.path \in Seq(Text) /\ x.value \in Values
  BY DEF Found
<1>3. key \in Text /\ x.value.fields[key] \in Values
  BY <1>1, <1>2, ValuesAssumption
<1>4. Append(x.path, key) \in Seq(Text)
  <2> HIDE DEF Text
  <2> QED
    BY <1>2, <1>3, AppendProperties
<1> QED
  BY <1>3, <1>4 DEF Found

\* within[d] of Within().
IsWithin(f, object, n) ==
  /\ f \in [0..n -> SUBSET Found]
  /\ f[0] = {[path |-> <<>>, value |-> object]}
  /\ \A d \in 1..n : f[d] = Below(f[d - 1])

LEMMA WithinIs ==
  ASSUME NEW object \in Values, NEW n \in Nat
  PROVE  \E f : IsWithin(f, object, n) /\ Within(object, n) = f[n]
<1> DEFINE Whole == {[path |-> <<>>, value |-> object]}
           V == SUBSET Found
           F == [d \in Nat |-> [S \in V |-> Below(S)]]
           Body(f) == [d \in 0..n |-> IF d = 0 THEN Whole ELSE Below(f[d - 1])]
           within == CHOOSE f : f = Body(f)
<1>1. F \in [Nat -> [V -> V]]
  <2>1. \A d \in Nat, S \in V : F[d][S] \in V
    BY BelowIsFound
  <2> QED
    BY <2>1
<1>2. Whole \in V
  <2>1. <<>> \in Seq(Text)
    BY EmptySeq
  <2> QED
    BY <2>1 DEF Found
<1>3. \E f : IsWithin(f, object, n)
  <2>1. PICK f \in [0..n -> V] : Repetition(f, n, Whole, F)
    <3> HIDE DEF F, V, Whole
    <3> QED
      BY <1>1, <1>2, Repeats
  <2>2. ASSUME NEW d \in 1..n PROVE f[d] = Below(f[d - 1])
    <3>1. d \in Nat /\ f[d - 1] \in V
      OBVIOUS
    <3> QED
      BY <2>1, <3>1 DEF Repetition
  <2> QED
    BY <2>1, <2>2 DEF IsWithin, Repetition
<1>4. PICK f : IsWithin(f, object, n)
  BY <1>3
<1>5. f = Body(f)
  <2>1. \A d \in 0..n : f[d] = Body(f)[d]
    BY <1>4 DEF IsWithin
  <2> QED
    BY <1>4, <2>1 DEF IsWithin
<1>6. within = Body(within)
  <2> HIDE DEF Body
  <2> QED
    BY <1>5
<1>7. Within(object, n) = within[n]
  BY DEF Within
<1>8. \A h : /\ DOMAIN Body(h) = 0..n
             /\ Body(h)[0] = Whole
             /\ \A d \in 1..n : Body(h)[d] = Below(h[d - 1])
  OBVIOUS
<1>9. \A h : (\A d \in 0..n : Body(h)[d] \in V) => Body(h) \in [0..n -> V]
  OBVIOUS
<1>10. IsWithin(within, object, n)
  <2> HIDE DEF within, Body
  <2>1. within[0] = Whole /\ \A d \in 1..n : within[d] = Below(within[d - 1])
    BY <1>6, <1>8
  <2>2. \A d \in 0..n : within[d] \in V
    <3> DEFINE T == {d \in 0..n : within[d] \in V}
    <3>1. 0 \in T
      BY <1>2, <2>1
    <3>2. ASSUME NEW d \in 0..(n - 1), d \in T PROVE d + 1 \in T
      <4>1. d + 1 \in 1..n /\ (d + 1) - 1 = d
        OBVIOUS
      <4>2. within[d + 1] = Below(within[d])
        BY <2>1, <4>1
      <4> QED
        BY <3>2, <4>2, BelowIsFound
    <3> HIDE DEF T
    <3>3. \A d \in 0..n : d \in T
      BY <3>1, <3>2, UpTo
    <3> QED
      BY <3>3 DEF T
  <2>3. within \in [0..n -> V]
    BY <1>6, <1>9, <2>2
  <2> QED
    BY <2>1, <2>3 DEF IsWithin
<1> QED
  BY <1>7, <1>10

\* Whether a path begins with these segments.
BeginsWith(path, prefix, d) == Len(prefix) = d /\ \A k \in 1..d : prefix[k] = path[k]

\* A segment more, of the segments and of the path.
GoesOn(path, prefix, key, d) ==
  /\ Len(Append(prefix, key)) = d + 1 <=> Len(prefix) = d
  /\ BeginsWith(path, Append(prefix, key), d + 1)
       <=> BeginsWith(path, prefix, d) /\ key = path[d + 1]

LEMMA BeginsWithAppend ==
  ASSUME NEW path, NEW S, NEW prefix \in Seq(S), NEW key \in S, NEW d \in Nat
  PROVE  GoesOn(path, prefix, key, d)
<1> DEFINE longer == Append(prefix, key)
<1>1. /\ Len(longer) = Len(prefix) + 1 /\ Len(prefix) \in Nat
      /\ \A k \in 1..Len(prefix) : longer[k] = prefix[k]
      /\ longer[Len(prefix) + 1] = key
  BY AppendProperties, LenProperties
<1> HIDE DEF longer
<1>2. Len(longer) = d + 1 <=> Len(prefix) = d
  BY <1>1
<1>3. ASSUME Len(prefix) = d
      PROVE  (\A k \in 1..(d + 1) : longer[k] = path[k])
               <=> (\A k \in 1..d : prefix[k] = path[k]) /\ key = path[d + 1]
  <2>1. 1..(d + 1) = (1..d) \cup {d + 1}
    OBVIOUS
  <2>2. (\A k \in 1..(d + 1) : longer[k] = path[k])
          <=> (\A k \in 1..d : longer[k] = path[k]) /\ longer[d + 1] = path[d + 1]
    BY <2>1
  <2> QED
    BY <1>1, <1>3, <2>2
<1> QED
  BY <1>2, <1>3 DEF BeginsWith, GoesOn, longer

\* What the first d segments lead to is the one thing found at depth d along the
\* path, if it is anything.
Finds(found, reached, path, d) ==
  /\ \A e \in found : Len(e.path) = d /\ (BeginsWith(path, e.path, d) => e.value = reached)
  /\ reached.kind # "null" => \E e \in found : BeginsWith(path, e.path, d)

LEMMA FindsBelow ==
  ASSUME NEW found \in SUBSET Found, NEW reached, NEW path, NEW d \in Nat,
         Finds(found, reached, path, d)
  PROVE  Finds(Below(found), StepInto(reached, path[d + 1]), path, d + 1)
<1> DEFINE next == StepInto(reached, path[d + 1])
<1>1. ASSUME NEW e \in Below(found)
      PROVE  Len(e.path) = d + 1 /\ (BeginsWith(path, e.path, d + 1) => e.value = next)
  <2>0. PICK x \in found :
          /\ x.value.kind = "object"
          /\ \E key \in DOMAIN x.value.fields :
               e = [path |-> Append(x.path, key), value |-> x.value.fields[key]]
    BY <1>1 DEF Below
  <2>1. PICK key \in DOMAIN x.value.fields :
          e = [path |-> Append(x.path, key), value |-> x.value.fields[key]]
    BY <2>0
  <2>2. x.path \in Seq(Text) /\ x.value \in Values /\ key \in Text
    BY <2>0, ValuesAssumption DEF Found
  <2>3. e.path = Append(x.path, key) /\ e.value = x.value.fields[key]
    BY <2>1
  <2>4. /\ Len(e.path) = d + 1 <=> Len(x.path) = d
        /\ BeginsWith(path, e.path, d + 1) <=> BeginsWith(path, x.path, d) /\ key = path[d + 1]
    <3>1. GoesOn(path, x.path, key, d)
      BY <2>2, BeginsWithAppend
    <3> QED
      BY <2>3, <3>1, Zenon DEF GoesOn
  <2>5. Len(x.path) = d /\ (BeginsWith(path, x.path, d) => x.value = reached)
    BY DEF Finds
  <2>6. ASSUME BeginsWith(path, x.path, d), key = path[d + 1] PROVE e.value = next
    BY <2>0, <2>3, <2>5, <2>6 DEF StepInto
  <2> QED
    BY <2>4, <2>5, <2>6
<1>2. ASSUME next.kind # "null" PROVE \E e \in Below(found) : BeginsWith(path, e.path, d + 1)
  <2>1. reached.kind = "object" /\ path[d + 1] \in DOMAIN reached.fields
    BY <1>2 DEF StepInto, Null
  <2>2. PICK x \in found : BeginsWith(path, x.path, d)
    BY <2>1 DEF Finds
  <2>3. x.value = reached
    BY <2>2 DEF Finds
  <2> DEFINE e == [path |-> Append(x.path, path[d + 1]), value |-> x.value.fields[path[d + 1]]]
  <2>4. e \in Below(found)
    <3>1. x.value.kind = "object" /\ path[d + 1] \in DOMAIN x.value.fields
      BY <2>1, <2>3
    <3>2. x \in {y \in found : y.value.kind = "object"}
      BY <3>1
    <3>3. e \in {[path |-> Append(x.path, key), value |-> x.value.fields[key]] :
                  key \in DOMAIN x.value.fields}
      BY <3>1
    <3> QED
      BY <3>2, <3>3, Zenon DEF Below
  <2>5. x.path \in Seq(Text) /\ path[d + 1] \in Text
    BY <2>1, <2>3, ValuesAssumption DEF Found
  <2>6. BeginsWith(path, e.path, d + 1)
    <3>1. GoesOn(path, x.path, path[d + 1], d)
      BY <2>5, BeginsWithAppend
    <3> QED
      BY <2>2, <3>1 DEF GoesOn
  <2> QED
    BY <2>4, <2>6
<1> QED
  BY <1>1, <1>2 DEF Finds

\* What a path resolves to is the value found there, and a path to nothing
\* resolves to null.
LEMMA ResolvesToWhatIsThere ==
  ASSUME NEW object \in Values, NEW path \in Seq(Text)
  PROVE  /\ \A e \in Within(object, Len(path)) : e.path = path => e.value = ResolveArgument(object, path)
         /\ ResolveArgument(object, path).kind # "null" =>
              \E e \in Within(object, Len(path)) : e.path = path
         /\ Within(object, Len(path)) \subseteq Found
<1> DEFINE n == Len(path)
<1>0. n \in Nat
  BY LenProperties
<1>1. PICK f : Follows(f, n, object, path) /\ ResolveArgument(object, path) = f[n]
  BY <1>0, Resolves
<1>2. PICK w : IsWithin(w, object, n) /\ Within(object, n) = w[n]
  BY <1>0, WithinIs
<1> HIDE DEF n
<1> DEFINE T == {d \in 0..n : Finds(w[d], f[d], path, d)}
<1>3. 0 \in T
  <2>1. w[0] = {[path |-> <<>>, value |-> object]} /\ f[0] = object
    BY <1>1, <1>2 DEF IsWithin, Follows
  <2>2. Len(<<>>) = 0
    BY EmptySeq
  <2>3. BeginsWith(path, <<>>, 0)
    BY <2>2 DEF BeginsWith
  <2>4. \A e \in w[0] : e.path = <<>> /\ e.value = object
    BY <2>1
  <2>5. \E e \in w[0] : e.path = <<>>
    BY <2>1
  <2> QED
    BY <1>0, <2>1, <2>2, <2>3, <2>4, <2>5 DEF Finds
<1>4. ASSUME NEW d \in 0..(n - 1), d \in T PROVE d + 1 \in T
  <2>1. d + 1 \in 1..n /\ (d + 1) - 1 = d /\ d \in 0..n /\ d \in Nat
    BY <1>0
  <2>2. w[d + 1] = Below(w[d]) /\ f[d + 1] = StepInto(f[d], path[d + 1]) /\ w[d] \in SUBSET Found
    BY <1>1, <1>2, <2>1 DEF IsWithin, Follows
  <2>3. Finds(w[d + 1], f[d + 1], path, d + 1)
    BY <1>4, <2>1, <2>2, FindsBelow
  <2> QED
    BY <1>0, <2>3
<1>5. Finds(w[n], f[n], path, n) /\ w[n] \subseteq Found
  <2> HIDE DEF T
  <2>1. \A d \in 0..n : d \in T
    BY <1>0, <1>3, <1>4, UpTo
  <2>2. n \in T
    BY <1>0, <2>1
  <2> QED
    BY <1>0, <1>2, <2>2 DEF T, IsWithin
<1>6. ASSUME NEW e \in w[n] PROVE BeginsWith(path, e.path, n) <=> e.path = path
  <2>1. e.path \in Seq(Text) /\ Len(e.path) = n
    BY <1>5 DEF Found, Finds
  <2>2. ASSUME BeginsWith(path, e.path, n) PROVE e.path = path
    BY <2>1, <2>2, SeqEqual DEF BeginsWith, n
  <2> QED
    BY <2>1, <2>2 DEF BeginsWith
<1>7. ResolveArgument(object, path) = f[n] /\ Within(object, Len(path)) = w[n]
  BY <1>1, <1>2 DEF n
<1> QED
  BY <1>5, <1>6, <1>7 DEF Finds

-----------------------------------------------------------------------------
(* Statements of a document *)

LEMMA CharactersAreNoClass == Character \cap Class = {}
BY DEF Character

LEMMA CanonicalHasLength ==
  ASSUME NEW v \in Values, v.kind \in {"string", "number", "boolean"}
  PROVE  Len(CanonicalValue(v)) \in Nat
<1>1. CASE v.kind = "boolean"
  <2>1. CanonicalValue(v) \in {<<"t", "r", "u", "e">>, <<"f", "a", "l", "s", "e">>}
    BY <1>1, Zenon DEF CanonicalValue
  <2> QED
    BY <2>1
<1>2. CASE v.kind \in {"string", "number"}
  <2>1. CanonicalValue(v) = v.text
    BY <1>2 DEF CanonicalValue
  <2>2. v.text \in Text
    BY <1>2, ValuesAssumption
  <2> QED
    BY <2>1, <2>2, LenProperties DEF Text
<1> QED
  BY <1>1, <1>2

\* An argument that a document asks for is there and covered exactly if the
\* condition it becomes matches.
LEMMA ArgumentAsStated ==
  ASSUME request.arguments \in Values, NEW path \in Seq(Text), NEW glob \in Text
  PROVE  HasArgument(path, glob)
           <=> ArgumentMatches(request.arguments, [path |-> path, pattern |-> glob])
<1> DEFINE here == Within(request.arguments, Len(path))
           value == ResolveArgument(request.arguments, path)
           Plain(v) == v.kind \in {"string", "number", "boolean"}
           Fits(v) == MatchPath(glob, CanonicalValue(v))
<1>1. /\ \A e \in here : e.path = path => e.value = value
      /\ value.kind # "null" => \E e \in here : e.path = path
      /\ here \subseteq Found
  BY ResolvesToWhatIsThere
<1>2. ASSUME NEW v \in Values, Plain(v)
      PROVE  Matches(glob, CanonicalValue(v), TRUE) <=> Fits(v)
  <2>1. Len(CanonicalValue(v)) \in Nat
    BY <1>2, CanonicalHasLength
  <2>2. glob \in Seq(Character)
    BY DEF Text
  <2> HIDE DEF Text
  <2> QED
    BY <2>1, <2>2, CharactersAreNoClass, GlobsAreAsDocumented
<1>3. HasArgument(path, glob) <=> \E e \in here : e.path = path /\ Plain(e.value) /\ Fits(e.value)
  <2>1. \A e \in here : e.value \in Values
    BY <1>1 DEF Found
  <2> HIDE DEF here, Fits
  <2> QED
    BY <1>2, <2>1 DEF HasArgument, here
<1>4. ArgumentMatches(request.arguments, [path |-> path, pattern |-> glob])
        <=> Plain(value) /\ Fits(value)
  BY DEF ArgumentMatches, IsScalar
<1> HIDE DEF here, value, Fits
<1>5. Plain(value) => value.kind # "null"
  OBVIOUS
<1> HIDE DEF Plain
<1> QED
  BY <1>1, <1>3, <1>4, <1>5

\* What a rule asks for holds exactly if the condition it becomes matches.
LEMMA WhenAsStated ==
  ASSUME request.arguments \in Values, NEW when, DOMAIN when \subseteq {"args"} \cup Hint,
         \A h \in DOMAIN when \cap Hint : when[h] # None,
         ToCondition(when).arguments \subseteq ArgumentCondition
  PROVE  (\A asked \in DOMAIN when : IsAsAsked(when, asked))
           <=> /\ AnnotationsMatch(request.annotations, ToCondition(when))
               /\ \A a \in ToCondition(when).arguments : ArgumentMatches(request.arguments, a)
<1> DEFINE condition == ToCondition(when)
           args == Get(when, "args", <<>>)
<1>1. ASSUME NEW h \in Hint PROVE condition.hints[h] = Get(when, h, None)
  BY DEF ToCondition
<1>2. condition.arguments = {[path |-> p, pattern |-> args[p]] : p \in DOMAIN args}
  BY DEF ToCondition
<1>3. AnnotationsMatch(request.annotations, condition)
        <=> \A h \in Hint \cap DOMAIN when : request.annotations[h] = when[h]
  <2>1. \A h \in Hint : condition.hints[h] = IF h \in DOMAIN when THEN when[h] ELSE None
    BY <1>1 DEF Get
  <2> HIDE DEF condition
  <2> QED
    BY <2>1 DEF AnnotationsMatch
<1>4. (\A a \in condition.arguments : ArgumentMatches(request.arguments, a))
        <=> ("args" \in DOMAIN when => \A p \in DOMAIN when["args"] : HasArgument(p, when["args"][p]))
  <2>1. CASE "args" \notin DOMAIN when
    <3>1. args = <<>>
      BY <2>1 DEF Get
    <3>2. DOMAIN args = {}
      BY <3>1
    <3>3. condition.arguments = {}
      BY <1>2, <3>2
    <3> QED
      BY <2>1, <3>3
  <2>2. CASE "args" \in DOMAIN when
    <3>1. args = when["args"]
      BY <2>2 DEF Get
    <3>2. ASSUME NEW p \in DOMAIN args
          PROVE  HasArgument(p, args[p])
                   <=> ArgumentMatches(request.arguments, [path |-> p, pattern |-> args[p]])
      <4>1. [path |-> p, pattern |-> args[p]] \in ArgumentCondition
        BY <1>2
      <4>2. p \in Seq(Text) /\ args[p] \in Text
        BY <4>1 DEF ArgumentCondition
      <4> QED
        BY <4>2, ArgumentAsStated
    <3> HIDE DEF condition, args
    <3>3. (\A a \in condition.arguments : ArgumentMatches(request.arguments, a))
            <=> \A p \in DOMAIN args : ArgumentMatches(request.arguments, [path |-> p, pattern |-> args[p]])
      BY <1>2
    <3> QED
      BY <2>2, <3>1, <3>2, <3>3
  <2> QED
    BY <2>1, <2>2
<1>5. ASSUME NEW h \in Hint PROVE IsAsAsked(when, h) <=> request.annotations[h] = when[h]
  BY HintAssumption, Zenon DEF IsAsAsked
<1>6. IsAsAsked(when, "args") <=> \A p \in DOMAIN when["args"] : HasArgument(p, when["args"][p])
  BY HintAssumption, Zenon DEF IsAsAsked
<1> HIDE DEF condition
<1>7. (\A asked \in DOMAIN when : IsAsAsked(when, asked))
        <=> /\ \A h \in Hint \cap DOMAIN when : IsAsAsked(when, h)
            /\ "args" \in DOMAIN when => IsAsAsked(when, "args")
  OBVIOUS
<1> QED
  BY <1>3, <1>4, <1>5, <1>6, <1>7 DEF condition

\* One statement of a rule at a time.
LEMMA HoldsOf ==
  ASSUME NEW rule
  PROVE  /\ Holds(rule, "tool") <=> Matches(rule.tool, request.tool, FALSE)
         /\ Holds(rule, "upstream") <=> rule.upstream = request.upstream
         /\ Holds(rule, "when") <=> \A asked \in DOMAIN rule.when : IsAsAsked(rule.when, asked)
         /\ Holds(rule, "action") /\ Holds(rule, "reason")
<1>1. Holds(rule, "tool") <=> Matches(rule.tool, request.tool, FALSE)
  BY Zenon DEF Holds
<1>2. Holds(rule, "upstream") <=> rule.upstream = request.upstream
  BY Zenon DEF Holds
<1>3. Holds(rule, "when") <=> \A asked \in DOMAIN rule.when : IsAsAsked(rule.when, asked)
  BY Zenon DEF Holds
<1>4. Holds(rule, "action")
  BY Zenon DEF Holds
<1>5. Holds(rule, "reason")
  BY Zenon DEF Holds
<1> QED
  BY <1>1, <1>2, <1>3, <1>4, <1>5

LEMMA ToolAsStated ==
  ASSUME NEW glob \in Text, NEW name \in Text
  PROVE  Matches(glob, name, FALSE) <=> MatchTool(glob, name)
<1>1. Len(name) \in Nat /\ glob \in Seq(Character)
  BY LenProperties DEF Text
<1> HIDE DEF Text
<1> QED
  BY <1>1, CharactersAreNoClass, GlobsAreAsDocumented

\* A rule matches a call exactly if all it states, as it is written, is true of it.
LEMMA RuleAsStated ==
  ASSUME request \in Request, NEW rule, IsRule(rule), ToRule(rule) \in Rule,
         "upstream" \in DOMAIN rule => rule["upstream"] # None,
         \A h \in DOMAIN Get(rule, "when", <<>>) \cap Hint : Get(rule, "when", <<>>)[h] # None
  PROVE  RuleMatches(ToRule(rule), request) <=> \A key \in DOMAIN rule : Holds(rule, key)
<1> DEFINE when == Get(rule, "when", <<>>)
           built == ToRule(rule)
<1>1. /\ {"tool", "action"} \subseteq DOMAIN rule
      /\ DOMAIN rule \subseteq {"tool", "action"} \cup {"when", "reason", "upstream"}
      /\ DOMAIN when \subseteq {"args"} \cup Hint
  <2>1. /\ HasFields(rule, {"tool", "action"}, {"when", "reason", "upstream"})
        /\ HasFields(when, {}, {"args"} \cup Hint)
    BY DEF IsRule
  <2> QED
    BY <2>1 DEF HasFields
<1>2. /\ built.tool = rule.tool
      /\ built.upstream = Get(rule, "upstream", None)
      /\ built.condition = ToCondition(when)
  BY DEF ToRule
<1>3. built.tool \in Text /\ built.condition.arguments \subseteq ArgumentCondition
  BY DEF Rule, RuleCondition
<1>4. request.tool \in Text /\ request.arguments \in Values
  BY DEF Request
<1>5. MatchTool(built.tool, request.tool) <=> Holds(rule, "tool")
  BY <1>2, <1>3, <1>4, ToolAsStated, HoldsOf
<1>6. (built.upstream # None => built.upstream = request.upstream)
        <=> ("upstream" \in DOMAIN rule => Holds(rule, "upstream"))
  <2>1. Holds(rule, "upstream") <=> rule["upstream"] = request.upstream
    BY HoldsOf
  <2> QED
    BY <1>2, <2>1 DEF Get
<1>7. (/\ AnnotationsMatch(request.annotations, built.condition)
       /\ \A a \in built.condition.arguments : ArgumentMatches(request.arguments, a))
        <=> ("when" \in DOMAIN rule => Holds(rule, "when"))
  <2>1. (/\ AnnotationsMatch(request.annotations, built.condition)
         /\ \A a \in built.condition.arguments : ArgumentMatches(request.arguments, a))
          <=> \A asked \in DOMAIN when : IsAsAsked(when, asked)
    <3>1. ToCondition(when).arguments \subseteq ArgumentCondition
      BY <1>2, <1>3
    <3>2. (\A asked \in DOMAIN when : IsAsAsked(when, asked))
           <=> /\ AnnotationsMatch(request.annotations, ToCondition(when))
               /\ \A a \in ToCondition(when).arguments : ArgumentMatches(request.arguments, a)
      BY <1>1, <1>4, <3>1, WhenAsStated
    <3> QED
      BY <1>2, <3>2
  <2>2. CASE "when" \in DOMAIN rule
    <3>1. when = rule["when"]
      BY <2>2 DEF Get
    <3>2. Holds(rule, "when") <=> \A asked \in DOMAIN rule["when"] : IsAsAsked(rule["when"], asked)
      BY HoldsOf
    <3> QED
      BY <2>1, <2>2, <3>1, <3>2
  <2>3. CASE "when" \notin DOMAIN rule
    <3>1. when = <<>>
      BY <2>3 DEF Get
    <3>2. DOMAIN when = {}
      BY <3>1
    <3> QED
      BY <2>1, <2>3, <3>2
  <2> QED
    BY <2>2, <2>3
<1>8. (\A key \in DOMAIN rule : Holds(rule, key))
        <=> /\ Holds(rule, "tool")
            /\ "upstream" \in DOMAIN rule => Holds(rule, "upstream")
            /\ "when" \in DOMAIN rule => Holds(rule, "when")
  BY <1>1, HoldsOf
<1> HIDE DEF when, built
<1>9. RuleMatches(built, request)
        <=> /\ built.upstream # None => built.upstream = request.upstream
            /\ MatchTool(built.tool, request.tool)
            /\ AnnotationsMatch(request.annotations, built.condition)
            /\ \A a \in built.condition.arguments : ArgumentMatches(request.arguments, a)
  BY DEF RuleMatches
<1> QED
  BY <1>5, <1>6, <1>7, <1>8, <1>9 DEF built

-----------------------------------------------------------------------------
(* Decisions *)

DocumentInv ==
  /\ IInv
  /\ document \in {c.document : c \in Cases}
  /\ IsAccepted(document) => policy = BuildPolicy(document)
  /\ decision # None => IsAccepted(document)

LEMMA LoadedInv == Load => DocumentInv
<1> SUFFICES ASSUME Load PROVE DocumentInv
  OBVIOUS
<1>1. document \in {c.document : c \in Cases} /\ request \in Request
  BY CallsAssumption DEF Load
<1>2. policy \in Policy
  <2>1. CASE IsAccepted(document)
    BY <1>1, <2>1, DocumentsAssumption DEF Load
  <2>2. CASE ~IsAccepted(document)
    <3>1. policy = [rules |-> <<>>, default |-> "require_approval"]
      BY <2>2, Zenon DEF Load
    <3>2. "require_approval" \in Action
      BY Zenon DEF Action
    <3> DEFINE asked == "require_approval"
    <3> HIDE DEF asked
    <3>3. <<>> \in Seq(Rule)
      BY EmptySeq
    <3>4. policy = [rules |-> <<>>, default |-> asked] /\ asked \in Action
      BY <3>1, <3>2, Zenon DEF asked
    <3> QED
      BY <3>3, <3>4 DEF Policy
  <2> QED
    BY <2>1, <2>2
<1>3. index = 1 /\ decision = None
  BY DEF Load
<1>4. Len(policy.rules) \in Nat
  BY <1>2, PolicyParts
<1>5. IInv
  BY <1>1, <1>2, <1>3, <1>4 DEF IInv, TypeOK, FirstRuleDecides
<1>6. IsAccepted(document) => policy = BuildPolicy(document)
  BY Zenon DEF Load
<1> QED
  BY <1>1, <1>3, <1>5, <1>6 DEF DocumentInv

LEMMA EvaluatedInv == DocumentInv /\ [Evaluate]_documentVars => DocumentInv'
<1> SUFFICES ASSUME DocumentInv, [Evaluate]_documentVars PROVE DocumentInv'
  OBVIOUS
<1>1. [Next]_vars /\ UNCHANGED <<document, policy>>
  BY Zenon DEF Evaluate, Next, documentVars, vars
<1>2. IInv'
  BY <1>1, InvariantStep DEF DocumentInv
<1>3. decision' # None => IsAccepted(document)
  BY Zenon DEF Evaluate, documentVars, vars, DocumentInv
<1> QED
  BY <1>1, <1>2, <1>3 DEF DocumentInv

LEMMA DefaultAsStated ==
  ASSUME NEW d
  PROVE  Get(Get(d, "policy", <<>>), "default", "require_approval")
           = IF "policy" \in DOMAIN d /\ "default" \in DOMAIN d.policy
             THEN d.policy.default ELSE "require_approval"
<1>1. CASE "policy" \in DOMAIN d
  BY <1>1, Zenon DEF Get
<1>2. CASE "policy" \notin DOMAIN d
  <2>1. Get(d, "policy", <<>>) = <<>>
    BY <1>2 DEF Get
  <2>2. "default" \notin DOMAIN <<>>
    OBVIOUS
  <2>3. Get(<<>>, "default", "require_approval") = "require_approval"
    BY <2>2, Zenon DEF Get
  <2> QED
    BY <1>2, <2>1, <2>3, Zenon
<1> QED
  BY <1>1, <1>2

\* A rule of an accepted document states something of a call exactly as the
\* rule it becomes does.
LEMMA DocumentRules ==
  ASSUME DocumentInv, IsAccepted(document)
  PROVE  LET rules == RulesOf(document)
         IN /\ DOMAIN policy.rules = DOMAIN rules
            /\ \A k \in DOMAIN rules :
                 /\ policy.rules[k].action = rules[k].action
                 /\ RuleMatches(policy.rules[k], request)
                      <=> \A key \in DOMAIN rules[k] : Holds(rules[k], key)
<1> DEFINE rules == RulesOf(document)
<1>1. policy.rules = [k \in DOMAIN rules |-> ToRule(rules[k])]
  BY DEF DocumentInv, BuildPolicy
<1>2. policy.rules \in Seq(Rule) /\ request \in Request
  BY DEF DocumentInv, IInv, TypeOK, Policy
<1>3. ASSUME NEW k \in DOMAIN rules
      PROVE  /\ policy.rules[k].action = rules[k].action
             /\ RuleMatches(policy.rules[k], request)
                  <=> \A key \in DOMAIN rules[k] : Holds(rules[k], key)
  <2>1. policy.rules[k] = ToRule(rules[k]) /\ k \in DOMAIN policy.rules
    BY <1>1
  <2>2. ToRule(rules[k]) \in Rule
    BY <1>2, <2>1
  <2>3. IsRule(rules[k])
    BY Zenon DEF IsAccepted
  <2>4. /\ "upstream" \in DOMAIN rules[k] => rules[k]["upstream"] # None
        /\ \A h \in DOMAIN Get(rules[k], "when", <<>>) \cap Hint :
             Get(rules[k], "when", <<>>)[h] # None
    BY DocumentsAssumption DEF DocumentInv
  <2> HIDE DEF rules
  <2>5. RuleMatches(ToRule(rules[k]), request) <=> \A key \in DOMAIN rules[k] : Holds(rules[k], key)
    BY <1>2, <2>2, <2>3, <2>4, RuleAsStated
  <2>6. ToRule(rules[k]).action = rules[k].action
    BY DEF ToRule
  <2> QED
    BY <2>1, <2>5, <2>6
<1> HIDE DEF rules
<1> QED
  BY <1>1, <1>3 DEF rules

LEMMA DecidedAsStated == DocumentInv => DocumentDecides
<1> SUFFICES ASSUME DocumentInv, decision # None PROVE DocumentDecides
  BY DEF DocumentDecides
<1> DEFINE rules == RulesOf(document)
           true == {k \in DOMAIN rules : \A key \in DOMAIN rules[k] : Holds(rules[k], key)}
           stated == IF "policy" \in DOMAIN document /\ "default" \in DOMAIN document.policy
                     THEN document.policy.default ELSE "require_approval"
<1>1. IsAccepted(document) /\ policy = BuildPolicy(document)
  BY DEF DocumentInv
<1>2. policy.default = stated
  <2>1. policy.default = Get(Get(document, "policy", <<>>), "default", "require_approval")
    BY <1>1 DEF BuildPolicy
  <2> QED
    BY <2>1, DefaultAsStated
<1>3. /\ DOMAIN policy.rules = DOMAIN rules
      /\ \A k \in DOMAIN rules :
           /\ policy.rules[k].action = rules[k].action
           /\ RuleMatches(policy.rules[k], request) <=> k \in true
  BY <1>1, DocumentRules
<1>4. policy.rules \in Seq(Rule) /\ index \in 1..(Len(policy.rules) + 1)
  BY DEF DocumentInv, IInv, TypeOK, Policy
<1>5. true \subseteq DOMAIN rules /\ DOMAIN rules = 1..Len(policy.rules) /\ Len(policy.rules) \in Nat
  BY <1>3, <1>4, LenProperties
<1> HIDE DEF true, stated, rules
<1>6. \A k \in 1..(index - 1) : k \notin true
  <2>1. \A k \in 1..(index - 1) : ~RuleMatches(policy.rules[k], request)
    BY DEF DocumentInv, IInv, FirstRuleDecides
  <2>2. 1..(index - 1) \subseteq DOMAIN rules
    BY <1>4, <1>5
  <2> QED
    BY <1>3, <2>1, <2>2
<1>7. CASE /\ index <= Len(policy.rules)
           /\ RuleMatches(policy.rules[index], request)
           /\ decision = [action |-> policy.rules[index].action, rule_index |-> index]
  <2>1. index \in true /\ decision.rule_index = index /\ decision.action = rules[index].action
    BY <1>3, <1>4, <1>5, <1>7
  <2>2. \A k \in true : index <= k
    BY <1>4, <1>5, <1>6
  <2> QED
    BY <2>1, <2>2 DEF DocumentDecides, true, rules
<1>8. CASE /\ index = Len(policy.rules) + 1
           /\ decision = [action |-> policy.default, rule_index |-> None]
  <2>1. true = {}
    BY <1>4, <1>5, <1>6, <1>8
  <2>2. decision.rule_index = None /\ decision.action = stated
    BY <1>2, <1>8
  <2> QED
    BY <2>1, <2>2, Zenon DEF DocumentDecides, true, rules, stated
<1> QED
  BY <1>7, <1>8 DEF DocumentInv, IInv, FirstRuleDecides

(***************************************************************************)
(* Whatever the document and the call, a decision is the one that the      *)
(* document, as it is written and as its globs and paths are documented,   *)
(* states: loading it, compiling its globs, resolving its paths and going  *)
(* through its rules loses and adds nothing.                               *)
(***************************************************************************)
THEOREM DocumentsAreObeyed == DocumentSpec => []DocumentDecides
BY DecidedAsStated, LoadedInv, EvaluatedInv, PTL DEF DocumentSpec
=============================================================================

---------------------------- MODULE PolicyEngine ----------------------------
(***************************************************************************)
(* policy/engine.py: an ordered list of rules, the first match wins.       *)
(***************************************************************************)
EXTENDS Arguments

CONSTANTS Hint,      \* the annotations an upstream may state
          Upstream,  \* upstream names
          None       \* not stated

VARIABLES policy, request,  \* the arguments of evaluate()
          index,            \* the rule evaluate() looks at
          decision          \* what it returned, if it has

vars == <<policy, request, index, decision>>

Action == {"allow", "deny", "require_approval"}

AnnotationView == [Hint -> BOOLEAN \cup {None}]
ArgumentCondition == [path : Seq(Text), pattern : Text]
RuleCondition == [hints : AnnotationView, arguments : SUBSET ArgumentCondition]
Rule == [tool : Text, upstream : Upstream \cup {None}, action : Action,
         condition : RuleCondition]
Policy == [rules : Seq(Rule), default : Action]
Decision == [action : Action, rule_index : Nat \cup {None}]

Request == [tool : Text, upstream : Upstream, annotations : AnnotationView,
            arguments : {v \in Values : v.kind = "object"}]

ASSUME NoneAssumption == None \notin BOOLEAN /\ None \notin Upstream /\ None \notin Nat

TypeOK ==
  /\ policy \in Policy
  /\ request \in Request
  /\ index \in 1..(Len(policy.rules) + 1)
  /\ decision # None => decision \in Decision /\ decision.rule_index \in {index, None}

Init ==
  /\ policy \in Policy
  /\ request \in Request
  /\ index = 1
  /\ decision = None

-----------------------------------------------------------------------------
(* Arguments *)

Null == [kind |-> "null"]

\* Follows a path; a missing segment and a literal null are the same.
ResolveArgument(arguments, path) ==
  LET current[k \in 0..Len(path)] ==
        IF k = 0 THEN arguments
        ELSE IF current[k - 1].kind = "object" /\ path[k] \in DOMAIN current[k - 1].fields
             THEN current[k - 1].fields[path[k]]
             ELSE Null
  IN current[Len(path)]

\* Bug: a null is rendered, as canonical_value() would, and matched.
ArgumentMatchesNull(arguments, condition) ==
  LET value == ResolveArgument(arguments, condition.path) IN
  IsScalar(value) /\ MatchPath(condition.pattern, CanonicalValue(value))

\* Neither a null nor a container matches anything.
ArgumentMatches(arguments, condition) ==
  LET value == ResolveArgument(arguments, condition.path) IN
  value.kind # "null" /\ IsScalar(value) /\ MatchPath(condition.pattern, CanonicalValue(value))

-----------------------------------------------------------------------------
(* Rules *)

\* Bug: a hint that is not stated does not stand in a rule's way.
AnnotationsMatchUnstated(view, condition) ==
  \A h \in Hint : condition.hints[h] # None => view[h] \in {condition.hints[h], None}

\* A hint that is not stated satisfies no condition.
AnnotationsMatch(view, condition) ==
  \A h \in Hint : condition.hints[h] # None => view[h] = condition.hints[h]

\* Bug: a rule for one upstream covers the same tools of any other.
RuleMatchesAnywhere(rule, req) ==
  /\ MatchTool(rule.tool, req.tool)
  /\ AnnotationsMatch(req.annotations, rule.condition)
  /\ \A a \in rule.condition.arguments : ArgumentMatches(req.arguments, a)

RuleMatches(rule, req) ==
  /\ rule.upstream # None => rule.upstream = req.upstream
  /\ MatchTool(rule.tool, req.tool)
  /\ AnnotationsMatch(req.annotations, rule.condition)
  /\ \A a \in rule.condition.arguments : ArgumentMatches(req.arguments, a)

-----------------------------------------------------------------------------
(* evaluate() *)

\* Bug: rules are counted from one in some places only (enumerate's start).
ScanCountingFromOne ==
  /\ index <= Len(policy.rules)
  /\ \/ /\ RuleMatches(policy.rules[index], request)
        /\ decision' = [action |-> policy.rules[index].action, rule_index |-> index + 1]
        /\ UNCHANGED index
     \/ /\ ~RuleMatches(policy.rules[index], request)
        /\ index' = index + 1
        /\ UNCHANGED decision

\* Bug: a rule that asks for nothing but a tool name is passed over.
ScanConditional ==
  /\ index <= Len(policy.rules)
  /\ \/ /\ RuleMatches(policy.rules[index], request)
        /\ policy.rules[index].condition.arguments # {}
        /\ decision' = [action |-> policy.rules[index].action, rule_index |-> index]
        /\ UNCHANGED index
     \/ /\ \/ policy.rules[index].condition.arguments = {}
           \/ ~RuleMatches(policy.rules[index], request)
        /\ index' = index + 1
        /\ UNCHANGED decision

Scan ==
  /\ index <= Len(policy.rules)
  /\ \/ /\ RuleMatches(policy.rules[index], request)
        /\ decision' = [action |-> policy.rules[index].action, rule_index |-> index]
        /\ UNCHANGED index
     \/ /\ ~RuleMatches(policy.rules[index], request)
        /\ index' = index + 1
        /\ UNCHANGED decision

FallBack ==
  /\ index = Len(policy.rules) + 1
  /\ decision' = [action |-> policy.default, rule_index |-> None]
  /\ UNCHANGED index

Next ==
  /\ decision = None
  /\ Scan \/ FallBack
  /\ UNCHANGED <<policy, request>>

Spec == Init /\ [][Next]_vars

-----------------------------------------------------------------------------
(* Properties *)

\* No rule before the one evaluate() looks at, or has decided by, matches; and
\* it falls back on the default only past the last one (evaluate).
FirstRuleDecides ==
  /\ \A k \in 1..(index - 1) : ~RuleMatches(policy.rules[k], request)
  /\ decision # None =>
       \/ /\ index <= Len(policy.rules)
          /\ RuleMatches(policy.rules[index], request)
          /\ decision = [action |-> policy.rules[index].action, rule_index |-> index]
       \/ /\ index = Len(policy.rules) + 1
          /\ decision = [action |-> policy.default, rule_index |-> None]

\* The same call with a hint not stated or an argument not sent.
Quieter(req) ==
  {[req EXCEPT !.annotations[h] = None] : h \in Hint}
    \cup {[req EXCEPT !.arguments.fields =
             [k \in DOMAIN req.arguments.fields \ {gone} |-> req.arguments.fields[k]]] :
            gone \in DOMAIN req.arguments.fields}

\* Saying less never brings a call under a rule that comes before the one that
\* decides it (_annotations_match, _argument_matches).
SilenceNeverWidens ==
  decision # None =>
    \A k \in DOMAIN policy.rules, req \in Quieter(request) :
      decision.rule_index = None \/ k < decision.rule_index
        => ~RuleMatches(policy.rules[k], req)
=============================================================================

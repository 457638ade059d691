--------------------------- MODULE PolicyDocument ---------------------------
(***************************************************************************)
(* One call judged by the policy that its configuration file states: the   *)
(* document is loaded, and evaluate() goes through the rules it becomes    *)
(* (config/loader.py, policy/engine.py).                                   *)
(***************************************************************************)
EXTENDS PolicyEngine

CONSTANTS Letter,  \* letters and digits
          Cases    \* the documents and calls to look at

INSTANCE Config

\* What an accepted document states it gives a value.
ASSUME DocumentsAssumption ==
  \A d \in {c.document : c \in Cases} : IsAccepted(d) =>
    /\ BuildPolicy(d) \in Policy
    /\ \A k \in DOMAIN RulesOf(d) :
         LET rule == RulesOf(d)[k]
             when == Get(rule, "when", <<>>)
         IN /\ "upstream" \in DOMAIN rule => rule.upstream # None
            /\ \A h \in DOMAIN when \cap Hint : when[h] # None

ASSUME CallsAssumption == {c.request : c \in Cases} \subseteq Request

ASSUME HintAssumption == "args" \notin Hint

VARIABLE document  \* gatekeeper.yaml

documentVars == <<document, vars>>

\* A document that is not accepted ends the process before it has a policy.
Load ==
  /\ \E c \in Cases : document = c.document /\ request = c.request
  /\ policy = IF IsAccepted(document) THEN BuildPolicy(document)
              ELSE [rules |-> <<>>, default |-> "require_approval"]
  /\ index = 1
  /\ decision = None

Evaluate == IsAccepted(document) /\ Next /\ UNCHANGED document

DocumentSpec == Load /\ [][Evaluate]_documentVars

-----------------------------------------------------------------------------
(* What the documentation says of a rule, said of the document as it is     *)
(* written.                                                                 *)

\* The fields of what is found, one level further in, with the paths to them.
Below(found) ==
  UNION {{[path |-> Append(e.path, key), value |-> e.value.fields[key]] :
            key \in DOMAIN e.value.fields} :
           e \in {x \in found : x.value.kind = "object"}}

\* What is in an argument object at this depth.
Within(object, depth) ==
  LET within[d \in 0..depth] ==
        IF d = 0 THEN {[path |-> <<>>, value |-> object]} ELSE Below(within[d - 1])
  IN within[depth]

\* Whether an argument is there, is a string, a number or a truth value, and is
\* covered by a glob.
HasArgument(path, glob) ==
  \E e \in Within(request.arguments, Len(path)) :
    /\ e.path = path /\ e.value.kind \in {"string", "number", "boolean"}
    /\ Matches(glob, CanonicalValue(e.value), TRUE)

\* Whether a call is what a rule asks for, by a hint or by its arguments.
IsAsAsked(when, asked) ==
  CASE asked \in Hint -> request.annotations[asked] = when[asked]
    [] asked = "args" -> \A p \in DOMAIN when.args : HasArgument(p, when.args[p])
    [] OTHER -> FALSE

\* Whether one statement of a rule is true of a call; one nobody knows is not.
Holds(rule, key) ==
  CASE key = "tool" -> Matches(rule.tool, request.tool, FALSE)
    [] key = "upstream" -> rule.upstream = request.upstream
    [] key = "when" -> \A asked \in DOMAIN rule.when : IsAsAsked(rule.when, asked)
    [] OTHER -> key \in {"action", "reason"}

\* A call is decided by the first rule of the document all of whose statements
\* are true of it, else by the default the document states, else by an
\* approval (parse_config, build_policy, evaluate).
DocumentDecides ==
  decision # None =>
    LET rules == RulesOf(document)
        true == {k \in DOMAIN rules : \A key \in DOMAIN rules[k] : Holds(rules[k], key)}
    IN IF true = {}
       THEN /\ decision.rule_index = None
            /\ decision.action = IF "policy" \in DOMAIN document /\ "default" \in DOMAIN document.policy
                                 THEN document.policy.default ELSE "require_approval"
       ELSE /\ decision.rule_index \in true
            /\ \A k \in true : decision.rule_index <= k
            /\ decision.action = rules[decision.rule_index].action
=============================================================================

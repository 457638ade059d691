--------------------------- MODULE MCGovernedCall ---------------------------
(***************************************************************************)
(* Small instances of GovernedCall for TLC: documents of overlapping rules *)
(* and calls that state, omit, nest or null what they ask for; every short *)
(* glob against every short text; redact patterns against nested arguments.*)
(***************************************************************************)
EXTENDS GovernedCall, FiniteSetsExt, TLC

CONSTANTS MaxRules, MaxGlob, MaxText

MCHint == {"read_only_hint", "destructive_hint"}
MCLetter == {"f", "g", "x"}
MCUpstream == {<<"f">>, <<"g">>}

Text1(x) == [kind |-> "string", text |-> <<x>>]
Object(f) == [kind |-> "object", fields |-> f]
List(s) == [kind |-> "list", items |-> s]
Is(b) == [kind |-> "boolean", is |-> b]
Field(k, v) == <<k>> :> v

\* Sequences of up to n of these characters.
Words(chars, n) == UNION {[1..k -> chars] : k \in 0..n}

Document(rules, redact) ==
  [upstreams |-> <<[name |-> <<"f">>, command |-> "f"],
                   [name |-> <<"g">>, transport |-> "http", url |-> "http://"]>>,
   policy |-> [rules |-> rules], audit |-> [redact |-> redact]]

Unhinted == [h \in MCHint |-> None]
Call(tool, upstream, arguments, annotations) ==
  [tool |-> tool, upstream |-> upstream, arguments |-> arguments, annotations |-> annotations]

-----------------------------------------------------------------------------
(* Decisions *)

Plain == [tool |-> <<"*">>, action |-> "allow"]
When(when, action) == [tool |-> <<"*">>, action |-> action, when |-> when]
Args(path, glob) == [args |-> path :> glob]

MCRules ==
  {[Plain EXCEPT !.tool = <<"f", "_", "_", "*">>],
   [upstream |-> <<"g">>, tool |-> <<"?", "_", "*">>, action |-> "deny"],
   When([read_only_hint |-> TRUE], "allow"),
   When([destructive_hint |-> TRUE], "deny"),
   When([h \in MCHint |-> FALSE], "require_approval"),
   When(Args(<<<<"a">>>>, <<"*">>), "deny"),
   When(Args(<<<<"a">>, <<"b">>>>, <<"x">>), "allow"),
   When(Args(<<<<"a">>>>, <<"x">>) @@ [read_only_hint |-> TRUE], "allow"),
   \* documents that are not accepted
   When([read_only |-> TRUE], "allow"),
   [Plain EXCEPT !.action = "permit"],
   Plain @@ [whem |-> <<>>],
   Plain @@ [upstream |-> <<"h">>]}

MCArguments ==
  {Object(f) : f \in {Field("a", Text1("x")), Field("a", [kind |-> "null"]),
                      Field("a", List(<<Text1("x")>>)), Field("b", Text1("x")),
                      Field("a", Is(TRUE)), Field("a", Object(Field("b", Text1("x"))))}}

Views == [MCHint -> BOOLEAN \cup {None}]

DecisionCases ==
  [document : {Document(rules, <<>>) : rules \in UNION {[1..n -> MCRules] : n \in 0..MaxRules}},
   request : {Call(<<"f", "_", "_", "x">>, <<"f">>, a, v) : a \in MCArguments, v \in Views}
               \cup {Call(<<"g", "_", "_", "x">>, <<"g">>, Object(Field("a", Text1("x"))), Unhinted)}]

-----------------------------------------------------------------------------
(* Globs *)

TextArguments ==
  {Object(Field("a", [kind |-> "string", text |-> text])) : text \in Words({"x", "/", "\n"}, MaxText)}

GlobCases ==
  [document : {Document(<<When(Args(<<<<"a">>>>, glob), "deny")>>, <<>>) :
                 glob \in Words({"x", "/", "*", "?"}, MaxGlob)},
   request : {Call(<<"f", "_", "_", "x">>, <<"f">>, a, Unhinted) : a \in TextArguments}]

ToolCases ==
  [document : {Document(<<[tool |-> glob, action |-> "deny"]>>, <<>>) :
                 glob \in Words({"x", "_", "*", "?"}, 3) \ {<<>>}},
   request : {Call(name, <<"f">>, Object(Field("a", Text1("x"))), Unhinted) :
                name \in Words({"x", "_", "/"}, 3)}]

-----------------------------------------------------------------------------
(* Redaction *)

MCPatterns ==
  {<<"t">>, <<"a", ".", "t">>, <<"*", ".", "t">>, <<"a", ".", "*", "*">>,
   <<"*", "*", ".", "t">>, <<"*", "*">>, <<"a", ".", "0", ".", "?">>, <<"a", "*">>}

Secret == Field("t", Text1("s")) @@ Field("u", Text1("v"))

Nested ==
  {Object(Secret), Object(Field("a", Object(Secret))), Object(Field("a", List(<<Text1("v"), Object(Secret)>>))),
   Object(Field("a", Object(Field("b", Object(Secret)))) @@ Secret),
   Object(Field("a", List(<<Object(Secret)>>)) @@ Field("t", List(<<>>)))}

RedactionCases ==
  [document : UNION {{[Document(<<>>, redact) EXCEPT !.policy = [default |-> action]],
                      [Document(<<>>, redact) EXCEPT !.audit = @ @@ [enabled |-> FALSE]]} :
                       redact \in UNION {[1..n -> MCPatterns] : n \in 0..2}, action \in Action},
   request : {Call(<<"f", "_", "_", "x">>, <<"f">>, a, Unhinted) : a \in Nested}]

-----------------------------------------------------------------------------
MCCases == DecisionCases \cup GlobCases \cup ToolCases \cup RedactionCases

\* The values in a value.
Within1(value) ==
  CASE value.kind = "object" -> {value.fields[key] : key \in DOMAIN value.fields}
    [] value.kind = "list" -> {value.items[k] : k \in DOMAIN value.items}
    [] OTHER -> {}

RECURSIVE Parts(_)
Parts(value) == {value} \cup UNION {Parts(v) : v \in Within1(value)}

RECURSIVE DepthOf(_)
DepthOf(value) == Max({0} \cup {1 + DepthOf(v) : v \in Within1(value)})

MCValues == UNION {Parts(v) : v \in MCArguments \cup TextArguments \cup Nested}
MCDepth == [v \in MCValues |-> DepthOf(v)]
MCIndex == <<<<"0">>, <<"1">>>>

\* What the theorem about RedactionIsExact supposes.
ASSUME PlainAssumption == PlainKeys /\ PlainDocuments
=============================================================================

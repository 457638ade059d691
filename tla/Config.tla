------------------------------- MODULE Config -------------------------------
(***************************************************************************)
(* config/models.py and config/loader.py: what a gatekeeper.yaml must be   *)
(* to be accepted, and the policy it becomes.                              *)
(*                                                                         *)
(* A YAML mapping is a function from the keys it has; names, globs and     *)
(* paths are sequences of characters.                                      *)
(***************************************************************************)
EXTENDS Integers, Sequences, FiniteSets

CONSTANTS Hint,    \* the hints a rule may ask about, by their keys
          Letter,  \* letters and digits
          None     \* not stated

LOCAL ActionName == {"allow", "deny", "require_approval"}

\* What a mapping says of a key, or the field's default.
Get(mapping, key, default) == IF key \in DOMAIN mapping THEN mapping[key] ELSE default

\* Bug: a key nobody knows is ignored.
HasFieldsLax(mapping, required, optional) == required \subseteq DOMAIN mapping

\* _Strict: no key but the fields, and those without a default.
HasFields(mapping, required, optional) ==
  required \subseteq DOMAIN mapping /\ DOMAIN mapping \subseteq required \cup optional

-----------------------------------------------------------------------------
(* Upstreams *)

\* Letters, digits, "-" and "_", but no separator.
IsName(name) ==
  /\ name # <<>>
  /\ \A k \in DOMAIN name : name[k] \in Letter \cup {"-", "_"}
  /\ \A k \in DOMAIN name : k > 1 => ~(name[k - 1] = "_" /\ name[k] = "_")

IsUpstream(upstream) ==
  /\ IF Get(upstream, "transport", "stdio") = "stdio"
     THEN /\ HasFields(upstream, {"name", "command"}, {"transport", "args", "env", "cwd"})
          /\ upstream.command # ""
     ELSE /\ HasFields(upstream, {"name", "transport", "url"}, {"headers"})
          /\ upstream.transport = "http"
          /\ upstream.url \in {"http://", "https://"}  \* how it starts
  /\ IsName(upstream.name)

Names(upstreams) == {upstreams[k].name : k \in DOMAIN upstreams}

-----------------------------------------------------------------------------
(* Rules *)

IsRule(rule) ==
  /\ HasFields(rule, {"tool", "action"}, {"when", "reason", "upstream"})
  /\ rule.tool # <<>>
  /\ rule.action \in ActionName
  /\ HasFields(Get(rule, "when", <<>>), {}, {"args"} \cup Hint)

\* Bug: a hint that is asked to be false is not asked about.
ToConditionTruthy(when) ==
  [hints |-> [h \in Hint |-> IF Get(when, h, FALSE) THEN TRUE ELSE None],
   arguments |-> LET args == Get(when, "args", <<>>)
                 IN {[path |-> p, pattern |-> args[p]] : p \in DOMAIN args}]

ToCondition(when) ==
  [hints |-> [h \in Hint |-> Get(when, h, None)],
   arguments |-> LET args == Get(when, "args", <<>>)
                 IN {[path |-> p, pattern |-> args[p]] : p \in DOMAIN args}]

ToRule(rule) ==
  [tool |-> rule.tool, action |-> rule.action, upstream |-> Get(rule, "upstream", None),
   condition |-> ToCondition(Get(rule, "when", <<>>))]

-----------------------------------------------------------------------------
(* The document *)

RulesOf(document) == Get(Get(document, "policy", <<>>), "rules", <<>>)
UpstreamsOf(document) == Get(document, "upstreams", <<>>)
AuditOf(document) == Get(document, "audit", <<>>)

IsApprovals(approvals) ==
  /\ HasFields(approvals, {}, {"mode", "timeout_seconds", "on_timeout", "ui"})
  /\ Get(approvals, "mode", "auto") \in {"auto", "elicit", "block"}
  /\ Get(approvals, "timeout_seconds", 300) > 0
  /\ Get(approvals, "on_timeout", "deny") \in {"deny", "allow"}
  /\ LET ui == Get(approvals, "ui", <<>>)
     IN HasFields(ui, {}, {"host", "port", "base_url"}) /\ Get(ui, "port", 8765) \in 1..65535

\* parse_config() returns rather than raise ConfigError.
IsAccepted(document) ==
  LET rules == RulesOf(document)
      upstreams == UpstreamsOf(document)
  IN /\ HasFields(document, {}, {"version", "server", "upstreams", "policy", "approvals", "audit"})
     /\ Get(document, "version", 1) = 1
     /\ HasFields(Get(document, "server", <<>>), {}, {"name", "version", "instructions"})
     /\ \A k \in DOMAIN upstreams : IsUpstream(upstreams[k])
     /\ HasFields(Get(document, "policy", <<>>), {}, {"default", "default_reason", "rules"})
     /\ Get(Get(document, "policy", <<>>), "default", "require_approval") \in ActionName
     /\ \A k \in DOMAIN rules : IsRule(rules[k])
     /\ IsApprovals(Get(document, "approvals", <<>>))
     /\ HasFields(AuditOf(document), {}, {"database", "redact", "enabled"})
     /\ Cardinality(Names(upstreams)) = Len(upstreams)
     /\ \A k \in DOMAIN rules :
          "upstream" \in DOMAIN rules[k] => rules[k].upstream \in Names(upstreams)

\* Where the document states no default, calls no rule covers need approval.
BuildPolicy(document) ==
  [rules |-> [k \in DOMAIN RulesOf(document) |-> ToRule(RulesOf(document)[k])],
   default |-> Get(Get(document, "policy", <<>>), "default", "require_approval")]
=============================================================================

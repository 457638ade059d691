------------------------------ MODULE Redaction ------------------------------
(***************************************************************************)
(* redact_arguments() of audit/models.py: the paths of an argument object  *)
(* that match a pattern are masked, with all that is below them.           *)
(***************************************************************************)
EXTENDS Arguments

Redacted == [kind |-> "string", text |-> <<"[redacted]">>]

\* Bug: the dots of a pattern stay dots.
TranslatedNot(pattern) == pattern

Translated(pattern) == [k \in DOMAIN pattern |-> IF pattern[k] = "." THEN "/" ELSE pattern[k]]

IsMasked(prefix, patterns) ==
  prefix # <<>> /\ \E k \in DOMAIN patterns : MatchPath(Translated(patterns[k]), prefix)

Under(prefix, key) == IF prefix = <<>> THEN key ELSE Append(prefix, "/") \o key

\* Bug: what is in a list is left as it is.
RedactedObjects(redact, v, patterns) ==
  [p \in Text |->
     CASE IsMasked(p, patterns) -> Redacted
       [] ~IsMasked(p, patterns) /\ v.kind = "object" ->
            [kind |-> "object",
             fields |-> [key \in DOMAIN v.fields |-> redact[v.fields[key]][Under(p, key)]]]
       [] OTHER -> v]

\* A value redacted, by the prefix it is found under, when redact is what
\* becomes of the values in it.
RedactedUnder(redact, v, patterns) ==
  [p \in Text |->
     CASE IsMasked(p, patterns) -> Redacted
       [] ~IsMasked(p, patterns) /\ v.kind = "object" ->
            [kind |-> "object",
             fields |-> [key \in DOMAIN v.fields |-> redact[v.fields[key]][Under(p, key)]]]
       [] ~IsMasked(p, patterns) /\ v.kind = "list" ->
            [kind |-> "list",
             items |-> [k \in DOMAIN v.items |-> redact[v.items[k]][Append(p, "/") \o Index[k]]]]
       [] OTHER -> v]

\* The function redact() inside redact_arguments().
Redact(value, prefix, patterns) ==
  LET redact[v \in Values] == RedactedUnder(redact, v, patterns)
  IN redact[value][prefix]

RedactArguments(arguments, patterns) == Redact(arguments, <<>>, patterns)
=============================================================================

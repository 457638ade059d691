---------------------------- MODULE GovernedCall ----------------------------
(***************************************************************************)
(* One call from the configuration file to the database: once the policy   *)
(* that the document states has decided, what is kept of the arguments is  *)
(* written to the approval queue and the audit log (call_tool,             *)
(* _require_approval and _record of proxy/gateway.py).                     *)
(***************************************************************************)
EXTENDS PolicyDocument, Redaction

VARIABLES parked,    \* arguments as approvals.arguments has them, if it does
          recorded,  \* arguments as audit_events.arguments has them, if it does
          answered   \* whether the call has been answered

callVars == <<parked, recorded, answered, documentVars>>

GovernedTypeOK ==
  /\ TypeOK
  /\ parked \in {None, request.arguments}
  /\ recorded # None => recorded.kind = "object"
  /\ answered => decision # None

CallInit ==
  /\ Load
  /\ parked = None
  /\ recorded = None
  /\ answered = FALSE

Decide == Evaluate /\ UNCHANGED <<parked, recorded, answered>>

\* approvals.open() keeps the arguments as they came.
Park ==
  /\ decision # None /\ decision.action = "require_approval"
  /\ parked = None
  /\ parked' = request.arguments
  /\ UNCHANGED <<recorded, answered, documentVars>>

\* _record(): a log that is switched off drops the event.
Record ==
  /\ decision # None /\ ~answered
  /\ decision.action = "require_approval" => parked # None
  /\ answered' = TRUE
  /\ recorded' = IF Get(AuditOf(document), "enabled", TRUE)
                 THEN RedactArguments(request.arguments, Get(AuditOf(document), "redact", <<>>))
                 ELSE None
  /\ UNCHANGED <<parked, documentVars>>

CallNext == Decide \/ Park \/ Record

CallSpec == CallInit /\ [][CallNext]_callVars

-----------------------------------------------------------------------------
(* What the documentation says of a redact pattern: its levels are what is  *)
(* between its dots, each covers a key, and "**" any keys (redact_arguments *)
(* and its comment).                                                        *)

\* Where the level ends that starts after the first p characters.
LevelEnd(pattern, p) ==
  CHOOSE q \in p..Len(pattern) :
    /\ q = Len(pattern) \/ pattern[q + 1] = "."
    /\ \A k \in (p + 1)..q : pattern[k] # "."

\* The places among the keys of a path from which the level after the first p
\* characters, and those behind it, cover the rest of the path.  "**" stands for
\* one key or more, and at the end, behind another level, for none as well.
CoveredKeys(pattern, path, p, after) ==
  LET n == Len(pattern)
      m == Len(path)
      end == LevelEnd(pattern, p)
      level == SubSeq(pattern, p + 1, end)
      next == IF end = n THEN {m} ELSE after[end + 1]
  IN IF level = <<"*", "*">>
     THEN {i \in 0..m : IF end = n THEN i < m \/ p > 0 ELSE \E j \in next : i < j}
     ELSE {i \in 0..m : i + 1 \in next /\ Covers(level, path[i + 1], FALSE)}

CoversPath(pattern, path) ==
  LET from[p \in 0..Len(pattern)] == CoveredKeys(pattern, path, p, from)
  IN 0 \in from[0]

IsSecret(path, patterns) ==
  path # <<>> /\ \E k \in DOMAIN patterns : CoversPath(patterns[k], path)

\* What is in a value, as it came and as it is stored; the keys of a list are
\* its indices.
Inside(e) ==
  CASE e.value.kind = "object" ->
         {[path |-> Append(e.path, key), value |-> e.value.fields[key],
           stored |-> e.stored.fields[key]] : key \in DOMAIN e.value.fields}
    [] e.value.kind = "list" ->
         {[path |-> Append(e.path, Index[k]), value |-> e.value.items[k],
           stored |-> e.stored.items[k]] : k \in DOMAIN e.value.items}
    [] OTHER -> {}

\* A secret is masked, and nothing else is lost.
IsRight(e, patterns) ==
  IF IsSecret(e.path, patterns) THEN e.stored = Redacted
  ELSE CASE e.value.kind = "object" ->
              e.stored.kind = "object" /\ DOMAIN e.stored.fields = DOMAIN e.value.fields
         [] e.value.kind = "list" ->
              e.stored.kind = "list" /\ DOMAIN e.stored.items = DOMAIN e.value.items
         [] OTHER -> e.stored = e.value

UnmaskedWithin(found, patterns) ==
  UNION {Inside(e) : e \in {x \in found : ~IsSecret(x.path, patterns)}}

\* What is stored for a value is right at every depth.
IsStoredAs(value, stored, patterns) ==
  LET at[d \in 0..MaxDepth] ==
        IF d = 0 THEN {[path |-> <<>>, value |-> value, stored |-> stored]}
        ELSE UnmaskedWithin(at[d - 1], patterns)
  IN \A d \in 0..MaxDepth : \A e \in at[d] : IsRight(e, patterns)

Patterns == Get(AuditOf(document), "redact", <<>>)

\* The audit log masks what the document's patterns cover, at any depth and in
\* lists, and nothing else is lost (redact_arguments, AuditEvent.build).
RedactionIsExact == recorded # None => IsStoredAs(request.arguments, recorded, Patterns)

\* "A secret matching a `redact` pattern never reaches the database"
\* (README.md), the approval queue included.
SecretsAreNotStored ==
  \A stored \in {parked, recorded} \ {None} :
    IsStoredAs(request.arguments, stored, Patterns)

-----------------------------------------------------------------------------
(* redact_arguments() joins the keys of a path with "/" and matches the     *)
(* pattern with "/" for its dots, so it tells levels apart only in keys and *)
(* patterns like these.                                                     *)

\* Not empty, without a separator, and without a newline for "$" to pass over.
PlainKey(key) ==
  /\ key \in Text /\ key # <<>>
  /\ \A k \in 1..Len(key) : key[k] # "/"
  /\ key[Len(key)] # "\n"

\* Whether the two characters from k on are a level.
IsWhole(pattern, k) ==
  /\ k = 1 \/ pattern[k - 1] = "."
  /\ k + 1 = Len(pattern) \/ pattern[k + 2] = "."

\* Without a separator, and with "**" as a level only.
PlainPattern(pattern) ==
  /\ pattern \in Text
  /\ \A k \in 1..Len(pattern) : pattern[k] # "/"
  /\ \A k \in 1..(Len(pattern) - 1) :
       pattern[k] = "*" /\ pattern[k + 1] = "*" => IsWhole(pattern, k)

PlainKeys ==
  \A v \in Values :
    /\ v.kind = "object" => \A key \in DOMAIN v.fields : PlainKey(key)
    /\ v.kind = "list" => \A k \in DOMAIN v.items : PlainKey(Index[k])

PlainPatterns(patterns) == \A k \in DOMAIN patterns : PlainPattern(patterns[k])

PlainDocuments ==
  \A d \in {c.document : c \in Cases} :
    IsAccepted(d) => PlainPatterns(Get(AuditOf(d), "redact", <<>>))
=============================================================================

-------------------------------- MODULE Glob --------------------------------
(***************************************************************************)
(* policy/glob.py: patterns over tool names and over texts with levels.    *)
(*                                                                         *)
(* A text is the sequence of its characters.  A compiled pattern is the    *)
(* sequence of the regex fragments _compile() puts out; a fragment is      *)
(* known by what it matches, and a literal stands for itself.              *)
(***************************************************************************)
LOCAL INSTANCE Integers
LOCAL INSTANCE Sequences

\* What the fragments are called that stand for more than one character; no
\* character is called so.
Class == {"anything", "in-level", "any-one", "not-/", "and-below"}
Character == STRING \ Class

\* The fragment for one character of a pattern.
Fragment(char, aware) ==
  CASE char = "*" -> IF aware THEN "in-level" ELSE "anything"
    [] char = "?" -> IF aware THEN "not-/" ELSE "any-one"
    [] OTHER -> char

\* Bug: any "/**" covers the parent, not only a trailing one.
CoversParentAnywhere(out, i, end) == out # <<>> /\ out[Len(out)] = "/"

\* Whether the two stars at i follow a separator and end the pattern.
CoversParent(out, i, end) == out # <<>> /\ out[Len(out)] = "/" /\ i + 1 = end

\* One turn of _compile()'s loop: what is out after the i-th character, and
\* whether the next one, the second of two stars, is used up already.
Emit(pattern, aware, i, done) ==
  LET end == Len(pattern)
      isDoubled == aware /\ pattern[i] = "*" /\ i < end /\ pattern[i + 1] = "*"
      out == done.out
  IN IF done.skip THEN [out |-> out, skip |-> FALSE]
     ELSE [skip |-> isDoubled,
           out |-> IF ~isDoubled THEN Append(out, Fragment(pattern[i], aware))
                   ELSE IF CoversParent(out, i, end) THEN [out EXCEPT ![Len(out)] = "and-below"]
                   ELSE Append(out, "anything")]

Compile(pattern, aware) ==
  LET done[i \in 0..Len(pattern)] ==
        IF i = 0 THEN [out |-> <<>>, skip |-> FALSE] ELSE Emit(pattern, aware, i, done[i - 1])
  IN done[Len(pattern)].out

\* Where a fragment may end that starts after the first i characters.
Ends(fragment, text, i) ==
  LET rest == i..Len(text)
      InLevel(j) == \A k \in (i + 1)..j : text[k] # "/"
  IN CASE fragment = "anything"  -> rest
       [] fragment = "in-level"  -> {j \in rest : InLevel(j)}
       [] fragment = "any-one"   -> rest \cap {i + 1}
       [] fragment = "not-/"     -> {j \in rest \cap {i + 1} : InLevel(j)}
       [] fragment = "and-below" -> {i} \cup {j \in rest : j > i /\ text[i + 1] = "/"}
       [] OTHER -> {j \in rest \cap {i + 1} : text[j] = fragment}

\* Where it may end that starts at any of these places.
Onward(fragment, text, places) == UNION {Ends(fragment, text, i) : i \in places}

\* Where the text can be left once all fragments have matched.
Reached(regex, text) ==
  LET reached[k \in 0..Len(regex)] ==
        IF k = 0 THEN {0} ELSE Onward(regex[k], text, reached[k - 1])
  IN reached[Len(regex)]

\* re.match() of an anchored pattern: "$" holds before a newline at the end too.
IsMatch(regex, text) ==
  \/ Len(text) \in Reached(regex, text)
  \/ /\ Len(text) > 0 /\ text[Len(text)] = "\n"
     /\ Len(text) - 1 \in Reached(regex, text)

MatchTool(pattern, name) == IsMatch(Compile(pattern, FALSE), name)
MatchPath(pattern, value) == IsMatch(Compile(pattern, TRUE), value)

\* A JSON value as patterns see it; a container has no text.
IsScalar(value) == value.kind \in {"string", "number", "boolean", "null"}

CanonicalValue(value) ==
  CASE value.kind = "boolean" -> IF value.is THEN <<"t", "r", "u", "e">>
                                             ELSE <<"f", "a", "l", "s", "e">>
    [] value.kind = "null" -> <<"n", "u", "l", "l">>
    [] OTHER -> value.text

-----------------------------------------------------------------------------
(* What the documentation says of a glob (README.md, "Policy"; the comments *)
(* of glob.py): "*" stands for any text, and between separators only for    *)
(* what is in one level, "**" for any, "?" for one character, and "/**" at  *)
(* the end covers the parent too.                                           *)

\* The places among the first m characters of the text from which the pattern
\* without its first p characters covers the rest of them.  The pattern without
\* one more covers it from the next places, without two from the later ones.
CoveredFrom(pattern, text, m, levels, p, next, later) ==
  LET n == Len(pattern)
      At == pattern[p + 1]
      Doubled == p + 2 <= n /\ At = "*" /\ pattern[p + 2] = "*"
      Below == p + 3 = n /\ At = "/" /\ pattern[p + 2] = "*" /\ pattern[p + 3] = "*"
      InLevel(i, j) == \A k \in (i + 1)..j : text[k] # "/"
      Ahead(i, places) == {j \in places : i <= j}
  IN CASE levels /\ Below -> {i \in 0..m : i = m \/ text[i + 1] = "/"}
       [] levels /\ Doubled -> {i \in 0..m : Ahead(i, later) # {}}
       [] OTHER ->
            CASE At = "*" -> {i \in 0..m : \E j \in Ahead(i, next) : levels => InLevel(i, j)}
              [] At = "?" -> {i \in 0..m : i + 1 \in next /\ (levels => InLevel(i, i + 1))}
              [] OTHER -> {i \in 0..m : i + 1 \in next /\ text[i + 1] = At}

CoversUpTo(pattern, text, m, levels) ==
  LET n == Len(pattern)
      from[p \in 0..n] ==
        IF p = n THEN {m}
        ELSE CoveredFrom(pattern, text, m, levels, p, from[p + 1], from[p + 2])
  IN 0 \in from[0]

Covers(pattern, text, levels) == CoversUpTo(pattern, text, Len(text), levels)

\* "$" also matches before a newline at the very end, a detail of re the
\* documentation is silent on.
Matches(pattern, text, levels) ==
  \/ Covers(pattern, text, levels)
  \/ /\ Len(text) > 0 /\ text[Len(text)] = "\n"
     /\ CoversUpTo(pattern, text, Len(text) - 1, levels)
=============================================================================

----------------------------- MODULE Arguments -----------------------------
(***************************************************************************)
(* The arguments of a call.  Names, globs and texts are sequences of       *)
(* characters.  An argument is a JSON value, a record of its kind and what *)
(* it holds; the arguments of a call are an object.                        *)
(***************************************************************************)
EXTENDS Integers, Sequences, Glob

CONSTANTS Values,    \* the JSON values that arguments are made of
          Depth,     \* how deep each of them nests
          MaxDepth,  \* a bound of that
          Index      \* what str() makes of 0, 1, ...

Text == Seq(Character)

ASSUME ValuesAssumption ==
  \A v \in Values :
    /\ v.kind \in {"string", "number"} => v.text \in Text
    /\ v.kind = "object" =>
         /\ v = [kind |-> "object", fields |-> v.fields]
         /\ DOMAIN v.fields \subseteq Text
         /\ \A key \in DOMAIN v.fields : v.fields[key] \in Values
    /\ v.kind = "list" =>
         /\ v = [kind |-> "list", items |-> v.items]
         /\ v.items \in Seq(Values) /\ Len(v.items) <= Len(Index)

\* True of every string but the names of classes; the provers do not know it.
ASSUME SeparatorAssumption == "/" \in Character

ASSUME IndexAssumption == Index \in Seq(Text)

ASSUME DepthAssumption ==
  /\ MaxDepth \in Nat /\ Depth \in [Values -> 0..MaxDepth]
  /\ \A v \in Values :
       /\ v.kind = "object" => \A key \in DOMAIN v.fields : Depth[v.fields[key]] < Depth[v]
       /\ v.kind = "list" => \A k \in DOMAIN v.items : Depth[v.items[k]] < Depth[v]
=============================================================================

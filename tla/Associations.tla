---------------------------- MODULE Associations ----------------------------
(* What the collections of the standard library promise: to every key of a  *)
(* map or a hash table belong the values it was bound to, the latest first, *)
(* and removing a binding restores the one before it; a set binds each of   *)
(* its elements to TRUE.                                                    *)
EXTENDS Integers, Sequences
CONSTANTS Keys, Values, Lists, Functions

VARIABLES sort, bound

Init ==
  /\ sort \in {"Map", "Set", "HashTab"}
  /\ bound = [k \in Keys |-> <<>>]

\* At most one value.
Latest(k) == IF bound[k] = <<>> THEN <<>> ELSE <<Head(bound[k])>>

Add(k, v) == bound' = [bound EXCEPT ![k] = <<v>> \o @]

Remove(k) == bound' = [bound EXCEPT ![k] = SubSeq(@, 2, Len(@))]

\* The image of a map has only the bindings that can be seen.
MapValues(f) ==
  bound' = [k \in Keys |-> [i \in DOMAIN Latest(k) |-> f[Latest(k)[i]]]]

Elements == {k \in Keys : bound[k] # <<>>}

Become(S) == bound' = [k \in Keys |-> IF k \in S THEN <<TRUE>> ELSE <<>>]

Listed(l) == {l[i] : i \in DOMAIN l}

SetNext ==
  \/ \E k \in Keys : Become(Elements \union {k}) \/ Become(Elements \ {k})
  \/ \E l \in Lists : Become(Elements \union Listed(l))
                      \/ Become(Elements \ Listed(l))
  \/ \E f \in Functions : Become({f[k] : k \in Elements})

Next ==
  /\ UNCHANGED sort
  /\ \/ sort = "Set" /\ SetNext
     \/ sort # "Set" /\ \E k \in Keys : Remove(k) \/ \E v \in Values : Add(k, v)
     \/ sort = "Map" /\ \E f \in [Values -> Values] : MapValues(f)

Spec == Init /\ [][Next]_<<sort, bound>>
=============================================================================

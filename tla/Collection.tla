----------------------------- MODULE Collection -----------------------------
(* stdlib/Collection.lama: maps and sets, which are AVL trees and share     *)
(* their functions, and hash tables.  Trees are not balanced after a        *)
(* removal: the node of a removed key stays, without a value.               *)
EXTENDS Integers, SequencesExt

CONSTANTS KeysOf,     \* sort -> integers, compared by the built-in compare
          Values,     \* of maps and hash tables
          Lists,      \* lists of keys, arguments of listSet
          Functions,  \* arguments of mapSet
          Classes,    \* n of emptyHashTab
          Hash,       \* key -> natural number
          MaxShadow   \* bound: values of one key

Keys == UNION {KeysOf[s] : s \in DOMAIN KeysOf}

ASSUME HashAssumption == Classes \in Nat \ {0} /\ Hash \in [Keys -> Nat]

VARIABLES
  sort,   \* "Map", "Set" or "HashTab"
  m       \* the tree, or the array of a hash table: m[0] of the source

vars == <<sort, m>>

Nil == <<>>

IsNil(t) == DOMAIN t = {}

MNode(k, vs, bf, l, r) == [k |-> k, vs |-> vs, bf |-> bf, l |-> l, r |-> r]

-----------------------------------------------------------------------------
(***************************************************************************)
(* Insertion.  bf is the height of the left subtree less that of the       *)
(* right one; a rotation computes the new factors from the old ones.       *)
(***************************************************************************)

\* rot (true, node): the right child becomes the root.
RotateLeft(t) ==
  LET x == t.bf
      y == t.r.bf
      x0 == IF y > 0 THEN x + 1 ELSE x - y + 1
      y0 == IF x0 > 0 THEN IF y > 0 THEN x + y + 2 ELSE x + 2 ELSE y + 1
  IN [t.r EXCEPT !.bf = y0, !.l = [t EXCEPT !.bf = x0, !.r = t.r.l]]

\* rot (false, node): the left child becomes the root.
RotateRight(t) ==
  LET x == t.bf
      y == t.l.bf
      x0 == IF y < 0 THEN x - 1 ELSE x - y - 1
      y0 == IF x0 > 0 THEN y - 1 ELSE IF y < 0 THEN y + x - 2 ELSE x - 2
  IN [t.l EXCEPT !.bf = y0, !.r = [t EXCEPT !.bf = x0, !.l = t.l.r]]

append(v, vs) == IF sort = "Map" THEN <<v>> \o vs ELSE v

\* What inner returns: whether the tree has grown, and the tree.
Inserted(grown, t) == [grown |-> grown, tree |-> t]

\* Mutant: a single rotation, whichever side of the left child is higher.
GrownLeftSingle(t, ll) ==
  LET heavy == [t EXCEPT !.bf = @ + 1, !.l = ll]
  IN IF t.bf < 0 THEN Inserted(FALSE, heavy)
     ELSE IF t.bf # 1 THEN Inserted(TRUE, heavy)
     ELSE Inserted(FALSE, RotateRight(heavy))

\* The left subtree has been replaced by a higher one.
GrownLeft(t, ll) ==
  LET heavy == [t EXCEPT !.bf = @ + 1, !.l = ll]
  IN IF t.bf < 0 THEN Inserted(FALSE, heavy)
     ELSE IF t.bf # 1 THEN Inserted(TRUE, heavy)
     ELSE IF ll.bf > 0 THEN Inserted(FALSE, RotateRight(heavy))
     ELSE Inserted(FALSE, RotateRight([heavy EXCEPT !.l = RotateLeft(ll)]))

GrownRight(t, rr) ==
  LET heavy == [t EXCEPT !.bf = @ - 1, !.r = rr]
  IN IF t.bf > 0 THEN Inserted(FALSE, heavy)
     ELSE IF t.bf # -1 THEN Inserted(TRUE, heavy)
     ELSE IF rr.bf < 0 THEN Inserted(FALSE, RotateLeft(heavy))
     ELSE Inserted(FALSE, RotateLeft([heavy EXCEPT !.r = RotateRight(rr)]))

RECURSIVE Insert(_, _, _)
Insert(t, pk, v) ==
  IF IsNil(t) THEN Inserted(TRUE, MNode(pk, append(v, <<>>), 0, Nil, Nil))
  ELSE IF pk = t.k THEN Inserted(FALSE, [t EXCEPT !.vs = append(v, @)])
  ELSE IF pk < t.k
    THEN LET i == Insert(t.l, pk, v)
         IN IF i.grown THEN GrownLeft(t, i.tree)
            ELSE Inserted(FALSE, [t EXCEPT !.l = i.tree])
    ELSE LET i == Insert(t.r, pk, v)
         IN IF i.grown THEN GrownRight(t, i.tree)
            ELSE Inserted(FALSE, [t EXCEPT !.r = i.tree])

insertColl(t, pk, v) == Insert(t, pk, v).tree

-----------------------------------------------------------------------------
(***************************************************************************)
(* Search, removal and enumeration.  An option is a sequence of at most    *)
(* one value.                                                              *)
(***************************************************************************)

extract(vs) ==
  IF sort = "Set" THEN <<vs>> ELSE IF vs = <<>> THEN <<>> ELSE <<Head(vs)>>

RECURSIVE findColl(_, _)
findColl(t, pk) ==
  IF IsNil(t) THEN <<>>
  ELSE IF pk = t.k THEN extract(t.vs)
  ELSE findColl(IF pk < t.k THEN t.l ELSE t.r, pk)

memSet(t, pk) == findColl(t, pk) = <<TRUE>>

\* Mutant: a removed key loses the values below the latest one, too.
deleteAll(vs) == IF sort = "Map" THEN <<>> ELSE FALSE

delete(vs) == IF sort = "Map" THEN SubSeq(vs, 2, Len(vs)) ELSE FALSE

RECURSIVE removeColl(_, _)
removeColl(t, pk) ==
  IF IsNil(t) THEN t
  ELSE IF pk = t.k THEN [t EXCEPT !.vs = delete(@)]
  ELSE IF pk < t.k THEN [t EXCEPT !.l = removeColl(@, pk)]
  ELSE [t EXCEPT !.r = removeColl(@, pk)]

\* Mutant: the elements removed from a set are still enumerated.
ShownAlways(t) ==
  IF sort = "Map" THEN [i \in DOMAIN extract(t.vs) |-> <<t.k, t.vs[i]>>]
  ELSE <<t.k>>

\* The binding of one node, or of none that can be seen.
Shown(t) ==
  IF sort = "Map" THEN [i \in DOMAIN extract(t.vs) |-> <<t.k, t.vs[i]>>]
  ELSE IF t.vs THEN <<t.k>> ELSE <<>>

\* bindings of a map, elements of a set.
RECURSIVE contents(_)
contents(t) ==
  IF IsNil(t) THEN <<>> ELSE contents(t.l) \o Shown(t) \o contents(t.r)

-----------------------------------------------------------------------------
(***************************************************************************)
(* Hash tables: an array of lists of pairs.                                *)
(***************************************************************************)

hash(k) == Hash[k] % Classes

\* find and remove of stdlib/List.lama with compare (k, k0) == 0
Matches(l, k) == {i \in DOMAIN l : l[i][1] = k}

find(l, k) ==
  IF Matches(l, k) = {} THEN <<>> ELSE <<l[Min(Matches(l, k))][2]>>

remove(l, k) ==
  IF Matches(l, k) = {} THEN l ELSE RemoveAt(l, Min(Matches(l, k)))

findHashTab(a, k) == find(a[hash(k)], k)

-----------------------------------------------------------------------------
(***************************************************************************)
(* What the tree stands for.                                               *)
(***************************************************************************)

RECURSIVE Stored(_, _)
Stored(t, k) ==
  IF IsNil(t) THEN <<>>
  ELSE IF k < t.k THEN Stored(t.l, k)
  ELSE IF k > t.k THEN Stored(t.r, k)
  ELSE IF sort = "Map" THEN t.vs
  ELSE IF t.vs THEN <<TRUE>> ELSE <<>>

Chained(a, k) ==
  LET ps == SelectSeq(a[hash(k)], LAMBDA p : p[1] = k)
  IN [i \in DOMAIN ps |-> ps[i][2]]

Bindings ==
  [k \in Keys |-> IF sort = "HashTab" THEN Chained(m, k) ELSE Stored(m, k)]

Abstract == INSTANCE Associations WITH bound <- Bindings

-----------------------------------------------------------------------------
(***************************************************************************)
(* A program that keeps the collection returned last.                      *)
(***************************************************************************)

Init ==
  /\ sort \in DOMAIN KeysOf
  /\ m = IF sort = "HashTab" THEN [h \in 0 .. Classes - 1 |-> <<>>] ELSE Nil

\* foldl (addSet, t, l)
addAll(t, l) == FoldLeft(LAMBDA s, k : insertColl(s, k, TRUE), t, l)

listSet(l) == addAll(Nil, l)

addMap(k, v) ==
  /\ Len(Bindings[k]) < MaxShadow
  /\ m' = insertColl(m, k, v)

removeMap(k) == m' = removeColl(m, k)

\* listMap (map (..., bindings (m)), m[1])
mapMap(f) ==
  m' = FoldLeft(LAMBDA t, p : insertColl(t, p[1], f[p[2]]), Nil, contents(m))

addSet(k) == m' = insertColl(m, k, TRUE)

removeSet(k) == m' = removeColl(m, k)

union(b) == m' = addAll(m, contents(b))

diff(b) == m' = FoldLeft(removeColl, m, contents(b))

mapSet(f) == m' = listSet([i \in DOMAIN contents(m) |-> f[contents(m)[i]]])

\* The array is updated in place, and the result is the table itself.
addHashTab(k, v) ==
  /\ Len(Bindings[k]) < MaxShadow
  /\ m' = [m EXCEPT ![hash(k)] = <<<<k, v>>>> \o @]

removeHashTab(k) == m' = [m EXCEPT ![hash(k)] = remove(@, k)]

MapNext ==
  \/ \E k \in KeysOf[sort], v \in Values : addMap(k, v)
  \/ \E k \in KeysOf[sort] : removeMap(k)
  \/ \E f \in [Values -> Values] : mapMap(f)

SetNext ==
  \/ \E k \in KeysOf[sort] : addSet(k)
  \/ \E k \in KeysOf[sort] : removeSet(k)
  \/ \E l \in Lists : union(listSet(l))
  \/ \E l \in Lists : diff(listSet(l))
  \/ \E f \in Functions : mapSet(f)

HashTabNext ==
  \/ \E k \in KeysOf[sort], v \in Values : addHashTab(k, v)
  \/ \E k \in KeysOf[sort] : removeHashTab(k)

Next ==
  /\ UNCHANGED sort
  /\ \/ sort = "Map" /\ MapNext
     \/ sort = "Set" /\ SetNext
     \/ sort = "HashTab" /\ HashTabNext

Spec == Init /\ [][Next]_vars

-----------------------------------------------------------------------------
(***************************************************************************)
(* Properties                                                              *)
(***************************************************************************)

RECURSIVE Height(_)
Height(t) ==
  IF IsNil(t) THEN 0 ELSE 1 + Max({Height(t.l), Height(t.r)})

RECURSIVE Balanced(_)
Balanced(t) ==
  \/ IsNil(t)
  \/ /\ t.bf = Height(t.l) - Height(t.r)
     /\ t.bf \in -1 .. 1
     /\ Balanced(t.l)
     /\ Balanced(t.r)

\* The keys from left to right.
RECURSIVE InOrder(_)
InOrder(t) == IF IsNil(t) THEN <<>> ELSE InOrder(t.l) \o <<t.k>> \o InOrder(t.r)

Ordered(t) ==
  LET keys == InOrder(t)
  IN \A i \in 2 .. Len(keys) : keys[i - 1] < keys[i]

(* The tree is balanced and ordered, and its factors are right, after every *)
(* sequence of operations: validateColl never fails, and the subtrees of a  *)
(* node differ in height by one at most.                                    *)
Valid == sort # "HashTab" => Balanced(m) /\ Ordered(m)

(* findMap, memSet, findHashTab, bindings and elements give what the keys   *)
(* are bound to, in ascending order, whatever was added and removed before. *)
LookupsAgree ==
  LET bindings == Bindings
      visible == {k \in Keys : bindings[k] # <<>>}
      latest(k) == bindings[k][1]
      found(k) == CASE sort = "HashTab" -> findHashTab(m, k)
                    [] sort = "Map" -> findColl(m, k)
                    [] sort = "Set" -> IF memSet(m, k) THEN <<TRUE>> ELSE <<>>
      keys == SetToSortSeq(visible, <)
  IN  /\ \A k \in visible : found(k) = <<latest(k)>>
      /\ \A k \in KeysOf[sort] \ visible : found(k) = <<>>
      /\ sort = "Map" => contents(m) = [i \in DOMAIN keys |->
                                          <<keys[i], latest(keys[i])>>]
      /\ sort = "Set" => contents(m) = keys

(* Every operation does to the bindings what it promises: a removal         *)
(* restores the value bound before, keys of the same class or subtree are   *)
(* not disturbed, unions, differences and images are those of sets.         *)
ImplementsAssociations == Abstract!Spec
=============================================================================

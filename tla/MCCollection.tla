---------------------------- MODULE MCCollection ----------------------------
(* A program that uses one of the collections: a map or a hash table of few *)
(* keys, whose values shadow each other, a set of more elements, or a memo  *)
(* table.                                                                   *)
EXTENDS Collection

CONSTANTS Texts, Tags, MaxArity, MaxObjects, Spared

VARIABLES store, table, answers

Memo == INSTANCE MemoTable

MCKeys == [Map |-> 1 .. 4, Set |-> 1 .. 7, HashTab |-> 1 .. 3]

\* Odd keys are in one class.
MCHash == [k \in Keys |-> k * k]

MCLists == {<<1, 3>>, <<4, 2>>, <<6, 5, 7>>}

\* Constant, order reversing and many-to-one.
MCFunctions ==
  {[k \in Keys |-> 2], [k \in Keys |-> 8 - k], [k \in Keys |-> (k + 1) \div 2]}

-----------------------------------------------------------------------------
memory == <<store, table, answers>>

\* A program does nothing to the map before or after it uses a memo table.
MCInit == Init /\ Memo!Init

MCNext ==
  \/ sort = "Map" /\ IsNil(m) /\ Memo!Next /\ UNCHANGED vars
  \/ Len(store) = 0 /\ Next /\ UNCHANGED memory

MCSpec == MCInit /\ [][MCNext]_<<vars, memory>>

(* Equal values have the same answer (see MemoTable). *)
Canonical == Memo!Canonical

(* Lookups leave the program's objects alone. *)
ArgumentsUntouched == Memo!ArgumentsUntouched

(* Equal parts of answers are the same. *)
PartsCanonical == Memo!PartsCanonical
=============================================================================

------------------------------ MODULE LamaHeap ------------------------------
(***************************************************************************)
(* The memory of a running Lama program as the collector of                *)
(* src/runtime/gc.c sees it: one contiguous heap of objects and the words  *)
(* outside it that may hold pointers into it.                              *)
(*                                                                         *)
(* Addresses are word addresses.  A word is an integer: a negative one is  *)
(* an unboxed value (lowest bit set in the code; which number it stands    *)
(* for never matters to the collector), the others are read as addresses.  *)
(* The code address of a closure, the tag of an S-expression and the       *)
(* characters of a string are raw words: any integer, an address in the    *)
(* heap included.                                                          *)
(*                                                                         *)
(* The heap is a function from the address of an object's header to the    *)
(* object; walking from hbegin, object by object, is how the code iterates *)
(* over it.                                                                *)
(***************************************************************************)
EXTENDS Integers, Sequences, FiniteSets

CONSTANTS
  HeaderWords,   (* DATA_HEADER_SZ in words: 2, or 3 in a DEBUG build      *)
  GlobalStart,   (* __start_custom_data: first word of the Lama globals    *)
  GlobalStop,    (* __stop_custom_data: first word after them              *)
  StackBottom    (* __gc_stack_bottom: first word after the Lama stack     *)

ASSUME HeaderWordsAssumption == HeaderWords \in Nat \ {0}

ASSUME LayoutAssumption ==
  /\ GlobalStart \in Nat /\ GlobalStop \in Nat /\ StackBottom \in Nat
  /\ GlobalStart <= GlobalStop /\ GlobalStop < StackBottom

VARIABLES
  pc,            (* which loop the collector is in, or the program        *)
  heap,          (* the objects, by header address                         *)
  hbegin,        (* heap.begin                                             *)
  hsize,         (* heap.size, in words                                    *)
  hcurrent,      (* heap.current: where the next object goes               *)
  words,         (* the words outside the heap                             *)
  stackTop,      (* __gc_stack_top                                         *)
  extraRoots     (* extra_roots: a LIFO of addresses of words              *)

memory == <<heap, hbegin, hsize, hcurrent, words, stackTop, extraRoots>>

hend == hbegin + hsize

Slot == GlobalStart .. StackBottom
-----------------------------------------------------------------------------
(***************************************************************************)
(* Objects.  "id" names an object for life: the code stores it in DEBUG    *)
(* builds only and no step of the collector reads it.                      *)
(***************************************************************************)
Kind == {"ARRAY", "STRING", "CLOSURE", "SEXP"}

Object == [id : Nat, kind : Kind, body : Seq(Int),
           fwd : Int, mark : BOOLEAN, enq : BOOLEAN]

Unboxed(w) == w < 0

ObjSize(o) == HeaderWords + Len(o.body)

Content(a) == a + HeaderWords      \* get_object_content_ptr
ToData(p) == p - HeaderWords       \* TO_DATA, get_obj_header_ptr

(* Where the fields start: after the code address of a closure and the tag *)
(* of an S-expression; a string has none.                                  *)
FirstField(o) == CASE o.kind = "ARRAY" -> 1
                   [] o.kind = "STRING" -> Len(o.body) + 1
                   [] OTHER -> 2

PtrFields(o) == {i \in FirstField(o) .. Len(o.body) : ~Unboxed(o.body[i])}

NextObj(h, a) == a + ObjSize(h[a])

(* The content pointer of an empty array at the end of the heap is         *)
(* heap.current itself, hence the inclusive upper bound.                   *)
InChunk(p, lo, hi) == ~Unboxed(p) /\ lo <= p /\ p <= hi

ValidHeapPointer(p) == InChunk(p, hbegin, hcurrent)
-----------------------------------------------------------------------------
(***************************************************************************)
(* The words the mark phase visits, in its order: the Lama stack above the *)
(* word at __gc_stack_top, the extra roots, the globals.                   *)
(***************************************************************************)
StackSlots == [i \in 1 .. StackBottom - stackTop - 1 |-> stackTop + i]

GlobalSlots == [i \in 1 .. GlobalStop - GlobalStart |-> GlobalStart + i - 1]

RootSlots == StackSlots \o extraRoots \o GlobalSlots

RootWords == {words[RootSlots[i]] : i \in 1 .. Len(RootSlots)}

(* What the object at a points to, and what is reachable from the roots:   *)
(* the least set of objects that holds what the roots point to and is      *)
(* closed under the fields of its members.                                 *)
Pointees(ws) == {ToData(w) : w \in {v \in ws : ValidHeapPointer(v)}}

Refs(a) == Pointees({heap[a].body[i] : i \in PtrFields(heap[a])})

Closed(S) == \A a \in S : Refs(a) \subseteq S

Reachable ==
  LET rooted == {S \in SUBSET DOMAIN heap : Pointees(RootWords) \subseteq S}
      closed == {S \in rooted : Closed(S)}
  IN {a \in DOMAIN heap : \A S \in closed : a \in S}
-----------------------------------------------------------------------------
(***************************************************************************)
(* The heap is laid out without holes or overlaps from hbegin to hcurrent, *)
(* and a word that is read as a pointer into the heap points to the        *)
(* contents of an object (the collector is precise: it has no test that    *)
(* tells an object's address from any other address in the heap).          *)
(***************************************************************************)
Contiguous(h, lo, hi) ==
  /\ lo <= hi
  /\ IsFiniteSet(DOMAIN h)
  /\ lo = hi \/ lo \in DOMAIN h
  /\ \A a \in DOMAIN h : /\ a \in Nat /\ lo <= a
                         /\ NextObj(h, a) = hi \/ NextObj(h, a) \in DOMAIN h
                         /\ NextObj(h, a) <= hi
  /\ \A a, b \in DOMAIN h : a < b => NextObj(h, a) <= b

PreciseRoots == Pointees(RootWords) \subseteq DOMAIN heap

PreciseFields == \A a \in DOMAIN heap : Refs(a) \subseteq DOMAIN heap

MemoryOK ==
  /\ hbegin \in Nat /\ hsize \in Nat /\ hcurrent \in hbegin .. hend
  /\ DOMAIN heap \subseteq Nat
  /\ \A a \in DOMAIN heap : heap[a] \in Object
  /\ words \in [Slot -> Int]
  /\ stackTop \in GlobalStop .. StackBottom - 1
  /\ extraRoots \in Seq(Slot)
=============================================================================

------------------------------ MODULE MarkPhase ------------------------------
(***************************************************************************)
(* mark_phase of src/runtime/gc.c: every root in turn is the start of a    *)
(* breadth-first traversal whose queue lives in the heap it traverses.     *)
(* The i-th object of the heap, in address order, lends its                *)
(* forward-address word to the i-th element of the queue, so that marking  *)
(* needs no memory of its own; the two low bits of the same word are the   *)
(* mark and the enqueued bit of the lending object.                        *)
(*                                                                         *)
(* One step is one iteration of the loop of a function.                    *)
(***************************************************************************)
EXTENDS LamaHeap

VARIABLES
  root,          (* index into RootSlots of the root being marked          *)
  qHead, qTail,  (* q_head_iter, q_tail_iter: next to read, next to write  *)
  obj,           (* cur_obj: the object whose fields are visited           *)
  field          (* index of the field of obj under the iterator           *)

markVars == <<root, qHead, qTail, obj, field>>

MarkPC == {"roots", "queue", "fields", "marked"}

IsMarked(p) == heap[ToData(p)].mark
IsEnqueued(p) == heap[ToData(p)].enq

(* Mutant: the iterator steps over the header of the lender only.          *)
EnqueueNextWord(tail, p) ==
  /\ heap' = [heap EXCEPT ![tail].fwd = p, ![ToData(p)].enq = TRUE]
  /\ qTail' = Content(tail)

(* Mutant: make_enqueued is forgotten.                                     *)
EnqueueUnflagged(tail, p) ==
  /\ heap' = [heap EXCEPT ![tail].fwd = p]
  /\ qTail' = NextObj(heap, tail)

(* Mutant: storing the address clears the bits that share its word.        *)
EnqueueDropsBits(tail, p) ==
  /\ heap' = [heap EXCEPT ![tail].fwd = p, ![tail].mark = FALSE,
                          ![tail].enq = FALSE, ![ToData(p)].enq = TRUE]
  /\ qTail' = NextObj(heap, tail)

(* queue_enqueue: the lender at the tail records p, and p is flagged.      *)
Enqueue(tail, p) ==
  /\ heap' = [heap EXCEPT ![tail].fwd = p, ![ToData(p)].enq = TRUE]
  /\ qTail' = NextObj(heap, tail)
-----------------------------------------------------------------------------
(* Mutant: as if no content pointer could be heap.current.                 *)
NeedsMarkStrict(p) == ValidHeapPointer(p) /\ p # hcurrent /\ ~IsMarked(p)

NeedsMark(p) == ValidHeapPointer(p) /\ ~IsMarked(p)

(* mark returns at once: not a pointer into the heap, or marked already.   *)
SkipRoot ==
  /\ pc = "roots" /\ root <= Len(RootSlots)
  /\ ~NeedsMark(words[RootSlots[root]])
  /\ root' = root + 1
  /\ UNCHANGED <<memory, pc, qHead, qTail, obj, field>>

(* mark starts a new queue at the first object of the heap.                *)
MarkRoot ==
  /\ pc = "roots" /\ root <= Len(RootSlots)
  /\ NeedsMark(words[RootSlots[root]])
  /\ qHead' = hbegin
  /\ Enqueue(hbegin, words[RootSlots[root]])
  /\ pc' = "queue"
  /\ UNCHANGED <<hbegin, hsize, hcurrent, words, stackTop, extraRoots,
                 root, obj, field>>

(* Mutant: the head of the queue is not advanced.                          *)
DequeueInPlace ==
  /\ pc = "queue" /\ qHead # qTail
  /\ obj' = ToData(heap[qHead].fwd)
  /\ heap' = [heap EXCEPT ![obj'].enq = FALSE, ![obj'].mark = TRUE]
  /\ field' = FirstField(heap[obj'])
  /\ pc' = "fields"
  /\ UNCHANGED <<hbegin, hsize, hcurrent, words, stackTop, extraRoots,
                 root, qHead, qTail>>

(* Mutant: the iterator over the fields starts at the second one.          *)
DequeueSecondField ==
  /\ pc = "queue" /\ qHead # qTail
  /\ obj' = ToData(heap[qHead].fwd)
  /\ heap' = [heap EXCEPT ![obj'].enq = FALSE, ![obj'].mark = TRUE]
  /\ qHead' = NextObj(heap, qHead)
  /\ field' = FirstField(heap[obj']) + 1
  /\ pc' = "fields"
  /\ UNCHANGED <<hbegin, hsize, hcurrent, words, stackTop, extraRoots,
                 root, qTail>>

(* queue_dequeue, mark_object, and the field iterator at its first field.  *)
Dequeue ==
  /\ pc = "queue" /\ qHead # qTail
  /\ obj' = ToData(heap[qHead].fwd)
  /\ heap' = [heap EXCEPT ![obj'].enq = FALSE, ![obj'].mark = TRUE]
  /\ qHead' = NextObj(heap, qHead)
  /\ field' = FirstField(heap[obj'])
  /\ pc' = "fields"
  /\ UNCHANGED <<hbegin, hsize, hcurrent, words, stackTop, extraRoots,
                 root, qTail>>

(* The loop of mark ends when the queue is empty.                          *)
RootDone ==
  /\ pc = "queue" /\ qHead = qTail
  /\ root' = root + 1
  /\ pc' = "roots"
  /\ UNCHANGED <<memory, qHead, qTail, obj, field>>

FieldWord == heap[obj].body[field]

(* Mutant: an object that waits in the queue is enqueued again.            *)
NeedsEnqueueAgain(p) == ValidHeapPointer(p) /\ ~IsMarked(p)

NeedsEnqueue(p) == ValidHeapPointer(p) /\ ~IsMarked(p) /\ ~IsEnqueued(p)

SkipField ==
  /\ pc = "fields" /\ field <= Len(heap[obj].body)
  /\ ~NeedsEnqueue(FieldWord)
  /\ field' = field + 1
  /\ UNCHANGED <<memory, pc, root, qHead, qTail, obj>>

EnqueueField ==
  /\ pc = "fields" /\ field <= Len(heap[obj].body)
  /\ NeedsEnqueue(FieldWord)
  /\ Enqueue(qTail, FieldWord)
  /\ field' = field + 1
  /\ UNCHANGED <<hbegin, hsize, hcurrent, words, stackTop, extraRoots,
                 pc, root, qHead, obj>>

FieldsDone ==
  /\ pc = "fields" /\ field > Len(heap[obj].body)
  /\ pc' = "queue"
  /\ UNCHANGED <<memory, markVars>>

AllRootsDone ==
  /\ pc = "roots" /\ root > Len(RootSlots)
  /\ pc' = "marked"
  /\ UNCHANGED <<memory, markVars>>

MarkNext ==
  \/ SkipRoot \/ MarkRoot \/ RootDone \/ AllRootsDone
  \/ Dequeue \/ SkipField \/ EnqueueField \/ FieldsDone
-----------------------------------------------------------------------------
(* A collection starts with no object marked or enqueued; what the         *)
(* forward-address words hold is left from an earlier one.                 *)
Unmarked == \A a \in DOMAIN heap : ~heap[a].mark /\ ~heap[a].enq

MarkStart == pc = "roots" /\ root = 1

MarkInit ==
  /\ MemoryOK
  /\ Contiguous(heap, hbegin, hcurrent)
  /\ PreciseRoots /\ PreciseFields
  /\ Unmarked
  /\ MarkStart
  /\ qHead = hbegin /\ qTail = hbegin /\ obj = hbegin /\ field = 1

markState == <<memory, pc, markVars>>

MarkSpec == MarkInit /\ [][MarkNext]_markState

FairMarkSpec == MarkSpec /\ WF_markState(MarkNext)
-----------------------------------------------------------------------------
Lenders(lo, hi) == {a \in DOMAIN heap : lo <= a /\ a < hi}

Lent(a) == ToData(heap[a].fwd)

Marking == pc \in {"queue", "fields"}

(* Every variable has its type, and the iterators are at objects.          *)
MarkTypeOK ==
  /\ MemoryOK
  /\ pc \in MarkPC
  /\ root \in 1 .. Len(RootSlots) + 1
  /\ {qHead, qTail} \subseteq DOMAIN heap \cup {hcurrent}
  /\ obj \in DOMAIN heap \cup {hbegin}
  /\ field \in Nat \ {0}

(* "queue contains only objects that are valid heap pointers (each         *)
(* corresponding to content of unmarked object) also each object is in     *)
(* queue only once" (the comment in mark): and the objects flagged as      *)
(* enqueued are the ones in the queue, so that the test on the flag is a   *)
(* test of membership.                                                     *)
QueueInvariant ==
  /\ Marking =>
       /\ \A a \in Lenders(qHead, qTail) :
            Lent(a) \in DOMAIN heap /\ ~heap[Lent(a)].mark
       /\ \A a, b \in Lenders(qHead, qTail) : Lent(a) = Lent(b) => a = b
  /\ {o \in DOMAIN heap : heap[o].enq} =
       IF Marking THEN {Lent(a) : a \in Lenders(qHead, qTail)} ELSE {}

(* "Already allocated space is sufficient" (gc.h): whenever an object has  *)
(* to be enqueued there is an object left to lend its forward-address      *)
(* word, and it is not one whose word holds an element yet to be read.     *)
QueueFits ==
  pc = "fields" /\ field <= Len(heap[obj].body) /\ NeedsEnqueue(FieldWord)
    => qTail \in DOMAIN heap /\ qHead <= qTail

(* Only what is reachable from the roots is ever marked or enqueued; when  *)
(* the phase ends all of it is marked and no enqueued bit is left, whatever *)
(* order the objects lie in and however the roots share structure.         *)
MarkExact ==
  /\ \A a \in DOMAIN heap : heap[a].mark \/ heap[a].enq => a \in Reachable
  /\ pc = "marked" => /\ \A a \in Reachable : heap[a].mark
                      /\ \A a \in DOMAIN heap : ~heap[a].enq

(* A step of marking takes no mark back and changes no object except in    *)
(* its forward-address word.                                               *)
MarkStep ==
  /\ DOMAIN heap' = DOMAIN heap
  /\ \A a \in DOMAIN heap : /\ heap[a].mark => heap'[a].mark
                            /\ heap'[a].body = heap[a].body
                            /\ heap'[a].kind = heap[a].kind
                            /\ heap'[a].id = heap[a].id
MarkIsBenign == [][MarkStep]_markState

(* Marking ends, cyclic object graphs included.                            *)
MarkTerminates == <>(pc = "marked")
=============================================================================

--------------------------- MODULE MarkPhaseProofs ---------------------------
(***************************************************************************)
(* Theorems about the mark phase, for every heap, every set of roots and   *)
(* every header size.  The inductive invariant MarkIInv strengthens the    *)
(* properties of MarkPhase by what each loop knows of the queue: which     *)
(* lenders hold an element already read, which an element yet to be read,  *)
(* and which fields of which object are still to be visited.               *)
(***************************************************************************)
EXTENDS MarkPhase, FiniteSetTheorems, TLAPS

(* The queue: lenders below qHead hold marked objects, lenders between     *)
(* qHead and qTail hold enqueued ones, no two lenders hold the same one,   *)
(* and every enqueued object is held.                                      *)
QueueShape ==
  /\ Marking =>
       /\ hbegin <= qHead /\ qHead <= qTail
       /\ \A a \in Lenders(hbegin, qTail) : Lent(a) \in DOMAIN heap
       /\ \A a \in Lenders(qHead, qTail) :
            heap[Lent(a)].enq /\ ~heap[Lent(a)].mark
       /\ \A a \in Lenders(hbegin, qHead) : heap[Lent(a)].mark
       /\ \A a, b \in Lenders(hbegin, qTail) : Lent(a) = Lent(b) => a = b
  /\ \A o \in DOMAIN heap :
       heap[o].enq => /\ Marking
                      /\ \E a \in Lenders(qHead, qTail) : Lent(a) = o

(* The object whose fields are visited is marked, and the iterator is at   *)
(* or after its first field.                                               *)
Visiting ==
  pc = "fields" => /\ obj \in DOMAIN heap
                   /\ heap[obj].mark
                   /\ FirstField(heap[obj]) <= field

Found(p) == heap[ToData(p)].mark \/ heap[ToData(p)].enq

(* Nothing outside a closed set that holds the roots is ever found.        *)
OnlyReachable ==
  \A S \in SUBSET DOMAIN heap :
    Pointees(RootWords) \subseteq S /\ Closed(S) =>
      \A a \in DOMAIN heap : heap[a].mark \/ heap[a].enq => a \in S

(* What a marked object points to is found, except through the fields the  *)
(* iterator has not passed.                                                *)
FieldsFound ==
  \A a \in DOMAIN heap : heap[a].mark =>
    \A i \in PtrFields(heap[a]) :
      ValidHeapPointer(heap[a].body[i]) =>
        \/ Found(heap[a].body[i])
        \/ pc = "fields" /\ a = obj /\ field <= i

(* What the roots already passed point to is found, the current one while  *)
(* its queue is drained included.                                          *)
RootsFound ==
  /\ \A i \in 1 .. Len(RootSlots) :
       i < root /\ ValidHeapPointer(words[RootSlots[i]]) =>
         Found(words[RootSlots[i]])
  /\ Marking => /\ root <= Len(RootSlots)
                /\ ValidHeapPointer(words[RootSlots[root]])
                /\ Found(words[RootSlots[root]])
  /\ pc = "marked" => root > Len(RootSlots)

Shape ==
  /\ Contiguous(heap, hbegin, hcurrent)
  /\ PreciseRoots /\ PreciseFields

MarkIInv ==
  /\ MarkTypeOK /\ Shape
  /\ QueueShape /\ Visiting
  /\ OnlyReachable /\ FieldsFound /\ RootsFound
-----------------------------------------------------------------------------
(* The words the mark phase visits are words outside the heap.             *)
LEMMA RootSlotsType ==
  ASSUME MemoryOK
  PROVE  /\ RootSlots \in Seq(Slot)
         /\ Len(RootSlots) \in Nat
         /\ \A i \in 1 .. Len(RootSlots) : words[RootSlots[i]] \in Int
<1> USE LayoutAssumption
<1>1. stackTop \in Int /\ StackBottom - stackTop - 1 \in Nat /\ GlobalStop <= stackTop
  BY DEF MemoryOK
<1>2. StackSlots \in Seq(Slot)
  BY <1>1 DEF Slot, StackSlots
<1>3. GlobalSlots \in Seq(Slot)
  BY <1>1 DEF Slot, GlobalSlots
<1>4. extraRoots \in Seq(Slot)
  BY DEF MemoryOK
<1>5. RootSlots = StackSlots \o extraRoots \o GlobalSlots
  BY DEF RootSlots
<1>6. StackSlots \o extraRoots \in Seq(Slot)
  BY <1>2, <1>4
<1>7. RootSlots \in Seq(Slot)
  BY <1>3, <1>5, <1>6
<1>8. \A i \in 1 .. Len(RootSlots) : RootSlots[i] \in Slot
  BY <1>7
<1> QED
  BY <1>7, <1>8 DEF MemoryOK

(* Sizes and the order of the objects in a contiguous heap: the next       *)
(* object is past this one, and nothing lies between.                      *)
LEMMA ObjectsFollow ==
  ASSUME MemoryOK, Contiguous(heap, hbegin, hcurrent),
         NEW t \in DOMAIN heap
  PROVE  /\ t \in Nat /\ NextObj(heap, t) \in Nat
         /\ hbegin <= t /\ t < NextObj(heap, t)
         /\ NextObj(heap, t) <= hcurrent
         /\ NextObj(heap, t) \in DOMAIN heap \cup {hcurrent}
         /\ \A a \in DOMAIN heap : a < NextObj(heap, t) => a <= t
<1>1. heap[t] \in Object /\ t \in Nat
  BY DEF MemoryOK
<1>2. Len(heap[t].body) \in Nat
  BY <1>1 DEF Object
<1>3. NextObj(heap, t) \in Nat /\ t < NextObj(heap, t)
  BY <1>1, <1>2, HeaderWordsAssumption DEF NextObj, ObjSize
<1>4. \A a \in DOMAIN heap : t < a => NextObj(heap, t) <= a
  BY DEF Contiguous
<1>5. \A a \in DOMAIN heap : a \in Nat
  BY DEF MemoryOK
<1> QED
  BY <1>1, <1>3, <1>4, <1>5 DEF Contiguous

(* What a change of forward-address words leaves as it was.                *)
SameShape ==
  /\ DOMAIN heap' = DOMAIN heap
  /\ \A a \in DOMAIN heap : /\ heap'[a] \in Object
                            /\ heap'[a].body = heap[a].body
                            /\ heap'[a].kind = heap[a].kind
                            /\ heap'[a].id = heap[a].id
  /\ UNCHANGED <<hbegin, hsize, hcurrent, words, stackTop, extraRoots>>

LEMMA ShapeKept ==
  ASSUME SameShape, MemoryOK, Shape
  PROVE  /\ MemoryOK' /\ Shape'
         /\ RootSlots' = RootSlots /\ RootWords' = RootWords
         /\ Pointees(RootWords)' = Pointees(RootWords)
         /\ \A w : ValidHeapPointer(w)' = ValidHeapPointer(w)
         /\ \A a \in DOMAIN heap : /\ Refs(a)' = Refs(a)
                                   /\ NextObj(heap, a)' = NextObj(heap, a)
                                   /\ PtrFields(heap[a])' = PtrFields(heap[a])
                                   /\ FirstField(heap[a])' = FirstField(heap[a])
         /\ \A S : S \subseteq DOMAIN heap => (Closed(S)' <=> Closed(S))
<1> USE DEF SameShape
<1>1. RootSlots' = RootSlots
  BY DEF RootSlots, StackSlots, GlobalSlots
<1>2. RootWords' = RootWords
  BY <1>1 DEF RootWords
<1>3. \A w : ValidHeapPointer(w)' = ValidHeapPointer(w)
  BY DEF ValidHeapPointer, InChunk
<1>4. ASSUME NEW ws PROVE Pointees(ws)' = Pointees(ws)
  BY <1>3 DEF Pointees
<1>5. ASSUME NEW a \in DOMAIN heap
      PROVE  /\ NextObj(heap, a)' = NextObj(heap, a)
             /\ PtrFields(heap[a])' = PtrFields(heap[a])
             /\ FirstField(heap[a])' = FirstField(heap[a])
             /\ Refs(a)' = Refs(a)
  <2>1. heap'[a].body = heap[a].body /\ heap'[a].kind = heap[a].kind
    OBVIOUS
  <2>2. NextObj(heap, a)' = NextObj(heap, a)
    BY <2>1 DEF NextObj, ObjSize
  <2>3. FirstField(heap[a])' = FirstField(heap[a])
    BY <2>1 DEF FirstField
  <2>4. PtrFields(heap[a])' = PtrFields(heap[a])
    BY <2>1, <2>3 DEF PtrFields
  <2>5. Refs(a)' = Refs(a)
    BY <2>1, <2>4, <1>3 DEF Refs, Pointees
  <2> QED
    BY <2>2, <2>3, <2>4, <2>5
<1>6. Pointees(RootWords)' = Pointees(RootWords)
  BY <1>2, <1>3 DEF Pointees
<1>7. \A S : S \subseteq DOMAIN heap => (Closed(S)' <=> Closed(S))
  BY <1>5 DEF Closed
<1>8. MemoryOK'
  BY DEF MemoryOK, hend
<1>9. Contiguous(heap, hbegin, hcurrent)'
  BY <1>5 DEF Shape, Contiguous
<1>10. PreciseRoots' /\ PreciseFields'
  BY <1>5, <1>6 DEF Shape, PreciseRoots, PreciseFields
<1> QED
  BY <1>1, <1>2, <1>3, <1>5, <1>6, <1>7, <1>8, <1>9, <1>10 DEF Shape
-----------------------------------------------------------------------------
(* queue_enqueue(t, p): t lends its word to p, p is flagged, and that is   *)
(* all that changes.                                                       *)
LEMMA EnqueueFacts ==
  ASSUME MemoryOK,
         NEW t \in DOMAIN heap, NEW p \in Int, ToData(p) \in DOMAIN heap,
         Enqueue(t, p),
         UNCHANGED <<hbegin, hsize, hcurrent, words, stackTop, extraRoots>>
  PROVE  /\ SameShape
         /\ qTail' = NextObj(heap, t)
         /\ \A a \in DOMAIN heap :
              /\ (heap'[a].mark <=> heap[a].mark)
              /\ (heap'[a].enq <=> heap[a].enq \/ a = ToData(p))
              /\ heap'[a].fwd = IF a = t THEN p ELSE heap[a].fwd
<1> DEFINE o == ToData(p)
           h1 == [heap EXCEPT ![t].fwd = p]
<1>1. \A a \in DOMAIN heap :
        heap[a] = [id |-> heap[a].id, kind |-> heap[a].kind,
                   body |-> heap[a].body, fwd |-> heap[a].fwd,
                   mark |-> heap[a].mark, enq |-> heap[a].enq]
        /\ heap[a] \in Object
  BY DEF MemoryOK, Object
<1>2. /\ DOMAIN h1 = DOMAIN heap
      /\ \A a \in DOMAIN heap :
           /\ h1[a] \in Object
           /\ h1[a].fwd = IF a = t THEN p ELSE heap[a].fwd
           /\ h1[a].id = heap[a].id /\ h1[a].kind = heap[a].kind
           /\ h1[a].body = heap[a].body
           /\ (h1[a].mark <=> heap[a].mark)
           /\ (h1[a].enq <=> heap[a].enq)
  BY <1>1 DEF Object
<1>3. heap' = [h1 EXCEPT ![o].enq = TRUE]
  BY DEF Enqueue
<1>4. /\ DOMAIN heap' = DOMAIN heap
      /\ \A a \in DOMAIN heap :
           /\ heap'[a] \in Object
           /\ (heap'[a].enq <=> h1[a].enq \/ a = o)
           /\ heap'[a].fwd = h1[a].fwd /\ heap'[a].id = h1[a].id
           /\ heap'[a].kind = h1[a].kind /\ heap'[a].body = h1[a].body
           /\ (heap'[a].mark <=> h1[a].mark)
  <2> HIDE DEF h1
  <2>1. heap' = [a \in DOMAIN h1 |->
                  IF a = o THEN [h1[a] EXCEPT !.enq = TRUE] ELSE h1[a]]
    BY <1>2, <1>3
  <2> QED
    BY <1>2, <2>1 DEF Object
<1>5. qTail' = NextObj(heap, t)
  BY DEF Enqueue
<1> QED
  BY <1>2, <1>4, <1>5 DEF SameShape

LEMMA MarkObject ==
  ASSUME NEW x \in Object
  PROVE  LET y == [x EXCEPT !.mark = TRUE]
         IN /\ y \in Object /\ y.mark
            /\ y.id = x.id /\ y.kind = x.kind /\ y.body = x.body
            /\ y.fwd = x.fwd /\ (y.enq <=> x.enq)
<1>1. [x EXCEPT !.mark = TRUE] \in Object
  BY DEF Object
<1> QED
  BY <1>1 DEF Object

(* queue_dequeue and mark_object.                                          *)
LEMMA DequeueFacts ==
  ASSUME MemoryOK, NEW o \in DOMAIN heap,
         heap' = [heap EXCEPT ![o].enq = FALSE, ![o].mark = TRUE],
         UNCHANGED <<hbegin, hsize, hcurrent, words, stackTop, extraRoots>>
  PROVE  /\ SameShape
         /\ \A a \in DOMAIN heap :
              /\ (heap'[a].mark <=> heap[a].mark \/ a = o)
              /\ (heap'[a].enq <=> heap[a].enq /\ a # o)
              /\ heap'[a].fwd = heap[a].fwd
<1> DEFINE h1 == [heap EXCEPT ![o].enq = FALSE]
<1>1. \A a \in DOMAIN heap : heap[a] \in Object
  BY DEF MemoryOK
<1>2. /\ DOMAIN h1 = DOMAIN heap
      /\ \A a \in DOMAIN heap :
           /\ h1[a] \in Object
           /\ (h1[a].enq <=> heap[a].enq /\ a # o)
           /\ h1[a].id = heap[a].id
           /\ h1[a].fwd = heap[a].fwd /\ h1[a].kind = heap[a].kind
           /\ h1[a].body = heap[a].body /\ (h1[a].mark <=> heap[a].mark)
  BY <1>1 DEF Object
<1>3. heap' = [h1 EXCEPT ![o].mark = TRUE]
  OBVIOUS
<1>4. /\ DOMAIN heap' = DOMAIN heap
      /\ \A a \in DOMAIN heap :
           /\ heap'[a] \in Object
           /\ (heap'[a].mark <=> h1[a].mark \/ a = o)
           /\ (heap'[a].enq <=> h1[a].enq)
           /\ heap'[a].fwd = h1[a].fwd /\ heap'[a].id = h1[a].id
           /\ heap'[a].kind = h1[a].kind /\ heap'[a].body = h1[a].body
  <2> HIDE DEF h1
  <2>1. heap' = [a \in DOMAIN h1 |->
                  IF a = o THEN [h1[a] EXCEPT !.mark = TRUE] ELSE h1[a]]
    BY <1>2, <1>3
  <2>2. DOMAIN heap' = DOMAIN heap
    BY <1>2, <2>1
  <2>3. ASSUME NEW a \in DOMAIN heap, a # o
        PROVE  heap'[a] = h1[a]
    BY <1>2, <2>1, <2>3
  <2>4. heap'[o] = [h1[o] EXCEPT !.mark = TRUE]
    BY <1>2, <2>1
  <2>5. heap'[o] \in Object /\ heap'[o].mark /\ heap'[o].fwd = h1[o].fwd
        /\ heap'[o].id = h1[o].id
        /\ heap'[o].kind = h1[o].kind /\ heap'[o].body = h1[o].body
        /\ (heap'[o].enq <=> h1[o].enq)
    <3>1. h1[o] \in Object
      BY <1>2
    <3> QED
      BY Zenon, <2>4, <3>1, MarkObject
  <2> QED
    BY <1>2, <2>2, <2>3, <2>5
<1> QED
  BY <1>2, <1>4 DEF SameShape

(* A word among the roots or the fields that is in the heap's range points *)
(* to an object.                                                           *)
LEMMA RootIsObject ==
  ASSUME MarkIInv, NEW i \in 1 .. Len(RootSlots),
         ValidHeapPointer(words[RootSlots[i]])
  PROVE  /\ words[RootSlots[i]] \in Int
         /\ ToData(words[RootSlots[i]]) \in DOMAIN heap
         /\ ToData(words[RootSlots[i]]) \in Pointees(RootWords)
<1>1. words[RootSlots[i]] \in RootWords
  BY DEF RootWords
<1>2. ToData(words[RootSlots[i]]) \in Pointees(RootWords)
  BY <1>1 DEF Pointees
<1> QED
  BY <1>2, RootSlotsType DEF MarkIInv, MarkTypeOK, Shape, PreciseRoots

LEMMA FieldIsObject ==
  ASSUME MarkIInv, NEW a \in DOMAIN heap, NEW i \in Nat,
         FirstField(heap[a]) <= i, i <= Len(heap[a].body),
         ValidHeapPointer(heap[a].body[i])
  PROVE  /\ heap[a].body[i] \in Int
         /\ i \in PtrFields(heap[a])
         /\ ToData(heap[a].body[i]) \in DOMAIN heap
         /\ ToData(heap[a].body[i]) \in Refs(a)
<1>1. heap[a] \in Object
  BY DEF MarkIInv, MarkTypeOK, MemoryOK
<1>2. heap[a].body \in Seq(Int) /\ FirstField(heap[a]) \in 1 .. Len(heap[a].body) + 2
  BY <1>1 DEF Object, FirstField
<1>3. i \in 1 .. Len(heap[a].body) /\ heap[a].body[i] \in Int
  BY <1>2
<1>4. i \in PtrFields(heap[a])
  BY <1>2, <1>3 DEF PtrFields, ValidHeapPointer, InChunk
<1>5. heap[a].body[i] \in {heap[a].body[j] : j \in PtrFields(heap[a])}
  BY <1>4
<1>6. ToData(heap[a].body[i]) \in Refs(a)
  BY <1>5 DEF Refs, Pointees
<1> QED
  BY <1>3, <1>4, <1>6 DEF MarkIInv, Shape, PreciseFields

(* There is always an object left to lend its word: if every object had    *)
(* lent it already, the queue would have held every object, the one about  *)
(* to be enqueued included.                                                *)
LEMMA LenderLeft ==
  ASSUME MarkIInv, Marking, NEW o \in DOMAIN heap,
         ~heap[o].mark, ~heap[o].enq
  PROVE  qTail \in DOMAIN heap
<1> SUFFICES ASSUME qTail \notin DOMAIN heap PROVE FALSE
  OBVIOUS
<1>1. qTail = hcurrent
  BY DEF MarkIInv, MarkTypeOK
<1>2. \A a \in DOMAIN heap : hbegin <= a /\ a < qTail
  BY <1>1, ObjectsFollow DEF MarkIInv, MarkTypeOK, Shape, MemoryOK
<1>3. Lenders(hbegin, qTail) = DOMAIN heap
  BY <1>2 DEF Lenders
<1> DEFINE f == [a \in DOMAIN heap |-> Lent(a)]
<1>4. f \in Injection(DOMAIN heap, DOMAIN heap)
  BY <1>3 DEF MarkIInv, QueueShape, Injection, IsInjective
<1>5. IsFiniteSet(DOMAIN heap)
  BY DEF MarkIInv, Shape, Contiguous
<1>6. f \in Surjection(DOMAIN heap, DOMAIN heap)
  BY <1>4, <1>5, FS_Injection
<1>7. PICK a \in DOMAIN heap : Lent(a) = o
  BY <1>6 DEF Surjection
<1>8. a \in Lenders(hbegin, qHead) \/ a \in Lenders(qHead, qTail)
  BY <1>2, <1>7 DEF Lenders, MarkIInv, MarkTypeOK, MemoryOK, QueueShape
<1> QED
  BY <1>7, <1>8 DEF MarkIInv, QueueShape
-----------------------------------------------------------------------------
(* The steps that leave the memory alone.                                  *)
LEMMA MemoryKept ==
  ASSUME MarkIInv, UNCHANGED memory
  PROVE  /\ SameShape /\ MemoryOK' /\ Shape'
         /\ OnlyReachable'
         /\ RootSlots' = RootSlots
         /\ \A w : /\ ValidHeapPointer(w)' = ValidHeapPointer(w)
                   /\ Found(w)' = Found(w)
<1>1. SameShape
  BY DEF SameShape, memory, MarkIInv, MarkTypeOK, MemoryOK
<1>2. /\ MemoryOK' /\ Shape'
      /\ RootSlots' = RootSlots
      /\ Pointees(RootWords)' = Pointees(RootWords)
      /\ \A w : ValidHeapPointer(w)' = ValidHeapPointer(w)
      /\ \A S : S \subseteq DOMAIN heap => (Closed(S)' <=> Closed(S))
  BY <1>1, ShapeKept DEF MarkIInv, MarkTypeOK
<1>3. OnlyReachable'
  BY <1>2 DEF OnlyReachable, memory, MarkIInv
<1>4. \A w : Found(w)' = Found(w)
  BY DEF Found, memory
<1> QED
  BY <1>1, <1>2, <1>3, <1>4

LEMMA SkipRootStep == ASSUME MarkIInv, SkipRoot PROVE MarkIInv'
<1> USE DEF SkipRoot
<1>1. UNCHANGED memory
  OBVIOUS
<1>2. MarkTypeOK' /\ Shape' /\ OnlyReachable'
  BY <1>1, MemoryKept, RootSlotsType DEF MarkIInv, MarkTypeOK, memory
<1>3. QueueShape' /\ Visiting' /\ FieldsFound'
  BY <1>1, MemoryKept
  DEF MarkIInv, QueueShape, Visiting, FieldsFound, Marking, Lenders, Lent,
      Found, memory
<1>4. RootsFound'
  <2> SUFFICES ASSUME NEW i \in 1 .. Len(RootSlots), i < root + 1,
                      ValidHeapPointer(words[RootSlots[i]])
               PROVE  Found(words[RootSlots[i]])
    BY <1>1, MemoryKept DEF RootsFound, Marking, memory
  <2>1. CASE i < root
    BY <2>1 DEF MarkIInv, RootsFound
  <2>2. CASE i = root
    BY <2>2 DEF NeedsMark, IsMarked, Found
  <2> QED
    BY <2>1, <2>2 DEF MarkIInv, MarkTypeOK
<1> QED
  BY <1>2, <1>3, <1>4 DEF MarkIInv

LEMMA RootDoneStep == ASSUME MarkIInv, RootDone PROVE MarkIInv'
<1> USE DEF RootDone
<1>1. UNCHANGED memory
  OBVIOUS
<1>2. MarkTypeOK' /\ Shape' /\ OnlyReachable'
  BY <1>1, MemoryKept, RootSlotsType
  DEF MarkIInv, MarkTypeOK, MarkPC, memory, RootsFound, Marking
<1>3. \A o \in DOMAIN heap : ~heap[o].enq
  <2>1. qHead \in Int /\ \A a \in DOMAIN heap : a \in Int
    BY DEF MarkIInv, MarkTypeOK, MemoryOK
  <2>2. Lenders(qHead, qTail) = {}
    BY <2>1 DEF Lenders
  <2> QED
    BY <2>2 DEF MarkIInv, QueueShape
<1>4. QueueShape' /\ Visiting' /\ FieldsFound'
  BY <1>1, <1>3, MemoryKept
  DEF MarkIInv, QueueShape, Visiting, FieldsFound, Marking, Found, memory
<1>5. RootsFound'
  <2> SUFFICES ASSUME NEW i \in 1 .. Len(RootSlots), i < root + 1,
                      ValidHeapPointer(words[RootSlots[i]])
               PROVE  Found(words[RootSlots[i]])
    BY <1>1, MemoryKept DEF RootsFound, Marking, memory
  <2>1. CASE i < root
    BY <2>1 DEF MarkIInv, RootsFound
  <2>2. CASE i = root
    BY <2>2 DEF MarkIInv, RootsFound, Marking
  <2> QED
    BY <2>1, <2>2 DEF MarkIInv, MarkTypeOK
<1> QED
  BY <1>2, <1>4, <1>5 DEF MarkIInv

LEMMA SkipFieldStep == ASSUME MarkIInv, SkipField PROVE MarkIInv'
<1> USE DEF SkipField
<1>1. UNCHANGED memory
  OBVIOUS
<1>2. MarkTypeOK' /\ Shape' /\ OnlyReachable' /\ RootsFound'
  BY <1>1, MemoryKept
  DEF MarkIInv, MarkTypeOK, memory, RootsFound, Marking
<1>3. QueueShape' /\ Visiting'
  BY <1>1 DEF MarkIInv, MarkTypeOK, QueueShape, Visiting, Marking, Lenders, Lent,
              memory, FirstField, MemoryOK, Object
<1>4. FieldsFound'
  <2> SUFFICES ASSUME NEW a \in DOMAIN heap, heap[a].mark,
                      NEW i \in PtrFields(heap[a]),
                      ValidHeapPointer(heap[a].body[i]),
                      ~Found(heap[a].body[i])
               PROVE  a = obj /\ field + 1 <= i
    BY <1>1, MemoryKept DEF FieldsFound, memory, Found
  <2>1. a = obj /\ field <= i
    BY DEF MarkIInv, FieldsFound
  <2>2. field # i
    BY <2>1 DEF NeedsEnqueue, IsMarked, IsEnqueued, Found, FieldWord
  <2>3. i \in Int /\ field \in Int
    BY DEF PtrFields, MarkIInv, MarkTypeOK, MemoryOK, Object, FirstField
  <2> QED
    BY <2>1, <2>2, <2>3
<1> QED
  BY <1>2, <1>3, <1>4 DEF MarkIInv

LEMMA FieldsDoneStep == ASSUME MarkIInv, FieldsDone PROVE MarkIInv'
<1> USE DEF FieldsDone
<1>1. UNCHANGED memory /\ UNCHANGED markVars
  OBVIOUS
<1>2. MarkTypeOK' /\ Shape' /\ OnlyReachable' /\ RootsFound'
  BY <1>1, MemoryKept
  DEF MarkIInv, MarkTypeOK, MarkPC, memory, markVars, RootsFound, Marking
<1>3. QueueShape' /\ Visiting'
  BY <1>1 DEF MarkIInv, QueueShape, Visiting, Marking, Lenders, Lent,
              memory, markVars
<1>4. FieldsFound'
  <2> SUFFICES ASSUME NEW a \in DOMAIN heap, heap[a].mark,
                      NEW i \in PtrFields(heap[a]),
                      ValidHeapPointer(heap[a].body[i])
               PROVE  Found(heap[a].body[i])
    BY <1>1, MemoryKept DEF FieldsFound, memory, Found
  <2>1. i <= Len(heap[a].body) /\ i \in Int
    BY DEF PtrFields, MarkIInv, MarkTypeOK, MemoryOK, Object, FirstField
  <2>2. ~(a = obj /\ field <= i)
    BY <2>1 DEF MarkIInv, MarkTypeOK, MemoryOK, Object
  <2> QED
    BY <2>2 DEF MarkIInv, FieldsFound
<1> QED
  BY <1>2, <1>3, <1>4 DEF MarkIInv

LEMMA AllRootsDoneStep == ASSUME MarkIInv, AllRootsDone PROVE MarkIInv'
<1> USE DEF AllRootsDone
<1>1. UNCHANGED memory /\ UNCHANGED markVars
  OBVIOUS
<1>2. MarkTypeOK' /\ Shape' /\ OnlyReachable' /\ RootsFound'
  BY <1>1, MemoryKept
  DEF MarkIInv, MarkTypeOK, MarkPC, memory, markVars, RootsFound, Marking
<1>3. QueueShape' /\ Visiting' /\ FieldsFound'
  BY <1>1, MemoryKept
  DEF MarkIInv, QueueShape, Visiting, FieldsFound, Marking, Found,
      memory, markVars
<1> QED
  BY <1>2, <1>3 DEF MarkIInv
-----------------------------------------------------------------------------
(* The steps that write forward-address words.                             *)
LEMMA EnqueueKeeps ==
  ASSUME MarkIInv,
         NEW t \in DOMAIN heap, NEW p \in Int, ToData(p) \in DOMAIN heap,
         Enqueue(t, p),
         UNCHANGED <<hbegin, hsize, hcurrent, words, stackTop, extraRoots>>,
         \A S \in SUBSET DOMAIN heap :
           Pointees(RootWords) \subseteq S /\ Closed(S) => ToData(p) \in S
  PROVE  /\ MemoryOK' /\ Shape' /\ OnlyReachable'
         /\ DOMAIN heap' = DOMAIN heap
         /\ RootSlots' = RootSlots
         /\ \A w : ValidHeapPointer(w)' = ValidHeapPointer(w)
         /\ \A w : ToData(w) \in DOMAIN heap /\ Found(w) => Found(w)'
         /\ Found(p)'
         /\ \A a \in DOMAIN heap :
              /\ (heap'[a].mark <=> heap[a].mark)
              /\ (heap'[a].enq <=> heap[a].enq \/ a = ToData(p))
              /\ heap'[a].body = heap[a].body
              /\ PtrFields(heap[a])' = PtrFields(heap[a])
              /\ FirstField(heap[a])' = FirstField(heap[a])
              /\ Lent(a)' = IF a = t THEN ToData(p) ELSE Lent(a)
<1>1. MemoryOK /\ Shape
  BY DEF MarkIInv, MarkTypeOK
<1>2. /\ SameShape
      /\ \A a \in DOMAIN heap :
           /\ (heap'[a].mark <=> heap[a].mark)
           /\ (heap'[a].enq <=> heap[a].enq \/ a = ToData(p))
           /\ heap'[a].fwd = IF a = t THEN p ELSE heap[a].fwd
  BY <1>1, EnqueueFacts
<1>3. /\ MemoryOK' /\ Shape'
      /\ RootSlots' = RootSlots
      /\ Pointees(RootWords)' = Pointees(RootWords)
      /\ \A w : ValidHeapPointer(w)' = ValidHeapPointer(w)
      /\ \A a \in DOMAIN heap : /\ PtrFields(heap[a])' = PtrFields(heap[a])
                                /\ FirstField(heap[a])' = FirstField(heap[a])
      /\ \A S : S \subseteq DOMAIN heap => (Closed(S)' <=> Closed(S))
  BY <1>1, <1>2, ShapeKept
<1>4. /\ DOMAIN heap' = DOMAIN heap
      /\ \A a \in DOMAIN heap : heap'[a].body = heap[a].body
  BY <1>2 DEF SameShape
<1>5. \A a \in DOMAIN heap : Lent(a)' = IF a = t THEN ToData(p) ELSE Lent(a)
  BY <1>2 DEF Lent
<1>6. \A w : ToData(w) \in DOMAIN heap /\ Found(w) => Found(w)'
  BY <1>2 DEF Found, ToData
<1>7. Found(p)'
  BY <1>2 DEF Found, ToData
<1>8. OnlyReachable'
  <2> SUFFICES ASSUME NEW S \in SUBSET DOMAIN heap,
                      Pointees(RootWords) \subseteq S, Closed(S),
                      NEW a \in DOMAIN heap, heap'[a].mark \/ heap'[a].enq
               PROVE  a \in S
    BY <1>3, <1>4 DEF OnlyReachable
  <2>1. heap[a].mark \/ heap[a].enq \/ a = ToData(p)
    BY <1>2
  <2> QED
    BY <2>1 DEF MarkIInv, OnlyReachable
<1> QED
  BY <1>2, <1>3, <1>4, <1>5, <1>6, <1>7, <1>8

LEMMA MarkRootStep == ASSUME MarkIInv, MarkRoot PROVE MarkIInv'
<1> DEFINE p == words[RootSlots[root]]
<1>1. /\ pc = "roots" /\ root \in 1 .. Len(RootSlots) /\ NeedsMark(p)
      /\ qHead' = hbegin /\ pc' = "queue"
      /\ Enqueue(hbegin, p)
      /\ UNCHANGED <<hbegin, hsize, hcurrent, words, stackTop, extraRoots>>
      /\ UNCHANGED <<root, obj, field>>
  BY DEF MarkRoot, MarkIInv, MarkTypeOK
<1>2. p \in Int /\ ToData(p) \in DOMAIN heap /\ ToData(p) \in Pointees(RootWords)
  BY <1>1, RootIsObject DEF NeedsMark
<1>3. hbegin \in DOMAIN heap
  BY <1>2, ObjectsFollow DEF MarkIInv, MarkTypeOK, MemoryOK, Shape, Contiguous
<1>4. /\ MemoryOK' /\ Shape' /\ OnlyReachable'
      /\ DOMAIN heap' = DOMAIN heap
      /\ RootSlots' = RootSlots
      /\ \A w : ValidHeapPointer(w)' = ValidHeapPointer(w)
      /\ \A w : ToData(w) \in DOMAIN heap /\ Found(w) => Found(w)'
      /\ Found(p)'
      /\ \A a \in DOMAIN heap :
           /\ (heap'[a].mark <=> heap[a].mark)
           /\ (heap'[a].enq <=> heap[a].enq \/ a = ToData(p))
           /\ heap'[a].body = heap[a].body
           /\ PtrFields(heap[a])' = PtrFields(heap[a])
           /\ Lent(a)' = IF a = hbegin THEN ToData(p) ELSE Lent(a)
  BY <1>1, <1>2, <1>3, EnqueueKeeps
<1>5. qTail' = NextObj(heap, hbegin)
  BY <1>1 DEF Enqueue
<1>6. MarkTypeOK'
  BY <1>1, <1>3, <1>4, <1>5, ObjectsFollow
  DEF MarkIInv, MarkTypeOK, Shape, MarkPC
<1>7. QueueShape'
  <2>1. Lenders(hbegin, qTail)' = {hbegin}
    BY <1>1, <1>3, <1>4, <1>5, ObjectsFollow
    DEF Lenders, MarkIInv, MarkTypeOK, Shape
  <2>2. Lenders(hbegin, qHead)' = {}
    BY <1>1, <1>4 DEF Lenders, MarkIInv, MarkTypeOK, MemoryOK
  <2>3. Lent(hbegin)' = ToData(p)
    BY <1>1, <1>3, <1>4 DEF Lent
  <2>4. \A o \in DOMAIN heap : heap'[o].enq <=> o = ToData(p)
    BY <1>1, <1>4 DEF MarkIInv, QueueShape, Marking
  <2>5. ~heap'[ToData(p)].mark
    BY <1>1, <1>2, <1>4 DEF NeedsMark, IsMarked
  <2>6. hbegin' <= qHead' /\ qHead' <= qTail'
    BY <1>1, <1>3, <1>5, ObjectsFollow DEF MarkIInv, MarkTypeOK, MemoryOK, Shape
  <2>7. Lenders(qHead, qTail)' = {hbegin}
    BY <1>1, <2>1 DEF Lenders
  <2> QED
    BY <1>1, <1>2, <1>3, <1>4, <2>1, <2>2, <2>3, <2>4, <2>5, <2>6, <2>7
    DEF QueueShape, Marking
<1>8. Visiting' /\ FieldsFound'
  <2>1. Visiting'
    BY <1>1 DEF Visiting
  <2>2. ASSUME NEW a \in DOMAIN heap, heap[a].mark, NEW i \in PtrFields(heap[a]),
               ValidHeapPointer(heap[a].body[i])
        PROVE  Found(heap[a].body[i])'
    <3>1. Found(heap[a].body[i])
      BY <1>1, <2>2 DEF MarkIInv, FieldsFound
    <3>2. ToData(heap[a].body[i]) \in DOMAIN heap
      BY <2>2 DEF MarkIInv, Shape, PreciseFields, Refs, Pointees
    <3> QED
      BY <1>4, <3>1, <3>2 DEF Found
  <2> QED
    BY <1>4, <2>1, <2>2 DEF FieldsFound, Found
<1>9. RootsFound'
  <2>1. ASSUME NEW i \in 1 .. Len(RootSlots), i < root,
               ValidHeapPointer(words[RootSlots[i]])
        PROVE  Found(words[RootSlots[i]])'
    BY <1>1, <1>4, <2>1, RootIsObject DEF MarkIInv, RootsFound, Found
  <2>2. ValidHeapPointer(p) /\ root <= Len(RootSlots)
    BY <1>1 DEF NeedsMark
  <2> QED
    BY <1>1, <1>4, <2>1, <2>2 DEF RootsFound, Found, Marking
<1> QED
  BY <1>4, <1>6, <1>7, <1>8, <1>9 DEF MarkIInv

LEMMA EnqueueFieldStep == ASSUME MarkIInv, EnqueueField PROVE MarkIInv'
<1>0. PICK p, t, o : p = FieldWord /\ t = qTail /\ o = ToData(p)
  OBVIOUS
<1>1. /\ pc = "fields" /\ field <= Len(heap[obj].body) /\ NeedsEnqueue(p)
      /\ Enqueue(t, p)
      /\ field' = field + 1
      /\ UNCHANGED <<hbegin, hsize, hcurrent, words, stackTop, extraRoots>>
      /\ UNCHANGED <<pc, root, qHead, obj>>
  BY <1>0 DEF EnqueueField
<1>2. /\ obj \in DOMAIN heap /\ heap[obj].mark
      /\ FirstField(heap[obj]) <= field /\ field \in Nat
  BY <1>1 DEF MarkIInv, Visiting, MarkTypeOK
<1>3. p \in Int /\ o \in DOMAIN heap /\ o \in Refs(obj)
  BY <1>0, <1>1, <1>2, FieldIsObject DEF NeedsEnqueue, FieldWord
<1>4. ~heap[o].mark /\ ~heap[o].enq
  BY <1>0, <1>1 DEF NeedsEnqueue, IsMarked, IsEnqueued
<1>5. t \in DOMAIN heap
  BY <1>0, <1>1, <1>3, <1>4, LenderLeft DEF Marking
<1>6. \A S \in SUBSET DOMAIN heap :
        Pointees(RootWords) \subseteq S /\ Closed(S) => o \in S
  BY <1>2, <1>3 DEF MarkIInv, OnlyReachable, Closed
<1>7. /\ MemoryOK' /\ Shape' /\ OnlyReachable'
      /\ DOMAIN heap' = DOMAIN heap
      /\ RootSlots' = RootSlots
      /\ \A w : ValidHeapPointer(w)' = ValidHeapPointer(w)
      /\ \A w : ToData(w) \in DOMAIN heap /\ Found(w) => Found(w)'
      /\ Found(p)'
      /\ \A a \in DOMAIN heap :
           /\ (heap'[a].mark <=> heap[a].mark)
           /\ (heap'[a].enq <=> heap[a].enq \/ a = o)
           /\ heap'[a].body = heap[a].body
           /\ PtrFields(heap[a])' = PtrFields(heap[a])
           /\ FirstField(heap[a])' = FirstField(heap[a])
           /\ Lent(a)' = IF a = t THEN o ELSE Lent(a)
  BY <1>0, <1>1, <1>3, <1>5, <1>6, EnqueueKeeps
<1>8. qTail = t /\ qTail' = NextObj(heap, t)
  BY <1>0, <1>1 DEF Enqueue
<1>9. /\ qTail = t /\ qTail \in Nat /\ qTail' \in Nat /\ qTail < qTail'
      /\ hbegin <= qTail /\ qTail' \in DOMAIN heap \cup {hcurrent}
      /\ \A a \in DOMAIN heap : a \in Nat /\ (a < qTail' => a <= qTail)
      /\ hbegin <= qHead /\ qHead <= qTail
      /\ qHead \in Nat /\ hbegin \in Nat
  BY <1>1, <1>5, <1>8, ObjectsFollow
  DEF MarkIInv, MarkTypeOK, MemoryOK, Shape, QueueShape, Marking
<1>10. MarkTypeOK'
  BY <1>1, <1>2, <1>7, <1>9 DEF MarkIInv, MarkTypeOK
<1>11. QueueShape'
  <2>1. /\ Lenders(hbegin, qTail)' = Lenders(hbegin, qTail) \cup {t}
        /\ Lenders(qHead, qTail)' = Lenders(qHead, qTail) \cup {t}
        /\ Lenders(hbegin, qHead)' = Lenders(hbegin, qHead)
        /\ t \notin Lenders(hbegin, qTail)
        /\ t \notin Lenders(qHead, qTail)
        /\ t \notin Lenders(hbegin, qHead)
    BY <1>1, <1>5, <1>7, <1>9 DEF Lenders
  <2>2. \A a \in Lenders(hbegin, qTail) :
          /\ a \in DOMAIN heap
          /\ a \in Lenders(hbegin, qHead) \/ a \in Lenders(qHead, qTail)
    BY <1>9 DEF Lenders
  <2>3. \A a \in Lenders(hbegin, qTail) : Lent(a) \in DOMAIN heap /\ Lent(a) # o
    BY <1>1, <1>4, <2>2 DEF MarkIInv, QueueShape, Marking
  <2>4. Lent(t)' = o
    BY <1>5, <1>7 DEF Lent
  <2>6. \A a \in Lenders(qHead, qTail) : a \in Lenders(hbegin, qTail)
    BY <1>9 DEF Lenders
  <2>7. \A a \in Lenders(hbegin, qHead) : a \in Lenders(hbegin, qTail)
    BY <1>9 DEF Lenders
  <2>8. \A a \in DOMAIN heap : a # t => Lent(a)' = Lent(a)
    BY <1>7
  <2>9. \A a \in Lenders(hbegin, qTail)' : Lent(a)' \in DOMAIN heap
    BY <1>3, <2>1, <2>2, <2>3, <2>4, <2>8
  <2>10. \A a \in Lenders(qHead, qTail)' :
           heap'[Lent(a)'].enq /\ ~heap'[Lent(a)'].mark
    BY <1>1, <1>3, <1>4, <1>7, <2>1, <2>2, <2>3, <2>4, <2>6, <2>8
    DEF MarkIInv, QueueShape, Marking
  <2>11. \A a \in Lenders(hbegin, qHead)' : heap'[Lent(a)'].mark
    BY <1>1, <1>7, <2>1, <2>2, <2>3, <2>7, <2>8
    DEF MarkIInv, QueueShape, Marking
  <2>12. \A a, b \in Lenders(hbegin, qTail)' : Lent(a)' = Lent(b)' => a = b
    BY <1>1, <2>1, <2>2, <2>3, <2>4, <2>8 DEF MarkIInv, QueueShape, Marking
  <2>13. \A x \in DOMAIN heap :
           heap'[x].enq => \E a \in Lenders(qHead, qTail)' : Lent(a)' = x
    BY <1>1, <1>7, <2>1, <2>2, <2>4, <2>6, <2>8 DEF MarkIInv, QueueShape
  <2> QED
    BY <1>1, <1>7, <1>9, <2>9, <2>10, <2>11, <2>12, <2>13
    DEF QueueShape, Marking, Lent
<1>12. Visiting'
  <2>1. FirstField(heap[obj]) \in Int
    BY <1>2 DEF FirstField, MarkIInv, MarkTypeOK, MemoryOK, Object
  <2>2. FirstField(heap'[obj]) = FirstField(heap[obj])
    BY <1>2, <1>7
  <2> QED
    BY <1>1, <1>2, <1>7, <2>1, <2>2 DEF Visiting
<1>13. FieldsFound'
  <2> SUFFICES ASSUME NEW a \in DOMAIN heap, heap[a].mark,
                      NEW i \in PtrFields(heap[a]),
                      ValidHeapPointer(heap[a].body[i])
               PROVE  \/ Found(heap[a].body[i])'
                      \/ a = obj /\ field + 1 <= i
    BY <1>1, <1>7 DEF FieldsFound, Found
  <2>1. i \in Int /\ i <= Len(heap[a].body) /\ FirstField(heap[a]) <= i
        /\ FirstField(heap[a]) \in Nat /\ i \in Nat
    BY DEF PtrFields, MarkIInv, MarkTypeOK, MemoryOK, Object, FirstField
  <2>2. ToData(heap[a].body[i]) \in DOMAIN heap
    BY <2>1, FieldIsObject
  <2>3. CASE Found(heap[a].body[i])
    BY <1>7, <2>2, <2>3 DEF Found
  <2>4. CASE a = obj /\ i = field
    BY <1>0, <1>7, <2>4 DEF Found, FieldWord
  <2>5. CASE a = obj /\ field <= i /\ i # field
    BY <1>2, <2>1, <2>5
  <2> QED
    BY <2>3, <2>4, <2>5 DEF MarkIInv, FieldsFound
<1>14. RootsFound'
  <2>1. ASSUME NEW i \in 1 .. Len(RootSlots), i < root,
               ValidHeapPointer(words[RootSlots[i]])
        PROVE  Found(words[RootSlots[i]])'
    BY <1>1, <1>7, <2>1, RootIsObject DEF MarkIInv, RootsFound, Found
  <2>2. /\ root \in 1 .. Len(RootSlots)
        /\ ValidHeapPointer(words[RootSlots[root]])
        /\ Found(words[RootSlots[root]])
    BY <1>1 DEF MarkIInv, MarkTypeOK, RootsFound, Marking
  <2>3. Found(words[RootSlots[root]])'
    BY <1>1, <1>7, <2>2, RootIsObject DEF Found
  <2> QED
    BY <1>1, <1>7, <2>1, <2>2, <2>3 DEF RootsFound, Found, Marking
<1> QED
  BY <1>7, <1>10, <1>11, <1>12, <1>13, <1>14 DEF MarkIInv

(* What queue_dequeue reads: the lender at the head is an object below the  *)
(* tail, and its element is an object.                                     *)
LEMMA HeadIsLender ==
  ASSUME MarkIInv, pc = "queue", qHead # qTail, NEW h, h = qHead
  PROVE  /\ hbegin <= h /\ h < qTail /\ hbegin \in Nat /\ qTail \in Nat
         /\ h \in DOMAIN heap /\ h \in Nat
         /\ h \in Lenders(qHead, qTail) /\ h \in Lenders(hbegin, qTail)
<1>0. /\ qHead \in Nat /\ qTail \in Nat /\ hbegin \in Nat
      /\ hcurrent \in Nat
  BY DEF MarkIInv, MarkTypeOK, MemoryOK, hend
<1>1. \A a \in DOMAIN heap : a \in Nat /\ a < hcurrent
  <2> TAKE a \in DOMAIN heap
  <2>1. a \in Nat /\ NextObj(heap, a) \in Nat
        /\ a < NextObj(heap, a) /\ NextObj(heap, a) <= hcurrent
    BY ObjectsFollow DEF MarkIInv, MarkTypeOK, Shape
  <2> QED
    BY <1>0, <2>1
<1>2. hbegin <= qHead /\ qHead < qTail
  BY <1>0 DEF MarkIInv, QueueShape, Marking
<1>3. qTail <= hcurrent /\ qHead \in DOMAIN heap
  BY <1>0, <1>1, <1>2 DEF MarkIInv, MarkTypeOK
<1> QED
  BY <1>0, <1>1, <1>2, <1>3 DEF Lenders

LEMMA DequeuedIsObject ==
  ASSUME MarkIInv, Dequeue
  PROVE  obj' \in DOMAIN heap
<1>1. pc = "queue" /\ qHead # qTail /\ obj' = Lent(qHead)
  BY DEF Dequeue, Lent
<1> QED
  BY <1>1, HeadIsLender DEF MarkIInv, QueueShape, Marking

LEMMA DequeueStep == ASSUME MarkIInv, Dequeue PROVE MarkIInv'
<1>1. /\ pc = "queue" /\ qHead # qTail
      /\ obj' = Lent(qHead)
      /\ qHead' = NextObj(heap, qHead)
      /\ field' = FirstField(heap[obj'])
      /\ pc' = "fields"
      /\ UNCHANGED <<hbegin, hsize, hcurrent, words, stackTop, extraRoots>>
      /\ UNCHANGED <<root, qTail>>
  BY DEF Dequeue, Lent
<1>0. heap' = [heap EXCEPT ![obj'].enq = FALSE, ![obj'].mark = TRUE]
  BY DEF Dequeue
<1>2. PICK h, o : h = qHead /\ o = Lent(h)
  OBVIOUS
<1>3. /\ hbegin <= h /\ h < qTail /\ hbegin \in Nat /\ qTail \in Nat
      /\ h \in DOMAIN heap /\ h \in Nat
      /\ h \in Lenders(qHead, qTail) /\ h \in Lenders(hbegin, qTail)
  BY <1>1, <1>2, HeadIsLender
<1>4. o \in DOMAIN heap /\ heap[o].enq /\ ~heap[o].mark
  BY <1>1, <1>2, <1>3 DEF MarkIInv, QueueShape, Marking
<1>5. MemoryOK /\ Shape
  BY DEF MarkIInv, MarkTypeOK
<1>6. /\ SameShape
      /\ \A a \in DOMAIN heap :
           /\ (heap'[a].mark <=> heap[a].mark \/ a = o)
           /\ (heap'[a].enq <=> heap[a].enq /\ a # o)
           /\ heap'[a].fwd = heap[a].fwd
  BY <1>0, <1>1, <1>2, <1>4, <1>5, DequeueFacts
<1>7. /\ MemoryOK' /\ Shape'
      /\ RootSlots' = RootSlots
      /\ Pointees(RootWords)' = Pointees(RootWords)
      /\ \A w : ValidHeapPointer(w)' = ValidHeapPointer(w)
      /\ \A a \in DOMAIN heap : /\ PtrFields(heap[a])' = PtrFields(heap[a])
                                /\ FirstField(heap[a])' = FirstField(heap[a])
      /\ \A S : S \subseteq DOMAIN heap => (Closed(S)' <=> Closed(S))
  BY <1>5, <1>6, ShapeKept
<1>8. /\ DOMAIN heap' = DOMAIN heap
      /\ \A a \in DOMAIN heap : heap'[a].body = heap[a].body
      /\ \A a \in DOMAIN heap : Lent(a)' = Lent(a)
      /\ \A w : ToData(w) \in DOMAIN heap => (Found(w)' <=> Found(w))
  BY <1>4, <1>6 DEF SameShape, Lent, Found, ToData
<1>9. /\ obj' = o /\ qHead' = NextObj(heap, h) /\ qHead' \in Nat
      /\ qHead' \in DOMAIN heap \cup {hcurrent}
      /\ hbegin <= qHead' /\ h < qHead' /\ qHead' <= qTail
      /\ \A a \in DOMAIN heap : a \in Nat /\ (a < qHead' => a <= h)
  <2>1. obj' = o /\ qHead' = NextObj(heap, h)
    BY <1>1, <1>2
  <2>2. /\ qHead' \in Nat /\ h < qHead' /\ qHead' <= hcurrent
        /\ qHead' \in DOMAIN heap \cup {hcurrent}
        /\ \A a \in DOMAIN heap : a \in Nat /\ (a < qHead' => a <= h)
    BY <1>3, <1>5, <2>1, ObjectsFollow DEF Shape
  <2>3. qTail \in DOMAIN heap \cup {hcurrent}
    BY DEF MarkIInv, MarkTypeOK
  <2>4. qHead' <= qTail
    BY <1>3, <2>2, <2>3
  <2> QED
    BY <1>3, <2>1, <2>2, <2>4
<1>10. FirstField(heap[o]) \in Nat \ {0} /\ field' = FirstField(heap[o])
  BY <1>1, <1>4, <1>5, <1>9 DEF FirstField, MemoryOK, Object
<1>11. MarkTypeOK'
  BY <1>1, <1>4, <1>7, <1>8, <1>9, <1>10 DEF MarkIInv, MarkTypeOK, MarkPC
<1>12. OnlyReachable'
  <2> SUFFICES ASSUME NEW S \in SUBSET DOMAIN heap,
                      Pointees(RootWords) \subseteq S, Closed(S),
                      NEW a \in DOMAIN heap, heap'[a].mark \/ heap'[a].enq
               PROVE  a \in S
    BY <1>7, <1>8 DEF OnlyReachable
  <2>1. heap[a].mark \/ heap[a].enq
    BY <1>4, <1>6
  <2> QED
    BY <2>1 DEF MarkIInv, OnlyReachable
<1>13. QueueShape'
  <2>1. /\ Lenders(hbegin, qTail)' = Lenders(hbegin, qTail)
        /\ Lenders(qHead, qTail) = Lenders(qHead, qTail)' \cup {h}
        /\ Lenders(hbegin, qHead)' = Lenders(hbegin, qHead) \cup {h}
        /\ h \notin Lenders(qHead, qTail)'
    BY <1>1, <1>2, <1>3, <1>8, <1>9 DEF Lenders
  <2>2. /\ \A a \in Lenders(hbegin, qTail) : a \in DOMAIN heap
        /\ \A a \in Lenders(qHead, qTail) : a \in Lenders(hbegin, qTail)
        /\ \A a \in Lenders(hbegin, qHead) : a \in Lenders(hbegin, qTail)
    BY <1>2, <1>3, <1>9 DEF Lenders
  <2>3. \A a \in Lenders(qHead, qTail)' : Lent(a) # o /\ Lent(a) \in DOMAIN heap
    BY <1>1, <1>2, <1>3, <2>1, <2>2 DEF MarkIInv, QueueShape, Marking
  <2>4. \A a \in Lenders(qHead, qTail)' :
          heap'[Lent(a)'].enq /\ ~heap'[Lent(a)'].mark
    BY <1>1, <1>6, <1>8, <2>1, <2>2, <2>3 DEF MarkIInv, QueueShape, Marking
  <2>5. \A a \in Lenders(hbegin, qHead)' :
          Lent(a)' \in DOMAIN heap /\ heap'[Lent(a)'].mark
    BY <1>1, <1>2, <1>3, <1>4, <1>6, <1>8, <2>1, <2>2
    DEF MarkIInv, QueueShape, Marking
  <2>6. \A a, b \in Lenders(hbegin, qTail)' : Lent(a)' = Lent(b)' => a = b
    BY <1>1, <1>8, <2>1, <2>2 DEF MarkIInv, QueueShape, Marking
  <2>7. \A x \in DOMAIN heap :
          heap'[x].enq => \E a \in Lenders(qHead, qTail)' : Lent(a)' = x
    BY <1>2, <1>6, <1>8, <2>1, <2>2 DEF MarkIInv, QueueShape
  <2>8. \A a \in Lenders(hbegin, qTail)' : Lent(a)' \in DOMAIN heap
    BY <1>1, <1>8, <2>1, <2>2 DEF MarkIInv, QueueShape, Marking
  <2> QED
    BY <1>1, <1>8, <1>9, <2>4, <2>5, <2>6, <2>7, <2>8 DEF QueueShape, Marking
<1>14. Visiting'
  <2>1. FirstField(heap'[o]) = FirstField(heap[o])
    BY <1>4, <1>7
  <2> QED
    BY <1>1, <1>4, <1>6, <1>8, <1>9, <1>10, <2>1 DEF Visiting
<1>15. FieldsFound'
  <2> SUFFICES ASSUME NEW a \in DOMAIN heap, heap'[a].mark,
                      NEW i \in PtrFields(heap[a]),
                      ValidHeapPointer(heap[a].body[i])
               PROVE  \/ Found(heap[a].body[i])'
                      \/ a = o /\ FirstField(heap[o]) <= i
    BY <1>1, <1>7, <1>8, <1>9, <1>10 DEF FieldsFound, Found
  <2>1. i \in Int /\ i <= Len(heap[a].body) /\ FirstField(heap[a]) <= i
        /\ FirstField(heap[a]) \in Nat /\ i \in Nat
    BY <1>5 DEF PtrFields, MemoryOK, Object, FirstField
  <2>2. ToData(heap[a].body[i]) \in DOMAIN heap
    BY <2>1, FieldIsObject
  <2>3. CASE a = o
    BY <2>1, <2>3
  <2>4. CASE heap[a].mark
    <3>1. Found(heap[a].body[i])
      BY <1>1, <2>4 DEF MarkIInv, FieldsFound
    <3> QED
      BY <1>8, <2>2, <3>1 DEF Found
  <2> QED
    BY <1>6, <2>3, <2>4
<1>16. RootsFound'
  <2>1. ASSUME NEW i \in 1 .. Len(RootSlots), i < root,
               ValidHeapPointer(words[RootSlots[i]])
        PROVE  Found(words[RootSlots[i]])'
    BY <1>1, <1>7, <1>8, <2>1, RootIsObject DEF MarkIInv, RootsFound, Found
  <2>2. /\ root \in 1 .. Len(RootSlots)
        /\ ValidHeapPointer(words[RootSlots[root]])
        /\ Found(words[RootSlots[root]])
    BY <1>1 DEF MarkIInv, MarkTypeOK, RootsFound, Marking
  <2>3. Found(words[RootSlots[root]])'
    BY <1>1, <1>7, <1>8, <2>2, RootIsObject DEF Found
  <2> QED
    BY <1>1, <1>7, <2>1, <2>2, <2>3 DEF RootsFound, Found, Marking
<1> QED
  BY <1>7, <1>11, <1>12, <1>13, <1>14, <1>15, <1>16 DEF MarkIInv
-----------------------------------------------------------------------------
LEMMA MarkInitial == ASSUME MarkInit PROVE MarkIInv
<1> USE DEF MarkInit, MarkStart, Unmarked
<1>1. hbegin \in DOMAIN heap \cup {hcurrent}
  BY DEF Contiguous
<1>2. MarkTypeOK
  BY <1>1, RootSlotsType DEF MarkTypeOK, MarkPC
<1>3. Shape
  BY DEF Shape
<1>4. QueueShape /\ Visiting /\ OnlyReachable /\ FieldsFound
  BY DEF QueueShape, Visiting, OnlyReachable, FieldsFound, Marking
<1>5. RootsFound
  BY RootSlotsType DEF RootsFound, Marking
<1> QED
  BY <1>2, <1>3, <1>4, <1>5 DEF MarkIInv

LEMMA MarkStutter == ASSUME MarkIInv, UNCHANGED markState PROVE MarkIInv'
<1>1. UNCHANGED memory /\ UNCHANGED pc /\ UNCHANGED markVars
  BY DEF markState
<1>2. MarkTypeOK' /\ Shape' /\ OnlyReachable' /\ RootsFound'
  BY <1>1, MemoryKept
  DEF MarkIInv, MarkTypeOK, memory, markVars, RootsFound, Marking
<1>3. QueueShape' /\ Visiting' /\ FieldsFound'
  BY <1>1, MemoryKept
  DEF MarkIInv, QueueShape, Visiting, FieldsFound, Marking, Lenders, Lent,
      Found, memory, markVars
<1> QED
  BY <1>2, <1>3 DEF MarkIInv

LEMMA MarkInductive == MarkIInv /\ [MarkNext]_markState => MarkIInv'
<1> SUFFICES ASSUME MarkIInv, [MarkNext]_markState PROVE MarkIInv'
  OBVIOUS
<1>1. CASE SkipRoot
  BY <1>1, SkipRootStep
<1>2. CASE MarkRoot
  BY <1>2, MarkRootStep
<1>3. CASE RootDone
  BY <1>3, RootDoneStep
<1>4. CASE AllRootsDone
  BY <1>4, AllRootsDoneStep
<1>5. CASE Dequeue
  BY <1>5, DequeueStep
<1>6. CASE SkipField
  BY <1>6, SkipFieldStep
<1>7. CASE EnqueueField
  BY <1>7, EnqueueFieldStep
<1>8. CASE FieldsDone
  BY <1>8, FieldsDoneStep
<1>9. CASE UNCHANGED markState
  BY <1>9, MarkStutter
<1> QED
  BY <1>1, <1>2, <1>3, <1>4, <1>5, <1>6, <1>7, <1>8, <1>9 DEF MarkNext

LEMMA MarkInvariant == MarkSpec => []MarkIInv
<1>1. MarkInit => MarkIInv
  BY MarkInitial
<1> QED
  BY <1>1, MarkInductive, PTL DEF MarkSpec
-----------------------------------------------------------------------------
(* Every iterator of the mark phase stays on an object or at heap.current, *)
(* in every heap: the loops of mark, queue_enqueue and queue_dequeue never *)
(* read a header anywhere else.                                            *)
THEOREM MarkTypeCorrect == MarkSpec => []MarkTypeOK
<1>1. MarkIInv => MarkTypeOK
  BY DEF MarkIInv
<1> QED
  BY <1>1, MarkInvariant, PTL

(* The invariant the comment in mark states of the queue holds whatever    *)
(* the object graph: nothing is queued twice, marked while queued, or      *)
(* flagged as enqueued without being in the queue.                         *)
THEOREM QueueCorrect == MarkSpec => []QueueInvariant
<1>1. MarkIInv => QueueInvariant
  <2> SUFFICES ASSUME MarkIInv PROVE QueueInvariant
    OBVIOUS
  <2>1. CASE Marking
    <3>1. \A a \in Lenders(qHead, qTail) : a \in Lenders(hbegin, qTail)
      BY <2>1 DEF MarkIInv, QueueShape, Lenders, MarkTypeOK, MemoryOK
    <3>2. /\ \A a \in Lenders(qHead, qTail) :
               Lent(a) \in DOMAIN heap /\ ~heap[Lent(a)].mark /\ heap[Lent(a)].enq
          /\ \A a, b \in Lenders(qHead, qTail) : Lent(a) = Lent(b) => a = b
          /\ \A o \in DOMAIN heap :
               heap[o].enq => \E a \in Lenders(qHead, qTail) : Lent(a) = o
      BY <2>1, <3>1 DEF MarkIInv, QueueShape
    <3>3. {o \in DOMAIN heap : heap[o].enq} = {Lent(a) : a \in Lenders(qHead, qTail)}
      BY <3>2
    <3> QED
      BY <2>1, <3>2, <3>3 DEF QueueInvariant
  <2>2. CASE ~Marking
    BY <2>2 DEF MarkIInv, QueueShape, QueueInvariant
  <2> QED
    BY <2>1, <2>2
<1> QED
  BY <1>1, MarkInvariant, PTL

(* The queue borrowed from the heap never runs out of lenders and never    *)
(* overwrites an element yet to be read, however many objects are live.    *)
THEOREM QueueNeverOverflows == MarkSpec => []QueueFits
<1>1. MarkIInv => QueueFits
  <2> SUFFICES ASSUME MarkIInv, pc = "fields", field <= Len(heap[obj].body),
                      NEW p, p = FieldWord, NeedsEnqueue(p)
               PROVE  qTail \in DOMAIN heap /\ qHead <= qTail
    BY DEF QueueFits
  <2>1. obj \in DOMAIN heap /\ FirstField(heap[obj]) <= field /\ field \in Nat
    BY DEF MarkIInv, Visiting, MarkTypeOK
  <2>2. ToData(p) \in DOMAIN heap
    BY <2>1, FieldIsObject DEF NeedsEnqueue, FieldWord
  <2>3. ~heap[ToData(p)].mark /\ ~heap[ToData(p)].enq
    BY DEF NeedsEnqueue, IsMarked, IsEnqueued
  <2> QED
    BY <2>2, <2>3, LenderLeft DEF Marking, MarkIInv, QueueShape
<1> QED
  BY <1>1, MarkInvariant, PTL

(* When the phase is over the marked objects are closed and hold the roots,*)
(* and no enqueued bit is left.                                            *)
LEMMA MarkedAreClosed ==
  ASSUME MarkIInv, pc = "marked",
         NEW S, S = {a \in DOMAIN heap : heap[a].mark}
  PROVE  /\ \A a \in DOMAIN heap : ~heap[a].enq
         /\ Pointees(RootWords) \subseteq S
         /\ Closed(S)
<1>1. \A a \in DOMAIN heap : ~heap[a].enq
  BY DEF MarkIInv, QueueShape, Marking
<1>2. Pointees(RootWords) \subseteq S
  <2> SUFFICES ASSUME NEW i \in 1 .. Len(RootSlots),
                      ValidHeapPointer(words[RootSlots[i]])
               PROVE  ToData(words[RootSlots[i]]) \in S
    BY DEF Pointees, RootWords
  <2>1. ToData(words[RootSlots[i]]) \in DOMAIN heap
    BY RootIsObject
  <2>2. i < root
    BY RootSlotsType DEF MarkIInv, RootsFound, MarkTypeOK
  <2>3. Found(words[RootSlots[i]])
    BY <2>2 DEF MarkIInv, RootsFound
  <2> QED
    BY <1>1, <2>1, <2>3 DEF Found
<1>3. Closed(S)
  <2> SUFFICES ASSUME NEW a \in S, NEW i \in PtrFields(heap[a]),
                      ValidHeapPointer(heap[a].body[i])
               PROVE  ToData(heap[a].body[i]) \in S
    BY DEF Closed, Refs, Pointees
  <2>1. Found(heap[a].body[i])
    BY DEF MarkIInv, FieldsFound
  <2>2. ToData(heap[a].body[i]) \in Refs(a)
    BY DEF Refs, Pointees
  <2>3. ToData(heap[a].body[i]) \in DOMAIN heap
    BY <2>2 DEF MarkIInv, Shape, PreciseFields
  <2> QED
    BY <1>1, <2>1, <2>3 DEF Found
<1> QED
  BY <1>1, <1>2, <1>3

(* What is marked is reachable, and in the end all of it is.               *)
LEMMA ExactWhenMarked == MarkIInv => MarkExact
<1> SUFFICES ASSUME MarkIInv PROVE MarkExact
  OBVIOUS
<1>1. \A a \in DOMAIN heap : heap[a].mark \/ heap[a].enq => a \in Reachable
  BY DEF MarkIInv, OnlyReachable, Reachable
<1>2. ASSUME pc = "marked"
      PROVE  /\ \A a \in Reachable : heap[a].mark
             /\ \A a \in DOMAIN heap : ~heap[a].enq
  <2> DEFINE S == {a \in DOMAIN heap : heap[a].mark}
  <2>1. /\ \A a \in DOMAIN heap : ~heap[a].enq
        /\ Pointees(RootWords) \subseteq S /\ Closed(S)
    BY <1>2, MarkedAreClosed
  <2>2. \A a \in Reachable : heap[a].mark
    BY <2>1 DEF Reachable
  <2> QED
    BY <2>1, <2>2
<1> QED
  BY <1>1, <1>2 DEF MarkExact

(* Marking is exact: no garbage is ever marked, and when the phase is over *)
(* every reachable object is marked and no enqueued bit is left.           *)
THEOREM MarkingExact == MarkSpec => []MarkExact
<1>1. MarkIInv => MarkExact
  BY ExactWhenMarked
<1> QED
  BY <1>1, MarkInvariant, PTL

(* Every step of the phase leaves shape, bodies and kinds alone.           *)
LEMMA StepsAreBenign == ASSUME MarkIInv, MarkNext PROVE MarkStep
<1>1. CASE UNCHANGED memory
  BY <1>1 DEF memory, MarkStep
<1>2. ASSUME NEW t \in DOMAIN heap, NEW p \in Int, ToData(p) \in DOMAIN heap,
             Enqueue(t, p),
             UNCHANGED <<hbegin, hsize, hcurrent, words, stackTop, extraRoots>>
      PROVE  MarkStep
  BY <1>2, EnqueueFacts DEF MarkIInv, MarkTypeOK, SameShape, MarkStep
<1>3. CASE MarkRoot
  <2>1. PICK p, t : p = words[RootSlots[root]] /\ t = hbegin
    OBVIOUS
  <2>2. ToData(p) \in DOMAIN heap /\ p \in Int /\ Enqueue(t, p)
        /\ UNCHANGED <<hbegin, hsize, hcurrent, words, stackTop, extraRoots>>
    BY <1>3, <2>1, RootIsObject DEF MarkRoot, NeedsMark, MarkIInv, MarkTypeOK
  <2>3. t \in DOMAIN heap
    BY <2>1, <2>2, ObjectsFollow
    DEF MarkIInv, MarkTypeOK, MemoryOK, Shape, Contiguous
  <2> QED
    BY <1>2, <2>2, <2>3
<1>4. CASE EnqueueField
  <2>1. PICK p, t : p = FieldWord /\ t = qTail
    OBVIOUS
  <2>2. /\ pc = "fields" /\ field <= Len(heap[obj].body) /\ NeedsEnqueue(p)
        /\ Enqueue(t, p)
        /\ UNCHANGED <<hbegin, hsize, hcurrent, words, stackTop, extraRoots>>
    BY <1>4, <2>1 DEF EnqueueField
  <2>3. obj \in DOMAIN heap /\ FirstField(heap[obj]) <= field /\ field \in Nat
    BY <2>2 DEF MarkIInv, Visiting, MarkTypeOK
  <2>4. p \in Int /\ ToData(p) \in DOMAIN heap
    BY <2>1, <2>2, <2>3, FieldIsObject DEF NeedsEnqueue, FieldWord
  <2>5. t \in DOMAIN heap
    BY <2>1, <2>2, <2>4, LenderLeft
    DEF Marking, NeedsEnqueue, IsMarked, IsEnqueued
  <2> QED
    BY <1>2, <2>2, <2>4, <2>5
<1>5. CASE Dequeue
  <2>1. PICK o : o = obj'
    OBVIOUS
  <2>2. /\ heap' = [heap EXCEPT ![o].enq = FALSE, ![o].mark = TRUE]
        /\ UNCHANGED <<hbegin, hsize, hcurrent, words, stackTop, extraRoots>>
    BY <1>5, <2>1 DEF Dequeue
  <2>3. obj' \in DOMAIN heap
    BY <1>5, DequeuedIsObject
  <2> QED
    BY <2>1, <2>2, <2>3, DequeueFacts
    DEF MarkIInv, MarkTypeOK, SameShape, MarkStep
<1> QED
  BY <1>1, <1>3, <1>4, <1>5
  DEF MarkNext, SkipRoot, RootDone, AllRootsDone, SkipField, FieldsDone

(* No step takes a mark back or changes anything of an object but its      *)
(* forward-address word and the two bits in it.                            *)
THEOREM MarkBenign == MarkSpec => MarkIsBenign
<1>1. MarkIInv /\ [MarkNext]_markState => [MarkStep]_markState
  BY StepsAreBenign
<1> QED
  BY <1>1, MarkInvariant, PTL DEF MarkSpec, MarkIsBenign
=============================================================================

---------------------------- MODULE RuntimeProofs ----------------------------
(***************************************************************************)
(* Theorems about Runtime: a program that calls the runtime, in any order, *)
(* with the collector at work in the middle of its calls.  The proofs of   *)
(* the two phases are used as they are: what has to be shown is that the   *)
(* calls hand the mark phase what MarkInit asks for, that marking leaves   *)
(* what CompactInit asks for, and that compaction gives back a memory the  *)
(* call can go on with.                                                    *)
(***************************************************************************)
EXTENDS Runtime, MarkPhaseProofs, CompactPhaseProofs

(* The functions that do not keep to the collector's contract, as the runs *)
(* runtime_cons and runtime_sprintf show; the theorems are about programs  *)
(* that do not call them.                                                  *)
Careless == {"Ls__Infix_58", "Lsprintf"}

Careful == \A p \in Programs : p.fns \cap Careless = {}

(* A word that is no pointer into the heap, or points to an object.  Nil,  *)
(* the address of a C buffer and what is no address at all are not         *)
(* positive.                                                               *)
Sound(w, h, lo, hi) == w <= 0 \/ (InChunk(w, lo, hi) /\ ToData(w) \in DOMAIN h)

(* Every word of the program and every field of an object is sound, and    *)
(* every word that points to an object is one the collector knows of.      *)
Orderly(h, ws, lo, hi) ==
  /\ 0 < lo
  /\ \A s \in Slot : /\ Sound(ws[s], h, lo, hi)
                     /\ 0 < ws[s] => s \in Rooted
  /\ ws[StackBottom] <= 0
  /\ \A a \in DOMAIN h : \A i \in FirstField(h[a]) .. Len(h[a].body) :
       Sound(h[a].body[i], h, lo, hi)
-----------------------------------------------------------------------------
(* The call in progress.                                                   *)
InCall == pc \notin {"start", "mutator", "failed"}

(* What a function asks of the collector: those the program calls, and     *)
(* set_args before them.                                                   *)
Functions == {"Barray", "Bsexp", "Bclosure", "LmakeArray", "LmakeString",
              "Lfread", "Lstring", "Lstringcat", "LgetEnv", "LreadLine",
              "Lsubstring", "Lclone", "Li__Infix_4343"}

Calls == [fn : Functions, kind : Kind, len : Nat,
          source : {"words", "copy", "both", "part"}, raw : Seq(Int),
          from : Nat, args : Seq(Slot), dest : Assignable, roots : Nat,
          late : Nat]

ArgCalls == [fn : {"set_args"}, kind : Kind, len : Nat, source : {"words"},
             raw : Seq(Int), args : Seq(Slot), done : Nat, roots : Nat,
             late : Nat]

(* The raw words of the new object come where no pointer is expected.      *)
RawWordsOK(c) ==
  /\ c.kind = "ARRAY" => \A i \in 1 .. Len(c.raw) : c.raw[i] <= 0
  /\ c.kind \in {"SEXP", "CLOSURE"} => Len(c.raw) = 1
  /\ c.kind = "STRING" => Len(c.args) = 0

(* What the body is made of, when it is made of other objects: they are    *)
(* where the call will look for them, as long as it expects.               *)
Source(c, h, ws, i) == h[ToData(ws[c.args[i]])]

FromWords(c) == RawWordsOK(c) /\ c.len = Len(c.raw) + Len(c.args)

Supplied(c, h, ws) ==
  /\ c.source = "words" => FromWords(c)
  /\ c.source # "words" =>
       /\ Len(c.args) = IF c.source = "both" THEN 2 ELSE 1
       /\ \A i \in 1 .. Len(c.args) : 0 < ws[c.args[i]]
  /\ c.source = "copy" =>
       /\ Source(c, h, ws, 1).kind = c.kind
       /\ Len(Source(c, h, ws, 1).body) = c.len
  /\ c.source = "both" =>
       /\ c.kind = "STRING"
       /\ c.len = Len(Source(c, h, ws, 1).body) + Len(Source(c, h, ws, 2).body)
  /\ c.source = "part" =>
       /\ c.kind = "STRING"
       /\ c.from + c.len <= Len(Source(c, h, ws, 1).body)

(* set_args: once the array is made, p points to it.                       *)
ArrayKept(h, ws) ==
  call.fn = "set_args" /\ 0 < call.done =>
    /\ 0 < ws[ArgArray]
    /\ h[ToData(ws[ArgArray])].kind = "ARRAY"
    /\ Len(h[ToData(ws[ArgArray])].body) = todo.argc

(* The extra roots are the permanent one and those of the call, which lie  *)
(* in frames of the runtime or further up the stack.                       *)
CallTyped ==
  IF call.fn = "set_args"
  THEN /\ call \in ArgCalls /\ Len(call.args) = 0
       /\ call.done \in 0 .. todo.argc
       /\ IF call.done = 0
          THEN extraRoots = <<>> /\ call.roots = 0 /\ call.kind = "ARRAY"
               /\ call.len = todo.argc
          ELSE extraRoots = ArgRoots /\ call.roots = 2 /\ call.kind = "STRING"
  ELSE /\ call \in Calls
       /\ Len(extraRoots) = call.roots + 1 /\ extraRoots[1] = SysArgs
       /\ \A i \in 2 .. Len(extraRoots) :
            extraRoots[i] \in StackTop - MaxArgs .. StackBottom

(* A memory in which the program, or a call, may go on.                    *)
Ready ==
  /\ MemoryOK /\ Contiguous(heap, hbegin, hcurrent)
  /\ Unmarked
  /\ Orderly(heap, words, hbegin, hcurrent)

Setting ==
  /\ todo \in [heap : Nat, argc : Nat, calls : Nat, fns : SUBSET STRING]
  /\ todo.fns \cap Careless = {}
  /\ stackTop = StackTop

Collecting == pc \in CompactPC \ {"compacted", "failed"}

(* Between calls; in a call, before and after a collection; during its two *)
(* phases.                                                                 *)
RuntimeIInv ==
  /\ pc \in {"start", "mutator", "call"} \cup MarkPC \cup CompactPC
  /\ Setting
  /\ pc = "start" => extraRoots = <<>>
  /\ pc = "mutator" => extraRoots = <<SysArgs>>
  /\ pc # "failed" => ExtraRootsOK
  /\ InCall => CallTyped
  /\ pc \in {"start", "mutator", "call", "compacted"} => Ready
  /\ pc \in MarkPC => MarkIInv /\ Orderly(heap, words, hbegin, hcurrent)
  /\ pc \in {"call", "compacted"} \cup MarkPC =>
       Supplied(call, heap, words) /\ ArrayKept(heap, words)
  /\ Collecting =>
       /\ CompactIInv /\ additional = Request
       /\ Orderly(before.heap, before.words, before.lo, before.hi)
       /\ Supplied(call, before.heap, before.words)
       /\ ArrayKept(before.heap, before.words)
  /\ pc = "compacted" => Fits
-----------------------------------------------------------------------------
(* Where words lie: the globals, &global_sysargs, the frame of a function  *)
(* of the runtime, the arguments, the program's variables.                 *)
LEMMA Layout ==
  /\ StackTop \in Nat /\ MaxArgs \in Nat /\ 2 <= MaxArgs
  /\ GlobalStart \in Nat /\ GlobalStop \in Nat /\ StackBottom \in Nat
  /\ GlobalStart <= GlobalStop /\ GlobalStop < SysArgs /\ SysArgs \in Nat
  /\ SysArgs < StackTop - MaxArgs /\ StackTop + MaxArgs < StackBottom
  /\ StackTop - MaxArgs .. StackBottom \subseteq Slot
  /\ SysArgs \in Slot /\ Var \subseteq Slot /\ Assignable \subseteq Slot
  /\ \A x \in Assignable : \/ StackTop + MaxArgs < x /\ x < StackBottom
                           \/ GlobalStart <= x /\ x < GlobalStop
<1>1. /\ StackTop \in Nat /\ MaxArgs \in Nat /\ 2 <= MaxArgs
      /\ GlobalStart \in Nat /\ GlobalStop \in Nat /\ StackBottom \in Nat
      /\ GlobalStart <= GlobalStop /\ GlobalStop < SysArgs /\ SysArgs \in Nat
      /\ SysArgs < StackTop - MaxArgs /\ StackTop + MaxArgs < StackBottom
  BY LayoutAssumption, FrameAssumption
<1>2. StackTop - MaxArgs .. StackBottom \subseteq Slot /\ SysArgs \in Slot
  BY <1>1 DEF Slot
<1>3. \A x \in Locals : x \in Slot /\ StackTop + MaxArgs < x /\ x < StackBottom
  BY <1>1, FrameAssumption DEF Slot
<1>4. \A x \in Globals : x \in Slot /\ GlobalStart <= x /\ x < GlobalStop
  BY <1>1 DEF Slot, Globals
<1> QED
  BY <1>1, <1>2, <1>3, <1>4 DEF Var, Assignable

RegionsRooted ==
  /\ Rooted \subseteq Slot
  /\ \A s \in Slot :
       s \in Rooted <=> \/ stackTop < s /\ s < StackBottom
                        \/ \E j \in 1 .. Len(extraRoots) : s = extraRoots[j]
                        \/ GlobalStart <= s /\ s < GlobalStop

LEMMA RootedAfter == MemoryOK' => RegionsRooted'
<1>1. MemoryOK => RegionsRooted
  BY RootedByRegion DEF RegionsRooted
<1> QED
  BY <1>1, PTL

(* A sound word that is positive is a pointer, and one that looks like a   *)
(* pointer is positive: nothing is mapped at the address 0.                *)
LEMMA SoundWords ==
  ASSUME NEW w \in Int, NEW h, NEW lo \in Nat \ {0}, NEW hi,
         Sound(w, h, lo, hi)
  PROVE  /\ 0 < w <=> InChunk(w, lo, hi)
         /\ 0 < w => ToData(w) \in DOMAIN h
BY DEF Sound, InChunk, Unboxed

(* The four ways for the invariant to be restored.                         *)
LEMMA ProgramGoesOn ==
  ASSUME pc' = "mutator", Setting', extraRoots' = <<SysArgs>>, Ready'
  PROVE  RuntimeIInv'
<1>1. ExtraRootsOK'
  BY Layout DEF ExtraRootsOK, Setting
<1> QED
  BY <1>1 DEF RuntimeIInv, InCall, MarkPC, CompactPC, Collecting

LEMMA CallGoesOn ==
  ASSUME pc' = "call", Setting', ExtraRootsOK', CallTyped', Ready',
         Supplied(call', heap', words'), ArrayKept(heap, words)'
  PROVE  RuntimeIInv'
BY DEF RuntimeIInv, InCall, MarkPC, CompactPC, Collecting

LEMMA ProgramStops ==
  ASSUME pc' = "failed", Setting'
  PROVE  RuntimeIInv'
BY DEF RuntimeIInv, InCall, MarkPC, CompactPC, Collecting

(* Words are written, while the heap stays as it is.                       *)
LEMMA WordsWritten ==
  ASSUME Ready, UNCHANGED <<heap, hbegin, hsize, hcurrent, stackTop>>,
         extraRoots' \in Seq(Slot), words' \in [Slot -> Int],
         \A s \in Slot : /\ Sound(words'[s], heap, hbegin, hcurrent)
                         /\ 0 < words'[s] => s \in Rooted',
         words'[StackBottom] <= 0
  PROVE  Ready'
<1>1. MemoryOK'
  BY DEF Ready, MemoryOK, hend
<1>2. Contiguous(heap, hbegin, hcurrent)' /\ Unmarked'
  BY DEF Ready, Unmarked
<1>3. Orderly(heap, words, hbegin, hcurrent)'
  BY DEF Ready, Orderly
<1> QED
  BY <1>1, <1>2, <1>3 DEF Ready
-----------------------------------------------------------------------------
(* __gc_init.                                                              *)
LEMMA RuntimeInitial == ASSUME Careful, RuntimeInit PROVE RuntimeIInv
<1>1. /\ todo \in [heap : Nat, argc : Nat, calls : Nat, fns : SUBSET STRING]
      /\ todo.fns \cap Careless = {}
  BY ProgramAssumption DEF RuntimeInit, Careful
<1>2. /\ hbegin \in Nat \ {0} /\ hsize \in Nat /\ hcurrent = hbegin
      /\ heap = <<>> /\ stackTop = StackTop /\ extraRoots = <<>> /\ pc = "start"
  BY <1>1, MappingAssumption DEF RuntimeInit
<1>3. DOMAIN heap = {}
  BY <1>2
<1>4. words \in [Slot -> Int] /\ \A s \in Slot : words[s] <= 0
  BY DEF RuntimeInit, Nil
<1>5. MemoryOK
  BY <1>2, <1>3, <1>4, Layout DEF MemoryOK, hend
<1>6. Contiguous(heap, hbegin, hcurrent) /\ Unmarked
  BY <1>2, <1>3, FS_EmptySet DEF Contiguous, Unmarked
<1>7. StackBottom \in Slot
  BY Layout DEF Slot
<1>8. Orderly(heap, words, hbegin, hcurrent)
  BY <1>2, <1>3, <1>4, <1>7 DEF Orderly, Sound
<1>9. ExtraRootsOK
  BY <1>2 DEF ExtraRootsOK
<1> QED
  BY <1>1, <1>2, <1>5, <1>6, <1>8, <1>9
  DEF RuntimeIInv, Setting, InCall, MarkPC, CompactPC, Collecting, Ready
-----------------------------------------------------------------------------
(* What the program and the runtime keep to is what the collector needs.   *)
LEMMA OrderIsPrecision ==
  ASSUME MemoryOK, Orderly(heap, words, hbegin, hcurrent)
  PROVE  /\ PreciseRoots /\ PreciseFields
         /\ ~ValidHeapPointer(words[StackBottom])
<1>1. hbegin \in Nat \ {0}
  BY DEF MemoryOK, Orderly
<1>2. ASSUME NEW w \in Int, Sound(w, heap, hbegin, hcurrent), ValidHeapPointer(w)
      PROVE  ToData(w) \in DOMAIN heap /\ 0 < w
  BY <1>1, <1>2, SoundWords DEF ValidHeapPointer
<1>3. PreciseRoots
  <2>1. \A i \in 1 .. Len(RootSlots) :
          /\ words[RootSlots[i]] \in Int
          /\ Sound(words[RootSlots[i]], heap, hbegin, hcurrent)
    <3>1. /\ RootSlots \in Seq(Slot)
          /\ \A i \in 1 .. Len(RootSlots) : words[RootSlots[i]] \in Int
      BY RootSlotsType
    <3>2. \A i \in 1 .. Len(RootSlots) : RootSlots[i] \in Slot
      BY <3>1
    <3> QED
      BY <3>1, <3>2 DEF Orderly
  <2> QED
    BY <1>2, <2>1 DEF PreciseRoots, Pointees, RootWords
<1>4. PreciseFields
  <2> SUFFICES ASSUME NEW a \in DOMAIN heap, NEW i \in PtrFields(heap[a]),
                      ValidHeapPointer(heap[a].body[i])
               PROVE  ToData(heap[a].body[i]) \in DOMAIN heap
    BY DEF PreciseFields, Refs, Pointees
  <2>1. heap[a].body \in Seq(Int) /\ i \in FirstField(heap[a]) .. Len(heap[a].body)
    BY DEF MemoryOK, Object, PtrFields
  <2>2. FirstField(heap[a]) \in Nat \ {0}
    BY <2>1 DEF FirstField
  <2>3. heap[a].body[i] \in Int
    BY <2>1, <2>2
  <2>4. Sound(heap[a].body[i], heap, hbegin, hcurrent)
    BY <2>1 DEF Orderly
  <2> QED
    BY <1>2, <2>3, <2>4
<1>5. words[StackBottom] \in Int /\ words[StackBottom] <= 0
  BY Layout DEF MemoryOK, Slot, Orderly
<1> QED
  BY <1>1, <1>3, <1>4, <1>5 DEF ValidHeapPointer, InChunk

LEMMA MarkingStarts == MarkInit' => MarkIInv'
<1>1. MarkInit => MarkIInv
  BY MarkInitial
<1> QED
  BY <1>1, PTL

LEMMA StartGCStep == ASSUME RuntimeIInv, StartGC PROVE RuntimeIInv'
<1>1. /\ pc = "call" /\ pc' = "roots" /\ root' = 1 /\ field' = 1
      /\ qHead' = hbegin /\ qTail' = hbegin /\ obj' = hbegin
      /\ UNCHANGED <<heap, hbegin, hsize, hcurrent, words, stackTop, extraRoots>>
      /\ UNCHANGED <<todo, call>>
  BY DEF StartGC, memory
<1>2. /\ Setting /\ ExtraRootsOK /\ CallTyped /\ Ready
      /\ Supplied(call, heap, words) /\ ArrayKept(heap, words)
  BY <1>1 DEF RuntimeIInv, InCall
<1>3. PreciseRoots /\ PreciseFields
  BY <1>2, OrderIsPrecision DEF Ready
<1>4. MarkInit'
  <2>1. /\ MemoryOK /\ Shape /\ Unmarked
    BY <1>2, <1>3 DEF Shape, Ready
  <2>2. SameShape
    BY <1>1, <2>1 DEF SameShape, MemoryOK
  <2>3. MemoryOK' /\ Shape'
    BY <2>1, <2>2, ShapeKept
  <2>4. Unmarked'
    BY <1>1, <2>1 DEF Unmarked
  <2> QED
    BY <1>1, <2>3, <2>4 DEF MarkInit, MarkStart, Shape
<1>5. MarkIInv'
  BY <1>4, MarkingStarts
<1>6. Setting' /\ ExtraRootsOK' /\ CallTyped' /\ ArrayKept(heap, words)'
  BY <1>1, <1>2 DEF Setting, ExtraRootsOK, CallTyped, ArrayKept
<1>7. Orderly(heap, words, hbegin, hcurrent)'
  <2>1. Rooted' = Rooted
    BY <1>1 DEF Rooted, RootSlots, StackSlots, GlobalSlots
  <2> QED
    BY <1>1, <1>2, <2>1 DEF Orderly, Ready
<1> QED
  BY <1>1, <1>2, <1>5, <1>6, <1>7
  DEF RuntimeIInv, InCall, MarkPC, CompactPC, Collecting
-----------------------------------------------------------------------------
(* The memory h2, ws2 has what h, ws had where a pointer was: an object of *)
(* the same kind and length.                                               *)
SamePlaces(h, ws, h2, ws2) ==
  \A s \in Slot :
    0 < ws[s] => /\ 0 < ws2[s]
                 /\ h2[ToData(ws2[s])].kind = h[ToData(ws[s])].kind
                 /\ Len(h2[ToData(ws2[s])].body) = Len(h[ToData(ws[s])].body)

LEMMA SuppliedStill ==
  ASSUME NEW c \in Calls \cup ArgCalls, NEW h, NEW ws, NEW h2, NEW ws2,
         SamePlaces(h, ws, h2, ws2), Supplied(c, h, ws)
  PROVE  Supplied(c, h2, ws2)
<1>1. c.args \in Seq(Slot) /\ c.source \in {"words", "copy", "both", "part"}
  BY DEF Calls, ArgCalls
<1>2. CASE c.source = "words"
  BY <1>2 DEF Supplied
<1>3. CASE c.source # "words"
  <2>1. Len(c.args) = IF c.source = "both" THEN 2 ELSE 1
    BY <1>3 DEF Supplied
  <2>2. ASSUME NEW i \in 1 .. Len(c.args)
        PROVE  /\ 0 < ws2[c.args[i]]
               /\ Source(c, h2, ws2, i).kind = Source(c, h, ws, i).kind
               /\ Len(Source(c, h2, ws2, i).body) = Len(Source(c, h, ws, i).body)
    <3>1. c.args[i] \in Slot /\ 0 < ws[c.args[i]]
      BY <1>1, <1>3 DEF Supplied
    <3> QED
      BY <3>1 DEF SamePlaces, Source
  <2>3. CASE c.source = "copy"
    <3>1. 1 \in 1 .. Len(c.args)
      BY <2>1, <2>3
    <3> QED
      BY <2>1, <2>2, <2>3, <3>1 DEF Supplied
  <2>4. CASE c.source = "both"
    <3>1. 1 \in 1 .. Len(c.args) /\ 2 \in 1 .. Len(c.args)
      BY <2>1, <2>4
    <3> QED
      BY <2>1, <2>2, <2>4, <3>1 DEF Supplied
  <2>5. CASE c.source = "part"
    <3>1. 1 \in 1 .. Len(c.args)
      BY <2>1, <2>5
    <3> QED
      BY <2>1, <2>2, <2>5, <3>1 DEF Supplied
  <2> QED
    BY <1>1, <1>3, <2>3, <2>4, <2>5
<1> QED
  BY <1>2, <1>3

LEMMA ArrayStillKept ==
  ASSUME NEW h, NEW ws, NEW h2, NEW ws2,
         SamePlaces(h, ws, h2, ws2), ArrayKept(h, ws)
  PROVE  ArrayKept(h2, ws2)
<1>1. ArgArray \in Slot
  BY Layout DEF ArgArray, Inner, Slot
<1> QED
  BY <1>1 DEF SamePlaces, ArrayKept

LEMMA CallOfSomeKind == ASSUME CallTyped PROVE call \in Calls \cup ArgCalls
BY DEF CallTyped

LEMMA MarkKeeps ==
  ASSUME MarkNext
  PROVE  /\ pc \in MarkPC /\ pc' \in MarkPC
         /\ UNCHANGED <<hbegin, hsize, hcurrent, words, stackTop, extraRoots>>
BY DEF MarkNext, SkipRoot, MarkRoot, RootDone, AllRootsDone, Dequeue, SkipField,
       EnqueueField, FieldsDone, memory, MarkPC

LEMMA MarkGoesOn == ASSUME RuntimeIInv, Mark PROVE RuntimeIInv'
<1>1. MarkNext /\ UNCHANGED <<todo, call>>
  BY DEF Mark
<1>2. /\ pc \in MarkPC /\ pc' \in MarkPC
      /\ UNCHANGED <<hbegin, hsize, hcurrent, words, stackTop, extraRoots>>
  BY <1>1, MarkKeeps
<1>3. pc \notin {"start", "mutator", "failed"} /\ pc' \notin {"start", "mutator", "failed"}
      /\ pc' \notin {"call", "compacted"} \cup CompactPC
  BY <1>2 DEF MarkPC, CompactPC
<1>4. /\ Setting /\ ExtraRootsOK /\ CallTyped /\ MarkIInv
      /\ Orderly(heap, words, hbegin, hcurrent)
      /\ Supplied(call, heap, words) /\ ArrayKept(heap, words)
  BY <1>2, <1>3 DEF RuntimeIInv, InCall
<1>5. MarkIInv'
  BY <1>1, <1>4, MarkInductive
<1>6. /\ DOMAIN heap' = DOMAIN heap
      /\ \A a \in DOMAIN heap : heap'[a].body = heap[a].body
                                /\ heap'[a].kind = heap[a].kind
  BY <1>1, <1>4, StepsAreBenign DEF MarkStep
<1>7. Setting' /\ ExtraRootsOK' /\ CallTyped'
  BY <1>1, <1>2, <1>4 DEF Setting, ExtraRootsOK, CallTyped
<1>8. Orderly(heap, words, hbegin, hcurrent)'
  <2>1. Rooted' = Rooted
    BY <1>2 DEF Rooted, RootSlots, StackSlots, GlobalSlots
  <2>2. \A a \in DOMAIN heap : FirstField(heap[a])' = FirstField(heap[a])
    BY <1>6 DEF FirstField
  <2>3. \A w : Sound(w, heap, hbegin, hcurrent)' = Sound(w, heap, hbegin, hcurrent)
    BY <1>2, <1>6 DEF Sound
  <2> QED
    BY <1>2, <1>4, <1>6, <2>1, <2>2, <2>3 DEF Orderly
<1>9. SamePlaces(heap, words, heap', words')
  <2> SUFFICES ASSUME NEW s \in Slot, 0 < words[s]
               PROVE  ToData(words[s]) \in DOMAIN heap
    BY <1>2, <1>6 DEF SamePlaces
  <2>1. words[s] \in Int /\ hbegin \in Nat \ {0}
    BY <1>4 DEF MarkIInv, MarkTypeOK, MemoryOK, Orderly
  <2> QED
    BY <1>4, <2>1, SoundWords DEF Orderly
<1>10. Supplied(call, heap, words)' /\ ArrayKept(heap, words)'
  <2>1. Supplied(call, heap', words') /\ ArrayKept(heap', words')
    BY <1>4, <1>9, SuppliedStill, ArrayStillKept, CallOfSomeKind
  <2> QED
    BY <1>1, <2>1 DEF ArrayKept
<1> QED
  BY <1>2, <1>3, <1>5, <1>7, <1>8, <1>10 DEF RuntimeIInv, InCall, Collecting
-----------------------------------------------------------------------------
(* No word the program holds leads to where mremap may move the heap.      *)
LEMMA OrderLeavesBasesUnused ==
  ASSUME MemoryOK, Orderly(heap, words, hbegin, hcurrent)
  PROVE  BasesUnused
<1>1. hbegin \in Nat \ {0} /\ hcurrent \in Nat
  BY DEF MemoryOK, Orderly
<1>2. ASSUME NEW w \in Int, Sound(w, heap, hbegin, hcurrent),
             ~ValidHeapPointer(w), NEW b \in RemapBases
      PROVE  ~InChunk(w, b, b + (hcurrent - hbegin))
  <2>1. w <= 0
    BY <1>2 DEF Sound, ValidHeapPointer
  <2>2. b \in Nat /\ b # 0
    BY CapacityAssumption, MappingAssumption
  <2> QED
    BY <2>1, <2>2 DEF InChunk
<1>3. ASSUME NEW w \in RootWords
      PROVE  w \in Int /\ Sound(w, heap, hbegin, hcurrent)
  <2>1. PICK i \in 1 .. Len(RootSlots) : w = words[RootSlots[i]]
    BY DEF RootWords
  <2>2. RootSlots[i] \in Slot /\ words[RootSlots[i]] \in Int
    BY RootSlotsType
  <2> QED
    BY <2>1, <2>2 DEF Orderly
<1>4. ASSUME NEW w \in LivePointers
      PROVE  w \in Int /\ Sound(w, heap, hbegin, hcurrent)
  <2>1. PICK a \in Live : w \in {heap[a].body[i] : i \in PtrFields(heap[a])}
    BY DEF LivePointers
  <2>2. PICK i \in PtrFields(heap[a]) : w = heap[a].body[i]
    BY <2>1
  <2>3. /\ a \in DOMAIN heap /\ heap[a].body \in Seq(Int)
        /\ i \in FirstField(heap[a]) .. Len(heap[a].body)
    BY DEF Live, MemoryOK, Object, PtrFields
  <2>4. FirstField(heap[a]) \in Nat \ {0}
    BY <2>3 DEF FirstField
  <2> QED
    BY <2>2, <2>3, <2>4 DEF Orderly
<1> QED
  BY <1>2, <1>3, <1>4 DEF BasesUnused

LEMMA CompactionStarts == CompactInit' => CompactIInv'
<1>1. CompactInit => CompactIInv
  BY CompactInitial
<1> QED
  BY <1>1, PTL

LEMMA StartCompactStep == ASSUME RuntimeIInv, StartCompact PROVE RuntimeIInv'
<1>1. /\ pc = "marked" /\ pc' = "locate"
      /\ scan' = hbegin /\ live' = 0 /\ extra' = 1
      /\ oldBegin' = hbegin /\ oldCurrent' = hcurrent
      /\ additional' = Request
      /\ before' = [heap |-> heap, words |-> words, lo |-> hbegin, hi |-> hcurrent]
      /\ UNCHANGED <<heap, hbegin, hsize, hcurrent, words, stackTop, extraRoots>>
      /\ UNCHANGED <<todo, call>>
  BY DEF StartCompact, memory
<1>2. /\ Setting /\ ExtraRootsOK /\ CallTyped /\ MarkIInv
      /\ Orderly(heap, words, hbegin, hcurrent)
      /\ Supplied(call, heap, words) /\ ArrayKept(heap, words)
  BY <1>1 DEF RuntimeIInv, InCall, MarkPC
<1>3. MemoryOK /\ Contiguous(heap, hbegin, hcurrent)
  BY <1>2 DEF MarkIInv, MarkTypeOK, Shape
<1>4. /\ \A a \in DOMAIN heap : ~heap[a].enq
      /\ Pointees(RootWords) \subseteq Live /\ Closed(Live)
  BY <1>1, <1>2, MarkedAreClosed DEF Live
<1>5. BasesUnused /\ ~ValidHeapPointer(words[StackBottom])
  BY <1>2, <1>3, OrderIsPrecision, OrderLeavesBasesUnused
<1>6. Request \in Nat
  BY <1>2, HeaderWordsAssumption, CallOfSomeKind DEF Request, Calls, ArgCalls
<1>7. CompactInit'
  <2>1. MemoryOK' /\ Contiguous(heap, hbegin, hcurrent)' /\ ExtraRootsOK'
    BY <1>1, <1>2, <1>3 DEF MemoryOK, hend, ExtraRootsOK
  <2>2. Live' = Live /\ RootWords' = RootWords
    BY <1>1 DEF Live, RootWords, RootSlots, StackSlots, GlobalSlots
  <2>3. \A w : ValidHeapPointer(w)' = ValidHeapPointer(w)
    BY <1>1 DEF ValidHeapPointer
  <2>4. LiveClosed'
    <3>1. \A W : Pointees(W)' = Pointees(W)
      BY <2>3 DEF Pointees
    <3>2. Pointees(RootWords)' = Pointees(RootWords)
      BY <2>2, <2>3 DEF Pointees
    <3>3. \A a : Refs(a)' = Refs(a)
      BY <1>1, <2>3 DEF Refs, Pointees
    <3>4. Closed(Live)' = Closed(Live)
      BY <2>2, <3>3 DEF Closed
    <3> QED
      BY <1>4, <2>2, <3>2, <3>4 DEF LiveClosed
  <2>5. BasesUnused'
    <3>1. LivePointers' = LivePointers
      BY <1>1, <2>2 DEF LivePointers
    <3> QED
      BY <1>1, <1>5, <2>2, <2>3, <3>1 DEF BasesUnused
  <2> QED
    BY <1>1, <1>4, <1>5, <1>6, <2>1, <2>3, <2>4, <2>5
    DEF CompactInit, CompactStart
<1>8. CompactIInv'
  BY <1>7, CompactionStarts
<1>9. /\ Setting' /\ ExtraRootsOK' /\ CallTyped'
      /\ ArrayKept(before.heap, before.words)'
  BY <1>1, <1>2 DEF Setting, ExtraRootsOK, CallTyped, ArrayKept
<1>10. Orderly(before.heap, before.words, before.lo, before.hi)'
  <2>1. Rooted' = Rooted
    BY <1>1 DEF Rooted, RootSlots, StackSlots, GlobalSlots
  <2> QED
    BY <1>1, <1>2, <2>1 DEF Orderly
<1>11. additional' = Request' /\ Supplied(call, before.heap, before.words)'
  BY <1>1, <1>2 DEF Request
<1> QED
  BY <1>1, <1>8, <1>9, <1>10, <1>11
  DEF RuntimeIInv, InCall, MarkPC, CompactPC, Collecting
-----------------------------------------------------------------------------
(* Compaction.  What a word that was sound becomes.                        *)
LEMMA CorrectedIsSound ==
  ASSUME NEW f, BeforeOK, Placed(f), HeapCompacted(f), 0 < before.lo,
         hbegin \in Nat, live \in Nat, NEW w \in Int, Follows(w),
         Sound(w, before.heap, before.lo, before.hi)
  PROVE  /\ Sound(Corrected(f, w), heap, hbegin, hcurrent)
         /\ 0 < Corrected(f, w) <=> 0 < w
         /\ 0 < w =>
              LET o == heap[ToData(Corrected(f, w))]
                  b == before.heap[ToData(w)]
              IN o.kind = b.kind /\ Len(o.body) = Len(b.body)
<1>1. before.lo \in Nat \ {0} /\ HeaderWords \in Nat \ {0} /\ hcurrent = hbegin + live
  BY HeaderWordsAssumption DEF BeforeOK, HeapCompacted
<1>2. 0 < w <=> OldPointer(w)
  BY <1>1, SoundWords DEF OldPointer
<1>3. CASE ~OldPointer(w)
  <2>1. Corrected(f, w) = w /\ w <= 0
    BY <1>2, <1>3 DEF Corrected
  <2> QED
    BY <2>1 DEF Sound
<1>4. CASE OldPointer(w)
  <2>1. PICK a : a = ToData(w)
    OBVIOUS
  <2>2. a \in Survivors /\ a \in OldObjects
    BY <1>4, <2>1, SurvivorsAreObjects DEF Follows
  <2>3. PICK t : t = Target(f, a)
    OBVIOUS
  <2>4. /\ t \in Nat /\ hbegin <= t /\ t + SizeOf(a) <= hcurrent
        /\ HeaderWords <= SizeOf(a) /\ SizeOf(a) \in Nat
        /\ Old(a).body \in Seq(Int) /\ Len(Old(a).body) \in Nat
        /\ t \in DOMAIN heap /\ heap[t].kind = Old(a).kind
        /\ heap[t].body = CorrectedBody(f, a)
    BY <1>1, <2>2, <2>3, PlacedFacts, OldFacts
    DEF Placed, HeapCompacted, InTarget
  <2>5. Len(heap[t].body) = Len(Old(a).body)
    BY <2>4 DEF CorrectedBody
  <2>6. PICK p : p = t + HeaderWords
    OBVIOUS
  <2>7. Corrected(f, w) = p
    BY <1>4, <2>1, <2>3, <2>6 DEF Corrected, Content
  <2>8. 0 < p /\ InChunk(p, hbegin, hcurrent) /\ ToData(p) = t
    BY <1>1, <2>4, <2>6 DEF InChunk, Unboxed, ToData
  <2> QED
    BY <1>2, <1>4, <2>1, <2>4, <2>5, <2>7, <2>8 DEF Sound, Old
<1> QED
  BY <1>3, <1>4

(* Every word outside the heap is what the phase makes of it, be it one it *)
(* fixed or one it left alone.                                             *)
LEMMA EveryWordCorrected ==
  ASSUME CompactIInv, pc = "compacted", NEW f, Placed(f), WordsFixed(f),
         Orderly(before.heap, before.words, before.lo, before.hi),
         NEW s \in Slot
  PROVE  words[s] = Corrected(f, before.words[s])
<1>1. MemoryOK /\ BeforeOK /\ InputOK
  BY AfterCompaction
<1>2. CASE s \in FixedSlots
  BY <1>2 DEF WordsFixed
<1>3. CASE s \notin FixedSlots /\ s \notin Rooted
  <2>1. before.words[s] \in Int /\ before.words[s] <= 0
    BY <1>1, <1>3 DEF Orderly, BeforeOK
  <2>2. ~OldPointer(before.words[s])
    BY <1>1, <2>1 DEF OldPointer, InChunk, Orderly, BeforeOK
  <2> QED
    BY <1>3, <2>2 DEF WordsFixed, Corrected
<1>4. s \in Rooted => s \in FixedSlots
  BY RootsAreFixed
<1> QED
  BY <1>2, <1>3, <1>4
(* The memory the phase leaves, and the one it was given.                  *)
LEMMA CompactionKeepsOrder ==
  ASSUME CompactIInv, pc = "compacted",
         Orderly(before.heap, before.words, before.lo, before.hi)
  PROVE  /\ Ready
         /\ SamePlaces(before.heap, before.words, heap, words)
<1>1. /\ MemoryOK /\ BeforeOK /\ InputOK /\ hbegin \in Nat /\ live \in Nat
      /\ before.lo \in Nat /\ 0 < before.lo
  BY AfterCompaction DEF BeforeOK, Orderly
<1>2. PICK f : Placed(f) /\ WordsFixed(f) /\ HeapCompacted(f)
  BY AfterCompaction
<1>3. /\ Contiguous(heap, hbegin, hcurrent)
      /\ Unmarked
  BY ReadyWhenCompacted DEF HeapReady, Unmarked
<1>4. 0 < hbegin
  BY <1>1, <1>2, CapacityAssumption, MappingAssumption DEF Placed
<1>5. ASSUME NEW s \in Slot
      PROVE  /\ words[s] = Corrected(f, before.words[s])
             /\ before.words[s] \in Int
             /\ Sound(before.words[s], before.heap, before.lo, before.hi)
             /\ Follows(before.words[s])
  <2>1. words[s] = Corrected(f, before.words[s])
    BY <1>2, EveryWordCorrected
  <2>2. /\ before.words[s] \in Int
        /\ Sound(before.words[s], before.heap, before.lo, before.hi)
    BY <1>1 DEF BeforeOK, Orderly
  <2>3. CASE s \in Rooted
    BY <1>1, <2>1, <2>2, <2>3 DEF InputOK
  <2>4. CASE s \notin Rooted
    <3>1. before.words[s] <= 0
      BY <2>2, <2>4 DEF Orderly
    <3>2. ~OldPointer(before.words[s])
      BY <1>1, <2>2, <3>1 DEF OldPointer, InChunk
    <3>3. ASSUME NEW b \in RemapBases
          PROVE  ~InChunk(before.words[s], b, b + (before.hi - before.lo))
      BY <2>2, <3>1, CapacityAssumption, MappingAssumption DEF InChunk
    <3> QED
      BY <2>1, <2>2, <3>2, <3>3 DEF Follows
  <2> QED
    BY <2>3, <2>4
<1>6. ASSUME NEW s \in Slot
      PROVE  /\ Sound(words[s], heap, hbegin, hcurrent)
             /\ 0 < words[s] <=> 0 < before.words[s]
             /\ 0 < before.words[s] =>
                  LET o == heap[ToData(words[s])]
                      b == before.heap[ToData(before.words[s])]
                  IN o.kind = b.kind /\ Len(o.body) = Len(b.body)
  BY <1>1, <1>2, <1>5, CorrectedIsSound
<1>7. ASSUME NEW a \in DOMAIN heap, NEW i \in FirstField(heap[a]) .. Len(heap[a].body)
      PROVE  Sound(heap[a].body[i], heap, hbegin, hcurrent)
  <2>1. PICK c \in Survivors : a = Target(f, c)
    BY <1>2 DEF HeapCompacted
  <2>2. c \in OldObjects /\ Old(c) \in Object /\ Old(c).body \in Seq(Int)
    BY <1>1, <2>1, OldFacts, SurvivorsAreObjects
  <2>3. PICK o, b : o = heap[a] /\ b = Old(c)
    OBVIOUS
  <2>4. o.kind = b.kind /\ o.body = CorrectedBody(f, c)
    BY <1>2, <2>1, <2>3 DEF HeapCompacted, InTarget
  <2>5. /\ Len(b.body) \in Nat /\ Len(o.body) = Len(b.body)
        /\ \A j \in 1 .. Len(b.body) :
             o.body[j] = IF j \in PtrFields(b) THEN Corrected(f, b.body[j])
                                               ELSE b.body[j]
    BY <2>2, <2>3, <2>4 DEF CorrectedBody
  <2>6. FirstField(b) \in Nat \ {0} /\ FirstField(o) = FirstField(b)
    BY <2>4, <2>5 DEF FirstField
  <2>7. i \in 1 .. Len(b.body) /\ i \in FirstField(b) .. Len(b.body)
    BY <2>3, <2>5, <2>6
  <2>8. b.body[i] \in Int
    BY <2>2, <2>3, <2>7
  <2>9. Sound(b.body[i], before.heap, before.lo, before.hi)
    BY <2>2, <2>3, <2>7 DEF Orderly, OldObjects, Old
  <2>10. CASE i \in PtrFields(b)
    <3>1. Follows(b.body[i])
      BY <1>1, <2>1, <2>3, <2>10 DEF InputOK
    <3>2. Sound(Corrected(f, b.body[i]), heap, hbegin, hcurrent)
      BY <1>1, <1>2, <2>8, <2>9, <3>1, CorrectedIsSound
    <3> QED
      BY <2>3, <2>5, <2>7, <2>10, <3>2
  <2>11. CASE i \notin PtrFields(b)
    <3>1. b.body[i] < 0
      BY <2>7, <2>11 DEF PtrFields, Unboxed
    <3>2. o.body[i] = b.body[i]
      BY <2>5, <2>7, <2>11
    <3> QED
      BY <2>3, <2>8, <3>1, <3>2 DEF Sound
  <2> QED
    BY <2>10, <2>11
<1>8. Orderly(heap, words, hbegin, hcurrent)
  <2>1. StackBottom \in Slot
    BY Layout DEF Slot
  <2>2. ASSUME NEW s \in Slot, 0 < words[s] PROVE s \in Rooted
    BY <1>6, <2>2 DEF Orderly
  <2>3. words[StackBottom] <= 0
    <3>1. ~(0 < before.words[StackBottom])
      BY <1>5, <2>1 DEF Orderly
    <3>2. ~(0 < words[StackBottom]) /\ words[StackBottom] \in Int
      BY <1>1, <1>6, <2>1, <3>1 DEF MemoryOK
    <3> QED
      BY <3>2
  <2> QED
    BY <1>4, <1>6, <1>7, <2>2, <2>3 DEF Orderly
<1>9. SamePlaces(before.heap, before.words, heap, words)
  BY <1>6 DEF SamePlaces
<1> QED
  BY <1>1, <1>3, <1>8, <1>9 DEF Ready

Compacted ==
  /\ CompactIInv /\ pc = "compacted" /\ additional = Request /\ CallTyped
  /\ Orderly(before.heap, before.words, before.lo, before.hi)
  /\ Supplied(call, before.heap, before.words)
  /\ ArrayKept(before.heap, before.words)

Resumed ==
  /\ Ready /\ Supplied(call, heap, words) /\ ArrayKept(heap, words) /\ Fits

LEMMA Recovered == Compacted' => Resumed'
<1>1. ASSUME Compacted PROVE Resumed
  <2>1. Ready /\ SamePlaces(before.heap, before.words, heap, words)
    BY <1>1, CompactionKeepsOrder DEF Compacted
  <2>2. Supplied(call, heap, words) /\ ArrayKept(heap, words)
    BY <1>1, <2>1, SuppliedStill, ArrayStillKept, CallOfSomeKind DEF Compacted
  <2>3. Fits
    BY <1>1, ReadyWhenCompacted DEF Compacted, HeapReady, Fits
  <2> QED
    BY <2>1, <2>2, <2>3 DEF Resumed
<1>2. Compacted => Resumed
  BY <1>1
<1> QED
  BY <1>2, PTL

LEMMA CompactKeeps ==
  ASSUME CompactNext
  PROVE  /\ pc \in CompactPC \ {"compacted", "failed"} /\ pc' \in CompactPC
         /\ UNCHANGED <<before, additional, stackTop, extraRoots>>
BY DEF CompactNext, LocateLive, LocateDead, Located, Remap, RemapFails,
       FixLiveFields, FixDeadFields, FieldsFixed, FixStack, FixExtraRoot,
       SkipExtraRoot, ExtraRootsFixed, FixGlobals, RelocateLive, RelocateDead,
       Relocated, memory, compactVars, CompactPC

LEMMA CompactGoesOn == ASSUME RuntimeIInv, Compact PROVE RuntimeIInv'
<1>1. CompactNext /\ UNCHANGED <<todo, call>>
  BY DEF Compact
<1>2. /\ Collecting /\ pc' \in CompactPC
      /\ UNCHANGED <<before, additional, stackTop, extraRoots>>
  BY <1>1, CompactKeeps DEF Collecting
<1>3. /\ Setting /\ ExtraRootsOK /\ CallTyped
      /\ CompactIInv /\ additional = Request
      /\ Orderly(before.heap, before.words, before.lo, before.hi)
      /\ Supplied(call, before.heap, before.words)
      /\ ArrayKept(before.heap, before.words)
  BY <1>2 DEF RuntimeIInv, InCall, Collecting, CompactPC
<1>4. CompactIInv'
  BY <1>1, <1>3, CompactInductive
<1>5. /\ Setting' /\ ExtraRootsOK' /\ CallTyped'
      /\ additional' = Request' /\ Supplied(call, before.heap, before.words)'
      /\ ArrayKept(before.heap, before.words)'
  BY <1>1, <1>2, <1>3
  DEF Setting, ExtraRootsOK, CallTyped, Request, ArrayKept
<1>6. Orderly(before.heap, before.words, before.lo, before.hi)'
  <2>1. Rooted' = Rooted
    BY <1>2 DEF Rooted, RootSlots, StackSlots, GlobalSlots
  <2> QED
    BY <1>2, <1>3, <2>1 DEF Orderly
<1>7. CASE pc' = "compacted"
  <2>1. Compacted'
    BY <1>4, <1>5, <1>6, <1>7 DEF Compacted
  <2>2. Resumed'
    BY <2>1, Recovered
  <2> QED
    BY <1>5, <1>7, <2>2
    DEF RuntimeIInv, InCall, Collecting, MarkPC, CompactPC, Resumed
<1>8. CASE pc' # "compacted"
  BY <1>2, <1>4, <1>5, <1>6, <1>8
  DEF RuntimeIInv, InCall, Collecting, MarkPC, CompactPC
<1> QED
  BY <1>7, <1>8
-----------------------------------------------------------------------------
(* A call begins.  "pushed" are sound words, rooted once the roots are     *)
(* registered.                                                             *)
Frame == StackTop - MaxArgs .. StackTop + MaxArgs

PushedOK(pushed, roots) ==
  /\ DOMAIN pushed \subseteq Frame
  /\ \A s \in DOMAIN pushed :
       /\ pushed[s] \in Int /\ Sound(pushed[s], heap, hbegin, hcurrent)
       /\ 0 < pushed[s] => StackTop < s \/ \E i \in 1 .. Len(roots) : s = roots[i]

RootsOK(roots) ==
  /\ roots \in Seq(StackTop - MaxArgs .. StackBottom)
  /\ \A i \in 1 .. Len(roots) : roots[i] # StackTop
  /\ \A i, j \in 1 .. Len(roots) : roots[i] = roots[j] => i = j

LEMMA Between ==
  ASSUME RuntimeIInv, pc = "mutator"
  PROVE  /\ Setting /\ extraRoots = <<SysArgs>> /\ Ready
         /\ \A s \in Slot : /\ words[s] \in Int
                            /\ Sound(words[s], heap, hbegin, hcurrent)
         /\ words[StackBottom] <= 0 /\ hbegin \in Nat \ {0}
<1>1. Setting /\ extraRoots = <<SysArgs>> /\ Ready
  BY DEF RuntimeIInv
<1> QED
  BY <1>1 DEF Ready, Orderly, MemoryOK

LEMMA EnterStep ==
  ASSUME RuntimeIInv, NEW c \in Calls, NEW pushed, NEW roots,
         Enter(c, pushed, roots),
         PushedOK(pushed, roots), RootsOK(roots),
         (c.source = "words" /\ FromWords(c)) \/ Supplied(c, heap, words')
  PROVE  RuntimeIInv'
<1>1. /\ pc = "mutator" /\ Setting /\ extraRoots = <<SysArgs>> /\ Ready
      /\ words[StackBottom] <= 0
      /\ \A s \in Slot : /\ words[s] \in Int
                         /\ Sound(words[s], heap, hbegin, hcurrent)
  BY Between DEF Enter
<1>2. /\ words' = [s \in Slot |-> IF s \in DOMAIN pushed THEN pushed[s] ELSE words[s]]
      /\ call' = [c EXCEPT !.roots = Len(roots)]
      /\ UNCHANGED <<heap, hbegin, hsize, hcurrent, stackTop>>
      /\ Counted
  BY DEF Enter
<1>3. Setting'
  BY <1>1, <1>2 DEF Setting, Counted
<1>4. CASE pc' = "failed"
  BY <1>3, <1>4, ProgramStops
<1>5. CASE pc' = "call" /\ extraRoots' = extraRoots \o roots
  <2>1. roots \in Seq(Slot) /\ Len(roots) \in Nat
    BY Layout DEF RootsOK
  <2>2. /\ extraRoots' \in Seq(Slot) /\ Len(extraRoots') = 1 + Len(roots)
        /\ extraRoots'[1] = SysArgs
        /\ \A i \in 1 .. Len(roots) : extraRoots'[1 + i] = roots[i]
    <3>1. extraRoots \in Seq(Slot) /\ Len(extraRoots) = 1 /\ extraRoots[1] = SysArgs
      BY <1>1, Layout
    <3>2. PICK e : e = extraRoots
      OBVIOUS
    <3>3. /\ e \o roots \in Seq(Slot) /\ Len(e \o roots) = Len(e) + Len(roots)
          /\ \A i \in 1 .. Len(e) : (e \o roots)[i] = e[i]
          /\ \A i \in 1 .. Len(roots) : (e \o roots)[Len(e) + i] = roots[i]
      BY <2>1, <3>1, <3>2, Concatenation
    <3>4. extraRoots' = e \o roots /\ Len(e) = 1 /\ e[1] = SysArgs
      BY <1>5, <3>1, <3>2
    <3> QED
      BY <3>3, <3>4
  <2>3. ASSUME NEW i \in 2 .. Len(extraRoots')
        PROVE  i - 1 \in 1 .. Len(roots) /\ extraRoots'[i] = roots[i - 1]
    <3>1. i - 1 \in 1 .. Len(roots) /\ 1 + (i - 1) = i
      BY <2>1, <2>2
    <3> QED
      BY <2>2, <3>1
  <2>4. /\ \A i \in 2 .. Len(extraRoots') :
             /\ extraRoots'[i] \in StackTop - MaxArgs .. StackBottom
             /\ extraRoots'[i] # StackTop
        /\ \A i, j \in 2 .. Len(extraRoots') :
             extraRoots'[i] = extraRoots'[j] => i = j
    <3>1. PICK S : S = StackTop - MaxArgs .. StackBottom
      OBVIOUS
    <3>2. roots \in Seq(S)
      BY <3>1 DEF RootsOK
    <3>3. \A i \in 1 .. Len(roots) : roots[i] \in S
      BY <3>2
    <3>4. ASSUME NEW i \in 2 .. Len(extraRoots'), NEW j \in 2 .. Len(extraRoots'),
                 extraRoots'[i] = extraRoots'[j]
          PROVE  i = j
      <4>1. i - 1 = j - 1
        BY <2>3, <3>4 DEF RootsOK
      <4> QED
        BY <2>1, <2>2, <4>1
    <3>5. ASSUME NEW i \in 2 .. Len(extraRoots')
          PROVE  extraRoots'[i] \in S /\ extraRoots'[i] # StackTop
      BY <2>3, <3>3 DEF RootsOK
    <3> QED
      BY <3>1, <3>4, <3>5, Zenon
  <2>5. ExtraRootsOK'
    <3>1. ASSUME NEW i \in 1 .. Len(extraRoots'), NEW j \in 1 .. Len(extraRoots'),
                 extraRoots'[i] = extraRoots'[j]
          PROVE  i = j
      BY <2>1, <2>2, <2>4, <3>1, Layout
    <3>2. \A i \in 1 .. Len(extraRoots') : extraRoots'[i] \notin {StackTop, GlobalStop}
      BY <2>1, <2>2, <2>4, Layout
    <3> QED
      BY <1>3, <3>1, <3>2 DEF ExtraRootsOK, Setting
  <2>6. /\ call' \in Calls /\ call'.fn = c.fn /\ call'.kind = c.kind
        /\ call'.len = c.len /\ call'.source = c.source /\ call'.raw = c.raw
        /\ call'.from = c.from /\ call'.args = c.args
        /\ call'.roots = Len(roots)
    BY <1>2, <2>1 DEF Calls
  <2>7. c.fn # "set_args" /\ CallTyped'
    BY <2>1, <2>2, <2>4, <2>6 DEF CallTyped, Calls, Functions
  <2>8. words' \in [Slot -> Int]
    BY <1>1, <1>2 DEF PushedOK
  <2>9. MemoryOK'
    BY <1>1, <1>2, <2>2, <2>8 DEF Ready, MemoryOK, hend
  <2>10. RegionsRooted'
    BY <2>9, RootedAfter
  <2>11. ASSUME NEW s \in Slot, 0 < words'[s] PROVE s \in Rooted'
    <3>1. CASE s \in DOMAIN pushed
      <4>1. 0 < pushed[s] /\ s \in Frame
        BY <1>2, <2>11, <3>1 DEF PushedOK
      <4>2. CASE StackTop < s
        BY <1>3, <2>10, <4>1, <4>2, Layout DEF RegionsRooted, Frame, Setting
      <4>3. CASE \E i \in 1 .. Len(roots) : s = roots[i]
        <5>1. \E j \in 1 .. Len(extraRoots') : s = extraRoots'[j]
          BY <2>1, <2>2, <4>3
        <5> QED
          BY <2>10, <5>1 DEF RegionsRooted
      <4> QED
        BY <3>1, <4>1, <4>2, <4>3 DEF PushedOK
    <3>2. CASE s \notin DOMAIN pushed
      <4>1. s \in Rooted
        BY <1>1, <1>2, <2>11, <3>2 DEF Ready, Orderly
      <4>2. \/ stackTop < s /\ s < StackBottom
            \/ s = SysArgs
            \/ GlobalStart <= s /\ s < GlobalStop
        BY <1>1, <4>1, RootedByRegion DEF Ready
      <4>3. s = SysArgs => \E j \in 1 .. Len(extraRoots') : s = extraRoots'[j]
        BY <2>1, <2>2
      <4> QED
        BY <1>2, <2>10, <4>2, <4>3 DEF RegionsRooted
    <3> QED
      BY <3>1, <3>2
  <2>12. \A s \in Slot : Sound(words'[s], heap, hbegin, hcurrent)
    BY <1>1, <1>2 DEF PushedOK
  <2>13. words'[StackBottom] <= 0
    <3>1. StackBottom \in Slot /\ StackBottom \notin Frame
      BY Layout DEF Slot, Frame
    <3> QED
      BY <1>1, <1>2, <3>1 DEF PushedOK
  <2>14. Ready'
    BY <1>1, <1>2, <2>2, <2>8, <2>11, <2>12, <2>13, WordsWritten
  <2>15. Supplied(call', heap', words')
    BY <1>2, <2>6 DEF Supplied, Source, FromWords, RawWordsOK
  <2>16. ArrayKept(heap, words)'
    BY <2>6, <2>7 DEF ArrayKept
  <2> QED
    BY <1>3, <1>5, <2>5, <2>7, <2>14, <2>15, <2>16, CallGoesOn
<1> QED
  BY <1>4, <1>5 DEF Enter
-----------------------------------------------------------------------------
(* What the calls are made of.                                             *)
LEMMA ArgsFacts ==
  ASSUME NEW n \in Nat, n <= MaxArgs
  PROVE  /\ Args(n) \in Seq(Slot) /\ Len(Args(n)) = n
         /\ \A i \in 1 .. n : Args(n)[i] = Arg(i) /\ Arg(i) \in Slot
         /\ RootsOK(Args(n))
<1>1. \A i \in 1 .. n : /\ Arg(i) \in Slot /\ Arg(i) # StackTop
                        /\ Arg(i) \in StackTop - MaxArgs .. StackBottom
  BY Layout DEF Arg, Slot
<1>2. Len(Args(n)) = n /\ \A i \in 1 .. n : Args(n)[i] = Arg(i)
  BY DEF Args
<1>3. /\ Args(n) \in Seq(Slot)
      /\ Args(n) \in Seq(StackTop - MaxArgs .. StackBottom)
  BY <1>1 DEF Args
<1>4. \A i, j \in 1 .. n : Arg(i) = Arg(j) => i = j
  BY Layout DEF Arg
<1> QED
  BY <1>1, <1>2, <1>3, <1>4 DEF RootsOK

LEMMA PushedFacts ==
  ASSUME RuntimeIInv, pc = "mutator",
         NEW ops \in Seq(Var), Len(ops) <= MaxArgs, NEW roots
  PROVE  /\ PushedOK(Pushed(ops), roots)
         /\ \A i \in 1 .. Len(ops) : /\ Arg(i) \in DOMAIN Pushed(ops)
                                     /\ Pushed(ops)[Arg(i)] = words[ops[i]]
<1>1. \A s \in Slot : words[s] \in Int /\ Sound(words[s], heap, hbegin, hcurrent)
  BY Between
<1>2. Len(ops) \in Nat /\ \A i \in 1 .. Len(ops) : ops[i] \in Slot
  <2>1. Len(ops) \in Nat /\ \A i \in 1 .. Len(ops) : ops[i] \in Var
    OBVIOUS
  <2> QED
    BY <2>1, Layout
<1>3. \A i \in 1 .. Len(ops) : /\ Arg(i) \in DOMAIN Pushed(ops)
                               /\ Arg(i) - StackTop = i
                               /\ Arg(i) \in Frame /\ StackTop < Arg(i)
  BY <1>2, Layout DEF Pushed, Arg, Frame
<1>4. \A i \in 1 .. Len(ops) : Pushed(ops)[Arg(i)] = words[ops[i]]
  BY <1>3 DEF Pushed
<1>5. \A s \in DOMAIN Pushed(ops) : \E i \in 1 .. Len(ops) : s = Arg(i)
  BY DEF Pushed
<1> QED
  BY <1>1, <1>2, <1>3, <1>4, <1>5 DEF PushedOK

LEMMA NothingPushed == ASSUME NEW roots PROVE PushedOK(<<>>, roots)
<1>1. DOMAIN <<>> = {}
  OBVIOUS
<1> QED
  BY <1>1 DEF PushedOK

LEMMA ParameterFacts ==
  ASSUME NEW pushed, NEW roots, PushedOK(pushed, roots),
         NEW w \in Int, Sound(w, heap, hbegin, hcurrent),
         0 < w => \E i \in 1 .. Len(roots) : roots[i] = Inner(1)
  PROVE  /\ PushedOK(Parameter(w, pushed), roots)
         /\ Inner(1) \in DOMAIN Parameter(w, pushed)
         /\ Parameter(w, pushed)[Inner(1)] = w
<1>1. Inner(1) \in Frame
  BY Layout DEF Inner, Frame
<1> QED
  BY <1>1 DEF PushedOK, Parameter

(* Bstring's parameter alone, or after the first argument.                 *)
LEMMA ParameterRoots ==
  RootsOK(<<>>) /\ RootsOK(<<Inner(1)>>) /\ RootsOK(<<Arg(1), Inner(1)>>)
<1>1. PICK S : S = StackTop - MaxArgs .. StackBottom
  OBVIOUS
<1>2. /\ Inner(1) \in S /\ Arg(1) \in S /\ Inner(1) # StackTop
      /\ Arg(1) # StackTop /\ Arg(1) # Inner(1)
  BY <1>1, Layout DEF Inner, Arg
<1>3. /\ <<>> \in Seq(S) /\ <<Inner(1)>> \in Seq(S)
      /\ <<Arg(1), Inner(1)>> \in Seq(S)
  BY <1>2
<1> QED
  BY <1>1, <1>2, <1>3 DEF RootsOK

LEMMA Names ==
  /\ "ARRAY" \in Kind /\ "STRING" \in Kind /\ "CLOSURE" \in Kind /\ "SEXP" \in Kind
  /\ "Barray" \in Functions /\ "Bsexp" \in Functions /\ "Bclosure" \in Functions
  /\ "LmakeArray" \in Functions /\ "LmakeString" \in Functions
  /\ "Lfread" \in Functions /\ "Lstring" \in Functions
  /\ "Lstringcat" \in Functions /\ "LgetEnv" \in Functions
  /\ "LreadLine" \in Functions /\ "Lsubstring" \in Functions
  /\ "Lclone" \in Functions /\ "Li__Infix_4343" \in Functions
BY DEF Kind, Functions

LEMMA Constructed ==
  ASSUME NEW fn \in Functions, NEW k \in Kind, NEW raw \in Seq(Int),
         NEW ops \in Seq(Var), NEW args \in Seq(Slot), NEW dest \in Assignable,
         Len(args) = Len(ops),
         k = "ARRAY" => \A i \in 1 .. Len(raw) : raw[i] <= 0,
         k \in {"SEXP", "CLOSURE"} => Len(raw) = 1,
         k = "STRING" => Len(args) = 0,
         NEW c, c = Constructor(fn, k, raw, ops, args, dest)
  PROVE  c \in Calls /\ c.source = "words" /\ FromWords(c)
<1>1. /\ c.fn = fn /\ c.kind = k /\ c.len = Len(raw) + Len(ops)
      /\ c.source = "words" /\ c.raw = raw /\ c.args = args
  BY DEF Constructor, Call
<1>2. c \in Calls
  BY DEF Constructor, Call, Calls
<1> QED
  BY <1>1, <1>2 DEF FromWords, RawWordsOK

(* A program that keeps to the collector's contract pushes sound words.    *)
LEMMA OperandFacts ==
  ASSUME NEW ops \in Operands
  PROVE  ops \in Seq(Var) /\ Len(ops) \in Nat /\ Len(ops) <= MaxArgs
BY ProgramAssumption
-----------------------------------------------------------------------------
(* The functions, one by one: what they push is sound, what they register  *)
(* covers it, and the call can be completed.                               *)
LEMMA BarrayStep ==
  ASSUME RuntimeIInv, NEW ops \in Operands, NEW dest \in Assignable,
         Barray(ops, dest)
  PROVE  RuntimeIInv'
<1>1. ops \in Seq(Var) /\ Len(ops) \in Nat /\ Len(ops) <= MaxArgs
  BY OperandFacts
<1>2. PICK raw : raw = <<>>
  OBVIOUS
<1>3. raw \in Seq(Int) /\ \A i \in 1 .. Len(raw) : raw[i] <= 0
  BY <1>2
<1>4. PICK k : k = "ARRAY"
  OBVIOUS
<1>5. PICK c : c = Constructor("Barray", k, raw, ops, Args(Len(ops)), dest)
  OBVIOUS
<1>6. c \in Calls /\ c.source = "words" /\ FromWords(c)
  <2>1. k \in Kind /\ k \notin {"SEXP", "CLOSURE"} /\ k # "STRING"
    BY <1>4, Names
  <2>2. Args(Len(ops)) \in Seq(Slot) /\ Len(Args(Len(ops))) = Len(ops)
    BY <1>1, ArgsFacts
  <2> QED
    BY <1>1, <1>3, <1>5, <2>1, <2>2, Names, Constructed
<1>7. Enter(c, Pushed(ops), <<>>) /\ pc = "mutator"
  BY <1>2, <1>4, <1>5 DEF Barray, Enter
<1>8. PushedOK(Pushed(ops), <<>>) /\ RootsOK(<<>>)
  BY <1>1, <1>7, PushedFacts, ParameterRoots
<1> QED
  BY <1>6, <1>7, <1>8, EnterStep

LEMMA BsexpStep ==
  ASSUME RuntimeIInv, NEW ops \in Operands, NEW dest \in Assignable,
         Bsexp(ops, dest)
  PROVE  RuntimeIInv'
<1>1. ops \in Seq(Var) /\ Len(ops) \in Nat /\ Len(ops) <= MaxArgs
  BY OperandFacts
<1>2. PICK raw : raw = <<RawWord>>
  OBVIOUS
<1>3. raw \in Seq(Int) /\ Len(raw) = 1
  BY <1>2, ProgramAssumption
<1>4. PICK c : c = Constructor("Bsexp", "SEXP", raw, ops, Args(Len(ops)), dest)
  OBVIOUS
<1>5. c \in Calls /\ c.source = "words" /\ FromWords(c)
  BY <1>1, <1>3, <1>4, ArgsFacts, Names, Constructed
<1>6. Enter(c, Pushed(ops), <<>>) /\ pc = "mutator"
  BY <1>2, <1>4 DEF Bsexp, Enter
<1>7. PushedOK(Pushed(ops), <<>>) /\ RootsOK(<<>>)
  BY <1>1, <1>6, PushedFacts, ParameterRoots
<1> QED
  BY <1>5, <1>6, <1>7, EnterStep

LEMMA BclosureStep ==
  ASSUME RuntimeIInv, NEW ops \in Operands, NEW dest \in Assignable,
         Bclosure(ops, dest)
  PROVE  RuntimeIInv'
<1>1. /\ ops \in Seq(Var) /\ Len(ops) \in Nat /\ Len(ops) <= MaxArgs
      /\ ClosureRootOffset \in Nat \ {0}
      /\ StackTop + ClosureRootOffset + Len(ops) - 1 <= StackBottom
  BY OperandFacts, ProgramAssumption
<1>2. PICK raw : raw = <<RawWord>>
  OBVIOUS
<1>3. raw \in Seq(Int) /\ Len(raw) = 1
  BY <1>2, ProgramAssumption
<1>4. PICK c : c = Constructor("Bclosure", "CLOSURE", raw, ops, Args(Len(ops)), dest)
  OBVIOUS
<1>5. c \in Calls /\ c.source = "words" /\ FromWords(c)
  BY <1>1, <1>3, <1>4, ArgsFacts, Names, Constructed
<1>6. PICK d : d = [c EXCEPT !.late = 1]
  OBVIOUS
<1>7. /\ d \in Calls /\ d.kind = c.kind /\ d.len = c.len
      /\ d.source = c.source /\ d.raw = c.raw /\ d.args = c.args
  BY <1>5, <1>6 DEF Calls
<1>8. d.source = "words" /\ FromWords(d)
  BY <1>5, <1>7 DEF FromWords, RawWordsOK
<1>9. PICK roots :
        roots = [i \in 1 .. Len(ops) |-> StackTop + ClosureRootOffset + i - 1]
  OBVIOUS
<1>10. Enter(d, Pushed(ops), roots) /\ pc = "mutator"
  BY <1>2, <1>4, <1>6, <1>9 DEF Bclosure, Enter
<1>11. RootsOK(roots)
  <2>1. \A i \in 1 .. Len(ops) : /\ roots[i] \in StackTop - MaxArgs .. StackBottom
                                 /\ roots[i] # StackTop
    BY <1>1, <1>9, Layout
  <2>2. roots \in Seq(StackTop - MaxArgs .. StackBottom) /\ Len(roots) = Len(ops)
    BY <1>1, <1>9, <2>1
  <2>3. \A i, j \in 1 .. Len(ops) : roots[i] = roots[j] => i = j
    BY <1>1, <1>9, Layout
  <2> QED
    BY <2>1, <2>2, <2>3 DEF RootsOK
<1>12. PushedOK(Pushed(ops), roots)
  BY <1>1, <1>10, PushedFacts
<1> QED
  BY <1>7, <1>8, <1>10, <1>11, <1>12, EnterStep

(* Those that fill their object with words of their own.                   *)
LEMMA Alone ==
  ASSUME NEW fn \in Functions, NEW k \in {"ARRAY", "STRING"}, NEW raw \in Seq(Int),
         NEW dest \in Assignable,
         k = "ARRAY" => \A i \in 1 .. Len(raw) : raw[i] <= 0,
         NEW c, c = Constructor(fn, k, raw, <<>>, <<>>, dest)
  PROVE  c \in Calls /\ c.source = "words" /\ FromWords(c)
<1>1. PICK none : none = <<>>
  OBVIOUS
<1>2. none \in Seq(Var) /\ none \in Seq(Slot) /\ Len(none) = 0
  BY <1>1
<1>3. c = Constructor(fn, k, raw, none, none, dest)
  BY <1>1
<1>4. k \in Kind /\ k \notin {"SEXP", "CLOSURE"}
  BY DEF Kind
<1> QED
  BY <1>2, <1>3, <1>4, Constructed

LEMMA LmakeArrayStep ==
  ASSUME RuntimeIInv, NEW n \in Lengths, NEW dest \in Assignable,
         LmakeArray(n, dest)
  PROVE  RuntimeIInv'
<1>1. PICK raw : raw = [i \in 1 .. n |-> Nil]
  OBVIOUS
<1>2. raw \in Seq(Int) /\ \A i \in 1 .. Len(raw) : raw[i] <= 0
  BY <1>1, ProgramAssumption DEF Nil
<1>3. PICK c : c = Constructor("LmakeArray", "ARRAY", raw, <<>>, <<>>, dest)
  OBVIOUS
<1>4. c \in Calls /\ c.source = "words" /\ FromWords(c)
  BY <1>2, <1>3, Names, Alone
<1>5. Enter(c, <<>>, <<>>)
  BY <1>1, <1>3 DEF LmakeArray
<1> QED
  BY <1>4, <1>5, NothingPushed, ParameterRoots, EnterStep

LEMMA LmakeStringStep ==
  ASSUME RuntimeIInv, NEW n \in Lengths, NEW dest \in Assignable,
         LmakeString(n, dest)
  PROVE  RuntimeIInv'
<1>1. PICK raw : raw = [i \in 1 .. n |-> RawWord]
  OBVIOUS
<1>2. raw \in Seq(Int)
  BY <1>1, ProgramAssumption
<1>3. PICK c : c = Constructor("LmakeString", "STRING", raw, <<>>, <<>>, dest)
  OBVIOUS
<1>4. c \in Calls /\ c.source = "words" /\ FromWords(c)
  BY <1>2, <1>3, Names, Alone
<1>5. Enter(c, <<>>, <<>>)
  BY <1>1, <1>3 DEF LmakeString
<1> QED
  BY <1>4, <1>5, NothingPushed, ParameterRoots, EnterStep

(* A variable that points to an object, pushed as an argument.             *)
LEMMA Reading ==
  ASSUME RuntimeIInv, pc = "mutator", NEW x \in Var, Points(x)
  PROVE  /\ x \in Slot /\ words[x] \in Int /\ 0 < words[x]
         /\ ToData(words[x]) \in DOMAIN heap
         /\ At(x) \in Object /\ Len(At(x).body) \in Nat
<1>1. /\ x \in Slot /\ words[x] \in Int /\ hbegin \in Nat \ {0}
      /\ Sound(words[x], heap, hbegin, hcurrent) /\ MemoryOK
  BY Between, Layout DEF Ready
<1>2. 0 < words[x] /\ ToData(words[x]) \in DOMAIN heap
  BY <1>1, SoundWords DEF Points, ValidHeapPointer
<1>3. At(x) \in Object
  BY <1>1, <1>2 DEF At, MemoryOK
<1> QED
  BY <1>1, <1>2, <1>3 DEF Object

LEMMA PushedOne ==
  ASSUME RuntimeIInv, pc = "mutator", NEW x \in Var, NEW roots
  PROVE  /\ PushedOK(Pushed(<<x>>), roots)
         /\ Arg(1) \in DOMAIN Pushed(<<x>>) /\ Arg(1) \in Slot
         /\ Pushed(<<x>>)[Arg(1)] = words[x]
<1>1. PICK ops : ops = <<x>>
  OBVIOUS
<1>2. ops \in Seq(Var) /\ Len(ops) = 1 /\ ops[1] = x
  BY <1>1
<1>3. Len(ops) <= MaxArgs /\ 1 \in 1 .. Len(ops) /\ Arg(1) \in Slot
  BY <1>2, Layout DEF Arg, Slot
<1>4. /\ PushedOK(Pushed(ops), roots)
      /\ Arg(1) \in DOMAIN Pushed(ops) /\ Pushed(ops)[Arg(1)] = words[ops[1]]
  <2>1. ops \in Seq(Var)
    BY <1>2
  <2> QED
    BY <2>1, <1>3, PushedFacts
<1> QED
  BY <1>1, <1>2, <1>3, <1>4

LEMMA PushedTwo ==
  ASSUME RuntimeIInv, pc = "mutator", NEW x \in Var, NEW y \in Var, NEW roots
  PROVE  /\ PushedOK(Pushed(<<x, y>>), roots)
         /\ Arg(1) \in DOMAIN Pushed(<<x, y>>) /\ Arg(2) \in DOMAIN Pushed(<<x, y>>)
         /\ Pushed(<<x, y>>)[Arg(1)] = words[x]
         /\ Pushed(<<x, y>>)[Arg(2)] = words[y]
         /\ Arg(1) \in Slot /\ Arg(2) \in Slot
<1>1. PICK ops : ops = <<x, y>>
  OBVIOUS
<1>2. ops \in Seq(Var) /\ Len(ops) = 2 /\ ops[1] = x /\ ops[2] = y
  BY <1>1
<1>3. /\ Len(ops) <= MaxArgs /\ 1 \in 1 .. Len(ops) /\ 2 \in 1 .. Len(ops)
      /\ Arg(1) \in Slot /\ Arg(2) \in Slot
  BY <1>2, Layout DEF Arg, Slot
<1>4. /\ PushedOK(Pushed(ops), roots)
      /\ Arg(1) \in DOMAIN Pushed(ops) /\ Pushed(ops)[Arg(1)] = words[ops[1]]
      /\ Arg(2) \in DOMAIN Pushed(ops) /\ Pushed(ops)[Arg(2)] = words[ops[2]]
  <2>1. ops \in Seq(Var)
    BY <1>2
  <2> QED
    BY <2>1, <1>3, PushedFacts
<1> QED
  BY <1>1, <1>2, <1>3, <1>4

LEMMA LfreadStep ==
  ASSUME RuntimeIInv, NEW x \in Var, NEW n \in Lengths, NEW dest \in Assignable,
         Lfread(x, n, dest)
  PROVE  RuntimeIInv'
<1>1. PICK raw : raw = [i \in 1 .. n |-> RawWord]
  OBVIOUS
<1>2. raw \in Seq(Int)
  BY <1>1, ProgramAssumption
<1>3. PICK c : c = Constructor("Lfread", "STRING", raw, <<>>, <<>>, dest)
  OBVIOUS
<1>4. c \in Calls /\ c.source = "words" /\ FromWords(c)
  BY <1>2, <1>3, Names, Alone
<1>5. Enter(c, Pushed(<<x>>), <<>>) /\ pc = "mutator"
  BY <1>1, <1>3 DEF Lfread
<1>6. PushedOK(Pushed(<<x>>), <<>>)
  BY <1>5, PushedOne
<1> QED
  BY <1>4, <1>5, <1>6, ParameterRoots, EnterStep

(* Bstring of a buffer.                                                    *)
LEMMA BufferCall ==
  ASSUME NEW fn \in Functions, NEW dest \in Assignable,
         NEW c, c = Constructor(fn, "STRING", <<RawWord>>, <<>>, <<>>, dest)
  PROVE  c \in Calls /\ c.source = "words" /\ FromWords(c)
<1>1. PICK raw : raw = <<RawWord>>
  OBVIOUS
<1>2. raw \in Seq(Int)
  BY <1>1, ProgramAssumption
<1>3. c = Constructor(fn, "STRING", raw, <<>>, <<>>, dest)
  BY <1>1
<1> QED
  BY <1>2, <1>3, Alone

LEMMA BufferIsSound ==
  /\ StringBuf \in Int /\ Sound(StringBuf, heap, hbegin, hcurrent)
  /\ ~(0 < StringBuf)
BY DEF StringBuf, Sound

LEMMA BufferedStep ==
  ASSUME RuntimeIInv, NEW fn \in Functions, NEW x \in Var, NEW dest \in Assignable,
         Buffered(fn, x, dest)
  PROVE  RuntimeIInv'
<1>1. PICK c : c = Constructor(fn, "STRING", <<RawWord>>, <<>>, <<>>, dest)
  OBVIOUS
<1>2. c \in Calls /\ c.source = "words" /\ FromWords(c)
  BY <1>1, BufferCall
<1>3. PICK roots : roots = <<Arg(1), Inner(1)>>
  OBVIOUS
<1>4. Enter(c, Parameter(StringBuf, Pushed(<<x>>)), roots) /\ pc = "mutator"
  BY <1>1, <1>3 DEF Buffered, Enter
<1>5. PushedOK(Pushed(<<x>>), roots)
  BY <1>4, PushedOne
<1>6. PushedOK(Parameter(StringBuf, Pushed(<<x>>)), roots)
  BY <1>5, BufferIsSound, ParameterFacts
<1> QED
  BY <1>2, <1>3, <1>4, <1>6, ParameterRoots, EnterStep

(* A variable of the program is assigned a sound word.                     *)
LEMMA AssignStep ==
  ASSUME RuntimeIInv, pc = "mutator", pc' = pc, Counted,
         NEW dest \in Assignable, NEW w \in Int,
         Sound(w, heap, hbegin, hcurrent),
         words' = [words EXCEPT ![dest] = w],
         UNCHANGED <<heap, hbegin, hsize, hcurrent, stackTop, extraRoots>>
  PROVE  RuntimeIInv'
<1>1. /\ Setting /\ extraRoots = <<SysArgs>> /\ Ready
      /\ words[StackBottom] <= 0
      /\ \A s \in Slot : /\ words[s] \in Int
                         /\ Sound(words[s], heap, hbegin, hcurrent)
  BY Between
<1>2. Setting'
  BY <1>1 DEF Setting, Counted
<1>3. dest \in Slot /\ dest # StackBottom /\ StackBottom \in Slot
  BY Layout DEF Slot
<1>4. words \in [Slot -> Int] /\ words' \in [Slot -> Int]
  BY <1>1 DEF Ready, MemoryOK
<1>5. MemoryOK'
  BY <1>1, <1>4 DEF Ready, MemoryOK, hend
<1>6. dest \in Rooted'
  <2>1. RegionsRooted'
    BY <1>5, RootedAfter
  <2>2. stackTop' = StackTop
    BY <1>2 DEF Setting
  <2> QED
    BY <1>3, <2>1, <2>2, Layout DEF RegionsRooted
<1>7. Rooted' = Rooted
  BY DEF Rooted, RootSlots, StackSlots, GlobalSlots
<1>8. \A s \in Slot : /\ Sound(words'[s], heap, hbegin, hcurrent)
                      /\ 0 < words'[s] => s \in Rooted'
  BY <1>1, <1>3, <1>4, <1>6, <1>7 DEF Ready, Orderly
<1>9. words'[StackBottom] <= 0
  BY <1>1, <1>3, <1>4
<1>10. extraRoots' \in Seq(Slot)
  BY <1>1 DEF Ready, MemoryOK
<1>11. Ready'
  BY <1>1, <1>4, <1>8, <1>9, <1>10, WordsWritten
<1> QED
  BY <1>1, <1>2, <1>11, ProgramGoesOn

LEMMA ForeignStep ==
  ASSUME RuntimeIInv, NEW fn \in Functions, NEW pushed, NEW dest \in Assignable,
         PushedOK(pushed, <<Inner(1)>>), Foreign(fn, pushed, dest)
  PROVE  RuntimeIInv'
<1>1. CASE Enter(Constructor(fn, "STRING", <<RawWord>>, <<>>, <<>>, dest),
                 Parameter(StringBuf, pushed), <<Inner(1)>>)
  <2>1. PICK c : c = Constructor(fn, "STRING", <<RawWord>>, <<>>, <<>>, dest)
    OBVIOUS
  <2>2. c \in Calls /\ c.source = "words" /\ FromWords(c)
    BY <2>1, BufferCall
  <2>3. PushedOK(Parameter(StringBuf, pushed), <<Inner(1)>>)
    BY BufferIsSound, ParameterFacts
  <2>4. Enter(c, Parameter(StringBuf, pushed), <<Inner(1)>>)
    BY <1>1, <2>1
  <2> QED
    BY <2>2, <2>3, <2>4, ParameterRoots, EnterStep
<1>2. CASE /\ pc = "mutator" /\ Counted /\ words' = [words EXCEPT ![dest] = Nil]
           /\ UNCHANGED <<heap, hbegin, hsize, hcurrent, stackTop, extraRoots, pc>>
  <2>1. Nil \in Int /\ Sound(Nil, heap, hbegin, hcurrent)
    BY DEF Nil, Sound
  <2> QED
    BY <1>2, <2>1, AssignStep
<1> QED
  BY <1>1, <1>2 DEF Foreign

LEMMA LgetEnvStep ==
  ASSUME RuntimeIInv, NEW x \in Var, NEW dest \in Assignable, LgetEnv(x, dest)
  PROVE  RuntimeIInv'
<1>1. pc = "mutator" /\ Foreign("LgetEnv", Pushed(<<x>>), dest)
  BY DEF LgetEnv
<1>2. PushedOK(Pushed(<<x>>), <<Inner(1)>>)
  BY <1>1, PushedOne
<1> QED
  BY <1>1, <1>2, Names, ForeignStep

LEMMA LreadLineStep ==
  ASSUME RuntimeIInv, NEW dest \in Assignable, LreadLine(dest)
  PROVE  RuntimeIInv'
<1>1. Foreign("LreadLine", <<>>, dest)
  BY DEF LreadLine
<1>2. PushedOK(<<>>, <<Inner(1)>>)
  BY NothingPushed
<1> QED
  BY <1>1, <1>2, Names, ForeignStep

LEMMA OneArg ==
  /\ Args(1) \in Seq(Slot) /\ Len(Args(1)) = 1 /\ Args(1)[1] = Arg(1)
  /\ Arg(1) \in Slot /\ RootsOK(Args(1))
<1>1. PICK n : n = 1
  OBVIOUS
<1>2. n \in Nat /\ n <= MaxArgs /\ 1 \in 1 .. n
  BY <1>1, Layout
<1> QED
  BY <1>1, <1>2, ArgsFacts

LEMMA TwoArgs ==
  /\ Args(2) \in Seq(Slot) /\ Len(Args(2)) = 2
  /\ Args(2)[1] = Arg(1) /\ Args(2)[2] = Arg(2)
  /\ Arg(1) \in Slot /\ Arg(2) \in Slot /\ RootsOK(Args(2))
<1>1. PICK n : n = 2
  OBVIOUS
<1>2. n \in Nat /\ n <= MaxArgs /\ 1 \in 1 .. n /\ 2 \in 1 .. n
  BY <1>1, Layout
<1> QED
  BY <1>1, <1>2, ArgsFacts

(* A call that makes its object from the bodies of others.                 *)
LEMMA ReferringCall ==
  ASSUME NEW fn \in Functions, NEW k \in Kind, NEW len \in Nat,
         NEW source, source \in {"copy", "both", "part"}, NEW args \in Seq(Slot),
         NEW dest \in Assignable,
         NEW c, c = Call(fn, k, len, source, <<>>, args, dest)
  PROVE  /\ c \in Calls /\ c.source = source /\ c.source # "words"
         /\ c.args = args /\ c.kind = k /\ c.len = len
<1>1. PICK none : none = <<>>
  OBVIOUS
<1>2. none \in Seq(Int)
  BY <1>1
<1>3. c = [fn |-> fn, kind |-> k, len |-> len, source |-> source, raw |-> none,
           from |-> 0, args |-> args, dest |-> dest, roots |-> 0, late |-> 0]
  BY <1>1 DEF Call
<1> QED
  BY <1>2, <1>3 DEF Calls

LEMMA EnterWrites ==
  ASSUME NEW c, NEW pushed, NEW roots, Enter(c, pushed, roots)
  PROVE  /\ pc = "mutator"
         /\ \A s \in Slot : s \in DOMAIN pushed => words'[s] = pushed[s]
BY DEF Enter

LEMMA LsubstringStep ==
  ASSUME RuntimeIInv, NEW x \in Var, NEW dest \in Assignable, Lsubstring(x, dest)
  PROVE  RuntimeIInv'
<1>1. pc = "mutator" /\ Points(x) /\ At(x).kind = "STRING"
  BY DEF Lsubstring
<1>2. /\ x \in Slot /\ 0 < words[x] /\ Len(At(x).body) \in Nat
  BY <1>1, Reading
<1>3. ASSUME NEW p \in 0 .. Len(At(x).body) - 1,
             NEW l \in 1 .. Len(At(x).body) - p,
             Enter([Call("Lsubstring", "STRING", l, "part", <<>>, Args(1), dest)
                      EXCEPT !.from = p],
                   Pushed(<<x>>), Args(1))
      PROVE  RuntimeIInv'
  <2>1. p \in Nat /\ l \in Nat /\ p + l <= Len(At(x).body)
    BY <1>2
  <2>2. PICK args : args = Args(1)
    OBVIOUS
  <2>3. /\ args \in Seq(Slot) /\ Len(args) = 1 /\ args[1] = Arg(1)
        /\ Arg(1) \in Slot /\ RootsOK(args)
    BY <2>2, OneArg
  <2>4. PICK source : source = "part"
    OBVIOUS
  <2>5. source \in {"copy", "both", "part"} /\ source # "both" /\ source # "copy"
    BY <2>4
  <2>6. PICK d : d = Call("Lsubstring", "STRING", l, source, <<>>, args, dest)
    OBVIOUS
  <2>7. PICK c : c = [d EXCEPT !.from = p]
    OBVIOUS
  <2>8. /\ c \in Calls /\ c.source = source /\ c.source # "words"
         /\ c.args = args /\ c.kind = "STRING" /\ c.len = l /\ c.from = p
    <3>1. args \in Seq(Slot) /\ source \in {"copy", "both", "part"}
      BY <2>3, <2>5
    <3>2. l \in Nat /\ p \in Nat
      BY <2>1
    <3>3. /\ d \in Calls /\ d.source = source /\ d.source # "words"
          /\ d.args = args /\ d.kind = "STRING" /\ d.len = l
      BY <2>6, <3>1, <3>2, Names, ReferringCall
    <3> QED
      BY <2>7, <3>2, <3>3 DEF Calls
  <2>9. Enter(c, Pushed(<<x>>), args)
    BY <1>3, <2>2, <2>4, <2>6, <2>7
  <2>10. /\ PushedOK(Pushed(<<x>>), args)
        /\ Arg(1) \in DOMAIN Pushed(<<x>>) /\ Pushed(<<x>>)[Arg(1)] = words[x]
    BY <1>1, PushedOne
  <2>11. words'[Arg(1)] = words[x]
    BY <2>3, <2>9, <2>10, EnterWrites
  <2>12. Source(c, heap, words', 1) = At(x)
    BY <2>3, <2>8, <2>11 DEF Source, At
  <2>13. Supplied(c, heap, words')
    <3>1. \A i \in 1 .. Len(c.args) : c.args[i] = Arg(1)
      <4>1. c.args = args /\ Len(args) = 1 /\ args[1] = Arg(1)
        BY <2>3, <2>8
      <4>2. \A i \in 1 .. 1 : i = 1
        OBVIOUS
      <4> QED
        BY <4>1, <4>2, Zenon
    <3>2. \A i \in 1 .. Len(c.args) : 0 < words'[c.args[i]]
      BY <1>2, <2>11, <3>1
    <3>3. c.from + c.len <= Len(Source(c, heap, words', 1).body)
      BY <2>1, <2>12, <2>8
    <3> QED
      BY <2>3, <2>5, <2>8, <3>2, <3>3 DEF Supplied
  <2> QED
    BY <2>3, <2>9, <2>10, <2>13, <2>8, EnterStep
<1>4. ASSUME Counted, pc' = "failed", UNCHANGED memory
      PROVE  RuntimeIInv'
  <2>1. Setting'
    BY <1>1, <1>4, Between DEF Setting, Counted, memory
  <2> QED
    BY <1>4, <2>1, ProgramStops
<1> QED
  BY <1>3, <1>4 DEF Lsubstring

LEMMA LcloneStep ==
  ASSUME RuntimeIInv, NEW x \in Var, NEW dest \in Assignable, Lclone(x, dest)
  PROVE  RuntimeIInv'
<1>1. pc = "mutator" /\ Points(x)
  BY DEF Lclone
<1>2. /\ x \in Slot /\ words[x] \in Int /\ 0 < words[x] /\ Len(At(x).body) \in Nat
      /\ At(x).kind \in Kind /\ Sound(words[x], heap, hbegin, hcurrent)
  BY <1>1, Reading, Between DEF Object
<1>3. PICK source : source = "copy"
  OBVIOUS
<1>4. source \in {"copy", "both", "part"} /\ source # "both" /\ source # "part"
  BY <1>3
<1>5. ASSUME NEW s \in Slot, NEW args \in Seq(Slot), Len(args) = 1, args[1] = s,
             NEW pushed, NEW roots, PushedOK(pushed, roots), RootsOK(roots),
             s \in DOMAIN pushed, pushed[s] = words[x],
             Enter(Call("Lclone", At(x).kind, Len(At(x).body), source, <<>>, args, dest),
                   pushed, roots)
      PROVE  RuntimeIInv'
  <2>1. PICK c : c = Call("Lclone", At(x).kind, Len(At(x).body), source, <<>>, args, dest)
    OBVIOUS
  <2>2. PICK k, len : k = At(x).kind /\ len = Len(At(x).body)
    OBVIOUS
  <2>3. k \in Kind /\ len \in Nat
    BY <1>2, <2>2
  <2>4. /\ c \in Calls /\ c.source = source /\ c.source # "words"
        /\ c.args = args /\ c.kind = At(x).kind /\ c.len = Len(At(x).body)
    <3>1. c = Call("Lclone", k, len, source, <<>>, args, dest)
      BY <2>1, <2>2
    <3>2. /\ c \in Calls /\ c.source = source /\ c.source # "words"
          /\ c.args = args /\ c.kind = k /\ c.len = len
      BY <1>4, <2>3, <3>1, Names, ReferringCall
    <3> QED
      BY <2>2, <3>2
  <2>5. Enter(c, pushed, roots)
    BY <1>5, <2>1
  <2>6. words'[s] = words[x]
    BY <1>5, <2>5, EnterWrites
  <2>7. Source(c, heap, words', 1) = At(x)
    BY <1>5, <2>4, <2>6 DEF Source, At
  <2>8. Supplied(c, heap, words')
    <3>1. \A i \in 1 .. Len(c.args) : c.args[i] = s
      <4>1. c.args = args /\ Len(args) = 1 /\ args[1] = s
        BY <1>5, <2>4
      <4>2. \A i \in 1 .. 1 : i = 1
        OBVIOUS
      <4> QED
        BY <4>1, <4>2, Zenon
    <3>2. \A i \in 1 .. Len(c.args) : 0 < words'[c.args[i]]
      BY <1>2, <2>6, <3>1
    <3> QED
      BY <1>4, <1>5, <2>4, <2>7, <3>2 DEF Supplied
  <2> QED
    BY <1>5, <2>4, <2>5, <2>8, EnterStep
<1>6. CASE At(x).kind = "STRING"
  <2>1. PICK args : args = <<Inner(1)>>
    OBVIOUS
  <2>2. Inner(1) \in Slot
    BY Layout DEF Inner, Slot
  <2>3. args \in Seq(Slot) /\ Len(args) = 1 /\ args[1] = Inner(1)
    BY <2>1, <2>2
  <2>4. PICK roots : roots = <<Arg(1), Inner(1)>>
    OBVIOUS
  <2>5. RootsOK(roots) /\ \E i \in 1 .. Len(roots) : roots[i] = Inner(1)
    BY <2>4, ParameterRoots
  <2>6. PushedOK(Pushed(<<x>>), roots)
    BY <1>1, PushedOne
  <2>7. PICK pushed : pushed = Parameter(words[x], Pushed(<<x>>))
    OBVIOUS
  <2>8. /\ PushedOK(pushed, roots)
        /\ Inner(1) \in DOMAIN pushed /\ pushed[Inner(1)] = words[x]
    BY <1>2, <2>5, <2>6, <2>7, ParameterFacts
  <2>9. Enter(Call("Lclone", At(x).kind, Len(At(x).body), source, <<>>, args, dest),
              pushed, roots)
    BY <1>3, <1>6, <2>1, <2>4, <2>7 DEF Lclone
  <2> QED
    BY <1>5, <2>2, <2>3, <2>5, <2>8, <2>9
<1>7. CASE At(x).kind # "STRING"
  <2>1. PICK args : args = Args(1)
    OBVIOUS
  <2>2. /\ args \in Seq(Slot) /\ Len(args) = 1 /\ args[1] = Arg(1)
        /\ Arg(1) \in Slot /\ RootsOK(args)
    BY <2>1, OneArg
  <2>3. PICK pushed : pushed = Pushed(<<x>>)
    OBVIOUS
  <2>4. /\ PushedOK(pushed, args)
        /\ Arg(1) \in DOMAIN pushed /\ pushed[Arg(1)] = words[x]
    BY <1>1, <2>3, PushedOne
  <2>5. Enter(Call("Lclone", At(x).kind, Len(At(x).body), source, <<>>, args, dest),
              pushed, args)
    BY <1>3, <1>7, <2>1, <2>3 DEF Lclone
  <2> QED
    BY <1>5, <2>2, <2>4, <2>5
<1> QED
  BY <1>6, <1>7

LEMMA ConcatenateStep ==
  ASSUME RuntimeIInv, NEW x \in Var, NEW y \in Var, NEW dest \in Assignable,
         Li__Infix_4343(x, y, dest)
  PROVE  RuntimeIInv'
<1>1. pc = "mutator" /\ Points(x) /\ Points(y)
  BY DEF Li__Infix_4343
<1>2. /\ 0 < words[x] /\ Len(At(x).body) \in Nat
      /\ 0 < words[y] /\ Len(At(y).body) \in Nat
  BY <1>1, Reading
<1>3. PICK args : args = Args(2)
  OBVIOUS
<1>4. /\ args \in Seq(Slot) /\ Len(args) = 2 /\ args[1] = Arg(1) /\ args[2] = Arg(2)
      /\ Arg(1) \in Slot /\ Arg(2) \in Slot /\ RootsOK(args)
  BY <1>3, TwoArgs
<1>5. PICK pushed : pushed = Pushed(<<x, y>>)
  OBVIOUS
<1>6. /\ PushedOK(pushed, args)
      /\ Arg(1) \in DOMAIN pushed /\ pushed[Arg(1)] = words[x]
      /\ Arg(2) \in DOMAIN pushed /\ pushed[Arg(2)] = words[y]
  BY <1>1, <1>5, PushedTwo
<1>7. PICK source : source = "both"
  OBVIOUS
<1>8. source \in {"copy", "both", "part"} /\ source # "copy" /\ source # "part"
  BY <1>7
<1>9. PICK m, n, len : /\ m = Len(At(x).body) /\ n = Len(At(y).body)
                       /\ len = m + n
  OBVIOUS
<1>10. PICK c : c = Call("Li__Infix_4343", "STRING", len, source, <<>>, args, dest)
  OBVIOUS
<1>11. len \in Nat
  <2>1. m \in Nat /\ n \in Nat
    BY <1>2, <1>9
  <2>2. len = m + n
    BY <1>9
  <2> QED
    BY <2>1, <2>2
<1>12. args \in Seq(Slot) /\ source \in {"copy", "both", "part"}
  BY <1>4, <1>8
<1>13. /\ c \in Calls /\ c.source = source /\ c.source # "words"
       /\ c.args = args /\ c.kind = "STRING" /\ c.len = len
  BY <1>10, <1>11, <1>12, Names, ReferringCall
<1>14. Enter(c, pushed, args)
  BY <1>3, <1>5, <1>7, <1>9, <1>10 DEF Li__Infix_4343
<1>15. words'[Arg(1)] = words[x] /\ words'[Arg(2)] = words[y]
  BY <1>4, <1>6, <1>14, EnterWrites
<1>16. Source(c, heap, words', 1) = At(x) /\ Source(c, heap, words', 2) = At(y)
  BY <1>4, <1>13, <1>15 DEF Source, At
<1>17. Supplied(c, heap, words')
  <2>1. \A i \in 1 .. Len(c.args) : c.args[i] \in {Arg(1), Arg(2)}
    <3>1. c.args = args /\ Len(args) = 2 /\ args[1] = Arg(1) /\ args[2] = Arg(2)
      BY <1>4, <1>13
    <3>2. \A i \in 1 .. 2 : i = 1 \/ i = 2
      OBVIOUS
    <3> QED
      BY <3>1, <3>2, Zenon
  <2>2. \A i \in 1 .. Len(c.args) : 0 < words'[c.args[i]]
    BY <1>2, <1>15, <2>1
  <2>3. c.len = Len(Source(c, heap, words', 1).body)
                  + Len(Source(c, heap, words', 2).body)
    BY <1>9, <1>13, <1>16
  <2>4. c.source = "both" /\ c.source # "copy" /\ c.source # "part"
    BY <1>7, <1>8, <1>13
  <2> QED
    BY <1>4, <1>13, <2>2, <2>3, <2>4 DEF Supplied
<1> QED
  BY <1>4, <1>6, <1>13, <1>14, <1>17, EnterStep

LEMMA MoveStep ==
  ASSUME RuntimeIInv, NEW x \in Var, NEW dest \in Assignable, Move(x, dest)
  PROVE  RuntimeIInv'
<1>1. /\ pc = "mutator" /\ Counted /\ words' = [words EXCEPT ![dest] = words[x]]
      /\ UNCHANGED <<heap, hbegin, hsize, hcurrent, stackTop, extraRoots, pc>>
  BY DEF Move, Quiet
<1>2. words[x] \in Int /\ Sound(words[x], heap, hbegin, hcurrent)
  BY <1>1, Between, Layout
<1> QED
  BY <1>1, <1>2, AssignStep

LEMMA BelemStep ==
  ASSUME RuntimeIInv, NEW x \in Var, NEW dest \in Assignable, Belem(x, dest)
  PROVE  RuntimeIInv'
<1>1. /\ pc = "mutator" /\ Counted /\ Points(x)
      /\ UNCHANGED <<heap, hbegin, hsize, hcurrent, stackTop, extraRoots, pc>>
  BY DEF Belem, Quiet
<1>2. PICK w \in IF At(x).kind = "STRING" THEN {Nil}
                 ELSE {At(x).body[i] : i \in Fields(At(x))} :
        words' = [words EXCEPT ![dest] = w]
  BY DEF Belem
<1>3. w \in Int /\ Sound(w, heap, hbegin, hcurrent)
  <2>1. CASE At(x).kind = "STRING"
    BY <1>2, <2>1 DEF Nil, Sound
  <2>2. CASE At(x).kind # "STRING"
    <3>1. PICK i \in Fields(At(x)) : w = At(x).body[i]
      BY <1>2, <2>2
    <3>2. ToData(words[x]) \in DOMAIN heap /\ At(x) \in Object
      BY <1>1, Reading
    <3>3. /\ At(x).body \in Seq(Int) /\ i \in 1 .. Len(At(x).body)
          /\ i \in FirstField(At(x)) .. Len(At(x).body)
      BY <3>2 DEF Object, Fields, FirstField
    <3>4. Orderly(heap, words, hbegin, hcurrent)
      BY <1>1, Between DEF Ready
    <3>5. Sound(At(x).body[i], heap, hbegin, hcurrent)
      BY <3>2, <3>3, <3>4 DEF Orderly, At
    <3> QED
      BY <3>1, <3>3, <3>5
  <2> QED
    BY <2>1, <2>2
<1> QED
  BY <1>1, <1>2, <1>3, AssignStep
-----------------------------------------------------------------------------
(* A heap the program and the collector can use.                           *)
HeapOK(h, lo, hi) ==
  /\ DOMAIN h \subseteq Nat /\ \A a \in DOMAIN h : h[a] \in Object
  /\ Contiguous(h, lo, hi)
  /\ \A a \in DOMAIN h : ~h[a].mark /\ ~h[a].enq
  /\ \A a \in DOMAIN h : \A i \in FirstField(h[a]) .. Len(h[a].body) :
       Sound(h[a].body[i], h, lo, hi)

LEMMA ReadyHeap ==
  ASSUME Ready
  PROVE  /\ HeapOK(heap, hbegin, hcurrent)
         /\ hbegin \in Nat \ {0} /\ hsize \in Nat /\ hcurrent \in Nat
         /\ hbegin <= hcurrent /\ hcurrent <= hend /\ hend \in Nat
<1>1. HeapOK(heap, hbegin, hcurrent)
  BY DEF Ready, HeapOK, MemoryOK, Unmarked, Orderly
<1> QED
  BY <1>1 DEF Ready, MemoryOK, Orderly, hend

(* The memory as a whole, when the heap is one the program can use.        *)
LEMMA MemoryBack ==
  ASSUME HeapOK(heap', hbegin, hcurrent'), UNCHANGED <<hbegin, hsize, stackTop>>,
         hbegin \in Nat \ {0}, hsize \in Nat, hcurrent' \in hbegin .. hend,
         stackTop = StackTop, extraRoots' \in Seq(Slot), words' \in [Slot -> Int],
         \A s \in Slot :
           /\ Sound(words'[s], heap', hbegin, hcurrent')
           /\ 0 < words'[s] => \/ StackTop < s /\ s < StackBottom
                               \/ \E j \in 1 .. Len(extraRoots') : s = extraRoots'[j]
                               \/ GlobalStart <= s /\ s < GlobalStop,
         words'[StackBottom] <= 0
  PROVE  Ready'
<1>1. MemoryOK'
  BY Layout DEF HeapOK, MemoryOK, hend
<1>2. RegionsRooted'
  BY <1>1, RootedAfter
<1>3. \A s \in Slot : 0 < words'[s] => s \in Rooted'
  BY <1>2 DEF RegionsRooted
<1>4. Orderly(heap, words, hbegin, hcurrent)'
  BY <1>3 DEF Orderly, HeapOK
<1>5. Contiguous(heap, hbegin, hcurrent)' /\ Unmarked'
  BY DEF HeapOK, Unmarked
<1> QED
  BY <1>1, <1>4, <1>5 DEF Ready

(* A sound word is written to a field.                                     *)
Stored(h, a, i, w) == [h EXCEPT ![a].body[i] = w]

LEMMA FieldWritten ==
  ASSUME NEW h, NEW lo, NEW hi, HeapOK(h, lo, hi), NEW a \in DOMAIN h,
         NEW i \in FirstField(h[a]) .. Len(h[a].body), NEW w \in Int,
         Sound(w, h, lo, hi),
         NEW g, g = Stored(h, a, i, w)
  PROVE  /\ HeapOK(g, lo, hi) /\ DOMAIN g = DOMAIN h
         /\ \A b \in DOMAIN h : g[b].kind = h[b].kind /\ Len(g[b].body) = Len(h[b].body)
<1>1. DOMAIN g = DOMAIN h /\ \A b \in DOMAIN h : b # a => g[b] = h[b]
  BY DEF HeapOK, Stored
<1>2. PICK o : o = h[a]
  OBVIOUS
<1>3. o \in Object /\ o.body \in Seq(Int) /\ Len(o.body) \in Nat
  BY <1>2 DEF HeapOK, Object
<1>4. PICK body : body = [o.body EXCEPT ![i] = w]
  OBVIOUS
<1>5. i \in 1 .. Len(o.body)
  BY <1>2, <1>3 DEF FirstField
<1>6. /\ body \in Seq(Int) /\ Len(body) = Len(o.body)
      /\ body[i] = w /\ \A j \in 1 .. Len(o.body) : j # i => body[j] = o.body[j]
  BY <1>3, <1>4, <1>5
<1>7. g[a] = [o EXCEPT !.body = body]
  BY <1>2, <1>4 DEF Stored
<1>8. /\ g[a] \in Object /\ g[a].kind = o.kind /\ g[a].body = body
      /\ g[a].mark = o.mark /\ g[a].enq = o.enq
  BY <1>3, <1>6, <1>7 DEF Object
<1>9. ASSUME NEW b \in DOMAIN h
      PROVE  /\ g[b] \in Object /\ g[b].kind = h[b].kind
             /\ Len(g[b].body) = Len(h[b].body)
             /\ g[b].mark = h[b].mark /\ g[b].enq = h[b].enq
  BY <1>1, <1>2, <1>6, <1>8 DEF HeapOK
<1>10. \A b \in DOMAIN h : NextObj(g, b) = NextObj(h, b)
  BY <1>9 DEF NextObj, ObjSize
<1>11. Contiguous(g, lo, hi)
  BY <1>1, <1>10 DEF HeapOK, Contiguous
<1>12. \A v : Sound(v, h, lo, hi) => Sound(v, g, lo, hi)
  BY <1>1 DEF Sound
<1>13. ASSUME NEW b \in DOMAIN h, NEW j \in FirstField(g[b]) .. Len(g[b].body)
       PROVE  Sound(g[b].body[j], g, lo, hi)
  <2>1. j \in FirstField(h[b]) .. Len(h[b].body)
    BY <1>9, <1>6, <1>8, <1>2 DEF FirstField
  <2>2. CASE b # a
    BY <1>1, <1>12, <2>1, <2>2 DEF HeapOK
  <2>3. CASE b = a
    <3>1. j \in 1 .. Len(o.body)
      BY <1>2, <1>3, <2>1, <2>3 DEF FirstField
    <3>2. Sound(o.body[j], h, lo, hi)
      BY <1>2, <2>1, <2>3 DEF HeapOK
    <3> QED
      BY <1>6, <1>8, <1>12, <2>3, <3>1, <3>2
  <2> QED
    BY <2>2, <2>3
<1> QED
  BY <1>1, <1>9, <1>11, <1>13 DEF HeapOK

LEMMA BstaStep ==
  ASSUME RuntimeIInv, NEW x \in Var, NEW y \in Var, Bsta(x, y)
  PROVE  RuntimeIInv'
<1>1. /\ pc = "mutator" /\ pc' = pc /\ Counted /\ Points(x)
      /\ UNCHANGED <<words, hbegin, hsize, hcurrent, stackTop, extraRoots>>
  BY DEF Bsta, Quiet
<1>2. PICK i \in Fields(At(x)) :
        heap' = [heap EXCEPT ![ToData(words[x])].body[i] = words[y]]
  BY DEF Bsta
<1>3. /\ Setting /\ extraRoots = <<SysArgs>> /\ Ready
      /\ words[y] \in Int /\ Sound(words[y], heap, hbegin, hcurrent)
  BY <1>1, Between, Layout
<1>4. PICK a : a = ToData(words[x])
  OBVIOUS
<1>5. a \in DOMAIN heap /\ i \in FirstField(heap[a]) .. Len(heap[a].body)
  BY <1>1, <1>4, Reading DEF At, Fields
<1>6. HeapOK(heap', hbegin, hcurrent) /\ DOMAIN heap' = DOMAIN heap
  <2>1. heap' = Stored(heap, a, i, words[y])
    BY <1>2, <1>4 DEF Stored
  <2> QED
    BY <1>3, <1>5, <2>1, ReadyHeap, FieldWritten
<1>7. MemoryOK'
  BY <1>1, <1>3, <1>6 DEF Ready, MemoryOK, hend, HeapOK
<1>8. Rooted' = Rooted
  BY <1>1 DEF Rooted, RootSlots, StackSlots, GlobalSlots
<1>9. \A w : Sound(w, heap, hbegin, hcurrent)' = Sound(w, heap, hbegin, hcurrent)
  BY <1>1, <1>6 DEF Sound
<1>10. Orderly(heap, words, hbegin, hcurrent)'
  BY <1>1, <1>3, <1>6, <1>8, <1>9 DEF Ready, Orderly, HeapOK
<1>11. Ready'
  BY <1>1, <1>6, <1>7, <1>10 DEF Ready, HeapOK, Unmarked
<1>12. Setting'
  BY <1>1, <1>3 DEF Setting, Counted
<1> QED
  BY <1>1, <1>3, <1>11, <1>12, ProgramGoesOn
-----------------------------------------------------------------------------
(* The heap always has a name to give to a new object.                     *)
LEMMA LeastUnused ==
  ASSUME NEW D, IsFiniteSet(D), NEW f \in [D -> Nat],
         NEW taken, taken = {f[a] : a \in D}
  PROVE  \E n \in 0 .. Cardinality(D) :
           n \notin taken /\ \A m \in 0 .. n - 1 : m \in taken
<1>1. f \in Surjection(D, taken)
  BY DEF Surjection
<1>2. /\ IsFiniteSet(taken) /\ Cardinality(taken) <= Cardinality(D)
      /\ Cardinality(D) \in Nat /\ Cardinality(taken) \in Nat
  BY <1>1, FS_Surjection, FS_CardinalityType
<1>3. PICK c : c = Cardinality(D)
  OBVIOUS
<1>4. c \in Nat /\ IsFiniteSet(0 .. c) /\ Cardinality(0 .. c) = c + 1
  BY <1>2, <1>3, FS_Interval
<1>5. ~ (0 .. c \subseteq taken)
  <2>1. SUFFICES ASSUME 0 .. c \subseteq taken PROVE FALSE
    OBVIOUS
  <2>2. Cardinality(0 .. c) <= Cardinality(taken)
    BY <1>2, <2>1, FS_Subset
  <2> QED
    BY <1>2, <1>3, <1>4, <2>2
<1>6. PICK T : T = {n \in Nat : n \notin taken}
  OBVIOUS
<1>7. T \subseteq Nat /\ T # {}
  <2>1. PICK m : m \in 0 .. c /\ m \notin taken
    BY <1>5
  <2>2. m \in Nat
    BY <1>4, <2>1
  <2> QED
    BY <1>6, <2>1, <2>2
<1>8. PICK n \in T : \A m \in T : ~ (<<m, n>> \in OpToRel(<, Nat))
  BY <1>7, NatLessThanWellFounded, WFMin
<1>9. \A m \in T : ~ (m < n)
  BY <1>7, <1>8 DEF OpToRel
<1>10. \A m \in 0 .. n - 1 : m \in taken
  BY <1>6, <1>9
<1>11. n <= c
  BY <1>4, <1>5, <1>6, <1>10
<1> QED
  BY <1>3, <1>4, <1>6, <1>10, <1>11

LEMMA FreeNameType ==
  ASSUME HeapOK(heap, hbegin, hcurrent)
  PROVE  /\ FreeName \in Nat /\ FreeName \notin Ids(heap)
         /\ \A m \in Nat : m < FreeName => m \in Ids(heap)
<1>1. PICK f : f = [a \in DOMAIN heap |-> heap[a].id]
  OBVIOUS
<1>2. f \in [DOMAIN heap -> Nat] /\ IsFiniteSet(DOMAIN heap)
  BY <1>1 DEF HeapOK, Object, Contiguous
<1>3. PICK taken : taken = {heap[a].id : a \in DOMAIN heap}
  OBVIOUS
<1>4. taken = {f[a] : a \in DOMAIN heap}
  BY <1>1, <1>3
<1>5. \E n \in 0 .. Cardinality(DOMAIN heap) :
        n \notin taken /\ \A m \in 0 .. n - 1 : m \in taken
  BY <1>2, <1>4, LeastUnused
<1>6. /\ FreeName \in 0 .. Cardinality(DOMAIN heap) /\ FreeName \notin Ids(heap)
      /\ \A m \in 0 .. FreeName - 1 : m \in Ids(heap)
  BY <1>3, <1>5 DEF FreeName, Ids
<1>7. Cardinality(DOMAIN heap) \in Nat
  BY <1>2, FS_CardinalityType
<1> QED
  BY <1>6, <1>7
-----------------------------------------------------------------------------
(* The function fills its new object.                                      *)
LEMMA FilledFacts ==
  ASSUME Ready, call \in Calls \cup ArgCalls, Supplied(call, heap, words)
  PROVE  /\ Filled \in Seq(Int) /\ Len(Filled) = call.len
         /\ call.kind = "ARRAY" =>
              \A i \in 1 .. Len(Filled) : Sound(Filled[i], heap, hbegin, hcurrent)
         /\ call.kind \in {"SEXP", "CLOSURE"} =>
              \A i \in 2 .. Len(Filled) : Sound(Filled[i], heap, hbegin, hcurrent)
<1>1. /\ call.raw \in Seq(Int) /\ call.args \in Seq(Slot) /\ call.len \in Nat
      /\ call.source \in {"words", "copy", "both", "part"}
      /\ call.kind \in Kind
  BY DEF Calls, ArgCalls
<1>2. /\ HeapOK(heap, hbegin, hcurrent) /\ hbegin \in Nat \ {0}
      /\ \A s \in Slot : /\ words[s] \in Int
                         /\ Sound(words[s], heap, hbegin, hcurrent)
  BY ReadyHeap DEF Ready, MemoryOK, Orderly
<1>3. CASE call.source = "words"
  <2>1. PICK p : p = call.raw
    OBVIOUS
  <2>2. PICK q : q = [i \in 1 .. Len(call.args) |-> words[call.args[i]]]
    OBVIOUS
  <2>3. \A i \in 1 .. Len(call.args) : call.args[i] \in Slot
    BY <1>1
  <2>4. /\ p \in Seq(Int) /\ q \in Seq(Int) /\ Len(q) = Len(call.args)
        /\ \A i \in 1 .. Len(q) : /\ q[i] \in Int
                                  /\ Sound(q[i], heap, hbegin, hcurrent)
    BY <1>1, <1>2, <2>1, <2>2, <2>3
  <2>5. PICK body : body = p \o q
    OBVIOUS
  <2>6. Filled = body
    BY <1>3, <2>1, <2>2, <2>5 DEF Filled
  <2>7. /\ body \in Seq(Int) /\ Len(body) = Len(p) + Len(q)
        /\ \A i \in 1 .. Len(p) : body[i] = p[i]
        /\ \A i \in 1 .. Len(q) : body[Len(p) + i] = q[i]
    BY <2>4, <2>5, Concatenation
  <2>8. /\ call.kind = "ARRAY" => \A i \in 1 .. Len(p) : p[i] <= 0
        /\ call.kind \in {"SEXP", "CLOSURE"} => Len(p) = 1
        /\ Len(body) = call.len
    BY <1>3, <2>1, <2>4, <2>7 DEF Supplied, FromWords, RawWordsOK
  <2>9. ASSUME NEW i \in 1 .. Len(body), ~ (i <= Len(p))
        PROVE  Sound(body[i], heap, hbegin, hcurrent)
    <3>1. Len(p) \in Nat /\ Len(q) \in Nat
      BY <2>4
    <3>2. i - Len(p) \in 1 .. Len(q) /\ i = Len(p) + (i - Len(p))
      BY <2>7, <2>9, <3>1
    <3> QED
      BY <2>4, <2>7, <3>2
  <2>10. ASSUME call.kind = "ARRAY", NEW i \in 1 .. Len(body)
         PROVE  Sound(body[i], heap, hbegin, hcurrent)
    <3>1. ASSUME i <= Len(p) PROVE Sound(body[i], heap, hbegin, hcurrent)
      <4>1. i \in 1 .. Len(p)
        BY <2>4, <3>1
      <4> QED
        BY <2>7, <2>8, <2>10, <4>1 DEF Sound
    <3> QED
      BY <2>9, <3>1
  <2>11. ASSUME call.kind \in {"SEXP", "CLOSURE"}, NEW i \in 2 .. Len(body)
         PROVE  Sound(body[i], heap, hbegin, hcurrent)
    <3>1. Len(p) = 1 /\ Len(body) \in Nat
      BY <2>7, <2>8, <2>11
    <3>2. i \in 1 .. Len(body) /\ ~ (i <= Len(p))
      BY <3>1
    <3> QED
      BY <2>9, <3>2
  <2> QED
    BY <2>6, <2>7, <2>8, <2>10, <2>11
<1>4. ASSUME call.source # "words", NEW i \in 1 .. Len(call.args),
             NEW o, o = Source(call, heap, words, i)
      PROVE  /\ BodyOf(call.args[i]) = o.body
             /\ o.body \in Seq(Int) /\ Len(o.body) \in Nat /\ o.kind \in Kind
             /\ \A j \in FirstField(o) .. Len(o.body) :
                  Sound(o.body[j], heap, hbegin, hcurrent)
  <2>1. call.args[i] \in Slot /\ 0 < words[call.args[i]]
    BY <1>1, <1>4 DEF Supplied
  <2>2. ToData(words[call.args[i]]) \in DOMAIN heap
    BY <1>2, <2>1, SoundWords
  <2>3. o = heap[ToData(words[call.args[i]])]
    BY <1>4 DEF Source
  <2>4. o \in Object
    BY <1>2, <2>2, <2>3 DEF HeapOK
  <2> QED
    BY <1>2, <2>2, <2>3, <2>4 DEF HeapOK, Object, BodyOf
<1>5. CASE call.source = "copy"
  <2>1. 1 \in 1 .. Len(call.args) /\ call.source # "words"
    <3>1. Len(call.args) = 1
      BY <1>5 DEF Supplied
    <3> QED
      BY <1>5, <3>1
  <2>2. PICK o : o = Source(call, heap, words, 1)
    OBVIOUS
  <2>3. /\ BodyOf(call.args[1]) = o.body
        /\ o.body \in Seq(Int) /\ Len(o.body) \in Nat
        /\ \A j \in FirstField(o) .. Len(o.body) :
             Sound(o.body[j], heap, hbegin, hcurrent)
    BY <1>4, <2>1, <2>2
  <2>4. o.kind = call.kind /\ Len(o.body) = call.len
    BY <1>5, <2>2 DEF Supplied
  <2>5. Filled = o.body
    BY <1>5, <2>3 DEF Filled
  <2>6. /\ call.kind = "ARRAY" => FirstField(o) = 1
        /\ call.kind \in {"SEXP", "CLOSURE"} => FirstField(o) = 2
    BY <2>4 DEF FirstField
  <2> QED
    BY <2>3, <2>4, <2>5, <2>6
<1>6. CASE call.source = "both"
  <2>1. /\ 1 \in 1 .. Len(call.args) /\ 2 \in 1 .. Len(call.args)
        /\ call.source # "words" /\ call.kind = "STRING"
    <3>1. Len(call.args) = 2 /\ call.kind = "STRING"
      BY <1>6 DEF Supplied
    <3> QED
      BY <1>6, <3>1
  <2>2. PICK p, q : p = BodyOf(call.args[1]) /\ q = BodyOf(call.args[2])
    OBVIOUS
  <2>3. PICK o, r : /\ o = Source(call, heap, words, 1)
                    /\ r = Source(call, heap, words, 2)
    OBVIOUS
  <2>4. p = o.body /\ q = r.body /\ p \in Seq(Int) /\ q \in Seq(Int)
    BY <1>4, <2>1, <2>2, <2>3
  <2>5. call.len = Len(p) + Len(q)
    BY <1>6, <2>3, <2>4 DEF Supplied
  <2>6. p \o q \in Seq(Int) /\ Len(p \o q) = Len(p) + Len(q)
    BY <2>4, Concatenation
  <2>7. Filled = p \o q
    BY <1>6, <2>2 DEF Filled
  <2> QED
    BY <2>1, <2>5, <2>6, <2>7
<1>7. CASE call.source = "part"
  <2>1. /\ 1 \in 1 .. Len(call.args)
        /\ call.source # "words" /\ call.kind = "STRING"
    <3>1. Len(call.args) = 1 /\ call.kind = "STRING"
      BY <1>7 DEF Supplied
    <3> QED
      BY <1>7, <3>1
  <2>2. PICK p, o : p = BodyOf(call.args[1]) /\ o = Source(call, heap, words, 1)
    OBVIOUS
  <2>3. p = o.body /\ p \in Seq(Int)
    BY <1>4, <2>1, <2>2
  <2>4. call.from + call.len <= Len(p)
    BY <1>7, <2>2, <2>3 DEF Supplied
  <2>5. call.from \in Nat
    BY <1>7 DEF Calls, ArgCalls
  <2>6. PICK m, n : m = call.from + 1 /\ n = call.from + call.len
    OBVIOUS
  <2>7. /\ m \in 1 .. Len(p) + 1 /\ n \in m - 1 .. Len(p)
        /\ n - m + 1 = call.len
    <3>1. PICK from, len, size : from = call.from /\ len = call.len /\ size = Len(p)
      OBVIOUS
    <3>2. from \in Nat /\ len \in Nat /\ size \in Nat /\ from + len <= size
      BY <1>1, <2>3, <2>4, <2>5, <3>1
    <3>3. m = from + 1 /\ n = from + len
      BY <2>6, <3>1
    <3>4. /\ m \in 1 .. size + 1 /\ n \in m - 1 .. size
          /\ n - m + 1 = len
      BY <3>2, <3>3
    <3> QED
      BY <3>1, <3>4
  <2>8. SubSeq(p, m, n) \in Seq(Int) /\ Len(SubSeq(p, m, n)) = n - m + 1
    BY <2>3, <2>7
  <2>9. Filled = SubSeq(p, m, n)
    BY <1>7, <2>2, <2>6 DEF Filled
  <2> QED
    BY <2>1, <2>7, <2>8, <2>9
<1> QED
  BY <1>1, <1>3, <1>5, <1>6, <1>7

(* alloc and the function's stores add a whole object at heap.current.     *)
LEMMA CreatedFacts ==
  ASSUME Ready, call \in Calls \cup ArgCalls, Supplied(call, heap, words),
         NEW h, h = Created
  PROVE  /\ HeapOK(h, hbegin, hcurrent + Request)
         /\ DOMAIN h = DOMAIN heap \cup {hcurrent} /\ hcurrent \notin DOMAIN heap
         /\ \A a \in DOMAIN heap : h[a] = heap[a]
         /\ h[hcurrent].kind = call.kind /\ Len(h[hcurrent].body) = call.len
         /\ Request \in Nat /\ HeaderWords <= Request /\ 0 < Request
<1>1. /\ HeapOK(heap, hbegin, hcurrent) /\ hbegin \in Nat \ {0}
      /\ hcurrent \in Nat /\ hbegin <= hcurrent
  BY ReadyHeap
<1>2. call.len \in Nat /\ call.kind \in Kind
  BY DEF Calls, ArgCalls
<1>3. /\ Filled \in Seq(Int) /\ Len(Filled) = call.len
      /\ call.kind = "ARRAY" =>
           \A i \in 1 .. Len(Filled) : Sound(Filled[i], heap, hbegin, hcurrent)
      /\ call.kind \in {"SEXP", "CLOSURE"} =>
           \A i \in 2 .. Len(Filled) : Sound(Filled[i], heap, hbegin, hcurrent)
  BY FilledFacts
<1>4. PICK size : size = Request
  OBVIOUS
<1>5. size \in Nat /\ HeaderWords <= size /\ 0 < size /\ size = HeaderWords + call.len
  BY <1>2, <1>4, HeaderWordsAssumption DEF Request
<1>6. PICK o : o = NewObject(call.kind, Filled)
  OBVIOUS
<1>7. /\ o \in Object /\ o.kind = call.kind /\ o.body = Filled
      /\ ~o.mark /\ ~o.enq
  BY <1>1, <1>2, <1>3, <1>6, FreeNameType DEF NewObject, Object
<1>8. ASSUME NEW a \in DOMAIN heap
      PROVE  /\ a \in Nat /\ heap[a] \in Object /\ NextObj(heap, a) \in Nat
             /\ a < NextObj(heap, a) /\ NextObj(heap, a) <= hcurrent
  <2>1. a \in Nat /\ heap[a] \in Object /\ NextObj(heap, a) <= hcurrent
    BY <1>1 DEF HeapOK, Contiguous
  <2>2. Len(heap[a].body) \in Nat
    BY <2>1 DEF Object
  <2> QED
    BY <2>1, <2>2, HeaderWordsAssumption DEF NextObj, ObjSize
<1>9. hcurrent \notin DOMAIN heap
  BY <1>1, <1>8
<1>10. /\ DOMAIN h = DOMAIN heap \cup {hcurrent} /\ h[hcurrent] = o
       /\ \A a \in DOMAIN heap : h[a] = heap[a]
  BY <1>6, <1>9 DEF Created
<1>11. ObjSize(o) = size
  BY <1>3, <1>5, <1>7 DEF ObjSize
<1>12. /\ NextObj(h, hcurrent) = hcurrent + size
       /\ \A a \in DOMAIN heap : NextObj(h, a) = NextObj(heap, a)
  BY <1>10, <1>11 DEF NextObj
<1>13. Contiguous(h, hbegin, hcurrent + size)
  <2>1. IsFiniteSet(DOMAIN h)
    BY <1>1, <1>10, FS_AddElement DEF HeapOK, Contiguous
  <2>2. hbegin \in DOMAIN h /\ hbegin <= hcurrent + size
    BY <1>1, <1>5, <1>10 DEF HeapOK, Contiguous
  <2>3. ASSUME NEW a \in DOMAIN h
        PROVE  /\ a \in Nat /\ hbegin <= a
               /\ NextObj(h, a) = hcurrent + size \/ NextObj(h, a) \in DOMAIN h
               /\ NextObj(h, a) <= hcurrent + size
    <3>1. CASE a = hcurrent
      BY <1>1, <1>5, <1>12, <3>1
    <3>2. CASE a \in DOMAIN heap
      <4>1. /\ hbegin <= a
            /\ NextObj(heap, a) = hcurrent \/ NextObj(heap, a) \in DOMAIN heap
        BY <1>1, <3>2 DEF HeapOK, Contiguous
      <4> QED
        BY <1>1, <1>5, <1>8, <1>10, <1>12, <3>2, <4>1
    <3> QED
      BY <1>10, <3>1, <3>2
  <2>4. ASSUME NEW a \in DOMAIN h, NEW b \in DOMAIN h, a < b
        PROVE  NextObj(h, a) <= b
    <3>1. CASE a = hcurrent
      <4>1. b \in DOMAIN heap \/ b = hcurrent
        BY <1>10
      <4> QED
        BY <1>1, <1>8, <2>4, <3>1, <4>1
    <3>2. CASE a \in DOMAIN heap /\ b = hcurrent
      BY <1>8, <1>12, <3>2
    <3>3. CASE a \in DOMAIN heap /\ b \in DOMAIN heap
      BY <1>1, <1>12, <2>4, <3>3 DEF HeapOK, Contiguous
    <3> QED
      BY <1>10, <3>1, <3>2, <3>3
  <2> QED
    BY <2>1, <2>2, <2>3, <2>4 DEF Contiguous
<1>14. ASSUME NEW w, Sound(w, heap, hbegin, hcurrent), w \in Int
       PROVE  Sound(w, h, hbegin, hcurrent + size)
  BY <1>1, <1>5, <1>10, <1>14 DEF Sound, InChunk
<1>15. ASSUME NEW a \in DOMAIN h, NEW i \in FirstField(h[a]) .. Len(h[a].body)
       PROVE  Sound(h[a].body[i], h, hbegin, hcurrent + size)
  <2>1. CASE a \in DOMAIN heap
    <3>1. h[a] = heap[a] /\ heap[a].body \in Seq(Int)
      BY <1>8, <1>10, <2>1 DEF Object
    <3>2. i \in 1 .. Len(heap[a].body)
      BY <3>1 DEF FirstField
    <3>3. heap[a].body[i] \in Int
      BY <3>1, <3>2
    <3> QED
      BY <1>1, <1>14, <2>1, <3>1, <3>3 DEF HeapOK
  <2>2. CASE a = hcurrent
    <3>1. h[a] = o /\ Len(o.body) \in Nat
      BY <1>3, <1>7, <1>10, <2>2
    <3>2. \/ o.kind = "ARRAY" /\ i \in 1 .. Len(o.body)
          \/ o.kind \in {"SEXP", "CLOSURE"} /\ i \in 2 .. Len(o.body)
      BY <1>2, <1>7, <3>1 DEF FirstField, Kind
    <3>3. Sound(Filled[i], heap, hbegin, hcurrent)
      BY <1>3, <1>7, <3>2
    <3>4. Filled[i] \in Int
      <4>1. i \in 1 .. Len(Filled)
        BY <1>7, <3>1, <3>2
      <4> QED
        BY <1>3, <4>1
    <3> QED
      BY <1>7, <1>14, <3>1, <3>3, <3>4
  <2> QED
    BY <1>10, <2>1, <2>2
<1>16. HeapOK(h, hbegin, hcurrent + size)
  <2>1. \A a \in DOMAIN h : a \in Nat /\ h[a] \in Object /\ ~h[a].mark /\ ~h[a].enq
    BY <1>1, <1>7, <1>10 DEF HeapOK
  <2> QED
    BY <1>13, <1>15, <2>1 DEF HeapOK
<1> QED
  BY <1>3, <1>4, <1>5, <1>7, <1>9, <1>10, <1>16

(* The address of the new object.                                          *)
LEMMA NewIsSound ==
  ASSUME Ready, call \in Calls \cup ArgCalls, Supplied(call, heap, words),
         NEW h, DOMAIN h = DOMAIN heap \cup {hcurrent}
  PROVE  /\ Content(hcurrent) \in Int /\ 0 < Content(hcurrent)
         /\ ToData(Content(hcurrent)) = hcurrent
         /\ Sound(Content(hcurrent), h, hbegin, hcurrent + Request)
         /\ \A w \in Int : Sound(w, heap, hbegin, hcurrent) =>
                           Sound(w, h, hbegin, hcurrent + Request)
<1>1. PICK size : size = Request
  OBVIOUS
<1>2. size \in Nat /\ HeaderWords <= size
  BY <1>1, CreatedFacts
<1>3. /\ hbegin \in Nat \ {0} /\ hcurrent \in Nat /\ hbegin <= hcurrent
      /\ HeaderWords \in Nat \ {0}
  BY ReadyHeap, HeaderWordsAssumption
<1>4. /\ Content(hcurrent) \in Int /\ 0 < Content(hcurrent)
      /\ ToData(Content(hcurrent)) = hcurrent
      /\ InChunk(Content(hcurrent), hbegin, hcurrent + size)
  BY <1>2, <1>3 DEF Content, ToData, InChunk, Unboxed
<1>5. Sound(Content(hcurrent), h, hbegin, hcurrent + size)
  BY <1>4 DEF Sound
<1>6. \A w \in Int : Sound(w, heap, hbegin, hcurrent) =>
                     Sound(w, h, hbegin, hcurrent + size)
  BY <1>2, <1>3 DEF Sound, InChunk
<1> QED
  BY <1>1, <1>4, <1>5, <1>6

(* In a call that has not collected, or has.                               *)
LEMMA InTheCall ==
  ASSUME RuntimeIInv, pc \in {"call", "compacted"}
  PROVE  /\ Setting /\ ExtraRootsOK /\ CallTyped /\ Ready
         /\ Supplied(call, heap, words) /\ ArrayKept(heap, words)
         /\ call \in Calls \cup ArgCalls
         /\ words \in [Slot -> Int]
         /\ \A s \in Slot :
              /\ words[s] \in Int /\ Sound(words[s], heap, hbegin, hcurrent)
              /\ 0 < words[s] =>
                   \/ StackTop < s /\ s < StackBottom
                   \/ \E j \in 1 .. Len(extraRoots) : s = extraRoots[j]
                   \/ GlobalStart <= s /\ s < GlobalStop
         /\ words[StackBottom] <= 0
<1>1. /\ Setting /\ ExtraRootsOK /\ CallTyped /\ Ready
      /\ Supplied(call, heap, words) /\ ArrayKept(heap, words)
  BY DEF RuntimeIInv, InCall
<1>2. MemoryOK /\ Orderly(heap, words, hbegin, hcurrent) /\ stackTop = StackTop
  BY <1>1 DEF Ready, Setting
<1>3. ASSUME NEW s \in Slot, 0 < words[s]
      PROVE  \/ StackTop < s /\ s < StackBottom
             \/ \E j \in 1 .. Len(extraRoots) : s = extraRoots[j]
             \/ GlobalStart <= s /\ s < GlobalStop
  BY <1>2, <1>3, RootedByRegion DEF Orderly
<1> QED
  BY <1>1, <1>2, <1>3, CallOfSomeKind DEF MemoryOK, Orderly

LEMMA FirstElement ==
  ASSUME NEW S, NEW e \in Seq(S), 1 <= Len(e)
  PROVE  SubSeq(e, 1, 1) = <<e[1]>>
<1>1. Len(e) \in Nat
  OBVIOUS
<1>2. PICK p : p = SubSeq(e, 1, 1)
  OBVIOUS
<1>3. p \in Seq(S) /\ Len(p) = 1 /\ p[1] = e[1]
  BY <1>1, <1>2
<1>4. p = <<p[1]>>
  BY <1>3
<1> QED
  BY <1>2, <1>3, <1>4

LEMMA ReturnStep == ASSUME RuntimeIInv, Return PROVE RuntimeIInv'
<1>1. /\ pc \in {"call", "compacted"} /\ call.fn # "set_args" /\ Fits
      /\ heap' = Created /\ hcurrent' = hcurrent + Request
      /\ words' = [s \in Slot |->
                     CASE s = call.dest -> Content(hcurrent)
                       [] s \in StackTop - MaxArgs .. StackTop + MaxArgs -> Nil
                       [] OTHER -> words[s]]
      /\ extraRoots' = Popped /\ pc' = "mutator"
      /\ UNCHANGED <<hbegin, hsize, stackTop, todo>>
  BY DEF Return
<1>2. /\ Setting /\ CallTyped /\ Ready /\ Supplied(call, heap, words)
      /\ call \in Calls \cup ArgCalls
      /\ words \in [Slot -> Int]
      /\ \A s \in Slot :
           /\ words[s] \in Int /\ Sound(words[s], heap, hbegin, hcurrent)
           /\ 0 < words[s] =>
                \/ StackTop < s /\ s < StackBottom
                \/ \E j \in 1 .. Len(extraRoots) : s = extraRoots[j]
                \/ GlobalStart <= s /\ s < GlobalStop
      /\ words[StackBottom] <= 0
  BY <1>1, InTheCall
<1>3. /\ call \in Calls /\ call.dest \in Assignable /\ call.roots \in Nat
      /\ Len(extraRoots) = call.roots + 1 /\ extraRoots[1] = SysArgs
      /\ \A i \in 2 .. Len(extraRoots) :
           extraRoots[i] \in StackTop - MaxArgs .. StackBottom
  BY <1>1, <1>2 DEF CallTyped, Calls
<1>4. extraRoots' = <<SysArgs>>
  <2>1. extraRoots \in Seq(Slot)
    BY <1>2 DEF Ready, MemoryOK
  <2>2. Len(extraRoots) - call.roots = 1 /\ 1 <= Len(extraRoots)
    BY <1>3
  <2>3. extraRoots' = SubSeq(extraRoots, 1, 1)
    BY <1>1, <2>2 DEF Popped
  <2>4. SubSeq(extraRoots, 1, 1) = <<extraRoots[1]>>
    BY <2>1, <2>2, FirstElement
  <2> QED
    BY <1>3, <2>3, <2>4
<1>5. /\ HeapOK(heap', hbegin, hcurrent + Request)
      /\ DOMAIN heap' = DOMAIN heap \cup {hcurrent}
      /\ Request \in Nat
  BY <1>1, <1>2, CreatedFacts
<1>6. /\ hbegin \in Nat \ {0} /\ hsize \in Nat /\ hcurrent \in Nat
      /\ hbegin <= hcurrent /\ hend \in Nat
  BY <1>2, ReadyHeap
<1>7. hcurrent' \in hbegin .. hend
  BY <1>1, <1>5, <1>6 DEF Fits
<1>8. /\ Content(hcurrent) \in Int
      /\ Sound(Content(hcurrent), heap', hbegin, hcurrent')
      /\ \A w \in Int : Sound(w, heap, hbegin, hcurrent) =>
                        Sound(w, heap', hbegin, hcurrent')
  BY <1>1, <1>2, <1>5, NewIsSound
<1>9. Nil \in Int /\ Nil <= 0 /\ Sound(Nil, heap', hbegin, hcurrent')
  BY DEF Nil, Sound
<1>10. words' \in [Slot -> Int]
  BY <1>1, <1>2, <1>8, <1>9
<1>11. ASSUME NEW s \in Slot
       PROVE  /\ Sound(words'[s], heap', hbegin, hcurrent')
              /\ 0 < words'[s] => \/ StackTop < s /\ s < StackBottom
                                  \/ s = SysArgs
                                  \/ GlobalStart <= s /\ s < GlobalStop
  <2>1. CASE s = call.dest
    <3>1. /\ \/ StackTop < s /\ s < StackBottom
             \/ GlobalStart <= s /\ s < GlobalStop
          /\ s \notin StackTop - MaxArgs .. StackTop + MaxArgs
      <4>1. \/ StackTop + MaxArgs < s /\ s < StackBottom
            \/ GlobalStart <= s /\ s < GlobalStop
        BY <1>3, <2>1, Layout
      <4> QED
        BY <4>1, Layout DEF Slot
    <3>2. words'[s] = Content(hcurrent)
      BY <1>1, <2>1, <3>1
    <3> QED
      BY <1>8, <3>1, <3>2
  <2>2. CASE s # call.dest /\ s \in StackTop - MaxArgs .. StackTop + MaxArgs
    <3>1. words'[s] = Nil
      BY <1>1, <2>2
    <3> QED
      BY <1>9, <3>1
  <2>3. CASE s # call.dest /\ s \notin StackTop - MaxArgs .. StackTop + MaxArgs
    <3>1. words'[s] = words[s]
      BY <1>1, <2>3
    <3>2. Sound(words'[s], heap', hbegin, hcurrent')
      BY <1>2, <1>8, <3>1
    <3>3. ASSUME 0 < words[s], NEW j \in 1 .. Len(extraRoots), s = extraRoots[j]
          PROVE  s = SysArgs \/ (StackTop < s /\ s < StackBottom)
      <4>1. CASE j = 1
        <5>1. extraRoots[1] = SysArgs
          BY <1>3
        <5>2. s = extraRoots[j]
          BY <3>3
        <5>3. s = SysArgs
          BY <4>1, <5>1, <5>2
        <5> QED
          BY <5>3
      <4>2. CASE j # 1
        <5>1. s \in StackTop - MaxArgs .. StackBottom
          BY <1>3, <3>3, <4>2
        <5>2. s # StackBottom
          BY <1>2, <3>3
        <5> QED
          BY <2>3, <5>1, <5>2, Layout
      <4> QED
        BY <4>1, <4>2
    <3> QED
      BY <1>2, <3>1, <3>2, <3>3
  <2> QED
    BY <2>1, <2>2, <2>3
<1>12. words'[StackBottom] <= 0
  <2>1. /\ StackBottom \in Slot /\ StackBottom # call.dest
        /\ StackBottom \notin StackTop - MaxArgs .. StackTop + MaxArgs
    BY <1>3, Layout DEF Slot
  <2> QED
    BY <1>1, <1>2, <2>1
<1>13. extraRoots' \in Seq(Slot) /\ Len(extraRoots') = 1 /\ extraRoots'[1] = SysArgs
  BY <1>4, Layout
<1>14. \A s \in Slot :
         /\ Sound(words'[s], heap', hbegin, hcurrent')
         /\ 0 < words'[s] => \/ StackTop < s /\ s < StackBottom
                             \/ \E j \in 1 .. Len(extraRoots') : s = extraRoots'[j]
                             \/ GlobalStart <= s /\ s < GlobalStop
  <2>1. \E j \in 1 .. Len(extraRoots') : SysArgs = extraRoots'[j]
    BY <1>13
  <2> QED
    BY <1>11, <2>1
<1>15. stackTop = StackTop /\ HeapOK(heap', hbegin, hcurrent')
  BY <1>1, <1>2, <1>5 DEF Setting
<1>16. Ready'
  BY <1>1, <1>6, <1>7, <1>10, <1>12, <1>13, <1>14, <1>15, MemoryBack
<1>17. Setting'
  BY <1>1, <1>2 DEF Setting
<1> QED
  BY <1>1, <1>4, <1>16, <1>17, ProgramGoesOn

LEMMA LateOverflowStep == ASSUME RuntimeIInv, LateOverflow PROVE RuntimeIInv'
<1>1. pc' = "failed" /\ UNCHANGED <<stackTop, todo>> /\ Setting
  BY DEF LateOverflow, memory, RuntimeIInv
<1>2. Setting'
  BY <1>1 DEF Setting
<1> QED
  BY <1>1, <1>2, ProgramStops

LEMMA SetArgsStep == ASSUME RuntimeIInv, SetArgs PROVE RuntimeIInv'
<1>1. /\ pc = "start" /\ pc' = "call"
      /\ call' = [fn |-> "set_args", kind |-> "ARRAY", len |-> todo.argc,
                  source |-> "words", raw |-> [i \in 1 .. todo.argc |-> Nil],
                  args |-> <<>>, done |-> 0, roots |-> 0, late |-> 0]
      /\ UNCHANGED <<heap, hbegin, hsize, hcurrent, words, stackTop, extraRoots, todo>>
  BY DEF SetArgs, memory
<1>2. Setting /\ extraRoots = <<>> /\ ExtraRootsOK /\ Ready
  BY <1>1 DEF RuntimeIInv
<1>3. Setting' /\ ExtraRootsOK'
  BY <1>1, <1>2 DEF Setting, ExtraRootsOK
<1>4. Ready'
  <2>1. /\ extraRoots' \in Seq(Slot) /\ words' \in [Slot -> Int]
        /\ words'[StackBottom] <= 0
    BY <1>1, <1>2 DEF Ready, MemoryOK, Orderly
  <2>2. Rooted' = Rooted
    BY <1>1 DEF Rooted, RootSlots, StackSlots, GlobalSlots
  <2>3. \A s \in Slot : /\ Sound(words'[s], heap, hbegin, hcurrent)
                        /\ 0 < words'[s] => s \in Rooted'
    BY <1>1, <1>2, <2>2 DEF Ready, Orderly
  <2> QED
    BY <1>1, <1>2, <2>1, <2>3, WordsWritten
<1>5. PICK n : n = todo.argc
  OBVIOUS
<1>6. n \in Nat
  BY <1>2, <1>5 DEF Setting
<1>7. PICK raw : raw = [i \in 1 .. n |-> Nil]
  OBVIOUS
<1>8. raw \in Seq(Int) /\ Len(raw) = n /\ \A i \in 1 .. Len(raw) : raw[i] <= 0
  BY <1>6, <1>7 DEF Nil
<1>9. PICK none : none = <<>>
  OBVIOUS
<1>10. none \in Seq(Slot) /\ Len(none) = 0
  BY <1>9
<1>11. /\ call'.fn = "set_args" /\ call'.kind = "ARRAY" /\ call'.len = n
       /\ call'.source = "words" /\ call'.raw = raw /\ call'.args = none
       /\ call'.done = 0 /\ call'.roots = 0 /\ call'.late = 0
  BY <1>1, <1>5, <1>7, <1>9
<1>12. call' \in ArgCalls
  <2>1. call' = [fn |-> "set_args", kind |-> "ARRAY", len |-> n,
                 source |-> "words", raw |-> raw,
                 args |-> none, done |-> 0, roots |-> 0, late |-> 0]
    BY <1>1, <1>5, <1>7, <1>9
  <2> QED
    BY <1>6, <1>8, <1>10, <2>1, Names DEF ArgCalls
<1>13. CallTyped'
  BY <1>1, <1>2, <1>5, <1>6, <1>10, <1>11, <1>12 DEF CallTyped
<1>14. Supplied(call', heap', words')
  BY <1>8, <1>10, <1>11 DEF Supplied, FromWords, RawWordsOK
<1>15. ArrayKept(heap, words)'
  BY <1>11 DEF ArrayKept
<1> QED
  BY <1>1, <1>3, <1>4, <1>13, <1>14, <1>15, CallGoesOn

(* set_args goes on to its next allocation, or is done.                    *)
LEMMA NextArgStep == ASSUME RuntimeIInv, NextArg PROVE RuntimeIInv'
<1>1. PICK i : i = call.done
  OBVIOUS
<1>2. PICK p : p = IF i = 0 THEN Content(hcurrent) ELSE words[ArgArray]
  OBVIOUS
<1>3. /\ pc \in {"call", "compacted"} /\ call.fn = "set_args" /\ Fits
      /\ heap' = IF i = 0 THEN Created
                 ELSE [Created EXCEPT ![ToData(p)].body[i] = Content(hcurrent)]
      /\ hcurrent' = hcurrent + Request
      /\ UNCHANGED <<hbegin, hsize, stackTop, todo>>
  BY <1>1, <1>2 DEF NextArg
<1>4. \/ /\ i < todo.argc
         /\ words' = [words EXCEPT ![ArgArray] = p, ![Inner(1)] = StringBuf]
         /\ extraRoots' = ArgRoots
         /\ call' = [call EXCEPT !.kind = "STRING", !.len = 1,
                                 !.raw = Argument(i + 1), !.done = i + 1,
                                 !.roots = 2]
         /\ pc' = "call"
      \/ /\ i = todo.argc
         /\ words' = [words EXCEPT ![ArgArray] = Nil, ![Inner(1)] = Nil,
                                   ![SysArgs] = p]
         /\ extraRoots' = <<SysArgs>>
         /\ pc' = "mutator"
  BY <1>1, <1>2 DEF NextArg
<1>5. /\ Setting /\ CallTyped /\ Ready
      /\ Supplied(call, heap, words) /\ ArrayKept(heap, words)
      /\ call \in Calls \cup ArgCalls
      /\ words \in [Slot -> Int]
      /\ \A s \in Slot :
           /\ words[s] \in Int /\ Sound(words[s], heap, hbegin, hcurrent)
           /\ 0 < words[s] =>
                \/ StackTop < s /\ s < StackBottom
                \/ \E j \in 1 .. Len(extraRoots) : s = extraRoots[j]
                \/ GlobalStart <= s /\ s < GlobalStop
      /\ words[StackBottom] <= 0
  BY <1>3, InTheCall
<1>6. PICK n : n = todo.argc
  OBVIOUS
<1>7. /\ call \in ArgCalls /\ Len(call.args) = 0 /\ i \in 0 .. n /\ n \in Nat
      /\ i = 0 => extraRoots = <<>> /\ call.kind = "ARRAY" /\ call.len = n
      /\ i # 0 => extraRoots = ArgRoots
  BY <1>1, <1>3, <1>5, <1>6 DEF CallTyped, Setting
<1>8. /\ ArgArray \in Slot /\ Inner(1) \in Slot /\ SysArgs \in Slot
      /\ ArgArray # Inner(1) /\ ArgArray # SysArgs /\ Inner(1) # SysArgs
      /\ ArgArray # StackBottom /\ Inner(1) # StackBottom /\ SysArgs # StackBottom
      /\ ArgArray \notin {StackTop, GlobalStop} /\ Inner(1) \notin {StackTop, GlobalStop}
  BY Layout DEF ArgArray, Inner, Slot
<1>9. PICK h : h = Created
  OBVIOUS
<1>10. /\ HeapOK(h, hbegin, hcurrent + Request)
       /\ DOMAIN h = DOMAIN heap \cup {hcurrent} /\ hcurrent \notin DOMAIN heap
       /\ \A a \in DOMAIN heap : h[a] = heap[a]
       /\ h[hcurrent].kind = call.kind /\ Len(h[hcurrent].body) = call.len
       /\ Request \in Nat
  BY <1>5, <1>9, CreatedFacts
<1>11. /\ hbegin \in Nat \ {0} /\ hsize \in Nat /\ hcurrent \in Nat
       /\ hbegin <= hcurrent /\ hend \in Nat
  BY <1>5, ReadyHeap
<1>12. /\ Content(hcurrent) \in Int /\ 0 < Content(hcurrent)
       /\ ToData(Content(hcurrent)) = hcurrent
       /\ Sound(Content(hcurrent), h, hbegin, hcurrent + Request)
       /\ \A w \in Int : Sound(w, heap, hbegin, hcurrent) =>
                         Sound(w, h, hbegin, hcurrent + Request)
  BY <1>5, <1>10, NewIsSound
(* Where p points: the array.                                              *)
<1>13. /\ p \in Int /\ 0 < p /\ Sound(p, h, hbegin, hcurrent + Request)
       /\ ToData(p) \in DOMAIN h /\ h[ToData(p)].kind = "ARRAY"
       /\ Len(h[ToData(p)].body) = n
  <2>1. CASE i = 0
    <3>1. p = Content(hcurrent) /\ call.kind = "ARRAY" /\ call.len = n
      BY <1>2, <1>7, <2>1
    <3>2. ToData(p) = hcurrent
      BY <1>12, <3>1
    <3> QED
      BY <1>10, <1>12, <3>1, <3>2
  <2>2. CASE i # 0
    <3>1. p = words[ArgArray] /\ 0 < call.done
      BY <1>1, <1>2, <1>7, <2>2
    <3>2. /\ 0 < p /\ heap[ToData(p)].kind = "ARRAY"
          /\ Len(heap[ToData(p)].body) = n
      BY <1>3, <1>5, <1>6, <3>1 DEF ArrayKept
    <3>3. p \in Int /\ Sound(p, heap, hbegin, hcurrent)
      BY <1>5, <1>8, <3>1
    <3>4. ToData(p) \in DOMAIN heap
      BY <1>11, <3>2, <3>3, SoundWords
    <3>5. h[ToData(p)] = heap[ToData(p)] /\ ToData(p) \in DOMAIN h
      BY <1>10, <3>4
    <3> QED
      BY <1>12, <3>2, <3>3, <3>5
  <2> QED
    BY <2>1, <2>2
<1>14. /\ HeapOK(heap', hbegin, hcurrent + Request) /\ DOMAIN heap' = DOMAIN h
       /\ heap'[ToData(p)].kind = "ARRAY" /\ Len(heap'[ToData(p)].body) = n
  <2>1. CASE i = 0
    BY <1>3, <1>9, <1>10, <1>13, <2>1
  <2>2. CASE i # 0
    <3>1. PICK a : a = ToData(p)
      OBVIOUS
    <3>2. FirstField(h[a]) = 1 /\ i \in 1 .. Len(h[a].body)
      BY <1>7, <1>13, <2>2, <3>1 DEF FirstField
    <3>3. PICK w : w = Content(hcurrent)
      OBVIOUS
    <3>4. PICK g : g = Stored(h, a, i, w)
      OBVIOUS
    <3>5. heap' = g
      BY <1>3, <1>9, <2>2, <3>1, <3>3, <3>4 DEF Stored
    <3>6. PICK hi : hi = hcurrent + Request
      OBVIOUS
    <3>7. /\ HeapOK(h, hbegin, hi) /\ a \in DOMAIN h /\ w \in Int
          /\ Sound(w, h, hbegin, hi)
          /\ i \in FirstField(h[a]) .. Len(h[a].body)
      BY <1>10, <1>12, <1>13, <3>1, <3>2, <3>3, <3>6
    <3>8. /\ HeapOK(g, hbegin, hi) /\ DOMAIN g = DOMAIN h
          /\ \A b \in DOMAIN h : /\ g[b].kind = h[b].kind
                                 /\ Len(g[b].body) = Len(h[b].body)
      BY <3>4, <3>7, FieldWritten
    <3> QED
      BY <1>13, <3>1, <3>5, <3>6, <3>7, <3>8
  <2> QED
    BY <2>1, <2>2
<1>15. \A w : Sound(w, h, hbegin, hcurrent + Request) =>
              Sound(w, heap', hbegin, hcurrent')
  BY <1>3, <1>14 DEF Sound
<1>16. hcurrent' \in hbegin .. hend /\ stackTop = StackTop
       /\ HeapOK(heap', hbegin, hcurrent')
  BY <1>3, <1>5, <1>10, <1>11, <1>14 DEF Fits, Setting
<1>17. \A s \in Slot :
         /\ Sound(words[s], heap', hbegin, hcurrent')
         /\ 0 < words[s] => \/ StackTop < s /\ s < StackBottom
                            \/ s = ArgArray \/ s = Inner(1)
                            \/ GlobalStart <= s /\ s < GlobalStop
  <2>1. \A s \in Slot : Sound(words[s], heap', hbegin, hcurrent')
    BY <1>5, <1>12, <1>15
  <2>2. \A j \in 1 .. Len(extraRoots) : extraRoots[j] \in {ArgArray, Inner(1)}
    <3>1. CASE i = 0
      BY <1>7, <3>1
    <3>2. CASE i # 0
      <4>1. /\ Len(extraRoots) = 2 /\ extraRoots[1] = ArgArray
            /\ extraRoots[2] = Inner(1)
        BY <1>7, <3>2 DEF ArgRoots
      <4>2. \A j \in 1 .. 2 : j = 1 \/ j = 2
        OBVIOUS
      <4> QED
        BY <4>1, <4>2, Zenon
    <3> QED
      BY <3>1, <3>2
  <2> QED
    BY <1>5, <2>1, <2>2
<1>18. p \in Int /\ 0 < p /\ Sound(p, heap', hbegin, hcurrent')
  BY <1>13, <1>15
<1>19. Setting'
  BY <1>3, <1>5 DEF Setting
<1>20. StackBottom \in Slot
  BY Layout DEF Slot
<1>21. CASE /\ i < todo.argc
            /\ words' = [words EXCEPT ![ArgArray] = p, ![Inner(1)] = StringBuf]
            /\ extraRoots' = ArgRoots
            /\ call' = [call EXCEPT !.kind = "STRING", !.len = 1,
                                    !.raw = Argument(i + 1), !.done = i + 1,
                                    !.roots = 2]
            /\ pc' = "call"
  <2>1. /\ extraRoots' \in Seq(Slot) /\ Len(extraRoots') = 2
        /\ extraRoots'[1] = ArgArray /\ extraRoots'[2] = Inner(1)
    BY <1>8, <1>21 DEF ArgRoots
  <2>2. /\ words' \in [Slot -> Int] /\ words'[ArgArray] = p
        /\ words'[Inner(1)] = 0
        /\ \A s \in Slot : s \notin {ArgArray, Inner(1)} => words'[s] = words[s]
    BY <1>5, <1>8, <1>18, <1>21 DEF StringBuf
  <2>3. \A w \in Int : w <= 0 => Sound(w, heap', hbegin, hcurrent')
    BY DEF Sound
  <2>4. \A s \in Slot :
          /\ Sound(words'[s], heap', hbegin, hcurrent')
          /\ 0 < words'[s] => \/ StackTop < s /\ s < StackBottom
                              \/ \E j \in 1 .. Len(extraRoots') : s = extraRoots'[j]
                              \/ GlobalStart <= s /\ s < GlobalStop
    <3>1. \A s \in Slot : s = ArgArray \/ s = Inner(1) =>
            \E j \in 1 .. Len(extraRoots') : s = extraRoots'[j]
      <4>1. 1 \in 1 .. Len(extraRoots') /\ 2 \in 1 .. Len(extraRoots')
        BY <2>1
      <4> QED
        BY <2>1, <4>1
    <3>2. \A s \in Slot : Sound(words'[s], heap', hbegin, hcurrent')
      BY <1>17, <1>18, <2>2, <2>3
    <3> QED
      BY <1>17, <2>2, <3>1, <3>2
  <2>5. words'[StackBottom] <= 0
    BY <1>5, <1>8, <1>20, <2>2
  <2>6. Ready'
    BY <1>3, <1>11, <1>16, <2>1, <2>2, <2>4, <2>5, MemoryBack
  <2>7. ExtraRootsOK'
    <3>1. \A j \in 1 .. 2 : j = 1 \/ j = 2
      OBVIOUS
    <3> QED
      BY <1>3, <1>8, <1>16, <2>1, <3>1 DEF ExtraRootsOK
  <2>8. PICK raw : raw = Argument(i + 1)
    OBVIOUS
  <2>9. raw \in Seq(Int) /\ Len(raw) = 1
    BY <1>7, <2>8, ProgramAssumption DEF Argument
  <2>10. call' = [call EXCEPT !.kind = "STRING", !.len = 1, !.raw = raw,
                              !.done = i + 1, !.roots = 2]
    BY <1>21, <2>8
  <2>11. /\ call' \in ArgCalls /\ call'.fn = "set_args" /\ call'.kind = "STRING"
         /\ call'.len = 1 /\ call'.raw = raw /\ call'.done = i + 1
         /\ call'.roots = 2 /\ call'.args = call.args /\ call'.source = "words"
    <3>1. call \in ArgCalls /\ i + 1 \in Nat
      BY <1>7
    <3>2. /\ call'.fn = call.fn /\ call'.kind = "STRING"
          /\ call'.len = 1 /\ call'.raw = raw /\ call'.done = i + 1
          /\ call'.roots = 2 /\ call'.args = call.args
          /\ call'.source = call.source
      BY <2>10, <3>1 DEF ArgCalls
    <3>3. call' \in ArgCalls
      BY <2>9, <2>10, <3>1, Names DEF ArgCalls
    <3> QED
      BY <3>1, <3>2, <3>3 DEF ArgCalls
  <2>12. i + 1 \in 0 .. n /\ i + 1 # 0 /\ 0 < i + 1
    BY <1>6, <1>7, <1>21
  <2>13. CallTyped'
    BY <1>3, <1>6, <1>7, <1>21, <2>11, <2>12 DEF CallTyped
  <2>14. Supplied(call', heap', words')
    <3>1. PICK d : d = call'
      OBVIOUS
    <3>2. /\ Len(d.args) = 0 /\ Len(d.raw) = 1 /\ d.len = 1
          /\ d.kind = "STRING" /\ d.source = "words"
      BY <1>7, <2>9, <2>11, <3>1
    <3>3. Supplied(d, heap', words')
      BY <3>2 DEF Supplied, FromWords, RawWordsOK
    <3> QED
      BY <3>1, <3>3
  <2>15. ArrayKept(heap, words)'
    BY <1>3, <1>6, <1>14, <1>18, <2>2 DEF ArrayKept
  <2> QED
    BY <1>19, <1>21, <2>6, <2>7, <2>13, <2>14, <2>15, CallGoesOn
<1>22. CASE /\ i = todo.argc
            /\ words' = [words EXCEPT ![ArgArray] = Nil, ![Inner(1)] = Nil,
                                      ![SysArgs] = p]
            /\ extraRoots' = <<SysArgs>>
            /\ pc' = "mutator"
  <2>1. /\ extraRoots' \in Seq(Slot) /\ Len(extraRoots') = 1
        /\ extraRoots'[1] = SysArgs
    BY <1>8, <1>22
  <2>2. /\ words' \in [Slot -> Int] /\ words'[SysArgs] = p
        /\ words'[Inner(1)] = -1 /\ words'[ArgArray] = -1
        /\ \A s \in Slot : s \notin {ArgArray, Inner(1), SysArgs} =>
                             words'[s] = words[s]
    BY <1>5, <1>8, <1>18, <1>22 DEF Nil
  <2>3. \A w \in Int : w <= 0 => Sound(w, heap', hbegin, hcurrent')
    BY DEF Sound
  <2>4. \A s \in Slot :
          /\ Sound(words'[s], heap', hbegin, hcurrent')
          /\ 0 < words'[s] => \/ StackTop < s /\ s < StackBottom
                              \/ \E j \in 1 .. Len(extraRoots') : s = extraRoots'[j]
                              \/ GlobalStart <= s /\ s < GlobalStop
    <3>1. \E j \in 1 .. Len(extraRoots') : SysArgs = extraRoots'[j]
      BY <2>1
    <3>2. \A s \in Slot : Sound(words'[s], heap', hbegin, hcurrent')
      BY <1>17, <1>18, <2>2, <2>3
    <3> QED
      BY <1>17, <2>2, <3>1, <3>2
  <2>5. words'[StackBottom] <= 0
    BY <1>5, <1>8, <1>20, <2>2
  <2>6. Ready'
    BY <1>3, <1>11, <1>16, <2>1, <2>2, <2>4, <2>5, MemoryBack
  <2> QED
    BY <1>19, <1>22, <2>6, ProgramGoesOn
<1> QED
  BY <1>4, <1>21, <1>22
-----------------------------------------------------------------------------
(* Nothing happens.                                                        *)
LEMMA NothingHappens ==
  ASSUME RuntimeIInv, UNCHANGED runtimeVars
  PROVE  RuntimeIInv'
<1>1. /\ UNCHANGED <<heap, hbegin, hsize, hcurrent, words, stackTop, extraRoots>>
      /\ UNCHANGED <<pc, todo, call, before, additional>>
      /\ UNCHANGED markState /\ UNCHANGED compactState
  BY DEF runtimeVars, memory, gcVars, markState, markVars, compactState, compactVars
<1>2. /\ pc' \in {"start", "mutator", "call"} \cup MarkPC \cup CompactPC
      /\ Setting' /\ pc' = pc
      /\ pc' = "start" => extraRoots' = <<>>
      /\ pc' = "mutator" => extraRoots' = <<SysArgs>>
      /\ pc' # "failed" => ExtraRootsOK'
  BY <1>1 DEF RuntimeIInv, Setting, ExtraRootsOK
<1>3. InCall' => CallTyped'
  BY <1>1 DEF RuntimeIInv, InCall, CallTyped
<1>4. Rooted' = Rooted
  BY <1>1 DEF Rooted, RootSlots, StackSlots, GlobalSlots
<1>5. /\ Orderly(heap, words, hbegin, hcurrent) => Orderly(heap, words, hbegin, hcurrent)'
      /\ Orderly(before.heap, before.words, before.lo, before.hi) =>
           Orderly(before.heap, before.words, before.lo, before.hi)'
  BY <1>1, <1>4 DEF Orderly
<1>6. Ready => Ready'
  BY <1>1, <1>5 DEF Ready, MemoryOK, hend, Unmarked
<1>7. /\ Supplied(call, heap, words)' = Supplied(call, heap, words)
      /\ ArrayKept(heap, words)' = ArrayKept(heap, words)
      /\ Supplied(call, before.heap, before.words)'
           = Supplied(call, before.heap, before.words)
      /\ ArrayKept(before.heap, before.words)' = ArrayKept(before.heap, before.words)
      /\ (additional = Request)' = (additional = Request)
      /\ Fits' = Fits
  BY <1>1 DEF Supplied, Source, ArrayKept, Request, Fits, hend
<1>8. MarkIInv => MarkIInv'
  BY <1>1, MarkStutter
<1>9. CompactIInv => CompactIInv'
  BY <1>1, CompactStutter
<1>10. Collecting' = Collecting
  BY <1>1 DEF Collecting
<1> QED
  BY <1>2, <1>3, <1>5, <1>6, <1>7, <1>8, <1>9, <1>10 DEF RuntimeIInv

(* The calls of the program.                                               *)
Acting ==
  \/ \E dest \in Assignable :
       \/ \E ops \in Operands : \/ Barray(ops, dest) \/ Bsexp(ops, dest)
                                \/ Bclosure(ops, dest)
       \/ \E n \in Lengths : LmakeArray(n, dest) \/ LmakeString(n, dest)
       \/ LreadLine(dest)
       \/ \E x \in Var : \/ Lstring(x, dest) \/ Lstringcat(x, dest)
                         \/ LgetEnv(x, dest)
                         \/ Lsubstring(x, dest) \/ Lclone(x, dest)
                         \/ Belem(x, dest) \/ Move(x, dest)
                         \/ \E n \in Lengths : Lfread(x, n, dest)
       \/ \E x, y \in Var : Li__Infix_4343(x, y, dest)
  \/ \E x, y \in Var : Bsta(x, y)

LEMMA CarelessNotCalled ==
  ASSUME RuntimeIInv
  PROVE  /\ \A ops, dest : ~ Ls__Infix_58(ops, dest)
         /\ \A x, dest : ~ Lsprintf(x, dest)
<1>1. todo.fns \cap Careless = {}
  BY DEF RuntimeIInv, Setting
<1>2. "Ls__Infix_58" \notin todo.fns /\ "Lsprintf" \notin todo.fns
  BY <1>1 DEF Careless
<1>3. ASSUME NEW ops, NEW dest, Ls__Infix_58(ops, dest) PROVE FALSE
  BY <1>2, <1>3 DEF Ls__Infix_58, Enter, Constructor, Call
<1>4. ASSUME NEW x, NEW dest, Lsprintf(x, dest) PROVE FALSE
  BY <1>2, <1>4 DEF Lsprintf, Enter, Constructor, Call
<1> QED
  BY <1>3, <1>4

LEMMA ActingStep == ASSUME RuntimeIInv, Acting PROVE RuntimeIInv'
<1>1. ASSUME NEW dest \in Assignable, NEW ops \in Operands,
             Barray(ops, dest) \/ Bsexp(ops, dest) \/ Bclosure(ops, dest)
      PROVE  RuntimeIInv'
  BY <1>1, BarrayStep, BsexpStep, BclosureStep
<1>2. ASSUME NEW dest \in Assignable, NEW n \in Lengths,
             LmakeArray(n, dest) \/ LmakeString(n, dest)
      PROVE  RuntimeIInv'
  BY <1>2, LmakeArrayStep, LmakeStringStep
<1>3. ASSUME NEW dest \in Assignable, LreadLine(dest) PROVE RuntimeIInv'
  BY <1>3, LreadLineStep
<1>4. ASSUME NEW dest \in Assignable, NEW x \in Var,
             Lstring(x, dest) \/ Lstringcat(x, dest)
      PROVE  RuntimeIInv'
  BY <1>4, Names, BufferedStep DEF Lstring, Lstringcat
<1>5. ASSUME NEW dest \in Assignable, NEW x \in Var,
             \/ LgetEnv(x, dest) \/ Lsubstring(x, dest) \/ Lclone(x, dest)
             \/ Belem(x, dest) \/ Move(x, dest)
      PROVE  RuntimeIInv'
  BY <1>5, LgetEnvStep, LsubstringStep, LcloneStep, BelemStep, MoveStep
<1>6. ASSUME NEW dest \in Assignable, NEW x \in Var, NEW n \in Lengths,
             Lfread(x, n, dest)
      PROVE  RuntimeIInv'
  BY <1>6, LfreadStep
<1>7. ASSUME NEW dest \in Assignable, NEW x \in Var, NEW y \in Var,
             Li__Infix_4343(x, y, dest)
      PROVE  RuntimeIInv'
  BY <1>7, ConcatenateStep
<1>8. ASSUME NEW x \in Var, NEW y \in Var, Bsta(x, y) PROVE RuntimeIInv'
  BY <1>8, BstaStep
<1> QED
  BY <1>1, <1>2, <1>3, <1>4, <1>5, <1>6, <1>7, <1>8, Zenon DEF Acting

LEMMA RuntimeInductive == RuntimeIInv /\ [RuntimeNext]_runtimeVars => RuntimeIInv'
<1> SUFFICES ASSUME RuntimeIInv, [RuntimeNext]_runtimeVars PROVE RuntimeIInv'
  OBVIOUS
<1>1. CASE Acting
  BY <1>1, ActingStep
<1>2. CASE StartGC
  BY <1>2, StartGCStep
<1>3. CASE Mark
  BY <1>3, MarkGoesOn
<1>4. CASE StartCompact
  BY <1>4, StartCompactStep
<1>5. CASE Compact
  BY <1>5, CompactGoesOn
<1>6. CASE SetArgs
  BY <1>6, SetArgsStep
<1>7. CASE NextArg
  BY <1>7, NextArgStep
<1>8. CASE Return
  BY <1>8, ReturnStep
<1>9. CASE LateOverflow
  BY <1>9, LateOverflowStep
<1>10. CASE UNCHANGED runtimeVars
  BY <1>10, NothingHappens
<1>11. RuntimeNext => Acting \/ GoesOn
  BY CarelessNotCalled, Zenon DEF RuntimeNext, Acting
<1> QED
  BY <1>1, <1>2, <1>3, <1>4, <1>5, <1>6, <1>7, <1>8, <1>9, <1>10, <1>11 DEF GoesOn

LEMMA RuntimeInvariant == Careful /\ RuntimeSpec => []RuntimeIInv
<1>1. Careful /\ RuntimeInit => RuntimeIInv
  BY RuntimeInitial
<1>2. RuntimeIInv /\ [RuntimeNext]_runtimeVars => RuntimeIInv'
  BY RuntimeInductive
<1> QED
  BY <1>1, <1>2, PTL DEF RuntimeSpec
-----------------------------------------------------------------------------
(* What the first loop of the compact phase finds.                         *)
LEMMA LocatingIsReady ==
  ASSUME CompactIInv, pc = "locate"
  PROVE  LiveClosed /\ ExtraRootsOK /\ BasesUnused
<1>1. /\ MemoryOK /\ BeforeOK /\ InputOK /\ Locating
  BY DEF CompactIInv, CompactTypeOK
<1>2. /\ hbegin = before.lo /\ hcurrent = before.hi /\ words = before.words
      /\ DOMAIN heap = OldObjects
      /\ \A a \in OldObjects : /\ heap[a].kind = Old(a).kind
                               /\ heap[a].body = Old(a).body
                               /\ (heap[a].mark <=> Old(a).mark)
  BY <1>1 DEF Locating
<1>3. \A w : ValidHeapPointer(w) <=> OldPointer(w)
  BY <1>2 DEF ValidHeapPointer, OldPointer
<1>4. Live = Survivors
  BY <1>2, SurvivorsAreObjects DEF Live
<1>5. \A a \in OldObjects : PtrFields(heap[a]) = PtrFields(Old(a))
  BY <1>2 DEF PtrFields, FirstField
<1>6. ASSUME NEW w \in RootWords PROVE Follows(w)
  <2>1. PICK i \in 1 .. Len(RootSlots) : w = words[RootSlots[i]]
    BY DEF RootWords
  <2>2. RootSlots[i] \in Rooted
    BY DEF Rooted
  <2> QED
    BY <1>1, <1>2, <2>1, <2>2 DEF InputOK
<1>7. ASSUME NEW a \in Live, NEW i \in PtrFields(heap[a])
      PROVE  Follows(heap[a].body[i])
  <2>1. a \in Survivors /\ a \in OldObjects
    BY <1>4, SurvivorsAreObjects
  <2> QED
    BY <1>1, <1>2, <1>5, <2>1 DEF InputOK
<1>8. Pointees(RootWords) \subseteq Live
  BY <1>3, <1>4, <1>6 DEF Pointees, Follows
<1>9. Closed(Live)
  BY <1>3, <1>4, <1>7 DEF Closed, Refs, Pointees, Follows
<1>10. BasesUnused
  <2>1. ASSUME NEW w \in LivePointers PROVE Follows(w)
    <3>1. PICK a \in Live : w \in {heap[a].body[i] : i \in PtrFields(heap[a])}
      BY DEF LivePointers
    <3> QED
      BY <1>7, <3>1
  <2> QED
    BY <1>2, <1>3, <1>6, <2>1 DEF BasesUnused, Follows
<1> QED
  BY <1>1, <1>8, <1>9, <1>10 DEF LiveClosed, InputOK

(* Whatever a program asks of the runtime, in any order and with the heap  *)
(* filling up in the middle of any call: as long as it keeps away from the *)
(* two careless functions, the mark phase starts from a heap without holes *)
(* in which every root and every field that looks like a pointer is one,   *)
(* and the compact phase from one whose live objects refer to live objects.*)
THEOREM CollectorIsReady == Careful /\ RuntimeSpec => []CollectorReady
<1>1. RuntimeIInv => CollectorReady
  <2> SUFFICES ASSUME RuntimeIInv PROVE CollectorReady
    OBVIOUS
  <2>1. ASSUME pc \in {"start", "mutator", "call"}
        PROVE  /\ MemoryOK /\ Contiguous(heap, hbegin, hcurrent)
               /\ PreciseRoots /\ PreciseFields /\ Unmarked
    <3>1. Ready
      BY <2>1 DEF RuntimeIInv
    <3> QED
      BY <3>1, OrderIsPrecision DEF Ready
  <2>2. ASSUME pc = "locate"
        PROVE  LiveClosed /\ ExtraRootsOK /\ BasesUnused
    <3>1. CompactIInv
      BY <2>2 DEF RuntimeIInv, Collecting, CompactPC
    <3> QED
      BY <2>2, <3>1, LocatingIsReady
  <2> QED
    BY <2>1, <2>2 DEF CollectorReady
<1> QED
  BY <1>1, RuntimeInvariant, PTL

(* A collection always leaves room for the object that was asked for, and  *)
(* a call that returns leaves the pool of extra roots as it found it.      *)
THEOREM EveryCallServed == Careful /\ RuntimeSpec => []Served
<1>1. RuntimeIInv => Served
  <2> SUFFICES ASSUME RuntimeIInv PROVE Served
    OBVIOUS
  <2>1. ASSUME pc \notin {"start", "mutator", "failed"}
        PROVE  Len(extraRoots) =
                 call.roots + IF call.fn = "set_args" THEN 0 ELSE 1
    <3>1. CallTyped
      BY <2>1 DEF RuntimeIInv, InCall
    <3>2. CASE call.fn = "set_args"
      <4>1. CASE call.done = 0
        <5>1. extraRoots = <<>> /\ call.roots = 0
          BY <3>1, <3>2, <4>1 DEF CallTyped
        <5> QED
          BY <3>2, <5>1
      <4>2. CASE call.done # 0
        <5>1. extraRoots = ArgRoots /\ call.roots = 2
          BY <3>1, <3>2, <4>2 DEF CallTyped
        <5>2. Len(ArgRoots) = 2
          BY DEF ArgRoots
        <5> QED
          BY <3>2, <5>1, <5>2
      <4> QED
        BY <4>1, <4>2
    <3>3. CASE call.fn # "set_args"
      BY <3>1, <3>3 DEF CallTyped
    <3> QED
      BY <3>2, <3>3
  <2>2. /\ pc = "compacted" => Fits
        /\ pc = "mutator" => extraRoots = <<SysArgs>>
    BY DEF RuntimeIInv
  <2> QED
    BY <2>1, <2>2 DEF Served
<1> QED
  BY <1>1, RuntimeInvariant, PTL
=============================================================================

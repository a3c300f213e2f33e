-------------------------- MODULE CompactPhaseProofs --------------------------
(***************************************************************************)
(* Theorems about the compact phase, for every heap, every set of live     *)
(* objects and every place mremap may choose.  The inductive invariant     *)
(* CompactIInv follows each live object from where it was to where it      *)
(* goes: locations, found by the first loop, are the same for all others.  *)
(***************************************************************************)
EXTENDS CompactPhase, FiniteSetTheorems, TLAPS

(* The phase's input, as "before" recorded it.                             *)
OldObjects == DOMAIN before.heap
Old(a) == before.heap[a]
SizeOf(a) == ObjSize(Old(a))

OldPointer(w) == InChunk(w, before.lo, before.hi)

(* A word the phase will fix: it points to a live object, or to nowhere    *)
(* the heap may be afterwards.                                             *)
Follows(w) ==
  IF OldPointer(w) THEN ToData(w) \in Survivors
  ELSE \A b \in RemapBases : ~InChunk(w, b, b + (before.hi - before.lo))

BeforeOK ==
  /\ before.lo \in Nat /\ before.hi \in Nat
  /\ OldObjects \subseteq Nat
  /\ \A a \in OldObjects : Old(a) \in Object /\ ~Old(a).enq
  /\ Contiguous(before.heap, before.lo, before.hi)
  /\ before.words \in [Slot -> Int]
  /\ oldBegin = before.lo /\ oldCurrent = before.hi

InputOK ==
  /\ \A s \in Rooted : Follows(before.words[s])
  /\ \A a \in Survivors : \A i \in PtrFields(Old(a)) : Follows(Old(a).body[i])
  /\ ~OldPointer(before.words[StackBottom])
  /\ ExtraRootsOK
-----------------------------------------------------------------------------
(* Locations f of the objects S, packed into n words from the beginning of *)
(* the heap, with neither overlaps nor holes and none to the right of its  *)
(* object; b is what the heap was before.                                  *)
Packed(b, f, S, n) ==
  LET End(a) == f[a] + ObjSize(b.heap[a])
  IN /\ \A a \in S :
          /\ f[a] \in Int /\ b.lo <= f[a] /\ f[a] <= a
          /\ End(a) <= b.lo + n
          /\ f[a] = b.lo \/ \E c \in S : c < a /\ End(c) = f[a]
          /\ End(a) = b.lo + n \/ \E c \in S : f[c] = End(a)
     /\ \A a, c \in S : a < c => End(a) <= f[c]
     /\ n = 0 \/ /\ \E a \in S : f[a] = b.lo
                 /\ \E a \in S : End(a) = b.lo + n

(* compute_locations: the heap is as it was, but for the forward addresses *)
(* of the live objects that the iterator has passed.                       *)
Passed == IF pc = "locate" THEN scan ELSE hcurrent

Locating ==
  /\ hbegin = before.lo /\ hcurrent = before.hi /\ words = before.words
  /\ DOMAIN heap = OldObjects
  /\ \A a \in OldObjects :
       /\ heap[a].id = Old(a).id /\ heap[a].kind = Old(a).kind
       /\ heap[a].body = Old(a).body
       /\ (heap[a].mark <=> Old(a).mark) /\ ~heap[a].enq
  /\ live <= Passed - before.lo
  /\ Packed(before, [a \in OldObjects |-> heap[a].fwd],
            {a \in Survivors : a < Passed}, live)
-----------------------------------------------------------------------------
(* After remap.  Where an object goes, and what a word becomes.            *)
Target(f, a) == hbegin + (f[a] - before.lo)

Corrected(f, w) == IF OldPointer(w) THEN Content(Target(f, ToData(w))) ELSE w

CorrectedBody(f, a) ==
  [i \in 1 .. Len(Old(a).body) |->
     IF i \in PtrFields(Old(a)) THEN Corrected(f, Old(a).body[i])
                                ELSE Old(a).body[i]]

Placed(f) ==
  /\ Packed(before, f, Survivors, live)
  /\ hbegin = before.lo \/ hbegin \in RemapBases
  /\ live <= before.hi - before.lo
  /\ live + additional <= hsize

(* An object that still is where it was, and one that was moved.           *)
InPlace(f, a) ==
  /\ Carried(a) \in DOMAIN heap
  /\ LET o == heap[Carried(a)]
     IN /\ Len(o.body) = Len(Old(a).body)
        /\ (o.mark <=> Old(a).mark) /\ ~o.enq
        /\ Old(a).mark =>
             /\ o.id = Old(a).id /\ o.kind = Old(a).kind /\ o.fwd = f[a]
             /\ o.body = IF pc = "fixFields" /\ scan <= Carried(a)
                         THEN Old(a).body ELSE CorrectedBody(f, a)

InTarget(f, a) ==
  /\ Target(f, a) \in DOMAIN heap
  /\ LET o == heap[Target(f, a)]
     IN /\ o.id = Old(a).id /\ o.kind = Old(a).kind
        /\ o.body = CorrectedBody(f, a) /\ ~o.mark /\ ~o.enq

ObjectStarts == {Carried(a) : a \in OldObjects}

Fixing == {"fixFields", "fixStack", "fixExtra", "fixGlobals"}

HeapCarried(f) ==
  /\ hcurrent = Carried(before.hi)
  /\ DOMAIN heap = ObjectStarts
  /\ \A a \in OldObjects : InPlace(f, a)

(* What is in the heap beside the objects ahead of the iterator is a moved *)
(* object, or lies to the right of all of them.                            *)
HeapSliding(f) ==
  /\ hcurrent = Carried(before.hi)
  /\ scan \in ObjectStarts \cup {hcurrent}
  /\ \A a \in OldObjects : scan <= Carried(a) => InPlace(f, a)
  /\ \A a \in Survivors : Carried(a) < scan => InTarget(f, a)
  /\ \A b \in DOMAIN heap :
       /\ hbegin <= b
       /\ \/ \E a \in Survivors : Carried(a) < scan /\ b = Target(f, a)
          \/ \A a \in Survivors : Carried(a) < scan =>
                                    Target(f, a) + SizeOf(a) <= b

HeapCompacted(f) ==
  /\ hcurrent = hbegin + live
  /\ DOMAIN heap = {Target(f, a) : a \in Survivors}
  /\ \A a \in Survivors : InTarget(f, a)

(* The words that have been fixed.                                         *)
StackRegion == {s \in Slot : stackTop < s}
GlobalRegion == {s \in Slot : GlobalStart <= s /\ s < GlobalStop}
ExtraFixed == {s \in Slot : ~OfRegion(s) /\ \E j \in 1 .. Len(extraRoots) :
                                               j < extra /\ s = extraRoots[j]}

FixedSlots ==
  (IF pc \in {"fixFields", "fixStack"} THEN {} ELSE StackRegion \cup ExtraFixed)
    \cup (IF pc \in {"relocate", "compacted"} THEN GlobalRegion ELSE {})

WordsFixed(f) ==
  /\ \A s \in Slot : words[s] = IF s \in FixedSlots THEN Corrected(f, before.words[s])
                                ELSE before.words[s]
  /\ pc \in {"fixGlobals", "relocate", "compacted"} => extra > Len(extraRoots)

Correcting(f) ==
  /\ Placed(f) /\ WordsFixed(f)
  /\ pc \in Fixing => HeapCarried(f)
  /\ pc = "fixFields" => scan \in ObjectStarts \cup {hcurrent}
  /\ pc = "relocate" => HeapSliding(f)
  /\ pc = "compacted" => HeapCompacted(f)

Locations == [Survivors -> before.lo .. before.hi]

CompactIInv ==
  /\ CompactTypeOK /\ BeforeOK /\ InputOK
  /\ pc \in {"locate", "remap"} => Locating
  /\ pc \in Fixing \cup {"relocate", "compacted"} => \E f \in Locations : Correcting(f)
-----------------------------------------------------------------------------
(* The objects before the phase: each ends where the next begins.          *)
LEMMA OldFacts ==
  ASSUME BeforeOK, NEW a \in OldObjects
  PROVE  /\ a \in Nat /\ Old(a) \in Object
         /\ Old(a).body \in Seq(Int) /\ Len(Old(a).body) \in Nat
         /\ SizeOf(a) \in Nat /\ HeaderWords <= SizeOf(a) /\ 0 < SizeOf(a)
         /\ before.lo <= a /\ a + SizeOf(a) <= before.hi
         /\ a + SizeOf(a) \in OldObjects \cup {before.hi}
         /\ \A b \in OldObjects : a < b => a + SizeOf(a) <= b
<1>1. a \in Nat /\ Old(a) \in Object
  BY DEF BeforeOK
<1>2. Old(a).body \in Seq(Int) /\ Len(Old(a).body) \in Nat
  BY <1>1 DEF Object
<1>3. SizeOf(a) = HeaderWords + Len(Old(a).body)
  BY DEF SizeOf, ObjSize
<1>4. SizeOf(a) \in Nat /\ HeaderWords <= SizeOf(a) /\ 0 < SizeOf(a)
  BY <1>2, <1>3, HeaderWordsAssumption
<1>5. NextObj(before.heap, a) = a + SizeOf(a)
  BY DEF NextObj, SizeOf, Old
<1>6. /\ before.lo <= a
      /\ a + SizeOf(a) <= before.hi
      /\ a + SizeOf(a) \in OldObjects \cup {before.hi}
      /\ \A b \in OldObjects : a < b => a + SizeOf(a) <= b
  BY <1>5 DEF BeforeOK, Contiguous, OldObjects
<1> QED
  BY <1>1, <1>2, <1>4, <1>6

LEMMA SurvivorsAreObjects ==
  /\ Survivors \subseteq OldObjects
  /\ \A a \in OldObjects : a \in Survivors <=> Old(a).mark
BY DEF Survivors, OldObjects, Old

(* What the phase is given does not change under its hands.                *)
LEMMA InputKept ==
  ASSUME BeforeOK, InputOK,
         UNCHANGED <<before, stackTop, extraRoots>>,
         oldBegin' = before.lo, oldCurrent' = before.hi
  PROVE  /\ BeforeOK' /\ InputOK'
         /\ OldObjects' = OldObjects /\ Survivors' = Survivors
         /\ Rooted' = Rooted /\ Locations' = Locations
         /\ \A a : Old(a)' = Old(a) /\ SizeOf(a)' = SizeOf(a)
         /\ \A w : OldPointer(w)' = OldPointer(w)
<1>1. /\ OldObjects' = OldObjects /\ Survivors' = Survivors
      /\ \A a : Old(a)' = Old(a) /\ SizeOf(a)' = SizeOf(a)
      /\ \A w : OldPointer(w)' = OldPointer(w)
  BY DEF OldObjects, Survivors, Old, SizeOf, OldPointer
<1>2. Rooted' = Rooted
  BY DEF Rooted, RootSlots, StackSlots, GlobalSlots
<1>3. ASSUME NEW w PROVE Follows(w)' = Follows(w)
  BY <1>1 DEF Follows
<1>5. Locations' = Locations
  BY <1>1 DEF Locations
<1>6. BeforeOK'
  BY <1>1 DEF BeforeOK
<1>7. ExtraRootsOK'
  BY DEF InputOK, ExtraRootsOK
<1>8. InputOK'
  BY <1>1, <1>2, <1>3, <1>7 DEF InputOK
<1> QED
  BY <1>1, <1>2, <1>5, <1>6, <1>8

(* Where the elements of two sequences end up in their concatenation.      *)
LEMMA Concatenation ==
  ASSUME NEW S, NEW p \in Seq(S), NEW q \in Seq(S)
  PROVE  /\ p \o q \in Seq(S) /\ Len(p \o q) = Len(p) + Len(q)
         /\ \A i \in 1 .. Len(p) : (p \o q)[i] = p[i]
         /\ \A i \in 1 .. Len(q) : (p \o q)[Len(p) + i] = q[i]
OBVIOUS

(* The slots the phase must fix, by region.                                *)
LEMMA RootedByRegion ==
  ASSUME MemoryOK
  PROVE  /\ Rooted \subseteq Slot
         /\ \A s \in Slot :
              s \in Rooted <=> \/ stackTop < s /\ s < StackBottom
                               \/ \E j \in 1 .. Len(extraRoots) : s = extraRoots[j]
                               \/ GlobalStart <= s /\ s < GlobalStop
<1> USE LayoutAssumption
<1>1. stackTop \in Int /\ GlobalStop <= stackTop /\ stackTop < StackBottom
  BY DEF MemoryOK
<1> DEFINE m == StackBottom - stackTop - 1
           n == GlobalStop - GlobalStart
           e == Len(extraRoots)
<1>2. m \in Nat /\ n \in Nat /\ e \in Nat /\ extraRoots \in Seq(Slot)
  BY <1>1 DEF MemoryOK
<1>3. StackSlots \in Seq(Slot) /\ Len(StackSlots) = m
      /\ \A i \in 1 .. m : StackSlots[i] = stackTop + i
  BY <1>1, <1>2 DEF Slot, StackSlots
<1>4. GlobalSlots \in Seq(Slot) /\ Len(GlobalSlots) = n
      /\ \A i \in 1 .. n : GlobalSlots[i] = GlobalStart + i - 1
  BY <1>1, <1>2 DEF Slot, GlobalSlots
<1> HIDE DEF m, n, e
<1> DEFINE t == StackSlots \o extraRoots
<1>5. /\ t \in Seq(Slot) /\ Len(t) = m + e
      /\ \A i \in 1 .. m : t[i] = StackSlots[i]
      /\ \A i \in 1 .. e : t[m + i] = extraRoots[i]
  <2>1. StackSlots \in Seq(Slot) /\ extraRoots \in Seq(Slot)
    BY <1>2, <1>3
  <2>2. /\ t \in Seq(Slot) /\ Len(t) = Len(StackSlots) + Len(extraRoots)
        /\ \A i \in 1 .. Len(StackSlots) : t[i] = StackSlots[i]
        /\ \A i \in 1 .. Len(extraRoots) : t[Len(StackSlots) + i] = extraRoots[i]
    BY <2>1, Concatenation
  <2> QED
    BY <1>3, <2>2 DEF e
<1>6. /\ \A i \in 1 .. m + e : i <= m \/ i - m \in 1 .. e
      /\ \A i \in 1 .. m + e : i > m => t[i] = extraRoots[i - m]
  BY <1>2, <1>5
<1> HIDE DEF t
<1>7. RootSlots = t \o GlobalSlots
  BY DEF RootSlots, t
<1>8. /\ RootSlots \in Seq(Slot) /\ Len(RootSlots) = m + e + n
      /\ \A i \in 1 .. m + e : RootSlots[i] = t[i]
      /\ \A i \in 1 .. n : RootSlots[m + e + i] = GlobalSlots[i]
  <2> DEFINE r == t \o GlobalSlots
  <2>0. t \in Seq(Slot) /\ GlobalSlots \in Seq(Slot)
    BY <1>4, <1>5
  <2>1. /\ r \in Seq(Slot) /\ Len(r) = Len(t) + Len(GlobalSlots)
        /\ \A i \in 1 .. Len(t) : r[i] = t[i]
        /\ \A i \in 1 .. Len(GlobalSlots) : r[Len(t) + i] = GlobalSlots[i]
    BY <2>0, Concatenation
  <2> HIDE DEF r
  <2>2. RootSlots = r
    BY <1>7 DEF r
  <2> QED
    BY <1>2, <1>4, <1>5, <2>1, <2>2
<1>9. ASSUME NEW s \in Rooted
      PROVE  /\ s \in Slot
             /\ \/ stackTop < s /\ s < StackBottom
                \/ \E j \in 1 .. Len(extraRoots) : s = extraRoots[j]
                \/ GlobalStart <= s /\ s < GlobalStop
  <2>1. PICK i \in 1 .. m + e + n : s = RootSlots[i]
    BY <1>8 DEF Rooted
  <2>2. s \in Slot
    BY <1>8, <2>1
  <2>3. CASE i <= m
    BY <1>1, <1>2, <1>3, <1>5, <1>8, <2>1, <2>3 DEF m
  <2>4. CASE m < i /\ i <= m + e
    BY <1>2, <1>6, <1>8, <2>1, <2>4 DEF e
  <2>5. CASE m + e < i
    <3>1. i - (m + e) \in 1 .. n /\ i = m + e + (i - (m + e))
      BY <1>2, <2>1, <2>5
    <3>2. s = GlobalStart + (i - (m + e)) - 1
      BY <1>4, <1>8, <2>1, <3>1
    <3>3. 1 <= i - (m + e) /\ i - (m + e) <= n
      BY <3>1
    <3> QED
      BY <1>1, <1>2, <2>1, <2>2, <3>2, <3>3 DEF n
  <2> QED
    BY <1>2, <2>1, <2>2, <2>3, <2>4, <2>5
<1>10. ASSUME NEW s \in Slot, stackTop < s, s < StackBottom
       PROVE  s \in Rooted
  <2>1. s - stackTop \in 1 .. m /\ s \in Int
    BY <1>1, <1>10 DEF m, Slot
  <2>2. RootSlots[s - stackTop] = s
    BY <1>1, <1>2, <1>3, <1>5, <1>8, <2>1
  <2> QED
    BY <1>2, <1>8, <2>1, <2>2 DEF Rooted
<1>11. ASSUME NEW j \in 1 .. Len(extraRoots)
       PROVE  extraRoots[j] \in Rooted
  <2>1. RootSlots[m + j] = extraRoots[j] /\ m + j \in 1 .. m + e + n
    BY <1>2, <1>5, <1>8 DEF e
  <2> QED
    BY <1>8, <2>1 DEF Rooted
<1>12. ASSUME NEW s \in Slot, GlobalStart <= s, s < GlobalStop
       PROVE  s \in Rooted
  <2>1. PICK i \in 1 .. n : s = GlobalStart + i - 1
    <3>1. s - GlobalStart + 1 \in 1 .. n /\ s \in Int
      BY <1>12 DEF n, Slot
    <3> QED
      BY <3>1
  <2>2. RootSlots[m + e + i] = s
    BY <1>4, <1>8, <2>1
  <2>3. m + e + i \in 1 .. m + e + n
    BY <1>2, <2>1
  <2> QED
    BY <1>8, <2>2, <2>3 DEF Rooted
<1> QED
  BY <1>9, <1>10, <1>11, <1>12
-----------------------------------------------------------------------------
(* Moving an object changes nothing of it but its mark.                    *)
LEMMA MoveObject ==
  ASSUME NEW x \in Object
  PROVE  /\ Moved(x) \in Object /\ ~Moved(x).mark
         /\ Moved(x).id = x.id /\ Moved(x).kind = x.kind
         /\ Moved(x).body = x.body
         /\ (Moved(x).enq <=> x.enq)
<1>1. Moved(x) \in Object
  BY DEF Moved, Object
<1> QED
  BY <1>1 DEF Moved, Object

(* compute_locations packs one more object.                                *)
LEMMA PackedGrows ==
  ASSUME BeforeOK,
         NEW S \in SUBSET OldObjects, NEW n \in Nat, NEW f, NEW g,
         Packed(before, f, S, n),
         NEW t \in OldObjects, n <= t - before.lo,
         \A a \in S : a < t /\ g[a] = f[a],
         g[t] = before.lo + n
  PROVE  Packed(before, g, S \cup {t}, n + SizeOf(t))
<1> DEFINE T == S \cup {t}
           m == n + SizeOf(t)
<1>1. before.lo \in Nat /\ t \in Nat /\ SizeOf(t) \in Nat /\ 0 < SizeOf(t)
  BY OldFacts DEF BeforeOK
<1>2. \A a \in S : /\ a \in Nat /\ SizeOf(a) \in Nat
                   /\ f[a] \in Int /\ before.lo <= f[a] /\ f[a] <= a
                   /\ f[a] + SizeOf(a) <= before.lo + n
  BY OldFacts DEF Packed, SizeOf, Old
<1>3. \A a \in S : f[a] = before.lo \/ \E b \in S : b < a /\ f[b] + SizeOf(b) = f[a]
  BY DEF Packed, SizeOf, Old
<1>4. \A a \in S : \/ f[a] + SizeOf(a) = before.lo + n
                   \/ \E b \in S : f[b] = f[a] + SizeOf(a)
  BY DEF Packed, SizeOf, Old
<1>5. \A a, b \in S : a < b => f[a] + SizeOf(a) <= f[b]
  BY DEF Packed, SizeOf, Old
<1>6. n = 0 \/ /\ \E a \in S : f[a] = before.lo
               /\ \E a \in S : f[a] + SizeOf(a) = before.lo + n
  BY DEF Packed, SizeOf, Old
<1>7. \A a \in T : /\ g[a] \in Int /\ before.lo <= g[a] /\ g[a] <= a
                   /\ g[a] + SizeOf(a) <= before.lo + m
  BY <1>1, <1>2
<1>8. \A a \in T : g[a] = before.lo \/ \E b \in T : b < a /\ g[b] + SizeOf(b) = g[a]
  <2>1. CASE n = 0
    BY <1>1, <1>3, <2>1
  <2>2. CASE n # 0
    BY <1>1, <1>3, <1>6, <2>2
  <2> QED
    BY <2>1, <2>2
<1>9. \A a \in T : \/ g[a] + SizeOf(a) = before.lo + m
                   \/ \E b \in T : g[b] = g[a] + SizeOf(a)
  BY <1>1, <1>2, <1>4
<1>10. \A a, b \in T : a < b => g[a] + SizeOf(a) <= g[b]
  BY <1>1, <1>2, <1>5
<1>11. /\ \E a \in T : g[a] = before.lo
       /\ \E a \in T : g[a] + SizeOf(a) = before.lo + m
  BY <1>1, <1>6
<1> QED
  BY <1>7, <1>8, <1>9, <1>10, <1>11 DEF Packed, SizeOf, Old
-----------------------------------------------------------------------------
(* compute_locations.                                                      *)
LEMMA LocatingFacts ==
  ASSUME CompactIInv, pc = "locate", ~Done
  PROVE  /\ MemoryOK /\ BeforeOK /\ InputOK /\ Locating
         /\ Passed = scan /\ scan \in OldObjects /\ scan \in Nat
         /\ before.lo \in Nat /\ live \in Nat
         /\ NextObj(heap, scan) = scan + SizeOf(scan)
         /\ ObjSize(heap[scan]) = SizeOf(scan) /\ SizeOf(scan) \in Nat
         /\ scan + SizeOf(scan) \in DOMAIN heap \cup {hcurrent}
         /\ scan + SizeOf(scan) <= hcurrent
         /\ (heap[scan].mark <=> Old(scan).mark)
         /\ \A a \in OldObjects : a < scan + SizeOf(scan) <=> a <= scan
<1>1. CompactTypeOK /\ MemoryOK /\ BeforeOK /\ InputOK /\ Locating
  BY DEF CompactIInv, CompactTypeOK
<1>2. scan \in DOMAIN heap /\ DOMAIN heap = OldObjects
      /\ hcurrent = before.hi /\ before.lo \in Nat /\ live \in Nat
  BY <1>1 DEF CompactTypeOK, Locating, Done, MemoryOK, BeforeOK
<1>3. heap[scan].body = Old(scan).body /\ (heap[scan].mark <=> Old(scan).mark)
  BY <1>1, <1>2 DEF Locating
<1>4. ObjSize(heap[scan]) = SizeOf(scan)
  BY <1>3 DEF ObjSize, SizeOf
<1>5. \A a \in OldObjects : a \in Nat
  BY <1>1 DEF BeforeOK
<1>6. \A a \in OldObjects : a < scan + SizeOf(scan) <=> a <= scan
  BY <1>1, <1>2, <1>5, OldFacts
<1> QED
  BY <1>1, <1>2, <1>3, <1>4, <1>6, OldFacts DEF NextObj, Passed

LEMMA LocateLiveStep == ASSUME CompactIInv, LocateLive PROVE CompactIInv'
<1>1. /\ pc = "locate" /\ ~Done /\ heap[scan].mark
      /\ heap' = [heap EXCEPT ![scan].fwd = hbegin + live]
      /\ live' = live + ObjSize(heap[scan])
      /\ scan' = NextObj(heap, scan)
      /\ UNCHANGED <<hbegin, hsize, hcurrent, words, stackTop, extraRoots,
                     pc, extra, oldBegin, oldCurrent, additional, before>>
  BY DEF LocateLive
<1>2. PICK t : t = scan
  OBVIOUS
<1>3. /\ MemoryOK /\ BeforeOK /\ InputOK /\ Locating
      /\ Passed = t /\ t \in OldObjects /\ t \in Nat
      /\ before.lo \in Nat /\ live \in Nat /\ SizeOf(t) \in Nat
      /\ scan' = t + SizeOf(t) /\ live' = live + SizeOf(t)
      /\ t + SizeOf(t) \in DOMAIN heap \cup {hcurrent}
      /\ t + SizeOf(t) <= hcurrent
      /\ Old(t).mark
      /\ \A a \in OldObjects : a < t + SizeOf(t) <=> a <= t
  BY <1>1, <1>2, LocatingFacts
<1>4. /\ BeforeOK' /\ InputOK'
      /\ OldObjects' = OldObjects /\ Survivors' = Survivors
      /\ \A a : Old(a)' = Old(a)
  BY <1>1, <1>3, InputKept DEF BeforeOK
<1>5. /\ hbegin = before.lo /\ hcurrent = before.hi /\ words = before.words
      /\ DOMAIN heap = OldObjects /\ live <= t - before.lo
      /\ \A a \in OldObjects : heap[a] \in Object
  BY <1>3 DEF Locating, MemoryOK
<1>6. /\ DOMAIN heap' = OldObjects
      /\ \A a \in OldObjects : a # t => heap'[a] = heap[a]
      /\ heap'[t] = [heap[t] EXCEPT !.fwd = hbegin + live]
  BY <1>1, <1>2, <1>3, <1>5
<1>7. heap'[t] \in Object /\ heap'[t].fwd = hbegin + live
      /\ heap'[t].id = heap[t].id /\ heap'[t].kind = heap[t].kind
      /\ heap'[t].body = heap[t].body
      /\ (heap'[t].mark <=> heap[t].mark) /\ (heap'[t].enq <=> heap[t].enq)
  <2>1. PICK p \in Int : p = hbegin + live
    BY <1>3, <1>5
  <2>2. heap[t] \in Object /\ heap'[t] = [heap[t] EXCEPT !.fwd = p]
    BY <1>3, <1>5, <1>6, <2>1, Zenon
  <2>3. /\ heap'[t] \in Object /\ heap'[t].fwd = p
        /\ heap'[t].id = heap[t].id /\ heap'[t].kind = heap[t].kind
        /\ heap'[t].body = heap[t].body
        /\ (heap'[t].mark <=> heap[t].mark) /\ (heap'[t].enq <=> heap[t].enq)
    BY <2>2 DEF Object
  <2> QED
    BY <2>1, <2>3, Zenon
<1>8. \A a \in OldObjects :
        /\ heap'[a] \in Object
        /\ heap'[a].id = Old(a).id /\ heap'[a].kind = Old(a).kind
        /\ heap'[a].body = Old(a).body
        /\ (heap'[a].mark <=> Old(a).mark) /\ ~heap'[a].enq
  <2>1. \A a \in OldObjects :
          /\ heap[a].id = Old(a).id /\ heap[a].kind = Old(a).kind
          /\ heap[a].body = Old(a).body
          /\ (heap[a].mark <=> Old(a).mark) /\ ~heap[a].enq
    BY <1>3 DEF Locating
  <2> QED
    BY <1>5, <1>6, <1>7, <2>1, Zenon
<1>9. PICK S, f, g : /\ S = {a \in Survivors : a < Passed}
                     /\ f = [a \in OldObjects |-> heap[a].fwd]
                     /\ g = [a \in OldObjects |-> heap'[a].fwd]
  OBVIOUS
<1>10. Packed(before, g, S \cup {t}, live + SizeOf(t))
  <2>1. S \in SUBSET OldObjects /\ \A a \in S : a < t
    BY <1>3, <1>9, SurvivorsAreObjects
  <2>2. g[t] = before.lo + live
    BY <1>3, <1>5, <1>7, <1>9
  <2>3. \A a \in S : g[a] = f[a]
    <3>1. \A a \in S : a \in OldObjects /\ a # t
      BY <1>3, <2>1
    <3> QED
      BY <1>6, <1>9, <3>1
  <2>4. Packed(before, f, S, live)
    BY <1>3, <1>9 DEF Locating
  <2> QED
    BY <1>3, <1>5, <2>1, <2>2, <2>3, <2>4, PackedGrows
<1>11. Passed' = t + SizeOf(t)
  BY <1>1, <1>3 DEF Passed
<1>12. {a \in Survivors' : a < Passed'} = S \cup {t}
  <2>1. t \in Survivors
    BY <1>3, SurvivorsAreObjects
  <2>2. \A a \in Survivors : a < t + SizeOf(t) <=> a < t \/ a = t
    BY <1>3, SurvivorsAreObjects, OldFacts
  <2> QED
    BY <1>3, <1>4, <1>9, <1>11, <2>1, <2>2
<1>13. Locating'
  <2>1. live' <= Passed' - before.lo
    BY <1>3, <1>5, <1>11
  <2>2. [a \in OldObjects' |-> heap'[a].fwd] = g
    BY <1>4, <1>9
  <2>3. Packed(before', [a \in OldObjects' |-> heap'[a].fwd],
               {a \in Survivors' : a < Passed'}, live')
    BY <1>1, <1>3, <1>10, <1>12, <2>2
  <2> QED
    BY <1>1, <1>4, <1>5, <1>6, <1>8, <2>1, <2>3 DEF Locating
<1>14. CompactTypeOK'
  <2>1. MemoryOK'
    BY <1>1, <1>3, <1>5, <1>6, <1>8 DEF MemoryOK, hend
  <2>2. scan' \in DOMAIN heap' \cup {hcurrent'}
    BY <1>1, <1>3, <1>5, <1>6
  <2>3. live' \in 0 .. hsize
    BY <1>1, <1>3, <1>5 DEF MemoryOK, hend
  <2> QED
    BY <1>1, <2>1, <2>2, <2>3 DEF CompactIInv, CompactTypeOK
<1> QED
  BY <1>1, <1>4, <1>13, <1>14 DEF CompactIInv, Fixing

LEMMA LocateDeadStep == ASSUME CompactIInv, LocateDead PROVE CompactIInv'
<1>1. /\ pc = "locate" /\ ~Done /\ ~heap[scan].mark
      /\ scan' = NextObj(heap, scan)
      /\ UNCHANGED <<heap, hbegin, hsize, hcurrent, words, stackTop, extraRoots>>
      /\ UNCHANGED <<pc, live, extra, oldBegin, oldCurrent, additional, before>>
  BY DEF LocateDead, memory
<1>2. /\ MemoryOK /\ BeforeOK /\ InputOK /\ Locating
      /\ Passed = scan /\ scan \in OldObjects /\ scan \in Nat
      /\ before.lo \in Nat /\ live \in Nat /\ SizeOf(scan) \in Nat
      /\ scan' = scan + SizeOf(scan)
      /\ scan + SizeOf(scan) \in DOMAIN heap \cup {hcurrent}
      /\ ~Old(scan).mark
      /\ \A a \in OldObjects : a < scan + SizeOf(scan) <=> a <= scan
  BY <1>1, LocatingFacts
<1>3. /\ BeforeOK' /\ InputOK'
      /\ OldObjects' = OldObjects /\ Survivors' = Survivors
      /\ \A a : Old(a)' = Old(a)
  BY <1>1, <1>2, InputKept DEF BeforeOK
<1>4. Passed' = scan + SizeOf(scan)
  BY <1>1, <1>2 DEF Passed
<1>5. {a \in Survivors' : a < Passed'} = {a \in Survivors : a < Passed}
  <2>1. scan \notin Survivors
    BY <1>2, SurvivorsAreObjects
  <2>2. \A a \in Survivors : a < scan + SizeOf(scan) <=> a < scan
    BY <1>2, <2>1, SurvivorsAreObjects, OldFacts
  <2> QED
    BY <1>2, <1>3, <1>4, <2>2
<1>6. Locating'
  <2>1. live' <= Passed' - before.lo
    BY <1>1, <1>2, <1>4 DEF Locating
  <2> QED
    BY <1>1, <1>2, <1>3, <1>5, <2>1 DEF Locating
<1>7. CompactTypeOK'
  BY <1>1, <1>2 DEF CompactIInv, CompactTypeOK, MemoryOK, hend
<1> QED
  BY <1>1, <1>3, <1>6, <1>7 DEF CompactIInv, Fixing

LEMMA LocatedStep == ASSUME CompactIInv, Located PROVE CompactIInv'
<1>1. /\ pc = "locate" /\ Done /\ pc' = "remap"
      /\ UNCHANGED <<heap, hbegin, hsize, hcurrent, words, stackTop, extraRoots>>
      /\ UNCHANGED <<scan, live, extra, oldBegin, oldCurrent, additional, before>>
  BY DEF Located, memory, compactVars
<1>2. MemoryOK /\ BeforeOK /\ InputOK /\ Locating
  BY <1>1 DEF CompactIInv, CompactTypeOK
<1>3. /\ BeforeOK' /\ InputOK'
      /\ OldObjects' = OldObjects /\ Survivors' = Survivors
      /\ \A a : Old(a)' = Old(a)
  BY <1>1, <1>2, InputKept DEF BeforeOK
<1>4. Passed = hcurrent /\ Passed' = hcurrent
  <2>1. \A a \in DOMAIN heap : a < hcurrent
    <3>1. DOMAIN heap = OldObjects /\ hcurrent = before.hi
          /\ before.hi \in Nat
      BY <1>2 DEF Locating, BeforeOK
    <3>2. ASSUME NEW a \in OldObjects PROVE a < before.hi
      <4>1. /\ a \in Nat /\ SizeOf(a) \in Nat /\ 0 < SizeOf(a)
            /\ a + SizeOf(a) <= before.hi
        BY <1>2, OldFacts
      <4> QED
        BY <3>1, <4>1
    <3> QED
      BY <3>1, <3>2
  <2>2. scan = hcurrent
    BY <1>1, <1>2, <2>1 DEF CompactIInv, CompactTypeOK, Done, MemoryOK
  <2> QED
    BY <1>1, <2>2 DEF Passed
<1>5. Locating'
  BY <1>1, <1>2, <1>3, <1>4 DEF Locating
<1>6. CompactTypeOK'
  BY <1>1, <1>2 DEF CompactIInv, CompactTypeOK, MemoryOK, hend, CompactPC
<1> QED
  BY <1>1, <1>3, <1>5, <1>6 DEF CompactIInv, Fixing
-----------------------------------------------------------------------------
(* The carried heap has the shape the heap had.                            *)
LEMMA CarriedFacts ==
  ASSUME BeforeOK, hbegin \in Nat, NEW a \in OldObjects
  PROVE  /\ Carried(a) \in Nat /\ hbegin <= Carried(a)
         /\ Carried(a) = hbegin + (a - before.lo)
         /\ Carried(before.hi) = hbegin + (before.hi - before.lo)
         /\ Carried(before.hi) \in Nat
         /\ Carried(a) + SizeOf(a) <= Carried(before.hi)
         /\ Carried(a) + SizeOf(a) \in ObjectStarts \cup {Carried(before.hi)}
         /\ \A c \in OldObjects :
              /\ Carried(c) <= Carried(a) <=> c <= a
              /\ Carried(c) < Carried(a) + SizeOf(a) <=> c <= a
<1>1. /\ before.lo \in Nat /\ before.hi \in Nat /\ oldBegin = before.lo
      /\ before.lo <= before.hi
  BY DEF BeforeOK, Contiguous
<1>2. \A c : Carried(c) = hbegin + (c - before.lo)
  BY <1>1 DEF Carried
<1>3. \A c \in OldObjects : c \in Nat
  BY DEF BeforeOK
<1>4. /\ a \in Nat /\ SizeOf(a) \in Nat /\ 0 < SizeOf(a)
      /\ before.lo <= a /\ a + SizeOf(a) <= before.hi
      /\ a + SizeOf(a) \in OldObjects \cup {before.hi}
      /\ \A c \in OldObjects : a < c => a + SizeOf(a) <= c
  BY OldFacts
<1>5. Carried(a) + SizeOf(a) = Carried(a + SizeOf(a))
  BY <1>1, <1>2, <1>4
<1>6. Carried(a) + SizeOf(a) \in ObjectStarts \cup {Carried(before.hi)}
  BY <1>4, <1>5 DEF ObjectStarts
<1>7. ASSUME NEW c \in OldObjects
      PROVE  /\ Carried(c) <= Carried(a) <=> c <= a
             /\ Carried(c) < Carried(a) + SizeOf(a) <=> c <= a
  <2>1. c \in Nat /\ (a < c => a + SizeOf(a) <= c)
    BY <1>3, <1>4
  <2> QED
    BY <1>1, <1>2, <1>4, <2>1
<1> QED
  BY <1>1, <1>2, <1>4, <1>6, <1>7

LEMMA NextHeapSizeFacts ==
  ASSUME live \in Nat, additional \in Nat, hsize \in Nat
  PROVE  /\ NextHeapPseudoSize \in Nat
         /\ hsize <= NextHeapPseudoSize
         /\ live + additional <= NextHeapPseudoSize
<1>1. live * ExtraRoomCoefficient \in Nat /\ live <= live * ExtraRoomCoefficient
  <2>1. PICK c \in Nat : c + 1 = ExtraRoomCoefficient
    <3>1. ExtraRoomCoefficient - 1 \in Nat
          /\ (ExtraRoomCoefficient - 1) + 1 = ExtraRoomCoefficient
      BY CapacityAssumption
    <3> QED
      BY <3>1
  <2>2. live * (c + 1) = live * c + live /\ live * c \in Nat
    BY <2>1
  <2> QED
    BY <2>1, <2>2
<1>2. NextHeapSize \in Nat /\ live + additional <= NextHeapSize
  BY <1>1, CapacityAssumption DEF NextHeapSize, Larger
<1> QED
  BY <1>2 DEF NextHeapPseudoSize, Larger

LEMMA RemapStep == ASSUME CompactIInv, Remap PROVE CompactIInv'
<1>1. /\ pc = "remap" /\ pc' = "fixFields"
      /\ hsize' = NextHeapPseudoSize
      /\ hbegin' \in Placements(hsize')
      /\ hcurrent' = hbegin' + (hcurrent - hbegin)
      /\ heap' = [a \in {b + (hbegin' - hbegin) : b \in DOMAIN heap} |->
                    heap[a - (hbegin' - hbegin)]]
      /\ oldBegin' = hbegin /\ oldCurrent' = hcurrent
      /\ scan' = hbegin'
      /\ UNCHANGED <<words, stackTop, extraRoots, live, extra, additional, before>>
  BY DEF Remap
<1>2. MemoryOK /\ BeforeOK /\ InputOK /\ Locating /\ live \in Nat /\ additional \in Nat
  BY <1>1 DEF CompactIInv, CompactTypeOK
<1>3. /\ hbegin = before.lo /\ hcurrent = before.hi /\ words = before.words
      /\ DOMAIN heap = OldObjects /\ Passed = before.hi
      /\ before.lo \in Nat /\ before.hi \in Nat /\ before.lo <= before.hi
      /\ live <= before.hi - before.lo
  BY <1>1, <1>2 DEF Locating, Passed, BeforeOK, Contiguous
<1>4. \A a \in OldObjects :
        /\ heap[a] \in Object
        /\ heap[a].id = Old(a).id /\ heap[a].kind = Old(a).kind
        /\ heap[a].body = Old(a).body
        /\ (heap[a].mark <=> Old(a).mark) /\ ~heap[a].enq
  BY <1>2, <1>3 DEF Locating, MemoryOK
<1>5. /\ BeforeOK' /\ InputOK'
      /\ OldObjects' = OldObjects /\ Survivors' = Survivors
      /\ Locations' = Locations
      /\ \A a : Old(a)' = Old(a) /\ SizeOf(a)' = SizeOf(a)
  BY <1>1, <1>2, <1>3, InputKept
<1>6. /\ hsize' \in Nat /\ hsize <= hsize' /\ live + additional <= hsize'
  BY <1>1, <1>2, NextHeapSizeFacts DEF MemoryOK
<1>7. hbegin' \in Nat /\ (hbegin' = before.lo \/ hbegin' \in RemapBases)
  BY <1>1, <1>2, <1>3, CapacityAssumption DEF Placements
<1>8. PICK f : f = [a \in Survivors |-> heap[a].fwd]
  OBVIOUS
<1>9. Packed(before, f, Survivors, live)
  <2>1. {a \in Survivors : a < Passed} = Survivors
    <3>1. ASSUME NEW a \in Survivors PROVE a < Passed
      <4>1. a \in OldObjects
        BY SurvivorsAreObjects
      <4>2. /\ a \in Nat /\ SizeOf(a) \in Nat /\ 0 < SizeOf(a)
            /\ a + SizeOf(a) <= before.hi
        BY <1>2, <4>1, OldFacts
      <4> QED
        BY <1>3, <4>2
    <3> QED
      BY <3>1
  <2>2. PICK g : g = [a \in OldObjects |-> heap[a].fwd]
    OBVIOUS
  <2>3. Packed(before, g, Survivors, live)
    BY <1>2, <2>1, <2>2 DEF Locating
  <2>4. \A a \in Survivors : f[a] = g[a]
    BY <1>8, <2>2, SurvivorsAreObjects
  <2> QED
    BY <2>3, <2>4 DEF Packed
<1>10. f \in Locations
  <2>1. ASSUME NEW a \in Survivors PROVE f[a] \in before.lo .. before.hi
    <3>1. /\ a \in Nat /\ SizeOf(a) \in Nat /\ a + SizeOf(a) <= before.hi
      BY <1>2, OldFacts, SurvivorsAreObjects
    <3>2. f[a] \in Int /\ before.lo <= f[a] /\ f[a] <= a
      BY <1>9 DEF Packed
    <3> QED
      BY <1>3, <3>1, <3>2
  <2> QED
    BY <1>8, <2>1 DEF Locations
<1>11. ASSUME NEW a \in OldObjects
       PROVE  /\ Carried(a)' \in DOMAIN heap' /\ heap'[Carried(a)'] = heap[a]
              /\ Carried(a)' \in Nat /\ hbegin' <= Carried(a)'
  <2>1. Carried(a)' = a + (hbegin' - hbegin)
    BY <1>1, <1>2, <1>3, <1>7 DEF Carried, BeforeOK
  <2>2. a \in Nat /\ before.lo <= a
    BY <1>2, OldFacts
  <2>3. Carried(a)' - (hbegin' - hbegin) = a
    BY <1>3, <1>7, <2>1, <2>2
  <2> QED
    BY <1>1, <1>3, <1>7, <2>1, <2>2, <2>3
<1>12. DOMAIN heap' = ObjectStarts'
  <2>1. \A a \in OldObjects : Carried(a)' = a + (hbegin' - hbegin)
    BY <1>1, <1>2, <1>3, <1>7 DEF Carried, BeforeOK
  <2> QED
    BY <1>1, <1>3, <1>5, <2>1 DEF ObjectStarts
<1>13. hcurrent' = Carried(before.hi)'
  BY <1>1, <1>3, <1>7 DEF Carried
<1>14. HeapCarried(f)'
  <2>1. ASSUME NEW a \in OldObjects PROVE InPlace(f, a)'
    <3>1. Old(a).mark => heap[a].fwd = f[a]
      BY <1>8, SurvivorsAreObjects
    <3> QED
      BY <1>1, <1>4, <1>5, <1>11, <3>1 DEF InPlace
  <2> QED
    BY <1>1, <1>5, <1>12, <1>13, <2>1 DEF HeapCarried
<1>15. Correcting(f)'
  <2>1. Placed(f)'
    BY <1>1, <1>3, <1>5, <1>6, <1>7, <1>9 DEF Placed
  <2>2. WordsFixed(f)'
    BY <1>1, <1>3 DEF WordsFixed, FixedSlots
  <2>3. scan' \in ObjectStarts' \cup {hcurrent'}
    <3>1. before.lo = before.hi \/ before.lo \in OldObjects
      BY <1>2 DEF BeforeOK, Contiguous, OldObjects
    <3>2. Carried(before.lo)' = hbegin'
      BY <1>1, <1>3, <1>7 DEF Carried
    <3> QED
      BY <1>1, <1>5, <1>13, <3>1, <3>2 DEF ObjectStarts
  <2> QED
    BY <1>1, <1>14, <2>1, <2>2, <2>3 DEF Correcting
<1>16. CompactTypeOK'
  <2>1. hcurrent' \in hbegin' .. (hbegin' + hsize')
    <3>1. /\ hbegin \in Nat /\ hcurrent \in Nat /\ hsize \in Nat
          /\ hbegin <= hcurrent /\ hcurrent <= hbegin + hsize
      BY <1>2 DEF MemoryOK, hend
    <3>2. PICK d \in Nat : d = hcurrent - hbegin
      BY <3>1
    <3>3. hcurrent' = hbegin' + d /\ d <= hsize'
      BY <1>1, <1>6, <3>1, <3>2
    <3> QED
      BY <1>6, <1>7, <3>2, <3>3
  <2>2. \A x \in DOMAIN heap' : x \in Nat /\ heap'[x] \in Object
    BY <1>4, <1>5, <1>11, <1>12 DEF ObjectStarts
  <2>3. MemoryOK'
    BY <1>1, <1>2, <1>6, <1>7, <2>1, <2>2 DEF MemoryOK, hend
  <2>4. scan' \in DOMAIN heap' \cup {hcurrent'}
    BY <1>1, <1>12, <1>15 DEF Correcting
  <2>5. live' \in 0 .. hsize'
    BY <1>1, <1>2, <1>6
  <2> QED
    BY <1>1, <2>3, <2>4, <2>5 DEF CompactIInv, CompactTypeOK, CompactPC
<1> QED
  BY <1>1, <1>5, <1>10, <1>15, <1>16 DEF CompactIInv, Fixing

LEMMA RemapFailsStep == ASSUME CompactIInv, RemapFails PROVE CompactIInv'
<1>1. /\ pc = "remap" /\ pc' = "failed"
      /\ UNCHANGED <<heap, hbegin, hsize, hcurrent, words, stackTop, extraRoots>>
      /\ UNCHANGED <<scan, live, extra, oldBegin, oldCurrent, additional, before>>
  BY DEF RemapFails, memory, compactVars
<1>2. BeforeOK' /\ InputOK'
  BY <1>1, InputKept DEF CompactIInv, BeforeOK
<1>3. CompactTypeOK'
  BY <1>1 DEF CompactIInv, CompactTypeOK, MemoryOK, hend, CompactPC
<1> QED
  BY <1>1, <1>2, <1>3 DEF CompactIInv, Fixing
-----------------------------------------------------------------------------
(* update_references.                                                      *)
LEMMA PlacedFacts ==
  ASSUME NEW f, BeforeOK, Packed(before, f, Survivors, live),
         hbegin \in Nat, live \in Nat, NEW a \in Survivors
  PROVE  /\ f[a] \in Int /\ before.lo <= f[a] /\ f[a] <= a
         /\ f[a] + SizeOf(a) <= before.lo + live
         /\ Target(f, a) \in Nat /\ hbegin <= Target(f, a)
         /\ Target(f, a) = hbegin + (f[a] - before.lo)
         /\ Target(f, a) = Carried(f[a])
         /\ Target(f, a) <= Carried(a)
         /\ Target(f, a) + SizeOf(a) <= hbegin + live
<1>1. /\ a \in OldObjects /\ a \in Nat /\ SizeOf(a) \in Nat
      /\ before.lo \in Nat /\ oldBegin = before.lo
  BY OldFacts, SurvivorsAreObjects DEF BeforeOK
<1>2. /\ f[a] \in Int /\ before.lo <= f[a] /\ f[a] <= a
      /\ f[a] + SizeOf(a) <= before.lo + live
  BY DEF Packed, SizeOf, Old
<1>3. Target(f, a) = hbegin + (f[a] - before.lo) /\ Target(f, a) = Carried(f[a])
      /\ Carried(a) = hbegin + (a - before.lo)
  BY <1>1 DEF Target, Carried
<1> QED
  BY <1>1, <1>2, <1>3

(* A word that is fixed while the objects are all where they were becomes  *)
(* what it has to be.                                                      *)
LEMMA FixedIsCorrected ==
  ASSUME NEW f, BeforeOK, Placed(f), hbegin \in Nat, live \in Nat,
         \A a \in Survivors : heap[Carried(a)].fwd = f[a],
         NEW w \in Int, Follows(w)
  PROVE  Fixed(w) = Corrected(f, w) /\ Corrected(f, w) \in Int
<1>1. HeaderWords \in Nat /\ before.lo \in Nat
      /\ oldBegin = before.lo /\ oldCurrent = before.hi
  BY HeaderWordsAssumption DEF BeforeOK
<1>2. CASE ~OldPointer(w)
  BY <1>1, <1>2 DEF Fixed, Corrected, OldPointer
<1>3. CASE OldPointer(w)
  <2>1. PICK a : a = ToData(w)
    OBVIOUS
  <2>2. a \in Survivors
    BY <1>3, <2>1 DEF Follows
  <2>3. ToData(Carried(w)) = Carried(a)
    BY <1>1, <2>1 DEF ToData, Carried
  <2>4. Forwarded(Carried(a)) = Target(f, a) /\ Target(f, a) \in Nat
    BY <2>2, PlacedFacts DEF Forwarded, Placed
  <2>5. Corrected(f, w) = Content(Target(f, a))
    BY <1>3, <2>1 DEF Corrected
  <2>6. Fixed(w) = Content(Forwarded(Carried(a)))
    BY <1>1, <1>3, <2>3 DEF Fixed, OldPointer
  <2> QED
    BY <1>1, <2>4, <2>5, <2>6 DEF Content
<1> QED
  BY <1>2, <1>3

LEMMA BodyIsCorrected ==
  ASSUME NEW f, BeforeOK, InputOK, Placed(f), hbegin \in Nat, live \in Nat,
         \A a \in Survivors : heap[Carried(a)].fwd = f[a],
         NEW t \in Survivors, NEW o \in Object,
         o.kind = Old(t).kind, o.body = Old(t).body
  PROVE  /\ CorrectedBody(f, t) \in Seq(Int)
         /\ Len(CorrectedBody(f, t)) = Len(Old(t).body)
         /\ [i \in 1 .. Len(o.body) |->
               IF i \in PtrFields(o) THEN Fixed(o.body[i]) ELSE o.body[i]]
              = CorrectedBody(f, t)
<1>1. /\ Old(t).body \in Seq(Int) /\ Len(Old(t).body) \in Nat
  BY OldFacts, SurvivorsAreObjects
<1>2. PtrFields(o) = PtrFields(Old(t))
  BY DEF PtrFields, FirstField
<1>3. PtrFields(Old(t)) \subseteq 1 .. Len(Old(t).body)
  <2>1. FirstField(Old(t)) \in Int /\ 1 <= FirstField(Old(t))
    BY <1>1 DEF FirstField
  <2> QED
    BY <1>1, <2>1 DEF PtrFields
<1>4. ASSUME NEW i \in PtrFields(Old(t))
      PROVE  /\ Fixed(Old(t).body[i]) = Corrected(f, Old(t).body[i])
             /\ Corrected(f, Old(t).body[i]) \in Int
  <2>1. Old(t).body[i] \in Int
    BY <1>1, <1>3
  <2>2. Follows(Old(t).body[i])
    BY DEF InputOK
  <2> QED
    BY <2>1, <2>2, FixedIsCorrected
<1>5. CorrectedBody(f, t) \in Seq(Int)
      /\ Len(CorrectedBody(f, t)) = Len(Old(t).body)
  <2>1. PICK n \in Nat : n = Len(Old(t).body)
    BY <1>1
  <2>2. PICK c : c = CorrectedBody(f, t)
    OBVIOUS
  <2>3. DOMAIN c = 1 .. n /\ \A i \in 1 .. n : c[i] \in Int
    BY <1>1, <1>4, <2>1, <2>2 DEF CorrectedBody
  <2>4. c = [i \in 1 .. n |-> c[i]]
    BY <2>1, <2>2, <2>3 DEF CorrectedBody
  <2>5. c \in Seq(Int) /\ Len(c) = n
    BY <2>3, <2>4
  <2> QED
    BY <2>1, <2>2, <2>5
<1> QED
  BY <1>2, <1>4, <1>5 DEF CorrectedBody
-----------------------------------------------------------------------------
(* What every step after remap leaves as it is.                            *)
LEMMA TargetsKept ==
  ASSUME BeforeOK, InputOK,
         UNCHANGED <<hbegin, oldBegin, oldCurrent, before, stackTop, extraRoots>>
  PROVE  /\ BeforeOK' /\ InputOK'
         /\ OldObjects' = OldObjects /\ Survivors' = Survivors
         /\ Locations' = Locations /\ ObjectStarts' = ObjectStarts
         /\ \A a : Old(a)' = Old(a) /\ SizeOf(a)' = SizeOf(a)
         /\ \A a : Carried(a)' = Carried(a)
         /\ \A f, a : /\ Target(f, a)' = Target(f, a)
                      /\ CorrectedBody(f, a)' = CorrectedBody(f, a)
         /\ \A f, w : Corrected(f, w)' = Corrected(f, w)
<1>1. /\ BeforeOK' /\ InputOK'
      /\ OldObjects' = OldObjects /\ Survivors' = Survivors
      /\ Locations' = Locations
      /\ \A a : Old(a)' = Old(a) /\ SizeOf(a)' = SizeOf(a)
      /\ \A w : OldPointer(w)' = OldPointer(w)
  BY InputKept DEF BeforeOK
<1>2. /\ \A a : Carried(a)' = Carried(a)
      /\ \A f, a : Target(f, a)' = Target(f, a)
  BY DEF Carried, Target
<1>3. ObjectStarts' = ObjectStarts
  BY <1>1, <1>2 DEF ObjectStarts
<1>4. ASSUME NEW f, NEW w PROVE Corrected(f, w)' = Corrected(f, w)
  BY <1>1, <1>2 DEF Corrected
<1>5. ASSUME NEW f, NEW a PROVE CorrectedBody(f, a)' = CorrectedBody(f, a)
  <2>1. Old(a)' = Old(a)
    BY <1>1
  <2>2. PtrFields(Old(a))' = PtrFields(Old(a))
    BY <2>1 DEF PtrFields, FirstField
  <2> QED
    BY <1>4, <2>1, <2>2 DEF CorrectedBody
<1> QED
  BY <1>1, <1>2, <1>3, <1>4, <1>5

LEMMA AfterRemap ==
  ASSUME CompactIInv, pc \in Fixing \cup {"relocate"}
  PROVE  /\ CompactTypeOK /\ MemoryOK /\ BeforeOK /\ InputOK
         /\ hbegin \in Nat /\ live \in Nat
         /\ \E f \in Locations : Correcting(f)
BY DEF CompactIInv, CompactTypeOK, MemoryOK

(* The object at the iterator of a loop after remap, and the next one.     *)
LEMMA ScanFacts ==
  ASSUME CompactIInv, NEW f, Correcting(f), pc \in {"fixFields", "relocate"},
         ~Done
  PROVE  \E t \in OldObjects :
           /\ scan = Carried(t) /\ scan \in Nat /\ InPlace(f, t)
           /\ scan \in DOMAIN heap /\ heap[scan] \in Object
           /\ (heap[scan].mark <=> Old(t).mark)
           /\ ObjSize(heap[scan]) = SizeOf(t)
           /\ NextObj(heap, scan) = scan + SizeOf(t)
           /\ scan + SizeOf(t) \in ObjectStarts \cup {hcurrent}
           /\ \A c \in OldObjects :
                /\ scan <= Carried(c) <=> t <= c
                /\ scan + SizeOf(t) <= Carried(c) <=> t < c
<1>1. MemoryOK /\ BeforeOK /\ hbegin \in Nat
  BY AfterRemap DEF Fixing
<1>2. hcurrent = Carried(before.hi) /\ scan \in ObjectStarts \cup {hcurrent}
      /\ \A a \in OldObjects : scan <= Carried(a) => InPlace(f, a)
  BY DEF Correcting, Fixing, HeapCarried, HeapSliding
<1>3. hcurrent \in Int
  BY <1>1 DEF MemoryOK
<1>4. PICK t \in OldObjects : scan = Carried(t)
  BY <1>2, <1>3 DEF ObjectStarts, Done
<1>5. scan \in Nat /\ t \in Nat /\ SizeOf(t) \in Nat
      /\ scan + SizeOf(t) \in ObjectStarts \cup {hcurrent}
  BY <1>1, <1>2, <1>4, CarriedFacts, OldFacts
<1>6. InPlace(f, t)
  BY <1>2, <1>4, <1>5
<1>7. scan \in DOMAIN heap /\ heap[scan] \in Object
      /\ (heap[scan].mark <=> Old(t).mark)
      /\ Len(heap[scan].body) = Len(Old(t).body)
  BY <1>1, <1>4, <1>6 DEF InPlace, MemoryOK
<1>8. ObjSize(heap[scan]) = SizeOf(t)
  BY <1>7 DEF ObjSize, SizeOf
<1>9. ASSUME NEW c \in OldObjects
      PROVE  /\ scan <= Carried(c) <=> t <= c
             /\ scan + SizeOf(t) <= Carried(c) <=> t < c
  <2>1. c \in Nat /\ Carried(c) \in Nat
    BY <1>1, CarriedFacts, OldFacts
  <2>2. /\ Carried(t) <= Carried(c) <=> t <= c
        /\ Carried(c) < Carried(t) + SizeOf(t) <=> c <= t
    BY <1>1, CarriedFacts
  <2> QED
    BY <1>4, <1>5, <2>1, <2>2
<1> QED
  BY <1>4, <1>5, <1>6, <1>7, <1>8, <1>9 DEF NextObj

LEMMA FixLiveFieldsStep == ASSUME CompactIInv, FixLiveFields PROVE CompactIInv'
<1>1. /\ pc = "fixFields" /\ ~Done /\ heap[scan].mark
      /\ scan' = NextObj(heap, scan)
      /\ UNCHANGED <<hbegin, hsize, hcurrent, words, stackTop, extraRoots,
                     pc, live, extra, oldBegin, oldCurrent, additional, before>>
  BY DEF FixLiveFields
<1>2. PICK s, o : s = scan /\ o = heap[scan]
  OBVIOUS
<1>3. PICK b : b = [i \in 1 .. Len(o.body) |->
                      IF i \in PtrFields(o) THEN Fixed(o.body[i]) ELSE o.body[i]]
  OBVIOUS
<1>4. heap' = [heap EXCEPT ![s].body = b]
  BY <1>2, <1>3 DEF FixLiveFields
<1>5. /\ CompactTypeOK /\ MemoryOK /\ BeforeOK /\ InputOK
      /\ hbegin \in Nat /\ live \in Nat
  BY <1>1, AfterRemap DEF Fixing
<1>6. PICK f \in Locations : Correcting(f)
  BY <1>1, AfterRemap DEF Fixing
<1>7. PICK t \in OldObjects :
        /\ s = Carried(t) /\ InPlace(f, t)
        /\ s \in DOMAIN heap /\ o \in Object
        /\ Old(t).mark /\ o.mark
        /\ scan' = s + SizeOf(t)
        /\ s + SizeOf(t) \in ObjectStarts \cup {hcurrent}
        /\ \A c \in OldObjects :
             /\ s <= Carried(c) <=> t <= c
             /\ s + SizeOf(t) <= Carried(c) <=> t < c
  BY <1>1, <1>2, <1>5, <1>6, ScanFacts
<1>8. /\ BeforeOK' /\ InputOK'
      /\ OldObjects' = OldObjects /\ Survivors' = Survivors
      /\ Locations' = Locations /\ ObjectStarts' = ObjectStarts
      /\ \A a : Old(a)' = Old(a) /\ SizeOf(a)' = SizeOf(a)
      /\ \A a : Carried(a)' = Carried(a)
      /\ \A g, a : CorrectedBody(g, a)' = CorrectedBody(g, a)
      /\ \A g, w : Corrected(g, w)' = Corrected(g, w)
  BY <1>1, <1>5, TargetsKept
<1>9. /\ HeapCarried(f) /\ Placed(f) /\ WordsFixed(f)
  BY <1>1, <1>6 DEF Correcting, Fixing
<1>10. /\ o.id = Old(t).id /\ o.kind = Old(t).kind /\ o.body = Old(t).body
       /\ o.fwd = f[t] /\ ~o.enq
  <2>1. scan <= Carried(t) /\ t \in Survivors
    BY <1>2, <1>5, <1>7, CarriedFacts, SurvivorsAreObjects
  <2> QED
    BY <1>1, <1>2, <1>7, <2>1 DEF InPlace
<1>11. b \in Seq(Int) /\ Len(b) = Len(Old(t).body) /\ b = CorrectedBody(f, t)
  <2>1. t \in Survivors
    BY <1>7, SurvivorsAreObjects
  <2>2. \A a \in Survivors : heap[Carried(a)].fwd = f[a]
    BY <1>9, SurvivorsAreObjects DEF HeapCarried, InPlace
  <2> QED
    BY <1>3, <1>5, <1>7, <1>9, <1>10, <2>1, <2>2, BodyIsCorrected
<1>12. /\ DOMAIN heap' = DOMAIN heap
       /\ \A x \in DOMAIN heap : x # s => heap'[x] = heap[x]
       /\ heap'[s] = [o EXCEPT !.body = b]
  BY <1>2, <1>4, <1>7
<1>13. /\ heap'[s] \in Object /\ heap'[s].body = b
       /\ heap'[s].id = o.id /\ heap'[s].kind = o.kind /\ heap'[s].fwd = o.fwd
       /\ (heap'[s].mark <=> o.mark) /\ (heap'[s].enq <=> o.enq)
  BY <1>7, <1>11, <1>12 DEF Object
<1>14. ASSUME NEW c \in OldObjects PROVE InPlace(f, c)'
  <2>1. c \in Nat /\ t \in Nat
    BY <1>5, OldFacts
  <2>2. CASE c = t
    <3>1. ~(scan' <= Carried(c))
      BY <1>7, <2>1, <2>2
    <3> QED
      BY <1>1, <1>7, <1>8, <1>10, <1>11, <1>12, <1>13, <2>2, <3>1 DEF InPlace
  <2>3. CASE c # t
    <3>1. InPlace(f, c)
      BY <1>9 DEF HeapCarried
    <3>2. scan' <= Carried(c) <=> scan <= Carried(c)
      BY <1>2, <1>7, <2>1, <2>3
    <3>3. Carried(c) # s
      <4>1. ~(Carried(c) <= Carried(t) /\ Carried(t) <= Carried(c))
        BY <1>5, <2>1, <2>3, CarriedFacts
      <4>2. Carried(c) \in Nat /\ Carried(t) \in Nat
        BY <1>5, CarriedFacts
      <4> QED
        BY <1>7, <4>1, <4>2
    <3>4. Carried(c) \in DOMAIN heap /\ heap'[Carried(c)] = heap[Carried(c)]
      BY <1>12, <3>1, <3>3 DEF InPlace
    <3> QED
      BY <1>1, <1>8, <1>12, <3>1, <3>2, <3>4 DEF InPlace
  <2> QED
    BY <2>2, <2>3
<1>15. Correcting(f)'
  <2>1. HeapCarried(f)'
    <3>1. hcurrent' = Carried(before.hi)'
      BY <1>1, <1>9 DEF HeapCarried, Carried
    <3> QED
      BY <1>8, <1>9, <1>12, <1>14, <3>1 DEF HeapCarried
  <2>2. Placed(f)'
    BY <1>1, <1>8, <1>9 DEF Placed
  <2>3. WordsFixed(f)'
    BY <1>1, <1>9 DEF WordsFixed, FixedSlots
  <2>4. scan' \in ObjectStarts' \cup {hcurrent'}
    BY <1>1, <1>7, <1>8
  <2> QED
    BY <1>1, <2>1, <2>2, <2>3, <2>4 DEF Correcting
<1>16. CompactTypeOK'
  <2>1. MemoryOK'
    BY <1>1, <1>5, <1>12, <1>13 DEF MemoryOK, hend
  <2>2. scan' \in DOMAIN heap' \cup {hcurrent'}
    BY <1>1, <1>7, <1>9, <1>12 DEF HeapCarried
  <2> QED
    BY <1>1, <1>5, <2>1, <2>2 DEF CompactTypeOK
<1> QED
  BY <1>1, <1>6, <1>8, <1>15, <1>16 DEF CompactIInv

LEMMA FixDeadFieldsStep == ASSUME CompactIInv, FixDeadFields PROVE CompactIInv'
<1>1. /\ pc = "fixFields" /\ ~Done /\ ~heap[scan].mark
      /\ scan' = NextObj(heap, scan)
      /\ UNCHANGED <<heap, hbegin, hsize, hcurrent, words, stackTop, extraRoots>>
      /\ UNCHANGED <<pc, live, extra, oldBegin, oldCurrent, additional, before>>
  BY DEF FixDeadFields, memory
<1>2. /\ CompactTypeOK /\ MemoryOK /\ BeforeOK /\ InputOK /\ hbegin \in Nat
  BY <1>1, AfterRemap DEF Fixing
<1>3. PICK f \in Locations : Correcting(f)
  BY <1>1, AfterRemap DEF Fixing
<1>4. PICK t \in OldObjects :
        /\ ~Old(t).mark
        /\ scan' = scan + SizeOf(t)
        /\ scan + SizeOf(t) \in ObjectStarts \cup {hcurrent}
        /\ \A c \in OldObjects :
             /\ scan <= Carried(c) <=> t <= c
             /\ scan + SizeOf(t) <= Carried(c) <=> t < c
  BY <1>1, <1>2, <1>3, ScanFacts
<1>5. /\ BeforeOK' /\ InputOK'
      /\ OldObjects' = OldObjects /\ Survivors' = Survivors
      /\ Locations' = Locations /\ ObjectStarts' = ObjectStarts
      /\ \A a : Old(a)' = Old(a) /\ SizeOf(a)' = SizeOf(a)
      /\ \A a : Carried(a)' = Carried(a)
      /\ \A g, a : CorrectedBody(g, a)' = CorrectedBody(g, a)
      /\ \A g, w : Corrected(g, w)' = Corrected(g, w)
  BY <1>1, <1>2, TargetsKept
<1>6. /\ HeapCarried(f) /\ Placed(f) /\ WordsFixed(f)
  BY <1>1, <1>3 DEF Correcting, Fixing
<1>7. ASSUME NEW c \in OldObjects PROVE InPlace(f, c)'
  <2>1. InPlace(f, c)
    BY <1>6 DEF HeapCarried
  <2>2. CASE c = t
    BY <1>1, <1>4, <1>5, <2>1, <2>2 DEF InPlace
  <2>3. CASE c # t
    <3>1. c \in Nat /\ t \in Nat
      BY <1>2, OldFacts
    <3>2. scan' <= Carried(c) <=> scan <= Carried(c)
      BY <1>4, <2>3, <3>1
    <3> QED
      BY <1>1, <1>5, <2>1, <3>2 DEF InPlace
  <2> QED
    BY <2>2, <2>3
<1>8. Correcting(f)'
  <2>1. HeapCarried(f)'
    <3>1. hcurrent' = Carried(before.hi)'
      BY <1>1, <1>6 DEF HeapCarried, Carried
    <3> QED
      BY <1>1, <1>5, <1>6, <1>7, <3>1 DEF HeapCarried
  <2>2. Placed(f)'
    BY <1>1, <1>5, <1>6 DEF Placed
  <2>3. WordsFixed(f)'
    BY <1>1, <1>6 DEF WordsFixed, FixedSlots
  <2>4. scan' \in ObjectStarts' \cup {hcurrent'}
    BY <1>1, <1>4, <1>5
  <2> QED
    BY <1>1, <2>1, <2>2, <2>3, <2>4 DEF Correcting
<1>9. CompactTypeOK'
  BY <1>1, <1>2, <1>4, <1>6 DEF HeapCarried, CompactTypeOK, MemoryOK, hend
<1> QED
  BY <1>1, <1>3, <1>5, <1>8, <1>9 DEF CompactIInv

LEMMA FieldsFixedStep == ASSUME CompactIInv, FieldsFixed PROVE CompactIInv'
<1>1. /\ pc = "fixFields" /\ Done /\ pc' = "fixStack"
      /\ UNCHANGED <<heap, hbegin, hsize, hcurrent, words, stackTop, extraRoots>>
      /\ UNCHANGED <<scan, live, extra, oldBegin, oldCurrent, additional, before>>
  BY DEF FieldsFixed, memory, compactVars
<1>2. /\ CompactTypeOK /\ MemoryOK /\ BeforeOK /\ InputOK /\ hbegin \in Nat
  BY <1>1, AfterRemap DEF Fixing
<1>3. PICK f \in Locations : Correcting(f)
  BY <1>1, AfterRemap DEF Fixing
<1>4. /\ BeforeOK' /\ InputOK'
      /\ OldObjects' = OldObjects /\ Survivors' = Survivors
      /\ Locations' = Locations /\ ObjectStarts' = ObjectStarts
      /\ \A a : Old(a)' = Old(a) /\ SizeOf(a)' = SizeOf(a)
      /\ \A a : Carried(a)' = Carried(a)
      /\ \A g, a : CorrectedBody(g, a)' = CorrectedBody(g, a)
      /\ \A g, w : Corrected(g, w)' = Corrected(g, w)
  BY <1>1, <1>2, TargetsKept
<1>5. /\ HeapCarried(f) /\ Placed(f) /\ WordsFixed(f)
      /\ scan \in ObjectStarts \cup {hcurrent}
  BY <1>1, <1>3 DEF Correcting, Fixing
<1>6. ASSUME NEW c \in OldObjects PROVE InPlace(f, c)'
  <2>1. InPlace(f, c)
    BY <1>5 DEF HeapCarried
  <2>2. ~(scan <= Carried(c))
    <3>1. /\ Carried(c) \in Nat /\ SizeOf(c) \in Nat /\ 0 < SizeOf(c)
          /\ Carried(c) + SizeOf(c) <= hcurrent
      BY <1>2, <1>5, CarriedFacts, OldFacts DEF HeapCarried
    <3>2. hcurrent \in Nat /\ scan \in Int /\ hcurrent <= scan
      BY <1>1, <1>2, <1>5, CarriedFacts DEF MemoryOK, ObjectStarts, Done
    <3> QED
      BY <3>1, <3>2
  <2> QED
    BY <1>1, <1>4, <2>1, <2>2 DEF InPlace
<1>7. Correcting(f)'
  <2>1. HeapCarried(f)'
    <3>1. hcurrent' = Carried(before.hi)'
      BY <1>1, <1>5 DEF HeapCarried, Carried
    <3> QED
      BY <1>1, <1>4, <1>5, <1>6, <3>1 DEF HeapCarried
  <2>2. Placed(f)'
    BY <1>1, <1>4, <1>5 DEF Placed
  <2>3. WordsFixed(f)'
    BY <1>1, <1>5 DEF WordsFixed, FixedSlots
  <2> QED
    BY <1>1, <2>1, <2>2, <2>3 DEF Correcting
<1>8. CompactTypeOK'
  BY <1>1, <1>2 DEF CompactTypeOK, CompactPC, MemoryOK, hend
<1> QED
  BY <1>1, <1>3, <1>4, <1>7, <1>8 DEF CompactIInv, Fixing
-----------------------------------------------------------------------------
(* scan_and_fix_region and the extra roots.                                *)
LEMMA RootIsCorrected ==
  ASSUME NEW f, MemoryOK, BeforeOK, InputOK, Placed(f), HeapCarried(f),
         live \in Nat, pc # "fixFields",
         NEW s \in Rooted \cup {StackBottom}
  PROVE  /\ s \in Slot /\ before.words[s] \in Int
         /\ Fixed(before.words[s]) = Corrected(f, before.words[s])
         /\ Corrected(f, before.words[s]) \in Int
         /\ s = StackBottom => Corrected(f, before.words[s]) = before.words[s]
<1>1. s \in Slot
  BY RootedByRegion, LayoutAssumption DEF Slot
<1>2. before.words[s] \in Int
  BY <1>1 DEF BeforeOK
<1>3. CASE s \in Rooted /\ s # StackBottom
  <2>1. \A a \in Survivors : heap[Carried(a)].fwd = f[a]
    BY SurvivorsAreObjects DEF HeapCarried, InPlace
  <2>2. hbegin \in Nat
    BY DEF MemoryOK
  <2>3. Follows(before.words[s])
    BY <1>3 DEF InputOK
  <2> QED
    BY <1>1, <1>2, <1>3, <2>1, <2>2, <2>3, FixedIsCorrected
<1>4. CASE s = StackBottom
  <2>1. ~OldPointer(before.words[s])
    BY <1>4 DEF InputOK
  <2> QED
    BY <1>1, <1>2, <2>1 DEF Fixed, Corrected, OldPointer, BeforeOK
<1> QED
  BY <1>3, <1>4

(* What the steps from fixStack to fixGlobals leave alone.                 *)
Scanning == {"fixStack", "fixExtra", "fixGlobals"}

LEMMA HeapCarriedKept ==
  ASSUME CompactIInv, NEW f \in Locations, Correcting(f), pc \in Scanning,
         pc' # "fixFields",
         UNCHANGED <<heap, hbegin, hsize, hcurrent, stackTop, extraRoots,
                     live, oldBegin, oldCurrent, additional, before>>,
         words' \in [Slot -> Int], extra' \in 1 .. Len(extraRoots) + 1
  PROVE  /\ BeforeOK' /\ InputOK' /\ Placed(f)' /\ HeapCarried(f)'
         /\ MemoryOK' /\ f \in Locations'
         /\ \A w : Corrected(f, w)' = Corrected(f, w)
<1>1. /\ MemoryOK /\ BeforeOK /\ InputOK
  BY AfterRemap DEF Fixing, Scanning
<1>2. /\ BeforeOK' /\ InputOK'
      /\ OldObjects' = OldObjects /\ Survivors' = Survivors
      /\ Locations' = Locations /\ ObjectStarts' = ObjectStarts
      /\ \A a : Old(a)' = Old(a)
      /\ \A a : Carried(a)' = Carried(a)
      /\ \A g, a : CorrectedBody(g, a)' = CorrectedBody(g, a)
      /\ \A g, w : Corrected(g, w)' = Corrected(g, w)
  BY <1>1, TargetsKept
<1>3. /\ HeapCarried(f) /\ Placed(f)
  BY DEF Correcting, Fixing, Scanning
<1>4. ASSUME NEW c \in OldObjects PROVE InPlace(f, c)'
  <2>1. InPlace(f, c) /\ pc # "fixFields"
    BY <1>3 DEF HeapCarried, Scanning
  <2> QED
    BY <1>2, <2>1 DEF InPlace
<1>5. HeapCarried(f)'
  <2>1. hcurrent' = Carried(before.hi)'
    BY <1>3 DEF HeapCarried, Carried
  <2> QED
    BY <1>2, <1>3, <1>4, <2>1 DEF HeapCarried
<1>6. Placed(f)'
  BY <1>2, <1>3 DEF Placed
<1>7. MemoryOK'
  BY <1>1 DEF MemoryOK, hend
<1> QED
  BY <1>2, <1>5, <1>6, <1>7

LEMMA FixStackStep == ASSUME CompactIInv, FixStack PROVE CompactIInv'
<1>1. /\ pc = "fixStack" /\ pc' = "fixExtra" /\ extra' = 1
      /\ words' = [s \in Slot |->
                     IF stackTop + 1 <= s /\ s < StackBottom + 1
                     THEN Fixed(words[s]) ELSE words[s]]
      /\ UNCHANGED <<heap, hbegin, hsize, hcurrent, stackTop, extraRoots,
                     scan, live, oldBegin, oldCurrent, additional, before>>
  BY DEF FixStack, FixRegion
<1>2. /\ CompactTypeOK /\ MemoryOK /\ BeforeOK /\ InputOK /\ live \in Nat
  BY <1>1, AfterRemap DEF Fixing
<1>3. PICK f \in Locations : Correcting(f)
  BY <1>1, AfterRemap DEF Fixing
<1>4. /\ HeapCarried(f) /\ Placed(f) /\ WordsFixed(f)
  BY <1>1, <1>3 DEF Correcting, Fixing
<1>5. stackTop \in Nat /\ StackBottom \in Nat /\ Slot \subseteq Nat
      /\ Len(extraRoots) \in Nat
      /\ \A s \in Slot : s <= StackBottom
  BY <1>2, LayoutAssumption DEF MemoryOK, Slot
<1>6. ASSUME NEW s \in Slot
      PROVE  /\ words'[s] \in Int
             /\ words'[s] = IF stackTop < s THEN Corrected(f, before.words[s])
                                            ELSE before.words[s]
  <2>1. words[s] = before.words[s] /\ words[s] \in Int
    BY <1>1, <1>2, <1>4 DEF WordsFixed, FixedSlots, MemoryOK
  <2>2. CASE stackTop < s
    <3>1. s \in Rooted \cup {StackBottom}
      BY <1>2, <1>5, <2>2, RootedByRegion
    <3>2. words'[s] = Fixed(before.words[s])
      BY <1>1, <1>5, <2>1, <2>2
    <3> QED
      BY <1>1, <1>2, <1>4, <2>2, <3>1, <3>2, RootIsCorrected
  <2>3. CASE ~(stackTop < s)
    BY <1>1, <1>5, <2>1, <2>3
  <2> QED
    BY <2>2, <2>3
<1>7. words' \in [Slot -> Int]
  BY <1>1, <1>6
<1>8. /\ BeforeOK' /\ InputOK' /\ Placed(f)' /\ HeapCarried(f)'
      /\ MemoryOK' /\ f \in Locations'
      /\ \A w : Corrected(f, w)' = Corrected(f, w)
  BY <1>1, <1>2, <1>3, <1>5, <1>7, HeapCarriedKept DEF Scanning
<1>9. WordsFixed(f)'
  <2>1. FixedSlots' = {s \in Slot : stackTop < s}
    <3>1. ExtraFixed' = {}
      BY <1>1 DEF ExtraFixed
    <3> QED
      BY <1>1, <3>1 DEF FixedSlots, StackRegion
  <2> QED
    BY <1>1, <1>6, <1>8, <2>1 DEF WordsFixed
<1>10. CompactTypeOK'
  BY <1>1, <1>2, <1>5, <1>8 DEF CompactTypeOK, CompactPC
<1> QED
  BY <1>1, <1>8, <1>9, <1>10 DEF CompactIInv, Correcting, Fixing

LEMMA FixExtraRootStep == ASSUME CompactIInv, FixExtraRoot PROVE CompactIInv'
<1>1. PICK r : r = extraRoots[extra]
  OBVIOUS
<1>2. /\ pc = "fixExtra" /\ extra <= Len(extraRoots) /\ ~OfRegion(r)
      /\ words' = [words EXCEPT ![r] = Fixed(words[r])]
      /\ extra' = extra + 1
      /\ UNCHANGED <<heap, hbegin, hsize, hcurrent, stackTop, extraRoots,
                     pc, scan, live, oldBegin, oldCurrent, additional, before>>
  BY <1>1 DEF FixExtraRoot
<1>3. /\ CompactTypeOK /\ MemoryOK /\ BeforeOK /\ InputOK /\ live \in Nat
  BY <1>2, AfterRemap DEF Fixing
<1>4. PICK f \in Locations : Correcting(f)
  BY <1>2, AfterRemap DEF Fixing
<1>5. /\ HeapCarried(f) /\ Placed(f) /\ WordsFixed(f)
  BY <1>2, <1>4 DEF Correcting, Fixing
<1>6. /\ stackTop \in Nat /\ StackBottom \in Nat /\ Slot \subseteq Nat
      /\ extra \in 1 .. Len(extraRoots) /\ Len(extraRoots) \in Nat
      /\ extraRoots \in Seq(Slot) /\ r \in Slot
      /\ \A s \in Slot : s <= StackBottom
  BY <1>1, <1>2, <1>3, LayoutAssumption DEF CompactTypeOK, MemoryOK, Slot
<1>7. r \in Rooted
  BY <1>1, <1>3, <1>6, RootedByRegion
<1>8. r \notin ExtraFixed
  BY <1>1, <1>3, <1>6 DEF ExtraFixed, InputOK, ExtraRootsOK
<1>9. ExtraFixed' = ExtraFixed \cup {r}
  BY <1>1, <1>2, <1>6 DEF ExtraFixed, OfRegion
<1>10. FixedSlots = StackRegion \cup ExtraFixed
       /\ FixedSlots' = FixedSlots \cup {r}
  BY <1>2, <1>9 DEF FixedSlots, StackRegion
<1>11. r \in FixedSlots => r = StackBottom
  BY <1>2, <1>6, <1>8, <1>10 DEF StackRegion, OfRegion
<1>12. Fixed(words[r]) = Corrected(f, before.words[r])
       /\ Corrected(f, before.words[r]) \in Int
  <2>1. /\ Fixed(before.words[r]) = Corrected(f, before.words[r])
        /\ Corrected(f, before.words[r]) \in Int
        /\ r = StackBottom => Corrected(f, before.words[r]) = before.words[r]
    BY <1>2, <1>3, <1>5, <1>7, RootIsCorrected
  <2>2. words[r] = before.words[r]
    BY <1>5, <1>6, <1>11, <2>1 DEF WordsFixed
  <2> QED
    BY <2>1, <2>2
<1>13. words' \in [Slot -> Int]
  BY <1>2, <1>3, <1>6, <1>12 DEF MemoryOK
<1>14. /\ BeforeOK' /\ InputOK' /\ Placed(f)' /\ HeapCarried(f)'
       /\ MemoryOK' /\ f \in Locations'
       /\ \A w : Corrected(f, w)' = Corrected(f, w)
  <2>1. extra' \in 1 .. Len(extraRoots) + 1
    BY <1>2, <1>6
  <2> QED
    BY <1>2, <1>3, <1>4, <1>13, <2>1, HeapCarriedKept DEF Scanning
<1>15. WordsFixed(f)'
  <2>1. ASSUME NEW s \in Slot
        PROVE  words'[s] = IF s \in FixedSlots' THEN Corrected(f, before.words[s])
                                                ELSE before.words[s]
    <3>1. CASE s = r
      BY <1>2, <1>3, <1>6, <1>10, <1>12, <3>1 DEF MemoryOK
    <3>2. CASE s # r
      BY <1>2, <1>3, <1>5, <1>10, <3>2 DEF MemoryOK, WordsFixed
    <3> QED
      BY <3>1, <3>2
  <2> QED
    BY <1>2, <1>14, <2>1 DEF WordsFixed
<1>16. CompactTypeOK'
  BY <1>2, <1>3, <1>6, <1>14 DEF CompactTypeOK, CompactPC
<1> QED
  BY <1>2, <1>14, <1>15, <1>16 DEF CompactIInv, Correcting, Fixing

LEMMA SkipExtraRootStep == ASSUME CompactIInv, SkipExtraRoot PROVE CompactIInv'
<1>1. PICK r : r = extraRoots[extra]
  OBVIOUS
<1>2. /\ pc = "fixExtra" /\ extra <= Len(extraRoots) /\ OfRegion(r)
      /\ extra' = extra + 1
      /\ UNCHANGED <<heap, hbegin, hsize, hcurrent, words, stackTop, extraRoots>>
      /\ UNCHANGED <<pc, scan, live, oldBegin, oldCurrent, additional, before>>
  BY <1>1 DEF SkipExtraRoot, memory
<1>3. /\ CompactTypeOK /\ MemoryOK /\ BeforeOK /\ InputOK /\ live \in Nat
  BY <1>2, AfterRemap DEF Fixing
<1>4. PICK f \in Locations : Correcting(f)
  BY <1>2, AfterRemap DEF Fixing
<1>5. /\ HeapCarried(f) /\ Placed(f) /\ WordsFixed(f)
  BY <1>2, <1>4 DEF Correcting, Fixing
<1>6. extra \in 1 .. Len(extraRoots) /\ Len(extraRoots) \in Nat
      /\ extra' \in 1 .. Len(extraRoots) + 1
      /\ words' \in [Slot -> Int]
  BY <1>2, <1>3 DEF CompactTypeOK, MemoryOK
<1>7. FixedSlots' = FixedSlots
  <2>1. ExtraFixed' = ExtraFixed
    BY <1>1, <1>2, <1>6 DEF ExtraFixed, OfRegion
  <2> QED
    BY <1>2, <2>1 DEF FixedSlots, StackRegion
<1>8. /\ BeforeOK' /\ InputOK' /\ Placed(f)' /\ HeapCarried(f)'
      /\ MemoryOK' /\ f \in Locations'
      /\ \A w : Corrected(f, w)' = Corrected(f, w)
  BY <1>2, <1>3, <1>4, <1>6, HeapCarriedKept DEF Scanning
<1>9. WordsFixed(f)'
  BY <1>2, <1>5, <1>7, <1>8 DEF WordsFixed
<1>10. CompactTypeOK'
  BY <1>2, <1>3, <1>6, <1>8 DEF CompactTypeOK, CompactPC
<1> QED
  BY <1>2, <1>8, <1>9, <1>10 DEF CompactIInv, Correcting, Fixing

LEMMA ExtraRootsFixedStep == ASSUME CompactIInv, ExtraRootsFixed PROVE CompactIInv'
<1>1. /\ pc = "fixExtra" /\ pc' = "fixGlobals" /\ extra > Len(extraRoots)
      /\ UNCHANGED <<heap, hbegin, hsize, hcurrent, words, stackTop, extraRoots>>
      /\ UNCHANGED <<scan, live, extra, oldBegin, oldCurrent, additional, before>>
  BY DEF ExtraRootsFixed, memory, compactVars
<1>2. /\ CompactTypeOK /\ MemoryOK /\ BeforeOK /\ InputOK /\ live \in Nat
  BY <1>1, AfterRemap DEF Fixing
<1>3. PICK f \in Locations : Correcting(f)
  BY <1>1, AfterRemap DEF Fixing
<1>4. /\ HeapCarried(f) /\ Placed(f) /\ WordsFixed(f)
  BY <1>1, <1>3 DEF Correcting, Fixing
<1>5. words' \in [Slot -> Int] /\ extra' \in 1 .. Len(extraRoots) + 1
  BY <1>1, <1>2 DEF CompactTypeOK, MemoryOK
<1>6. /\ BeforeOK' /\ InputOK' /\ Placed(f)' /\ HeapCarried(f)'
      /\ MemoryOK' /\ f \in Locations'
      /\ \A w : Corrected(f, w)' = Corrected(f, w)
  BY <1>1, <1>2, <1>3, <1>5, HeapCarriedKept DEF Scanning
<1>7. WordsFixed(f)'
  <2>1. FixedSlots' = FixedSlots
    BY <1>1 DEF FixedSlots, StackRegion, ExtraFixed, OfRegion
  <2> QED
    BY <1>1, <1>4, <1>6, <2>1 DEF WordsFixed
<1>8. CompactTypeOK'
  BY <1>1, <1>2, <1>5, <1>6 DEF CompactTypeOK, CompactPC
<1> QED
  BY <1>1, <1>6, <1>7, <1>8 DEF CompactIInv, Correcting, Fixing

LEMMA FixGlobalsStep == ASSUME CompactIInv, FixGlobals PROVE CompactIInv'
<1>1. /\ pc = "fixGlobals" /\ pc' = "relocate" /\ scan' = hbegin
      /\ words' = [s \in Slot |->
                     IF GlobalStart <= s /\ s < GlobalStop
                     THEN Fixed(words[s]) ELSE words[s]]
      /\ UNCHANGED <<heap, hbegin, hsize, hcurrent, stackTop, extraRoots,
                     live, extra, oldBegin, oldCurrent, additional, before>>
  BY DEF FixGlobals, FixRegion
<1>2. /\ CompactTypeOK /\ MemoryOK /\ BeforeOK /\ InputOK /\ live \in Nat
      /\ hbegin \in Nat
  BY <1>1, AfterRemap DEF Fixing
<1>3. PICK f \in Locations : Correcting(f)
  BY <1>1, AfterRemap DEF Fixing
<1>4. /\ HeapCarried(f) /\ Placed(f) /\ WordsFixed(f)
  BY <1>1, <1>3 DEF Correcting, Fixing
<1>5. /\ stackTop \in Nat /\ GlobalStop <= stackTop /\ Slot \subseteq Nat
      /\ GlobalStop \in Nat /\ GlobalStart \in Nat
  BY <1>2, LayoutAssumption DEF MemoryOK, Slot
<1>6. FixedSlots = StackRegion \cup ExtraFixed
      /\ FixedSlots' = FixedSlots \cup GlobalRegion
  BY <1>1 DEF FixedSlots, StackRegion, ExtraFixed, OfRegion, GlobalRegion
<1>7. ASSUME NEW s \in Slot
      PROVE  /\ words'[s] \in Int
             /\ words'[s] = IF s \in FixedSlots' THEN Corrected(f, before.words[s])
                                                 ELSE before.words[s]
  <2>1. CASE s \in GlobalRegion
    <3>1. s \notin FixedSlots
      BY <1>5, <1>6, <2>1 DEF StackRegion, ExtraFixed, OfRegion, GlobalRegion
    <3>2. words[s] = before.words[s]
      BY <1>4, <3>1 DEF WordsFixed
    <3>3. words'[s] = Fixed(before.words[s])
      BY <1>1, <2>1, <3>2 DEF GlobalRegion
    <3>4. s \in Rooted
      BY <1>2, <2>1, RootedByRegion DEF GlobalRegion
    <3> QED
      BY <1>1, <1>2, <1>4, <1>6, <2>1, <3>3, <3>4, RootIsCorrected
  <2>2. CASE s \notin GlobalRegion
    <3>1. words'[s] = words[s] /\ words[s] \in Int
      BY <1>1, <1>2, <2>2 DEF GlobalRegion, MemoryOK
    <3> QED
      BY <1>4, <1>6, <2>2, <3>1 DEF WordsFixed
  <2> QED
    BY <2>1, <2>2
<1>8. words' \in [Slot -> Int] /\ extra' \in 1 .. Len(extraRoots) + 1
  BY <1>1, <1>2, <1>7 DEF CompactTypeOK
<1>9. /\ BeforeOK' /\ InputOK' /\ Placed(f)' /\ HeapCarried(f)'
      /\ MemoryOK' /\ f \in Locations'
      /\ \A w : Corrected(f, w)' = Corrected(f, w)
  BY <1>1, <1>2, <1>3, <1>8, HeapCarriedKept DEF Scanning
<1>10. WordsFixed(f)'
  BY <1>1, <1>4, <1>7, <1>9 DEF WordsFixed
<1>11. hbegin \in ObjectStarts \cup {hcurrent}
  <2>1. before.lo = before.hi \/ before.lo \in OldObjects
    BY <1>2 DEF BeforeOK, Contiguous, OldObjects
  <2>2. Carried(before.lo) = hbegin
    BY <1>2 DEF Carried, BeforeOK
  <2> QED
    BY <1>4, <2>1, <2>2 DEF ObjectStarts, HeapCarried
<1>12. HeapSliding(f)'
  <2>1. \A a \in OldObjects : hbegin <= Carried(a) /\ Carried(a) \in Nat
    BY <1>2, CarriedFacts
  <2>2. /\ ObjectStarts' = ObjectStarts /\ OldObjects' = OldObjects
        /\ Survivors' = Survivors /\ \A a : Carried(a)' = Carried(a)
    BY <1>1, <1>2, TargetsKept
  <2>3. \A a \in Survivors' : ~(Carried(a)' < scan')
    BY <1>1, <1>2, <2>1, <2>2, SurvivorsAreObjects
  <2>4. \A b \in DOMAIN heap' : hbegin' <= b
    BY <1>1, <1>4, <2>1 DEF HeapCarried, ObjectStarts
  <2> QED
    BY <1>1, <1>9, <1>11, <2>2, <2>3, <2>4 DEF HeapSliding, HeapCarried
<1>13. CompactTypeOK'
  BY <1>1, <1>2, <1>4, <1>8, <1>9, <1>11 DEF CompactTypeOK, CompactPC, HeapCarried
<1> QED
  BY <1>1, <1>9, <1>10, <1>12, <1>13 DEF CompactIInv, Correcting, Fixing
-----------------------------------------------------------------------------
(* physically_relocate.                                                    *)
LEMMA RelocateLiveStep == ASSUME CompactIInv, RelocateLive PROVE CompactIInv'
<1>1. PICK s, o, to : s = scan /\ o = Moved(heap[scan]) /\ to = Forwarded(scan)
  OBVIOUS
<1>2. /\ pc = "relocate" /\ ~Done /\ heap[scan].mark
      /\ heap' = [a \in Spared(to, o) \cup {to} |-> IF a = to THEN o ELSE heap[a]]
      /\ scan' = NextObj(heap, scan)
      /\ UNCHANGED <<hbegin, hsize, hcurrent, words, stackTop, extraRoots,
                     pc, live, extra, oldBegin, oldCurrent, additional, before>>
  BY <1>1 DEF RelocateLive, MoveTo
<1>3. /\ CompactTypeOK /\ MemoryOK /\ BeforeOK /\ InputOK
      /\ hbegin \in Nat /\ live \in Nat
  BY <1>2, AfterRemap
<1>4. PICK f \in Locations : Correcting(f)
  BY <1>2, AfterRemap
<1>5. /\ HeapSliding(f) /\ Placed(f) /\ WordsFixed(f)
  BY <1>2, <1>4 DEF Correcting
<1>6. PICK t \in OldObjects :
        /\ s = Carried(t) /\ s \in Nat /\ InPlace(f, t)
        /\ s \in DOMAIN heap /\ heap[s] \in Object
        /\ Old(t).mark /\ heap[s].mark
        /\ ObjSize(heap[s]) = SizeOf(t)
        /\ scan' = s + SizeOf(t)
        /\ s + SizeOf(t) \in ObjectStarts \cup {hcurrent}
        /\ \A c \in OldObjects :
             /\ s <= Carried(c) <=> t <= c
             /\ s + SizeOf(t) <= Carried(c) <=> t < c
  BY <1>1, <1>2, <1>3, <1>4, ScanFacts
<1>7. /\ BeforeOK' /\ InputOK'
      /\ OldObjects' = OldObjects /\ Survivors' = Survivors
      /\ Locations' = Locations /\ ObjectStarts' = ObjectStarts
      /\ \A a : Old(a)' = Old(a) /\ SizeOf(a)' = SizeOf(a)
      /\ \A a : Carried(a)' = Carried(a)
      /\ \A a : Target(f, a)' = Target(f, a)
      /\ \A g, a : CorrectedBody(g, a)' = CorrectedBody(g, a)
      /\ \A g, w : Corrected(g, w)' = Corrected(g, w)
  BY <1>2, <1>3, TargetsKept
<1>8. t \in Survivors
  BY <1>6, SurvivorsAreObjects
<1>9. /\ \A a \in OldObjects :
           /\ a \in Nat /\ SizeOf(a) \in Nat /\ 0 < SizeOf(a)
           /\ Carried(a) \in Nat /\ hbegin <= Carried(a)
      /\ \A a \in Survivors :
           /\ a \in OldObjects
           /\ Target(f, a) \in Nat /\ hbegin <= Target(f, a)
           /\ Target(f, a) = hbegin + (f[a] - before.lo)
           /\ Target(f, a) <= Carried(a)
           /\ f[a] \in Int
      /\ before.lo \in Nat
  BY <1>3, <1>5, OldFacts, CarriedFacts, PlacedFacts, SurvivorsAreObjects
  DEF Placed, BeforeOK
(* The object goes to its target, fixed, and is no longer marked.          *)
<1>10. /\ heap[s].id = Old(t).id /\ heap[s].kind = Old(t).kind
       /\ heap[s].fwd = f[t] /\ ~heap[s].enq
       /\ heap[s].body = CorrectedBody(f, t)
  BY <1>2, <1>6 DEF InPlace
<1>11. /\ o \in Object /\ ~o.mark /\ ~o.enq
       /\ o.id = Old(t).id /\ o.kind = Old(t).kind
       /\ o.body = CorrectedBody(f, t)
       /\ ObjSize(o) = SizeOf(t)
  BY <1>1, <1>6, <1>10, MoveObject DEF ObjSize
<1>12. to = Target(f, t) /\ to \in Nat /\ hbegin <= to /\ to <= s
  BY <1>1, <1>3, <1>5, <1>6, <1>8, <1>9, <1>10, PlacedFacts DEF Forwarded, Placed
<1>13. DOMAIN heap' = Spared(to, o) \cup {to} /\ heap'[to] = o
       /\ \A b \in Spared(to, o) : b # to => heap'[b] = heap[b]
  BY <1>2
(* What lies ahead, and what was moved before, is spared.                  *)
<1>14. ASSUME NEW c \in OldObjects, t < c
       PROVE  InPlace(f, c) /\ InPlace(f, c)'
  <2>1. /\ s + SizeOf(t) <= Carried(c) /\ s <= Carried(c) /\ to # Carried(c)
        /\ to + SizeOf(t) <= Carried(c)
    BY <1>6, <1>9, <1>12, <1>14
  <2>2. InPlace(f, c)
    BY <1>1, <1>5, <2>1 DEF HeapSliding
  <2>3. Carried(c) \in Spared(to, o)
    BY <1>11, <2>1, <2>2 DEF Spared, InPlace
  <2>4. heap'[Carried(c)] = heap[Carried(c)] /\ Carried(c) \in DOMAIN heap'
    BY <1>13, <2>1, <2>3
  <2> QED
    BY <1>2, <1>7, <2>2, <2>4 DEF InPlace
<1>15. ASSUME NEW a \in Survivors, a < t
       PROVE  /\ InTarget(f, a)' /\ Target(f, a) + SizeOf(a) <= to
              /\ Target(f, a) \in DOMAIN heap
  <2>1. ~(s <= Carried(a)) /\ Carried(a) < scan
    BY <1>1, <1>6, <1>9, <1>15
  <2>2. InTarget(f, a)
    BY <1>5, <2>1 DEF HeapSliding
  <2>3. f[a] + SizeOf(a) <= f[t]
    BY <1>5, <1>8, <1>15 DEF Placed, Packed, SizeOf, Old
  <2>4. Target(f, a) + SizeOf(a) <= to /\ Target(f, a) # to
    BY <1>3, <1>8, <1>9, <1>12, <2>3
  <2>5. NextObj(heap, Target(f, a)) = Target(f, a) + SizeOf(a)
    <3>1. Len(heap[Target(f, a)].body) = Len(Old(a).body)
      BY <1>3, <1>9, <2>2, OldFacts DEF InTarget, CorrectedBody
    <3> QED
      BY <3>1 DEF NextObj, ObjSize, SizeOf
  <2>6. Target(f, a) \in Spared(to, o)
    BY <2>2, <2>4, <2>5 DEF Spared, InTarget
  <2>7. heap'[Target(f, a)] = heap[Target(f, a)] /\ Target(f, a) \in DOMAIN heap'
    BY <1>13, <2>4, <2>6
  <2> QED
    BY <1>7, <2>2, <2>4, <2>7 DEF InTarget
<1>16. InTarget(f, t)'
  BY <1>7, <1>11, <1>12, <1>13 DEF InTarget
<1>17. \A a \in OldObjects : /\ scan' <= Carried(a) <=> t < a
                             /\ Carried(a) < scan' <=> a < t \/ a = t
  BY <1>6, <1>9
(* What else is spared lies to the right of all that was moved: nothing    *)
(* fits between the target and what was moved before.                      *)
<1>18. ASSUME NEW b \in DOMAIN heap'
       PROVE  /\ b \in Nat /\ heap'[b] \in Object /\ hbegin <= b
              /\ \/ \E a \in Survivors : Carried(a) < scan' /\ b = Target(f, a)
                 \/ \A a \in Survivors : Carried(a) < scan' =>
                                           Target(f, a) + SizeOf(a) <= b
  <2>1. CASE b = to
    BY <1>8, <1>11, <1>12, <1>13, <1>17, <2>1
  <2>2. CASE b # to
    <3>1. b \in Spared(to, o) /\ b \in DOMAIN heap /\ heap'[b] = heap[b]
      BY <1>13, <2>2 DEF Spared
    <3>2. b \in Nat /\ heap[b] \in Object /\ hbegin <= b
      BY <1>3, <1>5, <3>1 DEF MemoryOK, HeapSliding
    <3>3. CASE \E a \in Survivors : Carried(a) < scan /\ b = Target(f, a)
      <4>1. PICK a \in Survivors : Carried(a) < scan /\ b = Target(f, a)
        BY <3>3
      <4>2. Carried(a) < scan'
        BY <1>1, <1>6, <1>9, <4>1
      <4> QED
        BY <3>1, <3>2, <4>1, <4>2
    <3>4. CASE \A a \in Survivors : Carried(a) < scan =>
                                      Target(f, a) + SizeOf(a) <= b
      <4>1. \A a \in Survivors : a < t => Target(f, a) + SizeOf(a) <= b
        BY <1>1, <1>6, <1>9, <3>4
      <4>2. to + SizeOf(t) <= b
        <5> SUFFICES ASSUME ~(to + SizeOf(t) <= b) PROVE FALSE
          OBVIOUS
        <5>1. NextObj(heap, b) <= to
          BY <1>11, <3>1 DEF Spared
        <5>2. b < NextObj(heap, b) /\ NextObj(heap, b) \in Nat
          BY <3>2, HeaderWordsAssumption DEF NextObj, ObjSize, Object
        <5>3. f[t] = before.lo
              \/ \E a \in Survivors : a < t /\ f[a] + SizeOf(a) = f[t]
          BY <1>5, <1>8 DEF Placed, Packed, SizeOf, Old
        <5>4. CASE f[t] = before.lo
          BY <1>3, <1>8, <1>9, <1>12, <3>2, <5>1, <5>2, <5>4
        <5>5. CASE \E a \in Survivors : a < t /\ f[a] + SizeOf(a) = f[t]
          <6>1. PICK a \in Survivors : a < t /\ f[a] + SizeOf(a) = f[t]
            BY <5>5
          <6>2. Target(f, a) + SizeOf(a) = to
            BY <1>3, <1>8, <1>9, <1>12, <6>1
          <6> QED
            BY <1>12, <3>2, <4>1, <5>1, <5>2, <6>1, <6>2
        <5> QED
          BY <5>3, <5>4, <5>5
      <4> QED
        BY <1>9, <1>12, <1>17, <3>1, <3>2, <4>1, <4>2
    <3> QED
      BY <1>5, <3>1, <3>3, <3>4 DEF HeapSliding
  <2> QED
    BY <2>1, <2>2
<1>19. HeapSliding(f)'
  <2>1. hcurrent' = Carried(before.hi)'
    BY <1>2, <1>5 DEF HeapSliding, Carried
  <2>2. scan' \in ObjectStarts' \cup {hcurrent'}
    BY <1>2, <1>6, <1>7
  <2>3. \A a \in OldObjects' : scan' <= Carried(a)' => InPlace(f, a)'
    BY <1>7, <1>14, <1>17
  <2>4. \A a \in Survivors' : Carried(a)' < scan' => InTarget(f, a)'
    BY <1>7, <1>9, <1>15, <1>16, <1>17
  <2> QED
    BY <1>2, <1>7, <1>18, <2>1, <2>2, <2>3, <2>4 DEF HeapSliding
<1>20. Correcting(f)'
  <2>1. Placed(f)'
    BY <1>2, <1>5, <1>7 DEF Placed
  <2>2. WordsFixed(f)'
    <3>1. FixedSlots' = FixedSlots
      BY <1>2 DEF FixedSlots, StackRegion, ExtraFixed, OfRegion, GlobalRegion
    <3> QED
      BY <1>2, <1>5, <1>7, <3>1 DEF WordsFixed
  <2> QED
    BY <1>2, <1>19, <2>1, <2>2 DEF Correcting, Fixing
<1>21. CompactTypeOK'
  <2>1. MemoryOK'
    BY <1>2, <1>3, <1>18 DEF MemoryOK, hend
  <2>2. scan' \in DOMAIN heap' \cup {hcurrent'}
    <3>1. CASE scan' = hcurrent
      BY <1>2, <3>1
    <3>2. CASE scan' \in ObjectStarts
      <4>1. PICK c \in OldObjects : scan' = Carried(c)
        BY <3>2 DEF ObjectStarts
      <4>2. t < c
        BY <1>9, <1>17, <4>1
      <4> QED
        BY <1>7, <1>14, <4>1, <4>2 DEF InPlace
    <3> QED
      BY <1>6, <3>1, <3>2
  <2> QED
    BY <1>2, <1>3, <2>1, <2>2 DEF CompactTypeOK
<1> QED
  BY <1>2, <1>4, <1>7, <1>20, <1>21 DEF CompactIInv, Fixing

LEMMA RelocateDeadStep == ASSUME CompactIInv, RelocateDead PROVE CompactIInv'
<1>1. /\ pc = "relocate" /\ ~Done /\ ~heap[scan].mark
      /\ scan' = NextObj(heap, scan)
      /\ UNCHANGED <<heap, hbegin, hsize, hcurrent, words, stackTop, extraRoots>>
      /\ UNCHANGED <<pc, live, extra, oldBegin, oldCurrent, additional, before>>
  BY DEF RelocateDead, memory
<1>2. /\ CompactTypeOK /\ MemoryOK /\ BeforeOK /\ InputOK /\ hbegin \in Nat
  BY <1>1, AfterRemap
<1>3. PICK f \in Locations : Correcting(f)
  BY <1>1, AfterRemap
<1>4. PICK t \in OldObjects :
        /\ ~Old(t).mark /\ scan = Carried(t) /\ scan \in Nat
        /\ scan' = scan + SizeOf(t)
        /\ scan + SizeOf(t) \in ObjectStarts \cup {hcurrent}
        /\ \A c \in OldObjects :
             /\ scan <= Carried(c) <=> t <= c
             /\ scan + SizeOf(t) <= Carried(c) <=> t < c
  BY <1>1, <1>2, <1>3, ScanFacts
<1>5. /\ BeforeOK' /\ InputOK'
      /\ OldObjects' = OldObjects /\ Survivors' = Survivors
      /\ Locations' = Locations /\ ObjectStarts' = ObjectStarts
      /\ \A a : Old(a)' = Old(a) /\ SizeOf(a)' = SizeOf(a)
      /\ \A a : Carried(a)' = Carried(a)
      /\ \A a : Target(f, a)' = Target(f, a)
      /\ \A g, a : CorrectedBody(g, a)' = CorrectedBody(g, a)
      /\ \A g, w : Corrected(g, w)' = Corrected(g, w)
  BY <1>1, <1>2, TargetsKept
<1>6. /\ HeapSliding(f) /\ Placed(f) /\ WordsFixed(f)
  BY <1>1, <1>3 DEF Correcting
<1>7. \A a \in OldObjects : /\ a \in Nat /\ SizeOf(a) \in Nat
                            /\ Carried(a) \in Nat
  BY <1>2, OldFacts, CarriedFacts
<1>8. t \notin Survivors /\ Survivors \subseteq OldObjects
  BY <1>4, SurvivorsAreObjects
<1>9. /\ \A a \in Survivors : Carried(a) < scan' <=> Carried(a) < scan
      /\ \A a \in OldObjects : scan' <= Carried(a) => scan <= Carried(a)
  BY <1>4, <1>7, <1>8
<1>10. \A a \in OldObjects : InPlace(f, a) => InPlace(f, a)'
  BY <1>1, <1>5 DEF InPlace
<1>11. \A a \in Survivors : InTarget(f, a) => InTarget(f, a)'
  BY <1>1, <1>5 DEF InTarget
<1>12. HeapSliding(f)'
  <2>1. hcurrent' = Carried(before.hi)'
    BY <1>1, <1>6 DEF HeapSliding, Carried
  <2>2. scan' \in ObjectStarts' \cup {hcurrent'}
    BY <1>1, <1>4, <1>5
  <2>3. \A a \in OldObjects' : scan' <= Carried(a)' => InPlace(f, a)'
    BY <1>5, <1>6, <1>9, <1>10 DEF HeapSliding
  <2>4. \A a \in Survivors' : Carried(a)' < scan' => InTarget(f, a)'
    BY <1>5, <1>6, <1>9, <1>11 DEF HeapSliding
  <2>5. \A b \in DOMAIN heap' :
          /\ hbegin' <= b
          /\ \/ \E a \in Survivors' : Carried(a)' < scan' /\ b = Target(f, a)'
             \/ \A a \in Survivors' : Carried(a)' < scan' =>
                                        Target(f, a)' + SizeOf(a)' <= b
    BY <1>1, <1>5, <1>6, <1>9 DEF HeapSliding
  <2> QED
    BY <2>1, <2>2, <2>3, <2>4, <2>5 DEF HeapSliding
<1>13. Correcting(f)'
  <2>1. Placed(f)'
    BY <1>1, <1>5, <1>6 DEF Placed
  <2>2. WordsFixed(f)'
    <3>1. FixedSlots' = FixedSlots
      BY <1>1 DEF FixedSlots, StackRegion, ExtraFixed, OfRegion, GlobalRegion
    <3> QED
      BY <1>1, <1>5, <1>6, <3>1 DEF WordsFixed
  <2> QED
    BY <1>1, <1>12, <2>1, <2>2 DEF Correcting, Fixing
<1>14. CompactTypeOK'
  <2>1. scan' \in DOMAIN heap' \cup {hcurrent'}
    <3>1. CASE scan' = hcurrent
      BY <1>1, <3>1
    <3>2. CASE scan' \in ObjectStarts
      <4>1. PICK c \in OldObjects : scan' = Carried(c)
        BY <3>2 DEF ObjectStarts
      <4>2. scan <= Carried(c)
        BY <1>7, <1>9, <4>1
      <4>3. InPlace(f, c)
        BY <1>6, <4>2 DEF HeapSliding
      <4> QED
        BY <1>1, <4>1, <4>3 DEF InPlace
    <3> QED
      BY <1>4, <3>1, <3>2
  <2> QED
    BY <1>1, <1>2, <2>1 DEF CompactTypeOK, MemoryOK, hend
<1> QED
  BY <1>1, <1>3, <1>5, <1>13, <1>14 DEF CompactIInv, Fixing

LEMMA RelocatedStep == ASSUME CompactIInv, Relocated PROVE CompactIInv'
<1>1. /\ pc = "relocate" /\ Done /\ pc' = "compacted"
      /\ hcurrent' = hbegin + live
      /\ heap' = [a \in {b \in DOMAIN heap : b < hcurrent'} |-> heap[a]]
      /\ UNCHANGED <<hbegin, hsize, words, stackTop, extraRoots>>
      /\ UNCHANGED <<scan, live, extra, oldBegin, oldCurrent, additional, before>>
  BY DEF Relocated, compactVars
<1>2. /\ CompactTypeOK /\ MemoryOK /\ BeforeOK /\ InputOK
      /\ hbegin \in Nat /\ live \in Nat
  BY <1>1, AfterRemap
<1>3. PICK f \in Locations : Correcting(f)
  BY <1>1, AfterRemap
<1>4. /\ BeforeOK' /\ InputOK'
      /\ OldObjects' = OldObjects /\ Survivors' = Survivors
      /\ Locations' = Locations
      /\ \A a : Old(a)' = Old(a) /\ SizeOf(a)' = SizeOf(a)
      /\ \A a : Target(f, a)' = Target(f, a)
      /\ \A g, a : CorrectedBody(g, a)' = CorrectedBody(g, a)
      /\ \A g, w : Corrected(g, w)' = Corrected(g, w)
  BY <1>1, <1>2, TargetsKept
<1>5. /\ HeapSliding(f) /\ Placed(f) /\ WordsFixed(f)
  BY <1>1, <1>3 DEF Correcting
<1>6. ASSUME NEW a \in Survivors
      PROVE  /\ Carried(a) < scan /\ InTarget(f, a)
             /\ Target(f, a) \in Nat /\ Target(f, a) < hbegin + live
             /\ Target(f, a) = hbegin + (f[a] - before.lo) /\ f[a] \in Int
             /\ SizeOf(a) \in Nat
  <2>1. /\ a \in OldObjects /\ SizeOf(a) \in Nat /\ 0 < SizeOf(a)
        /\ Carried(a) \in Nat /\ Carried(a) + SizeOf(a) <= Carried(before.hi)
    BY <1>2, OldFacts, CarriedFacts, SurvivorsAreObjects
  <2>2. hcurrent = Carried(before.hi) /\ hcurrent \in Nat
    BY <1>2, <1>5 DEF HeapSliding, MemoryOK
  <2>3. scan \in Int /\ hcurrent <= scan
    BY <1>1, <1>2, <1>5, <2>2 DEF HeapSliding, ObjectStarts, Done,
       CompactTypeOK, MemoryOK
  <2>4. Carried(a) < scan
    BY <2>1, <2>2, <2>3
  <2>5. /\ Target(f, a) \in Nat /\ Target(f, a) + SizeOf(a) <= hbegin + live
        /\ Target(f, a) = hbegin + (f[a] - before.lo) /\ f[a] \in Int
    BY <1>2, <1>5, PlacedFacts DEF Placed
  <2> QED
    BY <1>2, <1>5, <2>1, <2>4, <2>5 DEF HeapSliding
<1>7. DOMAIN heap' = {Target(f, a) : a \in Survivors}
  <2>1. ASSUME NEW b \in DOMAIN heap, b < hbegin + live
        PROVE  \E a \in Survivors : b = Target(f, a)
    <3>1. hbegin <= b /\ b \in Nat
      BY <1>2, <1>5 DEF HeapSliding, MemoryOK
    <3>2. PICK a \in Survivors : f[a] + SizeOf(a) = before.lo + live
      BY <1>2, <1>5, <2>1, <3>1 DEF Placed, Packed, SizeOf, Old
    <3>3. Target(f, a) + SizeOf(a) = hbegin + live
      BY <1>2, <1>6, <3>2 DEF BeforeOK
    <3>4. ~(Target(f, a) + SizeOf(a) <= b)
      BY <1>2, <2>1, <3>1, <3>3
    <3> QED
      BY <1>5, <1>6, <3>4 DEF HeapSliding
  <2>2. \A a \in Survivors : Target(f, a) \in DOMAIN heap
    BY <1>6 DEF InTarget
  <2> QED
    BY <1>1, <1>6, <2>1, <2>2
<1>8. HeapCompacted(f)'
  <2>1. ASSUME NEW a \in Survivors PROVE InTarget(f, a)'
    <3>1. heap'[Target(f, a)] = heap[Target(f, a)] /\ Target(f, a) \in DOMAIN heap'
      BY <1>1, <1>7
    <3> QED
      BY <1>4, <1>6, <3>1 DEF InTarget
  <2> QED
    BY <1>1, <1>4, <1>7, <2>1 DEF HeapCompacted
<1>9. Correcting(f)'
  <2>1. Placed(f)'
    BY <1>1, <1>4, <1>5 DEF Placed
  <2>2. WordsFixed(f)'
    <3>1. FixedSlots' = FixedSlots
      BY <1>1 DEF FixedSlots, StackRegion, ExtraFixed, OfRegion, GlobalRegion
    <3> QED
      BY <1>1, <1>4, <1>5, <3>1 DEF WordsFixed
  <2> QED
    BY <1>1, <1>8, <2>1, <2>2 DEF Correcting, Fixing
<1>10. CompactTypeOK'
  <2>1. live <= hsize
    BY <1>2 DEF CompactTypeOK, MemoryOK
  <2>2. hcurrent' \in hbegin .. (hbegin + hsize)
    BY <1>1, <1>2, <2>1 DEF MemoryOK
  <2> QED
    BY <1>1, <1>2, <2>2 DEF CompactTypeOK, CompactPC, MemoryOK, hend
<1> QED
  BY <1>1, <1>3, <1>4, <1>9, <1>10 DEF CompactIInv, Fixing
-----------------------------------------------------------------------------
LEMMA CompactInitial == ASSUME CompactInit PROVE CompactIInv
<1>1. /\ MemoryOK /\ Contiguous(heap, hbegin, hcurrent) /\ ExtraRootsOK
      /\ LiveClosed /\ BasesUnused
      /\ \A a \in DOMAIN heap : ~heap[a].enq
      /\ ~ValidHeapPointer(words[StackBottom])
      /\ pc = "locate" /\ scan = hbegin /\ live = 0 /\ extra = 1
      /\ oldBegin = hbegin /\ oldCurrent = hcurrent
      /\ additional \in Nat
      /\ before.heap = heap /\ before.words = words
      /\ before.lo = hbegin /\ before.hi = hcurrent
  BY DEF CompactInit, CompactStart
<1>2. /\ OldObjects = DOMAIN heap /\ Survivors = Live
      /\ \A a : Old(a) = heap[a]
      /\ \A w : OldPointer(w) <=> ValidHeapPointer(w)
  BY <1>1 DEF OldObjects, Survivors, Live, Old, OldPointer, ValidHeapPointer
<1>3. hbegin \in Nat /\ hcurrent \in Nat /\ hsize \in Nat
      /\ Len(extraRoots) \in Nat
  BY <1>1 DEF MemoryOK
<1>4. BeforeOK
  BY <1>1, <1>2, <1>3 DEF BeforeOK, MemoryOK
<1>5. CompactTypeOK
  BY <1>1, <1>3 DEF CompactTypeOK, CompactPC, Contiguous
<1>6. ASSUME NEW w, ValidHeapPointer(w) => ToData(w) \in Live,
             w \in RootWords \cup LivePointers
      PROVE  Follows(w)
  BY <1>1, <1>2, <1>6 DEF Follows, BasesUnused
<1>7. ASSUME NEW s \in Rooted PROVE Follows(before.words[s])
  <2>1. words[s] \in RootWords
    BY DEF Rooted, RootWords
  <2>2. ValidHeapPointer(words[s]) => ToData(words[s]) \in Pointees(RootWords)
    BY <2>1 DEF Pointees
  <2> QED
    BY <1>1, <1>6, <2>1, <2>2 DEF LiveClosed
<1>8. ASSUME NEW a \in Survivors, NEW i \in PtrFields(Old(a))
      PROVE  Follows(Old(a).body[i])
  <2>1. a \in Live /\ i \in PtrFields(heap[a])
    BY <1>2
  <2>2. PICK W : W = {heap[a].body[j] : j \in PtrFields(heap[a])}
    OBVIOUS
  <2>3. heap[a].body[i] \in W
    BY <2>1, <2>2
  <2>4. heap[a].body[i] \in LivePointers
    BY <2>1, <2>2, <2>3 DEF LivePointers
  <2>5. ValidHeapPointer(heap[a].body[i]) => ToData(heap[a].body[i]) \in Refs(a)
    BY <2>2, <2>3 DEF Refs, Pointees
  <2>6. ValidHeapPointer(heap[a].body[i]) => ToData(heap[a].body[i]) \in Live
    BY <1>1, <2>1, <2>5 DEF LiveClosed, Closed
  <2> QED
    BY <1>2, <1>6, <2>4, <2>6
<1>9. InputOK
  BY <1>1, <1>2, <1>7, <1>8 DEF InputOK
<1>10. Locating
  <2>1. Passed = hbegin
    BY <1>1 DEF Passed
  <2>2. {a \in Survivors : a < Passed} = {}
    BY <1>1, <1>3, <1>4, <2>1, OldFacts, SurvivorsAreObjects
  <2>3. ASSUME NEW g PROVE Packed(before, g, {}, 0)
    BY DEF Packed
  <2>4. Packed(before, [a \in OldObjects |-> heap[a].fwd],
               {a \in Survivors : a < Passed}, live)
    BY <1>1, <2>2, <2>3, Zenon
  <2>5. live <= Passed - before.lo
    BY <1>1, <1>3, <2>1
  <2> QED
    BY <1>1, <1>2, <2>4, <2>5 DEF Locating
<1> QED
  BY <1>1, <1>4, <1>5, <1>9, <1>10 DEF CompactIInv, Fixing

LEMMA CompactStutter == ASSUME CompactIInv, UNCHANGED compactState PROVE CompactIInv'
<1>1. /\ UNCHANGED <<heap, hbegin, hsize, hcurrent, words, stackTop, extraRoots>>
      /\ UNCHANGED <<pc, scan, live, extra, oldBegin, oldCurrent, additional,
                     before>>
  BY DEF compactState, memory, compactVars
<1>2. BeforeOK /\ InputOK
  BY DEF CompactIInv
<1>3. /\ BeforeOK' /\ InputOK'
      /\ OldObjects' = OldObjects /\ Survivors' = Survivors
      /\ Locations' = Locations /\ ObjectStarts' = ObjectStarts
      /\ \A a : Old(a)' = Old(a) /\ SizeOf(a)' = SizeOf(a)
      /\ \A a : Carried(a)' = Carried(a)
      /\ \A f, a : /\ Target(f, a)' = Target(f, a)
                   /\ CorrectedBody(f, a)' = CorrectedBody(f, a)
      /\ \A f, w : Corrected(f, w)' = Corrected(f, w)
  BY <1>1, <1>2, TargetsKept
<1>4. CompactTypeOK'
  BY <1>1 DEF CompactIInv, CompactTypeOK, MemoryOK, hend
<1>5. Locating => Locating'
  <2>1. Passed' = Passed
    BY <1>1 DEF Passed
  <2> QED
    BY <1>1, <1>3, <2>1 DEF Locating
<1>6. ASSUME NEW f, Correcting(f) PROVE Correcting(f)'
  <2>1. /\ \A a : InPlace(f, a)' = InPlace(f, a)
        /\ \A a : InTarget(f, a)' = InTarget(f, a)
    BY <1>1, <1>3 DEF InPlace, InTarget
  <2>2. hcurrent = Carried(before.hi) => hcurrent' = Carried(before.hi)'
    BY <1>1 DEF Carried
  <2>3. HeapCarried(f) => HeapCarried(f)'
    BY <1>1, <1>3, <2>1, <2>2 DEF HeapCarried
  <2>4. HeapSliding(f) => HeapSliding(f)'
    BY <1>1, <1>3, <2>1, <2>2 DEF HeapSliding
  <2>5. HeapCompacted(f) => HeapCompacted(f)'
    BY <1>1, <1>3, <2>1 DEF HeapCompacted
  <2>6. Placed(f)'
    BY <1>1, <1>3, <1>6 DEF Correcting, Placed
  <2>7. WordsFixed(f)'
    <3>1. FixedSlots' = FixedSlots
      BY <1>1 DEF FixedSlots, StackRegion, ExtraFixed, OfRegion, GlobalRegion
    <3> QED
      BY <1>1, <1>3, <1>6, <3>1 DEF Correcting, WordsFixed
  <2> QED
    BY <1>1, <1>3, <1>6, <2>3, <2>4, <2>5, <2>6, <2>7 DEF Correcting
<1>7. pc' = pc
  BY <1>1
<1> QED
  BY <1>3, <1>4, <1>5, <1>6, <1>7 DEF CompactIInv

LEMMA CompactInductive == CompactIInv /\ [CompactNext]_compactState => CompactIInv'
<1> SUFFICES ASSUME CompactIInv, [CompactNext]_compactState PROVE CompactIInv'
  OBVIOUS
<1>1. CASE LocateLive
  BY <1>1, LocateLiveStep
<1>2. CASE LocateDead
  BY <1>2, LocateDeadStep
<1>3. CASE Located
  BY <1>3, LocatedStep
<1>4. CASE Remap
  BY <1>4, RemapStep
<1>5. CASE RemapFails
  BY <1>5, RemapFailsStep
<1>6. CASE FixLiveFields
  BY <1>6, FixLiveFieldsStep
<1>7. CASE FixDeadFields
  BY <1>7, FixDeadFieldsStep
<1>8. CASE FieldsFixed
  BY <1>8, FieldsFixedStep
<1>9. CASE FixStack
  BY <1>9, FixStackStep
<1>10. CASE FixExtraRoot
  BY <1>10, FixExtraRootStep
<1>11. CASE SkipExtraRoot
  BY <1>11, SkipExtraRootStep
<1>12. CASE ExtraRootsFixed
  BY <1>12, ExtraRootsFixedStep
<1>13. CASE FixGlobals
  BY <1>13, FixGlobalsStep
<1>14. CASE RelocateLive
  BY <1>14, RelocateLiveStep
<1>15. CASE RelocateDead
  BY <1>15, RelocateDeadStep
<1>16. CASE Relocated
  BY <1>16, RelocatedStep
<1>17. CASE UNCHANGED compactState
  BY <1>17, CompactStutter
<1> QED
  BY <1>1, <1>2, <1>3, <1>4, <1>5, <1>6, <1>7, <1>8, <1>9, <1>10, <1>11, <1>12,
     <1>13, <1>14, <1>15, <1>16, <1>17 DEF CompactNext

LEMMA CompactInvariant == CompactSpec => []CompactIInv
<1>1. CompactInit => CompactIInv
  BY CompactInitial
<1> QED
  BY <1>1, CompactInductive, PTL DEF CompactSpec
-----------------------------------------------------------------------------
(* Every iterator of the compact phase stays on an object or at            *)
(* heap.current, whatever the heap and wherever mremap puts it, and what   *)
(* survives is never longer than the heap.                                 *)
THEOREM CompactTypeCorrect == CompactSpec => []CompactTypeOK
<1>1. CompactIInv => CompactTypeOK
  BY DEF CompactIInv
<1> QED
  BY <1>1, CompactInvariant, PTL

(* physically_relocate moves objects over each other in place and never    *)
(* destroys one that is still to be moved, because compute_locations put   *)
(* no object to the right of where it was nor over another.                *)
THEOREM NeverClobbers == CompactSpec => []NoneClobbered
<1>1. CompactIInv => NoneClobbered
  <2> SUFFICES ASSUME CompactIInv, pc \in Fixing \cup {"relocate"},
                      NEW a \in OldObjects, Old(a).mark, Ahead(a)
               PROVE  /\ Carried(a) \in DOMAIN heap
                      /\ LET o == heap[Carried(a)]
                         IN o.mark /\ o.id = Old(a).id
                                   /\ ObjSize(o) = ObjSize(Old(a))
    BY DEF NoneClobbered, Fixing, OldObjects, Old
  <2>1. PICK f \in Locations : Correcting(f)
    BY AfterRemap
  <2>2. InPlace(f, a)
    BY <2>1 DEF Correcting, HeapCarried, HeapSliding, Ahead
  <2> QED
    BY <2>2 DEF InPlace, ObjSize
<1> QED
  BY <1>1, CompactInvariant, PTL

(* What a corrected word points to is what the word pointed to before.     *)
LEMMA MeaningKept ==
  ASSUME NEW f, BeforeOK, Placed(f), HeapCompacted(f),
         hbegin \in Nat, live \in Nat, NEW w \in Int, Follows(w)
  PROVE  MeaningNow(Corrected(f, w)) = MeaningBefore(w)
<1>1. /\ HeaderWords \in Nat /\ before.lo \in Nat /\ before.hi \in Nat
  BY HeaderWordsAssumption DEF BeforeOK
<1>2. hcurrent = hbegin + live
  BY DEF HeapCompacted
<1>3. CASE ~OldPointer(w)
  <2>1. MeaningBefore(w) = <<"word", w>> /\ Corrected(f, w) = w
    BY <1>3 DEF MeaningBefore, Meaning, OldPointer, Corrected
  <2>2. hbegin + live <= hbegin + (before.hi - before.lo)
    BY <1>1 DEF Placed
  <2>3. ~InChunk(w, hbegin, hcurrent)
    <3>1. CASE hbegin = before.lo
      BY <1>1, <1>2, <1>3, <2>2, <3>1 DEF OldPointer, InChunk
    <3>2. CASE hbegin \in RemapBases
      <4>1. ~InChunk(w, hbegin, hbegin + (before.hi - before.lo))
        BY <1>3, <3>2 DEF Follows
      <4> QED
        BY <1>1, <1>2, <2>2, <4>1 DEF InChunk
    <3> QED
      BY <3>1, <3>2 DEF Placed
  <2> QED
    BY <2>1, <2>3 DEF MeaningNow, Meaning
<1>4. CASE OldPointer(w)
  <2>1. PICK a : a = ToData(w)
    OBVIOUS
  <2>2. a \in Survivors /\ a \in OldObjects
    BY <1>4, <2>1, SurvivorsAreObjects DEF Follows
  <2>3. MeaningBefore(w) = <<"object", Old(a).id>>
    BY <1>4, <2>1, <2>2 DEF MeaningBefore, Meaning, OldPointer, OldObjects, Old
  <2>4. PICK t : t = Target(f, a)
    OBVIOUS
  <2>5. /\ t \in Nat /\ hbegin <= t /\ t + SizeOf(a) <= hcurrent
        /\ HeaderWords <= SizeOf(a) /\ SizeOf(a) \in Nat
        /\ t \in DOMAIN heap /\ heap[t].id = Old(a).id
    BY <1>2, <2>2, <2>4, PlacedFacts, OldFacts
    DEF Placed, HeapCompacted, InTarget
  <2>6. PICK p : p = t + HeaderWords
    OBVIOUS
  <2>7. Corrected(f, w) = p
    BY <1>4, <2>1, <2>4, <2>6 DEF Corrected, Content
  <2>8. InChunk(p, hbegin, hcurrent)
    BY <1>1, <1>2, <2>5, <2>6 DEF InChunk, Unboxed
  <2>9. ToData(p) = t
    BY <1>1, <2>5, <2>6 DEF ToData
  <2>10. MeaningNow(p) = <<"object", heap[t].id>>
    BY <2>5, <2>8, <2>9 DEF MeaningNow, Meaning
  <2> QED
    BY <2>3, <2>5, <2>7, <2>10
<1> QED
  BY <1>3, <1>4

LEMMA AfterCompaction ==
  ASSUME CompactIInv, pc = "compacted"
  PROVE  /\ MemoryOK /\ BeforeOK /\ InputOK
         /\ hbegin \in Nat /\ live \in Nat /\ additional \in Nat
         /\ \E f \in Locations : /\ Placed(f) /\ WordsFixed(f)
                                 /\ HeapCompacted(f)
BY DEF CompactIInv, CompactTypeOK, MemoryOK, Correcting

(* Every root is a word the phase has fixed: the bounds of OfRegion skip no *)
(* extra root.                                                             *)
LEMMA RootsAreFixed ==
  ASSUME CompactIInv, pc = "compacted", NEW f, WordsFixed(f), NEW s \in Rooted
  PROVE  s \in Slot /\ s \in FixedSlots
<1>1. MemoryOK /\ InputOK
  BY AfterCompaction
<1>2. s \in Slot
  BY <1>1, RootedByRegion
<1>3. /\ s \in Int /\ s <= StackBottom
      /\ stackTop \in Int /\ GlobalStop \in Int /\ StackBottom \in Int
      /\ Len(extraRoots) \in Nat
  BY <1>1, <1>2, LayoutAssumption DEF Slot, MemoryOK
<1>4. FixedSlots = StackRegion \cup ExtraFixed \cup GlobalRegion
  BY DEF FixedSlots
<1>5. CASE stackTop < s \/ (GlobalStart <= s /\ s < GlobalStop)
  BY <1>2, <1>4, <1>5 DEF StackRegion, GlobalRegion
<1>6. CASE /\ ~(stackTop < s \/ (GlobalStart <= s /\ s < GlobalStop))
           /\ \E j \in 1 .. Len(extraRoots) : s = extraRoots[j]
  <2>1. PICK j \in 1 .. Len(extraRoots) : s = extraRoots[j]
    BY <1>6
  <2>2. s # stackTop /\ s # GlobalStop
    BY <1>1, <2>1 DEF InputOK, ExtraRootsOK
  <2>3. ~OfRegion(s)
    BY <1>3, <1>6, <2>2, LayoutAssumption DEF OfRegion
  <2>4. j < extra
    BY <1>3 DEF WordsFixed, CompactIInv, CompactTypeOK
  <2> QED
    BY <1>2, <1>4, <2>1, <2>3, <2>4 DEF ExtraFixed
<1>7. \/ stackTop < s \/ (GlobalStart <= s /\ s < GlobalStop)
      \/ \E j \in 1 .. Len(extraRoots) : s = extraRoots[j]
  BY <1>1, <1>2, RootedByRegion
<1> QED
  BY <1>2, <1>5, <1>6, <1>7, Zenon

(* The roots once every word has been fixed.                                *)
LEMMA RootsFollow == CompactIInv => RootsPreserved
<1> SUFFICES ASSUME CompactIInv, pc = "compacted"
             PROVE  /\ \A s \in Rooted :
                         MeaningNow(words[s]) = MeaningBefore(before.words[s])
                    /\ \A s \in Slot \ Rooted : words[s] = before.words[s]
  BY DEF RootsPreserved
<1>1. /\ MemoryOK /\ BeforeOK /\ InputOK /\ hbegin \in Nat /\ live \in Nat
      /\ Len(extraRoots) \in Nat
  BY AfterCompaction DEF MemoryOK
<1>2. PICK f : Placed(f) /\ WordsFixed(f) /\ HeapCompacted(f)
  BY AfterCompaction
<1>3. /\ \A s \in Slot : s \in Int /\ s <= StackBottom
      /\ stackTop \in Int /\ GlobalStop \in Int /\ StackBottom \in Int
  BY <1>1, LayoutAssumption DEF Slot, MemoryOK
<1>4. FixedSlots = StackRegion \cup ExtraFixed \cup GlobalRegion
  BY DEF FixedSlots
<1>5. ASSUME NEW s \in Rooted PROVE s \in FixedSlots
  BY <1>2, RootsAreFixed
<1>6. ASSUME NEW s \in Rooted
      PROVE  MeaningNow(words[s]) = MeaningBefore(before.words[s])
  <2>1. s \in Slot
    BY <1>1, RootedByRegion
  <2>2. words[s] = Corrected(f, before.words[s])
    BY <1>2, <1>5, <2>1 DEF WordsFixed
  <2>3. before.words[s] \in Int /\ Follows(before.words[s])
    BY <1>1, <2>1 DEF BeforeOK, InputOK
  <2> QED
    BY <1>1, <1>2, <2>2, <2>3, MeaningKept
<1>7. ASSUME NEW s \in Slot \ Rooted PROVE words[s] = before.words[s]
  <2>1. s \in FixedSlots => s = StackBottom
    BY <1>1, <1>3, <1>4, RootedByRegion
    DEF StackRegion, ExtraFixed, GlobalRegion
  <2>2. Corrected(f, before.words[StackBottom]) = before.words[StackBottom]
    BY <1>1 DEF InputOK, Corrected
  <2> QED
    BY <1>2, <2>1, <2>2 DEF WordsFixed
<1> QED
  BY <1>6, <1>7

(* "Stack is modified incorrectly" never happens: every root, whichever    *)
(* region or extra root it is, points to the object it pointed to, and no  *)
(* other word of the program changed.                                      *)
THEOREM RootsArePreserved == CompactSpec => []RootsPreserved
<1>1. CompactIInv => RootsPreserved
  BY RootsFollow
<1> QED
  BY <1>1, CompactInvariant, PTL

(* The objects once all have been moved.                                   *)
LEMMA GraphFollows == CompactIInv => GraphPreserved
<1> SUFFICES ASSUME CompactIInv, pc = "compacted"
             PROVE  \E place \in [Survivors -> DOMAIN heap] :
                      /\ \A a \in Survivors :
                           SameObject(heap[place[a]], before.heap[a])
                      /\ \A a, b \in Survivors : a < b => place[a] < place[b]
                      /\ \A c \in DOMAIN heap :
                           \E a \in Survivors : place[a] = c
  BY DEF GraphPreserved
<1>1. BeforeOK /\ InputOK /\ hbegin \in Nat /\ live \in Nat
  BY AfterCompaction
<1>2. PICK f : Placed(f) /\ HeapCompacted(f)
  BY AfterCompaction
<1>3. PICK place : place = [a \in Survivors |-> Target(f, a)]
  OBVIOUS
<1>4. place \in [Survivors -> DOMAIN heap]
      /\ \A c \in DOMAIN heap : \E a \in Survivors : place[a] = c
  BY <1>2, <1>3 DEF HeapCompacted
<1>5. ASSUME NEW a \in Survivors, NEW b \in Survivors, a < b
      PROVE  place[a] < place[b]
  <2>1. f[a] + SizeOf(a) <= f[b]
    BY <1>2, <1>5 DEF Placed, Packed, SizeOf, Old
  <2>2. /\ f[a] \in Int /\ Target(f, a) = hbegin + (f[a] - before.lo)
        /\ SizeOf(a) \in Nat /\ 0 < SizeOf(a)
    BY <1>1, <1>2, PlacedFacts, OldFacts, SurvivorsAreObjects DEF Placed
  <2>3. f[b] \in Int /\ Target(f, b) = hbegin + (f[b] - before.lo)
    BY <1>1, <1>2, PlacedFacts DEF Placed
  <2> QED
    BY <1>1, <1>3, <2>1, <2>2, <2>3 DEF BeforeOK
<1>6. ASSUME NEW a \in Survivors
      PROVE  SameObject(heap[place[a]], before.heap[a])
  <2>1. PICK o, b : o = heap[place[a]] /\ b = Old(a)
    OBVIOUS
  <2>2. o.id = b.id /\ o.kind = b.kind /\ o.body = CorrectedBody(f, a)
    BY <1>2, <1>3, <2>1 DEF HeapCompacted, InTarget
  <2>3. b \in Object /\ b.body \in Seq(Int) /\ Len(b.body) \in Nat
    BY <1>1, <2>1, OldFacts, SurvivorsAreObjects
  <2>4. /\ Len(o.body) = Len(b.body)
        /\ \A i \in 1 .. Len(b.body) :
             o.body[i] = IF i \in PtrFields(b) THEN Corrected(f, b.body[i])
                                               ELSE b.body[i]
    BY <2>1, <2>2, <2>3 DEF CorrectedBody
  <2>5. FirstField(b) \in Int
    BY <2>3 DEF FirstField
  <2>6. ASSUME NEW i \in 1 .. Len(b.body), i < FirstField(b)
        PROVE  o.body[i] = b.body[i]
    BY <2>3, <2>4, <2>5, <2>6 DEF PtrFields
  <2>7. ASSUME NEW i \in 1 .. Len(b.body), ~(i < FirstField(b))
        PROVE  MeaningNow(o.body[i]) = MeaningBefore(b.body[i])
    <3>1. b.body[i] \in Int
      BY <2>3
    <3>2. CASE i \in PtrFields(b)
      <4>1. Follows(b.body[i])
        BY <1>1, <2>1, <3>2 DEF InputOK
      <4> QED
        BY <1>1, <1>2, <2>4, <3>1, <3>2, <4>1, MeaningKept
    <3>3. CASE i \notin PtrFields(b)
      <4>1. Unboxed(b.body[i])
        BY <2>3, <2>5, <2>7, <3>3 DEF PtrFields
      <4>2. o.body[i] = b.body[i]
        BY <2>4, <3>3
      <4> QED
        BY <4>1, <4>2 DEF MeaningNow, MeaningBefore, Meaning, InChunk
    <3> QED
      BY <3>2, <3>3
  <2> QED
    BY <2>1, <2>2, <2>4, <2>6, <2>7 DEF SameObject, Old
<1> QED
  BY <1>4, <1>5, <1>6

(* "GC invariant is broken" never happens: whatever the object graph, the  *)
(* phase ends with the live objects and no other, in the order they were   *)
(* in, each with the references it had.                                    *)
THEOREM GraphIsPreserved == CompactSpec => []GraphPreserved
<1>1. CompactIInv => GraphPreserved
  BY GraphFollows
<1> QED
  BY <1>1, CompactInvariant, PTL

(* The heap once all objects have been moved.                              *)
LEMMA ReadyWhenCompacted == CompactIInv => HeapReady
<1> SUFFICES ASSUME CompactIInv, pc = "compacted"
             PROVE  /\ Contiguous(heap, hbegin, hcurrent)
                    /\ \A a \in DOMAIN heap : ~heap[a].mark /\ ~heap[a].enq
                    /\ hcurrent + additional <= hend
  BY DEF HeapReady
<1>1. /\ MemoryOK /\ BeforeOK /\ hbegin \in Nat /\ live \in Nat
      /\ additional \in Nat /\ before.lo \in Nat
  BY AfterCompaction DEF BeforeOK
<1>2. PICK f : Placed(f) /\ HeapCompacted(f)
  BY AfterCompaction
<1>3. /\ hcurrent = hbegin + live
      /\ DOMAIN heap = {Target(f, a) : a \in Survivors}
  BY <1>2 DEF HeapCompacted
<1>4. ASSUME NEW a \in Survivors
      PROVE  /\ InTarget(f, a)
             /\ f[a] \in Int /\ SizeOf(a) \in Nat /\ 0 < SizeOf(a)
             /\ Target(f, a) = hbegin + (f[a] - before.lo)
             /\ Target(f, a) \in Nat /\ hbegin <= Target(f, a)
             /\ Target(f, a) + SizeOf(a) <= hcurrent
             /\ NextObj(heap, Target(f, a)) = Target(f, a) + SizeOf(a)
  <2>1. InTarget(f, a)
    BY <1>2 DEF HeapCompacted
  <2>2. /\ SizeOf(a) \in Nat /\ 0 < SizeOf(a)
        /\ Old(a).body \in Seq(Int) /\ Len(Old(a).body) \in Nat
    BY <1>1, OldFacts, SurvivorsAreObjects
  <2>3. Len(heap[Target(f, a)].body) = Len(Old(a).body)
    BY <2>1, <2>2 DEF InTarget, CorrectedBody
  <2>4. NextObj(heap, Target(f, a)) = Target(f, a) + SizeOf(a)
    BY <2>3 DEF NextObj, ObjSize, SizeOf
  <2> QED
    BY <1>1, <1>2, <1>3, <2>1, <2>2, <2>4, PlacedFacts DEF Placed
<1>5. IsFiniteSet(DOMAIN heap)
  <2>1. IsFiniteSet(Survivors)
    BY <1>1, FS_Subset, SurvivorsAreObjects DEF BeforeOK, Contiguous, OldObjects
  <2> DEFINE g == [a \in Survivors |-> Target(f, a)]
  <2>2. g \in Surjection(Survivors, DOMAIN heap)
    BY <1>3 DEF Surjection
  <2> QED
    BY <2>1, <2>2, FS_Surjection
<1>6. hbegin = hcurrent \/ hbegin \in DOMAIN heap
  <2>1. live = 0 \/ \E a \in Survivors : f[a] = before.lo
    BY <1>2 DEF Placed, Packed
  <2> QED
    BY <1>1, <1>3, <1>4, <2>1
<1>7. ASSUME NEW a \in Survivors
      PROVE  \/ NextObj(heap, Target(f, a)) = hcurrent
             \/ NextObj(heap, Target(f, a)) \in DOMAIN heap
  <2>1. \/ f[a] + SizeOf(a) = before.lo + live
        \/ \E c \in Survivors : f[c] = f[a] + SizeOf(a)
    BY <1>2 DEF Placed, Packed, SizeOf, Old
  <2>2. CASE f[a] + SizeOf(a) = before.lo + live
    BY <1>1, <1>3, <1>4, <2>2
  <2>3. CASE \E c \in Survivors : f[c] = f[a] + SizeOf(a)
    <3>1. PICK c \in Survivors : f[c] = f[a] + SizeOf(a)
      BY <2>3
    <3>2. Target(f, c) = Target(f, a) + SizeOf(a)
      BY <1>1, <1>4, <3>1
    <3> QED
      BY <1>3, <1>4, <3>2
  <2> QED
    BY <2>1, <2>2, <2>3
<1>8. ASSUME NEW a \in Survivors, NEW b \in Survivors,
             Target(f, a) < Target(f, b)
      PROVE  NextObj(heap, Target(f, a)) <= Target(f, b)
  <2>1. a \in Nat /\ b \in Nat
    BY <1>1, OldFacts, SurvivorsAreObjects
  <2>2. /\ a < b => f[a] + SizeOf(a) <= f[b]
        /\ b < a => f[b] + SizeOf(b) <= f[a]
    BY <1>2 DEF Placed, Packed, SizeOf, Old
  <2>3. f[a] + SizeOf(a) <= f[b]
    <3>1. f[a] < f[b]
      BY <1>1, <1>4, <1>8
    <3>2. a # b /\ ~(b < a)
      BY <1>4, <2>2, <3>1
    <3> QED
      BY <2>1, <2>2, <3>2
  <2> QED
    BY <1>1, <1>4, <2>3
<1>9. Contiguous(heap, hbegin, hcurrent)
  BY <1>1, <1>3, <1>4, <1>5, <1>6, <1>7, <1>8 DEF Contiguous
<1>10. \A a \in DOMAIN heap : ~heap[a].mark /\ ~heap[a].enq
  BY <1>3, <1>4 DEF InTarget
<1>11. hcurrent + additional <= hend
  BY <1>1, <1>2, <1>3 DEF Placed, hend, MemoryOK
<1> QED
  BY <1>9, <1>10, <1>11

(* The heap the phase leaves has no holes and no marks, and what the       *)
(* mutator asked for fits, whatever survived and however much it asks for. *)
THEOREM LeavesHeapReady == CompactSpec => []HeapReady
<1>1. CompactIInv => HeapReady
  BY ReadyWhenCompacted
<1> QED
  BY <1>1, CompactInvariant, PTL

(* No collection gives memory back: only remap changes the size of the     *)
(* heap, and it never asks for less than there is.                         *)
THEOREM NeverShrinks == CompactSpec => HeapNeverShrinks
<1>1. CompactIInv /\ [CompactNext]_compactState => [hsize' >= hsize]_compactState
  <2> SUFFICES ASSUME CompactIInv, CompactNext PROVE hsize' >= hsize
    OBVIOUS
  <2>1. hsize \in Nat /\ live \in Nat /\ additional \in Nat
    BY DEF CompactIInv, CompactTypeOK, MemoryOK
  <2>2. CASE Remap
    BY <2>1, <2>2, NextHeapSizeFacts DEF Remap
  <2>3. CASE ~Remap
    <3>1. hsize' = hsize
      BY <2>3 DEF CompactNext, LocateLive, LocateDead, Located, RemapFails,
         FixLiveFields, FixDeadFields, FieldsFixed, FixStack, FixExtraRoot,
         SkipExtraRoot, ExtraRootsFixed, FixGlobals, RelocateLive,
         RelocateDead, Relocated, memory
    <3> QED
      BY <2>1, <3>1
  <2> QED
    BY <2>2, <2>3
<1> QED
  BY <1>1, CompactInvariant, PTL DEF CompactSpec, HeapNeverShrinks
=============================================================================

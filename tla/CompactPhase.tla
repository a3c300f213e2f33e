---------------------------- MODULE CompactPhase ----------------------------
(***************************************************************************)
(* compact_phase of src/runtime/gc.c: the marked objects slide to the      *)
(* beginning of the heap, in address order, after the heap itself was      *)
(* resized and perhaps moved by mremap, and every root and every field of  *)
(* a marked object is made to follow its object.                           *)
(*                                                                         *)
(* One step is one iteration of a loop over objects or over extra roots;   *)
(* a scan of a region of words, each handled on its own, is one step.      *)
(* "before" is a history variable: the dump that a FULL_INVARIANT_CHECKS   *)
(* build takes of the heap and the stack before the phase, to compare with *)
(* the ones it takes after it.                                             *)
(***************************************************************************)
EXTENDS LamaHeap

CONSTANTS
  ExtraRoomCoefficient,   (* EXTRA_ROOM_HEAP_COEFFICIENT                   *)
  MinimumHeapCapacity,    (* MINIMUM_HEAP_CAPACITY                         *)
  RemapBases              (* where mremap may put a heap it has to move    *)

ASSUME CapacityAssumption ==
  /\ ExtraRoomCoefficient \in Nat \ {0} /\ MinimumHeapCapacity \in Nat
  /\ RemapBases \subseteq Nat

VARIABLES
  scan,          (* the heap iterator of the loop                          *)
  live,          (* live_size, as far as compute_locations has counted     *)
  extra,         (* index of the extra root to fix next                    *)
  oldBegin, oldCurrent,   (* old_heap.begin, old_heap.current              *)
  additional,    (* additional_size: words the mutator asks for            *)
  before         (* [heap, words, lo, hi] at the beginning of the phase    *)

compactVars == <<scan, live, extra, oldBegin, oldCurrent, additional, before>>

CompactPC == {"locate", "remap", "fixFields", "fixStack", "fixExtra",
              "fixGlobals", "relocate", "compacted", "failed"}

Done == scan >= hcurrent     \* heap_is_done_iterator
-----------------------------------------------------------------------------
(* Mutant: the forward address is that of the contents.                    *)
LocateLiveContent ==
  /\ pc = "locate" /\ ~Done /\ heap[scan].mark
  /\ heap' = [heap EXCEPT ![scan].fwd = Content(hbegin + live)]
  /\ live' = live + ObjSize(heap[scan])
  /\ scan' = NextObj(heap, scan)
  /\ UNCHANGED <<hbegin, hsize, hcurrent, words, stackTop, extraRoots,
                 pc, extra, oldBegin, oldCurrent, additional, before>>

(* compute_locations: a marked object goes right after the previous one.   *)
LocateLive ==
  /\ pc = "locate" /\ ~Done /\ heap[scan].mark
  /\ heap' = [heap EXCEPT ![scan].fwd = hbegin + live]
  /\ live' = live + ObjSize(heap[scan])
  /\ scan' = NextObj(heap, scan)
  /\ UNCHANGED <<hbegin, hsize, hcurrent, words, stackTop, extraRoots,
                 pc, extra, oldBegin, oldCurrent, additional, before>>

(* Mutant: the iterator steps over the header of the object only.          *)
LocateDeadNextWord ==
  /\ pc = "locate" /\ ~Done /\ ~heap[scan].mark
  /\ scan' = Content(scan)
  /\ UNCHANGED <<memory, pc, live, extra, oldBegin, oldCurrent, additional,
                 before>>

(* Mutant: the iterator steps over live objects only.                      *)
LocateDeadInPlace ==
  /\ pc = "locate" /\ ~Done /\ ~heap[scan].mark
  /\ UNCHANGED <<memory, pc, compactVars>>

LocateDead ==
  /\ pc = "locate" /\ ~Done /\ ~heap[scan].mark
  /\ scan' = NextObj(heap, scan)
  /\ UNCHANGED <<memory, pc, live, extra, oldBegin, oldCurrent, additional,
                 before>>

Located ==
  /\ pc = "locate" /\ Done
  /\ pc' = "remap"
  /\ UNCHANGED <<memory, compactVars>>

Larger(m, n) == IF m >= n THEN m ELSE n

(* Mutant: room for what survives, none for what is asked for.             *)
NextHeapSizeLiveOnly == Larger(live * ExtraRoomCoefficient, MinimumHeapCapacity)

NextHeapSize ==
  Larger(live * ExtraRoomCoefficient + additional, MinimumHeapCapacity)

(* Mutant: the heap is cut down to what it needs.                          *)
PseudoSizeNeeded == NextHeapSize

NextHeapPseudoSize == Larger(NextHeapSize, hsize)

(* mremap leaves the heap where it is, or moves it to addresses that were  *)
(* not in use; a heap that keeps its size does not move.                   *)
Placements(size) ==
  {hbegin} \cup
  IF size = hsize THEN {}
  ELSE {b \in RemapBases : b + size <= hbegin \/ hend < b}

Remap ==
  /\ pc = "remap"
  /\ hsize' = NextHeapPseudoSize
  /\ hbegin' \in Placements(hsize')
  /\ hcurrent' = hbegin' + (hcurrent - hbegin)
  /\ heap' = [a \in {b + (hbegin' - hbegin) : b \in DOMAIN heap} |->
                heap[a - (hbegin' - hbegin)]]
  /\ oldBegin' = hbegin /\ oldCurrent' = hcurrent
  /\ scan' = hbegin'
  /\ pc' = "fixFields"
  /\ UNCHANGED <<words, stackTop, extraRoots, live, extra, additional, before>>

(* Mutant: the failure is not noticed, and the heap stays what it was.     *)
RemapFailsOn ==
  /\ pc = "remap" /\ NextHeapSize > hsize
  /\ oldBegin' = hbegin /\ oldCurrent' = hcurrent
  /\ scan' = hbegin
  /\ pc' = "fixFields"
  /\ UNCHANGED <<memory, live, extra, additional, before>>

(* MAP_FAILED: the program exits.                                          *)
RemapFails ==
  /\ pc = "remap" /\ NextHeapSize > hsize
  /\ pc' = "failed"
  /\ UNCHANGED <<memory, compactVars>>
-----------------------------------------------------------------------------
(* Where the word w, a pointer into the old heap, has to point: its object *)
(* was carried to the new chunk and will be at its forward address there.  *)
Carried(a) == hbegin + (a - oldBegin)

Forwarded(a) == Carried(heap[a].fwd)

(* Mutant: as if no content pointer could be heap.current.                 *)
FixedStrict(w) == IF InChunk(w, oldBegin, oldCurrent - 1)
                  THEN Content(Forwarded(ToData(Carried(w))))
                  ELSE w

Fixed(w) == IF InChunk(w, oldBegin, oldCurrent)
            THEN Content(Forwarded(ToData(Carried(w))))
            ELSE w

FixLiveFields ==
  /\ pc = "fixFields" /\ ~Done /\ heap[scan].mark
  /\ LET o == heap[scan]
     IN heap' = [heap EXCEPT ![scan].body =
                   [i \in 1 .. Len(o.body) |->
                      IF i \in PtrFields(o) THEN Fixed(o.body[i])
                                            ELSE o.body[i]]]
  /\ scan' = NextObj(heap, scan)
  /\ UNCHANGED <<hbegin, hsize, hcurrent, words, stackTop, extraRoots,
                 pc, live, extra, oldBegin, oldCurrent, additional, before>>

FixDeadFields ==
  /\ pc = "fixFields" /\ ~Done /\ ~heap[scan].mark
  /\ scan' = NextObj(heap, scan)
  /\ UNCHANGED <<memory, pc, live, extra, oldBegin, oldCurrent, additional,
                 before>>

FieldsFixed ==
  /\ pc = "fixFields" /\ Done
  /\ pc' = "fixStack"
  /\ UNCHANGED <<memory, compactVars>>

(* scan_and_fix_region over the words from lo to hi - 1.                   *)
FixRegion(lo, hi) ==
  words' = [s \in Slot |-> IF lo <= s /\ s < hi THEN Fixed(words[s])
                                                ELSE words[s]]

(* The region of the stack to fix ends one word later than the one to mark.*)
FixStack ==
  /\ pc = "fixStack"
  /\ FixRegion(stackTop + 1, StackBottom + 1)
  /\ extra' = 1
  /\ pc' = "fixExtra"
  /\ UNCHANGED <<heap, hbegin, hsize, hcurrent, stackTop, extraRoots,
                 scan, live, oldBegin, oldCurrent, additional, before>>

(* Mutant: whatever lies below the bottom of the stack is on it.           *)
OfRegionBelow(s) == s < StackBottom

(* An extra root on the stack or among the globals belongs to the scan of  *)
(* its region.                                                             *)
OfRegion(s) ==
  \/ stackTop <= s /\ s < StackBottom
  \/ GlobalStart <= s /\ s <= GlobalStop

FixExtraRoot ==
  /\ pc = "fixExtra" /\ extra <= Len(extraRoots)
  /\ ~OfRegion(extraRoots[extra])
  /\ words' = [words EXCEPT ![extraRoots[extra]] = Fixed(@)]
  /\ extra' = extra + 1
  /\ UNCHANGED <<heap, hbegin, hsize, hcurrent, stackTop, extraRoots,
                 pc, scan, live, oldBegin, oldCurrent, additional, before>>

SkipExtraRoot ==
  /\ pc = "fixExtra" /\ extra <= Len(extraRoots)
  /\ OfRegion(extraRoots[extra])
  /\ extra' = extra + 1
  /\ UNCHANGED <<memory, pc, scan, live, oldBegin, oldCurrent, additional,
                 before>>

ExtraRootsFixed ==
  /\ pc = "fixExtra" /\ extra > Len(extraRoots)
  /\ pc' = "fixGlobals"
  /\ UNCHANGED <<memory, compactVars>>

(* The globals, and physically_relocate's iterator at its first object.    *)
FixGlobals ==
  /\ pc = "fixGlobals"
  /\ FixRegion(GlobalStart, GlobalStop)
  /\ scan' = hbegin
  /\ pc' = "relocate"
  /\ UNCHANGED <<heap, hbegin, hsize, hcurrent, stackTop, extraRoots,
                 live, extra, oldBegin, oldCurrent, additional, before>>
-----------------------------------------------------------------------------
(* Writing the object o at the address to destroys what overlaps it.       *)
Spared(to, o) == {b \in DOMAIN heap : NextObj(heap, b) <= to \/ to + ObjSize(o) <= b}

MoveTo(to, o) ==
  heap' = [a \in Spared(to, o) \cup {to} |-> IF a = to THEN o ELSE heap[a]]

(* Mutant: objects are moved with their mark.                              *)
MovedMarked(o) == o

Moved(o) == [o EXCEPT !.mark = FALSE]

(* The next object is looked up before this one's header can be destroyed. *)
RelocateLive ==
  /\ pc = "relocate" /\ ~Done /\ heap[scan].mark
  /\ MoveTo(Forwarded(scan), Moved(heap[scan]))
  /\ scan' = NextObj(heap, scan)
  /\ UNCHANGED <<hbegin, hsize, hcurrent, words, stackTop, extraRoots,
                 pc, live, extra, oldBegin, oldCurrent, additional, before>>

RelocateDead ==
  /\ pc = "relocate" /\ ~Done /\ ~heap[scan].mark
  /\ scan' = NextObj(heap, scan)
  /\ UNCHANGED <<memory, pc, live, extra, oldBegin, oldCurrent, additional,
                 before>>

(* What lies from heap.current on is no longer part of the heap.           *)
Relocated ==
  /\ pc = "relocate" /\ Done
  /\ hcurrent' = hbegin + live
  /\ heap' = [a \in {b \in DOMAIN heap : b < hcurrent'} |-> heap[a]]
  /\ pc' = "compacted"
  /\ UNCHANGED <<hbegin, hsize, words, stackTop, extraRoots, compactVars>>

CompactNext ==
  \/ LocateLive \/ LocateDead \/ Located \/ Remap \/ RemapFails
  \/ FixLiveFields \/ FixDeadFields \/ FieldsFixed
  \/ FixStack \/ FixExtraRoot \/ SkipExtraRoot \/ ExtraRootsFixed \/ FixGlobals
  \/ RelocateLive \/ RelocateDead \/ Relocated
-----------------------------------------------------------------------------
(* The phase starts with what the mark phase leaves: every object a root   *)
(* or a marked object points to is marked, no object is enqueued.          *)
Live == {a \in DOMAIN heap : heap[a].mark}

LiveClosed == Pointees(RootWords) \subseteq Live /\ Closed(Live)

(* The pool of extra roots: the addresses of distinct variables of the C   *)
(* functions that are running or of static ones.  The inclusive bounds of  *)
(* OfRegion skip two words no region scan fixes; the properties are about  *)
(* layouts in which no extra root is one of them.                          *)
ExtraRootsOK ==
  /\ \A i, j \in 1 .. Len(extraRoots) : extraRoots[i] = extraRoots[j] => i = j
  /\ \A i \in 1 .. Len(extraRoots) : extraRoots[i] \notin {stackTop, GlobalStop}

(* Where mremap may move the heap nothing was, so that no word the phase   *)
(* reads as a pointer leads there: to the heap it left or outside both.    *)
LivePointers == UNION {{heap[a].body[i] : i \in PtrFields(heap[a])} : a \in Live}

BasesUnused ==
  \A w \in RootWords \cup LivePointers :
    ~ValidHeapPointer(w) =>
      \A b \in RemapBases : ~InChunk(w, b, b + (hcurrent - hbegin))

(* The word at __gc_stack_bottom is the return address of the frame below  *)
(* Lama's.                                                                 *)
CompactStart ==
  /\ LiveClosed /\ BasesUnused
  /\ \A a \in DOMAIN heap : ~heap[a].enq
  /\ ~ValidHeapPointer(words[StackBottom])
  /\ pc = "locate" /\ scan = hbegin /\ live = 0 /\ extra = 1
  /\ oldBegin = hbegin /\ oldCurrent = hcurrent
  /\ additional \in Nat
  /\ before = [heap |-> heap, words |-> words, lo |-> hbegin, hi |-> hcurrent]

CompactInit ==
  /\ MemoryOK
  /\ Contiguous(heap, hbegin, hcurrent)
  /\ ExtraRootsOK
  /\ CompactStart

compactState == <<memory, pc, compactVars>>

CompactSpec == CompactInit /\ [][CompactNext]_compactState

FairCompactSpec == CompactSpec /\ WF_compactState(CompactNext)
-----------------------------------------------------------------------------
(* Every variable has its type, and the iterator is at an object.          *)
CompactTypeOK ==
  /\ MemoryOK
  /\ pc \in CompactPC
  /\ pc \in {"locate", "fixFields", "relocate"} =>
       scan \in DOMAIN heap \cup {hcurrent}
  /\ live \in 0 .. hsize /\ extra \in 1 .. Len(extraRoots) + 1
  /\ additional \in Nat

(* Sliding never destroys a live object that is still to be moved, though  *)
(* objects are moved over each other in place: what is left to relocate is *)
(* where it was, up to the fixed references, and still marked.             *)
Ahead(a) == pc = "relocate" => scan <= Carried(a)

NoneClobbered ==
  pc \in {"fixFields", "fixStack", "fixExtra", "fixGlobals", "relocate"} =>
    \A a \in DOMAIN before.heap :
      before.heap[a].mark /\ Ahead(a) =>
        /\ Carried(a) \in DOMAIN heap
        /\ LET o == heap[Carried(a)]
           IN o.mark /\ o.id = before.heap[a].id
                     /\ ObjSize(o) = ObjSize(before.heap[a])

(* What a word stands for in a heap h between lo and hi: the object it     *)
(* points to, by name, or itself.                                          *)
Meaning(w, h, lo, hi) ==
  CASE ~InChunk(w, lo, hi) -> <<"word", w>>
    [] InChunk(w, lo, hi) /\ ToData(w) \in DOMAIN h ->
         <<"object", h[ToData(w)].id>>
    [] OTHER -> <<"dangling", w>>

MeaningBefore(w) == Meaning(w, before.heap, before.lo, before.hi)
MeaningNow(w) == Meaning(w, heap, hbegin, hcurrent)

(* "Stack is modified incorrectly": when the phase is over every root      *)
(* points to the object it pointed to before, each having been fixed once, *)
(* and no other word was written.                                          *)
Rooted == {RootSlots[i] : i \in 1 .. Len(RootSlots)}

RootsPreserved ==
  pc = "compacted" =>
    /\ \A s \in Rooted : MeaningNow(words[s]) = MeaningBefore(before.words[s])
    /\ \A s \in Slot \ Rooted : words[s] = before.words[s]

(* "GC invariant is broken": when the phase is over the heap holds exactly *)
(* the live objects, in the order they were in, each with its kind, its    *)
(* raw words and its references to the same objects.                       *)
SameObject(o, b) ==
  /\ o.id = b.id /\ o.kind = b.kind /\ Len(o.body) = Len(b.body)
  /\ \A i \in 1 .. Len(b.body) :
       IF i < FirstField(b) THEN o.body[i] = b.body[i]
       ELSE MeaningNow(o.body[i]) = MeaningBefore(b.body[i])

Survivors == {a \in DOMAIN before.heap : before.heap[a].mark}

GraphPreserved ==
  pc = "compacted" =>
    \E place \in [Survivors -> DOMAIN heap] :
      /\ \A a \in Survivors : SameObject(heap[place[a]], before.heap[a])
      /\ \A a, b \in Survivors : a < b => place[a] < place[b]
      /\ \A c \in DOMAIN heap : \E a \in Survivors : place[a] = c

(* The phase leaves a heap without holes, with no mark left for the next   *)
(* collection, and with room for the allocation that asked for it; the     *)
(* heap never shrinks.                                                     *)
HeapReady ==
  pc = "compacted" =>
    /\ Contiguous(heap, hbegin, hcurrent)
    /\ \A a \in DOMAIN heap : ~heap[a].mark /\ ~heap[a].enq
    /\ hcurrent + additional <= hend

HeapNeverShrinks == [][hsize' >= hsize]_compactState

CompactTerminates == <>(pc \in {"compacted", "failed"})
=============================================================================

--------------------------- MODULE MCCompactPhase ---------------------------
(***************************************************************************)
(* Model-checking instance of CompactPhase: every heap of at most          *)
(* MaxObjects objects of the given shapes, every set of live objects,      *)
(* every choice of references between them and from the roots.             *)
(***************************************************************************)
EXTENDS CompactPhase

CONSTANTS
  MaxObjects, HeapBegin, StackTop, ExtraRootLists, Requests,
  Shapes                      (* kinds with body lengths                   *)

MCShapes == {<<"ARRAY", 0>>, <<"SEXP", 2>>, <<"STRING", 1>>}
MCExtraRootLists == {<<2, 4, 0>>, <<2>>}
MCRemapBases == {8, 60}

(* Header addresses of objects of the shapes ss laid out from HeapBegin.   *)
Addresses(ss) ==
  LET addr[i \in 1 .. Len(ss) + 1] ==
        IF i = 1 THEN HeapBegin
        ELSE addr[i - 1] + HeaderWords + ss[i - 1][2]
  IN addr

(* Raw words look like a pointer to the first object.                      *)
Bodies(shape, contents) ==
  LET raw == HeapBegin + HeaderWords
      any == contents \cup {-1}
  IN CASE shape[1] = "STRING" -> {[i \in 1 .. shape[2] |-> raw]}
       [] shape[1] = "ARRAY"  -> [1 .. shape[2] -> any]
       [] OTHER -> {<<raw>> \o t : t \in [1 .. shape[2] - 1 -> any]}

(* The fields of garbage are never read: they are left unboxed.            *)
MCInit ==
  \E n \in 0 .. MaxObjects : \E ss \in [1 .. n -> Shapes] :
  \E marked \in SUBSET (1 .. n), extras \in ExtraRootLists :
    LET addr     == Addresses(ss)
        targets  == {Content(addr[i]) : i \in marked}
        at(a)    == CHOOSE i \in 1 .. n : addr[i] = a
        choices(i) == Bodies(ss[i], IF i \in marked THEN targets ELSE {})
        objects  == {addr[i] : i \in 1 .. n}
    IN \E body \in [1 .. n -> UNION {choices(i) : i \in 1 .. n}],
          w1, w4 \in targets \cup {-1} :
         /\ \A i \in 1 .. n : body[i] \in choices(i)
         /\ heap = [a \in objects |->
                      [id |-> a, kind |-> ss[at(a)][1], body |-> body[at(a)],
                       fwd |-> 0, mark |-> at(a) \in marked, enq |-> FALSE]]
         /\ hbegin = HeapBegin
         /\ hcurrent = addr[n + 1]
         /\ hsize = addr[n + 1] - HeapBegin
         /\ stackTop = StackTop
         /\ extraRoots = extras
         /\ words = [s \in Slot |-> CASE s = GlobalStart -> w1
                                      [] s = StackTop - 1 -> w1
                                      [] s = StackTop + 1 -> w4
                                      [] s = StackTop -> HeapBegin + 1
                                      [] OTHER -> -1]
         /\ additional \in Requests
         /\ pc = "locate" /\ scan = hbegin /\ live = 0 /\ extra = 1
         /\ oldBegin = hbegin /\ oldCurrent = hcurrent
         /\ before = [heap |-> heap, words |-> words,
                      lo |-> hbegin, hi |-> hcurrent]

MCSpec == MCInit /\ [][CompactNext]_compactState /\ WF_compactState(CompactNext)
=============================================================================

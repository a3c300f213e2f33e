----------------------------- MODULE MCMarkPhase -----------------------------
(***************************************************************************)
(* Model-checking instance of MarkPhase: every heap of at most MaxObjects  *)
(* objects of the given shapes, with every choice of pointers in their     *)
(* fields and in the root words.                                           *)
(***************************************************************************)
EXTENDS MarkPhase

CONSTANTS
  MaxObjects, MaxFields,      (* bounds on objects and pointer fields      *)
  HeapBegin, StackTop, ExtraRootLists,
  Shapes                      (* kinds with body lengths                   *)

MCShapes == {<<"ARRAY", 0>>, <<"ARRAY", 2>>, <<"SEXP", 2>>, <<"STRING", 1>>}
MCExtraRootLists == {<<3, 1>>}

(* Header addresses of objects of the shapes ss laid out from HeapBegin.   *)
Addresses(ss) ==
  LET addr[i \in 1 .. Len(ss) + 1] ==
        IF i = 1 THEN HeapBegin
        ELSE addr[i - 1] + HeaderWords + ss[i - 1][2]
  IN addr

(* A body starts with raw words, as many as these.                         *)
RawWords(shape) == CASE shape[1] = "ARRAY" -> 0
                     [] shape[1] = "STRING" -> shape[2]
                     [] OTHER -> 1

(* The fields of the objects of the shapes ss before the i-th object, and  *)
(* of all of them at i = Len(ss) + 1.                                      *)
FieldsBefore(ss) ==
  LET count[i \in 1 .. Len(ss) + 1] ==
        IF i = 1 THEN 0
        ELSE count[i - 1] + ss[i - 1][2] - RawWords(ss[i - 1])
  IN count

FieldCount(ss) == FieldsBefore(ss)[Len(ss) + 1]

(* Raw words look like a pointer to the first object.                      *)
MCInit ==
  \E n \in 0 .. MaxObjects :
  \E ss \in {t \in [1 .. n -> Shapes] : FieldCount(t) <= MaxFields} :
    LET addr     == Addresses(ss)
        contents == {Content(addr[i]) : i \in 1 .. n}
        objects  == {addr[i] : i \in 1 .. n}
        at       == [a \in objects |-> CHOOSE i \in 1 .. n : addr[i] = a]
        shapeAt  == [a \in objects |-> ss[at[a]]]
        first    == FieldsBefore(ss)
        bodies(f) == [a \in objects |->
                        [j \in 1 .. shapeAt[a][2] |->
                           IF j <= RawWords(shapeAt[a])
                           THEN Content(HeapBegin)
                           ELSE f[first[at[a]] + j - RawWords(shapeAt[a])]]]
    IN \E f \in [1 .. FieldCount(ss) -> contents \cup {-1}] :
       LET body == bodies(f)
       IN \E w0, w1 \in contents \cup {-1}, extra \in ExtraRootLists :
         /\ heap = [a \in objects |->
                      [id |-> a, kind |-> shapeAt[a][1], body |-> body[a],
                       fwd |-> 0, mark |-> FALSE, enq |-> FALSE]]
         /\ hbegin = HeapBegin
         /\ hcurrent = addr[n + 1]
         /\ hsize = addr[n + 1] - HeapBegin
         /\ stackTop = StackTop
         /\ extraRoots = extra
         /\ words = [s \in Slot |->
                       CASE s = 1 -> w0
                         [] s = StackTop + 1 -> w1
                         [] s = GlobalStart /\ w1 = -1 /\ n > 0 ->
                              Content(HeapBegin)
                         [] OTHER -> -1]
         /\ MarkStart
         /\ qHead = hbegin /\ qTail = hbegin /\ obj = hbegin /\ field = 1

MCSpec == MCInit /\ [][MarkNext]_markState /\ WF_markState(MarkNext)
=============================================================================

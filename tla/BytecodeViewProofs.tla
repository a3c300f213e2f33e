------------------------ MODULE BytecodeViewProofs -------------------------
(***************************************************************************)
(* What the stack machine is to have where the bytecode interpreter is:    *)
(* its operands are what the frames in the array have as temporaries, one  *)
(* frame after the other; its frames are read from the array; and how both *)
(* change with the words of the array.                                     *)
(***************************************************************************)
EXTENDS BytecodeInterpProofs, NaturalsInduction, WellFoundedInduction

-----------------------------------------------------------------------------
(* Sequences, and sequences of them.                                       *)

(* f is what FlattenSeq goes through for the sequences in s.               *)
Flattens(f, s) ==
  f = [i \in 1 .. Len(s) |-> IF i = 1 THEN s[i] ELSE f[i - 1] \o s[i]]

FrontOf(s, n) == [k \in 1 .. n |-> s[k]]

LEMMA FrontFacts ==
  ASSUME NEW S, NEW s \in Seq(S), NEW n \in 0 .. Len(s)
  PROVE  /\ FrontOf(s, n) \in Seq(S) /\ Len(FrontOf(s, n)) = n
         /\ \A k \in 1 .. n : FrontOf(s, n)[k] = s[k]
         /\ \A m \in 0 .. n : FrontOf(FrontOf(s, n), m) = FrontOf(s, m)
<1>1. Len(s) \in Nat /\ s \in [1 .. Len(s) -> S]
  OBVIOUS
<1>2. FrontOf(s, n) \in [1 .. n -> S] /\ n \in Nat
  BY <1>1 DEF FrontOf
<1>3. FrontOf(s, n) \in Seq(S) /\ Len(FrontOf(s, n)) = n
  BY <1>2, SequenceOf
<1>4. \A k \in 1 .. n : FrontOf(s, n)[k] = s[k]
  BY DEF FrontOf
<1>5. ASSUME NEW m \in 0 .. n PROVE FrontOf(FrontOf(s, n), m) = FrontOf(s, m)
  <2>1. \A k \in 1 .. m : k \in 1 .. n /\ FrontOf(s, n)[k] = s[k]
    BY <1>1, <1>4
  <2> QED
    BY <2>1 DEF FrontOf
<1> QED
  BY <1>3, <1>4, <1>5

(* There is exactly one such f; it does not depend on later sequences.     *)
LEMMA FlattensExists ==
  ASSUME NEW S, NEW s \in Seq(Seq(S)), NEW n \in 0 .. Len(s)
  PROVE  \E f : Flattens(f, FrontOf(s, n)) /\ f \in [1 .. n -> Seq(S)]
<1> DEFINE Ok(m) == \E f : Flattens(f, FrontOf(s, m)) /\ f \in [1 .. m -> Seq(S)]
<1>1. PICK T : T = {m \in 0 .. Len(s) : ~Ok(m)}
  OBVIOUS
<1>2. SUFFICES ASSUME T # {} PROVE FALSE
  BY <1>1
<1>3. T \subseteq Nat /\ Len(s) \in Nat
  BY <1>1
<1>4. PICK m \in T : \A k \in T : ~ (<<k, m>> \in OpToRel(<, Nat))
  BY <1>2, <1>3, NatLessThanWellFounded, WFMin
<1>5. m \in 0 .. Len(s) /\ m \in Nat /\ ~Ok(m) /\ \A k \in T : ~ (k < m)
  BY <1>1, <1>3, <1>4 DEF OpToRel
<1>6. /\ FrontOf(s, m) \in Seq(Seq(S)) /\ Len(FrontOf(s, m)) = m
      /\ \A k \in 1 .. m : FrontOf(s, m)[k] = s[k] /\ s[k] \in Seq(S)
  BY <1>3, <1>5, FrontFacts, SMTT(30)
<1>7. CASE m = 0
  <2>1. PICK f : f = [i \in 1 .. 0 |-> IF i = 1 THEN s[i] ELSE s[i]]
    OBVIOUS
  <2>2. f = [i \in 1 .. 0 |-> IF i = 1 THEN FrontOf(s, 0)[i]
                              ELSE f[i - 1] \o FrontOf(s, 0)[i]]
    BY <2>1
  <2>3. Flattens(f, FrontOf(s, 0)) /\ f \in [1 .. 0 -> Seq(S)]
    BY <1>6, <1>7, <2>1, <2>2 DEF Flattens
  <2> QED
    BY <1>5, <1>7, <2>3
<1>8. CASE m # 0
  <2>1. m - 1 \in 0 .. Len(s) /\ m - 1 \in Nat /\ m - 1 \notin T /\ m \in 1 .. Len(s)
    BY <1>3, <1>5, <1>8
  <2>2. PICK g : Flattens(g, FrontOf(s, m - 1)) /\ g \in [1 .. m - 1 -> Seq(S)]
    BY <1>1, <2>1
  <2>3. /\ Len(FrontOf(s, m - 1)) = m - 1
        /\ \A k \in 1 .. m - 1 : FrontOf(s, m - 1)[k] = s[k]
    BY <2>1, FrontFacts
  <2>4. \A i \in 1 .. m - 1 : g[i] = IF i = 1 THEN s[i] ELSE g[i - 1] \o s[i]
    BY <2>2, <2>3 DEF Flattens
  <2>5. PICK last \in Seq(S) : last = IF m = 1 THEN s[m] ELSE g[m - 1] \o s[m]
    <3>1. CASE m = 1
      BY <1>6, <3>1, <2>1
    <3>2. CASE m # 1
      <4>1. m - 1 \in 1 .. m - 1 /\ m \in 1 .. m
        BY <1>5, <1>8, <3>2
      <4>2. g[m - 1] \in Seq(S) /\ s[m] \in Seq(S)
        BY <1>6, <2>2, <4>1
      <4>3. g[m - 1] \o s[m] \in Seq(S)
        BY <4>2
      <4> QED
        BY <3>2, <4>3
    <3> QED
      BY <3>1, <3>2
  <2>6. PICK f : f = [i \in 1 .. m |-> IF i = m THEN last ELSE g[i]]
    OBVIOUS
  <2>7. f \in [1 .. m -> Seq(S)]
    <3>1. ASSUME NEW i \in 1 .. m PROVE (IF i = m THEN last ELSE g[i]) \in Seq(S)
      <4>1. i # m => i \in 1 .. m - 1
        BY <1>5
      <4> QED
        BY <2>2, <2>5, <4>1
    <3> QED
      BY <2>6, <3>1
  <2>8. ASSUME NEW i \in 1 .. m
        PROVE  f[i] = IF i = 1 THEN s[i] ELSE f[i - 1] \o s[i]
    <3>1. i # 1 => i - 1 \in 1 .. m - 1 /\ i - 1 \in 1 .. m /\ i - 1 # m
      BY <1>5
    <3>2. i # 1 => f[i - 1] = g[i - 1]
      BY <2>6, <3>1
    <3>3. CASE i = m
      BY <2>5, <2>6, <3>2, <3>3
    <3>4. CASE i # m
      <4>1. i \in 1 .. m - 1
        BY <1>5, <3>4
      <4>2. f[i] = g[i]
        BY <2>6, <3>4
      <4> QED
        BY <2>4, <3>2, <4>1, <4>2
    <3> QED
      BY <3>3, <3>4
  <2>9. Flattens(f, FrontOf(s, m))
    <3>1. f = [i \in 1 .. m |-> IF i = 1 THEN FrontOf(s, m)[i]
                                ELSE f[i - 1] \o FrontOf(s, m)[i]]
      BY <1>6, <2>7, <2>8
    <3> QED
      BY <1>6, <3>1 DEF Flattens
  <2> QED
    BY <1>5, <2>7, <2>9
<1> QED
  BY <1>7, <1>8

LEMMA FlattensAgree ==
  ASSUME NEW S, NEW s \in Seq(Seq(S)), NEW n \in 0 .. Len(s), NEW f, NEW g,
         Flattens(f, s), Flattens(g, FrontOf(s, n))
  PROVE  \A i \in 1 .. n : f[i] = g[i]
<1>1. PICK T : T = {i \in 1 .. n : f[i] # g[i]}
  OBVIOUS
<1>2. SUFFICES ASSUME T # {} PROVE FALSE
  BY <1>1
<1>3. T \subseteq Nat /\ Len(s) \in Nat /\ n \in Nat
  BY <1>1
<1>4. PICK m \in T : \A k \in T : ~ (<<k, m>> \in OpToRel(<, Nat))
  BY <1>2, <1>3, NatLessThanWellFounded, WFMin
<1>5. m \in 1 .. n /\ m \in Nat /\ f[m] # g[m] /\ \A k \in T : ~ (k < m)
  BY <1>1, <1>3, <1>4 DEF OpToRel
<1>6. /\ Len(FrontOf(s, n)) = n
      /\ \A k \in 1 .. n : FrontOf(s, n)[k] = s[k]
  BY FrontFacts
<1>7. m \in 1 .. Len(s)
  BY <1>3, <1>5
<1>8. f[m] = IF m = 1 THEN s[m] ELSE f[m - 1] \o s[m]
  BY <1>7 DEF Flattens
<1>9. g[m] = IF m = 1 THEN s[m] ELSE g[m - 1] \o s[m]
  BY <1>5, <1>6 DEF Flattens
<1>10. m # 1 => f[m - 1] = g[m - 1]
  <2>1. m # 1 => m - 1 \in 1 .. n /\ m - 1 < m
    BY <1>3, <1>5
  <2> QED
    BY <1>1, <1>5, <2>1
<1> QED
  BY <1>5, <1>8, <1>9, <1>10

LEMMA FlattenIs ==
  ASSUME NEW S, NEW s \in Seq(Seq(S)), NEW f, Flattens(f, s), Len(s) # 0
  PROVE  FlattenSeq(s) = f[Len(s)]
<1>1. PICK n \in Nat : n = Len(s)
  OBVIOUS
<1>2. n \in 0 .. Len(s) /\ n \in 1 .. n /\ FrontOf(s, n) = s
  BY <1>1 DEF FrontOf
<1> DEFINE g == CHOOSE h : h = [i \in 1 .. Len(s) |->
                                  IF i = 1 THEN s[i] ELSE h[i - 1] \o s[i]]
<1>3. g = [i \in 1 .. Len(s) |-> IF i = 1 THEN s[i] ELSE g[i - 1] \o s[i]]
  BY DEF Flattens
<1>4. Flattens(g, s)
  BY <1>3 DEF Flattens
<1>5. g[n] = f[n]
  BY <1>2, <1>4, FlattensAgree
<1>6. FlattenSeq(s) = g[Len(s)]
  BY DEF FlattenSeq
<1> QED
  BY <1>1, <1>5, <1>6

(* One more sequence is what comes last.                                   *)
LEMMA Flattened ==
  ASSUME NEW S, NEW n \in Nat, NEW s \in [1 .. n + 1 -> Seq(S)]
  PROVE  /\ FlattenSeq(s) \in Seq(S)
         /\ FlattenSeq([k \in 1 .. n |-> s[k]]) \in Seq(S)
         /\ FlattenSeq(s) = FlattenSeq([k \in 1 .. n |-> s[k]]) \o s[n + 1]
<1>1. PICK m : m = n + 1
  OBVIOUS
<1>2. /\ m \in Nat /\ m # 0 /\ m - 1 = n /\ n \in 0 .. m /\ m \in 0 .. m /\ m \in 1 .. m
      /\ s \in Seq(Seq(S)) /\ Len(s) = m
  BY <1>1, SequenceOf
<1>3. FrontOf(s, m) = s
  BY <1>1 DEF FrontOf
<1>4. PICK f : Flattens(f, s) /\ f \in [1 .. m -> Seq(S)]
  BY <1>2, <1>3, FlattensExists
<1>5. FlattenSeq(s) = f[m]
  BY <1>2, <1>4, FlattenIs
<1>6. PICK r : r = FrontOf(s, n)
  OBVIOUS
<1>7. r = [k \in 1 .. n |-> s[k]]
  BY <1>6 DEF FrontOf
<1>8. r \in Seq(Seq(S)) /\ Len(r) = n
  BY <1>2, <1>6, FrontFacts
<1>9. m # 1 <=> n # 0
  BY <1>1
<1>10. f[m] = IF m = 1 THEN s[m] ELSE f[n] \o s[m]
  BY <1>2, <1>4 DEF Flattens
<1>11. f[m] \in Seq(S) /\ s[m] \in Seq(S)
  BY <1>1, <1>2, <1>4
<1>12. CASE n = 0
  <2>1. FlattenSeq(r) = r /\ r = << >>
    BY <1>8, <1>12 DEF FlattenSeq
  <2>2. << >> \o s[m] = s[m] /\ << >> \in Seq(S)
    BY <1>11
  <2>3. FlattenSeq(s) = s[m]
    BY <1>1, <1>5, <1>10, <1>12
  <2> QED
    BY <1>1, <1>5, <1>7, <1>11, <2>1, <2>2, <2>3
<1>13. CASE n # 0
  <2>1. PICK g : Flattens(g, FrontOf(s, n)) /\ g \in [1 .. n -> Seq(S)]
    BY <1>2, FlattensExists
  <2>2. FlattenSeq(r) = g[n]
    BY <1>6, <1>8, <1>13, <2>1, FlattenIs
  <2>3. n \in 1 .. n
    BY <1>13
  <2>4. f[n] = g[n] /\ g[n] \in Seq(S)
    <3>0. n \in 0 .. Len(s) /\ s \in Seq(Seq(S)) /\ Flattens(f, s)
      BY <1>2, <1>4
    <3>1. \A i \in 1 .. n : f[i] = g[i]
      BY ONLY <2>1, <3>0, FlattensAgree
    <3> QED
      BY <2>1, <2>3, <3>1
  <2>5. FlattenSeq(s) = g[n] \o s[m]
    BY <1>5, <1>9, <1>10, <1>13, <2>4
  <2> QED
    BY <1>1, <1>5, <1>7, <1>11, <2>2, <2>4, <2>5
<1> QED
  BY <1>12, <1>13
-----------------------------------------------------------------------------
(* Words as values of the stack machine.                                   *)
Values ==
  {Null, Junk} \cup [kind : {"int"}, n : Int] \cup [kind : {"obj"}, a : Nat]
    \cup [kind : {"var"},
          d : [where : {"Global", "Local", "Arg", "Access"}, i : Int]]

(* The temporaries of the first n frames; those beneath the current frame. *)
Stacks(n) == [k \in 1 .. n |-> TempsOf(k)]

Beneath == FlattenSeq(Stacks(Depth - 1))

LEMMA FrameShape ==
  ASSUME RunIInv, NEW k \in 1 .. Depth
  PROVE  /\ Depth \in Nat /\ k \in Nat /\ FrameOK(k)
         /\ Frame(k).fp \in Nat /\ Frame(k).args \in Nat /\ Frame(k).locals \in Nat
         /\ OfClosure(k) \in BOOLEAN /\ Truth(OfClosure(k)) \in 0 .. 1
         /\ Above(k) = Frame(k).fp + Frame(k).args + Truth(OfClosure(k)) + 1
         /\ Above(k) \in Nat
         /\ k # 1 => TopVar(k) = Frame(k).fp + Frame(k).args
         /\ k = 1 => TopVar(k) = Frame(k).fp /\ ~OfClosure(k)
         /\ OfClosure(k) => Edge(k) = Frame(k).fp + Frame(k).args + 1
<1>1. FrameOK(k) /\ ControlOK
  BY DEF RunIInv
<1>2. /\ Frame(k).fp \in Nat /\ Frame(k).args \in Nat /\ Frame(k).locals \in Nat
      /\ OfClosure(k) \in BOOLEAN
      /\ k = 1 => Frame(k).fp = Globals - 1 /\ ~OfClosure(k)
  BY <1>1 DEF FrameOK
<1>3. Depth \in Nat
  BY <1>1, DepthFacts
<1>4. /\ Truth(OfClosure(k)) \in 0 .. 1
      /\ OfClosure(k) => Truth(OfClosure(k)) = 1
  BY DEF Truth
<1>5. Above(k) = Frame(k).fp + Frame(k).args + Truth(OfClosure(k)) + 1
  BY DEF Above
<1>6. Above(k) \in Nat
  BY <1>2, <1>4, <1>5
<1>7. /\ k # 1 => TopVar(k) = Frame(k).fp + Frame(k).args
      /\ k = 1 => TopVar(k) = Frame(k).fp
  BY <1>2 DEF TopVar
<1>8. OfClosure(k) => Edge(k) = Frame(k).fp + Frame(k).args + 1
  <2>1. SUFFICES ASSUME OfClosure(k) PROVE Edge(k) = Frame(k).fp + Frame(k).args + 1
    OBVIOUS
  <2>2. Edge(k) = Above(k) - 1
    BY <2>1, FrameFacts
  <2>3. PICK t : t = Truth(OfClosure(k))
    OBVIOUS
  <2>4. t = 1 /\ Above(k) = Frame(k).fp + Frame(k).args + t + 1
    BY <1>4, <1>5, <2>1, <2>3
  <2> QED
    BY <1>2, <2>2, <2>4
<1> QED
  BY <1>1, <1>2, <1>3, <1>4, <1>5, <1>6, <1>7, <1>8

LEMMA TempsRange ==
  ASSUME RunIInv, NEW k \in 1 .. Depth
  PROVE  /\ FirstTemp(k) \in Int /\ LastTemp(k) \in Int
         /\ sp < LastTemp(k) /\ LastTemp(k) <= FirstTemp(k) + 1
         /\ FirstTemp(k) < Globals
         /\ k < Depth => LastTemp(k) = Edge(k + 1) + 1
         /\ k = Depth => LastTemp(k) = sp + 1 + Pending
<1>1. ControlOK /\ Nesting /\ sp \in Nat \ {0} /\ isClosure \in BOOLEAN
  BY Sizes DEF RunIInv, ControlOK
<1>2. /\ FirstTemp(k) \in Int /\ FirstTemp(k) <= TopVar(k) /\ TopVar(k) \in Int
      /\ Depth \in Nat /\ k \in Nat
  BY FrameFacts, FrameShape
<1>3. FirstTemp(k) < Globals
  <2>1. /\ FirstTemp(k) <= TopVar(k) /\ TopVar(k) <= Edge(k) /\ Edge(k) < Globals
        /\ TopVar(k) \in Int /\ Edge(k) \in Int
    BY FrameFacts, FrameShape
  <2> QED
    BY <1>2, <2>1, Sizes
<1>4. Pending \in Nat
  <2>1. CASE AtEntry
    <3>1. ip \in Heads
      BY <1>1, <2>1 DEF ControlOK
    <3>2. ArgsAt(ip) \in Nat
      BY <3>1, HeadFacts
    <3> QED
      BY <1>1, <3>2, <2>1 DEF Pending, Truth
  <2>2. CASE ~AtEntry
    BY <2>2 DEF Pending
  <2> QED
    BY <2>1, <2>2
<1>5. CASE k = Depth
  <2>1. LastTemp(k) = sp + 1 + Pending
    BY <1>2, <1>5 DEF LastTemp, Pending
  <2>2. sp + Pending <= FirstTemp(k)
    BY <1>1 DEF Nesting
  <2> QED
    BY <1>1, <1>2, <1>3, <1>4, <1>5, <2>1, <2>2
<1>6. CASE k # Depth
  <2>1. k + 1 \in 1 .. Depth /\ k < k + 1 /\ k < Depth /\ k + 1 # 1
    BY <1>2, <1>6
  <2>2. LastTemp(k) = Above(k + 1)
    BY <2>1 DEF LastTemp
  <2>3. /\ Edge(k + 1) = Above(k + 1) - 1 /\ Edge(k + 1) \in Int
        /\ sp <= FirstTemp(k + 1) /\ FirstTemp(k + 1) <= TopVar(k + 1)
        /\ TopVar(k + 1) <= Edge(k + 1)
        /\ TopVar(k + 1) \in Int /\ FirstTemp(k + 1) \in Int
    BY <2>1, FrameFacts, FrameShape
  <2>4. Edge(k + 1) <= FirstTemp(k) /\ Above(k + 1) \in Nat
    BY <2>1, FramesApart, FrameShape
  <2> QED
    BY <1>1, <1>2, <1>3, <1>6, <2>1, <2>2, <2>3, <2>4
<1> QED
  BY <1>5, <1>6

LEMMA ValueType ==
  ASSUME RunIInv, NEW k \in 1 .. Depth, NEW n \in Nat, NEW w \in Storable(n)
  PROVE  Value(k, w) \in Values /\ (~IsAddress(w) => Value(k, w) = w)
<1>1. /\ Above(k) \in Nat /\ Truth(OfClosure(k)) \in 0 .. 1 /\ Frame(k).fp \in Nat
  BY FrameShape
<1>2. CASE w.kind = "cell"
  <2>1. IsAddress(w) /\ w.c \in Int /\ w.kind # "inside"
    BY <1>2, StorableWords, Sizes DEF IsAddress
  <2>2. PICK t \in Int : t = Above(k) - Truth(OfClosure(k))
    BY <1>1
  <2>3. Designation(k, w) =
          IF w.c >= Globals THEN At("Global", w.c - Globals)
          ELSE IF w.c > Frame(k).fp THEN At("Arg", t - 1 - w.c)
          ELSE At("Local", Frame(k).fp - w.c)
    BY <2>1, <2>2 DEF Designation
  <2>4. /\ w.c - Globals \in Int /\ t - 1 - w.c \in Int /\ Frame(k).fp - w.c \in Int
    <3>1. w.c \in Int /\ Globals \in Int
      BY <2>1, Sizes
    <3> QED
      BY <1>1, <3>1
  <2>5. Designation(k, w) \in [where : {"Global", "Local", "Arg", "Access"}, i : Int]
    BY <2>3, <2>4 DEF At
  <2> QED
    BY <2>1, <2>5 DEF Value, Values, Var
<1>3. CASE w.kind = "inside"
  <2>1. IsAddress(w) /\ w.i \in Int
    BY <1>3 DEF IsAddress, Storable, Plains, Junk, Null
  <2>2. Designation(k, w) \in [where : {"Global", "Local", "Arg", "Access"}, i : Int]
    BY <1>3, <2>1 DEF Designation, At
  <2> QED
    BY <2>1, <2>2 DEF Value, Values, Var
<1>4. CASE w.kind \notin {"cell", "inside"}
  <2>1. ~IsAddress(w) /\ (w = Junk \/ w \in Plains(n))
    BY <1>4, StorableWords DEF IsAddress
  <2>2. Value(k, w) = w
    BY <2>1 DEF Value
  <2>3. w \in Values
    BY <2>1, SizeAssumption DEF Values, Plains
  <2> QED
    BY <2>1, <2>2, <2>3
<1> QED
  BY <1>2, <1>3, <1>4 DEF IsAddress

LEMMA TempsType ==
  ASSUME RunIInv, NEW k \in 1 .. Depth
  PROVE  /\ TempsOf(k) \in Seq(Values)
         /\ Len(TempsOf(k)) = FirstTemp(k) - LastTemp(k) + 1
         /\ \A j \in 1 .. Len(TempsOf(k)) :
              TempsOf(k)[j] = Value(k, mem[FirstTemp(k) - j + 1])
<1>1. PICK m : m = FirstTemp(k) - LastTemp(k) + 1
  OBVIOUS
<1>2. /\ FirstTemp(k) \in Int /\ LastTemp(k) \in Int /\ FirstTemp(k) < Globals
      /\ sp < LastTemp(k) /\ LastTemp(k) <= FirstTemp(k) + 1 /\ sp \in Nat
      /\ Len(store) \in Nat /\ mem \in [Memory -> Storable(Len(store))]
  <2>1. mem \in [Memory -> Storable(Len(store))]
    BY DEF RunIInv, MemoryOK
  <2>2. Len(store) \in Nat
    BY DEF RunIInv, StoreOK
  <2>3. sp \in Nat
    BY Sizes DEF RunIInv, ControlOK
  <2> QED
    BY <2>1, <2>2, <2>3, TempsRange
<1>3. m \in Nat
  BY <1>1, <1>2
<1>4. ASSUME NEW j \in 1 .. m PROVE Value(k, mem[FirstTemp(k) - j + 1]) \in Values
  <2>3. PICK first \in Int, last \in Int, g \in Nat, ms \in Nat :
          /\ first = FirstTemp(k) /\ last = LastTemp(k) /\ g = Globals /\ ms = MemSize
          /\ m = first - last + 1 /\ first < g /\ g <= ms /\ 0 < last
    BY <1>1, <1>2, Sizes
  <2>4. first - j + 1 \in 0 .. ms + 1
    BY <1>3, <2>3
  <2>1. FirstTemp(k) - j + 1 \in Memory
    BY <2>3, <2>4, Sizes
  <2>2. mem[FirstTemp(k) - j + 1] \in Storable(Len(store))
    BY <1>2, <2>1
  <2> QED
    BY <1>2, <2>2, ValueType
<1>5. TempsOf(k) = [j \in 1 .. m |-> Value(k, mem[FirstTemp(k) - j + 1])]
  BY <1>1 DEF TempsOf
<1>6. TempsOf(k) \in [1 .. m -> Values]
  BY <1>4, <1>5
<1>7. TempsOf(k) \in Seq(Values) /\ Len(TempsOf(k)) = m
  BY <1>3, <1>6, SequenceOf
<1> QED
  BY <1>1, <1>5, <1>7

(* The operand stack of the machine: what is beneath the current frame,    *)
(* then its temporaries.                                                   *)
LEMMA Split ==
  RunIInv /\ outcome # "ended" /\ Depth # 0 =>
    /\ Operands = Beneath \o TempsOf(Depth)
    /\ Beneath \in Seq(Values) /\ TempsOf(Depth) \in Seq(Values)
<1> SUFFICES ASSUME RunIInv, outcome # "ended", Depth # 0
             PROVE  /\ Operands = Beneath \o TempsOf(Depth)
                    /\ Beneath \in Seq(Values) /\ TempsOf(Depth) \in Seq(Values)
  OBVIOUS
<1>1. Depth \in Nat
  BY DepthFacts DEF RunIInv
<1>2. PICK n \in Nat : Depth = n + 1 /\ n = Depth - 1
  BY <1>1
<1>3. PICK s : s = Stacks(n + 1)
  OBVIOUS
<1>4. s = [k \in 1 .. n + 1 |-> TempsOf(k)]
  BY <1>3 DEF Stacks
<1>5. \A k \in 1 .. n + 1 : TempsOf(k) \in Seq(Values)
  BY <1>2, TempsType
<1>6. s \in [1 .. n + 1 -> Seq(Values)] /\ n + 1 \in 1 .. n + 1
  BY <1>4, <1>5
<1>7. Operands = FlattenSeq(s)
  BY <1>2, <1>4 DEF Operands
<1>8. [k \in 1 .. n |-> s[k]] = Stacks(Depth - 1)
  BY <1>2, <1>4 DEF Stacks
<1>9. FlattenSeq(s) = FlattenSeq([k \in 1 .. n |-> s[k]]) \o s[n + 1]
      /\ FlattenSeq([k \in 1 .. n |-> s[k]]) \in Seq(Values)
  BY <1>6, Flattened
<1>10. s[n + 1] = TempsOf(Depth)
  BY <1>2, <1>4, <1>6
<1> QED
  BY <1>2, <1>5, <1>6, <1>7, <1>8, <1>9, <1>10 DEF Beneath
-----------------------------------------------------------------------------
(* A frame, as the stack machine has it, and its temporaries, from memory  *)
(* m and what the call stack says of the frame: f, and whether a closure   *)
(* is called. n words of m from address c down.                            *)
Segment(m, c, n) == [j \in 1 .. n |-> m[c - j + 1]]

FrameIn(m, k, f, o) ==
  [args    |-> IF k = 1 THEN <<>> ELSE Segment(m, f.fp + f.args, f.args),
   locals  |-> Segment(m, f.fp, f.locals),
   closure |-> IF o THEN m[f.fp + f.args + 1].a ELSE 0]

DesignationIn(f, o, p) ==
  IF p.kind = "inside" THEN At("Access", p.i)
  ELSE IF p.c >= Globals THEN At("Global", p.c - Globals)
  ELSE IF p.c > f.fp
       THEN At("Arg", (f.fp + f.args + Truth(o) + 1) - Truth(o) - 1 - p.c)
  ELSE At("Local", f.fp - p.c)

ValueIn(f, o, w) == IF IsAddress(w) THEN Var(DesignationIn(f, o, w)) ELSE w

TempsIn(m, f, o, first, n) == [j \in 1 .. n |-> ValueIn(f, o, m[first - j + 1])]

LEMMA Views ==
  ASSUME NEW k
  PROVE  /\ FrameOf(k) = FrameIn(mem, k, Frame(k), OfClosure(k))
         /\ FrameOf(k)' = FrameIn(mem', k, Frame(k)', OfClosure(k)')
         /\ TempsOf(k) = TempsIn(mem, Frame(k), OfClosure(k), FirstTemp(k),
                                 FirstTemp(k) - LastTemp(k) + 1)
         /\ TempsOf(k)' = TempsIn(mem', Frame(k)', OfClosure(k)', FirstTemp(k)',
                                  FirstTemp(k)' - LastTemp(k)' + 1)
<1>1. FrameOf(k) = FrameIn(mem, k, Frame(k), OfClosure(k))
  BY DEF FrameOf, Down, FrameIn, Segment
<1>2. FrameOf(k)' = FrameIn(mem', k, Frame(k)', OfClosure(k)')
  BY DEF FrameOf, Down, FrameIn, Segment
<1>3. TempsOf(k) = TempsIn(mem, Frame(k), OfClosure(k), FirstTemp(k),
                           FirstTemp(k) - LastTemp(k) + 1)
  BY DEF TempsOf, Value, Designation, Above, TempsIn, ValueIn, DesignationIn
<1>4. TempsOf(k)' = TempsIn(mem', Frame(k)', OfClosure(k)', FirstTemp(k)',
                            FirstTemp(k)' - LastTemp(k)' + 1)
  BY DEF TempsOf, Value, Designation, Above, TempsIn, ValueIn, DesignationIn
<1> QED
  BY <1>1, <1>2, <1>3, <1>4

LEMMA ValueView ==
  ASSUME NEW k, NEW w PROVE Value(k, w) = ValueIn(Frame(k), OfClosure(k), w)
BY DEF Value, Designation, Above, ValueIn, DesignationIn

LEMMA SegmentStays ==
  ASSUME NEW l, NEW m, NEW c \in Int, NEW n \in Nat,
         \A x \in c - n + 1 .. c : l[x] = m[x]
  PROVE  Segment(l, c, n) = Segment(m, c, n)
<1>1. \A j \in 1 .. n : c - j + 1 \in c - n + 1 .. c
  OBVIOUS
<1>2. \A j \in 1 .. n : l[c - j + 1] = m[c - j + 1]
  BY <1>1
<1> QED
  BY <1>2 DEF Segment

(* What of the stack machine's state does not change when frame k, or its  *)
(* words, do not.                                                          *)
Stays(k) == Frame(k)' = Frame(k) /\ OfClosure(k)' = OfClosure(k)

LEMMA FrameView ==
  ASSUME RunIInv, NEW k \in 1 .. Depth, Stays(k),
         \A c \in FirstTemp(k) + 1 .. Edge(k) : mem'[c] = mem[c]
  PROVE  FrameOf(k)' = FrameOf(k)
<1>1. PICK f, o, l, m : f = Frame(k) /\ o = OfClosure(k) /\ l = mem' /\ m = mem
  OBVIOUS
<1>2. PICK first, edge : first = FirstTemp(k) /\ edge = Edge(k)
  OBVIOUS
<1>3. /\ f.fp \in Nat /\ f.args \in Nat /\ f.locals \in Nat
      /\ first = f.fp - f.locals /\ edge \in Int
      /\ k # 1 => TopVar(k) = f.fp + f.args
      /\ o => k # 1 /\ edge = f.fp + f.args + 1
      /\ TopVar(k) \in Int /\ f.fp <= TopVar(k)
      /\ TopVar(k) = edge \/ TopVar(k) + 1 = edge
  BY <1>1, <1>2, FrameFacts, FrameShape
<1>4. \A c \in first + 1 .. edge : l[c] = m[c]
  BY <1>1, <1>2
<1>5. Segment(l, f.fp, f.locals) = Segment(m, f.fp, f.locals)
  <2>1. \A x \in f.fp - f.locals + 1 .. f.fp : l[x] = m[x]
    BY <1>3, <1>4
  <2> QED
    BY <1>3, <2>1, SegmentStays
<1>6. k # 1 => Segment(l, f.fp + f.args, f.args) = Segment(m, f.fp + f.args, f.args)
  <2>1. SUFFICES ASSUME k # 1
                 PROVE Segment(l, f.fp + f.args, f.args)
                         = Segment(m, f.fp + f.args, f.args)
    OBVIOUS
  <2>2. PICK c \in Int : c = f.fp + f.args
    BY <1>3
  <2>3. \A x \in c - f.args + 1 .. c : l[x] = m[x]
    BY <1>3, <1>4, <2>1, <2>2
  <2> QED
    BY <1>3, <2>2, <2>3, SegmentStays
<1>7. o => l[f.fp + f.args + 1] = m[f.fp + f.args + 1]
  <2>1. o => f.fp + f.args + 1 \in first + 1 .. edge
    BY <1>3
  <2> QED
    BY <1>4, <2>1
<1>8. FrameIn(l, k, f, o) = FrameIn(m, k, f, o)
  BY <1>5, <1>6, <1>7, Zenon DEF FrameIn
<1> QED
  BY <1>1, <1>8, Views DEF Stays

LEMMA TempsStay ==
  ASSUME NEW l, NEW m, NEW f, NEW o, NEW first \in Int, NEW n \in Nat,
         \A x \in first - n + 1 .. first : l[x] = m[x]
  PROVE  TempsIn(l, f, o, first, n) = TempsIn(m, f, o, first, n)
<1>1. \A j \in 1 .. n : first - j + 1 \in first - n + 1 .. first
  OBVIOUS
<1>2. \A j \in 1 .. n : l[first - j + 1] = m[first - j + 1]
  BY <1>1
<1> QED
  BY <1>2 DEF TempsIn

LEMMA TempsView ==
  ASSUME RunIInv, NEW k \in 1 .. Depth, Stays(k), LastTemp(k)' = LastTemp(k),
         \A c \in LastTemp(k) .. FirstTemp(k) : mem'[c] = mem[c]
  PROVE  TempsOf(k)' = TempsOf(k)
<1>1. FirstTemp(k)' = FirstTemp(k)
  BY DEF FirstTemp, Stays
<1>2. PICK first \in Int, last \in Int :
        /\ first = FirstTemp(k) /\ last = LastTemp(k) /\ last <= first + 1
  BY TempsRange
<1>3. PICK n \in Nat : n = first - last + 1
  BY <1>2
<1>4. \A x \in first - n + 1 .. first : mem'[x] = mem[x]
  BY <1>2, <1>3
<1>5. PICK f, o, l, m : f = Frame(k) /\ o = OfClosure(k) /\ l = mem' /\ m = mem
  OBVIOUS
<1>6. TempsIn(l, f, o, first, n) = TempsIn(m, f, o, first, n)
  BY <1>4, <1>5, TempsStay
<1>7. TempsOf(k) = TempsIn(m, f, o, first, n)
  BY <1>2, <1>3, <1>5, Views
<1>8. TempsOf(k)' = TempsIn(l, f, o, first, n)
  BY <1>1, <1>2, <1>3, <1>5, Views DEF Stays
<1> QED
  BY <1>6, <1>7, <1>8
-----------------------------------------------------------------------------
(* The frames that called the current one, and their temporaries.          *)
Frames(n) == [k \in 1 .. n |-> [ret |-> calls[5 * k], loc |-> FrameOf(k)]]

LEMMA OuterFrames ==
  ASSUME NEW n \in Nat,
         \A k \in 1 .. n : FrameOf(k)' = FrameOf(k) /\ calls'[5 * k] = calls[5 * k]
  PROVE  Frames(n)' = Frames(n)
BY DEF Frames

LEMMA OuterStacks ==
  ASSUME NEW n \in Nat, \A k \in 1 .. n : TempsOf(k)' = TempsOf(k)
  PROVE  Stacks(n)' = Stacks(n)
BY DEF Stacks

LEMMA OuterViews ==
  ASSUME RunIInv, NEW n \in 1 .. Depth, NEW k \in 1 .. n - 1,
         Stays(k), LastTemp(k)' = LastTemp(k),
         \A c \in Edge(n) + 1 .. Globals - 1 : mem'[c] = mem[c]
  PROVE  FrameOf(k)' = FrameOf(k) /\ TempsOf(k)' = TempsOf(k)
<1>1. /\ k \in 1 .. Depth /\ k + 1 \in 1 .. Depth /\ k < Depth /\ k < n
      /\ k \in Nat /\ n \in Nat /\ Depth \in Nat
  BY FrameShape
<1>2. /\ FirstTemp(k) \in Int /\ LastTemp(k) \in Int /\ FirstTemp(k) < Globals
      /\ LastTemp(k) = Edge(k + 1) + 1 /\ LastTemp(k) <= FirstTemp(k) + 1
  BY <1>1, TempsRange
<1>3. /\ Edge(k) < Globals /\ Edge(k) \in Int
      /\ Edge(k + 1) \in Int /\ Edge(n) \in Int
  BY <1>1, FrameFacts
<1>4. Edge(n) <= Edge(k + 1)
  <2>1. CASE k + 1 = n
    BY <1>3, <2>1
  <2>2. CASE k + 1 # n
    <3>1. k + 1 < n
      BY <1>1, <2>2
    <3>2. Edge(n) <= FirstTemp(k + 1)
      BY <1>1, <3>1, FramesApart
    <3>3. /\ FirstTemp(k + 1) <= TopVar(k + 1) /\ TopVar(k + 1) <= Edge(k + 1)
          /\ TopVar(k + 1) \in Int /\ FirstTemp(k + 1) \in Int
      BY <1>1, FrameFacts, FrameShape
    <3> QED
      BY <1>3, <3>2, <3>3
  <2> QED
    BY <2>1, <2>2
<1>5. PICK e \in Int, h \in Int, first \in Int, last \in Int, g \in Int :
        /\ e = Edge(n) /\ h = Edge(k) /\ first = FirstTemp(k) /\ last = LastTemp(k)
        /\ g = Globals
  BY <1>2, <1>3, Sizes
<1>6. e < last /\ last <= first + 1 /\ first < g /\ h < g
  BY <1>2, <1>3, <1>4, <1>5
<1>7. \A c \in first + 1 .. h : c \in e + 1 .. g - 1
  BY <1>6
<1>8. \A c \in last .. first : c \in e + 1 .. g - 1
  BY <1>6
<1>9. \A c \in FirstTemp(k) + 1 .. Edge(k) : mem'[c] = mem[c]
  BY <1>5, <1>7
<1>10. \A c \in LastTemp(k) .. FirstTemp(k) : mem'[c] = mem[c]
  BY <1>5, <1>8
<1> QED
  BY <1>1, <1>9, <1>10, FrameView, TempsView

(* While the body of a function runs, its callers do not change.           *)
LEMMA BodyViews ==
  ASSUME RunIInv, ~AtEntry, UNCHANGED <<calls, registers>>,
         \A c \in Edge(Depth) + 1 .. Globals - 1 : mem'[c] = mem[c]
  PROVE  /\ Callers' = Callers /\ Beneath' = Beneath
         /\ Depth' = Depth /\ ~AtEntry' /\ \A k \in 1 .. Depth : Stays(k)
         /\ calls # << >> /\ calls' # << >>
<1>1. /\ Depth' = Depth /\ AtEntry' = AtEntry
      /\ \A k \in 1 .. Depth : Stays(k) /\ Above(k)' = Above(k)
  BY FramesStay DEF Stays
<1>2. Depth \in 1 .. Depth /\ Depth \in Nat \ {0} /\ Len(calls) = 5 * Depth - 1
  BY DepthFacts DEF RunIInv
<1>3. PICK n \in Nat : n = Depth - 1
  BY <1>2
<1>4. ASSUME NEW k \in 1 .. n
      PROVE  FrameOf(k)' = FrameOf(k) /\ TempsOf(k)' = TempsOf(k)
  <2>1. k \in 1 .. Depth - 1 /\ k \in 1 .. Depth /\ k + 1 \in 1 .. Depth /\ k < Depth
    BY <1>2, <1>3
  <2>2. LastTemp(k)' = LastTemp(k)
    BY <1>1, <2>1 DEF LastTemp
  <2> QED
    BY <1>1, <1>2, <2>1, <2>2, OuterViews
<1>5. Frames(n)' = Frames(n) /\ Stacks(n)' = Stacks(n)
  BY <1>3, <1>4, OuterFrames, OuterStacks
<1>6. Callers = Frames(n)
  BY <1>3 DEF Callers, Frames
<1>7. Callers' = Frames(n)'
  BY <1>1, <1>3 DEF Callers, Frames
<1>8. Beneath' = Beneath
  <2>1. Beneath = FlattenSeq(Stacks(n))
    BY <1>3 DEF Beneath
  <2>2. Beneath' = FlattenSeq(Stacks(n)')
    BY <1>1, <1>3 DEF Beneath, Stacks
  <2> QED
    BY <1>5, <2>1, <2>2
<1>9. calls # << >> /\ calls' # << >>
  <2>1. Len(calls) # 0
    BY <1>2
  <2> QED
    BY <2>1
<1> QED
  BY <1>1, <1>5, <1>6, <1>7, <1>8, <1>9

LEMMA Cut ==
  ASSUME NEW S, NEW s \in Seq(S), NEW q \in 0 .. Len(s)
  PROVE  /\ SubSeq(s, 1, q) \in Seq(S) /\ Len(SubSeq(s, 1, q)) = q
         /\ \A i \in 1 .. q : SubSeq(s, 1, q)[i] = s[i]
<1>1. Len(s) \in Nat /\ q \in Int /\ 1 \in Int
  OBVIOUS
<1>2. \A i \in 1 .. q : s[i] \in S
  OBVIOUS
<1>3. PICK c : c = SubSeq(s, 1, q)
  OBVIOUS
<1>4. /\ c \in Seq(S) /\ Len(c) = IF 1 <= q THEN q - 1 + 1 ELSE 0
      /\ \A i \in 1 .. q - 1 + 1 : c[i] = s[1 + i - 1]
  BY <1>1, <1>2, <1>3, SubSeqProperties
<1> QED
  BY <1>3, <1>4

Replaces(b, t, n, v) ==
  /\ b \o Append(SubSeq(t, 1, Len(t) - n), v)
       = Append(SubSeq(b \o t, 1, Len(b \o t) - n), v)
  /\ b \o SubSeq(t, 1, Len(t) - n) = SubSeq(b \o t, 1, Len(b \o t) - n)

LEMMA Replaced ==
  ASSUME NEW S, NEW b \in Seq(S), NEW t \in Seq(S), NEW n \in 0 .. Len(t), NEW v \in S
  PROVE  Replaces(b, t, n, v)
<1>1. PICK lb \in Nat, lt \in Nat : lb = Len(b) /\ lt = Len(t)
  OBVIOUS
<1>20. PICK u : u = b \o t
  OBVIOUS
<1>2. /\ u \in Seq(S) /\ Len(u) = lb + lt
      /\ \A i \in 1 .. lb + lt : u[i] = IF i <= lb THEN b[i] ELSE t[i - lb]
  BY <1>1, <1>20, ConcatProperties
<1>31. lt - n \in Nat /\ lt - n <= lt
  BY <1>1
<1>3. PICK m \in Nat : m = lt - n /\ m <= lt
  BY <1>31
<1>4. PICK q \in Nat : q = lb + m /\ q = lb + lt - n /\ q <= lb + lt
  BY <1>3
<1>50. PICK s, w, x : s = SubSeq(t, 1, m) /\ w = SubSeq(u, 1, q) /\ x = b \o s
  OBVIOUS
<1>51. m \in 0 .. Len(t) /\ q \in 0 .. Len(u)
  BY <1>1, <1>2, <1>3, <1>4
<1>5. s \in Seq(S) /\ Len(s) = m /\ \A i \in 1 .. m : s[i] = t[i]
  BY <1>50, <1>51, Cut
<1>6. w \in Seq(S) /\ Len(w) = q /\ \A i \in 1 .. q : w[i] = u[i]
  BY <1>2, <1>50, <1>51, Cut
<1>7. /\ x \in Seq(S) /\ Len(x) = lb + m
      /\ \A i \in 1 .. lb + m : x[i] = IF i <= lb THEN b[i] ELSE s[i - lb]
  BY <1>1, <1>5, <1>50, ConcatProperties
<1>8. ASSUME NEW i \in 1 .. q PROVE x[i] = w[i]
  <2>1. x[i] = IF i <= lb THEN b[i] ELSE s[i - lb]
    BY <1>4, <1>7
  <2>2. i \in 1 .. lb + lt
    BY <1>4
  <2>3. w[i] = IF i <= lb THEN b[i] ELSE t[i - lb]
    BY <1>2, <1>6, <2>2
  <2>4. ~(i <= lb) => i - lb \in 1 .. m
    BY <1>4
  <2> QED
    BY <1>5, <2>1, <2>3, <2>4
<1>9. x = w
  <2>2. Len(x) = q /\ Len(w) = q
    BY <1>4, <1>6, <1>7
  <2>1. Len(x) = Len(w) /\ \A i \in 1 .. Len(x) : x[i] = w[i]
    BY <1>8, <2>2, Zenon
  <2> QED
    BY <1>6, <1>7, <2>1, SeqEqual
<1>10. b \o Append(s, v) = Append(b \o s, v)
  <2>1. <<v>> \in Seq(S)
    OBVIOUS
  <2>2. Append(s, v) = s \o <<v>>
    BY <1>5, AppendIsConcat
  <2>3. Append(x, v) = x \o <<v>>
    BY <1>7, AppendIsConcat
  <2>4. b \o (s \o <<v>>) = (b \o s) \o <<v>>
    BY <1>5, <2>1, ConcatAssociative, SMTT(30)
  <2> QED
    BY <1>50, <2>2, <2>3, <2>4
<1>11. Len(t) - n = m /\ Len(b \o t) - n = q
  BY <1>1, <1>2, <1>3, <1>4, <1>20
<1>12. b \o SubSeq(t, 1, Len(t) - n) = SubSeq(b \o t, 1, Len(b \o t) - n)
  BY <1>9, <1>11, <1>20, <1>50, Zenon
<1> QED
  BY <1>9, <1>10, <1>11, <1>12, <1>20, <1>50, Zenon DEF Replaces
-----------------------------------------------------------------------------
(* The last temporaries of a frame give way, to a new one or to none.      *)
Agree(l, m, first, n) == \A x \in first - n + 1 .. first : l[x] = m[x]

LEMMA TempsReplaced ==
  ASSUME NEW S, NEW l, NEW m, NEW f, NEW o, NEW first \in Int, NEW n \in Nat,
         NEW q \in 0 .. n, NEW v, ValueIn(f, o, v) \in S,
         TempsIn(m, f, o, first, n) \in Seq(S),
         Agree(l, m, first, q)
  PROVE  /\ TempsIn(l, f, o, first, q) = SubSeq(TempsIn(m, f, o, first, n), 1, q)
         /\ l[first - q] = v =>
              TempsIn(l, f, o, first, q + 1)
                = Append(SubSeq(TempsIn(m, f, o, first, n), 1, q), ValueIn(f, o, v))
<1>1. PICK t : t = TempsIn(m, f, o, first, n)
  OBVIOUS
<1>20. t \in Seq(S) /\ DOMAIN t = 1 .. n
  BY <1>1 DEF TempsIn
<1>21. \A j \in 1 .. n : t[j] = ValueIn(f, o, m[first - j + 1])
  BY <1>1 DEF TempsIn
<1>2. t \in Seq(S) /\ Len(t) = n /\ \A j \in 1 .. n : t[j] = ValueIn(f, o, m[first - j + 1])
  BY <1>20, <1>21
<1>3. q \in Nat /\ q <= n /\ q \in 0 .. Len(t)
  BY <1>2
<1>4. PICK c : c = SubSeq(t, 1, q)
  OBVIOUS
<1>5. c \in Seq(S) /\ Len(c) = q /\ \A j \in 1 .. q : c[j] = t[j]
  BY <1>2, <1>3, <1>4, Cut
<1>6. ASSUME NEW j \in 1 .. q PROVE ValueIn(f, o, l[first - j + 1]) = c[j]
  <2>1. first - j + 1 \in first - q + 1 .. first /\ j \in 1 .. n
    BY <1>3
  <2>2. l[first - j + 1] = m[first - j + 1]
    BY <2>1 DEF Agree
  <2> QED
    BY <1>2, <1>5, <2>1, <2>2
<1>7. PICK r : r = TempsIn(l, f, o, first, q)
  OBVIOUS
<1>8. r = [j \in 1 .. q |-> c[j]]
  BY <1>6, <1>7 DEF TempsIn
<1>9. c = [j \in 1 .. q |-> c[j]]
  BY <1>5
<1>10. ASSUME l[first - q] = v
       PROVE  TempsIn(l, f, o, first, q + 1) = Append(c, ValueIn(f, o, v))
  <2>1. PICK p \in Nat, w \in S : p = q + 1 /\ w = ValueIn(f, o, v)
    BY <1>3
  <2>2. PICK a : a = Append(c, w)
    OBVIOUS
  <2>3. a \in Seq(S) /\ Len(a) = p /\ (\A j \in 1 .. q : a[j] = c[j]) /\ a[p] = w
    BY <1>5, <2>1, <2>2, AppendProperties
  <2>4. ASSUME NEW j \in 1 .. p PROVE ValueIn(f, o, l[first - j + 1]) = a[j]
    <3>1. CASE j = p
      <4>1. first - j + 1 = first - q
        <5>1. j = q + 1 /\ q \in Int
          BY <1>3, <2>1, <3>1
        <5> QED
          BY <5>1
      <4> QED
        BY <1>10, <2>1, <2>3, <3>1, <4>1
    <3>2. CASE j # p
      <4>1. j \in 1 .. q
        BY <1>3, <2>1, <3>2
      <4> QED
        BY <1>6, <2>3, <4>1
    <3> QED
      BY <3>1, <3>2
  <2>5. TempsIn(l, f, o, first, p) = [j \in 1 .. p |-> a[j]]
    BY <2>4 DEF TempsIn
  <2>6. a = [j \in 1 .. p |-> a[j]]
    BY <2>3
  <2> QED
    BY <2>1, <2>2, <2>5, <2>6
<1> QED
  BY <1>1, <1>4, <1>7, <1>8, <1>9, <1>10

LEMMA TempsMove ==
  ASSUME RunIInv, NEW k \in 1 .. Depth, Stays(k),
         NEW j \in 0 .. FirstTemp(k) - LastTemp(k) + 1,
         \A c \in LastTemp(k) + j .. FirstTemp(k) : mem'[c] = mem[c],
         NEW n \in Nat, NEW v \in Storable(n)
  PROVE  /\ LastTemp(k)' = LastTemp(k) + j =>
              TempsOf(k)' = SubSeq(TempsOf(k), 1, Len(TempsOf(k)) - j)
         /\ LastTemp(k)' = LastTemp(k) + j - 1 /\ mem'[LastTemp(k) + j - 1] = v =>
              TempsOf(k)' = Append(SubSeq(TempsOf(k), 1, Len(TempsOf(k)) - j),
                                   Value(k, v))
<1>1. FirstTemp(k)' = FirstTemp(k)
  BY DEF FirstTemp, Stays
<1>2. PICK first \in Int, last \in Int :
        /\ first = FirstTemp(k) /\ last = LastTemp(k) /\ last <= first + 1
  BY TempsRange
<1>3. PICK m \in Nat : m = first - last + 1
  BY <1>2
<1>4. j \in 0 .. m
  BY <1>2, <1>3
<1>5. PICK q \in Nat : q = m - j
  BY <1>4
<1>6. q \in 0 .. m /\ first - q + 1 = last + j /\ first - q = last + j - 1
  BY <1>3, <1>4, <1>5
<1>7. PICK f, o, a, b : f = Frame(k) /\ o = OfClosure(k) /\ a = mem' /\ b = mem
  OBVIOUS
<1>8. Agree(a, b, first, q)
  BY <1>2, <1>6, <1>7 DEF Agree
<1>9. TempsOf(k) = TempsIn(b, f, o, first, m)
  BY <1>2, <1>3, <1>7, Views
<1>10. TempsOf(k) \in Seq(Values) /\ Len(TempsOf(k)) = m
  BY <1>2, <1>3, TempsType
<1>11. Value(k, v) = ValueIn(f, o, v) /\ ValueIn(f, o, v) \in Values
  BY <1>7, ValueView, ValueType
<1>12. PICK last1 : last1 = LastTemp(k)'
  OBVIOUS
<1>13. TempsOf(k)' = TempsIn(a, f, o, first, first - last1 + 1)
  BY <1>1, <1>2, <1>7, <1>12, Views DEF Stays
<1>14. /\ TempsIn(a, f, o, first, q) = SubSeq(TempsOf(k), 1, q)
       /\ a[first - q] = v => TempsIn(a, f, o, first, q + 1)
                                = Append(SubSeq(TempsOf(k), 1, q), Value(k, v))
  <2>1. PICK t : t = TempsIn(b, f, o, first, m)
    OBVIOUS
  <2>2. TempsIn(b, f, o, first, m) \in Seq(Values) /\ t = TempsOf(k)
    BY <1>9, <1>10, <2>1
  <2>3. /\ TempsIn(a, f, o, first, q) = SubSeq(TempsIn(b, f, o, first, m), 1, q)
        /\ a[first - q] = v =>
             TempsIn(a, f, o, first, q + 1)
               = Append(SubSeq(TempsIn(b, f, o, first, m), 1, q), ValueIn(f, o, v))
    <3>1. /\ first \in Int /\ m \in Nat /\ q \in 0 .. m /\ ValueIn(f, o, v) \in Values
          /\ TempsIn(b, f, o, first, m) \in Seq(Values)
          /\ Agree(a, b, first, q)
      BY <1>6, <1>8, <1>11, <2>2
    <3> HIDE DEF Values
    <3> QED
      BY ONLY <3>1, TempsReplaced
  <2> QED
    BY <1>11, <2>1, <2>2, <2>3, Zenon
<1>15. ASSUME last1 = last + j PROVE TempsOf(k)' = SubSeq(TempsOf(k), 1, m - j)
  <2>1. first - last1 + 1 = q
    BY <1>3, <1>4, <1>5, <1>15
  <2> QED
    BY <1>5, <1>13, <1>14, <2>1
<1>16. ASSUME last1 = last + j - 1, mem'[last + j - 1] = v
       PROVE  TempsOf(k)' = Append(SubSeq(TempsOf(k), 1, m - j), Value(k, v))
  <2>1. first - last1 + 1 = q + 1
    BY <1>3, <1>4, <1>5, <1>16
  <2>2. a[first - q] = v
    BY <1>6, <1>7, <1>16
  <2> QED
    BY <1>5, <1>13, <1>14, <2>1, <2>2
<1> QED
  BY <1>2, <1>10, <1>12, <1>15, <1>16
-----------------------------------------------------------------------------
(* The operand stack.                                                      *)
Current == TempsOf(Depth)

LEMMA CurrentNext ==
  ASSUME NEW k, Depth' = k PROVE Current' = TempsOf(k)'
BY DEF Current, TempsOf, Value, Designation, Above, FirstTemp, LastTemp, Frame,
       OfClosure

Divided == RunIInv /\ outcome # "ended" /\ Depth # 0

StackSplit ==
  /\ Operands = Beneath \o Current
  /\ Beneath \in Seq(Values) /\ Current \in Seq(Values)

LEMMA SplitCurrent == Divided => StackSplit
BY Split DEF Current, Divided, StackSplit

LEMMA SplitAfter == Divided' => StackSplit'
BY SplitCurrent, PTL

LEMMA SplitNext ==
  ASSUME RunIInv', outcome' # "ended", NEW k, k # 0, Depth' = k
  PROVE  /\ Operands' = Beneath' \o TempsOf(k)'
         /\ Beneath' \in Seq(Values) /\ TempsOf(k)' \in Seq(Values)
<1>1. /\ Operands' = Beneath' \o Current'
      /\ Beneath' \in Seq(Values) /\ Current' \in Seq(Values)
  BY SplitAfter DEF Divided, StackSplit
<1> QED
  BY <1>1, CurrentNext

LEMMA BodyTemps ==
  ASSUME RunIInv, ~AtEntry
  PROVE  /\ Depth \in 1 .. Depth /\ Depth \in Nat \ {0}
         /\ LastTemp(Depth) = sp + 1 /\ sp \in Nat
         /\ FirstTemp(Depth) \in Int /\ sp <= FirstTemp(Depth)
         /\ FirstTemp(Depth) < Globals
         /\ FirstTemp(Depth) <= Edge(Depth) /\ Edge(Depth) \in Int
         /\ Edge(Depth) < Globals
         /\ Temps \in Nat /\ Temps = FirstTemp(Depth) - sp
         /\ Len(TempsOf(Depth)) = Temps
<1>1. Depth \in 1 .. Depth /\ Depth \in Nat \ {0}
  BY DepthFacts DEF RunIInv
<1>2. Pending = 0
  BY DEF Pending
<1>3. sp \in Nat /\ Temps = FirstTemp(Depth) - sp /\ Temps \in Nat
  BY BodyFacts
<1>4. LastTemp(Depth) = sp + 1 /\ FirstTemp(Depth) \in Int /\ FirstTemp(Depth) < Globals
  <2>1. LastTemp(Depth) = sp + 1 + Pending
    BY <1>1, TempsRange
  <2>2. FirstTemp(Depth) \in Int /\ FirstTemp(Depth) < Globals
    BY <1>1, TempsRange
  <2> QED
    BY <1>2, <1>3, <2>1, <2>2
<1>5. FirstTemp(Depth) <= Edge(Depth) /\ Edge(Depth) \in Int /\ Edge(Depth) < Globals
  <2>1. /\ FirstTemp(Depth) <= TopVar(Depth) /\ TopVar(Depth) \in Int
        /\ Edge(Depth) = TopVar(Depth) \/ Edge(Depth) = TopVar(Depth) + 1
        /\ Edge(Depth) < Globals
    BY <1>1, FrameFacts, FrameShape
  <2> QED
    BY <1>4, <2>1
<1>6. Len(TempsOf(Depth)) = FirstTemp(Depth) - LastTemp(Depth) + 1
  BY <1>1, TempsType
<1>7. Len(TempsOf(Depth)) = Temps
  BY <1>3, <1>4, <1>6
<1> QED
  BY <1>1, <1>3, <1>4, <1>5, <1>7

(* The interpreter's word k from the top is the machine's operand k.       *)
LEMMA OperandAt ==
  ASSUME RunIInv, ~AtEntry, outcome # "ended"
  PROVE  /\ Operands \in Seq(Values) /\ Temps <= Len(Operands)
         /\ Len(Operands) \in Nat
         /\ \A k \in 1 .. Temps :
              Operands[Len(Operands) - k + 1] = Value(Depth, Word(k))
<1>1. /\ Depth \in 1 .. Depth /\ Depth # 0
      /\ LastTemp(Depth) = sp + 1 /\ sp \in Nat /\ FirstTemp(Depth) \in Int
      /\ Temps \in Nat /\ Temps = FirstTemp(Depth) - sp
      /\ Len(TempsOf(Depth)) = Temps
  BY BodyTemps
<1>2. PICK b, t : b = Beneath /\ t = TempsOf(Depth)
  OBVIOUS
<1>3. Operands = b \o t /\ b \in Seq(Values) /\ t \in Seq(Values)
  BY <1>1, <1>2, Split
<1>4. PICK lb \in Nat, lt \in Nat : lb = Len(b) /\ lt = Len(t)
  BY <1>3
<1>5. /\ Operands \in Seq(Values) /\ Len(Operands) = lb + lt
      /\ \A i \in 1 .. lb + lt :
           Operands[i] = IF i <= lb THEN b[i] ELSE t[i - lb]
  BY <1>3, <1>4, ConcatProperties
<1>6. lt = Temps
  BY <1>1, <1>2, <1>4
<1>7. ASSUME NEW k \in 1 .. Temps
      PROVE  Operands[Len(Operands) - k + 1] = Value(Depth, Word(k))
  <2>1. PICK j \in 1 .. lt : j = lt - k + 1
    BY <1>6
  <2>2. /\ Len(Operands) - k + 1 = lb + j /\ lb + j \in 1 .. lb + lt
        /\ ~(lb + j <= lb) /\ (lb + j) - lb = j
    BY <1>5, <1>6, <2>1
  <2>3. Operands[lb + j] = t[j]
    BY <1>5, <2>2
  <2>4. t[j] = Value(Depth, mem[FirstTemp(Depth) - j + 1])
    BY <1>1, <1>2, <1>6, <2>1, TempsType
  <2>5. FirstTemp(Depth) - j + 1 = sp + k
    <3>1. PICK first \in Int, low \in Int : first = FirstTemp(Depth) /\ low = sp
      BY <1>1
    <3>2. j = (first - low) - k + 1 /\ k \in Int
      BY <1>1, <1>6, <2>1, <3>1
    <3> QED
      BY <3>1, <3>2
  <2> QED
    BY <2>2, <2>3, <2>4, <2>5 DEF Word
<1> QED
  BY <1>5, <1>6, <1>7

LEMMA BodyStack ==
  ASSUME RunIInv, RunIInv', ~AtEntry, outcome # "ended", outcome' # "ended",
         UNCHANGED <<calls, registers>>,
         \A c \in Edge(Depth) + 1 .. Globals - 1 : mem'[c] = mem[c],
         NEW j \in 0 .. Temps,
         \A c \in sp + j + 1 .. FirstTemp(Depth) : mem'[c] = mem[c],
         NEW n \in Nat, NEW v \in Storable(n)
  PROVE  /\ sp' = sp + j => Operands' = SubSeq(Operands, 1, Len(Operands) - j)
         /\ sp' = sp + j - 1 /\ mem'[sp + j] = v =>
              Operands' = Append(SubSeq(Operands, 1, Len(Operands) - j),
                                 Value(Depth, v))
<1>1. /\ Depth \in 1 .. Depth /\ Depth # 0
      /\ LastTemp(Depth) = sp + 1 /\ sp \in Nat /\ FirstTemp(Depth) \in Int
      /\ Temps \in Nat /\ Temps = FirstTemp(Depth) - sp
      /\ Len(TempsOf(Depth)) = Temps
  BY BodyTemps
<1>2. /\ Beneath' = Beneath /\ Depth' = Depth /\ ~AtEntry' /\ Stays(Depth)
  BY <1>1, BodyViews
<1>3. PICK d : d = Depth
  OBVIOUS
<1>4. LastTemp(d)' = sp' + 1
  <2>1. ~(d < Depth')
    BY <1>1, <1>2, <1>3
  <2>2. sp' \in Int
    BY Sizes DEF RunIInv, ControlOK
  <2> QED
    BY <1>2, <2>1, <2>2 DEF LastTemp
<1>5. PICK b, s, t, u : /\ b = Beneath /\ s = Operands /\ t = TempsOf(d)
                        /\ u = Value(d, v)
  OBVIOUS
<1>6. s = b \o t /\ b \in Seq(Values) /\ t \in Seq(Values) /\ u \in Values
      /\ Len(t) = Temps
  BY <1>1, <1>3, <1>5, Split, ValueType
<1>7. Operands' = b \o TempsOf(d)'
  BY <1>1, <1>2, <1>3, <1>5, SplitNext
<1>8. j \in 0 .. FirstTemp(d) - LastTemp(d) + 1 /\ j \in 0 .. Len(t)
  <2>1. PICK first \in Int, low \in Int : first = FirstTemp(d) /\ low = sp
    BY <1>1, <1>3
  <2>2. LastTemp(d) = low + 1 /\ Temps = first - low /\ Len(t) = Temps
    BY <1>1, <1>3, <1>6, <2>1
  <2>3. first - (low + 1) + 1 = first - low
    BY <2>1
  <2> QED
    BY <2>1, <2>2, <2>3
<1>9. \A c \in LastTemp(d) + j .. FirstTemp(d) : mem'[c] = mem[c]
  <2>1. LastTemp(d) + j = sp + j + 1
    BY <1>1, <1>3
  <2> QED
    BY <1>3, <2>1
<1>10. /\ LastTemp(d)' = LastTemp(d) + j =>
            TempsOf(d)' = SubSeq(t, 1, Len(t) - j)
       /\ LastTemp(d)' = LastTemp(d) + j - 1 /\ mem'[LastTemp(d) + j - 1] = v =>
            TempsOf(d)' = Append(SubSeq(t, 1, Len(t) - j), u)
  <2>1. d \in 1 .. Depth /\ Stays(d)
    BY <1>1, <1>2, <1>3
  <2> QED
    BY <1>5, <1>8, <1>9, <2>1, TempsMove
<1>11. /\ b \o Append(SubSeq(t, 1, Len(t) - j), u)
              = Append(SubSeq(s, 1, Len(s) - j), u)
       /\ b \o SubSeq(t, 1, Len(t) - j) = SubSeq(s, 1, Len(s) - j)
  <2>1. /\ b \in Seq(Values) /\ t \in Seq(Values) /\ u \in Values
        /\ j \in 0 .. Len(t)
    BY <1>6, <1>8
  <2>2. Replaces(b, t, j, u)
    BY <2>1, Replaced
  <2> QED
    BY <1>6, <2>2, Zenon DEF Replaces
<1>12. ASSUME sp' = sp + j PROVE Operands' = SubSeq(s, 1, Len(s) - j)
  <2>1. LastTemp(d)' = LastTemp(d) + j
    BY <1>1, <1>3, <1>4, <1>12
  <2> QED
    BY <1>7, <1>10, <1>11, <2>1
<1>13. ASSUME sp' = sp + j - 1, mem'[sp + j] = v
       PROVE  Operands' = Append(SubSeq(s, 1, Len(s) - j), u)
  <2>1. LastTemp(d)' = LastTemp(d) + j - 1 /\ LastTemp(d) + j - 1 = sp + j
    BY <1>1, <1>3, <1>4, <1>13
  <2> QED
    BY <1>7, <1>10, <1>11, <1>13, <2>1
<1> QED
  BY <1>3, <1>5, <1>12, <1>13
=============================================================================

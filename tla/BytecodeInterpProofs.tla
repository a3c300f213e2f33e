------------------------ MODULE BytecodeInterpProofs ------------------------
(***************************************************************************)
(* Theorems about BytecodeInterp: whatever the program, as long as it is   *)
(* one the compiler emits, its frames stay apart in the array the operand  *)
(* stack shares with them, its variables hold values, and no step leaves   *)
(* the array.                                                              *)
(***************************************************************************)
EXTENDS BytecodeInterp, SequenceTheorems, FiniteSetTheorems, TLAPS

-----------------------------------------------------------------------------
(* Values, what a word of memory may hold, and objects, when the store has *)
(* n objects.                                                              *)
Plains(n) == {Null} \cup [kind : {"int"}, n : -MaxNum .. MaxNum]
                    \cup [kind : {"obj"}, a : 1 .. n]

Storable(n) == Plains(n) \cup {Junk} \cup [kind : {"cell"}, c : 1 .. MemSize - 1]
                         \cup [kind : {"inside"}, a : 1 .. n, i : Nat]

Emits(op) == UNION {{i \in Code[p] : i.op = op} : p \in DOMAIN Code}

Tags == {""} \cup {i.t : i \in Emits("SEXP")} \cup {i.fn : i \in Emits("CLOSURE")}

Objects(n) == [kind : {"string", "array", "sexp", "closure"}, tag : Tags,
               fields : Seq(Plains(n))]

(* A closure has all its function captures.                                *)
ClosuresOK(s) ==
  \A a \in 1 .. Len(s) : s[a].kind = "closure" =>
    /\ Labeled(s[a].tag) \in Heads
    /\ Len(s[a].fields) = Captures[Labeled(s[a].tag)]

StoreOK(s) == s \in Seq(Objects(Len(s))) /\ ClosuresOK(s)

(* The word w is a closure of the function at p.                           *)
ClosureOf(s, w, p) == HasKind(s, w, "closure") /\ Labeled(s[w.a].tag) = p

CallWords == Int \cup BOOLEAN \cup DOMAIN Code
-----------------------------------------------------------------------------
(* Where frame k goes on; its function.                                    *)
Position(k) == IF 5 * k <= Len(calls) THEN calls[5 * k] ELSE ip

Function(k) == Owner[Position(k)]

(* The last of frame k's variables, and of the words that belong to it.    *)
TopVar(k) == IF k = 1 THEN Globals - 1 ELSE Frame(k).fp + Frame(k).args

Edge(k) == IF k = 1 THEN Globals - 1 ELSE Above(k) - 1

(* The words a function that was called and has not begun will have.       *)
Pending == IF AtEntry THEN ArgsAt(ip) + Truth(isClosure) ELSE 0

(* What an address may point to: a global, a local or an argument.         *)
Target(t) ==
  \/ t \in Globals .. MemSize - 1
  \/ \E k \in 1 .. Depth : FirstTemp(k) < t /\ t <= TopVar(k)

FrameOK(k) ==
  /\ Frame(k).fp \in Nat /\ Frame(k).args \in Nat /\ Frame(k).locals \in Nat
  /\ OfClosure(k) \in BOOLEAN
  /\ Position(k) \in DOMAIN Code \ Heads
  /\ IF k = 1
     THEN /\ Frame(k).fp = Globals - 1 /\ Frame(k).args <= 2 /\ ~OfClosure(k)
          /\ Function(k) \in Entries
     ELSE /\ 0 < Captures[Function(k)] => OfClosure(k)
          /\ OfClosure(k) => ClosureOf(store, mem[Above(k) - 1], Function(k))

(* The registers, and a function about to begin.                           *)
ControlOK ==
  /\ ip \in DOMAIN Code /\ sp \in 1 .. Globals - 1 /\ isClosure \in BOOLEAN
  /\ fp \in Nat /\ nArgs \in Nat /\ nLocals \in Nat
  /\ calls \in Seq(CallWords) /\ Len(calls) < CallSize
  /\ Len(calls) % 5 \in {0, 4}
  /\ AtEntry => ip \in Heads
  /\ Depth = 0 => ip \in Entries /\ ~isClosure /\ sp = Globals - 1
  /\ Depth > 0 /\ AtEntry =>
       /\ 0 < Captures[ip] => isClosure
       /\ isClosure => ClosureOf(store, mem[sp + ArgsAt(ip) + 1], ip)

(* Every frame is below all of the ones that called it.                    *)
Nesting ==
  /\ \A j, k \in 1 .. Depth : j < k => Edge(k) <= FirstTemp(j)
  /\ \A k \in 1 .. Depth : sp + Pending <= FirstTemp(k)

(* Variables and arguments hold values.  An address is a temporary, of a   *)
(* variable further up.                                                    *)
MemoryOK ==
  /\ mem \in [Memory -> Storable(Len(store))] /\ mem[0] = Junk
  /\ \A c \in sp + 1 .. MemSize - 1 :
       /\ mem[c] # Junk
       /\ mem[c].kind = "cell" => c < mem[c].c /\ Target(mem[c].c)
  /\ \A c \in Globals .. MemSize - 1 : mem[c] \in Plains(Len(store))
  /\ \A k \in 1 .. Depth : \A c \in FirstTemp(k) + 1 .. Edge(k) :
       mem[c] \in Plains(Len(store))
  /\ 0 < Depth => \A c \in sp + 1 .. sp + Pending : mem[c] \in Plains(Len(store))

RunIInv ==
  /\ ControlOK /\ StoreOK(store) /\ MemoryOK /\ Nesting
  /\ \A k \in 1 .. Depth : FrameOK(k)

(* Behind main's END there are no frames any more.                         *)
InterpIInv ==
  /\ outcome \in {"running", "failed", "overflow", "ended"}
  /\ outcome # "ended" => RunIInv
  /\ outcome = "ended" => InterpTypeOK
-----------------------------------------------------------------------------
(* The call stack has five words for each frame, or four for the last one. *)
LEMMA Fifths ==
  ASSUME NEW n \in Nat, n % 5 \in {0, 4}
  PROVE  /\ (n + 1) \div 5 \in Nat
         /\ n % 5 = 0 => n = 5 * ((n + 1) \div 5)
         /\ n % 5 = 4 => n = 5 * ((n + 1) \div 5) - 1
BY SMT

LEMMA FifthsOf ==
  ASSUME NEW d \in Nat
  PROVE  /\ (5 * d) % 5 = 0 /\ (5 * d + 1) \div 5 = d
         /\ (5 * d + 4) % 5 = 4 /\ (5 * d + 5) \div 5 = d + 1
BY SMT

LEMMA DepthFacts ==
  ASSUME ControlOK
  PROVE  /\ Depth \in Nat /\ Len(calls) \in Nat
         /\ AtEntry => Len(calls) = 5 * Depth
         /\ ~AtEntry => Len(calls) = 5 * Depth - 1 /\ Depth \in Nat \ {0}
<1>1. Len(calls) \in Nat /\ Len(calls) % 5 \in {0, 4}
  BY DEF ControlOK
<1>2. /\ Depth \in Nat
      /\ Len(calls) % 5 = 0 => Len(calls) = 5 * Depth
      /\ Len(calls) % 5 = 4 => Len(calls) = 5 * Depth - 1
  BY <1>1, Fifths DEF Depth
<1> QED
  BY <1>1, <1>2 DEF AtEntry

(* What words are.                                                         *)
LEMMA PlainWords ==
  ASSUME NEW n \in Nat, NEW w \in Plains(n)
  PROVE  /\ w # Junk /\ ~IsAddress(w) /\ w.kind # "cell"
         /\ IsObj(w) => w.a \in 1 .. n
         /\ IsNum(w) => w.n \in -MaxNum .. MaxNum
         /\ w \in Storable(n)
BY DEF Plains, Storable, Junk, Null, IsAddress, IsObj, IsNum

LEMMA Numbers ==
  ASSUME NEW n \in Nat, NEW z \in -MaxNum .. MaxNum
  PROVE  Num(z) \in Plains(n)
BY DEF Plains, Num

LEMMA TruthValues == ASSUME NEW n \in Nat, NEW b PROVE Num(Truth(b)) \in Plains(n)
<1>1. Truth(b) \in -MaxNum .. MaxNum
  BY SizeAssumption DEF Truth
<1> QED
  BY <1>1, Numbers

LEMMA StorableWords ==
  ASSUME NEW n \in Nat, NEW w \in Storable(n)
  PROVE  /\ w # Junk /\ ~IsAddress(w) => w \in Plains(n)
         /\ w.kind = "cell" => w.c \in 1 .. MemSize - 1 /\ w = Cell(w.c)
         /\ w.kind = "inside" => w.a \in 1 .. n /\ w = Inside(w.a, w.i)
         /\ IsNum(w) => w \in Plains(n) /\ ~IsAddress(w)
         /\ IsObj(w) => w \in Plains(n) /\ ~IsAddress(w)
BY DEF Plains, Storable, Junk, Null, IsAddress, IsObj, IsNum, Cell, Inside

(* The store only grows.                                                   *)
LEMMA WordsStay ==
  ASSUME NEW n \in Nat, NEW m \in Nat, n <= m
  PROVE  Plains(n) \subseteq Plains(m) /\ Storable(n) \subseteq Storable(m)
BY DEF Plains, Storable

LEMMA ObjectsStay ==
  ASSUME NEW n \in Nat, NEW m \in Nat, n <= m
  PROVE  Objects(n) \subseteq Objects(m)
<1>1. Plains(n) \subseteq Plains(m)
  BY WordsStay
<1>2. Seq(Plains(n)) \subseteq Seq(Plains(m))
  BY <1>1
<1> QED
  BY <1>2 DEF Objects
-----------------------------------------------------------------------------
(* The arithmetic of frames.                                               *)
LEMMA Sizes ==
  /\ MemSize \in Nat /\ NGlobals \in Nat /\ Globals \in Nat /\ 2 <= Globals
  /\ Globals = MemSize - NGlobals /\ Globals <= MemSize
  /\ Memory = 0 .. MemSize + 1
BY SizeAssumption DEF Globals, Memory

LEMMA FrameFacts ==
  ASSUME RunIInv, NEW k \in 1 .. Depth
  PROVE  /\ FirstTemp(k) \in Int /\ TopVar(k) \in Int /\ Edge(k) \in Int
         /\ FirstTemp(k) = Frame(k).fp - Frame(k).locals
         /\ Frame(k).fp <= TopVar(k) /\ FirstTemp(k) <= TopVar(k)
         /\ Edge(k) < Globals
         /\ OfClosure(k) => k # 1 /\ Edge(k) = Above(k) - 1 /\ Edge(k) = TopVar(k) + 1
         /\ ~OfClosure(k) => Edge(k) = TopVar(k)
         /\ k # 1 => Edge(k) = Above(k) - 1
         /\ sp <= FirstTemp(k)
<1>1. FrameOK(k) /\ ControlOK /\ Nesting
  BY DEF RunIInv
<1>2. /\ Frame(k).fp \in Nat /\ Frame(k).args \in Nat /\ Frame(k).locals \in Nat
      /\ OfClosure(k) \in BOOLEAN
      /\ k = 1 => Frame(k).fp = Globals - 1 /\ ~OfClosure(k)
  BY <1>1 DEF FrameOK
<1>3. /\ FirstTemp(k) \in Int /\ TopVar(k) \in Int /\ Edge(k) \in Int
      /\ FirstTemp(k) = Frame(k).fp - Frame(k).locals
      /\ Frame(k).fp <= TopVar(k) /\ FirstTemp(k) <= TopVar(k)
      /\ OfClosure(k) => k # 1 /\ Edge(k) = Above(k) - 1 /\ Edge(k) = TopVar(k) + 1
      /\ ~OfClosure(k) => Edge(k) = TopVar(k)
      /\ k # 1 => Edge(k) = Above(k) - 1
  <2>1. FirstTemp(k) = Frame(k).fp - Frame(k).locals
    BY DEF FirstTemp
  <2>2. CASE k = 1
    <3>1. TopVar(k) = Globals - 1 /\ Edge(k) = Globals - 1
      BY <2>2 DEF TopVar, Edge
    <3> QED
      BY <1>2, <2>1, <2>2, <3>1, Sizes
  <2>3. CASE k # 1
    <3>1. TopVar(k) = Frame(k).fp + Frame(k).args /\ Edge(k) = Above(k) - 1
      BY <2>3 DEF TopVar, Edge
    <3>2. Above(k) = Frame(k).fp + Frame(k).args + Truth(OfClosure(k)) + 1
      BY DEF Above
    <3>3. /\ OfClosure(k) => Truth(OfClosure(k)) = 1
          /\ ~OfClosure(k) => Truth(OfClosure(k)) = 0
      BY DEF Truth
    <3> QED
      BY <1>2, <2>1, <2>3, <3>1, <3>2, <3>3
  <2> QED
    BY <2>2, <2>3
<1>4. Edge(k) < Globals
  <2>1. CASE k = 1
    BY <1>3, <2>1, Sizes DEF Edge
  <2>2. CASE k # 1
    <3>1. 1 \in 1 .. Depth /\ 1 < k
      BY <2>2, <1>1, DepthFacts
    <3>2. Edge(k) <= FirstTemp(1)
      BY <1>1, <3>1 DEF Nesting
    <3>3. /\ Frame(1).fp = Globals - 1 /\ Frame(1).locals \in Nat
      BY <3>1 DEF RunIInv, FrameOK
    <3> QED
      BY <1>3, <3>2, <3>3, Sizes DEF FirstTemp
  <2> QED
    BY <2>1, <2>2
<1>5. Pending \in Int /\ 0 <= Pending
  <2>1. CASE AtEntry
    <3>1. ip \in Heads /\ isClosure \in BOOLEAN
      BY <1>1, <2>1 DEF ControlOK
    <3>2. ArgsAt(ip) \in Nat
      BY <3>1, CodeAssumption DEF Heads, ArgsAt, Emitted
    <3> QED
      BY <3>1, <3>2, <2>1 DEF Pending, Truth
  <2>2. CASE ~AtEntry
    BY <2>2 DEF Pending
  <2> QED
    BY <2>1, <2>2
<1>6. sp <= FirstTemp(k)
  <2>1. sp + Pending <= FirstTemp(k) /\ sp \in Int
    BY <1>1, Sizes DEF Nesting, ControlOK
  <2> QED
    BY <1>3, <1>5, <2>1
<1> QED
  BY <1>3, <1>4, <1>6

(* A frame is below the ones before it.                                    *)
LEMMA FramesApart ==
  ASSUME RunIInv, NEW j \in 1 .. Depth, NEW k \in 1 .. Depth, j < k
  PROVE  Edge(k) <= FirstTemp(j) /\ FirstTemp(k) <= FirstTemp(j)
<1>1. Edge(k) <= FirstTemp(j)
  BY DEF RunIInv, Nesting
<1>2. FirstTemp(k) <= Edge(k) /\ Edge(k) \in Int /\ FirstTemp(k) \in Int
      /\ FirstTemp(j) \in Int
  BY FrameFacts
<1> QED
  BY <1>1, <1>2

(* No address is that of a word that holds a closure.                      *)
LEMMA ClosuresAreNoTargets ==
  ASSUME RunIInv, NEW k \in 1 .. Depth, OfClosure(k)
  PROVE  ~Target(Edge(k)) /\ Edge(k) < Globals /\ FirstTemp(k) < Edge(k)
<1>1. /\ Edge(k) = TopVar(k) + 1 /\ Edge(k) < Globals /\ TopVar(k) \in Int
      /\ FirstTemp(k) <= TopVar(k) /\ FirstTemp(k) \in Int
  BY FrameFacts
<1>2. ASSUME NEW j \in 1 .. Depth
      PROVE  ~(FirstTemp(j) < Edge(k) /\ Edge(k) <= TopVar(j))
  <2>0. k \in Nat /\ j \in Nat
    BY DepthFacts DEF RunIInv
  <2>1. CASE j = k
    BY <1>1, <2>1
  <2>2. CASE j < k
    <3>1. Edge(k) <= FirstTemp(j) /\ FirstTemp(j) \in Int
      BY <2>2, FramesApart, FrameFacts
    <3> QED
      BY <1>1, <3>1
  <2>3. CASE k < j
    <3>1. Edge(j) <= FirstTemp(k) /\ Edge(j) \in Int /\ TopVar(j) \in Int
          /\ TopVar(j) <= Edge(j)
      BY <2>3, FramesApart, FrameFacts
    <3> QED
      BY <1>1, <3>1
  <2> QED
    BY <2>0, <2>1, <2>2, <2>3
<1>3. Edge(k) \notin Globals .. MemSize - 1
  BY <1>1, Sizes
<1> QED
  BY <1>1, <1>2, <1>3 DEF Target
-----------------------------------------------------------------------------
(* Frames are described by the call stack and the registers.               *)
LEMMA FramesStay ==
  ASSUME UNCHANGED <<calls, registers>>
  PROVE  /\ Depth' = Depth /\ AtEntry' = AtEntry
         /\ \A k \in 1 .. Depth :
              /\ Frame(k)' = Frame(k) /\ OfClosure(k)' = OfClosure(k)
              /\ FirstTemp(k)' = FirstTemp(k) /\ TopVar(k)' = TopVar(k)
              /\ Above(k)' = Above(k) /\ Edge(k)' = Edge(k)
         /\ \A t : Target(t)' <=> Target(t)
<1>1. Depth' = Depth /\ AtEntry' = AtEntry
  BY DEF Depth, AtEntry
<1>2. \A k \in 1 .. Depth : Frame(k)' = Frame(k) /\ OfClosure(k)' = OfClosure(k)
  BY DEF Frame, OfClosure, Depth, registers
<1>3. \A k \in 1 .. Depth :
        /\ FirstTemp(k)' = FirstTemp(k) /\ TopVar(k)' = TopVar(k)
        /\ Above(k)' = Above(k) /\ Edge(k)' = Edge(k)
  BY <1>2 DEF FirstTemp, TopVar, Above, Edge
<1>4. \A t : Target(t)' <=> Target(t)
  BY <1>1, <1>3 DEF Target
<1> QED
  BY <1>1, <1>2, <1>3, <1>4

(* What the store was, it is; what more there is, is what it should be.    *)
StoreGrows ==
  /\ StoreOK(store') /\ Len(store) <= Len(store')
  /\ \A a \in 1 .. Len(store) : /\ store'[a].kind = store[a].kind
                                /\ store'[a].tag = store[a].tag

(* A word a temporary at c may hold.                                       *)
Temporary(c, w) ==
  w # Junk /\ (w.kind = "cell" => c < w.c /\ Target(w.c))

(* What an instruction in the body of a function does to memory.           *)
MemoryGoesOn ==
  /\ mem' \in [Memory -> Storable(Len(store'))] /\ mem'[0] = Junk
  /\ \A c \in FirstTemp(Depth) + 1 .. MemSize - 1 :
       mem'[c] = mem[c] \/ (Target(c) /\ mem'[c] \in Plains(Len(store')))
  /\ \A c \in sp' + 1 .. FirstTemp(Depth) : Temporary(c, mem'[c])

LEMMA ClosuresStay ==
  ASSUME StoreOK(store), StoreGrows, NEW w, NEW n \in Nat, w \in Plains(Len(store)),
         NEW p, ClosureOf(store, w, p)
  PROVE  ClosureOf(store', w, p)
<1>1. Len(store) \in Nat
  BY DEF StoreOK
<1>2. w.a \in 1 .. Len(store)
  BY <1>1, PlainWords DEF ClosureOf, HasKind
<1> QED
  BY <1>2 DEF ClosureOf, HasKind, StoreGrows

LEMMA BodyStep ==
  ASSUME RunIInv, ~AtEntry, UNCHANGED <<calls, registers>>,
         SameBody(ip, ip'), sp' \in 1 .. FirstTemp(Depth),
         StoreGrows, MemoryGoesOn
  PROVE  RunIInv'
<1> DEFINE D == Depth
<1>1. /\ ControlOK /\ StoreOK(store) /\ MemoryOK /\ Nesting
      /\ \A k \in 1 .. D : FrameOK(k)
  BY DEF RunIInv
<1>2. /\ D \in Nat \ {0} /\ Len(calls) = 5 * D - 1
  BY <1>1, DepthFacts
<1>3. D \in 1 .. D
  BY <1>2
<1>4. /\ Depth' = D /\ ~AtEntry'
      /\ \A k \in 1 .. D :
           /\ Frame(k)' = Frame(k) /\ OfClosure(k)' = OfClosure(k)
           /\ FirstTemp(k)' = FirstTemp(k) /\ TopVar(k)' = TopVar(k)
           /\ Above(k)' = Above(k) /\ Edge(k)' = Edge(k)
      /\ \A t : Target(t)' <=> Target(t)
  BY FramesStay
<1>5. FirstTemp(D) \in Int /\ FirstTemp(D) < Globals
  BY <1>3, FrameFacts, Sizes
<1>6. ControlOK'
  BY <1>1, <1>2, <1>4, <1>5, Sizes DEF ControlOK, SameBody, registers
<1>17. PICK top \in Int : top = sp'
  BY <1>5
<1>7. StoreOK(store)' /\ Len(store) \in Nat /\ Len(store') \in Nat
      /\ Len(store) <= Len(store')
  BY <1>1 DEF StoreGrows, StoreOK
<1>8. /\ Plains(Len(store)) \subseteq Plains(Len(store'))
  BY <1>7, WordsStay
<1>9. ASSUME NEW k \in 1 .. D
      PROVE  /\ FirstTemp(k) \in Int /\ Edge(k) \in Int /\ Edge(k) < Globals
             /\ FirstTemp(D) <= FirstTemp(k)
  <2>1. FirstTemp(k) \in Int /\ Edge(k) \in Int /\ Edge(k) < Globals
    BY FrameFacts
  <2>2. CASE k = D
    BY <2>1, <2>2
  <2>3. CASE k # D
    BY <1>2, <1>3, <2>1, <2>3, FramesApart
  <2> QED
    BY <2>1, <2>2, <2>3
<1>10. Nesting'
  <2>1. Pending' = 0
    BY <1>4 DEF Pending
  <2>2. sp' \in Int /\ sp' <= FirstTemp(D)
    BY <1>5
  <2>3. \A k \in 1 .. D : sp' + 0 <= FirstTemp(k)
    BY <1>5, <1>9, <2>2
  <2> QED
    BY <1>1, <1>4, <2>1, <2>3 DEF Nesting
<1>11. ASSUME NEW c \in FirstTemp(D) + 1 .. MemSize - 1,
              mem[c] \in Plains(Len(store))
       PROVE  mem'[c] \in Plains(Len(store'))
  BY <1>8, <1>11 DEF MemoryGoesOn
<1>12. \A c \in Globals .. MemSize - 1 : mem'[c] \in Plains(Len(store'))
  BY <1>1, <1>5, <1>11, Sizes DEF MemoryOK
<1>13. \A k \in 1 .. D : \A c \in FirstTemp(k) + 1 .. Edge(k) :
         mem'[c] \in Plains(Len(store'))
  <2> TAKE k \in 1 .. D
  <2> TAKE c \in FirstTemp(k) + 1 .. Edge(k)
  <2>1. mem[c] \in Plains(Len(store))
    BY <1>1 DEF MemoryOK
  <2>2. c \in FirstTemp(D) + 1 .. MemSize - 1
    BY <1>5, <1>9, Sizes
  <2> QED
    BY <2>1, <2>2, <1>11
<1>14. ASSUME NEW c \in sp' + 1 .. MemSize - 1
       PROVE  /\ mem'[c] # Junk
              /\ mem'[c].kind = "cell" => c < mem'[c].c /\ Target(mem'[c].c)
  <2>1. CASE c <= FirstTemp(D)
    <3>0. c \in top + 1 .. MemSize - 1
      BY <1>17
    <3>1. c \in top + 1 .. FirstTemp(D)
      BY <3>0, <1>5, <2>1, Sizes
    <3>2. c \in sp' + 1 .. FirstTemp(D)
      BY <1>17, <3>1
    <3> QED
      BY <3>2 DEF MemoryGoesOn, Temporary
  <2>2. CASE FirstTemp(D) < c
    <3>1. c \in FirstTemp(D) + 1 .. MemSize - 1
      BY <1>5, <2>2, Sizes
    <3>2. CASE mem'[c] = mem[c]
      <4>1. sp <= FirstTemp(D) /\ sp \in Int
        BY <1>1, <1>3, FrameFacts, Sizes DEF ControlOK
      <4>2. c \in sp + 1 .. MemSize - 1
        BY <1>5, <3>1, <4>1, Sizes
      <4> QED
        BY <1>1, <3>2, <4>2 DEF MemoryOK
    <3>3. CASE mem'[c] \in Plains(Len(store'))
      BY <1>7, <3>3, PlainWords
    <3> QED
      BY <3>1, <3>2, <3>3 DEF MemoryGoesOn
  <2> QED
    BY <1>5, <2>1, <2>2
<1>15. MemoryOK'
  <2>1. Pending' = 0
    BY <1>4 DEF Pending
  <2>3. ASSUME NEW c \in sp' + 1 .. sp' + Pending' PROVE FALSE
    <3>1. c \in top + 1 .. top + 0
      BY <1>17, <2>1
    <3> QED
      BY <3>1
  <2> QED
    BY <1>4, <1>12, <1>13, <1>14, <2>1, <2>3 DEF MemoryOK, MemoryGoesOn
<1>16. ASSUME NEW k \in 1 .. D PROVE FrameOK(k)'
  <2>1. FrameOK(k)
    BY <1>1
  <2>2. Position(k)' \in DOMAIN Code \ Heads /\ Function(k)' = Function(k)
    <3>1. CASE k = D
      <4>1. Position(k) = ip /\ Position(k)' = ip'
        BY <1>2, <3>1 DEF Position
      <4> QED
        BY <4>1 DEF SameBody, Function
    <3>2. CASE k # D
      <4>1. 5 * k <= Len(calls)
        BY <1>2, <3>2
      <4>2. Position(k)' = Position(k)
        BY <4>1 DEF Position
      <4> QED
        BY <2>1, <4>2 DEF FrameOK, Function
    <3> QED
      BY <3>1, <3>2
  <2>3. ASSUME OfClosure(k), k # 1
        PROVE  ClosureOf(store', mem'[Above(k) - 1], Function(k))
    <3>1. ClosureOf(store, mem[Above(k) - 1], Function(k))
      BY <2>1, <2>3 DEF FrameOK
    <3>2. Edge(k) = Above(k) - 1
      BY <2>3, FrameFacts
    <3>3. ~Target(Edge(k)) /\ Edge(k) < Globals /\ FirstTemp(k) < Edge(k)
      BY <2>3, ClosuresAreNoTargets
    <3>4. Edge(k) \in FirstTemp(D) + 1 .. MemSize - 1
      BY <1>5, <1>9, <3>3, Sizes
    <3>5. mem'[Edge(k)] = mem[Edge(k)]
      BY <3>3, <3>4 DEF MemoryGoesOn
    <3>6. mem[Edge(k)] \in Plains(Len(store))
      BY <1>1, <1>9, <3>3 DEF MemoryOK
    <3> QED
      BY <1>1, <3>1, <3>2, <3>5, <3>6, ClosuresStay
  <2> QED
    BY <1>4, <2>1, <2>2, <2>3 DEF FrameOK
<1> QED
  BY <1>4, <1>6, <1>7, <1>10, <1>15, <1>16 DEF RunIInv
-----------------------------------------------------------------------------
(* The instruction at ip is BEGIN if the function has not begun.           *)
LEMMA Here ==
  ASSUME RunIInv, NEW i \in Code[ip]
  PROVE  Emitted(ip, i) /\ (i.op = "BEGIN" <=> AtEntry)
<1>1. ControlOK /\ ip \in DOMAIN Code
  BY DEF RunIInv, ControlOK
<1>2. Emitted(ip, i)
  BY <1>1, CodeAssumption
<1>3. CASE AtEntry
  <2>1. ip \in Heads
    BY <1>1, <1>3 DEF ControlOK
  <2>2. PICK j \in Code[ip] : j.op = "BEGIN"
    BY <2>1 DEF Heads
  <2>3. i = j
    BY <2>1, CodeAssumption
  <2> QED
    BY <1>2, <1>3, <2>2, <2>3
<1>4. CASE ~AtEntry
  <2>1. Depth \in 1 .. Depth /\ Len(calls) = 5 * Depth - 1
    BY <1>1, <1>4, DepthFacts
  <2>2. ip = Position(Depth)
    BY <2>1 DEF Position
  <2>3. ip \notin Heads
    BY <2>1, <2>2 DEF RunIInv, FrameOK
  <2> QED
    BY <1>1, <1>2, <1>4, <2>3 DEF Heads
<1> QED
  BY <1>3, <1>4

(* In the body of a function.                                              *)
LEMMA BodyFacts ==
  ASSUME RunIInv, ~AtEntry
  PROVE  /\ Depth \in 1 .. Depth /\ Depth \in Nat
         /\ Frame(Depth) = [fp |-> fp, args |-> nArgs, locals |-> nLocals]
         /\ fp \in Nat /\ nArgs \in Nat /\ nLocals \in Nat /\ sp \in Nat \ {0}
         /\ FirstTemp(Depth) = fp - nLocals /\ FirstTemp(Depth) \in Int
         /\ Temps = FirstTemp(Depth) - sp /\ Temps \in Nat
         /\ FirstTemp(Depth) < Globals
         /\ Position(Depth) = ip /\ FrameOK(Depth)
         /\ Len(store) \in Nat
<1>1. ControlOK /\ sp \in 1 .. Globals - 1 /\ StoreOK(store)
  BY DEF RunIInv, ControlOK
<1>2. Depth \in 1 .. Depth /\ Depth \in Nat /\ Len(calls) = 5 * Depth - 1
  BY <1>1, DepthFacts
<1>3. Frame(Depth) = [fp |-> fp, args |-> nArgs, locals |-> nLocals]
  BY DEF Frame
<1>4. FrameOK(Depth)
  BY <1>2 DEF RunIInv
<1>5. fp \in Nat /\ nArgs \in Nat /\ nLocals \in Nat
  BY <1>3, <1>4 DEF FrameOK
<1>6. FirstTemp(Depth) = fp - nLocals
  BY <1>3 DEF FirstTemp
<1>7. sp <= FirstTemp(Depth) /\ FirstTemp(Depth) < Globals
  BY <1>2, <1>5, <1>6, FrameFacts, Sizes, SMTT(30)
<1>8. Position(Depth) = ip
  BY <1>2 DEF Position
<1>9. Temps = FirstTemp(Depth) - sp
  BY <1>6 DEF Temps
<1>10. sp \in Nat \ {0} /\ Len(store) \in Nat
  BY <1>1, Sizes DEF StoreOK
<1>11. FirstTemp(Depth) \in Int
  BY <1>5, <1>6
<1>12. Temps \in Nat
  BY <1>7, <1>9, <1>10, <1>11
<1> QED
  BY <1>2, <1>3, <1>4, <1>5, <1>6, <1>7, <1>8, <1>9, <1>10, <1>11, <1>12

LEMMA OperandFacts ==
  ASSUME RunIInv, ~AtEntry, NEW k \in 1 .. Temps
  PROVE  /\ sp + k \in sp + 1 .. FirstTemp(Depth) /\ sp + k < Globals
         /\ Word(k) \in Storable(Len(store)) /\ Word(k) # Junk
         /\ ~IsAddress(Word(k)) => Word(k) \in Plains(Len(store))
         /\ Word(k).kind = "cell" => Target(Word(k).c)
<1>1. /\ Temps = FirstTemp(Depth) - sp /\ FirstTemp(Depth) \in Int
      /\ FirstTemp(Depth) < Globals /\ sp \in Nat /\ Len(store) \in Nat
  BY BodyFacts
<1>2. sp + k \in sp + 1 .. FirstTemp(Depth) /\ sp + k < Globals
  BY <1>1, Sizes
<1>3. sp + k \in sp + 1 .. MemSize - 1 /\ sp + k \in Memory
  BY <1>1, <1>2, Sizes
<1>4. Word(k) \in Storable(Len(store))
  BY <1>3 DEF Word, RunIInv, MemoryOK
<1>5. Word(k) # Junk /\ (Word(k).kind = "cell" => Target(Word(k).c))
  BY <1>3 DEF Word, RunIInv, MemoryOK
<1> QED
  BY <1>1, <1>2, <1>4, <1>5, StorableWords

LEMMA PlainTemporary ==
  ASSUME NEW n \in Nat, NEW w \in Plains(n), NEW c
  PROVE  Temporary(c, w) /\ w \in Storable(n)
BY PlainWords DEF Temporary

LEMMA StoreStays == ASSUME StoreOK(store), UNCHANGED store PROVE StoreGrows
BY DEF StoreOK, StoreGrows

(* What is on the stack stays a temporary.                                 *)
LEMMA TemporariesStay ==
  ASSUME RunIInv, ~AtEntry, NEW c \in sp + 1 .. FirstTemp(Depth)
  PROVE  Temporary(c, mem[c])
<1>1. c \in sp + 1 .. MemSize - 1
  BY BodyFacts, Sizes
<1> QED
  BY <1>1 DEF RunIInv, MemoryOK, Temporary

(* n operands make place for a result.                                     *)
LEMMA ResultStep ==
  ASSUME RunIInv, ~AtEntry, NEW n \in 0 .. Temps, n = 0 => 1 < sp,
         StoreGrows, NEW v \in Storable(Len(store')), Temporary(sp + n, v),
         Result(n, v), SameBody(ip, ip'), UNCHANGED <<calls, registers>>
  PROVE  RunIInv'
<1>1. /\ Temps = FirstTemp(Depth) - sp /\ FirstTemp(Depth) \in Int
      /\ FirstTemp(Depth) < Globals /\ sp \in Nat \ {0} /\ Len(store) \in Nat
  BY BodyFacts
<1>2. /\ sp' = sp + n - 1
      /\ mem' = [c \in Memory |-> IF c = sp + n THEN v
                                  ELSE IF sp < c /\ c < sp + n /\ c < Globals
                                       THEN Junk
                                  ELSE mem[c]]
  BY DEF Result
<1>3. sp + n <= FirstTemp(Depth) /\ n \in Nat /\ sp' \in 1 .. FirstTemp(Depth)
  BY <1>1, <1>2
<1>4. /\ mem \in [Memory -> Storable(Len(store))] /\ mem[0] = Junk
  BY DEF RunIInv, MemoryOK
<1>5. Storable(Len(store)) \subseteq Storable(Len(store'))
  BY <1>1, WordsStay DEF StoreGrows, StoreOK
<1>6. Junk \in Storable(Len(store'))
  BY DEF Storable
<1>7. mem' \in [Memory -> Storable(Len(store'))]
  BY <1>2, <1>4, <1>5, <1>6
<1>8. mem'[0] = Junk
  BY <1>1, <1>2, <1>3, <1>4, Sizes
<1>9. \A c \in FirstTemp(Depth) + 1 .. MemSize - 1 : mem'[c] = mem[c]
  BY <1>1, <1>2, <1>3, Sizes
<1>10. \A c \in sp + n .. FirstTemp(Depth) : Temporary(c, mem'[c])
  <2> TAKE c \in sp + n .. FirstTemp(Depth)
  <2>0. c \in Memory
    BY <1>1, <1>3, Sizes
  <2>1. CASE c = sp + n
    BY <1>2, <2>0, <2>1
  <2>2. CASE c # sp + n
    <3>1. mem'[c] = mem[c] /\ c \in sp + 1 .. FirstTemp(Depth)
      BY <1>1, <1>2, <1>3, <2>0, <2>2
    <3> QED
      BY <3>1, TemporariesStay
  <2> QED
    BY <2>1, <2>2
<1>11. sp' + 1 = sp + n
  BY <1>1, <1>2, <1>3
<1>12. MemoryGoesOn
  BY <1>7, <1>8, <1>9, <1>10, <1>11 DEF MemoryGoesOn
<1> QED
  BY <1>3, <1>12, BodyStep

(* An operand is given up.                                                 *)
LEMMA PopStep ==
  ASSUME RunIInv, ~AtEntry, 1 <= Temps,
         mem' = [mem EXCEPT ![sp + 1] = Junk], sp' = sp + 1,
         SameBody(ip, ip'), UNCHANGED <<calls, registers, store>>
  PROVE  RunIInv'
<1>1. /\ Temps = FirstTemp(Depth) - sp /\ FirstTemp(Depth) \in Int
      /\ FirstTemp(Depth) < Globals /\ sp \in Nat \ {0} /\ Len(store) \in Nat
  BY BodyFacts
<1>2. mem \in [Memory -> Storable(Len(store))] /\ mem[0] = Junk
  BY DEF RunIInv, MemoryOK
<1>3. Junk \in Storable(Len(store))
  BY DEF Storable
<1>4. sp' \in 1 .. FirstTemp(Depth)
  BY <1>1
<1>5. mem' \in [Memory -> Storable(Len(store))] /\ mem'[0] = Junk
  BY <1>1, <1>2, <1>3, Sizes
<1>6. \A c \in FirstTemp(Depth) + 1 .. MemSize - 1 : mem'[c] = mem[c]
  BY <1>1, <1>2, Sizes
<1>7. \A c \in sp + 1 + 1 .. FirstTemp(Depth) : Temporary(c, mem'[c])
  <2> TAKE c \in sp + 1 + 1 .. FirstTemp(Depth)
  <2>1. mem'[c] = mem[c] /\ c \in sp + 1 .. FirstTemp(Depth)
    BY <1>1, <1>2, Sizes
  <2> QED
    BY <2>1, TemporariesStay
<1>8. StoreGrows
  BY StoreStays DEF RunIInv
<1>9. MemoryGoesOn
  BY <1>5, <1>6, <1>7 DEF MemoryGoesOn
<1> QED
  BY <1>4, <1>8, <1>9, BodyStep

LEMMA SequenceOf ==
  ASSUME NEW S, NEW n \in Nat, NEW f \in [1 .. n -> S]
  PROVE  f \in Seq(S) /\ Len(f) = n
BY SMT

(* A field of an object is assigned.                                       *)
LEMMA FieldAssigned ==
  ASSUME StoreOK(store), NEW a \in 1 .. Len(store), NEW j,
         NEW v \in Plains(Len(store)),
         store' = [store EXCEPT ![a].fields[j] = v]
  PROVE  StoreGrows /\ Len(store') = Len(store)
<1>1. Len(store) \in Nat /\ store \in Seq(Objects(Len(store))) /\ ClosuresOK(store)
  BY DEF StoreOK
<1>2. /\ DOMAIN store = 1 .. Len(store)
      /\ \A b \in 1 .. Len(store) : store[b] \in Objects(Len(store))
  BY <1>1
<1> DEFINE fs == store[a].fields
           gs == [fs EXCEPT ![j] = v]
           o == [store[a] EXCEPT !.fields = gs]
<1>3. store' = [store EXCEPT ![a] = o]
  BY <1>2
<1>4. fs \in Seq(Plains(Len(store)))
  BY <1>2 DEF Objects
<1>5. Len(fs) \in Nat /\ DOMAIN fs = 1 .. Len(fs)
      /\ \A k \in 1 .. Len(fs) : fs[k] \in Plains(Len(store))
  BY <1>4
<1>6. gs \in [1 .. Len(fs) -> Plains(Len(store))]
  <2>1. \A k \in 1 .. Len(fs) : gs[k] \in Plains(Len(store))
    BY <1>5
  <2> QED
    BY <1>5, <2>1
<1> HIDE DEF gs
<1>7. gs \in Seq(Plains(Len(store))) /\ Len(gs) = Len(fs)
  BY <1>5, <1>6, SequenceOf
<1>8. /\ o \in Objects(Len(store)) /\ o.kind = store[a].kind
      /\ o.tag = store[a].tag /\ o.fields = gs
  BY <1>2, <1>7 DEF Objects
<1> HIDE DEF o
<1>9. /\ store' \in [1 .. Len(store) -> Objects(Len(store))]
      /\ \A b \in 1 .. Len(store) : store'[b] = IF b = a THEN o ELSE store[b]
  BY <1>2, <1>3, <1>8
<1>10. store' \in Seq(Objects(Len(store))) /\ Len(store') = Len(store)
  BY <1>1, <1>9
<1>11. \A b \in 1 .. Len(store) :
         /\ store'[b].kind = store[b].kind /\ store'[b].tag = store[b].tag
         /\ Len(store'[b].fields) = Len(store[b].fields)
  BY <1>7, <1>8, <1>9
<1>12. ClosuresOK(store')
  BY <1>1, <1>10, <1>11 DEF ClosuresOK
<1> QED
  BY <1>10, <1>11, <1>12 DEF StoreGrows, StoreOK

LEMMA Appended ==
  ASSUME StoreOK(store), NEW o \in Objects(Len(store)),
         o.kind = "closure" => /\ Labeled(o.tag) \in Heads
                               /\ Len(o.fields) = Captures[Labeled(o.tag)],
         store' = Append(store, o)
  PROVE  /\ StoreGrows
         /\ NewRef(store) \in Plains(Len(store'))
<1>1. Len(store) \in Nat /\ store \in Seq(Objects(Len(store))) /\ ClosuresOK(store)
  BY DEF StoreOK
<1>2. Len(store') = Len(store) + 1
  BY <1>1
<1>3. Objects(Len(store)) \subseteq Objects(Len(store'))
  BY <1>1, <1>2, ObjectsStay
<1>4. store' \in Seq(Objects(Len(store)))
  BY <1>1
<1>5. /\ \A b \in 1 .. Len(store) : store'[b] = store[b]
      /\ store'[Len(store) + 1] = o
  BY <1>1
<1>6. store' \in Seq(Objects(Len(store')))
  BY <1>3, <1>4
<1>7. ClosuresOK(store')
  <2> SUFFICES ASSUME NEW b \in 1 .. Len(store')
               PROVE  store'[b].kind = "closure" =>
                        /\ Labeled(store'[b].tag) \in Heads
                        /\ Len(store'[b].fields) = Captures[Labeled(store'[b].tag)]
    BY DEF ClosuresOK
  <2>1. b \in 1 .. Len(store) \/ b = Len(store) + 1
    BY <1>1, <1>2
  <2> QED
    BY <1>1, <1>5, <2>1 DEF ClosuresOK
<1>8. NewRef(store) \in Plains(Len(store'))
  BY <1>1, <1>2 DEF NewRef, Obj, Plains
<1> QED
  BY <1>1, <1>2, <1>5, <1>6, <1>7, <1>8 DEF StoreGrows, StoreOK
-----------------------------------------------------------------------------
(* What is in the store.                                                   *)
LEMMA InStore ==
  ASSUME StoreOK(store), NEW a \in 1 .. Len(store)
  PROVE  /\ store[a].kind \in {"string", "array", "sexp", "closure"}
         /\ store[a].fields \in Seq(Plains(Len(store)))
         /\ Len(store[a].fields) \in Nat
<1>1. PICK o \in Objects(Len(store)) : o = store[a]
  BY DEF StoreOK
<1> QED
  BY <1>1 DEF Objects

(* The closure a function runs with is one of that function.               *)
LEMMA OwnClosure ==
  ASSUME RunIInv, ~AtEntry, 0 < Captures[Owner[ip]]
  PROVE  /\ Closure.a \in 1 .. Len(store)
         /\ Len(store[Closure.a].fields) = Captures[Owner[ip]]
<1>1. /\ Depth \in 1 .. Depth /\ Depth \in Nat /\ FrameOK(Depth)
      /\ Position(Depth) = ip /\ Len(store) \in Nat
      /\ Frame(Depth) = [fp |-> fp, args |-> nArgs, locals |-> nLocals]
      /\ fp \in Nat /\ nArgs \in Nat
  BY BodyFacts
<1>2. Function(Depth) = Owner[ip]
  BY <1>1 DEF Function
<1>3. Depth # 1
  <2>1. Owner[ip] \in Entries => Captures[Owner[ip]] = 0
    BY CodeAssumption
  <2> QED
    BY <1>1, <1>2, <2>1 DEF FrameOK
<1>4. OfClosure(Depth) /\ ClosureOf(store, mem[Above(Depth) - 1], Owner[ip])
  BY <1>1, <1>2, <1>3 DEF FrameOK
<1>5. Above(Depth) - 1 = fp + nArgs + 1
  <2>1. Truth(OfClosure(Depth)) = 1
    BY <1>4 DEF Truth
  <2>2. Above(Depth) = fp + nArgs + 1 + 1
    BY <1>1, <2>1 DEF Above
  <2> QED
    BY <1>1, <2>2
<1>6. Closure \in Plains(Len(store))
  <2>1. /\ Edge(Depth) = Above(Depth) - 1 /\ FirstTemp(Depth) < Edge(Depth)
        /\ Edge(Depth) \in Int /\ FirstTemp(Depth) \in Int
    BY <1>1, <1>4, FrameFacts, ClosuresAreNoTargets
  <2>2. Edge(Depth) \in FirstTemp(Depth) + 1 .. Edge(Depth)
    BY <2>1
  <2> QED
    BY <1>1, <1>5, <2>1, <2>2 DEF Closure, RunIInv, MemoryOK
<1>7. IsObj(Closure) /\ store[Closure.a].kind = "closure"
      /\ Labeled(store[Closure.a].tag) = Owner[ip]
  BY <1>4, <1>5 DEF Closure, ClosureOf, HasKind
<1>8. Closure.a \in 1 .. Len(store)
  BY <1>1, <1>6, <1>7, PlainWords
<1> QED
  BY <1>7, <1>8 DEF RunIInv, StoreOK, ClosuresOK

(* What an address of a variable is, and what is there.                    *)
AddressOK(p) ==
  /\ p \in Storable(Len(store)) /\ p # Junk
  /\ p.kind = "cell" => /\ p = Cell(p.c) /\ FirstTemp(Depth) < p.c
                        /\ Target(p.c)
  /\ p.kind = "inside" => p.a \in 1 .. Len(store)

LEMMA CellAddress ==
  ASSUME RunIInv, ~AtEntry, NEW c \in 1 .. MemSize - 1, FirstTemp(Depth) < c,
         Target(c), mem[c] \in Plains(Len(store))
  PROVE  AddressOK(Cell(c)) /\ Contents(Cell(c)) \in Plains(Len(store))
BY DEF AddressOK, Cell, Storable, Junk, Contents

LEMMA Designated ==
  ASSUME RunIInv, ~AtEntry, NEW d, Designates(ip, d), InRange(d)
  PROVE  AddressOK(Address(d)) /\ Contents(Address(d)) \in Plains(Len(store))
<1>1. /\ Depth \in 1 .. Depth /\ Depth \in Nat /\ FrameOK(Depth)
      /\ Position(Depth) = ip /\ Len(store) \in Nat
      /\ Frame(Depth) = [fp |-> fp, args |-> nArgs, locals |-> nLocals]
      /\ fp \in Nat /\ nArgs \in Nat /\ nLocals \in Nat
      /\ FirstTemp(Depth) = fp - nLocals /\ FirstTemp(Depth) < Globals
      /\ sp \in Nat \ {0} /\ Temps \in Nat /\ Temps = FirstTemp(Depth) - sp
  BY BodyFacts
<1>2. /\ d.i \in Nat /\ d.where \in {"Global", "Local", "Arg", "Access"}
  BY DEF Designates
<1>3. /\ TopVar(Depth) <= Edge(Depth) /\ Edge(Depth) < Globals /\ fp <= TopVar(Depth)
      /\ TopVar(Depth) \in Int /\ Edge(Depth) \in Int
  BY <1>1, FrameFacts, SMTT(30)
<1>4. ASSUME NEW c \in FirstTemp(Depth) + 1 .. TopVar(Depth)
      PROVE  AddressOK(Cell(c)) /\ Contents(Cell(c)) \in Plains(Len(store))
  <2>1. c \in FirstTemp(Depth) + 1 .. Edge(Depth) /\ c \in 1 .. MemSize - 1
    BY <1>1, <1>3, Sizes
  <2>2. Target(c) /\ FirstTemp(Depth) < c
    BY <1>1, <1>3 DEF Target
  <2>3. mem[c] \in Plains(Len(store))
    BY <1>1, <2>1 DEF RunIInv, MemoryOK
  <2> QED
    BY <2>1, <2>2, <2>3, CellAddress
<1>5. CASE d.where = "Global"
  <2>1. Address(d) = Cell(Globals + d.i) /\ d.i < NGlobals
    BY <1>5 DEF Address, InRange
  <2>4. PICK g \in Nat, ms \in Nat, n \in Nat, x \in Nat, first \in Int :
          /\ g = Globals /\ ms = MemSize /\ n = NGlobals /\ x = d.i
          /\ first = FirstTemp(Depth) /\ x < n /\ g = ms - n /\ 2 <= g /\ first < g
    <3>1. /\ Globals \in Nat /\ MemSize \in Nat /\ NGlobals \in Nat
          /\ Globals = MemSize - NGlobals /\ 2 <= Globals
      BY Sizes
    <3>2. d.i \in Nat /\ d.i < NGlobals
      BY <1>2, <2>1
    <3>3. FirstTemp(Depth) \in Int /\ FirstTemp(Depth) < Globals
      BY <1>1
    <3> QED
      BY <3>1, <3>2, <3>3
  <2>5. g + x \in 1 .. ms - 1 /\ first < g + x /\ g + x \in g .. ms - 1
    BY <2>4
  <2>2. /\ Globals + d.i \in 1 .. MemSize - 1 /\ FirstTemp(Depth) < Globals + d.i
        /\ Globals + d.i \in Globals .. MemSize - 1
    BY <2>4, <2>5
  <2>3. mem[Globals + d.i] \in Plains(Len(store)) /\ Target(Globals + d.i)
    BY <2>2 DEF RunIInv, MemoryOK, Target
  <2> QED
    BY <2>1, <2>2, <2>3, CellAddress
<1>6. CASE d.where = "Local"
  <2>1. Address(d) = Cell(fp - d.i) /\ d.i < nLocals
    BY <1>6 DEF Address, InRange
  <2>2. fp - d.i \in FirstTemp(Depth) + 1 .. TopVar(Depth)
    BY <1>1, <1>2, <1>3, <2>1
  <2> QED
    BY <1>4, <2>1, <2>2
<1>7. CASE d.where = "Arg"
  <2>1. Address(d) = Cell(fp + nArgs - d.i) /\ d.i < nArgs
    BY <1>7 DEF Address, InRange
  <2>2. Depth # 1
    BY <1>1, <1>7 DEF Designates, FrameOK, Function
  <2>3. TopVar(Depth) = fp + nArgs
    BY <1>1, <2>2 DEF TopVar
  <2>4. fp + nArgs - d.i \in FirstTemp(Depth) + 1 .. TopVar(Depth)
    BY <1>1, <1>2, <2>1, <2>3
  <2> QED
    BY <1>4, <2>1, <2>4
<1>8. CASE d.where = "Access"
  <2>1. Address(d) = Inside(Closure.a, d.i) /\ d.i < Captures[Owner[ip]]
    BY <1>8 DEF Address, Designates
  <2>2. Captures[Owner[ip]] \in Nat
    BY CodeAssumption DEF RunIInv, ControlOK
  <2>3. /\ Closure.a \in 1 .. Len(store)
        /\ Len(store[Closure.a].fields) = Captures[Owner[ip]]
    BY <1>2, <2>1, <2>2, OwnClosure
  <2>4. AddressOK(Inside(Closure.a, d.i))
    BY <1>2, <2>3 DEF AddressOK, Inside, Storable, Junk
  <2>5. Contents(Inside(Closure.a, d.i)) = store[Closure.a].fields[d.i + 1]
    BY DEF Contents, Inside
  <2>6. store[Closure.a].fields \in Seq(Plains(Len(store)))
    BY <2>3, InStore DEF RunIInv
  <2>7. d.i + 1 \in 1 .. Len(store[Closure.a].fields)
    BY <1>2, <2>1, <2>2, <2>3
  <2> QED
    BY <2>1, <2>4, <2>5, <2>6, <2>7
<1> QED
  BY <1>2, <1>5, <1>6, <1>7, <1>8

(* A variable is assigned, through its address.                            *)
LEMMA AssignStep ==
  ASSUME RunIInv, ~AtEntry, NEW n \in 1 .. Temps, NEW p, NEW v \in Plains(Len(store)),
         p.kind = "cell" => Target(p.c),
         p.kind = "inside" => p.a \in 1 .. Len(store),
         StoreAt(p, n, v), SameBody(ip, Following(ip))
  PROVE  RunIInv'
<1>1. /\ Temps = FirstTemp(Depth) - sp /\ FirstTemp(Depth) \in Int
      /\ FirstTemp(Depth) < Globals /\ sp \in Nat \ {0} /\ Len(store) \in Nat
  BY BodyFacts
<1>2. PICK top : top = sp + n
  OBVIOUS
<1>3. /\ top \in Nat /\ sp < top /\ top <= FirstTemp(Depth)
  BY <1>1, <1>2
<1>4. /\ mem' = [c \in Memory |->
                   IF c = top THEN v
                   ELSE IF c \in sp + 1 .. top - 1 THEN Junk
                   ELSE IF p = Cell(c) THEN v ELSE mem[c]]
      /\ sp' = top - 1
      /\ store' = IF p.kind = "inside"
                  THEN [store EXCEPT ![p.a].fields[p.i + 1] = v] ELSE store
      /\ ip' = Following(ip) /\ UNCHANGED <<calls, registers>>
  BY <1>2 DEF StoreAt, Advance
<1>5. StoreOK(store) /\ mem \in [Memory -> Storable(Len(store))] /\ mem[0] = Junk
  BY DEF RunIInv, MemoryOK
<1>6. StoreGrows /\ Len(store') = Len(store)
  <2>1. CASE p.kind = "inside"
    <3>1. store' = [store EXCEPT ![p.a].fields[p.i + 1] = v]
      BY <1>4, <2>1
    <3> QED
      BY <1>5, <2>1, <3>1, FieldAssigned
  <2>2. CASE p.kind # "inside"
    BY <1>4, <1>5, <2>2, StoreStays
  <2> QED
    BY <2>1, <2>2
<1>7. sp' \in 1 .. FirstTemp(Depth) /\ sp' + 1 = top
  BY <1>1, <1>3, <1>4
<1>8. Junk \in Storable(Len(store)) /\ v \in Storable(Len(store))
  BY <1>1, PlainWords DEF Storable
<1>9. mem' \in [Memory -> Storable(Len(store'))]
  BY <1>4, <1>5, <1>6, <1>8
<1>10. ASSUME NEW c, p = Cell(c) PROVE Target(c)
  BY <1>10 DEF Cell
<1>11. mem'[0] = Junk
  <2>1. 0 \in Memory /\ 0 # top /\ 0 \notin sp + 1 .. top - 1
    BY <1>1, <1>3, Sizes
  <2>2. p # Cell(0)
    <3>1. ~Target(0)
      <4>1. 0 \notin Globals .. MemSize - 1
        BY Sizes
      <4>2. ASSUME NEW k \in 1 .. Depth PROVE ~(FirstTemp(k) < 0)
        <5>1. sp <= FirstTemp(k) /\ FirstTemp(k) \in Int
          BY FrameFacts
        <5> QED
          BY <1>1, <5>1
      <4> QED
        BY <4>1, <4>2 DEF Target
    <3> QED
      BY <1>10, <3>1
  <2> QED
    BY <1>4, <1>5, <2>1, <2>2
<1>12. ASSUME NEW c \in FirstTemp(Depth) + 1 .. MemSize - 1
       PROVE  mem'[c] = mem[c] \/ (Target(c) /\ mem'[c] \in Plains(Len(store')))
  <2>1. c \in Memory /\ c # top /\ c \notin sp + 1 .. top - 1
    BY <1>1, <1>3, Sizes
  <2>2. mem'[c] = IF p = Cell(c) THEN v ELSE mem[c]
    BY <1>4, <2>1
  <2> QED
    BY <1>6, <1>10, <2>2
<1>13. ASSUME NEW c \in top .. FirstTemp(Depth) PROVE Temporary(c, mem'[c])
  <2>1. c \in Memory /\ c \notin sp + 1 .. top - 1 /\ c \in sp + 1 .. FirstTemp(Depth)
    BY <1>1, <1>3, Sizes
  <2>2. mem'[c] = v \/ mem'[c] = mem[c]
    BY <1>4, <2>1
  <2> QED
    BY <1>1, <2>1, <2>2, PlainTemporary, TemporariesStay
<1>14. MemoryGoesOn
  BY <1>7, <1>9, <1>11, <1>12, <1>13 DEF MemoryGoesOn
<1>15. SameBody(ip, ip')
  BY <1>4
<1> QED
  BY <1>4, <1>6, <1>7, <1>14, <1>15, BodyStep
-----------------------------------------------------------------------------
(* The instruction i of the body of a function is next, and there is room  *)
(* for what it pushes.                                                     *)
Runs(i) ==
  /\ RunIInv /\ ~AtEntry /\ i.op # "BEGIN"
  /\ ip \in DOMAIN Code /\ i \in Code[ip] /\ Emitted(ip, i)
  /\ StackDiscipline(i) /\ NoException(i) /\ WellFormed(i)
  /\ Bounded(i) /\ Fits(i)

Falls == {"JMP", "END", "FAIL"}

LEMMA Used ==
  ASSUME NEW i, Runs(i), NEW u \in Nat, u = Uses(i)
  PROVE  /\ u \in 0 .. Temps
         /\ \A k \in 1 .. u :
              /\ k \in 1 .. Temps /\ Word(k) \in Storable(Len(store))
              /\ i.op # "STA" => Word(k) \in Plains(Len(store))
              /\ Word(k).kind = "cell" => Target(Word(k).c)
<1>1. RunIInv /\ ~AtEntry /\ i.op # "BEGIN" /\ StackDiscipline(i)
  BY DEF Runs
<1>2. Temps \in Nat
  BY <1>1, BodyFacts
<1>3. u <= Temps
  BY <1>1, <1>2 DEF StackDiscipline
<1>4. ASSUME NEW k \in 1 .. u
      PROVE  /\ k \in 1 .. Temps /\ Word(k) \in Storable(Len(store))
             /\ i.op # "STA" => Word(k) \in Plains(Len(store))
             /\ Word(k).kind = "cell" => Target(Word(k).c)
  <2>1. k \in 1 .. Temps
    BY <1>2, <1>3
  <2>2. i.op # "STA" => ~IsAddress(Word(k))
    BY <1>1 DEF StackDiscipline
  <2> QED
    BY <1>1, <2>1, <2>2, OperandFacts
<1> QED
  BY <1>2, <1>3, <1>4

LEMMA ComputeStep ==
  ASSUME NEW i, Runs(i), i.op \notin Falls,
         NEW n \in 0 .. Temps, n = 0 => 1 < sp,
         NEW v \in Storable(Len(store)), Temporary(sp + n, v), Compute(n, v)
  PROVE  RunIInv'
<1>1. RunIInv /\ ~AtEntry /\ SameBody(ip, Following(ip))
  BY DEF Runs, Emitted, Falls
<1>2. /\ Result(n, v) /\ UNCHANGED <<calls, registers>> /\ UNCHANGED store
      /\ ip' = Following(ip)
  BY DEF Compute, Advance
<1>3. StoreGrows /\ v \in Storable(Len(store')) /\ SameBody(ip, ip')
  BY <1>1, <1>2, StoreStays DEF RunIInv
<1> QED
  BY <1>1, <1>2, <1>3, ResultStep

LEMMA PlainStep ==
  ASSUME NEW i, Runs(i), i.op \notin Falls,
         NEW n \in 0 .. Temps, n = 0 => 1 < sp,
         NEW v \in Plains(Len(store)), Compute(n, v)
  PROVE  RunIInv'
<1>1. Len(store) \in Nat
  BY DEF Runs, RunIInv, StoreOK
<1>2. v \in Storable(Len(store)) /\ Temporary(sp + n, v)
  BY <1>1, PlainTemporary
<1> QED
  BY <1>2, ComputeStep

LEMMA AllocateStep ==
  ASSUME NEW i, Runs(i), i.op \notin Falls,
         NEW n \in 0 .. Temps, n = 0 => 1 < sp,
         NEW o \in Objects(Len(store)),
         o.kind = "closure" => /\ Labeled(o.tag) \in Heads
                               /\ Len(o.fields) = Captures[Labeled(o.tag)],
         Allocate(n, o)
  PROVE  RunIInv'
<1>1. RunIInv /\ ~AtEntry /\ SameBody(ip, Following(ip)) /\ StoreOK(store)
  BY DEF Runs, Emitted, Falls, RunIInv
<1>2. /\ Result(n, NewRef(store)) /\ UNCHANGED <<calls, registers>>
      /\ store' = Append(store, o) /\ ip' = Following(ip)
  BY DEF Allocate, Advance
<1>3. StoreGrows /\ NewRef(store) \in Plains(Len(store')) /\ SameBody(ip, ip')
  BY <1>1, <1>2, Appended
<1>4. Len(store') \in Nat
  BY <1>3 DEF StoreGrows, StoreOK
<1>5. NewRef(store) \in Storable(Len(store')) /\ Temporary(sp + n, NewRef(store))
  BY <1>3, <1>4, PlainTemporary
<1> QED
  BY <1>1, <1>2, <1>3, <1>5, ResultStep
-----------------------------------------------------------------------------
(* Every instruction of the body of a function.                            *)
LEMMA Room ==
  ASSUME NEW i, Runs(i),
         \/ i.op \in {"CONST", "STRING", "LD", "LDA", "CLOSURE", "DUP", "read"}
         \/ i.op \in {"SEXP", ".array"} /\ i.n = 0
  PROVE  1 < sp /\ 0 \in 0 .. Temps
<1>1. Fits(i) /\ RunIInv /\ ~AtEntry
  BY DEF Runs
<1>2. Temps \in Nat /\ sp \in Nat
  BY <1>1, BodyFacts
<1>3. Pushes(i).op = 1
  <2>1. CASE i.op \in {"CONST", "STRING", "LD", "LDA", "CLOSURE", "DUP", "read"}
    BY <2>1 DEF Pushes
  <2>2. CASE i.op \in {"SEXP", ".array"} /\ i.n = 0
    BY <2>2 DEF Pushes, Truth
  <2> QED
    BY <2>1, <2>2
<1> QED
  BY <1>1, <1>2, <1>3 DEF Fits

LEMMA LoadSteps ==
  ASSUME NEW i, Runs(i), LD(i) \/ LDA(i)
  PROVE  RunIInv'
<1>1. /\ i.op \in {"LD", "LDA"} /\ Designates(ip, i.d) /\ InRange(i.d)
      /\ RunIInv /\ ~AtEntry
  BY DEF Runs, Emitted, LD, LDA
<1>2. i.op \notin Falls
  BY <1>1 DEF Falls
<1>3. 1 < sp /\ 0 \in 0 .. Temps
  BY <1>1, Room
<1>4. /\ AddressOK(Address(i.d)) /\ Contents(Address(i.d)) \in Plains(Len(store))
  BY <1>1, Designated
<1>5. CASE LD(i)
  BY <1>2, <1>3, <1>4, <1>5, PlainStep DEF LD
<1>6. CASE LDA(i)
  <2> DEFINE p == Address(i.d)
  <2>1. p \in Storable(Len(store)) /\ p # Junk
        /\ (p.kind = "cell" => FirstTemp(Depth) < p.c /\ Target(p.c) /\ p = Cell(p.c))
    BY <1>4 DEF AddressOK
  <2>2. p.kind = "cell" => p.c \in 1 .. MemSize - 1
    <3>1. Len(store) \in Nat
      BY <1>1, BodyFacts
    <3> HIDE DEF p
    <3> QED
      BY <2>1, <3>1, StorableWords
  <2>3. /\ sp <= FirstTemp(Depth) /\ FirstTemp(Depth) \in Int /\ sp \in Int
    BY <1>1, BodyFacts
  <2>4. Compute(0, p)
    BY <1>6 DEF LDA
  <2> HIDE DEF p
  <2>5. sp + 0 < p.c \/ p.kind # "cell"
    BY <2>1, <2>2, <2>3, Sizes
  <2>6. Temporary(sp + 0, p)
    BY <2>1, <2>5 DEF Temporary
  <2> QED
    BY <1>2, <1>3, <2>1, <2>4, <2>6, ComputeStep
<1> QED
  BY <1>5, <1>6

LEMMA AssignSteps ==
  ASSUME NEW i, Runs(i), ST(i) \/ STA(i)
  PROVE  RunIInv'
<1>1. RunIInv /\ ~AtEntry /\ SameBody(ip, Following(ip)) /\ Len(store) \in Nat
  BY BodyFacts DEF Runs, Emitted, ST, STA
<1>2. CASE ST(i)
  <2>1. i.op = "ST" /\ Designates(ip, i.d) /\ InRange(i.d)
        /\ StoreAt(Address(i.d), 1, Word(1))
    BY <1>2 DEF ST, Runs, Emitted
  <2>2. Uses(i) = 1
    BY <2>1 DEF Uses
  <2>3. 1 \in 1 .. Temps /\ Word(1) \in Plains(Len(store))
    BY <2>1, <2>2, Used
  <2>4. AddressOK(Address(i.d))
    BY <1>1, <2>1, Designated
  <2>5. PICK p : p = Address(i.d)
    OBVIOUS
  <2>6. /\ p.kind = "cell" => Target(p.c)
        /\ p.kind = "inside" => p.a \in 1 .. Len(store)
    BY <2>4, <2>5 DEF AddressOK
  <2> QED
    BY <1>1, <2>1, <2>3, <2>5, <2>6, AssignStep
<1>3. CASE STA(i)
  <2>0. i.op = "STA" /\ StackDiscipline(i) /\ NoException(i)
    BY <1>3 DEF STA, Runs
  <2>1. Temps \in Nat
    BY <1>1, BodyFacts
  <2>2. Uses(i) = IF Temps >= 2 /\ IsNum(Word(2)) THEN 3 ELSE 2
    BY <2>0 DEF Uses
  <2>3. Uses(i) \in {2, 3} /\ Temps >= 2
    BY <2>0, <2>1, <2>2 DEF StackDiscipline
  <2>4. IF IsNum(Word(2)) THEN Uses(i) = 3 ELSE Uses(i) = 2
    BY <2>2, <2>3
  <2>5. \A k \in 1 .. Uses(i) :
          IsAddress(Word(k)) <=> (k = 2 /\ ~IsNum(Word(2)))
    BY <2>0 DEF StackDiscipline
  <2>6. ~IsAddress(Word(1)) /\ (IsAddress(Word(2)) <=> ~IsNum(Word(2)))
    BY <2>3, <2>5
  <2>7. /\ 1 \in 1 .. Temps /\ 2 \in 1 .. Temps
    BY <2>1, <2>3
  <2>8. Word(1) \in Plains(Len(store))
    BY <1>1, <2>6, <2>7, OperandFacts
  <2>9. /\ Word(2) \in Storable(Len(store))
        /\ Word(2).kind = "cell" => Target(Word(2).c)
    BY <1>1, <2>7, OperandFacts
  <2>10. CASE ~IsNum(Word(2))
    <3>1. StoreAt(Word(2), 2, Word(1))
      BY <1>3, <2>10 DEF STA, Unboxed
    <3>2. Word(2).kind = "inside" => Word(2).a \in 1 .. Len(store)
      BY <1>1, <2>9, StorableWords
    <3> QED
      BY <1>1, <2>7, <2>8, <2>9, <3>1, <3>2, AssignStep
  <2>11. CASE IsNum(Word(2))
    <3>1. /\ store' = WithElem(store, Word(3), Word(2), Word(1))
          /\ Result(3, Word(1)) /\ ip' = Following(ip)
          /\ UNCHANGED <<calls, registers>>
      <4>1. ~(~Unboxed(Word(2)))
        BY <2>11 DEF Unboxed
      <4> QED
        BY <1>3, <4>1 DEF STA, Advance
    <3>2. Uses(i) = 3 /\ 3 \in 1 .. Temps /\ 3 \in 0 .. Temps
      BY <2>0, <2>1, <2>4, <2>11 DEF StackDiscipline
    <3>3. ~IsAddress(Word(3))
      BY <2>5, <3>2
    <3>4. Word(3) \in Plains(Len(store))
      BY <1>1, <3>2, <3>3, OperandFacts
    <3>5. ~IsAddress(Word(2))
      BY <2>6, <2>11
    <3>6. HasElem(store, Word(3), Word(2))
      BY <2>0, <3>5 DEF NoException
    <3>7. IsObj(Word(3))
      BY <3>6 DEF HasElem
    <3>8. Word(3).a \in 1 .. Len(store)
      BY <1>1, <3>4, <3>7, PlainWords
    <3>9. store' = [store EXCEPT ![Word(3).a].fields[Word(2).n + 1] = Word(1)]
      BY <3>1 DEF WithElem
    <3>10. StoreGrows /\ Len(store') = Len(store)
      BY <1>1, <2>8, <3>8, <3>9, FieldAssigned DEF RunIInv
    <3>11. /\ Word(1) \in Storable(Len(store')) /\ Temporary(sp + 3, Word(1))
      BY <1>1, <2>8, <3>10, PlainTemporary
    <3>12. SameBody(ip, ip')
      BY <1>1, <3>1
    <3> QED
      BY <1>1, <3>1, <3>2, <3>10, <3>11, <3>12, ResultStep
  <2> QED
    BY <2>10, <2>11
<1> QED
  BY <1>2, <1>3

LEMMA PushSteps ==
  ASSUME NEW i, Runs(i), CONST(i) \/ DUP(i) \/ READ(i)
  PROVE  RunIInv'
<1>1. /\ i.op \in {"CONST", "DUP", "read"} /\ i.op \notin Falls
      /\ RunIInv /\ ~AtEntry
  BY DEF Runs, CONST, DUP, READ, Falls
<1>2. 1 < sp /\ 0 \in 0 .. Temps /\ Len(store) \in Nat
  BY <1>1, Room, BodyFacts
<1>3. CASE CONST(i)
  <2>1. i.n \in -MaxNum .. MaxNum /\ Compute(0, Num(i.n))
    BY <1>3 DEF CONST, Runs, Emitted
  <2>2. Num(i.n) \in Plains(Len(store))
    BY <1>2, <2>1, Numbers
  <2> QED
    BY <1>1, <1>2, <2>1, <2>2, PlainStep
<1>4. CASE DUP(i)
  <2>1. i.op = "DUP" /\ Compute(0, Word(1))
    BY <1>4 DEF DUP
  <2>2. Uses(i) = 1
    BY <2>1 DEF Uses
  <2>3. Word(1) \in Plains(Len(store))
    BY <2>1, <2>2, Used
  <2> QED
    BY <1>1, <1>2, <2>1, <2>3, PlainStep
<1>5. CASE READ(i)
  <2>1. PICK z \in Inputs : Compute(0, Num(z))
    BY <1>5 DEF READ
  <2>2. z \in -MaxNum .. MaxNum
    BY SizeAssumption
  <2>3. Num(z) \in Plains(Len(store))
    BY <1>2, <2>2, Numbers
  <2> QED
    BY <1>1, <1>2, <2>1, <2>3, PlainStep
<1> QED
  BY <1>3, <1>4, <1>5

(* Instructions that leave the truth of something.                         *)
LEMMA TestSteps ==
  ASSUME NEW i, Runs(i), TAG(i) \/ ARRAY(i) \/ PATT(i)
  PROVE  RunIInv'
<1>1. i.op \in {"TAG", "ARRAY", "PATT"} /\ i.op \notin Falls /\ Len(store) \in Nat
  BY BodyFacts DEF Runs, TAG, ARRAY, PATT, Falls
<1>2. ASSUME NEW n \in 1 .. Temps, NEW b, Test(n, b) PROVE RunIInv'
  <2>1. Compute(n, Num(Truth(b))) /\ n \in 0 .. Temps /\ n # 0
    BY <1>2 DEF Test
  <2>2. Num(Truth(b)) \in Plains(Len(store))
    BY <1>1, TruthValues
  <2> QED
    BY <1>1, <2>1, <2>2, PlainStep
<1>3. CASE TAG(i)
  <2>1. Uses(i) = 1
    BY <1>3 DEF TAG, Uses
  <2>2. 1 \in 1 .. Temps
    BY <2>1, Used
  <2>3. \E b : Test(1, b)
    BY <1>3 DEF TAG
  <2> QED
    BY <1>2, <2>2, <2>3
<1>4. CASE ARRAY(i)
  <2>1. Uses(i) = 1
    BY <1>4 DEF ARRAY, Uses
  <2>2. 1 \in 1 .. Temps
    BY <2>1, Used
  <2>3. \E b : Test(1, b)
    BY <1>4 DEF ARRAY
  <2> QED
    BY <1>2, <2>2, <2>3
<1>5. CASE PATT(i)
  <2>1. i.op = "PATT"
    BY <1>5 DEF PATT
  <2>2. Uses(i) = IF i.p = "StrCmp" THEN 2 ELSE 1
    BY <2>1 DEF Uses
  <2>3. 1 \in 1 .. Temps /\ (i.p = "StrCmp" => 2 \in 1 .. Temps)
    <3>1. CASE i.p = "StrCmp"
      <4>1. Uses(i) = 2
        BY <2>2, <3>1
      <4> QED
        BY <4>1, Used
    <3>2. CASE i.p # "StrCmp"
      <4>1. Uses(i) = 1
        BY <2>2, <3>2
      <4> QED
        BY <3>2, <4>1, Used
    <3> QED
      BY <3>1, <3>2
  <2>4. \/ \E b : Test(1, b)
        \/ i.p = "StrCmp" /\ \E b : Test(2, b)
    BY <1>5 DEF PATT
  <2> QED
    BY <1>2, <2>3, <2>4
<1> QED
  BY <1>3, <1>4, <1>5

(* A string is no longer for C than it is.                                 *)
LEMMA CStringType ==
  ASSUME NEW S, NEW t \in Seq(S), NEW zero
  PROVE  CString(t, zero) \in Seq(S)
<1> DEFINE T == {k \in DOMAIN t : \A j \in 1 .. k : t[j] # zero}
<1>1. DOMAIN t = 1 .. Len(t) /\ Len(t) \in Nat
  OBVIOUS
<1>2. T \subseteq 1 .. Len(t)
  BY <1>1
<1>3. IsFiniteSet(1 .. Len(t)) /\ Cardinality(1 .. Len(t)) = Len(t)
  BY <1>1, FS_Interval
<1>4. Cardinality(T) \in Nat /\ Cardinality(T) <= Len(t)
  BY <1>2, <1>3, FS_Subset, FS_CardinalityType
<1> HIDE DEF T
<1>5. PICK n \in Nat : n = Cardinality(T) /\ n <= Len(t)
  BY <1>4
<1>6. SubSeq(t, 1, n) \in Seq(S)
  BY <1>1, <1>5
<1>7. CString(t, zero) = SubSeq(t, 1, Cardinality(T))
  BY DEF CString, T
<1> QED
  BY <1>5, <1>6, <1>7

(* What Belem makes of a character is a number of the program, too.        *)
LEMMA BelemType ==
  ASSUME NEW n \in Nat, NEW v, NEW j, ElemOf(store, v, j) \in Plains(n)
  PROVE  Belem(v, j) \in Plains(n)
<1> DEFINE w == ElemOf(store, v, j)
<1>1. CASE HasKind(store, v, "string") /\ IsNum(w)
  <2>1. w.n \in -MaxNum .. MaxNum
    BY <1>1, PlainWords
  <2>2. SignedChar(w.n) \in -MaxNum .. MaxNum
    BY <2>1, SizeAssumption DEF SignedChar
  <2>3. Num(SignedChar(w.n)) \in Plains(n)
    BY <2>2, Numbers
  <2> QED
    BY <1>1, <2>3 DEF Belem
<1>2. CASE ~(HasKind(store, v, "string") /\ IsNum(w))
  BY <1>2 DEF Belem
<1> QED
  BY <1>1, <1>2

(* Of two operands one of which is a reference == leaves the truth of      *)
(* something.                                                              *)
(* Text without the character that ends it in C is what C takes it for.    *)
LEMMA CStringWhole ==
  ASSUME NEW S, NEW t \in Seq(S), NEW zero, \A k \in DOMAIN t : t[k] # zero
  PROVE  CString(t, zero) = t
<1>1. DOMAIN t = 1 .. Len(t) /\ Len(t) \in Nat
  OBVIOUS
<1>2. PICK n \in Nat : n = Len(t)
  BY <1>1
<1>3. {k \in DOMAIN t : \A j \in 1 .. k : t[j] # zero} = 1 .. n
  BY <1>1, <1>2
<1>4. Cardinality(1 .. n) = n
  BY FS_Interval
<1>5. CString(t, zero) = SubSeq(t, 1, n)
  BY <1>3, <1>4 DEF CString
<1>6. SubSeq(t, 1, n) = t
  BY <1>1, <1>2
<1> QED
  BY <1>5, <1>6

LEMMA Equality ==
  ASSUME NEW a, NEW b
  PROVE  Apply("==", a, b) = Truth(a = b)
BY DEF Apply

LEMMA ComputeSteps ==
  ASSUME NEW i, Runs(i), BINOP(i) \/ ELEM(i) \/ LENGTH(i) \/ WRITE(i)
  PROVE  RunIInv'
<1>1. /\ i.op \in {"BINOP", "ELEM", "length", "write"} /\ i.op \notin Falls
      /\ Len(store) \in Nat /\ RunIInv /\ ~AtEntry /\ StoreOK(store)
  BY BodyFacts DEF Runs, BINOP, ELEM, LENGTH, WRITE, Falls, RunIInv
<1>2. CASE BINOP(i)
  <2>1. i.op = "BINOP" /\ Bounded(i) /\ NoException(i)
    BY <1>2 DEF BINOP, Runs
  <2>2. Uses(i) = 2
    BY <2>1 DEF Uses
  <2>3. 2 \in 0 .. Temps
    BY <2>2, Used
  <2>4. CASE IsNum(Word(1)) /\ IsNum(Word(2))
    <3>1. Apply(i.f, Word(2).n, Word(1).n) \in -MaxNum .. MaxNum
      BY <2>1, <2>4 DEF Bounded
    <3>2. PICK z \in -MaxNum .. MaxNum : z = Apply(i.f, Word(2).n, Word(1).n)
      BY <3>1
    <3>3. Compute(2, Num(z))
      BY <1>2, <2>4, <3>2 DEF BINOP, Unbox
    <3>4. Num(z) \in Plains(Len(store))
      BY <1>1, Numbers
    <3> QED
      BY <1>1, <2>3, <3>3, <3>4, PlainStep
  <2>5. CASE ~(IsNum(Word(1)) /\ IsNum(Word(2)))
    <3>1. i.f = "=="
      BY <2>1, <2>5 DEF NoException
    <3>2. PICK b : Compute(2, Num(Truth(b)))
      BY <1>2, <3>1, Equality DEF BINOP
    <3>3. Num(Truth(b)) \in Plains(Len(store))
      BY <1>1, TruthValues
    <3> QED
      BY <1>1, <2>3, <3>2, <3>3, PlainStep
  <2> QED
    BY <2>4, <2>5
<1>3. CASE ELEM(i)
  <2>1. i.op = "ELEM" /\ NoException(i) /\ Compute(2, Belem(Word(2), Word(1)))
    BY <1>3 DEF ELEM, Runs
  <2>2. Uses(i) = 2
    BY <2>1 DEF Uses
  <2>3. 2 \in 0 .. Temps /\ Word(2) \in Plains(Len(store))
    BY <2>1, <2>2, Used
  <2>4. HasElem(store, Word(2), Word(1))
    BY <2>1 DEF NoException
  <2>5. Word(2).a \in 1 .. Len(store) /\ Word(1).n \in 0 .. Len(Fields(store, Word(2))) - 1
    BY <1>1, <2>3, <2>4, PlainWords DEF HasElem
  <2>6. /\ Fields(store, Word(2)) \in Seq(Plains(Len(store)))
        /\ Len(Fields(store, Word(2))) \in Nat
    BY <1>1, <2>5, InStore DEF Fields
  <2>7. ElemOf(store, Word(2), Word(1)) \in Plains(Len(store))
    <3>1. Word(1).n + 1 \in 1 .. Len(Fields(store, Word(2)))
      BY <2>5, <2>6
    <3> QED
      BY <2>6, <3>1 DEF ElemOf
  <2>8. Belem(Word(2), Word(1)) \in Plains(Len(store))
    BY <1>1, <2>7, BelemType
  <2> QED
    BY <1>1, <2>1, <2>3, <2>8, PlainStep
<1>4. CASE LENGTH(i)
  <2>1. /\ i.op = "length" /\ NoException(i) /\ Bounded(i)
        /\ Compute(1, Num(Len(Fields(store, Word(1)))))
    BY <1>4 DEF LENGTH, Runs
  <2>2. Uses(i) = 1
    BY <2>1 DEF Uses
  <2>3. 1 \in 0 .. Temps /\ Word(1) \in Plains(Len(store))
    BY <2>1, <2>2, Used
  <2>4. IsObj(Word(1))
    BY <2>1 DEF NoException
  <2>5. Word(1).a \in 1 .. Len(store)
    BY <1>1, <2>3, <2>4, PlainWords
  <2>6. Len(Fields(store, Word(1))) \in Nat
    BY <1>1, <2>5, InStore DEF Fields
  <2>7. Len(Fields(store, Word(1))) <= MaxNum
    BY <2>1 DEF Bounded
  <2>8. Len(Fields(store, Word(1))) \in -MaxNum .. MaxNum
    BY <2>6, <2>7, SizeAssumption
  <2>9. Num(Len(Fields(store, Word(1)))) \in Plains(Len(store))
    BY <1>1, <2>8, Numbers
  <2> QED
    BY <1>1, <2>1, <2>3, <2>9, PlainStep
<1>5. CASE WRITE(i)
  <2>1. /\ i.op = "write" /\ Result(1, Null) /\ SameBody(ip, Following(ip))
        /\ UNCHANGED <<calls, registers>> /\ UNCHANGED store /\ ip' = Following(ip)
    BY <1>1, <1>5 DEF WRITE, Advance, Runs, Emitted
  <2>2. Uses(i) = 1
    BY <2>1 DEF Uses
  <2>3. 1 \in 0 .. Temps
    BY <2>2, Used
  <2>4. Null \in Plains(Len(store'))
    BY DEF Plains
  <2>5. Null \in Storable(Len(store')) /\ Temporary(sp + 1, Null)
    BY <1>1, <2>1, <2>4, PlainTemporary
  <2>6. StoreGrows /\ SameBody(ip, ip')
    BY <1>1, <2>1, StoreStays
  <2> QED
    BY <1>1, <2>1, <2>3, <2>5, <2>6, ResultStep
<1> QED
  BY <1>2, <1>3, <1>4, <1>5

LEMMA WordsArePlain ==
  ASSUME NEW i, Runs(i), i.op \in {"SEXP", ".array"}
  PROVE  /\ i.n \in 0 .. Temps /\ (i.n = 0 => 1 < sp)
         /\ Words(i.n) \in Seq(Plains(Len(store)))
<1>1. RunIInv /\ ~AtEntry /\ Emitted(ip, i)
  BY DEF Runs
<1>2. i.n \in Nat
  BY <1>1 DEF Emitted
<1>3. Uses(i) = i.n
  BY DEF Uses
<1>4. PICK n \in Nat : n = i.n
  BY <1>2
<1>5. /\ n \in 0 .. Temps
      /\ \A k \in 1 .. n : Word(k) \in Plains(Len(store))
  BY <1>3, <1>4, Used
<1>6. i.n = 0 => 1 < sp
  BY Room
<1>7. Words(n) \in [1 .. n -> Plains(Len(store))]
  <2>1. ASSUME NEW k \in 1 .. n PROVE Word(n + 1 - k) \in Plains(Len(store))
    <3>1. n + 1 - k \in 1 .. n
      OBVIOUS
    <3> QED
      BY <1>5, <3>1
  <2> QED
    BY <2>1 DEF Words
<1>8. Words(n) \in Seq(Plains(Len(store)))
  BY <1>7, SequenceOf
<1> QED
  BY <1>4, <1>5, <1>6, <1>8

LEMMA ObjectOf ==
  ASSUME NEW n \in Nat, NEW k \in {"string", "array", "sexp", "closure"},
         NEW t \in Tags, NEW vs \in Seq(Plains(n))
  PROVE  /\ Object(k, t, vs) \in Objects(n) /\ Object(k, t, vs).kind = k
         /\ Object(k, t, vs).tag = t /\ Object(k, t, vs).fields = vs
BY DEF Object, Objects

LEMMA TextOf ==
  ASSUME NEW n \in Nat, NEW vs \in Seq(Plains(n))
  PROVE  \E k, t : /\ k = "string" /\ t = ""
                   /\ Object(k, t, vs) \in Objects(n) /\ Object(k, t, vs).kind = k
<1>1. PICK k : k = "string"
  OBVIOUS
<1>2. PICK t : t = ""
  OBVIOUS
<1>3. k \in {"string", "array", "sexp", "closure"}
  BY Zenon, <1>1
<1>4. t \in Tags
  BY Zenon, <1>2 DEF Tags
<1>5. Object(k, t, vs) \in Objects(n) /\ Object(k, t, vs).kind = k
  BY <1>3, <1>4, ObjectOf
<1> QED
  BY Zenon, <1>1, <1>2, <1>5

LEMMA EmittedTags ==
  ASSUME NEW p \in DOMAIN Code, NEW i \in Code[p]
  PROVE  /\ "" \in Tags
         /\ i.op = "SEXP" => i.t \in Tags
         /\ i.op = "CLOSURE" => i.fn \in Tags
<1>1. ASSUME NEW o, i.op = o PROVE i \in Emits(o)
  BY <1>1 DEF Emits
<1> QED
  BY <1>1 DEF Tags

LEMMA ConstructSteps ==
  ASSUME NEW i, Runs(i), BSTRING(i) \/ BSEXP(i) \/ BARRAY(i) \/ BCLOSURE(i)
  PROVE  RunIInv'
<1>0. i.op \in {"STRING", "SEXP", ".array", "CLOSURE"}
  <2>1. CASE BSTRING(i)
    BY <2>1 DEF BSTRING
  <2>2. CASE BSEXP(i)
    BY <2>2 DEF BSEXP
  <2>3. CASE BARRAY(i)
    BY <2>3 DEF BARRAY
  <2>4. CASE BCLOSURE(i)
    BY <2>4 DEF BCLOSURE
  <2> QED
    BY <2>1, <2>2, <2>3, <2>4
<1>1. /\ i.op \in {"STRING", "SEXP", ".array", "CLOSURE"} /\ i.op \notin Falls
      /\ Len(store) \in Nat /\ RunIInv /\ ~AtEntry /\ Emitted(ip, i)
  BY <1>0, BodyFacts DEF Runs, Falls
<1>2. "" \in Tags
  BY DEF Tags
<1>3. CASE BSTRING(i)
  <2> DEFINE s == CString(i.s, 0)
  <2>1. i.op = "STRING" /\ s \in Seq(Chars) /\ Allocate(0, StringObject(s))
    BY <1>1, <1>3, CStringType DEF BSTRING, Bstring, Emitted
  <2> HIDE DEF s
  <2>2. 1 < sp /\ 0 \in 0 .. Temps
    BY <2>1, Room
  <2> DEFINE vs == [j \in DOMAIN s |-> Num(s[j])]
  <2>3. PICK n \in Nat : DOMAIN s = 1 .. n
    BY <2>1
  <2>4. ASSUME NEW j \in 1 .. n PROVE Num(s[j]) \in Plains(Len(store))
    <3>1. s[j] \in -MaxNum .. MaxNum
      BY <2>1, <2>3, CharsAssumption, SizeAssumption
    <3> QED
      BY <1>1, <3>1, Numbers
  <2>5. vs \in [1 .. n -> Plains(Len(store))]
    BY <2>3, <2>4
  <2>6. StringObject(s) = Object("string", "", vs)
    BY DEF StringObject
  <2> HIDE DEF vs
  <2>7. vs \in Seq(Plains(Len(store)))
    BY <2>5, SequenceOf
  <2>8. PICK o : o = Object("string", "", vs)
    OBVIOUS
  <2>9. o \in Objects(Len(store)) /\ o.kind = "string" /\ Allocate(0, o)
    <3>1. o \in Objects(Len(store)) /\ o.kind = "string"
      <4>1. PICK k, t : /\ k = "string" /\ t = ""
                        /\ Object(k, t, vs) \in Objects(Len(store))
                        /\ Object(k, t, vs).kind = k
        BY Zenon, <1>1, <2>7, TextOf
      <4>2. o = Object(k, t, vs)
        BY Zenon, <2>8, <4>1
      <4> QED
        BY Zenon, <4>1, <4>2
    <3>2. Allocate(0, o)
      BY Zenon, <2>1, <2>6, <2>8
    <3> QED
      BY <3>1, <3>2
  <2> QED
    BY <1>1, <2>2, <2>9, AllocateStep
<1>4. CASE BSEXP(i)
  <2>1. i.op = "SEXP" /\ Allocate(i.n, Object("sexp", i.t, Words(i.n)))
    BY <1>4 DEF BSEXP
  <2>2. /\ i.n \in 0 .. Temps /\ (i.n = 0 => 1 < sp)
        /\ Words(i.n) \in Seq(Plains(Len(store)))
    BY <2>1, WordsArePlain
  <2>3. i.t \in Tags
    BY <2>1, EmittedTags DEF Runs
  <2>4. PICK o : o = Object("sexp", i.t, Words(i.n))
    OBVIOUS
  <2>5. o \in Objects(Len(store)) /\ o.kind = "sexp" /\ Allocate(i.n, o)
    BY <1>1, <2>1, <2>2, <2>3, <2>4, ObjectOf
  <2> QED
    BY <1>1, <2>2, <2>5, AllocateStep
<1>5. CASE BARRAY(i)
  <2>1. i.op = ".array" /\ Allocate(i.n, Object("array", "", Words(i.n)))
    BY <1>5 DEF BARRAY
  <2>2. /\ i.n \in 0 .. Temps /\ (i.n = 0 => 1 < sp)
        /\ Words(i.n) \in Seq(Plains(Len(store)))
    BY <2>1, WordsArePlain
  <2>4. PICK o : o = Object("array", "", Words(i.n))
    OBVIOUS
  <2>5. o \in Objects(Len(store)) /\ o.kind = "array" /\ Allocate(i.n, o)
    BY <1>2, <2>1, <2>2, <2>4 DEF Object, Objects
  <2> QED
    BY <1>1, <2>2, <2>5, AllocateStep
<1>6. CASE BCLOSURE(i)
  <2> DEFINE vs == [k \in DOMAIN i.ds |-> Contents(Address(i.ds[k]))]
  <2>1. /\ i.op = "CLOSURE" /\ \A k \in DOMAIN i.ds : InRange(i.ds[k])
        /\ Allocate(0, Object("closure", i.fn, vs))
    BY <1>6 DEF BCLOSURE
  <2>2. /\ Labeled(i.fn) \in Heads
        /\ Len(i.ds) = Captures[Labeled(i.fn)] /\ DOMAIN i.ds = 1 .. Len(i.ds)
        /\ \A k \in DOMAIN i.ds : Designates(ip, i.ds[k])
    BY <1>1, <2>1 DEF Emitted
  <2>3. 1 < sp /\ 0 \in 0 .. Temps
    BY <2>1, Room
  <2>4. PICK n \in Nat : n = Len(i.ds) /\ n = Captures[Labeled(i.fn)]
    BY <2>2, CodeAssumption
  <2>5. ASSUME NEW k \in 1 .. n
        PROVE  Contents(Address(i.ds[k])) \in Plains(Len(store))
    <3>1. Designates(ip, i.ds[k]) /\ InRange(i.ds[k])
      BY <2>1, <2>2, <2>4
    <3> QED
      BY <1>1, <3>1, Designated
  <2>6. vs \in [1 .. n -> Plains(Len(store))]
    BY <2>2, <2>4, <2>5
  <2> HIDE DEF vs
  <2>7. vs \in Seq(Plains(Len(store))) /\ Len(vs) = n
    BY <2>6, SequenceOf
  <2>8. i.fn \in Tags
    BY <2>1, EmittedTags DEF Runs
  <2>9. PICK o : o = Object("closure", i.fn, vs)
    OBVIOUS
  <2>10. o \in Objects(Len(store)) /\ o.tag = i.fn /\ o.fields = vs /\ Allocate(0, o)
    BY <1>1, <2>1, <2>7, <2>8, <2>9, ObjectOf
  <2>11. Labeled(o.tag) \in Heads /\ Len(o.fields) = Captures[Labeled(o.tag)]
    BY <2>2, <2>4, <2>7, <2>10
  <2> QED
    BY <1>1, <2>3, <2>10, <2>11, AllocateStep
<1> QED
  BY <1>3, <1>4, <1>5, <1>6

LEMMA PopSteps ==
  ASSUME NEW i, Runs(i), DROP(i) \/ CJMP(i)
  PROVE  RunIInv'
<1>1. /\ i.op \in {"DROP", "CJMP"} /\ RunIInv /\ ~AtEntry
      /\ SameBody(ip, Following(ip)) /\ (i.op = "CJMP" => SameBody(ip, i.l))
  BY DEF Runs, Emitted, DROP, CJMP
<1>2. Uses(i) = 1
  BY <1>1 DEF Uses
<1>3. 1 \in 0 .. Temps /\ Temps \in Nat
  BY <1>1, <1>2, Used, BodyFacts
<1>4. /\ mem' = [mem EXCEPT ![sp + 1] = Junk] /\ sp' = sp + 1
      /\ UNCHANGED <<calls, registers, store>>
  BY DEF DROP, CJMP, Advance, registers
<1>5. SameBody(ip, ip')
  BY <1>1 DEF DROP, CJMP, Advance
<1> QED
  BY <1>1, <1>3, <1>4, <1>5, PopStep

LEMMA JumpStep ==
  ASSUME NEW i, Runs(i), JMP(i)
  PROVE  RunIInv'
<1>1. /\ i.op = "JMP" /\ RunIInv /\ ~AtEntry /\ SameBody(ip, i.l) /\ ip' = i.l
      /\ UNCHANGED <<mem, sp, store>> /\ UNCHANGED <<calls, registers>>
  BY DEF Runs, Emitted, JMP, registers
<1>2. /\ FirstTemp(Depth) \in Int /\ FirstTemp(Depth) < Globals /\ sp \in Nat \ {0}
      /\ Temps = FirstTemp(Depth) - sp /\ Temps \in Nat
  BY <1>1, BodyFacts
<1>3. sp' \in 1 .. FirstTemp(Depth)
  BY <1>1, <1>2
<1>4. StoreGrows
  BY <1>1, StoreStays DEF RunIInv
<1>5. MemoryGoesOn
  <2>1. \A c \in sp + 1 .. FirstTemp(Depth) : Temporary(c, mem[c])
    BY <1>1, TemporariesStay
  <2>2. mem \in [Memory -> Storable(Len(store))] /\ mem[0] = Junk
    BY <1>1 DEF RunIInv, MemoryOK
  <2> QED
    BY <1>1, <2>1, <2>2 DEF MemoryGoesOn
<1> QED
  BY <1>1, <1>3, <1>4, <1>5, BodyStep
-----------------------------------------------------------------------------
(* Calls.  The function that is called begins with the next step.          *)
LEMMA HeadFacts ==
  ASSUME NEW p \in Heads
  PROVE  /\ p \in DOMAIN Code /\ Owner[p] = p /\ Captures[p] \in Nat
         /\ ArgsAt(p) \in Nat
         /\ \A i \in Code[p] : i.op = "BEGIN" /\ i.n = ArgsAt(p) /\ i.locals \in Nat
<1>1. PICK i \in Code[p] : i.op = "BEGIN"
  BY DEF Heads
<1>2. p \in DOMAIN Code /\ Owner[p] = p /\ Captures[p] \in Nat
  BY CodeAssumption DEF Heads
<1>3. Emitted(p, i) /\ \A j \in Code[p] : j = i
  BY <1>1, <1>2, CodeAssumption
<1>4. (CHOOSE j \in Code[p] : j.op = "BEGIN") = i
  BY <1>1, <1>3
<1> QED
  BY <1>1, <1>2, <1>3, <1>4 DEF ArgsAt, Emitted

LEMMA EnterShape ==
  ASSUME NEW i, Runs(i), i.op \in {"CALL", "CALLC"},
         calls' = Append(calls, Following(ip)), UNCHANGED <<fp, nArgs, nLocals>>
  PROVE  /\ Depth' = Depth /\ AtEntry' /\ SameBody(ip, Following(ip))
         /\ calls' \in Seq(CallWords) /\ Len(calls') = 5 * Depth
         /\ calls'[5 * Depth] = Following(ip)
         /\ \A m \in 1 .. 5 * Depth - 1 : calls'[m] = calls[m]
         /\ \A k \in 1 .. Depth :
              /\ Frame(k)' = Frame(k) /\ OfClosure(k)' = OfClosure(k)
              /\ FirstTemp(k)' = FirstTemp(k) /\ TopVar(k)' = TopVar(k)
              /\ Above(k)' = Above(k) /\ Edge(k)' = Edge(k)
<1> DEFINE D == Depth
<1>1. /\ RunIInv /\ ~AtEntry /\ SameBody(ip, Following(ip))
      /\ ControlOK /\ StoreOK(store) /\ MemoryOK /\ Nesting
      /\ \A k \in 1 .. D : FrameOK(k)
  BY DEF Runs, Emitted, RunIInv
<1>2. /\ D \in Nat \ {0} /\ Len(calls) = 5 * D - 1 /\ D \in 1 .. D
  BY <1>1, DepthFacts
<1>3. /\ calls \in Seq(CallWords) /\ Following(ip) \in CallWords
  BY <1>1 DEF ControlOK, CallWords, SameBody
<1>4. /\ calls' \in Seq(CallWords) /\ Len(calls') = 5 * D
      /\ calls'[5 * D] = Following(ip)
      /\ \A m \in 1 .. 5 * D - 1 : calls'[m] = calls[m]
  BY <1>2, <1>3
<1>5. Depth' = D /\ AtEntry'
  BY <1>2, <1>4, FifthsOf DEF Depth, AtEntry
<1>6. ASSUME NEW k \in 1 .. D
      PROVE  /\ Frame(k)' = Frame(k) /\ OfClosure(k)' = OfClosure(k)
             /\ FirstTemp(k)' = FirstTemp(k) /\ TopVar(k)' = TopVar(k)
             /\ Above(k)' = Above(k) /\ Edge(k)' = Edge(k)
  <2>1. OfClosure(k)' = OfClosure(k)
    <3>1. 5 * k - 1 \in 1 .. 5 * D - 1
      BY <1>2
    <3> QED
      BY <1>4, <3>1 DEF OfClosure
  <2>2. Frame(k)' = Frame(k)
    <3>1. CASE k = D
      BY <1>5, <3>1 DEF Frame
    <3>2. CASE k # D
      <4>1. /\ 5 * k + 1 \in 1 .. 5 * D - 1 /\ 5 * k + 2 \in 1 .. 5 * D - 1
            /\ 5 * k + 3 \in 1 .. 5 * D - 1
        BY <1>2, <3>2
      <4> QED
        BY <1>4, <1>5, <3>2, <4>1 DEF Frame
    <3> QED
      BY <3>1, <3>2
  <2>3. FirstTemp(k)' = FirstTemp(k) /\ TopVar(k)' = TopVar(k) /\ Above(k)' = Above(k)
    BY <2>1, <2>2 DEF FirstTemp, TopVar, Above
  <2> QED
    BY <2>1, <2>2, <2>3 DEF Edge
<1> QED
  BY <1>1, <1>4, <1>5, <1>6

LEMMA EnterStep ==
  ASSUME NEW i, Runs(i), i.op \in {"CALL", "CALLC"},
         NEW h \in Heads, NEW n \in Nat, n = Uses(i), isClosure' \in BOOLEAN,
         n = ArgsAt(h) + Truth(isClosure'),
         ~isClosure' => Captures[h] = 0,
         isClosure' => ClosureOf(store, Word(ArgsAt(h) + 1), h),
         calls' = Append(calls, Following(ip)), ip' = h,
         UNCHANGED <<mem, sp, fp, nArgs, nLocals, store>>
  PROVE  RunIInv'
<1> DEFINE D == Depth
<1>1. /\ RunIInv /\ ~AtEntry /\ SameBody(ip, Following(ip))
      /\ ControlOK /\ StoreOK(store) /\ MemoryOK /\ Nesting
      /\ \A k \in 1 .. D : FrameOK(k)
  BY DEF Runs, Emitted, RunIInv
<1>2. /\ D \in Nat \ {0} /\ Len(calls) = 5 * D - 1 /\ D \in 1 .. D
  BY <1>1, DepthFacts
<1>3. /\ calls \in Seq(CallWords) /\ Following(ip) \in CallWords
  BY <1>1 DEF ControlOK, CallWords, SameBody
<1>4. /\ calls' \in Seq(CallWords) /\ Len(calls') = 5 * D
      /\ calls'[5 * D] = Following(ip)
      /\ \A m \in 1 .. 5 * D - 1 : calls'[m] = calls[m]
  BY EnterShape
<1>5. Depth' = D /\ AtEntry'
  BY EnterShape
<1>6. ASSUME NEW k \in 1 .. D
      PROVE  /\ Frame(k)' = Frame(k) /\ OfClosure(k)' = OfClosure(k)
             /\ FirstTemp(k)' = FirstTemp(k) /\ TopVar(k)' = TopVar(k)
             /\ Above(k)' = Above(k) /\ Edge(k)' = Edge(k)
  BY EnterShape
<1>7. \A t : Target(t)' <=> Target(t)
  BY <1>5, <1>6 DEF Target
<1>8. /\ Temps = FirstTemp(D) - sp /\ Temps \in Nat /\ sp \in Nat
      /\ FirstTemp(D) \in Int
  BY <1>1, BodyFacts
<1>9. /\ n \in 0 .. Temps
      /\ \A k \in 1 .. n : Word(k) \in Plains(Len(store))
  BY Used
<1>10. Pending' = n
  BY <1>5 DEF Pending
<1>11. /\ h \in DOMAIN Code /\ ArgsAt(h) \in Nat
  BY HeadFacts
<1>12. ControlOK'
  <2>1. Pushes(i).call = 1
    BY DEF Pushes
  <2>2. Len(calls') < CallSize
    BY <1>2, <1>4, <2>1, SizeAssumption DEF Runs, Fits
  <2>3. Len(calls') % 5 = 0
    BY <1>2, <1>4, FifthsOf
  <2>4. isClosure' => ClosureOf(store, mem[sp + ArgsAt(h) + 1], h)
    <3>1. sp + (ArgsAt(h) + 1) = sp + ArgsAt(h) + 1
      BY <1>8, <1>11
    <3> QED
      BY <3>1 DEF Word
  <2>5. (sp \in 1 .. Globals - 1)'
    BY <1>1 DEF ControlOK, Globals
  <2>6. (fp \in Nat /\ nArgs \in Nat /\ nLocals \in Nat)'
    BY <1>1 DEF ControlOK
  <2> QED
    BY <1>2, <1>4, <1>5, <1>11, <2>2, <2>3, <2>4, <2>5, <2>6 DEF ControlOK
<1>13. Nesting'
  <2>1. \A k \in 1 .. D : FirstTemp(D) <= FirstTemp(k) /\ FirstTemp(k) \in Int
    <3> TAKE k \in 1 .. D
    <3>1. CASE k = D
      BY <1>8, <3>1
    <3>2. CASE k # D
      BY <1>1, <1>2, <3>2, FramesApart, FrameFacts
    <3> QED
      BY <3>1, <3>2
  <2>2. \A k \in 1 .. D : sp + n <= FirstTemp(k)
    BY <1>8, <1>9, <2>1
  <2> QED
    BY <1>1, <1>5, <1>6, <1>10, <2>2 DEF Nesting
<1>14. MemoryOK'
  <2>1. \A c \in sp + 1 .. sp + n : mem[c] \in Plains(Len(store))
    <3> TAKE c \in sp + 1 .. sp + n
    <3>1. c - sp \in 1 .. n /\ sp + (c - sp) = c
      BY <1>8
    <3> QED
      BY <1>9, <3>1 DEF Word
  <2> QED
    BY <1>1, <1>5, <1>6, <1>7, <1>10, <2>1 DEF MemoryOK, Memory, Globals
<1>15. ASSUME NEW k \in 1 .. D PROVE FrameOK(k)'
  <2>1. FrameOK(k)
    BY <1>1
  <2>2. Position(k)' \in DOMAIN Code \ Heads /\ Function(k)' = Function(k)
    <3>1. CASE k = D
      <4>1. Position(k) = ip /\ Position(k)' = Following(ip)
        BY <1>2, <1>4, <3>1 DEF Position
      <4> QED
        BY <1>1, <4>1 DEF SameBody, Function
    <3>2. CASE k # D
      <4>1. 5 * k \in 1 .. 5 * D - 1
        BY <1>2, <3>2
      <4>2. Position(k)' = Position(k)
        BY <1>2, <1>4, <4>1 DEF Position
      <4> QED
        BY <2>1, <4>2 DEF FrameOK, Function
    <3> QED
      BY <3>1, <3>2
  <2> QED
    BY <1>6, <2>1, <2>2 DEF FrameOK, Globals
<1> QED
  BY <1>1, <1>5, <1>12, <1>13, <1>14, <1>15 DEF RunIInv

LEMMA CallSteps ==
  ASSUME NEW i, Runs(i), CALL(i) \/ CALLC(i)
  PROVE  RunIInv'
<1>1. RunIInv /\ ~AtEntry /\ Emitted(ip, i) /\ WellFormed(i) /\ StoreOK(store)
  BY DEF Runs, RunIInv
<1>2. CASE CALL(i)
  <2>1. /\ i.op = "CALL" /\ isClosure' = FALSE /\ Enter(i.fn)
        /\ Labeled(i.fn) \in Heads /\ Captures[Labeled(i.fn)] = 0 /\ i.n \in Nat
    BY <1>1, <1>2 DEF CALL, Emitted
  <2>2. i.n = ArgsAt(Labeled(i.fn))
    BY <1>1, <2>1 DEF WellFormed
  <2>3. Uses(i) = i.n
    BY <2>1 DEF Uses
  <2>4. PICK n \in Nat : n = i.n
    BY <2>1
  <2>5. n = Uses(i) /\ n = ArgsAt(Labeled(i.fn)) + Truth(isClosure')
    BY <2>1, <2>2, <2>3, <2>4 DEF Truth
  <2> QED
    BY <2>1, <2>5, EnterStep DEF Enter
<1>3. CASE CALLC(i)
  <2> DEFINE f == Word(i.n + 1)
             h == Labeled(store[f.a].tag)
  <2>1. /\ i.op = "CALLC" /\ isClosure' = TRUE /\ Enter(store[f.a].tag)
        /\ i.n \in Nat
    BY <1>1, <1>3 DEF CALLC, Emitted
  <2>2. HasKind(store, f, "closure") /\ i.n = ArgsAt(h)
    BY <1>1, <2>1 DEF WellFormed
  <2>3. Uses(i) = i.n + 1
    BY <2>1 DEF Uses
  <2>4. PICK n \in Nat : n = i.n + 1
    BY <2>1
  <2>5. n = Uses(i) /\ n = ArgsAt(h) + Truth(isClosure')
    BY <2>1, <2>2, <2>3, <2>4 DEF Truth
  <2>6. f \in Plains(Len(store))
    <3>1. i.n + 1 \in 1 .. n
      BY <2>1, <2>4
    <3> QED
      BY <2>1, <2>5, <3>1, Used
  <2>7. f.a \in 1 .. Len(store) /\ store[f.a].kind = "closure"
    <3>1. Len(store) \in Nat
      BY <1>1 DEF StoreOK
    <3> QED
      BY <2>2, <2>6, <3>1, PlainWords DEF HasKind
  <2>8. h \in Heads
    BY <1>1, <2>7 DEF StoreOK, ClosuresOK
  <2>9. ClosureOf(store, Word(ArgsAt(h) + 1), h)
    BY <2>2 DEF ClosureOf
  <2>10. /\ calls' = Append(calls, Following(ip)) /\ ip' = h
         /\ UNCHANGED <<mem, sp, fp, nArgs, nLocals, store>>
    BY <2>1 DEF Enter
  <2> HIDE DEF h
  <2> QED
    BY <2>1, <2>5, <2>8, <2>9, <2>10, EnterStep
<1> QED
  BY <1>2, <1>3
-----------------------------------------------------------------------------
(* A function begins: its frame takes the place below its caller's.        *)
Appends4(S, s, t, n, a, b, c, d) ==
  /\ t \in Seq(S) /\ Len(t) = n + 4
  /\ t[n + 1] = a /\ t[n + 2] = b /\ t[n + 3] = c /\ t[n + 4] = d
  /\ \A m \in 1 .. n : t[m] = s[m]

LEMMA Concatenated ==
  ASSUME NEW S, NEW s \in Seq(S), NEW n \in Nat, n = Len(s),
         NEW a \in S, NEW b \in S, NEW c \in S, NEW d \in S
  PROVE  Appends4(S, s, s \o <<a, b, c, d>>, n, a, b, c, d)
<1> DEFINE r == <<a, b, c, d>>
<1>1. /\ r \in Seq(S) /\ Len(r) = 4
  OBVIOUS
<1>2. /\ r[1] = a /\ r[2] = b /\ r[3] = c /\ r[4] = d
  OBVIOUS
<1> HIDE DEF r
<1>3. PICK t : t = s \o r
  OBVIOUS
<1>4. t \in Seq(S) /\ Len(t) = Len(s) + Len(r)
  BY <1>1, <1>3, ConcatProperties
<1>5. \A m \in 1 .. Len(s) + Len(r) :
        t[m] = IF m <= Len(s) THEN s[m] ELSE r[m - Len(s)]
  BY <1>1, <1>3, ConcatProperties
<1>6. \A m \in 1 .. n + 4 : t[m] = IF m <= n THEN s[m] ELSE r[m - n]
  BY <1>1, <1>5
<1>7. \A k \in 1 .. 4 : t[n + k] = r[k]
  <2> TAKE k \in 1 .. 4
  <2>1. PICK m \in 1 .. n + 4 : m = n + k /\ ~(m <= n) /\ m - n = k
    OBVIOUS
  <2> QED
    BY <1>6, <2>1
<1>8. \A m \in 1 .. n : t[m] = s[m]
  BY <1>6
<1>9. Appends4(S, s, t, n, a, b, c, d)
  BY <1>1, <1>2, <1>4, <1>7, <1>8 DEF Appends4
<1> QED
  BY <1>3, <1>9 DEF r

LEMMA BeginShape ==
  ASSUME RunIInv, NEW i \in Code[ip], Fits(i), BEGIN(i), NEW E \in Nat, E = Depth + 1
  PROVE  /\ AtEntry /\ Depth \in Nat /\ Len(calls) = 5 * Depth
         /\ calls' \in Seq(CallWords) /\ Len(calls') = 5 * Depth + 4
         /\ \A m \in 1 .. 5 * Depth : calls'[m] = calls[m]
         /\ Depth' = E /\ ~AtEntry'
         /\ \A k \in 1 .. Depth :
              /\ Frame(k)' = Frame(k) /\ OfClosure(k)' = OfClosure(k)
              /\ FirstTemp(k)' = FirstTemp(k) /\ TopVar(k)' = TopVar(k)
              /\ Above(k)' = Above(k) /\ Edge(k)' = Edge(k)
              /\ Position(k)' = Position(k)
         /\ Frame(E)' = [fp |-> sp, args |-> i.n, locals |-> i.locals]
         /\ OfClosure(E)' = isClosure /\ Position(E)' = Following(ip)
         /\ Function(E)' = ip
         /\ Pending = i.n + Truth(isClosure) /\ Truth(isClosure) \in {0, 1}
         /\ Pending \in Nat
         /\ FirstTemp(E)' = sp - i.locals /\ sp - i.locals \in 1 .. sp
         /\ IF Depth = 0 THEN Edge(E)' = sp /\ sp = Globals - 1
            ELSE Above(E)' = sp + Pending + 1 /\ Edge(E)' = sp + Pending
<1> DEFINE D == Depth
           r == <<fp, nArgs, nLocals, isClosure>>
<1>1. /\ Emitted(ip, i) /\ AtEntry
      /\ ControlOK /\ StoreOK(store) /\ MemoryOK /\ Nesting
      /\ \A k \in 1 .. D : FrameOK(k)
  BY Here DEF RunIInv, BEGIN
<1>2. /\ D \in Nat /\ Len(calls) = 5 * D /\ ip \in Heads /\ Len(store) \in Nat
  BY <1>1, DepthFacts DEF ControlOK, StoreOK
<1>3. /\ i.op = "BEGIN" /\ i.n = ArgsAt(ip) /\ i.n \in Nat /\ i.locals \in Nat
      /\ SameBody(ip, Following(ip)) /\ Owner[ip] = ip
  BY <1>1, <1>2, HeadFacts DEF Emitted
<1>4. /\ calls' = calls \o r /\ fp' = sp /\ nArgs' = i.n /\ nLocals' = i.locals
      /\ mem' = [c \in Memory |-> IF c \in sp - i.locals + 1 .. sp
                                  THEN EmptyBox ELSE mem[c]]
      /\ sp' = sp - i.locals /\ ip' = Following(ip)
      /\ UNCHANGED <<isClosure, store, out, outcome>>
  BY DEF BEGIN
<1>5. PICK low : low = sp - i.locals
  OBVIOUS
<1>6. /\ low \in 1 .. sp /\ sp \in 1 .. Globals - 1 /\ sp' = low
      /\ mem' = [c \in Memory |-> IF c \in low + 1 .. sp
                                  THEN EmptyBox ELSE mem[c]]
  <2>1. Pushes(i).op = i.locals
    BY <1>3 DEF Pushes
  <2>2. sp > i.locals \/ i.locals = 0
    BY <2>1 DEF Fits
  <2>3. sp \in 1 .. Globals - 1
    BY <1>1 DEF ControlOK
  <2>4. PICK s \in Nat, g \in Nat, l \in Nat : s = sp /\ g = Globals /\ l = i.locals
    <3>1. sp \in Nat
      BY <2>3, Sizes
    <3>2. Globals \in Nat
      BY Sizes
    <3>3. i.locals \in Nat
      BY <1>3
    <3> QED
      BY <3>1, <3>2, <3>3
  <2>5. low = s - l /\ s \in 1 .. g - 1 /\ (s > l \/ l = 0)
    BY <1>5, <2>2, <2>3, <2>4
  <2>6. low \in 1 .. s
    BY <2>5
  <2>7. low \in 1 .. sp
    BY <2>4, <2>6
  <2> QED
    BY <1>4, <1>5, <2>3, <2>7
<1>7. Len(calls) + 4 < CallSize
  <2>1. Pushes(i).call = 4
    BY <1>3 DEF Pushes
  <2> QED
    BY <1>2, <2>1, SizeAssumption DEF Fits
<1>8. /\ calls' \in Seq(CallWords) /\ Len(calls') = 5 * D + 4
      /\ calls'[5 * D + 1] = fp /\ calls'[5 * D + 2] = nArgs
      /\ calls'[5 * D + 3] = nLocals /\ calls'[5 * D + 4] = isClosure
      /\ \A m \in 1 .. 5 * D : calls'[m] = calls[m]
  <2>1. calls \in Seq(CallWords)
    BY <1>1 DEF ControlOK
  <2>2. /\ fp \in CallWords /\ nArgs \in CallWords /\ nLocals \in CallWords
        /\ isClosure \in CallWords
    BY <1>1 DEF ControlOK, CallWords
  <2>3. PICK n \in Nat : n = 5 * D /\ n = Len(calls)
    BY <1>2
  <2>4. Appends4(CallWords, calls, calls \o <<fp, nArgs, nLocals, isClosure>>, n,
                 fp, nArgs, nLocals, isClosure)
    BY <2>1, <2>2, <2>3, Concatenated
  <2>5. Appends4(CallWords, calls, calls', n, fp, nArgs, nLocals, isClosure)
    BY <1>4, <2>4
  <2> QED
    BY <2>3, <2>5 DEF Appends4
<1>18. E \in Nat /\ E = D + 1
  OBVIOUS
<1>9. Depth' = E /\ ~AtEntry'
  BY <1>2, <1>8, <1>18, FifthsOf DEF Depth, AtEntry
<1>10. ASSUME NEW k \in 1 .. D
       PROVE  /\ Frame(k)' = Frame(k) /\ OfClosure(k)' = OfClosure(k)
              /\ FirstTemp(k)' = FirstTemp(k) /\ TopVar(k)' = TopVar(k)
              /\ Above(k)' = Above(k) /\ Edge(k)' = Edge(k)
              /\ Position(k)' = Position(k)
  <2>1. /\ 5 * k - 1 \in 1 .. 5 * D /\ 5 * k \in 1 .. 5 * D
        /\ k # E
    BY <1>2, <1>18
  <2>9. PICK d \in Nat, c \in Nat, l \in Nat, l2 \in Nat :
          /\ d = 5 * D /\ c = 5 * k /\ l = Len(calls) /\ l2 = Len(calls')
          /\ l = d /\ l2 = d + 4
    <3>1. /\ Len(calls) = 5 * D /\ Len(calls') = 5 * D + 4
          /\ D \in Nat /\ k \in Nat
      BY <1>2, <1>8
    <3>2. PICK a \in Nat, b \in Nat : a = D /\ b = k
      BY <3>1
    <3>3. 5 * a \in Nat /\ 5 * b \in Nat /\ 5 * a + 4 \in Nat
      OBVIOUS
    <3> QED
      BY <3>1, <3>2, <3>3
  <2>10. c - 1 \in 1 .. d /\ c \in 1 .. d /\ c <= l /\ c <= l2
    BY <2>1, <2>9
  <2>11. \A m \in 1 .. d : calls'[m] = calls[m]
    BY <1>8, <2>9
  <2>0. /\ 5 * k <= Len(calls) /\ 5 * k <= Len(calls')
        /\ calls'[5 * k] = calls[5 * k] /\ calls'[5 * k - 1] = calls[5 * k - 1]
    BY <2>9, <2>10, <2>11
  <2>2. OfClosure(k)' = OfClosure(k) /\ Position(k)' = Position(k)
    BY <2>0 DEF OfClosure, Position
  <2>3. Frame(k)' = Frame(k)
    <3>1. Frame(k)' = [fp |-> calls'[5 * k + 1], args |-> calls'[5 * k + 2],
                       locals |-> calls'[5 * k + 3]]
      BY <1>9, <2>1 DEF Frame
    <3>2. CASE k = D
      BY <1>8, <3>1, <3>2 DEF Frame
    <3>3. CASE k # D
      <4>1. /\ 5 * k + 1 \in 1 .. 5 * D /\ 5 * k + 2 \in 1 .. 5 * D
            /\ 5 * k + 3 \in 1 .. 5 * D
        BY <1>2, <3>3
      <4> QED
        BY <1>8, <3>1, <3>3, <4>1 DEF Frame
    <3> QED
      BY <3>2, <3>3
  <2>4. FirstTemp(k)' = FirstTemp(k) /\ TopVar(k)' = TopVar(k) /\ Above(k)' = Above(k)
    BY <2>2, <2>3 DEF FirstTemp, TopVar, Above
  <2> QED
    BY <2>2, <2>3, <2>4 DEF Edge, Globals
<1>11. /\ Frame(E)' = [fp |-> sp, args |-> i.n, locals |-> i.locals]
       /\ OfClosure(E)' = isClosure /\ Position(E)' = Following(ip)
       /\ Function(E)' = ip
  <2>1. 5 * E - 1 = 5 * D + 4 /\ ~(5 * E <= 5 * D + 4)
    BY <1>2, <1>18
  <2>2. Position(E)' = Following(ip)
    BY <1>4, <1>8, <2>1 DEF Position
  <2>3. Frame(E)' = [fp |-> sp, args |-> i.n, locals |-> i.locals]
    BY <1>4, <1>9 DEF Frame
  <2>4. OfClosure(E)' = isClosure
    BY <1>8, <2>1 DEF OfClosure
  <2> QED
    BY <1>3, <2>2, <2>3, <2>4 DEF Function, SameBody
<1>12. Pending = i.n + Truth(isClosure) /\ Truth(isClosure) \in {0, 1}
       /\ Pending \in Nat
  BY <1>1, <1>3 DEF Pending, Truth
<1>13. /\ FirstTemp(E)' = low
       /\ IF D = 0 THEN Edge(E)' = sp /\ sp = Globals - 1
          ELSE Above(E)' = sp + Pending + 1 /\ Edge(E)' = sp + Pending
  <2>1. FirstTemp(E)' = low
    BY <1>5, <1>11 DEF FirstTemp
  <2>2. CASE D = 0
    <3>1. sp = Globals - 1
      BY <1>1, <2>2 DEF ControlOK
    <3>2. Edge(E)' = Globals - 1
      BY <1>2, <1>18, <2>2 DEF Edge, Globals
    <3> QED
      BY <2>1, <2>2, <3>1, <3>2
  <2>3. CASE D # 0
    <3>1. Edge(E)' = Above(E)' - 1
      BY <1>2, <1>18, <2>3 DEF Edge
    <3>2. Above(E)' = sp + i.n + Truth(isClosure) + 1
      BY <1>11 DEF Above
    <3>3. Above(E)' = sp + Pending + 1
      BY <1>3, <1>6, <1>12, <3>2
    <3> QED
      BY <1>6, <1>12, <2>1, <2>3, <3>1, <3>3
  <2> QED
    BY <2>2, <2>3
<1> QED
  BY <1>1, <1>2, <1>5, <1>6, <1>8, <1>9, <1>10, <1>11, <1>12, <1>13

LEMMA BeginStep ==
  ASSUME RunIInv, NEW i \in Code[ip], Fits(i), BEGIN(i)
  PROVE  RunIInv'
<1> DEFINE D == Depth
           r == <<fp, nArgs, nLocals, isClosure>>
<1>1. /\ Emitted(ip, i) /\ AtEntry
      /\ ControlOK /\ StoreOK(store) /\ MemoryOK /\ Nesting
      /\ \A k \in 1 .. D : FrameOK(k)
  BY Here DEF RunIInv, BEGIN
<1>2. /\ D \in Nat /\ Len(calls) = 5 * D /\ ip \in Heads /\ Len(store) \in Nat
  BY <1>1, DepthFacts DEF ControlOK, StoreOK
<1>3. /\ i.op = "BEGIN" /\ i.n = ArgsAt(ip) /\ i.n \in Nat /\ i.locals \in Nat
      /\ SameBody(ip, Following(ip)) /\ Owner[ip] = ip
  BY <1>1, <1>2, HeadFacts DEF Emitted
<1>4. /\ calls' = calls \o r /\ fp' = sp /\ nArgs' = i.n /\ nLocals' = i.locals
      /\ mem' = [c \in Memory |-> IF c \in sp - i.locals + 1 .. sp
                                  THEN EmptyBox ELSE mem[c]]
      /\ sp' = sp - i.locals /\ ip' = Following(ip)
      /\ UNCHANGED <<isClosure, store, out, outcome>>
  BY DEF BEGIN
<1>5. PICK low : low = sp - i.locals
  OBVIOUS
<1>6. /\ low \in 1 .. sp /\ sp \in 1 .. Globals - 1 /\ sp' = low
      /\ mem' = [c \in Memory |-> IF c \in low + 1 .. sp
                                  THEN EmptyBox ELSE mem[c]]
  <2>1. Pushes(i).op = i.locals
    BY <1>3 DEF Pushes
  <2>2. sp > i.locals \/ i.locals = 0
    BY <2>1 DEF Fits
  <2>3. sp \in 1 .. Globals - 1
    BY <1>1 DEF ControlOK
  <2>4. PICK s \in Nat, g \in Nat, l \in Nat : s = sp /\ g = Globals /\ l = i.locals
    <3>1. sp \in Nat
      BY <2>3, Sizes
    <3>2. Globals \in Nat
      BY Sizes
    <3>3. i.locals \in Nat
      BY <1>3
    <3> QED
      BY <3>1, <3>2, <3>3
  <2>5. low = s - l /\ s \in 1 .. g - 1 /\ (s > l \/ l = 0)
    BY <1>5, <2>2, <2>3, <2>4
  <2>6. low \in 1 .. s
    BY <2>5
  <2>7. low \in 1 .. sp
    BY <2>4, <2>6
  <2> QED
    BY <1>4, <1>5, <2>3, <2>7
<1>7. Len(calls) + 4 < CallSize
  <2>1. Pushes(i).call = 4
    BY <1>3 DEF Pushes
  <2> QED
    BY <1>2, <2>1, SizeAssumption DEF Fits
<1>8. /\ calls' \in Seq(CallWords) /\ Len(calls') = 5 * D + 4
      /\ calls'[5 * D + 1] = fp /\ calls'[5 * D + 2] = nArgs
      /\ calls'[5 * D + 3] = nLocals /\ calls'[5 * D + 4] = isClosure
      /\ \A m \in 1 .. 5 * D : calls'[m] = calls[m]
  <2>1. calls \in Seq(CallWords)
    BY <1>1 DEF ControlOK
  <2>2. /\ fp \in CallWords /\ nArgs \in CallWords /\ nLocals \in CallWords
        /\ isClosure \in CallWords
    BY <1>1 DEF ControlOK, CallWords
  <2>3. PICK n \in Nat : n = 5 * D /\ n = Len(calls)
    BY <1>2
  <2>4. Appends4(CallWords, calls, calls \o <<fp, nArgs, nLocals, isClosure>>, n,
                 fp, nArgs, nLocals, isClosure)
    BY <2>1, <2>2, <2>3, Concatenated
  <2>5. Appends4(CallWords, calls, calls', n, fp, nArgs, nLocals, isClosure)
    BY <1>4, <2>4
  <2> QED
    BY <2>3, <2>5 DEF Appends4
<1>18. PICK E \in Nat : E = D + 1
  BY <1>2
<1>9. Depth' = E /\ ~AtEntry'
  BY <1>18, BeginShape
<1>10. ASSUME NEW k \in 1 .. D
       PROVE  /\ Frame(k)' = Frame(k) /\ OfClosure(k)' = OfClosure(k)
              /\ FirstTemp(k)' = FirstTemp(k) /\ TopVar(k)' = TopVar(k)
              /\ Above(k)' = Above(k) /\ Edge(k)' = Edge(k)
              /\ Position(k)' = Position(k)
  BY <1>18, BeginShape
<1>11. /\ Frame(E)' = [fp |-> sp, args |-> i.n, locals |-> i.locals]
       /\ OfClosure(E)' = isClosure /\ Position(E)' = Following(ip)
       /\ Function(E)' = ip
  BY <1>18, BeginShape
<1>12. Pending = i.n + Truth(isClosure) /\ Truth(isClosure) \in {0, 1}
       /\ Pending \in Nat
  BY <1>1, <1>3 DEF Pending, Truth
<1>13. /\ FirstTemp(E)' = low
       /\ IF D = 0 THEN Edge(E)' = sp /\ sp = Globals - 1
          ELSE Above(E)' = sp + Pending + 1 /\ Edge(E)' = sp + Pending
  BY <1>5, <1>18, BeginShape
<1>14. ASSUME NEW k \in 1 .. D
       PROVE  /\ FirstTemp(k) \in Int /\ Edge(k) \in Int /\ Edge(k) < Globals
              /\ sp + Pending <= FirstTemp(k) /\ sp <= FirstTemp(k)
  BY <1>1, FrameFacts DEF Nesting
<1>15. ControlOK'
  <2>1. (5 * D + 4) % 5 = 4
    BY <1>2, FifthsOf
  <2>2. low \in 1 .. Globals - 1 /\ sp \in Nat
    BY <1>6, Sizes
  <2>3. ip' \in DOMAIN Code
    BY <1>3, <1>4 DEF SameBody
  <2>4. (sp \in 1 .. Globals - 1 /\ isClosure \in BOOLEAN)'
    BY <1>1, <1>4, <1>6, <2>2 DEF ControlOK, Globals
  <2>5. (fp \in Nat /\ nArgs \in Nat /\ nLocals \in Nat)'
    BY <1>3, <1>4, <2>2
  <2>6. Len(calls') < CallSize /\ Len(calls') % 5 = 4
    BY <1>2, <1>7, <1>8, <2>1
  <2>7. Depth' # 0
    BY <1>2, <1>9, <1>18
  <2> QED
    BY <1>8, <1>9, <2>3, <2>4, <2>5, <2>6, <2>7 DEF ControlOK
<1>16. \A t : Target(t) => Target(t)'
  <2>1. \A k \in 1 .. D : k \in 1 .. E
    BY <1>2, <1>18
  <2>2. Globals' = Globals
    BY DEF Globals
  <2> QED
    BY <1>9, <1>10, <2>1, <2>2 DEF Target
<1>17. Nesting'
  <2>1. Pending' = 0
    BY <1>9 DEF Pending
  <2>2. ASSUME NEW j \in 1 .. E, NEW k \in 1 .. E, j < k
        PROVE  Edge(k)' <= FirstTemp(j)'
    <3>1. j \in 1 .. D
      BY <1>2, <1>18, <2>2
    <3>2. CASE k = E
      BY <1>6, <1>10, <1>12, <1>13, <1>14, <3>1, <3>2
    <3>3. CASE k # E
      <4>1. k \in 1 .. D
        BY <1>2, <1>18, <3>3
      <4> QED
        BY <1>1, <1>10, <2>2, <3>1, <4>1 DEF Nesting
    <3> QED
      BY <3>2, <3>3
  <2>3. ASSUME NEW k \in 1 .. E PROVE low + 0 <= FirstTemp(k)'
    <3>1. CASE k = E
      BY <1>6, <1>13, <3>1
    <3>2. CASE k # E
      <4>1. k \in 1 .. D
        BY <1>2, <1>18, <3>2
      <4> QED
        BY <1>6, <1>10, <1>14, <4>1
    <3> QED
      BY <3>1, <3>2
  <2> QED
    BY <1>6, <1>9, <2>1, <2>2, <2>3 DEF Nesting
<1>19. EmptyBox \in Plains(Len(store))
  <2>1. 0 \in -MaxNum .. MaxNum
    BY SizeAssumption
  <2> QED
    BY <1>2, <2>1, Numbers DEF EmptyBox
<1>20. EmptyBox \in Storable(Len(store)) /\ EmptyBox # Junk
       /\ EmptyBox.kind # "cell"
  BY <1>2, <1>19, PlainWords
<1>21. mem \in [Memory -> Storable(Len(store))] /\ mem[0] = Junk
  BY <1>1 DEF MemoryOK
<1>22. \A c \in Memory : mem'[c] = IF c \in low + 1 .. sp THEN EmptyBox ELSE mem[c]
  BY <1>6
<1>23. mem' \in [Memory -> Storable(Len(store))] /\ mem'[0] = Junk
  BY <1>6, <1>20, <1>21, Sizes
<1>24. ASSUME NEW c \in low + 1 .. MemSize - 1
       PROVE  (/\ mem[c] # Junk
               /\ mem[c].kind = "cell" => c < mem[c].c /\ Target(mem[c].c))'
  <2>1. c \in Memory
    BY <1>6, Sizes
  <2>2. CASE c <= sp
    BY <1>6, <1>20, <1>22, <2>1, <2>2
  <2>3. CASE sp < c
    <3>1. c \in sp + 1 .. MemSize - 1 /\ c \notin low + 1 .. sp
      BY <1>6, <2>3, Sizes
    <3>2. /\ mem[c] # Junk
          /\ mem[c].kind = "cell" => c < mem[c].c /\ Target(mem[c].c)
      BY <1>1, <3>1 DEF MemoryOK
    <3>3. mem'[c] = mem[c]
      BY <1>22, <2>1, <3>1
    <3> QED
      BY <1>16, <3>2, <3>3
  <2> QED
    BY <1>6, <2>2, <2>3
<1>25. ASSUME NEW k \in 1 .. E, NEW c \in FirstTemp(k)' + 1 .. Edge(k)'
       PROVE  mem'[c] \in Plains(Len(store))
  <2>1. CASE k = E
    <3>1. FirstTemp(k)' = low /\ Edge(k)' = (IF D = 0 THEN sp ELSE sp + Pending)
      BY <1>13, <2>1
    <3>2. c \in Int /\ low < c /\ c <= (IF D = 0 THEN sp ELSE sp + Pending)
      BY <1>6, <3>1
    <3>3. CASE c <= sp
      <4>1. c \in Memory /\ c \in low + 1 .. sp
        BY <1>6, <3>2, <3>3, Sizes
      <4> QED
        BY <1>19, <1>22, <4>1
    <3>4. CASE sp < c
      <4>1. D # 0 /\ c \in sp + 1 .. sp + Pending
        BY <1>6, <1>12, <3>2, <3>4
      <4>2. mem[c] \in Plains(Len(store))
        BY <1>1, <1>2, <4>1 DEF MemoryOK
      <4>3. 1 \in 1 .. D
        BY <1>2, <4>1
      <4>4. /\ sp + Pending <= FirstTemp(1) /\ FirstTemp(1) <= Edge(1)
            /\ Edge(1) < Globals /\ FirstTemp(1) \in Int /\ Edge(1) \in Int
        BY <1>14, <4>3, FrameFacts
      <4>5. c \in Memory /\ c \notin low + 1 .. sp
        BY <1>6, <1>12, <3>2, <3>4, <4>1, <4>4, Sizes, SMTT(30)
      <4> QED
        BY <1>22, <4>2, <4>5
    <3> QED
      BY <1>6, <3>2, <3>3, <3>4
  <2>2. CASE k # E
    <3>1. k \in 1 .. D
      BY <1>2, <1>18, <2>2
    <3>2. c \in FirstTemp(k) + 1 .. Edge(k)
      BY <1>10, <3>1
    <3>3. c \in Memory /\ c \notin low + 1 .. sp
      BY <1>6, <1>14, <3>1, <3>2, Sizes
    <3>4. mem[c] \in Plains(Len(store))
      BY <1>1, <3>1, <3>2 DEF MemoryOK
    <3> QED
      BY <1>22, <3>3, <3>4
  <2> QED
    BY <2>1, <2>2
<1>26. MemoryOK'
  <2>1. Pending' = 0
    BY <1>9 DEF Pending
  <2>2. \A c \in Globals .. MemSize - 1 : mem'[c] \in Plains(Len(store))
    <3> TAKE c \in Globals .. MemSize - 1
    <3>1. c \in Memory /\ c \notin low + 1 .. sp
      BY <1>6, Sizes
    <3>2. mem[c] \in Plains(Len(store))
      BY <1>1 DEF MemoryOK
    <3> QED
      BY <1>22, <3>1, <3>2
  <2>3. (\A k \in 1 .. Depth : \A c \in FirstTemp(k) + 1 .. Edge(k) :
           mem[c] \in Plains(Len(store)))'
    BY <1>4, <1>9, <1>25
  <2>4. (\A c \in sp + 1 .. MemSize - 1 :
           /\ mem[c] # Junk
           /\ mem[c].kind = "cell" => c < mem[c].c /\ Target(mem[c].c))'
    <3>1. (sp + 1 .. MemSize - 1)' = low + 1 .. MemSize - 1
      BY <1>6
    <3> QED
      BY <1>24, <3>1
  <2>5. (\A c \in sp + 1 .. sp + Pending : mem[c] \in Plains(Len(store)))'
    <3>1. (sp + 1 .. sp + Pending)' = low + 1 .. low + 0
      BY <1>6, <2>1
    <3>2. low + 1 .. low + 0 = {}
      BY <1>6
    <3> QED
      BY <3>1, <3>2
  <2>6. (\A c \in Globals .. MemSize - 1 : mem[c] \in Plains(Len(store)))'
    BY <1>4, <2>2 DEF Globals
  <2>7. (mem \in [Memory -> Storable(Len(store))] /\ mem[0] = Junk)'
    BY <1>4, <1>23 DEF Memory
  <2> QED
    BY <2>3, <2>4, <2>5, <2>6, <2>7 DEF MemoryOK
<1>27. ASSUME NEW k \in 1 .. D PROVE FrameOK(k)'
  <2>1. FrameOK(k) /\ Function(k)' = Function(k)
    BY <1>1, <1>10 DEF Function
  <2>2. ASSUME OfClosure(k), k # 1
        PROVE  mem'[Above(k) - 1] = mem[Above(k) - 1]
    <3>1. Edge(k) = Above(k) - 1 /\ FirstTemp(k) < Edge(k)
      BY <2>2, FrameFacts, ClosuresAreNoTargets
    <3>2. Edge(k) \in Memory /\ Edge(k) \notin low + 1 .. sp
      BY <1>6, <1>14, <3>1, Sizes
    <3> QED
      BY <1>22, <3>1, <3>2
  <2> QED
    BY <1>4, <1>10, <2>1, <2>2 DEF FrameOK, Globals
<1>28. FrameOK(E)'
  <2>1. Following(ip) \in DOMAIN Code \ Heads
    BY <1>3 DEF SameBody
  <2>2. CASE D = 0
    <3>1. ip \in Entries /\ ~isClosure /\ sp = Globals - 1
      BY <1>1, <2>2 DEF ControlOK
    <3>2. i.n <= 2
      BY <3>1, CodeAssumption
    <3>3. E = 1
      BY <1>18, <2>2
    <3>4. sp \in Nat
      BY <1>6
    <3>5. /\ Frame(E)'.fp = sp /\ Frame(E)'.args = i.n
          /\ Frame(E)'.locals = i.locals
      BY <1>11
    <3>6. Position(E)' = Following(ip) /\ OfClosure(E)' = FALSE /\ Function(E)' = ip
      BY <1>1, <1>11, <3>1 DEF ControlOK
    <3> QED
      BY <1>3, <2>1, <3>1, <3>2, <3>3, <3>4, <3>5, <3>6 DEF FrameOK, Globals
  <2>3. CASE D # 0
    <3>1. /\ 0 < Captures[ip] => isClosure
          /\ isClosure => ClosureOf(store, mem[sp + ArgsAt(ip) + 1], ip)
      BY <1>1, <1>2, <2>3 DEF ControlOK
    <3>2. E # 1 /\ sp \in Nat /\ isClosure \in BOOLEAN
      BY <1>1, <1>2, <1>6, <1>18, <2>3 DEF ControlOK
    <3>3. ASSUME isClosure PROVE mem'[Above(E)' - 1] = mem[sp + ArgsAt(ip) + 1]
      <4>1. Truth(isClosure) = 1
        BY <3>3 DEF Truth
      <4>2. Above(E)' - 1 = sp + ArgsAt(ip) + 1
        BY <1>3, <1>12, <1>13, <2>3, <3>2, <4>1
      <4>3. 1 \in 1 .. D
        BY <1>2, <2>3
      <4>4. /\ sp + Pending <= FirstTemp(1) /\ FirstTemp(1) <= Edge(1)
            /\ Edge(1) < Globals /\ FirstTemp(1) \in Int /\ Edge(1) \in Int
        BY <1>14, <4>3, FrameFacts
      <4>5. /\ sp + ArgsAt(ip) + 1 \in Memory
            /\ sp + ArgsAt(ip) + 1 \notin low + 1 .. sp
        BY <1>3, <1>6, <1>12, <4>1, <4>4, Sizes
      <4> QED
        BY <1>22, <4>2, <4>5
    <3> QED
      BY <1>3, <1>4, <1>11, <2>1, <3>1, <3>2, <3>3 DEF FrameOK
  <2> QED
    BY <2>2, <2>3
<1>29. \A k \in 1 .. E : FrameOK(k)'
  <2> TAKE k \in 1 .. E
  <2>1. k = E \/ k \in 1 .. D
    BY <1>2, <1>18
  <2> QED
    BY <1>27, <1>28, <2>1
<1>30. StoreOK(store)'
  BY <1>1, <1>4
<1> QED
  BY <1>9, <1>15, <1>17, <1>26, <1>29, <1>30 DEF RunIInv
-----------------------------------------------------------------------------
(* A function returns: its value takes the place of the last word of its   *)
(* frame, which is that of its closure if it was called by one.            *)
LEMMA EndFacts ==
  ASSUME NEW i, Runs(i), END(i)
  PROVE  /\ Depth \in Nat \ {0} /\ Len(calls) = 5 * Depth - 1
         /\ Word(1) \in Plains(Len(store)) /\ UNCHANGED <<isClosure, store>>
         /\ fp' = calls[5 * Depth - 4] /\ nArgs' = calls[5 * Depth - 3]
         /\ nLocals' = calls[5 * Depth - 2]
         /\ \/ /\ Depth # 1 /\ ip' = calls[5 * Depth - 5]
               /\ calls' = SubSeq(calls, 1, 5 * Depth - 6) /\ outcome' = outcome
            \/ /\ Depth = 1 /\ calls' = <<>> /\ outcome' = "ended" /\ ip' = ip
         /\ \E e \in Nat :
              /\ e = fp + nArgs + Truth(OfClosure(Depth)) /\ sp < e /\ sp' = e - 1
              /\ mem' = [c \in Memory |->
                           IF c = e THEN Word(1)
                           ELSE IF sp < c /\ c < e /\ c < Globals THEN Junk
                           ELSE mem[c]]
<1> DEFINE D == Depth
<1>1. RunIInv /\ ~AtEntry /\ StackDiscipline(i) /\ i.op = "END"
  BY DEF Runs, END
<1>2. D \in Nat \ {0} /\ Len(calls) = 5 * D - 1
  BY <1>1, DepthFacts DEF RunIInv
<1>3. /\ fp \in Nat /\ nArgs \in Nat /\ nLocals \in Nat /\ sp \in Nat \ {0}
      /\ Temps = fp - nLocals - sp /\ FrameOK(D)
  BY <1>1, BodyFacts
<1>4. Uses(i) = 1 /\ Temps = 1
  BY <1>1 DEF Uses, StackDiscipline
<1>5. Word(1) \in Plains(Len(store))
  BY <1>1, <1>4, Used
<1>6. OfClosure(D) = calls[5 * D - 1] /\ OfClosure(D) \in BOOLEAN
  BY <1>3 DEF OfClosure, FrameOK
<1>7. PICK cl \in {0, 1} : cl = Truth(OfClosure(D))
  BY <1>6 DEF Truth
<1>8. (IF calls[Len(calls)] THEN 1 ELSE 0) = cl
  BY <1>2, <1>6, <1>7 DEF Truth
<1>9. /\ Result(1 + nArgs + nLocals + cl, Word(1))
      /\ nLocals' = calls[Len(calls) - 1] /\ nArgs' = calls[Len(calls) - 2]
      /\ fp' = calls[Len(calls) - 3]
      /\ \/ Len(calls) > 4 /\ ip' = calls[Len(calls) - 4]
            /\ calls' = SubSeq(calls, 1, Len(calls) - 5) /\ outcome' = outcome
         \/ Len(calls) = 4 /\ calls' = <<>> /\ outcome' = "ended" /\ ip' = ip
      /\ UNCHANGED <<isClosure, store>>
  BY <1>8 DEF END
<1>10. /\ Len(calls) - 1 = 5 * D - 2 /\ Len(calls) - 2 = 5 * D - 3
       /\ Len(calls) - 3 = 5 * D - 4 /\ Len(calls) - 4 = 5 * D - 5
       /\ Len(calls) - 5 = 5 * D - 6
       /\ Len(calls) > 4 <=> D # 1
       /\ Len(calls) = 4 <=> D = 1
  BY <1>2
<1>11. PICK e \in Nat : e = fp + nArgs + cl
  BY <1>3, <1>7
<1>12. sp < e /\ sp + (1 + nArgs + nLocals + cl) = e
       /\ sp + (1 + nArgs + nLocals + cl) - 1 = e - 1
  BY <1>3, <1>4, <1>7, <1>11
<1>13. /\ mem' = [c \in Memory |-> IF c = e THEN Word(1)
                                   ELSE IF sp < c /\ c < e /\ c < Globals THEN Junk
                                   ELSE mem[c]]
       /\ sp' = e - 1
  BY <1>9, <1>12 DEF Result
<1>14. \/ /\ D # 1 /\ ip' = calls[5 * D - 5]
          /\ calls' = SubSeq(calls, 1, 5 * D - 6) /\ outcome' = outcome
       \/ D = 1 /\ calls' = <<>> /\ outcome' = "ended" /\ ip' = ip
  BY <1>9, <1>10
<1>15. /\ fp' = calls[5 * D - 4] /\ nArgs' = calls[5 * D - 3]
       /\ nLocals' = calls[5 * D - 2]
  BY <1>9, <1>10
<1> QED
  BY <1>2, <1>5, <1>7, <1>9, <1>11, <1>12, <1>13, <1>14, <1>15

LEMMA ReturnShape ==
  ASSUME NEW i, Runs(i), END(i), Depth # 1, NEW m \in Nat, m = Depth - 1
  PROVE  /\ m # 0 /\ Depth' = m /\ ~AtEntry'
         /\ calls' \in Seq(CallWords) /\ Len(calls') = 5 * m - 1
         /\ \A j \in 1 .. 5 * m - 1 : calls'[j] = calls[j]
         /\ \A k \in 1 .. m :
              /\ Frame(k)' = Frame(k) /\ OfClosure(k)' = OfClosure(k)
              /\ FirstTemp(k)' = FirstTemp(k) /\ TopVar(k)' = TopVar(k)
              /\ Above(k)' = Above(k) /\ Edge(k)' = Edge(k)
              /\ Position(k)' = Position(k)
         /\ Edge(Depth) \in Nat /\ sp < Edge(Depth) /\ sp' = Edge(Depth) - 1
         /\ Edge(Depth) < Globals
         /\ mem' = [c \in Memory |->
                      IF c = Edge(Depth) THEN Word(1)
                      ELSE IF sp < c /\ c < Edge(Depth) /\ c < Globals THEN Junk
                      ELSE mem[c]]
<1> DEFINE D == Depth
<1>1. /\ RunIInv /\ ~AtEntry
      /\ ControlOK /\ StoreOK(store) /\ MemoryOK /\ Nesting
      /\ \A k \in 1 .. D : FrameOK(k)
  BY DEF Runs, RunIInv
<1>2. /\ D \in Nat \ {0, 1} /\ Len(calls) = 5 * D - 1 /\ D \in 1 .. D
      /\ Word(1) \in Plains(Len(store)) /\ UNCHANGED <<isClosure, store>>
      /\ ip' = calls[5 * D - 5]
      /\ calls' = SubSeq(calls, 1, 5 * D - 6) /\ outcome' = outcome
  <2>1. /\ D \in Nat \ {0} /\ Len(calls) = 5 * D - 1
        /\ Word(1) \in Plains(Len(store)) /\ UNCHANGED <<isClosure, store>>
    BY EndFacts
  <2>2. D \in Nat \ {0, 1} /\ D \in 1 .. D
    BY <2>1
  <2>3. /\ ip' = calls[5 * D - 5]
        /\ calls' = SubSeq(calls, 1, 5 * D - 6) /\ outcome' = outcome
    BY EndFacts
  <2> QED
    BY <2>1, <2>2, <2>3
<1>3. PICK e \in Nat :
        /\ e = fp + nArgs + Truth(OfClosure(D)) /\ sp < e /\ sp' = e - 1
        /\ mem' = [c \in Memory |-> IF c = e THEN Word(1)
                                    ELSE IF sp < c /\ c < e /\ c < Globals THEN Junk
                                    ELSE mem[c]]
  BY EndFacts
<1>4. /\ fp \in Nat /\ nArgs \in Nat /\ sp \in Nat \ {0} /\ Len(store) \in Nat
      /\ Frame(D) = [fp |-> fp, args |-> nArgs, locals |-> nLocals]
  BY <1>1, BodyFacts
<1>5. e = Edge(D) /\ e < Globals /\ TopVar(D) <= e /\ TopVar(D) \in Int
  <2>1. Above(D) = fp + nArgs + Truth(OfClosure(D)) + 1
    BY <1>4 DEF Above
  <2>2. Above(D) = e + 1
    BY <1>3, <2>1
  <2>3. Edge(D) = Above(D) - 1 /\ Edge(D) \in Int
    BY <1>1, <1>2, FrameFacts
  <2>4. e = Edge(D)
    BY <2>2, <2>3
  <2>5. Edge(D) < Globals /\ TopVar(D) <= Edge(D) /\ TopVar(D) \in Int
    BY <1>1, <1>2, FrameFacts
  <2> QED
    BY <2>4, <2>5
<1>6. m \in Nat \ {0} /\ m = D - 1
  BY <1>2
<1>7. /\ calls' \in Seq(CallWords) /\ Len(calls') = 5 * m - 1
      /\ \A j \in 1 .. 5 * m - 1 : calls'[j] = calls[j]
  <2>1. calls \in Seq(CallWords)
    BY <1>1 DEF ControlOK
  <2>2. PICK l \in Nat : l = 5 * m - 1 /\ 5 * D - 6 = l /\ l <= Len(calls)
    BY <1>2, <1>6
  <2>3. \A j \in 1 .. l : calls[j] \in CallWords
    BY <2>1, <2>2
  <2>4. PICK t : t = calls' /\ t = SubSeq(calls, 1, l)
    BY <1>2, <2>2
  <2>5. /\ SubSeq(calls, 1, l) \in Seq(CallWords)
        /\ Len(SubSeq(calls, 1, l)) = IF 1 <= l THEN l - 1 + 1 ELSE 0
        /\ \A j \in 1 .. l - 1 + 1 : SubSeq(calls, 1, l)[j] = calls[1 + j - 1]
    BY <2>2, <2>3, SubSeqProperties
  <2>6. /\ t \in Seq(CallWords) /\ Len(t) = l
        /\ \A j \in 1 .. l : t[j] = calls[j]
    BY <2>4, <2>5
  <2> QED
    BY <2>2, <2>4, <2>6
<1>8. Depth' = m /\ ~AtEntry'
  <2>1. (5 * m - 1 + 1) \div 5 = m
    <3>1. 5 * m - 1 + 1 = 5 * m
      OBVIOUS
    <3> QED
      BY <3>1
  <2>2. (5 * m - 1) % 5 # 0
    OBVIOUS
  <2> QED
    BY <1>7, <2>1, <2>2 DEF Depth, AtEntry
<1>9. ASSUME NEW k \in 1 .. m
      PROVE  /\ Frame(k)' = Frame(k) /\ OfClosure(k)' = OfClosure(k)
             /\ FirstTemp(k)' = FirstTemp(k) /\ TopVar(k)' = TopVar(k)
             /\ Above(k)' = Above(k) /\ Edge(k)' = Edge(k)
             /\ Position(k)' = Position(k)
  <2>1. k \in Nat /\ 1 <= k /\ k <= m /\ k # D
    BY <1>2, <1>6
  <2>2. OfClosure(k)' = OfClosure(k)
    <3>1. 5 * k - 1 \in 1 .. 5 * m - 1
      BY <2>1
    <3> QED
      BY <1>7, <3>1 DEF OfClosure
  <2>3. Frame(k) = [fp |-> calls[5 * k + 1], args |-> calls[5 * k + 2],
                    locals |-> calls[5 * k + 3]]
    BY <2>1 DEF Frame
  <2>4. Frame(k)' = Frame(k)
    <3>1. CASE k = m
      <4>1. /\ 5 * D - 4 = 5 * k + 1 /\ 5 * D - 3 = 5 * k + 2
            /\ 5 * D - 2 = 5 * k + 3
        BY <1>2, <1>6, <3>1
      <4>2. /\ fp' = calls[5 * k + 1] /\ nArgs' = calls[5 * k + 2]
            /\ nLocals' = calls[5 * k + 3]
        BY <4>1, EndFacts
      <4> QED
        BY <1>8, <2>3, <3>1, <4>2 DEF Frame
    <3>2. CASE k # m
      <4>1. /\ 5 * k + 1 \in 1 .. 5 * m - 1 /\ 5 * k + 2 \in 1 .. 5 * m - 1
            /\ 5 * k + 3 \in 1 .. 5 * m - 1
        BY <2>1, <3>2
      <4> QED
        BY <1>7, <1>8, <2>3, <3>2, <4>1 DEF Frame
    <3> QED
      BY <3>1, <3>2
  <2>5. Position(k) = calls[5 * k]
    <3>1. 5 * k <= Len(calls)
      BY <1>2, <1>6, <2>1
    <3> QED
      BY <3>1 DEF Position
  <2>6. Position(k)' = Position(k)
    <3>1. CASE k = m
      <4>1. 5 * D - 5 = 5 * k /\ ~(5 * k <= 5 * m - 1)
        BY <1>2, <1>6, <3>1
      <4> QED
        BY <1>2, <1>7, <2>5, <4>1 DEF Position
    <3>2. CASE k # m
      <4>1. 5 * k \in 1 .. 5 * m - 1
        BY <2>1, <3>2
      <4> QED
        BY <1>7, <2>5, <4>1 DEF Position
    <3> QED
      BY <3>1, <3>2
  <2>7. FirstTemp(k)' = FirstTemp(k) /\ TopVar(k)' = TopVar(k) /\ Above(k)' = Above(k)
    BY <2>2, <2>4 DEF FirstTemp, TopVar, Above, Globals
  <2> QED
    BY <2>2, <2>4, <2>6, <2>7 DEF Edge, Globals
<1> QED
  BY <1>3, <1>5, <1>6, <1>7, <1>8, <1>9

LEMMA ReturnStep ==
  ASSUME NEW i, Runs(i), END(i), Depth # 1
  PROVE  RunIInv' /\ outcome' = outcome
<1> DEFINE D == Depth
<1>1. /\ RunIInv /\ ~AtEntry
      /\ ControlOK /\ StoreOK(store) /\ MemoryOK /\ Nesting
      /\ \A k \in 1 .. D : FrameOK(k)
  BY DEF Runs, RunIInv
<1>2. /\ D \in Nat \ {0, 1} /\ Len(calls) = 5 * D - 1 /\ D \in 1 .. D
      /\ Word(1) \in Plains(Len(store)) /\ UNCHANGED <<isClosure, store>>
      /\ ip' = calls[5 * D - 5]
      /\ calls' = SubSeq(calls, 1, 5 * D - 6) /\ outcome' = outcome
  <2>1. /\ D \in Nat \ {0} /\ Len(calls) = 5 * D - 1
        /\ Word(1) \in Plains(Len(store)) /\ UNCHANGED <<isClosure, store>>
    BY EndFacts
  <2>2. D \in Nat \ {0, 1} /\ D \in 1 .. D
    BY <2>1
  <2>3. /\ ip' = calls[5 * D - 5]
        /\ calls' = SubSeq(calls, 1, 5 * D - 6) /\ outcome' = outcome
    BY EndFacts
  <2> QED
    BY <2>1, <2>2, <2>3
<1>3. PICK e \in Nat :
        /\ e = fp + nArgs + Truth(OfClosure(D)) /\ sp < e /\ sp' = e - 1
        /\ mem' = [c \in Memory |-> IF c = e THEN Word(1)
                                    ELSE IF sp < c /\ c < e /\ c < Globals THEN Junk
                                    ELSE mem[c]]
  BY EndFacts
<1>4. /\ fp \in Nat /\ nArgs \in Nat /\ sp \in Nat \ {0} /\ Len(store) \in Nat
      /\ Frame(D) = [fp |-> fp, args |-> nArgs, locals |-> nLocals]
  BY <1>1, BodyFacts
<1>5. e = Edge(D) /\ e < Globals /\ TopVar(D) <= e /\ TopVar(D) \in Int
  <2>1. Above(D) = fp + nArgs + Truth(OfClosure(D)) + 1
    BY <1>4 DEF Above
  <2>2. Above(D) = e + 1
    BY <1>3, <2>1
  <2>3. Edge(D) = Above(D) - 1 /\ Edge(D) \in Int
    BY <1>1, <1>2, FrameFacts
  <2>4. e = Edge(D)
    BY <2>2, <2>3
  <2>5. Edge(D) < Globals /\ TopVar(D) <= Edge(D) /\ TopVar(D) \in Int
    BY <1>1, <1>2, FrameFacts
  <2> QED
    BY <2>4, <2>5
<1>6. PICK m \in Nat \ {0} : m = D - 1
  BY <1>2
<1>7. /\ calls' \in Seq(CallWords) /\ Len(calls') = 5 * m - 1
      /\ \A j \in 1 .. 5 * m - 1 : calls'[j] = calls[j]
  BY <1>6, ReturnShape
<1>8. Depth' = m /\ ~AtEntry'
  BY <1>6, ReturnShape
<1>9. ASSUME NEW k \in 1 .. m
      PROVE  /\ Frame(k)' = Frame(k) /\ OfClosure(k)' = OfClosure(k)
             /\ FirstTemp(k)' = FirstTemp(k) /\ TopVar(k)' = TopVar(k)
             /\ Above(k)' = Above(k) /\ Edge(k)' = Edge(k)
             /\ Position(k)' = Position(k)
  BY <1>6, ReturnShape
<1>10. \A k \in 1 .. m : k \in 1 .. D /\ k < D
  BY <1>2, <1>6
<1>11. ASSUME NEW k \in 1 .. m
       PROVE  /\ FirstTemp(k) \in Int /\ Edge(k) \in Int /\ Edge(k) < Globals
              /\ e <= FirstTemp(k)
  BY <1>1, <1>2, <1>5, <1>10, FrameFacts, FramesApart
<1>12. ControlOK'
  <2>1. Position(m) \in DOMAIN Code /\ Frame(m).fp \in Nat
        /\ Frame(m).args \in Nat /\ Frame(m).locals \in Nat
    <3>1. m \in 1 .. m /\ m \in 1 .. D
      BY <1>10
    <3> QED
      BY <1>1, <3>1 DEF FrameOK
  <2>2. m \in 1 .. m
    OBVIOUS
  <2>3. Frame(m)' = [fp |-> fp', args |-> nArgs', locals |-> nLocals']
    BY <1>8 DEF Frame
  <2>4. fp' \in Nat /\ nArgs' \in Nat /\ nLocals' \in Nat
    BY <1>9, <2>1, <2>2, <2>3
  <2>5. ip' \in DOMAIN Code
    <3>1. Position(m)' = ip'
      BY <1>7 DEF Position
    <3> QED
      BY <1>9, <2>1, <2>2, <3>1
  <2>6. e - 1 \in 1 .. Globals - 1
    BY <1>3, <1>4, <1>5, Sizes
  <2>7. (5 * m - 1) % 5 = 4 /\ 5 * m - 1 < 5 * D - 1
    BY <1>2, <1>6
  <2>8. (sp \in 1 .. Globals - 1 /\ isClosure \in BOOLEAN)'
    BY <1>1, <1>2, <1>3, <2>6 DEF ControlOK, Globals
  <2>9. Len(calls') < CallSize
    BY <1>1, <1>2, <1>7, <2>7, SizeAssumption DEF ControlOK
  <2> QED
    BY <1>7, <1>8, <2>4, <2>5, <2>7, <2>8, <2>9 DEF ControlOK
<1>13. Nesting'
  <2>1. Pending' = 0
    BY <1>8 DEF Pending
  <2>2. \A j, k \in 1 .. m : j < k => Edge(k) <= FirstTemp(j)
    BY <1>1, <1>10 DEF Nesting
  <2>3. \A k \in 1 .. m : e - 1 + 0 <= FirstTemp(k)
    BY <1>11
  <2> QED
    BY <1>3, <1>8, <1>9, <2>1, <2>2, <2>3 DEF Nesting
<1>14. \A c \in Memory : e < c => mem'[c] = mem[c]
  BY <1>3, Sizes
<1>15. Word(1) \in Storable(Len(store)) /\ Word(1) # Junk /\ Word(1).kind # "cell"
       /\ Junk \in Storable(Len(store))
  BY <1>2, <1>4, PlainWords DEF Storable
<1>16. mem \in [Memory -> Storable(Len(store))] /\ mem[0] = Junk
  BY <1>1 DEF MemoryOK
<1>17. (mem \in [Memory -> Storable(Len(store))] /\ mem[0] = Junk)'
  <2>1. mem' \in [Memory -> Storable(Len(store))]
    BY <1>3, <1>15, <1>16
  <2>2. mem'[0] = Junk
    BY <1>3, <1>4, <1>16, Sizes
  <2> QED
    BY <1>2, <2>1, <2>2 DEF Memory
<1>18. ASSUME NEW t \in Int, Target(t), e < t PROVE Target(t)'
  <2>1. CASE t \in Globals .. MemSize - 1
    BY <2>1 DEF Target, Globals
  <2>2. CASE t \notin Globals .. MemSize - 1
    <3>1. PICK k \in 1 .. D : FirstTemp(k) < t /\ t <= TopVar(k)
      BY <1>18, <2>2 DEF Target
    <3>2. k # D
      <4>1. ~(t <= TopVar(D))
        BY <1>5, <1>18
      <4> QED
        BY <3>1, <4>1
    <3>3. k \in 1 .. m
      BY <1>2, <1>6, <3>2
    <3> QED
      BY <1>8, <1>9, <3>1, <3>3 DEF Target
  <2> QED
    BY <2>1, <2>2
<1>19. ASSUME NEW c \in e .. MemSize - 1
       PROVE  (/\ mem[c] # Junk
               /\ mem[c].kind = "cell" => c < mem[c].c /\ Target(mem[c].c))'
  <2>1. c \in Memory
    BY Sizes
  <2>2. CASE c = e
    BY <1>3, <1>15, <2>1, <2>2
  <2>3. CASE c # e
    <3>1. c \in sp + 1 .. MemSize - 1 /\ e < c
      BY <1>3, <1>4, <2>3, Sizes
    <3>2. mem'[c] = mem[c]
      BY <1>14, <2>1, <3>1
    <3>3. /\ mem[c] # Junk
          /\ mem[c].kind = "cell" => c < mem[c].c /\ Target(mem[c].c)
      BY <1>1, <3>1 DEF MemoryOK
    <3>4. mem[c].kind = "cell" => mem[c].c \in 1 .. MemSize - 1
      BY <1>4, <1>16, <2>1, StorableWords
    <3>5. mem[c].kind = "cell" => e < mem[c].c /\ mem[c].c \in Int
      BY <3>1, <3>3, <3>4, Sizes
    <3>6. \A t : mem[c].kind = "cell" /\ t = mem[c].c => Target(t)'
      BY <1>18, <3>3, <3>5
    <3> QED
      BY <3>2, <3>3, <3>6
  <2> QED
    BY <2>2, <2>3
<1>20. MemoryOK'
  <2>1. Pending' = 0
    BY <1>8 DEF Pending
  <2>2. (sp + 1 .. MemSize - 1)' = e .. MemSize - 1
    BY <1>3
  <2>3. (\A c \in sp + 1 .. MemSize - 1 :
           /\ mem[c] # Junk
           /\ mem[c].kind = "cell" => c < mem[c].c /\ Target(mem[c].c))'
    BY <1>19, <2>2
  <2>4. \A c \in Globals .. MemSize - 1 : mem'[c] \in Plains(Len(store))
    <3> TAKE c \in Globals .. MemSize - 1
    <3>1. c \in Memory /\ e < c
      BY <1>5, Sizes
    <3>2. mem[c] \in Plains(Len(store))
      BY <1>1 DEF MemoryOK
    <3> QED
      BY <1>14, <3>1, <3>2
  <2>5. (\A c \in Globals .. MemSize - 1 : mem[c] \in Plains(Len(store)))'
    BY <1>2, <2>4 DEF Globals
  <2>6. ASSUME NEW k \in 1 .. m, NEW c \in FirstTemp(k)' + 1 .. Edge(k)'
        PROVE  mem'[c] \in Plains(Len(store))
    <3>1. c \in FirstTemp(k) + 1 .. Edge(k) /\ k \in 1 .. D
      BY <1>9, <1>10
    <3>2. c \in Memory /\ e < c
      BY <1>11, <3>1, Sizes
    <3>3. mem[c] \in Plains(Len(store))
      BY <1>1, <3>1 DEF MemoryOK
    <3> QED
      BY <1>14, <3>2, <3>3
  <2>7. (\A k \in 1 .. Depth : \A c \in FirstTemp(k) + 1 .. Edge(k) :
           mem[c] \in Plains(Len(store)))'
    BY <1>2, <1>8, <2>6
  <2>8. (\A c \in sp + 1 .. sp + Pending : mem[c] \in Plains(Len(store)))'
    <3>1. (sp + 1 .. sp + Pending)' = e .. e - 1 + 0
      BY <1>3, <2>1
    <3>2. e .. e - 1 + 0 = {}
      OBVIOUS
    <3> QED
      BY <3>1, <3>2
  <2>9. (mem \in [Memory -> Storable(Len(store))] /\ mem[0] = Junk)'
    BY <1>2, <1>17
  <2> QED
    BY <2>3, <2>5, <2>7, <2>8, <2>9 DEF MemoryOK
<1>21. ASSUME NEW k \in 1 .. m PROVE FrameOK(k)'
  <2>1. FrameOK(k) /\ Function(k)' = Function(k) /\ k \in 1 .. D
    BY <1>1, <1>9, <1>10 DEF Function
  <2>2. ASSUME OfClosure(k), k # 1
        PROVE  mem'[Above(k) - 1] = mem[Above(k) - 1]
    <3>1. Edge(k) = Above(k) - 1 /\ FirstTemp(k) < Edge(k)
      BY <1>1, <2>1, <2>2, FrameFacts, ClosuresAreNoTargets
    <3>2. Edge(k) \in Memory /\ e < Edge(k)
      BY <1>4, <1>11, <3>1, Sizes
    <3> QED
      BY <1>14, <3>1, <3>2
  <2> QED
    BY <1>2, <1>9, <2>1, <2>2 DEF FrameOK, Globals
<1>22. StoreOK(store)'
  BY <1>1, <1>2
<1> QED
  BY <1>2, <1>8, <1>12, <1>13, <1>20, <1>21, <1>22 DEF RunIInv

(* What the invariant says of types, in the words of InterpTypeOK.         *)
LEMMA TypedWords ==
  ASSUME NEW n \in Nat, NEW w \in Storable(n)
  PROVE  \/ w \in {Null, Junk} \cup {Num(z) : z \in -MaxNum .. MaxNum}
                  \cup {Obj(a) : a \in 1 .. n}
         \/ w.kind = "cell" /\ w.c \in 1 .. MemSize - 1
         \/ w.kind = "inside" /\ w.a \in 1 .. n
<1>1. CASE w \in Plains(n)
  BY <1>1 DEF Plains, Num, Obj
<1>2. CASE w = Junk
  BY <1>2
<1>3. CASE w \notin Plains(n) /\ w # Junk
  BY <1>3 DEF Storable
<1> QED
  BY <1>1, <1>2, <1>3

LEMMA Typed ==
  ASSUME RunIInv, outcome \in {"running", "ended", "failed", "overflow"}
  PROVE  InterpTypeOK
<1>1. /\ ControlOK /\ Len(store) \in Nat
      /\ mem \in [Memory -> Storable(Len(store))] /\ mem[0] = Junk
  BY DEF RunIInv, MemoryOK, StoreOK
<1>2. \A c \in Memory :
        \/ mem[c] \in Words0
        \/ mem[c].kind = "cell" /\ mem[c].c \in 1 .. MemSize - 1
        \/ mem[c].kind = "inside" /\ mem[c].a \in 1 .. Len(store)
  BY <1>1, TypedWords DEF Words0
<1>3. sp \in 1 .. MemSize + 1
  BY <1>1, Sizes DEF ControlOK
<1> QED
  BY <1>1, <1>2, <1>3 DEF InterpTypeOK, ControlOK

(* main has ended: its result is above the stack.                          *)
LEMMA MainEnds ==
  ASSUME NEW i, Runs(i), END(i), Depth = 1
  PROVE  InterpTypeOK' /\ outcome' = "ended"
<1>1. /\ RunIInv /\ ~AtEntry /\ ControlOK /\ FrameOK(1) /\ 1 \in 1 .. Depth
  BY DEF Runs, RunIInv
<1>2. /\ Word(1) \in Plains(Len(store)) /\ UNCHANGED <<isClosure, store>>
      /\ calls' = <<>> /\ outcome' = "ended" /\ ip' = ip
  BY EndFacts
<1>3. PICK e \in Nat :
        /\ e = fp + nArgs + Truth(OfClosure(Depth)) /\ sp < e /\ sp' = e - 1
        /\ mem' = [c \in Memory |-> IF c = e THEN Word(1)
                                    ELSE IF sp < c /\ c < e /\ c < Globals THEN Junk
                                    ELSE mem[c]]
  BY EndFacts
<1>4. /\ fp \in Nat /\ nArgs \in Nat /\ sp \in Nat \ {0} /\ Len(store) \in Nat
      /\ Frame(Depth) = [fp |-> fp, args |-> nArgs, locals |-> nLocals]
  BY <1>1, BodyFacts
<1>5. fp = Globals - 1 /\ nArgs <= 2 /\ Truth(OfClosure(Depth)) = 0
  BY <1>1, <1>4 DEF FrameOK, Truth
<1>6. e <= Globals + 1
  BY <1>3, <1>4, <1>5, Sizes
<1>7. mem \in [Memory -> Storable(Len(store))] /\ mem[0] = Junk
  BY <1>1 DEF RunIInv, MemoryOK
<1>8. Word(1) \in Storable(Len(store)) /\ Junk \in Storable(Len(store))
  BY <1>2, <1>4, PlainWords DEF Storable
<1>9. mem' \in [Memory -> Storable(Len(store))] /\ mem'[0] = Junk
  BY <1>3, <1>4, <1>7, <1>8, Sizes
<1>10. \A c \in Memory :
         \/ mem'[c] \in Words0
         \/ mem'[c].kind = "cell" /\ mem'[c].c \in 1 .. MemSize - 1
         \/ mem'[c].kind = "inside" /\ mem'[c].a \in 1 .. Len(store)
  BY <1>4, <1>9, TypedWords DEF Words0
<1>11. (\A c \in Memory :
         \/ mem[c] \in Words0
         \/ mem[c].kind = "cell" /\ mem[c].c \in 1 .. MemSize - 1
         \/ mem[c].kind = "inside" /\ mem[c].a \in 1 .. Len(store))'
  BY <1>2, <1>10 DEF Words0, Memory
<1>12. sp' \in 1 .. MemSize + 1
  BY <1>3, <1>4, <1>6, Sizes
<1>13. Len(calls') = 0 /\ Len(calls') < CallSize /\ Len(calls') % 5 \in {0, 4}
  BY <1>2, SizeAssumption
<1>14. (ip \in DOMAIN Code /\ isClosure \in BOOLEAN)'
  BY <1>1, <1>2 DEF ControlOK
<1>15. (DOMAIN mem = Memory /\ mem[0] = Junk)'
  BY <1>9 DEF Memory
<1> QED
  BY <1>2, <1>11, <1>12, <1>13, <1>14, <1>15 DEF InterpTypeOK
-----------------------------------------------------------------------------
(* The program starts with the globals alone on its stack.                 *)
LEMMA InterpInit == Init => InterpIInv
<1> SUFFICES ASSUME Init PROVE InterpIInv
  OBVIOUS
<1>1. Depth = 0 /\ AtEntry /\ Len(calls) = 0
  BY DEF Init, Depth, AtEntry
<1>2. Len(store) = 0 /\ store = <<>>
  BY DEF Init
<1>3. EmptyBox \in Plains(0)
  <2>1. 0 \in -MaxNum .. MaxNum
    BY SizeAssumption
  <2> QED
    BY <2>1, Numbers DEF EmptyBox
<1>4. EmptyBox \in Storable(0) /\ EmptyBox # Junk /\ EmptyBox.kind # "cell"
      /\ Junk \in Storable(0)
  BY <1>3, PlainWords DEF Storable
<1>5. mem = [c \in Memory |-> IF c \in Globals .. MemSize - 1
                              THEN EmptyBox ELSE Junk]
  BY DEF Init
<1>6. ControlOK
  <2>1. ip \in Heads /\ ip \in Entries /\ ip \in DOMAIN Code
    BY CodeAssumption DEF Init, Heads
  <2>2. sp = Globals - 1 /\ sp \in 1 .. Globals - 1 /\ isClosure = FALSE
    BY Sizes DEF Init
  <2>3. calls \in Seq(CallWords) /\ Len(calls) < CallSize /\ Len(calls) % 5 \in {0, 4}
    BY <1>1, SizeAssumption DEF Init
  <2>4. fp \in Nat /\ nArgs \in Nat /\ nLocals \in Nat
    BY DEF Init
  <2>5. ~(Depth > 0)
    BY <1>1
  <2>6. isClosure \in BOOLEAN /\ ~isClosure
    BY DEF Init
  <2> QED
    BY <1>1, <2>1, <2>2, <2>3, <2>4, <2>5, <2>6 DEF ControlOK
<1>7. StoreOK(store)
  BY <1>2 DEF StoreOK, ClosuresOK
<1>8. Nesting
  BY <1>1 DEF Nesting
<1>9. MemoryOK
  <2>1. mem \in [Memory -> Storable(Len(store))]
    BY <1>2, <1>4, <1>5
  <2>2. mem[0] = Junk
    BY <1>5, Sizes
  <2>3. \A c \in Globals .. MemSize - 1 : mem[c] = EmptyBox
    BY <1>5, Sizes
  <2>4. \A c \in sp + 1 .. MemSize - 1 : c \in Globals .. MemSize - 1
    BY Sizes DEF Init
  <2> QED
    BY <1>1, <1>2, <1>3, <1>4, <2>1, <2>2, <2>3, <2>4 DEF MemoryOK
<1>10. \A k \in 1 .. Depth : FrameOK(k)
  BY <1>1
<1> QED
  BY <1>6, <1>7, <1>8, <1>9, <1>10 DEF InterpIInv, RunIInv, Init

LEMMA NothingMoves ==
  ASSUME RunIInv, UNCHANGED <<ip, mem, sp, calls, store>>, UNCHANGED registers
  PROVE  RunIInv'
<1>1. /\ Depth' = Depth /\ AtEntry' = AtEntry
      /\ \A k \in 1 .. Depth :
           /\ Frame(k)' = Frame(k) /\ OfClosure(k)' = OfClosure(k)
           /\ FirstTemp(k)' = FirstTemp(k) /\ TopVar(k)' = TopVar(k)
           /\ Above(k)' = Above(k) /\ Edge(k)' = Edge(k)
      /\ \A t : Target(t)' <=> Target(t)
  BY FramesStay
<1>2. /\ ControlOK /\ StoreOK(store) /\ MemoryOK /\ Nesting
      /\ \A k \in 1 .. Depth : FrameOK(k)
  BY DEF RunIInv
<1>3. Pending' = Pending
  BY <1>1 DEF Pending, registers
<1>4. ControlOK'
  BY <1>1, <1>2 DEF ControlOK, registers, Globals
<1>5. Nesting'
  BY <1>1, <1>2, <1>3 DEF Nesting
<1>6. MemoryOK'
  BY <1>1, <1>2, <1>3 DEF MemoryOK, Memory, Globals
<1>7. \A k \in 1 .. Depth : FrameOK(k)'
  <2> TAKE k \in 1 .. Depth
  <2>1. FrameOK(k) /\ Position(k)' = Position(k) /\ Function(k)' = Function(k)
    BY <1>2 DEF Position, Function
  <2> QED
    BY <1>1, <2>1 DEF FrameOK, Globals
<1>8. StoreOK(store)'
  BY <1>2
<1> QED
  BY <1>1, <1>4, <1>5, <1>6, <1>7, <1>8 DEF RunIInv

LEMMA OutcomeStays ==
  ASSUME NEW i, Execute(i), ~FAIL(i), ~END(i)
  PROVE  outcome' = outcome
<1>1. CASE LD(i) \/ LDA(i) \/ ST(i) \/ STA(i)
  BY <1>1 DEF LD, LDA, ST, STA, Compute, StoreAt, Advance
<1>2. CASE CONST(i) \/ BINOP(i) \/ DROP(i) \/ DUP(i)
  BY <1>2 DEF CONST, BINOP, DROP, DUP, Compute, Advance
<1>3. CASE BSTRING(i) \/ BSEXP(i) \/ BARRAY(i) \/ BCLOSURE(i) \/ ELEM(i)
  <2>1. CASE BSTRING(i)
    BY <2>1 DEF BSTRING, Allocate, Advance
  <2>2. CASE BSEXP(i) \/ BARRAY(i)
    BY <2>2 DEF BSEXP, BARRAY, Allocate, Advance
  <2>3. CASE BCLOSURE(i)
    BY <2>3 DEF BCLOSURE, Allocate, Advance
  <2>4. CASE ELEM(i)
    BY <2>4 DEF ELEM, Compute, Advance
  <2> QED
    BY <1>3, <2>1, <2>2, <2>3, <2>4
<1>4. CASE READ(i) \/ WRITE(i) \/ LENGTH(i)
  BY <1>4 DEF READ, WRITE, LENGTH, Compute, Advance
<1>5. CASE TAG(i) \/ ARRAY(i) \/ PATT(i)
  BY <1>5 DEF TAG, ARRAY, PATT, Test, Compute, Advance
<1>6. CASE JMP(i) \/ CJMP(i) \/ CALL(i) \/ CALLC(i) \/ BEGIN(i)
  BY <1>6 DEF JMP, CJMP, CALL, CALLC, Enter, BEGIN
<1> QED
  BY <1>1, <1>2, <1>3, <1>4, <1>5, <1>6 DEF Execute

LEMMA NotBegin ==
  ASSUME NEW i, Execute(i), ~BEGIN(i)
  PROVE  i.op # "BEGIN"
<1>1. CASE BSTRING(i)
  BY <1>1 DEF BSTRING
<1>2. CASE BSEXP(i) \/ BARRAY(i)
  BY <1>2 DEF BSEXP, BARRAY
<1>3. CASE BCLOSURE(i)
  BY <1>3 DEF BCLOSURE
<1>4. CASE LD(i) \/ LDA(i) \/ ST(i) \/ STA(i) \/ CONST(i) \/ BINOP(i) \/ ELEM(i)
           \/ DROP(i) \/ DUP(i) \/ READ(i) \/ WRITE(i) \/ LENGTH(i)
  BY <1>4 DEF LD, LDA, ST, STA, CONST, BINOP, ELEM, DROP, DUP, READ, WRITE, LENGTH
<1>5. CASE TAG(i) \/ ARRAY(i) \/ PATT(i) \/ FAIL(i) \/ JMP(i) \/ CJMP(i)
           \/ CALL(i) \/ CALLC(i) \/ END(i)
  BY <1>5 DEF TAG, ARRAY, PATT, FAIL, JMP, CJMP, CALL, CALLC, END
<1> QED
  BY <1>1, <1>2, <1>3, <1>4, <1>5 DEF Execute

LEMMA InterpInductive == InterpIInv /\ [Next]_vars => InterpIInv'
<1> SUFFICES ASSUME InterpIInv, [Next]_vars PROVE InterpIInv'
  OBVIOUS
<1>1. CASE UNCHANGED vars
  <2>1. /\ UNCHANGED <<ip, mem, sp, calls, store>> /\ UNCHANGED registers
        /\ outcome' = outcome
    BY <1>1 DEF vars
  <2>2. CASE outcome # "ended"
    BY <2>1, <2>2, NothingMoves DEF InterpIInv
  <2>3. CASE outcome = "ended"
    <3>1. InterpTypeOK'
      BY <2>1, <2>3 DEF InterpIInv, InterpTypeOK, Words0, Memory, registers
    <3> QED
      BY <2>1, <2>3, <3>1 DEF InterpIInv
  <2> QED
    BY <2>2, <2>3
<1>2. CASE Next
  <2>1. outcome = "running" /\ RunIInv
    BY <1>2 DEF Next, InterpIInv
  <2>2. PICK i \in Code[ip] : /\ Compiled(i) /\ Bounded(i)
                              /\ (Fits(i) /\ Execute(i)) \/ Overflow(i)
    BY <1>2 DEF Next
  <2>3. Emitted(ip, i) /\ (i.op = "BEGIN" <=> AtEntry) /\ ip \in DOMAIN Code
    BY <2>1, Here DEF RunIInv, ControlOK
  <2>4. ASSUME RunIInv', outcome' \in {"running", "failed", "overflow"}
        PROVE  InterpIInv'
    BY <2>4 DEF InterpIInv
  <2>5. CASE Overflow(i)
    <3>1. RunIInv' /\ outcome' = "overflow"
      BY <2>1, <2>5, NothingMoves DEF Overflow
    <3> QED
      BY <2>4, <3>1
  <2>6. CASE Fits(i) /\ BEGIN(i)
    <3>1. RunIInv' /\ outcome' = outcome
      BY <2>1, <2>6, BeginStep DEF BEGIN
    <3> QED
      BY <2>1, <2>4, <3>1
  <2>7. CASE Fits(i) /\ Execute(i) /\ ~BEGIN(i)
    <3>1. i.op # "BEGIN"
      BY <2>7, NotBegin
    <3>2. Runs(i)
      BY <2>1, <2>2, <2>3, <2>7, <3>1 DEF Runs, Compiled
    <3>3. CASE FAIL(i)
      <4>1. RunIInv' /\ outcome' = "failed"
        BY <2>1, <3>3, NothingMoves DEF FAIL
      <4> QED
        BY <2>4, <4>1
    <3>4. CASE END(i)
      <4>1. CASE Depth = 1
        <5>1. InterpTypeOK' /\ outcome' = "ended"
          BY <3>2, <3>4, <4>1, MainEnds
        <5> QED
          BY <5>1 DEF InterpIInv
      <4>2. CASE Depth # 1
        <5>1. RunIInv' /\ outcome' = outcome
          BY <3>2, <3>4, <4>2, ReturnStep
        <5> QED
          BY <2>1, <2>4, <5>1
      <4> QED
        BY <4>1, <4>2
    <3>5. CASE ~FAIL(i) /\ ~END(i)
      <4>1. outcome' = outcome
        BY <2>7, <3>5, OutcomeStays
      <4>2. \/ LD(i) \/ LDA(i) \/ ST(i) \/ STA(i)
            \/ CONST(i) \/ BINOP(i) \/ DROP(i) \/ DUP(i)
            \/ BSTRING(i) \/ BSEXP(i) \/ BARRAY(i) \/ BCLOSURE(i) \/ ELEM(i)
            \/ READ(i) \/ WRITE(i) \/ LENGTH(i)
            \/ TAG(i) \/ ARRAY(i) \/ PATT(i)
            \/ JMP(i) \/ CJMP(i) \/ CALL(i) \/ CALLC(i)
        BY <2>7, <3>5 DEF Execute
      <4>3. RunIInv'
        BY <3>2, <4>2, LoadSteps, AssignSteps, PushSteps, TestSteps, ComputeSteps,
           ConstructSteps, PopSteps, JumpStep, CallSteps
      <4> QED
        BY <2>1, <2>4, <4>1, <4>3
    <3> QED
      BY <3>3, <3>4, <3>5
  <2> QED
    BY <2>2, <2>5, <2>6, <2>7
<1> QED
  BY <1>1, <1>2
-----------------------------------------------------------------------------
LEMMA InterpInvariant == Spec => []InterpIInv
BY InterpInit, InterpInductive, PTL DEF Spec

LEMMA TypesOfInvariant == InterpIInv => InterpTypeOK
BY Typed DEF InterpIInv

LEMMA NestingOfInvariant == InterpIInv => FramesNested
<1> SUFFICES ASSUME RunIInv
             PROVE  /\ \A k \in 1 .. Depth : LastTemp(k) - 1 <= FirstTemp(k)
                    /\ Depth > 0 => Frame(1).fp = Globals - 1
  BY DEF InterpIInv, FramesNested
<1>1. Depth \in Nat /\ Nesting /\ ControlOK
  BY DepthFacts DEF RunIInv
<1>2. ASSUME NEW k \in 1 .. Depth PROVE LastTemp(k) - 1 <= FirstTemp(k)
  <2>1. CASE k < Depth
    <3>1. PICK j \in 1 .. Depth : j = k + 1 /\ k < j /\ j # 1
      BY <1>1, <2>1
    <3>2. Edge(j) <= FirstTemp(k) /\ Edge(j) = Above(j) - 1
      BY <3>1, FramesApart, FrameFacts
    <3> QED
      BY <2>1, <3>1, <3>2 DEF LastTemp
  <2>2. CASE ~(k < Depth)
    <3>1. LastTemp(k) = sp + 1 + Pending
      BY <2>2 DEF LastTemp, Pending
    <3>2. sp + Pending <= FirstTemp(k) /\ sp \in Int /\ Pending \in Int
      <4>1. Pending \in Int
        <5>1. AtEntry => ArgsAt(ip) \in Nat
          BY <1>1, HeadFacts DEF ControlOK
        <5> QED
          BY <5>1 DEF Pending, Truth
      <4> QED
        BY <1>1, <4>1, Sizes DEF Nesting, ControlOK
    <3> QED
      BY <3>1, <3>2
  <2> QED
    BY <2>1, <2>2
<1>3. Depth > 0 => Frame(1).fp = Globals - 1
  BY <1>1 DEF RunIInv, FrameOK
<1> QED
  BY <1>2, <1>3

LEMMA LiveOfInvariant == InterpIInv => ScannedWordsLive
BY DEF InterpIInv, RunIInv, MemoryOK, ScannedWordsLive

(***************************************************************************)
(* No step leaves the array of operands, frames and globals, though pushes *)
(* test for overflow after they write; the call stack has four or five     *)
(* words for each frame.                                                   *)
(***************************************************************************)
THEOREM InterpTypeCorrect == Spec => []InterpTypeOK
BY InterpInvariant, TypesOfInvariant, PTL

(***************************************************************************)
(* Through any sequence of calls, returns, calls of closures and           *)
(* assignments through addresses, every frame stays below all of its       *)
(* callers', where BEGIN put it: its words are never words of theirs.      *)
(***************************************************************************)
THEOREM FramesAreNested == Spec => []FramesNested
BY InterpInvariant, NestingOfInvariant, PTL

(***************************************************************************)
(* The collector scans no word that holds a leftover: every word from the  *)
(* top of the stack to the last global was written by what owns it now.    *)
(***************************************************************************)
THEOREM ScannedWordsAreLive == Spec => []ScannedWordsLive
BY InterpInvariant, LiveOfInvariant, PTL
=============================================================================

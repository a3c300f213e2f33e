----------------------- MODULE BytecodeMachineProofs -----------------------
(***************************************************************************)
(* The bytecode interpreter implements the stack machine, for every program*)
(* of ASCII strings that compares no number with an address it is half of. *)
(* An instruction replaces some of the last frame's temporaries, assigns a *)
(* variable through its address, or moves temporaries into a frame of their*)
(* own; the machine does the same to its operand stack, its globals and its*)
(* frames.                                                                 *)
(***************************************************************************)
EXTENDS BytecodeAddressProofs

-----------------------------------------------------------------------------
(* What computing instructions do, the stack machine's do.                 *)
LEMMA GlobalsView ==
  ASSUME outcome # "ended", outcome' # "ended",
         \A c \in Globals .. MemSize - 1 : mem'[c] = mem[c]
  PROVE  GlobalValues' = GlobalValues
<1>1. \A x \in 0 .. NGlobals - 1 : Globals + x \in Globals .. MemSize - 1
  BY Sizes
<1>2. \A x \in 0 .. NGlobals - 1 : mem'[Globals + x] = mem[Globals + x]
  BY <1>1
<1>3. GlobalValues = [x \in 0 .. NGlobals - 1 |-> mem[Globals + x]]
  BY DEF GlobalValues
<1>4. GlobalValues' = [x \in 0 .. NGlobals - 1 |-> mem'[Globals + x]]
  BY DEF GlobalValues, Globals
<1> QED
  BY <1>2, <1>3, <1>4

LEMMA CurrentFrameNext ==
  ASSUME NEW k, Depth' = k, calls' # << >>, ~AtEntry'
  PROVE  CurrentFrame' = FrameOf(k)'
BY DEF CurrentFrame, FrameOf, Frame, OfClosure, Down

LEMMA BodyFrame ==
  ASSUME RunIInv, ~AtEntry, UNCHANGED <<calls, registers>>,
         \A c \in FirstTemp(Depth) + 1 .. Globals - 1 : mem'[c] = mem[c]
  PROVE  CurrentFrame' = CurrentFrame /\ CurrentFrame = FrameOf(Depth)
<1>1. /\ Depth \in 1 .. Depth /\ FirstTemp(Depth) \in Int
      /\ FirstTemp(Depth) <= Edge(Depth) /\ Edge(Depth) \in Int
      /\ Edge(Depth) < Globals
  BY BodyTemps
<1>2. \A c \in FirstTemp(Depth) + 1 .. Edge(Depth) :
        c \in FirstTemp(Depth) + 1 .. Globals - 1
  BY <1>1, Sizes
<1>3. \A c \in Edge(Depth) + 1 .. Globals - 1 :
        c \in FirstTemp(Depth) + 1 .. Globals - 1
  BY <1>1, Sizes
<1>4. Depth' = Depth /\ Stays(Depth) /\ calls # << >> /\ calls' # << >> /\ ~AtEntry'
  BY <1>1, <1>3, BodyViews
<1>6. PICK d : d = Depth
  OBVIOUS
<1>7. FrameOf(d)' = FrameOf(d)
  <2>1. Stays(d)
    BY <1>4, <1>6
  <2> QED
    BY <1>1, <1>2, <1>6, <2>1, FrameView
<1>8. CurrentFrame' = FrameOf(d)'
  BY <1>4, <1>6, CurrentFrameNext
<1>9. CurrentFrame = FrameOf(Depth)
  BY <1>4 DEF CurrentFrame
<1> QED
  BY <1>6, <1>7, <1>8, <1>9

(* The instruction i runs, and what comes next is sound too.               *)
Steps(i) == Runs(i) /\ RunIInv' /\ outcome = "running" /\ outcome' = "running"

(* Nothing of the machine's state but its operand stack and its store has  *)
(* changed.                                                                *)
Otherwise == UNCHANGED <<Callers, CurrentFrame, GlobalValues>>

Under(n) == SubSeq(Operands, 1, Len(Operands) - n)

LEMMA ResultViews ==
  ASSUME NEW i, Steps(i), UNCHANGED <<calls, registers>>,
         NEW n \in 0 .. Temps, NEW m \in Nat, NEW v \in Storable(m), Result(n, v)
  PROVE  Otherwise /\ Operands' = Append(Under(n), Value(Depth, v))
<1>1. RunIInv /\ RunIInv' /\ ~AtEntry /\ outcome # "ended" /\ outcome' # "ended"
  BY DEF Steps, Runs
<1>2. /\ Depth \in 1 .. Depth /\ sp \in Nat /\ FirstTemp(Depth) \in Int
      /\ FirstTemp(Depth) < Globals /\ FirstTemp(Depth) <= Edge(Depth)
      /\ Edge(Depth) \in Int /\ Edge(Depth) < Globals
      /\ Temps \in Nat /\ Temps = FirstTemp(Depth) - sp
  BY <1>1, BodyTemps
<1>3. PICK first \in Int, low \in Nat, edge \in Int, g \in Nat, ms \in Nat :
        /\ first = FirstTemp(Depth) /\ low = sp /\ edge = Edge(Depth)
        /\ g = Globals /\ ms = MemSize
  BY <1>2, Sizes
<1>4. low + n <= first /\ first < g /\ first <= edge /\ edge < g /\ g <= ms /\ n \in Nat
  <2>1. first < g /\ first <= edge /\ edge < g /\ g <= ms
    BY <1>2, <1>3, Sizes
  <2>2. Temps = first - low
    BY <1>2, <1>3
  <2>3. n \in Nat /\ n <= first - low
    BY <1>2, <2>2
  <2> QED
    BY <2>1, <2>3
<1>5. /\ mem' = [c \in 0 .. ms + 1 |->
                   IF c = low + n THEN v
                   ELSE IF low < c /\ c < low + n /\ c < g THEN Junk ELSE mem[c]]
      /\ sp' = low + n - 1
  BY <1>3, Sizes DEF Result
<1>6. ASSUME NEW c \in low + n + 1 .. ms - 1 PROVE mem'[c] = mem[c]
  <2>1. c \in 0 .. ms + 1 /\ c # low + n /\ ~(c < low + n)
    BY <1>4
  <2> QED
    BY <1>5, <2>1
<1>7. /\ \A c \in edge + 1 .. g - 1 : mem'[c] = mem[c]
      /\ \A c \in first + 1 .. g - 1 : mem'[c] = mem[c]
      /\ \A c \in g .. ms - 1 : mem'[c] = mem[c]
      /\ \A c \in low + n + 1 .. first : mem'[c] = mem[c]
  <2>1. /\ \A c \in edge + 1 .. g - 1 : c \in low + n + 1 .. ms - 1
        /\ \A c \in first + 1 .. g - 1 : c \in low + n + 1 .. ms - 1
        /\ \A c \in g .. ms - 1 : c \in low + n + 1 .. ms - 1
        /\ \A c \in low + n + 1 .. first : c \in low + n + 1 .. ms - 1
    BY <1>4
  <2> QED
    BY <1>6, <2>1
<1>8. mem'[sp + n] = v /\ sp' = sp + n - 1
  <2>1. low + n \in 0 .. ms + 1
    BY <1>4
  <2> QED
    BY <1>3, <1>5, <2>1
<1>9. Callers' = Callers
  BY <1>1, <1>3, <1>7, BodyViews
<1>10. CurrentFrame' = CurrentFrame
  BY <1>1, <1>3, <1>7, BodyFrame
<1>11. GlobalValues' = GlobalValues
  BY <1>1, <1>3, <1>7, GlobalsView
<1>12. Operands' = Append(SubSeq(Operands, 1, Len(Operands) - n), Value(Depth, v))
  BY <1>1, <1>3, <1>7, <1>8, BodyStack
<1> QED
  BY <1>9, <1>10, <1>11, <1>12 DEF Otherwise, Under

LEMMA PopViews ==
  ASSUME NEW i, Steps(i), UNCHANGED <<calls, registers>>, 1 <= Temps,
         mem' = [mem EXCEPT ![sp + 1] = Junk], sp' = sp + 1
  PROVE  Otherwise /\ Operands' = Under(1)
<1>1. RunIInv /\ RunIInv' /\ ~AtEntry /\ outcome # "ended" /\ outcome' # "ended"
  BY DEF Steps, Runs
<1>2. /\ Depth \in 1 .. Depth /\ sp \in Nat /\ FirstTemp(Depth) \in Int
      /\ FirstTemp(Depth) < Globals /\ FirstTemp(Depth) <= Edge(Depth)
      /\ Edge(Depth) \in Int /\ Edge(Depth) < Globals
      /\ Temps \in Nat /\ Temps = FirstTemp(Depth) - sp
  BY <1>1, BodyTemps
<1>3. PICK first \in Int, low \in Nat, edge \in Int, g \in Nat, ms \in Nat :
        /\ first = FirstTemp(Depth) /\ low = sp /\ edge = Edge(Depth)
        /\ g = Globals /\ ms = MemSize
  BY <1>2, Sizes
<1>4. low + 1 <= first /\ first < g /\ first <= edge /\ edge < g /\ g <= ms
  BY <1>2, <1>3, Sizes
<1>5. \A c : c # low + 1 => mem'[c] = mem[c]
  <2>1. DOMAIN mem = Memory
    BY <1>1 DEF RunIInv, MemoryOK
  <2> QED
    BY <1>3, <2>1
<1>7. /\ \A c \in edge + 1 .. g - 1 : mem'[c] = mem[c]
      /\ \A c \in first + 1 .. g - 1 : mem'[c] = mem[c]
      /\ \A c \in g .. ms - 1 : mem'[c] = mem[c]
      /\ \A c \in low + 1 + 1 .. first : mem'[c] = mem[c]
  <2>1. /\ \A c \in edge + 1 .. g - 1 : c # low + 1
        /\ \A c \in first + 1 .. g - 1 : c # low + 1
        /\ \A c \in g .. ms - 1 : c # low + 1
        /\ \A c \in low + 1 + 1 .. first : c # low + 1
    BY <1>4
  <2> QED
    BY <1>5, <2>1
<1>9. Callers' = Callers
  BY <1>1, <1>3, <1>7, BodyViews
<1>10. CurrentFrame' = CurrentFrame
  BY <1>1, <1>3, <1>7, BodyFrame
<1>11. GlobalValues' = GlobalValues
  BY <1>1, <1>3, <1>7, GlobalsView
<1>12. Operands' = SubSeq(Operands, 1, Len(Operands) - 1)
  <2>1. 1 \in 0 .. Temps /\ 0 \in Nat /\ Junk \in Storable(0)
    BY <1>2 DEF Storable
  <2> QED
    BY <1>1, <1>3, <1>7, <2>1, BodyStack
<1> QED
  BY <1>9, <1>10, <1>11, <1>12 DEF Otherwise, Under
-----------------------------------------------------------------------------
(* Steps of the machine, from the views of the interpreter's.              *)
LEMMA YieldImplements ==
  ASSUME NEW i, Steps(i), NEW n \in 0 .. Temps, NEW w,
         Operands' = Append(Under(n), w), UNCHANGED Callers,
         ip' = Following(ip)
  PROVE  Machine!Yield(n, w)
<1>1. n <= Len(Operands)
  <2>1. Temps <= Len(Operands) /\ Len(Operands) \in Nat /\ Temps \in Nat
    BY OperandAt, BodyTemps DEF Steps, Runs
  <2> QED
    BY <2>1
<1>2. Machine!Has(n)
  BY <1>1 DEF Machine!Has
<1>3. Machine!Advance
  BY DEF Machine!Advance, Steps
<1>4. Operands' = Append(Machine!Below(n), w)
  BY DEF Machine!Below, Under
<1> QED
  BY <1>2, <1>3, <1>4 DEF Machine!Yield

LEMMA ComputeImplements ==
  ASSUME NEW i, Steps(i), NEW n \in 0 .. Temps, NEW m \in Nat, NEW v \in Storable(m),
         Compute(n, v)
  PROVE  Machine!Compute(n, Value(Depth, v))
<1>1. /\ Result(n, v) /\ ip' = Following(ip) /\ UNCHANGED <<calls, registers>>
      /\ UNCHANGED <<store, out>>
  BY DEF Compute, Advance
<1>2. Otherwise /\ Operands' = Append(Under(n), Value(Depth, v))
  BY <1>1, ResultViews
<1>3. Machine!Yield(n, Value(Depth, v))
  BY <1>1, <1>2, YieldImplements DEF Otherwise
<1> QED
  BY <1>1, <1>2, <1>3 DEF Machine!Compute, Otherwise

LEMMA PlainImplements ==
  ASSUME NEW i, Steps(i), NEW n \in 0 .. Temps, NEW m \in Nat, NEW v \in Plains(m),
         Compute(n, v)
  PROVE  Machine!Compute(n, v)
<1>1. v \in Storable(m) /\ ~IsAddress(v)
  BY PlainWords
<1>2. Value(Depth, v) = v
  BY <1>1 DEF Value
<1> QED
  BY <1>1, <1>2, ComputeImplements

LEMMA AllocateImplements ==
  ASSUME NEW i, Steps(i), NEW n \in 0 .. Temps, NEW o, Allocate(n, o)
  PROVE  Machine!Allocate(n, o)
<1>1. /\ Result(n, NewRef(store)) /\ ip' = Following(ip)
      /\ UNCHANGED <<calls, registers>> /\ UNCHANGED out /\ store' = Append(store, o)
  BY DEF Allocate, Advance
<1>2. PICK m \in Nat : m = Len(store) + 1
  BY DEF Steps, Runs, RunIInv, StoreOK
<1>3. NewRef(store) \in Plains(m)
  BY <1>2 DEF NewRef, Obj, Plains
<1>4. NewRef(store) \in Storable(m) /\ Value(Depth, NewRef(store)) = NewRef(store)
  BY <1>3, PlainWords DEF Value
<1>5. Otherwise /\ Operands' = Append(Under(n), NewRef(store))
  BY <1>1, <1>4, ResultViews
<1>6. Machine!Yield(n, NewRef(store))
  BY <1>1, <1>5, YieldImplements DEF Otherwise
<1>7. Machine!NewRef(store) = NewRef(store)
  BY DEF Machine!NewRef, NewRef, Machine!Obj, Obj
<1> QED
  BY <1>1, <1>5, <1>6, <1>7 DEF Machine!Allocate, Otherwise

(* The operands an instruction uses.                                       *)
LEMMA Operand ==
  ASSUME NEW i, Steps(i), NEW k \in 1 .. Temps
  PROVE  /\ k <= Len(Operands) /\ Len(Operands) \in Nat
         /\ Operands[Len(Operands) - k + 1] = Value(Depth, Word(k))
         /\ Word(k) \in Plains(Len(store)) =>
              Operands[Len(Operands) - k + 1] = Word(k)
<1>1. RunIInv /\ ~AtEntry /\ outcome # "ended" /\ Len(store) \in Nat
  BY DEF Steps, Runs, RunIInv, StoreOK
<1>2. /\ Temps <= Len(Operands) /\ Len(Operands) \in Nat /\ Temps \in Nat
      /\ Operands[Len(Operands) - k + 1] = Value(Depth, Word(k))
  BY <1>1, OperandAt, BodyTemps
<1>3. Word(k) \in Plains(Len(store)) => Value(Depth, Word(k)) = Word(k)
  BY <1>1, PlainWords DEF Value
<1> QED
  BY <1>2, <1>3

LEMMA TopIs ==
  ASSUME NEW i, Steps(i), 1 <= Temps
  PROVE  /\ Machine!Has(1) /\ Machine!Top = Value(Depth, Word(1))
         /\ Word(1) \in Plains(Len(store)) => Machine!Top = Word(1)
<1>1. 1 \in 1 .. Temps
  BY BodyTemps DEF Steps, Runs
<1>2. Len(Operands) - 1 + 1 = Len(Operands) /\ 1 <= Len(Operands)
  BY <1>1, Operand
<1> QED
  BY <1>1, <1>2, Operand DEF Machine!Has, Machine!Top

LEMMA SecondIs ==
  ASSUME NEW i, Steps(i), 2 <= Temps
  PROVE  /\ Machine!Has(2) /\ Machine!Second = Value(Depth, Word(2))
         /\ Word(2) \in Plains(Len(store)) => Machine!Second = Word(2)
<1>1. 2 \in 1 .. Temps
  BY BodyTemps DEF Steps, Runs
<1>2. Len(Operands) - 2 + 1 = Len(Operands) - 1 /\ 2 <= Len(Operands)
  BY <1>1, Operand
<1> QED
  BY <1>1, <1>2, Operand DEF Machine!Has, Machine!Second

(* What an instruction other than STA uses are values.                     *)
LEMMA UsedPlain ==
  ASSUME NEW i, Steps(i), i.op # "STA", NEW u \in Nat, u = Uses(i)
  PROVE  /\ u \in 0 .. Temps /\ Temps \in Nat
         /\ 1 <= u => /\ 1 <= Temps /\ Word(1) \in Plains(Len(store))
                      /\ Machine!Has(1) /\ Machine!Top = Word(1)
         /\ 2 <= u => /\ 2 <= Temps /\ Word(2) \in Plains(Len(store))
                      /\ Machine!Has(2) /\ Machine!Second = Word(2)
<1>1. Runs(i)
  BY DEF Steps
<1>2. u \in 0 .. Temps /\ \A k \in 1 .. u : Word(k) \in Plains(Len(store))
  BY <1>1, Used
<1>3. Temps \in Nat
  BY <1>1, BodyTemps DEF Runs
<1>4. 1 <= u => 1 \in 1 .. u /\ 1 <= Temps
  BY <1>2, <1>3
<1>5. 2 <= u => 2 \in 1 .. u /\ 2 <= Temps
  BY <1>2, <1>3
<1> QED
  BY <1>2, <1>3, <1>4, <1>5, TopIs, SecondIs
-----------------------------------------------------------------------------
(* The instructions, one after the other.                                  *)
LEMMA PushImplements ==
  ASSUME NEW i, Steps(i), CONST(i) \/ DUP(i) \/ READ(i)
  PROVE  Machine!CONST(i) \/ Machine!DUP(i) \/ Machine!Builtin(i)
<1>1. /\ Runs(i) /\ RunIInv /\ ~AtEntry /\ Emitted(ip, i) /\ Len(store) \in Nat
      /\ 0 \in 0 .. Temps
  BY BodyTemps DEF Steps, Runs, RunIInv, StoreOK
<1>2. \A z : Machine!Num(z) = Num(z)
  BY DEF Machine!Num, Num
<1>3. CASE CONST(i)
  <2>1. i.op = "CONST" /\ i.n \in -MaxNum .. MaxNum /\ Compute(0, Num(i.n))
    BY <1>1, <1>3 DEF CONST, Emitted
  <2>2. Num(i.n) \in Plains(Len(store))
    BY <1>1, <2>1, Numbers
  <2>3. Machine!Compute(0, Num(i.n))
    BY <1>1, <2>1, <2>2, PlainImplements
  <2> QED
    BY <1>2, <2>1, <2>3 DEF Machine!CONST
<1>4. CASE DUP(i)
  <2>1. i.op = "DUP" /\ Compute(0, Word(1))
    BY <1>4 DEF DUP
  <2>2. Uses(i) = 1
    BY <2>1 DEF Uses
  <2>3. Word(1) \in Plains(Len(store)) /\ Machine!Has(1) /\ Machine!Top = Word(1)
    BY <2>1, <2>2, UsedPlain
  <2>4. Machine!Compute(0, Word(1))
    BY <1>1, <2>1, <2>3, PlainImplements
  <2> QED
    BY <2>1, <2>3, <2>4 DEF Machine!DUP
<1>5. CASE READ(i)
  <2>1. PICK z \in Inputs : i.op = "read" /\ Compute(0, Num(z))
    BY <1>5 DEF READ
  <2>2. Num(z) \in Plains(Len(store))
    BY <1>1, Numbers, SizeAssumption
  <2>3. Machine!Compute(0, Num(z))
    BY <1>1, <2>1, <2>2, PlainImplements
  <2> QED
    BY <1>2, <2>1, <2>3 DEF Machine!Builtin
<1> QED
  BY <1>3, <1>4, <1>5

LEMMA BinopImplements ==
  ASSUME NEW i, Steps(i), BINOP(i), NumbersApart
  PROVE  Machine!BINOP(i)
<1>1. /\ i.op = "BINOP" /\ NoException(i) /\ Bounded(i) /\ Len(store) \in Nat
  BY DEF BINOP, Steps, Runs, RunIInv, StoreOK
<1>2. Uses(i) = 2
  BY <1>1 DEF Uses
<1>3. /\ 2 \in 0 .. Temps /\ Word(1) \in Plains(Len(store))
      /\ Word(2) \in Plains(Len(store))
      /\ Machine!Has(2) /\ Machine!Top = Word(1) /\ Machine!Second = Word(2)
  BY <1>1, <1>2, UsedPlain
<1>4. CASE IsNum(Word(1)) /\ IsNum(Word(2))
  <2>1. Apply(i.f, Word(2).n, Word(1).n) \in -MaxNum .. MaxNum
    BY <1>1, <1>4 DEF Bounded
  <2>2. PICK z \in -MaxNum .. MaxNum : z = Apply(i.f, Word(2).n, Word(1).n)
    BY <2>1
  <2>3. Compute(2, Num(z))
    BY <1>4, <2>2 DEF BINOP, Unbox
  <2>4. Machine!Compute(2, Num(z))
    BY <1>1, <1>3, <2>3, Numbers, PlainImplements
  <2>5. HasResult(i.f, Word(1).n)
    <3>1. i.f = "==" \/ HasResult(i.f, Word(1).n)
      BY <1>1 DEF NoException
    <3> QED
      BY <3>1 DEF HasResult
  <2>6. Machine!Num(Machine!Apply(i.f, Word(2).n, Word(1).n)) = Num(z)
    <3>1. \A x : Machine!Truth(x) = Truth(x)
      BY DEF Machine!Truth, Truth
    <3>2. \A x, y : Machine!Quotient(x, y) = Quotient(x, y)
      BY DEF Machine!Quotient, Quotient, Machine!Abs, Abs
    <3>3. Machine!Apply(i.f, Word(2).n, Word(1).n) = Apply(i.f, Word(2).n, Word(1).n)
      BY DEF Machine!Apply, Apply, Machine!Truth, Truth, Machine!Quotient, Quotient,
             Machine!Abs, Abs
    <3> QED
      BY <2>2, <3>3 DEF Machine!Num, Num
  <2>7. Machine!IsNum(Machine!Second) /\ Machine!IsNum(Machine!Top)
    BY <1>3, <1>4 DEF Machine!IsNum, IsNum
  <2>8. Machine!HasResult(i.f, Machine!Top.n)
    BY <1>3, <2>5 DEF Machine!HasResult, HasResult
  <2> QED
    BY <1>1, <1>3, <2>4, <2>6, <2>7, <2>8 DEF Machine!BINOP
<1>5. CASE ~(IsNum(Word(1)) /\ IsNum(Word(2)))
  <2>1. /\ \E k \in 1 .. 2 : IsNum(Word(k))
        /\ \A k \in 1 .. 2 : IsNum(Word(k)) \/ IsObj(Word(k))
        /\ i.f = "=="
    BY <1>1, <1>5 DEF NoException
  <2>2. \/ IsNum(Word(1)) /\ ~IsNum(Word(2)) /\ IsObj(Word(2))
        \/ IsNum(Word(2)) /\ ~IsNum(Word(1)) /\ IsObj(Word(1))
    <3>1. \A k \in 1 .. 2 : k = 1 \/ k = 2
      OBVIOUS
    <3>2. 1 \in 1 .. 2 /\ 2 \in 1 .. 2
      OBVIOUS
    <3> QED
      BY <1>5, <2>1, <3>1, <3>2
  <2>3. PICK a, b : /\ a \in Unbox(Word(2)) /\ b \in Unbox(Word(1))
                    /\ Compute(2, Num(Apply("==", a, b)))
    BY <2>1 DEF BINOP
  <2>4. a # b
    <3>1. ASSUME NEW k \in {1, 2}
          PROVE  IF IsNum(Word(k)) THEN Unbox(Word(k)) \subseteq -MaxNum .. MaxNum
                 ELSE Unbox(Word(k)) = Halves
      BY <1>1, <1>3, PlainWords DEF Unbox
    <3> QED
      BY <2>2, <2>3, <3>1 DEF NumbersApart
  <2>5. Compute(2, Num(0))
    <3>1. Apply("==", a, b) = 0
      BY <2>4, Equality DEF Truth
    <3> QED
      BY <2>3, <3>1
  <2>6. 0 \in -MaxNum .. MaxNum
    BY SizeAssumption
  <2>7. Machine!Compute(2, Num(0))
    BY <1>1, <1>3, <2>5, <2>6, Numbers, PlainImplements
  <2>8. Machine!IsNum(Machine!Second) # Machine!IsNum(Machine!Top)
    BY <1>3, <2>2 DEF Machine!IsNum, IsNum
  <2>9. Machine!Num(0) = Num(0)
    BY DEF Machine!Num, Num
  <2> QED
    BY <1>1, <1>3, <2>1, <2>7, <2>8, <2>9 DEF Machine!BINOP
<1> QED
  BY <1>4, <1>5

LEMMA ObjectImplements ==
  ASSUME NEW i, Steps(i), ELEM(i) \/ LENGTH(i) \/ WRITE(i), AsciiOnly, StringsOK(store)
  PROVE  Machine!ELEM(i) \/ Machine!Builtin(i)
<1>1. /\ Runs(i) /\ NoException(i) /\ Bounded(i) /\ Len(store) \in Nat
      /\ StoreOK(store) /\ i.op \in {"ELEM", "length", "write"}
  BY DEF Steps, Runs, RunIInv, StoreOK, ELEM, LENGTH, WRITE
<1>2. CASE ELEM(i)
  <2>1. i.op = "ELEM" /\ Compute(2, Belem(Word(2), Word(1)))
    BY <1>2 DEF ELEM
  <2>2. Uses(i) = 2
    BY <2>1 DEF Uses
  <2>3. /\ 2 \in 0 .. Temps /\ Word(1) \in Plains(Len(store))
        /\ Word(2) \in Plains(Len(store))
        /\ Machine!Has(2) /\ Machine!Top = Word(1) /\ Machine!Second = Word(2)
    BY <2>1, <2>2, UsedPlain
  <2>4. HasElem(store, Word(2), Word(1))
    BY <1>1, <2>1 DEF NoException
  <2>5. Word(2).a \in 1 .. Len(store) /\ Word(1).n \in 0 .. Len(Fields(store, Word(2))) - 1
    BY <1>1, <2>3, <2>4, PlainWords DEF HasElem
  <2>6. /\ Fields(store, Word(2)) \in Seq(Plains(Len(store)))
        /\ Len(Fields(store, Word(2))) \in Nat
    BY <1>1, <2>5, InStore DEF Fields
  <2>7. ElemOf(store, Word(2), Word(1)) \in Plains(Len(store))
    <3>1. Word(1).n + 1 \in 1 .. Len(Fields(store, Word(2)))
      BY <2>5, <2>6
    <3> QED
      BY <2>6, <3>1 DEF ElemOf
  <2>11. Belem(Word(2), Word(1)) = ElemOf(store, Word(2), Word(1))
    <3>1. SUFFICES ASSUME HasKind(store, Word(2), "string")
                   PROVE  Belem(Word(2), Word(1)) = ElemOf(store, Word(2), Word(1))
      BY DEF Belem
    <3>2. Word(1).n + 1 \in DOMAIN Fields(store, Word(2))
      BY <2>5, <2>6
    <3>3. ElemOf(store, Word(2), Word(1)) \in Characters
      BY <2>5, <3>1, <3>2 DEF StringsOK, HasKind, ElemOf, Fields
    <3>4. PICK c \in 1 .. 127 : ElemOf(store, Word(2), Word(1)) = Num(c)
      BY <3>3 DEF Characters, AsciiOnly
    <3> QED
      BY <3>1, <3>4 DEF Belem, SignedChar, Num, IsNum
  <2>8. Machine!Compute(2, ElemOf(store, Word(2), Word(1)))
    BY <1>1, <2>1, <2>3, <2>7, <2>11, PlainImplements
  <2>9. Machine!HasElem(store, Word(2), Word(1))
    BY <2>4 DEF Machine!HasElem, HasElem, Machine!IsObj, IsObj, Machine!IsNum, IsNum,
                Machine!Fields, Fields
  <2>10. Machine!ElemOf(store, Word(2), Word(1)) = ElemOf(store, Word(2), Word(1))
    BY DEF Machine!ElemOf, ElemOf, Machine!Fields, Fields
  <2> QED
    BY <2>1, <2>3, <2>8, <2>9, <2>10 DEF Machine!ELEM
<1>3. CASE LENGTH(i)
  <2>1. i.op = "length" /\ Compute(1, Num(Len(Fields(store, Word(1)))))
    BY <1>3 DEF LENGTH
  <2>2. Uses(i) = 1
    BY <2>1 DEF Uses
  <2>3. /\ 1 \in 0 .. Temps /\ Word(1) \in Plains(Len(store))
        /\ Machine!Has(1) /\ Machine!Top = Word(1)
    BY <2>1, <2>2, UsedPlain
  <2>4. IsObj(Word(1)) /\ HeaderTag(Word(1)) # "closure"
    BY <1>1, <2>1 DEF NoException
  <2>5. Word(1).a \in 1 .. Len(store)
    BY <1>1, <2>3, <2>4, PlainWords
  <2>6. Len(Fields(store, Word(1))) \in Nat
    BY <1>1, <2>5, InStore DEF Fields
  <2>7. Len(Fields(store, Word(1))) <= MaxNum
    BY <1>1, <2>1 DEF Bounded
  <2>8. PICK z \in -MaxNum .. MaxNum : z = Len(Fields(store, Word(1)))
    BY <2>6, <2>7, SizeAssumption
  <2>9. Machine!Compute(1, Num(z))
    BY <1>1, <2>1, <2>3, <2>8, Numbers, PlainImplements
  <2>10. Machine!Num(Len(Machine!Fields(store, Word(1)))) = Num(z)
    BY <2>8 DEF Machine!Num, Num, Machine!Fields, Fields
  <2>11. Machine!IsObj(Word(1)) /\ ~Machine!HasKind(store, Word(1), "closure")
    BY <2>4 DEF Machine!IsObj, IsObj, Machine!HasKind, HeaderTag
  <2> QED
    BY <2>1, <2>3, <2>9, <2>10, <2>11 DEF Machine!Builtin
<1>4. CASE WRITE(i)
  <2>1. /\ i.op = "write" /\ Result(1, Null) /\ UNCHANGED <<calls, registers>>
        /\ UNCHANGED store /\ ip' = Following(ip) /\ out' = Append(out, Word(1).n)
    BY <1>4 DEF WRITE, Advance
  <2>2. Uses(i) = 1
    BY <2>1 DEF Uses
  <2>3. /\ 1 \in 0 .. Temps /\ Word(1) \in Plains(Len(store))
        /\ Machine!Has(1) /\ Machine!Top = Word(1)
    BY <2>1, <2>2, UsedPlain
  <2>4. Null \in Storable(0) /\ Value(Depth, Null) = Null
    BY DEF Storable, Plains, Value, IsAddress, Null
  <2>5. Otherwise /\ Operands' = Append(Under(1), Null)
    BY <2>1, <2>3, <2>4, ResultViews
  <2>6. Machine!Yield(1, Null)
    BY <2>1, <2>3, <2>5, YieldImplements DEF Otherwise
  <2>7. Machine!IsNum(Word(1))
    BY <1>1, <2>1 DEF NoException, Machine!IsNum, IsNum
  <2> QED
    BY <2>1, <2>3, <2>5, <2>6, <2>7 DEF Machine!Builtin, Otherwise
<1> QED
  BY <1>2, <1>3, <1>4
-----------------------------------------------------------------------------
(* Tests.                                                                  *)
LEMMA TestImplements ==
  ASSUME NEW i, Steps(i), NEW n \in 0 .. Temps, NEW b \in BOOLEAN, Test(n, b)
  PROVE  Machine!Test(n, b)
<1>1. Compute(n, Num(Truth(b))) /\ Len(store) \in Nat
  BY DEF Test, Steps, Runs, RunIInv, StoreOK
<1>2. PICK v : v = Num(Truth(b))
  OBVIOUS
<1>3. v \in Plains(Len(store))
  BY <1>1, <1>2, TruthValues
<1>4. Machine!Compute(n, v)
  BY <1>1, <1>2, <1>3, PlainImplements
<1>5. Machine!Num(Machine!Truth(b)) = v
  BY <1>2 DEF Machine!Num, Num, Machine!Truth, Truth
<1> QED
  BY <1>4, <1>5 DEF Machine!Test

(* A tested value is a number or an object of the kind in its header.      *)
LEMMA Tested ==
  ASSUME NEW i, Steps(i), NEW w \in Plains(Len(store)), w # Null
  PROVE  /\ Unboxed(w) <=> Machine!IsNum(w)
         /\ \A k : Machine!HasKind(store, w, k) <=> ~Unboxed(w) /\ HeaderTag(w) = k
         /\ ~Unboxed(w) => w.a \in 1 .. Len(store)
         /\ \A n : Machine!HasArity(store, w, n) = HasArity(store, w, n)
         /\ Machine!Fields(store, w) = Fields(store, w)
<1>1. \/ w.kind = "int"
      \/ w.kind = "obj" /\ w.a \in 1 .. Len(store)
  BY DEF Plains
<1>2. Machine!Fields(store, w) = Fields(store, w)
  BY DEF Machine!Fields, Fields
<1>3. \A n : Machine!HasArity(store, w, n) = HasArity(store, w, n)
  BY <1>2 DEF Machine!HasArity, HasArity
<1> QED
  BY <1>1, <1>2, <1>3 DEF Unboxed, IsNum, Machine!IsNum, Machine!HasKind,
                          Machine!IsObj, HeaderTag

LEMMA TagImplements ==
  ASSUME NEW i, Steps(i), SexpTags(store), TAG(i)
  PROVE  Machine!TAG(i)
<1>1. i.op = "TAG" /\ NoException(i) /\ i.t \in DOMAIN TagHash
  BY DEF TAG, Steps, Runs, Emitted
<1>2. Uses(i) = 1
  BY <1>1 DEF Uses
<1>3. /\ 1 \in 0 .. Temps /\ Word(1) \in Plains(Len(store))
      /\ Machine!Has(1) /\ Machine!Top = Word(1)
  BY <1>1, <1>2, UsedPlain
<1>4. PICK w \in Plains(Len(store)) : w = Word(1) /\ w # Null
  BY <1>1, <1>3 DEF NoException
<1>5. PICK b \in BOOLEAN :
        b = (/\ ~Unboxed(w) /\ HeaderTag(w) = "sexp"
             /\ TagHash[store[w.a].tag] = TagHash[i.t] /\ HasArity(store, w, i.n))
  OBVIOUS
<1>6. Machine!Test(1, b)
  <2>1. Test(1, b)
    BY <1>4, <1>5 DEF TAG
  <2> QED
    BY <1>3, <2>1, TestImplements
<1>7. b = (/\ Machine!HasKind(store, w, "sexp") /\ store[w.a].tag = i.t
           /\ Machine!HasArity(store, w, i.n))
  <2>1. ~Unboxed(w) /\ HeaderTag(w) = "sexp" => store[w.a].tag \in DOMAIN TagHash
    BY <1>4, Tested DEF SexpTags, HeaderTag
  <2>2. ~Unboxed(w) /\ HeaderTag(w) = "sexp" =>
          (TagHash[store[w.a].tag] = TagHash[i.t] <=> store[w.a].tag = i.t)
    BY <1>1, <2>1, TagsDiffer
  <2>3. Machine!HasKind(store, w, "sexp") <=> ~Unboxed(w) /\ HeaderTag(w) = "sexp"
    BY <1>4, Tested
  <2>4. Machine!HasArity(store, w, i.n) = HasArity(store, w, i.n)
    BY <1>4, Tested
  <2> QED
    BY <1>5, <2>2, <2>3, <2>4
<1> QED
  BY <1>1, <1>3, <1>4, <1>6, <1>7 DEF Machine!TAG

LEMMA ArrayImplements ==
  ASSUME NEW i, Steps(i), ARRAY(i)
  PROVE  Machine!ARRAY(i)
<1>1. i.op = "ARRAY" /\ NoException(i)
  BY DEF ARRAY, Steps, Runs
<1>2. Uses(i) = 1
  BY <1>1 DEF Uses
<1>3. /\ 1 \in 0 .. Temps /\ Word(1) \in Plains(Len(store))
      /\ Machine!Has(1) /\ Machine!Top = Word(1)
  BY <1>1, <1>2, UsedPlain
<1>4. PICK w \in Plains(Len(store)) : w = Word(1) /\ w # Null
  BY <1>1, <1>3 DEF NoException
<1>5. PICK b \in BOOLEAN :
        b = (~Unboxed(w) /\ HeaderTag(w) = "array" /\ HasArity(store, w, i.n))
  OBVIOUS
<1>6. Machine!Test(1, b)
  <2>1. Test(1, b)
    BY <1>4, <1>5 DEF ARRAY
  <2> QED
    BY <1>3, <2>1, TestImplements
<1>7. b = (/\ Machine!HasKind(store, w, "array")
           /\ Machine!HasArity(store, w, i.n))
  <2>1. Machine!HasKind(store, w, "array") <=> ~Unboxed(w) /\ HeaderTag(w) = "array"
    BY <1>4, Tested
  <2>2. Machine!HasArity(store, w, i.n) = HasArity(store, w, i.n)
    BY <1>4, Tested
  <2> QED
    BY <1>5, <2>1, <2>2
<1> QED
  BY <1>1, <1>3, <1>4, <1>6, <1>7 DEF Machine!ARRAY

LEMMA WholeText ==
  ASSUME AsciiOnly, StringsOK(store), StoreOK(store),
         NEW w, HasKind(store, w, "string"), w.a \in 1 .. Len(store)
  PROVE  CString(Fields(store, w), Num(0)) = Fields(store, w)
<1>1. Fields(store, w) \in Seq(Plains(Len(store)))
  BY InStore DEF Fields
<1>2. \A j \in DOMAIN Fields(store, w) : Fields(store, w)[j] \in Characters
  BY DEF StringsOK, HasKind, Fields
<1>3. \A z \in Characters : z # Num(0)
  BY DEF Characters, AsciiOnly, Num
<1> QED
  BY <1>1, <1>2, <1>3, CStringWhole

LEMMA PatternImplements ==
  ASSUME NEW i, Steps(i), PATT(i), AsciiOnly, StringsOK(store)
  PROVE  Machine!PATT(i)
<1>1. /\ i.op = "PATT" /\ NoException(i) /\ WellFormed(i)
      /\ i.p \in {"StrCmp", "Boxed", "UnBoxed", "String", "Array", "Sexp", "Closure"}
  BY DEF PATT, Steps, Runs, Emitted
<1>2. Uses(i) = IF i.p = "StrCmp" THEN 2 ELSE 1
  BY <1>1 DEF Uses
<1>3. /\ 1 \in 0 .. Temps /\ Word(1) \in Plains(Len(store)) /\ Word(1) # Null
      /\ Machine!Has(1) /\ Machine!Top = Word(1)
  <2>1. PICK u \in Nat : u = Uses(i) /\ 1 <= u
    BY <1>2
  <2>2. 1 \in 1 .. u
    BY <2>1
  <2>3. /\ 1 <= Temps /\ Word(1) \in Plains(Len(store)) /\ Temps \in Nat
        /\ Machine!Has(1) /\ Machine!Top = Word(1)
    BY <1>1, <2>1, UsedPlain
  <2>4. Word(1) # Null
    BY <1>1, <2>1, <2>2 DEF NoException
  <2> QED
    BY <2>3, <2>4
<1>4. PICK w \in Plains(Len(store)) : w = Word(1) /\ w # Null
  BY <1>3
<1>5. CASE i.p = "UnBoxed"
  <2>1. PICK b \in BOOLEAN : b = Unboxed(w)
    BY DEF Unboxed, IsNum
  <2>2. Test(1, b)
    BY <1>4, <1>5, <2>1 DEF PATT
  <2>3. Machine!Test(1, b)
    BY <1>3, <2>2, TestImplements
  <2>4. b = Machine!IsNum(w)
    BY <2>1 DEF Unboxed, IsNum, Machine!IsNum
  <2> QED
    BY <1>1, <1>3, <1>4, <1>5, <2>3, <2>4 DEF Machine!PATT
<1>6. CASE i.p = "Boxed"
  <2>1. PICK b \in BOOLEAN : b = ~Unboxed(w)
    OBVIOUS
  <2>2. Test(1, b)
    BY <1>4, <1>6, <2>1 DEF PATT
  <2>3. Machine!Test(1, b)
    BY <1>3, <2>2, TestImplements
  <2>4. b = ~Machine!IsNum(w)
    BY <2>1 DEF Unboxed, IsNum, Machine!IsNum
  <2> QED
    BY <1>1, <1>3, <1>4, <1>6, <2>3, <2>4 DEF Machine!PATT
<1>7. CASE i.p = "StrCmp"
  <2>1. Uses(i) = 2
    BY <1>2, <1>7
  <2>2. /\ 2 \in 0 .. Temps /\ Word(2) \in Plains(Len(store))
        /\ Machine!Has(2) /\ Machine!Second = Word(2)
    BY <1>1, <2>1, UsedPlain
  <2>3. 2 \in 1 .. Uses(i)
    BY <2>1
  <2>4. PICK x \in Plains(Len(store)) : x = Word(2) /\ x # Null
    BY <1>1, <2>2, <2>3 DEF NoException
  <2>5. PICK b \in BOOLEAN :
          b = (~Unboxed(x) /\ HeaderTag(x) = "string" /\ SameText(x, w))
    OBVIOUS
  <2>6. Test(2, b)
    BY <1>4, <1>7, <2>4, <2>5 DEF PATT
  <2>7. Machine!Test(2, b)
    BY <2>2, <2>6, TestImplements
  <2>8. Machine!HasKind(store, w, "string")
    BY <1>1, <1>4, <1>7 DEF WellFormed, HasKind, IsObj, Machine!HasKind, Machine!IsObj
  <2>9. Machine!HasKind(store, x, "string") <=> ~Unboxed(x) /\ HeaderTag(x) = "string"
    BY <2>4, Tested
  <2>10. /\ Machine!Fields(store, w) = Fields(store, w)
         /\ Machine!Fields(store, x) = Fields(store, x)
    BY DEF Machine!Fields, Fields
  <2>12. ASSUME Machine!HasKind(store, x, "string")
         PROVE  SameText(x, w) <=> Fields(store, w) = Fields(store, x)
    <3>1. HasKind(store, x, "string") /\ HasKind(store, w, "string")
      BY <2>8, <2>12 DEF HasKind, IsObj, Machine!HasKind, Machine!IsObj
    <3>2. x.a \in 1 .. Len(store) /\ w.a \in 1 .. Len(store) /\ StoreOK(store)
      BY <3>1, PlainWords DEF HasKind, Steps, Runs, RunIInv, StoreOK
    <3> QED
      BY <3>1, <3>2, WholeText DEF SameText
  <2>11. b = (/\ Machine!HasKind(store, w, "string") /\ Machine!HasKind(store, x, "string")
              /\ Machine!Fields(store, w) = Machine!Fields(store, x))
    BY <2>5, <2>8, <2>9, <2>10, <2>12
  <2> QED
    BY <1>1, <1>3, <1>4, <1>7, <2>2, <2>4, <2>7, <2>11 DEF Machine!PATT
<1>8. CASE i.p \in {"String", "Array", "Sexp", "Closure"}
  <2>1. PICK k : k = CASE i.p = "String"  -> "string"
                       [] i.p = "Array"   -> "array"
                       [] i.p = "Sexp"    -> "sexp"
                       [] i.p = "Closure" -> "closure"
    OBVIOUS
  <2>2. PICK b \in BOOLEAN : b = (~Unboxed(w) /\ HeaderTag(w) = k)
    OBVIOUS
  <2>3. Test(1, b)
    BY <1>4, <1>8, <2>1, <2>2 DEF PATT
  <2>4. Machine!Test(1, b)
    BY <1>3, <2>3, TestImplements
  <2>5. i.p \in DOMAIN Machine!ShapeOf /\ Machine!ShapeOf[i.p] = k
    BY <1>8, <2>1 DEF Machine!ShapeOf
  <2>6. Machine!HasKind(store, w, k) <=> ~Unboxed(w) /\ HeaderTag(w) = k
    BY <1>4, Tested
  <2>7. b = Machine!HasKind(store, w, k)
    BY <2>2, <2>6 DEF Machine!HasKind
  <2> QED
    BY <1>1, <1>3, <1>4, <2>4, <2>5, <2>7 DEF Machine!PATT
<1> QED
  BY <1>1, <1>5, <1>6, <1>7, <1>8
-----------------------------------------------------------------------------
(* Control inside a function.                                              *)
LEMMA Unmoved ==
  ASSUME outcome' = "ended" <=> outcome = "ended",
         UNCHANGED <<ip, mem, sp, calls>>, UNCHANGED registers
  PROVE  UNCHANGED <<Callers, Operands, CurrentFrame, GlobalValues>>
<1>1. /\ Depth' = Depth /\ AtEntry' = AtEntry /\ Globals' = Globals
      /\ \A k : Frame(k)' = Frame(k) /\ OfClosure(k)' = OfClosure(k)
  BY DEF Depth, AtEntry, Frame, OfClosure, registers, Globals
<1>2. \A k : FirstTemp(k)' = FirstTemp(k) /\ Above(k)' = Above(k)
  BY <1>1 DEF FirstTemp, Above
<1>3. \A k : LastTemp(k)' = LastTemp(k)
  BY <1>1, <1>2 DEF LastTemp, registers
<1>4. \A c, n : Down(c, n)' = Down(c, n)
  BY DEF Down
<1>5. \A k : FrameOf(k)' = FrameOf(k)
  BY <1>1, <1>4 DEF FrameOf
<1>6. \A k, w : Value(k, w)' = Value(k, w)
  BY <1>1, <1>2 DEF Value, Designation
<1>7. \A k : TempsOf(k)' = TempsOf(k)
  BY <1>1, <1>2, <1>3, <1>6 DEF TempsOf
<1>8. Callers' = Callers
  BY <1>1, <1>5 DEF Callers
<1>9. Operands' = Operands
  BY <1>1, <1>7 DEF Operands
<1>10. CurrentFrame' = CurrentFrame
  BY <1>1, <1>4, <1>5 DEF CurrentFrame, PendingFrame, registers
<1>11. GlobalValues' = GlobalValues
  BY <1>1 DEF GlobalValues
<1> QED
  BY <1>8, <1>9, <1>10, <1>11

LEMMA FailImplements ==
  ASSUME NEW i, Runs(i), outcome = "running", FAIL(i)
  PROVE  Machine!FAIL(i)
<1>1. /\ i.op = "FAIL" /\ outcome' = "failed" /\ RunIInv /\ ~AtEntry
      /\ UNCHANGED <<ip, mem, sp, calls, store, out>> /\ UNCHANGED registers
  BY DEF Runs, FAIL
<1>2. UNCHANGED <<Callers, Operands, CurrentFrame, GlobalValues>>
  BY <1>1, Unmoved
<1>3. Machine!Has(1)
  <2>1. PICK u \in Nat : u = Uses(i) /\ u = 1
    BY <1>1 DEF Uses
  <2>2. u \in 0 .. Temps
    BY <2>1, Used
  <2>3. Temps <= Len(Operands) /\ Len(Operands) \in Nat /\ Temps \in Nat
    BY <1>1, OperandAt, BodyTemps
  <2> QED
    BY <2>1, <2>2, <2>3 DEF Machine!Has
<1> QED
  BY <1>1, <1>2, <1>3 DEF Machine!FAIL

LEMMA DropImplements ==
  ASSUME NEW i, Steps(i), DROP(i) \/ CJMP(i)
  PROVE  Machine!DROP(i) \/ Machine!CJMP(i)
<1>1. /\ i.op \in {"DROP", "CJMP"} /\ UNCHANGED <<calls, registers>>
      /\ mem' = [mem EXCEPT ![sp + 1] = Junk] /\ sp' = sp + 1
      /\ UNCHANGED <<store, out>>
  BY DEF DROP, CJMP, Advance
<1>2. Uses(i) = 1
  BY <1>1 DEF Uses
<1>3. /\ 1 <= Temps /\ Word(1) \in Plains(Len(store))
      /\ Machine!Has(1) /\ Machine!Top = Word(1)
  BY <1>1, <1>2, UsedPlain
<1>4. Otherwise /\ Operands' = Under(1)
  BY <1>1, <1>3, PopViews
<1>5. Operands' = Machine!Below(1)
  BY <1>4 DEF Machine!Below, Under
<1>6. CASE DROP(i)
  <2>1. i.op = "DROP" /\ ip' = Following(ip)
    BY <1>6 DEF DROP, Advance
  <2>2. Machine!Advance
    BY <1>4, <2>1 DEF Machine!Advance, Steps, Otherwise
  <2> QED
    BY <1>1, <1>3, <1>4, <1>5, <2>1, <2>2 DEF Machine!DROP, Otherwise
<1>7. CASE CJMP(i)
  <2>1. /\ i.op = "CJMP"
        /\ ip' = IF (Word(1).n = 0) = (i.c = "z") THEN i.l ELSE Following(ip)
    BY <1>7 DEF CJMP
  <2>2. IsNum(Word(1))
    BY <2>1 DEF Steps, Runs, NoException
  <2>3. Machine!IsNum(Machine!Top)
    BY <1>3, <2>2 DEF Machine!IsNum, IsNum
  <2>4. ip' = IF (Machine!Top.n = 0) = (i.c = "z") THEN i.l ELSE Following(ip)
    BY <1>3, <2>1
  <2> QED
    BY <1>1, <1>3, <1>4, <1>5, <2>1, <2>3, <2>4 DEF Machine!CJMP, Otherwise, Steps
<1> QED
  BY <1>6, <1>7

LEMMA JumpImplements ==
  ASSUME NEW i, Steps(i), JMP(i) PROVE Machine!JMP(i)
<1>1. /\ i.op = "JMP" /\ ip' = i.l /\ UNCHANGED <<calls, registers>>
      /\ UNCHANGED <<mem, sp, store, out>>
  BY DEF JMP
<1>2. RunIInv /\ RunIInv' /\ ~AtEntry /\ outcome # "ended" /\ outcome' # "ended"
  BY DEF Steps, Runs
<1>3. Callers' = Callers
  BY <1>1, <1>2, BodyViews
<1>4. CurrentFrame' = CurrentFrame
  BY <1>1, <1>2, BodyFrame
<1>5. GlobalValues' = GlobalValues
  BY <1>1, <1>2, GlobalsView
<1>6. Operands' = Operands
  <2>1. 0 \in 0 .. Temps /\ sp \in Nat /\ sp' = sp + 0 /\ Junk \in Storable(0) /\ 0 \in Nat
    BY <1>1, <1>2, BodyTemps DEF Storable
  <2>2. Operands' = SubSeq(Operands, 1, Len(Operands) - 0)
    BY <1>1, <1>2, <2>1, BodyStack
  <2>3. Operands \in Seq(Values)
    BY <1>2, OperandAt
  <2> QED
    BY <2>2, <2>3
<1> QED
  BY <1>1, <1>3, <1>4, <1>5, <1>6 DEF Machine!JMP, Steps
-----------------------------------------------------------------------------
(* Constructors.                                                           *)
LEMMA OperandsAre ==
  ASSUME NEW i, Steps(i), NEW n \in 0 .. Temps,
         \A k \in 1 .. n : Word(k) \in Plains(Len(store))
  PROVE  Machine!Has(n) /\ Machine!Operands(n) = Words(n)
<1>1. Temps <= Len(Operands) /\ Len(Operands) \in Nat /\ Temps \in Nat
  BY OperandAt, BodyTemps DEF Steps, Runs
<1>2. PICK l \in Nat, m \in Nat : l = Len(Operands) /\ m = n /\ m <= l
  BY <1>1
<1>3. Machine!Has(n)
  BY <1>2 DEF Machine!Has
<1>4. Words(n) = [k \in 1 .. m |-> Word(m + 1 - k)]
  BY <1>2 DEF Words
<1>5. Machine!Operands(n) = SubSeq(Operands, l - m + 1, l)
  BY <1>2 DEF Machine!Operands
<1>6. SubSeq(Operands, l - m + 1, l) = [k \in 1 .. m |-> Operands[k + (l - m + 1) - 1]]
  <2>1. Operands \in Seq(Values)
    BY OperandAt DEF Steps, Runs
  <2>2. PICK a : a = l - m + 1
    OBVIOUS
  <2>3. a \in 1 .. l + 1 /\ 1 + l - a = m
    BY <1>2, <2>2
  <2>4. SubSeq(Operands, a, l) = [k \in 1 .. m |-> Operands[k + a - 1]]
    BY <1>2, <2>1, <2>3
  <2> QED
    BY <2>2, <2>4
<1>7. ASSUME NEW k \in 1 .. m PROVE Operands[k + (l - m + 1) - 1] = Word(m + 1 - k)
  <2>1. PICK j \in 1 .. m : j = m + 1 - k
    BY <1>2
  <2>2. j \in 1 .. Temps /\ Word(j) \in Plains(Len(store))
    BY <1>1, <1>2, <2>1
  <2>3. Operands[Len(Operands) - j + 1] = Word(j)
    BY <2>2, Operand
  <2>4. k + (l - m + 1) - 1 = l - j + 1
    BY <2>1
  <2> QED
    BY <1>2, <2>1, <2>3, <2>4
<1> QED
  BY <1>3, <1>4, <1>5, <1>6, <1>7

LEMMA SameObjects ==
  /\ \A k, t, vs : Machine!Object(k, t, vs) = Object(k, t, vs)
  /\ \A s : Machine!StringObject(s) = StringObject(s)
<1>1. \A k, t, vs : Machine!Object(k, t, vs) = Object(k, t, vs)
  BY DEF Machine!Object, Object
<1>2. \A s : Machine!StringObject(s) = StringObject(s)
  BY Zenon DEF Machine!StringObject, StringObject, Machine!Object, Object, Machine!Num, Num
<1> QED
  BY <1>1, <1>2

LEMMA StringImplements ==
  ASSUME NEW i, Steps(i), BSTRING(i), AsciiOnly PROVE Machine!StringLiteral(i)
<1>1. i.op = "STRING" /\ Allocate(0, Bstring(i.s)) /\ i.s \in Seq(Chars)
  BY Zenon DEF BSTRING, Steps, Runs, Emitted
<1>2. 0 \in 0 .. Temps
  BY BodyTemps DEF Steps, Runs
<1>3. Bstring(i.s) = StringObject(i.s)
  <2>1. \A k \in DOMAIN i.s : i.s[k] # 0
    BY <1>1 DEF AsciiOnly
  <2>2. CString(i.s, 0) = i.s
    BY <1>1, <2>1, CStringWhole
  <2> QED
    BY <2>2 DEF Bstring
<1>4. Machine!Allocate(0, StringObject(i.s))
  BY <1>1, <1>2, <1>3, AllocateImplements
<1>5. Machine!StringObject(i.s) = StringObject(i.s)
  BY SameObjects
<1> QED
  BY <1>1, <1>4, <1>5 DEF Machine!StringLiteral

LEMMA ConstructorImplements ==
  ASSUME NEW i, Steps(i), BSEXP(i) \/ BARRAY(i)
  PROVE  Machine!SEXP(i) \/ Machine!Builtin(i)
<1>1. i.op \in {"SEXP", ".array"}
  <2>1. i.op = "SEXP" \/ i.op = ".array"
    BY Zenon DEF BSEXP, BARRAY
  <2> QED
    BY <2>1
<1>2. Runs(i) /\ i.n \in Nat /\ Uses(i) = i.n
  BY <1>1 DEF Steps, Runs, Emitted, Uses
<1>3. PICK n \in Nat : n = i.n
  BY <1>2
<1>4. n \in 0 .. Temps /\ \A k \in 1 .. n : Word(k) \in Plains(Len(store))
  <2>1. i.op # "STA" /\ n = Uses(i)
    BY <1>1, <1>2, <1>3
  <2> QED
    BY <1>2, <2>1, Used
<1>5. Machine!Has(n) /\ Machine!Operands(n) = Words(n)
  BY <1>4, OperandsAre
<1>6. CASE BSEXP(i)
  <2>1. i.op = "SEXP" /\ Allocate(n, Object("sexp", i.t, Words(n)))
    BY <1>3, <1>6 DEF BSEXP
  <2>2. Machine!Allocate(n, Object("sexp", i.t, Words(n)))
    BY <1>4, <2>1, AllocateImplements
  <2>3. Machine!Object("sexp", i.t, Machine!Operands(n)) = Object("sexp", i.t, Words(n))
    BY <1>5, SameObjects
  <2> QED
    BY <1>3, <1>5, <2>1, <2>2, <2>3 DEF Machine!SEXP
<1>7. CASE BARRAY(i)
  <2>1. PICK o : o = Object("array", "", Words(n))
    BY Zenon
  <2>2. i.op = ".array" /\ Allocate(n, o)
    BY <1>3, <1>7, <2>1, Zenon DEF BARRAY
  <2>3. Machine!Object("array", "", Machine!Operands(n)) = o
    BY <1>5, <2>1, SameObjects, Zenon
  <2>4. Machine!Allocate(n, o)
    <3> HIDE <2>1, <2>3
    <3> QED
      BY <1>4, <2>2, AllocateImplements
  <2>5. Machine!Has(i.n) /\ Machine!Allocate(i.n, Machine!Object("array", "", Machine!Operands(i.n)))
    BY <1>3, <1>5, <2>3, <2>4, Zenon
  <2> QED
    BY <2>2, <2>5, Zenon DEF Machine!Builtin
<1> QED
  BY <1>6, <1>7
-----------------------------------------------------------------------------
(* Variables.                                                              *)
LEMMA FrameHere ==
  ASSUME RunIInv, ~AtEntry
  PROVE  /\ CurrentFrame.locals = [j \in 1 .. nLocals |-> mem[fp - j + 1]]
         /\ Depth # 1 => CurrentFrame.args =
                           [j \in 1 .. nArgs |-> mem[(fp + nArgs) - j + 1]]
         /\ OfClosure(Depth) => CurrentFrame.closure = Closure.a
         /\ CurrentFrame = FrameOf(Depth)
<1>1. /\ Frame(Depth) = [fp |-> fp, args |-> nArgs, locals |-> nLocals]
      /\ OfClosure(Depth) \in BOOLEAN
  BY BodyFacts DEF FrameOK
<1>2. calls # << >>
  <2>1. Depth \in Nat \ {0} /\ Len(calls) = 5 * Depth - 1
    BY BodyTemps, DepthFacts DEF RunIInv
  <2> QED
    BY <2>1
<1>3. CurrentFrame = FrameOf(Depth)
  BY <1>2 DEF CurrentFrame
<1>4. FrameOf(Depth) =
        [args    |-> IF Depth = 1 THEN << >> ELSE Down(fp + nArgs, nArgs),
         locals  |-> Down(fp, nLocals),
         closure |-> IF OfClosure(Depth) THEN Closure.a ELSE 0]
  BY <1>1 DEF FrameOf, Closure
<1>5. /\ Down(fp, nLocals) = [j \in 1 .. nLocals |-> mem[fp - j + 1]]
      /\ Down(fp + nArgs, nArgs) = [j \in 1 .. nArgs |-> mem[(fp + nArgs) - j + 1]]
  BY DEF Down
<1> QED
  BY <1>3, <1>4, <1>5

LEMMA VariablePlain ==
  ASSUME RunIInv, ~AtEntry, NEW d, NEW p, Names(d, p)
  PROVE  Contents(p) \in Plains(Len(store))
<1>1. Len(store) \in Nat /\ StoreOK(store)
  BY DEF RunIInv, StoreOK
<1>2. /\ \A c \in Globals .. MemSize - 1 : mem[c] \in Plains(Len(store))
      /\ \A k \in 1 .. Depth : \A c \in FirstTemp(k) + 1 .. Edge(k) :
           mem[c] \in Plains(Len(store))
  BY DEF RunIInv, MemoryOK
<1>3. \A c \in FirstTemp(Depth) + 1 .. TopVar(Depth) : mem[c] \in Plains(Len(store))
  <2>1. /\ Depth \in 1 .. Depth /\ TopVar(Depth) \in Int /\ Edge(Depth) \in Int
        /\ TopVar(Depth) <= Edge(Depth) /\ FirstTemp(Depth) \in Int
    <3>1. Depth \in 1 .. Depth /\ FirstTemp(Depth) \in Int /\ Edge(Depth) \in Int
      BY BodyTemps
    <3>2. /\ TopVar(Depth) \in Int
          /\ Edge(Depth) = TopVar(Depth) \/ Edge(Depth) = TopVar(Depth) + 1
      BY <3>1, FrameFacts, FrameShape
    <3> QED
      BY <3>1, <3>2
  <2>2. \A c \in FirstTemp(Depth) + 1 .. TopVar(Depth) :
          c \in FirstTemp(Depth) + 1 .. Edge(Depth)
    BY <2>1
  <2> QED
    BY <1>2, <2>1, <2>2
<1>4. d.where \in {"Global", "Local", "Arg", "Access"}
  BY DEF Names
<1>5. CASE d.where = "Global"
  <2>1. p = Cell(Globals + d.i) /\ d.i \in 0 .. NGlobals - 1
    BY <1>5, Places
  <2>2. Globals + d.i \in Globals .. MemSize - 1
    BY <2>1, Sizes
  <2> QED
    BY <1>2, <2>1, <2>2 DEF Contents, Cell
<1>6. CASE d.where = "Local"
  <2>1. p = Cell(fp - d.i) /\ d.i \in 0 .. nLocals - 1
    BY <1>6, Places
  <2>2. /\ fp \in Nat /\ nLocals \in Nat /\ FirstTemp(Depth) = fp - nLocals
        /\ TopVar(Depth) \in Int /\ fp <= TopVar(Depth)
    BY Places
  <2>3. fp - d.i \in FirstTemp(Depth) + 1 .. TopVar(Depth)
    BY <2>1, <2>2
  <2> QED
    BY <1>3, <2>1, <2>3 DEF Contents, Cell
<1>7. CASE d.where = "Arg"
  <2>1. p = Cell(fp + nArgs - d.i) /\ d.i \in 0 .. nArgs - 1 /\ TopVar(Depth) = fp + nArgs
    BY <1>7, Places
  <2>2. /\ fp \in Nat /\ nLocals \in Nat /\ nArgs \in Nat
        /\ FirstTemp(Depth) = fp - nLocals
    BY Places
  <2>3. fp + nArgs - d.i \in FirstTemp(Depth) + 1 .. TopVar(Depth)
    BY <2>1, <2>2
  <2> QED
    BY <1>3, <2>1, <2>3 DEF Contents, Cell
<1>8. CASE d.where = "Access"
  <2>1. /\ p = Inside(Closure.a, d.i) /\ d.i \in 0 .. Captures[Owner[ip]] - 1
        /\ Closure.a \in 1 .. Len(store)
        /\ Len(store[Closure.a].fields) = Captures[Owner[ip]]
    BY <1>8, Places
  <2>2. Captures[Owner[ip]] \in Nat
    BY CapturesHere
  <2>3. store[Closure.a].fields \in Seq(Plains(Len(store)))
    BY <1>1, <2>1, InStore
  <2>4. PICK n \in Nat : n = Captures[Owner[ip]]
    BY <2>2
  <2>5. d.i + 1 \in 1 .. n /\ n = Len(store[Closure.a].fields)
    <3>1. d.i \in 0 .. n - 1
      BY <2>1, <2>4
    <3>2. n = Len(store[Closure.a].fields)
      BY <2>1, <2>4
    <3> QED
      BY <3>1, <3>2
  <2>6. Contents(p) = store[Closure.a].fields[d.i + 1]
    BY <2>1 DEF Contents, Inside
  <2> QED
    BY <2>3, <2>5, <2>6
<1> QED
  BY <1>4, <1>5, <1>6, <1>7, <1>8

(* A variable of the interpreter is one of the machine, of the same value. *)
LEMMA VariableIs ==
  ASSUME RunIInv, ~AtEntry, outcome # "ended", NEW d, NEW p, Names(d, p)
  PROVE  /\ Machine!Exists(d) /\ Machine!ValueOf(d) = Contents(p)
         /\ Machine!Loadable(d)
<1>1. d.where \in {"Global", "Local", "Arg", "Access"}
  BY DEF Names
<1>2. Contents(p) # Undefined /\ Machine!Undefined = Undefined
  <2>1. Contents(p) \in Plains(Len(store))
    BY VariablePlain
  <2> QED
    BY <2>1 DEF Plains, Null, Undefined, Machine!Undefined
<1>3. CASE d.where = "Global"
  <2>1. p = Cell(Globals + d.i) /\ d.i \in 0 .. NGlobals - 1
    BY <1>3, Places
  <2>2. GlobalValues = [x \in 0 .. NGlobals - 1 |-> mem[Globals + x]]
    BY DEF GlobalValues
  <2>3. Machine!Exists(d) /\ Machine!ValueOf(d) = mem[Globals + d.i]
    BY <1>3, <2>1, <2>2 DEF Machine!Exists, Machine!ValueOf
  <2> QED
    BY <1>2, <2>1, <2>3 DEF Contents, Cell, Machine!Loadable
<1>4. CASE d.where = "Local"
  <2>1. p = Cell(fp - d.i) /\ d.i \in 0 .. nLocals - 1 /\ fp \in Nat /\ nLocals \in Nat
    BY <1>4, Places
  <2>2. CurrentFrame.locals = [j \in 1 .. nLocals |-> mem[fp - j + 1]]
    BY FrameHere
  <2>3. d.i + 1 \in 1 .. nLocals /\ fp - (d.i + 1) + 1 = fp - d.i
    BY <2>1
  <2>4. Machine!Cells(d) = CurrentFrame.locals
    BY <1>4 DEF Machine!Cells
  <2>5. d.i + 1 \in DOMAIN Machine!Cells(d) /\ Machine!Cells(d)[d.i + 1] = mem[fp - d.i]
    BY <2>2, <2>3, <2>4
  <2> QED
    BY <1>2, <1>4, <2>1, <2>5 DEF Contents, Cell, Machine!Loadable, Machine!Exists,
                                  Machine!ValueOf
<1>5. CASE d.where = "Arg"
  <2>1. /\ p = Cell(fp + nArgs - d.i) /\ d.i \in 0 .. nArgs - 1 /\ Depth # 1
        /\ fp \in Nat /\ nArgs \in Nat
    BY <1>5, Places
  <2>2. CurrentFrame.args = [j \in 1 .. nArgs |-> mem[(fp + nArgs) - j + 1]]
    BY <2>1, FrameHere
  <2>3. d.i + 1 \in 1 .. nArgs /\ (fp + nArgs) - (d.i + 1) + 1 = fp + nArgs - d.i
    BY <2>1
  <2>4. Machine!Cells(d) = CurrentFrame.args
    BY <1>5 DEF Machine!Cells
  <2>5. /\ d.i + 1 \in DOMAIN Machine!Cells(d)
        /\ Machine!Cells(d)[d.i + 1] = mem[fp + nArgs - d.i]
    BY <2>2, <2>3, <2>4
  <2> QED
    BY <1>2, <1>5, <2>1, <2>5 DEF Contents, Cell, Machine!Loadable, Machine!Exists,
                                  Machine!ValueOf
<1>6. CASE d.where = "Access"
  <2>1. /\ p = Inside(Closure.a, d.i) /\ d.i \in 0 .. Captures[Owner[ip]] - 1
        /\ Closure.a \in 1 .. Len(store)
        /\ Len(store[Closure.a].fields) = Captures[Owner[ip]]
        /\ OfClosure(Depth)
    BY <1>6, Places
  <2>2. Captures[Owner[ip]] \in Nat
    BY CapturesHere
  <2>3. CurrentFrame.closure = Closure.a /\ Closure.a # 0
    BY <2>1, FrameHere
  <2>4. Machine!Cells(d) = store[Closure.a].fields
    BY <1>6, <2>3 DEF Machine!Cells
  <2>5. DOMAIN store[Closure.a].fields = 1 .. Len(store[Closure.a].fields)
    BY <2>1, InStore DEF RunIInv
  <2>6. d.i + 1 \in DOMAIN Machine!Cells(d)
    BY <2>1, <2>2, <2>4, <2>5
  <2>7. Contents(p) = store[Closure.a].fields[d.i + 1]
    BY <2>1 DEF Contents, Inside
  <2> QED
    BY <1>2, <1>6, <2>4, <2>6, <2>7 DEF Machine!Loadable, Machine!Exists,
                                  Machine!ValueOf
<1> QED
  BY <1>1, <1>3, <1>4, <1>5, <1>6
-----------------------------------------------------------------------------
(* Assignments.                                                            *)
LEMMA AssignMoves ==
  ASSUME NEW i, Steps(i), NEW n \in 1 .. Temps, NEW p, NEW v \in Plains(Len(store)),
         OwnAddress(Depth, p), StoreAt(p, n, v)
  PROVE  /\ \A c \in FirstTemp(Depth) + 1 .. MemSize - 1 :
              mem'[c] = IF p = Cell(c) THEN v ELSE mem[c]
         /\ Callers' = Callers /\ Operands' = Append(Under(n), v)
         /\ UNCHANGED <<calls, registers, out>> /\ ip' = Following(ip)
<1>1. RunIInv /\ RunIInv' /\ ~AtEntry /\ outcome # "ended" /\ outcome' # "ended"
  BY DEF Steps, Runs
<1>2. /\ Depth \in 1 .. Depth /\ sp \in Nat /\ FirstTemp(Depth) \in Int
      /\ FirstTemp(Depth) < Globals /\ FirstTemp(Depth) <= Edge(Depth)
      /\ Edge(Depth) \in Int /\ Edge(Depth) < Globals
      /\ Temps \in Nat /\ Temps = FirstTemp(Depth) - sp
  BY <1>1, BodyTemps
<1>3. PICK first \in Int, low \in Nat, edge \in Int, g \in Nat, ms \in Nat :
        /\ first = FirstTemp(Depth) /\ low = sp /\ edge = Edge(Depth)
        /\ g = Globals /\ ms = MemSize
  BY <1>2, Sizes
<1>4. low + n <= first /\ first < g /\ first <= edge /\ edge < g /\ g <= ms /\ n \in Nat
  <2>1. first < g /\ first <= edge /\ edge < g /\ g <= ms
    BY <1>2, <1>3, Sizes
  <2>2. n \in Nat /\ n <= first - low
    BY <1>2, <1>3
  <2> QED
    BY <2>1, <2>2
<1>5. /\ mem' = [c \in 0 .. ms + 1 |->
                   IF c = low + n THEN v
                   ELSE IF c \in low + 1 .. (low + n) - 1 THEN Junk
                   ELSE IF p = Cell(c) THEN v ELSE mem[c]]
      /\ sp' = (low + n) - 1
      /\ UNCHANGED <<calls, registers, out>> /\ ip' = Following(ip)
  <2>1. /\ mem' = [c \in Memory |->
                     IF c = sp + n THEN v
                     ELSE IF c \in sp + 1 .. (sp + n) - 1 THEN Junk
                     ELSE IF p = Cell(c) THEN v ELSE mem[c]]
        /\ sp' = (sp + n) - 1 /\ Advance /\ UNCHANGED out
    BY DEF StoreAt
  <2>2. Memory = 0 .. ms + 1
    BY <1>3, Sizes
  <2>3. UNCHANGED <<calls, registers, out>> /\ ip' = Following(ip)
    BY <2>1 DEF Advance
  <2> QED
    BY <1>3, <2>1, <2>2, <2>3
<1>6. ASSUME NEW c \in low + n + 1 .. ms - 1
      PROVE  mem'[c] = IF p = Cell(c) THEN v ELSE mem[c]
  <2>1. c \in 0 .. ms + 1 /\ c # low + n /\ c \notin low + 1 .. (low + n) - 1
    BY <1>4
  <2> QED
    BY <1>5, <2>1
<1>7. /\ \A c \in low + n + 1 .. first : p # Cell(c)
      /\ \A c \in edge + 1 .. g - 1 : p # Cell(c)
  <2>1. p.kind = "cell" => p.c >= g \/ (first < p.c /\ p.c <= TopVar(Depth))
    BY <1>3 DEF OwnAddress
  <2>2. TopVar(Depth) \in Int /\ TopVar(Depth) <= edge
    <3>1. /\ TopVar(Depth) \in Int
          /\ Edge(Depth) = TopVar(Depth) \/ Edge(Depth) = TopVar(Depth) + 1
      BY <1>1, <1>2, FrameFacts, FrameShape
    <3> QED
      BY <1>3, <3>1
  <2>3. ASSUME NEW c \in Int, p = Cell(c)
        PROVE  c >= g \/ (first < c /\ c <= edge)
    <3>1. p.kind = "cell" /\ p.c = c
      BY <2>3 DEF Cell
    <3>2. c >= g \/ (first < c /\ c <= TopVar(Depth))
      BY <2>1, <3>1
    <3> QED
      BY <2>2, <3>2
  <2>4. ASSUME NEW c \in low + n + 1 .. first, p = Cell(c) PROVE FALSE
    <3>1. c \in Int /\ ~(c >= g) /\ ~(first < c)
      BY <1>4
    <3> QED
      BY <2>3, <2>4, <3>1
  <2>5. ASSUME NEW c \in edge + 1 .. g - 1, p = Cell(c) PROVE FALSE
    <3>1. c \in Int /\ ~(c >= g) /\ ~(c <= edge)
      OBVIOUS
    <3> QED
      BY <2>3, <2>5, <3>1
  <2> QED
    BY <2>4, <2>5
<1>8. /\ \A c \in low + n + 1 .. first : mem'[c] = mem[c]
      /\ \A c \in edge + 1 .. g - 1 : mem'[c] = mem[c]
  <2>1. /\ \A c \in low + n + 1 .. first : c \in low + n + 1 .. ms - 1
        /\ \A c \in edge + 1 .. g - 1 : c \in low + n + 1 .. ms - 1
    BY <1>4
  <2> QED
    BY <1>6, <1>7, <2>1
<1>9. mem'[sp + n] = v /\ sp' = sp + n - 1
  <2>1. low + n \in 0 .. ms + 1 /\ (low + n) - 1 = low + n - 1
    BY <1>4
  <2> QED
    BY <1>3, <1>5, <2>1
<1>10. Callers' = Callers
  BY <1>1, <1>3, <1>5, <1>8, BodyViews
<1>11. Operands' = Append(Under(n), v)
  <2>1. Len(store) \in Nat /\ n \in 0 .. Temps
    BY <1>1, <1>2, BodyFacts
  <2>2. v \in Storable(Len(store)) /\ Value(Depth, v) = v
    BY <2>1, PlainWords DEF Value
  <2>3. UNCHANGED <<calls, registers>>
    BY <1>5
  <2>4. /\ \A c \in Edge(Depth) + 1 .. Globals - 1 : mem'[c] = mem[c]
        /\ \A c \in sp + n + 1 .. FirstTemp(Depth) : mem'[c] = mem[c]
    BY <1>3, <1>8
  <2>5. Operands' = Append(SubSeq(Operands, 1, Len(Operands) - n), Value(Depth, v))
    BY <1>1, <1>9, <2>1, <2>2, <2>3, <2>4, BodyStack
  <2> QED
    BY <2>2, <2>5 DEF Under
<1>12. \A c \in first + 1 .. ms - 1 : mem'[c] = IF p = Cell(c) THEN v ELSE mem[c]
  <2>1. \A c \in first + 1 .. ms - 1 : c \in low + n + 1 .. ms - 1
    BY <1>4
  <2> QED
    BY <1>6, <2>1
<1> QED
  BY <1>3, <1>5, <1>10, <1>11, <1>12

(* The frame of the function that runs, in a memory m.                     *)
FrameAt(m) ==
  [args    |-> IF Depth = 1 THEN << >>
               ELSE [j \in 1 .. nArgs |-> m[(fp + nArgs) - j + 1]],
   locals  |-> [j \in 1 .. nLocals |-> m[fp - j + 1]],
   closure |-> IF OfClosure(Depth) THEN m[fp + nArgs + 1].a ELSE 0]

InBody == RunIInv /\ ~AtEntry

FrameIsHere == CurrentFrame = FrameAt(mem)

LEMMA FrameIs == InBody => FrameIsHere
<1> SUFFICES ASSUME RunIInv, ~AtEntry PROVE CurrentFrame = FrameAt(mem)
  BY DEF InBody, FrameIsHere
<1>1. Frame(Depth) = [fp |-> fp, args |-> nArgs, locals |-> nLocals]
  BY BodyFacts
<1>2. CurrentFrame = FrameOf(Depth)
  BY FrameHere
<1>3. FrameOf(Depth) =
        [args    |-> IF Depth = 1 THEN << >> ELSE Down(fp + nArgs, nArgs),
         locals  |-> Down(fp, nLocals),
         closure |-> IF OfClosure(Depth) THEN mem[fp + nArgs + 1].a ELSE 0]
  BY <1>1 DEF FrameOf
<1>4. /\ Down(fp, nLocals) = [j \in 1 .. nLocals |-> mem[fp - j + 1]]
      /\ Down(fp + nArgs, nArgs) = [j \in 1 .. nArgs |-> mem[(fp + nArgs) - j + 1]]
  BY DEF Down
<1> QED
  BY <1>2, <1>3, <1>4 DEF FrameAt

LEMMA FrameNext == InBody' => FrameIsHere'
BY FrameIs, PTL

LEMMA FrameAfter ==
  ASSUME RunIInv', ~AtEntry', UNCHANGED <<calls, registers>>
  PROVE  CurrentFrame' = FrameAt(mem')
<1>1. CurrentFrame' = FrameAt(mem)'
  BY FrameNext DEF InBody, FrameIsHere
<1>2. Depth' = Depth /\ OfClosure(Depth)' = OfClosure(Depth)
  BY DEF Depth, OfClosure
<1>3. UNCHANGED <<fp, nArgs, nLocals>>
  BY DEF registers
<1>4. FrameAt(mem)' = FrameAt(mem')
  BY <1>2, <1>3 DEF FrameAt
<1> QED
  BY <1>1, <1>4

(* Above the temporaries, m is the memory with v at the address p.         *)
Assigned(m, p, v) ==
  \A c \in FirstTemp(Depth) + 1 .. MemSize - 1 :
    m[c] = IF p = Cell(c) THEN v ELSE mem[c]

(* Where assignments change the current frame, and where they do not.      *)
LEMMA AssignedFrame ==
  ASSUME RunIInv, ~AtEntry, NEW d, NEW p, Names(d, p), NEW v, NEW m,
         Assigned(m, p, v)
  PROVE  FrameAt(m) = CASE d.where = "Local" -> [FrameAt(mem) EXCEPT !.locals[d.i + 1] = v]
                        [] d.where = "Arg" -> [FrameAt(mem) EXCEPT !.args[d.i + 1] = v]
                        [] OTHER -> FrameAt(mem)
<1>1. PICK f \in Nat, a \in Nat, l \in Nat, first \in Int, top \in Int, g \in Nat, ms \in Nat :
        /\ f = fp /\ a = nArgs /\ l = nLocals /\ first = FirstTemp(Depth)
        /\ top = TopVar(Depth) /\ g = Globals /\ ms = MemSize
        /\ first = f - l /\ f <= top /\ top < g /\ g <= ms
  BY Places, Sizes
<1>2. \A c \in first + 1 .. ms - 1 : m[c] = IF p = Cell(c) THEN v ELSE mem[c]
  BY <1>1 DEF Assigned
<1>3. Depth # 1 => top = f + a
  BY <1>1, BodyFacts DEF TopVar
<1>4. OfClosure(Depth) => m[f + a + 1] = mem[f + a + 1]
  <2>1. SUFFICES ASSUME OfClosure(Depth) PROVE m[f + a + 1] = mem[f + a + 1]
    OBVIOUS
  <2>2. /\ Depth \in 1 .. Depth /\ Edge(Depth) < Globals /\ Edge(Depth) \in Int
        /\ Frame(Depth) = [fp |-> fp, args |-> nArgs, locals |-> nLocals]
    BY BodyTemps, BodyFacts
  <2>3. Edge(Depth) = TopVar(Depth) + 1 /\ Depth # 1
    BY <2>1, <2>2, FrameFacts, FrameShape
  <2>4. f + a + 1 < g /\ f + a + 1 \in first + 1 .. ms - 1
    BY <1>1, <1>3, <2>2, <2>3
  <2>5. p # Cell(f + a + 1)
    <3>1. OwnAddress(Depth, p)
      BY NamesOwn
    <3>2. \A c : p = Cell(c) => c >= g \/ c <= top
      BY <1>1, <3>1 DEF OwnAddress, Cell
    <3> QED
      BY <1>1, <1>3, <2>3, <2>4, <3>2
  <2> QED
    BY <1>2, <2>4, <2>5
<1>5. PICK L0, L1, A0, A1, K :
        /\ L0 = [j \in 1 .. l |-> mem[f - j + 1]]
        /\ L1 = [j \in 1 .. l |-> m[f - j + 1]]
        /\ A0 = IF Depth = 1 THEN << >> ELSE [j \in 1 .. a |-> mem[(f + a) - j + 1]]
        /\ A1 = IF Depth = 1 THEN << >> ELSE [j \in 1 .. a |-> m[(f + a) - j + 1]]
        /\ K = IF OfClosure(Depth) THEN mem[f + a + 1].a ELSE 0
  OBVIOUS
<1>6. /\ FrameAt(mem) = [args |-> A0, locals |-> L0, closure |-> K]
      /\ FrameAt(m) = [args |-> A1, locals |-> L1, closure |-> K]
  <2>1. FrameAt(mem) = [args |-> A0, locals |-> L0, closure |-> K]
    BY <1>1, <1>5 DEF FrameAt
  <2>2. K = IF OfClosure(Depth) THEN m[f + a + 1].a ELSE 0
    BY <1>4, <1>5
  <2>3. FrameAt(m) = [args |-> A1, locals |-> L1, closure |-> K]
    BY <1>1, <1>5, <2>2 DEF FrameAt
  <2> QED
    BY <2>1, <2>3
<1>7. ASSUME NEW j \in 1 .. l
      PROVE  m[f - j + 1] = IF p = Cell(f - j + 1) THEN v ELSE mem[f - j + 1]
  <2>1. f - j + 1 \in first + 1 .. ms - 1
    BY <1>1
  <2> QED
    BY <1>2, <2>1
<1>8. ASSUME NEW j \in 1 .. a, Depth # 1
      PROVE  m[(f + a) - j + 1] = IF p = Cell((f + a) - j + 1) THEN v
                                  ELSE mem[(f + a) - j + 1]
  <2>1. top = f + a
    BY <1>3, <1>8
  <2>2. (f + a) - j + 1 \in first + 1 .. ms - 1
    BY <1>1, <2>1
  <2> QED
    BY <1>2, <2>2
<1>9. \A c, e : Cell(c) = Cell(e) <=> c = e
  BY DEF Cell
<1>10. (\A j \in 1 .. l : p # Cell(f - j + 1)) => L1 = L0
  BY <1>5, <1>7
<1>11. (\A j \in 1 .. a : Depth # 1 => p # Cell((f + a) - j + 1)) => A1 = A0
  BY <1>5, <1>8
<1>12. CASE d.where = "Local"
  <2>1. PICK x \in 0 .. l - 1 : x = d.i /\ p = Cell(f - x)
    BY <1>1, <1>12, Places
  <2>2. \A j \in 1 .. l : p = Cell(f - j + 1) <=> j = x + 1
    BY <1>9, <2>1
  <2>3. L1 = [L0 EXCEPT ![x + 1] = v]
    BY <1>5, <1>7, <2>2
  <2>4. A1 = A0
    <3>1. \A j \in 1 .. a : (f + a) - j + 1 # f - x
      BY <2>1
    <3> QED
      BY <1>9, <1>11, <2>1, <3>1
  <2> QED
    BY <1>6, <1>12, <2>1, <2>3, <2>4
<1>13. CASE d.where = "Arg"
  <2>1. PICK x \in 0 .. a - 1 : x = d.i /\ p = Cell(f + a - x)
    BY <1>1, <1>13, Places
  <2>2. Depth # 1
    BY <1>13, Places
  <2>3. \A j \in 1 .. a : p = Cell((f + a) - j + 1) <=> j = x + 1
    BY <1>9, <2>1
  <2>4. A1 = [A0 EXCEPT ![x + 1] = v]
    BY <1>5, <1>8, <2>2, <2>3
  <2>5. L1 = L0
    <3>1. \A j \in 1 .. l : f - j + 1 # f + a - x
      BY <2>1
    <3> QED
      BY <1>9, <1>10, <2>1, <3>1
  <2> QED
    BY <1>6, <1>13, <2>1, <2>4, <2>5
<1>14. CASE d.where = "Global"
  <2>1. PICK x \in Nat : p = Cell(g + x)
    <3>1. p = Cell(Globals + d.i) /\ d.i \in Nat
      BY <1>14, Places
    <3> QED
      BY <1>1, <3>1
  <2>2. L1 = L0
    <3>1. \A j \in 1 .. l : f - j + 1 # g + x
      BY <1>1
    <3> QED
      BY <1>9, <1>10, <2>1, <3>1
  <2>3. A1 = A0
    <3>1. \A j \in 1 .. a : Depth # 1 => (f + a) - j + 1 # g + x
      BY <1>1, <1>3
    <3> QED
      BY <1>9, <1>11, <2>1, <3>1
  <2> QED
    BY <1>6, <1>14, <2>2, <2>3
<1>15. CASE d.where = "Access"
  <2>1. \A c : p # Cell(c)
    BY <1>15, Places DEF Cell, Inside
  <2>2. L1 = L0 /\ A1 = A0
    BY <1>10, <1>11, <2>1
  <2> QED
    BY <1>6, <1>15, <2>2
<1> QED
  BY <1>12, <1>13, <1>14, <1>15 DEF Names

(* ... and the globals.                                                    *)
LEMMA AssignedGlobals ==
  ASSUME RunIInv, ~AtEntry, outcome # "ended", outcome' # "ended",
         NEW d, NEW p, Names(d, p), NEW v, Assigned(mem', p, v)
  PROVE  GlobalValues' = IF d.where = "Global" THEN [GlobalValues EXCEPT ![d.i] = v]
                         ELSE GlobalValues
<1>1. PICK first \in Int, top \in Int, g \in Nat, ms \in Nat, n \in Nat :
        /\ first = FirstTemp(Depth) /\ top = TopVar(Depth) /\ g = Globals
        /\ ms = MemSize /\ n = NGlobals /\ g + n = ms /\ first < g /\ top < g
  BY Places, BodyTemps, Sizes
<1>2. ASSUME NEW x \in 0 .. n - 1
      PROVE  mem'[g + x] = IF p = Cell(g + x) THEN v ELSE mem[g + x]
  <2>1. g + x \in first + 1 .. ms - 1
    BY <1>1
  <2>2. \A c \in first + 1 .. ms - 1 : mem'[c] = IF p = Cell(c) THEN v ELSE mem[c]
    BY <1>1 DEF Assigned
  <2> QED
    BY <2>1, <2>2
<1>3. /\ GlobalValues = [x \in 0 .. n - 1 |-> mem[g + x]]
      /\ GlobalValues' = [x \in 0 .. n - 1 |-> mem'[g + x]]
  BY <1>1 DEF GlobalValues, Globals
<1>4. \A c, e : Cell(c) = Cell(e) <=> c = e
  BY DEF Cell
<1>5. CASE d.where = "Global"
  <2>1. PICK y \in 0 .. n - 1 : y = d.i /\ p = Cell(g + y)
    BY <1>1, <1>5, Places
  <2>2. \A x \in 0 .. n - 1 : p = Cell(g + x) <=> x = y
    BY <1>1, <1>4, <2>1
  <2>3. GlobalValues' = [GlobalValues EXCEPT ![y] = v]
    BY <1>2, <1>3, <2>2
  <2> QED
    BY <1>5, <2>1, <2>3
<1>6. CASE d.where # "Global"
  <2>1. ASSUME NEW x \in 0 .. n - 1 PROVE p # Cell(g + x)
    <3>1. CASE d.where = "Access"
      BY <3>1, Places DEF Cell, Inside
    <3>2. CASE d.where = "Local"
      <4>1. PICK f \in Nat, y \in Nat : p = Cell(f - y) /\ f <= top
        <5>1. p = Cell(fp - d.i) /\ d.i \in Nat /\ fp \in Nat /\ fp <= TopVar(Depth)
          BY <3>2, Places
        <5> QED
          BY <1>1, <5>1
      <4>2. f - y # g + x
        BY <1>1, <4>1
      <4> QED
        BY <1>4, <4>1, <4>2
    <3>3. CASE d.where = "Arg"
      <4>1. PICK f \in Nat, y \in Nat : p = Cell(f - y) /\ f <= top
        <5>1. /\ p = Cell(fp + nArgs - d.i) /\ d.i \in Nat /\ fp \in Nat
              /\ nArgs \in Nat /\ fp + nArgs = top
          BY <1>1, <3>3, Places
        <5>2. PICK f : f = fp + nArgs
          OBVIOUS
        <5>3. f \in Nat /\ fp + nArgs - d.i = f - d.i /\ f <= top
          BY <1>1, <5>1, <5>2
        <5> QED
          BY <5>1, <5>3
      <4>2. f - y # g + x
        BY <1>1, <4>1
      <4> QED
        BY <1>4, <4>1, <4>2
    <3> QED
      BY <1>6, <3>1, <3>2, <3>3 DEF Names
  <2>2. GlobalValues' = GlobalValues
    BY <1>2, <1>3, <2>1
  <2> QED
    BY <1>6, <2>2
<1> QED
  BY <1>5, <1>6

LEMMA AssignImplements ==
  ASSUME NEW i, Steps(i), NEW n \in 1 .. Temps, NEW d, NEW p, Names(d, p),
         NEW v \in Plains(Len(store)), StoreAt(p, n, v)
  PROVE  Machine!Assign(d, v) /\ Machine!Yield(n, v)
<1>1. RunIInv /\ RunIInv' /\ ~AtEntry /\ outcome # "ended" /\ outcome' # "ended"
  BY DEF Steps, Runs
<1>2. OwnAddress(Depth, p) /\ Temps \in Nat
  BY <1>1, NamesOwn, BodyTemps
<1>3. /\ Assigned(mem', p, v)
      /\ Callers' = Callers /\ Operands' = Append(Under(n), v)
      /\ UNCHANGED <<calls, registers, out>> /\ ip' = Following(ip)
  BY <1>2, AssignMoves DEF Assigned
<1>4. Machine!Yield(n, v)
  <2>1. n \in 0 .. Temps
    BY <1>2
  <2> QED
    BY <1>3, <2>1, YieldImplements
<1>5. CurrentFrame = FrameAt(mem)
  BY <1>1, FrameIs DEF InBody, FrameIsHere
<1>6. CurrentFrame' = FrameAt(mem')
  <2>1. AtEntry' = AtEntry
    BY <1>3 DEF AtEntry
  <2> QED
    BY <1>1, <1>3, <2>1, FrameAfter
<1>7. FrameAt(mem') = CASE d.where = "Local" -> [FrameAt(mem) EXCEPT !.locals[d.i + 1] = v]
                        [] d.where = "Arg" -> [FrameAt(mem) EXCEPT !.args[d.i + 1] = v]
                        [] OTHER -> FrameAt(mem)
  <2>1. PICK m : m = mem'
    OBVIOUS
  <2>2. Assigned(m, p, v)
    BY <1>3, <2>1
  <2>3. FrameAt(m) = CASE d.where = "Local" -> [FrameAt(mem) EXCEPT !.locals[d.i + 1] = v]
                       [] d.where = "Arg" -> [FrameAt(mem) EXCEPT !.args[d.i + 1] = v]
                       [] OTHER -> FrameAt(mem)
    BY <1>1, <2>2, AssignedFrame
  <2> QED
    BY <2>1, <2>3
<1>8. CurrentFrame' =
        CASE d.where = "Local" -> [CurrentFrame EXCEPT !.locals[d.i + 1] = v]
          [] d.where = "Arg" -> [CurrentFrame EXCEPT !.args[d.i + 1] = v]
          [] OTHER -> CurrentFrame
  BY <1>5, <1>6, <1>7
<1>9. GlobalValues' = IF d.where = "Global" THEN [GlobalValues EXCEPT ![d.i] = v]
                      ELSE GlobalValues
  BY <1>1, <1>3, AssignedGlobals
<1>10. store' = IF d.where = "Access"
                THEN [store EXCEPT ![CurrentFrame.closure].fields[d.i + 1] = v]
                ELSE store
  <2>1. store' = IF p.kind = "inside"
                 THEN [store EXCEPT ![p.a].fields[p.i + 1] = v] ELSE store
    BY DEF StoreAt
  <2>2. CASE d.where = "Access"
    <3>1. p = Inside(Closure.a, d.i) /\ OfClosure(Depth)
      BY <1>1, <2>2, Places
    <3>2. CurrentFrame.closure = Closure.a
      BY <1>1, <3>1, FrameHere
    <3>3. p.kind = "inside" /\ p.a = Closure.a /\ p.i = d.i
      BY <3>1 DEF Inside
    <3> QED
      BY <2>1, <2>2, <3>2, <3>3
  <2>3. CASE d.where # "Access"
    <3>1. p.kind = "cell"
      BY <1>1, <2>3, Places DEF Names, Cell
    <3> QED
      BY <2>1, <2>3, <3>1
  <2> QED
    BY <2>2, <2>3
<1>11. Machine!Exists(d)
  BY <1>1, VariableIs
<1>12. out' = out
  BY <1>3
<1> QED
  BY <1>4, <1>8, <1>9, <1>10, <1>11, <1>12 DEF Machine!Assign
-----------------------------------------------------------------------------
(* Instructions about variables.                                           *)
LEMMA LoadImplements ==
  ASSUME NEW i, Steps(i), LD(i) \/ LDA(i)
  PROVE  Machine!LD(i) \/ Machine!LDA(i)
<1>1. /\ RunIInv /\ ~AtEntry /\ outcome # "ended" /\ Len(store) \in Nat
      /\ i.op \in {"LD", "LDA"} /\ 0 \in 0 .. Temps
  <2>1. RunIInv /\ ~AtEntry /\ outcome # "ended" /\ i.op \in {"LD", "LDA"}
    BY DEF LD, LDA, Steps, Runs
  <2>2. 0 \in 0 .. Temps /\ Len(store) \in Nat
    BY <2>1, BodyTemps, BodyFacts
  <2> QED
    BY <2>1, <2>2
<1>2. Designates(ip, i.d) /\ InRange(i.d)
  BY <1>1 DEF Steps, Runs, Emitted, LD, LDA
<1>3. PICK d, p : d = i.d /\ p = Address(i.d) /\ Names(d, p)
  BY <1>1, <1>2, NamesOf
<1>4. CASE LD(i)
  <2>1. i.op = "LD" /\ Compute(0, Contents(p))
    BY <1>3, <1>4 DEF LD
  <2>2. Contents(p) \in Plains(Len(store))
    BY <1>1, <1>3, VariablePlain
  <2>3. Machine!Compute(0, Contents(p))
    BY <1>1, <2>1, <2>2, PlainImplements
  <2>4. Machine!Loadable(d) /\ Machine!ValueOf(d) = Contents(p)
    BY <1>1, <1>3, VariableIs
  <2> QED
    BY <1>3, <2>1, <2>3, <2>4 DEF Machine!LD
<1>5. CASE LDA(i)
  <2>1. i.op = "LDA" /\ Compute(0, p)
    BY <1>3, <1>5 DEF LDA
  <2>2. p \in Storable(Len(store))
    BY <1>1, <1>2, <1>3, Designated DEF AddressOK
  <2>3. Machine!Compute(0, Value(Depth, p))
    BY <1>1, <2>1, <2>2, ComputeImplements
  <2>4. Value(Depth, p) = Var(d)
    BY <1>1, <1>3, NamesOwn
  <2>5. Machine!Var(d) = Var(d)
    BY DEF Machine!Var, Var
  <2> QED
    BY <1>3, <2>1, <2>3, <2>4, <2>5 DEF Machine!LDA
<1> QED
  BY <1>4, <1>5

LEMMA StoreImplements ==
  ASSUME NEW i, Steps(i), ST(i)
  PROVE  Machine!ST(i)
<1>1. /\ RunIInv /\ ~AtEntry /\ i.op = "ST" /\ Designates(ip, i.d) /\ InRange(i.d)
      /\ StoreAt(Address(i.d), 1, Word(1))
  BY DEF ST, Steps, Runs, Emitted
<1>2. Uses(i) = 1
  BY <1>1 DEF Uses
<1>3. /\ 1 \in 0 .. Temps /\ Word(1) \in Plains(Len(store)) /\ Temps \in Nat
      /\ Machine!Has(1) /\ Machine!Top = Word(1)
  BY <1>1, <1>2, UsedPlain
<1>4. PICK d, p : d = i.d /\ p = Address(i.d) /\ Names(d, p)
  BY <1>1, NamesOf
<1>5. PICK v \in Plains(Len(store)) : v = Word(1)
  BY <1>3
<1>6. 1 \in 1 .. Temps
  BY <1>3
<1>7. StoreAt(p, 1, v)
  BY <1>1, <1>4, <1>5
<1>8. Machine!Assign(d, v) /\ Machine!Yield(1, v)
  BY <1>4, <1>6, <1>7, AssignImplements
<1> QED
  BY <1>1, <1>3, <1>4, <1>5, <1>8 DEF Machine!ST

(* The elements of objects.                                                *)
LEMMA ElementImplements ==
  ASSUME NEW i, Steps(i), i.op = "STA", Unboxed(Word(2)),
         store' = WithElem(store, Word(3), Word(2), Word(1)), Result(3, Word(1)),
         Advance, UNCHANGED out
  PROVE  Machine!STA(i)
<1>1. Runs(i) /\ NoException(i) /\ StackDiscipline(i) /\ Temps \in Nat
  BY BodyTemps DEF Steps, Runs
<1>2. Temps >= 2
  BY <1>1 DEF StackDiscipline, Uses
<1>3. Uses(i) = 3
  BY <1>2 DEF Uses, Unboxed
<1>4. 3 \in 0 .. Temps /\ \A k \in 1 .. 3 : k \in 1 .. Temps
  BY <1>1, <1>3, Used
<1>5. /\ 1 \in 1 .. Temps /\ 2 \in 1 .. Temps /\ 3 \in 1 .. Temps
  BY <1>4
<1>6. \A k \in 1 .. 3 : Word(k) \in Plains(Len(store))
  <2>1. RunIInv /\ ~AtEntry
    BY <1>1 DEF Runs
  <2>2. \A k \in 1 .. 3 : ~IsAddress(Word(k))
    BY <1>1, <1>3 DEF StackDiscipline, Unboxed
  <2> QED
    BY <1>4, <2>1, <2>2, OperandFacts
<1>7. PICK x, j, v \in Plains(Len(store)) :
        x = Word(3) /\ j = Word(2) /\ v = Word(1)
  <2>1. Word(1) \in Plains(Len(store))
    BY <1>6
  <2>2. Word(2) \in Plains(Len(store))
    BY <1>6
  <2>3. Word(3) \in Plains(Len(store))
    BY <1>6
  <2> QED
    BY <2>1, <2>2, <2>3, Zenon
<1>8. /\ Machine!Top = v /\ Machine!Second = j
      /\ Machine!Has(2) /\ Machine!Has(3)
      /\ Operands[Len(Operands) - 2] = x
  <2>1. Word(1) \in Plains(Len(store)) /\ Word(2) \in Plains(Len(store))
        /\ Word(3) \in Plains(Len(store))
    BY <1>6
  <2>2. Machine!Top = v
    BY <1>1, <1>2, <1>7, <2>1, TopIs
  <2>3. Machine!Second = j /\ Machine!Has(2)
    BY <1>1, <1>2, <1>7, <2>1, SecondIs
  <2>4. /\ 3 <= Len(Operands) /\ Len(Operands) \in Nat
        /\ Operands[Len(Operands) - 3 + 1] = x
    BY <1>5, <1>7, <2>1, Operand
  <2>5. Len(Operands) - 3 + 1 = Len(Operands) - 2
    BY <2>4
  <2> QED
    BY <2>2, <2>3, <2>4, <2>5 DEF Machine!Has
<1>9. HasElem(store, x, j) /\ MayHold(store, x, v) /\ IsNum(j)
  <2>1. ~IsAddress(Word(2)) /\ IsNum(Word(2))
    BY DEF Unboxed, IsNum, IsAddress
  <2> QED
    BY <1>1, <1>7, <2>1 DEF NoException
<1>10. /\ Machine!HasElem(store, x, j) /\ Machine!MayHold(store, x, v)
       /\ Machine!IsNum(j)
       /\ Machine!WithElem(store, x, j, v) = WithElem(store, x, j, v)
  BY <1>9 DEF Machine!HasElem, HasElem, Machine!MayHold, MayHold, Machine!IsNum, IsNum,
              Machine!IsObj, IsObj, Machine!Fields, Fields, Machine!HasKind, HasKind,
              Machine!Char, Char, Machine!WithElem, WithElem
<1>11. Otherwise /\ Operands' = Append(Under(3), v)
  <2>1. UNCHANGED <<calls, registers>> /\ Result(3, v) /\ Len(store) \in Nat
    BY <1>7 DEF Advance, Steps, Runs, RunIInv, StoreOK
  <2>2. v \in Storable(Len(store)) /\ Value(Depth, v) = v
    BY <2>1, PlainWords DEF Value
  <2>3. Otherwise /\ Operands' = Append(Under(3), Value(Depth, v))
    BY <1>4, <2>1, <2>2, ResultViews
  <2> QED
    BY <2>2, <2>3
<1>12. Machine!Yield(3, v)
  <2>1. ip' = Following(ip)
    BY DEF Advance
  <2> QED
    BY <1>4, <1>11, <2>1, YieldImplements DEF Otherwise
<1>13. store' = WithElem(store, x, j, v) /\ out' = out
  BY <1>7
<1> QED
  BY <1>8, <1>10, <1>11, <1>12, <1>13 DEF Machine!STA, Otherwise

LEMMA AssignmentImplements ==
  ASSUME NEW i, Steps(i), OwnIInv, STA(i)
  PROVE  Machine!STA(i)
<1>1. /\ Runs(i) /\ i.op = "STA" /\ StackDiscipline(i) /\ RunIInv /\ ~AtEntry
      /\ Temps \in Nat
  <2>1. Runs(i) /\ i.op = "STA" /\ StackDiscipline(i) /\ RunIInv /\ ~AtEntry
    BY DEF STA, Steps, Runs
  <2> QED
    BY <2>1, BodyTemps
<1>2. CASE Unboxed(Word(2))
  <2>1. /\ store' = WithElem(store, Word(3), Word(2), Word(1)) /\ Result(3, Word(1))
        /\ Advance /\ UNCHANGED out
    BY <1>2 DEF STA
  <2> QED
    BY <1>1, <1>2, <2>1, ElementImplements
<1>3. CASE ~Unboxed(Word(2))
  <2>1. StoreAt(Word(2), 2, Word(1)) /\ ~IsNum(Word(2))
    BY <1>3 DEF STA, Unboxed
  <2>2. Temps >= 2
    BY <1>1, <2>1 DEF StackDiscipline, Uses
  <2>3. Uses(i) = 2
    BY <1>1, <2>1 DEF Uses
  <2>4. ~IsAddress(Word(1)) /\ IsAddress(Word(2))
    BY <1>1, <2>1, <2>3 DEF StackDiscipline
  <2>5. 1 \in 1 .. Temps /\ 2 \in 1 .. Temps
    BY <1>1, <2>2
  <2>6. Word(1) \in Plains(Len(store)) /\ Word(2) \in Storable(Len(store))
    BY <1>1, <2>4, <2>5, OperandFacts
  <2>7. OwnAddress(Depth, Word(2))
    <3>1. Own(Depth)
      BY <1>1, BodyTemps DEF OwnIInv
    <3> QED
      BY <1>1, <2>5, <3>1, OwnWord
  <2>8. PICK p \in Storable(Len(store)), v \in Plains(Len(store)) :
          p = Word(2) /\ v = Word(1)
    BY <2>6
  <2>9. PICK d : d = Designation(Depth, p)
    OBVIOUS
  <2>10. Names(d, p)
    <3>1. IsAddress(p) /\ OwnAddress(Depth, p)
      BY <2>4, <2>7, <2>8
    <3> QED
      BY <1>1, <2>9, <3>1, NamedBy
  <2>11. Machine!Assign(d, v) /\ Machine!Yield(2, v)
    BY <2>1, <2>5, <2>8, <2>10, AssignImplements
  <2>12. Machine!Top = v
    BY <1>1, <2>2, <2>6, <2>8, TopIs
  <2>13. Machine!Second = Var(d) /\ Machine!Has(2)
    <3>1. Machine!Second = Value(Depth, Word(2)) /\ Machine!Has(2)
      BY <1>1, <2>2, SecondIs
    <3>2. Value(Depth, p) = Var(d)
      BY <1>1, <2>10, NamesOwn
    <3> QED
      BY <2>8, <3>1, <3>2
  <2>14. Machine!Second.kind = "var" /\ Machine!Second.d = d
    BY <2>13 DEF Var
  <2> QED
    BY <1>1, <2>11, <2>12, <2>13, <2>14 DEF Machine!STA
<1> QED
  BY <1>2, <1>3

LEMMA ClosureImplements ==
  ASSUME NEW i, Steps(i), BCLOSURE(i)
  PROVE  Machine!CLOSURE(i)
<1>1. /\ RunIInv /\ ~AtEntry /\ outcome # "ended" /\ i.op = "CLOSURE"
      /\ \A k \in DOMAIN i.ds : Designates(ip, i.ds[k]) /\ InRange(i.ds[k])
      /\ Allocate(0, Object("closure", i.fn,
                            [k \in DOMAIN i.ds |-> Contents(Address(i.ds[k]))]))
  BY DEF BCLOSURE, Steps, Runs, Emitted
<1>2. \A k \in DOMAIN i.ds :
        /\ Machine!Exists(i.ds[k])
        /\ Machine!ValueOf(i.ds[k]) = Contents(Address(i.ds[k]))
  <2> TAKE k \in DOMAIN i.ds
  <2>1. Designates(ip, i.ds[k]) /\ InRange(i.ds[k])
    BY <1>1
  <2>2. PICK d, p : d = i.ds[k] /\ p = Address(i.ds[k]) /\ Names(d, p)
    BY <1>1, <2>1, NamesOf
  <2> QED
    BY <1>1, <2>2, VariableIs
<1>3. PICK vs : vs = [k \in DOMAIN i.ds |-> Contents(Address(i.ds[k]))]
  OBVIOUS
<1>4. vs = [k \in DOMAIN i.ds |-> Machine!ValueOf(i.ds[k])]
  BY <1>2, <1>3
<1>5. Allocate(0, Object("closure", i.fn, vs)) /\ 0 \in 0 .. Temps
  BY <1>1, <1>3, BodyTemps
<1>6. Machine!Allocate(0, Object("closure", i.fn, vs))
  BY <1>5, AllocateImplements
<1>7. Machine!Object("closure", i.fn, vs) = Object("closure", i.fn, vs)
  BY SameObjects
<1> QED
  BY <1>1, <1>2, <1>4, <1>6, <1>7 DEF Machine!CLOSURE
-----------------------------------------------------------------------------
(* Calls and returns.  A sequence and the same one longer by one.          *)
IsList(f, n) == DOMAIN f = 1 .. n /\ f = [k \in 1 .. n |-> f[k]]

LEMMA Extended ==
  ASSUME NEW n \in Nat, NEW f, NEW g, IsList(f, n), IsList(g, n + 1),
         \A k \in 1 .. n : g[k] = f[k]
  PROVE  /\ g = Append(f, g[n + 1]) /\ f = SubSeq(g, 1, n)
         /\ Len(g) = n + 1 /\ Len(f) = n /\ g # << >>
<1>1. PICK m \in Nat : m = n + 1 /\ m # 0
  OBVIOUS
<1>2. PICK S : S = {g[k] : k \in 1 .. m}
  OBVIOUS
<1>3. f = [k \in 1 .. n |-> f[k]] /\ g = [k \in 1 .. m |-> g[k]]
  BY <1>1 DEF IsList
<1>4. \A k \in 1 .. m : g[k] \in S
  BY <1>2
<1>5. \A k \in 1 .. n : f[k] \in S
  <2>1. \A k \in 1 .. n : k \in 1 .. m
    BY <1>1
  <2> QED
    BY <1>4, <2>1
<1>6. f \in [1 .. n -> S] /\ g \in [1 .. m -> S]
  BY <1>3, <1>4, <1>5
<1>7. f \in Seq(S) /\ Len(f) = n /\ g \in Seq(S) /\ Len(g) = m
  BY <1>1, <1>6, SequenceOf
<1>8. m \in 1 .. m /\ n \in 0 .. m
  BY <1>1
<1>9. PICK a, x, c : a = Append(f, x) /\ x = g[m] /\ c = SubSeq(g, 1, n)
  OBVIOUS
<1>10. x \in S
  BY <1>4, <1>8, <1>9
<1>11. a \in Seq(S) /\ Len(a) = m /\ (\A k \in 1 .. n : a[k] = f[k]) /\ a[m] = x
  BY <1>1, <1>7, <1>9, <1>10, AppendProperties
<1>12. g = a
  <2>1. ASSUME NEW k \in 1 .. m PROVE g[k] = a[k]
    <3>1. k = m \/ k \in 1 .. n
      BY <1>1
    <3> QED
      BY <1>9, <1>11, <3>1
  <2>2. Len(g) = Len(a) /\ \A k \in 1 .. Len(g) : g[k] = a[k]
    BY <1>7, <1>11, <2>1
  <2> QED
    BY <1>7, <1>11, <2>2, SeqEqual
<1>13. f = c
  <2>1. c \in Seq(S) /\ Len(c) = n /\ \A k \in 1 .. n : c[k] = g[k]
    BY <1>7, <1>8, <1>9, Cut
  <2>2. Len(f) = Len(c) /\ \A k \in 1 .. Len(f) : f[k] = c[k]
    BY <1>7, <2>1
  <2> QED
    BY <1>7, <2>1, <2>2, SeqEqual
<1>14. g # << >>
  BY <1>1, <1>7
<1> QED
  BY <1>1, <1>7, <1>9, <1>12, <1>13, <1>14

LEMMA FramesList == ASSUME NEW n PROVE IsList(Frames(n), n) /\ IsList(Frames(n)', n)
BY DEF Frames, IsList

LEMMA FramesAt ==
  ASSUME NEW n, NEW k \in 1 .. n
  PROVE  /\ Frames(n)[k] = [ret |-> calls[5 * k], loc |-> FrameOf(k)]
         /\ Frames(n)'[k] = [ret |-> calls'[5 * k], loc |-> FrameOf(k)']
BY DEF Frames

(* The callers of frame n + 1, and it.                                     *)
LEMMA FramesGrow ==
  ASSUME NEW n \in Nat, NEW m, m = n + 1,
         \A k \in 1 .. n : FrameOf(k)' = FrameOf(k) /\ calls'[5 * k] = calls[5 * k]
  PROVE  Frames(m)' = Append(Frames(n), [ret |-> calls'[5 * m], loc |-> FrameOf(m)'])
<1>1. PICK f, g : f = Frames(n) /\ g = Frames(m)'
  OBVIOUS
<1>2. IsList(f, n) /\ IsList(g, n + 1)
  BY <1>1, FramesList
<1>3. ASSUME NEW k \in 1 .. n PROVE g[k] = f[k]
  <2>1. k \in 1 .. m
    OBVIOUS
  <2>2. /\ f[k] = [ret |-> calls[5 * k], loc |-> FrameOf(k)]
        /\ g[k] = [ret |-> calls'[5 * k], loc |-> FrameOf(k)']
    BY <1>1, <2>1, FramesAt
  <2> QED
    BY <2>2
<1>4. m \in 1 .. m
  OBVIOUS
<1>5. g[m] = [ret |-> calls'[5 * m], loc |-> FrameOf(m)']
  BY <1>1, <1>4, FramesAt
<1>6. g = Append(f, g[n + 1])
  BY <1>2, <1>3, Extended
<1> QED
  BY <1>1, <1>5, <1>6

LEMMA FramesShrink ==
  ASSUME NEW n \in Nat, NEW m, m = n + 1,
         \A k \in 1 .. n : FrameOf(k)' = FrameOf(k) /\ calls'[5 * k] = calls[5 * k]
  PROVE  /\ Frames(n)' = SubSeq(Frames(m), 1, Len(Frames(m)) - 1)
         /\ Frames(m) # << >>
         /\ Frames(m)[Len(Frames(m))] = [ret |-> calls[5 * m], loc |-> FrameOf(m)]
<1>1. PICK f, g : f = Frames(n)' /\ g = Frames(m)
  OBVIOUS
<1>2. IsList(f, n) /\ IsList(g, n + 1)
  BY <1>1, FramesList
<1>3. ASSUME NEW k \in 1 .. n PROVE g[k] = f[k]
  <2>1. k \in 1 .. m
    OBVIOUS
  <2>2. /\ g[k] = [ret |-> calls[5 * k], loc |-> FrameOf(k)]
        /\ f[k] = [ret |-> calls'[5 * k], loc |-> FrameOf(k)']
    BY <1>1, <2>1, FramesAt
  <2> QED
    BY <2>2
<1>4. m \in 1 .. m
  OBVIOUS
<1>5. g[m] = [ret |-> calls[5 * m], loc |-> FrameOf(m)]
  BY <1>1, <1>4, FramesAt
<1>6. f = SubSeq(g, 1, n) /\ Len(g) = n + 1 /\ g # << >>
  BY <1>2, <1>3, Extended
<1>7. Len(g) = m /\ Len(g) - 1 = n
  BY <1>6
<1> QED
  BY <1>1, <1>5, <1>6, <1>7

(* What the frames beneath frame n have as temporaries stays.              *)
LEMMA StacksStay ==
  ASSUME NEW n \in Nat, \A k \in 1 .. n : TempsOf(k)' = TempsOf(k)
  PROVE  FlattenSeq(Stacks(n)') = FlattenSeq(Stacks(n))
BY OuterStacks

LEMMA BeneathNext ==
  ASSUME NEW k, Depth' = k, NEW n, n = k - 1 PROVE Beneath' = FlattenSeq(Stacks(n)')
BY DEF Beneath, Stacks

LEMMA CallersNext ==
  ASSUME NEW k, Depth' = k, NEW n, n = k - 1
  PROVE  /\ AtEntry' => Callers' = Frames(k)'
         /\ ~AtEntry' => Callers' = Frames(n)'
BY DEF Callers, Frames

LEMMA EnterViews ==
  ASSUME NEW i, Steps(i), i.op \in {"CALL", "CALLC"}, CALL(i) \/ CALLC(i),
         NEW n \in 0 .. Temps, n = ArgsAt(ip') + Truth(isClosure')
  PROVE  /\ Callers' = Append(Callers, [ret |-> Following(ip), loc |-> CurrentFrame])
         /\ Operands' = Under(n) /\ GlobalValues' = GlobalValues
         /\ CurrentFrame' = PendingFrame'
<1>1. /\ Runs(i) /\ RunIInv /\ RunIInv' /\ ~AtEntry
      /\ outcome # "ended" /\ outcome' # "ended"
      /\ calls' = Append(calls, Following(ip)) /\ mem' = mem /\ sp' = sp
      /\ UNCHANGED <<fp, nArgs, nLocals>>
  BY DEF Steps, Runs, CALL, CALLC, Enter
<1>2. /\ Depth' = Depth /\ AtEntry' /\ Len(calls') = 5 * Depth
      /\ calls'[5 * Depth] = Following(ip)
      /\ \A j \in 1 .. 5 * Depth - 1 : calls'[j] = calls[j]
      /\ \A k \in 1 .. Depth : Stays(k)
  BY <1>1, EnterShape DEF Stays
<1>3. /\ Depth \in Nat \ {0} /\ Len(calls) = 5 * Depth - 1 /\ Depth \in 1 .. Depth
      /\ LastTemp(Depth) = sp + 1 /\ sp \in Nat /\ FirstTemp(Depth) \in Int
      /\ Temps \in Nat /\ Temps = FirstTemp(Depth) - sp
      /\ Len(TempsOf(Depth)) = Temps
  BY <1>1, DepthFacts, BodyTemps DEF RunIInv
<1>4. PICK d \in Nat, m \in Nat : d = Depth /\ m = d - 1 /\ d = m + 1
  BY <1>3
<1>5. ASSUME NEW k \in 1 .. d PROVE FrameOf(k)' = FrameOf(k)
  BY <1>1, <1>2, <1>4, FrameView
<1>6. ASSUME NEW k \in 1 .. m
      PROVE  calls'[5 * k] = calls[5 * k] /\ TempsOf(k)' = TempsOf(k)
             /\ FrameOf(k)' = FrameOf(k)
  <2>1. /\ k \in 1 .. d /\ k + 1 \in 1 .. d /\ k < d /\ k \in 1 .. d - 1
        /\ 5 * k \in 1 .. 5 * d - 1
    BY <1>4
  <2>2. calls'[5 * k] = calls[5 * k]
    BY <1>2, <1>4, <2>1
  <2>3. Above(k + 1)' = Above(k + 1)
    BY <1>2, <1>4, <2>1, AboveStays
  <2>4. LastTemp(k)' = LastTemp(k)
    BY <1>2, <1>4, <2>1, <2>3 DEF LastTemp
  <2>5. FrameOf(k)' = FrameOf(k) /\ TempsOf(k)' = TempsOf(k)
    <3>1. d \in 1 .. Depth /\ Stays(k)
      BY <1>2, <1>3, <1>4, <2>1
    <3> QED
      BY <1>1, <2>1, <2>4, <3>1, OuterViews
  <2> QED
    BY <2>2, <2>5
<1>7. Callers' = Append(Callers, [ret |-> Following(ip), loc |-> CurrentFrame])
  <2>1. Callers = Frames(m)
    BY <1>1, <1>4 DEF Callers, Frames
  <2>2. Callers' = Frames(d)'
    BY <1>2, <1>4, CallersNext
  <2>3. Frames(d)' = Append(Frames(m), [ret |-> calls'[5 * d], loc |-> FrameOf(d)'])
    BY <1>4, <1>6, FramesGrow
  <2>4. FrameOf(d)' = FrameOf(d)
    <3>1. d \in 1 .. d
      BY <1>3, <1>4
    <3> QED
      BY <1>5, <3>1
  <2>5. CurrentFrame = FrameOf(d)
    BY <1>1, <1>4, FrameHere
  <2> QED
    BY <1>2, <1>4, <2>1, <2>2, <2>3, <2>4, <2>5
<1>8. GlobalValues' = GlobalValues
  BY <1>1, GlobalsView
<1>9. CurrentFrame' = PendingFrame'
  <2>1. Len(calls') # 0
    BY <1>2, <1>3
  <2>2. calls' # << >>
    BY <2>1
  <2> QED
    BY <1>2, <2>2 DEF CurrentFrame
<1>10. PICK b, s, t : b = Beneath /\ s = Operands /\ t = TempsOf(d)
  OBVIOUS
<1>11. s = b \o t /\ b \in Seq(Values) /\ t \in Seq(Values) /\ Len(t) = Temps
  BY <1>1, <1>3, <1>4, <1>10, Split
<1>12. Beneath' = b
  <2>1. Beneath' = FlattenSeq(Stacks(m)')
    BY <1>2, <1>4, BeneathNext
  <2>2. FlattenSeq(Stacks(m)') = FlattenSeq(Stacks(m))
    BY <1>6, StacksStay
  <2>3. Beneath = FlattenSeq(Stacks(m))
    BY <1>4 DEF Beneath
  <2> QED
    BY <1>10, <2>1, <2>2, <2>3
<1>13. Operands' = b \o TempsOf(d)'
  BY <1>1, <1>2, <1>3, <1>4, <1>12, SplitNext
<1>14. TempsOf(d)' = SubSeq(t, 1, Len(t) - n)
  <2>1. PICK p : p = ArgsAt(ip') + Truth(isClosure') /\ p = n
    OBVIOUS
  <2>2. ~(d < Depth')
    BY <1>2, <1>4
  <2>3. LastTemp(d)' = sp + 1 + p
    BY <1>1, <1>2, <2>1, <2>2 DEF LastTemp
  <2>4. LastTemp(d)' = LastTemp(d) + n
    BY <1>3, <1>4, <2>1, <2>3
  <2>5. n \in 0 .. FirstTemp(d) - LastTemp(d) + 1
    <3>1. PICK first \in Int, low \in Int : first = FirstTemp(d) /\ low = sp
      BY <1>3, <1>4
    <3>2. LastTemp(d) = low + 1 /\ Temps = first - low
      BY <1>3, <1>4, <3>1
    <3>3. first - (low + 1) + 1 = first - low
      BY <3>1
    <3> QED
      BY <3>1, <3>2, <3>3
  <2>6. d \in 1 .. Depth /\ Stays(d) /\ 0 \in Nat /\ Junk \in Storable(0)
    BY <1>2, <1>3, <1>4 DEF Storable
  <2> QED
    BY <1>1, <1>10, <2>4, <2>5, <2>6, TempsMove
<1>15. b \o SubSeq(t, 1, Len(t) - n) = SubSeq(s, 1, Len(s) - n)
  <2>1. n \in 0 .. Len(t) /\ Junk \in Values
    BY <1>11 DEF Values
  <2>2. Replaces(b, t, n, Junk)
    BY <1>11, <2>1, Replaced
  <2> QED
    BY <1>11, <2>2, Zenon DEF Replaces
<1>16. Operands' = Under(n)
  BY <1>10, <1>13, <1>14, <1>15 DEF Under
<1> QED
  BY <1>7, <1>8, <1>9, <1>16

LEMMA PendingNext ==
  ASSUME NEW m \in Nat, m = ArgsAt(ip'), UNCHANGED <<mem, sp>>, sp \in Nat
  PROVE  PendingFrame' = [args |-> Words(m), locals |-> << >>,
                          closure |-> IF isClosure' THEN Word(m + 1).a ELSE 0]
<1>0. PICK l : l = mem
  OBVIOUS
<1>1. PICK low \in Nat : low = sp
  OBVIOUS
<1>2. PendingFrame' = [args |-> [j \in 1 .. m |-> l[(low + m) - j + 1]],
                       locals |-> << >>,
                       closure |-> IF isClosure' THEN l[low + m + 1].a ELSE 0]
  BY <1>0, <1>1 DEF PendingFrame, Down
<1>3. \A j \in 1 .. m : (low + m) - j + 1 = low + (m + 1 - j)
  OBVIOUS
<1>4. [j \in 1 .. m |-> l[(low + m) - j + 1]] = [j \in 1 .. m |-> l[low + (m + 1 - j)]]
  BY <1>3
<1>5. Words(m) = [j \in 1 .. m |-> l[low + (m + 1 - j)]]
  BY <1>0, <1>1 DEF Words, Word
<1>6. Word(m + 1) = l[low + m + 1]
  <2>1. low + (m + 1) = low + m + 1
    OBVIOUS
  <2> QED
    BY <1>0, <1>1, <2>1 DEF Word
<1> QED
  BY <1>2, <1>4, <1>5, <1>6

LEMMA CallImplements ==
  ASSUME NEW i, Steps(i), CALL(i)
  PROVE  Machine!CALL(i)
<1>1. /\ i.op = "CALL" /\ isClosure' = FALSE /\ Enter(i.fn) /\ Runs(i)
      /\ i.n \in Nat /\ i.n = ArgsAt(Labeled(i.fn)) /\ Uses(i) = i.n
  BY DEF CALL, Steps, Runs, Emitted, WellFormed, Uses
<1>2. PICK n \in Nat : n = i.n
  BY <1>1
<1>3. /\ ip' = Labeled(i.fn) /\ mem' = mem /\ sp' = sp
      /\ UNCHANGED <<store, out, outcome>>
  BY <1>1 DEF Enter
<1>4. n \in 0 .. Temps /\ \A k \in 1 .. n : Word(k) \in Plains(Len(store))
  <2>1. i.op # "STA" /\ n = Uses(i)
    BY <1>1, <1>2
  <2> QED
    BY <1>1, <2>1, Used
<1>5. Machine!Has(n) /\ Machine!Operands(n) = Words(n)
  BY <1>4, OperandsAre
<1>6. n = ArgsAt(ip') + Truth(isClosure')
  <2>1. Truth(isClosure') = 0
    BY <1>1 DEF Truth
  <2> QED
    BY <1>1, <1>2, <1>3, <2>1
<1>7. /\ Callers' = Append(Callers, [ret |-> Following(ip), loc |-> CurrentFrame])
      /\ Operands' = Under(n) /\ GlobalValues' = GlobalValues
      /\ CurrentFrame' = PendingFrame'
  <2>1. i.op \in {"CALL", "CALLC"}
    BY <1>1
  <2> QED
    BY <1>4, <1>6, <2>1, EnterViews
<1>8. CurrentFrame' = [args |-> Words(n), locals |-> << >>, closure |-> 0]
  <2>1. sp \in Nat
    BY BodyTemps DEF Steps, Runs
  <2> QED
    BY <1>1, <1>2, <1>3, <1>7, <2>1, PendingNext
<1>9. Operands' = Machine!Below(n)
  BY <1>7 DEF Under, Machine!Below
<1>10. Machine!Enter(i.fn, n, n, 0)
  BY <1>3, <1>5, <1>7, <1>8, <1>9 DEF Machine!Enter
<1> QED
  BY <1>1, <1>2, <1>5, <1>10 DEF Machine!CALL

LEMMA ClosureCallImplements ==
  ASSUME NEW i, Steps(i), CALLC(i)
  PROVE  Machine!CALLC(i)
<1>1. /\ i.op = "CALLC" /\ isClosure' = TRUE /\ Runs(i)
      /\ i.n \in Nat /\ Uses(i) = i.n + 1 /\ Enter(store[Word(i.n + 1).a].tag)
  BY DEF CALLC, Steps, Runs, Emitted, Uses
<1>2. PICK n \in Nat, m \in Nat : n = i.n /\ m = n + 1
  BY <1>1
<1>3. PICK f : f = Word(m)
  OBVIOUS
<1>4. /\ ip' = Labeled(store[f.a].tag) /\ mem' = mem /\ sp' = sp
      /\ UNCHANGED <<store, out, outcome>>
  BY <1>1, <1>2, <1>3 DEF Enter
<1>5. HasKind(store, f, "closure") /\ n = ArgsAt(Labeled(store[f.a].tag))
  BY <1>1, <1>2, <1>3 DEF Runs, WellFormed
<1>6. m \in 0 .. Temps /\ \A k \in 1 .. m : Word(k) \in Plains(Len(store))
  <2>1. i.op # "STA" /\ m = Uses(i)
    BY <1>1, <1>2
  <2> QED
    BY <1>1, <2>1, Used
<1>7. n \in 0 .. Temps /\ m \in 1 .. Temps /\ m \in 1 .. m
      /\ \A k \in 1 .. n : k \in 1 .. m
  <2>1. PICK t \in Nat : t = Temps
    BY <1>1, BodyTemps DEF Runs
  <2>2. m <= t
    BY <1>6, <2>1
  <2> QED
    BY <1>2, <2>1, <2>2
<1>8. Machine!Has(m)
  BY <1>6, OperandsAre
<1>9. Machine!Operands(n) = Words(n)
  BY <1>6, <1>7, OperandsAre
<1>10. Operands[Len(Operands) - n] = f
  <2>1. /\ Len(Operands) \in Nat /\ Operands[Len(Operands) - m + 1] = Word(m)
    BY <1>6, <1>7, Operand
  <2>2. Len(Operands) - m + 1 = Len(Operands) - n
    <3>1. PICK l \in Nat : l = Len(Operands)
      BY <2>1
    <3>2. m \in Nat /\ n \in Nat /\ m = n + 1
      BY <1>2
    <3>3. l - m + 1 = l - n
      BY <3>1, <3>2
    <3> QED
      BY <3>1, <3>3
  <2> QED
    BY <1>3, <2>1, <2>2
<1>11. m = ArgsAt(ip') + Truth(isClosure')
  <2>1. Truth(isClosure') = 1
    BY <1>1 DEF Truth
  <2> QED
    BY <1>2, <1>4, <1>5, <2>1
<1>12. /\ Callers' = Append(Callers, [ret |-> Following(ip), loc |-> CurrentFrame])
       /\ Operands' = Under(m) /\ GlobalValues' = GlobalValues
       /\ CurrentFrame' = PendingFrame'
  <2>1. i.op \in {"CALL", "CALLC"}
    BY <1>1
  <2> QED
    BY <1>6, <1>11, <2>1, EnterViews
<1>13. CurrentFrame' = [args |-> Words(n), locals |-> << >>, closure |-> f.a]
  <2>1. sp \in Nat
    BY BodyTemps DEF Steps, Runs
  <2>2. n = ArgsAt(ip')
    BY <1>4, <1>5
  <2>3. PendingFrame' = [args |-> Words(n), locals |-> << >>,
                         closure |-> IF isClosure' THEN Word(n + 1).a ELSE 0]
    BY <1>4, <2>1, <2>2, PendingNext
  <2>4. Word(n + 1) = f /\ isClosure'
    BY <1>1, <1>2, <1>3
  <2> QED
    BY <1>12, <2>3, <2>4
<1>14. Operands' = Machine!Below(m)
  BY <1>12 DEF Under, Machine!Below
<1>15. Machine!Enter(store[f.a].tag, m, n, f.a)
  BY <1>4, <1>9, <1>12, <1>13, <1>14 DEF Machine!Enter
<1>16. Machine!HasKind(store, f, "closure")
  BY <1>5 DEF Machine!HasKind, HasKind, Machine!IsObj, IsObj
<1> QED
  BY <1>1, <1>2, <1>8, <1>10, <1>15, <1>16 DEF Machine!CALLC

(* A function begins: the words pending are its frame's, and it has no     *)
(* temporaries.                                                            *)
LEMMA BeginTemps ==
  ASSUME RunIInv, NEW i \in Code[ip], Fits(i), BEGIN(i), NEW E \in Nat, E = Depth + 1
  PROVE  /\ \A k \in 1 .. Depth : FrameOf(k)' = FrameOf(k) /\ TempsOf(k)' = TempsOf(k)
         /\ TempsOf(E)' = << >>
         /\ \A c \in sp + 1 .. MemSize - 1 : mem'[c] = mem[c]
<1>1. Depth \in Nat /\ sp \in Nat
  BY DepthFacts, Sizes DEF RunIInv, ControlOK
<1>3. PICK low \in Nat, top \in Nat : low = sp - i.locals /\ top = sp /\ low <= top
  BY <1>1, BeginShape
<1>4. /\ mem' = [c \in Memory |-> IF c \in low + 1 .. top THEN EmptyBox ELSE mem[c]]
      /\ sp' = low
  BY <1>3 DEF BEGIN
<1>5. /\ Depth' = E /\ ~AtEntry'
      /\ \A k \in 1 .. Depth : Stays(k)
      /\ FirstTemp(E)' = low /\ Pending \in Nat
      /\ Depth # 0 => Above(E)' = top + Pending + 1
  BY <1>3, BeginShape DEF Stays
<1>6. \A c \in top + 1 .. MemSize - 1 : mem'[c] = mem[c]
  <2>1. \A c \in top + 1 .. MemSize - 1 : c \in Memory /\ c \notin low + 1 .. top
    BY Sizes
  <2> QED
    BY <1>4, <2>1
<1>7. ASSUME NEW k \in 1 .. Depth
      PROVE  FrameOf(k)' = FrameOf(k) /\ TempsOf(k)' = TempsOf(k)
  <2>1. Stays(k)
    BY <1>5
  <2>2. /\ LastTemp(k) \in Int /\ FirstTemp(k) \in Int /\ top < LastTemp(k)
        /\ FirstTemp(k) < Globals /\ top <= FirstTemp(k)
        /\ k = Depth => LastTemp(k) = top + 1 + Pending
        /\ Edge(k) \in Int /\ Edge(k) < Globals
    BY <1>3, TempsRange, FrameFacts
  <2>3. LastTemp(k)' = LastTemp(k)
    <3>1. k < Depth'
      BY <1>1, <1>5
    <3>2. CASE k = Depth
      <4>1. LastTemp(k)' = Above(E)'
        BY <3>1, <3>2 DEF LastTemp
      <4> QED
        BY <1>1, <1>3, <1>5, <2>2, <3>2, <4>1
    <3>3. CASE k # Depth
      <4>1. k + 1 \in 1 .. Depth /\ k < Depth
        BY <1>1, <3>3
      <4>2. Above(k + 1)' = Above(k + 1)
        BY <1>5, <4>1, AboveStays
      <4> QED
        BY <3>1, <4>1, <4>2 DEF LastTemp
    <3> QED
      BY <3>2, <3>3
  <2>4. PICK last \in Int, first \in Int, edge \in Int, g \in Int, ms \in Int :
          /\ last = LastTemp(k) /\ first = FirstTemp(k) /\ edge = Edge(k)
          /\ g = Globals /\ ms = MemSize /\ g <= ms
    BY <2>2, Sizes
  <2>5. /\ \A c \in last .. first : c \in top + 1 .. ms - 1
        /\ \A c \in first + 1 .. edge : c \in top + 1 .. ms - 1
    BY <2>2, <2>4
  <2>6. /\ \A c \in LastTemp(k) .. FirstTemp(k) : mem'[c] = mem[c]
        /\ \A c \in FirstTemp(k) + 1 .. Edge(k) : mem'[c] = mem[c]
    BY <1>6, <2>4, <2>5
  <2> QED
    BY <2>1, <2>3, <2>6, FrameView, TempsView
<1>8. TempsOf(E)' = << >>
  <2>1. ~(E < Depth')
    BY <1>5
  <2>2. LastTemp(E)' = low + 1
    BY <1>4, <1>5, <2>1 DEF LastTemp
  <2>3. FirstTemp(E)' - LastTemp(E)' + 1 = 0
    BY <1>5, <2>2
  <2>4. PICK m, f, o, first : TempsOf(E)' = TempsIn(m, f, o, first, 0)
    BY <2>3, Views
  <2> QED
    BY <2>4 DEF TempsIn
<1> QED
  BY <1>3, <1>6, <1>7, <1>8

LEMMA BeginFrame ==
  ASSUME RunIInv, NEW i \in Code[ip], Fits(i), BEGIN(i)
  PROVE  CurrentFrame' =
           [CurrentFrame EXCEPT !.locals = [k \in 1 .. i.locals |-> EmptyBox]]
<1>1. Depth \in Nat /\ sp \in Nat /\ AtEntry /\ ip \in Heads /\ isClosure \in BOOLEAN
      /\ (Depth = 0 => ~isClosure) /\ Len(calls) = 5 * Depth
  <2>1. AtEntry
    BY Here DEF BEGIN
  <2> QED
    BY <2>1, DepthFacts, Sizes DEF RunIInv, ControlOK
<1>2. PICK E \in Nat : E = Depth + 1
  BY <1>1
<1>3. PICK n \in Nat, s \in Nat, top \in Nat :
        n = i.n /\ n = ArgsAt(ip) /\ s = i.locals /\ top = sp
  BY <1>1, HeadFacts
<1>4. /\ Depth' = E /\ ~AtEntry'
      /\ Frame(E)' = [fp |-> top, args |-> n, locals |-> s]
      /\ OfClosure(E)' = isClosure /\ Len(calls') = 5 * Depth + 4
      /\ Pending = n + Truth(isClosure) /\ top - s \in 1 .. top
  BY <1>2, <1>3, BeginShape
<1>5. PICK l, m : l = mem' /\ m = mem
  OBVIOUS
<1>6. l = [c \in Memory |-> IF c \in top - s + 1 .. top THEN EmptyBox ELSE m[c]]
  BY <1>3, <1>5 DEF BEGIN
<1> DEFINE ls == [k \in 1 .. s |-> EmptyBox]
<1>11. \A a, c : [[args |-> a, locals |-> << >>, closure |-> c]
                    EXCEPT !.locals = [k \in 1 .. i.locals |-> EmptyBox]]
                  = [args |-> a, locals |-> ls, closure |-> c]
  <2>1. [k \in 1 .. i.locals |-> EmptyBox] = ls
    BY <1>3
  <2> HIDE DEF ls
  <2>2. \A a, c, x : [[args |-> a, locals |-> << >>, closure |-> c] EXCEPT !.locals = x]
                       = [args |-> a, locals |-> x, closure |-> c]
    OBVIOUS
  <2> QED
    BY <2>1, <2>2, Zenon
<1>7. CurrentFrame' = FrameIn(l, E, [fp |-> top, args |-> n, locals |-> s], isClosure)
  <2>1. PICK d \in Nat : d = Depth
    BY <1>1
  <2>5. Len(calls') = 5 * d + 4
    BY <1>4, <2>1
  <2>2. calls' # << >>
    <3>1. 5 * d + 4 # 0
      OBVIOUS
    <3> QED
      BY <2>5, <3>1
  <2>3. CurrentFrame' = FrameOf(E)'
    BY <1>4, <2>2, CurrentFrameNext
  <2>4. FrameOf(E)' = FrameIn(mem', E, Frame(E)', OfClosure(E)')
    BY Views
  <2> QED
    BY <1>4, <1>5, <2>3, <2>4
<1>8. Segment(l, top, s) = [k \in 1 .. s |-> EmptyBox]
  <2>1. top < Globals
    BY <1>3, Sizes DEF RunIInv, ControlOK
  <2>2. ASSUME NEW k \in 1 .. s PROVE l[top - k + 1] = EmptyBox
    <3>1. top - k + 1 \in top - s + 1 .. top /\ top - k + 1 \in Memory
      BY <1>4, <2>1, Sizes
    <3> QED
      BY <1>6, <3>1
  <2> QED
    BY <2>2 DEF Segment
<1>9. CASE Depth = 0
  <2>1. calls = << >> /\ E = 1 /\ ~isClosure
    <3>1. calls \in Seq(CallWords) /\ Len(calls) = 0
      BY <1>1, <1>9 DEF RunIInv, ControlOK
    <3>2. calls = << >>
      BY <3>1
    <3> QED
      BY <1>1, <1>2, <1>9, <3>2
  <2>2. CurrentFrame = [args |-> << >>, locals |-> << >>, closure |-> 0]
    BY <2>1 DEF CurrentFrame
  <2>3. CurrentFrame' = [args |-> << >>, locals |-> [k \in 1 .. s |-> EmptyBox],
                         closure |-> 0]
    BY <1>7, <1>8, <2>1 DEF FrameIn
  <2> QED
    BY <1>11, <2>2, <2>3
<1>10. CASE Depth # 0
  <2>1. calls # << >> /\ E # 1
    <3>1. PICK d \in Nat : d = Depth /\ d # 0
      BY <1>1, <1>10
    <3>2. Len(calls) = 5 * d /\ E = d + 1
      BY <1>1, <1>2, <3>1
    <3>3. 5 * d # 0 /\ d + 1 # 1
      BY <3>1
    <3>4. calls # << >>
      BY <3>2, <3>3
    <3> QED
      BY <3>2, <3>3, <3>4
  <2>2. CurrentFrame = [args |-> Down(top + n, n), locals |-> << >>,
                        closure |-> IF isClosure THEN m[top + n + 1].a ELSE 0]
    <3>1. CurrentFrame = PendingFrame
      BY <1>1, <2>1 DEF CurrentFrame
    <3> QED
      BY <1>3, <1>5, <3>1 DEF PendingFrame
  <2>3. Down(top + n, n) = Segment(m, top + n, n)
    BY <1>5 DEF Down, Segment
  <2>4. PICK t \in 0 .. 1 : t = Truth(isClosure) /\ (isClosure => t = 1)
    BY DEF Truth
  <2>5. top + n + t < Globals
    <3>1. Depth \in 1 .. Depth
      BY <1>1, <1>10
    <3>2. /\ LastTemp(Depth) = sp + 1 + Pending /\ LastTemp(Depth) <= FirstTemp(Depth) + 1
          /\ FirstTemp(Depth) < Globals /\ FirstTemp(Depth) \in Int
      BY <3>1, TempsRange
    <3>3. Pending = n + t
      BY <1>4, <2>4
    <3>4. PICK first \in Int, g \in Nat : first = FirstTemp(Depth) /\ g = Globals
      BY <3>2, Sizes
    <3>5. first < g
      BY <3>2, <3>4
    <3>6. top + 1 + (n + t) <= first + 1
      BY <1>3, <3>2, <3>3, <3>4
    <3>7. top + n + t < g
      BY <3>5, <3>6
    <3> QED
      BY <3>4, <3>7
  <2>6. \A c \in top + 1 .. top + n + t : l[c] = m[c]
    <3>1. \A c \in top + 1 .. top + n + t :
            c \in Memory /\ c \notin top - s + 1 .. top
      BY <1>4, <2>5, Sizes
    <3> QED
      BY <1>6, <3>1
  <2>7. Segment(l, top + n, n) = Segment(m, top + n, n)
    <3>1. PICK c \in Nat : c = top + n
      OBVIOUS
    <3>2. \A x \in c - n + 1 .. c : x \in top + 1 .. top + n + t
      BY <3>1
    <3>3. \A x \in c - n + 1 .. c : l[x] = m[x]
      BY <2>6, <3>2
    <3> QED
      BY <3>1, <3>3, SegmentStays
  <2>8. isClosure => l[top + n + 1] = m[top + n + 1]
    <3>1. t = 1 => top + n + 1 \in top + 1 .. top + n + t
      OBVIOUS
    <3> QED
      BY <2>4, <2>6, <3>1
  <2>9. CurrentFrame' = [args    |-> Segment(m, top + n, n),
                         locals  |-> [k \in 1 .. s |-> EmptyBox],
                         closure |-> IF isClosure THEN m[top + n + 1].a ELSE 0]
    BY <1>7, <1>8, <2>1, <2>7, <2>8 DEF FrameIn
  <2> QED
    BY <1>11, <2>2, <2>3, <2>9
<1> QED
  BY <1>9, <1>10

LEMMA BeginImplements ==
  ASSUME RunIInv, RunIInv', outcome = "running", outcome' = "running",
         NEW i \in Code[ip], Fits(i), BEGIN(i)
  PROVE  Machine!BEGIN(i)
<1>1. Depth \in Nat
  BY DepthFacts DEF RunIInv
<1>2. PICK d \in Nat, E \in Nat : d = Depth /\ E = d + 1 /\ d = E - 1 /\ E # 0
  BY <1>1
<1>3. /\ AtEntry /\ Depth' = E /\ ~AtEntry'
      /\ \A j \in 1 .. 5 * Depth : calls'[j] = calls[j]
  BY <1>2, BeginShape
<1>4. /\ \A k \in 1 .. d : FrameOf(k)' = FrameOf(k) /\ TempsOf(k)' = TempsOf(k)
      /\ TempsOf(E)' = << >>
      /\ \A c \in sp + 1 .. MemSize - 1 : mem'[c] = mem[c]
  BY <1>2, BeginTemps
<1>5. outcome # "ended" /\ outcome' # "ended"
  OBVIOUS
<1>6. Callers' = Callers
  <2>1. \A k \in 1 .. d : calls'[5 * k] = calls[5 * k]
    <3>1. \A k \in 1 .. d : 5 * k \in 1 .. 5 * d
      OBVIOUS
    <3> QED
      BY <1>2, <1>3, <3>1
  <2>2. Frames(d)' = Frames(d)
    BY <1>4, <2>1, OuterFrames
  <2>3. Callers = Frames(d)
    BY <1>2, <1>3 DEF Callers, Frames
  <2>4. Callers' = Frames(d)'
    BY <1>2, <1>3, CallersNext
  <2> QED
    BY <2>2, <2>3, <2>4
<1>7. Operands' = Operands
  <2>1. /\ Operands' = Beneath' \o TempsOf(E)' /\ Beneath' \in Seq(Values)
    BY <1>2, <1>3, <1>5, SplitNext
  <2>2. Beneath' = FlattenSeq(Stacks(d)')
    BY <1>2, <1>3, BeneathNext
  <2>3. FlattenSeq(Stacks(d)') = FlattenSeq(Stacks(d))
    BY <1>4, StacksStay
  <2>4. Operands = FlattenSeq(Stacks(d))
    BY <1>2, <1>5 DEF Operands, Stacks
  <2>5. PICK b : b = Beneath'
    OBVIOUS
  <2>6. b \o << >> = b
    BY <2>1, <2>5
  <2> QED
    BY <1>4, <2>1, <2>2, <2>3, <2>4, <2>5, <2>6
<1>8. GlobalValues' = GlobalValues
  <2>1. \A c \in Globals .. MemSize - 1 : c \in sp + 1 .. MemSize - 1
    BY Sizes DEF RunIInv, ControlOK
  <2> QED
    BY <1>4, <1>5, <2>1, GlobalsView
<1>9. CurrentFrame' = [CurrentFrame EXCEPT !.locals = [k \in 1 .. i.locals |-> EmptyBox]]
  BY BeginFrame
<1>10. i.op = "BEGIN" /\ ip' = Following(ip) /\ UNCHANGED <<store, out, outcome>>
  BY DEF BEGIN
<1>11. Machine!Advance
  BY <1>6, <1>10 DEF Machine!Advance
<1> QED
  BY <1>7, <1>8, <1>9, <1>10, <1>11 DEF Machine!BEGIN

(* A function returns: its value becomes the last of its caller's          *)
(* temporaries.                                                            *)
LEMMA ReturnTemps ==
  ASSUME NEW i, Runs(i), END(i), Depth # 1, NEW m \in Nat, m = Depth - 1
  PROVE  /\ \A k \in 1 .. m - 1 : FrameOf(k)' = FrameOf(k) /\ TempsOf(k)' = TempsOf(k)
         /\ FrameOf(m)' = FrameOf(m)
         /\ TempsOf(m)' = Append(TempsOf(m), Word(1))
         /\ TempsOf(m) \in Seq(Values) /\ Word(1) \in Values
         /\ \A c \in Globals .. MemSize - 1 : mem'[c] = mem[c]
<1>1. /\ RunIInv /\ Depth \in Nat \ {0, 1} /\ Len(store) \in Nat
      /\ Word(1) \in Plains(Len(store))
  BY EndFacts DEF Runs, RunIInv, StoreOK
<1>2. PICK e \in Nat, g \in Nat, ms \in Nat :
        e = Edge(Depth) /\ g = Globals /\ ms = MemSize /\ e < g /\ g <= ms
  BY ReturnShape, Sizes
<1>3. /\ m # 0 /\ Depth' = m /\ ~AtEntry' /\ sp < e /\ sp' = e - 1
      /\ \A k \in 1 .. m : Stays(k)
      /\ mem' = [c \in Memory |-> IF c = e THEN Word(1)
                                  ELSE IF sp < c /\ c < e /\ c < Globals THEN Junk
                                  ELSE mem[c]]
  BY <1>2, ReturnShape DEF Stays
<1>4. \A c \in e + 1 .. ms - 1 : mem'[c] = mem[c]
  <2>1. \A c \in e + 1 .. ms - 1 : c \in 0 .. ms + 1 /\ c # e /\ ~(c < e)
    OBVIOUS
  <2>2. Memory = 0 .. ms + 1
    BY <1>2, Sizes
  <2> QED
    BY <1>3, <2>1, <2>2
<1>5. mem'[e] = Word(1)
  <2>1. e \in Memory
    BY <1>2, Sizes
  <2> QED
    BY <1>3, <2>1
<1>6. /\ \A c \in e + 1 .. g - 1 : mem'[c] = mem[c]
      /\ \A c \in g .. ms - 1 : mem'[c] = mem[c]
  <2>1. /\ \A c \in e + 1 .. g - 1 : c \in e + 1 .. ms - 1
        /\ \A c \in g .. ms - 1 : c \in e + 1 .. ms - 1
    BY <1>2
  <2> QED
    BY <1>4, <2>1
<1>7. PICK d \in Nat : d = Depth /\ d = m + 1 /\ m = d - 1 /\ d \in 1 .. Depth
  BY <1>1
<1>8. ASSUME NEW k \in 1 .. m - 1
      PROVE  FrameOf(k)' = FrameOf(k) /\ TempsOf(k)' = TempsOf(k)
  <2>1. k \in 1 .. d - 1 /\ k \in 1 .. m /\ k + 1 \in 1 .. m /\ k < m /\ k < d
    BY <1>7
  <2>2. Stays(k) /\ Above(k + 1)' = Above(k + 1)
    BY <1>3, <2>1, AboveStays
  <2>3. LastTemp(k)' = LastTemp(k)
    BY <1>3, <1>7, <2>1, <2>2 DEF LastTemp
  <2>4. \A c \in Edge(d) + 1 .. Globals - 1 : mem'[c] = mem[c]
    BY <1>2, <1>6, <1>7
  <2> QED
    BY <1>1, <1>7, <2>1, <2>2, <2>3, <2>4, OuterViews
<1>9. m \in 1 .. Depth /\ m \in 1 .. m /\ m < Depth /\ Stays(m) /\ m + 1 = Depth
  <2>1. m \in 1 .. d /\ m \in 1 .. m /\ m < d
    BY <1>3, <1>7
  <2> QED
    BY <1>3, <1>7, <2>1
<1>10. PICK first \in Int, last \in Int, edge \in Int :
         /\ first = FirstTemp(m) /\ last = LastTemp(m) /\ edge = Edge(m)
         /\ first < g /\ edge < g /\ last = e + 1 /\ last <= first + 1
  <2>1. /\ FirstTemp(m) \in Int /\ LastTemp(m) \in Int /\ Edge(m) \in Int
        /\ FirstTemp(m) < g /\ Edge(m) < g
        /\ LastTemp(m) = e + 1 /\ LastTemp(m) <= FirstTemp(m) + 1
    BY <1>1, <1>2, <1>9, TempsRange, FrameFacts
  <2> QED
    BY <2>1
<1>11. FrameOf(m)' = FrameOf(m)
  <2>1. \A c \in first + 1 .. edge : c \in e + 1 .. g - 1
    BY <1>10
  <2>2. \A c \in FirstTemp(m) + 1 .. Edge(m) : mem'[c] = mem[c]
    BY <1>6, <1>10, <2>1
  <2> QED
    BY <1>1, <1>9, <2>2, FrameView
<1>12. TempsOf(m) \in Seq(Values)
  BY <1>1, <1>9, TempsType
<1>13. /\ Word(1) \in Storable(Len(store)) /\ Value(m, Word(1)) = Word(1)
       /\ Word(1) \in Values
  <2>1. Word(1) \in Storable(Len(store)) /\ ~IsAddress(Word(1))
    BY <1>1, PlainWords
  <2> QED
    BY <1>1, <1>9, <2>1, ValueType
<1>14. TempsOf(m)' = Append(TempsOf(m), Word(1))
  <2>1. ~(m < Depth')
    BY <1>3
  <2>2. LastTemp(m)' = sp' + 1
    BY <1>1, <1>3, <2>1 DEF LastTemp
  <2>3. LastTemp(m) + 0 - 1 = e
    BY <1>10
  <2>4. LastTemp(m)' = LastTemp(m) + 0 - 1 /\ mem'[LastTemp(m) + 0 - 1] = Word(1)
    BY <1>3, <1>5, <2>2, <2>3
  <2>5. 0 \in 0 .. FirstTemp(m) - LastTemp(m) + 1
    <3>1. 0 \in 0 .. first - last + 1
      BY <1>10
    <3> QED
      BY <1>10, <3>1
  <2>6. \A c \in LastTemp(m) + 0 .. FirstTemp(m) : mem'[c] = mem[c]
    <3>1. \A c \in last + 0 .. first : c \in e + 1 .. g - 1
      BY <1>10
    <3> QED
      BY <1>6, <1>10, <3>1
  <2>7. TempsOf(m)' = Append(SubSeq(TempsOf(m), 1, Len(TempsOf(m)) - 0),
                             Value(m, Word(1)))
    BY <1>1, <1>9, <1>13, <2>4, <2>5, <2>6, TempsMove
  <2>8. PICK t \in Seq(Values) : t = TempsOf(m)
    BY <1>12
  <2>9. SubSeq(t, 1, Len(t) - 0) = t
    <3>1. PICK l \in Nat : l = Len(t) /\ l - 0 = l /\ l \in 0 .. Len(t)
      OBVIOUS
    <3>2. PICK c : c = SubSeq(t, 1, l)
      OBVIOUS
    <3>3. c \in Seq(Values) /\ Len(c) = l /\ \A j \in 1 .. l : c[j] = t[j]
      BY <3>1, <3>2, Cut
    <3>4. c = t
      BY <3>1, <3>3, SeqEqual
    <3> QED
      BY <3>1, <3>2, <3>4
  <2> QED
    BY <1>13, <2>7, <2>8, <2>9
<1> QED
  BY <1>2, <1>6, <1>8, <1>11, <1>12, <1>13, <1>14

(* A frame with one temporary.                                             *)
LEMMA LastValue ==
  ASSUME NEW i, Runs(i), END(i)
  PROVE  TempsOf(Depth) = <<Word(1)>>
<1>1. /\ RunIInv /\ ~AtEntry /\ Temps = 1 /\ Len(store) \in Nat
      /\ Word(1) \in Plains(Len(store))
  BY EndFacts DEF Runs, END, StackDiscipline, RunIInv, StoreOK
<1>2. /\ Depth \in 1 .. Depth /\ sp \in Nat /\ FirstTemp(Depth) \in Int
      /\ Temps = FirstTemp(Depth) - sp /\ Len(TempsOf(Depth)) = Temps
  BY <1>1, BodyTemps
<1>3. PICK t \in Seq(Values), first \in Int, low \in Int :
        t = TempsOf(Depth) /\ first = FirstTemp(Depth) /\ low = sp
  <2>1. TempsOf(Depth) \in Seq(Values)
    BY <1>1, <1>2, TempsType
  <2>2. FirstTemp(Depth) \in Int /\ sp \in Int
    BY <1>2
  <2> HIDE DEF Values
  <2> QED
    BY <2>1, <2>2
<1>4. first - low = 1 /\ Len(t) = 1 /\ 1 \in 1 .. Len(t)
  <2>1. Temps = first - low /\ Len(t) = Temps
    BY <1>2, <1>3
  <2>2. first - low = 1 /\ Len(t) = 1
    BY <1>1, <2>1
  <2> QED
    BY <2>2
<1>5. t[1] = Value(Depth, mem[first - 1 + 1])
  BY <1>1, <1>2, <1>3, <1>4, TempsType
<1>6. first - 1 + 1 = low + 1
  BY <1>4
<1>7. Value(Depth, Word(1)) = Word(1)
  BY <1>1, PlainWords DEF Value
<1>8. t[1] = Word(1)
  BY <1>3, <1>5, <1>6, <1>7 DEF Word
<1>9. t = <<t[1]>>
  BY <1>4
<1> QED
  BY <1>3, <1>8, <1>9

LEMMA ReturnImplements ==
  ASSUME NEW i, Steps(i), END(i), Depth # 1
  PROVE  Machine!END(i)
<1>1. /\ Runs(i) /\ RunIInv /\ RunIInv' /\ ~AtEntry
      /\ outcome # "ended" /\ outcome' # "ended"
  BY DEF Steps, Runs
<1>2. /\ Depth \in Nat \ {0, 1} /\ ip' = calls[5 * Depth - 5]
      /\ UNCHANGED <<store, outcome>>
  BY <1>1, EndFacts
<1>3. PICK d \in Nat, m \in Nat, n \in Nat :
        d = Depth /\ m = d - 1 /\ n = m - 1 /\ m # 0 /\ d = m + 1 /\ m = n + 1
  BY <1>2
<1>4. /\ Depth' = m /\ ~AtEntry' /\ Len(calls') = 5 * m - 1
      /\ \A j \in 1 .. 5 * m - 1 : calls'[j] = calls[j]
  BY <1>1, <1>3, ReturnShape
<1>5. /\ \A k \in 1 .. n : FrameOf(k)' = FrameOf(k) /\ TempsOf(k)' = TempsOf(k)
      /\ FrameOf(m)' = FrameOf(m)
      /\ TempsOf(m)' = Append(TempsOf(m), Word(1))
      /\ TempsOf(m) \in Seq(Values) /\ Word(1) \in Values
      /\ \A c \in Globals .. MemSize - 1 : mem'[c] = mem[c]
  BY <1>1, <1>3, ReturnTemps
<1>6. /\ Callers' = SubSeq(Callers, 1, Len(Callers) - 1) /\ Callers # << >>
      /\ Callers[Len(Callers)] = [ret |-> calls[5 * m], loc |-> FrameOf(m)]
  <2>1. \A k \in 1 .. n : calls'[5 * k] = calls[5 * k]
    <3>1. \A k \in 1 .. n : 5 * k \in 1 .. 5 * m - 1
      BY <1>3
    <3> QED
      BY <1>4, <3>1
  <2>2. Callers = Frames(m)
    BY <1>1, <1>3 DEF Callers, Frames
  <2>3. Callers' = Frames(n)'
    BY <1>3, <1>4, CallersNext
  <2> QED
    BY <1>3, <1>5, <2>1, <2>2, <2>3, FramesShrink
<1>7. ip' = calls[5 * m]
  <2>1. 5 * d - 5 = 5 * m
    BY <1>3
  <2> QED
    BY <1>2, <1>3, <2>1
<1>8. CurrentFrame' = FrameOf(m)
  <2>1. 5 * m - 1 # 0
    BY <1>3
  <2>2. calls' # << >>
    BY <1>4, <2>1
  <2>3. CurrentFrame' = FrameOf(m)'
    BY <1>4, <2>2, CurrentFrameNext
  <2> QED
    BY <1>5, <2>3
<1>9. GlobalValues' = GlobalValues
  BY <1>1, <1>5, GlobalsView
<1>10. Operands' = Operands
  <2>1. PICK s, b, t, w : /\ s = Stacks(m) /\ b = FlattenSeq(Stacks(n))
                          /\ t = TempsOf(m) /\ w = Word(1)
    OBVIOUS
  <2>2. s = [k \in 1 .. n + 1 |-> TempsOf(k)]
    BY <1>3, <2>1 DEF Stacks
  <2>3. \A k \in 1 .. n + 1 : TempsOf(k) \in Seq(Values)
    <3>1. \A k \in 1 .. n + 1 : k \in 1 .. d
      BY <1>3
    <3> QED
      BY <1>1, <1>3, <3>1, TempsType
  <2>4. s \in [1 .. n + 1 -> Seq(Values)]
    BY <2>2, <2>3
  <2>5. /\ FlattenSeq(s) = FlattenSeq([k \in 1 .. n |-> s[k]]) \o s[n + 1]
        /\ FlattenSeq([k \in 1 .. n |-> s[k]]) \in Seq(Values)
    BY <2>4, Flattened
  <2>6. [k \in 1 .. n |-> s[k]] = Stacks(n)
    <3>1. \A k \in 1 .. n : k \in 1 .. n + 1
      OBVIOUS
    <3> QED
      BY <2>2, <3>1 DEF Stacks
  <2>7. s[n + 1] = t
    <3>1. n + 1 \in 1 .. n + 1 /\ n + 1 = m
      BY <1>3
    <3> QED
      BY <2>1, <2>2, <3>1
  <2>8. FlattenSeq(s) = b \o t /\ b \in Seq(Values)
    BY <2>1, <2>5, <2>6, <2>7
  <2>9. Operands = (b \o t) \o <<w>>
    <3>1. Operands = Beneath \o TempsOf(Depth)
      BY <1>1, <1>2, Split
    <3>2. Beneath = FlattenSeq(s)
      BY <1>3, <2>1 DEF Beneath
    <3>3. TempsOf(Depth) = <<w>>
      BY <1>1, <2>1, LastValue
    <3> QED
      BY <2>8, <3>1, <3>2, <3>3
  <2>10. Operands' = b \o Append(t, w)
    <3>1. Operands' = Beneath' \o TempsOf(m)'
      BY <1>1, <1>3, <1>4, SplitNext
    <3>2. Beneath' = FlattenSeq(Stacks(n)')
      BY <1>3, <1>4, BeneathNext
    <3>3. FlattenSeq(Stacks(n)') = b
      BY <1>5, <2>1, StacksStay
    <3> QED
      BY <1>5, <2>1, <3>1, <3>2, <3>3
  <2>11. t \in Seq(Values) /\ w \in Values /\ <<w>> \in Seq(Values)
    <3>1. t \in Seq(Values) /\ w \in Values
      BY <1>5, <2>1
    <3> HIDE DEF Values
    <3> QED
      BY <3>1
  <2>12. Append(t, w) = t \o <<w>>
    BY <2>11, AppendIsConcat
  <2>13. b \o (t \o <<w>>) = (b \o t) \o <<w>>
    BY <2>8, <2>11, ConcatAssociative
  <2> QED
    BY <2>9, <2>10, <2>12, <2>13, Zenon
<1>11. i.op = "END" /\ UNCHANGED out
  BY DEF END
<1> QED
  BY <1>2, <1>6, <1>7, <1>8, <1>9, <1>10, <1>11 DEF Machine!END

(* The program ends: what is left is its result.                           *)
LEMMA EndImplements ==
  ASSUME NEW i, Runs(i), END(i), Depth = 1, outcome = "running"
  PROVE  Machine!END(i)
<1>1. /\ RunIInv /\ ~AtEntry /\ FrameOK(1) /\ Depth \in 1 .. Depth
      /\ i.op = "END" /\ UNCHANGED <<store, out>>
  BY EndFacts, BodyTemps DEF Runs, RunIInv, END
<1>2. calls' = << >> /\ outcome' = "ended" /\ ip' = ip
  BY EndFacts
<1>3. PICK e \in Nat :
        /\ e = fp + nArgs + Truth(OfClosure(Depth)) /\ sp < e /\ sp' = e - 1
        /\ mem' = [c \in Memory |-> IF c = e THEN Word(1)
                                    ELSE IF sp < c /\ c < e /\ c < Globals THEN Junk
                                    ELSE mem[c]]
  BY EndFacts
<1>4. /\ fp \in Nat /\ nArgs \in Nat
      /\ Frame(Depth) = [fp |-> fp, args |-> nArgs, locals |-> nLocals]
  BY <1>1, BodyFacts
<1>5. fp = Globals - 1 /\ nArgs <= 2 /\ Truth(OfClosure(Depth)) = 0
  BY <1>1, <1>4 DEF FrameOK, Truth
<1>6. e <= Globals + 1 /\ e \in Memory
  <2>1. PICK g \in Nat, n \in Nat, ms \in Nat :
          /\ g = Globals /\ n = nArgs /\ ms = MemSize /\ g <= ms /\ 2 <= g /\ n <= 2
    BY <1>4, <1>5, Sizes
  <2>2. e = (g - 1) + n + 0
    BY <1>3, <1>5, <2>1
  <2>3. e <= g + 1 /\ e \in 0 .. ms + 1
    BY <2>1, <2>2
  <2> QED
    BY <2>1, <2>3, Sizes
<1>7. mem'[sp' + 1] = Word(1)
  <2>1. sp' + 1 = e
    BY <1>3
  <2> QED
    BY <1>3, <1>6, <2>1
<1>8. Operands' = <<Word(1)>>
  BY <1>2, <1>7 DEF Operands
<1>9. Operands = <<Word(1)>>
  <2>1. Operands = Beneath \o TempsOf(Depth) /\ Beneath \in Seq(Values)
        /\ TempsOf(Depth) \in Seq(Values)
    BY <1>1, Split
  <2>2. Stacks(Depth - 1) = << >>
    BY DEF Stacks
  <2>3. Beneath = << >>
    BY <2>2 DEF Beneath, FlattenSeq
  <2>4. PICK t : t = TempsOf(Depth)
    OBVIOUS
  <2>5. << >> \o t = t
    BY <2>1, <2>4
  <2> QED
    BY <2>1, <2>3, <2>4, <2>5, LastValue
<1>10. Callers = << >>
  BY <1>1 DEF Callers
<1>11. Callers' = << >>
  <2>1. Len(calls') = 0
    BY <1>2
  <2>2. Depth' = 0 /\ AtEntry'
    BY <2>1 DEF Depth, AtEntry
  <2> QED
    BY <2>2 DEF Callers
<1>12. CurrentFrame' = Machine!NoFrame /\ GlobalValues' = << >>
  BY <1>2 DEF CurrentFrame, GlobalValues, Machine!NoFrame
<1> QED
  BY <1>1, <1>2, <1>8, <1>9, <1>10, <1>11, <1>12 DEF Machine!END
-----------------------------------------------------------------------------
(* Every step of the interpreter is one of the machine, or changes nothing *)
(* the machine sees.                                                       *)

(* An instruction after which the program still runs.                      *)
LEMMA ExecuteImplements ==
  ASSUME AsciiOnly, NumbersApart,
         NEW i, Steps(i), OwnIInv, Execute(i), ~FAIL(i), ~BEGIN(i),
         END(i) => Depth # 1
  PROVE  Machine!Eval(i)
<1>1. SexpTags(store) /\ StringsOK(store)
  BY DEF OwnIInv
<1>2. CASE LD(i) \/ LDA(i) \/ ST(i) \/ STA(i)
  <2>1. Machine!Variables(i)
    BY <1>2, LoadImplements, StoreImplements, AssignmentImplements, Zenon
       DEF Machine!Variables
  <2> QED
    BY <2>1, Zenon DEF Machine!Eval
<1>3. CASE CONST(i) \/ DUP(i) \/ READ(i)
  BY <1>3, PushImplements, Zenon DEF Machine!Eval, Machine!Scalars, Machine!Objects
<1>4. CASE BINOP(i)
  BY <1>4, BinopImplements, Zenon DEF Machine!Eval, Machine!Scalars
<1>5. CASE DROP(i) \/ CJMP(i)
  BY <1>5, DropImplements, Zenon DEF Machine!Eval, Machine!Scalars, Machine!Control
<1>6. CASE BSTRING(i) \/ BCLOSURE(i)
  BY <1>6, StringImplements, ClosureImplements, Zenon DEF Machine!Eval, Machine!Objects
<1>7. CASE BSEXP(i) \/ BARRAY(i)
  BY <1>7, ConstructorImplements, Zenon DEF Machine!Eval, Machine!Objects
<1>8. CASE ELEM(i) \/ LENGTH(i) \/ WRITE(i)
  BY <1>1, <1>8, ObjectImplements, Zenon DEF Machine!Eval, Machine!Objects
<1>9. CASE TAG(i) \/ ARRAY(i) \/ PATT(i)
  BY <1>1, <1>9, TagImplements, ArrayImplements, PatternImplements, Zenon
     DEF Machine!Eval, Machine!Tests
<1>10. CASE JMP(i)
  BY <1>10, JumpImplements, Zenon DEF Machine!Eval, Machine!Control
<1>11. CASE CALL(i) \/ CALLC(i)
  BY <1>11, CallImplements, ClosureCallImplements, Zenon DEF Machine!Eval, Machine!Calls
<1>12. CASE END(i)
  BY <1>12, ReturnImplements, Zenon DEF Machine!Eval, Machine!Calls
<1> QED
  BY <1>2, <1>3, <1>4, <1>5, <1>6, <1>7, <1>8, <1>9, <1>10, <1>11, <1>12, Zenon
     DEF Execute

LEMMA MachineStarts == Init => Machine!Init
<1> SUFFICES ASSUME Init PROVE Machine!Init
  OBVIOUS
<1>1. /\ calls = << >> /\ store = << >> /\ out = << >> /\ outcome = "running"
      /\ mem = [c \in Memory |-> IF c \in Globals .. MemSize - 1
                                 THEN EmptyBox ELSE Junk]
  BY DEF Init
<1>2. Depth = 0 /\ AtEntry
  <2>1. Len(calls) = 0
    BY <1>1
  <2> QED
    BY <2>1 DEF Depth, AtEntry
<1>3. Callers = << >>
  BY <1>2 DEF Callers
<1>4. Operands = << >>
  <2>1. PICK d : d = Depth
    OBVIOUS
  <2>2. Operands = FlattenSeq([k \in 1 .. d |-> TempsOf(k)])
    BY <1>1, <2>1 DEF Operands
  <2>3. [k \in 1 .. d |-> TempsOf(k)] = << >>
    BY <1>2, <2>1
  <2>4. FlattenSeq(<< >>) = << >>
    BY DEF FlattenSeq
  <2> QED
    BY <2>2, <2>3, <2>4
<1>5. CurrentFrame = Machine!NoFrame
  BY <1>1 DEF CurrentFrame, Machine!NoFrame
<1>6. \A x \in DOMAIN GlobalValues : GlobalValues[x] = EmptyBox
  <2>1. GlobalValues = [x \in 0 .. NGlobals - 1 |-> mem[Globals + x]]
    BY <1>1 DEF GlobalValues
  <2>2. ASSUME NEW x \in 0 .. NGlobals - 1 PROVE mem[Globals + x] = EmptyBox
    <3>1. Globals + x \in Globals .. MemSize - 1 /\ Globals + x \in Memory
      BY Sizes
    <3> QED
      BY <1>1, <3>1
  <2> QED
    BY <2>1, <2>2
<1> QED
  BY <1>1, <1>3, <1>4, <1>5, <1>6 DEF Machine!Init

LEMMA MachineStep ==
  AsciiOnly /\ NumbersApart /\ MachineIInv /\ MachineIInv' /\ [Next]_vars
    => [Machine!Next]_(Machine!vars)
<1> SUFFICES ASSUME AsciiOnly, NumbersApart, MachineIInv, MachineIInv', [Next]_vars
             PROVE  Machine!Next \/ UNCHANGED Machine!vars
  OBVIOUS
<1>1. CASE UNCHANGED vars
  <2>1. /\ UNCHANGED <<ip, mem, sp, calls, store, out>> /\ UNCHANGED registers
        /\ outcome' = outcome
    BY <1>1 DEF vars
  <2>2. UNCHANGED <<Callers, Operands, CurrentFrame, GlobalValues>>
    BY <2>1, Unmoved
  <2> QED
    BY <2>1, <2>2 DEF Machine!vars
<1>2. CASE Next
  <2>1. outcome = "running" /\ RunIInv /\ OwnIInv
    BY <1>2 DEF Next, MachineIInv, InterpIInv
  <2>2. PICK i \in Code[ip] : /\ Compiled(i) /\ Bounded(i)
                              /\ (Fits(i) /\ Execute(i)) \/ Overflow(i)
    BY <1>2 DEF Next
  <2>3. Emitted(ip, i) /\ (i.op = "BEGIN" <=> AtEntry) /\ ip \in DOMAIN Code
    BY <2>1, Here DEF RunIInv, ControlOK
  <2>4. CASE Overflow(i)
    <3>1. /\ UNCHANGED <<ip, mem, sp, calls, store, out>> /\ UNCHANGED registers
          /\ outcome' = "overflow"
      BY <2>4 DEF Overflow
    <3>2. UNCHANGED <<Callers, Operands, CurrentFrame, GlobalValues>>
      BY <2>1, <3>1, Unmoved
    <3> QED
      BY <2>1, <3>1, <3>2 DEF Machine!vars
  <2>5. ASSUME Machine!Eval(i) PROVE Machine!Next
    BY <2>1, <2>5 DEF Machine!Next
  <2>6. CASE Fits(i) /\ BEGIN(i)
    <3>1. outcome' = "running"
      BY <2>1, <2>6 DEF BEGIN
    <3>2. RunIInv'
      BY <3>1 DEF MachineIInv, InterpIInv
    <3>3. Machine!BEGIN(i)
      BY <2>1, <2>6, <3>1, <3>2, BeginImplements
    <3> QED
      BY <2>5, <3>3 DEF Machine!Eval, Machine!Calls
  <2>7. CASE Fits(i) /\ Execute(i) /\ ~BEGIN(i)
    <3>1. i.op # "BEGIN"
      BY <2>7, BeginsBegin
    <3>2. Runs(i)
      BY <2>1, <2>2, <2>3, <2>7, <3>1 DEF Runs, Compiled
    <3>3. CASE FAIL(i)
      BY <2>1, <2>5, <3>2, <3>3, FailImplements DEF Machine!Eval, Machine!Tests
    <3>4. CASE END(i) /\ Depth = 1
      BY <2>1, <2>5, <3>2, <3>4, EndImplements DEF Machine!Eval, Machine!Calls
    <3>5. CASE ~FAIL(i) /\ (END(i) => Depth # 1)
      <4>1. outcome' = "running"
        <5>1. CASE END(i)
          BY <2>1, <3>2, <3>5, <5>1, EndFacts
        <5>2. CASE ~END(i)
          BY <2>1, <2>7, <3>5, <5>2, OutcomeStays
        <5> QED
          BY <5>1, <5>2
      <4>2. Steps(i)
        BY <2>1, <3>2, <4>1 DEF Steps, MachineIInv, InterpIInv
      <4> QED
        BY <2>1, <2>5, <2>7, <3>5, <4>2, ExecuteImplements
    <3> QED
      BY <3>3, <3>4, <3>5
  <2> QED
    BY <2>2, <2>4, <2>6, <2>7
<1> QED
  BY <1>1, <1>2

(***************************************************************************)
(* The interpreter computes what the stack machine computes, for every     *)
(* program and every size of the stacks: after each instruction the arrays *)
(* represent the machine's stacks and frames (ImplementsStackMachine).     *)
(* That is, as long as the program's strings are of ASCII characters other *)
(* than zero, since the runtime reads them as C does, and it compares no   *)
(* object with a number that is half its address.                          *)
(***************************************************************************)
THEOREM InterpImplementsStackMachine ==
  ASSUME AsciiOnly, NumbersApart
  PROVE  Spec => ImplementsStackMachine
<1>1. Init => Machine!Init
  BY MachineStarts
<1>2. MachineIInv /\ MachineIInv' /\ [Next]_vars => [Machine!Next]_(Machine!vars)
  BY MachineStep
<1>3. Spec => []MachineIInv
  BY MachineInvariant
<1> QED
  BY <1>1, <1>2, <1>3, PTL DEF Spec, ImplementsStackMachine, Machine!Spec
=============================================================================

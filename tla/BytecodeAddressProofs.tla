------------------------ MODULE BytecodeAddressProofs -----------------------
(***************************************************************************)
(* What the refinement of the stack machine needs of the interpreter's     *)
(* states besides what keeps its frames apart.  The temporaries of a frame *)
(* hold no addresses but those of globals, of the frame's own variables    *)
(* and of what its own closure captures: an address means the same         *)
(* variable to the interpreter as to the stack machine.  And the           *)
(* constructors in the store are those whose hashes tell them apart, the   *)
(* strings are made of the program's characters.                           *)
(***************************************************************************)
EXTENDS BytecodeViewProofs

SexpTags(s) ==
  \A a \in 1 .. Len(s) : s[a].kind = "sexp" => s[a].tag \in DOMAIN TagHash

Characters == {Num(c) : c \in Chars}

StringsOK(s) ==
  \A a \in 1 .. Len(s) : s[a].kind = "string" =>
    \A j \in DOMAIN s[a].fields : s[a].fields[j] \in Characters

(* The word w, if it is an address, is one of a variable frame k may use.  *)
OwnAddress(k, w) ==
  /\ w.kind = "cell" =>
       w.c >= Globals \/ (FirstTemp(k) < w.c /\ w.c <= TopVar(k))
  /\ w.kind = "inside" =>
       w.a = mem[Above(k) - 1].a /\ w.i \in 0 .. Captures[Function(k)] - 1

Own(k) == \A c \in LastTemp(k) .. FirstTemp(k) : OwnAddress(k, mem[c])

OwnIInv ==
  /\ SexpTags(store) /\ StringsOK(store)
  /\ \A k \in 1 .. Depth : Own(k)
-----------------------------------------------------------------------------
(* Addresses go on meaning what they mean.                                 *)
LEMMA OwnInside ==
  ASSUME RunIInv, NEW k \in 1 .. Depth, NEW w, OwnAddress(k, w), w.kind = "inside"
  PROVE  OfClosure(k) /\ store[w.a].kind = "closure"
<1>1. FrameOK(k) /\ k \in Nat
  BY FrameShape
<1>2. w.i \in 0 .. Captures[Function(k)] - 1 /\ w.a = mem[Above(k) - 1].a
  BY DEF OwnAddress
<1>3. Position(k) \in DOMAIN Code \ Heads
  BY <1>1 DEF FrameOK
<1>4. Function(k) \in Heads
  BY <1>3, CodeAssumption DEF Function
<1>5. Captures[Function(k)] \in Nat
  BY <1>4, CodeAssumption
<1>6. 0 < Captures[Function(k)]
  BY <1>2, <1>5
<1>7. k # 1
  <2>1. SUFFICES ASSUME k = 1 PROVE FALSE
    OBVIOUS
  <2>2. Function(k) \in Entries
    BY <1>1, <2>1 DEF FrameOK
  <2> QED
    BY <1>6, <2>2, CodeAssumption
<1>8. OfClosure(k) /\ ClosureOf(store, mem[Above(k) - 1], Function(k))
  BY <1>1, <1>6, <1>7 DEF FrameOK
<1> QED
  BY <1>2, <1>8 DEF ClosureOf, HasKind

LEMMA OwnStays ==
  ASSUME RunIInv, NEW k \in 1 .. Depth, Stays(k), Function(k)' = Function(k),
         OfClosure(k) => mem'[Above(k) - 1] = mem[Above(k) - 1],
         NEW w, OwnAddress(k, w)
  PROVE  OwnAddress(k, w)'
<1>1. /\ FirstTemp(k)' = FirstTemp(k) /\ TopVar(k)' = TopVar(k)
      /\ Above(k)' = Above(k) /\ Globals' = Globals
  BY DEF FirstTemp, TopVar, Above, Globals, Stays
<1>2. w.kind = "inside" => OfClosure(k)
  BY OwnInside
<1>3. w.kind = "inside" => mem'[Above(k)' - 1] = mem[Above(k) - 1]
  BY <1>1, <1>2
<1>4. /\ w.kind = "cell" =>
           w.c >= Globals' \/ (FirstTemp(k)' < w.c /\ w.c <= TopVar(k)')
      /\ w.kind = "inside" =>
           w.a = mem'[Above(k)' - 1].a /\ w.i \in 0 .. Captures[Function(k)'] - 1
  BY <1>1, <1>3 DEF OwnAddress
<1> QED
  BY <1>4 DEF OwnAddress

(* A frame's temporaries are what they were, or own addresses.             *)
LEMMA OwnMoves ==
  ASSUME RunIInv, NEW k \in 1 .. Depth, Stays(k), Function(k)' = Function(k),
         OfClosure(k) => mem'[Above(k) - 1] = mem[Above(k) - 1], Own(k),
         \A c \in LastTemp(k)' .. FirstTemp(k) :
           \/ LastTemp(k) <= c /\ mem'[c] = mem[c]
           \/ OwnAddress(k, mem'[c])
  PROVE  Own(k)'
<1>1. FirstTemp(k)' = FirstTemp(k)
  BY DEF FirstTemp, Stays
<1>2. LastTemp(k) \in Int /\ FirstTemp(k) \in Int
  BY TempsRange
<1>3. ASSUME NEW c \in LastTemp(k)' .. FirstTemp(k)' PROVE OwnAddress(k, mem[c])'
  <2>1. PICK w : w = mem'[c]
    OBVIOUS
  <2>2. OwnAddress(k, w)
    <3>1. CASE LastTemp(k) <= c /\ mem'[c] = mem[c]
      <4>1. c \in LastTemp(k) .. FirstTemp(k)
        BY <1>1, <1>2, <3>1
      <4> QED
        BY <2>1, <3>1, <4>1 DEF Own
    <3>2. CASE OwnAddress(k, mem'[c])
      BY <2>1, <3>2
    <3> QED
      BY <1>1, <3>1, <3>2
  <2>3. OwnAddress(k, w)'
    BY <2>2, OwnStays
  <2> QED
    BY <2>1, <2>3 DEF OwnAddress
<1> QED
  BY <1>3 DEF Own

(* Values are no addresses.                                                *)
LEMMA OwnPlain ==
  ASSUME NEW k, NEW n \in Nat, NEW w \in Plains(n) PROVE OwnAddress(k, w)
BY DEF OwnAddress, Plains, Null
-----------------------------------------------------------------------------
(* What instructions in the body of a function do to memory: they leave    *)
(* the frames of the callers alone, and push values and own addresses.     *)
BodyMoves ==
  /\ UNCHANGED <<calls, registers>> /\ SameBody(ip, ip')
  /\ \A c \in TopVar(Depth) + 1 .. Globals - 1 : mem'[c] = mem[c]
  /\ \A c \in sp' + 1 .. FirstTemp(Depth) :
       (sp < c /\ mem'[c] = mem[c]) \/ OwnAddress(Depth, mem'[c])

LEMMA BodyOwn ==
  ASSUME RunIInv, RunIInv', ~AtEntry, BodyMoves, \A k \in 1 .. Depth : Own(k)
  PROVE  \A k \in 1 .. Depth' : Own(k)'
<1>1. /\ Depth \in 1 .. Depth /\ Depth \in Nat \ {0} /\ LastTemp(Depth) = sp + 1
      /\ sp \in Nat /\ TopVar(Depth) \in Int /\ Edge(Depth) \in Int
      /\ Edge(Depth) = TopVar(Depth) \/ Edge(Depth) = TopVar(Depth) + 1
      /\ Edge(Depth) < Globals /\ Len(calls) = 5 * Depth - 1
  <2>1. /\ Depth \in 1 .. Depth /\ Depth \in Nat \ {0} /\ LastTemp(Depth) = sp + 1
        /\ sp \in Nat /\ Edge(Depth) \in Int /\ Edge(Depth) < Globals
    BY BodyTemps
  <2>2. /\ TopVar(Depth) \in Int
        /\ Edge(Depth) = TopVar(Depth) \/ Edge(Depth) = TopVar(Depth) + 1
    BY <2>1, FrameFacts, FrameShape
  <2>3. Len(calls) = 5 * Depth - 1
    BY DepthFacts DEF RunIInv
  <2> QED
    BY <2>1, <2>2, <2>3
<1>2. PICK d, edge \in Int, top \in Int, g \in Int :
        /\ d = Depth /\ edge = Edge(Depth) /\ top = TopVar(Depth) /\ g = Globals
  BY <1>1, Sizes
<1>3. \A c \in top + 1 .. g - 1 : mem'[c] = mem[c]
  BY <1>2 DEF BodyMoves
<1>4. \A c \in edge + 1 .. g - 1 : mem'[c] = mem[c]
  <2>1. top <= edge
    BY <1>1, <1>2
  <2>2. \A c \in edge + 1 .. g - 1 : c \in top + 1 .. g - 1
    BY <2>1
  <2> QED
    BY <1>3, <2>2
<1>5. Depth' = d /\ ~AtEntry' /\ \A k \in 1 .. d : Stays(k)
  BY <1>2, <1>4, BodyViews DEF BodyMoves
<1>6. UNCHANGED calls /\ Owner[ip'] = Owner[ip]
  BY DEF BodyMoves, SameBody
<1>7. ASSUME NEW k \in 1 .. d PROVE Function(k)' = Function(k)
  <2>1. CASE 5 * k <= Len(calls)
    BY <1>6, <2>1 DEF Function, Position
  <2>2. CASE ~(5 * k <= Len(calls))
    BY <1>6, <2>2 DEF Function, Position
  <2> QED
    BY <2>1, <2>2
<1>8. ASSUME NEW k \in 1 .. d, k # d PROVE Own(k)'
  <2>1. /\ k \in 1 .. Depth /\ k < Depth /\ k + 1 \in 1 .. Depth
    BY <1>1, <1>2, <1>8
  <2>2. /\ LastTemp(k) = Edge(k + 1) + 1 /\ FirstTemp(k) < Globals
        /\ LastTemp(k) \in Int /\ FirstTemp(k) \in Int
    BY <2>1, TempsRange
  <2>3. edge <= Edge(k + 1) /\ Edge(k + 1) \in Int
    <3>1. CASE k + 1 = Depth
      BY <1>2, <3>1
    <3>2. CASE k + 1 # Depth
      <4>1. k + 1 < Depth
        BY <1>1, <2>1, <3>2
      <4>2. Edge(Depth) <= FirstTemp(k + 1)
        BY <1>1, <2>1, <4>1, FramesApart
      <4>3. /\ FirstTemp(k + 1) <= TopVar(k + 1) /\ TopVar(k + 1) <= Edge(k + 1)
            /\ TopVar(k + 1) \in Int /\ FirstTemp(k + 1) \in Int
            /\ Edge(k + 1) \in Int
        BY <2>1, FrameFacts, FrameShape
      <4> QED
        BY <1>2, <4>2, <4>3
    <3> QED
      BY <3>1, <3>2, <1>1, <1>2
  <2>4. PICK last \in Int, first \in Int : last = LastTemp(k) /\ first = FirstTemp(k)
    BY <2>2
  <2>5. \A c \in last .. first : last <= c /\ mem'[c] = mem[c]
    <3>1. edge < last /\ first < g
      BY <1>2, <2>2, <2>3, <2>4
    <3>2. \A c \in last .. first : last <= c /\ c \in edge + 1 .. g - 1
      BY <3>1
    <3> QED
      BY <1>4, <3>2
  <2>6. Stays(k) /\ Function(k)' = Function(k)
    BY <1>5, <1>7
  <2>7. LastTemp(k)' = LastTemp(k)
    <3>1. k < Depth'
      BY <1>2, <1>5, <2>1
    <3>2. k + 1 \in 1 .. d
      BY <1>2, <2>1
    <3>3. Stays(k + 1)
      BY <1>5, <3>2
    <3>4. Above(k + 1)' = Above(k + 1)
      BY <3>3 DEF Above, Stays
    <3> QED
      BY <2>1, <3>1, <3>4 DEF LastTemp
  <2>8. OfClosure(k) => mem'[Above(k) - 1] = mem[Above(k) - 1]
    <3>1. SUFFICES ASSUME OfClosure(k) PROVE mem'[Above(k) - 1] = mem[Above(k) - 1]
      OBVIOUS
    <3>2. Edge(k) = Above(k) - 1 /\ Edge(k) < Globals /\ Edge(k) \in Int
      BY <2>1, <3>1, FrameFacts
    <3>3. edge < Edge(k)
      <4>1. FirstTemp(k) < Edge(k) /\ Edge(Depth) <= FirstTemp(k)
        BY <1>1, <2>1, <3>1, ClosuresAreNoTargets, FramesApart
      <4> QED
        BY <1>2, <2>2, <3>2, <4>1
    <3>4. Edge(k) \in edge + 1 .. g - 1
      BY <1>2, <3>2, <3>3
    <3> QED
      BY <1>4, <3>2, <3>4
  <2>9. Own(k)
    BY <2>1
  <2>10. \A c \in LastTemp(k)' .. FirstTemp(k) :
           \/ LastTemp(k) <= c /\ mem'[c] = mem[c]
           \/ OwnAddress(k, mem'[c])
    BY <2>4, <2>5, <2>7
  <2> QED
    BY <2>1, <2>6, <2>8, <2>9, <2>10, OwnMoves
<1>9. Own(d)'
  <2>1. LastTemp(d)' = sp' + 1
    <3>1. ~(d < Depth')
      BY <1>1, <1>2, <1>5
    <3>2. sp' \in Int
      BY Sizes DEF RunIInv, ControlOK
    <3> QED
      BY <1>5, <3>1, <3>2 DEF LastTemp
  <2>2. \A c \in LastTemp(d)' .. FirstTemp(d) :
          \/ LastTemp(d) <= c /\ mem'[c] = mem[c]
          \/ OwnAddress(d, mem'[c])
    <3>1. ASSUME NEW c \in sp' + 1 .. FirstTemp(Depth)
          PROVE  \/ sp + 1 <= c /\ mem'[c] = mem[c]
                 \/ OwnAddress(Depth, mem'[c])
      <4>1. (sp < c /\ mem'[c] = mem[c]) \/ OwnAddress(Depth, mem'[c])
        BY DEF BodyMoves
      <4> QED
        BY <1>1, <4>1
    <3>2. LastTemp(d) = sp + 1
      BY <1>1, <1>2
    <3> QED
      BY <1>2, <2>1, <3>1, <3>2
  <2>3. OfClosure(d) => mem'[Above(d) - 1] = mem[Above(d) - 1]
    <3>1. SUFFICES ASSUME OfClosure(d) PROVE mem'[Above(d) - 1] = mem[Above(d) - 1]
      OBVIOUS
    <3>2. Edge(d) = Above(d) - 1 /\ Edge(d) = TopVar(d) + 1
      BY <1>1, <1>2, <3>1, FrameFacts
    <3>3. edge = Above(d) - 1 /\ edge = top + 1 /\ edge < g
      BY <1>1, <1>2, <3>2
    <3>4. edge \in top + 1 .. g - 1
      BY <3>3
    <3> QED
      BY <1>3, <3>3, <3>4
  <2>4. /\ d \in 1 .. Depth /\ Stays(d) /\ Function(d)' = Function(d) /\ Own(d)
    BY <1>1, <1>2, <1>5, <1>7
  <2> QED
    BY <2>2, <2>3, <2>4, OwnMoves
<1> QED
  BY <1>5, <1>8, <1>9
-----------------------------------------------------------------------------
(* The address p is that of the variable d of the current frame.           *)
Names(d, p) ==
  /\ d \in [where : {"Global", "Local", "Arg", "Access"}, i : Nat]
  /\ InRange(d) /\ p = Address(d)
  /\ d.where = "Arg" => Depth # 1
  /\ d.where = "Access" => d.i < Captures[Owner[ip]]

LEMMA NamesOf ==
  ASSUME RunIInv, ~AtEntry, NEW d, Designates(ip, d), InRange(d)
  PROVE  Names(d, Address(d))
<1>1. /\ Depth \in 1 .. Depth /\ Depth \in Nat /\ FrameOK(Depth)
      /\ Position(Depth) = ip
  BY BodyFacts
<1>2. d.where = "Arg" => Depth # 1
  BY <1>1 DEF Designates, FrameOK, Function
<1> QED
  BY <1>2 DEF Designates, Names

LEMMA CapturesHere ==
  ASSUME RunIInv
  PROVE  Captures[Owner[ip]] \in Nat
BY CodeAssumption DEF RunIInv, ControlOK

(* Where variables are.                                                    *)
LEMMA Places ==
  ASSUME RunIInv, ~AtEntry, NEW d, NEW p, Names(d, p)
  PROVE  /\ fp \in Nat /\ nArgs \in Nat /\ nLocals \in Nat
         /\ FirstTemp(Depth) = fp - nLocals /\ TopVar(Depth) \in Int
         /\ fp <= TopVar(Depth) /\ TopVar(Depth) < Globals
         /\ d.where = "Global" =>
              /\ p = Cell(Globals + d.i) /\ d.i \in 0 .. NGlobals - 1
         /\ d.where = "Local" =>
              /\ p = Cell(fp - d.i) /\ d.i \in 0 .. nLocals - 1
         /\ d.where = "Arg" =>
              /\ p = Cell(fp + nArgs - d.i) /\ d.i \in 0 .. nArgs - 1
              /\ Depth # 1 /\ TopVar(Depth) = fp + nArgs
         /\ d.where = "Access" =>
              /\ p = Inside(Closure.a, d.i) /\ d.i \in 0 .. Captures[Owner[ip]] - 1
              /\ Closure.a \in 1 .. Len(store)
              /\ Len(store[Closure.a].fields) = Captures[Owner[ip]]
              /\ OfClosure(Depth) /\ Depth # 1 /\ Above(Depth) - 1 = fp + nArgs + 1
<1>1. /\ Depth \in 1 .. Depth /\ Depth \in Nat /\ FrameOK(Depth)
      /\ Position(Depth) = ip
      /\ Frame(Depth) = [fp |-> fp, args |-> nArgs, locals |-> nLocals]
      /\ fp \in Nat /\ nArgs \in Nat /\ nLocals \in Nat
      /\ FirstTemp(Depth) = fp - nLocals
  BY BodyFacts
<1>2. /\ TopVar(Depth) \in Int /\ fp <= TopVar(Depth) /\ TopVar(Depth) < Globals
  <2>1. /\ TopVar(Depth) \in Int /\ Frame(Depth).fp <= TopVar(Depth)
        /\ Edge(Depth) = TopVar(Depth) \/ Edge(Depth) = TopVar(Depth) + 1
        /\ Edge(Depth) < Globals
    BY <1>1, FrameFacts, FrameShape
  <2> QED
    BY <1>1, <2>1, Sizes
<1>3. d.i \in Nat /\ p = Address(d) /\ InRange(d)
  BY DEF Names
<1>4. d.where = "Global" =>
        /\ p = Cell(Globals + d.i) /\ d.i \in 0 .. NGlobals - 1
  BY <1>3, Sizes DEF Address, InRange
<1>5. d.where = "Local" => p = Cell(fp - d.i) /\ d.i \in 0 .. nLocals - 1
  BY <1>1, <1>3 DEF Address, InRange
<1>6. d.where = "Arg" =>
        /\ p = Cell(fp + nArgs - d.i) /\ d.i \in 0 .. nArgs - 1
        /\ Depth # 1 /\ TopVar(Depth) = fp + nArgs
  BY <1>1, <1>3 DEF Address, InRange, Names, TopVar
<1>7. d.where = "Access" =>
        /\ p = Inside(Closure.a, d.i) /\ d.i \in 0 .. Captures[Owner[ip]] - 1
        /\ Closure.a \in 1 .. Len(store)
        /\ Len(store[Closure.a].fields) = Captures[Owner[ip]]
        /\ OfClosure(Depth) /\ Depth # 1 /\ Above(Depth) - 1 = fp + nArgs + 1
  <2> SUFFICES ASSUME d.where = "Access"
               PROVE  /\ p = Inside(Closure.a, d.i)
                      /\ d.i \in 0 .. Captures[Owner[ip]] - 1
                      /\ Closure.a \in 1 .. Len(store)
                      /\ Len(store[Closure.a].fields) = Captures[Owner[ip]]
                      /\ OfClosure(Depth) /\ Depth # 1
                      /\ Above(Depth) - 1 = fp + nArgs + 1
    OBVIOUS
  <2>1. Captures[Owner[ip]] \in Nat /\ d.i < Captures[Owner[ip]]
    BY CapturesHere DEF Names
  <2>2. p = Inside(Closure.a, d.i) /\ d.i \in 0 .. Captures[Owner[ip]] - 1
    BY <1>3, <2>1 DEF Address
  <2>3. 0 < Captures[Owner[ip]]
    BY <1>3, <2>1
  <2>4. /\ Closure.a \in 1 .. Len(store)
        /\ Len(store[Closure.a].fields) = Captures[Owner[ip]]
    BY <2>3, OwnClosure
  <2>5. Function(Depth) = Owner[ip]
    BY <1>1 DEF Function
  <2>6. Depth # 1
    <3>1. Owner[ip] \in Entries => Captures[Owner[ip]] = 0
      BY CodeAssumption
    <3> QED
      BY <1>1, <2>3, <2>5, <3>1 DEF FrameOK
  <2>7. OfClosure(Depth)
    BY <1>1, <2>3, <2>5, <2>6 DEF FrameOK
  <2>8. Above(Depth) - 1 = fp + nArgs + 1
    <3>1. Truth(OfClosure(Depth)) = 1
      BY <2>7 DEF Truth
    <3>2. Above(Depth) = fp + nArgs + 1 + 1
      BY <1>1, <3>1 DEF Above
    <3> QED
      BY <1>1, <3>2
  <2> QED
    BY <2>2, <2>4, <2>6, <2>7, <2>8
<1> QED
  BY <1>1, <1>2, <1>4, <1>5, <1>6, <1>7

(* An address that names a variable is the machine's designation of it.    *)
LEMMA NamesOwn ==
  ASSUME RunIInv, ~AtEntry, NEW d, NEW p, Names(d, p)
  PROVE  OwnAddress(Depth, p) /\ IsAddress(p) /\ Value(Depth, p) = Var(d)
<1>1. /\ d \in [where : {"Global", "Local", "Arg", "Access"}, i : Nat]
  BY DEF Names
<1>2. /\ Depth \in 1 .. Depth /\ Position(Depth) = ip
      /\ Frame(Depth) = [fp |-> fp, args |-> nArgs, locals |-> nLocals]
      /\ Truth(OfClosure(Depth)) \in 0 .. 1
      /\ Above(Depth) = fp + nArgs + Truth(OfClosure(Depth)) + 1
  BY BodyFacts, FrameShape, SMTT(30)
<1>3. PICK t \in 0 .. 1, g \in Nat : t = Truth(OfClosure(Depth)) /\ g = Globals
  BY <1>2, Sizes
<1>4. CASE d.where = "Global"
  <2>1. p = Cell(g + d.i) /\ d.i \in Nat
    BY <1>1, <1>3, <1>4, Places
  <2>2. g + d.i >= g /\ g + d.i - g = d.i
    BY <2>1
  <2>3. OwnAddress(Depth, p) /\ IsAddress(p)
    BY <1>3, <2>1, <2>2 DEF OwnAddress, Cell, IsAddress
  <2>4. Designation(Depth, p) = At("Global", d.i)
    BY <1>3, <2>1, <2>2 DEF Designation, Cell
  <2>5. d = At("Global", d.i)
    BY <1>1, <1>4 DEF At
  <2> QED
    BY <2>3, <2>4, <2>5 DEF Value
<1>5. CASE d.where = "Local"
  <2>1. PICK c : p = Cell(c) /\ c = fp - d.i
    BY <1>5, Places
  <2>2. /\ fp \in Nat /\ nLocals \in Nat /\ d.i \in 0 .. nLocals - 1
        /\ FirstTemp(Depth) = fp - nLocals /\ fp <= TopVar(Depth)
        /\ TopVar(Depth) \in Int /\ TopVar(Depth) < g
    BY <1>3, <1>5, Places
  <2>3. /\ FirstTemp(Depth) < c /\ c <= TopVar(Depth) /\ ~(c >= g) /\ ~(c > fp)
        /\ fp - c = d.i
    BY <2>1, <2>2
  <2>4. OwnAddress(Depth, p) /\ IsAddress(p)
    BY <2>1, <2>3 DEF OwnAddress, Cell, IsAddress
  <2>5. Designation(Depth, p) = At("Local", d.i)
    BY <1>2, <1>3, <2>1, <2>3 DEF Designation, Cell
  <2>6. d = At("Local", d.i)
    BY <1>1, <1>5 DEF At
  <2> QED
    BY <2>4, <2>5, <2>6 DEF Value
<1>6. CASE d.where = "Arg"
  <2>1. PICK c : p = Cell(c) /\ c = fp + nArgs - d.i
    BY <1>6, Places
  <2>2. /\ fp \in Nat /\ nLocals \in Nat /\ nArgs \in Nat /\ d.i \in 0 .. nArgs - 1
        /\ FirstTemp(Depth) = fp - nLocals /\ TopVar(Depth) = fp + nArgs
        /\ TopVar(Depth) < g
    BY <1>3, <1>6, Places
  <2>3. /\ FirstTemp(Depth) < c /\ c <= TopVar(Depth) /\ ~(c >= g) /\ c > fp
        /\ (fp + nArgs + t + 1) - t - 1 - c = d.i
    BY <2>1, <2>2
  <2>4. OwnAddress(Depth, p) /\ IsAddress(p)
    BY <2>1, <2>3 DEF OwnAddress, Cell, IsAddress
  <2>5. Designation(Depth, p) = At("Arg", d.i)
    BY <1>2, <1>3, <2>1, <2>3 DEF Designation, Cell
  <2>6. d = At("Arg", d.i)
    BY <1>1, <1>6 DEF At
  <2> QED
    BY <2>4, <2>5, <2>6 DEF Value
<1>7. CASE d.where = "Access"
  <2>1. /\ p = Inside(Closure.a, d.i) /\ d.i \in 0 .. Captures[Owner[ip]] - 1
        /\ Above(Depth) - 1 = fp + nArgs + 1
    BY <1>7, Places
  <2>2. p.kind = "inside" /\ p.a = mem[Above(Depth) - 1].a /\ p.i = d.i
    BY <2>1 DEF Inside, Closure
  <2>3. Function(Depth) = Owner[ip]
    BY <1>2 DEF Function
  <2>4. OwnAddress(Depth, p) /\ IsAddress(p)
    BY <2>1, <2>2, <2>3 DEF OwnAddress, IsAddress
  <2>5. Designation(Depth, p) = At("Access", d.i)
    BY <2>2 DEF Designation
  <2>6. d = At("Access", d.i)
    BY <1>1, <1>7 DEF At
  <2> QED
    BY <2>4, <2>5, <2>6 DEF Value
<1> QED
  BY <1>1, <1>4, <1>5, <1>6, <1>7

(* An own address names the variable that the machine has for it.          *)
LEMMA NamedBy ==
  ASSUME RunIInv, ~AtEntry, NEW w \in Storable(Len(store)), IsAddress(w),
         OwnAddress(Depth, w)
  PROVE  Names(Designation(Depth, w), w)
<1>1. /\ Depth \in 1 .. Depth /\ Position(Depth) = ip /\ Len(store) \in Nat
      /\ Frame(Depth) = [fp |-> fp, args |-> nArgs, locals |-> nLocals]
      /\ fp \in Nat /\ nArgs \in Nat /\ nLocals \in Nat
      /\ FirstTemp(Depth) = fp - nLocals
      /\ Truth(OfClosure(Depth)) \in 0 .. 1 /\ FrameOK(Depth)
      /\ Above(Depth) = fp + nArgs + Truth(OfClosure(Depth)) + 1
  BY BodyFacts, FrameShape, SMTT(30)
<1>5. TopVar(Depth) \in Int
  BY <1>1, FrameFacts
<1>6. Globals \in Nat /\ MemSize \in Nat /\ NGlobals = MemSize - Globals
  BY Sizes
<1>2. PICK t \in 0 .. 1, g \in Nat, top \in Int, ms \in Nat :
        /\ t = Truth(OfClosure(Depth)) /\ g = Globals /\ top = TopVar(Depth)
        /\ ms = MemSize /\ NGlobals = ms - g
  BY <1>1, <1>5, <1>6
<1>3. CASE w.kind = "inside"
  <2>1. Designation(Depth, w) = At("Access", w.i)
    BY <1>3 DEF Designation
  <2>2. Function(Depth) = Owner[ip] /\ Captures[Owner[ip]] \in Nat
    BY <1>1, CapturesHere DEF Function
  <2>3. w = Inside(w.a, w.i)
    BY <1>1, <1>3, StorableWords
  <2>4. /\ w.a = mem[Above(Depth) - 1].a /\ w.i \in 0 .. Captures[Owner[ip]] - 1
    BY <1>3, <2>2 DEF OwnAddress
  <2>5. w.i \in Nat /\ w.i < Captures[Owner[ip]]
    BY <2>2, <2>4
  <2>6. Depth # 1 /\ OfClosure(Depth)
    <3>1. Owner[ip] \in Entries => Captures[Owner[ip]] = 0
      BY CodeAssumption
    <3>2. 0 < Captures[Owner[ip]]
      BY <2>2, <2>5
    <3> QED
      BY <1>1, <2>2, <3>1, <3>2 DEF FrameOK
  <2>7. Above(Depth) - 1 = fp + nArgs + 1
    <3>1. Truth(OfClosure(Depth)) = 1
      BY <2>6 DEF Truth
    <3> QED
      BY <1>1, <3>1
  <2>8. w = Address(At("Access", w.i))
    BY <2>3, <2>4, <2>7 DEF Address, At, Closure
  <2> QED
    BY <2>1, <2>5, <2>8 DEF Names, At, InRange
<1>4. CASE w.kind = "cell"
  <2>1. w = Cell(w.c) /\ w.c \in 1 .. ms - 1
    BY <1>1, <1>2, <1>4, StorableWords
  <2>2. w.c >= g \/ (FirstTemp(Depth) < w.c /\ w.c <= top)
    BY <1>2, <1>4 DEF OwnAddress
  <2>3. PICK c \in 1 .. ms - 1 : w = Cell(c) /\ w.c = c
    BY <2>1
  <2>4. CASE c >= g
    <3>1. Designation(Depth, w) = At("Global", c - g)
      BY <1>2, <1>4, <2>3, <2>4 DEF Designation
    <3>2. c - g \in Nat /\ c - g < ms - g /\ g + (c - g) = c
      BY <2>4
    <3>3. w = Address(At("Global", c - g))
      BY <1>2, <2>3, <3>2 DEF Address, At
    <3>4. InRange(At("Global", c - g))
      BY <1>2, <3>2 DEF InRange, At
    <3> QED
      BY <3>1, <3>2, <3>3, <3>4 DEF Names, At
  <2>5. CASE ~(c >= g) /\ c > fp
    <3>1. FirstTemp(Depth) < c /\ c <= top
      BY <2>2, <2>3, <2>5
    <3>2. Depth # 1 /\ top = fp + nArgs
      <4>1. Depth = 1 => top = g - 1 /\ fp = g - 1
        BY <1>1, <1>2 DEF TopVar, FrameOK
      <4>2. Depth # 1
        BY <2>5, <4>1
      <4> QED
        BY <1>1, <1>2, <4>2 DEF TopVar
    <3>3. (fp + nArgs + t + 1) - t - 1 - c = fp + nArgs - c
      BY <1>1
    <3>4. Designation(Depth, w) = At("Arg", fp + nArgs - c)
      BY <1>1, <1>2, <1>4, <2>3, <2>5, <3>3 DEF Designation
    <3>5. /\ fp + nArgs - c \in Nat /\ fp + nArgs - c < nArgs
          /\ fp + nArgs - (fp + nArgs - c) = c
      BY <1>1, <2>5, <3>1, <3>2
    <3>6. w = Address(At("Arg", fp + nArgs - c))
      BY <2>3, <3>5 DEF Address, At
    <3>7. InRange(At("Arg", fp + nArgs - c))
      BY <3>5 DEF InRange, At
    <3> QED
      BY <3>2, <3>4, <3>5, <3>6, <3>7 DEF Names, At
  <2>6. CASE ~(c >= g) /\ ~(c > fp)
    <3>1. FirstTemp(Depth) < c
      BY <2>2, <2>3, <2>6
    <3>2. Designation(Depth, w) = At("Local", fp - c)
      BY <1>1, <1>2, <1>4, <2>3, <2>6 DEF Designation
    <3>3. fp - c \in Nat /\ fp - c < nLocals /\ fp - (fp - c) = c
      BY <1>1, <2>6, <3>1
    <3>4. w = Address(At("Local", fp - c))
      BY <2>3, <3>3 DEF Address, At
    <3>5. InRange(At("Local", fp - c))
      BY <3>3 DEF InRange, At
    <3> QED
      BY <3>2, <3>3, <3>4, <3>5 DEF Names, At
  <2> QED
    BY <2>4, <2>5, <2>6
<1> QED
  BY <1>3, <1>4 DEF IsAddress
-----------------------------------------------------------------------------
(* The ways in which instructions move words.                              *)
LEMMA BodyBounds ==
  ASSUME RunIInv, ~AtEntry
  PROVE  \E first \in Int, top \in Int, low \in Nat, g \in Nat, ms \in Nat :
           /\ first = FirstTemp(Depth) /\ top = TopVar(Depth) /\ low = sp
           /\ g = Globals /\ ms = MemSize /\ Temps = first - low
           /\ low <= first /\ first <= top /\ top < g /\ g <= ms /\ Temps \in Nat
           /\ first < g
<1>1. /\ Depth \in 1 .. Depth /\ sp \in Nat /\ FirstTemp(Depth) \in Int
      /\ sp <= FirstTemp(Depth) /\ FirstTemp(Depth) < Globals
      /\ Temps \in Nat /\ Temps = FirstTemp(Depth) - sp
      /\ Edge(Depth) \in Int /\ Edge(Depth) < Globals
  BY BodyTemps
<1>2. /\ TopVar(Depth) \in Int /\ FirstTemp(Depth) <= TopVar(Depth)
      /\ TopVar(Depth) <= Edge(Depth)
  BY <1>1, FrameFacts, FrameShape
<1>3. TopVar(Depth) < Globals /\ Globals \in Nat /\ MemSize \in Nat /\ Globals <= MemSize
  BY <1>1, <1>2, Sizes
<1> QED
  BY <1>1, <1>2, <1>3

LEMMA ResultMoves ==
  ASSUME RunIInv, ~AtEntry, NEW n \in 0 .. Temps, NEW v, OwnAddress(Depth, v),
         Result(n, v), UNCHANGED <<calls, registers>>, SameBody(ip, ip')
  PROVE  BodyMoves
<1>1. PICK first \in Int, top \in Int, low \in Nat, g \in Nat, ms \in Nat :
        /\ first = FirstTemp(Depth) /\ top = TopVar(Depth) /\ low = sp
        /\ g = Globals /\ ms = MemSize /\ Temps = first - low
        /\ low <= first /\ first <= top /\ top < g /\ g <= ms /\ Temps \in Nat
        /\ first < g
  BY BodyBounds
<1>2. /\ mem' = [c \in 0 .. ms + 1 |->
                   IF c = low + n THEN v
                   ELSE IF low < c /\ c < low + n /\ c < g THEN Junk ELSE mem[c]]
      /\ sp' = low + n - 1
  BY <1>1, Sizes DEF Result
<1>3. n \in Nat /\ low + n <= first
  BY <1>1
<1>4. ASSUME NEW c \in low + n + 1 .. g - 1 PROVE mem'[c] = mem[c]
  <2>1. c \in 0 .. ms + 1 /\ c # low + n /\ ~(c < low + n)
    BY <1>1, <1>3
  <2> QED
    BY <1>2, <2>1
<1>5. \A c \in top + 1 .. g - 1 : mem'[c] = mem[c]
  <2>1. \A c \in top + 1 .. g - 1 : c \in low + n + 1 .. g - 1
    BY <1>1, <1>3
  <2> QED
    BY <1>4, <2>1
<1>6. ASSUME NEW c \in sp' + 1 .. first
      PROVE  (low < c /\ mem'[c] = mem[c]) \/ OwnAddress(Depth, mem'[c])
  <2>1. c \in low + n .. first
    BY <1>2, <1>3
  <2>2. CASE c = low + n
    <3>1. c \in 0 .. ms + 1
      BY <1>1, <1>3, <2>2
    <3>2. mem'[c] = v
      BY <1>2, <2>2, <3>1
    <3> QED
      BY <3>2
  <2>3. CASE c # low + n
    <3>1. c \in low + n + 1 .. g - 1 /\ low < c
      BY <1>1, <1>3, <2>1, <2>3
    <3> QED
      BY <1>4, <3>1
  <2> QED
    BY <2>2, <2>3
<1> QED
  BY <1>1, <1>5, <1>6 DEF BodyMoves

LEMMA PopMoves ==
  ASSUME RunIInv, ~AtEntry, 1 <= Temps, UNCHANGED <<calls, registers>>,
         mem' = [mem EXCEPT ![sp + 1] = Junk], sp' = sp + 1, SameBody(ip, ip')
  PROVE  BodyMoves
<1>1. PICK first \in Int, top \in Int, low \in Nat, g \in Nat, ms \in Nat :
        /\ first = FirstTemp(Depth) /\ top = TopVar(Depth) /\ low = sp
        /\ g = Globals /\ ms = MemSize /\ Temps = first - low
        /\ low <= first /\ first <= top /\ top < g /\ g <= ms /\ Temps \in Nat
        /\ first < g
  BY BodyBounds
<1>2. \A c : c # low + 1 => mem'[c] = mem[c]
  <2>1. DOMAIN mem = Memory
    BY DEF RunIInv, MemoryOK
  <2> QED
    BY <1>1, <2>1
<1>3. low + 1 <= first
  BY <1>1
<1>4. \A c \in top + 1 .. g - 1 : mem'[c] = mem[c]
  <2>1. \A c \in top + 1 .. g - 1 : c # low + 1
    BY <1>1, <1>3
  <2> QED
    BY <1>2, <2>1
<1>5. \A c \in sp' + 1 .. first : low < c /\ mem'[c] = mem[c]
  <2>1. \A c \in low + 1 + 1 .. first : low < c /\ c # low + 1
    BY <1>1
  <2> QED
    BY <1>1, <1>2, <2>1
<1> QED
  BY <1>1, <1>4, <1>5 DEF BodyMoves

LEMMA StoreMoves ==
  ASSUME RunIInv, ~AtEntry, NEW n \in 1 .. Temps, NEW p, NEW v,
         OwnAddress(Depth, p), OwnAddress(Depth, v), StoreAt(p, n, v),
         SameBody(ip, ip')
  PROVE  BodyMoves
<1>1. PICK first \in Int, top \in Int, low \in Nat, g \in Nat, ms \in Nat :
        /\ first = FirstTemp(Depth) /\ top = TopVar(Depth) /\ low = sp
        /\ g = Globals /\ ms = MemSize /\ Temps = first - low
        /\ low <= first /\ first <= top /\ top < g /\ g <= ms /\ Temps \in Nat
        /\ first < g
  BY BodyBounds
<1>2. n \in Nat /\ 1 <= n /\ low + n <= first
  BY <1>1
<1>3. PICK t \in Nat : t = low + n
  BY <1>2
<1>4. /\ mem' = [c \in 0 .. ms + 1 |->
                   IF c = t THEN v
                   ELSE IF c \in low + 1 .. t - 1 THEN Junk
                   ELSE IF p = Cell(c) THEN v ELSE mem[c]]
      /\ sp' = t - 1 /\ UNCHANGED <<calls, registers>>
  BY <1>1, <1>3, Sizes DEF StoreAt, Advance
<1>5. ASSUME NEW c \in t + 1 .. g - 1
      PROVE  mem'[c] = IF p = Cell(c) THEN v ELSE mem[c]
  <2>1. c \in 0 .. ms + 1 /\ c # t /\ c \notin low + 1 .. t - 1
    BY <1>1, <1>2, <1>3
  <2> QED
    BY <1>4, <2>1
<1>6. ASSUME NEW c \in top + 1 .. g - 1 PROVE mem'[c] = mem[c]
  <2>1. c \in t + 1 .. g - 1
    BY <1>1, <1>2, <1>3
  <2>2. ~(c >= g) /\ ~(c <= top)
    BY <1>1
  <2>3. p # Cell(c)
    BY <1>1, <2>2 DEF OwnAddress, Cell
  <2> QED
    BY <1>5, <2>1, <2>3
<1>7. ASSUME NEW c \in sp' + 1 .. first
      PROVE  (low < c /\ mem'[c] = mem[c]) \/ OwnAddress(Depth, mem'[c])
  <2>1. c \in t .. first
    BY <1>4, <1>3
  <2>2. CASE c = t
    <3>1. c \in 0 .. ms + 1
      BY <1>1, <1>2, <1>3, <2>2
    <3> QED
      BY <1>4, <2>2, <3>1
  <2>3. CASE c # t
    <3>1. c \in t + 1 .. g - 1 /\ low < c
      BY <1>1, <1>2, <1>3, <2>1, <2>3
    <3> QED
      BY <1>5, <3>1
  <2> QED
    BY <2>2, <2>3
<1> QED
  BY <1>1, <1>4, <1>6, <1>7 DEF BodyMoves
-----------------------------------------------------------------------------
(* The store keeps its constructors.                                       *)
LEMMA TagsKept ==
  ASSUME SexpTags(store), NEW n, store \in Seq(Objects(n)), NEW a, NEW j, NEW v,
         store' = [store EXCEPT ![a].fields[j] = v]
  PROVE  SexpTags(store')
<1>1. DOMAIN store' = DOMAIN store /\ Len(store') = Len(store)
  BY LenProperties
<1>2. ASSUME NEW b \in 1 .. Len(store)
      PROVE  store'[b].kind = store[b].kind /\ store'[b].tag = store[b].tag
  <2>1. store[b] \in Objects(n) /\ b \in DOMAIN store
    BY <1>2
  <2>2. CASE b # a
    BY <2>1, <2>2
  <2>3. CASE b = a
    <3>1. store'[b] = [store[b] EXCEPT !.fields = [store[b].fields EXCEPT ![j] = v]]
      BY <2>1, <2>3
    <3> QED
      BY <2>1, <3>1 DEF Objects
  <2> QED
    BY <2>2, <2>3
<1> QED
  BY <1>1, <1>2 DEF SexpTags

LEMMA TagsAppended ==
  ASSUME SexpTags(store), NEW n, store \in Seq(Objects(n)), NEW o,
         o.kind = "sexp" => o.tag \in DOMAIN TagHash, store' = Append(store, o)
  PROVE  SexpTags(store')
<1>1. PICK l \in Nat : l = Len(store)
  BY LenProperties
<1>2. Len(store') = l + 1 /\ store'[l + 1] = o
      /\ \A a \in 1 .. l : store'[a] = store[a]
  BY <1>1
<1>3. \A a \in 1 .. l + 1 : a \in 1 .. l \/ a = l + 1
  OBVIOUS
<1> QED
  BY <1>1, <1>2, <1>3 DEF SexpTags

(* So it does its strings.                                                 *)
LEMMA CharactersKept ==
  ASSUME StringsOK(store), NEW n, store \in Seq(Objects(n)), NEW a, NEW j, NEW v,
         store[a].kind = "string" => v \in Characters,
         store' = [store EXCEPT ![a].fields[j] = v]
  PROVE  StringsOK(store')
<1>1. DOMAIN store' = DOMAIN store /\ Len(store') = Len(store)
  BY LenProperties
<1>2. ASSUME NEW b \in 1 .. Len(store), store'[b].kind = "string",
             NEW k \in DOMAIN store'[b].fields
      PROVE  store'[b].fields[k] \in Characters
  <2>1. store[b] \in Objects(n) /\ b \in DOMAIN store
    BY <1>2
  <2>2. CASE b # a
    <3>1. store'[b] = store[b]
      BY <2>1, <2>2
    <3> QED
      BY <1>2, <3>1 DEF StringsOK
  <2>3. CASE b = a
    <3>1. store'[b] = [store[b] EXCEPT !.fields = [store[b].fields EXCEPT ![j] = v]]
      BY <2>1, <2>3
    <3>2. /\ store'[b].kind = store[b].kind
          /\ store'[b].fields = [store[b].fields EXCEPT ![j] = v]
      BY <2>1, <3>1 DEF Objects
    <3>3. DOMAIN store'[b].fields = DOMAIN store[b].fields
      BY <3>2
    <3>4. store[b].fields[k] \in Characters /\ v \in Characters
      BY <1>2, <2>3, <3>2, <3>3 DEF StringsOK
    <3>5. store'[b].fields[k] = IF k = j THEN v ELSE store[b].fields[k]
      BY <1>2, <3>2, <3>3
    <3> QED
      BY <3>4, <3>5
  <2> QED
    BY <2>2, <2>3
<1> QED
  BY <1>1, <1>2 DEF StringsOK

LEMMA CharactersAppended ==
  ASSUME StringsOK(store), NEW n, store \in Seq(Objects(n)), NEW o,
         o.kind = "string" => \A j \in DOMAIN o.fields : o.fields[j] \in Characters,
         store' = Append(store, o)
  PROVE  StringsOK(store')
<1>1. PICK l \in Nat : l = Len(store)
  BY LenProperties
<1>2. Len(store') = l + 1 /\ store'[l + 1] = o
      /\ \A a \in 1 .. l : store'[a] = store[a]
  BY <1>1
<1>3. \A a \in 1 .. l + 1 : a \in 1 .. l \/ a = l + 1
  OBVIOUS
<1> QED
  BY <1>1, <1>2, <1>3 DEF StringsOK

LEMMA KindOf == ASSUME NEW k, NEW t, NEW vs PROVE Object(k, t, vs).kind = k
BY DEF Object

LEMMA TagsStay ==
  ASSUME NEW i, Runs(i), Execute(i), SexpTags(store)
  PROVE  SexpTags(store')
<1>1. PICK n : store \in Seq(Objects(n))
  BY DEF Runs, RunIInv, StoreOK
<1>2. Emitted(ip, i)
  BY DEF Runs
<1>3. CASE UNCHANGED store
  BY <1>3
<1>4. ASSUME NEW p, NEW k, NEW v, StoreAt(p, k, v) PROVE SexpTags(store')
  <2>1. \/ store' = store
        \/ store' = [store EXCEPT ![p.a].fields[p.i + 1] = v]
    BY <1>4 DEF StoreAt
  <2> QED
    BY <1>1, <2>1, TagsKept
<1>5. ASSUME NEW k, NEW o, Allocate(k, o), o.kind = "sexp" => o.tag \in DOMAIN TagHash
      PROVE  SexpTags(store')
  BY <1>1, <1>5, TagsAppended DEF Allocate
<1>6. CASE LD(i) \/ LDA(i) \/ CONST(i) \/ BINOP(i) \/ DROP(i) \/ DUP(i) \/ ELEM(i)
  BY <1>3, <1>6 DEF LD, LDA, CONST, BINOP, DROP, DUP, ELEM, Compute
<1>7. CASE READ(i) \/ WRITE(i) \/ LENGTH(i) \/ TAG(i) \/ ARRAY(i) \/ PATT(i) \/ FAIL(i)
  BY <1>3, <1>7 DEF READ, WRITE, LENGTH, TAG, ARRAY, PATT, FAIL, Test, Compute
<1>8. CASE JMP(i) \/ CJMP(i) \/ CALL(i) \/ CALLC(i) \/ BEGIN(i) \/ END(i)
  BY <1>3, <1>8 DEF JMP, CJMP, CALL, CALLC, BEGIN, END, Enter
<1>9. CASE ST(i)
  BY <1>4, <1>9 DEF ST
<1>10. CASE STA(i)
  <2>1. CASE ~Unboxed(Word(2)) /\ StoreAt(Word(2), 2, Word(1))
    BY <1>4, <2>1
  <2>2. CASE store' = WithElem(store, Word(3), Word(2), Word(1))
    <3>1. store' = [store EXCEPT ![Word(3).a].fields[Word(2).n + 1] = Word(1)]
      BY <2>2 DEF WithElem
    <3> QED
      BY <1>1, <3>1, TagsKept
  <2> QED
    BY <1>10, <2>1, <2>2 DEF STA
<1>11. CASE BSTRING(i)
  <2>1. PICK o : o = Bstring(i.s) /\ Allocate(0, o)
    BY <1>11 DEF BSTRING
  <2>3. o.kind = "string"
    BY <2>1, KindOf, Zenon DEF Bstring, StringObject
  <2>2. o.kind # "sexp"
    BY <2>3
  <2> QED
    BY <1>5, <2>1, <2>2
<1>12. CASE BSEXP(i)
  <2>1. PICK o : o = Object("sexp", i.t, Words(i.n)) /\ Allocate(i.n, o)
    BY <1>12 DEF BSEXP
  <2>2. o.tag \in DOMAIN TagHash
    BY <1>2, <1>12, <2>1 DEF Object, BSEXP, Emitted
  <2> QED
    BY <1>5, <2>1, <2>2
<1>13. CASE BARRAY(i)
  <2>1. \E o : o = Object("array", "", Words(i.n)) /\ Allocate(i.n, o)
    BY <1>13, Zenon DEF BARRAY
  <2>3. \E o : o.kind = "array" /\ Allocate(i.n, o)
    BY <2>1, KindOf, Zenon
  <2>2. PICK o : o.kind # "sexp" /\ Allocate(i.n, o)
    BY <2>3
  <2> QED
    BY <1>5, <2>2
<1>14. CASE BCLOSURE(i)
  <2>1. PICK o : /\ o = Object("closure", i.fn,
                               [k \in DOMAIN i.ds |-> Contents(Address(i.ds[k]))])
                 /\ Allocate(0, o)
    BY <1>14 DEF BCLOSURE
  <2>2. o.kind # "sexp"
    BY <2>1 DEF Object
  <2> QED
    BY <1>5, <2>1, <2>2
<1> QED
  BY <1>6, <1>7, <1>8, <1>9, <1>10, <1>11, <1>12, <1>13, <1>14 DEF Execute
-----------------------------------------------------------------------------
(* The instructions of the body of a function.                             *)
LEMMA OwnNumbers == ASSUME NEW k, NEW z PROVE OwnAddress(k, Num(z))
BY DEF OwnAddress, Num

LEMMA OwnWord ==
  ASSUME RunIInv, ~AtEntry, Own(Depth), NEW k \in 1 .. Temps
  PROVE  OwnAddress(Depth, Word(k))
<1>1. /\ LastTemp(Depth) = sp + 1 /\ sp \in Nat /\ FirstTemp(Depth) \in Int
      /\ Temps = FirstTemp(Depth) - sp
  BY BodyTemps
<1>2. PICK low \in Nat, first \in Int : low = sp /\ first = FirstTemp(Depth)
  BY <1>1
<1>3. k \in 1 .. first - low
  BY <1>1, <1>2
<1>4. low + k \in low + 1 .. first
  BY <1>3
<1> QED
  BY <1>1, <1>2, <1>4 DEF Own, Word

Straight == {"LD", "LDA", "ST", "STA", "CONST", "BINOP", "DROP", "DUP", "STRING",
             "SEXP", ".array", "CLOSURE", "ELEM", "read", "write", "length",
             "TAG", "ARRAY", "PATT"}

LEMMA ResultInstructions ==
  ASSUME NEW i, Runs(i), i.op \in Straight, NEW n \in 0 .. Temps, NEW v,
         OwnAddress(Depth, v), Result(n, v), Advance
  PROVE  BodyMoves
<1>1. RunIInv /\ ~AtEntry /\ Emitted(ip, i)
  BY DEF Runs
<1>2. SameBody(ip, ip') /\ UNCHANGED <<calls, registers>>
  BY <1>1 DEF Advance, Emitted, Straight
<1> QED
  BY <1>1, <1>2, ResultMoves

LEMMA LoadMoves ==
  ASSUME NEW i, Runs(i), Own(Depth), LD(i) \/ LDA(i) \/ ST(i) \/ STA(i)
  PROVE  BodyMoves
<1>6. /\ RunIInv /\ ~AtEntry /\ Emitted(ip, i)
      /\ i.op \in {"LD", "LDA", "ST", "STA"}
  BY DEF Runs, LD, LDA, ST, STA
<1>7. Len(store) \in Nat /\ Temps \in Nat /\ 0 \in 0 .. Temps
  BY <1>6, BodyFacts
<1>1. /\ RunIInv /\ ~AtEntry /\ Emitted(ip, i) /\ Len(store) \in Nat /\ Temps \in Nat
      /\ 0 \in 0 .. Temps /\ i.op \in Straight /\ i.op \in {"LD", "LDA", "ST", "STA"}
  BY <1>6, <1>7 DEF Straight
<1>2. CASE LD(i)
  <2>1. /\ Designates(ip, i.d) /\ InRange(i.d)
        /\ Result(0, Contents(Address(i.d))) /\ Advance
    BY <1>1, <1>2 DEF LD, Compute, Emitted
  <2>2. Contents(Address(i.d)) \in Plains(Len(store))
    BY <1>1, <2>1, Designated
  <2>3. OwnAddress(Depth, Contents(Address(i.d)))
    BY <1>1, <2>2, OwnPlain
  <2> QED
    BY <1>1, <2>1, <2>3, ResultInstructions
<1>3. CASE LDA(i)
  <2>1. /\ Designates(ip, i.d) /\ InRange(i.d)
        /\ Result(0, Address(i.d)) /\ Advance
    BY <1>1, <1>3 DEF LDA, Compute, Emitted
  <2>2. OwnAddress(Depth, Address(i.d))
    BY <1>1, <2>1, NamesOf, NamesOwn
  <2> QED
    BY <1>1, <2>1, <2>2, ResultInstructions
<1>4. CASE ST(i)
  <2>1. /\ i.op = "ST" /\ Designates(ip, i.d) /\ InRange(i.d)
        /\ StoreAt(Address(i.d), 1, Word(1))
    BY <1>1, <1>4 DEF ST, Emitted
  <2>2. Uses(i) = 1
    BY <2>1 DEF Uses
  <2>3. 1 \in 1 .. Temps /\ Word(1) \in Plains(Len(store))
    BY <2>1, <2>2, Used
  <2>4. OwnAddress(Depth, Address(i.d)) /\ OwnAddress(Depth, Word(1))
    BY <1>1, <2>1, <2>3, NamesOf, NamesOwn, OwnPlain
  <2>5. SameBody(ip, ip')
    BY <1>1, <2>1 DEF StoreAt, Advance, Emitted
  <2> QED
    BY <1>1, <2>1, <2>3, <2>4, <2>5, StoreMoves
<1>5. CASE STA(i)
  <2>1. i.op = "STA" /\ StackDiscipline(i)
    BY <1>5 DEF STA, Runs
  <2>2. Uses(i) = IF Temps >= 2 /\ IsNum(Word(2)) THEN 3 ELSE 2
    BY <2>1 DEF Uses
  <2>3. Temps >= 2 /\ (IsNum(Word(2)) => Temps >= 3)
    BY <1>1, <2>1, <2>2 DEF StackDiscipline
  <2>4. 1 \in 1 .. Temps /\ 2 \in 1 .. Temps /\ (IsNum(Word(2)) => 3 \in 0 .. Temps)
    BY <1>1, <2>3
  <2>5. OwnAddress(Depth, Word(1)) /\ OwnAddress(Depth, Word(2))
    BY <1>1, <2>4, OwnWord
  <2>6. CASE Unboxed(Word(2)) /\ Result(3, Word(1)) /\ Advance
    BY <1>1, <2>4, <2>5, <2>6, ResultInstructions DEF Unboxed
  <2>7. CASE StoreAt(Word(2), 2, Word(1))
    <3>1. SameBody(ip, ip')
      BY <1>1, <2>1, <2>7 DEF StoreAt, Advance, Emitted
    <3> QED
      BY <1>1, <2>4, <2>5, <2>7, <3>1, StoreMoves
  <2> QED
    BY <1>5, <2>6, <2>7 DEF STA
<1> QED
  BY <1>2, <1>3, <1>4, <1>5

LEMMA ScalarMoves ==
  ASSUME NEW i, Runs(i), Own(Depth),
         \/ CONST(i) \/ BINOP(i) \/ DROP(i) \/ DUP(i) \/ READ(i)
         \/ TAG(i) \/ ARRAY(i) \/ PATT(i) \/ CJMP(i) \/ JMP(i)
  PROVE  BodyMoves
<1>1. /\ RunIInv /\ ~AtEntry /\ Emitted(ip, i) /\ Len(store) \in Nat /\ Temps \in Nat
      /\ 0 \in 0 .. Temps
  BY BodyFacts DEF Runs
<1>2. CASE CONST(i) \/ READ(i)
  <2>1. PICK z : i.op \in Straight /\ Result(0, Num(z)) /\ Advance
    BY <1>2 DEF CONST, READ, Compute, Straight
  <2> QED
    BY <1>1, <2>1, OwnNumbers, ResultInstructions
<1>3. CASE DUP(i)
  <2>1. i.op = "DUP" /\ i.op \in Straight /\ Result(0, Word(1)) /\ Advance
    BY <1>3 DEF DUP, Compute, Straight
  <2>2. Uses(i) = 1
    BY <2>1 DEF Uses
  <2>3. 1 \in 1 .. Temps
    BY <2>2, Used
  <2> QED
    BY <1>1, <2>1, <2>3, OwnWord, ResultInstructions
<1>4. CASE BINOP(i) \/ TAG(i) \/ ARRAY(i) \/ PATT(i)
  <2>1. PICK n, z : /\ n \in Nat /\ i.op \in Straight /\ Result(n, Num(z))
                    /\ Advance /\ Uses(i) = n
    <3>1. CASE BINOP(i)
      <4>1. i.op = "BINOP" /\ \E z : Result(2, Num(z)) /\ Advance
        BY <3>1 DEF BINOP, Compute
      <4> QED
        BY <4>1 DEF Uses, Straight
    <3>2. CASE TAG(i) \/ ARRAY(i)
      <4>1. i.op \in {"TAG", "ARRAY"} /\ \E z : Result(1, Num(z)) /\ Advance
        BY <3>2 DEF TAG, ARRAY, Test, Compute
      <4> QED
        BY <4>1 DEF Uses, Straight
    <3>3. CASE PATT(i)
      <4>1. /\ i.op = "PATT"
            /\ \/ i.p = "StrCmp" /\ \E z : Result(2, Num(z)) /\ Advance
               \/ i.p # "StrCmp" /\ \E z : Result(1, Num(z)) /\ Advance
        BY <3>3 DEF PATT, Test, Compute
      <4> QED
        BY <4>1 DEF Uses, Straight
    <3> QED
      BY <1>4, <3>1, <3>2, <3>3
  <2>2. n \in 0 .. Temps
    BY <2>1, Used
  <2> QED
    BY <2>1, <2>2, OwnNumbers, ResultInstructions
<1>5. CASE DROP(i) \/ CJMP(i)
  <2>1. i.op \in {"DROP", "CJMP"}
    BY <1>5 DEF DROP, CJMP
  <2>2. Uses(i) = 1
    BY <2>1 DEF Uses
  <2>3. 1 <= Temps
    BY <1>1, <2>2, Used
  <2>4. /\ mem' = [mem EXCEPT ![sp + 1] = Junk] /\ sp' = sp + 1
        /\ UNCHANGED <<calls, registers>>
    BY <1>5 DEF DROP, CJMP, Advance
  <2>5. SameBody(ip, ip')
    <3>1. CASE DROP(i)
      BY <1>1, <3>1 DEF DROP, Advance, Emitted
    <3>2. CASE CJMP(i)
      BY <1>1, <3>2 DEF CJMP, Emitted
    <3> QED
      BY <1>5, <3>1, <3>2
  <2> QED
    BY <1>1, <2>3, <2>4, <2>5, PopMoves
<1>6. CASE JMP(i)
  <2>1. UNCHANGED <<mem, sp>> /\ UNCHANGED <<calls, registers>> /\ SameBody(ip, ip')
    BY <1>1, <1>6 DEF JMP, Emitted
  <2>3. sp \in Nat /\ FirstTemp(Depth) \in Int
    BY <1>1, BodyFacts
  <2>2. \A c \in sp' + 1 .. FirstTemp(Depth) : sp < c
    BY <2>1, <2>3
  <2> QED
    BY <2>1, <2>2 DEF BodyMoves
<1> QED
  BY <1>2, <1>3, <1>4, <1>5, <1>6

LEMMA ObjectMoves ==
  ASSUME NEW i, Runs(i), Own(Depth),
         \/ BSTRING(i) \/ BSEXP(i) \/ BARRAY(i) \/ BCLOSURE(i)
         \/ ELEM(i) \/ WRITE(i) \/ LENGTH(i)
  PROVE  BodyMoves
<1>1. /\ RunIInv /\ ~AtEntry /\ StoreOK(store) /\ Len(store) \in Nat /\ Temps \in Nat
      /\ 0 \in 0 .. Temps
  BY BodyFacts DEF Runs, RunIInv
<1>2. OwnAddress(Depth, NewRef(store)) /\ OwnAddress(Depth, Null)
  BY DEF OwnAddress, NewRef, Obj, Null
<1>3. CASE BSTRING(i) \/ BCLOSURE(i)
  <2>1. i.op \in Straight /\ Result(0, NewRef(store)) /\ Advance
    BY <1>3 DEF BSTRING, BCLOSURE, Allocate, Straight
  <2> QED
    BY <1>1, <1>2, <2>1, ResultInstructions
<1>4. CASE BSEXP(i) \/ BARRAY(i)
  <2>1. /\ i.op \in {"SEXP", ".array"} /\ Result(i.n, NewRef(store)) /\ Advance
    BY <1>4, Zenon DEF BSEXP, BARRAY, Allocate
  <2>2. i.n \in 0 .. Temps /\ i.op \in Straight
    BY <2>1, WordsArePlain DEF Straight
  <2> QED
    BY <1>1, <1>2, <2>1, <2>2, ResultInstructions
<1>5. CASE WRITE(i) \/ LENGTH(i)
  <2>1. /\ i.op \in {"write", "length"} /\ i.op \in Straight /\ Advance
        /\ Result(1, Null) \/ \E z : Result(1, Num(z))
    BY <1>5 DEF WRITE, LENGTH, Compute, Straight
  <2>2. Uses(i) = 1
    BY <2>1 DEF Uses
  <2>3. 1 \in 0 .. Temps
    BY <2>2, Used
  <2> QED
    BY <1>2, <2>1, <2>3, OwnNumbers, ResultInstructions
<1>6. CASE ELEM(i)
  <2>1. /\ i.op = "ELEM" /\ i.op \in Straight /\ Advance /\ NoException(i)
        /\ Result(2, Belem(Word(2), Word(1)))
    BY <1>6 DEF ELEM, Compute, Straight, Runs
  <2>2. Uses(i) = 2
    BY <2>1 DEF Uses
  <2>3. 2 \in 0 .. Temps /\ Word(2) \in Plains(Len(store))
    <3>1. 2 \in 1 .. 2
      OBVIOUS
    <3> QED
      BY <2>1, <2>2, <3>1, Used
  <2>4. HasElem(store, Word(2), Word(1))
    BY <2>1 DEF NoException
  <2>5. Word(2).a \in 1 .. Len(store) /\ Word(1).n \in 0 .. Len(Fields(store, Word(2))) - 1
    BY <1>1, <2>3, <2>4, PlainWords DEF HasElem
  <2>6. /\ Fields(store, Word(2)) \in Seq(Plains(Len(store)))
        /\ Len(Fields(store, Word(2))) \in Nat
    BY <1>1, <2>5, InStore DEF Fields
  <2>7. Belem(Word(2), Word(1)) \in Plains(Len(store))
    <3>1. Word(1).n + 1 \in 1 .. Len(Fields(store, Word(2)))
      BY <2>5, <2>6
    <3>2. ElemOf(store, Word(2), Word(1)) \in Plains(Len(store))
      BY <2>6, <3>1 DEF ElemOf
    <3> QED
      BY <1>1, <3>2, BelemType
  <2> QED
    BY <1>1, <2>1, <2>3, <2>7, OwnPlain, ResultInstructions
<1> QED
  BY <1>3, <1>4, <1>5, <1>6
-----------------------------------------------------------------------------
(* Calls and returns.                                                      *)
LEMMA AboveStays == ASSUME NEW k, Stays(k) PROVE Above(k)' = Above(k)
BY DEF Above, Stays

(* A closure's word is not below the temporaries of its frame.             *)
LEMMA ClosureWord ==
  ASSUME RunIInv, NEW k \in 1 .. Depth, OfClosure(k)
  PROVE  /\ Above(k) - 1 = Edge(k) /\ Edge(k) \in Int /\ FirstTemp(k) < Edge(k)
         /\ FirstTemp(k) \in Int /\ Edge(k) < Globals
BY FrameFacts, ClosuresAreNoTargets

LEMMA EnterOwn ==
  ASSUME NEW i, Runs(i), CALL(i) \/ CALLC(i), RunIInv', \A k \in 1 .. Depth : Own(k)
  PROVE  \A k \in 1 .. Depth' : Own(k)'
<1>1. /\ RunIInv /\ ~AtEntry /\ i.op \in {"CALL", "CALLC"}
      /\ calls' = Append(calls, Following(ip))
      /\ UNCHANGED <<fp, nArgs, nLocals, mem, sp>>
  BY DEF Runs, CALL, CALLC, Enter
<1>2. /\ Depth' = Depth /\ AtEntry' /\ SameBody(ip, Following(ip))
      /\ Len(calls') = 5 * Depth /\ calls'[5 * Depth] = Following(ip)
      /\ \A j \in 1 .. 5 * Depth - 1 : calls'[j] = calls[j]
      /\ \A k \in 1 .. Depth : Stays(k)
  BY <1>1, EnterShape DEF Stays
<1>3. /\ Depth \in Nat \ {0} /\ Len(calls) = 5 * Depth - 1
      /\ LastTemp(Depth) = sp + 1 /\ sp \in Nat
  BY <1>1, DepthFacts, BodyTemps DEF RunIInv
<1>4. PICK d \in Nat \ {0} : d = Depth
  BY <1>3
<1>5. ASSUME NEW k \in 1 .. d PROVE Function(k)' = Function(k)
  <2>1. CASE k = d
    <3>1. Position(k) = ip /\ Position(k)' = Following(ip)
      <4>1. ~(5 * k <= Len(calls)) /\ 5 * k <= Len(calls') /\ calls'[5 * k] = Following(ip)
        BY <1>2, <1>3, <1>4, <2>1
      <4> QED
        BY <4>1 DEF Position
    <3> QED
      BY <1>2, <3>1 DEF Function, SameBody
  <2>2. CASE k # d
    <3>1. 5 * k <= Len(calls) /\ 5 * k <= Len(calls') /\ calls'[5 * k] = calls[5 * k]
      <4>1. 5 * k \in 1 .. 5 * d - 1
        BY <1>4, <2>2
      <4> QED
        BY <1>2, <1>3, <1>4, <4>1
    <3> QED
      BY <3>1 DEF Function, Position
  <2> QED
    BY <2>1, <2>2
<1>6. PICK q : q = LastTemp(d)' /\ q \in Int /\ LastTemp(d) <= q
  <2>1. ~(d < Depth')
    BY <1>2, <1>4
  <2>2. PICK pending : pending = ArgsAt(ip') + Truth(isClosure')
    OBVIOUS
  <2>3. LastTemp(d)' = sp + 1 + pending
    BY <1>1, <1>2, <2>1, <2>2 DEF LastTemp
  <2>4. pending \in Nat
    <3>1. ip' \in Heads /\ isClosure' \in BOOLEAN
      BY <1>2 DEF RunIInv, ControlOK
    <3>2. ArgsAt(ip') \in Nat /\ Truth(isClosure') \in 0 .. 1
      BY <3>1, HeadFacts DEF Truth
    <3> QED
      BY <2>2, <3>2
  <2> QED
    BY <1>3, <1>4, <2>3, <2>4
<1>7. ASSUME NEW k \in 1 .. d PROVE Own(k)'
  <2>1. k \in 1 .. Depth /\ Stays(k) /\ Function(k)' = Function(k) /\ Own(k)
    BY <1>2, <1>4, <1>5
  <2>2. \A c \in LastTemp(k)' .. FirstTemp(k) : LastTemp(k) <= c
    <3>1. CASE k = d
      BY <1>3, <1>4, <1>6, <3>1, TempsRange
    <3>2. CASE k # d
      <4>1. k + 1 \in 1 .. Depth /\ k < Depth /\ k < Depth'
        BY <1>2, <1>4, <3>2
      <4>2. Above(k + 1)' = Above(k + 1)
        BY <1>2, <4>1, AboveStays
      <4>3. LastTemp(k)' = LastTemp(k)
        BY <4>1, <4>2 DEF LastTemp
      <4>4. LastTemp(k) \in Int
        BY <1>1, <2>1, TempsRange
      <4> QED
        BY <4>3, <4>4
    <3> QED
      BY <3>1, <3>2
  <2> QED
    BY <1>1, <2>1, <2>2, OwnMoves
<1> QED
  BY <1>2, <1>4, <1>7

LEMMA BeginOwn ==
  ASSUME RunIInv, NEW i \in Code[ip], Fits(i), BEGIN(i), \A k \in 1 .. Depth : Own(k)
  PROVE  \A k \in 1 .. Depth' : Own(k)'
<1>1. Depth \in Nat /\ sp \in Nat
  BY DepthFacts, Sizes DEF RunIInv, ControlOK
<1>2. PICK E \in Nat : E = Depth + 1
  BY <1>1
<1>3. PICK low \in Nat, top \in Nat : low = sp - i.locals /\ top = sp /\ low <= top
  BY <1>1, <1>2, BeginShape
<1>4. /\ mem' = [c \in Memory |-> IF c \in low + 1 .. top THEN EmptyBox ELSE mem[c]]
      /\ sp' = low
  BY <1>3 DEF BEGIN
<1>5. /\ Depth' = E /\ ~AtEntry'
      /\ \A k \in 1 .. Depth : Stays(k) /\ Position(k)' = Position(k)
      /\ FirstTemp(E)' = low /\ Pending \in Nat
      /\ Depth # 0 => Above(E)' = top + Pending + 1
  BY <1>2, <1>3, BeginShape DEF Stays
<1>6. \A c \in top + 1 .. Globals - 1 : mem'[c] = mem[c]
  <2>1. \A c \in top + 1 .. Globals - 1 : c \in Memory /\ c \notin low + 1 .. top
    BY Sizes
  <2> QED
    BY <1>4, <2>1
<1>7. ASSUME NEW k \in 1 .. Depth PROVE Own(k)'
  <2>1. Stays(k) /\ Function(k)' = Function(k) /\ Own(k)
    BY <1>5, <1>7 DEF Function
  <2>2. /\ LastTemp(k) \in Int /\ FirstTemp(k) \in Int /\ top < LastTemp(k)
        /\ FirstTemp(k) < Globals /\ top <= FirstTemp(k)
        /\ k = Depth => LastTemp(k) = top + 1 + Pending
    BY <1>3, TempsRange, FrameFacts
  <2>3. LastTemp(k)' = LastTemp(k)
    <3>1. k < Depth'
      BY <1>1, <1>2, <1>5
    <3>2. CASE k = Depth
      <4>1. LastTemp(k)' = Above(E)'
        BY <1>2, <3>1, <3>2 DEF LastTemp
      <4> QED
        BY <1>1, <1>3, <1>5, <2>2, <3>2, <4>1
    <3>3. CASE k # Depth
      <4>1. k + 1 \in 1 .. Depth /\ k < Depth
        BY <1>1, <3>3
      <4>2. Above(k + 1)' = Above(k + 1)
        BY <1>5, <4>1, AboveStays
      <4> QED
        BY <3>1, <4>1, <4>2 DEF LastTemp
    <3> QED
      BY <3>2, <3>3
  <2>4. \A c \in LastTemp(k) .. FirstTemp(k) : LastTemp(k) <= c /\ mem'[c] = mem[c]
    <3>1. PICK last \in Int, first \in Int : last = LastTemp(k) /\ first = FirstTemp(k)
      BY <2>2
    <3>2. \A c \in last .. first : last <= c /\ c \in top + 1 .. Globals - 1
      BY <2>2, <3>1, Sizes
    <3> QED
      BY <1>6, <3>1, <3>2
  <2>5. OfClosure(k) => mem'[Above(k) - 1] = mem[Above(k) - 1]
    <3>1. SUFFICES ASSUME OfClosure(k) PROVE mem'[Above(k) - 1] = mem[Above(k) - 1]
      OBVIOUS
    <3>2. /\ Above(k) - 1 = Edge(k) /\ Edge(k) \in Int /\ FirstTemp(k) < Edge(k)
          /\ Edge(k) < Globals
      BY <3>1, ClosureWord
    <3>3. Edge(k) \in top + 1 .. Globals - 1
      BY <2>2, <3>2, Sizes
    <3> QED
      BY <1>6, <3>2, <3>3
  <2> QED
    BY <2>1, <2>3, <2>4, <2>5, OwnMoves
<1>8. Own(E)'
  <2>1. ~(E < Depth')
    BY <1>2, <1>5
  <2>2. LastTemp(E)' = low + 1
    BY <1>4, <1>5, <2>1 DEF LastTemp
  <2>3. LastTemp(E)' .. FirstTemp(E)' = {}
    BY <1>5, <2>2
  <2> QED
    BY <2>3 DEF Own
<1>9. \A k \in 1 .. Depth' : k \in 1 .. Depth \/ k = E
  BY <1>1, <1>2, <1>5
<1> QED
  BY <1>7, <1>8, <1>9

LEMMA ReturnOwn ==
  ASSUME NEW i, Runs(i), END(i), Depth # 1, \A k \in 1 .. Depth : Own(k)
  PROVE  \A k \in 1 .. Depth' : Own(k)'
<1>1. /\ RunIInv /\ Depth \in Nat \ {0, 1} /\ Len(store) \in Nat
      /\ Word(1) \in Plains(Len(store))
  BY EndFacts DEF Runs, RunIInv, StoreOK
<1>2. PICK m \in Nat : m = Depth - 1
  BY <1>1
<1>3. PICK e \in Nat, g \in Nat, ms \in Nat :
        e = Edge(Depth) /\ g = Globals /\ ms = MemSize /\ e < g /\ g <= ms
  BY <1>2, ReturnShape, Sizes
<1>4. /\ m # 0 /\ Depth' = m /\ ~AtEntry' /\ sp < e /\ sp' = e - 1
      /\ \A k \in 1 .. m : Stays(k) /\ Position(k)' = Position(k)
      /\ mem' = [c \in Memory |-> IF c = e THEN Word(1)
                                  ELSE IF sp < c /\ c < e /\ c < Globals THEN Junk
                                  ELSE mem[c]]
  BY <1>2, <1>3, ReturnShape DEF Stays
<1>5. \A c \in e + 1 .. g - 1 : mem'[c] = mem[c]
  <2>1. \A c \in e + 1 .. g - 1 : c \in Memory /\ c # e /\ ~(c < e)
    BY <1>3, Sizes
  <2> QED
    BY <1>4, <2>1
<1>6. mem'[e] = Word(1)
  <2>1. e \in Memory
    BY <1>3, Sizes
  <2> QED
    BY <1>4, <2>1
<1>7. ASSUME NEW k \in 1 .. m PROVE Own(k)'
  <2>1. /\ k \in 1 .. Depth /\ k < Depth /\ Stays(k) /\ Function(k)' = Function(k)
        /\ Own(k) /\ k + 1 \in 1 .. Depth
    BY <1>1, <1>2, <1>4 DEF Function
  <2>2. /\ LastTemp(k) \in Int /\ FirstTemp(k) \in Int /\ FirstTemp(k) < g
        /\ LastTemp(k) = Edge(k + 1) + 1
    BY <1>1, <1>3, <2>1, TempsRange
  <2>3. e <= Edge(k + 1) /\ Edge(k + 1) \in Int /\ e <= FirstTemp(k)
    <3>1. Depth \in 1 .. Depth /\ e <= FirstTemp(k)
      BY <1>1, <1>3, <2>1, FramesApart
    <3>2. CASE k + 1 = Depth
      BY <1>3, <3>1, <3>2
    <3>3. CASE k + 1 # Depth
      <4>1. k + 1 < Depth
        BY <1>1, <2>1, <3>3
      <4>2. Edge(Depth) <= FirstTemp(k + 1)
        BY <1>1, <2>1, <3>1, <4>1, FramesApart
      <4>3. RunIInv /\ k + 1 \in 1 .. Depth
        BY <1>1, <2>1
      <4>4. /\ FirstTemp(k + 1) <= TopVar(k + 1) /\ TopVar(k + 1) <= Edge(k + 1)
            /\ TopVar(k + 1) \in Int /\ FirstTemp(k + 1) \in Int
            /\ Edge(k + 1) \in Int
        BY <4>3, FrameFacts, FrameShape
      <4> QED
        BY <1>3, <3>1, <4>2, <4>4
    <3> QED
      BY <3>2, <3>3
  <2>4. PICK last \in Int, first \in Int, next \in Int :
          /\ last = LastTemp(k) /\ first = FirstTemp(k) /\ next = LastTemp(k)'
          /\ next = last \/ (next = e /\ last = e + 1)
    <3>1. CASE k = m
      <4>1. ~(k < Depth') /\ e - 1 + 1 = e
        BY <1>4, <3>1
      <4>2. LastTemp(k)' = e
        BY <1>4, <4>1 DEF LastTemp
      <4>3. k + 1 = Depth
        BY <1>1, <1>2, <3>1
      <4>4. LastTemp(k) = e + 1
        BY <1>3, <2>2, <4>3
      <4> QED
        BY <2>2, <4>2, <4>4
    <3>2. CASE k # m
      <4>1. k < Depth' /\ k + 1 \in 1 .. m
        BY <1>4, <3>2
      <4>2. Above(k + 1)' = Above(k + 1)
        BY <1>4, <4>1, AboveStays
      <4>3. LastTemp(k)' = LastTemp(k)
        BY <2>1, <4>1, <4>2 DEF LastTemp
      <4> QED
        BY <2>2, <4>3
    <3> QED
      BY <3>1, <3>2
  <2>5. ASSUME NEW c \in next .. first
        PROVE  (last <= c /\ mem'[c] = mem[c]) \/ OwnAddress(k, mem'[c])
    <3>1. CASE c < last
      <4>1. c = e
        BY <2>4, <3>1
      <4> QED
        BY <1>1, <1>6, <4>1, OwnPlain
    <3>2. CASE ~(c < last)
      <4>1. c \in e + 1 .. g - 1 /\ last <= c
        BY <2>2, <2>3, <2>4, <3>2
      <4> QED
        BY <1>5, <4>1
    <3> QED
      BY <3>1, <3>2
  <2>6. OfClosure(k) => mem'[Above(k) - 1] = mem[Above(k) - 1]
    <3>1. SUFFICES ASSUME OfClosure(k) PROVE mem'[Above(k) - 1] = mem[Above(k) - 1]
      OBVIOUS
    <3>2. /\ Above(k) - 1 = Edge(k) /\ Edge(k) \in Int /\ FirstTemp(k) < Edge(k)
          /\ Edge(k) < Globals
      BY <1>1, <2>1, <3>1, ClosureWord
    <3>3. Edge(k) \in e + 1 .. g - 1
      BY <1>3, <2>2, <2>3, <3>2
    <3> QED
      BY <1>5, <3>2, <3>3
  <2>7. \A c \in LastTemp(k)' .. FirstTemp(k) :
          (LastTemp(k) <= c /\ mem'[c] = mem[c]) \/ OwnAddress(k, mem'[c])
    BY <2>4, <2>5
  <2> QED
    BY <1>1, <2>1, <2>6, <2>7, OwnMoves
<1> QED
  BY <1>4, <1>7
-----------------------------------------------------------------------------
(* Together with what keeps frames apart, addresses' meaning is kept by    *)
(* every step.                                                             *)
MachineIInv == InterpIInv /\ (outcome # "ended" => OwnIInv)

LEMMA OwnUntouched ==
  ASSUME RunIInv, OwnIInv, UNCHANGED <<ip, mem, sp, calls, store>>, UNCHANGED registers
  PROVE  OwnIInv'
<1>1. /\ Depth' = Depth /\ AtEntry' = AtEntry
      /\ \A k \in 1 .. Depth :
           /\ Frame(k)' = Frame(k) /\ OfClosure(k)' = OfClosure(k)
           /\ FirstTemp(k)' = FirstTemp(k) /\ TopVar(k)' = TopVar(k)
           /\ Above(k)' = Above(k) /\ Edge(k)' = Edge(k)
  BY FramesStay
<1>2. ASSUME NEW k \in 1 .. Depth PROVE Own(k)'
  <2>1. Stays(k) /\ Own(k)
    BY <1>1, <1>2 DEF Stays, OwnIInv
  <2>2. Function(k)' = Function(k)
    BY DEF Function, Position
  <2>3. LastTemp(k)' = LastTemp(k)
    <3>1. CASE k < Depth
      <4>1. k + 1 \in 1 .. Depth
        BY <1>2, <3>1, DepthFacts DEF RunIInv
      <4>2. Above(k + 1)' = Above(k + 1)
        BY <1>1, <4>1
      <4> QED
        BY <1>1, <3>1, <4>2 DEF LastTemp
    <3>2. CASE ~(k < Depth)
      BY <1>1, <3>2 DEF LastTemp, registers
    <3> QED
      BY <3>1, <3>2
  <2>4. \A c \in LastTemp(k)' .. FirstTemp(k) : LastTemp(k) <= c /\ mem'[c] = mem[c]
    <3>1. LastTemp(k) \in Int
      BY TempsRange
    <3> QED
      BY <2>3, <3>1
  <2> QED
    BY <2>1, <2>2, <2>4, OwnMoves
<1> QED
  BY <1>1, <1>2 DEF OwnIInv

LEMMA MachineInit == Init => MachineIInv
<1> SUFFICES ASSUME Init PROVE MachineIInv
  OBVIOUS
<1>1. Depth = 0
  <2>1. Len(calls) = 0
    BY DEF Init
  <2> QED
    BY <2>1 DEF Depth
<1>2. store = << >>
  BY DEF Init
<1>3. OwnIInv
  BY <1>1, <1>2 DEF OwnIInv, SexpTags, StringsOK
<1> QED
  BY <1>3, InterpInit DEF MachineIInv

(* None of a program's instructions puts other characters into a string.   *)
LEMMA CharactersStay ==
  ASSUME NEW i, Runs(i), Execute(i), Own(Depth), StringsOK(store)
  PROVE  StringsOK(store')
<1>1. PICK n : store \in Seq(Objects(n))
  BY DEF Runs, RunIInv, StoreOK
<1>2. Emitted(ip, i) /\ RunIInv /\ ~AtEntry /\ NoException(i) /\ StackDiscipline(i)
  BY DEF Runs
<1>3. CASE UNCHANGED store
  BY <1>3
<1>4. ASSUME NEW p, NEW k, NEW v, StoreAt(p, k, v), OwnAddress(Depth, p)
      PROVE  StringsOK(store')
  <2>1. CASE p.kind = "inside"
    <3>1. store[p.a].kind = "closure"
      BY <1>2, <1>4, <2>1, BodyTemps, OwnInside
    <3>2. store[p.a].kind = "string" => v \in Characters
      BY <3>1
    <3>3. store' = [store EXCEPT ![p.a].fields[p.i + 1] = v]
      BY <1>4, <2>1 DEF StoreAt
    <3> QED
      BY <1>1, <3>2, <3>3, CharactersKept
  <2>2. CASE p.kind # "inside"
    BY <1>3, <1>4, <2>2 DEF StoreAt
  <2> QED
    BY <2>1, <2>2
<1>5. ASSUME NEW k, NEW o, Allocate(k, o),
             o.kind = "string" => \A j \in DOMAIN o.fields : o.fields[j] \in Characters
      PROVE  StringsOK(store')
  BY <1>1, <1>5, CharactersAppended DEF Allocate
<1>6. CASE LD(i) \/ LDA(i) \/ CONST(i) \/ BINOP(i) \/ DROP(i) \/ DUP(i) \/ ELEM(i)
  BY <1>3, <1>6 DEF LD, LDA, CONST, BINOP, DROP, DUP, ELEM, Compute
<1>7. CASE READ(i) \/ WRITE(i) \/ LENGTH(i) \/ TAG(i) \/ ARRAY(i) \/ PATT(i) \/ FAIL(i)
  BY <1>3, <1>7 DEF READ, WRITE, LENGTH, TAG, ARRAY, PATT, FAIL, Test, Compute
<1>8. CASE JMP(i) \/ CJMP(i) \/ CALL(i) \/ CALLC(i) \/ BEGIN(i) \/ END(i)
  BY <1>3, <1>8 DEF JMP, CJMP, CALL, CALLC, BEGIN, END, Enter
<1>9. CASE ST(i)
  <2>1. /\ Designates(ip, i.d) /\ InRange(i.d) /\ StoreAt(Address(i.d), 1, Word(1))
    BY <1>2, <1>9 DEF ST, Emitted
  <2>2. OwnAddress(Depth, Address(i.d))
    BY <1>2, <2>1, NamesOf, NamesOwn
  <2> QED
    BY <1>4, <2>1, <2>2
<1>10. CASE STA(i)
  <2>1. i.op = "STA"
    BY <1>10 DEF STA
  <2>2. Uses(i) = IF Temps >= 2 /\ IsNum(Word(2)) THEN 3 ELSE 2
    BY <2>1 DEF Uses
  <2>3. Temps >= 2 /\ Temps \in Nat /\ (IsNum(Word(2)) => Temps >= 3)
    BY <1>2, <2>1, <2>2, BodyFacts DEF StackDiscipline
  <2>4. 1 \in 1 .. Temps /\ 2 \in 1 .. Temps
    BY <2>3
  <2>5. CASE ~Unboxed(Word(2)) /\ StoreAt(Word(2), 2, Word(1))
    BY <1>2, <1>4, <2>4, <2>5, OwnWord
  <2>6. CASE Unboxed(Word(2)) /\ store' = WithElem(store, Word(3), Word(2), Word(1))
    <3>1. store' = [store EXCEPT ![Word(3).a].fields[Word(2).n + 1] = Word(1)]
      BY <2>6 DEF WithElem
    <3>2. Uses(i) = 3 /\ 1 \in 1 .. 3
      BY <2>2, <2>3, <2>6 DEF Unboxed
    <3>3. ~IsAddress(Word(1)) /\ ~IsAddress(Word(2))
      BY <1>2, <2>1, <2>6, <3>2 DEF StackDiscipline, Unboxed, IsAddress, IsNum
    <3>4. Word(1) \in Plains(Len(store))
      BY <1>2, <2>4, <3>3, OperandFacts
    <3>5. /\ HasElem(store, Word(3), Word(2)) /\ MayHold(store, Word(3), Word(1))
          /\ HasKind(store, Word(3), "string") => Word(1).n \in Chars
      BY <1>2, <2>1, <3>3 DEF NoException
    <3>6. ASSUME store[Word(3).a].kind = "string" PROVE Word(1) \in Characters
      <4>1. HasKind(store, Word(3), "string")
        BY <3>5, <3>6 DEF HasElem, HasKind
      <4>2. IsNum(Word(1)) /\ Word(1).n \in Chars
        BY <3>5, <4>1 DEF MayHold
      <4>3. Word(1) = Num(Word(1).n)
        BY <3>4, <4>2 DEF Plains, IsNum, Num, Obj, Null
      <4> QED
        BY <4>2, <4>3 DEF Characters
    <3> QED
      BY <1>1, <3>1, <3>6, CharactersKept
  <2> QED
    BY <1>10, <2>5, <2>6 DEF STA
<1>11. CASE BSTRING(i)
  <2>1. i.op = "STRING" /\ Allocate(0, Bstring(i.s))
    BY <1>11 DEF BSTRING
  <2>2. PICK t : t = CString(i.s, 0) /\ t \in Seq(Chars)
    BY <1>2, <2>1, CStringType DEF Emitted
  <2>3. PICK o : o = StringObject(t)
    OBVIOUS
  <2>4. o.fields = [j \in DOMAIN t |-> Num(t[j])]
    BY <2>3 DEF StringObject, Object
  <2>5. \A j \in DOMAIN o.fields : o.fields[j] \in Characters
    BY <2>2, <2>4 DEF Characters
  <2>6. Allocate(0, o)
    BY Zenon, <2>1, <2>2, <2>3 DEF Bstring
  <2> QED
    BY <1>5, <2>5, <2>6
<1>12. CASE BSEXP(i) \/ BARRAY(i)
  <2>1. \/ \E o : o = Object("sexp", i.t, Words(i.n)) /\ Allocate(i.n, o)
        \/ \E o : o = Object("array", "", Words(i.n)) /\ Allocate(i.n, o)
    BY <1>12, Zenon DEF BSEXP, BARRAY
  <2>2. \E o : (o.kind = "sexp" \/ o.kind = "array") /\ Allocate(i.n, o)
    BY <2>1, KindOf, Zenon
  <2>3. PICK o : o.kind # "string" /\ Allocate(i.n, o)
    BY <2>2
  <2> QED
    BY <1>5, <2>3
<1>13. CASE BCLOSURE(i)
  <2>1. PICK o : /\ o = Object("closure", i.fn,
                               [k \in DOMAIN i.ds |-> Contents(Address(i.ds[k]))])
                 /\ Allocate(0, o)
    BY <1>13 DEF BCLOSURE
  <2>2. o.kind # "string"
    BY <2>1 DEF Object
  <2> QED
    BY <1>5, <2>1, <2>2
<1> QED
  BY <1>6, <1>7, <1>8, <1>9, <1>10, <1>11, <1>12, <1>13 DEF Execute

LEMMA BeginsBegin ==
  ASSUME NEW i, Execute(i), ~BEGIN(i) PROVE i.op # "BEGIN"
<1>1. CASE BARRAY(i)
  <2>1. i.op = ".array"
    BY <1>1, Zenon DEF BARRAY
  <2> QED
    BY <2>1
<1>2. CASE ~BARRAY(i)
  BY <1>2 DEF Execute, LD, LDA, ST, STA, CONST, BINOP, DROP, DUP, BSTRING, BSEXP,
              BCLOSURE, ELEM, READ, WRITE, LENGTH, TAG, ARRAY, PATT, FAIL, JMP, CJMP,
              CALL, CALLC, END
<1> QED
  BY <1>1, <1>2

(* One instruction of a function, after which the program still runs.      *)
LEMMA OwnSteps ==
  ASSUME NEW i, Runs(i), Execute(i), ~FAIL(i), ~BEGIN(i), END(i) => Depth # 1,
         RunIInv', OwnIInv
  PROVE  OwnIInv'
<1>1. RunIInv /\ ~AtEntry
  BY DEF Runs
<1>2. (\A k \in 1 .. Depth : Own(k)) /\ Own(Depth) /\ SexpTags(store)
  <2>1. Depth \in 1 .. Depth
    BY <1>1, BodyTemps
  <2> QED
    BY <2>1 DEF OwnIInv
<1>3. SexpTags(store') /\ StringsOK(store')
  <2>1. StringsOK(store)
    BY DEF OwnIInv
  <2> QED
    BY <1>2, <2>1, TagsStay, CharactersStay
<1>4. \A k \in 1 .. Depth' : Own(k)'
  <2>1. CASE CALL(i) \/ CALLC(i)
    BY <1>2, <2>1, EnterOwn
  <2>2. CASE END(i)
    BY <1>2, <2>2, ReturnOwn
  <2>3. CASE ~CALL(i) /\ ~CALLC(i) /\ ~END(i)
    <3>1. \/ LD(i) \/ LDA(i) \/ ST(i) \/ STA(i)
          \/ CONST(i) \/ BINOP(i) \/ DROP(i) \/ DUP(i)
          \/ BSTRING(i) \/ BSEXP(i) \/ BARRAY(i) \/ BCLOSURE(i) \/ ELEM(i)
          \/ READ(i) \/ WRITE(i) \/ LENGTH(i)
          \/ TAG(i) \/ ARRAY(i) \/ PATT(i)
          \/ JMP(i) \/ CJMP(i)
      BY <2>3 DEF Execute
    <3>2. BodyMoves
      BY <1>2, <3>1, LoadMoves, ScalarMoves, ObjectMoves
    <3> QED
      BY <1>1, <1>2, <3>2, BodyOwn
  <2> QED
    BY <2>1, <2>2, <2>3
<1> QED
  BY <1>3, <1>4 DEF OwnIInv

LEMMA MachineInductive == MachineIInv /\ [Next]_vars => MachineIInv'
<1> SUFFICES ASSUME MachineIInv, [Next]_vars PROVE MachineIInv'
  OBVIOUS
<1>1. InterpIInv'
  BY InterpInductive DEF MachineIInv
<1>2. SUFFICES ASSUME outcome' # "ended" PROVE OwnIInv'
  BY <1>1 DEF MachineIInv
<1>3. CASE UNCHANGED vars
  <2>1. /\ UNCHANGED <<ip, mem, sp, calls, store>> /\ UNCHANGED registers
        /\ outcome' = outcome
    BY <1>3 DEF vars
  <2> QED
    BY <1>2, <2>1, OwnUntouched DEF MachineIInv, InterpIInv
<1>4. CASE Next
  <2>1. outcome = "running" /\ RunIInv /\ OwnIInv
    BY <1>4 DEF Next, MachineIInv, InterpIInv
  <2>2. PICK i \in Code[ip] : /\ Compiled(i) /\ Bounded(i)
                              /\ (Fits(i) /\ Execute(i)) \/ Overflow(i)
    BY <1>4 DEF Next
  <2>3. Emitted(ip, i) /\ (i.op = "BEGIN" <=> AtEntry) /\ ip \in DOMAIN Code
    BY <2>1, Here DEF RunIInv, ControlOK
  <2>4. RunIInv'
    BY <1>1, <1>2 DEF InterpIInv
  <2>5. CASE Overflow(i) \/ FAIL(i)
    BY <2>1, <2>5, OwnUntouched DEF Overflow, FAIL
  <2>6. CASE Fits(i) /\ BEGIN(i)
    <3>1. \A k \in 1 .. Depth' : Own(k)'
      BY <2>1, <2>6, BeginOwn DEF OwnIInv
    <3>2. store' = store
      BY <2>6 DEF BEGIN
    <3> QED
      BY <2>1, <3>1, <3>2 DEF OwnIInv
  <2>7. CASE Fits(i) /\ Execute(i) /\ ~BEGIN(i) /\ ~FAIL(i)
    <3>1. i.op # "BEGIN"
      BY <2>7, BeginsBegin
    <3>2. Runs(i)
      BY <2>1, <2>2, <2>3, <2>7, <3>1 DEF Runs, Compiled
    <3>3. END(i) => Depth # 1
      BY <1>2, <3>2, MainEnds
    <3> QED
      BY <2>1, <2>4, <2>7, <3>2, <3>3, OwnSteps
  <2> QED
    BY <2>2, <2>5, <2>6, <2>7
<1> QED
  BY <1>3, <1>4

LEMMA MachineInvariant == Spec => []MachineIInv
BY MachineInit, MachineInductive, PTL DEF Spec
=============================================================================

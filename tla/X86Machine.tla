------------------------------- MODULE X86Machine -------------------------------
(***************************************************************************)
(* A processor that runs what X86Code emits, with the functions of the     *)
(* runtime library that the code calls.  The hardware stack is a sequence, *)
(* its top last; %ebp holds a position in it, and %esp is its length.  The *)
(* heap is a sequence of objects that is never collected, with words for   *)
(* fields; the first field of a closure is the address of its code.        *)
(*                                                                         *)
(* Words are not bounded.  An instruction whose operands make no sense     *)
(* (arithmetic on addresses, a jump to what is no code, a read outside the *)
(* stack) is not enabled, and a register that a call need not preserve     *)
(* makes no sense after it.                                                *)
(***************************************************************************)
EXTENDS X86Code, LamaValues

VARIABLES
  ip,            (* the next instruction                                   *)
  regs,          (* the registers, R(0) to R(6)                            *)
  flags,         (* the sign of the latest result                          *)
  hstack, glob, store, out, outcome

memory == <<hstack, glob, store>>
machine == <<ip, regs, flags, hstack, glob, store, out, outcome>>

Junk == [kind |-> "junk"]
Exit == [kind |-> "exit"]                      \* where main returns to
Return(p) == [kind |-> "return", p |-> p]
Frame(n) == [kind |-> "frame", n |-> n]

Registers == 0 .. ebp.n

Start(globals) ==
  /\ ip = 1 /\ regs = [r \in Registers |-> Junk] /\ flags = 0
  /\ hstack = <<Exit>> /\ glob = [x \in globals |-> Word(1)] /\ store = <<>>
  /\ out = <<>> /\ outcome = "running"

-----------------------------------------------------------------------------
(* Cells: where an operand is.                                             *)
Cell(at, a, i) == [at |-> at, a |-> a, i |-> i]

CellOf(x) ==
  CASE x.o = "R" -> Cell("reg", 0, x.n)
    [] x.o = "S" -> Cell("stack", 0, regs[ebp.n].n + x.n + (IF x.n < 0 THEN -1 ELSE 1))
    [] x.o = "C" -> Cell("stack", 0, regs[ebp.n].n - 1)
    [] x.o = "M" -> Cell("glob", 0, x.x)
    [] x.o = "I" -> Cell("heap", regs[x.r.n].a, x.n + 1)

Exists(c) ==
  CASE c.at = "reg"   -> TRUE
    [] c.at = "stack" -> c.i \in DOMAIN hstack
    [] c.at = "glob"  -> c.i \in DOMAIN glob
    [] c.at = "heap"  -> c.i \in DOMAIN store[c.a].fields

Sensible(x) ==
  /\ x.o \in {"S", "C"} => regs[ebp.n].kind = "frame"
  /\ x.o = "I" => HasKind(store, regs[x.r.n], "closure")
  /\ x.o # "L" => Exists(CellOf(x))

Content(c) ==
  CASE c.at = "reg"   -> regs[c.i]
    [] c.at = "stack" -> hstack[c.i]
    [] c.at = "glob"  -> glob[c.i]
    [] c.at = "heap"  -> store[c.a].fields[c.i]

Value(x) == IF x.o = "L" THEN x.w ELSE Content(CellOf(x))
IsInt(x) == Sensible(x) /\ IsNum(Value(x))

StoreAt(c, w) ==
  /\ hstack' = IF c.at = "stack" THEN [hstack EXCEPT ![c.i] = w] ELSE hstack
  /\ glob' = IF c.at = "glob" THEN [glob EXCEPT ![c.i] = w] ELSE glob
  /\ store' = IF c.at = "heap" THEN [store EXCEPT ![c.a].fields[c.i] = w] ELSE store

Put(y, w) ==
  /\ Sensible(y)
  /\ StoreAt(CellOf(y), w)
  /\ regs' = IF y.o = "R" THEN [regs EXCEPT ![y.n] = w] ELSE regs

Further == ip' = ip + 1 /\ UNCHANGED <<out, outcome>>

-----------------------------------------------------------------------------
(* Moves, and the hardware stack.                                          *)
Move(i) ==
  /\ \/ i.op = "Mov" /\ Sensible(i.x) /\ Put(i.y, Value(i.x))
     \/ i.op = "Lea" /\ Sensible(i.x)
        /\ Put(i.y, [kind |-> "address", c |-> CellOf(i.x)])
  /\ Further /\ UNCHANGED flags

Push1(i) ==
  /\ i.op = "Push" /\ Sensible(i.x)
  /\ hstack' = Append(hstack, Value(i.x))
  /\ Further /\ UNCHANGED <<regs, flags, glob, store>>

Pop1(i) ==
  /\ i.op = "Pop"
  /\ regs' = [regs EXCEPT ![i.y.n] = Last(hstack)]
  /\ hstack' = Front(hstack)
  /\ Further /\ UNCHANGED <<flags, glob, store>>

Frames(i) ==
  /\ \/ /\ i.op = "Free" /\ i.n <= Len(hstack)
        /\ hstack' = SubSeq(hstack, 1, Len(hstack) - i.n) /\ UNCHANGED regs
     \/ /\ i.op = "SetFrame"
        /\ regs' = [regs EXCEPT ![ebp.n] = Frame(Len(hstack))] /\ UNCHANGED hstack
     \/ /\ i.op = "DropFrame" /\ regs[ebp.n].kind = "frame"
        /\ hstack' = SubSeq(hstack, 1, regs[ebp.n].n) /\ UNCHANGED regs
     \/ /\ i.op = "Fill"
        /\ hstack' = hstack \o [n \in 1 .. env.sizes[i.fn] |-> Word(1)]
        /\ regs' = [r \in Registers |-> IF r \in 1 .. 3 THEN Junk ELSE regs[r]]
  /\ Further /\ UNCHANGED <<flags, glob, store>>

-----------------------------------------------------------------------------
(* Arithmetic on words.  Of a conjunction or a disjunction of unlike words *)
(* only whether it is zero matters to the code.                            *)
Bits(f, v, w) ==
  CASE f = "&&" -> IF v = w THEN v ELSE v * w
    [] f = "!!" -> Abs(v) + Abs(w)

Clears(i) == i.op = "Binop" /\ i.f = "^" /\ i.x = i.y   \* whatever there was

Result(f, v, w) == IF f \in {"+", "-", "*"} THEN Apply(f, w, v) ELSE Bits(f, v, w)

Sign(n) == IF n < 0 THEN -1 ELSE IF n = 0 THEN 0 ELSE 1

Unary == {"Dec", "Or1", "Sal1", "Sar1"}
Changed(op, n) ==
  CASE op = "Dec" -> n - 1       [] op = "Or1"  -> n + 1 - (n % 2)
    [] op = "Sal1" -> 2 * n      [] op = "Sar1" -> n \div 2

Calculate(i) ==
  /\ \/ /\ i.op \in Unary /\ IsInt(i.y)
        /\ LET n == Changed(i.op, Value(i.y).n)
           IN  Put(i.y, Word(n)) /\ flags' = Sign(n)
     \/ /\ i.op = "Binop" /\ i.f # "cmp"
        /\ Clears(i) \/ (IsInt(i.x) /\ IsInt(i.y))
        /\ LET n == IF Clears(i) THEN 0
                    ELSE Result(i.f, Value(i.x).n, Value(i.y).n)
           IN  Put(i.y, Word(n)) /\ flags' = Sign(n)
  /\ Further

Unordered == 2          \* addresses are the same, or they differ

Compare(i) ==
  /\ i.op = "Binop" /\ i.f = "cmp" /\ Sensible(i.x) /\ Sensible(i.y)
  /\ LET v == Value(i.x)
         w == Value(i.y)
     IN  /\ {v.kind, w.kind} \subseteq {"int", "obj"}
         /\ flags' = IF IsNum(v) /\ IsNum(w) THEN Sign(w.n - v.n)
                     ELSE IF v = w THEN 0 ELSE Unordered
  /\ Further /\ UNCHANGED <<regs, memory>>

Divide(i) ==
  /\ \/ /\ i.op = "Cltd" /\ IsNum(regs[eax.n])
        /\ regs' = [regs EXCEPT ![edx.n] = Word(IF regs[eax.n].n < 0 THEN -1 ELSE 0)]
     \/ /\ i.op = "IDiv" /\ IsInt(i.x) /\ Value(i.x).n # 0
        /\ regs[edx.n] = Word(IF regs[eax.n].n < 0 THEN -1 ELSE 0)
        /\ regs' = [regs EXCEPT
             ![eax.n] = Word(Apply("/", regs[eax.n].n, Value(i.x).n)),
             ![edx.n] = Word(Apply("%", regs[eax.n].n, Value(i.x).n))]
  /\ Further /\ UNCHANGED <<flags, memory>>

Condition ==
  [l |-> {-1}, le |-> {-1, 0}, e |-> {0}, ne |-> {-1, 1, Unordered}, ge |-> {0, 1},
   g |-> {1}, z |-> {0}, nz |-> {-1, 1, Unordered}]

Known(c) == flags = Unordered => c \in {"e", "ne", "z", "nz"}

SetFlag(i) ==
  /\ i.op = "Set" /\ Known(i.c) /\ IsNum(regs[i.y.n])
  /\ LET n == regs[i.y.n].n
     IN  regs' = [regs EXCEPT ![i.y.n] = Word(n - (n % 256) + Truth(flags \in Condition[i.c]))]
  /\ Further /\ UNCHANGED <<flags, memory>>

-----------------------------------------------------------------------------
(* The runtime library.  The first argument is below base other words.     *)
Arg(base, n) == hstack[Len(hstack) - base - n + 1]
ArgsFrom(n, m) == [k \in 1 .. m - n + 1 |-> Arg(0, n + k - 1)]

IsBoxed(w) == IsNum(w) /\ w.n % 2 = 1
Unboxed(w) == (w.n - 1) \div 2

Returning(w) == regs' = [regs EXCEPT ![eax.n] = w, ![ecx.n] = Junk, ![edx.n] = Junk]

Constructed(f) ==
  LET n == Unboxed(Arg(0, 1))
      literal == CString(Arg(0, 1).s, 0)
  IN  CASE f = "Bstring" ->
             Object("string", "", [k \in DOMAIN literal |-> Box(literal[k])])
        [] f = "Barray"   -> Object("array", "", ArgsFrom(2, n + 1))
        [] f = "Bsexp"    -> Object("sexp", Arg(0, n + 1).t, ArgsFrom(2, n))
        [] f = "Bclosure" -> Object("closure", "", ArgsFrom(2, n + 2))

Tested(f) ==
  LET d == Arg(0, 1)
      e == Arg(0, 2)
  IN  CASE f = "Btag" -> /\ HasKind(store, d, "sexp") /\ store[d.a].tag = e.t
                         /\ HasArity(store, d, Unboxed(Arg(0, 3)))
        [] f = "Barray_patt" -> /\ HasKind(store, d, "array")
                                /\ HasArity(store, d, Unboxed(e))
        [] f = "Bstring_patt" -> /\ HasKind(store, d, "string")
                                 /\ CString(Fields(store, d), Box(0))
                                      = CString(Fields(store, e), Box(0))
        [] f = "Bboxed_patt" -> ~IsBoxed(d)
        [] f = "Bunboxed_patt" -> IsBoxed(d)
        [] f = "Barray_tag_patt" -> HasKind(store, d, "array")
        [] f = "Bstring_tag_patt" -> HasKind(store, d, "string")
        [] f = "Bsexp_tag_patt" -> HasKind(store, d, "sexp")
        [] f = "Bclosure_tag_patt" -> HasKind(store, d, "closure")

Tests == {"Btag", "Barray_patt", "Bstring_patt", "Bboxed_patt", "Bunboxed_patt",
          "Barray_tag_patt", "Bstring_tag_patt", "Bsexp_tag_patt",
          "Bclosure_tag_patt"}
Constructors == {"Bstring", "Barray", "Bsexp", "Bclosure"}

Elem(f) ==
  LET v == Arg(0, 1)
      n == Arg(0, 2)
      x == Arg(0, 3)
  IN  \/ /\ f = "Belem" /\ IsBoxed(n) /\ HasElem(store, v, Num(Unboxed(n)))
         /\ LET w == ElemOf(store, v, Num(Unboxed(n)))
            IN  Returning(IF HasKind(store, v, "string")
                          THEN Box(SignedChar(Unboxed(w))) ELSE w)
         /\ UNCHANGED memory
      \/ /\ f = "Bsta" /\ Returning(v)
         /\ \/ /\ IsBoxed(n) /\ HasElem(store, x, Num(Unboxed(n)))
               /\ HasKind(store, x, "string") => Unboxed(v) \in Char
               /\ store' = WithElem(store, x, Num(Unboxed(n)), v)
               /\ UNCHANGED <<hstack, glob>>
            \/ /\ n.kind = "address" /\ x.kind = "address" /\ Exists(x.c)
               /\ StoreAt(x.c, v)

\* Lwrite and Llength
Standard(f, base) ==
  LET v == Arg(base, 1)
  IN  \/ /\ f = "Lwrite" /\ IsBoxed(v)
         /\ out' = Append(out, Unboxed(v)) /\ Returning(Word(0))
      \/ /\ f = "Llength" /\ IsObj(v) /\ ~HasKind(store, v, "closure")
         /\ Returning(Box(Len(Fields(store, v)))) /\ UNCHANGED out

Library(i) ==
  /\ i.op = "Call"
  /\ \/ /\ i.f \in Constructors
        /\ store' = Append(store, Constructed(i.f)) /\ Returning(NewRef(store))
        /\ Further /\ UNCHANGED <<flags, hstack, glob>>
     \/ /\ i.f \in Tests /\ Returning(Box(Truth(Tested(i.f))))
        /\ Further /\ UNCHANGED <<flags, memory>>
     \/ Elem(i.f) /\ Further /\ UNCHANGED flags
     \/ Standard(i.f, 0) /\ ip' = ip + 1 /\ UNCHANGED <<flags, memory, outcome>>
     \/ /\ i.f = "Bmatch_failure" /\ outcome' = "failed"
        /\ UNCHANGED <<ip, regs, flags, memory, out>>

-----------------------------------------------------------------------------
(* Control.                                                                *)
Target(l) == CHOOSE p \in DOMAIN asm : asm[p] = Label(l)

Jump(i) ==
  /\ \/ i.op = "Label" /\ ip' = ip + 1
     \/ i.op = "Jmp" /\ ip' = Target(i.l)
     \/ i.op = "CJmp" /\ Known(i.c)
        /\ ip' = IF flags \in Condition[i.c] THEN Target(i.l) ELSE ip + 1
     \/ /\ i.op = "JmpI" /\ Value(i.x).kind = "code"
        /\ ip' = Target(Value(i.x).p)
  /\ UNCHANGED <<regs, flags, memory, out, outcome>>

Transfer(i) ==
  /\ \/ i.op = "CallAt" /\ ip' = Target(i.l)
     \/ /\ i.op = "CallI" /\ HasKind(store, Value(i.x), "closure")
        /\ ip' = Target(Head(Fields(store, Value(i.x))).p)
  /\ hstack' = Append(hstack, Return(ip + 1))
  /\ UNCHANGED <<regs, flags, glob, store, out, outcome>>

GoBack(i) ==
  /\ hstack' = Front(hstack)
  /\ \/ /\ Last(hstack).kind = "return" /\ ip' = Last(hstack).p
        /\ UNCHANGED outcome
     \/ /\ Last(hstack) = Exit /\ outcome' = "ended" /\ UNCHANGED ip
  /\ \/ i.op = "Ret" /\ UNCHANGED <<regs, out>>
     \/ i.op = "JmpTo" /\ Standard(i.f, 1)
  /\ UNCHANGED <<flags, glob, store>>

Execute(i) ==
  \/ Move(i) \/ Push1(i) \/ Pop1(i) \/ Frames(i)
  \/ Calculate(i) \/ Compare(i) \/ Divide(i) \/ SetFlag(i)
  \/ Library(i) \/ Jump(i) \/ Transfer(i) \/ GoBack(i)

Next == outcome = "running" /\ Execute(asm[ip])
===============================================================================

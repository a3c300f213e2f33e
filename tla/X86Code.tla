-------------------------------- MODULE X86Code --------------------------------
(***************************************************************************)
(* The code generator of src/src/X86.ml: a symbolic evaluation of stack    *)
(* code, which goes through the code once and in the order of the text.    *)
(* Its stack holds, for every value on the stack of the stack machine, the *)
(* register or the slot of the frame that the value is in.                 *)
(*                                                                         *)
(* Behind a jump the code is dead (a barrier) up to a label for which a    *)
(* stack was set by a jump; what is dead is not emitted.                   *)
(*                                                                         *)
(* Stack code is that of StackMachine; the position of a label is its      *)
(* name.  Offsets are in words.  Left out are what is emitted for the      *)
(* debugger and for the start of the process, and the numbers that strings *)
(* and tags of S-expressions are coded by.                                 *)
(***************************************************************************)
EXTENDS Integers, SequencesExt, TLC

CONSTANT Main    (* the label of the program's own code                    *)

VARIABLES
  code,          (* the stack code                                         *)
  pos,           (* how far it has been compiled                           *)
  env,           (* the environment                                        *)
  asm            (* what has been emitted                                  *)

-----------------------------------------------------------------------------
(* Operands: a register, a slot of the frame (a negative one: an argument),*)
(* the saved closure, a global, an immediate word, the field of a closure. *)
R(n) == [o |-> "R", n |-> n]
S(n) == [o |-> "S", n |-> n]
C == [o |-> "C"]
M(x) == [o |-> "M", x |-> x]
L(w) == [o |-> "L", w |-> w]
I(n, r) == [o |-> "I", n |-> n, r |-> r]

num_of_regs == 3
ebx == R(0)
ecx == R(1)
eax == R(4)
edx == R(5)
ebp == R(6)

Word(n) == [kind |-> "int", n |-> n]
Box(n) == Word(2 * n + 1)
CodeAt(p) == [kind |-> "code", p |-> p]           \* $label
Text(s) == [kind |-> "text", s |-> s]             \* $string_n
Hash(t) == [kind |-> "tag", t |-> t]              \* box (env#hash t)

-----------------------------------------------------------------------------
(* Instructions.                                                           *)
Mov(x, y) == [op |-> "Mov", x |-> x, y |-> y]
Lea(x, y) == [op |-> "Lea", x |-> x, y |-> y]
Binop(f, x, y) == [op |-> "Binop", f |-> f, x |-> x, y |-> y]
IDiv(x) == [op |-> "IDiv", x |-> x]
Cltd == [op |-> "Cltd"]
SetByte(c, y) == [op |-> "Set", c |-> c, y |-> y]  \* Set, of %al or %dl
Push(x) == [op |-> "Push", x |-> x]
Pop(y) == [op |-> "Pop", y |-> y]
Call(f) == [op |-> "Call", f |-> f]                \* of the runtime
CallAt(l) == [op |-> "CallAt", l |-> l]            \* of a label
CallI(x) == [op |-> "CallI", x |-> x]
Ret == [op |-> "Ret"]
Label(l) == [op |-> "Label", l |-> l]
CJmp(c, l) == [op |-> "CJmp", c |-> c, l |-> l]
Jmp(l) == [op |-> "Jmp", l |-> l]
JmpTo(f) == [op |-> "JmpTo", f |-> f]              \* to a runtime function
JmpI(x) == [op |-> "JmpI", x |-> x]                \* jmp *%eax
Dec(y) == [op |-> "Dec", y |-> y]
Or1(y) == [op |-> "Or1", y |-> y]
Sal1(y) == [op |-> "Sal1", y |-> y]
Sar1(y) == [op |-> "Sar1", y |-> y]
Free(n) == [op |-> "Free", n |-> n]                \* esp up by n words
SetFrame == [op |-> "SetFrame"]                    \* Mov (esp, ebp)
DropFrame == [op |-> "DropFrame"]                  \* Mov (ebp, esp)
Fill(fn) == [op |-> "Fill", fn |-> fn]             \* the frame, by Repmovsl

Pushes(xs) == [n \in DOMAIN xs |-> Push(xs[n])]
Pops(ys) == Reverse([n \in DOMAIN ys |-> Pop(ys[n])])
When(c, s) == IF c THEN s ELSE <<>>

-----------------------------------------------------------------------------
(* class env.  sizes: the slots of the functions compiled.  For what is to *)
(* hold of the code: the jumps and the labels emitted, each with the stack *)
(* there, and trace, for every instruction of the stack code, where its    *)
(* code begins, and the stack and has_closure there.                       *)
env0 ==
  [stack |-> <<>>, stackmap |-> <<>>, barrier |-> FALSE, stack_slots |-> 0,
   static_size |-> 0, nargs |-> 0, has_closure |-> FALSE, fname |-> Main,
   sizes |-> <<>>, jumps |-> {}, labels |-> {}, trace |-> <<>>]

loc(e, d) ==
  CASE d.where = "Global" -> M(d.i)
    [] d.where = "Local"  -> S(d.i)
    [] d.where = "Arg"    -> S(-(d.i + (IF e.has_closure THEN 2 ELSE 1)))
    [] d.where = "Access" -> I(d.i + 1, edx)

(* What allocate allocates.                                                *)
Fresh(e) ==
  LET x == Last(e.stack)
  IN  IF e.stack = <<>> THEN ebx
      ELSE IF x.o = "S" THEN S(x.n + 1)
      ELSE IF x.o = "R" /\ x.n < num_of_regs THEN R(x.n + 1)
      ELSE S(e.static_size)

allocate(e) ==
  LET x == Fresh(e)
  IN  [e EXCEPT !.stack = Append(@, x),
                !.stack_slots = IF x.o = "S" /\ x.n + 1 > @ THEN x.n + 1 ELSE @]

pop(e, n) == [e EXCEPT !.stack = SubSeq(@, 1, Len(@) - n)]
Operands(e, n) == SubSeq(e.stack, Len(e.stack) - n + 1, Len(e.stack))
peek(e) == Last(e.stack)

set_stack(e, l) ==
  [e EXCEPT !.stackmap = (l :> e.stack) @@ @, !.jumps = @ \cup {<<l, e.stack>>}]

enter(e, i) ==
  [e EXCEPT !.nargs = i.n, !.static_size = i.locals, !.stack_slots = i.locals,
            !.stack = <<>>, !.fname = i.fn, !.has_closure = i.closure # <<>>]

leave(e) == [e EXCEPT !.sizes = (e.fname :> e.stack_slots) @@ @]

reload_closure(e) == When(e.has_closure, <<Mov(C, edx)>>)

\* Mutant: the operand below the top depth ones counts as one of them.
live_registersShallow(e, depth) ==
  SelectSeq(SubSeq(e.stack, 1, Len(e.stack) - depth - 1), LAMBDA x : x.o = "R")

(* Registers in use below the top depth operands.                          *)
live_registers(e, depth) ==
  SelectSeq(SubSeq(e.stack, 1, Len(e.stack) - depth), LAMBDA x : x.o = "R")

-----------------------------------------------------------------------------
(* What is emitted for an instruction, with the environment after it.      *)
Emit(e, s) == [env |-> e, asm |-> s]

OnStack(x) == x.o = "S"
InMemory(x) == x.o \in {"S", "M"}

\* Mutant: memory is copied to memory.
movDirect(x, y) == <<Mov(x, y)>>

mov(x, y) ==
  IF OnStack(x) /\ OnStack(y) THEN <<Mov(x, eax), Mov(eax, y)>> ELSE <<Mov(x, y)>>

ThroughEax(x, y, direct) ==
  IF direct THEN <<Mov(x, y)>> ELSE <<Mov(x, eax), Mov(eax, y)>>

\* Calls.
Saved(e, n) == When(e.has_closure, <<edx>>) \o live_registers(e, n)

(* n operands and the m below them are consumed; pushed are the arguments. *)
Calling(e, n, m, pushed, transfer) ==
  LET rest == pop(e, n + m)
  IN  Emit(allocate(rest),
           Pushes(Saved(e, n)) \o Pushes(pushed) \o transfer
             \o <<Free(Len(pushed))>> \o Pops(Saved(e, n))
             \o <<Mov(eax, Fresh(rest))>>)

(* The arguments of a tail call take the place of those of the caller.     *)
MovesToArgs(e, n) ==
  LET args == Operands(e, n)
      Moved(k) == LET y == loc(e, [where |-> "Arg", i |-> k - 1])
                  IN  When(args[k] # y, mov(args[k], y))
  IN  FlattenSeq([k \in 1 .. n |-> Moved(k)])

Leaving(e) == <<DropFrame, Pop(ebp)>> \o When(e.has_closure, <<Pop(ebx)>>)

IsTail(e, i) == i.tail /\ e.nargs = i.n

Tailcall(e, n, m, transfer, jump) ==
  Emit(allocate(pop(e, n + m)), MovesToArgs(e, n) \o transfer \o Leaving(e) \o jump)

Runtime(e, f, n) ==
  LET args == Operands(e, n)
      pushed == CASE f = "Bsta" -> args
                  [] f \in {"Barray", "Bsexp"} ->
                       Reverse(<<L(Box(n))>> \o args)
                  [] OTHER -> Reverse(args)
  IN  Calling(e, n, 0, pushed, <<Call(f)>>)

\* CALL of a function of the program, or of the runtime by its name.
CompileCall(e, i) ==
  IF i.op = "CALL"
  THEN IF IsTail(e, i) THEN Tailcall(e, i.n, 0, <<>>, <<Jmp(i.fn)>>)
       ELSE Calling(e, i.n, 0, Reverse(Operands(e, i.n)), <<CallAt(i.fn)>>)
  ELSE LET f == "L" \o i.op
       IN  IF IsTail(e, i) THEN Tailcall(e, i.n, 0, <<>>, <<JmpTo(f)>>)
           ELSE Runtime(e, f, i.n)

CompileCallc(e, i) ==
  LET closure == Head(Operands(e, i.n + 1))
  IN  IF IsTail(e, i)
      THEN Tailcall(e, i.n, 1, <<Mov(closure, edx), Mov(I(0, edx), eax)>>, <<JmpI(eax)>>)
      ELSE Calling(e, i.n, 1, Reverse(Operands(e, i.n)),
                   IF OnStack(closure)
                   THEN <<Mov(closure, edx), Mov(edx, eax), CallI(eax)>>
                   ELSE <<Mov(closure, edx), CallI(closure)>>)

CompileClosure(e, i) ==
  LET n == Len(i.ds)
      captured == [k \in 1 .. n |-> loc(e, i.ds[k])]
  IN  Emit(allocate(e),
           Pushes(live_registers(e, 0)) \o Pushes(Reverse(captured))
             \o <<Push(L(CodeAt(i.fn))), Push(L(Box(n))), Call("Bclosure"),
                  Free(n + 2), Mov(eax, Fresh(e))>>
             \o Pops(live_registers(e, 0)) \o reload_closure(e))

\* The literal w, and then a runtime function of it and n operands below.
After(s, c) == Emit(c.env, s \o c.asm)

WithLiteral(e, w, f, n) ==
  After(<<Mov(L(w), Fresh(e))>>, Runtime(allocate(e), f, n + 1))

CompileTag(e, i) ==
  After(<<Mov(L(Hash(i.t)), Fresh(e))>>,
        WithLiteral(allocate(e), Box(i.n), "Btag", 2))

-----------------------------------------------------------------------------
(* Operators, of x on top and y below it, which gets the result.           *)
Suffix == ("<" :> "l") @@ ("<=" :> "le") @@ ("==" :> "e") @@ ("!=" :> "ne")
            @@ (">=" :> "ge") @@ (">" :> "g")

\* What is in eax, boxed, to y.
Boxed(y) == <<Sal1(eax), Or1(eax), Mov(eax, y)>>

Comparison(e, f, x, y) ==
  <<Binop("^", eax, eax)>>
    \o (IF InMemory(x) THEN <<Mov(x, edx), Binop("cmp", edx, y)>>
        ELSE <<Binop("cmp", x, y)>>)
    \o <<SetByte(Suffix[f], eax)>> \o Boxed(y)
    \o When(InMemory(x), reload_closure(e))

Quotients(x, y) == <<Mov(y, eax), Sar1(eax), Cltd, Sar1(x), IDiv(x)>>

Arithmetic(e, f, x, y) ==
  CASE f = "/" -> Quotients(x, y) \o Boxed(y)
    [] f = "%" -> Quotients(x, y) \o <<Sal1(edx), Or1(edx), Mov(edx, y)>>
                    \o reload_closure(e)
    [] f = "*" -> <<Dec(y), Mov(x, eax), Sar1(eax)>>
                    \o (IF OnStack(y) THEN <<Binop(f, y, eax), Or1(eax), Mov(eax, y)>>
                        ELSE <<Binop(f, eax, y), Or1(y)>>)
    [] f = "&&" -> <<Dec(x), Mov(x, eax), Binop(f, x, eax), Mov(L(Word(0)), eax),
                     SetByte("ne", eax), Dec(y), Mov(y, edx), Binop(f, y, edx),
                     Mov(L(Word(0)), edx), SetByte("ne", edx), Binop(f, edx, eax),
                     SetByte("ne", eax)>> \o Boxed(y) \o reload_closure(e)
    [] f = "!!" -> <<Mov(y, eax), Sar1(eax), Sar1(x), Binop(f, x, eax),
                     Mov(L(Word(0)), eax), SetByte("ne", eax)>> \o Boxed(y)
    [] f = "+" -> IF OnStack(x) /\ OnStack(y)
                  THEN <<Mov(x, eax), Dec(eax), Binop(f, eax, y)>>
                  ELSE <<Binop(f, x, y), Dec(y)>>
    [] f = "-" -> IF OnStack(x) /\ OnStack(y)
                  THEN <<Mov(x, eax), Binop(f, eax, y), Or1(y)>>
                  ELSE <<Binop(f, x, y), Or1(y)>>
    [] OTHER -> Comparison(e, f, x, y)

CompileBinop(e, i) ==
  Emit(pop(e, 1), Arithmetic(e, i.f, peek(e), Head(Operands(e, 2))))

-----------------------------------------------------------------------------
(* Variables, control, functions.                                          *)
Patterns ==
  [StrCmp |-> "Bstring_patt", Boxed |-> "Bboxed_patt", UnBoxed |-> "Bunboxed_patt",
   Array |-> "Barray_tag_patt", String |-> "Bstring_tag_patt",
   Sexp |-> "Bsexp_tag_patt", Closure |-> "Bclosure_tag_patt"]

CompileBegin(e, i) ==
  LET entered == enter(e, i)
  IN  Emit(entered, When(entered.has_closure, <<Push(edx)>>)
                      \o <<Push(ebp), SetFrame, Fill(i.fn)>>)

CompileEnd(e) ==
  Emit(leave(pop(e, 1)),
       <<Mov(peek(e), eax), DropFrame, Pop(ebp)>>
         \o When(e.has_closure, <<Pop(edx)>>)
         \o When(e.fname = Main, <<Binop("^", eax, eax)>>) \o <<Ret>>)

CompileFail(e, i) ==
  Emit(IF i.value THEN e ELSE pop(e, 1),
       <<Push(L(Text(<<>>))), Push(peek(e)), Call("Bmatch_failure"), Free(2)>>)

CompileLda(e, i) ==
  LET once == allocate(e)
  IN  Emit(allocate(once),
           <<Lea(loc(e, i.d), eax), Mov(eax, Fresh(e)), Mov(eax, Fresh(once))>>)

AtLabel(e, l) ==
  Emit([e EXCEPT !.barrier = FALSE, !.labels = @ \cup {<<l, e.stack>>}], <<Label(l)>>)

Dead(e, i, p) ==
  CASE i.op = "LABEL" ->
         IF p \in DOMAIN e.stackmap
         THEN AtLabel([e EXCEPT !.stack = e.stackmap[p]], p)
         ELSE Emit([e EXCEPT !.stack = <<>>], <<>>)
    [] i.op = "FLABEL" -> AtLabel(e, p)
    [] OTHER -> Emit(e, <<>>)

Live(e, i, p) ==
  CASE i.op \in {"LABEL", "FLABEL"} -> AtLabel(e, p)
    [] i.op = "CLOSURE" -> CompileClosure(e, i)
    [] i.op = "CONST"  -> Emit(allocate(e), <<Mov(L(Box(i.n)), Fresh(e))>>)
    [] i.op = "STRING" -> WithLiteral(e, Text(i.s), "Bstring", 0)
    [] i.op = "LDA"    -> CompileLda(e, i)
    [] i.op = "LD"     -> Emit(allocate(e), ThroughEax(loc(e, i.d), Fresh(e),
                                                       ~InMemory(Fresh(e))))
    [] i.op = "ST"     -> Emit(e, ThroughEax(peek(e), loc(e, i.d), ~InMemory(peek(e))))
    [] i.op = "STA"    -> Runtime(e, "Bsta", 3)
    [] i.op = "BINOP"  -> CompileBinop(e, i)
    [] i.op = "JMP"    -> Emit([set_stack(e, i.l) EXCEPT !.barrier = TRUE], <<Jmp(i.l)>>)
    [] i.op = "CJMP"   ->
         Emit(set_stack(pop(e, 1), i.l),
              <<Sar1(peek(e)), Binop("cmp", L(Word(0)), peek(e)), CJmp(i.c, i.l)>>)
    [] i.op = "BEGIN"  -> CompileBegin(e, i)
    [] i.op = "END"    -> CompileEnd(e)
    [] i.op = "ELEM"   -> Runtime(e, "Belem", 2)
    [] i.op = ".array" -> Runtime(e, "Barray", i.n)
    [] i.op \in {"CALL", "write", "length"} -> CompileCall(e, i)
    [] i.op = "CALLC"  -> CompileCallc(e, i)
    [] i.op = "SEXP"   -> WithLiteral(e, Hash(i.t), "Bsexp", i.n)
    [] i.op = "DROP"   -> Emit(pop(e, 1), <<>>)
    [] i.op = "DUP"    -> Emit(allocate(e), mov(peek(e), Fresh(e)))
    [] i.op = "TAG"    -> CompileTag(e, i)
    [] i.op = "ARRAY"  -> WithLiteral(e, Box(i.n), "Barray_patt", 1)
    [] i.op = "PATT"   -> Runtime(e, Patterns[i.p], IF i.p = "StrCmp" THEN 2 ELSE 1)
    [] i.op = "FAIL"   -> CompileFail(e, i)

(* How many operands an instruction needs; at BEGIN and END no others may  *)
(* be there.                                                               *)
Needs(i) ==
  CASE i.op \in {"ST", "CJMP", "END", "DROP", "DUP", "TAG", "ARRAY", "FAIL"} -> 1
    [] i.op \in {"BINOP", "ELEM"} -> 2
    [] i.op = "STA" -> 3
    [] i.op \in {"SEXP", ".array", "CALL", "write", "length"} -> i.n
    [] i.op = "CALLC" -> i.n + 1
    [] i.op = "PATT" -> IF i.p = "StrCmp" THEN 2 ELSE 1
    [] OTHER -> 0

Compilable(e, i) ==
  \/ e.barrier
  \/ IF i.op \in {"BEGIN", "END"} THEN Len(e.stack) = Needs(i)
     ELSE Len(e.stack) >= Needs(i)

(* At a label the stack is the one found there.                            *)
Traced(before, after, i) ==
  [asm |-> Len(asm) + 1, has_closure |-> after.has_closure,
   stack |-> IF i.op \in {"LABEL", "FLABEL"} THEN after.stack ELSE before.stack]

Init == pos = 0 /\ env = env0 /\ asm = <<>>

Emitted(i, done) ==
  /\ env' = [done.env EXCEPT !.trace = Append(@, Traced(env, done.env, i))]
  /\ asm' = asm \o done.asm

(* One call of compile', for the next instruction.                         *)
Generate ==
  /\ pos < Len(code)
  /\ \E i \in code[pos + 1] :
       /\ Compilable(env, i)
       /\ Emitted(i, IF env.barrier THEN Dead(env, i, pos + 1) ELSE Live(env, i, pos + 1))
  /\ pos' = pos + 1
  /\ UNCHANGED code

Generated == pos = Len(code)

-----------------------------------------------------------------------------
(* No operand is where another way to the same label leaves it: the stacks *)
(* of all jumps to a label, and of the code before it, are the same.       *)
StacksAgree == \A k, l \in env.jumps \cup env.labels : k[1] = l[1] => k = l

(* Labels that are jumped to are not taken for dead code.                  *)
TargetsEmitted == Generated => env.jumps \subseteq env.labels

(* An instruction of the processor has at most one operand in memory.      *)
MemoryOperands(i) ==
  IF i.op \in {"Mov", "Binop"} THEN {z \in {"x", "y"} : i[z].o \in {"S", "M", "I", "C"}}
  ELSE {}
OneInMemory ==
  \A n \in DOMAIN asm : Cardinality(MemoryOperands(asm[n])) <= 1
================================================================================

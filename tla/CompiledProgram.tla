---------------------------- MODULE CompiledProgram ----------------------------
(***************************************************************************)
(* A program evaluated from its source by ExprEval, compiled by            *)
(* CompileExpr and run by StackMachine, and compiled further by X86Code    *)
(* and run by X86Machine: the modes -i, -s and the default of the driver.  *)
(* First comes the evaluator, then the code generator, and then the two    *)
(* machines, the processor following the stack machine instruction by      *)
(* instruction.                                                            *)
(***************************************************************************)
EXTENDS CompileExpr

CONSTANTS
  Programs       (* expressions of the form [node |-> "Scope", ...]        *)

VARIABLES
  st, vs, expr, k, callers, rstore, rout, routcome,    (* the evaluator     *)
  code, pc, cstack, stack, glob, loc, store, out, outcome, (* the machine   *)
  pos, env, asm,                                 (* the generator, and what *)
  ip, regs, flags, hstack, xglob, xstore, xout, xoutcome,    (* it emits    *)
  dropped,       (* calls by depth whose frame a tail call has given up     *)
  taken          (* steps: of the evaluator, of the machine, and of the     *)
                 (* processor since the machine's last                      *)

source == <<st, vs, expr, k, callers, rstore, rout, routcome>>
machine == <<pc, cstack, stack, glob, loc, store, out, outcome>>
generator == <<pos, env, asm>>
processor == <<ip, regs, flags, hstack, xglob, xstore, xout, xoutcome>>
vars == <<source, code, machine, generator, processor, dropped, taken>>

NextPosition(p) == p + 1
PositionOf(p) == p

Source == INSTANCE ExprEval WITH
  store <- rstore, out <- rout, outcome <- routcome

Machine == INSTANCE StackMachine WITH
  Following <- NextPosition, Labeled <- PositionOf, Inputs <- {},
  EmptyGlobal <- Undefined, EmptyLocal <- Empty, NoResult <- Empty

X86 == INSTANCE X86Machine WITH
  glob <- xglob, store <- xstore, out <- xout, outcome <- xoutcome

Globals(e) == {e.ds[n].x : n \in {m \in DOMAIN e.ds : e.ds[m].what = "var"}}

Init ==
  /\ \E e \in Programs :
       /\ Source!Start(e)
       /\ code = Linked(compile(e))
       /\ glob = [x \in Globals(e) |-> Undefined]
       /\ X86!Start(Globals(e))
  /\ pc = 1
  /\ Machine!Init
  /\ X86!Init
  /\ dropped = {} /\ taken = [eval |-> 0, run |-> 0, lag |-> 0]

Evaluate ==
  /\ Source!Next
  /\ taken' = [taken EXCEPT !.eval = @ + 1]
  /\ UNCHANGED <<code, machine, generator, processor, dropped>>

Generate ==
  /\ routcome # "running"
  /\ X86!Generate /\ UNCHANGED <<source, machine, processor, dropped, taken>>

(* A tail call, in the stack machine, comes back to the function it is in, *)
(* and in the processor to that function's caller.                         *)
Instruction == CHOOSE i \in code[pc] : TRUE
TailCall(i) ==
  /\ i.op \in {"CALL", "CALLC", "write", "length"}
  /\ i.tail /\ i.n = Len(loc.args)

Depth == Len(cstack)
Followed == Depth \in dropped \/ ip = env.trace[pc].asm

Run ==
  /\ X86!Generated /\ Followed
  /\ Machine!Next
  /\ dropped' = CASE TailCall(Instruction) -> dropped \cup {Depth}
                   [] Instruction.op = "END" -> dropped \ {Depth}
                   [] OTHER -> dropped
  /\ taken' = [taken EXCEPT !.run = @ + 1, !.lag = 0]
  /\ UNCHANGED <<source, generator, processor>>

Execute ==
  /\ X86!Generated /\ (outcome # "running" \/ ~Followed)
  /\ X86!Next
  /\ taken' = [taken EXCEPT !.lag = @ + 1]
  /\ UNCHANGED <<source, code, machine, generator, dropped>>

Finished == outcome # "running" /\ xoutcome # "running"
Stop == Finished /\ UNCHANGED vars

Next == Evaluate \/ Generate \/ Run \/ Execute \/ Stop

Spec == Init /\ [][Next]_vars

-----------------------------------------------------------------------------
(* Equality of values, down to n levels of fields: of the evaluator's and  *)
(* the machine's, and of the machine's and the words of the processor.     *)
RECURSIVE SameValue(_, _, _), SameWord(_, _, _)
SameValue(v, w, n) ==
  /\ v.kind = w.kind
  /\ v.kind = "int" => v.n = w.n
  /\ v.kind = "obj" =>
       LET a == rstore[v.a]
           b == store[w.a]
       IN  /\ a.kind = b.kind
           /\ a.kind # "closure" =>
                a.tag = b.tag /\ Len(a.fields) = Len(b.fields)
           /\ a.kind # "closure" /\ n > 0 =>
                \A i \in DOMAIN a.fields :
                          SameValue(a.fields[i], b.fields[i], n - 1)

SameWord(v, w, n) ==
  CASE v.kind = "int" -> w = X86!Box(v.n)
    [] v.kind = "obj" ->
         LET a == store[v.a]
             b == xstore[w.a]
             entry == IF a.kind = "closure" THEN 1 ELSE 0
         IN  /\ w.kind = "obj" /\ a.kind = b.kind
             /\ Len(a.fields) + entry = Len(b.fields)
             /\ IF a.kind = "closure" THEN b.fields[1] = X86!CodeAt(a.tag)
                ELSE a.tag = b.tag
             /\ n > 0 => \A i \in DOMAIN a.fields :
                           SameWord(a.fields[i], b.fields[i + entry], n - 1)
    [] v.kind = "var" -> w.kind = "address"
    [] OTHER -> TRUE

Levels == 3

(***************************************************************************)
(* The compiler preserves the meaning of programs: the machine prints what *)
(* the evaluator prints, computes the same value, which is all it leaves   *)
(* on the stack, and fails to match where the evaluator does.              *)
(***************************************************************************)
MeaningPreserved ==
  outcome # "running" =>
    /\ outcome = routcome /\ out = rout
    /\ outcome = "ended" => Len(stack) = 1 /\ SameValue(vs[1], stack[1], Levels)

-----------------------------------------------------------------------------
(* LDA pushes one value in the machine, and twice the address in x86.      *)
Doubled(s) == FlattenSeq([n \in DOMAIN s |-> IF s[n].kind = "var"
                                             THEN <<s[n], s[n]>> ELSE <<s[n]>>])

Agrees(v, x) == X86!Sensible(x) /\ SameWord(v, X86!Value(x), Levels)

OperandsAgree(t) ==
  LET s == Doubled(stack)
      h == Len(t.stack)
  IN  h <= Len(s) /\ \A n \in 1 .. h : Agrees(s[Len(s) - h + n], t.stack[n])

VariablesAgree(t) ==
  LET Held(v, d) == v \in {Undefined, Empty} \/ Agrees(v, X86!loc(t, d))
  IN  /\ \A x \in DOMAIN glob : Held(glob[x], At("Global", x))
      /\ \A n \in DOMAIN loc.args : Held(loc.args[n], At("Arg", n - 1))
      /\ \A n \in DOMAIN loc.locals : Held(loc.locals[n], At("Local", n - 1))
      /\ t.has_closure => /\ Agrees(Obj(loc.closure), X86!edx)
                          /\ X86!Value(X86!C) = X86!Value(X86!edx)

(* The processor is where the stack machine is, in a frame of its own.     *)
Together ==
  X86!Generated /\ outcome = "running" /\ Depth \notin dropped /\ Followed

Entering == Instruction.op = "BEGIN" \/ "fn" \in DOMAIN Instruction

(***************************************************************************)
(* The processor follows the stack machine: whenever both come to the same *)
(* instruction, the operands are in the registers and slots the symbolic   *)
(* stack has them in, variables in their places, the closure in %edx and   *)
(* in its slot, and the same has been printed; and it ends as the program  *)
(* does.                                                                   *)
(***************************************************************************)
InStep ==
  /\ Together => /\ OperandsAgree(env.trace[pc]) /\ xout = out
                 /\ Entering \/ VariablesAgree(env.trace[pc])
  /\ Finished => xoutcome = routcome /\ xout = rout

(* Wherever two ways through the code meet, the operands are in the same   *)
(* places, and no label that is jumped to is taken for dead code.          *)
JumpsAgree == X86!Generated /\ taken.run = 0 => X86!StacksAgree /\ X86!TargetsEmitted

(* What is emitted are instructions of the processor: it has none with two *)
(* operands in memory.                                                     *)
Encodable == X86!Generated /\ taken.run = 0 => X86!OneInMemory

(***************************************************************************)
(* Compiled code does what the program does, and no more: loops and        *)
(* recursion end when the program's do, and between two instructions of    *)
(* the stack machine the processor takes a few steps.                      *)
(***************************************************************************)
RunBound == 3
LagBound == 30
Paced == taken.run <= RunBound * taken.eval /\ taken.lag <= LagBound
=============================================================================

---------------------------- MODULE StackMachine ----------------------------
(***************************************************************************)
(* The stack machine that eval of src/src/SM.ml defines: what every        *)
(* instruction the compiler emits does to the control stack, the operand   *)
(* stack, the globals and the frame of the function being evaluated.       *)
(*                                                                         *)
(* A program is a function from positions to the instructions that may     *)
(* stand there.  With one instruction at each position it is a program;    *)
(* with several, the machine takes every path through a family of          *)
(* programs.  Labels are resolved to positions, except those of functions. *)
(*                                                                         *)
(* Where eval raises an exception (too few operands, a number expected, an *)
(* index out of bounds) no step is enabled.                                *)
(***************************************************************************)
EXTENDS LamaValues

CONSTANTS
  Following(_),  (* the position after a position                          *)
  Labeled(_),    (* env#labeled: the position of the label of a function   *)
  Inputs,        (* what read may return                                   *)
  EmptyGlobal,   (* Undefined: what an unassigned global holds             *)
  EmptyLocal,    (* Empty: what BEGIN initialises locals with              *)
  NoResult       (* Empty: what write returns                              *)

VARIABLES
  code,          (* the program                                            *)
  pc,            (* prg: where evaluation stands                           *)
  cstack,        (* control stack: return position and frame, latest last  *)
  stack,         (* operand stack, top last                                *)
  glob,          (* globals                                                *)
  loc,           (* frame: args, locals, and the closure's object (0: none)*)
  store,         (* the objects                                            *)
  out,           (* output stream                                          *)
  outcome        (* "running", "ended", "failed"                           *)

vars == <<code, pc, cstack, stack, glob, loc, store, out, outcome>>

NoFrame == [args |-> <<>>, locals |-> <<>>, closure |-> 0]

Init ==
  /\ cstack = <<>> /\ stack = <<>> /\ store = <<>> /\ out = <<>>
  /\ loc = NoFrame
  /\ \A x \in DOMAIN glob : glob[x] = EmptyGlobal
  /\ outcome = "running"

-----------------------------------------------------------------------------
(* Operands and results.                                                   *)

Has(n) == Len(stack) >= n
Top == stack[Len(stack)]
Second == stack[Len(stack) - 1]
Below(n) == SubSeq(stack, 1, Len(stack) - n)
Operands(n) == SubSeq(stack, Len(stack) - n + 1, Len(stack))

Advance == pc' = Following(pc) /\ UNCHANGED <<code, cstack, outcome>>

(* Replaces n operands by the value v.                                     *)
Yield(n, v) == Has(n) /\ stack' = Append(Below(n), v) /\ Advance

(* ... and changes nothing else.                                           *)
Compute(n, v) == Yield(n, v) /\ UNCHANGED <<glob, loc, store, out>>

(* ... by a new object o.                                                  *)
Allocate(n, o) ==
  /\ Yield(n, NewRef(store))
  /\ store' = Append(store, o)
  /\ UNCHANGED <<glob, loc, out>>

-----------------------------------------------------------------------------
(* Variables.                                                              *)

Cells(d) ==
  CASE d.where = "Local"  -> loc.locals
    [] d.where = "Arg"    -> loc.args
    [] d.where = "Access" -> IF loc.closure = 0 THEN <<>>
                             ELSE store[loc.closure].fields

Exists(d) ==
  IF d.where = "Global" THEN d.i \in DOMAIN glob
  ELSE d.i + 1 \in DOMAIN Cells(d)

ValueOf(d) == IF d.where = "Global" THEN glob[d.i] ELSE Cells(d)[d.i + 1]

Loadable(d) == Exists(d) /\ ValueOf(d) # Undefined

(* update                                                                  *)
Assign(d, z) ==
  /\ Exists(d)
  /\ glob' = IF d.where = "Global" THEN [glob EXCEPT ![d.i] = z] ELSE glob
  /\ loc' = CASE d.where = "Local" -> [loc EXCEPT !.locals[d.i + 1] = z]
              [] d.where = "Arg"   -> [loc EXCEPT !.args[d.i + 1] = z]
              [] OTHER             -> loc
  /\ store' = IF d.where = "Access"
              THEN [store EXCEPT ![loc.closure].fields[d.i + 1] = z]
              ELSE store
  /\ UNCHANGED out

LD(i) == i.op = "LD" /\ Loadable(i.d) /\ Compute(0, ValueOf(i.d))
LDA(i) == i.op = "LDA" /\ Compute(0, Var(i.d))
ST(i) == i.op = "ST" /\ Has(1) /\ Assign(i.d, Top) /\ Yield(1, Top)

(* The destination is a variable, or an element of an object.              *)
STA(i) ==
  /\ i.op = "STA" /\ Has(2)
  /\ \/ /\ Second.kind = "var"
        /\ Assign(Second.d, Top)
        /\ Yield(2, Top)
     \/ /\ IsNum(Second) /\ Has(3)
        /\ LET x == stack[Len(stack) - 2]
           IN  /\ HasElem(store, x, Second) /\ MayHold(store, x, Top)
               /\ store' = WithElem(store, x, Second, Top)
        /\ Yield(3, Top)
        /\ UNCHANGED <<glob, loc, out>>

-----------------------------------------------------------------------------
(* Computation.                                                            *)

CONST(i) == i.op = "CONST" /\ Compute(0, Num(i.n))

BINOP(i) ==
  /\ i.op = "BINOP" /\ Has(2)
  /\ \/ /\ IsNum(Second) /\ IsNum(Top) /\ HasResult(i.f, Top.n)
        /\ Compute(2, Num(Apply(i.f, Second.n, Top.n)))
     \/ /\ i.f = "==" /\ IsNum(Second) # IsNum(Top)
        /\ Compute(2, Num(0))

StringLiteral(i) == i.op = "STRING" /\ Allocate(0, StringObject(i.s))

SEXP(i) ==
  /\ i.op = "SEXP" /\ Has(i.n)
  /\ Allocate(i.n, Object("sexp", i.t, Operands(i.n)))

ELEM(i) ==
  /\ i.op = "ELEM" /\ Has(2)
  /\ HasElem(store, Second, Top)
  /\ Compute(2, ElemOf(store, Second, Top))

CLOSURE(i) ==
  /\ i.op = "CLOSURE"
  /\ \A k \in DOMAIN i.ds : Exists(i.ds[k])
  /\ Allocate(0, Object("closure", i.fn,
                        [k \in DOMAIN i.ds |-> ValueOf(i.ds[k])]))

DROP(i) ==
  /\ i.op = "DROP" /\ Has(1)
  /\ stack' = Below(1) /\ Advance /\ UNCHANGED <<glob, loc, store, out>>

DUP(i) == i.op = "DUP" /\ Has(1) /\ Compute(0, Top)

(* CALL of a built-in function.                                            *)
Builtin(i) ==
  \/ i.op = ".array" /\ Has(i.n)
     /\ Allocate(i.n, Object("array", "", Operands(i.n)))
  \/ i.op = "read" /\ \E z \in Inputs : Compute(0, Num(z))
  \/ /\ i.op = "write" /\ Has(1) /\ IsNum(Top)
     /\ Yield(1, NoResult)
     /\ out' = Append(out, Top.n)
     /\ UNCHANGED <<glob, loc, store>>
  \/ /\ i.op = "length" /\ Has(1) /\ IsObj(Top)
     /\ ~HasKind(store, Top, "closure")
     /\ Compute(1, Num(Len(Fields(store, Top))))

-----------------------------------------------------------------------------
(* Tests for pattern matching.                                             *)

Test(n, b) == Compute(n, Num(Truth(b)))

TAG(i) ==
  /\ i.op = "TAG" /\ Has(1)
  /\ Test(1, /\ HasKind(store, Top, "sexp")
             /\ store[Top.a].tag = i.t /\ HasArity(store, Top, i.n))

ARRAY(i) ==
  /\ i.op = "ARRAY" /\ Has(1)
  /\ Test(1, HasKind(store, Top, "array") /\ HasArity(store, Top, i.n))

ShapeOf ==
  [String |-> "string", Array |-> "array", Sexp |-> "sexp",
   Closure |-> "closure"]

PATT(i) ==
  /\ i.op = "PATT"
  /\ \/ /\ i.p = "StrCmp" /\ Has(2)
        /\ Test(2, /\ HasKind(store, Top, "string")
                   /\ HasKind(store, Second, "string")
                   /\ Fields(store, Top) = Fields(store, Second))
     \/ i.p = "Boxed" /\ Has(1) /\ Test(1, ~IsNum(Top))
     \/ i.p = "UnBoxed" /\ Has(1) /\ Test(1, IsNum(Top))
     \/ /\ i.p \in DOMAIN ShapeOf /\ Has(1)
        /\ Test(1, HasKind(store, Top, ShapeOf[i.p]))

FAIL(i) ==
  /\ i.op = "FAIL" /\ Has(1)
  /\ outcome' = "failed"
  /\ UNCHANGED <<code, pc, cstack, stack, glob, loc, store, out>>

-----------------------------------------------------------------------------
(* Control.                                                                *)

LABEL(i) ==
  /\ i.op \in {"LABEL", "FLABEL"} /\ Advance
  /\ UNCHANGED <<stack, glob, loc, store, out>>

JMP(i) ==
  /\ i.op = "JMP" /\ pc' = i.l
  /\ UNCHANGED <<code, cstack, stack, glob, loc, store, out, outcome>>

CJMP(i) ==
  /\ i.op = "CJMP" /\ Has(1) /\ IsNum(Top)
  /\ pc' = IF (Top.n = 0) = (i.c = "z") THEN i.l ELSE Following(pc)
  /\ stack' = Below(1)
  /\ UNCHANGED <<code, cstack, glob, loc, store, out, outcome>>

(* Enters the function labelled fn; n operands, the last m of them the     *)
(* arguments, are consumed.                                                *)
Enter(fn, n, m, closure) ==
  /\ cstack' = Append(cstack, [ret |-> Following(pc), loc |-> loc])
  /\ stack' = Below(n)
  /\ loc' = [args |-> Operands(m), locals |-> <<>>, closure |-> closure]
  /\ pc' = Labeled(fn)
  /\ UNCHANGED <<code, glob, store, out, outcome>>

CALL(i) == i.op = "CALL" /\ Has(i.n) /\ Enter(i.fn, i.n, i.n, 0)

CALLC(i) ==
  /\ i.op = "CALLC" /\ Has(i.n + 1)
  /\ LET f == stack[Len(stack) - i.n]
     IN  /\ HasKind(store, f, "closure")
         /\ Enter(store[f.a].tag, i.n + 1, i.n, f.a)

BEGIN(i) ==
  /\ i.op = "BEGIN"
  /\ loc' = [loc EXCEPT !.locals = [k \in 1 .. i.locals |-> EmptyLocal]]
  /\ Advance /\ UNCHANGED <<stack, glob, store, out>>

(* Of the configuration END of the outermost function leaves, run keeps    *)
(* the output only; frame and globals are forgotten here.                  *)
END(i) ==
  /\ i.op = "END"
  /\ UNCHANGED <<code, stack, store, out>>
  /\ \/ /\ cstack # <<>>
        /\ LET caller == cstack[Len(cstack)]
           IN  pc' = caller.ret /\ loc' = caller.loc
        /\ cstack' = SubSeq(cstack, 1, Len(cstack) - 1)
        /\ UNCHANGED <<glob, outcome>>
     \/ /\ cstack = <<>>
        /\ outcome' = "ended" /\ loc' = NoFrame /\ glob' = <<>>
        /\ UNCHANGED <<pc, cstack>>

-----------------------------------------------------------------------------
Variables(i) == LD(i) \/ LDA(i) \/ ST(i) \/ STA(i)
Objects(i) ==
  StringLiteral(i) \/ SEXP(i) \/ CLOSURE(i) \/ ELEM(i) \/ Builtin(i)
Scalars(i) == CONST(i) \/ BINOP(i) \/ DROP(i) \/ DUP(i)
Tests(i) == TAG(i) \/ ARRAY(i) \/ PATT(i) \/ FAIL(i)
Control(i) == LABEL(i) \/ JMP(i) \/ CJMP(i)
Calls(i) == CALL(i) \/ CALLC(i) \/ BEGIN(i) \/ END(i)

Eval(i) ==
  \/ Variables(i) \/ Objects(i) \/ Scalars(i)
  \/ Tests(i) \/ Control(i) \/ Calls(i)

Next == outcome = "running" /\ \E i \in code[pc] : Eval(i)

Spec == Init /\ [][Next]_vars
=============================================================================

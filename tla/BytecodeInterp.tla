--------------------------- MODULE BytecodeInterp ---------------------------
(***************************************************************************)
(* The bytecode interpreter of src/interpreter/interpreter.c, which keeps  *)
(* operands, arguments, locals and globals in one array that grows down    *)
(* and that the collector scans, and frames in a second one:               *)
(*                                                                         *)
(*    closure | arguments | locals | temporaries | closure | arguments ... *)
(*                        ^ fp                                      sp ^   *)
(*                                                                         *)
(* CALL pushes the return address on the call stack, BEGIN the registers   *)
(* of the caller.  The bytecode is the stack machine's code with every     *)
(* instruction encoded in bytes; a position stands for a byte offset, and  *)
(* the instructions are those of StackMachine.                             *)
(*                                                                         *)
(* The program is any path through Code that a compiled program can take:  *)
(* Compiled states what the compiler and a run of the stack machine        *)
(* without exceptions guarantee of the next instruction.                   *)
(***************************************************************************)
EXTENDS LamaValues, SequencesExt

CONSTANTS
  Following(_),  (* the offset of the instruction after one                *)
  Labeled(_),    (* the offset of the label of a function                  *)
  Code,          (* the instructions at each offset                        *)
  Entries,       (* the offset of the first function of the bytecode: main *)
  Owner,         (* the offset of the function an instruction belongs to   *)
  Captures,      (* how many variables the function there captures         *)
  Inputs,        (* what Lread may return                                  *)
  MemSize,       (* words of gc_handled_memory below __gc_stack_bottom     *)
  CallSize,      (* STACK_SIZE: words of the call stack                    *)
  NGlobals,      (* global_area_size                                       *)
  TagHash,       (* LtagHash of each constructor                           *)
  Chars,         (* the characters the program's strings are made of       *)
  Halves,        (* what UNBOX may make of the address of an object        *)
  MaxTemps, MaxObjects, MaxOut, MaxNum   (* bounds of the model            *)

(* Constructors are told apart by at most five of their characters, which  *)
(* the manual lists as a limitation of the implementation; for programs    *)
(* that keep to it their hashes differ.                                    *)
ASSUME TagsDiffer ==
  \A t, u \in DOMAIN TagHash : TagHash[t] = TagHash[u] => t = u

VARIABLES
  ip,
  mem, sp,       (* the operand stack; sp is the first free word           *)
  calls,         (* the call stack, latest last                            *)
  fp, nArgs, nLocals, isClosure,
  store, out, outcome

registers == <<fp, nArgs, nLocals, isClosure>>
vars == <<ip, mem, sp, calls, registers, store, out, outcome>>

(* Words that are no values of the stack machine.                          *)
Null == [kind |-> "null"]                             \* what Lwrite returns
Junk == [kind |-> "junk"]                             \* free memory
Cell(c) == [kind |-> "cell", c |-> c]                 \* an address in mem
Inside(a, i) == [kind |-> "inside", a |-> a, i |-> i] \* of a captured value

EmptyBox == Num(0)

(* Where functions begin.                                                  *)
Heads == {p \in DOMAIN Code : \E i \in Code[p] : i.op = "BEGIN"}

(* A jump, or the next instruction, stays in the body of the function.     *)
SameBody(p, q) == q \in DOMAIN Code \ Heads /\ Owner[q] = Owner[p]

(* The designations the code at p may use.  Of the two arguments that main *)
(* declares nobody makes use, nobody having pushed them.                   *)
Designates(p, d) ==
  /\ d \in [where : {"Global", "Local", "Arg", "Access"}, i : Nat]
  /\ d.where = "Access" => d.i < Captures[Owner[p]]
  /\ d.where = "Arg" => Owner[p] \notin Entries

(* What the compiler emits at p.  A function that captures nothing may be  *)
(* called without a closure; a closure has what its function captures.     *)
Emitted(p, i) ==
  /\ i.op = "BEGIN" => i.n \in Nat /\ i.locals \in Nat
  /\ i.op \notin {"JMP", "END", "FAIL"} => SameBody(p, Following(p))
  /\ i.op \in {"JMP", "CJMP"} => SameBody(p, i.l)
  /\ i.op \in {"LD", "LDA", "ST"} => Designates(p, i.d)
  /\ i.op \in {"SEXP", ".array", "CALL", "CALLC"} => i.n \in Nat
  /\ i.op = "CALL" => Labeled(i.fn) \in Heads /\ Captures[Labeled(i.fn)] = 0
  /\ i.op = "CLOSURE" =>
       /\ Labeled(i.fn) \in Heads
       /\ Len(i.ds) = Captures[Labeled(i.fn)] /\ DOMAIN i.ds = 1 .. Len(i.ds)
       /\ \A k \in DOMAIN i.ds : Designates(p, i.ds[k])
  /\ i.op \in {"SEXP", "TAG"} => i.t \in DOMAIN TagHash
  /\ i.op = "PATT" => i.p \in {"StrCmp", "Boxed", "UnBoxed", "String",
                               "Array", "Sexp", "Closure"}
  /\ i.op = "CONST" => i.n \in -MaxNum .. MaxNum
  /\ i.op = "STRING" => i.s \in Seq(Chars)

ASSUME CodeAssumption ==
  /\ Owner \in [DOMAIN Code -> Heads] /\ Captures \in [Heads -> Nat]
  /\ \A p \in Heads : Owner[p] = p /\ \A i, j \in Code[p] : i = j
  /\ \A p \in DOMAIN Code : \A i \in Code[p] : Emitted(p, i)
  /\ Entries \subseteq Heads
  /\ \A p \in Entries : Captures[p] = 0 /\ \A i \in Code[p] : i.n <= 2

ASSUME CharsAssumption == Chars \subseteq Char \cap 0 .. MaxNum

ASSUME HalvesAssumption == Halves \subseteq Int /\ Halves # {}

(* What a program has to keep to, beyond what the compiler sees to, for the *)
(* interpreter to compute what eval does: strings of characters that C does *)
(* not take for their end or for negative numbers, and numbers that are no  *)
(* address shifted by a bit.                                                *)
AsciiOnly == Chars \subseteq 1 .. 127
NumbersApart == Halves \cap (-MaxNum .. MaxNum) = {}

(* Globals leave room for operands.  The last two are bounds of the model. *)
ASSUME SizeAssumption ==
  /\ MemSize \in Nat /\ NGlobals \in Nat /\ NGlobals + 2 <= MemSize
  /\ CallSize \in Nat \ {0}
  /\ MaxNum \in Nat \ {0} /\ Inputs \subseteq -MaxNum .. MaxNum

Globals == MemSize - NGlobals     \* the address of the first global

(* main's END stores the result above the stack: two words more.           *)
Memory == 0 .. MemSize + 1

Init ==
  /\ ip \in Entries
  /\ mem = [c \in Memory |-> IF c \in Globals .. MemSize - 1
                             THEN EmptyBox ELSE Junk]
  /\ sp = Globals - 1
  /\ calls = <<>>
  /\ fp = 0 /\ nArgs = 0 /\ nLocals = 0 /\ isClosure = FALSE
  /\ store = <<>> /\ out = <<>>
  /\ outcome = "running"

-----------------------------------------------------------------------------
(* Operands.  Words given up become Junk, so that a step which read one    *)
(* would be seen to; END of main steps over globals, which stay.           *)

Word(k) == mem[sp + k]            \* k-th word from the top, from 1

\* Mutant: the operands of a constructor in the order they are popped.
WordsFromTop(n) == [k \in 1 .. n |-> Word(k)]

Words(n) == [k \in 1 .. n |-> Word(n + 1 - k)]

(* n times pop_op, then push_op of v.                                      *)
Result(n, v) ==
  /\ mem' = [c \in Memory |-> IF c = sp + n THEN v
                              ELSE IF sp < c /\ c < sp + n /\ c < Globals
                                   THEN Junk
                              ELSE mem[c]]
  /\ sp' = sp + n - 1

Advance == ip' = Following(ip) /\ UNCHANGED <<calls, registers, outcome>>

Compute(n, v) == Result(n, v) /\ Advance /\ UNCHANGED <<store, out>>

Allocate(n, o) ==
  /\ Result(n, NewRef(store))
  /\ store' = Append(store, o)
  /\ Advance /\ UNCHANGED out

(* Number and raw words with the lowest bit set.                           *)
Unboxed(w) == IsNum(w)

HeaderTag(w) == store[w.a].kind

-----------------------------------------------------------------------------
(* get_addr, and the memory behind an address.                             *)

Closure == mem[fp + nArgs + 1]

Address(d) ==
  CASE d.where = "Global" -> Cell(Globals + d.i)
    [] d.where = "Local"  -> Cell(fp - d.i)
    [] d.where = "Arg"    -> Cell(fp + nArgs - d.i)
    [] d.where = "Access" -> Inside(Closure.a, d.i)

InRange(d) ==
  CASE d.where = "Global" -> d.i < NGlobals
    [] d.where = "Local"  -> d.i < nLocals
    [] d.where = "Arg"    -> d.i < nArgs
    [] d.where = "Access" -> TRUE

Contents(p) ==
  IF p.kind = "cell" THEN mem[p.c] ELSE store[p.a].fields[p.i + 1]

LD(i) == i.op = "LD" /\ InRange(i.d) /\ Compute(0, Contents(Address(i.d)))

LDA(i) == i.op = "LDA" /\ InRange(i.d) /\ Compute(0, Address(i.d))

(* *p = v, after n operands are replaced by the result v                   *)
StoreAt(p, n, v) ==
  LET top == sp + n
  IN  /\ mem' = [c \in Memory |->
                   IF c = top THEN v
                   ELSE IF c \in sp + 1 .. top - 1 THEN Junk
                   ELSE IF p = Cell(c) THEN v ELSE mem[c]]
      /\ sp' = top - 1
      /\ store' = IF p.kind = "inside"
                  THEN [store EXCEPT ![p.a].fields[p.i + 1] = v] ELSE store
      /\ Advance /\ UNCHANGED out

ST(i) ==
  i.op = "ST" /\ InRange(i.d) /\ StoreAt(Address(i.d), 1, Word(1))

STA(i) ==
  /\ i.op = "STA"
  /\ \/ /\ Unboxed(Word(2))                                     \* Bsta
        /\ store' = WithElem(store, Word(3), Word(2), Word(1))
        /\ Result(3, Word(1))
        /\ Advance /\ UNCHANGED out
     \/ ~Unboxed(Word(2)) /\ StoreAt(Word(2), 2, Word(1))

-----------------------------------------------------------------------------
(* Computation.                                                            *)

CONST(i) == i.op = "CONST" /\ Compute(0, Num(i.n))

(* UNBOX shifts whatever word it is given, an address too.                 *)
Unbox(w) == IF IsNum(w) THEN {w.n} ELSE Halves

BINOP(i) ==
  /\ i.op = "BINOP"
  /\ \E a \in Unbox(Word(2)), b \in Unbox(Word(1)) : Compute(2, Num(Apply(i.f, a, b)))

Bstring(s) == StringObject(CString(s, 0))

BSTRING(i) == i.op = "STRING" /\ Allocate(0, Bstring(i.s))

BSEXP(i) == i.op = "SEXP" /\ Allocate(i.n, Object("sexp", i.t, Words(i.n)))

BARRAY(i) ==
  i.op = ".array" /\ Allocate(i.n, Object("array", "", Words(i.n)))

BCLOSURE(i) ==
  /\ i.op = "CLOSURE" /\ \A k \in DOMAIN i.ds : InRange(i.ds[k])
  /\ Allocate(0, Object("closure", i.fn,
                        [k \in DOMAIN i.ds |-> Contents(Address(i.ds[k]))]))

(* Belem boxes a char of a string.                                         *)
Belem(v, j) ==
  LET w == ElemOf(store, v, j)
  IN  IF HasKind(store, v, "string") /\ IsNum(w) THEN Num(SignedChar(w.n)) ELSE w

ELEM(i) == i.op = "ELEM" /\ Compute(2, Belem(Word(2), Word(1)))

DROP(i) ==
  /\ i.op = "DROP"
  /\ mem' = [mem EXCEPT ![sp + 1] = Junk] /\ sp' = sp + 1
  /\ Advance /\ UNCHANGED <<store, out>>

DUP(i) == i.op = "DUP" /\ Compute(0, Word(1))

READ(i) == i.op = "read" /\ \E z \in Inputs : Compute(0, Num(z))

WRITE(i) ==
  /\ i.op = "write"
  /\ Result(1, Null) /\ out' = Append(out, Word(1).n)
  /\ Advance /\ UNCHANGED store

LENGTH(i) ==
  i.op = "length" /\ Compute(1, Num(Len(Fields(store, Word(1)))))

-----------------------------------------------------------------------------
(* Tests.                                                                  *)

Test(n, b) == Compute(n, Num(Truth(b)))

(* Btag compares the hash of the constructor, not its name.                *)
TAG(i) ==
  /\ i.op = "TAG"
  /\ Test(1, /\ ~Unboxed(Word(1)) /\ HeaderTag(Word(1)) = "sexp"
             /\ TagHash[store[Word(1).a].tag] = TagHash[i.t]
             /\ HasArity(store, Word(1), i.n))

ARRAY(i) ==
  /\ i.op = "ARRAY"
  /\ Test(1, /\ ~Unboxed(Word(1)) /\ HeaderTag(Word(1)) = "array"
             /\ HasArity(store, Word(1), i.n))

\* Mutant: a string is compared with the literal as a reference.
SameTextByReference(v, w) == v = w

(* Bstring_patt leaves the comparison of two strings to strcmp.            *)
SameText(v, w) ==
  CString(Fields(store, v), Num(0)) = CString(Fields(store, w), Num(0))

(* check_tag.  Of the operands of StrCmp the literal is on top.            *)
PATT(i) ==
  /\ i.op = "PATT"
  /\ \/ i.p = "UnBoxed" /\ Test(1, Unboxed(Word(1)))
     \/ i.p = "Boxed" /\ Test(1, ~Unboxed(Word(1)))
     \/ /\ i.p = "StrCmp"
        /\ Test(2, /\ ~Unboxed(Word(2)) /\ HeaderTag(Word(2)) = "string"
                   /\ SameText(Word(2), Word(1)))
     \/ /\ i.p \notin {"UnBoxed", "Boxed", "StrCmp"}
        /\ Test(1, /\ ~Unboxed(Word(1))
                   /\ HeaderTag(Word(1)) =
                        CASE i.p = "String"  -> "string"
                          [] i.p = "Array"   -> "array"
                          [] i.p = "Sexp"    -> "sexp"
                          [] i.p = "Closure" -> "closure")

FAIL(i) ==
  /\ i.op = "FAIL" /\ outcome' = "failed"
  /\ UNCHANGED <<ip, mem, sp, calls, registers, store, out>>

-----------------------------------------------------------------------------
(* Control.                                                                *)

CJMP(i) ==
  /\ i.op = "CJMP"
  /\ ip' = IF (Word(1).n = 0) = (i.c = "z") THEN i.l ELSE Following(ip)
  /\ mem' = [mem EXCEPT ![sp + 1] = Junk] /\ sp' = sp + 1
  /\ UNCHANGED <<calls, registers, store, out, outcome>>

JMP(i) ==
  /\ i.op = "JMP" /\ ip' = i.l
  /\ UNCHANGED <<mem, sp, calls, registers, store, out, outcome>>

Enter(fn) ==
  /\ calls' = Append(calls, Following(ip))
  /\ ip' = Labeled(fn)
  /\ UNCHANGED <<mem, sp, fp, nArgs, nLocals, store, out, outcome>>

CALL(i) == i.op = "CALL" /\ isClosure' = FALSE /\ Enter(i.fn)

CALLC(i) ==
  i.op = "CALLC" /\ isClosure' = TRUE /\ Enter(store[Word(i.n + 1).a].tag)

\* Mutant: the registers are saved after they are set.
BEGINSavesNew(i) ==
  /\ i.op = "BEGIN"
  /\ calls' = calls \o <<fp, i.n, i.locals, isClosure>>
  /\ fp' = sp /\ nArgs' = i.n /\ nLocals' = i.locals
  /\ mem' = [c \in Memory |-> IF c \in sp - i.locals + 1 .. sp
                              THEN EmptyBox ELSE mem[c]]
  /\ sp' = sp - i.locals
  /\ ip' = Following(ip)
  /\ UNCHANGED <<isClosure, store, out, outcome>>

\* Mutant: room is made for the locals, which are not initialised.
BEGINUninitialised(i) ==
  /\ i.op = "BEGIN"
  /\ calls' = calls \o <<fp, nArgs, nLocals, isClosure>>
  /\ fp' = sp /\ nArgs' = i.n /\ nLocals' = i.locals
  /\ sp' = sp - i.locals
  /\ ip' = Following(ip)
  /\ UNCHANGED <<mem, isClosure, store, out, outcome>>

BEGIN(i) ==
  /\ i.op = "BEGIN"
  /\ calls' = calls \o <<fp, nArgs, nLocals, isClosure>>
  /\ fp' = sp /\ nArgs' = i.n /\ nLocals' = i.locals
  /\ mem' = [c \in Memory |-> IF c \in sp - i.locals + 1 .. sp
                              THEN EmptyBox ELSE mem[c]]
  /\ sp' = sp - i.locals
  /\ ip' = Following(ip)
  /\ UNCHANGED <<isClosure, store, out, outcome>>

(* finalize_function                                                       *)
END(i) ==
  LET saved == Len(calls)
      closure == IF calls[saved] THEN 1 ELSE 0
  IN  /\ i.op = "END"
      /\ Result(1 + nArgs + nLocals + closure, Word(1))
      /\ nLocals' = calls[saved - 1] /\ nArgs' = calls[saved - 2]
      /\ fp' = calls[saved - 3]
      /\ \/ saved > 4
            /\ ip' = calls[saved - 4]
            /\ calls' = SubSeq(calls, 1, saved - 5)
            /\ UNCHANGED outcome
         \/ saved = 4
            /\ calls' = <<>> /\ outcome' = "ended"
            /\ UNCHANGED ip
      /\ UNCHANGED <<isClosure, store, out>>

(* push_op and push_call stop the program when they use the last word.     *)
Pushes(i) ==
  CASE i.op \in {"CONST", "STRING", "LD", "LDA", "CLOSURE", "DUP", "read"}
            -> [op |-> 1, call |-> 0]
    [] i.op \in {"SEXP", ".array"} -> [op |-> Truth(i.n = 0), call |-> 0]
    [] i.op \in {"CALL", "CALLC"}  -> [op |-> 0, call |-> 1]
    [] i.op = "BEGIN"              -> [op |-> i.locals, call |-> 4]
    [] OTHER                       -> [op |-> 0, call |-> 0]

\* Mutant: the test finds the overflow one word too late.
FitsLate(i) ==
  /\ sp >= Pushes(i).op
  /\ Len(calls) + Pushes(i).call <= CallSize - 1

Fits(i) ==
  /\ sp > Pushes(i).op \/ Pushes(i).op = 0
  /\ Len(calls) + Pushes(i).call <= CallSize - 2

Overflow(i) ==
  /\ ~Fits(i) /\ outcome' = "overflow"
  /\ UNCHANGED <<ip, mem, sp, calls, registers, store, out>>

-----------------------------------------------------------------------------
(* What compiled programs guarantee of the next instruction.               *)

Temps == fp - nLocals - sp        \* how many temporaries the frame has

Uses(i) ==
  CASE i.op \in {"ST", "DROP", "DUP", "CJMP", "TAG", "ARRAY", "FAIL",
                 "END", "write", "length"}  -> 1
    [] i.op \in {"BINOP", "ELEM"}           -> 2
    [] i.op \in {"SEXP", ".array", "CALL"}  -> i.n
    [] i.op = "CALLC"                       -> i.n + 1
    [] i.op = "PATT"                        -> IF i.p = "StrCmp" THEN 2 ELSE 1
    [] i.op = "STA" -> IF Temps >= 2 /\ IsNum(Word(2)) THEN 3 ELSE 2
    [] OTHER                                -> 0

IsAddress(w) == w.kind \in {"cell", "inside"}

(* A function leaves one value; an address is only for STA to use.         *)
StackDiscipline(i) ==
  /\ i.op = "BEGIN" \/ Temps >= Uses(i)
  /\ i.op = "END" => Temps = 1
  /\ \A k \in 1 .. Uses(i) : IsAddress(Word(k)) <=> i.op = "STA" /\ k = 2
                                                    /\ ~IsNum(Word(2))

(* eval raises no exception, and nothing inspects the result of write; a   *)
(* string is given none but the program's characters.                      *)
NoException(i) ==
  CASE i.op = "BINOP" -> /\ \E k \in 1 .. 2 : IsNum(Word(k))
                         /\ \A k \in 1 .. 2 : IsNum(Word(k)) \/ IsObj(Word(k))
                         /\ \/ i.f = "=="
                            \/ /\ IsNum(Word(1)) /\ IsNum(Word(2))
                               /\ HasResult(i.f, Word(1).n)
    [] i.op = "ELEM"  -> HasElem(store, Word(2), Word(1))
    [] i.op = "STA"   -> \/ IsAddress(Word(2))
                         \/ /\ HasElem(store, Word(3), Word(2))
                            /\ MayHold(store, Word(3), Word(1))
                            /\ HasKind(store, Word(3), "string") => Word(1).n \in Chars
    [] i.op \in {"CJMP", "write"} -> IsNum(Word(1))
    [] i.op = "length" -> IsObj(Word(1)) /\ HeaderTag(Word(1)) # "closure"
    [] i.op \in {"TAG", "ARRAY"} -> Word(1) # Null
    [] i.op = "PATT" -> \A k \in 1 .. Uses(i) : Word(k) # Null
    [] OTHER -> TRUE

(* StrCmp follows STRING; functions are called with the arguments they     *)
(* take.                                                                   *)
ArgsAt(p) == (CHOOSE i \in Code[p] : i.op = "BEGIN").n

WellFormed(i) ==
  CASE i.op = "PATT"  -> i.p = "StrCmp" => HasKind(store, Word(1), "string")
    [] i.op = "CALL"  -> i.n = ArgsAt(Labeled(i.fn))
    [] i.op = "CALLC" ->
         LET f == Word(i.n + 1)
         IN  /\ HasKind(store, f, "closure")
             /\ i.n = ArgsAt(Labeled(store[f.a].tag))
    [] OTHER -> TRUE

Compiled(i) == StackDiscipline(i) /\ NoException(i) /\ WellFormed(i)

Bounded(i) ==
  /\ Temps + Pushes(i).op <= MaxTemps[ip] \/ i.op = "BEGIN"
  /\ i.op \in {"STRING", "SEXP", ".array", "CLOSURE"}
       => Len(store) < MaxObjects[ip]
  /\ i.op = "write" => Len(out) < MaxOut
  /\ (i.op = "BINOP" /\ IsNum(Word(1)) /\ IsNum(Word(2)))
       => Apply(i.f, Word(2).n, Word(1).n) \in -MaxNum .. MaxNum
  /\ i.op = "length" => Len(Fields(store, Word(1))) <= MaxNum

-----------------------------------------------------------------------------
Execute(i) ==
  \/ LD(i) \/ LDA(i) \/ ST(i) \/ STA(i)
  \/ CONST(i) \/ BINOP(i) \/ DROP(i) \/ DUP(i)
  \/ BSTRING(i) \/ BSEXP(i) \/ BARRAY(i) \/ BCLOSURE(i) \/ ELEM(i)
  \/ READ(i) \/ WRITE(i) \/ LENGTH(i)
  \/ TAG(i) \/ ARRAY(i) \/ PATT(i) \/ FAIL(i)
  \/ JMP(i) \/ CJMP(i) \/ CALL(i) \/ CALLC(i) \/ BEGIN(i) \/ END(i)

Next ==
  /\ outcome = "running"
  /\ \E i \in Code[ip] :
       /\ Compiled(i) /\ Bounded(i)
       /\ \/ Fits(i) /\ Execute(i)
          \/ Overflow(i)

Spec == Init /\ [][Next]_vars

-----------------------------------------------------------------------------
(* The frames the call stack describes, from the outermost.  Frame k's     *)
(* caller's registers are the four words BEGIN pushed for it; the word     *)
(* before them is the return address into frame k - 1.                     *)

Depth == (Len(calls) + 1) \div 5
AtEntry == Len(calls) % 5 = 0              \* before BEGIN

Frame(k) ==
  IF k = Depth THEN [fp |-> fp, args |-> nArgs, locals |-> nLocals]
  ELSE [fp |-> calls[5 * k + 1], args |-> calls[5 * k + 2],
        locals |-> calls[5 * k + 3]]

OfClosure(k) == calls[5 * k - 1]

(* Frame k's words: locals from fp down, temporaries below them.           *)
FirstTemp(k) == Frame(k).fp - Frame(k).locals
Above(k) == Frame(k).fp + Frame(k).args + Truth(OfClosure(k)) + 1
LastTemp(k) ==
  IF k < Depth THEN Above(k + 1)
  ELSE sp + 1 + IF AtEntry THEN ArgsAt(ip) + Truth(isClosure) ELSE 0

(* An address, as the designation it is of in frame k.                     *)
Designation(k, p) ==
  IF p.kind = "inside" THEN At("Access", p.i)
  ELSE IF p.c >= Globals THEN At("Global", p.c - Globals)
  ELSE IF p.c > Frame(k).fp THEN At("Arg", Above(k) - Truth(OfClosure(k)) - 1 - p.c)
  ELSE At("Local", Frame(k).fp - p.c)

Value(k, w) == IF IsAddress(w) THEN Var(Designation(k, w)) ELSE w

(* n words from address c down.                                            *)
Down(c, n) == [j \in 1 .. n |-> mem[c - j + 1]]

TempsOf(k) ==
  [j \in 1 .. FirstTemp(k) - LastTemp(k) + 1
     |-> Value(k, mem[FirstTemp(k) - j + 1])]

(* The compiler declares two arguments of main that no one pushes.         *)
FrameOf(k) ==
  LET f == Frame(k)
  IN  [args    |-> IF k = 1 THEN <<>> ELSE Down(f.fp + f.args, f.args),
       locals  |-> Down(f.fp, f.locals),
       closure |-> IF OfClosure(k) THEN mem[f.fp + f.args + 1].a ELSE 0]

PendingFrame ==
  LET n == ArgsAt(ip)
  IN  [args    |-> Down(sp + n, n), locals |-> <<>>,
       closure |-> IF isClosure THEN mem[sp + n + 1].a ELSE 0]

(* What the stack machine is to have where the interpreter is.  main's END *)
(* may have written its result over a global.                              *)
Callers ==
  [k \in 1 .. (IF AtEntry THEN Depth ELSE Depth - 1)
     |-> [ret |-> calls[5 * k], loc |-> FrameOf(k)]]

Operands ==
  IF outcome = "ended" THEN <<mem[sp + 1]>>
  ELSE FlattenSeq([k \in 1 .. Depth |-> TempsOf(k)])

GlobalValues ==
  IF outcome = "ended" THEN <<>>
  ELSE [x \in 0 .. NGlobals - 1 |-> mem[Globals + x]]

CurrentFrame ==
  IF calls = <<>> THEN [args |-> <<>>, locals |-> <<>>, closure |-> 0]
  ELSE IF AtEntry THEN PendingFrame ELSE FrameOf(Depth)

Machine == INSTANCE StackMachine WITH
  code    <- Code,
  pc      <- ip,
  cstack  <- Callers,
  stack   <- Operands,
  glob    <- GlobalValues,
  loc     <- CurrentFrame,
  outcome <- IF outcome = "overflow" THEN "running" ELSE outcome,
  EmptyGlobal <- EmptyBox, EmptyLocal <- EmptyBox, NoResult <- Null

(***************************************************************************)
(* The interpreter computes what the stack machine computes: the arrays    *)
(* represent its stacks and frames after every instruction, returns, calls *)
(* of closures and assignments through addresses included.  A program it   *)
(* stops for want of stack is one the machine has not finished.            *)
(***************************************************************************)
ImplementsStackMachine == Machine!Spec

(***************************************************************************)
(* Frames tile the stack: the closure and the arguments of a frame are     *)
(* words its caller had as temporaries, never its variables, and nothing   *)
(* is left between them; the same holds of the globals and the first       *)
(* frame.                                                                  *)
(***************************************************************************)
FramesNested ==
  outcome # "ended" =>
    /\ \A k \in 1 .. Depth : LastTemp(k) - 1 <= FirstTemp(k)
    /\ Depth > 0 => Frame(1).fp = Globals - 1

(***************************************************************************)
(* The collector scans the words from sp + 1 to the last global as roots:  *)
(* none of them is a leftover of an operand popped before.                 *)
(***************************************************************************)
ScannedWordsLive ==
  outcome # "ended" => \A c \in sp + 1 .. MemSize - 1 : mem[c] # Junk

(***************************************************************************)
(* Types.  In particular no step writes outside the array, though pushes   *)
(* test for overflow after they write: the word at 0 is never used.        *)
(***************************************************************************)
Words0 == {Null, Junk} \cup {Num(n) : n \in -MaxNum .. MaxNum}
           \cup {Obj(a) : a \in 1 .. Len(store)}

InterpTypeOK ==
  /\ ip \in DOMAIN Code
  /\ sp \in 1 .. MemSize + 1
  /\ DOMAIN mem = Memory /\ mem[0] = Junk
  /\ \A c \in Memory :
       \/ mem[c] \in Words0
       \/ mem[c].kind = "cell" /\ mem[c].c \in 1 .. MemSize - 1
       \/ mem[c].kind = "inside" /\ mem[c].a \in 1 .. Len(store)
  /\ Len(calls) < CallSize /\ Len(calls) % 5 \in {0, 4}
  /\ isClosure \in BOOLEAN
  /\ outcome \in {"running", "ended", "failed", "overflow"}
=============================================================================

# Lama: a verification project

TLA+ models of the Lama language implementation in `src/`, the configurations
that model-check them with TLC, and proofs checked by TLAPS. Everything is
translated from the source; where a comment, a test or a document says more
than the code does, that is said here.

## 1. The system

Lama is an untyped language with closures, S-expressions, arrays, mutable
strings and pattern matching. A program goes through these parts.

| Part | Source | State it keeps | Operations |
|---|---|---|---|
| Language | `src/src/Language.ml` | tables of infix operators, interfaces, scopes of names; the reference evaluator's configuration | parse, desugar, evaluate |
| Stack machine | `src/src/SM.ml` | compiler: environment of scopes, captured variables per function, call graph; evaluator: control stack, operand stack, globals, frame | compile, eval, emit bytecode |
| X86 back end | `src/src/X86.ml` | symbolic stack of operands in registers and slots, labels with their stacks, string and symbol tables | translate one instruction at a time |
| Driver | `src/src/Driver.ml` | options | calls the other parts, links |
| Runtime library | `src/runtime/runtime.c` | `global_sysargs`, string buffer | constructors, accessors, strings, comparison, hashing, I/O |
| Collector | `src/runtime/gc.c` | the heap chunk, the extra roots, stack bounds; in each object a forward-address word with a mark bit and an enqueued bit | `alloc`, mark, compact, push/pop of extra roots |
| Interpreter | `src/interpreter/interpreter.c` | operand stack inside the memory the collector scans, call stack, frame registers | one handler per bytecode |
| Disassembler | `src/byterun/byterun.c` | a cursor | print |
| Standard library | `src/stdlib/*.lama` | AVL trees, hash tables, buffers, lazy cells | functions |

How they interact. Compiled code and the interpreter call the runtime library
with arguments on the *scanned stack* (the words between `__gc_stack_top` and
`__gc_stack_bottom`). A library function that is entered first sets
`__gc_stack_top` to its own frame (`PRE_GC`), so the arguments of functions it
calls in turn, and its locals, are below the scanned words: if they hold object
pointers over an allocation they have to be registered as *extra roots*.
`alloc` takes words from the heap; when there are not enough left it marks,
resizes the heap with `mremap` (which may move it), and slides the live objects
to the front. Every object can move at every allocation.

There is one thread. What is hard is order and staleness: pointers held across
an allocation, words that hold two things at once (a queue element and two
flags), memory overwritten in place, roots fixed zero or two times, and, in the
compiler, the agreement between separately generated pieces of code about the
stack. The list, each with its line, is `hazards` in `PROJECT.json`.

What makes each part correct:

* mark: exactly the reachable objects are marked, and the queue fits in the heap;
* compact: every root and field refers to the same object as before, no object
  is overwritten before it is moved, the request fits afterwards;
* runtime library: a call does to the graph of objects what its name says, and
  a collection in the middle of it is not noticed;
* stack machine and interpreter: the interpreter's frames and stacks represent
  the configuration of the reference evaluator;
* compiler: closures capture what their bodies need, patterns leave the stack
  as they found it, generated code finds operands, variables and the closure
  where the symbolic stack says, and calls preserve what is still needed;
* collections: AVL trees stay balanced and ordered and implement finite maps.

## 2. Modules

Three groups of modules model three conversations: the program with the
collector, a compiled program with what executes it, and a program with the
collections of the standard library.

| Module | Models | Role |
|---|---|---|
| `LamaHeap` | object layout, root words, reachability, what a well-formed heap is | vocabulary, extended by the next three |
| `MarkPhase` | `mark_phase` and `mark` of `gc.c` | one action per loop iteration |
| `MarkPhaseProofs` | | theorems about `MarkPhase` |
| `CompactPhase` | `compact_phase`, `compute_locations`, `update_references`, `physically_relocate` | one action per loop iteration over objects |
| `CompactPhaseProofs` | | theorems about `CompactPhase` |
| `ObjectGraph` | what the runtime promises: objects with names that never move | abstract specification |
| `Runtime` | the calls of `runtime.c` and `alloc`; extends both phases of the collector, whose steps it takes in the middle of a call | composition, implements `ObjectGraph` |
| `RuntimeProofs` | | theorems about `Runtime`; extends the proofs of the two phases |
| `RuntimeGraphProofs` | | `Runtime` implements `ObjectGraph`; extends `RuntimeProofs` |
| `LamaValues` | values, objects, the arithmetic on numbers | vocabulary of the next eight |
| `StackMachine` | `eval` of `SM.ml`: what every instruction does | what executing compiled code means |
| `BytecodeInterp` | `interpreter.c`: operand stack, call stack, frame registers | implements `StackMachine` |
| `BytecodeInterpProofs` | | theorems about `BytecodeInterp` |
| `BytecodeViewProofs` | | the stack machine's operands and frames as they are read off the arrays, and how both change with the words |
| `BytecodeAddressProofs` | | which addresses the temporaries of a frame may hold |
| `BytecodeMachineProofs` | | `BytecodeInterp` implements `StackMachine`; extends the three above |
| `ExprEval` | `Expr.eval` of `Language.ml`, with functions and closures | what a source program means |
| `CompileEnv` | `class env` of `SM.ml`: scopes, names of functions, captures and their propagation | the compiler's environment, as operators on a record |
| `CompileExpr` | `pattern`, `bindings`, `compile_expr`, `compile_fundef`, `fix_closures` of `SM.ml` | the compiler, as recursive operators |
| `X86Code` | the code generator of `X86.ml`: registers and slots of the symbolic stack, stacks at labels, the code emitted | one step per instruction of stack code |
| `X86Machine` | a processor for that code, with the runtime functions it calls | one action per instruction |
| `CompiledProgram` | the driver's modes `-i`, `-s` and the default one | composes `ExprEval`, `CompileExpr`, `StackMachine`, `X86Code`, `X86Machine` |
| `Associations` | what maps, sets and hash tables promise | abstract specification |
| `Collection` | maps and sets of `Collection.lama`, as AVL trees, and its hash tables | implements `Associations` |
| `MemoTable` | `lookupMemo` of `Collection.lama` | hash-consing |
| `MCMarkPhase`, `MCCompactPhase`, `MCRuntime`, `MCBytecodeInterp`, `MCCompiledProgram`, `MCCollection` | | instances for TLC |

### Representation: the collector

*Addresses and words.* A memory word is an integer and addresses are word
addresses. A negative word stands for an unboxed value (lowest bit set in the
code); the collector never looks at which one it is. Closure code addresses,
S-expression tags, characters and lengths are raw words. The instances choose
raw words that look like addresses in the heap, because the collector must not
read them as pointers: a raw word in an object is skipped by `FirstField`.

*Objects.* `heap` maps the address of a header to a record: kind, body (the
words after the header), the forward-address word without its two low bits
(`fwd`), and the two bits (`mark`, `enq`). `id` names an object for life, like
the field of the same name in a `DEBUG_VERSION` build; no action reads it
except to state properties. The size of an object is `HeaderWords` plus its
body; the sizes in bytes of `gc.c`, always rounded up to words, are not kept.

*Words outside the heap.* `words` is one array of slots with the order the
addresses have in a process: the globals (`GlobalStart .. GlobalStop - 1`), C
variables, the frame at `stackTop`, the Lama stack up to `StackBottom`. The
slot at `StackBottom` is there because the scan that fixes the stack goes one
word further than the scan that marks it. `extraRoots` is a sequence of slots.

*mremap.* `Placements` is the model of the system call: the heap stays, or
moves to one of `RemapBases` that does not overlap it; failure is an action.
The kernel moves it to where nothing was. `BasesUnused` says what the phase
needs of that: a word it reads as a pointer, and which does not point into the
heap, does not point into the heap's new place either (the loops run after
`remap` test some words against the new bounds). It is a precondition of the
phase, and `CollectorReady` checks that `Runtime` meets it at every collection.

*Destruction.* `MoveTo` is `memmove`: it removes from `heap` every object that
the written words overlap, so a live object overwritten too early is missing
from the domain.

*Calls.* In `Runtime` a call has three steps: `Enter` (arguments pushed, extra
roots registered), the collector's steps if `alloc` has no room, and `Return`,
which reads the arguments *then* and fills the new object. The slots above
`stackTop` are the arguments the program pushed, the ones below it the
arguments and locals of functions called inside the runtime. `shown` is a
history variable: the graph of objects reachable from the program's variables,
by name, as of the last moment the program ran; it is what `ObjectGraph` is
instantiated with. The program starts with an empty heap: `SetArgs` and `NextArg`
are the loop of `set_args`, which makes the array of the command line's strings
by calls of `LmakeArray` and `Bstring`, and whose array has to survive the
collections in that loop. Every function of `runtime.c` that allocates is one of
the calls. `before` in `CompactPhase` is a history variable too, the
counterpart of the dumps a `FULL_INVARIANT_CHECKS` build compares.

### Representation: programs and what executes them

*Programs.* Code is a function from positions to *sets* of instructions; a
program has one instruction at each position. `BytecodeInterp` runs families of
programs: with several instructions at a position, every path is taken that a
compiled program could take. `Compiled` says what the compiler and a run of the
stack machine without exceptions guarantee of the next instruction: operands it
needs are there, of the right kind, a function's body does not touch the
temporaries of its caller. It is the precondition under which the interpreter
is claimed to be right, not a part of the interpreter, which checks none of it.
A position stands for a byte offset, and labels are resolved to positions, as
the bytecode emitter (`indexer`) does it. `Entries` are the positions execution
may begin at (`main` of each family), `Owner` says which function an instruction
belongs to and `Captures` how many variables a function captures;
`CodeAssumption` is what the compiler guarantees of the code itself.

*Exceptions.* Where `eval` of `SM.ml` or of `Language.ml` raises an exception
(too few operands, a number expected, an undefined name) no step is enabled; a
`case` without a matching branch ends the program with the outcome "failed".

*Strings and addresses as C has them.* A character is a byte (`Char`). What
`Belem` reads is a signed char (`SignedChar`), what `Bstring` copies from the
string table ends at the first zero (`CString`), and `Bstring_patt` compares
with `strcmp`, which ends there too (`SameText`). A binary operation of the
interpreter unboxes what it finds, and half the address of an object may be any
member of `Halves` (`Unbox`): where an object lies is a choice of the
environment. The stack machine compares strings whole, reads characters with
`Char.code` and tells an object from a number. The two agree on programs that keep to

* `AsciiOnly`: the characters the program's strings are made of, `Chars`, are
  1 to 127;
* `NumbersApart`: no number of the program is half an address.

Neither is assumed by the module; both are hypotheses of the theorem in section
4, and the constants of `interp` satisfy them. In the same configuration
`ImplementsStackMachine` is violated with `Halves = {1}` (a string is "equal"
to the number 1) and with `Chars = {0, 1, 2}` (a string with a zero assigned
into it matches one that differs behind the zero).

*The interpreter's arrays.* `mem` is the operand stack, which the globals share
with operands, arguments and locals, growing down; `calls` is the call stack of
return addresses and saved registers. A word is a value, an address inside
`mem` (`Cell`), an address of a captured variable inside a closure (`Inside`),
a raw 0 (`Null`, what `Lwrite` returns) or free memory (`Junk`). The refinement
mapping reads the stack machine's control stack, operand stack and frames off
these two arrays: each frame's registers were saved by the frame above it. The
differences between the two machines are parameters of `StackMachine`: what
globals and locals hold before they are assigned, and what `write` returns.
When `main` has ended, `run` keeps nothing of the configuration but the output,
and the interpreter's globals are no longer what they were: `finalize_function`
(`interpreter.c:292`) gives up two arguments nobody pushed, so that it writes
`main`'s result over the second global. `StackMachine` therefore forgets frame
and globals at the end; the result, which is what is left of the operand stack,
the store and the output are compared.

*The evaluator.* `Expr.eval` is in continuation passing style, and a step is
one call: the scopes `st`, the values `vs`, the expression and the one to go on
with. Expressions are records of a node and its operands `es`. A closure holds
the scopes it was made in, with the values the locals had then; the globals are
shared, so that `ReturnFrom` takes them from the callee's state into the
caller's.

*The compiler.* `CompileEnv` keeps the record of methods and fields `class env`
is: the scopes of the function being compiled and, in `fundefs`, those of the
functions around it, each with what it captured so far. A function is compiled
when the code of the one around it is complete; what it captures from further
out is added to the ones in between (`propagate_acc`), and what its callees
capture to itself (`propagate_closures`), after which `fix_closures` fills in
the `CLOSURE` and `CALL` instructions compiled earlier. Labels are records
instead of strings.

*The code generator.* `X86Code` has one step for each stack instruction. The
symbolic stack says where each operand is: a register, then slots behind the
locals. `env.stackmap` has the stacks at labels, `env.barrier` says that the code is dead,
and `env.trace`, which the code does not have, records for each stack
instruction the first processor instruction emitted for it and the symbolic
stack before it. Offsets are words instead of bytes.

*The processor.* `X86Machine` has the seven registers, the stack as a sequence,
the globals and a heap without a collector. A word is a number, an address, a
return address, a saved frame pointer, or `Junk`, which is what registers hold
at the start and the registers not preserved by a call after it. An
instruction that would compute with something senseless (arithmetic on an
address, a jump to no code, a read outside the stack) is not enabled; deadlock is
checked, so none is ever next. The stack machine takes a
step only when the processor is at the instruction the trace names, so that
`InStep` compares them at every instruction. A tail call is a call and a return
for the stack machine and a jump for the processor: `dropped` has the depths of
the frames the processor has given up, at which they are not compared until the
stack machine is back.

### Representation: collections

A tree is a record of the fields of `MNode`, or empty; a hash table is an array
of lists. `Collection` keeps the collection the program got last, of one of the
three sorts, and its refinement mapping reads the values of a key off it. Hash
tables are updated in place, which a program that keeps the last one cannot
see (see "Disagreements"). In `MemoTable` objects have addresses, and the map inside the
memo table, which `Collection` shows to be a finite map, is a function of the
structure of objects, which is what the comparison looks at.

### Mutants

Definitions whose comment starts with "Mutant:" are variants of the definition
that follows them, with a mistake the code could plausibly contain. They are
not part of the model; substituting one for the original makes the property
listed for it in `PROJECT.json` fail.

### Left out of these modules

*Collector and runtime.* Debug output and `DEBUG_VERSION` bookkeeping; the
contents of strings, and with them that `Lclone` copies a string through
`Bstring` and its `strlen` (`runtime.c:519`, `:726`), so that the clone of a
string with a zero in it is shorter: in `Runtime` a clone is as long as the
original, which is right for strings without zeros; `__shutdown`, which only the unit tests call. Tags are one
raw word. The word `__gc_stack_top` does not change during a run of the model:
each call enters the runtime from the same frame.

*Stack machine and interpreter.* `RET`, `SWAP` and `STI`, which the compiler
never emits, `LINE` and the labels of the debugger's scopes; the built-in
`string`; the test of the instruction pointer against the end of the file;
allocation, whose effect on a program is the business of `Runtime`; a closure
called with fewer or more arguments than it declares (`WellFormed`), which
`interpreter.c:277` does not check. Numbers are
bounded (`MaxNum`), so that neither the 31 bits of the interpreter nor the 63
of OCaml overflow.

*Evaluator and compiler.* Programs of several units and the names they import,
other than `write` and `length`; the debugger's information. The two are
compared on programs the evaluator finishes; they are known to differ on
others, which is not a property of any run: the evaluator's pattern `#box` does
not match a closure, the stack machine's does; it looks up the name in a
destination when it assigns, after the value is computed; pattern variables
cannot be assigned in the evaluator and can in compiled code; a local that was
never assigned reads as an empty value in the stack machine and is an exception
in the evaluator.

*Code generator and processor.* `STI`, `SWAP` and `RET`, which the compiler
never emits; the start of the process, the guard against a second
initialisation and the calls that initialise imported units; the table of
strings (the runtime functions of `X86Machine` read strings as C does; the
strings of the programs compiled here are ASCII without zeros); the size of the filler before the slots; the source position `FAIL`
passes. Words are not bounded.

*Collections.* Iterators and folds, which are folds over the result of
`bindings` and `elements`; comparison functions other than that of integers;
closures as memoized values (their first word, the code, is skipped by the
loop); changes a program makes to objects it memoized.

## 3. Runs

| Run | Question | Bounds |
|---|---|---|
| `mark_phase` | does marking find exactly the reachable objects, in the memory it has? | all heaps of at most 3 objects over four shapes with at most 3 pointer fields, all pointers, two root words plus a global and two extra roots |
| `compact_phase` | does compaction preserve roots and graph? | all heaps of at most 3 objects over three shapes, every set of live objects, extra roots inside and outside of the scanned regions, the heap in place, moved down, moved up |
| `runtime_calls` | does a program notice collections? | 3 calls to nine functions, 2 to the seven about strings, or 1 to any after three arguments on the command line; a heap that two small objects fill |
| `runtime_cycles` | the same with longer sequences over mutable arrays, and with the pool of extra roots at its limit; does every call return? | 4 calls with cycles reachable, or 2 calls on a heap of 40 words; a pool of 3 |
| `runtime_cons` (violation) | does the cell of `Ls__Infix_58` hold its operands? | 2 calls |
| `runtime_sprintf` (violation) | are roots into the heap always objects? | 3 calls, a raw word inside the initial heap |
| `interp` | do the interpreter's arrays represent the stack machine on every path? | three families of programs, 7 words for operands and two globals, 17 of call stack, one object, two in the third family; numbers up to 2, characters 1 and 2, objects at twice 3 |
| `compiled_program` | do evaluator, stack machine and processor agree on every program, and are the latter two in step? | 2015 programs |
| `compiled_captures` (violation) | the same where a function assigns to a variable a nested function captures, too | 3 programs |
| `compiled_division` (violation) | is the processor in step across a division in a closure? | 1 program |
| `collections` | do AVL trees and hash tables implement maps and sets; do equal values have equal answers in a memo table? | maps of 4 keys, hash tables of 3 keys in 2 classes, 2 values, at most 2 values of a key; sets of 7 elements; 4 memoized objects created, of at most 2 elements |
| `memo_parts` (violation) | are equal parts of memoized answers the same object? | as `collections`, without strings |

Three objects are enough for every relation the code distinguishes: dead before
live (so that objects move), live before dead, an object that moves by less
than its own size and overlaps itself, an object moved over a dead one, cycles
of length one to three, an object with two parents, an empty array as the last
object (whose content pointer is `heap.current`). `Requests` is larger than the
heaps so that the heap must grow, and `MinimumHeapCapacity` (the code's 4) is
reached when nothing survives.

In `interp` the first family has a main function that makes a closure of its
local, and calls it, a function of one argument and a function without
arguments, which call each other; every function assigns its variables, also
through addresses. Three frames fit in the call stack (five words each, and two
of the next), so that recursion ends in its overflow; the operand stack of
nine words, two of them globals, overflows earlier on some paths. With two
globals main's END writes its result over one of them. The second family is a main
without calls that builds strings, arrays, S-expressions and closures and tests
them with every kind of pattern and jump. In the third family two objects are
alive: strings of one or two characters, equal or not, which main changes,
reads, stores in a constructor and compares with each other and with numbers.
`MaxObjects` and `MaxTemps` bound objects and temporaries for each family.

In `compiled_program`, `Matching` matches twelve values against each pattern of
depth up to three, with a second branch that matches always or sometimes, so
that what the first pattern leaves behind when it fails is seen by the second.
`Nesting` puts assignments (to variables, elements, conditional destinations)
and output inside every statement that has a label of its own, conditionals,
both loops, scopes and branches of cases, twice over where destinations and
values are conditionals themselves. Destinations that are case expressions end
in a pattern that always matches. `Functions` has two local functions that
capture a parameter and a local of the function around them, assign to it, call
each other, or are values; `Chains` has three whose captures depend on each
other's in every way three can call each other, for which one round of
propagation is not enough; in `Nests` a function stands in another. `Deep` and
`Closures` put each operator, assignment, call and constructor behind one to four
waiting operands, so that they are in registers, in slots, or in one of each,
in the program itself and in a function with captured variables. `TailCalls`
has functions of one, two and five parameters whose tail calls move every
argument onto another one, for functions that are global, local, closures or
values.

Six nodes are the fewest in which a double rotation meets an inner node that is
not balanced, hence sets of seven elements
in `collections`. That run checks the collections side by side, not together:
a memo table is used by a program whose map stays empty.

`EXTRA_ROOM_HEAP_COEFFICIENT` is the code's 2. `MaxCalls`, `MaxBody` (longest
string), `MaxName` (most objects in the heap), `MaxArgs`, `Operands` and
`Lengths` bound the program; they cap what it may do, not what the collector
does.

*Fairness.* Weak fairness of the whole next-state relation of a phase, and of
the steps of a call that has begun: it is sequential C code that runs until it
returns. Nothing obliges the program to make a call. `CHECK_DEADLOCK FALSE` is
there because the phases end, programs end or stop calling, an exception ends a
run, a program exits when memory or the pool of extra roots runs out, and the
number of objects in `MemoTable` is bounded. `CompiledProgram` states no
fairness and checks for deadlock: evaluator, generator and machines take
turns, a finished program stutters, and `Paced` bounds the steps of the compiled
program by those of the source, so that a program that loops or gets stuck
shows as a safety violation. `RunBound` (three instructions of stack code for
one call of the evaluator) and `LagBound` (thirty instructions of the processor
between two of the stack machine) are bounds these programs stay below, not promises of the
compiler.

*Properties.* `MarkExact`, `QueueInvariant` and `QueueFits` are the statements
of comments in `mark` and `gc.h`; `GraphPreserved` and `RootsPreserved` are the
checks a `FULL_INVARIANT_CHECKS` build makes by comparing dumps of the stack and
of the marked objects before and after. `ImplementsGraph` is refinement: every step of the
composed system is a step of `ObjectGraph` or leaves `shown` alone; the run
checks it and section 4 proves it.
`ImplementsStackMachine` (also proved) and `ImplementsAssociations` are
refinements, too. `ObjectGraph` says what steps a program may see, of any
function: that a call does what its own function promises is said by the
definition of each call in `Runtime`, not by the refinement, which says that
collections do not show. `ScannedWordsLive` is a part of what the collector
assumes of the interpreter: none of the words it scans is a leftover of an
operand popped before (`Junk`). It does not flag the addresses inside closures
that `LDA` leaves there (`Inside`), which are not values either. `MeaningPreserved` compares output, result and
failure of the evaluator and the stack machine. `InStep` compares the stack
machine and the processor whenever they are at the same instruction: operands
are where the symbolic stack has them, variables in their places, the closure in
`%edx` and in its slot. `JumpsAgree` says that the code generator, which sees
the code once, assumed the same symbolic stack at a label as every jump to it
and every way into it from above has; `Encodable` that no instruction has two
operands in memory. `Valid` is what `validateColl`
checks, and that subtrees differ in height by at most one, which it does not.
`Canonical` and `PartsCanonical` are the two readings of hash-consing: of what
the program looked up, and of the parts of the answers.

### Disagreements found

* `Ls__Infix_58` (the function `:`), `runtime.c:91`: registers its parameters,
  then passes copies of them to `Bsexp`, whose arguments the collector cannot
  see. After a collection inside `Bsexp` the cell holds old addresses. Compiled
  uses of the operator call `Bsexp` directly; the function is reached when `:`
  is used as a value (`stdlib/regression/test24.lama:3`).
* `Lsprintf` (and `Lprintf`, `Lfprintf`, which do not allocate afterwards),
  `runtime.c:966`: unboxes numbers in place on the scanned stack. An even
  number whose bits are an address in the heap is then a root. With a heap
  placed by `MAP_32BIT` the numbers are large, but nothing excludes them.

* Captures of captures, `SM.ml:871`: when a nested function is compiled,
  `propagate_acc` looks a variable up in the scopes the function around it had
  when it met the definition, restored by `open_fun_scope` (`:1099`). A variable
  that function captured later in its own body is captured again, as a second
  copy. An assignment changes one of the copies, and the nested function's
  closure is made of the other. The evaluator gives 11 where the compiled
  program gives 10. Where the function around it does not assign, they agree
  (`Nests`).
* Division, `X86.ml:377`: leaves the remainder in `%edx`, where code with
  captured variables expects the closure. All other operators that use `%edx`
  reload it.
* `lookupMemo`, `Collection.lama:344`: adds the completed value to the map its
  parameter's pattern bound at the beginning, and so undoes what the recursive
  calls for the elements added. Parts of a result that were one object are then
  two. In the run the program makes an array `a`, an array `b` that contains `a`,
  and `[b, a]`, such as `[[[0]], [0]]`, and looks up only the last: the call for
  `b` forgets `a`, and the answer has one copy of `a` in `b` and another beside it.

Met while reading, and the subject of no run:

* `case ... esac := e` (`X86.ml:659`, `SM.ml:1578`; `spec/03.04.expressions.tex:32`
  and `:48` allow it): `FAIL` leaves one operand for a case expression that yields
  a value, but a reference is two operands on the symbolic stack. If the
  patterns may all fail, the jump behind `FAIL` sets a stack for the label at
  the end that is one operand short, and the code generator pops from an empty
  stack. The stack machine runs the same code as the evaluator does.
* In a function nested two deep in the program, a variable of an inner scope of
  the program (not of a function) is looked up by `propagate_acc` past the
  outermost function, which ends the compiler with `Match_failure`.
* The name of a local function is its own name and the number of a scope, so
  that a global called `f_1` has the label of a local `f` in scope 1.
* Numbers and objects, `interpreter.c:314`: `UNBOX` shifts both operands, so
  that an object at address 2*n* is equal to the number *n*. The compiler
  turns a constant pattern into `CONST` and `BINOP "=="` (`SM.ml:1273`), which
  `eval` answers with 0 for an object (`SM.ml:453`). `NumbersApart` excludes it.
* String patterns, `runtime.c:909`: `strcmp` ends at a zero, which an assignment
  may store in a string. Characters, `runtime.c:685`: one above 127 comes out of
  a string negative. `AsciiOnly` excludes both.
* `__shutdown` (`gc.c:586`) unmaps `heap.size` bytes, and `heap.size` counts words.

`isEmptyMap` (`Collection.lama:218`)
is false for a map from which everything was removed, because removals leave the
nodes in the tree (`spec/08.standard_library.tex:216` says that it returns
"true if an argument map is empty"); `addHashTab` and `removeHashTab` (`Collection.lama:362`, `:377`) update
the table in place, while `spec/08.standard_library.tex:292` calls hash tables
immutable.

The inclusive bounds in `scan_and_fix_region_roots` are one word wider than the
scans they stand for; no C variable lies in those words, and `ExtraRootsOK`
says so as a precondition.

## 4. Proofs

`MarkPhaseProofs` proves, for every heap, layout and set of roots that satisfy
`MarkInit`, and from the assumptions `HeaderWordsAssumption` (a header has at
least one word) and `LayoutAssumption` (globals below the stack):

* `MarkTypeCorrect`, `QueueCorrect`, `QueueNeverOverflows`, `MarkingExact`:
  the four invariants of the run `mark_phase`;
* `MarkBenign`: the action property.

The invariants of the run are not inductive. `MarkIInv` adds what they rest on:

* `Shape`: the heap is contiguous and precise, which marking never changes;
* `QueueShape`: the objects before `qTail` have recorded distinct objects; the
  ones recorded before `qHead` are marked, the ones from `qHead` on are enqueued
  and unmarked, and no other object is enqueued. This is why the queue fits: if
  `qTail` had reached `heap.current`, recording would be an injection of the
  finite heap into itself, so every object would be marked or enqueued, and
  none would be left that needs to be enqueued;
* `Visiting`, `FieldsFound`, `RootsFound`: what has been scanned points to
  marked or enqueued objects, so that when the queue is empty the marked
  objects are closed, and when the roots are done they include the roots;
* `OnlyReachable`: nothing else is marked.

`MarkInductive` has one lemma per action.
Reachability is defined as the least closed set, so that "every marked object
is reachable" and "every reachable object is marked" are both one step from the
definition, without induction along paths.

`CompactPhaseProofs` proves, for every heap, every set of live objects, every
place `mremap` may choose and every layout and set of roots that satisfy
`CompactInit`, and from those two assumptions and `CapacityAssumption` (the
coefficient is positive; capacities and addresses are natural numbers):

* `CompactTypeCorrect`, `NeverClobbers`, `RootsArePreserved`,
  `GraphIsPreserved`, `LeavesHeapReady`: the five invariants of the run
  `compact_phase`;
* `NeverShrinks`: the action property.

`CompactInit` contains the preconditions, which the composition checks at every
collection: what the marks say is live is closed under pointers (`LiveClosed`,
which the mark phase establishes), no extra root is one of the two words that
the inclusive bounds skip (`ExtraRootsOK`), and `BasesUnused`.

`CompactIInv` compares the memory at every point with `before`, the copy taken
at the beginning, by way of the locations `f` that the first loop finds:

* `Packed`: the locations are in the order of the objects, do not overlap,
  leave no hole between the beginning of the heap and `live`, and none is to the
  right of its object. `Locating` says this of the objects the iterator has
  passed, and afterwards it is true of all survivors and never changes;
* `HeapCarried`: while references are fixed every object is where it was,
  relative to the beginning of the heap, and its fields are the old ones ahead
  of the iterator and the corrected ones behind it;
* the words outside the heap are fixed exactly once, although two loops and
  a list of extra roots walk over them: each loop has a set of slots it has
  dealt with, and these sets are disjoint because of the test `OfRegion`;
* `HeapSliding`: while objects move, those ahead of the iterator are in place,
  those behind it are at their locations, and anything else in the heap lies to
  the right of all that were moved.

Why nothing is clobbered: a moved object ends before the next survivor, because
its location is not to the right of it and locations do not overlap. Why nothing
is left over: the locations have no holes, so that the words an object is moved
to are next to the ones written before it, and whatever was there is
overwritten or is dead and to the right. Without "no holes" the invariant is not
inductive: the remains of a dead object could survive between two moved ones,
and the heap would not be contiguous. `CompactInductive` has one lemma per action.

`RuntimeProofs` proves about the composition, for every program, every size of
the initial heap and every place `mremap` may choose:

* `CollectorIsReady`, `EveryCallServed`: `RuntimeSpec` implies the invariants
  `CollectorReady` and `Served` of the run `runtime_calls`, which are what the
  two phases take for granted and what a function of the runtime takes for
  granted of `alloc`.

Both have the hypothesis `Careful`: no program calls the functions in `Careless`,
the two that the runs `runtime_cons` and `runtime_sprintf` show to break the
contract (a program that calls `Lsprintf` may leave a root that is no object's
address, and one that calls `Ls__Infix_58` an object with a stale field). The
programs of `runtime_calls` satisfy it.

`CollectorReady` is not inductive: whether the next collection finds nothing
but sound pointers depends on the one before it having found every word to be
fixed. `RuntimeIInv` has one clause for each place the system can be in:

* while the program runs, at the beginning of a call and behind a collection,
  `Ready`: no holes, no marks, and `Orderly`, which says of every word of the
  program, of the stack and of every field that it is not positive or points to
  an object, *and* that a word that points to an object is one the collector
  knows of (a global, on the scanned stack, or registered as an extra root).
  The second half is the discipline of the extra roots. Without it the
  invariant breaks in the next collection, which moves the object and leaves
  the word behind; it is what `Ls__Infix_58` does not keep to;
* during marking `MarkIInv`, during compaction `CompactIInv`, the invariants of
  the phases' own proofs, used as they are. What has to be shown in between is
  that `Ready` implies `MarkInit`, that a complete marking implies
  `CompactInit`, and that `RootsPreserved`, `GraphPreserved` and `HeapReady` imply
  `Ready` again;
* during compaction the old memory, `before`, is still `Orderly`;
* `Supplied`, in a call: what the new object is going to be made of is there,
  of the kind and length for which memory was requested (so that the body
  `Return` writes fits the words `alloc` returned), also for the functions that
  measure their arguments before the allocation and read them after it;
  `ArrayKept`, the same of the array `set_args` fills between collections;
* `CallTyped`: the extra roots are the permanent one and those of the call.

The call may find the pool full, and marking and compaction may fail: nothing
is claimed of the memory then. `RuntimeInductive` has one lemma per step
(`EnterStep` serves every function that allocates; each function has a
lemma that the words it pushes and the roots it registers are what `EnterStep`
asks for). That `FreeName` finds a name no object has is `LeastUnused`, the
existence of a smallest unused number, by well-foundedness instead of induction.

`RuntimeGraphProofs` proves the refinement of the abstract specification:

* `RuntimeImplementsGraph`: `RuntimeSpec` implies `ImplementsGraph`. Whatever a
  program calls and whenever the collector runs, what the program can see is
  a graph of objects that never move, and each call does to it what
  `ObjectGraph` says.

It has two hypotheses. `Careful` is as above. `EnoughNames` says that no program has more
arguments and makes more calls than there are names (`MaxName`): names are the
model's, the code has none, and every program of the runs has fewer.

The names are what makes this more than the invariants of the collector: the
abstract object is found by the name the concrete one carries through marking,
sliding and the change of its address. `GraphIInv`, with `RuntimeIInv`, is inductive:

* while the program runs, `Agreed`: no two objects have the same name, nothing
  points outside the heap (`Meaningful`), and `shown` is what the program's variables
  lead to;
* in a call, `shown` is the same and `Meant` says of the operands, read *where the
  code is going to read them after the allocation* (extra roots, the stack, the
  permanent globals), that they mean what the variables meant when the call
  began; for the functions that copy characters, that the string they copy is one the
  program knows;
* in `set_args`, `ArgsMade`: the heap is exactly the array and the strings made so far, in order;
* during marking the same, and during compaction the same of `before`, the old
  memory: nothing is claimed of the memory half moved. At the end
  `GraphPreserved` and `RootsPreserved` carry it over (`CompactKeepsGraph`): old and new objects
  have the same names and show the same;
* `NamesLeft`: the names used are below what `MaxName` leaves for the calls to come.

A step is then compared with the graph's. Two facts about what can be reached
serve all of them. What is reached is the least set that holds what the variables
hold and is closed (`ReachedFacts`), so the store is the same whether it
is computed from everything in the heap or from the part that was live
(`KeptOfPart`): that is why losing garbage in a collection does not show. And
an allocation adds one object under a new name and changes no other
(`NewObjects`), so the new object shows what was filled in (`ReturnMakes`).
`BstaMeans` is the one step that changes an old object: it changes it for every
variable that leads to it, because objects have names of their own.

To be reasoned about, `Reached` is defined as the least closed set of names
instead of by steps along references; on a finite store the two are the same.

`BytecodeInterpProofs` proves about the interpreter, for every program, every
size of the two stacks and every number of globals that satisfy the assumptions
below:

* `InterpTypeCorrect`, `FramesAreNested`, `ScannedWordsAreLive`: the three
  invariants of the run `interp`.

None of them is inductive, nor are the three together. END finds the caller's
registers where BEGIN saved them only as long as no assignment reached them, an
assignment goes through an address somebody else computed, and the address was
computed from registers. `InterpIInv` is:

* `Nesting`: each frame, from its last local to the word of its closure
  (`FirstTemp(k) + 1 .. Edge(k)`), is below the locals of all its callers, and
  the words a called function is going to have are temporaries;
* `MemoryOK`: locals, arguments, closures and globals hold values, never an
  address and never a leftover. An address may only be among the temporaries,
  and points *up*, to a local, an argument or a global of this frame or an
  older one (`Target`). That is why a return is harmless: the frame it removes
  is below everything the temporaries that stay can point to. And no address is
  the one of a word that holds a closure (`ClosuresAreNoTargets`), so that an
  assignment cannot replace the closure a function runs with;
* `FrameOK`: the word a frame of a closure has its closure in holds a closure
  *of the function the frame is of*; with `StoreOK` (a closure has as many
  fields as its function captures) every captured variable is there. The first
  frame is main's, with at most two arguments nobody pushed, so that its END
  stops at most two words beyond the first global;
* `ControlOK`: the call stack has five words for a frame, four for the last.

`InterpInductive` has one lemma for each group of instructions that do the same
to memory: a result in place of operands (`ResultStep`), a value given up
(`PopStep`), a variable assigned (`AssignStep`), all of which leave the frames
alone (`BodyStep`); and `EnterStep`, `BeginStep`, `ReturnStep`, `MainEnds`.

The assumptions: `CodeAssumption` is what `compile` and `compile_fundef` emit. A
function starts with its only BEGIN, jumps stay in its body, a variable is
captured only if its function captures it, a direct CALL is of a function that
captures nothing (`fix_closures` makes it a CALLC otherwise), a closure is made
with all that its function captures, and main does not use the two arguments it
declares (`SM.ml:1650`). That the operands of an instruction are on the stack is
not assumed of the code; it is `Compiled`, a condition of the step.
`SizeAssumption`: there is room for one operand besides the globals. Its
`MaxNum`, and the same bound in `Bounded`, exclude overflowing numbers.
`CharsAssumption`: characters are bytes, and numbers the bounds admit.
`HalvesAssumption`: half an address is an integer.

`BytecodeMachineProofs` proves the refinement of the stack machine, from the
same assumptions and `TagsDiffer`:

* `InterpImplementsStackMachine`: if `AsciiOnly` and `NumbersApart`, then `Spec`
  implies `ImplementsStackMachine`. Whatever code the compiler emits for a program of ASCII
  strings without zeros and of numbers that are no half of an address, every step of the interpreter is a step of
  `eval` of `SM.ml`, or one the machine does not see (the stop at the end of
  one of the two stacks).

`InterpIInv` is not enough for it. It says that addresses on the stack are
addresses of variables; the machine has designations there, and the variable a
designation means depends on the frame it is used in. `MachineIInv` adds to it:

* `OwnIInv`: a temporary of a frame is no address but one of a global, of a
  variable of this same frame, or of a variable captured by the closure the
  frame runs with. An address is pushed by LDA and consumed by STA in the body
  of one function, because a call takes only values off the stack of its
  caller (`StackDiscipline`) and `END` leaves a value; so the designation the
  mapping reads off an address (`Designation`) is the one the code pushed, and
  stays so whatever is called in between;
* `SexpTags`: the constructors in the store are ones the code names, so that
  comparing hashes is comparing constructors;
* `StringsOK`: the strings in the store are made of the program's characters,
  so that `strcmp` compares them whole and a signed char is the character.

The mapping concatenates the temporaries of all frames (`Operands`) and reads
callers off the call stack (`Callers`). `BytecodeViewProofs` states what moves
them. The words below are a frame's that no instruction of another touches
(`Stays`), so `Operands` is `Beneath`, what the callers have, followed by the
temporaries of the current frame (`Split`), and an instruction in the body of a
function changes the end of the last part only. Then, by groups of instructions:

* a result in place of operands (`ResultViews`, `PopViews`): what the two
  machines compute from equal operands is equal. Where the interpreter unboxes
  an address that `eval` refuses or tells from a number, `NoException` has
  excluded the first, and `NumbersApart` makes the second come out alike;
  `AsciiOnly` does the same for characters and string patterns;
* an assignment (`AssignImplements`): one word of the array is written, and
  the mapping shows it as one variable of one frame, one global, or one field
  of the closure in the store;
* a call (`EnterViews`, `CallImplements`, `ClosureCallImplements`): no word moves, and the words that
  were the last temporaries of the caller become, in the mapping, the
  arguments and the closure of the pending frame. `BEGIN` makes its locals out
  of free words (`BeginImplements`);
* a return (`ReturnImplements`): the frame's words are given up and its value
  becomes the caller's last temporary, though the caller's frame is not stored
  anywhere but in the call stack. `EndImplements` is the return from main.

That the machine forgets its globals at the end is needed: an end that kept them
would be implemented by programs of at most one global only.

Model-checked only: termination and `CallReturns` (liveness under fairness is
beyond the prover), and everything about the compiler and the library. `ExprEval`, `CompileEnv`,
`CompileExpr`, `X86Code`, `CompiledProgram`, `Collection` and `MemoTable`
describe recursive functions on trees and lists with recursive operators, about
which this prover cannot reason; their claims stay with TLC.

Assumptions on constants, each evaluated by the runs: `HeaderWordsAssumption`,
`LayoutAssumption`, `CapacityAssumption`; `FrameAssumption` (the globals,
`global_sysargs`, the frame of a runtime function, the words it has for the
arguments of one, and the program's variables are apart from each other, in
that order, below the bottom of the stack); `MappingAssumption` (`mmap` and
`mremap`, called without a fixed address, do not choose 0);
`ProgramAssumption` (the tuples a program passes have no more elements than
there are words for arguments; and the words `Bclosure` registers, those from
twelve words above its frame on, are still words of the stack: a closure
made by a frame so close to the bottom that they are not is outside the
model, which does not have the words of the C library's start code there);
`TagsDiffer` (constructors of a program differ in the five
characters their hashes keep, `spec/06.limitations.tex:13`) and
`HashAssumption` (hashes are natural numbers); `CharsAssumption` and
`HalvesAssumption` (above). `AsciiOnly` and `NumbersApart` are not assumed of
the constants but named as hypotheses in the one theorem that needs them.

What sections 2 to 4 describe exists. What would come next, in order:

1. The interpreter composed with the collector: `Runtime`'s roots read off
   `BytecodeInterp`'s operand stack, for the addresses inside closures that
   `LDA` leaves on it.
2. Numbers of 31 bits in the two machines against those of 63 in the evaluator.
3. Programs of several units: imports, initialisation in order, interfaces.
4. `Buffer`, `Lazy`; the table of infix operators; the runtime's `compare` and
   `hash` as operators over graphs.

Not planned: the parser (built on a combinator library outside the repository),
printing, files, regular expressions, the disassembler, the driver's option
handling, documentation and test inputs.

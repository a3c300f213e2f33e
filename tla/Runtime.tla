------------------------------ MODULE Runtime ------------------------------
(***************************************************************************)
(* A Lama program at work: the calls it makes to the functions of          *)
(* src/runtime/runtime.c that read, write and allocate objects, and the    *)
(* collector that runs, in the middle of a call, when the heap is full.    *)
(*                                                                         *)
(* An allocating call has three steps: the arguments are pushed and the    *)
(* function registers its extra roots; alloc collects if it has to, in all *)
(* the steps of MarkPhase and CompactPhase; the function fills the new     *)
(* object with what its arguments hold by then and returns.                *)
(*                                                                         *)
(* Before the program set_args turns the command line into an array of     *)
(* strings, with allocations that may collect in the middle of its loop.   *)
(*                                                                         *)
(* The word at stackTop is the frame of the function the program called.   *)
(* The arguments the program pushed are above it, on the scanned stack;    *)
(* the locals of that function and the arguments of the functions it calls *)
(* in turn are below it, and invisible to the collector unless registered. *)
(***************************************************************************)
EXTENDS MarkPhase, CompactPhase, TLC

CONSTANTS
  StackTop,      (* the frame of the runtime function being called         *)
  MaxArgs,       (* arguments are in the MaxArgs words above StackTop      *)
  Locals,        (* program variables on the stack                         *)
  SysArgs,       (* &global_sysargs: a static variable, an extra root      *)
  HeapBegin,     (* where mmap put the heap                                *)
  ClosureRootOffset,  (* where Bclosure believes its arguments are         *)
  MaxExtraRoots, (* MAX_EXTRA_ROOTS_NUMBER                                 *)
  Programs,      (* what the program may be: words of the initial heap,    *)
                 (* arguments, calls it makes, functions it calls          *)
  RawWord,       (* the tags, characters and code addresses               *)
  Operands,      (* the tuples of variables it may pass to a constructor   *)
  Lengths,       (* the lengths it may pass to LmakeArray                  *)
  MaxBody,       (* bound on the length of a string                        *)
  MaxName        (* bound on the objects in the heap, garbage included     *)

VARIABLES
  todo,          (* the program, with the calls it has still to make       *)
  call,          (* the call in progress                                   *)
  shown          (* what the program sees, as of the last time it ran      *)

(* Where the program and the runtime keep their words: the globals, the    *)
(* permanent extra root, the frame of a runtime function and the arguments *)
(* of one, the program's variables.                                        *)
ASSUME FrameAssumption ==
  /\ StackTop \in Nat /\ MaxArgs \in Nat /\ 2 <= MaxArgs
  /\ SysArgs \in Nat /\ GlobalStop < SysArgs /\ SysArgs < StackTop - MaxArgs
  /\ StackTop + MaxArgs < StackBottom
  /\ Locals \subseteq StackTop + MaxArgs + 1 .. StackBottom - 1

(* Neither mmap nor mremap chooses the address 0.                          *)
ASSUME MappingAssumption == HeapBegin \in Nat \ {0} /\ 0 \notin RemapBases

gcVars == <<markVars, compactVars>>

Nil == -1     \* BOX(0)

Globals == GlobalStart .. GlobalStop - 1

Assignable == Locals \cup Globals
Var == Assignable \cup {SysArgs}

(* What a program may ask for.  The words Bclosure registers are words of  *)
(* the stack, the word at its bottom included.                             *)
ASSUME ProgramAssumption ==
  /\ Programs \subseteq [heap : Nat, argc : Nat, calls : Nat, fns : SUBSET STRING]
  /\ RawWord \in Int /\ Lengths \subseteq Nat /\ MaxName \in Nat
  /\ Operands \subseteq Seq(Var)
  /\ \A ops \in Operands : Len(ops) <= MaxArgs
  /\ ClosureRootOffset \in Nat \ {0}
  /\ \A ops \in Operands :
       StackTop + ClosureRootOffset + Len(ops) - 1 <= StackBottom

Arg(i) == StackTop + i          \* what the program pushed
Inner(i) == StackTop - i        \* arguments of a call made by the function

Points(x) == ValidHeapPointer(words[x])
At(x) == heap[ToData(words[x])]
-----------------------------------------------------------------------------
(* The graph of objects the program is to see.  What objects are made of:  *)
(* with operands, and without.                                             *)
Heads == {<<"ARRAY", <<>>>>, <<"SEXP", <<<<"value", RawWord>>>>>>,
          <<"CLOSURE", <<<<"value", RawWord>>>>>>}

Fresh == {<<"ARRAY", [i \in 1 .. n |-> <<"value", Nil>>]>> : n \in Lengths}
           \cup {<<"STRING", [i \in 1 .. n |-> <<"value", RawWord>>]>> :
                    n \in Lengths \cup {1}}

graph == INSTANCE ObjectGraph WITH
           store <- shown.store,
           env   <- shown.env,
           Name  <- 0 .. MaxName,
           Nil   <- <<"value", Nil>>

(* What the words ws show a program when the heap is h, from lo to hi: the *)
(* objects in the heap, by their names, and what the variables hold.       *)
Value(w, h, lo, hi) ==
  CASE ~InChunk(w, lo, hi) -> <<"value", w>>
    [] InChunk(w, lo, hi) /\ ToData(w) \in DOMAIN h ->
         <<"object", h[ToData(w)].id>>
    [] OTHER -> <<"dangling", 0>>

Shows(o, h, lo, hi) ==
  [kind |-> o.kind,
   body |-> [i \in 1 .. Len(o.body) |->
               IF i < FirstField(o) THEN <<"value", o.body[i]>>
               ELSE Value(o.body[i], h, lo, hi)]]

Ids(h) == {h[a].id : a \in DOMAIN h}

Objects(h, lo, hi) ==
  [n \in Ids(h) |-> Shows(h[CHOOSE a \in DOMAIN h : h[a].id = n], h, lo, hi)]

Variables(h, ws, lo, hi) == [x \in Var |-> Value(ws[x], h, lo, hi)]

Sees(h, ws, lo, hi) ==
  LET env == Variables(h, ws, lo, hi)
  IN [store |-> graph!Kept(Objects(h, lo, hi), env), env |-> env]

NoCall == [fn |-> "none"]

(* The collector's variables when no collection is in progress.            *)
Idle ==
  /\ root = 1 /\ qHead = 0 /\ qTail = 0 /\ obj = 0 /\ field = 1
  /\ scan = 0 /\ live = 0 /\ extra = 1 /\ oldBegin = 0 /\ oldCurrent = 0
  /\ additional = 0 /\ before = NoCall
-----------------------------------------------------------------------------
(* alloc.  The new object gets a name no object in the heap has.           *)
FreeName ==
  LET taken == Ids(heap)
  IN CHOOSE n \in 0 .. Cardinality(DOMAIN heap) :
       n \notin taken /\ \A m \in 0 .. n - 1 : m \in taken

NewObject(k, body) == [id |-> FreeName, kind |-> k, body |-> body,
                       fwd |-> 0, mark |-> FALSE, enq |-> FALSE]

Request == HeaderWords + call.len

Fits == hcurrent + Request <= hend

Counted == todo.calls > 0 /\ todo' = [todo EXCEPT !.calls = @ - 1]

Room(n) == Len(extraRoots) + n <= MaxExtraRoots

(* A call begins: "pushed" are the words written to the stack, "roots" the *)
(* addresses the function registers with push_extra_root, which exits when *)
(* the pool is full.                                                       *)
Enter(c, pushed, roots) ==
  /\ pc = "mutator" /\ c.fn \in todo.fns
  /\ Counted
  /\ words' = [s \in Slot |-> IF s \in DOMAIN pushed THEN pushed[s] ELSE words[s]]
  /\ call' = [c EXCEPT !.roots = Len(roots)]
  /\ \/ /\ Room(Len(roots))
        /\ extraRoots' = extraRoots \o roots
        /\ pc' = "call"
     \/ /\ ~Room(Len(roots))
        /\ pc' = "failed"
        /\ UNCHANGED extraRoots
  /\ UNCHANGED <<heap, hbegin, hsize, hcurrent, stackTop, gcVars, shown>>

Pushed(ops) == [s \in {Arg(i) : i \in 1 .. Len(ops)} |-> words[ops[s - StackTop]]]

Args(n) == [i \in 1 .. n |-> Arg(i)]

(* ... and the parameter of a function that this one calls.                *)
Parameter(w, pushed) ==
  [s \in {Inner(1)} \cup DOMAIN pushed |-> IF s = Inner(1) THEN w ELSE pushed[s]]

(* gc_alloc: mark, then compact.                                           *)
StartGC ==
  /\ pc = "call" /\ ~Fits
  /\ pc' = "roots" /\ root' = 1
  /\ qHead' = hbegin /\ qTail' = hbegin /\ obj' = hbegin /\ field' = 1
  /\ UNCHANGED <<memory, scan, live, extra, oldBegin, oldCurrent, additional,
                 before, todo, call, shown>>

Mark ==
  /\ MarkNext
  /\ UNCHANGED <<scan, live, extra, oldBegin, oldCurrent, additional, before,
                 todo, call, shown>>

StartCompact ==
  /\ pc = "marked"
  /\ pc' = "locate" /\ scan' = hbegin /\ live' = 0 /\ extra' = 1
  /\ oldBegin' = hbegin /\ oldCurrent' = hcurrent
  /\ additional' = Request
  /\ before' = [heap |-> heap, words |-> words, lo |-> hbegin, hi |-> hcurrent]
  /\ UNCHANGED <<memory, root, qHead, qTail, obj, field, todo, call, shown>>

Compact ==
  /\ CompactNext
  /\ UNCHANGED <<root, qHead, qTail, obj, field, todo, call, shown>>

(* What the function writes to the new object, read after the allocation.  *)
BodyOf(a) == heap[ToData(words[a])].body

Filled ==
  CASE call.source = "words" ->
         call.raw \o [i \in 1 .. Len(call.args) |-> words[call.args[i]]]
    [] call.source = "copy" -> BodyOf(call.args[1])
    [] call.source = "both" -> BodyOf(call.args[1]) \o BodyOf(call.args[2])
    [] call.source = "part" ->
         SubSeq(BodyOf(call.args[1]), call.from + 1, call.from + call.len)

Created ==
  [a \in DOMAIN heap \cup {hcurrent} |->
     IF a = hcurrent THEN NewObject(call.kind, Filled) ELSE heap[a]]

Resting ==
  /\ root' = 1 /\ qHead' = 0 /\ qTail' = 0 /\ obj' = 0 /\ field' = 1
  /\ scan' = 0 /\ live' = 0 /\ extra' = 1 /\ oldBegin' = 0 /\ oldCurrent' = 0
  /\ additional' = 0 /\ before' = NoCall

(* Mutant: one extra root is popped, however many were pushed.             *)
PoppedOne == SubSeq(extraRoots, 1, Len(extraRoots) - 1)

Popped == SubSeq(extraRoots, 1, Len(extraRoots) - call.roots)

(* The function returns its object; extra roots and arguments are popped.  *)
Return ==
  /\ pc \in {"call", "compacted"} /\ call.fn # "set_args"
  /\ Fits /\ Room(call.late)
  /\ heap' = Created
  /\ hcurrent' = hcurrent + Request
  /\ words' = [s \in Slot |->
                 CASE s = call.dest -> Content(hcurrent)
                   [] s \in StackTop - MaxArgs .. StackTop + MaxArgs -> Nil
                   [] OTHER -> words[s]]
  /\ extraRoots' = Popped
  /\ call' = NoCall
  /\ pc' = "mutator" /\ Resting
  /\ UNCHANGED <<hbegin, hsize, stackTop, todo>>
  /\ shown' = Sees(heap', words', hbegin', hcurrent')

(* A function that registers its new object as well finds the pool full.   *)
LateOverflow ==
  /\ pc \in {"call", "compacted"} /\ Fits /\ ~Room(call.late)
  /\ pc' = "failed"
  /\ UNCHANGED <<memory, gcVars, todo, call, shown>>
-----------------------------------------------------------------------------
(* Bstring registers its parameter, often the address of a buffer, which   *)
(* malloc or the C library chose outside the heap.                         *)
StringBuf == 0

(* set_args.  Its variable p, an extra root, holds the array; Bstring has  *)
(* its parameter below it.                                                 *)
ArgArray == Inner(2)

(* Mutant: set_args does not register p.                                   *)
ArgRootsForgotten == <<Inner(1)>>

ArgRoots == <<ArgArray, Inner(1)>>

Argument(i) == <<RawWord + i>>

(* LmakeArray (BOX (argc)), called from the caller of set_args.            *)
SetArgs ==
  /\ pc = "start" /\ pc' = "call"
  /\ call' = [fn |-> "set_args", kind |-> "ARRAY", len |-> todo.argc,
              source |-> "words", raw |-> [i \in 1 .. todo.argc |-> Nil],
              args |-> <<>>, done |-> 0, roots |-> 0, late |-> 0]
  /\ UNCHANGED <<memory, gcVars, todo, shown>>

(* An allocation of set_args is done.  A string goes where p points after  *)
(* it: the compilers read p after the call.  Bstring (argv [i]) is next.   *)
NextArg ==
  LET i == call.done
      p == IF i = 0 THEN Content(hcurrent) ELSE words[ArgArray]
  IN /\ pc \in {"call", "compacted"} /\ call.fn = "set_args" /\ Fits
     /\ heap' = IF i = 0 THEN Created
                ELSE [Created EXCEPT ![ToData(p)].body[i] = Content(hcurrent)]
     /\ hcurrent' = hcurrent + Request
     /\ Resting
     /\ UNCHANGED <<hbegin, hsize, stackTop, todo>>
     /\ \/ /\ i < todo.argc
           /\ words' = [words EXCEPT ![ArgArray] = p, ![Inner(1)] = StringBuf]
           /\ extraRoots' = ArgRoots
           /\ call' = [call EXCEPT !.kind = "STRING", !.len = 1,
                                   !.raw = Argument(i + 1), !.done = i + 1,
                                   !.roots = 2]
           /\ pc' = "call"
           /\ UNCHANGED shown
        \/ /\ i = todo.argc
           /\ words' = [words EXCEPT ![ArgArray] = Nil, ![Inner(1)] = Nil,
                                     ![SysArgs] = p]
           /\ extraRoots' = <<SysArgs>>
           /\ call' = NoCall /\ pc' = "mutator"
           /\ shown' = Sees(heap', words', hbegin', hcurrent')
-----------------------------------------------------------------------------
(* The allocating functions.                                               *)
Call(fn, k, len, source, raw, args, dest) ==
  [fn |-> fn, kind |-> k, len |-> len, source |-> source, raw |-> raw,
   from |-> 0, args |-> args, dest |-> dest, roots |-> 0, late |-> 0]

Constructor(fn, k, raw, ops, args, dest) ==
  Call(fn, k, Len(raw) + Len(ops), "words", raw, args, dest)

Barray(ops, dest) ==
  Enter(Constructor("Barray", "ARRAY", <<>>, ops, Args(Len(ops)), dest),
        Pushed(ops), <<>>)

Bsexp(ops, dest) ==
  Enter(Constructor("Bsexp", "SEXP", <<RawWord>>, ops, Args(Len(ops)), dest),
        Pushed(ops), <<>>)

(* Bclosure registers as many words as it captures, but not the ones that  *)
(* hold what it captures: those are safe on the scanned stack.  It         *)
(* registers the new closure too.                                          *)
Bclosure(ops, dest) ==
  Enter([Constructor("Bclosure", "CLOSURE", <<RawWord>>, ops, Args(Len(ops)), dest)
           EXCEPT !.late = 1],
        Pushed(ops),
        [i \in 1 .. Len(ops) |-> StackTop + ClosureRootOffset + i - 1])

(* The function synonymous with the operator ":" registers its parameters, *)
(* and passes copies of them to Bsexp.                                     *)
Ls__Infix_58(ops, dest) ==
  /\ Len(ops) = 2
  /\ Enter(Constructor("Ls__Infix_58", "SEXP", <<RawWord>>, ops,
                       <<Inner(1), Inner(2)>>, dest),
           (Inner(1) :> words[ops[1]] @@ Inner(2) :> words[ops[2]]) @@ Pushed(ops),
           Args(2))

LmakeArray(n, dest) ==
  Enter(Constructor("LmakeArray", "ARRAY", [i \in 1 .. n |-> Nil], <<>>, <<>>, dest),
        <<>>, <<>>)

(* The bytes of the string are left as they are.                           *)
LmakeString(n, dest) ==
  Enter(Constructor("LmakeString", "STRING", [i \in 1 .. n |-> RawWord], <<>>,
                    <<>>, dest),
        <<>>, <<>>)

(* Lfread has nothing to keep but its new string, which it then fills.     *)
Lfread(x, n, dest) ==
  /\ pc = "mutator" /\ Points(x) /\ At(x).kind = "STRING"
  /\ Enter(Constructor("Lfread", "STRING", [i \in 1 .. n |-> RawWord], <<>>,
                       <<>>, dest),
           Pushed(<<x>>), <<>>)

(* Lstring and Lstringcat build their result in a buffer of their own.     *)
Buffered(fn, x, dest) ==
  Enter(Constructor(fn, "STRING", <<RawWord>>, <<>>, <<>>, dest),
        Parameter(StringBuf, Pushed(<<x>>)), <<Arg(1), Inner(1)>>)

Lstring(x, dest) == Buffered("Lstring", x, dest)

Lstringcat(x, dest) == Buffered("Lstringcat", x, dest)

(* Bstring of bytes the C library owns; there may be none.                 *)
Foreign(fn, pushed, dest) ==
  \/ Enter(Constructor(fn, "STRING", <<RawWord>>, <<>>, <<>>, dest),
           Parameter(StringBuf, pushed), <<Inner(1)>>)
  \/ /\ pc = "mutator" /\ fn \in todo.fns /\ Counted
     /\ words' = [words EXCEPT ![dest] = Nil]
     /\ UNCHANGED <<heap, hbegin, hsize, hcurrent, stackTop, extraRoots, pc,
                    gcVars, call>>
     /\ shown' = Sees(heap, words', hbegin, hcurrent)

LgetEnv(x, dest) ==
  /\ pc = "mutator" /\ Points(x) /\ At(x).kind = "STRING"
  /\ Foreign("LgetEnv", Pushed(<<x>>), dest)

LreadLine(dest) == Foreign("LreadLine", <<>>, dest)

(* Lsubstring looks for its subject again after the allocation; one that   *)
(* is too short ends the program.  No string takes less than a word.       *)
Lsubstring(x, dest) ==
  /\ pc = "mutator" /\ Points(x) /\ At(x).kind = "STRING"
  /\ \/ \E p \in 0 .. Len(At(x).body) - 1 :
          \E l \in 1 .. Len(At(x).body) - p :
            Enter([Call("Lsubstring", "STRING", l, "part", <<>>, Args(1), dest)
                     EXCEPT !.from = p],
                  Pushed(<<x>>), Args(1))
     \/ /\ "Lsubstring" \in todo.fns /\ Counted
        /\ pc' = "failed"
        /\ UNCHANGED <<memory, gcVars, call, shown>>

(* Lsprintf first replaces the unboxed arguments, where they are on the    *)
(* stack, by the machine integers they stand for: those are raw words.     *)
Lsprintf(x, dest) ==
  /\ pc = "mutator" /\ Points(x) /\ At(x).kind = "STRING"
  /\ Enter(Constructor("Lsprintf", "STRING", <<RawWord>>, <<>>, <<>>, dest),
           Parameter(StringBuf, Arg(2) :> RawWord @@ Pushed(<<x>>)),
           <<Arg(1), Inner(1)>>)

(* Lclone leaves a string to Bstring, which has a parameter of its own and *)
(* measures the string anew; the body here is all of it, as it is of any   *)
(* string that has no zero before its end.                                 *)
Lclone(x, dest) ==
  /\ pc = "mutator" /\ Points(x)
  /\ LET o == At(x)
         Copying(args) == Call("Lclone", o.kind, Len(o.body), "copy", <<>>, args, dest)
     IN IF o.kind = "STRING"
        THEN Enter(Copying(<<Inner(1)>>), Parameter(words[x], Pushed(<<x>>)),
                   <<Arg(1), Inner(1)>>)
        ELSE Enter(Copying(Args(1)), Pushed(<<x>>), Args(1))

(* ++ measures its operands before it allocates and reads them after.      *)
Li__Infix_4343(x, y, dest) ==
  /\ pc = "mutator" /\ Points(x) /\ Points(y)
  /\ At(x).kind = "STRING" /\ At(y).kind = "STRING"
  /\ Len(At(x).body) + Len(At(y).body) <= MaxBody
  /\ Enter(Call("Li__Infix_4343", "STRING", Len(At(x).body) + Len(At(y).body),
                "both", <<>>, Args(2), dest),
           Pushed(<<x, y>>), Args(2))
-----------------------------------------------------------------------------
(* What does not allocate.                                                 *)
Quiet ==
  /\ pc = "mutator" /\ Counted
  /\ UNCHANGED <<hbegin, hsize, hcurrent, stackTop, extraRoots, pc, gcVars,
                 call>>

Fields(o) == FirstField(o) .. Len(o.body)

(* An element of a string is a character.                                  *)
Belem(x, dest) ==
  /\ Quiet /\ "Belem" \in todo.fns
  /\ Points(x) /\ At(x).kind # "CLOSURE"
  /\ \E w \in IF At(x).kind = "STRING" THEN {Nil}
              ELSE {At(x).body[i] : i \in Fields(At(x))} :
       words' = [words EXCEPT ![dest] = w]
  /\ UNCHANGED heap
  /\ shown' = Sees(heap', words', hbegin', hcurrent')

Bsta(x, y) ==
  /\ Quiet /\ "Bsta" \in todo.fns
  /\ Points(x)
  /\ \E i \in Fields(At(x)) :
       heap' = [heap EXCEPT ![ToData(words[x])].body[i] = words[y]]
  /\ UNCHANGED words
  /\ shown' = Sees(heap', words', hbegin', hcurrent')

Move(x, dest) ==
  /\ Quiet
  /\ words' = [words EXCEPT ![dest] = words[x]]
  /\ UNCHANGED heap
  /\ shown' = Sees(heap', words', hbegin', hcurrent')

-----------------------------------------------------------------------------
(* The array of the n arguments, and nothing else.                         *)
Started(n) ==
  [store |-> [i \in 0 .. n |->
                IF i = 0 THEN [kind |-> "ARRAY", body |-> [j \in 1 .. n |-> <<"object", j>>]]
                ELSE [kind |-> "STRING", body |-> <<<<"value", Argument(i)[1]>>>>]],
   env |-> [x \in Var |-> IF x = SysArgs THEN <<"object", 0>> ELSE <<"value", Nil>>]]

(* __gc_init has mapped an empty heap; shown is what the program is to see *)
(* when it starts: its arguments, in an array.                             *)
RuntimeInit ==
  /\ todo \in Programs
  /\ hbegin = HeapBegin /\ hsize = todo.heap /\ hcurrent = hbegin
  /\ heap = <<>>
  /\ words = [s \in Slot |-> IF s = SysArgs THEN 0 ELSE Nil]
  /\ stackTop = StackTop
  /\ extraRoots = <<>>
  /\ pc = "start" /\ call = NoCall /\ Idle
  /\ shown = Started(todo.argc)

(* What a call does once it has begun.                                     *)
GoesOn ==
  \/ StartGC \/ Mark \/ StartCompact \/ Compact
  \/ SetArgs \/ NextArg \/ Return \/ LateOverflow

RuntimeNext ==
  \/ \E dest \in Assignable :
       \/ \E ops \in Operands : \/ Barray(ops, dest) \/ Bsexp(ops, dest)
                                \/ Bclosure(ops, dest) \/ Ls__Infix_58(ops, dest)
       \/ \E n \in Lengths : LmakeArray(n, dest) \/ LmakeString(n, dest)
       \/ LreadLine(dest)
       \/ \E x \in Var : \/ Lstring(x, dest) \/ Lstringcat(x, dest)
                         \/ LgetEnv(x, dest) \/ Lsprintf(x, dest)
                         \/ Lsubstring(x, dest) \/ Lclone(x, dest)
                         \/ Belem(x, dest) \/ Move(x, dest)
                         \/ \E n \in Lengths : Lfread(x, n, dest)
       \/ \E x, y \in Var : Li__Infix_4343(x, y, dest)
  \/ \E x, y \in Var : Bsta(x, y)
  \/ GoesOn

runtimeVars == <<memory, pc, gcVars, todo, call, shown>>

RuntimeSpec == RuntimeInit /\ [][RuntimeNext]_runtimeVars

(* The program may stop calling the runtime; a call it made goes on.       *)
FairRuntimeSpec ==
  /\ RuntimeSpec
  /\ WF_runtimeVars(GoesOn)
-----------------------------------------------------------------------------
(* What the collector relies on, and what every step of the program and of *)
(* the runtime has to provide: a heap without holes, references only to    *)
(* objects, no mark left.                                                  *)
CollectorReady ==
  /\ pc \in {"start", "mutator", "call"} =>
       /\ MemoryOK /\ Contiguous(heap, hbegin, hcurrent)
       /\ PreciseRoots /\ PreciseFields /\ Unmarked
  /\ pc = "locate" /\ scan = hbegin /\ live = 0 =>
       LiveClosed /\ ExtraRootsOK /\ BasesUnused

(* Every allocation is served: once the collector is done there is room,   *)
(* and the extra roots of the call are all the pool holds on top of the    *)
(* permanent one, which set_args leaves.                                   *)
Served ==
  /\ pc = "compacted" => Fits
  /\ pc = "mutator" => extraRoots = <<SysArgs>>
  /\ pc \notin {"start", "mutator", "failed"} =>
       Len(extraRoots) =
         call.roots + IF call.fn = "set_args" THEN 0 ELSE 1

(* The program never notices a collection: what it sees is a graph of      *)
(* objects that stay put, each call doing to it what it is meant to; and   *)
(* the first thing it sees is all its arguments, in their order.           *)
ImplementsGraph == graph!GraphSpec

ValueNow(w) == Value(w, heap, hbegin, hcurrent)

(* "Functional synonym for built-in operator \":\"": the cell it returns    *)
(* holds what its operands held when it was called.                        *)
ConsHoldsOperands ==
  call.fn = "Ls__Infix_58" /\ pc \in {"call", "compacted"} =>
    \A i \in 1 .. 2 : ValueNow(words[call.args[i]]) = ValueNow(words[Arg(i)])

(* "Queue contains only objects that are valid heap pointers (each         *)
(* corresponding to content of unmarked object)": no root a collection     *)
(* starts from lies in the heap and is not an object's address.            *)
RootsAreObjects == pc = "roots" => PreciseRoots

(* A call returns, or the system has no memory left.                       *)
CallReturns == (pc = "call") ~> (pc \in {"mutator", "failed"})
=============================================================================

--------------------------- MODULE MCBytecodeInterp ---------------------------
(***************************************************************************)
(* Three families of programs.  In the first, main calls f, of one argument*)
(* and one local, and g, a closure of one argument that captures a variable*)
(* of main; they call each other and assign their variables, and main also *)
(* calls h, of no arguments, which calls itself.  In the second family, a  *)
(* main without calls builds objects and tests them; in the third it has   *)
(* two: strings it changes, compares or stores, and constructors.          *)
(***************************************************************************)
EXTENDS BytecodeInterp

MCFollowing(p) == <<p[1], "body">>
MCLabeled(fn) == <<fn, "entry">>

MCTagHash == [A |-> 1, B |-> 2]

Simple(ops) == {[op |-> o] : o \in ops}

Frames ==
  Simple({"STA", "DROP", "END"})
    \cup {[op |-> "CALL", fn |-> "f", n |-> 1], [op |-> "CALLC", n |-> 1]}

Data ==
  Simple({"ELEM", "DUP", "FAIL", "read", "write", "length"})
    \cup {[op |-> "BINOP", f |-> f] : f \in {"==", "<"}}
    \cup {[op |-> "STRING", s |-> <<1>>]}
    \cup {[op |-> "SEXP", t |-> t, n |-> 2] : t \in {"A", "B"}}
    \cup {[op |-> ".array", n |-> 1]}
    \cup {[op |-> "TAG", t |-> "A", n |-> 2], [op |-> "ARRAY", n |-> 1]}
    \cup {[op |-> "PATT", p |-> p] : p \in {"StrCmp", "String", "Array",
            "Sexp", "Closure", "Boxed", "UnBoxed"}}

Pairs ==
  Simple({"ELEM", "STA", "DUP", "DROP", "END"})
    \cup {[op |-> "BINOP", f |-> "=="], [op |-> "CONST", n |-> 0],
          [op |-> "CONST", n |-> 1]}
    \cup {[op |-> "STRING", s |-> s] : s \in {<<1>>, <<1, 2>>}}
    \cup {[op |-> "SEXP", t |-> "A", n |-> 1]}
    \cup {[op |-> "PATT", p |-> p] : p \in {"StrCmp", "String"}}

Access(ds) == {[op |-> o, d |-> d] : o \in {"LD", "LDA", "ST"}, d \in ds}

Jumps(p) ==
  {[op |-> "JMP", l |-> p]}
    \cup {[op |-> "CJMP", c |-> c, l |-> p] : c \in {"z", "nz"}}

MakeClosure(fn, ds) == {[op |-> "CLOSURE", fn |-> fn, ds |-> ds]}

CallH == {[op |-> "CALL", fn |-> "h", n |-> 0]}

MCCode ==
  (<<"main", "entry">> :> {[op |-> "BEGIN", n |-> 2, locals |-> 1]})
    @@ (<<"main", "body">> :>
          Frames \cup MakeClosure("g", <<At("Local", 0)>>)
            \cup CallH \cup {[op |-> "CONST", n |-> 1]}
            \cup Access({At("Global", 0), At("Local", 0)}))
    @@ (<<"f", "entry">> :> {[op |-> "BEGIN", n |-> 1, locals |-> 1]})
    @@ (<<"f", "body">> :>
          Frames \cup Access({At("Arg", 0), At("Local", 0)}))
    @@ (<<"g", "entry">> :> {[op |-> "BEGIN", n |-> 1, locals |-> 0]})
    @@ (<<"g", "body">> :>
          Frames \cup Access({At("Arg", 0), At("Access", 0)}))
    @@ (<<"h", "entry">> :> {[op |-> "BEGIN", n |-> 0, locals |-> 0]})
    @@ (<<"h", "body">> :>
          CallH \cup Simple({"END"}) \cup {[op |-> "LD", d |-> At("Global", 0)]})
    @@ (<<"data", "entry">> :> {[op |-> "BEGIN", n |-> 2, locals |-> 0]})
    @@ (<<"data", "body">> :>
          Data \cup MakeClosure("h", <<>>) \cup Jumps(<<"data", "body">>)
            \cup Simple({"STA", "DROP", "END"}))
    @@ (<<"pairs", "entry">> :> {[op |-> "BEGIN", n |-> 2, locals |-> 0]})
    @@ (<<"pairs", "body">> :> Pairs)

MCMaxTemps == [p \in DOMAIN MCCode |->
  IF p[1] = "data" THEN 3 ELSE IF p[1] = "pairs" THEN 4 ELSE 2]

MCMaxObjects == [p \in DOMAIN MCCode |-> IF p[1] = "pairs" THEN 2 ELSE 1]

MCEntries == {<<"main", "entry">>, <<"data", "entry">>, <<"pairs", "entry">>}
MCOwner == [p \in DOMAIN MCCode |-> <<p[1], "entry">>]
MCCaptures ==
  [p \in {q \in DOMAIN MCCode : q[2] = "entry"} |-> IF p[1] = "g" THEN 1 ELSE 0]
==============================================================================

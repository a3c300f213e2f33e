------------------------------ MODULE CompileExpr ------------------------------
(***************************************************************************)
(* The compiler of src/src/SM.ml: compile_expr, pattern and bindings, from *)
(* the expressions of ExprEval to the instructions of StackMachine, and    *)
(* compile_fundef and fix_closures, for functions and their closures.      *)
(*                                                                         *)
(* What carries information for a debugger is left out (line numbers, the  *)
(* labels of scopes).  Labels that code jumps to are numbers; Linked       *)
(* replaces them by positions, as the emission of bytecode and the labels  *)
(* of eval do.  "tail" says whether the value of an expression is that of  *)
(* the function it stands in.                                              *)
(***************************************************************************)
EXTENDS CompileEnv, FiniteSetsExt

Ins(o) == [op |-> o]
LABEL(l) == [op |-> "LABEL", l |-> l]
FLABEL(l) == [op |-> "FLABEL", l |-> l]
JMP(l) == [op |-> "JMP", l |-> l]
CJMP(c, l) == [op |-> "CJMP", c |-> c, l |-> l]
PATT(p) == [op |-> "PATT", p |-> p]
CONST(n) == [op |-> "CONST", n |-> n]
STRINGOF(s) == [op |-> "STRING", s |-> s]

(* Code for an expression, with the environment after it, and whether it   *)
(* jumps to the label it was given for its end.                            *)
Code(env, flag, code) == [env |-> env, flag |-> flag, code |-> code]

When(c, s) == IF c THEN s ELSE <<>>

-----------------------------------------------------------------------------
(* Patterns.  The code consumes the value on top, and goes on below or     *)
(* jumps to lfalse; the flag says whether it may.                          *)

RECURSIVE pattern(_, _, _), bindings_of(_, _)

Tests == [String |-> "StrCmp", ArrayTag |-> "Array", StringTag |-> "String",
          SexpTag |-> "Sexp", UnBoxed |-> "UnBoxed", Boxed |-> "Boxed",
          ClosureTag |-> "Closure"]

pattern_list(env, ldrop, ps) ==
  LET Next(c, i) ==
        LET p == pattern(c.env, ldrop, ps[i])
        IN  Code(p.env, FALSE,
                 c.code \o <<Ins("DUP"), CONST(i - 1), Ins("ELEM")>> \o p.code)
  IN  FoldLeft(Next, Code(env, FALSE, <<>>), [i \in DOMAIN ps |-> i])

\* Mutant: a sub-pattern that fails leaves the value it is part of.
CompoundLeaking(env, lfalse, test, ps) ==
  LET lhead == env.label
      sub == pattern_list(Labels(env, 2), lfalse, ps)
  IN  Code(sub.env, TRUE,
           <<Ins("DUP"), test, CJMP("nz", lhead), Ins("DROP"), JMP(lfalse),
             LABEL(lhead)>>
             \o sub.code \o <<Ins("DROP")>>)

Compound(env, lfalse, test, ps) ==
  LET lhead == env.label
      ldrop == env.label + 1
      sub == pattern_list(Labels(env, 2), ldrop, ps)
  IN  Code(sub.env, TRUE,
           <<Ins("DUP"), test, CJMP("nz", lhead),
             LABEL(ldrop), Ins("DROP"), JMP(lfalse), LABEL(lhead)>>
             \o sub.code \o <<Ins("DROP")>>)

pattern(env, lfalse, p) ==
  CASE p.node = "Wildcard" -> Code(env, FALSE, <<Ins("DROP")>>)
    [] p.node = "Named"    -> pattern(env, lfalse, p.p)
    [] p.node = "Const"    ->
         Code(env, TRUE, <<CONST(p.n), [op |-> "BINOP", f |-> "=="],
                           CJMP("z", lfalse)>>)
    [] p.node = "Array"    ->
         Compound(env, lfalse, [op |-> "ARRAY", n |-> Len(p.ps)], p.ps)
    [] p.node = "Sexp"     ->
         Compound(env, lfalse, [op |-> "TAG", t |-> p.t, n |-> Len(p.ps)], p.ps)
    [] OTHER               ->
         Code(env, TRUE, When(p.node = "String", <<STRINGOF(p.s)>>)
                           \o <<PATT(Tests[p.node]), CJMP("z", lfalse)>>)

(* The names a pattern binds, and the paths to what they name.             *)
bindings_of(path, p) ==
  CASE p.node = "Named" -> <<[x |-> p.x, path |-> path]>> \o bindings_of(path, p.p)
    [] p.node \in {"Sexp", "Array"} ->
         FlattenSeq([i \in DOMAIN p.ps |->
                       bindings_of(Append(path, i - 1), p.ps[i])])
    [] OTHER -> <<>>

BindIn(env, b, code) ==
  Code(env, FALSE,
       <<Ins("DUP")>>
         \o FlattenSeq([i \in DOMAIN b.path |-> <<CONST(b.path[i]), Ins("ELEM")>>])
         \o <<[op |-> "ST", d |-> lookup(env, b.x).d], Ins("DROP")>>
         \o code)

BindName(b, c) == BindIn(add_name(c.env, b.x), b, c.code)

bindings(env, p) ==
  FoldRight(BindName, bindings_of(<<>>, p), Code(env, FALSE, <<Ins("DROP")>>))

-----------------------------------------------------------------------------
(* Expressions.  l is the label of the end of the expression.              *)

add_code(c, l, f, s) == Code(c.env, f, c.code \o When(c.flag, <<LABEL(l)>>) \o s)

RECURSIVE compile_expr(_, _, _, _), compile_list(_, _, _, _)

compile_list(tail, l, env, es) ==
  IF Len(es) = 0 THEN Code(env, FALSE, <<>>)
  ELSE IF Len(es) = 1 THEN compile_expr(tail, l, env, es[1])
  ELSE LET les == env.label
           s1 == compile_expr(FALSE, les, Labels(env, 1), Head(es))
           s2 == compile_list(tail, l, s1.env, Tail(es))
       IN  add_code([s1 EXCEPT !.env = s2.env], les, s2.flag, s2.code)

(* Operands, and the instruction that uses them.                           *)
Operation(env, es, s) ==
  add_code(compile_list(FALSE, env.label, Labels(env, 1), es), env.label, FALSE, s)

(* A function as a value: its closure, once it is known what it captures.  *)
Closure(env, fn) ==
  Code(register_call(env, fn), FALSE,
       <<[op |-> "PROTO", fn |-> fn, c |-> current_function(env)]>>)

CompileVar(env, x) ==
  LET v == lookup(env, x)
  IN  IF v.d.where = "Fun" THEN Closure(v.env, v.d.fn)
      ELSE Code(v.env, FALSE, <<[op |-> "LD", d |-> v.d]>>)

CompileRef(env, x) ==
  LET v == lookup(env, x)
  IN  Code(v.env, FALSE, <<[op |-> "LDA", d |-> v.d]>>)

CompileAssign(env, e) ==
  IF e.es[1].node = "Ref"
  THEN LET v == lookup(Labels(env, 1), e.es[1].x)
       IN  add_code(compile_expr(FALSE, env.label, v.env, e.es[2]), env.label,
                    FALSE, <<[op |-> "ST", d |-> v.d]>>)
  ELSE Operation(env, e.es, <<Ins("STA")>>)

(* A function that is called by its name needs no closure if it captures   *)
(* nothing; fix_closures will know.                                        *)
CompileCall(tail, env, e) ==
  LET f == e.es[1]
      n == Len(e.es) - 1
      v == lookup(env, f.x)
      known == register_call(v.env, v.d.fn)
      c == Operation(known, Tail(e.es), <<[op |-> "PCALLC", n |-> n, tail |-> tail]>>)
      looked == IF f.node = "Var" THEN v.env ELSE env
  IN  IF f.node = "Var" /\ v.d.where = "Fun"
      THEN [c EXCEPT !.code =
              <<[op |-> "PPROTO", fn |-> v.d.fn, c |-> current_function(env)]>> \o @]
      ELSE Operation(looked, e.es, <<[op |-> "CALLC", n |-> n, tail |-> tail]>>)

CompileLambda(env, e) ==
  Closure(add_lambda(env, e.args, e.body), lambda_name(env))

Declare(d, env) ==
  IF d.what = "fun" THEN add_fun_name(env, d.x) ELSE add_name(env, d.x)

(* An expression compiled behind the code c; leaving its scope.            *)
Before(c, tail, l, e) ==
  LET s == compile_expr(tail, l, c.env, e)
  IN  Code(s.env, s.flag, c.code \o s.code)

Leave(c) == Code(pop_scope(c.env), c.flag, c.code)

Initialise(d, body) ==
  IF d.what = "fun" \/ d.init = <<>> THEN body
  ELSE [node |-> "Seq",
        es |-> <<[node |-> "Ignore",
                  es |-> <<[node |-> "Assign",
                            es |-> <<[node |-> "Ref", x |-> d.x],
                                     d.init[1]>>]>>], body>>]

CompileScope(tail, l, env, e) ==
  LET named == FoldRight(Declare, e.ds, push_scope(env))
      defined == FoldLeft(LAMBDA v, d : IF d.what = "fun"
                                        THEN add_fun(v, d.x, d.args, d.body) ELSE v,
                          named, e.ds)
  IN  Leave(compile_expr(tail, l, defined, FoldRight(Initialise, e.ds, e.body)))

CompileIf(tail, l, env, e) ==
  LET le == env.label
      l2 == env.label + 1
      c  == compile_expr(FALSE, le, Labels(env, 2), e.es[1])
      s1 == compile_expr(tail, l, c.env, e.then)
      s2 == compile_expr(tail, l, s1.env, e.else)
  IN  Code(s2.env, TRUE,
           add_code(c, le, FALSE, <<CJMP("z", l2)>>).code
             \o s1.code \o When(~s1.flag, <<JMP(l)>>)
             \o <<LABEL(l2)>> \o s2.code \o When(~s2.flag, <<JMP(l)>>))

\* Mutant: a loop goes back to its condition, past its body.
CompileWhileSkipping(env, e) ==
  LET lexp == env.label
      loop == env.label + 1
      cond == env.label + 2
      c == compile_expr(FALSE, lexp, Labels(env, 3), e.es[1])
      s == compile_expr(FALSE, cond, c.env, e.body)
  IN  Code(s.env, FALSE,
           <<JMP(cond), FLABEL(loop)>> \o s.code \o <<LABEL(cond)>>
             \o add_code(c, lexp, FALSE, <<CJMP("nz", cond)>>).code)

CompileWhile(env, e) ==
  LET lexp == env.label
      loop == env.label + 1
      cond == env.label + 2
      c == compile_expr(FALSE, lexp, Labels(env, 3), e.es[1])
      s == compile_expr(FALSE, cond, c.env, e.body)
  IN  Code(s.env, FALSE,
           <<JMP(cond), FLABEL(loop)>> \o s.code \o <<LABEL(cond)>>
             \o add_code(c, lexp, FALSE, <<CJMP("nz", loop)>>).code)

CompileDoWhile(env, e) ==
  LET lexp == env.label
      loop == env.label + 1
      check == env.label + 2
      c == compile_expr(FALSE, lexp, Labels(env, 3), e.es[1])
      s == compile_expr(FALSE, check, c.env, e.body)
  IN  Code(s.env, FALSE,
           <<LABEL(loop)>> \o add_code(s, check, FALSE, <<>>).code
             \o add_code(c, lexp, FALSE, <<CJMP("nz", loop)>>).code)

(* The branches of a case expression.  Each ends with a jump to l; the     *)
(* label of a branch is where the one before it goes when it does not      *)
(* match.  Nothing is compiled behind a branch that always matches.        *)
CompileBranch(tail, l, lfail, last, acc, b) ==
  LET lfalse == IF last THEN lfail ELSE acc.env.label
      p == pattern(IF last THEN acc.env ELSE Labels(acc.env, 1), lfalse, b.p)
      s == Leave(Before(bindings(push_scope(p.env), b.p), tail, l, b.s))
  IN  [env |-> s.env, label |-> lfalse, continue |-> p.flag,
       code |-> acc.code
                  \o When(acc.label # 0, <<LABEL(acc.label), Ins("DUP")>>)
                  \o p.code \o s.code \o When(~last, <<JMP(l)>>)]

Cased(c, all, l, lfail, value) ==
  Code(all.env, TRUE,
       c.code \o all.code \o <<JMP(l)>>
         \o When(all.continue, <<LABEL(lfail), [op |-> "FAIL", value |-> value], JMP(l)>>))

CompileCase(tail, l, env, e) ==
  LET lfail == env.label
      lexp == env.label + 1
      c == compile_expr(FALSE, lexp, Labels(env, 2), e.es[1])
      Next(acc, i) ==
        IF acc.continue
        THEN CompileBranch(tail, l, lfail, i = Len(e.brs), acc, e.brs[i])
        ELSE acc
  IN  Cased(add_code(c, lexp, FALSE, <<Ins("DUP")>>),
            FoldLeft(Next,
                     [env |-> c.env, label |-> 0, continue |-> TRUE, code |-> <<>>],
                     [i \in DOMAIN e.brs |-> i]),
            l, lfail, e.value)

compile_expr(tail, l, env, e) ==
  CASE e.node = "Const"   -> Code(env, FALSE, <<CONST(e.n)>>)
    [] e.node = "String"  -> Code(env, FALSE, <<STRINGOF(e.s)>>)
    [] e.node = "Var"     -> CompileVar(env, e.x)
    [] e.node = "Ref"     -> CompileRef(env, e.x)
    [] e.node = "Skip"    -> Code(env, FALSE, <<>>)
    [] e.node \in {"Seq", "ElemRef"} -> compile_list(tail, l, env, e.es)
    [] e.node = "Ignore"  ->
         add_code(compile_list(tail, env.label, Labels(env, 1), e.es), env.label, FALSE,
                  <<Ins("DROP")>>)
    [] e.node = "Binop"   -> Operation(env, e.es, <<[op |-> "BINOP", f |-> e.op]>>)
    [] e.node = "Array"   ->
         Operation(env, e.es, <<[op |-> ".array", n |-> Len(e.es), tail |-> tail]>>)
    [] e.node = "Sexp"    ->
         Operation(env, e.es, <<[op |-> "SEXP", t |-> e.t, n |-> Len(e.es)]>>)
    [] e.node = "Elem"    -> Operation(env, e.es, <<Ins("ELEM")>>)
    [] e.node = "Call"    -> CompileCall(tail, env, e)
    [] e.node = "Lambda"  -> CompileLambda(env, e)
    [] e.node = "Assign"  -> CompileAssign(env, e)
    [] e.node = "If"      -> CompileIf(tail, l, env, e)
    [] e.node = "While"   -> CompileWhile(env, e)
    [] e.node = "DoWhile" -> CompileDoWhile(env, e)
    [] e.node = "Case"    -> CompileCase(tail, l, env, e)
    [] e.node = "Scope"   -> CompileScope(tail, l, env, e)

-----------------------------------------------------------------------------
(* Functions, each with the functions it contains.                         *)
RECURSIVE compile_fundefs(_)

BEGIN(fn, env, closure) ==
  [op |-> "BEGIN", fn |-> fn, n |-> env.scope.arg_index,
   locals |-> env.scope.nlocals, closure |-> closure]

FunctionLabel(fn) == [op |-> "LABEL", fn |-> fn]

CompileBody(env, body) ==
  LET c == compile_expr(TRUE, env.label, Labels(env, 1), body)
  IN  Code(c.env, FALSE, c.code \o <<LABEL(env.label), Ins("END")>>)

FunctionOf(env, fn, code) ==
  Code(close_fun_scope(env), FALSE,
       <<FunctionLabel(fn), BEGIN(fn, env, Reverse(env.scope.closure))>> \o code)

WithInner(c, fn) ==
  LET inner == compile_fundefs(c.env)
  IN  FunctionOf(register_closure(inner.env, fn), fn, c.code \o inner.code)

compile_fundef(env, fd) ==
  WithInner(CompileBody(FoldLeft(add_arg, open_fun_scope(env, fd), fd.args), fd.body),
            fd.name)

WithOthers(c) ==
  LET others == compile_fundefs(c.env)
  IN  Code(others.env, FALSE, c.code \o others.code)

compile_fundefs(env) ==
  IF ~HasDefinition(env) THEN Code(env, FALSE, <<>>)
  ELSE WithOthers(compile_fundef(picked(env), next_definition(env)))

-----------------------------------------------------------------------------
(* The closures, now that propagate_closures has found what they hold.     *)

CLOSURE(fn, ds) == [op |-> "CLOSURE", fn |-> fn, ds |-> ds]

(* A call of a built-in function is an instruction of its own.             *)
CALL(fn, n, tail) ==
  IF fn \in {Imported[x].fn : x \in DOMAIN Imported}
  THEN [op |-> fn.name, n |-> n, tail |-> tail]
  ELSE [op |-> "CALL", fn |-> fn, n |-> n, tail |-> tail]

(* The call at position p is that of the last PPROTO before it that is not *)
(* the one of a call in between.                                           *)
Proto(code, p) ==
  LET Count(q, o) == Cardinality({m \in q .. p : code[m].op = o})
      Starts == {q \in 1 .. p : /\ code[q].op = "PPROTO"
                               /\ Count(q, "PPROTO") = Count(q, "PCALLC")}
  IN  code[Max(Starts)]

Direct(info, proto) == get_closure(info, <<proto.fn, proto.c>>) = <<>>

Fix(info, code, p) ==
  LET i == code[p]
  IN  CASE i.op = "BEGIN" -> [i EXCEPT !.closure = get_fun_closure(info, i.fn, @)]
        [] i.op = "PROTO" \/ (i.op = "PPROTO" /\ ~Direct(info, i)) ->
             CLOSURE(i.fn, get_closure(info, <<i.fn, i.c>>))
        [] i.op = "PCALLC" ->
             IF Direct(info, Proto(code, p))
             THEN CALL(Proto(code, p).fn, i.n, i.tail)
             ELSE [op |-> "CALLC", n |-> i.n, tail |-> i.tail]
        [] OTHER -> i

fix_closures(info, code) ==
  SelectSeq([p \in DOMAIN code |-> Fix(info, code, p)],
            LAMBDA i : i.op # "PPROTO")

-----------------------------------------------------------------------------
(* Programs.                                                               *)

MainCode(c) ==
  Code(c.env, FALSE,
       <<FunctionLabel(Main), [BEGIN(Main, c.env, <<>>) EXCEPT !.n = 2]>>
         \o add_code(c, NoEnv.label, FALSE, <<Ins("END")>>).code)

WithClosures(c) == fix_closures(propagate_closures(c.env.funinfo), c.code)

compile(e) ==
  WithClosures(WithOthers(MainCode(
    compile_expr(FALSE, NoEnv.label, Labels(NoEnv, 1), e))))

(* Positions count from 1; a label stands for the position it is at.       *)
Linked(code) ==
  LET Position(labels) == CHOOSE p \in DOMAIN code : code[p] \in labels
  IN  [p \in DOMAIN code |->
         LET i == code[p]
         IN  {CASE i.op \in {"JMP", "CJMP"} ->
                     [i EXCEPT !.l = Position({LABEL(i.l), FLABEL(i.l)})]
                [] i.op \in {"CALL", "CLOSURE"} ->
                     [i EXCEPT !.fn = Position({FunctionLabel(i.fn)})]
                [] OTHER -> i}]
=============================================================================

------------------------------- MODULE ExprEval -------------------------------
(***************************************************************************)
(* The evaluator of expressions of src/src/Language.ml, in continuation    *)
(* passing style, which defines what a Lama program means.  A step is a    *)
(* call of eval with a configuration (scopes, operand stack, output), an   *)
(* expression and the expression to go on with.                            *)
(*                                                                         *)
(* An expression is a record of its node, its operands es, which are       *)
(* evaluated in this order, and what else the node carries.  Where eval    *)
(* raises an exception no step is enabled, except when no branch of a case *)
(* expression matches.                                                     *)
(*                                                                         *)
(* A closure holds the scopes of the moment it was made.  A call evaluates *)
(* the body in these scopes, except that globals are shared, and leaves    *)
(* what became of the scopes in the closure.                               *)
(***************************************************************************)
EXTENDS LamaValues, FiniteSets, SequencesExt

VARIABLES
  st,        (* scopes, the innermost last                                 *)
  vs,        (* values computed, the latest last                           *)
  expr, k,   (* what is evaluated, and what comes next                     *)
  callers,   (* the calls of eval that wait for a body, the latest last    *)
  store, out, outcome

vars == <<st, vs, expr, k, callers, store, out, outcome>>

Skip == [node |-> "Skip"]
Leave == [node |-> "Leave"]

Sequel(s1, s2) == [node |-> "Seq", es |-> <<s1, s2>>]

\* seq and schedule_list
Then(x, y) == IF y = Skip THEN x ELSE Sequel(x, y)
ScheduleList(es) == FoldLeft(Then, Head(es), Tail(es))

(* The Intrinsic or Control that completes node e.                         *)
Finish(e) == [node |-> "Finish", of |-> e]

Start(e) ==
  /\ st = <<>> /\ vs = <<>> /\ store = <<>> /\ out = <<>> /\ callers = <<>>
  /\ expr = e /\ k = Skip
  /\ outcome = "running"

-----------------------------------------------------------------------------
(* Scopes: the values of names, and the names that may be assigned.        *)

Scope(names, mut, f) ==
  [mut |-> mut, val |-> [x \in names |->
                           IF x \in DOMAIN f THEN f[x] ELSE Undefined]]

(* push: the scope of the globals has the built-in functions as well.      *)
Builtins == [x \in {"write", "length"} |-> [kind |-> "builtin", f |-> x]]

Pushed(s) ==
  Append(st, IF st = <<>> THEN [s EXCEPT !.val = Builtins @@ @] ELSE s)

Visible(x) == {n \in DOMAIN st : x \in DOMAIN st[n].val}
Nearest(x) == CHOOSE n \in Visible(x) : \A m \in Visible(x) : m <= n

CanRead(x) == Visible(x) # {} /\ st[Nearest(x)].val[x] # Undefined
CanUpdate(x) == Visible(x) # {} /\ x \in st[Nearest(x)].mut

(* leave: the scopes s, with the globals of g.                             *)
Globals(g, s) == [s EXCEPT ![1] = g[1]]

(* A function, by the number of scopes it is to see; a closure has them.   *)
FunRef(d, level) ==
  [kind |-> "funref", args |-> d.args, body |-> d.body, level |-> level]

Closure(f, scopes) ==
  [args |-> f.args, body |-> f.body, scopes |-> scopes]
    @@ Object("closure", "", <<>>)

-----------------------------------------------------------------------------
(* match_patt.  A match is a function of names to values; the operators    *)
(* yield the set of the match, or the empty set.                           *)

Shape == [StringTag |-> {"string"}, ArrayTag |-> {"array"},
          SexpTag |-> {"sexp"}, ClosureTag |-> {"closure"},
          Boxed |-> {"string", "array", "sexp"}]

RECURSIVE MatchPatt(_, _), MatchList(_, _)

(* Whether p itself, sub-patterns aside, matches v.                        *)
Fits(p, v) ==
  CASE p.node \in {"Wildcard", "Named"} -> TRUE
    [] p.node = "Const"   -> v = Num(p.n)
    [] p.node = "UnBoxed" -> IsNum(v)
    [] p.node = "String"  -> HasKind(store, v, "string")
                             /\ Fields(store, v) = StringObject(p.s).fields
    [] p.node = "Sexp"    -> /\ HasKind(store, v, "sexp")
                             /\ store[v.a].tag = p.t
                             /\ HasArity(store, v, Len(p.ps))
    [] p.node = "Array"   -> /\ HasKind(store, v, "array")
                             /\ HasArity(store, v, Len(p.ps))
    [] OTHER -> IsObj(v) /\ store[v.a].kind \in Shape[p.node]

Both(F, G) ==
  {[x \in DOMAIN f \cup DOMAIN g |-> IF x \in DOMAIN f THEN f[x] ELSE g[x]]
     : f \in F, g \in G}

MatchPatt(p, v) ==
  IF ~Fits(p, v) THEN {}
  ELSE CASE p.node = "Named" -> Both({[x \in {p.x} |-> v]}, MatchPatt(p.p, v))
         [] p.node \in {"Sexp", "Array"} -> MatchList(p.ps, Fields(store, v))
         [] OTHER -> {<<>>}

MatchList(ps, xs) ==
  IF ps = <<>> THEN {<<>>}
  ELSE Both(MatchPatt(Head(ps), Head(xs)), MatchList(Tail(ps), Tail(xs)))

-----------------------------------------------------------------------------
(* Steps.                                                                  *)

Continue == expr' = k /\ k' = Skip /\ UNCHANGED <<callers, outcome>>

Yield(n, v) ==
  /\ vs' = Append(SubSeq(vs, 1, Len(vs) - n), v)
  /\ Continue

Compute(n, v) == Yield(n, v) /\ UNCHANGED <<st, store, out>>

Allocate(n, o) ==
  /\ Yield(n, NewRef(store))
  /\ store' = Append(store, o)
  /\ UNCHANGED <<st, out>>

GoOn(s, rest) ==
  /\ expr' = s /\ k' = rest
  /\ UNCHANGED <<st, vs, callers, store, out, outcome>>

Leaf(e) ==
  \/ e.node = "Const" /\ Compute(0, Num(e.n))
  \/ e.node = "String" /\ Allocate(0, StringObject(e.s))
  \/ e.node = "Ref" /\ Compute(0, Var(e.x))
  \/ e.node = "Lambda" /\ Allocate(0, Closure(e, st))

\* The closure of a named function is made whenever the name is evaluated.
Variable(e) ==
  /\ e.node = "Var" /\ CanRead(e.x)
  /\ LET v == st[Nearest(e.x)].val[e.x]
     IN  IF v.kind = "funref"
         THEN Allocate(0, Closure(v, SubSeq(st, 1, v.level)))
         ELSE Compute(0, v)

Schedule(e) ==
  /\ e.node \in {"Array", "Sexp", "Binop", "Elem", "ElemRef", "Call",
                 "Assign", "Ignore", "If", "While", "Case"}
  /\ GoOn(ScheduleList(Append(e.es, Finish(e))), k)

Sequence(e) == e.node = "Seq" /\ GoOn(e.es[1], Then(e.es[2], k))

DoWhile(e) ==
  /\ e.node = "DoWhile"
  /\ GoOn(e.body, Then([node |-> "While", es |-> e.es, body |-> e.body], k))

EnterScope(e) ==
  LET Initialise(d, bd) ==
        IF d.what = "fun" \/ d.init = <<>> THEN bd
        ELSE Sequel([node |-> "Ignore",
                    es |-> <<[node |-> "Assign",
                              es |-> <<[node |-> "Ref", x |-> d.x],
                                       d.init[1]>>]>>], bd)
      Funs == {n \in DOMAIN e.ds : e.ds[n].what = "fun"}
      fun == [x \in {e.ds[n].x : n \in Funs} |->
                FunRef(e.ds[CHOOSE n \in Funs : e.ds[n].x = x], 1 + Len(st))]
      names == {e.ds[n].x : n \in DOMAIN e.ds}
  IN  /\ e.node = "Scope"
      /\ st' = Pushed(Scope(names, names \ DOMAIN fun, fun))
      /\ expr' = Sequel(FoldRight(Initialise, e.ds, e.body), Leave)
      /\ UNCHANGED <<vs, k, callers, store, out, outcome>>

LeaveScope(e) ==
  /\ e.node = "Leave"
  /\ st' = Front(st) /\ Continue /\ UNCHANGED <<vs, store, out>>

Skipped(e) ==
  /\ e.node = "Skip"
  /\ \/ k # Skip /\ GoOn(k, Skip)
     \/ /\ k = Skip /\ callers = <<>>
        /\ outcome' = "ended"
        /\ UNCHANGED <<st, vs, expr, k, callers, store, out>>

(* The body of a function is done.                                         *)
ReturnFrom(e) ==
  /\ e.node = "Skip" /\ k = Skip /\ callers # <<>>
  /\ LET caller == Last(callers)
     IN  /\ store' = [store EXCEPT ![caller.closure].scopes = st]
         /\ st' = Globals(st, caller.st)
         /\ vs' = Append(caller.vs, IF Len(vs) = 1 THEN vs[1] ELSE Empty)
         /\ expr' = caller.k /\ k' = Skip
  /\ callers' = Front(callers)
  /\ UNCHANGED <<out, outcome>>

Complete(e) == e.node = "Finish"

Top == vs[Len(vs)]
Second == vs[Len(vs) - 1]

CompleteArray(e) ==
  /\ Complete(e) /\ e.of.node = "Array"
  /\ LET n == Len(e.of.es)
     IN  Allocate(n, Object("array", "", SubSeq(vs, Len(vs) - n + 1, Len(vs))))

CompleteSexp(e) ==
  /\ Complete(e) /\ e.of.node = "Sexp"
  /\ LET n == Len(e.of.es)
     IN  Allocate(n, Object("sexp", e.of.t,
                            SubSeq(vs, Len(vs) - n + 1, Len(vs))))

CompleteBinop(e) ==
  /\ Complete(e) /\ e.of.node = "Binop"
  /\ IsNum(Second) /\ IsNum(Top) /\ HasResult(e.of.op, Top.n)
  /\ Compute(2, Num(Apply(e.of.op, Second.n, Top.n)))

CompleteElem(e) ==
  /\ Complete(e)
  /\ \/ /\ e.of.node = "Elem" /\ HasElem(store, Second, Top)
        /\ Compute(2, ElemOf(store, Second, Top))
     \/ /\ e.of.node = "ElemRef" /\ IsNum(Top)
        /\ Compute(2, [kind |-> "elem", v |-> Second, j |-> Top])

Call(f, args, rest) ==
  /\ HasKind(store, f, "closure")
  /\ LET c == store[f.a]
     IN  /\ Len(c.args) = Len(args)
         /\ st' = Append(Globals(st, c.scopes),
                         LET names == Range(c.args)
                         IN  Scope(names, names,
                                   [x \in names |->
                                      args[CHOOSE n \in DOMAIN args : c.args[n] = x]]))
         /\ expr' = c.body
  /\ callers' = Append(callers, [st |-> st, vs |-> rest, k |-> k, closure |-> f.a])
  /\ vs' = <<>> /\ k' = Skip
  /\ UNCHANGED <<store, out, outcome>>

CompleteCall(e) ==
  /\ Complete(e) /\ e.of.node = "Call"
  /\ LET n == Len(e.of.es)
         rest == SubSeq(vs, 1, Len(vs) - n)
         f == vs[Len(vs) - n + 1]
     IN  \/ Call(f, SubSeq(vs, Len(vs) - n + 2, Len(vs)), rest)
         \/ /\ f = Builtins["write"] /\ IsNum(Top)
            /\ out' = Append(out, Top.n)
            /\ Yield(2, Empty) /\ UNCHANGED <<st, store>>
         \/ /\ f = Builtins["length"]
            /\ IsObj(Top) /\ ~HasKind(store, Top, "closure")
            /\ Compute(2, Num(Len(Fields(store, Top))))

\* update
CompleteAssign(e) ==
  /\ Complete(e) /\ e.of.node = "Assign"
  /\ \/ /\ Second.kind = "var" /\ CanUpdate(Second.d)
        /\ st' = [st EXCEPT ![Nearest(Second.d)].val[Second.d] = Top]
        /\ UNCHANGED store
     \/ /\ Second.kind = "elem"
        /\ HasElem(store, Second.v, Second.j) /\ MayHold(store, Second.v, Top)
        /\ store' = WithElem(store, Second.v, Second.j, Top)
        /\ UNCHANGED st
  /\ Yield(2, Top) /\ UNCHANGED out

CompleteIgnore(e) ==
  /\ Complete(e) /\ e.of.node = "Ignore"
  /\ vs' = Front(vs) /\ Continue /\ UNCHANGED <<st, store, out>>

Branch(s) ==
  /\ vs' = Front(vs) /\ expr' = s
  /\ UNCHANGED <<st, k, callers, store, out, outcome>>

CompleteIf(e) ==
  /\ Complete(e) /\ e.of.node = "If" /\ IsNum(Top)
  /\ Branch(IF Top.n # 0 THEN e.of.then ELSE e.of.else)

CompleteWhile(e) ==
  /\ Complete(e) /\ e.of.node = "While" /\ IsNum(Top)
  /\ Branch(IF Top.n # 0 THEN Then(e.of.body, e.of) ELSE Skip)

(* The first branch whose pattern matches; its variables are not to be     *)
(* assigned.  The code runs what follows the case expression inside this   *)
(* step's call of eval, with the k it has kept; here k stays in place.     *)
Matching(e) == {n \in DOMAIN e.of.brs : MatchPatt(e.of.brs[n].p, Top) # {}}

CompleteCase(e) ==
  /\ Complete(e) /\ e.of.node = "Case"
  /\ \/ \E n \in Matching(e) : \E f \in MatchPatt(e.of.brs[n].p, Top) :
          /\ \A m \in Matching(e) : n <= m
          /\ st' = Append(st, Scope(DOMAIN f, {}, f))
          /\ vs' = Front(vs)
          /\ expr' = Sequel(e.of.brs[n].s, Leave)
          /\ UNCHANGED <<k, callers, store, out, outcome>>
     \/ /\ Matching(e) = {} /\ outcome' = "failed"
        /\ UNCHANGED <<st, vs, expr, k, callers, store, out>>

-----------------------------------------------------------------------------
Eval(e) ==
  \/ Leaf(e) \/ Variable(e) \/ Schedule(e) \/ Sequence(e) \/ DoWhile(e)
  \/ EnterScope(e) \/ LeaveScope(e) \/ Skipped(e) \/ ReturnFrom(e)
  \/ CompleteArray(e) \/ CompleteSexp(e) \/ CompleteBinop(e)
  \/ CompleteElem(e) \/ CompleteCall(e) \/ CompleteAssign(e)
  \/ CompleteIgnore(e) \/ CompleteIf(e) \/ CompleteWhile(e)
  \/ CompleteCase(e)

Next == outcome = "running" /\ Eval(expr)
=============================================================================

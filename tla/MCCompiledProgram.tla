--------------------------- MODULE MCCompiledProgram ---------------------------
(***************************************************************************)
(* Families of programs.  Matching matches values against one or two       *)
(* patterns; the value of a branch is its number and what the pattern      *)
(* bound.  Nesting nests statements in a program that declares x, y and a. *)
(* Functions, Chains and Nests are about local functions that call each    *)
(* other and capture variables; Deep and Closures keep operands waiting on *)
(* the stack; TailCalls shift their arguments.  AssigningNests and         *)
(* MCDivisions are the programs of the runs that expect a violation.       *)
(***************************************************************************)
EXTENDS CompiledProgram

Num0(n) == [node |-> "Const", n |-> n]
Str(s) == [node |-> "String", s |-> s]
VarOf(x) == [node |-> "Var", x |-> x]
RefOf(x) == [node |-> "Ref", x |-> x]
Sexp(t, es) == [node |-> "Sexp", t |-> t, es |-> es]
Array(es) == [node |-> "Array", es |-> es]
Binop(op, x, y) == [node |-> "Binop", op |-> op, es |-> <<x, y>>]
Elem(b, i) == [node |-> "Elem", es |-> <<b, i>>]
ElemRef(b, i) == [node |-> "ElemRef", es |-> <<b, i>>]
CallOf(f, e) == [node |-> "Call", es |-> <<VarOf(f), e>>]
Assign(d, e) == [node |-> "Assign", es |-> <<d, e>>]
Ignore(e) == [node |-> "Ignore", es |-> <<e>>]
Seq2(s1, s2) == [node |-> "Seq", es |-> <<s1, s2>>]
IfOf(c, s1, s2) == [node |-> "If", es |-> <<c>>, then |-> s1, else |-> s2]
While(c, s) == [node |-> "While", es |-> <<c>>, body |-> s]
DoWhile(s, c) == [node |-> "DoWhile", es |-> <<c>>, body |-> s]
CaseOf(e, brs) == [node |-> "Case", es |-> <<e>>, brs |-> brs, value |-> TRUE]
CaseDo(e, brs) == [CaseOf(e, brs) EXCEPT !.value = FALSE]
Def(x, e) == [what |-> "var", x |-> x, init |-> <<e>>]
Decl(x) == [what |-> "var", x |-> x, init |-> <<>>]
ScopeOf(ds, e) == [node |-> "Scope", ds |-> ds, body |-> e]

-----------------------------------------------------------------------------
Wild == [node |-> "Wildcard"]
Named(x, p) == [node |-> "Named", x |-> x, p |-> p]
Tag(t) == [node |-> t]
PSexp(t, ps) == [node |-> "Sexp", t |-> t, ps |-> ps]
PArray(ps) == [node |-> "Array", ps |-> ps]

Simple ==
  {Wild, Named("p", Wild), Num0(0), Str(<<1>>)}
    \cup {Tag(t) : t \in {"StringTag", "ArrayTag", "SexpTag", "UnBoxed", "Boxed",
                         "ClosureTag"}}

Nested ==
  {PSexp("A", <<>>), PArray(<<>>), PArray(<<PArray(<<Named("q", Wild)>>)>>)}
    \cup {PSexp("A", <<p>>) : p \in Simple}
    \cup {PArray(<<p, q>>) :
            p \in {Named("p", Wild), Num0(0), PSexp("A", <<Named("p", Wild)>>)},
            q \in {Named("q", Wild), Num0(1), Wild,
                   PSexp("A", <<Named("q", Num0(0))>>)}}
    \cup {Named("q", PSexp("A", <<p>>)) : p \in {Num0(0), Named("p", Num0(0))}}

Patterns == Simple \cup Nested

Values ==
  {Num0(0), Num0(1), Str(<<1>>), Str(<<1, 2>>), Sexp("A", <<>>),
   Sexp("A", <<Num0(0)>>), Sexp("A", <<Array(<<>>)>>), Sexp("B", <<Num0(0)>>),
   Array(<<>>), Array(<<Num0(0), Num0(1)>>), Array(<<Array(<<Num0(1)>>)>>),
   Array(<<Sexp("A", <<Num0(1)>>), Sexp("A", <<Num0(0)>>)>>)}

Bound(p) == {"p", "q"} \cap {bindings_of(<<>>, p)[n].x :
                               n \in DOMAIN bindings_of(<<>>, p)}

Body(n, p) ==
  Array(<<Num0(n)>> \o [i \in 1 .. Cardinality(Bound(p)) |->
                          VarOf(SetToSeq(Bound(p))[i])])

Matching ==
  {ScopeOf(<<>>, CaseOf(v, [n \in DOMAIN ps |-> [p |-> ps[n], s |-> Body(n, ps[n])]]))
     : v \in Values,
       ps \in {<<p, q>> : p \in Patterns,
                          q \in {Wild, PSexp("A", <<Named("p", Wild)>>)}}}

-----------------------------------------------------------------------------
X == VarOf("x")
Y == VarOf("y")
A == VarOf("a")

Decrement(v) == Ignore(Assign(RefOf(v), Binop("-", VarOf(v), Num0(1))))
Written(e) == Ignore(CallOf("write", e))

Destinations ==
  {RefOf("y"), ElemRef(A, Num0(0)),
   Seq2(Written(Y), RefOf("y")),
   IfOf(X, RefOf("y"), ElemRef(A, X)),
   CaseOf(X, <<[p |-> Num0(0), s |-> ElemRef(A, Num0(0))],
               [p |-> Named("p", Wild), s |-> RefOf("y")]>>)}

Expressions ==
  {X, Elem(A, Num0(0)), Binop("+", X, Y),
   ScopeOf(<<Def("x", Binop("+", Y, Num0(1))), Decl("z")>>,
           Seq2(Ignore(Assign(RefOf("z"), X)), VarOf("z"))),
   IfOf(Y, X, CallOf("length", A)),
   CaseOf(A, <<[p |-> PArray(<<Num0(0)>>), s |-> Num0(1)],
               [p |-> PArray(<<Named("p", Wild)>>), s |-> VarOf("p")]>>)}

Statements ==
  {Ignore(Assign(d, e)) : d \in Destinations, e \in Expressions}
    \cup {Written(e) : e \in Expressions}
    \cup {[node |-> "Skip"]}

Wrapped(s) ==
  {s, IfOf(X, s, [node |-> "Skip"]),
   While(X, Seq2(Decrement("x"), s)),
   DoWhile(s, ScopeOf(<<Def("y", X)>>, Seq2(Decrement("x"), Y))),
   ScopeOf(<<Decl("u"), Def("y", X)>>,
           Seq2(Ignore(Assign(RefOf("u"), Y)), Seq2(s, Written(VarOf("u"))))),
   CaseDo(X, <<[p |-> Num0(1), s |-> s],
               [p |-> Named("y", Wild), s |-> Written(Y)],
               [p |-> Wild, s |-> s]>>),
   CaseDo(X, <<[p |-> Num0(1), s |-> s], [p |-> Str(<<1>>), s |-> s]>>)}

Program(n, s) ==
  ScopeOf(<<Def("x", Num0(n)), Def("y", Num0(0)), Def("a", Array(<<Num0(1)>>))>>,
          Seq2(s, Array(<<X, Y, A>>)))

Nesting ==
  {Program(n, s) : n \in {0, 1}, s \in UNION {Wrapped(s) : s \in Statements}}

-----------------------------------------------------------------------------
(* Functions: q has a parameter a, a local v, and two functions p and c    *)
(* that capture them and may call each other, or nest.                     *)
Fn(x, args, body) == [what |-> "fun", x |-> x, args |-> args, body |-> body]
Lambda(args, body) == [node |-> "Lambda", args |-> args, body |-> body]
Call1(f, e) == [node |-> "Call", es |-> <<VarOf(f), e>>]
Apply0(f) == [node |-> "Call", es |-> <<f>>]
Add(e1, e2) == Binop("+", e1, e2)
Set(x, e) == Ignore(Assign(RefOf(x), e))

B == VarOf("b")
V == VarOf("v")
Down(f) == IfOf(B, Call1(f, Binop("-", B, Num0(1))), Add(V, VarOf("a")))

Inner(f) ==
  {Add(V, B), Down(f),
   Seq2(Set("v", Add(V, B)), Call1("k", V)),
   Apply0(Lambda(<<>>, Add(V, B))),
   ScopeOf(<<Def("w", B)>>, Add(VarOf("w"), Down(f))),
   CaseOf(B, <<[p |-> Num0(0), s |-> V], [p |-> Named("m", Wild), s |-> Add(VarOf("m"), VarOf("a"))]>>)}

Outer ==
  {Call1("p", VarOf("a")),
   Seq2(Set("v", Call1("p", V)), Add(V, Call1("c", Num0(1)))),
   ScopeOf(<<Def("h", VarOf("p"))>>,
           Seq2(Set("v", Num0(2)),
                Array(<<Call1("h", Num0(1)), Call1("h", Num0(1)), Call1("p", Num0(1)), V>>))),
   Lambda(<<"b">>, Seq2(Set("v", Add(V, Num0(1))), Call1("c", V)))}

Shown(e) == CaseOf(e, <<[p |-> Tag("ClosureTag"), s |-> [node |-> "Call", es |-> <<e, Num0(1)>>]],
                        [p |-> Named("r", Wild), s |-> VarOf("r")]>>)

Siblings(p, c, e) ==
  ScopeOf(<<Def("x", Num0(1)),
            Fn("k", <<"b">>, Seq2(Set("x", Add(X, B)), X)),
            Fn("q", <<"a">>,
               ScopeOf(<<Def("v", Num0(3)), Fn("p", <<"b">>, p), Fn("c", <<"b">>, c)>>, e))>>,
          Array(<<Shown(Call1("q", Num0(1))), X>>))

Functions == {Siblings(p, c, e) : p \in Inner("c"), c \in Inner("p"), e \in Outer}

(* Three functions, each with a variable of its own, that each call one of *)
(* them: what they capture depends on what the others do.                  *)
Chained(x, f) == Add(VarOf(x), IfOf(B, Call1(f, Binop("-", B, Num0(1))), Num0(0)))

Chains ==
  {ScopeOf(<<Fn("q", <<"a">>,
                ScopeOf(<<Def("v", Num0(10)), Def("w", Num0(100)),
                          Fn("p", <<"b">>, Chained("v", f)),
                          Fn("c", <<"b">>, Chained("a", g)),
                          Fn("d", <<"b">>, Chained("w", h))>>,
                        Call1(first, Num0(4))))>>,
           Call1("q", Num0(1))) : f, g, h, first \in {"p", "c", "d"}}

(* p contains c.  They share v: whether c sees what p makes of it depends  *)
(* on when c's closure gets its copy.                                      *)
Nest(p, c) ==
  ScopeOf(<<Fn("q", <<"a">>,
               ScopeOf(<<Def("v", Num0(3)),
                         Fn("p", <<"b">>, ScopeOf(<<Fn("c", <<"b">>, c)>>, p))>>,
                       Add(Call1("p", VarOf("a")), V)))>>,
          Call1("q", Num0(1)))

InnerMost == {Add(V, B), VarOf("a"), Seq2(Set("v", Add(V, B)), V)}

Nests ==
  {Nest(p, c) : c \in InnerMost,
                p \in {Add(Call1("c", B), ScopeOf(<<Def("w", V)>>, VarOf("w"))),
                       Seq2(Set("b", Call1("c", B)), Call1("c", B)),
                       Apply0(Lambda(<<>>, Call1("c", V))),
                       Apply0(Lambda(<<>>, Add(V, Apply0(Lambda(<<>>, VarOf("a"))))))}}

AssigningNests ==
  {Nest(Seq2(Set("v", Add(V, B)), Call1("c", V)), c) : c \in InnerMost}

-----------------------------------------------------------------------------
(* Deep expressions: with n operands waiting, those of the next operator   *)
(* are in registers, in slots of the frame, or in one of each.             *)
Under(n, e) == FoldRight(LAMBDA m, x : Add(Num0(m), x), [m \in 1 .. n |-> m], e)

Depths == {1, 2, 3, 4}
Operators == {"+", "-", "*", "%", "<", "<=", "==", "!=", ">=", ">", "&&", "!!"}
Pairs == {<<7, -2>>, <<-7, 2>>, <<3, 3>>, <<0, 5>>}

Operations ==
  {Binop(f, Num0(q[1]), Num0(q[2])) : f \in Operators \cup {"/"}, q \in Pairs}

Waiting ==
  Expressions \cup Operations
    \cup {Assign(d, Num0(5)) : d \in Destinations}
    \cup {Elem(Array(<<X, Y, X, Y, X>>), Y), Elem(Sexp("A", <<Y, X>>), X)}

Deep == {Program(1, Written(Under(n, e))) : n \in Depths, e \in Waiting}

(* The same in p, which has captured v and a and can call k and itself.    *)
Enclosed ==
  {Binop(f, B, V) : f \in Operators}
    \cup {Call1("k", V), IfOf(B, Call1("p", Num0(0)), V), Assign(RefOf("v"), B),
          Apply0(Lambda(<<>>, Add(V, B))),
          Elem(Array(<<V, B, VarOf("a"), V, B>>), Num0(3)),
          Assign(ElemRef(Array(<<V>>), Num0(0)), V),
          CaseOf(Sexp("A", <<V>>), <<[p |-> PSexp("A", <<Named("m", Wild)>>), s |-> VarOf("m")]>>)}

Closures ==
  {Siblings(Add(Under(n, e), V), B, Call1("p", Num0(2))) : n \in Depths, e \in Enclosed}

(* Tail calls that shift their arguments: f(a1, ..., an) goes on with      *)
(* f(a2, ..., an, a1 - 1) until a1 is zero.  f is global, local with or    *)
(* without captures, or a value.                                           *)
Parameters == <<"b", "a1", "a2", "a3", "a4">>
Args(n) == [m \in 1 .. n |-> VarOf(Parameters[m])]
Rotated(f, n) ==
  IfOf(B, [node |-> "Call", es |-> <<f>> \o Tail(Args(n)) \o <<Binop("-", B, Num0(1))>>],
       Array(Append(Args(n), CallOf("length", Array(Args(n))))))

Rotating(n, f, z) ==
  LET fn == Fn("f", SubSeq(Parameters, 1, n), Seq2(z, Rotated(f, n)))
      call == [node |-> "Call", es |-> <<VarOf("f")>> \o [m \in 1 .. n |-> Num0(m % 3)]]
      last == Fn("l", <<"b">>, CallOf("length", B))
  IN  {ScopeOf(<<Decl("h"), fn>>, Seq2(Set("h", VarOf("f")), call)),
       ScopeOf(<<last, Decl("h"), Fn("q", <<"v">>, ScopeOf(<<fn>>, Seq2(Set("h", VarOf("f")), call)))>>,
               Call1("l", Call1("q", Num0(4))))}

TailCalls ==
  UNION {Rotating(n, f, z) : n \in {1, 2, 5}, f \in {VarOf("f"), VarOf("h")},
                            z \in {[node |-> "Skip"], Ignore(VarOf("b")),
                                   Ignore(Lambda(<<>>, VarOf("b")))}}

-----------------------------------------------------------------------------
MCPrograms ==
  Matching \cup Nesting \cup Functions \cup Chains \cup Nests
    \cup Deep \cup Closures \cup TailCalls
MCNests == AssigningNests
MCDivisions == {Siblings(Add(Binop("/", B, Num0(2)), V), B, Call1("p", Num0(2)))}
==============================================================================

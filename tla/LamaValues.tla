----------------------------- MODULE LamaValues -----------------------------
(***************************************************************************)
(* The values of Lama programs as the stack machine of src/src/SM.ml and   *)
(* the bytecode interpreter of src/interpreter/interpreter.c handle them:  *)
(* numbers, and references to objects in a store.  OCaml shares strings,   *)
(* arrays and the arrays inside S-expressions and closures by reference,   *)
(* and so does the interpreter's heap; here both are a sequence of objects *)
(* that only grows.  What a collection does to the heap is the business of *)
(* MarkPhase, CompactPhase and Runtime.                                    *)
(*                                                                         *)
(* The tag of an S-expression is its constructor, that of a closure the    *)
(* label of its function; the fields of a string are the codes of its      *)
(* characters.                                                             *)
(***************************************************************************)
EXTENDS Integers, Sequences, FiniteSets

Num(n) == [kind |-> "int", n |-> n]           \* Value.Int
Obj(a) == [kind |-> "obj", a |-> a]           \* a boxed value
Var(d) == [kind |-> "var", d |-> d]           \* Value.Var: what LDA pushes
Empty == [kind |-> "empty"]                   \* Value.Empty
Undefined == [kind |-> "undefined"]           \* State.undefined

IsNum(v) == v.kind = "int"
IsObj(v) == v.kind = "obj"

(* Designations of variables: Global, Local, Arg and Access of Value.      *)
At(where, i) == [where |-> where, i |-> i]

-----------------------------------------------------------------------------
(* Objects in a store s.                                                   *)

Object(k, t, vs) == [kind |-> k, tag |-> t, fields |-> vs]
StringObject(chars) ==
  Object("string", "", [i \in DOMAIN chars |-> Num(chars[i])])

NewRef(s) == Obj(Len(s) + 1)                  \* of the object appended next

Fields(s, v) == s[v.a].fields
HasKind(s, v, k) == IsObj(v) /\ s[v.a].kind = k
HasArity(s, v, n) == Len(Fields(s, v)) = n

Char == 0 .. 255     \* what Char.chr takes, and a byte

(* Whether element j of v exists, and may be given the value z.            *)
HasElem(s, v, j) ==
  /\ IsObj(v) /\ s[v.a].kind \in {"string", "array", "sexp"}
  /\ IsNum(j) /\ j.n \in 0 .. Len(Fields(s, v)) - 1

MayHold(s, v, z) == HasKind(s, v, "string") => IsNum(z) /\ z.n \in Char

ElemOf(s, v, j) == Fields(s, v)[j.n + 1]
WithElem(s, v, j, z) == [s EXCEPT ![v.a].fields[j.n + 1] = z]

-----------------------------------------------------------------------------
(* Characters in C: a char is signed, and the character zero ends a string.*)

SignedChar(n) == IF n > 127 THEN n - 256 ELSE n

CString(t, zero) ==
  SubSeq(t, 1, Cardinality({k \in DOMAIN t : \A j \in 1 .. k : t[j] # zero}))

-----------------------------------------------------------------------------
(* The binary operators on numbers.  Division truncates in OCaml and in C. *)

Truth(b) == IF b THEN 1 ELSE 0

Abs(x) == IF x < 0 THEN -x ELSE x
Quotient(x, y) ==
  LET q == Abs(x) \div Abs(y) IN IF (x < 0) = (y < 0) THEN q ELSE -q

Apply(op, x, y) ==
  CASE op = "+" -> x + y  [] op = "-" -> x - y  [] op = "*" -> x * y
    [] op = "/" -> Quotient(x, y)  [] op = "%" -> x - y * Quotient(x, y)
    [] op = "<"  -> Truth(x < y)   [] op = "<=" -> Truth(x <= y)
    [] op = ">"  -> Truth(x > y)   [] op = ">=" -> Truth(x >= y)
    [] op = "==" -> Truth(x = y)   [] op = "!=" -> Truth(x # y)
    [] op = "&&" -> Truth(x # 0 /\ y # 0)
    [] op = "!!" -> Truth(x # 0 \/ y # 0)

HasResult(op, y) == op \in {"/", "%"} => y # 0
=============================================================================

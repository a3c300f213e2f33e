---------------------------- MODULE ObjectGraph ----------------------------
(***************************************************************************)
(* What the runtime of Lama promises a program, with neither addresses nor *)
(* a collector: variables that hold values, and objects that never move    *)
(* and never disappear while a variable leads to them.  An object the      *)
(* program cannot reach any more is not part of the state.                 *)
(*                                                                         *)
(* A value is <<"value", n>> for something unboxed or a raw word, and      *)
(* <<"object", name>> for an object.                                       *)
(***************************************************************************)
EXTENDS Integers, Sequences, Functions

CONSTANTS
  Var,           (* the program's variables, global_sysargs included       *)
  Assignable,    (* the ones a result can be stored in                     *)
  Name,          (* names of objects                                       *)
  Operands,      (* the tuples of variables a constructor may be given     *)
  Heads,         (* kinds with the raw words that precede the fields       *)
  Fresh,         (* kinds with the bodies of objects made of no operand    *)
  Nil            (* the unboxed value a variable is cleared with           *)

VARIABLES store, env

graph == <<store, env>>

ObjectOf(v) == v[2]
IsObject(v) == v[1] = "object"

(* The names a body refers to, and the ones the variables of e hold.  No   *)
(* raw word is an <<"object", name>>.                                      *)
Named(body) == {ObjectOf(body[i]) : i \in {j \in DOMAIN body : IsObject(body[j])}}

Held(e) == {ObjectOf(e[x]) : x \in {y \in Var : IsObject(e[y])}}

(* The part of the store s the variables of e lead to: the least one with  *)
(* what they hold and whatever an object of it refers to.                  *)
Reached(s, e) ==
  LET refers == [o \in DOMAIN s |-> Named(s[o].body)]
      holding == {Held(e) \cup S : S \in SUBSET (DOMAIN s \ Held(e))}
      closed == {S \in holding : \A o \in S : refers[o] \subseteq S}
  IN {o \in DOMAIN s : \A S \in closed : o \in S}

Kept(s, e) == Restrict(s, Reached(s, e))

Become(s, e) == env' = e /\ store' = Kept(s, e)

(* A new object of the kind k, in the variable x.                          *)
Make(x, k, body) ==
  \E o \in Name \ DOMAIN store :
    Become([n \in DOMAIN store \cup {o} |->
              IF n = o THEN [kind |-> k, body |-> body] ELSE store[n]],
           [env EXCEPT ![x] = <<"object", o>>])

Construct(x, head, ops) ==
  Make(x, head[1], head[2] \o [i \in 1 .. Len(ops) |-> env[ops[i]]])

Introduce(x, thing) == Make(x, thing[1], thing[2])

Clone(x, y) ==
  /\ IsObject(env[y])
  /\ LET o == store[ObjectOf(env[y])] IN Make(x, o.kind, o.body)

Concat(x, y, z) ==
  /\ IsObject(env[y]) /\ IsObject(env[z])
  /\ LET o == store[ObjectOf(env[y])]  p == store[ObjectOf(env[z])]
     IN o.kind = "STRING" /\ p.kind = "STRING" /\ Make(x, "STRING", o.body \o p.body)

Substring(x, y) ==
  /\ IsObject(env[y]) /\ store[ObjectOf(env[y])].kind = "STRING"
  /\ LET body == store[ObjectOf(env[y])].body
     IN \E i, j \in DOMAIN body : i <= j /\ Make(x, "STRING", SubSeq(body, i, j))

Load(x, y) ==
  /\ IsObject(env[y])
  /\ \E v \in Range(store[ObjectOf(env[y])].body) :
       Become(store, [env EXCEPT ![x] = v])

Assign(x, y) ==
  /\ IsObject(env[x])
  /\ \E i \in DOMAIN store[ObjectOf(env[x])].body :
       Become([store EXCEPT ![ObjectOf(env[x])].body[i] = env[y]], env)

Copy(x, y) == Become(store, [env EXCEPT ![x] = env[y]])

Clear(x) == Become(store, [env EXCEPT ![x] = Nil])

GraphNext ==
  \/ \E x \in Assignable :
       \/ \E head \in Heads, ops \in Operands : Construct(x, head, ops)
       \/ \E thing \in Fresh : Introduce(x, thing)
       \/ \E y \in Var : \/ Clone(x, y) \/ Substring(x, y)
                         \/ Load(x, y) \/ Copy(x, y)
       \/ \E y, z \in Var : Concat(x, y, z)
       \/ Clear(x)
  \/ \E x, y \in Var : Assign(x, y)

(* Which objects the program starts with is its caller's concern.          *)
GraphInit ==
  /\ DOMAIN env = Var
  /\ \A x \in Var : IsObject(env[x]) => ObjectOf(env[x]) \in DOMAIN store
  /\ store = Kept(store, env)

GraphSpec == GraphInit /\ [][GraphNext]_graph
=============================================================================

------------------------------ MODULE CompileEnv ------------------------------
(***************************************************************************)
(* class env of src/src/SM.ml: what the compiler knows while it goes       *)
(* through a program.  The scopes of the function being compiled and of    *)
(* the functions around it; the functions still to be compiled; and who    *)
(* calls whom and captures what.                                           *)
(*                                                                         *)
(* A function captures the values of variables, not the variables: its     *)
(* closure is a list of designations, each meaningful in the function      *)
(* around it.  A function that calls another one has to build the other's  *)
(* closure, so that it needs the other's captures among its own;           *)
(* propagate_closures adds them.                                           *)
(***************************************************************************)
EXTENDS LamaValues, SequencesExt

(* Labels of functions.  The name of a nested one is made unique by the    *)
(* number of a scope, that of a lambda by a number of its own.             *)
Label(name, scope, lambda) == [name |-> name, scope |-> scope, lambda |-> lambda]
Main == Label("main", 0, 0)

Fun(fn) == [where |-> "Fun", fn |-> fn]          \* Value.Fun

(* What a variable of a function further out is before it is looked up.    *)
Captured == At("Access", -1)
IsCaptured(d) == d.where = "Access" /\ d.i = Captured.i

-----------------------------------------------------------------------------
(* funscope: the scopes, outermost first, and what is numbered.  A scope   *)
(* says of its names what they designate.                                  *)
init_scope(st) ==
  [st |-> st, arg_index |-> 0, local_index |-> 0, acc_index |-> 0,
   nlocals |-> 0, closure |-> <<>>]

(* The functions under compilation, innermost last, each with its nested   *)
(* functions that are still to be compiled; the first entry is the program.*)
Item(fd, fds) == [fd |-> fd, fds |-> fds]

funinfo0 == [funtree |-> <<>>, closures |-> <<>>, functx |-> <<>>]

NoEnv ==
  [label |-> 1, scope_index |-> 0, lam_index |-> 0,
   scope |-> init_scope(<<>>), fundefs |-> <<Item(Main, <<>>)>>,
   funinfo |-> funinfo0]

Labels(env, n) == [env EXCEPT !.label = @ + n]          \* n times get_label

current_function(env) ==
  IF Len(env.fundefs) = 1 THEN Main ELSE Last(env.fundefs).fd.name

With(f, x, y) == (x :> y) @@ f
Added(f, x, y) == IF x \in DOMAIN f THEN f ELSE With(f, x, y)

register_call(env, f) ==
  [env EXCEPT !.funinfo.functx = With(@, <<f, current_function(env)>>, <<>>)]

register_fun(env, f) ==
  [env EXCEPT !.funinfo.funtree = With(@, f, current_function(env))]

register_closure(env, f) ==
  [env EXCEPT !.funinfo.closures = With(@, f, Reverse(env.scope.closure))]

-----------------------------------------------------------------------------
(* Scopes.  The first is that of the globals, with what is imported.       *)
Imported == [x \in {"write", "length"} |-> Fun(Label(x, 0, 0))]

push_scope(env) ==
  [env EXCEPT !.scope_index = @ + 1,
              !.scope.st = Append(@, IF @ = <<>> THEN Imported ELSE <<>>)]

Variables(scope) == {x \in DOMAIN scope : scope[x].where # "Fun"}

pop_scope(env) ==
  LET n == Len(env.scope.st)
  IN  [env EXCEPT
         !.scope.st = Front(@),
         !.scope.local_index =
            IF n = 1 THEN @ ELSE @ - Cardinality(Variables(env.scope.st[n]))]

Bind(env, x, d) ==
  [env EXCEPT !.scope.st[Len(env.scope.st)] = With(@, x, d)]

\* Mutant: a name does not take its local.
add_nameShared(env, x) ==
  IF Len(env.scope.st) = 1 THEN Bind(env, x, At("Global", x))
  ELSE LET i == env.scope.local_index
       IN  [Bind(env, x, At("Local", i))
              EXCEPT !.scope.nlocals = IF i + 1 > @ THEN i + 1 ELSE @]

add_name(env, x) ==
  IF Len(env.scope.st) = 1 THEN Bind(env, x, At("Global", x))
  ELSE LET i == env.scope.local_index
       IN  [Bind(env, x, At("Local", i))
              EXCEPT !.scope.local_index = i + 1,
                     !.scope.nlocals = IF i + 1 > @ THEN i + 1 ELSE @]

add_arg(env, x) ==
  [Bind(env, x, At("Arg", env.scope.arg_index))
     EXCEPT !.scope.arg_index = @ + 1]

fun_internal_name(env, x, lambda) ==
  Label(x, IF Len(env.scope.st) = 1 THEN 0 ELSE env.scope_index, lambda)

add_fun_name(env, x) == Bind(env, x, Fun(fun_internal_name(env, x, 0)))

(* A function to be compiled when the one it stands in has been.           *)
Definition(env, name, args, body) ==
  [register_fun(env, name) EXCEPT
     !.fundefs[Len(env.fundefs)].fds =
        <<[name |-> name, args |-> args, body |-> body,
           scope |-> init_scope(env.scope.st)]>> \o @]

add_fun(env, x, args, body) ==
  Definition(env, fun_internal_name(env, x, 0), args, body)

lambda_name(env) == fun_internal_name(env, "", env.lam_index + 1)

add_lambda(env, args, body) ==
  [Definition(env, lambda_name(env), args, body) EXCEPT !.lam_index = @ + 1]

-----------------------------------------------------------------------------
(* Lookup of a name: the nearest scope that has it.                        *)
Nearest(st, x) ==
  CHOOSE n \in DOMAIN st :
    /\ x \in DOMAIN st[n]
    /\ \A m \in n + 1 .. Len(st) : x \notin DOMAIN st[m]

Designation(scope, x) == scope.st[Nearest(scope.st, x)][x]

(* x becomes the next captured variable of the function with this scope;   *)
(* loc is what it designates in the function around it.                    *)
Capture(scope, x, loc) ==
  [scope EXCEPT !.st[Nearest(scope.st, x)][x] = At("Access", scope.acc_index),
                !.acc_index = @ + 1,
                !.closure = <<loc>> \o @]

(* The functions around the current one, with x captured by all of them    *)
(* down from the one that has it, and what it designates in the last.      *)
RECURSIVE propagate_acc(_, _)
propagate_acc(fundefs, x) ==
  LET p == Last(fundefs)
      d == Designation(p.fd.scope, x)
  IN  IF ~IsCaptured(d) THEN [fundefs |-> fundefs, d |-> d]
      ELSE LET up == propagate_acc(Front(fundefs), x)
               captured == Capture(p.fd.scope, x, up.d)
           IN  [fundefs |-> Append(up.fundefs, [p EXCEPT !.fd.scope = captured]),
                d |-> At("Access", p.fd.scope.acc_index)]

\* What name x designates, and the environment in which it does.
lookup(env, x) ==
  LET d == Designation(env.scope, x)
  IN  IF ~IsCaptured(d) THEN [env |-> env, d |-> d]
      ELSE LET up == propagate_acc(env.fundefs, x)
           IN  [env |-> [env EXCEPT !.fundefs = up.fundefs,
                                    !.scope = Capture(@, x, up.d)],
                d |-> At("Access", env.scope.acc_index)]

-----------------------------------------------------------------------------
(* Functions: entering and leaving one.                                    *)
readdress_to_closure(st) ==
  [n \in DOMAIN st |->
     IF n = 1 THEN st[n]
     ELSE [x \in DOMAIN st[n] |->
             IF st[n][x].where = "Fun" THEN st[n][x] ELSE Captured]]

(* The scope of the function around the new one is kept with that one; its *)
(* names are those where the new function was defined.                     *)
open_scope(env, fd) ==
  LET outer == [env.scope EXCEPT !.st = fd.scope.st]
      kept == IF Len(env.fundefs) = 1 THEN env.fundefs
              ELSE [env.fundefs EXCEPT ![Len(env.fundefs)].fd.scope = outer]
  IN  Append(kept, Item([fd EXCEPT !.scope = outer], <<>>))

open_fun_scope(env, fd) ==
  push_scope([env EXCEPT !.fundefs = open_scope(env, fd),
                         !.scope = init_scope(readdress_to_closure(fd.scope.st))])

close_fun_scope(env) ==
  LET fundefs == Front(env.fundefs)
  IN  pop_scope([env EXCEPT !.fundefs = fundefs,
                            !.scope = IF Len(fundefs) = 1 THEN @
                                      ELSE Last(fundefs).fd.scope])

HasDefinition(env) == Last(env.fundefs).fds # <<>>
next_definition(env) == Head(Last(env.fundefs).fds)
picked(env) == [env EXCEPT !.fundefs[Len(env.fundefs)].fds = Tail(@)]

-----------------------------------------------------------------------------
(* Propagation of closures.                                                *)

(* The functions below fp around c, and c, outermost first.                *)
RECURSIVE find_path(_, _, _)
find_path(info, fp, c) ==
  IF c = fp THEN <<>>
  ELSE Append(find_path(info, fp, info.funtree[c]), c)

IndexOf(s, x) == CHOOSE n \in DOMAIN s : /\ s[n] = x
                                         /\ \A m \in 1 .. n - 1 : s[m] # x

(* What loc, of the function around, is in function f; f captures it from  *)
(* now on if it did not when its other captures were determined.           *)
CaptureIn(fclosure, acc, loc) ==
  IF Contains(fclosure, loc)
  THEN [acc EXCEPT !.next = Append(@, At("Access", IndexOf(fclosure, loc) - 1))]
  ELSE [delta |-> Append(acc.delta, loc),
        next |-> Append(acc.next, At("Access", Len(acc.delta)))]

propagate_downwards(closures, closure, path) ==
  FoldLeft(LAMBDA acc, f :
             LET fclosure == acc.closures[f]
                 done == FoldLeft(LAMBDA a, loc : CaptureIn(fclosure, a, loc),
                                  [delta |-> fclosure, next |-> <<>>],
                                  acc.closure)
             IN  [closures |-> With(acc.closures, f, done.delta),
                  closure |-> done.next],
           [closures |-> closures, closure |-> closure], path)

(* Function c calls, or makes a value of, function f.  Nothing is known of *)
(* functions that are imported.                                            *)
propagate_for_call(info, call) ==
  LET f == call[1]
      done == propagate_downwards(info.closures, info.closures[f],
                                  find_path(info, info.funtree[f], call[2]))
  IN  IF f \notin DOMAIN info.funtree THEN info
      ELSE [info EXCEPT !.closures = done.closures, !.functx[call] = done.closure]

(* Until none of the calls changes a closure.                              *)
RECURSIVE propagate_calls(_, _, _), propagate_closures(_)
propagate_calls(info, old, calls) ==
  IF calls = {} \/ info.closures # old THEN info
  ELSE LET call == CHOOSE call \in calls : TRUE
       IN  propagate_calls(propagate_for_call(info, call), old, calls \ {call})

propagate_closures(info) ==
  LET next == propagate_calls(info, info.closures, DOMAIN info.functx)
  IN  IF next.closures = info.closures THEN next ELSE propagate_closures(next)

get_closure(info, call) == info.functx[call]
get_fun_closure(info, f, c) ==
  IF f \in DOMAIN info.closures THEN info.closures[f] ELSE c
===============================================================================

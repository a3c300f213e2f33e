------------------------- MODULE RuntimeGraphProofs -------------------------
(***************************************************************************)
(* Runtime implements ObjectGraph: whatever a program asks of the runtime, *)
(* and whenever the collector runs, it sees a graph of objects that stay   *)
(* put, each call doing to it what it is meant to.                         *)
(***************************************************************************)
EXTENDS RuntimeProofs

-----------------------------------------------------------------------------
(* What is reached, and the part of a store that is enough to tell.        *)
RefersWithin(s, S) == \A o \in S : graph!Named(s[o].body) \subseteq S

(* What is reached is there, holds what the variables hold, is closed, and *)
(* is the least such part.                                                 *)
LEMMA ReachedFacts ==
  ASSUME NEW s, NEW e, graph!Held(e) \subseteq DOMAIN s,
         RefersWithin(s, DOMAIN s)
  PROVE  /\ graph!Reached(s, e) \subseteq DOMAIN s
         /\ graph!Held(e) \subseteq graph!Reached(s, e)
         /\ RefersWithin(s, graph!Reached(s, e))
         /\ \A S \in SUBSET DOMAIN s :
              graph!Held(e) \subseteq S /\ RefersWithin(s, S) =>
                graph!Reached(s, e) \subseteq S
<1>1. PICK held : held = graph!Held(e)
  OBVIOUS
<1>2. PICK refers : refers = [o \in DOMAIN s |-> graph!Named(s[o].body)]
  OBVIOUS
<1>3. PICK closed :
        closed = {S \in {held \cup T : T \in SUBSET (DOMAIN s \ held)} :
                    \A o \in S : refers[o] \subseteq S}
  OBVIOUS
<1>4. graph!Reached(s, e) = {o \in DOMAIN s : \A S \in closed : o \in S}
  BY <1>1, <1>2, <1>3 DEF graph!Reached
<1>5. ASSUME NEW S \in SUBSET DOMAIN s
      PROVE  S \in closed <=> held \subseteq S /\ RefersWithin(s, S)
  <2>1. (\A o \in S : refers[o] \subseteq S) <=> RefersWithin(s, S)
    BY <1>2 DEF RefersWithin
  <2>2. held \subseteq S => S = held \cup (S \ held) /\ S \ held \in SUBSET (DOMAIN s \ held)
    OBVIOUS
  <2> QED
    BY <1>3, <2>1, <2>2
<1>6. \A S \in closed : S \subseteq DOMAIN s /\ held \subseteq S
  BY <1>1, <1>3
<1>7. ASSUME NEW o \in graph!Reached(s, e), NEW n \in graph!Named(s[o].body)
      PROVE  n \in graph!Reached(s, e)
  <2>1. o \in DOMAIN s /\ \A S \in closed : o \in S
    BY <1>4
  <2>2. \A S \in closed : n \in S
    BY <1>5, <1>6, <2>1 DEF RefersWithin
  <2>3. n \in DOMAIN s
    BY <2>1 DEF RefersWithin
  <2> QED
    BY <1>4, <2>2, <2>3
<1>8. graph!Held(e) \subseteq graph!Reached(s, e)
  BY <1>1, <1>4, <1>6
<1>9. RefersWithin(s, graph!Reached(s, e))
  BY <1>7 DEF RefersWithin
<1> QED
  BY <1>1, <1>4, <1>5, <1>8, <1>9

(* A closed part of a store with what the variables hold in it tells what  *)
(* they lead to.                                                           *)
LEMMA KeptOfPart ==
  ASSUME NEW s, NEW e, NEW L \in SUBSET DOMAIN s, graph!Held(e) \subseteq L,
         RefersWithin(s, L), RefersWithin(s, DOMAIN s),
         NEW t, t = [o \in L |-> s[o]]
  PROVE  graph!Kept(t, e) = graph!Kept(s, e)
<1>1. DOMAIN t = L /\ \A o \in L : t[o] = s[o]
  OBVIOUS
<1>2. \A S \in SUBSET L : RefersWithin(t, S) <=> RefersWithin(s, S)
  BY <1>1 DEF RefersWithin
<1>3. PICK R, Q : R = graph!Reached(s, e) /\ Q = graph!Reached(t, e)
  OBVIOUS
<1>4. /\ R \subseteq DOMAIN s /\ graph!Held(e) \subseteq R /\ RefersWithin(s, R)
      /\ \A S \in SUBSET DOMAIN s :
           graph!Held(e) \subseteq S /\ RefersWithin(s, S) => R \subseteq S
  BY <1>3, ReachedFacts
<1>5. RefersWithin(t, DOMAIN t)
  BY <1>1, <1>2
<1>6. /\ Q \subseteq L /\ graph!Held(e) \subseteq Q /\ RefersWithin(t, Q)
      /\ \A S \in SUBSET L :
           graph!Held(e) \subseteq S /\ RefersWithin(t, S) => Q \subseteq S
  BY <1>1, <1>3, <1>5, ReachedFacts
<1>7. R \subseteq L
  BY <1>4
<1>8. R \subseteq Q
  BY <1>2, <1>4, <1>6
<1>9. Q \subseteq R
  BY <1>2, <1>4, <1>6, <1>7
<1>10. R = Q /\ \A o \in R : t[o] = s[o]
  BY <1>1, <1>7, <1>8, <1>9
<1> QED
  BY <1>3, <1>10 DEF graph!Kept, graph!Restrict
-----------------------------------------------------------------------------
(* A memory the program can make sense of: every word it may read as a     *)
(* pointer is one, and no two objects have the same name.                  *)
Distinct(h) == \A a, b \in DOMAIN h : h[a].id = h[b].id => a = b

Meaningful(h, ws, lo, hi) ==
  /\ lo \in Nat \ {0} /\ hi \in Nat
  /\ \A a \in DOMAIN h : h[a] \in Object
  /\ ws \in [Slot -> Int]
  /\ \A s \in Slot : Sound(ws[s], h, lo, hi)
  /\ \A a \in DOMAIN h : \A i \in FirstField(h[a]) .. Len(h[a].body) :
       Sound(h[a].body[i], h, lo, hi)
  /\ Distinct(h)

(* An object's name and a raw word are never taken for each other.         *)
LEMMA Tagged ==
  /\ \A n : graph!IsObject(<<"object", n>>) /\ graph!ObjectOf(<<"object", n>>) = n
  /\ \A n : ~graph!IsObject(<<"value", n>>)
BY DEF graph!IsObject, graph!ObjectOf

(* A positive word shows as the object it points to, any other as itself.  *)
LEMMA ValueFacts ==
  ASSUME NEW h, NEW lo \in Nat \ {0}, NEW hi, NEW w \in Int, Sound(w, h, lo, hi)
  PROVE  /\ w <= 0 => Value(w, h, lo, hi) = <<"value", w>>
         /\ 0 < w => /\ ToData(w) \in DOMAIN h
                     /\ Value(w, h, lo, hi) = <<"object", h[ToData(w)].id>>
         /\ graph!IsObject(Value(w, h, lo, hi)) <=> 0 < w
<1>1. CASE w <= 0
  <2>1. ~InChunk(w, lo, hi) /\ ~(0 < w)
    BY <1>1 DEF InChunk, Unboxed
  <2>2. Value(w, h, lo, hi) = <<"value", w>>
    BY <2>1 DEF Value
  <2> QED
    BY <2>1, <2>2, Tagged
<1>2. CASE 0 < w
  <2>1. InChunk(w, lo, hi) /\ ToData(w) \in DOMAIN h /\ ~(w <= 0)
    BY <1>2 DEF Sound
  <2>2. Value(w, h, lo, hi) = <<"object", h[ToData(w)].id>>
    BY <2>1 DEF Value
  <2> QED
    BY <1>2, <2>1, <2>2, Tagged
<1> QED
  BY <1>1, <1>2

(* A word that is not positive points nowhere.                             *)
LEMMA NoPointer ==
  ASSUME NEW h, NEW lo \in Nat \ {0}, NEW hi, NEW w \in Int, w <= 0
  PROVE  Value(w, h, lo, hi) = <<"value", w>>
<1>1. ~InChunk(w, lo, hi)
  BY DEF InChunk, Unboxed
<1> QED
  BY <1>1 DEF Value

(* Each object shows under its name, with values for what its body holds.  *)
LEMMA ObjectsFacts ==
  ASSUME NEW h, NEW ws, NEW lo, NEW hi, Meaningful(h, ws, lo, hi)
  PROVE  /\ DOMAIN Objects(h, lo, hi) = Ids(h)
         /\ \A a \in DOMAIN h : /\ h[a].id \in Ids(h)
                                /\ Objects(h, lo, hi)[h[a].id] = Shows(h[a], h, lo, hi)
<1>1. ASSUME NEW a \in DOMAIN h
      PROVE  /\ h[a].id \in Ids(h)
             /\ (CHOOSE b \in DOMAIN h : h[b].id = h[a].id) = a
  BY DEF Meaningful, Distinct, Ids
<1> QED
  BY <1>1 DEF Objects

(* Nothing refers to what is not there.                                    *)
LEMMA WholeGraph ==
  ASSUME NEW h, NEW ws, NEW lo, NEW hi, Meaningful(h, ws, lo, hi)
  PROVE  /\ RefersWithin(Objects(h, lo, hi), Ids(h))
         /\ graph!Held(Variables(h, ws, lo, hi)) \subseteq Ids(h)
<1>1. /\ lo \in Nat \ {0}
      /\ \A s \in Slot : ws[s] \in Int /\ Sound(ws[s], h, lo, hi)
  BY DEF Meaningful
<1>2. ASSUME NEW w \in Int, Sound(w, h, lo, hi), graph!IsObject(Value(w, h, lo, hi))
      PROVE  graph!ObjectOf(Value(w, h, lo, hi)) \in Ids(h)
  <2>1. /\ ToData(w) \in DOMAIN h
        /\ Value(w, h, lo, hi) = <<"object", h[ToData(w)].id>>
    BY <1>1, <1>2, ValueFacts
  <2>2. h[ToData(w)].id \in Ids(h)
    BY <2>1 DEF Ids
  <2> QED
    BY <2>1, <2>2, Tagged
<1>3. ASSUME NEW n \in graph!Held(Variables(h, ws, lo, hi)) PROVE n \in Ids(h)
  <2>1. PICK x \in Var : /\ graph!IsObject(Value(ws[x], h, lo, hi))
                         /\ n = graph!ObjectOf(Value(ws[x], h, lo, hi))
    BY DEF graph!Held, Variables
  <2>2. x \in Slot
    BY Layout
  <2> QED
    BY <1>1, <1>2, <2>1, <2>2
<1>4. ASSUME NEW m \in Ids(h), NEW n \in graph!Named(Objects(h, lo, hi)[m].body)
      PROVE  n \in Ids(h)
  <2>1. PICK a \in DOMAIN h : m = h[a].id
    BY DEF Ids
  <2>2. PICK b : b = Shows(h[a], h, lo, hi).body
    OBVIOUS
  <2>3. Objects(h, lo, hi)[m].body = b
    BY <2>1, <2>2, ObjectsFacts
  <2>4. PICK i \in DOMAIN b : graph!IsObject(b[i]) /\ n = graph!ObjectOf(b[i])
    BY <2>3 DEF graph!Named
  <2>5. /\ Len(h[a].body) \in Nat /\ FirstField(h[a]) \in Int
        /\ \A j \in 1 .. Len(h[a].body) : h[a].body[j] \in Int
    BY DEF Meaningful, Object, FirstField
  <2>6. i \in 1 .. Len(h[a].body) /\ b[i] = Value(h[a].body[i], h, lo, hi)
        /\ ~(i < FirstField(h[a]))
    <3>1. PICK o : o = h[a]
      OBVIOUS
    <3>2. b = Shows(o, h, lo, hi).body /\ Len(o.body) \in Nat
      BY <2>2, <2>5, <3>1
    <3>3. /\ DOMAIN b = 1 .. Len(o.body)
          /\ \A j \in 1 .. Len(o.body) :
               /\ j < FirstField(o) => b[j] = <<"value", o.body[j]>>
               /\ ~(j < FirstField(o)) => b[j] = Value(o.body[j], h, lo, hi)
      BY <3>2 DEF Shows
    <3>4. ~(i < FirstField(o))
      BY <2>4, <3>3, Tagged
    <3> QED
      BY <2>4, <3>1, <3>3, <3>4
  <2>7. Sound(h[a].body[i], h, lo, hi)
    <3>1. i \in FirstField(h[a]) .. Len(h[a].body)
      BY <2>5, <2>6
    <3> QED
      BY <3>1 DEF Meaningful
  <2> QED
    BY <1>2, <2>4, <2>5, <2>6, <2>7
<1> QED
  BY <1>3, <1>4 DEF RefersWithin

(* What the program sees is part of the heap's objects, and refers to      *)
(* nothing outside it.                                                     *)
LEMMA SeesFacts ==
  ASSUME NEW h, NEW ws, NEW lo, NEW hi, Meaningful(h, ws, lo, hi),
         NEW g, g = Sees(h, ws, lo, hi)
  PROVE  /\ g.env = Variables(h, ws, lo, hi)
         /\ g.store = [n \in DOMAIN g.store |-> Objects(h, lo, hi)[n]]
         /\ DOMAIN g.store \subseteq Ids(h)
         /\ graph!Held(g.env) \subseteq DOMAIN g.store
         /\ RefersWithin(g.store, DOMAIN g.store)
<1>1. PICK s, e : s = Objects(h, lo, hi) /\ e = Variables(h, ws, lo, hi)
  OBVIOUS
<1>2. g = [store |-> graph!Kept(s, e), env |-> e]
  BY <1>1 DEF Sees
<1>3. PICK R : R = graph!Reached(s, e)
  OBVIOUS
<1>4. g.env = e /\ g.store = [n \in R |-> s[n]]
  BY <1>2, <1>3 DEF graph!Kept, graph!Restrict
<1>5. DOMAIN s = Ids(h)
  BY <1>1, ObjectsFacts
<1>6. RefersWithin(s, Ids(h)) /\ graph!Held(e) \subseteq Ids(h)
  BY <1>1, WholeGraph
<1>7. R \subseteq DOMAIN s /\ graph!Held(e) \subseteq R /\ RefersWithin(s, R)
  BY <1>3, <1>5, <1>6, ReachedFacts
<1>8. RefersWithin(g.store, R)
  BY <1>4, <1>7 DEF RefersWithin
<1> QED
  BY <1>1, <1>4, <1>5, <1>7, <1>8

(* What the program sees is determined by any part of the heap its         *)
(* variables do not lead out of.                                           *)
LEMMA Becoming ==
  ASSUME NEW h, NEW ws, NEW lo, NEW hi, Meaningful(h, ws, lo, hi),
         NEW L \in SUBSET Ids(h), NEW s, s = [n \in L |-> Objects(h, lo, hi)[n]],
         NEW e, e = Variables(h, ws, lo, hi),
         graph!Held(e) \subseteq L, RefersWithin(s, L)
  PROVE  Sees(h, ws, lo, hi) = [store |-> graph!Kept(s, e), env |-> e]
<1>1. PICK all : all = Objects(h, lo, hi)
  OBVIOUS
<1>2. DOMAIN all = Ids(h) /\ RefersWithin(all, Ids(h))
  BY <1>1, ObjectsFacts, WholeGraph
<1>3. RefersWithin(all, L)
  BY <1>1, <1>2 DEF RefersWithin
<1>4. graph!Kept(s, e) = graph!Kept(all, e)
  BY <1>1, <1>2, <1>3, KeptOfPart
<1> QED
  BY <1>1, <1>4 DEF Sees
-----------------------------------------------------------------------------
(* The call in progress, as the program means it: what it is made of is    *)
(* what variables of the program hold.                                     *)
Operand(c, h, ws, lo, hi, i) == Value(ws[c.args[i]], h, lo, hi)

MadeOf(c, body) ==
  Len(body) = Len(c.raw) /\ \A i \in 1 .. Len(c.raw) : body[i] = <<"value", c.raw[i]>>

HoldsString(y) == shown.store[graph!ObjectOf(shown.env[y])].kind = "STRING"

Built(c, h, ws, lo, hi) ==
  \E head \in Heads, ops \in Operands :
    /\ head[1] = c.kind /\ MadeOf(c, head[2])
    /\ Len(ops) = Len(c.args)
    /\ \A i \in 1 .. Len(ops) : Operand(c, h, ws, lo, hi, i) = shown.env[ops[i]]

Bare(c) ==
  Len(c.args) = 0 /\ \E thing \in Fresh : thing[1] = c.kind /\ MadeOf(c, thing[2])

Copied(c, h, ws, lo, hi) ==
  \E y \in Var : Operand(c, h, ws, lo, hi, 1) = shown.env[y]

Joined(c, h, ws, lo, hi) ==
  \E y, z \in Var : /\ Operand(c, h, ws, lo, hi, 1) = shown.env[y] /\ HoldsString(y)
                    /\ Operand(c, h, ws, lo, hi, 2) = shown.env[z] /\ HoldsString(z)

Cut(c, h, ws, lo, hi) ==
  /\ 0 < c.len
  /\ \E y \in Var : Operand(c, h, ws, lo, hi, 1) = shown.env[y] /\ HoldsString(y)

Meant(c, h, ws, lo, hi) ==
  /\ c.source = "words" => Built(c, h, ws, lo, hi) \/ Bare(c)
  /\ c.source = "copy" => Copied(c, h, ws, lo, hi)
  /\ c.source = "both" => Joined(c, h, ws, lo, hi)
  /\ c.source = "part" => Cut(c, h, ws, lo, hi)

(* The command line, of which set_args has made d - 1 strings.             *)
Filling(d, n) ==
  [i \in 0 .. d - 1 |->
     IF i = 0
     THEN [kind |-> "ARRAY",
           body |-> [j \in 1 .. n |-> IF j < d THEN <<"object", j>> ELSE <<"value", Nil>>]]
     ELSE [kind |-> "STRING", body |-> <<<<"value", Argument(i)[1]>>>>]]

ArgsMade(h, ws, lo, hi) ==
  /\ Meaningful(h, ws, lo, hi)
  /\ \A x \in Assignable : Value(ws[x], h, lo, hi) = <<"value", Nil>>
  /\ Objects(h, lo, hi) = Filling(call.done, todo.argc)
  /\ 0 < call.done => Value(ws[ArgArray], h, lo, hi) = <<"object", 0>>
  /\ call.raw = IF call.done = 0 THEN [i \in 1 .. todo.argc |-> Nil]
                ELSE Argument(call.done)

(* Names for n objects more.                                               *)
NamesLeft(h, n) == n <= MaxName /\ \A a \in DOMAIN h : h[a].id + n <= MaxName

Agreed(h, ws, lo, hi) == Meaningful(h, ws, lo, hi) /\ shown = Sees(h, ws, lo, hi)

CallAgreed(h, ws, lo, hi) ==
  IF call.fn = "set_args"
  THEN /\ shown = Started(todo.argc) /\ ArgsMade(h, ws, lo, hi)
       /\ todo.argc + todo.calls <= MaxName
  ELSE /\ Agreed(h, ws, lo, hi) /\ Meant(call, h, ws, lo, hi)
       /\ NamesLeft(h, todo.calls + 1)

(* No program makes more objects than there are names.                     *)
EnoughNames == \A p \in Programs : p.argc + p.calls <= MaxName

(* What the program was shown last is there, under the same names.         *)
GraphIInv ==
  /\ pc = "start" =>
       /\ shown = Started(todo.argc) /\ heap = <<>>
       /\ \A x \in Assignable : words[x] = Nil
       /\ todo.argc + todo.calls <= MaxName
  /\ pc = "mutator" =>
       Agreed(heap, words, hbegin, hcurrent) /\ NamesLeft(heap, todo.calls)
  /\ pc \in {"call", "compacted"} \cup MarkPC =>
       CallAgreed(heap, words, hbegin, hcurrent)
  /\ Collecting => CallAgreed(before.heap, before.words, before.lo, before.hi)
-----------------------------------------------------------------------------
(* The invariant of the runtime makes the memory meaningful whenever       *)
(* objects have names of their own.                                        *)
LEMMA ReadyIsMeaningful ==
  Ready /\ Distinct(heap) => Meaningful(heap, words, hbegin, hcurrent)
BY ReadyHeap DEF Ready, MemoryOK, Orderly, Meaningful

(* The same in the next state.                                             *)
LEMMA MeaningfulAfter ==
  Ready' /\ Distinct(heap)' => Meaningful(heap, words, hbegin, hcurrent)'
BY ReadyIsMeaningful, PTL
-----------------------------------------------------------------------------
(* A collection, seen from the program.                                    *)
LEMMA MeaningIsValue ==
  ASSUME NEW h, NEW lo \in Nat \ {0}, NEW hi, NEW w \in Int, Sound(w, h, lo, hi),
         NEW h2, NEW lo2 \in Nat \ {0}, NEW hi2, NEW w2 \in Int, Sound(w2, h2, lo2, hi2),
         Meaning(w2, h2, lo2, hi2) = Meaning(w, h, lo, hi)
  PROVE  Value(w2, h2, lo2, hi2) = Value(w, h, lo, hi)
<1>1. /\ w <= 0 => Meaning(w, h, lo, hi) = <<"word", w>>
      /\ 0 < w => Meaning(w, h, lo, hi) = <<"object", h[ToData(w)].id>>
  BY DEF Sound, Meaning, InChunk, Unboxed
<1>2. /\ w2 <= 0 => Meaning(w2, h2, lo2, hi2) = <<"word", w2>>
      /\ 0 < w2 => Meaning(w2, h2, lo2, hi2) = <<"object", h2[ToData(w2)].id>>
  BY DEF Sound, Meaning, InChunk, Unboxed
<1>3. /\ w <= 0 => Value(w, h, lo, hi) = <<"value", w>>
      /\ 0 < w => Value(w, h, lo, hi) = <<"object", h[ToData(w)].id>>
  BY ValueFacts
<1>4. /\ w2 <= 0 => Value(w2, h2, lo2, hi2) = <<"value", w2>>
      /\ 0 < w2 => Value(w2, h2, lo2, hi2) = <<"object", h2[ToData(w2)].id>>
  BY ValueFacts
<1>5. "word" # "object"
  OBVIOUS
<1>6. CASE w <= 0
  <2>1. w2 <= 0
    BY <1>1, <1>2, <1>5, <1>6
  <2>2. w2 = w
    BY <1>1, <1>2, <1>6, <2>1
  <2> QED
    BY <1>3, <1>4, <1>6, <2>2
<1>7. CASE 0 < w
  <2>1. 0 < w2
    BY <1>1, <1>2, <1>5, <1>7
  <2>2. h2[ToData(w2)].id = h[ToData(w)].id
    BY <1>1, <1>2, <1>7, <2>1
  <2> QED
    BY <1>3, <1>4, <1>7, <2>1, <2>2
<1> QED
  BY <1>6, <1>7

(* All the words hold what they held.                                      *)
LEMMA WordsSurvive ==
  ASSUME Compacted, Ready, NEW s \in Slot
  PROVE  Value(words[s], heap, hbegin, hcurrent)
           = Value(before.words[s], before.heap, before.lo, before.hi)
<1>1. /\ BeforeOK /\ CompactIInv /\ pc = "compacted"
      /\ Orderly(before.heap, before.words, before.lo, before.hi)
  BY AfterCompaction DEF Compacted
<1>2. /\ before.lo \in Nat \ {0} /\ hbegin \in Nat \ {0}
      /\ before.words[s] \in Int /\ words[s] \in Int
      /\ Sound(before.words[s], before.heap, before.lo, before.hi)
      /\ Sound(words[s], heap, hbegin, hcurrent)
      /\ 0 < before.words[s] => s \in Rooted
  BY <1>1 DEF BeforeOK, Orderly, Ready, MemoryOK
<1>3. /\ s \in Rooted => MeaningNow(words[s]) = MeaningBefore(before.words[s])
      /\ s \notin Rooted => words[s] = before.words[s]
  BY <1>1, RootsFollow DEF RootsPreserved
<1>4. CASE s \in Rooted
  <2>1. Meaning(words[s], heap, hbegin, hcurrent)
          = Meaning(before.words[s], before.heap, before.lo, before.hi)
    BY <1>3, <1>4 DEF MeaningNow, MeaningBefore
  <2> QED
    BY <1>2, <2>1, MeaningIsValue
<1>5. CASE s \notin Rooted
  <2>1. PICK w : w = words[s]
    OBVIOUS
  <2>2. w = before.words[s] /\ w \in Int /\ w <= 0
    BY <1>2, <1>3, <1>5, <2>1
  <2>3. /\ Sound(w, heap, hbegin, hcurrent)
        /\ Sound(w, before.heap, before.lo, before.hi)
    BY <1>2, <2>1, <2>2
  <2>4. Value(w, heap, hbegin, hcurrent) = <<"value", w>>
    BY <1>2, <2>2, <2>3, ValueFacts
  <2>5. Value(w, before.heap, before.lo, before.hi) = <<"value", w>>
    <3>1. PICK h, lo, hi : h = before.heap /\ lo = before.lo /\ hi = before.hi
      OBVIOUS
    <3>2. lo \in Nat \ {0} /\ Sound(w, h, lo, hi)
      BY <1>2, <2>3, <3>1
    <3>3. Value(w, h, lo, hi) = <<"value", w>>
      BY <2>2, <3>2, ValueFacts
    <3> QED
      BY <3>1, <3>3
  <2> QED
    BY <2>1, <2>2, <2>4, <2>5
<1> QED
  BY <1>4, <1>5

(* What is left of the heap is the part of it that survived.               *)
LEMMA ObjectsSurvive ==
  ASSUME Compacted, Ready, Meaningful(before.heap, before.words, before.lo, before.hi)
  PROVE  /\ Meaningful(heap, words, hbegin, hcurrent)
         /\ Ids(heap) \subseteq Ids(before.heap)
         /\ Objects(heap, hbegin, hcurrent)
              = [n \in Ids(heap) |-> Objects(before.heap, before.lo, before.hi)[n]]
<1>1. PICK place \in [Survivors -> DOMAIN heap] :
        /\ \A a \in Survivors : SameObject(heap[place[a]], before.heap[a])
        /\ \A a, b \in Survivors : a < b => place[a] < place[b]
        /\ \A c \in DOMAIN heap : \E a \in Survivors : place[a] = c
  BY GraphFollows DEF Compacted, GraphPreserved
<1>2. /\ \A a \in Survivors : a \in DOMAIN before.heap /\ before.heap[a] \in Object
      /\ before.lo \in Nat \ {0} /\ Distinct(before.heap)
  BY DEF Survivors, Meaningful
<1>3. /\ hbegin \in Nat \ {0} /\ hcurrent \in Nat
      /\ \A c \in DOMAIN heap : heap[c] \in Object
      /\ \A c \in DOMAIN heap : \A i \in FirstField(heap[c]) .. Len(heap[c].body) :
           Sound(heap[c].body[i], heap, hbegin, hcurrent)
  BY ReadyHeap DEF HeapOK
<1>4. ASSUME NEW c \in DOMAIN heap, NEW d \in DOMAIN heap, heap[c].id = heap[d].id
      PROVE  c = d
  <2>1. PICK a \in Survivors : place[a] = c
    BY <1>1
  <2>2. PICK b \in Survivors : place[b] = d
    BY <1>1
  <2>3. before.heap[a].id = before.heap[b].id
    BY <1>1, <1>4, <2>1, <2>2 DEF SameObject
  <2>4. a = b
    BY <1>2, <2>3 DEF Distinct
  <2> QED
    BY <2>1, <2>2, <2>4
<1>5. Distinct(heap)
  BY <1>4 DEF Distinct
<1>6. Meaningful(heap, words, hbegin, hcurrent)
  BY <1>5, ReadyIsMeaningful
<1>7. ASSUME NEW c \in DOMAIN heap
      PROVE  /\ heap[c].id \in Ids(before.heap)
             /\ Objects(before.heap, before.lo, before.hi)[heap[c].id]
                  = Shows(heap[c], heap, hbegin, hcurrent)
  <2>1. PICK a \in Survivors : place[a] = c
    BY <1>1
  <2>2. PICK o, b : o = heap[c] /\ b = before.heap[a]
    OBVIOUS
  <2>3. SameObject(o, b) /\ o \in Object /\ b \in Object
    BY <1>1, <1>2, <1>3, <2>1, <2>2
  <2>4. /\ o.id = b.id /\ o.kind = b.kind /\ Len(o.body) = Len(b.body)
        /\ FirstField(o) = FirstField(b) /\ FirstField(b) \in Nat
        /\ Len(b.body) \in Nat
        /\ \A i \in 1 .. Len(b.body) : o.body[i] \in Int /\ b.body[i] \in Int
    BY <2>3 DEF SameObject, FirstField, Object
  <2>5. ASSUME NEW i \in 1 .. Len(b.body), ~(i < FirstField(b))
        PROVE  Value(o.body[i], heap, hbegin, hcurrent)
                 = Value(b.body[i], before.heap, before.lo, before.hi)
    <3>1. i \in FirstField(b) .. Len(b.body)
      BY <2>4, <2>5
    <3>2. /\ Sound(b.body[i], before.heap, before.lo, before.hi)
          /\ Sound(o.body[i], heap, hbegin, hcurrent)
      BY <1>2, <1>3, <2>1, <2>2, <2>4, <3>1 DEF Meaningful
    <3>3. Meaning(o.body[i], heap, hbegin, hcurrent)
            = Meaning(b.body[i], before.heap, before.lo, before.hi)
      BY <2>3, <2>5 DEF SameObject, MeaningNow, MeaningBefore
    <3> QED
      BY <1>2, <1>3, <2>4, <3>2, <3>3, MeaningIsValue
  <2>6. ASSUME NEW i \in 1 .. Len(b.body), i < FirstField(b)
        PROVE  o.body[i] = b.body[i]
    BY <2>3, <2>6 DEF SameObject
  <2>7. Shows(o, heap, hbegin, hcurrent)
          = Shows(b, before.heap, before.lo, before.hi)
    BY <2>4, <2>5, <2>6 DEF Shows
  <2>8. /\ b.id \in Ids(before.heap)
        /\ Objects(before.heap, before.lo, before.hi)[b.id]
             = Shows(b, before.heap, before.lo, before.hi)
    BY <1>2, <2>1, <2>2, ObjectsFacts
  <2> QED
    BY <2>2, <2>4, <2>7, <2>8
<1>8. PICK now, was : /\ now = Objects(heap, hbegin, hcurrent)
                      /\ was = Objects(before.heap, before.lo, before.hi)
  OBVIOUS
<1>9. /\ DOMAIN now = Ids(heap)
      /\ \A c \in DOMAIN heap : now[heap[c].id] = Shows(heap[c], heap, hbegin, hcurrent)
  BY <1>6, <1>8, ObjectsFacts
<1>10. \A n \in Ids(heap) : n \in Ids(before.heap) /\ now[n] = was[n]
  BY <1>7, <1>8, <1>9 DEF Ids
<1>11. now = [n \in Ids(heap) |-> was[n]]
  <2>1. now = [n \in Ids(heap) |-> now[n]]
    BY <1>8, <1>9 DEF Objects
  <2> QED
    BY <1>10, <2>1
<1> QED
  BY <1>6, <1>8, <1>10, <1>11

(* So the program sees the same graph ...                                  *)
LEMMA GraphSurvives ==
  ASSUME Compacted, Ready, Meaningful(before.heap, before.words, before.lo, before.hi)
  PROVE  /\ Sees(heap, words, hbegin, hcurrent)
              = Sees(before.heap, before.words, before.lo, before.hi)
         /\ Meaningful(heap, words, hbegin, hcurrent)
<1>1. /\ Meaningful(heap, words, hbegin, hcurrent)
      /\ Ids(heap) \subseteq Ids(before.heap)
      /\ Objects(heap, hbegin, hcurrent)
           = [n \in Ids(heap) |-> Objects(before.heap, before.lo, before.hi)[n]]
  BY ObjectsSurvive
<1>2. PICK h, ws, lo, hi : /\ h = before.heap /\ ws = before.words
                           /\ lo = before.lo /\ hi = before.hi
  OBVIOUS
<1>3. PICK e : e = Variables(heap, words, hbegin, hcurrent)
  OBVIOUS
<1>4. e = Variables(h, ws, lo, hi)
  <2>1. \A x \in Var : Value(words[x], heap, hbegin, hcurrent) = Value(ws[x], h, lo, hi)
    BY <1>2, WordsSurvive, Layout
  <2> QED
    BY <1>3, <2>1 DEF Variables
<1>5. PICK s, L : s = Objects(heap, hbegin, hcurrent) /\ L = Ids(heap)
  OBVIOUS
<1>6. RefersWithin(s, L) /\ graph!Held(e) \subseteq L
  BY <1>1, <1>3, <1>5, WholeGraph
<1>7. /\ Meaningful(h, ws, lo, hi) /\ L \in SUBSET Ids(h)
      /\ s = [n \in L |-> Objects(h, lo, hi)[n]]
  BY <1>1, <1>2, <1>5
<1>8. Sees(h, ws, lo, hi) = [store |-> graph!Kept(s, e), env |-> e]
  BY <1>4, <1>6, <1>7, Becoming
<1>9. Sees(heap, words, hbegin, hcurrent) = [store |-> graph!Kept(s, e), env |-> e]
  BY <1>3, <1>5 DEF Sees
<1> QED
  BY <1>1, <1>2, <1>8, <1>9

(* ... the call is made of what it was made of ...                         *)
LEMMA MeantStill ==
  ASSUME NEW c \in Calls \cup ArgCalls, NEW h, NEW ws, NEW lo, NEW hi,
         NEW h2, NEW ws2, NEW lo2, NEW hi2, Supplied(c, h, ws),
         \A s \in Slot : Value(ws2[s], h2, lo2, hi2) = Value(ws[s], h, lo, hi),
         Meant(c, h, ws, lo, hi)
  PROVE  Meant(c, h2, ws2, lo2, hi2)
<1>1. c.args \in Seq(Slot)
  BY DEF Calls, ArgCalls
<1>2. \A i \in 1 .. Len(c.args) :
        Operand(c, h2, ws2, lo2, hi2, i) = Operand(c, h, ws, lo, hi, i)
  <2>1. \A i \in 1 .. Len(c.args) : c.args[i] \in Slot
    BY <1>1
  <2> QED
    BY <2>1 DEF Operand
<1>3. c.source = "words" => Built(c, h2, ws2, lo2, hi2) \/ Bare(c)
  BY <1>2 DEF Meant, Built
<1>4. c.source # "words" => 1 \in 1 .. Len(c.args)
  <2>1. c.source # "words" => Len(c.args) = 1 \/ Len(c.args) = 2
    BY DEF Supplied
  <2> QED
    BY <2>1
<1>5. c.source = "both" => 2 \in 1 .. Len(c.args)
  <2>1. PICK m : m = Len(c.args)
    OBVIOUS
  <2>2. c.source = "both" => m = 2
    BY <2>1 DEF Supplied
  <2>3. m = 2 => 2 \in 1 .. m
    OBVIOUS
  <2> QED
    BY <2>1, <2>2, <2>3, Zenon
<1>6. c.source = "copy" => Copied(c, h2, ws2, lo2, hi2)
  BY <1>2, <1>4 DEF Meant, Copied
<1>7. c.source = "both" => Joined(c, h2, ws2, lo2, hi2)
  BY <1>2, <1>4, <1>5 DEF Meant, Joined
<1>8. c.source = "part" => Cut(c, h2, ws2, lo2, hi2)
  BY <1>2, <1>4 DEF Meant, Cut
<1> QED
  BY <1>3, <1>6, <1>7, <1>8 DEF Meant

(* ... and nothing set_args has made is lost.                              *)
LEMMA FillingFacts ==
  ASSUME NEW d \in Nat, NEW n \in Nat, NEW f, f = Filling(d, n)
  PROVE  /\ DOMAIN f = 0 .. d - 1
         /\ 0 < d => /\ f[0].kind = "ARRAY"
                     /\ f[0].body = [j \in 1 .. n |-> IF j < d THEN <<"object", j>>
                                                      ELSE <<"value", Nil>>]
         /\ \A i \in 1 .. d - 1 :
              f[i] = [kind |-> "STRING", body |-> <<<<"value", Argument(i)[1]>>>>]
<1>1. DOMAIN f = 0 .. d - 1
  BY DEF Filling
<1>2. ASSUME 0 < d
      PROVE  /\ f[0].kind = "ARRAY"
             /\ f[0].body = [j \in 1 .. n |-> IF j < d THEN <<"object", j>>
                                              ELSE <<"value", Nil>>]
  <2>1. 0 \in 0 .. d - 1
    BY <1>2
  <2> QED
    BY <2>1 DEF Filling
<1>3. \A i \in 1 .. d - 1 :
        f[i] = [kind |-> "STRING", body |-> <<<<"value", Argument(i)[1]>>>>]
  BY DEF Filling
<1> QED
  BY <1>1, <1>2, <1>3

(* The array refers to the strings.                                        *)
LEMMA FillingHolds ==
  ASSUME NEW d \in Nat, NEW n \in Nat, d <= n + 1, NEW L \in SUBSET (0 .. d - 1),
         0 < d => 0 \in L, RefersWithin(Filling(d, n), L)
  PROVE  L = 0 .. d - 1
<1>1. ASSUME NEW j \in 1 .. d - 1 PROVE j \in L
  <2>1. PICK f, b : f = Filling(d, n) /\ b = f[0].body
    OBVIOUS
  <2>2. b = [i \in 1 .. n |-> IF i < d THEN <<"object", i>> ELSE <<"value", Nil>>]
    <3>1. 0 < d
      OBVIOUS
    <3> QED
      BY <2>1, <3>1, FillingFacts
  <2>3. j \in DOMAIN b /\ b[j] = <<"object", j>>
    BY <2>2
  <2>4. j \in graph!Named(b)
    BY <2>3, Tagged DEF graph!Named
  <2> QED
    BY <2>1, <2>4 DEF RefersWithin
<1>2. ASSUME NEW j \in 0 .. d - 1 PROVE j \in L
  <2>1. j = 0 \/ j \in 1 .. d - 1
    OBVIOUS
  <2>2. 0 < d
    OBVIOUS
  <2> QED
    BY <1>1, <2>1, <2>2
<1> QED
  BY <1>2

(* A collection leaves the strings set_args has made as they were.         *)
LEMMA ArgsSurvive ==
  ASSUME Compacted, Ready, call.fn = "set_args", todo.argc \in Nat,
         ArgsMade(before.heap, before.words, before.lo, before.hi)
  PROVE  ArgsMade(heap, words, hbegin, hcurrent)
<1>1. PICK d, n : d = call.done /\ n = todo.argc
  OBVIOUS
<1>2. d \in Nat /\ n \in Nat /\ d <= n
  BY <1>1 DEF Compacted, CallTyped
<1>3. /\ Meaningful(before.heap, before.words, before.lo, before.hi)
      /\ Objects(before.heap, before.lo, before.hi) = Filling(d, n)
  BY <1>1 DEF ArgsMade
<1>4. /\ Meaningful(heap, words, hbegin, hcurrent)
      /\ Ids(heap) \subseteq Ids(before.heap)
      /\ Objects(heap, hbegin, hcurrent)
           = [m \in Ids(heap) |-> Objects(before.heap, before.lo, before.hi)[m]]
  BY <1>3, ObjectsSurvive
<1>5. PICK L, f : L = Ids(heap) /\ f = Filling(d, n)
  OBVIOUS
<1>6. Ids(before.heap) = 0 .. d - 1 /\ DOMAIN f = 0 .. d - 1
  <2>1. DOMAIN f = Ids(before.heap)
    BY <1>3, <1>5, ObjectsFacts
  <2> QED
    BY <1>2, <1>5, <2>1, FillingFacts
<1>7. /\ \A x \in Assignable : Value(words[x], heap, hbegin, hcurrent) = <<"value", Nil>>
      /\ 0 < d => Value(words[ArgArray], heap, hbegin, hcurrent) = <<"object", 0>>
  <2>1. ArgArray \in Slot
    BY Layout DEF ArgArray, Inner, Slot
  <2> QED
    BY <1>1, <2>1, WordsSurvive, Layout DEF ArgsMade
<1>8. 0 < d => 0 \in L
  <2>1. ASSUME 0 < d PROVE 0 \in L
    <3>0. ArgArray \in Slot
      BY Layout DEF ArgArray, Inner, Slot
    <3>1. /\ words[ArgArray] \in Int /\ Sound(words[ArgArray], heap, hbegin, hcurrent)
          /\ hbegin \in Nat \ {0}
      BY <1>4, <3>0 DEF Meaningful
    <3>2. PICK w : w = words[ArgArray]
      OBVIOUS
    <3>3. Value(w, heap, hbegin, hcurrent) = <<"object", 0>>
      BY <1>7, <2>1, <3>2
    <3>4. 0 < w
      BY <3>1, <3>2, <3>3, ValueFacts, Tagged
    <3>5. /\ ToData(w) \in DOMAIN heap
          /\ <<"object", 0>> = <<"object", heap[ToData(w)].id>>
      <4>1. /\ ToData(w) \in DOMAIN heap
            /\ Value(w, heap, hbegin, hcurrent) = <<"object", heap[ToData(w)].id>>
        BY <3>1, <3>2, <3>4, ValueFacts
      <4> QED
        BY <3>3, <4>1
    <3> QED
      BY <1>5, <3>5 DEF Ids
  <2> QED
    BY <2>1
<1>9. RefersWithin(f, L)
  <2>1. RefersWithin(Objects(heap, hbegin, hcurrent), Ids(heap))
    BY <1>4, WholeGraph
  <2>2. \A m \in L : Objects(heap, hbegin, hcurrent)[m] = f[m]
    BY <1>3, <1>4, <1>5
  <2> QED
    BY <1>5, <2>1, <2>2 DEF RefersWithin
<1>10. L = 0 .. d - 1
  BY <1>2, <1>4, <1>5, <1>6, <1>8, <1>9, FillingHolds
<1>11. Objects(heap, hbegin, hcurrent) = f
  <2>1. f = [m \in 0 .. d - 1 |-> f[m]]
    BY <1>5 DEF Filling
  <2> QED
    BY <1>3, <1>4, <1>5, <1>10, <2>1
<1> QED
  BY <1>1, <1>4, <1>5, <1>7, <1>11 DEF ArgsMade

(* A collection leaves the operands of the call it interrupted with their  *)
(* meaning.                                                                *)
LEMMA CallSurvives ==
  ASSUME Compacted, Setting,
         CallAgreed(before.heap, before.words, before.lo, before.hi)
  PROVE  CallAgreed(heap, words, hbegin, hcurrent)
<1>1. Ready
  BY CompactionKeepsOrder DEF Compacted
<1>2. call \in Calls \cup ArgCalls /\ todo.argc \in Nat
  BY CallOfSomeKind DEF Compacted, Setting
<1>3. CASE call.fn = "set_args"
  <2>1. ArgsMade(heap, words, hbegin, hcurrent)
    BY <1>1, <1>2, <1>3, ArgsSurvive DEF CallAgreed
  <2> QED
    BY <1>3, <2>1 DEF CallAgreed
<1>4. CASE call.fn # "set_args"
  <2>1. /\ Agreed(before.heap, before.words, before.lo, before.hi)
        /\ Meant(call, before.heap, before.words, before.lo, before.hi)
        /\ NamesLeft(before.heap, todo.calls + 1)
    BY <1>4 DEF CallAgreed
  <2>2. Agreed(heap, words, hbegin, hcurrent)
    BY <1>1, <2>1, GraphSurvives DEF Agreed
  <2>3. Meant(call, heap, words, hbegin, hcurrent)
    <3>1. Supplied(call, before.heap, before.words)
      BY DEF Compacted
    <3>2. \A s \in Slot : Value(words[s], heap, hbegin, hcurrent)
                            = Value(before.words[s], before.heap, before.lo, before.hi)
      BY <1>1, WordsSurvive
    <3> QED
      BY <1>2, <2>1, <3>1, <3>2, MeantStill
  <2>4. NamesLeft(heap, todo.calls + 1)
    <3>1. Ids(heap) \subseteq Ids(before.heap)
      BY <1>1, <2>1, ObjectsSurvive DEF Agreed
    <3> QED
      BY <2>1, <3>1 DEF NamesLeft, Ids
  <2> QED
    BY <1>4, <2>2, <2>3, <2>4 DEF CallAgreed
<1> QED
  BY <1>3, <1>4

(* The same of the state the collection ends in.                           *)
LEMMA CallRecovered ==
  /\ Compacted' /\ Setting'
  /\ CallAgreed(before.heap, before.words, before.lo, before.hi)'
  => CallAgreed(heap, words, hbegin, hcurrent)'
<1>1. /\ Compacted /\ Setting
      /\ CallAgreed(before.heap, before.words, before.lo, before.hi)
      => CallAgreed(heap, words, hbegin, hcurrent)
  BY CallSurvives
<1> QED
  BY <1>1, PTL
-----------------------------------------------------------------------------
(* Marking changes nothing of what the program sees.                       *)
LEMMA SameGraph ==
  ASSUME NEW h, NEW h2, NEW ws, NEW lo, NEW hi, DOMAIN h2 = DOMAIN h,
         \A a \in DOMAIN h : /\ h2[a] \in Object /\ h2[a].id = h[a].id
                             /\ h2[a].kind = h[a].kind /\ h2[a].body = h[a].body
  PROVE  /\ CallAgreed(h, ws, lo, hi) => CallAgreed(h2, ws, lo, hi)
         /\ Agreed(h, ws, lo, hi) => Agreed(h2, ws, lo, hi)
<1>1. \A w : Value(w, h2, lo, hi) = Value(w, h, lo, hi)
  BY DEF Value
<1>2. Ids(h2) = Ids(h)
  BY DEF Ids
<1>3. \A a \in DOMAIN h : FirstField(h2[a]) = FirstField(h[a])
  BY DEF FirstField
<1>4. Meaningful(h, ws, lo, hi) => Meaningful(h2, ws, lo, hi)
  BY <1>3 DEF Meaningful, Sound, Distinct
<1>5. Variables(h2, ws, lo, hi) = Variables(h, ws, lo, hi)
  BY <1>1 DEF Variables
<1>6. ASSUME Meaningful(h, ws, lo, hi)
      PROVE  Objects(h2, lo, hi) = Objects(h, lo, hi)
  <2>1. PICK s, t : s = Objects(h2, lo, hi) /\ t = Objects(h, lo, hi)
    OBVIOUS
  <2>2. ASSUME NEW a \in DOMAIN h
        PROVE  Shows(h2[a], h2, lo, hi) = Shows(h[a], h, lo, hi)
    BY <1>1, <1>3 DEF Shows
  <2>3. /\ DOMAIN s = Ids(h) /\ DOMAIN t = Ids(h)
        /\ \A a \in DOMAIN h : /\ s[h[a].id] = Shows(h2[a], h2, lo, hi)
                               /\ t[h[a].id] = Shows(h[a], h, lo, hi)
    BY <1>2, <1>4, <1>6, <2>1, ObjectsFacts
  <2>4. \A n \in Ids(h) : s[n] = t[n]
    BY <2>2, <2>3 DEF Ids
  <2>5. s = [n \in Ids(h) |-> s[n]] /\ t = [n \in Ids(h) |-> t[n]]
    BY <1>2, <2>1 DEF Objects
  <2> QED
    BY <2>1, <2>4, <2>5
<1>7. Agreed(h, ws, lo, hi) => Agreed(h2, ws, lo, hi)
  BY <1>4, <1>5, <1>6 DEF Agreed, Sees
<1>8. ArgsMade(h, ws, lo, hi) => ArgsMade(h2, ws, lo, hi)
  BY <1>1, <1>4, <1>6 DEF ArgsMade
<1>9. Meant(call, h, ws, lo, hi) => Meant(call, h2, ws, lo, hi)
  <2>1. \A i : Operand(call, h2, ws, lo, hi, i) = Operand(call, h, ws, lo, hi, i)
    BY <1>1 DEF Operand
  <2> QED
    BY <2>1 DEF Meant, Built, Copied, Joined, Cut
<1>10. \A n : NamesLeft(h, n) => NamesLeft(h2, n)
  BY DEF NamesLeft
<1> QED
  BY <1>7, <1>8, <1>9, <1>10 DEF CallAgreed

(* It is about the rest of the memory only when the call and the program's *)
(* view stand.                                                             *)
LEMMA AgreedStill ==
  ASSUME NEW h, NEW ws, NEW lo, NEW hi, CallAgreed(h, ws, lo, hi),
         UNCHANGED <<todo, call, shown>>
  PROVE  CallAgreed(h, ws, lo, hi)'
<1>1. Meant(call, h, ws, lo, hi) => Meant(call, h, ws, lo, hi)'
  BY DEF Meant, Built, Bare, Copied, Joined, Cut, HoldsString
<1>2. ArgsMade(h, ws, lo, hi) => ArgsMade(h, ws, lo, hi)'
  BY DEF ArgsMade
<1>3. Agreed(h, ws, lo, hi) => Agreed(h, ws, lo, hi)'
  BY DEF Agreed
<1> QED
  BY <1>1, <1>2, <1>3 DEF CallAgreed

(* Marking only moves marks: nothing shows differently.                    *)
LEMMA MarkKeepsGraph ==
  ASSUME RuntimeIInv, GraphIInv, Mark PROVE GraphIInv'
<1>1. MarkNext /\ UNCHANGED <<todo, call, shown>>
  BY DEF Mark
<1>2. /\ pc \in MarkPC /\ pc' \in MarkPC
      /\ UNCHANGED <<hbegin, hsize, hcurrent, words, stackTop, extraRoots>>
  BY <1>1, MarkKeeps
<1>3. MarkIInv
  BY <1>2 DEF RuntimeIInv
<1>4. MarkIInv'
  BY <1>1, <1>3, MarkInductive
<1>5. /\ DOMAIN heap' = DOMAIN heap
      /\ \A a \in DOMAIN heap :
           /\ heap'[a] \in Object /\ heap'[a].id = heap[a].id
           /\ heap'[a].kind = heap[a].kind /\ heap'[a].body = heap[a].body
  BY <1>1, <1>3, <1>4, StepsAreBenign
  DEF MarkStep, MarkIInv, MarkTypeOK, MemoryOK
<1>6. CallAgreed(heap, words, hbegin, hcurrent)
  BY <1>2 DEF GraphIInv
<1>7. CallAgreed(heap', words, hbegin, hcurrent)
  BY <1>5, <1>6, SameGraph
<1>8. CallAgreed(heap, words, hbegin, hcurrent)'
  <2>1. PICK h : h = heap'
    OBVIOUS
  <2>2. PICK ws, lo, hi : ws = words /\ lo = hbegin /\ hi = hcurrent
    OBVIOUS
  <2>3. CallAgreed(h, ws, lo, hi)'
    BY <1>1, <1>7, <2>1, <2>2, AgreedStill
  <2> QED
    BY <1>2, <2>1, <2>2, <2>3
<1> QED
  BY <1>2, <1>8 DEF GraphIInv, MarkPC, CompactPC, Collecting

(* Handing over to the collector changes nothing that shows.               *)
LEMMA StartGCKeepsGraph ==
  ASSUME RuntimeIInv, GraphIInv, StartGC PROVE GraphIInv'
<1>1. /\ pc = "call" /\ pc' = "roots"
      /\ UNCHANGED <<heap, hbegin, hcurrent, words, todo, call, shown>>
  BY DEF StartGC, memory
<1>2. CallAgreed(heap, words, hbegin, hcurrent)'
  <2>1. PICK h, ws, lo, hi : h = heap /\ ws = words /\ lo = hbegin /\ hi = hcurrent
    OBVIOUS
  <2>2. CallAgreed(h, ws, lo, hi)
    BY <1>1, <2>1 DEF GraphIInv
  <2>3. CallAgreed(h, ws, lo, hi)'
    BY <1>1, <2>2, AgreedStill
  <2> QED
    BY <1>1, <2>1, <2>3
<1> QED
  BY <1>1, <1>2 DEF GraphIInv, MarkPC, CompactPC, Collecting

(* What is to be compacted shows what was marked.                          *)
LEMMA StartCompactKeepsGraph ==
  ASSUME RuntimeIInv, GraphIInv, StartCompact PROVE GraphIInv'
<1>1. /\ pc = "marked" /\ pc' = "locate"
      /\ before' = [heap |-> heap, words |-> words, lo |-> hbegin, hi |-> hcurrent]
      /\ UNCHANGED <<todo, call, shown>>
  BY DEF StartCompact
<1>2. /\ before'.heap = heap /\ before'.words = words
      /\ before'.lo = hbegin /\ before'.hi = hcurrent
  BY <1>1
<1>3. CallAgreed(heap, words, hbegin, hcurrent)
  BY <1>1 DEF GraphIInv, MarkPC
<1>4. CallAgreed(before.heap, before.words, before.lo, before.hi)'
  <2>1. PICK h, ws, lo, hi : h = heap /\ ws = words /\ lo = hbegin /\ hi = hcurrent
    OBVIOUS
  <2>2. CallAgreed(h, ws, lo, hi)'
    BY <1>1, <1>3, <2>1, AgreedStill
  <2> QED
    BY <1>2, <2>1, <2>2
<1> QED
  BY <1>1, <1>4 DEF GraphIInv, MarkPC, CompactPC, Collecting

(* When compact_phase is done, the program sees what it saw before alloc.  *)
LEMMA CompactKeepsGraph ==
  ASSUME RuntimeIInv, GraphIInv, Compact, RuntimeIInv' PROVE GraphIInv'
<1>1. CompactNext /\ UNCHANGED <<todo, call, shown>>
  BY DEF Compact
<1>2. /\ Collecting /\ pc' \in CompactPC
      /\ UNCHANGED <<before, additional, stackTop, extraRoots>>
  BY <1>1, CompactKeeps DEF Collecting
<1>3. CallAgreed(before.heap, before.words, before.lo, before.hi)
  BY <1>2 DEF GraphIInv
<1>4. CallAgreed(before.heap, before.words, before.lo, before.hi)'
  <2>1. PICK h, ws, lo, hi : /\ h = before.heap /\ ws = before.words
                             /\ lo = before.lo /\ hi = before.hi
    OBVIOUS
  <2>2. CallAgreed(h, ws, lo, hi)'
    BY <1>1, <1>3, <2>1, AgreedStill
  <2> QED
    BY <1>2, <2>1, <2>2
<1>5. CASE pc' = "compacted"
  <2>1. Setting'
    BY DEF RuntimeIInv
  <2>2. Compacted'
    <3>1. /\ Setting /\ ExtraRootsOK /\ CallTyped
          /\ CompactIInv /\ additional = Request
          /\ Orderly(before.heap, before.words, before.lo, before.hi)
          /\ Supplied(call, before.heap, before.words)
          /\ ArrayKept(before.heap, before.words)
      BY <1>2 DEF RuntimeIInv, InCall, Collecting, CompactPC
    <3>2. CompactIInv'
      BY <1>1, <3>1, CompactInductive
    <3>3. /\ CallTyped' /\ additional' = Request'
          /\ Supplied(call, before.heap, before.words)'
          /\ ArrayKept(before.heap, before.words)'
      BY <1>1, <1>2, <3>1 DEF CallTyped, Request, ArrayKept
    <3>4. Orderly(before.heap, before.words, before.lo, before.hi)'
      <4>1. Rooted' = Rooted
        BY <1>2 DEF Rooted, RootSlots, StackSlots, GlobalSlots
      <4> QED
        BY <1>2, <3>1, <4>1 DEF Orderly
    <3> QED
      BY <1>5, <3>2, <3>3, <3>4 DEF Compacted
  <2>3. CallAgreed(heap, words, hbegin, hcurrent)'
    BY <1>4, <2>1, <2>2, CallRecovered
  <2> QED
    BY <1>5, <2>3 DEF GraphIInv, MarkPC, CompactPC, Collecting
<1>6. CASE pc' # "compacted"
  BY <1>2, <1>4, <1>6 DEF GraphIInv, MarkPC, CompactPC, Collecting
<1> QED
  BY <1>5, <1>6
-----------------------------------------------------------------------------
(* A call begins: the program sees what it saw, and the arguments are what *)
(* its variables hold.                                                     *)
LEMMA MeantSame ==
  ASSUME NEW c, NEW d, d.kind = c.kind, d.len = c.len, d.source = c.source,
         d.raw = c.raw, d.args = c.args,
         NEW h, NEW ws, NEW lo, NEW hi, Meant(c, h, ws, lo, hi), shown' = shown
  PROVE  Meant(d, h, ws, lo, hi)'
<1>1. \A i : Operand(d, h, ws, lo, hi, i) = Operand(c, h, ws, lo, hi, i)
  BY DEF Operand
<1>2. \A y : HoldsString(y)' = HoldsString(y)
  BY DEF HoldsString
<1>3. \A body : MadeOf(d, body) <=> MadeOf(c, body)
  BY DEF MadeOf
<1>4. c.source = "words" => Built(d, h, ws, lo, hi)' \/ Bare(d)
  <2>1. Built(c, h, ws, lo, hi) => Built(d, h, ws, lo, hi)'
    BY <1>1, <1>3 DEF Built
  <2>2. Bare(c) => Bare(d)
    BY <1>3 DEF Bare
  <2> QED
    BY <2>1, <2>2 DEF Meant
<1>5. c.source = "copy" => Copied(d, h, ws, lo, hi)'
  BY <1>1 DEF Meant, Copied
<1>6. c.source = "both" => Joined(d, h, ws, lo, hi)'
  BY <1>1, <1>2 DEF Meant, Joined
<1>7. c.source = "part" => Cut(d, h, ws, lo, hi)'
  BY <1>1, <1>2 DEF Meant, Cut
<1> QED
  BY <1>4, <1>5, <1>6, <1>7 DEF Meant

(* A call that pushes its operands and roots keeps the view; its operands  *)
(* mean what it was given.                                                 *)
LEMMA EnterKeepsGraph ==
  ASSUME RuntimeIInv, GraphIInv, RuntimeIInv', NEW c \in Calls, NEW pushed, NEW roots,
         Enter(c, pushed, roots), PushedOK(pushed, roots),
         NEW ws, ws = words', Meant(c, heap, ws, hbegin, hcurrent)
  PROVE  GraphIInv' /\ UNCHANGED shown
<1>1. /\ pc = "mutator" /\ Counted
      /\ words' = [s \in Slot |-> IF s \in DOMAIN pushed THEN pushed[s] ELSE words[s]]
      /\ call' = [c EXCEPT !.roots = Len(roots)]
      /\ UNCHANGED <<heap, hbegin, hcurrent, shown>>
      /\ pc' \in {"call", "failed"}
  BY DEF Enter
<1>2. CASE pc' = "failed"
  BY <1>1, <1>2 DEF GraphIInv, MarkPC, CompactPC, Collecting
<1>3. CASE pc' = "call"
  <2>1. PICK h, lo, hi : h = heap /\ lo = hbegin /\ hi = hcurrent
    OBVIOUS
  <2>2. /\ Agreed(h, words, lo, hi) /\ NamesLeft(h, todo.calls)
    BY <1>1, <2>1 DEF GraphIInv
  <2>3. Meaningful(h, ws, lo, hi)
    <3>1. Ready'
      BY <1>3 DEF RuntimeIInv
    <3>2. Distinct(heap)'
      BY <1>1, <2>1, <2>2 DEF Agreed, Meaningful, Distinct
    <3>3. Meaningful(heap, words, hbegin, hcurrent)'
      BY <3>1, <3>2, MeaningfulAfter
    <3> QED
      BY <1>1, <2>1, <3>3 DEF Meaningful
  <2>4. shown = Sees(h, ws, lo, hi)
    <3>1. \A x \in Var : ws[x] = words[x]
      <4>1. \A x \in Var : x \in Slot /\ x \notin Frame
        BY Layout DEF Var, Frame
      <4> QED
        BY <1>1, <4>1 DEF PushedOK
    <3>2. Variables(h, ws, lo, hi) = Variables(h, words, lo, hi)
      BY <3>1 DEF Variables
    <3> QED
      BY <2>2, <3>2 DEF Agreed, Sees
  <2>5. PICK d : d = call'
    OBVIOUS
  <2>6. /\ d.kind = c.kind /\ d.len = c.len /\ d.source = c.source
        /\ d.raw = c.raw /\ d.args = c.args /\ d.fn # "set_args"
    BY <1>1, <2>5 DEF Calls, Functions
  <2>7. Meant(d, h, ws, lo, hi)'
    BY <1>1, <2>1, <2>6, MeantSame
  <2>8. NamesLeft(h, todo'.calls + 1)
    <3>1. PICK n, m : n = todo.calls /\ m = todo'.calls
      OBVIOUS
    <3>2. n \in Nat /\ m + 1 = n
      BY <1>1, <3>1 DEF RuntimeIInv, Setting, Counted
    <3> QED
      BY <2>2, <3>1, <3>2
  <2>9. CallAgreed(h, ws, lo, hi)'
    BY <1>1, <2>3, <2>4, <2>5, <2>6, <2>7, <2>8 DEF CallAgreed, Agreed
  <2>10. CallAgreed(heap, words, hbegin, hcurrent)'
    BY <1>1, <2>1, <2>9
  <2> QED
    BY <1>1, <1>3, <2>10 DEF GraphIInv, MarkPC, CompactPC, Collecting
<1> QED
  BY <1>1, <1>2, <1>3

(* What the functions mean to make.                                        *)
LEMMA VariablesShown ==
  ASSUME GraphIInv, pc = "mutator", NEW x \in Var
  PROVE  /\ shown.env[x] = Value(words[x], heap, hbegin, hcurrent)
         /\ Agreed(heap, words, hbegin, hcurrent)
<1>1. Agreed(heap, words, hbegin, hcurrent)
  BY DEF GraphIInv
<1>2. shown.env = Variables(heap, words, hbegin, hcurrent)
  <2>1. PICK s, e : s = graph!Kept(Objects(heap, hbegin, hcurrent), e)
                    /\ e = Variables(heap, words, hbegin, hcurrent)
    OBVIOUS
  <2>2. shown = [store |-> s, env |-> e]
    BY <1>1, <2>1 DEF Agreed, Sees
  <2> QED
    BY <2>1, <2>2
<1> QED
  BY <1>1, <1>2 DEF Variables

(* The words a constructor has pushed mean what the variables they come    *)
(* from hold.                                                              *)
LEMMA BuiltMeans ==
  ASSUME RuntimeIInv, GraphIInv, NEW ops \in Operands, NEW roots,
         NEW d, Enter(d, Pushed(ops), roots),
         NEW c, c.source = "words", c.args = Args(Len(ops)),
         NEW head \in Heads, head[1] = c.kind, MadeOf(c, head[2]),
         NEW ws, ws = words'
  PROVE  Meant(c, heap, ws, hbegin, hcurrent)
<1>1. /\ ops \in Seq(Var) /\ Len(ops) \in Nat /\ Len(ops) <= MaxArgs
      /\ \A i \in 1 .. Len(ops) : ops[i] \in Var
  <2>1. ops \in Seq(Var) /\ Len(ops) \in Nat /\ Len(ops) <= MaxArgs
    BY OperandFacts
  <2> QED
    BY <2>1
<1>2. pc = "mutator"
  BY EnterWrites
<1>3. /\ Len(Args(Len(ops))) = Len(ops)
      /\ \A i \in 1 .. Len(ops) : Args(Len(ops))[i] = Arg(i) /\ Arg(i) \in Slot
  BY <1>1, ArgsFacts
<1>4. ASSUME NEW i \in 1 .. Len(ops)
      PROVE  Operand(c, heap, ws, hbegin, hcurrent, i) = shown.env[ops[i]]
  <2>1. PICK x : x = ops[i]
    OBVIOUS
  <2>2. ws[Arg(i)] = words[x]
    <3>1. Arg(i) \in DOMAIN Pushed(ops) /\ Pushed(ops)[Arg(i)] = words[ops[i]]
      BY <1>1, <1>2, PushedFacts
    <3> QED
      BY <1>3, <2>1, <3>1, EnterWrites
  <2>3. shown.env[x] = Value(words[x], heap, hbegin, hcurrent)
    BY <1>1, <1>2, <2>1, VariablesShown
  <2> QED
    BY <1>3, <2>1, <2>2, <2>3 DEF Operand
<1>5. Built(c, heap, ws, hbegin, hcurrent)
  BY <1>3, <1>4 DEF Built
<1> QED
  BY <1>5 DEF Meant

(* An object without operands is one of those the graph may introduce.     *)
LEMMA BareMeans ==
  ASSUME NEW c, c.source = "words", Len(c.args) = 0,
         NEW thing \in Fresh, thing[1] = c.kind, MadeOf(c, thing[2]),
         NEW h, NEW ws, NEW lo, NEW hi
  PROVE  Meant(c, h, ws, lo, hi)
BY DEF Meant, Bare

(* A word copied from a variable shows what the variable holds.            *)
LEMMA ReadMeans ==
  ASSUME RuntimeIInv, GraphIInv, pc = "mutator", NEW x \in Var,
         NEW s \in Slot, NEW ws, ws[s] = words[x]
  PROVE  Value(ws[s], heap, hbegin, hcurrent) = shown.env[x]
BY VariablesShown

(* A variable that points to an object shows it.                           *)
LEMMA PointsShown ==
  ASSUME RuntimeIInv, GraphIInv, pc = "mutator", NEW x \in Var, Points(x),
         NEW g, g = shown
  PROVE  /\ graph!IsObject(g.env[x]) /\ graph!ObjectOf(g.env[x]) = At(x).id
         /\ At(x).id \in DOMAIN g.store
         /\ g.store[At(x).id] = Shows(At(x), heap, hbegin, hcurrent)
<1>1. /\ g.env[x] = Value(words[x], heap, hbegin, hcurrent)
      /\ Meaningful(heap, words, hbegin, hcurrent)
      /\ g = Sees(heap, words, hbegin, hcurrent)
  BY VariablesShown DEF Agreed
<1>2. /\ words[x] \in Int /\ 0 < words[x] /\ ToData(words[x]) \in DOMAIN heap
      /\ x \in Slot
  BY Reading
<1>3. hbegin \in Nat \ {0} /\ Sound(words[x], heap, hbegin, hcurrent)
  BY <1>2, Between
<1>4. g.env[x] = <<"object", At(x).id>>
  BY <1>1, <1>2, <1>3, ValueFacts DEF At
<1>5. graph!IsObject(g.env[x]) /\ graph!ObjectOf(g.env[x]) = At(x).id
  BY <1>4, Tagged
<1>6. PICK all : all = Objects(heap, hbegin, hcurrent)
  OBVIOUS
<1>7. /\ g.store = [n \in DOMAIN g.store |-> all[n]]
      /\ graph!Held(g.env) \subseteq DOMAIN g.store
  BY <1>1, <1>6, SeesFacts
<1>8. At(x).id \in DOMAIN g.store
  BY <1>5, <1>7 DEF graph!Held
<1>9. all[At(x).id] = Shows(At(x), heap, hbegin, hcurrent)
  BY <1>1, <1>2, <1>6, ObjectsFacts DEF At
<1>10. g.store[At(x).id] = all[At(x).id]
  BY <1>7, <1>8
<1> QED
  BY <1>5, <1>8, <1>9, <1>10

(* A string a variable points to is one in the program's view.             *)
LEMMA StringShown ==
  ASSUME RuntimeIInv, GraphIInv, pc = "mutator", NEW x \in Var, Points(x),
         At(x).kind = "STRING"
  PROVE  HoldsString(x)
<1>1. PICK g : g = shown
  OBVIOUS
<1>2. /\ graph!ObjectOf(g.env[x]) = At(x).id
      /\ g.store[At(x).id] = Shows(At(x), heap, hbegin, hcurrent)
  BY <1>1, PointsShown
<1>3. Shows(At(x), heap, hbegin, hcurrent).kind = "STRING"
  BY DEF Shows
<1> QED
  BY <1>1, <1>2, <1>3 DEF HoldsString

(* Barray's operands go to the extra roots with their meaning.             *)
LEMMA BarrayMeans ==
  ASSUME RuntimeIInv, GraphIInv, RuntimeIInv',
         NEW ops \in Operands, NEW dest \in Assignable, Barray(ops, dest)
  PROVE  GraphIInv' /\ UNCHANGED shown
<1>1. ops \in Seq(Var) /\ Len(ops) \in Nat /\ Len(ops) <= MaxArgs
  BY OperandFacts
<1>2. PICK raw, k : raw = <<>> /\ k = "ARRAY"
  OBVIOUS
<1>3. raw \in Seq(Int) /\ Len(raw) = 0 /\ \A i \in 1 .. Len(raw) : raw[i] <= 0
  BY <1>2
<1>4. PICK c : c = Constructor("Barray", k, raw, ops, Args(Len(ops)), dest)
  OBVIOUS
<1>5. /\ c.kind = k /\ c.raw = raw /\ c.args = Args(Len(ops)) /\ c.source = "words"
  BY <1>4 DEF Constructor, Call
<1>6. c \in Calls
  <2>1. k \in Kind /\ k \notin {"SEXP", "CLOSURE"} /\ k # "STRING"
    BY <1>2, Names
  <2>2. Args(Len(ops)) \in Seq(Slot) /\ Len(Args(Len(ops))) = Len(ops)
    BY <1>1, ArgsFacts
  <2> QED
    BY <1>1, <1>3, <1>4, <2>1, <2>2, Names, Constructed
<1>7. Enter(c, Pushed(ops), <<>>) /\ pc = "mutator"
  BY <1>2, <1>4 DEF Barray, Enter
<1>8. PICK head : head = <<"ARRAY", <<>>>>
  OBVIOUS
<1>9. head \in Heads /\ head[1] = k /\ MadeOf(c, head[2])
  <2>1. head[1] = k /\ head[2] = raw
    BY <1>2, <1>8
  <2>2. head \in Heads
    BY <1>8 DEF Heads
  <2>3. MadeOf(c, raw)
    BY <1>3, <1>5 DEF MadeOf
  <2> QED
    BY <2>1, <2>2, <2>3
<1>10. PICK ws : ws = words'
  OBVIOUS
<1>11. Meant(c, heap, ws, hbegin, hcurrent)
  BY <1>5, <1>7, <1>9, <1>10, BuiltMeans
<1>12. PushedOK(Pushed(ops), <<>>)
  BY <1>1, <1>7, PushedFacts
<1> QED
  BY <1>6, <1>7, <1>10, <1>11, <1>12, EnterKeepsGraph

(* A tag or a code pointer is the raw word of an S-expression or a closure *)
(* of the graph.                                                           *)
LEMMA OneRawWord ==
  ASSUME NEW k \in {"SEXP", "CLOSURE"}, NEW raw, raw = <<RawWord>>
  PROVE  \E head \in Heads : head[1] = k /\ \A c : c.raw = raw => MadeOf(c, head[2])
<1>1. PICK b, head : b = <<<<"value", RawWord>>>> /\ head = <<k, b>>
  OBVIOUS
<1>2. head \in Heads
  BY <1>1 DEF Heads
<1>3. head[1] = k /\ head[2] = b
  BY <1>1
<1>4. Len(b) = 1 /\ Len(raw) = 1 /\ b[1] = <<"value", raw[1]>>
  BY <1>1
<1>5. \A c : c.raw = raw => MadeOf(c, b)
  BY <1>4 DEF MadeOf
<1> QED
  BY <1>2, <1>3, <1>5

(* Bsexp's operands, with the tag before them.                             *)
LEMMA BsexpMeans ==
  ASSUME RuntimeIInv, GraphIInv, RuntimeIInv',
         NEW ops \in Operands, NEW dest \in Assignable, Bsexp(ops, dest)
  PROVE  GraphIInv' /\ UNCHANGED shown
<1>1. ops \in Seq(Var) /\ Len(ops) \in Nat /\ Len(ops) <= MaxArgs
  BY OperandFacts
<1>2. PICK raw, k : raw = <<RawWord>> /\ k = "SEXP"
  OBVIOUS
<1>3. raw \in Seq(Int) /\ Len(raw) = 1
  BY <1>2, ProgramAssumption
<1>4. PICK c : c = Constructor("Bsexp", k, raw, ops, Args(Len(ops)), dest)
  OBVIOUS
<1>5. c.kind = k /\ c.raw = raw /\ c.args = Args(Len(ops)) /\ c.source = "words"
  BY <1>4 DEF Constructor, Call
<1>6. c \in Calls
  BY <1>1, <1>2, <1>3, <1>4, ArgsFacts, Names, Constructed
<1>7. Enter(c, Pushed(ops), <<>>) /\ pc = "mutator"
  BY <1>2, <1>4 DEF Bsexp, Enter
<1>8. PICK head \in Heads : head[1] = k /\ MadeOf(c, head[2])
  BY <1>2, <1>5, OneRawWord
<1>9. PICK ws : ws = words'
  OBVIOUS
<1>10. Meant(c, heap, ws, hbegin, hcurrent)
  BY <1>5, <1>7, <1>8, <1>9, BuiltMeans
<1>11. PushedOK(Pushed(ops), <<>>)
  BY <1>1, <1>7, PushedFacts
<1> QED
  BY <1>6, <1>7, <1>9, <1>10, <1>11, EnterKeepsGraph

(* Bclosure's operands, with the code pointer before them.                 *)
LEMMA BclosureMeans ==
  ASSUME RuntimeIInv, GraphIInv, RuntimeIInv',
         NEW ops \in Operands, NEW dest \in Assignable, Bclosure(ops, dest)
  PROVE  GraphIInv' /\ UNCHANGED shown
<1>1. ops \in Seq(Var) /\ Len(ops) \in Nat /\ Len(ops) <= MaxArgs
  BY OperandFacts
<1>2. PICK raw, k : raw = <<RawWord>> /\ k = "CLOSURE"
  OBVIOUS
<1>3. raw \in Seq(Int) /\ Len(raw) = 1
  BY <1>2, ProgramAssumption
<1>4. PICK d : d = Constructor("Bclosure", k, raw, ops, Args(Len(ops)), dest)
  OBVIOUS
<1>5. /\ d \in Calls
      /\ d.kind = k /\ d.raw = raw /\ d.args = Args(Len(ops)) /\ d.source = "words"
  <2>1. d.kind = k /\ d.raw = raw /\ d.args = Args(Len(ops)) /\ d.source = "words"
    BY <1>4 DEF Constructor, Call
  <2>2. d \in Calls
    BY <1>1, <1>2, <1>3, <1>4, ArgsFacts, Names, Constructed
  <2> QED
    BY <2>1, <2>2
<1>6. PICK c : c = [d EXCEPT !.late = 1]
  OBVIOUS
<1>7. /\ c \in Calls
      /\ c.kind = k /\ c.raw = raw /\ c.args = Args(Len(ops)) /\ c.source = "words"
  BY <1>5, <1>6 DEF Calls
<1>8. PICK roots :
        roots = [i \in 1 .. Len(ops) |-> StackTop + ClosureRootOffset + i - 1]
  OBVIOUS
<1>9. Enter(c, Pushed(ops), roots) /\ pc = "mutator"
  BY <1>2, <1>4, <1>6, <1>8 DEF Bclosure, Enter
<1>10. PICK head \in Heads : head[1] = k /\ MadeOf(c, head[2])
  BY <1>2, <1>7, OneRawWord
<1>11. PICK ws : ws = words'
  OBVIOUS
<1>12. Meant(c, heap, ws, hbegin, hcurrent)
  BY <1>7, <1>9, <1>10, <1>11, BuiltMeans
<1>13. PushedOK(Pushed(ops), roots)
  BY <1>1, <1>9, PushedFacts
<1> QED
  BY <1>7, <1>9, <1>11, <1>12, <1>13, EnterKeepsGraph

(* Those that fill their object with words of their own.                   *)
LEMMA BareCall ==
  ASSUME NEW fn \in Functions, NEW k \in {"ARRAY", "STRING"}, NEW n \in Nat,
         NEW w \in Int, NEW dest \in Assignable,
         k = "ARRAY" => w = Nil /\ n \in Lengths,
         k = "STRING" => w = RawWord /\ n \in Lengths \cup {1},
         NEW raw, raw = [i \in 1 .. n |-> w],
         NEW c, c = Constructor(fn, k, raw, <<>>, <<>>, dest)
  PROVE  c \in Calls /\ \A h, ws, lo, hi : Meant(c, h, ws, lo, hi)
<1>1. raw \in Seq(Int) /\ Len(raw) = n /\ \A i \in 1 .. n : raw[i] = w
  OBVIOUS
<1>2. k = "ARRAY" => \A i \in 1 .. Len(raw) : raw[i] <= 0
  BY <1>1 DEF Nil
<1>3. c \in Calls
  BY <1>1, <1>2, Alone
<1>4. c.kind = k /\ c.raw = raw /\ c.source = "words" /\ Len(c.args) = 0
  BY DEF Constructor, Call
<1>5. PICK b, thing : b = [i \in 1 .. n |-> <<"value", w>>] /\ thing = <<k, b>>
  OBVIOUS
<1>6. thing \in Fresh
  BY <1>5 DEF Fresh
<1>7. thing[1] = k /\ thing[2] = b
  BY <1>5
<1>8. MadeOf(c, b)
  BY <1>1, <1>4, <1>5 DEF MadeOf
<1>9. ASSUME NEW h, NEW ws, NEW lo, NEW hi PROVE Meant(c, h, ws, lo, hi)
  BY <1>4, <1>6, <1>7, <1>8, BareMeans
<1> QED
  BY <1>3, <1>9

(* LmakeArray needs no operand.                                            *)
LEMMA LmakeArrayMeans ==
  ASSUME RuntimeIInv, GraphIInv, RuntimeIInv',
         NEW n \in Lengths, NEW dest \in Assignable, LmakeArray(n, dest)
  PROVE  GraphIInv' /\ UNCHANGED shown
<1>1. PICK raw, k, w : raw = [i \in 1 .. n |-> w] /\ k = "ARRAY" /\ w = Nil
  OBVIOUS
<1>2. PICK c : c = Constructor("LmakeArray", k, raw, <<>>, <<>>, dest)
  OBVIOUS
<1>3. n \in Nat /\ w \in Int /\ k \in {"ARRAY", "STRING"} /\ k # "STRING"
  BY <1>1, ProgramAssumption DEF Nil
<1>4. c \in Calls /\ \A h, ws, lo, hi : Meant(c, h, ws, lo, hi)
  BY <1>1, <1>2, <1>3, Names, BareCall
<1>5. Enter(c, <<>>, <<>>)
  BY <1>1, <1>2 DEF LmakeArray
<1>6. PICK ws : ws = words'
  OBVIOUS
<1> QED
  BY <1>4, <1>5, <1>6, NothingPushed, EnterKeepsGraph

(* LmakeString needs no operand.                                           *)
LEMMA LmakeStringMeans ==
  ASSUME RuntimeIInv, GraphIInv, RuntimeIInv',
         NEW n \in Lengths, NEW dest \in Assignable, LmakeString(n, dest)
  PROVE  GraphIInv' /\ UNCHANGED shown
<1>1. PICK raw, k, w : raw = [i \in 1 .. n |-> w] /\ k = "STRING" /\ w = RawWord
  OBVIOUS
<1>2. PICK c : c = Constructor("LmakeString", k, raw, <<>>, <<>>, dest)
  OBVIOUS
<1>3. n \in Nat /\ w \in Int /\ k \in {"ARRAY", "STRING"} /\ k # "ARRAY"
  BY <1>1, ProgramAssumption
<1>4. c \in Calls /\ \A h, ws, lo, hi : Meant(c, h, ws, lo, hi)
  BY <1>1, <1>2, <1>3, Names, BareCall
<1>5. Enter(c, <<>>, <<>>)
  BY <1>1, <1>2 DEF LmakeString
<1>6. PICK ws : ws = words'
  OBVIOUS
<1> QED
  BY <1>4, <1>5, <1>6, NothingPushed, EnterKeepsGraph

(* Lfread reads a file's name, and what it makes needs no operand.         *)
LEMMA LfreadMeans ==
  ASSUME RuntimeIInv, GraphIInv, RuntimeIInv',
         NEW x \in Var, NEW n \in Lengths, NEW dest \in Assignable,
         Lfread(x, n, dest)
  PROVE  GraphIInv' /\ UNCHANGED shown
<1>1. PICK raw, k, w : raw = [i \in 1 .. n |-> w] /\ k = "STRING" /\ w = RawWord
  OBVIOUS
<1>2. PICK c : c = Constructor("Lfread", k, raw, <<>>, <<>>, dest)
  OBVIOUS
<1>3. n \in Nat /\ w \in Int /\ k \in {"ARRAY", "STRING"} /\ k # "ARRAY"
  BY <1>1, ProgramAssumption
<1>4. c \in Calls /\ \A h, ws, lo, hi : Meant(c, h, ws, lo, hi)
  BY <1>1, <1>2, <1>3, Names, BareCall
<1>5. Enter(c, Pushed(<<x>>), <<>>) /\ pc = "mutator"
  BY <1>1, <1>2 DEF Lfread
<1>6. PICK ws : ws = words'
  OBVIOUS
<1>7. PushedOK(Pushed(<<x>>), <<>>)
  BY <1>5, PushedOne
<1> QED
  BY <1>4, <1>5, <1>6, <1>7, EnterKeepsGraph

(* Bstring of a buffer.                                                    *)
LEMMA BufferMeans ==
  ASSUME NEW fn \in Functions, NEW dest \in Assignable,
         NEW c, c = Constructor(fn, "STRING", <<RawWord>>, <<>>, <<>>, dest)
  PROVE  c \in Calls /\ \A h, ws, lo, hi : Meant(c, h, ws, lo, hi)
<1>1. PICK raw, k, w, n : raw = [i \in 1 .. n |-> w] /\ k = "STRING" /\ w = RawWord
                          /\ n = 1
  OBVIOUS
<1>2. raw = <<RawWord>>
  BY <1>1
<1>3. c = Constructor(fn, k, raw, <<>>, <<>>, dest)
  BY <1>1, <1>2
<1>4. n \in Nat /\ w \in Int /\ k \in {"ARRAY", "STRING"} /\ k # "ARRAY"
      /\ n \in Lengths \cup {1}
  BY <1>1, ProgramAssumption
<1> QED
  BY <1>1, <1>3, <1>4, BareCall

(* Functions that write to a buffer first read nothing from the heap once  *)
(* they allocate.                                                          *)
LEMMA BufferedMeans ==
  ASSUME RuntimeIInv, GraphIInv, RuntimeIInv',
         NEW fn \in Functions, NEW x \in Var, NEW dest \in Assignable,
         Buffered(fn, x, dest)
  PROVE  GraphIInv' /\ UNCHANGED shown
<1>1. PICK c : c = Constructor(fn, "STRING", <<RawWord>>, <<>>, <<>>, dest)
  OBVIOUS
<1>2. c \in Calls /\ \A h, ws, lo, hi : Meant(c, h, ws, lo, hi)
  BY <1>1, BufferMeans
<1>3. PICK roots : roots = <<Arg(1), Inner(1)>>
  OBVIOUS
<1>4. Enter(c, Parameter(StringBuf, Pushed(<<x>>)), roots) /\ pc = "mutator"
  BY <1>1, <1>3 DEF Buffered, Enter
<1>5. PushedOK(Pushed(<<x>>), roots)
  BY <1>4, PushedOne
<1>6. PushedOK(Parameter(StringBuf, Pushed(<<x>>)), roots)
  BY <1>5, BufferIsSound, ParameterFacts
<1>7. PICK ws : ws = words'
  OBVIOUS
<1> QED
  BY <1>2, <1>4, <1>6, <1>7, EnterKeepsGraph
-----------------------------------------------------------------------------
(* Those that make their object from the bodies of others.                 *)
LEMMA LsubstringMeans ==
  ASSUME RuntimeIInv, GraphIInv, RuntimeIInv',
         NEW x \in Var, NEW dest \in Assignable, Lsubstring(x, dest)
  PROVE  GraphIInv' /\ UNCHANGED shown
<1>1. pc = "mutator" /\ Points(x) /\ At(x).kind = "STRING"
  BY DEF Lsubstring
<1>2. x \in Slot /\ 0 < words[x] /\ Len(At(x).body) \in Nat
  BY <1>1, Reading
<1>3. ASSUME NEW p \in 0 .. Len(At(x).body) - 1,
             NEW l \in 1 .. Len(At(x).body) - p,
             Enter([Call("Lsubstring", "STRING", l, "part", <<>>, Args(1), dest)
                      EXCEPT !.from = p],
                   Pushed(<<x>>), Args(1))
      PROVE  GraphIInv' /\ UNCHANGED shown
  <2>1. p \in Nat /\ l \in Nat /\ 0 < l
    BY <1>2
  <2>2. PICK args : args = Args(1)
    OBVIOUS
  <2>3. /\ args \in Seq(Slot) /\ Len(args) = 1 /\ args[1] = Arg(1) /\ Arg(1) \in Slot
    BY <2>2, OneArg
  <2>4. PICK source : source = "part"
    OBVIOUS
  <2>5. source \in {"copy", "both", "part"}
    BY <2>4
  <2>6. PICK d : d = Call("Lsubstring", "STRING", l, source, <<>>, args, dest)
    OBVIOUS
  <2>7. PICK c : c = [d EXCEPT !.from = p]
    OBVIOUS
  <2>8. c \in Calls /\ c.source = source /\ c.args = args /\ c.len = l
    <3>1. d \in Calls /\ d.source = source /\ d.args = args /\ d.len = l
      BY <2>1, <2>3, <2>5, <2>6, Names, ReferringCall
    <3> QED
      BY <2>1, <2>7, <3>1 DEF Calls
  <2>9. Enter(c, Pushed(<<x>>), args)
    BY <1>3, <2>2, <2>4, <2>6, <2>7
  <2>10. /\ PushedOK(Pushed(<<x>>), args)
         /\ Arg(1) \in DOMAIN Pushed(<<x>>) /\ Pushed(<<x>>)[Arg(1)] = words[x]
    BY <1>1, PushedOne
  <2>11. PICK ws : ws = words'
    OBVIOUS
  <2>12. ws[Arg(1)] = words[x]
    BY <2>3, <2>9, <2>10, <2>11, EnterWrites
  <2>13. Operand(c, heap, ws, hbegin, hcurrent, 1) = shown.env[x]
    <3>1. Value(ws[Arg(1)], heap, hbegin, hcurrent) = shown.env[x]
      BY <1>1, <2>3, <2>12, ReadMeans
    <3> QED
      BY <2>3, <2>8, <3>1 DEF Operand
  <2>14. HoldsString(x)
    BY <1>1, StringShown
  <2>15. Cut(c, heap, ws, hbegin, hcurrent)
    BY <2>1, <2>8, <2>13, <2>14 DEF Cut
  <2>16. Meant(c, heap, ws, hbegin, hcurrent)
    BY <2>4, <2>8, <2>15 DEF Meant
  <2> QED
    BY <2>8, <2>9, <2>10, <2>11, <2>16, EnterKeepsGraph
<1>4. ASSUME pc' = "failed", UNCHANGED shown
      PROVE  GraphIInv' /\ UNCHANGED shown
  BY <1>4 DEF GraphIInv, MarkPC, CompactPC, Collecting
<1> QED
  BY <1>3, <1>4 DEF Lsubstring

(* Lclone's operand means the object it copies, in the root it is pushed   *)
(* to.                                                                     *)
LEMMA LcloneMeans ==
  ASSUME RuntimeIInv, GraphIInv, RuntimeIInv',
         NEW x \in Var, NEW dest \in Assignable, Lclone(x, dest)
  PROVE  GraphIInv' /\ UNCHANGED shown
<1>1. pc = "mutator" /\ Points(x)
  BY DEF Lclone
<1>2. /\ x \in Slot /\ words[x] \in Int /\ 0 < words[x] /\ Len(At(x).body) \in Nat
      /\ At(x).kind \in Kind /\ Sound(words[x], heap, hbegin, hcurrent)
  BY <1>1, Reading, Between DEF Object
<1>3. PICK source : source = "copy"
  OBVIOUS
<1>4. source \in {"copy", "both", "part"}
  BY <1>3
<1>5. ASSUME NEW s \in Slot, NEW args \in Seq(Slot), Len(args) = 1, args[1] = s,
             NEW pushed, NEW roots, PushedOK(pushed, roots),
             s \in DOMAIN pushed, pushed[s] = words[x],
             Enter(Call("Lclone", At(x).kind, Len(At(x).body), source, <<>>, args, dest),
                   pushed, roots)
      PROVE  GraphIInv' /\ UNCHANGED shown
  <2>1. PICK k, len : k = At(x).kind /\ len = Len(At(x).body)
    OBVIOUS
  <2>2. k \in Kind /\ len \in Nat
    BY <1>2, <2>1
  <2>3. PICK c : c = Call("Lclone", k, len, source, <<>>, args, dest)
    OBVIOUS
  <2>4. c \in Calls /\ c.source = source /\ c.args = args
    BY <1>4, <2>2, <2>3, Names, ReferringCall
  <2>5. Enter(c, pushed, roots)
    BY <1>5, <2>1, <2>3
  <2>6. PICK ws : ws = words'
    OBVIOUS
  <2>7. ws[s] = words[x]
    BY <1>5, <2>5, <2>6, EnterWrites
  <2>8. Operand(c, heap, ws, hbegin, hcurrent, 1) = shown.env[x]
    <3>1. Value(ws[s], heap, hbegin, hcurrent) = shown.env[x]
      BY <1>1, <2>7, ReadMeans
    <3> QED
      BY <1>5, <2>4, <3>1 DEF Operand
  <2>9. Copied(c, heap, ws, hbegin, hcurrent)
    BY <2>8 DEF Copied
  <2>10. Meant(c, heap, ws, hbegin, hcurrent)
    BY <1>3, <2>4, <2>9 DEF Meant
  <2> QED
    BY <1>5, <2>4, <2>5, <2>6, <2>10, EnterKeepsGraph
<1>6. CASE At(x).kind = "STRING"
  <2>1. PICK args : args = <<Inner(1)>>
    OBVIOUS
  <2>2. Inner(1) \in Slot
    BY Layout DEF Inner, Slot
  <2>3. args \in Seq(Slot) /\ Len(args) = 1 /\ args[1] = Inner(1)
    BY <2>1, <2>2
  <2>4. PICK roots : roots = <<Arg(1), Inner(1)>>
    OBVIOUS
  <2>5. \E i \in 1 .. Len(roots) : roots[i] = Inner(1)
    BY <2>4
  <2>6. PushedOK(Pushed(<<x>>), roots)
    BY <1>1, PushedOne
  <2>7. PICK pushed : pushed = Parameter(words[x], Pushed(<<x>>))
    OBVIOUS
  <2>8. /\ PushedOK(pushed, roots)
        /\ Inner(1) \in DOMAIN pushed /\ pushed[Inner(1)] = words[x]
    BY <1>2, <2>5, <2>6, <2>7, ParameterFacts
  <2>9. Enter(Call("Lclone", At(x).kind, Len(At(x).body), source, <<>>, args, dest),
              pushed, roots)
    BY <1>3, <1>6, <2>1, <2>4, <2>7 DEF Lclone
  <2> QED
    BY <1>5, <2>2, <2>3, <2>8, <2>9
<1>7. CASE At(x).kind # "STRING"
  <2>1. PICK args : args = Args(1)
    OBVIOUS
  <2>2. args \in Seq(Slot) /\ Len(args) = 1 /\ args[1] = Arg(1) /\ Arg(1) \in Slot
    BY <2>1, OneArg
  <2>3. PICK pushed : pushed = Pushed(<<x>>)
    OBVIOUS
  <2>4. /\ PushedOK(pushed, args)
        /\ Arg(1) \in DOMAIN pushed /\ pushed[Arg(1)] = words[x]
    BY <1>1, <2>3, PushedOne
  <2>5. Enter(Call("Lclone", At(x).kind, Len(At(x).body), source, <<>>, args, dest),
              pushed, args)
    BY <1>3, <1>7, <2>1, <2>3 DEF Lclone
  <2> QED
    BY <1>5, <2>2, <2>4, <2>5
<1> QED
  BY <1>6, <1>7

(* The two strings of ++ keep their meaning in the roots they are pushed   *)
(* to.                                                                     *)
LEMMA ConcatenateMeans ==
  ASSUME RuntimeIInv, GraphIInv, RuntimeIInv',
         NEW x \in Var, NEW y \in Var, NEW dest \in Assignable,
         Li__Infix_4343(x, y, dest)
  PROVE  GraphIInv' /\ UNCHANGED shown
<1>1. /\ pc = "mutator" /\ Points(x) /\ Points(y)
      /\ At(x).kind = "STRING" /\ At(y).kind = "STRING"
  BY DEF Li__Infix_4343
<1>2. Len(At(x).body) \in Nat /\ Len(At(y).body) \in Nat
  BY <1>1, Reading
<1>3. PICK args : args = Args(2)
  OBVIOUS
<1>4. /\ args \in Seq(Slot) /\ Len(args) = 2 /\ args[1] = Arg(1) /\ args[2] = Arg(2)
      /\ Arg(1) \in Slot /\ Arg(2) \in Slot
  BY <1>3, TwoArgs
<1>5. PICK pushed : pushed = Pushed(<<x, y>>)
  OBVIOUS
<1>6. /\ PushedOK(pushed, args)
      /\ Arg(1) \in DOMAIN pushed /\ pushed[Arg(1)] = words[x]
      /\ Arg(2) \in DOMAIN pushed /\ pushed[Arg(2)] = words[y]
  BY <1>1, <1>5, PushedTwo
<1>7. PICK source : source = "both"
  OBVIOUS
<1>8. PICK len : len = Len(At(x).body) + Len(At(y).body)
  OBVIOUS
<1>9. PICK c : c = Call("Li__Infix_4343", "STRING", len, source, <<>>, args, dest)
  OBVIOUS
<1>10. c \in Calls /\ c.source = source /\ c.args = args
  <2>1. len \in Nat
    <3>1. PICK m, n : m = Len(At(x).body) /\ n = Len(At(y).body)
      OBVIOUS
    <3>2. m \in Nat /\ n \in Nat
      BY <1>2, <3>1
    <3>3. len = m + n
      BY <1>8, <3>1
    <3> QED
      BY <3>2, <3>3
  <2>2. args \in Seq(Slot) /\ source \in {"copy", "both", "part"}
    BY <1>4, <1>7
  <2> QED
    BY <1>9, <2>1, <2>2, Names, ReferringCall
<1>11. Enter(c, pushed, args)
  BY <1>3, <1>5, <1>7, <1>8, <1>9 DEF Li__Infix_4343
<1>12. PICK ws : ws = words'
  OBVIOUS
<1>13. ws[Arg(1)] = words[x] /\ ws[Arg(2)] = words[y]
  BY <1>4, <1>6, <1>11, <1>12, EnterWrites
<1>14. /\ Operand(c, heap, ws, hbegin, hcurrent, 1) = shown.env[x]
       /\ Operand(c, heap, ws, hbegin, hcurrent, 2) = shown.env[y]
  <2>1. /\ Value(ws[Arg(1)], heap, hbegin, hcurrent) = shown.env[x]
        /\ Value(ws[Arg(2)], heap, hbegin, hcurrent) = shown.env[y]
    BY <1>1, <1>4, <1>13, ReadMeans
  <2> QED
    BY <1>4, <1>10, <2>1 DEF Operand
<1>15. HoldsString(x) /\ HoldsString(y)
  BY <1>1, StringShown
<1>16. Joined(c, heap, ws, hbegin, hcurrent)
  BY <1>14, <1>15 DEF Joined
<1>17. Meant(c, heap, ws, hbegin, hcurrent)
  BY <1>7, <1>10, <1>16 DEF Meant
<1> QED
  BY <1>6, <1>10, <1>11, <1>12, <1>17, EnterKeepsGraph
-----------------------------------------------------------------------------
(* A function fills its new object: the others show what they showed, and  *)
(* the new one has a name of its own.                                      *)
LEMMA Extended ==
  ASSUME Ready, call \in Calls \cup ArgCalls, Supplied(call, heap, words),
         Distinct(heap), NEW h, h = Created, NEW hi, hi = hcurrent + Request,
         NEW n, n = FreeName
  PROVE  /\ Ids(h) = Ids(heap) \cup {n} /\ n \notin Ids(heap) /\ n \in Nat
         /\ Distinct(h)
         /\ h[hcurrent].id = n /\ h[hcurrent].kind = call.kind
         /\ h[hcurrent].body = Filled
         /\ \A w \in Int : Sound(w, heap, hbegin, hcurrent) =>
              Value(w, h, hbegin, hi) = Value(w, heap, hbegin, hcurrent)
         /\ Value(Content(hcurrent), h, hbegin, hi) = <<"object", n>>
         /\ \A a \in DOMAIN heap :
              Shows(h[a], h, hbegin, hi) = Shows(heap[a], heap, hbegin, hcurrent)
<1>1. /\ HeapOK(h, hbegin, hi) /\ HeapOK(heap, hbegin, hcurrent)
      /\ DOMAIN h = DOMAIN heap \cup {hcurrent} /\ hcurrent \notin DOMAIN heap
      /\ \A a \in DOMAIN heap : h[a] = heap[a]
      /\ hbegin \in Nat \ {0}
  BY CreatedFacts, ReadyHeap
<1>2. n \in Nat /\ n \notin Ids(heap)
  BY <1>1, FreeNameType
<1>3. /\ h[hcurrent].id = n /\ h[hcurrent].kind = call.kind
      /\ h[hcurrent].body = Filled
  BY DEF Created, NewObject
<1>4. Ids(h) = Ids(heap) \cup {n}
  BY <1>1, <1>3 DEF Ids
<1>5. Distinct(h)
  <2> SUFFICES ASSUME NEW a \in DOMAIN h, NEW b \in DOMAIN h, h[a].id = h[b].id
               PROVE  a = b
    BY DEF Distinct
  <2>1. \A c \in DOMAIN heap : h[c].id # n
    BY <1>1, <1>2 DEF Ids
  <2> QED
    BY <1>1, <1>3, <2>1 DEF Distinct
<1>6. /\ Content(hcurrent) \in Int /\ 0 < Content(hcurrent)
      /\ ToData(Content(hcurrent)) = hcurrent
      /\ Sound(Content(hcurrent), h, hbegin, hi)
      /\ \A w \in Int : Sound(w, heap, hbegin, hcurrent) => Sound(w, h, hbegin, hi)
  BY <1>1, NewIsSound
<1>7. ASSUME NEW w \in Int, Sound(w, heap, hbegin, hcurrent)
      PROVE  Value(w, h, hbegin, hi) = Value(w, heap, hbegin, hcurrent)
  <2>1. Sound(w, h, hbegin, hi)
    BY <1>6, <1>7
  <2>2. /\ w <= 0 => Value(w, heap, hbegin, hcurrent) = <<"value", w>>
        /\ 0 < w => /\ ToData(w) \in DOMAIN heap
                    /\ Value(w, heap, hbegin, hcurrent) = <<"object", heap[ToData(w)].id>>
    BY <1>1, <1>7, ValueFacts
  <2>3. /\ w <= 0 => Value(w, h, hbegin, hi) = <<"value", w>>
        /\ 0 < w => Value(w, h, hbegin, hi) = <<"object", h[ToData(w)].id>>
    BY <1>1, <2>1, ValueFacts
  <2>4. w <= 0 \/ 0 < w
    BY <1>7
  <2> QED
    BY <1>1, <2>2, <2>3, <2>4
<1>8. Value(Content(hcurrent), h, hbegin, hi) = <<"object", n>>
  <2>1. PICK w : w = Content(hcurrent)
    OBVIOUS
  <2>2. Value(w, h, hbegin, hi) = <<"object", h[ToData(w)].id>>
    BY <1>1, <1>6, <2>1, ValueFacts
  <2> QED
    BY <1>3, <1>6, <2>1, <2>2
<1>9. ASSUME NEW a \in DOMAIN heap
      PROVE  Shows(h[a], h, hbegin, hi) = Shows(heap[a], heap, hbegin, hcurrent)
  <2>1. PICK o : o = heap[a]
    OBVIOUS
  <2>2. /\ o \in Object /\ h[a] = o
        /\ \A i \in FirstField(o) .. Len(o.body) : Sound(o.body[i], heap, hbegin, hcurrent)
    BY <1>1, <2>1 DEF HeapOK
  <2>3. /\ FirstField(o) \in Nat /\ Len(o.body) \in Nat
        /\ \A i \in 1 .. Len(o.body) : o.body[i] \in Int
    BY <2>2 DEF FirstField, Object
  <2>4. \A i \in 1 .. Len(o.body) :
          ~(i < FirstField(o)) =>
            Value(o.body[i], h, hbegin, hi) = Value(o.body[i], heap, hbegin, hcurrent)
    <3> SUFFICES ASSUME NEW i \in 1 .. Len(o.body), ~(i < FirstField(o))
                 PROVE  Value(o.body[i], h, hbegin, hi)
                          = Value(o.body[i], heap, hbegin, hcurrent)
      OBVIOUS
    <3>1. i \in FirstField(o) .. Len(o.body)
      BY <2>3
    <3> QED
      BY <1>7, <2>2, <2>3, <3>1
  <2>5. Shows(o, h, hbegin, hi) = Shows(o, heap, hbegin, hcurrent)
    BY <2>4 DEF Shows
  <2> QED
    BY <2>1, <2>2, <2>5
<1> QED
  BY <1>2, <1>3, <1>4, <1>5, <1>7, <1>8, <1>9

(* An allocation adds one object, under a name of its own, and changes no  *)
(* other.                                                                  *)
LEMMA NewObjects ==
  ASSUME Ready, call \in Calls \cup ArgCalls, Supplied(call, heap, words),
         Distinct(heap), NEW h, h = Created, NEW hi, hi = hcurrent + Request,
         NEW n, n = FreeName, NEW ws, Meaningful(h, ws, hbegin, hi),
         NEW all, all = Objects(h, hbegin, hi)
  PROVE  /\ DOMAIN all = Ids(heap) \cup {n}
         /\ all[n] = Shows(h[hcurrent], h, hbegin, hi)
         /\ \A m \in Ids(heap) : all[m] = Objects(heap, hbegin, hcurrent)[m]
<1>1. /\ Ids(h) = Ids(heap) \cup {n}
      /\ h[hcurrent].id = n
      /\ \A a \in DOMAIN heap :
           Shows(h[a], h, hbegin, hi) = Shows(heap[a], heap, hbegin, hcurrent)
  BY Extended
<1>2. /\ DOMAIN all = Ids(h)
      /\ \A a \in DOMAIN h : all[h[a].id] = Shows(h[a], h, hbegin, hi)
  BY ObjectsFacts
<1>3. /\ DOMAIN h = DOMAIN heap \cup {hcurrent}
      /\ \A a \in DOMAIN heap : h[a] = heap[a]
  BY CreatedFacts
<1>4. \A a \in DOMAIN heap :
        Objects(heap, hbegin, hcurrent)[heap[a].id] = Shows(heap[a], heap, hbegin, hcurrent)
  BY ReadyIsMeaningful, ObjectsFacts
<1>5. \A m \in Ids(heap) : all[m] = Objects(heap, hbegin, hcurrent)[m]
  BY <1>1, <1>2, <1>3, <1>4 DEF Ids
<1> QED
  BY <1>1, <1>2, <1>3, <1>5

(* A call returns: the graph has one object more.                          *)
LEMMA ReturnFacts ==
  ASSUME RuntimeIInv, GraphIInv, Return
  PROVE  /\ Ready /\ call \in Calls /\ Supplied(call, heap, words)
         /\ Agreed(heap, words, hbegin, hcurrent) /\ Distinct(heap)
         /\ Meant(call, heap, words, hbegin, hcurrent)
         /\ NamesLeft(heap, todo.calls + 1)
<1>1. pc \in {"call", "compacted"} /\ call.fn # "set_args"
  BY DEF Return
<1>2. Ready /\ Supplied(call, heap, words) /\ CallTyped
  BY <1>1, InTheCall
<1>3. CallAgreed(heap, words, hbegin, hcurrent)
  BY <1>1 DEF GraphIInv
<1> QED
  BY <1>1, <1>2, <1>3 DEF CallAgreed, CallTyped, Agreed, Meaningful

(* A call that returns has the graph make the object that shows in the     *)
(* heap.                                                                   *)
LEMMA ReturnMakes ==
  ASSUME RuntimeIInv, GraphIInv, Return, RuntimeIInv',
         NEW h, h = heap', NEW hi, hi = hcurrent',
         NEW b, b = Shows(h[hcurrent], h, hbegin, hi).body,
         graph!Named(b) \subseteq DOMAIN shown.store
  PROVE  GraphIInv' /\ graph!Make(call.dest, call.kind, b)
<1>1. /\ call.fn # "set_args" /\ h = Created /\ hi = hcurrent + Request
      /\ words' = [s \in Slot |->
                     CASE s = call.dest -> Content(hcurrent)
                       [] s \in StackTop - MaxArgs .. StackTop + MaxArgs -> Nil
                       [] OTHER -> words[s]]
      /\ pc' = "mutator" /\ UNCHANGED <<hbegin, todo>>
      /\ shown' = Sees(heap', words', hbegin', hcurrent')
  BY DEF Return
<1>2. PICK ws : ws = words'
  OBVIOUS
<1>3. /\ Ready /\ call \in Calls /\ Supplied(call, heap, words)
      /\ Agreed(heap, words, hbegin, hcurrent) /\ Distinct(heap)
      /\ NamesLeft(heap, todo.calls + 1)
  BY ReturnFacts
<1>4. PICK n : n = FreeName
  OBVIOUS
<1>5. call \in Calls \cup ArgCalls /\ call.dest \in Assignable
  BY <1>3 DEF Calls
<1>6. /\ Ids(h) = Ids(heap) \cup {n} /\ n \notin Ids(heap) /\ n \in Nat
      /\ Distinct(h) /\ h[hcurrent].kind = call.kind
      /\ \A w \in Int : Sound(w, heap, hbegin, hcurrent) =>
           Value(w, h, hbegin, hi) = Value(w, heap, hbegin, hcurrent)
      /\ Value(Content(hcurrent), h, hbegin, hi) = <<"object", n>>
  BY <1>1, <1>3, <1>4, <1>5, Extended
<1>7. Meaningful(h, ws, hbegin, hi)
  <2>1. Ready' /\ Distinct(heap)'
    BY <1>1, <1>6 DEF RuntimeIInv, Distinct
  <2>2. Meaningful(heap, words, hbegin, hcurrent)'
    BY <2>1, MeaningfulAfter
  <2> QED
    BY <1>1, <1>2, <2>2 DEF Meaningful
<1>8. PICK all, was : /\ all = Objects(h, hbegin, hi)
                      /\ was = Objects(heap, hbegin, hcurrent)
  OBVIOUS
<1>9. /\ DOMAIN all = Ids(heap) \cup {n}
      /\ all[n] = Shows(h[hcurrent], h, hbegin, hi)
      /\ \A m \in Ids(heap) : all[m] = was[m]
  BY <1>1, <1>3, <1>4, <1>5, <1>7, <1>8, NewObjects
<1>10. PICK g, st, e : g = shown /\ st = g.store /\ e = g.env
  OBVIOUS
<1>11. /\ e = Variables(heap, words, hbegin, hcurrent)
       /\ st = [m \in DOMAIN st |-> was[m]] /\ DOMAIN st \subseteq Ids(heap)
       /\ graph!Held(e) \subseteq DOMAIN st /\ RefersWithin(st, DOMAIN st)
  <2>1. /\ Meaningful(heap, words, hbegin, hcurrent)
        /\ g = Sees(heap, words, hbegin, hcurrent)
    BY <1>3, <1>10 DEF Agreed
  <2> QED
    BY <1>8, <1>10, <2>1, SeesFacts
<1>12. PICK e2 : e2 = Variables(h, ws, hbegin, hi)
  OBVIOUS
<1>13. e2 = [e EXCEPT ![call.dest] = <<"object", n>>]
  <2>1. ASSUME NEW x \in Var, x # call.dest
        PROVE  Value(ws[x], h, hbegin, hi) = Value(words[x], heap, hbegin, hcurrent)
    <3>1. x \in Slot /\ x \notin StackTop - MaxArgs .. StackTop + MaxArgs
      BY Layout DEF Var
    <3>2. ws[x] = words[x]
      BY <1>1, <1>2, <2>1, <3>1
    <3>3. words[x] \in Int /\ Sound(words[x], heap, hbegin, hcurrent)
      BY <1>3, <3>1 DEF Agreed, Meaningful
    <3> QED
      BY <1>6, <3>2, <3>3
  <2>2. call.dest \in Var /\ call.dest \in Slot
    BY <1>5, Layout DEF Var
  <2>3. Value(ws[call.dest], h, hbegin, hi) = <<"object", n>>
    <3>1. PICK d, w : d = call.dest /\ w = Content(hcurrent)
      OBVIOUS
    <3>2. ws[d] = w
      <4>1. d \notin StackTop - MaxArgs .. StackTop + MaxArgs
        BY <1>5, <3>1, Layout
      <4> QED
        BY <1>1, <1>2, <2>2, <3>1, <4>1
    <3>3. Value(w, h, hbegin, hi) = <<"object", n>>
      BY <1>6, <3>1
    <3> QED
      BY <3>1, <3>2, <3>3
  <2> QED
    BY <1>11, <1>12, <2>1, <2>2, <2>3 DEF Variables
<1>14. PICK L, s2 : /\ L = DOMAIN st \cup {n}
                    /\ s2 = [m \in L |-> IF m = n THEN [kind |-> call.kind, body |-> b]
                                         ELSE st[m]]
  OBVIOUS
<1>15. all[n] = [kind |-> call.kind, body |-> b]
  BY <1>6, <1>9 DEF Shows
<1>16. L \in SUBSET Ids(h) /\ s2 = [m \in L |-> all[m]]
  BY <1>6, <1>9, <1>11, <1>14, <1>15
<1>17. graph!Held(e2) \subseteq L
  <2> SUFFICES ASSUME NEW x \in Var, graph!IsObject(e2[x])
               PROVE  graph!ObjectOf(e2[x]) \in L
    BY DEF graph!Held
  <2>1. DOMAIN e = Var
    BY <1>11 DEF Variables
  <2>2. CASE x = call.dest
    BY <1>13, <1>14, <2>1, <2>2, Tagged
  <2>3. CASE x # call.dest
    BY <1>11, <1>13, <1>14, <2>1, <2>3 DEF graph!Held
  <2> QED
    BY <2>2, <2>3
<1>18. RefersWithin(s2, L)
  <2> SUFFICES ASSUME NEW m \in L PROVE graph!Named(s2[m].body) \subseteq L
    BY DEF RefersWithin
  <2>1. CASE m = n
    BY <1>10, <1>14, <2>1
  <2>2. CASE m # n
    BY <1>11, <1>14, <2>2 DEF RefersWithin
  <2> QED
    BY <2>1, <2>2
<1>19. Sees(h, ws, hbegin, hi) = [store |-> graph!Kept(s2, e2), env |-> e2]
  BY <1>7, <1>8, <1>12, <1>16, <1>17, <1>18, Becoming
<1>20. /\ shown' = Sees(h, ws, hbegin, hi)
       /\ shown'.store = graph!Kept(s2, e2) /\ shown'.env = e2
  <2>1. heap' = h /\ words' = ws /\ hbegin' = hbegin /\ hcurrent' = hi
    BY <1>1, <1>2
  <2>2. shown' = Sees(heap', words', hbegin', hcurrent')
    BY <1>1
  <2>3. shown' = Sees(h, ws, hbegin, hi)
    BY <2>1, <2>2
  <2>4. PICK k : k = graph!Kept(s2, e2)
    OBVIOUS
  <2>5. shown' = [store |-> k, env |-> e2]
    BY <1>19, <2>3, <2>4
  <2> QED
    BY <2>3, <2>4, <2>5
<1>21. n \in 0 .. MaxName
  <2>1. n <= MaxName
    <3>1. PICK k : k = todo.calls + 1
      OBVIOUS
    <3>2. k \in Nat \ {0} /\ k <= MaxName /\ \A a \in DOMAIN heap : heap[a].id + k <= MaxName
      BY <1>3, <3>1 DEF NamesLeft, RuntimeIInv, Setting
    <3>3. MaxName \in Nat
      BY ProgramAssumption
    <3>4. CASE n = 0
      BY <3>3, <3>4
    <3>5. CASE n # 0
      <4>1. n - 1 \in Nat /\ n - 1 < n
        BY <1>6, <3>5
      <4>2. n - 1 \in Ids(heap)
        BY <1>3, <1>4, <4>1, FreeNameType, ReadyHeap
      <4>3. PICK a \in DOMAIN heap : heap[a].id = n - 1
        BY <4>2 DEF Ids
      <4> QED
        BY <1>6, <3>2, <3>3, <4>3
    <3> QED
      BY <3>4, <3>5
  <2> QED
    BY <1>6, <2>1, ProgramAssumption
<1>22. graph!Make(call.dest, call.kind, b)
  <2>1. n \in (0 .. MaxName) \ DOMAIN st
    BY <1>6, <1>11, <1>21
  <2>2. /\ shown'.env = [e EXCEPT ![call.dest] = <<"object", n>>]
        /\ shown'.store = graph!Kept(s2, [e EXCEPT ![call.dest] = <<"object", n>>])
    BY <1>13, <1>20
  <2> QED
    BY <1>10, <1>14, <2>1, <2>2 DEF graph!Make, graph!Become
<1>23. NamesLeft(h, todo.calls)
  <2>1. PICK k, j : k = todo.calls + 1 /\ j = todo.calls
    OBVIOUS
  <2>2. /\ j \in Nat /\ k = j + 1 /\ MaxName \in Nat
        /\ k <= MaxName /\ \A a \in DOMAIN heap : heap[a].id + k <= MaxName
        /\ \A a \in DOMAIN heap : heap[a].id \in Nat
    BY <1>3, <2>1, ProgramAssumption
    DEF NamesLeft, RuntimeIInv, Setting, Agreed, Meaningful, Object
  <2>3. ASSUME NEW a \in DOMAIN h PROVE h[a].id + j <= MaxName
    <3>1. h[a].id \in Ids(heap) \cup {n}
      BY <1>6 DEF Ids
    <3>2. CASE h[a].id \in Ids(heap)
      <4>1. PICK c \in DOMAIN heap : heap[c].id = h[a].id
        BY <3>2 DEF Ids
      <4> QED
        BY <2>2, <4>1
    <3>3. CASE h[a].id = n /\ n = 0
      BY <2>2, <3>3
    <3>4. CASE h[a].id = n /\ n # 0
      <4>1. n - 1 \in Nat /\ n - 1 < n
        BY <1>6, <3>4
      <4>2. n - 1 \in Ids(heap)
        BY <1>3, <1>4, <4>1, FreeNameType, ReadyHeap
      <4>3. PICK c \in DOMAIN heap : heap[c].id = n - 1
        BY <4>2 DEF Ids
      <4> QED
        BY <1>6, <2>2, <3>4, <4>3
    <3> QED
      BY <3>1, <3>2, <3>3, <3>4
  <2>4. j <= MaxName
    BY <2>2
  <2> QED
    BY <2>1, <2>3, <2>4 DEF NamesLeft
<1>24. Agreed(h, ws, hbegin, hi)'
  BY <1>1, <1>7, <1>20 DEF Agreed
<1>25. Agreed(heap, words, hbegin, hcurrent)' /\ NamesLeft(heap, todo.calls)'
  BY <1>1, <1>2, <1>23, <1>24
<1> QED
  BY <1>1, <1>22, <1>25 DEF GraphIInv, MarkPC, CompactPC, Collecting

(* What the new object shows.                                              *)
LEMMA SequenceOf ==
  ASSUME NEW k \in Nat, NEW F, NEW S, \A i \in 1 .. k : F[i] \in S,
         NEW s, s = [i \in 1 .. k |-> F[i]]
  PROVE  s \in Seq(S) /\ Len(s) = k
OBVIOUS

Long(s, n) == s = [i \in 1 .. n |-> s[i]]

After(b, p, m, q, n) ==
  (\A i \in 1 .. m : b[i] = p[i]) /\ (\A i \in 1 .. n : b[m + i] = q[i])

(* A sequence that begins with p and goes on with q is their               *)
(* concatenation.                                                          *)
LEMMA Pasted ==
  ASSUME NEW m \in Nat, NEW n \in Nat, NEW p, Long(p, m), NEW q, Long(q, n),
         NEW len, len = m + n, NEW b, Long(b, len), After(b, p, m, q, n)
  PROVE  b = p \o q
<1>0. PICK P, Q : P = p /\ Q = q
  OBVIOUS
<1>1. PICK S : S = {P[i] : i \in 1 .. m} \cup {Q[i] : i \in 1 .. n}
  OBVIOUS
<1>2. (\A i \in 1 .. m : P[i] \in S) /\ (\A i \in 1 .. n : Q[i] \in S)
  BY <1>1
<1>3. /\ p \in Seq(S) /\ Len(p) = m
      /\ q \in Seq(S) /\ Len(q) = n
  <2>1. p = [i \in 1 .. m |-> P[i]] /\ q = [i \in 1 .. n |-> Q[i]]
    BY <1>0 DEF Long
  <2> QED
    BY <1>2, <2>1, SequenceOf
<1>4. PICK r : r = p \o q
  OBVIOUS
<1>5. /\ r \in Seq(S) /\ Len(r) = m + n
      /\ \A i \in 1 .. m : r[i] = p[i]
      /\ \A i \in 1 .. n : r[m + i] = q[i]
  <2>1. p \in Seq(S) /\ q \in Seq(S)
    BY <1>3
  <2>2. /\ r \in Seq(S) /\ Len(r) = Len(p) + Len(q)
        /\ \A i \in 1 .. Len(p) : r[i] = p[i]
        /\ \A i \in 1 .. Len(q) : r[Len(p) + i] = q[i]
    BY <1>4, <2>1, Concatenation
  <2> QED
    BY <1>3, <2>2
<1>6. ASSUME NEW i \in 1 .. m + n PROVE b[i] = r[i]
  <2>1. CASE i \in 1 .. m
    BY <1>5, <2>1 DEF After
  <2>2. CASE i \notin 1 .. m
    <3>1. PICK j : j = i - m
      OBVIOUS
    <3>2. j \in 1 .. n /\ i = m + j
      BY <2>2, <3>1
    <3> QED
      BY <1>5, <3>2 DEF After
  <2> QED
    BY <2>1, <2>2
<1>7. r = [i \in 1 .. m + n |-> r[i]]
  BY <1>5
<1>8. b = [i \in 1 .. m + n |-> b[i]]
  BY DEF Long
<1> QED
  BY <1>4, <1>6, <1>7, <1>8

Displays(b, f, k) ==
  /\ f \in Seq(Int) /\ b = [i \in 1 .. Len(f) |-> b[i]]
  /\ k = "STRING" => \A i \in 1 .. Len(f) : b[i] = <<"value", f[i]>>
  /\ k = "ARRAY" => \A i \in 1 .. Len(f) : b[i] = Value(f[i], heap, hbegin, hcurrent)
  /\ k \in {"SEXP", "CLOSURE"} =>
       /\ 1 \in 1 .. Len(f) => b[1] = <<"value", f[1]>>
       /\ \A i \in 2 .. Len(f) : b[i] = Value(f[i], heap, hbegin, hcurrent)

(* The object alloc returned shows the words the call has filled in.       *)
LEMMA NewShows ==
  ASSUME Ready, call \in Calls \cup ArgCalls, Supplied(call, heap, words),
         Distinct(heap), NEW h, h = Created, NEW hi, hi = hcurrent + Request,
         NEW f, f = Filled, NEW b, b = Shows(h[hcurrent], h, hbegin, hi).body
  PROVE  Displays(b, f, call.kind) /\ Len(f) = call.len
<1>0. PICK len : len = call.len
  OBVIOUS
<1>1. PICK o : o = h[hcurrent]
  OBVIOUS
<1>2. /\ o.kind = call.kind /\ o.body = f
      /\ \A w \in Int : Sound(w, heap, hbegin, hcurrent) =>
           Value(w, h, hbegin, hi) = Value(w, heap, hbegin, hcurrent)
  <2>1. PICK n : n = FreeName
    OBVIOUS
  <2> QED
    BY <1>1, <2>1, Extended
<1>3. /\ f \in Seq(Int) /\ Len(f) = len
      /\ call.kind = "ARRAY" =>
           \A i \in 1 .. Len(f) : Sound(f[i], heap, hbegin, hcurrent)
      /\ call.kind \in {"SEXP", "CLOSURE"} =>
           \A i \in 2 .. Len(f) : Sound(f[i], heap, hbegin, hcurrent)
  BY <1>0, FilledFacts
<1>4. len \in Nat /\ \A i \in 1 .. len : f[i] \in Int
  BY <1>3
<1>5. PICK first : first = FirstField(o)
  OBVIOUS
<1>6. b = [i \in 1 .. len |-> IF i < first THEN <<"value", f[i]>>
                              ELSE Value(f[i], h, hbegin, hi)]
  BY <1>1, <1>2, <1>3, <1>5 DEF Shows
<1>7. /\ call.kind = "STRING" => first = len + 1
      /\ call.kind = "ARRAY" => first = 1
      /\ call.kind \in {"SEXP", "CLOSURE"} => first = 2
  BY <1>2, <1>3, <1>5 DEF FirstField
<1>8. call.kind = "STRING" => \A i \in 1 .. len : b[i] = <<"value", f[i]>>
  BY <1>4, <1>6, <1>7
<1>9. ASSUME call.kind = "ARRAY", NEW i \in 1 .. len
      PROVE  b[i] = Value(f[i], heap, hbegin, hcurrent)
  <2>1. ~(i < first)
    BY <1>4, <1>7, <1>9
  <2>2. b[i] = Value(f[i], h, hbegin, hi)
    BY <1>6, <2>1
  <2> QED
    BY <1>2, <1>3, <1>4, <1>9, <2>2
<1>10. ASSUME call.kind \in {"SEXP", "CLOSURE"}, 1 \in 1 .. len
       PROVE  b[1] = <<"value", f[1]>>
  <2>1. first = 2 /\ 1 < 2
    BY <1>7, <1>10
  <2>2. 1 < first
    BY <2>1
  <2> QED
    BY <1>6, <1>10, <2>2
<1>11. ASSUME call.kind \in {"SEXP", "CLOSURE"}, NEW i \in 2 .. len
       PROVE  b[i] = Value(f[i], heap, hbegin, hcurrent)
  <2>1. ~(i < first) /\ i \in 1 .. len
    BY <1>4, <1>7, <1>11
  <2>2. b[i] = Value(f[i], h, hbegin, hi)
    BY <1>6, <2>1
  <2> QED
    BY <1>2, <1>3, <1>4, <1>11, <2>1, <2>2
<1>12. b = [i \in 1 .. len |-> b[i]]
  BY <1>6
<1> QED
  BY <1>0, <1>3, <1>8, <1>9, <1>10, <1>11, <1>12 DEF Displays

(* The program's view, at rest, is part of the heap's objects and closed.  *)
LEMMA ShownFacts ==
  ASSUME Agreed(heap, words, hbegin, hcurrent), NEW g, g = shown
  PROVE  /\ g.env = Variables(heap, words, hbegin, hcurrent)
         /\ g.store = [n \in DOMAIN g.store |-> Objects(heap, hbegin, hcurrent)[n]]
         /\ DOMAIN g.store \subseteq Ids(heap)
         /\ graph!Held(g.env) \subseteq DOMAIN g.store
         /\ RefersWithin(g.store, DOMAIN g.store)
<1>1. /\ Meaningful(heap, words, hbegin, hcurrent)
      /\ g = Sees(heap, words, hbegin, hcurrent)
  BY DEF Agreed
<1> QED
  BY <1>1, SeesFacts

(* ... and the ones it is made of.                                         *)
LEMMA SourceShown ==
  ASSUME RuntimeIInv, GraphIInv, Return, call.source # "words",
         NEW i \in 1 .. Len(call.args), NEW o, o = Source(call, heap, words, i),
         NEW y \in Var, NEW g, g = shown,
         Operand(call, heap, words, hbegin, hcurrent, i) = g.env[y]
  PROVE  /\ graph!IsObject(g.env[y]) /\ graph!ObjectOf(g.env[y]) = o.id
         /\ o.id \in DOMAIN g.store
         /\ g.store[o.id] = Shows(o, heap, hbegin, hcurrent)
         /\ BodyOf(call.args[i]) = o.body
         /\ o.body \in Seq(Int)
<1>1. /\ Ready /\ call \in Calls /\ Supplied(call, heap, words)
      /\ Agreed(heap, words, hbegin, hcurrent)
      /\ Meaningful(heap, words, hbegin, hcurrent)
  BY ReturnFacts DEF Agreed
<1>2. PICK s, w : s = call.args[i] /\ w = words[s]
  OBVIOUS
<1>3. s \in Slot
  <2>1. call.args \in Seq(Slot)
    BY <1>1 DEF Calls
  <2> QED
    BY <1>2, <2>1
<1>4. w \in Int /\ Sound(w, heap, hbegin, hcurrent) /\ 0 < w /\ hbegin \in Nat \ {0}
  <2>1. 0 < w
    BY <1>1, <1>2 DEF Supplied
  <2> QED
    BY <1>1, <1>2, <1>3, <2>1 DEF Meaningful
<1>5. /\ ToData(w) \in DOMAIN heap /\ o = heap[ToData(w)]
      /\ Value(w, heap, hbegin, hcurrent) = <<"object", o.id>>
  BY <1>2, <1>4, ValueFacts DEF Source
<1>6. g.env[y] = <<"object", o.id>>
  BY <1>2, <1>5 DEF Operand
<1>7. graph!IsObject(g.env[y]) /\ graph!ObjectOf(g.env[y]) = o.id
  BY <1>6, Tagged
<1>8. PICK all : all = Objects(heap, hbegin, hcurrent)
  OBVIOUS
<1>9. /\ g.store = [n \in DOMAIN g.store |-> all[n]]
      /\ graph!Held(g.env) \subseteq DOMAIN g.store
  BY <1>1, <1>8, ShownFacts
<1>10. o.id \in DOMAIN g.store
  BY <1>7, <1>9 DEF graph!Held
<1>11. all[o.id] = Shows(o, heap, hbegin, hcurrent)
  BY <1>1, <1>5, <1>8, ObjectsFacts
<1>12. g.store[o.id] = all[o.id]
  BY <1>9, <1>10
<1>13. BodyOf(call.args[i]) = o.body /\ o.body \in Seq(Int)
  <2>1. o \in Object
    BY <1>1, <1>5 DEF Meaningful
  <2> QED
    BY <1>2, <1>5, <2>1 DEF BodyOf, Object
<1> QED
  BY <1>7, <1>10, <1>11, <1>12, <1>13

(* A function that has constructed its object ...                          *)
LEMMA NamedIn ==
  ASSUME NEW b, NEW D,
         \A i \in DOMAIN b : graph!IsObject(b[i]) => graph!ObjectOf(b[i]) \in D
  PROVE  graph!Named(b) \subseteq D
BY DEF graph!Named

SplitAt(m, n, len) ==
  /\ \A i \in 1 .. m : i \in 1 .. len /\ (m = 1 => i = 1)
  /\ \A i \in 1 .. n : m + i \in 1 .. len /\ (m = 1 => m + i \in 2 .. len)
  /\ \A i \in 1 .. len : i \in 1 .. m \/ \E j \in 1 .. n : i = m + j

(* The indices of a sequence of m words, then n.                           *)
LEMMA Places ==
  ASSUME NEW m \in Nat, NEW n \in Nat, NEW len, len = m + n
  PROVE  SplitAt(m, n, len)
<1>1. ASSUME NEW i \in 1 .. len, i \notin 1 .. m PROVE \E j \in 1 .. n : i = m + j
  <2>1. i - m \in 1 .. n /\ i = m + (i - m)
    BY <1>1
  <2> QED
    BY <2>1
<1> QED
  BY <1>1 DEF SplitAt

(* The new object shows the raw words, then what the operands mean.        *)
MadeBody(b, m, n) ==
  /\ m \in Nat /\ n \in Nat /\ b = [i \in 1 .. m + n |-> b[i]]
  /\ \A i \in 1 .. m : b[i] = <<"value", call.raw[i]>>
  /\ \A i \in 1 .. n : b[m + i] = Operand(call, heap, words, hbegin, hcurrent, i)

(* So it does in a call that makes it of words.                            *)
LEMMA BuiltBody ==
  ASSUME RuntimeIInv, GraphIInv, Return, call.source = "words",
         NEW b, Displays(b, Filled, call.kind),
         NEW m, m = Len(call.raw), NEW n, n = Len(call.args)
  PROVE  MadeBody(b, m, n)
<1>1. /\ Ready /\ call \in Calls /\ Supplied(call, heap, words)
      /\ Agreed(heap, words, hbegin, hcurrent) /\ Distinct(heap)
  BY ReturnFacts
<1>2. PICK p, q : p = call.raw /\ q = [i \in 1 .. n |-> words[call.args[i]]]
  OBVIOUS
<1>3. /\ call.raw \in Seq(Int) /\ call.args \in Seq(Slot) /\ call.kind \in Kind
      /\ call.len \in Nat
  BY <1>1 DEF Calls
<1>4. n \in Nat /\ \A i \in 1 .. n : call.args[i] \in Slot
  BY <1>3
<1>5. \A i \in 1 .. n : words[call.args[i]] \in Int
  BY <1>1, <1>4 DEF Agreed, Meaningful
<1>6. p \in Seq(Int) /\ Len(p) = m /\ q \in Seq(Int) /\ Len(q) = n /\ m \in Nat
  <2>1. p \in Seq(Int) /\ Len(p) = m
    BY <1>2, <1>3
  <2>2. m \in Nat
    BY <2>1
  <2>3. q \in Seq(Int) /\ Len(q) = n
    BY <1>2, <1>4, <1>5
  <2> QED
    BY <2>1, <2>2, <2>3
<1>7. PICK f, len : f = Filled /\ len = m + n
  OBVIOUS
<1>8. f = p \o q
  BY <1>2, <1>7 DEF Filled
<1>9. /\ \A i \in 1 .. m : f[i] = p[i]
      /\ \A i \in 1 .. n : f[m + i] = q[i]
      /\ Len(f) = len
  <2>1. p \in Seq(Int) /\ q \in Seq(Int)
    BY <1>6
  <2>2. /\ Len(p \o q) = Len(p) + Len(q)
        /\ \A i \in 1 .. Len(p) : (p \o q)[i] = p[i]
        /\ \A i \in 1 .. Len(q) : (p \o q)[Len(p) + i] = q[i]
    BY <2>1, Concatenation
  <2> QED
    BY <1>6, <1>7, <1>8, <2>2
<1>10. /\ call.kind = "ARRAY" => \A i \in 1 .. m : p[i] <= 0
       /\ call.kind \in {"SEXP", "CLOSURE"} => m = 1
       /\ call.kind = "STRING" => n = 0
  BY <1>1, <1>2, <1>6 DEF Supplied, FromWords, RawWordsOK
<1>11. /\ b = [i \in 1 .. len |-> b[i]]
       /\ call.kind = "STRING" => \A i \in 1 .. len : b[i] = <<"value", f[i]>>
       /\ call.kind = "ARRAY" =>
            \A i \in 1 .. len : b[i] = Value(f[i], heap, hbegin, hcurrent)
       /\ call.kind \in {"SEXP", "CLOSURE"} =>
            /\ 1 \in 1 .. len => b[1] = <<"value", f[1]>>
            /\ \A i \in 2 .. len : b[i] = Value(f[i], heap, hbegin, hcurrent)
  BY <1>7, <1>9 DEF Displays
<1>12. /\ \A i \in 1 .. m : i \in 1 .. len /\ (m = 1 => i = 1)
       /\ \A i \in 1 .. n : m + i \in 1 .. len /\ (m = 1 => m + i \in 2 .. len)
  <2>1. SplitAt(m, n, len)
    BY <1>4, <1>6, <1>7, Places
  <2> QED
    BY <2>1 DEF SplitAt
<1>13. ASSUME NEW i \in 1 .. m PROVE b[i] = <<"value", p[i]>>
  <2>1. i \in 1 .. len /\ f[i] = p[i] /\ p[i] \in Int
    BY <1>6, <1>9, <1>12
  <2>2. CASE call.kind = "STRING"
    BY <1>11, <2>1, <2>2
  <2>3. CASE call.kind = "ARRAY"
    <3>1. p[i] <= 0
      BY <1>10, <2>3
    <3>2. PICK w : w = p[i]
      OBVIOUS
    <3>3. w \in Int /\ hbegin \in Nat \ {0} /\ w <= 0
      BY <1>1, <2>1, <3>1, <3>2 DEF Agreed, Meaningful
    <3>4. Value(w, heap, hbegin, hcurrent) = <<"value", w>>
      BY <3>3, NoPointer
    <3> QED
      BY <1>11, <2>1, <2>3, <3>2, <3>4
  <2>4. CASE call.kind \in {"SEXP", "CLOSURE"}
    <3>1. i = 1
      BY <1>10, <1>12, <2>4
    <3> QED
      BY <1>11, <2>1, <2>4, <3>1
  <2> QED
    BY <1>3, <2>2, <2>3, <2>4 DEF Kind
<1>14. ASSUME NEW i \in 1 .. n
       PROVE  b[m + i] = Value(q[i], heap, hbegin, hcurrent)
  <2>1. m + i \in 1 .. len /\ f[m + i] = q[i]
    BY <1>9, <1>12
  <2>2. CASE call.kind = "STRING"
    BY <1>10, <2>2
  <2>3. CASE call.kind = "ARRAY"
    BY <1>11, <2>1, <2>3
  <2>4. CASE call.kind \in {"SEXP", "CLOSURE"}
    <3>1. m + i \in 2 .. len
      BY <1>10, <1>12, <2>4
    <3> QED
      BY <1>11, <2>1, <2>4, <3>1
  <2> QED
    BY <1>3, <2>2, <2>3, <2>4 DEF Kind
<1>15. \A i \in 1 .. n : q[i] = words[call.args[i]]
  BY <1>2
<1> QED
  <2>1. \A i \in 1 .. n : b[m + i] = Operand(call, heap, words, hbegin, hcurrent, i)
    BY <1>14, <1>15 DEF Operand
  <2>2. \A i \in 1 .. m : b[i] = <<"value", call.raw[i]>>
    BY <1>2, <1>13
  <2> QED
    BY <1>4, <1>6, <1>7, <1>11, <2>1, <2>2 DEF MadeBody

(* The body that is returned.                                              *)
LEMMA ReturnShows ==
  ASSUME RuntimeIInv, GraphIInv, Return, NEW h, h = heap', NEW hi, hi = hcurrent',
         NEW b, b = Shows(h[hcurrent], h, hbegin, hi).body
  PROVE  Displays(b, Filled, call.kind) /\ Len(Filled) = call.len
<1>1. /\ Ready /\ call \in Calls /\ Supplied(call, heap, words) /\ Distinct(heap)
  BY ReturnFacts
<1>2. call \in Calls \cup ArgCalls
  BY <1>1
<1>3. h = Created /\ hi = hcurrent + Request
  BY DEF Return
<1>4. PICK f : f = Filled
  OBVIOUS
<1> QED
  BY <1>1, <1>2, <1>3, <1>4, NewShows

(* The return of a constructor with operands is the graph's step.          *)
LEMMA ReturnBuilt ==
  ASSUME RuntimeIInv, GraphIInv, Return, RuntimeIInv', call.source = "words",
         Built(call, heap, words, hbegin, hcurrent)
  PROVE  GraphIInv' /\ graph!GraphNext
<1>1. PICK head \in Heads, ops \in Operands :
        /\ head[1] = call.kind /\ MadeOf(call, head[2])
        /\ Len(ops) = Len(call.args)
        /\ \A i \in 1 .. Len(ops) :
             Operand(call, heap, words, hbegin, hcurrent, i) = shown.env[ops[i]]
  BY DEF Built
<1>2. PICK h, hi : h = heap' /\ hi = hcurrent'
  OBVIOUS
<1>3. PICK b, m, n : /\ b = Shows(h[hcurrent], h, hbegin, hi).body
                     /\ m = Len(call.raw) /\ n = Len(call.args)
  OBVIOUS
<1>4. /\ b = Shows(h[hcurrent], h, hbegin, hi).body /\ Displays(b, Filled, call.kind)
      /\ m = Len(call.raw) /\ n = Len(call.args)
  BY <1>2, <1>3, ReturnShows
<1>5. /\ m \in Nat /\ n \in Nat /\ b = [i \in 1 .. m + n |-> b[i]]
      /\ \A i \in 1 .. m : b[i] = <<"value", call.raw[i]>>
      /\ \A i \in 1 .. n : b[m + i] = Operand(call, heap, words, hbegin, hcurrent, i)
  <2>1. MadeBody(b, m, n)
    BY <1>4, BuiltBody
  <2> QED
    BY <2>1 DEF MadeBody
<1>6. PICK g, e, p : g = shown /\ e = g.env /\ p = head[2]
  OBVIOUS
<1>7. p = [i \in 1 .. m |-> p[i]]
  <2>1. Len(p) = m
    BY <1>1, <1>4, <1>6 DEF MadeOf
  <2>2. p = <<>> \/ p = <<<<"value", RawWord>>>>
    BY <1>6 DEF Heads
  <2>3. PICK v, S : v = <<"value", RawWord>> /\ S = {v}
    OBVIOUS
  <2>4. p \in Seq(S)
    <3>1. v \in S /\ (p = <<>> \/ p = <<v>>)
      BY <2>2, <2>3
    <3>2. <<>> \in Seq(S)
      OBVIOUS
    <3>3. <<v>> \in Seq(S)
      BY <3>1
    <3> QED
      BY <3>1, <3>2, <3>3
  <2> QED
    BY <2>1, <2>4
<1>8. \A i \in 1 .. m : b[i] = p[i]
  BY <1>1, <1>4, <1>5, <1>6 DEF MadeOf
<1>9. PICK q : q = [i \in 1 .. n |-> e[ops[i]]]
  OBVIOUS
<1>10. ASSUME NEW i \in 1 .. n PROVE b[m + i] = q[i]
  <2>1. b[m + i] = Operand(call, heap, words, hbegin, hcurrent, i)
    BY <1>5
  <2>2. Operand(call, heap, words, hbegin, hcurrent, i) = e[ops[i]]
    BY <1>1, <1>4, <1>6
  <2> QED
    BY <1>9, <2>1, <2>2
<1>11. b = p \o q
  <2>1. PICK len : len = m + n
    OBVIOUS
  <2>2. Long(p, m) /\ Long(q, n) /\ Long(b, len)
    BY <1>5, <1>7, <1>9, <2>1 DEF Long
  <2>3. m \in Nat /\ n \in Nat
    BY <1>5
  <2> QED
    <3>1. After(b, p, m, q, n)
      BY <1>8, <1>10 DEF After
    <3> QED
      BY <2>1, <2>2, <2>3, <3>1, Pasted
<1>12. graph!Named(b) \subseteq DOMAIN g.store
  <2>1. graph!Held(e) \subseteq DOMAIN g.store
    <3>1. Agreed(heap, words, hbegin, hcurrent)
      BY ReturnFacts
    <3> QED
      BY <1>6, <3>1, ShownFacts
  <2> SUFFICES ASSUME NEW i \in DOMAIN b, graph!IsObject(b[i])
               PROVE  graph!ObjectOf(b[i]) \in DOMAIN g.store
    BY NamedIn
  <2>2. i \in 1 .. m + n
    BY <1>5
  <2>3. CASE i \in 1 .. m
    BY <1>5, <2>3, Tagged
  <2>4. CASE i \notin 1 .. m
    <3>1. PICK j : j = i - m
      OBVIOUS
    <3>2. j \in 1 .. n /\ i = m + j
      BY <1>5, <2>2, <2>4, <3>1
    <3>3. b[i] = e[ops[j]]
      BY <1>9, <1>10, <3>2
    <3>4. ops[j] \in Var
      BY <1>1, <1>4, <3>2, OperandFacts
    <3> QED
      BY <2>1, <3>3, <3>4 DEF graph!Held
  <2> QED
    BY <2>3, <2>4
<1>13. GraphIInv' /\ graph!Make(call.dest, call.kind, b)
  BY <1>2, <1>4, <1>6, <1>12, ReturnMakes
<1>14. graph!Construct(call.dest, head, ops)
  <2>1. [i \in 1 .. Len(ops) |-> shown.env[ops[i]]] = q
    BY <1>1, <1>4, <1>6, <1>9
  <2>2. head[2] \o [i \in 1 .. Len(ops) |-> shown.env[ops[i]]] = b
    BY <1>6, <1>11, <2>1
  <2> QED
    BY <1>1, <1>13, <2>2 DEF graph!Construct
<1>15. call.dest \in Assignable
  BY ReturnFacts DEF Calls
<1> QED
  BY <1>13, <1>14, <1>15 DEF graph!GraphNext

(* The return of a constructor without them is the graph's step.           *)
LEMMA ReturnBare ==
  ASSUME RuntimeIInv, GraphIInv, Return, RuntimeIInv', call.source = "words",
         Bare(call)
  PROVE  GraphIInv' /\ graph!GraphNext
<1>1. PICK thing \in Fresh : thing[1] = call.kind /\ MadeOf(call, thing[2])
  BY DEF Bare
<1>2. PICK h, hi : h = heap' /\ hi = hcurrent'
  OBVIOUS
<1>3. PICK b, m, n : /\ b = Shows(h[hcurrent], h, hbegin, hi).body
                     /\ m = Len(call.raw) /\ n = Len(call.args)
  OBVIOUS
<1>4. /\ b = Shows(h[hcurrent], h, hbegin, hi).body /\ Displays(b, Filled, call.kind)
      /\ m = Len(call.raw) /\ n = Len(call.args)
  BY <1>2, <1>3, ReturnShows
<1>5. /\ m \in Nat /\ n = 0 /\ b = [i \in 1 .. m + n |-> b[i]]
      /\ \A i \in 1 .. m : b[i] = <<"value", call.raw[i]>>
  <2>1. n = 0
    BY <1>4 DEF Bare
  <2>2. MadeBody(b, m, n)
    BY <1>4, BuiltBody
  <2> QED
    BY <2>1, <2>2 DEF MadeBody
<1>6. b = [i \in 1 .. m |-> b[i]]
  <2>1. m + n = m
    BY <1>5
  <2> QED
    BY <1>5, <2>1
<1>7. PICK p : p = thing[2]
  OBVIOUS
<1>8. p = [i \in 1 .. m |-> p[i]]
  <2>1. Len(p) = m
    BY <1>1, <1>4, <1>7 DEF MadeOf
  <2>2. PICK k, w : k \in Nat /\ p = [i \in 1 .. k |-> <<"value", w>>]
    <3>1. \A k \in Lengths \cup {1} : k \in Nat
      BY ProgramAssumption
    <3>2. CASE \E k \in Lengths : thing = <<"ARRAY", [i \in 1 .. k |-> <<"value", Nil>>]>>
      <4>1. PICK k \in Lengths : thing = <<"ARRAY", [i \in 1 .. k |-> <<"value", Nil>>]>>
        BY <3>2
      <4>2. k \in Nat /\ p = [i \in 1 .. k |-> <<"value", Nil>>]
        BY <1>7, <3>1, <4>1
      <4> QED
        BY <4>2
    <3>3. CASE \E k \in Lengths \cup {1} :
                 thing = <<"STRING", [i \in 1 .. k |-> <<"value", RawWord>>]>>
      <4>1. PICK k \in Lengths \cup {1} :
              thing = <<"STRING", [i \in 1 .. k |-> <<"value", RawWord>>]>>
        BY <3>3
      <4>2. k \in Nat /\ p = [i \in 1 .. k |-> <<"value", RawWord>>]
        BY <1>7, <3>1, <4>1
      <4> QED
        BY <4>2
    <3> QED
      BY <3>2, <3>3 DEF Fresh
  <2>3. Len(p) = k
    BY <2>2
  <2> QED
    BY <2>1, <2>2, <2>3
<1>9. b = p
  <2>1. \A i \in 1 .. m : b[i] = p[i]
    BY <1>1, <1>4, <1>5, <1>7 DEF MadeOf
  <2> QED
    BY <1>6, <1>8, <2>1
<1>10. graph!Named(b) \subseteq DOMAIN shown.store
  <2>1. \A i \in DOMAIN b : ~graph!IsObject(b[i])
    BY <1>5, <1>6, Tagged
  <2> QED
    BY <2>1, NamedIn
<1>11. GraphIInv' /\ graph!Make(call.dest, call.kind, b)
  BY <1>2, <1>4, <1>10, ReturnMakes
<1>12. graph!Introduce(call.dest, thing)
  BY <1>1, <1>7, <1>9, <1>11 DEF graph!Introduce
<1>13. call.dest \in Assignable
  BY ReturnFacts DEF Calls
<1> QED
  BY <1>11, <1>12, <1>13 DEF graph!GraphNext

(* ... or copied it from others.                                           *)
LEMMA ReturnCopied ==
  ASSUME RuntimeIInv, GraphIInv, Return, RuntimeIInv', call.source = "copy",
         Copied(call, heap, words, hbegin, hcurrent)
  PROVE  GraphIInv' /\ graph!GraphNext
<1>1. PICK g : g = shown
  OBVIOUS
<1>2. PICK y \in Var : Operand(call, heap, words, hbegin, hcurrent, 1) = g.env[y]
  BY <1>1 DEF Copied
<1>3. PICK o : o = Source(call, heap, words, 1)
  OBVIOUS
<1>4. /\ Supplied(call, heap, words) /\ call \in Calls
      /\ Agreed(heap, words, hbegin, hcurrent)
  BY ReturnFacts
<1>5. call.source # "words" /\ 1 \in 1 .. Len(call.args)
  <2>1. Len(call.args) = 1
    BY <1>4 DEF Supplied
  <2> QED
    BY <2>1
<1>6. /\ graph!IsObject(g.env[y]) /\ graph!ObjectOf(g.env[y]) = o.id
      /\ o.id \in DOMAIN g.store
      /\ g.store[o.id] = Shows(o, heap, hbegin, hcurrent)
      /\ BodyOf(call.args[1]) = o.body /\ o.body \in Seq(Int)
  BY <1>1, <1>2, <1>3, <1>5, SourceShown
<1>7. PICK h, hi : h = heap' /\ hi = hcurrent'
  OBVIOUS
<1>8. PICK b, f : b = Shows(h[hcurrent], h, hbegin, hi).body /\ f = o.body
  OBVIOUS
<1>9. Displays(b, f, call.kind)
  <2>1. Filled = f
    BY <1>6, <1>8 DEF Filled
  <2> QED
    BY <1>7, <1>8, <2>1, ReturnShows
<1>10. o.kind = call.kind
  BY <1>3, <1>4 DEF Supplied
<1>11. PICK shows : shows = Shows(o, heap, hbegin, hcurrent)
  OBVIOUS
<1>12. shows.kind = call.kind /\ b = shows.body
  <2>1. PICK first, len : first = FirstField(o) /\ len = Len(f)
    OBVIOUS
  <2>2. len \in Nat
    BY <1>6, <1>8, <2>1
  <2>3. /\ call.kind = "STRING" => first = len + 1
        /\ call.kind = "ARRAY" => first = 1
        /\ call.kind \in {"SEXP", "CLOSURE"} => first = 2
    BY <1>8, <1>10, <2>1 DEF FirstField
  <2>4. shows.body = [i \in 1 .. len |-> IF i < first THEN <<"value", f[i]>>
                                         ELSE Value(f[i], heap, hbegin, hcurrent)]
    BY <1>8, <1>11, <2>1 DEF Shows
  <2>5. b = [i \in 1 .. len |-> b[i]]
    BY <1>9, <2>1 DEF Displays
  <2>6. ASSUME NEW i \in 1 .. len
        PROVE  b[i] = IF i < first THEN <<"value", f[i]>>
                      ELSE Value(f[i], heap, hbegin, hcurrent)
    <3>1. CASE call.kind = "STRING"
      <4>1. i < first
        BY <2>2, <2>3, <3>1
      <4> QED
        BY <1>9, <2>1, <3>1, <4>1 DEF Displays
    <3>2. CASE call.kind = "ARRAY"
      <4>1. ~(i < first)
        BY <2>2, <2>3, <3>2
      <4> QED
        BY <1>9, <2>1, <3>2, <4>1 DEF Displays
    <3>3. CASE call.kind \in {"SEXP", "CLOSURE"} /\ i = 1
      <4>1. i < first
        BY <2>3, <3>3
      <4> QED
        BY <1>9, <2>1, <3>3, <4>1 DEF Displays
    <3>4. CASE call.kind \in {"SEXP", "CLOSURE"} /\ i # 1
      <4>1. ~(i < first) /\ i \in 2 .. len
        BY <2>2, <2>3, <3>4
      <4> QED
        BY <1>9, <2>1, <3>4, <4>1 DEF Displays
    <3>5. call.kind \in Kind
      BY <1>4 DEF Calls
    <3> QED
      BY <3>1, <3>2, <3>3, <3>4, <3>5 DEF Kind
  <2>7. b = shows.body
    BY <2>4, <2>5, <2>6
  <2>8. shows.kind = call.kind
    BY <1>10, <1>11 DEF Shows
  <2> QED
    BY <2>7, <2>8
<1>13. graph!Named(b) \subseteq DOMAIN g.store
  <2>1. RefersWithin(g.store, DOMAIN g.store)
    BY <1>1, <1>4, ShownFacts
  <2> QED
    BY <1>6, <1>11, <1>12, <2>1 DEF RefersWithin
<1>14. GraphIInv' /\ graph!Make(call.dest, call.kind, b)
  BY <1>1, <1>7, <1>8, <1>13, ReturnMakes
<1>15. graph!Clone(call.dest, y)
  BY <1>1, <1>6, <1>11, <1>12, <1>14 DEF graph!Clone
<1>16. call.dest \in Assignable
  BY <1>4 DEF Calls
<1> QED
  BY <1>14, <1>15, <1>16 DEF graph!GraphNext

(* A string shows its characters.                                          *)
Text(b, f) == b = [i \in 1 .. Len(f) |-> <<"value", f[i]>>]

(* A string shows its characters, none of them an object.                  *)
LEMMA StringShows ==
  ASSUME NEW o, o.kind = "STRING", NEW f, f = o.body, f \in Seq(Int),
         NEW h, NEW lo, NEW hi, NEW b, b = Shows(o, h, lo, hi).body
  PROVE  Text(b, f)
<1>1. PICK n : n = Len(f) /\ n \in Nat
  OBVIOUS
<1>2. PICK first : first = FirstField(o)
  OBVIOUS
<1>3. first = n + 1
  BY <1>1, <1>2 DEF FirstField
<1>4. b = [i \in 1 .. n |-> IF i < first THEN <<"value", f[i]>> ELSE Value(f[i], h, lo, hi)]
  BY <1>1, <1>2 DEF Shows
<1>5. \A i \in 1 .. n : i < first
  BY <1>1, <1>3
<1> QED
  BY <1>1, <1>4, <1>5 DEF Text

(* The string a call copies from shows the characters that are in the      *)
(* heap.                                                                   *)
LEMMA StringSource ==
  ASSUME RuntimeIInv, GraphIInv, Return, call.source # "words",
         NEW i \in 1 .. Len(call.args), NEW y \in Var, NEW g, g = shown,
         Operand(call, heap, words, hbegin, hcurrent, i) = g.env[y], HoldsString(y),
         NEW f, f = BodyOf(call.args[i]), NEW n, n = Len(f),
         NEW p, p = g.store[graph!ObjectOf(g.env[y])]
  PROVE  /\ graph!IsObject(g.env[y]) /\ p.kind = "STRING"
         /\ f \in Seq(Int) /\ n \in Nat
         /\ p.body = [j \in 1 .. n |-> <<"value", f[j]>>]
<1>1. PICK o : o = Source(call, heap, words, i)
  OBVIOUS
<1>2. /\ graph!IsObject(g.env[y]) /\ graph!ObjectOf(g.env[y]) = o.id
      /\ g.store[o.id] = Shows(o, heap, hbegin, hcurrent)
      /\ BodyOf(call.args[i]) = o.body /\ o.body \in Seq(Int)
  BY <1>1, SourceShown
<1>3. p = Shows(o, heap, hbegin, hcurrent) /\ p.kind = "STRING"
  BY <1>2 DEF HoldsString
<1>4. o.kind = "STRING"
  BY <1>3 DEF Shows
<1>5. PICK b : b = p.body
  OBVIOUS
<1>6. n \in Nat /\ b = [j \in 1 .. n |-> <<"value", f[j]>>]
  <2>1. f = o.body /\ f \in Seq(Int) /\ b = Shows(o, heap, hbegin, hcurrent).body
    BY <1>2, <1>3, <1>5
  <2>2. Text(b, f)
    BY <1>4, <2>1, StringShows
  <2>3. Len(f) \in Nat
    BY <2>1
  <2> QED
    BY <2>2, <2>3 DEF Text
<1> QED
  BY <1>2, <1>3, <1>5, <1>6

(* Characters refer to no object.                                          *)
LEMMA CharactersName ==
  ASSUME NEW f, NEW n, NEW b, b = [j \in 1 .. n |-> <<"value", f[j]>>], NEW D
  PROVE  graph!Named(b) \subseteq D
<1>1. \A i \in DOMAIN b : ~graph!IsObject(b[i])
  BY Tagged
<1> QED
  BY <1>1, NamedIn

(* The return of ++ concatenates the two strings.                          *)
LEMMA ReturnJoined ==
  ASSUME RuntimeIInv, GraphIInv, Return, RuntimeIInv', call.source = "both",
         Joined(call, heap, words, hbegin, hcurrent)
  PROVE  GraphIInv' /\ graph!GraphNext
<1>1. PICK g : g = shown
  OBVIOUS
<1>2. PICK y \in Var, z \in Var :
        /\ Operand(call, heap, words, hbegin, hcurrent, 1) = g.env[y] /\ HoldsString(y)
        /\ Operand(call, heap, words, hbegin, hcurrent, 2) = g.env[z] /\ HoldsString(z)
  BY <1>1 DEF Joined
<1>3. Supplied(call, heap, words) /\ call \in Calls
  BY ReturnFacts
<1>4. /\ call.source # "words" /\ call.kind = "STRING"
      /\ 1 \in 1 .. Len(call.args) /\ 2 \in 1 .. Len(call.args)
  <2>1. Len(call.args) = 2 /\ call.kind = "STRING"
    BY <1>3 DEF Supplied
  <2> QED
    BY <2>1
<1>5. PICK f1, f2, n1, n2, p1, p2 :
        /\ f1 = BodyOf(call.args[1]) /\ n1 = Len(f1)
        /\ p1 = g.store[graph!ObjectOf(g.env[y])]
        /\ f2 = BodyOf(call.args[2]) /\ n2 = Len(f2)
        /\ p2 = g.store[graph!ObjectOf(g.env[z])]
  OBVIOUS
<1>6. /\ graph!IsObject(g.env[y]) /\ p1.kind = "STRING"
      /\ f1 \in Seq(Int) /\ n1 \in Nat
      /\ p1.body = [j \in 1 .. n1 |-> <<"value", f1[j]>>]
  BY <1>1, <1>2, <1>4, <1>5, StringSource
<1>7. /\ graph!IsObject(g.env[z]) /\ p2.kind = "STRING"
      /\ f2 \in Seq(Int) /\ n2 \in Nat
      /\ p2.body = [j \in 1 .. n2 |-> <<"value", f2[j]>>]
  <2>1. PICK i : i = 2
    OBVIOUS
  <2>2. /\ i \in 1 .. Len(call.args) /\ f2 = BodyOf(call.args[i])
        /\ Operand(call, heap, words, hbegin, hcurrent, i) = g.env[z]
    BY <1>2, <1>4, <1>5, <2>1
  <2> QED
    BY <1>1, <1>2, <1>4, <1>5, <2>2, StringSource
<1>8. PICK h, hi : h = heap' /\ hi = hcurrent'
  OBVIOUS
<1>9. PICK b, f, n : /\ b = Shows(h[hcurrent], h, hbegin, hi).body
                     /\ f = f1 \o f2 /\ n = n1 + n2
  OBVIOUS
<1>10. /\ \A i \in 1 .. n1 : f[i] = f1[i]
       /\ \A i \in 1 .. n2 : f[n1 + i] = f2[i]
       /\ Len(f) = n
  <2>1. f1 \in Seq(Int) /\ f2 \in Seq(Int)
    BY <1>6, <1>7
  <2>2. /\ Len(f) = Len(f1) + Len(f2)
        /\ \A i \in 1 .. Len(f1) : f[i] = f1[i]
        /\ \A i \in 1 .. Len(f2) : f[Len(f1) + i] = f2[i]
    BY <1>9, <2>1, Concatenation
  <2> QED
    BY <1>5, <1>9, <2>2
<1>11. /\ b = [i \in 1 .. n |-> b[i]]
       /\ \A i \in 1 .. n : b[i] = <<"value", f[i]>>
  <2>1. Filled = f
    BY <1>5, <1>9 DEF Filled
  <2>2. Displays(b, f, call.kind)
    BY <1>8, <1>9, <2>1, ReturnShows
  <2> QED
    BY <1>4, <1>10, <2>2 DEF Displays
<1>12. b = p1.body \o p2.body
  <2>1. PICK q1, q2 : q1 = p1.body /\ q2 = p2.body
    OBVIOUS
  <2>2. Long(q1, n1) /\ Long(q2, n2) /\ Long(b, n)
    BY <1>6, <1>7, <1>11, <2>1 DEF Long
  <2>3. /\ \A i \in 1 .. n1 : i \in 1 .. n
        /\ \A i \in 1 .. n2 : n1 + i \in 1 .. n
    <3>1. SplitAt(n1, n2, n)
      BY <1>6, <1>7, <1>9, Places
    <3> QED
      BY <3>1 DEF SplitAt
  <2>4. \A i \in 1 .. n1 : b[i] = q1[i]
    BY <1>6, <1>10, <1>11, <2>1, <2>3
  <2>5. \A i \in 1 .. n2 : b[n1 + i] = q2[i]
    BY <1>7, <1>10, <1>11, <2>1, <2>3
  <2>6. b = q1 \o q2
    <3>1. n1 \in Nat /\ n2 \in Nat /\ n = n1 + n2
      BY <1>6, <1>7, <1>9
    <3>2. After(b, q1, n1, q2, n2)
      BY <2>4, <2>5 DEF After
    <3> QED
      BY <2>2, <3>1, <3>2, Pasted
  <2> QED
    BY <2>1, <2>6
<1>13. graph!Named(b) \subseteq DOMAIN shown.store
  <2>1. b = [i \in 1 .. n |-> <<"value", f[i]>>]
    BY <1>11
  <2> QED
    BY <2>1, CharactersName
<1>14. GraphIInv' /\ graph!Make(call.dest, call.kind, b)
  BY <1>8, <1>9, <1>13, ReturnMakes
<1>15. graph!Concat(call.dest, y, z)
  BY <1>1, <1>4, <1>5, <1>6, <1>7, <1>12, <1>14 DEF graph!Concat
<1>16. call.dest \in Assignable
  BY <1>3 DEF Calls
<1> QED
  BY <1>14, <1>15, <1>16 DEF graph!GraphNext

(* The return of Lsubstring cuts its piece of the string.                  *)
LEMMA ReturnCut ==
  ASSUME RuntimeIInv, GraphIInv, Return, RuntimeIInv', call.source = "part",
         Cut(call, heap, words, hbegin, hcurrent)
  PROVE  GraphIInv' /\ graph!GraphNext
<1>1. PICK g : g = shown
  OBVIOUS
<1>2. PICK y \in Var :
        Operand(call, heap, words, hbegin, hcurrent, 1) = g.env[y] /\ HoldsString(y)
  BY <1>1 DEF Cut
<1>3. Supplied(call, heap, words) /\ call \in Calls
  BY ReturnFacts
<1>4. /\ call.source # "words" /\ call.kind = "STRING" /\ 1 \in 1 .. Len(call.args)
  <2>1. Len(call.args) = 1 /\ call.kind = "STRING"
    BY <1>3 DEF Supplied
  <2> QED
    BY <2>1
<1>5. PICK f, n, p : /\ f = BodyOf(call.args[1]) /\ n = Len(f)
                     /\ p = g.store[graph!ObjectOf(g.env[y])]
  OBVIOUS
<1>6. /\ graph!IsObject(g.env[y]) /\ p.kind = "STRING"
      /\ f \in Seq(Int) /\ n \in Nat
      /\ p.body = [j \in 1 .. n |-> <<"value", f[j]>>]
  BY <1>1, <1>2, <1>4, <1>5, StringSource
<1>7. PICK h, hi : h = heap' /\ hi = hcurrent'
  OBVIOUS
<1>8. PICK from, len : from = call.from /\ len = call.len
  OBVIOUS
<1>9. from \in Nat /\ len \in Nat /\ 0 < len /\ from + len <= n
  <2>1. PICK o : o = Source(call, heap, words, 1)
    OBVIOUS
  <2>2. f = o.body
    BY <1>1, <1>2, <1>4, <1>5, <2>1, SourceShown
  <2>3. from + len <= n
    BY <1>3, <1>5, <1>8, <2>1, <2>2 DEF Supplied
  <2>4. from \in Nat /\ len \in Nat
    BY <1>3, <1>8 DEF Calls
  <2>5. 0 < len
    BY <1>8 DEF Cut
  <2> QED
    BY <2>3, <2>4, <2>5
<1>10. PICK i, j : i = from + 1 /\ j = from + len
  OBVIOUS
<1>11. i \in 1 .. n /\ j \in 1 .. n /\ i <= j /\ j - i + 1 = len
  BY <1>6, <1>9, <1>10
<1>12. PICK b, c : /\ b = Shows(h[hcurrent], h, hbegin, hi).body
                   /\ c = SubSeq(f, i, j)
  OBVIOUS
<1>13. Len(c) = len /\ \A k \in 1 .. len : c[k] = f[i + k - 1]
  <2>1. f \in Seq(Int) /\ n = Len(f)
    BY <1>5, <1>6
  <2> QED
    BY <1>9, <1>11, <1>12, <2>1
<1>14. /\ b = [k \in 1 .. len |-> b[k]]
       /\ \A k \in 1 .. len : b[k] = <<"value", c[k]>>
  <2>1. Filled = c
    BY <1>5, <1>8, <1>10, <1>12 DEF Filled
  <2>2. Displays(b, c, call.kind)
    BY <1>7, <1>12, <2>1, ReturnShows
  <2> QED
    BY <1>4, <1>13, <2>2 DEF Displays
<1>15. b = SubSeq(p.body, i, j)
  <2>1. PICK q, S, s : /\ q = p.body /\ S = {<<"value", f[k]>> : k \in 1 .. n}
                       /\ s = SubSeq(q, i, j)
    OBVIOUS
  <2>2. q \in Seq(S) /\ Len(q) = n /\ \A k \in 1 .. n : q[k] = <<"value", f[k]>>
    <3>1. q = [k \in 1 .. n |-> <<"value", f[k]>>]
      BY <1>6, <2>1
    <3> QED
      BY <1>6, <2>1, <3>1
  <2>3. s \in Seq(S) /\ Len(s) = len /\ \A k \in 1 .. len : s[k] = q[i + k - 1]
    <3>1. s = SubSeq(q, i, j) /\ q \in Seq(S) /\ n = Len(q)
      BY <2>1, <2>2
    <3> QED
      BY <1>9, <1>11, <3>1
  <2>4. \A k \in 1 .. len : i + k - 1 \in 1 .. n
    BY <1>6, <1>9, <1>10
  <2>5. \A k \in 1 .. len : s[k] = b[k]
    BY <1>13, <1>14, <2>2, <2>3, <2>4
  <2>6. s = [k \in 1 .. len |-> s[k]]
    BY <2>3
  <2> QED
    BY <1>14, <2>1, <2>5, <2>6
<1>16. graph!Named(b) \subseteq DOMAIN shown.store
  <2>1. b = [k \in 1 .. len |-> <<"value", c[k]>>]
    BY <1>14
  <2> QED
    BY <2>1, CharactersName
<1>17. GraphIInv' /\ graph!Make(call.dest, call.kind, b)
  BY <1>7, <1>12, <1>16, ReturnMakes
<1>18. graph!Substring(call.dest, y)
  <2>1. i \in DOMAIN p.body /\ j \in DOMAIN p.body
    BY <1>6, <1>11
  <2> QED
    BY <1>1, <1>4, <1>5, <1>6, <1>11, <1>15, <1>17, <2>1 DEF graph!Substring
<1>19. call.dest \in Assignable
  BY <1>3 DEF Calls
<1> QED
  BY <1>17, <1>18, <1>19 DEF graph!GraphNext

(* Whatever the call that returns, the graph takes its step.               *)
LEMMA ReturnKeepsGraph ==
  ASSUME RuntimeIInv, GraphIInv, Return, RuntimeIInv'
  PROVE  GraphIInv' /\ graph!GraphNext
<1>1. Meant(call, heap, words, hbegin, hcurrent) /\ call \in Calls
  BY ReturnFacts
<1>2. call.source \in {"words", "copy", "both", "part"}
  BY <1>1 DEF Calls
<1> QED
  BY <1>1, <1>2, ReturnBuilt, ReturnBare, ReturnCopied, ReturnJoined, ReturnCut
  DEF Meant
-----------------------------------------------------------------------------
(* What does not allocate.                                                 *)
LEMMA BecomesSeen ==
  ASSUME RuntimeIInv, GraphIInv, RuntimeIInv', pc = "mutator", pc' = "mutator",
         Counted, UNCHANGED <<hbegin, hcurrent>>,
         shown' = Sees(heap', words', hbegin', hcurrent'),
         NEW h, h = heap', NEW ws, ws = words', Distinct(h), Ids(h) = Ids(heap),
         NEW L \in SUBSET Ids(h),
         NEW s, s = [n \in L |-> Objects(h, hbegin, hcurrent)[n]],
         NEW e, e = Variables(h, ws, hbegin, hcurrent),
         graph!Held(e) \subseteq L, RefersWithin(s, L)
  PROVE  GraphIInv' /\ graph!Become(s, e)
<1>1. Meaningful(h, ws, hbegin, hcurrent)
  <2>1. Ready' /\ Distinct(heap)'
    BY DEF RuntimeIInv, Distinct
  <2>2. Meaningful(heap, words, hbegin, hcurrent)'
    BY <2>1, MeaningfulAfter
  <2> QED
    BY <2>2 DEF Meaningful
<1>2. Sees(h, ws, hbegin, hcurrent) = [store |-> graph!Kept(s, e), env |-> e]
  BY <1>1, Becoming
<1>3. shown' = Sees(h, ws, hbegin, hcurrent)
  <2>1. heap' = h /\ words' = ws /\ hbegin' = hbegin /\ hcurrent' = hcurrent
    OBVIOUS
  <2> QED
    BY <2>1
<1>4. graph!Become(s, e)
  <2>1. PICK k : k = graph!Kept(s, e)
    OBVIOUS
  <2>2. shown' = [store |-> k, env |-> e]
    BY <1>2, <1>3, <2>1
  <2>3. shown'.env = e /\ shown'.store = graph!Kept(s, e)
    BY <2>1, <2>2
  <2> QED
    BY <2>3 DEF graph!Become
<1>5. Agreed(h, ws, hbegin, hcurrent)'
  BY <1>1, <1>3 DEF Agreed
<1>6. NamesLeft(h, todo'.calls)
  <2>1. PICK k, j : k = todo.calls /\ j = todo'.calls
    OBVIOUS
  <2>2. k \in Nat /\ j \in Int /\ j <= k /\ MaxName \in Nat
    BY <2>1, ProgramAssumption DEF RuntimeIInv, Setting, Counted
  <2>3. k <= MaxName /\ \A n \in Ids(heap) : n + k <= MaxName
    BY <2>1 DEF GraphIInv, NamesLeft, Ids
  <2>4. \A n \in Ids(h) : n \in Nat
    <3>1. \A a \in DOMAIN h : h[a].id \in Nat
      BY <1>1 DEF Meaningful, Object
    <3> QED
      BY <3>1 DEF Ids
  <2>5. ASSUME NEW n \in Ids(h) PROVE n + j <= MaxName
    <3>1. n \in Nat /\ n + k <= MaxName
      BY <2>3, <2>4
    <3> QED
      BY <2>2, <3>1
  <2>6. j <= MaxName
    BY <2>2, <2>3
  <2> QED
    BY <2>1, <2>5, <2>6 DEF NamesLeft, Ids
<1>7. Agreed(heap, words, hbegin, hcurrent)' /\ NamesLeft(heap, todo.calls)'
  BY <1>5, <1>6
<1> QED
  BY <1>4, <1>7 DEF GraphIInv, MarkPC, CompactPC, Collecting

(* A variable gets a value the program has, or an unboxed one.             *)
LEMMA VariableAssigned ==
  ASSUME RuntimeIInv, GraphIInv, RuntimeIInv', pc = "mutator", pc' = pc,
         Counted, UNCHANGED <<heap, hbegin, hcurrent>>,
         shown' = Sees(heap', words', hbegin', hcurrent'),
         NEW dest \in Assignable, NEW w, words' = [words EXCEPT ![dest] = w],
         NEW v, v = Value(w, heap, hbegin, hcurrent),
         graph!IsObject(v) => graph!ObjectOf(v) \in DOMAIN shown.store
  PROVE  GraphIInv' /\ graph!Become(shown.store, [shown.env EXCEPT ![dest] = v])
<1>1. PICK g, s, e : g = shown /\ s = g.store /\ e = g.env
  OBVIOUS
<1>2. PICK h, ws : h = heap' /\ ws = words'
  OBVIOUS
<1>3. h = heap /\ ws = [words EXCEPT ![dest] = w]
  BY <1>2
<1>4. Agreed(heap, words, hbegin, hcurrent) /\ Distinct(h)
  BY <1>3 DEF GraphIInv, Agreed, Meaningful
<1>5. PICK L : L = DOMAIN s
  OBVIOUS
<1>6. /\ e = Variables(heap, words, hbegin, hcurrent)
      /\ s = [n \in L |-> Objects(h, hbegin, hcurrent)[n]]
      /\ L \subseteq Ids(h) /\ graph!Held(e) \subseteq L /\ RefersWithin(s, L)
  BY <1>1, <1>3, <1>4, <1>5, ShownFacts
<1>7. PICK e2 : e2 = [e EXCEPT ![dest] = v]
  OBVIOUS
<1>8. dest \in Var /\ Var \subseteq Slot /\ DOMAIN words = Slot
  BY Layout, Between DEF Var, Ready, MemoryOK
<1>9. e2 = Variables(h, ws, hbegin, hcurrent)
  BY <1>3, <1>6, <1>7, <1>8 DEF Variables
<1>10. graph!Held(e2) \subseteq L
  <2> SUFFICES ASSUME NEW x \in Var, graph!IsObject(e2[x])
               PROVE  graph!ObjectOf(e2[x]) \in L
    BY DEF graph!Held
  <2>1. DOMAIN e = Var
    BY <1>6 DEF Variables
  <2>2. CASE x = dest
    BY <1>1, <1>5, <1>7, <2>1, <2>2
  <2>3. CASE x # dest
    BY <1>6, <1>7, <2>1, <2>3 DEF graph!Held
  <2> QED
    BY <2>2, <2>3
<1>11. Ids(h) = Ids(heap)
  BY <1>3
<1>12. GraphIInv' /\ graph!Become(s, e2)
  BY <1>2, <1>4, <1>6, <1>9, <1>10, <1>11, BecomesSeen
<1> QED
  BY <1>1, <1>7, <1>12

(* A variable that is given no object forgets the one it held.             *)
LEMMA ClearedMeans ==
  ASSUME RuntimeIInv, GraphIInv, RuntimeIInv', pc = "mutator", pc' = pc,
         Counted, UNCHANGED <<heap, hbegin, hcurrent>>,
         shown' = Sees(heap', words', hbegin', hcurrent'),
         NEW dest \in Assignable, words' = [words EXCEPT ![dest] = Nil]
  PROVE  GraphIInv' /\ graph!GraphNext
<1>1. PICK w, v : w = Nil /\ v = Value(w, heap, hbegin, hcurrent)
  OBVIOUS
<1>2. v = <<"value", Nil>>
  <2>1. w \in Int /\ w <= 0 /\ hbegin \in Nat \ {0}
    BY <1>1, Between DEF Nil
  <2> QED
    BY <1>1, <2>1, NoPointer
<1>3. ~graph!IsObject(v)
  BY <1>2, Tagged
<1>4. GraphIInv' /\ graph!Become(shown.store, [shown.env EXCEPT ![dest] = v])
  BY <1>1, <1>3, VariableAssigned
<1>5. graph!Clear(dest)
  BY <1>2, <1>4 DEF graph!Clear
<1> QED
  BY <1>4, <1>5 DEF graph!GraphNext

(* A copy of a variable is one in the graph.                               *)
LEMMA MoveMeans ==
  ASSUME RuntimeIInv, GraphIInv, RuntimeIInv',
         NEW x \in Var, NEW dest \in Assignable, Move(x, dest)
  PROVE  GraphIInv' /\ graph!GraphNext
<1>1. /\ pc = "mutator" /\ pc' = pc /\ Counted
      /\ words' = [words EXCEPT ![dest] = words[x]]
      /\ UNCHANGED <<heap, hbegin, hcurrent>>
      /\ shown' = Sees(heap', words', hbegin', hcurrent')
  BY DEF Move, Quiet
<1>2. PICK w, v : w = words[x] /\ v = Value(w, heap, hbegin, hcurrent)
  OBVIOUS
<1>3. v = shown.env[x] /\ Agreed(heap, words, hbegin, hcurrent)
  BY <1>1, <1>2, VariablesShown
<1>4. graph!IsObject(v) => graph!ObjectOf(v) \in DOMAIN shown.store
  <2>1. PICK g : g = shown
    OBVIOUS
  <2>2. graph!Held(g.env) \subseteq DOMAIN g.store
    BY <1>3, <2>1, ShownFacts
  <2> QED
    BY <1>3, <2>1, <2>2 DEF graph!Held
<1>5. words' = [words EXCEPT ![dest] = w]
  BY <1>1, <1>2
<1>6. GraphIInv' /\ graph!Become(shown.store, [shown.env EXCEPT ![dest] = v])
  BY <1>1, <1>2, <1>4, <1>5, VariableAssigned
<1>7. graph!Copy(dest, x)
  BY <1>3, <1>6 DEF graph!Copy
<1> QED
  BY <1>6, <1>7 DEF graph!GraphNext

(* Belem gives the variable what the object holds at that place.           *)
LEMMA BelemMeans ==
  ASSUME RuntimeIInv, GraphIInv, RuntimeIInv',
         NEW x \in Var, NEW dest \in Assignable, Belem(x, dest)
  PROVE  GraphIInv' /\ graph!GraphNext
<1>1. /\ pc = "mutator" /\ pc' = pc /\ Counted /\ Points(x)
      /\ UNCHANGED <<heap, hbegin, hcurrent>>
      /\ shown' = Sees(heap', words', hbegin', hcurrent')
  BY DEF Belem, Quiet
<1>2. PICK w \in IF At(x).kind = "STRING" THEN {Nil}
                 ELSE {At(x).body[i] : i \in Fields(At(x))} :
        words' = [words EXCEPT ![dest] = w]
  BY DEF Belem
<1>3. CASE At(x).kind = "STRING"
  <2>1. words' = [words EXCEPT ![dest] = Nil]
    BY <1>2, <1>3
  <2> QED
    BY <1>1, <2>1, ClearedMeans
<1>4. CASE At(x).kind # "STRING"
  <2>1. PICK o, i : o = At(x) /\ i \in Fields(o) /\ w = o.body[i]
    BY <1>2, <1>4
  <2>2. PICK g : g = shown
    OBVIOUS
  <2>3. /\ graph!IsObject(g.env[x]) /\ graph!ObjectOf(g.env[x]) = o.id
        /\ o.id \in DOMAIN g.store
        /\ g.store[o.id] = Shows(o, heap, hbegin, hcurrent)
    BY <1>1, <2>1, <2>2, PointsShown
  <2>4. PICK b, v, n : /\ b = Shows(o, heap, hbegin, hcurrent).body /\ n = Len(o.body)
                       /\ v = Value(w, heap, hbegin, hcurrent)
    OBVIOUS
  <2>5. i \in 1 .. n /\ b[i] = v /\ DOMAIN b = 1 .. n
    <3>1. n \in Nat /\ o.kind \in Kind
      BY <1>1, <2>1, <2>4, Reading DEF Object
    <3>2. PICK first : first = FirstField(o)
      OBVIOUS
    <3>3. first = 1 \/ first = 2
      BY <1>4, <2>1, <3>2 DEF FirstField
    <3>4. i \in first .. n
      BY <2>1, <2>4, <3>2 DEF Fields
    <3>5. i \in 1 .. n /\ ~(i < first)
      BY <3>1, <3>3, <3>4
    <3>6. b = [j \in 1 .. n |-> IF j < first THEN <<"value", o.body[j]>>
                                ELSE Value(o.body[j], heap, hbegin, hcurrent)]
      BY <2>4, <3>2 DEF Shows
    <3> QED
      BY <2>1, <2>4, <3>5, <3>6
  <2>6. graph!IsObject(v) => graph!ObjectOf(v) \in DOMAIN g.store
    <3>1. Agreed(heap, words, hbegin, hcurrent)
      BY <1>1 DEF GraphIInv
    <3>2. RefersWithin(g.store, DOMAIN g.store)
      BY <2>2, <3>1, ShownFacts
    <3>3. graph!Named(b) \subseteq DOMAIN g.store
      BY <2>3, <2>4, <3>2 DEF RefersWithin
    <3> QED
      BY <2>5, <3>3 DEF graph!Named
  <2>7. GraphIInv' /\ graph!Become(shown.store, [shown.env EXCEPT ![dest] = v])
    BY <1>1, <1>2, <2>2, <2>4, <2>6, VariableAssigned
  <2>8. v \in Range(g.store[graph!ObjectOf(g.env[x])].body)
    BY <2>3, <2>4, <2>5 DEF Range
  <2>9. graph!Load(dest, x)
    BY <2>2, <2>3, <2>7, <2>8 DEF graph!Load, graph!Range, Range
  <2> QED
    BY <2>7, <2>9 DEF graph!GraphNext
<1> QED
  BY <1>3, <1>4

(* A call of a function of the C library that ends in Bstring, or not.     *)
LEMMA ForeignMeans ==
  ASSUME RuntimeIInv, GraphIInv, RuntimeIInv', NEW fn \in Functions, NEW pushed,
         NEW dest \in Assignable, PushedOK(pushed, <<Inner(1)>>),
         Foreign(fn, pushed, dest)
  PROVE  GraphIInv' /\ (graph!GraphNext \/ UNCHANGED shown)
<1>1. CASE Enter(Constructor(fn, "STRING", <<RawWord>>, <<>>, <<>>, dest),
                 Parameter(StringBuf, pushed), <<Inner(1)>>)
  <2>1. PICK c, roots : /\ c = Constructor(fn, "STRING", <<RawWord>>, <<>>, <<>>, dest)
                        /\ roots = <<Inner(1)>>
    OBVIOUS
  <2>2. c \in Calls /\ \A h, ws, lo, hi : Meant(c, h, ws, lo, hi)
    BY <2>1, BufferMeans
  <2>3. PushedOK(Parameter(StringBuf, pushed), roots)
    BY <2>1, BufferIsSound, ParameterFacts
  <2>4. Enter(c, Parameter(StringBuf, pushed), roots)
    BY <1>1, <2>1
  <2>5. PICK ws : ws = words'
    OBVIOUS
  <2> QED
    BY <2>2, <2>3, <2>4, <2>5, EnterKeepsGraph
<1>2. CASE /\ pc = "mutator" /\ Counted /\ words' = [words EXCEPT ![dest] = Nil]
           /\ UNCHANGED <<heap, hbegin, hcurrent, pc>>
           /\ shown' = Sees(heap, words', hbegin, hcurrent)
  <2>1. shown' = Sees(heap', words', hbegin', hcurrent')
    BY <1>2
  <2> QED
    BY <1>2, <2>1, ClearedMeans
<1> QED
  BY <1>1, <1>2 DEF Foreign

(* g shows what h does but for field i of the object at a, that shows w.   *)
Changed(g, h, lo, hi, a, i, w) ==
  /\ DOMAIN g = DOMAIN h /\ \A b \in DOMAIN h : g[b].id = h[b].id
  /\ \A v : Value(v, g, lo, hi) = Value(v, h, lo, hi)
  /\ \A b \in DOMAIN h : b # a => Shows(g[b], g, lo, hi) = Shows(h[b], h, lo, hi)
  /\ i \in DOMAIN Shows(h[a], h, lo, hi).body
  /\ Shows(g[a], g, lo, hi) =
       [Shows(h[a], h, lo, hi) EXCEPT !.body[i] = Value(w, h, lo, hi)]

(* A field gets a value the program has.                                   *)
LEMMA StoredShows ==
  ASSUME NEW h, NEW lo \in Nat \ {0}, NEW hi, HeapOK(h, lo, hi), Distinct(h),
         NEW a \in DOMAIN h, NEW i,
         i \in FirstField(h[a]) .. Len(h[a].body), NEW w \in Int,
         NEW g, g = Stored(h, a, i, w)
  PROVE  Changed(g, h, lo, hi, a, i, w)
<1>1. DOMAIN g = DOMAIN h /\ \A b \in DOMAIN h : b # a => g[b] = h[b]
  BY DEF HeapOK, Stored
<1>2. PICK o : o = h[a]
  OBVIOUS
<1>3. o \in Object /\ o.body \in Seq(Int) /\ Len(o.body) \in Nat
  BY <1>2 DEF HeapOK, Object
<1>4. PICK body : body = [o.body EXCEPT ![i] = w]
  OBVIOUS
<1>5. i \in 1 .. Len(o.body) /\ ~(i < FirstField(o))
  BY <1>2, <1>3 DEF FirstField
<1>6. /\ body \in Seq(Int) /\ Len(body) = Len(o.body)
      /\ body[i] = w /\ \A j \in 1 .. Len(o.body) : j # i => body[j] = o.body[j]
  BY <1>3, <1>4, <1>5
<1>7. g[a] = [o EXCEPT !.body = body]
  BY <1>2, <1>4 DEF Stored
<1>8. PICK p : p = g[a]
  OBVIOUS
<1>9. p.id = o.id /\ p.kind = o.kind /\ p.body = body
  BY <1>3, <1>7, <1>8 DEF Object
<1>10. \A b \in DOMAIN h : g[b].id = h[b].id
  BY <1>1, <1>2, <1>8, <1>9
<1>11. \A v : Value(v, g, lo, hi) = Value(v, h, lo, hi)
  BY <1>1, <1>10 DEF Value
<1>12. \A b \in DOMAIN h : b # a => Shows(g[b], g, lo, hi) = Shows(h[b], h, lo, hi)
  BY <1>1, <1>11 DEF Shows
<1>13. PICK n, first : n = Len(o.body) /\ first = FirstField(o)
  OBVIOUS
<1>14. FirstField(p) = first /\ Len(p.body) = n
  BY <1>6, <1>9, <1>13 DEF FirstField
<1>15. PICK s, t : s = Shows(o, h, lo, hi) /\ t = Shows(p, g, lo, hi)
  OBVIOUS
<1>16. /\ s = [kind |-> o.kind,
               body |-> [j \in 1 .. n |-> IF j < first THEN <<"value", o.body[j]>>
                                          ELSE Value(o.body[j], h, lo, hi)]]
       /\ t = [kind |-> o.kind,
               body |-> [j \in 1 .. n |-> IF j < first THEN <<"value", body[j]>>
                                          ELSE Value(body[j], h, lo, hi)]]
  BY <1>9, <1>11, <1>13, <1>14, <1>15 DEF Shows
<1>17. PICK sb, tb : sb = s.body /\ tb = t.body
  OBVIOUS
<1>18. i \in 1 .. n /\ ~(i < first)
  BY <1>5, <1>13
<1>19. tb = [sb EXCEPT ![i] = Value(w, h, lo, hi)]
  <2>1. DOMAIN sb = 1 .. n /\ DOMAIN tb = 1 .. n
    BY <1>16, <1>17
  <2>2. tb[i] = Value(w, h, lo, hi)
    BY <1>6, <1>16, <1>17, <1>18
  <2>3. \A j \in 1 .. n : j # i => tb[j] = sb[j]
    BY <1>6, <1>13, <1>16, <1>17
  <2>4. tb = [j \in 1 .. n |-> tb[j]]
    BY <1>16, <1>17
  <2> QED
    BY <2>1, <2>2, <2>3, <2>4
<1>20. t = [s EXCEPT !.body[i] = Value(w, h, lo, hi)]
  <2>1. PICK k, v : k = o.kind /\ v = Value(w, h, lo, hi)
    OBVIOUS
  <2>2. s = [kind |-> k, body |-> sb] /\ t = [kind |-> k, body |-> tb]
    BY <1>16, <1>17, <2>1
  <2>3. tb = [sb EXCEPT ![i] = v]
    BY <1>19, <2>1
  <2>4. t = [s EXCEPT !.body[i] = v]
    BY <2>2, <2>3
  <2> QED
    BY <2>1, <2>4
<1>21. i \in DOMAIN s.body
  BY <1>16, <1>18
<1> QED
  BY <1>1, <1>2, <1>8, <1>10, <1>11, <1>12, <1>15, <1>20, <1>21 DEF Changed

(* Bsta changes that place of the object, and every way that leads to it   *)
(* sees it.                                                                *)
LEMMA BstaMeans ==
  ASSUME RuntimeIInv, GraphIInv, RuntimeIInv',
         NEW x \in Var, NEW y \in Var, Bsta(x, y)
  PROVE  GraphIInv' /\ graph!GraphNext
<1>1. /\ pc = "mutator" /\ pc' = "mutator" /\ Counted /\ Points(x)
      /\ UNCHANGED <<words, hbegin, hcurrent>>
      /\ shown' = Sees(heap', words', hbegin', hcurrent')
  BY DEF Bsta, Quiet
<1>2. PICK i \in Fields(At(x)) :
        heap' = [heap EXCEPT ![ToData(words[x])].body[i] = words[y]]
  BY DEF Bsta
<1>3. PICK g, st, e : g = shown /\ st = g.store /\ e = g.env
  OBVIOUS
<1>4. PICK a, w, h, L : /\ a = ToData(words[x]) /\ w = words[y] /\ h = heap'
                        /\ L = DOMAIN st
  OBVIOUS
<1>5. /\ Agreed(heap, words, hbegin, hcurrent) /\ Distinct(heap)
      /\ Meaningful(heap, words, hbegin, hcurrent)
  BY <1>1 DEF GraphIInv, Agreed, Meaningful
<1>6. PICK was : was = Objects(heap, hbegin, hcurrent)
  OBVIOUS
<1>7. /\ e = Variables(heap, words, hbegin, hcurrent)
      /\ st = [n \in L |-> was[n]] /\ L \subseteq Ids(heap)
      /\ graph!Held(e) \subseteq L /\ RefersWithin(st, L)
  BY <1>3, <1>4, <1>5, <1>6, ShownFacts
<1>8. PICK o, m : o = heap[a] /\ m = o.id
  OBVIOUS
<1>9. /\ graph!IsObject(e[x]) /\ graph!ObjectOf(e[x]) = m
      /\ m \in L /\ st[m] = Shows(o, heap, hbegin, hcurrent)
  <2>1. At(x) = o
    BY <1>4, <1>8 DEF At
  <2> QED
    BY <1>1, <1>3, <1>4, <1>8, <2>1, PointsShown
<1>10. PICK v : v = Value(w, heap, hbegin, hcurrent)
  OBVIOUS
<1>11. e[y] = v
  BY <1>1, <1>3, <1>4, <1>10, VariablesShown
<1>12. /\ DOMAIN h = DOMAIN heap /\ \A b \in DOMAIN heap : h[b].id = heap[b].id
       /\ \A u : Value(u, h, hbegin, hcurrent) = Value(u, heap, hbegin, hcurrent)
       /\ \A b \in DOMAIN heap : b # a =>
            Shows(h[b], h, hbegin, hcurrent) = Shows(heap[b], heap, hbegin, hcurrent)
       /\ i \in DOMAIN Shows(o, heap, hbegin, hcurrent).body
       /\ Shows(h[a], h, hbegin, hcurrent)
            = [Shows(o, heap, hbegin, hcurrent) EXCEPT !.body[i] = v]
       /\ a \in DOMAIN heap
  <2>1. a \in DOMAIN heap /\ i \in FirstField(heap[a]) .. Len(heap[a].body)
    BY <1>1, <1>2, <1>4, Reading DEF At, Fields
  <2>2. /\ HeapOK(heap, hbegin, hcurrent) /\ w \in Int /\ hbegin \in Nat \ {0}
    BY <1>1, <1>4, Between, ReadyHeap, Layout
  <2>3. h = Stored(heap, a, i, w)
    BY <1>2, <1>4 DEF Stored
  <2> QED
    <3>1. PICK h0, lo, hi : h0 = heap /\ lo = hbegin /\ hi = hcurrent
      OBVIOUS
    <3>2. Changed(h, h0, lo, hi, a, i, w)
      BY <1>5, <2>1, <2>2, <2>3, <3>1, StoredShows
    <3> QED
      BY <1>8, <1>10, <2>1, <3>1, <3>2 DEF Changed
<1>13. Distinct(h) /\ Ids(h) = Ids(heap)
  BY <1>5, <1>12 DEF Distinct, Ids
<1>14. e = Variables(h, words, hbegin, hcurrent)
  BY <1>7, <1>12 DEF Variables
<1>15. PICK now, s2 : /\ now = Objects(h, hbegin, hcurrent)
                      /\ s2 = [n \in L |-> now[n]]
  OBVIOUS
<1>16. Meaningful(h, words, hbegin, hcurrent)
  <2>1. Ready' /\ Distinct(heap)'
    BY <1>1, <1>4, <1>13 DEF RuntimeIInv, Distinct
  <2>2. Meaningful(heap, words, hbegin, hcurrent)'
    BY <2>1, MeaningfulAfter
  <2> QED
    BY <1>1, <1>4, <2>2 DEF Meaningful
<1>17. ASSUME NEW n \in L
       PROVE  now[n] = IF n = m THEN [st[m] EXCEPT !.body[i] = v] ELSE st[n]
  <2>1. PICK b \in DOMAIN heap : heap[b].id = n
    BY <1>7 DEF Ids
  <2>2. now[n] = Shows(h[b], h, hbegin, hcurrent)
    <3>1. b \in DOMAIN h /\ h[b].id = n
      BY <1>12, <2>1
    <3> QED
      BY <1>15, <1>16, <3>1, ObjectsFacts
  <2>3. st[n] = Shows(heap[b], heap, hbegin, hcurrent)
    <3>1. was[n] = Shows(heap[b], heap, hbegin, hcurrent)
      BY <1>5, <1>6, <2>1, ObjectsFacts
    <3> QED
      BY <1>7, <3>1
  <2>4. n = m <=> b = a
    BY <1>5, <1>8, <1>12, <2>1 DEF Distinct
  <2>5. CASE b = a
    BY <1>8, <1>9, <1>12, <2>2, <2>4, <2>5
  <2>6. CASE b # a
    BY <1>12, <2>2, <2>3, <2>4, <2>6
  <2> QED
    BY <2>5, <2>6
<1>18. s2 = [st EXCEPT ![m].body[i] = v]
  <2>1. PICK o2 : o2 = [st[m] EXCEPT !.body[i] = v]
    OBVIOUS
  <2>2. s2 = [n \in L |-> IF n = m THEN o2 ELSE st[n]]
    BY <1>15, <1>17, <2>1
  <2>3. [st EXCEPT ![m] = o2] = [n \in L |-> IF n = m THEN o2 ELSE st[n]]
    BY <1>7
  <2>4. [st EXCEPT ![m].body[i] = v] = [st EXCEPT ![m] = o2]
    BY <2>1
  <2> QED
    BY <2>2, <2>3, <2>4
<1>19. RefersWithin(s2, L)
  <2> SUFFICES ASSUME NEW n \in L PROVE graph!Named(s2[n].body) \subseteq L
    BY DEF RefersWithin
  <2>1. CASE n # m
    <3>1. s2[n] = st[n]
      BY <1>15, <1>17, <2>1
    <3> QED
      BY <1>7, <3>1 DEF RefersWithin
  <2>2. CASE n = m
    <3>1. PICK old, new : old = st[m].body /\ new = s2[m].body
      OBVIOUS
    <3>2. /\ DOMAIN new = DOMAIN old /\ new[i] = v
          /\ \A j \in DOMAIN old : j # i => new[j] = old[j]
      <4>1. s2[m] = [st[m] EXCEPT !.body[i] = v]
        BY <1>9, <1>15, <1>17
      <4>2. PICK q, k : q = Shows(o, heap, hbegin, hcurrent).body /\ k = o.kind
        OBVIOUS
      <4>3. st[m] = [kind |-> k, body |-> q] /\ old = q /\ i \in DOMAIN q
        BY <1>9, <1>12, <3>1, <4>2 DEF Shows
      <4>4. s2[m] = [kind |-> k, body |-> [q EXCEPT ![i] = v]]
        BY <4>1, <4>3
      <4>5. new = [q EXCEPT ![i] = v]
        BY <3>1, <4>4
      <4> QED
        BY <4>3, <4>5
    <3>3. ASSUME NEW j \in DOMAIN new, graph!IsObject(new[j])
          PROVE  graph!ObjectOf(new[j]) \in L
      <4>1. CASE j = i
        BY <1>7, <1>11, <3>2, <3>3, <4>1 DEF graph!Held
      <4>2. CASE j # i
        <5>1. graph!Named(old) \subseteq L
          BY <1>7, <1>9, <3>1 DEF RefersWithin
        <5> QED
          BY <3>2, <3>3, <4>2, <5>1 DEF graph!Named
      <4> QED
        BY <4>1, <4>2
    <3>4. graph!Named(new) \subseteq L
      BY <3>3, NamedIn
    <3> QED
      BY <2>2, <3>1, <3>4
  <2> QED
    BY <2>1, <2>2
<1>20. GraphIInv' /\ graph!Become(s2, e)
  <2>1. PICK ws : ws = words'
    OBVIOUS
  <2>2. ws = words /\ L \in SUBSET Ids(h)
    BY <1>1, <1>7, <1>13, <2>1
  <2>3. s2 = [n \in L |-> Objects(h, hbegin, hcurrent)[n]]
    BY <1>15
  <2>4. e = Variables(h, ws, hbegin, hcurrent)
    BY <1>14, <2>2
  <2> QED
    BY <1>1, <1>4, <1>7, <1>13, <1>19, <2>1, <2>2, <2>3, <2>4, BecomesSeen
<1>21. graph!Assign(x, y)
  <2>1. i \in DOMAIN st[m].body
    BY <1>9, <1>12
  <2>2. graph!Become([st EXCEPT ![m].body[i] = e[y]], e)
    BY <1>11, <1>18, <1>20
  <2> QED
    BY <1>3, <1>9, <2>1, <2>2 DEF graph!Assign
<1> QED
  BY <1>20, <1>21 DEF graph!GraphNext

(* LgetEnv finds no variable of the environment, or makes a string of it.  *)
LEMMA LgetEnvMeans ==
  ASSUME RuntimeIInv, GraphIInv, RuntimeIInv',
         NEW x \in Var, NEW dest \in Assignable, LgetEnv(x, dest)
  PROVE  GraphIInv' /\ (graph!GraphNext \/ UNCHANGED shown)
<1>1. pc = "mutator" /\ Foreign("LgetEnv", Pushed(<<x>>), dest)
  BY DEF LgetEnv
<1>2. PushedOK(Pushed(<<x>>), <<Inner(1)>>)
  BY <1>1, PushedOne
<1> QED
  BY <1>1, <1>2, Names, ForeignMeans

(* LreadLine is at the end of the input, or makes a string of a line.      *)
LEMMA LreadLineMeans ==
  ASSUME RuntimeIInv, GraphIInv, RuntimeIInv', NEW dest \in Assignable, LreadLine(dest)
  PROVE  GraphIInv' /\ (graph!GraphNext \/ UNCHANGED shown)
<1>1. Foreign("LreadLine", <<>>, dest)
  BY DEF LreadLine
<1>2. PushedOK(<<>>, <<Inner(1)>>)
  BY NothingPushed
<1> QED
  BY <1>1, <1>2, Names, ForeignMeans

(* A program that stops sees nothing more.                                 *)
LEMMA LateOverflowMeans ==
  ASSUME LateOverflow PROVE GraphIInv' /\ UNCHANGED shown
BY DEF LateOverflow, GraphIInv, MarkPC, CompactPC, Collecting
-----------------------------------------------------------------------------
(* The n strings of the command line are all there is to see.              *)
CommandLine(n, s, e) ==
  /\ Started(n) = [store |-> s, env |-> e]
  /\ e = [x \in Var |-> IF x = SysArgs THEN <<"object", 0>> ELSE <<"value", Nil>>]
  /\ s = Filling(n + 1, n) /\ DOMAIN s = 0 .. n
  /\ graph!Held(e) \subseteq DOMAIN s /\ graph!Kept(s, e) = s

(* It is the graph set_args is to leave behind.                            *)
LEMMA StartedFacts ==
  ASSUME NEW n \in Nat, NEW s, s = Started(n).store, NEW e, e = Started(n).env
  PROVE  CommandLine(n, s, e)
<1>1. /\ Started(n) = [store |-> s, env |-> e]
      /\ e = [x \in Var |-> IF x = SysArgs THEN <<"object", 0>> ELSE <<"value", Nil>>]
  BY DEF Started
<1>2. PICK f, d : f = Filling(d, n) /\ d = n + 1
  OBVIOUS
<1>3. d \in Nat /\ 0 < d /\ d <= n + 1 /\ 0 .. d - 1 = 0 .. n
      /\ \A j \in 1 .. n : j < d
  BY <1>2
<1>4. /\ DOMAIN f = 0 .. n
      /\ f = [i \in 0 .. n |-> f[i]]
      /\ f[0] = [kind |-> "ARRAY", body |-> [j \in 1 .. n |-> <<"object", j>>]]
      /\ \A i \in 0 .. n : i # 0 =>
           f[i] = [kind |-> "STRING", body |-> <<<<"value", Argument(i)[1]>>>>]
  <2>1. f = [i \in 0 .. n |->
               IF i = 0
               THEN [kind |-> "ARRAY",
                     body |-> [j \in 1 .. n |-> IF j < d THEN <<"object", j>>
                                                ELSE <<"value", Nil>>]]
               ELSE [kind |-> "STRING", body |-> <<<<"value", Argument(i)[1]>>>>]]
    BY <1>2, <1>3 DEF Filling
  <2>2. [j \in 1 .. n |-> IF j < d THEN <<"object", j>> ELSE <<"value", Nil>>]
          = [j \in 1 .. n |-> <<"object", j>>]
    BY <1>3
  <2>3. 0 \in 0 .. n
    OBVIOUS
  <2> QED
    BY <2>1, <2>2, <2>3
<1>5. s = f
  <2>1. DOMAIN s = 0 .. n /\ s = [i \in 0 .. n |-> s[i]]
    BY DEF Started
  <2>2. \A i \in 0 .. n : s[i] = f[i]
    BY <1>4 DEF Started
  <2> QED
    BY <1>4, <2>1, <2>2
<1>6. RefersWithin(s, DOMAIN s)
  <2> SUFFICES ASSUME NEW i \in 0 .. n PROVE graph!Named(s[i].body) \subseteq 0 .. n
    BY <1>4, <1>5 DEF RefersWithin
  <2>1. PICK b : b = s[i].body
    OBVIOUS
  <2>2. ASSUME NEW j \in DOMAIN b, graph!IsObject(b[j])
        PROVE  graph!ObjectOf(b[j]) \in 0 .. n
    <3>1. CASE i = 0
      <4>1. b = [k \in 1 .. n |-> <<"object", k>>]
        <5>1. PICK q : q = [k \in 1 .. n |-> <<"object", k>>]
          OBVIOUS
        <5>2. f[0] = [kind |-> "ARRAY", body |-> q]
          BY <1>4, <5>1
        <5>3. b = f[0].body
          BY <1>5, <2>1, <3>1
        <5> QED
          BY <5>1, <5>2, <5>3
      <4>2. j \in 1 .. n /\ graph!ObjectOf(b[j]) = j
        BY <4>1, Tagged
      <4> QED
        BY <4>2
    <3>2. CASE i # 0
      <4>1. b = <<<<"value", Argument(i)[1]>>>>
        BY <1>4, <1>5, <2>1, <3>2
      <4>2. j = 1 /\ b[1] = <<"value", Argument(i)[1]>>
        BY <4>1
      <4> QED
        BY <2>2, <4>2, Tagged
    <3> QED
      BY <3>1, <3>2
  <2> QED
    BY <2>1, <2>2, NamedIn
<1>7. SysArgs \in Var /\ graph!Held(e) = {0}
  <2>1. SysArgs \in Var
    BY DEF Var
  <2>2. \A x \in Var : graph!IsObject(e[x]) => x = SysArgs
    BY <1>1, Tagged
  <2>3. graph!IsObject(e[SysArgs]) /\ graph!ObjectOf(e[SysArgs]) = 0
    BY <1>1, <2>1, Tagged
  <2> QED
    BY <2>1, <2>2, <2>3 DEF graph!Held
<1>8. 0 \in DOMAIN s
  BY <1>4, <1>5
<1>9. PICK L : L = graph!Reached(s, e)
  OBVIOUS
<1>10. L \subseteq DOMAIN s /\ 0 \in L /\ RefersWithin(s, L)
  BY <1>6, <1>7, <1>8, <1>9, ReachedFacts
<1>11. L = 0 .. n
  <2>1. L \in SUBSET (0 .. d - 1)
    BY <1>3, <1>4, <1>5, <1>10
  <2>2. RefersWithin(Filling(d, n), L)
    BY <1>2, <1>5, <1>10
  <2>3. L = 0 .. d - 1
    BY <1>3, <1>10, <2>1, <2>2, FillingHolds
  <2> QED
    BY <1>3, <2>3
<1>12. graph!Kept(s, e) = s
  <2>1. graph!Kept(s, e) = [i \in L |-> s[i]]
    BY <1>9 DEF graph!Kept, graph!Restrict
  <2> QED
    BY <1>4, <1>5, <1>11, <2>1
<1> QED
  BY <1>1, <1>2, <1>4, <1>5, <1>7, <1>8, <1>12 DEF CommandLine

(* Before set_args the heap is empty and what is shown is the command line *)
(* to come.                                                                *)
LEMMA GraphInitial ==
  ASSUME EnoughNames, RuntimeInit PROVE GraphIInv /\ graph!GraphInit
<1>1. PICK n : n = todo.argc
  OBVIOUS
<1>2. /\ todo \in Programs /\ pc = "start" /\ heap = <<>> /\ shown = Started(n)
      /\ words = [s \in Slot |-> IF s = SysArgs THEN 0 ELSE Nil]
  BY <1>1 DEF RuntimeInit
<1>3. n \in Nat /\ todo.argc + todo.calls <= MaxName
  BY <1>1, <1>2, ProgramAssumption DEF EnoughNames
<1>4. \A x \in Assignable : x \in Slot /\ x # SysArgs
  BY Layout
<1>5. GraphIInv
  BY <1>1, <1>2, <1>3, <1>4 DEF GraphIInv, MarkPC, CompactPC, Collecting
<1>6. PICK s, e : s = shown.store /\ e = shown.env
  OBVIOUS
<1>7. /\ e = [x \in Var |-> IF x = SysArgs THEN <<"object", 0>> ELSE <<"value", Nil>>]
      /\ graph!Held(e) \subseteq DOMAIN s /\ graph!Kept(s, e) = s
  <2>1. CommandLine(n, s, e)
    BY <1>2, <1>3, <1>6, StartedFacts
  <2> QED
    BY <2>1 DEF CommandLine
<1>8. \A x \in Var : graph!IsObject(e[x]) => graph!ObjectOf(e[x]) \in DOMAIN s
  BY <1>7 DEF graph!Held
<1>9. graph!GraphInit
  BY <1>6, <1>7, <1>8 DEF graph!GraphInit
<1> QED
  BY <1>5, <1>9

(* set_args begins.                                                        *)
LEMMA SetArgsMeans ==
  ASSUME RuntimeIInv, GraphIInv, RuntimeIInv', SetArgs
  PROVE  GraphIInv' /\ UNCHANGED shown
<1>1. /\ pc = "start" /\ pc' = "call" /\ UNCHANGED <<todo, shown>>
      /\ UNCHANGED <<heap, words, hbegin, hcurrent>>
      /\ call'.fn = "set_args" /\ call'.done = 0
      /\ call'.raw = [i \in 1 .. todo.argc |-> Nil]
  BY DEF SetArgs, memory
<1>2. /\ shown = Started(todo.argc) /\ heap = <<>>
      /\ \A x \in Assignable : words[x] = Nil
      /\ todo.argc + todo.calls <= MaxName
  BY <1>1 DEF GraphIInv
<1>3. PICK h, ws, lo, hi : h = heap /\ ws = words /\ lo = hbegin /\ hi = hcurrent
  OBVIOUS
<1>4. DOMAIN h = {}
  BY <1>2, <1>3
<1>5. Meaningful(h, ws, lo, hi)
  <2>1. Ready' /\ Distinct(heap)'
    BY <1>1, <1>3, <1>4 DEF RuntimeIInv, Distinct
  <2>2. Meaningful(heap, words, hbegin, hcurrent)'
    BY <2>1, MeaningfulAfter
  <2> QED
    BY <1>1, <1>3, <2>2 DEF Meaningful
<1>6. ASSUME NEW x \in Assignable PROVE Value(ws[x], h, lo, hi) = <<"value", Nil>>
  <2>1. PICK w : w = ws[x]
    OBVIOUS
  <2>2. w = Nil /\ lo \in Nat \ {0}
    BY <1>2, <1>3, <1>5, <2>1 DEF Meaningful
  <2>3. w \in Int /\ w <= 0 /\ Sound(w, h, lo, hi)
    BY <2>2 DEF Nil, Sound
  <2>4. Value(w, h, lo, hi) = <<"value", w>>
    BY <2>2, <2>3, ValueFacts
  <2> QED
    BY <2>1, <2>2, <2>4
<1>7. PICK n : n = todo.argc
  OBVIOUS
<1>8. n \in Nat
  BY <1>7 DEF RuntimeIInv, Setting
<1>9. Objects(h, lo, hi) = Filling(0, n)
  <2>1. PICK f, g : f = Filling(0, n) /\ g = Objects(h, lo, hi)
    OBVIOUS
  <2>2. f = [i \in {} |-> f[i]]
    <3>1. 0 .. 0 - 1 = {}
      OBVIOUS
    <3> QED
      BY <2>1, <3>1 DEF Filling
  <2>3. g = [i \in {} |-> g[i]]
    <3>1. Ids(h) = {}
      BY <1>4 DEF Ids
    <3> QED
      BY <2>1, <3>1 DEF Objects
  <2> QED
    BY <2>1, <2>2, <2>3
<1>10. ArgsMade(h, ws, lo, hi)'
  BY <1>1, <1>5, <1>6, <1>7, <1>9 DEF ArgsMade
<1>11. CallAgreed(h, ws, lo, hi)'
  BY <1>1, <1>2, <1>10 DEF CallAgreed
<1>12. CallAgreed(heap, words, hbegin, hcurrent)'
  BY <1>1, <1>3, <1>11
<1> QED
  BY <1>1, <1>12 DEF GraphIInv, MarkPC, CompactPC, Collecting

(* What set_args has made when an allocation of it is done, ...            *)
LEMMA ArgFacts ==
  ASSUME RuntimeIInv, GraphIInv, NextArg, NEW i, i = call.done, NEW n, n = todo.argc
  PROVE  /\ Ready /\ Supplied(call, heap, words) /\ call \in ArgCalls
         /\ call \in Calls \cup ArgCalls /\ Len(call.args) = 0
         /\ Meaningful(heap, words, hbegin, hcurrent) /\ Distinct(heap)
         /\ n \in Nat /\ i \in 0 .. n /\ Ids(heap) = 0 .. i - 1 /\ FreeName = i
         /\ Objects(heap, hbegin, hcurrent) = Filling(i, n)
         /\ \A x \in Assignable : Value(words[x], heap, hbegin, hcurrent) = <<"value", Nil>>
         /\ i = 0 => call.kind = "ARRAY" /\ call.raw = [j \in 1 .. n |-> Nil]
         /\ i # 0 => /\ call.kind = "STRING" /\ call.raw = Argument(i)
                     /\ Value(words[ArgArray], heap, hbegin, hcurrent) = <<"object", 0>>
         /\ shown = Started(n) /\ n + todo.calls <= MaxName
<1>1. pc \in {"call", "compacted"} /\ call.fn = "set_args"
  BY DEF NextArg
<1>2. Setting /\ CallTyped /\ Ready /\ Supplied(call, heap, words)
  BY <1>1, InTheCall
<1>3. /\ call \in ArgCalls /\ Len(call.args) = 0 /\ i \in 0 .. n /\ n \in Nat
      /\ i = 0 => call.kind = "ARRAY"
      /\ i # 0 => call.kind = "STRING"
  BY <1>1, <1>2 DEF CallTyped, Setting
<1>4. CallAgreed(heap, words, hbegin, hcurrent)
  BY <1>1 DEF GraphIInv
<1>5. /\ shown = Started(n) /\ ArgsMade(heap, words, hbegin, hcurrent)
      /\ n + todo.calls <= MaxName
  BY <1>1, <1>4 DEF CallAgreed
<1>6. /\ Meaningful(heap, words, hbegin, hcurrent) /\ Distinct(heap)
      /\ Objects(heap, hbegin, hcurrent) = Filling(i, n)
      /\ \A x \in Assignable : Value(words[x], heap, hbegin, hcurrent) = <<"value", Nil>>
      /\ 0 < i => Value(words[ArgArray], heap, hbegin, hcurrent) = <<"object", 0>>
      /\ call.raw = IF i = 0 THEN [j \in 1 .. n |-> Nil] ELSE Argument(i)
  BY <1>5 DEF ArgsMade, Meaningful
<1>7. Ids(heap) = 0 .. i - 1
  <2>1. PICK f : f = Filling(i, n)
    OBVIOUS
  <2>2. DOMAIN f = Ids(heap)
    BY <1>6, <2>1, ObjectsFacts
  <2>3. i \in Nat
    BY <1>3
  <2>4. DOMAIN f = 0 .. i - 1
    BY <2>1 DEF Filling
  <2> QED
    BY <2>2, <2>4
<1>8. FreeName = i
  <2>1. PICK m : m = FreeName
    OBVIOUS
  <2>2. /\ m \in Nat /\ m \notin 0 .. i - 1
        /\ \A k \in Nat : k < m => k \in 0 .. i - 1
    BY <1>2, <1>7, <2>1, FreeNameType, ReadyHeap
  <2>3. i \in Nat
    BY <1>3
  <2>4. ~(m < i)
    BY <2>2, <2>3
  <2>5. ~(i < m)
    BY <2>2, <2>3
  <2> QED
    BY <2>1, <2>2, <2>3, <2>4, <2>5
<1>9. i # 0 => 0 < i
  BY <1>3
<1> QED
  BY <1>2, <1>3, <1>5, <1>6, <1>7, <1>8, <1>9

(* An empty variable shows as the number in it.                            *)
LEMMA NilShows ==
  ASSUME NEW h, NEW lo \in Nat \ {0}, NEW hi
  PROVE  Value(Nil, h, lo, hi) = <<"value", Nil>>
<1>1. PICK w : w = Nil
  OBVIOUS
<1>2. w \in Int /\ w <= 0 /\ Sound(w, h, lo, hi)
  BY <1>1 DEF Nil, Sound
<1>3. Value(w, h, lo, hi) = <<"value", w>>
  BY <1>2, ValueFacts
<1> QED
  BY <1>1, <1>3

Blank(n) == [kind |-> "ARRAY", body |-> [j \in 1 .. n |-> <<"value", Nil>>]]

Word(i) == [kind |-> "STRING", body |-> <<<<"value", Argument(i)[1]>>>>]

(* ... and the object it made last.                                        *)
LEMMA ArgShows ==
  ASSUME RuntimeIInv, GraphIInv, NextArg, NEW i, i = call.done, NEW n, n = todo.argc,
         NEW c, c = Created, NEW hi, hi = hcurrent + Request,
         NEW o, o = Shows(c[hcurrent], c, hbegin, hi)
  PROVE  /\ i = 0 => o = Blank(n)
         /\ i # 0 => o = Word(i)
<1>1. /\ Ready /\ Supplied(call, heap, words) /\ call \in ArgCalls
      /\ call \in Calls \cup ArgCalls /\ Len(call.args) = 0
      /\ Distinct(heap) /\ n \in Nat
      /\ hbegin \in Nat \ {0}
  BY ArgFacts, ReadyHeap
<1>2. /\ i = 0 => call.kind = "ARRAY" /\ call.raw = [j \in 1 .. n |-> Nil]
      /\ i # 0 => call.kind = "STRING" /\ call.raw = Argument(i)
      /\ i \in 0 .. n
  BY ArgFacts
<1>3. PICK f, b : f = Filled /\ b = o.body
  OBVIOUS
<1>4. Displays(b, f, call.kind)
  <2>1. PICK b2 : b2 = Shows(c[hcurrent], c, hbegin, hi).body
    OBVIOUS
  <2>2. Displays(b2, f, call.kind)
    BY <1>1, <1>3, <2>1, NewShows
  <2> QED
    BY <1>3, <2>1, <2>2
<1>5. PICK r, m : r = call.raw /\ m = Len(r)
  OBVIOUS
<1>6. /\ Len(f) = m /\ \A j \in 1 .. m : f[j] = r[j]
  <2>1. PICK q : q = [j \in 1 .. Len(call.args) |-> words[call.args[j]]]
    OBVIOUS
  <2>2. q = <<>>
    BY <1>1, <2>1
  <2>3. r \in Seq(Int) /\ call.source = "words"
    BY <1>1, <1>5 DEF ArgCalls
  <2>4. f = r \o q
    BY <1>3, <1>5, <2>1, <2>3 DEF Filled
  <2>5. f = r
    <3>1. r \o <<>> = r
      BY <2>3
    <3> QED
      BY <2>2, <2>4, <3>1
  <2> QED
    BY <1>5, <2>5
<1>7. /\ b = [j \in 1 .. m |-> b[j]]
      /\ call.kind = "STRING" => \A j \in 1 .. m : b[j] = <<"value", f[j]>>
      /\ call.kind = "ARRAY" => \A j \in 1 .. m : b[j] = Value(f[j], heap, hbegin, hcurrent)
  BY <1>4, <1>6 DEF Displays
<1>8. o = [kind |-> call.kind, body |-> b]
  <2>1. c[hcurrent].kind = call.kind
    BY <1>1, CreatedFacts
  <2> QED
    BY <1>3, <2>1 DEF Shows
<1>9. CASE i = 0
  <2>1. r = [j \in 1 .. n |-> Nil] /\ call.kind = "ARRAY"
    BY <1>2, <1>5, <1>9
  <2>2. m = n
    BY <1>1, <1>5, <2>1
  <2>3. Value(Nil, heap, hbegin, hcurrent) = <<"value", Nil>>
    BY <1>1, NilShows
  <2>4. \A j \in 1 .. n : b[j] = <<"value", Nil>>
    BY <1>6, <1>7, <2>1, <2>2, <2>3
  <2>5. b = [j \in 1 .. n |-> <<"value", Nil>>]
    BY <1>7, <2>2, <2>4
  <2> QED
    BY <1>8, <1>9, <2>1, <2>5 DEF Blank
<1>10. CASE i # 0
  <2>1. PICK w : w = RawWord + i
    OBVIOUS
  <2>2. r = <<w>> /\ call.kind = "STRING" /\ Argument(i)[1] = w
    BY <1>2, <1>5, <1>10, <2>1 DEF Argument
  <2>3. m = 1 /\ r[1] = w
    BY <1>5, <2>2
  <2>4. b[1] = <<"value", w>> /\ b = [j \in 1 .. 1 |-> b[j]]
    BY <1>6, <1>7, <2>2, <2>3
  <2>5. b = <<<<"value", w>>>>
    BY <2>4
  <2> QED
    BY <1>8, <1>10, <2>2, <2>5 DEF Word
<1> QED
  BY <1>9, <1>10

(* One string more.                                                        *)
Fuller(i, n) == Filling(i + 1, n)

Grown(f, g, i, n) ==
  /\ DOMAIN g = 0 .. i
  /\ i = 0 => g[0] = Blank(n)
  /\ i # 0 => /\ g[i] = Word(i)
              /\ g[0] = [f[0] EXCEPT !.body[i] = <<"object", i>>]
              /\ \A m \in 0 .. i - 1 : m # 0 => g[m] = f[m]

(* One more string of the command line, and nothing else.                  *)
LEMMA FillingGrows ==
  ASSUME NEW n \in Nat, NEW i \in 0 .. n
  PROVE  Grown(Filling(i, n), Fuller(i, n), i, n)
<1>0. PICK f, g : f = Filling(i, n) /\ g = Fuller(i, n)
  OBVIOUS
<1>1. PICK d : d = i + 1
  OBVIOUS
<1>2. /\ 0 .. d - 1 = 0 .. i /\ 0 \in 0 .. i /\ i \in 0 .. i
      /\ \A j \in 1 .. n : j < d <=> j < i \/ j = i
      /\ \A m \in 0 .. i - 1 : m \in 0 .. i
      /\ i # 0 => 0 \in 0 .. i - 1 /\ i \in 1 .. n
      /\ i = 0 => \A j \in 1 .. n : ~(j < d)
  BY <1>1
<1>3. PICK q, p : /\ q = [j \in 1 .. n |-> IF j < d THEN <<"object", j>>
                                           ELSE <<"value", Nil>>]
                  /\ p = [j \in 1 .. n |-> IF j < i THEN <<"object", j>>
                                           ELSE <<"value", Nil>>]
  OBVIOUS
<1>4. g = [k \in 0 .. i |->
             IF k = 0 THEN [kind |-> "ARRAY", body |-> q]
             ELSE [kind |-> "STRING", body |-> <<<<"value", Argument(k)[1]>>>>]]
  BY <1>0, <1>1, <1>2, <1>3 DEF Filling, Fuller
<1>5. f = [k \in 0 .. i - 1 |->
             IF k = 0 THEN [kind |-> "ARRAY", body |-> p]
             ELSE [kind |-> "STRING", body |-> <<<<"value", Argument(k)[1]>>>>]]
  BY <1>0, <1>3 DEF Filling
<1>6. g[0] = [kind |-> "ARRAY", body |-> q]
  BY <1>2, <1>4
<1>7. ASSUME i = 0
      PROVE  q = [j \in 1 .. n |-> <<"value", Nil>>]
  BY <1>2, <1>3, <1>7
<1>8. ASSUME i # 0
      PROVE  g[0] = [f[0] EXCEPT !.body[i] = <<"object", i>>]
  <2>1. q = [p EXCEPT ![i] = <<"object", i>>]
    BY <1>2, <1>3, <1>8
  <2>2. f[0] = [kind |-> "ARRAY", body |-> p]
    BY <1>2, <1>5, <1>8
  <2>3. PICK v : v = <<"object", i>>
    OBVIOUS
  <2>4. [f[0] EXCEPT !.body[i] = v] = [kind |-> "ARRAY", body |-> [p EXCEPT ![i] = v]]
    BY <2>2
  <2> QED
    BY <1>6, <2>1, <2>3, <2>4
<1>9. ASSUME i # 0, NEW m \in 0 .. i - 1, m # 0 PROVE g[m] = f[m]
  BY <1>2, <1>4, <1>5, <1>9
<1>10. i # 0 => g[i] = [kind |-> "STRING", body |-> <<<<"value", Argument(i)[1]>>>>]
  BY <1>2, <1>4
<1> QED
  BY <1>0, <1>4, <1>6, <1>7, <1>8, <1>9, <1>10 DEF Blank, Word, Grown

(* The heap of set_args, with the array and the strings made so far.       *)
ArgsIn(h, lo, hi, p, i, n) ==
  /\ Distinct(h) /\ Ids(h) = 0 .. i
  /\ Value(p, h, lo, hi) = <<"object", 0>>
  /\ \A a \in DOMAIN h : Shows(h[a], h, lo, hi) = Fuller(i, n)[h[a].id]

(* The array of the arguments, once allocated, shows as an array of        *)
(* numbers.                                                                *)
LEMMA ArgFirst ==
  ASSUME RuntimeIInv, GraphIInv, NextArg, call.done = 0, NEW n, n = todo.argc,
         NEW h, h = heap', NEW hi, hi = hcurrent'
  PROVE  /\ ArgsIn(h, hbegin, hi, Content(hcurrent), 0, n)
         /\ \A w \in Int : Sound(w, heap, hbegin, hcurrent) =>
              Value(w, h, hbegin, hi) = Value(w, heap, hbegin, hcurrent)
<1>1. h = Created /\ hi = hcurrent + Request
  BY DEF NextArg
<1>2. PICK i : i = call.done
  OBVIOUS
<1>3. /\ Ready /\ Supplied(call, heap, words) /\ call \in Calls \cup ArgCalls
      /\ Distinct(heap) /\ n \in Nat /\ i \in 0 .. n
      /\ Ids(heap) = 0 .. i - 1 /\ FreeName = i
  BY <1>2, ArgFacts
<1>4. DOMAIN heap = {}
  <2>1. Ids(heap) = {}
    BY <1>2, <1>3
  <2> QED
    BY <2>1 DEF Ids
<1>5. PICK m : m = FreeName
  OBVIOUS
<1>6. /\ Ids(h) = Ids(heap) \cup {m} /\ Distinct(h) /\ h[hcurrent].id = m
      /\ \A w \in Int : Sound(w, heap, hbegin, hcurrent) =>
           Value(w, h, hbegin, hi) = Value(w, heap, hbegin, hcurrent)
      /\ Value(Content(hcurrent), h, hbegin, hi) = <<"object", m>>
  BY <1>1, <1>3, <1>5, Extended
<1>7. m = 0
  BY <1>2, <1>3, <1>5
<1>8. DOMAIN h = {hcurrent}
  BY <1>1, <1>3, <1>4, CreatedFacts
<1>9. PICK o, g : o = Shows(h[hcurrent], h, hbegin, hi) /\ g = Fuller(i, n)
  OBVIOUS
<1>10. o = Blank(n)
  BY <1>1, <1>2, <1>9, ArgShows
<1>11. o = g[0]
  <2>1. n \in Nat /\ i \in 0 .. n
    BY <1>3
  <2>2. Grown(Filling(i, n), Fuller(i, n), i, n)
    BY <2>1, FillingGrows
  <2>3. i = 0 => g[0] = Blank(n)
    BY <1>9, <2>2 DEF Grown
  <2> QED
    BY <1>2, <1>10, <2>3
<1>12. Fuller(0, n) = g
  BY <1>2, <1>9
<1>13. \A a \in DOMAIN h : Shows(h[a], h, hbegin, hi) = Fuller(0, n)[h[a].id]
  BY <1>6, <1>7, <1>8, <1>9, <1>11, <1>12
<1>14. Ids(h) = 0 .. 0
  BY <1>4, <1>6, <1>7 DEF Ids
<1> QED
  BY <1>6, <1>7, <1>13, <1>14 DEF ArgsIn

(* One more string, and the array then shows it in its place.              *)
LEMMA ArgNext ==
  ASSUME RuntimeIInv, GraphIInv, NextArg, NEW i, i = call.done, i # 0,
         NEW n, n = todo.argc, NEW h, h = heap', NEW hi, hi = hcurrent',
         NEW p, p = words[ArgArray]
  PROVE  /\ ArgsIn(h, hbegin, hi, p, i, n)
         /\ \A w \in Int : Sound(w, heap, hbegin, hcurrent) =>
              Value(w, h, hbegin, hi) = Value(w, heap, hbegin, hcurrent)
<1>1. PICK c, a, w, lo : /\ c = Created /\ a = ToData(p) /\ w = Content(hcurrent)
                         /\ lo = hbegin
  OBVIOUS
<1>2. h = Stored(c, a, i, w) /\ hi = hcurrent + Request
  BY <1>1 DEF NextArg, Stored
<1>3. /\ Ready /\ Supplied(call, heap, words) /\ call \in Calls \cup ArgCalls
      /\ Meaningful(heap, words, hbegin, hcurrent) /\ Distinct(heap)
      /\ n \in Nat /\ i \in 0 .. n /\ Ids(heap) = 0 .. i - 1 /\ FreeName = i
      /\ Objects(heap, hbegin, hcurrent) = Filling(i, n)
      /\ Value(p, heap, hbegin, hcurrent) = <<"object", 0>>
  BY ArgFacts
<1>4. /\ HeapOK(c, lo, hi)
      /\ DOMAIN c = DOMAIN heap \cup {hcurrent} /\ hcurrent \notin DOMAIN heap
      /\ \A b \in DOMAIN heap : c[b] = heap[b]
  BY <1>1, <1>2, <1>3, CreatedFacts
<1>5. PICK m : m = FreeName
  OBVIOUS
<1>6. /\ Ids(c) = Ids(heap) \cup {m} /\ Distinct(c) /\ c[hcurrent].id = m
      /\ \A u \in Int : Sound(u, heap, hbegin, hcurrent) =>
           Value(u, c, hbegin, hi) = Value(u, heap, hbegin, hcurrent)
      /\ Value(w, c, hbegin, hi) = <<"object", m>>
      /\ \A b \in DOMAIN heap :
           Shows(c[b], c, hbegin, hi) = Shows(heap[b], heap, hbegin, hcurrent)
  BY <1>1, <1>2, <1>3, <1>5, Extended
<1>7. m = i
  BY <1>3, <1>5
<1>8. lo \in Nat \ {0} /\ p \in Int /\ Sound(p, heap, hbegin, hcurrent)
  <2>1. ArgArray \in Slot
    BY Layout DEF ArgArray, Inner, Slot
  <2> QED
    BY <1>1, <1>3, <2>1 DEF Meaningful
<1>9. a \in DOMAIN heap /\ heap[a].id = 0
  <2>1. 0 < p
    <3>1. graph!IsObject(Value(p, heap, hbegin, hcurrent))
      BY <1>3, Tagged
    <3> QED
      BY <1>1, <1>8, <3>1, ValueFacts
  <2>2. /\ ToData(p) \in DOMAIN heap
        /\ Value(p, heap, hbegin, hcurrent) = <<"object", heap[ToData(p)].id>>
    BY <1>1, <1>8, <2>1, ValueFacts
  <2> QED
    BY <1>1, <1>3, <2>2
<1>10. i \in FirstField(c[a]) .. Len(c[a].body)
  <2>1. pc \in {"call", "compacted"} /\ call.fn = "set_args"
    BY DEF NextArg
  <2>2. ArrayKept(heap, words)
    BY <2>1, InTheCall
  <2>3. 0 < call.done
    BY <1>3
  <2>4. heap[a].kind = "ARRAY" /\ Len(heap[a].body) = n
    BY <1>1, <2>1, <2>2, <2>3 DEF ArrayKept
  <2>5. FirstField(c[a]) = 1 /\ Len(c[a].body) = n
    BY <1>4, <1>9, <2>4 DEF FirstField
  <2> QED
    BY <1>3, <2>5
<1>11. w \in Int /\ a \in DOMAIN c
  <2>1. hcurrent \in Nat
    BY <1>3, ReadyHeap
  <2>2. w \in Int
    BY <1>1, <2>1, HeaderWordsAssumption DEF Content
  <2> QED
    BY <1>4, <1>9, <2>2
<1>12. Changed(h, c, lo, hi, a, i, w)
  BY <1>2, <1>4, <1>6, <1>8, <1>10, <1>11, StoredShows
<1>13. /\ DOMAIN h = DOMAIN c /\ \A b \in DOMAIN c : h[b].id = c[b].id
       /\ \A v : Value(v, h, hbegin, hi) = Value(v, c, hbegin, hi)
       /\ \A b \in DOMAIN c : b # a =>
            Shows(h[b], h, hbegin, hi) = Shows(c[b], c, hbegin, hi)
       /\ Shows(h[a], h, hbegin, hi) =
            [Shows(c[a], c, hbegin, hi) EXCEPT !.body[i] = Value(w, c, hbegin, hi)]
  BY <1>1, <1>12 DEF Changed
<1>14. Distinct(h) /\ Ids(h) = Ids(c)
  BY <1>6, <1>13 DEF Distinct, Ids
<1>15. Ids(h) = 0 .. i
  BY <1>3, <1>6, <1>7, <1>14
<1>16. PICK f, g : f = Filling(i, n) /\ g = Fuller(i, n)
  OBVIOUS
<1>17. /\ g[i] = Word(i)
       /\ g[0] = [f[0] EXCEPT !.body[i] = <<"object", i>>]
       /\ \A k \in 0 .. i - 1 : k # 0 => g[k] = f[k]
  <2>1. n \in Nat /\ i \in 0 .. n
    BY <1>3
  <2>2. Grown(Filling(i, n), Fuller(i, n), i, n)
    BY <2>1, FillingGrows
  <2> QED
    BY <1>16, <2>2 DEF Grown
<1>18. \A b \in DOMAIN heap : Shows(heap[b], heap, hbegin, hcurrent) = f[heap[b].id]
  BY <1>3, <1>16, ObjectsFacts
<1>19. ASSUME NEW b \in DOMAIN h PROVE Shows(h[b], h, hbegin, hi) = g[h[b].id]
  <2>1. CASE b = a
    <3>1. Shows(c[a], c, hbegin, hi) = f[0]
      BY <1>6, <1>9, <1>18
    <3>2. Shows(h[a], h, hbegin, hi) = [f[0] EXCEPT !.body[i] = <<"object", i>>]
      BY <1>6, <1>7, <1>13, <3>1
    <3>3. h[a].id = 0
      BY <1>4, <1>9, <1>11, <1>13
    <3> QED
      BY <1>17, <2>1, <3>2, <3>3
  <2>2. CASE b = hcurrent
    <3>1. PICK o : o = Shows(c[hcurrent], c, hbegin, hi)
      OBVIOUS
    <3>2. o = Word(i)
      BY <1>1, <1>2, <3>1, ArgShows
    <3>3. b # a /\ b \in DOMAIN c
      BY <1>4, <1>9, <2>2
    <3>4. Shows(h[b], h, hbegin, hi) = o /\ h[b].id = i
      BY <1>6, <1>7, <1>13, <2>2, <3>1, <3>3
    <3> QED
      BY <1>17, <3>2, <3>4
  <2>3. CASE b # a /\ b \in DOMAIN heap
    <3>1. Shows(h[b], h, hbegin, hi) = f[heap[b].id] /\ h[b].id = heap[b].id
      BY <1>4, <1>6, <1>13, <1>18, <2>3
    <3>2. heap[b].id \in 0 .. i - 1
      BY <1>3, <2>3 DEF Ids
    <3>3. heap[b].id # 0
      BY <1>3, <1>9, <2>3 DEF Distinct
    <3> QED
      BY <1>17, <3>1, <3>2, <3>3
  <2> QED
    BY <1>4, <1>13, <2>1, <2>2, <2>3
<1>20. ASSUME NEW u \in Int, Sound(u, heap, hbegin, hcurrent)
       PROVE  Value(u, h, hbegin, hi) = Value(u, heap, hbegin, hcurrent)
  BY <1>6, <1>13, <1>20
<1>21. Value(p, h, hbegin, hi) = <<"object", 0>>
  BY <1>3, <1>8, <1>20
<1> QED
  BY <1>14, <1>15, <1>16, <1>19, <1>20, <1>21 DEF ArgsIn

(* A turn of set_args's loop leaves one more argument in the array and     *)
(* nothing else.                                                           *)
LEMMA ArgMakes ==
  ASSUME RuntimeIInv, GraphIInv, NextArg, RuntimeIInv',
         NEW i, i = call.done, NEW n, n = todo.argc,
         NEW h, h = heap', NEW hi, hi = hcurrent', NEW ws, ws = words',
         NEW p, p = IF i = 0 THEN Content(hcurrent) ELSE words[ArgArray]
  PROVE  /\ Meaningful(h, ws, hbegin, hi) /\ Objects(h, hbegin, hi) = Fuller(i, n)
         /\ Ids(h) = 0 .. i
         /\ Value(p, h, hbegin, hi) = <<"object", 0>>
         /\ \A x \in Assignable : Value(words[x], h, hbegin, hi) = <<"value", Nil>>
         /\ hbegin' = hbegin
<1>1. /\ ArgsIn(h, hbegin, hi, p, i, n)
      /\ \A w \in Int : Sound(w, heap, hbegin, hcurrent) =>
           Value(w, h, hbegin, hi) = Value(w, heap, hbegin, hcurrent)
  <2>1. CASE i = 0
    <3>1. /\ ArgsIn(h, hbegin, hi, Content(hcurrent), 0, n)
          /\ \A w \in Int : Sound(w, heap, hbegin, hcurrent) =>
               Value(w, h, hbegin, hi) = Value(w, heap, hbegin, hcurrent)
      BY <2>1, ArgFirst
    <3>2. p = Content(hcurrent)
      BY <2>1
    <3> QED
      BY <2>1, <3>1, <3>2
  <2>2. CASE i # 0
    <3>1. p = words[ArgArray]
      BY <2>2
    <3> QED
      BY <2>2, <3>1, ArgNext
  <2> QED
    BY <2>1, <2>2
<1>2. /\ Distinct(h) /\ Ids(h) = 0 .. i
      /\ Value(p, h, hbegin, hi) = <<"object", 0>>
      /\ \A a \in DOMAIN h : Shows(h[a], h, hbegin, hi) = Fuller(i, n)[h[a].id]
  BY <1>1 DEF ArgsIn
<1>3. pc' \in {"call", "mutator"} /\ hbegin' = hbegin
  BY DEF NextArg
<1>4. Meaningful(h, ws, hbegin, hi)
  <2>1. Ready' /\ Distinct(heap)'
    BY <1>2, <1>3 DEF RuntimeIInv, Distinct
  <2>2. Meaningful(heap, words, hbegin, hcurrent)'
    BY <2>1, MeaningfulAfter
  <2> QED
    BY <1>3, <2>2 DEF Meaningful
<1>5. Objects(h, hbegin, hi) = Fuller(i, n)
  <2>1. PICK all, g : all = Objects(h, hbegin, hi) /\ g = Fuller(i, n)
    OBVIOUS
  <2>2. /\ DOMAIN all = Ids(h) /\ all = [k \in Ids(h) |-> all[k]]
        /\ \A a \in DOMAIN h : all[h[a].id] = Shows(h[a], h, hbegin, hi)
    BY <1>4, <2>1, ObjectsFacts DEF Objects
  <2>3. \A k \in Ids(h) : all[k] = g[k]
    BY <1>2, <2>1, <2>2 DEF Ids
  <2>4. g = [k \in Ids(h) |-> g[k]]
    <3>1. n \in Nat /\ i \in 0 .. n
      BY ArgFacts
    <3>2. DOMAIN g = 0 .. i
      BY <2>1, <3>1, FillingGrows DEF Grown
    <3>3. g = [k \in DOMAIN g |-> g[k]]
      BY <2>1 DEF Fuller, Filling
    <3> QED
      BY <1>2, <3>2, <3>3
  <2> QED
    BY <2>1, <2>2, <2>3, <2>4
<1>6. ASSUME NEW x \in Assignable
      PROVE  Value(words[x], h, hbegin, hi) = <<"value", Nil>>
  <2>1. x \in Slot
    BY Layout
  <2>2. words[x] \in Int /\ Sound(words[x], heap, hbegin, hcurrent)
    BY <2>1, ArgFacts DEF Meaningful
  <2>3. Value(words[x], heap, hbegin, hcurrent) = <<"value", Nil>>
    BY ArgFacts
  <2> QED
    BY <1>1, <2>2, <2>3
<1> QED
  BY <1>2, <1>3, <1>4, <1>5, <1>6

(* When the loop has ended, the program sees its command line.             *)
LEMMA NextArgMeans ==
  ASSUME RuntimeIInv, GraphIInv, NextArg, RuntimeIInv'
  PROVE  GraphIInv' /\ UNCHANGED shown
<1>1. PICK i, n, h, hi, ws : /\ i = call.done /\ n = todo.argc
                             /\ h = heap' /\ hi = hcurrent' /\ ws = words'
  OBVIOUS
<1>2. PICK p : p = IF i = 0 THEN Content(hcurrent) ELSE words[ArgArray]
  OBVIOUS
<1>3. /\ call.fn = "set_args" /\ UNCHANGED <<hbegin, todo>>
      /\ \/ /\ i < n
            /\ ws = [words EXCEPT ![ArgArray] = p, ![Inner(1)] = StringBuf]
            /\ call' = [call EXCEPT !.kind = "STRING", !.len = 1,
                                    !.raw = Argument(i + 1), !.done = i + 1,
                                    !.roots = 2]
            /\ pc' = "call" /\ UNCHANGED shown
         \/ /\ i = n
            /\ ws = [words EXCEPT ![ArgArray] = Nil, ![Inner(1)] = Nil,
                                  ![SysArgs] = p]
            /\ pc' = "mutator"
            /\ shown' = Sees(heap', words', hbegin', hcurrent')
  BY <1>1, <1>2 DEF NextArg
<1>4. /\ Meaningful(h, ws, hbegin, hi) /\ Objects(h, hbegin, hi) = Fuller(i, n)
      /\ Ids(h) = 0 .. i
      /\ Value(p, h, hbegin, hi) = <<"object", 0>>
      /\ \A x \in Assignable : Value(words[x], h, hbegin, hi) = <<"value", Nil>>
  BY <1>1, <1>2, ArgMakes
<1>5. /\ n \in Nat /\ i \in 0 .. n /\ call \in ArgCalls
      /\ shown = Started(n) /\ n + todo.calls <= MaxName
      /\ words \in [Slot -> Int]
  BY <1>1, ArgFacts DEF Meaningful
<1>6. /\ ArgArray \in Slot /\ Inner(1) \in Slot /\ SysArgs \in Slot
      /\ ArgArray # Inner(1) /\ ArgArray # SysArgs /\ Inner(1) # SysArgs
      /\ \A x \in Assignable : /\ x \in Slot /\ x # ArgArray /\ x # Inner(1)
                               /\ x # SysArgs
  BY Layout DEF ArgArray, Inner, Slot
<1>7. PICK lo : lo = hbegin
  OBVIOUS
<1>8. CASE i < n /\ pc' = "call"
  <2>1. /\ ws = [words EXCEPT ![ArgArray] = p, ![Inner(1)] = StringBuf]
        /\ call' = [call EXCEPT !.kind = "STRING", !.len = 1,
                                !.raw = Argument(i + 1), !.done = i + 1, !.roots = 2]
        /\ UNCHANGED shown
    BY <1>3, <1>8
  <2>2. PICK d : d = i + 1
    OBVIOUS
  <2>3. call'.fn = "set_args" /\ call'.done = d /\ call'.raw = Argument(d)
    BY <1>3, <1>5, <2>1, <2>2 DEF ArgCalls
  <2>4. d # 0 /\ Fuller(i, n) = Filling(d, n)
    BY <1>5, <2>2 DEF Fuller
  <2>5. ws[ArgArray] = p /\ \A x \in Assignable : ws[x] = words[x]
    BY <1>5, <1>6, <2>1
  <2>6. ArgsMade(h, ws, lo, hi)'
    BY <1>1, <1>3, <1>4, <1>7, <2>3, <2>4, <2>5 DEF ArgsMade
  <2>7. CallAgreed(h, ws, lo, hi)'
    BY <1>1, <1>3, <1>5, <2>1, <2>3, <2>6 DEF CallAgreed
  <2>8. CallAgreed(heap, words, hbegin, hcurrent)'
    BY <1>1, <1>3, <1>7, <2>7
  <2> QED
    BY <1>8, <2>1, <2>8 DEF GraphIInv, MarkPC, CompactPC, Collecting
<1>9. CASE i = n /\ pc' = "mutator"
  <2>1. /\ ws = [words EXCEPT ![ArgArray] = Nil, ![Inner(1)] = Nil, ![SysArgs] = p]
        /\ shown' = Sees(heap', words', hbegin', hcurrent')
    BY <1>3, <1>9
  <2>2. ws[SysArgs] = p /\ \A x \in Assignable : ws[x] = words[x]
    BY <1>5, <1>6, <2>1
  <2>3. PICK s, e : s = Started(n).store /\ e = Started(n).env
    OBVIOUS
  <2>4. /\ Started(n) = [store |-> s, env |-> e]
        /\ e = [x \in Var |-> IF x = SysArgs THEN <<"object", 0>> ELSE <<"value", Nil>>]
        /\ s = Filling(n + 1, n) /\ graph!Kept(s, e) = s
    <3>1. CommandLine(n, s, e)
      BY <1>5, <2>3, StartedFacts
    <3> QED
      BY <3>1 DEF CommandLine
  <2>5. Variables(h, ws, lo, hi) = e
    <3>1. \A x \in Var : Value(ws[x], h, lo, hi) =
                           IF x = SysArgs THEN <<"object", 0>> ELSE <<"value", Nil>>
      BY <1>4, <1>7, <2>2 DEF Var
    <3> QED
      BY <2>4, <3>1 DEF Variables
  <2>6. Objects(h, lo, hi) = s
    BY <1>4, <1>7, <1>9, <2>4 DEF Fuller
  <2>7. Sees(h, ws, lo, hi) = [store |-> s, env |-> e]
    BY <2>4, <2>5, <2>6 DEF Sees
  <2>8. shown' = Started(n)
    BY <1>1, <1>3, <1>7, <2>1, <2>4, <2>7
  <2>9. Agreed(h, ws, lo, hi)'
    BY <1>4, <1>7, <2>4, <2>7, <2>8 DEF Agreed
  <2>10. NamesLeft(h, todo.calls)
    <3>1. PICK k : k = todo.calls
      OBVIOUS
    <3>2. k \in Nat /\ n + k <= MaxName /\ MaxName \in Nat
      BY <1>5, <3>1, ProgramAssumption, ArgFacts, InTheCall DEF Setting, RuntimeIInv
    <3>3. \A a \in DOMAIN h : h[a].id \in 0 .. n
      BY <1>4, <1>9 DEF Ids
    <3>4. k <= MaxName /\ \A m \in 0 .. n : m + k <= MaxName
      BY <1>5, <3>2
    <3> QED
      BY <3>1, <3>3, <3>4 DEF NamesLeft
  <2>11. Agreed(heap, words, hbegin, hcurrent)' /\ NamesLeft(heap, todo.calls)'
    BY <1>1, <1>3, <1>7, <2>9, <2>10
  <2> QED
    BY <1>5, <1>9, <2>8, <2>11 DEF GraphIInv, MarkPC, CompactPC, Collecting
<1> QED
  BY <1>3, <1>8, <1>9
-----------------------------------------------------------------------------
(* Nothing happens.                                                        *)
LEMMA NothingShown ==
  ASSUME GraphIInv, UNCHANGED runtimeVars PROVE GraphIInv' /\ UNCHANGED shown
<1>1. UNCHANGED <<heap, words, hbegin, hcurrent, pc, todo, call, shown, before>>
  BY DEF runtimeVars, memory, gcVars, compactVars
<1>2. Collecting' = Collecting
  BY <1>1 DEF Collecting
<1>3. \A h, ws, lo, hi :
        /\ Agreed(h, ws, lo, hi) => Agreed(h, ws, lo, hi)'
        /\ CallAgreed(h, ws, lo, hi) => CallAgreed(h, ws, lo, hi)'
  BY <1>1, AgreedStill DEF Agreed
<1>4. PICK h, ws, lo, hi : h = heap /\ ws = words /\ lo = hbegin /\ hi = hcurrent
  OBVIOUS
<1>5. PICK h2, ws2, lo2, hi2 : /\ h2 = before.heap /\ ws2 = before.words
                               /\ lo2 = before.lo /\ hi2 = before.hi
  OBVIOUS
<1>6. Agreed(h, ws, lo, hi)' => Agreed(heap, words, hbegin, hcurrent)'
  BY <1>1, <1>4
<1>7. CallAgreed(h, ws, lo, hi)' => CallAgreed(heap, words, hbegin, hcurrent)'
  BY <1>1, <1>4
<1>8. CallAgreed(h2, ws2, lo2, hi2)' =>
        CallAgreed(before.heap, before.words, before.lo, before.hi)'
  BY <1>1, <1>5
<1>9. pc' = "mutator" =>
        Agreed(heap, words, hbegin, hcurrent)' /\ NamesLeft(heap, todo.calls)'
  BY <1>1, <1>3, <1>4, <1>6 DEF GraphIInv
<1>10. pc' \in {"call", "compacted"} \cup MarkPC =>
         CallAgreed(heap, words, hbegin, hcurrent)'
  BY <1>1, <1>3, <1>4, <1>7 DEF GraphIInv
<1>11. Collecting' => CallAgreed(before.heap, before.words, before.lo, before.hi)'
  BY <1>2, <1>3, <1>5, <1>8 DEF GraphIInv
<1>12. pc' = "start" =>
         /\ shown' = Started(todo'.argc) /\ heap' = <<>>
         /\ \A x \in Assignable : words'[x] = Nil
         /\ todo'.argc + todo'.calls <= MaxName
  BY <1>1 DEF GraphIInv
<1> QED
  BY <1>1, <1>9, <1>10, <1>11, <1>12 DEF GraphIInv

(* A step of the program is one of the graph, or begins a call.            *)
LEMMA ActingMeans ==
  ASSUME RuntimeIInv, GraphIInv, Acting, RuntimeIInv'
  PROVE  GraphIInv' /\ (graph!GraphNext \/ UNCHANGED shown)
<1>1. ASSUME NEW dest \in Assignable, NEW ops \in Operands,
             Barray(ops, dest) \/ Bsexp(ops, dest) \/ Bclosure(ops, dest)
      PROVE  GraphIInv' /\ UNCHANGED shown
  BY <1>1, BarrayMeans, BsexpMeans, BclosureMeans
<1>2. ASSUME NEW dest \in Assignable, NEW n \in Lengths,
             LmakeArray(n, dest) \/ LmakeString(n, dest)
      PROVE  GraphIInv' /\ UNCHANGED shown
  BY <1>2, LmakeArrayMeans, LmakeStringMeans
<1>3. ASSUME NEW dest \in Assignable, LreadLine(dest)
      PROVE  GraphIInv' /\ (graph!GraphNext \/ UNCHANGED shown)
  BY <1>3, LreadLineMeans
<1>4. ASSUME NEW dest \in Assignable, NEW x \in Var,
             Lstring(x, dest) \/ Lstringcat(x, dest)
      PROVE  GraphIInv' /\ UNCHANGED shown
  BY <1>4, Names, BufferedMeans DEF Lstring, Lstringcat
<1>5. ASSUME NEW dest \in Assignable, NEW x \in Var, LgetEnv(x, dest)
      PROVE  GraphIInv' /\ (graph!GraphNext \/ UNCHANGED shown)
  BY <1>5, LgetEnvMeans
<1>6. ASSUME NEW dest \in Assignable, NEW x \in Var,
             Lsubstring(x, dest) \/ Lclone(x, dest)
      PROVE  GraphIInv' /\ UNCHANGED shown
  BY <1>6, LsubstringMeans, LcloneMeans
<1>7. ASSUME NEW dest \in Assignable, NEW x \in Var, Belem(x, dest) \/ Move(x, dest)
      PROVE  GraphIInv' /\ graph!GraphNext
  BY <1>7, BelemMeans, MoveMeans
<1>8. ASSUME NEW dest \in Assignable, NEW x \in Var, NEW n \in Lengths,
             Lfread(x, n, dest)
      PROVE  GraphIInv' /\ UNCHANGED shown
  BY <1>8, LfreadMeans
<1>9. ASSUME NEW dest \in Assignable, NEW x \in Var, NEW y \in Var,
             Li__Infix_4343(x, y, dest)
      PROVE  GraphIInv' /\ UNCHANGED shown
  BY <1>9, ConcatenateMeans
<1>10. ASSUME NEW x \in Var, NEW y \in Var, Bsta(x, y)
       PROVE  GraphIInv' /\ graph!GraphNext
  BY <1>10, BstaMeans
<1> QED
  BY <1>1, <1>2, <1>3, <1>4, <1>5, <1>6, <1>7, <1>8, <1>9, <1>10, Zenon DEF Acting

(* Every step of the runtime is a step of the graph, or none.              *)
LEMMA GraphStep ==
  RuntimeIInv /\ GraphIInv /\ RuntimeIInv' /\ [RuntimeNext]_runtimeVars
    => GraphIInv' /\ [graph!GraphNext]_(graph!graph)
<1> SUFFICES ASSUME RuntimeIInv, GraphIInv, RuntimeIInv', [RuntimeNext]_runtimeVars
             PROVE  GraphIInv' /\ [graph!GraphNext]_(graph!graph)
  OBVIOUS
<1>1. UNCHANGED shown => UNCHANGED graph!graph
  BY DEF graph!graph
<1>2. CASE Acting
  BY <1>1, <1>2, ActingMeans
<1>3. CASE StartGC
  BY <1>1, <1>3, StartGCKeepsGraph DEF StartGC
<1>4. CASE Mark
  BY <1>1, <1>4, MarkKeepsGraph DEF Mark
<1>5. CASE StartCompact
  BY <1>1, <1>5, StartCompactKeepsGraph DEF StartCompact
<1>6. CASE Compact
  BY <1>1, <1>6, CompactKeepsGraph DEF Compact
<1>7. CASE SetArgs
  BY <1>1, <1>7, SetArgsMeans
<1>8. CASE NextArg
  BY <1>1, <1>8, NextArgMeans
<1>9. CASE Return
  BY <1>9, ReturnKeepsGraph
<1>10. CASE LateOverflow
  BY <1>1, <1>10, LateOverflowMeans
<1>11. CASE UNCHANGED runtimeVars
  BY <1>1, <1>11, NothingShown
<1>12. RuntimeNext => Acting \/ GoesOn
  BY CarelessNotCalled, Zenon DEF RuntimeNext, Acting
<1> QED
  BY <1>2, <1>3, <1>4, <1>5, <1>6, <1>7, <1>8, <1>9, <1>10, <1>11, <1>12 DEF GoesOn

(* The program never notices a collection: what it sees is a graph of      *)
(* objects that stay put, to which every call does what it is meant to, and *)
(* the first thing it sees is its command line.  It holds for programs     *)
(* that call neither Lsprintf nor the function of ":", and make no more     *)
(* objects than the model has names for.                                   *)
THEOREM RuntimeImplementsGraph ==
  Careful /\ EnoughNames /\ RuntimeSpec => ImplementsGraph
<1>1. EnoughNames /\ RuntimeInit => GraphIInv /\ graph!GraphInit
  BY GraphInitial
<1>2. RuntimeIInv /\ GraphIInv /\ RuntimeIInv' /\ [RuntimeNext]_runtimeVars
        => GraphIInv' /\ [graph!GraphNext]_(graph!graph)
  BY GraphStep
<1>3. Careful /\ RuntimeSpec => []RuntimeIInv
  BY RuntimeInvariant
<1> QED
  BY <1>1, <1>2, <1>3, PTL DEF RuntimeSpec, ImplementsGraph, graph!GraphSpec
=============================================================================

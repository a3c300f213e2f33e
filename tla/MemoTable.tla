----------------------------- MODULE MemoTable -----------------------------
(* Memoization tables of stdlib/Collection.lama: lookupMemo (mm, v) gives   *)
(* an object that is structurally equal to v, the same for all such v.  The *)
(* map from values to objects is a map of the same unit (Collection), here  *)
(* a function on structures.  Objects have addresses, and are not changed   *)
(* by the program.                                                          *)
EXTENDS Integers, SequencesExt

CONSTANTS Texts,        \* of strings
          Tags,         \* of arrays and S-expressions
          MaxArity,     \* bound: elements of an object
          MaxObjects,   \* bound: objects before a lookup
          Spared        \* texts of the strings the predicate of the table spares

VARIABLES store,    \* objects by address
          table,    \* mm[1]: structure -> address
          answers   \* history: addresses the program got from lookupMemo

vars == <<store, table, answers>>

Value == 0          \* an unboxed value (#val), the only one

String(t) == [tag |-> "string", text |-> t, fields |-> <<>>]

Sexp(tag, ws) == [tag |-> tag, text |-> "", fields |-> ws]

\* What the comparison of the map looks at.
RECURSIVE Structure(_, _)
Structure(st, w) ==
  IF w = Value THEN <<"value">>
  ELSE <<st[w].tag, st[w].text>> \o
       [i \in DOMAIN st[w].fields |-> Structure(st, st[w].fields[i])]

SparedBy(st, w) == w # Value /\ st[w].tag = "string" /\ st[w].text \in Spared

-----------------------------------------------------------------------------
(* lookupMemo (mm, v) as a function of the memory: st, the map tab, and the *)
(* result w of the call.                                                    *)
Memory(st, tab, w) == [st |-> st, tab |-> tab, w |-> w]

addMap(tab, s, w) == [x \in DOMAIN tab \union {s} |-> IF x = s THEN w ELSE tab[x]]

\* Mutant: the value that was looked up is stored instead of its copy.
AnswerOriginal(mem, m, v, vc) ==
  Memory(mem.st, addMap(m, Structure(mem.st, vc), v), vc)

\* mm [1] := addMap (m, vc, vc); vc.  The map m is the one that the pattern
\* [p, m] bound when the call began.
Answer(mem, m, v, vc) ==
  Memory(mem.st, addMap(m, Structure(mem.st, vc), vc), vc)

\* Mutant: the elements of the argument itself are replaced.
CloneShared(st, m, v) == Memory(st, m, v)

Clone(st, m, v) == Memory(Append(st, st[v]), m, Len(st) + 1)

RECURSIVE lookupMemo(_, _, _)
lookupMemo(st, m, v) ==
  IF SparedBy(st, v) \/ v = Value THEN Memory(st, m, v)
  ELSE IF Structure(st, v) \in DOMAIN m
    THEN Memory(st, m, m[Structure(st, v)])
  ELSE IF st[v].tag = "string"
    THEN Memory(st, addMap(m, Structure(st, v), v), v)
  ELSE
    LET copy == Clone(st, m, v)
        vc == copy.w
        \* vc [i] := lookupMemo (mm, vc [i])
        element(mem, i) ==
          LET r == lookupMemo(mem.st, mem.tab, mem.st[vc].fields[i])
          IN Memory([r.st EXCEPT ![vc].fields[i] = r.w], r.tab, vc)
        done == FoldLeft(element, copy, [i \in DOMAIN st[v].fields |-> i])
    IN Answer(done, m, v, vc)

-----------------------------------------------------------------------------
Init ==
  /\ store = <<>>
  /\ table = <<>>
  /\ answers = {}

\* The program makes a new object of what it has.
Create ==
  /\ Len(store) < MaxObjects
  /\ \/ \E t \in Texts : store' = Append(store, String(t))
     \/ \E tag \in Tags, n \in 1 .. MaxArity :
          \E ws \in [1 .. n -> {Value} \union DOMAIN store] :
            store' = Append(store, Sexp(tag, ws))
  /\ UNCHANGED <<table, answers>>

Lookup(v) ==
  LET r == lookupMemo(store, table, v)
  IN /\ store' = r.st
     /\ table' = r.tab
     /\ answers' = answers \union {r.w}

Next == Create \/ \E v \in DOMAIN store : Lookup(v)

Spec == Init /\ [][Next]_vars

-----------------------------------------------------------------------------
RECURSIVE Within(_)
Within(w) ==
  IF w = Value THEN {}
  ELSE {w} \union UNION {Within(store[w].fields[i]) : i \in DOMAIN store[w].fields}

EqualAreSame(ws) ==
  \A v, w \in ws :
    \/ v = w
    \/ Structure(store, v) # Structure(store, w)
    \/ SparedBy(store, v)

(* Two lookups of equal values give the same object, whatever was looked up *)
(* in between: the entry of a value that was looked up is never lost.       *)
Canonical == EqualAreSame(answers)

(* A lookup does not change the objects the program has: it completes a     *)
(* copy.                                                                    *)
ArgumentsUntouched ==
  [][\A w \in DOMAIN store : store'[w] = store[w]]_vars

(* spec/08.standard_library.tex:279: hash-consing "converts structurally    *)
(* equal data structures into physically equal", the parts of a result      *)
(* included, which are results of the recursive calls.                      *)
PartsCanonical == EqualAreSame(UNION {Within(w) : w \in answers})
=============================================================================

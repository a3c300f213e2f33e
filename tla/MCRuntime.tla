----------------------------- MODULE MCRuntime -----------------------------
(***************************************************************************)
(* Model-checking instance of Runtime: programs by what they call, on a    *)
(* heap that two small objects fill or on one that never gets full.        *)
(***************************************************************************)
EXTENDS Runtime

MCRemapBases == {8, 60}
MCLocals == {8}
MCOperands == {<<8>>, <<8, 0>>}

Constructors == {"Barray", "Bsexp", "Bclosure", "LmakeArray", "Lstring",
                 "Lclone", "Li__Infix_4343"}
Strings == {"LmakeString", "Lfread", "Lstringcat", "LgetEnv", "LreadLine",
            "Lsubstring", "Li__Infix_4343"}
Accessors == {"Belem", "Bsta"}

Program(size, argc, calls, fns) ==
  [heap |-> size, argc |-> argc, calls |-> calls, fns |-> fns]

MCPrograms ==
  {Program(6, 0, 3, Constructors \cup Accessors),
   Program(6, 0, 2, Strings),
   Program(6, 3, 1, Constructors \cup Strings \cup Accessors)}

MCConsPrograms == {Program(6, 0, 2, {"Ls__Infix_58", "LmakeArray"})}
MCSprintfPrograms == {Program(6, 0, 3, {"Lsprintf", "Lstring"})}

(* With one more operand, for closures of three variables.                 *)
MCRoomyLocals == {10}
MCRoomyOperands == {<<10, 0>>, <<10, 0, 10>>}
MCCyclesPrograms ==
  {Program(6, 0, 4, {"Barray"} \cup Accessors),
   Program(40, 0, 2, Constructors \cup Accessors \cup {"Ls__Infix_58", "Lsprintf"})}
=============================================================================

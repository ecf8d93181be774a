------------------------------ MODULE MCVarText ------------------------------
(* Instances of VarText for TLC: texts that name values, that are numbers in *)
(* and out of range, and that are neither.                                   *)
EXTENDS VarText
Suffixed(n, s) == [Number(n) EXCEPT !.suffix = s]
Upper(w) == [Word(w) EXCEPT !.upper = TRUE]
MCTexts ==
  {<<>>, <<Word("yes")>>, <<Upper("yes")>>, <<Word("none")>>, <<Word("max")>>,
   <<Word("Warn")>>, <<Upper("red")>>, <<Word("blue")>>, <<Word("ro")>>,
   <<Word("ro"), Word("sync")>>, <<Word("rw")>>, <<Word("ro"), Word("rw")>>,
   <<Word("ro"), Word("rw"), Word("sync")>>, <<Number(1), Number(2)>>, <<Number(3), Number(4)>>,
   <<Suffixed(3, "k")>>, <<Suffixed(3, "g")>>, <<Suffixed(9, "x")>>}
  \cup {<<Number(n)>> : n \in {-5, 0, 2, 50, 120, 200, 4095}}
MCSetTo == [kind \in {"bool", "verbose", "values", "flags", "int", "uint", "ulong"} |->
              IF kind = "flags" THEN {{}, {0}, {2}, {0, 1}, {0, 2}, {0, 1, 2}, {1, 4}} ELSE {-1, 0, 1, 3, 4, 5, 7, 50}]
MCValueList == << [value |-> 3, name |-> "red"], [value |-> -1, name |-> "none"],
                  [value |-> 50, name |-> "blue"], [value |-> 3, name |-> "scarlet"] >>
(* The first two flags exclude each other, but only the earlier one says so. *)
MCFlagList == << [bit |-> 0, name |-> "ro", conflicts |-> {1}],
                 [bit |-> 1, name |-> "rw", conflicts |-> {}],
                 [bit |-> 2, name |-> "sync", conflicts |-> {1}] >>
=============================================================================

------------------------------- MODULE Powers --------------------------------
(* Powers, by a recursion that can be reasoned about: the ranges of the      *)
(* integers of the machine.                                                  *)
EXTENDS Integers
Power(base, n) ==
  LET power[k \in 0 .. n] == IF k = 0 THEN 1 ELSE base * power[k - 1]
  IN  power[n]
=============================================================================

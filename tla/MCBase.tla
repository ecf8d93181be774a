------------------------------- MODULE MCBase --------------------------------
(* The base of the MCA for TLC: a framework in which everything may fail,    *)
(* and the variables.  Here they share nothing: a behaviour is of one        *)
(* subject, and the state graph is the union of theirs.                      *)
EXTENDS MCFramework, MCVarRegistry
VARIABLE subject
MCInit ==
  /\ subject \in {"framework", "variables"}
  /\ Init    /\ (subject # "framework" => kind = "default" /\ env = Everything)
  /\ VarInit /\ (subject # "variables" => config = NothingGiven)
MCNext ==
  /\ UNCHANGED subject
  /\ IF subject = "framework" THEN Next    ELSE UNCHANGED vars
  /\ IF subject = "variables" THEN VarNext ELSE UNCHANGED var_vars
MCSpec == MCInit /\ [][MCNext]_<<subject, vars, var_vars>>
=============================================================================

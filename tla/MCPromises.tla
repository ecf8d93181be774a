------------------------------ MODULE MCPromises -----------------------------
(* What the headers and the help texts promise and the code does not keep,   *)
(* unit by unit.  The units take turns: a unit is left when each of its      *)
(* promises has been broken in some state of it.                             *)
EXTENDS LinkedList, Output, OutputLine, Argv, Environ, MCVarText
VARIABLES
  penv, is_environ, penv_expected, penv_open,   \* the environment of the process
  broken                                        \* history: the promises that did not hold
Process == INSTANCE Environ WITH env <- penv, env_is_environ <- is_environ,
             env_expected <- penv_expected, env_open <- penv_open
process_vars == <<penv, is_environ, penv_expected, penv_open>>

Units == <<"list", "output", "line", "argv", "environ", "process", "text">>
Promises == [list |-> {"SizeIsItems"}, output |-> {"DirectoryBringsFiles"}, line |-> {"NewlineWritten"},
             argv |-> {"CountKept", "EmptiesReturn"}, environ |-> {"ListPassesValues"},
             process |-> {"OverwriteRefused"},
             text |-> {"LevelsHaveTexts", "RefusedOutOfBounds", "SettingReturns"}]
AllPromises == UNION {Promises[u] : u \in DOMAIN Promises}
Kept(p) ==
  CASE p = "SizeIsItems"          -> SizeIsItems
    [] p = "DirectoryBringsFiles" -> DirectoryBringsFiles
    [] p = "NewlineWritten"       -> NewlineWritten
    [] p = "CountKept"            -> CountKept
    [] p = "EmptiesReturn"        -> EmptiesReturn
    [] p = "ListPassesValues"     -> ListPassesValues
    [] p = "OverwriteRefused"     -> Process!OverwriteRefused
    [] p = "LevelsHaveTexts"      -> LevelsHaveTexts
    [] p = "RefusedOutOfBounds"   -> RefusedOutOfBounds
    [] p = "SettingReturns"       -> SettingReturns

(* The first unit that still has a promise to break, and the last when none. *)
Turn == LET left == {k \in DOMAIN Units : Promises[Units[k]] \ broken # {} \/ k = Len(Units)}
        IN  Units[CHOOSE k \in left : \A j \in left : k <= j]

MCRank == [i \in Item |-> 1]
MCDescribed == {[debugging |-> FALSE, syslog |-> FALSE, console |-> FALSE, file |-> TRUE, suffix |-> "a"]}
MCRedirections == {<<"none", NoSuffix>>}
MCArgs == {<<>>, <<"a">>}
MCEnvValues == {<<>>, <<"1">>}
MCMinors == {<<>>}
MCEnvLists == {<<Bare("LANG")>>, <<Bare("PATH")>>}
MCProcessEnv == [LANG |-> <<"PATH", "2">>, PATH |-> Undefined]

MCInit ==
  /\ ListInit /\ OutInit /\ LineInit /\ ArgvInit /\ VarTextInit
  /\ EnvInit /\ env = <<>> /\ ~env_is_environ
  /\ Process!EnvInit /\ penv = <<>> /\ is_environ
  /\ broken = {}
MCNext ==
  /\ IF Turn = "list"    THEN ListNext    ELSE UNCHANGED li_vars
  /\ IF Turn = "output"  THEN OutNext     ELSE UNCHANGED out_vars
  /\ IF Turn = "line"    THEN LineNext    ELSE UNCHANGED line_vars
  /\ IF Turn = "argv"    THEN ArgvNext    ELSE UNCHANGED av_vars
  /\ IF Turn = "environ" THEN EnvironNext ELSE UNCHANGED env_vars
  /\ IF Turn = "process" THEN Process!EnvironNext ELSE UNCHANGED process_vars
  /\ IF Turn = "text"    THEN VarTextNext ELSE UNCHANGED vt_vars
  /\ broken' = broken \cup {p \in Promises[Turn] : ~Kept(p)'}
MCSpec == MCInit /\ [][MCNext]_<<li_vars, out_vars, line_vars, av_vars, env_vars,
                                 process_vars, vt_vars, broken>>
(* Units that had their turn are not told apart by how they broke a promise. *)
MCView ==
  <<broken,
    CASE Turn = "list"    -> li_vars
      [] Turn = "output"  -> out_vars
      [] Turn = "line"    -> line_vars
      [] Turn = "argv"    -> av_vars
      [] Turn = "environ" -> env_vars
      [] Turn = "process" -> process_vars
      [] Turn = "text"    -> vt_vars>>
-----------------------------------------------------------------------------
(* The promises are kept.  Each is quoted where it is defined; as TLC stops  *)
(* at the first one that is not, this says of all of them that one at least  *)
(* is, and the trace that refutes it breaks every one in turn.               *)
SomePromiseKept == broken # AllPromises
=============================================================================

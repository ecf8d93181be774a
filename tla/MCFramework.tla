---------------------------- MODULE MCFramework ----------------------------
(* Instances of Framework for TLC: sets of components and of selections.   *)
EXTENDS Framework

MCStatic == {"s"}
MCDynamic == {"d", "e"}
MCMissing == "m"

Include(names) == [include |-> TRUE, names |-> names]
Exclude(names) == [include |-> FALSE, names |-> names]

\* All components, one plugin, a plugin and a name nobody has, all but one.
FaultySelections == {Everything, Include({"d"}), Include({"d", "m"}), Exclude({"d"})}

\* Selections that can always be met.
MetSelections == {Everything, Include({"d"}), Include({"s", "e"}), Exclude({"d"})}
=============================================================================

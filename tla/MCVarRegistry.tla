---------------------------- MODULE MCVarRegistry ----------------------------
(* Instances of VarRegistry for TLC: "a" in a component's group with the    *)
(* synonym "s" in the framework's, as mca_base_open registers them, and "c" *)
(* in the framework's group.                                                *)
EXTENDS VarRegistry

MCVariables == {"a", "c"}
MCSynonyms == {"s"}
MCOriginal == [s \in MCSynonyms |-> "a"]
MCGroups == {"framework", "component"}
MCGroupOf == [n \in MCVariables \cup MCSynonyms |-> IF n = "a" THEN "component" ELSE "framework"]
MCGroupParent == [g \in MCGroups |-> IF g = "component" THEN "framework" ELSE "none"]

\* What "a" is declared as; "c" is settable and goes with its group.
Declared(flag, stays) ==
  [defaultOnly |-> IF flag = "default_only" THEN {"a"} ELSE {},
   envOnly     |-> IF flag = "environment_only" THEN {"a"} ELSE {},
   settable    |-> IF flag = "settable" THEN {"a", "c"} ELSE {"c"},
   dwg         |-> IF stays THEN {"c"} ELSE {"a", "c"}]

ConfigOf(decl, given, unreadable) ==
  [given |-> given, unreadable |-> unreadable, defaultOnly |-> decl.defaultOnly,
   envOnly |-> decl.envOnly, settable |-> decl.settable, dwg |-> decl.dwg]

\* "a", "s" and "c" given in any layers, the last two in the same.
GivenIn(as, ss) == [l \in Layers |-> (IF l \in as THEN {"a"} ELSE {}) \cup (IF l \in ss THEN {"s", "c"} ELSE {})]

NothingGiven == ConfigOf(Declared("settable", FALSE), GivenIn({}, {}), {})

AllGiven == {GivenIn(as, ss) : as \in SUBSET Layers, ss \in SUBSET Layers}

Unreadables == {{<<"override", "a">>}, {<<"env", "s">>, <<"file", "a">>}}

MCConfigs ==
  {ConfigOf(Declared(flag, stays), given, {}) :
     flag \in {"settable", "default_only", "environment_only"}, stays \in BOOLEAN, given \in AllGiven}
  \cup
  {ConfigOf(Declared("settable", FALSE), given, unreadable) : given \in AllGiven, unreadable \in Unreadables}

\* "a" and its synonym may be given anywhere but in the override file.
NamedConfigs ==
  {ConfigOf(Declared("settable", FALSE), GivenIn(as, ss), {}) : as, ss \in SUBSET (Layers \ {"override"})}
=============================================================================

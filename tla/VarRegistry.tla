----------------------------- MODULE VarRegistry -----------------------------
(***************************************************************************)
(* MCA variables, their synonyms and groups (mca_base_var.c and            *)
(* mca_base_var_group.c): registration with the search for the value in    *)
(* the override file, the environment and two lists of files; setting,     *)
(* locking and deregistering, alone and by groups.                         *)
(*                                                                         *)
(* A value is the place it came from: a layer and the name it was given    *)
(* under there, <<"default", n>>, <<"set", n>>, or <<"none", n>> when n has *)
(* no storage.  Synonyms never have storage of their own.                  *)
(***************************************************************************)
EXTENDS Integers

CONSTANTS
  Variables, Synonyms,
  Original,   \* the variable each synonym stands for
  Groups, NoGroup,
  GroupOf,    \* the group of each name
  Parent,     \* a component's group has its framework's as parent
  Configs     \* what users give and developers declare, see Config

Names == Variables \cup Synonyms
Layers == {"override", "env", "envfile", "file"}

Config ==
  [given       : [Layers -> SUBSET Names],      \* names with a value in each layer
   unreadable  : SUBSET (Layers \X Names),      \* values that are no value of the type
   defaultOnly : SUBSET Variables,              \* MCA_BASE_VAR_FLAG_DEFAULT_ONLY
   envOnly     : SUBSET Variables,              \* MCA_BASE_VAR_FLAG_ENVIRONMENT_ONLY
   settable    : SUBSET Variables,              \* MCA_BASE_VAR_FLAG_SETTABLE
   dwg         : SUBSET Variables]              \* MCA_BASE_VAR_FLAG_DWG

ASSUME NameAssumption ==
  /\ Variables \cap Synonyms = {} /\ NoGroup \notin Groups
  /\ Original \in [Synonyms -> Variables] /\ GroupOf \in [Names -> Groups]
ASSUME ParentAssumption ==
  /\ Parent \in [Groups -> Groups \cup {NoGroup}]
  /\ \A g \in Groups : Parent[g] # NoGroup => Parent[Parent[g]] = NoGroup
ASSUME ConfigAssumption ==
  /\ Configs \subseteq Config
  /\ \A c \in Configs : c.settable \cap c.defaultOnly = {}

VARIABLES
  config,  \* one of Configs; it never changes
  mbv,     \* the mca_base_var_t of each name
  group    \* the groups: not there yet, valid, or deregistered

var_vars == <<config, mbv, group>>

Sources == {"default", "env", "file", "set", "override"}
Values == (Layers \cup {"none", "default", "set"}) \X Names

Var_t == [exists   : BOOLEAN,   \* in the array; never taken out again
          valid    : BOOLEAN,   \* MCA_BASE_VAR_FLAG_VALID
          settable : BOOLEAN,   \* MCA_BASE_VAR_FLAG_SETTABLE
          source   : Sources,   \* mbv_source
          value    : Values]    \* what mbv_storage points to

NoVar(n) == [exists |-> FALSE, valid |-> FALSE, settable |-> FALSE,
             source |-> "default", value |-> <<"none", n>>]

VarTypeOK == /\ config \in Config
          /\ mbv \in [Names -> Var_t]
          /\ group \in [Groups -> {"none", "valid", "invalid"}]
          /\ \A s \in Synonyms : mbv[s].value = <<"none", s>>

OriginalOf(n) == IF n \in Synonyms THEN Original[n] ELSE n

VarInit == /\ config \in Configs
        /\ mbv = [n \in Names |-> NoVar(n)]
        /\ group = [g \in Groups |-> "none"]
-----------------------------------------------------------------------------
(* The search for a value, for the variable o under its name or synonym n, *)
(* on the table m.  A step returns [rc, mbv].                              *)

NotFound(m) == [rc |-> "NOT_FOUND", mbv |-> m]

\* var_set_from_string, when o's source has been set.
SetFromString(m, n, o, layer) ==
  IF <<layer, n>> \in config.unreadable
  THEN [rc |-> "VALUE_OUT_OF_BOUNDS", mbv |-> m]
  ELSE [rc |-> "SUCCESS", mbv |-> [m EXCEPT ![o].value = <<layer, n>>]]

\* var_set_from_file.  The flag DEFAULT_ONLY is looked up on the name.
SetFromFile(m, n, o, layer) ==
  IF \/ n \notin config.given[layer]
     \/ n \in config.defaultOnly
     \/ o \in config.envOnly
     \/ m[o].source = "override"
  THEN NotFound(m)
  ELSE SetFromString([m EXCEPT ![o].source = "file", ![n].source = "file"], n, o, layer)

\* Mutation: an overridden variable takes its value from the environment.
SetFromEnv_Overridden(m, n, o) ==
  IF n \notin config.given["env"] \/ o \in config.defaultOnly THEN NotFound(m)
  ELSE SetFromString([m EXCEPT ![o].source = "env"], n, o, "env")

\* var_set_from_env, without the variables that tell where the parent process
\* had the value from.
SetFromEnv(m, n, o) ==
  IF \/ n \notin config.given["env"]
     \/ o \in config.defaultOnly
     \/ m[o].source = "override"
  THEN NotFound(m)
  ELSE SetFromString([m EXCEPT ![o].source = "env"], n, o, "env")

\* The flags and source a name gets when the override file has it.
Override(r, n) ==
  IF r.rc = "SUCCESS"
  THEN [r.mbv EXCEPT ![n].settable = FALSE, ![n].source = "override"]
  ELSE r.mbv

\* Mutation: the files are looked up before the environment.
SetInitial_FileFirst(m0, n, o) ==
  LET m1 == [m0 EXCEPT ![n].source = IF n = o THEN "default" ELSE m0[o].source]
      m2 == Override(SetFromFile(m1, n, o, "override"), n)
      fi == SetFromFile(m2, n, o, "file")
      ef == SetFromFile(fi.mbv, n, o, "envfile")
      ev == SetFromEnv(ef.mbv, n, o)
  IN  CASE fi.rc # "NOT_FOUND" -> fi.mbv
        [] fi.rc = "NOT_FOUND" /\ ef.rc # "NOT_FOUND" -> ef.mbv
        [] OTHER -> ev.mbv

\* var_set_initial.  Only a value from the override file lets the search go
\* on; then it finds nothing, unless that file had a synonym.
SetInitial(m0, n, o) ==
  LET m1 == [m0 EXCEPT ![n].source = IF n = o THEN "default" ELSE m0[o].source]
      m2 == Override(SetFromFile(m1, n, o, "override"), n)
      ev == SetFromEnv(m2, n, o)
      ef == SetFromFile(m2, n, o, "envfile")
      fi == SetFromFile(m2, n, o, "file")
  IN  CASE ev.rc # "NOT_FOUND" -> ev.mbv
        [] ev.rc = "NOT_FOUND" /\ ef.rc # "NOT_FOUND" -> ef.mbv
        [] OTHER -> fi.mbv
-----------------------------------------------------------------------------
(* Groups. *)

GroupMembers(g) == {n \in Names : GroupOf[n] = g}

\* group_register: a new group also makes its parent, valid; one that is
\* there is made valid again itself.
GroupRegister(gs, g) ==
  [h \in Groups |-> IF h = g \/ (gs[g] = "none" /\ h = Parent[g]) THEN "valid" ELSE gs[h]]

\* mca_base_var_deregister of the valid names in gone.  Their entries stay.
VarDeregister(m, gone) ==
  [n \in Names |-> IF n \in gone
                   THEN [m[n] EXCEPT !.valid = FALSE, !.value = <<"none", n>>] ELSE m[n]]

\* The valid groups that are deregistered with g, and their variables.
Closing(g) == {h \in Groups : group[h] = "valid" /\ (h = g \/ Parent[h] = g)}

Dying(gs) == {v \in Variables : GroupOf[v] \in gs /\ mbv[v].valid /\ v \in config.dwg}

\* Mutation: an existing variable leaves its group as it is.
RegisterIn_Group(gs, n) == IF mbv[n].exists THEN gs ELSE GroupRegister(gs, GroupOf[n])

\* The part of register_variable that concerns the groups.
RegisterIn(gs, n) == IF mbv[n].exists THEN [gs EXCEPT ![GroupOf[n]] = "valid"]
                     ELSE GroupRegister(gs, GroupOf[n])
-----------------------------------------------------------------------------
(* The operations. *)

\* A framework registers its own group before its components register
\* variables (mca_base_framework.c:77), so no group's parent is deregistered.
ParentRegistered(n) == LET p == Parent[GroupOf[n]] IN p # NoGroup => group[p] # "invalid"

\* mca_base_var_register, _component_var_register and _framework_var_register,
\* with the storage holding the default.  A name that exists keeps its flags;
\* the error for an unreadable value comes after everything else.
RegisterVariable(v) ==
  /\ ParentRegistered(v)
  /\ LET fresh == [mbv[v] EXCEPT !.exists = TRUE, !.valid = TRUE, !.value = <<"default", v>>,
                                 !.settable = IF mbv[v].exists THEN @ ELSE v \in config.settable]
     IN  mbv' = SetInitial([mbv EXCEPT ![v] = fresh], v, v)
  /\ group' = RegisterIn(group, v)
  /\ UNCHANGED config

\* mca_base_var_register_synonym, for a variable that is registered.
RegisterSynonym(s) ==
  /\ ParentRegistered(s)
  /\ mbv[Original[s]].valid
  /\ mbv' = SetInitial([mbv EXCEPT ![s].exists = TRUE, ![s].valid = TRUE], s, Original[s])
  /\ group' = RegisterIn(group, s)
  /\ UNCHANGED config

\* Mutation: the source is not recorded.
SetValue_Source(n) ==
  LET o == OriginalOf(n)
  IN  /\ mbv[n].exists /\ mbv[o].valid /\ mbv[o].settable
      /\ mbv' = [mbv EXCEPT ![o].value = <<"set", o>>]
      /\ UNCHANGED <<config, group>>

\* mca_base_var_set_value, with MCA_BASE_VAR_SOURCE_SET.  That a synonym is
\* valid itself is not asked.
SetValue(n) ==
  LET o == OriginalOf(n)
  IN  /\ mbv[n].exists /\ mbv[o].valid /\ mbv[o].settable
      /\ mbv' = [mbv EXCEPT ![o].value = <<"set", o>>, ![o].source = "set"]
      /\ UNCHANGED <<config, group>>

\* mca_base_var_group_set_var_flag as mca_base_framework_open calls it.  A
\* synonym in the group locks its variable, whichever group that is in.
GroupLock(g) ==
  /\ group[g] = "valid"
  /\ LET locked == {OriginalOf(n) : n \in {m \in GroupMembers(g) : mbv[m].exists}}
     IN  mbv' = [n \in Names |-> IF n \in locked THEN [mbv[n] EXCEPT !.settable = FALSE] ELSE mbv[n]]
  /\ UNCHANGED <<config, group>>

Deregister(n) ==
  /\ mbv[n].valid
  /\ mbv' = VarDeregister(mbv, {n})
  /\ UNCHANGED <<config, group>>

\* mca_base_var_group_deregister, with the valid groups below.
GroupDeregister(g) ==
  /\ group[g] = "valid"
  /\ mbv' = VarDeregister(mbv, Dying(Closing(g)))
  /\ group' = [h \in Groups |-> IF h \in Closing(g) THEN "invalid" ELSE group[h]]
  /\ UNCHANGED config

VarNext ==
  \/ \E v \in Variables : RegisterVariable(v)
  \/ \E s \in Synonyms : RegisterSynonym(s)
  \/ \E n \in Names : SetValue(n) \/ Deregister(n)
  \/ \E g \in Groups : GroupLock(g) \/ GroupDeregister(g)

VarSpec == VarInit /\ [][VarNext]_var_vars
-----------------------------------------------------------------------------
(* Correctness. *)

\* The layers n is allowed to take a value from, and the order of resolution
\* the header documents (mca_base_var.h:43).
AllowedLayers(v) == IF v \in config.defaultOnly THEN {}
                    ELSE IF v \in config.envOnly THEN {"env"} ELSE Layers

LayersWith(v) == {l \in AllowedLayers(v) : v \in config.given[l]}

Documented(v) ==
  CASE "override" \in LayersWith(v) -> <<"override", v>>
    [] LayersWith(v) \cap {"override", "env"} = {"env"} -> <<"env", v>>
    [] LayersWith(v) \cap {"override", "env", "envfile"} = {"envfile"} -> <<"envfile", v>>
    [] LayersWith(v) = {"file"} -> <<"file", v>>
    [] OTHER -> <<"default", v>>

\* No value of v, under any name, is unreadable.
Readable(v) == \A n \in Names : OriginalOf(n) = v => \A l \in Layers : <<l, n>> \notin config.unreadable

\* A variable no synonym of which has been registered has the value the
\* header's order of resolution gives, however often it was deregistered and
\* registered again, until it is set (mca_base_var.h:43, var_set_initial).
ResolvedAsDocumented ==
  \A v \in Variables :
    /\ mbv[v].valid /\ mbv[v].source # "set" /\ Readable(v)
    /\ \A s \in Synonyms : Original[s] = v => ~mbv[s].exists
    => mbv[v].value = Documented(v)

\* "Variables set in this file will override any value set in the environment
\* or another configuration file" (mca_base_var.c:463), synonyms and calls of
\* set_value included, for a variable the file has under its own name.
OverrideKept ==
  \A v \in Variables :
    mbv[v].valid /\ Readable(v) /\ "override" \in LayersWith(v) => mbv[v].value = <<"override", v>>

\* The source reported for a variable is where its value comes from, through
\* whichever name (mca_base_var_get_value).  A value that the override file
\* gives a synonym is reported as a file's.
SourceTruthful ==
  \A v \in Variables :
    mbv[v].valid /\ Readable(v) =>
      LET layer == mbv[v].value[1]
      IN  mbv[v].source = IF layer \in {"envfile", "file"} \/ (layer = "override" /\ mbv[v].value[2] # v)
                          THEN "file" ELSE layer

\* A valid variable that is to be deregistered with its group is in a valid
\* group, or it would never be (mca_base_var_group.c:343).
GroupCoversVariables ==
  \A v \in Variables : mbv[v].valid /\ v \in config.dwg => group[GroupOf[v]] = "valid"

\* When a framework's group is deregistered nothing that goes with groups is
\* left valid below it (mca_base_framework.c:209).
ClosedGroupIsEmpty ==
  \A v \in Variables :
    mbv[v].valid /\ v \in config.dwg => Parent[GroupOf[v]] = NoGroup \/ group[Parent[GroupOf[v]]] = "valid"

\* "If the user sets values for both MCA variable names "A" and "B", the value
\* associated with the "A" name will be used and the value associated with the
\* "B" will be ignored" (mca_base_var.h:465), B being a synonym of A.
OriginalNameWins ==
  \A v \in Variables :
    mbv[v].valid /\ mbv[v].source # "set" /\ Readable(v) /\ LayersWith(v) # {} => mbv[v].value[2] = v
=============================================================================

----------------------------- MODULE InstallDirs -----------------------------
(* The installation directories: what the environment sets goes before what  *)
(* was configured, references to other directories are replaced, and what    *)
(* $WW_DESTDIR holds goes in front of each.  A text is a sequence of tokens, *)
(* each a reference or a part of a path.                                     *)
EXTENDS Integers, Sequences, FiniteSets, SequencesExt
CONSTANTS Directories,   \* the fields of ww_install_dirs, in the order of the code
          Reference,     \* field -> the token that refers to it
          Configured,    \* field -> its text in the component config
          Environments,  \* field -> its text in the environment; empty means unset
          Inputs,        \* texts given to ww_install_dirs_expand
          MaxText        \* bound on a text's length
VARIABLES ww_install_dirs, id_env, id_destdir,
          id_phase, id_field, id_text   \* what is expanded, and how far it is
id_vars == <<ww_install_dirs, id_env, id_destdir, id_phase, id_field, id_text>>
Field == ToSet(Directories)
ASSUME InstallAssumption ==
  /\ Directories \in Seq(STRING) /\ Directories # <<>> /\ IsInjective(Directories)
  /\ Reference \in [Field -> STRING] /\ IsInjective(Reference)
  /\ Configured \in [Field -> Seq(STRING)] /\ Environments \subseteq [Field -> Seq(STRING)]
NoDirs == [f \in Field |-> <<>>]
InstallInit ==
  /\ ww_install_dirs = NoDirs
  /\ id_env \in Environments
  /\ id_destdir \in {"unset", "empty", "absolute", "relative"}
  /\ id_phase = "closed" /\ id_field = 0 /\ id_text = <<>>
-----------------------------------------------------------------------------
(* ww_os_path puts a separator before what does not begin with one.          *)
Destdir ==
  [unset |-> <<>>, empty |-> <<"/">>, absolute |-> <<"destdir">>, relative |-> <<"/", "destdir">>][id_destdir]
(* Mutation: the value is substituted from its beginning. *)
FromOffset_Whole(text) == text
(* A value is read from destdir_offset on, which is the end of $WW_DESTDIR   *)
(* if the value begins with it, and otherwise somewhere in the value.        *)
FromOffset(text) ==
  IF id_phase # "setup" \/ id_destdir \in {"unset", "empty"} THEN text
  ELSE IF text # <<>> /\ Head(text) = "destdir" THEN Tail(text) ELSE <<"cut">>

Position(text, token) == CHOOSE i \in DOMAIN text :
                           text[i] = token /\ \A j \in 1 .. i - 1 : text[j] # token
(* EXPAND_STRING: the first reference to a field.                            *)
ExpandString(text, f) ==
  IF ~Contains(text, Reference[f]) THEN text
  ELSE LET i == Position(text, Reference[f])
       IN  SubSeq(text, 1, i - 1) \o FromOffset(ww_install_dirs[f]) \o SubSeq(text, i + 1, Len(text))
Expanded(text) ==
  LET after[k \in 0 .. Len(Directories)] ==
        IF k = 0 THEN text ELSE ExpandString(after[k - 1], Directories[k])
  IN  after[Len(Directories)]
HasReference(text) == \E f \in Field : Contains(text, Reference[f])

(* installdirs_env_open: an empty value in the environment counts as none.   *)
EnvGives(f) == id_env[f] # <<>>
(* Mutation: config goes before env. *)
InstallOpen_ConfigFirst ==
  /\ id_phase = "closed"
  /\ ww_install_dirs' = Configured
  /\ id_phase' = "setup" /\ id_field' = 1
  /\ id_text' = ww_install_dirs'[Directories[1]]
  /\ UNCHANGED <<id_env, id_destdir>>
(* The open of the framework: CONDITIONAL_COPY from                          *)
(* env, which has the higher priority, then from config.                     *)
InstallOpen ==
  /\ id_phase = "closed"
  /\ ww_install_dirs' = [f \in Field |-> IF EnvGives(f) THEN id_env[f] ELSE Configured[f]]
  /\ id_phase' = "setup" /\ id_field' = 1
  /\ id_text' = ww_install_dirs'[Directories[1]]
  /\ UNCHANGED <<id_env, id_destdir>>
ExpandInput == \E input \in Inputs :
  /\ id_phase = "open"
  /\ id_phase' = "input" /\ id_text' = input
  /\ UNCHANGED <<ww_install_dirs, id_env, id_destdir, id_field>>
(* One pass over the fields; there is another as long as one changed it.     *)
ExpandPass ==
  /\ id_phase \in {"setup", "input"}
  /\ HasReference(id_text) /\ Len(id_text) <= MaxText
  /\ id_text' = Expanded(id_text)
  /\ UNCHANGED <<ww_install_dirs, id_env, id_destdir, id_phase, id_field>>
ExpandDone ==
  /\ id_phase = "setup" /\ ~HasReference(id_text)
  /\ ww_install_dirs' = [ww_install_dirs EXCEPT ![Directories[id_field]] = Destdir \o id_text]
  /\ IF id_field = Len(Directories)
     THEN id_phase' = "open" /\ id_field' = 0 /\ id_text' = <<>>
     ELSE id_phase' = "setup" /\ id_field' = id_field + 1
          /\ id_text' = ww_install_dirs'[Directories[id_field + 1]]
  /\ UNCHANGED <<id_env, id_destdir>>
InputDone ==
  /\ id_phase = "input" /\ ~HasReference(id_text)
  /\ id_phase' = "open" /\ id_text' = <<>>
  /\ UNCHANGED <<ww_install_dirs, id_env, id_destdir, id_field>>
InstallClose ==
  /\ id_phase = "open"
  /\ ww_install_dirs' = NoDirs /\ id_phase' = "closed"
  /\ UNCHANGED <<id_env, id_destdir, id_field, id_text>>
InstallNext == InstallOpen \/ ExpandInput \/ ExpandPass \/ ExpandDone \/ InputDone \/ InstallClose
InstallSpec == InstallInit /\ [][InstallNext]_id_vars
-----------------------------------------------------------------------------
(* What each directory stands for, from what was set.                        *)
Set(f) == IF EnvGives(f) THEN id_env[f] ELSE Configured[f]
RefersTo(f) == {g \in Field : Contains(Set(f), Reference[g])}
Backward == \A i \in DOMAIN Directories :
              RefersTo(Directories[i]) \subseteq {Directories[j] : j \in 1 .. i - 1}
RefersToAny(token, n) == {j \in 1 .. n : Reference[Directories[j]] = token}
Meaning(token, known) ==
  LET referred == RefersToAny(token, Len(known))
  IN  IF referred = {} THEN <<token>> ELSE known[CHOOSE j \in referred : TRUE]
MeaningOf(text, known) ==
  LET upto[k \in 0 .. Len(text)] ==
        IF k = 0 THEN <<>> ELSE upto[k - 1] \o Meaning(text[k], known)
  IN  upto[Len(text)]
StandsFor ==
  LET known[k \in 0 .. Len(Directories)] ==
        IF k = 0 THEN <<>> ELSE Append(known[k - 1], MeaningOf(Set(Directories[k]), known[k - 1]))
  IN  known[Len(Directories)]
(* When directories refer to earlier ones only, each is what it stands for   *)
(* with $WW_DESTDIR, if that is an absolute path, exactly once and in front, *)
(* the environment's value has replaced the configured one, and an expanded  *)
(* text has no reference left that the code knows                            *)
(* (installdirs_base_expand.c:58-157, installdirs_base_components.c:28-110). *)
DirectoriesResolved ==
  id_phase \in {"open", "input"} /\ Backward /\ id_destdir \in {"unset", "absolute"} =>
    \A i \in DOMAIN Directories :
      ww_install_dirs[Directories[i]] = Destdir \o StandsFor[i]
=============================================================================

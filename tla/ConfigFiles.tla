----------------------------- MODULE ConfigFiles -----------------------------
(* The files that give variables their values: which are read, in which      *)
(* order, and what is kept of them.  A file is a sequence of items:          *)
(* "name = value" lines, and lines of options "-mca name value" and          *)
(* "-x name[=value]".  Quotes, blanks and comments are left out.             *)
EXTENDS Integers, Sequences, FiniteSets, SequencesExt
CONSTANTS FileOf,       \* path -> sequence of items
          PathOf,       \* name of a prefix file -> the path it is found at
          FileConfigs,  \* [files, prefix, envprefix]: what the variables say
          OverrideFile, \* mca_base_var_override_file
          NullValue,
          MaxReads      \* bound on how often the files are read
VARIABLES cf_config,
          cf_stage,     \* the list that is read, or "closed" or "done"
          cf_todo,      \* the paths that are still to be read
          cf_list,      \* stage -> the values kept of its files
          cf_file_list, \* mca_base_var_file_list
          cf_lineno, env_str,   \* of the parser: the last line, what -x has set
          cf_reads
cf_vars == <<cf_config, cf_stage, cf_todo, cf_list, cf_file_list, cf_lineno, env_str, cf_reads>>
Stages == {"params", "envars", "overrides"}
EnvList == "mca_base_env_list_internal"
Joined == "joined names"
FileItems == [form : {"word", "mca", "x", "error"}, name : STRING, value : STRING, line : Nat]
ASSUME FilesAssumption ==
  /\ DOMAIN FileOf \subseteq STRING /\ \A path \in DOMAIN FileOf : FileOf[path] \in Seq(FileItems)
  /\ \A name \in DOMAIN PathOf : PathOf[name] \in STRING
  /\ FileConfigs \subseteq [files : Seq(STRING), prefix : Seq(STRING), envprefix : Seq(STRING)]
  /\ OverrideFile \in STRING
  /\ {EnvList, Joined} \subseteq STRING
FileItem(form, name, value, line) == [form |-> form, name |-> name, value |-> value, line |-> line]
FilesInit ==
  /\ cf_config \in FileConfigs
  /\ cf_stage = "closed" /\ cf_todo = <<>>
  /\ cf_list = [s \in Stages |-> <<>>]
  /\ cf_file_list = <<>> /\ cf_lineno = 0 /\ env_str = <<>> /\ cf_reads = 0
-----------------------------------------------------------------------------
(* save_value: a name that is in the list has its value replaced.            *)
(* Mutation: a name that is in the list is added once more. *)
SaveValue_Added(list, fv) == Append(list, fv)
SaveValue(list, fv) ==
  IF \E i \in DOMAIN list : list[i].var = fv.var
  THEN [i \in DOMAIN list |-> IF list[i].var = fv.var THEN fv ELSE list[i]]
  ELSE Append(list, fv)
Saved(item, path, line) == [var |-> item.name, value |-> item.value, file |-> path, line |-> line]
(* Only "name = value" lines set the line number that is kept with a value;  *)
(* an item that cannot be read is reported and passed over.                  *)
ParseItem(p, item, path) ==
  CASE item.form = "word" -> [p EXCEPT !.list = SaveValue(@, Saved(item, path, item.line)),
                                       !.lineno = item.line]
    [] item.form = "mca"  -> [p EXCEPT !.list = SaveValue(@, Saved(item, path, p.lineno))]
    [] item.form = "x"    -> [p EXCEPT !.env = Append(@, <<item.name, item.value>>)]
    [] item.form = "error" -> p
(* A file that cannot be opened is passed over.                              *)
Items(path) == IF path \in DOMAIN FileOf THEN FileOf[path] ELSE <<>>
KeyvalParse(p, path) ==
  LET after[k \in 0 .. Len(Items(path))] ==
        IF k = 0 THEN p ELSE ParseItem(after[k - 1], Items(path)[k], path)
  IN  after[Len(Items(path))]

(* resolve_relative_paths: the prefix files go in front if all are found.    *)
FixupFiles(prefix, files) ==
  IF \A i \in DOMAIN prefix : prefix[i] \in DOMAIN PathOf
  THEN [i \in DOMAIN prefix |-> PathOf[prefix[i]]] \o files ELSE files
(* The files for the environment are those for the variables, but separated  *)
(* by commas: with more than one, their list is taken for a single name.     *)
EnvarFiles == IF Len(cf_config.files) > 1 THEN <<Joined>> ELSE cf_config.files
PathsFor(stage) ==
  CASE stage = "params"    -> FixupFiles(cf_config.prefix, cf_config.files)
    [] stage = "envars"    -> FixupFiles(cf_config.envprefix, EnvarFiles)
    [] stage = "overrides" -> IF OverrideFile \in DOMAIN FileOf THEN <<OverrideFile>> ELSE <<>>
StageAfter(stage) == CASE stage = "params" -> "envars" [] stage = "envars" -> "overrides"
                       [] stage = "overrides" -> "done"

(* mca_base_var_cache_files, file by file and, in each list, from the last   *)
(* to the first, so that the first one has precedence.                       *)
CacheFiles ==
  /\ cf_stage = "closed" /\ cf_reads < MaxReads
  /\ IF cf_config.files = <<"none">>
     THEN cf_stage' = "done" /\ cf_todo' = <<>>
     ELSE cf_stage' = "params" /\ cf_todo' = PathsFor("params")
  /\ cf_reads' = cf_reads + 1
  /\ UNCHANGED <<cf_config, cf_list, cf_file_list, cf_lineno, env_str>>
ReadFile ==
  /\ cf_todo # <<>>
  /\ LET path == Last(cf_todo)
         p == KeyvalParse([list |-> cf_list[cf_stage], lineno |-> cf_lineno, env |-> env_str], path)
     IN  /\ cf_list' = [cf_list EXCEPT ![cf_stage] = p.list]
         /\ cf_lineno' = p.lineno /\ env_str' = p.env
         /\ cf_file_list' = IF Contains(cf_file_list, path) THEN cf_file_list
                                                            ELSE Append(cf_file_list, path)
  /\ cf_todo' = Front(cf_todo)
  /\ UNCHANGED <<cf_config, cf_stage, cf_reads>>
(* What -x has set is kept in the list as the value of one more variable.    *)
EnvStore(list, path) ==
  IF env_str = <<>> THEN list
  ELSE SaveValue(list, [var |-> EnvList, value |-> env_str, file |-> path, line |-> cf_lineno])
EndList ==
  /\ cf_stage \in Stages /\ cf_todo = <<>>
  /\ IF PathsFor(cf_stage) = <<>> THEN UNCHANGED <<cf_list, env_str>>
     ELSE /\ cf_list' = [cf_list EXCEPT ![cf_stage] = EnvStore(@, Head(PathsFor(cf_stage)))]
          /\ env_str' = <<>>
  /\ cf_stage' = StageAfter(cf_stage)
  /\ cf_todo' = IF cf_stage' = "done" THEN <<>> ELSE PathsFor(cf_stage')
  /\ UNCHANGED <<cf_config, cf_file_list, cf_lineno, cf_reads>>
(* mca_base_var_finalize.                                                    *)
DropFiles ==
  /\ cf_stage = "done"
  /\ cf_stage' = "closed"
  /\ cf_list' = [s \in Stages |-> <<>>]
  /\ cf_file_list' = <<>>
  /\ UNCHANGED <<cf_config, cf_todo, cf_lineno, env_str, cf_reads>>
FilesNext == CacheFiles \/ ReadFile \/ EndList \/ DropFiles
FilesSpec == FilesInit /\ [][FilesNext]_cf_vars
-----------------------------------------------------------------------------
Lowest(S) == CHOOSE i \in S : \A j \in S : i <= j
Highest(S) == CHOOSE i \in S : \A j \in S : j <= i
GivenBy(path, n) == {i \in DOMAIN Items(path) : /\ Items(path)[i].name = n
                                                /\ Items(path)[i].form \in {"word", "mca"}}
Giving(paths, n) == {i \in DOMAIN paths : GivenBy(paths[i], n) # {}}
(* What a file sets with -x, and what the files of a list do together.       *)
SetByFile(path) ==
  LET pairs[k \in 0 .. Len(Items(path))] ==
        IF k = 0 THEN <<>>
        ELSE IF Items(path)[k].form = "x"
             THEN Append(pairs[k - 1], <<Items(path)[k].name, Items(path)[k].value>>)
             ELSE pairs[k - 1]
  IN  pairs[Len(Items(path))]
SetByFiles(paths) ==
  LET pairs[k \in 0 .. Len(paths)] ==
        IF k = 0 THEN <<>> ELSE pairs[k - 1] \o SetByFile(paths[Len(paths) - k + 1])
  IN  pairs[Len(paths)]
HasNone(list, n) == \A i \in DOMAIN list : list[i].var # n
HasOnce(list, n, value, files) ==
  \E i \in DOMAIN list : /\ {j \in DOMAIN list : list[j].var = n} = {i}
                         /\ list[i].value = value /\ list[i].file \in files
(* What a list has of a name when the files at paths have been read into it. *)
AsFirstSaid(list, paths, n) ==
  LET giving == Giving(paths, n)
      file   == paths[Lowest(giving)]
      last   == Highest(GivenBy(file, n))
  IN  IF giving = {} THEN HasNone(list, n) ELSE HasOnce(list, n, Items(file)[last].value, {file})
ItemNames == UNION {{FileOf[path][i].name : i \in DOMAIN FileOf[path]} : path \in DOMAIN FileOf}
(* Once the files are read, a list has each name once, with what the first   *)
(* of its files that has it says last, under that file's name; what is set   *)
(* with -x in the files of one list is in that list and in no other, in the  *)
(* place of what a file says of the variable that is kept for it             *)
(* (mca_base_var.c:413-560, 1245-1268, mca_base_parse_paramfile.c:54-97).    *)
FirstFileWins ==
  cf_stage = "done" /\ cf_config.files # <<"none">> =>
    \A stage \in Stages : \A n \in ItemNames \cup {EnvList} :
      LET list == cf_list[stage]
          paths == PathsFor(stage)
      IN  IF n = EnvList /\ SetByFiles(paths) # <<>>
          THEN HasOnce(list, n, SetByFiles(paths), {paths[1]})
          ELSE AsFirstSaid(list, paths, n)
=============================================================================

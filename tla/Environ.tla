------------------------------- MODULE Environ -------------------------------
(* Environments as arrays of entries: set, unset and merged, and changed by  *)
(* the list mca_base_env_list.  A value is a sequence of words between which *)
(* there is "=", and empty when it is the empty string.  The array is always *)
(* allocated: where the major one is NULL merge only copies the minor one.   *)
EXTENDS Integers, Sequences, FiniteSets, SequencesExt
CONSTANTS EnvNames, EnvValues,
          Minors,       \* arrays merged into it: sequences of entries
          EnvLists,     \* mca_base_env_list, split at its separators
          ProcessEnv,   \* name -> value in the environment of the process, or Undefined
          Undefined
VARIABLES env,          \* the array
          env_is_environ,   \* whether it is that of the process
          env_expected, \* name -> value it is documented to have
          env_open      \* names for which the code does something else
env_vars == <<env, env_is_environ, env_expected, env_open>>
EnvText == Seq(STRING)
Entries == [name : STRING, value : EnvText \cup {Undefined}]
ASSUME EnvironAssumption ==
  /\ Undefined \notin EnvText
  /\ EnvNames \subseteq STRING /\ EnvValues \subseteq EnvText
  /\ Minors \subseteq Seq(Entries)
  /\ EnvLists \subseteq Seq([name : EnvNames, value : EnvText \cup {Undefined}])
  /\ ProcessEnv \in [EnvNames -> EnvText \cup {Undefined}]
Entry(n, v) == [name |-> n, value |-> v]
(* An entry without "=" is never found under its name.                       *)
Bare(n) == [name |-> n, value |-> Undefined]
EnvInit ==
  /\ env \in {<<>>} \cup {<<Bare(n)>> : n \in EnvNames}
  /\ env_is_environ \in BOOLEAN
  /\ env_expected = [n \in EnvNames |-> Undefined] /\ env_open = {}
Named(entries, n) == {i \in DOMAIN entries : entries[i].name = n /\ entries[i].value # Undefined}
First(S) == CHOOSE i \in S : \A j \in S : i <= j
Latest(S) == CHOOSE i \in S : \A j \in S : j <= i
-----------------------------------------------------------------------------
(* ww_setenv; with the array of the process it is putenv, which overwrites.  *)
(* Mutation: a value that is set is never looked for. *)
SetIn_Appended(entries, n, v, overwrite) == Append(entries, Entry(n, v))
SetIn(entries, n, v, overwrite) ==
  LET found == Named(entries, n)
  IN  IF found = {} THEN Append(entries, Entry(n, v))
      ELSE IF overwrite \/ env_is_environ THEN [entries EXCEPT ![First(found)] = Entry(n, v)]
      ELSE entries
SetAll(entries, list, overwrite) ==
  LET after[k \in 0 .. Len(list)] ==
        IF k = 0 THEN entries ELSE SetIn(after[k - 1], list[k].name, list[k].value, overwrite)
  IN  after[Len(list)]
Given(list, n) == {i \in DOMAIN list : list[i].name = n}
(* What is there is not to be overwritten, but putenv does.                  *)
Refused(n, overwrite) == ~overwrite /\ env_expected[n] # Undefined
SetEnv(n, v, overwrite) ==
  /\ env' = SetIn(env, n, v, overwrite)
  /\ env_expected' = [env_expected EXCEPT ![n] = IF Refused(n, overwrite) THEN @ ELSE v]
  /\ env_open' = IF overwrite THEN env_open \ {n}
                 ELSE env_open \cup {m \in {n} : env_is_environ /\ Refused(m, overwrite)}
  /\ UNCHANGED env_is_environ
UnsetEnv(n) ==
  /\ env' = IF Named(env, n) = {} THEN env ELSE RemoveAt(env, First(Named(env, n)))
  /\ env_expected' = [env_expected EXCEPT ![n] = Undefined]
  /\ env_open' = env_open \ {n}
  /\ UNCHANGED env_is_environ
(* A copy of the major array, which is this one, with what only minor has;   *)
(* an entry without "=" is set to the empty string.                          *)
Filled(minor) ==
  [i \in DOMAIN minor |-> IF minor[i].value = Undefined THEN Entry(minor[i].name, <<>>) ELSE minor[i]]
Merge(minor) ==
  LET list == Filled(minor)
  IN  /\ ~env_is_environ
      /\ env' = SetAll(env, list, FALSE)
      /\ env_expected' = [n \in EnvNames |->
           IF env_expected[n] = Undefined /\ Given(list, n) # {} THEN list[First(Given(list, n))].value
                                                                 ELSE env_expected[n]]
      /\ UNCHANGED <<env_is_environ, env_open>>
(* process_env_list: a token is name=value, or the name of a variable of the *)
(* process, whose value is passed on.  The first one that is not set there   *)
(* ends it.  A value with "=" in it is itself taken for name=value.          *)
Misnamed(token) == token.value = Undefined /\ Len(ProcessEnv[token.name]) > 1
Valued(token) == IF token.value = Undefined THEN Entry(token.name, ProcessEnv[token.name]) ELSE token
Passed(token) == IF Misnamed(token)
                 THEN Entry(Head(ProcessEnv[token.name]), Tail(ProcessEnv[token.name])) ELSE Valued(token)
Unknown(token) == token.value = Undefined /\ ProcessEnv[token.name] = Undefined
ReadPart(list) ==
  LET ends == {i \in DOMAIN list : Unknown(list[i])}
  IN  IF ends = {} THEN list ELSE SubSeq(list, 1, First(ends) - 1)
Meant(read) == [i \in DOMAIN read |-> Valued(read[i])]
Resolved(read) == [i \in DOMAIN read |-> Passed(read[i])]
ProcessEnvList(list) ==
  LET read == ReadPart(list)
      meant == Meant(read)
  IN  /\ ~env_is_environ
      /\ env' = SetAll(env, Resolved(read), TRUE)
      /\ env_expected' = [n \in EnvNames |->
           IF Given(meant, n) = {} THEN env_expected[n] ELSE meant[Latest(Given(meant, n))].value]
      /\ env_open' = {n \in EnvNames :
           \/ n \in env_open /\ Given(meant, n) = {}
           \/ \E i \in DOMAIN read : Misnamed(read[i]) /\ n \in {read[i].name, Passed(read[i]).name}}
      /\ UNCHANGED env_is_environ
EnvironNext ==
  \/ \E n \in EnvNames : \/ UnsetEnv(n)
                         \/ \E v \in EnvValues, overwrite \in BOOLEAN : SetEnv(n, v, overwrite)
  \/ \E minor \in Minors : Merge(minor)
  \/ \E list \in EnvLists : ProcessEnvList(list)
EnvironSpec == EnvInit /\ [][EnvironNext]_env_vars
-----------------------------------------------------------------------------
(* Each name is in the environment at most once, and has the value that was  *)
(* set last or, where values may not be overwritten, first, unless what the  *)
(* code did with it last is not what it is documented to do                  *)
(* (ww_environ.c:40-205, mca_base_var.c:318-388).                            *)
AsDocumented(n) == {env[i].value : i \in Named(env, n)} = {env_expected[n]} \ {Undefined}
EnvironIsMap ==
  \A n \in EnvNames :
    /\ \A i, j \in Named(env, n) : i = j
    /\ n \notin env_open => AsDocumented(n)
(* "In the case where a value is not assigned to variable VAR, the value will *)
(* be taken from the current environment" (help-mca-var.txt:130-131), and    *)
(* "add their local value, or their assigned value" (mca_base_var.h:730-731):*)
(* what a list names is passed on under its name.                            *)
ListPassesValues == ~env_is_environ => \A n \in EnvNames : AsDocumented(n)
(* "WW_EXISTS If the name already exists in env and overwrite is false (and  *)
(* therefore the value was not saved in env)" (ww_environ.h:80-82), which    *)
(* may be the environment of the process.                                    *)
OverwriteRefused == env_is_environ => \A n \in EnvNames : AsDocumented(n)
=============================================================================

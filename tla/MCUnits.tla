------------------------------ MODULE MCUnits -------------------------------
(* The units of the library: container classes, object system, atomics and   *)
(* locks, the runtime and its frameworks, output, texts and files.  They     *)
(* share nothing, so one run explores them side by side: a behaviour is of   *)
(* one subject, and the state graph is the union of theirs and not their     *)
(* product.                                                                  *)
EXTENDS RingBuffer, PointerArray, LinkedList, HashTable, ValueArray, ObjectSystem,
        Atomics, ThreadLock, Runtime, InstallDirs, Output, OutputLine,
        Checksums, MCVarText, Argv, Environ, ConfigFiles
VARIABLE subject
MCRank == [i \in Item |-> CASE i = "a" -> 2 [] i = "b" -> 1 [] i = "c" -> 3]
(* 31 slots until the fifth key: a29, b60, c30 and d31 meet at the table's    *)
(* end and go round it, and what is removed leaves a gap before the end.      *)
MCKeys == [uint32 |-> {"a", "b", "c", "d", "e"}, uint64 |-> {"m"}, ptr |-> {"x", "y", "z"}]
MCHash == [a |-> 29, b |-> 60, c |-> 30, d |-> 31, e |-> 1, m |-> 3, x |-> 0, y |-> 31, z |-> 30]
MCParent == [item |-> BaseClass, framework |-> "item", hotel |-> BaseClass]

MCRequests == {[op |-> "add", old |-> 0, arg |-> 1], [op |-> "sub", old |-> 0, arg |-> 1],
               [op |-> "swap", old |-> 0, arg |-> 2], [op |-> "cmpset", old |-> 1, arg |-> 0]}

MCOffered == [sec |-> <<"native", "munge">>, dstore |-> <<"ds1", "ds2">>]
MCPriority == [native |-> 10, munge |-> 80, ds1 |-> 5, ds2 |-> 5]

(* The references are to earlier directories, to later ones and in a circle; *)
(* wwlibdir is referred to by another name.                                  *)
MCDirs == <<"prefix", "exec_prefix", "libdir", "wwlibdir">>
MCReference == [prefix |-> "${prefix}", exec_prefix |-> "${exec_prefix}",
                libdir |-> "${libdir}", wwlibdir |-> "${pkglibdir}"]
MCConfigured == [prefix |-> <<"opt">>, exec_prefix |-> <<"${prefix}">>,
                 libdir |-> <<"${exec_prefix}", "lib">>, wwlibdir |-> <<"${libdir}", "ww">>]
MCEnvironments ==
  {[prefix |-> p, exec_prefix |-> e, libdir |-> l, wwlibdir |-> <<>>] :
     p \in {<<>>, <<"usr">>, <<"${prefix}">>}, e \in {<<>>, <<"${libdir}">>},
     l \in {<<>>, <<"${exec_prefix}", "${prefix}", "${exec_prefix}">>, <<"${wwlibdir}">>}}
MCInputs == {<<"-D", "${prefix}", "share">>, <<"-pthread">>}

Stream(debugging, syslog, file, suffix) ==
  [debugging |-> debugging, syslog |-> syslog, console |-> ~file, file |-> file, suffix |-> suffix]
MCDescribed == {Stream(FALSE, TRUE, FALSE, NoSuffix), Stream(FALSE, FALSE, TRUE, "a"),
                Stream(TRUE, FALSE, TRUE, "b")}
MCRedirections == {<<"none", NoSuffix>>, <<"file", "b">>, <<"syslog", NoSuffix>>}

MCMessages == {<<1, 2, 3, 3, 0, 1, 2, 3>>, <<3, 3, 3, 3, 3, 3, 3, 3>>, <<2, 0, 0, 1, 3, 1, 0, 2>>}
MCArgs == {<<>>, <<"a">>, <<"b", "a">>}

MCEnvValues == {<<>>, <<"1">>}
MCMinors == {<<Entry("HOME", <<"1">>), Bare("LANG"), Entry("HOME", <<"2">>)>>, <<>>}
MCEnvLists == {<<Bare("HOME"), Bare("PATH"), Entry("LANG", <<"1">>)>>,
               <<Bare("LANG"), Entry("LANG", <<"2">>)>>}
MCProcessEnv == [HOME |-> <<"1">>, LANG |-> <<"PATH", "2">>, PATH |-> Undefined]

MCFileOf ==
  [sys  |-> <<FileItem("word", "a", "1", 1), FileItem("word", "b", "1", 2), FileItem("x", "HOME", NullValue, 3)>>,
   home |-> <<FileItem("mca", "b", "2", 1), FileItem("error", "", "", 2),
              FileItem("word", "b", NullValue, 3), FileItem("mca", "c", "2", 4)>>,
   set  |-> <<FileItem("word", "a", "3", 1), FileItem("x", "LANG", "3", 2), FileItem("x", "HOME", "3", 2),
             FileItem("word", EnvList, "3", 3)>>,
   over |-> <<FileItem("word", "c", "4", 5), FileItem("word", EnvList, "4", 6)>>]
MCPathOf == [aset |-> "set"]
MCFileConfigs ==
  {[files |-> f, prefix |-> p, envprefix |-> e] :
     f \in {<<"home", "sys">>, <<"sys">>, <<"none">>, <<"sys", "missing">>, <<>>},
     p \in {<<>>, <<"aset">>, <<"aset", "lost">>}, e \in {<<>>, <<"aset">>}}

Subjects == {"ring", "pointers", "lists", "hash", "values", "objects",
             "atomics", "threadlock", "runtime", "installdirs", "output",
             "line", "checksums", "text", "argv", "environ", "files"}
(* The other subjects stay in one of their initial states.                   *)
MCInit ==
  /\ subject \in Subjects
  /\ RingInit
  /\ ArrayInit
  /\ ListInit
  /\ HashInit
  /\ ValueInit
  /\ ObjectInit
  /\ AtomicInit /\ (subject # "atomics" => at_method = Amd64)
  /\ ThreadLockInit /\ (subject # "threadlock" => ~in_use)
  /\ RuntimeInit
  /\ InstallInit /\ (subject # "installdirs" => id_destdir = "unset" /\ id_env = CHOOSE e \in Environments : TRUE)
  /\ OutInit /\ (subject # "output" => out_redirect = "none")
  /\ LineInit
  /\ ChecksumInit /\ (subject # "checksums" => ck_message = CHOOSE m \in Messages : TRUE)
  /\ VarTextInit /\ (subject # "text" => vt_kind = "bool")
  /\ ArgvInit
  /\ EnvInit /\ (subject # "environ" => env = <<>> /\ ~env_is_environ)
  /\ FilesInit /\ (subject # "files" => cf_config = CHOOSE c \in FileConfigs : TRUE)
MCNext ==
  /\ UNCHANGED subject
  /\ IF subject = "ring"        THEN RingNext        ELSE UNCHANGED ring_vars
  /\ IF subject = "pointers"    THEN ArrayNext       ELSE UNCHANGED pa_vars
  /\ IF subject = "lists"       THEN ListNext        ELSE UNCHANGED li_vars
  /\ IF subject = "hash"        THEN HashNext        ELSE UNCHANGED ht_vars
  /\ IF subject = "values"      THEN ValueNext       ELSE UNCHANGED va_vars
  /\ IF subject = "objects"     THEN ObjectNext      ELSE UNCHANGED obj_vars
  /\ IF subject = "atomics"     THEN AtomicNext      ELSE UNCHANGED at_vars
  /\ IF subject = "threadlock"  THEN ThreadLockNext  ELSE UNCHANGED tl_vars
  /\ IF subject = "runtime"     THEN RuntimeNext     ELSE UNCHANGED rt_vars
  /\ IF subject = "installdirs" THEN InstallNext     ELSE UNCHANGED id_vars
  /\ IF subject = "output"      THEN OutNext         ELSE UNCHANGED out_vars
  /\ IF subject = "line"        THEN LineNext        ELSE UNCHANGED line_vars
  /\ IF subject = "checksums"   THEN ChecksumNext    ELSE UNCHANGED ck_vars
  /\ IF subject = "text"        THEN VarTextNext     ELSE UNCHANGED vt_vars
  /\ IF subject = "argv"        THEN ArgvNext        ELSE UNCHANGED av_vars
  /\ IF subject = "environ"     THEN EnvironNext     ELSE UNCHANGED env_vars
  /\ IF subject = "files"       THEN FilesNext       ELSE UNCHANGED cf_vars
MCSpec ==
  /\ MCInit
  /\ [][MCNext]_<<subject, ring_vars, pa_vars, li_vars, ht_vars, va_vars, obj_vars, at_vars, tl_vars,
                  rt_vars, id_vars, out_vars, line_vars, ck_vars,
                  vt_vars, av_vars, env_vars, cf_vars>>
=============================================================================

------------------------------- MODULE Output --------------------------------
(* The output streams: a table of a fixed size whose entries are handed out  *)
(* as handles, and files that are opened at the first line written and are   *)
(* shared by streams of one suffix.  The level of a message and the text of  *)
(* a line are left out (OutputLine has the line).                            *)
EXTENDS Integers, FiniteSets, FiniteSetsExt
CONSTANTS MaxStreams,     \* WW_OUTPUT_MAX_STREAMS
          FileDesc,       \* file descriptors, a set of numbers
          Described,      \* streams asked for, as records
          Redirections,   \* values of $WW_OUTPUT_REDIRECT and $WW_OUTPUT_SUFFIX
          NoSuffix
ASSUME OutputAssumption ==
  /\ MaxStreams \in Nat \ {0} /\ FileDesc \subseteq Nat /\ NoSuffix # "closed"
  /\ \A lds \in Described : lds.suffix # "closed" /\
       lds \in [debugging : BOOLEAN, syslog : BOOLEAN, console : BOOLEAN, file : BOOLEAN, suffix : {lds.suffix}]
  /\ \A r \in Redirections : r[1] \in {"none", "file", "syslog"} /\ r[2] # "closed"
VARIABLES out_initialized, out_info, verbose_stream,
          out_redirect, out_suffix,   \* $WW_OUTPUT_REDIRECT, $WW_OUTPUT_SUFFIX
          out_files,      \* descriptor -> the suffix of the file open on it, or "closed"
          out_dir,        \* the directory of the files: absent, present, or its name freed
          out_held,       \* handles given to callers and not closed by them
          out_lost,       \* history: the held handles whose file failed to open,
          out_stranded    \* and the streams whose descriptor outlived its use
out_vars == <<out_initialized, out_info, verbose_stream, out_redirect, out_suffix,
              out_files, out_dir, out_held, out_lost, out_stranded>>
NoFd == -1
Handle == 0 .. MaxStreams - 1
Unused == [used |-> FALSE, enabled |-> FALSE, syslog |-> out_redirect = "syslog",
           console |-> FALSE, file |-> FALSE, suffix |-> NoSuffix, fd |-> NoFd]
Verbose == [debugging |-> FALSE, syslog |-> out_redirect = "syslog",
            console |-> out_redirect # "syslog", file |-> FALSE, suffix |-> NoSuffix]
OutInit ==
  /\ out_initialized = FALSE /\ verbose_stream = -1
  /\ \E r \in Redirections : out_redirect = r[1] /\ out_suffix = r[2]
  /\ out_info = [i \in Handle |-> Unused]
  /\ out_files = [f \in FileDesc |-> "closed"]
  /\ out_dir = "absent"
  /\ out_held = {} /\ out_lost = {} /\ out_stranded = {}
-----------------------------------------------------------------------------
(* do_open, in a build without WW_ENABLE_DEBUG.  The descriptor is not reset *)
(* when the environment sends the output to files.                           *)
Requested(old, lds, fd) ==
  [used |-> TRUE, enabled |-> ~lds.debugging,
   syslog |-> out_redirect = "syslog" \/ lds.syslog,
   console |-> out_redirect = "none" /\ lds.console,
   file |-> CASE out_redirect = "none" -> lds.file
              [] out_redirect = "file" -> TRUE
              [] out_redirect = "syslog" -> FALSE,
   suffix |-> CASE out_redirect = "syslog" -> old.suffix
                [] out_suffix # NoSuffix -> out_suffix
                [] OTHER -> lds.suffix,
   fd |-> fd]
(* Mutation: the descriptor is never reset. *)
Opened_KeepsFd(old, lds) == Requested(old, lds, old.fd)
Opened(old, lds) == Requested(old, lds, IF out_redirect = "file" THEN old.fd ELSE NoFd)

(* ww_output_init, which every other call makes if it has not been made.     *)
Initialised == IF out_initialized THEN out_info
               ELSE [out_info EXCEPT ![0] = Opened(@, Verbose)]
InitOnce == /\ out_initialized' = TRUE
            /\ verbose_stream' = IF out_initialized THEN verbose_stream ELSE 0
HeldOnce == IF out_initialized THEN out_held ELSE out_held \cup {0}
OutputInit ==
  /\ ~out_initialized
  /\ InitOnce /\ out_info' = Initialised /\ out_held' = HeldOnce
  /\ UNCHANGED <<out_redirect, out_suffix, out_files, out_dir, out_lost, out_stranded>>

(* free_descriptor, of a stream that is used and enabled: the descriptor is  *)
(* closed, whoever shares it, and stays in the entry; the rest of an unused  *)
(* entry is never read before it is overwritten.                             *)
Frees(i) == out_info[i].used /\ out_info[i].enabled
Freed(i) == IF Frees(i) THEN [Unused EXCEPT !.fd = IF out_redirect = "file" THEN out_info[i].fd ELSE NoFd] ELSE out_info[i]
FilesWithout(i) == IF Frees(i) /\ out_info[i].fd # NoFd
                   THEN [out_files EXCEPT ![out_info[i].fd] = "closed"] ELSE out_files
Sharing(i) == {j \in Handle \ {i} : Frees(i) /\ out_info[i].fd # NoFd
                                  /\ out_info[j].used /\ out_info[j].fd = out_info[i].fd}
FreeDescriptor(i) ==
  /\ out_files' = FilesWithout(i)
  /\ out_info' = [out_info EXCEPT ![i] = Freed(i)]
  /\ out_stranded' = out_stranded \cup Sharing(i)
  /\ out_held' = out_held \ {i} /\ out_lost' = out_lost \ {i}

Keeping(i) == {j \in {i} : out_redirect = "file" /\ out_info[i].fd # NoFd}
FirstUnused(table) == Min({i \in Handle : ~table[i].used})
Open(lds) ==
  /\ InitOnce
  /\ LET table == Initialised
     IN  IF \A i \in Handle : table[i].used   \* WW_ERR_OUT_OF_RESOURCE
         THEN out_info' = table /\ out_held' = HeldOnce /\ UNCHANGED <<out_lost, out_stranded>>
         ELSE LET i == FirstUnused(table)
              IN  /\ out_info' = [table EXCEPT ![i] = Opened(@, lds)]
                  /\ out_held' = HeldOnce \cup {i}
                  /\ out_lost' = out_lost \ {i}
                  /\ out_stranded' = (out_stranded \ {i}) \cup Keeping(i)
  /\ UNCHANGED <<out_redirect, out_suffix, out_files, out_dir>>
Reopen(i, lds) ==
  /\ out_initialized /\ i \in out_held
  /\ out_files' = FilesWithout(i)
  /\ out_info' = [out_info EXCEPT ![i] = Opened(Freed(i), lds)]
  /\ out_lost' = out_lost \ {i}
  /\ out_stranded' = (out_stranded \ {i}) \cup Sharing(i) \cup Keeping(i)
  /\ UNCHANGED <<out_initialized, verbose_stream, out_redirect, out_suffix, out_dir, out_held>>
Switch(i, enable) ==
  /\ InitOnce /\ out_held' = HeldOnce
  /\ i \in HeldOnce
  /\ out_info' = [Initialised EXCEPT ![i].enabled = enable]
  /\ UNCHANGED <<out_redirect, out_suffix, out_files, out_dir, out_lost, out_stranded>>
(* A stream that is switched off when it is closed is never freed.           *)
Close(i) ==
  /\ out_initialized /\ i \in out_held
  /\ FreeDescriptor(i)
  /\ UNCHANGED <<out_initialized, verbose_stream, out_redirect, out_suffix, out_dir>>
(* The output system stays initialized, and the names of its files are freed *)
(* but not reset: it is finalized once, and no file is opened afterwards.    *)
OutputFinalize ==
  /\ out_initialized /\ verbose_stream # -1
  /\ FreeDescriptor(verbose_stream)
  /\ verbose_stream' = -1 /\ out_dir' = "freed"
  /\ UNCHANGED <<out_initialized, out_redirect, out_suffix>>

(* open_file.  The first other stream that is used and goes to a file        *)
(* decides: its descriptor is shared if it is of the same suffix and open.   *)
Mutual(i) == {n \in Handle \ {i} : out_info[n].used /\ out_info[n].file}
(* Mutation: whatever its suffix. *)
SharedFd_AnySuffix(i) == IF Mutual(i) # {} THEN out_info[Min(Mutual(i))].fd ELSE NoFd
SharedFd(i) ==
  LET n == Min(Mutual(i))
  IN  IF Mutual(i) # {} /\ out_info[n].suffix = out_info[i].suffix THEN out_info[n].fd ELSE NoFd
FreeFds == {f \in FileDesc : out_files[f] = "closed"}
LowestFd == Min(FreeFds)
FileFails(i) ==
  /\ out_info' = [out_info EXCEPT ![i] = Unused]
  /\ out_lost' = out_lost \cup {i}
  /\ UNCHANGED <<out_files, out_stranded>>
OpenFile(i) ==
  IF SharedFd(i) # NoFd
  THEN /\ out_info' = [out_info EXCEPT ![i].fd = SharedFd(i)]
       /\ out_stranded' = IF Min(Mutual(i)) \in out_stranded THEN out_stranded \cup {i} ELSE out_stranded
       /\ UNCHANGED <<out_files, out_lost>>
  ELSE \/ /\ out_dir = "absent" \/ (out_dir = "present" /\ FreeFds = {})
          /\ FileFails(i)
       \/ /\ out_dir = "present" /\ FreeFds # {}
          /\ out_info' = [out_info EXCEPT ![i].fd = LowestFd]
          /\ out_files' = [out_files EXCEPT ![LowestFd] = out_info[i].suffix]
          /\ UNCHANGED <<out_lost, out_stranded>>
(* output: a line to a stream that is used and enabled opens its file first. *)
WriteLine(i) ==
  /\ out_initialized /\ i \in out_held
  /\ Frees(i) /\ out_info[i].file /\ out_info[i].fd = NoFd
  /\ OpenFile(i)
  /\ UNCHANGED <<out_initialized, verbose_stream, out_redirect, out_suffix, out_dir, out_held>>
MakeDirectory ==
  /\ out_dir = "absent" /\ out_dir' = "present"
  /\ UNCHANGED <<out_initialized, out_info, verbose_stream, out_redirect, out_suffix,
                 out_files, out_held, out_lost, out_stranded>>

OutNext ==
  \/ OutputInit \/ OutputFinalize \/ MakeDirectory
  \/ \E lds \in Described : Open(lds)
  \/ \E i \in Handle :
       \/ \E lds \in Described : Reopen(i, lds)
       \/ \E enable \in BOOLEAN : Switch(i, enable)
       \/ Close(i) \/ WriteLine(i)
OutSpec == OutInit /\ [][OutNext]_out_vars
-----------------------------------------------------------------------------
(* A handle whose caller has not closed it keeps its stream and is given to  *)
(* no other caller, but where its own file failed to open; a stream writes   *)
(* to an open file of its own suffix, but where its own descriptor was       *)
(* closed with another stream or kept from before, whatever happened to      *)
(* the others; what goes to syslog alone has no file (output.c:588-860).     *)
StreamsKept ==
  /\ out_initialized => \A i \in out_held \ out_lost : out_info[i].used
  /\ \A i \in Handle : out_info[i].used =>
       /\ out_info[i].fd # NoFd /\ i \notin out_stranded => out_files[out_info[i].fd] = out_info[i].suffix
       /\ out_redirect = "syslog" => out_info[i].syslog /\ ~out_info[i].file /\ ~out_info[i].console

(* Lines are discarded while the session directory does not exist; "once the *)
(* session directory is created, ww_output() will automatically create the   *)
(* file" (output.h:378-382), so then every handle still has its stream.      *)
DirectoryBringsFiles == out_initialized /\ out_dir = "present" => \A i \in out_held : out_info[i].used
=============================================================================

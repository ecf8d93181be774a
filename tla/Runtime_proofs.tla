--------------------------- MODULE Runtime_proofs ---------------------------
(* What the output system promises about streams, lines and files, for every *)
(* number of streams and every length of a line; and that the library comes  *)
(* up and goes down whole, for all components of its frameworks.             *)
EXTENDS Runtime, Output, OutputLine, WellFoundedInduction, TLAPS
-----------------------------------------------------------------------------
LineInv == temp_str_len \in Nat /\ LinesWhole

LEMMA LineStep == LineInv /\ [LineNext]_line_vars => LineInv'
<1> SUFFICES ASSUME LineInv, [LineNext]_line_vars PROVE LineInv'
  OBVIOUS
<1>1. CASE UNCHANGED line_vars
  BY <1>1 DEF LineInv, LinesWhole, line_vars
<1>2. CASE FreeBuffer
  BY <1>2 DEF LineInv, LinesWhole, FreeBuffer
<1>3. ASSUME NEW length \in MessageLengths, NEW newline \in BOOLEAN, NEW prefix \in PrefixLengths,
             NEW suffix \in SuffixLengths, MakeString(length, newline, prefix, suffix)
      PROVE  LineInv'
  <2> DEFINE total == prefix + length + 1 + suffix
             want_newline == ~newline \/ suffix > 0
  <2>1. total \in Nat /\ total > 0 /\ temp_str_len \in Nat
    BY LineAssumption DEF LineInv
  <2>2. temp_str_len' = Room(total, want_newline)
    BY <1>3 DEF MakeString
  <2>3. temp_str_len' \in Nat /\ temp_str_len' >= total /\ (want_newline => temp_str_len' > total)
    BY <2>1, <2>2 DEF Room
  <2>4. /\ line'.total = total /\ line'.added = want_newline
        /\ line'.written = IF total < temp_str_len' THEN total ELSE temp_str_len' - 1
    BY <1>3 DEF MakeString
  <2> HIDE DEF total, want_newline
  <2>5. CASE total < temp_str_len'
    BY <2>3, <2>4, <2>5 DEF LineInv, LinesWhole
  <2>6. CASE total = temp_str_len'
    BY <2>1, <2>3, <2>4, <2>6 DEF LineInv, LinesWhole
  <2> QED
    BY <2>1, <2>3, <2>5, <2>6
<1> QED
  BY <1>1, <1>2, <1>3 DEF LineNext

(* Whatever lines went through the buffer before, a line is written whole    *)
(* with the newline that is added to it; a newline that its caller brought   *)
(* is all that may be missing (output.c:851-918).                            *)
THEOREM EveryLineWhole == LineSpec => []LinesWhole
<1>1. LineInit => LineInv
  BY DEF LineInit, LineInv, LinesWhole, NoLine
<1>2. LineInv => LinesWhole
  BY DEF LineInv
<1> QED
  BY <1>1, <1>2, LineStep, PTL DEF LineSpec
-----------------------------------------------------------------------------
LEMMA MinIsLeast ==
  ASSUME NEW S \in SUBSET Nat, S # {}
  PROVE  Min(S) \in S /\ \A j \in S : Min(S) <= j
<1>1. PICK i \in S : \A j \in S : <<j, i>> \notin OpToRel(<, Nat)
  BY NatLessThanWellFounded, WFMin
<1>2. \A j \in S : ~(j < i)
  BY <1>1 DEF OpToRel
<1>3. \E k \in S : \A j \in S : k <= j
  BY <1>2
<1> QED
  BY <1>3 DEF Min

FileSuffixes == {NoSuffix} \cup {lds.suffix : lds \in Described} \cup {r[2] : r \in Redirections}
Entry == [used : BOOLEAN, enabled : BOOLEAN, syslog : BOOLEAN, console : BOOLEAN, file : BOOLEAN,
          suffix : FileSuffixes, fd : FileDesc \cup {NoFd}]
(* Of one entry in use: its descriptor is of a file of its suffix, and with  *)
(* everything sent to syslog it has no file.                                 *)
FileOfEntry(e, files, stale) == e.fd # NoFd /\ ~stale => files[e.fd] = e.suffix
NoFileOfEntry(e) == out_redirect = "syslog" => e.syslog /\ ~e.file /\ ~e.console
TableOK(table, held, files, lost, stranded) ==
  /\ table \in [Handle -> Entry] /\ held \subseteq Handle
  /\ \A i \in held \ lost : table[i].used
  /\ \A i \in Handle : table[i].used =>
       FileOfEntry(table[i], files, i \in stranded) /\ NoFileOfEntry(table[i])
EnvironOK ==
  /\ out_redirect \in {"none", "file", "syslog"} /\ out_suffix \in FileSuffixes
OutTypes ==
  /\ EnvironOK
  /\ out_initialized \in BOOLEAN
  /\ verbose_stream \in Handle \cup {-1}
  /\ out_files \in [FileDesc -> FileSuffixes \cup {"closed"}]
(* Before the output system is initialized no stream is in use. *)
OutInv ==
  /\ OutTypes
  /\ TableOK(out_info, out_held, out_files, out_lost, out_stranded)
  /\ ~out_initialized => out_held = {} /\ \A i \in Handle : ~out_info[i].used /\ out_info[i].fd = NoFd

LEMMA SuffixesAreOpen == "closed" \notin FileSuffixes /\ NoFd \notin FileDesc /\ 0 \in Handle /\ NoSuffix \in FileSuffixes
  BY OutputAssumption DEF FileSuffixes, NoFd, Handle

LEMMA UnusedEntry == Unused \in Entry /\ ~Unused.used /\ Unused.fd = NoFd
  BY SuffixesAreOpen DEF Unused, Entry

Streams == Described \cup {Verbose}
LEMMA OpenedIsInUse ==
  ASSUME EnvironOK, NEW old \in Entry, NEW lds \in Streams
  PROVE  LET e == Opened(old, lds)
         IN  /\ e \in Entry /\ e.used /\ NoFileOfEntry(e)
             /\ e.fd = IF out_redirect = "file" THEN old.fd ELSE NoFd
<1>1. lds \in [debugging : BOOLEAN, syslog : BOOLEAN, console : BOOLEAN, file : BOOLEAN, suffix : FileSuffixes]
  <2>1. CASE lds \in Described
    BY <2>1, OutputAssumption DEF FileSuffixes
  <2>2. CASE lds = Verbose
    BY <2>2, SuffixesAreOpen DEF Verbose
  <2> QED
    BY <2>1, <2>2 DEF Streams
<1>2. CASE out_redirect = "none"
  BY <1>1, <1>2 DEF EnvironOK, Opened, Requested, Entry, NoFileOfEntry
<1>3. CASE out_redirect = "file"
  BY <1>1, <1>3 DEF EnvironOK, Opened, Requested, Entry, NoFileOfEntry
<1>4. CASE out_redirect = "syslog"
  BY <1>1, <1>4 DEF EnvironOK, Opened, Requested, Entry, NoFileOfEntry
<1> QED
  BY <1>2, <1>3, <1>4 DEF EnvironOK

LEMMA Initially == OutInit => OutInv
<1> SUFFICES ASSUME OutInit PROVE OutInv
  OBVIOUS
<1>1. EnvironOK
  BY OutputAssumption DEF OutInit, EnvironOK, FileSuffixes
<1>2. OutTypes
  BY <1>1, SuffixesAreOpen DEF OutInit, OutTypes
<1>3. out_info \in [Handle -> Entry] /\ \A i \in Handle : ~out_info[i].used /\ out_info[i].fd = NoFd
  BY UnusedEntry DEF OutInit
<1> QED
  BY <1>2, <1>3 DEF OutInit, OutInv, TableOK

(* ww_output_init, as part of any call: only entry 0 may change. *)
LEMMA InitialisedIsOK ==
  ASSUME OutInv
  PROVE  /\ TableOK(Initialised, HeldOnce, out_files, out_lost, out_stranded)
         /\ \A i \in Handle : Initialised[i].fd = out_info[i].fd
<1>1. CASE out_initialized
  BY <1>1 DEF Initialised, HeldOnce, OutInv
<1>2. CASE ~out_initialized
  <2>1. Initialised = [out_info EXCEPT ![0] = Opened(out_info[0], Verbose)] /\ HeldOnce = {0}
    BY <1>2 DEF Initialised, HeldOnce, OutInv
  <2>2. Opened(out_info[0], Verbose) \in Entry /\ Opened(out_info[0], Verbose).used
          /\ NoFileOfEntry(Opened(out_info[0], Verbose)) /\ Opened(out_info[0], Verbose).fd = NoFd
    BY <1>2, OpenedIsInUse, SuffixesAreOpen DEF OutInv, OutTypes, TableOK, Streams
  <2> HIDE DEF Initialised, HeldOnce
  <2>3. Initialised \in [Handle -> Entry] /\ HeldOnce \subseteq Handle
    BY <2>1, <2>2, SuffixesAreOpen DEF OutInv, TableOK
  <2>4. \A i \in Handle : Initialised[i].fd = NoFd /\ (Initialised[i].used => i = 0)
    BY <1>2, <2>1, <2>2, SuffixesAreOpen DEF OutInv, TableOK
  <2>5. Initialised[0].used /\ NoFileOfEntry(Initialised[0])
    BY <2>1, <2>2, SuffixesAreOpen DEF OutInv, TableOK
  <2> QED
    BY <1>2, <2>1, <2>3, <2>4, <2>5 DEF OutInv, TableOK, FileOfEntry
<1> QED
  BY <1>1, <1>2 DEF OutInv, OutTypes

(* An entry that replaces another keeps the table right, if it does; what    *)
(* its file and its descriptor went through is forgotten, unless the         *)
(* descriptor is kept.                                                       *)
LEMMA EntryReplaced ==
  ASSUME NEW table, NEW held, NEW files, NEW lost, NEW stranded,
         TableOK(table, held, files, lost, stranded), NEW i \in Handle, NEW e \in Entry, NEW kept,
         e.used, FileOfEntry(e, files, i \in kept), NoFileOfEntry(e)
  PROVE  TableOK([table EXCEPT ![i] = e], held \cup {i}, files, lost \ {i}, (stranded \ {i}) \cup kept)
  BY DEF TableOK, FileOfEntry

LEMMA Concludes ==
  ASSUME OutTypes', UNCHANGED out_redirect, out_initialized',
         TableOK(out_info', out_held', out_files', out_lost', out_stranded')
  PROVE  OutInv'
  BY DEF OutInv, TableOK, FileOfEntry, NoFileOfEntry

(* A file that is closed under another stream strands that one. *)
LEMMA FileClosed ==
  ASSUME OutInv, NEW i \in Handle
  PROVE  /\ FilesWithout(i) \in [FileDesc -> FileSuffixes \cup {"closed"}]
         /\ Freed(i) \in Entry
         /\ Freed(i).fd = IF Frees(i) /\ out_redirect # "file" THEN NoFd ELSE out_info[i].fd
         /\ Freed(i).used => Freed(i) = out_info[i] /\ FilesWithout(i) = out_files
         /\ \A j \in Handle \ {i} : out_info[j].used =>
              FileOfEntry(out_info[j], FilesWithout(i), j \in out_stranded \cup Sharing(i))
         /\ TableOK([out_info EXCEPT ![i] = Freed(i)], out_held \ {i}, FilesWithout(i), out_lost \ {i},
                    out_stranded \cup Sharing(i))
<1>1. out_info \in [Handle -> Entry] /\ out_files \in [FileDesc -> FileSuffixes \cup {"closed"}]
  BY DEF OutInv, TableOK, OutTypes
<1>2. FilesWithout(i) \in [FileDesc -> FileSuffixes \cup {"closed"}]
  BY <1>1 DEF FilesWithout, Entry
<1>3. Freed(i) \in Entry /\ Freed(i).fd = IF Frees(i) /\ out_redirect # "file" THEN NoFd ELSE out_info[i].fd
  <2>1. CASE Frees(i)
    BY <1>1, <2>1, UnusedEntry DEF Freed, Entry
  <2>2. CASE ~Frees(i)
    BY <1>1, <2>2 DEF Freed
  <2> QED
    BY <2>1, <2>2
<1>4. Freed(i).used => Freed(i) = out_info[i] /\ FilesWithout(i) = out_files
  <2>1. CASE Frees(i)
    <3>1. ~Freed(i).used
      BY <2>1, UnusedEntry DEF Freed, Entry
    <3> QED
      BY <3>1
  <2>2. CASE ~Frees(i)
    BY <2>2 DEF Freed, FilesWithout
  <2> QED
    BY <2>1, <2>2
<1>5. ASSUME NEW j \in Handle \ {i}, out_info[j].used
      PROVE  FileOfEntry(out_info[j], FilesWithout(i), j \in out_stranded \cup Sharing(i))
  <2>0. FileOfEntry(out_info[j], out_files, j \in out_stranded)
    BY <1>5 DEF OutInv, TableOK
  <2>1. CASE Frees(i) /\ out_info[i].fd # NoFd /\ out_info[j].fd = out_info[i].fd
    BY <1>5, <2>1 DEF Sharing, FileOfEntry
  <2>2. CASE Frees(i) /\ out_info[i].fd # NoFd /\ out_info[j].fd # out_info[i].fd
    BY <1>1, <2>0, <2>2 DEF FilesWithout, FileOfEntry, Entry
  <2>3. CASE ~(Frees(i) /\ out_info[i].fd # NoFd)
    BY <2>0, <2>3 DEF FilesWithout, FileOfEntry
  <2> QED
    BY <2>1, <2>2, <2>3
<1>6. Freed(i).used => FileOfEntry(Freed(i), FilesWithout(i), i \in out_stranded \cup Sharing(i))
                       /\ NoFileOfEntry(Freed(i))
  BY <1>4 DEF OutInv, TableOK, FileOfEntry
<1>7. TableOK([out_info EXCEPT ![i] = Freed(i)], out_held \ {i}, FilesWithout(i), out_lost \ {i},
              out_stranded \cup Sharing(i))
  BY <1>1, <1>3, <1>5, <1>6 DEF OutInv, TableOK
<1> QED
  BY <1>2, <1>3, <1>4, <1>5, <1>7

LEMMA OpenKeeps ==
  ASSUME OutInv, NEW lds \in Described, Open(lds)
  PROVE  OutInv'
<1> DEFINE i == FirstUnused(Initialised)
<1>0. EnvironOK /\ TableOK(Initialised, HeldOnce, out_files, out_lost, out_stranded)
  BY InitialisedIsOK DEF OutInv, OutTypes
<1>1. out_initialized' /\ UNCHANGED <<out_redirect, out_suffix, out_files, out_dir>>
  BY DEF Open, InitOnce
<1>2. CASE \A k \in Handle : Initialised[k].used
  <2>1. out_info' = Initialised /\ out_held' = HeldOnce /\ UNCHANGED <<out_lost, out_stranded>>
    BY <1>2 DEF Open
  <2>2. OutTypes'
    BY <1>1, <2>1, SuffixesAreOpen DEF OutInv, OutTypes, EnvironOK, Open, InitOnce
  <2> QED
    BY <1>0, <1>1, <2>1, <2>2, Concludes
<1>3. CASE \E k \in Handle : ~Initialised[k].used
  <2>1. i \in Handle /\ ~Initialised[i].used
    <3> DEFINE S == {k \in Handle : ~Initialised[k].used}
    <3>1. S \in SUBSET Nat /\ S # {}
      BY <1>3, OutputAssumption DEF Handle
    <3>2. Min(S) \in S
      BY <3>1, MinIsLeast
    <3> QED
      BY <3>2 DEF FirstUnused
  <2>2. /\ out_info' = [Initialised EXCEPT ![i] = Opened(Initialised[i], lds)]
        /\ out_held' = HeldOnce \cup {i} /\ out_lost' = out_lost \ {i}
        /\ out_stranded' = (out_stranded \ {i}) \cup Keeping(i)
    BY <1>3 DEF Open
  <2> HIDE DEF i
  <2>3. Initialised[i] \in Entry /\ Initialised[i].fd = out_info[i].fd
    BY <1>0, <2>1, InitialisedIsOK DEF TableOK
  <2> DEFINE e == Opened(Initialised[i], lds)
  <2>4. e \in Entry /\ e.used /\ NoFileOfEntry(e) /\ FileOfEntry(e, out_files, i \in Keeping(i))
    BY <1>0, <2>3, OpenedIsInUse DEF Keeping, FileOfEntry, Streams
  <2> HIDE DEF e
  <2>6. TableOK([Initialised EXCEPT ![i] = e], HeldOnce \cup {i}, out_files, out_lost \ {i},
                (out_stranded \ {i}) \cup Keeping(i))
    BY <1>0, <2>1, <2>4, EntryReplaced
  <2>7. OutTypes'
    BY <1>0, <1>1, <2>2, SuffixesAreOpen DEF OutInv, OutTypes, EnvironOK, Open, InitOnce
  <2>8. TableOK(out_info', out_held', out_files', out_lost', out_stranded')
    BY <1>1, <2>2, <2>6 DEF e
  <2> QED
    BY <1>1, <2>7, <2>8, Concludes
<1> QED
  BY <1>2, <1>3

LEMMA ReopenKeeps ==
  ASSUME OutInv, NEW i \in Handle, NEW lds \in Described, Reopen(i, lds)
  PROVE  OutInv'
<1> DEFINE e == Opened(Freed(i), lds)
<1>0. EnvironOK /\ out_info \in [Handle -> Entry]
  BY DEF OutInv, OutTypes, TableOK
<1>1. /\ out_initialized' /\ i \in out_held
      /\ out_files' = FilesWithout(i) /\ out_info' = [out_info EXCEPT ![i] = e]
      /\ out_lost' = out_lost \ {i}
      /\ out_stranded' = (out_stranded \ {i}) \cup Sharing(i) \cup Keeping(i)
      /\ UNCHANGED <<out_redirect, out_suffix, out_held>>
  BY DEF Reopen
<1>2. e \in Entry /\ e.used /\ NoFileOfEntry(e) /\ e.fd = IF out_redirect = "file" THEN Freed(i).fd ELSE NoFd
  BY <1>0, FileClosed, OpenedIsInUse DEF Streams
<1>3. Freed(i).fd = IF Frees(i) /\ out_redirect # "file" THEN NoFd ELSE out_info[i].fd
  BY FileClosed
<1> HIDE DEF e
<1>4. FileOfEntry(e, FilesWithout(i), i \in Keeping(i))
  BY <1>2, <1>3 DEF Keeping, FileOfEntry
<1>5. TableOK(out_info', out_held', out_files', out_lost', out_stranded')
  <2>1. \A j \in Handle \ {i} : out_info[j].used =>
          /\ FileOfEntry(out_info[j], FilesWithout(i), j \in out_stranded \cup Sharing(i))
          /\ NoFileOfEntry(out_info[j])
    BY FileClosed DEF OutInv, TableOK
  <2> QED
    BY <1>0, <1>1, <1>2, <1>4, <2>1 DEF OutInv, TableOK, FileOfEntry
<1>6. OutTypes'
  BY <1>0, <1>1, FileClosed DEF OutInv, OutTypes, EnvironOK, Reopen
<1> QED
  BY <1>1, <1>5, <1>6, Concludes

LEMMA FreeKeeps ==
  ASSUME OutInv, NEW i \in Handle, FreeDescriptor(i), out_initialized', verbose_stream' \in {verbose_stream, -1},
         UNCHANGED <<out_redirect, out_suffix>>
  PROVE  OutInv'
<1>1. TableOK(out_info', out_held', out_files', out_lost', out_stranded')
  BY FileClosed DEF FreeDescriptor
<1>2. OutTypes'
  BY FileClosed DEF OutInv, OutTypes, EnvironOK, FreeDescriptor
<1> QED
  BY <1>1, <1>2, Concludes

LEMMA SwitchKeeps ==
  ASSUME OutInv, NEW i \in Handle, NEW enable \in BOOLEAN, Switch(i, enable)
  PROVE  OutInv'
<1>0. TableOK(Initialised, HeldOnce, out_files, out_lost, out_stranded)
  BY InitialisedIsOK DEF OutInv, OutTypes
<1>1. /\ out_initialized' /\ UNCHANGED <<out_redirect, out_suffix, out_files, out_lost, out_stranded>>
      /\ out_held' = HeldOnce /\ out_info' = [Initialised EXCEPT ![i].enabled = enable]
  BY DEF Switch, InitOnce
<1> DEFINE e == [Initialised[i] EXCEPT !.enabled = enable]
<1>2. e \in Entry /\ (Initialised[i].used <=> e.used) /\ e.fd = Initialised[i].fd /\ e.suffix = Initialised[i].suffix
        /\ e.syslog = Initialised[i].syslog /\ e.file = Initialised[i].file /\ e.console = Initialised[i].console
  BY <1>0 DEF TableOK, Entry
<1>3. out_info' = [Initialised EXCEPT ![i] = e]
  BY <1>0, <1>1 DEF TableOK, Entry
<1> HIDE DEF e
<1>4. e.used => FileOfEntry(e, out_files, i \in out_stranded) /\ NoFileOfEntry(e)
  BY <1>0, <1>2 DEF TableOK, FileOfEntry, NoFileOfEntry
<1>5. TableOK([Initialised EXCEPT ![i] = e], HeldOnce, out_files, out_lost, out_stranded)
  BY <1>0, <1>2, <1>4 DEF TableOK
<1>6. OutTypes'
  BY <1>1, SuffixesAreOpen DEF OutInv, OutTypes, EnvironOK, Switch, InitOnce
<1> QED
  BY <1>1, <1>3, <1>5, <1>6, Concludes

(* The descriptor a stream gets is of a file of its suffix: another stream's *)
(* or a new one that no stream uses.                                         *)
LEMMA WriteKeeps ==
  ASSUME OutInv, NEW i \in Handle, WriteLine(i)
  PROVE  OutInv'
<1>0. /\ out_info \in [Handle -> Entry]
      /\ TableOK(out_info, out_held, out_files, out_lost, out_stranded)
      /\ out_files \in [FileDesc -> FileSuffixes \cup {"closed"}]
      /\ out_info[i].used /\ out_info[i].fd = NoFd /\ NoFileOfEntry(out_info[i])
  BY DEF OutInv, OutTypes, TableOK, WriteLine, Frees
<1>1. out_initialized' /\ UNCHANGED <<verbose_stream, out_redirect, out_suffix, out_held>>
        /\ OpenFile(i)
  BY DEF WriteLine
(* What entry i is with a descriptor fd. *)
<1> DEFINE With(fd) == [out_info[i] EXCEPT !.fd = fd]
<1>2. ASSUME NEW fd \in FileDesc \cup {NoFd}
      PROVE  /\ With(fd) \in Entry /\ With(fd).used /\ With(fd).fd = fd
             /\ With(fd).suffix = out_info[i].suffix /\ NoFileOfEntry(With(fd))
             /\ [out_info EXCEPT ![i].fd = fd] = [out_info EXCEPT ![i] = With(fd)]
  BY <1>0 DEF Entry, NoFileOfEntry
<1>3. CASE SharedFd(i) # NoFd
  <2> DEFINE n == Min(Mutual(i))
  <2>1. n \in Mutual(i) /\ out_info[n].suffix = out_info[i].suffix /\ SharedFd(i) = out_info[n].fd
    <3>1. Mutual(i) # {} /\ out_info[n].suffix = out_info[i].suffix /\ SharedFd(i) = out_info[n].fd
      BY <1>3 DEF SharedFd
    <3>2. Mutual(i) \in SUBSET Nat
      BY OutputAssumption DEF Mutual, Handle
    <3> QED
      BY <3>1, <3>2, MinIsLeast
  <2> HIDE DEF n
  <2> DEFINE fd == SharedFd(i)
  <2>2. n \in Handle /\ out_info[n].used /\ fd = out_info[n].fd /\ fd \in FileDesc
    BY <1>0, <1>3, <2>1 DEF Mutual, Entry
  <2>3. n \notin out_stranded => out_files[fd] = out_info[i].suffix
    BY <1>0, <1>3, <2>1, <2>2 DEF TableOK, FileOfEntry
  <2> HIDE DEF fd
  <2>6. /\ out_info' = [out_info EXCEPT ![i].fd = fd] /\ UNCHANGED <<out_files, out_lost>>
        /\ out_stranded' = IF n \in out_stranded THEN out_stranded \cup {i} ELSE out_stranded
    BY <1>1, <1>3 DEF OpenFile, fd, n
  <2>4. FileOfEntry(With(fd), out_files, i \in out_stranded')
    BY <1>2, <2>2, <2>3, <2>6 DEF FileOfEntry
  <2>5. TableOK([out_info EXCEPT ![i] = With(fd)], out_held, out_files, out_lost, out_stranded')
    BY <1>0, <1>2, <2>2, <2>4, <2>6 DEF TableOK, FileOfEntry
  <2>7. OutTypes'
    BY <1>1, <2>6 DEF OutInv, OutTypes, EnvironOK
  <2> QED
    BY <1>1, <1>2, <2>2, <2>5, <2>6, <2>7, Concludes
<1>4. CASE SharedFd(i) = NoFd /\ FileFails(i)
  <2>1. /\ out_info' = [out_info EXCEPT ![i] = Unused] /\ out_lost' = out_lost \cup {i}
        /\ UNCHANGED <<out_files, out_stranded>>
    BY <1>4 DEF FileFails
  <2>2. TableOK(out_info', out_held', out_files', out_lost', out_stranded')
    BY <1>0, <1>1, <2>1, UnusedEntry DEF TableOK
  <2>3. OutTypes'
    BY <1>1, <2>1 DEF OutInv, OutTypes, EnvironOK
  <2> QED
    BY <1>1, <2>2, <2>3, Concludes
<1>5. CASE SharedFd(i) = NoFd /\ ~FileFails(i)
  <2> DEFINE fd == LowestFd
  <2>1. /\ FreeFds # {} /\ out_info' = [out_info EXCEPT ![i].fd = fd]
        /\ out_files' = [out_files EXCEPT ![fd] = out_info[i].suffix]
        /\ UNCHANGED <<out_lost, out_stranded>>
    BY <1>1, <1>5 DEF OpenFile
  <2>2. fd \in FileDesc /\ out_files[fd] = "closed"
    <3>1. FreeFds \in SUBSET Nat
      BY OutputAssumption DEF FreeFds
    <3>2. fd \in FreeFds
      BY <2>1, <3>1, MinIsLeast DEF LowestFd
    <3> QED
      BY <3>2 DEF FreeFds
  <2> HIDE DEF fd
  <2> DEFINE files == [out_files EXCEPT ![fd] = out_info[i].suffix]
  <2>3. ASSUME NEW j \in Handle, out_info[j].used
        PROVE  FileOfEntry(out_info[j], files, j \in out_stranded)
    <3>1. FileOfEntry(out_info[j], out_files, j \in out_stranded) /\ out_info[j].suffix # "closed"
      BY <1>0, <2>3, SuffixesAreOpen DEF TableOK, Entry
    <3>2. out_info[j].fd # NoFd /\ j \notin out_stranded => out_info[j].fd # fd /\ out_info[j].fd \in FileDesc
      BY <1>0, <2>2, <3>1 DEF FileOfEntry, Entry
    <3> QED
      BY <1>0, <3>1, <3>2 DEF FileOfEntry
  <2>4. TableOK(out_info, out_held, files, out_lost, out_stranded)
    BY <1>0, <2>3 DEF TableOK
  <2>5. FileOfEntry(With(fd), files, i \in out_stranded)
    BY <1>0, <1>2, <2>2 DEF FileOfEntry
  <2> HIDE DEF files
  <2>6. TableOK([out_info EXCEPT ![i] = With(fd)], out_held, files, out_lost, out_stranded)
    BY <1>0, <1>2, <2>2, <2>4, <2>5 DEF TableOK
  <2>7. OutTypes'
    BY <1>0, <1>1, <2>1, <2>2 DEF OutInv, OutTypes, EnvironOK, Entry
  <2>8. TableOK(out_info', out_held', out_files', out_lost', out_stranded')
    BY <1>1, <1>2, <2>1, <2>2, <2>6 DEF files
  <2> QED
    BY <1>1, <2>7, <2>8, Concludes
<1> QED
  BY <1>3, <1>4, <1>5

LEMMA OutStep == OutInv /\ [OutNext]_out_vars => OutInv'
<1> SUFFICES ASSUME OutInv, [OutNext]_out_vars PROVE OutInv'
  OBVIOUS
<1>1. CASE UNCHANGED out_vars
  BY <1>1 DEF out_vars, OutInv, OutTypes, EnvironOK, TableOK, FileOfEntry, NoFileOfEntry
<1>2. CASE OutputInit
  <2>1. TableOK(out_info', out_held', out_files', out_lost', out_stranded')
    BY <1>2, InitialisedIsOK DEF OutputInit
  <2>2. OutTypes'
    BY <1>2, SuffixesAreOpen DEF OutputInit, InitOnce, OutInv, OutTypes, EnvironOK
  <2> QED
    BY <1>2, <2>1, <2>2, Concludes DEF OutputInit, InitOnce
<1>3. CASE OutputFinalize
  <2>1. verbose_stream \in Handle
    BY <1>3 DEF OutputFinalize, OutInv, OutTypes
  <2> QED
    BY <1>3, <2>1, FreeKeeps DEF OutputFinalize
<1>4. CASE MakeDirectory
  BY <1>4 DEF MakeDirectory, OutInv, OutTypes, EnvironOK, TableOK, FileOfEntry, NoFileOfEntry
<1>5. ASSUME NEW i \in Handle, Close(i) PROVE OutInv'
  BY <1>5, FreeKeeps DEF Close
<1> QED
  BY <1>1, <1>2, <1>3, <1>4, <1>5, OpenKeeps, ReopenKeeps, SwitchKeeps, WriteKeeps DEF OutNext

(* For every table of streams and every set of descriptors: a handle that is *)
(* not closed keeps its stream but where its own file failed to open, each   *)
(* stream writes to a file of its own suffix but where its own descriptor    *)
(* was closed with another or kept, and with everything sent to syslog no    *)
(* stream has a file (output.c:588-860).                                     *)
THEOREM HandlesKeepStreams == OutSpec => []StreamsKept
<1>1. OutInv => StreamsKept
  BY DEF OutInv, TableOK, FileOfEntry, NoFileOfEntry, StreamsKept
<1> QED
  BY <1>1, Initially, OutStep, PTL DEF OutSpec
-----------------------------------------------------------------------------
(* The runtime.  A framework that was opened once more; the modules' lists,  *)
(* best first.                                                               *)
HeldFramework(w) == [refcnt |-> w.refcnt + 1, registered |-> TRUE, open |-> TRUE]
OnceHeld == [refcnt |-> 1, registered |-> TRUE, open |-> TRUE]
Counts == [refcnt : Int, registered : BOOLEAN, open : BOOLEAN]
Ranked(list) ==
  /\ list \in Seq(RtComponents)
  /\ \A i, j \in 1 .. Len(list) : i <= j => Priority[list[i]] >= Priority[list[j]]
Parts == {"output", "verbose stream", "help", "keyval", "vars", "files", "params",
          "base vars", "repository"}
LibraryTypes ==
  /\ fw \in [Frameworks -> Counts] /\ up \subseteq Parts
  /\ selected \in [Selecting -> BOOLEAN] /\ actives \in [Selecting -> Seq(RtComponents)]
  /\ \A f \in Selecting : Ranked(actives[f])
  /\ mca_base_opened \in Nat
(* While no framework failed to open: all are closed, or held once, and one  *)
(* that is closed has no modules.                                            *)
Balanced ==
  /\ \A f \in Frameworks \ {"dl"} :
       fw[f] = ClosedFramework \/ (ww_initialized > 0 /\ fw[f] = OnceHeld)
  /\ \A f \in Selecting : fw[f].open \/ actives[f] = <<>>
  /\ ww_initialized > 0 \/ up \subseteq {"output", "repository"}
(* While no step failed: what the first life of the library brings up for    *)
(* good, and what each life brings up.                                       *)
NeverUp ==
  /\ ww_initialized <= 0 /\ up = {} /\ mca_base_opened = 0 /\ fw["dl"] = ClosedFramework
  /\ \A f \in Selecting : ~selected[f] /\ actives[f] = <<>>
UpForGood ==
  /\ {"output", "repository"} \subseteq up /\ mca_base_opened > 0 /\ fw["dl"] = OnceHeld
  /\ \A f \in Selecting : selected[f]
  /\ rt_generation > 1 \/ ww_initialized <= 0 \/ {"base vars", "verbose stream"} \subseteq up
  /\ rt_generation > 1 => \A f \in Selecting : actives[f] = <<>>
UpNow ==
  /\ \A f \in Frameworks \ {"dl"} : fw[f] = OnceHeld
  /\ {"help", "keyval", "vars", "files", "params"} \subseteq up
RtInv ==
  /\ LibraryTypes
  /\ ww_initialized \in Int /\ rt_generation \in Nat
  /\ rt_failed \in BOOLEAN /\ rt_refs_off \in BOOLEAN
  /\ fw["dl"].open => "repository" \in up
  /\ ~rt_refs_off => Balanced
  /\ ~rt_failed => /\ ~rt_refs_off
                   /\ IF rt_generation = 0 THEN NeverUp ELSE UpForGood
                   /\ ww_initialized > 0 => UpNow

LEMMA InsertKeepsRanked ==
  ASSUME NEW list, Ranked(list), NEW c \in RtComponents
  PROVE  Ranked(InsertByPriority(list, c))
<1> DEFINE n == Len(list)
           worse == {i \in DOMAIN list : Priority[c] > Priority[list[i]]}
           p == Min(worse \cup {n + 1})
           left == SubSeq(list, 1, p - 1)
           right == SubSeq(list, p, n)
           r == left \o <<c>> \o right
<1>1. /\ list \in Seq(RtComponents) /\ n \in Nat /\ DOMAIN list = 1 .. n
      /\ \A i \in 1 .. n : list[i] \in RtComponents
      /\ \A i, j \in 1 .. n : i <= j => Priority[list[i]] >= Priority[list[j]]
  BY DEF Ranked
<1>2. Priority[c] \in Int /\ \A i \in 1 .. n : Priority[list[i]] \in Int
  BY <1>1, RuntimeAssumption
<1>3. p \in worse \cup {n + 1} /\ \A j \in worse \cup {n + 1} : p <= j
  <2>1. worse \cup {n + 1} \in SUBSET Nat /\ worse \cup {n + 1} # {}
    BY <1>1
  <2> HIDE DEF worse, n
  <2> QED
    BY <2>1, MinIsLeast
<1>4. p \in 1 .. n + 1
  <2>1. worse \subseteq 1 .. n
    BY <1>1
  <2>2. n \in Nat
    BY <1>1
  <2> HIDE DEF p, worse, n
  <2> QED
    BY <1>3, <2>1, <2>2
<1>5. \A i \in 1 .. n : i < p => Priority[list[i]] >= Priority[c]
  <2> SUFFICES ASSUME NEW i \in 1 .. n, i < p PROVE ~(Priority[c] > Priority[list[i]])
    BY <1>2
  <2>1. i \notin worse
    <3> HIDE DEF p, worse, n
    <3> QED
      BY <1>3, <1>4
  <2> QED
    BY <1>1, <2>1
<1>6. \A i \in 1 .. n : i >= p => Priority[c] > Priority[list[i]]
  <2>1. p <= n => Priority[c] > Priority[list[p]]
    BY <1>1, <1>3, <1>4
  <2> HIDE DEF p
  <2> QED
    BY <1>1, <1>2, <1>4, <2>1
<1> HIDE DEF p
<1>7. /\ left \in Seq(RtComponents) /\ Len(left) = p - 1 /\ \A i \in 1 .. p - 1 : left[i] = list[i]
      /\ right \in Seq(RtComponents) /\ Len(right) = n + 1 - p
      /\ \A i \in 1 .. n + 1 - p : right[i] = list[p + i - 1]
  BY <1>1, <1>4
<1> HIDE DEF left, right
<1>8. /\ r \in Seq(RtComponents) /\ Len(r) = n + 1
      /\ \A i \in 1 .. n + 1 : r[i] = IF i < p THEN list[i] ELSE IF i = p THEN c ELSE list[i - 1]
  <2> HIDE DEF n
  <2> DEFINE a == left \o <<c>>
  <2>1. /\ a \in Seq(RtComponents) /\ Len(a) = p
        /\ \A i \in 1 .. p - 1 : a[i] = list[i]
        /\ a[p] = c
    BY <1>1, <1>4, <1>7
  <2> HIDE DEF a
  <2>2. a \o right \in Seq(RtComponents) /\ Len(a \o right) = n + 1
    BY <1>1, <1>4, <1>7, <2>1
  <2>3. ASSUME NEW i \in 1 .. n + 1, i <= p PROVE (a \o right)[i] = a[i]
    BY <1>1, <1>4, <1>7, <2>1, <2>3
  <2>4. ASSUME NEW i \in 1 .. n + 1, i > p PROVE (a \o right)[i] = list[i - 1]
    <3>1. (a \o right)[i] = right[i - p] /\ i - p \in 1 .. n + 1 - p
      BY <1>1, <1>4, <1>7, <2>1, <2>4
    <3> QED
      BY <1>1, <1>4, <1>7, <2>4, <3>1
  <2>5. r = a \o right
    BY DEF a
  <2> HIDE DEF r
  <2>6. n \in Nat
    BY <1>1 DEF n
  <2> QED
    BY <1>4, <2>1, <2>2, <2>3, <2>4, <2>5, <2>6
<1> HIDE DEF r, n
<1>9. \A i, j \in 1 .. n + 1 : i <= j => Priority[r[i]] >= Priority[r[j]]
  <2> SUFFICES ASSUME NEW i \in 1 .. n + 1, NEW j \in 1 .. n + 1, i < j
               PROVE  Priority[r[i]] >= Priority[r[j]]
    <3>1. \A i \in 1 .. n + 1 : Priority[r[i]] >= Priority[r[i]]
      BY <1>8, RuntimeAssumption
    <3> QED
      BY <1>1, <3>1
  <2>1. CASE j < p
    BY <1>1, <1>4, <1>8, <2>1
  <2>2. CASE j = p
    <3>1. r[j] = c /\ r[i] = list[i] /\ i \in 1 .. n /\ i < p
      BY <1>1, <1>4, <1>8, <2>2
    <3> QED
      BY <1>5, <3>1
  <2>3. CASE j > p /\ i < p
    <3>1. r[j] = list[j - 1] /\ r[i] = list[i] /\ i \in 1 .. n /\ j - 1 \in 1 .. n /\ i <= j - 1
      BY <1>1, <1>4, <1>8, <2>3
    <3> QED
      BY <1>1, <3>1
  <2>4. CASE j > p /\ i = p
    <3>1. r[j] = list[j - 1] /\ r[i] = c /\ j - 1 \in 1 .. n /\ j - 1 >= p
      BY <1>1, <1>4, <1>8, <2>4
    <3> QED
      BY <1>2, <1>6, <3>1
  <2>5. CASE i > p
    <3>1. r[j] = list[j - 1] /\ r[i] = list[i - 1] /\ j - 1 \in 1 .. n /\ i - 1 \in 1 .. n /\ i - 1 <= j - 1
      BY <1>1, <1>4, <1>8, <2>5
    <3> QED
      BY <1>1, <3>1
  <2> QED
    BY <1>1, <1>4, <2>1, <2>2, <2>3, <2>4, <2>5
<1>10. Ranked(r)
  BY <1>8, <1>9 DEF Ranked
<1>11. InsertByPriority(list, c) = r
  BY DEF InsertByPriority, InsertAt, r, left, right, p, n
<1> QED
  BY <1>10, <1>11

(* Each component that is asked is inserted into a list that is in order.    *)
LEMMA QueriedIsRanked ==
  ASSUME NEW list, Ranked(list), NEW f \in Selecting, NEW answers
  PROVE  Ranked(Queried(list, f, answers))
<1> DEFINE N == Len(Offered[f])
           Asked(a, n) == IF Offered[f][n] \in answers THEN InsertByPriority(a, Offered[f][n]) ELSE a
           Fills(h, n) == h = [k \in 0 .. n |-> IF k = 0 THEN list ELSE Asked(h[k - 1], k)]
<1>1. N \in Nat /\ \A n \in 1 .. N : Offered[f][n] \in RtComponents
  BY RuntimeAssumption
<1>2. \A n \in 0 .. N : \E h : Fills(h, n)
  <2> DEFINE unfilled == {n \in 0 .. N : ~\E h : Fills(h, n)}
  <2> SUFFICES ASSUME unfilled # {} PROVE FALSE
    OBVIOUS
  <2>1. PICK n \in unfilled : \A j \in unfilled : n <= j
    <3>1. unfilled \in SUBSET Nat
      BY <1>1
    <3> HIDE DEF unfilled
    <3> QED
      BY <3>1, MinIsLeast
  <2>2. CASE n = 0
    <3> HIDE DEF Asked
    <3> DEFINE g == [k \in 0 .. 0 |-> list]
    <3>1. \A k \in 0 .. 0 : g[k] = IF k = 0 THEN list ELSE Asked(g[k - 1], k)
      OBVIOUS
    <3>2. g = [k \in 0 .. 0 |-> g[k]]
      OBVIOUS
    <3> HIDE DEF g
    <3>3. Fills(g, 0)
      BY <3>1, <3>2
    <3> QED
      BY <2>1, <2>2, <3>3
  <2>3. CASE n # 0
    <3>0. n \in 1 .. N /\ n - 1 \in 0 .. N
      BY <1>1, <2>3
    <3>1. n - 1 \notin unfilled
      <4> HIDE DEF unfilled, N
      <4> QED
        BY <1>1, <2>1, <3>0
    <3>2. PICK h : Fills(h, n - 1)
      BY <3>0, <3>1
    <3> HIDE DEF Asked
    <3> DEFINE g == [k \in 0 .. n |-> IF k = n THEN Asked(h[n - 1], n) ELSE h[k]]
    <3>3. \A k \in 0 .. n : g[k] = IF k = 0 THEN list ELSE Asked(g[k - 1], k)
      <4> TAKE k \in 0 .. n
      <4>1. CASE k = n
        BY <3>0, <4>1
      <4>2. CASE k # n
        <5>1. k \in 0 .. n - 1 /\ g[k] = h[k] /\ (k # 0 => g[k - 1] = h[k - 1])
          BY <3>0, <4>2
        <5>2. h[k] = IF k = 0 THEN list ELSE Asked(h[k - 1], k)
          BY <3>2, <5>1
        <5> QED
          BY <5>1, <5>2
      <4> QED
        BY <4>1, <4>2
    <3>4. g = [k \in 0 .. n |-> g[k]]
      OBVIOUS
    <3> HIDE DEF g
    <3>5. Fills(g, n)
      BY <3>3, <3>4
    <3> QED
      BY <2>1, <3>5
  <2> QED
    BY <2>2, <2>3
<1> DEFINE after == CHOOSE h : Fills(h, N)
<1>3. Fills(after, N)
  <2>1. \E h : Fills(h, N)
    <3>1. N \in 0 .. N
      BY <1>1
    <3> HIDE DEF Fills, N
    <3> QED
      BY <1>2, <3>1
  <2> HIDE DEF Fills
  <2> QED
    BY <2>1
<1>4. Queried(list, f, answers) = after[N]
  BY DEF Queried
<1> HIDE DEF after, N
<1>5. \A n \in 0 .. N : Ranked(after[n])
  <2> DEFINE bad == {n \in 0 .. N : ~Ranked(after[n])}
  <2> SUFFICES ASSUME bad # {} PROVE FALSE
    OBVIOUS
  <2>1. PICK n \in bad : \A j \in bad : n <= j
    <3>1. bad \in SUBSET Nat
      BY <1>1
    <3> HIDE DEF bad
    <3> QED
      BY <3>1, MinIsLeast
  <2>2. after[n] = IF n = 0 THEN list ELSE Asked(after[n - 1], n)
    BY <1>1, <1>3
  <2>3. n # 0
    BY <2>2
  <2>4. Ranked(after[n - 1]) /\ n \in 1 .. N
    BY <1>1, <2>1, <2>3
  <2>5. Ranked(Asked(after[n - 1], n))
    BY <1>1, <2>4, InsertKeepsRanked
  <2> QED
    BY <2>1, <2>2, <2>3, <2>5
<1> QED
  BY <1>1, <1>4, <1>5

(* The library as it is part way through ww_init: the frameworks in O have   *)
(* been opened, the parts in U brought up, those in S have their modules.    *)
States == [fw : [Frameworks -> Counts], up : SUBSET Parts, selected : [Selecting -> BOOLEAN],
           actives : [Selecting -> Seq(RtComponents)], opened : Nat]
Typed(s) ==
  /\ s \in States /\ (s.fw["dl"].open => "repository" \in s.up)
  /\ \A f \in Selecting : Ranked(s.actives[f])
At(s, O, U, S, k) ==
  /\ Typed(s)
  /\ \A f \in Frameworks : s.fw[f] = IF f \in O THEN HeldFramework(fw[f]) ELSE fw[f]
  /\ s.up = up \cup U
  /\ \A f \in Selecting : s.selected[f] <=> selected[f] \/ f \in S
  /\ \A f \in Selecting : f \notin S \/ selected[f] => s.actives[f] = actives[f]
  /\ s.opened = mca_base_opened + k

LEMMA LibraryAt ==
  ASSUME RtInv
  PROVE  At(Library, {}, {}, {}, 0)
<1>1. Library \in States /\ Typed(Library)
  BY DEF RtInv, LibraryTypes, Library, States, Typed
<1> QED
  BY <1>1 DEF RtInv, LibraryTypes, Library, At

(* What one more open changes of the library. *)
LEMMA OpenedOnce ==
  ASSUME NEW s \in States, NEW f \in Frameworks
  PROVE  LET t == FrameworkOpen(s, f)
         IN  /\ t.up = s.up /\ t.selected = s.selected /\ t.actives = s.actives /\ t.opened = s.opened
             /\ \A g \in Frameworks : t.fw[g] = IF g = f THEN HeldFramework(s.fw[f]) ELSE s.fw[g]
             /\ t \in States
<1> DEFINE w == [refcnt |-> s.fw[f].refcnt + 1, registered |-> TRUE, open |-> TRUE]
           u == [s.fw EXCEPT ![f] = w]
           t == [s EXCEPT !.fw = u]
<1>1. s.fw \in [Frameworks -> Counts] /\ s.fw[f].refcnt \in Int
  BY DEF States, Counts
<1>2. w = HeldFramework(s.fw[f]) /\ w \in Counts
  BY <1>1 DEF HeldFramework, Counts
<1>3. t = FrameworkOpen(s, f)
  BY DEF FrameworkOpen
<1> HIDE DEF w
<1>4. u \in [Frameworks -> Counts] /\ \A g \in Frameworks : u[g] = IF g = f THEN w ELSE s.fw[g]
  BY <1>1, <1>2
<1> HIDE DEF u
<1>5. /\ t.up = s.up /\ t.selected = s.selected /\ t.actives = s.actives /\ t.opened = s.opened
      /\ t.fw = u /\ t \in States
  BY <1>4 DEF States
<1> QED
  BY <1>2, <1>3, <1>4, <1>5

LEMMA OpensAt ==
  ASSUME NEW s, NEW O, NEW U, NEW S, NEW k, At(s, O, U, S, k), NEW f \in Frameworks \ O, f # "dl"
  PROVE  At(FrameworkOpen(s, f), O \cup {f}, U, S, k)
<1> DEFINE t == FrameworkOpen(s, f)
<1>1. s \in States /\ s.fw[f] = fw[f]
  BY DEF At, Typed
<1>2. /\ t.up = s.up /\ t.selected = s.selected /\ t.actives = s.actives /\ t.opened = s.opened
      /\ \A g \in Frameworks : t.fw[g] = IF g = f THEN HeldFramework(fw[f]) ELSE s.fw[g]
      /\ t \in States
  BY <1>1, OpenedOnce
<1> HIDE DEF t
<1>3. t.fw["dl"] = s.fw["dl"]
  BY <1>2 DEF Frameworks
<1> QED
  BY <1>2, <1>3 DEF At, Typed, t

LEMMA BringsAt ==
  ASSUME NEW s, NEW O, NEW U, NEW S, NEW k, At(s, O, U, S, k), NEW part \in Parts
  PROVE  At(Brings(s, part), O, U \cup {part}, S, k)
<1> DEFINE t == Brings(s, part)
<1>1. s \in States
  BY DEF At, Typed
<1>2. /\ t.up = s.up \cup {part} /\ t.selected = s.selected /\ t.actives = s.actives /\ t.opened = s.opened
      /\ t.fw = s.fw /\ t \in States
  BY <1>1 DEF Brings, States
<1> HIDE DEF t
<1>3. t.up = up \cup (U \cup {part})
  BY <1>2 DEF At
<1> QED
  BY <1>2, <1>3 DEF At, Typed, t

OutputParts == IF "output" \in up THEN {} ELSE {"output", "verbose stream"}
LEMMA OutputAt ==
  ASSUME NEW s, NEW O, NEW S, NEW k, At(s, O, {}, S, k)
  PROVE  At(OutputStarted(s), O, OutputParts, S, k)
<1> DEFINE t == OutputStarted(s)
<1>1. s \in States /\ s.up = up
  BY DEF At, Typed
<1>2. /\ t.up = s.up \cup OutputParts /\ t.selected = s.selected /\ t.actives = s.actives /\ t.opened = s.opened
      /\ t.fw = s.fw /\ t \in States
  BY <1>1 DEF OutputStarted, States, OutputParts, Parts
<1> HIDE DEF t
<1> QED
  BY <1>1, <1>2 DEF At, Typed, t

BaseParts == IF mca_base_opened > 0 THEN {} ELSE {"base vars", "repository"}
Loader == IF mca_base_opened > 0 THEN {} ELSE {"dl"}
LEMMA CountedOnce ==
  ASSUME NEW s \in States
  PROVE  LET u == [s EXCEPT !.opened = s.opened + 1]
         IN  /\ u.up = s.up /\ u.selected = s.selected /\ u.actives = s.actives /\ u.fw = s.fw
             /\ u.opened = s.opened + 1 /\ u \in States
<1> DEFINE n == s.opened + 1
<1>1. n \in Nat
  BY DEF States
<1> HIDE DEF n
<1>2. LET u == [s EXCEPT !.opened = n]
      IN  /\ u.up = s.up /\ u.selected = s.selected /\ u.actives = s.actives /\ u.fw = s.fw
          /\ u.opened = n /\ u \in States
  BY <1>1 DEF States
<1> QED
  BY <1>2 DEF n

LEMMA BaseAt ==
  ASSUME NEW s, NEW O, NEW U, NEW S, At(s, O, U, S, 0), "dl" \notin O, mca_base_opened \in Nat
  PROVE  At(BaseOpen(s), O \cup Loader, U \cup BaseParts, S, 1)
<1> DEFINE t == BaseOpen(s)
<1>1. s \in States /\ s.fw["dl"] = fw["dl"] /\ s.fw["dl"] \in Counts /\ s.opened = mca_base_opened
  BY DEF At, Typed, States, Frameworks
<1>2. CASE mca_base_opened > 0
  <2> DEFINE u == [s EXCEPT !.opened = s.opened + 1]
  <2>1. t = u
    BY <1>1, <1>2 DEF BaseOpen
  <2>2. /\ u.up = s.up /\ u.selected = s.selected /\ u.actives = s.actives /\ u.opened = s.opened + 1
        /\ u.fw = s.fw /\ u \in States
    BY <1>1, CountedOnce
  <2> HIDE DEF t, u
  <2> QED
    BY <1>1, <1>2, <2>1, <2>2 DEF At, Typed, t, Loader, BaseParts
<1>3. CASE ~(mca_base_opened > 0)
  <2> DEFINE u == [s EXCEPT !.opened = s.opened + 1]
             v == [u EXCEPT !.up = u.up \cup {"base vars", "repository"}]
  <2>1. /\ u.up = s.up /\ u.selected = s.selected /\ u.actives = s.actives
        /\ u.opened = s.opened + 1 /\ u.fw = s.fw /\ u \in States
    BY <1>1, CountedOnce
  <2>2. t = FrameworkOpen(v, "dl")
    BY <1>1, <1>3 DEF BaseOpen
  <2> HIDE DEF u
  <2>3. /\ v.up = s.up \cup {"base vars", "repository"} /\ v.selected = s.selected /\ v.actives = s.actives
        /\ v.opened = s.opened + 1 /\ v.fw = s.fw /\ v \in States
    BY <2>1 DEF States, Parts
  <2> HIDE DEF v, t
  <2>4. "dl" \in Frameworks
    BY DEF Frameworks
  <2>5. /\ t.up = v.up /\ t.selected = v.selected /\ t.actives = v.actives /\ t.opened = v.opened
        /\ \A g \in Frameworks : t.fw[g] = IF g = "dl" THEN HeldFramework(fw["dl"]) ELSE s.fw[g]
        /\ t \in States
    <3>1. \A g \in Frameworks : t.fw[g] = IF g = "dl" THEN HeldFramework(v.fw["dl"]) ELSE v.fw[g]
      BY <2>2, <2>3, <2>4, OpenedOnce
    <3>2. t.up = v.up /\ t.selected = v.selected /\ t.actives = v.actives /\ t.opened = v.opened /\ t \in States
      BY <2>2, <2>3, <2>4, OpenedOnce
    <3> QED
      BY <1>1, <2>3, <3>1, <3>2
  <2>6. \A g \in Frameworks : t.fw[g] = IF g \in O \cup Loader THEN HeldFramework(fw[g]) ELSE fw[g]
    BY <1>3, <2>5 DEF At, Loader
  <2>7. t.up = up \cup (U \cup BaseParts) /\ "repository" \in t.up
    BY <1>3, <2>3, <2>5 DEF At, BaseParts
  <2>8. Typed(t)
    BY <2>3, <2>5, <2>7 DEF At, Typed
  <2>9. t.opened = mca_base_opened + 1
    BY <1>1, <2>3, <2>5
  <2>10. /\ \A f \in Selecting : t.selected[f] <=> selected[f] \/ f \in S
         /\ \A f \in Selecting : f \notin S \/ selected[f] => t.actives[f] = actives[f]
    BY <2>3, <2>5 DEF At
  <2>11. At(t, O \cup Loader, U \cup BaseParts, S, 1)
    BY <2>6, <2>7, <2>8, <2>9, <2>10 DEF At
  <2> QED
    BY <2>11 DEF t
<1> QED
  BY <1>2, <1>3

LEMMA SelectsAt ==
  ASSUME NEW s, NEW O, NEW U, NEW S, NEW k, At(s, O, U, S, k), NEW f \in Selecting \ S, NEW answers
  PROVE  At(SelectModules(s, f, answers), O, U, S \cup {f}, k)
<1> DEFINE t == SelectModules(s, f, answers)
<1>1. s \in States /\ Ranked(s.actives[f]) /\ s.selected[f] \in BOOLEAN
  BY DEF At, Typed, States
<1>2. CASE s.selected[f]
  BY <1>1, <1>2 DEF SelectModules, At
<1>3. CASE ~s.selected[f]
  <2> DEFINE list == Queried(s.actives[f], f, answers)
  <2>1. /\ t.up = s.up /\ t.fw = s.fw /\ t.opened = s.opened
        /\ t.selected = [s.selected EXCEPT ![f] = TRUE] /\ t.actives = [s.actives EXCEPT ![f] = list]
        /\ t = [fw |-> t.fw, up |-> t.up, selected |-> t.selected, actives |-> t.actives, opened |-> t.opened]
    BY <1>1, <1>3 DEF SelectModules, States
  <2>2. Ranked(list) /\ list \in Seq(RtComponents)
    <3>1. Ranked(list)
      BY <1>1, QueriedIsRanked
    <3> QED
      BY <3>1 DEF Ranked
  <2> HIDE DEF list, t
  <2>3. /\ t.selected \in [Selecting -> BOOLEAN] /\ t.actives \in [Selecting -> Seq(RtComponents)]
        /\ \A g \in Selecting : t.selected[g] <=> s.selected[g] \/ g = f
        /\ \A g \in Selecting : g # f => t.actives[g] = s.actives[g]
        /\ t.actives[f] = list
    BY <1>1, <2>1, <2>2 DEF States
  <2>4. t \in States
    BY <1>1, <2>1, <2>3 DEF States
  <2>5. Typed(t)
    BY <2>1, <2>2, <2>3, <2>4 DEF At, Typed
  <2>6. ~selected[f]
    BY <1>3 DEF At
  <2> QED
    BY <2>1, <2>3, <2>5, <2>6 DEF At, t
<1> QED
  BY <1>2, <1>3
(* What each step of ww_init finds.                                          *)
Dirs == {} \cup {"installdirs"}
Helped == OutputParts \cup {"help"}
Parsed == Helped \cup {"keyval"}
Known == Parsed \cup {"vars"}
Filed == Known \cup {"files"}
Ready == Filed \cup {"params"}
AllParts == Ready \cup BaseParts
Based == Dirs \cup Loader
AllOpen == Based \cup {"sec"} \cup {"dstore"}
AllSelected == {} \cup {"sec"} \cup {"dstore"}
LEMMA StageFacts ==
  ASSUME RtInv, NEW answers
  PROVE  /\ At(StepStates(answers)[2], {}, OutputParts, {}, 0)
         /\ At(StepStates(answers)[4], Dirs, Helped, {}, 0)
         /\ At(StepStates(answers)[5], Dirs, Parsed, {}, 0)
         /\ At(StepStates(answers)[6], Dirs, Known, {}, 0)
         /\ At(StepStates(answers)[8], Dirs, Ready, {}, 0)
         /\ At(StepStates(answers)[9], Based, AllParts, {}, 1)
         /\ At(StepStates(answers)[11], Based \cup {"sec"}, AllParts, {} \cup {"sec"}, 1)
         /\ At(StepStates(answers)[13], AllOpen, AllParts, AllSelected, 1)
<1> DEFINE s1  == Library
           s2  == OutputStarted(s1)
           s3  == FrameworkOpen(s2, "installdirs")
           s4  == Brings(s3, "help")
           s5  == Brings(s4, "keyval")
           s6  == Brings(s5, "vars")
           s7  == Brings(s6, "files")
           s8  == Brings(s7, "params")
           s9  == BaseOpen(s8)
           s10 == FrameworkOpen(s9, "sec")
           s11 == ww_sec_base_select(s10, answers)
           s12 == FrameworkOpen(s11, "dstore")
           s13 == ww_dstore_base_select(s12, answers)
<1>0. StepStates(answers) = <<s1, s2, s3, s4, s5, s6, s7, s8, s9, s10, s11, s12, s13>>
  BY DEF StepStates
<1>1. At(s1, {}, {}, {}, 0)
  BY LibraryAt
<1> HIDE DEF s1
<1>2. At(s2, {}, OutputParts, {}, 0)
  BY <1>1, OutputAt
<1> HIDE DEF s2
<1>3. At(s3, Dirs, OutputParts, {}, 0)
  <2>1. "installdirs" \in Frameworks \ {}
    BY DEF Frameworks
  <2> QED
    BY <1>2, <2>1, OpensAt DEF Dirs
<1> HIDE DEF s3
<1>4. At(s4, Dirs, Helped, {}, 0)
  <2>1. "help" \in Parts
    BY DEF Parts
  <2> QED
    BY <1>3, <2>1, BringsAt DEF Helped
<1> HIDE DEF s4
<1>5. At(s5, Dirs, Parsed, {}, 0)
  <2>1. "keyval" \in Parts
    BY DEF Parts
  <2> QED
    BY <1>4, <2>1, BringsAt DEF Parsed
<1> HIDE DEF s5
<1>6. At(s6, Dirs, Known, {}, 0)
  <2>1. "vars" \in Parts
    BY DEF Parts
  <2> QED
    BY <1>5, <2>1, BringsAt DEF Known
<1> HIDE DEF s6
<1>7. At(s7, Dirs, Filed, {}, 0)
  <2>1. "files" \in Parts
    BY DEF Parts
  <2> QED
    BY <1>6, <2>1, BringsAt DEF Filed
<1> HIDE DEF s7
<1>8. At(s8, Dirs, Ready, {}, 0)
  <2>1. "params" \in Parts
    BY DEF Parts
  <2> QED
    BY <1>7, <2>1, BringsAt DEF Ready
<1> HIDE DEF s8
<1>9. At(s9, Based, AllParts, {}, 1)
  <2>1. "dl" \notin Dirs /\ mca_base_opened \in Nat
    BY DEF Dirs, RtInv, LibraryTypes
  <2> QED
    BY <1>8, <2>1, BaseAt DEF Based, AllParts
<1> HIDE DEF s9
<1>10. At(s10, Based \cup {"sec"}, AllParts, {}, 1)
  <2>1. "sec" \in Frameworks \ Based
    BY DEF Frameworks, Selecting, Based, Dirs, Loader
  <2> QED
    BY <1>9, <2>1, OpensAt
<1> HIDE DEF s10
<1>11. At(s11, Based \cup {"sec"}, AllParts, {} \cup {"sec"}, 1)
  <2>1. "sec" \in Selecting \ {}
    BY DEF Selecting
  <2> QED
    BY <1>10, <2>1, SelectsAt DEF ww_sec_base_select
<1> HIDE DEF s11
<1>12. At(s12, AllOpen, AllParts, {} \cup {"sec"}, 1)
  <2>1. "dstore" \in Frameworks \ (Based \cup {"sec"})
    BY DEF Frameworks, Selecting, Based, Dirs, Loader
  <2> QED
    BY <1>11, <2>1, OpensAt DEF AllOpen
<1> HIDE DEF s12
<1>13. At(s13, AllOpen, AllParts, AllSelected, 1)
  <2>1. "dstore" \in Selecting \ ({} \cup {"sec"})
    BY DEF Selecting
  <2> QED
    BY <1>12, <2>1, SelectsAt DEF ww_dstore_base_select, AllSelected
<1> HIDE DEF s13
<1> QED
  BY <1>0, <1>2, <1>4, <1>5, <1>6, <1>8, <1>9, <1>11, <1>13

LEMMA BecomesTyped ==
  ASSUME NEW s, Typed(s), Becomes(s)
  PROVE  LibraryTypes' /\ (fw'["dl"].open => "repository" \in up')
  BY DEF Typed, States, Becomes, LibraryTypes

LEMMA SucceedKeeps == ASSUME RtInv, NEW answers, InitSucceeds(answers) PROVE RtInv'
<1> DEFINE s == StepStates(answers)[13]
<1>1. At(s, AllOpen, AllParts, AllSelected, 1)
  BY StageFacts
<1>2. Becomes(s) /\ InitFirst /\ UNCHANGED <<rt_failed, rt_refs_off>>
  <2>1. Len(InitSteps) + 1 = 13
    BY DEF InitSteps
  <2> QED
    BY <2>1 DEF InitSucceeds
<1> HIDE DEF s
<1>3. LibraryTypes' /\ (fw'["dl"].open => "repository" \in up')
  BY <1>1, <1>2, BecomesTyped DEF At
<1>4. /\ ww_initialized = 0 /\ ww_initialized' = 1 /\ rt_generation' = rt_generation + 1 /\ rt_generation \in Nat
      /\ rt_failed' = rt_failed /\ rt_refs_off' = rt_refs_off
  BY <1>2 DEF InitFirst, Counted, RtInv
<1>5. /\ \A f \in Frameworks : fw'[f] = IF f \in AllOpen THEN HeldFramework(fw[f]) ELSE fw[f]
      /\ up' = up \cup AllParts
      /\ \A f \in Selecting : selected'[f] /\ (selected[f] => actives'[f] = actives[f])
      /\ mca_base_opened' = mca_base_opened + 1
  <2>1. \A f \in Selecting : f \in AllSelected
    BY DEF Selecting, AllSelected
  <2> QED
    BY <1>1, <1>2, <2>1 DEF At, Becomes
<1>6. HeldFramework(ClosedFramework) = OnceHeld /\ OnceHeld.open /\ ~ClosedFramework.open
  BY DEF HeldFramework, ClosedFramework, OnceHeld
<1>7. \A f \in Frameworks \ {"dl"} : f \in AllOpen
  BY DEF Frameworks, Selecting, AllOpen, Based, Dirs
<1>8. ASSUME ~rt_refs_off PROVE \A f \in Frameworks \ {"dl"} : fw[f] = ClosedFramework /\ fw'[f] = OnceHeld
  BY <1>4, <1>5, <1>6, <1>7, <1>8 DEF RtInv, Balanced
<1>9. ASSUME ~rt_refs_off PROVE Balanced'
  <2>1. \A f \in Selecting : fw'[f].open
    BY <1>6, <1>8, <1>9 DEF Selecting, Frameworks
  <2> QED
    BY <1>4, <1>8, <1>9, <2>1 DEF Balanced
<1>10. ASSUME ~rt_failed PROVE ~rt_refs_off /\ UpForGood' /\ UpNow'
  <2>1. ~rt_refs_off /\ IF rt_generation = 0 THEN NeverUp ELSE UpForGood
    BY <1>10 DEF RtInv
  <2>2. UpNow'
    <3>1. {"help", "keyval", "vars", "files", "params"} \subseteq up'
      BY <1>5 DEF AllParts, Ready, Filed, Known, Parsed, Helped
    <3> QED
      BY <1>8, <2>1, <3>1 DEF UpNow
  <2>3. "output" \in up' /\ "repository" \in up'
    <3>1. "output" \in up \cup AllParts
      BY DEF AllParts, Ready, Filed, Known, Parsed, Helped, OutputParts
    <3>2. "repository" \in up \cup AllParts
      <4>1. rt_generation = 0 => ~(mca_base_opened > 0)
        BY <2>1 DEF NeverUp
      <4>2. ~(mca_base_opened > 0) => "repository" \in AllParts
        BY DEF AllParts, BaseParts
      <4>3. rt_generation # 0 => "repository" \in up
        BY <2>1 DEF UpForGood
      <4> QED
        BY <4>1, <4>2, <4>3
    <3> QED
      BY <1>5, <3>1, <3>2
  <2>4. mca_base_opened \in Nat /\ mca_base_opened' > 0
    BY <1>5 DEF RtInv, LibraryTypes
  <2>5. fw'["dl"] = OnceHeld
    <3>1. "dl" \in Frameworks
      BY DEF Frameworks
    <3>2. CASE rt_generation = 0
      <4>1. mca_base_opened = 0 /\ fw["dl"] = ClosedFramework
        BY <2>1, <3>2 DEF NeverUp
      <4>2. "dl" \in AllOpen
        BY <4>1 DEF AllOpen, Based, Loader
      <4> QED
        BY <1>5, <1>6, <3>1, <4>1, <4>2
    <3>3. CASE rt_generation # 0
      <4>1. mca_base_opened > 0 /\ fw["dl"] = OnceHeld
        BY <2>1, <3>3 DEF UpForGood
      <4>2. "dl" \notin AllOpen
        BY <4>1 DEF AllOpen, Based, Loader, Dirs
      <4> QED
        BY <1>5, <3>1, <4>1, <4>2
    <3> QED
      BY <3>2, <3>3
  <2>6. rt_generation' > 1 \/ {"base vars", "verbose stream"} \subseteq up'
    <3>1. CASE rt_generation = 0
      <4>1. mca_base_opened = 0 /\ up = {}
        BY <2>1, <3>1 DEF NeverUp
      <4>2. {"base vars", "verbose stream"} \subseteq AllParts
        BY <4>1 DEF AllParts, BaseParts, Ready, Filed, Known, Parsed, Helped, OutputParts
      <4> QED
        BY <1>5, <4>2
    <3>2. CASE rt_generation # 0
      <4>1. rt_generation' > 1
        BY <1>4, <3>2
      <4> QED
        BY <4>1
    <3> QED
      BY <3>1, <3>2
  <2>7. rt_generation' > 1 => \A f \in Selecting : actives'[f] = <<>>
    <3>1. \A f \in Selecting : ~fw[f].open
      BY <1>6, <1>8, <2>1 DEF Selecting, Frameworks
    <3>2. \A f \in Selecting : actives[f] = <<>>
      BY <2>1, <3>1 DEF RtInv, Balanced
    <3>3. rt_generation' > 1 => UpForGood
      BY <1>4, <2>1
    <3> QED
      BY <1>5, <3>2, <3>3 DEF UpForGood
  <2> QED
    BY <1>5, <2>1, <2>2, <2>3, <2>4, <2>5, <2>6, <2>7 DEF UpForGood
<1> QED
  BY <1>3, <1>4, <1>9, <1>10 DEF RtInv

(* A failure: what it leaves is counted right unless a framework failed.     *)
LEMMA FailedTyped ==
  ASSUME NEW s, Typed(s), NEW f \in Frameworks \ {"dl"}, NEW registered \in BOOLEAN
  PROVE  Typed(FrameworkFails(s, f, registered))
<1> DEFINE w == s.fw[f]
           w1 == [w EXCEPT !.refcnt = IF registered THEN w.refcnt ELSE w.refcnt + 1]
           w2 == [w1 EXCEPT !.registered = registered \/ w.registered]
           u == [s.fw EXCEPT ![f] = w2]
           t == [s EXCEPT !.fw = u]
<1>1. s \in States /\ w \in Counts
  BY DEF Typed, States
<1>2. w2 \in Counts
  <2>1. (registered \/ w.registered) \in BOOLEAN /\ (IF registered THEN w.refcnt ELSE w.refcnt + 1) \in Int
    BY <1>1 DEF Counts
  <2>2. w1 \in Counts
    BY <1>1, <2>1 DEF Counts
  <2> HIDE DEF w1
  <2> QED
    BY <2>1, <2>2 DEF Counts
<1>3. t = FrameworkFails(s, f, registered)
  BY <1>1 DEF FrameworkFails, States, Counts
<1> HIDE DEF w2
<1>4. u \in [Frameworks -> Counts] /\ u["dl"] = s.fw["dl"]
  BY <1>1, <1>2 DEF States, Frameworks
<1> HIDE DEF u
<1>5. t \in States /\ t.fw = u /\ t.up = s.up /\ t.actives = s.actives
  BY <1>1, <1>4 DEF States
<1> QED
  BY <1>3, <1>4, <1>5 DEF Typed

LEMMA BalancedAt ==
  ASSUME RtInv, InitFirst, ~rt_refs_off, NEW s, NEW O, NEW U, NEW k, At(s, O, U, {}, k),
         fw' = s.fw, actives' = s.actives
  PROVE  Balanced'
<1>1. ww_initialized = 0 /\ ww_initialized' = 1
  BY DEF InitFirst, Counted
<1>2. \A f \in Frameworks \ {"dl"} : fw[f] = ClosedFramework
  BY <1>1 DEF RtInv, Balanced
<1>3. HeldFramework(ClosedFramework) = OnceHeld /\ ~ClosedFramework.open
  BY DEF HeldFramework, ClosedFramework, OnceHeld
<1>4. \A f \in Frameworks \ {"dl"} : fw'[f] = ClosedFramework \/ fw'[f] = OnceHeld
  BY <1>2, <1>3 DEF At
<1>5. \A f \in Selecting : actives[f] = <<>> /\ actives'[f] = actives[f]
  BY <1>2, <1>3 DEF RtInv, Balanced, At, Selecting, Frameworks
<1> QED
  BY <1>1, <1>4, <1>5 DEF Balanced

LEMMA StepsAre ==
  /\ Len(InitSteps) = 12
  /\ InitSteps[1] = "output" /\ InitSteps[2] = "installdirs" /\ InitSteps[3] = "help"
  /\ InitSteps[4] = "keyval" /\ InitSteps[5] = "vars" /\ InitSteps[6] = "files"
  /\ InitSteps[7] = "params" /\ InitSteps[8] = "base" /\ InitSteps[9] = "sec"
  /\ InitSteps[10] = "select sec" /\ InitSteps[11] = "dstore" /\ InitSteps[12] = "select dstore"
  BY DEF InitSteps

LEMMA FailKeeps == ASSUME RtInv, NEW n \in 1 .. Len(InitSteps), NEW answers, InitFails(n, answers) PROVE RtInv'
<1> DEFINE s == StepStates(answers)[n]
<1>1. /\ InitFirst /\ InitSteps[n] \in StepMayFail /\ Becomes(StepFailed(s, InitSteps[n]))
      /\ rt_failed' = TRUE /\ rt_refs_off' = (rt_refs_off \/ InitSteps[n] \in Frameworks)
  BY DEF InitFails
<1>2. n \in {2, 4, 5, 6, 8, 9, 11}
  <2>1. n \in 1 .. 12
    BY StepsAre
  <2>2. n \notin {1, 3, 7, 10, 12}
    BY <1>1, StepsAre DEF StepMayFail
  <2> QED
    BY <2>1, <2>2
<1>3. ww_initialized' = 1 /\ rt_generation' \in Nat
  BY <1>1 DEF InitFirst, RtInv
<1>4. rt_refs_off \in BOOLEAN /\ rt_refs_off' \in BOOLEAN
  BY <1>1 DEF RtInv
<1> SUFFICES LibraryTypes' /\ (fw'["dl"].open => "repository" \in up') /\ (~rt_refs_off' => Balanced')
  BY <1>1, <1>3, <1>4 DEF RtInv
<1>5. CASE n \in {2, 9, 11}
  <2>1. InitSteps[n] \in {"installdirs", "sec", "dstore"}
    BY <1>5, StepsAre
  <2>2. InitSteps[n] \in Frameworks \ {"dl"} /\ rt_refs_off'
    BY <1>1, <1>4, <2>1 DEF Frameworks, Selecting
  <2>3. Typed(s)
    BY <1>5, StageFacts DEF At
  <2>4. \E registered \in BOOLEAN : StepFailed(s, InitSteps[n]) = FrameworkFails(s, InitSteps[n], registered)
    BY <2>1 DEF StepFailed
  <2> HIDE DEF s
  <2>5. Typed(StepFailed(s, InitSteps[n]))
    BY <2>2, <2>3, <2>4, FailedTyped
  <2> QED
    <3>1. LibraryTypes' /\ (fw'["dl"].open => "repository" \in up')
      BY <1>1, <2>5, BecomesTyped
    <3> QED
      BY <2>2, <3>1
<1>6. CASE n \in {4, 5, 6}
  <2>1. InitSteps[n] \in {"keyval", "vars", "files"}
    BY <1>6, StepsAre
  <2>2. StepFailed(s, InitSteps[n]) = s
    BY <2>1 DEF StepFailed
  <2>3. \E U : At(s, Dirs, U, {}, 0)
    BY <1>6, StageFacts
  <2> HIDE DEF s
  <2>4. Typed(s) /\ Becomes(s)
    BY <1>1, <2>2, <2>3 DEF At
  <2>5. ~rt_refs_off' => Balanced'
    BY <1>1, <1>4, <2>3, <2>4, BalancedAt DEF Becomes
  <2> QED
    BY <2>4, <2>5, BecomesTyped
<1>7. CASE n = 8
  <2>1. InitSteps[n] = "base"
    BY <1>7, StepsAre
  <2>2. At(s, Dirs, Ready, {}, 0)
    BY <1>7, StageFacts
  <2> HIDE DEF s
  <2> DEFINE v == Brings(s, "base vars")
             t == [v EXCEPT !.opened = v.opened + 1]
  <2>3. "base vars" \in Parts
    BY DEF Parts
  <2>4. At(v, Dirs, Ready \cup {"base vars"}, {}, 0)
    BY <2>2, <2>3, BringsAt
  <2>5. StepFailed(s, InitSteps[n]) = t
    BY <2>1 DEF StepFailed
  <2> HIDE DEF v
  <2>6. v \in States
    BY <2>4 DEF At, Typed
  <2>7. t.up = v.up /\ t.actives = v.actives /\ t.fw = v.fw /\ t \in States
    BY <2>6, CountedOnce
  <2> HIDE DEF t
  <2>8. Typed(t) /\ Becomes(t)
    BY <1>1, <2>4, <2>5, <2>7 DEF At, Typed
  <2>9. ~rt_refs_off' => Balanced'
    BY <1>1, <1>4, <2>4, <2>7, <2>8, BalancedAt DEF Becomes
  <2> QED
    BY <2>8, <2>9, BecomesTyped
<1> QED
  BY <1>2, <1>5, <1>6, <1>7

(* ww_finalize: what one close changes of the library. *)
LEMMA ClosesFramework ==
  ASSUME NEW s \in States, NEW f \in Frameworks
  PROVE  LET t == FrameworkClose(s, f)
         IN  /\ t \in States /\ t.up = s.up /\ t.selected = s.selected /\ t.actives = s.actives
             /\ t.opened = s.opened
             /\ \A g \in Frameworks \ {f} : t.fw[g] = s.fw[g]
             /\ s.fw[f] \in {ClosedFramework, OnceHeld} => t.fw[f] = ClosedFramework
<1> DEFINE w == IF s.fw[f].refcnt = 1 THEN ClosedFramework ELSE [s.fw[f] EXCEPT !.refcnt = s.fw[f].refcnt - 1]
           u == [s.fw EXCEPT ![f] = w]
           t == [s EXCEPT !.fw = u]
<1>1. s.fw \in [Frameworks -> Counts] /\ s.fw[f] \in Counts /\ ClosedFramework \in Counts
  BY DEF States, Counts, ClosedFramework
<1>2. w \in Counts /\ (s.fw[f].refcnt = 1 => w = ClosedFramework)
  <2>1. s.fw[f].refcnt - 1 \in Int
    BY <1>1 DEF Counts
  <2>2. [s.fw[f] EXCEPT !.refcnt = s.fw[f].refcnt - 1] \in Counts
    BY <1>1, <2>1 DEF Counts
  <2>3. CASE s.fw[f].refcnt = 1
    BY <1>1, <2>3
  <2>4. CASE s.fw[f].refcnt # 1
    BY <2>2, <2>4
  <2> HIDE DEF w
  <2> QED
    BY <2>3, <2>4
<1>3. FrameworkClose(s, f) = IF ~(s.fw[f].open \/ s.fw[f].registered) THEN s ELSE t
  BY DEF FrameworkClose
<1> HIDE DEF w
<1>4. u \in [Frameworks -> Counts] /\ u[f] = w /\ \A g \in Frameworks \ {f} : u[g] = s.fw[g]
  BY <1>1, <1>2
<1> HIDE DEF u
<1>5. /\ t \in States /\ t.fw = u /\ t.up = s.up /\ t.selected = s.selected /\ t.actives = s.actives
      /\ t.opened = s.opened
  BY <1>4 DEF States
<1> HIDE DEF t
<1>6. OnceHeld.open /\ OnceHeld.refcnt = 1 /\ ~ClosedFramework.open /\ ~ClosedFramework.registered
  BY DEF OnceHeld, ClosedFramework
<1>7. CASE ~(s.fw[f].open \/ s.fw[f].registered)
  BY <1>3, <1>6, <1>7
<1>8. CASE s.fw[f].open \/ s.fw[f].registered
  BY <1>2, <1>3, <1>4, <1>5, <1>6, <1>8
<1> QED
  BY <1>7, <1>8

LEMMA EmptyIsRanked == Ranked(<<>>)
  BY DEF Ranked

LEMMA ClosesSelecting ==
  ASSUME NEW s, Typed(s), NEW f \in Selecting
  PROVE  LET t == CloseSelecting(s, f)
         IN  /\ Typed(t) /\ t.up = s.up /\ t.selected = s.selected /\ t.opened = s.opened
             /\ \A g \in Frameworks \ {f} : t.fw[g] = s.fw[g]
             /\ \A g \in Selecting \ {f} : t.actives[g] = s.actives[g]
             /\ s.fw[f] = OnceHeld => t.actives[f] = <<>>
             /\ s.actives[f] = <<>> => t.actives[f] = <<>>
             /\ s.fw[f] \in {ClosedFramework, OnceHeld} => t.fw[f] = ClosedFramework
<1> DEFINE v == FrameworkClose(s, f)
           a == [v.actives EXCEPT ![f] = <<>>]
           t == [v EXCEPT !.actives = a]
<1>0. s \in States /\ f \in Frameworks /\ f # "dl" /\ "dl" \in Frameworks
  BY DEF Typed, Selecting, Frameworks
<1>1. /\ v \in States /\ v.up = s.up /\ v.selected = s.selected /\ v.actives = s.actives
      /\ v.opened = s.opened
      /\ \A g \in Frameworks \ {f} : v.fw[g] = s.fw[g]
      /\ s.fw[f] \in {ClosedFramework, OnceHeld} => v.fw[f] = ClosedFramework
  BY <1>0, ClosesFramework
<1>2. CloseSelecting(s, f) = IF s.fw[f].open /\ ~v.fw[f].open THEN t ELSE v
  BY DEF CloseSelecting
<1> HIDE DEF v
<1>3. Typed(v)
  BY <1>0, <1>1 DEF Typed
<1>4. a \in [Selecting -> Seq(RtComponents)] /\ a[f] = <<>> /\ \A g \in Selecting \ {f} : a[g] = s.actives[g]
  BY <1>1 DEF States
<1> HIDE DEF a
<1>5. /\ t \in States /\ t.fw = v.fw /\ t.up = v.up /\ t.selected = v.selected /\ t.actives = a
      /\ t.opened = v.opened
  BY <1>1, <1>4 DEF States
<1> HIDE DEF t
<1>6. Typed(t)
  BY <1>1, <1>3, <1>4, <1>5, EmptyIsRanked DEF Typed
<1>7. OnceHeld.open /\ ~ClosedFramework.open
  BY DEF OnceHeld, ClosedFramework
<1>8. CASE s.fw[f].open /\ ~v.fw[f].open
  BY <1>1, <1>2, <1>4, <1>5, <1>6, <1>8
<1>9. CASE ~(s.fw[f].open /\ ~v.fw[f].open)
  BY <1>1, <1>2, <1>3, <1>7, <1>9
<1> QED
  BY <1>8, <1>9

LEMMA TakesDownParts ==
  ASSUME NEW s, Typed(s), NEW parts, "repository" \notin parts
  PROVE  LET t == TakesDown(s, parts)
         IN  /\ Typed(t) /\ t.up = s.up \ parts /\ t.selected = s.selected /\ t.opened = s.opened
             /\ t.fw = s.fw /\ t.actives = s.actives
<1> DEFINE t == TakesDown(s, parts)
<1>1. s \in States
  BY DEF Typed
<1>2. /\ t \in States /\ t.up = s.up \ parts /\ t.selected = s.selected /\ t.opened = s.opened
      /\ t.fw = s.fw /\ t.actives = s.actives
  BY <1>1 DEF TakesDown, States
<1> HIDE DEF t
<1>3. Typed(t)
  BY <1>2 DEF Typed
<1> QED
  BY <1>2, <1>3 DEF t

LEMMA FinalizeKeeps == ASSUME RtInv, Finalize PROVE RtInv'
<1> DEFINE s1 == ww_sec_close(Library)
           s2 == TakesDown(s1, {"params", "vars", "files", "base vars", "keyval"})
           s3 == FrameworkClose(s2, "installdirs")
           s4 == TakesDown(s3, {"help", "verbose stream"})
           s5 == ww_dstore_close(s4)
           C == {ClosedFramework, OnceHeld}
<1>1. /\ ww_initialized = 1 /\ ww_initialized' = 0 /\ rt_generation' = rt_generation
      /\ rt_failed' = rt_failed /\ rt_refs_off' = rt_refs_off /\ Becomes(s5)
  BY DEF Finalize
<1>2. /\ Typed(Library) /\ Library.fw = fw /\ Library.up = up /\ Library.actives = actives
      /\ Library.selected = selected /\ Library.opened = mca_base_opened
  BY LibraryAt DEF At, Library
<1>3. "sec" \in Selecting /\ "dstore" \in Selecting /\ "installdirs" \in Frameworks /\ Frameworks = {"sec", "dstore", "installdirs", "dl"}
  BY DEF Selecting, Frameworks
<1>4. /\ Typed(s1) /\ s1.up = up /\ s1.selected = selected /\ s1.opened = mca_base_opened
      /\ s1.fw["dstore"] = fw["dstore"] /\ s1.fw["installdirs"] = fw["installdirs"] /\ s1.fw["dl"] = fw["dl"]
      /\ s1.actives["dstore"] = actives["dstore"]
      /\ fw["sec"] = OnceHeld \/ actives["sec"] = <<>> => s1.actives["sec"] = <<>>
      /\ fw["sec"] \in C => s1.fw["sec"] = ClosedFramework
  <2> HIDE DEF C
  <2>1. LET t == CloseSelecting(Library, "sec")
        IN  /\ Typed(t) /\ t.up = Library.up /\ t.selected = Library.selected /\ t.opened = Library.opened
            /\ \A g \in Frameworks \ {"sec"} : t.fw[g] = Library.fw[g]
            /\ \A g \in Selecting \ {"sec"} : t.actives[g] = Library.actives[g]
            /\ Library.fw["sec"] = OnceHeld => t.actives["sec"] = <<>>
            /\ Library.actives["sec"] = <<>> => t.actives["sec"] = <<>>
            /\ Library.fw["sec"] \in C => t.fw["sec"] = ClosedFramework
    BY <1>2, <1>3, ClosesSelecting DEF C
  <2>2. s1 = CloseSelecting(Library, "sec")
    BY DEF ww_sec_close
  <2> HIDE DEF s1
  <2> QED
    BY <1>2, <1>3, <2>1, <2>2
<1> HIDE DEF s1
<1>5. /\ Typed(s2) /\ s2.up = s1.up \ {"params", "vars", "files", "base vars", "keyval"}
      /\ s2.selected = s1.selected /\ s2.opened = s1.opened /\ s2.fw = s1.fw /\ s2.actives = s1.actives
  <2> DEFINE parts == {"params", "vars", "files", "base vars", "keyval"}
  <2>1. "repository" \notin parts
    OBVIOUS
  <2> HIDE DEF parts
  <2>2. LET t == TakesDown(s1, parts)
        IN  /\ Typed(t) /\ t.up = s1.up \ parts /\ t.selected = s1.selected /\ t.opened = s1.opened
            /\ t.fw = s1.fw /\ t.actives = s1.actives
    BY <1>4, <2>1, TakesDownParts
  <2> QED
    BY <2>2 DEF parts
<1> HIDE DEF s2
<1>6. /\ s3 \in States /\ s3.up = s2.up /\ s3.selected = s2.selected /\ s3.actives = s2.actives /\ s3.opened = s2.opened
      /\ \A g \in Frameworks \ {"installdirs"} : s3.fw[g] = s2.fw[g]
      /\ s2.fw["installdirs"] \in C => s3.fw["installdirs"] = ClosedFramework
  BY <1>3, <1>5, ClosesFramework DEF Typed
<1> HIDE DEF s3
<1>7. Typed(s3)
  BY <1>3, <1>5, <1>6 DEF Typed
<1>8. /\ Typed(s4) /\ s4.up = s3.up \ {"help", "verbose stream"}
      /\ s4.selected = s3.selected /\ s4.opened = s3.opened /\ s4.fw = s3.fw /\ s4.actives = s3.actives
  <2> DEFINE parts == {"help", "verbose stream"}
  <2>1. "repository" \notin parts
    OBVIOUS
  <2> HIDE DEF parts
  <2>2. LET t == TakesDown(s3, parts)
        IN  /\ Typed(t) /\ t.up = s3.up \ parts /\ t.selected = s3.selected /\ t.opened = s3.opened
            /\ t.fw = s3.fw /\ t.actives = s3.actives
    BY <1>7, <2>1, TakesDownParts
  <2> QED
    BY <2>2 DEF parts
<1> HIDE DEF s4
<1>9. /\ Typed(s5) /\ s5.up = s4.up /\ s5.selected = s4.selected /\ s5.opened = s4.opened
      /\ s5.fw["sec"] = s4.fw["sec"] /\ s5.fw["installdirs"] = s4.fw["installdirs"] /\ s5.fw["dl"] = s4.fw["dl"]
      /\ s5.actives["sec"] = s4.actives["sec"]
      /\ s4.fw["dstore"] = OnceHeld \/ s4.actives["dstore"] = <<>> => s5.actives["dstore"] = <<>>
      /\ s4.fw["dstore"] \in C => s5.fw["dstore"] = ClosedFramework
  <2> HIDE DEF C
  <2>1. LET t == CloseSelecting(s4, "dstore")
        IN  /\ Typed(t) /\ t.up = s4.up /\ t.selected = s4.selected /\ t.opened = s4.opened
            /\ \A g \in Frameworks \ {"dstore"} : t.fw[g] = s4.fw[g]
            /\ \A g \in Selecting \ {"dstore"} : t.actives[g] = s4.actives[g]
            /\ s4.fw["dstore"] = OnceHeld => t.actives["dstore"] = <<>>
            /\ s4.actives["dstore"] = <<>> => t.actives["dstore"] = <<>>
            /\ s4.fw["dstore"] \in C => t.fw["dstore"] = ClosedFramework
    BY <1>3, <1>8, ClosesSelecting DEF C
  <2>2. s5 = CloseSelecting(s4, "dstore")
    BY DEF ww_dstore_close
  <2> HIDE DEF s5
  <2> QED
    BY <1>3, <2>1, <2>2
<1> HIDE DEF s5, C
<1>10. LibraryTypes' /\ (fw'["dl"].open => "repository" \in up')
  BY <1>1, <1>9, BecomesTyped
<1>11. /\ up' = up \ {"params", "vars", "files", "base vars", "keyval", "help", "verbose stream"}
       /\ selected' = selected /\ mca_base_opened' = mca_base_opened /\ fw'["dl"] = fw["dl"]
       /\ fw["sec"] \in C => fw'["sec"] = ClosedFramework
       /\ fw["dstore"] \in C => fw'["dstore"] = ClosedFramework
       /\ fw["installdirs"] \in C => fw'["installdirs"] = ClosedFramework
       /\ fw["sec"] = OnceHeld \/ actives["sec"] = <<>> => actives'["sec"] = <<>>
       /\ fw["dstore"] = OnceHeld \/ actives["dstore"] = <<>> => actives'["dstore"] = <<>>
  <2>1. fw' = s5.fw /\ up' = s5.up /\ selected' = s5.selected /\ actives' = s5.actives /\ mca_base_opened' = s5.opened
    BY <1>1 DEF Becomes
  <2>2. up' = up \ {"params", "vars", "files", "base vars", "keyval", "help", "verbose stream"}
    <3>1. up' = (up \ {"params", "vars", "files", "base vars", "keyval"}) \ {"help", "verbose stream"}
      BY <1>4, <1>5, <1>6, <1>8, <1>9, <2>1
    <3> QED
      BY <3>1
  <2>3. selected' = selected /\ mca_base_opened' = mca_base_opened
    BY <1>4, <1>5, <1>6, <1>8, <1>9, <2>1
  <2>4. /\ fw'["dl"] = fw["dl"]
        /\ fw["sec"] \in C => fw'["sec"] = ClosedFramework
        /\ fw["installdirs"] \in C => fw'["installdirs"] = ClosedFramework
        /\ fw["dstore"] \in C => fw'["dstore"] = ClosedFramework
    BY <1>3, <1>4, <1>5, <1>6, <1>8, <1>9, <2>1
  <2>5. /\ fw["sec"] = OnceHeld \/ actives["sec"] = <<>> => actives'["sec"] = <<>>
        /\ fw["dstore"] = OnceHeld \/ actives["dstore"] = <<>> => actives'["dstore"] = <<>>
    BY <1>3, <1>4, <1>5, <1>6, <1>8, <1>9, <2>1
  <2> QED
    BY <2>2, <2>3, <2>4, <2>5
<1>12. ASSUME ~rt_refs_off
       PROVE  /\ \A f \in Frameworks \ {"dl"} : fw'[f] = ClosedFramework
              /\ \A f \in Selecting : actives'[f] = <<>>
  <2>1. /\ \A f \in {"sec", "dstore", "installdirs"} : fw[f] \in C
        /\ fw["sec"] = OnceHeld \/ actives["sec"] = <<>>
        /\ fw["dstore"] = OnceHeld \/ actives["dstore"] = <<>>
    <3>1. ~ClosedFramework.open
      BY DEF ClosedFramework
    <3> QED
      BY <1>12, <3>1 DEF RtInv, Balanced, C, Frameworks, Selecting
  <2> QED
    BY <1>3, <1>11, <2>1 DEF Selecting
<1>13. ~rt_refs_off => Balanced'
  <2>1. up' \subseteq {"output", "repository"}
    BY <1>11 DEF RtInv, LibraryTypes, Parts
  <2> QED
    BY <1>1, <1>12, <2>1 DEF Balanced
<1>14. ASSUME ~rt_failed PROVE ~rt_refs_off /\ rt_generation # 0 /\ UpForGood'
  <2>1. ~rt_refs_off /\ rt_generation # 0 /\ UpForGood
    BY <1>1, <1>14 DEF RtInv, NeverUp
  <2>2. {"output", "repository"} \subseteq up'
    BY <1>11, <2>1 DEF UpForGood
  <2>3. mca_base_opened' > 0 /\ fw'["dl"] = OnceHeld
    BY <1>11, <2>1 DEF UpForGood
  <2>4. \A f \in Selecting : selected'[f] /\ actives'[f] = <<>>
    BY <1>11, <1>12, <2>1 DEF UpForGood
  <2>5. UpForGood'
    <3>1. ww_initialized' <= 0
      BY <1>1
    <3> QED
      BY <2>2, <2>3, <2>4, <3>1 DEF UpForGood
  <2> QED
    BY <2>1, <2>5
<1> QED
  BY <1>1, <1>10, <1>13, <1>14 DEF RtInv

(* A count alone: neither a first ww_init nor a last ww_finalize. *)
LEMMA CountKeeps ==
  ASSUME RtInv, ww_initialized' \in Int, ww_initialized' > 0 <=> ww_initialized > 0,
         UNCHANGED <<fw, up, selected, actives, mca_base_opened, rt_generation, rt_failed, rt_refs_off>>
  PROVE  RtInv'
<1>1. LibraryTypes'
  BY DEF RtInv, LibraryTypes
<1>2. ww_initialized \in Int /\ (ww_initialized' <= 0 <=> ww_initialized <= 0)
  BY DEF RtInv
<1>3. ~rt_refs_off => Balanced'
  BY <1>2 DEF RtInv, Balanced
<1>4. NeverUp => NeverUp'
  BY <1>2 DEF NeverUp
<1>5. UpForGood => UpForGood'
  BY <1>2 DEF UpForGood
<1>6. UpNow => UpNow'
  BY DEF UpNow
<1> QED
  BY <1>1, <1>3, <1>4, <1>5, <1>6 DEF RtInv

LEMMA RtStep == RtInv /\ [RuntimeNext]_rt_vars => RtInv'
<1> SUFFICES ASSUME RtInv, [RuntimeNext]_rt_vars PROVE RtInv'
  OBVIOUS
<1>0. ww_initialized \in Int
  BY DEF RtInv
<1>1. CASE UNCHANGED rt_vars
  BY <1>0, <1>1, CountKeeps DEF rt_vars
<1>2. CASE InitCounted
  BY <1>0, <1>2, CountKeeps DEF InitCounted, Counted
<1>3. CASE FinalizeCounted
  BY <1>0, <1>3, CountKeeps DEF FinalizeCounted
<1>4. CASE Cleanup
  BY <1>0, <1>4, CountKeeps DEF Cleanup
<1> QED
  BY <1>1, <1>2, <1>3, <1>4, FinalizeKeeps, SucceedKeeps, FailKeeps DEF RuntimeNext

LEMMA RtInitially == RuntimeInit => RtInv
<1> SUFFICES ASSUME RuntimeInit PROVE RtInv
  OBVIOUS
<1>1. ClosedFramework \in Counts /\ ~ClosedFramework.open
  BY DEF ClosedFramework, Counts
<1>2. LibraryTypes
  BY <1>1, EmptyIsRanked DEF RuntimeInit, LibraryTypes, Ranked
<1>3. /\ \A f \in Frameworks : fw[f] = ClosedFramework
      /\ \A f \in Selecting : ~selected[f] /\ actives[f] = <<>>
  BY DEF RuntimeInit
<1>4. "dl" \in Frameworks
  BY DEF Frameworks
<1>5. Balanced /\ NeverUp
  <2>1. ww_initialized = 0 /\ up = {} /\ mca_base_opened = 0
    BY DEF RuntimeInit
  <2> QED
    BY <1>3, <1>4, <2>1 DEF Balanced, NeverUp
<1>6. /\ ww_initialized \in Int /\ ~(ww_initialized > 0) /\ rt_generation = 0
      /\ rt_failed \in BOOLEAN /\ rt_refs_off \in BOOLEAN /\ ~rt_refs_off /\ ~fw["dl"].open
  <2>1. fw["dl"] = ClosedFramework
    BY <1>3, <1>4
  <2>2. ww_initialized = 0 /\ rt_generation = 0 /\ rt_failed = FALSE /\ rt_refs_off = FALSE
    BY DEF RuntimeInit
  <2>3. ww_initialized \in Int /\ ~(ww_initialized > 0)
    BY <2>2
  <2>4. ~fw["dl"].open /\ rt_failed \in BOOLEAN /\ rt_refs_off \in BOOLEAN /\ ~rt_refs_off
    BY <1>1, <2>1, <2>2, Zenon
  <2> QED
    BY <2>2, <2>3, <2>4
<1> QED
  BY <1>2, <1>5, <1>6 DEF RtInv

(* The first of those asked for is the best of them. *)
LEMMA AssignsBest ==
  ASSUME RtInv, fw["sec"].open, NEW options, NEW c \in options \cap ToSet(actives["sec"])
  PROVE  AssignModule(options) # "none" /\ Priority[AssignModule(options)] >= Priority[c]
<1> DEFINE list == actives["sec"]
           wanted == {k \in DOMAIN list : list[k] \in options}
           m == Min(wanted)
<1>1. Ranked(list)
  BY DEF RtInv, LibraryTypes, Selecting
<1>2. wanted \in SUBSET Nat /\ DOMAIN list = 1 .. Len(list)
  BY <1>1 DEF Ranked
<1>3. PICK j \in wanted : list[j] = c
  BY DEF ToSet
<1>4. m \in wanted /\ m <= j
  <2> HIDE DEF wanted
  <2> QED
    BY <1>2, <1>3, MinIsLeast
<1>5. AssignModule(options) = list[m]
  BY <1>3 DEF AssignModule
<1>6. Priority[list[m]] >= Priority[list[j]] /\ list[m] \in RtComponents
  <2> HIDE DEF m
  <2> QED
    BY <1>1, <1>2, <1>3, <1>4 DEF Ranked
<1> QED
  BY <1>3, <1>5, <1>6, RuntimeAssumption

LEMMA ReadyWhenUsed == RtInv => InUseIsReady
<1> SUFFICES ASSUME RtInv, ww_initialized > 0, ~rt_failed
             PROVE  /\ \A f \in Frameworks : fw[f] = [refcnt |-> 1, registered |-> TRUE, open |-> TRUE]
                    /\ {"output", "help", "keyval", "vars", "files", "params", "repository"} \subseteq up
                    /\ IF rt_generation = 1 THEN {"base vars", "verbose stream"} \subseteq up
                                            ELSE \A f \in Selecting : actives[f] = <<>>
                    /\ \A options \in SUBSET RtComponents : \A c \in options \cap ToSet(actives["sec"]) :
                         AssignModule(options) # "none" /\ Priority[AssignModule(options)] >= Priority[c]
  BY DEF InUseIsReady
<1>1. rt_generation \in Nat /\ rt_generation # 0 /\ UpForGood /\ UpNow /\ ~(ww_initialized <= 0)
  BY DEF RtInv, NeverUp
<1>2. \A f \in Frameworks : fw[f] = OnceHeld
  BY <1>1 DEF UpForGood, UpNow
<1>3. OnceHeld.open /\ "sec" \in Frameworks
  BY DEF OnceHeld, Frameworks, Selecting
<1>4. \A options \in SUBSET RtComponents : \A c \in options \cap ToSet(actives["sec"]) :
        AssignModule(options) # "none" /\ Priority[AssignModule(options)] >= Priority[c]
  <2>1. fw["sec"].open
    BY <1>2, <1>3
  <2> TAKE options \in SUBSET RtComponents
  <2> TAKE c \in options \cap ToSet(actives["sec"])
  <2> QED
    BY <2>1, AssignsBest
<1>5. IF rt_generation = 1 THEN {"base vars", "verbose stream"} \subseteq up
                           ELSE \A f \in Selecting : actives[f] = <<>>
  <2>1. CASE rt_generation = 1
    <3>1. ~(rt_generation > 1)
      BY <2>1
    <3>2. {"base vars", "verbose stream"} \subseteq up
      BY <1>1, <3>1, Zenon DEF UpForGood
    <3> QED
      BY <2>1, <3>2
  <2>2. CASE rt_generation # 1
    <3>1. rt_generation > 1
      BY <1>1, <2>2
    <3> QED
      BY <1>1, <2>2, <3>1 DEF UpForGood
  <2> QED
    BY <2>1, <2>2
<1>6. {"output", "help", "keyval", "vars", "files", "params", "repository"} \subseteq up
  BY <1>1 DEF UpForGood, UpNow
<1> QED
  BY <1>2, <1>4, <1>5, <1>6 DEF OnceHeld

LEMMA ClosedWhenFinalized == RtInv => FinalizedIsClosed
<1>1. ~ClosedFramework.open
  BY DEF ClosedFramework
<1>2. Selecting \subseteq Frameworks \ {"dl"}
  BY DEF Selecting, Frameworks
<1> QED
  BY <1>1, <1>2 DEF RtInv, Balanced, FinalizedIsClosed

(* RuntimeStaged: every ww_init that succeeds leaves the library ready and   *)
(* every last ww_finalize takes it down, whatever components sec and dstore  *)
(* have and however often and in what order the steps of several callers     *)
(* come and fail (ww_init.c:60-150, ww_finalize.c:51-90).                    *)
THEOREM RuntimeComesAndGoes == RuntimeSpec => []RuntimeStaged
<1>1. RuntimeSpec => []RtInv
  BY RtInitially, RtStep, PTL DEF RuntimeSpec
<1> QED
  BY <1>1, ReadyWhenUsed, ClosedWhenFinalized, PTL DEF RuntimeStaged
=============================================================================

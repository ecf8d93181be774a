-------------------------------- MODULE Argv ---------------------------------
(* Arrays of strings that end in NULL, grown and shrunk with realloc, beside *)
(* the count that the caller keeps.  A string is a sequence of characters.   *)
EXTENDS Integers, Sequences, SequencesExt
CONSTANTS Args,         \* strings without the delimiter
          Delimiter,
          MaxArgs,      \* bounds on the length of the array and
          MaxBehind     \* on how far its length is ahead of the caller's count
VARIABLES argv,         \* the cells that are allocated; empty when there are none
          argc,         \* the count of the caller
          av_expected   \* what the array should hold
av_vars == <<argv, argc, av_expected>>
EndMark == <<"NULL">>
Unset_  == <<"unset">>
ASSUME ArgvAssumption ==
  /\ MaxArgs \in Nat
  /\ Delimiter \in STRING /\ Args \subseteq Seq(STRING \ {Delimiter})
  /\ EndMark \notin Args
ArgvInit == argv = <<>> /\ argc = 0 /\ av_expected = <<>>
Count == IF argv = <<>> THEN 0
         ELSE (CHOOSE i \in DOMAIN argv : argv[i] = EndMark /\ \A j \in 1 .. i - 1 : argv[j] # EndMark) - 1
Strings == SubSeq(argv, 1, Count)
-----------------------------------------------------------------------------
Realloc(cells, n) == [i \in 1 .. n |-> IF i \in DOMAIN cells THEN cells[i] ELSE Unset_]
Appended(cells, count, arg) ==
  [Realloc(cells, count + 2) EXCEPT ![count + 1] = arg, ![count + 2] = EndMark]
AppendArg(arg) ==
  /\ Count < MaxArgs
  /\ argv' = Appended(argv, Count, arg)
  /\ argc' = Count + 1
  /\ av_expected' = Append(av_expected, arg)
AppendAll(cells, count, source) ==
  LET after[k \in 0 .. Len(source)] ==
        IF k = 0 THEN cells ELSE Appended(after[k - 1], count + k - 1, source[k])
  IN  after[Len(source)]
(* The operations without a count: the caller's follows what they did.       *)
Recounted(change) == argc' = argc + change
PrependArg(arg) ==
  /\ Count < MaxArgs
  /\ argv' = [i \in 1 .. Count + 2 |-> IF i = 1 THEN arg ELSE IF i = Count + 2 THEN EndMark ELSE argv[i - 1]]
  /\ Recounted(1)
  /\ av_expected' = <<arg>> \o av_expected
AppendUnique(arg) ==
  /\ Count < MaxArgs
  /\ IF Contains(Strings, arg) THEN argv' = argv /\ Recounted(0)
     ELSE argv' = Appended(argv, Count, arg) /\ Recounted(1)
  /\ av_expected' = IF Contains(av_expected, arg) THEN av_expected ELSE Append(av_expected, arg)

(* What follows is copied over what is deleted.  The count given by the      *)
(* caller is taken from its count, however many there were.                  *)
(* Mutation: one fewer is copied. *)
Suffix_Short(start, num) == IF Count - (start + num) - 1 < 0 THEN 0 ELSE Count - (start + num) - 1
Suffix(start, num) == IF Count - (start + num) < 0 THEN 0 ELSE Count - (start + num)
DeleteArgs(start, num) ==
  /\ argv # <<>> /\ start <= Count /\ Count - argc <= MaxBehind
  /\ LET suffix == Suffix(start, num)
     IN  argv' = [i \in 1 .. start + suffix + 1 |->
                    IF i <= start THEN argv[i]
                    ELSE IF i = start + suffix + 1 THEN EndMark ELSE argv[i + num]]
  /\ argc' = argc - num
  /\ av_expected' = SubSeq(av_expected, 1, start) \o SubSeq(av_expected, start + num + 1, Len(av_expected))
(* Beyond the end, what is inserted is appended.                             *)
InsertArgs(start, source) ==
  /\ argv # <<>> /\ Count + Len(source) <= MaxArgs
  /\ IF start > Count
     THEN argv' = AppendAll(argv, Count, source)
     ELSE argv' = [i \in 1 .. Count + Len(source) + 1 |->
                     IF i <= start THEN argv[i]
                     ELSE IF i <= start + Len(source) THEN source[i - start] ELSE argv[i - Len(source)]]
  /\ Recounted(Len(source))
  /\ LET before == IF start > Len(av_expected) THEN Len(av_expected) ELSE start
     IN  av_expected' = SubSeq(av_expected, 1, before) \o source
                        \o SubSeq(av_expected, before + 1, Len(av_expected))
InsertElement(location, source) ==
  /\ argv # <<>> /\ Count < MaxArgs
  /\ argv' = IF location > Count THEN Appended(argv, Count, source)
             ELSE [i \in 1 .. Count + 2 |-> IF i <= location THEN argv[i]
                                       ELSE IF i = location + 1 THEN source ELSE argv[i - 1]]
  /\ Recounted(1)
  /\ av_expected' = LET before == IF location > Len(av_expected) THEN Len(av_expected) ELSE location
                    IN  InsertAt(av_expected, before + 1, source)
FreeArgv ==
  /\ argv # <<>>
  /\ argv' = <<>> /\ argc' = 0 /\ av_expected' = <<>>
ArgvNext ==
  \/ FreeArgv
  \/ \E arg \in Args :
       \/ AppendArg(arg) \/ PrependArg(arg) \/ AppendUnique(arg)
       \/ \E at \in 0 .. MaxArgs : InsertElement(at, arg)
  \/ \E start \in 0 .. MaxArgs :
       \/ \E num \in 1 .. 2 : DeleteArgs(start, num)
       \/ \E source \in TupleOf(Args, 2) : InsertArgs(start, source)
ArgvSpec == ArgvInit /\ [][ArgvNext]_av_vars
-----------------------------------------------------------------------------
(* Reading.  An empty piece is skipped or kept, but the last one is dropped. *)
Split(args, piece) == [args |-> args, piece |-> piece]
SplitChar(s, char, include_empty) ==
  IF char # Delimiter THEN Split(s.args, Append(s.piece, char))
  ELSE IF s.piece = <<>> /\ ~include_empty THEN Split(s.args, <<>>)
  ELSE Split(Append(s.args, s.piece), <<>>)
Pieces(text, include_empty) ==
  LET s[k \in 0 .. Len(text)] ==
        IF k = 0 THEN Split(<<>>, <<>>) ELSE SplitChar(s[k - 1], text[k], include_empty)
      end == s[Len(text)]
  IN  IF end.piece = <<>> THEN end.args ELSE Append(end.args, end.piece)
(* The strings from start to before end, with the delimiter behind each; the *)
(* last of them becomes the end of the string.  An empty range has none, and *)
(* what is written then is undefined and not modelled.                       *)
JoinRange(start, end) ==
  LET range == SubSeq(Strings, start + 1, end)
      text[k \in 0 .. Len(range)] ==
        IF k = 0 THEN <<>> ELSE text[k - 1] \o range[k] \o <<Delimiter>>
  IN  SubSeq(text[Len(range)], 1, Len(text[Len(range)]) - 1)
CopyOf == AppendAll(<<EndMark>>, 0, Strings)

NonEmpty(args) ==
  LET kept[k \in 0 .. Len(args)] ==
        IF k = 0 THEN <<>> ELSE IF args[k] = <<>> THEN kept[k - 1] ELSE Append(kept[k - 1], args[k])
  IN  kept[Len(args)]
(* The array holds what was put in, in order, and the end mark in its last   *)
(* cell; the caller's count never runs ahead of it; and what is joined is    *)
(* split into the same strings: without empty ones, those that are not       *)
(* empty, and with them, all of them when the last is not (argv.c:40-588).   *)
ArgvExact ==
  /\ Strings = av_expected /\ argc <= Count
  /\ argv # <<>> => Len(argv) = Count + 1 /\ CopyOf = argv
  /\ \A start \in 0 .. Count - 1 : \A end \in start + 1 .. Count :
       LET range == SubSeq(av_expected, start + 1, end)
       IN  /\ Pieces(JoinRange(start, end), FALSE) = NonEmpty(range)
           /\ Last(range) # <<>> => Pieces(JoinRange(start, end), TRUE) = range
(* "If num_to_delete runs beyond the end of the argv array, this function    *)
(* will delete all tokens starting with start to the end of the array", and  *)
(* argc is the "length of the argv array" (argv.h:241-249, 52): the caller's *)
(* count is the array's after every operation.                               *)
CountKept == argc = Count
(* "Include empty strings in result array" (argv.h:157-158): what is joined  *)
(* is split with empty strings into the strings that were joined.            *)
EmptiesReturn ==
  \A start \in 0 .. Count - 1 : \A end \in start + 1 .. Count :
    Pieces(JoinRange(start, end), TRUE) = SubSeq(Strings, start + 1, end)
=============================================================================

----------------------------- MODULE OutputLine ------------------------------
(* make_string: a line is put together in one buffer that all streams use    *)
(* and that grows when it is too short.  A text is its length.               *)
EXTENDS Integers, FiniteSets
CONSTANTS MessageLengths,    \* lengths of messages, without a newline at the end
          PrefixLengths, SuffixLengths   \* lengths of the stream's prefix and suffix
ASSUME LineAssumption ==
  MessageLengths \subseteq Nat /\ PrefixLengths \subseteq Nat /\ SuffixLengths \subseteq Nat
VARIABLES temp_str_len,
          line        \* the last line: what it needs and what was written
line_vars == <<temp_str_len, line>>
NoLine == [total |-> 0, added |-> FALSE, written |-> 0]
LineInit == temp_str_len = 0 /\ line = NoLine
-----------------------------------------------------------------------------
(* A newline is added if there is none, and moved behind a suffix.           *)
(* Mutation: the end of the string is not counted. *)
Room_Short(total, want_newline) == IF temp_str_len < total THEN 2 * total ELSE temp_str_len
Room(total, want_newline) ==
  IF temp_str_len < total + (IF want_newline THEN 1 ELSE 0) THEN 2 * total ELSE temp_str_len
MakeString(length, newline, prefix, suffix) ==
  LET total == prefix + length + 1 + suffix
      want_newline == ~newline \/ suffix > 0
  IN  /\ temp_str_len' = Room(total, want_newline)
      /\ line' = [total |-> total, added |-> want_newline,
                  written |-> IF total < temp_str_len' THEN total ELSE temp_str_len' - 1]
(* ww_output_finalize. *)
FreeBuffer == temp_str_len # 0 /\ temp_str_len' = 0 /\ UNCHANGED line
LineNext ==
  \/ FreeBuffer
  \/ \E length \in MessageLengths, newline \in BOOLEAN, prefix \in PrefixLengths, suffix \in SuffixLengths :
       MakeString(length, newline, prefix, suffix)
LineSpec == LineInit /\ [][LineNext]_line_vars
-----------------------------------------------------------------------------
(* However long the lines were that the buffer had room for, nothing of a    *)
(* line is lost but the newline a caller brought itself: one that            *)
(* make_string adds, or moves, is always written (output.c:851-918).         *)
LinesWhole == line.written \in {line.total - 1, line.total} /\ (line.added => line.written = line.total)

(* "This function will append newlines as necessary" (output.h:371-373): a   *)
(* line is written with its newline whether its caller sends one or not.     *)
NewlineWritten == line.written = line.total
=============================================================================

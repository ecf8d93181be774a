------------------------------- MODULE VarText -------------------------------
(* A variable's value as text: read by its type or its enumerator, written   *)
(* into the environment of a child process, and read there again.  A text is *)
(* a sequence of tokens, with commas between them; blanks are left out.  The *)
(* value of a variable with flags is the set of its bits that are set.       *)
EXTENDS Integers, Sequences, Powers
CONSTANTS VarKinds,      \* type or enumerator of the variable that is followed
          Texts,         \* texts a user may give
          SetTo,         \* for each kind, values a program may set
          ValueList,     \* enumerator of values: sequence of [value, name]
          FlagList,      \* enumerator of flags: sequence of [bit, name, conflicts]
          IntBits, LongBits, SuffixShift   \* 32, 64 and 10 in the code
VARIABLES vt_kind, vt_stored,
          vt_result,     \* what setting it last returned, or "unset"; CRASH ends the program
          vt_env,        \* the child's environment: not built, or the text in it
          vt_sent,       \* the value when it was built
          vt_child       \* what the child has read of it
vt_vars == <<vt_kind, vt_stored, vt_result, vt_env, vt_sent, vt_child>>
(* Names are not numbers, and no two values have the same one; a flag is one *)
(* bit, which no other has, and does not conflict with itself, as asserted   *)
(* where the enumerator is made.  The levels of verbosity are ints.          *)
Bit == 0 .. IntBits - 2
Blank == ""
TextNames == STRING \ {Blank}
ASSUME VarTextAssumption ==
  /\ VarKinds \subseteq {"bool", "verbose", "values", "flags", "int", "uint", "ulong"}
  /\ Texts \subseteq Seq([word : STRING, upper : BOOLEAN, number : Int, suffix : STRING])
  /\ ValueList \in Seq([value : Int, name : TextNames])
  /\ \A i, j \in DOMAIN ValueList : ValueList[i].name = ValueList[j].name => i = j
  /\ FlagList \in Seq([bit : Bit, name : TextNames, conflicts : SUBSET Bit])
  /\ \A i, j \in DOMAIN FlagList : FlagList[i].bit = FlagList[j].bit => i = j
  /\ \A i \in DOMAIN FlagList : FlagList[i].bit \notin FlagList[i].conflicts
  /\ {IntBits, LongBits} \subseteq Nat \ {0} /\ SuffixShift \in Nat
  /\ IntBits <= LongBits /\ 100 < Power(2, IntBits - 1)
Number(n) == [word |-> Blank, upper |-> FALSE, number |-> n, suffix |-> Blank]
Word(w)   == [word |-> w, upper |-> FALSE, number |-> 0, suffix |-> Blank]
Mark(m)   == <<[word |-> m, upper |-> TRUE, number |-> 0, suffix |-> Blank]>>
NoText    == Mark("no text")
NotBuilt  == Mark("not built")
IsNumber(token) == token.word = Blank /\ token.suffix = Blank
Zero(kind)  == IF kind = "flags" THEN {} ELSE 0
Answer(rc, n) == [rc |-> rc, value |-> n]
Unread == Answer("unread", Zero(vt_kind))
(* strtol, whose result becomes an int, and strtoull.                        *)
Signed(n, bits) ==
  LET rest == n % Power(2, bits)
  IN  IF rest >= Power(2, bits - 1) THEN rest - Power(2, bits) ELSE rest
AsInt(n) ==
  LET max == Power(2, LongBits - 1)
  IN  Signed(IF n >= max THEN max - 1 ELSE IF n < -max THEN -max ELSE n, IntBits)
AsUnsigned(n) ==
  LET max == Power(2, LongBits)
  IN  IF n >= max \/ n <= -max THEN max - 1 ELSE n % max
VarTextInit ==
  /\ vt_kind \in VarKinds
  /\ vt_stored = Zero(vt_kind) /\ vt_result = "unset"
  /\ vt_env = NotBuilt /\ vt_sent = Zero(vt_kind) /\ vt_child = Unread
-----------------------------------------------------------------------------
(* The enumerators: a value of a text, which is not empty, and a text of a   *)
(* value.  Boolean and verbosity heed the case of a name.                    *)
LeastOf(S) == CHOOSE i \in S : \A j \in S : i <= j
True  == {"true", "t", "enabled", "yes"}
False == {"false", "f", "disabled", "no"}
BoolFromString(text) ==
  LET Is(names) == \E name \in names : text = <<Word(name)>>
  IN  IF Len(text) = 1 /\ IsNumber(text[1])
      THEN Answer("SUCCESS", IF AsInt(text[1].number) = 0 THEN 0 ELSE 1)
      ELSE IF Is(True) THEN Answer("SUCCESS", 1)
      ELSE IF Is(False) THEN Answer("SUCCESS", 0) ELSE Answer("OUT_OF_BOUNDS", 0)
BoolToString(n) == <<Word(IF n = 0 THEN "false" ELSE "true")>>

verbose_values ==
  << [value |-> -1, name |-> "none"], [value |-> 0, name |-> "error"],
     [value |-> 10, name |-> "component"], [value |-> 20, name |-> "warn"],
     [value |-> 40, name |-> "info"], [value |-> 60, name |-> "trace"],
     [value |-> 80, name |-> "debug"], [value |-> 100, name |-> "max"] >>
Clamped(n) == IF n < -1 THEN -1 ELSE IF n > 100 THEN 100 ELSE n
VerboseFromString(text) ==
  LET named == {i \in DOMAIN verbose_values : text = <<Word(verbose_values[i].name)>>}
  IN  IF Len(text) = 1 /\ IsNumber(text[1]) THEN Answer("SUCCESS", Clamped(AsInt(text[1].number)))
      ELSE IF named # {} THEN Answer("SUCCESS", verbose_values[LeastOf(named)].value)
      ELSE Answer("NOT_FOUND", 0)
LevelText(n) ==
  LET named == {i \in DOMAIN verbose_values : verbose_values[i].value = n}
  IN  IF named # {} THEN <<Word(verbose_values[LeastOf(named)].name)>> ELSE <<Number(n)>>
VerboseToString(n) == IF n < 0 \/ n > 100 THEN NoText ELSE LevelText(n)

Called(token, name) == token.word = name /\ token.suffix = Blank
ValueFromString(text) ==
  LET found == {i \in DOMAIN ValueList :
                 /\ Len(text) = 1
                 /\ \/ IsNumber(text[1]) /\ AsInt(text[1].number) = ValueList[i].value
                    \/ Called(text[1], ValueList[i].name)}
  IN  IF found = {} THEN Answer("OUT_OF_BOUNDS", 0) ELSE Answer("SUCCESS", ValueList[LeastOf(found)].value)
ValueToString(n) ==
  LET found == {i \in DOMAIN ValueList : ValueList[i].value = n}
  IN  IF found = {} THEN NoText ELSE <<Word(ValueList[LeastOf(found)].name)>>

(* The i-th name is compared with the i-th flag alone, as often as there are *)
(* flags; a conflict is one with an earlier name.  One name more than there  *)
(* are flags meets the end of the list, a flag of no bit whose name is NULL. *)
FlagAdded(flag, token, entry) ==
  IF flag.rc # "SUCCESS" THEN flag
  ELSE IF /\ ~(IsNumber(token) /\ AsInt(token.number) = Power(2, entry.bit))
          /\ ~Called(token, entry.name)
  THEN Answer("OUT_OF_BOUNDS", {})
  ELSE IF flag.value \cap entry.conflicts # {} THEN Answer("BAD_PARAM", {})
  ELSE Answer("SUCCESS", flag.value \cup {entry.bit})
AtTheEnd(flag, token) ==
  IF flag.rc # "SUCCESS" THEN flag
  ELSE IF FlagList = <<>> THEN Answer("OUT_OF_BOUNDS", {})
  ELSE IF IsNumber(token) /\ AsInt(token.number) = 0 THEN flag
  ELSE Answer("CRASH", {})
FlagFromString(text) ==
  LET flag[i \in 0 .. Len(text)] ==
        IF i = 0 THEN Answer("SUCCESS", {})
        ELSE IF i <= Len(FlagList) THEN FlagAdded(flag[i - 1], text[i], FlagList[i])
        ELSE AtTheEnd(flag[i - 1], text[i])
  IN  flag[Len(text)]
FlagToString(n) ==
  LET text[i \in 0 .. Len(FlagList)] ==
        IF i = 0 THEN <<>>
        ELSE IF FlagList[i].bit \in n THEN Append(text[i - 1], Word(FlagList[i].name)) ELSE text[i - 1]
  IN  IF \/ \E i \in DOMAIN FlagList : FlagList[i].bit \in n /\ FlagList[i].conflicts \cap n # {}
         \/ ~ n \subseteq {FlagList[i].bit : i \in DOMAIN FlagList}
      THEN NoText ELSE text[Len(FlagList)]
-----------------------------------------------------------------------------
(* int_from_string without an enumerator: strtoull and the suffixes K, M, G; *)
(* anything else that follows, or a text that is no number, is ignored.      *)
Shifts == [k |-> 1, m |-> 2, g |-> 3]
Unsigned(text) ==
  LET token  == text[1]
      factor == IF token.suffix \in DOMAIN Shifts
                THEN Power(2, SuffixShift * Shifts[token.suffix]) ELSE 1
  IN  (AsUnsigned(token.number) * factor) % Power(2, LongBits)
NumberFromString(kind, text) ==
  LET n == Unsigned(text)
  IN  IF kind = "int" /\ Signed(n, IntBits) = Signed(n, LongBits) THEN Answer("SUCCESS", Signed(n, IntBits))
      ELSE IF kind = "ulong" \/ (kind = "uint" /\ n < Power(2, IntBits)) THEN Answer("SUCCESS", n)
      ELSE Answer("OUT_OF_BOUNDS", 0)
(* An empty text, and one that is refused but is not out of bounds, is 0.    *)
FromString(kind, text) ==
  IF text = <<>> THEN Answer("SUCCESS", Zero(kind))
  ELSE IF kind = "bool"    THEN BoolFromString(text)
  ELSE IF kind = "verbose" THEN VerboseFromString(text)
  ELSE IF kind = "values"  THEN ValueFromString(text)
  ELSE IF kind = "flags"   THEN FlagFromString(text)
  ELSE NumberFromString(kind, text)
(* Mutation: every number is written as if it were an int. *)
NumberToString_Int(n) == <<Number(Signed(n, IntBits))>>
NumberToString(n) == <<Number(n)>>
ToString_(kind, n) ==
  IF kind = "bool" THEN BoolToString(n)
  ELSE IF kind = "verbose" THEN VerboseToString(n)
  ELSE IF kind = "values"  THEN ValueToString(n)
  ELSE IF kind = "flags"   THEN FlagToString(n)
  ELSE NumberToString(n)
(* The values of the type.                                                   *)
Typed(kind) ==
  IF kind = "bool" THEN {0, 1}
  ELSE IF kind = "flags" THEN SUBSET (0 .. IntBits - 1)
  ELSE IF kind = "uint"  THEN 0 .. Power(2, IntBits) - 1
  ELSE IF kind = "ulong" THEN 0 .. Power(2, LongBits) - 1
  ELSE -Power(2, IntBits - 1) .. Power(2, IntBits - 1) - 1

ReadText(kind, text, old) ==
  LET a == FromString(kind, text) IN IF a.rc = "OUT_OF_BOUNDS" THEN Answer(a.rc, old) ELSE a
(* A bound: a text has at most one name more than there are flags.           *)
SetFromText(text) ==
  /\ vt_kind = "flags" => Len(text) <= Len(FlagList) + 1
  /\ LET a == ReadText(vt_kind, text, vt_stored)
     IN  vt_result' = a.rc /\ vt_stored' = IF a.rc = "CRASH" THEN vt_stored ELSE a.value
  /\ vt_env' = NotBuilt /\ vt_child' = Unread
  /\ UNCHANGED <<vt_kind, vt_sent>>
(* mca_base_var_set_value asks the enumerator whether there is a text, and   *)
(* for no text; the verbosity's writes it all the same, through NULL, where  *)
(* the level has a name.                                                     *)
WritesName(n) == vt_kind = "verbose" /\ ToString_(vt_kind, n) # <<Number(n)>>
SetToValue(n) ==
  /\ n \in Typed(vt_kind)
  /\ ToString_(vt_kind, n) # NoText
  /\ vt_result' = IF WritesName(n) THEN "CRASH" ELSE "SUCCESS"
  /\ vt_stored' = IF WritesName(n) THEN vt_stored ELSE n
  /\ vt_env' = NotBuilt /\ vt_child' = Unread
  /\ UNCHANGED <<vt_kind, vt_sent>>
(* mca_base_var_build_env: one value without a text leaves it without any.   *)
BuildEnv ==
  /\ vt_result # "unset" /\ vt_env = NotBuilt
  /\ vt_env' = ToString_(vt_kind, vt_stored)
  /\ vt_sent' = vt_stored
  /\ UNCHANGED <<vt_kind, vt_stored, vt_result, vt_child>>
ChildReads ==
  /\ vt_env \notin {NotBuilt, NoText} /\ vt_child.rc = "unread"
  /\ vt_child' = ReadText(vt_kind, vt_env, Zero(vt_kind))
  /\ UNCHANGED <<vt_kind, vt_stored, vt_result, vt_env, vt_sent>>
VarTextNext ==
  /\ vt_result # "CRASH"
  /\ \/ \E text \in Texts : SetFromText(text)
     \/ \E n \in SetTo[vt_kind] : SetToValue(n)
     \/ BuildEnv \/ ChildReads
VarTextSpec == VarTextInit /\ [][VarTextNext]_vt_vars
-----------------------------------------------------------------------------
(* A value that reaches the child's environment is the value the child has,  *)
(* for every type and enumerator (mca_base_var.c:655-768, 1013-1105,         *)
(* 1916-1976); of flags that is so only where they are the first ones, see   *)
(* FlagsReadBack.                                                            *)
FirstFlags == \E k \in 0 .. Len(FlagList) : vt_sent = {FlagList[i].bit : i \in 1 .. k}
ValuesReadBack ==
  vt_child.rc # "unread" /\ (vt_kind = "flags" => FirstFlags) => vt_child = Answer("SUCCESS", vt_sent)

(* mca_base_var_enum.h:53-61 and 123-128: the text of a flag is looked up    *)
(* among the names, and the matching flag is used for the variable.          *)
FlagsReadBack ==
  vt_kind = "flags" /\ vt_child.rc # "unread" => vt_child = Answer("SUCCESS", vt_sent)

(* "Get the string representation for an enumerator value"                   *)
(* (mca_base_var_enum.h:77-92): every level of verbosity that can be stored  *)
(* is a level of the enumerator, so it has one.                              *)
LevelsHaveTexts == vt_kind = "verbose" => vt_env # NoText

(* "WW_SUCCESS if found", "WW_ERR_VALUE_OUT_OF_BOUNDS if not"                *)
(* (mca_base_var_enum.h:60-61): a text that an enumerator does not know is   *)
(* out of bounds, upon which the variable keeps the value it has.            *)
RefusedOutOfBounds == vt_result \in {"unset", "SUCCESS", "OUT_OF_BOUNDS", "CRASH"}

(* "The {string_value} parameter may be NULL in which case no string is      *)
(* returned" (mca_base_var_enum.h:88-89), and a text that matches no value   *)
(* returns an error (123-128): setting a variable never ends the program.    *)
SettingReturns == vt_result # "CRASH"
=============================================================================

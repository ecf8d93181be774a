------------------------------ MODULE Checksums ------------------------------
(* The checksums of crc.c, which take a message in pieces: words are added   *)
(* up, and a word that a piece ends in is carried over to the next one; the  *)
(* CRC shifts one byte after the other through a table.  Whether the source  *)
(* is aligned only decides how words are read.  A byte is a number in the    *)
(* sums; in the CRC it, and a register, are the sets of their bits that are  *)
(* one.                                                                      *)
EXTENDS Integers, Sequences, Powers
CONSTANTS WordBytes,   \* sizeof(unsigned long) or sizeof(unsigned int)
          ByteBits, CrcBits, CRC_POLYNOMIAL,
          Messages     \* sequences of bytes
VARIABLES ck_message, ck_read,   \* how much of it was read,
          ck_sum, ck_last,       \* the sum so far, lastPartialLong and its length,
          ck_crc                 \* and the CRC so far
ck_vars == <<ck_message, ck_read, ck_sum, ck_last, ck_crc>>
Byte == Power(2, ByteBits)
WordSize == Power(Byte, WordBytes)
ByteBit == 0 .. ByteBits - 1
CrcBit  == 0 .. CrcBits - 1
ASSUME ChecksumAssumption ==
  /\ WordBytes \in Nat \ {0} /\ ByteBits \in Nat \ {0} /\ CrcBits \in Nat /\ ByteBits <= CrcBits
  /\ CRC_POLYNOMIAL \subseteq CrcBit
  /\ Messages \subseteq Seq(0 .. Byte - 1)
CRC_INITIAL_REGISTER == CrcBit
ZeroWord == [i \in 1 .. WordBytes |-> 0]
NoPartial == [word |-> ZeroWord, length |-> 0]
ChecksumInit ==
  /\ ck_message \in Messages /\ ck_read = 0
  /\ ck_sum = 0 /\ ck_last = NoPartial
  /\ ck_crc = CRC_INITIAL_REGISTER
-----------------------------------------------------------------------------
(* The first byte of a word is its lowest.                                   *)
Value(word) ==
  LET from[k \in 0 .. WordBytes] ==
        IF k = 0 THEN 0 ELSE word[WordBytes - k + 1] + Byte * from[k - 1]
  IN  from[WordBytes]
Overlay(word, offset, bytes) ==
  [i \in 1 .. WordBytes |-> IF i - offset \in DOMAIN bytes THEN bytes[i - offset] ELSE word[i]]
(* The partial word, with more bytes in it, takes the place of the old one.  *)
(* Mutation: it is added to the sum as if it was new. *)
GrownWord_Added(s, bytes) ==
  LET word == Overlay(s.word, s.length, bytes)
  IN  [s EXCEPT !.sum = (@ + Value(word)) % WordSize, !.word = word,
                !.length = @ + Len(bytes)]
GrownWord(s, bytes) ==
  LET word == Overlay(s.word, s.length, bytes)
  IN  [s EXCEPT !.sum = (@ + Value(word) - Value(s.word)) % WordSize, !.word = word,
                !.length = @ + Len(bytes)]
(* Whole words, the first of which may have been begun; at the end less than *)
(* a word is left over, and the partial word is empty.                       *)
AddWords(s, bytes) ==
  LET fill  == IF s.length = 0 THEN 0 ELSE WordBytes - s.length
      begun == GrownWord(s, SubSeq(bytes, 1, fill))
      words == (Len(bytes) - fill) \div WordBytes
      total[k \in 0 .. words] ==
        IF k = 0 THEN begun.sum
        ELSE total[k - 1] + Value(SubSeq(bytes, fill + (k - 1) * WordBytes + 1, fill + k * WordBytes))
  IN  [sum |-> total[words] % WordSize, word |-> ZeroWord, length |-> 0,
       rest |-> SubSeq(bytes, fill + words * WordBytes + 1, Len(bytes))]
Copy(s, bytes) ==
  IF s.length # 0 /\ Len(bytes) < WordBytes - s.length
  THEN GrownWord(s, bytes) ELSE AddWords(s, bytes)
(* What is left over begins a new partial word.                              *)
LeftOver(s) == GrownWord([s EXCEPT !.rest = <<>>], s.rest)
(* ww_bcopy_csum_partial: bytes that are copied, and more that only go into  *)
(* the sum.                                                                  *)
CsumCopied(s, copied, more) ==
  LET t == Copy(s, copied)
  IN  IF more = <<>> THEN LeftOver(t)
      ELSE LeftOver(Copy([t EXCEPT !.rest = <<>>], t.rest \o more))
(* ww_csum_partial: nothing is copied.                                       *)
CsumPartial(s, bytes) == LeftOver(Copy(s, bytes))

Xor(a, b) == (a \ b) \cup (b \ a)
OnesOf(byte) == {b \in ByteBit : (byte \div Power(2, b)) % 2 = 1}
Shifted(crc, n) == {b \in CrcBit : b - n \in crc}
(* ww_initialize_crc_table, and the step that uses it.                       *)
Shift1(crc) == IF CrcBits - 1 \in crc THEN Xor(Shifted(crc, 1), CRC_POLYNOMIAL) ELSE Shifted(crc, 1)
CrcTable ==
  [i \in SUBSET ByteBit |->
     LET after[j \in 0 .. ByteBits] ==
           IF j = 0 THEN {b + CrcBits - ByteBits : b \in i} ELSE Shift1(after[j - 1])
     IN  after[ByteBits]]
(* Mutation: the byte is not mixed with what is shifted out. *)
CrcByte_Unmixed(crc, byte) == Xor(Shifted(crc, ByteBits), CrcTable[OnesOf(byte)])
CrcByte(crc, byte) ==
  LET i == Xor({b \in ByteBit : b + CrcBits - ByteBits \in crc}, OnesOf(byte))
  IN  Xor(Shifted(crc, ByteBits), CrcTable[i])
UicrcPartial(crc, bytes) ==
  LET after[k \in 0 .. Len(bytes)] == IF k = 0 THEN crc ELSE CrcByte(after[k - 1], bytes[k])
  IN  after[Len(bytes)]

Carried == [sum |-> 0, word |-> ck_last.word, length |-> ck_last.length, rest |-> <<>>]
Bytes(from, upto) == SubSeq(ck_message, ck_read + from + 1, ck_read + upto)
Taken(s, csumlen) ==
  /\ ck_sum' = (ck_sum + s.sum) % WordSize
  /\ ck_last' = [word |-> s.word, length |-> s.length]
  /\ ck_crc' = UicrcPartial(ck_crc, Bytes(0, csumlen))
  /\ ck_read' = ck_read + csumlen
  /\ UNCHANGED ck_message
CopyPiece(copylen, csumlen) ==
  Taken(CsumCopied(Carried, Bytes(0, copylen), Bytes(copylen, csumlen)), csumlen)
SumPiece(csumlen) == Taken(CsumPartial(Carried, Bytes(0, csumlen)), csumlen)
ChecksumNext == \E csumlen \in 0 .. Len(ck_message) - ck_read :
                  \/ SumPiece(csumlen)
                  \/ \E copylen \in 0 .. csumlen : CopyPiece(copylen, csumlen)
ChecksumSpec == ChecksumInit /\ [][ChecksumNext]_ck_vars
-----------------------------------------------------------------------------
(* The sum of the words of what was read, the last one filled with zeros.    *)
Padded(k) == [i \in 1 .. WordBytes |-> IF (k - 1) * WordBytes + i <= ck_read
                                       THEN ck_message[(k - 1) * WordBytes + i] ELSE 0]
SumOfWords ==
  LET words == (ck_read + WordBytes - 1) \div WordBytes
      sum[k \in 0 .. words] == IF k = 0 THEN 0 ELSE sum[k - 1] + Value(Padded(k))
  IN  sum[words] % WordSize
(* The remainder of its bits, the highest of a byte first, one by one.       *)
BitAdded(crc, bit, byte) ==
  Shift1(IF bit \in OnesOf(byte) THEN Xor(crc, {CrcBits - 1}) ELSE crc)
BitsAdded(crc, byte) ==
  LET after[j \in 0 .. ByteBits] ==
        IF j = 0 THEN crc ELSE BitAdded(after[j - 1], ByteBits - j, byte)
  IN  after[ByteBits]
CrcOfBits ==
  LET after[k \in 0 .. ck_read] ==
        IF k = 0 THEN CRC_INITIAL_REGISTER ELSE BitsAdded(after[k - 1], ck_message[k])
  IN  after[ck_read]
(* However a message is cut into pieces, the sums of the pieces add up to    *)
(* the sum of its words, the last one filled with zeros, and the CRC is the  *)
(* remainder of its bits (crc.c:69-413, 773-919, 1075-1206).                 *)
PiecesAgree == ck_sum = SumOfWords /\ ck_crc = CrcOfBits
=============================================================================

---------------------------- MODULE KartArchive ----------------------------
(***************************************************************************)
(* The archives of the Qt client's commands                                *)
(* (client-qt/common/kart_archive.h).  MemOutputArchive appends the bytes  *)
(* of an integer as they lie in memory, on the little endian machines the  *)
(* client and the car are; MemInputArchive takes them back, and a read     *)
(* that does not fit changes neither the value nor the position.           *)
(***************************************************************************)
EXTENDS Integers, Sequences

Byte == 0..255
Int16 == -32768..32767

\* write(int16_t): two's complement, the low byte first.
ToBytes_SignExtended(v) == <<v % 256, v \div 256>>
ToBytes(v) == <<v % 256, (v % 65536) \div 256>>

FromBytes(b) ==
  LET u == b[1] + 256 * b[2] IN IF u > 32767 THEN u - 65536 ELSE u

\* What is left of an archive after n bytes.
Behind(bytes, n) == SubSeq(bytes, n + 1, Len(bytes))

\* read(int16_t&), of the bytes of an archive from m_pos on.
Fits(bytes) == Len(bytes) >= 2
AfterRead(bytes) == IF Fits(bytes) THEN Behind(bytes, 2) ELSE bytes

\* A variable that no read has written holds no number.
Unwritten == 65536
Value(bytes) == IF Fits(bytes) THEN FromBytes(bytes) ELSE Unwritten

=============================================================================

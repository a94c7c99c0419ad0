------------------------------ MODULE CoreUtil ------------------------------
(***************************************************************************)
(* CoreMark's integers and checksums (coremark/core_util.c and the types   *)
(* of core_portme.h).  An unsigned 16-bit value is 0..65535; a signed one  *)
(* is kept either as its value (S16) or, where the code only looks at its  *)
(* bits, as its bit pattern (U16).                                         *)
(***************************************************************************)
EXTENDS Integers, Sequences, Bitwise

U8(x)  == x % 256
U16(x) == x % 65536
S16(x) == ((x + 32768) % 65536) - 32768

(* One round of crcu8: the lowest bits of data and crc decide whether the  *)
(* polynomial 0x4002 is added and bit 15 set.  Faulty form: bit 15 stays.  *)
CrcBitDropped(data, crc) == (IF (data + crc) % 2 = 1 THEN crc ^^ 16386 ELSE crc) \div 2

CrcBit(data, crc) ==
  IF (data + crc) % 2 = 1 THEN 32768 + ((crc ^^ 16386) \div 2) ELSE crc \div 2

CrcRounds[n \in 0..8, data \in 0..255, crc \in 0..65535] ==
  IF n = 0 THEN crc ELSE CrcRounds[n - 1, data \div 2, CrcBit(data, crc)]

CrcU8(data, crc) == CrcRounds[8, data, crc]

CrcU16(newval, crc) == CrcU8(U16(newval) \div 256, CrcU8(U8(newval), crc))

Crc16(newval, crc) == CrcU16(U16(newval), crc)

CrcU32(newval, crc) == Crc16(newval \div 65536, Crc16(newval, crc))
=============================================================================

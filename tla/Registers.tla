------------------------------ MODULE Registers ------------------------------
(***************************************************************************)
(* The 8-bit registers of the chips on the SPI bus, as the drivers read,   *)
(* mask and write them back: lora.c and am1815.c.                          *)
(***************************************************************************)
EXTENDS Integers

(* The value of bit n of a register; of bit 8, what its byte wraps at.     *)
Bit(n) == <<1, 2, 4, 8, 16, 32, 64, 128, 256>>[n + 1]

(* The field of width bits from bit lsb of a byte, and the byte with this  *)
(* field replaced by the low bits of a value.                              *)
Field(byte, lsb, width) == (byte \div Bit(lsb)) % Bit(width)
With(byte, lsb, width, v) ==
  byte + ((v % Bit(width)) - Field(byte, lsb, width)) * Bit(lsb)

(* The bitwise OR of two fields of four bits, and that one has every bit   *)
(* of another.                                                             *)
BitOr(a, b) ==
  LET set(n) == IF Field(a, n, 1) + Field(b, n, 1) > 0 THEN Bit(n) ELSE 0
  IN  set(0) + set(1) + set(2) + set(3)
Includes(a, b) == \A n \in 0 .. 3 : Field(b, n, 1) <= Field(a, n, 1)
=============================================================================

---------------------------- MODULE MCKeyShares ----------------------------
(***************************************************************************)
(* Constants for checking KeyShares with TLC: all keys and coefficients of *)
(* the field with eight elements.                                          *)
(***************************************************************************)
EXTENDS KeyShares

\* x^3 + x + 1
Cubic == {0, 1, 3}

\* The default, every threshold of three shares, as many shares as there can
\* be, and layouts that are refused.
Layouts == {<<1, 1>>, <<2, 2>>, <<3, 2>>, <<3, 3>>, <<7, 2>>, <<8, 2>>, <<3, 1>>, <<2, 3>>}

\* The field of the code, of bytes modulo 0x11B, is one that KeyShares assumes.
Byte == INSTANCE KeyShares
  WITH Width <- 8, Modulus <- {0, 1, 3, 4, 8}, MaxShares <- 255, KeyLength <- 32

ASSUME ByteAssumption ==
  /\ \A value \in Byte!Element \ {{}} :
       /\ Byte!Reciprocal[value] \in Byte!Element
       /\ Byte!Product[value, Byte!Reciprocal[value]] = Byte!One
  /\ \A n \in 1..255 : Byte!Bits(n) # {}

=============================================================================

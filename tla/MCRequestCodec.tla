--------------------------- MODULE MCRequestCodec ---------------------------
(* Commands of up to three strings of up to two bytes, and every body of up *)
(* to eight bytes over 0..2; length fields are two bytes, little endian.     *)
EXTENDS RequestCodec

Bytes == 0..4
WidthOfField == 25
LittleEndian == [f \in [1..2 -> Bytes] |-> f[1] + 5 * f[2]]
BytesOf == [n \in 0..WidthOfField - 1 |-> <<n % 5, n \div 5>>]
ShortCommands == BoundedSeq(BoundedSeq({0, 2}, 2), 3)
UpToEight == BoundedSeq(0..2, 8)
=============================================================================

------------------------------- MODULE MCNbt -------------------------------
(***************************************************************************)
(* An instance of Nbt for TLC.  Bytes have 16 values, so a length of one   *)
(* byte is negative from 8 on and 13 to 15 name no tag; the 64-bit         *)
(* integers have two bytes, the others one.                                *)
(***************************************************************************)
EXTENDS Nbt

\* Lengths of 0, 1 and 2, which as tags are End, Byte and Short; a list, a
\* compound and an array, as lengths negative; 13 is no tag and no UTF-8.
MCInputBytes == {0, 1, 2, 9, 10, 12, 13}

MCNames == {<<>>, <<1>>}

\* A number, a string and an array, and one of each of the last two that their
\* length prefix cannot express.
MCLeaves ==
    {Leaf(Long, <<-2>>), Leaf(String, <<1, 2>>), Leaf(LongArray, <<3, -100>>),
     Leaf(String, [i \in 1..16 |-> 1]), Leaf(ByteArray, [i \in 1..8 |-> 0])}
=============================================================================

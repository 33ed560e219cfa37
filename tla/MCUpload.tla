------------------------------ MODULE MCUpload ------------------------------
(* An image of one whole block and a shorter one, a program with the two
   segments the kernel expects and one with three; a ring smaller than a frame,
   so that all of a frame can be overrun. *)
EXTENDS Upload

MCPrograms == {"two", "three"}
MCSegments == [p \in MCPrograms |-> IF p = "two" THEN <<2, 0>> ELSE <<1, 0, 1>>]
MCWrongSizes == {0, 2, 5}
=============================================================================

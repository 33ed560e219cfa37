----------------------------- MODULE MCReadline -----------------------------
(* A buffer for three characters and the terminator. *)
EXTENDS Readline

MCPrintable == {" ", "[", "C", "D"}
=============================================================================

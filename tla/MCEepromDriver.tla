--------------------------- MODULE MCEepromDriver ---------------------------
(* A chip of four pages of two bytes, whose addresses take two address bytes,
   and calls that fill part of a page, several pages, straddle a page and run
   over the end of the memory and of the 16-bit address. *)
EXTENDS EepromDriver

MCWrites == {<<0, 3>>, <<2, 4>>, <<3, 2>>, <<14, 4>>, <<4, 0>>}
MCReads == {<<0, 3>>, <<6, 3>>}
=============================================================================

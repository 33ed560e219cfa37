----------------------------- MODULE MCSerialRx -----------------------------
(* Instances of SerialRx for TLC: a ring of a few slots, so that a handful of
   bytes goes round it and fills it.  Six bytes fill the ring again after tail has
   come to its last slot. *)
EXTENDS SerialRx

MCRxSize == 3
MCFifoDepth == 2
MCMaxReq == 2
MCMaxBytes == 6
MCFewBytes == 4   \* for the runs that end in a counterexample

=============================================================================

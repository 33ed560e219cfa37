----------------------------- MODULE ByteStream -----------------------------
(***************************************************************************)
(* What the receive path of the serial line promises its two consumers,    *)
(* the kernel (kgot) and the user program (ugot): every byte delivered was *)
(* sent and still on its way, no byte is delivered twice, and each         *)
(* consumer gets its bytes in the order sent.  Bytes on their way may be   *)
(* lost at any time; when the code does lose them is a property of the     *)
(* detailed specification.                                                 *)
(***************************************************************************)
EXTENDS Integers, Sequences

VARIABLES
    sent,     \* number of bytes sent; byte n is the number n
    pending,  \* bytes on their way
    kgot,     \* bytes the kernel got, in order
    ugot      \* bytes the user program got, in order

vars == <<sent, pending, kgot, ugot>>

Init == sent = 0 /\ pending = {} /\ kgot = <<>> /\ ugot = <<>>

\* A byte is sent: it is on its way or already lost.
Send ==
    /\ sent' = sent + 1
    /\ pending' \subseteq pending \cup {sent'}
    /\ UNCHANGED <<kgot, ugot>>

\* Bytes on their way are lost.
Lose ==
    /\ pending' \subseteq pending
    /\ UNCHANGED <<sent, kgot, ugot>>

\* Byte b is newer than all that this consumer got.
Newer(b, got) == \A i \in 1 .. Len(got) : got[i] < b

Deliver(b) ==
    /\ b \in pending /\ pending' \subseteq pending \ {b}
    /\ UNCHANGED sent
    /\ \/ Newer(b, kgot) /\ kgot' = Append(kgot, b) /\ UNCHANGED ugot
       \/ Newer(b, ugot) /\ ugot' = Append(ugot, b) /\ UNCHANGED kgot

Next == Send \/ Lose \/ \E b \in pending : Deliver(b)

Spec == Init /\ [][Next]_vars
=============================================================================

----------------------------- MODULE LineEditor -----------------------------
(***************************************************************************)
(* What serial_readline promises: a line of at most Capacity characters    *)
(* with a cursor in it, edited by inserting before the cursor, deleting    *)
(* before the cursor and moving, and handed over as it stands on Enter.    *)
(***************************************************************************)
EXTENDS Integers, Sequences

CONSTANTS Printable, Capacity

VARIABLES
    before,  \* the characters before the cursor
    after,   \* the characters from the cursor on
    line     \* the line handed over, <<>> while editing

vars == <<before, after, line>>

Init == before = <<>> /\ after = <<>> /\ line = <<>>

\* A new line is begun.
Begin == before' = <<>> /\ after' = <<>> /\ line' = <<>>

Insert(c) ==
    /\ Len(before) + Len(after) < Capacity
    /\ before' = Append(before, c)
    /\ UNCHANGED <<after, line>>

Delete ==
    /\ before # <<>>
    /\ before' = SubSeq(before, 1, Len(before) - 1)
    /\ UNCHANGED <<after, line>>

Left ==
    /\ before # <<>>
    /\ before' = SubSeq(before, 1, Len(before) - 1)
    /\ after' = <<before[Len(before)]>> \o after
    /\ UNCHANGED line

Right ==
    /\ after # <<>>
    /\ before' = Append(before, Head(after))
    /\ after' = Tail(after)
    /\ UNCHANGED line

Enter ==
    /\ line' = before \o after
    /\ UNCHANGED <<before, after>>

Next ==
    \/ Begin \/ Delete \/ Left \/ Right \/ Enter
    \/ \E c \in Printable : Insert(c)

Spec == Init /\ [][Next]_vars
=============================================================================

------------------------------ MODULE Readline ------------------------------
(***************************************************************************)
(* serial_readline (kernel/readline.c): a line editor on the serial line.  *)
(*                                                                         *)
(* It runs inside a system call with interrupts held off and reads the     *)
(* keys unbuffered (see SerialRx), so a step is one byte received and all  *)
(* the code up to the next serial_getc: the moves in the buffer and what   *)
(* is sent to the terminal.  The terminal (external) shows one line of     *)
(* cells from the column where the editing began.                          *)
(***************************************************************************)
EXTENDS Integers, Sequences

CONSTANTS
    Size,      \* the size argument: bytes in the caller's buffer
    Printable  \* the characters 0x20 to 0x7E

\* A size of 0 is left out: the code then takes size - 1 for the largest
\* number and writes past the buffer.
ASSUME ReadlineAssumption ==
    /\ Size \in Nat \ {0}
    /\ {" ", "[", "C", "D"} \subseteq Printable
    /\ Printable \cap {"esc", "bs", "del", "cr", "other", "nul", "junk"} = {}

\* "other" stands for the bytes readline has no use for.
Bytes == Printable \cup {"esc", "bs", "del", "cr", "other"}

VARIABLES
    pc,      \* where serial_readline waits for a byte
    buffer,  \* the caller's buffer
    i,       \* the cursor in it
    maxind,  \* the length of the line
    cell,    \* the characters on the screen line
    column   \* the terminal's cursor

vars == <<pc, buffer, i, maxind, cell, column>>

Index == 0 .. Size - 1
Columns == 0 .. Size
Blank == " "

-----------------------------------------------------------------------------
(* The terminal.                                                           *)

\* n characters, f[0] to f[n - 1], written from column x on.
Written(cells, x, f, n) ==
    [y \in Columns |-> IF x <= y /\ y < x + n THEN f[y - x] ELSE cells[y]]

Spaces == [k \in Index |-> Blank]
From(b, k) == [j \in 0 .. Size - 1 - k |-> b[j + k]]

-----------------------------------------------------------------------------
Init ==
    /\ pc = "done"
    /\ buffer \in [Index -> {"junk"}] /\ i = 0 /\ maxind = 0
    /\ cell = [y \in Columns |-> Blank] /\ column = 0

\* serial_readline is called, on a new line of the screen; the buffer holds
\* what it held.
Call ==
    /\ pc = "done"
    /\ pc' = "key" /\ i' = 0 /\ maxind' = 0
    /\ cell' = [y \in Columns |-> Blank] /\ column' = 0
    /\ UNCHANGED buffer

FinishAtCursor ==   \* mutant: the line is cut at the cursor
    /\ pc' = "done"
    /\ buffer' = [buffer EXCEPT ![i] = "nul"]
    /\ UNCHANGED <<i, maxind, cell, column>>

\* Carriage return, or any byte that leaves c so: the line is ended.
Finish ==
    /\ pc' = "done"
    /\ buffer' = [buffer EXCEPT ![maxind] = "nul"]
    /\ UNCHANGED <<i, maxind, cell, column>>

\* The key changes nothing.
Ignore == pc' = "key" /\ UNCHANGED <<buffer, i, maxind, cell, column>>

-----------------------------------------------------------------------------
(* Editing.                                                                *)

\* The character before the cursor is blanked, the rest of the line moved
\* down over it in the buffer and drawn again with n blanks after it.
Erase(n) ==
    /\ i > 0
    /\ pc' = "key"
    /\ i' = i - 1 /\ maxind' = maxind - 1
    /\ buffer' = [k \in Index |-> IF i' <= k /\ k < maxind THEN buffer[k + 1] ELSE buffer[k]]
    /\ LET blanked == Written(cell, column - 1, Spaces, 1)
           redrawn == Written(blanked, column - 1, From(buffer', i'), maxind - i' - 1)
           endcol == column - 1 + (maxind - i' - 1)
       IN /\ cell' = Written(redrawn, endcol, Spaces, n)
          /\ column' = endcol + n - (maxind - i')

BackspaceNoBlank == Erase(0)   \* mutant: the last character stays on the screen
Backspace == Erase(1)

\* At the end of the line, while there is room.
AddChar(c, room) ==
    /\ i < room /\ i = maxind
    /\ pc' = "key"
    /\ buffer' = [buffer EXCEPT ![i] = c]
    /\ i' = i + 1 /\ maxind' = i'
    /\ cell' = [cell EXCEPT ![column] = c] /\ column' = column + 1

AppendCharTooFar(c) == AddChar(c, Size)   \* mutant: no room for the terminator
AppendChar(c) == AddChar(c, Size - 1)

\* In the middle: the rest of the line, now the characters rest of the buffer,
\* moves up and is drawn again.
PutChar(c, rest) ==
    /\ i < Size - 1 /\ i < maxind /\ maxind + 1 < Size
    /\ pc' = "key"
    /\ maxind' = maxind + 1 /\ i' = i + 1
    /\ buffer' = [k \in Index |-> IF i < k /\ k <= maxind' THEN rest[k]
                                  ELSE IF k = i THEN c ELSE buffer[k]]
    /\ cell' = Written(cell, column, From(buffer', i), maxind' - i)
    /\ column' = column + (maxind' - i) - (maxind' - 1 - i)

InsertCharSmeared(c) ==   \* mutant: moved from the left end, over itself
    PutChar(c, [k \in 1 .. Size - 1 |-> buffer[i]])
InsertChar(c) == PutChar(c, [k \in 1 .. Size - 1 |-> buffer[k - 1]])

Full == i >= Size - 1 \/ (i < maxind /\ maxind + 1 >= Size)

\* The code below the escape handling, for the byte c.
Handle(c) ==
    \/ c \in {"bs", "del"} /\ IF i = 0 THEN Ignore ELSE Backspace
    \/ c \in Printable /\ (AppendChar(c) \/ InsertChar(c) \/ (Full /\ Ignore))
    \/ c = "cr" /\ Finish
    \/ c \in {"other", "esc"} /\ Ignore

-----------------------------------------------------------------------------
(* One byte received.                                                      *)

Key(c) ==
    /\ pc = "key"
    /\ IF c = "esc" THEN pc' = "escape" /\ UNCHANGED <<buffer, i, maxind, cell, column>>
                    ELSE Handle(c)

\* After an escape anything but a bracket is a key of its own.
EscapeKey(c) ==
    /\ pc = "escape"
    /\ IF c = "[" THEN pc' = "bracket" /\ UNCHANGED <<buffer, i, maxind, cell, column>>
                  ELSE Handle(c)

\* The last byte of an escape sequence: an arrow, or nothing known; the loop
\* condition still looks at it.
SequenceKey(c) ==
    /\ pc = "bracket"
    /\ CASE c = "D" /\ i > 0 -> /\ pc' = "key" /\ i' = i - 1 /\ column' = column - 1
                                /\ UNCHANGED <<buffer, maxind, cell>>
         [] c = "C" /\ i < maxind -> /\ pc' = "key" /\ i' = i + 1 /\ column' = column + 1
                                     /\ UNCHANGED <<buffer, maxind, cell>>
         [] c = "cr" -> Finish
         [] OTHER -> Ignore

Next == Call \/ \E c \in Bytes : Key(c) \/ EscapeKey(c) \/ SequenceKey(c)

Spec == Init /\ [][Next]_vars

-----------------------------------------------------------------------------
TypeOK ==
    /\ pc \in {"key", "escape", "bracket", "done"}
    /\ buffer \in [Index -> Printable \cup {"nul", "junk"}]
    /\ maxind \in Index /\ i \in 0 .. maxind
    /\ cell \in [Columns -> Printable] /\ column \in Columns

\* Between two keys the screen shows the line and nothing else, and the
\* terminal's cursor stands where the next character goes (readline.c:18-51,
\* 59-77).
ScreenShowsLine ==
    pc # "done" =>
        /\ \A k \in 0 .. maxind - 1 : cell[k] = buffer[k]
        /\ \A k \in maxind .. Size : cell[k] = Blank
        /\ column = i

\* A line returned is a C string of the returned length inside the buffer
\* (readline.c:87-89).  Of the empty line, which is also what stands there before
\* the first call, the terminator is left out.
ReturnsString ==
    pc = "done" /\ maxind > 0 =>
        buffer[maxind] = "nul" /\ \A k \in 0 .. maxind - 1 : buffer[k] \in Printable

\* readline implements the line editor, for every mixture of keys, arrows,
\* broken escape sequences and keys beyond the end of the buffer.
Taken(from, to) == [k \in 1 .. to - from |-> buffer[from + k - 1]]
Editor == INSTANCE LineEditor WITH
              Capacity <- Size - 1,
              before <- Taken(0, i), after <- Taken(i, maxind),
              line <- IF pc = "done" THEN Taken(0, maxind) ELSE <<>>
EditorSpec == Editor!Spec
=============================================================================

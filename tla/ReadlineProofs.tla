--------------------------- MODULE ReadlineProofs ---------------------------
(***************************************************************************)
(* Theorems about Readline, for every size of the buffer and every set of  *)
(* printable characters: the screen shows the line, a C string of the      *)
(* returned length is handed back, and the editor implements LineEditor.   *)
(*                                                                         *)
(* The screen and the string need each other's half of ReadInv: what is    *)
(* drawn is read from the buffer, so the cells are printable only because  *)
(* the first maxind characters are.  The cases of a byte received are      *)
(* first brought to the eight edits of NextCases.                          *)
(***************************************************************************)
EXTENDS Readline, SequenceTheorems, TLAPS

\* The line holds printable characters only.
LineTyped == \A k \in 0 .. maxind - 1 : buffer[k] \in Printable

\* A line handed over ends in a nul.
LineEnded == pc = "done" /\ maxind > 0 => buffer[maxind] = "nul"

ReadInv == TypeOK /\ LineTyped /\ ScreenShowsLine /\ LineEnded

-----------------------------------------------------------------------------
(* The edits a byte can lead to.                                           *)

LEMMA SizeType == Size \in Nat /\ Size >= 1
  <1>1. Size \in Nat \ {0}
    BY ReadlineAssumption
  <1> QED BY <1>1

LEMMA CursorType ==
    ASSUME TypeOK
    PROVE  /\ i \in Nat /\ maxind \in Nat
           /\ i <= maxind /\ maxind <= Size - 1
  <1>1. maxind \in Index /\ i \in 0 .. maxind
    BY DEF TypeOK
  <1>2. maxind \in 0 .. Size - 1
    BY <1>1 DEF Index
  <1> QED BY <1>1, <1>2, SizeType

\* Nothing but the place in an escape sequence changes.
Quiet ==
    /\ pc # "done" /\ pc' \in {"key", "escape", "bracket"}
    /\ UNCHANGED <<buffer, i, maxind, cell, column>>

ArrowLeft ==
    /\ pc # "done" /\ i > 0
    /\ pc' = "key" /\ i' = i - 1 /\ column' = column - 1
    /\ UNCHANGED <<buffer, maxind, cell>>

ArrowRight ==
    /\ pc # "done" /\ i < maxind
    /\ pc' = "key" /\ i' = i + 1 /\ column' = column + 1
    /\ UNCHANGED <<buffer, maxind, cell>>

Edit ==
    \/ Quiet \/ ArrowLeft \/ ArrowRight
    \/ pc # "done" /\ Finish
    \/ pc # "done" /\ Erase(1)
    \/ pc # "done" /\ \E c \in Printable : AppendChar(c)
    \/ pc # "done" /\ \E c \in Printable : InsertChar(c)

LEMMA HandleCases ==
    ASSUME NEW c, pc # "done", Handle(c)
    PROVE  Edit
  <1>1. CASE c \in {"bs", "del"} /\ IF i = 0 THEN Ignore ELSE Backspace
    BY <1>1 DEF Edit, Quiet, Ignore, Backspace
  <1>2. CASE c \in Printable /\ (AppendChar(c) \/ InsertChar(c) \/ (Full /\ Ignore))
    BY <1>2 DEF Edit, Quiet, Ignore
  <1>3. CASE c = "cr" /\ Finish
    BY <1>3 DEF Edit
  <1>4. CASE c \in {"other", "esc"} /\ Ignore
    BY <1>4 DEF Edit, Quiet, Ignore
  <1> QED BY <1>1, <1>2, <1>3, <1>4 DEF Handle

LEMMA NextCases == Next => Call \/ Edit
  <1> SUFFICES ASSUME Next, ~ Call PROVE Edit
    OBVIOUS
  <1>1. PICK c \in Bytes : Key(c) \/ EscapeKey(c) \/ SequenceKey(c)
    BY DEF Next
  <1>2. CASE Key(c)
    <2>1. pc # "done"
      BY <1>2 DEF Key
    <2>2. CASE c = "esc"
      BY <1>2, <2>1, <2>2 DEF Key, Edit, Quiet
    <2>3. CASE c # "esc"
      BY <1>2, <2>1, <2>3, HandleCases DEF Key
    <2> QED BY <2>2, <2>3
  <1>3. CASE EscapeKey(c)
    <2>1. pc # "done"
      BY <1>3 DEF EscapeKey
    <2>2. CASE c = "["
      BY <1>3, <2>1, <2>2 DEF EscapeKey, Edit, Quiet
    <2>3. CASE c # "["
      BY <1>3, <2>1, <2>3, HandleCases DEF EscapeKey
    <2> QED BY <2>2, <2>3
  <1>4. CASE SequenceKey(c)
    <2>1. pc # "done"
      BY <1>4 DEF SequenceKey
    <2>2. CASE c = "D" /\ i > 0
      BY <1>4, <2>1, <2>2 DEF SequenceKey, Edit, ArrowLeft
    <2>3. CASE c = "C" /\ i < maxind
      BY <1>4, <2>1, <2>3 DEF SequenceKey, Edit, ArrowRight
    <2>4. CASE c = "cr"
      BY <1>4, <2>1, <2>4 DEF SequenceKey, Edit
    <2>5. CASE ~ (c = "D" /\ i > 0) /\ ~ (c = "C" /\ i < maxind) /\ c # "cr"
      BY <1>4, <2>1, <2>5 DEF SequenceKey, Edit, Quiet, Ignore
    <2> QED BY <2>2, <2>3, <2>4, <2>5
  <1> QED BY <1>1, <1>2, <1>3, <1>4

-----------------------------------------------------------------------------
(* What is drawn.                                                          *)

LEMMA WrittenCell ==
    ASSUME NEW cells, NEW x, NEW f, NEW n, NEW y \in Columns
    PROVE  Written(cells, x, f, n)[y] =
               IF x <= y /\ y < x + n THEN f[y - x] ELSE cells[y]
  BY DEF Written

\* A backspace leaves the shorter line from the old cursor's left neighbour
\* on, one blank after it, and the cursor where the character was.
LEMMA EraseDraws ==
    ASSUME TypeOK, column = i, Erase(1)
    PROVE  /\ cell' = [y \in Columns |->
                          IF y = maxind - 1 THEN Blank
                          ELSE IF i - 1 <= y /\ y < maxind - 1 THEN buffer'[y]
                          ELSE cell[y]]
           /\ column' = i - 1
  <1> DEFINE blanked == Written(cell, column - 1, Spaces, 1)
             redrawn == Written(blanked, column - 1, From(buffer', i'), maxind - i' - 1)
             endcol == column - 1 + (maxind - i' - 1)
             last == Written(redrawn, endcol, Spaces, 1)
             goal == [y \in Columns |->
                          IF y = maxind - 1 THEN Blank
                          ELSE IF i - 1 <= y /\ y < maxind - 1 THEN buffer'[y]
                          ELSE cell[y]]
  <1>1. /\ cell' = last /\ column' = endcol + 1 - (maxind - i')
        /\ i' = i - 1 /\ i > 0
    BY DEF Erase
  <1>2. /\ Size \in Nat /\ i \in Nat /\ maxind \in Nat /\ maxind <= Size - 1
        /\ i <= maxind /\ i >= 1
    BY <1>1, SizeType, CursorType
  <1>3. endcol = maxind - 1 /\ column' = i - 1
    BY <1>1, <1>2
  <1>4. Spaces[0] = Blank
    BY <1>2 DEF Spaces, Index
  <1>5. ASSUME NEW y \in Columns PROVE last[y] = goal[y]
    <2>1. y \in 0 .. Size
      BY DEF Columns
    <2>2. blanked[y] = IF y = i - 1 THEN Blank ELSE cell[y]
      BY <1>2, <1>4, <2>1, WrittenCell
    <2>3. redrawn[y] = IF i - 1 <= y /\ y < maxind - 1 THEN buffer'[y] ELSE blanked[y]
      <3> HIDE DEF blanked
      <3>1. redrawn[y] = IF i - 1 <= y /\ y < i - 1 + (maxind - (i - 1) - 1)
                         THEN From(buffer', i - 1)[y - (i - 1)] ELSE blanked[y]
        BY <1>1, WrittenCell
      <3>2. CASE i - 1 <= y /\ y < maxind - 1
        <4>1. y - (i - 1) \in 0 .. Size - 1 - (i - 1)
          BY <1>2, <2>1, <3>2
        <4>2. From(buffer', i - 1)[y - (i - 1)] = buffer'[(y - (i - 1)) + (i - 1)]
          BY <4>1 DEF From
        <4>3. (y - (i - 1)) + (i - 1) = y
          BY <1>2, <2>1
        <4> QED BY <3>1, <3>2, <4>2, <4>3, <1>2, <2>1
      <3>3. CASE ~ (i - 1 <= y /\ y < maxind - 1)
        BY <3>1, <3>3, <1>2, <2>1
      <3> QED BY <3>2, <3>3
    <2>4. last[y] = IF y = maxind - 1 THEN Blank ELSE redrawn[y]
      <3> HIDE DEF redrawn
      <3>1. last[y] = IF maxind - 1 <= y /\ y < maxind - 1 + 1
                      THEN Spaces[y - (maxind - 1)] ELSE redrawn[y]
        BY <1>3, WrittenCell
      <3> QED BY <3>1, <1>2, <1>4, <2>1
    <2>5. y = i - 1 => (i - 1 <= y /\ y < maxind - 1) \/ y = maxind - 1
      BY <1>2, <2>1
    <2> HIDE DEF blanked, redrawn, last
    <2> QED BY <2>2, <2>3, <2>4, <2>5
  <1>6. last = [y \in Columns |-> last[y]]
    BY DEF Written
  <1> QED BY <1>1, <1>3, <1>5, <1>6

\* A character put into the line draws the longer line from the cursor on.
LEMMA InsertDraws ==
    ASSUME TypeOK, column = i, NEW c, InsertChar(c)
    PROVE  /\ cell' = [y \in Columns |->
                          IF i <= y /\ y <= maxind THEN buffer'[y] ELSE cell[y]]
           /\ column' = i + 1
  <1>1. /\ cell' = Written(cell, column, From(buffer', i), maxind' - i)
        /\ column' = column + (maxind' - i) - (maxind' - 1 - i)
        /\ maxind' = maxind + 1 /\ i < maxind /\ maxind + 1 < Size
    BY DEF InsertChar, PutChar
  <1>2. Size \in Nat /\ i \in Nat /\ maxind \in Nat
    BY SizeType, CursorType
  <1>3. column' = i + 1
    BY <1>1, <1>2
  <1>4. ASSUME NEW y \in Columns
        PROVE  Written(cell, i, From(buffer', i), maxind + 1 - i)[y] =
                   IF i <= y /\ y <= maxind THEN buffer'[y] ELSE cell[y]
    <2>1. y \in 0 .. Size
      BY DEF Columns
    <2>2. Written(cell, i, From(buffer', i), maxind + 1 - i)[y] =
              IF i <= y /\ y < i + (maxind + 1 - i) THEN From(buffer', i)[y - i] ELSE cell[y]
      BY WrittenCell
    <2>3. CASE i <= y /\ y <= maxind
      <3>1. y - i \in 0 .. Size - 1 - i
        BY <1>1, <1>2, <2>1, <2>3
      <3>2. From(buffer', i)[y - i] = buffer'[(y - i) + i]
        BY <3>1 DEF From
      <3>3. (y - i) + i = y
        BY <1>2, <2>1
      <3> QED BY <2>2, <2>3, <3>2, <3>3, <1>2, <2>1
    <2>4. CASE ~ (i <= y /\ y <= maxind)
      BY <2>2, <2>4, <1>2, <2>1
    <2> QED BY <2>3, <2>4
  <1>0. maxind' = maxind + 1
    BY <1>1
  <1>5. cell' = Written(cell, i, From(buffer', i), maxind + 1 - i)
    <2>1. maxind' - i = maxind + 1 - i
      BY <1>0, <1>2
    <2>2. cell' = Written(cell, column, From(buffer', i), maxind' - i)
      BY <1>1
    <2> QED BY <2>1, <2>2
  <1>6. cell' = [y \in Columns |-> Written(cell, i, From(buffer', i), maxind + 1 - i)[y]]
    BY <1>5 DEF Written
  <1> QED BY <1>3, <1>4, <1>6

-----------------------------------------------------------------------------
(* Every step keeps the invariant, one lemma for each kind of step.        *)

LEMMA ReadInit == Init => ReadInv
  <1> SUFFICES ASSUME Init PROVE ReadInv
    OBVIOUS
  <1>1. " " \in Printable
    BY ReadlineAssumption
  <1>2. TypeOK
    <2>1. 0 \in Index /\ 0 \in 0 .. 0 /\ 0 \in Columns
      BY SizeType DEF Index, Columns
    <2>2. buffer \in [Index -> Printable \cup {"nul", "junk"}]
      BY DEF Init
    <2>3. cell \in [Columns -> Printable]
      BY <1>1 DEF Init, Blank
    <2> QED BY <2>1, <2>2, <2>3 DEF Init, TypeOK
  <1>3. LineTyped
    BY DEF Init, LineTyped
  <1>4. ScreenShowsLine /\ LineEnded
    BY DEF Init, ScreenShowsLine, LineEnded
  <1> QED BY <1>2, <1>3, <1>4 DEF ReadInv

LEMMA CallKeeps == ReadInv /\ Call => ReadInv'
  <1> SUFFICES ASSUME ReadInv, Call PROVE ReadInv'
    OBVIOUS
  <1>1. " " \in Printable
    BY ReadlineAssumption
  <1>2. 0 \in Index /\ 0 \in 0 .. 0 /\ 0 \in Columns
    BY SizeType DEF Index, Columns
  <1>3. /\ pc' = "key" /\ i' = 0 /\ maxind' = 0 /\ column' = 0 /\ buffer' = buffer
        /\ cell' = [y \in Columns |-> Blank]
    BY DEF Call
  <1>4. TypeOK'
    BY <1>1, <1>2, <1>3 DEF ReadInv, TypeOK, Blank
  <1>5. LineTyped' /\ LineEnded'
    BY <1>3 DEF LineTyped, LineEnded
  <1>6. ScreenShowsLine'
    BY <1>3, SizeType DEF ScreenShowsLine, Columns
  <1> QED BY <1>4, <1>5, <1>6 DEF ReadInv

LEMMA QuietKeeps == ReadInv /\ Quiet => ReadInv'
  <1> SUFFICES ASSUME ReadInv, Quiet PROVE ReadInv'
    OBVIOUS
  <1> USE DEF ReadInv, Quiet
  <1>1. TypeOK'
    BY DEF TypeOK
  <1>2. LineTyped' /\ LineEnded'
    BY DEF LineTyped, LineEnded
  <1>3. ScreenShowsLine'
    BY DEF ScreenShowsLine
  <1> QED BY <1>1, <1>2, <1>3

LEMMA ArrowKeeps == ReadInv /\ (ArrowLeft \/ ArrowRight) => ReadInv'
  <1> SUFFICES ASSUME ReadInv, ArrowLeft \/ ArrowRight PROVE ReadInv'
    OBVIOUS
  <1>1. /\ pc' = "key" /\ buffer' = buffer /\ maxind' = maxind /\ cell' = cell
        /\ pc # "done" /\ column = i
        /\ \/ i > 0 /\ i' = i - 1 /\ column' = column - 1
           \/ i < maxind /\ i' = i + 1 /\ column' = column + 1
    BY DEF ArrowLeft, ArrowRight, ReadInv, ScreenShowsLine
  <1>2. /\ i \in Nat /\ maxind \in Nat /\ i <= maxind /\ maxind <= Size - 1
    BY CursorType DEF ReadInv
  <1>3. i' \in 0 .. maxind /\ column' = i'
    BY <1>1, <1>2
  <1>4. column' \in Columns
    BY <1>2, <1>3, SizeType DEF Columns
  <1>5. TypeOK'
    BY <1>1, <1>3, <1>4 DEF ReadInv, TypeOK
  <1>6. LineTyped' /\ LineEnded'
    BY <1>1 DEF ReadInv, LineTyped, LineEnded
  <1>7. ScreenShowsLine'
    BY <1>1, <1>3 DEF ReadInv, ScreenShowsLine
  <1> QED BY <1>5, <1>6, <1>7 DEF ReadInv

LEMMA FinishKeeps == ReadInv /\ pc # "done" /\ Finish => ReadInv'
  <1> SUFFICES ASSUME ReadInv, pc # "done", Finish PROVE ReadInv'
    OBVIOUS
  <1>1. /\ pc' = "done" /\ buffer' = [buffer EXCEPT ![maxind] = "nul"]
        /\ UNCHANGED <<i, maxind, cell, column>>
    BY DEF Finish
  <1>2. maxind \in Index /\ buffer \in [Index -> Printable \cup {"nul", "junk"}]
    BY DEF ReadInv, TypeOK
  <1>3. /\ buffer' \in [Index -> Printable \cup {"nul", "junk"}]
        /\ buffer'[maxind] = "nul"
        /\ \A k \in Index : k # maxind => buffer'[k] = buffer[k]
    BY <1>1, <1>2
  <1>4. TypeOK'
    BY <1>1, <1>3 DEF ReadInv, TypeOK
  <1>5. LineTyped'
    <2>1. \A k \in 0 .. maxind - 1 : k \in Index /\ k # maxind
      BY CursorType, SizeType DEF Index, ReadInv
    <2> QED BY <1>1, <1>3, <2>1 DEF ReadInv, LineTyped
  <1>6. LineEnded'
    BY <1>1, <1>3 DEF LineEnded
  <1>7. ScreenShowsLine'
    BY <1>1 DEF ScreenShowsLine
  <1> QED BY <1>4, <1>5, <1>6, <1>7 DEF ReadInv

\* What the buffer holds after a backspace.
LEMMA EraseMoves ==
    ASSUME TypeOK, Erase(1)
    PROVE  /\ i > 0 /\ pc' = "key" /\ i' = i - 1 /\ maxind' = maxind - 1
           /\ buffer' = [k \in Index |->
                  IF i - 1 <= k /\ k < maxind THEN buffer[k + 1] ELSE buffer[k]]
           /\ \A k \in 0 .. i - 2 : buffer'[k] = buffer[k]
           /\ \A k \in i - 1 .. maxind - 2 : buffer'[k] = buffer[k + 1]
  <1>1. /\ i > 0 /\ pc' = "key" /\ i' = i - 1 /\ maxind' = maxind - 1
        /\ buffer' = [k \in Index |->
                IF i - 1 <= k /\ k < maxind THEN buffer[k + 1] ELSE buffer[k]]
    BY DEF Erase
  <1>2. /\ i \in Nat /\ maxind \in Nat /\ i <= maxind /\ maxind <= Size - 1
    BY CursorType
  <1>3. ASSUME NEW k \in 0 .. i - 2 PROVE buffer'[k] = buffer[k]
    <2>1. k \in Index /\ ~ (i - 1 <= k)
      BY <1>1, <1>2, SizeType DEF Index
    <2> QED BY <1>1, <2>1
  <1>4. ASSUME NEW k \in i - 1 .. maxind - 2 PROVE buffer'[k] = buffer[k + 1]
    <2>1. k \in Index /\ i - 1 <= k /\ k < maxind
      BY <1>1, <1>2, SizeType DEF Index
    <2> QED BY <1>1, <2>1
  <1> QED BY <1>1, <1>3, <1>4

LEMMA EraseKeeps == ReadInv /\ pc # "done" /\ Erase(1) => ReadInv'
  <1> SUFFICES ASSUME ReadInv, pc # "done", Erase(1) PROVE ReadInv'
    OBVIOUS
  <1>0. TypeOK /\ column = i
    BY DEF ReadInv, ScreenShowsLine
  <1>1. /\ i \in Nat /\ maxind \in Nat /\ i <= maxind /\ maxind <= Size - 1 /\ Size \in Nat
    BY <1>0, CursorType, SizeType
  <1>2. /\ i > 0 /\ pc' = "key" /\ i' = i - 1 /\ maxind' = maxind - 1
        /\ buffer' = [k \in Index |->
               IF i - 1 <= k /\ k < maxind THEN buffer[k + 1] ELSE buffer[k]]
        /\ \A k \in 0 .. i - 2 : buffer'[k] = buffer[k]
        /\ \A k \in i - 1 .. maxind - 2 : buffer'[k] = buffer[k + 1]
    BY <1>0, EraseMoves
  <1>3. /\ cell' = [y \in Columns |->
                       IF y = maxind - 1 THEN Blank
                       ELSE IF i - 1 <= y /\ y < maxind - 1 THEN buffer'[y]
                       ELSE cell[y]]
        /\ column' = i - 1
    BY <1>0, EraseDraws
  <1>4. LineTyped'
    <2>1. ASSUME NEW k \in 0 .. maxind - 2 PROVE buffer'[k] \in Printable
      <3>1. CASE k <= i - 2
        BY <1>1, <1>2, <3>1 DEF ReadInv, LineTyped
      <3>2. CASE k > i - 2
        <4>1. k \in i - 1 .. maxind - 2 /\ k + 1 \in 0 .. maxind - 1
          BY <1>1, <1>2, <3>2
        <4> QED BY <1>2, <4>1 DEF ReadInv, LineTyped
      <3> QED BY <1>1, <3>1, <3>2
    <2>2. maxind' - 1 = maxind - 2
      BY <1>1, <1>2
    <2> QED BY <2>1, <2>2 DEF LineTyped
  <1>5. TypeOK'
    <2>1. maxind' \in Index /\ i' \in 0 .. maxind' /\ column' \in Columns
      BY <1>1, <1>2, <1>3 DEF Index, Columns
    <2>2. buffer' \in [Index -> Printable \cup {"nul", "junk"}]
      <3>1. ASSUME NEW k \in Index, i - 1 <= k, k < maxind PROVE k + 1 \in Index
        BY <1>1, <3>1 DEF Index
      <3>2. buffer \in [Index -> Printable \cup {"nul", "junk"}]
        BY <1>0 DEF TypeOK
      <3>3. ASSUME NEW k \in Index
            PROVE  (IF i - 1 <= k /\ k < maxind THEN buffer[k + 1] ELSE buffer[k])
                       \in Printable \cup {"nul", "junk"}
        BY <3>1, <3>2
      <3> QED BY <1>2, <3>3
    <2>3. cell' \in [Columns -> Printable]
      <3>1. Blank \in Printable
        BY ReadlineAssumption DEF Blank
      <3>2. \A y \in Columns : i - 1 <= y /\ y < maxind - 1 => buffer'[y] \in Printable
        BY <1>1, <1>2, <1>4 DEF Columns, LineTyped
      <3>3. \A y \in Columns : cell[y] \in Printable
        BY <1>0 DEF TypeOK
      <3> QED BY <1>3, <3>1, <3>2, <3>3
    <2> QED BY <1>2, <2>1, <2>2, <2>3 DEF TypeOK
  <1>6. ScreenShowsLine'
    <2>1. ASSUME NEW k \in 0 .. maxind' - 1 PROVE cell'[k] = buffer'[k]
      <3>1. k \in Columns /\ k # maxind - 1 /\ k < maxind - 1 /\ k \in 0 .. maxind - 1
        BY <1>1, <1>2 DEF Columns
      <3>2. CASE i - 1 <= k
        BY <1>3, <3>1, <3>2
      <3>3. CASE ~ (i - 1 <= k)
        <4>1. cell'[k] = cell[k]
          BY <1>3, <3>1, <3>3
        <4>2. cell[k] = buffer[k]
          BY <3>1 DEF ReadInv, ScreenShowsLine
        <4>3. k \in 0 .. i - 2
          BY <1>1, <3>1, <3>3
        <4> QED BY <1>2, <4>1, <4>2, <4>3
      <3> QED BY <3>2, <3>3
    <2>2. ASSUME NEW k \in maxind' .. Size PROVE cell'[k] = Blank
      <3>1. k \in Columns /\ ~ (k < maxind - 1)
        BY <1>1, <1>2 DEF Columns
      <3>2. CASE k = maxind - 1
        BY <1>3, <3>1, <3>2
      <3>3. CASE k # maxind - 1
        <4>1. cell'[k] = cell[k]
          BY <1>3, <3>1, <3>3
        <4>2. k \in maxind .. Size
          BY <1>1, <1>2, <3>3
        <4> QED BY <4>1, <4>2 DEF ReadInv, ScreenShowsLine
      <3> QED BY <3>2, <3>3
    <2> QED BY <1>2, <1>3, <2>1, <2>2 DEF ScreenShowsLine
  <1>7. LineEnded'
    BY <1>2 DEF LineEnded
  <1> QED BY <1>4, <1>5, <1>6, <1>7 DEF ReadInv

\* What the buffer holds after a character.
LEMMA AppendMoves ==
    ASSUME TypeOK, NEW c, AppendChar(c)
    PROVE  /\ i < Size - 1 /\ i = maxind /\ pc' = "key" /\ i' = i + 1 /\ maxind' = maxind + 1
           /\ buffer' = [buffer EXCEPT ![i] = c]
           /\ cell' = [cell EXCEPT ![column] = c] /\ column' = column + 1
           /\ \A k \in 0 .. maxind - 1 : buffer'[k] = buffer[k]
           /\ buffer'[maxind] = c
  <1>1. /\ i < Size - 1 /\ i = maxind /\ pc' = "key" /\ i' = i + 1 /\ maxind' = maxind + 1
        /\ buffer' = [buffer EXCEPT ![i] = c]
        /\ cell' = [cell EXCEPT ![column] = c] /\ column' = column + 1
    BY DEF AppendChar, AddChar
  <1>2. /\ i \in Nat /\ maxind \in Nat /\ i <= maxind /\ maxind <= Size - 1
    BY CursorType
  <1>3. maxind \in Index /\ \A k \in 0 .. maxind - 1 : k \in Index /\ k # maxind
    BY <1>2, SizeType DEF Index
  <1>4. buffer \in [Index -> Printable \cup {"nul", "junk"}]
    BY DEF TypeOK
  <1>5. buffer'[maxind] = c /\ \A k \in 0 .. maxind - 1 : buffer'[k] = buffer[k]
    BY <1>1, <1>3, <1>4
  <1> QED BY <1>1, <1>5

LEMMA AppendKeeps ==
    ASSUME ReadInv, pc # "done", NEW c \in Printable, AppendChar(c)
    PROVE  ReadInv'
  <1>0. TypeOK /\ column = i
    BY DEF ReadInv, ScreenShowsLine
  <1>1. /\ i \in Nat /\ maxind \in Nat /\ i <= maxind /\ maxind <= Size - 1 /\ Size \in Nat
    BY <1>0, CursorType, SizeType
  <1>2. /\ i < Size - 1 /\ i = maxind /\ pc' = "key" /\ i' = i + 1 /\ maxind' = maxind + 1
        /\ buffer' = [buffer EXCEPT ![i] = c]
        /\ cell' = [cell EXCEPT ![column] = c] /\ column' = column + 1
        /\ \A k \in 0 .. maxind - 1 : buffer'[k] = buffer[k]
        /\ buffer'[maxind] = c
    BY <1>0, AppendMoves
  <1>3. /\ cell \in [Columns -> Printable]
        /\ buffer \in [Index -> Printable \cup {"nul", "junk"}]
    BY <1>0 DEF TypeOK
  <1>4. i \in Columns /\ i' \in Columns /\ maxind' \in Index /\ i' \in 0 .. maxind'
    BY <1>1, <1>2 DEF Columns, Index
  <1>5. /\ cell' \in [Columns -> Printable] /\ cell'[maxind] = c
        /\ \A y \in Columns : y # maxind => cell'[y] = cell[y]
    BY <1>0, <1>2, <1>3, <1>4
  <1>6. TypeOK'
    BY <1>0, <1>2, <1>3, <1>4, <1>5 DEF TypeOK
  <1>7. LineTyped'
    <2>1. \A k \in 0 .. maxind' - 1 : k \in 0 .. maxind - 1 \/ k = maxind
      BY <1>1, <1>2
    <2> QED BY <1>2, <2>1 DEF ReadInv, LineTyped
  <1>8. ScreenShowsLine'
    <2>1. ASSUME NEW k \in 0 .. maxind' - 1 PROVE cell'[k] = buffer'[k]
      <3>1. CASE k = maxind
        BY <1>2, <1>5, <3>1
      <3>2. CASE k # maxind
        <4>1. k \in 0 .. maxind - 1 /\ k \in Columns
          BY <1>1, <1>2, <3>2 DEF Columns
        <4> QED BY <1>2, <1>5, <3>2, <4>1 DEF ReadInv, ScreenShowsLine
      <3> QED BY <3>1, <3>2
    <2>2. ASSUME NEW k \in maxind' .. Size PROVE cell'[k] = Blank
      <3>1. k \in maxind .. Size /\ k \in Columns /\ k # maxind
        BY <1>1, <1>2 DEF Columns
      <3> QED BY <1>5, <3>1 DEF ReadInv, ScreenShowsLine
    <2> QED BY <1>0, <1>2, <2>1, <2>2 DEF ScreenShowsLine
  <1>9. LineEnded'
    BY <1>2 DEF LineEnded
  <1> QED BY <1>6, <1>7, <1>8, <1>9 DEF ReadInv

LEMMA InsertMoves ==
    ASSUME TypeOK, NEW c, InsertChar(c)
    PROVE  /\ i < maxind /\ maxind + 1 < Size /\ pc' = "key"
           /\ i' = i + 1 /\ maxind' = maxind + 1
           /\ buffer' = [k \in Index |-> buffer'[k]]
           /\ \A k \in 0 .. i - 1 : buffer'[k] = buffer[k]
           /\ buffer'[i] = c
           /\ \A k \in i + 1 .. maxind + 1 : buffer'[k] = buffer[k - 1]
           /\ \A k \in maxind + 2 .. Size - 1 : buffer'[k] = buffer[k]
  <1> DEFINE rest == [k \in 1 .. Size - 1 |-> buffer[k - 1]]
  <1>1. /\ i < maxind /\ maxind + 1 < Size /\ pc' = "key"
        /\ i' = i + 1 /\ maxind' = maxind + 1
        /\ buffer' = [k \in Index |-> IF i < k /\ k <= maxind' THEN rest[k]
                                     ELSE IF k = i THEN c ELSE buffer[k]]
    BY DEF InsertChar, PutChar
  <1>2. i \in Nat /\ maxind \in Nat /\ Size \in Nat
    BY CursorType, SizeType
  <1>3. \A k \in 1 .. Size - 1 : rest[k] = buffer[k - 1]
    OBVIOUS
  <1> HIDE DEF rest
  <1>4. ASSUME NEW k \in 0 .. i - 1 PROVE buffer'[k] = buffer[k]
    <2>1. k \in Index /\ ~ (i < k) /\ k # i
      BY <1>1, <1>2 DEF Index
    <2> QED BY <1>1, <2>1
  <1>5. buffer'[i] = c
    <2>1. i \in Index /\ ~ (i < i)
      BY <1>1, <1>2 DEF Index
    <2> QED BY <1>1, <2>1
  <1>6. ASSUME NEW k \in i + 1 .. maxind + 1 PROVE buffer'[k] = buffer[k - 1]
    <2>1. k \in Index /\ i < k /\ k <= maxind' /\ k \in 1 .. Size - 1
      BY <1>1, <1>2 DEF Index
    <2>2. buffer'[k] = rest[k]
      BY <1>1, <2>1
    <2> QED BY <1>3, <2>1, <2>2
  <1>7. ASSUME NEW k \in maxind + 2 .. Size - 1 PROVE buffer'[k] = buffer[k]
    <2>1. k \in Index /\ ~ (k <= maxind') /\ k # i
      BY <1>1, <1>2 DEF Index
    <2> QED BY <1>1, <2>1
  <1>8. buffer' = [k \in Index |-> buffer'[k]]
    BY <1>1
  <1> QED BY <1>1, <1>4, <1>5, <1>6, <1>7, <1>8

LEMMA InsertKeeps ==
    ASSUME ReadInv, pc # "done", NEW c \in Printable, InsertChar(c)
    PROVE  ReadInv'
  <1>0. TypeOK /\ column = i
    BY DEF ReadInv, ScreenShowsLine
  <1>1. /\ i \in Nat /\ maxind \in Nat /\ i <= maxind /\ maxind <= Size - 1 /\ Size \in Nat
    BY <1>0, CursorType, SizeType
  <1>2. /\ i < maxind /\ maxind + 1 < Size /\ pc' = "key"
        /\ i' = i + 1 /\ maxind' = maxind + 1
        /\ buffer' = [k \in Index |-> buffer'[k]]
        /\ \A k \in 0 .. i - 1 : buffer'[k] = buffer[k]
        /\ buffer'[i] = c
        /\ \A k \in i + 1 .. maxind + 1 : buffer'[k] = buffer[k - 1]
        /\ \A k \in maxind + 2 .. Size - 1 : buffer'[k] = buffer[k]
    BY <1>0, InsertMoves
  <1>3. /\ cell' = [y \in Columns |->
                       IF i <= y /\ y <= maxind THEN buffer'[y] ELSE cell[y]]
        /\ column' = i + 1
    BY <1>0, InsertDraws
  <1>4. /\ cell \in [Columns -> Printable]
        /\ buffer \in [Index -> Printable \cup {"nul", "junk"}]
    BY <1>0 DEF TypeOK
  <1>5. LineTyped'
    <2>1. ASSUME NEW k \in 0 .. maxind PROVE buffer'[k] \in Printable
      <3>1. CASE k \in 0 .. i - 1
        BY <1>1, <1>2, <3>1 DEF ReadInv, LineTyped
      <3>2. CASE k = i
        BY <1>2, <3>2
      <3>3. CASE k \in i + 1 .. maxind
        <4>1. k \in i + 1 .. maxind + 1 /\ k - 1 \in 0 .. maxind - 1
          BY <1>1, <3>3
        <4> QED BY <1>2, <4>1 DEF ReadInv, LineTyped
      <3> QED BY <1>1, <3>1, <3>2, <3>3
    <2>2. maxind' - 1 = maxind
      BY <1>1, <1>2
    <2> QED BY <2>1, <2>2 DEF LineTyped
  <1>6. TypeOK'
    <2>1. maxind' \in Index /\ i' \in 0 .. maxind' /\ column' \in Columns
      BY <1>1, <1>2, <1>3 DEF Index, Columns
    <2>2. ASSUME NEW k \in Index PROVE buffer'[k] \in Printable \cup {"nul", "junk"}
      <3>1. CASE k \in 0 .. i - 1
        BY <1>2, <1>4, <3>1
      <3>2. CASE k = i
        BY <1>2, <3>2
      <3>3. CASE k \in i + 1 .. maxind + 1
        <4>1. k - 1 \in Index
          BY <1>1, <1>2, <3>3 DEF Index
        <4> QED BY <1>2, <1>4, <3>3, <4>1
      <3>4. CASE k \in maxind + 2 .. Size - 1
        BY <1>2, <1>4, <3>4
      <3> QED BY <1>1, <1>2, <3>1, <3>2, <3>3, <3>4 DEF Index
    <2>3. buffer' \in [Index -> Printable \cup {"nul", "junk"}]
      BY <1>2, <2>2
    <2>4. cell' \in [Columns -> Printable]
      <3>1. \A y \in Columns : i <= y /\ y <= maxind => buffer'[y] \in Printable
        BY <1>1, <1>2, <1>5 DEF Columns, LineTyped
      <3> QED BY <1>3, <1>4, <3>1
    <2> QED BY <1>2, <2>1, <2>3, <2>4 DEF TypeOK
  <1>7. ScreenShowsLine'
    <2>1. ASSUME NEW k \in 0 .. maxind' - 1 PROVE cell'[k] = buffer'[k]
      <3>1. k \in Columns /\ k <= maxind
        BY <1>1, <1>2 DEF Columns
      <3>2. CASE i <= k
        BY <1>3, <3>1, <3>2
      <3>3. CASE ~ (i <= k)
        <4>1. cell'[k] = cell[k]
          BY <1>3, <3>1, <3>3
        <4>2. k \in 0 .. i - 1 /\ k \in 0 .. maxind - 1
          BY <1>1, <1>2, <3>3
        <4> QED BY <1>2, <4>1, <4>2 DEF ReadInv, ScreenShowsLine
      <3> QED BY <3>2, <3>3
    <2>2. ASSUME NEW k \in maxind' .. Size PROVE cell'[k] = Blank
      <3>1. k \in Columns /\ ~ (k <= maxind) /\ k \in maxind .. Size
        BY <1>1, <1>2 DEF Columns
      <3> QED BY <1>3, <3>1 DEF ReadInv, ScreenShowsLine
    <2> QED BY <1>2, <1>3, <2>1, <2>2 DEF ScreenShowsLine
  <1>8. LineEnded'
    BY <1>2 DEF LineEnded
  <1> QED BY <1>5, <1>6, <1>7, <1>8 DEF ReadInv

LEMMA ReadStep == ReadInv /\ [Next]_vars => ReadInv'
  <1> SUFFICES ASSUME ReadInv, [Next]_vars PROVE ReadInv'
    OBVIOUS
  <1>1. CASE UNCHANGED vars
    BY <1>1 DEF vars, ReadInv, TypeOK, LineTyped, ScreenShowsLine, LineEnded
  <1>2. CASE Call
    BY <1>2, CallKeeps
  <1>3. CASE Edit
    BY <1>3, QuietKeeps, ArrowKeeps, FinishKeeps, EraseKeeps, AppendKeeps, InsertKeeps
       DEF Edit
  <1> QED BY <1>1, <1>2, <1>3, NextCases

\* After every byte the buffer holds the line, ended where it is returned, and
\* the screen shows it with the cursor in its place (readline.c:33-139).
THEOREM InvariantTheorem == Spec => []ReadInv
  BY ReadInit, ReadStep, PTL DEF Spec

\* The cursor and the length stay inside the buffer, and the buffer and the
\* screen hold characters, for every size of the buffer.
THEOREM TypeTheorem == Spec => []TypeOK
  <1>1. ReadInv => TypeOK
    BY DEF ReadInv
  <1> QED BY <1>1, InvariantTheorem, PTL

\* Between two keys the terminal shows the line being edited and nothing else,
\* with its cursor where the next character goes.
THEOREM ScreenTheorem == Spec => []ScreenShowsLine
  <1>1. ReadInv => ScreenShowsLine
    BY DEF ReadInv
  <1> QED BY <1>1, InvariantTheorem, PTL

\* The caller gets back a string of the returned length, ended inside its
\* buffer.
THEOREM StringTheorem == Spec => []ReturnsString
  <1>1. ReadInv => ReturnsString
    BY DEF ReadInv, ReturnsString, LineTyped, LineEnded
  <1> QED BY <1>1, InvariantTheorem, PTL

-----------------------------------------------------------------------------
(* readline implements LineEditor.  The line on both sides of the cursor   *)
(* is a slice of the buffer.                                               *)

Slice(b, from, to) == [k \in 1 .. to - from |-> b[from + k - 1]]

LEMMA SliceSeq ==
    ASSUME NEW b, NEW from \in Nat, NEW to \in Nat, from <= to,
           \A k \in from .. to - 1 : b[k] \in Printable
    PROVE  /\ Slice(b, from, to) \in Seq(Printable)
           /\ Len(Slice(b, from, to)) = to - from
           /\ \A k \in 1 .. to - from : Slice(b, from, to)[k] = b[from + k - 1]
  <1> DEFINE n == to - from
             s == [k \in 1 .. n |-> b[from + k - 1]]
  <1>1. n \in Nat
    OBVIOUS
  <1>2. ASSUME NEW k \in 1 .. n PROVE b[from + k - 1] \in Printable
    <2>1. from + k - 1 \in from .. to - 1
      OBVIOUS
    <2> QED BY <2>1
  <1>3. Slice(b, from, to) = s
    BY DEF Slice
  <1> HIDE DEF n
  <1>4. s \in Seq(Printable) /\ Len(s) = n /\ \A k \in 1 .. n : s[k] = b[from + k - 1]
    BY <1>1, <1>2
  <1> QED BY <1>3, <1>4 DEF n

\* Two slices of the same length with the same characters.
LEMMA SliceEqual ==
    ASSUME NEW b, NEW d, NEW from \in Nat, NEW to \in Nat, from <= to, NEW shift \in Int,
           \A k \in from .. to - 1 : d[k + shift] = b[k]
    PROVE  Slice(d, from + shift, to + shift) = Slice(b, from, to)
  <1>1. (to + shift) - (from + shift) = to - from
    OBVIOUS
  <1>2. ASSUME NEW k \in 1 .. to - from PROVE d[from + shift + k - 1] = b[from + k - 1]
    <2>1. from + k - 1 \in from .. to - 1 /\ from + shift + k - 1 = (from + k - 1) + shift
      OBVIOUS
    <2> QED BY <2>1
  <1> QED BY <1>1, <1>2 DEF Slice

LEMMA SliceSame ==
    ASSUME NEW b, NEW d, NEW from \in Nat, NEW to \in Nat, from <= to,
           \A k \in from .. to - 1 : d[k] = b[k]
    PROVE  Slice(d, from, to) = Slice(b, from, to)
  <1>1. ASSUME NEW k \in 1 .. to - from PROVE d[from + k - 1] = b[from + k - 1]
    <2>1. from + k - 1 \in from .. to - 1
      OBVIOUS
    <2> QED BY <2>1
  <1> QED BY <1>1 DEF Slice

LEMMA SliceEmpty == ASSUME NEW b, NEW from \in Nat PROVE Slice(b, from, from) = <<>>
  <1>1. 1 .. from - from = {}
    OBVIOUS
  <1> QED BY <1>1 DEF Slice

\* One character more at the right end.
LEMMA SliceAppend ==
    ASSUME NEW b, NEW d, NEW to \in Nat,
           \A k \in 0 .. to - 1 : b[k] \in Printable /\ d[k] = b[k], d[to] \in Printable
    PROVE  Slice(d, 0, to + 1) = Append(Slice(b, 0, to), d[to])
  <1> DEFINE s == Slice(b, 0, to)
             t == Slice(d, 0, to + 1)
  <1>1. s \in Seq(Printable) /\ Len(s) = to /\ \A k \in 1 .. to : s[k] = b[k - 1]
    BY SliceSeq
  <1>2. \A k \in 0 .. to : d[k] \in Printable
    OBVIOUS
  <1>3. t \in Seq(Printable) /\ Len(t) = to + 1 /\ \A k \in 1 .. to + 1 : t[k] = d[k - 1]
    BY <1>2, SliceSeq
  <1> HIDE DEF s, t
  <1>4. /\ Append(s, d[to]) \in Seq(Printable) /\ Len(Append(s, d[to])) = to + 1
        /\ \A k \in 1 .. to : Append(s, d[to])[k] = s[k]
        /\ Append(s, d[to])[to + 1] = d[to]
    BY <1>1, AppendProperties
  <1>5. ASSUME NEW k \in 1 .. to + 1 PROVE t[k] = Append(s, d[to])[k]
    <2>1. CASE k = to + 1
      BY <1>3, <1>4, <2>1
    <2>2. CASE k # to + 1
      <3>1. k \in 1 .. to /\ k - 1 \in 0 .. to - 1
        BY <2>2
      <3> QED BY <1>1, <1>3, <1>4, <3>1
    <2> QED BY <2>1, <2>2
  <1>6. t = Append(s, d[to])
    BY <1>3, <1>4, <1>5, SeqEqual
  <1> QED BY <1>6 DEF s, t

\* One character less at the right end.
LEMMA SliceFront ==
    ASSUME NEW b, NEW d, NEW to \in Nat, to > 0,
           \A k \in 0 .. to - 1 : b[k] \in Printable,
           \A k \in 0 .. to - 2 : d[k] = b[k]
    PROVE  /\ Slice(b, 0, to) # <<>>
           /\ Slice(d, 0, to - 1) = SubSeq(Slice(b, 0, to), 1, Len(Slice(b, 0, to)) - 1)
           /\ Slice(b, 0, to)[Len(Slice(b, 0, to))] = b[to - 1]
  <1> DEFINE s == Slice(b, 0, to)
             t == Slice(d, 0, to - 1)
  <1>1. s \in Seq(Printable) /\ Len(s) = to /\ \A k \in 1 .. to : s[k] = b[k - 1]
    BY SliceSeq
  <1>2. /\ t \in Seq(Printable) /\ Len(t) = to - 1
        /\ \A k \in 1 .. to - 1 : t[k] = d[k - 1]
    <2>1. to - 1 \in Nat /\ \A k \in 0 .. (to - 1) - 1 : d[k] \in Printable
      OBVIOUS
    <2> QED BY <2>1, SliceSeq
  <1> HIDE DEF s, t
  <1>3. s # <<>> /\ s[Len(s)] = b[to - 1]
    BY <1>1
  <1>4. /\ SubSeq(s, 1, to - 1) \in Seq(Printable) /\ Len(SubSeq(s, 1, to - 1)) = to - 1
        /\ \A k \in 1 .. to - 1 : SubSeq(s, 1, to - 1)[k] = s[k]
    BY <1>1
  <1>5. ASSUME NEW k \in 1 .. to - 1 PROVE t[k] = SubSeq(s, 1, to - 1)[k]
    <2>1. k \in 1 .. to /\ k - 1 \in 0 .. to - 2
      OBVIOUS
    <2> QED BY <1>1, <1>2, <1>4, <2>1
  <1>6. t = SubSeq(s, 1, to - 1)
    BY <1>2, <1>4, <1>5, SeqEqual
  <1> QED BY <1>1, <1>3, <1>6 DEF s, t

\* The character at the left end.
LEMMA SliceHead ==
    ASSUME NEW b, NEW from \in Nat, NEW to \in Nat, from < to,
           \A k \in from .. to - 1 : b[k] \in Printable
    PROVE  /\ Slice(b, from, to) # <<>>
           /\ Head(Slice(b, from, to)) = b[from]
           /\ Tail(Slice(b, from, to)) = Slice(b, from + 1, to)
           /\ Slice(b, from, to) = <<b[from]>> \o Slice(b, from + 1, to)
  <1> DEFINE s == Slice(b, from, to)
             t == Slice(b, from + 1, to)
  <1>1. /\ s \in Seq(Printable) /\ Len(s) = to - from
        /\ \A k \in 1 .. to - from : s[k] = b[from + k - 1]
    BY SliceSeq
  <1>2. /\ t \in Seq(Printable) /\ Len(t) = to - (from + 1)
        /\ \A k \in 1 .. to - (from + 1) : t[k] = b[(from + 1) + k - 1]
    <2>1. from + 1 \in Nat /\ from + 1 <= to /\ \A k \in from + 1 .. to - 1 : b[k] \in Printable
      OBVIOUS
    <2> QED BY <2>1, SliceSeq
  <1> HIDE DEF s, t
  <1>3. s # <<>> /\ Head(s) = s[1]
    BY <1>1
  <1>4. s[1] = b[from]
    <2>1. 1 \in 1 .. to - from /\ from + 1 - 1 = from
      OBVIOUS
    <2> QED BY <1>1, <2>1
  <1>5. \A k \in 1 .. Len(t) : t[k] = s[k + 1]
    <2>1. ASSUME NEW k \in 1 .. to - (from + 1) PROVE t[k] = s[k + 1]
      <3>1. k + 1 \in 1 .. to - from /\ (from + 1) + k - 1 = from + (k + 1) - 1
        OBVIOUS
      <3> QED BY <1>1, <1>2, <3>1
    <2> QED BY <1>2, <2>1
  <1>6. Tail(s) = t
    <2>1. /\ Tail(s) \in Seq(Printable) /\ Len(Tail(s)) = Len(t)
          /\ \A k \in 1 .. Len(t) : Tail(s)[k] = s[k + 1]
      BY <1>1, <1>2, <1>3, HeadTailProperties
    <2> QED BY <1>2, <1>5, <2>1, SeqEqual
  <1>7. s = <<b[from]>> \o t
    <2>1. <<b[from]>> \in Seq(Printable) /\ Len(<<b[from]>>) = 1 /\ <<b[from]>>[1] = b[from]
      <3>1. b[from] \in Printable
        OBVIOUS
      <3> QED BY <3>1
    <2> DEFINE h == <<b[from]>>
    <2> HIDE DEF h
    <2>2. h \in Seq(Printable) /\ Len(h) = 1 /\ h[1] = b[from]
      BY <2>1 DEF h
    <2>7. /\ h \o t \in Seq(Printable) /\ Len(h \o t) = Len(h) + Len(t)
          /\ \A k \in 1 .. Len(h) + Len(t) :
                 (h \o t)[k] = IF k <= Len(h) THEN h[k] ELSE t[k - Len(h)]
      BY <1>2, <2>2, ConcatProperties, Zenon
    <2>3. /\ h \o t \in Seq(Printable) /\ Len(h \o t) = 1 + Len(t)
          /\ \A k \in 1 .. 1 + Len(t) : (h \o t)[k] = IF k <= 1 THEN h[k] ELSE t[k - 1]
      BY <2>2, <2>7
    <2>4. ASSUME NEW k \in 1 .. Len(s) PROVE s[k] = (h \o t)[k]
      <3>1. k \in 1 .. 1 + Len(t) /\ k \in Int
        BY <1>1, <1>2
      <3>2. CASE k = 1
        BY <1>4, <2>2, <2>3, <3>1, <3>2
      <3>3. CASE k # 1
        <4>1. k - 1 \in 1 .. Len(t) /\ ~ (k <= 1) /\ (k - 1) + 1 = k
          BY <1>1, <1>2, <3>3
        <4> QED BY <1>5, <2>3, <3>1, <4>1
      <3> QED BY <3>2, <3>3
    <2>5. Len(s) = Len(h \o t)
      BY <1>1, <1>2, <2>3
    <2>6. s = h \o t
      BY <1>1, <2>3, <2>4, <2>5, SeqEqual
    <2> QED BY <2>6 DEF h
  <1> QED BY <1>3, <1>4, <1>6, <1>7 DEF s, t

\* Two neighbouring slices.
LEMMA SliceJoin ==
    ASSUME NEW b, NEW mid \in Nat, NEW to \in Nat, mid <= to,
           \A k \in 0 .. to - 1 : b[k] \in Printable
    PROVE  Slice(b, 0, to) = Slice(b, 0, mid) \o Slice(b, mid, to)
  <1> DEFINE s == Slice(b, 0, mid)
             t == Slice(b, mid, to)
             u == Slice(b, 0, to)
  <1>1. s \in Seq(Printable) /\ Len(s) = mid /\ \A k \in 1 .. mid : s[k] = b[k - 1]
    BY SliceSeq
  <1>2. /\ t \in Seq(Printable) /\ Len(t) = to - mid
        /\ \A k \in 1 .. to - mid : t[k] = b[mid + k - 1]
    BY SliceSeq
  <1>3. u \in Seq(Printable) /\ Len(u) = to /\ \A k \in 1 .. to : u[k] = b[k - 1]
    BY SliceSeq
  <1> HIDE DEF s, t, u
  <1>4. /\ s \o t \in Seq(Printable) /\ Len(s \o t) = Len(s) + Len(t)
        /\ \A k \in 1 .. Len(s) + Len(t) :
               (s \o t)[k] = IF k <= Len(s) THEN s[k] ELSE t[k - Len(s)]
    BY <1>1, <1>2, ConcatProperties
  <1>5. ASSUME NEW k \in 1 .. to PROVE u[k] = (s \o t)[k]
    <2>1. (s \o t)[k] = IF k <= mid THEN s[k] ELSE t[k - mid]
      BY <1>1, <1>2, <1>4
    <2>2. CASE k <= mid
      BY <1>1, <1>3, <2>1, <2>2
    <2>3. CASE ~ (k <= mid)
      <3>1. k - mid \in 1 .. to - mid /\ mid + (k - mid) - 1 = k - 1
        BY <2>3
      <3>2. t[k - mid] = b[mid + (k - mid) - 1]
        BY <1>2, <3>1
      <3> QED BY <1>3, <2>1, <2>3, <3>1, <3>2
    <2> QED BY <2>2, <2>3
  <1>6. u = s \o t
    <2>1. Len(u) = to /\ Len(s \o t) = to
      BY <1>1, <1>2, <1>3, <1>4
    <2>2. \A k \in 1 .. Len(u) : u[k] = (s \o t)[k]
      BY <1>5, <2>1
    <2> QED BY <1>3, <1>4, <2>1, <2>2, SeqEqual, Zenon
  <1> QED BY <1>6 DEF s, t, u

-----------------------------------------------------------------------------
(* Each edit is a step of LineEditor or a stutter.                         *)

LEMMA TakenSlice == \A from, to : Taken(from, to) = Slice(buffer, from, to)
  BY DEF Taken, Slice

LEMMA TakenSliceNext ==
    /\ Taken(0, i)' = Slice(buffer', 0, i')
    /\ Taken(i, maxind)' = Slice(buffer', i', maxind')
    /\ Taken(0, maxind)' = Slice(buffer', 0, maxind')
  BY DEF Taken, Slice

\* The abstract variables, before and after the step.
LEMMA EditorVars ==
    /\ Taken(0, i) = Slice(buffer, 0, i)
    /\ Taken(i, maxind) = Slice(buffer, i, maxind)
    /\ Taken(0, maxind) = Slice(buffer, 0, maxind)
    /\ Taken(0, i)' = Slice(buffer', 0, i')
    /\ Taken(i, maxind)' = Slice(buffer', i', maxind')
    /\ Taken(0, maxind)' = Slice(buffer', 0, maxind')
  BY TakenSlice, TakenSliceNext

LEMMA SplitTyped ==
    ASSUME ReadInv
    PROVE  /\ i \in Nat /\ maxind \in Nat /\ i <= maxind
           /\ \A k \in 0 .. i - 1 : buffer[k] \in Printable
           /\ \A k \in i .. maxind - 1 : buffer[k] \in Printable
           /\ \A k \in 0 .. maxind - 1 : buffer[k] \in Printable
  BY CursorType DEF ReadInv, LineTyped

LEMMA QuietStutters ==
    ASSUME ReadInv, Quiet
    PROVE  UNCHANGED Editor!vars
  BY DEF Quiet, Editor!vars, Taken

LEMMA CallBegins ==
    ASSUME ReadInv, Call
    PROVE  Editor!Begin
  <1>1. /\ pc' = "key" /\ i' = 0 /\ maxind' = 0
    BY DEF Call
  <1>2. Slice(buffer', 0, 0) = <<>>
    BY SliceEmpty
  <1> QED BY <1>1, <1>2, EditorVars DEF Editor!Begin

LEMMA FinishEnters ==
    ASSUME ReadInv, pc # "done", Finish
    PROVE  Editor!Enter
  <1>1. /\ pc' = "done" /\ i' = i /\ maxind' = maxind
        /\ buffer' = [buffer EXCEPT ![maxind] = "nul"]
    BY DEF Finish
  <1>2. buffer \in [Index -> Printable \cup {"nul", "junk"}] /\ maxind \in Index
    BY DEF ReadInv, TypeOK
  <1>3. i \in Nat /\ maxind \in Nat /\ i <= maxind /\ maxind <= Size - 1
    BY CursorType DEF ReadInv
  <1>4. \A k \in 0 .. maxind - 1 : buffer'[k] = buffer[k]
    <2>1. ASSUME NEW k \in 0 .. maxind - 1 PROVE buffer'[k] = buffer[k]
      <3>1. k \in Index /\ k # maxind
        BY <1>3, SizeType DEF Index
      <3> QED BY <1>1, <1>2, <3>1
    <2> QED BY <2>1
  <1>5. /\ Slice(buffer', 0, i) = Slice(buffer, 0, i)
        /\ Slice(buffer', i, maxind) = Slice(buffer, i, maxind)
        /\ Slice(buffer', 0, maxind) = Slice(buffer, 0, maxind)
    <2>1. \A k \in 0 .. i - 1 : buffer'[k] = buffer[k]
      BY <1>3, <1>4
    <2>2. \A k \in i .. maxind - 1 : buffer'[k] = buffer[k]
      BY <1>3, <1>4
    <2>3. 0 \in Nat /\ 0 <= i /\ 0 <= maxind
      BY <1>3
    <2> QED BY <1>3, <1>4, <2>1, <2>2, <2>3, SliceSame
  <1>6. Slice(buffer, 0, maxind) = Slice(buffer, 0, i) \o Slice(buffer, i, maxind)
    BY SplitTyped, SliceJoin
  <1> QED BY <1>1, <1>5, <1>6, EditorVars DEF Editor!Enter

LEMMA EraseDeletes ==
    ASSUME ReadInv, pc # "done", Erase(1)
    PROVE  Editor!Delete
  <1>1. /\ i > 0 /\ pc' = "key" /\ i' = i - 1 /\ maxind' = maxind - 1
        /\ \A k \in 0 .. i - 2 : buffer'[k] = buffer[k]
        /\ \A k \in i - 1 .. maxind - 2 : buffer'[k] = buffer[k + 1]
    BY EraseMoves DEF ReadInv
  <1>2. i \in Nat /\ maxind \in Nat /\ i <= maxind
    BY SplitTyped
  <1>3. /\ Slice(buffer, 0, i) # <<>>
        /\ Slice(buffer', 0, i - 1) = SubSeq(Slice(buffer, 0, i), 1, Len(Slice(buffer, 0, i)) - 1)
    BY <1>1, <1>2, SplitTyped, SliceFront
  <1>4. Slice(buffer', i - 1, maxind - 1) = Slice(buffer, i, maxind)
    <2>1. ASSUME NEW k \in i .. maxind - 1 PROVE buffer'[k + (-1)] = buffer[k]
      <3>1. k + (-1) \in i - 1 .. maxind - 2 /\ (k + (-1)) + 1 = k
        BY <1>1, <1>2
      <3> QED BY <1>1, <3>1
    <2>2. -1 \in Int /\ i + (-1) = i - 1 /\ maxind + (-1) = maxind - 1
      BY <1>2
    <2>3. Slice(buffer', i + (-1), maxind + (-1)) = Slice(buffer, i, maxind)
      BY <1>2, <2>1, <2>2, SliceEqual
    <2> QED BY <2>2, <2>3
  <1> QED BY <1>1, <1>3, <1>4, EditorVars DEF Editor!Delete

LEMMA ArrowLeftMoves ==
    ASSUME ReadInv, ArrowLeft
    PROVE  Editor!Left
  <1>1. /\ i > 0 /\ pc # "done" /\ pc' = "key" /\ i' = i - 1
        /\ buffer' = buffer /\ maxind' = maxind
    BY DEF ArrowLeft
  <1>2. i \in Nat /\ maxind \in Nat /\ i <= maxind
    BY SplitTyped
  <1>3. /\ Slice(buffer, 0, i) # <<>>
        /\ Slice(buffer, 0, i - 1) = SubSeq(Slice(buffer, 0, i), 1, Len(Slice(buffer, 0, i)) - 1)
        /\ Slice(buffer, 0, i)[Len(Slice(buffer, 0, i))] = buffer[i - 1]
    BY <1>1, <1>2, SplitTyped, SliceFront
  <1>4. Slice(buffer, i - 1, maxind) = <<buffer[i - 1]>> \o Slice(buffer, i, maxind)
    <2>1. /\ i - 1 \in Nat /\ i - 1 < maxind /\ (i - 1) + 1 = i
          /\ \A k \in i - 1 .. maxind - 1 : buffer[k] \in Printable
      BY <1>1, <1>2, SplitTyped
    <2>2. Slice(buffer, i - 1, maxind) = <<buffer[i - 1]>> \o Slice(buffer, (i - 1) + 1, maxind)
      BY <1>2, <2>1, SliceHead
    <2> QED BY <2>1, <2>2
  <1> QED BY <1>1, <1>3, <1>4, EditorVars DEF Editor!Left

LEMMA ArrowRightMoves ==
    ASSUME ReadInv, ArrowRight
    PROVE  Editor!Right
  <1>1. /\ i < maxind /\ pc # "done" /\ pc' = "key" /\ i' = i + 1
        /\ buffer' = buffer /\ maxind' = maxind
    BY DEF ArrowRight
  <1>2. i \in Nat /\ maxind \in Nat /\ i <= maxind
    BY SplitTyped
  <1>3. /\ Slice(buffer, i, maxind) # <<>>
        /\ Head(Slice(buffer, i, maxind)) = buffer[i]
        /\ Tail(Slice(buffer, i, maxind)) = Slice(buffer, i + 1, maxind)
    BY <1>1, <1>2, SplitTyped, SliceHead
  <1>4. Slice(buffer, 0, i + 1) = Append(Slice(buffer, 0, i), buffer[i])
    <2>1. /\ \A k \in 0 .. i - 1 : buffer[k] \in Printable /\ buffer[k] = buffer[k]
          /\ buffer[i] \in Printable
      BY <1>1, <1>2, SplitTyped
    <2> QED BY <1>2, <2>1, SliceAppend
  <1> QED BY <1>1, <1>3, <1>4, EditorVars DEF Editor!Right

LEMMA RoomLeft ==
    ASSUME ReadInv, maxind + 1 < Size
    PROVE  Len(Taken(0, i)) + Len(Taken(i, maxind)) < Size - 1
  <1>1. Len(Slice(buffer, 0, i)) = i /\ Len(Slice(buffer, i, maxind)) = maxind - i
    <2>1. 0 \in Nat /\ 0 <= i /\ i - 0 = i
      BY SplitTyped
    <2>2. Len(Slice(buffer, 0, i)) = i - 0
      BY <2>1, SplitTyped, SliceSeq
    <2>3. Len(Slice(buffer, i, maxind)) = maxind - i
      BY SplitTyped, SliceSeq
    <2> QED BY <2>1, <2>2, <2>3
  <1> QED BY <1>1, SplitTyped, SizeType, EditorVars

LEMMA AppendInserts ==
    ASSUME ReadInv, pc # "done", NEW c \in Printable, AppendChar(c)
    PROVE  Editor!Insert(c)
  <1>1. /\ i < Size - 1 /\ i = maxind /\ pc' = "key" /\ i' = i + 1 /\ maxind' = maxind + 1
        /\ \A k \in 0 .. maxind - 1 : buffer'[k] = buffer[k]
        /\ buffer'[maxind] = c
    BY AppendMoves DEF ReadInv
  <1>2. i \in Nat /\ maxind \in Nat /\ i <= maxind
    BY SplitTyped
  <1>3. Slice(buffer', 0, i + 1) = Append(Slice(buffer, 0, i), c)
    BY <1>1, <1>2, SplitTyped, SliceAppend
  <1>4. Slice(buffer', i + 1, maxind + 1) = <<>> /\ Slice(buffer, i, maxind) = <<>>
    BY <1>1, <1>2, SliceEmpty
  <1>5. Len(Taken(0, i)) + Len(Taken(i, maxind)) < Size - 1
    BY <1>1, <1>2, SizeType, RoomLeft
  <1> QED BY <1>1, <1>3, <1>4, <1>5, EditorVars DEF Editor!Insert

LEMMA InsertInserts ==
    ASSUME ReadInv, pc # "done", NEW c \in Printable, InsertChar(c)
    PROVE  Editor!Insert(c)
  <1>1. /\ i < maxind /\ maxind + 1 < Size /\ pc' = "key" /\ i' = i + 1 /\ maxind' = maxind + 1
        /\ \A k \in 0 .. i - 1 : buffer'[k] = buffer[k]
        /\ buffer'[i] = c
        /\ \A k \in i + 1 .. maxind + 1 : buffer'[k] = buffer[k - 1]
    BY InsertMoves DEF ReadInv
  <1>2. i \in Nat /\ maxind \in Nat /\ i <= maxind
    BY SplitTyped
  <1>3. Slice(buffer', 0, i + 1) = Append(Slice(buffer, 0, i), c)
    BY <1>1, <1>2, SplitTyped, SliceAppend
  <1>4. Slice(buffer', i + 1, maxind + 1) = Slice(buffer, i, maxind)
    <2>1. ASSUME NEW k \in i .. maxind - 1 PROVE buffer'[k + 1] = buffer[k]
      <3>1. k + 1 \in i + 1 .. maxind + 1 /\ (k + 1) - 1 = k
        BY <1>2
      <3> QED BY <1>1, <3>1
    <2>2. \A k \in i .. maxind - 1 : buffer'[k + 1] = buffer[k]
      BY <2>1
    <2>3. 1 \in Int
      OBVIOUS
    <2> QED BY <1>2, <2>2, <2>3, SliceEqual
  <1>5. Len(Taken(0, i)) + Len(Taken(i, maxind)) < Size - 1
    BY <1>1, RoomLeft
  <1> QED BY <1>1, <1>3, <1>4, <1>5, EditorVars DEF Editor!Insert

LEMMA EditorStep == ReadInv /\ [Next]_vars => [Editor!Next]_(Editor!vars)
  <1> SUFFICES ASSUME ReadInv, [Next]_vars PROVE [Editor!Next]_(Editor!vars)
    OBVIOUS
  <1>1. CASE UNCHANGED vars
    BY <1>1 DEF vars, Editor!vars, Taken
  <1>2. CASE Call
    BY <1>2, CallBegins DEF Editor!Next
  <1>3. CASE Edit
    <2>1. CASE Quiet
      BY <2>1, QuietStutters
    <2>2. CASE ArrowLeft
      BY <2>2, ArrowLeftMoves DEF Editor!Next
    <2>3. CASE ArrowRight
      BY <2>3, ArrowRightMoves DEF Editor!Next
    <2>4. CASE pc # "done" /\ Finish
      BY <2>4, FinishEnters DEF Editor!Next
    <2>5. CASE pc # "done" /\ Erase(1)
      BY <2>5, EraseDeletes DEF Editor!Next
    <2>6. CASE pc # "done" /\ \E c \in Printable : AppendChar(c)
      BY <2>6, AppendInserts DEF Editor!Next
    <2>7. CASE pc # "done" /\ \E c \in Printable : InsertChar(c)
      BY <2>7, InsertInserts DEF Editor!Next
    <2> QED BY <1>3, <2>1, <2>2, <2>3, <2>4, <2>5, <2>6, <2>7 DEF Edit
  <1> QED BY <1>1, <1>2, <1>3, NextCases

\* serial_readline implements LineEditor: whatever keys, arrows and broken
\* escape sequences come, the line edited is the one the keys ask for.
THEOREM EditorTheorem == Spec => EditorSpec
  <1>1. Init => Editor!Init
    <2> SUFFICES ASSUME Init PROVE Editor!Init
      OBVIOUS
    <2>1. i = 0 /\ maxind = 0 /\ pc = "done"
      BY DEF Init
    <2>2. Slice(buffer, 0, 0) = <<>>
      BY SliceEmpty
    <2> QED BY <2>1, <2>2, EditorVars DEF Editor!Init
  <1> QED BY <1>1, EditorStep, InvariantTheorem, PTL DEF Spec, EditorSpec, Editor!Spec
=============================================================================

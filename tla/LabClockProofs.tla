--------------------------- MODULE LabClockProofs ---------------------------
(***************************************************************************)
(* Proofs about LabClock, for every size of the display, every period and  *)
(* every choice of programs, buttons and switches.                         *)
(*                                                                         *)
(* What a thread has left to do is, while it draws, the rest of            *)
(* display_update or of display_image from some place on: a row, a byte of *)
(* it, one of the four steps of spi_send_recv.  The place says which bytes *)
(* the display has got, where it stands and what is in the SPI.  A place   *)
(* follows from the one before it by induction over the sequences that     *)
(* FlattenSeq joins.  The interrupt routine draws only where the main loop *)
(* has no byte under way, or the update is not clean any more.             *)
(*                                                                         *)
(* A recursive function is the CHOOSE of a function that satisfies its     *)
(* equation.  For nextprime's search, for the digits of a number and for   *)
(* the value of a text such a function is shown to exist first; what it    *)
(* gives follows by the least number it could be wrong for.                *)
(***************************************************************************)
EXTENDS LabClock, Division, SequenceTheorems, NaturalsInduction, WellFoundedInduction, TLAPS

-----------------------------------------------------------------------------
(* Induction, over a set of numbers.                                       *)

\* A set of numbers has a least one.
LEMMA Least ==
    ASSUME NEW T, T \subseteq Nat, T # {}
    PROVE  \E m \in T : \A k \in T : m <= k
  <1> DEFINE R == {ss \in Nat \X Nat : ss[1] < ss[2]}
  <1>1. IsWellFoundedOn(R, Nat)
    BY NatLessThanWellFounded DEF OpToRel
  <1>2. \E x \in T : \A y \in T : ~ (<<y, x>> \in R)
    BY <1>1, WFMin
  <1>3. \A x, y \in T : <<y, x>> \in R <=> y < x
    OBVIOUS
  <1> HIDE DEF R
  <1>4. PICK x \in T : \A y \in T : ~ (y < x)
    BY <1>2, <1>3
  <1>5. ASSUME NEW k \in T PROVE x <= k
    <2>1. ~(k < x) /\ k \in Nat /\ x \in Nat
      BY <1>4
    <2> QED BY <2>1
  <1> QED BY <1>5

\* A set of naturals that holds 0 and what follows each of its members is all of them.
LEMMA Induction ==
    ASSUME NEW S, S \subseteq Nat, 0 \in S, \A n \in S : n + 1 \in S
    PROVE  S = Nat
  <1>1. CASE Nat \ S = {}
    BY <1>1
  <1>2. CASE Nat \ S # {}
    <2>1. PICK m \in Nat \ S : \A k \in Nat \ S : m <= k
      BY <1>2, Least
    <2>2. m \in Nat /\ m # 0
      OBVIOUS
    <2>3. m - 1 \in Nat /\ ~(m <= m - 1)
      BY <2>2
    <2>4. m - 1 \in S
      BY <2>1, <2>3
    <2>5. (m - 1) + 1 \in S
      BY <2>4
    <2>6. (m - 1) + 1 = m
      BY <2>2
    <2> QED BY <2>5, <2>6
  <1> QED BY <1>1, <1>2

-----------------------------------------------------------------------------
(* Sequences.                                                              *)

LEMMA Joined ==
    ASSUME NEW S, NEW s \in Seq(S), NEW t \in Seq(S), s # <<>>
    PROVE  /\ s \o t \in Seq(S) /\ s \o t # <<>>
           /\ Head(s \o t) = Head(s) /\ Tail(s \o t) = Tail(s) \o t
           /\ Len(s \o t) = Len(s) + Len(t)
  OBVIOUS

LEMMA Table ==
    ASSUME NEW S, NEW n \in Nat, NEW f \in [1 .. n -> S]
    PROVE  f \in Seq(S) /\ Len(f) = n /\ \A x \in 1 .. n : f[x] \in S
  OBVIOUS

LEMMA Shorter ==
    ASSUME NEW S, NEW s \in Seq(S), s # <<>>
    PROVE  /\ Tail(s) \in Seq(S) /\ Len(Tail(s)) = Len(s) - 1 /\ Head(s) = s[1]
           /\ \A x \in 1 .. Len(s) - 1 : Tail(s)[x] = s[x + 1]
  OBVIOUS

\* What FlattenSeq goes through: the concatenations of the first sequences.
Joins(ss, f) ==
    f = [i \in 1 .. Len(ss) |-> IF i = 1 THEN ss[i] ELSE f[i - 1] \o ss[i]]

\* There is such a function for every sequence of sequences; FlattenSeq takes one.
LEMMA JoinsExist ==
    ASSUME NEW S, NEW ss \in Seq(Seq(S))
    PROVE  \E f : Joins(ss, f)
  <1> DEFINE Upto(n, f) == f = [i \in 1 .. n |-> IF i = 1 THEN ss[i] ELSE f[i - 1] \o ss[i]]
             Exists(n) == n <= Len(ss) => \E f : Upto(n, f)
             Good == {n \in Nat : Exists(n)}
  <1>1. Exists(0)
    <2>1. Upto(0, [i \in 1 .. 0 |-> ss[i]])
      OBVIOUS
    <2> QED BY <2>1
  <1>2. ASSUME NEW n \in Nat, Exists(n), n + 1 <= Len(ss)
        PROVE  \E f : Upto(n + 1, f)
    <2>1. PICK f : Upto(n, f)
      <3>1. n <= Len(ss)
        BY <1>2
      <3>2. \E f : Upto(n, f)
        BY <1>2, <3>1
      <3> HIDE DEF Upto
      <3> QED BY <3>2
    <2> DEFINE g == [i \in 1 .. n + 1 |->
                        IF i <= n THEN f[i] ELSE IF i = 1 THEN ss[i] ELSE f[n] \o ss[i]]
    <2>2. ASSUME NEW i \in 1 .. n + 1
          PROVE  g[i] = IF i = 1 THEN ss[i] ELSE g[i - 1] \o ss[i]
      <3>1. CASE i <= n
        <4>1. i \in 1 .. n /\ (i # 1 => i - 1 \in 1 .. n)
          BY <3>1
        <4>2. f[i] = IF i = 1 THEN ss[i] ELSE f[i - 1] \o ss[i]
          BY <2>1, <4>1
        <4>3. g[i] = f[i] /\ (i # 1 => g[i - 1] = f[i - 1])
          BY <4>1
        <4> QED BY <4>2, <4>3
      <3>2. CASE i = n + 1
        <4>1. ~(i <= n) /\ (i # 1 => i - 1 \in 1 .. n /\ i - 1 = n)
          BY <3>2
        <4>2. i # 1 => g[i - 1] = f[n]
          BY <4>1
        <4> QED BY <4>1, <4>2
      <3> QED BY <3>1, <3>2
    <2>3. Upto(n + 1, g)
      BY <2>2
    <2> QED BY <2>3
  <1>3. \A n \in Nat : Exists(n) => Exists(n + 1)
    BY <1>2
  <1>4. Exists(Len(ss)) => \E f : Joins(ss, f)
    <2>1. Exists(Len(ss)) => \E f : Upto(Len(ss), f)
      <3> HIDE DEF Upto
      <3> QED OBVIOUS
    <2>2. \A f : Upto(Len(ss), f) <=> Joins(ss, f)
      BY DEF Joins
    <2> HIDE DEF Exists, Upto
    <2> QED BY <2>1, <2>2
  <1> HIDE DEF Exists
  <1>5. Good = Nat
    <2>1. Good \subseteq Nat /\ 0 \in Good /\ \A n \in Good : n + 1 \in Good
      BY <1>1, <1>3
    <2> HIDE DEF Good
    <2> QED BY <2>1, Induction
  <1>6. Len(ss) \in Good
    BY <1>5
  <1> QED BY <1>4, <1>6

\* FlattenSeq joins the last of them to the others before it,
LEMMA FlattenLast ==
    ASSUME NEW S, NEW ss \in Seq(Seq(S)), ss # <<>>
    PROVE  \E f : Joins(ss, f) /\ FlattenSeq(ss) = f[Len(ss)]
  <1> DEFINE f == CHOOSE g : Joins(ss, g)
  <1>1. Joins(ss, f)
    BY JoinsExist
  <1>2. Len(ss) # 0
    OBVIOUS
  <1>3. FlattenSeq(ss) = f[Len(ss)]
    BY <1>2 DEF FlattenSeq, Joins
  <1> QED BY <1>1, <1>3

\* gives nothing of none,
LEMMA FlattenNone == FlattenSeq(<<>>) = <<>>
  BY DEF FlattenSeq

\* A flattened sequence is its first sequence and the others flattened.
LEMMA FlattenFirst ==
    ASSUME NEW S, NEW ss \in Seq(Seq(S)), ss # <<>>
    PROVE  FlattenSeq(ss) \in Seq(S) /\ FlattenSeq(ss) = Head(ss) \o FlattenSeq(Tail(ss))
  <1>1. PICK f : Joins(ss, f) /\ FlattenSeq(ss) = f[Len(ss)]
    BY FlattenLast
  <1> DEFINE tt == Tail(ss)
  <1>2. /\ tt \in Seq(Seq(S)) /\ Len(ss) \in Nat /\ Len(ss) >= 1 /\ Len(tt) = Len(ss) - 1
        /\ Head(ss) = ss[1] /\ ss[1] \in Seq(S)
    OBVIOUS
  <1>3. \A i \in 1 .. Len(tt) : tt[i] = ss[i + 1] /\ tt[i] \in Seq(S)
    OBVIOUS
  <1>4. f[1] = ss[1]
    BY <1>1, <1>2 DEF Joins
  <1>5. \A i \in 1 .. Len(tt) : f[i + 1] = f[i] \o ss[i + 1]
    <2> SUFFICES ASSUME NEW i \in 1 .. Len(tt)
                 PROVE  f[i + 1] = f[i] \o ss[i + 1]
      OBVIOUS
    <2>1. i + 1 \in 1 .. Len(ss) /\ i + 1 # 1 /\ (i + 1) - 1 = i
      BY <1>2
    <2> QED BY <1>1, <2>1 DEF Joins
  <1>6. CASE tt = <<>>
    <2>1. Len(ss) = 1
      <3>1. Len(tt) = 0
        <4> HIDE DEF tt
        <4> QED BY <1>6
      <3> QED BY <3>1, <1>2
    <2>2. ss[1] \o <<>> = ss[1]
      BY <1>2
    <2>3. FlattenSeq(ss) = ss[1]
      BY <1>1, <1>4, <2>1
    <2> HIDE DEF tt
    <2>4. Head(ss) \o FlattenSeq(tt) = ss[1]
      BY <1>2, <1>6, <2>2, FlattenNone
    <2> QED BY <1>2, <2>3, <2>4 DEF tt
  <1>7. CASE tt # <<>>
    <2>1. PICK g : Joins(tt, g) /\ FlattenSeq(tt) = g[Len(tt)]
      BY <1>2, <1>7, FlattenLast
    <2>2. g[1] = tt[1]
      BY <1>2, <1>7, <2>1 DEF Joins
    <2> DEFINE Same(n) == /\ g[n + 1] \in Seq(S)
                          /\ f[n + 2] = ss[1] \o g[n + 1]
               Good == {n \in Nat : n + 1 <= Len(tt) => Same(n)}
    <2> HIDE DEF tt
    <2>3. 1 <= Len(tt) => Same(0)
      <3> SUFFICES ASSUME 1 <= Len(tt) PROVE Same(0)
        OBVIOUS
      <3>1. 1 \in 1 .. Len(tt) /\ 1 + 1 = 2 /\ 0 + 1 = 1 /\ 0 + 2 = 2
        BY <1>2
      <3>2. g[1] \in Seq(S) /\ f[2] = ss[1] \o g[1]
        BY <3>1, <1>3, <1>4, <1>5, <2>2
      <3> QED BY <3>1, <3>2
    <2>4. ASSUME NEW n \in Nat, n + 2 <= Len(tt), Same(n)
          PROVE  g[n + 2] \in Seq(S) /\ f[n + 3] = ss[1] \o g[n + 2]
      <3>1. g[n + 1] \in Seq(S) /\ f[n + 2] = ss[1] \o g[n + 1]
        BY <2>4
      <3>2. n + 2 \in 1 .. Len(tt) /\ n + 2 # 1 /\ (n + 2) - 1 = n + 1 /\ (n + 2) + 1 = n + 3
        BY <1>2, <2>4
      <3>3. g[n + 2] = g[n + 1] \o tt[n + 2]
        BY <2>1, <3>2 DEF Joins
      <3>4. tt[n + 2] = ss[n + 3] /\ tt[n + 2] \in Seq(S)
        BY <1>3, <3>2
      <3>5. f[n + 3] = f[n + 2] \o ss[n + 3]
        BY <1>5, <3>2
      <3>6. g[n + 2] \in Seq(S)
        BY <3>1, <3>3, <3>4
      <3>7. (ss[1] \o g[n + 1]) \o tt[n + 2] = ss[1] \o (g[n + 1] \o tt[n + 2])
        <4>1. \A x, y, z \in Seq(S) : (x \o y) \o z = x \o (y \o z)
          BY ConcatAssociative
        <4> QED BY <1>2, <3>1, <3>4, <4>1
      <3> QED BY <3>1, <3>3, <3>4, <3>5, <3>6, <3>7
    <2>5. \A n \in Nat : n + 2 <= Len(tt) /\ Same(n) => Same(n + 1)
      <3> SUFFICES ASSUME NEW n \in Nat, n + 2 <= Len(tt), Same(n) PROVE Same(n + 1)
        OBVIOUS
      <3>1. (n + 1) + 1 = n + 2 /\ (n + 1) + 2 = n + 3
        OBVIOUS
      <3> QED BY <2>4, <3>1
    <2>6. Same(Len(tt) - 1) => g[Len(tt)] \in Seq(S) /\ f[Len(ss)] = ss[1] \o g[Len(tt)]
      <3>1. (Len(tt) - 1) + 1 = Len(tt) /\ (Len(tt) - 1) + 2 = Len(ss)
        BY <1>2
      <3> QED BY <3>1
    <2> HIDE DEF Same
    <2>7. Good = Nat
      <3>1. Good \subseteq Nat /\ 0 \in Good
        BY <2>3
      <3>2. \A n \in Good : n + 1 \in Good
        BY <2>5, <1>2
      <3> HIDE DEF Good
      <3> QED BY <3>1, <3>2, Induction
    <2>8. g[Len(tt)] \in Seq(S) /\ f[Len(ss)] = ss[1] \o g[Len(tt)]
      <3>1. Len(tt) - 1 \in Nat
        BY <1>2, <1>7
      <3>2. Len(tt) - 1 \in Good /\ (Len(tt) - 1) + 1 <= Len(tt)
        <4>1. Len(tt) - 1 \in Good
          BY <2>7, <3>1
        <4> QED BY <4>1, <1>2
      <3>3. Same(Len(tt) - 1)
        BY <3>2
      <3> QED BY <3>3, <2>6
    <2>9. ss[1] \o g[Len(tt)] \in Seq(S)
      BY <1>2, <2>8
    <2> QED BY <1>1, <1>2, <2>1, <2>8, <2>9 DEF tt
  <1> QED BY <1>6, <1>7

-----------------------------------------------------------------------------
(* The bytes of an update, "cells", and of the icon, "icons".              *)

Kinds == {"cells", "icons"}

\* The column a row begins at.
First(k) == IF k = "cells" THEN 0 ELSE Cols - 1

\* The bytes of a row: its page, its column, and one for each column from First(k) on.
Page == -2
Column == -1
Bytes(k) == {Page, Column} \cup (First(k) .. Cols - 1)

Byte(k, r, n) ==
    IF n = Page THEN <<"page", r>>
    ELSE IF n = Column THEN <<"column", First(k)>>
    ELSE IF k = "cells" THEN <<"cell", r, n>> ELSE <<"icon">>

\* The operations for the columns from j on, and for the rows from r on.
DataFrom(k, r, j) ==
    IF k = "cells" THEN FlattenSeq([x \in 1 .. Cols - j |-> Send(<<"cell", r, (j + x) - 1>>)])
    ELSE IF j < Cols THEN Send(<<"icon">>) ELSE <<>>

Row(k, r) == Address(r, First(k)) \o DataFrom(k, r, First(k))
RowsFrom(k, r) == FlattenSeq([x \in 1 .. Lines - r |-> Row(k, (r + x) - 1)])

\* The operations left when byte n of row r is done.
After(k, r, n) ==
    IF n = Page THEN Send(Byte(k, r, Column)) \o (<< <<"mode", "data">> >> \o (DataFrom(k, r, First(k)) \o RowsFrom(k, r + 1)))
    ELSE IF n = Column THEN << <<"mode", "data">> >> \o (DataFrom(k, r, First(k)) \o RowsFrom(k, r + 1))
    ELSE DataFrom(k, r, n + 1) \o RowsFrom(k, r + 1)

DrawOps ==
    {<<"mode", "command">>, <<"mode", "data">>, <<"tbe">>, <<"rbf">>, <<"read">>}
    \cup {<<"write", <<"page", r>> >> : r \in Rows} \cup {<<"write", <<"column", c>> >> : c \in Places}
    \cup {<<"write", <<"cell", r, c>> >> : r \in Rows, c \in Places} \cup {<<"write", <<"icon">> >>}

\* What is assumed of the sizes, for the proofs below.
LEMMA Sizes ==
    /\ Lines \in Nat /\ Lines >= 1 /\ Cols \in Nat /\ Cols >= 3 /\ Period \in Nat /\ Period >= 1
    /\ \A k \in Kinds : First(k) \in Places
  <1>1. /\ Lines \in Nat \ {0} /\ Cols \in Nat \ {0, 1, 2} /\ Period \in Nat \ {0}
    BY LabAssumption
  <1> QED BY <1>1 DEF First, Kinds, Places

LEMMA SendType ==
    ASSUME NEW b, <<"write", b>> \in DrawOps
    PROVE  Send(b) \in Seq(DrawOps)
  <1>1. <<"tbe">> \in DrawOps /\ <<"rbf">> \in DrawOps /\ <<"read">> \in DrawOps
    BY DEF DrawOps
  <1> HIDE DEF DrawOps
  <1> QED BY <1>1 DEF Send

LEMMA ByteType ==
    ASSUME NEW k \in Kinds, NEW r \in Rows, NEW n \in Bytes(k)
    PROVE  <<"write", Byte(k, r, n)>> \in DrawOps /\ Send(Byte(k, r, n)) \in Seq(DrawOps)
  <1>1. n \in {Page, Column} \/ n \in Places
    BY Sizes DEF Bytes, Places, First, Page, Column
  <1>2. <<"write", Byte(k, r, n)>> \in DrawOps
    BY <1>1, Sizes DEF Byte, DrawOps
  <1> QED BY <1>2, SendType

LEMMA DataNone == ASSUME NEW k \in Kinds, NEW r PROVE DataFrom(k, r, Cols) = <<>>
  <1>1. [x \in 1 .. Cols - Cols |-> Send(<<"cell", r, (Cols + x) - 1>>)] = <<>>
    BY Sizes
  <1> QED BY <1>1, FlattenNone, Sizes DEF DataFrom

\* The bytes of a row, the first and the others.
LEMMA DataFirst ==
    ASSUME NEW k \in Kinds, NEW r \in Rows, NEW j \in First(k) .. Cols - 1
    PROVE  /\ DataFrom(k, r, j) \in Seq(DrawOps) /\ DataFrom(k, r, j + 1) \in Seq(DrawOps)
           /\ DataFrom(k, r, j) = Send(Byte(k, r, j)) \o DataFrom(k, r, j + 1)
  <1>1. j \in Places /\ j \in Bytes(k) /\ j # Page /\ j # Column
    BY Sizes DEF Bytes, Places, First, Page, Column
  <1>2. CASE k = "cells"
    <2> DEFINE Ss(i) == [x \in 1 .. Cols - i |-> Send(<<"cell", r, (i + x) - 1>>)]
    <2>1. \A c \in Places : Send(<<"cell", r, c>>) \in Seq(DrawOps)
      <3> TAKE c \in Places
      <3>1. <<"write", <<"cell", r, c>> >> \in DrawOps
        BY DEF DrawOps
      <3> QED BY <3>1, SendType
    <2>2. Ss(j) \in Seq(Seq(DrawOps)) /\ Len(Ss(j)) = Cols - j
      <3>1. \A x \in 1 .. Cols - j : (j + x) - 1 \in Places
        BY <1>1, Sizes DEF Places
      <3>2. Cols - j \in Nat
        BY <1>1, Sizes DEF Places
      <3>3. Ss(j) \in [1 .. Cols - j -> Seq(DrawOps)]
        BY <2>1, <3>1
      <3> HIDE DEF Ss
      <3> QED BY <3>2, <3>3, Table
    <2>3. Ss(j + 1) \in Seq(Seq(DrawOps)) /\ Len(Ss(j + 1)) = Cols - (j + 1)
      <3>1. \A x \in 1 .. Cols - (j + 1) : ((j + 1) + x) - 1 \in Places
        BY <1>1, Sizes DEF Places
      <3>2. Cols - (j + 1) \in Nat
        BY <1>1, Sizes DEF Places
      <3>3. Ss(j + 1) \in [1 .. Cols - (j + 1) -> Seq(DrawOps)]
        BY <2>1, <3>1
      <3> HIDE DEF Ss
      <3> QED BY <3>2, <3>3, Table
    <2>4. Ss(j) # <<>> /\ Head(Ss(j)) = Send(<<"cell", r, j>>)
      <3>1. 1 \in 1 .. Cols - j /\ (j + 1) - 1 = j
        BY <1>1, Sizes DEF Places
      <3> QED BY <3>1, <2>2
    <2>5. Tail(Ss(j)) = Ss(j + 1)
      <3>1. Len(Tail(Ss(j))) = Cols - (j + 1) /\ Tail(Ss(j)) \in Seq(Seq(DrawOps))
        <4>1. (Cols - j) - 1 = Cols - (j + 1)
          BY <1>1, Sizes DEF Places
        <4> HIDE DEF Ss
        <4> QED BY <2>2, <2>4, <4>1, Shorter
      <3>2. ASSUME NEW x \in 1 .. Cols - (j + 1)
            PROVE  Tail(Ss(j))[x] = Ss(j + 1)[x]
        <4>1. x + 1 \in 1 .. Cols - j /\ (j + (x + 1)) - 1 = ((j + 1) + x) - 1
          BY <1>1, Sizes DEF Places
        <4>2. Tail(Ss(j))[x] = Ss(j)[x + 1]
          <5> HIDE DEF Ss
          <5> QED BY <2>2, <2>4, <3>1
        <4> QED BY <4>1, <4>2
      <3> HIDE DEF Ss
      <3> QED BY <3>1, <3>2, <2>3, SeqEqual
    <2>6. DataFrom(k, r, j) = FlattenSeq(Ss(j)) /\ DataFrom(k, r, j + 1) = FlattenSeq(Ss(j + 1))
      BY <1>2 DEF DataFrom
    <2>7. FlattenSeq(Ss(j + 1)) \in Seq(DrawOps)
      <3> HIDE DEF Ss
      <3>1. CASE Ss(j + 1) = <<>>
        <4>1. <<>> \in Seq(DrawOps)
          OBVIOUS
        <4> QED BY <3>1, <4>1, FlattenNone
      <3> QED BY <3>1, <2>3, FlattenFirst
    <2>8. FlattenSeq(Ss(j)) \in Seq(DrawOps) /\ FlattenSeq(Ss(j)) = Head(Ss(j)) \o FlattenSeq(Tail(Ss(j)))
      <3> HIDE DEF Ss
      <3> QED BY <2>2, <2>4, FlattenFirst
    <2>9. Byte(k, r, j) = <<"cell", r, j>>
      BY <1>1, <1>2 DEF Byte
    <2> HIDE DEF Ss
    <2> QED BY <2>4, <2>5, <2>6, <2>7, <2>8, <2>9
  <1>3. CASE k # "cells"
    <2>1. j = Cols - 1 /\ k = "icons"
      BY <1>3, Sizes DEF First, Kinds
    <2>2. DataFrom(k, r, j) = Send(<<"icon">>) /\ DataFrom(k, r, j + 1) = <<>> /\ Byte(k, r, j) = <<"icon">>
      BY <2>1, <1>1, Sizes DEF DataFrom, Byte
    <2>3. Send(Byte(k, r, j)) \in Seq(DrawOps)
      BY <1>1, ByteType
    <2>4. <<>> \in Seq(DrawOps) /\ Send(Byte(k, r, j)) \o <<>> = Send(Byte(k, r, j))
      BY <2>3
    <2> QED BY <2>2, <2>3, <2>4
  <1> QED BY <1>2, <1>3

LEMMA RowsNone == ASSUME NEW k PROVE RowsFrom(k, Lines) = <<>>
  <1>1. [x \in 1 .. Lines - Lines |-> Row(k, (Lines + x) - 1)] = <<>>
    BY Sizes
  <1> QED BY <1>1, FlattenNone DEF RowsFrom

LEMMA FirstType ==
    ASSUME NEW k \in Kinds
    PROVE  First(k) \in First(k) .. Cols - 1 /\ First(k) \in Int
  BY Sizes DEF Places

LEMMA AddressType ==
    ASSUME NEW k \in Kinds, NEW r \in Rows
    PROVE  /\ Address(r, First(k)) \in Seq(DrawOps) /\ Row(k, r) \in Seq(DrawOps)
           /\ << <<"mode", "data">> >> \in Seq(DrawOps) /\ << <<"mode", "command">> >> \in Seq(DrawOps)
           /\ Send(<<"page", r>>) \in Seq(DrawOps) /\ Send(<<"column", First(k)>>) \in Seq(DrawOps)
  <1>1. <<"write", <<"page", r>> >> \in DrawOps /\ <<"write", <<"column", First(k)>> >> \in DrawOps
        /\ <<"mode", "data">> \in DrawOps /\ <<"mode", "command">> \in DrawOps
    BY Sizes DEF DrawOps
  <1>2. Send(<<"page", r>>) \in Seq(DrawOps) /\ Send(<<"column", First(k)>>) \in Seq(DrawOps)
    BY <1>1, SendType
  <1>3. << <<"mode", "data">> >> \in Seq(DrawOps) /\ << <<"mode", "command">> >> \in Seq(DrawOps)
    BY <1>1
  <1>4. Address(r, First(k)) \in Seq(DrawOps)
    BY <1>2, <1>3 DEF Address
  <1>5. DataFrom(k, r, First(k)) \in Seq(DrawOps)
    BY DataFirst, FirstType
  <1> QED BY <1>2, <1>3, <1>4, <1>5 DEF Row

\* The rows, the first and the others.
LEMMA RowsFirst ==
    ASSUME NEW k \in Kinds, NEW r \in Rows
    PROVE  /\ RowsFrom(k, r) \in Seq(DrawOps) /\ RowsFrom(k, r + 1) \in Seq(DrawOps)
           /\ RowsFrom(k, r) = Row(k, r) \o RowsFrom(k, r + 1)
  <1> DEFINE Ss(i) == [x \in 1 .. Lines - i |-> Row(k, (i + x) - 1)]
  <1>1. r \in Int /\ 0 <= r /\ r <= Lines - 1 /\ Lines - r \in Nat /\ Lines - (r + 1) \in Nat
    BY Sizes DEF Rows
  <1>2. Ss(r) \in Seq(Seq(DrawOps)) /\ Len(Ss(r)) = Lines - r
    <2>1. \A x \in 1 .. Lines - r : (r + x) - 1 \in Rows
      BY <1>1, Sizes DEF Rows
    <2>2. Ss(r) \in [1 .. Lines - r -> Seq(DrawOps)]
      BY <2>1, AddressType
    <2> HIDE DEF Ss
    <2> QED BY <1>1, <2>2, Table
  <1>3. Ss(r + 1) \in Seq(Seq(DrawOps)) /\ Len(Ss(r + 1)) = Lines - (r + 1)
    <2>1. \A x \in 1 .. Lines - (r + 1) : ((r + 1) + x) - 1 \in Rows
      BY <1>1, Sizes DEF Rows
    <2>2. Ss(r + 1) \in [1 .. Lines - (r + 1) -> Seq(DrawOps)]
      BY <2>1, AddressType
    <2> HIDE DEF Ss
    <2> QED BY <1>1, <2>2, Table
  <1>4. Ss(r) # <<>> /\ Head(Ss(r)) = Row(k, r)
    <2>1. 1 \in 1 .. Lines - r /\ (r + 1) - 1 = r
      BY <1>1, Sizes
    <2>2. Ss(r)[1] = Row(k, r)
      BY <2>1
    <2> HIDE DEF Ss
    <2>3. Len(Ss(r)) # 0
      BY <1>1, <1>2, Sizes
    <2>4. Ss(r) # <<>>
      BY <2>3, <1>2
    <2> QED BY <2>2, <2>4, <1>2, Shorter
  <1>5. Tail(Ss(r)) = Ss(r + 1)
    <2>1. Len(Tail(Ss(r))) = Lines - (r + 1) /\ Tail(Ss(r)) \in Seq(Seq(DrawOps))
      <3>1. (Lines - r) - 1 = Lines - (r + 1)
        BY <1>1, Sizes
      <3> HIDE DEF Ss
      <3> QED BY <1>2, <1>4, <3>1, Shorter
    <2>2. ASSUME NEW x \in 1 .. Lines - (r + 1)
          PROVE  Tail(Ss(r))[x] = Ss(r + 1)[x]
      <3>1. x + 1 \in 1 .. Lines - r /\ (r + (x + 1)) - 1 = ((r + 1) + x) - 1
        BY <1>1, Sizes
      <3>2. Tail(Ss(r))[x] = Ss(r)[x + 1]
        <4>1. (Lines - r) - 1 = Lines - (r + 1)
          BY <1>1, Sizes
        <4> HIDE DEF Ss
        <4> QED BY <1>2, <1>4, <4>1, Shorter
      <3> QED BY <3>1, <3>2
    <2> HIDE DEF Ss
    <2> QED BY <2>1, <2>2, <1>3, SeqEqual
  <1>6. RowsFrom(k, r) = FlattenSeq(Ss(r)) /\ RowsFrom(k, r + 1) = FlattenSeq(Ss(r + 1))
    BY DEF RowsFrom
  <1> HIDE DEF Ss
  <1>7. FlattenSeq(Ss(r + 1)) \in Seq(DrawOps)
    <2>1. CASE Ss(r + 1) = <<>>
      <3>1. <<>> \in Seq(DrawOps)
        OBVIOUS
      <3> QED BY <2>1, <3>1, FlattenNone
    <2> QED BY <2>1, <1>3, FlattenFirst
  <1>8. FlattenSeq(Ss(r)) \in Seq(DrawOps) /\ FlattenSeq(Ss(r)) = Head(Ss(r)) \o FlattenSeq(Tail(Ss(r)))
    BY <1>2, <1>4, FlattenFirst
  <1> QED BY <1>4, <1>5, <1>6, <1>7, <1>8

\* display_update and display_image are all the rows of their kind.
LEMMA Whole == RowsFrom("cells", 0) = display_update /\ RowsFrom("icons", 0) = display_image
  <1>1. ASSUME NEW r \in Rows PROVE Row("cells", r) = RowOps(r)
    <2>1. [x \in 1 .. Cols - 0 |-> Send(<<"cell", r, (0 + x) - 1>>)]
            = [j \in 1 .. Cols |-> Send(<<"cell", r, j - 1>>)]
      <3>1. Cols - 0 = Cols /\ \A x \in 1 .. Cols : (0 + x) - 1 = x - 1
        BY Sizes
      <3> QED BY <3>1
    <2>2. First("cells") = 0
      BY DEF First
    <2> QED BY <2>1, <2>2 DEF Row, RowOps, DataFrom
  <1>2. ASSUME NEW r \in Rows PROVE Row("icons", r) = Address(r, Cols - 1) \o Send(<<"icon">>)
    <2>1. First("icons") = Cols - 1 /\ First("icons") < Cols
      BY Sizes DEF First
    <2> QED BY <2>1 DEF Row, DataFrom
  <1>3. Lines - 0 = Lines /\ \A x \in 1 .. Lines : (0 + x) - 1 = x - 1 /\ x - 1 \in Rows
    BY Sizes DEF Rows
  <1>4. [x \in 1 .. Lines - 0 |-> Row("cells", (0 + x) - 1)] = [i \in 1 .. Lines |-> RowOps(i - 1)]
    BY <1>1, <1>3
  <1>5. [x \in 1 .. Lines - 0 |-> Row("icons", (0 + x) - 1)]
          = [i \in 1 .. Lines |-> Address(i - 1, Cols - 1) \o Send(<<"icon">>)]
    BY <1>2, <1>3
  <1> QED BY <1>4, <1>5 DEF RowsFrom, display_update, display_image

-----------------------------------------------------------------------------
(* Where a thread that draws stands: before step i of byte n of row r, or, *)
(* with -1 for i, before the mode is set for that byte.                    *)

Within(k, n, i) == n \in Bytes(k) /\ i \in -1 .. 3 /\ (i = -1 => n \in {Page, First(k)})

Left(b, i) ==
    IF i = 0 THEN << <<"tbe">>, <<"write", b>>, <<"rbf">>, <<"read">> >>
    ELSE IF i = 1 THEN << <<"write", b>>, <<"rbf">>, <<"read">> >>
    ELSE IF i = 2 THEN << <<"rbf">>, <<"read">> >> ELSE << <<"read">> >>

Op(k, r, n, i) ==
    IF i = -1 THEN <<"mode", IF n = Page THEN "command" ELSE "data">>
    ELSE IF i = 0 THEN <<"tbe">> ELSE IF i = 1 THEN <<"write", Byte(k, r, n)>>
    ELSE IF i = 2 THEN <<"rbf">> ELSE <<"read">>

Script(k, r, n, i) ==
    IF i = -1 THEN IF n = Page THEN RowsFrom(k, r) ELSE After(k, r, Column)
    ELSE Left(Byte(k, r, n), i) \o After(k, r, n)

LEMMA BytesApart ==
    ASSUME NEW k \in Kinds
    PROVE  /\ Page # Column /\ Page \notin First(k) .. Cols - 1 /\ Column \notin First(k) .. Cols - 1
           /\ Page \in Bytes(k) /\ Column \in Bytes(k) /\ First(k) \in Bytes(k)
           /\ \A n \in Bytes(k) : n \in Int /\ (n = Page \/ n = Column \/ n \in First(k) .. Cols - 1)
  <1>1. First(k) \in Int /\ First(k) >= 0 /\ First(k) <= Cols - 1
    BY Sizes DEF Places
  <1> QED BY <1>1, Sizes DEF Bytes, Page, Column

LEMMA RowsType ==
    ASSUME NEW k \in Kinds, NEW r \in 0 .. Lines
    PROVE  RowsFrom(k, r) \in Seq(DrawOps)
  <1>1. CASE r = Lines
    <2>1. <<>> \in Seq(DrawOps)
      OBVIOUS
    <2> QED BY <1>1, <2>1, RowsNone
  <1>2. CASE r # Lines
    <2>1. r \in Rows
      BY <1>2, Sizes DEF Rows
    <2> QED BY <2>1, RowsFirst
  <1> QED BY <1>1, <1>2

LEMMA DataType ==
    ASSUME NEW k \in Kinds, NEW r \in Rows, NEW j \in First(k) .. Cols
    PROVE  DataFrom(k, r, j) \in Seq(DrawOps)
  <1>1. CASE j = Cols
    <2>1. <<>> \in Seq(DrawOps)
      OBVIOUS
    <2> QED BY <1>1, <2>1, DataNone
  <1>2. CASE j # Cols
    <2>1. j \in First(k) .. Cols - 1
      BY <1>2, Sizes DEF Places
    <2> QED BY <2>1, DataFirst
  <1> QED BY <1>1, <1>2

LEMMA AfterType ==
    ASSUME NEW k \in Kinds, NEW r \in Rows, NEW n \in Bytes(k)
    PROVE  After(k, r, n) \in Seq(DrawOps)
  <1>1. RowsFrom(k, r + 1) \in Seq(DrawOps) /\ << <<"mode", "data">> >> \in Seq(DrawOps)
    BY RowsFirst, AddressType
  <1>2. DataFrom(k, r, First(k)) \in Seq(DrawOps)
    BY DataFirst, FirstType
  <1>3. Send(Byte(k, r, Column)) \in Seq(DrawOps)
    BY ByteType, BytesApart
  <1>4. CASE n = Page \/ n = Column
    <2> DEFINE md == << <<"mode", "data">> >>
    <2>1. md \o (DataFrom(k, r, First(k)) \o RowsFrom(k, r + 1)) \in Seq(DrawOps)
      <3> HIDE DEF md
      <3> QED BY <1>1, <1>2 DEF md
    <2> QED BY <1>3, <1>4, <2>1 DEF After
  <1>5. CASE n \in First(k) .. Cols - 1
    <2>1. n # Page /\ n # Column
      BY <1>5, BytesApart
    <2>2. DataFrom(k, r, n + 1) \in Seq(DrawOps)
      BY <1>5, DataFirst
    <2> QED BY <1>1, <2>1, <2>2 DEF After
  <1> QED BY <1>4, <1>5, BytesApart

LEMMA Associates ==
    ASSUME NEW S, NEW x \in Seq(S), NEW y \in Seq(S), NEW z \in Seq(S)
    PROVE  (x \o y) \o z = x \o (y \o z)
  BY ConcatAssociative

LEMMA Closed ==
    ASSUME NEW S, NEW x \in Seq(S), NEW y \in Seq(S)
    PROVE  x \o y \in Seq(S)
  OBVIOUS

LEMMA Tuples ==
    ASSUME NEW S, NEW a \in S, NEW b \in S, NEW c \in S, NEW d \in S
    PROVE  /\ <<a, b, c, d>> \in Seq(S) /\ <<a, b, c, d>> # <<>>
           /\ Head(<<a, b, c, d>>) = a /\ Tail(<<a, b, c, d>>) = <<b, c, d>>
           /\ <<b, c, d>> \in Seq(S) /\ <<b, c, d>> # <<>>
           /\ Head(<<b, c, d>>) = b /\ Tail(<<b, c, d>>) = <<c, d>>
           /\ <<c, d>> \in Seq(S) /\ <<c, d>> # <<>>
           /\ Head(<<c, d>>) = c /\ Tail(<<c, d>>) = <<d>>
           /\ <<d>> \in Seq(S) /\ <<d>> # <<>>
           /\ Head(<<d>>) = d /\ Tail(<<d>>) = <<>>
  <1>1. <<a, b, c, d>> \in Seq(S) /\ <<b, c, d>> \in Seq(S) /\ <<c, d>> \in Seq(S) /\ <<d>> \in Seq(S)
    OBVIOUS
  <1>2. <<a, b, c, d>> # <<>> /\ <<b, c, d>> # <<>> /\ <<c, d>> # <<>> /\ <<d>> # <<>>
    OBVIOUS
  <1>3. Head(<<a, b, c, d>>) = a /\ Head(<<b, c, d>>) = b /\ Head(<<c, d>>) = c /\ Head(<<d>>) = d
    OBVIOUS
  <1>4. Tail(<<a, b, c, d>>) = <<b, c, d>>
    OBVIOUS
  <1>5. Tail(<<b, c, d>>) = <<c, d>>
    OBVIOUS
  <1>6. Tail(<<c, d>>) = <<d>>
    OBVIOUS
  <1>7. Tail(<<d>>) = <<>>
    OBVIOUS
  <1> QED BY <1>1, <1>2, <1>3, <1>4, <1>5, <1>6, <1>7, Zenon

LEMMA LeftSteps ==
    ASSUME NEW b, NEW i \in 0 .. 3, NEW t \in Seq(DrawOps), Send(b) \in Seq(DrawOps)
    PROVE  /\ Left(b, i) \o t \in Seq(DrawOps) /\ Left(b, i) \o t # <<>>
           /\ Head(Left(b, i) \o t) = Send(b)[i + 1]
           /\ i < 3 => Tail(Left(b, i) \o t) = Left(b, i + 1) \o t
           /\ i = 3 => Tail(Left(b, i) \o t) = t
           /\ Left(b, 0) = Send(b)
  <1>1. <<"tbe">> \in DrawOps /\ <<"write", b>> \in DrawOps /\ <<"rbf">> \in DrawOps /\ <<"read">> \in DrawOps
        /\ Send(b)[1] = <<"tbe">> /\ Send(b)[2] = <<"write", b>> /\ Send(b)[3] = <<"rbf">> /\ Send(b)[4] = <<"read">>
    <2>1. Send(b)[1] = <<"tbe">> /\ Send(b)[2] = <<"write", b>> /\ Send(b)[3] = <<"rbf">> /\ Send(b)[4] = <<"read">>
      BY DEF Send
    <2>2. Len(Send(b)) = 4
      BY DEF Send
    <2>3. Send(b)[1] \in DrawOps /\ Send(b)[2] \in DrawOps /\ Send(b)[3] \in DrawOps /\ Send(b)[4] \in DrawOps
      <3>1. \A n \in 1 .. 4 : Send(b)[n] \in DrawOps
        BY <2>2, ElementOfSeq
      <3> QED BY <3>1
    <2> QED BY <2>1, <2>3
  <1> DEFINE tbe == <<"tbe">>
             write == <<"write", b>>
             rb == <<"rbf">>
             read == <<"read">>
  <1>2. tbe \in DrawOps /\ write \in DrawOps /\ rb \in DrawOps /\ read \in DrawOps
    BY <1>1
  <1>3. /\ Left(b, 0) = <<tbe, write, rb, read>> /\ Left(b, 1) = <<write, rb, read>>
        /\ Left(b, 2) = <<rb, read>> /\ Left(b, 3) = <<read>>
    BY DEF Left
  <1>4. Send(b)[1] = tbe /\ Send(b)[2] = write /\ Send(b)[3] = rb /\ Send(b)[4] = read
    BY <1>1
  <1>5. Left(b, 0) = Send(b)
    BY DEF Left, Send
  <1> HIDE DEF tbe, write, rb, read
  <1>15. /\ <<tbe, write, rb, read>> \in Seq(DrawOps) /\ <<tbe, write, rb, read>> # <<>>
         /\ Head(<<tbe, write, rb, read>>) = tbe /\ Tail(<<tbe, write, rb, read>>) = <<write, rb, read>>
         /\ <<write, rb, read>> \in Seq(DrawOps) /\ <<write, rb, read>> # <<>>
         /\ Head(<<write, rb, read>>) = write /\ Tail(<<write, rb, read>>) = <<rb, read>>
         /\ <<rb, read>> \in Seq(DrawOps) /\ <<rb, read>> # <<>>
         /\ Head(<<rb, read>>) = rb /\ Tail(<<rb, read>>) = <<read>>
         /\ <<read>> \in Seq(DrawOps) /\ <<read>> # <<>>
         /\ Head(<<read>>) = read /\ Tail(<<read>>) = <<>>
    BY <1>2, Tuples
  <1>6. /\ Left(b, 0) \in Seq(DrawOps) /\ Left(b, 1) \in Seq(DrawOps) /\ Left(b, 2) \in Seq(DrawOps) /\ Left(b, 3) \in Seq(DrawOps)
        /\ Left(b, 0) # <<>> /\ Left(b, 1) # <<>> /\ Left(b, 2) # <<>> /\ Left(b, 3) # <<>>
    BY <1>3, <1>15, Zenon
  <1>7. Head(Left(b, 0)) = tbe /\ Head(Left(b, 1)) = write /\ Head(Left(b, 2)) = rb /\ Head(Left(b, 3)) = read
    BY <1>3, <1>15, Zenon
  <1>8. /\ Tail(Left(b, 0)) = Left(b, 1) /\ Tail(Left(b, 1)) = Left(b, 2) /\ Tail(Left(b, 2)) = Left(b, 3)
        /\ Tail(Left(b, 3)) = <<>>
    BY <1>3, <1>15, Zenon
  <1>9. \A s \in Seq(DrawOps) : s # <<>> =>
           s \o t \in Seq(DrawOps) /\ s \o t # <<>> /\ Head(s \o t) = Head(s) /\ Tail(s \o t) = Tail(s) \o t
    BY Joined
  <1>10. <<>> \o t = t
    OBVIOUS
  <1>11. CASE i = 0
    <2>1. i + 1 = 1 /\ i < 3 /\ i # 3
      BY <1>11
    <2> QED BY <1>4, <1>5, <1>6, <1>7, <1>8, <1>9, <1>11, <2>1, Zenon
  <1>12. CASE i = 1
    <2>1. i < 3 /\ i # 3 /\ i + 1 = 2
      BY <1>12
    <2>2. Left(b, i) = Left(b, 1) /\ Left(b, i + 1) = Left(b, 2) /\ Send(b)[i + 1] = Send(b)[2]
      BY <1>12, <2>1
    <2>3. /\ Left(b, 1) \o t \in Seq(DrawOps) /\ Left(b, 1) \o t # <<>>
          /\ Head(Left(b, 1) \o t) = write /\ Tail(Left(b, 1) \o t) = Left(b, 2) \o t
      BY <1>6, <1>7, <1>8, <1>9, Zenon
    <2> QED BY <1>4, <1>5, <2>1, <2>2, <2>3, Zenon
  <1>13. CASE i = 2
    <2>1. i < 3 /\ i # 3 /\ i + 1 = 3
      BY <1>13
    <2>2. Left(b, i) = Left(b, 2) /\ Left(b, i + 1) = Left(b, 3) /\ Send(b)[i + 1] = Send(b)[3]
      BY <1>13, <2>1
    <2> QED BY <1>4, <1>5, <1>6, <1>7, <1>8, <1>9, <2>1, <2>2, Zenon
  <1>14. CASE i = 3
    <2>1. ~(i < 3) /\ i + 1 = 4
      BY <1>14
    <2>2. Left(b, i) = Left(b, 3) /\ Send(b)[i + 1] = Send(b)[4]
      BY <1>14, <2>1
    <2> QED BY <1>4, <1>5, <1>6, <1>7, <1>8, <1>9, <1>10, <2>1, <2>2, Zenon
  <1>16. i = 0 \/ i = 1 \/ i = 2 \/ i = 3
    OBVIOUS
  <1> QED BY <1>11, <1>12, <1>13, <1>14, <1>16, Zenon

\* A row begins with the mode set for its page.
LEMMA RowScript ==
    ASSUME NEW k \in Kinds, NEW r \in Rows
    PROVE  RowsFrom(k, r) = << <<"mode", "command">> >> \o (Left(Byte(k, r, Page), 0) \o After(k, r, Page))
  <1> DEFINE S == Seq(DrawOps)
             a == << <<"mode", "command">> >>
             b == Send(<<"page", r>>)
             c == Send(<<"column", First(k)>>)
             d == << <<"mode", "data">> >>
             e == DataFrom(k, r, First(k))
             f == RowsFrom(k, r + 1)
             ab == a \o b
             abc == ab \o c
             abcd == abc \o d
             ef == e \o f
             def == d \o ef
             cdef == c \o def
  <1>1. a \in S /\ b \in S /\ c \in S /\ d \in S /\ e \in S /\ f \in S
    BY AddressType, DataFirst, FirstType, RowsFirst
  <1>2. RowsFrom(k, r) = (abcd \o e) \o f
    BY RowsFirst DEF Row, Address
  <1>3. Byte(k, r, Page) = <<"page", r>> /\ Byte(k, r, Column) = <<"column", First(k)>> /\ Page # Column
    BY DEF Byte, Page, Column
  <1>4. Left(Byte(k, r, Page), 0) \o After(k, r, Page) = b \o cdef
    BY <1>3 DEF Left, Send, After
  <1> HIDE DEF a, b, c, d, e, f
  <1>5. ab \in S /\ ef \in S
    BY <1>1, Closed
  <1>6. abc \in S /\ def \in S
    <2> HIDE DEF ab, ef
    <2> QED BY <1>1, <1>5, Closed
  <1>7. abcd \in S /\ cdef \in S
    <2> HIDE DEF abc, def
    <2> QED BY <1>1, <1>6, Closed
  <1>8. (abcd \o e) \o f = abcd \o ef
    <2>1. abcd \in S /\ e \in S /\ f \in S
      BY <1>1, <1>7
    <2> HIDE DEF abcd
    <2> QED BY <2>1, Associates
  <1>9. abcd \o ef = abc \o def
    <2>1. abc \in S /\ d \in S /\ ef \in S
      BY <1>1, <1>5, <1>6
    <2> HIDE DEF abc, ef
    <2> QED BY <2>1, Associates
  <1>10. abc \o def = ab \o cdef
    <2>1. ab \in S /\ c \in S /\ def \in S
      BY <1>1, <1>5, <1>6
    <2> HIDE DEF ab, def
    <2> QED BY <2>1, Associates
  <1>11. ab \o cdef = a \o (b \o cdef)
    <2>1. a \in S /\ b \in S /\ cdef \in S
      BY <1>1, <1>7
    <2> HIDE DEF cdef
    <2> QED BY <2>1, Associates
  <1>12. (abcd \o e) \o f = a \o (b \o cdef)
    <2> HIDE DEF ab, abc, abcd, ef, def, cdef
    <2> QED BY <1>8, <1>9, <1>10, <1>11
  <1>13. RowsFrom(k, r) = a \o (b \o cdef)
    <2> HIDE DEF ab, abc, abcd, ef, def, cdef
    <2> QED BY <1>2, <1>12
  <1> QED
    <2> HIDE DEF ab, abc, abcd, ef, def, cdef
    <2> QED BY <1>4, <1>13 DEF a

LEMMA OneMore ==
    ASSUME NEW S, NEW x \in S, NEW t \in Seq(S)
    PROVE  /\ <<x>> \o t \in Seq(S) /\ <<x>> \o t # <<>>
           /\ Head(<<x>> \o t) = x /\ Tail(<<x>> \o t) = t
  OBVIOUS

\* The next operation, and what is left after it.
LEMMA ScriptStep ==
    ASSUME NEW k \in Kinds, NEW r \in Rows, NEW n, NEW i, Within(k, n, i)
    PROVE  /\ Script(k, r, n, i) \in Seq(DrawOps) /\ Script(k, r, n, i) # <<>>
           /\ Head(Script(k, r, n, i)) = Op(k, r, n, i)
           /\ i < 3 => Tail(Script(k, r, n, i)) = Script(k, r, n, i + 1)
           /\ i = 3 => Tail(Script(k, r, n, i)) = After(k, r, n)
  <1>1. n \in Bytes(k) /\ i \in -1 .. 3 /\ (i = -1 => n \in {Page, First(k)})
    BY DEF Within
  <1>2. CASE i = -1
    <2>1. ~(i = 3) /\ i < 3 /\ i + 1 = 0
      BY <1>2
    <2> DEFINE b == Byte(k, r, n)
               t == Left(b, 0) \o After(k, r, n)
               m == <<"mode", IF n = Page THEN "command" ELSE "data">>
    <2>2. t \in Seq(DrawOps)
      <3>1. Left(b, 0) = Send(b)
        BY DEF Left, Send
      <3>2. Send(b) \in Seq(DrawOps) /\ After(k, r, n) \in Seq(DrawOps)
        BY <1>1, ByteType, AfterType
      <3> HIDE DEF b
      <3> QED BY <3>1, <3>2, Closed DEF t
    <2>3. m \in DrawOps
      BY DEF DrawOps
    <2>4. Script(k, r, n, i) = <<m>> \o t
      <3>1. CASE n = Page
        <4>1. Script(k, r, n, i) = RowsFrom(k, r)
          BY <1>2, <3>1 DEF Script
        <4> QED BY <3>1, <4>1, RowScript
      <3>2. CASE n # Page
        <4>1. n = First(k) /\ n # Column /\ n \in First(k) .. Cols - 1
          BY <1>1, <1>2, <3>2, BytesApart, FirstType
        <4>2. Script(k, r, n, i) = << <<"mode", "data">> >> \o (DataFrom(k, r, First(k)) \o RowsFrom(k, r + 1))
          BY <1>2, <3>2, BytesApart DEF Script, After
        <4>3. DataFrom(k, r, n) = Send(b) \o DataFrom(k, r, n + 1)
          BY <4>1, DataFirst
        <4>4. After(k, r, n) = DataFrom(k, r, n + 1) \o RowsFrom(k, r + 1)
          BY <3>2, <4>1 DEF After
        <4>5. Send(b) \in Seq(DrawOps) /\ DataFrom(k, r, n + 1) \in Seq(DrawOps) /\ RowsFrom(k, r + 1) \in Seq(DrawOps)
          BY <1>1, <4>1, ByteType, DataFirst, RowsFirst
        <4>6. (Send(b) \o DataFrom(k, r, n + 1)) \o RowsFrom(k, r + 1)
                = Send(b) \o (DataFrom(k, r, n + 1) \o RowsFrom(k, r + 1))
          <5> HIDE DEF b
          <5> QED BY <4>5, Associates
        <4>7. Left(b, 0) = Send(b)
          BY DEF Left, Send
        <4> HIDE DEF b
        <4> QED BY <3>2, <4>1, <4>2, <4>3, <4>4, <4>6, <4>7 DEF t, m
      <3> QED BY <3>1, <3>2
    <2>5. Script(k, r, n, 0) = t
      BY DEF Script
    <2>6. Op(k, r, n, i) = m
      BY <1>2 DEF Op
    <2> HIDE DEF t, m
    <2>7. /\ <<m>> \o t \in Seq(DrawOps) /\ <<m>> \o t # <<>>
          /\ Head(<<m>> \o t) = m /\ Tail(<<m>> \o t) = t
      BY <2>2, <2>3, OneMore
    <2> QED BY <2>1, <2>4, <2>5, <2>6, <2>7
  <1>3. CASE i # -1
    <2>1. i \in 0 .. 3
      BY <1>1, <1>3
    <2> DEFINE b == Byte(k, r, n)
               t == After(k, r, n)
    <2>2. Send(b) \in Seq(DrawOps) /\ t \in Seq(DrawOps)
      BY <1>1, ByteType, AfterType
    <2>3. Script(k, r, n, i) = Left(b, i) \o t
      BY <1>3 DEF Script
    <2>4. i < 3 => Script(k, r, n, i + 1) = Left(b, i + 1) \o t
      BY <2>1 DEF Script
    <2>5. Op(k, r, n, i) = Send(b)[i + 1]
      BY <2>1 DEF Op, Send
    <2> HIDE DEF b, t
    <2>6. /\ Left(b, i) \o t \in Seq(DrawOps) /\ Left(b, i) \o t # <<>>
          /\ Head(Left(b, i) \o t) = Send(b)[i + 1]
          /\ i < 3 => Tail(Left(b, i) \o t) = Left(b, i + 1) \o t
          /\ i = 3 => Tail(Left(b, i) \o t) = t
      BY <2>1, <2>2, LeftSteps
    <2> QED BY <2>3, <2>4, <2>5, <2>6 DEF t
  <1> QED BY <1>2, <1>3

\* A place: within a row, or past the last one.
Stands(k, r, n, i) == (r \in Rows /\ Within(k, n, i)) \/ (r = Lines /\ n = Page /\ i = -1)

\* The place after it.
Successor(k, r, n, i, rr, m, j) ==
    \/ i < 3 /\ rr = r /\ m = n /\ j = i + 1
    \/ i = 3 /\ n = Page /\ rr = r /\ m = Column /\ j = 0
    \/ i = 3 /\ n = Column /\ rr = r /\ m = First(k) /\ j = -1
    \/ i = 3 /\ n \in First(k) .. Cols - 2 /\ rr = r /\ m = n + 1 /\ j = 0
    \/ i = 3 /\ n = Cols - 1 /\ rr = r + 1 /\ m = Page /\ j = -1

Place(s, k, rest, r, n, i) == Stands(k, r, n, i) /\ s = Script(k, r, n, i) \o rest

\* What is left after a byte is what is left from the place after it on.
LEMMA AfterNext ==
    ASSUME NEW k \in Kinds, NEW r \in Rows, NEW n \in Bytes(k)
    PROVE  \E rr, m, j : /\ Successor(k, r, n, 3, rr, m, j) /\ Stands(k, rr, m, j)
                         /\ After(k, r, n) = Script(k, rr, m, j)
  <1>1. CASE n = Page
    <2>1. After(k, r, n) = Script(k, r, Column, 0)
      <3>1. Left(Byte(k, r, Column), 0) = Send(Byte(k, r, Column))
        BY DEF Left, Send
      <3> DEFINE t == << <<"mode", "data">> >> \o (DataFrom(k, r, First(k)) \o RowsFrom(k, r + 1))
      <3>2. After(k, r, Page) = Send(Byte(k, r, Column)) \o t
        BY DEF After
      <3>3. After(k, r, Column) = t
        BY BytesApart DEF After
      <3> HIDE DEF t
      <3>4. Script(k, r, Column, 0) = Left(Byte(k, r, Column), 0) \o After(k, r, Column)
        BY BytesApart DEF Script
      <3> QED BY <1>1, <3>1, <3>2, <3>3, <3>4
    <2>2. Stands(k, r, Column, 0) /\ Successor(k, r, n, 3, r, Column, 0)
      BY <1>1, BytesApart DEF Stands, Within, Successor
    <2> QED BY <2>1, <2>2
  <1>2. CASE n = Column
    <2>1. After(k, r, n) = Script(k, r, First(k), -1)
      BY <1>2, BytesApart, FirstType DEF Script
    <2>2. Stands(k, r, First(k), -1) /\ Successor(k, r, n, 3, r, First(k), -1)
      BY <1>2, BytesApart DEF Stands, Within, Successor
    <2> QED BY <2>1, <2>2
  <1>3. CASE n \in First(k) .. Cols - 2
    <2>1. n + 1 \in First(k) .. Cols - 1 /\ n + 1 \in Bytes(k) /\ n \in First(k) .. Cols - 1
      BY <1>3, Sizes DEF Bytes, Places
    <2>2. n # Page /\ n # Column /\ n + 1 # Page /\ n + 1 # Column
      BY <2>1, BytesApart
    <2> DEFINE b == Byte(k, r, n + 1)
               d == DataFrom(k, r, (n + 1) + 1)
               f == RowsFrom(k, r + 1)
    <2>3. After(k, r, n) = (Send(b) \o d) \o f
      BY <2>1, <2>2, DataFirst DEF After
    <2>4. Script(k, r, n + 1, 0) = Left(b, 0) \o (d \o f)
      BY <2>2 DEF Script, After
    <2>5. Left(b, 0) = Send(b)
      BY DEF Left, Send
    <2>6. Send(b) \in Seq(DrawOps) /\ d \in Seq(DrawOps) /\ f \in Seq(DrawOps)
      BY <2>1, ByteType, DataFirst, RowsFirst
    <2>7. Stands(k, r, n + 1, 0) /\ Successor(k, r, n, 3, r, n + 1, 0)
      BY <1>3, <2>1 DEF Stands, Within, Successor
    <2> HIDE DEF b, d, f
    <2>8. (Send(b) \o d) \o f = Send(b) \o (d \o f)
      BY <2>6, Associates
    <2>9. After(k, r, n) = Script(k, r, n + 1, 0)
      BY <2>3, <2>4, <2>5, <2>8
    <2> QED BY <2>7, <2>9
  <1>4. CASE n = Cols - 1
    <2>1. n # Page /\ n # Column /\ n + 1 = Cols /\ r + 1 \in 0 .. Lines
      BY <1>4, BytesApart, Sizes DEF Rows, Page, Column
    <2>2. After(k, r, n) = RowsFrom(k, r + 1)
      <3>1. After(k, r, n) = DataFrom(k, r, Cols) \o RowsFrom(k, r + 1)
        BY <2>1 DEF After
      <3>2. DataFrom(k, r, Cols) = <<>>
        BY DataNone
      <3>3. <<>> \o RowsFrom(k, r + 1) = RowsFrom(k, r + 1)
        BY RowsFirst
      <3> QED BY <3>1, <3>2, <3>3
    <2>3. After(k, r, n) = Script(k, r + 1, Page, -1)
      BY <2>2 DEF Script
    <2>4. r + 1 \in Rows \/ r + 1 = Lines
      BY <2>1, Sizes DEF Rows
    <2>5. Stands(k, r + 1, Page, -1) /\ Successor(k, r, n, 3, r + 1, Page, -1)
      BY <1>4, <2>4, BytesApart DEF Stands, Within, Successor
    <2> QED BY <2>3, <2>5
  <1>5. n = Page \/ n = Column \/ n \in First(k) .. Cols - 2 \/ n = Cols - 1
    BY BytesApart, Sizes DEF Places
  <1> QED BY <1>1, <1>2, <1>3, <1>4, <1>5

\* With what the programs do between updates.
AllOps == DrawOps \cup {<<"labinit">>, <<"labwork">>, <<"tick">>}

LEMMA Widens == ASSUME NEW s \in Seq(DrawOps) PROVE s \in Seq(AllOps)
  BY SeqMonotonic DEF AllOps

\* A thread that is not past the last row goes on to the next place.
LEMMA PlaceStep ==
    ASSUME NEW k \in Kinds, NEW s, NEW rest \in Seq(AllOps), NEW r \in Rows, NEW n, NEW i,
           Place(s, k, rest, r, n, i)
    PROVE  /\ s \in Seq(AllOps) /\ s # <<>> /\ Head(s) = Op(k, r, n, i) /\ Within(k, n, i)
           /\ \E rr, m, j : Successor(k, r, n, i, rr, m, j) /\ Place(Tail(s), k, rest, rr, m, j)
  <1> DEFINE t == Script(k, r, n, i)
  <1>1. Within(k, n, i) /\ s = t \o rest
    BY Sizes DEF Place, Stands, Rows
  <1>2. n \in Bytes(k) /\ i \in -1 .. 3
    BY <1>1 DEF Within
  <1>3. /\ t \in Seq(DrawOps) /\ t # <<>> /\ Head(t) = Op(k, r, n, i)
        /\ i < 3 => Tail(t) = Script(k, r, n, i + 1)
        /\ i = 3 => Tail(t) = After(k, r, n)
    BY <1>1, ScriptStep
  <1>4. t \in Seq(AllOps)
    BY <1>3, Widens
  <1> HIDE DEF t
  <1>5. /\ t \o rest \in Seq(AllOps) /\ t \o rest # <<>>
        /\ Head(t \o rest) = Head(t) /\ Tail(t \o rest) = Tail(t) \o rest
    BY <1>3, <1>4, Joined
  <1>6. \E rr, m, j : Successor(k, r, n, i, rr, m, j) /\ Place(Tail(s), k, rest, rr, m, j)
    <2>1. CASE i < 3
      <3>1. Tail(s) = Script(k, r, n, i + 1) \o rest
        BY <1>1, <1>3, <1>5, <2>1
      <3>2. Stands(k, r, n, i + 1) /\ Successor(k, r, n, i, r, n, i + 1)
        BY <1>2, <2>1 DEF Stands, Within, Successor
      <3> QED BY <3>1, <3>2 DEF Place
    <2>2. CASE i = 3
      <3>1. PICK rr, m, j : /\ Successor(k, r, n, 3, rr, m, j) /\ Stands(k, rr, m, j)
                            /\ After(k, r, n) = Script(k, rr, m, j)
        BY <1>2, AfterNext
      <3>2. Tail(s) = Script(k, rr, m, j) \o rest
        BY <1>1, <1>3, <1>5, <2>2, <3>1
      <3> QED BY <2>2, <3>1, <3>2 DEF Place
    <2> QED BY <1>2, <2>1, <2>2
  <1> QED BY <1>1, <1>3, <1>5, <1>6

-----------------------------------------------------------------------------
(* What the display has got when a thread stands at a place.               *)

PanelOk ==
    /\ panel.page \in Rows /\ panel.col \in Places
    /\ panel = [page |-> panel.page, col |-> panel.col, ram |-> panel.ram]
    /\ panel.ram = [r \in Rows |-> panel.ram[r]]
    /\ \A r \in Rows : panel.ram[r] = [j \in Places |-> panel.ram[r][j]]

CellsShown == \A r \in Rows, j \in 0 .. Cols - 2 : panel.ram[r][j] = <<"cell", textbuffer[r][j]>>
IconsShown == \A r \in Rows : panel.ram[r][Cols - 1] = Icon

Cell(k, r, j) == IF k = "cells" THEN <<"cell", textbuffer[r][j]>> ELSE Icon

\* The bytes before byte n of row r have arrived.
Arrived(k, r, n) ==
    /\ PanelOk
    /\ \A q \in Rows, j \in First(k) .. Cols - 1 : q < r \/ (q = r /\ j < n) => panel.ram[q][j] = Cell(k, q, j)
    /\ k = "icons" => CellsShown
    /\ n # Page => panel.page = r
    /\ n \notin {Page, Column} => panel.col = IF n = Cols THEN 0 ELSE n

\* The byte that is due once byte n has arrived.
NextByte(k, n) == IF n = Page THEN Column ELSE IF n = Column THEN First(k) ELSE n + 1

\* What is written for byte n.
Sent(k, r, n) == IF k = "cells" /\ n \notin {Page, Column} THEN Cell(k, r, n) ELSE Byte(k, r, n)

\* No byte is under way.
Idle == txb = None /\ sr = None /\ rbf = FALSE

Mode(k, n, i) == (i = -1 /\ n = Page) \/ mode = IF n \in {Page, Column} \/ i = -1 THEN "command" ELSE "data"

State(k, r, n, i) ==
    /\ Mode(k, n, i) /\ txb = None
    /\ i \in {-1, 0, 1} => sr = None /\ rbf = FALSE /\ Arrived(k, r, n)
    /\ i = 2 => \/ sr = Sent(k, r, n) /\ rbf = FALSE /\ Arrived(k, r, n)
                \/ sr = None /\ rbf = TRUE /\ Arrived(k, r, NextByte(k, n))
    /\ i = 3 => sr = None /\ rbf = TRUE /\ Arrived(k, r, NextByte(k, n))

\* What has arrived stays until the display or the text changes.
LEMMA ArrivedKept ==
    ASSUME NEW k, NEW r, NEW n, Arrived(k, r, n), UNCHANGED <<panel, textbuffer>>
    PROVE  Arrived(k, r, n)'
  BY DEF Arrived, PanelOk, CellsShown, Cell

LEMMA SentKept ==
    ASSUME NEW k, NEW r, NEW n, UNCHANGED textbuffer
    PROVE  Sent(k, r, n)' = Sent(k, r, n)
  BY DEF Sent, Cell

\* The mode is set, and what is waited for is there.
LEMMA StateGoesOn ==
    ASSUME NEW k \in Kinds, NEW r \in Rows, NEW n, NEW i, Within(k, n, i), State(k, r, n, i),
           UNCHANGED <<panel, textbuffer, txb, sr, rbf>>,
           \/ i = -1 /\ mode' = Op(k, r, n, i)[2]
           \/ i = 0 /\ mode' = mode
           \/ i = 2 /\ rbf /\ mode' = mode
    PROVE  State(k, r, n, i + 1)'
  <1>1. n \in Bytes(k) /\ i \in -1 .. 3 /\ (i = -1 => n \in {Page, First(k)}) /\ First(k) \notin {Page, Column} /\ Page # Column
    BY BytesApart, FirstType DEF Within
  <1>2. Arrived(k, r, n) => Arrived(k, r, n)'
    BY ArrivedKept
  <1>3. Arrived(k, r, NextByte(k, n)) => Arrived(k, r, NextByte(k, n))'
    BY ArrivedKept DEF NextByte
  <1> HIDE DEF Bytes, Kinds, Rows, Page, Column
  <1>4. CASE i = -1 /\ mode' = Op(k, r, n, i)[2]
    <2>1. mode' = IF n = Page THEN "command" ELSE "data"
      BY <1>4 DEF Op
    <2>2. Mode(k, n, 0)'
      BY <1>1, <1>4, <2>1 DEF Mode
    <2> QED BY <1>2, <1>4, <2>2 DEF State
  <1>5. CASE i = 0 /\ mode' = mode
    <2>1. Mode(k, n, 1)'
      BY <1>5 DEF State, Mode
    <2> QED BY <1>2, <1>5, <2>1 DEF State
  <1>6. CASE i = 2 /\ rbf /\ mode' = mode
    <2>1. Mode(k, n, 3)'
      BY <1>6 DEF State, Mode
    <2> QED BY <1>3, <1>6, <2>1 DEF State
  <1> QED BY <1>4, <1>5, <1>6

\* A byte is written to the shift register.
LEMMA StateWrites ==
    ASSUME NEW k \in Kinds, NEW r \in Rows, NEW n, Within(k, n, 1), State(k, r, n, 1),
           UNCHANGED <<panel, textbuffer, txb, rbf, mode>>, sr' = Sent(k, r, n)
    PROVE  State(k, r, n, 2)'
  <1>1. Arrived(k, r, n) => Arrived(k, r, n)'
    BY ArrivedKept
  <1>2. Sent(k, r, n)' = Sent(k, r, n)
    BY SentKept
  <1>3. Mode(k, n, 2)'
    BY DEF State, Mode
  <1> QED BY <1>1, <1>2, <1>3 DEF State

\* A row that has arrived is a row done.
LEMMA RowDone ==
    ASSUME NEW k \in Kinds, NEW r \in Rows, Arrived(k, r, Cols)
    PROVE  Arrived(k, r + 1, Page)
  <1>1. r \in Int /\ \A q \in Rows : q \in Int /\ (q < r + 1 => q < r \/ q = r)
    BY Sizes DEF Rows
  <1>2. First(k) \in Int /\ \A j \in First(k) .. Cols - 1 : j < Cols
    BY Sizes DEF Places
  <1>3. \A q \in Rows, j \in First(k) .. Cols - 1 :
           q < r + 1 \/ (q = r + 1 /\ j < Page) => panel.ram[q][j] = Cell(k, q, j)
    <2> TAKE q \in Rows, j \in First(k) .. Cols - 1
    <2>1. q = r + 1 => ~(j < Page)
      BY <1>2, Sizes DEF Page, Places
    <2> QED BY <1>1, <1>2, <2>1 DEF Arrived
  <1> QED BY <1>3 DEF Arrived

\* The byte has been received: the answer is read, and the next byte's turn comes.
LEMMA StateReads ==
    ASSUME NEW k \in Kinds, NEW r \in Rows, NEW n, Within(k, n, 3), State(k, r, n, 3),
           UNCHANGED <<panel, textbuffer, txb, sr, mode>>, rbf' = FALSE,
           NEW rr, NEW m, NEW j, Successor(k, r, n, 3, rr, m, j)
    PROVE  State(k, rr, m, j)'
  <1>1. /\ mode = IF n \in {Page, Column} THEN "command" ELSE "data"
        /\ txb = None /\ sr = None /\ Arrived(k, r, NextByte(k, n))
    BY DEF State, Mode
  <1>2. Idle'
    BY <1>1 DEF Idle
  <1>3. \A x, y : Arrived(k, x, y) => Arrived(k, x, y)'
    BY ArrivedKept
  <1>4. CASE n = Page /\ rr = r /\ m = Column /\ j = 0
    <2>1. Arrived(k, r, Column)'
      BY <1>1, <1>3, <1>4 DEF NextByte
    <2>2. Mode(k, Column, 0)'
      BY <1>1, <1>4 DEF Mode
    <2> QED BY <1>2, <1>4, <2>1, <2>2 DEF State, Idle
  <1>5. CASE n = Column /\ rr = r /\ m = First(k) /\ j = -1
    <2>1. Arrived(k, r, First(k))'
      BY <1>1, <1>3, <1>5, BytesApart DEF NextByte
    <2>2. Mode(k, First(k), -1)'
      BY <1>1, <1>5 DEF Mode
    <2> QED BY <1>2, <1>5, <2>1, <2>2 DEF State, Idle
  <1>6. CASE n \in First(k) .. Cols - 2 /\ rr = r /\ m = n + 1 /\ j = 0
    <2>1. n \in First(k) .. Cols - 1 /\ n + 1 \in First(k) .. Cols - 1
      BY <1>6, Sizes DEF Places
    <2>2. n # Page /\ n # Column /\ n + 1 # Page /\ n + 1 # Column
      BY <2>1, BytesApart
    <2>3. Arrived(k, r, n + 1)'
      BY <1>1, <1>3, <2>2 DEF NextByte
    <2>4. Mode(k, n + 1, 0)'
      BY <1>1, <2>2 DEF Mode
    <2> QED BY <1>2, <1>6, <2>3, <2>4 DEF State, Idle
  <1>7. CASE n = Cols - 1 /\ rr = r + 1 /\ m = Page /\ j = -1
    <2>1. n # Page /\ n # Column /\ n + 1 = Cols
      BY <1>7, Sizes DEF Page, Column
    <2>2. Arrived(k, r + 1, Page)
      BY <1>1, <2>1, RowDone DEF NextByte
    <2>3. Arrived(k, r + 1, Page)'
      BY <1>3, <2>2
    <2>4. Mode(k, Page, -1)'
      BY DEF Mode
    <2> QED BY <1>2, <1>7, <2>3, <2>4 DEF State, Idle
  <1> QED BY <1>4, <1>5, <1>6, <1>7 DEF Successor

\* Nothing is spoilt by a byte that arrives in its mode.
LEMMA ArriveCases ==
    ASSUME NEW b, PanelOk
    PROVE  /\ b[1] = "page" /\ mode = "command" => Arrive(b) = [panel EXCEPT !.page = b[2]]
           /\ b[1] = "column" /\ mode = "command" => Arrive(b) = [panel EXCEPT !.col = b[2]]
           /\ b[1] \in {"cell", "icon"} /\ mode = "data" =>
                 Arrive(b) = [panel EXCEPT !.col = (panel.col + 1) % Cols, !.ram[panel.page][panel.col] = b]
  <1>1. panel # Spoilt
    <2>1. Spoilt.page = Lines
      BY DEF Spoilt
    <2>2. panel.page # Lines
      BY Sizes DEF PanelOk, Rows
    <2> QED BY <2>1, <2>2
  <1>2. b[1] = "page" /\ mode = "command" => Arrive(b) = [panel EXCEPT !.page = b[2]]
    BY <1>1 DEF Arrive
  <1>3. b[1] = "column" /\ mode = "command" => Arrive(b) = [panel EXCEPT !.col = b[2]]
    BY <1>1 DEF Arrive
  <1>4. b[1] \in {"cell", "icon"} /\ mode = "data" =>
           Arrive(b) = [panel EXCEPT !.col = (panel.col + 1) % Cols, !.ram[panel.page][panel.col] = b]
    BY <1>1 DEF Arrive
  <1> QED BY <1>2, <1>3, <1>4

\* The column goes on, and from the last to the first.
LEMMA NextColumn ==
    ASSUME NEW c \in Places
    PROVE  (c + 1) % Cols = IF c + 1 = Cols THEN 0 ELSE c + 1
  <1>1. Cols \in Nat \ {0}
    BY Sizes
  <1>2. CASE c + 1 = Cols
    <2>1. Cols = Cols * 1 + 0 /\ 0 \in 0 .. Cols - 1 /\ 1 \in Int
      BY <1>1
    <2>2. Cols % Cols = 0
      BY <1>1, <2>1, ModUnique
    <2> QED BY <1>2, <2>2
  <1>3. CASE c + 1 # Cols
    <2>1. c + 1 \in 0 .. Cols - 1
      BY <1>3, <1>1 DEF Places
    <2>2. (c + 1) % Cols = c + 1
      BY <1>1, <2>1, ModSmall
    <2> QED BY <1>3, <2>2
  <1> QED BY <1>2, <1>3

\* What is sent is a page, a column, or a cell.
LEMMA SentKind ==
    ASSUME NEW k \in Kinds, NEW r \in Rows, NEW n \in Bytes(k)
    PROVE  /\ n = Page => Sent(k, r, n)[1] = "page" /\ Sent(k, r, n)[2] = r
           /\ n = Column => Sent(k, r, n)[1] = "column" /\ Sent(k, r, n)[2] = First(k)
           /\ n \notin {Page, Column} => Sent(k, r, n)[1] \in {"cell", "icon"} /\ Sent(k, r, n) = Cell(k, r, n)
           /\ Sent(k, r, n) # None
  <1>1. CASE n = Page
    <2>1. Sent(k, r, n) = <<"page", r>>
      BY <1>1 DEF Sent, Byte
    <2> QED BY <1>1, <2>1, BytesApart DEF None
  <1>2. CASE n = Column
    <2>1. Sent(k, r, n) = <<"column", First(k)>>
      BY <1>2, BytesApart DEF Sent, Byte
    <2> QED BY <1>2, <2>1, BytesApart DEF None
  <1>3. CASE n \notin {Page, Column} /\ k = "cells"
    <2>1. Sent(k, r, n) = <<"cell", textbuffer[r][n]>>
      BY <1>3 DEF Sent, Cell
    <2> QED BY <1>3, <2>1 DEF None, Cell
  <1>4. CASE n \notin {Page, Column} /\ k # "cells"
    <2>1. Sent(k, r, n) = <<"icon">> /\ Cell(k, r, n) = <<"icon">>
      BY <1>4 DEF Sent, Cell, Byte, Icon
    <2> QED BY <1>4, <2>1 DEF None
  <1> QED BY <1>1, <1>2, <1>3, <1>4

\* A byte arrives in the mode it was meant for.
LEMMA ByteArrives ==
    ASSUME NEW k \in Kinds, NEW r \in Rows, NEW n \in Bytes(k), Arrived(k, r, n),
           mode = IF n \in {Page, Column} THEN "command" ELSE "data",
           panel' = Arrive(Sent(k, r, n)), UNCHANGED textbuffer
    PROVE  Arrived(k, r, NextByte(k, n))'
  <1> DEFINE b == Sent(k, r, n)
  <1>1. PanelOk
    BY DEF Arrived
  <1>2. First(k) \in Places /\ First(k) \in Int /\ \A x \in First(k) .. Cols - 1 : x \in Places /\ x \in Int
    BY Sizes DEF Places
  <1>3. CASE n = Page
    <2>1. panel' = [panel EXCEPT !.page = r]
      BY <1>1, <1>3, ArriveCases, SentKind
    <2>2. panel'.page = r /\ panel'.col = panel.col /\ panel'.ram = panel.ram
      BY <1>1, <2>1 DEF PanelOk
    <2>3. PanelOk'
      <3>1. panel' = [page |-> r, col |-> panel.col, ram |-> panel.ram]
        BY <1>1, <2>1 DEF PanelOk
      <3> QED BY <1>1, <2>2, <3>1 DEF PanelOk
    <2>4. NextByte(k, n) = Column /\ Column # Page
      BY <1>3, BytesApart DEF NextByte
    <2>5. \A x \in First(k) .. Cols - 1 : ~(x < Column) /\ ~(x < Page)
      BY <1>2, Sizes DEF Page, Column, Places
    <2>6. \A q \in Rows, j \in First(k) .. Cols - 1 :
             q < r \/ (q = r /\ j < Column) => panel'.ram[q][j] = Cell(k, q, j)'
      BY <2>2, <2>5 DEF Arrived, Cell
    <2>7. k = "icons" => CellsShown'
      BY <2>2 DEF Arrived, CellsShown
    <2> QED BY <2>2, <2>3, <2>4, <2>6, <2>7 DEF Arrived
  <1>4. CASE n = Column
    <2>1. panel' = [panel EXCEPT !.col = First(k)]
      BY <1>1, <1>4, BytesApart, ArriveCases, SentKind
    <2>2. panel'.page = panel.page /\ panel'.col = First(k) /\ panel'.ram = panel.ram
      BY <1>1, <2>1 DEF PanelOk
    <2>3. PanelOk'
      <3>1. panel' = [page |-> panel.page, col |-> First(k), ram |-> panel.ram]
        BY <1>1, <2>1 DEF PanelOk
      <3> QED BY <1>1, <1>2, <2>2, <3>1 DEF PanelOk
    <2>4. NextByte(k, n) = First(k) /\ Column # Page /\ panel.page = r /\ First(k) # Cols
      BY <1>2, <1>4, BytesApart, Sizes DEF NextByte, Arrived, Places
    <2>5. \A x \in First(k) .. Cols - 1 : ~(x < First(k)) /\ ~(x < Column)
      BY <1>2, Sizes DEF Column, Places
    <2>6. \A q \in Rows, j \in First(k) .. Cols - 1 :
             q < r \/ (q = r /\ j < First(k)) => panel'.ram[q][j] = Cell(k, q, j)'
      BY <2>2, <2>5 DEF Arrived, Cell
    <2>7. k = "icons" => CellsShown'
      BY <2>2 DEF Arrived, CellsShown
    <2> QED BY <2>2, <2>3, <2>4, <2>6, <2>7 DEF Arrived
  <1>5. CASE n \notin {Page, Column}
    <2>1. n \in First(k) .. Cols - 1 /\ n \in Places /\ n # Cols /\ n \in Int
      BY <1>2, <1>5, BytesApart, Sizes DEF Places
    <2>2. panel.page = r /\ panel.col = n /\ mode = "data" /\ b[1] \in {"cell", "icon"} /\ b = Cell(k, r, n)
      BY <1>5, <2>1, SentKind DEF Arrived
    <2>3. panel' = [panel EXCEPT !.col = (panel.col + 1) % Cols, !.ram[panel.page][panel.col] = b]
      BY <1>1, <2>2, ArriveCases
    <2> DEFINE c == IF n + 1 = Cols THEN 0 ELSE n + 1
    <2>4. (panel.col + 1) % Cols = c /\ c \in Places
      BY <2>1, <2>2, NextColumn, Sizes DEF Places
    <2>5. panel' = [page |-> panel.page, col |-> c, ram |-> [panel.ram EXCEPT ![r][n] = b]]
      BY <1>1, <2>2, <2>3, <2>4 DEF PanelOk
    <2>6. panel'.page = r /\ panel'.col = c /\ panel'.ram = [panel.ram EXCEPT ![r][n] = b]
      BY <2>2, <2>5
    <2> HIDE DEF c, b
    <2>7. \A q \in Rows, j \in Places :
             panel'.ram[q][j] = IF q = r /\ j = n THEN b ELSE panel.ram[q][j]
      <3> TAKE q \in Rows, j \in Places
      <3>1. panel.ram = [x \in Rows |-> panel.ram[x]] /\ panel.ram[r] = [y \in Places |-> panel.ram[r][y]]
        BY <1>1 DEF PanelOk
      <3> QED BY <2>1, <2>6, <3>1
    <2>8. PanelOk'
      <3>1. panel'.ram = [q \in Rows |-> panel'.ram[q]]
        BY <1>1, <2>6 DEF PanelOk
      <3>2. ASSUME NEW q \in Rows PROVE panel'.ram[q] = [j \in Places |-> panel'.ram[q][j]]
        <4>1. panel.ram = [x \in Rows |-> panel.ram[x]] /\ panel.ram[q] = [y \in Places |-> panel.ram[q][y]]
              /\ panel.ram[r] = [y \in Places |-> panel.ram[r][y]]
          BY <1>1 DEF PanelOk
        <4> QED BY <2>1, <2>6, <4>1
      <3>3. panel' = [page |-> panel'.page, col |-> panel'.col, ram |-> panel'.ram]
        BY <2>5, <2>6
      <3> QED BY <2>4, <2>6, <3>1, <3>2, <3>3 DEF PanelOk
    <2>9. NextByte(k, n) = n + 1 /\ n + 1 # Page /\ n + 1 # Column /\ n + 1 \in Int
      BY <1>5, <2>1, Sizes DEF NextByte, Page, Column, Places
    <2>10. \A q \in Rows, j \in First(k) .. Cols - 1 :
             q < r \/ (q = r /\ j < n + 1) => panel'.ram[q][j] = Cell(k, q, j)'
      <3> TAKE q \in Rows, j \in First(k) .. Cols - 1
      <3>1. Cell(k, q, j)' = Cell(k, q, j)
        BY DEF Cell
      <3>2. CASE q = r /\ j = n
        BY <1>2, <2>2, <2>7, <3>1, <3>2
      <3>3. CASE ~(q = r /\ j = n)
        <4>1. panel'.ram[q][j] = panel.ram[q][j]
          BY <1>2, <2>7, <3>3
        <4>2. q < r \/ (q = r /\ j < n + 1) => q < r \/ (q = r /\ j < n)
          BY <1>2, <2>1, <3>3
        <4> QED BY <3>1, <4>1, <4>2 DEF Arrived
      <3> QED BY <3>2, <3>3
    <2>11. k = "icons" => CellsShown'
      <3> SUFFICES ASSUME k = "icons", NEW q \in Rows, NEW j \in 0 .. Cols - 2
                   PROVE  panel'.ram[q][j] = <<"cell", textbuffer[q][j]>>
        BY DEF CellsShown
      <3>1. n = Cols - 1 /\ j \in Places /\ j # n
        BY <2>1, Sizes DEF First, Places
      <3>2. panel'.ram[q][j] = panel.ram[q][j]
        BY <2>7, <3>1
      <3> QED BY <3>2 DEF Arrived, CellsShown
    <2>12. panel'.col = IF n + 1 = Cols THEN 0 ELSE n + 1
      BY <2>6 DEF c
    <2> QED BY <2>6, <2>8, <2>9, <2>10, <2>11, <2>12 DEF Arrived
  <1> QED BY <1>3, <1>4, <1>5

\* The SPI shifts only while a byte is waited for.
LEMMA StateShifts ==
    ASSUME NEW k \in Kinds, NEW r \in Rows, NEW n, NEW i, Within(k, n, i), State(k, r, n, i), Shift
    PROVE  State(k, r, n, i)'
  <1>1. n \in Bytes(k) /\ i \in -1 .. 3
    BY DEF Within
  <1>2. i = 2 /\ sr = Sent(k, r, n) /\ Arrived(k, r, n) /\ txb = None
    BY <1>1 DEF State, Shift
  <1>3. mode = IF n \in {Page, Column} THEN "command" ELSE "data"
    BY <1>2 DEF State, Mode
  <1>4. sr' = None /\ txb' = None /\ rbf' = TRUE /\ panel' = Arrive(Sent(k, r, n)) /\ mode' = mode /\ textbuffer' = textbuffer
    BY <1>2 DEF Shift, program
  <1>5. Arrived(k, r, NextByte(k, n))'
    BY <1>1, <1>2, <1>3, <1>4, ByteArrives
  <1>6. Mode(k, n, 2)'
    BY <1>3, <1>4 DEF Mode
  <1> QED BY <1>2, <1>4, <1>5, <1>6 DEF State

-----------------------------------------------------------------------------
(* What the two threads are doing.                                         *)

labworkOps == << <<"labwork">> >>
labinitOps == << <<"labinit">> >>
StartRest == display_image \o labinitOps
tickOps == << <<"tick">> >>
SecondRest == tickOps \o (display_image \o labworkOps)
Rests == {StartRest, labinitOps, SecondRest, labworkOps, tickOps}

\* s draws, and has rest to do after it.
Live(s, k, rest) ==
    \E r \in Rows, n \in Bytes(k), i \in -1 .. 3 : Place(s, k, rest, r, n, i) /\ (clean => State(k, r, n, i))
Done(s, k, rest) == s = rest /\ (clean => State(k, Lines, Page, -1))
Drawing(s, k, rest) == Live(s, k, rest) \/ Done(s, k, rest)

\* s writes a text, and has an update and rest to do after it.
WritingAt(s, rest) ==
    \E q \in 0 .. Cols :
        /\ Len(s) = q + Len(display_update \o rest) /\ \A x \in 1 .. q : s[x][1] = "char"
        /\ s = [x \in 1 .. q |-> s[x]] \o (display_update \o rest)
Writing(s, rest) == WritingAt(s, rest) /\ (clean => Idle /\ PanelOk)

\* The timeouts are all accounted for, with p seconds still to be ticked.
Owing(p) ==
    lab = "io" \/ (seen = ~flag /\ expired = Period * (ticks + p) + timeoutcount + (IF flag THEN 1 ELSE 0))

MainStarts == Drawing(main, "cells", StartRest) \/ Drawing(main, "icons", labinitOps)

\* In "io" and "timer".
Alone ==
    /\ isr = None
    /\ \/ MainStarts /\ Owing(0)
       \/ (Writing(main, SecondRest) \/ Drawing(main, "cells", SecondRest)) /\ Owing(1)
       \/ Drawing(main, "icons", labworkOps) /\ Owing(0)

\* In "interrupts": the routine is not at work yet, or is.
Resting == \E k \in Kinds : Done(main, k, labworkOps)
Updating == Len(main) <= Len(display_update) /\ Live(main, "cells", labworkOps)
MainWorks == Resting \/ Writing(main, labworkOps) \/ Updating

Shortly ==
    \/ isr = None /\ Owing(0)
    \/ isr = << <<"clear">>, <<"count">> >> /\ flag /\ Owing(0)
    \/ /\ isr = << <<"count">> >> /\ ~flag /\ ~seen
       /\ expired = Period * ticks + timeoutcount + 1
Calmly == Shortly /\ MainWorks

\* The main loop waits, wherever it was interrupted.
MainWaits == main = labworkOps \/ WritingAt(main, labworkOps) \/ (~clean /\ Updating)
Busily == (Writing(isr, tickOps) \/ Drawing(isr, "cells", tickOps)) /\ Owing(1) /\ MainWaits

Interrupted == (MainStarts /\ isr = None /\ Owing(0)) \/ Calmly \/ Busily

Numbers ==
    /\ lab \in {"io", "timer", "interrupts"}
    /\ flag \in BOOLEAN /\ seen \in BOOLEAN /\ clean \in BOOLEAN
    /\ timeoutcount \in 0 .. Period - 1 /\ ticks \in Nat /\ expired \in Nat

LabInv == Numbers /\ IF lab = "interrupts" THEN Interrupted ELSE Alone

-----------------------------------------------------------------------------
(* A thread that draws, step by step.                                      *)

Unit(b) == IF b[1] = "cell" THEN <<"cell", textbuffer[b[2]][b[3]]>> ELSE b

\* What the step that s begins with does besides being done.
DrawStep(s) ==
    \/ Head(s)[1] = "mode" /\ mode' = Head(s)[2] /\ UNCHANGED <<program, timer, spi, panel, clean>>
    \/ Head(s)[1] = "tbe" /\ txb = None /\ UNCHANGED <<program, timer, spi, mode, panel, clean>>
    \/ /\ Head(s)[1] = "write"
       /\ IF sr = None THEN sr' = Unit(Head(s)[2]) /\ UNCHANGED txb ELSE txb' = Unit(Head(s)[2]) /\ UNCHANGED sr
       /\ UNCHANGED <<program, timer, rbf, mode, panel, clean>>
    \/ Head(s)[1] = "rbf" /\ rbf /\ UNCHANGED <<program, timer, spi, mode, panel, clean>>
    \/ Head(s)[1] = "read" /\ rbf' = FALSE /\ UNCHANGED <<program, timer, txb, sr, mode, panel, clean>>

\* The step at a place, by its number.
LEMMA OpKinds ==
    ASSUME NEW k, NEW r, NEW n, NEW i \in -1 .. 3
    PROVE  /\ Op(k, r, n, i)[1] = IF i = -1 THEN "mode" ELSE IF i = 0 THEN "tbe" ELSE IF i = 1 THEN "write"
                                  ELSE IF i = 2 THEN "rbf" ELSE "read"
           /\ i = 1 => Op(k, r, n, i)[2] = Byte(k, r, n)
  BY DEF Op

\* What Write takes from the step is what is sent.
LEMMA UnitSent ==
    ASSUME NEW k \in Kinds, NEW r \in Rows, NEW n \in Bytes(k)
    PROVE  Unit(Byte(k, r, n)) = Sent(k, r, n)
  <1>1. Page # Column
    BY BytesApart
  <1> QED BY <1>1 DEF Unit, Byte, Sent, Cell, Icon, Kinds

\* A step of a thread that draws takes the display along.
LEMMA StateSteps ==
    ASSUME NEW k \in Kinds, NEW r \in Rows, NEW n, NEW i, Within(k, n, i), State(k, r, n, i),
           NEW s, Head(s) = Op(k, r, n, i), DrawStep(s),
           NEW rr, NEW m, NEW j, Successor(k, r, n, i, rr, m, j)
    PROVE  State(k, rr, m, j)'
  <1>1. i \in -1 .. 3 /\ n \in Bytes(k)
    BY DEF Within
  <1>2. /\ Head(s)[1] = IF i = -1 THEN "mode" ELSE IF i = 0 THEN "tbe" ELSE IF i = 1 THEN "write"
                        ELSE IF i = 2 THEN "rbf" ELSE "read"
        /\ i = 1 => Head(s)[2] = Byte(k, r, n)
    BY <1>1, OpKinds
  <1>3. UNCHANGED <<panel, textbuffer>>
    BY DEF DrawStep, program, spi
  <1>4. CASE i = -1
    <2>1. mode' = Op(k, r, n, i)[2] /\ UNCHANGED <<txb, sr, rbf>>
      BY <1>2, <1>4 DEF DrawStep, spi
    <2>2. rr = r /\ m = n /\ j = i + 1
      BY <1>4 DEF Successor
    <2>3. State(k, r, n, i + 1)'
      BY <1>3, <1>4, <2>1, StateGoesOn
    <2> QED BY <2>2, <2>3
  <1>5. CASE i = 0 \/ i = 2
    <2>1. mode' = mode /\ UNCHANGED <<txb, sr, rbf>> /\ (i = 2 => rbf)
      BY <1>2, <1>5 DEF DrawStep, spi
    <2>2. rr = r /\ m = n /\ j = i + 1
      BY <1>5 DEF Successor
    <2>3. State(k, r, n, i + 1)'
      BY <1>3, <1>5, <2>1, StateGoesOn
    <2> QED BY <2>2, <2>3
  <1>6. CASE i = 1
    <2>1. sr = None
      BY <1>6 DEF State
    <2>2. sr' = Unit(Byte(k, r, n)) /\ UNCHANGED <<txb, rbf, mode>>
      BY <1>2, <1>6, <2>1 DEF DrawStep
    <2>3. sr' = Sent(k, r, n)
      BY <1>1, <2>2, UnitSent
    <2>4. rr = r /\ m = n /\ j = 2
      BY <1>6 DEF Successor
    <2>5. State(k, r, n, 2)'
      BY <1>3, <1>6, <2>2, <2>3, StateWrites
    <2> QED BY <2>4, <2>5
  <1>7. CASE i = 3
    <2>1. rbf' = FALSE /\ UNCHANGED <<txb, sr, mode>>
      BY <1>2, <1>7 DEF DrawStep
    <2>2. Successor(k, r, n, 3, rr, m, j) /\ Within(k, n, 3) /\ State(k, r, n, 3)
      BY <1>7
    <2> QED BY <1>3, <2>1, <2>2, StateReads
  <1> QED BY <1>1, <1>4, <1>5, <1>6, <1>7

\* A thread that draws has one of the five steps of a byte before it.
LEMMA LiveHead ==
    ASSUME NEW s, NEW k \in Kinds, NEW rest \in Seq(AllOps), Live(s, k, rest)
    PROVE  s \in Seq(AllOps) /\ s # <<>> /\ Head(s)[1] \in {"mode", "tbe", "write", "rbf", "read"}
  <1>1. PICK r \in Rows, n \in Bytes(k), i \in -1 .. 3 : Place(s, k, rest, r, n, i)
    BY DEF Live
  <1>2. s \in Seq(AllOps) /\ s # <<>> /\ Head(s) = Op(k, r, n, i)
    BY <1>1, PlaceStep
  <1>3. Head(s)[1] \in {"mode", "tbe", "write", "rbf", "read"}
    BY <1>2, OpKinds
  <1> QED BY <1>2, <1>3

\* A step of a thread that draws leaves it drawing, or done.
LEMMA LiveStep ==
    ASSUME NEW s, NEW k \in Kinds, NEW rest \in Seq(AllOps), Live(s, k, rest), DrawStep(s)
    PROVE  Drawing(Tail(s), k, rest)'
  <1>1. PICK r \in Rows, n \in Bytes(k), i \in -1 .. 3 :
            Place(s, k, rest, r, n, i) /\ (clean => State(k, r, n, i))
    BY DEF Live
  <1>2. /\ Head(s) = Op(k, r, n, i) /\ Within(k, n, i)
        /\ \E rr, m, j : Successor(k, r, n, i, rr, m, j) /\ Place(Tail(s), k, rest, rr, m, j)
    BY <1>1, PlaceStep
  <1>3. PICK rr, m, j : Successor(k, r, n, i, rr, m, j) /\ Place(Tail(s), k, rest, rr, m, j)
    BY <1>2
  <1>4. clean' => State(k, rr, m, j)'
    <2>1. clean' = clean
      BY DEF DrawStep
    <2>2. clean => State(k, rr, m, j)'
      BY <1>1, <1>2, <1>3, StateSteps
    <2> QED BY <2>1, <2>2
  <1>5. CASE rr \in Rows /\ Within(k, m, j)
    <2>1. m \in Bytes(k) /\ j \in -1 .. 3
      BY <1>5 DEF Within
    <2>2. Place(Tail(s), k, rest, rr, m, j)'
      BY <1>3
    <2>3. Live(Tail(s), k, rest)'
      BY <1>4, <1>5, <2>1, <2>2 DEF Live
    <2> QED BY <2>3 DEF Drawing
  <1>6. CASE rr = Lines /\ m = Page /\ j = -1
    <2>1. Script(k, rr, m, j) = <<>>
      BY <1>6, RowsNone DEF Script
    <2>2. Tail(s) = rest
      <3>1. Tail(s) = Script(k, rr, m, j) \o rest
        BY <1>3 DEF Place
      <3> QED BY <2>1, <3>1
    <2>3. Done(Tail(s), k, rest)'
      BY <1>4, <1>6, <2>2 DEF Done
    <2> QED BY <2>3 DEF Drawing
  <1> QED BY <1>3, <1>5, <1>6 DEF Place, Stands

\* What stands at a place does not depend on anything but the display, the SPI and the text.
LEMMA StateKept ==
    ASSUME NEW k, NEW r, NEW n, NEW i, State(k, r, n, i),
           UNCHANGED <<panel, textbuffer, txb, sr, rbf, mode>>
    PROVE  State(k, r, n, i)'
  <1>1. \A y : Arrived(k, r, y) => Arrived(k, r, y)'
    BY ArrivedKept
  <1>2. Sent(k, r, n)' = Sent(k, r, n)
    BY SentKept
  <1>3. Mode(k, n, i)' = Mode(k, n, i)
    BY DEF Mode
  <1> QED BY <1>1, <1>2, <1>3 DEF State

\* What a thread draws is not disturbed by what leaves the display alone,
LEMMA LiveKept ==
    ASSUME NEW s, NEW k, NEW rest, Live(s, k, rest),
           UNCHANGED <<panel, textbuffer, txb, sr, rbf, mode>>, clean' => clean
    PROVE  Live(s, k, rest)'
  <1>1. PICK r \in Rows, n \in Bytes(k), i \in -1 .. 3 :
            Place(s, k, rest, r, n, i) /\ (clean => State(k, r, n, i))
    BY DEF Live
  <1>2. clean' => State(k, r, n, i)'
    BY <1>1, StateKept
  <1>3. Place(s, k, rest, r, n, i)'
    BY <1>1
  <1> QED BY <1>2, <1>3 DEF Live

LEMMA DoneKept ==
    ASSUME NEW s, NEW k, NEW rest, Done(s, k, rest),
           UNCHANGED <<panel, textbuffer, txb, sr, rbf, mode>>, clean' => clean
    PROVE  Done(s, k, rest)'
  <1>1. s = rest /\ (clean => State(k, Lines, Page, -1))
    BY DEF Done
  <1>2. clean' => State(k, Lines, Page, -1)'
    BY <1>1, StateKept
  <1> QED BY <1>1, <1>2 DEF Done

LEMMA DrawingKept ==
    ASSUME NEW s, NEW k, NEW rest, Drawing(s, k, rest),
           UNCHANGED <<panel, textbuffer, txb, sr, rbf, mode>>, clean' => clean
    PROVE  Drawing(s, k, rest)'
  BY LiveKept, DoneKept DEF Drawing

\* nor by the SPI, which shifts what is waited for.
LEMMA LiveShifts ==
    ASSUME NEW s, NEW k \in Kinds, NEW rest, Live(s, k, rest), Shift
    PROVE  Live(s, k, rest)'
  <1>1. PICK r \in Rows, n \in Bytes(k), i \in -1 .. 3 :
            Place(s, k, rest, r, n, i) /\ (clean => State(k, r, n, i))
    BY DEF Live
  <1>2. Within(k, n, i)
    BY <1>1, Sizes DEF Place, Stands, Rows
  <1>3. clean' = clean
    BY DEF Shift
  <1>4. clean' => State(k, r, n, i)'
    BY <1>1, <1>2, <1>3, StateShifts
  <1>5. Place(s, k, rest, r, n, i)'
    BY <1>1
  <1> QED BY <1>4, <1>5 DEF Live

LEMMA DrawingShifts ==
    ASSUME NEW s, NEW k \in Kinds, NEW rest, Drawing(s, k, rest), Shift
    PROVE  Drawing(s, k, rest)'
  <1>1. CASE Live(s, k, rest)
    BY <1>1, LiveShifts DEF Drawing
  <1>2. CASE Done(s, k, rest)
    <2>1. s = rest /\ (clean => sr = None)
      BY <1>2 DEF Done, State
    <2>2. sr # None /\ clean' = clean
      BY DEF Shift
    <2>3. Done(s, k, rest)'
      BY <2>1, <2>2 DEF Done
    <2> QED BY <2>3 DEF Drawing
  <1> QED BY <1>1, <1>2 DEF Drawing

\* When a thread is done drawing, nothing is under way.
LEMMA DoneIdle ==
    ASSUME NEW s, NEW k, NEW rest, Done(s, k, rest)
    PROVE  clean => Idle /\ PanelOk
  BY DEF Done, State, Arrived, Idle

\* When the update is done, the text is shown, and when the icon is too, both are.
LEMMA DoneShows ==
    ASSUME NEW s, NEW k \in Kinds, NEW rest, Done(s, k, rest), clean
    PROVE  CellsShown /\ (k = "icons" => IconsShown)
  <1>1. Arrived(k, Lines, Page)
    BY DEF Done, State
  <1>2. \A q \in Rows, j \in First(k) .. Cols - 1 : panel.ram[q][j] = Cell(k, q, j)
    <2> TAKE q \in Rows, j \in First(k) .. Cols - 1
    <2>1. q < Lines
      BY Sizes DEF Rows
    <2> QED BY <1>1, <2>1 DEF Arrived
  <1>3. CASE k = "cells"
    <2>1. \A j \in 0 .. Cols - 2 : j \in First(k) .. Cols - 1
      BY <1>3, Sizes DEF First
    <2> QED BY <1>2, <1>3, <2>1 DEF CellsShown, Cell
  <1>4. CASE k = "icons"
    <2>1. Cols - 1 \in First(k) .. Cols - 1
      BY <1>4, Sizes DEF First
    <2> QED BY <1>1, <1>2, <1>4, <2>1 DEF Arrived, IconsShown, Cell
  <1> QED BY <1>3, <1>4 DEF Kinds

\* An update can begin whenever nothing is under way,
LEMMA UpdateStarts ==
    ASSUME NEW rest \in Seq(AllOps), clean => Idle /\ PanelOk
    PROVE  Live(display_update \o rest, "cells", rest)
  <1> DEFINE s == display_update \o rest
  <1>1. "cells" \in Kinds /\ Page \in Bytes("cells") /\ First("cells") \in Places
    BY BytesApart, Sizes DEF Kinds
  <1>2. 0 \in Rows /\ -1 \in -1 .. 3
    BY Sizes DEF Rows
  <1>3. Place(s, "cells", rest, 0, Page, -1)
    BY <1>1, <1>2, Whole DEF Place, Stands, Within, Script
  <1>4. clean => State("cells", 0, Page, -1)
    <2> SUFFICES ASSUME clean PROVE State("cells", 0, Page, -1)
      OBVIOUS
    <2>1. \A q \in Rows, j \in First("cells") .. Cols - 1 : ~(q < 0 \/ (q = 0 /\ j < Page))
      BY <1>1, Sizes DEF Rows, Places, Page
    <2>2. Arrived("cells", 0, Page)
      BY <2>1 DEF Arrived
    <2> QED BY <2>2 DEF State, Mode, Idle
  <1> QED BY <1>1, <1>2, <1>3, <1>4 DEF Live

\* and the icon when the update is done.
LEMMA ImageStarts ==
    ASSUME NEW s, NEW rest \in Seq(AllOps), Done(s, "cells", display_image \o rest)
    PROVE  Live(s, "icons", rest)
  <1>1. "icons" \in Kinds /\ Page \in Bytes("icons") /\ First("icons") \in Places
    BY BytesApart, Sizes DEF Kinds
  <1>2. 0 \in Rows /\ -1 \in -1 .. 3
    BY Sizes DEF Rows
  <1>3. Place(s, "icons", rest, 0, Page, -1)
    BY <1>1, <1>2, Whole DEF Place, Stands, Within, Script, Done
  <1>4. clean => State("icons", 0, Page, -1)
    <2> SUFFICES ASSUME clean PROVE State("icons", 0, Page, -1)
      OBVIOUS
    <2>1. \A q \in Rows, j \in First("icons") .. Cols - 1 : ~(q < 0 \/ (q = 0 /\ j < Page))
      BY <1>1, Sizes DEF Rows, Places, Page
    <2>2. CellsShown /\ Idle /\ PanelOk
      BY DoneShows, DoneIdle DEF Kinds
    <2>3. Arrived("icons", 0, Page)
      BY <2>1, <2>2 DEF Arrived
    <2> QED BY <2>2, <2>3 DEF State, Mode, Idle
  <1> QED BY <1>1, <1>2, <1>3, <1>4 DEF Live

\* A text that is written, and the update after it.
LEMMA WritingCases ==
    ASSUME NEW s, NEW rest \in Seq(AllOps), WritingAt(s, rest)
    PROVE  /\ Len(s) >= Len(display_update \o rest)
           /\ \/ s = display_update \o rest
              \/ s # <<>> /\ Head(s)[1] = "char" /\ WritingAt(Tail(s), rest)
  <1> DEFINE d == display_update \o rest
  <1>1. PICK q \in 0 .. Cols :
           /\ Len(s) = q + Len(d) /\ \A x \in 1 .. q : s[x][1] = "char"
           /\ s = [x \in 1 .. q |-> s[x]] \o d
    BY DEF WritingAt
  <1>2. d \in Seq(AllOps)
    BY Whole, RowsType, Sizes, Widens DEF Kinds
  <1> DEFINE S == AllOps \cup {s[x] : x \in 1 .. q}
             c == [x \in 1 .. q |-> s[x]]
  <1>3. q \in Nat /\ d \in Seq(S) /\ c \in [1 .. q -> S] /\ s = c \o d
    BY <1>1, <1>2, Sizes, SeqMonotonic
  <1>5. \A x \in 1 .. q : c[x] = s[x] /\ s[x][1] = "char"
    BY <1>1
  <1>6. Len(s) = q + Len(d)
    BY <1>1
  <1>7. s = c \o d /\ Cols \in Nat
    BY <1>1, Sizes
  <1>20. WritingAt(Tail(s), rest) <=>
           \E x \in 0 .. Cols :
              /\ Len(Tail(s)) = x + Len(d) /\ \A y \in 1 .. x : Tail(s)[y][1] = "char"
              /\ Tail(s) = [y \in 1 .. x |-> Tail(s)[y]] \o d
    BY DEF WritingAt
  <1> HIDE DEF c, d, S
  <1>4. c \in Seq(S) /\ Len(c) = q
    BY <1>3, Table
  <1>8. CASE q = 0
    <2>1. s = d
      BY <1>3, <1>4, <1>7, <1>8
    <2> QED BY <1>6, <1>8, <2>1, <1>3 DEF d
  <1>9. CASE q # 0
    <2>1. c # <<>>
      BY <1>4, <1>9
    <2>2. s \in Seq(S) /\ s # <<>> /\ Head(s) = Head(c) /\ Tail(s) = Tail(c) \o d
      BY <1>3, <1>4, <1>7, <2>1, Joined
    <2>3. Tail(c) \in Seq(S) /\ Len(Tail(c)) = q - 1 /\ Head(c) = c[1] /\ \A x \in 1 .. q - 1 : Tail(c)[x] = c[x + 1]
      BY <1>4, <2>1, Shorter
    <2>4. Head(s)[1] = "char"
      BY <1>3, <1>5, <1>9, <2>2, <2>3
    <2>5. Len(Tail(s)) = (q - 1) + Len(d)
      BY <1>3, <1>6, <2>2, Shorter
    <2>6. Len(d) \in Nat
      BY <1>3
    <2>7. \A x \in 1 .. q - 1 : Tail(s)[x] = s[x + 1] /\ x + 1 \in 1 .. q
      BY <1>3, <1>6, <2>2, <2>6, Shorter
    <2>8. \A x \in 1 .. q - 1 : Tail(s)[x] = Tail(c)[x] /\ Tail(s)[x][1] = "char"
      BY <1>5, <2>3, <2>7
    <2>9. Tail(c) = [x \in 1 .. q - 1 |-> Tail(c)[x]]
      <3>1. Tail(c) \in [1 .. Len(Tail(c)) -> S]
        BY <2>3, LenProperties
      <3>2. Tail(c) \in [1 .. q - 1 -> S]
        BY <2>3, <3>1
      <3> QED BY <3>2
    <2>10. Tail(c) = [x \in 1 .. q - 1 |-> Tail(s)[x]]
      BY <2>8, <2>9
    <2>11. q - 1 \in 0 .. Cols
      BY <1>3, <1>7, <1>9
    <2>12. WritingAt(Tail(s), rest)
      BY <1>20, <2>2, <2>5, <2>8, <2>10, <2>11
    <2>13. Len(s) >= Len(d)
      BY <1>3, <1>6, <2>6
    <2> QED BY <2>2, <2>4, <2>12, <2>13 DEF d
  <1> QED BY <1>8, <1>9

-----------------------------------------------------------------------------
(* What the threads have left, put together.                               *)

LEMMA RestTypes ==
    /\ labworkOps \in Seq(AllOps) /\ labinitOps \in Seq(AllOps) /\ tickOps \in Seq(AllOps)
    /\ display_image \in Seq(AllOps) /\ display_update \in Seq(AllOps)
    /\ StartRest \in Seq(AllOps) /\ display_image \o labworkOps \in Seq(AllOps) /\ SecondRest \in Seq(AllOps)
  <1>1. labworkOps \in Seq(AllOps) /\ labinitOps \in Seq(AllOps) /\ tickOps \in Seq(AllOps)
    <2>1. <<"labwork">> \in AllOps /\ <<"labinit">> \in AllOps /\ <<"tick">> \in AllOps
      BY DEF AllOps
    <2> HIDE DEF AllOps
    <2> QED BY <2>1 DEF labworkOps, labinitOps, tickOps
  <1>2. display_image \in Seq(AllOps) /\ display_update \in Seq(AllOps)
    BY Whole, RowsType, Sizes, Widens DEF Kinds
  <1>3. StartRest \in Seq(AllOps) /\ display_image \o labworkOps \in Seq(AllOps)
    BY <1>1, <1>2, Closed DEF StartRest
  <1>4. SecondRest \in Seq(AllOps)
    BY <1>1, <1>3, Closed DEF SecondRest
  <1> QED BY <1>1, <1>2, <1>3, <1>4

LEMMA RestHeads ==
    /\ Head(labworkOps)[1] = "labwork" /\ labworkOps # <<>> /\ Len(labworkOps) = 1
    /\ Head(labinitOps)[1] = "labinit" /\ labinitOps # <<>>
    /\ Head(tickOps)[1] = "tick" /\ Tail(tickOps) = <<>> /\ tickOps # <<>>
    /\ Head(SecondRest)[1] = "tick" /\ Tail(SecondRest) = display_image \o labworkOps /\ SecondRest # <<>>
  <1>1. /\ Head(labworkOps)[1] = "labwork" /\ labworkOps # <<>> /\ Len(labworkOps) = 1
        /\ Head(labinitOps)[1] = "labinit" /\ labinitOps # <<>>
        /\ Head(tickOps)[1] = "tick" /\ Tail(tickOps) = <<>> /\ tickOps # <<>>
    BY DEF labworkOps, labinitOps, tickOps
  <1> DEFINE d == display_image \o labworkOps
  <1>2. d \in Seq(AllOps) /\ tickOps \in Seq(AllOps) /\ SecondRest = tickOps \o d
    BY RestTypes DEF SecondRest
  <1> HIDE DEF d
  <1>3. SecondRest # <<>> /\ Head(SecondRest) = Head(tickOps) /\ Tail(SecondRest) = Tail(tickOps) \o d
    BY <1>1, <1>2, Joined
  <1>4. Tail(SecondRest) = d
    <2>1. <<>> \o d = d
      BY <1>2
    <2> QED BY <1>1, <1>3, <2>1
  <1> QED BY <1>1, <1>3, <1>4 DEF d

\* A text that has been put before an update.
LEMMA StringWaits ==
    ASSUME NEW r, NEW str, NEW rest \in Seq(AllOps)
    PROVE  /\ WritingAt(display_string(r, str) \o (display_update \o rest), rest)
           /\ (display_string(r, str) \o display_update) \o rest
                 = display_string(r, str) \o (display_update \o rest)
  <1> DEFINE c == display_string(r, str)
             d == display_update \o rest
             S == AllOps \cup {c[x] : x \in 1 .. Cols}
             s == c \o d
  <1>1. Cols \in Nat /\ Cols \in 0 .. Cols
    BY Sizes
  <1>2. c = [x \in 1 .. Cols |-> c[x]]
    BY DEF display_string
  <1>3. \A x \in 1 .. Cols : c[x][1] = "char"
    BY DEF display_string
  <1>4. d \in Seq(AllOps)
    BY RestTypes, Closed
  <1>20. WritingAt(s, rest) <=>
           \E x \in 0 .. Cols :
              /\ Len(s) = x + Len(d) /\ \A y \in 1 .. x : s[y][1] = "char"
              /\ s = [y \in 1 .. x |-> s[y]] \o d
    BY DEF WritingAt
  <1> HIDE DEF c
  <1>5. c \in [1 .. Cols -> S]
    BY <1>2
  <1>6. d \in Seq(S) /\ display_update \in Seq(S) /\ rest \in Seq(S)
    BY <1>4, RestTypes, SeqMonotonic
  <1>21. s = c \o d
    OBVIOUS
  <1>22. d = display_update \o rest
    OBVIOUS
  <1> HIDE DEF d, S, s
  <1>7. c \in Seq(S) /\ Len(c) = Cols
    BY <1>1, <1>5, Table
  <1>8. Len(s) = Cols + Len(d) /\ \A y \in 1 .. Cols : s[y] = c[y]
    <2>1. d \in Seq(S) /\ c \in Seq(S)
      BY <1>6, <1>7
    <2>2. Len(c \o d) = Len(c) + Len(d)
      BY <2>1
    <2>3. \A y \in 1 .. Len(c) : (c \o d)[y] = c[y]
      BY <2>1
    <2> QED BY <1>7, <1>21, <2>2, <2>3
  <1>9. [y \in 1 .. Cols |-> s[y]] = c
    BY <1>2, <1>8
  <1>10. WritingAt(s, rest)
    BY <1>1, <1>3, <1>8, <1>9, <1>20, <1>21
  <1>11. (c \o display_update) \o rest = c \o d
    BY <1>6, <1>7, <1>22, Associates
  <1> QED BY <1>10, <1>11 DEF c, d, s

\* What labwork and user_isr set about once a second,
LEMMA TextsWait ==
    ASSUME NEW t
    PROVE  /\ WritingAt(ShowTime(t) \o << <<"tick">> >> \o display_image \o << <<"labwork">> >>, SecondRest)
           /\ WritingAt(ShowTime(t) \o << <<"tick">> >> \o <<>>, tickOps)
  <1> DEFINE c == display_string(Lines - 1, TimeText(t))
             x == ShowTime(t)
  <1>1. x = c \o display_update
    BY DEF ShowTime
  <1>2. /\ WritingAt(c \o (display_update \o SecondRest), SecondRest)
        /\ (c \o display_update) \o SecondRest = c \o (display_update \o SecondRest)
    BY StringWaits, RestTypes
  <1>3. /\ WritingAt(c \o (display_update \o tickOps), tickOps)
        /\ (c \o display_update) \o tickOps = c \o (display_update \o tickOps)
    BY StringWaits, RestTypes
  <1>4. WritingAt(x \o SecondRest, SecondRest) /\ WritingAt(x \o tickOps, tickOps)
    BY <1>1, <1>2, <1>3
  <1>5. \E S : x \in Seq(S) /\ tickOps \in Seq(S) /\ display_image \in Seq(S) /\ labworkOps \in Seq(S)
    <2> DEFINE S == AllOps \cup {c[j] : j \in 1 .. Cols}
    <2>1. c = [j \in 1 .. Cols |-> c[j]]
      BY DEF display_string
    <2>2. Cols \in Nat
      BY Sizes
    <2> HIDE DEF c
    <2>3. c \in [1 .. Cols -> S]
      BY <2>1
    <2>4. display_update \in Seq(S) /\ tickOps \in Seq(S) /\ display_image \in Seq(S) /\ labworkOps \in Seq(S)
      BY RestTypes, SeqMonotonic
    <2> HIDE DEF S
    <2>5. c \in Seq(S)
      BY <2>2, <2>3, Table
    <2>6. x \in Seq(S)
      BY <1>1, <2>4, <2>5, Closed
    <2> QED BY <2>4, <2>6
  <1>6. PICK S : x \in Seq(S) /\ tickOps \in Seq(S) /\ display_image \in Seq(S) /\ labworkOps \in Seq(S)
    BY <1>5
  <1> DEFINE y == display_image \o labworkOps
             z == x \o tickOps
  <1> HIDE DEF x
  <1>7. y \in Seq(S) /\ z \in Seq(S)
    BY <1>6, Closed
  <1>8. (z \o display_image) \o labworkOps = z \o y
    <2> HIDE DEF z
    <2> QED BY <1>6, <1>7, Associates
  <1>9. z \o y = x \o (tickOps \o y)
    <2> HIDE DEF y
    <2> QED BY <1>6, <1>7, Associates
  <1>10. tickOps \o y = SecondRest
    BY DEF SecondRest
  <1>11. WritingAt((z \o display_image) \o labworkOps, SecondRest)
    BY <1>4, <1>8, <1>9, <1>10
  <1>12. << <<"tick">> >> = tickOps /\ << <<"labwork">> >> = labworkOps
    BY DEF tickOps, labworkOps
  <1>13. z \o <<>> = z
    <2> HIDE DEF z
    <2> QED BY <1>7
  <1> QED BY <1>4, <1>11, <1>12, <1>13 DEF x

\* and labwork for a prime.
LEMMA PrimeWaits ==
    ASSUME NEW p
    PROVE  WritingAt(display_string(0, PrimeText(p)) \o display_update \o << <<"labwork">> >>, labworkOps)
  BY StringWaits, RestTypes DEF labworkOps

-----------------------------------------------------------------------------
(* The threads at a step: a thread becomes what it has left.               *)

Draws == SetMode \/ WaitEmpty \/ Write \/ WaitReceived \/ Read

\* The five actions, as steps of the thread that runs.
LEMMA DrawsStep ==
    ASSUME NEW s, Running = s, Draws
    PROVE  DrawStep(s) /\ Go(Tail(s))
  <1>1. ASSUME NEW kind, Do(kind) PROVE Head(s)[1] = kind /\ Go(Tail(s))
    BY <1>1 DEF Do
  <1>2. CASE SetMode
    BY <1>1, <1>2 DEF SetMode, DrawStep, Arg
  <1>3. CASE WaitEmpty
    BY <1>1, <1>3 DEF WaitEmpty, DrawStep
  <1>4. CASE Write
    BY <1>1, <1>4 DEF Write, DrawStep, Arg, Unit
  <1>5. CASE WaitReceived
    BY <1>1, <1>5 DEF WaitReceived, DrawStep
  <1>6. CASE Read
    BY <1>1, <1>6 DEF Read, DrawStep
  <1> QED BY <1>2, <1>3, <1>4, <1>5, <1>6 DEF Draws

\* A thread has become what it has left.
LEMMA MainDraws ==
    ASSUME NEW t, NEW k, NEW rest, main' = t
    PROVE  (Live(t, k, rest)' => Live(main, k, rest)') /\ (Drawing(t, k, rest)' => Drawing(main, k, rest)')
           /\ (Done(t, k, rest)' => Done(main, k, rest)')
  <1>1. Live(t, k, rest)' => Live(main, k, rest)'
    BY DEF Live
  <1>2. Done(t, k, rest)' => Done(main, k, rest)'
    BY DEF Done
  <1> QED BY <1>1, <1>2 DEF Drawing

LEMMA IsrDraws ==
    ASSUME NEW t, NEW k, NEW rest, isr' = t
    PROVE  Drawing(t, k, rest)' => Drawing(isr, k, rest)'
  <1>1. Live(t, k, rest)' => Live(isr, k, rest)'
    BY DEF Live
  <1>2. Done(t, k, rest)' => Done(isr, k, rest)'
    BY DEF Done
  <1> QED BY <1>1, <1>2 DEF Drawing

\* The same for a text.
LEMMA MainWrites ==
    ASSUME NEW t, NEW rest, main' = t
    PROVE  (Writing(t, rest)' => Writing(main, rest)') /\ (WritingAt(t, rest) => WritingAt(main, rest)')
  <1>1. WritingAt(t, rest)' = WritingAt(t, rest)
    OBVIOUS
  <1>2. WritingAt(t, rest)' => WritingAt(main, rest)'
    BY DEF WritingAt
  <1> QED BY <1>1, <1>2 DEF Writing

LEMMA IsrWrites ==
    ASSUME NEW t, NEW rest, isr' = t
    PROVE  Writing(t, rest)' => Writing(isr, rest)'
  <1>2. WritingAt(t, rest)' => WritingAt(isr, rest)'
    BY DEF WritingAt
  <1> QED BY <1>2 DEF Writing

\* A text that is written is left alone by what leaves the display idle.
LEMMA WritingKept ==
    ASSUME NEW s, NEW rest, Writing(s, rest), UNCHANGED <<panel, txb, sr, rbf>>, clean' => clean
    PROVE  Writing(s, rest)'
  <1>1. WritingAt(s, rest)'
    BY DEF Writing
  <1>2. clean' => Idle' /\ PanelOk'
    BY DEF Writing, Idle, PanelOk
  <1> QED BY <1>1, <1>2 DEF Writing

LEMMA WritingShifts ==
    ASSUME NEW s, NEW rest, Writing(s, rest), Shift
    PROVE  Writing(s, rest)'
  <1>1. WritingAt(s, rest)'
    BY DEF Writing
  <1>2. ~clean /\ clean' = clean
    BY DEF Writing, Idle, Shift
  <1> QED BY <1>1, <1>2 DEF Writing

LEMMA WritingChar ==
    ASSUME NEW s, NEW rest, Writing(s, rest), WritingAt(Tail(s), rest), UNCHANGED <<spi, panel, clean>>
    PROVE  Writing(Tail(s), rest)'
  <1>1. WritingAt(Tail(s), rest)'
    OBVIOUS
  <1>2. clean' => Idle' /\ PanelOk'
    BY DEF Writing, Idle, PanelOk, spi
  <1> QED BY <1>1, <1>2 DEF Writing

\* What a thread that writes a text begins with.
LEMMA WritingHead ==
    ASSUME NEW s, NEW rest \in Seq(AllOps), Writing(s, rest)
    PROVE  \/ Live(s, "cells", rest) /\ s = display_update \o rest
           \/ s # <<>> /\ Head(s)[1] = "char" /\ WritingAt(Tail(s), rest)
  <1>1. \/ s = display_update \o rest
        \/ s # <<>> /\ Head(s)[1] = "char" /\ WritingAt(Tail(s), rest)
    BY WritingCases DEF Writing
  <1>2. Live(display_update \o rest, "cells", rest)
    BY UpdateStarts DEF Writing
  <1> QED BY <1>1, <1>2

\* At the start, labinit is to come.
LEMMA StartsEnd ==
    ASSUME NEW s, NEW k \in Kinds, NEW rest \in Seq(AllOps), Drawing(s, k, rest),
           rest # <<>> /\ rest[Len(rest)] = <<"labinit">>
    PROVE  \E x \in DOMAIN s : s[x][1] = "labinit"
  <1>1. rest # <<>> /\ rest[Len(rest)][1] = "labinit" /\ Len(rest) \in DOMAIN rest
    <2>1. Len(rest) \in DOMAIN rest
      OBVIOUS
    <2> QED BY <2>1
  <1>2. CASE s = rest
    BY <1>1, <1>2
  <1>3. CASE Live(s, k, rest)
    <2>1. PICK r \in Rows, n \in Bytes(k), i \in -1 .. 3 : Place(s, k, rest, r, n, i)
      BY <1>3 DEF Live
    <2> DEFINE t == Script(k, r, n, i)
    <2>2. Within(k, n, i) /\ s = t \o rest
      BY <2>1, Sizes DEF Place, Stands, Rows
    <2>3. n \in Bytes(k) /\ i \in -1 .. 3
      OBVIOUS
    <2>4. t \in Seq(DrawOps)
      BY <2>2, <2>3, ScriptStep
    <2>5. t \in Seq(AllOps)
      BY <2>4, Widens
    <2> HIDE DEF t
    <2>6. Len(t) + Len(rest) \in DOMAIN (t \o rest) /\ (t \o rest)[Len(t) + Len(rest)] = rest[Len(rest)]
      BY <1>1, <2>5
    <2> QED BY <1>1, <2>2, <2>6
  <1> QED BY <1>2, <1>3 DEF Drawing, Done

LEMMA StartsAtStart == MainStarts => ~Started
  <1>1. labinitOps # <<>> /\ labinitOps[Len(labinitOps)] = <<"labinit">> /\ labinitOps \in Seq(AllOps)
    <2>1. labinitOps # <<>> /\ labinitOps[Len(labinitOps)] = <<"labinit">>
      BY DEF labinitOps
    <2> QED BY <2>1, RestTypes
  <1>2. StartRest # <<>> /\ StartRest[Len(StartRest)] = <<"labinit">>
    <2>1. display_image \in Seq(AllOps) /\ StartRest = display_image \o labinitOps
      BY RestTypes DEF StartRest
    <2>2. Len(labinitOps) \in 1 .. Len(labinitOps)
      BY <1>1
    <2>3. Len(StartRest) = Len(display_image) + Len(labinitOps)
          /\ StartRest[Len(display_image) + Len(labinitOps)] = labinitOps[Len(labinitOps)]
      BY <1>1, <2>1, <2>2
    <2>4. Len(StartRest) >= 1 /\ StartRest \in Seq(AllOps)
      BY <1>1, <2>1, <2>2, <2>3, RestTypes
    <2> QED BY <1>1, <2>3, <2>4
  <1> SUFFICES ASSUME MainStarts PROVE \E x \in DOMAIN main : main[x][1] = "labinit"
    BY DEF Started
  <1>3. PICK s : s = main
    OBVIOUS
  <1>4. CASE Drawing(main, "cells", StartRest)
    <2>1. Drawing(s, "cells", StartRest)
      BY <1>3, <1>4
    <2>2. \E x \in DOMAIN s : s[x][1] = "labinit"
      BY <1>2, <2>1, RestTypes, StartsEnd DEF Kinds
    <2> QED BY <1>3, <2>2
  <1>5. CASE Drawing(main, "icons", labinitOps)
    <2>1. Drawing(s, "icons", labinitOps)
      BY <1>3, <1>5
    <2>2. \E x \in DOMAIN s : s[x][1] = "labinit"
      BY <1>1, <2>1, StartsEnd DEF Kinds
    <2> QED BY <1>3, <2>2
  <1> QED BY <1>4, <1>5 DEF MainStarts

-----------------------------------------------------------------------------
(* The seconds.                                                            *)

LEMMA NumbersKept ==
    ASSUME Numbers, UNCHANGED <<program, timer, clean>>
    PROVE  Numbers'
  BY DEF Numbers, program, timer

\* The account of the timeouts depends on the counters only.
LEMMA OwingKept ==
    ASSUME NEW p, UNCHANGED <<program, timer>>
    PROVE  Owing(p)' <=> Owing(p)
  BY DEF Owing, program, timer

\* A second more.
LEMMA OneMoreSecond ==
    ASSUME NEW m \in Nat, NEW n \in Nat
    PROVE  m * (n + 1) = m * n + m
  OBVIOUS

\* A timeout is seen when the flag is cleared and counted.
LEMMA OwingExpires ==
    ASSUME Numbers, NEW p \in {0, 1}, Owing(p), Expire
    PROVE  Numbers' /\ Owing(p)'
  <1>1. /\ lab' = lab /\ timeoutcount' = timeoutcount /\ ticks' = ticks /\ clean' = clean
        /\ flag' = TRUE /\ expired' = expired + 1 /\ seen' = FALSE /\ seen /\ lab # "io"
    BY DEF Expire, program
  <1>2. ~flag /\ expired = Period * (ticks + p) + timeoutcount + 0
    <2>1. seen = ~flag /\ expired = Period * (ticks + p) + timeoutcount + (IF flag THEN 1 ELSE 0)
      BY <1>1 DEF Owing
    <2>2. ~flag
      BY <1>1, <2>1, Zenon
    <2> QED BY <2>1, <2>2
  <1>3. expired' = (Period * (ticks + p) + timeoutcount) + 1
    <2>1. Period \in Nat /\ ticks \in Nat /\ timeoutcount \in Int /\ p \in Nat
      BY Sizes DEF Numbers
    <2> DEFINE x == Period * (ticks + p)
    <2>2. x \in Int
      BY <2>1
    <2> HIDE DEF x
    <2>3. (x + timeoutcount + 0) + 1 = (x + timeoutcount) + 1
      BY <2>1, <2>2
    <2> QED BY <1>1, <1>2, <2>3 DEF x
  <1>4. Owing(p)'
    <2>1. seen' = ~flag'
      BY <1>1
    <2>2. expired' = Period * (ticks' + p) + timeoutcount' + (IF flag' THEN 1 ELSE 0)
      BY <1>1, <1>3
    <2> QED BY <2>1, <2>2 DEF Owing
  <1>5. Numbers'
    <2>1. flag' \in BOOLEAN /\ seen' \in BOOLEAN
      BY <1>1, Zenon
    <2>2. clean' \in BOOLEAN
      BY <1>1, Zenon DEF Numbers
    <2>3. expired' \in Nat
      BY <1>1 DEF Numbers
    <2> QED BY <1>1, <2>1, <2>2, <2>3 DEF Numbers
  <1> QED BY <1>4, <1>5

\* The last timeout of a second, counted: a second is owed.
LEMMA OwingCounts ==
    ASSUME Numbers, expired = Period * ticks + timeoutcount + 1,
           UNCHANGED <<lab, ticks, expired>>, clean' \in BOOLEAN, flag' \in BOOLEAN, ~flag', seen' = TRUE
    PROVE  /\ timeoutcount + 1 = Period /\ timeoutcount' = 0 => Numbers' /\ Owing(1)'
           /\ timeoutcount + 1 # Period /\ timeoutcount' = timeoutcount + 1 => Numbers' /\ Owing(0)'
  <1>1. Period \in Nat /\ ticks \in Nat /\ timeoutcount \in 0 .. Period - 1 /\ expired \in Nat /\ Period >= 1
    BY Sizes DEF Numbers
  <1>2. Period * (ticks + 1) = Period * ticks + Period /\ Period * (ticks + 0) = Period * ticks
    BY <1>1, OneMoreSecond
  <1>3. Period * ticks \in Int
    BY <1>1
  <1>4. seen' = ~flag'
    BY Zenon
  <1>5. ASSUME timeoutcount + 1 = Period, timeoutcount' = 0 PROVE Numbers' /\ Owing(1)'
    <2>1. expired' = Period * (ticks' + 1) + timeoutcount' + (IF flag' THEN 1 ELSE 0)
      BY <1>1, <1>2, <1>3, <1>5
    <2>2. Owing(1)'
      BY <1>4, <2>1 DEF Owing
    <2> QED BY <1>1, <1>5, <2>2 DEF Numbers
  <1>6. ASSUME timeoutcount + 1 # Period, timeoutcount' = timeoutcount + 1 PROVE Numbers' /\ Owing(0)'
    <2>1. expired' = Period * (ticks' + 0) + timeoutcount' + (IF flag' THEN 1 ELSE 0)
      BY <1>1, <1>2, <1>3, <1>6
    <2>2. Owing(0)'
      BY <1>4, <2>1 DEF Owing
    <2> QED BY <1>1, <1>6, <2>2 DEF Numbers
  <1> QED BY <1>5, <1>6

\* The tick pays for the second owed.
LEMMA OwingTicks ==
    ASSUME Numbers, Owing(1), Tick
    PROVE  Numbers' /\ Owing(0)'
  <1>1. ticks' = ticks + 1 /\ UNCHANGED <<lab, timeoutcount, flag, expired, seen, clean>>
    BY DEF Tick, timer
  <1>2. ticks \in Nat /\ (ticks + 1) + 0 = ticks + 1
    BY DEF Numbers
  <1>3. Owing(0)'
    BY <1>1, <1>2 DEF Owing
  <1>4. Numbers'
    BY <1>1, <1>2 DEF Numbers
  <1> QED BY <1>3, <1>4

\* A count that reaches the period, as timer asks it and as interrupts does.
LEMMA WholeSecond ==
    ASSUME Numbers
    PROVE  (timeoutcount + 1) % Period = 0 <=> timeoutcount + 1 = Period
  <1>1. Period \in Nat \ {0} /\ timeoutcount \in 0 .. Period - 1
    BY Sizes DEF Numbers
  <1>2. CASE timeoutcount + 1 = Period
    <2>1. Period = Period * 1 + 0 /\ 0 \in 0 .. Period - 1 /\ 1 \in Int
      BY <1>1
    <2>2. Period % Period = 0
      BY <1>1, <2>1, ModUnique
    <2> QED BY <1>2, <2>2
  <1>3. CASE timeoutcount + 1 # Period
    <2>1. timeoutcount + 1 \in 0 .. Period - 1 /\ timeoutcount + 1 # 0
      BY <1>1, <1>3
    <2>2. (timeoutcount + 1) % Period = timeoutcount + 1
      BY <1>1, <2>1, ModSmall
    <2> QED BY <1>3, <2>1, <2>2
  <1> QED BY <1>2, <1>3

-----------------------------------------------------------------------------
(* The start, and the programs without an interrupt routine.               *)

\* What does not draw, and does not make an update clean again.
Kept == UNCHANGED <<panel, textbuffer, txb, sr, rbf, mode>> /\ (clean' => clean)

\* Where the start is.
LEMMA StartsCases ==
    ASSUME MainStarts, NEW s, s = main
    PROVE  Live(s, "cells", StartRest) \/ Live(s, "icons", labinitOps) \/ Done(s, "icons", labinitOps)
  <1>1. Drawing(s, "cells", StartRest) \/ Drawing(s, "icons", labinitOps)
    BY DEF MainStarts
  <1>2. Done(s, "cells", StartRest) => Live(s, "icons", labinitOps)
    BY ImageStarts, RestTypes DEF StartRest
  <1> QED BY <1>1, <1>2 DEF Drawing

\* The start goes on drawing,
LEMMA StartsDraw ==
    ASSUME MainStarts, isr = None, Draws
    PROVE  MainStarts' /\ UNCHANGED <<program, timer, clean, isr>>
  <1>1. PICK s : s = main
    OBVIOUS
  <1>2. DrawStep(s) /\ main' = Tail(s) /\ isr' = isr
    <2>1. Running = s
      BY <1>1 DEF Running
    <2>2. DrawStep(s) /\ Go(Tail(s))
      BY <2>1, DrawsStep
    <2> QED BY <2>2 DEF Go
  <1>3. "cells" \in Kinds /\ "icons" \in Kinds
    BY DEF Kinds
  <1>4. CASE Live(s, "cells", StartRest)
    <2>1. Drawing(Tail(s), "cells", StartRest)'
      BY <1>2, <1>3, <1>4, LiveStep, RestTypes
    <2>2. Drawing(main, "cells", StartRest)'
      BY <1>2, <2>1, MainDraws
    <2> QED BY <1>2, <2>2 DEF MainStarts, DrawStep
  <1>5. CASE Live(s, "icons", labinitOps)
    <2>1. Drawing(Tail(s), "icons", labinitOps)'
      BY <1>2, <1>3, <1>5, LiveStep, RestTypes
    <2>2. Drawing(main, "icons", labinitOps)'
      BY <1>2, <2>1, MainDraws
    <2> QED BY <1>2, <2>2 DEF MainStarts, DrawStep
  <1>6. CASE Done(s, "icons", labinitOps)
    <2>1. Head(s)[1] = "labinit"
      BY <1>6, RestHeads DEF Done
    <2> QED BY <1>2, <2>1 DEF DrawStep
  <1> QED BY <1>1, <1>4, <1>5, <1>6, StartsCases

\* undisturbed by what is not drawing.
LEMMA StartsKept ==
    ASSUME MainStarts, UNCHANGED main, Kept \/ Shift
    PROVE  MainStarts'
  <1>1. PICK s : s = main
    OBVIOUS
  <1>2. main' = s
    BY <1>1
  <1>3. "cells" \in Kinds /\ "icons" \in Kinds
    BY DEF Kinds
  <1>4. CASE Drawing(s, "cells", StartRest)
    <2>1. Drawing(s, "cells", StartRest)'
      BY <1>3, <1>4, DrawingKept, DrawingShifts DEF Kept
    <2>2. Drawing(main, "cells", StartRest)'
      BY <1>2, <2>1, MainDraws
    <2> QED BY <2>2 DEF MainStarts
  <1>5. CASE Drawing(s, "icons", labinitOps)
    <2>1. Drawing(s, "icons", labinitOps)'
      BY <1>3, <1>5, DrawingKept, DrawingShifts DEF Kept
    <2>2. Drawing(main, "icons", labinitOps)'
      BY <1>2, <2>1, MainDraws
    <2> QED BY <2>2 DEF MainStarts
  <1> QED BY <1>1, <1>4, <1>5 DEF MainStarts

\* Where io and timer are.
LEMMA AloneCases ==
    ASSUME Alone, NEW s, s = main
    PROVE  /\ isr = None
           /\ \/ MainStarts /\ Owing(0)
              \/ Live(s, "cells", SecondRest) /\ Owing(1)
              \/ Writing(s, SecondRest) /\ s # <<>> /\ Head(s)[1] = "char" /\ WritingAt(Tail(s), SecondRest) /\ Owing(1)
              \/ Done(s, "cells", SecondRest) /\ Owing(1)
              \/ Live(s, "icons", labworkOps) /\ Owing(0)
              \/ Done(s, "icons", labworkOps) /\ Owing(0)
  <1>1. /\ isr = None
        /\ \/ MainStarts /\ Owing(0)
           \/ (Writing(s, SecondRest) \/ Drawing(s, "cells", SecondRest)) /\ Owing(1)
           \/ Drawing(s, "icons", labworkOps) /\ Owing(0)
    BY DEF Alone
  <1>2. Writing(s, SecondRest) =>
           \/ Live(s, "cells", SecondRest)
           \/ s # <<>> /\ Head(s)[1] = "char" /\ WritingAt(Tail(s), SecondRest)
    BY WritingHead, RestTypes
  <1> QED BY <1>1, <1>2 DEF Drawing

\* io and timer draw,
LEMMA AloneDraws ==
    ASSUME Numbers, Alone, Draws
    PROVE  Numbers' /\ Alone'
  <1>1. PICK s : s = main
    OBVIOUS
  <1>2. DrawStep(s) /\ main' = Tail(s) /\ isr' = isr /\ isr = None
    <2>1. Running = s /\ isr = None
      BY <1>1 DEF Running, Alone
    <2>2. DrawStep(s) /\ Go(Tail(s))
      BY <2>1, DrawsStep
    <2> QED BY <2>1, <2>2 DEF Go
  <1>3. "cells" \in Kinds /\ "icons" \in Kinds
    BY DEF Kinds
  <1>4. UNCHANGED <<program, timer, clean>>
    BY <1>2 DEF DrawStep
  <1>5. Numbers' /\ (Owing(0)' <=> Owing(0)) /\ (Owing(1)' <=> Owing(1))
    BY <1>4, NumbersKept, OwingKept
  <1>6. Head(s)[1] \in {"mode", "tbe", "write", "rbf", "read"}
    BY <1>2 DEF DrawStep
  <1>7. CASE MainStarts /\ Owing(0)
    <2>1. MainStarts'
      BY <1>2, <1>7, StartsDraw
    <2> QED BY <1>2, <1>5, <1>7, <2>1 DEF Alone
  <1>8. CASE Live(s, "cells", SecondRest) /\ Owing(1)
    <2>1. Drawing(Tail(s), "cells", SecondRest)'
      BY <1>2, <1>3, <1>8, LiveStep, RestTypes
    <2>2. Drawing(main, "cells", SecondRest)'
      BY <1>2, <2>1, MainDraws
    <2> QED BY <1>2, <1>5, <1>8, <2>2 DEF Alone
  <1>9. CASE Live(s, "icons", labworkOps) /\ Owing(0)
    <2>1. Drawing(Tail(s), "icons", labworkOps)'
      BY <1>2, <1>3, <1>9, LiveStep, RestTypes
    <2>2. Drawing(main, "icons", labworkOps)'
      BY <1>2, <2>1, MainDraws
    <2> QED BY <1>2, <1>5, <1>9, <2>2 DEF Alone
  <1>10. ~(Head(s)[1] = "char") /\ ~Done(s, "cells", SecondRest) /\ ~Done(s, "icons", labworkOps)
    BY <1>6, RestHeads DEF Done
  <1> QED BY <1>1, <1>7, <1>8, <1>9, <1>10, AloneCases

\* stay where they are,
LEMMA AloneKept ==
    ASSUME Alone, UNCHANGED <<main, isr>>, Kept \/ Shift,
           Owing(0) => Owing(0)', Owing(1) => Owing(1)'
    PROVE  Alone'
  <1>1. PICK s : s = main
    OBVIOUS
  <1>2. main' = s /\ isr = None /\ isr' = None
    BY <1>1 DEF Alone
  <1>3. "cells" \in Kinds /\ "icons" \in Kinds
    BY DEF Kinds
  <1>4. CASE MainStarts /\ Owing(0)
    BY <1>2, <1>4, StartsKept DEF Alone
  <1>5. CASE Writing(s, SecondRest) /\ Owing(1)
    <2>1. Writing(s, SecondRest)'
      BY <1>5, WritingKept, WritingShifts DEF Kept
    <2>2. Writing(main, SecondRest)'
      BY <1>2, <2>1, MainWrites
    <2> QED BY <1>2, <1>5, <2>2 DEF Alone
  <1>6. CASE Drawing(s, "cells", SecondRest) /\ Owing(1)
    <2>1. Drawing(s, "cells", SecondRest)'
      BY <1>3, <1>6, DrawingKept, DrawingShifts DEF Kept
    <2>2. Drawing(main, "cells", SecondRest)'
      BY <1>2, <2>1, MainDraws
    <2> QED BY <1>2, <1>6, <2>2 DEF Alone
  <1>7. CASE Drawing(s, "icons", labworkOps) /\ Owing(0)
    <2>1. Drawing(s, "icons", labworkOps)'
      BY <1>3, <1>7, DrawingKept, DrawingShifts DEF Kept
    <2>2. Drawing(main, "icons", labworkOps)'
      BY <1>2, <2>1, MainDraws
    <2> QED BY <1>2, <1>7, <2>2 DEF Alone
  <1>8. /\ isr = None
        /\ \/ MainStarts /\ Owing(0)
           \/ (Writing(s, SecondRest) \/ Drawing(s, "cells", SecondRest)) /\ Owing(1)
           \/ Drawing(s, "icons", labworkOps) /\ Owing(0)
    BY <1>1 DEF Alone
  <1> QED BY <1>4, <1>5, <1>6, <1>7, <1>8

\* The start begins with a step of a byte, or with labinit.
LEMMA StartsHead ==
    ASSUME MainStarts
    PROVE  Head(main)[1] \in {"mode", "tbe", "write", "rbf", "read", "labinit"}
           /\ (Head(main)[1] = "labinit" => Done(main, "icons", labinitOps))
  <1>1. PICK s : s = main
    OBVIOUS
  <1>2. "cells" \in Kinds /\ "icons" \in Kinds
    BY DEF Kinds
  <1>3. Live(s, "cells", StartRest) \/ Live(s, "icons", labinitOps) \/ Done(s, "icons", labinitOps)
    BY <1>1, StartsCases
  <1>4. CASE Live(s, "cells", StartRest) \/ Live(s, "icons", labinitOps)
    <2>1. Head(s)[1] \in {"mode", "tbe", "write", "rbf", "read"}
      BY <1>2, <1>4, LiveHead, RestTypes
    <2> QED BY <1>1, <2>1
  <1>5. CASE Done(s, "icons", labinitOps)
    <2>1. Head(s)[1] = "labinit"
      BY <1>5, RestHeads DEF Done
    <2> QED BY <1>1, <1>5, <2>1
  <1> QED BY <1>3, <1>4, <1>5

\* What io and timer begin with says where they are.
LEMMA AloneHeads ==
    ASSUME Alone, NEW s, s = main
    PROVE  /\ Head(s)[1] \in {"mode", "tbe", "write", "rbf", "read", "labinit", "char", "tick", "labwork"}
           /\ Head(s)[1] = "labinit" => Done(s, "icons", labinitOps) /\ Owing(0)
           /\ Head(s)[1] = "char" => Writing(s, SecondRest) /\ WritingAt(Tail(s), SecondRest) /\ Owing(1)
           /\ Head(s)[1] = "tick" => Done(s, "cells", SecondRest) /\ Owing(1)
           /\ Head(s)[1] = "labwork" => Done(s, "icons", labworkOps) /\ Owing(0)
  <1>1. "cells" \in Kinds /\ "icons" \in Kinds
    BY DEF Kinds
  <1>2. CASE MainStarts /\ Owing(0)
    BY <1>2, StartsHead
  <1>3. CASE Live(s, "cells", SecondRest) /\ Owing(1)
    <2>1. Head(s)[1] \in {"mode", "tbe", "write", "rbf", "read"}
      BY <1>1, <1>3, LiveHead, RestTypes
    <2> QED BY <2>1
  <1>4. CASE Live(s, "icons", labworkOps) /\ Owing(0)
    <2>1. Head(s)[1] \in {"mode", "tbe", "write", "rbf", "read"}
      BY <1>1, <1>4, LiveHead, RestTypes
    <2> QED BY <2>1
  <1>5. CASE Writing(s, SecondRest) /\ s # <<>> /\ Head(s)[1] = "char" /\ WritingAt(Tail(s), SecondRest) /\ Owing(1)
    BY <1>5
  <1>6. CASE Done(s, "cells", SecondRest) /\ Owing(1)
    BY <1>6, RestHeads DEF Done
  <1>7. CASE Done(s, "icons", labworkOps) /\ Owing(0)
    BY <1>7, RestHeads DEF Done
  <1> QED BY <1>2, <1>3, <1>4, <1>5, <1>6, <1>7, AloneCases

\* write their text,
LEMMA AloneChar ==
    ASSUME Numbers, Alone, Char
    PROVE  Numbers' /\ Alone'
  <1>1. PICK s : s = main
    OBVIOUS
  <1>2. isr = None /\ Head(s)[1] = "char" /\ main' = Tail(s) /\ isr' = isr
    BY <1>1 DEF Alone, Char, Do, Running, Go
  <1>3. UNCHANGED <<lab, mytime, timeoutcount, ticks, timer, spi, panel, clean>>
    BY DEF Char
  <1>4. Writing(s, SecondRest) /\ WritingAt(Tail(s), SecondRest) /\ Owing(1)
    BY <1>1, <1>2, AloneHeads
  <1>5. Writing(Tail(s), SecondRest)'
    BY <1>3, <1>4, WritingChar
  <1>6. Writing(main, SecondRest)'
    BY <1>2, <1>5, MainWrites
  <1>7. Owing(1)' /\ Numbers'
    BY <1>3, <1>4 DEF Owing, Numbers, timer
  <1> QED BY <1>2, <1>6, <1>7 DEF Alone

\* tick, and go on to the icon,
LEMMA AloneTick ==
    ASSUME Numbers, Alone, Tick
    PROVE  Numbers' /\ Alone'
  <1>1. PICK s : s = main
    OBVIOUS
  <1>2. isr = None /\ Head(s)[1] = "tick" /\ main' = Tail(s) /\ isr' = isr
    BY <1>1 DEF Alone, Tick, Do, Running, Go
  <1>3. UNCHANGED <<panel, textbuffer, txb, sr, rbf, mode>> /\ clean' = clean
    BY DEF Tick, spi
  <1>4. Done(s, "cells", SecondRest) /\ Owing(1)
    BY <1>1, <1>2, AloneHeads
  <1>5. Tail(s) = display_image \o labworkOps
    BY <1>4, RestHeads DEF Done
  <1>6. Done(Tail(s), "cells", display_image \o labworkOps)
    BY <1>4, <1>5 DEF Done
  <1>7. Live(Tail(s), "icons", labworkOps)
    BY <1>6, ImageStarts, RestTypes
  <1>8. Drawing(Tail(s), "icons", labworkOps)'
    BY <1>3, <1>7, LiveKept DEF Drawing
  <1>9. Drawing(main, "icons", labworkOps)'
    BY <1>2, <1>8, MainDraws
  <1>10. Numbers' /\ Owing(0)'
    BY <1>4, OwingTicks
  <1> QED BY <1>2, <1>9, <1>10 DEF Alone

\* are ready for the loop,
LEMMA AloneInit ==
    ASSUME Numbers, Alone, labinit
    PROVE  Numbers' /\ Alone'
  <1>1. PICK s : s = main
    OBVIOUS
  <1>2. /\ Head(s)[1] = "labinit" /\ main' = labworkOps /\ isr = None /\ isr' = isr
        /\ UNCHANGED <<program, timer>> /\ UNCHANGED <<panel, textbuffer, txb, sr, rbf, mode>> /\ clean' = clean
    BY <1>1 DEF Alone, labinit, labworkOps, spi, program
  <1>3. Done(s, "icons", labinitOps) /\ Owing(0)
    BY <1>1, <1>2, AloneHeads
  <1>4. Done(labworkOps, "icons", labworkOps)
    BY <1>3 DEF Done
  <1>5. Drawing(labworkOps, "icons", labworkOps)'
    BY <1>2, <1>4, DoneKept DEF Drawing
  <1>6. Drawing(main, "icons", labworkOps)'
    BY <1>2, <1>5, MainDraws
  <1>7. Numbers' /\ Owing(0)'
    BY <1>2, <1>3, NumbersKept, OwingKept
  <1> QED BY <1>2, <1>6, <1>7 DEF Alone

\* A second begins: its text is written.
LEMMA SecondBegins ==
    ASSUME Alone, AtLoop, UNCHANGED <<panel, txb, sr, rbf, clean, isr>>,
           NEW btns, NEW sws, Second(btns, sws)
    PROVE  isr' = None /\ Writing(main, SecondRest)' /\ Owing(0)
  <1>1. PICK s : s = main
    OBVIOUS
  <1>2. isr = None /\ isr' = None /\ Head(s)[1] = "labwork"
    BY <1>1 DEF Alone, AtLoop
  <1>3. Done(s, "icons", labworkOps) /\ Owing(0)
    BY <1>1, <1>2, AloneHeads
  <1>4. clean => Idle /\ PanelOk
    BY <1>3, DoneIdle
  <1>5. PICK t : t = Time(mytime.high, SetDigits(mytime.low, btns, sws))
    OBVIOUS
  <1>6. PICK x : x = ShowTime(t) \o << <<"tick">> >> \o display_image \o << <<"labwork">> >>
    OBVIOUS
  <1>7. main' = x
    BY <1>5, <1>6 DEF Second
  <1>8. WritingAt(x, SecondRest)
    BY <1>6, TextsWait
  <1>9. clean' => Idle' /\ PanelOk'
    BY <1>4 DEF Idle, PanelOk
  <1>10. WritingAt(x, SecondRest)'
    BY <1>8
  <1>11. Writing(x, SecondRest)'
    BY <1>9, <1>10 DEF Writing
  <1>12. Writing(main, SecondRest)'
    BY <1>7, <1>11, MainWrites
  <1> QED BY <1>2, <1>3, <1>12

\* and begin a second at every pass,
LEMMA AloneIo ==
    ASSUME Numbers, Alone, labwork_io
    PROVE  Numbers' /\ Alone'
  <1>1. PICK btns \in Pressed, sws \in Switches : Second(btns, sws)
    BY DEF labwork_io
  <1>2. AtLoop /\ lab = "io" /\ UNCHANGED <<lab, timeoutcount, ticks, timer, panel, txb, sr, rbf, clean, isr>>
    BY DEF labwork_io, spi
  <1>3. isr' = None /\ Writing(main, SecondRest)'
    BY <1>1, <1>2, SecondBegins
  <1>4. Owing(1)' /\ Numbers'
    BY <1>2 DEF Owing, Numbers, timer
  <1> QED BY <1>3, <1>4 DEF Alone

\* or at every tenth timeout.
LEMMA AloneTimer ==
    ASSUME Numbers, Alone, labwork_timer
    PROVE  Numbers' /\ Alone'
  <1>1. /\ AtLoop /\ lab = "timer" /\ flag /\ ~flag' /\ flag' \in BOOLEAN /\ seen' = TRUE
        /\ UNCHANGED <<lab, ticks, isr, expired, panel, txb, sr, rbf, mode, textbuffer, clean>>
    <2>1. flag' = FALSE /\ seen' = TRUE
      BY DEF labwork_timer
    <2>2. ~flag' /\ flag' \in BOOLEAN
      BY <2>1, Zenon
    <2> QED BY <2>1, <2>2 DEF labwork_timer, spi
  <1>2. Owing(0)
    <2>1. PICK s : s = main
      OBVIOUS
    <2>2. Head(s)[1] = "labwork"
      BY <1>1, <2>1 DEF AtLoop
    <2> QED BY <2>1, <2>2, AloneHeads
  <1>3. expired = Period * ticks + timeoutcount + 1
    <2>1. ticks + 0 = ticks
      BY DEF Numbers
    <2> QED BY <1>1, <1>2, <2>1 DEF Owing
  <1>10. clean' \in BOOLEAN
    BY <1>1, Zenon DEF Numbers
  <1>4. /\ timeoutcount + 1 = Period /\ timeoutcount' = 0 => Numbers' /\ Owing(1)'
        /\ timeoutcount + 1 # Period /\ timeoutcount' = timeoutcount + 1 => Numbers' /\ Owing(0)'
    BY <1>1, <1>3, <1>10, OwingCounts
  <1>5. CASE (timeoutcount + 1) % Period = 0
    <2>1. timeoutcount' = 0 /\ \E btns \in Pressed, sws \in Switches : Second(btns, sws)
      BY <1>5 DEF labwork_timer
    <2>2. PICK btns \in Pressed, sws \in Switches : Second(btns, sws)
      BY <2>1
    <2>3. isr' = None /\ Writing(main, SecondRest)'
      BY <1>1, <2>2, SecondBegins
    <2>4. Numbers' /\ Owing(1)'
      BY <1>4, <1>5, <2>1, WholeSecond
    <2> QED BY <2>3, <2>4 DEF Alone
  <1>6. CASE (timeoutcount + 1) % Period # 0
    <2>1. timeoutcount' = timeoutcount + 1 /\ UNCHANGED main
      BY <1>6 DEF labwork_timer
    <2>2. Numbers' /\ Owing(0)'
      BY <1>4, <1>6, <2>1, WholeSecond
    <2>3. PICK s : s = main
      OBVIOUS
    <2>4. Head(s)[1] = "labwork" /\ main' = s
      BY <1>1, <2>1, <2>3 DEF AtLoop
    <2>5. Done(s, "icons", labworkOps)
      BY <2>3, <2>4, AloneHeads
    <2>6. Drawing(s, "icons", labworkOps)'
      BY <1>1, <2>5, DoneKept DEF Drawing
    <2>7. Drawing(main, "icons", labworkOps)'
      BY <2>4, <2>6, MainDraws
    <2>8. isr' = None
      BY <1>1 DEF AtLoop
    <2> QED BY <2>2, <2>7, <2>8 DEF Alone
  <1> QED BY <1>5, <1>6

\* Every step of io and of timer keeps the invariant.
LEMMA AloneNext ==
    ASSUME Numbers, Alone, lab # "interrupts", [Next]_vars
    PROVE  Numbers' /\ Alone' /\ lab' = lab
  <1>1. lab' = lab
    BY DEF Next, Processor, Shift, Expire, labinit, labwork_io, labwork_timer, labwork_interrupts, Interrupt,
           Clear, Count, Tick, Char, SetMode, WaitEmpty, Write, WaitReceived, Read, program, vars
  <1>2. PICK s : s = main
    OBVIOUS
  <1>3. Running = s /\ isr = None /\ ~(Head(s)[1] = "clear") /\ ~(Head(s)[1] = "count")
    BY <1>2, AloneHeads DEF Running, Alone
  <1>4. CASE labinit
    BY <1>1, <1>4, AloneInit
  <1>5. CASE labwork_io
    BY <1>1, <1>5, AloneIo
  <1>6. CASE labwork_timer
    BY <1>1, <1>6, AloneTimer
  <1>7. CASE labwork_interrupts \/ Interrupt
    BY <1>7 DEF labwork_interrupts, Interrupt
  <1>8. CASE Clear \/ Count
    BY <1>3, <1>8 DEF Clear, Count, Do
  <1>9. CASE Tick
    BY <1>1, <1>9, AloneTick
  <1>10. CASE Char
    BY <1>1, <1>10, AloneChar
  <1>11. CASE Draws
    BY <1>1, <1>11, AloneDraws
  <1>12. CASE Shift \/ UNCHANGED vars
    <2>1. UNCHANGED <<main, isr>> /\ UNCHANGED <<program, timer, clean>> /\ (Kept \/ Shift)
      BY <1>12 DEF Shift, vars, threads, program, spi, Kept
    <2>2. Numbers' /\ (Owing(0)' <=> Owing(0)) /\ (Owing(1)' <=> Owing(1))
      BY <2>1, NumbersKept, OwingKept
    <2> QED BY <1>1, <2>1, <2>2, AloneKept
  <1>13. CASE Expire
    <2>1. UNCHANGED <<main, isr>> /\ Kept
      BY <1>13 DEF Expire, threads, program, spi, Kept
    <2>2. (Owing(0) => Owing(0)') /\ (Owing(1) => Owing(1)')
      BY <1>13, OwingExpires
    <2>3. Numbers'
      BY <1>13, OwingExpires DEF Alone
    <2> QED BY <1>1, <2>1, <2>2, <2>3, AloneKept
  <1> QED BY <1>4, <1>5, <1>6, <1>7, <1>8, <1>9, <1>10, <1>11, <1>12, <1>13 DEF Next, Processor, Draws

-----------------------------------------------------------------------------
(* The program with the interrupt routine.                                 *)

\* A thread that draws has one step less to do after each.
LEMMA LiveLen ==
    ASSUME NEW s, NEW rest \in Seq(AllOps), Live(s, "cells", rest)
    PROVE  s \in Seq(AllOps) /\ Len(s) \in Nat /\ Len(Tail(s)) = Len(s) - 1
  <1>1. s \in Seq(AllOps) /\ s # <<>>
    BY LiveHead DEF Kinds
  <1> QED BY <1>1, Shorter

\* Of an update that is not clean, only what is left to do is said.
LEMMA LiveUnclean ==
    ASSUME NEW s, NEW k, NEW rest, Live(s, k, rest), ~clean'
    PROVE  Live(s, k, rest)'
  <1>1. PICK r \in Rows, n \in Bytes(k), i \in -1 .. 3 : Place(s, k, rest, r, n, i)
    BY DEF Live
  <1>2. Place(s, k, rest, r, n, i)'
    BY <1>1
  <1> QED BY <1>2 DEF Live

\* An update begins with the mode.
LEMMA UpdateHead ==
    ASSUME NEW rest \in Seq(AllOps)
    PROVE  /\ Head(display_update \o rest)[1] = "mode"
           /\ display_update \in Seq(AllOps) /\ Len(display_update \o rest) = Len(display_update) + Len(rest)
  <1> DEFINE s == display_update \o rest
  <1>1. "cells" \in Kinds /\ Page \in Bytes("cells") /\ 0 \in Rows /\ -1 \in -1 .. 3
    BY BytesApart, Sizes DEF Kinds, Rows
  <1>2. Place(s, "cells", rest, 0, Page, -1)
    BY <1>1, Whole DEF Place, Stands, Within, Script
  <1> HIDE DEF s
  <1>3. Head(s) = Op("cells", 0, Page, -1)
    BY <1>1, <1>2, PlaceStep
  <1>4. Op("cells", 0, Page, -1)[1] = "mode"
    BY <1>1, OpKinds
  <1>5. display_update \in Seq(AllOps)
    BY RestTypes
  <1>6. Len(display_update \o rest) = Len(display_update) + Len(rest)
    BY <1>5
  <1> QED BY <1>3, <1>4, <1>5, <1>6 DEF s

\* The main loop never stands at what the routine or the start does.
LEMMA MainHead ==
    ASSUME main = labworkOps \/ WritingAt(main, labworkOps) \/ Live(main, "cells", labworkOps)
    PROVE  Head(main)[1] \in {"mode", "tbe", "write", "rbf", "read", "char", "labwork"}
  <1>1. PICK s : s = main
    OBVIOUS
  <1>2. CASE s = labworkOps
    BY <1>1, <1>2, RestHeads
  <1>3. CASE WritingAt(s, labworkOps)
    BY <1>1, <1>3, WritingCases, UpdateHead, RestTypes
  <1>4. CASE Live(s, "cells", labworkOps)
    <2>1. Head(s)[1] \in {"mode", "tbe", "write", "rbf", "read"}
      BY <1>4, LiveHead, RestTypes DEF Kinds
    <2> QED BY <1>1, <2>1
  <1> QED BY <1>1, <1>2, <1>3, <1>4

LEMMA MainWorksHead ==
    ASSUME MainWorks \/ MainWaits
    PROVE  Head(main)[1] \in {"mode", "tbe", "write", "rbf", "read", "char", "labwork"}
  BY MainHead DEF MainWorks, MainWaits, Resting, Done, Writing, Updating

\* Where the main loop of interrupts is.
LEMMA MainWorksCases ==
    ASSUME MainWorks, NEW s, s = main
    PROVE  \/ Live(s, "cells", labworkOps) /\ Len(s) - 1 <= Len(display_update)
           \/ Writing(s, labworkOps) /\ s # <<>> /\ Head(s)[1] = "char" /\ WritingAt(Tail(s), labworkOps)
           \/ \E k \in Kinds : Done(s, k, labworkOps)
  <1>1. CASE Resting
    BY <1>1 DEF Resting
  <1>2. CASE Writing(s, labworkOps)
    <2>1. CASE Live(s, "cells", labworkOps) /\ s = display_update \o labworkOps
      <3>1. Len(s) = Len(display_update) + 1 /\ Len(display_update) \in Nat
        <4>1. display_update \in Seq(AllOps)
              /\ Len(display_update \o labworkOps) = Len(display_update) + Len(labworkOps)
          BY UpdateHead, RestTypes
        <4>2. Len(display_update) \in Nat
          BY <4>1
        <4> QED BY <2>1, <4>1, <4>2, RestHeads
      <3>2. Len(s) - 1 <= Len(display_update)
        BY <3>1
      <3> QED BY <2>1, <3>2
    <2> QED BY <1>2, <2>1, WritingHead, RestTypes
  <1>3. CASE Updating
    <2>1. Live(s, "cells", labworkOps) /\ Len(s) <= Len(display_update)
      BY <1>3 DEF Updating
    <2>2. Len(s) \in Nat /\ Len(display_update) \in Nat
      BY <2>1, LiveLen, RestTypes
    <2>3. Len(s) - 1 <= Len(display_update)
      BY <2>1, <2>2
    <2> QED BY <2>1, <2>3
  <1> QED BY <1>1, <1>2, <1>3 DEF MainWorks

\* It draws,
LEMMA MainWorksDraw ==
    ASSUME MainWorks, isr = None, Draws
    PROVE  MainWorks' /\ UNCHANGED <<program, timer, clean, isr>>
  <1>1. PICK s : s = main
    OBVIOUS
  <1>2. DrawStep(s) /\ main' = Tail(s) /\ isr' = isr
    <2>1. Running = s
      BY <1>1 DEF Running
    <2>2. DrawStep(s) /\ Go(Tail(s))
      BY <2>1, DrawsStep
    <2> QED BY <2>2 DEF Go
  <1>3. UNCHANGED <<program, timer, clean>> /\ Head(s)[1] \in {"mode", "tbe", "write", "rbf", "read"}
    BY <1>2 DEF DrawStep
  <1>4. CASE Live(s, "cells", labworkOps) /\ Len(s) - 1 <= Len(display_update)
    <2>1. Drawing(Tail(s), "cells", labworkOps)'
      BY <1>2, <1>4, LiveStep, RestTypes DEF Kinds
    <2>2. CASE Live(Tail(s), "cells", labworkOps)'
      <3>1. Live(main, "cells", labworkOps)'
        BY <1>2, <2>2, MainDraws
      <3>2. Len(Tail(s)) <= Len(display_update)
        BY <1>4, LiveLen, RestTypes
      <3> QED BY <1>2, <1>3, <3>1, <3>2 DEF MainWorks, Updating
    <2>3. CASE Done(Tail(s), "cells", labworkOps)'
      <3>1. Done(main, "cells", labworkOps)'
        BY <1>2, <2>3, MainDraws
      <3> QED BY <1>2, <1>3, <3>1 DEF MainWorks, Resting, Kinds
    <2> QED BY <2>1, <2>2, <2>3 DEF Drawing
  <1>5. CASE \E k \in Kinds : Done(s, k, labworkOps)
    <2>1. Head(s)[1] = "labwork"
      BY <1>5, RestHeads DEF Done
    <2> QED BY <1>3, <2>1
  <1> QED BY <1>1, <1>3, <1>4, <1>5, MainWorksCases

\* writes its text,
LEMMA MainWorksChar ==
    ASSUME MainWorks, isr = None, Char
    PROVE  MainWorks' /\ isr' = isr
  <1>1. PICK s : s = main
    OBVIOUS
  <1>2. Head(s)[1] = "char" /\ main' = Tail(s) /\ isr' = isr
    BY <1>1 DEF Char, Do, Running, Go
  <1>3. UNCHANGED <<spi, panel, clean>>
    BY DEF Char
  <1>4. ~Live(s, "cells", labworkOps)
    BY <1>2, LiveHead, RestTypes DEF Kinds
  <1>5. ~\E k \in Kinds : Done(s, k, labworkOps)
    BY <1>2, RestHeads DEF Done
  <1>6. Writing(s, labworkOps) /\ WritingAt(Tail(s), labworkOps)
    BY <1>1, <1>4, <1>5, MainWorksCases
  <1>7. Writing(Tail(s), labworkOps)'
    BY <1>3, <1>6, WritingChar
  <1>8. Writing(main, labworkOps)'
    BY <1>2, <1>7, MainWrites
  <1> QED BY <1>2, <1>8 DEF MainWorks

\* stays where it is while nothing is drawn,
LEMMA MainWorksKept ==
    ASSUME MainWorks, UNCHANGED main, Kept \/ Shift
    PROVE  MainWorks'
  <1>1. PICK s : s = main
    OBVIOUS
  <1>2. main' = s
    BY <1>1
  <1>3. ASSUME NEW k \in Kinds, NEW rest, Drawing(s, k, rest) PROVE Drawing(s, k, rest)'
    BY <1>3, DrawingKept, DrawingShifts DEF Kept
  <1>4. CASE Resting
    <2>1. PICK k \in Kinds : Done(s, k, labworkOps)
      BY <1>1, <1>4 DEF Resting
    <2>2. Done(s, k, labworkOps)'
      <3>1. CASE Kept
        BY <2>1, <3>1, DoneKept DEF Kept
      <3>2. CASE Shift
        <4>1. s = labworkOps /\ ~clean /\ clean' = clean
          BY <2>1, <3>2 DEF Shift, Done, State
        <4> QED BY <4>1 DEF Done
      <3> QED BY <3>1, <3>2
    <2>3. Done(main, k, labworkOps)'
      BY <1>2, <2>2, MainDraws
    <2> QED BY <2>3 DEF MainWorks, Resting
  <1>5. CASE Writing(s, labworkOps)
    <2>1. Writing(s, labworkOps)'
      BY <1>5, WritingKept, WritingShifts DEF Kept
    <2>2. Writing(main, labworkOps)'
      BY <1>2, <2>1, MainWrites
    <2> QED BY <2>2 DEF MainWorks
  <1>6. CASE Updating
    <2>1. Live(s, "cells", labworkOps)
      BY <1>1, <1>6 DEF Updating
    <2>2. Live(s, "cells", labworkOps)'
      BY <2>1, LiveKept, LiveShifts DEF Kept, Kinds
    <2>3. Live(main, "cells", labworkOps)'
      BY <1>2, <2>2, MainDraws
    <2> QED BY <1>1, <1>2, <1>6, <2>3 DEF MainWorks, Updating
  <1> QED BY <1>1, <1>4, <1>5, <1>6 DEF MainWorks

\* and waits while the routine draws.
LEMMA MainWaitsKept ==
    ASSUME MainWaits, UNCHANGED <<main, clean>>
    PROVE  MainWaits'
  <1>1. PICK s : s = main
    OBVIOUS
  <1>2. main' = s
    BY <1>1
  <1>3. CASE ~clean /\ Updating
    <2>1. Live(s, "cells", labworkOps) /\ ~clean'
      BY <1>1, <1>3 DEF Updating
    <2>2. Live(s, "cells", labworkOps)'
      BY <2>1, LiveUnclean
    <2>3. Live(main, "cells", labworkOps)'
      BY <1>2, <2>2, MainDraws
    <2> QED BY <1>1, <1>2, <1>3, <2>1, <2>3 DEF MainWaits, Updating
  <1>4. CASE main = labworkOps
    BY <1>4 DEF MainWaits
  <1>5. CASE WritingAt(s, labworkOps)
    <2>1. WritingAt(main, labworkOps)'
      BY <1>2, <1>5, MainWrites
    <2> QED BY <2>1 DEF MainWaits
  <1> QED BY <1>1, <1>3, <1>4, <1>5 DEF MainWaits

ClearOps == << <<"clear">>, <<"count">> >>
CountOps == << <<"count">> >>

LEMMA RoutineOps ==
    /\ None # ClearOps /\ None # CountOps /\ ClearOps # CountOps
    /\ Head(ClearOps)[1] = "clear" /\ Tail(ClearOps) = CountOps
    /\ Head(CountOps)[1] = "count" /\ Tail(CountOps) = <<>>
  BY DEF None, ClearOps, CountOps

\* What the routine does while it shows the time.
LEMMA BusyHeads ==
    ASSUME NEW s, Writing(s, tickOps) \/ Drawing(s, "cells", tickOps)
    PROVE  /\ s # <<>> /\ Head(s)[1] \in {"mode", "tbe", "write", "rbf", "read", "char", "tick"}
           /\ Head(s)[1] = "char" => Writing(s, tickOps) /\ WritingAt(Tail(s), tickOps)
           /\ Head(s)[1] = "tick" => Done(s, "cells", tickOps)
           /\ Head(s)[1] \in {"mode", "tbe", "write", "rbf", "read"} => Live(s, "cells", tickOps)
  <1>1. CASE Live(s, "cells", tickOps)
    <2>1. s # <<>> /\ Head(s)[1] \in {"mode", "tbe", "write", "rbf", "read"}
      BY <1>1, LiveHead, RestTypes DEF Kinds
    <2> QED BY <1>1, <2>1
  <1>2. CASE Writing(s, tickOps) /\ ~Live(s, "cells", tickOps)
    BY <1>2, WritingHead, RestTypes
  <1>3. CASE Done(s, "cells", tickOps)
    BY <1>3, RestHeads DEF Done
  <1> QED BY <1>1, <1>2, <1>3 DEF Drawing

\* Every step of interrupts keeps the invariant: at the start,
LEMMA InterruptedStarts ==
    ASSUME Numbers, MainStarts, isr = None, Owing(0), lab = "interrupts", [Next]_vars
    PROVE  Numbers' /\ Interrupted'
  <1>1. Running = main /\ Head(main)[1] \in {"mode", "tbe", "write", "rbf", "read", "labinit"}
    BY StartsHead DEF Running
  <1>2. ~AtLoop
    BY <1>1 DEF AtLoop
  <1>3. ~Interrupt
    BY StartsAtStart DEF Interrupt
  <1>4. CASE labinit
    <2>1. Done(main, "icons", labinitOps)
      BY <1>4, StartsHead DEF labinit
    <2>2. /\ main' = labworkOps /\ isr' = isr /\ UNCHANGED <<program, timer>>
          /\ UNCHANGED <<panel, textbuffer, txb, sr, rbf, mode>> /\ clean' = clean
      BY <1>4 DEF labinit, labworkOps, spi, program
    <2>3. Done(labworkOps, "icons", labworkOps)
      BY <2>1 DEF Done
    <2>4. Done(labworkOps, "icons", labworkOps)'
      BY <2>2, <2>3, DoneKept
    <2>5. Done(main, "icons", labworkOps)'
      BY <2>2, <2>4, MainDraws
    <2>6. Numbers' /\ Owing(0)'
      BY <2>2, NumbersKept, OwingKept
    <2> QED BY <2>2, <2>5, <2>6 DEF Interrupted, Calmly, Shortly, MainWorks, Resting, Kinds
  <1>5. CASE Draws
    <2>1. MainStarts' /\ UNCHANGED <<program, timer, clean, isr>>
      BY <1>5, StartsDraw
    <2>2. Numbers' /\ Owing(0)'
      BY <2>1, NumbersKept, OwingKept
    <2> QED BY <2>1, <2>2 DEF Interrupted
  <1>6. CASE Shift \/ UNCHANGED vars
    <2>1. UNCHANGED <<main, isr>> /\ UNCHANGED <<program, timer, clean>> /\ (Kept \/ Shift)
      BY <1>6 DEF Shift, vars, threads, program, spi, Kept
    <2>2. MainStarts' /\ Numbers' /\ Owing(0)'
      BY <2>1, StartsKept, NumbersKept, OwingKept
    <2> QED BY <2>1, <2>2 DEF Interrupted
  <1>7. CASE Expire
    <2>1. UNCHANGED <<main, isr>> /\ Kept
      BY <1>7 DEF Expire, threads, program, spi, Kept
    <2>2. MainStarts' /\ Numbers' /\ Owing(0)'
      BY <1>7, <2>1, StartsKept, OwingExpires
    <2> QED BY <2>1, <2>2 DEF Interrupted
  <1>8. ~labwork_io /\ ~labwork_timer /\ ~labwork_interrupts
    BY <1>2 DEF labwork_io, labwork_timer, labwork_interrupts
  <1>9. ~Clear /\ ~Count /\ ~Tick /\ ~Char
    BY <1>1 DEF Clear, Count, Tick, Char, Do
  <1> QED BY <1>3, <1>4, <1>5, <1>6, <1>7, <1>8, <1>9 DEF Next, Processor, Draws

LEMMA CalmlyKept ==
    ASSUME MainWorks, UNCHANGED main, Kept \/ Shift, Shortly'
    PROVE  Interrupted'
  BY MainWorksKept DEF Interrupted, Calmly

\* The last timeout of a second: an update begun inside another is not clean.
LEMMA RoutineBegins ==
    ASSUME Numbers, MainWorks, lab = "interrupts", isr = CountOps, ~flag, ~seen,
           expired = Period * ticks + timeoutcount + 1, Count
    PROVE  Numbers' /\ Interrupted'
  <1>1. Tail(Running) = <<>> /\ isr # None
    BY RoutineOps DEF Running
  <1>2. /\ UNCHANGED <<lab, ticks, expired, flag, panel, textbuffer, txb, sr, rbf, mode>> /\ seen' = TRUE
    BY DEF Count, spi
  <1>3. flag' \in BOOLEAN /\ ~flag'
    BY <1>2, Zenon DEF Numbers
  <1>4. CASE timeoutcount + 1 = Period
    <2>1. PICK t : t = mytime
      OBVIOUS
    <2>2. PICK x : x = ShowTime(t) \o << <<"tick">> >> \o <<>>
      OBVIOUS
    <2>3. timeoutcount' = 0 /\ isr' = x /\ main' = main /\ clean' = (clean /\ ~MidUpdate)
      BY <1>1, <1>4, <2>1, <2>2 DEF Count, Go
    <2>4. clean' \in BOOLEAN /\ (clean' => clean /\ ~MidUpdate)
      BY <2>3, Zenon
    <2>5. Numbers' /\ Owing(1)'
      BY <1>2, <1>3, <1>4, <2>3, <2>4, OwingCounts
    <2>6. PICK s : s = main
      OBVIOUS
    <2>7. MainWaits' /\ (clean' => Idle /\ PanelOk)
      <3>1. CASE Resting
        <4>1. PICK k \in Kinds : Done(s, k, labworkOps)
          BY <2>6, <3>1 DEF Resting
        <4>2. s = labworkOps /\ (clean => Idle /\ PanelOk)
          BY <4>1, DoneIdle DEF Done
        <4> QED BY <2>3, <2>4, <2>6, <4>2 DEF MainWaits
      <3>2. CASE Writing(s, labworkOps)
        <4>1. WritingAt(s, labworkOps) /\ (clean => Idle /\ PanelOk) /\ main' = s
          BY <2>3, <2>6, <3>2 DEF Writing
        <4>2. WritingAt(main, labworkOps)'
          BY <4>1, MainWrites
        <4> QED BY <2>4, <4>1, <4>2 DEF MainWaits
      <3>3. CASE Updating
        <4>1. Live(s, "cells", labworkOps) /\ Len(s) <= Len(display_update) /\ main' = s
          BY <2>3, <2>6, <3>3 DEF Updating
        <4>2. Head(s)[1] \in {"mode", "tbe", "write", "rbf", "read"}
          BY <4>1, LiveHead, RestTypes DEF Kinds
        <4>3. s # << <<"labwork">> >>
          BY <4>2, RestHeads DEF labworkOps
        <4>4. MidUpdate
          BY <2>6, <4>1, <4>3 DEF MidUpdate
        <4>5. ~clean'
          BY <2>4, <4>4
        <4>6. Live(s, "cells", labworkOps)'
          BY <4>1, <4>5, LiveUnclean
        <4>7. Live(main, "cells", labworkOps)'
          BY <4>1, <4>6, MainDraws
        <4> QED BY <4>1, <4>5, <4>7 DEF MainWaits, Updating
      <3> QED BY <2>6, <3>1, <3>2, <3>3 DEF MainWorks
    <2>8. WritingAt(x, tickOps)
      BY <2>2, TextsWait
    <2>9. WritingAt(x, tickOps)'
      BY <2>8
    <2>10. clean' => Idle' /\ PanelOk'
      BY <1>2, <2>7 DEF Idle, PanelOk
    <2>11. Writing(x, tickOps)'
      BY <2>9, <2>10 DEF Writing
    <2>12. Writing(isr, tickOps)'
      BY <2>3, <2>11, IsrWrites
    <2> QED BY <2>5, <2>7, <2>12 DEF Interrupted, Busily
  <1>5. CASE timeoutcount + 1 # Period
    <2>1. timeoutcount' = timeoutcount + 1 /\ isr' = None /\ main' = main /\ clean' = clean
      BY <1>1, <1>5 DEF Count, Go, None
    <2>2. clean' \in BOOLEAN
      BY <2>1, Zenon DEF Numbers
    <2>3. Numbers' /\ Owing(0)'
      BY <1>2, <1>3, <1>5, <2>1, <2>2, OwingCounts
    <2>4. Kept /\ Shortly'
      BY <1>2, <2>1, <2>3 DEF Kept, Shortly
    <2> QED BY <2>1, <2>3, <2>4, CalmlyKept
  <1> QED BY <1>4, <1>5

\* Steps that nothing of the program is open to while main is at work.
LEMMA NotAtWork ==
    ASSUME MainWorks \/ MainWaits, lab = "interrupts"
    PROVE  ~labinit /\ ~labwork_io /\ ~labwork_timer
  <1>1. Head(main)[1] # "labinit"
    BY MainWorksHead
  <1> QED BY <1>1 DEF labinit, labwork_io, labwork_timer

\* The main loop shows the next prime.
LEMMA PrimeBegins ==
    ASSUME Numbers, MainWorks, isr = None, Owing(0), lab = "interrupts", labwork_interrupts
    PROVE  Numbers' /\ Interrupted'
  <1>1. PICK s : s = main
    OBVIOUS
  <1>2. /\ Head(s)[1] = "labwork" /\ isr' = None
        /\ UNCHANGED <<lab, timeoutcount, ticks, timer, panel, txb, sr, rbf, clean>>
    BY <1>1 DEF labwork_interrupts, AtLoop, spi
  <1>3. ~Live(s, "cells", labworkOps)
    BY <1>2, LiveHead, RestTypes DEF Kinds
  <1>4. PICK k \in Kinds : Done(s, k, labworkOps)
    BY <1>1, <1>2, <1>3, MainWorksCases
  <1>5. clean => Idle /\ PanelOk
    BY <1>4, DoneIdle
  <1>6. PICK p : p = prime'
    OBVIOUS
  <1>7. PICK x : x = display_string(0, PrimeText(p)) \o display_update \o << <<"labwork">> >>
    OBVIOUS
  <1>8. main' = x
    BY <1>6, <1>7 DEF labwork_interrupts
  <1>9. WritingAt(x, labworkOps)
    BY <1>7, PrimeWaits
  <1>10. WritingAt(x, labworkOps)'
    BY <1>9
  <1>11. clean' => Idle' /\ PanelOk'
    BY <1>2, <1>5 DEF Idle, PanelOk
  <1>12. Writing(x, labworkOps)'
    BY <1>10, <1>11 DEF Writing
  <1>13. Writing(main, labworkOps)'
    BY <1>8, <1>12, MainWrites
  <1>14. Numbers' /\ Owing(0)'
    BY <1>2 DEF Numbers, Owing, timer
  <1> QED BY <1>2, <1>13, <1>14 DEF Interrupted, Calmly, Shortly, MainWorks

\* in the main loop,
LEMMA CalmlyMain ==
    ASSUME Numbers, MainWorks, isr = None, Owing(0), lab = "interrupts", [Next]_vars
    PROVE  Numbers' /\ Interrupted'
  <1>1. Running = main /\ Head(main)[1] \in {"mode", "tbe", "write", "rbf", "read", "char", "labwork"}
    BY MainWorksHead DEF Running
  <1>2. CASE labwork_interrupts
    BY <1>2, PrimeBegins
  <1>3. CASE Interrupt
    <2>1. /\ isr' = IsrOps /\ flag /\ UNCHANGED main /\ UNCHANGED <<program, timer, clean>> /\ Kept
      BY <1>3 DEF Interrupt, Kept, program, spi
    <2>2. Numbers' /\ Owing(0)' /\ flag'
      BY <2>1, NumbersKept, OwingKept DEF timer
    <2>3. Shortly'
      BY <2>1, <2>2 DEF Shortly, IsrOps
    <2> QED BY <2>1, <2>2, <2>3, CalmlyKept
  <1>4. CASE Char
    <2>1. MainWorks' /\ isr' = isr
      BY <1>4, MainWorksChar
    <2>2. Numbers' /\ Owing(0)'
      BY <1>4 DEF Char, Numbers, Owing, timer
    <2> QED BY <2>1, <2>2 DEF Interrupted, Calmly, Shortly
  <1>5. CASE Draws
    <2>1. MainWorks' /\ UNCHANGED <<program, timer, clean, isr>>
      BY <1>5, MainWorksDraw
    <2>2. Numbers' /\ Owing(0)'
      BY <2>1, NumbersKept, OwingKept
    <2> QED BY <2>1, <2>2 DEF Interrupted, Calmly, Shortly
  <1>6. CASE Shift \/ UNCHANGED vars
    <2>1. UNCHANGED <<main, isr>> /\ UNCHANGED <<program, timer, clean>> /\ (Kept \/ Shift)
      BY <1>6 DEF Shift, vars, threads, program, spi, Kept
    <2>2. Numbers' /\ Owing(0)'
      BY <2>1, NumbersKept, OwingKept
    <2>3. Shortly'
      BY <2>1, <2>2 DEF Shortly
    <2> QED BY <2>1, <2>2, <2>3, CalmlyKept
  <1>7. CASE Expire
    <2>1. UNCHANGED <<main, isr>> /\ Kept
      BY <1>7 DEF Expire, threads, program, spi, Kept
    <2>2. Numbers' /\ Owing(0)'
      BY <1>7, OwingExpires
    <2>3. Shortly'
      BY <2>1, <2>2 DEF Shortly
    <2> QED BY <2>1, <2>2, <2>3, CalmlyKept
  <1>8. ~Clear /\ ~Count /\ ~Tick
    BY <1>1 DEF Clear, Count, Tick, Do
  <1> QED BY <1>2, <1>3, <1>4, <1>5, <1>6, <1>7, <1>8, NotAtWork DEF Next, Processor, Draws

\* when the routine is entered,
LEMMA CalmlyClears ==
    ASSUME Numbers, MainWorks, isr = ClearOps, flag, Owing(0), lab = "interrupts", [Next]_vars
    PROVE  Numbers' /\ Interrupted'
  <1>1. isr # None /\ Running = ClearOps
    BY RoutineOps DEF Running
  <1>2. CASE Clear
    <2>1. /\ isr' = CountOps /\ main' = main /\ flag' = FALSE /\ UNCHANGED <<program, expired, seen, clean>> /\ Kept
      BY <1>1, <1>2, RoutineOps DEF Clear, Do, Go, Kept, program, spi
    <2>2. ~seen
      <3>1. seen = ~flag
        BY DEF Owing
      <3> QED BY <3>1, Zenon
    <2>3. expired = Period * ticks + timeoutcount + 1
      <3>1. ticks + 0 = ticks
        BY DEF Numbers
      <3> QED BY <3>1 DEF Owing
    <2>4. flag' \in BOOLEAN /\ ~flag'
      BY <2>1, Zenon
    <2>5. Numbers'
      BY <2>1, <2>4 DEF Numbers, program
    <2>6. Shortly'
      BY <2>1, <2>2, <2>3, <2>4 DEF Shortly, CountOps, program
    <2> QED BY <2>1, <2>5, <2>6, CalmlyKept
  <1>3. CASE Shift \/ UNCHANGED vars
    <2>1. UNCHANGED <<main, isr>> /\ UNCHANGED <<program, timer, clean>> /\ (Kept \/ Shift)
      BY <1>3 DEF Shift, vars, threads, program, spi, Kept
    <2>2. Numbers' /\ Owing(0)' /\ flag'
      BY <2>1, NumbersKept, OwingKept DEF timer
    <2>3. Shortly'
      BY <2>1, <2>2 DEF Shortly, ClearOps
    <2> QED BY <2>1, <2>2, <2>3, CalmlyKept
  <1>4. CASE Expire
    <2>1. UNCHANGED <<main, isr>> /\ Kept /\ flag'
      BY <1>4 DEF Expire, threads, program, spi, Kept
    <2>2. Numbers' /\ Owing(0)'
      BY <1>4, OwingExpires
    <2>3. Shortly'
      BY <2>1, <2>2 DEF Shortly, ClearOps
    <2> QED BY <2>1, <2>2, <2>3, CalmlyKept
  <1>5. ~Count /\ ~Tick /\ ~Char /\ ~Draws
    BY <1>1, RoutineOps DEF Count, Tick, Char, Draws, SetMode, WaitEmpty, Write, WaitReceived, Read, Do
  <1>6. ~Interrupt /\ ~labwork_interrupts
    BY <1>1 DEF Interrupt, labwork_interrupts, AtLoop
  <1> QED BY <1>2, <1>3, <1>4, <1>5, <1>6, NotAtWork DEF Next, Processor, Draws

\* when it counts,
LEMMA CalmlyCounts ==
    ASSUME Numbers, MainWorks, isr = CountOps, ~flag, ~seen, expired = Period * ticks + timeoutcount + 1,
           lab = "interrupts", [Next]_vars
    PROVE  Numbers' /\ Interrupted'
  <1>1. isr # None /\ Running = CountOps
    BY RoutineOps DEF Running
  <1>2. CASE Count
    BY <1>2, RoutineBegins
  <1>3. CASE Shift \/ UNCHANGED vars
    <2>1. UNCHANGED <<main, isr>> /\ UNCHANGED <<program, timer, clean>> /\ (Kept \/ Shift)
      BY <1>3 DEF Shift, vars, threads, program, spi, Kept
    <2>2. Numbers'
      BY <2>1, NumbersKept
    <2>3. Shortly'
      BY <2>1, <2>2 DEF Shortly, CountOps, timer, program
    <2> QED BY <2>1, <2>2, <2>3, CalmlyKept
  <1>4. ~Expire
    BY DEF Expire
  <1>5. ~Clear /\ ~Tick /\ ~Char /\ ~Draws
    BY <1>1, RoutineOps DEF Clear, Tick, Char, Draws, SetMode, WaitEmpty, Write, WaitReceived, Read, Do
  <1>6. ~Interrupt /\ ~labwork_interrupts
    BY <1>1 DEF Interrupt, labwork_interrupts, AtLoop
  <1> QED BY <1>2, <1>3, <1>4, <1>5, <1>6, NotAtWork DEF Next, Processor, Draws

\* and while it shows the time.
LEMMA BusilyNext ==
    ASSUME Numbers, Busily, lab = "interrupts", [Next]_vars
    PROVE  Numbers' /\ Interrupted'
  <1>1. PICK s : s = isr
    OBVIOUS
  <1>2. PICK m : m = main
    OBVIOUS
  <1>3. (Writing(s, tickOps) \/ Drawing(s, "cells", tickOps)) /\ Owing(1) /\ MainWaits
    BY <1>1 DEF Busily
  <1>4. /\ s # <<>> /\ Head(s)[1] \in {"mode", "tbe", "write", "rbf", "read", "char", "tick"}
        /\ Head(s)[1] = "char" => Writing(s, tickOps) /\ WritingAt(Tail(s), tickOps)
        /\ Head(s)[1] = "tick" => Done(s, "cells", tickOps)
        /\ Head(s)[1] \in {"mode", "tbe", "write", "rbf", "read"} => Live(s, "cells", tickOps)
    BY <1>3, BusyHeads
  <1>5. Running = s /\ isr # None
    BY <1>1, <1>4 DEF Running, None
  <1>6. CASE Draws
    <2>1. DrawStep(s) /\ isr' = Tail(s) /\ main' = main
      <3>1. DrawStep(s) /\ Go(Tail(s))
        BY <1>5, <1>6, DrawsStep
      <3> QED BY <1>5, <3>1 DEF Go
    <2>2. UNCHANGED <<program, timer, clean>> /\ Head(s)[1] \in {"mode", "tbe", "write", "rbf", "read"}
      BY <2>1 DEF DrawStep
    <2>3. Drawing(Tail(s), "cells", tickOps)'
      BY <1>4, <2>1, <2>2, LiveStep, RestTypes DEF Kinds
    <2>4. Drawing(isr, "cells", tickOps)'
      BY <2>1, <2>3, IsrDraws
    <2>5. Numbers' /\ Owing(1)' /\ MainWaits'
      BY <1>3, <2>1, <2>2, NumbersKept, OwingKept, MainWaitsKept
    <2> QED BY <2>4, <2>5 DEF Interrupted, Busily
  <1>7. CASE Char
    <2>1. Head(s)[1] = "char" /\ isr' = Tail(s) /\ main' = main
      BY <1>5, <1>7 DEF Char, Do, Go
    <2>2. UNCHANGED <<spi, panel, clean>>
      BY <1>7 DEF Char
    <2>3. Writing(Tail(s), tickOps)'
      BY <1>4, <2>1, <2>2, WritingChar
    <2>4. Writing(isr, tickOps)'
      BY <2>1, <2>3, IsrWrites
    <2>5. Numbers' /\ Owing(1)'
      BY <1>3, <1>7 DEF Char, Numbers, Owing, timer
    <2>6. MainWaits'
      BY <1>3, <2>1, <2>2, MainWaitsKept
    <2> QED BY <2>4, <2>5, <2>6 DEF Interrupted, Busily
  <1>8. CASE Tick
    <2>1. Head(s)[1] = "tick" /\ isr' = Tail(s) /\ main' = main /\ Kept
      BY <1>5, <1>8 DEF Tick, Do, Go, Kept, spi
    <2>2. Done(s, "cells", tickOps)
      BY <1>4, <2>1
    <2>3. isr' = None
      BY <2>1, <2>2, RestHeads DEF Done, None
    <2>4. Numbers' /\ Owing(0)'
      BY <1>3, <1>8, OwingTicks
    <2>5. MainWorks
      <3>1. CASE m = labworkOps
        <4>1. Done(m, "cells", labworkOps)
          BY <2>2, <3>1 DEF Done
        <4> QED BY <1>2, <4>1 DEF MainWorks, Resting, Kinds
      <3>2. CASE WritingAt(m, labworkOps)
        <4>1. Writing(m, labworkOps)
          BY <2>2, <3>2, DoneIdle DEF Writing
        <4> QED BY <1>2, <4>1 DEF MainWorks
      <3>3. CASE Updating
        BY <3>3 DEF MainWorks
      <3> QED BY <1>2, <1>3, <3>1, <3>2, <3>3 DEF MainWaits
    <2>6. Shortly'
      BY <2>3, <2>4 DEF Shortly
    <2> QED BY <2>1, <2>4, <2>5, <2>6, CalmlyKept
  <1>9. CASE Shift \/ UNCHANGED vars \/ Expire
    <2>1. UNCHANGED <<main, isr, clean>> /\ (Kept \/ Shift)
      BY <1>9 DEF Shift, Expire, vars, threads, program, spi, Kept
    <2>2. Numbers' /\ Owing(1)'
      <3>1. CASE Expire
        BY <1>3, <3>1, OwingExpires
      <3>2. CASE Shift \/ UNCHANGED vars
        <4>1. UNCHANGED <<program, timer, clean>>
          BY <3>2 DEF Shift, vars
        <4> QED BY <1>3, <4>1, NumbersKept, OwingKept
      <3> QED BY <1>9, <3>1, <3>2
    <2>3. MainWaits' /\ isr' = s
      BY <1>1, <1>3, <2>1, MainWaitsKept
    <2>4. CASE Writing(s, tickOps)
      <3>1. Writing(s, tickOps)'
        BY <2>1, <2>4, WritingKept, WritingShifts DEF Kept
      <3>2. Writing(isr, tickOps)'
        BY <2>3, <3>1, IsrWrites
      <3> QED BY <2>2, <2>3, <3>2 DEF Interrupted, Busily
    <2>5. CASE Drawing(s, "cells", tickOps)
      <3>1. Drawing(s, "cells", tickOps)'
        BY <2>1, <2>5, DrawingKept, DrawingShifts DEF Kept, Kinds
      <3>2. Drawing(isr, "cells", tickOps)'
        BY <2>3, <3>1, IsrDraws
      <3> QED BY <2>2, <2>3, <3>2 DEF Interrupted, Busily
    <2> QED BY <1>3, <2>4, <2>5
  <1>10. ~Clear /\ ~Count
    BY <1>4, <1>5 DEF Clear, Count, Do
  <1>11. ~Interrupt /\ ~labwork_interrupts
    BY <1>5 DEF Interrupt, labwork_interrupts, AtLoop
  <1> QED BY <1>3, <1>6, <1>7, <1>8, <1>9, <1>10, <1>11, NotAtWork DEF Next, Processor, Draws

\* So every step of interrupts keeps the invariant.
LEMMA InterruptedNext ==
    ASSUME Numbers, Interrupted, lab = "interrupts", [Next]_vars
    PROVE  Numbers' /\ Interrupted' /\ lab' = lab
  <1>1. lab' = lab
    BY DEF Next, Processor, Shift, Expire, labinit, labwork_io, labwork_timer, labwork_interrupts, Interrupt,
           Clear, Count, Tick, Char, SetMode, WaitEmpty, Write, WaitReceived, Read, program, vars
  <1>2. CASE MainStarts /\ isr = None /\ Owing(0)
    BY <1>1, <1>2, InterruptedStarts
  <1>3. CASE Calmly
    <2>1. MainWorks /\ Shortly
      BY <1>3 DEF Calmly
    <2>2. \/ isr = None /\ Owing(0)
          \/ isr = ClearOps /\ flag /\ Owing(0)
          \/ isr = CountOps /\ ~flag /\ ~seen /\ expired = Period * ticks + timeoutcount + 1
      BY <2>1 DEF Shortly, ClearOps, CountOps
    <2> QED BY <1>1, <2>1, <2>2, CalmlyMain, CalmlyClears, CalmlyCounts
  <1>4. CASE Busily
    BY <1>1, <1>4, BusilyNext
  <1> QED BY <1>2, <1>3, <1>4 DEF Interrupted

\* The programs begin with the welcome to be shown, and with no timeout.
LEMMA StartsRight ==
    ASSUME Init
    PROVE  LabInv
  <1>1. main = display_update \o display_image \o << <<"labinit">> >> /\ isr = None
    BY DEF Init
  <1>2. PICK s : s = main
    OBVIOUS
  <1>3. s = display_update \o StartRest
    <2>1. display_update \in Seq(AllOps) /\ display_image \in Seq(AllOps) /\ labinitOps \in Seq(AllOps)
      BY RestTypes
    <2>2. (display_update \o display_image) \o labinitOps = display_update \o (display_image \o labinitOps)
      BY <2>1, Associates
    <2> QED BY <1>1, <1>2, <2>2 DEF StartRest, labinitOps
  <1>4. Idle
    BY DEF Init, Idle
  <1>5. PanelOk
    <2>1. panel = [page |-> 0, col |-> 0, ram |-> [r \in Rows |-> [j \in Places |-> <<"unknown">>]]]
      BY DEF Init
    <2>2. panel.page = 0 /\ panel.col = 0 /\ panel.ram = [r \in Rows |-> [j \in Places |-> <<"unknown">>]]
      BY <2>1
    <2>3. 0 \in Rows /\ 0 \in Places
      BY Sizes DEF Rows, Places
    <2> QED BY <2>1, <2>2, <2>3 DEF PanelOk
  <1>6. Live(s, "cells", StartRest)
    BY <1>3, <1>4, <1>5, UpdateStarts, RestTypes
  <1>7. MainStarts
    BY <1>2, <1>6 DEF MainStarts, Drawing
  <1>8. Numbers
    <2>1. lab \in {"io", "timer", "interrupts"}
      BY LabAssumption DEF Init
    <2>4. flag = FALSE /\ seen = TRUE /\ clean = TRUE
      BY DEF Init
    <2>2. flag \in BOOLEAN /\ seen \in BOOLEAN /\ clean \in BOOLEAN
      BY <2>4, Zenon
    <2>3. timeoutcount \in 0 .. Period - 1 /\ ticks \in Nat /\ expired \in Nat
      BY Sizes DEF Init
    <2> QED BY <2>1, <2>2, <2>3 DEF Numbers
  <1>9. Owing(0)
    <2>3. flag = FALSE /\ seen = TRUE
      BY DEF Init
    <2>1. seen = ~flag
      BY <2>3, Zenon
    <2>2. expired = Period * (ticks + 0) + timeoutcount + (IF flag THEN 1 ELSE 0)
      BY Sizes DEF Init
    <2> QED BY <2>1, <2>2 DEF Owing
  <1> QED BY <1>1, <1>7, <1>8, <1>9 DEF LabInv, Interrupted, Alone

LEMMA GoesOnRight ==
    ASSUME LabInv, [Next]_vars
    PROVE  LabInv'
  BY AloneNext, InterruptedNext DEF LabInv

\* The inductive invariant: what the two threads have left to do, where the
\* display is with it, and the account of the timeouts.
THEOREM InvariantTheorem == Spec => []LabInv
  BY StartsRight, GoesOnRight, PTL DEF Spec

\* No timeout is lost: the seconds counted, the timeouts of the second that runs
\* and the one not yet looked at are all that came, at every place outside the
\* routine (interrupts/mipslabwork.c:25-35; timer/mipslabwork.c:46-66).
THEOREM SecondsTheorem == Spec => []SecondsKept
  <1>1. LabInv => SecondsKept
    <2> SUFFICES ASSUME LabInv, isr = None, lab = "interrupts" \/ (lab = "timer" /\ AtLoop)
                 PROVE  expired = Period * ticks + timeoutcount + (IF flag THEN 1 ELSE 0)
      BY DEF SecondsKept
    <2>1. Owing(0) => expired = Period * ticks + timeoutcount + (IF flag THEN 1 ELSE 0)
      <3>1. ticks + 0 = ticks
        BY DEF LabInv, Numbers
      <3> QED BY <3>1 DEF Owing
    <2>2. CASE lab = "interrupts"
      <3>1. Interrupted
        BY <2>2 DEF LabInv
      <3>2. ~Busily
        <4>1. PICK s : s = isr
          OBVIOUS
        <4>2. s = <<>>
          BY <4>1 DEF None
        <4> QED BY <4>1, <4>2, BusyHeads DEF Busily
      <3>3. Shortly => Owing(0)
        BY RoutineOps DEF Shortly, ClearOps, CountOps
      <3> QED BY <2>1, <3>1, <3>2, <3>3 DEF Interrupted, Calmly
    <2>3. CASE lab = "timer" /\ AtLoop
      <3>1. PICK s : s = main
        OBVIOUS
      <3>2. Alone /\ Head(s)[1] = "labwork"
        BY <2>3, <3>1 DEF LabInv, AtLoop
      <3>3. Owing(0)
        BY <3>1, <3>2, AloneHeads
      <3> QED BY <2>1, <3>3
    <2> QED BY <2>2, <2>3
  <1> QED BY <1>1, InvariantTheorem, PTL

\* When an update is done the display shows the text in memory, and the icon in
\* io and timer, as long as no update was made inside another
\* (mipslabfunc.c:100-195).
THEOREM DisplayTheorem == Spec => []DisplayShowsText
  <1>1. LabInv => DisplayShowsText
    <2> SUFFICES ASSUME LabInv, clean, Updated
                 PROVE  CellsShown /\ (lab # "interrupts" /\ AtLoop => IconsShown)
      BY DEF DisplayShowsText, CellsShown, IconsShown
    <2>1. Head(Running)[1] \in {"labwork", "tick"}
      BY DEF Updated
    <2>2. CASE lab # "interrupts"
      <3>1. PICK s : s = main
        OBVIOUS
      <3>2. Alone /\ Running = s /\ Head(s)[1] \in {"labwork", "tick"} /\ (AtLoop => Head(s)[1] = "labwork")
        BY <2>1, <2>2, <3>1 DEF LabInv, Alone, Running, AtLoop
      <3>3. Done(s, "icons", labworkOps) \/ (Done(s, "cells", SecondRest) /\ Head(s)[1] = "tick")
        BY <3>1, <3>2, AloneHeads
      <3> QED BY <3>2, <3>3, DoneShows DEF Kinds
    <2>3. CASE lab = "interrupts"
      <3>1. Interrupted
        BY <2>3 DEF LabInv
      <3>2. CASE MainStarts /\ isr = None
        BY <2>1, <3>2, StartsHead DEF Running
      <3>3. CASE Calmly
        <4>1. isr = None
          BY <2>1, <3>3, RoutineOps DEF Calmly, Shortly, ClearOps, CountOps, Running
        <4>2. PICK s : s = main
          OBVIOUS
        <4>3. Head(s)[1] \in {"labwork", "tick"} /\ MainWorks
          BY <2>1, <3>3, <4>1, <4>2 DEF Running, Calmly
        <4>4. ~Live(s, "cells", labworkOps)
          BY <4>3, LiveHead, RestTypes DEF Kinds
        <4>5. PICK k \in Kinds : Done(s, k, labworkOps)
          BY <4>2, <4>3, <4>4, MainWorksCases
        <4> QED BY <2>3, <4>5, DoneShows
      <3>4. CASE Busily
        <4>1. PICK s : s = isr
          OBVIOUS
        <4>2. Writing(s, tickOps) \/ Drawing(s, "cells", tickOps)
          BY <3>4, <4>1 DEF Busily
        <4>3. s # <<>>
          BY <4>2, BusyHeads
        <4>4. Head(s)[1] \in {"labwork", "tick"}
          BY <2>1, <4>1, <4>3 DEF Running, None
        <4>5. Done(s, "cells", tickOps)
          BY <4>2, <4>4, BusyHeads
        <4> QED BY <2>3, <4>5, DoneShows DEF Kinds
      <3> QED BY <3>1, <3>2, <3>3, <3>4 DEF Interrupted
    <2> QED BY <2>2, <2>3
  <1> QED BY <1>1, InvariantTheorem, PTL

-----------------------------------------------------------------------------
(* The waits.                                                              *)

\* What the first step of s finds, as long as no update was made inside another:
\* a wait has something to end it, and nothing is under way where the next byte is
\* written or the mode pin changes.
ReadyFor(s) ==
    clean => /\ Head(s)[1] = "mode" => sr = None /\ txb = None
             /\ Head(s)[1] \in {"tbe", "write"} => sr = None /\ txb = None /\ rbf = FALSE
             /\ Head(s)[1] = "rbf" => sr # None \/ rbf
             /\ Head(s)[1] = "read" => sr = None /\ rbf
SpiReady == ReadyFor(Running)
PanelUnharmed == clean => panel # Spoilt

LEMMA LiveReady ==
    ASSUME NEW s, NEW k \in Kinds, NEW rest \in Seq(AllOps), Live(s, k, rest)
    PROVE  ReadyFor(s) /\ (clean => PanelOk)
  <1>1. PICK r \in Rows, n \in Bytes(k), i \in -1 .. 3 : Place(s, k, rest, r, n, i) /\ (clean => State(k, r, n, i))
    BY DEF Live
  <1>2. Head(s) = Op(k, r, n, i)
    BY <1>1, PlaceStep
  <1>3. Head(s)[1] = IF i = -1 THEN "mode" ELSE IF i = 0 THEN "tbe" ELSE IF i = 1 THEN "write"
                     ELSE IF i = 2 THEN "rbf" ELSE "read"
    BY <1>2, OpKinds
  <1>4. Sent(k, r, n) # None
    BY SentKind
  <1> SUFFICES ASSUME clean PROVE ReadyFor(s) /\ PanelOk
    BY DEF ReadyFor
  <1>5. State(k, r, n, i)
    BY <1>1
  <1>6. CASE i \in {-1, 0, 1}
    <2>1. sr = None /\ txb = None /\ rbf = FALSE /\ PanelOk
      BY <1>5, <1>6 DEF State, Arrived
    <2>2. Head(s)[1] \in {"mode", "tbe", "write"}
      BY <1>3, <1>6
    <2> QED BY <2>1, <2>2 DEF ReadyFor
  <1>7. CASE i = 2
    <2>1. Head(s)[1] = "rbf"
      BY <1>3, <1>7
    <2>2. PanelOk /\ (sr # None \/ rbf)
      BY <1>4, <1>5, <1>7 DEF State, Arrived
    <2> QED BY <2>1, <2>2 DEF ReadyFor
  <1>8. CASE i = 3
    <2>1. Head(s)[1] = "read"
      BY <1>3, <1>8
    <2>2. PanelOk /\ sr = None /\ rbf
      BY <1>5, <1>8 DEF State, Arrived
    <2> QED BY <2>1, <2>2 DEF ReadyFor
  <1> QED BY <1>6, <1>7, <1>8

\* The steps that leave the SPI alone.
LEMMA OtherReady ==
    ASSUME NEW s, Head(s)[1] \in {"labinit", "labwork", "tick", "char", "clear", "count"}
    PROVE  ReadyFor(s)
  BY DEF ReadyFor

LEMMA DoneReady ==
    ASSUME NEW s, NEW k, NEW rest, Done(s, k, rest), Head(rest)[1] \in {"labinit", "labwork", "tick"}
    PROVE  ReadyFor(s) /\ (clean => PanelOk)
  BY OtherReady, DoneIdle DEF Done

LEMMA WritingReady ==
    ASSUME NEW s, NEW rest \in Seq(AllOps), Writing(s, rest)
    PROVE  ReadyFor(s) /\ (clean => PanelOk)
  <1>1. clean => PanelOk
    BY DEF Writing
  <1>2. CASE Live(s, "cells", rest)
    BY <1>2, LiveReady DEF Kinds
  <1>3. CASE Head(s)[1] = "char"
    BY <1>1, <1>3, OtherReady
  <1> QED BY <1>2, <1>3, WritingHead

LEMMA StartsReady ==
    ASSUME MainStarts, NEW s, s = main
    PROVE  ReadyFor(s) /\ (clean => PanelOk)
  <1>1. "cells" \in Kinds /\ "icons" \in Kinds
    BY DEF Kinds
  <1>2. CASE Live(s, "cells", StartRest) \/ Live(s, "icons", labinitOps)
    BY <1>1, <1>2, LiveReady, RestTypes
  <1>3. CASE Done(s, "icons", labinitOps)
    BY <1>3, DoneReady, RestHeads
  <1> QED BY <1>2, <1>3, StartsCases

LEMMA AloneReady ==
    ASSUME Alone, NEW s, s = main
    PROVE  ReadyFor(s) /\ (clean => PanelOk)
  <1>1. "cells" \in Kinds /\ "icons" \in Kinds
    BY DEF Kinds
  <1>2. CASE MainStarts
    BY <1>2, StartsReady
  <1>3. CASE Live(s, "cells", SecondRest) \/ Live(s, "icons", labworkOps)
    BY <1>1, <1>3, LiveReady, RestTypes
  <1>4. CASE Writing(s, SecondRest)
    BY <1>4, WritingReady, RestTypes
  <1>5. CASE Done(s, "cells", SecondRest) \/ Done(s, "icons", labworkOps)
    BY <1>5, DoneReady, RestHeads
  <1> QED BY <1>2, <1>3, <1>4, <1>5, AloneCases

LEMMA MainReady ==
    ASSUME MainWorks, NEW s, s = main
    PROVE  ReadyFor(s) /\ (clean => PanelOk)
  <1>1. CASE Live(s, "cells", labworkOps)
    BY <1>1, LiveReady, RestTypes DEF Kinds
  <1>2. CASE Writing(s, labworkOps)
    BY <1>2, WritingReady, RestTypes
  <1>3. CASE \E k \in Kinds : Done(s, k, labworkOps)
    BY <1>3, DoneReady, RestHeads
  <1> QED BY <1>1, <1>2, <1>3, MainWorksCases

LEMMA BusyReady ==
    ASSUME NEW s, Writing(s, tickOps) \/ Drawing(s, "cells", tickOps)
    PROVE  s # <<>> /\ ReadyFor(s) /\ (clean => PanelOk)
  <1>1. s # <<>>
    BY BusyHeads
  <1>2. CASE Writing(s, tickOps)
    BY <1>1, <1>2, WritingReady, RestTypes
  <1>3. CASE Live(s, "cells", tickOps)
    BY <1>1, <1>3, LiveReady, RestTypes DEF Kinds
  <1>4. CASE Done(s, "cells", tickOps)
    BY <1>1, <1>4, DoneReady, RestHeads
  <1> QED BY <1>2, <1>3, <1>4 DEF Drawing

\* No program waits for the SPI for a byte that is not under way, writes one where
\* another has not left, reads one that has not come or changes the mode pin with
\* one under way, so none does the display harm, as long as no update is made inside
\* another (mipslabfunc.c:100-107, 178-195; interrupts/mipslabwork.c:25-35).
THEOREM WaitsTheorem == Spec => [](SpiReady /\ PanelUnharmed)
  <1>1. LabInv => SpiReady /\ PanelUnharmed
    <2> SUFFICES ASSUME LabInv PROVE ReadyFor(Running) /\ (clean => PanelOk)
      <3>1. PanelOk => panel # Spoilt
        <4>1. Spoilt.page = Lines /\ Lines \notin Rows
          BY Sizes DEF Spoilt, Rows
        <4> QED BY <4>1 DEF PanelOk
      <3> QED BY <3>1 DEF SpiReady, PanelUnharmed
    <2>1. PICK s : s = main
      OBVIOUS
    <2>2. PICK t : t = isr
      OBVIOUS
    <2>3. Running = IF t # <<>> THEN t ELSE s
      BY <2>1, <2>2 DEF Running, None
    <2>4. CASE lab # "interrupts"
      <3>1. Alone /\ t = <<>>
        BY <2>2, <2>4 DEF LabInv, Alone, None
      <3> QED BY <2>1, <2>3, <3>1, AloneReady
    <2>5. CASE lab = "interrupts" /\ MainStarts /\ isr = None
      <3>1. t = <<>>
        BY <2>2, <2>5 DEF None
      <3> QED BY <2>1, <2>3, <2>5, <3>1, StartsReady
    <2>6. CASE lab = "interrupts" /\ Calmly
      <3>1. ReadyFor(s) /\ (clean => PanelOk)
        BY <2>1, <2>6, MainReady DEF Calmly
      <3>2. t = <<>> \/ t = ClearOps \/ t = CountOps
        BY <2>2, <2>6 DEF Calmly, Shortly, ClearOps, CountOps, None
      <3>3. t # <<>> => ReadyFor(t)
        <4>1. t # <<>> => Head(t)[1] \in {"clear", "count"}
          BY <3>2, RoutineOps
        <4> QED BY <4>1, OtherReady
      <3> QED BY <2>3, <3>1, <3>3
    <2>7. CASE lab = "interrupts" /\ Busily
      <3>1. Writing(t, tickOps) \/ Drawing(t, "cells", tickOps)
        BY <2>2, <2>7 DEF Busily
      <3> QED BY <2>3, <3>1, BusyReady
    <2> QED BY <2>4, <2>5, <2>6, <2>7 DEF LabInv, Interrupted
  <1> QED BY <1>1, InvariantTheorem, PTL

-----------------------------------------------------------------------------
(* The calculations, against their definitions.                            *)

(* nextprime passes over no prime and stops at none that is not one.       *)

\* A prime is odd, and none of the factors tried divides it;
LEMMA PrimePasses ==
    ASSUME NEW p \in Nat, p > 3, IsPrime(p)
    PROVE  p % 2 = 1 /\ \A f \in Factors(p) : p % f # 0
  <1>1. \A f \in 2 .. p - 1 : p % f # 0
    BY DEF IsPrime
  <1>2. p % 2 = 1
    <2>1. p % 2 # 0
      BY <1>1
    <2> QED BY <2>1
  <1>3. ASSUME NEW f \in Factors(p) PROVE f \in 2 .. p - 1
    <2>1. (p \div 2) + 1 <= p - 1
      OBVIOUS
    <2> QED BY <2>1 DEF Factors
  <1> QED BY <1>1, <1>2, <1>3

\* an odd number that is no prime is divided by one of them.
LEMMA CompositeFails ==
    ASSUME NEW q \in Nat, q > 3, ~IsPrime(q), q % 2 # 0
    PROVE  \E f \in Factors(q) : q % f = 0
  <1>1. PICK d \in 2 .. q - 1 : q % d = 0
    BY DEF IsPrime
  <1>2. d \in Nat \ {0} /\ d \in Int /\ d >= 2 /\ d <= q - 1
    BY <1>1
  <1> DEFINE e == q \div d
  <1>3. q = d * e + (q % d) /\ e \in Nat
    BY <1>2, DivMod
  <1> HIDE DEF e
  <1>4. q = d * e
    BY <1>1, <1>2, <1>3
  <1>5. e # 0 /\ e # 1
    BY <1>2, <1>4
  <1>6. d # 2 /\ e # 2
    <2>1. ASSUME NEW x \in Nat, q = 2 * x PROVE FALSE
      <3>1. q = 2 * x + 0 /\ 0 \in 0 .. 2 - 1 /\ 2 \in Nat \ {0} /\ x \in Int
        BY <2>1
      <3>2. q % 2 = 0
        BY <3>1, ModUnique
      <3> QED BY <3>2
    <2>2. d = 2 => q = 2 * e
      BY <1>4
    <2>3. e = 2 => q = 2 * d
      BY <1>2, <1>4
    <2> QED BY <1>2, <1>3, <2>1, <2>2, <2>3
  <1>7. e - 3 \in Nat
    BY <1>3, <1>5, <1>6
  <1>8. d * (e - 3) \in Nat /\ d * e = d * (e - 3) + 3 * d
    BY <1>2, <1>3, <1>7
  <1>9. 2 * d <= q
    BY <1>2, <1>4, <1>8
  <1>10. d <= q \div 2
    BY <1>2, <1>9
  <1>11. d \in 3 .. (q \div 2) + 1
    <2>1. d >= 3 /\ q \div 2 \in Int
      BY <1>2, <1>6
    <2> QED BY <1>2, <1>10, <2>1
  <1> QED BY <1>1, <1>11 DEF Factors

-----------------------------------------------------------------------------
(* The primes.                                                             *)

\* a is so many times d.
Divides(d, a) == \E q \in Nat : a = d * q

LEMMA DividesMod ==
    ASSUME NEW d \in Nat \ {0}, NEW a \in Nat
    PROVE  Divides(d, a) <=> a % d = 0
  <1>1. ASSUME NEW q \in Nat, a = d * q PROVE a % d = 0
    <2>1. a = d * q + 0 /\ 0 \in 0 .. d - 1 /\ q \in Int
      BY <1>1
    <2> QED BY <2>1, ModUnique
  <1>2. ASSUME a % d = 0 PROVE \E q \in Nat : a = d * q
    <2>1. a = d * (a \div d) + (a % d) /\ a \div d \in Nat
      BY DivMod
    <2>2. a = d * (a \div d)
      BY <1>2, <2>1
    <2> QED BY <2>1, <2>2
  <1> QED BY <1>1, <1>2 DEF Divides

\* What divides a divisor divides the number.
LEMMA DividesOn ==
    ASSUME NEW d \in Nat, NEW a \in Nat, NEW b \in Nat, Divides(d, a)
    PROVE  Divides(d, a * b)
  <1>1. PICK q \in Nat : a = d * q
    BY DEF Divides
  <1>2. q * b \in Nat /\ a * b = d * (q * b)
    BY <1>1
  <1> QED BY <1>2 DEF Divides

\* There is a number that all up to n divide.
LEMMA CommonMultiple ==
    ASSUME NEW n \in Nat
    PROVE  \E a \in Nat \ {0} : \A d \in 1 .. n : Divides(d, a)
  <1> DEFINE Common(k) == \E a \in Nat \ {0} : \A d \in 1 .. k : Divides(d, a)
             S == {k \in Nat : Common(k)}
  <1>1. 0 \in S
    <2>1. 1 \in Nat \ {0} /\ \A d \in 1 .. 0 : Divides(d, 1)
      OBVIOUS
    <2>2. Common(0)
      BY <2>1
    <2> QED BY <2>2
  <1>2. ASSUME NEW k \in S PROVE k + 1 \in S
    <2>1. PICK a \in Nat \ {0} : \A d \in 1 .. k : Divides(d, a)
      OBVIOUS
    <2>2. a * (k + 1) \in Nat \ {0}
      <3>1. k \in Nat /\ a \in Nat /\ a >= 1
        OBVIOUS
      <3>2. a * (k + 1) = a * k + a /\ a * k \in Nat
        BY <3>1
      <3> QED BY <3>1, <3>2
    <2>3. ASSUME NEW d \in 1 .. k + 1 PROVE Divides(d, a * (k + 1))
      <3>1. CASE d \in 1 .. k
        <4>1. d \in Nat /\ k + 1 \in Nat /\ a \in Nat /\ Divides(d, a)
          BY <2>1, <3>1
        <4> QED BY <4>1, DividesOn
      <3>2. CASE d = k + 1
        <4>1. a * (k + 1) = (k + 1) * a /\ a \in Nat
          OBVIOUS
        <4> QED BY <3>2, <4>1 DEF Divides
      <3> QED BY <3>1, <3>2
    <2>4. Common(k + 1)
      BY <2>2, <2>3
    <2> QED BY <2>4
  <1>3. S \subseteq Nat
    OBVIOUS
  <1>4. S = Nat
    <2> HIDE DEF S
    <2> QED BY <1>1, <1>2, <1>3, Induction
  <1>5. n \in S
    BY <1>4
  <1> QED BY <1>5

\* There is always a larger prime: a divisor of the common multiple and one.
LEMMA LargerPrime ==
    ASSUME NEW n \in Nat
    PROVE  \E p \in Nat : p > n /\ IsPrime(p)
  <1>1. PICK a \in Nat \ {0} : \A d \in 1 .. n : Divides(d, a)
    BY CommonMultiple
  <1> DEFINE T == {d \in Nat : d > 1 /\ Divides(d, a + 1)}
  <1>2. a + 1 \in T
    <2>1. a + 1 = (a + 1) * 1 /\ 1 \in Nat /\ a + 1 \in Nat /\ a + 1 > 1
      OBVIOUS
    <2>2. Divides(a + 1, a + 1)
      BY <2>1 DEF Divides
    <2> QED BY <2>1, <2>2
  <1>3. PICK p \in T : \A k \in T : p <= k
    <2>1. T \subseteq Nat /\ T # {}
      BY <1>2
    <2> HIDE DEF T
    <2> QED BY <2>1, Least
  <1>4. p \in Nat /\ p > 1 /\ Divides(p, a + 1)
    OBVIOUS
  <1>5. ASSUME NEW f \in 2 .. p - 1, p % f = 0 PROVE FALSE
    <2>1. f \in Nat \ {0} /\ f \in Nat /\ f > 1 /\ ~(p <= f)
      BY <1>4
    <2>2. Divides(f, p)
      BY <1>4, <1>5, <2>1, DividesMod
    <2>3. PICK q \in Nat : a + 1 = p * q
      BY <1>4 DEF Divides
    <2>4. Divides(f, a + 1)
      BY <1>4, <2>1, <2>2, <2>3, DividesOn
    <2> QED BY <1>3, <2>1, <2>4
  <1>6. IsPrime(p)
    BY <1>4, <1>5 DEF IsPrime
  <1>7. ASSUME p <= n PROVE FALSE
    <2>1. Divides(p, a)
      BY <1>1, <1>4, <1>7
    <2>2. p \in Nat \ {0} /\ a \in Nat /\ a + 1 \in Nat
      BY <1>4
    <2>3. PICK q \in Nat : a = p * q
      BY <2>1 DEF Divides
    <2>4. a + 1 = p * q + 1 /\ 1 \in 0 .. p - 1 /\ q \in Int
      BY <1>4, <2>3
    <2>5. (a + 1) % p = 1
      BY <2>2, <2>4, ModUnique
    <2>6. (a + 1) % p = 0
      BY <1>4, <2>2, DividesMod
    <2> QED BY <2>5, <2>6
  <1> QED BY <1>4, <1>6, <1>7

LEMMA FirstPrimeOver ==
    ASSUME NEW n \in Nat
    PROVE  \E p \in Nat : FirstOver(n, p)
  <1> DEFINE T == {p \in Nat : p > n /\ IsPrime(p)}
  <1>1. T \subseteq Nat /\ T # {}
    BY LargerPrime
  <1>2. PICK p \in T : \A k \in T : p <= k
    <2> HIDE DEF T
    <2> QED BY <1>1, Least
  <1>3. p \in Nat /\ p > n /\ IsPrime(p)
    OBVIOUS
  <1>4. ASSUME NEW q \in n + 1 .. p - 1, IsPrime(q) PROVE FALSE
    <2>1. q \in Nat /\ q > n /\ ~(p <= q)
      BY <1>3
    <2> QED BY <1>2, <1>4, <2>1
  <1> QED BY <1>3, <1>4 DEF FirstOver

-----------------------------------------------------------------------------
(* The search.                                                             *)
Passes(p) == \A f \in Factors(p) : p % f # 0

Searches(g) == g = [p \in Nat |-> IF \A f \in Factors(p) : p % f # 0 THEN p ELSE g[p + 2]]

\* The search goes from p to r.
Reaches(p, r) == r \in Nat /\ Passes(r) /\ \E k \in Nat : r = p + 2 * k

LEMMA LeastReached ==
    ASSUME NEW p \in Nat, NEW r, Reaches(p, r)
    PROVE  \E m : Reaches(p, m) /\ \A x : Reaches(p, x) => m <= x
  <1> DEFINE T == {x \in Nat : Reaches(p, x)}
  <1>1. T \subseteq Nat /\ T # {}
    BY DEF Reaches
  <1>2. PICK m \in T : \A k \in T : m <= k
    <2> HIDE DEF T
    <2> QED BY <1>1, Least
  <1>3. \A x : Reaches(p, x) => x \in T
    BY DEF Reaches
  <1> QED BY <1>2, <1>3

\* There is a function as search is defined.
LEMMA SearchExists == \E g : Searches(g)
  <1> DEFINE Found(p, m) == Reaches(p, m) /\ \A x : Reaches(p, x) => m <= x
             G(p) == IF \E m : Found(p, m) THEN CHOOSE m : Found(p, m) ELSE 0
             g == [p \in Nat |-> G(p)]
  <1>1. ASSUME NEW p \in Nat, NEW m, NEW x, Found(p, m), Found(p, x) PROVE m = x
    <2>1. m <= x /\ x <= m /\ m \in Nat /\ x \in Nat
      BY <1>1 DEF Reaches
    <2> QED BY <2>1
  <1>2. ASSUME NEW p \in Nat, NEW m, Found(p, m) PROVE G(p) = m
    <2>1. \E x : Found(p, x)
      BY <1>2
    <2> HIDE DEF Found
    <2>2. Found(p, CHOOSE x : Found(p, x))
      BY <2>1
    <2>3. G(p) = CHOOSE x : Found(p, x)
      BY <2>1
    <2> QED BY <1>1, <1>2, <2>2, <2>3
  <1>3. ASSUME NEW p \in Nat, Passes(p) PROVE G(p) = p
    <2>1. p = p + 2 * 0 /\ 0 \in Nat
      OBVIOUS
    <2>2. Reaches(p, p)
      BY <1>3, <2>1 DEF Reaches
    <2>3. ASSUME NEW x, Reaches(p, x) PROVE p <= x
      BY <2>3 DEF Reaches
    <2>4. Found(p, p)
      BY <2>2, <2>3
    <2> HIDE DEF Found, G
    <2> QED BY <1>2, <2>4
  <1>4. ASSUME NEW p \in Nat, ~Passes(p) PROVE G(p) = G(p + 2)
    <2>1. ASSUME NEW x PROVE Reaches(p, x) <=> Reaches(p + 2, x)
      <3>1. ASSUME NEW k \in Nat, x = p + 2 * k, Passes(x) PROVE \E j \in Nat : x = (p + 2) + 2 * j
        <4>1. k # 0
          BY <1>4, <3>1
        <4>2. k - 1 \in Nat /\ x = (p + 2) + 2 * (k - 1)
          BY <3>1, <4>1
        <4> QED BY <4>2
      <3>2. ASSUME NEW k \in Nat, x = (p + 2) + 2 * k PROVE \E j \in Nat : x = p + 2 * j
        <4>1. k + 1 \in Nat /\ x = p + 2 * (k + 1)
          BY <3>2
        <4> QED BY <4>1
      <3> QED BY <3>1, <3>2 DEF Reaches
    <2>2. \A m : Found(p, m) <=> Found(p + 2, m)
      BY <2>1
    <2> HIDE DEF Found
    <2>3. CASE \E m : Found(p, m)
      <3>1. PICK m : Found(p, m)
        BY <2>3
      <3>2. Found(p + 2, m) /\ p + 2 \in Nat
        BY <2>2, <3>1
      <3> HIDE DEF G
      <3> QED BY <1>2, <3>1, <3>2
    <2>4. CASE ~ \E m : Found(p, m)
      BY <2>2, <2>4
    <2> QED BY <2>3, <2>4
  <1>5. ASSUME NEW p \in Nat
        PROVE  g[p] = IF \A f \in Factors(p) : p % f # 0 THEN p ELSE g[p + 2]
    <2>1. g[p] = G(p) /\ g[p + 2] = G(p + 2)
      <3> HIDE DEF G
      <3> QED OBVIOUS
    <2> HIDE DEF G, g
    <2> QED BY <1>3, <1>4, <2>1 DEF Passes
  <1>6. Searches(g)
    <2> HIDE DEF G
    <2> QED BY <1>5 DEF Searches
  <1> QED BY <1>6

LEMMA SearchStep ==
    ASSUME NEW p \in Nat
    PROVE  search[p] = IF Passes(p) THEN p ELSE search[p + 2]
  <1>1. Searches(search)
    <2>1. search = CHOOSE g : Searches(g)
      BY Zenon DEF search, Searches
    <2> QED BY <2>1, SearchExists
  <1> DEFINE G == [q \in Nat |-> IF \A f \in Factors(q) : q % f # 0 THEN q ELSE search[q + 2]]
  <1>2. search = G
    BY <1>1 DEF Searches
  <1>3. G[p] = IF Passes(p) THEN p ELSE search[p + 2]
    BY DEF Passes
  <1> HIDE DEF G
  <1> QED BY <1>2, <1>3, Zenon

\* It stops at the first that passes.
LEMMA SearchFinds ==
    ASSUME NEW k \in Nat
    PROVE  \A p \in Nat : Passes(p + 2 * k) /\ (\A j \in 0 .. k - 1 : ~Passes(p + 2 * j)) => search[p] = p + 2 * k
  <1> DEFINE Finds(n) == \A p \in Nat : Passes(p + 2 * n) /\ (\A j \in 0 .. n - 1 : ~Passes(p + 2 * j))
                                            => search[p] = p + 2 * n
             S == {n \in Nat : Finds(n)}
  <1>1. 0 \in S
    <2>1. Finds(0)
      <3>1. \A p \in Nat : p + 2 * 0 = p
        OBVIOUS
      <3> QED BY <3>1, SearchStep
    <2> QED BY <2>1
  <1>2. ASSUME NEW n \in S PROVE n + 1 \in S
    <2>1. ASSUME NEW p \in Nat, Passes(p + 2 * (n + 1)), \A j \in 0 .. (n + 1) - 1 : ~Passes(p + 2 * j)
          PROVE  search[p] = p + 2 * (n + 1)
      <3>1. n \in Nat /\ p + 2 \in Nat /\ (p + 2) + 2 * n = p + 2 * (n + 1) /\ p + 2 * 0 = p
        OBVIOUS
      <3>2. ~Passes(p)
        <4>1. 0 \in 0 .. (n + 1) - 1
          BY <3>1
        <4>2. ~Passes(p + 2 * 0)
          BY <2>1, <4>1
        <4> QED BY <3>1, <4>2
      <3>3. search[p] = search[p + 2]
        BY <3>2, SearchStep
      <3>4. ASSUME NEW j \in 0 .. n - 1 PROVE ~Passes((p + 2) + 2 * j)
        <4>1. j + 1 \in 0 .. (n + 1) - 1 /\ (p + 2) + 2 * j = p + 2 * (j + 1)
          BY <3>1
        <4>2. ~Passes(p + 2 * (j + 1))
          BY <2>1, <4>1
        <4> QED BY <4>1, <4>2
      <3>5. Passes((p + 2) + 2 * n)
        BY <2>1, <3>1
      <3>6. Finds(n)
        OBVIOUS
      <3>7. search[p + 2] = (p + 2) + 2 * n
        BY <3>1, <3>4, <3>5, <3>6
      <3> QED BY <3>1, <3>3, <3>7
    <2>2. Finds(n + 1)
      BY <2>1
    <2> QED BY <2>2
  <1>3. S \subseteq Nat
    OBVIOUS
  <1>4. S = Nat
    <2> HIDE DEF S
    <2> QED BY <1>1, <1>2, <1>3, Induction
  <1>5. k \in S
    BY <1>4
  <1> QED BY <1>5

\* nextprime gives the first prime after n, though only odd numbers are tried, and
\* as factors of p only those from 3 up to p / 2 + 1; and there is always one to be
\* found (mipslabfunc.c:213-250).
THEOREM PrimeTheorem ==
    ASSUME NEW n \in Nat \ {0}
    PROVE  nextprime(n) \in Nat /\ FirstOver(n, nextprime(n))
  <1>1. CASE n = 1
    <2>1. nextprime(n) = 2
      BY <1>1 DEF nextprime
    <2>2. FirstOver(1, 2)
      BY DEF FirstOver, IsPrime
    <2> QED BY <1>1, <2>1, <2>2
  <1>2. CASE n = 2
    <2>1. nextprime(n) = 3
      BY <1>2 DEF nextprime
    <2>2. \A f \in 2 .. 3 - 1 : f = 2
      OBVIOUS
    <2>3. 3 % 2 # 0
      OBVIOUS
    <2>4. FirstOver(2, 3)
      BY <2>2, <2>3 DEF FirstOver, IsPrime
    <2> QED BY <1>2, <2>1, <2>4
  <1>3. CASE n >= 3
    <2>1. PICK p \in Nat : FirstOver(n, p)
      BY FirstPrimeOver
    <2>2. p > n /\ IsPrime(p) /\ \A q \in n + 1 .. p - 1 : ~IsPrime(q)
      BY <2>1 DEF FirstOver
    <2>3. p % 2 = 1 /\ Passes(p)
      BY <1>3, <2>2, PrimePasses DEF Passes
    <2> DEFINE m == Odd(n + 1)
               k == (p - m) \div 2
    <2>4. m \in Nat /\ m % 2 = 1 /\ m >= n + 1 /\ m <= n + 2 /\ (m = n + 2 => (n + 1) % 2 = 0)
      BY <1>3 DEF Odd
    <2>5. nextprime(n) = search[m]
      BY <1>3 DEF nextprime
    <2> HIDE DEF m
    <2>6. p >= m
      BY <1>3, <2>2, <2>3, <2>4
    <2>7. k \in Nat /\ p = m + 2 * k
      BY <2>3, <2>4, <2>6
    <2> HIDE DEF k
    <2>8. ASSUME NEW j \in 0 .. k - 1 PROVE ~Passes(m + 2 * j)
      <3> DEFINE q == m + 2 * j
      <3>1. q \in n + 1 .. p - 1 /\ q \in Nat /\ q > 3 /\ q % 2 # 0
        BY <1>3, <2>4, <2>7
      <3> HIDE DEF q
      <3>2. ~IsPrime(q)
        BY <2>2, <3>1
      <3>3. \E f \in Factors(q) : q % f = 0
        BY <3>1, <3>2, CompositeFails
      <3> QED BY <3>3 DEF Passes, q
    <2>9. search[m] = m + 2 * k
      BY <2>3, <2>4, <2>7, <2>8, SearchFinds
    <2> QED BY <2>1, <2>5, <2>7, <2>9
  <1> QED BY <1>1, <1>2, <1>3

-----------------------------------------------------------------------------
(* The calendar.                                                           *)

\* A number put together from its digits has them.
Written(h, d, c, b, a) ==
    /\ a \in 0 .. 15 /\ b \in 0 .. 15 /\ c \in 0 .. 15 /\ d \in 0 .. 15
    /\ h = 4096 * d + 256 * c + 16 * b + a

LEMMA DigitsRead ==
    ASSUME NEW h, NEW d, NEW c, NEW b, NEW a, Written(h, d, c, b, a)
    PROVE  Digit(h, 0) = a /\ Digit(h, 1) = b /\ Digit(h, 2) = c /\ Digit(h, 3) = d
  <1>0. /\ a \in 0 .. 15 /\ b \in 0 .. 15 /\ c \in 0 .. 15 /\ d \in 0 .. 15
        /\ h = 4096 * d + 256 * c + 16 * b + a
    BY DEF Written
  <1>1. h \in Nat
    BY <1>0
  <1>2. Weight[1] = 1 /\ Weight[2] = 16 /\ Weight[3] = 256 /\ Weight[4] = 4096
    BY DEF Weight
  <1>3. 0 + 1 = 1 /\ 1 + 1 = 2 /\ 2 + 1 = 3 /\ 3 + 1 = 4
    OBVIOUS
  <1>4. Digit(h, 0) = (h \div 1) % 16 /\ Digit(h, 1) = (h \div 16) % 16
    BY <1>2, <1>3 DEF Digit
  <1>5. Digit(h, 2) = (h \div 256) % 16 /\ Digit(h, 3) = (h \div 4096) % 16
    BY <1>2, <1>3 DEF Digit
  <1>6. h \div 1 = h /\ h % 16 = a
    BY <1>0, <1>1
  <1>7. h \div 16 = 256 * d + 16 * c + b
    BY <1>0, <1>1
  <1>8. (256 * d + 16 * c + b) % 16 = b
    BY <1>0
  <1>9. h \div 256 = 16 * d + c
    BY <1>0, <1>1
  <1>10. (16 * d + c) % 16 = c
    BY <1>0
  <1>11. h \div 4096 = d /\ d % 16 = d
    BY <1>0, <1>1
  <1> QED BY <1>4, <1>5, <1>6, <1>7, <1>8, <1>9, <1>10, <1>11

\* A number of two decimal digits is its pair of them.
LEMMA PairDigits ==
    ASSUME NEW n \in 0 .. 99
    PROVE  \E b \in 0 .. 9, a \in 0 .. 9 : n = 10 * b + a /\ Pair(n) = 16 * b + a
  <1>1. n \div 10 \in 0 .. 9 /\ n % 10 \in 0 .. 9 /\ n = 10 * (n \div 10) + (n % 10)
    OBVIOUS
  <1>2. Pair(n) = 16 * (n \div 10) + (n % 10)
    BY <1>1 DEF Pair
  <1> QED BY <1>1, <1>2

LEMMA DigitsPair ==
    ASSUME NEW b \in 0 .. 10, NEW a \in 0 .. 9
    PROVE  Pair(10 * b + a) = 16 * b + a
  <1>1. (10 * b + a) \div 10 = b /\ (10 * b + a) % 10 = a
    OBVIOUS
  <1>2. Pair(10 * b + a) = ((10 * b + a) \div 10) * 16 + ((10 * b + a) % 10)
    BY DEF Pair
  <1> QED BY <1>1, <1>2

\* The carries of tick: from the seconds,
LEMMA SecondsCarry ==
    ASSUME NEW m \in 0 .. 59, NEW x \in 0 .. 59
    PROVE  Adjust(Adjust(Pair(m) * 256 + Pair(x) + 1, 0, 10, 6), 1, 6, 160)
              = IF x < 59 THEN Pair(m) * 256 + Pair(x + 1) ELSE (Pair(m) + 1) * 256
  <1>1. PICK d \in 0 .. 9, c \in 0 .. 9 : m = 10 * d + c /\ Pair(m) = 16 * d + c
    BY PairDigits
  <1>2. PICK b \in 0 .. 9, a \in 0 .. 9 : x = 10 * b + a /\ Pair(x) = 16 * b + a
    BY PairDigits
  <1>3. b \in 0 .. 5
    BY <1>2
  <1> DEFINE h == Pair(m) * 256 + Pair(x) + 1
  <1>4. h = 4096 * d + 256 * c + 16 * b + (a + 1) /\ a + 1 \in 0 .. 15
    BY <1>1, <1>2
  <1> HIDE DEF h
  <1>8. Written(h, d, c, b, a + 1)
    BY <1>4 DEF Written
  <1>5. Digit(h, 0) = a + 1 /\ Digit(h, 1) = b
    BY <1>8, DigitsRead
  <1>6. CASE a < 9
    <2>1. Adjust(h, 0, 10, 6) = h
      BY <1>5, <1>6 DEF Adjust
    <2>2. Adjust(h, 1, 6, 160) = h
      BY <1>3, <1>5 DEF Adjust
    <2>3. x < 59 /\ x + 1 = 10 * b + (a + 1) /\ a + 1 \in 0 .. 9
      BY <1>2, <1>3, <1>6
    <2>4. Pair(x + 1) = 16 * b + (a + 1)
      BY <1>3, <2>3, DigitsPair
    <2> QED BY <1>1, <1>4, <2>1, <2>2, <2>3, <2>4 DEF h
  <1>7. CASE a = 9
    <2> DEFINE g == h + 6
    <2>1. Adjust(h, 0, 10, 6) = g
      BY <1>5, <1>7 DEF Adjust
    <2>2. g = 4096 * d + 256 * c + 16 * (b + 1) + 0 /\ b + 1 \in 0 .. 15 /\ 0 \in 0 .. 15
      BY <1>3, <1>4, <1>7
    <2> HIDE DEF g
    <2>6. Written(g, d, c, b + 1, 0)
      BY <2>2 DEF Written
    <2>3. Digit(g, 1) = b + 1
      BY <2>6, DigitsRead
    <2>4. CASE b < 5
      <3>1. Adjust(g, 1, 6, 160) = g
        BY <2>3, <2>4 DEF Adjust
      <3>2. x < 59 /\ x + 1 = 10 * (b + 1) + 0
        BY <1>2, <1>7, <2>4
      <3>3. Pair(x + 1) = 16 * (b + 1) + 0
        BY <1>3, <2>4, <3>2, DigitsPair
      <3> QED BY <1>1, <2>1, <2>2, <3>1, <3>2, <3>3 DEF h
    <2>5. CASE b = 5
      <3>1. Adjust(g, 1, 6, 160) = g + 160
        BY <2>3, <2>5 DEF Adjust
      <3>2. x = 59
        BY <1>2, <1>7, <2>5
      <3> QED BY <1>1, <2>1, <2>2, <2>5, <3>1, <3>2 DEF h
    <2> QED BY <1>3, <2>4, <2>5
  <1> QED BY <1>6, <1>7

\* from the minutes,
LEMMA MinutesCarry ==
    ASSUME NEW m \in 0 .. 59, NEW x \in 0 .. 59
    PROVE  /\ Adjust(Adjust(Pair(m) * 256 + Pair(x), 2, 10, 1536), 3, 6, 40960) = Pair(m) * 256 + Pair(x)
           /\ Adjust(Adjust((Pair(m) + 1) * 256, 2, 10, 1536), 3, 6, 40960)
                 = IF m < 59 THEN Pair(m + 1) * 256 ELSE Half
  <1>1. PICK d \in 0 .. 9, c \in 0 .. 9 : m = 10 * d + c /\ Pair(m) = 16 * d + c
    BY PairDigits
  <1>2. PICK b \in 0 .. 9, a \in 0 .. 9 : x = 10 * b + a /\ Pair(x) = 16 * b + a
    BY PairDigits
  <1>3. d \in 0 .. 5
    BY <1>1
  <1>4. Adjust(Adjust(Pair(m) * 256 + Pair(x), 2, 10, 1536), 3, 6, 40960) = Pair(m) * 256 + Pair(x)
    <2> DEFINE h == Pair(m) * 256 + Pair(x)
    <2>1. h = 4096 * d + 256 * c + 16 * b + a
      BY <1>1, <1>2
    <2> HIDE DEF h
    <2>5. Written(h, d, c, b, a)
      BY <2>1 DEF Written
    <2>2. Digit(h, 2) = c /\ Digit(h, 3) = d
      BY <2>5, DigitsRead
    <2>3. Adjust(h, 2, 10, 1536) = h
      BY <2>2 DEF Adjust
    <2>4. Adjust(h, 3, 6, 40960) = h
      BY <1>3, <2>2 DEF Adjust
    <2> QED BY <2>3, <2>4 DEF h
  <1>5. Adjust(Adjust((Pair(m) + 1) * 256, 2, 10, 1536), 3, 6, 40960) = IF m < 59 THEN Pair(m + 1) * 256 ELSE Half
    <2> DEFINE h == (Pair(m) + 1) * 256
    <2>1. h = 4096 * d + 256 * (c + 1) + 16 * 0 + 0 /\ c + 1 \in 0 .. 15 /\ 0 \in 0 .. 15
      BY <1>1
    <2> HIDE DEF h
    <2>5. Written(h, d, c + 1, 0, 0)
      BY <2>1 DEF Written
    <2>2. Digit(h, 2) = c + 1 /\ Digit(h, 3) = d
      BY <2>5, DigitsRead
    <2>3. CASE c < 9
      <3>1. Adjust(h, 2, 10, 1536) = h /\ Adjust(h, 3, 6, 40960) = h
        BY <1>3, <2>2, <2>3 DEF Adjust
      <3>2. m < 59 /\ m + 1 = 10 * d + (c + 1) /\ c + 1 \in 0 .. 9
        BY <1>1, <1>3, <2>3
      <3>3. Pair(m + 1) = 16 * d + (c + 1)
        BY <1>3, <3>2, DigitsPair
      <3> QED BY <2>1, <3>1, <3>2, <3>3 DEF h
    <2>4. CASE c = 9
      <3> DEFINE g == h + 1536
      <3>1. Adjust(h, 2, 10, 1536) = g
        BY <2>2, <2>4 DEF Adjust
      <3>2. g = 4096 * (d + 1) + 256 * 0 + 16 * 0 + 0 /\ d + 1 \in 0 .. 15
        BY <1>3, <2>1, <2>4
      <3> HIDE DEF g
      <3>6. Written(g, d + 1, 0, 0, 0)
        BY <3>2 DEF Written
      <3>3. Digit(g, 3) = d + 1
        BY <3>6, DigitsRead
      <3>4. CASE d < 5
        <4>1. Adjust(g, 3, 6, 40960) = g
          BY <3>3, <3>4 DEF Adjust
        <4>2. m < 59 /\ m + 1 = 10 * (d + 1) + 0
          BY <1>1, <2>4, <3>4
        <4>3. Pair(m + 1) = 16 * (d + 1) + 0
          BY <1>3, <3>4, <4>2, DigitsPair
        <4> QED BY <3>1, <3>2, <4>1, <4>2, <4>3 DEF h
      <3>5. CASE d = 5
        <4>1. Adjust(g, 3, 6, 40960) = g + 40960
          BY <3>3, <3>5 DEF Adjust
        <4>2. m = 59
          BY <1>1, <2>4, <3>5
        <4> QED BY <3>1, <3>2, <3>5, <4>1, <4>2 DEF h, Half
      <3> QED BY <1>3, <3>4, <3>5
    <2> QED BY <2>3, <2>4
  <1> QED BY <1>4, <1>5

\* from the hours, which carry as two digits,
Whole24(v) == IF v % 256 >= 36 THEN v + 220 ELSE v

LEMMA HoursCarry ==
    ASSUME NEW n \in 0 .. 99, NEW h \in 0 .. 23
    PROVE  /\ Whole24(Adjust(Pair(n) * 256 + Pair(h) + 0, 0, 10, 6)) = Pair(n) * 256 + Pair(h)
           /\ Whole24(Adjust(Pair(n) * 256 + Pair(h) + 1, 0, 10, 6))
                 = IF h < 23 THEN Pair(n) * 256 + Pair(h + 1) ELSE (Pair(n) + 1) * 256
  <1>1. PICK d \in 0 .. 9, c \in 0 .. 9 : n = 10 * d + c /\ Pair(n) = 16 * d + c
    BY PairDigits
  <1>2. PICK b \in 0 .. 9, a \in 0 .. 9 : h = 10 * b + a /\ Pair(h) = 16 * b + a
    BY PairDigits
  <1>3. b \in 0 .. 2 /\ (b = 2 => a <= 3)
    BY <1>2
  <1> DEFINE v == Pair(n) * 256 + Pair(h)
  <1>4. v = 4096 * d + 256 * c + 16 * b + a /\ v + 0 = v
    BY <1>1, <1>2
  <1>5. v + 1 = 4096 * d + 256 * c + 16 * b + (a + 1) /\ a + 1 \in 0 .. 15
    BY <1>1, <1>2
  <1>20. v = Pair(n) * 256 + Pair(h)
    OBVIOUS
  <1> HIDE DEF v
  <1>6. v % 256 = 16 * b + a /\ v \in Nat
    BY <1>3, <1>4
  <1>7. Whole24(Adjust(v + 0, 0, 10, 6)) = v
    <2>1. Written(v, d, c, b, a)
      BY <1>4 DEF Written
    <2>2. Digit(v, 0) = a
      BY <2>1, DigitsRead
    <2>3. Adjust(v, 0, 10, 6) = v
      BY <2>2 DEF Adjust
    <2>4. v % 256 < 36
      BY <1>3, <1>6
    <2>5. ~(v % 256 >= 36)
      BY <1>6, <2>4
    <2> QED BY <1>4, <2>3, <2>5 DEF Whole24
  <1>8. Written(v + 1, d, c, b, a + 1)
    BY <1>5 DEF Written
  <1>9. Digit(v + 1, 0) = a + 1
    BY <1>8, DigitsRead
  <1>10. CASE a < 9
    <2>1. Adjust(v + 1, 0, 10, 6) = v + 1
      BY <1>9, <1>10 DEF Adjust
    <2>2. (v + 1) % 256 = 16 * b + (a + 1)
      BY <1>3, <1>5
    <2>3. CASE h < 23
      <3>1. ~((v + 1) % 256 >= 36)
        BY <1>2, <1>3, <2>2, <2>3
      <3>2. h + 1 = 10 * b + (a + 1) /\ a + 1 \in 0 .. 9
        BY <1>2, <1>10
      <3>3. Pair(h + 1) = 16 * b + (a + 1)
        BY <1>3, <3>2, DigitsPair
      <3>4. v + 1 = Pair(n) * 256 + Pair(h + 1)
        BY <1>1, <1>5, <3>3
      <3>5. Whole24(v + 1) = v + 1
        BY <3>1 DEF Whole24
      <3> QED BY <1>7, <1>20, <2>1, <2>3, <3>4, <3>5
    <2>4. CASE h = 23
      <3>1. b = 2 /\ a = 3
        BY <1>2, <1>3, <2>4
      <3>2. (v + 1) % 256 >= 36
        BY <2>2, <3>1
      <3>3. Whole24(v + 1) = (v + 1) + 220
        BY <3>2 DEF Whole24
      <3>4. (v + 1) + 220 = (Pair(n) + 1) * 256
        BY <1>1, <1>5, <3>1
      <3> QED BY <1>7, <1>20, <2>1, <2>4, <3>3, <3>4
    <2> QED BY <2>3, <2>4
  <1>11. CASE a = 9
    <2> DEFINE g == (v + 1) + 6
    <2>1. Adjust(v + 1, 0, 10, 6) = g
      BY <1>9, <1>11 DEF Adjust
    <2>2. g = 4096 * d + 256 * c + 16 * (b + 1) /\ b + 1 \in 0 .. 2
      BY <1>3, <1>5, <1>11
    <2> HIDE DEF g
    <2>3. g % 256 = 16 * (b + 1)
      BY <2>2
    <2>4. Whole24(g) = g
      BY <2>2, <2>3 DEF Whole24
    <2>5. h < 23 /\ h + 1 = 10 * (b + 1) + 0
      BY <1>2, <1>3, <1>11
    <2>6. Pair(h + 1) = 16 * (b + 1) + 0
      BY <1>3, <2>5, DigitsPair
    <2>7. g = Pair(n) * 256 + Pair(h + 1)
      BY <1>1, <1>3, <2>2, <2>6
    <2> QED BY <1>7, <1>20, <2>1, <2>4, <2>5, <2>7
  <1> QED BY <1>10, <1>11

\* and from the days.
LEMMA DaysCarry ==
    ASSUME NEW n \in 0 .. 99, NEW h \in 0 .. 23
    PROVE  /\ Adjust(Pair(n) * 256 + Pair(h), 2, 10, 1536) = Pair(n) * 256 + Pair(h)
           /\ Digit(Pair(n) * 256 + Pair(h), 3) < 10
           /\ n < 99 => /\ Adjust((Pair(n) + 1) * 256, 2, 10, 1536) = Pair(n + 1) * 256
                        /\ Digit(Pair(n + 1) * 256, 3) < 10
           /\ n = 99 => Digit(Adjust((Pair(n) + 1) * 256, 2, 10, 1536), 3) = 10
  <1>1. PICK d \in 0 .. 9, c \in 0 .. 9 : n = 10 * d + c /\ Pair(n) = 16 * d + c
    BY PairDigits
  <1>2. PICK b \in 0 .. 9, a \in 0 .. 9 : h = 10 * b + a /\ Pair(h) = 16 * b + a
    BY PairDigits
  <1>3. Adjust(Pair(n) * 256 + Pair(h), 2, 10, 1536) = Pair(n) * 256 + Pair(h) /\ Digit(Pair(n) * 256 + Pair(h), 3) < 10
    <2> DEFINE v == Pair(n) * 256 + Pair(h)
    <2>1. Written(v, d, c, b, a)
      BY <1>1, <1>2 DEF Written
    <2> HIDE DEF v
    <2>2. Digit(v, 2) = c /\ Digit(v, 3) = d
      BY <2>1, DigitsRead
    <2>3. Adjust(v, 2, 10, 1536) = v
      BY <2>2 DEF Adjust
    <2> QED BY <2>2, <2>3 DEF v
  <1> DEFINE v == (Pair(n) + 1) * 256
  <1>4. Written(v, d, c + 1, 0, 0) /\ v = 4096 * d + 256 * (c + 1)
    BY <1>1 DEF Written
  <1>20. v = (Pair(n) + 1) * 256
    OBVIOUS
  <1> HIDE DEF v
  <1>5. Digit(v, 2) = c + 1 /\ Digit(v, 3) = d
    BY <1>4, DigitsRead
  <1>6. CASE c < 9
    <2>1. Adjust(v, 2, 10, 1536) = v
      BY <1>5, <1>6 DEF Adjust
    <2>2. n < 99 /\ n + 1 = 10 * d + (c + 1) /\ c + 1 \in 0 .. 9
      BY <1>1, <1>6
    <2>3. Pair(n + 1) = 16 * d + (c + 1)
      BY <2>2, DigitsPair
    <2>4. v = Pair(n + 1) * 256
      BY <1>4, <2>3
    <2>5. Digit(Pair(n + 1) * 256, 3) < 10
      BY <1>5, <2>4
    <2> QED BY <1>3, <1>20, <2>1, <2>2, <2>4, <2>5
  <1>7. CASE c = 9
    <2> DEFINE g == v + 1536
    <2>1. Adjust(v, 2, 10, 1536) = g
      BY <1>5, <1>7 DEF Adjust
    <2>2. Written(g, d + 1, 0, 0, 0) /\ g = 4096 * (d + 1)
      BY <1>4, <1>7 DEF Written
    <2> HIDE DEF g
    <2>3. Digit(g, 3) = d + 1
      BY <2>2, DigitsRead
    <2>4. CASE d < 9
      <3>1. n < 99 /\ n + 1 = 10 * (d + 1) + 0
        BY <1>1, <1>7, <2>4
      <3>2. Pair(n + 1) = 16 * (d + 1) + 0
        BY <2>4, <3>1, DigitsPair
      <3>3. g = Pair(n + 1) * 256
        BY <2>2, <3>2
      <3>4. Digit(Pair(n + 1) * 256, 3) < 10
        BY <2>3, <2>4, <3>3
      <3> QED BY <1>3, <1>20, <2>1, <3>1, <3>3, <3>4
    <2>5. CASE d = 9
      <3>1. n = 99
        BY <1>1, <1>7, <2>5
      <3>2. Digit(g, 3) = 10
        BY <2>3, <2>5
      <3> QED BY <1>3, <1>20, <2>1, <3>1, <3>2
    <2> QED BY <2>4, <2>5
  <1> QED BY <1>6, <1>7

\* The time of a day, an hour, a minute and a second, and the one after it.
Clock(n, h, m, x) == Time(Pair(n) * 256 + Pair(h), Pair(m) * 256 + Pair(x))

NextClock(n, h, m, x) ==
    IF x < 59 THEN Clock(n, h, m, x + 1)
    ELSE IF m < 59 THEN Clock(n, h, m + 1, 0)
    ELSE IF h < 23 THEN Clock(n, h + 1, 0, 0)
    ELSE IF n < 99 THEN Clock(n + 1, 0, 0, 0) ELSE Clock(0, 0, 0, 0)

LEMMA PairBound ==
    ASSUME NEW n \in 0 .. 99
    PROVE  Pair(n) \in 0 .. 153 /\ (n < 60 => Pair(n) <= 89) /\ Pair(0) = 0
  <1>1. PICK b \in 0 .. 9, a \in 0 .. 9 : n = 10 * b + a /\ Pair(n) = 16 * b + a
    BY PairDigits
  <1>2. 0 = 10 * 0 + 0 /\ Pair(10 * 0 + 0) = 16 * 0 + 0
    BY DigitsPair
  <1> QED BY <1>1, <1>2

\* A half of the time is kept as it is.
LEMMA HalfKept ==
    ASSUME NEW a \in 0 .. 153, NEW b \in 0 .. 153
    PROVE  /\ a * 256 + b \in Nat /\ (a * 256 + b) % Half = a * 256 + b
           /\ (a * 256 + b) \div Half = 0
  <1>1. PICK k \in Nat : k = 256
    OBVIOUS
  <1>2. Half = k * 256
    BY <1>1, SMT DEF Half
  <1>3. a < k /\ b < 256
    BY <1>1
  <1> DEFINE v == a * 256 + b
  <1>4. v \in Nat /\ v < k * 256
    BY <1>3
  <1> HIDE DEF v
  <1>5. Half \in Nat \ {0} /\ v \in 0 .. Half - 1
    <2>1. k * 256 \in Nat
      OBVIOUS
    <2>2. Half \in Nat /\ v \in Nat /\ v < Half
      BY <1>2, <1>4, <2>1, Zenon
    <2> QED BY <2>2
  <1>6. v % Half = v /\ v \div Half = 0
    BY <1>5, ModSmall
  <1> QED BY <1>4, <1>6 DEF v

LEMMA TickClock ==
    ASSUME NEW n \in 0 .. 99, NEW h \in 0 .. 23, NEW m \in 0 .. 59, NEW x \in 0 .. 59
    PROVE  tick(Clock(n, h, m, x)) = NextClock(n, h, m, x)
  <1> DEFINE t == Clock(n, h, m, x)
             seconds == Adjust(Adjust(t.low + 1, 0, 10, 6), 1, 6, 160)
             minutes == Adjust(Adjust(seconds, 2, 10, 1536), 3, 6, 40960)
             hours == Adjust(t.high + (minutes \div Half), 0, 10, 6)
             days == Whole24(hours)
             tens == Adjust(days, 2, 10, 1536)
  <1>1. tick(t) = IF Digit(tens, 3) >= 10 THEN Time(0, 0) ELSE Time(tens % Half, minutes % Half)
    BY DEF tick, Whole24
  <1>2. t.low = Pair(m) * 256 + Pair(x) /\ t.high = Pair(n) * 256 + Pair(h)
    BY DEF Clock, Time
  <1>3. seconds = IF x < 59 THEN Pair(m) * 256 + Pair(x + 1) ELSE (Pair(m) + 1) * 256
    BY <1>2, SecondsCarry
  <1>4. minutes = Adjust(Adjust(seconds, 2, 10, 1536), 3, 6, 40960)
    OBVIOUS
  <1>5. hours = Adjust((Pair(n) * 256 + Pair(h)) + (minutes \div Half), 0, 10, 6)
    BY <1>2
  <1>6. days = Whole24(hours) /\ tens = Adjust(days, 2, 10, 1536)
    OBVIOUS
  <1> HIDE DEF t, seconds, minutes, hours, days, tens
  <1>7. Pair(0) = 0 /\ \A y \in 0 .. 99 : Pair(y) \in 0 .. 153 /\ (y < 60 => Pair(y) <= 89)
    <2>1. 0 \in 0 .. 99
      OBVIOUS
    <2> QED BY <2>1, PairBound, Zenon
  <1>16. Pair(n) \in 0 .. 153 /\ Pair(h) \in 0 .. 153 /\ Pair(m) \in 0 .. 153 /\ Pair(x) \in 0 .. 153
    <2>1. n \in 0 .. 99 /\ h \in 0 .. 99 /\ m \in 0 .. 99 /\ x \in 0 .. 99
      OBVIOUS
    <2> QED BY <1>7, <2>1, Zenon
  <1>8. \A y, z \in 0 .. 99 : /\ Pair(y) * 256 + Pair(z) \in Nat
                              /\ (Pair(y) * 256 + Pair(z)) % Half = Pair(y) * 256 + Pair(z)
                              /\ (Pair(y) * 256 + Pair(z)) \div Half = 0
    <2> TAKE y, z \in 0 .. 99
    <2>1. Pair(y) \in 0 .. 153 /\ Pair(z) \in 0 .. 153
      BY <1>7
    <2> QED BY <2>1, HalfKept
  \* Within the hour.
  <1>9. ASSUME NEW y \in 0 .. 59, NEW z \in 0 .. 59, minutes = Pair(y) * 256 + Pair(z)
        PROVE  tick(t) = Clock(n, h, y, z)
    <2>1. minutes \div Half = 0 /\ minutes % Half = minutes
      <3>1. y \in 0 .. 99 /\ z \in 0 .. 99
        OBVIOUS
      <3> QED BY <1>8, <1>9, <3>1, Zenon
    <2>2. days = Pair(n) * 256 + Pair(h)
      BY <1>5, <1>6, <2>1, HoursCarry
    <2>3. tens = Pair(n) * 256 + Pair(h) /\ Digit(tens, 3) < 10
      BY <1>6, <2>2, DaysCarry
    <2>4. ~(Digit(tens, 3) >= 10)
      <3>1. \A v \in Int : (v % 16) \in Int
        OBVIOUS
      <3>2. tens \in Nat
        <4>1. n \in 0 .. 99 /\ h \in 0 .. 99
          OBVIOUS
        <4> QED BY <1>8, <2>3, <4>1, Zenon
      <3>3. Digit(tens, 3) \in Int
        BY <3>2 DEF Digit, Weight
      <3> QED BY <2>3, <3>3
    <2>5. tens % Half = tens
      <3>1. n \in 0 .. 99 /\ h \in 0 .. 99
        OBVIOUS
      <3> QED BY <1>8, <2>3, <3>1, Zenon
    <2> QED BY <1>1, <1>9, <2>1, <2>3, <2>4, <2>5 DEF Clock
  <1>10. CASE x < 59
    <2>1. minutes = Pair(m) * 256 + Pair(x + 1)
      <3>1. x + 1 \in 0 .. 59
        BY <1>10
      <3> QED BY <1>3, <1>4, <1>10, <3>1, MinutesCarry
    <2>2. tick(t) = Clock(n, h, m, x + 1)
      <3>1. x + 1 \in 0 .. 59
        BY <1>10
      <3> QED BY <1>9, <2>1, <3>1
    <2> QED BY <1>10, <2>2 DEF NextClock, t
  <1>11. CASE x = 59 /\ m < 59
    <2>1. minutes = Pair(m + 1) * 256
      BY <1>3, <1>4, <1>11, MinutesCarry
    <2>2. m + 1 \in 0 .. 59 /\ 0 \in 0 .. 59
      BY <1>11
    <2>3. minutes = Pair(m + 1) * 256 + Pair(0)
      BY <1>7, <2>1, <2>2
    <2>4. tick(t) = Clock(n, h, m + 1, 0)
      BY <1>9, <2>2, <2>3
    <2> QED BY <1>11, <2>4 DEF NextClock, t
  <1>12. CASE x = 59 /\ m = 59
    <2>1. minutes = Half
      BY <1>3, <1>4, <1>12, MinutesCarry
    <2>2. minutes \div Half = 1 /\ minutes % Half = 0
      BY <2>1 DEF Half
    <2>3. days = IF h < 23 THEN Pair(n) * 256 + Pair(h + 1) ELSE (Pair(n) + 1) * 256
      BY <1>5, <1>6, <2>2, HoursCarry
    <2>4. \A v \in Nat : Digit(v, 3) \in Int
      BY DEF Digit, Weight
    <2>5. Clock(0, 0, 0, 0) = Time(0, 0)
      BY <1>7 DEF Clock
    <2>6. CASE h < 23
      <3>1. h + 1 \in 0 .. 23 /\ h + 1 \in 0 .. 99 /\ n \in 0 .. 99
        BY <2>6
      <3>2. tens = Pair(n) * 256 + Pair(h + 1) /\ Digit(tens, 3) < 10
        BY <1>6, <2>3, <2>6, <3>1, DaysCarry
      <3>3. tens \in Nat
        BY <1>8, <3>1, <3>2, Zenon
      <3>4. ~(Digit(tens, 3) >= 10)
        BY <2>4, <3>2, <3>3
      <3>5. tens % Half = tens
        BY <1>8, <3>1, <3>2, Zenon
      <3>6. tick(t) = Clock(n, h + 1, 0, 0)
        BY <1>1, <1>7, <2>2, <3>2, <3>4, <3>5 DEF Clock
      <3> QED BY <1>12, <2>6, <3>6 DEF NextClock, t
    <2>7. CASE h = 23 /\ n < 99
      <3>1. n + 1 \in 0 .. 99 /\ 0 \in 0 .. 99
        BY <2>7
      <3>2. tens = Pair(n + 1) * 256 /\ Digit(tens, 3) < 10
        BY <1>6, <2>3, <2>7, DaysCarry
      <3>3. tens = Pair(n + 1) * 256 + Pair(0) /\ tens \in Nat
        <4>1. Pair(n + 1) \in Nat
          <5>1. Pair(n + 1) \in 0 .. 153
            BY <1>7, <3>1, Zenon
          <5> QED BY <5>1
        <4>2. Pair(n + 1) * 256 = Pair(n + 1) * 256 + Pair(0)
          BY <1>7, <4>1
        <4>3. Pair(n + 1) * 256 + Pair(0) \in Nat
          BY <1>8, <3>1, Zenon
        <4> QED BY <3>2, <4>2, <4>3, Zenon
      <3>4. ~(Digit(tens, 3) >= 10)
        BY <2>4, <3>2, <3>3
      <3>5. tens % Half = tens
        BY <1>8, <3>1, <3>3, Zenon
      <3>6. tick(t) = Clock(n + 1, 0, 0, 0)
        BY <1>1, <1>7, <2>2, <3>3, <3>4, <3>5 DEF Clock
      <3> QED BY <1>12, <2>7, <3>6 DEF NextClock, t
    <2>8. CASE h = 23 /\ n = 99
      <3>1. Digit(tens, 3) = 10
        BY <1>6, <2>3, <2>8, DaysCarry
      <3>2. tick(t) = Time(0, 0)
        BY <1>1, <3>1
      <3> QED BY <1>12, <2>5, <2>8, <3>2 DEF NextClock, t
    <2> QED BY <2>6, <2>7, <2>8
  <1> QED BY <1>10, <1>11, <1>12

\* s is y times k and x over: y minutes and x seconds, and so on.
Pieced(s, k, y, x) == s \in Nat /\ y \in Nat /\ x \in 0 .. k - 1 /\ s = k * y + x

LEMMA PiecedParts ==
    ASSUME NEW k \in Nat \ {0}, NEW s, NEW y, NEW x, Pieced(s, k, y, x)
    PROVE  s % k = x /\ s \div k = y
  BY ModUnique DEF Pieced

LEMMA PiecedByDivision ==
    ASSUME NEW k \in Nat \ {0}, NEW s \in Nat
    PROVE  Pieced(s, k, s \div k, s % k)
  BY DivMod DEF Pieced

LEMMA PiecedNext ==
    ASSUME NEW k \in Nat \ {0}, NEW s, NEW y, NEW x, Pieced(s, k, y, x)
    PROVE  /\ x < k - 1 => Pieced(s + 1, k, y, x + 1)
           /\ x = k - 1 => Pieced(s + 1, k, y + 1, 0)
  BY DEF Pieced

\* With a whole number of pieces to come to.
LEMMA PiecedWhole ==
    ASSUME NEW k \in Nat \ {0}, NEW s, NEW y, NEW x, Pieced(s, k, y, x),
           NEW S, NEW Y, Pieced(S, k, Y, 0)
    PROVE  /\ s < S => y < Y
           /\ s + 1 = S <=> x = k - 1 /\ y + 1 = Y
  <1>1. /\ s \in Nat /\ y \in Nat /\ x \in 0 .. k - 1 /\ s = k * y + x
        /\ S \in Nat /\ Y \in Nat /\ S = k * Y
    BY DEF Pieced
  <1>2. CASE Y <= y
    <2>1. y - Y \in Nat /\ k * (y - Y) \in Nat /\ k * y = k * Y + k * (y - Y)
      BY <1>1, <1>2
    <2> QED BY <1>1, <1>2, <2>1
  <1>3. CASE Y = y + 1
    BY <1>1, <1>3
  <1>4. CASE Y > y + 1
    <2>1. Y - (y + 1) \in Nat /\ Y - (y + 1) >= 1 /\ k * Y = k * y + k + k * (Y - (y + 1))
      BY <1>1, <1>4
    <2>2. k * (Y - (y + 1)) >= k
      BY <2>1, ProductBound
    <2> QED BY <1>1, <1>4, <2>1, <2>2
  <1> QED BY <1>1, <1>2, <1>3, <1>4

\* A number of seconds taken apart: y whole minutes, z whole hours, n days.
Parted(s, y, z, n, h, m, x) == Pieced(s, 60, y, x) /\ Pieced(y, 60, z, m) /\ Pieced(z, 24, n, h)

LEMMA Parts ==
    ASSUME NEW s, NEW y, NEW z, NEW n, NEW h, NEW m, NEW x, Parted(s, y, z, n, h, m, x)
    PROVE  TimeOf(s) = Clock(n, h, m, x)
  <1>1. 60 \in Nat \ {0} /\ 24 \in Nat \ {0}
    OBVIOUS
  <1>2. s % 60 = x /\ s \div 60 = y /\ y % 60 = m /\ y \div 60 = z /\ z % 24 = h /\ z \div 24 = n
    BY <1>1, PiecedParts DEF Parted
  <1> QED BY <1>2, Zenon DEF TimeOf, Clock

LEMMA AllParts == \E y, z : Parted(AllSeconds, y, z, Days, 0, 0, 0)
  <1>1. \A k \in Nat \ {0}, y \in Nat : Pieced(k * y, k, y, 0)
    BY DEF Pieced
  <1>2. Days \in Nat /\ 60 \in Nat \ {0} /\ 24 \in Nat \ {0}
    BY DEF Days
  <1>3. PICK z : z = 24 * Days
    OBVIOUS
  <1>4. Pieced(z, 24, Days, 0)
    BY <1>1, <1>2, <1>3, Zenon
  <1>5. PICK y : y = 60 * z
    OBVIOUS
  <1>6. Pieced(y, 60, z, 0)
    <2>1. z \in Nat
      BY <1>4 DEF Pieced
    <2> QED BY <1>1, <1>2, <1>5, <2>1, Zenon
  <1>7. Pieced(AllSeconds, 60, y, 0)
    <2>1. y \in Nat
      BY <1>6 DEF Pieced
    <2>2. AllSeconds = 60 * y
      BY <1>3, <1>5, Zenon DEF AllSeconds
    <2> QED BY <1>1, <1>2, <2>1, <2>2, Zenon
  <1> QED BY <1>4, <1>6, <1>7, Zenon DEF Parted

\* tick gives each second of the hundred days the time of the next one, and the
\* last the time of the first (mipslabfunc.c:37-77).
THEOREM CalendarTheorem ==
    ASSUME NEW s \in Nat, s < AllSeconds
    PROVE  tick(TimeOf(s)) = TimeOf((s + 1) % AllSeconds)
  <1> DEFINE y == s \div 60
             z == y \div 60
             n == z \div 24
             h == z % 24
             m == y % 60
             x == s % 60
  <1>1. Pieced(s, 60, y, x)
    BY PiecedByDivision
  <1>2. Pieced(y, 60, z, m)
    <2>1. y \in Nat
      BY <1>1 DEF Pieced
    <2> QED BY <2>1, PiecedByDivision
  <1>3. Pieced(z, 24, n, h)
    <2>1. z \in Nat
      BY <1>2 DEF Pieced
    <2> QED BY <2>1, PiecedByDivision
  <1> HIDE DEF y, z, n, h, m, x
  <1>4. PICK Y, Z : Parted(AllSeconds, Y, Z, Days, 0, 0, 0)
    BY AllParts
  <1>5. Pieced(AllSeconds, 60, Y, 0) /\ Pieced(Y, 60, Z, 0) /\ Pieced(Z, 24, Days, 0)
    BY <1>4 DEF Parted
  <1>6. 60 \in Nat \ {0} /\ 24 \in Nat \ {0}
    OBVIOUS
  <1>7. y < Y /\ z < Z /\ n < Days
    BY <1>1, <1>2, <1>3, <1>5, <1>6, PiecedWhole
  <1>8. n \in 0 .. 99 /\ h \in 0 .. 23 /\ m \in 0 .. 59 /\ x \in 0 .. 59
    <2>1. n \in Nat /\ Days = 100
      BY <1>3 DEF Pieced, Days
    <2>2. n \in 0 .. 99
      BY <1>7, <2>1
    <2>3. 0 .. 24 - 1 = 0 .. 23 /\ 0 .. 60 - 1 = 0 .. 59
      OBVIOUS
    <2> QED BY <1>1, <1>2, <1>3, <2>2, <2>3, Zenon DEF Pieced
  <1>9. Parted(s, y, z, n, h, m, x)
    BY <1>1, <1>2, <1>3 DEF Parted
  <1>10. tick(TimeOf(s)) = NextClock(n, h, m, x)
    <2>1. TimeOf(s) = Clock(n, h, m, x)
      BY <1>9, Parts
    <2> QED BY <1>8, <2>1, TickClock
  <1>11. s + 1 = AllSeconds <=> x = 59 /\ y + 1 = Y
    BY <1>1, <1>5, <1>6, PiecedWhole
  <1>12. y + 1 = Y <=> m = 59 /\ z + 1 = Z
    BY <1>2, <1>5, <1>6, PiecedWhole
  <1>13. z + 1 = Z <=> h = 23 /\ n = 99
    BY <1>3, <1>5, <1>6, <1>8, PiecedWhole DEF Days
  <1>14. CASE s + 1 = AllSeconds
    <2>1. (s + 1) % AllSeconds = 0
      <3>1. AllSeconds \in Nat \ {0}
        BY <1>14
      <3>2. AllSeconds = AllSeconds * 1 + 0 /\ 0 \in 0 .. AllSeconds - 1 /\ 1 \in Int
        BY <3>1
      <3> QED BY <1>14, <3>1, <3>2, ModUnique
    <2>2. Parted(0, 0, 0, 0, 0, 0, 0)
      BY DEF Parted, Pieced
    <2>3. TimeOf(0) = Clock(0, 0, 0, 0)
      BY <2>2, Parts
    <2>4. x = 59 /\ m = 59 /\ h = 23 /\ n = 99
      BY <1>11, <1>12, <1>13, <1>14
    <2> QED BY <1>10, <2>1, <2>3, <2>4 DEF NextClock
  <1>15. CASE s + 1 # AllSeconds
    <2>1. (s + 1) % AllSeconds = s + 1
      <3>1. AllSeconds \in Nat \ {0}
        BY <1>5 DEF Pieced
      <3>2. s + 1 \in 0 .. AllSeconds - 1
        BY <1>15, <3>1
      <3> QED BY <3>1, <3>2, ModSmall
    <2>2. ~(x = 59 /\ m = 59 /\ h = 23 /\ n = 99)
      BY <1>11, <1>12, <1>13, <1>15
    <2>3. /\ x < 59 => Pieced(s + 1, 60, y, x + 1)
          /\ x = 59 => Pieced(s + 1, 60, y + 1, 0)
      BY <1>1, <1>6, PiecedNext
    <2>4. /\ m < 59 => Pieced(y + 1, 60, z, m + 1)
          /\ m = 59 => Pieced(y + 1, 60, z + 1, 0)
      BY <1>2, <1>6, PiecedNext
    <2>5. /\ h < 23 => Pieced(z + 1, 24, n, h + 1)
          /\ h = 23 => Pieced(z + 1, 24, n + 1, 0)
      BY <1>3, <1>6, PiecedNext
    <2>6. CASE x < 59
      <3>1. Parted(s + 1, y, z, n, h, m, x + 1)
        BY <1>2, <1>3, <2>3, <2>6 DEF Parted
      <3>2. TimeOf(s + 1) = Clock(n, h, m, x + 1)
        BY <3>1, Parts
      <3> QED BY <1>10, <2>1, <2>6, <3>2 DEF NextClock
    <2>7. CASE x = 59 /\ m < 59
      <3>1. Parted(s + 1, y + 1, z, n, h, m + 1, 0)
        BY <1>3, <2>3, <2>4, <2>7 DEF Parted
      <3>2. TimeOf(s + 1) = Clock(n, h, m + 1, 0)
        BY <3>1, Parts
      <3> QED BY <1>10, <2>1, <2>7, <3>2 DEF NextClock
    <2>8. CASE x = 59 /\ m = 59 /\ h < 23
      <3>1. Parted(s + 1, y + 1, z + 1, n, h + 1, 0, 0)
        BY <2>3, <2>4, <2>5, <2>8 DEF Parted
      <3>2. TimeOf(s + 1) = Clock(n, h + 1, 0, 0)
        BY <3>1, Parts
      <3> QED BY <1>10, <2>1, <2>8, <3>2 DEF NextClock
    <2>9. CASE x = 59 /\ m = 59 /\ h = 23 /\ n < 99
      <3>1. Parted(s + 1, y + 1, z + 1, n + 1, 0, 0, 0)
        BY <2>3, <2>4, <2>5, <2>9 DEF Parted
      <3>2. TimeOf(s + 1) = Clock(n + 1, 0, 0, 0)
        BY <3>1, Parts
      <3> QED BY <1>10, <2>1, <2>9, <3>2 DEF NextClock
    <2> QED BY <1>8, <2>2, <2>6, <2>7, <2>8, <2>9
  <1> QED BY <1>14, <1>15

-----------------------------------------------------------------------------
(* The texts.                                                              *)

\* What ValueOf goes through: the values of the first characters.
Values(s, r, v) == v = [k \in 0 .. Len(s) |-> IF k = 0 THEN 0 ELSE v[k - 1] * r + DigitValue(s[k])]

LEMMA ValuesExist ==
    ASSUME NEW S, NEW s \in Seq(S), NEW r
    PROVE  \E v : Values(s, r, v)
  <1> DEFINE Upto(n, v) == v = [k \in 0 .. n |-> IF k = 0 THEN 0 ELSE v[k - 1] * r + DigitValue(s[k])]
             Good == {n \in Nat : \E v : Upto(n, v)}
  <1>1. 0 \in Good
    <2>1. Upto(0, [k \in 0 .. 0 |-> 0])
      OBVIOUS
    <2> QED BY <2>1
  <1>2. ASSUME NEW n \in Good PROVE n + 1 \in Good
    <2>1. PICK v : Upto(n, v)
      OBVIOUS
    <2> DEFINE w == [k \in 0 .. n + 1 |-> IF k <= n THEN v[k] ELSE v[n] * r + DigitValue(s[n + 1])]
    <2>2. ASSUME NEW k \in 0 .. n + 1
          PROVE  w[k] = IF k = 0 THEN 0 ELSE w[k - 1] * r + DigitValue(s[k])
      <3>1. CASE k <= n
        <4>1. k \in 0 .. n /\ (k # 0 => k - 1 \in 0 .. n)
          BY <3>1
        <4>2. v[k] = IF k = 0 THEN 0 ELSE v[k - 1] * r + DigitValue(s[k])
          BY <2>1, <4>1
        <4>3. w[k] = v[k] /\ (k # 0 => w[k - 1] = v[k - 1])
          BY <4>1
        <4> QED BY <4>2, <4>3
      <3>2. CASE k = n + 1
        <4>1. n \in Nat /\ k # 0 /\ ~(k <= n) /\ k - 1 = n
          BY <3>2
        <4>2. w[n] = v[n] /\ w[k] = v[n] * r + DigitValue(s[n + 1])
          BY <4>1
        <4> QED BY <3>2, <4>1, <4>2
      <3> QED BY <3>1, <3>2
    <2>3. Upto(n + 1, w)
      BY <2>2
    <2>4. n \in Nat /\ n + 1 \in Nat
      OBVIOUS
    <2>5. \E u : Upto(n + 1, u)
      <3> HIDE DEF Upto, w
      <3> QED BY <2>3, Zenon
    <2> HIDE DEF Upto
    <2> QED BY <2>4, <2>5
  <1>3. Good \subseteq Nat
    OBVIOUS
  <1>4. Good = Nat
    <2> HIDE DEF Good
    <2> QED BY <1>1, <1>2, <1>3, Induction
  <1>5. Len(s) \in Good
    BY <1>4
  <1> QED BY <1>5 DEF Values

\* The function ValueOf takes; it is the only one.
LEMMA ValueOfIs ==
    ASSUME NEW S, NEW s \in Seq(S), NEW r
    PROVE  \E v : Values(s, r, v) /\ ValueOf(s, r) = v[Len(s)]
  <1>1. PICK v : v = CHOOSE f : Values(s, r, f)
    OBVIOUS
  <1>2. Values(s, r, v)
    BY <1>1, ValuesExist
  <1>3. ValueOf(s, r) = v[Len(s)]
    BY <1>1, Zenon DEF ValueOf, Values
  <1> QED BY <1>2, <1>3

LEMMA ValuesStep ==
    ASSUME NEW S, NEW s \in Seq(S), NEW r, NEW v, Values(s, r, v), NEW k \in 0 .. Len(s)
    PROVE  v[k] = IF k = 0 THEN 0 ELSE v[k - 1] * r + DigitValue(s[k])
  <1> DEFINE w == [i \in 0 .. Len(s) |-> IF i = 0 THEN 0 ELSE v[i - 1] * r + DigitValue(s[i])]
  <1>1. v = w
    BY DEF Values
  <1>2. w[k] = IF k = 0 THEN 0 ELSE v[k - 1] * r + DigitValue(s[k])
    OBVIOUS
  <1> HIDE DEF w
  <1> QED BY <1>1, <1>2, Zenon

LEMMA ValueOfEmpty ==
    ASSUME NEW r
    PROVE  ValueOf(<<>>, r) = 0
  <1>1. PICK e : e = <<>>
    OBVIOUS
  <1>2. e \in Seq({}) /\ Len(e) = 0 /\ 0 \in 0 .. Len(e)
    BY <1>1
  <1>3. PICK v : Values(e, r, v) /\ ValueOf(e, r) = v[Len(e)]
    BY <1>2, ValueOfIs
  <1>4. v[0] = IF 0 = 0 THEN 0 ELSE v[0 - 1] * r + DigitValue(e[0])
    BY <1>2, <1>3, ValuesStep, Zenon
  <1>5. v[0] = 0
    BY <1>4, Zenon
  <1> QED BY <1>1, <1>2, <1>3, <1>5

\* A character more.
LEMMA ValueOfMore ==
    ASSUME NEW S, NEW s \in Seq(S), NEW c \in S, NEW r
    PROVE  ValueOf(s \o <<c>>, r) = ValueOf(s, r) * r + DigitValue(c)
  <1>1. PICK t : t = s \o <<c>>
    OBVIOUS
  <1>2. t \in Seq(S) /\ Len(t) = Len(s) + 1 /\ t[Len(s) + 1] = c /\ \A i \in 1 .. Len(s) : t[i] = s[i]
    BY <1>1
  <1>3. PICK v : Values(s, r, v) /\ ValueOf(s, r) = v[Len(s)]
    BY ValueOfIs
  <1>4. PICK w : Values(t, r, w) /\ ValueOf(t, r) = w[Len(t)]
    BY <1>2, ValueOfIs
  <1>5. ASSUME NEW i \in 0 .. Len(t)
         PROVE  w[i] = IF i = 0 THEN 0 ELSE w[i - 1] * r + DigitValue(t[i])
    BY <1>2, <1>4, ValuesStep
  <1> DEFINE Same == {k \in Nat : k <= Len(s) => v[k] = w[k]}
  <1>6. 0 \in Same
    <2>1. 0 \in 0 .. Len(s) /\ 0 \in 0 .. Len(t)
      BY <1>2
    <2> QED BY <1>2, <1>3, <1>4, <2>1, ValuesStep
  <1>7. ASSUME NEW k \in Same PROVE k + 1 \in Same
    <2>1. ASSUME k + 1 <= Len(s) PROVE v[k + 1] = w[k + 1]
      <3>1. k + 1 \in 0 .. Len(s) /\ k + 1 \in 0 .. Len(t) /\ k + 1 # 0 /\ (k + 1) - 1 = k /\ k <= Len(s)
        BY <1>2, <2>1
      <3>2. v[k + 1] = v[k] * r + DigitValue(s[k + 1])
        <4>1. v[k + 1] = IF k + 1 = 0 THEN 0 ELSE v[(k + 1) - 1] * r + DigitValue(s[k + 1])
          BY <1>3, <3>1, ValuesStep, Zenon
        <4> QED BY <3>1, <4>1, Zenon
      <3>3. w[k + 1] = w[k] * r + DigitValue(t[k + 1])
        <4>1. w[k + 1] = IF k + 1 = 0 THEN 0 ELSE w[(k + 1) - 1] * r + DigitValue(t[k + 1])
          BY <1>5, <3>1, Zenon
        <4> QED BY <3>1, <4>1, Zenon
      <3>4. t[k + 1] = s[k + 1]
        BY <1>2, <3>1
      <3> QED BY <3>1, <3>2, <3>3, <3>4
    <2> QED BY <2>1
  <1>8. Same = Nat
    <2>1. Same \subseteq Nat
      OBVIOUS
    <2> HIDE DEF Same
    <2> QED BY <1>6, <1>7, <2>1, Induction
  <1>9. w[Len(s)] = v[Len(s)]
    <2>1. Len(s) \in Nat
      OBVIOUS
    <2> QED BY <1>8, <2>1
  <1>10. w[Len(t)] = w[Len(s)] * r + DigitValue(c)
    <2>1. Len(t) \in 0 .. Len(t) /\ Len(t) # 0 /\ Len(t) - 1 = Len(s)
      BY <1>2
    <2>2. w[Len(t)] = w[Len(t) - 1] * r + DigitValue(t[Len(t)])
      BY <1>2, <1>4, <2>1, ValuesStep
    <2> QED BY <1>2, <2>1, <2>2
  <1> QED BY <1>1, <1>3, <1>4, <1>9, <1>10

-----------------------------------------------------------------------------
(* The digits of a number.                                                 *)
NextDigits(f, n) == (IF n < 10 THEN <<>> ELSE f[n \div 10]) \o << 48 + (n % 10) >>
Digits(f) == f = [n \in Nat |-> NextDigits(f, n)]

\* A part of such a function.
DigitsTo(m, f) == \A n \in 0 .. m : f[n] = NextDigits(f, n)

LEMMA Tenth ==
    ASSUME NEW n \in Nat
    PROVE  n \div 10 \in Nat /\ (n >= 10 => n \div 10 < n) /\ n % 10 \in 0 .. 9 /\ n = (n \div 10) * 10 + (n % 10)
  OBVIOUS

LEMMA DigitsToExist ==
    ASSUME NEW m \in Nat
    PROVE  \E f : DigitsTo(m, f)
  <1> DEFINE Good == {k \in Nat : \E f : DigitsTo(k, f)}
  <1>1. 0 \in Good
    <2> DEFINE f == [n \in 0 .. 0 |-> << 48 + (n % 10) >>]
    <2>1. ASSUME NEW n \in 0 .. 0 PROVE f[n] = NextDigits(f, n)
      <3>1. n < 10 /\ f[n] = << 48 + (n % 10) >> /\ <<>> \o << 48 + (n % 10) >> = << 48 + (n % 10) >>
        OBVIOUS
      <3> HIDE DEF f
      <3> QED BY <3>1 DEF NextDigits
    <2>2. DigitsTo(0, f)
      BY <2>1 DEF DigitsTo
    <2> QED BY <2>2
  <1>2. ASSUME NEW k \in Good PROVE k + 1 \in Good
    <2>1. PICK f : DigitsTo(k, f)
      OBVIOUS
    <2> DEFINE g == [n \in 0 .. k + 1 |-> IF n <= k THEN f[n] ELSE NextDigits(f, n)]
    <2>2. ASSUME NEW n \in 0 .. k + 1 PROVE g[n] = NextDigits(g, n)
      <3>1. g[n] = NextDigits(f, n)
        <4>1. n <= k => n \in 0 .. k /\ f[n] = NextDigits(f, n)
          BY <2>1 DEF DigitsTo
        <4> QED BY <4>1
      <3>2. n >= 10 => n \div 10 \in 0 .. k
        BY Tenth
      <3>3. n >= 10 => g[n \div 10] = f[n \div 10]
        BY <3>2
      <3>4. n < 10 \/ n >= 10
        OBVIOUS
      <3> HIDE DEF g
      <3>5. NextDigits(g, n) = NextDigits(f, n)
        BY <3>3, <3>4 DEF NextDigits
      <3> QED BY <3>1, <3>5
    <2>3. DigitsTo(k + 1, g)
      BY <2>2 DEF DigitsTo
    <2> QED BY <2>3
  <1>3. Good \subseteq Nat
    OBVIOUS
  <1>4. Good = Nat
    <2> HIDE DEF Good
    <2> QED BY <1>1, <1>2, <1>3, Induction
  <1> QED BY <1>4

\* Where two such parts are both defined they agree.
LEMMA DigitsAgree ==
    ASSUME NEW m \in Nat, NEW k \in Nat, NEW f, NEW g, DigitsTo(m, f), DigitsTo(k, g)
    PROVE  \A n \in Nat : n <= m /\ n <= k => f[n] = g[n]
  <1> DEFINE T == {n \in Nat : n <= m /\ n <= k /\ f[n] # g[n]}
  <1>1. CASE T # {}
    <2>1. PICK n \in T : \A j \in T : n <= j
      <3>1. T \subseteq Nat
        OBVIOUS
      <3> HIDE DEF T
      <3> QED BY <1>1, <3>1, Least
    <2>2. n \in 0 .. m /\ n \in 0 .. k /\ f[n] # g[n]
      OBVIOUS
    <2>3. f[n] = NextDigits(f, n) /\ g[n] = NextDigits(g, n)
      BY <2>2 DEF DigitsTo
    <2>4. n >= 10 => f[n \div 10] = g[n \div 10]
      <3>1. SUFFICES ASSUME n >= 10 PROVE f[n \div 10] = g[n \div 10]
        OBVIOUS
      <3>2. n \div 10 \in Nat /\ n \div 10 < n
        BY <2>2, <3>1, Tenth
      <3>3. n \div 10 \notin T
        <4>1. ~(n <= n \div 10)
          BY <2>2, <3>2
        <4> QED BY <2>1, <4>1
      <3>4. n \div 10 <= m /\ n \div 10 <= k
        BY <2>2, <3>2
      <3> QED BY <3>2, <3>3, <3>4
    <2>5. n < 10 \/ n >= 10
      BY <2>2
    <2>6. NextDigits(f, n) = NextDigits(g, n)
      BY <2>4, <2>5 DEF NextDigits
    <2> QED BY <2>2, <2>3, <2>6
  <1>2. CASE T = {}
    BY <1>2
  <1> QED BY <1>1, <1>2

LEMMA DigitsExist == \E f : Digits(f)
  <1> DEFINE Part(n) == CHOOSE f : DigitsTo(n, f)
             g == [n \in Nat |-> Part(n)[n]]
  <1>1. \A n \in Nat : DigitsTo(n, Part(n))
    BY DigitsToExist
  <1> HIDE DEF Part
  <1>2. ASSUME NEW n \in Nat PROVE g[n] = NextDigits(g, n)
    <2>1. g[n] = NextDigits(Part(n), n)
      <3>1. n \in 0 .. n /\ g[n] = Part(n)[n]
        OBVIOUS
      <3> HIDE DEF g
      <3> QED BY <1>1, <3>1 DEF DigitsTo
    <2>2. n >= 10 => g[n \div 10] = Part(n)[n \div 10]
      <3>1. SUFFICES ASSUME n >= 10 PROVE g[n \div 10] = Part(n)[n \div 10]
        OBVIOUS
      <3>2. PICK d \in Nat : d = n \div 10 /\ d <= n /\ d <= d
        <4>1. n \div 10 \in Nat /\ n \div 10 < n
          BY <3>1, Tenth
        <4> QED BY <4>1
      <3>3. g[d] = Part(d)[d]
        OBVIOUS
      <3> HIDE DEF g
      <3>4. Part(d)[d] = Part(n)[d]
        BY <1>1, <3>2, DigitsAgree
      <3> QED BY <3>2, <3>3, <3>4
    <2> HIDE DEF g
    <2>3. n < 10 \/ n >= 10
      OBVIOUS
    <2>4. NextDigits(g, n) = NextDigits(Part(n), n)
      BY <2>2, <2>3 DEF NextDigits
    <2> QED BY <2>1, <2>4
  <1>3. Digits(g)
    BY <1>2 DEF Digits
  <1> QED BY <1>3

LEMMA DecimalDigitsStep ==
    ASSUME NEW n \in Nat
    PROVE  DecimalDigits[n] = (IF n < 10 THEN <<>> ELSE DecimalDigits[n \div 10]) \o << 48 + (n % 10) >>
  <1>1. Digits(DecimalDigits)
    <2>1. DecimalDigits = CHOOSE f : Digits(f)
      BY Zenon DEF DecimalDigits, Digits, NextDigits
    <2> QED BY <2>1, DigitsExist
  <1> DEFINE G == [k \in Nat |-> NextDigits(DecimalDigits, k)]
  <1>2. DecimalDigits = G
    BY <1>1 DEF Digits
  <1>3. G[n] = NextDigits(DecimalDigits, n)
    OBVIOUS
  <1> HIDE DEF G
  <1> QED BY <1>2, <1>3, Zenon DEF NextDigits

\* itoaconv gives decimal digits only, none to spare, and they read back as the
\* number (mipslabfunc.c:298-328).
THEOREM NumberTheorem ==
    ASSUME NEW num \in Nat
    PROVE  /\ itoaconv(num) \in Seq(48 .. 57) /\ itoaconv(num) # <<>>
           /\ num # 0 => itoaconv(num)[1] # 48
           /\ ValueOf(itoaconv(num), 10) = num
  <1> DEFINE Right(n) == /\ DecimalDigits[n] \in Seq(48 .. 57) /\ DecimalDigits[n] # <<>>
                         /\ n # 0 => DecimalDigits[n][1] # 48
                         /\ ValueOf(DecimalDigits[n], 10) = n
             Wrong == {n \in Nat : ~Right(n)}
  <1>1. ASSUME NEW n \in Nat, \A k \in Nat : k < n => Right(k) PROVE Right(n)
    <2>1. PICK q \in Nat, d \in 0 .. 9 : q = n \div 10 /\ d = n % 10 /\ n = q * 10 + d /\ (n >= 10 => q < n)
      BY Tenth
    <2>2. 48 + d \in 48 .. 57 /\ DigitValue(48 + d) = d
      BY DEF DigitValue
    <2>3. PICK s \in Seq(48 .. 57) :
             /\ DecimalDigits[n] = s \o <<48 + d>> /\ ValueOf(s, 10) = q
             /\ s = <<>> => n < 10
             /\ s # <<>> => s[1] # 48
      <3>1. DecimalDigits[n] = (IF n < 10 THEN <<>> ELSE DecimalDigits[n \div 10]) \o << 48 + (n % 10) >>
        BY DecimalDigitsStep
      <3>2. CASE n < 10
        <4>1. q = 0
          BY <2>1, <3>2
        <4>2. ValueOf(<<>>, 10) = q
          BY <4>1, ValueOfEmpty
        <4>3. DecimalDigits[n] = <<>> \o <<48 + d>>
          BY <2>1, <3>1, <3>2
        <4>4. <<>> \in Seq(48 .. 57)
          OBVIOUS
        <4> QED BY <3>2, <4>2, <4>3, <4>4
      <3>3. CASE n >= 10
        <4>1. q # 0 /\ q < n /\ ~(n < 10)
          BY <2>1, <3>3
        <4>2. Right(q)
          BY <1>1, <4>1
        <4>3. DecimalDigits[n] = DecimalDigits[q] \o <<48 + d>>
          BY <2>1, <3>1, <4>1
        <4> QED BY <4>1, <4>2, <4>3
      <3> QED BY <3>2, <3>3
    <2>4. ValueOf(s \o <<48 + d>>, 10) = q * 10 + d
      BY <2>2, <2>3, ValueOfMore
    <2>5. s \o <<48 + d>> \in Seq(48 .. 57) /\ s \o <<48 + d>> # <<>>
      BY <2>2
    <2>6. n # 0 => (s \o <<48 + d>>)[1] # 48
      <3>1. CASE s = <<>>
        <4>1. n = d
          BY <2>1, <2>3, <3>1
        <4>2. (s \o <<48 + d>>)[1] = 48 + d
          BY <3>1
        <4> QED BY <4>1, <4>2
      <3>2. CASE s # <<>>
        <4>1. (s \o <<48 + d>>)[1] = s[1]
          BY <3>2
        <4> QED BY <2>3, <3>2, <4>1
      <3> QED BY <3>1, <3>2
    <2> QED BY <2>1, <2>3, <2>4, <2>5, <2>6
  <1>2. Wrong = {}
    <2>1. CASE Wrong # {}
      <3>1. PICK n \in Wrong : \A k \in Wrong : n <= k
        <4>1. Wrong \subseteq Nat
          OBVIOUS
        <4> HIDE DEF Wrong
        <4> QED BY <2>1, <4>1, Least
      <3> HIDE DEF Right
      <3>2. ASSUME NEW k \in Nat, k < n PROVE Right(k)
        <4>1. n \in Nat /\ ~(n <= k)
          BY <3>2
        <4> QED BY <3>1, <4>1
      <3> QED BY <1>1, <3>2
    <2> QED BY <2>1
  <1>3. Right(num)
    <2> HIDE DEF Right
    <2> QED BY <1>2
  <1>4. itoaconv(num) = DecimalDigits[num]
    BY DEF itoaconv
  <1> QED BY <1>3, <1>4

-----------------------------------------------------------------------------
(* The time as text, and the digits the switches set.                      *)

\* A half of the time has four digits, and is no more than they say.
LEMMA HalfWritten ==
    ASSUME NEW h \in 0 .. Half - 1
    PROVE  \E d, c, b, a : Written(h, d, c, b, a)
  <1>1. h \in Nat /\ h < 4096 * 16
    BY SMT DEF Half
  <1>2. 16 \in Nat \ {0}
    OBVIOUS
  <1>3. PICK x \in Nat, a \in 0 .. 15 : h = 16 * x + a
    <2>1. h = 16 * (h \div 16) + (h % 16) /\ h \div 16 \in Nat /\ h % 16 \in 0 .. 16 - 1
      BY <1>1, <1>2, DivMod
    <2> QED BY <2>1
  <1>4. PICK y \in Nat, b \in 0 .. 15 : x = 16 * y + b
    <2>1. x = 16 * (x \div 16) + (x % 16) /\ x \div 16 \in Nat /\ x % 16 \in 0 .. 16 - 1
      BY <1>2, DivMod
    <2> QED BY <2>1
  <1>5. PICK d \in Nat, c \in 0 .. 15 : y = 16 * d + c
    <2>1. y = 16 * (y \div 16) + (y % 16) /\ y \div 16 \in Nat /\ y % 16 \in 0 .. 16 - 1
      BY <1>2, DivMod
    <2> QED BY <2>1
  <1>6. h = 4096 * d + 256 * c + 16 * b + a
    BY <1>3, <1>4, <1>5
  <1>7. d \in 0 .. 15
    BY <1>1, <1>6
  <1>8. Written(h, d, c, b, a)
    BY <1>3, <1>4, <1>5, <1>6, <1>7 DEF Written
  <1> QED BY <1>8, Zenon

LEMMA WrittenHalf ==
    ASSUME NEW h, NEW d, NEW c, NEW b, NEW a, Written(h, d, c, b, a)
    PROVE  h \in 0 .. Half - 1
  <1>1. h \in Nat /\ h < 4096 * 16
    BY DEF Written
  <1>2. Half = 4096 * 16
    BY SMT DEF Half
  <1>3. Half \in Nat /\ h < Half
    BY <1>1, <1>2
  <1> QED BY <1>1, <1>3

\* A digit of a half is set to another.
LEMMA DigitSet ==
    ASSUME NEW h \in 0 .. Half - 1, NEW n \in 0 .. 3, NEW e \in 0 .. 15
    PROVE  WithDigit(h, n, e) \in 0 .. Half - 1
  <1>1. PICK d, c, b, a : Written(h, d, c, b, a)
    BY HalfWritten
  <1>2. /\ a \in 0 .. 15 /\ b \in 0 .. 15 /\ c \in 0 .. 15 /\ d \in 0 .. 15
        /\ h = 4096 * d + 256 * c + 16 * b + a
    BY <1>1 DEF Written
  <1>3. Digit(h, 0) = a /\ Digit(h, 1) = b /\ Digit(h, 2) = c /\ Digit(h, 3) = d
    BY <1>1, DigitsRead
  <1>4. Weight[1] = 1 /\ Weight[2] = 16 /\ Weight[3] = 256 /\ Weight[4] = 4096
    BY DEF Weight
  <1>5. 0 + 1 = 1 /\ 1 + 1 = 2 /\ 2 + 1 = 3 /\ 3 + 1 = 4 /\ n \in {0, 1, 2, 3}
    OBVIOUS
  <1>6. CASE n = 0
    <2>1. WithDigit(h, n, e) = h + (e - a) * 1
      BY <1>3, <1>4, <1>5, <1>6 DEF WithDigit
    <2>2. Written(WithDigit(h, n, e), d, c, b, e)
      BY <1>2, <2>1 DEF Written
    <2> QED BY <2>2, WrittenHalf
  <1>7. CASE n = 1
    <2>1. WithDigit(h, n, e) = h + (e - b) * 16
      BY <1>3, <1>4, <1>5, <1>7 DEF WithDigit
    <2>2. Written(WithDigit(h, n, e), d, c, e, a)
      BY <1>2, <2>1 DEF Written
    <2> QED BY <2>2, WrittenHalf
  <1>8. CASE n = 2
    <2>1. WithDigit(h, n, e) = h + (e - c) * 256
      BY <1>3, <1>4, <1>5, <1>8 DEF WithDigit
    <2>2. Written(WithDigit(h, n, e), d, e, b, a)
      BY <1>2, <2>1 DEF Written
    <2> QED BY <2>2, WrittenHalf
  <1>9. CASE n = 3
    <2>1. WithDigit(h, n, e) = h + (e - d) * 4096
      BY <1>3, <1>4, <1>5, <1>9 DEF WithDigit
    <2>2. Written(WithDigit(h, n, e), e, c, b, a)
      BY <1>2, <2>1 DEF Written
    <2> QED BY <2>2, WrittenHalf
  <1> QED BY <1>5, <1>6, <1>7, <1>8, <1>9

LEMMA Hexadecimal ==
    ASSUME NEW d \in 0 .. 15
    PROVE  hexasc(d) \in (48 .. 57) \cup (65 .. 70) /\ DigitValue(hexasc(d)) = d
  <1>1. CASE d < 10
    <2>1. hexasc(d) = 48 + d
      BY <1>1 DEF hexasc
    <2> QED BY <1>1, <2>1 DEF DigitValue
  <1>2. CASE d >= 10
    <2>1. hexasc(d) = 55 + d
      BY <1>2 DEF hexasc
    <2> QED BY <1>2, <2>1 DEF DigitValue
  <1> QED BY <1>1, <1>2

LEMMA FourLetters ==
    ASSUME NEW S, NEW p \in S, NEW q \in S, NEW x \in S, NEW y \in S
    PROVE  /\ <<>> \in Seq(S) /\ <<>> \o <<p>> = <<p>> /\ <<p>> \in Seq(S)
           /\ <<p>> \o <<q>> = <<p, q>> /\ <<p, q>> \in Seq(S)
           /\ <<p, q>> \o <<x>> = <<p, q, x>> /\ <<p, q, x>> \in Seq(S)
           /\ <<p, q, x>> \o <<y>> = <<p, q, x, y>>
  <1>1. <<>> \in Seq(S) /\ <<p>> \in Seq(S) /\ <<p, q>> \in Seq(S) /\ <<p, q, x>> \in Seq(S)
    OBVIOUS
  <1>2. <<>> \o <<p>> = <<p>>
    OBVIOUS
  <1>3. ASSUME NEW s \in Seq(S), NEW t \in Seq(S), Len(s) = Len(t), \A i \in 1 .. Len(s) : s[i] = t[i]
        PROVE  s = t
    BY <1>3, SeqEqual
  <1>4. <<p>> \o <<q>> = <<p, q>>
    <2>1. PICK s : s = <<p>> \o <<q>>
      OBVIOUS
    <2>2. s \in Seq(S) /\ Len(s) = 2 /\ s[1] = p /\ s[2] = q
      BY <2>1
    <2>3. PICK t : t = <<p, q>>
      OBVIOUS
    <2>4. t \in Seq(S) /\ Len(t) = 2 /\ t[1] = p /\ t[2] = q
      BY <2>3
    <2>5. \A i \in 1 .. 2 : s[i] = t[i]
      BY <2>2, <2>4
    <2> QED BY <1>3, <2>1, <2>2, <2>3, <2>4, <2>5
  <1>5. <<p, q>> \o <<x>> = <<p, q, x>>
    <2>1. PICK s : s = <<p, q>> \o <<x>>
      OBVIOUS
    <2>2. s \in Seq(S) /\ Len(s) = 3 /\ s[1] = p /\ s[2] = q /\ s[3] = x
      BY <2>1
    <2>3. PICK t : t = <<p, q, x>>
      OBVIOUS
    <2>4. t \in Seq(S) /\ Len(t) = 3 /\ t[1] = p /\ t[2] = q /\ t[3] = x
      BY <2>3
    <2>5. \A i \in 1 .. 3 : s[i] = t[i]
      BY <2>2, <2>4
    <2> QED BY <1>3, <2>1, <2>2, <2>3, <2>4, <2>5
  <1>6. <<p, q, x>> \o <<y>> = <<p, q, x, y>>
    <2>1. PICK s : s = <<p, q, x>> \o <<y>>
      OBVIOUS
    <2>2. s \in Seq(S) /\ Len(s) = 4 /\ s[1] = p /\ s[2] = q /\ s[3] = x /\ s[4] = y
      BY <2>1
    <2>3. PICK t : t = <<p, q, x, y>>
      OBVIOUS
    <2>4. t \in Seq(S) /\ Len(t) = 4 /\ t[1] = p /\ t[2] = q /\ t[3] = x /\ t[4] = y
      BY <2>3
    <2>5. \A i \in 1 .. 4 : s[i] = t[i]
      BY <2>2, <2>4
    <2> QED BY <1>3, <2>1, <2>2, <2>3, <2>4, <2>5
  <1> QED BY <1>1, <1>2, <1>4, <1>5, <1>6

\* The text of a half of the time: two digits, a colon and two digits, of those
\* that the display has letters for, and they read back as the half
\* (labwork.S:22-87).
THEOREM TimeTextTheorem ==
    ASSUME NEW low \in 0 .. Half - 1
    PROVE  LET s == time2string(low)
           IN /\ \A i \in {1, 2, 4, 5} : s[i] \in (48 .. 57) \cup (65 .. 70)
              /\ s[3] = 58 /\ Len(s) = 5
              /\ ValueOf(<<s[1], s[2], s[4], s[5]>>, 16) = low
  <1>1. PICK d, c, b, a : Written(low, d, c, b, a)
    BY HalfWritten
  <1>2. /\ a \in 0 .. 15 /\ b \in 0 .. 15 /\ c \in 0 .. 15 /\ d \in 0 .. 15
        /\ low = 4096 * d + 256 * c + 16 * b + a
    BY <1>1 DEF Written
  <1>3. Digit(low, 0) = a /\ Digit(low, 1) = b /\ Digit(low, 2) = c /\ Digit(low, 3) = d
    BY <1>1, DigitsRead
  <1>4. PICK A, B, C, D : A = hexasc(a) /\ B = hexasc(b) /\ C = hexasc(c) /\ D = hexasc(d)
    OBVIOUS
  <1> DEFINE Letters == (48 .. 57) \cup (65 .. 70)
  <1>5. \A x \in 0 .. 15 : hexasc(x) \in Letters /\ DigitValue(hexasc(x)) = x
    BY Hexadecimal
  <1> HIDE DEF Letters
  <1>6. /\ A \in Letters /\ B \in Letters /\ C \in Letters /\ D \in Letters
        /\ DigitValue(A) = a /\ DigitValue(B) = b /\ DigitValue(C) = c /\ DigitValue(D) = d
    <2>1. hexasc(a) \in Letters /\ DigitValue(hexasc(a)) = a
      BY <1>2, <1>5
    <2>2. hexasc(b) \in Letters /\ DigitValue(hexasc(b)) = b
      BY <1>2, <1>5
    <2>3. hexasc(c) \in Letters /\ DigitValue(hexasc(c)) = c
      BY <1>2, <1>5
    <2>4. hexasc(d) \in Letters /\ DigitValue(hexasc(d)) = d
      BY <1>2, <1>5
    <2> QED BY <1>4, <2>1, <2>2, <2>3, <2>4
  <1>7. time2string(low) = <<D, C, 58, B, A>>
    BY <1>3, <1>4, Zenon DEF time2string
  <1>8. ValueOf(<<D, C, B, A>>, 16) = low
    <2>1. /\ <<>> \in Seq(Letters) /\ <<>> \o <<D>> = <<D>> /\ <<D>> \in Seq(Letters)
          /\ <<D>> \o <<C>> = <<D, C>> /\ <<D, C>> \in Seq(Letters)
          /\ <<D, C>> \o <<B>> = <<D, C, B>> /\ <<D, C, B>> \in Seq(Letters)
          /\ <<D, C, B>> \o <<A>> = <<D, C, B, A>>
      BY <1>6, FourLetters
    <2>2. ValueOf(<<D>>, 16) = 0 * 16 + d
      BY <1>6, <2>1, ValueOfEmpty, ValueOfMore, Zenon
    <2>3. ValueOf(<<D, C>>, 16) = ValueOf(<<D>>, 16) * 16 + c
      BY <1>6, <2>1, ValueOfMore, Zenon
    <2>4. ValueOf(<<D, C, B>>, 16) = ValueOf(<<D, C>>, 16) * 16 + b
      BY <1>6, <2>1, ValueOfMore, Zenon
    <2>5. ValueOf(<<D, C, B, A>>, 16) = ValueOf(<<D, C, B>>, 16) * 16 + a
      BY <1>6, <2>1, ValueOfMore, Zenon
    <2> QED BY <1>2, <2>2, <2>3, <2>4, <2>5
  <1>9. PICK s : s = time2string(low)
    OBVIOUS
  <1>10. s = <<D, C, 58, B, A>>
    BY <1>7, <1>9
  <1>11. s[1] = D /\ s[2] = C /\ s[3] = 58 /\ s[4] = B /\ s[5] = A /\ Len(s) = 5
    BY <1>10
  <1>12. \A i \in {1, 2, 4, 5} : s[i] \in Letters
    BY <1>6, <1>11
  <1>13. ValueOf(<<s[1], s[2], s[4], s[5]>>, 16) = low
    BY <1>8, <1>11
  <1> QED BY <1>9, <1>11, <1>12, <1>13 DEF Letters

-----------------------------------------------------------------------------
(* The calculations in every reachable state.                              *)

\* The time is two halves, and what is searched from is a positive number.
CalcInv == mytime \in [high : 0 .. Half - 1, low : 0 .. Half - 1] /\ prime \in Nat \ {0}

LEMMA SwitchesSet ==
    ASSUME NEW low \in 0 .. Half - 1, NEW btns, NEW sws \in 0 .. 15
    PROVE  SetDigits(low, btns, sws) \in 0 .. Half - 1
  <1> DEFINE Set(h, i) == IF i \in btns THEN WithDigit(h, i + 1, sws) ELSE h
  <1>1. ASSUME NEW h \in 0 .. Half - 1, NEW i \in 0 .. 2 PROVE Set(h, i) \in 0 .. Half - 1
    <2>1. i + 1 \in 0 .. 3
      OBVIOUS
    <2>2. WithDigit(h, i + 1, sws) \in 0 .. Half - 1
      BY <2>1, DigitSet, Zenon
    <2> QED BY <2>2, Zenon
  <1>2. SetDigits(low, btns, sws) = Set(Set(Set(low, 0), 1), 2)
    BY Zenon DEF SetDigits
  <1>3. 0 \in 0 .. 2 /\ 1 \in 0 .. 2 /\ 2 \in 0 .. 2
    OBVIOUS
  <1> HIDE DEF Set
  <1> QED BY <1>1, <1>2, <1>3, Zenon

LEMMA HalfNumber == Half \in Nat \ {0} /\ 0 \in 0 .. Half - 1
  BY SMT DEF Half

LEMMA TimeType ==
    ASSUME NEW x \in 0 .. Half - 1, NEW y \in 0 .. Half - 1
    PROVE  Time(x, y) \in [high : 0 .. Half - 1, low : 0 .. Half - 1]
  BY DEF Time

\* What a half may be carried to is cut down to a half.
LEMMA HalfCut ==
    ASSUME NEW v \in Nat
    PROVE  v % Half \in 0 .. Half - 1
  BY HalfNumber, DivMod

LEMMA AdjustNumber ==
    ASSUME NEW h \in Nat, NEW n \in 0 .. 3, NEW limit, NEW add \in Nat
    PROVE  Adjust(h, n, limit, add) \in Nat
  BY DEF Adjust

LEMMA TickType ==
    ASSUME NEW t \in [high : 0 .. Half - 1, low : 0 .. Half - 1]
    PROVE  tick(t) \in [high : 0 .. Half - 1, low : 0 .. Half - 1]
  <1>1. t.low \in Nat /\ t.high \in Nat
    <2>1. t.low \in 0 .. Half - 1 /\ t.high \in 0 .. Half - 1
      BY Zenon
    <2> QED BY <2>1, HalfNumber
  <1>2. \A h \in Nat, n \in 0 .. 3, limit \in Nat, add \in Nat : Adjust(h, n, limit, add) \in Nat
    BY AdjustNumber
  <1>3. \A h \in Nat, limit \in Nat, add \in Nat :
          /\ Adjust(h, 0, limit, add) \in Nat /\ Adjust(h, 1, limit, add) \in Nat
          /\ Adjust(h, 2, limit, add) \in Nat /\ Adjust(h, 3, limit, add) \in Nat
    <2>1. 0 \in 0 .. 3 /\ 1 \in 0 .. 3 /\ 2 \in 0 .. 3 /\ 3 \in 0 .. 3
      OBVIOUS
    <2> QED BY <1>2, <2>1
  <1>4. PICK seconds \in Nat : seconds = Adjust(Adjust(t.low + 1, 0, 10, 6), 1, 6, 160)
    <2>1. t.low + 1 \in Nat
      BY <1>1
    <2>2. Adjust(t.low + 1, 0, 10, 6) \in Nat
      BY <1>3, <2>1
    <2> QED BY <1>3, <2>2
  <1>5. PICK k \in Nat, l \in Nat : k = 1536 /\ l = 40960
    OBVIOUS
  <1>6. PICK minutes \in Nat : minutes = Adjust(Adjust(seconds, 2, 10, k), 3, 6, l)
    <2>1. Adjust(seconds, 2, 10, k) \in Nat
      BY <1>3
    <2> QED BY <1>3, <2>1
  <1>7. PICK hours \in Nat : hours = Adjust(t.high + (minutes \div Half), 0, 10, 6)
    <2>1. minutes \div Half \in Nat
      BY HalfNumber, DivMod, Zenon
    <2>2. PICK q \in Nat : q = minutes \div Half
      BY <2>1
    <2>3. t.high + q \in Nat
      BY <1>1
    <2>4. Adjust(t.high + q, 0, 10, 6) \in Nat
      BY <1>3, <2>3
    <2> QED BY <2>2, <2>4
  <1>8. PICK days \in Nat : days = Whole24(hours)
    BY DEF Whole24
  <1>9. PICK tens \in Nat : tens = Adjust(days, 2, 10, k)
    BY <1>3
  <1>10. tick(t) = IF Digit(tens, 3) >= 10 THEN Time(0, 0) ELSE Time(tens % Half, minutes % Half)
    BY <1>4, <1>6, <1>7, <1>8, <1>9, <1>5 DEF tick, Whole24
  <1>11. tens % Half \in 0 .. Half - 1 /\ minutes % Half \in 0 .. Half - 1 /\ 0 \in 0 .. Half - 1
    BY HalfCut, HalfNumber
  <1>12. \A x, y \in 0 .. Half - 1 : Time(x, y) \in [high : 0 .. Half - 1, low : 0 .. Half - 1]
    BY TimeType
  <1> QED BY <1>11, <1>12, <1>10, Zenon

LEMMA CalcInit == Init => CalcInv
  <1>1. FirstPrime \in Nat \ {0}
    BY LabAssumption
  <1>2. PICK w \in 0 .. Half - 1 : w = 22871
    BY SMT DEF Half
  <1>3. Time(0, w) \in [high : 0 .. Half - 1, low : 0 .. Half - 1]
    BY HalfNumber, TimeType
  <1>4. Init => mytime = Time(0, w) /\ prime = FirstPrime
    BY <1>2 DEF Init
  <1> QED BY <1>1, <1>3, <1>4, Zenon DEF CalcInv

LEMMA CalcKept == CalcInv /\ UNCHANGED <<mytime, prime>> => CalcInv'
  BY DEF CalcInv

LEMMA CalcSecond ==
    ASSUME CalcInv, NEW btns \in Pressed, NEW sws \in Switches, Second(btns, sws)
    PROVE  mytime' \in [high : 0 .. Half - 1, low : 0 .. Half - 1]
  <1>1. sws \in 0 .. 15
    BY LabAssumption
  <1>2. mytime.low \in 0 .. Half - 1 /\ mytime.high \in 0 .. Half - 1
    BY Zenon DEF CalcInv
  <1>3. SetDigits(mytime.low, btns, sws) \in 0 .. Half - 1
    BY <1>1, <1>2, SwitchesSet
  <1>4. mytime' = Time(mytime.high, SetDigits(mytime.low, btns, sws))
    BY DEF Second
  <1>5. \A x, y \in 0 .. Half - 1 : Time(x, y) \in [high : 0 .. Half - 1, low : 0 .. Half - 1]
    BY TimeType
  <1> QED BY <1>2, <1>3, <1>4, <1>5, Zenon

LEMMA CalcNext == CalcInv /\ [Next]_vars => CalcInv'
  <1> SUFFICES ASSUME CalcInv, [Next]_vars PROVE CalcInv'
    OBVIOUS
  <1>1. CASE labinit
    BY <1>1, CalcKept DEF labinit, program
  <1>2. CASE labwork_io
    <2>1. prime' = prime /\ \E btns \in Pressed, sws \in Switches : Second(btns, sws)
      BY <1>2 DEF labwork_io
    <2>2. mytime' \in [high : 0 .. Half - 1, low : 0 .. Half - 1]
      BY <2>1, CalcSecond
    <2> QED BY <2>1, <2>2, Zenon DEF CalcInv
  <1>3. CASE labwork_timer
    <2>1. prime' = prime
      BY <1>3 DEF labwork_timer
    <2>2. CASE \E btns \in Pressed, sws \in Switches : Second(btns, sws)
      <3>1. mytime' \in [high : 0 .. Half - 1, low : 0 .. Half - 1]
        BY <2>2, CalcSecond
      <3> QED BY <2>1, <3>1, Zenon DEF CalcInv
    <2>3. CASE mytime' = mytime
      BY <2>1, <2>3, CalcKept
    <2> QED BY <1>3, <2>2, <2>3 DEF labwork_timer
  <1>4. CASE labwork_interrupts
    <2>1. mytime' = mytime /\ prime' = nextprime(prime)
      BY <1>4 DEF labwork_interrupts
    <2>2. nextprime(prime) \in Nat /\ nextprime(prime) > prime
      BY PrimeTheorem DEF CalcInv, FirstOver
    <2>3. nextprime(prime) \in Nat \ {0}
      BY <2>2 DEF CalcInv
    <2> QED BY <2>1, <2>3, Zenon DEF CalcInv
  <1>5. CASE Tick
    <2>1. mytime' = tick(mytime) /\ prime' = prime
      BY <1>5 DEF Tick
    <2>2. tick(mytime) \in [high : 0 .. Half - 1, low : 0 .. Half - 1]
      BY TickType DEF CalcInv
    <2> QED BY <2>1, <2>2, Zenon DEF CalcInv
  <1>6. CASE Interrupt \/ Clear \/ Count \/ Char \/ SetMode \/ WaitEmpty \/ Write \/ WaitReceived \/ Read
    <2>1. mytime' = mytime /\ prime' = prime
      BY <1>6 DEF Interrupt, Clear, Count, Char, SetMode, WaitEmpty, Write, WaitReceived, Read, program
    <2> QED BY <2>1, CalcKept
  <1>7. CASE Shift \/ Expire
    <2>1. mytime' = mytime /\ prime' = prime
      BY <1>7 DEF Shift, Expire, program
    <2> QED BY <2>1, CalcKept
  <1>8. CASE UNCHANGED vars
    <2>1. mytime' = mytime /\ prime' = prime
      BY <1>8 DEF vars, program
    <2> QED BY <2>1, CalcKept
  <1> QED BY <1>1, <1>2, <1>3, <1>4, <1>5, <1>6, <1>7, <1>8 DEF Next, Processor

\* With room to spare in the greater unit, the smaller one stays below.
LEMMA Below ==
    ASSUME NEW k \in Nat \ {0}, NEW x \in 0 .. k - 1, NEW y \in Nat, NEW Y \in Nat, y < Y
    PROVE  k * y + x \in Nat /\ k * y + x < k * Y
  <1>1. Y - (y + 1) \in Nat /\ k * Y = k * y + k + k * (Y - (y + 1)) /\ k * (Y - (y + 1)) \in Nat /\ k * y \in Nat
    OBVIOUS
  <1> QED BY <1>1

LEMMA DayNumber ==
    \E Y, Z \in Nat : Z = 24 * Days /\ Y = 60 * Z /\ AllSeconds = 60 * Y
  <1>1. PICK Z \in Nat : Z = 24 * Days
    BY DEF Days
  <1>2. PICK Y \in Nat : Y = 60 * Z
    OBVIOUS
  <1> QED BY <1>1, <1>2, Zenon DEF AllSeconds

LEMMA EdgesCounted ==
    ASSUME NEW e \in Edges
    PROVE  e \in Nat /\ e < AllSeconds
  <1>1. PICK d \in {0, 9, 10, 99}, h \in {0, 9, 19, 23}, m \in {0, 9, 59}, s \in {0, 8, 9, 58, 59} :
           e = 60 * (60 * (24 * d + h) + m) + s
    BY DEF Edges
  <1>2. PICK Y, Z \in Nat : Z = 24 * Days /\ Y = 60 * Z /\ AllSeconds = 60 * Y
    BY DayNumber
  <1>3. d \in Nat /\ d < Days /\ Days \in Nat /\ h \in 0 .. 24 - 1 /\ m \in 0 .. 60 - 1 /\ s \in 0 .. 60 - 1
    BY DEF Days
  <1>4. 24 \in Nat \ {0} /\ 60 \in Nat \ {0}
    OBVIOUS
  <1>5. PICK z \in Nat : z = 24 * d + h /\ z < Z
    <2>1. 24 * d + h \in Nat /\ 24 * d + h < 24 * Days
      BY <1>3, <1>4, Below
    <2> QED BY <1>2, <2>1
  <1>6. PICK y \in Nat : y = 60 * z + m /\ y < Y
    <2>1. 60 * z + m \in Nat /\ 60 * z + m < 60 * Z
      BY <1>3, <1>4, <1>5, Below
    <2> QED BY <1>2, <2>1
  <1>7. 60 * y + s \in Nat /\ 60 * y + s < 60 * Y
    BY <1>3, <1>4, <1>6, Below
  <1>8. e = 60 * y + s
    BY <1>1, <1>5, <1>6
  <1> QED BY <1>2, <1>7, <1>8

LEMMA HourCounted ==
    ASSUME NEW s \in 3590 .. 3610
    PROVE  /\ s \in Nat /\ s < AllSeconds
           /\ (s + 1) % AllSeconds = s + 1
  <1>1. PICK Y, Z \in Nat : Z = 24 * Days /\ Y = 60 * Z /\ AllSeconds = 60 * Y
    BY DayNumber
  <1>2. Z >= 24
    BY <1>1 DEF Days
  <1>3. Y >= 1440
    BY <1>1, <1>2
  <1>4. AllSeconds \in Nat /\ AllSeconds >= 3612
    BY <1>1, <1>3
  <1>5. AllSeconds \in Nat \ {0} /\ s + 1 \in 0 .. AllSeconds - 1
    BY <1>4
  <1> QED BY <1>4, <1>5, ModSmall

LEMMA CalcHolds == CalcInv => CalculationsRight
  <1> SUFFICES ASSUME CalcInv PROVE CalculationsRight
    OBVIOUS
  <1>1. EdgesFollow
    BY EdgesCounted, CalendarTheorem DEF EdgesFollow
  <1>2. \A s \in 3590 .. 3610 : mytime = TimeOf(s) => tick(mytime) = TimeOf(s + 1)
    <2> SUFFICES ASSUME NEW s \in 3590 .. 3610 PROVE tick(TimeOf(s)) = TimeOf(s + 1)
      OBVIOUS
    <2>1. tick(TimeOf(s)) = TimeOf((s + 1) % AllSeconds)
      BY HourCounted, CalendarTheorem
    <2> QED BY <2>1, HourCounted
  <1>3. SmallPrimes
    <2>1. \A n \in 1 .. 60 : n \in Nat \ {0}
      OBVIOUS
    <2> QED BY <2>1, PrimeTheorem DEF SmallPrimes
  <1>4. prime \in Nat \ {0} /\ prime \in Nat
    BY DEF CalcInv
  <1>5. FirstOver(prime, nextprime(prime))
    BY <1>4, PrimeTheorem
  <1>6. DigitsPrintable
    BY Hexadecimal DEF DigitsPrintable
  <1>7. ValueOf(itoaconv(prime), 10) = prime
    BY <1>4, NumberTheorem
  <1>8. mytime.low \in 0 .. Half - 1
    BY Zenon DEF CalcInv
  <1>9. LET s == time2string(mytime.low)
        IN ValueOf(<<s[1], s[2], s[4], s[5]>>, 16) = mytime.low /\ s[3] = 58
    BY <1>8, TimeTextTheorem, Zenon
  <1> QED BY <1>1, <1>2, <1>3, <1>5, <1>6, <1>7, <1>9 DEF CalculationsRight

\* In every reachable state tick follows the calendar, nextprime gives the first
\* prime above its parameter, and the texts shown read back as the numbers they
\* were made from (mipslabfunc.c:37-77, 205-250, 298-328; labwork.S:22-87).
THEOREM CalculationsTheorem == Spec => []CalculationsRight
  <1>1. Spec => []CalcInv
    BY CalcInit, CalcNext, PTL DEF Spec
  <1> QED BY <1>1, CalcHolds, PTL

=============================================================================

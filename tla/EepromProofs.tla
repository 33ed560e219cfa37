---------------------------- MODULE EepromProofs ----------------------------
(***************************************************************************)
(* Theorems about EepromDriver, for every size of the chip, its pages and  *)
(* its addresses, every set of calls and every number of refused bytes,    *)
(* resets and power cycles: pages are stored in order, a full count means  *)
(* that all is stored, a read returns what is stored, and the driver with  *)
(* the chip implements PageStore.                                          *)
(*                                                                         *)
(* None of the invariants is inductive.  Shape says what the chip is ready *)
(* for at each place of a call.  DriverInv adds that the page latched is   *)
(* the part of the chunk sent so far, cell by cell round the page, that no *)
(* byte anywhere is newer than the current call, so that its stamps can    *)
(* only be where it put them, where the next page begins, how far a read   *)
(* has come, and that a refused byte has cost a byte of the count or is    *)
(* about to.  The addresses are sums reduced by three different divisors,  *)
(* so the proofs lean on the lemmas of Division.                           *)
(***************************************************************************)
EXTENDS EepromDriver, Division, TLAPS

-----------------------------------------------------------------------------
(* Where the bytes of a page go.                                           *)

\* The cell byte k of a page sent to address a ends up in.
PageCell(a, k) ==
    (((a % MemSize) \div PageSize) * PageSize) + (((a % PageSize) + k) % PageSize)

LEMMA Constants ==
    /\ MemSize \in Nat \ {0} /\ PageSize \in Nat \ {0} /\ MemSize % PageSize = 0
    /\ ByteBase \in Nat \ {0} /\ MaxNacks \in Nat
    /\ AddrSpace \in Nat \ {0} /\ AddrSpace % MemSize = 0 /\ MaxSize \in Nat
    /\ MaxCalls \in Nat /\ MaxResets \in Nat
  BY ChipAssumption, DriverAssumption

\* The page of an address lies within the memory.
LEMMA PageRange ==
    ASSUME NEW x \in 0 .. MemSize - 1, NEW r \in 0 .. PageSize - 1
    PROVE  /\ (x \div PageSize) * PageSize + r \in 0 .. MemSize - 1
           /\ ((x \div PageSize) * PageSize + r) \div PageSize = x \div PageSize
           /\ ((x \div PageSize) * PageSize + r) % PageSize = r
  <1> DEFINE c == MemSize \div PageSize
             p == x \div PageSize
             s == x % PageSize
  <1>1. MemSize = PageSize * c /\ c \in Nat
    BY Constants, DivMod
  <1>2. x = PageSize * p + s /\ p \in Nat /\ s \in 0 .. PageSize - 1
    <2>1. x \in Nat
      OBVIOUS
    <2> QED BY <2>1, Constants, DivMod
  <1>0. PageSize \in Nat \ {0} /\ MemSize \in Nat \ {0}
    BY Constants
  <1> HIDE DEF c, p, s
  <1>3. p < c
    <2> SUFFICES ASSUME p >= c PROVE FALSE
      BY <1>0, <1>1, <1>2
    <2>1. p - c \in Nat /\ PageSize * (p - c) >= 0 /\ PageSize * p = PageSize * c + PageSize * (p - c)
      BY <1>0, <1>1, <1>2
    <2> QED BY <1>0, <1>1, <1>2, <2>1
  <1>4. PageSize * (p + 1) <= PageSize * c
    <2>1. c - (p + 1) \in Nat /\ PageSize * (c - (p + 1)) >= 0 /\ PageSize * c = PageSize * (p + 1) + PageSize * (c - (p + 1))
      BY <1>0, <1>1, <1>2, <1>3
    <2> QED BY <1>0, <1>1, <1>2, <2>1
  <1>5. p * PageSize + r \in 0 .. MemSize - 1
    BY <1>0, <1>1, <1>2, <1>4
  <1>6. p * PageSize + r = PageSize * p + r /\ p * PageSize + r \in Nat /\ p \in Int
    BY <1>0, <1>2
  <1>7. (p * PageSize + r) % PageSize = r /\ (p * PageSize + r) \div PageSize = p
    BY <1>0, <1>6, ModUnique
  <1> QED BY <1>5, <1>7 DEF p

LEMMA PageCellAddr ==
    ASSUME NEW a \in Nat, NEW k \in Nat
    PROVE  /\ PageCell(a, k) \in Addr
           /\ NextInPage(PageCell(a, k)) = PageCell(a, k + 1)
  <1> DEFINE x == a % MemSize
             r == ((a % PageSize) + k) % PageSize
             base == (x \div PageSize) * PageSize
  <1>1. x \in 0 .. MemSize - 1
    BY Constants, DivMod
  <1>2. a % PageSize \in Nat /\ (a % PageSize) + k \in Nat
    BY Constants, DivMod
  <1>3. r \in 0 .. PageSize - 1
    <2> DEFINE z == (a % PageSize) + k
    <2>1. z \in Nat
      BY <1>2
    <2> HIDE DEF z
    <2>2. z % PageSize \in 0 .. PageSize - 1
      BY <2>1, Constants, DivMod
    <2> QED BY <2>2 DEF z
  <1>4. ((a % PageSize) + k) + 1 = (a % PageSize) + (k + 1)
    BY <1>2
  <1>5. (r + 1) % PageSize = ((a % PageSize) + (k + 1)) % PageSize
    BY <1>2, <1>4, Constants, ModAdd
  <1> HIDE DEF x, r
  <1>6. /\ base + r \in 0 .. MemSize - 1
        /\ (base + r) \div PageSize = x \div PageSize
        /\ (base + r) % PageSize = r
    BY <1>1, <1>3, PageRange
  <1>7. ((base + r) + 1) % PageSize = (r + 1) % PageSize
    <2> DEFINE y == base + r
    <2>1. y \in Nat
      BY <1>6
    <2> HIDE DEF y
    <2>2. ((y % PageSize) + 1) % PageSize = (y + 1) % PageSize
      BY <2>1, Constants, ModAdd
    <2> QED BY <1>6, <2>2 DEF y
  <1>8. PageCell(a, k) = base + r
    BY DEF PageCell, x, r
  <1>9. PageCell(a, k + 1) = base + ((r + 1) % PageSize)
    BY <1>5 DEF PageCell, x
  <1>10. NextInPage(base + r) = base + ((r + 1) % PageSize)
    BY <1>6, <1>7 DEF NextInPage
  <1> QED BY <1>6, <1>8, <1>9, <1>10 DEF Addr

LEMMA PageCellStart ==
    ASSUME NEW a \in Nat
    PROVE  PageCell(a, 0) = a % MemSize
  <1> DEFINE x == a % MemSize
  <1>1. x \in 0 .. MemSize - 1 /\ x \in Nat
    BY Constants, DivMod
  <1>2. a % PageSize \in 0 .. PageSize - 1 /\ a % PageSize \in Nat
    BY Constants, DivMod
  <1>3. ((a % PageSize) + 0) % PageSize = a % PageSize
    <2> DEFINE r == a % PageSize
    <2>2. r \in 0 .. PageSize - 1 /\ r \in Nat
      BY <1>2
    <2> HIDE DEF r
    <2>1. r % PageSize = r /\ r + 0 = r
      BY <2>2, Constants, ModSmall
    <2> QED BY <2>1 DEF r
  <1>4. x % PageSize = a % PageSize
    BY Constants, ModMod
  <1>5. x = PageSize * (x \div PageSize) + (x % PageSize) /\ x \div PageSize \in Nat
    <2> HIDE DEF x
    <2> QED BY <1>1, Constants, DivMod
  <1> DEFINE p == x \div PageSize
  <1>6. PageCell(a, 0) = p * PageSize + (x % PageSize)
    BY <1>3, <1>4 DEF PageCell
  <1>7. p \in Nat /\ x = PageSize * p + (x % PageSize)
    BY <1>5
  <1>8. PageSize * p = p * PageSize
    <2> HIDE DEF p
    <2> QED BY <1>7, Constants
  <1> QED BY <1>6, <1>7, <1>8

\* The cells of one page are different.
LEMMA PageCellInjective ==
    ASSUME NEW a \in Nat, NEW j \in 0 .. PageSize - 1, NEW k \in 0 .. PageSize - 1,
           PageCell(a, j) = PageCell(a, k)
    PROVE  j = k
  <1> DEFINE off == a % PageSize
             base == ((a % MemSize) \div PageSize) * PageSize
             u == (off + j) % PageSize
             v == (off + k) % PageSize
  <1>1. off \in Nat /\ off + j \in Nat /\ off + k \in Nat
    BY Constants, DivMod
  <1>2. base \in Nat
    <2> DEFINE x == a % MemSize
    <2>1. x \in Nat
      BY Constants, DivMod
    <2> HIDE DEF x
    <2>2. x \div PageSize \in Nat
      BY <2>1, Constants, DivMod
    <2>3. (x \div PageSize) * PageSize \in Nat
      BY <2>2, Constants
    <2> QED BY <2>3 DEF x
  <1>3. base + u = base + v
    BY DEF PageCell
  <1> HIDE DEF off, base
  <1>4. u \in Nat /\ v \in Nat
    <2> DEFINE y == off + j
               z == off + k
    <2>1. y \in Nat /\ z \in Nat
      BY <1>1
    <2> HIDE DEF y, z
    <2>2. y % PageSize \in Nat /\ z % PageSize \in Nat
      BY <2>1, Constants, DivMod
    <2> QED BY <2>2 DEF y, z
  <1>5. u = v
    <2> HIDE DEF u, v
    <2> QED BY <1>2, <1>3, <1>4
  <1> QED BY <1>1, <1>5, Constants, ModInjective

\* As long as the page is not left, its bytes go to the addresses one after the
\* other.
LEMMA PageCellFlat ==
    ASSUME NEW a \in Nat, NEW k \in Nat, (a % PageSize) + k < PageSize
    PROVE  PageCell(a, k) = (a % MemSize) + k /\ PageCell(a, k) = (a + k) % MemSize
  <1> DEFINE off == a % PageSize
             base == ((a % MemSize) \div PageSize) * PageSize
  <1>1. off \in Nat /\ off + k \in 0 .. PageSize - 1
    BY Constants, DivMod
  <1>2. (off + k) % PageSize = off + k
    <2> DEFINE y == off + k
    <2>1. y \in 0 .. PageSize - 1
      BY <1>1
    <2> HIDE DEF y
    <2>2. y % PageSize = y
      BY <2>1, Constants, ModSmall
    <2> QED BY <2>2 DEF y
  <1>3. (off + 0) % PageSize = off
    <2>1. off + 0 = off /\ off \in 0 .. PageSize - 1
      BY Constants, DivMod
    <2> HIDE DEF off
    <2> QED BY <2>1, Constants, ModSmall
  <1>4. base \in Nat
    <2> DEFINE x == a % MemSize
    <2>1. x \in Nat
      BY Constants, DivMod
    <2> HIDE DEF x
    <2>2. x \div PageSize \in Nat
      BY <2>1, Constants, DivMod
    <2>3. (x \div PageSize) * PageSize \in Nat
      BY <2>2, Constants
    <2> QED BY <2>3 DEF x
  <1>5. PageCell(a, k) = base + (off + k)
    BY <1>2 DEF PageCell
  <1>6. a % MemSize = base + off
    BY <1>3, PageCellStart DEF PageCell
  <1>7. PageCell(a, k) = (a % MemSize) + k
    <2> HIDE DEF base, off
    <2> QED BY <1>1, <1>4, <1>5, <1>6
  <1>8. (a % MemSize) + k \in 0 .. MemSize - 1
    BY <1>7, PageCellAddr DEF Addr
  <1>9. ((a % MemSize) + k) % MemSize = (a % MemSize) + k
    <2> DEFINE y == (a % MemSize) + k
    <2>1. y \in 0 .. MemSize - 1
      BY <1>8
    <2> HIDE DEF y
    <2>2. y % MemSize = y
      BY <2>1, Constants, ModSmall
    <2> QED BY <2>2 DEF y
  <1>10. ((a % MemSize) + k) % MemSize = (a + k) % MemSize
    BY Constants, ModAdd
  <1> QED BY <1>7, <1>9, <1>10
-----------------------------------------------------------------------------
(* The inductive invariant.                                                *)

Writing == op = "write"
Reading == op = "read"

\* The places of a call, and the counts that go with them.
CallShape ==
    /\ pc # "idle" => op # "none"
    /\ op # "none" => cut = "none"
    /\ Writing => /\ pc \in {"idle", "begin", "control", "high", "low", "data", "stop"}
                  /\ size <= MaxSize /\ calls >= 1
                  /\ pc = "idle" <=> left = 0
                  /\ written <= size - left
                  /\ pc \notin {"idle", "data", "stop"} => i = 0
                  /\ pc = "data" => i < Chunk
                  /\ pc = "stop" => i <= Chunk
    /\ Reading => /\ pc \notin {"data", "stop"}
                  /\ addr = from /\ size >= 1 /\ i = Len(got)
                  /\ pc \in {"begin", "control", "high", "low", "turn", "restart",
                             "readcontrol"} => i = 0
                  /\ pc = "receive" => i < size
                  /\ pc \in {"nack", "readstop", "idle"} => i = size

\* What the chip is ready for at each place of a call.
BusShape ==
    /\ pc \in {"high", "low", "data", "stop", "turn", "restart", "readcontrol",
              "receive", "nack", "readstop"} => ~busy
    /\ pc \in {"control", "readcontrol"} => mode = "control"
    /\ pc = "high" => mode = "high"
    /\ pc = "low" => mode \in {"low", "deaf"} /\ (~refused => mode = "low")
    /\ pc \in {"data", "turn"} => mode \in {"in", "deaf"} /\ (~refused => mode = "in")
    /\ pc = "receive" => mode = "out"

\* The latch is empty up to the data of a page.
LatchShape ==
    /\ pc \in {"control", "high", "low", "turn", "restart", "readcontrol", "receive",
               "nack", "readstop"} => busy \/ latch = NoLatch

Shape == TypeOK /\ CallShape /\ BusShape /\ LatchShape

\* The page latched is the part of the chunk sent so far, in the page of addr.
PageLatched ==
    /\ pc = "low" /\ mode = "low" => ptr = ((addr \div ByteBase) * ByteBase) % MemSize
    /\ pc = "data" /\ mode = "in" => ptr = PageCell(addr, i)
    /\ pc \in {"data", "stop"} =>
           /\ \A j \in 0 .. i - 1 : latch[PageCell(addr, j)] = Stamp(Done + j)
           /\ \A a \in Addr : latch[a] # Empty => \E j \in 0 .. i - 1 : a = PageCell(addr, j)

\* No byte is newer than the last of the current call.
Known == calls * MaxSize
NoneNewer == \A a \in Addr : mem[a] <= Known /\ latch[a] <= Known

\* Up to here the bytes read are those stored, and the counter stands behind them.
ReadSoFar ==
    Reading /\ ~refused =>
        /\ pc \in {"turn", "restart", "readcontrol", "receive"} => ptr = Place(i)
        /\ \A k \in 1 .. Len(got) : got[k] = Settled[Place(k - 1)]

\* The next page of a write begins where the bytes done end; that of an aligned
\* write does not straddle a page.
PagePlaced ==
    Writing => /\ addr % MemSize = Place(Done)
               /\ Aligned /\ left > 0 => (addr % PageSize) + Chunk <= PageSize
               /\ left > 0 => Done % PageSize = 0
               /\ pc = "stop" /\ ~refused => i = Chunk

\* A call in which a byte was refused has lost a byte or is about to.
RefusalCosts ==
    Writing /\ refused =>
        \/ written < Done
        \/ pc \in {"low", "data"} /\ mode = "deaf" /\ i = 0
        \/ pc = "stop" /\ i < Chunk

\* While the chip stores the last page of a write, the bytes it replaces are those
\* of before the write: this is what a torn page goes back to.
LastPending ==
    (Wrote /\ Aligned /\ size <= MemSize /\ busy /\ Done > 0) =>
        \A a \in Addr : latch[a] # Empty =>
            /\ mem[a] = was[a]
            /\ \E k \in 0 .. Done - 1 : a = Place(k) /\ SamePage(k, Done - 1)

InOrder == PagesInOrder /\ LastPending

DriverInv == PageLatched /\ NoneNewer /\ ReadSoFar /\ PagePlaced /\ RefusalCosts /\ InOrder
-----------------------------------------------------------------------------
(* What the chip does with a byte.                                         *)

LEMMA RefuseEffect ==
    ASSUME nacks \in 0 .. MaxNacks, Refuse
    PROVE  /\ mode' = "deaf" /\ UNCHANGED <<mem, latch, ptr, busy>>
           /\ nacks' \in 0 .. MaxNacks
  BY Constants DEF Refuse

LEMMA ControlEffect ==
    ASSUME nacks \in 0 .. MaxNacks, NEW read \in BOOLEAN, NEW ack \in BOOLEAN, Control(read, ack)
    PROVE  /\ UNCHANGED <<mem, latch, ptr, busy>> /\ nacks' \in 0 .. MaxNacks
           /\ ack => mode = "control" /\ ~busy /\ mode' = IF read THEN "out" ELSE "high"
           /\ ~ack => mode' = "deaf"
  BY RefuseEffect DEF Control

LEMMA ByteInEffect ==
    ASSUME nacks \in 0 .. MaxNacks, NEW b, NEW ack \in BOOLEAN, ByteIn(b, ack)
    PROVE  /\ UNCHANGED <<mem, busy>> /\ nacks' \in 0 .. MaxNacks
           /\ ack => \/ /\ mode = "high" /\ mode' = "low"
                        /\ ptr' = (b * ByteBase) % MemSize /\ latch' = latch
                     \/ /\ mode = "low" /\ mode' = "in"
                        /\ ptr' = (ptr + b) % MemSize /\ latch' = latch
                     \/ /\ mode = "in" /\ mode' = "in"
                        /\ latch' = [latch EXCEPT ![ptr] = b] /\ ptr' = NextInPage(ptr)
           /\ ~ack => mode' = "deaf" /\ UNCHANGED <<latch, ptr>>
  <1>1. CASE ~ack /\ Refuse
    BY <1>1, RefuseEffect
  <1>2. CASE ~ (~ack /\ Refuse)
    BY <1>2 DEF ByteIn
  <1> QED BY <1>1, <1>2

LEMMA ChunkType ==
    ASSUME left \in Nat
    PROVE  /\ Chunk \in 0 .. left /\ Chunk <= PageSize /\ (left > 0 => Chunk >= 1)
           /\ Chunk = left \/ (Chunk = PageSize /\ left > PageSize)
  BY Constants DEF Chunk, Smaller

LEMMA StampType ==
    ASSUME calls \in Nat, calls >= 1, NEW k \in 0 .. MaxSize - 1
    PROVE  Stamp(k) \in Nat /\ Stamp(k) >= 1 /\ Stamp(k) <= Known
  <1> DEFINE base == (calls - 1) * MaxSize
  <1>1. base \in Nat /\ calls * MaxSize = base + MaxSize
    BY Constants
  <1>2. Stamp(k) = base + k + 1 /\ Known = calls * MaxSize
    BY DEF Stamp, Known
  <1> HIDE DEF base
  <1> QED BY <1>1, <1>2, Constants

LEMMA LatchType ==
    /\ NoLatch \in [Addr -> Nat \cup {Empty}]
    /\ \A a \in Addr : NoLatch[a] = Empty
    /\ Empty \notin Nat /\ 0 \in Addr
  BY Constants DEF NoLatch, Empty, Addr

LEMMA MergedType ==
    ASSUME mem \in [Addr -> Nat], latch \in [Addr -> Nat \cup {Empty}]
    PROVE  /\ Merged(mem, latch) \in [Addr -> Nat]
           /\ \A a \in Addr : Merged(mem, latch)[a] = IF latch[a] = Empty THEN mem[a] ELSE latch[a]
  BY LatchType DEF Merged

LEMMA AddressType ==
    ASSUME addr \in 0 .. AddrSpace - 1
    PROVE  /\ addr \in Nat /\ addr \div ByteBase \in Nat /\ addr % ByteBase \in Nat
           /\ addr = ByteBase * (addr \div ByteBase) + (addr % ByteBase)
           /\ addr % MemSize \in Addr
  <1>1. addr \in Nat
    BY Constants
  <1>2. /\ addr = ByteBase * (addr \div ByteBase) + (addr % ByteBase)
        /\ addr \div ByteBase \in Nat /\ addr % ByteBase \in Nat
    BY <1>1, Constants, DivMod
  <1>3. addr % MemSize \in 0 .. MemSize - 1
    BY <1>1, Constants, DivMod
  <1> QED BY <1>1, <1>2, <1>3 DEF Addr

LEMMA CounterType ==
    ASSUME NEW p \in Addr
    PROVE  /\ (p + 1) % MemSize \in Addr /\ NextInPage(p) \in Addr
           /\ \A b \in Nat : (p + b) % MemSize \in Addr /\ (b * ByteBase) % MemSize \in Addr
  <1>1. p \in Nat /\ p \in 0 .. MemSize - 1 /\ p + 1 \in Nat
    BY Constants DEF Addr
  <1>2. \A n \in Nat : n % MemSize \in Addr
    BY Constants, DivMod DEF Addr
  <1>3. \A b \in Nat : p + b \in Nat /\ b * ByteBase \in Nat
    BY <1>1, Constants
  <1>4. (p + 1) % PageSize \in 0 .. PageSize - 1
    <2> DEFINE q == p + 1
    <2>1. q \in Nat
      BY <1>1
    <2> HIDE DEF q
    <2>2. q % PageSize \in 0 .. PageSize - 1
      BY <2>1, Constants, DivMod
    <2> QED BY <2>2 DEF q
  <1>5. NextInPage(p) \in 0 .. MemSize - 1
    BY <1>1, <1>4, PageRange DEF NextInPage
  <1> QED BY <1>1, <1>2, <1>3, <1>5 DEF Addr

LEMMA SettledType ==
    ASSUME mem \in [Addr -> Nat], latch \in [Addr -> Nat \cup {Empty}]
    PROVE  /\ Settled \in [Addr -> Nat]
           /\ ~busy => Settled = mem
           /\ busy => Settled = Merged(mem, latch)
  BY MergedType DEF Settled

-----------------------------------------------------------------------------
(* Every step keeps the shape of the call.                                 *)

LEMMA ChipTyped ==
    ASSUME TypeOK
    PROVE  /\ mem \in [Addr -> Nat] /\ latch \in [Addr -> Nat \cup {Empty}] /\ ptr \in Addr
           /\ busy \in BOOLEAN /\ nacks \in 0 .. MaxNacks
           /\ addr \in 0 .. AddrSpace - 1 /\ addr \in Nat /\ from \in 0 .. AddrSpace - 1 /\ from \in Nat
           /\ size \in Nat /\ left \in 0 .. size /\ left \in Nat /\ i \in 0 .. size /\ i \in Nat
           /\ written \in Nat /\ calls \in Nat
           /\ got \in Seq(Nat \cup {Empty})
  BY Constants DEF TypeOK

LEMMA BeginShape ==
    ASSUME Shape, Begin
    PROVE  Shape'
  <1> USE DEF Shape
  <1>1. TypeOK'
    BY LatchType DEF Begin, Start, TypeOK, driver, rest
  <1>2. CallShape'
    BY ChipTyped DEF Begin, Start, driver, rest, CallShape, Writing, Reading
  <1>3. BusShape'
    BY ChipTyped DEF Begin, Start, driver, rest, BusShape, LatchShape
  <1>4. LatchShape'
    BY ChipTyped DEF Begin, Start, driver, rest, BusShape, LatchShape
  <1> QED BY <1>1, <1>2, <1>3, <1>4

LEMMA SendControlShape ==
    ASSUME Shape, SendControl
    PROVE  Shape'
  <1> USE DEF Shape
  <1>1. PICK ack \in BOOLEAN : Control(FALSE, ack) /\ pc' = IF ack THEN "high" ELSE "begin"
    BY DEF SendControl
  <1>2. UNCHANGED <<driver, rest>> /\ pc = "control"
    BY DEF SendControl
  <1>3. /\ UNCHANGED <<mem, latch, ptr, busy>> /\ nacks' \in 0 .. MaxNacks
        /\ ack => ~busy /\ mode' = "high"
        /\ ~ack => mode' = "deaf"
    BY <1>1, ChipTyped, ControlEffect
  <1>4. TypeOK'
    BY <1>1, <1>2, <1>3 DEF TypeOK, driver, rest
  <1>5. CallShape'
    BY <1>1, <1>2 DEF driver, rest, CallShape, Writing, Reading
  <1>6. BusShape'
    BY <1>1, <1>2, <1>3 DEF driver, rest, BusShape
  <1>7. LatchShape'
    BY <1>1, <1>2, <1>3 DEF LatchShape
  <1> QED BY <1>4, <1>5, <1>6, <1>7

LEMMA SendHighShape ==
    ASSUME Shape, SendHigh
    PROVE  Shape'
  <1> USE DEF Shape
  <1>1. PICK ack \in BOOLEAN : ByteIn(addr \div ByteBase, ack) /\ refused' = (refused \/ ~ack)
    BY DEF SendHigh
  <1>2. /\ pc = "high" /\ pc' = "low"
        /\ UNCHANGED <<op, from, size, addr, left, i, written, got, rest>>
    BY DEF SendHigh
  <1>3. addr \div ByteBase \in Nat
    BY ChipTyped, AddressType
  <1>4. /\ UNCHANGED <<mem, busy>> /\ nacks' \in 0 .. MaxNacks
        /\ ack => \/ /\ mode = "high" /\ mode' = "low"
                     /\ ptr' = ((addr \div ByteBase) * ByteBase) % MemSize /\ latch' = latch
                  \/ /\ mode = "low" /\ mode' = "in"
                     /\ ptr' = (ptr + (addr \div ByteBase)) % MemSize /\ latch' = latch
                  \/ mode = "in"
        /\ ~ack => mode' = "deaf" /\ UNCHANGED <<latch, ptr>>
    BY <1>1, ChipTyped, ByteInEffect
  <1>5. /\ latch' = latch /\ ptr' \in Addr /\ ~busy /\ mode' \in {"low", "deaf"}
        /\ ~refused' => mode' = "low"
    BY <1>1, <1>2, <1>3, <1>4, ChipTyped, CounterType DEF BusShape
  <1>6. TypeOK'
    BY <1>1, <1>2, <1>4, <1>5 DEF TypeOK, rest
  <1>7. CallShape'
    BY <1>2 DEF rest, CallShape, Writing, Reading
  <1>8. BusShape'
    BY <1>2, <1>4, <1>5 DEF BusShape
  <1>9. LatchShape'
    BY <1>2, <1>4, <1>5 DEF LatchShape
  <1> QED BY <1>6, <1>7, <1>8, <1>9

LEMMA SendLowShape ==
    ASSUME Shape, SendLow
    PROVE  Shape'
  <1> USE DEF Shape
  <1>1. PICK ack \in BOOLEAN : ByteIn(addr % ByteBase, ack) /\ refused' = (refused \/ ~ack)
    BY DEF SendLow
  <1>2. /\ pc = "low" /\ pc' = (IF op = "write" THEN "data" ELSE "turn")
        /\ UNCHANGED <<op, from, size, addr, left, i, written, got, rest>>
    BY DEF SendLow
  <1>3. addr % ByteBase \in Nat
    BY ChipTyped, AddressType
  <1>4. /\ UNCHANGED <<mem, busy>> /\ nacks' \in 0 .. MaxNacks
        /\ ack => \/ /\ mode = "high" /\ mode' = "low"
                     /\ ptr' = ((addr % ByteBase) * ByteBase) % MemSize /\ latch' = latch
                  \/ /\ mode = "low" /\ mode' = "in"
                     /\ ptr' = (ptr + (addr % ByteBase)) % MemSize /\ latch' = latch
                  \/ mode = "in"
        /\ ~ack => mode' = "deaf" /\ UNCHANGED <<latch, ptr>>
    BY <1>1, ChipTyped, ByteInEffect
  <1>5. /\ latch' = latch /\ ptr' \in Addr /\ ~busy /\ mode' \in {"in", "deaf"}
        /\ ~refused' => mode' = "in"
    BY <1>1, <1>2, <1>3, <1>4, ChipTyped, CounterType DEF BusShape
  <1>6. TypeOK'
    BY <1>1, <1>2, <1>4, <1>5 DEF TypeOK, rest
  <1>7. CallShape'
    <2>1. Chunk' = Chunk /\ (op = "write" => i = 0 /\ Chunk >= 1)
      BY <1>2, ChipTyped, ChunkType DEF CallShape, Writing, Chunk
    <2>2. op \in {"write", "read"}
      BY <1>2 DEF CallShape, TypeOK
    <2>3. CASE op = "write"
      <3>1. pc' = "data" /\ op' = "write" /\ i' < Chunk'
        BY <1>2, <2>1, <2>3, ChunkType, ChipTyped
      <3> QED BY <1>2, <2>3, <3>1 DEF rest, CallShape, Writing, Reading
    <2>4. CASE op = "read"
      <3>1. pc' = "turn" /\ op' = "read"
        BY <1>2, <2>4
      <3> QED BY <1>2, <2>4, <3>1 DEF rest, CallShape, Writing, Reading
    <2> QED BY <2>2, <2>3, <2>4
  <1>8. BusShape'
    BY <1>2, <1>4, <1>5 DEF BusShape
  <1>9. LatchShape'
    BY <1>2, <1>4, <1>5 DEF LatchShape
  <1> QED BY <1>6, <1>7, <1>8, <1>9

LEMMA SendDataShape ==
    ASSUME Shape, SendData
    PROVE  Shape'
  <1> USE DEF Shape
  <1> DEFINE b == Stamp(size - left + i)
  <1>1. PICK ack \in BOOLEAN :
            /\ ByteIn(b, ack) /\ refused' = (refused \/ ~ack)
            /\ i' = IF ack THEN i + 1 ELSE i
            /\ pc' = IF ack /\ i' < Chunk THEN "data" ELSE "stop"
    BY DEF SendData
  <1>2. /\ pc = "data" /\ op = "write"
        /\ UNCHANGED <<op, from, size, addr, left, written, got, rest>>
    BY DEF SendData, CallShape, Reading, TypeOK
  <1>3. /\ i < Chunk /\ Chunk \in 0 .. left /\ size <= MaxSize /\ calls >= 1
        /\ left > 0 /\ mode \in {"in", "deaf"} /\ (~refused => mode = "in") /\ ~busy
    BY <1>2, ChipTyped, ChunkType DEF CallShape, Writing, BusShape
  <1>4. b \in Nat
    <2>1. size - left + i \in 0 .. MaxSize - 1
      BY <1>3, ChipTyped, Constants
    <2> QED BY <1>3, <2>1, ChipTyped, StampType
  <1> HIDE DEF b
  <1>5. /\ UNCHANGED <<mem, busy>> /\ nacks' \in 0 .. MaxNacks
        /\ ack => /\ mode = "in" /\ mode' = "in"
                  /\ latch' = [latch EXCEPT ![ptr] = b] /\ ptr' = NextInPage(ptr)
        /\ ~ack => mode' = "deaf" /\ UNCHANGED <<latch, ptr>>
    BY <1>1, <1>3, ChipTyped, ByteInEffect
  <1>6. Chunk' = Chunk
    BY <1>2 DEF Chunk
  <1>7. i' \in 0 .. Chunk /\ (pc' = "data" => i' < Chunk) /\ pc' \in {"data", "stop"}
    BY <1>1, <1>3, ChipTyped
  <1>8. TypeOK'
    <2>1. latch' \in [Addr -> Nat \cup {Empty}] /\ ptr' \in Addr
      BY <1>4, <1>5, ChipTyped, CounterType
    <2>2. i' \in 0 .. size
      BY <1>3, <1>7, ChipTyped
    <2>3. mode' \in {"in", "deaf"} /\ refused' \in BOOLEAN
      BY <1>1, <1>5
    <2> QED BY <1>2, <1>5, <1>7, <2>1, <2>2, <2>3 DEF TypeOK, rest
  <1>9. CallShape'
    BY <1>2, <1>3, <1>6, <1>7, ChipTyped DEF rest, CallShape, Writing, Reading
  <1>10. BusShape'
    BY <1>1, <1>2, <1>3, <1>5, <1>7 DEF BusShape
  <1>11. LatchShape'
    BY <1>7 DEF LatchShape
  <1> QED BY <1>8, <1>9, <1>10, <1>11

LEMMA StopPageShape ==
    ASSUME Shape, StopPage
    PROVE  Shape'
  <1> USE DEF Shape
  <1>1. /\ pc = "stop" /\ mode' = "idle" /\ UNCHANGED <<mem, latch, ptr, nacks>>
        /\ busy' = (busy \/ latch # NoLatch)
        /\ written' = written + i /\ addr' = (addr + Chunk) % AddrSpace
        /\ left' = left - Chunk /\ i' = 0
        /\ pc' = (IF left' = 0 THEN "idle" ELSE "begin")
        /\ UNCHANGED <<op, from, size, got, refused, calls, resets, held, was, cut>>
    BY DEF StopPage, EndPage, Stop, rest
  <1>2. op = "write"
    BY <1>1 DEF CallShape, Reading, TypeOK
  <1>3. /\ i <= Chunk /\ Chunk \in 0 .. left /\ left > 0 /\ Chunk >= 1
        /\ written <= size - left
    BY <1>1, <1>2, ChipTyped, ChunkType DEF CallShape, Writing
  <1>4. /\ left' \in 0 .. size /\ written' \in 0 .. size /\ written' <= size - left'
        /\ pc' \in {"idle", "begin"}
    <2>1. left' = left - Chunk /\ written' = written + i /\ pc' \in {"idle", "begin"}
      BY <1>1
    <2>2. /\ left \in Nat /\ left <= size /\ i \in Nat /\ written \in Nat /\ size \in Nat
          /\ Chunk \in Nat /\ Chunk <= left /\ i <= Chunk /\ written <= size - left
      BY <1>3, ChipTyped
    <2> HIDE DEF Shape
    <2> QED BY <2>1, <2>2
  <1>5. addr' \in 0 .. AddrSpace - 1
    <2> DEFINE y == addr + Chunk
    <2>1. y \in Nat
      BY <1>3, ChipTyped
    <2> HIDE DEF y
    <2>2. y % AddrSpace \in 0 .. AddrSpace - 1
      BY <2>1, Constants, DivMod
    <2> QED BY <1>1, <2>2 DEF y
  <1>6. TypeOK'
    <2>1. busy' \in BOOLEAN /\ i' \in 0 .. size
      BY <1>1, ChipTyped
    <2> QED BY <1>1, <1>4, <1>5, <2>1 DEF TypeOK
  <1>7. CallShape'
    BY <1>1, <1>2, <1>4 DEF CallShape, Writing, Reading
  <1>8. BusShape' /\ LatchShape'
    BY <1>4 DEF BusShape, LatchShape
  <1> QED BY <1>6, <1>7, <1>8

LEMMA StopAddressShape ==
    ASSUME Shape, StopAddress
    PROVE  Shape'
  <1> USE DEF Shape
  <1>1. TypeOK'
    BY LatchType DEF StopAddress, Stop, TypeOK, driver, rest
  <1>2. CallShape'
    BY ChipTyped DEF StopAddress, Stop, driver, rest, CallShape, Writing, Reading
  <1>3. BusShape'
    BY ChipTyped DEF StopAddress, Stop, driver, rest, BusShape, LatchShape
  <1>4. LatchShape'
    BY ChipTyped DEF StopAddress, Stop, driver, rest, BusShape, LatchShape
  <1> QED BY <1>1, <1>2, <1>3, <1>4

LEMMA BeginReadShape ==
    ASSUME Shape, BeginRead
    PROVE  Shape'
  <1> USE DEF Shape
  <1>1. TypeOK'
    BY LatchType DEF BeginRead, Start, TypeOK, driver, rest
  <1>2. CallShape'
    BY ChipTyped DEF BeginRead, Start, driver, rest, CallShape, Writing, Reading
  <1>3. BusShape'
    BY ChipTyped DEF BeginRead, Start, driver, rest, BusShape, LatchShape
  <1>4. LatchShape'
    BY ChipTyped DEF BeginRead, Start, driver, rest, BusShape, LatchShape
  <1> QED BY <1>1, <1>2, <1>3, <1>4

LEMMA SendReadControlShape ==
    ASSUME Shape, SendReadControl
    PROVE  Shape'
  <1> USE DEF Shape
  <1>1. PICK ack \in BOOLEAN : Control(TRUE, ack) /\ pc' = IF ack THEN "receive" ELSE "restart"
    BY DEF SendReadControl
  <1>2. UNCHANGED <<driver, rest>> /\ pc = "readcontrol"
    BY DEF SendReadControl
  <1>3. /\ UNCHANGED <<mem, latch, ptr, busy>> /\ nacks' \in 0 .. MaxNacks
        /\ ack => ~busy /\ mode' = "out"
        /\ ~ack => mode' = "deaf"
    BY <1>1, ChipTyped, ControlEffect
  <1>4. TypeOK'
    BY <1>1, <1>2, <1>3 DEF TypeOK, driver, rest
  <1>5. CallShape'
    BY <1>1, <1>2, ChipTyped DEF driver, rest, CallShape, Writing, Reading
  <1>6. BusShape'
    BY <1>1, <1>2, <1>3 DEF driver, rest, BusShape
  <1>7. LatchShape'
    BY <1>1, <1>2, <1>3 DEF LatchShape
  <1> QED BY <1>4, <1>5, <1>6, <1>7

LEMMA ReceiveShape ==
    ASSUME Shape, Receive
    PROVE  Shape'
  <1> USE DEF Shape
  <1>1. /\ pc = "receive" /\ mode = "out" /\ ~busy /\ op = "read" /\ i = Len(got) /\ i < size
    BY DEF Receive, CallShape, Writing, Reading, BusShape, TypeOK
  <1>2. /\ ptr' = (ptr + 1) % MemSize /\ UNCHANGED <<mem, latch, mode, busy, nacks>>
        /\ got' = Append(got, mem[ptr]) /\ i' = i + 1
        /\ pc' = (IF i' < size THEN "receive" ELSE "nack")
        /\ UNCHANGED <<op, from, size, addr, left, written, refused, calls, resets, held, was, cut>>
    BY <1>1 DEF Receive, ByteOut, Sent, rest
  <1>3. mem[ptr] \in Nat \cup {Empty} /\ ptr' \in Addr
    BY <1>2, ChipTyped, CounterType
  <1>4. got' \in Seq(Nat \cup {Empty}) /\ Len(got') = i + 1
    BY <1>1, <1>2, <1>3, ChipTyped
  <1>5. i' \in 0 .. size /\ pc' \in {"receive", "nack"} /\ (pc' = "receive" => i' < size)
        /\ (pc' = "nack" => i' = size)
    BY <1>1, <1>2, ChipTyped
  <1>6. TypeOK'
    BY <1>2, <1>3, <1>4, <1>5 DEF TypeOK
  <1>7. CallShape'
    BY <1>1, <1>2, <1>4, <1>5 DEF CallShape, Writing, Reading
  <1>8. BusShape' /\ LatchShape'
    BY <1>1, <1>2, <1>5 DEF BusShape, LatchShape
  <1> QED BY <1>6, <1>7, <1>8

LEMMA NackShape ==
    ASSUME Shape, Nack
    PROVE  Shape'
  <1> USE DEF Shape
  <1>1. TypeOK'
    BY LatchType DEF Nack, MasterNack, TypeOK, driver, rest
  <1>2. CallShape'
    BY ChipTyped DEF Nack, MasterNack, driver, rest, CallShape, Writing, Reading
  <1>3. BusShape'
    BY ChipTyped DEF Nack, MasterNack, driver, rest, BusShape, LatchShape
  <1>4. LatchShape'
    BY ChipTyped DEF Nack, MasterNack, driver, rest, BusShape, LatchShape
  <1> QED BY <1>1, <1>2, <1>3, <1>4

LEMMA StopReadShape ==
    ASSUME Shape, StopRead
    PROVE  Shape'
  <1> USE DEF Shape
  <1>1. TypeOK'
    BY LatchType DEF StopRead, Stop, TypeOK, driver, rest
  <1>2. CallShape'
    BY ChipTyped DEF StopRead, Stop, driver, rest, CallShape, Writing, Reading
  <1>3. BusShape'
    BY ChipTyped DEF StopRead, Stop, driver, rest, BusShape, LatchShape
  <1>4. LatchShape'
    BY ChipTyped DEF StopRead, Stop, driver, rest, BusShape, LatchShape
  <1> QED BY <1>1, <1>2, <1>3, <1>4

LEMMA CycleEndsShape ==
    ASSUME Shape, CycleEnds
    PROVE  Shape'
  <1> USE DEF Shape
  <1>1. /\ busy /\ busy' = FALSE /\ mem' = Merged(mem, latch) /\ latch' = NoLatch
        /\ UNCHANGED <<ptr, mode, nacks, pc>> /\ UNCHANGED <<driver, rest>>
    BY DEF CycleEnds, WriteCycleEnds
  <1>2. TypeOK'
    BY <1>1, ChipTyped, LatchType, MergedType DEF TypeOK, driver, rest
  <1>3. CallShape'
    BY <1>1 DEF driver, rest, CallShape, Writing, Reading, Chunk
  <1>4. BusShape' /\ LatchShape'
    BY <1>1 DEF BusShape, LatchShape, driver
  <1> QED BY <1>2, <1>3, <1>4

LEMMA AbortShape ==
    ASSUME Shape, NEW tears, Aborted(tears), was' \in [Addr -> Nat], resets' \in 0 .. MaxResets, held' \in BOOLEAN,
           mem' \in [Addr -> Nat], latch' \in [Addr -> Nat \cup {Empty}], ptr' \in Addr,
           mode' \in {mode, "idle"}, busy' \in BOOLEAN, nacks' = nacks
    PROVE  Shape'
  <1> USE DEF Shape
  <1>1. /\ pc' = "idle" /\ op' = "none"
        /\ UNCHANGED <<from, size, addr, left, i, written, got, refused, calls>>
        /\ cut' \in {"none", "whole", "torn"}
    BY DEF Aborted
  <1>2. TypeOK'
    BY <1>1 DEF TypeOK
  <1>3. CallShape' /\ BusShape' /\ LatchShape'
    BY <1>1 DEF CallShape, BusShape, LatchShape, Writing, Reading
  <1> QED BY <1>2, <1>3

LEMMA ResetShape ==
    ASSUME Shape, Reset
    PROVE  Shape'
  <1>1. resets' \in 0 .. MaxResets
    BY Constants DEF Reset, Shape, TypeOK
  <1>2. held' \in BOOLEAN
    BY DEF Reset, Shape, TypeOK
  <1>3. /\ Aborted(FALSE) /\ UNCHANGED chip /\ was' \in [Addr -> Nat]
    BY DEF Reset, Shape, TypeOK
  <1> QED BY <1>1, <1>2, <1>3, AbortShape, ChipTyped DEF chip, Shape

\* What is left of the memory when the power goes.
LEMMA PowerLossEffect ==
    ASSUME TypeOK, PowerCycle
    PROVE  /\ mem' \in [Addr -> Nat]
           /\ \A a \in Addr : mem'[a] \in IF (IF busy THEN latch ELSE NoLatch)[a] = Empty THEN {mem[a]}
                                         ELSE {mem[a], (IF busy THEN latch ELSE NoLatch)[a]}
           /\ latch' = NoLatch /\ ptr' = 0 /\ mode' = "idle" /\ busy' = FALSE /\ nacks' = nacks
  <1>1. PICK S \in SUBSET {a \in Addr : busy /\ latch[a] # Empty} :
            mem' = [a \in Addr |-> IF a \in S THEN latch[a] ELSE mem[a]]
    BY DEF PowerCycle
  <1>2. \A a \in S : busy /\ latch[a] # Empty /\ latch[a] \in Nat
    BY <1>1, ChipTyped
  <1>3. mem' \in [Addr -> Nat]
    BY <1>1, <1>2, ChipTyped
  <1>4. ASSUME NEW a \in Addr
        PROVE  mem'[a] \in IF (IF busy THEN latch ELSE NoLatch)[a] = Empty THEN {mem[a]}
                           ELSE {mem[a], (IF busy THEN latch ELSE NoLatch)[a]}
    <2>1. CASE a \in S
      BY <1>1, <1>2, <2>1
    <2>2. CASE a \notin S
      BY <1>1, <2>2
    <2> QED BY <2>1, <2>2
  <1> QED BY <1>3, <1>4 DEF PowerCycle

LEMMA CyclePowerShape ==
    ASSUME Shape, CyclePower
    PROVE  Shape'
  <1>1. resets' \in 0 .. MaxResets /\ held' = FALSE /\ Aborted(busy) /\ PowerCycle
    BY Constants DEF CyclePower, Shape, TypeOK
  <1>2. was' \in [Addr -> Nat]
    BY <1>1, PowerLossEffect DEF CyclePower, Shape, TypeOK
  <1> QED BY <1>1, <1>2, PowerLossEffect, AbortShape, LatchType DEF Shape

LEMMA CallWriteShape ==
    ASSUME Shape, NEW w \in Writes, CallWrite(w[1], w[2])
    PROVE  Shape'
  <1>1. w[1] \in 0 .. AddrSpace - 1 /\ w[2] \in 0 .. MaxSize /\ w[2] \in Nat /\ w[2] <= MaxSize
    BY DriverAssumption
  <1> DEFINE a == w[1]
             n == w[2]
  <1>2. a \in 0 .. AddrSpace - 1 /\ n \in Nat /\ n <= MaxSize
    BY <1>1
  <1>3. CallWrite(a, n)
    OBVIOUS
  <1> HIDE DEF a, n
  <1> USE DEF Shape
  <1>4. /\ pc = "idle" /\ calls < MaxCalls /\ op' = "write" /\ from' = a /\ size' = n
        /\ addr' = a /\ left' = n /\ i' = 0 /\ written' = 0 /\ got' = <<>> /\ refused' = FALSE
        /\ calls' = calls + 1 /\ UNCHANGED <<mem, latch, ptr, mode, busy, nacks, resets, held>>
        /\ pc' = (IF n = 0 THEN "idle" ELSE "begin")
    BY <1>3 DEF CallWrite, Call, chip
  <1>5. /\ calls' \in 0 .. MaxCalls /\ calls' >= 1
        /\ was' \in [Addr -> Nat] /\ cut' = "none"
    <2>1. was' = Settled /\ cut' = "none"
      BY <1>3 DEF CallWrite, Call
    <2> QED BY <1>4, <2>1, ChipTyped, SettledType, Constants
  <1>6. TypeOK'
    <2>1. left' \in 0 .. size' /\ i' \in 0 .. size' /\ written' \in 0 .. size' /\ got' \in Seq(Nat \cup {Empty})
      BY <1>2, <1>4
    <2> QED BY <1>2, <1>4, <1>5, <2>1 DEF TypeOK
  <1>7. CallShape'
    BY <1>2, <1>4, <1>5 DEF CallShape, Writing, Reading
  <1>8. BusShape' /\ LatchShape'
    BY <1>4 DEF BusShape, LatchShape
  <1> QED BY <1>6, <1>7, <1>8

LEMMA CallReadShape ==
    ASSUME Shape, NEW r \in Reads, CallRead(r[1], r[2])
    PROVE  Shape'
  <1>1. r[1] \in 0 .. AddrSpace - 1 /\ r[2] \in Nat \ {0}
    BY DriverAssumption
  <1> DEFINE a == r[1]
             n == r[2]
  <1>2. a \in 0 .. AddrSpace - 1 /\ n \in Nat /\ n >= 1
    BY <1>1
  <1>3. CallRead(a, n)
    OBVIOUS
  <1> HIDE DEF a, n
  <1> USE DEF Shape
  <1>4. /\ pc = "idle" /\ calls < MaxCalls /\ op' = "read" /\ from' = a /\ size' = n
        /\ addr' = a /\ left' = n /\ i' = 0 /\ written' = 0 /\ got' = <<>> /\ refused' = FALSE
        /\ calls' = calls + 1 /\ UNCHANGED <<mem, latch, ptr, mode, busy, nacks, resets, held>>
        /\ pc' = "begin"
    BY <1>3 DEF CallRead, Call, chip
  <1>5. calls' \in 0 .. MaxCalls /\ was' \in [Addr -> Nat] /\ cut' = "none"
    <2>1. was' = Settled /\ cut' = "none"
      BY <1>3 DEF CallRead, Call
    <2> QED BY <1>4, <2>1, ChipTyped, SettledType, Constants
  <1>6. TypeOK'
    <2>1. left' \in 0 .. size' /\ i' \in 0 .. size' /\ written' \in 0 .. size' /\ got' \in Seq(Nat \cup {Empty})
      BY <1>2, <1>4
    <2> QED BY <1>2, <1>4, <1>5, <2>1 DEF TypeOK
  <1>7. CallShape'
    BY <1>2, <1>4, <1>5 DEF CallShape, Writing, Reading
  <1>8. BusShape' /\ LatchShape'
    BY <1>4 DEF BusShape, LatchShape
  <1> QED BY <1>6, <1>7, <1>8

LEMMA ShapeInit == Init => Shape
  <1> SUFFICES ASSUME Init PROVE Shape
    OBVIOUS
  <1>1. TypeOK
    BY Constants, LatchType DEF Init, ChipInit, TypeOK
  <1>2. CallShape /\ BusShape /\ LatchShape
    BY DEF Init, CallShape, BusShape, LatchShape, Writing, Reading
  <1> QED BY <1>1, <1>2 DEF Shape

LEMMA ShapeStep == Shape /\ [Next]_vars => Shape'
  <1> SUFFICES ASSUME Shape, [Next]_vars PROVE Shape'
    OBVIOUS
  <1>1. CASE UNCHANGED vars
    <2> USE <1>1 DEF vars, chip, driver, rest
    <2>1. TypeOK'
      BY DEF Shape, TypeOK
    <2>2. CallShape'
      BY DEF Shape, CallShape, Writing, Reading, Chunk
    <2>3. BusShape' /\ LatchShape'
      BY DEF Shape, BusShape, LatchShape
    <2> QED BY <2>1, <2>2, <2>3 DEF Shape
  <1>2. CASE \E w \in Writes : CallWrite(w[1], w[2])
    BY <1>2, CallWriteShape
  <1>3. CASE \E r \in Reads : CallRead(r[1], r[2])
    BY <1>3, CallReadShape
  <1>4. CASE Step
    BY <1>4, BeginShape, SendControlShape, SendHighShape, SendLowShape, SendDataShape,
       StopPageShape, StopAddressShape, BeginReadShape, SendReadControlShape, ReceiveShape,
       NackShape, StopReadShape DEF Step
  <1>5. CASE CycleEnds \/ Reset \/ CyclePower
    BY <1>5, CycleEndsShape, ResetShape, CyclePowerShape
  <1> QED BY <1>1, <1>2, <1>3, <1>4, <1>5 DEF Next

-----------------------------------------------------------------------------
(* The page latch, the stamps, and what a read and a write have done.      *)

\* The numbers of a write that is under way.
LEMMA WriteNumbers ==
    ASSUME Shape, Writing
    PROVE  /\ Done \in Nat /\ Done + left = size /\ size <= MaxSize /\ calls >= 1
           /\ Chunk \in Nat /\ Chunk <= left /\ Chunk <= PageSize
           /\ Done + Chunk <= size /\ from \in Nat
           /\ \A j \in Nat : Done + j < size => Done + j \in 0 .. MaxSize - 1
  <1>1. /\ size \in Nat /\ left \in 0 .. size /\ size <= MaxSize /\ calls >= 1 /\ from \in Nat
        /\ MaxSize \in Nat
    BY ChipTyped, Constants DEF Shape, CallShape
  <1>2. Chunk \in 0 .. left /\ Chunk <= PageSize
    BY <1>1, ChunkType
  <1>3. Done = size - left
    BY DEF Done
  <1> HIDE DEF Done
  <1> QED BY <1>1, <1>2, <1>3

LEMMA PlaceType ==
    ASSUME TypeOK, NEW k \in Nat
    PROVE  Place(k) \in Addr /\ Place(k) \in Nat
  <1>1. from + k \in Nat
    BY ChipTyped
  <1> DEFINE y == from + k
  <1> HIDE DEF y
  <1>2. y \in Nat
    BY <1>1 DEF y
  <1>3. y % MemSize \in 0 .. MemSize - 1
    BY <1>2, Constants, DivMod
  <1> QED BY <1>3, Constants DEF y, Place, Addr

LEMMA PlaceInjective ==
    ASSUME TypeOK, size <= MemSize, NEW j \in 0 .. size - 1, NEW k \in 0 .. size - 1,
           Place(j) = Place(k)
    PROVE  j = k
  <1>1. /\ from \in Nat /\ j \in 0 .. MemSize - 1 /\ k \in 0 .. MemSize - 1
        /\ (from + j) % MemSize = (from + k) % MemSize /\ MemSize \in Nat \ {0}
    BY ChipTyped, Constants DEF Place
  <1> QED BY <1>1, ModInjective

\* A step that leaves the latch, the counter and the page alone.
LEMMA KeepsLatched ==
    ASSUME PageLatched, UNCHANGED <<latch, addr, calls, size, left, i>>,
           pc' \notin {"low", "data"}, pc' = "stop" => pc \in {"data", "stop"}
    PROVE  PageLatched'
  <1>1. ASSUME NEW k PROVE Stamp(k)' = Stamp(k)
    BY DEF Stamp
  <1> QED BY <1>1 DEF PageLatched, Done, Stamp

LEMMA SendHighLatched ==
    ASSUME Shape, PageLatched, SendHigh
    PROVE  PageLatched'
  <1>1. PICK ack \in BOOLEAN : ByteIn(addr \div ByteBase, ack)
    BY DEF SendHigh
  <1>2. pc = "high" /\ pc' = "low" /\ addr' = addr /\ mode = "high"
    BY DEF SendHigh, Shape, BusShape
  <1>3. mode' = "low" => ptr' = ((addr \div ByteBase) * ByteBase) % MemSize
    BY <1>1, <1>2, ByteInEffect, ChipTyped DEF Shape
  <1> QED BY <1>2, <1>3 DEF PageLatched

LEMMA SendLowLatched ==
    ASSUME Shape, PageLatched, SendLow
    PROVE  PageLatched' /\ (mode' = "in" => ptr' = addr % MemSize)
  <1>1. PICK ack \in BOOLEAN : ByteIn(addr % ByteBase, ack)
    BY DEF SendLow
  <1>2. /\ pc = "low" /\ pc' \in {"data", "turn"} /\ mode \in {"low", "deaf"} /\ ~busy
        /\ pc' = "data" => op = "write"
        /\ UNCHANGED <<addr, i, size, left, calls>>
    BY DEF SendLow, Shape, BusShape, rest
  <1>3. latch' = latch /\ (mode' = "in" => mode = "low" /\ ptr' = (ptr + (addr % ByteBase)) % MemSize)
    BY <1>1, <1>2, ByteInEffect, ChipTyped DEF Shape
  <1>4. mode' = "in" => ptr' = addr % MemSize
    <2> SUFFICES ASSUME mode' = "in" PROVE ptr' = addr % MemSize
      OBVIOUS
    <2> DEFINE h == (addr \div ByteBase) * ByteBase
               l == addr % ByteBase
    <2>1. h \in Nat /\ l \in Nat /\ h + l = addr
      <3> DEFINE q == addr \div ByteBase
      <3>1. q \in Nat /\ l \in Nat /\ addr = ByteBase * q + l
        BY AddressType, ChipTyped DEF Shape
      <3> HIDE DEF q, l
      <3>2. q * ByteBase \in Nat /\ q * ByteBase = ByteBase * q
        BY <3>1, Constants
      <3>3. q * ByteBase + l = addr
        BY <3>1, <3>2
      <3> QED BY <3>1, <3>2, <3>3 DEF q
    <2>2. ptr = h % MemSize /\ ptr' = (ptr + l) % MemSize
      BY <1>2, <1>3 DEF PageLatched
    <2> HIDE DEF h, l
    <2>3. ((h % MemSize) + l) % MemSize = (h + l) % MemSize
      BY <2>1, Constants, ModAdd
    <2> QED BY <2>1, <2>2, <2>3
  <1>5. PageLatched'
    <2>1. pc' = "data" => i = 0
      BY <1>2 DEF Shape, CallShape, Writing
    <2>2. latch = NoLatch
      BY <1>2 DEF Shape, LatchShape
    <2>3. PageCell(addr, 0) = addr % MemSize
      BY PageCellStart, ChipTyped DEF Shape
    <2>4. pc' = "data" => \A j \in 0 .. i' - 1 : FALSE
      BY <1>2, <2>1
    <2>5. \A a \in Addr : latch'[a] = Empty
      BY <1>3, <2>2, LatchType
    <2> QED BY <1>2, <1>4, <2>1, <2>3, <2>4, <2>5 DEF PageLatched
  <1> QED BY <1>4, <1>5

\* A data byte extends the page latched by one cell.
LEMMA SendDataLatched ==
    ASSUME Shape, PageLatched, SendData
    PROVE  PageLatched'
  <1>1. PICK ack \in BOOLEAN :
            /\ ByteIn(Stamp(size - left + i), ack)
            /\ i' = IF ack THEN i + 1 ELSE i
            /\ pc' = IF ack /\ i' < Chunk THEN "data" ELSE "stop"
    BY DEF SendData
  <1>2. /\ pc = "data" /\ UNCHANGED <<addr, size, left, calls>> /\ mode \in {"in", "deaf"}
        /\ op = "write"
    BY DEF SendData, Shape, BusShape, rest, CallShape, Reading, TypeOK
  <1>3. /\ ack => /\ mode = "in" /\ latch' = [latch EXCEPT ![ptr] = Stamp(Done + i)]
                  /\ ptr' = NextInPage(ptr)
        /\ ~ack => latch' = latch /\ mode' = "deaf"
    BY <1>1, <1>2, ByteInEffect, ChipTyped DEF Shape, Done
  <1>4. \A k : Stamp(k)' = Stamp(k)
    BY <1>2 DEF Stamp
  <1>5. Done' = Done
    BY <1>2 DEF Done
  <1>6. CASE ~ack
    BY <1>1, <1>2, <1>3, <1>5, <1>6 DEF PageLatched, Stamp
  <1>7. CASE ack
    <2>1. /\ ptr = PageCell(addr, i) /\ i \in Nat /\ addr \in Nat /\ i' = i + 1
          /\ latch' = [latch EXCEPT ![ptr] = Stamp(Done + i)] /\ ptr' = NextInPage(ptr)
      BY <1>1, <1>2, <1>3, <1>7, ChipTyped DEF PageLatched, Shape
    <2>2. ptr \in Addr /\ ptr' = PageCell(addr, i + 1)
      BY <2>1, PageCellAddr
    <2>3. i < Chunk /\ Chunk <= PageSize /\ Chunk \in Nat
      BY <1>2, ChipTyped, ChunkType DEF Shape, CallShape, Writing
    <2>4. ASSUME NEW j \in 0 .. i PROVE latch'[PageCell(addr, j)] = Stamp(Done + j)
      <3>1. j \in Nat /\ PageCell(addr, j) \in Addr
        BY <2>1, PageCellAddr
      <3>2. CASE j = i
        BY <2>1, <2>2, <3>2, ChipTyped DEF Shape
      <3>3. CASE j # i
        <4>1. j \in 0 .. PageSize - 1 /\ i \in 0 .. PageSize - 1 /\ j \in 0 .. i - 1
          BY <2>1, <2>3, <3>3, Constants
        <4>2. PageCell(addr, j) # ptr
          BY <2>1, <3>3, <4>1, PageCellInjective
        <4>3. latch[PageCell(addr, j)] = Stamp(Done + j)
          BY <1>2, <4>1 DEF PageLatched
        <4> QED BY <2>1, <3>1, <4>2, <4>3, ChipTyped DEF Shape
      <3> QED BY <3>2, <3>3
    <2>5. ASSUME NEW a \in Addr, latch'[a] # Empty PROVE \E j \in 0 .. i : a = PageCell(addr, j)
      <3>1. CASE a = ptr
        BY <2>1, <3>1
      <3>2. CASE a # ptr
        <4>1. latch[a] # Empty
          BY <2>1, <2>5, <3>2, ChipTyped DEF Shape
        <4>2. PICK j \in 0 .. i - 1 : a = PageCell(addr, j)
          BY <1>2, <4>1 DEF PageLatched
        <4>3. j \in 0 .. i
          BY <2>1
        <4> QED BY <4>2, <4>3
      <3> QED BY <3>1, <3>2
    <2>6. i' - 1 = i
      BY <2>1
    <2>7. /\ \A j \in 0 .. i' - 1 : latch'[PageCell(addr', j)] = Stamp(Done + j)
          /\ \A a \in Addr : latch'[a] # Empty => \E j \in 0 .. i' - 1 : a = PageCell(addr', j)
      BY <1>2, <2>4, <2>5, <2>6
    <2>8. pc' # "low" /\ ptr' = PageCell(addr', i')
      BY <1>1, <1>2, <2>1, <2>2
    <2> QED BY <1>4, <1>5, <2>7, <2>8 DEF PageLatched, Stamp
  <1> QED BY <1>6, <1>7

-----------------------------------------------------------------------------
(* What each part needs of a step that does not touch it.                  *)

LEMMA KeepNewer ==
    ASSUME Shape, NoneNewer, calls' \in {calls, calls + 1},
           \A a \in Addr : mem'[a] \in {mem[a], latch[a]} /\ latch'[a] \in {latch[a], Empty}
    PROVE  NoneNewer'
  <1>1. Known \in Nat /\ Known' \in Nat /\ Known <= Known'
    <2>1. calls \in Nat /\ MaxSize \in Nat
      BY ChipTyped, Constants DEF Shape
    <2>2. (calls + 1) * MaxSize = calls * MaxSize + MaxSize /\ calls * MaxSize \in Nat
      BY <2>1
    <2>3. Known = calls * MaxSize /\ Known' = calls' * MaxSize
      BY DEF Known
    <2>4. CASE calls' = calls
      BY <2>2, <2>3, <2>4
    <2>5. CASE calls' = calls + 1
      <3>1. Known' = Known + MaxSize
        BY <2>2, <2>3, <2>5
      <3>2. Known \in Nat
        BY <2>2, <2>3
      <3> HIDE DEF Known
      <3> QED BY <2>1, <3>1, <3>2
    <2> QED BY <2>4, <2>5
  <1>2. ASSUME NEW a \in Addr PROVE mem'[a] <= Known' /\ latch'[a] <= Known'
    <2>1. /\ mem[a] <= Known /\ latch[a] <= Known
          /\ mem[a] \in Nat /\ latch[a] \in Nat \cup {-1}
      BY ChipTyped DEF NoneNewer, Shape, Empty
    <2>2. mem'[a] \in {mem[a], latch[a]} /\ latch'[a] \in {latch[a], -1}
      BY DEF Empty
    <2> QED BY <1>1, <2>1, <2>2
  <1> QED BY <1>2 DEF NoneNewer

LEMMA KeepRead ==
    ASSUME ReadSoFar, UNCHANGED <<op, from, got, i>>, refused => refused', Settled' = Settled,
           pc' \in {"turn", "restart", "readcontrol", "receive"} =>
               pc \in {"turn", "restart", "readcontrol", "receive"} /\ ptr' = ptr
    PROVE  ReadSoFar'
  <1>1. \A k : Place(k)' = Place(k)
    BY DEF Place
  <1> HIDE DEF Settled
  <1> QED BY <1>1 DEF ReadSoFar, Reading, Place

LEMMA KeepPlaced ==
    ASSUME PagePlaced, UNCHANGED <<op, from, size, addr, left>>, pc' # "stop"
    PROVE  PagePlaced'
  BY DEF PagePlaced, Writing, Place, Done, Aligned, Chunk

LEMMA KeepCosts ==
    ASSUME RefusalCosts, UNCHANGED <<op, size, left, written, refused>>,
           pc \notin {"low", "data", "stop"} \/ UNCHANGED <<pc, mode, i>>
    PROVE  RefusalCosts'
  BY DEF RefusalCosts, Writing, Done, Chunk

LEMMA KeepOrder ==
    ASSUME InOrder, UNCHANGED <<op, from, size, left, calls, was, cut>>,
           refused => refused', Settled' = Settled, busy' => busy /\ UNCHANGED <<mem, latch>>
    PROVE  InOrder'
  <1>1. \A k : /\ Place(k)' = Place(k) /\ Stamp(k)' = Stamp(k)
    BY DEF Place, Stamp
  <1>2. Done' = Done /\ (Aligned' <=> Aligned) /\ (Wrote' <=> Wrote)
    BY DEF Done, Aligned, Wrote
  <1>3. PagesInOrder'
    <2> HIDE DEF Settled
    <2> QED BY <1>1, <1>2 DEF InOrder, PagesInOrder, Stored, Kept, Place, Stamp
  <1>4. LastPending'
    BY <1>1, <1>2 DEF InOrder, LastPending, Place
  <1> QED BY <1>3, <1>4 DEF InOrder

\* Nothing is claimed of a read.
LEMMA ReadInOrder == ~Wrote => InOrder
  BY DEF InOrder, PagesInOrder, LastPending

\* What a reader sees changes only when a page is stopped or power is lost.
LEMMA SettledKept ==
    ASSUME TypeOK, UNCHANGED mem,
           \/ UNCHANGED busy /\ (busy => latch' = latch)
           \/ busy' = (busy \/ latch # NoLatch) /\ (busy \/ latch = NoLatch) /\ latch' = latch
    PROVE  Settled' = Settled
  BY ChipTyped DEF Settled

LEMMA CycleSettles ==
    ASSUME CycleEnds
    PROVE  Settled' = Settled
  BY DEF CycleEnds, WriteCycleEnds, Settled

\* Steps of the program that leave its own variables alone.
LEMMA QuietKeeps ==
    ASSUME Shape, DriverInv, UNCHANGED <<driver, rest>>, Settled' = Settled,
           pc' \notin {"low", "data", "stop"}, pc \notin {"low", "data", "stop"},
           pc' \in {"turn", "restart", "readcontrol", "receive"} =>
               pc \in {"turn", "restart", "readcontrol", "receive"} /\ ptr' = ptr,
           \A a \in Addr : mem'[a] \in {mem[a], latch[a]} /\ latch'[a] \in {latch[a], Empty},
           busy' => busy /\ UNCHANGED <<mem, latch>>
    PROVE  DriverInv'
  <1>1. /\ UNCHANGED <<op, from, size, addr, left, i, written, got, refused>>
        /\ UNCHANGED <<calls, resets, held, was, cut>>
    BY DEF driver, rest
  <1>2. PageLatched'
    BY DEF PageLatched
  <1>3. NoneNewer'
    BY <1>1, KeepNewer DEF DriverInv
  <1>4. ReadSoFar'
    BY <1>1, KeepRead DEF DriverInv
  <1>5. PagePlaced' /\ RefusalCosts'
    BY <1>1, KeepPlaced, KeepCosts DEF DriverInv
  <1>6. InOrder'
    BY <1>1, KeepOrder DEF DriverInv
  <1> QED BY <1>2, <1>3, <1>4, <1>5, <1>6 DEF DriverInv

LEMMA StartKeeps ==
    ASSUME Shape, DriverInv, Begin \/ BeginRead
    PROVE  DriverInv'
  <1>1. /\ latch' = (IF busy THEN latch ELSE NoLatch) /\ UNCHANGED <<mem, ptr, busy, driver, rest>>
        /\ \/ pc = "begin" /\ pc' = "control"
           \/ pc = "restart" /\ pc' = "readcontrol"
    BY DEF Begin, BeginRead, Start
  <1>2. Settled' = Settled
    BY <1>1, SettledKept DEF Shape
  <1>3. \A a \in Addr : mem'[a] \in {mem[a], latch[a]} /\ latch'[a] \in {latch[a], Empty}
    BY <1>1, LatchType
  <1> QED BY <1>1, <1>2, <1>3, QuietKeeps

LEMMA ControlKeeps ==
    ASSUME Shape, DriverInv, SendControl \/ SendReadControl
    PROVE  DriverInv'
  <1>1. /\ UNCHANGED <<driver, rest>>
        /\ \/ pc = "control" /\ pc' \in {"high", "begin"}
           \/ pc = "readcontrol" /\ pc' \in {"receive", "restart"}
        /\ \E ack, read \in BOOLEAN : Control(read, ack)
    BY DEF SendControl, SendReadControl
  <1>2. UNCHANGED <<mem, latch, ptr, busy>>
    BY <1>1, ChipTyped, ControlEffect DEF Shape
  <1>3. Settled' = Settled
    BY <1>2, SettledKept DEF Shape
  <1> QED BY <1>1, <1>2, <1>3, QuietKeeps

LEMMA EndKeeps ==
    ASSUME Shape, DriverInv, StopAddress \/ Nack \/ StopRead
    PROVE  DriverInv'
  <1>1. /\ UNCHANGED <<mem, latch, ptr, driver, rest>>
        /\ \/ pc = "turn" /\ pc' = "restart" /\ busy' = (busy \/ latch # NoLatch)
           \/ pc = "nack" /\ pc' = "readstop" /\ busy' = busy
           \/ pc = "readstop" /\ pc' = "idle" /\ busy' = (busy \/ latch # NoLatch)
    BY DEF StopAddress, Nack, StopRead, Stop, MasterNack
  <1>2. busy \/ latch = NoLatch
    BY <1>1 DEF Shape, LatchShape
  <1>3. Settled' = Settled
    BY <1>1, <1>2, SettledKept DEF Shape
  <1>4. busy' => busy
    <2>1. CASE busy
      BY <2>1
    <2>2. CASE ~busy
      <3>1. latch = NoLatch
        BY <1>2, <2>2
      <3> QED BY <1>1, <2>2, <3>1
    <2> QED BY <2>1, <2>2
  <1>5. \A a \in Addr : mem'[a] \in {mem[a], latch[a]} /\ latch'[a] \in {latch[a], Empty}
    BY <1>1
  <1>6. /\ pc' \notin {"low", "data", "stop"} /\ pc \notin {"low", "data", "stop"}
        /\ pc' \in {"turn", "restart", "readcontrol", "receive"} =>
               pc \in {"turn", "restart", "readcontrol", "receive"} /\ ptr' = ptr
    BY <1>1
  <1> QED BY <1>1, <1>3, <1>4, <1>5, <1>6, QuietKeeps

LEMMA CycleKeeps ==
    ASSUME Shape, DriverInv, CycleEnds
    PROVE  DriverInv'
  <1>1. /\ busy /\ busy' = FALSE /\ mem' = Merged(mem, latch) /\ latch' = NoLatch
        /\ UNCHANGED <<ptr, pc, driver, rest>>
    BY DEF CycleEnds, WriteCycleEnds
  <1>2. pc \notin {"low", "data", "stop"}
    BY <1>1 DEF Shape, BusShape
  <1>3. \A a \in Addr : mem'[a] \in {mem[a], latch[a]} /\ latch'[a] \in {latch[a], Empty}
    BY <1>1, LatchType, MergedType, ChipTyped DEF Shape
  <1> QED BY <1>1, <1>2, <1>3, CycleSettles, QuietKeeps

LEMMA AddressKeeps ==
    ASSUME Shape, DriverInv, SendHigh \/ SendLow
    PROVE  DriverInv'
  <1>1. PICK ack \in BOOLEAN, b \in Nat : ByteIn(b, ack) /\ refused' = (refused \/ ~ack)
    <2>1. addr \div ByteBase \in Nat /\ addr % ByteBase \in Nat
      BY AddressType, ChipTyped DEF Shape
    <2> QED BY <2>1 DEF SendHigh, SendLow
  <1>2. /\ UNCHANGED <<op, from, size, addr, left, i, written, got, calls, was, cut>>
        /\ pc \in {"high", "low"} /\ pc' \in {"low", "data", "turn"}
        /\ pc' = "turn" => SendLow
        /\ pc = "high" => pc' = "low"
        /\ pc = "low" => pc' # "low"
    BY DEF SendHigh, SendLow, rest
  <1>3. /\ UNCHANGED <<mem, latch, busy>> /\ (~ack => mode' = "deaf")
        /\ ack => mode # "deaf"
    BY <1>1, <1>2, ByteInEffect, ChipTyped DEF Shape, BusShape
  <1>4. Settled' = Settled
    BY <1>3, SettledKept DEF Shape
  <1>5. PageLatched'
    BY SendHighLatched, SendLowLatched DEF DriverInv
  <1>6. NoneNewer'
    BY <1>2, <1>3, KeepNewer DEF DriverInv
  <1>7. Reading => i = 0 /\ Len(got) = 0 /\ addr = from
    BY <1>2 DEF Shape, CallShape
  <1>8. ReadSoFar'
    <2> SUFFICES ASSUME Reading, ~refused' PROVE ReadSoFar'
      BY <1>2 DEF ReadSoFar, Reading
    <2>1. \A k \in 1 .. Len(got') : FALSE
      BY <1>2, <1>7
    <2>2. pc' = "turn" => ptr' = Place(i)'
      <3> SUFFICES ASSUME pc' = "turn" PROVE ptr' = Place(i)'
        OBVIOUS
      <3>1. mode' = "in"
        BY <1>2, SendLowShape DEF Shape, BusShape
      <3>2. ptr' = addr % MemSize
        BY <1>2, <3>1, SendLowLatched DEF DriverInv
      <3>3. from + 0 = from /\ i' = 0 /\ from' = from /\ addr = from
        BY <1>2, <1>7, ChipTyped DEF Shape
      <3> QED BY <3>2, <3>3 DEF Place
    <2> QED BY <1>2, <2>1, <2>2 DEF ReadSoFar
  <1>9. PagePlaced'
    BY <1>2, KeepPlaced DEF DriverInv
  <1>10. RefusalCosts'
    <2> SUFFICES ASSUME Writing, refused', ~ (written < Done) PROVE RefusalCosts'
      BY <1>2 DEF RefusalCosts, Writing, Done
    <2>1. i = 0 /\ pc' \in {"low", "data"}
      <3>1. i = 0
        BY <1>2 DEF Shape, CallShape
      <3>2. pc' # "turn"
        BY <1>2 DEF SendLow, Writing
      <3> QED BY <1>2, <3>1, <3>2
    <2>2. mode' = "deaf"
      <3>1. CASE ~ack
        BY <1>3, <3>1
      <3>2. CASE ack
        <4>1. refused
          BY <1>1, <3>2
        <4>2. mode = "deaf"
          BY <1>2, <4>1 DEF DriverInv, RefusalCosts
        <4> QED BY <1>3, <3>2, <4>2
      <3> QED BY <3>1, <3>2
    <2> QED BY <1>2, <2>1, <2>2 DEF RefusalCosts
  <1>11. InOrder'
    BY <1>1, <1>2, <1>3, <1>4, KeepOrder DEF DriverInv
  <1> QED BY <1>5, <1>6, <1>8, <1>9, <1>10, <1>11 DEF DriverInv

LEMMA SendDataKeeps ==
    ASSUME Shape, DriverInv, SendData
    PROVE  DriverInv'
  <1>1. PICK ack \in BOOLEAN :
            /\ ByteIn(Stamp(size - left + i), ack) /\ refused' = (refused \/ ~ack)
            /\ i' = IF ack THEN i + 1 ELSE i
            /\ pc' = IF ack /\ i' < Chunk THEN "data" ELSE "stop"
    BY DEF SendData
  <1>2. /\ pc = "data" /\ op = "write" /\ ~busy
        /\ UNCHANGED <<op, from, size, addr, left, written, got, calls, was, cut>>
    BY DEF SendData, Shape, BusShape, CallShape, Reading, TypeOK, rest
  <1>3. /\ UNCHANGED <<mem, busy>>
        /\ ack => mode = "in" /\ latch' = [latch EXCEPT ![ptr] = Stamp(Done + i)]
        /\ ~ack => latch' = latch /\ mode' = "deaf"
        /\ mode \in {"in", "deaf"}
    BY <1>1, <1>2, ByteInEffect, ChipTyped DEF Shape, BusShape, Done
  <1>4. i \in Nat /\ i < Chunk /\ Chunk \in Nat /\ Chunk' = Chunk
    BY <1>2, ChipTyped, WriteNumbers DEF Shape, CallShape, Writing, Chunk
  <1>5. Settled' = Settled
    BY <1>2, <1>3, SettledKept DEF Shape
  <1>6. PageLatched'
    BY SendDataLatched DEF DriverInv
  <1>7. NoneNewer'
    <2>1. Known' = Known
      BY <1>2 DEF Known
    <2>2. Stamp(Done + i) <= Known
      <3>1. Done + i \in 0 .. MaxSize - 1 /\ calls >= 1 /\ calls \in Nat
        BY <1>2, <1>4, WriteNumbers, ChipTyped DEF Writing, Shape
      <3> QED BY <3>1, StampType
    <2>3. ASSUME NEW a \in Addr PROVE latch'[a] <= Known /\ mem'[a] <= Known
      <3>1. latch'[a] \in {latch[a], Stamp(Done + i)}
        BY <1>3, ChipTyped DEF Shape
      <3> QED BY <1>3, <2>2, <3>1 DEF DriverInv, NoneNewer
    <2> QED BY <2>1, <2>3 DEF NoneNewer
  <1>8. ReadSoFar'
    BY <1>2 DEF ReadSoFar, Reading
  <1>9. PagePlaced'
    <2>1. pc' = "stop" /\ ~refused' => i' = Chunk
      <3> SUFFICES ASSUME pc' = "stop", ~refused' PROVE i' = Chunk
        OBVIOUS
      <3>1. i' = i + 1 /\ ~ (i' < Chunk)
        BY <1>1
      <3> QED BY <1>4, <3>1
    <2> QED BY <1>2, <1>4, <2>1 DEF DriverInv, PagePlaced, Writing, Place, Done, Aligned
  <1>10. RefusalCosts'
    <2> SUFFICES ASSUME refused', ~ (written < Done) PROVE pc' = "stop" /\ i' < Chunk
      BY <1>2, <1>4 DEF RefusalCosts, Writing, Done
    <2>1. ~ack
      BY <1>1, <1>2, <1>3 DEF DriverInv, RefusalCosts, Writing
    <2> QED BY <1>1, <1>4, <2>1
  <1>11. InOrder'
    BY <1>1, <1>2, <1>3, <1>5, KeepOrder DEF DriverInv
  <1> QED BY <1>6, <1>7, <1>8, <1>9, <1>10, <1>11 DEF DriverInv

\* The bytes of a chunk go where they belong.
LEMMA ChunkPlaced ==
    ASSUME Shape, PagePlaced, pc = "stop", op = "write", Aligned, NEW j \in 0 .. Chunk - 1
    PROVE  PageCell(addr, j) = Place(Done + j)
  <1>1. /\ left > 0 /\ addr \in Nat /\ from \in Nat
        /\ Done \in Nat /\ Chunk \in Nat /\ Done + Chunk <= size /\ size \in Nat
    BY WriteNumbers, ChipTyped DEF Shape, CallShape, Writing
  <1>2. j \in Nat /\ (addr % PageSize) + j < PageSize
    <2>1. (addr % PageSize) + Chunk <= PageSize
      BY <1>1 DEF PagePlaced, Writing
    <2>2. addr % PageSize \in Nat
      BY <1>1, Constants, DivMod
    <2> QED BY <1>1, <2>1, <2>2, Constants
  <1>3. PageCell(addr, j) = (addr + j) % MemSize
    BY <1>1, <1>2, PageCellFlat
  <1>4. (addr + j) % MemSize = ((addr % MemSize) + j) % MemSize
    BY <1>1, <1>2, Constants, ModAdd
  <1>5. addr % MemSize = (from + Done) % MemSize
    BY DEF PagePlaced, Writing, Place
  <1>6. (((from + Done) % MemSize) + j) % MemSize = ((from + Done) + j) % MemSize
    <2>1. from + Done \in Nat
      BY <1>1
    <2> QED BY <1>2, <2>1, Constants, ModAdd
  <1>7. (from + Done) + j = from + (Done + j)
    BY <1>1, <1>2
  <1> QED BY <1>3, <1>4, <1>5, <1>6, <1>7 DEF Place

\* The latch at the end of a page holds the stamps of the bytes taken.
LEMMA LatchOfPage ==
    ASSUME Shape, PageLatched, PagePlaced, pc = "stop", op = "write", Aligned
    PROVE  /\ \A j \in 0 .. i - 1 : latch[Place(Done + j)] = Stamp(Done + j)
           /\ \A a \in Addr : latch[a] # Empty => \E j \in 0 .. i - 1 : a = Place(Done + j)
  <1>1. i \in Nat /\ i <= Chunk /\ Chunk \in Nat
    BY WriteNumbers, ChipTyped DEF Shape, CallShape, Writing
  <1>2. \A j \in 0 .. i - 1 : j \in 0 .. Chunk - 1
    BY <1>1
  <1>3. \A j \in 0 .. i - 1 : PageCell(addr, j) = Place(Done + j)
    BY <1>2, ChunkPlaced
  <1> QED BY <1>3 DEF PageLatched

\* The next page begins where the chunk would have ended.
LEMMA NextPagePlaced ==
    ASSUME Shape, PagePlaced, op = "write", left > 0, NEW next, next = (addr + Chunk) % AddrSpace
    PROVE  /\ next % MemSize = Place(Done + Chunk)
           /\ Aligned /\ left > Chunk => next % PageSize = 0
  <1>1. /\ addr \in Nat /\ from \in Nat /\ Done \in Nat /\ Chunk \in Nat
        /\ Chunk = left \/ (Chunk = PageSize /\ left > PageSize)
    BY WriteNumbers, ChipTyped, ChunkType DEF Shape, Writing
  <1>2. addr + Chunk \in Nat /\ from + Done \in Nat
    BY <1>1
  <1>3. ((addr + Chunk) % AddrSpace) % MemSize = (addr + Chunk) % MemSize
    BY <1>2, Constants, ModMod
  <1>4. (addr + Chunk) % MemSize = ((addr % MemSize) + Chunk) % MemSize
    BY <1>1, Constants, ModAdd
  <1>5. addr % MemSize = (from + Done) % MemSize
    BY DEF PagePlaced, Writing, Place
  <1>6. (((from + Done) % MemSize) + Chunk) % MemSize = ((from + Done) + Chunk) % MemSize
    BY <1>1, <1>2, Constants, ModAdd
  <1>7. (from + Done) + Chunk = from + (Done + Chunk)
    BY <1>1
  <1>8. next % MemSize = Place(Done + Chunk)
    BY <1>3, <1>4, <1>5, <1>6, <1>7 DEF Place
  <1>9. ASSUME Aligned, left > Chunk PROVE next % PageSize = 0
    <2>1. Chunk = PageSize /\ (addr % PageSize) + PageSize <= PageSize
      BY <1>1, <1>9 DEF PagePlaced, Writing
    <2>2. addr % PageSize = 0
      <3>1. addr % PageSize \in Nat
        BY <1>1, Constants, DivMod
      <3> QED BY <2>1, <3>1, Constants
    <2>3. AddrSpace % PageSize = 0
      <3>1. (AddrSpace % MemSize) % PageSize = AddrSpace % PageSize
        BY Constants, ModMod
      <3>2. 0 % PageSize = 0
        BY Constants, ModSmall
      <3> QED BY <3>1, <3>2, Constants
    <2>4. ((addr + Chunk) % AddrSpace) % PageSize = (addr + Chunk) % PageSize
      BY <1>2, <2>3, Constants, ModMod
    <2>5. (addr + Chunk) % PageSize = ((addr % PageSize) + Chunk) % PageSize
      BY <1>1, Constants, ModAdd
    <2>6. (0 + PageSize) % PageSize = 0
      <3>1. 0 + PageSize = PageSize * 1 + 0 /\ 0 + PageSize \in Nat /\ 0 \in 0 .. PageSize - 1 /\ 1 \in Int
        BY Constants
      <3> QED BY <3>1, Constants, ModUnique
    <2> QED BY <2>1, <2>2, <2>4, <2>5, <2>6
  <1> QED BY <1>8, <1>9

\* All chunks but the last are whole pages.
LEMMA ChunksWhole ==
    ASSUME Shape, PagePlaced, op = "write", left > Chunk
    PROVE  (Done + Chunk) % PageSize = 0
  <1>1. /\ Done \in Nat /\ left \in Nat /\ PageSize \in Nat \ {0}
        /\ Chunk = left \/ (Chunk = PageSize /\ left > PageSize)
    BY WriteNumbers, ChipTyped, ChunkType, Constants DEF Shape, Writing
  <1>2. Chunk = PageSize /\ left > 0
    BY <1>1
  <1>3. Done % PageSize = 0
    BY <1>2 DEF PagePlaced, Writing
  <1>4. Done = PageSize * (Done \div PageSize) /\ Done \div PageSize \in Nat
    <2>1. Done = PageSize * (Done \div PageSize) + (Done % PageSize) /\ Done \div PageSize \in Nat
      BY <1>1, DivMod
    <2> QED BY <1>1, <1>3, <2>1
  <1> DEFINE d == Done
             q == Done \div PageSize
  <1>5. d = PageSize * q /\ q \in Nat /\ d \in Nat
    BY <1>1, <1>4
  <1> HIDE DEF d, q
  <1>6. d + PageSize = PageSize * (q + 1) + 0 /\ d + PageSize \in Nat /\ 0 \in 0 .. PageSize - 1
        /\ q + 1 \in Int
    BY <1>1, <1>5
  <1>7. (d + PageSize) % PageSize = 0
    BY <1>1, <1>6, ModUnique
  <1> QED BY <1>2, <1>7 DEF d

\* Bytes before the chunk are in other pages than its own, which are in one.
LEMMA ChunkPage ==
    ASSUME NEW d \in Nat, d % PageSize = 0, NEW c \in 1 .. PageSize, NEW k \in 0 .. d + c - 1
    PROVE  /\ k >= d => SamePage(k, (d + c) - 1)
           /\ k < d => \A j \in k .. (d + c) - 1 : SamePage(j, k) => j < d
  <1> DEFINE q == d \div PageSize
  <1>1. d = PageSize * q /\ q \in Nat /\ PageSize \in Nat \ {0}
    <2>1. d = PageSize * q + (d % PageSize) /\ q \in Nat /\ PageSize \in Nat \ {0}
      BY Constants, DivMod
    <2> HIDE DEF q
    <2> QED BY <2>1
  <1> HIDE DEF q
  <1>2. ASSUME NEW n \in d .. (d + c) - 1 PROVE n \div PageSize = q
    <2>1. n = PageSize * q + (n - d) /\ n - d \in 0 .. PageSize - 1 /\ n \in Nat /\ q \in Int
      BY <1>1, <1>2
    <2> QED BY <1>1, <2>1, ModUnique
  <1>3. ASSUME NEW n \in 0 .. d - 1 PROVE n \div PageSize # q
    <2>1. n = PageSize * (n \div PageSize) + (n % PageSize) /\ n % PageSize \in Nat /\ n \in Nat
      BY <1>1, DivMod
    <2> DEFINE m == n % PageSize
    <2>2. n \div PageSize = q => n = PageSize * q + m /\ m \in Nat
      BY <2>1
    <2> HIDE DEF m
    <2> QED BY <1>1, <2>1, <2>2
  <1>4. (d + c) - 1 \in d .. (d + c) - 1
    BY <1>1
  <1>5. k >= d => SamePage(k, (d + c) - 1)
    <2> SUFFICES ASSUME k >= d PROVE SamePage(k, (d + c) - 1)
      OBVIOUS
    <2>1. k \in d .. (d + c) - 1
      BY <1>1
    <2> QED BY <1>2, <1>4, <2>1 DEF SamePage
  <1>6. ASSUME k < d, NEW j \in k .. (d + c) - 1, SamePage(j, k) PROVE j < d
    <2> SUFFICES ASSUME ~ (j < d) PROVE FALSE
      OBVIOUS
    <2>1. j \in d .. (d + c) - 1 /\ k \in 0 .. d - 1
      BY <1>1, <1>6
    <2> QED BY <1>2, <1>3, <1>6, <2>1 DEF SamePage
  <1> QED BY <1>5, <1>6

\* At the end of a page its bytes, up to a refused one, are on their way into the
\* memory; the rest is as it was.
LEMMA PageStopped ==
    ASSUME Shape, DriverInv, StopPage
    PROVE  InOrder'
  <1>1. /\ pc = "stop" /\ UNCHANGED <<mem, latch>> /\ busy' = (busy \/ latch # NoLatch)
        /\ left' = left - Chunk /\ UNCHANGED <<op, from, size, refused, calls, was, cut>>
    BY DEF StopPage, EndPage, Stop, rest
  <1>2. op = "write" /\ ~busy /\ left > 0 /\ cut = "none"
    BY <1>1, ChipTyped DEF Shape, CallShape, Writing, Reading, TypeOK, BusShape
  <1>3. /\ i \in Nat /\ i <= Chunk /\ Chunk \in 1 .. PageSize /\ left \in Nat /\ size \in Nat
        /\ Done \in Nat /\ Done + Chunk <= size /\ Done' = Done + Chunk
    BY <1>1, <1>2, ChipTyped, WriteNumbers, ChunkType, Constants DEF Shape, CallShape, Writing, Done
  <1>4. \A k : Place(k)' = Place(k) /\ Stamp(k)' = Stamp(k)
    BY <1>1 DEF Place, Stamp
  <1> SUFFICES ASSUME Aligned, size <= MemSize PROVE InOrder'
    BY <1>1 DEF InOrder, PagesInOrder, LastPending, Aligned
  <1>5. PagePlaced /\ PageLatched /\ PagesInOrder /\ Settled = mem /\ Wrote /\ TypeOK
    BY <1>2 DEF DriverInv, InOrder, Settled, Wrote, Shape
  <1>6. Done % PageSize = 0 /\ (~refused => i = Chunk)
    BY <1>1, <1>2, <1>5 DEF PagePlaced, Writing
  <1>7. /\ \A j \in 0 .. i - 1 : latch[Place(Done + j)] = Stamp(Done + j)
        /\ \A a \in Addr : latch[a] # Empty => \E j \in 0 .. i - 1 : a = Place(Done + j)
    BY <1>1, <1>2, <1>5, LatchOfPage
  <1>8. /\ \A a \in Addr : (\A k \in 0 .. Done - 1 : a # Place(k)) => mem[a] = was[a]
        /\ \A k \in 0 .. Done - 1 :
              \/ mem[Place(k)] = Stamp(k)
              \/ refused /\ \A j \in k .. Done - 1 : SamePage(j, k) => mem[Place(j)] = was[Place(j)]
    BY <1>2, <1>5 DEF PagesInOrder, Stored, Kept
  <1>9. \A a \in Addr : Settled'[a] = IF latch[a] = Empty THEN mem[a] ELSE latch[a]
    <2>1. CASE latch = NoLatch
      BY <1>1, <1>2, <2>1, LatchType DEF Settled
    <2>2. CASE latch # NoLatch
      BY <1>1, <1>2, <2>2 DEF Settled, Merged
    <2> QED BY <2>1, <2>2
  <1>10. \A k \in 0 .. size - 1 : k \in Nat /\ Place(k) \in Addr
    BY <1>3, <1>5, PlaceType
  <1>11. \A j, k \in 0 .. size - 1 : Place(j) = Place(k) => j = k
    BY <1>5, PlaceInjective
  <1>12. \A k \in 0 .. size - 1 : ~ (Done <= k /\ k < Done + i) => latch[Place(k)] = Empty
    <2> SUFFICES ASSUME NEW k \in 0 .. size - 1, ~ (Done <= k /\ k < Done + i),
                        latch[Place(k)] # Empty
                 PROVE  FALSE
      OBVIOUS
    <2>1. PICK j \in 0 .. i - 1 : Place(k) = Place(Done + j)
      BY <1>7, <1>10
    <2>2. Done + j \in 0 .. size - 1
      BY <1>3
    <2>3. k = Done + j
      BY <1>11, <2>1, <2>2
    <2> QED BY <1>3, <2>3
  <1>13. \A k \in Done .. size - 1 : mem[Place(k)] = was[Place(k)]
    <2> SUFFICES ASSUME NEW k \in Done .. size - 1 PROVE mem[Place(k)] = was[Place(k)]
      OBVIOUS
    <2>1. k \in 0 .. size - 1
      BY <1>3
    <2>2. ASSUME NEW n \in 0 .. Done - 1 PROVE Place(k) # Place(n)
      <3>1. n \in 0 .. size - 1 /\ n # k
        BY <1>3
      <3> QED BY <1>11, <2>1, <3>1
    <2> QED BY <1>8, <1>10, <2>1, <2>2
  <1>14. \A k \in 0 .. Done - 1 : k \in 0 .. size - 1 /\ Settled'[Place(k)] = mem[Place(k)]
    <2> SUFFICES ASSUME NEW k \in 0 .. Done - 1
                 PROVE  k \in 0 .. size - 1 /\ Settled'[Place(k)] = mem[Place(k)]
      OBVIOUS
    <2>1. k \in 0 .. size - 1 /\ ~ (Done <= k /\ k < Done + i)
      BY <1>3
    <2> QED BY <1>9, <1>10, <1>12, <2>1
  <1>15. ASSUME NEW a \in Addr, \A k \in 0 .. (Done + Chunk) - 1 : a # Place(k)
         PROVE  Settled'[a] = was[a]
    <2>1. \A k \in 0 .. Done - 1 : a # Place(k)
      BY <1>3, <1>15
    <2>2. latch[a] = Empty
      <3> SUFFICES ASSUME latch[a] # Empty PROVE FALSE
        OBVIOUS
      <3>1. PICK j \in 0 .. i - 1 : a = Place(Done + j)
        BY <1>7
      <3>2. Done + j \in 0 .. (Done + Chunk) - 1
        BY <1>3
      <3> QED BY <1>15, <3>1, <3>2
    <2> QED BY <1>8, <1>9, <2>1, <2>2
  <1>16. ASSUME NEW k \in 0 .. (Done + Chunk) - 1
         PROVE  \/ Settled'[Place(k)] = Stamp(k)
                \/ refused /\ \A j \in k .. (Done + Chunk) - 1 :
                                  SamePage(j, k) => Settled'[Place(j)] = was[Place(j)]
    <2>1. CASE k < Done
      <3>1. k \in 0 .. Done - 1
        BY <1>3, <2>1
      <3>2. CASE mem[Place(k)] = Stamp(k)
        BY <1>14, <3>1, <3>2
      <3>3. CASE refused /\ \A j \in k .. Done - 1 : SamePage(j, k) => mem[Place(j)] = was[Place(j)]
        <4> SUFFICES ASSUME NEW j \in k .. (Done + Chunk) - 1, SamePage(j, k)
                     PROVE  Settled'[Place(j)] = was[Place(j)]
          BY <3>3
        <4>1. j < Done
          BY <1>3, <1>6, <2>1, ChunkPage
        <4>2. j \in k .. Done - 1 /\ j \in 0 .. Done - 1
          BY <1>3, <4>1
        <4> QED BY <1>14, <3>3, <4>2
      <3> QED BY <1>8, <3>1, <3>2, <3>3
    <2>2. CASE Done <= k /\ k < Done + i
      <3>1. k - Done \in 0 .. i - 1 /\ Done + (k - Done) = k /\ k \in 0 .. size - 1
        BY <1>3, <2>2
      <3>2. latch[Place(k)] = Stamp(k)
        BY <1>7, <3>1
      <3>3. Stamp(k) # Empty
        <4>1. k \in 0 .. MaxSize - 1 /\ calls >= 1 /\ calls \in Nat
          BY <1>2, <1>3, <3>1, WriteNumbers, ChipTyped, Constants DEF Shape, Writing
        <4> QED BY <4>1, StampType, LatchType
      <3> QED BY <1>9, <1>10, <3>1, <3>2, <3>3
    <2>3. CASE k >= Done + i
      <3>1. refused
        BY <1>3, <1>6, <2>3
      <3> SUFFICES ASSUME NEW j \in k .. (Done + Chunk) - 1
                   PROVE  Settled'[Place(j)] = was[Place(j)]
        BY <3>1
      <3>2. j \in 0 .. size - 1 /\ j \in Done .. size - 1 /\ ~ (Done <= j /\ j < Done + i)
        BY <1>3, <2>3
      <3> QED BY <1>9, <1>10, <1>12, <1>13, <3>2
    <2> QED BY <1>3, <2>1, <2>2, <2>3
  <1>17. PagesInOrder'
    <2> HIDE DEF Settled
    <2> QED BY <1>1, <1>3, <1>4, <1>15, <1>16 DEF PagesInOrder, Stored, Kept, Place, Stamp
  <1>18. LastPending'
    <2> SUFFICES ASSUME NEW a \in Addr, latch[a] # Empty
                 PROVE  /\ mem[a] = was[a]
                        /\ \E k \in 0 .. (Done + Chunk) - 1 :
                               a = Place(k) /\ SamePage(k, (Done + Chunk) - 1)
      BY <1>1, <1>3, <1>4 DEF LastPending, Place
    <2>1. PICK j \in 0 .. i - 1 : a = Place(Done + j)
      BY <1>7
    <2>2. Done + j \in Done .. size - 1 /\ Done + j \in 0 .. (Done + Chunk) - 1 /\ Done + j >= Done
      BY <1>3
    <2>3. SamePage(Done + j, (Done + Chunk) - 1)
      BY <1>3, <1>6, <2>2, ChunkPage
    <2> QED BY <1>13, <2>1, <2>2, <2>3
  <1> QED BY <1>17, <1>18 DEF InOrder

LEMMA StopPageKeeps ==
    ASSUME Shape, DriverInv, StopPage
    PROVE  DriverInv'
  <1>1. /\ pc = "stop" /\ mode' = "idle" /\ UNCHANGED <<mem, latch, ptr, nacks>>
        /\ busy' = (busy \/ latch # NoLatch)
        /\ written' = written + i /\ addr' = (addr + Chunk) % AddrSpace
        /\ left' = left - Chunk /\ i' = 0
        /\ pc' \in {"idle", "begin"}
        /\ UNCHANGED <<op, from, size, got, refused, calls>>
    BY DEF StopPage, EndPage, Stop, rest
  <1>2. op = "write" /\ ~busy /\ left > 0
    BY <1>1, ChipTyped DEF Shape, CallShape, Writing, Reading, TypeOK, BusShape
  <1>3. /\ i \in Nat /\ i <= Chunk /\ Chunk \in Nat /\ Chunk <= left /\ left \in Nat /\ size \in Nat
        /\ written \in Nat /\ written <= Done /\ Done \in Nat /\ from \in Nat
        /\ Done' = Done + Chunk /\ Done + left = size
    BY <1>1, <1>2, ChipTyped, WriteNumbers DEF Shape, CallShape, Writing, Done
  <1>4. PageLatched'
    BY <1>1 DEF PageLatched
  <1>5. NoneNewer'
    BY <1>1, KeepNewer DEF DriverInv
  <1>6. ReadSoFar'
    BY <1>1, <1>2 DEF ReadSoFar, Reading
  <1>7. PagePlaced'
    <2>1. /\ addr' % MemSize = Place(Done + Chunk)
          /\ Aligned /\ left > Chunk => addr' % PageSize = 0
      BY <1>1, <1>2, NextPagePlaced DEF DriverInv
    <2>2. Place(Done)' = Place(Done + Chunk) /\ (Aligned' <=> Aligned)
      BY <1>1, <1>3 DEF Place, Aligned
    <2>3. left' > 0 => left > Chunk
      BY <1>1, <1>3
    <2>4. left' \in Nat /\ Chunk' <= PageSize
      <3>1. left' \in Nat
        BY <1>1, <1>3
      <3>2. Chunk' = IF left' < PageSize THEN left' ELSE PageSize
        BY DEF Chunk, Smaller
      <3> QED BY <3>1, <3>2, Constants
    <2>5. Aligned' /\ left' > 0 => (addr' % PageSize) + Chunk' <= PageSize
      <3> SUFFICES ASSUME Aligned', left' > 0 PROVE (addr' % PageSize) + Chunk' <= PageSize
        OBVIOUS
      <3>1. addr' % PageSize = 0
        BY <2>1, <2>2, <2>3
      <3>2. Chunk' \in Nat
        <4>1. Chunk' = IF left' < PageSize THEN left' ELSE PageSize
          BY DEF Chunk, Smaller
        <4> QED BY <2>4, <4>1, Constants
      <3> QED BY <2>4, <3>1, <3>2
    <2>6. left' > 0 => Done' % PageSize = 0
      BY <1>1, <1>2, <1>3, <2>3, ChunksWhole DEF DriverInv
    <2> QED BY <1>1, <2>1, <2>2, <2>5, <2>6 DEF PagePlaced
  <1>8. RefusalCosts'
    <2> SUFFICES ASSUME refused PROVE written' < Done'
      BY <1>1, <1>2 DEF RefusalCosts, Writing
    <2>1. written < Done \/ i < Chunk
      BY <1>1, <1>2 DEF DriverInv, RefusalCosts, Writing
    <2> QED BY <1>1, <1>3, <2>1
  <1>9. InOrder'
    BY PageStopped
  <1> QED BY <1>4, <1>5, <1>6, <1>7, <1>8, <1>9 DEF DriverInv

LEMMA ReceiveKeeps ==
    ASSUME Shape, DriverInv, Receive
    PROVE  DriverInv'
  <1>1. /\ pc = "receive" /\ mode = "out" /\ ~busy /\ op = "read" /\ i = Len(got)
    BY DEF Receive, Shape, CallShape, Writing, Reading, BusShape, TypeOK
  <1>2. /\ ptr' = (ptr + 1) % MemSize /\ UNCHANGED <<mem, latch, mode, busy, nacks>>
        /\ got' = Append(got, mem[ptr]) /\ i' = i + 1 /\ pc' \in {"receive", "nack"}
        /\ UNCHANGED <<op, from, size, addr, left, written, refused, calls>>
    BY <1>1 DEF Receive, ByteOut, Sent, rest
  <1>3. Settled' = Settled /\ Settled = mem
    BY <1>1, <1>2, SettledKept DEF Shape, Settled
  <1>4. /\ got \in Seq(Nat \cup {Empty}) /\ i \in Nat /\ from \in Nat
        /\ mem[ptr] \in Nat \cup {Empty}
    BY ChipTyped DEF Shape
  <1>5. /\ Len(got') = i + 1 /\ got'[i + 1] = mem[ptr]
        /\ \A k \in 1 .. i : got'[k] = got[k]
    BY <1>1, <1>2, <1>4
  <1>6. NoneNewer'
    BY <1>2, KeepNewer DEF DriverInv
  <1>7. ReadSoFar'
    <2> SUFFICES ASSUME ~refused PROVE /\ ptr' = Place(i)'
                                      /\ \A k \in 1 .. Len(got') : got'[k] = Settled'[Place(k - 1)']
      BY <1>2 DEF ReadSoFar, Reading, Place
    <2>1. ptr = Place(i) /\ \A k \in 1 .. i : got[k] = Settled[Place(k - 1)]
      BY <1>1 DEF DriverInv, ReadSoFar, Reading
    <2>3. ptr' = (from + (i + 1)) % MemSize
      <3>1. from + i \in Nat /\ (from + i) + 1 = from + (i + 1)
        BY <1>4
      <3>2. (((from + i) % MemSize) + 1) % MemSize = ((from + i) + 1) % MemSize
        BY <3>1, Constants, ModAdd
      <3> QED BY <1>2, <2>1, <3>1, <3>2 DEF Place
    <2>4. ASSUME NEW k \in 1 .. i + 1 PROVE got'[k] = Settled[Place(k - 1)]
      <3>1. CASE k = i + 1
        <4>1. k - 1 = i
          BY <1>4, <3>1
        <4> QED BY <1>3, <1>5, <2>1, <3>1, <4>1
      <3>2. CASE k # i + 1
        <4>1. k \in 1 .. i
          BY <1>4, <3>2
        <4> QED BY <1>5, <2>1, <4>1
      <3> QED BY <3>1, <3>2
    <2>5. \A k \in 1 .. i + 1 : Place(k - 1)' = Place(k - 1)
      BY <1>2 DEF Place
    <2>6. ptr' = Place(i)'
      BY <1>2, <2>3 DEF Place
    <2> QED BY <1>3, <1>5, <2>4, <2>5, <2>6
  <1>8. PageLatched' /\ PagePlaced' /\ RefusalCosts'
    BY <1>1, <1>2 DEF PageLatched, PagePlaced, RefusalCosts, Writing
  <1>9. InOrder'
    <2>1. cut' = cut
      BY DEF Receive, rest
    <2>2. ~Wrote'
      BY <1>1, <1>2, <2>1 DEF Shape, CallShape, Wrote
    <2> QED BY <2>2 DEF InOrder, PagesInOrder, LastPending
  <1> QED BY <1>6, <1>7, <1>8, <1>9 DEF DriverInv

LEMMA CallWriteKeeps ==
    ASSUME Shape, DriverInv, NEW a \in 0 .. AddrSpace - 1, NEW n \in 0 .. MaxSize, CallWrite(a, n)
    PROVE  DriverInv'
  <1>1. /\ op' = "write" /\ from' = a /\ size' = n /\ addr' = a /\ left' = n /\ i' = 0
        /\ written' = 0 /\ got' = <<>> /\ refused' = FALSE /\ calls' = calls + 1
        /\ UNCHANGED <<mem, latch, ptr, mode, busy>> /\ pc' \in {"idle", "begin"}
    BY DEF CallWrite, Call, chip
  <1>2. a \in Nat /\ n \in Nat /\ a + 0 = a /\ calls \in Nat /\ n <= MaxSize
    BY Constants, ChipTyped DEF Shape
  <1>3. NoneNewer'
    BY <1>1, KeepNewer DEF DriverInv
  <1>4. PageLatched' /\ ReadSoFar' /\ RefusalCosts'
    BY <1>1 DEF PageLatched, ReadSoFar, Reading, RefusalCosts
  <1>5. PagePlaced'
    <2>1. Done' = 0
      BY <1>1, <1>2 DEF Done
    <2>2. addr' % MemSize = Place(Done)'
      BY <1>1, <1>2, <2>1 DEF Place
    <2>3. ASSUME Aligned' PROVE (a % PageSize) + Chunk' <= PageSize
      <3>1. a % PageSize \in Nat
        BY <1>2, Constants, DivMod
      <3>2. Chunk' = IF n < PageSize THEN n ELSE PageSize
        BY <1>1 DEF Chunk, Smaller
      <3>3. a % PageSize = 0 \/ (a % PageSize) + n <= PageSize
        BY <1>1, <2>3 DEF Aligned
      <3> QED BY <1>2, <3>1, <3>2, <3>3, Constants
    <2>4. Done' % PageSize = 0
      BY <2>1, Constants, ModSmall
    <2> QED BY <1>1, <2>2, <2>3, <2>4 DEF PagePlaced
  <1>6. InOrder'
    <2>1. Done' = 0 /\ Settled' = was'
      <3>1. Settled' = Settled /\ was' = Settled
        BY <1>1, SettledKept DEF CallWrite, Call, Shape
      <3> QED BY <1>1, <1>2, <3>1 DEF Done
    <2> QED BY <2>1 DEF InOrder, PagesInOrder, LastPending
  <1> QED BY <1>3, <1>4, <1>5, <1>6 DEF DriverInv

LEMMA CallReadKeeps ==
    ASSUME Shape, DriverInv, NEW a, NEW n, CallRead(a, n)
    PROVE  DriverInv'
  <1>1. /\ op' = "read" /\ got' = <<>> /\ calls' = calls + 1 /\ pc' = "begin"
        /\ UNCHANGED <<mem, latch, ptr, mode, busy>>
    BY DEF CallRead, Call, chip
  <1>2. NoneNewer'
    BY <1>1, KeepNewer DEF DriverInv
  <1>3. ReadSoFar'
    BY <1>1 DEF ReadSoFar
  <1>4. PageLatched' /\ PagePlaced' /\ RefusalCosts'
    BY <1>1 DEF PageLatched, PagePlaced, RefusalCosts, Writing
  <1>5. InOrder'
    <2>1. ~Wrote'
      BY <1>1 DEF CallRead, Call, Wrote
    <2> QED BY <2>1 DEF InOrder, PagesInOrder, LastPending
  <1> QED BY <1>2, <1>3, <1>4, <1>5 DEF DriverInv

\* What is stored when the power goes: the last page may be torn, any other page
\* is as it was.
LEMMA PowerTears ==
    ASSUME Shape, InOrder, CyclePower
    PROVE  InOrder'
  <1>1. /\ UNCHANGED <<from, size, left, refused, calls>> /\ PowerCycle
        /\ was' = (IF left = size THEN mem' ELSE was)
    BY DEF CyclePower, Aborted
  <1>2. /\ mem' \in [Addr -> Nat] /\ latch' = NoLatch /\ busy' = FALSE
        /\ \A a \in Addr : mem'[a] \in IF (IF busy THEN latch ELSE NoLatch)[a] = Empty THEN {mem[a]}
                                         ELSE {mem[a], (IF busy THEN latch ELSE NoLatch)[a]}
    BY <1>1, PowerLossEffect DEF Shape
  <1>3. Settled' = mem'
    BY <1>2 DEF Settled
  <1>4. ASSUME NEW a \in Addr
        PROVE  mem'[a] = Settled[a] \/ (busy /\ latch[a] # Empty /\ mem'[a] = mem[a])
    <2>1. CASE busy
      <3>1. Settled[a] = IF latch[a] = Empty THEN mem[a] ELSE latch[a]
        BY <2>1 DEF Settled, Merged
      <3> QED BY <1>2, <2>1, <3>1
    <2>2. CASE ~busy
      BY <1>2, <2>2, LatchType DEF Settled
    <2> QED BY <2>1, <2>2
  <1>5. LastPending'
    BY <1>2 DEF LastPending
  <1>6. \A k : Place(k)' = Place(k) /\ Stamp(k)' = Stamp(k)
    BY <1>1 DEF Place, Stamp
  <1>7. Done' = Done /\ (Aligned' <=> Aligned) /\ Done \in Nat /\ size \in Nat /\ Done <= size
    BY <1>1, ChipTyped DEF Done, Aligned, Shape
  <1>8. Wrote' => Wrote
    BY DEF CyclePower, Aborted, Wrote
  <1> SUFFICES ASSUME Wrote, Aligned, size <= MemSize PROVE PagesInOrder'
    BY <1>1, <1>5, <1>7, <1>8 DEF InOrder, PagesInOrder
  <1>9. CASE left = size
    <2>1. Done' = 0 /\ Settled' = was'
      BY <1>1, <1>3, <1>7, <1>9 DEF Done
    <2> QED BY <2>1 DEF PagesInOrder
  <1>10. CASE left # size
    <2>1. was' = was /\ Done > 0
      BY <1>1, <1>7, <1>10, ChipTyped DEF Done, Shape
    <2>2. busy \/ cut = "torn" => cut' = "torn"
      BY DEF CyclePower, Aborted
    <2>3. ASSUME NEW a \in Addr, mem'[a] # Settled[a]
          PROVE  /\ mem'[a] = was[a] /\ cut' = "torn"
                 /\ \E k \in 0 .. Done - 1 : a = Place(k) /\ SamePage(k, Done - 1)
      <3>1. busy /\ latch[a] # Empty /\ mem'[a] = mem[a]
        BY <1>4, <2>3
      <3> QED BY <2>1, <2>2, <3>1 DEF InOrder, LastPending
    <2>4. PagesInOrder
      BY DEF InOrder
    <2>5. \A k \in 0 .. Done - 1 : Place(k) \in Addr /\ k \in 0 .. size - 1
      BY <1>7, PlaceType DEF Shape
    <2>6. ASSUME NEW a \in Addr, \A k \in 0 .. Done - 1 : a # Place(k)
          PROVE  mem'[a] = was[a]
      BY <2>3, <2>4, <2>6 DEF PagesInOrder
    <2>7. \A k \in 0 .. Done - 1 : Kept(k) => mem'[Place(k)] = was[Place(k)]
      BY <2>3, <2>5 DEF Kept
    <2>8. ASSUME NEW k \in 0 .. Done - 1
          PROVE  \/ mem'[Place(k)] = Stamp(k)
                 \/ cut' = "torn" /\ SamePage(k, Done - 1) /\ mem'[Place(k)] = was[Place(k)]
                 \/ refused /\ \A j \in k .. Done - 1 :
                                  SamePage(j, k) => mem'[Place(j)] = was[Place(j)]
      <3>1. CASE mem'[Place(k)] # Settled[Place(k)]
        <4>1. /\ mem'[Place(k)] = was[Place(k)] /\ cut' = "torn"
              /\ \E n \in 0 .. Done - 1 : Place(k) = Place(n) /\ SamePage(n, Done - 1)
          BY <2>3, <2>5, <3>1
        <4>2. SamePage(k, Done - 1)
          BY <2>5, <4>1, PlaceInjective DEF Shape
        <4> QED BY <4>1, <4>2
      <3>2. CASE mem'[Place(k)] = Settled[Place(k)]
        <4>1. CASE Stored(k)
          BY <3>2, <4>1 DEF Stored
        <4>2. CASE cut = "torn" /\ SamePage(k, Done - 1) /\ Kept(k)
          BY <2>2, <2>7, <4>2
        <4>3. CASE refused /\ \A j \in k .. Done - 1 : SamePage(j, k) => Kept(j)
          <5>1. \A j \in k .. Done - 1 : j \in 0 .. Done - 1
            BY <1>7
          <5> QED BY <2>7, <4>3, <5>1
        <4> QED BY <2>4, <4>1, <4>2, <4>3 DEF PagesInOrder
      <3> QED BY <3>1, <3>2
    <2> DEFINE m == mem'
               t == cut'
    <2>9. /\ \A a \in Addr : (\A k \in 0 .. Done - 1 : a # Place(k)) => m[a] = was[a]
          /\ \A k \in 0 .. Done - 1 :
                 \/ m[Place(k)] = Stamp(k)
                 \/ t = "torn" /\ SamePage(k, Done - 1) /\ m[Place(k)] = was[Place(k)]
                 \/ refused /\ \A j \in k .. Done - 1 : SamePage(j, k) => m[Place(j)] = was[Place(j)]
      BY <2>6, <2>8
    <2>10. Settled' = m /\ cut' = t
      BY <1>3
    <2> HIDE DEF m, t, Settled
    <2> QED BY <1>1, <1>6, <1>7, <2>1, <2>9, <2>10 DEF PagesInOrder, Stored, Kept, Place, Stamp
  <1> QED BY <1>9, <1>10

\* A reset leaves what the chip has and what it stores.
LEMMA ResetLeaves ==
    ASSUME InOrder, Reset
    PROVE  InOrder'
  <1>1. /\ UNCHANGED <<mem, latch, busy, was, from, size, left, refused, calls>>
        /\ cut = "torn" => cut' = "torn"
        /\ Wrote' => Wrote
    BY DEF Reset, Aborted, chip, Wrote
  <1>2. Settled' = Settled
    BY <1>1 DEF Settled
  <1>3. \A k : Place(k)' = Place(k) /\ Stamp(k)' = Stamp(k)
    BY <1>1 DEF Place, Stamp
  <1>4. Done' = Done /\ (Aligned' <=> Aligned)
    BY <1>1 DEF Done, Aligned
  <1>5. PagesInOrder'
    <2> HIDE DEF Settled
    <2> QED BY <1>1, <1>2, <1>3, <1>4 DEF InOrder, PagesInOrder, Stored, Kept, Place, Stamp
  <1>6. LastPending'
    BY <1>1, <1>3, <1>4 DEF InOrder, LastPending, Place
  <1> QED BY <1>5, <1>6 DEF InOrder

LEMMA AbortKeeps ==
    ASSUME Shape, DriverInv, Reset \/ CyclePower
    PROVE  DriverInv'
  <1>1. UNCHANGED <<mem, latch>> \/ PowerCycle
    BY DEF Reset, CyclePower, chip
  <1>2. op' = "none" /\ pc' = "idle" /\ calls' = calls
    BY DEF Reset, CyclePower, Aborted
  <1>3. ASSUME NEW a \in Addr PROVE mem'[a] \in {mem[a], latch[a]} /\ latch'[a] \in {latch[a], Empty}
    <2>1. CASE UNCHANGED <<mem, latch>>
      BY <2>1
    <2>2. CASE PowerCycle
      <3>1. /\ mem'[a] \in IF (IF busy THEN latch ELSE NoLatch)[a] = Empty THEN {mem[a]}
                           ELSE {mem[a], (IF busy THEN latch ELSE NoLatch)[a]}
            /\ latch' = NoLatch
        BY <2>2, PowerLossEffect DEF Shape
      <3>2. mem'[a] \in {mem[a], latch[a]}
        BY <3>1, LatchType
      <3> QED BY <3>1, <3>2, LatchType
    <2> QED BY <1>1, <2>1, <2>2
  <1>4. NoneNewer'
    BY <1>2, <1>3, KeepNewer DEF DriverInv
  <1>5. PageLatched' /\ ReadSoFar' /\ PagePlaced' /\ RefusalCosts'
    BY <1>2 DEF PageLatched, ReadSoFar, PagePlaced, RefusalCosts, Writing, Reading
  <1>6. InOrder'
    BY PowerTears, ResetLeaves DEF DriverInv
  <1> QED BY <1>4, <1>5, <1>6 DEF DriverInv

LEMMA DriverInit == Init => DriverInv
  <1> SUFFICES ASSUME Init PROVE DriverInv
    OBVIOUS
  <1>1. NoneNewer
    <2>1. Known = 0
      BY Constants DEF Init, Known
    <2>2. \A a \in Addr : mem[a] = 0 /\ latch[a] = -1
      BY LatchType DEF Init, ChipInit, Empty
    <2> QED BY <2>1, <2>2 DEF NoneNewer
  <1>2. PageLatched /\ ReadSoFar /\ PagePlaced /\ RefusalCosts
    BY DEF Init, PageLatched, ReadSoFar, PagePlaced, RefusalCosts, Writing, Reading
  <1>3. InOrder
    BY DEF Init, Wrote, InOrder, PagesInOrder, LastPending
  <1> QED BY <1>1, <1>2, <1>3 DEF DriverInv

LEMMA DriverStep == Shape /\ DriverInv /\ [Next]_vars => DriverInv'
  <1> SUFFICES ASSUME Shape, DriverInv, [Next]_vars PROVE DriverInv'
    OBVIOUS
  <1>1. CASE UNCHANGED vars
    <2>1. /\ UNCHANGED <<mem, latch, ptr, mode, busy, pc, i>>
          /\ UNCHANGED <<op, from, size, addr, left, written, got, refused, calls, was, cut>>
      BY <1>1 DEF vars, chip, driver, rest
    <2>2. Settled' = Settled
      BY <2>1 DEF Settled
    <2>3. PageLatched'
      <3>1. \A k : Stamp(k)' = Stamp(k)
        BY <2>1 DEF Stamp
      <3> QED BY <2>1, <3>1 DEF DriverInv, PageLatched, Done, Stamp
    <2>4. NoneNewer' /\ ReadSoFar'
      BY <2>1, <2>2, KeepNewer, KeepRead DEF DriverInv
    <2>5. PagePlaced'
      BY <2>1 DEF DriverInv, PagePlaced, Writing, Place, Done, Aligned, Chunk
    <2>6. RefusalCosts' /\ InOrder'
      BY <2>1, <2>2, KeepCosts, KeepOrder DEF DriverInv
    <2> QED BY <2>3, <2>4, <2>5, <2>6 DEF DriverInv
  <1>2. CASE \E w \in Writes : CallWrite(w[1], w[2])
    <2>1. PICK w \in Writes : CallWrite(w[1], w[2])
      BY <1>2
    <2>2. w[1] \in 0 .. AddrSpace - 1 /\ w[2] \in 0 .. MaxSize
      BY DriverAssumption
    <2> QED BY <2>1, <2>2, CallWriteKeeps
  <1>3. CASE \E r \in Reads : CallRead(r[1], r[2])
    BY <1>3, CallReadKeeps
  <1>4. CASE Step
    BY <1>4, StartKeeps, ControlKeeps, EndKeeps, AddressKeeps, SendDataKeeps, StopPageKeeps,
       ReceiveKeeps DEF Step
  <1>5. CASE CycleEnds
    BY <1>5, CycleKeeps
  <1>6. CASE Reset \/ CyclePower
    BY <1>6, AbortKeeps
  <1> QED BY <1>1, <1>2, <1>3, <1>4, <1>5, <1>6 DEF Next

\* Wherever the driver stands, the latch of the chip holds the page being sent,
\* the pages before it are stored and none after it is, and a read so far has
\* what is stored (eeprom.c:62-144).
THEOREM InvariantTheorem == Spec => [](Shape /\ DriverInv)
  <1>1. Init => Shape /\ DriverInv
    BY ShapeInit, DriverInit
  <1>2. (Shape /\ DriverInv) /\ [Next]_vars => (Shape /\ DriverInv)'
    BY ShapeStep, DriverStep
  <1> QED BY <1>1, <1>2, PTL DEF Spec

\* Every count and address of the driver stays in its range, for every size of
\* the chip and its pages and every set of calls.
THEOREM TypeTheorem == Spec => []TypeOK
  <1>1. Shape => TypeOK
    BY DEF Shape
  <1> QED BY <1>1, InvariantTheorem, PTL

\* Refused bytes, reset or cut off from power, a write has stored the pages it has
\* sent, in order, and touched nothing else; a refused byte costs the rest of its
\* page only, a loss of power tears the last page only (eeprom.c:24-33, 50-57).
THEOREM OrderTheorem == Spec => []PagesInOrder
  <1>1. DriverInv => PagesInOrder
    BY DEF DriverInv, InOrder
  <1> QED BY <1>1, InvariantTheorem, PTL

\* A full count means that every byte is stored where it was asked for,
\* whatever the chip refused on the way.
THEOREM CountTheorem == Spec => []FullCountMeansStored
  <1>1. Shape /\ DriverInv => FullCountMeansStored
    <2> SUFFICES ASSUME Shape, DriverInv, op = "write", pc = "idle", written = size, Aligned,
                        size <= MemSize, NEW k \in 0 .. size - 1
                 PROVE  Settled[Place(k)] = Stamp(k)
      BY DEF FullCountMeansStored
    <2>1. left = 0 /\ size \in Nat
      BY ChipTyped DEF Shape, CallShape, Writing
    <2>2. Done = size
      BY <2>1 DEF Done
    <2>3. ~refused
      BY <2>1, <2>2 DEF DriverInv, RefusalCosts, Writing
    <2>4. k \in 0 .. Done - 1 /\ cut = "none" /\ Wrote
      BY <2>1, <2>2 DEF Shape, CallShape, Wrote
    <2> QED BY <2>3, <2>4 DEF DriverInv, InOrder, PagesInOrder, Stored
  <1> QED BY <1>1, InvariantTheorem, PTL

\* A read that had its address taken returns what is stored there, page writes
\* that are still under way included.
THEOREM ReadTheorem == Spec => []ReadReturnsStored
  <1>1. Shape /\ DriverInv => ReadReturnsStored
    <2> SUFFICES ASSUME Shape, DriverInv, op = "read", pc = "idle", ~refused
                 PROVE  got = [k \in 1 .. size |-> Settled[Place(k - 1)]]
      BY DEF ReadReturnsStored
    <2>1. Len(got) = size /\ got \in Seq(Nat \cup {Empty}) /\ size \in Nat
      BY ChipTyped DEF Shape, CallShape, Reading
    <2>2. \A k \in 1 .. size : got[k] = Settled[Place(k - 1)]
      BY <2>1 DEF DriverInv, ReadSoFar, Reading
    <2>3. got = [k \in 1 .. size |-> got[k]]
      BY <2>1
    <2> QED BY <2>2, <2>3
  <1> QED BY <1>1, InvariantTheorem, PTL

-----------------------------------------------------------------------------
(* The driver with the chip implements PageStore.                          *)

Pending == IF busy THEN latch ELSE NoLatch

LEMMA StoreNames ==
    /\ Store!Empty = Empty /\ Store!Addr = Addr /\ Store!NoPage = NoLatch /\ Store!Chunk = Chunk
    /\ \A k : Store!Stamp(k) = Stamp(k)
    /\ \A a, k : Store!InPage(a, k) = PageCell(a, k)
  BY DEF Store!Empty, Store!Addr, Store!NoPage, Store!Chunk, Store!Stamp, Store!InPage,
         Empty, Addr, NoLatch, Chunk, Smaller, Stamp, PageCell

\* The latch at the end of a page is the page the store takes.
LEMMA LatchIsPage ==
    ASSUME Shape, PageLatched, pc = "stop", op = "write"
    PROVE  latch = Store!Page(i)
  <1>1. /\ addr \in Nat /\ i \in Nat /\ i <= PageSize /\ Done \in Nat
    <2>1. i \in Nat /\ i <= Chunk /\ addr \in Nat
      BY ChipTyped DEF Shape, CallShape, Writing
    <2> QED BY <2>1, WriteNumbers, Constants DEF Writing
  <1> DEFINE At(a, k) == a = PageCell(addr, k)
             page == [a \in Addr |->
                        IF \E k \in 0 .. i - 1 : At(a, k)
                        THEN Stamp(Done + CHOOSE k \in 0 .. i - 1 : At(a, k)) ELSE Empty]
  <1>2. Store!Page(i) = page
    BY StoreNames DEF Store!Page, Done
  <1>3. ASSUME NEW a \in Addr PROVE latch[a] = page[a]
    <2>1. CASE \E k \in 0 .. i - 1 : At(a, k)
      <3> DEFINE j == CHOOSE k \in 0 .. i - 1 : At(a, k)
      <3>1. j \in 0 .. i - 1 /\ At(a, j)
        BY <2>1
      <3>2. page[a] = Stamp(Done + j)
        BY <2>1
      <3> HIDE DEF j
      <3>3. latch[PageCell(addr, j)] = Stamp(Done + j)
        BY <3>1 DEF PageLatched
      <3> QED BY <3>1, <3>2, <3>3
    <2>2. CASE ~ \E k \in 0 .. i - 1 : At(a, k)
      <3>1. latch[a] = Empty
        BY <2>2 DEF PageLatched
      <3> QED BY <2>2, <3>1
    <2> QED BY <2>1, <2>2
  <1>4. latch = [a \in Addr |-> latch[a]]
    BY ChipTyped DEF Shape
  <1> QED BY <1>2, <1>3, <1>4

\* A step that the store does not see.
LEMMA StoreStutters ==
    ASSUME UNCHANGED <<mem, op, from, size, addr, left, written, got, calls>>,
           Pending' = Pending, (pc' # "idle") <=> (pc # "idle")
    PROVE  UNCHANGED Store!vars
  BY DEF Store!vars, Pending

LEMMA StopPageTakes ==
    ASSUME Shape, DriverInv, StopPage
    PROVE  Store!Next
  <1>1. /\ pc = "stop" /\ UNCHANGED <<mem, latch>>
        /\ busy' = (busy \/ latch # NoLatch)
        /\ written' = written + i /\ addr' = (addr + Chunk) % AddrSpace
        /\ left' = left - Chunk
        /\ pc' = (IF left' = 0 THEN "idle" ELSE "begin")
        /\ UNCHANGED <<op, from, size, got, calls>>
    BY DEF StopPage, EndPage, Stop, rest
  <1>2. op = "write" /\ ~busy
    BY <1>1, ChipTyped DEF Shape, CallShape, Writing, Reading, TypeOK, BusShape
  <1>3. i \in 0 .. Chunk
    BY <1>1, <1>2, ChipTyped, WriteNumbers DEF Shape, CallShape, Writing
  <1>4. latch = Store!Page(i)
    BY <1>1, <1>2, LatchIsPage DEF DriverInv
  <1>5. Pending = NoLatch /\ Pending' = latch
    BY <1>1, <1>2 DEF Pending
  <1>6. Store!TakePage(i)
    BY <1>1, <1>2, <1>4, <1>5, StoreNames DEF Store!TakePage, Store!args, Pending
  <1> QED BY <1>3, <1>6, StoreNames DEF Store!Next

LEMMA ReceiveGets ==
    ASSUME Shape, Receive
    PROVE  Store!Next
  <1>1. /\ pc = "receive" /\ mode = "out" /\ ~busy /\ op = "read" /\ i = Len(got) /\ i < size
    BY DEF Receive, Shape, CallShape, Writing, Reading, BusShape, TypeOK
  <1>2. /\ UNCHANGED <<mem, latch, busy>> /\ got' = Append(got, mem[ptr])
        /\ pc' \in {"receive", "nack"}
        /\ UNCHANGED <<op, from, size, addr, left, written, calls>>
    BY <1>1 DEF Receive, ByteOut, Sent, rest
  <1>3. Store!Get(ptr)
    BY <1>1, <1>2, StoreNames DEF Store!Get, Store!args, Store!state
  <1>4. ptr \in Store!Addr
    BY StoreNames, ChipTyped DEF Shape
  <1> QED BY <1>3, <1>4 DEF Store!Next

LEMMA StopReadReturns ==
    ASSUME Shape, StopRead
    PROVE  Store!Next
  <1>1. /\ pc = "readstop" /\ op = "read" /\ Len(got) = size /\ ~busy /\ latch = NoLatch
    BY DEF StopRead, Shape, CallShape, Writing, Reading, BusShape, LatchShape, TypeOK
  <1>2. /\ UNCHANGED <<mem, latch>> /\ busy' = (busy \/ latch # NoLatch) /\ pc' = "idle"
        /\ UNCHANGED <<op, from, size, addr, left, written, got, calls>>
    BY DEF StopRead, Stop, driver, rest
  <1> QED BY <1>1, <1>2 DEF Store!Next, Store!Return, Store!args, Store!state

LEMMA CycleStores ==
    ASSUME Shape, CycleEnds
    PROVE  Store!Next
  <1>1. /\ busy /\ busy' = FALSE /\ mem' = Merged(mem, latch) /\ latch' = NoLatch
        /\ UNCHANGED <<op, from, size, addr, left, written, got, calls, pc>>
    BY DEF CycleEnds, WriteCycleEnds, driver, rest
  <1> QED BY <1>1, StoreNames DEF Store!Next, Store!PageStored, Store!args, Merged

LEMMA ResetInterrupts ==
    ASSUME Reset
    PROVE  Store!Next
  BY DEF Reset, Aborted, chip, Store!Next, Store!Interrupt, Store!state

LEMMA PowerLoses ==
    ASSUME Shape, CyclePower
    PROVE  Store!Next
  <1>1. /\ pc' = "idle" /\ op' = "none"
        /\ UNCHANGED <<from, size, addr, left, written, got, calls>> /\ PowerCycle
    BY DEF CyclePower, Aborted
  <1>2. /\ \A a \in Addr : mem'[a] \in IF Pending[a] = Empty THEN {mem[a]} ELSE {mem[a], Pending[a]}
        /\ busy' = FALSE /\ mem' \in [Addr -> Nat]
    BY <1>1, PowerLossEffect DEF Shape, Pending
  <1>3. mem' = [a \in Addr |-> mem'[a]] /\ Pending' = NoLatch
    BY <1>2 DEF Pending
  <1> QED BY <1>1, <1>2, <1>3, StoreNames DEF Store!Next, Store!PowerLoss, Pending

LEMMA StoreStep == Shape /\ DriverInv /\ [Next]_vars => [Store!Next]_(Store!vars)
  <1> SUFFICES ASSUME Shape, DriverInv, [Next]_vars
               PROVE  Store!Next \/ UNCHANGED Store!vars
    OBVIOUS
  <1>1. CASE UNCHANGED vars
    BY <1>1, StoreStutters DEF vars, chip, driver, rest, Pending
  <1>2. CASE \E w \in Writes : CallWrite(w[1], w[2])
    <2>1. PICK w \in Writes : CallWrite(w[1], w[2])
      BY <1>2
    <2>2. Store!Call("write", w[1], w[2])
      BY <2>1 DEF CallWrite, Call, chip, Store!Call, Store!state
    <2> QED BY <2>2 DEF Store!Next
  <1>3. CASE \E r \in Reads : CallRead(r[1], r[2])
    <2>1. PICK r \in Reads : CallRead(r[1], r[2])
      BY <1>3
    <2>2. Store!Call("read", r[1], r[2])
      BY <2>1 DEF CallRead, Call, chip, Store!Call, Store!state
    <2> QED BY <2>2 DEF Store!Next
  <1>4. CASE Begin \/ BeginRead
    <2>1. Pending' = Pending /\ (pc # "idle" /\ pc' # "idle")
          /\ UNCHANGED <<mem, op, from, size, addr, left, written, got, calls>>
      BY <1>4 DEF Begin, BeginRead, Start, driver, rest, Pending
    <2> QED BY <2>1, StoreStutters
  <1>5. CASE SendControl \/ SendReadControl
    <2>1. /\ UNCHANGED <<op, from, size, addr, left, written, got, calls>>
          /\ pc # "idle" /\ pc' # "idle" /\ \E ack, read \in BOOLEAN : Control(read, ack)
      BY <1>5 DEF SendControl, SendReadControl, driver, rest
    <2>2. UNCHANGED <<mem, latch, busy>>
      BY <2>1, ChipTyped, ControlEffect DEF Shape
    <2> QED BY <2>1, <2>2, StoreStutters DEF Pending
  <1>6. CASE SendHigh \/ SendLow \/ SendData
    <2>1. /\ UNCHANGED <<op, from, size, addr, left, written, got, calls>>
          /\ pc \in {"high", "low", "data"} /\ pc' # "idle" /\ \E b : \E ack \in BOOLEAN : ByteIn(b, ack)
      BY <1>6 DEF SendHigh, SendLow, SendData, rest
    <2>2. UNCHANGED <<mem, busy>> /\ ~busy
      BY <2>1, ChipTyped, ByteInEffect DEF Shape, BusShape
    <2> QED BY <2>1, <2>2, StoreStutters DEF Pending
  <1>7. CASE StopPage
    BY <1>7, StopPageTakes
  <1>8. CASE StopAddress \/ Nack
    <2>1. /\ UNCHANGED <<mem, op, from, size, addr, left, written, got, calls, latch>>
          /\ pc \in {"turn", "nack"} /\ pc' # "idle"
          /\ busy' = busy \/ busy' = (busy \/ latch # NoLatch)
      BY <1>8 DEF StopAddress, Nack, Stop, MasterNack, driver, rest
    <2>2. ~busy /\ latch = NoLatch
      BY <2>1 DEF Shape, BusShape, LatchShape
    <2> QED BY <2>1, <2>2, StoreStutters DEF Pending
  <1>9. CASE Receive
    BY <1>9, ReceiveGets
  <1>10. CASE StopRead
    BY <1>10, StopReadReturns
  <1>11. CASE CycleEnds \/ Reset \/ CyclePower
    BY <1>11, CycleStores, ResetInterrupts, PowerLoses
  <1> QED BY <1>1, <1>2, <1>3, <1>4, <1>5, <1>6, <1>7, <1>8, <1>9, <1>10, <1>11 DEF Next, Step

\* The driver with the chip implements a store that takes whole pages, one at a
\* time, and reads only what is stored.
THEOREM StoreTheorem == Spec => StoreSpec
  <1>1. Init => Store!Init
    BY StoreNames DEF Init, ChipInit, Store!Init
  <1> QED BY <1>1, StoreStep, InvariantTheorem, PTL DEF Spec, StoreSpec, Store!Spec
=============================================================================

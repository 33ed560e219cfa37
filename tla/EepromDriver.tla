---------------------------- MODULE EepromDriver ----------------------------
(***************************************************************************)
(* eeprom_write and eeprom_read (kernel/eeprom.c) over the I2C master      *)
(* (kernel/i2c.c), against the chip of Eeprom24.                           *)
(*                                                                         *)
(* A step is one call of an i2c_ routine, with the answer of the chip and  *)
(* the code up to the next such call: i2c_flush at the end of each routine *)
(* waits until the controller is done with it.  Between any two steps the  *)
(* board may be reset, which stops the program but not the chip, or its    *)
(* power may be cycled, which stops both.  A reset while the chip is       *)
(* sending leaves the bus held low; the start-up message of kernel.c asks  *)
(* for a power cycle then.                                                 *)
(*                                                                         *)
(* The bytes of the n-th call are stamps that occur in no other call, so   *)
(* that a byte in the wrong place can be told from the right one.          *)
(***************************************************************************)
EXTENDS Eeprom24, Sequences

CONSTANTS
    AddrSpace,  \* values of a uint16_t address (65536)
    Writes,     \* the calls of eeprom_write: pairs of address and size
    Reads,      \* the calls of eeprom_read
    MaxSize,    \* bound on the size of a write
    MaxCalls,   \* bound on the number of calls
    MaxResets   \* bound on resets and power cycles

ASSUME DriverAssumption ==
    /\ AddrSpace \in Nat \ {0} /\ AddrSpace % MemSize = 0
    /\ MaxSize \in Nat /\ Writes \subseteq (0 .. AddrSpace - 1) \X (0 .. MaxSize)
    /\ Reads \subseteq (0 .. AddrSpace - 1) \X (Nat \ {0})
    /\ MaxCalls \in Nat /\ MaxResets \in Nat

VARIABLES
    pc,       \* the i2c_ routine called next
    op,       \* "write" or "read", the call that runs or ran last
    from,     \* its address argument
    size,     \* its size argument
    addr,     \* eeprom_write's addr, as it moves on
    left,     \* eeprom_write's size, as it goes down
    i,        \* bytes transferred in this page or read
    written,  \* the count eeprom_write returns
    got,      \* the buffer of eeprom_read
    refused,  \* a byte other than a control byte was refused in this call
    calls,    \* calls so far
    resets,   \* resets and power cycles so far
    held,     \* the chip holds the bus after a reset
    was,      \* history: what was stored when the call began
    cut       \* history: "none", or what a write that was interrupted has left:
              \* its pages "whole", or the last of them "torn"

driver == <<op, from, size, addr, left, i, written, got, refused>>
rest == <<calls, resets, held, was, cut>>
vars == <<chip, driver, rest, pc>>

\* Byte k, from 0, of the data of the current call.
Stamp(k) == (calls - 1) * MaxSize + k + 1

Smaller(a, b) == IF a < b THEN a ELSE b
ChunkTooLong == Smaller(left, PageSize + 1)   \* mutant: size > 64 let through
Chunk == Smaller(left, PageSize)

Init ==
    /\ ChipInit
    /\ pc = "idle" /\ op = "none" /\ from = 0 /\ size = 0 /\ addr = 0 /\ left = 0
    /\ i = 0 /\ written = 0 /\ got = <<>> /\ refused = FALSE
    /\ calls = 0 /\ resets = 0 /\ held = FALSE
    /\ was = mem /\ cut = "none"

-----------------------------------------------------------------------------
(* The calls.                                                              *)
Call(o, a, n) ==
    /\ pc = "idle" /\ calls < MaxCalls
    /\ op' = o /\ from' = a /\ size' = n /\ addr' = a /\ left' = n
    /\ i' = 0 /\ written' = 0 /\ got' = <<>> /\ refused' = FALSE
    /\ calls' = calls + 1
    /\ was' = Settled /\ cut' = "none"
    /\ UNCHANGED <<chip, resets, held>>

\* The two tests against 0x7FFF have empty bodies.
CallWrite(a, n) ==
    /\ Call("write", a, n)
    /\ pc' = IF n = 0 THEN "idle" ELSE "begin"

CallRead(a, n) == Call("read", a, n) /\ pc' = "begin"

-----------------------------------------------------------------------------
(* Addressing the chip, the same in both routines.                         *)

\* i2c_begin
Begin ==
    /\ pc = "begin" /\ ~held
    /\ Start /\ pc' = "control"
    /\ UNCHANGED <<driver, rest>>

\* Mutant: polling without a new start condition.
SendControlNoStart ==
    /\ pc = "control"
    /\ \E ack \in BOOLEAN : Control(FALSE, ack) /\ pc' = IF ack THEN "high" ELSE "control"
    /\ UNCHANGED <<driver, rest>>

\* i2c_send of the control byte, until it is acknowledged.
SendControl ==
    /\ pc = "control"
    /\ \E ack \in BOOLEAN : Control(FALSE, ack) /\ pc' = IF ack THEN "high" ELSE "begin"
    /\ UNCHANGED <<driver, rest>>

\* The two address bytes; the answers are not looked at.
SendHigh ==
    /\ pc = "high"
    /\ \E ack \in BOOLEAN :
          /\ ByteIn(addr \div ByteBase, ack)
          /\ refused' = (refused \/ ~ack)
    /\ pc' = "low"
    /\ UNCHANGED <<op, from, size, addr, left, i, written, got, rest>>

SendLow ==
    /\ pc = "low"
    /\ \E ack \in BOOLEAN :
          /\ ByteIn(addr % ByteBase, ack)
          /\ refused' = (refused \/ ~ack)
    /\ pc' = IF op = "write" THEN "data" ELSE "turn"
    /\ UNCHANGED <<op, from, size, addr, left, i, written, got, rest>>

-----------------------------------------------------------------------------
(* eeprom_write_page and the loop of eeprom_write over pages.              *)

\* Mutant: dataptr stays at the first page.
SendDataSamePage ==
    /\ pc = "data"
    /\ \E ack \in BOOLEAN :
          /\ ByteIn(Stamp(i), ack)
          /\ refused' = (refused \/ ~ack)
          /\ i' = IF ack THEN i + 1 ELSE i
          /\ pc' = IF ack /\ i' < Chunk THEN "data" ELSE "stop"
    /\ UNCHANGED <<op, from, size, addr, left, written, got, rest>>

\* i2c_send of a data byte; a refused one ends the page.
SendData ==
    /\ pc = "data"
    /\ \E ack \in BOOLEAN :
          /\ ByteIn(Stamp(size - left + i), ack)
          /\ refused' = (refused \/ ~ack)
          /\ i' = IF ack THEN i + 1 ELSE i
          /\ pc' = IF ack /\ i' < Chunk THEN "data" ELSE "stop"
    /\ UNCHANGED <<op, from, size, addr, left, written, got, rest>>

\* i2c_end, after which n bytes count as written; the next page starts at next.
EndPage(n, next) ==
    /\ pc = "stop"
    /\ Stop
    /\ written' = written + n
    /\ addr' = next
    /\ left' = left - Chunk
    /\ i' = 0
    /\ pc' = IF left' = 0 THEN "idle" ELSE "begin"
    /\ UNCHANGED <<op, from, size, got, refused, rest>>

\* Mutants: a full chunk is counted; the address is wider than 16 bits.
StopPageCountsChunk == EndPage(Chunk, (addr + Chunk) % AddrSpace)
StopPageWide == EndPage(i, addr + Chunk)

\* The next page starts where a full chunk would have ended.
StopPage == EndPage(i, (addr + Chunk) % AddrSpace)

-----------------------------------------------------------------------------
(* The rest of eeprom_read.                                                *)

\* i2c_end after the address
StopAddress ==
    /\ pc = "turn"
    /\ Stop /\ pc' = "restart"
    /\ UNCHANGED <<driver, rest>>

\* i2c_begin again
BeginRead ==
    /\ pc = "restart" /\ ~held
    /\ Start /\ pc' = "readcontrol"
    /\ UNCHANGED <<driver, rest>>

SendReadControlOnce ==   \* mutant: the answer is not looked at
    /\ pc = "readcontrol"
    /\ \E ack \in BOOLEAN : Control(TRUE, ack)
    /\ pc' = "receive"
    /\ UNCHANGED <<driver, rest>>

SendReadControl ==
    /\ pc = "readcontrol"
    /\ \E ack \in BOOLEAN : Control(TRUE, ack) /\ pc' = IF ack THEN "receive" ELSE "restart"
    /\ UNCHANGED <<driver, rest>>

\* i2c_recv, then i2c_ack for all but the last byte.
Receive ==
    /\ pc = "receive"
    /\ ByteOut
    /\ got' = Append(got, Sent)
    /\ i' = i + 1
    /\ pc' = IF i' < size THEN "receive" ELSE "nack"
    /\ UNCHANGED <<op, from, size, addr, left, written, refused, rest>>

\* i2c_nack, then i2c_end.
Nack ==
    /\ pc = "nack"
    /\ MasterNack /\ pc' = "readstop"
    /\ UNCHANGED <<driver, rest>>

StopRead ==
    /\ pc = "readstop"
    /\ Stop /\ pc' = "idle"
    /\ UNCHANGED <<driver, rest>>

-----------------------------------------------------------------------------
(* The board.                                                              *)

\* A write runs, ran last, or was interrupted last.
Wrote == op = "write" \/ cut # "none"

Aborted(tears) ==
    /\ pc' = "idle" /\ op' = "none"
    /\ cut' = CASE ~Wrote -> "none"
                [] Wrote /\ (tears \/ cut = "torn") -> "torn"
                [] OTHER -> "whole"
    /\ UNCHANGED <<from, size, addr, left, i, written, got, refused, calls>>

\* The program starts afresh; i2c_setup sets up the controller only.
Reset ==
    /\ resets < MaxResets /\ resets' = resets + 1
    /\ Aborted(FALSE)
    /\ held' \in (IF mode = "out" THEN BOOLEAN ELSE {held})
    /\ UNCHANGED <<chip, was>>

\* Before the first page of a call is sent off, the page torn is one of the call
\* before it.
CyclePower ==
    /\ resets < MaxResets /\ resets' = resets + 1
    /\ Aborted(busy)
    /\ PowerCycle /\ held' = FALSE
    /\ was' = IF left = size THEN mem' ELSE was

CycleEnds == WriteCycleEnds /\ UNCHANGED <<driver, rest, pc>>

-----------------------------------------------------------------------------
Step ==
    \/ Begin \/ SendControl \/ SendHigh \/ SendLow \/ SendData \/ StopPage
    \/ StopAddress \/ BeginRead \/ SendReadControl \/ Receive \/ Nack \/ StopRead

Next ==
    \/ \E w \in Writes : CallWrite(w[1], w[2])
    \/ \E r \in Reads : CallRead(r[1], r[2])
    \/ Step \/ CycleEnds \/ Reset \/ CyclePower

Spec == Init /\ [][Next]_vars

\* The program runs on, and the chip ends what it does within its write time.
FairSpec == Spec /\ WF_vars(Step) /\ WF_vars(CycleEnds)

-----------------------------------------------------------------------------
(* What the driver promises.                                               *)

\* A call whose pages do not straddle the pages of the chip.  The kernel's own
\* calls (kernel.c:179, tests.c:50, 74) are of this kind.
Aligned == from % PageSize = 0 \/ (from % PageSize) + size <= PageSize

\* Where byte k of the call belongs, and the bytes stored so far.
Place(k) == (from + k) % MemSize
Done == size - left

TypeOK ==
    /\ mem \in [Addr -> Nat] /\ latch \in [Addr -> Nat \cup {Empty}] /\ ptr \in Addr
    /\ mode \in {"idle", "control", "high", "low", "in", "out", "deaf"}
    /\ busy \in BOOLEAN /\ nacks \in 0 .. MaxNacks
    /\ pc \in {"idle", "begin", "control", "high", "low", "data", "stop", "turn",
               "restart", "readcontrol", "receive", "nack", "readstop"}
    /\ op \in {"none", "write", "read"} /\ from \in 0 .. AddrSpace - 1 /\ size \in Nat
    /\ addr \in 0 .. AddrSpace - 1 /\ left \in 0 .. size /\ i \in 0 .. size
    /\ written \in 0 .. size /\ got \in Seq(Nat \cup {Empty}) /\ refused \in BOOLEAN
    /\ calls \in 0 .. MaxCalls /\ resets \in 0 .. MaxResets /\ held \in BOOLEAN
    /\ was \in [Addr -> Nat] /\ cut \in {"none", "whole", "torn"}

\* When eeprom_write returns the whole size, every byte is stored where it was
\* asked for, whatever bytes the chip refused (eeprom.c:20-35, 50-59).
FullCountMeansStored ==
    (op = "write" /\ pc = "idle" /\ written = size /\ Aligned /\ size <= MemSize)
        => \A k \in 0 .. size - 1 : Settled[Place(k)] = Stamp(k)

Stored(k) == Settled[Place(k)] = Stamp(k)
Kept(k) == Settled[Place(k)] = was[Place(k)]
SamePage(j, k) == j \div PageSize = k \div PageSize

\* Whenever it is looked at, refused a byte, reset or cut off from power, a write
\* has stored the pages it has sent, in order, and touched nothing else.  A page of
\* which the chip refused a byte is stored up to that byte; loss of power tears
\* the last page only (eeprom.c:24-33, 50-57).
PagesInOrder ==
    (Wrote /\ Aligned /\ size <= MemSize) =>
        /\ \A a \in Addr : (\A k \in 0 .. Done - 1 : a # Place(k)) => Settled[a] = was[a]
        /\ \A k \in 0 .. Done - 1 :
              \/ Stored(k)
              \/ cut = "torn" /\ SamePage(k, Done - 1) /\ Kept(k)
              \/ refused /\ \A j \in k .. Done - 1 : SamePage(j, k) => Kept(j)

\* A read returns what is stored, also right after a write whose internal cycle
\* is still running, unless an address byte was refused (eeprom.c:67-103).
ReadReturnsStored ==
    (op = "read" /\ pc = "idle" /\ ~refused)
        => got = [k \in 1 .. size |-> Settled[Place(k - 1)]]

\* "Can't write that far!" (eeprom.c:42, 45): a write that would run beyond
\* EEPROM_SIZE, the last address of the chip, stores nothing.
TooFarNotWritten ==
    [][ (op = "write" /\ from + size > MemSize - 1 /\ resets' = resets)
           => Settled' = Settled ]_vars

\* Every call returns, although the chip answers nothing while it writes
\* (eeprom.c:16-18, 67-69, 84-86), unless a reset left the bus held.
CallReturns == (pc # "idle" /\ ~held) ~> (pc = "idle")

\* The driver with the chip implements a store that takes whole pages, one at a
\* time, and reads only what is stored.
Store == INSTANCE PageStore WITH
            pending <- IF busy THEN latch ELSE NoLatch, calling <- pc # "idle"
StoreSpec == Store!Spec
=============================================================================

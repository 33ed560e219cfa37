------------------------------ MODULE Eeprom24 ------------------------------
(***************************************************************************)
(* The serial EEPROM on I2C1, as kernel/eeprom.c uses it (external: a part *)
(* of the board).  Data bytes go into a page latch, at the offset of the   *)
(* address within its page; the stop condition starts the internal write   *)
(* cycle, during which the chip answers no control byte; a start condition *)
(* forgets a page not yet stopped.  A read runs on over the whole memory.  *)
(* The chip may fail to acknowledge a byte, at most MaxNacks times, and    *)
(* then ignores the bus up to the next start.                              *)
(***************************************************************************)
EXTENDS Integers

CONSTANTS
    MemSize,    \* bytes of the chip (32768)
    PageSize,   \* bytes of its page latch (64)
    ByteBase,   \* values of an address byte (256)
    MaxNacks    \* bound on the refused bytes

ASSUME ChipAssumption ==
    /\ MemSize \in Nat \ {0} /\ PageSize \in Nat \ {0}
    /\ MemSize % PageSize = 0
    /\ ByteBase \in Nat \ {0} /\ MaxNacks \in Nat

VARIABLES
    mem,    \* the memory
    latch,  \* the page latch: a byte or Empty for each address
    ptr,    \* the address counter
    mode,   \* what the chip expects next on the bus
    busy,   \* the internal write cycle runs
    nacks   \* bytes refused so far

chip == <<mem, latch, ptr, mode, busy, nacks>>

Addr == 0 .. MemSize - 1
Empty == -1
NoLatch == [a \in Addr |-> Empty]

\* The address a page write moves on to: the page is a ring.
NextInPage(a) == ((a \div PageSize) * PageSize) + ((a + 1) % PageSize)

\* What a reader sees once the internal write cycle has ended.
Merged(m, l) == [a \in Addr |-> IF l[a] = Empty THEN m[a] ELSE l[a]]
Settled == IF busy THEN Merged(mem, latch) ELSE mem

ChipInit ==
    /\ mem = [a \in Addr |-> 0] /\ latch = NoLatch /\ ptr = 0
    /\ mode = "idle" /\ busy = FALSE /\ nacks = 0

\* A start condition.
Start ==
    /\ mode' = "control"
    /\ latch' = IF busy THEN latch ELSE NoLatch
    /\ UNCHANGED <<mem, ptr, busy, nacks>>

\* The chip does not answer the byte: it is deaf, it is busy, or it fails to.
Refuse ==
    /\ mode' = "deaf" /\ UNCHANGED <<mem, latch, ptr, busy>>
    /\ IF mode = "deaf" \/ busy THEN UNCHANGED nacks
                                ELSE nacks < MaxNacks /\ nacks' = nacks + 1

\* The control byte, for reading or writing, and the answer.
Control(read, ack) ==
    \/ /\ ack /\ mode = "control" /\ ~busy
       /\ mode' = IF read THEN "out" ELSE "high"
       /\ UNCHANGED <<mem, latch, ptr, busy, nacks>>
    \/ ~ack /\ Refuse

\* Any other byte to the chip: the address, then data into the latch.
ByteIn(b, ack) ==
    \/ /\ ack
       /\ \/ mode = "high" /\ mode' = "low" /\ ptr' = (b * ByteBase) % MemSize /\ UNCHANGED latch
          \/ mode = "low" /\ mode' = "in" /\ ptr' = (ptr + b) % MemSize /\ UNCHANGED latch
          \/ /\ mode = "in" /\ UNCHANGED mode
             /\ latch' = [latch EXCEPT ![ptr] = b]
             /\ ptr' = NextInPage(ptr)
       /\ UNCHANGED <<mem, busy, nacks>>
    \/ ~ack /\ Refuse

\* A byte from the chip; a chip that is not sending leaves the bus high.
Sent == IF mode = "out" THEN mem[ptr] ELSE Empty
ByteOut ==
    /\ ptr' = IF mode = "out" THEN (ptr + 1) % MemSize ELSE ptr
    /\ UNCHANGED <<mem, latch, mode, busy, nacks>>

\* The master does not acknowledge: the read ends.
MasterNack ==
    /\ mode' = "idle" /\ UNCHANGED <<mem, latch, ptr, busy, nacks>>

\* A stop condition: what is latched starts the internal write cycle.
Stop ==
    /\ mode' = "idle"
    /\ busy' = (busy \/ latch # NoLatch)
    /\ UNCHANGED <<mem, latch, ptr, nacks>>

\* The internal write cycle ends.
WriteCycleEnds ==
    /\ busy /\ busy' = FALSE
    /\ mem' = Merged(mem, latch) /\ latch' = NoLatch
    /\ UNCHANGED <<ptr, mode, nacks>>

\* Power is cycled: of a page in its write cycle any bytes may have been
\* written, a page only latched is lost.
PowerCycle ==
    /\ mem' \in {[a \in Addr |-> IF a \in S THEN latch[a] ELSE mem[a]] :
                    S \in SUBSET {a \in Addr : busy /\ latch[a] # Empty}}
    /\ latch' = NoLatch /\ ptr' = 0 /\ mode' = "idle" /\ busy' = FALSE
    /\ UNCHANGED nacks
=============================================================================

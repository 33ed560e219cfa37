------------------------------ MODULE SerialRx ------------------------------
(***************************************************************************)
(* The receive path of UART1 (kernel/serial.c, kernel/interrupts.c, the    *)
(* two reading system calls of kernel/kernel.c).                           *)
(*                                                                         *)
(* Three actors share it.  The UART hardware puts received bytes into its  *)
(* FIFO and raises the U1RX flag; default_isr empties the FIFO into the    *)
(* ring rx_buffer; the foreground (the kernel, or a user program inside a  *)
(* system call) takes bytes out.  The processor is single: a foreground    *)
(* step is taken only while the handler is not running, the handler starts *)
(* between any two foreground steps, and bytes arrive at any time.  The    *)
(* step boundaries of the foreground are the loads and stores of the       *)
(* volatile ring indices: the Makefile asks for no optimisation, and the   *)
(* compiler then turns buffer[tail++] into "store tail + 1, load the slot",*)
(* with the reduction of tail modulo the size as one more store.           *)
(*                                                                         *)
(* A byte is abstracted to its position in the stream of bytes the host    *)
(* sent, so that order, duplication and loss can be told apart.  Whether a *)
(* byte is a terminator is left open by its consumer.                      *)
(***************************************************************************)
EXTENDS Integers, Sequences

CONSTANTS
    RxSize,     \* RX_BUFFER_SIZE
    FifoDepth,  \* entries of the receive FIFO of the UART
    MaxReq,     \* bound on the size argument of a read
    MaxBytes    \* bound on the number of bytes the host sends

ASSUME SizesAssumption ==
    /\ RxSize \in Nat \ {0}
    /\ FifoDepth \in Nat \ {0}
    /\ MaxReq \in Nat
    /\ MaxBytes \in Nat

VARIABLES
    sent,     \* bytes the host has sent so far; byte n is the number n
    fifo,     \* U1RXREG: received, not yet read by software
    rxif,     \* IFS(0), bit U1RX
    txif,     \* IFS(0), bit U1TX
    isr,      \* where default_isr stands
    buffer,   \* rx_buffer.buffer
    head,     \* rx_buffer.head
    tail,     \* rx_buffer.tail
    enabled,  \* rx_buffer.enabled
    saved,    \* kernel_syscall's tmp
    exl,      \* exception level: interrupts are held off
    pc,       \* where the foreground stands
    op,       \* the operation it runs or ran last
    want,     \* its size argument
    num,      \* bytes it has stored
    slot,     \* the old value of tail, in a register
    kgot,     \* bytes delivered out of the ring, in order
    ugot      \* bytes delivered straight from U1RXREG, in order

uart == <<fifo, rxif, sent>>
ring == <<buffer, head, tail>>
call == <<op, want, num>>
trap == <<enabled, saved, exl>>
vars == <<uart, txif, isr, ring, trap, pc, call, slot, kgot, ugot>>

Slots == 0 .. RxSize - 1
Wrap(i) == i % RxSize

-----------------------------------------------------------------------------
(* serial_init leaves an empty ring in buffered mode.                      *)
Init ==
    /\ sent = 0 /\ fifo = <<>> /\ rxif = FALSE /\ txif = FALSE
    /\ isr = "off"
    /\ buffer = [i \in Slots |-> 0] /\ head = 0 /\ tail = 0
    /\ enabled = TRUE /\ saved = TRUE /\ exl = FALSE
    /\ pc = "kernel" /\ op = "none" /\ want = 0 /\ num = 0 /\ slot = 0
    /\ kgot = <<>> /\ ugot = <<>>

-----------------------------------------------------------------------------
(* The UART.                                                               *)

\* A byte is received: the FIFO takes it and the flag goes up, or the FIFO
\* is full and the byte is overrun.
Arrive ==
    /\ sent < MaxBytes
    /\ sent' = sent + 1
    /\ IF Len(fifo) < FifoDepth
       THEN fifo' = Append(fifo, sent + 1) /\ rxif' = TRUE
       ELSE UNCHANGED <<fifo, rxif>>
    /\ UNCHANGED <<txif, isr, ring, trap, pc, call, slot, kgot, ugot>>

\* The transmitter runs dry and raises its flag (its interrupt is not enabled).
TxEmpty ==
    /\ ~txif /\ txif' = TRUE
    /\ UNCHANGED <<uart, isr, ring, trap, pc, call, slot, kgot, ugot>>

-----------------------------------------------------------------------------
(* default_isr.                                                            *)

\* Mutant: the TX flag is served alone, and the whole flag register reset.
IsrEnterTxOnly ==
    /\ isr = "off" /\ ~exl /\ rxif
    /\ isr' = IF txif THEN "off" ELSE "drain"
    /\ txif' = FALSE /\ rxif' = (rxif /\ ~txif)
    /\ UNCHANGED <<fifo, sent, ring, trap, pc, call, slot, kgot, ugot>>

\* Entry through the vector; the TX flag is reset, and an interrupt with
\* neither flag raised would spin for ever.
IsrEnter ==
    /\ isr = "off" /\ ~exl /\ rxif
    /\ isr' = IF txif \/ rxif THEN "drain" ELSE "hang"
    /\ txif' = FALSE
    /\ UNCHANGED <<uart, ring, trap, pc, call, slot, kgot, ugot>>

\* The byte the handler takes from the FIFO goes to slot at, and head to ind,
\* when there is room.
Store(at, ind, room) ==
    /\ isr = "drain" /\ fifo # <<>>
    /\ fifo' = Tail(fifo)
    /\ IF room
       THEN buffer' = [buffer EXCEPT ![at] = Head(fifo)] /\ head' = ind
       ELSE UNCHANGED <<buffer, head>>
    /\ UNCHANGED <<sent, rxif, txif, isr, tail, trap, pc, call, slot, kgot, ugot>>

\* Mutants: no test against tail; a test one slot early; head advanced before
\* the byte is stored.
IsrByteUntested == Store(head, Wrap(head + 1), TRUE)
IsrByteEarlyFull == Store(head, Wrap(head + 1), Wrap(head + 2) # tail)
IsrByteAdvanceFirst == Store(Wrap(head + 1), Wrap(head + 1), Wrap(head + 1) # tail)

\* One turn of the loop over U1STA.URXDA: the byte is stored unless that
\* would move head onto tail.
IsrByte == Store(head, Wrap(head + 1), Wrap(head + 1) # tail)

\* The loop sees no more data.
IsrDrained ==
    /\ isr = "drain" /\ fifo = <<>>
    /\ isr' = "clear"
    /\ UNCHANGED <<uart, txif, ring, trap, pc, call, slot, kgot, ugot>>

\* The flag is cleared and the handler returns.
IsrClear ==
    /\ isr = "clear"
    /\ rxif' = FALSE /\ isr' = "off"
    /\ UNCHANGED <<fifo, sent, txif, ring, trap, pc, call, slot, kgot, ugot>>

Isr == IsrEnter \/ IsrByte \/ IsrDrained \/ IsrClear

-----------------------------------------------------------------------------
(* Reading from the ring.                                                  *)

Begin(o, n, at) ==
    /\ pc' = at /\ op' = o /\ want' = n /\ num' = 0
    /\ UNCHANGED <<uart, txif, isr, ring, slot, kgot, ugot>>

\* Mutant: without the early return for size 0.
SerialReadUnguarded(n) ==
    /\ isr = "off" /\ pc = "kernel"
    /\ Begin("read", n, "wait") /\ UNCHANGED trap

\* serial_read; a read of zero bytes returns at once.
SerialRead(n) ==
    /\ isr = "off" /\ pc = "kernel" /\ n # 0
    /\ Begin("read", n, "wait") /\ UNCHANGED trap

\* serial_read_string
SerialReadString(n) ==
    /\ isr = "off" /\ pc = "kernel"
    /\ Begin("string", n, "wait") /\ UNCHANGED trap

\* serial_getc called by the kernel
SerialGetc ==
    /\ isr = "off" /\ pc = "kernel"
    /\ Begin("getc", 1, "getc") /\ UNCHANGED trap

\* serial_getc_nonblock; on an empty ring it returns -1 and changes nothing.
SerialGetcNonblock ==
    /\ isr = "off" /\ pc = "kernel" /\ head # tail
    /\ Begin("nonblock", 1, "wait") /\ UNCHANGED trap

\* serial_getc chooses its source by rx_buffer.enabled.
GetcBuffered ==
    /\ isr = "off" /\ pc = "getc" /\ enabled
    /\ pc' = "wait"
    /\ UNCHANGED <<uart, txif, isr, ring, trap, call, slot, kgot, ugot>>

\* Mutant: buffer[++tail].
ClaimPreIncrement ==
    /\ isr = "off" /\ pc = "wait" /\ head # tail
    /\ slot' = Wrap(tail + 1) /\ tail' = tail + 1
    /\ pc' = "fetch"
    /\ UNCHANGED <<uart, txif, isr, buffer, head, trap, call, kgot, ugot>>

\* The wait for head # tail ends, and tail++ is stored.  The handler can only
\* append between the test and the store, so they are one step.
Claim ==
    /\ isr = "off" /\ pc = "wait" /\ head # tail
    /\ slot' = tail /\ tail' = tail + 1
    /\ pc' = "fetch"
    /\ UNCHANGED <<uart, txif, isr, buffer, head, trap, call, kgot, ugot>>

\* The claimed slot is loaded and the byte handed to the caller.
Fetch ==
    /\ isr = "off" /\ pc = "fetch"
    /\ kgot' = Append(kgot, buffer[slot])
    /\ num' = num + 1
    /\ pc' = "wrap"
    /\ UNCHANGED <<uart, txif, isr, ring, trap, op, want, slot, ugot>>

\* Mutant: tail is not reduced.
WrapTailMissing(nul) ==
    /\ isr = "off" /\ pc = "wrap"
    /\ pc' = IF op = "read" /\ num < want THEN "wait" ELSE "kernel"
    /\ UNCHANGED <<uart, txif, isr, ring, trap, call, slot, kgot, ugot>>

\* tail %= RX_BUFFER_SIZE, then the loop condition of the caller; nul says
\* whether the byte just read ends a string.
WrapTail(nul) ==
    /\ isr = "off" /\ pc = "wrap"
    /\ tail' = Wrap(tail)
    /\ pc' = IF \/ op = "read" /\ num < want
                \/ op = "string" /\ ~nul /\ num < want
             THEN "wait" ELSE "kernel"
    /\ UNCHANGED <<uart, txif, isr, buffer, head, trap, call, slot, kgot, ugot>>

-----------------------------------------------------------------------------
(* Writing: serial_nwrite ends by clearing interrupt flag 28, U1TX.        *)
SerialNwrite ==
    /\ isr = "off" /\ pc \in {"kernel", "user"}
    /\ txif' = FALSE
    /\ UNCHANGED <<uart, isr, ring, trap, pc, call, slot, kgot, ugot>>

-----------------------------------------------------------------------------
(* The user program and the system calls that read.                        *)

\* farcall hands the processor to the user program, which returns.
RunUser ==
    /\ isr = "off" /\ pc = "kernel" /\ pc' = "user"
    /\ UNCHANGED <<uart, txif, isr, ring, trap, call, slot, kgot, ugot>>

UserReturns ==
    /\ isr = "off" /\ pc = "user" /\ pc' = "kernel"
    /\ UNCHANGED <<uart, txif, isr, ring, trap, call, slot, kgot, ugot>>

\* Mutant: the ring is not switched off.
SyscallBuffered(o) ==
    /\ isr = "off" /\ pc = "user"
    /\ Begin(o, 0, "getc")
    /\ exl' = TRUE /\ saved' = enabled /\ UNCHANGED enabled

\* SYSCALL_SERIAL_GETC and SYSCALL_SERIAL_READLINE: the exception holds
\* interrupts off, and the ring is switched off around the reading.
Syscall(o) ==
    /\ isr = "off" /\ pc = "user"
    /\ Begin(o, 0, "getc")
    /\ exl' = TRUE /\ saved' = enabled /\ enabled' = FALSE

\* Mutant: the mode is not restored.
GetcUnbufferedNoRestore(more) ==
    /\ isr = "off" /\ pc = "getc" /\ ~enabled
    /\ fifo # <<>>
    /\ ugot' = Append(ugot, Head(fifo))
    /\ fifo' = Tail(fifo)
    /\ num' = num + 1
    /\ pc' = "user" /\ exl' = FALSE
    /\ UNCHANGED <<sent, rxif, txif, isr, ring, enabled, saved, op, want, slot, kgot>>

\* serial_getc in unbuffered mode; more says that serial_readline goes on to
\* the next key.  What it echoes, and the line break it ends with, go through
\* serial_nwrite.  At the end the mode is restored and eret drops exl.
GetcUnbuffered(more) ==
    /\ isr = "off" /\ pc = "getc" /\ ~enabled
    /\ fifo # <<>>
    /\ ugot' = Append(ugot, Head(fifo))
    /\ fifo' = Tail(fifo)
    /\ num' = num + 1
    /\ IF more /\ op = "readline"
       THEN UNCHANGED <<pc, trap>>
       ELSE /\ pc' = "user"
            /\ enabled' = saved /\ exl' = FALSE /\ UNCHANGED saved
    /\ txif' \in {txif, FALSE}
    /\ IF op = "readline" THEN ~more => ~txif' ELSE UNCHANGED txif
    /\ UNCHANGED <<sent, rxif, isr, ring, op, want, slot, kgot>>

-----------------------------------------------------------------------------
\* What the foreground does once an operation has begun.
Continue ==
    \/ GetcBuffered \/ Claim \/ Fetch
    \/ \E nul \in BOOLEAN : WrapTail(nul)
    \/ \E more \in BOOLEAN : GetcUnbuffered(more)

\* What the kernel or the user program may begin.
Start ==
    \/ \E n \in 0 .. MaxReq : SerialRead(n) \/ SerialReadString(n)
    \/ SerialGetc \/ SerialGetcNonblock \/ SerialNwrite
    \/ RunUser \/ UserReturns
    \/ \E o \in {"sysgetc", "readline"} : Syscall(o)

Next == Arrive \/ TxEmpty \/ Isr \/ Continue \/ Start

Spec == Init /\ [][Next]_vars

\* The handler is entered whenever its flag is raised and interrupts are not
\* held off, and the processor goes on with what it has begun.  Nothing makes
\* the host send, or the program start an operation.
Fairness == WF_vars(Isr) /\ WF_vars(Continue)
FairSpec == Spec /\ Fairness

-----------------------------------------------------------------------------
(* What is in the ring, and what the layer promises.                       *)

Elems(s) == {s[i] : i \in 1 .. Len(s)}

\* The slots from the tail round to the head: stored and not yet claimed.
First == Wrap(tail)
Unread == {j \in Slots : IF First <= head THEN First <= j /\ j < head
                                          ELSE First <= j \/ j < head}

\* The bytes of those slots, and of the slot claimed but not yet loaded.
Waiting == {buffer[j] : j \in Unread}
             \cup (IF pc = "fetch" THEN {buffer[slot]} ELSE {})

\* Every byte the software can still deliver or has delivered.
Held == Elems(fifo) \cup Waiting \cup Elems(kgot) \cup Elems(ugot)

Full == Unread = Slots \ {head}

\* The receive path as a channel from the host to its two consumers.
Stream == INSTANCE ByteStream WITH pending <- Waiting \cup Elems(fifo)

Increasing(s) == \A i, j \in 1 .. Len(s) : i < j => s[i] < s[j]

\* Types.  isr is never "hang": U1RX is the only source enabled, so the endless
\* loop for an unknown interrupt (interrupts.c:37-43) is not entered.
TypeOK ==
    /\ sent \in Nat /\ fifo \in Seq(Nat) /\ rxif \in BOOLEAN /\ txif \in BOOLEAN
    /\ isr \in {"off", "drain", "clear"}
    /\ buffer \in [Slots -> Nat] /\ head \in Slots /\ tail \in 0 .. RxSize
    /\ enabled \in BOOLEAN /\ saved \in BOOLEAN /\ exl \in BOOLEAN
    /\ pc \in {"kernel", "user", "getc", "wait", "fetch", "wrap"}
    /\ op \in {"none", "read", "string", "getc", "nonblock", "sysgetc", "readline"}
    /\ want \in Nat /\ num \in Nat /\ slot \in Slots
    /\ kgot \in Seq(Nat) /\ ugot \in Seq(Nat)

\* Each consumer sees the host's bytes in the order sent, none twice, and no
\* byte reaches both: whatever the handler does between the store of tail + 1,
\* the load of the slot and the reduction of tail (serial.c:212-214).
InOrder ==
    /\ Increasing(kgot) /\ Increasing(ugot)
    /\ Elems(kgot) \cap Elems(ugot) = {}

\* serial_read stores exactly the bytes it was asked for, also for size 0
\* (serial.c:203-216).
ReadFillsExactly ==
    op = "read" => num <= want /\ (pc = "kernel" => num = want)

\* U1RXREG has one reader at a time: the foreground reads it directly only
\* where the handler cannot run (kernel.c:113-126, serial.c:234-239).
SingleFifoReader == pc = "getc" /\ ~enabled => exl /\ isr = "off"

\* The software loses a byte that reached the FIFO only while the ring is
\* full (interrupts.c:55-64).
LossOnlyWhenFull == [][~Full => Held \subseteq Held']_vars

\* A byte stored in the ring stays until it is delivered, except while tail
\* stands at RxSize, unreduced, and head at the last slot: there the test of
\* the handler compares against an index no slot has (interrupts.c:60,
\* serial.c:212-214).
LapWindow == tail = RxSize /\ head = RxSize - 1
KeptOutsideLapWindow ==
    [][~LapWindow => Waiting \subseteq Waiting' \cup Elems(kgot')]_vars

Flagged == rxif /\ isr # "clear"

\* A byte is never forgotten while its flag is raised and the handler has not
\* passed its last look at the FIFO: the FIFO gets emptied, and a blocked reader
\* is woken by such a byte (interrupts.c:52-66; serial.c:76, 181-182, 209-210,
\* 229-230).
FlaggedByteWakes ==
    /\ Flagged ~> fifo = <<>>
    /\ (pc = "wait" /\ Flagged /\ fifo # <<>>) ~> (pc # "wait")

\* A character system call returns once a byte is in the FIFO, although
\* interrupts are off (kernel.c:113-119).
GetcReturns == (exl /\ op = "sysgetc" /\ fifo # <<>>) ~> ~exl

\* The receive path implements the lossy, order-preserving byte channel: a byte
\* delivered was on its way, is delivered once, and each consumer gets its bytes
\* in order, whatever the interleaving of the handler with serial.c:212-214.
StreamSpec == Stream!Spec

\* "Don't overwrite the current tail position." (interrupts.c:59): no stored
\* byte is ever overwritten before it is delivered.
NeverOverwritten == [][Waiting \subseteq Waiting' \cup Elems(kgot')]_vars

\* "Wait until there is data available" (serial.c:208): a blocked reader goes
\* on once data is available in the UART.
BlockedReaderWakes == (pc = "wait" /\ fifo # <<>>) ~> (pc # "wait")
=============================================================================

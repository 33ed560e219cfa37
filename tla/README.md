# TLA+ models of the IS1200 kernel/loader

The program is a small kernel for a PIC32MX340 board. Over a serial line it
offers a menu: flash a tar image into an I2C EEPROM, upload a program and run
it, or start a graphical shell that runs programs from the EEPROM. Programs
return to the kernel and reach it through system calls.

## 1. Inventory

| part | state | operations | talks to |
|---|---|---|---|
| UART receive path (`serial.c`, `interrupts.c`, `irq.S`) | `rx_buffer` {buffer, head, tail, enabled}; UART FIFO and flags | `default_isr`; `serial_read`, `serial_read_string`, `serial_getc`, `serial_getc_nonblock`, `serial_rxbuf`, `serial_nwrite` | shared memory between handler and foreground; the FIFO between handler and system calls |
| EEPROM driver (`eeprom.c`, `i2c.c`) | none of its own; the chip and the I2C controller | `eeprom_write`, `eeprom_write_page`, `eeprom_read`, `i2c_*` | the chip, by polling |
| line editor (`readline.c`) | the caller's buffer, cursor, length | `serial_readline` | unbuffered serial reading, the terminal |
| uploads (`kernel.c`, `elf.c`, `helpers/`) | `size`, `eeprom_addr`, block buffer, program memory | the menu, `flash_ustar`, `crcread`, `elf_load_program_serial`; `sendtar_crc32`, `sendelf_crc32` | the ring, the EEPROM driver, the host |
| filesystem and loader (`ustar.c`, `elf.c`) | none | `ustar_find_file`, `elf_load_eeprom`, `elf_run` | the EEPROM driver |
| graphical shell (`guishell.c`) | file list, first visible, selected | `get_file_count`, `populate_filelist`, `draw_filelist`, the button loop | display, loader |
| exceptions and context (`irq.S`, `far.S`, `kernel.c`) | `sp_savemem`, k0, k1, EPC | `_gen_exception`, `_default_isr`, `farcall`, `kernel_syscall` | user programs |
| display (`display.c`) | frame buffer, `DPY_DID_INIT`, pins | init, shutdown, update, drawing | SPI |
| second EEPROM driver (`rom.c`, `tests.c`) | none | byte, page and sequential transfers | used by the tests only |
| lab 3 programs (`labs/lab3/`) | the time, the prime, the text shown | `labwork`, `user_isr`, `tick`, `nextprime`, the display routines | SPI2, timer 2, buttons |

What is hard here:

- *Interleaving*: the handler runs between any two instructions of a reader,
  and the readers do not hold it off. `buffer[tail++]` and `tail %= SIZE` are
  three accesses to a volatile structure.
- *Two consumers of one stream*: the kernel reads the ring, a program's system
  calls read the FIFO directly with interrupts held off.
- *A slow, partly deaf device*: the chip answers nothing while it writes, may
  refuse a byte, and is written a page at a time; reset and power loss may come
  in between.
- *No flow control*: the host sends and hears nothing; what is lost shifts the
  framing, and payload becomes menu commands.
- *Boundaries*: unsigned sizes of 0, 16-bit addresses, a ring index that stands
  one past the end, the last character of a line buffer.
- *Programs the kernel cannot trust to tidy up*: they leave memory, the display
  and the SPI bus in any state, fail anywhere, and share the processor's one
  exception level and two scratch registers with the handlers.

What would make each part correct: the stream is delivered in order, once, and
complete unless a buffer is full, and readers wake; what the driver counts as
written is stored, elsewhere nothing changes, and every call returns; the editor
returns what the screen shows; a flash or load that reports no error has stored
what was sent, and leaves the menu in step with the host; a lookup ends and
finds the file or says so; the shell never leaves its list; registers and
stacks survive interrupts and system calls; the display is powered in order.

The hazards are listed, each at its line, in `PROJECT.json`.

## 2. Plan

| step | modules | abstract specification | theorems | status |
|---|---|---|---|---|
| 1 | `SerialRx` | `ByteStream` | types, order, loss, single reader, refinement | done, proved |
| 2 | `EepromDriver` over `Eeprom24` | `PageStore` | types, counts, reads, `PagesInOrder`, `StoreSpec` | done, proved |
| 3 | `Readline` | `LineEditor` | bounds, `ScreenShowsLine`, string, `EditorSpec` | done, proved |
| 4 | `Upload` | (an atomic install) | `CompleteMeansStored`, `CheckedMeansIntact`, `CommandsAreKeys` | done, proved |
| 5 | `Loader` (the walk, `elf_load_eeprom`) | | the file selected is found and its segments are in place | done, proved under `GuiShell` |
| 6 | `Display` (lines, SPI bus, panel) | | the panel is powered in order and shows what was drawn | done, proved under `GuiShell` |
| 7 | `GuiShell` over `Loader` and `Display` | | list, window, entries, what is run | done, proved |
| 8 | `Context` (handlers, `farcall`) | | a fault is final; the stacks are kept; interrupts are transparent; system calls resume | done, proved |
| 9 | `LabFunctions`, `LabClock` | | no second is lost; the display shows the text; the calendar; the primes; the texts | done, proved |
| 10 | `rom.c` as a second driver over `Eeprom24` | `PageStore` | | left out: it is not in the build |

`Upload` keeps of the receive path and of the EEPROM what its reader can notice of
`SerialRx` and `EepromDriver`: a queue in order that drops what finds it full, or
is overwritten while `tail` is unreduced, a byte that may stay in the UART with its
flag cleared, and a store in which a refused byte leaves a hole. It does not compose
with the two modules, and no refinement ties it to them. `Loader` takes reading the
EEPROM at the word of `ReadReturnsStored`. `GuiShell` extends `Loader` and
`Display`: one state, one next-state relation, the display's operations between the
shell's steps.

## 3. What the modules model

### SerialRx, ByteStream

Three actors. The hardware (`Arrive`, `TxEmpty`, external) puts bytes into the
FIFO and raises flags. The handler goes through `IsrEnter`, `IsrByte` once per
byte, `IsrDrained` and `IsrClear`. The foreground is in an operation: `pc` is
`kernel` or `user` between operations, `getc` where `serial_getc` chooses its
source, `wait` at the busy-wait, `fetch` and `wrap` inside the read of one byte.
Since there is one processor, a foreground step needs `isr = "off"`.

The step boundaries of the reader follow the volatile accesses. The Makefile
gives no optimisation option, and the compiler then stores `tail + 1` before it
loads the slot; `Claim`, `Fetch`, `WrapTail` are these three accesses. A byte is
its position in the host's stream, so loss, duplication and reordering show.

Abstractions: an overrun FIFO drops the new byte (on the chip the receiver then
stands still until the overrun bit is cleared, which the code never does; the
model is the weaker assumption). U1RX is the only source enabled, its flag is
raised by reception and not by a filled FIFO. `serial_read_string`,
`serial_getc` in buffered mode and `serial_getc_nonblock` are part of the
interface though the kernel itself uses only `serial_read`.

`ByteStream` is the promise: bytes on their way, delivered once, in order for
each consumer, possibly lost. `StreamSpec` is the refinement.

### Eeprom24, EepromDriver, PageStore

`Eeprom24` is the chip, external: a memory, a page latch that wraps within the
page, an address counter, and what the chip expects next. It refuses everything
during its write cycle, and otherwise at most `MaxNacks` bytes, after which it
is deaf until the next start; bytes latched before a refusal are still written
at the stop. `EepromDriver` has one step per `i2c_` call: the polling loop
(`Begin`, `SendControl`), the address, the data, the stop, and for reading the
second addressing. `Reset` stops the program only, `CyclePower` both; a reset
while the chip is sending may leave the bus `held`, the case of the message at
`kernel.c:252`. `was` keeps what was stored when a call began and `cut` that a
write was interrupted and how, both for the properties only. `PagesInOrder` speaks of
every moment of a write and of the time after one that was interrupted: the pages
sent are stored and nothing else is touched, but a page of which a byte was refused
is stored up to that byte, and the last one may be torn by a loss of power, each of
its bytes old or new. `PageStore` is the promise: whole pages, one at a time, possibly
cut short, and reads only of what is stored.

### Readline, LineEditor

One step per byte received: `Key` in the loop, `EscapeKey` after ESC,
`SequenceKey` after ESC [. Each does all the moves in the buffer and all the
output up to the next `serial_getc`. The terminal is a line of cells and a
column; a line wider than the terminal is not modelled. `LineEditor` is the
promise, with the text before and after the cursor.

### Upload

Host and board with a queue between them, the ring of `SerialRx` with what is left
in the UART behind it. `Arrives` is `default_isr`: it takes the unit, or it is the
run for the unit before, which clears the flag of this one (`interrupts.c:55-66`);
such a unit is `late`, the kernel does not see it (`Readable`), and the next that is
received brings it along. There is at most one, since the time between two bytes is
far longer than that between the two instructions. `SendOverrun` is a full ring: the
unit is dropped or, in the window of `serial_lap`, replaces all that was waiting; a
ring has two slots or more (`UploadAssumption`), or it could hold nothing. If
the last unit of an upload is late nothing brings it along, and the kernel waits for
ever although the line is clean; `UploadEnds` excludes that and nothing else. An upload is a sequence of frames: frame
0 is the key for the menu and the size, every other a CRC and `FrameLen` bytes; the
unit `<<u, f, k>>` is byte k of frame f, and `frame, byte` is what the host sends
next. `Send...` puts that unit into the ring, or finds it full, or is hit by noise.
The kernel reads a unit at a time: `Menu`, `ReadSize`, and `ReadCrc`/`ReadData` for
`crcread`; `CheckBlock`, `WriteBlock` and `VerifyBlock` are the rest of the loop of
`flash_ustar`, `LoadPiece` that of `elf_load_program_serial`. CRCs are ideal
(equal only for equal bytes); the size, a CRC and a program header are one unit
each. Read out of step, a unit may be any menu choice, any of `WrongSizes`, any
segment size. The locals of a routine that has returned are cleared. A program
may consume serial bytes through system calls; that is left to `SerialRx`.

### Display

The driver is a queue `todo` of operations, filled by a call and carried out one
per step: a port written, the SPI module configured, a command or the bytes of a
page sent. `Sending` is `display_send_byte`: it can be taken only with SPI2
enabled, since the C waits for ever otherwise, and what it does to the panel
depends on VDD and the data line at that moment. The panel is external: it
loses all without VDD, a reset clears its setting but not its memory, a command
taken for data spoils a page, data taken for commands undoes the setting. A
command of two bytes is one step. The drawing routines are sets of lit pixels.

### Loader, GuiShell

The EEPROM is a function from blocks to contents; a byte is its block and its
place in it, so data from a wrong address shows. `After` is the arithmetic of
the walk, in 16 bits, which the C has three times (`ustar.c:45`,
`guishell.c:57, 89`). `Loaded` is one segment: what the file has and the zeroes
after it. `GuiShell` has a step per header read (`CountFile`, `PopulateFile`,
`FindFile`), per segment, and per press of a button; `At(p)` says that the
foreground is at `p` and the display has finished. `Flash` writes any number of
whole blocks of an image over what was there, in step or, from some block on, some
blocks out of it (`Slips`, at most one slip in a transfer): whole frames lost, as
`Upload` shows, or, at block 0, the board reset and a new flash begun while the host
goes on sending.
`FlashBroken` does the same and leaves one more block half written: bytes refused and
the break of `kernel.c:183-186`, or a reset inside `eeprom_write`. If one of the two
blocks it is made of is a header, each field of it (magic, name, size) may be of
either or of neither (`MixedHeaders`), a size of neither being any of `DamagedSizes`;
otherwise it is `Mixed`, which the checks on an ELF header may take for anything. The
size of the image and the place of a block are not damaged otherwise. An
image is a tar archive (`TarImage`): from block 0 on, behind a file comes the next
header or the marked end, and the walk takes nothing but its headers for headers.
`FileBlocks` is the blocks of a file with its header. The operations of an update
of the display are given in closed form (`UpdateOps` from `PageOps`).
`UserReturns` is what a program may leave: any user memory, the display as the
shell left it or lit by the program, SPI2 on or off. A name is cut to 16
characters where it is drawn; the `exec` goes by the header, as in the C. With
an empty list BTN1 reads an entry beyond the array, so `Open` takes any address.
`draw_filelist` draws three entries however few there are; the name of one beyond the
list is memory without an end (`Garbage`), whose text may have any length and wraps
in its page and, in the third place, may run past `DPY_BUFFER` (`Redraw`). The kernel
is then *lost*, as it is where a program is loaded by headers that are a mixture: what
lies behind the buffer (`display.c:8-9`) is the linker's affair, and the model says no
more. *Endless* is a walk that has counted as many headers as the chip has blocks and
so has come round. Both are states of their own and not excluded: `ShellAnswers` names
them as what can keep the shell from its user.

### Context

One step per machine instruction of `far.S` and of the stubs that touches `$sp`,
`$ra`, `sp_savemem` or EPC. Three of `farcall`'s instructions are two for the machine,
the first of which sets the upper half of an address: `sw $sp, sp_savemem` in `$at`
(`LoadAddress`, `SaveSp`), `li $sp` and `lw $sp, sp_savemem` in `$sp` itself
(`UserStackUpper`, `UserStack`; `KernelStackUpper`, `KernelStack`). Interrupts are
enabled there, and one that comes between the two halves of the latter finds no memory
to store to (`PushFaults`): `InterruptTransparent` names these two places as the only
ones where a handler fails. The runs of stores and loads in `_default_isr`, which EXL
protects, are one step each. C functions are one step that loses the
caller-saved registers and uses some words below their frame (`Called`, `Used`:
the calling convention, external). `default_isr` keeps its argument in a
register (`interrupts.c:20`); `IsrMemoryHome` is what the comment there warns
of. An exception with EXL set leaves EPC alone. `before` records the registers,
stacks and place at the entry to a handler, for the properties only. A program
works, calls its own functions `MaxCalls` deep, calls the kernel, faults or
returns. Faults come from a program, from the loader, and from a system call
given a bad pointer.

### LabFunctions, LabClock

`LabFunctions` holds the calculations of `mipslabfunc.c` and `labwork.S`, beside
the definitions they should agree with. `LabClock` is the three programs: the
main loop and the interrupt routine are sequences of steps left to do, and a
byte to the display takes the four steps of `spi_send_recv` against an SPI with
a transmit buffer, a shift register and a flag. `mipslabfunc.c` is the same file
in the three programs and is mapped once.

## 4. Runs

| run | question | bounds | distinct states |
|---|---|---|---|
| `serial` | order, exact reads, loss only when full, the refinement; flagged bytes leave the FIFO and wake readers | ring 3, FIFO 2, reads of 0-2, 6 bytes | 359,242 |
| `serial_lap` (violated) | is a stored byte ever overwritten? | 6 bytes | |
| `serial_lost_wakeup` (violated) | does a reader always wake? | 4 bytes | |
| `eeprom` | what is stored, counted, read, also after an interrupted write; calls return | 4 pages of 2, 3 calls, 1 refusal, 2 resets or power cycles | 558,242 |
| `eeprom_too_far` (violated) | is a write beyond the end held back? | as above, 1 reset | |
| `readline` | editor refinement, screen, string | a line of 3 and its terminator | 13,356 |
| `upload` | complete flash, checked program, menu in step, ends | image of 3 in blocks of 2, programs of 2 and 3 segments, ring 2, 1 disturbance, 1 reset, 1 upload | 895,624 |
| `upload_unchecked` (violated) | does a failed check stop a program? | as above | |
| `shell` | list, screen, what is run, entries, power order; the user gets the shell back | 7 blocks of 2, two images, 4 blocks lost at the start or 1 in the middle, 1 damaged size, 2 flashes, 2 runs, 2 pages | 1,886,546 |
| `context` | registers, stacks, resuming, faults | stacks of 10 and 11 words, 2 instructions, 2 calls deep | 675,818 |
| `context_fault` (violated) | is every fault shown? | as above | |
| `lab` | text shown, seconds kept, calculations, the loop comes round | 2 lines of 3, 2 timeouts a second, 3 seconds, primes from 24 to 31 | 265,730 |

Why the bounds are enough: six bytes go round a ring of three twice, so it can
be full with the tail at the last slot and be filled again, the only place where
the unreduced tail matters. Four pages and the five writes cover part of a page,
several pages, a straddled page, the end of the memory and of the 16-bit
address; three calls allow a write over a write and a read of both, and two resets an
interrupted write interrupted again. Three
characters give a line with a first, a middle and a last place. In `upload` the
ring is shorter than a frame, so whole frames can be overrun, and the last block
is shorter than the others; the last byte of each upload may be late, and so may any
other. In `shell` one image has two files, fewer than the screen has places, and one
has four, so the list scrolls; among them are a file of two blocks, two empty files, a
file for another machine, two files of one name, and names of 5, 16 and 17 characters;
a flash may stop at or inside any block, over an empty chip or over what the first
flash left, in step or out of it, and the first of two programs leaves its mess to the
second. The damaged size leads the walk from block 4 back to block 0, which is the
circle, and from block 0 out of the chip. The
frames of `context` fit their stacks exactly. In `lab` an update of the display
takes longer than a period, so the timer can come round inside it; the times
that carry are checked at every edge of minute, hour, day and hundred days. The
bounds `MaxBytes`, `MaxReq`, `MaxCalls`,
`MaxResets`, `MaxNacks`, `MaxNoise`, `MaxCommands`, `MaxSegment` cap what the
environment does. `CHECK_DEADLOCK FALSE` stands where a bounded environment may
have nothing left to do, and a program may wait for a byte that does not come;
`readline` is checked for deadlock.

### What the violated runs show

- `serial_lap`: with the ring full and the last slot being read, `tail` is
  `RX_BUFFER_SIZE` for a moment; the test `ind != rx_buffer.tail`
  (`interrupts.c:60`) cannot match, head moves onto slot 0, and after the
  reduction the full ring looks empty. `KeptOutsideLapWindow` shows, and is
  proved to show, that this is the only such moment.
- `serial_lost_wakeup`: a byte arrives between the last test of `URXDA` and the
  clearing of the flag (`interrupts.c:55-66`). `FlaggedByteWakes` is what holds
  instead.
- `eeprom_too_far`: the branches that say "Can't write that far!"
  (`eeprom.c:41-47`) are empty.
- `upload_unchecked`: the results of `crcread` are dropped when a program is
  loaded (`elf.c:66, 77, 82`).
- `context_fault`: until the first `farcall`, `sp_savemem` is 0 (`far.S:29-30`).
  A fault before, which the loader can cause by writing to a bad `p_vaddr`
  (`elf.c:139-142`), gives `general_exception` the stack pointer 0; its prologue
  faults again, for ever, and the error code of `kernel.c:66-67` is not shown.

Not a disagreement with any text, but seen in `Upload`: a CRC says nothing of
the place of its block. If exactly a frame is lost, the next block is stored in
its place and verified; the loss shows only because the flash never completes,
which is why `CompleteMeansStored` holds while a flash still under way may have
blocks out of place. `serial_read_string` asked for zero bytes stores one
(`serial.c:179`), where `serial_read` has a test. In `lab`, an update made by the
interrupt routine inside one of the main loop (`interrupts/mipslabwork.c:32`,
`:56`) changes the mode pin under the main loop's bytes and spoils the display for
good; nothing in the program prevents it, and the properties say `clean` where
they exclude it. A switch setting of 10 to 15 puts into the time what is no decimal
digit, and the next tick carries it into another time.

### Fairness

- `SerialRx`: `WF(Isr)`, the interrupt is taken while its flag is up and
  interrupts are enabled, and `WF(Continue)`, the processor goes on. The host
  need not send, nor a program start an operation.
- `EepromDriver`: `WF(Step)` and `WF(CycleEnds)`, the chip's write time is
  bounded. That the chip refuses only finitely often otherwise is `MaxNacks`.
- `Upload`: `WF(Kernel)` while it has a byte to read or none is needed, and
  `WF(Host)`, the helper writes the whole file. Programs need not return.
- `GuiShell`: `WF(Kernel)`, the processor goes on with what waits for nobody.
  Presses of buttons, uploads and the return of a program are left free.
- `Context`: `WF(Handler)` in `context_fault` only, so that the violation is not
  that the processor has stopped.
- `LabClock`: `WF(Processor)` and `WF(Shift)`, the SPI shifts a byte out in its
  time. The timer is left free.

## 5. Proofs

Each component's theorems stand in a module of their own. The runs show the same
properties on small instances; the theorems hold for every value of the
constants under the assumptions the modules state, which TLC evaluates in
every run. Every inductive invariant was first checked with TLC.

`SerialRxProofs`, for every ring size, FIFO depth, request size and number of
bytes, from `SizesAssumption` alone:

1. `Typing`: `Spec => []TypeOK`. `TypeOK` is not inductive: that `tail` stays
   below `RxSize` outside the `wrap` and `fetch` steps is needed for the slot
   claimed next; `TypeInv` adds `TailPlace`.
2. `OrderTheorem`, `ReadTheorem`, `SingleReaderTheorem`. Order rests on
   `OrderInv`: the bytes in the unread slots increase from the tail round to the
   head, the claimed byte is older than all of them, the FIFO is newer than all
   of them, and everything delivered is older. It holds in the lap window too:
   there bytes are lost, not reordered.
3. `KeptTheorem` and `LossTheorem`, action properties from the same invariant.
4. `Refinement`: `Spec => StreamSpec`, each step mapped to a send, a loss, a
   delivery or a stutter.

`ContextProofs`, for stacks of every size and programs and calls of every
length and depth, from `ContextAssumption`, all that the run `context` checks:

1. `FaultTheorem`: the invariant names the places a fault leads to, the fault of a
   handler that finds `$sp` half made among them.
2. `StackTheorem`: `Spec => []StackInv`. `KernelStackKept` is not inductive: that
   a handler gives back what it took rests on where each value stands at each of
   its instructions. `Frame` says, place by place, what the code outside the
   handlers has on its stack (`farcall`'s frame is *armed*: `sp_savemem` points
   at it and `main`'s return address is in it; the words of a program's stack are
   return addresses into it); `InterruptPart`, `SyscallPart` and `FaultPart` say
   where the handlers have put the registers and which words they may not touch,
   with the frame they interrupted carried along in `before`. There is one lemma
   per action, over lemmas about the updates of registers and words.
3. From it `TypeTheorem`, `KernelStackTheorem`, and the action properties
   `InterruptTheorem` and `SyscallTheorem`: at `eret` the frame that was
   interrupted stands again (`FrameMoves`), and everywhere but at the two places
   of a half-made `$sp` it is one a handler can be stacked on.

`ReadlineProofs`, for every size of the buffer and every set of printable
characters, from `ReadlineAssumption` (the size is not 0, the characters of the
escape sequences are printable, the control codes are not). `ReadInv` adds to
`TypeOK` and `ScreenShowsLine` that the line holds printable characters only and
that a line handed over ends in a nul: what is drawn is read from the buffer, so
each half needs the other. The bytes are first brought to the eight edits of
`NextCases`; the same cases give `EditorTheorem`, the refinement of `LineEditor`.

`EepromProofs`, for every size of the chip, of its pages and of an address byte,
every set of calls and any number of refused bytes, resets and power cycles, from
`ChipAssumption` (whole pages) and `DriverAssumption` (a 16-bit address wraps onto
the chip). `Shape` says what the chip is ready for at each place of a call.
`DriverInv` adds that the page latched is the part of the chunk sent so far, round
the page (`PageLatched`); that nothing is newer than the current call, so its bytes
can only be where it put them (`NoneNewer`); where the next page begins
(`PagePlaced`); how far a read has come (`ReadSoFar`); and that a refused byte has
cost the count one or is about to (`RefusalCosts`); and beside `PagesInOrder` that a
page being stored replaces bytes of before the write, which is what a loss of power
puts back (`LastPending`). From it `OrderTheorem`,
`CountTheorem`, `ReadTheorem`, and `StoreTheorem`, the refinement of `PageStore`.
The addresses are sums reduced by three divisors; `Division` has the lemmas about
division by a divisor that is not a number, which the later proofs use too.

`UploadProofs`, for every image, block size, set of programs, ring and any amount
of noise and resets, from `UploadAssumption` (the image fits the EEPROM, no wrong
size is the right one). `Shape` is the types with what the variables hold at each
place. `ArrivalInv` is the argument for `CompleteTheorem` and `CheckedTheorem`:
units may be lost or altered but never overtake one another (`InTurn`), so frames
are accepted in increasing order, as many as are counted (`FlashSoFar`,
`LoadSoFar`), and whoever misses one does not find enough behind it to come to the
end. `CleanInv`, for `CommandTheorem`: on a line without a fault the units follow
one another without a gap from the kernel's place to the host's.

`GuiShellProofs`, for every set of tar archives, names and programs and every size
of EEPROM and panel, from `PagesAssumption`, `LoaderAssumption` (segments fit the
user memory, a file no larger than its memory) and `ShellAssumption` (the images
are archives). The display is always at some operation of one of two scripts,
switched on and drawn or drawn and switched off; `DisplayInv` numbers the operations
done and says what the lines and the panel have got by each, whence
`ScreenIsRight`, `NothingWaits` and the action property `PowerInOrder`. `FsInv` keeps
the walks on the chip whatever was flashed and however it broke off. `ListInv` follows
a walk kept as a function from numbers of files to blocks, wherever damaged sizes lead
it: the pass that counts, the pass that fills the list and the search for a name all
go along it (`ListIsComplete`), and over a complete image it climbs (`Climbs`) and so
never comes round. `Window` says where the window of the list may stand. A kernel that
is lost or in a circle takes no step any more, and of it only the types and the order
of the lines are claimed (`GoneInv`); so the invariant is `IInv \/ GoneInv`.
`Looking` says that the search has not passed the file selected, `SegmentsInv`
that a segment is in place where none loaded later lies over it (`SelectedRuns`).
`EntriesStayApart` follows from the list's typing and `Window`, for names of every
length, and from what a text of any length can light in each of the three places
(`StrayBox`).

`LabClockProofs`, for every size of the display, every period and every choice of
programs, buttons and switches, from `LabAssumption`. `LabInv` says for a thread
that draws which row, byte and step of `spi_send_recv` it has come to, and what
the display and the SPI have got by then; the rest of its sequence of steps is
that of the place. In `io` and `timer` there is one thread (`Alone`); in
`interrupts` the interrupt routine draws only where the main loop has no byte under
way, or the update is not clean any more. The account of timeouts (`Owing`) says
what the routine or the poll at its place has still to count. From it
`SecondsTheorem`, `DisplayTheorem` and `WaitsTheorem`: every wait for the SPI has a
byte under way to end it, which is what `LoopComesRound` rests on beside fairness,
and nothing is overrun or sent in the wrong mode. Sequences joined by `FlattenSeq` are followed by
an induction over sets of numbers (`Least`, `Induction`), which a recursive
*function* allows where an operator would not.
The calculations have theorems of their own. `CalendarTheorem`: `tick` gives each of
the seconds of a hundred days the time of the next one, where the run evaluates it
at the edges of minutes, hours and days only. `PrimeTheorem`: `nextprime` ends and
gives the first prime after n for every n from 1 on, though only odd numbers are
tried, and factors only up to a half. Its loop has no bound, and that it ends is
Euclid's argument: a number that all up to n divide, and one more, has a prime factor
above n (`CommonMultiple`, `LargerPrime`). `NumberTheorem`: `itoaconv` gives decimal
digits, none to spare, that read back as the number. `TimeTextTheorem`: so do the
four digits of the time. A recursive function is in TLA+ the CHOOSE of a function
that satisfies its equation, so for each of the three used here (`search`,
`DecimalDigits`, the value of a text) such a function is first shown to exist, from
the parts of it up to each number (`SearchExists`, `DigitsExist`, `ValuesExist`); what
it gives then follows by the least number it could be wrong for. `CalculationsTheorem`
puts them together in every reachable state with the invariant `CalcInv`, that both
halves of the time have four hexadecimal digits and that the prime is positive. The
switches may leave the time no time of the calendar (a tens of seconds of 15, say),
so no more holds; `tick` cuts each half down to its width again. Numbers are
unbounded in these theorems; the source's `int` agrees with them as long as the
prime it comes to is below 2^31.

Only model-checked:

- everything under fairness (`FlaggedByteWakes`, `GetcReturns`, `CallReturns`,
  `UploadEnds`, `ShellAnswers`, `LoopComesRound`), which the prover does not reach.

That is all: every invariant, every action property and all three refinements that
the passing runs check are also theorems.

## 6. Not modelled

- The font table, the formatted output, the linker script and the build, the
  Logisim circuit and the LaTeX abstract: data, output or another tool.
- Timing in milliseconds: the models are untimed, so an overrun is always
  possible where the real line may be slow enough. Delays and lights are left out.
- `rom.c`, a second EEPROM driver that only `tests.c` uses, whose body
  `COMPILE_TESTS` leaves out of the build.
- Of the labs, `display_debug` and the power-up of the panel (`display_init`,
  the same order as the kernel's), which is over when `LabClock` begins.
- A board without the EEPROM chip, on which the polling of `eeprom.c:16-18` never
  ends, and bytes typed before a reading system call, which that call passes over and
  the menu finds later (`kernel.c:114`): no text promises either otherwise.
- Sizes of 0 for `serial_readline` and `eeprom_read`: the first writes beyond its
  buffer and is listed as a hazard, the second acknowledges a byte it has not
  received, and nobody calls it so.
- Images larger than the chip. Archives without the end mark tar writes, in which a
  header may stand in the last block of the chip, where no walk looks (`ustar.c:37`).
  What a kernel does after a text or a segment has overwritten it. Segments that do not fit
  user memory (`LoaderAssumption`): the kernel does not check, and overwrites
  whatever is there. Two files of one name: the first is run, and `RunsSelected`
  says so only for unique names.
- A program that leaves `$sp` anywhere but in its own stack: `_default_isr` uses
  it as it is (`irq.S:56`) and nothing could be shown.

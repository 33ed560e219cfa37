------------------------------- MODULE Upload -------------------------------
(***************************************************************************)
(* Uploading over the serial line: the menu of the kernel (kernel.c main), *)
(* flash_ustar, elf_load_program_serial and crcread on the board, and      *)
(* sendtar_crc32 and sendelf_crc32 on the host.                            *)
(*                                                                         *)
(* The host sends without any flow control and hears no answer; the line   *)
(* may lose or alter a byte, and the board may be reset.  What it receives *)
(* goes through the receive path of SerialRx, of which this module keeps   *)
(* what a reader can notice: a queue in order, which drops what finds it   *)
(* full, or while tail is unreduced is overwritten by it; and default_isr, *)
(* which may clear the flag of a byte it has not taken.  Such a byte is    *)
(* `late': it stays in the UART until the next one is received.  There is  *)
(* one at most, for the time between two bytes is far longer than that     *)
(* between the last look at URXDA and the clearing of the flag.            *)
(*                                                                         *)
(* The menu, the loaders and the payload share that one queue, so a byte   *)
(* is whatever the kernel is about to read.                                *)
(*                                                                         *)
(* Every upload is a key for the menu, for an image its size, then frames, *)
(* each a CRC and its bytes.  A CRC, a size and a key are one unit each.   *)
(* The unit <<u, f, k>> is byte k of frame f of upload u, or its CRC for   *)
(* k = 0; frame 0 is the key and the size.  The CRC is ideal: it matches   *)
(* the bytes it was computed from and no others.                           *)
(***************************************************************************)
EXTENDS Integers, Sequences

CONSTANTS
    ImageLen, BlockSize,  \* bytes of the filesystem image, and of a block
    HeaderLen,            \* bytes of an ELF header; a program header is one
    Programs,             \* names of the programs that may be sent
    Segments,             \* for each, the sizes of its loaded segments
    MemSize,              \* bytes of the EEPROM
    RingSize,             \* bytes the receive ring holds
    WrongSizes,           \* what other bytes amount to when read as a size
    MaxSegment,           \* bound on a segment size read from other bytes
    MaxNoise,             \* bound on the bytes lost, altered or refused
    MaxCommands,          \* bound on the uploads
    MaxResets             \* bound on the resets

ASSUME UploadAssumption ==
    /\ BlockSize \in Nat \ {0} /\ ImageLen \in Nat \ {0} /\ ImageLen <= MemSize
    /\ HeaderLen \in Nat \ {0} /\ MemSize \in Nat /\ RingSize \in Nat \ {0, 1}
    /\ {"image", "shell", "noise"} \cap Programs = {}
    /\ Segments \in [Programs -> Seq(Nat)]
    /\ WrongSizes \subseteq Nat \ {ImageLen}
    /\ MaxSegment \in Nat /\ MaxNoise \in Nat /\ MaxCommands \in Nat /\ MaxResets \in Nat

VARIABLES
    up,              \* the upload under way
    frame, byte,     \* the next unit of it the host sends
    ring,            \* received and not yet read by the kernel
    late,            \* the last of it is still in the UART, its flag cleared
    pc,              \* where the kernel stands
    size, addr,      \* flash_ustar: size and eeprom_addr
    piece,           \* elf_load_program_serial: header, program headers, segments
    need, crc, buf,  \* crcread: its size argument, crc and buffer
    mem,             \* the EEPROM
    loaded,          \* the pieces of the program in memory, while all are checked
    checked,         \* every crcread of this load has succeeded
    flashed,         \* the last flash_ustar ran to its end
    clean,           \* nothing was lost, altered, refused or reset so far
    noise, commands, resets

host == <<up, frame, byte, commands>>
reading == <<need, crc, buf>>
flash == <<size, addr, flashed>>
program == <<piece, loaded, checked>>
trouble == <<clean, noise>>
vars == <<host, ring, late, pc, flash, program, reading, mem, trouble, resets>>

Lesser(a, b) == IF a < b THEN a ELSE b

-----------------------------------------------------------------------------
(* What the host sends.                                                    *)

Uploads == {"image", "shell"} \cup Programs

\* The block of the image at offset a, in the host as in flash_ustar.
ChunkFull(n, a) == BlockSize   \* mutant: the last block is not shortened
ChunkRest(n, a) == n - a       \* mutant: a block is not limited
Chunk(n, a) == Lesser(n - a, BlockSize)

Blocks == (ImageLen + BlockSize - 1) \div BlockSize

\* The frames of upload u, and the bytes of each: the blocks of the image; of a
\* program its header and, for each segment, a program header and its contents.
FrameCount(u) ==
    CASE u = "image" -> Blocks
      [] u = "shell" -> 0
      [] OTHER -> 1 + 2 * Len(Segments[u])

FrameLen(u, f) ==
    IF u = "image" THEN Lesser(ImageLen - (f - 1) * BlockSize, BlockSize)
    ELSE IF f = 1 THEN HeaderLen
    ELSE IF f % 2 = 0 THEN 1
    ELSE Segments[u][f \div 2]

Key(u) == <<u, 0, 1>>
SizeField == <<"image", 0, 2>>
Altered == <<"noise", 0, 0>>

\* The last unit of frame f of upload u.
LastUnit(u, f) == IF f > 0 THEN FrameLen(u, f) ELSE IF u = "image" THEN 2 ELSE 1

\* The two segments the kernel reads are all a program has.
Regular(u) == u \in Programs => Len(Segments[u]) = 2

-----------------------------------------------------------------------------
Init ==
    /\ up = "shell" /\ frame = 1 /\ byte = 0 /\ ring = <<>> /\ late = FALSE
    /\ pc = "menu"
    /\ size = 0 /\ addr = 0 /\ flashed = FALSE
    /\ piece = 0 /\ loaded = <<>> /\ checked = TRUE
    /\ need = 0 /\ crc = Altered /\ buf = <<>>
    /\ mem = [a \in 0 .. MemSize - 1 |-> Altered]
    /\ clean = TRUE /\ noise = 0 /\ commands = 0 /\ resets = 0

-----------------------------------------------------------------------------
(* The host and the line.                                                  *)

Sending == frame <= FrameCount(up)

\* The host goes on to the next unit, whatever became of this one.
Advance ==
    /\ UNCHANGED <<up, commands>>
    /\ IF byte < LastUnit(up, frame) THEN byte' = byte + 1 /\ UNCHANGED frame
                                      ELSE byte' = 0 /\ frame' = frame + 1

\* There is something the kernel can see.
Readable == ring # <<>> /\ (late => Len(ring) > 1)

\* The user sees the prompt, types a choice and has the file sent.  What is late
\* then is of no upload any more.
Command(u) ==
    /\ ~Sending /\ pc = "menu" /\ ~Readable
    /\ commands < MaxCommands /\ commands' = commands + 1
    /\ up' = u /\ frame' = 0 /\ byte' = 1
    /\ clean' = (clean /\ Regular(u))
    /\ ring' = IF late THEN <<Altered>> ELSE <<>>
    /\ UNCHANGED <<late, pc, flash, program, reading, mem, noise, resets>>

\* The unit u is received: the handler takes it, with a late one before it, or
\* it comes while the handler, run for the unit before it, clears the flag.
Arrives(u) ==
    /\ ring' = Append(ring, u)
    /\ \/ Len(ring) < RingSize /\ late' = FALSE
       \/ ring # <<>> /\ ~late /\ late' = TRUE

\* The next unit is received as it is.
SendUnit ==
    /\ Sending /\ Advance
    /\ Arrives(<<up, frame, byte>>)
    /\ UNCHANGED <<pc, flash, program, reading, mem, trouble, resets>>

\* The last n elements of s.
LastOf(n, s) == SubSeq(s, Len(s) - n + 1, Len(s))

\* It finds the ring full: it is dropped or, while tail stands unreduced, takes
\* the place of all that was waiting, the byte just claimed included.
SendOverrun ==
    /\ Sending /\ Advance
    /\ Len(ring) >= RingSize
    /\ \/ ring' = SubSeq(ring, 1, RingSize)
       \/ \E n \in 0 .. (IF late THEN 2 ELSE 1) :
              ring' = LastOf(n, Append(ring, <<up, frame, byte>>))
    /\ late' = FALSE /\ clean' = FALSE
    /\ UNCHANGED <<pc, flash, program, reading, mem, noise, resets>>

\* It is lost or altered on the line.
SendNoise ==
    /\ Sending /\ Advance
    /\ noise < MaxNoise /\ noise' = noise + 1 /\ clean' = FALSE
    /\ UNCHANGED <<ring, late>> \/ Arrives(Altered)
    /\ UNCHANGED <<pc, flash, program, reading, mem, resets>>

-----------------------------------------------------------------------------
(* The menu.  The locals of a routine that has returned are cleared.       *)
NoLoad == piece' = 0 /\ loaded' = <<>> /\ checked' = TRUE
NoRead == need' = 0 /\ crc' = Altered /\ buf' = <<>>

\* serial_read takes the unit u.
Read(u) == Readable /\ u = Head(ring) /\ ring' = Tail(ring) /\ UNCHANGED late

\* What a unit means to the menu: a key what it says, the payload anything.
MenuChoices(u) ==
    CASE u = Key("image") -> {"F"}
      [] u = Key("shell") -> {"G"}
      [] u \in {Key(p) : p \in Programs} -> {"U"}
      [] OTHER -> {"F", "U", "G", "unknown"}

\* "G" stands for the graphical shell and for running program.elf.
Menu(u) ==
    /\ pc = "menu" /\ Read(u)
    /\ \E c \in MenuChoices(u) :
          /\ pc' = CASE c = "F" -> "size" [] c = "U" -> "crc"
                     [] c = "G" -> "elsewhere" [] OTHER -> "menu"
          /\ piece' = IF c = "U" THEN 1 ELSE 0
          /\ need' = IF c = "U" THEN HeaderLen ELSE 0
    /\ UNCHANGED <<host, flash, loaded, checked, crc, buf, mem, trouble, resets>>

\* The shell is left, or the program returns.
Back ==
    /\ pc \in {"elsewhere", "running"} /\ pc' = "menu"
    /\ NoLoad
    /\ UNCHANGED <<host, ring, late, flash, reading, mem, trouble, resets>>

-----------------------------------------------------------------------------
(* crcread.                                                                *)
ReadCrc(u) ==
    /\ pc = "crc" /\ Read(u)
    /\ crc' = u /\ buf' = <<>>
    /\ pc' = IF need = 0 THEN "check" ELSE "data"
    /\ UNCHANGED <<host, flash, program, need, mem, trouble, resets>>

ReadData(u) ==
    /\ pc = "data" /\ Read(u)
    /\ buf' = Append(buf, u)
    /\ pc' = IF Len(buf') = need THEN "check" ELSE "data"
    /\ UNCHANGED <<host, flash, program, need, crc, mem, trouble, resets>>

\* The bytes of frame f of upload u.
Frame(u, f) == [k \in 1 .. FrameLen(u, f) |-> <<u, f, k>>]

\* crc is the CRC of buf.
CheckCrcIgnored == TRUE   \* mutant: check_crc always returns 1
CheckCrc == \E u \in Uploads : \E f \in 1 .. FrameCount(u) :
                crc = <<u, f, 0>> /\ buf = Frame(u, f)

-----------------------------------------------------------------------------
(* flash_ustar.                                                            *)

\* The head of the loop, with the size n and the address a.
Loop(n, a) ==
    /\ addr' = a /\ crc' = Altered /\ buf' = <<>>
    /\ IF a < n THEN pc' = "crc" /\ need' = Chunk(n, a) /\ flashed' = FALSE
                ELSE pc' = "menu" /\ need' = 0 /\ flashed' = TRUE

ReadSize(u) ==
    /\ pc = "size" /\ Read(u)
    /\ size' \in (IF u = SizeField THEN {ImageLen} ELSE WrongSizes)
    /\ Loop(size', 0)
    /\ UNCHANGED <<host, program, mem, trouble, resets>>

\* The loop is left, to the same "Done!".
Break == pc' = "menu" /\ addr' = 0 /\ size' = 0 /\ NoRead /\ UNCHANGED flashed

CheckBlock ==
    /\ pc = "check" /\ piece = 0
    /\ IF CheckCrc THEN pc' = "write" /\ UNCHANGED <<flash, reading>> ELSE Break
    /\ UNCHANGED <<host, ring, late, program, mem, trouble, resets>>

\* The memory with the bytes of buf at the offsets kept written.
Stored(kept) ==
    [a \in 0 .. MemSize - 1 |->
        LET at == {k \in kept : (addr + k - 1) % MemSize = a}
        IN IF at = {} THEN mem[a] ELSE buf[CHOOSE k \in at : TRUE]]

\* eeprom_write; the chip may refuse some of the bytes.
WriteBlock ==
    /\ pc = "write" /\ pc' = "verify"
    /\ \/ mem' = Stored(1 .. need) /\ UNCHANGED trouble
       \/ /\ noise < MaxNoise /\ noise' = noise + 1 /\ clean' = FALSE
          /\ \E kept \in SUBSET (1 .. need) : mem' = Stored(kept)
    /\ UNCHANGED <<host, ring, late, flash, program, reading, resets>>

VerifyBlockUnread ==   \* mutant: what was written is not compared
    /\ pc = "verify"
    /\ Loop(size, addr + BlockSize) /\ UNCHANGED size
    /\ UNCHANGED <<host, ring, late, program, mem, trouble, resets>>

VerifyBlockTooShort ==   \* mutant: the last block is left out
    /\ pc = "verify"
    /\ Loop(size - BlockSize, addr + BlockSize) /\ UNCHANGED size
    /\ UNCHANGED <<host, ring, late, program, mem, trouble, resets>>

\* eeprom_read, and the CRC of what it read against that of the block.
VerifyBlock ==
    /\ pc = "verify"
    /\ IF buf = [k \in 1 .. need |-> mem[(addr + k - 1) % MemSize]]
       THEN Loop(size, addr + BlockSize) /\ UNCHANGED size
       ELSE Break
    /\ UNCHANGED <<host, ring, late, program, mem, trouble, resets>>

-----------------------------------------------------------------------------
(* elf_load_program_serial.                                                *)

\* What is in buf is the program header of segment s of program p.
Announces(p, s) == buf = <<<<p, 2 * s, 1>>>>

\* The sizes p_filesz may have.
FileSizes == {n \in 0 .. MaxSegment :
    \A p \in Programs : \A s \in DOMAIN Segments[p] : Announces(p, s) => n = Segments[p][s]}

\* A piece is in memory, checked or not; after the header come twice a program
\* header and the segment it announces, then the program is run.
LoadPiece ==
    /\ pc = "check" /\ piece > 0
    /\ checked' = (checked /\ CheckCrc)
    /\ loaded' = IF checked' THEN Append(loaded, buf) ELSE <<>>
    /\ crc' = Altered /\ buf' = <<>>
    /\ IF piece = 5
       THEN pc' = "running" /\ need' = 0 /\ UNCHANGED piece
       ELSE /\ pc' = "crc" /\ piece' = piece + 1
            /\ need' \in (IF piece' % 2 = 0 THEN {1} ELSE FileSizes)
    /\ UNCHANGED <<host, ring, late, flash, mem, trouble, resets>>

-----------------------------------------------------------------------------
\* The board is reset; a block being written is written in part.
Reset ==
    /\ resets < MaxResets /\ resets' = resets + 1
    /\ clean' = FALSE
    /\ pc' = "menu" /\ ring' = <<>> /\ late' = FALSE
    /\ IF pc = "write" THEN \E kept \in SUBSET (1 .. need) : mem' = Stored(kept)
                       ELSE UNCHANGED mem
    /\ size' = 0 /\ addr' = 0 /\ flashed' = FALSE
    /\ NoLoad /\ NoRead
    /\ UNCHANGED <<host, noise>>

-----------------------------------------------------------------------------
Kernel ==
    \/ Readable /\ LET u == Head(ring)
                  IN Menu(u) \/ ReadSize(u) \/ ReadCrc(u) \/ ReadData(u)
    \/ CheckBlock \/ WriteBlock \/ VerifyBlock \/ LoadPiece

Host == SendUnit \/ SendOverrun \/ SendNoise

Next ==
    \/ Kernel \/ Host \/ Back \/ Reset
    \/ \E u \in Uploads : Command(u)

Spec == Init /\ [][Next]_vars

\* The kernel goes on while it has a byte to read, and the host sends what it
\* has begun to send.  A program need not return, nor the user leave the shell.
FairSpec == Spec /\ WF_vars(Kernel) /\ WF_vars(Host)

-----------------------------------------------------------------------------
Units(u) ==
    {<<u, 0, k>> : k \in 1 .. LastUnit(u, 0)}
      \cup UNION {{<<u, f, k>> : k \in 0 .. LastUnit(u, f)} : f \in 1 .. FrameCount(u)}

AllUnits == {Altered} \cup UNION {Units(u) : u \in Uploads}

\* Types; crcread never runs beyond the 512 bytes of flash_ustar's buffer.
TypeOK ==
    /\ up \in Uploads
    /\ <<up, frame, byte>> \in Units(up) \cup {<<up, FrameCount(up) + 1, 0>>}
    /\ ring \in Seq(AllUnits) /\ late \in BOOLEAN
    /\ Len(ring) <= IF late THEN RingSize + 1 ELSE RingSize
    /\ late => ring # <<>>
    /\ pc \in {"menu", "size", "crc", "data", "check", "write", "verify", "running", "elsewhere"}
    /\ size \in Nat /\ addr \in Nat /\ flashed \in BOOLEAN
    /\ piece \in 0 .. 5 /\ checked \in BOOLEAN /\ loaded \in Seq(Seq(AllUnits))
    /\ need \in Nat /\ crc \in AllUnits /\ buf \in Seq(AllUnits)
    /\ (piece = 0 /\ pc \in {"data", "check", "write", "verify"})
          => need <= BlockSize /\ Len(buf) <= BlockSize
    /\ mem \in [0 .. MemSize - 1 -> AllUnits]
    /\ clean \in BOOLEAN
    /\ noise \in 0 .. MaxNoise /\ commands \in 0 .. MaxCommands /\ resets \in 0 .. MaxResets

\* The units of the image, in order.
ImageByte(a) == <<"image", (a \div BlockSize) + 1, (a % BlockSize) + 1>>

\* A flash that ran to its end stored the whole image, each block in its place,
\* whatever was lost, altered, overrun or refused on the way, provided it read
\* the size the host sent, which no CRC guards (kernel.c:157-192,
\* sendtar_crc32.c:69-77).
CompleteMeansStored ==
    (flashed /\ size = ImageLen)
        => \A a \in 0 .. ImageLen - 1 : mem[a] = ImageByte(a)

\* As long as nothing goes wrong on the line the menu takes only keys for
\* choices: the loaders read exactly what the host sends (sendtar_crc32.c:73-77
\* against kernel.c:166-189, sendelf_crc32.c:77-98 against elf.c:66-90).
CommandsAreKeys ==
    clean /\ pc = "menu" /\ ring # <<>> => Head(ring) \in {Key(u) : u \in Uploads}

\* A program of two segments, its header read and all its pieces checked, is in
\* memory as it was sent (elf.c:66-90).
CheckedMeansIntact ==
    (pc = "running" /\ checked) =>
        \A p \in Programs : Regular(p) /\ loaded[1] = Frame(p, 1)
            => loaded = [f \in 1 .. FrameCount(p) |-> Frame(p, f)]

\* On a clean line every upload comes to its end, unless default_isr cleared the
\* flag over its last byte, for which the kernel then waits (serial.c:209-210,
\* interrupts.c:55-66); a byte of another kind is fetched with the next.
UploadEnds ==
    (pc \in {"size", "crc", "data", "check", "write", "verify"})
        ~> (pc \in {"menu", "running"} \/ ~clean \/ (late /\ ~Sending))

\* "Read with simple error checking" (elf.c:49): a program is run only if all
\* the pieces it was loaded from passed the check.
RunsOnlyChecked == pc = "running" => checked
=============================================================================

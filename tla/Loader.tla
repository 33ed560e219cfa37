------------------------------- MODULE Loader -------------------------------
(***************************************************************************)
(* The tar image in the EEPROM (kernel/ustar.c) and the loading of a       *)
(* program from it (elf_load_eeprom, kernel/elf.c).                        *)
(*                                                                         *)
(* The EEPROM is a function from blocks to block contents; eeprom_read is  *)
(* taken at its word (EepromDriver.ReadReturnsStored).  A block is a tar   *)
(* header with the name and size of its file, the first block of an ELF    *)
(* file, a later one, bytes of two others, or something else.  A byte is   *)
(* the block it is in and its place there, so one from a wrong place shows.*)
(***************************************************************************)
EXTENDS Integers, Sequences

CONSTANTS
    Block,      \* USTAR_BLOCK_SIZE (512)
    MemBlocks,  \* blocks of the chip (64)
    Programs,   \* program headers of each program: file offset, address, sizes
    UserSize    \* bytes of user memory

MemSize == MemBlocks * Block
AddrSpace == 2 * MemSize     \* values of a uint16_t address
EEPROM_SIZE == MemSize - 1

\* Segments lie in user memory and are no longer in the file than there.
ASSUME LoaderAssumption ==
    /\ Block \in Nat \ {0} /\ MemBlocks \in Nat \ {0} /\ UserSize \in Nat
    /\ \A p \in DOMAIN Programs :
          /\ Programs[p] \in Seq([offset : Nat, vaddr : Nat, filesz : Nat, memsz : Nat])
          /\ \A s \in DOMAIN Programs[p] :
                /\ Programs[p][s].vaddr + Programs[p][s].memsz <= UserSize
                /\ Programs[p][s].filesz <= Programs[p][s].memsz

VARIABLES
    fs,     \* the blocks of the EEPROM
    at,     \* addr, curaddr: where the walk through the image stands
    base,   \* the address of the file found
    seg,    \* the program header loaded next
    user    \* user memory

Contents(kind, name, size) == [kind |-> kind, name |-> name, size |-> size]
Nothing == Contents("none", "", 0)
Mixed == Contents("mixed", "", 0)
Zero == <<>>
Leftover == <<"leftover">>

BlockAt(a) == fs[(a % MemSize) \div Block]
ByteAt(a) == <<BlockAt(a), a % Block>>

\* The blocks of a file with n bytes, with its header.
FileBlocks(n) == 1 + n \div Block + (IF n % Block = 0 THEN 0 ELSE 1)

-----------------------------------------------------------------------------
(* The walk, the same in ustar_find_file, get_file_count and               *)
(* populate_filelist.                                                      *)
InRange(a) == a <= EEPROM_SIZE - Block
IsHeader(a) == InRange(a) /\ BlockAt(a).kind = "ustar"

\* The next header, in 16 bits: over the header and the file, to a whole block.
AfterUnpadded(a) ==   \* mutant: the block is not completed
    (a + Block + BlockAt(a).size) % AddrSpace

After(a) ==
    LET size == BlockAt(a).size
        padding == IF size % Block = 0 THEN 0 ELSE Block - (size % Block)
    IN (a + Block + size + padding) % AddrSpace

-----------------------------------------------------------------------------
(* elf_load_eeprom                                                         *)

\* The results the checks on the ELF header of the file at base may have.
Verdicts ==
    CASE BlockAt(base).kind = "elf" -> {"ELF_OK"}
      [] BlockAt(base).kind = "alien" -> {"ELF_UNSUPPORTED"}
      [] BlockAt(base).kind = "mixed" -> {"ELF_OK", "ELF_UNSUPPORTED", "ELF_INVALID_FORMAT"}
      [] OTHER -> {"ELF_INVALID_FORMAT"}

Headers == Programs[BlockAt(base).name]

\* User memory once the segment of header s is read in and the rest zeroed.
LoadedNoBss(s) ==   \* mutant: the memset is skipped with the read
    [v \in 0 .. UserSize - 1 |->
        IF s.filesz = 0 \/ v \notin s.vaddr .. s.vaddr + s.memsz - 1 THEN user[v]
        ELSE IF v < s.vaddr + s.filesz THEN ByteAt((base + s.offset + (v - s.vaddr)) % AddrSpace)
        ELSE Zero]

Loaded(s) ==
    [v \in 0 .. UserSize - 1 |->
        IF v \in s.vaddr .. s.vaddr + s.filesz - 1
            THEN ByteAt((base + s.offset + (v - s.vaddr)) % AddrSpace)
        ELSE IF v \in s.vaddr + s.filesz .. s.vaddr + s.memsz - 1 THEN Zero
        ELSE user[v]]

=============================================================================

------------------------------ MODULE GuiShell ------------------------------
(***************************************************************************)
(* The graphical shell (kernel/guishell.c) over the image and the loader   *)
(* (Loader) and the display (Display), as it is entered from main, with    *)
(* the other ways to run a program (elf_run "program.elf") and to change   *)
(* the image: flash_ustar, which may stop in the middle of any block and   *)
(* may put blocks where they do not belong (see Upload).                   *)
(*                                                                         *)
(* A step is one header read by a walk, one segment loaded, one press of a *)
(* button, or one operation of the display; the code between two of them   *)
(* runs on by itself.  A user program leaves anything in user memory, and  *)
(* the display off, or lit by a driver of its own, and SPI2 on or off.     *)
(*                                                                         *)
(* Two places of the foreground have no way out.  "endless" is a walk that *)
(* has come round to headers it has passed.  "lost" is where memory beyond *)
(* these variables has been written: by a text drawn past DPY_BUFFER, or   *)
(* by segments whose headers are a mixture of two.  What follows then is   *)
(* the linker's affair and not described.                                  *)
(***************************************************************************)
EXTENDS Display, Loader

CONSTANTS
    Names,        \* file names
    NameLength,   \* their lengths
    ProgramElf,   \* "program.elf"
    Images,       \* tar images: sequences of blocks
    Slips,        \* where a transfer may get out of step: pairs of a block and how many are lost
    DamagedSizes, \* what oct2bin may make of other bytes than a header's digits
    MaxFlashes,   \* bound on the images flashed
    MaxRuns       \* bound on the programs run

FILE_ENTRY_COUNT == 3
Garbage == "garbage"   \* a name read beyond the list, or from what is no whole header

IsFile(block) == block.kind = "ustar"

BlockContents ==
    [kind : {"ustar", "elf", "part", "alien", "none"},
     name : Names \cup DOMAIN Programs \cup {""}, size : Nat]
ChipContents ==
    [kind : {"ustar", "elf", "part", "alien", "none", "mixed"},
     name : Names \cup DOMAIN Programs \cup {"", Garbage}, size : Nat]

\* The next header, or the mark of the end, is block next of the archive.
GoesOnAt(img, b, next) ==
    /\ next <= Len(img)
    /\ \A c \in b + 1 .. next - 1 : ~IsFile(img[c])
    /\ ~IsFile(img[next]) => \A c \in next .. Len(img) : ~IsFile(img[c])

\* An archive as tar writes it, no longer than the chip: behind the data of a file
\* comes the header of the next one or the end of the archive, which is marked.
\* Only header blocks are taken for headers, ELF files for the programs they are.
TarImage(img) ==
    /\ img \in Seq(BlockContents)
    /\ Len(img) <= MemBlocks
    /\ img # <<>> /\ ~IsFile(img[1]) => \A b \in DOMAIN img : ~IsFile(img[b])
    /\ \A b \in DOMAIN img :
          /\ img[b].kind = "elf" => img[b].name \in DOMAIN Programs
          /\ IsFile(img[b]) =>
                img[b].name \in Names /\ GoesOnAt(img, b, b + FileBlocks(img[b].size))

ASSUME ShellAssumption ==
    /\ NameLength \in [Names -> Nat] /\ ProgramElf \in Names /\ Garbage \notin Names
    /\ \A img \in Images : TarImage(img)
    /\ Slips \subseteq Nat \X Nat /\ DamagedSizes \subseteq Nat
    /\ MaxFlashes \in Nat /\ MaxRuns \in Nat

VARIABLES
    pc,       \* what runs next once the display is done
    count,    \* filelist_size
    list,     \* filelist, as far as it is filled
    first,    \* first_visible
    selected, \* selected
    arg,      \* the file name given to elf_run
    home,     \* who called elf_run: "menu" or "shell"
    code,     \* what elf_run returned
    whole,    \* the image in the EEPROM, if it was flashed to its end
    flashes, runs

image == <<fs, at, base, seg, user>>
shell == <<count, list, first, selected>>
call == <<arg, home, code>>
bounds == <<whole, flashes, runs>>
vars == <<display, image, shell, call, bounds, pc>>

\* The user sees the first 16 characters of a name.
ShownLengthAll(name) == NameLength[name]   \* mutant: the whole name is copied
ShownLength(name) == IF NameLength[name] < 16 THEN NameLength[name] ELSE 16

-----------------------------------------------------------------------------
(* The pictures.                                                           *)
Intro == <<"intro">>
Loading == <<"loading">>
Result(c) == <<"result", c>>

\* draw_filelist: three entries, whether the list has them or not.
EntryName(k) == IF k <= Len(list) THEN list[k].name ELSE Garbage
FileList(start, sel) ==
    <<"files", [j \in 1 .. FILE_ENTRY_COUNT |-> EntryName(start + j)], sel - start>>

\* The pixels entry j lights or clears at most, with a name of n characters.
Entry(j, n, inverted) ==
    Text(0, j * 11, n) \cup IF inverted THEN FilledRect(1, j * 11 + 1, 126, 8)
                                        ELSE Rect(0, j * 11, 128, 10)

-----------------------------------------------------------------------------
Init ==
    /\ DisplayInit
    /\ fs = [b \in 0 .. MemBlocks - 1 |-> Nothing] /\ at = 0 /\ base = 0 /\ seg = 0
    /\ user = [v \in 0 .. UserSize - 1 |-> Leftover]
    /\ pc = "menu" /\ count = 0 /\ list = <<>> /\ first = 0 /\ selected = 0
    /\ arg = Garbage /\ home = "menu" /\ code = "ELF_OK"
    /\ whole = <<>> /\ flashes = 0 /\ runs = 0

\* The foreground is at p and the display has done all it was asked for.
At(p) == pc = p /\ todo = <<>>

\* Draw p and send it to the panel, after the operations before.
Draw(before, p) ==
    /\ buffer' = p /\ todo' = before \o UpdateOps
    /\ UNCHANGED <<inited, high, spi, panel>>

\* draw_filelist and display_update, then the wait for a button.  A text in the
\* third place that is no entry of the list may run past DPY_BUFFER.
Redraw ==
    /\ Draw(<<>>, FileList(first', selected'))
    /\ \/ pc' = "poll"
       \/ first' + FILE_ENTRY_COUNT > Len(list) /\ pc' = "lost"

-----------------------------------------------------------------------------
(* The menu of main.                                                       *)

\* The block of an image that comes for block b of the chip: from slip[1] on one behind
\* slip[2] others, lost in whole frames, or before the kernel was reset at block 0.
Sent(slip, b) == IF b < slip[1] THEN b + 1 ELSE slip[2] + b + 1

\* The chip with its first n blocks written.
Written(img, slip, n) ==
    [b \in 0 .. MemBlocks - 1 |-> IF b < n THEN img[Sent(slip, b)] ELSE fs[b]]

\* flash_ustar, for n whole blocks.
Flash(img, slip, n) ==
    /\ At("menu") /\ flashes < MaxFlashes /\ Sent(slip, n) <= Len(img) + 1
    /\ fs' = Written(img, slip, n)
    /\ whole' = IF n = Len(img) THEN img ELSE <<>>
    /\ flashes' = flashes + 1
    /\ UNCHANGED <<display, at, base, seg, user, shell, call, runs, pc>>

NameIn(block) == IF IsFile(block) THEN block.name ELSE Garbage

\* The headers there can be with bytes of two blocks, one of them a header: each
\* field is as one of them has it, or neither.  Of the digits of two sizes none is
\* longer than the chip.
MixedHeaders(old, new) ==
    LET both == IsFile(old) /\ IsFile(new)
        names == {NameIn(old), NameIn(new)}
        sizes == {c.size : c \in {d \in {old, new} : IsFile(d)}}
    IN {Contents("ustar", name, size) :
           name \in names \cup (IF old.name = new.name THEN {} ELSE {Garbage}),
           size \in sizes \cup {n \in DamagedSizes : ~both \/ (n < MemSize /\ old.size # new.size)}}

\* A block whose pages, or bytes, were written in part: "ustar" is that of either.
HalfWritten(old, new) ==
    (IF IsFile(old) /\ IsFile(new) THEN {} ELSE {Mixed})
        \cup (IF IsFile(old) \/ IsFile(new) THEN MixedHeaders(old, new) ELSE {})

\* flash_ustar that breaks off inside a block: bytes the chip has refused, and the
\* break at the checksum, or a reset inside eeprom_write.
FlashBroken(img, slip, n) ==
    /\ At("menu") /\ flashes < MaxFlashes /\ Sent(slip, n) <= Len(img)
    /\ fs[n] # img[Sent(slip, n)]
    /\ \E block \in HalfWritten(fs[n], img[Sent(slip, n)]) :
          fs' = [Written(img, slip, n) EXCEPT ![n] = block]
    /\ whole' = <<>> /\ flashes' = flashes + 1
    /\ UNCHANGED <<display, at, base, seg, user, shell, call, runs, pc>>

\* elf_run: the walk of ustar_find_file begins.
ElfRun(name, caller) ==
    /\ runs < MaxRuns /\ runs' = runs + 1
    /\ arg' = name /\ home' = caller /\ at' = 0 /\ pc' = "find"
    /\ UNCHANGED <<fs, base, seg, user, code, whole, flashes>>

RunProgramElf == At("menu") /\ ElfRun(ProgramElf, "menu") /\ UNCHANGED <<display, shell>>

\* [G], or switch 4: graphical_shell up to the wait for BTN1.
EnterShell ==
    /\ At("menu") /\ pc' = "intro"
    /\ Draw(InitOps, Intro)
    /\ UNCHANGED <<image, shell, call, bounds>>

-----------------------------------------------------------------------------
(* Making the list.                                                        *)

\* BTN1 at the intro.
StartLoading ==
    /\ At("intro") /\ pc' = "count"
    /\ Draw(<<>>, Loading)
    /\ at' = 0 /\ count' = 0
    /\ UNCHANGED <<fs, base, seg, user, list, first, selected, call, bounds>>

\* get_file_count, then the array is allocated.  With as many headers counted as the
\* chip has blocks the walk has come round.
CountFile ==
    /\ At("count")
    /\ \/ IsHeader(at) /\ count < MemBlocks /\ count' = count + 1 /\ at' = After(at) /\ UNCHANGED <<pc, list>>
       \/ IsHeader(at) /\ count = MemBlocks /\ pc' = "endless" /\ UNCHANGED <<count, at, list>>
       \/ ~IsHeader(at) /\ pc' = "populate" /\ at' = 0 /\ list' = <<>> /\ UNCHANGED count
    /\ UNCHANGED <<display, fs, base, seg, user, first, selected, call, bounds>>

PopulateFileNoStop ==   \* mutant: the second walk stops at the end of the chip only
    /\ At("populate")
    /\ IF InRange(at)
         THEN /\ list' = Append(list, [addr |-> at, name |-> BlockAt(at).name])
              /\ at' = After(at) /\ UNCHANGED <<display, pc, first, selected>>
         ELSE first' = 0 /\ selected' = 0 /\ at' = 0 /\ Redraw /\ UNCHANGED list
    /\ UNCHANGED <<fs, base, seg, user, count, call, bounds>>

\* populate_filelist, then the first screen of the list.
PopulateFile ==
    /\ At("populate")
    /\ IF IsHeader(at)
         THEN /\ list' = Append(list, [addr |-> at, name |-> BlockAt(at).name])
              /\ at' = After(at) /\ UNCHANGED <<display, pc, first, selected>>
         ELSE first' = 0 /\ selected' = 0 /\ at' = 0 /\ Redraw /\ UNCHANGED list
    /\ UNCHANGED <<fs, base, seg, user, count, call, bounds>>

-----------------------------------------------------------------------------
(* The buttons.  With several pressed the loop takes the first of BTN2,    *)
(* BTN3, BTN4, BTN1; which one it takes is free here anyway.               *)

\* BTN2
Exit ==
    /\ At("poll") /\ pc' = "menu"
    /\ todo' = ShutdownOps /\ UNCHANGED <<buffer, inited, high, spi, panel>>
    /\ list' = <<>> /\ count' = 0 /\ first' = 0 /\ selected' = 0
    /\ UNCHANGED <<image, call, bounds>>

\* BTN3; at the last file nothing changes.
Down ==
    /\ At("poll") /\ selected + 1 < count
    /\ selected' = selected + 1
    /\ first' = IF selected' - first >= FILE_ENTRY_COUNT
                  THEN selected' - FILE_ENTRY_COUNT + 1 ELSE first
    /\ Redraw
    /\ UNCHANGED <<image, count, list, call, bounds>>

\* BTN4; at the first file nothing changes.
Up ==
    /\ At("poll") /\ selected # 0
    /\ selected' = selected - 1
    /\ first' = IF selected = first THEN first - 1 ELSE first
    /\ Redraw
    /\ UNCHANGED <<image, count, list, call, bounds>>

\* BTN1 opens the file whose header is at a.
OpenAt(a) ==
    /\ buffer' = Blank /\ todo' = UpdateOps \o ShutdownOps
    /\ UNCHANGED <<inited, high, spi, panel, shell>>
    /\ ElfRun(IF BlockAt(a).kind = "ustar" THEN BlockAt(a).name ELSE Garbage, "shell")

\* Without any file the address is whatever lies beyond the empty array.
Open ==
    /\ At("poll")
    /\ \/ selected < Len(list) /\ OpenAt(list[selected + 1].addr)
       \/ selected >= Len(list) /\ \E a \in 0 .. MemSize - 1 : OpenAt(a)

-----------------------------------------------------------------------------
(* elf_run.                                                                *)
Return(c) ==
    /\ code' = c /\ pc' = (IF home = "shell" THEN "result" ELSE "menu")
    /\ at' = 0 /\ base' = 0 /\ seg' = 0

\* ustar_find_file
FindFile ==
    /\ At("find")
    /\ \/ ~IsHeader(at) /\ Return("ELF_NOT_FOUND")
       \/ IsHeader(at) /\ BlockAt(at).name # arg /\ at' = After(at) /\ UNCHANGED <<base, seg, code, pc>>
       \/ /\ IsHeader(at) /\ BlockAt(at).name = arg
          /\ base' = (at + Block) % AddrSpace /\ pc' = "check" /\ UNCHANGED <<at, seg, code>>
    /\ UNCHANGED <<display, fs, user, shell, arg, home, bounds>>

\* elf_load_eeprom: the ELF header, and with it the place of the program headers.
CheckHeader ==
    /\ At("check")
    /\ \E verdict \in Verdicts :
          \/ verdict # "ELF_OK" /\ Return(verdict)
          \/ verdict = "ELF_OK" /\ BlockAt(base).kind = "elf"
                /\ seg' = 3 /\ pc' = "load" /\ UNCHANGED <<at, base, code>>
          \/ verdict = "ELF_OK" /\ BlockAt(base).kind # "elf"
                /\ pc' = "lost" /\ UNCHANGED <<seg, at, base, code>>
    /\ UNCHANGED <<display, fs, user, shell, arg, home, bounds>>

\* The segments from the third on, then farcall.
LoadSegment ==
    /\ At("load")
    /\ IF seg <= Len(Headers)
         THEN user' = Loaded(Headers[seg]) /\ seg' = seg + 1 /\ UNCHANGED pc
         ELSE pc' = "user" /\ UNCHANGED <<user, seg>>
    /\ UNCHANGED <<display, fs, at, base, shell, call, bounds>>

\* The panel as a program may leave it.
UserPanel == [got |-> Setup, lit |-> TRUE, page |-> 0, ram |-> [i \in 0 .. Pages - 1 |-> <<"user">>]]

\* The program returns; it need not.
UserReturns ==
    /\ At("user") /\ Return("ELF_OK")
    /\ user' = [v \in 0 .. UserSize - 1 |-> Leftover]
    /\ \/ UNCHANGED <<high, panel>>
       \/ high' \in {{"reset"}, {"reset", "data"}} /\ panel' = UserPanel
    /\ spi' \in BOOLEAN
    /\ UNCHANGED <<buffer, inited, todo, fs, shell, arg, home, bounds>>

\* Back in the shell: the display is turned on again and shows the result.
ShowResult ==
    /\ At("result") /\ pc' = "seen"
    /\ Draw(InitOps, Result(code))
    /\ UNCHANGED <<image, shell, call, bounds>>

\* After the delay the list is shown again.
BackToList ==
    /\ At("seen") /\ UNCHANGED <<first, selected>> /\ Redraw
    /\ UNCHANGED <<image, count, list, call, bounds>>

-----------------------------------------------------------------------------
DisplayRuns == pc # "lost" /\ DisplayStep /\ UNCHANGED <<image, shell, call, bounds, pc>>

\* What the kernel does without waiting for anybody.
Kernel ==
    \/ DisplayRuns \/ CountFile \/ PopulateFile \/ FindFile \/ CheckHeader \/ LoadSegment
    \/ ShowResult \/ BackToList

Next ==
    \/ \E img \in Images : \E slip \in Slips : \E n \in 0 .. Len(img) :
          Flash(img, slip, n) \/ FlashBroken(img, slip, n)
    \/ RunProgramElf \/ EnterShell \/ StartLoading \/ Exit \/ Down \/ Up \/ Open
    \/ UserReturns \/ Kernel

Spec == Init /\ [][Next]_vars

\* The processor goes on; users and programs need not.
FairSpec == Spec /\ WF_vars(Kernel)

-----------------------------------------------------------------------------
(* What the shell promises.                                                *)
TypeOK ==
    /\ high \subseteq {"data", "vbat", "vdd", "reset"} /\ inited \in BOOLEAN /\ spi \in BOOLEAN
    /\ panel.page \in 0 .. Pages - 1 /\ panel.got \subseteq Setup
    /\ at \in 0 .. AddrSpace - 1 /\ base \in 0 .. AddrSpace - 1
    /\ pc \in {"menu", "intro", "count", "populate", "poll", "find", "check", "load",
               "user", "result", "seen", "endless", "lost"}
    /\ count \in 0 .. MemBlocks /\ Len(list) <= count
    /\ home \in {"menu", "shell"} /\ arg \in Names \cup {Garbage}
    /\ code \in {"ELF_OK", "ELF_NOT_FOUND", "ELF_INVALID_FORMAT", "ELF_UNSUPPORTED"}

\* What the list should have for the header that is block b of the image flashed.
EntryOf(b) == [addr |-> (b - 1) * Block, name |-> whole[b].name]

\* With an image flashed to its end the list holds exactly its files, in their
\* order, and every one fits the array that was allocated for the count of an
\* earlier walk (guishell.c:49-65, 75-107, 139).
ListComplete ==
    (At("poll") /\ whole # <<>>)
        => /\ \A k \in DOMAIN list : \E b \in DOMAIN whole : IsFile(whole[b]) /\ list[k] = EntryOf(b)
           /\ \A b \in DOMAIN whole : IsFile(whole[b]) => \E k \in DOMAIN list : list[k] = EntryOf(b)
           /\ \A j, k \in DOMAIN list : j < k => list[j].addr < list[k].addr
           /\ count = Len(list)

\* Whenever the shell waits for a button the panel is on and shows the window of
\* the list that the next press acts on, with the selection in it, and while it
\* waits for a result to be seen it shows that, whatever the last program did to
\* the display and the SPI bus (guishell.c:28-41, 155-243).
ScreenShowsState ==
    /\ At("poll") => /\ Shows(FileList(first, selected))
                     /\ first <= selected /\ selected < first + FILE_ENTRY_COUNT
                     /\ count > 0 => selected < count
    /\ At("seen") => Shows(Result(code))

\* What a press of BTN1 starts is the selected file, if no other has its name,
\* loaded as it is in the image, with the rest of each segment zero although
\* user memory was full of what the last program left; no file of the list is
\* reported missing (guishell.c:188-211; elf.c:129-144).
Selected == list[selected + 1]
UniqueName == \A k \in DOMAIN list : list[k].name = Selected.name => k = selected + 1
Intact(p) == \A k \in 0 .. BlockAt(base - Block).size - 1 :
                BlockAt(base + k).name = p /\ BlockAt(base + k).kind \in {"elf", "part"}
Covers(s, v) == v \in s.vaddr .. s.vaddr + s.memsz - 1
Byte(s, k) == IF k < s.filesz THEN ByteAt(base + s.offset + k) ELSE Zero
\* Segment s as it is with the segments up to n loaded: later ones may lie over it.
InPlace(s, n) ==
    \A k \in 0 .. Headers[s].memsz - 1 :
        (\A t \in s + 1 .. n : ~Covers(Headers[t], Headers[s].vaddr + k))
            => user[Headers[s].vaddr + k] = Byte(Headers[s], k)
RunsSelected ==
    /\ (pc \in {"result", "seen"} /\ Len(list) > 0) => code # "ELF_NOT_FOUND"
    /\ (pc = "user" /\ home = "shell" /\ Len(list) > 0 /\ UniqueName)
         => /\ base = Selected.addr + Block
            /\ Intact(BlockAt(base).name)
                 => \A s \in 3 .. Len(Headers) : InPlace(s, Len(Headers))

\* The panel's high voltage is only on with its logic, and the kernel cuts no
\* power from a panel it has lit itself before it has turned it off, in any
\* sequence of sessions and programs (display.c:75-118, 152-168).
PoweredInOrder ==
    [][ /\ "vbat" \notin high' => "vdd" \notin high'
        /\ {"vbat", "vdd"} \cap (high' \ high) # {} => ~panel.lit \/ ~inited ]_vars

\* What an entry of the list draws stays in its own ten rows of the screen, and a text
\* drawn beyond the end of the list, of any length, stays out of them.  Nothing is drawn
\* past DPY_BUFFER but such a text in the third place: with three files or more, nothing
\* is, wherever the window stands (guishell.c:28-41, 95-97; display.c:227-283).
Lengths(k) ==
    CASE k > Len(list) -> 0 .. 32    \* a column is a uint8_t: 32 characters light what more can
      [] k <= Len(list) /\ list[k].name = Garbage -> 0 .. 16
      [] OTHER -> {ShownLength(list[k].name)}
Extent == [j \in 0 .. 2 |-> [n \in 0 .. 32 |-> [inv \in BOOLEAN |-> Entry(j, n, inv)]]]
OnScreen == (0 .. Cols - 1) \X (0 .. 31)
Band(j) == (0 .. Cols - 1) \X (11 * j .. 11 * j + 9)
EntriesApart ==
    At("poll") =>
        \A j \in 0 .. 2 : \A n \in Lengths(first + j + 1) :
            LET pixels == Extent[j][n][first + j = selected]
                listed == first + j < Len(list)
            IN /\ listed => pixels \subseteq Band(j)
               /\ ~listed => \A i \in 0 .. 2 : first + i < Len(list) => pixels \cap Band(i) = {}
               /\ pixels \subseteq OnScreen \/ (j = 2 /\ Len(list) < FILE_ENTRY_COUNT)

\* The walks come to an end and no operation of the display waits for ever: the
\* shell gets back to its user, unless the headers of the chip lead the walk back to
\* where it has been, or the program or the drawing has written over the kernel
\* (guishell.c:49, 75; ustar.c:37, 57; display.c:178-187).
Reached[n \in 0 .. MemBlocks] == IF n = 0 THEN 0 ELSE After(Reached[n - 1])
Endless == \A n \in 0 .. MemBlocks : IsHeader(Reached[n])
Waiting == pc \in {"menu", "intro", "poll", "user"} /\ todo = <<>>
ShellAnswers == ~Waiting ~> (Waiting \/ Endless \/ pc = "lost")
=============================================================================

----------------------------- MODULE MCGuiShell -----------------------------
(* A chip of seven blocks of two bytes.  Image A: a program of two blocks and an
   empty file, less files than the screen has places; B: a file for another machine,
   two files of one name, the second of them and the last file empty.  A transfer may
   lose four blocks at its beginning, or the fourth block only; a damaged size leads the
   walk from block 4 back to block 0, and from block 0 out of the chip. *)
EXTENDS GuiShell

H(name, size) == Contents("ustar", name, size)
E(p) == Contents("elf", p, 0)
D(p) == Contents("part", p, 0)

MCPrograms ==
    [P |-> << [offset |-> 0, vaddr |-> 0, filesz |-> 1, memsz |-> 1],
              [offset |-> 0, vaddr |-> 0, filesz |-> 1, memsz |-> 1],
              [offset |-> 1, vaddr |-> 0, filesz |-> 2, memsz |-> 3],
              [offset |-> 0, vaddr |-> 3, filesz |-> 0, memsz |-> 1] >>,
     Q |-> << [offset |-> 0, vaddr |-> 0, filesz |-> 1, memsz |-> 1],
              [offset |-> 0, vaddr |-> 0, filesz |-> 1, memsz |-> 1],
              [offset |-> 0, vaddr |-> 1, filesz |-> 1, memsz |-> 2] >>]

MCNameLength == [a |-> 5, b |-> 16, c |-> 17]

A == << H("a", 3), E("P"), D("P"), H("b", 0), Nothing >>
B == << H("c", 2), Contents("alien", "", 0), H("b", 1), E("Q"), H("b", 0), H("a", 0), Nothing >>
MCImages == {A, B}
MCSlips == {<<0, 0>>, <<0, 4>>, <<3, 1>>}
=============================================================================

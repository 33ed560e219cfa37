------------------------------ MODULE Display -------------------------------
(***************************************************************************)
(* kernel/display.c: the frame buffer, the lines and the SPI bus to the    *)
(* panel, and the order in which they are used; the panel itself is        *)
(* external, as the comments of the driver describe it.                    *)
(*                                                                         *)
(* A call of the driver is a sequence of operations, carried out one per   *)
(* step: writing a port, configuring the SPI module, sending a command, or *)
(* sending the data bytes of a page.  Commands of two bytes are one step.  *)
(***************************************************************************)
EXTENDS Integers, Sequences

CONSTANT Pages     \* DPY_PAGES (4)
ASSUME PagesAssumption == Pages \in Nat \ {0}

VARIABLES
    buffer,    \* DPY_BUFFER: the picture drawn in it
    inited,    \* DPY_DID_INIT
    todo,      \* what is left of the driver calls made
    high,      \* the lines RF4-6 and RG9 that are high (VBAT, VDD: high is off)
    spi,       \* SPI2 is enabled
    panel      \* the Solomon chip: commands got since reset, lit, page, memory

display == <<buffer, inited, todo, high, spi, panel>>

Blank == <<"blank">>
Unknown == <<"unknown">>
Setup == {"8D14", "D9F1", "A1C8", "DA20"}

\* Without VDD the chip loses all; a reset keeps the memory.
Unpowered == [got |-> {}, lit |-> FALSE, page |-> 0, ram |-> [i \in 0 .. Pages - 1 |-> Unknown]]
Restarted(p) == [got |-> {}, lit |-> FALSE, page |-> 0, ram |-> p.ram]

\* At start-up the lines are inputs, pulled up.
DisplayInit ==
    /\ buffer = Blank /\ inited = FALSE /\ todo = <<>> /\ spi = FALSE
    /\ high = {"data", "vbat", "vdd", "reset"} /\ panel = Unpowered

-----------------------------------------------------------------------------
(* The calls.                                                              *)
Spi2Init == << <<"spi", FALSE>>, <<"spi", TRUE>> >>
PinsInit == << <<"set", {"data", "vbat", "vdd"}>>, <<"set", {"reset"}>> >>

SolomonInitVbatFirst ==   \* mutant: VBAT before VDD
    << <<"clear", {"data"}>>, <<"clear", {"vbat"}>>, <<"clear", {"vdd"}>>, <<"send", "AE">>,
       <<"clear", {"reset"}>>, <<"set", {"reset"}>>, <<"send", "8D14">>, <<"send", "D9F1">>,
       <<"send", "A1C8">>, <<"send", "DA20">>, <<"send", "AF">> >>

SolomonInit ==
    << <<"clear", {"data"}>>, <<"clear", {"vdd"}>>, <<"send", "AE">>,
       <<"clear", {"reset"}>>, <<"set", {"reset"}>>, <<"send", "8D14">>, <<"send", "D9F1">>,
       <<"clear", {"vbat"}>>, <<"send", "A1C8">>, <<"send", "DA20">>, <<"send", "AF">> >>

InitOpsNoSpi ==   \* mutant: SPI2 is taken as it is
    IF inited THEN <<>> ELSE PinsInit \o SolomonInit \o << <<"inited", TRUE>> >>

\* display_init, which also zeroes the buffer; not twice.
InitOps == IF inited THEN <<>>
           ELSE Spi2Init \o PinsInit \o SolomonInit \o << <<"inited", TRUE>> >>

\* display_update: four operations for each page
PageOps(i) == << <<"clear", {"data"}>>, <<"page", i>>, <<"set", {"data"}>>, <<"data", i>> >>
UpdateOps == [n \in 1 .. 4 * Pages |-> PageOps((n - 1) \div 4)[((n - 1) % 4) + 1]]

ShutdownOpsStaysInited ==   \* mutant: DPY_DID_INIT is not reset
    << <<"clear", {"data"}>>, <<"send", "AE">>, <<"set", {"vbat"}>>, <<"set", {"vdd"}>> >>

\* display_shutdown
ShutdownOps ==
    << <<"clear", {"data"}>>, <<"send", "AE">>, <<"set", {"vbat"}>>, <<"set", {"vdd"}>>,
       <<"inited", FALSE>> >>

-----------------------------------------------------------------------------
(* Their execution.                                                        *)
Operation(kind) == todo # <<>> /\ Head(todo)[1] = kind /\ todo' = Tail(todo)
Arg == Head(todo)[2]

\* PORTFSET, PORTGSET
SetLines ==
    /\ Operation("set")
    /\ high' = high \cup Arg
    /\ panel' = IF "vdd" \in Arg THEN Unpowered ELSE panel
    /\ UNCHANGED <<buffer, inited, spi>>

\* PORTFCLR, PORTGCLR
ClearLines ==
    /\ Operation("clear")
    /\ high' = high \ Arg
    /\ panel' = IF "reset" \in Arg THEN Restarted(panel) ELSE panel
    /\ UNCHANGED <<buffer, inited, spi>>

ConfigureSpi ==
    /\ Operation("spi") /\ spi' = Arg /\ UNCHANGED <<buffer, inited, high, panel>>

MarkInited ==
    /\ Operation("inited") /\ inited' = Arg /\ UNCHANGED <<buffer, high, spi, panel>>

\* display_send_byte waits for ever on a disabled SPI module; a chip without
\* VDD hears nothing; the data line tells data from commands.
Sending(kind, asCommand, asData) ==
    /\ Operation(kind) /\ spi
    /\ panel' = CASE "vdd" \in high -> panel
                  [] "vdd" \notin high /\ "data" \notin high -> asCommand
                  [] OTHER -> asData
    /\ UNCHANGED <<buffer, inited, high, spi>>

\* Bytes taken for data spoil the page that is selected.
Spoilt == [panel EXCEPT !.ram[panel.page] = Unknown]

SendCommand ==
    Sending("send",
            IF Arg \in Setup THEN [panel EXCEPT !.got = @ \cup {Arg}]
                             ELSE [panel EXCEPT !.lit = (Arg = "AF")],
            Spoilt)

\* 0x22 and the page, then 0x00 and 0x10 for the left column
SelectPage == Sending("page", [panel EXCEPT !.page = Arg], Spoilt)

\* The columns of a page; as commands they could do anything.
SendPage == Sending("data", Restarted(panel), [panel EXCEPT !.ram[panel.page] = <<buffer, Arg>>])

DisplayStep ==
    \/ SetLines \/ ClearLines \/ ConfigureSpi \/ MarkInited
    \/ SendCommand \/ SelectPage \/ SendPage

\* What the user sees is the picture p.
Shows(p) ==
    /\ {"vdd", "vbat"} \cap high = {}
    /\ panel.lit /\ panel.got = Setup
    /\ panel.ram = [i \in 0 .. Pages - 1 |-> <<p, i>>]

-----------------------------------------------------------------------------
(* Drawing: the pixels lit, from the top left corner.  A byte of the       *)
(* buffer is a column of eight pixels, and a column number beyond the last *)
(* runs on into the next page.  The loops end where y + h and x + w stay   *)
(* below 256, as in every call of the kernel.                              *)
Cols == 128
Pixel(column, row) == <<column % Cols, ((row \div 8 + column \div Cols) * 8) + (row % 8)>>

Rect(x, y, w, h) ==
    {Pixel(c, r) : c \in {x, x + w - 1}, r \in y .. y + h - 1}
        \cup {Pixel(c, r) : c \in x + 1 .. x + w - 2, r \in {y, y + h - 1}}

FilledRect(x, y, w, h) == {Pixel(c, r) : c \in x .. x + w - 1, r \in y .. y + h - 1}

\* display_ntext with n glyphs that fill their cells.
Text(x, y, n) == {Pixel((x + c) % 256, r) : c \in 0 .. 8 * n - 1, r \in y .. y + 7}
=============================================================================

--------------------------- MODULE GuiShellProofs ---------------------------
(***************************************************************************)
(* Proofs about the graphical shell, its list, loader and display.         *)
(*                                                                         *)
(* The display is always somewhere in one of two scripts: switched on and  *)
(* drawn, or drawn and switched off.  Its invariant numbers the operations *)
(* done, and says what the panel has got by each.  The list follows a walk *)
(* over the headers of the chip, kept as a function from numbers of files  *)
(* to blocks: the walk that counts, the one that fills the list and the    *)
(* one that looks for a name all go along it, wherever damaged sizes lead; *)
(* over a complete image it only goes up.  A segment stays in place where  *)
(* none loaded later lies over it.  All this is said of the states before  *)
(* the shell is lost or in an endless walk.                                *)
(***************************************************************************)
EXTENDS GuiShell, Division, SequenceTheorems, TLAPS

-----------------------------------------------------------------------------
(* The invariant of the display: how far the operations of the last calls  *)
(* are, and what they have done so far.                                    *)
Lines == {"data", "vbat", "vdd", "reset"}

\* What is left of the operations s when n of them are done.
Rest(s, n) == SubSeq(s, n + 1, Len(s))

FullInit == Spi2Init \o PinsInit \o SolomonInit \o << <<"inited", TRUE>> >>
OnScript == FullInit \o UpdateOps
OffScript == UpdateOps \o ShutdownOps

\* The states in which the shell has the display for itself.
Showing == {"intro", "count", "populate", "poll", "seen"}

PanelOk(p) ==
    /\ p = [got |-> p.got, lit |-> p.lit, page |-> p.page, ram |-> p.ram]
    /\ p.got \subseteq Setup /\ p.lit \in BOOLEAN /\ p.page \in 0 .. Pages - 1
    /\ p.ram = [i \in 0 .. Pages - 1 |-> p.ram[i]]

LineInv ==
    /\ high \subseteq Lines /\ inited \in BOOLEAN /\ spi \in BOOLEAN
    /\ PanelOk(panel)
    /\ "vbat" \notin high => "vdd" \notin high

\* n operations of an update are done.
Drawn(n) ==
    \A j \in 0 .. Pages - 1 :
        /\ n >= 4 * j + 4 => panel.ram[j] = <<buffer, j>>
        /\ n \in {4 * j + 1, 4 * j + 2} => "data" \notin high
        /\ n = 4 * j + 3 => "data" \in high
        /\ n \in {4 * j + 2, 4 * j + 3} => panel.page = j

\* n operations of the switching on, and of the update behind it, are done.
HighOn(n) ==
    /\ n \in 3 .. 5 => "vdd" \in high
    /\ n >= 6 => "vdd" \notin high
    /\ n \in 3 .. 11 => "vbat" \in high
    /\ n >= 12 => "vbat" \notin high
    /\ n \in 5 .. 15 => "data" \notin high

GotOn(n) ==
    /\ n >= 10 => "8D14" \in panel.got
    /\ n >= 11 => "D9F1" \in panel.got
    /\ n >= 13 => "A1C8" \in panel.got
    /\ n >= 14 => "DA20" \in panel.got
    /\ n >= 15 => panel.lit

On(n) ==
    /\ todo = Rest(OnScript, n)
    /\ n < 16 => ~inited
    /\ n >= 16 => inited
    /\ n = 1 => ~spi
    /\ n >= 2 => spi
    /\ HighOn(n) /\ GotOn(n)
    /\ n >= 16 => Drawn(n - 16)

\* n operations of an update and the switching off behind it are done.
Off(n) ==
    /\ todo = Rest(OffScript, n)
    /\ n <= 4 * Pages => Drawn(n)
    /\ n <= 4 * Pages + 2 => {"vbat", "vdd"} \cap high = {}
    /\ n = 4 * Pages + 1 => "data" \notin high
    /\ n \in 4 * Pages + 2 .. 4 * Pages + 4 => ~panel.lit
    /\ n \in 4 * Pages + 3 .. 4 * Pages + 4 => "vbat" \in high
    /\ n < 4 * Pages + 5 => spi
    /\ n = 4 * Pages + 5 => ~inited

Switched ==
    IF pc \in Showing THEN \E n \in 0 .. 4 * Pages + 16 : On(n)
                      ELSE \E n \in 0 .. 4 * Pages + 5 : Off(n)

\* The picture drawn is the one the state calls for.
Pictured ==
    /\ pc = "poll" => buffer = FileList(first, selected)
    /\ pc = "seen" => buffer = Result(code)

DisplayInv == LineInv /\ Switched /\ Pictured

-----------------------------------------------------------------------------
(* The invariant of the image and the list.                                *)
Last == MemBlocks - 1

\* The blocks there are addresses for, those beyond the chip included.
Spots == 0 .. 2 * MemBlocks - 1

FsInv ==
    /\ fs \in [0 .. Last -> ChipContents]
    /\ \A b \in 0 .. Last :
          /\ fs[b].kind = "elf" => fs[b].name \in DOMAIN Programs
          /\ IsFile(fs[b]) => fs[b].name \in Names \cup {Garbage}
    /\ whole \in Images \cup {<<>>}
    /\ \A b \in DOMAIN whole : fs[b - 1] = whole[b]

\* Over a complete image the walk goes up, stays inside and passes no header.
Climbs(w, n) ==
    /\ \A i \in 0 .. n : w[i] < Len(whole)
    /\ \A i, j \in 0 .. n : i < j => w[i] < w[j]
    /\ \A b \in DOMAIN whole :
          IsFile(whole[b]) /\ b - 1 < w[n] => \E i \in 0 .. n - 1 : w[i] = b - 1

\* The first n headers of the chip are in the blocks w[0], ..., w[n - 1], and the
\* walk stands at w[n].
Walk(w, n) ==
    /\ w \in [0 .. n -> Spots] /\ w[0] = 0
    /\ \A i \in 0 .. n - 1 : IsHeader(w[i] * Block) /\ w[i + 1] * Block = After(w[i] * Block)
    /\ whole # <<>> => Climbs(w, n)

Listed(w) ==
    list = [k \in 1 .. Len(list) |-> [addr |-> w[k - 1] * Block, name |-> fs[w[k - 1]].name]]

InShell == pc \in {"poll", "result", "seen"} \/ (pc \in {"find", "check", "load", "user"} /\ home = "shell")

\* The walk that counts and the one that fills the list go the same way.
ListInv ==
    /\ count \in 0 .. MemBlocks /\ Len(list) \in 0 .. count
    /\ ~InShell /\ pc # "populate" => list = <<>>
    /\ ~InShell /\ pc \notin {"count", "populate"} => count = 0
    /\ pc = "count" => \E w \in [0 .. count -> Spots] : Walk(w, count) /\ at = w[count] * Block
    /\ InShell \/ pc = "populate" =>
          \E w \in [0 .. count -> Spots] :
             /\ Walk(w, count) /\ ~IsHeader(w[count] * Block) /\ Listed(w)
             /\ IF InShell THEN Len(list) = count ELSE at = w[Len(list)] * Block

Window ==
    /\ first \in Nat /\ selected \in Nat
    /\ first <= selected /\ selected < first + FILE_ENTRY_COUNT
    /\ count > 0 => selected < count
    /\ count >= FILE_ENTRY_COUNT => first + FILE_ENTRY_COUNT <= count
    /\ ~InShell => first = 0 /\ selected = 0

-----------------------------------------------------------------------------
(* The invariant of the running of a program.                              *)
CallInv ==
    /\ pc \in {"menu", "intro", "count", "populate", "poll", "find", "check", "load",
               "user", "result", "seen"}
    /\ home \in {"menu", "shell"} /\ arg \in Names \cup {Garbage}
    /\ code \in {"ELF_OK", "ELF_NOT_FOUND", "ELF_INVALID_FORMAT", "ELF_UNSUPPORTED"}
    /\ \E b \in Spots : at = b * Block
    /\ \E b \in 0 .. Last : base = b * Block
    /\ DOMAIN user = 0 .. UserSize - 1

\* The file looked for by the shell is the one selected, or one before it with
\* the same name.
Looking ==
    list # <<>> =>
        /\ pc = "find" /\ home = "shell" =>
              /\ arg = Selected.name
              /\ \E i \in 1 .. selected + 1 :
                    at = list[i].addr /\ \A j \in 1 .. i - 1 : list[j].name # arg
        /\ pc \in {"check", "load", "user"} /\ home = "shell" =>
              \E i \in 1 .. selected + 1 :
                    base = list[i].addr + Block /\ list[i].name = Selected.name
        /\ pc \in {"result", "seen"} => code # "ELF_NOT_FOUND"

\* The segments up to the last one loaded are in place.
SegmentsInv ==
    pc \in {"load", "user"} =>
        /\ BlockAt(base).kind = "elf" /\ seg \in Nat /\ seg >= 3
        /\ seg = 3 \/ seg <= Len(Headers) + 1
        /\ pc = "user" => seg > Len(Headers)
        /\ \A s \in 3 .. seg - 1 : InPlace(s, seg - 1)

IInv == DisplayInv /\ FsInv /\ ListInv /\ Window /\ CallInv /\ Looking /\ SegmentsInv

\* Where nothing goes on.
Gone == {"endless", "lost"}
GoneInv ==
    /\ pc \in Gone /\ LineInv /\ TypeOK
    /\ todo = <<>> \/ (pc = "lost" /\ spi)

\* Some transfer writes to the chip.
Flashes ==
    \E img \in Images : \E slip \in Slips : \E n \in 0 .. Len(img) :
        Flash(img, slip, n) \/ FlashBroken(img, slip, n)

-----------------------------------------------------------------------------
(* The operations of the driver's calls, one by one.                       *)

LEMMA Constants ==
    /\ Pages \in Nat /\ Pages >= 1
    /\ Block \in Nat \ {0} /\ MemBlocks \in Nat \ {0} /\ UserSize \in Nat /\ Last \in Nat
  BY PagesAssumption, LoaderAssumption DEF Last

LEMMA SpotsThere == 0 \in Spots /\ 0 .. Last \subseteq Spots /\ \A b \in Spots : b \in Nat
  BY Constants DEF Last, Spots

LEMMA FlashesInMenu ==
    Flashes => /\ At("menu") /\ pc' = "menu"
               /\ UNCHANGED <<display, at, base, seg, user, shell, call, pc>>
  BY DEF Flashes, Flash, FlashBroken, At

\* The head and the tail of what is left.
LEMMA RestTail ==
    ASSUME NEW T, NEW s \in Seq(T), NEW n \in 0 .. Len(s)
    PROVE  /\ Rest(s, n) = <<>> <=> n = Len(s)
           /\ n # Len(s) => Head(Rest(s, n)) = s[n + 1] /\ Tail(Rest(s, n)) = Rest(s, n + 1)
  <1>1. CASE n = Len(s)
    BY <1>1, SubSeqEmpty DEF Rest
  <1>2. CASE n # Len(s)
    <2>1. n + 1 \in 1 .. Len(s) /\ Len(s) \in n + 1 .. Len(s)
      BY <1>2
    <2>2. Head(Rest(s, n)) = s[n + 1] /\ Tail(Rest(s, n)) = SubSeq(s, n + 1 + 1, Len(s))
      BY <2>1, HeadTailOfSubSeq DEF Rest
    <2>3. \A i \in n + 1 .. Len(s) : s[i] \in T
      OBVIOUS
    <2>4. Len(Rest(s, n)) = Len(s) - n
      BY <2>1, <2>3, SubSeqProperties DEF Rest
    <2>5. Rest(s, n) # <<>>
      BY <2>1, <2>4
    <2>6. Tail(Rest(s, n)) = Rest(s, n + 1)
      BY <2>2 DEF Rest
    <2> QED BY <1>2, <2>2, <2>5, <2>6
  <1> QED BY <1>1, <1>2

\* The three calls display_init makes, laid end to end.
LEMMA InitTable ==
    FullInit =
      << <<"spi", FALSE>>, <<"spi", TRUE>>,
         <<"set", {"data", "vbat", "vdd"}>>, <<"set", {"reset"}>>,
         <<"clear", {"data"}>>, <<"clear", {"vdd"}>>, <<"send", "AE">>,
         <<"clear", {"reset"}>>, <<"set", {"reset"}>>, <<"send", "8D14">>, <<"send", "D9F1">>,
         <<"clear", {"vbat"}>>, <<"send", "A1C8">>, <<"send", "DA20">>, <<"send", "AF">>,
         <<"inited", TRUE>> >>
  <1> DEFINE o1 == <<"spi", FALSE>>
             o2 == <<"spi", TRUE>>
             o3 == <<"set", {"data", "vbat", "vdd"}>>
             o4 == <<"set", {"reset"}>>
             o5 == <<"clear", {"data"}>>
             o6 == <<"clear", {"vdd"}>>
             o7 == <<"send", "AE">>
             o8 == <<"clear", {"reset"}>>
             o9 == <<"set", {"reset"}>>
             o10 == <<"send", "8D14">>
             o11 == <<"send", "D9F1">>
             o12 == <<"clear", {"vbat"}>>
             o13 == <<"send", "A1C8">>
             o14 == <<"send", "DA20">>
             o15 == <<"send", "AF">>
             o16 == <<"inited", TRUE>>
  <1> HIDE DEF o1, o2, o3, o4, o5, o6, o7, o8, o9, o10, o11, o12, o13, o14, o15, o16
  <1> DEFINE S == {o1, o2, o3, o4, o5, o6, o7, o8, o9, o10, o11, o12, o13, o14, o15, o16}
             a == <<o1, o2>>
             b == <<o3, o4>>
             c == <<o5, o6, o7, o8, o9, o10, o11, o12, o13, o14, o15>>
             d == <<o16>>
             t == <<o1, o2, o3, o4, o5, o6, o7, o8, o9, o10, o11, o12, o13, o14, o15, o16>>
  <1>1. a \in Seq(S) /\ b \in Seq(S) /\ c \in Seq(S) /\ d \in Seq(S) /\ t \in Seq(S)
    OBVIOUS
  <1>2. Len(a) = 2 /\ Len(b) = 2 /\ Len(c) = 11 /\ Len(d) = 1 /\ Len(t) = 16
    OBVIOUS
  <1>3. \A i \in 1 .. 16 : t[i] = IF i <= 2 THEN a[i] ELSE IF i <= 4 THEN b[i - 2]
                                  ELSE IF i <= 15 THEN c[i - 4] ELSE d[i - 15]
    OBVIOUS
  <1> HIDE DEF S, a, b, c, d, t
  <1> DEFINE ab == a \o b
             abc == ab \o c
             abcd == abc \o d
  <1>4. ab \in Seq(S) /\ Len(ab) = 4 /\ \A i \in 1 .. 2 : ab[i] = a[i] /\ ab[2 + i] = b[i]
    <2>1. /\ a \o b \in Seq(S) /\ Len(a \o b) = Len(a) + Len(b)
          /\ \A i \in 1 .. Len(a) + Len(b) :
                (a \o b)[i] = IF i <= Len(a) THEN a[i] ELSE b[i - Len(a)]
      BY <1>1, ConcatProperties
    <2> QED BY <2>1, <1>2
  <1> HIDE DEF ab
  <1>5. abc \in Seq(S) /\ Len(abc) = 15 /\ (\A i \in 1 .. 4 : abc[i] = ab[i])
        /\ \A i \in 1 .. 11 : abc[4 + i] = c[i]
    <2>1. /\ ab \o c \in Seq(S) /\ Len(ab \o c) = Len(ab) + Len(c)
          /\ \A i \in 1 .. Len(ab) + Len(c) :
                (ab \o c)[i] = IF i <= Len(ab) THEN ab[i] ELSE c[i - Len(ab)]
      BY <1>1, <1>4, ConcatProperties
    <2>2. Len(ab \o c) = 15
      BY <2>1, <1>2, <1>4
    <2>3. \A i \in 1 .. 4 : (ab \o c)[i] = ab[i]
      BY <2>1, <1>2, <1>4
    <2>4. \A i \in 1 .. 11 : (ab \o c)[4 + i] = c[i]
      <3> TAKE i \in 1 .. 11
      <3>1. 4 + i \in 1 .. Len(ab) + Len(c) /\ ~(4 + i <= Len(ab)) /\ (4 + i) - Len(ab) = i
        BY <1>2, <1>4
      <3>2. (ab \o c)[4 + i] = c[(4 + i) - Len(ab)]
        BY <2>1, <3>1
      <3> QED BY <3>1, <3>2
    <2> QED BY <2>1, <2>2, <2>3, <2>4, Zenon
  <1> HIDE DEF abc
  <1>6. abcd \in Seq(S) /\ Len(abcd) = 16 /\ (\A i \in 1 .. 15 : abcd[i] = abc[i])
        /\ abcd[16] = d[1]
    <2>1. /\ abc \o d \in Seq(S) /\ Len(abc \o d) = Len(abc) + Len(d)
          /\ \A i \in 1 .. Len(abc) + Len(d) :
                (abc \o d)[i] = IF i <= Len(abc) THEN abc[i] ELSE d[i - Len(abc)]
      BY <1>1, <1>5, ConcatProperties
    <2>2. Len(abc \o d) = 16
      BY <2>1, <1>2, <1>5
    <2>3. \A i \in 1 .. 15 : (abc \o d)[i] = abc[i]
      BY <2>1, <1>2, <1>5
    <2>4. (abc \o d)[16] = d[1]
      BY <2>1, <1>2, <1>5
    <2> QED BY <2>1, <2>2, <2>3, <2>4, Zenon
  <1> HIDE DEF abcd
  <1>7. \A i \in 1 .. 16 : abcd[i] = t[i]
    <2> TAKE i \in 1 .. 16
    <2>1. CASE i \in 1 .. 2
      BY <2>1, <1>3, <1>4, <1>5, <1>6
    <2>2. CASE i \in 3 .. 4
      BY <2>2, <1>3, <1>4, <1>5, <1>6
    <2>3. CASE i \in 5 .. 15
      BY <2>3, <1>3, <1>4, <1>5, <1>6
    <2>4. CASE i = 16
      BY <2>4, <1>3, <1>4, <1>5, <1>6
    <2> QED BY <2>1, <2>2, <2>3, <2>4
  <1>8. abcd = t
    BY <1>1, <1>2, <1>6, <1>7, SeqEqual
  <1> USE DEF o1, o2, o3, o4, o5, o6, o7, o8, o9, o10, o11, o12, o13, o14, o15, o16
  <1>9. a = Spi2Init /\ b = PinsInit /\ c = SolomonInit /\ d = << <<"inited", TRUE>> >>
    BY Zenon DEF a, b, c, d, Spi2Init, PinsInit, SolomonInit
  <1>10. abcd = FullInit
    BY <1>9, Zenon DEF FullInit, ab, abc, abcd
  <1> QED BY <1>8, <1>10, Zenon DEF t

Ops == {FullInit[n] : n \in 1 .. 16} \cup {UpdateOps[n] : n \in 1 .. 4 * Pages}
         \cup {ShutdownOps[n] : n \in 1 .. 5}

\* The four operations of each page, by their numbers.
LEMMA UpdateTable ==
    /\ UpdateOps \in Seq(Ops) /\ Len(UpdateOps) = 4 * Pages
    /\ \A j \in 0 .. Pages - 1 :
          /\ UpdateOps[4 * j + 1] = <<"clear", {"data"}>>
          /\ UpdateOps[4 * j + 2] = <<"page", j>>
          /\ UpdateOps[4 * j + 3] = <<"set", {"data"}>>
          /\ UpdateOps[4 * j + 4] = <<"data", j>>
  <1>1. UpdateOps \in Seq(Ops) /\ Len(UpdateOps) = 4 * Pages
    <2>1. \A n \in 1 .. 4 * Pages : UpdateOps[n] \in Ops
      BY DEF Ops
    <2>2. UpdateOps = [n \in 1 .. 4 * Pages |-> UpdateOps[n]] /\ 4 * Pages \in Nat
      BY Constants DEF UpdateOps
    <2> HIDE DEF Ops
    <2> QED BY <2>1, <2>2
  <1>2. ASSUME NEW j \in 0 .. Pages - 1
        PROVE  /\ UpdateOps[4 * j + 1] = <<"clear", {"data"}>>
               /\ UpdateOps[4 * j + 2] = <<"page", j>>
               /\ UpdateOps[4 * j + 3] = <<"set", {"data"}>>
               /\ UpdateOps[4 * j + 4] = <<"data", j>>
    <2>1. \A k \in 1 .. 4 : UpdateOps[4 * j + k] = PageOps(j)[k]
      <3> TAKE k \in 1 .. 4
      <3>1. 4 * j + k \in 1 .. 4 * Pages
        BY Constants
      <3>2. (4 * j + k - 1) \div 4 = j /\ (4 * j + k - 1) % 4 = k - 1
        BY Constants
      <3> QED BY <3>1, <3>2 DEF UpdateOps
    <2> QED BY <2>1 DEF PageOps
  <1> QED BY <1>1, <1>2

\* The operations of a switching on and the update behind it, by their numbers.
LEMMA OnTable ==
    /\ OnScript \in Seq(Ops) /\ Len(OnScript) = 4 * Pages + 16
    /\ \A n \in 1 .. 16 : OnScript[n] = FullInit[n]
    /\ \A j \in 0 .. Pages - 1 :
          /\ OnScript[4 * j + 17] = <<"clear", {"data"}>>
          /\ OnScript[4 * j + 18] = <<"page", j>>
          /\ OnScript[4 * j + 19] = <<"set", {"data"}>>
          /\ OnScript[4 * j + 20] = <<"data", j>>
  <1>1. FullInit \in Seq(Ops) /\ Len(FullInit) = 16
    <2>1. \A n \in 1 .. 16 : FullInit[n] \in Ops
      BY DEF Ops
    <2>2. FullInit = [n \in 1 .. 16 |-> FullInit[n]]
      BY InitTable
    <2> HIDE DEF Ops
    <2> QED BY <2>1, <2>2
  <1>2. /\ FullInit \o UpdateOps \in Seq(Ops)
        /\ Len(FullInit \o UpdateOps) = Len(FullInit) + Len(UpdateOps)
        /\ \A i \in 1 .. Len(FullInit) + Len(UpdateOps) :
              (FullInit \o UpdateOps)[i] =
                 IF i <= Len(FullInit) THEN FullInit[i] ELSE UpdateOps[i - Len(FullInit)]
    BY <1>1, UpdateTable, ConcatProperties
  <1>3. OnScript \in Seq(Ops) /\ Len(OnScript) = 4 * Pages + 16
    BY <1>1, <1>2, UpdateTable, Constants DEF OnScript
  <1>4. \A n \in 1 .. 16 : OnScript[n] = FullInit[n]
    BY <1>1, <1>2, UpdateTable, Constants DEF OnScript
  <1>5. \A n \in 1 .. 4 * Pages : OnScript[n + 16] = UpdateOps[n]
    BY <1>1, <1>2, UpdateTable, Constants DEF OnScript
  <1>6. ASSUME NEW j \in 0 .. Pages - 1
        PROVE  /\ OnScript[4 * j + 17] = UpdateOps[4 * j + 1]
               /\ OnScript[4 * j + 18] = UpdateOps[4 * j + 2]
               /\ OnScript[4 * j + 19] = UpdateOps[4 * j + 3]
               /\ OnScript[4 * j + 20] = UpdateOps[4 * j + 4]
    <2>1. /\ {4 * j + 1, 4 * j + 2, 4 * j + 3, 4 * j + 4} \subseteq 1 .. 4 * Pages
          /\ (4 * j + 1) + 16 = 4 * j + 17 /\ (4 * j + 2) + 16 = 4 * j + 18
          /\ (4 * j + 3) + 16 = 4 * j + 19 /\ (4 * j + 4) + 16 = 4 * j + 20
      BY Constants
    <2>2. /\ OnScript[(4 * j + 1) + 16] = UpdateOps[4 * j + 1]
          /\ OnScript[(4 * j + 2) + 16] = UpdateOps[4 * j + 2]
          /\ OnScript[(4 * j + 3) + 16] = UpdateOps[4 * j + 3]
          /\ OnScript[(4 * j + 4) + 16] = UpdateOps[4 * j + 4]
      BY <1>5, <2>1, Zenon
    <2> QED BY <2>1, <2>2, Zenon
  <1>7. \A j \in 0 .. Pages - 1 :
          /\ OnScript[4 * j + 17] = <<"clear", {"data"}>>
          /\ OnScript[4 * j + 18] = <<"page", j>>
          /\ OnScript[4 * j + 19] = <<"set", {"data"}>>
          /\ OnScript[4 * j + 20] = <<"data", j>>
    BY <1>6, UpdateTable, Zenon
  <1> QED BY <1>3, <1>4, <1>7, Zenon

\* The operations of an update and the switching off behind it, by their numbers.
LEMMA OffTable ==
    /\ OffScript \in Seq(Ops) /\ Len(OffScript) = 4 * Pages + 5
    /\ \A j \in 0 .. Pages - 1 :
          /\ OffScript[4 * j + 1] = <<"clear", {"data"}>>
          /\ OffScript[4 * j + 2] = <<"page", j>>
          /\ OffScript[4 * j + 3] = <<"set", {"data"}>>
          /\ OffScript[4 * j + 4] = <<"data", j>>
    /\ OffScript[4 * Pages + 1] = <<"clear", {"data"}>>
    /\ OffScript[4 * Pages + 2] = <<"send", "AE">>
    /\ OffScript[4 * Pages + 3] = <<"set", {"vbat"}>>
    /\ OffScript[4 * Pages + 4] = <<"set", {"vdd"}>>
    /\ OffScript[4 * Pages + 5] = <<"inited", FALSE>>
  <1>1. ShutdownOps \in Seq(Ops) /\ Len(ShutdownOps) = 5
    <2>1. \A n \in 1 .. 5 : ShutdownOps[n] \in Ops
      BY DEF Ops
    <2>2. ShutdownOps = [n \in 1 .. 5 |-> ShutdownOps[n]]
      BY DEF ShutdownOps
    <2> HIDE DEF Ops
    <2> QED BY <2>1, <2>2
  <1>2. /\ UpdateOps \o ShutdownOps \in Seq(Ops)
        /\ Len(UpdateOps \o ShutdownOps) = Len(UpdateOps) + Len(ShutdownOps)
        /\ \A i \in 1 .. Len(UpdateOps) + Len(ShutdownOps) :
              (UpdateOps \o ShutdownOps)[i] =
                 IF i <= Len(UpdateOps) THEN UpdateOps[i] ELSE ShutdownOps[i - Len(UpdateOps)]
    BY <1>1, UpdateTable, ConcatProperties
  <1>3. OffScript \in Seq(Ops) /\ Len(OffScript) = 4 * Pages + 5
    BY <1>1, <1>2, UpdateTable, Constants DEF OffScript
  <1>4. \A n \in 1 .. 4 * Pages : OffScript[n] = UpdateOps[n]
    BY <1>1, <1>2, UpdateTable, Constants DEF OffScript
  <1>5. ASSUME NEW k \in 1 .. 5
        PROVE  OffScript[4 * Pages + k] = ShutdownOps[k]
    <2>1. /\ 4 * Pages + k \in 1 .. Len(UpdateOps) + Len(ShutdownOps)
          /\ ~(4 * Pages + k <= Len(UpdateOps)) /\ (4 * Pages + k) - Len(UpdateOps) = k
      BY <1>1, UpdateTable, Constants
    <2>2. OffScript[4 * Pages + k] = ShutdownOps[(4 * Pages + k) - Len(UpdateOps)]
      BY <1>2, <2>1 DEF OffScript
    <2> QED BY <2>1, <2>2
  <1>6. ASSUME NEW j \in 0 .. Pages - 1
        PROVE  /\ OffScript[4 * j + 1] = UpdateOps[4 * j + 1]
               /\ OffScript[4 * j + 2] = UpdateOps[4 * j + 2]
               /\ OffScript[4 * j + 3] = UpdateOps[4 * j + 3]
               /\ OffScript[4 * j + 4] = UpdateOps[4 * j + 4]
    <2>1. {4 * j + 1, 4 * j + 2, 4 * j + 3, 4 * j + 4} \subseteq 1 .. 4 * Pages
      BY Constants
    <2> QED BY <1>4, <2>1
  <1>7. /\ OffScript[4 * Pages + 1] = ShutdownOps[1] /\ OffScript[4 * Pages + 2] = ShutdownOps[2]
        /\ OffScript[4 * Pages + 3] = ShutdownOps[3] /\ OffScript[4 * Pages + 4] = ShutdownOps[4]
        /\ OffScript[4 * Pages + 5] = ShutdownOps[5]
    BY <1>5
  <1>8. /\ ShutdownOps[1] = <<"clear", {"data"}>> /\ ShutdownOps[2] = <<"send", "AE">>
        /\ ShutdownOps[3] = <<"set", {"vbat"}>> /\ ShutdownOps[4] = <<"set", {"vdd"}>>
        /\ ShutdownOps[5] = <<"inited", FALSE>>
    BY DEF ShutdownOps
  <1>9. /\ OffScript[4 * Pages + 1] = <<"clear", {"data"}>>
        /\ OffScript[4 * Pages + 2] = <<"send", "AE">>
        /\ OffScript[4 * Pages + 3] = <<"set", {"vbat"}>>
        /\ OffScript[4 * Pages + 4] = <<"set", {"vdd"}>>
        /\ OffScript[4 * Pages + 5] = <<"inited", FALSE>>
    BY <1>7, <1>8, Zenon
  <1>10. \A j \in 0 .. Pages - 1 :
          /\ OffScript[4 * j + 1] = <<"clear", {"data"}>>
          /\ OffScript[4 * j + 2] = <<"page", j>>
          /\ OffScript[4 * j + 3] = <<"set", {"data"}>>
          /\ OffScript[4 * j + 4] = <<"data", j>>
    BY <1>6, UpdateTable, Zenon
  <1> QED BY <1>3, <1>9, <1>10, Zenon

\* Which operation of which page, or of the calls around the update.
LEMMA PageOf ==
    ASSUME NEW n \in 0 .. 4 * Pages - 1
    PROVE  \E j \in 0 .. Pages - 1 : n \in {4 * j, 4 * j + 1, 4 * j + 2, 4 * j + 3}
  <1>1. n \div 4 \in 0 .. Pages - 1
    BY Constants
  <1>2. n \in {4 * (n \div 4), 4 * (n \div 4) + 1, 4 * (n \div 4) + 2, 4 * (n \div 4) + 3}
    BY Constants
  <1> QED BY <1>1, <1>2

-----------------------------------------------------------------------------
(* What each operation does.                                               *)

\* What each kind of operation does when it is next.
LEMMA SetOp ==
    ASSUME LineInv, DisplayStep, NEW x, Head(todo) = <<"set", x>>
    PROVE  /\ todo' = Tail(todo) /\ buffer' = buffer /\ inited' = inited /\ spi' = spi
           /\ high' = high \cup x
           /\ "vdd" \notin x => panel' = panel
           /\ "vdd" \in x => PanelOk(panel') /\ panel'.got = {} /\ panel'.lit = FALSE
  <1>1. SetLines /\ Arg = x
    BY DEF DisplayStep, Operation, Arg, ClearLines, ConfigureSpi, MarkInited, SendCommand,
           SelectPage, SendPage, Sending
  <1>2. PanelOk(Unpowered) /\ Unpowered.got = {} /\ Unpowered.lit = FALSE
    BY Constants DEF PanelOk, Unpowered, Setup
  <1> QED BY <1>1, <1>2 DEF SetLines, Operation

LEMMA ClearOp ==
    ASSUME LineInv, DisplayStep, NEW x, Head(todo) = <<"clear", x>>
    PROVE  /\ todo' = Tail(todo) /\ buffer' = buffer /\ inited' = inited /\ spi' = spi
           /\ high' = high \ x
           /\ "reset" \notin x => panel' = panel
           /\ "reset" \in x => PanelOk(panel') /\ panel'.got = {} /\ panel'.lit = FALSE
  <1>1. ClearLines /\ Arg = x
    BY DEF DisplayStep, Operation, Arg, SetLines, ConfigureSpi, MarkInited, SendCommand,
           SelectPage, SendPage, Sending
  <1>2. PanelOk(Restarted(panel)) /\ Restarted(panel).got = {} /\ Restarted(panel).lit = FALSE
    <2> DEFINE p == Restarted(panel)
    <2>1. p.got = {} /\ p.lit = FALSE /\ p.page = 0 /\ p.ram = panel.ram
      BY DEF Restarted
    <2>2. p = [got |-> p.got, lit |-> p.lit, page |-> p.page, ram |-> p.ram]
      BY DEF Restarted
    <2>3. 0 \in 0 .. Pages - 1 /\ panel.ram = [i \in 0 .. Pages - 1 |-> panel.ram[i]]
      BY Constants DEF PanelOk, LineInv
    <2> HIDE DEF p
    <2>4. PanelOk(p)
      BY <2>1, <2>2, <2>3, Zenon DEF PanelOk
    <2> QED BY <2>1, <2>4, Zenon DEF p
  <1> QED BY <1>1, <1>2 DEF ClearLines, Operation

LEMMA SpiOp ==
    ASSUME DisplayStep, NEW x, Head(todo) = <<"spi", x>>
    PROVE  todo' = Tail(todo) /\ spi' = x /\ UNCHANGED <<buffer, inited, high, panel>>
  <1>1. ConfigureSpi /\ Arg = x
    BY DEF DisplayStep, Operation, Arg, SetLines, ClearLines, MarkInited, SendCommand,
           SelectPage, SendPage, Sending
  <1> QED BY <1>1 DEF ConfigureSpi, Operation

LEMMA InitedOp ==
    ASSUME DisplayStep, NEW x, Head(todo) = <<"inited", x>>
    PROVE  todo' = Tail(todo) /\ inited' = x /\ UNCHANGED <<buffer, spi, high, panel>>
  <1>1. MarkInited /\ Arg = x
    BY DEF DisplayStep, Operation, Arg, SetLines, ClearLines, ConfigureSpi, SendCommand,
           SelectPage, SendPage, Sending
  <1> QED BY <1>1 DEF MarkInited, Operation

LEMMA SendOp ==
    ASSUME LineInv, DisplayStep, NEW x, Head(todo) = <<"send", x>>, {"vdd", "data"} \cap high = {}
    PROVE  /\ todo' = Tail(todo) /\ UNCHANGED <<buffer, inited, spi, high>>
           /\ PanelOk(panel') /\ panel'.page = panel.page /\ panel'.ram = panel.ram
           /\ panel'.got = IF x \in Setup THEN panel.got \cup {x} ELSE panel.got
           /\ panel'.lit = IF x \in Setup THEN panel.lit ELSE (x = "AF")
  <1>1. SendCommand /\ Arg = x
    BY DEF DisplayStep, Operation, Arg, SetLines, ClearLines, ConfigureSpi, MarkInited,
           SelectPage, SendPage, Sending
  <1> DEFINE p == IF x \in Setup THEN [panel EXCEPT !.got = @ \cup {x}]
                                 ELSE [panel EXCEPT !.lit = (x = "AF")]
  <1>2. panel' = p /\ todo' = Tail(todo) /\ UNCHANGED <<buffer, inited, spi, high>>
    BY <1>1 DEF SendCommand, Sending, Operation
  <1>3. PanelOk(p) /\ p.page = panel.page /\ p.ram = panel.ram
    BY DEF PanelOk, LineInv
  <1>4. p.got = IF x \in Setup THEN panel.got \cup {x} ELSE panel.got
    BY DEF PanelOk, LineInv
  <1>5. p.lit = IF x \in Setup THEN panel.lit ELSE (x = "AF")
    BY DEF PanelOk, LineInv
  <1> QED BY <1>2, <1>3, <1>4, <1>5

LEMMA PageOp ==
    ASSUME LineInv, DisplayStep, NEW j \in 0 .. Pages - 1, Head(todo) = <<"page", j>>,
           {"vdd", "data"} \cap high = {}
    PROVE  /\ todo' = Tail(todo) /\ UNCHANGED <<buffer, inited, spi, high>>
           /\ PanelOk(panel') /\ panel'.page = j /\ panel'.ram = panel.ram
           /\ panel'.got = panel.got /\ panel'.lit = panel.lit
  <1>1. SelectPage /\ Arg = j
    BY DEF DisplayStep, Operation, Arg, SetLines, ClearLines, ConfigureSpi, MarkInited,
           SendCommand, SendPage, Sending
  <1> DEFINE p == [panel EXCEPT !.page = j]
  <1>2. panel' = p /\ todo' = Tail(todo) /\ UNCHANGED <<buffer, inited, spi, high>>
    BY <1>1 DEF SelectPage, Sending, Operation
  <1>3. PanelOk(p) /\ p.page = j /\ p.ram = panel.ram /\ p.got = panel.got /\ p.lit = panel.lit
    BY DEF PanelOk, LineInv
  <1> QED BY <1>2, <1>3

LEMMA RamWritten ==
    ASSUME NEW p, NEW x, p = [got |-> p.got, lit |-> p.lit, page |-> p.page, ram |-> p.ram]
    PROVE  [p EXCEPT !.ram[p.page] = x]
             = [got |-> p.got, lit |-> p.lit, page |-> p.page, ram |-> [p.ram EXCEPT ![p.page] = x]]
  OBVIOUS

LEMMA DataOp ==
    ASSUME LineInv, DisplayStep, NEW j \in 0 .. Pages - 1, Head(todo) = <<"data", j>>,
           "vdd" \notin high, "data" \in high
    PROVE  /\ todo' = Tail(todo) /\ UNCHANGED <<buffer, inited, spi, high>>
           /\ PanelOk(panel') /\ panel'.page = panel.page
           /\ panel'.got = panel.got /\ panel'.lit = panel.lit
           /\ panel'.ram = [i \in 0 .. Pages - 1 |-> IF i = panel.page THEN <<buffer, j>> ELSE panel.ram[i]]
  <1>1. SendPage /\ Arg = j
    BY DEF DisplayStep, Operation, Arg, SetLines, ClearLines, ConfigureSpi, MarkInited,
           SendCommand, SelectPage, Sending
  <1> DEFINE p == [panel EXCEPT !.ram[panel.page] = <<buffer, j>>]
  <1>2. panel' = p /\ todo' = Tail(todo) /\ UNCHANGED <<buffer, inited, spi, high>>
    BY <1>1 DEF SendPage, Sending, Operation
  <1>3. p.page = panel.page /\ p.got = panel.got /\ p.lit = panel.lit
    BY DEF PanelOk, LineInv
  <1>4. p.ram = [i \in 0 .. Pages - 1 |-> IF i = panel.page THEN <<buffer, j>> ELSE panel.ram[i]]
    BY DEF PanelOk, LineInv
  <1>5. PanelOk(p)
    <2>1. p = [got |-> panel.got, lit |-> panel.lit, page |-> panel.page,
               ram |-> [panel.ram EXCEPT ![panel.page] = <<buffer, j>>]]
      BY RamWritten DEF PanelOk, LineInv
    <2>2. p.got \subseteq Setup /\ p.lit \in BOOLEAN /\ p.page \in 0 .. Pages - 1
      BY <1>3 DEF PanelOk, LineInv
    <2>3. p.ram = [i \in 0 .. Pages - 1 |-> p.ram[i]]
      BY <1>4
    <2> QED BY <2>1, <2>2, <2>3 DEF PanelOk
  <1> QED BY <1>2, <1>3, <1>4, <1>5



LEMMA InitOp ==
    /\ FullInit[1] = <<"spi", FALSE>>
    /\ FullInit[2] = <<"spi", TRUE>>
    /\ FullInit[3] = <<"set", {"data", "vbat", "vdd"}>>
    /\ FullInit[4] = <<"set", {"reset"}>>
    /\ FullInit[5] = <<"clear", {"data"}>>
    /\ FullInit[6] = <<"clear", {"vdd"}>>
    /\ FullInit[7] = <<"send", "AE">>
    /\ FullInit[8] = <<"clear", {"reset"}>>
    /\ FullInit[9] = <<"set", {"reset"}>>
    /\ FullInit[10] = <<"send", "8D14">>
    /\ FullInit[11] = <<"send", "D9F1">>
    /\ FullInit[12] = <<"clear", {"vbat"}>>
    /\ FullInit[13] = <<"send", "A1C8">>
    /\ FullInit[14] = <<"send", "DA20">>
    /\ FullInit[15] = <<"send", "AF">>
    /\ FullInit[16] = <<"inited", TRUE>>
  BY InitTable

\* Each operation of the switching on finds the display as the one before left it.
LEMMA InitStep ==
    ASSUME LineInv, DisplayStep, NEW n \in 0 .. 15, On(n)
    PROVE  LineInv' /\ On(n + 1)' /\ buffer' = buffer
  <1>1. Head(todo) = FullInit[n + 1] /\ Tail(todo) = Rest(OnScript, n + 1)
    <2>1. n \in 0 .. Len(OnScript) /\ n # Len(OnScript) /\ n + 1 \in 1 .. 16
      BY OnTable, Constants
    <2> QED BY <2>1, OnTable, RestTail DEF On
  <1>2. Drawn(0)'
    BY Constants DEF Drawn
  <1>3. CASE n = 0
    <2>0. n + 1 = 1
      BY <1>3
    <2>1. Head(todo) = <<"spi", FALSE>>
      BY <2>0, <1>1, InitOp, Zenon
    <2>2. todo' = Tail(todo) /\ spi' = FALSE /\ UNCHANGED <<buffer, inited, high, panel>>
      BY <2>1, SpiOp DEF LineInv
    <2>3. LineInv'
      BY <1>3, <2>2 DEF LineInv, Lines, On, HighOn
    <2>4. HighOn(1)'
      BY <1>3, <2>2 DEF On, HighOn
    <2>5. GotOn(1)'
      BY <1>3, <2>2 DEF On, GotOn
    <2>6. On(1)'
      BY <1>1, <1>2, <1>3, <2>0, <2>2, <2>4, <2>5 DEF On
    <2> QED BY <2>0, <2>2, <2>3, <2>6
  <1>4. CASE n = 1
    <2>0. n + 1 = 2
      BY <1>4
    <2>1. Head(todo) = <<"spi", TRUE>>
      BY <2>0, <1>1, InitOp, Zenon
    <2>2. todo' = Tail(todo) /\ spi' = TRUE /\ UNCHANGED <<buffer, inited, high, panel>>
      BY <2>1, SpiOp DEF LineInv
    <2>3. LineInv'
      BY <1>4, <2>2 DEF LineInv, Lines, On, HighOn
    <2>4. HighOn(2)'
      BY <1>4, <2>2 DEF On, HighOn
    <2>5. GotOn(2)'
      BY <1>4, <2>2 DEF On, GotOn
    <2>6. On(2)'
      BY <1>1, <1>2, <1>4, <2>0, <2>2, <2>4, <2>5 DEF On
    <2> QED BY <2>0, <2>2, <2>3, <2>6
  <1>5. CASE n = 2
    <2>0. n + 1 = 3
      BY <1>5
    <2>1. Head(todo) = <<"set", {"data", "vbat", "vdd"}>>
      BY <2>0, <1>1, InitOp, Zenon
    <2>2. /\ todo' = Tail(todo) /\ UNCHANGED <<buffer, inited, spi>>
          /\ high' = high \cup {"data", "vbat", "vdd"} /\ PanelOk(panel')
      BY <2>1, SetOp DEF LineInv
    <2>3. LineInv'
      BY <1>5, <2>2 DEF LineInv, Lines, On, HighOn
    <2>4. HighOn(3)'
      BY <1>5, <2>2 DEF On, HighOn
    <2>5. GotOn(3)'
      BY <1>5, <2>2 DEF On, GotOn
    <2>6. On(3)'
      BY <1>1, <1>2, <1>5, <2>0, <2>2, <2>4, <2>5 DEF On
    <2> QED BY <2>0, <2>2, <2>3, <2>6
  <1>6. CASE n = 3
    <2>0. n + 1 = 4
      BY <1>6
    <2>1. Head(todo) = <<"set", {"reset"}>>
      BY <2>0, <1>1, InitOp, Zenon
    <2>2. /\ todo' = Tail(todo) /\ UNCHANGED <<buffer, inited, spi>>
          /\ high' = high \cup {"reset"} /\ PanelOk(panel') /\ panel' = panel
      BY <2>1, SetOp DEF LineInv
    <2>3. LineInv'
      BY <1>6, <2>2 DEF LineInv, Lines, On, HighOn
    <2>4. HighOn(4)'
      BY <1>6, <2>2 DEF On, HighOn
    <2>5. GotOn(4)'
      BY <1>6, <2>2 DEF On, GotOn
    <2>6. On(4)'
      BY <1>1, <1>2, <1>6, <2>0, <2>2, <2>4, <2>5 DEF On
    <2> QED BY <2>0, <2>2, <2>3, <2>6
  <1>7. CASE n = 4
    <2>0. n + 1 = 5
      BY <1>7
    <2>1. Head(todo) = <<"clear", {"data"}>>
      BY <2>0, <1>1, InitOp, Zenon
    <2>2. /\ todo' = Tail(todo) /\ UNCHANGED <<buffer, inited, spi>>
          /\ high' = high \ {"data"} /\ PanelOk(panel') /\ panel' = panel
      BY <2>1, ClearOp DEF LineInv
    <2>3. LineInv'
      BY <1>7, <2>2 DEF LineInv, Lines, On, HighOn
    <2>4. HighOn(5)'
      BY <1>7, <2>2 DEF On, HighOn
    <2>5. GotOn(5)'
      BY <1>7, <2>2 DEF On, GotOn
    <2>6. On(5)'
      BY <1>1, <1>2, <1>7, <2>0, <2>2, <2>4, <2>5 DEF On
    <2> QED BY <2>0, <2>2, <2>3, <2>6
  <1>8. CASE n = 5
    <2>0. n + 1 = 6
      BY <1>8
    <2>1. Head(todo) = <<"clear", {"vdd"}>>
      BY <2>0, <1>1, InitOp, Zenon
    <2>2. /\ todo' = Tail(todo) /\ UNCHANGED <<buffer, inited, spi>>
          /\ high' = high \ {"vdd"} /\ PanelOk(panel') /\ panel' = panel
      BY <2>1, ClearOp DEF LineInv
    <2>3. LineInv'
      BY <1>8, <2>2 DEF LineInv, Lines, On, HighOn
    <2>4. HighOn(6)'
      BY <1>8, <2>2 DEF On, HighOn
    <2>5. GotOn(6)'
      BY <1>8, <2>2 DEF On, GotOn
    <2>6. On(6)'
      BY <1>1, <1>2, <1>8, <2>0, <2>2, <2>4, <2>5 DEF On
    <2> QED BY <2>0, <2>2, <2>3, <2>6
  <1>9. CASE n = 6
    <2>0. n + 1 = 7
      BY <1>9
    <2>1. Head(todo) = <<"send", "AE">>
      BY <2>0, <1>1, InitOp, Zenon
    <2>2. /\ todo' = Tail(todo) /\ UNCHANGED <<buffer, inited, spi, high>>
          /\ PanelOk(panel') 
      <3>1. {"vdd", "data"} \cap high = {}
        BY <1>9 DEF On, HighOn
      <3> QED BY <2>1, <3>1, SendOp DEF Setup
    <2>3. LineInv'
      BY <1>9, <2>2 DEF LineInv, Lines, On, HighOn
    <2>4. HighOn(7)'
      BY <1>9, <2>2 DEF On, HighOn
    <2>5. GotOn(7)'
      BY <1>9, <2>2 DEF On, GotOn
    <2>6. On(7)'
      BY <1>1, <1>2, <1>9, <2>0, <2>2, <2>4, <2>5 DEF On
    <2> QED BY <2>0, <2>2, <2>3, <2>6
  <1>10. CASE n = 7
    <2>0. n + 1 = 8
      BY <1>10
    <2>1. Head(todo) = <<"clear", {"reset"}>>
      BY <2>0, <1>1, InitOp, Zenon
    <2>2. /\ todo' = Tail(todo) /\ UNCHANGED <<buffer, inited, spi>>
          /\ high' = high \ {"reset"} /\ PanelOk(panel')
      BY <2>1, ClearOp DEF LineInv
    <2>3. LineInv'
      BY <1>10, <2>2 DEF LineInv, Lines, On, HighOn
    <2>4. HighOn(8)'
      BY <1>10, <2>2 DEF On, HighOn
    <2>5. GotOn(8)'
      BY <1>10, <2>2 DEF On, GotOn
    <2>6. On(8)'
      BY <1>1, <1>2, <1>10, <2>0, <2>2, <2>4, <2>5 DEF On
    <2> QED BY <2>0, <2>2, <2>3, <2>6
  <1>11. CASE n = 8
    <2>0. n + 1 = 9
      BY <1>11
    <2>1. Head(todo) = <<"set", {"reset"}>>
      BY <2>0, <1>1, InitOp, Zenon
    <2>2. /\ todo' = Tail(todo) /\ UNCHANGED <<buffer, inited, spi>>
          /\ high' = high \cup {"reset"} /\ PanelOk(panel') /\ panel' = panel
      BY <2>1, SetOp DEF LineInv
    <2>3. LineInv'
      BY <1>11, <2>2 DEF LineInv, Lines, On, HighOn
    <2>4. HighOn(9)'
      BY <1>11, <2>2 DEF On, HighOn
    <2>5. GotOn(9)'
      BY <1>11, <2>2 DEF On, GotOn
    <2>6. On(9)'
      BY <1>1, <1>2, <1>11, <2>0, <2>2, <2>4, <2>5 DEF On
    <2> QED BY <2>0, <2>2, <2>3, <2>6
  <1>12. CASE n = 9
    <2>0. n + 1 = 10
      BY <1>12
    <2>1. Head(todo) = <<"send", "8D14">>
      BY <2>0, <1>1, InitOp, Zenon
    <2>2. /\ todo' = Tail(todo) /\ UNCHANGED <<buffer, inited, spi, high>>
          /\ PanelOk(panel') /\ panel.got \subseteq panel'.got
          /\ "8D14" \in panel'.got
      <3>1. {"vdd", "data"} \cap high = {}
        BY <1>12 DEF On, HighOn
      <3> QED BY <2>1, <3>1, SendOp DEF Setup
    <2>3. LineInv'
      BY <1>12, <2>2 DEF LineInv, Lines, On, HighOn
    <2>4. HighOn(10)'
      BY <1>12, <2>2 DEF On, HighOn
    <2>5. GotOn(10)'
      BY <1>12, <2>2 DEF On, GotOn
    <2>6. On(10)'
      BY <1>1, <1>2, <1>12, <2>0, <2>2, <2>4, <2>5 DEF On
    <2> QED BY <2>0, <2>2, <2>3, <2>6
  <1>13. CASE n = 10
    <2>0. n + 1 = 11
      BY <1>13
    <2>1. Head(todo) = <<"send", "D9F1">>
      BY <2>0, <1>1, InitOp, Zenon
    <2>2. /\ todo' = Tail(todo) /\ UNCHANGED <<buffer, inited, spi, high>>
          /\ PanelOk(panel') /\ panel.got \subseteq panel'.got
          /\ "D9F1" \in panel'.got
      <3>1. {"vdd", "data"} \cap high = {}
        BY <1>13 DEF On, HighOn
      <3> QED BY <2>1, <3>1, SendOp DEF Setup
    <2>3. LineInv'
      BY <1>13, <2>2 DEF LineInv, Lines, On, HighOn
    <2>4. HighOn(11)'
      BY <1>13, <2>2 DEF On, HighOn
    <2>5. GotOn(11)'
      BY <1>13, <2>2 DEF On, GotOn
    <2>6. On(11)'
      BY <1>1, <1>2, <1>13, <2>0, <2>2, <2>4, <2>5 DEF On
    <2> QED BY <2>0, <2>2, <2>3, <2>6
  <1>14. CASE n = 11
    <2>0. n + 1 = 12
      BY <1>14
    <2>1. Head(todo) = <<"clear", {"vbat"}>>
      BY <2>0, <1>1, InitOp, Zenon
    <2>2. /\ todo' = Tail(todo) /\ UNCHANGED <<buffer, inited, spi>>
          /\ high' = high \ {"vbat"} /\ PanelOk(panel') /\ panel' = panel
      BY <2>1, ClearOp DEF LineInv
    <2>3. LineInv'
      BY <1>14, <2>2 DEF LineInv, Lines, On, HighOn
    <2>4. HighOn(12)'
      BY <1>14, <2>2 DEF On, HighOn
    <2>5. GotOn(12)'
      BY <1>14, <2>2 DEF On, GotOn
    <2>6. On(12)'
      BY <1>1, <1>2, <1>14, <2>0, <2>2, <2>4, <2>5 DEF On
    <2> QED BY <2>0, <2>2, <2>3, <2>6
  <1>15. CASE n = 12
    <2>0. n + 1 = 13
      BY <1>15
    <2>1. Head(todo) = <<"send", "A1C8">>
      BY <2>0, <1>1, InitOp, Zenon
    <2>2. /\ todo' = Tail(todo) /\ UNCHANGED <<buffer, inited, spi, high>>
          /\ PanelOk(panel') /\ panel.got \subseteq panel'.got
          /\ "A1C8" \in panel'.got
      <3>1. {"vdd", "data"} \cap high = {}
        BY <1>15 DEF On, HighOn
      <3> QED BY <2>1, <3>1, SendOp DEF Setup
    <2>3. LineInv'
      BY <1>15, <2>2 DEF LineInv, Lines, On, HighOn
    <2>4. HighOn(13)'
      BY <1>15, <2>2 DEF On, HighOn
    <2>5. GotOn(13)'
      BY <1>15, <2>2 DEF On, GotOn
    <2>6. On(13)'
      BY <1>1, <1>2, <1>15, <2>0, <2>2, <2>4, <2>5 DEF On
    <2> QED BY <2>0, <2>2, <2>3, <2>6
  <1>16. CASE n = 13
    <2>0. n + 1 = 14
      BY <1>16
    <2>1. Head(todo) = <<"send", "DA20">>
      BY <2>0, <1>1, InitOp, Zenon
    <2>2. /\ todo' = Tail(todo) /\ UNCHANGED <<buffer, inited, spi, high>>
          /\ PanelOk(panel') /\ panel.got \subseteq panel'.got
          /\ "DA20" \in panel'.got
      <3>1. {"vdd", "data"} \cap high = {}
        BY <1>16 DEF On, HighOn
      <3> QED BY <2>1, <3>1, SendOp DEF Setup
    <2>3. LineInv'
      BY <1>16, <2>2 DEF LineInv, Lines, On, HighOn
    <2>4. HighOn(14)'
      BY <1>16, <2>2 DEF On, HighOn
    <2>5. GotOn(14)'
      BY <1>16, <2>2 DEF On, GotOn
    <2>6. On(14)'
      BY <1>1, <1>2, <1>16, <2>0, <2>2, <2>4, <2>5 DEF On
    <2> QED BY <2>0, <2>2, <2>3, <2>6
  <1>17. CASE n = 14
    <2>0. n + 1 = 15
      BY <1>17
    <2>1. Head(todo) = <<"send", "AF">>
      BY <2>0, <1>1, InitOp, Zenon
    <2>2. /\ todo' = Tail(todo) /\ UNCHANGED <<buffer, inited, spi, high>>
          /\ PanelOk(panel') /\ panel.got \subseteq panel'.got
          /\ panel'.lit
      <3>1. {"vdd", "data"} \cap high = {}
        BY <1>17 DEF On, HighOn
      <3> QED BY <2>1, <3>1, SendOp DEF Setup
    <2>3. LineInv'
      BY <1>17, <2>2 DEF LineInv, Lines, On, HighOn
    <2>4. HighOn(15)'
      BY <1>17, <2>2 DEF On, HighOn
    <2>5. GotOn(15)'
      BY <1>17, <2>2 DEF On, GotOn
    <2>6. On(15)'
      BY <1>1, <1>2, <1>17, <2>0, <2>2, <2>4, <2>5 DEF On
    <2> QED BY <2>0, <2>2, <2>3, <2>6
  <1>18. CASE n = 15
    <2>0. n + 1 = 16
      BY <1>18
    <2>1. Head(todo) = <<"inited", TRUE>>
      BY <2>0, <1>1, InitOp, Zenon
    <2>2. todo' = Tail(todo) /\ inited' = TRUE /\ UNCHANGED <<buffer, spi, high, panel>>
      BY <2>1, InitedOp DEF LineInv
    <2>3. LineInv'
      BY <1>18, <2>2 DEF LineInv, Lines, On, HighOn
    <2>4. HighOn(16)'
      BY <1>18, <2>2 DEF On, HighOn
    <2>5. GotOn(16)'
      BY <1>18, <2>2 DEF On, GotOn
    <2>6. On(16)'
      BY <1>1, <1>2, <1>18, <2>0, <2>2, <2>4, <2>5 DEF On
    <2> QED BY <2>0, <2>2, <2>3, <2>6
  <1> QED BY <1>3, <1>4, <1>5, <1>6, <1>7, <1>8, <1>9, <1>10, <1>11, <1>12, <1>13, <1>14, <1>15, <1>16, <1>17, <1>18

\* An operation of an update: the first of page j when 4 * j are done.
DrawsNext(m) ==
    \A j \in 0 .. Pages - 1 :
        /\ m = 4 * j => Head(todo) = <<"clear", {"data"}>>
        /\ m = 4 * j + 1 => Head(todo) = <<"page", j>>
        /\ m = 4 * j + 2 => Head(todo) = <<"set", {"data"}>>
        /\ m = 4 * j + 3 => Head(todo) = <<"data", j>>

\* One operation of an update, in whichever script it stands.
LEMMA DrawStep ==
    ASSUME LineInv, DisplayStep, NEW m \in 0 .. 4 * Pages - 1, Drawn(m), DrawsNext(m),
           "vdd" \notin high
    PROVE  /\ Drawn(m + 1)' /\ LineInv'
           /\ todo' = Tail(todo) /\ UNCHANGED <<buffer, inited, spi>>
           /\ panel'.got = panel.got /\ panel'.lit = panel.lit
           /\ high' \in {high, high \cup {"data"}, high \ {"data"}}
  <1>1. PICK j \in 0 .. Pages - 1 : m \in {4 * j, 4 * j + 1, 4 * j + 2, 4 * j + 3}
    BY PageOf
  <1>2. \A i \in 0 .. Pages - 1 : m >= 4 * i + 4 => i < j /\ panel.ram[i] = <<buffer, i>>
    BY <1>1, Constants DEF Drawn
  <1>3. CASE m = 4 * j
    <2>1. /\ todo' = Tail(todo) /\ UNCHANGED <<buffer, inited, spi, panel>>
          /\ high' = high \ {"data"}
      BY <1>3, ClearOp DEF DrawsNext
    <2>2. LineInv'
      BY <2>1 DEF LineInv
    <2>3. Drawn(m + 1)'
      BY <1>1, <1>2, <1>3, <2>1, Constants DEF Drawn
    <2> QED BY <2>1, <2>2, <2>3
  <1>4. CASE m = 4 * j + 1
    <2>1. "data" \notin high
      BY <1>4 DEF Drawn
    <2>2. /\ todo' = Tail(todo) /\ UNCHANGED <<buffer, inited, spi, high>>
          /\ PanelOk(panel') /\ panel'.page = j /\ panel'.ram = panel.ram
          /\ panel'.got = panel.got /\ panel'.lit = panel.lit
      BY <1>4, <2>1, PageOp DEF DrawsNext
    <2>3. LineInv'
      BY <2>2 DEF LineInv
    <2>4. Drawn(m + 1)'
      BY <1>1, <1>2, <1>4, <2>1, <2>2, Constants DEF Drawn
    <2> QED BY <2>2, <2>3, <2>4
  <1>5. CASE m = 4 * j + 2
    <2>1. /\ todo' = Tail(todo) /\ UNCHANGED <<buffer, inited, spi, panel>>
          /\ high' = high \cup {"data"}
      BY <1>5, SetOp DEF DrawsNext
    <2>2. LineInv'
      BY <2>1 DEF LineInv, Lines
    <2>3. panel.page = j
      BY <1>5 DEF Drawn
    <2>4. Drawn(m + 1)'
      BY <1>1, <1>2, <1>5, <2>1, <2>3, Constants DEF Drawn
    <2> QED BY <2>1, <2>2, <2>4
  <1>6. CASE m = 4 * j + 3
    <2>1. "data" \in high /\ panel.page = j
      BY <1>6 DEF Drawn
    <2>2. /\ todo' = Tail(todo) /\ UNCHANGED <<buffer, inited, spi, high>>
          /\ PanelOk(panel') /\ panel'.page = panel.page
          /\ panel'.got = panel.got /\ panel'.lit = panel.lit
          /\ panel'.ram = [i \in 0 .. Pages - 1 |-> IF i = panel.page THEN <<buffer, j>> ELSE panel.ram[i]]
      BY <1>6, <2>1, DataOp DEF DrawsNext
    <2>3. LineInv'
      BY <2>2 DEF LineInv
    <2>4. \A i \in 0 .. Pages - 1 : m + 1 >= 4 * i + 4 => panel'.ram[i] = <<buffer, i>>
      BY <1>1, <1>2, <1>6, <2>1, <2>2, Constants
    <2>5. Drawn(m + 1)'
      BY <1>6, <2>2, <2>4, Constants DEF Drawn
    <2> QED BY <2>2, <2>3, <2>5
  <1> QED BY <1>1, <1>3, <1>4, <1>5, <1>6

\* The same behind a switching on.
LEMMA OnDrawStep ==
    ASSUME LineInv, DisplayStep, NEW m \in 0 .. 4 * Pages - 1, On(m + 16)
    PROVE  /\ LineInv' /\ On(m + 17)' /\ buffer' = buffer
           /\ {"vbat", "vdd"} \cap (high' \ high) = {}
  <1>1. Head(todo) = OnScript[m + 17] /\ Tail(todo) = Rest(OnScript, m + 17)
    <2>1. m + 16 \in 0 .. Len(OnScript) /\ m + 16 # Len(OnScript)
      BY OnTable, Constants
    <2>2. (m + 16) + 1 = m + 17
      OBVIOUS
    <2> QED BY <2>1, <2>2, OnTable, RestTail DEF On
  <1>2. m + 16 >= 16 /\ (m + 16) - 16 = m /\ m + 17 >= 16 /\ (m + 17) - 16 = m + 1
        /\ ~(m + 17 < 16) /\ ~(m + 16 = 1) /\ m + 16 >= 2 /\ m + 17 # 1 /\ m + 17 >= 2
    OBVIOUS
  <1>3. Drawn(m) /\ inited /\ spi /\ HighOn(m + 16) /\ GotOn(m + 16)
    BY <1>2 DEF On
  <1>4. "vdd" \notin high /\ "vbat" \notin high
    BY <1>3 DEF HighOn
  <1>5. DrawsNext(m)
    <2> SUFFICES ASSUME NEW j \in 0 .. Pages - 1
                 PROVE  /\ m = 4 * j => OnScript[m + 17] = <<"clear", {"data"}>>
                        /\ m = 4 * j + 1 => OnScript[m + 17] = <<"page", j>>
                        /\ m = 4 * j + 2 => OnScript[m + 17] = <<"set", {"data"}>>
                        /\ m = 4 * j + 3 => OnScript[m + 17] = <<"data", j>>
      BY <1>1, Zenon DEF DrawsNext
    <2>1. /\ m = 4 * j => m + 17 = 4 * j + 17
          /\ m = 4 * j + 1 => m + 17 = 4 * j + 18
          /\ m = 4 * j + 2 => m + 17 = 4 * j + 19
          /\ m = 4 * j + 3 => m + 17 = 4 * j + 20
      OBVIOUS
    <2> QED BY <2>1, OnTable, Zenon
  <1>6. /\ Drawn(m + 1)' /\ LineInv' /\ todo' = Tail(todo) /\ UNCHANGED <<buffer, inited, spi>>
        /\ panel'.got = panel.got /\ panel'.lit = panel.lit
        /\ high' \in {high, high \cup {"data"}, high \ {"data"}}
    BY <1>3, <1>4, <1>5, DrawStep
  <1>7. HighOn(m + 17)'
    BY <1>4, <1>6 DEF HighOn
  <1>8. GotOn(m + 17)'
    BY <1>3, <1>6 DEF GotOn
  <1>9. On(m + 17)'
    BY <1>1, <1>2, <1>3, <1>6, <1>7, <1>8, Zenon DEF On
  <1>10. {"vbat", "vdd"} \cap (high' \ high) = {}
    BY <1>6
  <1> QED BY <1>6, <1>9, <1>10

\* The same before a switching off.
LEMMA OffDrawStep ==
    ASSUME LineInv, DisplayStep, NEW m \in 0 .. 4 * Pages - 1, Off(m)
    PROVE  /\ LineInv' /\ Off(m + 1)' /\ buffer' = buffer
           /\ {"vbat", "vdd"} \cap (high' \ high) = {}
  <1>1. Head(todo) = OffScript[m + 1] /\ Tail(todo) = Rest(OffScript, m + 1)
    <2>1. m \in 0 .. Len(OffScript) /\ m # Len(OffScript)
      BY OffTable, Constants
    <2> QED BY <2>1, OffTable, RestTail DEF Off
  <1>2. Drawn(m) /\ "vdd" \notin high /\ "vbat" \notin high
    BY Constants DEF Off
  <1>3. DrawsNext(m)
    <2> SUFFICES ASSUME NEW j \in 0 .. Pages - 1
                 PROVE  /\ m = 4 * j => OffScript[m + 1] = <<"clear", {"data"}>>
                        /\ m = 4 * j + 1 => OffScript[m + 1] = <<"page", j>>
                        /\ m = 4 * j + 2 => OffScript[m + 1] = <<"set", {"data"}>>
                        /\ m = 4 * j + 3 => OffScript[m + 1] = <<"data", j>>
      BY <1>1, Zenon DEF DrawsNext
    <2>1. /\ m = 4 * j => m + 1 = 4 * j + 1
          /\ m = 4 * j + 1 => m + 1 = 4 * j + 2
          /\ m = 4 * j + 2 => m + 1 = 4 * j + 3
          /\ m = 4 * j + 3 => m + 1 = 4 * j + 4
      OBVIOUS
    <2> QED BY <2>1, OffTable, Zenon
  <1>4. /\ Drawn(m + 1)' /\ LineInv' /\ todo' = Tail(todo) /\ buffer' = buffer /\ spi' = spi
        /\ high' \in {high, high \cup {"data"}, high \ {"data"}}
    BY <1>2, <1>3, DrawStep
  <1>5. "vdd" \notin high' /\ "vbat" \notin high' /\ spi'
    BY <1>2, <1>4, Constants DEF Off
  <1>6. Off(m + 1)'
    BY <1>1, <1>4, <1>5, Constants DEF Off
  <1>7. {"vbat", "vdd"} \cap (high' \ high) = {}
    BY <1>4
  <1> QED BY <1>4, <1>6, <1>7

\* One operation of display_shutdown: VDD goes last, and from a panel turned off.
LEMMA ShutdownStep ==
    ASSUME LineInv, DisplayStep, NEW n \in 4 * Pages .. 4 * Pages + 4, Off(n)
    PROVE  /\ LineInv' /\ Off(n + 1)' /\ buffer' = buffer
           /\ {"vbat", "vdd"} \cap (high' \ high) # {} => ~panel.lit
  <1>1. Head(todo) = OffScript[n + 1] /\ Tail(todo) = Rest(OffScript, n + 1)
    <2>1. n \in 0 .. Len(OffScript) /\ n # Len(OffScript)
      BY OffTable, Constants
    <2> QED BY <2>1, OffTable, RestTail DEF Off
  <1>2. CASE n = 4 * Pages
    <2>0. n + 1 = 4 * Pages + 1
      BY <1>2
    <2>1. Head(todo) = <<"clear", {"data"}>>
      BY <2>0, <1>1, OffTable, Zenon
    <2>2. todo' = Tail(todo) /\ UNCHANGED <<buffer, inited, spi, panel>> /\ high' = high \ {"data"}
      BY <2>1, ClearOp
    <2>3. {"vbat", "vdd"} \cap high = {}
      BY <1>2, Constants DEF Off
    <2>4. LineInv'
      BY <2>2 DEF LineInv
    <2>5. Off(n + 1)'
      BY <1>1, <2>0, <2>2, <2>3, Constants DEF Off
    <2> QED BY <2>2, <2>4, <2>5
  <1>3. CASE n = 4 * Pages + 1
    <2>0. n + 1 = 4 * Pages + 2
      BY <1>3, Constants
    <2>1. Head(todo) = <<"send", "AE">>
      BY <2>0, <1>1, OffTable, Zenon
    <2>2. {"vbat", "vdd"} \cap high = {} /\ "data" \notin high
      BY <1>3, Constants DEF Off
    <2>3. todo' = Tail(todo) /\ UNCHANGED <<buffer, inited, spi, high>> /\ PanelOk(panel') /\ ~panel'.lit
      <3>1. /\ todo' = Tail(todo) /\ UNCHANGED <<buffer, inited, spi, high>> /\ PanelOk(panel')
            /\ panel'.lit = IF "AE" \in Setup THEN panel.lit ELSE ("AE" = "AF")
        BY <2>1, <2>2, SendOp
      <3>2. "AE" \notin Setup /\ "AE" # "AF"
        BY DEF Setup
      <3> QED BY <3>1, <3>2
    <2>4. LineInv'
      BY <2>3 DEF LineInv
    <2>5. Off(n + 1)'
      BY <1>1, <2>0, <2>2, <2>3, Constants DEF Off
    <2> QED BY <2>3, <2>4, <2>5
  <1>4. CASE n = 4 * Pages + 2
    <2>0. n + 1 = 4 * Pages + 3
      BY <1>4, Constants
    <2>1. Head(todo) = <<"set", {"vbat"}>>
      BY <2>0, <1>1, OffTable, Zenon
    <2>2. todo' = Tail(todo) /\ UNCHANGED <<buffer, inited, spi, panel>> /\ high' = high \cup {"vbat"}
      BY <2>1, SetOp
    <2>3. ~panel.lit
      BY <1>4, Constants DEF Off
    <2>4. LineInv'
      BY <2>2 DEF LineInv, Lines
    <2>5. Off(n + 1)'
      BY <1>1, <2>0, <2>2, <2>3, Constants DEF Off
    <2> QED BY <2>2, <2>3, <2>4, <2>5
  <1>5. CASE n = 4 * Pages + 3
    <2>0. n + 1 = 4 * Pages + 4
      BY <1>5, Constants
    <2>1. Head(todo) = <<"set", {"vdd"}>>
      BY <2>0, <1>1, OffTable, Zenon
    <2>2. /\ todo' = Tail(todo) /\ UNCHANGED <<buffer, inited, spi>> /\ high' = high \cup {"vdd"}
          /\ PanelOk(panel') /\ ~panel'.lit
      BY <2>1, SetOp
    <2>3. ~panel.lit /\ "vbat" \in high
      BY <1>5, Constants DEF Off
    <2>4. LineInv'
      BY <2>2, <2>3 DEF LineInv, Lines
    <2>5. Off(n + 1)'
      BY <1>1, <2>0, <2>2, <2>3, Constants DEF Off
    <2> QED BY <2>2, <2>3, <2>4, <2>5
  <1>6. CASE n = 4 * Pages + 4
    <2>0. n + 1 = 4 * Pages + 5
      BY <1>6, Constants
    <2>1. Head(todo) = <<"inited", FALSE>>
      BY <2>0, <1>1, OffTable, Zenon
    <2>2. todo' = Tail(todo) /\ inited' = FALSE /\ UNCHANGED <<buffer, spi, high, panel>>
      BY <2>1, InitedOp, Zenon
    <2>3. LineInv'
      BY <2>2 DEF LineInv
    <2>4. Off(n + 1)'
      BY <1>1, <2>0, <2>2, Constants DEF Off
    <2> QED BY <2>2, <2>3, <2>4
  <1> QED BY <1>2, <1>3, <1>4, <1>5, <1>6, Constants

-----------------------------------------------------------------------------
(* The display, whoever acts.                                              *)

PoweredStep == {"vbat", "vdd"} \cap (high' \ high) # {} => ~panel.lit \/ ~inited

\* With nothing left to do in the shell, the panel shows the buffer.
LEMMA OnDone ==
    ASSUME DisplayInv, pc \in Showing, todo = <<>>
    PROVE  On(4 * Pages + 16) /\ inited /\ Drawn(4 * Pages) /\ Shows(buffer)
  <1>1. PICK n \in 0 .. 4 * Pages + 16 : On(n)
    BY DEF DisplayInv, Switched
  <1>2. n = 4 * Pages + 16
    <2>1. n \in 0 .. Len(OnScript) /\ Rest(OnScript, n) = <<>>
      BY <1>1, OnTable DEF On
    <2> QED BY <2>1, OnTable, RestTail
  <1>3. On(4 * Pages + 16)
    BY <1>1, <1>2
  <1>4. 4 * Pages + 16 >= 16 /\ (4 * Pages + 16) - 16 = 4 * Pages
    BY Constants
  <1>5. inited /\ Drawn(4 * Pages) /\ HighOn(4 * Pages + 16) /\ GotOn(4 * Pages + 16)
    BY <1>3, <1>4 DEF On
  <1>6. Shows(buffer)
    <2>1. {"vdd", "vbat"} \cap high = {}
      BY <1>5, Constants DEF HighOn
    <2>2. panel.lit /\ panel.got = Setup
      BY <1>5, Constants DEF GotOn, DisplayInv, LineInv, PanelOk, Setup
    <2>3. \A j \in 0 .. Pages - 1 : panel.ram[j] = <<buffer, j>>
      <3> TAKE j \in 0 .. Pages - 1
      <3>1. 4 * Pages >= 4 * j + 4
        BY Constants
      <3> QED BY <1>5, <3>1 DEF Drawn
    <2>4. panel.ram = [i \in 0 .. Pages - 1 |-> <<buffer, i>>]
      BY <2>3 DEF DisplayInv, LineInv, PanelOk
    <2> QED BY <2>1, <2>2, <2>4 DEF Shows
  <1> QED BY <1>3, <1>5, <1>6

\* With nothing left to do elsewhere, the display is off as far as the driver knows.
LEMMA OffDone ==
    ASSUME DisplayInv, pc \notin Showing, todo = <<>>
    PROVE  Off(4 * Pages + 5) /\ ~inited
  <1>1. PICK n \in 0 .. 4 * Pages + 5 : Off(n)
    BY DEF DisplayInv, Switched
  <1>2. n = 4 * Pages + 5
    <2>1. n \in 0 .. Len(OffScript) /\ Rest(OffScript, n) = <<>>
      BY <1>1, OffTable DEF Off
    <2> QED BY <2>1, OffTable, RestTail
  <1> QED BY <1>1, <1>2 DEF Off

\* The display goes on with its script.
LEMMA DisplayRunsStep ==
    ASSUME DisplayInv, DisplayRuns
    PROVE  DisplayInv' /\ PoweredStep
  <1>1. DisplayStep /\ UNCHANGED <<shell, call, pc>>
    BY DEF DisplayRuns
  <1>2. todo # <<>> /\ LineInv
    BY <1>1 DEF DisplayStep, SetLines, ClearLines, ConfigureSpi, MarkInited, SendCommand,
                SelectPage, SendPage, Sending, Operation, DisplayInv
  <1>3. LineInv' /\ Switched' /\ buffer' = buffer /\ PoweredStep
    <2>1. CASE pc \in Showing
      <3>1. PICK n \in 0 .. 4 * Pages + 16 : On(n)
        BY <2>1 DEF DisplayInv, Switched
      <3>2. n # 4 * Pages + 16
        <4>1. 4 * Pages + 16 \in 0 .. Len(OnScript) /\ Len(OnScript) = 4 * Pages + 16
          BY OnTable, Constants
        <4>2. Rest(OnScript, 4 * Pages + 16) = <<>>
          BY <4>1, OnTable, RestTail
        <4> QED BY <3>1, <4>2, <1>2 DEF On
      <3>3. CASE n < 16
        <4>1. LineInv' /\ On(n + 1)' /\ buffer' = buffer
          BY <1>1, <1>2, <3>1, <3>3, InitStep
        <4>2. n + 1 \in 0 .. 4 * Pages + 16 /\ ~inited
          BY <3>1, <3>3, Constants DEF On
        <4> QED BY <1>1, <2>1, <4>1, <4>2 DEF Switched, PoweredStep
      <3>4. CASE n >= 16
        <4>1. PICK m \in 0 .. 4 * Pages - 1 : n = m + 16
          <5>1. n - 16 \in 0 .. 4 * Pages - 1 /\ n = (n - 16) + 16
            BY <3>2, <3>4, Constants
          <5> QED BY <5>1
        <4>2. /\ LineInv' /\ On(m + 17)' /\ buffer' = buffer
              /\ {"vbat", "vdd"} \cap (high' \ high) = {}
          BY <1>1, <1>2, <3>1, <4>1, OnDrawStep
        <4>3. m + 17 \in 0 .. 4 * Pages + 16
          BY Constants
        <4> QED BY <1>1, <2>1, <4>2, <4>3 DEF Switched, PoweredStep
      <3> QED BY <3>3, <3>4
    <2>2. CASE pc \notin Showing
      <3>1. PICK n \in 0 .. 4 * Pages + 5 : Off(n)
        BY <2>2 DEF DisplayInv, Switched
      <3>2. n # 4 * Pages + 5
        <4>1. 4 * Pages + 5 \in 0 .. Len(OffScript) /\ Len(OffScript) = 4 * Pages + 5
          BY OffTable, Constants
        <4>2. Rest(OffScript, 4 * Pages + 5) = <<>>
          BY <4>1, OffTable, RestTail
        <4> QED BY <3>1, <4>2, <1>2 DEF Off
      <3>3. n + 1 \in 0 .. 4 * Pages + 5
        BY <3>2, Constants
      <3>4. CASE n < 4 * Pages
        <4>1. /\ LineInv' /\ Off(n + 1)' /\ buffer' = buffer
              /\ {"vbat", "vdd"} \cap (high' \ high) = {}
          BY <1>1, <1>2, <3>1, <3>4, Constants, OffDrawStep
        <4> QED BY <1>1, <2>2, <3>3, <4>1 DEF Switched, PoweredStep
      <3>5. CASE n >= 4 * Pages
        <4>1. /\ LineInv' /\ Off(n + 1)' /\ buffer' = buffer
              /\ {"vbat", "vdd"} \cap (high' \ high) # {} => ~panel.lit
          BY <1>1, <1>2, <3>1, <3>2, <3>5, Constants, ShutdownStep
        <4> QED BY <1>1, <2>2, <3>3, <4>1 DEF Switched, PoweredStep
      <3> QED BY <3>4, <3>5, Constants
    <2> QED BY <2>1, <2>2
  <1>4. Pictured'
    BY <1>1, <1>3 DEF DisplayInv, Pictured, shell, call, FileList, EntryName, Result
  <1> QED BY <1>3, <1>4 DEF DisplayInv

\* The calls the foreground makes are the ends and the wholes of the two scripts.
LEMMA Scripts ==
    /\ Rest(OnScript, 0) = OnScript /\ Rest(OffScript, 0) = OffScript
    /\ Rest(OnScript, 16) = UpdateOps /\ <<>> \o UpdateOps = UpdateOps
    /\ Rest(OffScript, 4 * Pages) = ShutdownOps
  <1>1. \A s \in Seq(Ops) : Rest(s, 0) = s
    BY SubSeqFull DEF Rest
  <1>2. Rest(OnScript, 0) = OnScript /\ Rest(OffScript, 0) = OffScript
    BY <1>1, OnTable, OffTable
  <1>3. <<>> \o UpdateOps = UpdateOps
    BY UpdateTable, ConcatEmptySeq
  <1>4. /\ FullInit \in Seq(Ops) /\ Len(FullInit) = 16
        /\ ShutdownOps \in Seq(Ops) /\ Len(ShutdownOps) = 5
    <2>1. (\A n \in 1 .. 16 : FullInit[n] \in Ops) /\ (\A n \in 1 .. 5 : ShutdownOps[n] \in Ops)
      BY DEF Ops
    <2>2. /\ FullInit = [n \in 1 .. 16 |-> FullInit[n]]
          /\ ShutdownOps = [n \in 1 .. 5 |-> ShutdownOps[n]]
      BY InitTable DEF ShutdownOps
    <2> HIDE DEF Ops
    <2> QED BY <2>1, <2>2
  <1>5. ASSUME NEW s \in Seq(Ops), NEW t \in Seq(Ops)
        PROVE  Rest(s \o t, Len(s)) = t
    <2>1. /\ s \o t \in Seq(Ops) /\ Len(s \o t) = Len(s) + Len(t)
          /\ \A i \in 1 .. Len(s) + Len(t) : (s \o t)[i] = IF i <= Len(s) THEN s[i] ELSE t[i - Len(s)]
      BY ConcatProperties
    <2> DEFINE u == s \o t
               m == Len(s) + 1
               n == Len(s) + Len(t)
    <2>2. m \in Int /\ n \in Int /\ \A i \in m .. n : u[i] \in Ops
      BY <2>1
    <2>3. /\ SubSeq(u, m, n) \in Seq(Ops)
          /\ Len(SubSeq(u, m, n)) = IF m <= n THEN n - m + 1 ELSE 0
          /\ \A i \in 1 .. n - m + 1 : SubSeq(u, m, n)[i] = u[m + i - 1]
      <3> HIDE DEF u, m, n
      <3> QED BY <2>2, SubSeqProperties
    <2>4. Len(SubSeq(u, m, n)) = Len(t)
      BY <2>3
    <2>5. \A i \in 1 .. Len(t) : SubSeq(u, m, n)[i] = t[i]
      <3> TAKE i \in 1 .. Len(t)
      <3>1. i \in 1 .. n - m + 1 /\ m + i - 1 \in 1 .. Len(s) + Len(t)
            /\ ~(m + i - 1 <= Len(s)) /\ (m + i - 1) - Len(s) = i
        OBVIOUS
      <3>2. SubSeq(u, m, n)[i] = t[(m + i - 1) - Len(s)]
        BY <2>1, <2>3, <3>1
      <3> QED BY <3>1, <3>2
    <2>6. SubSeq(u, m, n) = t
      BY <2>3, <2>4, <2>5, SeqEqual
    <2> QED BY <2>1, <2>6 DEF Rest
  <1>6. Rest(OnScript, 16) = UpdateOps
    BY <1>4, <1>5, UpdateTable DEF OnScript
  <1>7. Rest(OffScript, 4 * Pages) = ShutdownOps
    BY <1>4, <1>5, UpdateTable DEF OffScript
  <1> QED BY <1>2, <1>3, <1>6, <1>7

\* The foreground turns the display on, draws again, or turns it off.
LEMMA TurnedOn ==
    ASSUME DisplayInv, pc \notin Showing, todo = <<>>, NEW p, Draw(InitOps, p), pc' \in Showing
    PROVE  LineInv' /\ Switched' /\ PoweredStep /\ buffer' = p
  <1>1. ~inited
    BY OffDone
  <1>2. todo' = OnScript /\ buffer' = p /\ UNCHANGED <<inited, high, spi, panel>>
    BY <1>1, Zenon DEF Draw, InitOps, OnScript, FullInit
  <1>3. On(0)'
    BY <1>1, <1>2, Scripts DEF On, HighOn, GotOn
  <1>4. LineInv' /\ PoweredStep
    BY <1>2 DEF DisplayInv, LineInv, PoweredStep
  <1>5. 0 \in 0 .. 4 * Pages + 16
    BY Constants
  <1> QED BY <1>2, <1>3, <1>4, <1>5 DEF Switched

LEMMA Redrawn ==
    ASSUME DisplayInv, pc \in Showing, todo = <<>>, pc' \in Showing,
           todo' = UpdateOps, UNCHANGED <<inited, high, spi, panel>>
    PROVE  LineInv' /\ Switched' /\ PoweredStep
  <1>1. On(4 * Pages + 16) /\ inited
    BY OnDone
  <1>2. spi /\ HighOn(16) /\ GotOn(16)
    BY <1>1, Constants DEF On, HighOn, GotOn
  <1>3. Drawn(0)'
    BY Constants DEF Drawn
  <1>4. On(16)'
    BY <1>1, <1>2, <1>3, Scripts DEF On, HighOn, GotOn
  <1>5. LineInv' /\ PoweredStep
    BY DEF DisplayInv, LineInv, PoweredStep
  <1>6. 16 \in 0 .. 4 * Pages + 16
    BY Constants
  <1> QED BY <1>4, <1>5, <1>6 DEF Switched

LEMMA TurnedOff ==
    ASSUME DisplayInv, pc \in Showing, todo = <<>>, pc' \notin Showing,
           \/ todo' = ShutdownOps /\ buffer' = buffer
           \/ todo' = UpdateOps \o ShutdownOps,
           UNCHANGED <<inited, high, spi, panel>>
    PROVE  LineInv' /\ Switched' /\ PoweredStep
  <1>1. On(4 * Pages + 16) /\ Drawn(4 * Pages)
    BY OnDone
  <1>2. {"vbat", "vdd"} \cap high = {} /\ spi
    BY <1>1, Constants DEF On, HighOn
  <1>3. LineInv' /\ PoweredStep
    BY DEF DisplayInv, LineInv, PoweredStep
  <1>4. CASE todo' = ShutdownOps /\ buffer' = buffer
    <2>1. Drawn(4 * Pages)'
      BY <1>1, <1>4 DEF Drawn
    <2>2. Off(4 * Pages)'
      BY <1>2, <1>4, <2>1, Scripts, Constants DEF Off
    <2>3. 4 * Pages \in 0 .. 4 * Pages + 5
      BY Constants
    <2> QED BY <1>3, <2>2, <2>3 DEF Switched
  <1>5. CASE todo' = UpdateOps \o ShutdownOps
    <2>1. Drawn(0)'
      BY Constants DEF Drawn
    <2>2. todo' = Rest(OffScript, 0)
      BY <1>5, Scripts DEF OffScript
    <2>3. Off(0)'
      BY <1>2, <2>1, <2>2, Constants DEF Off
    <2>4. 0 \in 0 .. 4 * Pages + 5
      BY Constants
    <2> QED BY <1>3, <2>3, <2>4 DEF Switched
  <1> QED BY <1>4, <1>5

\* What leaves the display alone and stays on the same side of its switching.
LEMMA DisplayKept ==
    ASSUME DisplayInv, UNCHANGED display, pc \in Showing <=> pc' \in Showing
    PROVE  LineInv' /\ Switched' /\ PoweredStep
  <1>1. LineInv' /\ PoweredStep
    BY DEF DisplayInv, LineInv, PoweredStep, display
  <1>2. \A n : On(n) => On(n)'
    BY DEF On, HighOn, GotOn, Drawn, display
  <1>3. \A n : Off(n) => Off(n)'
    BY DEF Off, Drawn, display
  <1>4. Switched'
    BY <1>2, <1>3 DEF DisplayInv, Switched
  <1> QED BY <1>1, <1>4

\* The display's part of the invariant, and the switching of its power, in every step.
LEMMA DisplayNext ==
    ASSUME DisplayInv, [Next]_vars, pc' \notin Gone
    PROVE  DisplayInv' /\ PoweredStep
  <1>1. CASE Flashes
    <2>1. pc = "menu" /\ UNCHANGED <<display, pc>>
      BY <1>1, FlashesInMenu DEF At
    <2> QED BY <2>1, DisplayKept DEF DisplayInv, Pictured
  <1>2. CASE RunProgramElf
    <2>1. pc = "menu" /\ pc' = "find" /\ UNCHANGED display
      BY <1>2 DEF RunProgramElf, At, ElfRun
    <2> QED BY <2>1, DisplayKept DEF DisplayInv, Pictured, Showing
  <1>3. CASE EnterShell
    <2>1. pc = "menu" /\ todo = <<>> /\ pc' = "intro" /\ Draw(InitOps, Intro)
      BY <1>3 DEF EnterShell, At
    <2> QED BY <2>1, TurnedOn DEF DisplayInv, Pictured, Showing
  <1>4. CASE StartLoading
    <2>1. pc = "intro" /\ todo = <<>> /\ pc' = "count" /\ todo' = UpdateOps
          /\ UNCHANGED <<inited, high, spi, panel>>
      BY <1>4, Scripts DEF StartLoading, At, Draw
    <2> QED BY <2>1, Redrawn DEF DisplayInv, Pictured, Showing
  <1>5. CASE CountFile
    <2>1. pc = "count" /\ pc' \in {"count", "populate"} /\ UNCHANGED display
      BY <1>5 DEF CountFile, At, Gone
    <2> QED BY <2>1, DisplayKept DEF DisplayInv, Pictured, Showing
  <1>6. CASE PopulateFile
    <2>1. CASE IsHeader(at)
      <3>1. pc = "populate" /\ pc' = "populate" /\ UNCHANGED display
        BY <1>6, <2>1 DEF PopulateFile, At, display
      <3> QED BY <3>1, DisplayKept DEF DisplayInv, Pictured, Showing
    <2>2. CASE ~IsHeader(at)
      <3>1. /\ pc = "populate" /\ todo = <<>> /\ pc' = "poll" /\ todo' = UpdateOps
            /\ UNCHANGED <<inited, high, spi, panel, list>>
            /\ first' = 0 /\ selected' = 0 /\ buffer' = FileList(first', selected')
        BY <1>6, <2>2, Scripts DEF PopulateFile, At, Redraw, Draw, Gone
      <3>2. buffer' = FileList(first, selected)'
        BY <3>1 DEF FileList, EntryName
      <3> QED BY <3>1, <3>2, Redrawn DEF DisplayInv, Pictured, Showing
    <2> QED BY <2>1, <2>2
  <1>7. CASE Exit
    <2>1. /\ pc = "poll" /\ todo = <<>> /\ pc' = "menu" /\ todo' = ShutdownOps /\ buffer' = buffer
          /\ UNCHANGED <<inited, high, spi, panel>>
      BY <1>7 DEF Exit, At
    <2> QED BY <2>1, TurnedOff DEF DisplayInv, Pictured, Showing
  <1>8. CASE Down \/ Up \/ BackToList
    <2>1. /\ pc \in {"poll", "seen"} /\ todo = <<>> /\ pc' = "poll" /\ Redraw /\ list' = list
      BY <1>8 DEF Down, Up, BackToList, At, shell, Redraw, Gone
    <2>2. todo' = UpdateOps /\ UNCHANGED <<inited, high, spi, panel>>
      BY <2>1, Scripts DEF Redraw, Draw
    <2>3. buffer' = FileList(first, selected)'
      BY <2>1 DEF Redraw, Draw, FileList, EntryName
    <2> QED BY <2>1, <2>2, <2>3, Redrawn DEF DisplayInv, Pictured, Showing
  <1>9. CASE Open
    <2>1. PICK a : pc = "poll" /\ todo = <<>> /\ OpenAt(a)
      BY <1>9 DEF Open, At
    <2>2. pc' = "find" /\ todo' = UpdateOps \o ShutdownOps /\ UNCHANGED <<inited, high, spi, panel>>
      BY <2>1 DEF OpenAt, ElfRun
    <2> QED BY <2>1, <2>2, TurnedOff DEF DisplayInv, Pictured, Showing
  <1>10. CASE FindFile \/ CheckHeader \/ LoadSegment
    <2>1. pc \in {"find", "check", "load"} /\ UNCHANGED display
      BY <1>10 DEF FindFile, CheckHeader, LoadSegment, At
    <2>2. pc' \in {"find", "check", "load", "user", "menu", "result"}
      BY <1>10 DEF FindFile, CheckHeader, LoadSegment, At, Return, Gone
    <2> QED BY <2>1, <2>2, DisplayKept DEF DisplayInv, Pictured, Showing
  <1>11. CASE UserReturns
    <2>1. /\ pc = "user" /\ todo = <<>> /\ pc' \in {"menu", "result"}
          /\ UNCHANGED <<buffer, inited, todo>> /\ spi' \in BOOLEAN
          /\ \/ UNCHANGED <<high, panel>>
             \/ high' \in {{"reset"}, {"reset", "data"}} /\ panel' = UserPanel
      BY <1>11 DEF UserReturns, At, Return
    <2>2. Off(4 * Pages + 5) /\ ~inited
      BY <2>1, OffDone DEF Showing
    <2>3. PanelOk(UserPanel)
      BY Constants DEF PanelOk, UserPanel, Setup
    <2>4. LineInv'
      BY <2>1, <2>3 DEF DisplayInv, LineInv, Lines
    <2>5. Off(4 * Pages + 5)'
      BY <2>1, <2>2, Constants DEF Off
    <2>6. 4 * Pages + 5 \in 0 .. 4 * Pages + 5
      BY Constants
    <2> QED BY <2>1, <2>2, <2>4, <2>5, <2>6
            DEF DisplayInv, Pictured, Showing, Switched, PoweredStep
  <1>12. CASE ShowResult
    <2>1. pc = "result" /\ todo = <<>> /\ pc' = "seen" /\ Draw(InitOps, Result(code)) /\ code' = code
      BY <1>12 DEF ShowResult, At, call
    <2>2. buffer' = Result(code)'
      BY <2>1 DEF Draw, Result
    <2> QED BY <2>1, <2>2, TurnedOn DEF DisplayInv, Pictured, Showing
  <1>13. CASE DisplayRuns
    BY <1>13, DisplayRunsStep
  <1>14. CASE UNCHANGED vars
    <2>1. UNCHANGED <<display, shell, call, pc>>
      BY <1>14 DEF vars
    <2>2. Pictured'
      BY <2>1 DEF DisplayInv, Pictured, display, shell, call, FileList, EntryName, Result
    <2> QED BY <2>1, <2>2, DisplayKept DEF DisplayInv
  <1> QED BY <1>1, <1>2, <1>3, <1>4, <1>5, <1>6, <1>7, <1>8, <1>9, <1>10, <1>11, <1>12, <1>13,
             <1>14 DEF Next, Kernel, Flashes

-----------------------------------------------------------------------------
(* The walk in whole blocks.                                               *)

\* A product grows with its factor.
LEMMA TimesBlock ==
    ASSUME NEW b \in Nat, NEW c \in Nat
    PROVE  /\ b * Block \in Nat
           /\ b <= c => b * Block <= c * Block
           /\ b < c => b * Block + Block <= c * Block
           /\ b * Block = c * Block <=> b = c
  <1>1. Block \in Nat /\ Block >= 1
    BY Constants
  <1>2. b * Block \in Nat /\ c * Block \in Nat
    BY <1>1
  <1>3. ASSUME NEW d \in Nat, NEW e \in Nat, d < e
        PROVE  d * Block + Block <= e * Block
    <2>1. PICK k \in Nat : e = d + 1 + k
      <3>1. e - d - 1 \in Nat /\ e = d + 1 + (e - d - 1)
        BY <1>3
      <3> QED BY <3>1
    <2>2. k * Block \in Nat
      BY <1>1
    <2>3. e * Block = d * Block + Block + k * Block
      BY <1>1, <2>1
    <2> QED BY <1>1, <2>2, <2>3
  <1>4. b < c => b * Block + Block <= c * Block
    BY <1>3
  <1>5. c < b => c * Block + Block <= b * Block
    BY <1>3
  <1> QED BY <1>1, <1>2, <1>4, <1>5

\* The addresses there are, in blocks.
LEMMA BlockSpace ==
    /\ MemSize = MemBlocks * Block /\ MemSize = Last * Block + Block
    /\ MemSize \in Nat /\ MemSize >= Block
    /\ AddrSpace = 2 * MemSize /\ AddrSpace \in Nat \ {0}
    /\ EEPROM_SIZE = MemSize - 1
  <1>1. MemBlocks = Last + 1
    BY Constants DEF Last
  <1>2. MemBlocks * Block = Last * Block + Block
    BY <1>1, Constants
  <1>3. Last * Block \in Nat
    BY Constants, TimesBlock
  <1> QED BY <1>2, <1>3, Constants DEF MemSize, AddrSpace, EEPROM_SIZE

\* What is read at an offset into a block.
LEMMA AtBlock ==
    ASSUME NEW b \in 0 .. Last, NEW r \in 0 .. Block - 1
    PROVE  /\ b * Block + r \in 0 .. MemSize - 1
           /\ BlockAt(b * Block + r) = fs[b]
           /\ (b * Block + r) % Block = r
  <1>1. b \in Nat /\ Last \in Nat /\ Block \in Nat \ {0} /\ b <= Last
    BY Constants
  <1>2. b * Block \in Nat /\ b * Block <= Last * Block
    BY <1>1, TimesBlock
  <1> DEFINE a == b * Block + r
  <1>3. a \in Nat /\ a \in 0 .. MemSize - 1
    BY <1>1, <1>2, BlockSpace
  <1>4. a = Block * b + r
    BY <1>1
  <1>5. a % Block = r /\ a \div Block = b
    <2> HIDE DEF a
    <2> QED BY <1>1, <1>3, <1>4, ModUnique
  <1>6. a % MemSize = a
    <2> HIDE DEF a
    <2>1. MemSize \in Nat \ {0}
      BY BlockSpace, <1>1
    <2> QED BY <1>3, <2>1, ModSmall
  <1>7. BlockAt(a) = fs[b]
    BY <1>5, <1>6 DEF BlockAt
  <1> QED BY <1>3, <1>5, <1>7

LEMMA FileBlocksPositive ==
    ASSUME NEW n \in Nat
    PROVE  FileBlocks(n) \in Nat /\ FileBlocks(n) >= 1
  <1>1. n \div Block \in Nat
    BY Constants, DivMod
  <1> QED BY <1>1 DEF FileBlocks

\* A multiple of a block is one again in the space of the addresses.
LEMMA SpotOf ==
    ASSUME NEW c \in Nat
    PROVE  /\ c % (2 * MemBlocks) \in Spots
           /\ (c * Block) % AddrSpace = (c % (2 * MemBlocks)) * Block
           /\ c \in Spots => c % (2 * MemBlocks) = c
  <1> DEFINE m == 2 * MemBlocks
             q == c \div m
             r == c % m
  <1>1. Block \in Nat \ {0} /\ MemBlocks \in Nat \ {0} /\ m \in Nat \ {0}
    BY Constants
  <1>2. c = m * q + r /\ q \in Nat /\ r \in 0 .. m - 1
    <2> HIDE DEF m
    <2> QED BY <1>1, DivMod
  <1>3. AddrSpace = m * Block /\ AddrSpace \in Nat \ {0}
    BY <1>1, BlockSpace
  <1>4. c * Block = AddrSpace * q + r * Block
    <2>1. (m * q) * Block = (m * Block) * q
      <3> HIDE DEF m, q
      <3> QED BY <1>1, <1>2
    <2>2. c * Block = (m * q) * Block + r * Block
      <3> HIDE DEF m, q, r
      <3> QED BY <1>1, <1>2
    <2> HIDE DEF m, q, r
    <2> QED BY <1>3, <2>1, <2>2
  <1>5. r * Block \in 0 .. AddrSpace - 1
    <2> HIDE DEF q, r
    <2>1. r \in Nat /\ m \in Nat /\ r < m
      BY <1>1, <1>2
    <2> HIDE DEF m
    <2>2. r * Block + Block <= m * Block /\ r * Block \in Nat
      BY <2>1, TimesBlock
    <2> QED BY <1>1, <1>3, <2>2
  <1>6. (c * Block) % AddrSpace = r * Block
    <2>1. c * Block \in Nat
      BY <1>1
    <2> HIDE DEF q, r, m
    <2> QED BY <1>2, <1>3, <1>4, <1>5, <2>1, ModUnique
  <1>7. c \in Spots => r = c
    <2>1. c \in Spots => c \in 0 .. m - 1
      BY DEF Spots
    <2> HIDE DEF m
    <2> QED BY <1>1, <2>1, ModSmall DEF r
  <1>8. r \in Spots
    BY <1>2 DEF Spots
  <1> QED BY <1>6, <1>7, <1>8

\* The address behind a file is that of the block behind its blocks.
LEMMA AfterBlock ==
    ASSUME NEW b \in 0 .. Last, fs[b].size \in Nat
    PROVE  LET next == b + FileBlocks(fs[b].size)
           IN  next \in Nat /\ next >= b + 1 /\ After(b * Block) = (next * Block) % AddrSpace
  <1> DEFINE n == fs[b].size
             q == n \div Block
             r == n % Block
             pad == IF n % Block = 0 THEN 0 ELSE Block - (n % Block)
             more == IF n % Block = 0 THEN 0 ELSE 1
             a == b * Block
  <1>1. BlockAt(a) = fs[b]
    <2>1. 0 \in 0 .. Block - 1 /\ a + 0 = a
      BY Constants
    <2> QED BY <2>1, AtBlock
  <1>0. n \in Nat /\ b \in Nat
    BY Constants
  <1>2. n = Block * q + r /\ q \in Nat /\ r \in 0 .. Block - 1
    BY Constants, DivMod
  <1>3. n + pad = (q + more) * Block
    <2>1. CASE r = 0
      <3>1. pad = 0 /\ more = 0
        BY <2>1
      <3> HIDE DEF n, q, r, pad, more
      <3> QED BY <1>2, <2>1, <3>1, Constants
    <2>2. CASE r # 0
      <3>1. pad = Block - r /\ more = 1
        BY <2>2
      <3> HIDE DEF n, q, r, pad, more
      <3> QED BY <1>2, <2>2, <3>1, Constants
    <2> QED BY <2>1, <2>2
  <1>4. FileBlocks(n) = 1 + q + more
    BY DEF FileBlocks
  <1>5. more \in Nat /\ pad \in Nat
    BY <1>2, Constants
  <1>6. After(a) = (a + Block + n + pad) % AddrSpace
    BY <1>1 DEF After
  <1> DEFINE c == b + FileBlocks(n)
  <1>7. c = b + 1 + q + more /\ c \in Nat /\ c >= b + 1
    <2> HIDE DEF n, q, more
    <2> QED BY <1>0, <1>2, <1>4, <1>5, Constants
  <1>8. a + Block + n + pad = c * Block
    <2>1. a + Block + n + pad = b * Block + Block + (q + more) * Block
      <3> HIDE DEF n, q, more, pad
      <3>1. b * Block \in Int /\ (q + more) * Block \in Int
        BY <1>2, <1>5, Constants
      <3> QED BY <1>0, <1>3, <1>5, <3>1, Constants
    <2> HIDE DEF n, q, more, c
    <2> QED BY <1>2, <1>5, <1>7, <2>1, Constants
  <1> QED BY <1>6, <1>7, <1>8

\* The walks stop before the last block.
LEMMA HeaderBlock ==
    ASSUME NEW b \in Spots
    PROVE  /\ b \in 0 .. Last => BlockAt(b * Block) = fs[b]
           /\ IsHeader(b * Block) <=> b < Last /\ IsFile(fs[b])
  <1>0. b \in Nat /\ Last \in Nat
    BY SpotsThere, Constants
  <1>1. b \in 0 .. Last => BlockAt(b * Block) = fs[b]
    <2>1. 0 \in 0 .. Block - 1 /\ b * Block + 0 = b * Block
      BY <1>0, Constants
    <2> QED BY <2>1, AtBlock
  <1>2. InRange(b * Block) <=> b < Last
    <2>1. b < Last => b * Block + Block <= Last * Block
      BY <1>0, TimesBlock
    <2>2. Last <= b => Last * Block <= b * Block
      BY <1>0, TimesBlock
    <2>3. b * Block \in Nat /\ Last * Block \in Nat
      BY <1>0, TimesBlock
    <2> QED BY <1>0, <2>1, <2>2, <2>3, BlockSpace, Constants DEF InRange
  <1> QED BY <1>0, <1>1, <1>2 DEF IsHeader, IsFile

\* A header is on the chip, and the walk goes on at some block behind it, or comes
\* round to one.
LEMMA NextBlock ==
    ASSUME FsInv, NEW b \in Spots, IsHeader(b * Block)
    PROVE  /\ b \in 0 .. Last /\ b < Last /\ IsFile(fs[b]) /\ BlockAt(b * Block) = fs[b]
           /\ \E c \in Spots :
                 /\ After(b * Block) = c * Block
                 /\ b + FileBlocks(fs[b].size) \in Spots => c = b + FileBlocks(fs[b].size)
  <1>1. b \in 0 .. Last /\ b < Last /\ IsFile(fs[b])
    BY HeaderBlock, SpotsThere, Constants
  <1>2. BlockAt(b * Block) = fs[b] /\ fs[b].size \in Nat
    BY <1>1, HeaderBlock DEF FsInv, ChipContents
  <1> DEFINE next == b + FileBlocks(fs[b].size)
  <1>3. next \in Nat /\ After(b * Block) = (next * Block) % AddrSpace
    BY <1>1, <1>2, AfterBlock
  <1> HIDE DEF next
  <1>4. /\ next % (2 * MemBlocks) \in Spots
        /\ (next * Block) % AddrSpace = (next % (2 * MemBlocks)) * Block
        /\ next \in Spots => next % (2 * MemBlocks) = next
    BY <1>3, SpotOf
  <1> QED BY <1>1, <1>2, <1>3, <1>4 DEF next

-----------------------------------------------------------------------------
(* The image and the walks through it.                                     *)

\* What a block of the chip may hold.
Fine(c) ==
    /\ c \in ChipContents
    /\ c.kind = "elf" => c.name \in DOMAIN Programs
    /\ IsFile(c) => c.name \in Names \cup {Garbage}

\* So may a block written in part.
LEMMA HalfFine ==
    ASSUME NEW old, Fine(old), NEW new, Fine(new), NEW c \in HalfWritten(old, new)
    PROVE  Fine(c)
  <1>1. Fine(Mixed)
    BY DEF Fine, Mixed, Contents, ChipContents, IsFile
  <1>2. ASSUME NEW name \in Names \cup {Garbage}, NEW size \in Nat
        PROVE  Fine(Contents("ustar", name, size))
    BY DEF Fine, Contents, ChipContents, IsFile
  <1>3. NameIn(old) \in Names \cup {Garbage} /\ NameIn(new) \in Names \cup {Garbage}
    BY DEF NameIn, Fine
  <1>4. old.size \in Nat /\ new.size \in Nat /\ DamagedSizes \subseteq Nat
    BY ShellAssumption DEF Fine, ChipContents
  <1>5. CASE c \in MixedHeaders(old, new)
    <2>1. PICK name \in {NameIn(old), NameIn(new)} \cup {Garbage},
               size \in {old.size, new.size} \cup DamagedSizes : c = Contents("ustar", name, size)
      BY <1>5 DEF MixedHeaders
    <2>2. name \in Names \cup {Garbage} /\ size \in Nat
      BY <1>3, <1>4, <2>1
    <2> QED BY <1>2, <2>1, <2>2
  <1> QED BY <1>1, <1>5 DEF HalfWritten

\* The blocks that transfers leave are as they should be, in their places or not.
LEMMA WrittenFine ==
    ASSUME FsInv, NEW img \in Images, NEW slip \in Slips, NEW n \in 0 .. Len(img),
           Sent(slip, n) <= Len(img) + 1
    PROVE  /\ Written(img, slip, n) = [b \in 0 .. Last |-> IF b < n THEN img[Sent(slip, b)] ELSE fs[b]]
           /\ \A b \in 0 .. Last : Fine(Written(img, slip, n)[b]) /\ Fine(fs[b])
           /\ img \in Seq(BlockContents) /\ Len(img) \in 0 .. MemBlocks
           /\ \A i \in 1 .. Len(img) : Fine(img[i])
  <1>1. TarImage(img) /\ slip[1] \in Nat /\ slip[2] \in Nat /\ Garbage \notin Names
    BY ShellAssumption
  <1>2. img \in Seq(BlockContents) /\ Len(img) \in 0 .. MemBlocks /\ Last = MemBlocks - 1
        /\ MemBlocks \in Nat
    BY <1>1, Constants DEF TarImage, Last
  <1>3. ASSUME NEW i \in 1 .. Len(img)
        PROVE  Fine(img[i])
    <2>1. i \in DOMAIN img /\ img[i] \in BlockContents
      BY <1>2
    <2>2. /\ img[i].kind = "elf" => img[i].name \in DOMAIN Programs
          /\ IsFile(img[i]) => img[i].name \in Names
      BY <1>1, <2>1 DEF TarImage
    <2>3. BlockContents \subseteq ChipContents
      BY DEF BlockContents, ChipContents
    <2> QED BY <2>1, <2>2, <2>3 DEF Fine
  <1>4. Written(img, slip, n) = [b \in 0 .. Last |-> IF b < n THEN img[Sent(slip, b)] ELSE fs[b]]
    BY <1>2 DEF Written
  <1>5. \A b \in 0 .. Last : Fine(fs[b])
    BY DEF FsInv, Fine
  <1>6. \A b \in 0 .. Last : b < n => Sent(slip, b) \in 1 .. Len(img)
    BY <1>1, <1>2 DEF Sent
  <1>7. ASSUME NEW b \in 0 .. Last
        PROVE  Fine(Written(img, slip, n)[b])
    BY <1>3, <1>4, <1>5, <1>6
  <1> QED BY <1>2, <1>3, <1>4, <1>5, <1>7

LEMMA FlashStep ==
    ASSUME FsInv, Flashes
    PROVE  FsInv'
  <1>1. PICK img, slip, n :
           /\ img \in Images /\ slip \in Slips /\ n \in 0 .. Len(img)
           /\ Flash(img, slip, n) \/ FlashBroken(img, slip, n)
    BY DEF Flashes
  <1>2. /\ slip[1] \in Nat /\ slip[2] \in Nat /\ Sent(slip, n) \in Nat
        /\ Sent(slip, n) <= Len(img) + 1
    <2>1. slip[1] \in Nat /\ slip[2] \in Nat /\ img \in Seq(BlockContents)
      BY <1>1, ShellAssumption DEF TarImage
    <2>2. Sent(slip, n) \in Nat
      BY <1>1, <2>1 DEF Sent
    <2> QED BY <1>1, <2>1, <2>2 DEF Flash, FlashBroken
  <1>3. /\ Written(img, slip, n) = [b \in 0 .. Last |-> IF b < n THEN img[Sent(slip, b)] ELSE fs[b]]
        /\ \A b \in 0 .. Last : Fine(Written(img, slip, n)[b]) /\ Fine(fs[b])
        /\ img \in Seq(BlockContents) /\ Len(img) \in 0 .. MemBlocks
        /\ \A i \in 1 .. Len(img) : Fine(img[i])
    BY <1>1, <1>2, WrittenFine
  <1>4. ASSUME \E f : fs' = [b \in 0 .. Last |-> f[b]] /\ \A b \in 0 .. Last : Fine(f[b])
        PROVE  /\ fs' \in [0 .. Last -> ChipContents]
               /\ \A b \in 0 .. Last :
                     /\ fs'[b].kind = "elf" => fs'[b].name \in DOMAIN Programs
                     /\ IsFile(fs'[b]) => fs'[b].name \in Names \cup {Garbage}
    BY <1>4 DEF Fine
  <1>5. CASE Flash(img, slip, n)
    <2>1. fs' = Written(img, slip, n) /\ whole' = IF n = Len(img) THEN img ELSE <<>>
      BY <1>5 DEF Flash
    <2>2. \E f : fs' = [b \in 0 .. Last |-> f[b]] /\ \A b \in 0 .. Last : Fine(f[b])
      <3>1. fs' = [b \in 0 .. Last |-> fs'[b]]
        BY <1>3, <2>1
      <3> QED BY <1>3, <2>1, <3>1
    <2>3. ASSUME NEW b \in DOMAIN (whole')
          PROVE  fs'[b - 1] = whole'[b]
      <3>1. n = Len(img) /\ whole' = img /\ (n < slip[1] \/ slip[2] = 0)
        BY <1>2, <1>3, <2>1, <2>3 DEF Sent
      <3>2. b \in 1 .. Len(img)
        BY <1>3, <2>3, <3>1
      <3>3. b - 1 \in 0 .. Last /\ b - 1 < n /\ Sent(slip, b - 1) = b
        BY <1>2, <1>3, <3>1, <3>2, Constants DEF Last, Sent
      <3> QED BY <1>3, <2>1, <3>1, <3>3
    <2> QED BY <1>1, <1>4, <2>1, <2>2, <2>3 DEF FsInv
  <1>6. CASE FlashBroken(img, slip, n)
    <2>1. PICK block \in HalfWritten(fs[n], img[Sent(slip, n)]) :
             fs' = [Written(img, slip, n) EXCEPT ![n] = block]
      BY <1>6 DEF FlashBroken
    <2>2. whole' = <<>> /\ Sent(slip, n) <= Len(img)
      BY <1>6 DEF FlashBroken
    <2>3. n \in 0 .. Last /\ Sent(slip, n) \in 1 .. Len(img)
      BY <1>1, <1>2, <1>3, <2>2, Constants DEF Last, Sent
    <2>4. Fine(block)
      BY <1>3, <2>3, HalfFine
    <2> DEFINE f == [b \in 0 .. Last |-> IF b = n THEN block ELSE Written(img, slip, n)[b]]
    <2>5. fs' = f
      BY <1>3, <2>1, <2>3
    <2>6. \A b \in 0 .. Last : Fine(f[b])
      BY <1>3, <2>4
    <2>7. fs' = [b \in 0 .. Last |-> f[b]]
      BY <2>5
    <2> HIDE DEF f
    <2>8. DOMAIN (whole') = {}
      BY <2>2
    <2> QED BY <1>4, <2>2, <2>6, <2>7, <2>8 DEF FsInv
  <1> QED BY <1>1, <1>5, <1>6

\* Only flashing changes the chip.
LEMMA FsKept ==
    ASSUME [Next]_vars
    PROVE  UNCHANGED <<fs, whole>> \/ Flashes
  <1>1. CASE UNCHANGED vars
    BY <1>1 DEF vars, image, bounds
  <1>2. CASE RunProgramElf \/ EnterShell \/ StartLoading \/ Exit \/ Down \/ Up
    BY <1>2 DEF RunProgramElf, ElfRun, EnterShell, StartLoading, Exit, Down, Up, image, bounds
  <1>3. CASE Open
    BY <1>3 DEF Open, OpenAt, ElfRun
  <1>4. CASE UserReturns \/ DisplayRuns \/ CountFile \/ PopulateFile \/ FindFile \/ CheckHeader
    BY <1>4 DEF UserReturns, DisplayRuns, CountFile, PopulateFile, FindFile, CheckHeader, image, bounds
  <1>5. CASE LoadSegment \/ ShowResult \/ BackToList
    BY <1>5 DEF LoadSegment, ShowResult, BackToList, image, bounds
  <1> QED BY <1>1, <1>2, <1>3, <1>4, <1>5 DEF Next, Kernel, Flashes

LEMMA FsNext ==
    ASSUME FsInv, [Next]_vars
    PROVE  FsInv'
  <1>1. UNCHANGED <<fs, whole>> => FsInv'
    BY DEF FsInv
  <1> QED BY <1>1, FsKept, FlashStep

\* A walk stays one while the chip is not flashed.
LEMMA WalkKept ==
    ASSUME UNCHANGED <<fs, whole>>, NEW w, NEW n, Walk(w, n)
    PROVE  Walk(w, n)'
  <1>1. \A a : IsHeader(a)' = IsHeader(a) /\ After(a)' = After(a)
    BY DEF IsHeader, After, BlockAt
  <1>2. Climbs(w, n) <=> Climbs(w, n)'
    BY DEF Climbs
  <1> QED BY <1>1, <1>2 DEF Walk

\* A walk of no steps.
LEMMA WalkBegins ==
    ASSUME FsInv
    PROVE  \E w \in [0 .. 0 -> Spots] : Walk(w, 0) /\ w[0] = 0
  <1> DEFINE w == [i \in 0 .. 0 |-> 0]
  <1>1. w \in [0 .. 0 -> Spots] /\ w[0] = 0 /\ \A i \in 0 .. 0 : i = 0
    BY SpotsThere
  <1>2. whole # <<>> => 0 < Len(whole) /\ \A b \in DOMAIN whole : ~(b - 1 < 0)
    <2>1. whole # <<>> => whole \in Seq(BlockContents)
      BY ShellAssumption DEF FsInv, TarImage
    <2> QED BY <2>1
  <1> HIDE DEF w
  <1>3. whole # <<>> => Climbs(w, 0)
    BY <1>1, <1>2 DEF Climbs
  <1>4. Walk(w, 0)
    BY <1>1, <1>3 DEF Walk
  <1> QED BY <1>1, <1>4

\* What a complete image has from a header on.
LEMMA WholeImage ==
    ASSUME FsInv, whole # <<>>, NEW b \in 0 .. Last, b < Len(whole)
    PROVE  /\ whole \in Seq(BlockContents) /\ Len(whole) \in 0 .. MemBlocks /\ fs[b] = whole[b + 1]
           /\ IsFile(fs[b]) =>
                 LET next == b + FileBlocks(fs[b].size)
                 IN /\ next < Len(whole)
                    /\ \A c \in DOMAIN whole : IsFile(whole[c]) => c - 1 <= b \/ next <= c - 1
                    /\ ~IsFile(fs[next]) => \A c \in DOMAIN whole : IsFile(whole[c]) => c - 1 < next
           /\ b = 0 /\ ~IsFile(fs[b]) => \A c \in DOMAIN whole : ~IsFile(whole[c])
  <1>1. whole \in Images /\ TarImage(whole)
    BY ShellAssumption DEF FsInv
  <1>2. whole \in Seq(BlockContents) /\ Len(whole) \in 0 .. MemBlocks
    BY <1>1, Constants DEF TarImage
  <1>3. b + 1 \in DOMAIN whole /\ b \in Nat
    BY <1>2, Constants
  <1>4. fs[b] = whole[b + 1]
    <2>1. (b + 1) - 1 = b
      BY <1>3
    <2> QED BY <1>3, <2>1 DEF FsInv
  <1>5. ASSUME IsFile(fs[b])
        PROVE  LET next == b + FileBlocks(fs[b].size)
               IN /\ next < Len(whole)
                  /\ \A c \in DOMAIN whole : IsFile(whole[c]) => c - 1 <= b \/ next <= c - 1
                  /\ ~IsFile(fs[next]) => \A c \in DOMAIN whole : IsFile(whole[c]) => c - 1 < next
    <2> DEFINE s == FileBlocks(fs[b].size)
    <2>1. s \in Nat /\ s >= 1
      <3>1. whole[b + 1] \in BlockContents
        BY <1>2, <1>3
      <3>2. fs[b].size \in Nat
        BY <1>4, <3>1 DEF BlockContents
      <3> QED BY <3>2, FileBlocksPositive
    <2>2. /\ b + 1 + s <= Len(whole)
          /\ \A c \in b + 1 + 1 .. (b + 1 + s) - 1 : ~IsFile(whole[c])
          /\ ~IsFile(whole[b + 1 + s]) => \A c \in b + 1 + s .. Len(whole) : ~IsFile(whole[c])
      <3>1. GoesOnAt(whole, b + 1, b + 1 + FileBlocks(whole[b + 1].size))
        BY <1>1, <1>3, <1>4, <1>5 DEF TarImage
      <3>2. FileBlocks(whole[b + 1].size) = s
        BY <1>4
      <3> HIDE DEF s
      <3>3. GoesOnAt(whole, b + 1, b + 1 + s)
        BY <3>1, <3>2
      <3> QED BY <3>3 DEF GoesOnAt
    <2> HIDE DEF s
    <2>3. whole[b + 1 + s] = fs[b + s]
      <3>1. b + 1 + s \in DOMAIN whole /\ (b + 1 + s) - 1 = b + s
        BY <1>2, <1>3, <2>1, <2>2
      <3> QED BY <3>1 DEF FsInv
    <2>4. b + s < Len(whole)
      BY <1>2, <1>3, <2>1, <2>2
    <2>5. ASSUME NEW c \in DOMAIN whole, IsFile(whole[c])
          PROVE  /\ c - 1 <= b \/ b + s <= c - 1
                 /\ ~IsFile(fs[b + s]) => c - 1 < b + s
      <3>1. c \in 1 .. Len(whole)
        BY <1>2
      <3> QED BY <1>2, <1>3, <2>1, <2>2, <2>3, <2>5, <3>1
    <2> QED BY <2>4, <2>5 DEF s
  <1>6. b = 0 /\ ~IsFile(fs[b]) => \A c \in DOMAIN whole : ~IsFile(whole[c])
    BY <1>1, <1>4 DEF TarImage
  <1> QED BY <1>2, <1>4, <1>5, <1>6

\* A walk goes over one more file.
LEMMA WalkGoesOn ==
    ASSUME FsInv, NEW n \in Nat, NEW w, Walk(w, n), IsHeader(w[n] * Block)
    PROVE  \E v \in [0 .. n + 1 -> Spots] :
              Walk(v, n + 1) /\ v[n + 1] * Block = After(w[n] * Block)
  <1>1. /\ w \in [0 .. n -> Spots] /\ w[0] = 0 /\ w[n] \in Spots
        /\ \A i \in 0 .. n : w[i] \in Spots
    BY DEF Walk
  <1>2. w[n] \in 0 .. Last /\ IsFile(fs[w[n]])
    BY <1>1, NextBlock
  <1>3. PICK c \in Spots :
           /\ After(w[n] * Block) = c * Block
           /\ w[n] + FileBlocks(fs[w[n]].size) \in Spots => c = w[n] + FileBlocks(fs[w[n]].size)
    BY <1>1, NextBlock
  <1> DEFINE v == [i \in 0 .. n + 1 |-> IF i <= n THEN w[i] ELSE c]
  <1>4. /\ v \in [0 .. n + 1 -> Spots] /\ v[n + 1] = c
        /\ \A i \in 0 .. n : v[i] = w[i]
    BY <1>1
  <1>5. \A i \in 0 .. n : IsHeader(v[i] * Block) /\ v[i + 1] * Block = After(v[i] * Block)
    <2> TAKE i \in 0 .. n
    <2> HIDE DEF v
    <2>1. CASE i = n
      BY <1>3, <1>4, <2>1
    <2>2. CASE i # n
      <3>1. i \in 0 .. n - 1 /\ i + 1 \in 0 .. n
        BY <2>2
      <3>2. IsHeader(w[i] * Block) /\ w[i + 1] * Block = After(w[i] * Block)
        BY <3>1 DEF Walk
      <3> QED BY <1>4, <3>1, <3>2
    <2> QED BY <2>1, <2>2
  <1> HIDE DEF v
  <1>6. ASSUME whole # <<>>
        PROVE  Climbs(v, n + 1)
    <2>1. /\ \A i \in 0 .. n : w[i] < Len(whole)
          /\ \A i, j \in 0 .. n : i < j => w[i] < w[j]
          /\ \A b \in DOMAIN whole :
                IsFile(whole[b]) /\ b - 1 < w[n] => \E i \in 0 .. n - 1 : w[i] = b - 1
      BY <1>6 DEF Walk, Climbs
    <2> DEFINE next == w[n] + FileBlocks(fs[w[n]].size)
    <2>2. /\ next < Len(whole)
          /\ \A d \in DOMAIN whole : IsFile(whole[d]) => d - 1 <= w[n] \/ next <= d - 1
          /\ Len(whole) \in 0 .. MemBlocks /\ whole \in Seq(BlockContents)
      BY <1>2, <1>6, <2>1, WholeImage
    <2>3. next \in Nat /\ next >= w[n] + 1 /\ w[n] \in Nat
      <3>1. fs[w[n]].size \in Nat
        BY <1>2 DEF FsInv, ChipContents
      <3> QED BY <1>2, <3>1, AfterBlock, Constants
    <2> HIDE DEF next
    <2>4. next \in Spots
      BY <2>2, <2>3, Constants DEF Spots
    <2>5. c = next
      BY <1>3, <2>4 DEF next
    <2>6. \A i \in 0 .. n : w[i] \in Nat
      BY <1>1, SpotsThere
    <2>7. ASSUME NEW i \in 0 .. n + 1
          PROVE  v[i] < Len(whole)
      <3>1. i \in 0 .. n \/ i = n + 1
        OBVIOUS
      <3> QED BY <1>4, <2>1, <2>2, <2>5, <3>1
    <2>8. ASSUME NEW i \in 0 .. n + 1, NEW j \in 0 .. n + 1, i < j
          PROVE  v[i] < v[j]
      <3>1. i \in 0 .. n /\ (j \in 0 .. n \/ j = n + 1)
        BY <2>8
      <3>2. i = n \/ w[i] < w[n]
        BY <2>1, <3>1
      <3>3. w[i] < next
        BY <2>3, <2>6, <3>1, <3>2
      <3> QED BY <1>4, <2>1, <2>5, <2>8, <3>1, <3>3
    <2>9. ASSUME NEW b \in DOMAIN whole, IsFile(whole[b]), b - 1 < v[n + 1]
          PROVE  \E i \in 0 .. (n + 1) - 1 : v[i] = b - 1
      <3>1. b \in Int
        BY <2>2
      <3>2. b - 1 <= w[n]
        BY <1>4, <2>2, <2>3, <2>5, <2>9, <3>1
      <3>3. CASE b - 1 = w[n]
        BY <1>4, <3>3
      <3>4. CASE b - 1 < w[n]
        <4>1. PICK i \in 0 .. n - 1 : w[i] = b - 1
          BY <2>1, <2>9, <3>4
        <4> QED BY <1>4, <4>1
      <3> QED BY <2>3, <3>1, <3>2, <3>3, <3>4
    <2> QED BY <2>7, <2>8, <2>9 DEF Climbs
  <1>7. Walk(v, n + 1)
    <2>1. v[0] = 0
      BY <1>1, <1>4
    <2>2. (n + 1) - 1 = n
      OBVIOUS
    <2> QED BY <1>4, <1>5, <1>6, <2>1, <2>2 DEF Walk
  <1> QED BY <1>3, <1>4, <1>7

\* Where the walk stops it has been at every header of a complete image.
LEMMA WalkEnds ==
    ASSUME FsInv, NEW n \in Nat, NEW w, Walk(w, n), ~IsHeader(w[n] * Block), whole # <<>>,
           NEW b \in DOMAIN whole, IsFile(whole[b])
    PROVE  \E i \in 0 .. n - 1 : w[i] = b - 1
  <1>1. /\ w \in [0 .. n -> Spots] /\ w[n] \in Spots /\ w[0] = 0
        /\ \A i \in 0 .. n : w[i] < Len(whole)
        /\ \A c \in DOMAIN whole :
              IsFile(whole[c]) /\ c - 1 < w[n] => \E i \in 0 .. n - 1 : w[i] = c - 1
    BY DEF Walk, Climbs
  <1>2. whole \in Images /\ TarImage(whole)
    BY ShellAssumption DEF FsInv
  <1>3. Len(whole) \in 0 .. MemBlocks
    BY <1>2, Constants DEF TarImage
  <1>4. \A i \in 0 .. n : w[i] \in 0 .. Last
    <2>1. \A i \in 0 .. n : w[i] \in Nat
      BY <1>1, SpotsThere
    <2> QED BY <1>1, <1>3, <2>1, Constants DEF Last
  <1>5. ~IsFile(fs[w[n]])
    <2> SUFFICES ASSUME IsFile(fs[w[n]])
                 PROVE  FALSE
      OBVIOUS
    <2>1. n \in 0 .. n /\ w[n] \in 0 .. Last /\ w[n] < Len(whole)
      BY <1>1, <1>4
    <2>2. w[n] + FileBlocks(fs[w[n]].size) < Len(whole)
      BY <2>1, WholeImage
    <2>3. fs[w[n]].size \in Nat
      BY <2>1 DEF FsInv, ChipContents
    <2>4. w[n] + FileBlocks(fs[w[n]].size) \in Nat /\ w[n] + FileBlocks(fs[w[n]].size) >= w[n] + 1
      BY <2>1, <2>3, AfterBlock
    <2>5. w[n] < Last
      BY <1>3, <2>1, <2>2, <2>4, Constants DEF Last
    <2> QED BY <1>1, <2>5, HeaderBlock
  <1>6. n # 0
    BY <1>1, <1>4, <1>5, WholeImage
  <1>7. n - 1 \in 0 .. n - 1 /\ (n - 1) + 1 = n /\ n - 1 \in 0 .. n
    BY <1>6
  <1>8. IsHeader(w[n - 1] * Block) /\ w[n] * Block = After(w[n - 1] * Block)
    <2>1. IsHeader(w[n - 1] * Block) /\ w[(n - 1) + 1] * Block = After(w[n - 1] * Block)
      BY <1>7 DEF Walk
    <2> QED BY <1>7, <2>1
  <1> DEFINE next == w[n - 1] + FileBlocks(fs[w[n - 1]].size)
  <1>9. w[n - 1] \in 0 .. Last /\ w[n - 1] \in Spots /\ w[n - 1] < Len(whole) /\ IsFile(fs[w[n - 1]])
    <2>1. w[n - 1] \in Spots
      BY <1>1, <1>7
    <2> QED BY <1>1, <1>4, <1>7, <1>8, <2>1, NextBlock
  <1>10. next < Len(whole) /\ (~IsFile(fs[next]) => \A c \in DOMAIN whole : IsFile(whole[c]) => c - 1 < next)
    BY <1>9, WholeImage
  <1>11. next \in Spots
    <2>1. fs[w[n - 1]].size \in Nat
      BY <1>9 DEF FsInv, ChipContents
    <2>2. next \in Nat
      BY <1>9, <2>1, AfterBlock
    <2> HIDE DEF next
    <2> QED BY <1>3, <1>10, <2>2, Constants DEF Spots
  <1>12. next = w[n]
    <2>1. PICK c \in Spots : After(w[n - 1] * Block) = c * Block /\ (next \in Spots => c = next)
      BY <1>8, <1>9, NextBlock
    <2>2. w[n] * Block = next * Block
      BY <1>8, <1>11, <2>1
    <2>3. w[n] \in Nat /\ next \in Nat
      BY <1>1, <1>11, SpotsThere
    <2> HIDE DEF next
    <2> QED BY <2>2, <2>3, TimesBlock
  <1>13. b - 1 < w[n]
    BY <1>5, <1>10, <1>12
  <1> QED BY <1>1, <1>13

-----------------------------------------------------------------------------
(* The list.                                                               *)

\* An action moves within the shell, stays out of it, counts or fills.
LEMMA Moves ==
    ASSUME [Next]_vars, pc' \notin Gone
    PROVE  \/ InShell /\ InShell' /\ UNCHANGED <<list, count>>
           \/ /\ ~InShell /\ ~InShell' /\ {pc, pc'} \cap {"count", "populate"} = {}
              /\ UNCHANGED <<list, count, first, selected>>
           \/ UNCHANGED <<pc, home, at, list, count, first, selected>>
           \/ StartLoading \/ CountFile \/ PopulateFile \/ Exit
  <1>1. CASE UNCHANGED vars \/ DisplayRuns
    BY <1>1 DEF DisplayRuns, vars, image, shell, call
  <1>2. CASE Flashes
    BY <1>2, FlashesInMenu DEF At, shell, call, InShell
  <1>3. CASE RunProgramElf \/ EnterShell
    BY <1>3 DEF RunProgramElf, EnterShell, ElfRun, At, shell, InShell
  <1>4. CASE Down \/ Up
    BY <1>4 DEF Down, Up, At, InShell, Redraw, Gone
  <1>5. CASE Open
    <2>1. PICK a : pc = "poll" /\ OpenAt(a)
      BY <1>5 DEF Open, At
    <2> QED BY <2>1 DEF OpenAt, ElfRun, shell, InShell
  <1>6. CASE FindFile \/ CheckHeader \/ LoadSegment \/ UserReturns
    <2>1. /\ pc \in {"find", "check", "load", "user"} /\ UNCHANGED <<list, count, first, selected, home>>
          /\ \/ pc' \in {"find", "check", "load", "user"}
             \/ pc' = IF home = "shell" THEN "result" ELSE "menu"
      BY <1>6 DEF FindFile, CheckHeader, LoadSegment, UserReturns, At, Return, shell, call, Gone
    <2> QED BY <2>1 DEF InShell
  <1>7. CASE ShowResult \/ BackToList
    BY <1>7 DEF ShowResult, BackToList, At, shell, InShell, Redraw, Gone
  <1> QED BY <1>1, <1>2, <1>3, <1>4, <1>5, <1>6, <1>7 DEF Next, Kernel, Flashes

\* Nothing of the list outside the shell.
LEMMA NoList ==
    ASSUME ~InShell', pc' \notin {"count", "populate"}, list' = <<>>, count' = 0
    PROVE  ListInv'
  BY Constants DEF ListInv

\* The list is not disturbed by the buttons and the programs.
LEMMA ListStays ==
    ASSUME ListInv, UNCHANGED <<fs, whole, list, count>>,
           \/ InShell /\ InShell'
           \/ UNCHANGED <<pc, home, at>>
    PROVE  ListInv'
  <1>0. /\ \A w, n : Walk(w, n) => Walk(w, n)'
        /\ \A a : IsHeader(a)' = IsHeader(a)
        /\ \A w : Listed(w) => Listed(w)'
    BY WalkKept DEF IsHeader, BlockAt, Listed
  <1>1. CASE InShell /\ InShell'
    <2>1. PICK w \in [0 .. count -> Spots] :
             Walk(w, count) /\ ~IsHeader(w[count] * Block) /\ Listed(w) /\ Len(list) = count
      BY <1>1 DEF ListInv
    <2>2. Walk(w, count)' /\ ~IsHeader(w[count] * Block)' /\ Listed(w)' /\ w \in [0 .. count' -> Spots]
      BY <1>0, <2>1
    <2>3. pc' \notin {"count", "populate"}
      BY <1>1 DEF InShell
    <2>4. count' \in 0 .. MemBlocks /\ Len(list') \in 0 .. count' /\ Len(list') = count'
      BY <2>1 DEF ListInv
    <2> QED BY <1>1, <2>2, <2>3, <2>4 DEF ListInv
  <1>2. CASE UNCHANGED <<pc, home, at>>
    <2>1. InShell' <=> InShell
      BY <1>2 DEF InShell
    <2>2. CASE pc = "count"
      <3>1. PICK w \in [0 .. count -> Spots] : Walk(w, count) /\ at = w[count] * Block
        BY <2>2 DEF ListInv
      <3>2. w \in [0 .. count' -> Spots] /\ Walk(w, count)' /\ at' = w[count'] * Block
        BY <1>0, <1>2, <3>1
      <3>3. ~InShell' /\ pc' = "count"
        BY <1>2, <2>1, <2>2 DEF InShell
      <3>4. count' \in 0 .. MemBlocks /\ Len(list') \in 0 .. count' /\ list' = <<>>
        BY <2>1, <2>2, <3>3 DEF ListInv
      <3> QED BY <3>2, <3>3, <3>4 DEF ListInv
    <2>3. CASE InShell \/ pc = "populate"
      <3>1. PICK w \in [0 .. count -> Spots] :
               /\ Walk(w, count) /\ ~IsHeader(w[count] * Block) /\ Listed(w)
               /\ IF InShell THEN Len(list) = count ELSE at = w[Len(list)] * Block
        BY <2>3 DEF ListInv
      <3>2. /\ Walk(w, count)' /\ ~IsHeader(w[count] * Block)' /\ Listed(w)'
            /\ w \in [0 .. count' -> Spots]
            /\ IF InShell' THEN Len(list') = count' ELSE at' = w[Len(list')] * Block
        BY <1>0, <1>2, <2>1, <3>1
      <3>3. pc' # "count" /\ count' \in 0 .. MemBlocks /\ Len(list') \in 0 .. count'
            /\ (~InShell' /\ pc' # "populate" => list' = <<>>)
            /\ (~InShell' /\ pc' \notin {"count", "populate"} => count' = 0)
        BY <1>2, <2>1, <2>3 DEF ListInv, InShell
      <3> QED BY <3>2, <3>3 DEF ListInv
    <2>4. CASE pc # "count" /\ ~(InShell \/ pc = "populate")
      BY <1>2, <2>1, <2>4 DEF ListInv
    <2> QED BY <2>2, <2>3, <2>4
  <1> QED BY <1>1, <1>2

\* get_file_count takes a header, or has been at all of them.
LEMMA CountStep ==
    ASSUME FsInv, ListInv, CountFile, pc' \notin Gone
    PROVE  ListInv'
  <1>1. /\ pc = "count" /\ ~InShell /\ list = <<>> /\ count \in 0 .. MemBlocks
        /\ UNCHANGED <<fs, whole, home>>
        /\ pc' \in {"count", "populate"} /\ ~InShell' /\ list' = <<>>
    <2>1. pc = "count" /\ pc' \in {"count", "populate"} /\ UNCHANGED <<fs, whole, home>>
      BY DEF CountFile, At, bounds, call, Gone
    <2>2. ~InShell /\ ~InShell'
      BY <2>1 DEF InShell
    <2>3. list = <<>> /\ list' = <<>>
      BY <2>1, <2>2 DEF ListInv, CountFile
    <2>4. count \in 0 .. MemBlocks
      BY DEF ListInv
    <2> QED BY <2>1, <2>2, <2>3, <2>4
  <1>2. PICK w \in [0 .. count -> Spots] : Walk(w, count) /\ at = w[count] * Block
    BY <1>1 DEF ListInv
  <1>3. CASE IsHeader(at)
    <2>1. pc' = "count" /\ count < MemBlocks /\ count' = count + 1 /\ at' = After(at)
      BY <1>1, <1>3 DEF CountFile, Gone
    <2>2. PICK n \in Nat : n = count
      BY <1>1
    <2>3. PICK v \in [0 .. n + 1 -> Spots] :
             Walk(v, n + 1) /\ v[n + 1] * Block = After(w[n] * Block)
      BY <1>2, <1>3, <2>2, WalkGoesOn
    <2>4. PICK m \in Nat : m = n + 1
      OBVIOUS
    <2>5. Walk(v, m)
      BY <2>3, <2>4
    <2>6. Walk(v, m)'
      BY <1>1, <2>5, WalkKept
    <2>7. count' = m
      BY <2>1, <2>2, <2>4
    <2>8. v \in [0 .. count' -> Spots] /\ Walk(v, count)' /\ at' = v[count'] * Block
      BY <1>2, <2>1, <2>2, <2>3, <2>4, <2>6, <2>7
    <2>9. Len(list') \in 0 .. count' /\ count' \in 0 .. MemBlocks
      BY <1>1, <2>1, Constants
    <2> QED BY <1>1, <2>1, <2>8, <2>9 DEF ListInv
  <1>4. CASE ~IsHeader(at)
    <2>1. pc' = "populate" /\ count' = count /\ at' = 0 /\ list' = <<>>
      BY <1>1, <1>4 DEF CountFile
    <2>2. ~IsHeader(w[count] * Block)'
      BY <1>1, <1>2, <1>4 DEF IsHeader, BlockAt
    <2>3. Walk(w, count)'
      <3>1. PICK n : n = count
        OBVIOUS
      <3>2. Walk(w, n)'
        BY <1>1, <1>2, <3>1, WalkKept
      <3> QED BY <2>1, <3>1, <3>2
    <2>4. w[0] * Block = 0 /\ Len(list') = 0
      BY <1>2, <2>1, Constants DEF Walk
    <2>5. Listed(w)'
      BY <2>1 DEF Listed
    <2>6. w \in [0 .. count' -> Spots] /\ ~IsHeader(w[count] * Block)' /\ at' = w[Len(list')] * Block
      BY <1>2, <2>1, <2>2, <2>4
    <2> QED BY <1>1, <2>1, <2>3, <2>4, <2>5, <2>6 DEF ListInv
  <1> QED BY <1>3, <1>4

\* populate_filelist takes the header that was counted, or ends with the count.
LEMMA FillStep ==
    ASSUME FsInv, ListInv, PopulateFile, pc' \notin Gone
    PROVE  ListInv'
  <1>1. /\ pc = "populate" /\ ~InShell /\ count \in Nat /\ count \in 0 .. MemBlocks
        /\ Len(list) \in 0 .. count /\ UNCHANGED <<fs, whole, home, count>>
    BY Constants DEF PopulateFile, At, bounds, call, InShell, ListInv
  <1> DEFINE n == Len(list)
  <1>2. PICK w \in [0 .. count -> Spots] :
           /\ Walk(w, count) /\ ~IsHeader(w[count] * Block) /\ Listed(w)
           /\ at = w[n] * Block
    BY <1>1 DEF ListInv
  <1>3. w[n] \in Spots
    BY <1>1, <1>2
  <1>4. Walk(w, count)' /\ ~IsHeader(w[count] * Block)' /\ w \in [0 .. count' -> Spots]
    <2>1. PICK m : m = count
      OBVIOUS
    <2>2. Walk(w, m)'
      BY <1>1, <1>2, <2>1, WalkKept
    <2>3. ~IsHeader(w[count] * Block)'
      BY <1>1, <1>2 DEF IsHeader, BlockAt
    <2> QED BY <1>1, <1>2, <2>1, <2>2, <2>3
  <1>5. CASE IsHeader(at)
    <2> DEFINE Made(k) == [addr |-> w[k - 1] * Block, name |-> fs[w[k - 1]].name]
               S == {Made(k) : k \in Nat}
    <2>1. /\ pc' = "populate" /\ ~InShell' /\ at' = After(at)
          /\ list' = Append(list, [addr |-> at, name |-> BlockAt(at).name])
      BY <1>1, <1>5 DEF PopulateFile, InShell
    <2>2. IsFile(fs[w[n]]) /\ BlockAt(at) = fs[w[n]]
      BY <1>2, <1>3, <1>5, NextBlock
    <2>3. n \in 0 .. count - 1
      BY <1>1, <1>2, <1>5
    <2>4. at' = w[n + 1] * Block
      <3>1. w[n + 1] * Block = After(w[n] * Block)
        BY <1>2, <2>3 DEF Walk
      <3> QED BY <1>2, <2>1, <3>1
    <2>5. list' = Append(list, Made(n + 1))
      <3>1. (n + 1) - 1 = n
        BY <1>1
      <3> QED BY <1>2, <2>1, <2>2, <3>1
    <2>6. list = [k \in 1 .. n |-> Made(k)]
      BY <1>2 DEF Listed
    <2>7. Made(n + 1) \in S /\ \A k \in 1 .. n : Made(k) \in S
      <3>1. \A k \in Nat : Made(k) \in S
        OBVIOUS
      <3>2. n + 1 \in Nat /\ \A k \in 1 .. n : k \in Nat
        BY <1>1
      <3> HIDE DEF Made, S
      <3> QED BY <3>1, <3>2
    <2>8. list \in Seq(S)
      <3> HIDE DEF Made, S
      <3> QED BY <1>1, <2>6, <2>7
    <2>9. /\ list' \in Seq(S) /\ Len(list') = n + 1 /\ list'[n + 1] = Made(n + 1)
          /\ \A k \in 1 .. n : list'[k] = list[k]
      <3> HIDE DEF Made, S
      <3> QED BY <2>5, <2>7, <2>8, AppendProperties
    <2>10. list' = [k \in 1 .. n + 1 |-> Made(k)]
      <3> HIDE DEF Made, S
      <3>1. \A k \in 1 .. n + 1 : list'[k] = Made(k)
        BY <1>1, <2>6, <2>9
      <3>2. list' = [k \in 1 .. n + 1 |-> list'[k]]
        BY <1>1, <2>9
      <3> QED BY <3>1, <3>2
    <2>11. Listed(w)'
      BY <1>1, <2>9, <2>10 DEF Listed
    <2>12. Len(list') \in 0 .. count' /\ count' \in 0 .. MemBlocks /\ at' = w[Len(list')] * Block
      BY <1>1, <2>3, <2>4, <2>9
    <2> HIDE DEF Made, S, n
    <2> QED BY <1>1, <1>4, <2>1, <2>11, <2>12 DEF ListInv
  <1>6. CASE ~IsHeader(at)
    <2>1. pc' = "poll" /\ InShell' /\ list' = list
      BY <1>1, <1>6 DEF PopulateFile, InShell, Redraw, Gone
    <2>2. Listed(w)'
      BY <1>1, <1>2, <2>1 DEF Listed
    <2>3. n = count
      <3>1. ~IsHeader(w[n] * Block)
        BY <1>2, <1>6
      <3>2. n # count => n \in 0 .. count - 1
        BY <1>1
      <3>3. n \in 0 .. count - 1 => IsHeader(w[n] * Block)
        BY <1>2 DEF Walk
      <3> QED BY <3>1, <3>2, <3>3
    <2> QED BY <1>1, <1>4, <2>1, <2>2, <2>3 DEF ListInv
  <1> QED BY <1>5, <1>6

\* The list's part of the invariant in every step.
LEMMA ListNext ==
    ASSUME FsInv, ListInv, [Next]_vars, pc' \notin Gone
    PROVE  ListInv'
  <1>1. CASE InShell /\ InShell' /\ UNCHANGED <<list, count>>
    <2>1. UNCHANGED <<fs, whole>>
      <3>1. ~Flashes
        BY <1>1, FlashesInMenu DEF At, InShell
      <3> QED BY <3>1, FsKept
    <2> QED BY <1>1, <2>1, ListStays
  <1>2. CASE /\ ~InShell /\ ~InShell' /\ {pc, pc'} \cap {"count", "populate"} = {}
             /\ UNCHANGED <<list, count>>
    <2>1. list' = <<>> /\ count' = 0
      BY <1>2 DEF ListInv
    <2> QED BY <1>2, <2>1, NoList
  <1>3. CASE UNCHANGED <<pc, home, at, list, count>>
    <2>1. CASE UNCHANGED <<fs, whole>>
      BY <1>3, <2>1, ListStays
    <2>2. CASE Flashes
      <3>1. pc = "menu" /\ pc' = "menu"
        BY <2>2, FlashesInMenu DEF At
      <3>2. ~InShell /\ ~InShell'
        BY <3>1 DEF InShell
      <3>3. list' = <<>> /\ count' = 0
        BY <1>3, <3>1, <3>2 DEF ListInv
      <3> QED BY <3>1, <3>2, <3>3, NoList
    <2> QED BY <2>1, <2>2, FsKept
  <1>4. CASE StartLoading
    <2>1. pc = "intro" /\ pc' = "count" /\ count' = 0 /\ at' = 0 /\ UNCHANGED <<fs, whole, list>>
      BY <1>4 DEF StartLoading, At, bounds
    <2>2. ~InShell /\ ~InShell'
      BY <2>1 DEF InShell
    <2>3. list' = <<>>
      BY <2>1, <2>2 DEF ListInv
    <2>4. PICK w \in [0 .. 0 -> Spots] : Walk(w, 0) /\ w[0] = 0
      BY WalkBegins
    <2>5. Walk(w, 0)'
      BY <2>1, <2>4, WalkKept
    <2>6. w \in [0 .. count' -> Spots] /\ Walk(w, count)' /\ at' = w[count'] * Block
      BY <2>1, <2>4, <2>5, Constants DEF Walk
    <2>7. Len(list') = 0
      BY <2>3
    <2> QED BY <2>1, <2>2, <2>3, <2>6, <2>7, Constants DEF ListInv
  <1>5. CASE Exit
    <2>1. pc' = "menu" /\ list' = <<>> /\ count' = 0
      BY <1>5 DEF Exit
    <2> QED BY <2>1, NoList DEF InShell
  <1> QED BY <1>1, <1>2, <1>3, <1>4, <1>5, CountStep, FillStep, Moves

\* The window moves with the selection.
LEMMA WindowNext ==
    ASSUME ListInv, Window, [Next]_vars, pc' \notin Gone
    PROVE  Window'
  <1>0. count \in Nat /\ first \in Nat /\ selected \in Nat
    BY Constants DEF ListInv, Window
  <1>1. CASE UNCHANGED <<pc, home, count, first, selected>>
    BY <1>1 DEF Window, InShell
  <1>2. CASE ~InShell /\ ~InShell' /\ UNCHANGED <<count, first, selected>>
    BY <1>2 DEF Window
  <1>3. CASE StartLoading \/ CountFile
    <2>1. pc \in {"intro", "count"} /\ UNCHANGED <<first, selected>>
      BY <1>3 DEF StartLoading, CountFile, At
    <2>2. first' = 0 /\ selected' = 0
      BY <2>1 DEF Window, InShell
    <2>3. count' \in Nat
      BY <1>0, <1>3 DEF StartLoading, CountFile
    <2> QED BY <2>2, <2>3 DEF Window, FILE_ENTRY_COUNT
  <1>4. CASE PopulateFile
    <2>1. pc = "populate" /\ count' = count
      BY <1>4 DEF PopulateFile, At
    <2>2. first = 0 /\ selected = 0
      BY <2>1 DEF Window, InShell
    <2>3. first' = 0 /\ selected' = 0
      BY <1>4, <2>2 DEF PopulateFile
    <2> QED BY <1>0, <2>1, <2>3 DEF Window, FILE_ENTRY_COUNT
  <1>5. CASE Exit
    BY <1>5 DEF Exit, Window, FILE_ENTRY_COUNT
  <1>6. CASE InShell /\ InShell' /\ UNCHANGED <<list, count>>
    <2>1. CASE UNCHANGED <<first, selected>>
      BY <1>6, <2>1 DEF Window
    <2>2. CASE Down
      <3>1. /\ first' \in Nat /\ selected' \in Nat
            /\ first' <= selected' /\ selected' < first' + 3 /\ selected' < count
            /\ count >= 3 => first' + 3 <= count
        BY <1>0, <2>2 DEF Window, Down, FILE_ENTRY_COUNT
      <3> QED BY <1>6, <3>1 DEF Window, FILE_ENTRY_COUNT
    <2>3. CASE Up
      <3>1. /\ first' \in Nat /\ selected' \in Nat
            /\ first' <= selected' /\ selected' < first' + 3
            /\ count > 0 => selected' < count
            /\ count >= 3 => first' + 3 <= count
        BY <1>0, <2>3 DEF Window, Up, FILE_ENTRY_COUNT
      <3> QED BY <1>6, <3>1 DEF Window, FILE_ENTRY_COUNT
    <2>4. Down \/ Up \/ UNCHANGED <<first, selected>> \/ StartLoading \/ CountFile \/ PopulateFile \/ Exit
      <3>1. CASE Open
        <4>1. PICK a : OpenAt(a)
          BY <3>1 DEF Open
        <4> QED BY <4>1 DEF OpenAt, shell
      <3>2. CASE RunProgramElf \/ EnterShell \/ UserReturns \/ DisplayRuns
        BY <3>2 DEF RunProgramElf, EnterShell, UserReturns, DisplayRuns, shell
      <3>3. CASE FindFile \/ CheckHeader \/ LoadSegment \/ ShowResult \/ BackToList \/ UNCHANGED vars
        BY <3>3 DEF FindFile, CheckHeader, LoadSegment, ShowResult, BackToList, shell, vars
      <3>4. CASE Flashes
        BY <3>4, FlashesInMenu DEF shell
      <3> QED BY <3>1, <3>2, <3>3, <3>4 DEF Next, Kernel, Flashes
    <2> QED BY <1>3, <1>4, <1>5, <2>1, <2>2, <2>3, <2>4
  <1> QED BY <1>1, <1>2, <1>3, <1>4, <1>5, <1>6, Moves

-----------------------------------------------------------------------------
(* Running a program.                                                      *)

\* Every address is in some block.
LEMMA InSomeBlock ==
    ASSUME NEW a \in Nat
    PROVE  \E b \in 0 .. Last : BlockAt(a) = fs[b]
  <1>1. MemSize \in Nat \ {0} /\ Block \in Nat \ {0} /\ Last \in Nat
    BY BlockSpace, Constants
  <1> DEFINE r == a % MemSize
             b == r \div Block
  <1>2. r \in 0 .. MemSize - 1
    BY <1>1, DivMod
  <1>3. b \in Nat /\ Block * b <= r
    <2>1. r = Block * (r \div Block) + (r % Block) /\ r \div Block \in Nat /\ r % Block \in 0 .. Block - 1
      <3>1. r \in Nat
        <4> HIDE DEF r
        <4> QED BY <1>1, <1>2
      <3> HIDE DEF r, b
      <3> QED BY <1>1, <3>1, DivMod
    <2> HIDE DEF r
    <2>2. Block * b \in Nat
      BY <1>1, <2>1
    <2> QED BY <1>1, <1>2, <2>1, <2>2
  <1>4. ~(Last < b)
    <2> HIDE DEF b, r
    <2>1. Last < b => Last * Block + Block <= b * Block
      BY <1>1, <1>3, TimesBlock
    <2>2. b * Block = Block * b /\ b * Block \in Nat /\ Last * Block \in Nat
      BY <1>1, <1>3
    <2> QED BY <1>1, <1>2, <1>3, <2>1, <2>2, BlockSpace
  <1>5. b \in 0 .. Last /\ BlockAt(a) = fs[b]
    <2>1. BlockAt(a) = fs[b]
      BY DEF BlockAt
    <2> HIDE DEF b
    <2> QED BY <1>1, <1>3, <1>4, <2>1
  <1> QED BY <1>5

\* A file begins in the block behind its header.
LEMMA FileBase ==
    ASSUME NEW b \in 0 .. Last, b < Last
    PROVE  b + 1 \in 0 .. Last /\ (b * Block + Block) % AddrSpace = (b + 1) * Block
  <1>1. b + 1 \in 0 .. Last /\ b \in Nat
    BY Constants
  <1>2. (b + 1) * Block = b * Block + Block
    BY <1>1, Constants
  <1>3. (b + 1) * Block + 0 \in 0 .. MemSize - 1
    <2>1. 0 \in 0 .. Block - 1
      BY Constants
    <2> HIDE DEF Last
    <2> DEFINE c == b + 1
    <2>2. c \in 0 .. Last
      BY <1>1
    <2> HIDE DEF c
    <2>3. c * Block + 0 \in 0 .. MemSize - 1
      BY <2>1, <2>2, AtBlock
    <2> QED BY <2>3 DEF c
  <1>4. (b + 1) * Block \in 0 .. AddrSpace - 1
    <2>1. (b + 1) * Block \in Int
      BY <1>1, Constants
    <2> QED BY <1>3, <2>1, BlockSpace
  <1>5. ((b + 1) * Block) % AddrSpace = (b + 1) * Block
    BY <1>4, BlockSpace, ModSmall
  <1> QED BY <1>1, <1>2, <1>5

\* The entries of the list are headers, each where the walk over the one before leads.
LEMMA ListedAt ==
    ASSUME FsInv, ListInv, InShell, NEW i \in 1 .. Len(list)
    PROVE  \E b \in 0 .. Last :
              /\ IsHeader(b * Block) /\ b < Last /\ IsFile(fs[b]) /\ BlockAt(b * Block) = fs[b]
              /\ list[i] = [addr |-> b * Block, name |-> fs[b].name]
              /\ i < Len(list) => list[i + 1].addr = After(b * Block)
  <1>1. PICK w \in [0 .. count -> Spots] :
           Walk(w, count) /\ Listed(w) /\ Len(list) = count
    BY DEF ListInv
  <1>2. count \in Nat /\ i - 1 \in 0 .. count - 1 /\ (i - 1) + 1 = i
    BY <1>1, Constants DEF ListInv
  <1>3. IsHeader(w[i - 1] * Block) /\ w[i] * Block = After(w[i - 1] * Block)
    BY <1>1, <1>2 DEF Walk
  <1>4. list[i] = [addr |-> w[i - 1] * Block, name |-> fs[w[i - 1]].name]
    BY <1>1 DEF Listed
  <1>5. i < Len(list) => list[i + 1].addr = w[i] * Block
    <2> SUFFICES ASSUME i < Len(list)
                 PROVE  list[i + 1].addr = w[i] * Block
      OBVIOUS
    <2>1. i + 1 \in 1 .. Len(list) /\ (i + 1) - 1 = i
      BY <1>1, <1>2
    <2> QED BY <1>1, <2>1 DEF Listed
  <1>6. w[i - 1] \in Spots
    BY <1>1, <1>2
  <1>7. /\ w[i - 1] \in 0 .. Last /\ w[i - 1] < Last /\ IsFile(fs[w[i - 1]])
        /\ BlockAt(w[i - 1] * Block) = fs[w[i - 1]]
    BY <1>3, <1>6, NextBlock
  <1> QED BY <1>3, <1>4, <1>5, <1>7

\* Addresses stay on whole blocks, results are those of elf_run.
LEMMA CallNext ==
    ASSUME FsInv, ListInv, CallInv, Window, [Next]_vars, pc' \notin Gone
    PROVE  CallInv'
  <1> DEFINE AtSome(a) == \E b \in Spots : a = b * Block
             InChip(a) == \E b \in 0 .. Last : a = b * Block
  <1>1. AtSome(0) /\ InChip(0)
    <2>1. 0 * Block = 0 /\ 0 \in 0 .. Last /\ 0 \in Spots
      BY SpotsThere, Constants
    <2> QED BY <2>1
  <1>3. \A b \in Spots : at = b * Block /\ IsHeader(at) =>
           AtSome(After(at)) /\ InChip((at + Block) % AddrSpace)
    <2> SUFFICES ASSUME NEW b \in Spots, at = b * Block, IsHeader(at)
                 PROVE  AtSome(After(at)) /\ InChip((at + Block) % AddrSpace)
      OBVIOUS
    <2>1. b \in 0 .. Last /\ b < Last /\ \E c \in Spots : After(at) = c * Block
      BY NextBlock
    <2>2. b + 1 \in 0 .. Last /\ (at + Block) % AddrSpace = (b + 1) * Block
      BY <2>1, FileBase
    <2> QED BY <2>1, <2>2
  <1>4. IsHeader(at) => AtSome(After(at)) /\ InChip((at + Block) % AddrSpace)
    BY <1>3 DEF CallInv
  <1> DEFINE Names0 == Names \cup {Garbage}
             Kept == UNCHANGED <<home, arg, code, base, user>>
  <1>5. AtSome(at) /\ InChip(base)
    BY DEF CallInv
  <1> HIDE DEF AtSome, InChip
  <1>6. ASSUME Kept, AtSome(at'),
               pc' \in {"menu", "intro", "count", "populate", "poll", "find", "check", "load",
                        "user", "result", "seen"}
        PROVE  CallInv'
    BY <1>5, <1>6 DEF CallInv, AtSome, InChip
  <1>7. CASE Flashes
    BY <1>5, <1>6, <1>7, FlashesInMenu DEF call, CallInv
  <1>8. CASE EnterShell \/ Exit \/ Down \/ Up \/ ShowResult \/ BackToList \/ DisplayRuns \/ UNCHANGED vars
    <2>1. Kept /\ at' = at /\ (pc' = pc \/ pc' \in {"intro", "menu", "seen", "poll"})
      BY <1>8 DEF EnterShell, Exit, Down, Up, ShowResult, BackToList, DisplayRuns, Redraw, Gone,
                  image, call, vars
    <2> QED BY <1>5, <1>6, <2>1 DEF CallInv
  <1>9. CASE StartLoading \/ CountFile \/ PopulateFile
    <2>0. Kept
      BY <1>9 DEF StartLoading, CountFile, PopulateFile, call
    <2>1. /\ pc' = pc \/ pc' \in {"count", "populate", "poll"}
          /\ at' = 0 \/ (IsHeader(at) /\ at' = After(at))
      <3>1. CASE StartLoading
        BY <3>1 DEF StartLoading, call
      <3>2. CASE CountFile
        BY <3>2 DEF CountFile, call, Gone
      <3>3. CASE PopulateFile
        BY <3>3 DEF PopulateFile, call, Redraw, Gone
      <3> QED BY <1>9, <3>1, <3>2, <3>3
    <2> QED BY <1>1, <1>4, <1>6, <2>0, <2>1 DEF CallInv
  <1>10. ASSUME NEW name \in Names0, NEW caller \in {"menu", "shell"}, ElfRun(name, caller)
         PROVE  CallInv'
    BY <1>1, <1>5, <1>10 DEF ElfRun, CallInv, AtSome, InChip
  <1>11. CASE RunProgramElf
    BY <1>10, <1>11, ShellAssumption DEF RunProgramElf
  <1>12. CASE Open
    <2>1. PICK a \in Nat : OpenAt(a)
      <3>1. CASE selected < Len(list) /\ OpenAt(list[selected + 1].addr)
        <4>1. InShell
          BY <1>12 DEF Open, At, InShell
        <4>2. selected + 1 \in 1 .. Len(list)
          BY <3>1 DEF Window, ListInv
        <4>3. PICK b \in 0 .. Last : list[selected + 1] = [addr |-> b * Block, name |-> fs[b].name]
          BY <4>1, <4>2, ListedAt
        <4>4. b * Block \in Nat
          BY Constants
        <4> QED BY <3>1, <4>3, <4>4
      <3>2. CASE \E a \in 0 .. MemSize - 1 : OpenAt(a)
        BY <3>2, BlockSpace
      <3> QED BY <1>12, <3>1, <3>2 DEF Open
    <2>2. BlockAt(a).kind = "ustar" => BlockAt(a).name \in Names0
      BY InSomeBlock DEF FsInv, IsFile
    <2> QED BY <1>10, <2>1, <2>2 DEF OpenAt
  <1>13. ASSUME NEW c \in {"ELF_OK", "ELF_NOT_FOUND", "ELF_INVALID_FORMAT", "ELF_UNSUPPORTED"},
                Return(c), UNCHANGED <<home, arg>>, DOMAIN user' = 0 .. UserSize - 1
         PROVE  CallInv'
    BY <1>1, <1>13 DEF Return, CallInv, AtSome, InChip
  <1>14. DOMAIN user = 0 .. UserSize - 1
    BY DEF CallInv
  <1>15. CASE FindFile
    <2>1. UNCHANGED <<user, home, arg>>
      BY <1>15 DEF FindFile
    <2>2. CASE Return("ELF_NOT_FOUND")
      BY <1>13, <1>14, <2>1, <2>2
    <2>3. CASE IsHeader(at) /\ at' = After(at) /\ UNCHANGED <<base, seg, code, pc>>
      BY <1>4, <1>6, <2>1, <2>3 DEF CallInv
    <2>4. CASE IsHeader(at) /\ base' = (at + Block) % AddrSpace /\ pc' = "check" /\ UNCHANGED <<at, seg, code>>
      <3>1. InChip(base') /\ AtSome(at')
        BY <1>4, <1>5, <2>4
      <3> QED BY <2>1, <2>4, <3>1 DEF CallInv, AtSome, InChip
    <2> QED BY <1>15, <2>2, <2>3, <2>4 DEF FindFile
  <1>16. CASE CheckHeader
    <2>1. UNCHANGED <<user, home, arg>>
      BY <1>16 DEF CheckHeader
    <2>2. CASE \E verdict \in Verdicts : Return(verdict)
      <3>1. Verdicts \subseteq {"ELF_OK", "ELF_INVALID_FORMAT", "ELF_UNSUPPORTED"}
        BY DEF Verdicts
      <3> QED BY <1>13, <1>14, <2>1, <2>2, <3>1
    <2>3. CASE pc' = "load" /\ UNCHANGED <<at, base, code>>
      BY <1>5, <1>6, <2>1, <2>3
    <2> QED BY <1>16, <2>2, <2>3 DEF CheckHeader, Gone
  <1>17. CASE LoadSegment
    <2>1. UNCHANGED <<at, base, home, arg, code>> /\ pc' \in {"load", "user"}
      BY <1>17 DEF LoadSegment, call, At
    <2>2. DOMAIN user' = 0 .. UserSize - 1
      BY <1>14, <1>17 DEF LoadSegment, Loaded
    <2> QED BY <1>5, <2>1, <2>2 DEF CallInv, AtSome, InChip
  <1>18. CASE UserReturns
    <2>1. Return("ELF_OK") /\ UNCHANGED <<home, arg>> /\ DOMAIN user' = 0 .. UserSize - 1
      BY <1>18 DEF UserReturns
    <2> QED BY <1>13, <2>1
  <1> QED BY <1>7, <1>8, <1>9, <1>11, <1>12, <1>15, <1>16, <1>17, <1>18 DEF Next, Kernel, Flashes

\* The list begins where the image does.
LEMMA ListedFirst ==
    ASSUME ListInv, InShell, list # <<>>
    PROVE  Len(list) >= 1 /\ Len(list) = count /\ list[1].addr = 0
  <1>1. PICK w \in [0 .. count -> Spots] :
           Walk(w, count) /\ Listed(w) /\ Len(list) = count
    BY DEF ListInv
  <1>2. count \in Nat
    BY Constants DEF ListInv
  <1>3. count # 0
    BY <1>1 DEF Listed
  <1>4. list[1] = [addr |-> w[0] * Block, name |-> fs[w[0]].name]
    <2>1. 1 \in 1 .. Len(list) /\ 1 - 1 = 0
      BY <1>1, <1>2, <1>3
    <2> QED BY <1>1, <2>1 DEF Listed
  <1>5. w[0] * Block = 0
    BY <1>1, Constants DEF Walk
  <1> QED BY <1>1, <1>2, <1>3, <1>4, <1>5

\* What opening a file looks for is the selected entry, from the first one on.
LEMMA OpenStep ==
    ASSUME FsInv, ListInv, Window, Open
    PROVE  Looking'
  <1>1. SUFFICES ASSUME list' # <<>>
                 PROVE  Looking'
    BY DEF Looking
  <1>2. PICK a : pc = "poll" /\ OpenAt(a) /\ (selected < Len(list) => a = list[selected + 1].addr)
    <2>1. selected \in Nat /\ Len(list) \in Nat
      BY Constants DEF Window, ListInv
    <2>2. CASE selected < Len(list) /\ OpenAt(list[selected + 1].addr)
      BY <2>2 DEF Open, At
    <2>3. CASE selected >= Len(list) /\ \E a \in 0 .. MemSize - 1 : OpenAt(a)
      <3>1. ~(selected < Len(list))
        BY <2>1, <2>3
      <3> QED BY <2>3, <3>1 DEF Open, At
    <2> QED BY <2>2, <2>3 DEF Open
  <1>3. UNCHANGED <<fs, list, selected>> /\ InShell /\ pc' = "find" /\ at' = 0
        /\ arg' = IF BlockAt(a).kind = "ustar" THEN BlockAt(a).name ELSE Garbage
    BY <1>2 DEF OpenAt, ElfRun, shell, InShell
  <1>4. Len(list) >= 1 /\ Len(list) = count /\ list[1].addr = 0 /\ Len(list) \in Nat
    BY <1>1, <1>3, ListedFirst, Constants DEF ListInv
  <1>5. selected \in 0 .. Len(list) - 1
    BY <1>4 DEF Window
  <1>6. selected + 1 \in 1 .. Len(list)
    BY <1>5
  <1>7. PICK b \in 0 .. Last : /\ IsFile(fs[b]) /\ BlockAt(b * Block) = fs[b]
                             /\ list[selected + 1] = [addr |-> b * Block, name |-> fs[b].name]
    BY <1>3, <1>6, ListedAt
  <1>8. a = b * Block
    BY <1>2, <1>4, <1>5, <1>7
  <1>9. arg' = Selected'.name
    BY <1>3, <1>7, <1>8 DEF Selected, IsFile
  <1>10. \E i \in 1 .. selected' + 1 : at' = list'[i].addr /\ \A j \in 1 .. i - 1 : list'[j].name # arg'
    <2>1. 1 \in 1 .. selected' + 1 /\ at' = list'[1].addr /\ \A j \in 1 .. 1 - 1 : list'[j].name # arg'
      BY <1>3, <1>4, <1>5
    <2> QED BY <2>1
  <1> QED BY <1>3, <1>9, <1>10 DEF Looking

\* The walk for a file goes along the list, and no further than the selected entry.
LEMMA FindStep ==
    ASSUME FsInv, ListInv, Window, Looking, FindFile
    PROVE  Looking'
  <1>1. SUFFICES ASSUME list' # <<>>
                 PROVE  Looking'
    BY DEF Looking
  <1>2. pc = "find" /\ UNCHANGED <<fs, list, selected, arg, home, count>>
    BY DEF FindFile, At, shell
  <1>3. home = "shell" /\ InShell
    BY <1>1, <1>2 DEF ListInv, InShell
  <1>4. Len(list) = count /\ count \in Nat /\ selected \in 0 .. count - 1
    BY <1>1, <1>2, <1>3, ListedFirst, Constants DEF ListInv, Window
  <1>5. PICK i \in 1 .. selected + 1 :
           at = list[i].addr /\ \A j \in 1 .. i - 1 : list[j].name # arg
    BY <1>1, <1>2, <1>3 DEF Looking
  <1>6. arg = Selected.name
    BY <1>1, <1>2, <1>3 DEF Looking
  <1>7. i \in 1 .. Len(list) /\ i \in Nat
    BY <1>4
  <1>8. PICK b \in 0 .. Last :
           /\ IsHeader(b * Block) /\ b < Last /\ BlockAt(b * Block) = fs[b]
           /\ list[i] = [addr |-> b * Block, name |-> fs[b].name]
           /\ i < Len(list) => list[i + 1].addr = After(b * Block)
    BY <1>3, <1>7, ListedAt
  <1>9. at = b * Block /\ IsHeader(at) /\ BlockAt(at).name = list[i].name
    BY <1>5, <1>8
  <1>10. CASE BlockAt(at).name # arg /\ at' = After(at) /\ pc' = pc
    <2>1. i # selected + 1
      BY <1>6, <1>9, <1>10 DEF Selected
    <2>2. i + 1 \in 1 .. selected + 1 /\ i < Len(list) /\ i + 1 - 1 = i
      BY <1>4, <2>1
    <2>3. at' = list[i + 1].addr
      BY <1>8, <1>9, <1>10, <2>2
    <2>4. \A j \in 1 .. (i + 1) - 1 : list[j].name # arg
      <3> TAKE j \in 1 .. (i + 1) - 1
      <3>1. j \in 1 .. i - 1 \/ j = i
        BY <1>7
      <3> QED BY <1>5, <1>9, <1>10, <3>1
    <2>5. \E k \in 1 .. selected' + 1 : at' = list'[k].addr /\ \A j \in 1 .. k - 1 : list'[j].name # arg'
      BY <1>2, <2>2, <2>3, <2>4
    <2>6. arg' = Selected'.name
      BY <1>2, <1>6 DEF Selected
    <2> QED BY <1>2, <1>3, <1>10, <2>5, <2>6 DEF Looking
  <1>11. CASE BlockAt(at).name = arg /\ base' = (at + Block) % AddrSpace /\ pc' = "check"
    <2>1. base' = list[i].addr + Block
      <3>1. (b * Block + Block) % AddrSpace = (b + 1) * Block
        BY <1>8, FileBase
      <3>2. (b + 1) * Block = b * Block + Block
        BY Constants
      <3>3. list[i].addr = b * Block
        BY <1>8
      <3> QED BY <1>9, <1>11, <3>1, <3>2, <3>3
    <2>2. list[i].name = Selected.name
      BY <1>6, <1>9, <1>11
    <2>3. \E k \in 1 .. selected' + 1 : base' = list'[k].addr + Block /\ list'[k].name = Selected'.name
      BY <1>2, <2>1, <2>2 DEF Selected
    <2> QED BY <1>11, <2>3 DEF Looking
  <1> QED BY <1>9, <1>10, <1>11 DEF FindFile

\* What is looked for, found and reported, in every step.
LEMMA LookingNext ==
    ASSUME FsInv, ListInv, Window, Looking, [Next]_vars, pc' \notin Gone
    PROVE  Looking'
  <1>1. CASE pc' \notin {"find", "check", "load", "user", "result", "seen"}
    BY <1>1 DEF Looking
  <1>2. CASE UNCHANGED <<list, selected, arg, home, at, base, code, pc>>
    BY <1>2 DEF Looking, Selected
  <1>3. CASE RunProgramElf
    BY <1>3 DEF RunProgramElf, ElfRun, Looking
  <1>4. CASE CheckHeader
    <2>1. pc = "check" /\ UNCHANGED <<list, selected, home>>
      BY <1>4 DEF CheckHeader, At, shell
    <2>2. CASE pc' = "load" /\ base' = base
      BY <2>1, <2>2 DEF Looking, Selected
    <2>3. CASE \E verdict \in Verdicts : Return(verdict)
      <3>1. "ELF_NOT_FOUND" \notin Verdicts
        BY DEF Verdicts
      <3>2. code' # "ELF_NOT_FOUND" /\ pc' \in {"result", "menu"}
        BY <2>3, <3>1 DEF Return
      <3> QED BY <3>2 DEF Looking
    <2> QED BY <1>4, <2>2, <2>3 DEF CheckHeader, Gone
  <1>5. CASE LoadSegment
    <2>1. pc = "load" /\ pc' \in {"load", "user"} /\ UNCHANGED <<list, selected, home, base>>
      BY <1>5 DEF LoadSegment, At, shell, call
    <2> QED BY <2>1 DEF Looking, Selected
  <1>6. CASE UserReturns
    BY <1>6 DEF UserReturns, Return, Looking
  <1>7. CASE ShowResult
    BY <1>7 DEF ShowResult, At, shell, call, Looking
  <1>8. CASE StartLoading \/ CountFile \/ PopulateFile \/ Exit
    BY <1>1, <1>8 DEF StartLoading, CountFile, PopulateFile, Exit, At, Redraw
  <1>9. CASE Down \/ Up \/ BackToList \/ EnterShell
    BY <1>1, <1>9 DEF Down, Up, BackToList, EnterShell, At, Redraw
  <1>10. CASE DisplayRuns \/ UNCHANGED vars
    BY <1>2, <1>10 DEF DisplayRuns, vars, image, shell, call
  <1>11. CASE Flashes
    BY <1>1, <1>11, FlashesInMenu
  <1> QED BY <1>3, <1>4, <1>5, <1>6, <1>7, <1>8, <1>9, <1>10, <1>11, OpenStep, FindStep
          DEF Next, Kernel, Flashes

\* Program headers have numbers of the right kinds, and their segments fit.
LEMMA HeaderTypes ==
    ASSUME FsInv, CallInv, BlockAt(base).kind = "elf"
    PROVE  /\ Len(Headers) \in Nat
           /\ \A s \in 1 .. Len(Headers) :
                 /\ Headers[s].offset \in Nat /\ Headers[s].vaddr \in Nat
                 /\ Headers[s].filesz \in Nat /\ Headers[s].memsz \in Nat
                 /\ Headers[s].filesz <= Headers[s].memsz
                 /\ Headers[s].vaddr + Headers[s].memsz <= UserSize
  <1>1. PICK b \in 0 .. Last : base = b * Block
    BY DEF CallInv
  <1>2. BlockAt(base) = fs[b]
    <2>1. 0 \in 0 .. Block - 1 /\ b * Block + 0 = b * Block
      BY Constants
    <2> QED BY <1>1, <2>1, AtBlock
  <1>3. BlockAt(base).name \in DOMAIN Programs
    BY <1>2 DEF FsInv
  <1> DEFINE p == BlockAt(base).name
             R == [offset : Nat, vaddr : Nat, filesz : Nat, memsz : Nat]
  <1>4. /\ Programs[p] \in Seq(R)
        /\ \A s \in DOMAIN Programs[p] :
              /\ Programs[p][s].vaddr + Programs[p][s].memsz <= UserSize
              /\ Programs[p][s].filesz <= Programs[p][s].memsz
    BY <1>3, LoaderAssumption
  <1>5. Headers = Programs[p]
    BY DEF Headers
  <1> HIDE DEF p
  <1>6. Headers \in Seq(R) /\ Len(Headers) \in Nat /\ DOMAIN Headers = 1 .. Len(Headers)
    <2> HIDE DEF R
    <2> QED BY <1>4, <1>5
  <1>7. \A s \in 1 .. Len(Headers) : Headers[s] \in R
    <2> HIDE DEF R
    <2> QED BY <1>6
  <1> QED BY <1>4, <1>5, <1>6, <1>7

\* The 16 bits of an address lose nothing that the chip would not drop as well.
LEMMA ByteWraps ==
    ASSUME NEW a \in Nat
    PROVE  ByteAt(a % AddrSpace) = ByteAt(a)
  <1>1. MemSize \in Nat \ {0} /\ Block \in Nat \ {0} /\ AddrSpace \in Nat \ {0}
    BY BlockSpace, Constants
  <1>2. AddrSpace % MemSize = 0
    <2>1. AddrSpace = MemSize * 2 + 0 /\ 0 \in 0 .. MemSize - 1
      BY <1>1, BlockSpace
    <2> QED BY <1>1, <2>1, ModUnique
  <1>3. AddrSpace % Block = 0
    <2>1. AddrSpace = Block * (2 * MemBlocks) + 0 /\ 0 \in 0 .. Block - 1 /\ 2 * MemBlocks \in Int
      BY <1>1, BlockSpace, Constants
    <2> QED BY <1>1, <2>1, ModUnique
  <1>4. (a % AddrSpace) % MemSize = a % MemSize /\ (a % AddrSpace) % Block = a % Block
    BY <1>1, <1>2, <1>3, ModMod
  <1> QED BY <1>4 DEF ByteAt, BlockAt

\* A segment is put in place and disturbs those before it only where it lies over them.
LEMMA SegmentStep ==
    ASSUME FsInv, CallInv, SegmentsInv, LoadSegment, seg <= Len(Headers)
    PROVE  SegmentsInv'
  <1>1. /\ pc = "load" /\ pc' = "load" /\ UNCHANGED <<fs, base>> /\ user' = Loaded(Headers[seg])
        /\ seg' = seg + 1
    BY DEF LoadSegment, At
  <1>2. /\ BlockAt(base).kind = "elf" /\ seg \in Nat /\ seg >= 3
        /\ \A s \in 3 .. seg - 1 : InPlace(s, seg - 1)
    BY <1>1 DEF SegmentsInv
  <1>3. base \in Nat
    BY Constants DEF CallInv
  <1>4. Len(Headers) \in Nat /\ seg \in 1 .. Len(Headers)
    BY <1>2, HeaderTypes
  <1> DEFINE h == Headers[seg]
  <1>5. /\ h.offset \in Nat /\ h.vaddr \in Nat /\ h.filesz \in Nat /\ h.memsz \in Nat
        /\ h.filesz <= h.memsz /\ h.vaddr + h.memsz <= UserSize
    BY <1>2, <1>4, HeaderTypes
  <1>6. ASSUME NEW k \in 0 .. h.memsz - 1
        PROVE  user'[h.vaddr + k] = Byte(h, k)
    <2> DEFINE v == h.vaddr + k
    <2>1. v \in 0 .. UserSize - 1 /\ v - h.vaddr = k
      BY <1>5, Constants
    <2>2. user'[v] = Loaded(h)[v]
      BY <1>1
    <2>3. CASE k < h.filesz
      <3>1. v \in h.vaddr .. h.vaddr + h.filesz - 1
        BY <1>5, <2>3
      <3>2. Loaded(h)[v] = ByteAt((base + h.offset + (v - h.vaddr)) % AddrSpace)
        <4> HIDE DEF v, h
        <4> QED BY <2>1, <3>1 DEF Loaded
      <3>3. base + h.offset + k \in Nat
        BY <1>3, <1>5
      <3>4. Loaded(h)[v] = ByteAt(base + h.offset + k)
        <4> HIDE DEF v, h
        <4> QED BY <2>1, <3>2, <3>3, ByteWraps
      <3> QED BY <2>2, <2>3, <3>4 DEF Byte
    <2>4. CASE ~(k < h.filesz)
      <3>1. v \notin h.vaddr .. h.vaddr + h.filesz - 1 /\ v \in h.vaddr + h.filesz .. h.vaddr + h.memsz - 1
        <4>1. k >= h.filesz /\ k \in Nat
          BY <1>5, <2>4
        <4> HIDE DEF h
        <4> QED BY <1>5, <4>1
      <3>2. Loaded(h)[v] = Zero
        <4> HIDE DEF v, h
        <4> QED BY <2>1, <3>1 DEF Loaded
      <3> QED BY <2>2, <2>4, <3>2 DEF Byte
    <2> QED BY <2>3, <2>4
  <1>7. ASSUME NEW v \in 0 .. UserSize - 1, ~Covers(h, v)
        PROVE  user'[v] = user[v]
    <2>1. v \notin h.vaddr .. h.vaddr + h.filesz - 1 /\ v \notin h.vaddr + h.filesz .. h.vaddr + h.memsz - 1
      BY <1>5, <1>7 DEF Covers
    <2> HIDE DEF h
    <2>2. Loaded(h)[v] = user[v]
      BY <2>1 DEF Loaded
    <2> QED BY <1>1, <2>2 DEF h
  <1>8. /\ BlockAt(base)' = BlockAt(base) /\ Headers' = Headers
        /\ \A s, k : Byte(s, k)' = Byte(s, k)
    BY <1>1 DEF BlockAt, Headers, Byte, ByteAt
  <1>9. ASSUME NEW s \in 3 .. seg, NEW k \in 0 .. Headers[s].memsz - 1,
               \A t \in s + 1 .. seg : ~Covers(Headers[t], Headers[s].vaddr + k)
        PROVE  user'[Headers[s].vaddr + k] = Byte(Headers[s], k)
    <2> DEFINE g == Headers[s]
    <2>1. s \in 1 .. Len(Headers) /\ s \in Nat
      BY <1>2, <1>4
    <2>2. CASE s = seg
      BY <1>6, <2>2
    <2>3. CASE s # seg
      <3>1. s \in 3 .. seg - 1 /\ seg \in s + 1 .. seg
        BY <1>2, <2>3
      <3>2. user[g.vaddr + k] = Byte(g, k)
        <4>1. InPlace(s, seg - 1)
          BY <1>2, <3>1
        <4>2. \A t \in s + 1 .. seg - 1 : t \in s + 1 .. seg
          BY <1>2, <2>1
        <4> QED BY <1>9, <4>1, <4>2 DEF InPlace
      <3>3. g.vaddr + k \in 0 .. UserSize - 1
        <4>1. /\ g.offset \in Nat /\ g.vaddr \in Nat /\ g.filesz \in Nat /\ g.memsz \in Nat
              /\ g.filesz <= g.memsz /\ g.vaddr + g.memsz <= UserSize
          BY <1>2, <2>1, HeaderTypes
        <4>2. k \in 0 .. g.memsz - 1
          OBVIOUS
        <4> HIDE DEF g
        <4> QED BY <4>1, <4>2, Constants
      <3>4. ~Covers(h, g.vaddr + k)
        BY <1>9, <3>1
      <3> QED BY <1>7, <3>2, <3>3, <3>4
    <2> QED BY <2>2, <2>3
  <1>10. seg' \in Nat /\ seg' >= 3 /\ seg' <= Len(Headers) + 1 /\ seg' - 1 = seg
    BY <1>1, <1>2, <1>4
  <1>11. (\A s \in 3 .. seg - 1 : InPlace(s, seg - 1))'
    <2> HIDE DEF h
    <2>1. \A s, v : Covers(s, v)' = Covers(s, v)
      BY DEF Covers
    <2>2. SUFFICES ASSUME NEW s \in 3 .. seg, NEW k \in 0 .. Headers[s].memsz - 1,
                          \A t \in s + 1 .. seg : ~Covers(Headers[t], Headers[s].vaddr + k)
                   PROVE  user'[Headers[s].vaddr + k] = Byte(Headers[s], k)
      BY <1>8, <1>10, <2>1 DEF InPlace
    <2> QED BY <1>9, <2>2
  <1> QED BY <1>1, <1>2, <1>8, <1>10, <1>11 DEF SegmentsInv

\* The segments in place, in every step.
LEMMA SegmentsNext ==
    ASSUME FsInv, CallInv, SegmentsInv, [Next]_vars, pc' \notin Gone
    PROVE  SegmentsInv'
  <1>1. CASE pc' \notin {"load", "user"}
    BY <1>1 DEF SegmentsInv
  <1>2. CASE UNCHANGED <<fs, base, seg, user, pc>>
    BY <1>2 DEF SegmentsInv, BlockAt, Headers, InPlace, Covers, Byte, ByteAt
  <1>3. CASE CheckHeader
    <2>1. CASE BlockAt(base).kind = "elf" /\ seg' = 3 /\ pc' = "load" /\ base' = base
      <3>1. BlockAt(base)' = BlockAt(base)
        BY <1>3, <2>1 DEF CheckHeader, BlockAt
      <3>2. 3 .. seg' - 1 = {}
        BY <2>1
      <3> QED BY <2>1, <3>1, <3>2 DEF SegmentsInv
    <2>2. CASE \E verdict \in Verdicts : Return(verdict)
      BY <1>1, <2>2 DEF Return
    <2> QED BY <1>3, <2>1, <2>2 DEF CheckHeader, Gone
  <1>4. CASE LoadSegment /\ ~(seg <= Len(Headers))
    <2>1. pc = "load" /\ pc' = "user" /\ UNCHANGED <<fs, base, user, seg>>
      BY <1>4 DEF LoadSegment, At
    <2>2. /\ BlockAt(base).kind = "elf" /\ seg \in Nat /\ seg >= 3
          /\ seg = 3 \/ seg <= Len(Headers) + 1
          /\ \A s \in 3 .. seg - 1 : InPlace(s, seg - 1)
      BY <2>1 DEF SegmentsInv
    <2>3. seg > Len(Headers)
      BY <1>4, <2>2, HeaderTypes
    <2>4. /\ BlockAt(base)' = BlockAt(base) /\ Headers' = Headers
          /\ (\A s \in 3 .. seg - 1 : InPlace(s, seg - 1))'
      BY <2>1, <2>2 DEF BlockAt, Headers, InPlace, Covers, Byte, ByteAt
    <2> QED BY <2>1, <2>2, <2>3, <2>4 DEF SegmentsInv
  <1>5. CASE FindFile \/ UserReturns \/ ShowResult \/ BackToList
    BY <1>1, <1>5 DEF FindFile, UserReturns, Return, ShowResult, BackToList, Redraw, At
  <1>6. CASE RunProgramElf \/ EnterShell \/ StartLoading \/ CountFile \/ PopulateFile
    BY <1>1, <1>6 DEF RunProgramElf, ElfRun, EnterShell, StartLoading, CountFile, PopulateFile,
                      Redraw, At
  <1>7. CASE Exit \/ Down \/ Up
    BY <1>1, <1>7 DEF Exit, Down, Up, Redraw, At
  <1>8. CASE Open
    BY <1>1, <1>8 DEF Open, OpenAt, ElfRun
  <1>9. CASE DisplayRuns \/ UNCHANGED vars
    BY <1>2, <1>9 DEF DisplayRuns, vars, image
  <1>10. CASE Flashes
    BY <1>1, <1>10, FlashesInMenu
  <1> QED BY <1>3, <1>4, <1>5, <1>6, <1>7, <1>8, <1>9, <1>10, SegmentStep DEF Next, Kernel, Flashes

-----------------------------------------------------------------------------
(* The invariant.                                                          *)

\* The invariant holds at the start, and every step keeps it.
LEMMA InvInit == Init => IInv
  <1> SUFFICES ASSUME Init
               PROVE  IInv
    OBVIOUS
  <1>1. /\ pc = "menu" /\ todo = <<>> /\ list = <<>> /\ count = 0 /\ first = 0 /\ selected = 0
        /\ whole = <<>> /\ at = 0 /\ base = 0 /\ ~inited /\ spi = FALSE
        /\ high = {"data", "vbat", "vdd", "reset"} /\ panel = Unpowered
        /\ arg = Garbage /\ home = "menu" /\ code = "ELF_OK"
    BY DEF Init, DisplayInit
  <1>2. LineInv
    <2>1. panel = [got |-> {}, lit |-> FALSE, page |-> 0, ram |-> [i \in 0 .. Pages - 1 |-> Unknown]]
      BY <1>1 DEF Unpowered
    <2>2. panel.lit = FALSE /\ panel.got = {} /\ panel.page = 0
          /\ panel.ram = [i \in 0 .. Pages - 1 |-> Unknown]
      BY <2>1
    <2>3. panel.ram = [i \in 0 .. Pages - 1 |-> panel.ram[i]]
      BY <2>2
    <2>4. panel = [got |-> panel.got, lit |-> panel.lit, page |-> panel.page, ram |-> panel.ram]
      BY <2>1
    <2>5. panel.lit \in BOOLEAN /\ panel.got \subseteq Setup /\ panel.page \in 0 .. Pages - 1
      <3>1. panel.lit \in BOOLEAN
        BY <2>2, Zenon
      <3>2. panel.got \subseteq Setup /\ panel.page \in 0 .. Pages - 1
        BY <2>2, Constants
      <3> QED BY <3>1, <3>2
    <2>6. PanelOk(panel)
      BY <2>3, <2>4, <2>5 DEF PanelOk
    <2>7. high \subseteq Lines /\ inited \in BOOLEAN /\ spi \in BOOLEAN
      BY <1>1 DEF Lines, Init, DisplayInit
    <2> QED BY <1>1, <2>6, <2>7 DEF LineInv
  <1>3. Off(4 * Pages + 5)
    <2>1. Rest(OffScript, 4 * Pages + 5) = <<>>
      BY OffTable, RestTail, Constants
    <2> QED BY <1>1, <2>1, Constants DEF Off
  <1>4. DisplayInv
    <2>1. 4 * Pages + 5 \in 0 .. 4 * Pages + 5
      BY Constants
    <2> QED BY <1>1, <1>2, <1>3, <2>1 DEF DisplayInv, Switched, Pictured, Showing
  <1>5. FsInv
    <2>1. fs = [b \in 0 .. Last |-> Nothing]
      BY DEF Init, Last
    <2>2. Nothing \in ChipContents /\ Nothing.kind = "none"
      BY DEF Nothing, Contents, ChipContents
    <2>3. DOMAIN whole = {}
      BY <1>1
    <2> QED BY <1>1, <2>1, <2>2, <2>3 DEF FsInv, IsFile
  <1>6. ListInv /\ Window /\ Looking /\ SegmentsInv
    BY <1>1, Constants DEF ListInv, Window, Looking, SegmentsInv, InShell, FILE_ENTRY_COUNT
  <1>7. CallInv
    <2>1. 0 \in 0 .. Last /\ 0 \in Spots /\ 0 * Block = 0
      BY Constants, SpotsThere
    <2>2. DOMAIN user = 0 .. UserSize - 1
      BY DEF Init
    <2> QED BY <1>1, <2>1, <2>2 DEF CallInv
  <1> QED BY <1>4, <1>5, <1>6, <1>7 DEF IInv

LEMMA InvNext == IInv /\ [Next]_vars /\ pc' \notin Gone => IInv'
  BY DisplayNext, FsNext, ListNext, WindowNext, CallNext, LookingNext, SegmentsNext DEF IInv

LEMMA InvTypeOK == IInv => TypeOK
  <1> SUFFICES ASSUME IInv
               PROVE  TypeOK
    OBVIOUS
  <1> USE DEF IInv
  <1>1. ASSUME NEW a, \E b \in Spots : a = b * Block
        PROVE  a \in 0 .. AddrSpace - 1
    <2>1. PICK b \in Nat : a = b * Block /\ b < 2 * MemBlocks
      BY <1>1, SpotsThere, Constants DEF Spots
    <2>2. (2 * MemBlocks) * Block = AddrSpace
      BY BlockSpace, Constants
    <2>3. b * Block \in Nat /\ b * Block + Block <= (2 * MemBlocks) * Block
      BY <2>1, TimesBlock, Constants
    <2> QED BY <2>1, <2>2, <2>3, BlockSpace, Constants
  <1>2. at \in 0 .. AddrSpace - 1 /\ base \in 0 .. AddrSpace - 1
    BY <1>1, SpotsThere DEF CallInv
  <1>3. high \subseteq Lines /\ inited \in BOOLEAN /\ spi \in BOOLEAN
        /\ panel.page \in 0 .. Pages - 1 /\ panel.got \subseteq Setup
    BY DEF DisplayInv, LineInv, PanelOk
  <1>4. count \in 0 .. MemBlocks /\ Len(list) <= count
    BY Constants DEF ListInv
  <1> QED BY <1>2, <1>3, <1>4 DEF TypeOK, CallInv, Lines

\* A step out of the shell's hands leaves the lines, the panel and the list as they were,
\* and the bus on for what is left to be sent.
LEMMA GoneStep ==
    ASSUME IInv, [Next]_vars, pc' \in Gone
    PROVE  GoneInv' /\ PoweredStep
  <1>1. pc \notin Gone /\ TypeOK /\ LineInv
    BY InvTypeOK DEF IInv, CallInv, DisplayInv, Gone
  <1>2. /\ todo = <<>> /\ UNCHANGED <<inited, high, spi, panel, base, count, list, arg, home, code>>
        /\ at' = 0 \/ at' = at
        /\ \/ todo' = todo
           \/ pc \in Showing /\ pc' = "lost"
    <2>1. CASE CountFile \/ CheckHeader
      BY <1>1, <2>1 DEF CountFile, CheckHeader, Return, At, Gone, display, shell, call
    <2>2. CASE PopulateFile \/ Down \/ Up \/ BackToList
      BY <1>1, <2>2 DEF PopulateFile, Down, Up, BackToList, Redraw, Draw, At, Gone, Showing, image,
                        shell, call
    <2>3. CASE Flashes \/ UNCHANGED vars
      BY <1>1, <2>3, FlashesInMenu DEF Gone, vars
    <2>4. CASE Open
      BY <2>4 DEF Open, OpenAt, ElfRun, Gone
    <2>5. CASE RunProgramElf \/ EnterShell \/ StartLoading \/ Exit
      BY <2>5 DEF RunProgramElf, ElfRun, EnterShell, StartLoading, Exit, Gone
    <2>6. CASE FindFile \/ LoadSegment \/ ShowResult \/ UserReturns \/ DisplayRuns
      BY <1>1, <2>6 DEF FindFile, LoadSegment, ShowResult, UserReturns, DisplayRuns, Return, Gone
    <2> QED BY <2>1, <2>2, <2>3, <2>4, <2>5, <2>6 DEF Next, Kernel, Flashes
  <1>3. LineInv' /\ PoweredStep
    BY <1>1, <1>2 DEF LineInv, PoweredStep
  <1>4. TypeOK'
    <2>1. 0 \in 0 .. AddrSpace - 1
      BY BlockSpace
    <2> QED BY <1>1, <1>2, <2>1 DEF TypeOK, Gone
  <1>5. todo' = <<>> \/ (pc' = "lost" /\ spi')
    <2>1. CASE pc \in Showing /\ pc' = "lost"
      <3>1. On(4 * Pages + 16)
        BY <1>2, <2>1, OnDone DEF IInv
      <3>2. spi
        BY <3>1, Constants DEF On
      <3> QED BY <1>2, <2>1, <3>2
    <2> QED BY <1>2, <2>1
  <1> QED BY <1>3, <1>4, <1>5 DEF GoneInv

\* Nothing goes on there.
LEMMA GoneStays ==
    ASSUME GoneInv, [Next]_vars
    PROVE  UNCHANGED vars /\ GoneInv' /\ PoweredStep
  <1>1. ~DisplayRuns
    BY DEF DisplayRuns, GoneInv, DisplayStep, SetLines, ClearLines, ConfigureSpi, MarkInited,
           SendCommand, SelectPage, SendPage, Sending, Operation
  <1>2. ~(CountFile \/ PopulateFile \/ FindFile \/ CheckHeader \/ LoadSegment \/ ShowResult \/ BackToList)
    BY DEF GoneInv, Gone, CountFile, PopulateFile, FindFile, CheckHeader, LoadSegment, ShowResult,
           BackToList, At
  <1>3. ~(RunProgramElf \/ EnterShell \/ StartLoading \/ Exit \/ Down \/ Up \/ Open \/ UserReturns)
    BY DEF GoneInv, Gone, RunProgramElf, EnterShell, StartLoading, Exit, Down, Up, Open, UserReturns,
           At
  <1>4. ~Flashes
    BY FlashesInMenu DEF GoneInv, Gone, At
  <1>5. UNCHANGED vars
    BY <1>1, <1>2, <1>3, <1>4 DEF Next, Kernel, Flashes
  <1>6. UNCHANGED <<inited, high, spi, panel, todo, pc, at, base, count, list, arg, home, code>>
    BY <1>5 DEF vars, display, image, shell, call
  <1> QED BY <1>5, <1>6 DEF GoneInv, LineInv, TypeOK, PoweredStep

LEMMA Invariant == Spec => [](IInv \/ GoneInv)
  <1>1. (IInv \/ GoneInv) /\ [Next]_vars => (IInv \/ GoneInv)'
    BY InvNext, GoneStep, GoneStays
  <1> QED BY <1>1, InvInit, PTL DEF Spec

-----------------------------------------------------------------------------
(* What follows from it.                                                   *)

\* Nothing is shown, listed or run where the shell is gone.
LEMMA GoneSilent == GoneInv => ListComplete /\ ScreenShowsState /\ RunsSelected /\ EntriesApart
  BY DEF GoneInv, Gone, ListComplete, ScreenShowsState, RunsSelected, EntriesApart, At

LEMMA InvListComplete == IInv => ListComplete
  <1> SUFFICES ASSUME IInv, pc = "poll", whole # <<>>
               PROVE  /\ \A k \in DOMAIN list : \E b \in DOMAIN whole : IsFile(whole[b]) /\ list[k] = EntryOf(b)
                      /\ \A b \in DOMAIN whole : IsFile(whole[b]) => \E k \in DOMAIN list : list[k] = EntryOf(b)
                      /\ \A j, k \in DOMAIN list : j < k => list[j].addr < list[k].addr
                      /\ count = Len(list)
    BY DEF ListComplete, At
  <1> USE DEF IInv
  <1>1. PICK w \in [0 .. count -> Spots] :
           Walk(w, count) /\ ~IsHeader(w[count] * Block) /\ Listed(w) /\ Len(list) = count
    BY DEF ListInv, InShell
  <1>2. count \in Nat /\ DOMAIN list = 1 .. count
    BY <1>1, Constants DEF ListInv, Listed
  <1>3. \A k \in 1 .. count : list[k] = [addr |-> w[k - 1] * Block, name |-> fs[w[k - 1]].name]
    BY <1>1 DEF Listed
  <1>4. /\ whole \in Seq(BlockContents) /\ Len(whole) \in 0 .. MemBlocks
        /\ \A i \in 0 .. count : w[i] < Len(whole) /\ w[i] \in 0 .. Last
        /\ \A i, j \in 0 .. count : i < j => w[i] < w[j]
    <2>1. whole \in Images /\ TarImage(whole)
      BY ShellAssumption DEF FsInv
    <2>2. whole \in Seq(BlockContents) /\ Len(whole) \in 0 .. MemBlocks
      BY <2>1, Constants DEF TarImage
    <2>3. Climbs(w, count)
      BY <1>1 DEF Walk
    <2>4. \A i \in 0 .. count : w[i] \in Nat
      BY <1>1, SpotsThere
    <2> QED BY <2>2, <2>3, <2>4, Constants DEF Climbs, Last
  <1>5. ASSUME NEW i \in 0 .. count - 1
        PROVE  /\ w[i] + 1 \in DOMAIN whole /\ (w[i] + 1) - 1 = w[i] /\ IsFile(fs[w[i]])
               /\ fs[w[i]] = whole[w[i] + 1]
    <2>1. i \in 0 .. count
      BY <1>2
    <2>2. w[i] \in Spots /\ IsHeader(w[i] * Block)
      BY <1>1, <2>1 DEF Walk
    <2>3. w[i] \in 0 .. Last /\ w[i] < Len(whole)
      BY <1>4, <2>1
    <2>4. IsFile(fs[w[i]])
      BY <2>2, NextBlock
    <2> QED BY <1>4, <2>3, <2>4, WholeImage
  <1>6. ASSUME NEW k \in DOMAIN list
        PROVE  \E b \in DOMAIN whole : IsFile(whole[b]) /\ list[k] = EntryOf(b)
    <2>1. k - 1 \in 0 .. count - 1 /\ k \in 1 .. count
      BY <1>2, <1>6
    <2> DEFINE b == w[k - 1] + 1
    <2>2. b \in DOMAIN whole /\ IsFile(whole[b]) /\ b - 1 = w[k - 1] /\ fs[w[k - 1]] = whole[b]
      BY <1>5, <2>1
    <2>3. list[k] = EntryOf(b)
      <3>1. list[k] = [addr |-> w[k - 1] * Block, name |-> fs[w[k - 1]].name]
        BY <1>3, <2>1
      <3> HIDE DEF b
      <3> QED BY <2>2, <3>1 DEF EntryOf
    <2> QED BY <2>2, <2>3
  <1>7. ASSUME NEW b \in DOMAIN whole, IsFile(whole[b])
        PROVE  \E k \in DOMAIN list : list[k] = EntryOf(b)
    <2>1. PICK i \in 0 .. count - 1 : w[i] = b - 1
      BY <1>1, <1>2, <1>7, WalkEnds
    <2>2. i + 1 \in 1 .. count /\ (i + 1) - 1 = i
      BY <1>2
    <2>3. list[i + 1] = [addr |-> w[i] * Block, name |-> fs[w[i]].name]
      BY <1>3, <2>2
    <2>4. fs[b - 1] = whole[b]
      BY DEF FsInv
    <2>5. list[i + 1] = EntryOf(b)
      BY <2>1, <2>3, <2>4 DEF EntryOf
    <2> QED BY <1>2, <2>2, <2>5
  <1>8. ASSUME NEW j \in DOMAIN list, NEW k \in DOMAIN list, j < k
        PROVE  list[j].addr < list[k].addr
    <2>1. /\ j - 1 \in 0 .. count - 1 /\ k - 1 \in 0 .. count - 1 /\ j - 1 < k - 1
          /\ j \in 1 .. count /\ k \in 1 .. count
          /\ j - 1 \in 0 .. count /\ k - 1 \in 0 .. count
      BY <1>2, <1>8
    <2>2. w[j - 1] \in 0 .. Last /\ w[k - 1] \in 0 .. Last
      BY <1>4, <2>1
    <2>3. w[j - 1] < w[k - 1]
      BY <1>4, <2>1
    <2>4. w[j - 1] * Block + Block <= w[k - 1] * Block
      <3>1. w[j - 1] \in Nat /\ w[k - 1] \in Nat
        BY <2>2, Constants
      <3> QED BY <2>3, <3>1, TimesBlock
    <2>5. w[j - 1] * Block < w[k - 1] * Block
      <3>1. w[j - 1] * Block \in Nat /\ w[k - 1] * Block \in Nat
        BY <2>2, Constants, TimesBlock
      <3> QED BY <2>4, <3>1, Constants
    <2>6. list[j].addr = w[j - 1] * Block /\ list[k].addr = w[k - 1] * Block
      <3>1. list[j] = [addr |-> w[j - 1] * Block, name |-> fs[w[j - 1]].name]
        BY <1>3, <2>1
      <3>2. list[k] = [addr |-> w[k - 1] * Block, name |-> fs[w[k - 1]].name]
        BY <1>3, <2>1
      <3> QED BY <3>1, <3>2
    <2> QED BY <2>5, <2>6
  <1> QED BY <1>1, <1>6, <1>7, <1>8

LEMMA InvScreenShowsState == IInv => ScreenShowsState
  <1> SUFFICES ASSUME IInv
               PROVE  ScreenShowsState
    OBVIOUS
  <1>1. ASSUME pc \in {"poll", "seen"}, todo = <<>>
        PROVE  Shows(buffer)
    BY <1>1, OnDone DEF IInv, Showing
  <1> QED BY <1>1 DEF IInv, DisplayInv, Pictured, Window, ScreenShowsState, At

LEMMA InvRunsSelected == IInv => RunsSelected
  <1> SUFFICES ASSUME IInv
               PROVE  RunsSelected
    OBVIOUS
  <1> USE DEF IInv
  <1>1. Len(list) > 0 => list # <<>>
    OBVIOUS
  <1>2. pc \in {"result", "seen"} /\ Len(list) > 0 => code # "ELF_NOT_FOUND"
    BY <1>1 DEF Looking
  <1>3. ASSUME pc = "user", home = "shell", Len(list) > 0, UniqueName
        PROVE  base = Selected.addr + Block
    <2>1. InShell /\ Len(list) = count /\ selected \in 0 .. Len(list) - 1 /\ Len(list) \in Nat
          /\ DOMAIN list = 1 .. Len(list)
      BY <1>1, <1>3, Constants DEF InShell, ListInv, Window, Listed
    <2>2. PICK i \in 1 .. selected + 1 : base = list[i].addr + Block /\ list[i].name = Selected.name
      BY <1>1, <1>3 DEF Looking
    <2>3. i \in DOMAIN list
      BY <2>1
    <2>4. i = selected + 1
      BY <1>3, <2>2, <2>3 DEF UniqueName
    <2> QED BY <2>2, <2>4 DEF Selected
  <1>4. ASSUME pc = "user", NEW s \in 3 .. Len(Headers)
        PROVE  InPlace(s, Len(Headers))
    <2>1. /\ BlockAt(base).kind = "elf" /\ seg \in Nat /\ seg > Len(Headers)
          /\ seg = 3 \/ seg <= Len(Headers) + 1
          /\ \A r \in 3 .. seg - 1 : InPlace(r, seg - 1)
      BY <1>4 DEF SegmentsInv
    <2>2. Len(Headers) \in Nat
      BY <2>1, HeaderTypes
    <2>3. seg - 1 = Len(Headers)
      BY <2>1, <2>2
    <2> QED BY <2>1, <2>3
  <1> QED BY <1>2, <1>3, <1>4 DEF RunsSelected

\* Within the columns of the panel a pixel is where it is asked for.
LEMMA PixelAt ==
    ASSUME NEW c \in 0 .. 127, NEW r \in Nat
    PROVE  Pixel(c, r) = <<c, r>>
  <1>1. c % 128 = c /\ c \div 128 = 0
    OBVIOUS
  <1>2. (r \div 8) * 8 + (r % 8) = r
    OBVIOUS
  <1>3. (r \div 8 + c \div 128) * 8 + (r % 8) = r
    BY <1>1, <1>2
  <1> QED BY <1>1, <1>3 DEF Pixel, Cols

\* An entry with a name cut to 16 characters lights and clears pixels of ten rows.
LEMMA EntryBox ==
    ASSUME NEW j \in 0 .. 2, NEW n \in 0 .. 16, NEW inverted \in BOOLEAN
    PROVE  Entry(j, n, inverted) \subseteq (0 .. 127) \X (11 * j .. 11 * j + 9)
  <1> DEFINE Box == (0 .. 127) \X (11 * j .. 11 * j + 9)
  <1>1. ASSUME NEW c \in 0 .. 127, NEW r \in 11 * j .. 11 * j + 9
        PROVE  Pixel(c, r) \in Box
    <2>1. r \in Nat
      OBVIOUS
    <2>2. <<c, r>> \in Box
      OBVIOUS
    <2> HIDE DEF Box
    <2> QED BY <2>1, <2>2, PixelAt
  <1> HIDE DEF Box
  <1>2. FilledRect(1, j * 11 + 1, 126, 8) \subseteq Box
    <2>1. \A c \in 1 .. 1 + 126 - 1 : c \in 0 .. 127
      OBVIOUS
    <2>2. \A r \in j * 11 + 1 .. j * 11 + 1 + 8 - 1 : r \in 11 * j .. 11 * j + 9
      OBVIOUS
    <2> QED BY <1>1, <2>1, <2>2 DEF FilledRect
  <1>3. Rect(0, j * 11, 128, 10) \subseteq Box
    <2>1. (\A c \in {0, 0 + 128 - 1} : c \in 0 .. 127) /\ \A c \in 0 + 1 .. 0 + 128 - 2 : c \in 0 .. 127
      OBVIOUS
    <2>2. /\ \A r \in j * 11 .. j * 11 + 10 - 1 : r \in 11 * j .. 11 * j + 9
          /\ \A r \in {j * 11, j * 11 + 10 - 1} : r \in 11 * j .. 11 * j + 9
      OBVIOUS
    <2> QED BY <1>1, <2>1, <2>2 DEF Rect
  <1>4. Text(0, j * 11, n) \subseteq Box
    <2>1. \A c \in 0 .. 8 * n - 1 : (0 + c) % 256 \in 0 .. 127
      OBVIOUS
    <2>2. \A r \in j * 11 .. j * 11 + 7 : r \in 11 * j .. 11 * j + 9
      OBVIOUS
    <2> QED BY <1>1, <2>1, <2>2 DEF Text
  <1> QED BY <1>2, <1>3, <1>4 DEF Entry, Box

\* A text of any length stays in these rows and the six below.
LEMMA StrayBox ==
    ASSUME NEW j \in 0 .. 2, NEW n \in 0 .. 32, NEW inverted \in BOOLEAN
    PROVE  Entry(j, n, inverted) \subseteq (0 .. 127) \X (11 * j .. 11 * j + 15)
  <1> DEFINE Box == (0 .. 127) \X (11 * j .. 11 * j + 15)
  <1>1. FilledRect(1, j * 11 + 1, 126, 8) \cup Rect(0, j * 11, 128, 10) \subseteq Box
    <2>0. 0 \in 0 .. 16 /\ \A b \in BOOLEAN : Entry(j, 0, b) \subseteq (0 .. 127) \X (11 * j .. 11 * j + 9)
      BY EntryBox
    <2>1. Entry(j, 0, TRUE) \subseteq (0 .. 127) \X (11 * j .. 11 * j + 9)
      BY <2>0, Zenon
    <2>2. Entry(j, 0, FALSE) \subseteq (0 .. 127) \X (11 * j .. 11 * j + 9)
      BY <2>0, Zenon
    <2>3. (0 .. 127) \X (11 * j .. 11 * j + 9) \subseteq Box
      OBVIOUS
    <2> HIDE DEF Box
    <2> QED BY <2>1, <2>2, <2>3 DEF Entry
  <1>2. ASSUME NEW x \in 0 .. 255, NEW r \in j * 11 .. j * 11 + 7
        PROVE  Pixel(x, r) \in Box
    <2>1. x % 128 \in 0 .. 127 /\ (x \div 128 = 0 \/ x \div 128 = 1)
      OBVIOUS
    <2>2. (r \div 8) * 8 + (r % 8) = r /\ r \div 8 \in Nat /\ r % 8 \in Nat
      OBVIOUS
    <2>3. (r \div 8 + x \div 128) * 8 + (r % 8) \in {r, r + 8}
      BY <2>1, <2>2
    <2>4. (r \div 8 + x \div 128) * 8 + (r % 8) \in 11 * j .. 11 * j + 15
      BY <2>3
    <2> QED BY <2>1, <2>4 DEF Pixel, Cols
  <1>3. Text(0, j * 11, n) \subseteq Box
    <2>1. \A c \in 0 .. 8 * n - 1 : (0 + c) % 256 \in 0 .. 255
      OBVIOUS
    <2> HIDE DEF Box
    <2> QED BY <1>2, <2>1 DEF Text
  <1> HIDE DEF Box
  <1>4. Entry(j, n, inverted) \subseteq Box
    BY <1>1, <1>3 DEF Entry
  <1> QED BY <1>4 DEF Box

LEMMA InvEntriesApart == IInv => EntriesApart
  <1> SUFFICES ASSUME IInv, pc = "poll", NEW j \in 0 .. 2, NEW n \in Lengths(first + j + 1)
               PROVE  LET pixels == Extent[j][n][first + j = selected]
                          listed == first + j < Len(list)
                      IN /\ listed => pixels \subseteq Band(j)
                         /\ ~listed => \A i \in 0 .. 2 : first + i < Len(list) => pixels \cap Band(i) = {}
                         /\ pixels \subseteq OnScreen \/ (j = 2 /\ Len(list) < FILE_ENTRY_COUNT)
    BY Zenon DEF EntriesApart, At
  <1> DEFINE inverted == first + j = selected
             pixels == Extent[j][n][inverted]
  <1>1. /\ first \in Nat /\ Len(list) \in Nat /\ InShell
        /\ Len(list) >= 3 => first + 3 <= Len(list)
    BY Constants DEF IInv, InShell, Window, ListInv, FILE_ENTRY_COUNT
  <1>2. inverted \in BOOLEAN
    BY Zenon
  <1> HIDE DEF inverted
  <1>3. ASSUME n \in 0 .. 32
        PROVE  pixels = Entry(j, n, inverted)
    BY <1>2, <1>3, Zenon DEF Extent
  <1>4. ASSUME first + j < Len(list)
        PROVE  pixels \subseteq Band(j) /\ pixels \subseteq OnScreen
    <2> DEFINE k == first + j + 1
    <2>1. k \in 1 .. Len(list) /\ ~(k > Len(list)) /\ k <= Len(list)
      BY <1>1, <1>4
    <2> HIDE DEF k
    <2>2. list[k].name \in Names \cup {Garbage}
      <3>1. PICK b \in 0 .. Last :
               IsFile(fs[b]) /\ list[k] = [addr |-> b * Block, name |-> fs[b].name]
        BY <1>1, <2>1, ListedAt DEF IInv
      <3> QED BY <3>1 DEF IInv, FsInv
    <2>3. Lengths(k) = IF list[k].name = Garbage THEN 0 .. 16 ELSE {ShownLength(list[k].name)}
      BY <2>1 DEF Lengths
    <2>4. \A name \in Names : ShownLength(name) \in 0 .. 16
      <3> TAKE name \in Names
      <3>1. NameLength[name] \in Nat
        BY ShellAssumption
      <3> QED BY <3>1 DEF ShownLength
    <2>5. n \in 0 .. 16
      <3>1. n \in Lengths(k)
        BY DEF k
      <3> QED BY <2>2, <2>3, <2>4, <3>1
    <2>6. pixels \subseteq (0 .. 127) \X (11 * j .. 11 * j + 9)
      <3>1. n \in 0 .. 32
        BY <2>5
      <3> QED BY <1>2, <1>3, <2>5, <3>1, EntryBox
    <2> HIDE DEF pixels
    <2>7. 0 .. 127 = 0 .. Cols - 1 /\ 11 * j .. 11 * j + 9 \subseteq 0 .. 31
      BY DEF Cols
    <2>8. (0 .. 127) \X (11 * j .. 11 * j + 9) \subseteq OnScreen
      BY <2>7 DEF OnScreen
    <2> QED BY <2>6, <2>7, <2>8, Zenon DEF Band
  <1>5. ASSUME ~(first + j < Len(list))
        PROVE  /\ \A i \in 0 .. 2 : first + i < Len(list) => pixels \cap Band(i) = {}
               /\ pixels \subseteq OnScreen \/ (j = 2 /\ Len(list) < 3)
    <2>1. n \in 0 .. 32
      <3> DEFINE k == first + j + 1
      <3>1. k > Len(list)
        BY <1>1, <1>5
      <3>2. n \in Lengths(k)
        OBVIOUS
      <3> HIDE DEF k
      <3>3. Lengths(k) = 0 .. 32 \/ Lengths(k) = 0 .. 16
        BY <1>1, <3>1 DEF Lengths
      <3> QED BY <3>2, <3>3
    <2>2. pixels \subseteq (0 .. 127) \X (11 * j .. 11 * j + 15)
      BY <1>2, <1>3, <2>1, StrayBox
    <2> HIDE DEF pixels
    <2>3. ASSUME NEW i \in 0 .. 2, first + i < Len(list)
          PROVE  pixels \cap Band(i) = {}
      <3>1. i < j
        BY <1>1, <1>5, <2>3
      <3>2. \A p \in Band(i) : p[2] \in 11 * i .. 11 * i + 9
        BY DEF Band
      <3>3. \A p \in pixels : p[2] \in 11 * j .. 11 * j + 15
        BY <2>2
      <3>4. ASSUME NEW p \in pixels, p \in Band(i)
            PROVE  FALSE
        <4>1. p[2] \in 11 * i .. 11 * i + 9 /\ p[2] \in 11 * j .. 11 * j + 15
          BY <3>2, <3>3, <3>4
        <4> QED BY <3>1, <4>1
      <3> QED BY <3>4
    <2>4. CASE j \in 0 .. 1
      <3>1. 0 .. 127 = 0 .. Cols - 1 /\ 11 * j .. 11 * j + 15 \subseteq 0 .. 31
        BY <2>4 DEF Cols
      <3>2. (0 .. 127) \X (11 * j .. 11 * j + 15) \subseteq OnScreen
        BY <3>1 DEF OnScreen
      <3>3. pixels \subseteq OnScreen
        BY <2>2, <3>2, Zenon
      <3> QED BY <2>3, <3>3
    <2>5. CASE j = 2
      <3>1. Len(list) < 3
        BY <1>1, <1>5, <2>5
      <3> QED BY <2>3, <2>5, <3>1
    <2> QED BY <2>4, <2>5
  <1> HIDE DEF pixels
  <1>6. CASE first + j < Len(list)
    BY <1>4, <1>6 DEF pixels, inverted
  <1>7. CASE ~(first + j < Len(list))
    BY <1>5, <1>7 DEF pixels, inverted, FILE_ENTRY_COUNT
  <1> QED BY <1>6, <1>7

-----------------------------------------------------------------------------
(* The theorems.                                                           *)

\* The lines and the panel, the addresses of the walks, the list and its count keep
\* their types, whatever is flashed, opened and left behind by programs.
THEOREM TypesKept == Spec => []TypeOK
  <1>1. IInv \/ GoneInv => TypeOK
    BY InvTypeOK DEF GoneInv
  <1> QED BY <1>1, Invariant, PTL

\* The two walks of the shell agree on every image: the array allocated for the count
\* of the first takes all the second finds, and nothing of a complete image is missed.
THEOREM ListIsComplete == Spec => []ListComplete
  <1>1. IInv \/ GoneInv => ListComplete
    BY InvListComplete, GoneSilent
  <1> QED BY <1>1, Invariant, PTL

\* Whenever the shell waits, all the operations of the display have had their effect on
\* the panel, and it shows the window that the next press acts on.
THEOREM ScreenIsRight == Spec => []ScreenShowsState
  <1>1. IInv \/ GoneInv => ScreenShowsState
    BY InvScreenShowsState, GoneSilent
  <1> QED BY <1>1, Invariant, PTL

\* The file opened is found again by its name, and its segments are in user memory as
\* they are in the image, for any number, order and overlap of them.
THEOREM SelectedRuns == Spec => []RunsSelected
  <1>1. IInv \/ GoneInv => RunsSelected
    BY InvRunsSelected, GoneSilent
  <1> QED BY <1>1, Invariant, PTL

\* Nothing is ever sent on SPI2 while it is off, where display_send_byte would wait
\* for ever, although every program may leave it off (display.c:178-187).
TransfersEnd == todo # <<>> /\ Head(todo)[1] \in {"send", "page", "data"} => spi

LEMMA InvTransfersEnd == IInv => TransfersEnd
  <1> SUFFICES ASSUME IInv, todo # <<>>, Head(todo)[1] \in {"send", "page", "data"}
               PROVE  spi
    BY DEF TransfersEnd
  <1>1. CASE pc \in Showing
    <2>1. PICK n \in 0 .. 4 * Pages + 16 : On(n)
      BY <1>1 DEF IInv, DisplayInv, Switched
    <2>2. CASE n < 2
      <3>1. n \in 0 .. Len(OnScript) /\ n # Len(OnScript)
        BY <2>2, OnTable, Constants
      <3>2. Head(todo) = OnScript[n + 1]
        BY <2>1, <3>1, OnTable, RestTail DEF On
      <3>3. n + 1 \in 1 .. 2
        BY <2>2
      <3>4. \A b : <<"spi", b>>[1] = "spi"
        OBVIOUS
      <3>5. FullInit[1][1] = "spi" /\ FullInit[2][1] = "spi"
        BY <3>4, InitOp, Zenon
      <3>6. OnScript[1] = FullInit[1] /\ OnScript[2] = FullInit[2]
        BY OnTable
      <3>7. Head(todo)[1] = "spi"
        BY <3>2, <3>3, <3>5, <3>6
      <3> QED BY <3>7
    <2>3. CASE n >= 2
      BY <2>1, <2>3 DEF On
    <2> QED BY <2>2, <2>3
  <1>2. CASE pc \notin Showing
    <2>1. PICK n \in 0 .. 4 * Pages + 5 : Off(n)
      BY <1>2 DEF IInv, DisplayInv, Switched
    <2>2. n # 4 * Pages + 5
      <3>1. Rest(OffScript, 4 * Pages + 5) = <<>>
        BY OffTable, RestTail, Constants
      <3> QED BY <2>1, <3>1 DEF Off
    <2> QED BY <2>1, <2>2, Constants DEF Off
  <1> QED BY <1>1, <1>2

\* The operations of the display come to an end in every session.
THEOREM NothingWaits == Spec => []TransfersEnd
  <1>1. IInv \/ GoneInv => TransfersEnd
    BY InvTransfersEnd DEF GoneInv, TransfersEnd
  <1> QED BY <1>1, Invariant, PTL

\* What an entry of the list draws stays within its rows of the screen, whatever the
\* names in a damaged image, and no text beyond the end of the list gets into them.
THEOREM EntriesStayApart == Spec => []EntriesApart
  <1>1. IInv \/ GoneInv => EntriesApart
    BY InvEntriesApart, GoneSilent
  <1> QED BY <1>1, Invariant, PTL

\* The voltages of the panel are switched in the order of display_init and display_shutdown,
\* whoever used the display in between.
THEOREM PowerInOrder == Spec => PoweredInOrder
  <1>1. (IInv \/ GoneInv) /\ [Next]_vars =>
           [ /\ "vbat" \notin high' => "vdd" \notin high'
             /\ {"vbat", "vdd"} \cap (high' \ high) # {} => ~panel.lit \/ ~inited ]_vars
    <2> SUFFICES ASSUME IInv \/ GoneInv, [Next]_vars
                 PROVE  LineInv' /\ PoweredStep
      BY DEF LineInv, PoweredStep
    <2>1. CASE IInv /\ pc' \notin Gone
      BY <2>1, DisplayNext DEF IInv, DisplayInv
    <2>2. CASE IInv /\ pc' \in Gone
      BY <2>2, GoneStep DEF GoneInv
    <2>3. CASE GoneInv
      BY <2>3, GoneStays DEF GoneInv
    <2> QED BY <2>1, <2>2, <2>3
  <1> QED BY <1>1, Invariant, PTL DEF Spec, PoweredInOrder
=============================================================================

------------------------------ MODULE LabClock ------------------------------
(***************************************************************************)
(* The three clocks of lab 3 (labs/lab3/valerio): "io" ticks at every pass *)
(* of the main loop, "timer" polls the flag of timer 2, "interrupts" ticks *)
(* in the interrupt routine while the main loop shows primes.              *)
(*                                                                         *)
(* The main loop and the interrupt routine are each what they have left to *)
(* do, a sequence of steps; a byte to the display takes the four steps of  *)
(* spi_send_recv, and the SPI shifts bytes out in its own time.  The       *)
(* display takes a byte as the mode pin says when it has arrived.  A       *)
(* character is one byte for it.  The lights and the delays are left out.  *)
(***************************************************************************)
EXTENDS LabFunctions

CONSTANTS
    Labs,         \* the programs
    Lines, Cols,  \* of the display: 4 lines of 16 characters
    Period,       \* timeouts in a second (10)
    FirstPrime,   \* the initial value of prime
    Pressed,      \* sets of buttons, numbered from 0
    Switches,     \* settings of the switches
    MaxTicks,     \* bound: seconds
    MaxPrime      \* bound: the last prime searched is the first from it on

ASSUME LabAssumption ==
    /\ Labs \subseteq {"io", "timer", "interrupts"}
    /\ Lines \in Nat \ {0} /\ Cols \in Nat \ {0, 1, 2} /\ Period \in Nat \ {0}
    /\ FirstPrime \in Nat \ {0}
    /\ Pressed \subseteq SUBSET (0 .. 2) /\ Switches \subseteq 0 .. 15

VARIABLES
    lab,               \* the program that runs
    main, isr,         \* what the main loop and the interrupt routine have left
    mytime, timeoutcount, prime, textbuffer,
    flag,              \* the timer's interrupt flag
    txb, sr, rbf,      \* SPI2: transmit buffer, shift register, receive buffer full
    mode,              \* the display's mode pin
    panel,             \* the display: where it stands and what it shows
    expired, seen, ticks,   \* timeouts, whether the last was taken, seconds
    clean              \* no update has been run inside another

program == <<lab, mytime, timeoutcount, prime, textbuffer, ticks>>
threads == <<main, isr>>
timer == <<flag, expired, seen>>
spi == <<txb, sr, rbf>>
vars == <<program, threads, timer, spi, mode, panel, clean>>

Rows == 0 .. Lines - 1
Places == 0 .. Cols - 1
None == <<>>
Space == <<"space">>
Icon == <<"icon">>
Spoilt == [page |-> Lines, col |-> 0, ram |-> [r \in Rows |-> [j \in Places |-> <<"spoilt">>]]]

-----------------------------------------------------------------------------
(* The steps of mipslabfunc.c.                                             *)
SendNoWait(b) == << <<"tbe">>, <<"write", b>>, <<"read">> >>   \* mutant: the answer is not waited for
SendWaitFirst(b) == << <<"tbe">>, <<"rbf">>, <<"write", b>>, <<"read">> >>   \* mutant: waited for before the byte
Send(b) == << <<"tbe">>, <<"write", b>>, <<"rbf">>, <<"read">> >>

\* Command mode, the page, the column, data mode; then the bytes of a row.
Address(r, c) == << <<"mode", "command">> >> \o Send(<<"page", r>>) \o Send(<<"column", c>>)
                 \o << <<"mode", "data">> >>
RowOps(r) == Address(r, 0) \o FlattenSeq([j \in 1 .. Cols |-> Send(<<"cell", r, j - 1>>)])
display_update == FlattenSeq([i \in 1 .. Lines |-> RowOps(i - 1)])

\* At the last of the columns.
display_image == FlattenSeq([i \in 1 .. Lines |-> Address(i - 1, Cols - 1) \o Send(<<"icon">>)])

display_string(r, s) ==
    [j \in 1 .. Cols |-> <<"char", r, j - 1, IF j <= Len(s) THEN s[j] ELSE Space>>]

\* A text of two characters that stands for the five of the time, or the digits.
TimeText(t) == << <<"time", t.low \div 256>>, <<"time", t.low % 256>> >>
PrimeText(p) == << <<"prime", p>> >>

Running == IF isr # None THEN isr ELSE main
Go(ops) == IF isr # None THEN isr' = ops /\ main' = main ELSE main' = ops /\ isr' = isr
Do(kind) == Head(Running)[1] = kind /\ Go(Tail(Running))
Arg(n) == Head(Running)[n]
AtLoop == isr = None /\ main = << <<"labwork">> >>

Char ==
    /\ Do("char") /\ textbuffer' = [textbuffer EXCEPT ![Arg(2)][Arg(3)] = Arg(4)]
    /\ UNCHANGED <<lab, mytime, timeoutcount, prime, ticks, timer, spi, mode, panel, clean>>

SetMode == Do("mode") /\ mode' = Arg(2) /\ UNCHANGED <<program, timer, spi, panel, clean>>

\* spi_send_recv
WaitEmpty == Do("tbe") /\ txb = None /\ UNCHANGED <<program, timer, spi, mode, panel, clean>>
Write ==
    /\ Do("write")
    /\ LET b == IF Arg(2)[1] = "cell" THEN <<"cell", textbuffer[Arg(2)[2]][Arg(2)[3]]>> ELSE Arg(2)
       IN IF sr = None THEN sr' = b /\ UNCHANGED txb ELSE txb' = b /\ UNCHANGED sr
    /\ UNCHANGED <<program, timer, rbf, mode, panel, clean>>
WaitReceived == Do("rbf") /\ rbf /\ UNCHANGED <<program, timer, spi, mode, panel, clean>>
Read ==
    /\ Do("read") /\ rbf' = FALSE
    /\ UNCHANGED <<program, timer, txb, sr, mode, panel, clean>>

\* A byte arrives at the display: in the wrong mode, it does harm for good.
Arrive(b) ==
    CASE panel = Spoilt -> Spoilt
      [] b[1] = "page" /\ mode = "command" -> [panel EXCEPT !.page = b[2]]
      [] b[1] = "column" /\ mode = "command" -> [panel EXCEPT !.col = b[2]]
      [] b[1] \in {"cell", "icon"} /\ mode = "data" ->
            [panel EXCEPT !.col = (@ + 1) % Cols, !.ram[panel.page][panel.col] = b]
      [] OTHER -> Spoilt

Shift ==
    /\ sr # None /\ sr' = txb /\ txb' = None /\ rbf' = TRUE
    /\ panel' = Arrive(sr)
    /\ UNCHANGED <<program, threads, timer, mode, clean>>

-----------------------------------------------------------------------------
(* The programs.                                                           *)

\* The digits whose buttons are pressed are set from the switches.
SetDigits(low, btns, sws) ==
    LET Set(h, i) == IF i \in btns THEN WithDigit(h, i + 1, sws) ELSE h
    IN Set(Set(Set(low, 0), 1), 2)

ShowTime(t) == display_string(Lines - 1, TimeText(t)) \o display_update

\* main: the display has been set up; the welcome, the icon, labinit.
Init ==
    /\ lab \in Labs /\ main = display_update \o display_image \o << <<"labinit">> >> /\ isr = None
    /\ mytime = Time(0, 22871) /\ timeoutcount = 0 /\ prime = FirstPrime    \* 0x5957
    /\ textbuffer = [r \in Rows |-> [j \in Places |-> IF j = 0 THEN <<"welcome", r>> ELSE Space]]
    /\ flag = FALSE /\ txb = None /\ sr = None /\ rbf = FALSE /\ mode = "command"
    /\ panel = [page |-> 0, col |-> 0, ram |-> [r \in Rows |-> [j \in Places |-> <<"unknown">>]]]
    /\ expired = 0 /\ seen = TRUE /\ ticks = 0 /\ clean = TRUE

labinit ==
    /\ Head(main)[1] = "labinit" /\ main' = << <<"labwork">> >>
    /\ UNCHANGED <<program, isr, timer, spi, mode, panel, clean>>
Started == \A i \in DOMAIN main : main[i][1] # "labinit"

\* The timer comes round: ten times a second, and never twice before the
\* program has looked, which takes it 2 ms at most.
Expire ==
    /\ lab \in {"timer", "interrupts"} /\ Started /\ seen /\ expired < Period * MaxTicks
    /\ flag' = TRUE /\ expired' = expired + 1 /\ seen' = FALSE
    /\ UNCHANGED <<program, threads, spi, mode, panel, clean>>

\* labwork of io and of timer, once its second is over.
Second(btns, sws) ==
    LET t == Time(mytime.high, SetDigits(mytime.low, btns, sws))
    IN /\ ticks < MaxTicks /\ mytime' = t
       /\ main' = ShowTime(t) \o << <<"tick">> >> \o display_image \o << <<"labwork">> >>

labwork_io ==
    /\ lab = "io" /\ AtLoop
    /\ \E btns \in Pressed, sws \in Switches : Second(btns, sws)
    /\ UNCHANGED <<lab, timeoutcount, prime, textbuffer, ticks, isr, timer, spi, mode, panel, clean>>

labwork_timer ==
    /\ lab = "timer" /\ AtLoop /\ flag
    /\ flag' = FALSE /\ seen' = TRUE
    /\ IF (timeoutcount + 1) % Period = 0
         THEN timeoutcount' = 0 /\ \E btns \in Pressed, sws \in Switches : Second(btns, sws)
         ELSE timeoutcount' = timeoutcount + 1 /\ UNCHANGED <<mytime, main>>
    /\ UNCHANGED <<lab, prime, textbuffer, ticks, isr, expired, spi, mode, panel, clean>>

labwork_interrupts ==
    /\ lab = "interrupts" /\ AtLoop /\ prime < MaxPrime /\ prime' = nextprime(prime)
    /\ main' = display_string(0, PrimeText(prime')) \o display_update \o << <<"labwork">> >>
    /\ UNCHANGED <<lab, mytime, timeoutcount, textbuffer, ticks, isr, timer, spi, mode, panel, clean>>

\* The trampoline enters user_isr, which nothing interrupts.
IsrOpsClearLate == << <<"count">>, <<"clear">> >>   \* mutant: the flag is cleared at the end
IsrOps == << <<"clear">>, <<"count">> >>
Interrupt ==
    /\ lab = "interrupts" /\ Started /\ isr = None /\ flag /\ isr' = IsrOps
    /\ UNCHANGED <<program, main, timer, spi, mode, panel, clean>>

Clear == Do("clear") /\ flag' = FALSE /\ UNCHANGED <<program, expired, seen, spi, mode, panel, clean>>

MidUpdate == ~(main = << <<"labwork">> >>) /\ Len(main) <= Len(display_update)
Count ==
    /\ Head(Running)[1] = "count" /\ seen' = TRUE
    /\ IF timeoutcount + 1 = Period
         THEN /\ timeoutcount' = 0 /\ Go(ShowTime(mytime) \o << <<"tick">> >> \o Tail(Running))
              /\ clean' = (clean /\ ~MidUpdate)
         ELSE timeoutcount' = timeoutcount + 1 /\ Go(Tail(Running)) /\ UNCHANGED clean
    /\ UNCHANGED <<lab, mytime, prime, textbuffer, ticks, flag, expired, spi, mode, panel>>

Tick ==
    /\ Do("tick") /\ mytime' = tick(mytime) /\ ticks' = ticks + 1
    /\ UNCHANGED <<lab, timeoutcount, prime, textbuffer, timer, spi, mode, panel, clean>>

Processor ==
    \/ labinit \/ labwork_io \/ labwork_timer \/ labwork_interrupts
    \/ Interrupt \/ Clear \/ Count \/ Tick
    \/ Char \/ SetMode \/ WaitEmpty \/ Write \/ WaitReceived \/ Read

Next == Processor \/ Shift \/ Expire
Spec == Init /\ [][Next]_vars

\* The processor and the SPI go on; the timer is left free.
FairSpec == Spec /\ WF_vars(Processor) /\ WF_vars(Shift)

-----------------------------------------------------------------------------
(* What the programs promise.                                              *)
Updated == Head(Running)[1] \in {"labwork", "tick"}

\* When an update has been made, by the main loop or by the interrupt routine,
\* the display shows the text as it is in memory, with the icon at its end: every
\* byte has arrived before the mode pin changed.  It holds as long as no update is
\* made inside another, and in "interrupts" between them (mipslabfunc.c:100-195).
DisplayShowsText ==
    (clean /\ Updated) =>
        \A r \in Rows :
            /\ \A j \in 0 .. Cols - 2 : panel.ram[r][j] = <<"cell", textbuffer[r][j]>>
            /\ (lab # "interrupts" /\ AtLoop) => panel.ram[r][Cols - 1] = Icon

\* No timeout is lost, not even one that comes while the display is updated: as
\* many seconds are counted as have passed (interrupts/mipslabwork.c:25-35;
\* timer/mipslabwork.c:46-66).
SecondsKept ==
    (isr = None /\ (lab = "interrupts" \/ (lab = "timer" /\ AtLoop)))
        => expired = Period * ticks + timeoutcount + (IF flag THEN 1 ELSE 0)

Edges == {60 * (60 * (24 * d + h) + m) + s :
             d \in {0, 9, 10, 99}, h \in {0, 9, 19, 23}, m \in {0, 9, 59}, s \in {0, 8, 9, 58, 59}}
EdgesFollow == \A s \in Edges : tick(TimeOf(s)) = TimeOf((s + 1) % AllSeconds)
FirstOver(n, p) == p > n /\ IsPrime(p) /\ \A q \in n + 1 .. p - 1 : ~IsPrime(q)
SmallPrimes == \A n \in 1 .. 60 : FirstOver(n, nextprime(n))
DigitsPrintable == \A d \in 0 .. 15 : hexasc(d) \in (48 .. 57) \cup (65 .. 70)

\* tick follows the calendar, to the last second of the hundred days; nextprime
\* gives the first prime larger than its parameter; and the texts shown read back
\* as the numbers they were made from, whatever digits the switches have set
\* (mipslabfunc.c:37-77, 205-250, 298-328; labwork.S:22-87).
CalculationsRight ==
    /\ EdgesFollow
    /\ \A s \in 3590 .. 3610 : mytime = TimeOf(s) => tick(mytime) = TimeOf(s + 1)
    /\ SmallPrimes /\ FirstOver(prime, nextprime(prime))
    /\ DigitsPrintable /\ ValueOf(itoaconv(prime), 10) = prime
    /\ LET s == time2string(mytime.low)
       IN ValueOf(<<s[1], s[2], s[4], s[5]>>, 16) = mytime.low /\ s[3] = 58

\* No wait for the SPI is for ever: the main loop comes round, whatever interrupts
\* it, as long as no update is made inside another (mipslabfunc.c:100-107).
LoopComesRound == []<>(~clean \/ Head(main)[1] = "labwork")
=============================================================================

--------------------------- MODULE ContextProofs ----------------------------
(***************************************************************************)
(* Theorems about Context, for stacks of every size, programs of every     *)
(* length and calls of every depth.                                        *)
(***************************************************************************)
EXTENDS Context, TLAPS

\* The places a fault leads to: from its vector to the blinking lights, and never
\* to the return from the handler, which FaultIsFinal rules out.
FaultPath ==
    {<<"exc", 0>>, <<"exc", 1>>, <<"exc", 2>>, <<"general_exception", 0>>,
     <<"general_exception", 1>>, <<"blink", 0>>}

FaultInv == cause = {"fault"} => pc \in FaultPath

\* At the start nothing has failed.
LEMMA FaultInit == Init => FaultInv
  BY DEF Init, FaultInv

\* Each step from a place of the path leads to the next one or starts it again;
\* the other steps are taken with no fault pending and raise none.
LEMMA FaultStep == FaultInv /\ [Next]_vars => FaultInv'
  <1> SUFFICES ASSUME FaultInv, [Next]_vars PROVE FaultInv'
    OBVIOUS
  <1> USE DEF FaultInv, FaultPath
  <1>1. CASE Farcall
    BY <1>1 DEF Farcall, SaveSp, CallFar, Push, SaveRa, LoadAddress, UserStackUpper, UserStack,
                Enter, KernelStackUpper, KernelStack, RestoreRa, Pop, BackToKernel, Again, Step, Coprocessor
  <1>2. CASE UserWorks \/ UserCalls \/ UserReturns \/ UserEnds
    BY <1>2 DEF UserWorks, UserCalls, UserReturns, UserEnds, User, Place, Coprocessor
  <1>3. ASSUME NEW flags \in (SUBSET {"rx", "tx", "other"}) \ {{}}, Interrupt(flags)
        PROVE FaultInv'
    <2>1. cause' # {"fault"}
      BY <1>3 DEF Interrupt
    <2> QED BY <2>1
  <1>4. CASE Syscall
    BY <1>4 DEF Syscall, Exception
  <1>5. CASE Fault
    BY <1>5 DEF Fault, Exception
  <1>6. CASE IsrStub
    BY <1>6 DEF IsrStub, Vector, SaveAll, CallIsr, RestoreAll, Step, Coprocessor
  <1>7. CASE DefaultIsr
    BY <1>7 DEF DefaultIsr, Step
  <1>8. CASE ExcStub
    BY <1>8 DEF ExcStub, SaveInK, SwitchStack, CallC, RestoreFromK, Advance, Step
  <1>13. CASE PushFaults
    BY <1>13 DEF PushFaults, Exception
  <1>9. CASE Prologue
    BY <1>9 DEF Prologue, Exception
  <1>10. CASE GeneralException
    BY <1>10 DEF GeneralException, ServiceReturns, UnknownService, ReportFault, Blink, Step
  <1>11. CASE Eret
    BY <1>11 DEF Eret
  <1>12. CASE UNCHANGED vars
    BY <1>12 DEF vars
  <1> QED
    BY <1>1, <1>2, <1>3, <1>4, <1>5, <1>6, <1>7, <1>8, <1>9, <1>10, <1>11, <1>12, <1>13
    DEF Next, Handler

\* After a fault the kernel stays on the way from the vector to the blinking
\* lights: neither the program nor the interrupted system call is gone back to
\* (irq.S:118-127; kernel.c:65-88).
THEOREM FaultTheorem == Spec => []FaultIsFinal
  <1>1. FaultInv => FaultIsFinal
    BY DEF FaultInv, FaultPath, FaultIsFinal
  <1> QED
    BY FaultInit, FaultStep, <1>1, PTL DEF Spec

-----------------------------------------------------------------------------
(* The stacks.  KernelStackKept is not inductive: that a handler gives back *)
(* what it took rests on where each value stands at each of its             *)
(* instructions, and a program's way home on the return addresses on its    *)
(* own stack.  StackInv names them, place by place.                         *)

UserPlaces == {<<"user", i>> : i \in 0 .. CodeSize - 1}
Returns == UserPlaces \cup {<<"far", 7>>}
Words == 1 .. KernelTop \cup UserBottom .. UserTop
Regs == {"ra", "at", "v", "a", "t", "k0", "k1", "sp"}
UserSp == UserTop - MaxCalls .. UserTop

\* farcall's frame is on the kernel's stack and will be found.
Armed(m) == sp_savemem = KernelTop - 1 /\ m[KernelTop - 1] = <<"main", 1>>

\* Code that runs with EXL clear, at p with registers r and stacks m.
Frame(p, r, m) ==
    /\ m[KernelTop] = KernelWord
    /\ \/ p \in {<<"main", 0>>, <<"main", 1>>} /\ r.sp = KernelTop
       \/ p = <<"far", 0>> /\ r.sp = KernelTop /\ r.ra = <<"main", 1>>
       \/ p = <<"far", 1>> /\ r.sp = KernelTop - 1 /\ r.ra = <<"main", 1>>
       \/ p = <<"far", 2>> /\ r.sp = KernelTop - 1 /\ m[KernelTop - 1] = <<"main", 1>>
       \/ /\ p = <<"far", 3>> /\ r.sp = KernelTop - 1 /\ m[KernelTop - 1] = <<"main", 1>>
          /\ r.at = SaveAddress
       \/ p = <<"far", 4>> /\ r.sp = KernelTop - 1 /\ Armed(m)
       \/ p = <<"far", 5>> /\ r.sp = NoStack /\ Armed(m)
       \/ p = <<"far", 6>> /\ r.sp = UserTop /\ Armed(m)
       \/ /\ p \in UserPlaces /\ r.sp \in UserSp /\ Armed(m)
          /\ r.ra \in Returns /\ \A w \in r.sp .. UserTop - 1 : m[w] \in Returns
       \/ p = <<"far", 7>> /\ r.sp \in UserSp /\ Armed(m)
       \/ p = <<"far", 8>> /\ r.sp = NoStack /\ Armed(m)
       \/ p = <<"far", 9>> /\ r.sp = KernelTop - 1 /\ Armed(m)
       \/ p = <<"far", 10>> /\ r.sp = KernelTop - 1 /\ r.ra = <<"main", 1>> /\ Armed(m)
       \/ p = <<"far", 11>> /\ r.sp = KernelTop /\ r.ra = <<"main", 1>>

RegShape(r) == DOMAIN r = Regs /\ r = [x \in Regs |-> r[x]]
MemShape(m) == DOMAIN m = Words /\ m = [w \in Words |-> m[w]]

\* What every handler leaves of the kernel's stack.
KernelPart ==
    /\ mem[KernelTop] = KernelWord
    /\ before.pc \in UserPlaces => Armed(mem)

\* An interrupt: nothing from the stack pointer up is touched, nor the kernel's
\* stack from a program's; the registers are where they were, saved, or back.
InSlots == /\ mem[reg.sp] = before.reg.ra /\ mem[reg.sp + 1] = before.reg.at
           /\ mem[reg.sp + 2] = before.reg.v /\ mem[reg.sp + 3] = before.reg.a
           /\ mem[reg.sp + 4] = before.reg.t
InRegs == \A r \in {"ra", "at", "v", "a", "t"} : reg[r] = before.reg[r]
InterruptPart ==
    /\ epc = before.pc
    /\ before.pc \in HalfMade => pc \in {<<"isr", 0>>, <<"isr", 1>>}
    /\ \A w \in Words : (w >= before.reg.sp \/ (before.reg.sp > KernelTop /\ w <= KernelTop))
                            => mem[w] = before.mem[w]
    /\ \/ pc = <<"isr", 0>> /\ reg.sp = before.reg.sp /\ InRegs
       \/ pc = <<"isr", 1>> /\ reg.sp = before.reg.sp - 5 /\ InRegs
       \/ pc = <<"isr", 2>> /\ reg.sp = before.reg.sp - 5 /\ InSlots
       \/ pc = <<"default_isr", 0>> /\ reg.sp = before.reg.sp - 5 /\ InSlots /\ reg.ra = <<"isr", 3>>
       \/ pc = <<"isr", 3>> /\ reg.sp = before.reg.sp - 5 /\ InSlots
       \/ pc = <<"isr", 4>> /\ reg.sp = before.reg.sp /\ InRegs

\* A system call: nothing from the frame of farcall up is touched.
InK == reg.k0 = before.reg.ra /\ reg.k1 = before.reg.sp
Back == reg.sp = before.reg.sp /\ reg.ra = before.reg.ra /\ reg.v = <<"result", 0>>
SyscallPart ==
    /\ before.pc \in UserPlaces /\ After(before.pc) \in UserPlaces
    /\ \A w \in Words : w >= KernelTop - 1 => mem[w] = before.mem[w]
    /\ \/ pc = <<"exc", 0>> /\ epc = before.pc /\ reg.ra = before.reg.ra /\ reg.sp = before.reg.sp
       \/ pc = <<"exc", 1>> /\ epc = before.pc /\ InK
       \/ pc = <<"exc", 2>> /\ epc = before.pc /\ InK /\ reg.sp = KernelTop - 1
       \/ /\ pc \in {<<"general_exception", 0>>, <<"general_exception", 1>>}
          /\ epc = before.pc /\ InK /\ reg.sp = KernelTop - 1 /\ reg.ra = <<"exc", 3>>
       \/ pc = <<"exc", 3>> /\ epc = before.pc /\ InK /\ reg.v = <<"result", 0>>
       \/ pc = <<"exc", 4>> /\ epc = before.pc /\ Back
       \/ pc = <<"exc", 5>> /\ epc = After(before.pc) /\ Back

\* A fault: the handler is on the stack of sp_savemem, whatever that is.
FaultPart ==
    /\ pc \in FaultPath
    /\ pc \in {<<"exc", 2>>, <<"general_exception", 0>>, <<"general_exception", 1>>}
         => reg.sp = sp_savemem
    /\ pc = <<"general_exception", 1>> => sp_savemem # 0

StackInv ==
    /\ RegShape(reg) /\ MemShape(mem) /\ sp_savemem \in {0, KernelTop - 1} /\ exl \in BOOLEAN
    /\ reg.sp \in -5 .. UserTop
    /\ ~exl => before = <<>> /\ cause = {} /\ Frame(pc, reg, mem)
    /\ exl => /\ before # <<>> /\ RegShape(before.reg) /\ MemShape(before.mem)
              /\ Frame(before.pc, before.reg, before.mem) /\ KernelPart
              /\ \/ cause \in SUBSET {"rx", "tx", "other"} /\ InterruptPart
                 \/ cause = {"syscall"} /\ SyscallPart
                 \/ cause = {"fault"} /\ FaultPart
                 \/ pc = <<"halt", 0>> /\ cause # {"fault"}

-----------------------------------------------------------------------------
(* Where things stand.                                                      *)
LEMMA Sizes ==
    /\ KernelTop \in Nat /\ KernelTop >= 10 /\ UserBottom \in Nat /\ UserTop \in Nat
    /\ MaxCalls \in Nat /\ CodeSize \in Nat \ {0}
    /\ UserBottom > KernelTop /\ UserTop - MaxCalls - 8 >= UserBottom
  BY ContextAssumption

\* EXL is set exactly in the handlers.
LEMMA PlaceOfExl ==
    ASSUME StackInv
    PROVE  /\ exl => pc[1] \in Handling
           /\ ~exl => pc[1] \in {"main", "far", "user"}
  BY DEF StackInv, InterruptPart, SyscallPart, FaultPart, FaultPath, Frame, UserPlaces, Handling


\* What Frame says of a given place.
LEMMA FrameAt ==
    ASSUME NEW p, NEW r, NEW m, Frame(p, r, m)
    PROVE  /\ m[KernelTop] = KernelWord
           /\ p[1] = "main" => r.sp = KernelTop
           /\ p = <<"far", 0>> => r.sp = KernelTop /\ r.ra = <<"main", 1>>
           /\ p = <<"far", 1>> => r.sp = KernelTop - 1 /\ r.ra = <<"main", 1>>
           /\ p = <<"far", 2>> => r.sp = KernelTop - 1 /\ m[KernelTop - 1] = <<"main", 1>>
           /\ p = <<"far", 3>> => /\ r.sp = KernelTop - 1 /\ m[KernelTop - 1] = <<"main", 1>>
                                 /\ r.at = SaveAddress
           /\ p = <<"far", 4>> => r.sp = KernelTop - 1 /\ Armed(m)
           /\ p = <<"far", 5>> => r.sp = NoStack /\ Armed(m)
           /\ p = <<"far", 6>> => r.sp = UserTop /\ Armed(m)
           /\ p[1] = "user" => /\ p \in UserPlaces /\ r.sp \in UserSp /\ Armed(m)
                               /\ r.ra \in Returns /\ \A w \in r.sp .. UserTop - 1 : m[w] \in Returns
           /\ p = <<"far", 7>> => r.sp \in UserSp /\ Armed(m)
           /\ p = <<"far", 8>> => r.sp = NoStack /\ Armed(m)
           /\ p = <<"far", 9>> => r.sp = KernelTop - 1 /\ Armed(m)
           /\ p = <<"far", 10>> => r.sp = KernelTop - 1 /\ r.ra = <<"main", 1>> /\ Armed(m)
           /\ p = <<"far", 11>> => r.sp = KernelTop /\ r.ra = <<"main", 1>>
  BY DEF Frame, UserPlaces

\* Where the stack pointer may stand.
LEMMA FrameSp ==
    ASSUME NEW p, NEW r, NEW m, Frame(p, r, m)
    PROVE  /\ r.sp \in {NoStack, KernelTop, KernelTop - 1} \cup UserSp
           /\ r.sp \in 0 .. UserTop
           /\ p \notin HalfMade => r.sp \in {KernelTop, KernelTop - 1} \cup UserSp
           /\ p \in HalfMade => r.sp = NoStack
  <1>1. UserTop \in UserSp
    BY Sizes DEF UserSp
  <1>2. /\ r.sp \in {NoStack, KernelTop, KernelTop - 1} \cup UserSp
        /\ p \notin HalfMade => r.sp \in {KernelTop, KernelTop - 1} \cup UserSp
        /\ p \in HalfMade => r.sp = NoStack
    BY <1>1 DEF Frame, HalfMade, UserPlaces
  <1>3. r.sp \in 0 .. UserTop
    BY <1>2, Sizes DEF UserSp, NoStack
  <1> QED
    BY <1>2, <1>3

\* The eight words below a frame are on the same stack, unless $sp is half made.
LEMMA RoomBelow ==
    ASSUME NEW p, NEW r, NEW m, Frame(p, r, m), p \notin HalfMade
    PROVE  \A i \in 1 .. 8 : r.sp - i \in Words /\ (r.sp > KernelTop => r.sp - i > KernelTop)
  <1>1. r.sp \in {KernelTop, KernelTop - 1} \cup UserSp
    BY FrameSp
  <1>2. CASE r.sp \in {KernelTop, KernelTop - 1}
    BY <1>2, Sizes DEF Words
  <1>3. CASE r.sp \in UserSp
    BY <1>3, Sizes DEF Words, UserSp
  <1> QED
    BY <1>1, <1>2, <1>3

\* Updates of the registers and of a stack.
LEMMA SetSp ==
    ASSUME NEW r, NEW x, RegShape(r)
    PROVE  /\ RegShape([r EXCEPT !.sp = x]) /\ [r EXCEPT !.sp = x].sp = x
           /\ \A f \in Regs \ {"sp"} : [r EXCEPT !.sp = x][f] = r[f]
  BY DEF RegShape, Regs

LEMMA SetRa ==
    ASSUME NEW r, NEW x, RegShape(r)
    PROVE  /\ RegShape([r EXCEPT !.ra = x]) /\ [r EXCEPT !.ra = x].ra = x
           /\ \A f \in Regs \ {"ra"} : [r EXCEPT !.ra = x][f] = r[f]
  BY DEF RegShape, Regs

LEMMA SetWord ==
    ASSUME NEW m, NEW a \in Words, NEW x, MemShape(m)
    PROVE  /\ MemShape([m EXCEPT ![a] = x]) /\ [m EXCEPT ![a] = x][a] = x
           /\ \A w \in Words \ {a} : [m EXCEPT ![a] = x][w] = m[w]
  BY DEF MemShape

LEMMA UsedWords ==
    ASSUME NEW n \in Nat, MemShape(mem)
    PROVE  /\ MemShape(Used(n))
           /\ \A w \in Words : w \notin reg.sp - n .. reg.sp - 1 => Used(n)[w] = mem[w]
  BY DEF MemShape, Used

LEMMA CalledRegs ==
    ASSUME NEW x, RegShape(reg)
    PROVE  /\ RegShape(Called(x)) /\ Called(x).v = x
           /\ \A f \in {"sp", "ra", "k0", "k1"} : Called(x)[f] = reg[f]
  BY DEF RegShape, Regs, Called

-----------------------------------------------------------------------------
(* The invariant is kept.                                                   *)

\* At the start the kernel is in main with its whole stack.
LEMMA StackStart == Init => StackInv
  <1> SUFFICES ASSUME Init PROVE StackInv
    OBVIOUS
  <1>1. RegShape(reg) /\ reg.sp = KernelTop
    BY DEF Init, RegShape, Regs
  <1>6. mem = [w \in Words |-> IF w = KernelTop THEN KernelWord ELSE Junk] /\ KernelTop \in Words
    BY Sizes DEF Init, Words
  <1>2. MemShape(mem) /\ mem[KernelTop] = KernelWord
    BY <1>6 DEF MemShape
  <1>3. Frame(pc, reg, mem)
    BY <1>1, <1>2 DEF Init, Frame
  <1>4. reg.sp \in -5 .. UserTop
    BY <1>1, Sizes
  <1>5. exl = FALSE /\ before = <<>> /\ cause = {} /\ sp_savemem = 0
    BY DEF Init
  <1> QED
    BY <1>1, <1>2, <1>3, <1>4, <1>5 DEF StackInv

\* Code outside the handlers has to keep its frame only.
LEMMA FrameKeeps ==
    ASSUME StackInv, ~exl, RegShape(reg'), MemShape(mem'), Frame(pc, reg, mem)',
           sp_savemem' \in {0, KernelTop - 1}, UNCHANGED Coprocessor
    PROVE  StackInv'
  <1>1. reg'.sp \in -5 .. UserTop
    <2>1. reg'.sp \in {NoStack, KernelTop, KernelTop - 1, UserTop} \cup UserSp
      BY DEF Frame
    <2> QED
      BY <2>1, Sizes DEF UserSp, NoStack
  <1> QED
    BY <1>1 DEF StackInv, Coprocessor

LEMMA FarcallKeeps == StackInv /\ Farcall => StackInv'
  <1> SUFFICES ASSUME StackInv, Farcall PROVE StackInv'
    OBVIOUS
  <1>1. ~exl
    BY PlaceOfExl DEF Farcall, SaveSp, CallFar, Push, SaveRa, LoadAddress, UserStackUpper,
                      UserStack, Enter, KernelStackUpper, KernelStack, RestoreRa, Pop, BackToKernel, Again, Step, Handling
  <1>2. /\ Frame(pc, reg, mem) /\ RegShape(reg) /\ MemShape(mem)
        /\ sp_savemem \in {0, KernelTop - 1}
    BY <1>1 DEF StackInv
  <1>3. UNCHANGED Coprocessor
    BY DEF Farcall, SaveSp
  <1>4. SUFFICES /\ RegShape(reg') /\ MemShape(mem') /\ Frame(pc, reg, mem)'
                 /\ sp_savemem' \in {0, KernelTop - 1}
    BY <1>1, <1>3, FrameKeeps
  <1>5. mem[KernelTop] = KernelWord /\ {KernelTop, KernelTop - 1} \subseteq Words
    BY <1>2, FrameAt, Sizes DEF Words
  <1>6. CASE SaveSp
    <2>1. reg.sp = KernelTop - 1 /\ mem[KernelTop - 1] = <<"main", 1>> /\ reg.at = SaveAddress
      BY <1>2, <1>6, FrameAt DEF SaveSp, Step
    <2> QED
      BY <1>2, <1>5, <1>6, <2>1 DEF SaveSp, Step, Frame, Armed
  <1>7. CASE CallFar /\ sp_savemem' = sp_savemem
    <2>1. reg.sp = KernelTop
      BY <1>2, <1>7, FrameAt DEF CallFar, Step
    <2>2. RegShape(reg') /\ reg'.sp = KernelTop /\ reg'.ra = <<"main", 1>>
      BY <1>2, <1>7, <2>1, SetRa DEF CallFar, Step, Regs
    <2> QED
      BY <1>2, <1>5, <1>7, <2>2 DEF CallFar, Step, Frame
  <1>8. CASE Push /\ sp_savemem' = sp_savemem
    <2>1. reg.sp = KernelTop /\ reg.ra = <<"main", 1>>
      BY <1>2, <1>8, FrameAt DEF Push, Step
    <2>2. RegShape(reg') /\ reg'.sp = KernelTop - 1 /\ reg'.ra = <<"main", 1>>
      BY <1>2, <1>8, <2>1, SetSp DEF Push, Step, Regs
    <2> QED
      BY <1>2, <1>5, <1>8, <2>2 DEF Push, Step, Frame
  <1>9. CASE SaveRa /\ sp_savemem' = sp_savemem
    <2>1. reg.sp = KernelTop - 1 /\ reg.ra = <<"main", 1>>
      BY <1>2, <1>9, FrameAt DEF SaveRa, Step
    <2>3. mem' = [mem EXCEPT ![KernelTop - 1] = <<"main", 1>>] /\ KernelTop # KernelTop - 1
      BY <1>9, <2>1, Sizes DEF SaveRa, Step
    <2>4. KernelTop - 1 \in Words /\ KernelTop \in Words \ {KernelTop - 1} /\ MemShape(mem)
      BY <1>2, <1>5, <2>3
    <2>2. MemShape(mem') /\ mem'[KernelTop - 1] = <<"main", 1>> /\ mem'[KernelTop] = KernelWord
      <3> DEFINE m == [mem EXCEPT ![KernelTop - 1] = <<"main", 1>>]
      <3>1. MemShape(m) /\ m[KernelTop - 1] = <<"main", 1>> /\ m[KernelTop] = mem[KernelTop]
        BY <2>4, SetWord
      <3> QED
        BY <1>5, <2>3, <3>1
    <2> QED
      BY <1>2, <1>9, <2>1, <2>2 DEF SaveRa, Step, Frame
  <1>17. CASE LoadAddress /\ sp_savemem' = sp_savemem
    <2>1. reg.sp = KernelTop - 1 /\ mem[KernelTop - 1] = <<"main", 1>>
      BY <1>2, <1>17, FrameAt DEF LoadAddress, Step
    <2>2. RegShape(reg') /\ reg'.sp = KernelTop - 1 /\ reg'.at = SaveAddress
      BY <1>2, <1>17, <2>1 DEF LoadAddress, Step, RegShape, Regs
    <2> QED
      BY <1>2, <1>5, <1>17, <2>1, <2>2 DEF LoadAddress, Step, Frame
  <1>18. CASE UserStackUpper /\ sp_savemem' = sp_savemem
    <2>1. Armed(mem)
      BY <1>2, <1>18, FrameAt DEF UserStackUpper, Step
    <2>2. RegShape(reg') /\ reg'.sp = NoStack
      BY <1>2, <1>18, SetSp DEF UserStackUpper, Step
    <2> QED
      BY <1>2, <1>5, <1>18, <2>1, <2>2 DEF UserStackUpper, Step, Frame, Armed
  <1>19. CASE KernelStackUpper /\ sp_savemem' = sp_savemem
    <2>1. Armed(mem)
      BY <1>2, <1>19, FrameAt DEF KernelStackUpper, Step
    <2>2. RegShape(reg') /\ reg'.sp = NoStack
      BY <1>2, <1>19, SetSp DEF KernelStackUpper, Step
    <2> QED
      BY <1>2, <1>5, <1>19, <2>1, <2>2 DEF KernelStackUpper, Step, Frame, Armed
  <1>10. CASE UserStack /\ sp_savemem' = sp_savemem
    <2>1. Armed(mem)
      BY <1>2, <1>10, FrameAt DEF UserStack, Step
    <2>2. RegShape(reg') /\ reg'.sp = UserTop
      BY <1>2, <1>10, SetSp DEF UserStack, Step
    <2> QED
      BY <1>2, <1>5, <1>10, <2>1, <2>2 DEF UserStack, Step, Frame, Armed
  <1>11. CASE Enter /\ sp_savemem' = sp_savemem
    <2>1. reg.sp = UserTop /\ Armed(mem)
      BY <1>2, <1>11, FrameAt DEF Enter, Step
    <2>2. RegShape(reg') /\ reg'.sp = UserTop /\ reg'.ra \in Returns
      BY <1>2, <1>11, <2>1, SetRa DEF Enter, Step, Regs, Returns
    <2>3. UserTop \in UserSp /\ UserTop .. UserTop - 1 = {}
      BY Sizes DEF UserSp
    <2>4. pc' \in UserPlaces
      BY <1>11, Sizes DEF Enter, Step, UserPlaces
    <2> QED
      BY <1>2, <1>5, <1>11, <2>1, <2>2, <2>3, <2>4 DEF Enter, Step, Frame, Armed
  <1>12. CASE KernelStack /\ sp_savemem' = sp_savemem
    <2>1. Armed(mem)
      BY <1>2, <1>12, FrameAt DEF KernelStack, Step
    <2>2. RegShape(reg') /\ reg'.sp = KernelTop - 1
      BY <1>2, <1>12, <2>1, SetSp DEF KernelStack, Step, Armed
    <2> QED
      BY <1>2, <1>5, <1>12, <2>1, <2>2 DEF KernelStack, Step, Frame, Armed
  <1>13. CASE RestoreRa /\ sp_savemem' = sp_savemem
    <2>1. reg.sp = KernelTop - 1 /\ Armed(mem)
      BY <1>2, <1>13, FrameAt DEF RestoreRa, Step
    <2>2. RegShape(reg') /\ reg'.sp = KernelTop - 1 /\ reg'.ra = <<"main", 1>>
      BY <1>2, <1>13, <2>1, SetRa DEF RestoreRa, Step, Armed, Regs
    <2> QED
      BY <1>2, <1>5, <1>13, <2>1, <2>2 DEF RestoreRa, Step, Frame, Armed
  <1>14. CASE Pop /\ sp_savemem' = sp_savemem
    <2>1. reg.sp = KernelTop - 1 /\ reg.ra = <<"main", 1>>
      BY <1>2, <1>14, FrameAt DEF Pop, Step
    <2>2. RegShape(reg') /\ reg'.sp = KernelTop /\ reg'.ra = <<"main", 1>>
      BY <1>2, <1>14, <2>1, SetSp, Sizes DEF Pop, Step, Regs
    <2> QED
      BY <1>2, <1>5, <1>14, <2>2 DEF Pop, Step, Frame
  <1>15. CASE BackToKernel /\ sp_savemem' = sp_savemem
    <2>1. reg.sp = KernelTop /\ reg.ra = <<"main", 1>>
      BY <1>2, <1>15, FrameAt DEF BackToKernel, Step
    <2> QED
      BY <1>2, <1>5, <1>15, <2>1 DEF BackToKernel, Step, Frame
  <1>16. CASE Again /\ sp_savemem' = sp_savemem
    <2>1. reg.sp = KernelTop
      BY <1>2, <1>16, FrameAt DEF Again, Step
    <2>2. RegShape(reg') /\ reg'.sp = KernelTop
      BY <1>2, <1>16, <2>1, CalledRegs DEF Again, Step
    <2>3. MemShape(mem') /\ mem'[KernelTop] = KernelWord
      BY <1>2, <1>5, <1>16, <2>1, UsedWords, Sizes DEF Again, Step
    <2> QED
      BY <1>2, <1>16, <2>2, <2>3 DEF Again, Step, Frame
  <1> QED
    BY <1>6, <1>7, <1>8, <1>9, <1>10, <1>11, <1>12, <1>13, <1>14, <1>15, <1>16,
       <1>17, <1>18, <1>19
    DEF Farcall

\* In a program.
LEMMA UserAt ==
    ASSUME StackInv, Place("user")
    PROVE  /\ ~exl /\ RegShape(reg) /\ MemShape(mem) /\ sp_savemem \in {0, KernelTop - 1}
           /\ mem[KernelTop] = KernelWord /\ Frame(pc, reg, mem)
           /\ pc \in UserPlaces /\ reg.sp \in UserSp /\ reg.sp \in Int /\ Armed(mem)
           /\ reg.ra \in Returns /\ \A w \in reg.sp .. UserTop - 1 : mem[w] \in Returns
  <1>1. ~exl
    BY PlaceOfExl DEF Place, Handling
  <1>2. Frame(pc, reg, mem) /\ pc[1] = "user"
    BY <1>1 DEF StackInv, Place
  <1>3. /\ mem[KernelTop] = KernelWord
        /\ pc \in UserPlaces /\ reg.sp \in UserSp /\ Armed(mem)
        /\ reg.ra \in Returns /\ \A w \in reg.sp .. UserTop - 1 : mem[w] \in Returns
    BY <1>2, FrameAt
  <1>4. reg.sp \in Int
    BY <1>3, Sizes DEF UserSp
  <1> QED
    BY <1>1, <1>2, <1>3, <1>4 DEF StackInv

LEMMA UserKeeps ==
    StackInv /\ (UserWorks \/ UserCalls \/ UserReturns \/ UserEnds) => StackInv'
  <1> SUFFICES ASSUME StackInv, UserWorks \/ UserCalls \/ UserReturns \/ UserEnds
               PROVE  StackInv'
    OBVIOUS
  <1>1. Place("user") /\ UNCHANGED Coprocessor /\ sp_savemem' = sp_savemem
    BY DEF UserWorks, UserCalls, UserReturns, UserEnds, User
  <1>2. /\ ~exl /\ RegShape(reg) /\ MemShape(mem) /\ sp_savemem \in {0, KernelTop - 1}
        /\ mem[KernelTop] = KernelWord
        /\ pc \in UserPlaces /\ reg.sp \in UserSp /\ reg.sp \in Int /\ Armed(mem)
        /\ reg.ra \in Returns /\ \A w \in reg.sp .. UserTop - 1 : mem[w] \in Returns
    BY <1>1, UserAt
  <1>3. SUFFICES RegShape(reg') /\ MemShape(mem') /\ Frame(pc, reg, mem)'
    BY <1>1, <1>2, FrameKeeps
  <1>4. KernelTop \in Words /\ KernelTop - 1 \in Words
    BY Sizes DEF Words
  <1>5. CASE UserWorks
    <2>1. RegShape(reg') /\ reg'.sp = reg.sp /\ reg'.ra = reg.ra
      BY <1>2, <1>5 DEF UserWorks, User, RegShape, Regs
    <2>2. mem' = mem /\ pc' \in UserPlaces
      BY <1>5 DEF UserWorks, User, UserPlaces
    <2> QED
      BY <1>1, <1>2, <2>1, <2>2 DEF Frame, Armed
  <1>6. CASE UserCalls
    <2>1. /\ reg' = [reg EXCEPT !.sp = @ - 1, !.ra = After(pc)]
          /\ mem' = [mem EXCEPT ![reg.sp - 1] = reg.ra]
      BY <1>6 DEF UserCalls, User
    <2>2. RegShape(reg') /\ reg'.sp = reg.sp - 1 /\ reg'.ra = After(pc)
      BY <1>2, <2>1 DEF RegShape, Regs
    <2>3. After(pc) \in Returns /\ pc' \in UserPlaces
      BY <1>2, <1>6, Sizes DEF UserCalls, User, After, Returns, UserPlaces
    <2>4. reg.sp - 1 \in UserSp /\ reg.sp - 1 \in Words /\ reg.sp - 1 > KernelTop
      BY <1>2, <1>6, Sizes DEF UserCalls, UserSp, Words
    <2>5. /\ MemShape(mem') /\ mem'[reg.sp - 1] = reg.ra
          /\ \A w \in Words \ {reg.sp - 1} : mem'[w] = mem[w]
      <3> DEFINE top == reg.sp - 1
      <3>1. top \in Words /\ mem' = [mem EXCEPT ![top] = reg.ra]
        BY <2>1, <2>4
      <3> HIDE DEF top
      <3>2. /\ MemShape(mem') /\ mem'[top] = reg.ra
            /\ \A w \in Words \ {top} : mem'[w] = mem[w]
        BY <1>2, <3>1 DEF MemShape
      <3> QED
        BY <3>2 DEF top
    <2>6. mem'[KernelTop] = mem[KernelTop] /\ mem'[KernelTop - 1] = mem[KernelTop - 1]
      BY <1>4, <2>4, <2>5, Sizes
    <2>7. ASSUME NEW w \in reg.sp - 1 .. UserTop - 1 PROVE mem'[w] \in Returns
      <3>1. CASE w = reg.sp - 1
        BY <1>2, <2>5, <3>1
      <3>2. CASE w # reg.sp - 1
        <4>1. w \in reg.sp .. UserTop - 1 /\ w \in Words
          BY <1>2, <2>4, <3>2, Sizes DEF UserSp, Words
        <4> QED
          BY <1>2, <2>5, <3>2, <4>1
      <3> QED
        BY <3>1, <3>2
    <2> QED
      BY <1>1, <1>2, <2>2, <2>3, <2>4, <2>5, <2>6, <2>7 DEF Frame, Armed
  <1>7. CASE UserReturns
    <2>1. reg' = [reg EXCEPT !.sp = @ + 1, !.ra = mem[reg.sp]] /\ mem' = mem /\ pc' = reg.ra
      BY <1>7 DEF UserReturns, User
    <2>2. RegShape(reg') /\ reg'.sp = reg.sp + 1 /\ reg'.ra = mem[reg.sp]
      BY <1>2, <2>1 DEF RegShape, Regs
    <2>3. pc' \in UserPlaces
      BY <1>2, <1>7, <2>1 DEF UserReturns, Returns
    <2>4. reg.sp + 1 \in UserSp /\ reg.sp \in reg.sp .. UserTop - 1
      BY <1>2, <1>7, Sizes DEF UserReturns, UserSp
    <2>5. /\ mem[reg.sp] \in Returns
          /\ \A w \in reg.sp + 1 .. UserTop - 1 : mem[w] \in Returns
      BY <1>2, <2>4, Sizes
    <2> QED
      BY <1>1, <1>2, <2>1, <2>2, <2>3, <2>4, <2>5 DEF Frame, Armed
  <1>8. CASE UserEnds
    <2>1. reg' = reg /\ mem' = mem /\ pc' = <<"far", 7>>
      BY <1>2, <1>8 DEF UserEnds, User, Returns, UserPlaces
    <2> QED
      BY <1>1, <1>2, <2>1 DEF Frame, Armed
  <1> QED
    BY <1>5, <1>6, <1>7, <1>8

-----------------------------------------------------------------------------
(* Handlers.                                                                *)

\* With the words an interrupt keeps, the kernel's stack is as it was.
LEMMA InterruptLeaves ==
    ASSUME Frame(before.pc, before.reg, before.mem), NEW m,
           \A w \in Words : (w >= before.reg.sp \/ (before.reg.sp > KernelTop /\ w <= KernelTop))
                               => m[w] = before.mem[w]
    PROVE  m[KernelTop] = KernelWord /\ (before.pc \in UserPlaces => Armed(m))
  <1>1. before.mem[KernelTop] = KernelWord
    BY FrameAt
  <1>2. /\ before.reg.sp \in {NoStack, KernelTop, KernelTop - 1} \cup UserSp
        /\ before.pc \in UserPlaces => before.reg.sp \in UserSp /\ Armed(before.mem)
    BY FrameAt, FrameSp DEF UserPlaces
  <1>3. /\ KernelTop \in Words /\ KernelTop - 1 \in Words
        /\ \A w \in UserSp : w > KernelTop
    BY Sizes DEF Words, UserSp
  <1>4. m[KernelTop] = before.mem[KernelTop]
    BY <1>2, <1>3, Sizes DEF NoStack
  <1>5. before.pc \in UserPlaces => m[KernelTop - 1] = before.mem[KernelTop - 1]
    BY <1>2, <1>3, Sizes
  <1> QED
    BY <1>1, <1>2, <1>4, <1>5 DEF Armed

\* So it is with the words a system call keeps.
LEMMA SyscallLeaves ==
    ASSUME Frame(before.pc, before.reg, before.mem), before.pc \in UserPlaces, NEW m,
           \A w \in Words : w >= KernelTop - 1 => m[w] = before.mem[w]
    PROVE  m[KernelTop] = KernelWord /\ Armed(m)
  <1>1. before.mem[KernelTop] = KernelWord /\ Armed(before.mem)
    BY FrameAt DEF UserPlaces
  <1>2. KernelTop \in Words /\ KernelTop - 1 \in Words
    BY Sizes DEF Words
  <1>3. m[KernelTop] = before.mem[KernelTop] /\ m[KernelTop - 1] = before.mem[KernelTop - 1]
    BY <1>2, Sizes
  <1> QED
    BY <1>1, <1>3 DEF Armed

\* What a handler has to keep.
LEMMA HandlerKeeps ==
    ASSUME StackInv, exl, UNCHANGED <<exl, before, sp_savemem>>,
           RegShape(reg'), MemShape(mem'), reg'.sp \in -5 .. UserTop, KernelPart',
           \/ (cause \in SUBSET {"rx", "tx", "other"} /\ InterruptPart)'
           \/ (cause = {"syscall"} /\ SyscallPart)'
           \/ (cause = {"fault"} /\ FaultPart)'
           \/ (pc = <<"halt", 0>> /\ cause # {"fault"})'
    PROVE  StackInv'
  <1>1. Frame(before.pc, before.reg, before.mem)'
    BY DEF StackInv, Frame, Armed
  <1> QED
    BY <1>1 DEF StackInv

\* In the stub of an interrupt and in its C function.
LEMMA IsrAt ==
    ASSUME StackInv, pc[1] \in {"isr", "default_isr"}
    PROVE  /\ exl /\ RegShape(reg) /\ MemShape(mem) /\ sp_savemem \in {0, KernelTop - 1}
           /\ RegShape(before.reg) /\ MemShape(before.mem)
           /\ Frame(before.pc, before.reg, before.mem)
           /\ cause \in SUBSET {"rx", "tx", "other"} /\ InterruptPart
  <1>1. exl
    BY PlaceOfExl
  <1> QED
    BY <1>1 DEF StackInv, SyscallPart, FaultPart, FaultPath

\* In the stub of an exception and in its C function.
LEMMA ExcAt ==
    ASSUME StackInv, pc[1] \in {"exc", "general_exception", "blink"}
    PROVE  /\ exl /\ RegShape(reg) /\ MemShape(mem) /\ sp_savemem \in {0, KernelTop - 1}
           /\ RegShape(before.reg) /\ MemShape(before.mem) /\ KernelPart
           /\ Frame(before.pc, before.reg, before.mem)
           /\ \/ cause = {"syscall"} /\ SyscallPart
              \/ cause = {"fault"} /\ FaultPart
  <1>1. exl
    BY PlaceOfExl
  <1> QED
    BY <1>1 DEF StackInv, InterruptPart

\* An interrupt is entered from a frame.
LEMMA InterruptKeeps ==
    ASSUME StackInv, NEW flags \in (SUBSET {"rx", "tx", "other"}) \ {{}}, Interrupt(flags)
    PROVE  StackInv'
  <1>1. /\ exl' = TRUE /\ epc' = pc /\ cause' \in SUBSET {"rx", "tx", "other"}
        /\ pc' = <<"isr", 0>> /\ reg' = reg /\ mem' = mem /\ sp_savemem' = sp_savemem
        /\ before' = [reg |-> reg, mem |-> mem, pc |-> pc]
    BY DEF Interrupt
  <1>2. /\ RegShape(reg) /\ MemShape(mem) /\ sp_savemem \in {0, KernelTop - 1}
        /\ reg.sp \in -5 .. UserTop /\ Frame(pc, reg, mem)
    BY DEF StackInv, Interrupt
  <1>3. before'.reg = reg /\ before'.mem = mem /\ before'.pc = pc /\ before' # <<>>
    BY <1>1
  <1>4. Frame(before.pc, before.reg, before.mem)'
    BY <1>1, <1>2, <1>3 DEF Frame, Armed
  <1>5. InterruptPart'
    BY <1>1, <1>3 DEF InterruptPart, InRegs
  <1>6. KernelPart'
    <2>1. mem[KernelTop] = KernelWord /\ (pc \in UserPlaces => Armed(mem))
      BY <1>2, FrameAt DEF UserPlaces
    <2> QED
      BY <1>1, <1>3, <2>1 DEF KernelPart, Armed
  <1> QED
    BY <1>1, <1>2, <1>3, <1>4, <1>5, <1>6 DEF StackInv

\* A system call is entered from the frame of a program.
LEMMA SyscallKeeps == StackInv /\ Syscall => StackInv'
  <1> SUFFICES ASSUME StackInv, Syscall PROVE StackInv'
    OBVIOUS
  <1>1. /\ ~exl /\ RegShape(reg) /\ MemShape(mem) /\ sp_savemem \in {0, KernelTop - 1}
        /\ mem[KernelTop] = KernelWord /\ Frame(pc, reg, mem) /\ Armed(mem)
        /\ pc \in UserPlaces
    BY UserAt DEF Syscall
  <1>2. /\ exl' = TRUE /\ epc' = pc /\ cause' = {"syscall"}
        /\ pc' = <<"exc", 0>> /\ reg' = reg /\ mem' = mem /\ sp_savemem' = sp_savemem
        /\ before' = [reg |-> reg, mem |-> mem, pc |-> pc]
    BY <1>1 DEF Syscall, Exception
  <1>3. before'.reg = reg /\ before'.mem = mem /\ before'.pc = pc /\ before' # <<>>
    BY <1>2
  <1>4. Frame(before.pc, before.reg, before.mem)'
    BY <1>1, <1>2, <1>3 DEF Frame, Armed
  <1>5. KernelPart'
    BY <1>1, <1>2, <1>3 DEF KernelPart, Armed
  <1>6. After(pc) \in UserPlaces
    BY <1>1, Sizes DEF Syscall, After, UserPlaces
  <1>7. SyscallPart'
    BY <1>1, <1>2, <1>3, <1>6 DEF SyscallPart
  <1>8. reg.sp \in -5 .. UserTop
    BY DEF StackInv
  <1> QED
    BY <1>1, <1>2, <1>3, <1>4, <1>5, <1>7, <1>8 DEF StackInv

\* A fault comes in a program, in main, or in a system call.
LEMMA FaultKeeps == StackInv /\ Fault => StackInv'
  <1> SUFFICES ASSUME StackInv, Fault PROVE StackInv'
    OBVIOUS
  <1>1. /\ exl' = TRUE /\ cause' = {"fault"} /\ pc' = <<"exc", 0>>
        /\ reg' = reg /\ mem' = mem /\ sp_savemem' = sp_savemem
        /\ before' = IF exl THEN before ELSE [reg |-> reg, mem |-> mem, pc |-> pc]
    BY DEF Fault, Exception
  <1>2. FaultPart'
    BY <1>1 DEF FaultPart, FaultPath
  <1>3. CASE exl
    <2>1. RegShape(reg) /\ MemShape(mem) /\ reg.sp \in -5 .. UserTop /\ KernelPart
      BY <1>3 DEF StackInv
    <2>2. KernelPart'
      BY <1>1, <1>3, <2>1 DEF KernelPart, Armed
    <2> QED
      BY <1>1, <1>2, <1>3, <2>1, <2>2, HandlerKeeps
  <1>4. CASE ~exl
    <2>1. /\ RegShape(reg) /\ MemShape(mem) /\ sp_savemem \in {0, KernelTop - 1}
          /\ reg.sp \in -5 .. UserTop /\ Frame(pc, reg, mem)
      BY <1>4 DEF StackInv
    <2>2. before'.reg = reg /\ before'.mem = mem /\ before'.pc = pc /\ before' # <<>>
      BY <1>1, <1>4
    <2>3. Frame(before.pc, before.reg, before.mem)'
      BY <1>1, <2>1, <2>2 DEF Frame, Armed
    <2>4. KernelPart'
      <3>1. mem[KernelTop] = KernelWord /\ (pc \in UserPlaces => Armed(mem))
        BY <2>1, FrameAt DEF UserPlaces
      <3> QED
        BY <1>1, <2>2, <3>1 DEF KernelPart, Armed
    <2> QED
      BY <1>1, <1>2, <2>1, <2>2, <2>3, <2>4 DEF StackInv
  <1> QED
    BY <1>3, <1>4

\* What the handlers of an interrupt have to keep.
LEMMA InterruptGoesOn ==
    ASSUME StackInv, pc[1] \in {"isr", "default_isr"},
           UNCHANGED <<exl, epc, cause, before, sp_savemem>>,
           RegShape(reg'), MemShape(mem'), InterruptPart', reg'.sp \in -5 .. UserTop
    PROVE  StackInv'
  <1>1. /\ exl /\ Frame(before.pc, before.reg, before.mem)
        /\ cause \in SUBSET {"rx", "tx", "other"}
    BY IsrAt
  <1>2. /\ before' = before /\ sp_savemem' = sp_savemem
        /\ \A w \in Words :
              (w >= before.reg.sp \/ (before.reg.sp > KernelTop /\ w <= KernelTop))
                => mem'[w] = before.mem[w]
    BY DEF InterruptPart
  <1>3. mem'[KernelTop] = KernelWord /\ (before.pc \in UserPlaces => Armed(mem'))
    <2> DEFINE m == mem'
    <2>1. \A w \in Words :
              (w >= before.reg.sp \/ (before.reg.sp > KernelTop /\ w <= KernelTop))
                => m[w] = before.mem[w]
      BY <1>2
    <2> HIDE DEF m
    <2>2. m[KernelTop] = KernelWord /\ (before.pc \in UserPlaces => Armed(m))
      BY <1>1, <2>1, InterruptLeaves
    <2> QED
      BY <2>2 DEF m
  <1>4. KernelPart'
    BY <1>2, <1>3 DEF KernelPart, Armed
  <1> QED
    BY <1>1, <1>4, HandlerKeeps

\* What the handlers of a system call have to keep.
LEMMA SyscallGoesOn ==
    ASSUME StackInv, pc[1] \in {"exc", "general_exception"}, cause = {"syscall"},
           UNCHANGED <<exl, cause, before, sp_savemem>>,
           RegShape(reg'), MemShape(mem'), SyscallPart', reg'.sp \in -5 .. UserTop
    PROVE  StackInv'
  <1>1. exl /\ Frame(before.pc, before.reg, before.mem) /\ before.pc \in UserPlaces
    BY ExcAt DEF SyscallPart
  <1>2. /\ before' = before /\ sp_savemem' = sp_savemem
        /\ \A w \in Words : w >= KernelTop - 1 => mem'[w] = before.mem[w]
    BY DEF SyscallPart
  <1>3. mem'[KernelTop] = KernelWord /\ Armed(mem')
    <2> DEFINE m == mem'
    <2>1. \A w \in Words : w >= KernelTop - 1 => m[w] = before.mem[w]
      BY <1>2
    <2> HIDE DEF m
    <2>2. m[KernelTop] = KernelWord /\ Armed(m)
      BY <1>1, <2>1, SyscallLeaves
    <2> QED
      BY <2>2 DEF m
  <1>4. KernelPart'
    BY <1>2, <1>3 DEF KernelPart, Armed
  <1> QED
    BY <1>1, <1>4, HandlerKeeps

\* The eight words below the interrupted code's frame are free, and its own, unless
\* its stack pointer is half made.
LEMMA IsrRoom ==
    ASSUME StackInv, pc[1] \in {"isr", "default_isr"}
    PROVE  /\ before.reg.sp \in 0 .. UserTop
           /\ before.pc \in HalfMade => before.reg.sp = NoStack
           /\ before.pc \notin HalfMade =>
                \A i \in 1 .. 8 : /\ before.reg.sp - i \in Words
                                  /\ before.reg.sp - i \in 0 .. UserTop
                                  /\ before.reg.sp > KernelTop => before.reg.sp - i > KernelTop
  <1>1. Frame(before.pc, before.reg, before.mem)
    BY IsrAt
  <1>2. before.pc \notin HalfMade =>
          \A i \in 1 .. 8 : /\ before.reg.sp - i \in Words
                            /\ before.reg.sp > KernelTop => before.reg.sp - i > KernelTop
    BY <1>1, RoomBelow
  <1>3. before.reg.sp \in 0 .. UserTop /\ (before.pc \in HalfMade => before.reg.sp = NoStack)
    BY <1>1, FrameSp
  <1>4. Words \subseteq 0 .. UserTop
    BY Sizes DEF Words
  <1> QED
    BY <1>2, <1>3, <1>4

LEMMA IsrStubKeeps == StackInv /\ IsrStub => StackInv'
  <1> SUFFICES ASSUME StackInv, IsrStub PROVE StackInv'
    OBVIOUS
  <1>1. /\ pc[1] = "isr" /\ pc'[1] \in {"isr", "default_isr"}
        /\ UNCHANGED <<exl, epc, cause, before, sp_savemem>>
    BY DEF IsrStub, Vector, SaveAll, CallIsr, RestoreAll, Step, Coprocessor
  <1>2. /\ RegShape(reg) /\ MemShape(mem) /\ RegShape(before.reg) /\ MemShape(before.mem)
        /\ InterruptPart
    BY <1>1, IsrAt
  <1>3. /\ before.reg.sp \in 0 .. UserTop
        /\ before.pc \notin HalfMade =>
             \A i \in 1 .. 8 : /\ before.reg.sp - i \in Words
                               /\ before.reg.sp - i \in 0 .. UserTop
                               /\ before.reg.sp > KernelTop => before.reg.sp - i > KernelTop
    BY <1>1, IsrRoom
  <1>4. SUFFICES RegShape(reg') /\ MemShape(mem') /\ InterruptPart' /\ reg'.sp \in -5 .. UserTop
    BY <1>1, InterruptGoesOn
  <1>5. CASE Vector
    <2>1. reg.sp = before.reg.sp /\ InRegs /\ mem' = mem /\ pc' = <<"isr", 1>>
      BY <1>2, <1>5 DEF Vector, Step, InterruptPart
    <2>2. /\ RegShape(reg') /\ reg'.sp = reg.sp - 5
          /\ \A f \in {"ra", "at", "v", "a", "t"} : reg'[f] = reg[f]
      BY <1>2, <1>5 DEF Vector, Step, RegShape, Regs
    <2>3. reg'.sp \in -5 .. UserTop
      BY <1>3, <2>1, <2>2, Sizes
    <2> QED
      BY <1>1, <1>2, <2>1, <2>2, <2>3 DEF InterruptPart, InRegs
  <1>6. CASE SaveAll
    <2>1. reg.sp = before.reg.sp - 5 /\ InRegs /\ reg' = reg /\ pc' = <<"isr", 2>>
      BY <1>2, <1>6 DEF SaveAll, Step, InterruptPart
    <2>2. mem' = [mem EXCEPT ![reg.sp] = reg.ra, ![reg.sp + 1] = reg.at, ![reg.sp + 2] = reg.v,
                             ![reg.sp + 3] = reg.a, ![reg.sp + 4] = reg.t]
      BY <1>6 DEF SaveAll, Step
    <2>0. before.pc \notin HalfMade
      <3>1. reg.sp \in Words
        BY <1>2, <1>6 DEF SaveAll, MemShape
      <3>2. before.pc \in HalfMade => reg.sp = -5
        BY <1>1, <2>1, IsrRoom DEF NoStack
      <3> QED
        BY <3>1, <3>2, Sizes DEF Words
    <2>3. /\ reg.sp \in Words /\ reg.sp \in -5 .. UserTop
          /\ reg.sp + 1 \in Words /\ reg.sp + 2 \in Words
          /\ reg.sp + 3 \in Words /\ reg.sp + 4 \in Words
      BY <1>3, <2>0, <2>1
    <2>4. /\ MemShape(mem')
          /\ mem'[reg.sp] = reg.ra /\ mem'[reg.sp + 1] = reg.at /\ mem'[reg.sp + 2] = reg.v
          /\ mem'[reg.sp + 3] = reg.a /\ mem'[reg.sp + 4] = reg.t
          /\ \A w \in Words : w \notin reg.sp .. reg.sp + 4 => mem'[w] = mem[w]
      <3> DEFINE s == reg.sp
      <3>1. /\ mem' = [mem EXCEPT ![s] = reg.ra, ![s + 1] = reg.at, ![s + 2] = reg.v,
                                  ![s + 3] = reg.a, ![s + 4] = reg.t]
            /\ s \in Int /\ DOMAIN mem = Words
            /\ s \in Words /\ s + 1 \in Words /\ s + 2 \in Words
            /\ s + 3 \in Words /\ s + 4 \in Words
        BY <1>2, <2>2, <2>3 DEF MemShape
      <3> HIDE DEF s
      <3>2. MemShape(mem')
        BY <3>1 DEF MemShape
      <3>3. mem'[s] = reg.ra /\ mem'[s + 1] = reg.at /\ mem'[s + 2] = reg.v
        BY <3>1
      <3>4. mem'[s + 3] = reg.a /\ mem'[s + 4] = reg.t
        BY <3>1
      <3>5. \A w \in Words : w \notin s .. s + 4 => mem'[w] = mem[w]
        BY <3>1, Sizes DEF Words
      <3> QED
        BY <3>2, <3>3, <3>4, <3>5 DEF s
    <2>5. InSlots'
      BY <1>1, <2>1, <2>4 DEF InSlots, InRegs
    <2>6. ASSUME NEW w \in Words,
                 w >= before.reg.sp \/ (before.reg.sp > KernelTop /\ w <= KernelTop)
          PROVE  mem'[w] = before.mem[w]
      <3>1. w \notin reg.sp .. reg.sp + 4
        BY <1>3, <2>0, <2>1, <2>6, Sizes DEF Words
      <3> QED
        BY <1>2, <2>4, <2>6, <3>1 DEF InterruptPart
    <2> QED
      BY <1>1, <1>2, <2>0, <2>1, <2>3, <2>4, <2>5, <2>6 DEF InterruptPart
  <1>7. CASE CallIsr
    <2>1. /\ reg.sp = before.reg.sp - 5 /\ InSlots /\ mem' = mem /\ pc' = <<"default_isr", 0>>
          /\ before.pc \notin HalfMade
      BY <1>2, <1>7 DEF CallIsr, Step, InterruptPart
    <2>2. RegShape(reg') /\ reg'.sp = reg.sp /\ reg'.ra = <<"isr", 3>>
      BY <1>2, <1>7 DEF CallIsr, Step, RegShape, Regs
    <2>3. reg'.sp \in -5 .. UserTop
      BY <1>3, <2>1, <2>2
    <2> QED
      BY <1>1, <1>2, <2>1, <2>2, <2>3 DEF InterruptPart, InSlots
  <1>8. CASE RestoreAll
    <2>1. /\ reg.sp = before.reg.sp - 5 /\ InSlots /\ mem' = mem /\ pc' = <<"isr", 4>>
          /\ before.pc \notin HalfMade
      BY <1>2, <1>8 DEF RestoreAll, Step, InterruptPart
    <2>2. /\ RegShape(reg') /\ reg'.sp = reg.sp + 5
          /\ reg'.ra = mem[reg.sp] /\ reg'.at = mem[reg.sp + 1] /\ reg'.v = mem[reg.sp + 2]
          /\ reg'.a = mem[reg.sp + 3] /\ reg'.t = mem[reg.sp + 4]
      BY <1>2, <1>8 DEF RestoreAll, Step, RegShape, Regs
    <2>3. reg'.sp = before.reg.sp /\ reg'.sp \in -5 .. UserTop
      BY <1>3, <2>1, <2>2
    <2>4. InRegs'
      BY <1>1, <2>1, <2>2 DEF InRegs, InSlots
    <2> QED
      BY <1>1, <1>2, <2>1, <2>2, <2>3, <2>4 DEF InterruptPart
  <1> QED
    BY <1>5, <1>6, <1>7, <1>8 DEF IsrStub

LEMMA DefaultIsrKeeps == StackInv /\ DefaultIsr => StackInv'
  <1> SUFFICES ASSUME StackInv, DefaultIsr PROVE StackInv'
    OBVIOUS
  <1>1. /\ pc = <<"default_isr", 0>> /\ mem' = Used(3)
        /\ UNCHANGED <<exl, epc, cause, before, sp_savemem>>
    BY DEF DefaultIsr, Step, IsrMemory
  <1>2. /\ exl /\ RegShape(reg) /\ MemShape(mem) /\ InterruptPart
        /\ cause \in SUBSET {"rx", "tx", "other"}
    BY <1>1, IsrAt
  <1>3. /\ before.reg.sp \in 0 .. UserTop
        /\ before.pc \notin HalfMade =>
             \A i \in 1 .. 8 : /\ before.reg.sp - i \in Words
                               /\ before.reg.sp - i \in 0 .. UserTop
                               /\ before.reg.sp > KernelTop => before.reg.sp - i > KernelTop
    BY <1>1, IsrRoom
  <1>4. /\ reg.sp = before.reg.sp - 5 /\ InSlots /\ reg.ra = <<"isr", 3>>
        /\ before.pc \notin HalfMade
    BY <1>1, <1>2 DEF InterruptPart
  <1>5. /\ MemShape(mem')
        /\ \A w \in Words : w \notin reg.sp - 3 .. reg.sp - 1 => mem'[w] = mem[w]
    BY <1>1, <1>2, UsedWords
  <1>6. ASSUME NEW w \in Words,
               w >= before.reg.sp \/ (before.reg.sp > KernelTop /\ w <= KernelTop)
        PROVE  mem'[w] = before.mem[w]
    <2>1. w \notin reg.sp - 3 .. reg.sp - 1
      BY <1>3, <1>4, <1>6, Sizes DEF Words
    <2> QED
      BY <1>2, <1>5, <1>6, <2>1 DEF InterruptPart
  <1>7. reg.sp \in -5 .. UserTop
    BY <1>3, <1>4
  <1>8. CASE pc' = <<"halt", 0>> /\ reg' = reg
    <2>1. Frame(before.pc, before.reg, before.mem)
      BY <1>1, IsrAt
    <2>2. mem'[KernelTop] = KernelWord /\ (before.pc \in UserPlaces => Armed(mem'))
      <3> DEFINE m == mem'
      <3>1. \A w \in Words :
                (w >= before.reg.sp \/ (before.reg.sp > KernelTop /\ w <= KernelTop))
                  => m[w] = before.mem[w]
        BY <1>6
      <3> HIDE DEF m
      <3>2. m[KernelTop] = KernelWord /\ (before.pc \in UserPlaces => Armed(m))
        BY <2>1, <3>1, InterruptLeaves
      <3> QED
        BY <3>2 DEF m
    <2>3. KernelPart'
      BY <1>1, <2>2 DEF KernelPart, Armed
    <2>4. cause' # {"fault"}
      BY <1>1, <1>2
    <2> QED
      BY <1>1, <1>2, <1>5, <1>7, <1>8, <2>3, <2>4, HandlerKeeps
  <1>9. CASE pc' = <<"isr", 3>> /\ reg' = Called(Junk)
    <2>1. RegShape(reg') /\ reg'.sp = reg.sp
      BY <1>2, <1>9, CalledRegs
    <2>2. InSlots'
      <3>1. \A i \in 0 .. 4 : /\ reg.sp + i \in Words
                              /\ reg.sp + i \notin reg.sp - 3 .. reg.sp - 1
        BY <1>3, <1>4
      <3>2. \A i \in 0 .. 4 : mem'[reg.sp + i] = mem[reg.sp + i]
        BY <1>5, <3>1
      <3>3. /\ mem'[reg.sp] = mem[reg.sp] /\ mem'[reg.sp + 1] = mem[reg.sp + 1]
            /\ mem'[reg.sp + 2] = mem[reg.sp + 2] /\ mem'[reg.sp + 3] = mem[reg.sp + 3]
            /\ mem'[reg.sp + 4] = mem[reg.sp + 4]
        BY <1>7, <3>2
      <3> QED
        BY <1>1, <1>4, <2>1, <3>3 DEF InSlots
    <2>3. InterruptPart'
      BY <1>1, <1>2, <1>4, <1>6, <1>9, <2>1, <2>2 DEF InterruptPart
    <2> QED
      BY <1>1, <1>5, <1>7, <2>1, <2>3, InterruptGoesOn
  <1> QED
    BY <1>4, <1>8, <1>9 DEF DefaultIsr, Step

\* A C function on the kernel's stack leaves the frame of farcall and what is above.
LEMMA UsedByKernel ==
    ASSUME NEW n \in Nat, MemShape(mem), reg.sp = KernelTop - 1
    PROVE  /\ MemShape(Used(n))
           /\ \A w \in Words : w >= KernelTop - 1 => Used(n)[w] = mem[w]
           /\ Used(n)[KernelTop] = mem[KernelTop] /\ Used(n)[KernelTop - 1] = mem[KernelTop - 1]
  <1>1. /\ MemShape(Used(n))
        /\ \A w \in Words : w \notin reg.sp - n .. reg.sp - 1 => Used(n)[w] = mem[w]
    BY UsedWords
  <1>2. ASSUME NEW w \in Words, w >= KernelTop - 1 PROVE w \notin reg.sp - n .. reg.sp - 1
    BY <1>2, Sizes DEF Words
  <1>3. \A w \in Words : w >= KernelTop - 1 => Used(n)[w] = mem[w]
    BY <1>1, <1>2
  <1>4. KernelTop \in Words /\ KernelTop - 1 \in Words /\ KernelTop >= KernelTop - 1
    BY Sizes DEF Words
  <1>5. KernelTop - 1 >= KernelTop - 1
    BY Sizes
  <1> QED
    BY <1>1, <1>3, <1>4, <1>5

LEMMA ExcStubKeeps == StackInv /\ ExcStub => StackInv'
  <1> SUFFICES ASSUME StackInv, ExcStub PROVE StackInv'
    OBVIOUS
  <1>1. /\ pc[1] = "exc" /\ mem' = mem
        /\ UNCHANGED <<exl, cause, before, sp_savemem>>
    BY DEF ExcStub, SaveInK, SwitchStack, CallC, RestoreFromK, Advance, Step
  <1>2. /\ exl /\ RegShape(reg) /\ MemShape(mem) /\ sp_savemem \in {0, KernelTop - 1}
        /\ KernelPart /\ Frame(before.pc, before.reg, before.mem)
        /\ \/ cause = {"syscall"} /\ SyscallPart
           \/ cause = {"fault"} /\ FaultPart
    BY <1>1, ExcAt
  <1>3. reg.sp \in -5 .. UserTop /\ sp_savemem \in 0 .. UserTop
    BY <1>2, Sizes DEF StackInv
  <1>4. KernelPart'
    BY <1>1, <1>2 DEF KernelPart, Armed
  <1>5. CASE cause = {"fault"} /\ FaultPart
    <2>1. pc \in {<<"exc", 0>>, <<"exc", 1>>, <<"exc", 2>>}
      BY <1>1, <1>5 DEF FaultPart, FaultPath
    <2>2. RegShape(reg') /\ FaultPart' /\ reg'.sp \in -5 .. UserTop
      <3>1. CASE SaveInK
        <4>1. RegShape(reg') /\ reg'.sp = reg.sp /\ pc' = <<"exc", 1>>
          BY <1>2, <3>1 DEF SaveInK, Step, RegShape, Regs
        <4> QED
          BY <1>3, <4>1 DEF FaultPart, FaultPath
      <3>2. CASE SwitchStack
        <4>1. RegShape(reg') /\ reg'.sp = sp_savemem /\ pc' = <<"exc", 2>>
          BY <1>2, <3>2 DEF SwitchStack, Step, RegShape, Regs
        <4> QED
          BY <1>1, <1>3, <4>1 DEF FaultPart, FaultPath
      <3>3. CASE CallC
        <4>1. /\ RegShape(reg') /\ reg'.sp = reg.sp /\ pc' = <<"general_exception", 0>>
              /\ pc = <<"exc", 2>>
          BY <1>2, <3>3 DEF CallC, Step, RegShape, Regs
        <4> QED
          BY <1>1, <1>3, <1>5, <4>1 DEF FaultPart, FaultPath
      <3> QED
        BY <2>1, <3>1, <3>2, <3>3 DEF ExcStub, RestoreFromK, Advance, Step
    <2> QED
      BY <1>1, <1>2, <1>4, <1>5, <2>2, HandlerKeeps
  <1>6. CASE cause = {"syscall"} /\ SyscallPart
    <2>1. sp_savemem = KernelTop - 1
      BY <1>2, <1>6 DEF KernelPart, SyscallPart, Armed
    <2>2. before.reg.sp \in 0 .. UserTop
      BY <1>2, <1>6, FrameAt, Sizes DEF SyscallPart, UserPlaces, UserSp
    <2>3. SUFFICES RegShape(reg') /\ SyscallPart' /\ reg'.sp \in -5 .. UserTop
      BY <1>1, <1>2, <1>6, SyscallGoesOn
    <2>4. CASE SaveInK /\ epc' = epc
      <3>1. epc = before.pc /\ reg.ra = before.reg.ra /\ reg.sp = before.reg.sp
        BY <1>6, <2>4 DEF SaveInK, Step, SyscallPart
      <3>2. /\ RegShape(reg') /\ reg'.sp = reg.sp /\ pc' = <<"exc", 1>>
            /\ reg'.k0 = reg.ra /\ reg'.k1 = reg.sp
        BY <1>2, <2>4 DEF SaveInK, Step, RegShape, Regs
      <3> QED
        BY <1>1, <1>3, <1>6, <2>4, <3>1, <3>2 DEF SyscallPart, InK
    <2>5. CASE SwitchStack /\ epc' = epc
      <3>1. epc = before.pc /\ InK
        BY <1>6, <2>5 DEF SwitchStack, Step, SyscallPart
      <3>2. /\ RegShape(reg') /\ reg'.sp = sp_savemem /\ pc' = <<"exc", 2>>
            /\ reg'.k0 = reg.k0 /\ reg'.k1 = reg.k1
        BY <1>2, <2>5 DEF SwitchStack, Step, RegShape, Regs
      <3> QED
        BY <1>1, <1>3, <1>6, <2>1, <2>5, <3>1, <3>2 DEF SyscallPart, InK
    <2>6. CASE CallC /\ epc' = epc
      <3>1. epc = before.pc /\ InK /\ reg.sp = KernelTop - 1
        BY <1>6, <2>6 DEF CallC, Step, SyscallPart
      <3>2. /\ RegShape(reg') /\ reg'.sp = reg.sp /\ pc' = <<"general_exception", 0>>
            /\ reg'.k0 = reg.k0 /\ reg'.k1 = reg.k1 /\ reg'.ra = <<"exc", 3>>
        BY <1>2, <2>6 DEF CallC, Step, RegShape, Regs
      <3> QED
        BY <1>1, <1>3, <1>6, <2>6, <3>1, <3>2 DEF SyscallPart, InK
    <2>7. CASE RestoreFromK /\ epc' = epc
      <3>1. epc = before.pc /\ InK /\ reg.v = <<"result", 0>>
        BY <1>6, <2>7 DEF RestoreFromK, Step, SyscallPart
      <3>2. /\ RegShape(reg') /\ reg'.sp = reg.k1 /\ pc' = <<"exc", 4>>
            /\ reg'.ra = reg.k0 /\ reg'.v = reg.v
        BY <1>2, <2>7 DEF RestoreFromK, Step, RegShape, Regs
      <3> QED
        BY <1>1, <1>6, <2>2, <2>7, <3>1, <3>2 DEF SyscallPart, InK, Back
    <2>8. CASE Advance
      <3>1. epc = before.pc /\ Back
        BY <1>6, <2>8 DEF Advance, Step, SyscallPart
      <3>2. /\ RegShape(reg') /\ reg'.sp = reg.sp /\ pc' = <<"exc", 5>> /\ epc' = After(epc)
            /\ reg'.ra = reg.ra /\ reg'.v = reg.v
        BY <1>2, <2>8 DEF Advance, Step, RegShape, Regs
      <3> QED
        BY <1>1, <1>3, <1>6, <3>1, <3>2 DEF SyscallPart, Back
    <2> QED
      BY <2>4, <2>5, <2>6, <2>7, <2>8 DEF ExcStub
  <1> QED
    BY <1>2, <1>5, <1>6

\* The prologue of general_exception: with no stack to store on, it faults again.
LEMMA PrologueKeeps == StackInv /\ Prologue => StackInv'
  <1> SUFFICES ASSUME StackInv, Prologue PROVE StackInv'
    OBVIOUS
  <1>1. /\ pc = <<"general_exception", 0>> /\ reg' = reg /\ sp_savemem' = sp_savemem
    BY DEF Prologue
  <1>2. /\ exl /\ RegShape(reg) /\ MemShape(mem) /\ sp_savemem \in {0, KernelTop - 1}
        /\ KernelPart
        /\ \/ cause = {"syscall"} /\ SyscallPart
           \/ cause = {"fault"} /\ FaultPart
    BY <1>1, ExcAt
  <1>3. reg.sp \in -5 .. UserTop
    BY DEF StackInv
  <1>4. reg.sp \in {0, KernelTop - 1} /\ (cause = {"fault"} => reg.sp = sp_savemem)
    BY <1>1, <1>2 DEF SyscallPart, FaultPart
  <1>5. CASE reg.sp > 2
    <2>1. /\ pc' = <<"general_exception", 1>> /\ mem' = Used(2)
          /\ UNCHANGED <<exl, epc, cause, before>>
      BY <1>5 DEF Prologue
    <2>2. reg.sp = KernelTop - 1 /\ reg.sp # 0
      BY <1>4, <1>5
    <2>3. /\ MemShape(mem') /\ \A w \in Words : w >= KernelTop - 1 => mem'[w] = mem[w]
          /\ mem'[KernelTop] = mem[KernelTop] /\ mem'[KernelTop - 1] = mem[KernelTop - 1]
      BY <1>2, <2>1, <2>2, UsedByKernel
    <2>4. KernelPart'
      BY <1>1, <1>2, <2>1, <2>3 DEF KernelPart, Armed
    <2>5. CASE cause = {"syscall"} /\ SyscallPart
      <3>1. SyscallPart'
        BY <1>1, <2>1, <2>3, <2>5 DEF SyscallPart, InK
      <3> QED
        BY <1>1, <1>2, <1>3, <2>1, <2>3, <2>4, <2>5, <3>1, HandlerKeeps
    <2>6. CASE cause = {"fault"} /\ FaultPart
      <3>1. FaultPart'
        BY <1>1, <1>4, <2>1, <2>2, <2>6 DEF FaultPart, FaultPath
      <3> QED
        BY <1>1, <1>2, <1>3, <2>1, <2>3, <2>4, <2>6, <3>1, HandlerKeeps
    <2> QED
      BY <1>2, <2>5, <2>6
  <1>6. CASE ~(reg.sp > 2)
    <2>1. /\ pc' = <<"exc", 0>> /\ mem' = mem /\ exl' = exl /\ cause' = {"fault"}
          /\ before' = before
      BY <1>2, <1>6 DEF Prologue, Exception, StackInv
    <2>2. FaultPart' /\ KernelPart'
      BY <1>1, <1>2, <2>1 DEF FaultPart, FaultPath, KernelPart, Armed
    <2> QED
      BY <1>1, <1>2, <1>3, <2>1, <2>2, HandlerKeeps
  <1> QED
    BY <1>5, <1>6

\* With a half-made stack pointer the stub of an interrupt faults, before it has
\* touched anything.
LEMMA PushFaultsKeeps == StackInv /\ PushFaults => StackInv'
  <1> SUFFICES ASSUME StackInv, PushFaults PROVE StackInv'
    OBVIOUS
  <1>1. pc = <<"isr", 1>> /\ reg' = reg /\ mem' = mem /\ sp_savemem' = sp_savemem
    BY DEF PushFaults
  <1>2. /\ exl /\ RegShape(reg) /\ MemShape(mem) /\ InterruptPart
        /\ Frame(before.pc, before.reg, before.mem) /\ reg.sp \in -5 .. UserTop
    BY <1>1, IsrAt DEF StackInv
  <1>3. /\ pc' = <<"exc", 0>> /\ exl' = exl /\ cause' = {"fault"} /\ before' = before
    BY <1>2 DEF PushFaults, Exception, StackInv
  <1>4. mem[KernelTop] = KernelWord /\ (before.pc \in UserPlaces => Armed(mem))
    BY <1>2, InterruptLeaves DEF InterruptPart
  <1>5. FaultPart' /\ KernelPart'
    BY <1>1, <1>3, <1>4 DEF FaultPart, FaultPath, KernelPart, Armed
  <1> QED
    BY <1>1, <1>2, <1>3, <1>5, HandlerKeeps

LEMMA GeneralExceptionKeeps == StackInv /\ GeneralException => StackInv'
  <1> SUFFICES ASSUME StackInv, GeneralException PROVE StackInv'
    OBVIOUS
  <1>1. /\ pc \in {<<"general_exception", 1>>, <<"blink", 0>>}
        /\ UNCHANGED <<exl, epc, cause, before, sp_savemem>>
    BY DEF GeneralException, ServiceReturns, UnknownService, ReportFault, Blink, Step
  <1>2. /\ exl /\ RegShape(reg) /\ MemShape(mem) /\ sp_savemem \in {0, KernelTop - 1}
        /\ KernelPart
        /\ \/ cause = {"syscall"} /\ SyscallPart
           \/ cause = {"fault"} /\ FaultPart
    BY <1>1, ExcAt
  <1>3. reg.sp \in -5 .. UserTop
    BY DEF StackInv
  <1>4. CASE Blink
    <2>1. pc' = pc /\ pc = <<"blink", 0>> /\ reg' = reg /\ mem' = mem
      BY <1>4 DEF Blink, Step
    <2>2. cause = {"fault"} /\ FaultPart
      BY <1>2, <2>1 DEF SyscallPart
    <2>3. FaultPart' /\ KernelPart'
      BY <1>1, <1>2, <2>1, <2>2 DEF FaultPart, KernelPart, Armed
    <2> QED
      BY <1>1, <1>2, <1>3, <2>1, <2>2, <2>3, HandlerKeeps
  <1>5. CASE ServiceReturns \/ UnknownService \/ ReportFault
    <2>1. pc = <<"general_exception", 1>> /\ mem' = Used(4)
      BY <1>5 DEF ServiceReturns, UnknownService, ReportFault, Step
    <2>2. reg.sp = KernelTop - 1
      BY <1>2, <2>1 DEF SyscallPart, FaultPart
    <2>3. /\ MemShape(mem') /\ \A w \in Words : w >= KernelTop - 1 => mem'[w] = mem[w]
          /\ mem'[KernelTop] = mem[KernelTop] /\ mem'[KernelTop - 1] = mem[KernelTop - 1]
      BY <1>2, <2>1, <2>2, UsedByKernel
    <2>4. KernelPart'
      BY <1>1, <1>2, <2>3 DEF KernelPart, Armed
    <2>5. CASE ServiceReturns
      <3>1. cause = {"syscall"} /\ SyscallPart
        BY <1>2, <2>5 DEF ServiceReturns
      <3>2. reg.ra = <<"exc", 3>> /\ epc = before.pc /\ InK
        BY <2>1, <3>1 DEF SyscallPart
      <3>3. pc' = <<"exc", 3>> /\ reg' = Called(<<"result", 0>>)
        BY <2>5, <3>2 DEF ServiceReturns, Step
      <3>4. /\ RegShape(reg') /\ reg'.sp = reg.sp /\ reg'.v = <<"result", 0>>
            /\ reg'.k0 = reg.k0 /\ reg'.k1 = reg.k1
        BY <1>2, <3>3, CalledRegs
      <3>5. SyscallPart'
        BY <1>1, <2>3, <3>1, <3>2, <3>3, <3>4 DEF SyscallPart, InK
      <3> QED
        BY <1>1, <1>2, <1>3, <2>3, <2>4, <3>1, <3>4, <3>5, HandlerKeeps
    <2>6. CASE UnknownService
      <3>1. pc' = <<"halt", 0>> /\ reg' = reg /\ cause' # {"fault"}
        BY <1>1, <2>6 DEF UnknownService, Step
      <3> QED
        BY <1>1, <1>2, <1>3, <2>3, <2>4, <3>1, HandlerKeeps
    <2>7. CASE ReportFault
      <3>1. pc' = <<"blink", 0>> /\ reg' = reg /\ cause' = {"fault"}
        BY <1>1, <2>7 DEF ReportFault, Step
      <3>2. FaultPart'
        BY <3>1 DEF FaultPart, FaultPath
      <3> QED
        BY <1>1, <1>2, <1>3, <2>3, <2>4, <3>1, <3>2, HandlerKeeps
    <2> QED
      BY <1>5, <2>5, <2>6, <2>7
  <1> QED
    BY <1>4, <1>5 DEF GeneralException

\* A frame stands when its stack pointer, $ra, $at and its words do.
LEMMA FrameMoves ==
    ASSUME NEW p, NEW r, NEW m, Frame(p, r, m), NEW n,
           NEW s, s.sp = r.sp, s.ra = r.ra, s.at = r.at,
           \A w \in Words : (w >= r.sp \/ (r.sp > KernelTop /\ w <= KernelTop)) => n[w] = m[w]
    PROVE  Frame(p, s, n)
  <1>1. r.sp \in {NoStack, KernelTop, KernelTop - 1} \cup UserSp /\ m[KernelTop] = KernelWord
    BY FrameAt, FrameSp
  <1>2. KernelTop \in Words /\ KernelTop - 1 \in Words /\ \A w \in UserSp : w > KernelTop
    BY Sizes DEF Words, UserSp
  <1>3. n[KernelTop] = m[KernelTop]
    BY <1>1, <1>2, Sizes DEF NoStack
  <1>4. r.sp # KernelTop => n[KernelTop - 1] = m[KernelTop - 1]
    BY <1>1, <1>2, Sizes DEF NoStack
  <1>5. ASSUME r.sp \in UserSp, NEW w \in r.sp .. UserTop - 1 PROVE n[w] = m[w]
    <2>1. w \in Words /\ w >= r.sp
      BY <1>5, Sizes DEF Words, UserSp
    <2> QED
      BY <2>1
  <1>6. /\ KernelTop \notin UserSp /\ KernelTop # KernelTop - 1 /\ UserTop # KernelTop
        /\ NoStack # KernelTop
    BY <1>2, Sizes DEF NoStack
  <1> QED
    BY <1>1, <1>3, <1>4, <1>5, <1>6 DEF Frame, Armed

\* The return from a handler is to a frame.
LEMMA EretKeeps == StackInv /\ Eret => StackInv'
  <1> SUFFICES ASSUME StackInv, Eret PROVE StackInv'
    OBVIOUS
  <1>1. /\ pc' = epc /\ exl' = FALSE /\ cause' = {} /\ before' = <<>>
        /\ reg' = reg /\ mem' = mem /\ sp_savemem' = sp_savemem
    BY DEF Eret
  <1>2. /\ RegShape(reg) /\ MemShape(mem) /\ sp_savemem \in {0, KernelTop - 1}
        /\ reg.sp \in -5 .. UserTop
    BY DEF StackInv
  <1>3. SUFFICES Frame(epc, reg, mem)
    <2>1. Frame(pc, reg, mem)'
      BY <1>1, <1>3 DEF Frame, Armed
    <2> QED
      BY <1>1, <1>2, <2>1 DEF StackInv
  <1>4. CASE pc = <<"isr", 4>>
    <2>1. Frame(before.pc, before.reg, before.mem) /\ InterruptPart
      BY <1>4, IsrAt
    <2>2. /\ epc = before.pc /\ reg.sp = before.reg.sp /\ reg.ra = before.reg.ra
          /\ reg.at = before.reg.at
      BY <1>4, <2>1 DEF InterruptPart, InRegs
    <2>3. \A w \in Words :
              (w >= before.reg.sp \/ (before.reg.sp > KernelTop /\ w <= KernelTop))
                => mem[w] = before.mem[w]
      BY <2>1 DEF InterruptPart
    <2> QED
      BY <2>1, <2>2, <2>3, FrameMoves
  <1>5. CASE pc = <<"exc", 5>>
    <2>1. Frame(before.pc, before.reg, before.mem) /\ SyscallPart /\ KernelPart
      BY <1>5, ExcAt DEF FaultPart, FaultPath
    <2>2. /\ epc = After(before.pc) /\ reg.sp = before.reg.sp /\ reg.ra = before.reg.ra
          /\ before.pc \in UserPlaces /\ epc \in UserPlaces
          /\ \A w \in Words : w >= KernelTop - 1 => mem[w] = before.mem[w]
      BY <1>5, <2>1 DEF SyscallPart, Back
    <2>3. /\ before.reg.sp \in UserSp /\ before.reg.ra \in Returns
          /\ \A w \in before.reg.sp .. UserTop - 1 : before.mem[w] \in Returns
      BY <2>1, <2>2, FrameAt DEF UserPlaces
    <2>4. mem[KernelTop] = KernelWord /\ Armed(mem)
      BY <2>1, <2>2 DEF KernelPart
    <2>5. ASSUME NEW w \in reg.sp .. UserTop - 1 PROVE mem[w] \in Returns
      <3>1. w \in Words /\ w >= KernelTop - 1
        BY <2>2, <2>3, Sizes DEF Words, UserSp
      <3> QED
        BY <2>2, <2>3, <3>1
    <2> QED
      BY <2>2, <2>3, <2>4, <2>5 DEF Frame
  <1> QED
    BY <1>4, <1>5 DEF Eret

LEMMA StackStep == StackInv /\ [Next]_vars => StackInv'
  <1> SUFFICES ASSUME StackInv, [Next]_vars PROVE StackInv'
    OBVIOUS
  <1>1. CASE UNCHANGED vars
    BY <1>1 DEF vars, StackInv, Frame, Armed, KernelPart, InterruptPart, InSlots, InRegs,
                SyscallPart, InK, Back, FaultPart
  <1>2. CASE IsrStub \/ DefaultIsr \/ ExcStub
    BY <1>2, IsrStubKeeps, DefaultIsrKeeps, ExcStubKeeps
  <1>3. CASE PushFaults \/ Prologue \/ GeneralException \/ Eret
    BY <1>3, PushFaultsKeeps, PrologueKeeps, GeneralExceptionKeeps, EretKeeps
  <1>4. CASE Farcall \/ UserWorks \/ UserCalls \/ UserReturns \/ UserEnds
    BY <1>4, FarcallKeeps, UserKeeps
  <1>5. CASE Syscall \/ Fault
    BY <1>5, SyscallKeeps, FaultKeeps
  <1>6. CASE \E flags \in (SUBSET {"rx", "tx", "other"}) \ {{}} : Interrupt(flags)
    BY <1>6, InterruptKeeps
  <1> QED
    BY <1>1, <1>2, <1>3, <1>4, <1>5, <1>6 DEF Next, Handler

\* The frames stand where they should at every instruction of every run.
THEOREM StackTheorem == Spec => []StackInv
  BY StackStart, StackStep, PTL DEF Spec

\* The kernel gets its stack back however often programs are run and interrupted,
\* and finds its return address on it (far.S:6-24; irq.S:119-131).
THEOREM KernelStackTheorem == Spec => []KernelStackKept
  <1>1. ASSUME StackInv PROVE KernelStackKept
    <2>1. mem[KernelTop] = KernelWord
      BY <1>1, FrameAt DEF StackInv, KernelPart
    <2>2. ASSUME Place("main") PROVE reg.sp = KernelTop
      <3>1. ~exl
        BY <1>1, <2>2, PlaceOfExl DEF Place, Handling
      <3> QED
        BY <1>1, <2>2, <3>1, FrameAt DEF StackInv, Place
    <2>3. CASE Place("user")
      <3>1. Armed(mem)
        BY <1>1, <2>3, UserAt
      <3> QED
        BY <2>1, <2>2, <3>1 DEF KernelStackKept, Armed
    <2>4. CASE exl /\ before.pc[1] = "user"
      <3>1. Frame(before.pc, before.reg, before.mem) /\ KernelPart
        BY <1>1, <2>4 DEF StackInv
      <3>2. before.pc \in UserPlaces
        BY <2>4, <3>1, FrameAt
      <3>3. Armed(mem)
        BY <3>1, <3>2 DEF KernelPart
      <3> QED
        BY <2>1, <2>2, <3>3 DEF KernelStackKept, Armed
    <2> QED
      BY <2>1, <2>2, <2>3, <2>4 DEF KernelStackKept, OnUserSide
  <1> QED
    BY StackTheorem, <1>1, PTL

\* A program and the handlers stay in their places, with stack pointers of the
\* stacks, and EXL is set in the handlers and nowhere else (irq.S; far.S).
THEOREM TypeTheorem == Spec => []TypeOK
  <1>1. ASSUME StackInv PROVE TypeOK
    <2>1. sp_savemem \in 0 .. KernelTop /\ reg.sp \in -5 .. UserTop
      BY <1>1, Sizes DEF StackInv
    <2>2. exl = (pc[1] \in Handling) /\ exl = (before # <<>>)
      BY <1>1, PlaceOfExl DEF StackInv, Handling
    <2>3. \/ pc[1] \in Handling \cup {"main", "far"} /\ pc[2] \in 0 .. 11
          \/ Place("user") /\ pc[2] \in 0 .. CodeSize - 1
      <3>1. CASE exl
        BY <1>1, <3>1 DEF StackInv, InterruptPart, SyscallPart, FaultPart, FaultPath, Handling
      <3>2. CASE ~exl
        BY <1>1, <3>2 DEF StackInv, Frame, UserPlaces, Place
      <3> QED
        BY <3>1, <3>2
    <2>4. Place("user") => reg.sp \in UserTop - MaxCalls .. UserTop
      BY <1>1, UserAt DEF UserSp
    <2> QED
      BY <2>1, <2>2, <2>3, <2>4 DEF TypeOK, NoStack
  <1> QED
    BY StackTheorem, <1>1, PTL

\* EXL is cleared by the return from a handler only.
LEMMA OnlyEret ==
    ASSUME [Next]_vars, exl, ~exl'
    PROVE  Eret
  <1>1. CASE Farcall \/ UserWorks \/ UserCalls \/ UserReturns \/ UserEnds
    BY <1>1 DEF Farcall, SaveSp, Coprocessor, UserWorks, UserCalls, UserReturns, UserEnds, User
  <1>2. CASE \E flags \in (SUBSET {"rx", "tx", "other"}) \ {{}} : Interrupt(flags)
    BY <1>2 DEF Interrupt
  <1>3. CASE Syscall \/ Fault
    BY <1>3 DEF Syscall, Fault, Exception
  <1>4. CASE IsrStub \/ DefaultIsr \/ ExcStub
    BY <1>4 DEF IsrStub, DefaultIsr, ExcStub, Coprocessor
  <1>5. CASE PushFaults \/ Prologue
    BY <1>5 DEF PushFaults, Prologue, Exception
  <1>6. CASE GeneralException
    BY <1>6 DEF GeneralException
  <1>7. CASE UNCHANGED vars
    BY <1>7 DEF vars
  <1> QED
    BY <1>1, <1>2, <1>3, <1>4, <1>5, <1>6, <1>7 DEF Next, Handler

\* The first store of an interrupt's stub faults behind the upper halves only.
LEMMA OnlyHalfMadeFaults ==
    ASSUME StackInv, PushFaults
    PROVE  before.pc \in HalfMade
  <1>1. /\ pc = <<"isr", 1>> /\ MemShape(mem) /\ InterruptPart
        /\ Frame(before.pc, before.reg, before.mem) /\ reg.sp \notin DOMAIN mem
    BY IsrAt DEF PushFaults
  <1>2. reg.sp = before.reg.sp - 5 /\ reg.sp \notin Words
    BY <1>1 DEF InterruptPart, MemShape
  <1>3. before.pc \notin HalfMade => before.reg.sp - 5 \in Words
    BY <1>1, RoomBelow
  <1> QED
    BY <1>2, <1>3

\* In the stub of an interrupt nothing else faults.
LEMMA OnlyPushFaults ==
    ASSUME StackInv, [Next]_vars, Place("isr"), cause' = {"fault"}
    PROVE  PushFaults
  <1>1. exl /\ cause # {"fault"} /\ pc[1] = "isr"
    BY IsrAt DEF Place
  <1>2. CASE Farcall
    BY <1>1, <1>2 DEF Farcall, SaveSp, Coprocessor
  <1>3. CASE UserWorks \/ UserCalls \/ UserReturns \/ UserEnds
    BY <1>1, <1>3 DEF UserWorks, UserCalls, UserReturns, UserEnds, User, Coprocessor
  <1>4. CASE \E flags \in (SUBSET {"rx", "tx", "other"}) \ {{}} : Interrupt(flags)
    BY <1>1, <1>4 DEF Interrupt
  <1>5. CASE Syscall \/ Fault
    BY <1>1, <1>5 DEF Syscall, Fault, Place
  <1>6. CASE IsrStub \/ DefaultIsr \/ ExcStub
    BY <1>1, <1>6 DEF IsrStub, DefaultIsr, ExcStub, Coprocessor
  <1>7. CASE Prologue
    BY <1>1, <1>7 DEF Prologue
  <1>8. CASE GeneralException \/ Eret
    BY <1>1, <1>8 DEF GeneralException, Eret
  <1>9. CASE UNCHANGED vars
    BY <1>1, <1>9 DEF vars
  <1> QED
    BY <1>2, <1>3, <1>4, <1>5, <1>6, <1>7, <1>8, <1>9 DEF Next, Handler

\* The interrupted code goes on where it was, with every register but $k0 and
\* $k1, and its stack, as they were; only between the two halves of "li $sp" and of
\* "lw $sp" does an interrupt fail (irq.S:56-108; interrupts.c:20; far.S:13, 20).
THEOREM InterruptTheorem == Spec => InterruptTransparent
  <1>1. ASSUME StackInv, [Next]_vars, Place("isr"), exl, ~exl'
        PROVE  pc' = before.pc /\ Same(DOMAIN reg \ {"k0", "k1"}) /\ StackKept
    <2>0. Eret
      BY <1>1, OnlyEret
    <2>1. Eret /\ pc = <<"isr", 4>>
      BY <1>1, <2>0 DEF Eret, Place
    <2>2. /\ RegShape(reg) /\ MemShape(mem) /\ InterruptPart
      BY <1>1, <2>1, IsrAt
    <2>3. epc = before.pc /\ reg.sp = before.reg.sp /\ InRegs
      BY <2>1, <2>2 DEF InterruptPart
    <2>4. pc' = epc /\ reg' = reg /\ mem' = mem
      BY <2>1 DEF Eret
    <2>5. Same(DOMAIN reg \ {"k0", "k1"})
      BY <2>2, <2>3, <2>4 DEF Same, RegShape, Regs, InRegs
    <2>6. ASSUME NEW w \in DOMAIN mem, w \in before.reg.sp .. UserTop PROVE mem'[w] = before.mem[w]
      <3>1. w \in Words /\ w >= before.reg.sp
        BY <2>2, <2>6 DEF MemShape
      <3> QED
        BY <2>2, <2>4, <3>1 DEF InterruptPart
    <2> QED
      BY <2>3, <2>4, <2>5, <2>6 DEF StackKept
  <1>2. ASSUME StackInv, [Next]_vars, Place("isr"), cause' = {"fault"}
        PROVE  before.pc \in HalfMade
    BY <1>2, OnlyPushFaults, OnlyHalfMadeFaults
  <1>3. StackInv /\ [Next]_vars =>
          [ Place("isr") =>
              /\ (exl /\ ~exl')
                   => pc' = before.pc /\ Same(DOMAIN reg \ {"k0", "k1"}) /\ StackKept
              /\ cause' = {"fault"} => before.pc \in HalfMade ]_vars
    BY <1>1, <1>2
  <1> QED
    BY StackTheorem, <1>3, PTL DEF Spec, InterruptTransparent

\* A program goes on after its system call, with the result, and with its stack
\* and the registers a called function keeps (irq.S:119-140; kernel.c:60-63).
THEOREM SyscallTheorem == Spec => SyscallResumes
  <1>1. ASSUME StackInv, [Next]_vars, Place("exc"), exl, ~exl'
        PROVE  /\ pc' = After(before.pc) /\ reg'.v = <<"result", 0>>
               /\ Same({"sp", "ra"}) /\ StackKept
    <2>0. Eret
      BY <1>1, OnlyEret
    <2>1. Eret /\ pc = <<"exc", 5>>
      BY <1>1, <2>0 DEF Eret, Place
    <2>2. /\ MemShape(mem) /\ SyscallPart /\ Frame(before.pc, before.reg, before.mem)
      BY <1>1, <2>1, ExcAt DEF FaultPart, FaultPath
    <2>3. epc = After(before.pc) /\ Back
      BY <2>1, <2>2 DEF SyscallPart
    <2>4. pc' = epc /\ reg' = reg /\ mem' = mem
      BY <2>1 DEF Eret
    <2>5. Same({"sp", "ra"}) /\ reg'.v = <<"result", 0>>
      BY <2>3, <2>4 DEF Same, Back
    <2>6. before.reg.sp \in UserSp
      BY <2>2, FrameAt DEF SyscallPart, UserPlaces
    <2>7. ASSUME NEW w \in DOMAIN mem, w \in before.reg.sp .. UserTop PROVE mem'[w] = before.mem[w]
      <3>1. w \in Words /\ w >= KernelTop - 1
        BY <2>2, <2>6, <2>7, Sizes DEF MemShape, UserSp
      <3> QED
        BY <2>2, <2>4, <3>1 DEF SyscallPart
    <2> QED
      BY <2>3, <2>4, <2>5, <2>7 DEF StackKept
  <1>2. StackInv /\ [Next]_vars =>
          [ (Place("exc") /\ exl /\ ~exl')
              => /\ pc' = After(before.pc) /\ reg'.v = <<"result", 0>>
                 /\ Same({"sp", "ra"}) /\ StackKept ]_vars
    BY <1>1
  <1> QED
    BY StackTheorem, <1>2, PTL DEF Spec, SyscallResumes
=============================================================================

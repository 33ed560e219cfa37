------------------------------ MODULE Context ------------------------------
(***************************************************************************)
(* What interrupts, system calls, faults and farcall do to the registers   *)
(* and the stacks: the vector stubs and handlers of kernel/irq.S, farcall  *)
(* of kernel/far.S and the C functions they call (default_isr,             *)
(* general_exception, kernel_syscall), which keep to the calling           *)
(* convention.                                                             *)
(*                                                                         *)
(* A program is any sequence of work, calls, system calls and faults; an   *)
(* interrupt may come before every instruction that runs with EXL clear.   *)
(* The instructions are the machine's: of "sw $sp, sp_savemem", of "li"    *)
(* and of "lw $sp, sp_savemem" the assembler makes two each, the first of  *)
(* which sets the upper half of a register only.                           *)
(* Memory holds the kernel's stack and the program's, in words; a place in *)
(* the code is a pair of its function and the number of the instruction.   *)
(* Registers stand for their group: "v" for $v0-$v1, "a" for $a0-$a3, "t"  *)
(* for $t0-$t9; the callee-saved ones are kept by every function.          *)
(***************************************************************************)
EXTENDS Integers, Sequences

CONSTANTS
    KernelTop,    \* the kernel's stack is words 1 .. KernelTop
    UserBottom,   \* the program's is UserBottom .. UserTop
    UserTop,
    CodeSize,     \* instructions of a program
    MaxCalls      \* bound: calls of a program inside each other

ASSUME ContextAssumption ==
    /\ KernelTop \in Nat /\ UserBottom \in Nat /\ UserTop \in Nat
    /\ KernelTop >= 10 /\ UserBottom > KernelTop      \* room for every frame
    /\ CodeSize \in Nat \ {0} /\ MaxCalls \in Nat /\ UserTop - UserBottom >= MaxCalls + 8

VARIABLES
    pc,           \* the next instruction
    reg,          \* the registers
    mem,          \* the stacks
    sp_savemem,   \* the kernel's stack pointer while a program runs
    exl, epc,     \* coprocessor 0: exception level, where to return to
    cause,        \* of the exception or the interrupt handled
    porte,        \* what the lights show
    before        \* registers, stacks and place when the handler was entered (none: <<>>)

vars == <<pc, reg, mem, sp_savemem, exl, epc, cause, porte, before>>

Junk == <<"junk", 0>>       \* what a called function may leave
Live == <<"live", 0>>       \* a value its owner relies on
KernelWord == <<"kernel", 0>>
SaveAddress == <<"address", 0>>   \* of sp_savemem, its upper half
NoStack == 0                \* an address with its lower half missing: no memory below
After(p) == <<p[1], p[2] + 1>>
Place(f) == pc[1] = f

Init ==
    /\ pc = <<"main", 0>>
    /\ reg = [ra |-> Junk, at |-> Junk, v |-> Junk, a |-> Junk, t |-> Junk,
              k0 |-> Junk, k1 |-> 0, sp |-> KernelTop]
    /\ mem = [w \in 1 .. KernelTop \cup UserBottom .. UserTop |->
                IF w = KernelTop THEN KernelWord ELSE Junk]
    /\ sp_savemem = 0
    /\ exl = FALSE /\ epc = Junk /\ cause = {} /\ porte = "off"
    /\ before = <<>>

\* One instruction, or a run of them that nothing can come between.
Step(here, there, r, m) ==
    /\ pc = here /\ pc' = there /\ reg' = r /\ mem' = m
Coprocessor == <<exl, epc, cause, porte, before>>

\* Memory after a called function has used n words below its caller's frame.
Used(n) == [w \in DOMAIN mem |-> IF w \in reg.sp - n .. reg.sp - 1 THEN Junk ELSE mem[w]]
\* The registers after it: the caller-saved ones are lost, v is the result.
Called(result) == [reg EXCEPT !.v = result, !.a = Junk, !.t = Junk, !.at = Junk]

-----------------------------------------------------------------------------
(* farcall.  Instruction 0 is the call in elf_run.                         *)
CallFar == Step(<<"main", 0>>, <<"far", 0>>, [reg EXCEPT !.ra = <<"main", 1>>], mem)
Push == Step(<<"far", 0>>, <<"far", 1>>, [reg EXCEPT !.sp = @ - 1], mem)
SaveRa == Step(<<"far", 1>>, <<"far", 2>>, reg, [mem EXCEPT ![reg.sp] = reg.ra])
LoadAddress == Step(<<"far", 2>>, <<"far", 3>>, [reg EXCEPT !.at = SaveAddress], mem)
UserStackUpper == Step(<<"far", 4>>, <<"far", 5>>, [reg EXCEPT !.sp = NoStack], mem)
UserStack == Step(<<"far", 5>>, <<"far", 6>>, [reg EXCEPT !.sp = UserTop], mem)
Enter == Step(<<"far", 6>>, <<"user", 0>>, [reg EXCEPT !.ra = <<"far", 7>>], mem)
KernelStackUpper == Step(<<"far", 7>>, <<"far", 8>>, [reg EXCEPT !.sp = NoStack], mem)
KernelStack == Step(<<"far", 8>>, <<"far", 9>>, [reg EXCEPT !.sp = sp_savemem], mem)
RestoreRa == Step(<<"far", 9>>, <<"far", 10>>, [reg EXCEPT !.ra = mem[reg.sp]], mem)
PopForgotten == Step(<<"far", 10>>, <<"far", 11>>, reg, mem)   \* mutant: $sp is not put back
Pop == Step(<<"far", 10>>, <<"far", 11>>, [reg EXCEPT !.sp = @ + 1], mem)
BackToKernel == Step(<<"far", 11>>, reg.ra, reg, mem)
Again == Step(<<"main", 1>>, <<"main", 0>>, Called(Junk), Used(2))

\* The store goes where $at points.
SaveSp ==
    /\ Step(<<"far", 3>>, <<"far", 4>>, reg, mem)
    /\ sp_savemem' = IF reg.at = SaveAddress THEN reg.sp ELSE sp_savemem
    /\ UNCHANGED Coprocessor

Farcall ==
    \/ SaveSp
    \/ /\ \/ CallFar \/ Push \/ SaveRa \/ LoadAddress \/ UserStackUpper \/ UserStack \/ Enter
          \/ KernelStackUpper \/ KernelStack \/ RestoreRa \/ Pop \/ BackToKernel \/ Again
       /\ UNCHANGED <<sp_savemem, Coprocessor>>

-----------------------------------------------------------------------------
(* A program: it works, calls its functions, and returns to farcall with   *)
(* whatever stack pointer it has.                                          *)
User(r, m, there) ==
    /\ Place("user") /\ pc' = there /\ reg' = r /\ mem' = m
    /\ UNCHANGED <<sp_savemem, Coprocessor>>

UserWorks ==
    \E i \in 0 .. CodeSize - 1 :
        User([reg EXCEPT !.v = Live, !.a = Live, !.t = Live, !.at = Live], mem, <<"user", i>>)

\* A call of one of its functions, which saves $ra first; and the return.
UserCalls ==
    /\ UserTop - reg.sp < MaxCalls /\ pc[2] + 1 < CodeSize
    /\ User([reg EXCEPT !.sp = @ - 1, !.ra = After(pc)], [mem EXCEPT ![reg.sp - 1] = reg.ra],
            <<"user", 0>>)
UserReturns ==
    /\ reg.ra[1] = "user" /\ reg.sp < UserTop
    /\ User([reg EXCEPT !.sp = @ + 1, !.ra = mem[reg.sp]], mem, reg.ra)

UserEnds == reg.ra[1] = "far" /\ User(reg, mem, reg.ra)

-----------------------------------------------------------------------------
(* Interrupts: __vector_n, _default_isr, default_isr.                      *)

Interrupt(flags) ==
    /\ ~exl /\ exl' = TRUE /\ epc' = pc /\ cause' = flags
    /\ pc' = <<"isr", 0>>
    /\ before' = [reg |-> reg, mem |-> mem, pc |-> pc]
    /\ UNCHANGED <<reg, mem, sp_savemem, porte>>

Vector == Step(<<"isr", 0>>, <<"isr", 1>>,
               [reg EXCEPT !.k0 = Junk, !.k1 = 0, !.sp = @ - 5], mem)
SaveAll ==
    /\ reg.sp \in DOMAIN mem
    /\ Step(<<"isr", 1>>, <<"isr", 2>>, reg,
            [mem EXCEPT ![reg.sp] = reg.ra, ![reg.sp + 1] = reg.at, ![reg.sp + 2] = reg.v,
                        ![reg.sp + 3] = reg.a, ![reg.sp + 4] = reg.t])
CallIsr == Step(<<"isr", 2>>, <<"default_isr", 0>>,
                [reg EXCEPT !.a = <<"vector", reg.k1>>, !.ra = <<"isr", 3>>], mem)
RestoreAll ==
    Step(<<"isr", 3>>, <<"isr", 4>>,
         [reg EXCEPT !.ra = mem[reg.sp], !.at = mem[reg.sp + 1], !.v = mem[reg.sp + 2],
                     !.a = mem[reg.sp + 3], !.t = mem[reg.sp + 4], !.sp = @ + 5],
         mem)

IsrStub ==
    /\ Vector \/ SaveAll \/ CallIsr \/ RestoreAll
    /\ UNCHANGED <<sp_savemem, Coprocessor>>

\* The argument stays in a register: the stub leaves no place for it.
IsrMemoryHome == [Used(3) EXCEPT ![reg.sp] = reg.a]   \* mutant: it is stored in its home
IsrMemory == Used(3)

\* Without the serial port's flags the kernel stops here.
DefaultIsr ==
    /\ IF cause \cap {"rx", "tx"} = {}
         THEN /\ pc = <<"default_isr", 0>> /\ pc' = <<"halt", 0>> /\ porte' = "0x1010"
              /\ reg' = reg /\ mem' = IsrMemory
         ELSE /\ Step(<<"default_isr", 0>>, reg.ra, Called(Junk), IsrMemory) /\ UNCHANGED porte
    /\ UNCHANGED <<sp_savemem, exl, epc, cause, before>>

-----------------------------------------------------------------------------
(* Exceptions: _gen_exception, general_exception, kernel_syscall.          *)

\* With EXL set the place to return to stays that of the first exception.
Exception(code) ==
    /\ exl' = TRUE /\ epc' = (IF exl THEN epc ELSE pc) /\ cause' = {code}
    /\ before' = IF exl THEN before ELSE [reg |-> reg, mem |-> mem, pc |-> pc]
    /\ pc' = <<"exc", 0>>

Syscall ==
    /\ Place("user") /\ pc[2] + 1 < CodeSize /\ Exception("syscall")
    /\ UNCHANGED <<reg, mem, sp_savemem, porte>>

\* A bad address or instruction: in a program, in the kernel while it loads one,
\* or in a system call that is given a bad pointer.
Fault ==
    /\ Place("user") \/ pc = <<"main", 0>> \/ (pc = <<"general_exception", 1>> /\ cause = {"syscall"})
    /\ Exception("fault") /\ UNCHANGED <<reg, mem, sp_savemem, porte>>

\* The first store of _default_isr finds no memory.
PushFaults ==
    /\ pc = <<"isr", 1>> /\ reg.sp \notin DOMAIN mem
    /\ Exception("fault") /\ UNCHANGED <<reg, mem, sp_savemem, porte>>

SaveInK == Step(<<"exc", 0>>, <<"exc", 1>>, [reg EXCEPT !.k0 = reg.ra, !.k1 = reg.sp], mem)
SwitchStack == Step(<<"exc", 1>>, <<"exc", 2>>, [reg EXCEPT !.sp = sp_savemem], mem)
CallC == Step(<<"exc", 2>>, <<"general_exception", 0>>, [reg EXCEPT !.ra = <<"exc", 3>>], mem)
RestoreFromKOnlyRa ==   \* mutant: the program is left on the kernel's stack
    Step(<<"exc", 3>>, <<"exc", 4>>, [reg EXCEPT !.ra = reg.k0], mem)
RestoreFromK == Step(<<"exc", 3>>, <<"exc", 4>>, [reg EXCEPT !.sp = reg.k1, !.ra = reg.k0], mem)
AdvanceStays ==   \* mutant: the system call is executed again
    Step(<<"exc", 4>>, <<"exc", 5>>, [reg EXCEPT !.k0 = epc], mem) /\ UNCHANGED epc
Advance ==
    Step(<<"exc", 4>>, <<"exc", 5>>, [reg EXCEPT !.k0 = After(epc)], mem) /\ epc' = After(epc)

ExcStub ==
    /\ \/ Advance
       \/ (SaveInK \/ SwitchStack \/ CallC \/ RestoreFromK) /\ UNCHANGED epc
    /\ UNCHANGED <<sp_savemem, exl, cause, porte, before>>

\* The prologue of general_exception stores on the stack it is given.
Prologue ==
    /\ pc = <<"general_exception", 0>>
    /\ IF reg.sp > 2
         THEN /\ pc' = <<"general_exception", 1>> /\ mem' = Used(2)
              /\ UNCHANGED <<exl, epc, cause, before>>
         ELSE Exception("fault") /\ UNCHANGED mem
    /\ UNCHANGED <<reg, sp_savemem, porte>>

\* A system call returns its result, waits for its input, or has an unknown
\* number; a fault is shown and reported, and ends here.
ServiceReturns ==
    /\ cause = {"syscall"}
    /\ Step(<<"general_exception", 1>>, reg.ra, Called(<<"result", 0>>), Used(4))
    /\ UNCHANGED porte
UnknownService ==
    /\ cause = {"syscall"} /\ Step(<<"general_exception", 1>>, <<"halt", 0>>, reg, Used(4))
    /\ UNCHANGED porte
ReportFaultReturns ==   \* mutant: after the report the handler returns
    /\ cause = {"fault"}
    /\ Step(<<"general_exception", 1>>, reg.ra, Called(Junk), Used(4)) /\ porte' = "code"
ReportFault ==
    /\ cause = {"fault"} /\ Step(<<"general_exception", 1>>, <<"blink", 0>>, reg, Used(4))
    /\ porte' = "code"
Blink ==
    /\ Step(<<"blink", 0>>, <<"blink", 0>>, reg, mem)
    /\ porte' = IF porte = "code" THEN "0xff" ELSE "code"

GeneralException ==
    /\ ServiceReturns \/ UnknownService \/ ReportFault \/ Blink
    /\ UNCHANGED <<sp_savemem, exl, epc, cause, before>>

Eret ==
    /\ pc \in {<<"isr", 4>>, <<"exc", 5>>}
    /\ pc' = epc /\ exl' = FALSE /\ epc' = Junk /\ cause' = {}
    /\ before' = <<>> /\ UNCHANGED <<reg, mem, sp_savemem, porte>>

-----------------------------------------------------------------------------
Handler == IsrStub \/ PushFaults \/ DefaultIsr \/ ExcStub \/ Prologue \/ GeneralException \/ Eret

Next ==
    \/ Farcall \/ UserWorks \/ UserCalls \/ UserReturns \/ UserEnds
    \/ \E flags \in (SUBSET {"rx", "tx", "other"}) \ {{}} : Interrupt(flags)
    \/ Syscall \/ Fault \/ Handler

Spec == Init /\ [][Next]_vars

\* The processor executes the handlers' instructions.
FairSpec == Spec /\ WF_vars(Handler)
-----------------------------------------------------------------------------
(* What the code relies on.                                                *)
Handling == {"isr", "default_isr", "exc", "general_exception", "blink", "halt"}
TypeOK ==
    /\ \/ pc[1] \in Handling \cup {"main", "far"} /\ pc[2] \in 0 .. 11
       \/ Place("user") /\ pc[2] \in 0 .. CodeSize - 1
    /\ reg.sp \in NoStack - 5 .. UserTop /\ sp_savemem \in 0 .. KernelTop
    /\ Place("user") => reg.sp \in UserTop - MaxCalls .. UserTop
    /\ exl = (pc[1] \in Handling) /\ exl = (before # <<>>)

OnUserSide == Place("user") \/ (exl /\ before.pc[1] = "user")

\* However often programs are run and interrupted, and whatever they do with
\* their own stack, the kernel gets back the stack it had, and its return
\* address while one runs (far.S:6-24; irq.S:119-131).
KernelStackKept ==
    /\ mem[KernelTop] = KernelWord
    /\ Place("main") => reg.sp = KernelTop
    /\ OnUserSide => sp_savemem = KernelTop - 1 /\ mem[sp_savemem] = <<"main", 1>>

Same(names) == \A r \in names : reg'[r] = before.reg[r]
StackKept == \A w \in DOMAIN mem : w \in before.reg.sp .. UserTop => mem'[w] = before.mem[w]

\* $sp is half made: behind the upper halves of "li" and "lw" in farcall.
HalfMade == {<<"far", 5>>, <<"far", 8>>}

\* An interrupt that returns goes on where it was, with every register but $k0
\* and $k1, and its stack, as they were; its handler fails only if it came between
\* the two halves of "li $sp" or "lw $sp", where it has no stack to save to
\* (irq.S:56-108; interrupts.c:20; far.S:13, 20).
InterruptTransparent ==
    [][ Place("isr") =>
          /\ (exl /\ ~exl')
               => pc' = before.pc /\ Same(DOMAIN reg \ {"k0", "k1"}) /\ StackKept
          /\ cause' = {"fault"} => before.pc \in HalfMade ]_vars

\* A program goes on after its system call, with the result, and with its stack
\* and the registers a called function keeps (irq.S:119-140; kernel.c:60-63).
SyscallResumes ==
    [][ (Place("exc") /\ exl /\ ~exl')
          => /\ pc' = After(before.pc) /\ reg'.v = <<"result", 0>>
             /\ Same({"sp", "ra"}) /\ StackKept ]_vars

\* After a fault neither the program nor the kernel is gone back to, not even
\* from a fault inside a system call (kernel.c:65-90).
FaultIsFinal ==
    cause = {"fault"} => pc[1] \in {"exc", "general_exception", "blink"} /\ pc # <<"exc", 3>>

\* A fault is shown: "Show error code in case something fails later down the
\* line" (kernel.c:66).
FaultShown == cause = {"fault"} ~> porte = "code"
=============================================================================

----------------------------- MODULE PageStore -----------------------------
(***************************************************************************)
(* What eeprom.c promises: a memory written a page at a time.  A page is   *)
(* taken only when the page before it is stored, is stored as a whole, and *)
(* a byte is read only when no page is pending.  A page may be cut short   *)
(* after any number of its bytes; the call goes on with the next page and  *)
(* counts only the bytes taken.  An interrupted call leaves the pages      *)
(* taken so far; loss of power may leave the pending one half written.     *)
(***************************************************************************)
EXTENDS Integers, Sequences

CONSTANTS MemSize, PageSize, AddrSpace, Writes, Reads, MaxSize

VARIABLES
    mem,      \* the bytes stored
    pending,  \* the page being stored: a byte or Empty for each address
    calling,  \* a call is under way
    op, from, size,  \* the call and its arguments
    addr, left,      \* where its next page goes, and the bytes left
    written, got,    \* what it returns
    calls            \* the number of calls

vars == <<mem, pending, calling, op, from, size, addr, left, written, got, calls>>
state == <<mem, pending>>
args == <<op, from, size, calls>>

Empty == -1
Addr == 0 .. MemSize - 1
NoPage == [a \in Addr |-> Empty]

\* Byte k of the data of a call, different from that of every other call.
Stamp(k) == (calls - 1) * MaxSize + k + 1

Chunk == IF left < PageSize THEN left ELSE PageSize

\* Where byte k of a page sent to address a ends up: pages are rings.
InPage(a, k) == LET base == ((a % MemSize) \div PageSize) * PageSize
                IN base + (((a % PageSize) + k) % PageSize)

\* The first n bytes of the next page.
Page(n) ==
    [a \in Addr |->
        IF \E k \in 0 .. n - 1 : a = InPage(addr, k)
        THEN Stamp(size - left + CHOOSE k \in 0 .. n - 1 : a = InPage(addr, k))
        ELSE Empty]

Init ==
    /\ mem = [a \in Addr |-> 0] /\ pending = NoPage /\ calling = FALSE
    /\ op = "none" /\ from = 0 /\ size = 0 /\ addr = 0 /\ left = 0
    /\ written = 0 /\ got = <<>> /\ calls = 0

Call(o, a, n) ==
    /\ ~calling
    /\ op' = o /\ from' = a /\ size' = n /\ addr' = a /\ left' = n
    /\ written' = 0 /\ got' = <<>> /\ calls' = calls + 1
    /\ calling' = (o = "read" \/ n # 0)
    /\ UNCHANGED state

\* The next page is taken, or its first n bytes.
TakePage(n) ==
    /\ calling /\ op = "write" /\ pending = NoPage
    /\ pending' = Page(n)
    /\ written' = written + n
    /\ addr' = (addr + Chunk) % AddrSpace /\ left' = left - Chunk
    /\ calling' = (left' # 0)
    /\ UNCHANGED <<mem, args, got>>

\* Reading goes on from an address, the right one unless the chip refused it.
Get(a) ==
    /\ calling /\ op = "read" /\ pending = NoPage /\ Len(got) < size
    /\ got' = Append(got, mem[a])
    /\ UNCHANGED <<state, calling, args, addr, left, written>>

Return ==
    /\ calling /\ op = "read" /\ Len(got) = size
    /\ calling' = FALSE
    /\ UNCHANGED <<state, args, addr, left, written, got>>

PageStored ==
    /\ mem' = [a \in Addr |-> IF pending[a] = Empty THEN mem[a] ELSE pending[a]]
    /\ pending' = NoPage
    /\ UNCHANGED <<calling, args, addr, left, written, got>>

\* The call is interrupted.
Interrupt ==
    /\ calling' = FALSE /\ op' = "none"
    /\ UNCHANGED <<state, from, size, calls, addr, left, written, got>>

\* Power is lost: the pending page is stored in part.
PowerLoss ==
    /\ \A a \in Addr : mem'[a] \in IF pending[a] = Empty THEN {mem[a]} ELSE {mem[a], pending[a]}
    /\ mem' = [a \in Addr |-> mem'[a]]
    /\ pending' = NoPage /\ calling' = FALSE /\ op' = "none"
    /\ UNCHANGED <<from, size, calls, addr, left, written, got>>

Next ==
    \/ \E w \in Writes : Call("write", w[1], w[2])
    \/ \E r \in Reads : Call("read", r[1], r[2])
    \/ \E n \in 0 .. Chunk : TakePage(n)
    \/ \E a \in Addr : Get(a)
    \/ Return \/ PageStored \/ Interrupt \/ PowerLoss

Spec == Init /\ [][Next]_vars
=============================================================================

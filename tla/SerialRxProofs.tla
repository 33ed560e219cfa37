--------------------------- MODULE SerialRxProofs ---------------------------
(***************************************************************************)
(* Theorems about SerialRx, for every size of the ring, every depth of the *)
(* FIFO and every number of bytes.                                         *)
(*                                                                         *)
(* InOrder is not inductive: that the next byte delivered is newer than    *)
(* the last one rests on the order of the bytes that wait in the ring,     *)
(* read round from the tail, on all of them being older than those in the  *)
(* FIFO, and on where tail may stand while it is not yet reduced.  OrderInv*)
(* is that strengthening.  It needs no exception for the lap window: there *)
(* the ring loses its bytes, but what is left is still in order.           *)
(***************************************************************************)
EXTENDS SerialRx, TLAPS

\* Distance from the tail, going round the ring.
Rank(j) == IF First <= j THEN j - First ELSE j - First + RxSize

\* Byte b was sent, is newer than all the kernel got, is not with the user
\* program, and is older than all in the FIFO.
Undelivered(b) ==
    /\ b \in 1 .. sent
    /\ \A i \in 1 .. Len(kgot) : kgot[i] < b
    /\ \A i \in 1 .. Len(ugot) : ugot[i] # b
    /\ \A i \in 1 .. Len(fifo) : b < fifo[i]

\* tail is unreduced only inside a read, and one beyond the claimed slot.
TailPlace ==
    /\ tail = RxSize => pc \in {"fetch", "wrap"}
    /\ pc = "fetch" => tail = slot + 1

RingOrder ==
    /\ \A i, j \in Unread : Rank(i) < Rank(j) => buffer[i] < buffer[j]
    /\ \A j \in Unread : Undelivered(buffer[j])

ClaimedOrder ==
    pc = "fetch" => /\ Undelivered(buffer[slot])
                    /\ \A j \in Unread : buffer[slot] < buffer[j]

FifoOrder ==
    /\ Increasing(fifo)
    /\ \A i \in 1 .. Len(fifo) :
          /\ fifo[i] \in 1 .. sent
          /\ \A k \in 1 .. Len(kgot) : kgot[k] < fifo[i]
          /\ \A k \in 1 .. Len(ugot) : ugot[k] < fifo[i]

GotOrder ==
    /\ Increasing(kgot) /\ Increasing(ugot)
    /\ \A i \in 1 .. Len(kgot) : kgot[i] \in 1 .. sent
    /\ \A i \in 1 .. Len(ugot) : ugot[i] \in 1 .. sent
    /\ \A i \in 1 .. Len(kgot), j \in 1 .. Len(ugot) : kgot[i] # ugot[j]

OrderInv == RingOrder /\ ClaimedOrder /\ FifoOrder /\ GotOrder

-----------------------------------------------------------------------------
(* Reduction modulo the size, on the range of values it is applied to.     *)
LEMMA WrapValue ==
    ASSUME NEW i \in 0 .. RxSize
    PROVE  Wrap(i) = IF i = RxSize THEN 0 ELSE i
  <1>1. RxSize \in Nat \ {0}
    BY SizesAssumption
  <1>2. CASE i < RxSize
    BY <1>1, <1>2 DEF Wrap
  <1>3. CASE i = RxSize
    BY <1>1, <1>3 DEF Wrap
  <1> QED BY <1>1, <1>2, <1>3

\* The next slot, as the handler and the readers compute it.
LEMMA NextSlot ==
    ASSUME NEW h \in Slots
    PROVE  Wrap(h + 1) \in Slots /\ Wrap(h + 1) = IF h = RxSize - 1 THEN 0 ELSE h + 1
  BY WrapValue, SizesAssumption DEF Slots

\* Appending to and taking from a queue of bytes.
LEMMA TailElems ==
    ASSUME NEW s \in Seq(Nat), s # <<>>
    PROVE  /\ Tail(s) \in Seq(Nat) /\ Len(Tail(s)) = Len(s) - 1
           /\ \A i \in 1 .. Len(Tail(s)) : Tail(s)[i] = s[i + 1]
           /\ Head(s) = s[1] /\ Len(s) >= 1 /\ Head(s) \in Nat
  OBVIOUS

LEMMA AppendElems ==
    ASSUME NEW s \in Seq(Nat), NEW b \in Nat
    PROVE  /\ Append(s, b) \in Seq(Nat) /\ Len(Append(s, b)) = Len(s) + 1
           /\ \A i \in 1 .. Len(s) : Append(s, b)[i] = s[i]
           /\ Append(s, b)[Len(s) + 1] = b
  OBVIOUS

LEMMA AppendAbove ==
    ASSUME NEW s \in Seq(Nat), NEW c \in Nat, NEW b \in Nat, b < c,
           \A i \in 1 .. Len(s) : b < s[i]
    PROVE  \A i \in 1 .. Len(Append(s, c)) : b < Append(s, c)[i]
  <1> SUFFICES ASSUME NEW i \in 1 .. Len(Append(s, c)) PROVE b < Append(s, c)[i]
    OBVIOUS
  <1>1. i \in 1 .. Len(s) \/ i = Len(s) + 1
    BY AppendElems
  <1> QED BY <1>1, AppendElems

LEMMA AppendIncreasing ==
    ASSUME NEW s \in Seq(Nat), NEW b \in Nat, Increasing(s),
           \A i \in 1 .. Len(s) : s[i] < b
    PROVE  Increasing(Append(s, b))
  BY AppendElems DEF Increasing

LEMMA TailIncreasing ==
    ASSUME NEW s \in Seq(Nat), s # <<>>, Increasing(s)
    PROVE  /\ Increasing(Tail(s))
           /\ \A i \in 1 .. Len(Tail(s)) : Head(s) < Tail(s)[i]
  BY TailElems DEF Increasing

-----------------------------------------------------------------------------
\* TypeOK is inductive together with the place of tail: a read claims a slot
\* only from a tail that has been reduced.
TypeInv == TypeOK /\ TailPlace

LEMMA TypeInit == Init => TypeInv
  <1> SUFFICES ASSUME Init PROVE TypeInv
    OBVIOUS
  <1>1. /\ buffer \in [Slots -> Nat] /\ head \in Slots
        /\ tail \in 0 .. RxSize /\ slot \in Slots
    BY SizesAssumption DEF Init, Slots
  <1>2. TypeOK
    BY <1>1 DEF Init, TypeOK
  <1>3. TailPlace
    BY SizesAssumption DEF Init, TailPlace
  <1> QED BY <1>2, <1>3 DEF TypeInv

LEMMA TypeStep == TypeInv /\ [Next]_vars => TypeInv'
  <1> SUFFICES ASSUME TypeInv, [Next]_vars
               PROVE  TypeInv'
    OBVIOUS
  <1> USE SizesAssumption DEF TypeInv, TypeOK, TailPlace, uart, ring, call, trap
  <1>1. CASE Arrive
    <2>1. sent' \in Nat /\ sent' = sent + 1
      BY <1>1 DEF Arrive
    <2>2. Append(fifo, sent + 1) \in Seq(Nat)
      BY AppendElems
    <2>3. fifo' \in Seq(Nat) /\ rxif' \in BOOLEAN
      BY <1>1, <2>2 DEF Arrive
    <2> QED BY <1>1, <2>1, <2>3 DEF Arrive
  <1>2. CASE TxEmpty
    BY <1>2 DEF TxEmpty
  <1>3. CASE IsrEnter
    BY <1>3 DEF IsrEnter
  <1>4. CASE IsrByte
    <2>1. fifo' \in Seq(Nat) /\ Head(fifo) \in Nat
      BY <1>4, TailElems DEF IsrByte, Store
    <2>2. Wrap(head + 1) \in Slots
      BY NextSlot
    <2>3. buffer' \in [Slots -> Nat] /\ head' \in Slots
      BY <1>4, <2>1, <2>2 DEF IsrByte, Store
    <2> QED BY <1>4, <2>1, <2>3 DEF IsrByte, Store
  <1>5. CASE IsrDrained
    BY <1>5 DEF IsrDrained
  <1>6. CASE IsrClear
    BY <1>6 DEF IsrClear
  <1>7. CASE GetcBuffered
    BY <1>7 DEF GetcBuffered
  <1>8. CASE Claim
    <2>1. tail \in Slots /\ tail + 1 \in 0 .. RxSize
      BY <1>8 DEF Claim, Slots
    <2>2. TypeOK'
      BY <1>8, <2>1 DEF Claim
    <2>3. TailPlace'
      BY <1>8 DEF Claim
    <2> QED BY <2>2, <2>3
  <1>9. CASE Fetch
    <2>1. kgot' \in Seq(Nat)
      BY <1>9, AppendElems DEF Fetch
    <2> QED BY <1>9, <2>1 DEF Fetch
  <1>10. CASE \E nul \in BOOLEAN : WrapTail(nul)
    <2>1. Wrap(tail) \in 0 .. RxSize /\ Wrap(tail) # RxSize
      BY WrapValue
    <2>2. pc' \in {"wait", "kernel"}
      BY <1>10 DEF WrapTail
    <2>3. TypeOK'
      BY <1>10, <2>1, <2>2 DEF WrapTail
    <2>4. TailPlace'
      BY <1>10, <2>1, <2>2 DEF WrapTail
    <2> QED BY <2>3, <2>4
  <1>11. CASE \E more \in BOOLEAN : GetcUnbuffered(more)
    <2>1. fifo' \in Seq(Nat) /\ ugot' \in Seq(Nat)
      BY <1>11, TailElems, AppendElems DEF GetcUnbuffered
    <2>2. num' \in Nat
      BY <1>11 DEF GetcUnbuffered
    <2>3. txif' \in {txif, FALSE}
      BY <1>11 DEF GetcUnbuffered
    <2>4. /\ enabled' \in BOOLEAN /\ saved' \in BOOLEAN /\ exl' \in BOOLEAN
          /\ pc' \in {"getc", "user"}
      BY <1>11 DEF GetcUnbuffered
    <2>5. TailPlace'
      BY <1>11, <2>4 DEF GetcUnbuffered
    <2> QED BY <1>11, <2>1, <2>2, <2>3, <2>4, <2>5 DEF GetcUnbuffered
  <1>12. CASE Start
    <2>1. CASE \E n \in 0 .. MaxReq : SerialRead(n) \/ SerialReadString(n)
      <3>1. PICK n \in Nat : SerialRead(n) \/ SerialReadString(n)
        BY <2>1
      <3>2. CASE SerialRead(n)
        BY <3>2 DEF SerialRead, Begin
      <3>3. CASE SerialReadString(n)
        BY <3>3 DEF SerialReadString, Begin
      <3> QED BY <3>1, <3>2, <3>3
    <2>2. CASE SerialGetc
      BY <2>2 DEF SerialGetc, Begin
    <2>3. CASE SerialGetcNonblock
      BY <2>3 DEF SerialGetcNonblock, Begin
    <2>4. CASE SerialNwrite
      BY <2>4 DEF SerialNwrite
    <2>5. CASE RunUser \/ UserReturns
      BY <2>5 DEF RunUser, UserReturns
    <2>6. CASE \E o \in {"sysgetc", "readline"} : Syscall(o)
      <3>1. exl' \in BOOLEAN /\ saved' \in BOOLEAN /\ enabled' \in BOOLEAN
        BY <2>6 DEF Syscall
      <3>2. op' \in {"sysgetc", "readline"} /\ pc' = "getc" /\ want' = 0 /\ num' = 0
        BY <2>6 DEF Syscall, Begin
      <3>3. UNCHANGED <<uart, txif, isr, ring, slot, kgot, ugot>>
        BY <2>6 DEF Syscall, Begin
      <3>4. TailPlace'
        BY <2>6, <3>2, <3>3 DEF Syscall
      <3> QED BY <3>1, <3>2, <3>3, <3>4
    <2> QED BY <1>12, <2>1, <2>2, <2>3, <2>4, <2>5, <2>6 DEF Start
  <1>13. CASE UNCHANGED vars
    <2>1. TypeOK'
      BY <1>13 DEF vars
    <2>2. TailPlace'
      BY <1>13 DEF vars
    <2> QED BY <2>1, <2>2
  <1> QED
    BY <1>1, <1>2, <1>3, <1>4, <1>5, <1>6, <1>7, <1>8, <1>9, <1>10, <1>11,
       <1>12, <1>13 DEF Next, Isr, Continue

\* Every variable has its type in every reachable state; tail never runs more
\* than one beyond the last slot (serial.c:184-187, 212-214, 231-233, 250-252).
THEOREM Typing == Spec => []TypeOK
  BY TypeInit, TypeStep, PTL DEF Spec, TypeInv

-----------------------------------------------------------------------------
(* Order.                                                                  *)
LEMMA OrderInit == Init => OrderInv
  <1> SUFFICES ASSUME Init PROVE OrderInv
    OBVIOUS
  <1>1. First = 0 /\ head = 0 /\ RxSize \in Nat \ {0}
    BY WrapValue, SizesAssumption DEF Init, First
  <1>2. Unread = {}
    BY <1>1 DEF Unread, Slots
  <1>3. RingOrder /\ ClaimedOrder
    BY <1>2 DEF Init, RingOrder, ClaimedOrder
  <1>4. FifoOrder /\ GotOrder
    BY DEF Init, FifoOrder, GotOrder, Increasing
  <1> QED BY <1>3, <1>4 DEF OrderInv

\* A step that touches neither the queues nor the claim.
LEMMA OrderQuiet ==
    ASSUME OrderInv, UNCHANGED <<sent, fifo, buffer, head, tail, slot, kgot, ugot>>,
           pc' = "fetch" => pc = "fetch"
    PROVE  OrderInv'
  <1>1. First' = First
    BY DEF First
  <1>2. Unread' = Unread
    BY <1>1 DEF Unread, First
  <1>3. RingOrder'
    BY <1>1, <1>2 DEF OrderInv, RingOrder, Rank, Undelivered
  <1>4. ClaimedOrder'
    BY <1>2 DEF OrderInv, ClaimedOrder, Undelivered
  <1>5. FifoOrder' /\ GotOrder'
    BY DEF OrderInv, FifoOrder, GotOrder, Increasing
  <1> QED BY <1>3, <1>4, <1>5 DEF OrderInv

LEMMA OrderArrive == TypeInv /\ OrderInv /\ Arrive => OrderInv'
  <1> SUFFICES ASSUME TypeInv, OrderInv, Arrive PROVE OrderInv'
    OBVIOUS
  <1>1. /\ sent \in Nat /\ sent + 1 \in Nat
        /\ fifo \in Seq(Nat) /\ kgot \in Seq(Nat) /\ ugot \in Seq(Nat)
        /\ buffer \in [Slots -> Nat] /\ slot \in Slots
    BY DEF TypeInv, TypeOK
  <1>2. /\ sent' = sent + 1 /\ kgot' = kgot /\ ugot' = ugot /\ pc' = pc
        /\ buffer' = buffer /\ head' = head /\ tail' = tail /\ slot' = slot
        /\ fifo' = fifo \/ fifo' = Append(fifo, sent + 1)
    BY DEF Arrive, ring, call, trap
  <1>3. First' = First /\ Unread' = Unread
    BY <1>2 DEF First, Unread
  <1>4. ASSUME NEW b \in Nat, Undelivered(b) PROVE Undelivered(b)'
    <2>1. \A i \in 1 .. Len(fifo') : b < fifo'[i]
      <3>1. b < sent + 1
        BY <1>1, <1>4 DEF Undelivered
      <3>2. CASE fifo' = fifo
        BY <1>4, <3>2 DEF Undelivered
      <3>3. CASE fifo' = Append(fifo, sent + 1)
        <4>1. \A i \in 1 .. Len(fifo) : b < fifo[i]
          BY <1>4 DEF Undelivered
        <4> QED BY <1>1, <3>1, <3>3, <4>1, AppendAbove
      <3> QED BY <1>2, <3>2, <3>3
    <2> QED BY <1>1, <1>2, <1>4, <2>1 DEF Undelivered
  <1>5. \A j \in Unread : buffer[j] \in Nat
    BY <1>1 DEF Unread
  <1>6. RingOrder'
    BY <1>2, <1>3, <1>4, <1>5 DEF OrderInv, RingOrder, Rank
  <1>7. ClaimedOrder'
    BY <1>1, <1>2, <1>3, <1>4 DEF OrderInv, ClaimedOrder
  <1>8. FifoOrder'
    <2>1. Increasing(fifo')
      <3>1. Increasing(fifo) /\ \A i \in 1 .. Len(fifo) : fifo[i] < sent + 1
        BY <1>1 DEF OrderInv, FifoOrder
      <3>2. Increasing(Append(fifo, sent + 1))
        BY <1>1, <3>1, AppendIncreasing
      <3> QED BY <1>2, <3>1, <3>2
    <2>2. ASSUME NEW i \in 1 .. Len(fifo')
          PROVE  /\ fifo'[i] \in 1 .. sent'
                 /\ \A k \in 1 .. Len(kgot) : kgot[k] < fifo'[i]
                 /\ \A k \in 1 .. Len(ugot) : ugot[k] < fifo'[i]
      <3>1. CASE i \in 1 .. Len(fifo)
        <4>1. fifo'[i] = fifo[i]
          <5>1. CASE fifo' = Append(fifo, sent + 1)
            BY <1>1, <3>1, <5>1, AppendElems
          <5> QED BY <1>2, <5>1
        <4> QED BY <1>1, <1>2, <3>1, <4>1 DEF OrderInv, FifoOrder
      <3>2. CASE i \notin 1 .. Len(fifo)
        <4>1. fifo'[i] = sent + 1
          <5>1. fifo' = Append(fifo, sent + 1)
            BY <1>2, <2>2, <3>2
          <5> QED BY <1>1, <2>2, <3>2, <5>1, AppendElems
        <4> QED BY <1>1, <1>2, <4>1 DEF OrderInv, GotOrder
      <3> QED BY <3>1, <3>2
    <2> QED BY <1>2, <2>1, <2>2 DEF FifoOrder
  <1>9. GotOrder'
    BY <1>1, <1>2 DEF OrderInv, GotOrder
  <1> QED BY <1>6, <1>7, <1>8, <1>9 DEF OrderInv

\* Storing at the head: the head is the farthest slot from the tail, and what
\* is unread afterwards was unread before or is the new byte.
LEMMA StoreUnread ==
    ASSUME TypeInv, head' = Wrap(head + 1), head' # tail, tail' = tail
    PROVE  /\ First' = First
           /\ Unread' \subseteq Unread \cup {head}
           /\ \A j \in Unread : Rank(j) < Rank(head) /\ j # head
           /\ tail = RxSize /\ head = RxSize - 1 => Unread' = {}
           /\ ~(tail = RxSize /\ head = RxSize - 1) => Unread' = Unread \cup {head}
  <1>1. /\ RxSize \in Nat \ {0} /\ head \in 0 .. RxSize - 1 /\ tail \in 0 .. RxSize
    BY SizesAssumption DEF TypeInv, TypeOK, Slots
  <1>2. First = (IF tail = RxSize THEN 0 ELSE tail) /\ First' = First
    BY <1>1, WrapValue DEF First
  <1>3. head' = IF head = RxSize - 1 THEN 0 ELSE head + 1
    BY <1>1, NextSlot DEF Slots
  <1>4. Unread' = {j \in Slots : IF First <= head' THEN First <= j /\ j < head'
                                                  ELSE First <= j \/ j < head'}
    BY <1>2 DEF Unread
  <1>5. Unread' \subseteq Unread \cup {head}
    BY <1>1, <1>2, <1>3, <1>4 DEF Unread, Slots
  <1>6. \A j \in Unread : Rank(j) < Rank(head) /\ j # head
    BY <1>1, <1>2 DEF Unread, Rank, Slots
  <1>7. tail = RxSize /\ head = RxSize - 1 => Unread' = {}
    BY <1>1, <1>2, <1>3, <1>4 DEF Slots
  <1>8. ~(tail = RxSize /\ head = RxSize - 1) => Unread' = Unread \cup {head}
    BY <1>1, <1>2, <1>3, <1>4 DEF Unread, Slots
  <1> QED BY <1>2, <1>5, <1>6, <1>7, <1>8

LEMMA OrderIsrByte == TypeInv /\ OrderInv /\ IsrByte => OrderInv'
  <1> SUFFICES ASSUME TypeInv, OrderInv, IsrByte PROVE OrderInv'
    OBVIOUS
  <1> DEFINE f == Head(fifo)
             After(b) == /\ b \in 1 .. sent'
                         /\ \A i \in 1 .. Len(kgot') : kgot'[i] < b
                         /\ \A i \in 1 .. Len(ugot') : ugot'[i] # b
                         /\ \A i \in 1 .. Len(fifo') : b < fifo'[i]
  <1>1. /\ sent \in Nat /\ fifo \in Seq(Nat) /\ kgot \in Seq(Nat) /\ ugot \in Seq(Nat)
        /\ buffer \in [Slots -> Nat] /\ slot \in Slots /\ head \in Slots
        /\ RxSize \in Nat \ {0}
    BY SizesAssumption DEF TypeInv, TypeOK
  <1>2. /\ fifo # <<>> /\ fifo' = Tail(fifo)
        /\ sent' = sent /\ kgot' = kgot /\ ugot' = ugot /\ pc' = pc
        /\ tail' = tail /\ slot' = slot
        /\ \/ buffer' = buffer /\ head' = head
           \/ /\ buffer' = [buffer EXCEPT ![head] = f]
              /\ head' = Wrap(head + 1) /\ head' # tail
    BY DEF IsrByte, Store, call, trap
  <1>3. /\ f = fifo[1] /\ f \in Nat /\ f \in 1 .. sent
        /\ \A k \in 1 .. Len(kgot) : kgot[k] < f
        /\ \A k \in 1 .. Len(ugot) : ugot[k] < f
    BY <1>1, <1>2, TailElems DEF OrderInv, FifoOrder
  <1>4. ASSUME NEW b \in Nat, Undelivered(b) PROVE After(b) /\ b < f
    <2>1. \A i \in 1 .. Len(fifo') : b < fifo'[i]
      BY <1>1, <1>2, <1>4, TailElems DEF Undelivered
    <2>2. b < f
      BY <1>1, <1>2, <1>3, <1>4, TailElems DEF Undelivered
    <2> QED BY <1>2, <1>4, <2>1, <2>2 DEF Undelivered
  <1>5. After(f)
    <2>1. \A i \in 1 .. Len(fifo') : f < fifo'[i]
      BY <1>1, <1>2, TailIncreasing DEF OrderInv, FifoOrder
    <2>2. \A k \in 1 .. Len(ugot) : ugot[k] # f
      BY <1>1, <1>3
    <2> QED BY <1>2, <1>3, <2>1, <2>2 DEF Undelivered
  <1>6. \A j \in Unread : j \in Slots /\ buffer[j] \in Nat /\ Undelivered(buffer[j])
    BY <1>1 DEF Unread, OrderInv, RingOrder
  <1>7. FifoOrder'
    <2>1. Increasing(fifo')
      BY <1>1, <1>2, TailIncreasing DEF OrderInv, FifoOrder
    <2>2. \A i \in 1 .. Len(fifo') : i + 1 \in 1 .. Len(fifo) /\ fifo'[i] = fifo[i + 1]
      BY <1>1, <1>2, TailElems
    <2> QED BY <1>2, <2>1, <2>2 DEF OrderInv, FifoOrder
  <1>8. GotOrder'
    BY <1>2 DEF OrderInv, GotOrder
  <1>9. CASE buffer' = buffer /\ head' = head
    <2>1. First' = First /\ Unread' = Unread
      BY <1>2, <1>9 DEF First, Unread
    <2>2. RingOrder'
      BY <1>2, <1>4, <1>6, <1>9, <2>1 DEF OrderInv, RingOrder, Rank, Undelivered
    <2>3. ClaimedOrder'
      BY <1>1, <1>2, <1>4, <1>9, <2>1 DEF OrderInv, ClaimedOrder, Undelivered
    <2> QED BY <1>7, <1>8, <2>2, <2>3 DEF OrderInv
  <1>10. CASE buffer' = [buffer EXCEPT ![head] = f] /\ head' = Wrap(head + 1) /\ head' # tail
    <2>1. /\ First' = First
          /\ Unread' \subseteq Unread \cup {head}
          /\ \A j \in Unread : Rank(j) < Rank(head) /\ j # head
          /\ tail = RxSize /\ head = RxSize - 1 => Unread' = {}
      BY <1>2, <1>10, StoreUnread
    <2>2. buffer'[head] = f /\ \A j \in Slots : j # head => buffer'[j] = buffer[j]
      BY <1>1, <1>10
    <2>3. ASSUME NEW j \in Unread'
          PROVE  /\ After(buffer'[j])
                 /\ j # head => j \in Unread /\ buffer'[j] = buffer[j]
      BY <1>4, <1>5, <1>6, <2>1, <2>2
    <2>4. ASSUME NEW i \in Unread', NEW j \in Unread', (Rank(i) < Rank(j))'
          PROVE  buffer'[i] < buffer'[j]
      <3>1. Rank(i) < Rank(j)
        BY <2>1, <2>4 DEF Rank
      <3>2. CASE i = head
        <4>1. First \in Int
          BY WrapValue, SizesAssumption DEF First, TypeInv, TypeOK
        <4>2. \A k \in Slots : Rank(k) \in Int
          BY <1>1, <4>1 DEF Rank, Slots
        <4>3. i \in Slots /\ j \in Slots
          BY <1>1, <1>6, <2>1
        <4>4. j = head \/ Rank(j) < Rank(head)
          BY <2>1, <2>3
        <4> QED BY <3>1, <3>2, <4>2, <4>3, <4>4
      <3>3. CASE i # head /\ j = head
        BY <1>4, <1>6, <2>2, <2>3, <3>3
      <3>4. CASE i # head /\ j # head
        BY <2>3, <3>1, <3>4 DEF OrderInv, RingOrder
      <3> QED BY <3>2, <3>3, <3>4
    <2>5. RingOrder'
      BY <2>3, <2>4 DEF RingOrder, Undelivered
    <2>6. ClaimedOrder'
      <3>1. SUFFICES ASSUME pc = "fetch"
                     PROVE  /\ After(buffer'[slot])
                            /\ \A j \in Unread' : buffer'[slot] < buffer'[j]
        BY <1>2 DEF ClaimedOrder, Undelivered
      <3>2. tail = slot + 1
        BY <3>1 DEF TypeInv, TailPlace
      <3>3. CASE slot = head
        <4>1. slot = RxSize - 1 /\ tail = RxSize
          BY <1>1, <1>10, <3>2, <3>3, NextSlot DEF Slots
        <4> QED BY <1>5, <2>1, <2>2, <3>3, <4>1
      <3>4. CASE slot # head
        <4>1. /\ buffer'[slot] = buffer[slot] /\ buffer[slot] \in Nat
              /\ Undelivered(buffer[slot])
              /\ \A j \in Unread : buffer[slot] < buffer[j]
          BY <1>1, <2>2, <3>1, <3>4 DEF OrderInv, ClaimedOrder
        <4>2. After(buffer[slot]) /\ buffer[slot] < f
          BY <1>4, <4>1
        <4>3. After(buffer'[slot])
          BY <4>1, <4>2
        <4> QED BY <2>1, <2>2, <2>3, <4>1, <4>2, <4>3
      <3> QED BY <3>3, <3>4
    <2> QED BY <1>7, <1>8, <2>5, <2>6 DEF OrderInv
  <1> QED BY <1>2, <1>9, <1>10

\* Claiming takes the first unread slot, which is nearest to the tail.
LEMMA ClaimUnread ==
    ASSUME TypeInv, Claim
    PROVE  /\ tail \in Slots /\ slot' = tail
           /\ tail \in Unread /\ Unread' = Unread \ {tail}
           /\ \A j \in Unread' : Rank(tail) < Rank(j)
           /\ \A i, j \in Unread' : (Rank(i) < Rank(j))' => Rank(i) < Rank(j)
  <1>1. /\ RxSize \in Nat \ {0} /\ head \in 0 .. RxSize - 1 /\ tail \in 0 .. RxSize - 1
        /\ tail # head /\ head' = head /\ tail' = tail + 1 /\ slot' = tail
    BY SizesAssumption DEF TypeInv, TypeOK, TailPlace, Slots, Claim
  <1>2. First = tail
    BY <1>1, WrapValue DEF First
  <1>3. First' = IF tail = RxSize - 1 THEN 0 ELSE tail + 1
    BY <1>1, NextSlot DEF First, Slots
  <1>4. Unread' = {j \in Slots : IF First' <= head THEN First' <= j /\ j < head
                                                   ELSE First' <= j \/ j < head}
    BY <1>1 DEF Unread, First
  <1>5. tail \in Unread
    BY <1>1, <1>2 DEF Unread, Slots
  <1>6. ASSUME NEW j \in Slots PROVE j \in Unread' <=> j \in Unread /\ j # tail
    BY <1>1, <1>2, <1>3, <1>4 DEF Unread, Slots
  <1>7. Unread' = Unread \ {tail}
    BY <1>4, <1>6 DEF Unread
  <1>8. \A j \in Unread' : Rank(tail) < Rank(j)
    BY <1>1, <1>2, <1>7 DEF Unread, Rank, Slots
  <1>9. ASSUME NEW i \in Unread', NEW j \in Unread', (Rank(i) < Rank(j))'
        PROVE  Rank(i) < Rank(j)
    <2>1. /\ i \in 0 .. RxSize - 1 /\ j \in 0 .. RxSize - 1 /\ i # tail /\ j # tail
      BY <1>7 DEF Unread, Slots
    <2>2. (IF First' <= i THEN i - First' ELSE i - First' + RxSize)
             < (IF First' <= j THEN j - First' ELSE j - First' + RxSize)
      BY <1>9 DEF Rank
    <2> QED BY <1>1, <1>2, <1>3, <2>1, <2>2 DEF Rank
  <1> QED BY <1>1, <1>5, <1>7, <1>8, <1>9 DEF Slots

LEMMA OrderClaim == TypeInv /\ OrderInv /\ Claim => OrderInv'
  <1> SUFFICES ASSUME TypeInv, OrderInv, Claim PROVE OrderInv'
    OBVIOUS
  <1>1. UNCHANGED <<sent, fifo, buffer, kgot, ugot>>
    BY DEF Claim, uart
  <1>2. /\ tail \in Slots /\ slot' = tail
        /\ tail \in Unread /\ Unread' = Unread \ {tail}
        /\ \A j \in Unread' : Rank(tail) < Rank(j)
        /\ \A i, j \in Unread' : (Rank(i) < Rank(j))' => Rank(i) < Rank(j)
    BY ClaimUnread
  <1>3. RingOrder'
    BY <1>1, <1>2 DEF OrderInv, RingOrder, Undelivered
  <1>4. ClaimedOrder'
    BY <1>1, <1>2 DEF OrderInv, RingOrder, ClaimedOrder, Undelivered
  <1>5. FifoOrder' /\ GotOrder'
    BY <1>1 DEF OrderInv, FifoOrder, GotOrder
  <1> QED BY <1>3, <1>4, <1>5 DEF OrderInv

\* The byte loaded is newer than all the kernel got and older than all that
\* is still to be read.
LEMMA OrderFetch == TypeInv /\ OrderInv /\ Fetch => OrderInv'
  <1> SUFFICES ASSUME TypeInv, OrderInv, Fetch PROVE OrderInv'
    OBVIOUS
  <1> DEFINE b == buffer[slot]
  <1>1. /\ sent \in Nat /\ kgot \in Seq(Nat) /\ ugot \in Seq(Nat) /\ b \in Nat
    BY DEF TypeInv, TypeOK
  <1>2. /\ kgot' = Append(kgot, b) /\ pc = "fetch" /\ pc' = "wrap"
        /\ UNCHANGED <<sent, fifo, buffer, head, tail, slot, ugot>>
    BY DEF Fetch, uart, ring
  <1>3. /\ b \in 1 .. sent /\ \A j \in Unread : b < buffer[j]
        /\ \A i \in 1 .. Len(kgot) : kgot[i] < b
        /\ \A i \in 1 .. Len(ugot) : ugot[i] # b
        /\ \A i \in 1 .. Len(fifo) : b < fifo[i]
    BY <1>2 DEF OrderInv, ClaimedOrder, Undelivered
  <1>4. First' = First /\ Unread' = Unread
    BY <1>2 DEF First, Unread
  <1>5. ASSUME NEW i \in 1 .. Len(kgot')
        PROVE  (i \in 1 .. Len(kgot) /\ kgot'[i] = kgot[i]) \/ kgot'[i] = b
    <2>1. i \in 1 .. Len(kgot) \/ i = Len(kgot) + 1
      BY <1>1, <1>2, AppendElems
    <2> QED BY <1>1, <1>2, <2>1, AppendElems
  <1>6. RingOrder'
    <2>1. \A j \in Unread : Undelivered(buffer[j])
      BY DEF OrderInv, RingOrder
    <2>2. \A j \in Unread' : Undelivered(buffer[j])'
      BY <1>2, <1>3, <1>4, <1>5, <2>1 DEF Undelivered
    <2> QED BY <1>2, <1>4, <2>2 DEF OrderInv, RingOrder, Rank
  <1>7. ClaimedOrder'
    BY <1>2 DEF ClaimedOrder
  <1>8. FifoOrder'
    BY <1>2, <1>3, <1>5 DEF OrderInv, FifoOrder
  <1>9. GotOrder'
    <2>1. Increasing(kgot')
      BY <1>1, <1>2, <1>3, AppendIncreasing DEF OrderInv, GotOrder
    <2> QED BY <1>2, <1>3, <1>5, <2>1 DEF OrderInv, GotOrder
  <1> QED BY <1>6, <1>7, <1>8, <1>9 DEF OrderInv

LEMMA OrderWrapTail ==
    ASSUME TypeInv, OrderInv, NEW nul \in BOOLEAN, WrapTail(nul)
    PROVE  OrderInv'
  <1>1. /\ tail \in 0 .. RxSize /\ RxSize \in Nat \ {0}
        /\ tail' = Wrap(tail) /\ pc' # "fetch"
        /\ UNCHANGED <<sent, fifo, buffer, head, slot, kgot, ugot>>
    BY SizesAssumption DEF TypeInv, TypeOK, WrapTail, uart
  <1>2. tail' \in 0 .. RxSize /\ tail' # RxSize
    BY <1>1, WrapValue
  <1>3. First' = First
    BY <1>1, <1>2, WrapValue DEF First
  <1>4. Unread' = Unread
    BY <1>1, <1>3 DEF Unread, First
  <1>5. RingOrder'
    BY <1>1, <1>3, <1>4 DEF OrderInv, RingOrder, Rank, Undelivered
  <1>6. ClaimedOrder' /\ FifoOrder' /\ GotOrder'
    BY <1>1 DEF OrderInv, ClaimedOrder, FifoOrder, GotOrder
  <1> QED BY <1>5, <1>6 DEF OrderInv

LEMMA OrderGetcUnbuffered ==
    ASSUME TypeInv, OrderInv, NEW more \in BOOLEAN, GetcUnbuffered(more)
    PROVE  OrderInv'
  <1> DEFINE b == Head(fifo)
  <1>1. /\ sent \in Nat /\ fifo \in Seq(Nat) /\ kgot \in Seq(Nat) /\ ugot \in Seq(Nat)
        /\ buffer \in [Slots -> Nat]
    BY DEF TypeInv, TypeOK
  <1>2. /\ fifo # <<>> /\ fifo' = Tail(fifo) /\ ugot' = Append(ugot, b)
        /\ pc = "getc" /\ pc' # "fetch"
        /\ UNCHANGED <<sent, buffer, head, tail, slot, kgot>>
    BY DEF GetcUnbuffered, ring
  <1>3. /\ b = fifo[1] /\ b \in Nat /\ b \in 1 .. sent
        /\ \A i \in 1 .. Len(kgot) : kgot[i] < b
        /\ \A i \in 1 .. Len(ugot) : ugot[i] < b
    BY <1>1, <1>2, TailElems DEF OrderInv, FifoOrder
  <1>4. ASSUME NEW i \in 1 .. Len(ugot')
        PROVE  (i \in 1 .. Len(ugot) /\ ugot'[i] = ugot[i]) \/ ugot'[i] = b
    <2>1. i \in 1 .. Len(ugot) \/ i = Len(ugot) + 1
      BY <1>1, <1>2, <1>3, AppendElems
    <2> QED BY <1>1, <1>2, <1>3, <2>1, AppendElems
  <1>5. ASSUME NEW i \in 1 .. Len(fifo')
        PROVE  i + 1 \in 1 .. Len(fifo) /\ fifo'[i] = fifo[i + 1] /\ b < fifo'[i]
    <2>1. b < fifo'[i]
      BY <1>1, <1>2, TailIncreasing DEF OrderInv, FifoOrder
    <2> QED BY <1>1, <1>2, <2>1, TailElems
  <1>6. First' = First /\ Unread' = Unread
    BY <1>2 DEF First, Unread
  <1>7. RingOrder'
    <2>1. ASSUME NEW j \in Unread PROVE Undelivered(buffer[j])'
      <3>1. Undelivered(buffer[j]) /\ buffer[j] \in Nat
        BY <1>1 DEF OrderInv, RingOrder, Unread
      <3>2. buffer[j] < b
        BY <1>1, <1>2, <1>3, <3>1, TailElems DEF Undelivered
      <3>3. \A i \in 1 .. Len(ugot') : ugot'[i] # buffer[j]
        BY <1>3, <1>4, <3>1, <3>2 DEF Undelivered
      <3>4. \A i \in 1 .. Len(fifo') : buffer[j] < fifo'[i]
        BY <1>5, <3>1 DEF Undelivered
      <3> QED BY <1>2, <3>1, <3>3, <3>4 DEF Undelivered
    <2> QED BY <1>2, <1>6, <2>1 DEF OrderInv, RingOrder, Rank
  <1>8. ClaimedOrder'
    BY <1>2 DEF ClaimedOrder
  <1>9. FifoOrder'
    <2>1. Increasing(fifo')
      BY <1>1, <1>2, TailIncreasing DEF OrderInv, FifoOrder
    <2> QED BY <1>2, <1>4, <1>5, <2>1 DEF OrderInv, FifoOrder
  <1>10. GotOrder'
    <2>1. Increasing(ugot')
      BY <1>1, <1>2, <1>3, AppendIncreasing DEF OrderInv, GotOrder
    <2>2. \A i \in 1 .. Len(kgot) : kgot[i] # b
      BY <1>1, <1>3
    <2> QED BY <1>2, <1>3, <1>4, <2>1, <2>2 DEF OrderInv, GotOrder
  <1> QED BY <1>7, <1>8, <1>9, <1>10 DEF OrderInv

LEMMA OrderStep == TypeInv /\ OrderInv /\ [Next]_vars => OrderInv'
  <1> SUFFICES ASSUME TypeInv, OrderInv, [Next]_vars PROVE OrderInv'
    OBVIOUS
  <1> DEFINE Quiet == /\ UNCHANGED <<sent, fifo, buffer, head, tail, slot, kgot, ugot>>
                      /\ pc' = "fetch" => pc = "fetch"
  <1>1. CASE Arrive
    BY <1>1, OrderArrive
  <1>2. CASE IsrByte
    BY <1>2, OrderIsrByte
  <1>3. CASE Claim
    BY <1>3, OrderClaim
  <1>4. CASE Fetch
    BY <1>4, OrderFetch
  <1>5. CASE \E nul \in BOOLEAN : WrapTail(nul)
    BY <1>5, OrderWrapTail
  <1>6. CASE \E more \in BOOLEAN : GetcUnbuffered(more)
    BY <1>6, OrderGetcUnbuffered
  <1>7. CASE TxEmpty \/ IsrEnter \/ IsrDrained \/ IsrClear \/ GetcBuffered
    <2>1. Quiet
      BY <1>7 DEF TxEmpty, IsrEnter, IsrDrained, IsrClear, GetcBuffered, uart, ring
    <2> QED BY <2>1, OrderQuiet
  <1>8. CASE Start
    <2>1. Quiet
      <3>1. CASE \E n \in 0 .. MaxReq : SerialRead(n) \/ SerialReadString(n)
        BY <3>1 DEF SerialRead, SerialReadString, Begin, uart, ring
      <3>2. CASE SerialGetc \/ SerialGetcNonblock \/ SerialNwrite \/ RunUser \/ UserReturns
        BY <3>2 DEF SerialGetc, SerialGetcNonblock, SerialNwrite, RunUser,
           UserReturns, Begin, uart, ring
      <3>3. CASE \E o \in {"sysgetc", "readline"} : Syscall(o)
        BY <3>3 DEF Syscall, Begin, uart, ring
      <3> QED BY <1>8, <3>1, <3>2, <3>3 DEF Start
    <2> QED BY <2>1, OrderQuiet
  <1>9. CASE UNCHANGED vars
    <2>1. Quiet
      BY <1>9 DEF vars, uart, ring
    <2> QED BY <2>1, OrderQuiet
  <1> QED BY <1>1, <1>2, <1>3, <1>4, <1>5, <1>6, <1>7, <1>8, <1>9 DEF Next, Isr, Continue

\* Both parts of the inductive invariant hold in every reachable state.
LEMMA Invariance == Spec => [](TypeInv /\ OrderInv)
  <1>1. Init => TypeInv /\ OrderInv
    BY TypeInit, OrderInit
  <1>2. (TypeInv /\ OrderInv) /\ [Next]_vars => (TypeInv /\ OrderInv)'
    BY TypeStep, OrderStep
  <1> QED BY <1>1, <1>2, PTL DEF Spec

\* Each consumer gets the host's bytes in the order sent, none twice, and no
\* byte reaches both, for every size of the ring and of the FIFO
\* (serial.c:181-187, 209-214, 228-238, interrupts.c:52-67).
THEOREM OrderTheorem == Spec => []InOrder
  <1>1. OrderInv => InOrder
    BY DEF OrderInv, GotOrder, InOrder, Elems
  <1> QED BY <1>1, Invariance, PTL

-----------------------------------------------------------------------------
(* Which bytes a step keeps.                                               *)
LEMMA ElemsAppend ==
    ASSUME NEW s \in Seq(Nat), NEW b \in Nat
    PROVE  Elems(Append(s, b)) = Elems(s) \cup {b}
  <1>1. \A i \in 1 .. Len(Append(s, b)) :
           (i \in 1 .. Len(s) /\ Append(s, b)[i] = s[i]) \/ Append(s, b)[i] = b
    <2> TAKE i \in 1 .. Len(Append(s, b))
    <2>1. i \in 1 .. Len(s) \/ i = Len(s) + 1
      BY AppendElems
    <2> QED BY <2>1, AppendElems
  <1>2. 1 .. Len(s) \subseteq 1 .. Len(Append(s, b))
           /\ Len(s) + 1 \in 1 .. Len(Append(s, b))
    BY AppendElems
  <1>3. \A i \in 1 .. Len(s) : Append(s, b)[i] = s[i]
    BY AppendElems
  <1>4. Append(s, b)[Len(s) + 1] = b
    BY AppendElems
  <1> QED BY <1>1, <1>2, <1>3, <1>4 DEF Elems

LEMMA ElemsTail ==
    ASSUME NEW s \in Seq(Nat), s # <<>>
    PROVE  Elems(s) = Elems(Tail(s)) \cup {Head(s)}
  <1>1. Len(s) \in Nat /\ Len(s) >= 1 /\ Len(Tail(s)) = Len(s) - 1 /\ Head(s) = s[1]
    BY TailElems
  <1>2. \A i \in 1 .. Len(Tail(s)) : i + 1 \in 1 .. Len(s) /\ Tail(s)[i] = s[i + 1]
    BY <1>1, TailElems
  <1>3. \A i \in 1 .. Len(s) : i # 1 => (i - 1 \in 1 .. Len(Tail(s)) /\ s[i] = Tail(s)[i - 1])
    <2> TAKE i \in 1 .. Len(s)
    <2> SUFFICES ASSUME i # 1
                 PROVE  i - 1 \in 1 .. Len(Tail(s)) /\ s[i] = Tail(s)[i - 1]
      OBVIOUS
    <2>1. i - 1 \in 1 .. Len(Tail(s)) /\ (i - 1) + 1 = i
      BY <1>1
    <2> QED BY <1>2, <2>1
  <1>4. ASSUME NEW x \in Elems(s) PROVE x = Head(s) \/ x \in Elems(Tail(s))
    <2>1. PICK i \in 1 .. Len(s) : x = s[i]
      BY <1>4 DEF Elems
    <2>2. CASE i = 1
      BY <1>1, <2>1, <2>2
    <2>3. CASE i # 1
      BY <1>3, <2>1, <2>3 DEF Elems
    <2> QED BY <2>2, <2>3
  <1>5. \A x \in Elems(Tail(s)) : x \in Elems(s)
    BY <1>2 DEF Elems
  <1>6. Head(s) \in Elems(s)
    BY <1>1 DEF Elems
  <1> QED BY <1>4, <1>5, <1>6

\* Outside the lap window the head has not reached the claimed slot.
LEMMA StoreKeeps ==
    ASSUME TypeInv, ~LapWindow, IsrByte
    PROVE  /\ Waiting \subseteq Waiting'
           /\ Wrap(head + 1) # tail => Head(fifo) \in Waiting'
  <1>1. /\ buffer \in [Slots -> Nat] /\ slot \in Slots /\ head \in Slots
        /\ RxSize \in Nat \ {0}
    BY SizesAssumption DEF TypeInv, TypeOK
  <1>2. pc' = pc /\ slot' = slot /\ tail' = tail
    BY DEF IsrByte, Store
  <1>3. CASE Wrap(head + 1) = tail
    <2>1. buffer' = buffer /\ head' = head
      BY <1>3 DEF IsrByte, Store
    <2> QED BY <1>2, <1>3, <2>1 DEF Waiting, Unread, First
  <1>4. CASE Wrap(head + 1) # tail
    <2>1. buffer' = [buffer EXCEPT ![head] = Head(fifo)] /\ head' = Wrap(head + 1)
      BY <1>4 DEF IsrByte, Store
    <2>2. Unread' = Unread \cup {head} /\ \A j \in Unread : j # head
      BY <1>2, <1>4, <2>1, StoreUnread DEF LapWindow
    <2>3. \A j \in Slots : j # head => buffer'[j] = buffer[j]
      BY <1>1, <2>1
    <2>4. buffer'[head] = Head(fifo)
      BY <1>1, <2>1
    <2>5. pc = "fetch" => slot # head
      <3> SUFFICES ASSUME pc = "fetch", slot = head PROVE FALSE
        OBVIOUS
      <3>1. tail = head + 1
        BY DEF TypeInv, TailPlace
      <3> QED BY <1>1, <1>4, <3>1, NextSlot DEF LapWindow, Slots
    <2>6. Unread \subseteq Slots
      BY DEF Unread
    <2> QED BY <1>1, <1>2, <2>2, <2>3, <2>4, <2>5, <2>6 DEF Waiting
  <1> QED BY <1>3, <1>4

LEMMA KeptStep ==
    ASSUME TypeInv, ~LapWindow, [Next]_vars
    PROVE  Waiting \subseteq Waiting' \cup Elems(kgot')
  <1> DEFINE Quiet == /\ UNCHANGED <<buffer, head, slot>> /\ First' = First
                      /\ pc' = "fetch" <=> pc = "fetch"
  <1>1. ASSUME Quiet PROVE Waiting' = Waiting
    BY <1>1 DEF Waiting, Unread
  <1>2. tail' = tail => First' = First
    BY DEF First
  <1>3. CASE IsrByte
    BY <1>3, StoreKeeps
  <1>4. CASE Claim
    <2>1. slot' = tail /\ tail \in Unread /\ Unread' = Unread \ {tail}
      BY <1>4, ClaimUnread
    <2>2. buffer' = buffer /\ pc = "wait" /\ pc' = "fetch"
      BY <1>4 DEF Claim
    <2> QED BY <2>1, <2>2 DEF Waiting
  <1>5. CASE Fetch
    <2>1. buffer[slot] \in Elems(kgot')
      <3>1. buffer[slot] \in Nat /\ kgot \in Seq(Nat)
        BY DEF TypeInv, TypeOK
      <3> QED BY <1>5, <3>1, ElemsAppend DEF Fetch
    <2>2. Unread' = Unread /\ buffer' = buffer /\ pc' = "wrap"
      BY <1>5 DEF Fetch, ring, Unread, First
    <2> QED BY <2>1, <2>2 DEF Waiting
  <1>6. CASE \E nul \in BOOLEAN : WrapTail(nul)
    <2>1. tail \in 0 .. RxSize /\ tail' = Wrap(tail) /\ RxSize \in Nat \ {0}
      BY <1>6, SizesAssumption DEF WrapTail, TypeInv, TypeOK
    <2>2. First' = First
      BY <2>1, WrapValue DEF First
    <2>3. Quiet
      BY <1>6, <2>2 DEF WrapTail
    <2> QED BY <1>1, <2>3
  <1>7. CASE Arrive \/ TxEmpty \/ IsrEnter \/ IsrDrained \/ IsrClear \/ GetcBuffered
    <2>1. Quiet
      BY <1>2, <1>7 DEF Arrive, TxEmpty, IsrEnter, IsrDrained, IsrClear, GetcBuffered, ring
    <2> QED BY <1>1, <2>1
  <1>8. CASE \E more \in BOOLEAN : GetcUnbuffered(more)
    <2>1. Quiet
      BY <1>2, <1>8 DEF GetcUnbuffered, ring
    <2> QED BY <1>1, <2>1
  <1>9. CASE Start
    <2>1. Quiet
      <3>1. CASE \E n \in 0 .. MaxReq : SerialRead(n) \/ SerialReadString(n)
        BY <1>2, <3>1 DEF SerialRead, SerialReadString, Begin, ring
      <3>2. CASE SerialGetc \/ SerialGetcNonblock \/ SerialNwrite \/ RunUser \/ UserReturns
        BY <1>2, <3>2 DEF SerialGetc, SerialGetcNonblock, SerialNwrite, RunUser,
           UserReturns, Begin, ring
      <3>3. CASE \E o \in {"sysgetc", "readline"} : Syscall(o)
        BY <1>2, <3>3 DEF Syscall, Begin, ring
      <3> QED BY <1>9, <3>1, <3>2, <3>3 DEF Start
    <2> QED BY <1>1, <2>1
  <1>10. CASE UNCHANGED vars
    <2>1. Quiet
      BY <1>2, <1>10 DEF vars, ring
    <2> QED BY <1>1, <2>1
  <1> QED
    BY <1>3, <1>4, <1>5, <1>6, <1>7, <1>8, <1>9, <1>10 DEF Next, Isr, Continue

\* A byte stored in the ring stays until it is delivered, except in the lap
\* window (interrupts.c:60, serial.c:212-214).
THEOREM KeptTheorem == Spec => KeptOutsideLapWindow
  <1>1. (TypeInv /\ OrderInv) /\ [Next]_vars
           => [~LapWindow => Waiting \subseteq Waiting' \cup Elems(kgot')]_vars
    BY KeptStep
  <1> QED BY <1>1, Invariance, PTL DEF Spec, KeptOutsideLapWindow

\* While the ring has room nothing the FIFO took is lost.
LEMMA HeldStep ==
    ASSUME TypeInv, ~Full, [Next]_vars
    PROVE  Held \subseteq Held'
  <1>1. /\ RxSize \in Nat \ {0} /\ head \in Slots /\ tail \in 0 .. RxSize
        /\ fifo \in Seq(Nat) /\ kgot \in Seq(Nat) /\ ugot \in Seq(Nat)
        /\ sent + 1 \in Nat /\ buffer[slot] \in Nat
    BY SizesAssumption DEF TypeInv, TypeOK
  <1>2. Wrap(head + 1) # tail
    <2> SUFFICES ASSUME Wrap(head + 1) = tail PROVE Full
      BY DEF Full
    <2>1. First = tail
      BY <1>1, NextSlot, WrapValue DEF First, Slots
    <2>2. tail = IF head = RxSize - 1 THEN 0 ELSE head + 1
      BY <1>1, NextSlot
    <2> QED BY <1>1, <2>1, <2>2 DEF Full, Unread, Slots
  <1>3. ~LapWindow
    <2> SUFFICES ASSUME LapWindow PROVE Full
      BY DEF Full
    <2>1. First = 0 /\ head = RxSize - 1
      BY <1>1, WrapValue DEF First, LapWindow
    <2> QED BY <1>1, <2>1 DEF Full, Unread, Slots
  <1>4. Waiting \subseteq Waiting' \cup Elems(kgot')
    BY <1>3, KeptStep
  <1>5. CASE Arrive
    <2>1. Elems(fifo) \subseteq Elems(fifo')
      <3>1. fifo' = fifo \/ fifo' = Append(fifo, sent + 1)
        BY <1>5 DEF Arrive
      <3>2. Elems(Append(fifo, sent + 1)) = Elems(fifo) \cup {sent + 1}
        BY <1>1, ElemsAppend
      <3> QED BY <3>1, <3>2
    <2> QED BY <1>4, <1>5, <2>1 DEF Arrive, Held
  <1>6. CASE IsrByte
    <2>1. fifo # <<>> /\ fifo' = Tail(fifo) /\ kgot' = kgot /\ ugot' = ugot
      BY <1>6 DEF IsrByte, Store
    <2>2. Elems(fifo) = Elems(fifo') \cup {Head(fifo)}
      BY <1>1, <2>1, ElemsTail
    <2>3. Head(fifo) \in Waiting'
      BY <1>2, <1>3, <1>6, StoreKeeps
    <2> QED BY <1>4, <2>1, <2>2, <2>3 DEF Held
  <1>7. CASE Fetch
    <2>1. Elems(kgot) \subseteq Elems(kgot')
      BY <1>1, <1>7, ElemsAppend DEF Fetch
    <2> QED BY <1>4, <1>7, <2>1 DEF Fetch, uart, Held
  <1>8. CASE \E more \in BOOLEAN : GetcUnbuffered(more)
    <2>1. fifo # <<>> /\ fifo' = Tail(fifo) /\ kgot' = kgot /\ ugot' = Append(ugot, Head(fifo))
      BY <1>8 DEF GetcUnbuffered
    <2>2. Elems(fifo) = Elems(fifo') \cup {Head(fifo)} /\ Head(fifo) \in Nat
      BY <1>1, <2>1, ElemsTail, TailElems
    <2>3. Elems(ugot') = Elems(ugot) \cup {Head(fifo)}
      BY <1>1, <2>1, <2>2, ElemsAppend
    <2> QED BY <1>4, <2>1, <2>2, <2>3 DEF Held
  <1>9. ASSUME UNCHANGED <<fifo, kgot, ugot>> PROVE Held \subseteq Held'
    BY <1>4, <1>9 DEF Held
  <1>10. CASE TxEmpty \/ IsrEnter \/ IsrDrained \/ IsrClear \/ GetcBuffered \/ Claim
    <2>1. UNCHANGED <<fifo, kgot, ugot>>
      BY <1>10 DEF TxEmpty, IsrEnter, IsrDrained, IsrClear, GetcBuffered, Claim, uart
    <2> QED BY <1>9, <2>1
  <1>11. CASE \E nul \in BOOLEAN : WrapTail(nul)
    BY <1>9, <1>11 DEF WrapTail, uart
  <1>12. CASE Start
    <2>1. UNCHANGED <<fifo, kgot, ugot>>
      <3>1. CASE \E n \in 0 .. MaxReq : SerialRead(n) \/ SerialReadString(n)
        BY <3>1 DEF SerialRead, SerialReadString, Begin, uart
      <3>2. CASE SerialGetc \/ SerialGetcNonblock \/ SerialNwrite \/ RunUser \/ UserReturns
        BY <3>2 DEF SerialGetc, SerialGetcNonblock, SerialNwrite, RunUser,
           UserReturns, Begin, uart
      <3>3. CASE \E o \in {"sysgetc", "readline"} : Syscall(o)
        BY <3>3 DEF Syscall, Begin, uart
      <3> QED BY <1>12, <3>1, <3>2, <3>3 DEF Start
    <2> QED BY <1>9, <2>1
  <1>13. CASE UNCHANGED vars
    BY <1>9, <1>13 DEF vars, uart
  <1> QED
    BY <1>5, <1>6, <1>7, <1>8, <1>10, <1>11, <1>12, <1>13 DEF Next, Isr, Continue

\* The software loses a byte that reached the FIFO only while the ring is full
\* (interrupts.c:55-64).
THEOREM LossTheorem == Spec => LossOnlyWhenFull
  <1>1. (TypeInv /\ OrderInv) /\ [Next]_vars => [~Full => Held \subseteq Held']_vars
    BY HeldStep
  <1> QED BY <1>1, Invariance, PTL DEF Spec, LossOnlyWhenFull

-----------------------------------------------------------------------------
(* Refinement of the byte channel.                                         *)
LEMMA StreamStep ==
    ASSUME TypeInv, OrderInv, [Next]_vars
    PROVE  [Stream!Next]_(Stream!vars)
  <1> DEFINE P == Waiting \cup Elems(fifo)
  <1> USE DEF Stream!Next, Stream!vars, Stream!Send, Stream!Lose
  <1>1. /\ fifo \in Seq(Nat) /\ kgot \in Seq(Nat) /\ ugot \in Seq(Nat)
        /\ sent + 1 \in Nat /\ buffer \in [Slots -> Nat] /\ slot \in Slots
    BY DEF TypeInv, TypeOK
  <1>2. Unread \subseteq Slots
    BY DEF Unread
  <1>3. ASSUME UNCHANGED <<sent, fifo, buffer, head, slot, kgot, ugot>>, First' = First,
               pc' = "fetch" <=> pc = "fetch"
        PROVE  UNCHANGED Stream!vars
    BY <1>3 DEF Waiting, Unread
  <1>4. tail' = tail => First' = First
    BY DEF First
  <1>5. CASE Arrive
    <2>1. Waiting' = Waiting
      BY <1>4, <1>5 DEF Arrive, ring, Waiting, Unread
    <2>2. Elems(fifo') \subseteq Elems(fifo) \cup {sent + 1}
      BY <1>1, <1>5, ElemsAppend DEF Arrive
    <2> QED BY <1>5, <2>1, <2>2 DEF Arrive
  <1>6. CASE IsrByte
    <2>1. /\ fifo # <<>> /\ fifo' = Tail(fifo) /\ UNCHANGED <<sent, kgot, ugot, pc, slot, tail>>
      BY <1>6 DEF IsrByte, Store, call, trap
    <2>2. Elems(fifo) = Elems(fifo') \cup {Head(fifo)}
      BY <1>1, <2>1, ElemsTail
    <2>3. Waiting' \subseteq Waiting \cup {Head(fifo)}
      <3>1. CASE buffer' = buffer /\ head' = head
        BY <1>4, <2>1, <3>1 DEF Waiting, Unread
      <3>2. CASE /\ buffer' = [buffer EXCEPT ![head] = Head(fifo)]
                 /\ head' = Wrap(head + 1) /\ head' # tail
        <4>1. Unread' \subseteq Unread \cup {head} /\ head \in Slots
          BY <2>1, <3>2, StoreUnread DEF TypeInv, TypeOK
        <4>2. \A j \in Slots : buffer'[j] \in {buffer[j], Head(fifo)}
                 /\ (j = head => buffer'[j] = Head(fifo))
          BY <1>1, <3>2, <4>1
        <4> QED BY <1>1, <1>2, <2>1, <4>1, <4>2 DEF Waiting
      <3> QED BY <1>6, <3>1, <3>2 DEF IsrByte, Store
    <2> QED BY <2>1, <2>2, <2>3
  <1>7. CASE Claim
    <2>1. slot' = tail /\ tail \in Unread /\ Unread' = Unread \ {tail}
      BY <1>7, ClaimUnread
    <2>2. UNCHANGED <<sent, fifo, kgot, ugot, buffer>>
      BY <1>7 DEF Claim, uart
    <2>3. Waiting' \subseteq Waiting
      BY <2>1, <2>2 DEF Waiting
    <2> QED BY <2>2, <2>3
  <1>8. CASE Fetch
    <2> DEFINE b == buffer[slot]
    <2>1. /\ kgot' = Append(kgot, b) /\ pc = "fetch" /\ pc' = "wrap"
          /\ UNCHANGED <<sent, fifo, buffer, head, tail, slot, ugot>>
      BY <1>8 DEF Fetch, uart, ring
    <2>2. /\ \A j \in Unread : b < buffer[j]
          /\ \A i \in 1 .. Len(kgot) : kgot[i] < b
          /\ \A i \in 1 .. Len(fifo) : b < fifo[i]
      BY <2>1 DEF OrderInv, ClaimedOrder, Undelivered
    <2>3. Waiting' = {buffer[j] : j \in Unread} /\ Waiting = Waiting' \cup {b}
      BY <1>4, <2>1 DEF Waiting, Unread
    <2>4. b \notin Waiting' /\ b \notin Elems(fifo)
      BY <1>1, <1>2, <2>2, <2>3 DEF Elems
    <2>5. b \in P /\ P' \subseteq P \ {b} /\ Stream!Newer(b, kgot)
      BY <2>1, <2>2, <2>3, <2>4 DEF Stream!Newer
    <2> QED BY <2>1, <2>5 DEF Stream!Deliver
  <1>9. CASE \E more \in BOOLEAN : GetcUnbuffered(more)
    <2> DEFINE b == Head(fifo)
    <2>1. /\ fifo # <<>> /\ fifo' = Tail(fifo) /\ ugot' = Append(ugot, b)
          /\ pc = "getc" /\ pc' # "fetch"
          /\ UNCHANGED <<sent, buffer, head, tail, slot, kgot>>
      BY <1>9 DEF GetcUnbuffered, ring
    <2>2. Elems(fifo) = Elems(fifo') \cup {b} /\ b = fifo[1] /\ 1 \in 1 .. Len(fifo)
      BY <1>1, <2>1, ElemsTail, TailElems
    <2>3. \A i \in 1 .. Len(fifo') : b < fifo'[i]
      BY <1>1, <2>1, TailIncreasing DEF OrderInv, FifoOrder
    <2>4. \A j \in Unread : buffer[j] < b
      BY <2>2 DEF OrderInv, RingOrder, Undelivered
    <2>5. \A i \in 1 .. Len(ugot) : ugot[i] < b
      BY <2>2 DEF OrderInv, FifoOrder
    <2>6. Waiting' = Waiting /\ Waiting = {buffer[j] : j \in Unread}
      BY <1>4, <2>1 DEF Waiting, Unread
    <2>7. b \notin Waiting /\ b \notin Elems(fifo')
      <3>1. b \in Nat /\ fifo' \in Seq(Nat)
        BY <1>1, <2>1, TailElems
      <3> QED BY <1>1, <1>2, <2>3, <2>4, <2>6, <3>1 DEF Elems
    <2>8. b \in P /\ P' \subseteq P \ {b} /\ Stream!Newer(b, ugot)
      BY <2>2, <2>5, <2>6, <2>7 DEF Stream!Newer
    <2> QED BY <2>1, <2>8 DEF Stream!Deliver
  <1>10. CASE \E nul \in BOOLEAN : WrapTail(nul)
    <2>1. /\ UNCHANGED <<sent, fifo, buffer, head, slot, kgot, ugot>>
          /\ pc' # "fetch" /\ pc # "fetch" /\ tail' = Wrap(tail)
      BY <1>10 DEF WrapTail, uart
    <2>2. tail \in 0 .. RxSize /\ RxSize \in Nat \ {0}
      BY SizesAssumption DEF TypeInv, TypeOK
    <2>3. First' = First
      BY <2>1, <2>2, WrapValue DEF First
    <2> QED BY <1>3, <2>1, <2>3
  <1> DEFINE Quiet == /\ UNCHANGED <<sent, fifo, buffer, head, tail, slot, kgot, ugot>>
                      /\ pc' = "fetch" <=> pc = "fetch"
  <1>11. CASE TxEmpty \/ IsrEnter \/ IsrDrained \/ IsrClear \/ GetcBuffered
    <2>1. Quiet
      BY <1>11 DEF TxEmpty, IsrEnter, IsrDrained, IsrClear, GetcBuffered, uart, ring
    <2> QED BY <1>3, <1>4, <2>1
  <1>12. CASE Start
    <2>1. Quiet
      <3>1. CASE \E n \in 0 .. MaxReq : SerialRead(n) \/ SerialReadString(n)
        BY <3>1 DEF SerialRead, SerialReadString, Begin, uart, ring
      <3>2. CASE SerialGetc \/ SerialGetcNonblock \/ SerialNwrite \/ RunUser \/ UserReturns
        BY <3>2 DEF SerialGetc, SerialGetcNonblock, SerialNwrite, RunUser,
           UserReturns, Begin, uart, ring
      <3>3. CASE \E o \in {"sysgetc", "readline"} : Syscall(o)
        BY <3>3 DEF Syscall, Begin, uart, ring
      <3> QED BY <1>12, <3>1, <3>2, <3>3 DEF Start
    <2> QED BY <1>3, <1>4, <2>1
  <1>13. CASE UNCHANGED vars
    <2>1. Quiet
      BY <1>13 DEF vars, uart, ring
    <2> QED BY <1>3, <1>4, <2>1
  <1> QED
    BY <1>5, <1>6, <1>7, <1>8, <1>9, <1>10, <1>11, <1>12, <1>13 DEF Next, Isr, Continue

\* The receive path implements the lossy, order-preserving byte channel.
THEOREM Refinement == Spec => StreamSpec
  <1>1. Init => Stream!Init
    <2> SUFFICES ASSUME Init PROVE Stream!Init
      OBVIOUS
    <2>1. First = 0 /\ head = 0 /\ RxSize \in Nat \ {0}
      BY WrapValue, SizesAssumption DEF Init, First
    <2>2. Waiting = {}
      BY <2>1 DEF Init, Waiting, Unread, Slots
    <2>3. Elems(fifo) = {}
      BY DEF Init, Elems
    <2> QED BY <2>2, <2>3 DEF Init, Stream!Init
  <1>2. (TypeInv /\ OrderInv) /\ [Next]_vars => [Stream!Next]_(Stream!vars)
    BY StreamStep
  <1> QED BY <1>1, <1>2, Invariance, PTL DEF Spec, StreamSpec, Stream!Spec

-----------------------------------------------------------------------------
(* The mode of serial_getc and the count of serial_read.                   *)

\* The ring is off exactly while a system call reads, with interrupts held off.
ModeInv ==
    /\ exl => pc = "getc" /\ isr = "off" /\ saved
    /\ enabled <=> ~exl

ReadInv ==
    op = "read" => /\ pc # "getc"
                   /\ pc \in {"wait", "fetch"} => num < want
                   /\ pc = "wrap" => num <= want
                   /\ pc \in {"kernel", "user"} => num = want

LEMMA CallStep == TypeInv /\ ModeInv /\ ReadInv /\ [Next]_vars => ModeInv' /\ ReadInv'
  <1> SUFFICES ASSUME TypeInv, ModeInv, ReadInv, [Next]_vars
               PROVE  ModeInv' /\ ReadInv'
    OBVIOUS
  <1>0. num \in Nat /\ want \in Nat
    BY DEF TypeInv, TypeOK
  <1> USE DEF ModeInv, ReadInv, uart, ring, call, trap
  <1>1. CASE Arrive
    BY <1>1 DEF Arrive
  <1>2. CASE TxEmpty
    BY <1>2 DEF TxEmpty
  <1>3. CASE IsrEnter
    BY <1>3 DEF IsrEnter
  <1>4. CASE IsrByte
    BY <1>4 DEF IsrByte, Store
  <1>5. CASE IsrDrained
    BY <1>5 DEF IsrDrained
  <1>6. CASE IsrClear
    BY <1>6 DEF IsrClear
  <1>7. CASE GetcBuffered
    BY <1>7 DEF GetcBuffered
  <1>8. CASE Claim
    BY <1>8 DEF Claim
  <1>9. CASE Fetch
    BY <1>0, <1>9 DEF Fetch
  <1>10. CASE \E nul \in BOOLEAN : WrapTail(nul)
    BY <1>0, <1>10 DEF WrapTail
  <1>11. CASE \E more \in BOOLEAN : GetcUnbuffered(more)
    BY <1>11 DEF GetcUnbuffered
  <1>12. CASE Start
    <2>1. ASSUME NEW n \in 0 .. MaxReq, SerialRead(n) PROVE ModeInv' /\ ReadInv'
      BY <2>1 DEF SerialRead, Begin
    <2>2. ASSUME NEW n \in 0 .. MaxReq, SerialReadString(n) PROVE ModeInv' /\ ReadInv'
      BY <2>2 DEF SerialReadString, Begin
    <2>3. CASE SerialGetc
      BY <2>3 DEF SerialGetc, Begin
    <2>4. CASE SerialGetcNonblock
      BY <2>4 DEF SerialGetcNonblock, Begin
    <2>5. CASE SerialNwrite
      BY <2>5 DEF SerialNwrite
    <2>6. CASE RunUser \/ UserReturns
      BY <2>6 DEF RunUser, UserReturns
    <2>7. ASSUME NEW o \in {"sysgetc", "readline"}, Syscall(o) PROVE ModeInv' /\ ReadInv'
      BY <2>7 DEF Syscall, Begin
    <2> QED BY <1>12, <2>1, <2>2, <2>3, <2>4, <2>5, <2>6, <2>7 DEF Start
  <1>13. CASE UNCHANGED vars
    BY <1>13 DEF vars
  <1> QED
    BY <1>1, <1>2, <1>3, <1>4, <1>5, <1>6, <1>7, <1>8, <1>9, <1>10, <1>11,
       <1>12, <1>13 DEF Next, Isr, Continue

LEMMA CallInvariance == Spec => [](TypeInv /\ ModeInv /\ ReadInv)
  <1>1. Init => TypeInv /\ ModeInv /\ ReadInv
    BY TypeInit DEF Init, ModeInv, ReadInv
  <1>2. (TypeInv /\ ModeInv /\ ReadInv) /\ [Next]_vars => (TypeInv /\ ModeInv /\ ReadInv)'
    BY TypeStep, CallStep
  <1> QED BY <1>1, <1>2, PTL DEF Spec

\* U1RXREG has one reader at a time: the foreground reads it only where the
\* handler cannot run (kernel.c:113-126, serial.c:234-239).
THEOREM SingleReaderTheorem == Spec => []SingleFifoReader
  <1>1. TypeInv /\ ModeInv => SingleFifoReader
    BY DEF TypeInv, TypeOK, ModeInv, SingleFifoReader
  <1> QED BY <1>1, CallInvariance, PTL

\* serial_read stores exactly the bytes it was asked for (serial.c:203-216).
THEOREM ReadTheorem == Spec => []ReadFillsExactly
  <1>1. TypeInv /\ ReadInv => ReadFillsExactly
    BY DEF TypeInv, TypeOK, ReadInv, ReadFillsExactly
  <1> QED BY <1>1, CallInvariance, PTL
=============================================================================

----------------------------- MODULE UploadProofs -----------------------------
(***************************************************************************)
(* Proofs about Upload, for every image, block, program, ring and EEPROM   *)
(* and any amount of noise.                                                *)
(*                                                                         *)
(* Units may be lost or altered but never overtake one another, so what    *)
(* the kernel has taken, what is in the ring and what the host has still   *)
(* to send lie in the order of the upload.  Frames are accepted in         *)
(* increasing order, and whoever misses one does not find enough of them   *)
(* behind it to come to the end.                                           *)
(***************************************************************************)
EXTENDS Upload, Division, SequenceTheorems, TLAPS

-----------------------------------------------------------------------------
(* Control: where the kernel stands, and what its variables hold there.    *)

InBlock == piece = 0 /\ pc \in {"crc", "data", "check", "write", "verify"}

Control ==
    /\ pc \in {"menu", "size", "elsewhere"} => piece = 0
    /\ pc \in {"write", "verify"} => piece = 0 /\ CheckCrc
    /\ pc = "running" => piece = 5
    /\ pc \in {"menu", "size", "elsewhere", "running", "crc"} => crc = Altered /\ buf = <<>>
    /\ pc = "data" => Len(buf) < need
    /\ pc \in {"check", "write", "verify"} => Len(buf) = need
    /\ InBlock => ~flashed /\ addr < size /\ need = Chunk(size, addr)

Shape == TypeOK /\ Control

-----------------------------------------------------------------------------
(* Nothing overtakes on the line, in the ring and in the kernel.           *)

Own == Units(up) \cup {Altered}

Before(v, w) ==
    v # Altered /\ w # Altered => v[2] < w[2] \/ (v[2] = w[2] /\ v[3] < w[3])

\* What crcread has taken of the frame it reads.
Taken == {crc} \cup {buf[k] : k \in 1 .. Len(buf)}

InTurn ==
    /\ Taken \subseteq Own
    /\ \A i \in 1 .. Len(ring) : ring[i] \in Own
    /\ \A v \in Taken : Before(v, <<up, frame, byte>>)
    /\ \A v \in Taken : \A i \in 1 .. Len(ring) : Before(v, ring[i])
    /\ \A i \in 1 .. Len(ring) : Before(ring[i], <<up, frame, byte>>)
    /\ \A i, j \in 1 .. Len(ring) : i < j => Before(ring[i], ring[j])

\* What is still to be checked is of later frames than g.
Behind(v, g) == v # Altered /\ g > 0 => v[2] > g
Beyond(g) ==
    /\ \A v \in Taken : Behind(v, g)
    /\ \A i \in 1 .. Len(ring) : Behind(ring[i], g)
    /\ Behind(<<up, frame, byte>>, g)

-----------------------------------------------------------------------------
(* A flash that missed a block does not come to its end.                   *)

BytesStored(n) == \A a \in 0 .. ImageLen - 1 : a < n => mem[a] = ImageByte(a)

\* d blocks have been verified, the last of them block g of the image.
BlocksSoFar(d, g) ==
    addr = d * BlockSize /\ d <= g /\ Beyond(g) /\ (d = g => BytesStored(addr))

FlashSoFar == InBlock /\ size = ImageLen =>
    up = "image" /\ \E d, g \in 0 .. Blocks : BlocksSoFar(d, g)

(* A program that missed a piece is not checked to its end.                *)
Pieces == IF pc = "running" THEN 5 ELSE piece - 1

\* The pieces read so far, the last of them frame g.
PiecesSoFar(g) ==
    /\ Pieces <= g /\ Beyond(g) /\ (Pieces > 0 => g <= FrameCount(up))
    /\ g = Pieces => \A f \in 1 .. Pieces : loaded[f] = Frame(up, f)

LoadSoFar ==
    /\ piece = 0 => loaded = <<>> /\ checked
    /\ piece > 0 /\ checked =>
          /\ Len(loaded) = Pieces
          /\ \A i \in 1 .. Pieces : \E f \in 1 .. FrameCount(up) : loaded[i] = Frame(up, f)
          /\ \E g \in Nat : PiecesSoFar(g)

ArrivalInv == InTurn /\ FlashSoFar /\ LoadSoFar /\ CompleteMeansStored

-----------------------------------------------------------------------------
(* On a clean line the kernel reads what the host sends, in step.          *)

Succ(v) == IF v[3] < LastUnit(v[1], v[2]) THEN <<v[1], v[2], v[3] + 1>>
                                          ELSE <<v[1], v[2] + 1, 0>>

End(u) == <<u, FrameCount(u) + 1, 0>>

\* The unit the kernel reads next.
Coming == IF ring = <<>> THEN <<up, frame, byte>> ELSE Head(ring)

Unbroken ==
    /\ \A i \in 1 .. Len(ring) : ring[i] # Altered
    /\ \A i \in 1 .. Len(ring) - 1 : ring[i + 1] = Succ(ring[i])
    /\ ring # <<>> => <<up, frame, byte>> = Succ(ring[Len(ring)])
    /\ late => ring[Len(ring)] # Key(up)

\* crcread reads frame f of upload u.
ReadsFrame(u, f) ==
    /\ need = FrameLen(u, f) /\ f \in 1 .. FrameCount(u)
    /\ pc = "crc" => Coming = <<u, f, 0>>
    /\ pc = "data" => /\ crc = <<u, f, 0>> /\ Coming = <<u, f, Len(buf) + 1>>
                      /\ \A k \in 1 .. Len(buf) : buf[k] = <<u, f, k>>
    /\ pc \in {"check", "write", "verify"} =>
          crc = <<u, f, 0>> /\ buf = Frame(u, f) /\ Coming = <<u, f + 1, 0>>

InStep ==
    /\ pc = "menu" => Coming \in {Key(up), End(up)}
    /\ pc = "size" => up = "image" /\ Coming = SizeField
    /\ pc \in {"running", "elsewhere"} => Coming = End(up)
    /\ InBlock => /\ up = "image" /\ size = ImageLen
                  /\ \E d \in 0 .. Blocks : addr = d * BlockSize /\ ReadsFrame("image", d + 1)
    /\ piece > 0 => /\ up \in Programs /\ Regular(up)
                    /\ pc # "running" => ReadsFrame(up, piece)
    /\ pc = "verify" => \A k \in 1 .. need : mem[(addr + k - 1) % MemSize] = buf[k]

CleanInv == clean => Regular(up) /\ Unbroken /\ InStep

-----------------------------------------------------------------------------
(* Constants, frames and units.                                            *)

LEMMA Constants ==
    /\ BlockSize \in Nat /\ BlockSize > 0
    /\ ImageLen \in Nat /\ ImageLen > 0 /\ MemSize \in Nat /\ ImageLen <= MemSize
    /\ HeaderLen \in Nat /\ HeaderLen > 0
    /\ RingSize \in Nat /\ RingSize > 1
    /\ MaxSegment \in Nat /\ MaxNoise \in Nat /\ MaxCommands \in Nat /\ MaxResets \in Nat
  BY UploadAssumption

LEMMA WrongSize ==
  ASSUME NEW n \in WrongSizes
  PROVE  n \in Nat /\ n # ImageLen
  BY UploadAssumption

LEMMA UploadNames ==
    /\ "image" \in Uploads /\ "shell" \in Uploads /\ "noise" \notin Uploads
    /\ \A p \in Programs : p \in Uploads /\ p # "image" /\ p # "shell"
    /\ \A u \in Uploads : u = "image" \/ u = "shell" \/ u \in Programs
  BY UploadAssumption, Zenon DEF Uploads

LEMMA SegmentsTyped ==
  ASSUME NEW p \in Programs
  PROVE  Len(Segments[p]) \in Nat /\ \A s \in 1 .. Len(Segments[p]) : Segments[p][s] \in Nat
  <1>1. Segments[p] \in Seq(Nat)
    BY UploadAssumption
  <1> QED BY <1>1

LEMMA ChunkTyped ==
  ASSUME NEW n \in Nat, NEW a \in Nat, a < n
  PROVE  /\ Chunk(n, a) \in Nat /\ 0 < Chunk(n, a) /\ Chunk(n, a) <= BlockSize
         /\ a + Chunk(n, a) <= n /\ a + Chunk(n, a) <= a + BlockSize
         /\ a + Chunk(n, a) < n => Chunk(n, a) = BlockSize
  BY Constants DEF Chunk, Lesser

LEMMA BlocksBound ==
  Blocks \in Nat /\ Blocks > 0 /\ ImageLen <= Blocks * BlockSize /\ (Blocks - 1) * BlockSize < ImageLen
  <1>1. PICK n \in Nat : n = ImageLen + BlockSize - 1
    BY Constants
  <1>2. BlockSize \in Nat \ {0}
    BY Constants
  <1>3. PICK q \in Nat, r \in Nat : n \div BlockSize = q /\ n = BlockSize * q + r /\ r < BlockSize
    BY <1>2, DivMod
  <1>4. Blocks = q
    BY <1>1, <1>3 DEF Blocks
  <1>5. q > 0
    BY <1>1, <1>3, Constants
  <1>6. q * BlockSize = BlockSize * q /\ (q - 1) * BlockSize = BlockSize * q - BlockSize
    BY <1>3, Constants
  <1>7. ImageLen <= q * BlockSize /\ (q - 1) * BlockSize < ImageLen
    BY <1>1, <1>3, <1>6, Constants
  <1> QED BY <1>4, <1>5, <1>7

LEMMA Multiples ==
  ASSUME NEW d \in Nat, NEW e \in Nat
  PROVE  /\ d * BlockSize \in Nat
         /\ (d + 1) * BlockSize = d * BlockSize + BlockSize
         /\ d < e => d * BlockSize + BlockSize <= e * BlockSize
  <1>1. d * BlockSize \in Nat /\ (d + 1) * BlockSize = d * BlockSize + BlockSize
    BY Constants
  <1>2. ASSUME d < e PROVE d * BlockSize + BlockSize <= e * BlockSize
    <2>1. PICK c \in Nat : e = d + 1 + c
      BY <1>2
    <2>2. e * BlockSize = d * BlockSize + BlockSize + c * BlockSize /\ c * BlockSize >= 0
      BY <2>1, Constants
    <2> QED BY <2>2, Constants
  <1> QED BY <1>1, <1>2

\* Block d of the image is there exactly if the image is longer than d blocks.
LEMMA BlockThere ==
  ASSUME NEW d \in Nat
  PROVE  d * BlockSize < ImageLen <=> d + 1 <= Blocks
  <1>1. ASSUME d + 1 <= Blocks PROVE d * BlockSize < ImageLen
    <2>1. Blocks - 1 \in Nat /\ (d < Blocks - 1 \/ d = Blocks - 1)
      BY <1>1, BlocksBound
    <2>2. d < Blocks - 1 => d * BlockSize + BlockSize <= (Blocks - 1) * BlockSize
      BY <2>1, Multiples
    <2> DEFINE m == (Blocks - 1) * BlockSize  k == d * BlockSize
    <2>3. k \in Nat /\ m \in Nat /\ m < ImageLen /\ (d < Blocks - 1 => k + BlockSize <= m) /\ (d = Blocks - 1 => k = m)
      BY <2>1, <2>2, Multiples, BlocksBound
    <2> HIDE DEF m, k
    <2>4. k < ImageLen
      BY <2>1, <2>3, Constants
    <2> QED BY <2>4 DEF k
  <1>2. ASSUME Blocks <= d PROVE ImageLen <= d * BlockSize
    <2>1. Blocks < d => Blocks * BlockSize + BlockSize <= d * BlockSize
      BY BlocksBound, Multiples
    <2> DEFINE m == Blocks * BlockSize  k == d * BlockSize
    <2>2. k \in Nat /\ m \in Nat /\ ImageLen <= m /\ (Blocks < d => m + BlockSize <= k) /\ (Blocks = d => k = m)
      BY <2>1, Multiples, BlocksBound
    <2> HIDE DEF m, k
    <2>3. ImageLen <= k
      BY <1>2, <2>2, Constants, BlocksBound
    <2> QED BY <2>3 DEF k
  <1>3. d * BlockSize \in Nat
    BY Multiples
  <1> QED BY <1>1, <1>2, <1>3, BlocksBound, Constants

LEMMA FrameTyped ==
  ASSUME NEW u \in Uploads
  PROVE  /\ FrameCount(u) \in Nat
         /\ \A f \in 1 .. FrameCount(u) : FrameLen(u, f) \in Nat
         /\ FrameCount(u) > 0 => FrameLen(u, 1) > 0
  <1>1. CASE u = "image"
    <2>1. FrameCount(u) = Blocks
      BY <1>1 DEF FrameCount
    <2>2. ASSUME NEW f \in 1 .. Blocks
          PROVE  FrameLen(u, f) \in Nat /\ FrameLen(u, f) > 0
      <3>1. f - 1 \in Nat /\ f - 1 + 1 <= Blocks
        BY BlocksBound
      <3>2. (f - 1) * BlockSize < ImageLen /\ (f - 1) * BlockSize \in Nat
        BY <3>1, BlockThere, Multiples
      <3>3. FrameLen(u, f) = Lesser(ImageLen - (f - 1) * BlockSize, BlockSize)
        BY <1>1 DEF FrameLen
      <3> QED BY <3>2, <3>3, Constants DEF Lesser
    <2> QED BY <2>1, <2>2, BlocksBound
  <1>2. CASE u = "shell"
    BY <1>2 DEF FrameCount
  <1>3. CASE u \in Programs
    <2>1. FrameCount(u) = 1 + 2 * Len(Segments[u]) /\ u # "image"
      BY <1>3, UploadNames DEF FrameCount
    <2>2. Len(Segments[u]) \in Nat /\ \A s \in 1 .. Len(Segments[u]) : Segments[u][s] \in Nat
      BY <1>3, SegmentsTyped
    <2>3. ASSUME NEW f \in 1 .. FrameCount(u)
          PROVE  FrameLen(u, f) \in Nat
      <3>1. f = 1 \/ f % 2 = 0 \/ f \div 2 \in 1 .. Len(Segments[u])
        BY <2>1, <2>2
      <3> QED BY <2>1, <2>2, <3>1, Constants DEF FrameLen
    <2>4. FrameLen(u, 1) = HeaderLen
      BY <2>1 DEF FrameLen
    <2> QED BY <2>1, <2>2, <2>3, <2>4, Constants
  <1> QED BY <1>1, <1>2, <1>3, UploadNames

LEMMA ImageFrame ==
  ASSUME NEW d \in Nat, d * BlockSize < ImageLen
  PROVE  /\ FrameLen("image", d + 1) = Chunk(ImageLen, d * BlockSize)
         /\ FrameCount("image") = Blocks /\ d + 1 \in 1 .. Blocks
  <1>1. FrameCount("image") = Blocks
    BY DEF FrameCount
  <1>2. d + 1 - 1 = d /\ d + 1 <= Blocks
    BY BlockThere
  <1>3. FrameLen("image", d + 1) = Lesser(ImageLen - d * BlockSize, BlockSize)
    BY <1>2 DEF FrameLen
  <1> QED BY <1>1, <1>2, <1>3, BlocksBound DEF Chunk

LEMMA LastTyped ==
  ASSUME NEW u \in Uploads, NEW f \in 0 .. FrameCount(u)
  PROVE  LastUnit(u, f) \in Nat /\ (f = 0 => LastUnit(u, f) >= 1) /\ (f > 0 => LastUnit(u, f) = FrameLen(u, f))
  <1>1. CASE f = 0
    BY <1>1 DEF LastUnit
  <1>2. CASE f > 0
    <2>1. f \in 1 .. FrameCount(u)
      BY <1>2, FrameTyped
    <2> QED BY <1>2, <2>1, FrameTyped DEF LastUnit
  <1> QED BY <1>1, <1>2, FrameTyped

LEMMA UnitShape ==
  ASSUME NEW u \in Uploads, NEW v \in Units(u)
  PROVE  /\ v = <<u, v[2], v[3]>> /\ v[1] = u
         /\ v[2] \in 0 .. FrameCount(u) /\ v[3] \in 0 .. LastUnit(u, v[2])
         /\ v[2] = 0 => v[3] >= 1
         /\ v # Altered /\ v # End(u)
  <1>0. FrameCount(u) \in Nat /\ LastUnit(u, 0) \in Nat
    BY FrameTyped, LastTyped
  <1>1. CASE \E k \in 1 .. LastUnit(u, 0) : v = <<u, 0, k>>
    BY <1>0, <1>1, UploadNames DEF Altered, End
  <1>2. CASE \E f \in 1 .. FrameCount(u) : \E k \in 0 .. LastUnit(u, f) : v = <<u, f, k>>
    <2>1. PICK f \in 1 .. FrameCount(u) : \E k \in 0 .. LastUnit(u, f) : v = <<u, f, k>>
      BY <1>2
    <2>2. PICK k \in 0 .. LastUnit(u, f) : v = <<u, f, k>>
      BY <2>1
    <2>3. u # "noise"
      BY UploadNames
    <2> QED BY <1>0, <2>2, <2>3 DEF Altered, End
  <1> QED BY <1>1, <1>2 DEF Units

LEMMA UnitsHave ==
  ASSUME NEW u \in Uploads, NEW f \in 0 .. FrameCount(u), NEW k \in 0 .. LastUnit(u, f),
         f = 0 => k >= 1
  PROVE  <<u, f, k>> \in Units(u)
  <1>1. FrameCount(u) \in Nat /\ LastUnit(u, f) \in Nat
    BY FrameTyped, LastTyped
  <1>2. CASE f = 0
    BY <1>1, <1>2 DEF Units
  <1>3. CASE f \in 1 .. FrameCount(u)
    BY <1>1, <1>3 DEF Units
  <1> QED BY <1>1, <1>2, <1>3

LEMMA UnitsAll ==
  ASSUME NEW u \in Uploads
  PROVE  Units(u) \subseteq AllUnits /\ Altered \in AllUnits
  <1>1. Units(u) \in {Units(w) : w \in Uploads}
    OBVIOUS
  <1>2. Units(u) \subseteq UNION {Units(w) : w \in Uploads}
    BY <1>1, Zenon
  <1> QED BY <1>2 DEF AllUnits

\* The unit after v is a unit of the same upload, or its end.
LEMMA SuccUnit ==
  ASSUME NEW u \in Uploads, NEW v \in Units(u)
  PROVE  /\ Succ(v) \in Units(u) \cup {End(u)}
         /\ Before(v, Succ(v)) /\ Succ(v) # Altered
         /\ Succ(v)[1] = u
  <1>1. /\ v = <<u, v[2], v[3]>> /\ v[2] \in 0 .. FrameCount(u) /\ v[3] \in 0 .. LastUnit(u, v[2])
        /\ FrameCount(u) \in Nat /\ LastUnit(u, v[2]) \in Nat /\ v # Altered /\ v[1] = u
    BY UnitShape, LastTyped, FrameTyped
  <1>2. CASE v[3] < LastUnit(u, v[2])
    <2>1. Succ(v) = <<u, v[2], v[3] + 1>>
      BY <1>1, <1>2 DEF Succ
    <2>2. v[3] + 1 \in 0 .. LastUnit(u, v[2]) /\ v[3] + 1 >= 1
      BY <1>1, <1>2
    <2>3. Succ(v) \in Units(u)
      BY <1>1, <2>1, <2>2, UnitsHave
    <2>4. Succ(v) # Altered
      BY <2>3, UnitShape
    <2> QED BY <1>1, <2>1, <2>3, <2>4 DEF Before
  <1>3. CASE v[3] = LastUnit(u, v[2])
    <2>1. Succ(v) = <<u, v[2] + 1, 0>>
      BY <1>1, <1>3 DEF Succ
    <2>2. CASE v[2] = FrameCount(u)
      <3>1. Succ(v) = End(u)
        BY <2>1, <2>2 DEF End
      <3>2. End(u) # Altered
        BY UploadNames DEF End, Altered
      <3> QED BY <1>1, <2>1, <3>1, <3>2 DEF Before
    <2>3. CASE v[2] < FrameCount(u)
      <3>1. v[2] + 1 \in 0 .. FrameCount(u) /\ v[2] + 1 >= 1
        BY <1>1, <2>3
      <3>2. 0 \in 0 .. LastUnit(u, v[2] + 1)
        BY <3>1, LastTyped
      <3>3. Succ(v) \in Units(u)
        BY <1>1, <2>1, <3>1, <3>2, UnitsHave
      <3>4. Succ(v) # Altered
        BY <3>3, UnitShape
      <3> QED BY <1>1, <2>1, <3>3, <3>4 DEF Before
    <2> QED BY <1>1, <2>2, <2>3
  <1> QED BY <1>1, <1>2, <1>3

-----------------------------------------------------------------------------
(* Types and control.                                                      *)

LEMMA NextCases ==
  ASSUME Next
  PROVE  \/ Menu(Head(ring)) \/ ReadSize(Head(ring)) \/ ReadCrc(Head(ring)) \/ ReadData(Head(ring))
         \/ CheckBlock \/ WriteBlock \/ VerifyBlock \/ LoadPiece
         \/ SendUnit \/ SendOverrun \/ SendNoise \/ Back \/ Reset
         \/ \E u \in Uploads : Command(u)
  BY DEF Next, Kernel, Host

\* What reading a unit does to the ring.
LEMMA ReadRing ==
  ASSUME NEW S, ring \in Seq(S), NEW u, Read(u)
  PROVE  /\ u \in S /\ u = ring[1] /\ u = Head(ring)
         /\ ring' \in Seq(S) /\ Len(ring') = Len(ring) - 1 /\ Len(ring) \in Nat /\ Len(ring) > 0
         /\ \A i \in 1 .. Len(ring') : ring'[i] = ring[i + 1]
         /\ late' = late /\ (late => Len(ring) > 1)
  BY DEF Read, Readable

LEMMA InitShape == Init => Shape
  <1> SUFFICES ASSUME Init PROVE Shape
    OBVIOUS
  <1> USE DEF Init
  <1>1. up \in Uploads /\ <<up, frame, byte>> = End(up)
    BY UploadNames DEF FrameCount, End
  <1>2. ring \in Seq(AllUnits) /\ late = FALSE /\ Len(ring) <= RingSize
    BY Constants
  <1>3. crc \in AllUnits /\ Altered \in AllUnits
    BY UploadNames, UnitsAll
  <1>4. buf \in Seq(AllUnits) /\ loaded \in Seq(Seq(AllUnits)) /\ mem \in [0 .. MemSize - 1 -> AllUnits]
    BY <1>3
  <1>5. /\ noise \in 0 .. MaxNoise /\ commands \in 0 .. MaxCommands /\ resets \in 0 .. MaxResets
        /\ size \in Nat /\ addr \in Nat /\ need \in Nat /\ piece \in 0 .. 5
    BY Constants
  <1>50. flashed \in BOOLEAN /\ checked \in BOOLEAN /\ clean \in BOOLEAN /\ late \in BOOLEAN
    BY Zenon
  <1>6. TypeOK
    <2> USE DEF End
    <2> QED BY <1>1, <1>2, <1>3, <1>4, <1>5, <1>50 DEF TypeOK
  <1>7. Control
    BY DEF Control, InBlock
  <1> QED BY <1>6, <1>7 DEF Shape

\* The host goes on to the unit after the one it has sent.
LEMMA AdvanceSucc ==
  ASSUME TypeOK, Sending, Advance
  PROVE  /\ <<up, frame, byte>> \in Units(up) /\ up' = up
         /\ <<up, frame', byte'>> = Succ(<<up, frame, byte>>)
         /\ <<up, frame', byte'>> \in Units(up) \cup {End(up)}
  <1> DEFINE v == <<up, frame, byte>>
  <1>1. up \in Uploads /\ v \in Units(up) \cup {End(up)}
    BY DEF TypeOK, End
  <1>2. v # End(up)
    <2>1. FrameCount(up) \in Nat
      BY <1>1, FrameTyped
    <2> QED BY <2>1 DEF Sending, End
  <1>3. v \in Units(up) /\ v[1] = up /\ v[2] = frame /\ v[3] = byte
    BY <1>1, <1>2
  <1>4. up' = up /\ <<up, frame', byte'>> = Succ(v)
    BY <1>3 DEF Advance, Succ
  <1>5. Succ(v) \in Units(up) \cup {End(up)}
    BY <1>1, <1>3, SuccUnit
  <1> QED BY <1>3, <1>4, <1>5

\* What the sending of a unit leaves in the ring is a stretch of what was in it and
\* the unit or an altered one.
LEMMA RingSent ==
  ASSUME TypeOK, SendUnit \/ SendOverrun \/ SendNoise
  PROVE  /\ ring' \in Seq(AllUnits) /\ late' \in BOOLEAN /\ (late' => ring' # <<>>)
         /\ Len(ring') <= IF late' THEN RingSize + 1 ELSE RingSize
         /\ \E x \in {<<up, frame, byte>>, Altered} : \E d \in Nat :
               /\ Len(ring') + d <= Len(ring) + 1
               /\ \A i \in 1 .. Len(ring') : ring'[i] = Append(ring, x)[i + d]
  <1> DEFINE n == <<up, frame, byte>>
             T == /\ ring' \in Seq(AllUnits) /\ late' \in BOOLEAN /\ (late' => ring' # <<>>)
                  /\ Len(ring') <= IF late' THEN RingSize + 1 ELSE RingSize
             P(x, d) == /\ Len(ring') + d <= Len(ring) + 1
                        /\ \A i \in 1 .. Len(ring') : ring'[i] = Append(ring, x)[i + d]
  <1>1. /\ ring \in Seq(AllUnits) /\ Len(ring) \in Nat /\ late \in BOOLEAN
        /\ Len(ring) <= (IF late THEN RingSize + 1 ELSE RingSize) /\ (late => ring # <<>>)
        /\ RingSize \in Nat /\ RingSize > 1
    BY Constants DEF TypeOK
  <1>2. \A x \in {n, Altered} : x \in AllUnits
    <2>1. up \in Uploads /\ Sending /\ Advance
      BY DEF TypeOK, SendUnit, SendOverrun, SendNoise
    <2> QED BY <2>1, AdvanceSucc, UnitsAll
  <1> HIDE DEF n
  <1>3. CASE UNCHANGED <<ring, late>>
    <2>1. P(n, 0)
      BY <1>1, <1>3
    <2>2. T
      BY <1>1, <1>3
    <2> QED BY <2>1, <2>2 DEF n
  <1>4. ASSUME NEW x \in {n, Altered}, Arrives(x) PROVE T /\ P(x, 0)
    <2>1. /\ ring' = Append(ring, x) /\ Len(ring') = Len(ring) + 1 /\ ring' \in Seq(AllUnits)
          /\ ring' # <<>>
      BY <1>1, <1>2, <1>4 DEF Arrives
    <2>2. /\ late' \in BOOLEAN
          /\ ~late' => Len(ring) < RingSize
          /\ late' => Len(ring) < RingSize \/ ~late
      BY <1>4 DEF Arrives
    <2>3. T
      BY <1>1, <2>1, <2>2
    <2>4. \A i \in 1 .. Len(ring') : ring'[i] = Append(ring, x)[i + 0]
      BY <2>1
    <2> QED BY <1>1, <2>1, <2>3, <2>4
  <1>5. CASE SendOverrun
    <2> DEFINE all == Append(ring, n)
    <2>1. /\ all \in Seq(AllUnits) /\ Len(all) = Len(ring) + 1 /\ Len(ring) >= RingSize /\ late' = FALSE
          /\ \A i \in 1 .. Len(ring) : all[i] = ring[i]
      BY <1>1, <1>2, <1>5 DEF SendOverrun, n
    <2>2. \A i \in 1 .. Len(all) : all[i] \in AllUnits
      BY <2>1
    <2>3. CASE ring' = SubSeq(ring, 1, RingSize)
      <3>1. /\ ring' \in Seq(AllUnits) /\ Len(ring') = RingSize
            /\ \A i \in 1 .. RingSize : ring'[i] = ring[i]
        BY <1>1, <2>1, <2>3
      <3>2. \A i \in 1 .. RingSize : ring'[i] = all[i + 0]
        BY <1>1, <2>1, <3>1
      <3> HIDE DEF all
      <3>3. T
        <4>1. late' = FALSE /\ Len(ring') = RingSize /\ ring' \in Seq(AllUnits)
          BY <2>1, <3>1
        <4>2. late' \in BOOLEAN
          BY <4>1, Zenon
        <4> QED BY <1>1, <4>1, <4>2
      <3>4. P(n, 0)
        BY <1>1, <2>1, <3>1, <3>2 DEF all
      <3> QED BY <3>3, <3>4 DEF n
    <2>4. ASSUME NEW k \in 0 .. (IF late THEN 2 ELSE 1), ring' = LastOf(k, all)
          PROVE  T /\ \E d \in Nat : P(n, d)
      <3>1. PICK d \in Nat : d = Len(all) - k
        BY <1>1, <2>1
      <3>2. ring' = SubSeq(all, d + 1, d + k) /\ k \in Nat /\ k <= RingSize /\ d + k = Len(all)
        <4>1. (Len(all) - k) + 1 = d + 1 /\ d + k = Len(all)
          BY <2>1, <3>1
        <4> HIDE DEF all
        <4> QED BY <1>1, <2>4, <4>1 DEF LastOf
      <3> HIDE DEF all
      <3>3. \A i \in d + 1 .. d + k : all[i] \in AllUnits
        BY <2>2, <3>2
      <3>4. /\ ring' \in Seq(AllUnits)
            /\ Len(ring') = IF d + 1 <= d + k THEN d + k - (d + 1) + 1 ELSE 0
            /\ \A i \in 1 .. d + k - (d + 1) + 1 : ring'[i] = all[d + 1 + i - 1]
        BY <3>2, <3>3, SubSeqProperties
      <3>5. /\ Len(ring') = k /\ d + k - (d + 1) + 1 = k
            /\ \A i \in 1 .. k : d + 1 + i - 1 = i + d
        BY <3>2, <3>4
      <3>6. \A i \in 1 .. k : ring'[i] = all[i + d]
        BY <3>4, <3>5
      <3>7. T
        <4>1. late' = FALSE /\ Len(ring') = k /\ ring' \in Seq(AllUnits)
          BY <2>1, <3>4, <3>5
        <4>2. late' \in BOOLEAN
          BY <4>1, Zenon
        <4> QED BY <1>1, <3>2, <4>1, <4>2
      <3>8. Len(ring') + d <= Len(ring) + 1
        BY <1>1, <2>1, <3>1, <3>2, <3>5
      <3>9. \A i \in 1 .. Len(ring') : ring'[i] = Append(ring, n)[i + d]
        BY <3>5, <3>6 DEF all
      <3> QED BY <3>7, <3>8, <3>9
    <2> QED BY <1>5, <2>3, <2>4 DEF SendOverrun, n
  <1>6. CASE SendUnit
    <2>1. Arrives(n)
      BY <1>6 DEF SendUnit, n
    <2> QED BY <1>4, <2>1 DEF n
  <1>7. CASE SendNoise
    <2>1. UNCHANGED <<ring, late>> \/ Arrives(Altered)
      BY <1>7 DEF SendNoise
    <2> QED BY <1>3, <1>4, <2>1 DEF n
  <1> QED BY <1>5, <1>6, <1>7

LEMMA SendShape ==
  ASSUME Shape, SendUnit \/ SendOverrun \/ SendNoise
  PROVE  Shape'
  <1> USE DEF SendUnit, SendOverrun, SendNoise, flash, program, reading, trouble
  <1>1. /\ up' \in Uploads /\ up' = up
        /\ <<up', frame', byte'>> \in Units(up') \cup {<<up', FrameCount(up') + 1, 0>>}
    <2>1. up \in Uploads
      BY DEF Shape, TypeOK
    <2>2. up' = up /\ <<up, frame', byte'>> \in Units(up) \cup {End(up)}
      BY AdvanceSucc DEF Shape
    <2> QED BY <2>1, <2>2 DEF End
  <1>2. <<up, frame, byte>> \in AllUnits /\ Altered \in AllUnits
    <2>1. up \in Uploads
      BY DEF Shape, TypeOK
    <2> QED BY <2>1, AdvanceSucc, UnitsAll DEF Shape
  <1>4. /\ ring' \in Seq(AllUnits) /\ late' \in BOOLEAN /\ (late' => ring' # <<>>)
        /\ Len(ring') <= IF late' THEN RingSize + 1 ELSE RingSize
    BY RingSent DEF Shape
  <1>5. clean' \in BOOLEAN /\ noise' \in 0 .. MaxNoise /\ commands' \in 0 .. MaxCommands /\ resets' \in 0 .. MaxResets
    <2>1. /\ clean \in BOOLEAN /\ noise \in 0 .. MaxNoise /\ commands \in 0 .. MaxCommands
          /\ resets \in 0 .. MaxResets
      BY DEF Shape, TypeOK
    <2>2. /\ clean' = clean \/ clean' = FALSE
          /\ noise' = noise \/ (noise < MaxNoise /\ noise' = noise + 1)
          /\ commands' = commands /\ resets' = resets
      BY DEF Advance
    <2>3. clean' \in BOOLEAN
      BY <2>1, <2>2, Zenon
    <2>4. noise' \in 0 .. MaxNoise
      BY <2>1, <2>2, Constants
    <2> QED BY <2>1, <2>2, <2>3, <2>4
  <1>6. UNCHANGED <<pc, size, addr, flashed, piece, checked, loaded, need, crc, buf, mem>>
    OBVIOUS
  <1>7. TypeOK'
    BY <1>1, <1>4, <1>5, <1>6 DEF Shape, TypeOK
  <1>8. Control'
    BY <1>6 DEF Shape, Control, InBlock, CheckCrc
  <1> QED BY <1>7, <1>8 DEF Shape

LEMMA CommandShape ==
  ASSUME Shape, NEW u \in Uploads, Command(u)
  PROVE  Shape'
  <1> USE DEF Command, flash, program, reading
  <1>1. <<up', frame', byte'>> \in Units(up')
    <2>1. 0 \in 0 .. FrameCount(u) /\ 1 \in 0 .. LastUnit(u, 0)
      BY FrameTyped, LastTyped
    <2> QED BY <2>1, UnitsHave
  <1>2. UNCHANGED <<late, pc, size, addr, flashed, piece, checked, loaded, need, crc, buf, mem, noise, resets>>
    OBVIOUS
  <1>20. /\ ring' \in Seq(AllUnits) /\ (late => ring' # <<>>) /\ late \in BOOLEAN
         /\ Len(ring') <= IF late THEN RingSize + 1 ELSE RingSize
    <2>1. <<>> \in Seq(AllUnits) /\ <<Altered>> \in Seq(AllUnits) /\ Len(<<Altered>>) = 1
      BY UnitsAll, UploadNames
    <2>2. late \in BOOLEAN
      BY DEF Shape, TypeOK
    <2> QED BY <2>1, <2>2, Constants
  <1>3. clean' \in BOOLEAN /\ commands' \in 0 .. MaxCommands
    BY Constants DEF Shape, TypeOK, Regular
  <1>4. TypeOK'
    BY <1>1, <1>2, <1>20, <1>3 DEF Shape, TypeOK
  <1>5. Control'
    BY <1>2 DEF Shape, Control, InBlock, CheckCrc
  <1> QED BY <1>4, <1>5 DEF Shape

LEMMA ReadShape ==
  ASSUME Shape, NEW u, Menu(u) \/ ReadSize(u) \/ ReadCrc(u) \/ ReadData(u)
  PROVE  Shape'
  <1> USE DEF host, flash, program, trouble
  <1>0. Read(u)
    BY DEF Menu, ReadSize, ReadCrc, ReadData
  <1>1. /\ ring \in Seq(AllUnits) /\ Len(ring) <= (IF late THEN RingSize + 1 ELSE RingSize)
        /\ late \in BOOLEAN
    BY DEF Shape, TypeOK
  <1>2. /\ ring' \in Seq(AllUnits) /\ Len(ring') <= (IF late' THEN RingSize + 1 ELSE RingSize)
        /\ late' \in BOOLEAN /\ (late' => ring' # <<>>) /\ u \in AllUnits
    BY <1>0, <1>1, ReadRing, Constants
  <1>3. UNCHANGED <<up, frame, byte, commands, mem, clean, noise, resets>>
    BY DEF Menu, ReadSize, ReadCrc, ReadData
  <1>4. /\ up \in Uploads
        /\ <<up, frame, byte>> \in Units(up) \cup {<<up, FrameCount(up) + 1, 0>>}
        /\ mem \in [0 .. MemSize - 1 -> AllUnits] /\ clean \in BOOLEAN
        /\ noise \in 0 .. MaxNoise /\ commands \in 0 .. MaxCommands /\ resets \in 0 .. MaxResets
    BY DEF Shape, TypeOK
  <1>5. CASE Menu(u)
    <2>1. /\ pc = "menu" /\ pc' \in {"menu", "size", "crc", "elsewhere"}
          /\ pc' = "crc" => piece' = 1 /\ need' = HeaderLen
          /\ pc' # "crc" => piece' = 0 /\ need' = 0
          /\ UNCHANGED <<size, addr, flashed, loaded, checked, crc, buf>>
      BY <1>5 DEF Menu, MenuChoices
    <2>2. crc = Altered /\ buf = <<>>
      BY <2>1 DEF Shape, Control
    <2>3. TypeOK'
      BY <1>2, <1>3, <1>4, <2>1, Constants DEF Shape, TypeOK
    <2>4. Control'
      BY <2>1, <2>2 DEF Control, InBlock
    <2> QED BY <2>3, <2>4 DEF Shape
  <1>6. CASE ReadSize(u)
    <2>1. /\ pc = "size" /\ size' \in Nat
          /\ UNCHANGED <<piece, loaded, checked>>
          /\ addr' = 0 /\ crc' = Altered /\ buf' = <<>>
          /\ 0 < size' => pc' = "crc" /\ need' = Chunk(size', 0) /\ flashed' = FALSE
          /\ ~(0 < size') => pc' = "menu" /\ need' = 0 /\ flashed' = TRUE
      BY <1>6, Constants, WrongSize DEF ReadSize, Loop
    <2>2. piece = 0 /\ need' \in Nat
      <3>1. 0 < size' => Chunk(size', 0) \in Nat
        BY <2>1, ChunkTyped
      <3> QED BY <2>1, <3>1 DEF Shape, Control
    <2>3. Altered \in AllUnits /\ buf' \in Seq(AllUnits)
      BY <1>4, <2>1, UnitsAll
    <2>4. TypeOK'
      BY <1>2, <1>3, <1>4, <2>1, <2>2, <2>3 DEF Shape, TypeOK
    <2>5. Control'
      BY <2>1, <2>2 DEF Control, InBlock
    <2> QED BY <2>4, <2>5 DEF Shape
  <1>7. CASE ReadCrc(u)
    <2>1. /\ pc = "crc" /\ crc' = u /\ buf' = <<>>
          /\ pc' = IF need = 0 THEN "check" ELSE "data"
          /\ UNCHANGED <<size, addr, flashed, piece, loaded, checked, need>>
      BY <1>7 DEF ReadCrc
    <2>2. buf' \in Seq(AllUnits) /\ Len(buf') = 0 /\ need \in Nat
      BY <2>1 DEF Shape, TypeOK
    <2>3. piece = 0 => need' <= BlockSize
      <3>1. size \in Nat /\ addr \in Nat
        BY DEF Shape, TypeOK
      <3>2. piece = 0 => addr < size /\ need = Chunk(size, addr)
        BY <2>1 DEF Shape, Control, InBlock
      <3> QED BY <2>1, <3>1, <3>2, ChunkTyped
    <2>4. TypeOK'
      BY <1>2, <1>3, <1>4, <2>1, <2>2, <2>3, Constants DEF Shape, TypeOK
    <2>5. Control'
      BY <2>1, <2>2 DEF Shape, Control, InBlock
    <2> QED BY <2>4, <2>5 DEF Shape
  <1>8. CASE ReadData(u)
    <2>1. /\ pc = "data" /\ buf' = Append(buf, u)
          /\ pc' = IF Len(buf') = need THEN "check" ELSE "data"
          /\ UNCHANGED <<size, addr, flashed, piece, loaded, checked, need, crc>>
      BY <1>8 DEF ReadData
    <2>2. /\ buf \in Seq(AllUnits) /\ need \in Nat /\ Len(buf) < need
          /\ piece = 0 => need <= BlockSize
      BY <2>1 DEF Shape, TypeOK, Control
    <2>3. buf' \in Seq(AllUnits) /\ Len(buf') = Len(buf) + 1 /\ Len(buf') <= need
      BY <1>2, <2>1, <2>2
    <2>4. TypeOK'
      BY <1>2, <1>3, <1>4, <2>1, <2>2, <2>3, Constants DEF Shape, TypeOK
    <2>5. Control'
      BY <2>1, <2>2, <2>3 DEF Shape, Control, InBlock
    <2> QED BY <2>4, <2>5 DEF Shape
  <1> QED BY <1>5, <1>6, <1>7, <1>8

\* Every cell has what it had or a byte of buf.
LEMMA StoredTyped ==
  ASSUME Shape, NEW kept \in SUBSET (1 .. need), Len(buf) = need
  PROVE  Stored(kept) \in [0 .. MemSize - 1 -> AllUnits]
  <1>1. /\ mem \in [0 .. MemSize - 1 -> AllUnits] /\ buf \in Seq(AllUnits) /\ need \in Nat
    BY DEF Shape, TypeOK
  <1>2. \A k \in kept : buf[k] \in AllUnits
    BY <1>1
  <1>3. ASSUME NEW a \in 0 .. MemSize - 1, NEW at, at = {k \in kept : (addr + k - 1) % MemSize = a}
        PROVE  (IF at = {} THEN mem[a] ELSE buf[CHOOSE k \in at : TRUE]) \in AllUnits
    <2>1. at # {} => (CHOOSE k \in at : TRUE) \in at
      OBVIOUS
    <2>2. at # {} => (CHOOSE k \in at : TRUE) \in kept
      BY <1>3, <2>1
    <2> QED BY <1>1, <1>2, <2>2
  <1> QED BY <1>3 DEF Stored

\* The control after the head of flash_ustar's loop.
LEMMA LoopShape ==
  ASSUME TypeOK, NEW a \in Nat, Loop(size, a), size' = size, piece' = 0
  PROVE  /\ addr' \in Nat /\ flashed' \in BOOLEAN /\ need' \in Nat
         /\ pc' \in {"crc", "menu"} /\ crc' = Altered /\ buf' = <<>>
         /\ Control'
  <1>1. size \in Nat
    BY DEF TypeOK
  <1>2. /\ addr' = a /\ crc' = Altered /\ buf' = <<>>
        /\ a < size => pc' = "crc" /\ need' = Chunk(size, a) /\ flashed' = FALSE
        /\ ~(a < size) => pc' = "menu" /\ need' = 0 /\ flashed' = TRUE
    BY DEF Loop
  <1>3. need' \in Nat
    <2>1. a < size => Chunk(size, a) \in Nat
      BY <1>1, ChunkTyped
    <2> QED BY <1>2, <2>1
  <1>4. flashed' \in BOOLEAN
    BY <1>2
  <1>5. Control'
    BY <1>2 DEF Control, InBlock
  <1>6. addr' \in Nat /\ pc' \in {"crc", "menu"}
    BY <1>2
  <1> QED BY <1>2, <1>3, <1>4, <1>5, <1>6

LEMMA BlockShape ==
  ASSUME Shape, CheckBlock \/ WriteBlock \/ VerifyBlock
  PROVE  Shape'
  <1> USE DEF host, flash, program, reading, trouble
  <1>1. /\ up \in Uploads
        /\ <<up, frame, byte>> \in Units(up) \cup {<<up, FrameCount(up) + 1, 0>>}
        /\ ring \in Seq(AllUnits) /\ Len(ring) <= (IF late THEN RingSize + 1 ELSE RingSize)
        /\ late \in BOOLEAN /\ (late => ring # <<>>)
        /\ piece = 0 /\ checked \in BOOLEAN /\ loaded \in Seq(Seq(AllUnits))
        /\ commands \in 0 .. MaxCommands /\ resets \in 0 .. MaxResets
        /\ size \in Nat /\ addr \in Nat /\ addr + BlockSize \in Nat
        /\ Altered \in AllUnits /\ <<>> \in Seq(AllUnits)
    <2>1. pc \in {"check", "write", "verify"} /\ (pc = "check" => piece = 0)
      BY DEF CheckBlock, WriteBlock, VerifyBlock
    <2>2. piece = 0
      BY <2>1 DEF Shape, Control
    <2> QED BY <2>2, UnitsAll, Constants DEF Shape, TypeOK
  <1>2. UNCHANGED <<up, frame, byte, ring, late, piece, checked, loaded, commands, resets>>
    BY DEF CheckBlock, WriteBlock, VerifyBlock
  <1>3. CASE CheckBlock
    <2>1. pc = "check" /\ UNCHANGED <<mem, clean, noise>>
      BY <1>3 DEF CheckBlock
    <2>2. CASE CheckCrc
      <3>1. pc' = "write" /\ UNCHANGED <<size, addr, flashed, need, crc, buf>>
        BY <1>3, <2>2 DEF CheckBlock
      <3>2. TypeOK'
        BY <1>1, <1>2, <2>1, <3>1 DEF Shape, TypeOK
      <3>3. Control'
        BY <1>1, <1>2, <2>1, <2>2, <3>1 DEF Shape, Control, InBlock, CheckCrc
      <3> QED BY <3>2, <3>3 DEF Shape
    <2>3. CASE ~CheckCrc
      <3>1. /\ pc' = "menu" /\ addr' = 0 /\ size' = 0 /\ need' = 0 /\ crc' = Altered /\ buf' = <<>>
            /\ UNCHANGED flashed
        BY <1>3, <2>3 DEF CheckBlock, Break, NoRead
      <3>2. TypeOK'
        BY <1>1, <1>2, <2>1, <3>1 DEF Shape, TypeOK
      <3>3. Control'
        BY <1>1, <1>2, <3>1 DEF Control, InBlock
      <3> QED BY <3>2, <3>3 DEF Shape
    <2> QED BY <2>2, <2>3
  <1>4. CASE WriteBlock
    <2>1. /\ pc = "write" /\ pc' = "verify" /\ UNCHANGED <<size, addr, flashed, need, crc, buf>>
      BY <1>4 DEF WriteBlock
    <2>2. Len(buf) = need /\ 1 .. need \in SUBSET (1 .. need)
      BY <2>1 DEF Shape, Control
    <2>3. mem' \in [0 .. MemSize - 1 -> AllUnits]
      BY <1>4, <2>2, StoredTyped DEF WriteBlock
    <2>4. clean' \in BOOLEAN
      <3>1. clean \in BOOLEAN
        BY DEF Shape, TypeOK
      <3> QED BY <1>4, <3>1 DEF WriteBlock
    <2>5. noise' \in 0 .. MaxNoise
      <3>1. noise \in 0 .. MaxNoise
        BY DEF Shape, TypeOK
      <3> QED BY <1>4, <3>1, Constants DEF WriteBlock
    <2>6. TypeOK'
      BY <1>1, <1>2, <2>1, <2>3, <2>4, <2>5 DEF Shape, TypeOK
    <2>7. Control'
      BY <1>1, <1>2, <2>1 DEF Shape, Control, InBlock, CheckCrc
    <2> QED BY <2>6, <2>7 DEF Shape
  <1>5. CASE VerifyBlock
    <2>1. pc = "verify" /\ UNCHANGED <<mem, clean, noise>>
      BY <1>5 DEF VerifyBlock
    <2>2. CASE Loop(size, addr + BlockSize) /\ UNCHANGED size
      <3>1. /\ addr' \in Nat /\ flashed' \in BOOLEAN /\ need' \in Nat
            /\ pc' \in {"crc", "menu"} /\ crc' = Altered /\ buf' = <<>> /\ Control'
        BY <1>1, <1>2, <2>2, LoopShape DEF Shape
      <3>2. TypeOK'
        BY <1>1, <1>2, <2>1, <2>2, <3>1 DEF Shape, TypeOK
      <3> QED BY <3>1, <3>2 DEF Shape
    <2>3. CASE Break
      <3>1. /\ pc' = "menu" /\ addr' = 0 /\ size' = 0 /\ need' = 0 /\ crc' = Altered /\ buf' = <<>>
            /\ UNCHANGED flashed
        BY <2>3 DEF Break, NoRead
      <3>2. TypeOK'
        BY <1>1, <1>2, <2>1, <3>1 DEF Shape, TypeOK
      <3>3. Control'
        BY <1>1, <1>2, <3>1 DEF Control, InBlock
      <3> QED BY <3>2, <3>3 DEF Shape
    <2> QED BY <1>5, <2>2, <2>3 DEF VerifyBlock
  <1> QED BY <1>3, <1>4, <1>5

LEMMA LoadShape ==
  ASSUME Shape, LoadPiece
  PROVE  Shape'
  <1> USE DEF host, flash
  <1>1. /\ pc = "check" /\ piece > 0 /\ piece \in 0 .. 5
        /\ UNCHANGED <<up, frame, byte, commands, ring, late, size, addr, flashed, mem, clean, noise, resets>>
        /\ crc' = Altered /\ buf' = <<>>
        /\ piece = 5 => pc' = "running" /\ need' = 0 /\ piece' = piece
        /\ piece # 5 => pc' = "crc" /\ piece' = piece + 1 /\ need' \in {1} \cup FileSizes
    BY DEF LoadPiece, Shape, TypeOK, trouble
  <1>2. FileSizes \subseteq Nat
    BY Constants DEF FileSizes
  <1>3. checked' \in BOOLEAN
    <2>1. checked' = (checked /\ CheckCrc)
      BY DEF LoadPiece
    <2> QED BY <2>1
  <1>4. loaded' \in Seq(Seq(AllUnits))
    <2>1. buf \in Seq(AllUnits) /\ loaded \in Seq(Seq(AllUnits))
      BY DEF Shape, TypeOK
    <2>2. loaded' = Append(loaded, buf) \/ loaded' = <<>>
      BY DEF LoadPiece
    <2>3. \A S : \A s \in Seq(S) : \A x \in S : Append(s, x) \in Seq(S) /\ <<>> \in Seq(S)
      OBVIOUS
    <2> QED BY <2>1, <2>2, <2>3, Zenon
  <1>5. need' \in Nat
    <2>1. need' = 0 \/ need' = 1 \/ need' \in FileSizes
      BY <1>1
    <2>2. need' \in FileSizes => need' \in Nat
      BY <1>2, Zenon
    <2> QED BY <2>1, <2>2
  <1>50. piece' \in 1 .. 5 /\ pc' \in {"running", "crc"} /\ (pc' = "running" => piece' = 5)
    BY <1>1
  <1>6. Altered \in AllUnits /\ <<>> \in Seq(AllUnits)
    BY UnitsAll, UploadNames
  <1>7. TypeOK'
    BY <1>1, <1>3, <1>4, <1>5, <1>50, <1>6 DEF Shape, TypeOK
  <1>8. Control'
    BY <1>1, <1>50 DEF Control, InBlock
  <1> QED BY <1>7, <1>8 DEF Shape

LEMMA StopShape ==
  ASSUME Shape, Back \/ Reset
  PROVE  Shape'
  <1> USE DEF host, flash, program, reading, trouble
  <1>1. /\ pc' = "menu" /\ piece' = 0 /\ loaded' = <<>> /\ checked' = TRUE
        /\ UNCHANGED <<up, frame, byte, commands, noise>>
    BY DEF Back, Reset, NoLoad
  <1>2. <<>> \in Seq(Seq(AllUnits)) /\ <<>> \in Seq(AllUnits) /\ Len(<<>>) = 0 /\ Altered \in AllUnits
    BY UnitsAll, UploadNames
  <1>3. CASE Back
    <2>1. /\ UNCHANGED <<ring, late, size, addr, flashed, need, crc, buf, mem, clean, resets>>
          /\ pc \in {"elsewhere", "running"}
      BY <1>3 DEF Back
    <2>2. TypeOK'
      BY <1>1, <1>2, <2>1 DEF Shape, TypeOK
    <2>3. Control'
      BY <1>1, <2>1 DEF Shape, Control, InBlock
    <2> QED BY <2>2, <2>3 DEF Shape
  <1>4. CASE Reset
    <2>1. /\ ring' = <<>> /\ late' = FALSE /\ size' = 0 /\ addr' = 0 /\ flashed' = FALSE /\ clean' = FALSE
          /\ need' = 0 /\ crc' = Altered /\ buf' = <<>>
      BY <1>4 DEF Reset, NoRead
    <2>2. mem' \in [0 .. MemSize - 1 -> AllUnits]
      <3>1. CASE pc = "write"
        <4>1. Len(buf) = need
          BY <3>1 DEF Shape, Control
        <4> QED BY <1>4, <3>1, <4>1, StoredTyped DEF Reset
      <3>2. CASE pc # "write"
        BY <1>4, <3>2 DEF Reset, Shape, TypeOK
      <3> QED BY <3>1, <3>2
    <2>3. resets' \in 0 .. MaxResets
      <3>1. resets \in 0 .. MaxResets /\ resets < MaxResets /\ resets' = resets + 1
        BY <1>4 DEF Reset, Shape, TypeOK
      <3> QED BY <3>1, Constants
    <2>4. /\ up \in Uploads
          /\ <<up, frame, byte>> \in Units(up) \cup {<<up, FrameCount(up) + 1, 0>>}
          /\ noise \in 0 .. MaxNoise /\ commands \in 0 .. MaxCommands
      BY DEF Shape, TypeOK
    <2>5. ring' \in Seq(AllUnits) /\ Len(ring') <= RingSize
      BY <1>2, <2>1, Constants
    <2>50. late' \in BOOLEAN
      BY <2>1, Zenon
    <2>51. size' \in Nat /\ addr' \in Nat /\ piece' \in 0 .. 5 /\ need' \in Nat
      BY <1>1, <2>1
    <2>54. flashed' \in BOOLEAN /\ checked' \in BOOLEAN /\ clean' \in BOOLEAN
      BY <1>1, <2>1, Zenon
    <2>53. /\ buf' \in Seq(AllUnits) /\ crc' \in AllUnits /\ loaded' \in Seq(Seq(AllUnits))
      BY <1>1, <1>2, <2>1, Zenon
    <2>52. /\ up' \in Uploads /\ <<up', frame', byte'>> \in Units(up') \cup {<<up', FrameCount(up') + 1, 0>>}
           /\ noise' \in 0 .. MaxNoise /\ commands' \in 0 .. MaxCommands
      BY <1>1, <2>4
    <2>6. TypeOK'
      BY <1>1, <2>1, <2>2, <2>3, <2>51, <2>52, <2>53, <2>54, <2>5, <2>50 DEF TypeOK
    <2>7. Control'
      BY <1>1, <2>1 DEF Control, InBlock
    <2> QED BY <2>6, <2>7 DEF Shape
  <1> QED BY <1>3, <1>4

LEMMA ShapeStep == Shape /\ [Next]_vars => Shape'
  <1> SUFFICES ASSUME Shape, [Next]_vars PROVE Shape'
    OBVIOUS
  <1>1. CASE UNCHANGED vars
    BY <1>1 DEF vars, host, flash, program, reading, trouble, Shape, TypeOK, Control, InBlock, CheckCrc
  <1>2. CASE Next
    BY <1>2, NextCases, ReadShape, BlockShape, LoadShape, SendShape, StopShape, CommandShape
  <1> QED BY <1>1, <1>2

LEMMA ShapeInvariant == Spec => []Shape
  BY InitShape, ShapeStep, PTL DEF Spec

-----------------------------------------------------------------------------
(* Nothing overtakes.                                                      *)

LEMMA OwnTyped ==
  ASSUME NEW u \in Uploads, NEW v \in Units(u) \cup {Altered, End(u)}
  PROVE  v[2] \in Nat /\ v[3] \in Nat
  <1>1. CASE v \in Units(u)
    <2>1. v[2] \in 0 .. FrameCount(u) /\ v[3] \in 0 .. LastUnit(u, v[2])
      BY <1>1, UnitShape
    <2>2. FrameCount(u) \in Nat /\ LastUnit(u, v[2]) \in Nat
      BY <2>1, FrameTyped, LastTyped
    <2> QED BY <2>1, <2>2
  <1>2. CASE v = Altered
    BY <1>2 DEF Altered
  <1>3. CASE v = End(u)
    BY <1>3, FrameTyped DEF End
  <1> QED BY <1>1, <1>2, <1>3

LEMMA BeforeThrough ==
  ASSUME NEW u \in Uploads, NEW v \in Units(u) \cup {Altered, End(u)},
         NEW w \in Units(u), NEW x \in Units(u) \cup {Altered, End(u)},
         Before(v, w), Before(w, x)
  PROVE  Before(v, x)
  <1>1. /\ v[2] \in Nat /\ v[3] \in Nat /\ w[2] \in Nat /\ w[3] \in Nat /\ x[2] \in Nat /\ x[3] \in Nat
        /\ w # Altered
    BY OwnTyped, UnitShape
  <1> QED BY <1>1 DEF Before

\* What is taken from the unit v on is behind v's frame.
LEMMA BehindLater ==
  ASSUME NEW u \in Uploads, NEW w \in Units(u) \cup {Altered, End(u)}, NEW v \in Units(u),
         v[2] > 0, v[3] = LastUnit(u, v[2]), Before(v, w)
  PROVE  Behind(w, v[2])
  <1>1. /\ v[2] \in 1 .. FrameCount(u) /\ FrameCount(u) \in Nat /\ LastUnit(u, v[2]) \in Nat /\ v # Altered
    BY UnitShape, FrameTyped, LastTyped
  <1>2. CASE w = Altered
    BY <1>2 DEF Behind
  <1>3. CASE w = End(u)
    BY <1>1, <1>3 DEF Behind, End
  <1>4. CASE w \in Units(u)
    <2>1. /\ w[2] \in 0 .. FrameCount(u) /\ w[3] \in 0 .. LastUnit(u, w[2]) /\ w # Altered
      BY <1>4, UnitShape
    <2>2. LastUnit(u, w[2]) \in Nat
      BY <2>1, LastTyped
    <2>3. ~(w[2] = v[2] /\ v[3] < w[3])
      BY <1>1, <2>1
    <2> QED BY <1>1, <2>1, <2>3 DEF Before, Behind
  <1> QED BY <1>2, <1>3, <1>4

\* The unit the host sends next, and those in the ring and in crcread.
LEMMA TurnTyped ==
  ASSUME TypeOK, InTurn
  PROVE  /\ up \in Uploads
         /\ <<up, frame, byte>> \in Units(up) \cup {Altered, End(up)}
         /\ \A i \in 1 .. Len(ring) : ring[i] \in Units(up) \cup {Altered, End(up)}
         /\ \A v \in Taken : v \in Units(up) \cup {Altered, End(up)}
  BY DEF TypeOK, InTurn, Own, End

LEMMA TurnKept ==
  ASSUME InTurn, UNCHANGED <<up, frame, byte, ring>>, Taken' \subseteq Taken \cup {Altered}
  PROVE  InTurn' /\ \A g : Beyond(g) => Beyond(g)'
  <1>1. Own' = Own /\ Altered \in Own
    BY DEF Own
  <1>2. \A w : Before(Altered, w)
    BY DEF Before
  <1>3. \A g : Behind(Altered, g)
    BY DEF Behind
  <1>4. InTurn'
    BY <1>1, <1>2 DEF InTurn
  <1>5. \A g : Beyond(g) => Beyond(g)'
    BY <1>3 DEF Beyond
  <1> QED BY <1>4, <1>5

LEMMA TurnRead ==
  ASSUME TypeOK, InTurn, NEW u, Read(u), UNCHANGED <<up, frame, byte>>,
         Taken' \subseteq Taken \cup {Altered, u}
  PROVE  /\ InTurn' /\ (\A g : Beyond(g) => Beyond(g)')
         /\ u \in Own
         /\ Before(u, <<up, frame, byte>>) /\ \A i \in 1 .. Len(ring') : Before(u, ring'[i])
  <1>1. Own' = Own /\ Altered \in Own
    BY DEF Own
  <1>2. \A w : Before(Altered, w)
    BY DEF Before
  <1>3. \A g : Behind(Altered, g)
    BY DEF Behind
  <1>4. /\ u = ring[1] /\ Len(ring) \in Nat /\ Len(ring) > 0 /\ Len(ring') = Len(ring) - 1
        /\ \A i \in 1 .. Len(ring') : ring'[i] = ring[i + 1]
    BY ReadRing DEF TypeOK
  <1>5. /\ 1 \in 1 .. Len(ring)
        /\ \A i \in 1 .. Len(ring') : i + 1 \in 1 .. Len(ring) /\ 1 < i + 1
        /\ \A i, j \in 1 .. Len(ring') : i < j => i + 1 < j + 1
    BY <1>4
  <1>6. u \in Own /\ Before(u, <<up, frame, byte>>)
    BY <1>4, <1>5 DEF InTurn
  <1>7. \A i \in 1 .. Len(ring') :
            /\ ring'[i] \in Own /\ Before(u, ring'[i]) /\ Before(ring'[i], <<up, frame, byte>>)
            /\ \A v \in Taken : Before(v, ring'[i])
    BY <1>4, <1>5 DEF InTurn
  <1>8. \A i, j \in 1 .. Len(ring') : i < j => Before(ring'[i], ring'[j])
    BY <1>4, <1>5 DEF InTurn
  <1>9. \A v \in Taken' : /\ v \in Own /\ Before(v, <<up, frame, byte>>)
                          /\ \A i \in 1 .. Len(ring') : Before(v, ring'[i])
    BY <1>1, <1>2, <1>6, <1>7 DEF InTurn
  <1>10. InTurn'
    BY <1>1, <1>7, <1>8, <1>9 DEF InTurn
  <1>11. ASSUME NEW g, Beyond(g) PROVE Beyond(g)'
    <2>1. /\ \A v \in Taken : Behind(v, g)
          /\ \A i \in 1 .. Len(ring) : Behind(ring[i], g)
          /\ Behind(<<up, frame, byte>>, g)
      BY <1>11 DEF Beyond
    <2>2. \A v \in Taken' : Behind(v, g)
      BY <1>3, <1>4, <1>5, <2>1
    <2>3. \A i \in 1 .. Len(ring') : Behind(ring'[i], g)
      BY <1>4, <1>5, <2>1
    <2> QED BY <2>1, <2>2, <2>3 DEF Beyond
  <1> QED BY <1>6, <1>7, <1>10, <1>11

LEMMA TurnSent ==
  ASSUME TypeOK, InTurn, SendUnit \/ SendOverrun \/ SendNoise
  PROVE  InTurn' /\ \A g \in Nat : Beyond(g) => Beyond(g)'
  <1> DEFINE n == <<up, frame, byte>>
             m == <<up, frame', byte'>>
  <1>1. Sending /\ Advance
    BY DEF SendUnit, SendOverrun, SendNoise
  <1>2. up' = up /\ n \in Units(up) /\ m = Succ(n) /\ m \in Units(up) \cup {End(up)} /\ up \in Uploads
    BY <1>1, AdvanceSucc DEF TypeOK
  <1>3. Before(n, m) /\ n # Altered
    BY <1>2, SuccUnit, UnitShape
  <1>4. UNCHANGED <<crc, buf>>
    BY DEF SendUnit, SendOverrun, SendNoise, reading
  <1>5. Taken' = Taken /\ Own' = Own /\ n \in Own /\ Altered \in Own
    BY <1>2, <1>4 DEF Taken, Own
  <1>6. ring \in Seq(AllUnits) /\ Len(ring) \in Nat
    BY DEF TypeOK
  <1>7. PICK x \in {n, Altered}, d \in Nat :
            /\ Len(ring') + d <= Len(ring) + 1
            /\ \A i \in 1 .. Len(ring') : ring'[i] = Append(ring, x)[i + d]
    BY RingSent
  <1> DEFINE all == Append(ring, x)
  <1>70. x = n \/ x = Altered
    OBVIOUS
  <1>71. /\ Len(all) = Len(ring) + 1 /\ all[Len(ring) + 1] = x
         /\ \A i \in 1 .. Len(ring) : all[i] = ring[i]
         /\ \A i \in 1 .. Len(all) : i \in 1 .. Len(ring) \/ i = Len(ring) + 1
    BY <1>6
  <1> HIDE DEF all
  <1>8. /\ \A i \in 1 .. Len(ring') : ring'[i] = all[i + d] /\ i + d \in 1 .. Len(all)
        /\ \A i, j \in 1 .. Len(ring') : i < j => i + d < j + d
    <2>1. ring' \in Seq(AllUnits)
      BY RingSent
    <2> QED BY <1>6, <1>7, <1>71, <2>1 DEF all
  <1>9. \A w : Before(w, Altered) /\ Before(Altered, w)
    BY DEF Before
  <1>10. \A v \in Own : Before(v, n) => Before(v, m)
    <2>1. ASSUME NEW v \in Own, Before(v, n) PROVE Before(v, m)
      <3>1. v \in Units(up) \cup {Altered, End(up)} /\ m \in Units(up) \cup {Altered, End(up)}
        BY <1>2 DEF Own
      <3> HIDE DEF n, m
      <3> QED BY <1>2, <1>3, <2>1, <3>1, BeforeThrough
    <2> QED BY <2>1
  <1> HIDE DEF n, m
  <1>11. \A v \in Taken : v \in Own /\ Before(v, n) /\ Before(v, m)
    BY <1>10 DEF InTurn, n
  <1>12. \A i \in 1 .. Len(ring) : ring[i] \in Own /\ Before(ring[i], n) /\ Before(ring[i], m)
    BY <1>10 DEF InTurn, n
  <1>13. \A i \in 1 .. Len(ring') : /\ ring'[i] \in Own /\ Before(ring'[i], m)
                                    /\ \A v \in Taken : Before(v, ring'[i])
    <2>1. \A i \in 1 .. Len(ring) : \A v \in Taken : Before(v, ring[i])
      BY DEF InTurn
    <2>2. \A i \in 1 .. Len(all) : /\ all[i] \in Own /\ Before(all[i], m)
                                  /\ \A v \in Taken : Before(v, all[i])
      BY <1>3, <1>5, <1>70, <1>71, <1>9, <1>11, <1>12, <2>1
    <2> QED BY <1>8, <2>2
  <1>14. \A i, j \in 1 .. Len(ring') : i < j => Before(ring'[i], ring'[j])
    <2>1. \A i, j \in 1 .. Len(ring) : i < j => Before(ring[i], ring[j])
      BY DEF InTurn
    <2>2. \A i, j \in 1 .. Len(all) :
              i < j => i \in 1 .. Len(ring) /\ (j \in 1 .. Len(ring) \/ j = Len(ring) + 1)
      BY <1>6, <1>71
    <2>3. \A i, j \in 1 .. Len(all) : i < j => Before(all[i], all[j])
      BY <1>70, <1>71, <1>9, <1>12, <2>1, <2>2
    <2> QED BY <1>8, <2>3
  <1>15. InTurn'
    <2>1. <<up', frame', byte'>> = m
      BY <1>2 DEF m
    <2> QED BY <1>5, <1>11, <1>13, <1>14, <2>1 DEF InTurn
  <1>16. ASSUME NEW g \in Nat, Beyond(g) PROVE Beyond(g)'
    <2>1. /\ \A v \in Taken : Behind(v, g)
          /\ \A i \in 1 .. Len(ring) : Behind(ring[i], g)
          /\ Behind(n, g)
      BY <1>16 DEF Beyond, n
    <2>2. Behind(Altered, g)
      BY DEF Behind
    <2>3. Behind(m, g)
      <3>1. n[2] \in Nat /\ m[2] \in Nat
        BY <1>2, OwnTyped
      <3>2. m # Altered => n[2] <= m[2]
        BY <1>3, <3>1 DEF Before
      <3> QED BY <1>3, <2>1, <3>1, <3>2 DEF Behind
    <2>4. \A i \in 1 .. Len(ring') : Behind(ring'[i], g)
      <3>1. \A i \in 1 .. Len(all) : Behind(all[i], g)
        BY <1>70, <1>71, <2>1, <2>2
      <3> QED BY <1>8, <3>1
    <2>5. <<up', frame', byte'>> = m
      BY <1>2 DEF m
    <2> QED BY <1>5, <2>1, <2>3, <2>4, <2>5 DEF Beyond
  <1> QED BY <1>15, <1>16

\* Once a checked frame g is done with, all that comes is behind it.
LEMMA FrameDone ==
  ASSUME TypeOK, InTurn, NEW u \in Uploads, NEW g \in 1 .. FrameCount(u),
         crc = <<u, g, 0>>, buf = Frame(u, g)
  PROVE  /\ u = up
         /\ \A i \in 1 .. Len(ring) : Behind(ring[i], g)
         /\ Behind(<<up, frame, byte>>, g)
  <1>1. crc \in Own /\ crc \in Taken /\ crc # Altered
    BY UploadNames DEF InTurn, Taken, Altered
  <1>2. u = up
    <2>1. crc \in Units(up) /\ up \in Uploads
      BY <1>1 DEF Own, TypeOK
    <2>2. crc[1] = up
      BY <2>1, UnitShape
    <2> QED BY <2>2
  <1>3. FrameLen(u, g) \in Nat /\ LastUnit(u, g) = FrameLen(u, g)
    BY FrameTyped, LastTyped
  <1> DEFINE v == <<u, g, LastUnit(u, g)>>
  <1>4. v \in Taken
    <2>1. CASE FrameLen(u, g) = 0
      BY <1>1, <1>3, <2>1
    <2>2. CASE FrameLen(u, g) > 0
      <3>1. Len(buf) = FrameLen(u, g) /\ buf[FrameLen(u, g)] = <<u, g, FrameLen(u, g)>>
        BY <1>3, <2>2 DEF Frame
      <3>2. FrameLen(u, g) \in 1 .. Len(buf)
        BY <1>3, <2>2, <3>1
      <3> QED BY <1>3, <3>1, <3>2 DEF Taken
    <2> QED BY <1>3, <2>1, <2>2
  <1>5. v \in Units(u) /\ v[2] = g /\ v[3] = LastUnit(u, g)
    <2>1. g \in 0 .. FrameCount(u) /\ LastUnit(u, g) \in 0 .. LastUnit(u, g) /\ g # 0
      BY <1>3
    <2> QED BY <2>1, UnitsHave
  <1> HIDE DEF v
  <1>6. \A w \in Units(u) \cup {Altered, End(u)} : Before(v, w) => Behind(w, g)
    BY <1>5, BehindLater
  <1> QED BY <1>2, <1>4, <1>6, TurnTyped DEF InTurn

LEMMA KernelTurn ==
  ASSUME Shape, InTurn, CheckBlock \/ WriteBlock \/ VerifyBlock \/ LoadPiece \/ Back
  PROVE  /\ UNCHANGED <<up, frame, byte, ring>> /\ Taken' \subseteq Taken \cup {Altered}
         /\ InTurn' /\ \A g : Beyond(g) => Beyond(g)'
  <1>1. UNCHANGED <<up, frame, byte, ring>>
    BY DEF CheckBlock, WriteBlock, VerifyBlock, LoadPiece, Back, host
  <1>2. UNCHANGED <<crc, buf>> \/ (crc' = Altered /\ buf' = <<>>)
    BY DEF CheckBlock, WriteBlock, VerifyBlock, LoadPiece, Back, Break, NoRead, Loop, reading
  <1>3. Taken' \subseteq Taken \cup {Altered}
    BY <1>2 DEF Taken
  <1> QED BY <1>1, <1>3, TurnKept

LEMMA UnitTurn ==
  ASSUME Shape, InTurn, NEW u, Menu(u) \/ ReadSize(u) \/ ReadCrc(u) \/ ReadData(u)
  PROVE  /\ UNCHANGED <<up, frame, byte, mem>>
         /\ InTurn' /\ (\A g : Beyond(g) => Beyond(g)')
         /\ u \in Own /\ TypeOK /\ Read(u)
  <1>1. Read(u) /\ UNCHANGED <<up, frame, byte, mem>> /\ TypeOK
    BY DEF Menu, ReadSize, ReadCrc, ReadData, host, Shape
  <1>2. Taken' \subseteq Taken \cup {Altered, u}
    <2>1. CASE Menu(u)
      BY <2>1 DEF Menu, Taken
    <2>2. CASE ReadSize(u)
      BY <2>2 DEF ReadSize, Loop, Taken
    <2>3. CASE ReadCrc(u)
      BY <2>3 DEF ReadCrc, Taken
    <2>4. CASE ReadData(u)
      <3>1. buf \in Seq(AllUnits) /\ buf' = Append(buf, u) /\ crc' = crc
        BY <2>4 DEF Shape, TypeOK, ReadData
      <3>2. Len(buf) \in Nat /\ Len(buf') = Len(buf) + 1 /\ buf'[Len(buf) + 1] = u
            /\ \A k \in 1 .. Len(buf) : buf'[k] = buf[k]
        BY <3>1
      <3>3. \A k \in 1 .. Len(buf') : buf'[k] \in Taken \cup {u}
        BY <3>2 DEF Taken
      <3> QED BY <3>1, <3>3 DEF Taken
    <2> QED BY <2>1, <2>2, <2>3, <2>4
  <1> QED BY <1>1, <1>2, TurnRead

LEMMA TurnStep ==
  ASSUME Shape, InTurn, [Next]_vars
  PROVE  InTurn'
  <1>1. CASE UNCHANGED vars
    BY <1>1 DEF vars, host, reading, InTurn, Own, Taken
  <1>2. CASE Menu(Head(ring)) \/ ReadSize(Head(ring)) \/ ReadCrc(Head(ring)) \/ ReadData(Head(ring))
    BY <1>2, UnitTurn
  <1>3. CASE CheckBlock \/ WriteBlock \/ VerifyBlock \/ LoadPiece \/ Back
    BY <1>3, KernelTurn
  <1>4. CASE SendUnit \/ SendOverrun \/ SendNoise
    BY <1>4, TurnSent DEF Shape
  <1>5. CASE Reset \/ \E u \in Uploads : Command(u)
    <2>1. Taken' = {Altered} /\ (ring' = <<>> \/ ring' = <<Altered>>)
      <3>1. CASE Reset
        BY <3>1 DEF Reset, NoRead, Taken
      <3>2. CASE \E u \in Uploads : Command(u)
        <4>1. pc = "menu" /\ (ring' = <<>> \/ ring' = <<Altered>>) /\ UNCHANGED <<crc, buf>>
          BY <3>2 DEF Command, reading
        <4> QED BY <4>1 DEF Shape, Control, Taken
      <3> QED BY <1>5, <3>1, <3>2
    <2>2. \A w : Before(Altered, w) /\ Before(w, Altered)
      BY DEF Before
    <2>3. \A i \in 1 .. Len(ring') : ring'[i] = Altered
      BY <2>1
    <2> QED BY <2>1, <2>2, <2>3 DEF InTurn, Own
  <1> QED BY <1>1, <1>2, <1>3, <1>4, <1>5, NextCases

-----------------------------------------------------------------------------
(* Flashes.                                                                *)

\* Writing a block leaves what is before it alone.
LEMMA StoredElsewhere ==
  ASSUME Shape, NEW kept \in SUBSET (1 .. need), addr + need <= MemSize,
         NEW a \in 0 .. MemSize - 1, a < addr
  PROVE  Stored(kept)[a] = mem[a]
  <1>1. addr \in Nat /\ need \in Nat /\ MemSize \in Nat
    BY Constants DEF Shape, TypeOK
  <1>2. \A k \in kept : (addr + k - 1) % MemSize # a
    <2>1. ASSUME NEW k \in kept PROVE (addr + k - 1) % MemSize # a
      <3>1. k \in 1 .. need
        OBVIOUS
      <3>2. PICK x \in 0 .. MemSize - 1 : x = addr + k - 1 /\ x >= addr
        BY <1>1, <3>1
      <3>3. x % MemSize = x
        BY <1>1, <3>2, ModSmall
      <3> QED BY <1>1, <3>2, <3>3
    <2> QED BY <2>1
  <1>3. {k \in kept : (addr + k - 1) % MemSize = a} = {}
    BY <1>2
  <1> QED BY <1>3 DEF Stored

\* A block read back as it was sent is the block of the image.
LEMMA VerifiedBlock ==
  ASSUME NEW d \in Nat, addr = d * BlockSize, addr < ImageLen,
         need = Chunk(ImageLen, addr), buf = Frame("image", d + 1),
         buf = [k \in 1 .. need |-> mem[(addr + k - 1) % MemSize]],
         BytesStored(addr)
  PROVE  BytesStored(addr + BlockSize)
  <1>1. /\ addr \in Nat /\ need \in Nat /\ BlockSize \in Nat \ {0}
        /\ need <= BlockSize /\ addr + need <= ImageLen
        /\ addr + need < ImageLen => need = BlockSize
        /\ FrameLen("image", d + 1) = need
    BY ImageFrame, ChunkTyped, Multiples, Constants
  <1> SUFFICES ASSUME NEW a \in 0 .. ImageLen - 1, a < addr + BlockSize
               PROVE  mem[a] = ImageByte(a)
    BY DEF BytesStored
  <1>2. CASE a < addr
    BY <1>2 DEF BytesStored
  <1>3. CASE addr <= a
    <2>1. PICK k \in 1 .. need : k = a - addr + 1
      BY <1>1, <1>3, Constants
    <2>2. mem[(addr + k - 1) % MemSize] = <<"image", d + 1, k>>
      <3>1. buf[k] = <<"image", d + 1, k>>
        BY <1>1 DEF Frame
      <3>2. buf[k] = mem[(addr + k - 1) % MemSize]
        OBVIOUS
      <3> QED BY <3>1, <3>2
    <2>3. (addr + k - 1) % MemSize = a
      <3>1. addr + k - 1 = a /\ a \in 0 .. MemSize - 1 /\ MemSize \in Nat \ {0}
        BY <1>1, <2>1, Constants
      <3> QED BY <3>1, ModSmall
    <2>4. a % BlockSize = k - 1 /\ a \div BlockSize = d
      <3>1. d * BlockSize = BlockSize * d
        BY Constants
      <3>2. a = BlockSize * d + (k - 1) /\ k - 1 \in 0 .. BlockSize - 1 /\ a \in Nat /\ d \in Int
        BY <1>1, <2>1, <3>1, Constants
      <3> QED BY <1>1, <3>2, ModUnique
    <2>5. ImageByte(a) = <<"image", d + 1, k>>
      BY <2>1, <2>4 DEF ImageByte
    <2> QED BY <2>2, <2>3, <2>5
  <1> QED BY <1>1, <1>2, <1>3, Constants

LEMMA VerifyFlash ==
  ASSUME Shape, ArrivalInv, VerifyBlock
  PROVE  FlashSoFar' /\ CompleteMeansStored'
  <1>0. InTurn /\ FlashSoFar /\ CompleteMeansStored /\ TypeOK
    BY DEF ArrivalInv, Shape
  <1>1. /\ pc = "verify" /\ piece = 0 /\ CheckCrc /\ Len(buf) = need /\ InBlock
        /\ addr < size /\ need = Chunk(size, addr) /\ size \in Nat /\ addr \in Nat /\ ~flashed
        /\ UNCHANGED <<up, frame, byte, ring, piece, mem>>
    BY DEF VerifyBlock, Shape, Control, InBlock, TypeOK, host, program
  <1>2. CASE Break
    <2>1. size' = 0 /\ pc' = "menu"
      BY <1>2 DEF Break
    <2> QED BY <2>1, Constants DEF FlashSoFar, CompleteMeansStored, InBlock
  <1>3. CASE size # ImageLen /\ ~Break
    <2>1. size' # ImageLen
      BY <1>3 DEF VerifyBlock
    <2> QED BY <2>1 DEF FlashSoFar, CompleteMeansStored
  <1>4. CASE size = ImageLen /\ ~Break
    <2>1. /\ buf = [k \in 1 .. need |-> mem[(addr + k - 1) % MemSize]]
          /\ Loop(size, addr + BlockSize) /\ size' = size
      BY <1>4 DEF VerifyBlock
    <2>2. /\ addr' = addr + BlockSize /\ crc' = Altered /\ buf' = <<>>
          /\ IF addr + BlockSize < size THEN pc' = "crc" /\ flashed' = FALSE ELSE pc' = "menu" /\ flashed' = TRUE
      BY <2>1 DEF Loop
    <2>3. up = "image" /\ \E d, g \in 0 .. Blocks : BlocksSoFar(d, g)
      BY <1>0, <1>1, <1>4 DEF FlashSoFar
    <2>4. PICK d \in 0 .. Blocks, g \in 0 .. Blocks : BlocksSoFar(d, g)
      BY <2>3
    <2>5. /\ d \in Nat /\ g \in Nat /\ addr = d * BlockSize /\ d <= g /\ Beyond(g)
          /\ d = g => BytesStored(addr)
      BY <2>4, BlocksBound DEF BlocksSoFar
    <2>6. PICK u \in Uploads : \E f \in 1 .. FrameCount(u) : crc = <<u, f, 0>> /\ buf = Frame(u, f)
      BY <1>1 DEF CheckCrc
    <2>7. PICK f \in 1 .. FrameCount(u) : crc = <<u, f, 0>> /\ buf = Frame(u, f)
      BY <2>6
    <2>8. /\ u = "image" /\ FrameCount(u) = Blocks /\ f \in 1 .. Blocks
          /\ \A i \in 1 .. Len(ring) : Behind(ring[i], f)
          /\ Behind(<<up, frame, byte>>, f)
      <3>1. u = up /\ FrameCount("image") = Blocks
        BY <1>0, <2>6, <2>7, FrameDone DEF FrameCount
      <3> QED BY <1>0, <2>3, <2>6, <2>7, <3>1, FrameDone
    <2>9. d + 1 <= f
      <3>1. Behind(crc, g) /\ crc # Altered
        BY <2>5, <2>7, <2>8 DEF Beyond, Taken, Altered
      <3>2. g > 0 => f > g
        BY <2>7, <3>1 DEF Behind
      <3> QED BY <2>5, <2>8, <3>2, BlocksBound
    <2>10. Beyond(f)'
      <3>1. Taken' = {Altered}
        BY <2>2 DEF Taken
      <3>2. Behind(Altered, f)
        BY DEF Behind
      <3> QED BY <1>1, <2>8, <3>1, <3>2 DEF Beyond
    <2>11. d + 1 = f => BytesStored(addr + BlockSize)
      <3>1. ASSUME d + 1 = f PROVE BytesStored(addr + BlockSize)
        <4>1. d = g
          <5>1. Behind(crc, g) /\ crc # Altered
            BY <2>5, <2>7, <2>8 DEF Beyond, Taken, Altered
          <5>2. g > 0 => f > g
            BY <2>7, <5>1 DEF Behind
          <5> QED BY <2>5, <3>1, <5>2
        <4> QED BY <1>1, <1>4, <2>1, <2>5, <2>7, <2>8, <3>1, <4>1, VerifiedBlock
      <3> QED BY <3>1
    <2>12. addr' = (d + 1) * BlockSize /\ d + 1 \in 0 .. Blocks
      <3>1. (d + 1) * BlockSize = d * BlockSize + BlockSize
        BY <2>5, Multiples
      <3>2. d + 1 \in 0 .. Blocks
        BY <2>5, <2>8, <2>9, BlocksBound
      <3> QED BY <2>2, <2>5, <3>1, <3>2
    <2>13. CASE addr + BlockSize < size
      <3>1. d + 1 = f => BytesStored(addr)'
        BY <1>1, <2>2, <2>11 DEF BytesStored
      <3>2. BlocksSoFar(d + 1, f)'
        BY <2>9, <2>10, <2>12, <3>1 DEF BlocksSoFar
      <3>3. FlashSoFar'
        BY <1>1, <2>3, <2>8, <2>12, <3>2 DEF FlashSoFar
      <3>4. CompleteMeansStored'
        BY <2>2, <2>13 DEF CompleteMeansStored
      <3> QED BY <3>3, <3>4
    <2>14. CASE ~(addr + BlockSize < size)
      <3>1. ~((d + 1) * BlockSize < ImageLen) /\ d + 1 \in Nat
        BY <1>4, <2>2, <2>12, <2>14, <2>5
      <3>2. ~(d + 2 <= Blocks)
        BY <2>5, <3>1, BlockThere
      <3>3. d + 1 = f
        BY <2>5, <2>8, <2>9, <3>2, BlocksBound
      <3>4. \A a \in 0 .. ImageLen - 1 : a < addr + BlockSize
        BY <1>1, <1>4, <2>14, Constants
      <3>5. \A a \in 0 .. ImageLen - 1 : mem[a] = ImageByte(a)
        BY <2>11, <3>3, <3>4 DEF BytesStored
      <3>6. pc' = "menu"
        BY <2>2, <2>14
      <3> QED BY <1>1, <3>5, <3>6 DEF FlashSoFar, CompleteMeansStored, InBlock
    <2> QED BY <2>13, <2>14
  <1> QED BY <1>2, <1>3, <1>4

LEMMA WriteFlash ==
  ASSUME Shape, ArrivalInv, WriteBlock
  PROVE  FlashSoFar' /\ CompleteMeansStored'
  <1>0. InTurn /\ FlashSoFar
    BY DEF ArrivalInv
  <1>1. /\ InBlock /\ ~flashed /\ addr < size /\ need = Chunk(size, addr) /\ Len(buf) = need
        /\ size \in Nat /\ addr \in Nat /\ need \in Nat
        /\ UNCHANGED <<up, size, addr, flashed>>
    BY DEF WriteBlock, Shape, Control, InBlock, TypeOK, host, flash
  <1>2. CompleteMeansStored'
    BY <1>1 DEF CompleteMeansStored
  <1>3. ASSUME size = ImageLen PROVE FlashSoFar'
    <2>1. up = "image" /\ \E d, g \in 0 .. Blocks : BlocksSoFar(d, g)
      BY <1>0, <1>1, <1>3 DEF FlashSoFar
    <2>2. PICK d \in 0 .. Blocks, g \in 0 .. Blocks : BlocksSoFar(d, g)
      BY <2>1
    <2>3. addr + need <= MemSize
      BY <1>1, <1>3, ChunkTyped, Constants
    <2>4. \E kept \in SUBSET (1 .. need) : mem' = Stored(kept)
      <3>1. 1 .. need \in SUBSET (1 .. need)
        OBVIOUS
      <3> QED BY <3>1 DEF WriteBlock
    <2>5. PICK kept \in SUBSET (1 .. need) : mem' = Stored(kept)
      BY <2>4
    <2>6. \A a \in 0 .. ImageLen - 1 : a < addr => mem'[a] = mem[a]
      <3>1. \A a \in 0 .. ImageLen - 1 : a \in 0 .. MemSize - 1
        BY Constants
      <3> QED BY <2>3, <2>5, <3>1, StoredElsewhere
    <2>7. BytesStored(addr) => BytesStored(addr)'
      BY <1>1, <2>6 DEF BytesStored, ImageByte
    <2>8. BlocksSoFar(d, g)'
      BY <1>0, <1>1, <2>2, <2>7, KernelTurn DEF BlocksSoFar
    <2> QED BY <1>1, <2>1, <2>8 DEF FlashSoFar
  <1>4. ASSUME size # ImageLen PROVE FlashSoFar'
    BY <1>1, <1>4 DEF FlashSoFar
  <1> QED BY <1>2, <1>3, <1>4

\* A step that leaves the flash where it is.
LEMMA FlashKept ==
  ASSUME ArrivalInv, UNCHANGED <<up, size, addr, mem, flashed, piece>>,
         InBlock' => InBlock, \A g \in 0 .. Blocks : Beyond(g) => Beyond(g)'
  PROVE  FlashSoFar' /\ CompleteMeansStored'
  <1>1. CompleteMeansStored'
    BY DEF ArrivalInv, CompleteMeansStored
  <1>2. ASSUME InBlock', size' = ImageLen PROVE up' = "image" /\ (\E d, g \in 0 .. Blocks : BlocksSoFar(d, g))'
    <2>1. up = "image" /\ \E d, g \in 0 .. Blocks : BlocksSoFar(d, g)
      BY <1>2 DEF ArrivalInv, FlashSoFar
    <2>2. PICK d \in 0 .. Blocks, g \in 0 .. Blocks : BlocksSoFar(d, g)
      BY <2>1
    <2>3. BlocksSoFar(d, g)'
      BY <2>2 DEF BlocksSoFar, BytesStored, ImageByte
    <2> QED BY <2>1, <2>3
  <1> QED BY <1>1, <1>2 DEF FlashSoFar

LEMMA FlashStep ==
  ASSUME Shape, ArrivalInv, [Next]_vars
  PROVE  FlashSoFar' /\ CompleteMeansStored'
  <1> USE DEF host, flash, program, reading, trouble
  <1>0. InTurn /\ FlashSoFar /\ CompleteMeansStored
    BY DEF ArrivalInv
  <1>1. CASE UNCHANGED vars
    BY <1>1, FlashKept DEF vars, InBlock, Beyond, Taken
  <1>2. CASE Menu(Head(ring))
    <2>1. UNCHANGED <<up, size, addr, mem, flashed>> /\ (pc' = "crc" => piece' = 1)
          /\ pc' \in {"menu", "size", "crc", "elsewhere"}
      BY <1>2 DEF Menu, MenuChoices
    <2>2. ~InBlock'
      BY <2>1 DEF InBlock
    <2> QED BY <1>0, <2>1, <2>2 DEF FlashSoFar, CompleteMeansStored
  <1>3. CASE ReadSize(Head(ring))
    <2>1. /\ pc' = "crc" => flashed' = FALSE
          /\ pc' # "crc" => pc' = "menu" /\ ~(0 < size')
          /\ addr' = 0 /\ UNCHANGED <<up, mem>>
      BY <1>3 DEF ReadSize, Loop
    <2>2. CASE size' = ImageLen
      <3>1. Head(ring) = SizeField /\ Head(ring) \in Own
        BY <1>0, <1>3, <2>2, UnitTurn, WrongSize DEF ReadSize
      <3>2. up = "image"
        <4>1. SizeField \in Units(up) /\ up \in Uploads
          <5>1. SizeField # Altered
            BY DEF SizeField, Altered
          <5>2. SizeField \in Units(up)
            BY <3>1, <5>1 DEF Own
          <5> QED BY <5>2 DEF Shape, TypeOK
        <4>2. SizeField[1] = up
          BY <4>1, UnitShape
        <4> QED BY <4>2 DEF SizeField
      <3>3. Beyond(0)'
        BY DEF Beyond, Behind
      <3>4. addr' = 0 * BlockSize /\ 0 \in 0 .. Blocks
        BY <2>1, BlocksBound, Constants
      <3>5. BytesStored(addr)'
        BY <2>1, Constants DEF BytesStored
      <3>6. BlocksSoFar(0, 0)'
        BY <3>3, <3>4, <3>5 DEF BlocksSoFar
      <3>7. pc' = "crc" /\ flashed' = FALSE
        BY <2>1, <2>2, Constants
      <3> QED BY <2>1, <3>2, <3>4, <3>6, <3>7 DEF FlashSoFar, CompleteMeansStored
    <2> QED BY <2>2 DEF FlashSoFar, CompleteMeansStored
  <1>4. CASE ReadCrc(Head(ring)) \/ ReadData(Head(ring))
    <2>1. UNCHANGED <<up, size, addr, mem, flashed, piece>> /\ pc \in {"crc", "data"}
      BY <1>4 DEF ReadCrc, ReadData
    <2> QED BY <1>0, <1>4, <2>1, UnitTurn, FlashKept DEF InBlock
  <1>5. CASE CheckBlock
    <2>1. CASE CheckCrc
      <3>1. UNCHANGED <<up, size, addr, mem, flashed, piece>> /\ pc = "check"
        BY <1>5, <2>1 DEF CheckBlock
      <3> QED BY <1>0, <1>5, <3>1, KernelTurn, FlashKept DEF InBlock
    <2>2. CASE ~CheckCrc
      <3>1. size' = 0
        BY <1>5, <2>2 DEF CheckBlock, Break
      <3> QED BY <3>1, Constants DEF FlashSoFar, CompleteMeansStored
    <2> QED BY <2>1, <2>2
  <1>6. CASE WriteBlock
    BY <1>6, WriteFlash
  <1>7. CASE VerifyBlock
    BY <1>7, VerifyFlash
  <1>8. CASE LoadPiece
    <2>1. piece' # 0 /\ UNCHANGED <<size, mem, flashed>>
      <3>1. piece \in 0 .. 5 /\ piece > 0
        BY <1>8 DEF LoadPiece, Shape, TypeOK
      <3> QED BY <1>8, <3>1 DEF LoadPiece
    <2> QED BY <1>0, <2>1 DEF FlashSoFar, CompleteMeansStored, InBlock
  <1>9. CASE SendUnit \/ SendOverrun \/ SendNoise
    <2>1. UNCHANGED <<up, size, addr, mem, flashed, piece, pc>>
      BY <1>9 DEF SendUnit, SendOverrun, SendNoise, Advance
    <2>2. \A g \in 0 .. Blocks : Beyond(g) => Beyond(g)'
      BY <1>0, <1>9, TurnSent, BlocksBound DEF Shape
    <2> QED BY <2>1, <2>2, FlashKept DEF InBlock
  <1>10. CASE Back \/ \E u \in Uploads : Command(u)
    <2>1. pc' = "menu" /\ UNCHANGED <<size, mem, flashed>>
      BY <1>10 DEF Back, Command
    <2> QED BY <1>0, <2>1 DEF FlashSoFar, CompleteMeansStored, InBlock
  <1>11. CASE Reset
    BY <1>11, Constants DEF Reset, FlashSoFar, CompleteMeansStored
  <1> QED BY <1>1, <1>2, <1>3, <1>4, <1>5, <1>6, <1>7, <1>8, <1>9, <1>10, <1>11, NextCases

-----------------------------------------------------------------------------
(* Programs.                                                               *)

\* A step that leaves the load where it is.
LEMMA LoadKept ==
  ASSUME ArrivalInv, UNCHANGED <<up, piece, loaded, checked>>,
         pc = "running" <=> pc' = "running", \A g \in Nat : Beyond(g) => Beyond(g)'
  PROVE  LoadSoFar'
  <1>1. Pieces' = Pieces
    BY DEF Pieces
  <1>2. \A g \in Nat : PiecesSoFar(g) => PiecesSoFar(g)'
    BY <1>1 DEF PiecesSoFar
  <1> QED BY <1>1, <1>2 DEF ArrivalInv, LoadSoFar

LEMMA LoadMore ==
  ASSUME Shape, ArrivalInv, LoadPiece
  PROVE  LoadSoFar'
  <1>0. InTurn /\ LoadSoFar /\ TypeOK
    BY DEF ArrivalInv, Shape
  <1>1. /\ piece \in 1 .. 5 /\ pc = "check" /\ checked' = (checked /\ CheckCrc)
        /\ loaded' = IF checked' THEN Append(loaded, buf) ELSE <<>>
        /\ crc' = Altered /\ buf' = <<>> /\ UNCHANGED <<up, frame, byte, ring>>
        /\ loaded \in Seq(Seq(AllUnits)) /\ buf \in Seq(AllUnits)
        /\ IF piece = 5 THEN pc' = "running" /\ piece' = piece ELSE pc' = "crc" /\ piece' = piece + 1
    BY DEF LoadPiece, Shape, TypeOK, host
  <1>2. Pieces = piece - 1 /\ Pieces' = piece /\ piece' # 0
    BY <1>1 DEF Pieces
  <1> SUFFICES ASSUME checked' PROVE
        /\ Len(loaded') = Pieces'
        /\ \A i \in 1 .. Pieces' : \E f \in 1 .. FrameCount(up') : loaded'[i] = Frame(up', f)
        /\ (\E g \in Nat : PiecesSoFar(g))'
    BY <1>2 DEF LoadSoFar
  <1>3. /\ checked /\ CheckCrc /\ loaded' = Append(loaded, buf) /\ Len(loaded) = Pieces
        /\ \A i \in 1 .. Pieces : \E f \in 1 .. FrameCount(up) : loaded[i] = Frame(up, f)
        /\ \E g \in Nat : PiecesSoFar(g)
    <2>1. checked /\ CheckCrc /\ loaded' = Append(loaded, buf)
      BY <1>1
    <2>2. piece > 0 /\ piece # 0
      BY <1>1
    <2> QED BY <1>0, <2>1, <2>2 DEF LoadSoFar
  <1>4. PICK g \in Nat : PiecesSoFar(g)
    BY <1>3
  <1>5. PICK u \in Uploads : \E f \in 1 .. FrameCount(u) : crc = <<u, f, 0>> /\ buf = Frame(u, f)
    BY <1>3 DEF CheckCrc
  <1>6. PICK f \in 1 .. FrameCount(u) : crc = <<u, f, 0>> /\ buf = Frame(u, f)
    BY <1>5
  <1>7. /\ u = up /\ f \in Nat /\ f > 0 /\ f <= FrameCount(up)
        /\ \A i \in 1 .. Len(ring) : Behind(ring[i], f)
        /\ Behind(<<up, frame, byte>>, f)
    BY <1>0, <1>6, FrameDone, FrameTyped
  <1>8. g > 0 => f > g
    <2>1. Behind(crc, g) /\ crc # Altered
      BY <1>4, <1>6, UploadNames DEF PiecesSoFar, Beyond, Taken, Altered
    <2> QED BY <1>6, <2>1 DEF Behind
  <1>9. Pieces' <= f /\ (f = Pieces' => g = Pieces)
    BY <1>1, <1>2, <1>4, <1>7, <1>8 DEF PiecesSoFar
  <1>10. /\ Len(loaded') = Pieces' /\ loaded'[piece] = buf
         /\ \A i \in 1 .. Pieces : loaded'[i] = loaded[i]
         /\ \A i \in 1 .. Pieces' : i \in 1 .. Pieces \/ i = piece
    BY <1>1, <1>2, <1>3
  <1>11. \A i \in 1 .. Pieces' : \E e \in 1 .. FrameCount(up) : loaded'[i] = Frame(up, e)
    BY <1>3, <1>6, <1>7, <1>10
  <1>12. Beyond(f)'
    <2>1. Taken' = {Altered}
      BY <1>1 DEF Taken
    <2>2. Behind(Altered, f)
      BY DEF Behind
    <2> QED BY <1>1, <1>7, <2>1, <2>2 DEF Beyond
  <1>13. f = Pieces' => \A e \in 1 .. Pieces' : loaded'[e] = Frame(up, e)
    BY <1>2, <1>4, <1>6, <1>7, <1>9, <1>10 DEF PiecesSoFar
  <1>14. PiecesSoFar(f)'
    BY <1>1, <1>7, <1>9, <1>12, <1>13 DEF PiecesSoFar
  <1> QED BY <1>1, <1>7, <1>10, <1>11, <1>14

LEMMA LoadStep ==
  ASSUME Shape, ArrivalInv, [Next]_vars
  PROVE  LoadSoFar'
  <1> USE DEF host, flash, program, reading, trouble
  <1>0. InTurn /\ LoadSoFar
    BY DEF ArrivalInv
  <1>1. CASE UNCHANGED vars
    BY <1>1, LoadKept DEF vars, Beyond, Taken
  <1>2. CASE Menu(Head(ring))
    <2>1. /\ UNCHANGED <<up, loaded, checked>> /\ piece' \in {0, 1}
          /\ pc = "menu" /\ pc' \in {"menu", "size", "crc", "elsewhere"}
      BY <1>2 DEF Menu, MenuChoices
    <2>2. loaded' = <<>> /\ checked'
      BY <1>0, <2>1 DEF LoadSoFar, Shape, Control
    <2>3. CASE piece' = 1
      <3>1. Pieces' = 0
        BY <2>1, <2>3 DEF Pieces
      <3>2. Beyond(0)'
        BY DEF Beyond, Behind
      <3>3. PiecesSoFar(0)'
        BY <3>1, <3>2 DEF PiecesSoFar
      <3> QED BY <2>2, <2>3, <3>1, <3>3 DEF LoadSoFar
    <2> QED BY <2>1, <2>2, <2>3 DEF LoadSoFar
  <1>3. CASE ReadSize(Head(ring)) \/ CheckBlock \/ WriteBlock \/ VerifyBlock
    <2>1. UNCHANGED <<piece, loaded, checked>> /\ pc \in {"size", "check", "write", "verify"}
          /\ (pc = "check" => piece = 0)
      BY <1>3 DEF ReadSize, CheckBlock, WriteBlock, VerifyBlock
    <2>2. piece = 0
      BY <2>1 DEF Shape, Control
    <2> QED BY <1>0, <2>1, <2>2 DEF LoadSoFar
  <1>4. CASE ReadCrc(Head(ring)) \/ ReadData(Head(ring))
    <2>1. UNCHANGED <<up, piece, loaded, checked>> /\ pc # "running" /\ pc' # "running"
      BY <1>4 DEF ReadCrc, ReadData
    <2> QED BY <1>0, <1>4, <2>1, UnitTurn, LoadKept
  <1>5. CASE LoadPiece
    BY <1>5, LoadMore
  <1>6. CASE SendUnit \/ SendOverrun \/ SendNoise
    <2>1. UNCHANGED <<up, piece, loaded, checked, pc>>
      BY <1>6 DEF SendUnit, SendOverrun, SendNoise, Advance
    <2> QED BY <1>0, <1>6, <2>1, TurnSent, LoadKept DEF Shape
  <1>7. CASE Back \/ Reset
    BY <1>7 DEF Back, Reset, NoLoad, LoadSoFar
  <1>8. CASE \E u \in Uploads : Command(u)
    <2>1. pc = "menu" /\ UNCHANGED <<piece, loaded, checked>>
      BY <1>8 DEF Command
    <2> QED BY <1>0, <2>1 DEF LoadSoFar, Shape, Control
  <1> QED BY <1>1, <1>2, <1>3, <1>4, <1>5, <1>6, <1>7, <1>8, NextCases

LEMMA ArrivalInit == Init => ArrivalInv
  <1> SUFFICES ASSUME Init PROVE ArrivalInv
    OBVIOUS
  <1>1. Taken = {Altered} /\ Len(ring) = 0
    BY DEF Init, Taken
  <1>2. \A w : Before(Altered, w)
    BY DEF Before
  <1>3. InTurn
    BY <1>1, <1>2 DEF InTurn, Own
  <1>4. FlashSoFar /\ LoadSoFar /\ CompleteMeansStored
    BY DEF Init, FlashSoFar, LoadSoFar, CompleteMeansStored, InBlock
  <1> QED BY <1>3, <1>4 DEF ArrivalInv

\* What crcread holds, the ring and the rest of the upload lie in the order in
\* which they were sent; a flash or a load that missed a frame is ahead of its
\* count (kernel.c:157-192; elf.c:49-93; sendtar_crc32.c:69-77).
THEOREM ArrivalTheorem == Spec => [](Shape /\ ArrivalInv)
  <1>1. Init => Shape /\ ArrivalInv
    BY InitShape, ArrivalInit
  <1>2. (Shape /\ ArrivalInv) /\ [Next]_vars => (Shape /\ ArrivalInv)'
    <2> SUFFICES ASSUME Shape, ArrivalInv, [Next]_vars PROVE Shape' /\ ArrivalInv'
      OBVIOUS
    <2>1. InTurn' /\ FlashSoFar' /\ LoadSoFar' /\ CompleteMeansStored'
      BY TurnStep, FlashStep, LoadStep DEF ArrivalInv
    <2> QED BY <2>1, ShapeStep DEF ArrivalInv
  <1> QED BY <1>1, <1>2, PTL DEF Spec

\* Every variable has its type, and crcread stays inside the buffer of
\* flash_ustar (kernel.c:150-168), for every size of image, block and ring.
THEOREM TypeTheorem == Spec => []TypeOK
  <1>1. Shape => TypeOK
    BY DEF Shape
  <1> QED BY <1>1, ArrivalTheorem, PTL

\* A flash that ran to its end with the size the host sent stored the whole
\* image, whatever was lost, altered, overrun or refused on the way.
THEOREM CompleteTheorem == Spec => []CompleteMeansStored
  <1>1. ArrivalInv => CompleteMeansStored
    BY DEF ArrivalInv
  <1> QED BY <1>1, ArrivalTheorem, PTL

\* A program of two segments whose pieces were all checked is in memory as it
\* was sent.
THEOREM CheckedTheorem == Spec => []CheckedMeansIntact
  <1>1. Shape /\ ArrivalInv => CheckedMeansIntact
    <2> SUFFICES ASSUME Shape, ArrivalInv, pc = "running", checked,
                        NEW p \in Programs, Regular(p), loaded[1] = Frame(p, 1)
                 PROVE  loaded = [f \in 1 .. FrameCount(p) |-> Frame(p, f)]
      BY DEF CheckedMeansIntact
    <2>1. Pieces = 5 /\ piece = 5
      BY DEF Pieces, Shape, Control
    <2>2. /\ Len(loaded) = 5 /\ loaded \in Seq(Seq(AllUnits)) /\ up \in Uploads
          /\ \A i \in 1 .. 5 : \E f \in 1 .. FrameCount(up) : loaded[i] = Frame(up, f)
          /\ \E g \in Nat : PiecesSoFar(g)
      BY <2>1 DEF ArrivalInv, LoadSoFar, Shape, TypeOK
    <2>3. p \in Uploads /\ FrameCount(p) = 5
      <3>1. p \in Uploads /\ p # "image" /\ p # "shell"
        BY UploadNames
      <3>2. Len(Segments[p]) = 2
        BY DEF Regular
      <3> QED BY <3>1, <3>2 DEF FrameCount
    <2>4. p = up
      <3>1. PICK f \in 1 .. FrameCount(up) : loaded[1] = Frame(up, f)
        BY <2>2
      <3>2. FrameLen(p, 1) \in Nat /\ FrameLen(p, 1) > 0
        BY <2>3, FrameTyped
      <3>3. 1 \in DOMAIN Frame(p, 1) /\ Frame(p, 1)[1] = <<p, 1, 1>>
        BY <3>2 DEF Frame
      <3>4. 1 \in DOMAIN Frame(up, f)
        BY <3>1, <3>3
      <3>5. Frame(up, f)[1] = <<up, f, 1>>
        BY <3>4 DEF Frame
      <3> QED BY <3>1, <3>3, <3>5
    <2>5. PICK g \in Nat : PiecesSoFar(g)
      BY <2>2
    <2>6. g = 5
      BY <2>1, <2>3, <2>4, <2>5 DEF PiecesSoFar
    <2>7. \A f \in 1 .. 5 : loaded[f] = Frame(p, f)
      BY <2>1, <2>4, <2>5, <2>6 DEF PiecesSoFar
    <2> QED BY <2>2, <2>3, <2>7
  <1> QED BY <1>1, ArrivalTheorem, PTL

-----------------------------------------------------------------------------
(* A clean line keeps the kernel in step with the host.                    *)

LEMMA CleanRead ==
  ASSUME TypeOK, InTurn, Unbroken, NEW u, Read(u), UNCHANGED <<up, frame, byte>>
  PROVE  u = Coming /\ Unbroken' /\ Coming' = Succ(u) /\ u \in Units(up) /\ up \in Uploads
  <1>1. /\ u = ring[1] /\ u = Head(ring) /\ ring # <<>> /\ Len(ring) \in Nat /\ Len(ring) > 0
        /\ ring' \in Seq(AllUnits) /\ Len(ring') = Len(ring) - 1
        /\ \A i \in 1 .. Len(ring') : ring'[i] = ring[i + 1]
        /\ late' = late /\ (late => Len(ring) > 1)
    BY ReadRing DEF TypeOK, Read
  <1>2. u = Coming
    BY <1>1 DEF Coming
  <1>3. 1 \in 1 .. Len(ring)
    BY <1>1
  <1>4. u \in Units(up)
    BY <1>1, <1>3 DEF InTurn, Own, Unbroken
  <1>5. CASE Len(ring) = 1
    <2>1. ring' = <<>>
      BY <1>1, <1>5
    <2>2. Coming' = Succ(u)
      BY <1>1, <1>5, <2>1 DEF Coming, Unbroken
    <2>3. Unbroken'
      BY <1>1, <1>5, <2>1 DEF Unbroken
    <2> QED BY <1>2, <1>4, <2>2, <2>3 DEF TypeOK
  <1>6. CASE Len(ring) > 1
    <2>1. /\ ring' # <<>> /\ Head(ring') = ring[2]
          /\ 1 \in 1 .. Len(ring') /\ 1 \in 1 .. Len(ring) - 1
          /\ \A i \in 1 .. Len(ring') : i + 1 \in 1 .. Len(ring)
          /\ \A i \in 1 .. Len(ring') - 1 :
                /\ i + 1 \in 1 .. Len(ring) - 1 /\ ring'[i] = ring[i + 1] /\ ring'[i + 1] = ring[i + 1 + 1]
          /\ ring'[Len(ring')] = ring[Len(ring)]
      BY <1>1, <1>6
    <2>2. Coming' = Succ(u)
      BY <1>1, <2>1 DEF Coming, Unbroken
    <2>3. Unbroken'
      <3>1. \A i \in 1 .. Len(ring') : ring'[i] # Altered
        BY <1>1, <2>1 DEF Unbroken
      <3>2. \A i \in 1 .. Len(ring') - 1 : ring'[i + 1] = Succ(ring'[i])
        BY <2>1 DEF Unbroken
      <3>3. <<up', frame', byte'>> = Succ(ring'[Len(ring')])
        BY <1>1, <2>1 DEF Unbroken
      <3>4. late' => ring'[Len(ring')] # Key(up)'
        BY <1>1, <2>1 DEF Unbroken, Key
      <3> QED BY <3>1, <3>2, <3>3, <3>4 DEF Unbroken
    <2> QED BY <1>2, <1>4, <2>2, <2>3 DEF TypeOK
  <1> QED BY <1>1, <1>5, <1>6

LEMMA CleanSend ==
  ASSUME TypeOK, InTurn, Unbroken, SendUnit
  PROVE  Unbroken' /\ Coming' = Coming
  <1> DEFINE n == <<up, frame, byte>>
  <1>1. /\ Sending /\ Advance /\ ring' = Append(ring, n) /\ ring \in Seq(AllUnits)
        /\ late' => ring # <<>>
    BY DEF SendUnit, Arrives, TypeOK
  <1>2. /\ n \in Units(up) /\ up' = up /\ <<up, frame', byte'>> = Succ(n) /\ n # Altered
    BY <1>1, AdvanceSucc, UnitShape DEF TypeOK
  <1>3. /\ Len(ring) \in Nat /\ Len(ring') = Len(ring) + 1 /\ ring'[Len(ring) + 1] = n
        /\ \A i \in 1 .. Len(ring) : ring'[i] = ring[i]
        /\ \A i \in 1 .. Len(ring') : i \in 1 .. Len(ring) \/ i = Len(ring) + 1
        /\ \A i \in 1 .. Len(ring') - 1 :
              \/ i \in 1 .. Len(ring) - 1 /\ ring'[i + 1] = ring[i + 1] /\ ring'[i] = ring[i]
              \/ i = Len(ring) /\ ring'[i + 1] = n /\ ring'[i] = ring[Len(ring)] /\ ring # <<>>
        /\ ring' # <<>> /\ Head(ring') = ring'[1]
        /\ ring = <<>> => ring'[1] = n
        /\ ring # <<>> => ring'[1] = Head(ring)
    BY <1>1
  <1>4. ring # <<>> => n = Succ(ring[Len(ring)])
    BY DEF Unbroken
  <1>5. Coming = IF ring = <<>> THEN n ELSE Head(ring)
    BY DEF Coming
  <1> HIDE DEF n
  <1>6. \A i \in 1 .. Len(ring') : ring'[i] # Altered
    BY <1>2, <1>3 DEF Unbroken
  <1>7. \A i \in 1 .. Len(ring') - 1 : ring'[i + 1] = Succ(ring'[i])
    BY <1>3, <1>4 DEF Unbroken
  <1>8. <<up', frame', byte'>> = Succ(ring'[Len(ring')])
    BY <1>2, <1>3
  <1>9. Coming' = Coming
    BY <1>3, <1>5 DEF Coming
  <1>10. late' => ring'[Len(ring')] # Key(up)'
    <2> SUFFICES ASSUME ring # <<>> PROVE n # Key(up)
      BY <1>1, <1>2, <1>3 DEF Key
    <2>1. Len(ring) \in 1 .. Len(ring) /\ up \in Uploads
      BY <1>1 DEF TypeOK
    <2> DEFINE v == ring[Len(ring)]
    <2>2. v \in Units(up)
      BY <2>1 DEF InTurn, Own, Unbroken
    <2>3. n = Succ(v)
      BY <1>4
    <2> HIDE DEF v
    <2>4. v[2] \in Nat /\ v[3] \in Nat /\ (v[2] = 0 => v[3] >= 1)
      <3>1. v[2] \in 0 .. FrameCount(up) /\ v[3] \in 0 .. LastUnit(up, v[2]) /\ (v[2] = 0 => v[3] >= 1)
        BY <2>1, <2>2, UnitShape
      <3>2. FrameCount(up) \in Nat /\ LastUnit(up, v[2]) \in Nat
        BY <2>1, <3>1, FrameTyped, LastTyped
      <3> QED BY <3>1, <3>2
    <2>5. (n[3] = v[3] + 1 /\ n[2] = v[2]) \/ n[3] = 0
      BY <2>3 DEF Succ
    <2> QED BY <2>4, <2>5 DEF Key
  <1> QED BY <1>6, <1>7, <1>8, <1>9, <1>10 DEF Unbroken

LEMMA SameComing ==
  ASSUME Unbroken, UNCHANGED <<up, frame, byte, ring, late>>
  PROVE  Unbroken' /\ Coming' = Coming
  BY DEF Unbroken, Coming, Key

\* crcread takes the bytes of the frame and no others.
LEMMA FrameRead ==
  ASSUME TypeOK, InTurn, Control, Unbroken, NEW v \in Uploads, NEW f, ReadsFrame(v, f),
         NEW u, ReadCrc(u) \/ ReadData(u)
  PROVE  ReadsFrame(v, f)' /\ Unbroken' /\ pc' \in {"data", "check"}
  <1>1. Read(u) /\ UNCHANGED <<up, frame, byte, need>>
    BY DEF ReadCrc, ReadData, host
  <1>2. u = Coming /\ Unbroken' /\ Coming' = Succ(u)
    BY <1>1, CleanRead
  <1>3. f \in 1 .. FrameCount(v) /\ need = FrameLen(v, f) /\ need \in Nat /\ LastUnit(v, f) = need
    <2>1. f \in 1 .. FrameCount(v) /\ need = FrameLen(v, f)
      BY DEF ReadsFrame
    <2>2. FrameCount(v) \in Nat /\ FrameLen(v, f) \in Nat
      BY <2>1, FrameTyped
    <2>3. f \in 0 .. FrameCount(v) /\ f > 0
      BY <2>1, <2>2
    <2> QED BY <2>1, <2>2, <2>3, LastTyped
  <1>4. CASE ReadCrc(u)
    <2>1. pc = "crc" /\ crc' = u /\ buf' = <<>> /\ pc' = IF need = 0 THEN "check" ELSE "data"
      BY <1>4 DEF ReadCrc
    <2>2. u = <<v, f, 0>>
      BY <1>2, <2>1 DEF ReadsFrame
    <2>3. CASE need = 0
      <3>1. buf' = Frame(v, f)
        BY <1>3, <2>1, <2>3 DEF Frame
      <3>2. Coming' = <<v, f + 1, 0>>
        BY <1>2, <1>3, <2>2, <2>3 DEF Succ
      <3> QED BY <1>1, <1>2, <1>3, <2>1, <2>2, <2>3, <3>1, <3>2 DEF ReadsFrame
    <2>4. CASE need # 0
      <3>1. Coming' = <<v, f, 1>> /\ Len(buf') = 0
        BY <1>2, <1>3, <2>1, <2>2, <2>4 DEF Succ
      <3> QED BY <1>1, <1>2, <1>3, <2>1, <2>2, <2>4, <3>1 DEF ReadsFrame
    <2> QED BY <2>3, <2>4
  <1>5. CASE ReadData(u)
    <2>1. /\ pc = "data" /\ crc' = crc /\ buf' = Append(buf, u) /\ buf \in Seq(AllUnits)
          /\ pc' = IF Len(buf') = need THEN "check" ELSE "data"
      BY <1>5 DEF ReadData, TypeOK
    <2>2. /\ crc = <<v, f, 0>> /\ u = <<v, f, Len(buf) + 1>>
          /\ \A k \in 1 .. Len(buf) : buf[k] = <<v, f, k>>
      BY <1>2, <2>1 DEF ReadsFrame
    <2>3. /\ Len(buf) \in Nat /\ Len(buf') = Len(buf) + 1 /\ Len(buf) < need
          /\ u \in AllUnits
      <3>1. u \in AllUnits
        BY <1>1, ReadRing DEF TypeOK
      <3> QED BY <2>1, <3>1 DEF Control
    <2>4. \A k \in 1 .. Len(buf') : buf'[k] = <<v, f, k>>
      BY <2>1, <2>2, <2>3
    <2>5. CASE Len(buf') = need
      <3>1. buf' = Frame(v, f)
        <4>1. buf' \in Seq(AllUnits)
          BY <2>1, <2>3
        <4>2. buf' = [k \in 1 .. Len(buf') |-> buf'[k]]
          BY <4>1
        <4> QED BY <1>3, <2>4, <2>5, <4>2 DEF Frame
      <3>2. Coming' = <<v, f + 1, 0>>
        BY <1>2, <1>3, <2>2, <2>3, <2>5 DEF Succ
      <3> QED BY <1>1, <1>2, <1>3, <2>1, <2>2, <2>5, <3>1, <3>2 DEF ReadsFrame
    <2>6. CASE Len(buf') # need
      <3>1. Coming' = <<v, f, Len(buf') + 1>>
        <4>1. Len(buf) + 1 < need
          BY <1>3, <2>3, <2>6
        <4> QED BY <1>2, <1>3, <2>2, <2>3, <4>1 DEF Succ
      <3> QED BY <1>1, <1>2, <1>3, <2>1, <2>2, <2>4, <2>6, <3>1 DEF ReadsFrame
    <2> QED BY <2>5, <2>6
  <1> QED BY <1>4, <1>5

\* A clean write can be read back.
LEMMA StoredBlock ==
  ASSUME Shape, addr + need <= MemSize, Len(buf) = need, NEW k \in 1 .. need
  PROVE  Stored(1 .. need)[(addr + k - 1) % MemSize] = buf[k]
  <1>1. addr \in Nat /\ need \in Nat /\ MemSize \in Nat /\ MemSize > 0
    <2>1. addr \in Nat /\ need \in Nat
      BY DEF Shape, TypeOK
    <2> QED BY <2>1, Constants
  <1>2. \A j \in 1 .. need : (addr + j - 1) % MemSize = addr + j - 1 /\ addr + j - 1 \in 0 .. MemSize - 1
    <2>1. ASSUME NEW j \in 1 .. need
          PROVE  (addr + j - 1) % MemSize = addr + j - 1 /\ addr + j - 1 \in 0 .. MemSize - 1
      <3>1. addr + j - 1 \in 0 .. MemSize - 1 /\ MemSize \in Nat \ {0}
        BY <1>1
      <3> QED BY <3>1, ModSmall
    <2> QED BY <2>1
  <1> DEFINE a == addr + k - 1
             at == {j \in 1 .. need : (addr + j - 1) % MemSize = a}
  <1>3. (addr + k - 1) % MemSize = a /\ a \in 0 .. MemSize - 1
    BY <1>2
  <1>4. at = {k}
    <2>1. \A j \in 1 .. need : (addr + j - 1) % MemSize = a <=> j = k
      BY <1>1, <1>2
    <2> QED BY <2>1
  <1>5. (CHOOSE j \in at : TRUE) = k /\ at # {}
    <2>1. at # {} /\ \A j \in at : j = k
      BY <1>4
    <2> HIDE DEF at
    <2>2. (CHOOSE j \in at : TRUE) \in at
      BY <2>1
    <2> QED BY <2>1, <2>2
  <1>6. Stored(1 .. need)[a] = IF at = {} THEN mem[a] ELSE buf[CHOOSE j \in at : TRUE]
    BY <1>3 DEF Stored
  <1> HIDE DEF a, at
  <1> QED BY <1>3, <1>5, <1>6

LEMMA CleanMenu ==
  ASSUME Shape, InTurn, CleanInv, clean', NEW u, Menu(u)
  PROVE  CleanInv'
  <1>1. /\ pc = "menu" /\ Read(u) /\ clean' = clean /\ UNCHANGED <<up, frame, byte>>
        /\ \E c \in MenuChoices(u) :
              /\ pc' = CASE c = "F" -> "size" [] c = "U" -> "crc" [] c = "G" -> "elsewhere" [] OTHER -> "menu"
              /\ piece' = IF c = "U" THEN 1 ELSE 0
              /\ need' = IF c = "U" THEN HeaderLen ELSE 0
    BY DEF Menu, host, trouble
  <1>2. clean /\ Regular(up) /\ Unbroken /\ InStep /\ TypeOK
    BY <1>1 DEF CleanInv, Shape
  <1>3. u = Coming /\ Unbroken' /\ Coming' = Succ(u) /\ u \in Units(up) /\ up \in Uploads
    BY <1>1, <1>2, CleanRead
  <1>4. u = <<up, 0, 1>> /\ u = Key(up)
    <2>1. u \in {Key(up), End(up)} /\ u # End(up)
      BY <1>1, <1>2, <1>3, UnitShape DEF InStep
    <2> QED BY <2>1 DEF Key
  <1>5. CASE up = "shell"
    <2>1. MenuChoices(u) = {"G"}
      <3>1. u = Key("shell") /\ u # Key("image") /\ u \notin {Key(p) : p \in Programs}
        BY <1>4, <1>5, UploadNames DEF Key
      <3> QED BY <3>1 DEF MenuChoices
    <2>2. pc' = "elsewhere" /\ piece' = 0
      BY <1>1, <2>1
    <2>3. Coming' = End(up)
      BY <1>3, <1>4, <1>5 DEF Succ, LastUnit, End, FrameCount
    <2>4. InStep'
      BY <1>1, <2>2, <2>3 DEF InStep, InBlock, End, FrameCount
    <2> QED BY <1>1, <1>2, <1>3, <2>4 DEF CleanInv, Regular
  <1>6. CASE up = "image"
    <2>1. MenuChoices(u) = {"F"}
      <3>1. u = Key("image") /\ u # Key("shell") /\ u \notin {Key(p) : p \in Programs}
        BY <1>4, <1>6, UploadNames DEF Key
      <3> QED BY <3>1 DEF MenuChoices
    <2>2. pc' = "size" /\ piece' = 0
      BY <1>1, <2>1
    <2>3. Coming' = SizeField
      BY <1>3, <1>4, <1>6 DEF Succ, LastUnit, SizeField
    <2>4. InStep'
      BY <1>1, <1>6, <2>2, <2>3 DEF InStep, InBlock
    <2> QED BY <1>1, <1>2, <1>3, <2>4 DEF CleanInv, Regular
  <1>7. CASE up \in Programs
    <2>0. up # "image" /\ up # "shell"
      BY <1>7, UploadNames
    <2>1. MenuChoices(u) = {"U"}
      <3>1. u # Key("image") /\ u # Key("shell") /\ u \in {Key(p) : p \in Programs}
        BY <1>4, <1>7, <2>0 DEF Key
      <3> QED BY <3>1 DEF MenuChoices
    <2>2. pc' = "crc" /\ piece' = 1 /\ need' = HeaderLen
      BY <1>1, <2>1
    <2>3. Coming' = <<up, 1, 0>>
      BY <1>3, <1>4, <2>0 DEF Succ, LastUnit
    <2>4. FrameLen(up, 1) = HeaderLen /\ 1 \in 1 .. FrameCount(up)
      BY <1>7, <2>0, SegmentsTyped DEF FrameLen, FrameCount
    <2>5. ReadsFrame(up, 1)'
      BY <1>1, <2>2, <2>3, <2>4 DEF ReadsFrame
    <2>6. InStep'
      BY <1>1, <1>2, <1>7, <2>2, <2>5 DEF InStep, InBlock, Regular
    <2> QED BY <1>1, <1>2, <1>3, <2>6 DEF CleanInv, Regular
  <1> QED BY <1>3, <1>5, <1>6, <1>7, UploadNames

LEMMA CleanReadSize ==
  ASSUME Shape, InTurn, CleanInv, clean', NEW u, ReadSize(u)
  PROVE  CleanInv'
  <1>1. /\ pc = "size" /\ Read(u) /\ clean' = clean /\ UNCHANGED <<up, frame, byte, piece>>
        /\ size' \in (IF u = SizeField THEN {ImageLen} ELSE WrongSizes)
        /\ Loop(size', 0)
    BY DEF ReadSize, host, trouble, program
  <1>2. clean /\ Regular(up) /\ Unbroken /\ InStep /\ TypeOK /\ piece = 0
    BY <1>1 DEF CleanInv, Shape, Control
  <1>3. u = Coming /\ Unbroken' /\ Coming' = Succ(u)
    BY <1>1, <1>2, CleanRead
  <1>4. up = "image" /\ u = SizeField /\ size' = ImageLen
    BY <1>1, <1>2, <1>3 DEF InStep
  <1>5. pc' = "crc" /\ addr' = 0 /\ need' = Chunk(ImageLen, 0)
    BY <1>1, <1>4, Constants DEF Loop
  <1>6. Coming' = <<"image", 1, 0>>
    BY <1>3, <1>4 DEF Succ, SizeField, LastUnit
  <1>7. 0 \in 0 .. Blocks /\ 0 * BlockSize = 0 /\ 0 \in Nat
    BY BlocksBound, Constants
  <1>8. FrameLen("image", 0 + 1) = Chunk(ImageLen, 0) /\ FrameCount("image") = Blocks /\ 0 + 1 \in 1 .. Blocks
    BY <1>7, ImageFrame, Constants
  <1>9. ReadsFrame("image", 0 + 1)'
    BY <1>5, <1>6, <1>8 DEF ReadsFrame
  <1>10. InStep'
    BY <1>1, <1>2, <1>4, <1>5, <1>7, <1>9 DEF InStep, InBlock
  <1> QED BY <1>1, <1>2, <1>3, <1>10 DEF CleanInv, Regular

LEMMA CleanFrame ==
  ASSUME Shape, InTurn, CleanInv, clean', NEW u, ReadCrc(u) \/ ReadData(u)
  PROVE  CleanInv'
  <1>1. /\ pc \in {"crc", "data"} /\ clean' = clean /\ UNCHANGED <<up, addr, size, piece>>
        /\ UNCHANGED <<frame, byte>>
    BY DEF ReadCrc, ReadData, host, trouble, flash, program
  <1>2. clean /\ Regular(up) /\ Unbroken /\ InStep /\ TypeOK /\ Control /\ up \in Uploads /\ piece \in 0 .. 5
    BY <1>1 DEF CleanInv, Shape, TypeOK
  <1>3. CASE piece = 0
    <2>1. /\ InBlock /\ up = "image" /\ size = ImageLen
          /\ \E d \in 0 .. Blocks : addr = d * BlockSize /\ ReadsFrame("image", d + 1)
      BY <1>1, <1>2, <1>3 DEF InStep, InBlock
    <2>2. PICK d \in 0 .. Blocks : addr = d * BlockSize /\ ReadsFrame("image", d + 1)
      BY <2>1
    <2>3. ReadsFrame("image", d + 1)' /\ Unbroken' /\ pc' \in {"data", "check"}
      BY <1>2, <2>2, FrameRead, UploadNames
    <2>4. InStep'
      BY <1>1, <1>3, <2>1, <2>2, <2>3 DEF InStep
    <2> QED BY <1>1, <1>2, <2>3, <2>4 DEF CleanInv, Regular
  <1>4. CASE piece > 0
    <2>1. up \in Programs /\ ReadsFrame(up, piece)
      BY <1>1, <1>2, <1>4 DEF InStep
    <2>2. ReadsFrame(up, piece)' /\ Unbroken' /\ pc' \in {"data", "check"}
      <3>1. \A v \in Uploads : \A f : ReadsFrame(v, f) => ReadsFrame(v, f)' /\ Unbroken' /\ pc' \in {"data", "check"}
        BY <1>2, FrameRead
      <3> QED BY <1>1, <1>2, <2>1, <3>1 DEF ReadsFrame
    <2>3. InStep'
      BY <1>1, <1>2, <1>4, <2>1, <2>2 DEF InStep, InBlock, Regular
    <2> QED BY <1>1, <1>2, <2>2, <2>3 DEF CleanInv, Regular
  <1> QED BY <1>2, <1>3, <1>4

LEMMA CleanBlock ==
  ASSUME Shape, CleanInv, clean', CheckBlock \/ WriteBlock \/ VerifyBlock
  PROVE  CleanInv'
  <1>1. /\ pc \in {"check", "write", "verify"} /\ InBlock /\ piece = 0 /\ Len(buf) = need
        /\ addr < size /\ need = Chunk(size, addr) /\ addr \in Nat /\ size \in Nat /\ buf \in Seq(AllUnits)
        /\ need \in Nat
    BY DEF CheckBlock, WriteBlock, VerifyBlock, Shape, Control, InBlock, TypeOK
  <1>2. clean /\ UNCHANGED <<up, frame, byte, ring, late, piece>>
    BY DEF CheckBlock, WriteBlock, VerifyBlock, host, program, trouble
  <1>3. Regular(up) /\ Unbroken /\ InStep
    BY <1>2 DEF CleanInv
  <1>4. Unbroken' /\ Coming' = Coming /\ Regular(up)'
    BY <1>2, <1>3, SameComing DEF Regular
  <1>5. /\ up = "image" /\ size = ImageLen
        /\ \E d \in 0 .. Blocks : addr = d * BlockSize /\ ReadsFrame("image", d + 1)
    BY <1>1, <1>3 DEF InStep
  <1>6. PICK d \in 0 .. Blocks : addr = d * BlockSize /\ ReadsFrame("image", d + 1)
    BY <1>5
  <1>7. /\ need = FrameLen("image", d + 1) /\ d + 1 \in 1 .. FrameCount("image")
        /\ crc = <<"image", d + 1, 0>> /\ buf = Frame("image", d + 1) /\ Coming = <<"image", d + 2, 0>>
    BY <1>1, <1>6, BlocksBound DEF ReadsFrame
  <1>8. CASE CheckBlock
    <2>1. CheckCrc
      BY <1>7, UploadNames DEF CheckCrc
    <2>2. pc' = "write" /\ UNCHANGED <<size, addr, need, crc, buf>>
      BY <1>8, <2>1 DEF CheckBlock, flash, reading
    <2>3. ReadsFrame("image", d + 1)'
      BY <1>1, <1>4, <1>6, <2>2 DEF ReadsFrame
    <2>4. InStep'
      BY <1>1, <1>2, <1>5, <1>6, <2>2, <2>3 DEF InStep
    <2> QED BY <1>4, <2>4 DEF CleanInv
  <1>9. CASE WriteBlock
    <2>1. pc' = "verify" /\ UNCHANGED <<size, addr, need, crc, buf>> /\ mem' = Stored(1 .. need)
      BY <1>9 DEF WriteBlock, flash, reading
    <2>2. ReadsFrame("image", d + 1)'
      BY <1>1, <1>4, <1>6, <2>1 DEF ReadsFrame
    <2>3. addr + need <= MemSize
      BY <1>1, <1>5, ChunkTyped, Constants
    <2>4. \A k \in 1 .. need : mem'[(addr + k - 1) % MemSize] = buf[k]
      BY <1>1, <2>1, <2>3, StoredBlock
    <2>5. InStep'
      BY <1>1, <1>2, <1>5, <1>6, <2>1, <2>2, <2>4 DEF InStep
    <2> QED BY <1>4, <2>5 DEF CleanInv
  <1>10. CASE VerifyBlock
    <2>1. buf = [k \in 1 .. need |-> mem[(addr + k - 1) % MemSize]]
      <3>1. \A k \in 1 .. need : mem[(addr + k - 1) % MemSize] = buf[k]
        BY <1>3, <1>10 DEF InStep, VerifyBlock
      <3>2. buf = [k \in 1 .. need |-> buf[k]]
        BY <1>1
      <3> QED BY <3>1, <3>2
    <2>2. Loop(size, addr + BlockSize) /\ size' = size
      BY <1>10, <2>1 DEF VerifyBlock
    <2>3. /\ addr' = addr + BlockSize
          /\ IF addr + BlockSize < size THEN pc' = "crc" /\ need' = Chunk(size, addr + BlockSize) ELSE pc' = "menu"
      BY <2>2 DEF Loop
    <2>4. /\ d \in Nat /\ d + 1 \in Nat /\ addr' = (d + 1) * BlockSize
          /\ (d + 1) * BlockSize \in Nat /\ FrameCount("image") = Blocks /\ Blocks \in Nat
      BY <1>6, <2>3, Multiples, BlocksBound DEF FrameCount
    <2>5. CASE addr + BlockSize < size
      <3>1. (d + 1) * BlockSize < ImageLen
        BY <1>5, <2>3, <2>4, <2>5
      <3>2. /\ FrameLen("image", d + 1 + 1) = Chunk(ImageLen, (d + 1) * BlockSize)
            /\ d + 1 + 1 \in 1 .. Blocks
        BY <2>4, <3>1, ImageFrame
      <3>3. pc' = "crc" /\ need' = FrameLen("image", d + 1 + 1) /\ d + 1 \in 0 .. Blocks
        BY <1>5, <2>3, <2>4, <2>5, <3>2
      <3>4. Coming' = <<"image", d + 1 + 1, 0>>
        BY <1>4, <1>7, <2>4
      <3>5. ReadsFrame("image", d + 1 + 1)'
        BY <2>4, <3>2, <3>3, <3>4 DEF ReadsFrame
      <3>6. InStep'
        BY <1>1, <1>2, <1>5, <2>2, <2>4, <3>3, <3>5 DEF InStep
      <3> QED BY <1>4, <3>6 DEF CleanInv
    <2>6. CASE ~(addr + BlockSize < size)
      <3>1. ~((d + 1) * BlockSize < ImageLen)
        BY <1>5, <2>3, <2>4, <2>6
      <3>2. ~(d + 1 + 1 <= Blocks)
        BY <2>4, <3>1, BlockThere
      <3>3. Blocks = d + 1
        BY <1>7, <2>4, <3>2
      <3>4. pc' = "menu" /\ Coming' = End(up)'
        BY <1>2, <1>4, <1>5, <1>7, <2>3, <2>4, <2>6, <3>3 DEF End, FrameCount
      <3>5. InStep'
        BY <1>1, <1>2, <3>4 DEF InStep, InBlock
      <3> QED BY <1>4, <3>5 DEF CleanInv
    <2> QED BY <2>5, <2>6
  <1> QED BY <1>8, <1>9, <1>10

LEMMA CleanLoad ==
  ASSUME Shape, CleanInv, clean', LoadPiece
  PROVE  CleanInv'
  <1>1. /\ pc = "check" /\ piece \in 1 .. 5 /\ clean /\ UNCHANGED <<up, frame, byte, ring, late>>
        /\ crc' = Altered /\ buf' = <<>>
        /\ IF piece = 5 THEN pc' = "running" /\ piece' = piece
           ELSE /\ pc' = "crc" /\ piece' = piece + 1
                /\ need' \in (IF piece' % 2 = 0 THEN {1} ELSE FileSizes)
    BY DEF LoadPiece, Shape, TypeOK, host, trouble
  <1>2. Regular(up) /\ Unbroken /\ InStep
    BY <1>1 DEF CleanInv
  <1>3. Unbroken' /\ Coming' = Coming /\ Regular(up)'
    BY <1>1, <1>2, SameComing DEF Regular
  <1>4. up \in Programs /\ ReadsFrame(up, piece)
    BY <1>1, <1>2 DEF InStep
  <1>5. /\ up # "image" /\ up # "shell" /\ Len(Segments[up]) = 2 /\ FrameCount(up) = 5
    <2>1. up # "image" /\ up # "shell" /\ Len(Segments[up]) = 2
      BY <1>2, <1>4, UploadNames DEF Regular
    <2> QED BY <2>1 DEF FrameCount
  <1>6. buf = Frame(up, piece) /\ Coming = <<up, piece + 1, 0>>
    BY <1>1, <1>4 DEF ReadsFrame
  <1>7. CASE piece = 5
    <2>1. pc' = "running" /\ piece' = 5
      BY <1>1, <1>7
    <2>2. Coming' = End(up)'
      BY <1>1, <1>3, <1>5, <1>6, <1>7 DEF End, FrameCount
    <2>3. InStep'
      BY <1>1, <1>3, <1>4, <2>1, <2>2 DEF InStep, InBlock
    <2> QED BY <1>3, <2>3 DEF CleanInv
  <1>8. CASE piece # 5
    <2>1. pc' = "crc" /\ piece' = piece + 1 /\ piece' \in 2 .. 5
      BY <1>1, <1>8
    <2>2. need' = FrameLen(up, piece')
      <3>1. CASE piece' % 2 = 0
        <4>1. FrameLen(up, piece') = 1
          BY <1>5, <2>1, <3>1 DEF FrameLen
        <4>2. need' = 1
          BY <1>1, <1>8, <3>1
        <4> QED BY <4>1, <4>2
      <3>2. CASE piece' % 2 # 0
        <4>1. PICK s \in 1 .. 2 : piece = 2 * s /\ piece' \div 2 = s /\ piece % 2 = 0 /\ piece # 1 /\ piece' # 1
          BY <1>1, <2>1, <3>2
        <4>2. FrameLen(up, piece) = 1 /\ FrameLen(up, piece') = Segments[up][s]
          BY <1>5, <3>2, <4>1 DEF FrameLen
        <4>3. Announces(up, s)
          <5>1. Frame(up, piece) = [k \in 1 .. 1 |-> <<up, piece, k>>]
            BY <4>2 DEF Frame
          <5>2. [k \in 1 .. 1 |-> <<up, piece, k>>] = <<<<up, piece, 1>>>>
            OBVIOUS
          <5> QED BY <1>6, <4>1, <5>1, <5>2 DEF Announces
        <4>4. s \in DOMAIN Segments[up]
          <5>1. Segments[up] \in Seq(Nat)
            BY <1>4, UploadAssumption
          <5> QED BY <1>5, <4>1, <5>1
        <4>5. need' \in FileSizes
          BY <1>1, <1>8, <3>2
        <4>6. need' = Segments[up][s]
          BY <1>4, <4>3, <4>4, <4>5 DEF FileSizes
        <4> QED BY <4>2, <4>6
      <3> QED BY <3>1, <3>2
    <2>3. /\ ReadsFrame(up, piece)'
      BY <1>1, <1>3, <1>5, <1>6, <2>1, <2>2 DEF ReadsFrame, FrameCount
    <2>4. InStep'
      BY <1>1, <1>3, <1>4, <2>1, <2>3 DEF InStep, InBlock
    <2> QED BY <1>3, <2>4 DEF CleanInv
  <1> QED BY <1>7, <1>8

LEMMA CleanRest ==
  ASSUME Shape, InTurn, CleanInv, clean', SendUnit \/ SendOverrun \/ SendNoise \/ Back \/ Reset
  PROVE  CleanInv'
  <1>1. CASE SendUnit
    <2>1. clean /\ UNCHANGED <<up, pc, size, addr, piece, need, crc, buf, mem>>
      BY <1>1 DEF SendUnit, Advance, flash, program, reading, trouble
    <2>2. Regular(up) /\ Unbroken /\ InStep
      BY <2>1 DEF CleanInv
    <2>3. Unbroken' /\ Coming' = Coming
      BY <1>1, <2>2, CleanSend DEF Shape
    <2>4. InBlock' <=> InBlock
      BY <2>1 DEF InBlock
    <2>5. ASSUME NEW v, NEW f, ReadsFrame(v, f) PROVE ReadsFrame(v, f)'
      BY <2>1, <2>3, <2>5 DEF ReadsFrame
    <2>6. piece > 0 /\ pc # "running" => ReadsFrame(up, piece)'
      BY <2>1, <2>2, <2>3 DEF InStep, ReadsFrame
    <2>7. InStep'
      BY <2>1, <2>2, <2>3, <2>4, <2>5, <2>6 DEF InStep, Regular, Key, End
    <2> QED BY <2>1, <2>2, <2>3, <2>7 DEF CleanInv, Regular
  <1>2. CASE SendOverrun \/ SendNoise \/ Reset
    BY <1>2 DEF SendOverrun, SendNoise, Reset
  <1>3. CASE Back
    <2>1. /\ clean /\ pc \in {"running", "elsewhere"} /\ pc' = "menu" /\ piece' = 0
          /\ UNCHANGED <<up, frame, byte, ring, late>>
      BY <1>3 DEF Back, NoLoad, host, trouble
    <2>2. Regular(up) /\ Unbroken /\ InStep
      BY <2>1 DEF CleanInv
    <2>3. Unbroken' /\ Coming' = Coming /\ Coming = End(up) /\ End(up)' = End(up)
      BY <2>1, <2>2, SameComing DEF InStep, End
    <2>4. InStep'
      BY <2>1, <2>3 DEF InStep, InBlock
    <2> QED BY <2>1, <2>2, <2>3, <2>4 DEF CleanInv, Regular
  <1> QED BY <1>1, <1>2, <1>3

LEMMA CleanStep ==
  ASSUME Shape, InTurn, CleanInv, [Next]_vars
  PROVE  CleanInv'
  <1> SUFFICES ASSUME clean' PROVE CleanInv'
    BY DEF CleanInv
  <1>1. CASE UNCHANGED vars
    BY <1>1 DEF vars, host, flash, program, reading, trouble, CleanInv, Unbroken, InStep, InBlock,
                Coming, ReadsFrame, Regular, Key, End
  <1>2. CASE \E u \in Uploads : Command(u)
    <2>1. PICK u \in Uploads : Command(u)
      BY <1>2
    <2>2. /\ pc = "menu" /\ pc' = "menu" /\ up' = u /\ frame' = 0 /\ byte' = 1
          /\ Regular(u) /\ piece' = piece /\ clean
          /\ late' = late /\ ring' = IF late THEN <<Altered>> ELSE <<>>
          /\ ~Readable
      BY <2>1 DEF Command, program
    <2>20. ~late
      <3> SUFFICES ASSUME late PROVE FALSE
        BY DEF Shape, TypeOK
      <3>1. ring \in Seq(AllUnits) /\ ring # <<>> /\ up \in Uploads
        BY DEF Shape, TypeOK
      <3>2. Len(ring) = 1 /\ Head(ring) = ring[1]
        BY <2>2, <3>1 DEF Readable
      <3>3. Unbroken /\ InStep
        BY <2>2 DEF CleanInv
      <3>4. ring[1] \in Units(up) /\ ring[1] # Key(up)
        BY <3>2, <3>3 DEF Unbroken, InTurn, Own
      <3>5. ring[1] # End(up)
        BY <3>1, <3>4, UnitShape
      <3> QED BY <2>2, <3>1, <3>2, <3>3, <3>4, <3>5 DEF InStep, Coming
    <2>21. ring' = <<>> /\ ~late'
      BY <2>2, <2>20
    <2>3. piece' = 0 /\ Len(ring') = 0
      BY <2>2, <2>21 DEF Shape, Control
    <2>4. Coming' = Key(up)'
      BY <2>2, <2>21 DEF Coming, Key
    <2>5. InStep'
      BY <2>2, <2>3, <2>4 DEF InStep, InBlock
    <2> QED BY <2>2, <2>21, <2>3, <2>5 DEF CleanInv, Unbroken, Regular
  <1> QED BY <1>1, <1>2, NextCases, CleanMenu, CleanReadSize, CleanFrame, CleanBlock, CleanLoad, CleanRest

LEMMA CleanInit == Init => CleanInv
  <1> SUFFICES ASSUME Init PROVE CleanInv
    OBVIOUS
  <1>1. up = "shell" /\ ring = <<>> /\ ~late /\ pc = "menu" /\ piece = 0 /\ Len(ring) = 0 /\ frame = 1 /\ byte = 0
    BY DEF Init
  <1>2. Regular(up)
    BY <1>1, UploadNames DEF Regular
  <1>3. Coming = End(up)
    BY <1>1 DEF Coming, End, FrameCount
  <1>4. InStep
    BY <1>1, <1>3 DEF InStep, InBlock
  <1> QED BY <1>1, <1>2, <1>4 DEF CleanInv, Unbroken

\* On a clean line the menu takes only keys for choices: every loader reads
\* exactly what the host sends it (kernel.c:157-192; elf.c:66-93;
\* sendtar_crc32.c:69-77; sendelf_crc32.c:62-97).
THEOREM CommandTheorem == Spec => []CommandsAreKeys
  <1>1. Init => InTurn /\ CleanInv
    BY ArrivalInit, CleanInit DEF ArrivalInv
  <1>2. Shape /\ InTurn /\ CleanInv /\ [Next]_vars => CleanInv'
    BY CleanStep
  <1>3. Shape /\ ArrivalInv /\ CleanInv => CommandsAreKeys
    <2> SUFFICES ASSUME Shape, ArrivalInv, CleanInv, clean, pc = "menu", ring # <<>>
                 PROVE  Head(ring) \in {Key(u) : u \in Uploads}
      BY DEF CommandsAreKeys
    <2>1. Unbroken /\ InStep /\ InTurn /\ up \in Uploads /\ ring \in Seq(AllUnits)
      BY DEF CleanInv, ArrivalInv, Shape, TypeOK
    <2>2. Head(ring) = ring[1] /\ 1 \in 1 .. Len(ring)
      BY <2>1
    <2>3. Head(ring) \in Units(up)
      BY <2>1, <2>2 DEF InTurn, Own, Unbroken
    <2>4. Head(ring) \in {Key(up), End(up)}
      BY <2>1 DEF InStep, Coming
    <2>5. Head(ring) # End(up)
      BY <2>1, <2>3, UnitShape
    <2> QED BY <2>1, <2>4, <2>5
  <1>4. Shape /\ ArrivalInv => InTurn
    BY DEF ArrivalInv
  <1> QED BY <1>1, <1>2, <1>3, <1>4, ArrivalTheorem, PTL DEF Spec
=============================================================================

-------------------------- MODULE RingAndCacheProofs --------------------------
(***************************************************************************)
(* The two stores a session answers from.                                  *)
(*                                                                         *)
(* The ring of ShmRing is correct for every capacity, threshold, set of    *)
(* lengths and number of frames: RingInv is inductive, and the safety      *)
(* properties that the runs check follow from it.                          *)
(*                                                                         *)
(* The cache of ResultCache is correct for every capacity, time to live,   *)
(* sample size, set of keys and set of values.                             *)
(***************************************************************************)
EXTENDS ShmRing, ResultCache, FiniteSetTheorems, TLAPS

-----------------------------------------------------------------------------
\* Arithmetic of logical offsets

\* A logical offset is a number of full laps and a place in the ring.
LEMMA LapAndPlace ==
    ASSUME NEW a \in Nat
    PROVE  /\ a \div Cap \in Nat
           /\ a % Cap \in 0 .. Cap - 1
           /\ a = Cap * (a \div Cap) + (a % Cap)
BY CapAssumption

LEMMA PhysType ==
    ASSUME NEW a \in Nat
    PROVE  Phys(a) \in 0 .. Cap - 1
BY LapAndPlace DEF Phys

\* There is no multiple of c strictly between 0 and c.
LEMMA NoMultipleBetween ==
    ASSUME NEW q \in Int, NEW c \in Nat, 0 < c * q, c * q < c
    PROVE  FALSE
<1>1. CASE q <= 0
  BY <1>1
<1>2. CASE q >= 1
  BY <1>2
<1>3. QED BY <1>1, <1>2

\* Bytes less than a lap apart are at different places: the fact on which the
\* "pos + len - tail > cap" test of try_write rests.
LEMMA LessThanALapApart ==
    ASSUME NEW p \in Nat, NEW o \in Nat, NEW i \in Nat, NEW j \in Nat,
           Phys(p) + i < Cap, Phys(o) + j < Cap,
           o + j < p + i, p + i < o + j + Cap
    PROVE  Phys(p) + i # Phys(o) + j
<1> DEFINE q == (p \div Cap) - (o \div Cap)
<1>1. SUFFICES ASSUME Phys(p) + i = Phys(o) + j PROVE FALSE
  OBVIOUS
<1>2. q \in Int
  BY LapAndPlace
<1>3. p + i - (o + j) = Cap * (p \div Cap) - Cap * (o \div Cap)
  BY <1>1, LapAndPlace, CapAssumption DEF Phys
<1>4. Cap * (p \div Cap) - Cap * (o \div Cap) = Cap * q
  BY LapAndPlace, CapAssumption
<1>5. 0 < Cap * q /\ Cap * q < Cap
  BY <1>3, <1>4, CapAssumption
<1>6. QED BY <1>2, <1>5, NoMultipleBetween, CapAssumption

\* Two records within one window of Cap bytes share no byte of the ring.
LEMMA RecordsApart ==
    ASSUME NEW p \in Nat, NEW l \in Nat, NEW o \in Nat, NEW k \in Nat,
           NEW t \in Nat, NEW h \in Nat,
           Phys(p) + l <= Cap, Phys(o) + k <= Cap,
           t <= o, o + k <= h, h <= p, p + l <= t + Cap,
           NEW i \in 0 .. l - 1, NEW j \in 0 .. k - 1
    PROVE  Phys(p) + i # Phys(o) + j
<1>1. /\ Phys(p) \in 0 .. Cap - 1 /\ Phys(o) \in 0 .. Cap - 1
      /\ Cap \in Nat \ {0} /\ i \in Nat /\ j \in Nat /\ i < l /\ j < k
  BY PhysType, CapAssumption
<1>2. Phys(p) + i < Cap /\ Phys(o) + j < Cap
  BY <1>1
<1>3. o + j < p + i /\ p + i < o + j + Cap
  BY <1>1
<1>4. QED BY <1>1, <1>2, <1>3, LessThanALapApart

\* Skipping to the next lap lands at the start of the ring.
LEMMA NextLapStart ==
    ASSUME NEW a \in Nat
    PROVE  /\ a + (Cap - Phys(a)) \in Nat
           /\ Phys(a + (Cap - Phys(a))) = 0
<1>1. /\ a + (Cap - Phys(a)) = Cap * ((a \div Cap) + 1)
      /\ a + (Cap - Phys(a)) \in Nat
  BY LapAndPlace, CapAssumption DEF Phys
<1>2. ASSUME NEW q \in Nat PROVE (Cap * q) % Cap = 0
  <2> DEFINE d == q - ((Cap * q) \div Cap)
  <2>1. Cap * q \in Nat
    BY CapAssumption
  <2>2. (Cap * q) % Cap = Cap * d
    BY <2>1, LapAndPlace, CapAssumption
  <2>3. ~ ((Cap * q) % Cap > 0)
    BY <2>1, <2>2, LapAndPlace, NoMultipleBetween, CapAssumption
  <2>4. QED BY <2>1, <2>3, LapAndPlace
<1>3. QED BY <1>1, <1>2, LapAndPlace, CapAssumption DEF Phys

\* What try_write computes before its test: a place at or behind head where
\* the record lies in one piece.
LEMMA WritePosFits ==
    ASSUME head \in Nat, NEW len \in 1 .. Cap
    PROVE  /\ WritePos(len) \in Nat
           /\ head <= WritePos(len)
           /\ Phys(WritePos(len)) + len <= Cap
<1>0. Phys(head) \in 0 .. Cap - 1 /\ Cap \in Nat \ {0}
  BY PhysType, CapAssumption
<1>1. CASE Phys(head) + len > Cap
  <2>1. /\ head + (Cap - Phys(head)) \in Nat
        /\ Phys(head + (Cap - Phys(head))) = 0
    BY NextLapStart
  <2>2. WritePos(len) = head + (Cap - Phys(head))
    BY <1>1 DEF WritePos
  <2>3. QED BY <1>0, <2>1, <2>2
<1>2. CASE ~(Phys(head) + len > Cap)
  BY <1>0, <1>2 DEF WritePos
<1>3. QED BY <1>1, <1>2

-----------------------------------------------------------------------------
\* The invariant

\* The state a session's ring is created in satisfies the invariant.
THEOREM InitRingInv == Init => RingInv
<1> SUFFICES ASSUME Init PROVE RingInv
  OBVIOUS
<1>1. TypeOK
  BY CapAssumption DEF Init, TypeOK, Idle, ProdState, FrameType
<1>2. QED
  BY <1>1 DEF Init, RingInv, ProdInv, RecordInv, OrderInv, EndInv, ConsInv,
              GotInv, NoBadRef, Unread, Idle

\* The parts of the invariant a queued frame touches.
LEMMA AppendFrame ==
    ASSUME RingInv, NEW f \in FrameType, frames' = Append(frames, f)
    PROVE  /\ frames' \in Seq(FrameType)
           /\ Len(frames') = Len(frames) + 1
           /\ Len(frames) \in Nat
           /\ \A n \in 1 .. Len(frames) : frames'[n] = frames[n]
           /\ frames'[Len(frames) + 1] = f
BY DEF RingInv, TypeOK

LEMMA FrameFields ==
    ASSUME TypeOK, NEW n \in 1 .. Len(frames)
    PROVE  /\ frames[n] \in FrameType
           /\ frames[n].off \in Nat /\ frames[n].len \in Nat
           /\ Phys(frames[n].off) \in 0 .. Cap - 1
<1>1. frames[n] \in FrameType
  BY DEF TypeOK
<1>2. frames[n].off \in Nat /\ frames[n].len \in Nat
  BY <1>1 DEF FrameType
<1>3. QED BY <1>1, <1>2, PhysType

LEMMA SendInlineStep ==
    ASSUME RingInv, NEW len \in Lens, SendInline(len)
    PROVE  RingInv'
<1> DEFINE f == Frame("inline", 0, len)
<1> USE DEF SendInline, RingInv
<1>0. f \in FrameType /\ f.kind = "inline" /\ frames' = Append(frames, f)
  BY LensAssumption DEF FrameType, Frame
<1>1. /\ frames' \in Seq(FrameType)
      /\ Len(frames') = Len(frames) + 1
      /\ Len(frames) \in Nat
      /\ \A n \in 1 .. Len(frames) : frames'[n] = frames[n]
      /\ frames'[Len(frames) + 1] = f
  BY <1>0, AppendFrame
<1>2. \A n \in 1 .. Len(frames') : Unread(n)' => n \in 1 .. Len(frames) /\ Unread(n)
  BY <1>0, <1>1 DEF Unread, TypeOK
<1>2a. \A n \in 1 .. Len(frames) : Unread(n) => Unread(n)'
  BY <1>0, <1>1 DEF Unread, TypeOK
<1>3. TypeOK'
  BY <1>1 DEF TypeOK
<1>4. ProdInv'
  BY DEF ProdInv
<1>5. RecordInv'
  BY <1>1, <1>2 DEF RecordInv
<1>6. OrderInv'
  BY <1>1, <1>2 DEF OrderInv
<1>7. EndInv'
  BY <1>1, <1>2, <1>2a DEF EndInv
<1>8. ConsInv'
  BY <1>1, <1>2a DEF ConsInv, ReadIntact, TypeOK, Unread
<1>9. GotInv'
  BY <1>1 DEF GotInv, TypeOK
<1>10. NoBadRef'
  BY DEF NoBadRef
<1>11. QED BY <1>3, <1>4, <1>5, <1>6, <1>7, <1>8, <1>9, <1>10

LEMMA ReserveStep ==
    ASSUME RingInv, NEW len \in Lens, Reserve(len)
    PROVE  RingInv'
<1> USE DEF Reserve, RingInv
<1>1. len \in 1 .. Cap /\ WritePos(len) + len <= tail + Cap
  <2>1. len \in Nat /\ head \in Nat /\ tail \in Nat /\ Cap \in Nat
    BY LensAssumption, CapAssumption DEF TypeOK
  <2>2. len \in 1 .. Cap
    BY <2>1 DEF UsesRing, HasRoom
  <2>3. WritePos(len) \in Nat
    BY <2>1, <2>2, WritePosFits
  <2>4. QED BY <2>1, <2>2, <2>3 DEF UsesRing, HasRoom
<1>2. /\ WritePos(len) \in Nat /\ head <= WritePos(len)
      /\ Phys(WritePos(len)) + len <= Cap
  BY <1>1, WritePosFits DEF TypeOK
<1>3. TypeOK'
  BY <1>1, <1>2, CapAssumption DEF TypeOK, ProdState
<1>4. ProdInv'
  BY <1>1, <1>2 DEF ProdInv
<1>5. RecordInv' /\ OrderInv' /\ EndInv' /\ ConsInv' /\ GotInv' /\ NoBadRef'
  BY DEF RecordInv, OrderInv, EndInv, ConsInv, GotInv, NoBadRef, Unread, ReadIntact
<1>6. QED BY <1>3, <1>4, <1>5

\* The byte being written is no byte of an unread record.
LEMMA WriteIsApart ==
    ASSUME TypeOK, ProdInv, RecordInv, prod.pc = "copy",
           NEW i \in 0 .. prod.len - 1,
           NEW n \in 1 .. Len(frames), Unread(n),
           NEW j \in 0 .. frames[n].len - 1
    PROVE  Phys(prod.pos) + i # Phys(frames[n].off) + j
<1>1. /\ prod.pos \in Nat /\ prod.len \in Nat
      /\ Phys(prod.pos) + prod.len <= Cap
      /\ head <= prod.pos /\ prod.pos + prod.len <= tail + Cap
  BY DEF TypeOK, ProdState, ProdInv
<1>2. /\ frames[n].off \in Nat /\ frames[n].len \in Nat
      /\ Phys(frames[n].off) + frames[n].len <= Cap
      /\ tail <= frames[n].off /\ frames[n].off + frames[n].len <= head
  BY FrameFields DEF RecordInv
<1>3. head \in Nat /\ tail \in Nat
  BY DEF TypeOK
<1>4. QED BY <1>1, <1>2, <1>3, RecordsApart

LEMMA CopyInStep ==
    ASSUME RingInv, CopyIn
    PROVE  RingInv'
<1> DEFINE a == Phys(prod.pos) + prod.i
<1> USE DEF CopyIn, RingInv
<1>1. /\ prod.pos \in Nat /\ prod.len \in 1 .. Cap
      /\ prod.i \in 0 .. prod.len - 1
      /\ Phys(prod.pos) + prod.len <= Cap
      /\ Phys(prod.pos) \in 0 .. Cap - 1 /\ Cap \in Nat
  BY PhysType, CapAssumption DEF TypeOK, ProdState, ProdInv
<1>2. a \in 0 .. Cap - 1
  BY <1>1
<1>3. /\ buf'[a] = Len(frames) + 1
      /\ \A b \in 0 .. Cap - 1 : b # a => buf'[b] = buf[b]
  BY <1>2 DEF TypeOK
<1>4. TypeOK'
  <2>1. buf' \in [0 .. Cap - 1 -> Nat]
    BY <1>2 DEF TypeOK
  <2>2. prod' \in ProdState
    <3>1. prod \in ProdState /\ prod' = [prod EXCEPT !.i = prod.i + 1]
      BY DEF TypeOK
    <3>2. QED BY ONLY <3>1 DEF ProdState
  <2>3. QED BY <2>1, <2>2 DEF TypeOK
<1>5. ProdInv'
  <2>1. /\ prod'.pc = "copy" /\ prod'.pos = prod.pos /\ prod'.len = prod.len
        /\ prod'.i = prod.i + 1
    BY DEF TypeOK, ProdState
  <2>2. ASSUME NEW i \in 0 .. prod.i
        PROVE  buf'[Phys(prod.pos) + i] = Len(frames) + 1
    <3>1. CASE i = prod.i
      BY <1>3, <3>1
    <3>2. CASE i # prod.i
      <4>1. i \in 0 .. prod.i - 1
        BY <1>1, <3>2
      <4>2. Phys(prod.pos) + i \in 0 .. Cap - 1 /\ Phys(prod.pos) + i # a
        BY <1>1, <3>2, <4>1
      <4>3. buf[Phys(prod.pos) + i] = Len(frames) + 1
        BY <4>1 DEF ProdInv
      <4>4. QED BY <1>3, <4>2, <4>3
    <3>3. QED BY <3>1, <3>2
  <2>3. QED BY <1>1, <2>1, <2>2 DEF ProdInv
<1>6. RecordInv'
  <2>1. ASSUME NEW n \in 1 .. Len(frames), Unread(n),
               NEW j \in 0 .. frames[n].len - 1
        PROVE  buf'[Phys(frames[n].off) + j] = n
    <3>1. Phys(frames[n].off) + j # a
      BY <1>1, <2>1, WriteIsApart
    <3>2. Phys(frames[n].off) + j \in 0 .. Cap - 1
      <4>1. /\ Phys(frames[n].off) \in 0 .. Cap - 1 /\ frames[n].len \in Nat
            /\ Phys(frames[n].off) + frames[n].len <= Cap
        BY <2>1, FrameFields DEF RecordInv
      <4>2. QED BY <4>1, CapAssumption
    <3>3. buf[Phys(frames[n].off) + j] = n
      BY <2>1 DEF RecordInv
    <3>4. QED BY <1>3, <3>1, <3>2, <3>3
  <2>2. QED BY <2>1 DEF RecordInv, Unread
<1>7. OrderInv' /\ EndInv' /\ ConsInv' /\ GotInv' /\ NoBadRef'
  BY DEF OrderInv, EndInv, ConsInv, GotInv, NoBadRef, Unread, ReadIntact
<1>8. QED BY <1>4, <1>5, <1>6, <1>7

LEMMA PublishStep ==
    ASSUME RingInv, Publish
    PROVE  RingInv'
<1> DEFINE f == Frame("ref", prod.pos, prod.len)
<1> USE DEF Publish, RingInv
<1>1. /\ prod.pos \in Nat /\ prod.len \in 1 .. Cap
      /\ Phys(prod.pos) + prod.len <= Cap
      /\ head <= prod.pos /\ prod.pos + prod.len <= tail + Cap
      /\ head \in Nat /\ tail \in Nat /\ tail <= head /\ Cap \in Nat
      /\ \A j \in 0 .. prod.len - 1 : buf[Phys(prod.pos) + j] = Len(frames) + 1
  BY CapAssumption DEF TypeOK, ProdState, ProdInv
<1>2. /\ f \in FrameType /\ frames' = Append(frames, f)
      /\ f.kind = "ref" /\ f.off = prod.pos /\ f.len = prod.len
  BY <1>1 DEF FrameType, Frame
<1>3. /\ frames' \in Seq(FrameType)
      /\ Len(frames') = Len(frames) + 1
      /\ Len(frames) \in Nat
      /\ \A n \in 1 .. Len(frames) : frames'[n] = frames[n]
      /\ frames'[Len(frames) + 1] = f
  BY <1>2, AppendFrame
<1>4. /\ \A n \in 1 .. Len(frames) : Unread(n)' <=> Unread(n)
      /\ \A n \in {Len(frames) + 1} : Unread(n)'
  <2>1. taken \in Nat /\ taken <= Len(frames) /\ taken' = taken
    BY DEF TypeOK
  <2>2. \A n \in 1 .. Len(frames) : Unread(n)' <=> Unread(n)
    BY <1>3, <2>1 DEF Unread
  <2>3. /\ Len(frames) + 1 \in taken' + 1 .. Len(frames')
        /\ frames'[Len(frames) + 1].kind = "ref"
    BY <1>2, <1>3, <2>1
  <2>4. QED BY <2>2, <2>3 DEF Unread
<1>5. TypeOK'
  <2>1. head' \in Nat /\ tail' <= head'
    BY <1>1
  <2>2. prod' \in ProdState
    BY DEF ProdState, Idle
  <2>3. taken' <= Len(frames')
    BY <1>3 DEF TypeOK
  <2>4. QED BY <1>3, <2>1, <2>2, <2>3 DEF TypeOK
<1>6. ProdInv'
  BY DEF ProdInv, Idle
<1>7. RecordInv'
  <2>1. ASSUME NEW n \in 1 .. Len(frames), Unread(n)
        PROVE  /\ frames[n].len \in 1 .. Cap
               /\ Phys(frames[n].off) + frames[n].len <= Cap
               /\ tail <= frames[n].off /\ frames[n].off + frames[n].len <= head'
               /\ \A j \in 0 .. frames[n].len - 1 : buf[Phys(frames[n].off) + j] = n
    <3>1. /\ frames[n].off \in Nat /\ frames[n].len \in Nat
          /\ frames[n].off + frames[n].len <= head
      BY <2>1, FrameFields DEF RecordInv
    <3>2. head <= head' /\ head' \in Nat /\ head \in Nat
      BY <1>1
    <3>3. frames[n].off + frames[n].len <= head'
      BY ONLY <3>1, <3>2
    <3>4. QED BY <2>1, <3>3 DEF RecordInv
  <2>2. /\ f.len \in 1 .. Cap /\ Phys(f.off) + f.len <= Cap
        /\ tail <= f.off /\ f.off + f.len <= head'
        /\ \A j \in 0 .. f.len - 1 : buf[Phys(f.off) + j] = Len(frames) + 1
    BY <1>1, <1>2
  <2>3. QED BY <1>3, <1>4, <2>1, <2>2 DEF RecordInv
<1>8. OrderInv'
  <2>1. ASSUME NEW n \in 1 .. Len(frames), Unread(n)
        PROVE  frames[n].off + frames[n].len <= f.off
    <3>1. /\ frames[n].off \in Nat /\ frames[n].len \in Nat
          /\ frames[n].off + frames[n].len <= head
      BY <2>1, FrameFields DEF RecordInv
    <3>2. head \in Nat /\ f.off \in Nat /\ head <= f.off
      BY <1>1, <1>2
    <3>3. QED BY ONLY <3>1, <3>2
  <2>2. QED BY <1>3, <1>4, <2>1 DEF OrderInv
<1>9. EndInv'
  <2>1. f.off + f.len = head'
    BY <1>2
  <2>2. Len(frames) + 1 \in 1 .. Len(frames')
    BY <1>3
  <2>3. \A n \in 1 .. Len(frames) : Len(frames) + 1 \in n + 1 .. Len(frames')
    BY <1>3
  <2>4. \E n \in 1 .. Len(frames') : Unread(n)'
    BY <1>4, <2>2
  <2>5. ASSUME NEW n \in 1 .. Len(frames'), Unread(n)',
               \A m \in n + 1 .. Len(frames') : ~Unread(m)'
        PROVE  n = Len(frames) + 1
    BY <1>3, <1>4, <2>3, <2>5
  <2>6. QED BY <1>3, <2>1, <2>4, <2>5 DEF EndInv
<1>10. ConsInv'
  <2>1. cons' = cons /\ taken' = taken
    OBVIOUS
  <2>2. cons.pc = "copy" => taken + 1 \in 1 .. Len(frames)
    BY DEF ConsInv, Unread, TypeOK
  <2>3. cons.pc = "copy" => Unread(taken + 1)' /\ frames'[taken + 1] = frames[taken + 1]
    BY <1>3, <1>4, <2>1, <2>2 DEF ConsInv
  <2>4. ReadIntact => ReadIntact'
    BY <2>1 DEF ReadIntact
  <2>5. QED BY <2>1, <2>3, <2>4 DEF ConsInv
<1>11. GotInv'
  BY <1>3 DEF GotInv, TypeOK
<1>12. NoBadRef'
  BY DEF NoBadRef
<1>13. QED BY <1>5, <1>6, <1>7, <1>8, <1>9, <1>10, <1>11, <1>12

-----------------------------------------------------------------------------
\* Consumer steps

\* The unread frames after the oldest one has been taken.
LEMMA OneTaken ==
    ASSUME TypeOK, taken < Len(frames), frames' = frames, taken' = taken + 1
    PROVE  /\ taken' \in Nat /\ taken' <= Len(frames')
           /\ \A n \in 1 .. Len(frames) :
                 Unread(n)' <=> Unread(n) /\ n # taken + 1
<1>1. taken \in Nat /\ Len(frames) \in Nat
  BY DEF TypeOK
<1>2. taken' \in Nat /\ taken' <= Len(frames')
  BY <1>1
<1>3. ASSUME NEW n \in 1 .. Len(frames)
      PROVE  n \in taken' + 1 .. Len(frames) <=>
                 n \in taken + 1 .. Len(frames) /\ n # taken + 1
  BY <1>1
<1>4. QED BY <1>2, <1>3 DEF Unread

\* Appending the payload of the frame that was taken keeps GotInv.
LEMMA GotAppend ==
    ASSUME TypeOK, GotInv, taken < Len(frames), frames' = frames,
           taken' = taken + 1, NEW p, p \in Seq(Nat),
           p = Payload(taken + 1, frames[taken + 1].len),
           got' = Append(got, p)
    PROVE  GotInv' /\ got' \in Seq(Seq(Nat))
<1>1. /\ got \in Seq(Seq(Nat)) /\ Len(got) = taken /\ taken \in Nat
      /\ \A n \in 1 .. taken : got[n] = Payload(n, frames[n].len)
  BY DEF TypeOK, GotInv
<1>2. /\ got' \in Seq(Seq(Nat)) /\ Len(got') = taken + 1
      /\ \A n \in 1 .. taken : got'[n] = got[n]
      /\ got'[taken + 1] = p
  BY <1>1
<1>3. QED BY <1>1, <1>2 DEF GotInv

LEMMA TakeInlineStep ==
    ASSUME RingInv, TakeInline
    PROVE  RingInv'
<1> DEFINE p == Payload(taken + 1, Current.len)
<1> USE DEF TakeInline, HaveFrame, RingInv
<1>1. /\ taken \in Nat /\ taken < Len(frames) /\ taken + 1 \in 1 .. Len(frames)
      /\ cons.pc = "idle" /\ Len(frames) \in Nat
  BY DEF TypeOK
<1>2. /\ taken' \in Nat /\ taken' <= Len(frames')
      /\ \A n \in 1 .. Len(frames) : Unread(n)' <=> Unread(n) /\ n # taken + 1
  BY <1>1, OneTaken
<1>3. ~Unread(taken + 1)
  BY DEF Current, Unread
<1>4. \A n \in 1 .. Len(frames) : Unread(n)' <=> Unread(n)
  BY <1>2, <1>3
<1>5. p \in Seq(Nat)
  <2>1. Current.len \in Nat
    BY <1>1, FrameFields DEF Current
  <2>2. \A j \in 1 .. Current.len : taken + 1 \in Nat
    BY <1>1
  <2>3. QED BY <2>1, <2>2 DEF Payload
<1>6. GotInv' /\ got' \in Seq(Seq(Nat))
  BY <1>1, <1>5, GotAppend DEF Current
<1>7. TypeOK'
  BY <1>2, <1>6 DEF TypeOK
<1>8. ProdInv'
  BY DEF ProdInv
<1>9. RecordInv' /\ OrderInv'
  BY <1>4 DEF RecordInv, OrderInv
<1>10. EndInv'
  <2>1. ASSUME NEW n \in 1 .. Len(frames)
        PROVE  \A m \in n + 1 .. Len(frames) : m \in 1 .. Len(frames)
    BY <1>1
  <2>2. QED BY <1>4, <2>1 DEF EndInv
<1>11. ConsInv' /\ NoBadRef'
  BY <1>1 DEF ConsInv, NoBadRef
<1>12. QED BY <1>6, <1>7, <1>8, <1>9, <1>10, <1>11

LEMMA TakeRefStep ==
    ASSUME RingInv, TakeRef
    PROVE  RingInv'
<1> USE DEF TakeRef, HaveFrame, RingInv
<1>1. /\ taken \in Nat /\ taken + 1 \in taken + 1 .. Len(frames)
      /\ taken + 1 \in 1 .. Len(frames)
  BY DEF TypeOK
<1>2. Unread(taken + 1)
  BY <1>1 DEF Unread, Current
<1>3. RefAccepted(Current)
  <2>1. /\ Current.len \in 1 .. Cap
        /\ Phys(Current.off) + Current.len <= Cap
        /\ Current.off + Current.len <= head
    BY <1>1, <1>2 DEF RecordInv, Current
  <2>2. QED BY <2>1, CapAssumption DEF RefAccepted
<1>4. cons' = [pc |-> "copy", out |-> << >>]
  BY <1>3
<1>5. TypeOK'
  BY <1>4 DEF TypeOK
<1>6. ConsInv'
  <2>1. \A n \in 1 .. Len(frames) : Unread(n)' <=> Unread(n)
    BY DEF Unread
  <2>2. Len(cons'.out) = 0 /\ 0 <= frames[taken + 1].len
    BY <1>1, <1>4, FrameFields
  <2>3. QED BY <1>1, <1>2, <1>4, <2>1, <2>2 DEF ConsInv, ReadIntact, Unread
<1>7. ProdInv' /\ RecordInv' /\ OrderInv' /\ EndInv' /\ GotInv'
  BY DEF ProdInv, RecordInv, OrderInv, EndInv, GotInv, Unread
<1>8. NoBadRef'
  BY <1>4 DEF NoBadRef
<1>9. QED BY <1>5, <1>6, <1>7, <1>8

LEMMA CopyOutStep ==
    ASSUME RingInv, CopyOut
    PROVE  RingInv'
<1> DEFINE b == buf[Phys(Current.off) + Len(cons.out)]
<1> USE DEF CopyOut, RingInv
<1>1. /\ taken \in Nat /\ taken + 1 \in 1 .. Len(frames) /\ Unread(taken + 1)
      /\ cons.out \in Seq(Nat) /\ Len(cons.out) \in Nat
      /\ Len(cons.out) < frames[taken + 1].len
      /\ frames[taken + 1].len \in Nat
  <2>1. taken \in Nat /\ cons.out \in Seq(Nat)
    BY DEF TypeOK
  <2>2. Unread(taken + 1) /\ Len(cons.out) < frames[taken + 1].len
    BY DEF ConsInv, Current
  <2>3. taken + 1 \in 1 .. Len(frames)
    BY <2>1, <2>2 DEF Unread
  <2>4. QED BY <2>1, <2>2, <2>3, FrameFields
<1>2. Len(cons.out) \in 0 .. frames[taken + 1].len - 1
  BY ONLY <1>1
<1>3. b = taken + 1
  BY <1>1, <1>2 DEF RecordInv, Current
<1>4. cons' = [cons EXCEPT !.out = Append(cons.out, b)]
  OBVIOUS
<1>5. /\ cons'.pc = "copy" /\ cons'.out = Append(cons.out, taken + 1)
      /\ cons' \in [pc : {"idle", "copy", "failed"}, out : Seq(Nat)]
  <2>1. cons \in [pc : {"idle", "copy", "failed"}, out : Seq(Nat)]
    BY DEF TypeOK
  <2>2. Append(cons.out, b) = Append(cons.out, taken + 1)
    BY <1>3
  <2>3. Append(cons.out, taken + 1) \in Seq(Nat) /\ cons.pc = "copy"
    BY <1>1
  <2>4. QED BY ONLY <1>4, <2>1, <2>2, <2>3
<1>6. /\ Len(cons'.out) = Len(cons.out) + 1
      /\ \A j \in 1 .. Len(cons.out) : cons'.out[j] = cons.out[j]
      /\ cons'.out[Len(cons.out) + 1] = taken + 1
  BY <1>1, <1>5
<1>7. TypeOK'
  BY <1>5 DEF TypeOK
<1>8. ConsInv'
  <2>1. \A n \in 1 .. Len(frames) : Unread(n)' <=> Unread(n)
    BY DEF Unread
  <2>2. \A j \in 1 .. Len(cons'.out) : cons'.out[j] = taken + 1
    BY <1>1, <1>6 DEF ConsInv, ReadIntact
  <2>3. Len(cons'.out) <= frames[taken + 1].len
    BY <1>1, <1>6
  <2>4. QED BY <1>1, <2>1, <2>2, <2>3 DEF ConsInv, ReadIntact, Unread
<1>9. ProdInv' /\ RecordInv' /\ OrderInv' /\ EndInv' /\ GotInv'
  BY DEF ProdInv, RecordInv, OrderInv, EndInv, GotInv, Unread
<1>10. NoBadRef'
  BY <1>5 DEF NoBadRef
<1>11. QED BY <1>7, <1>8, <1>9, <1>10

\* What a release finds: the record read is the oldest unread one, and tail
\* moves forward to its end.
LEMMA ReleaseFacts ==
    ASSUME RingInv, Release
    PROVE  /\ taken \in Nat /\ taken < Len(frames) /\ taken + 1 \in 1 .. Len(frames)
           /\ Unread(taken + 1)
           /\ head \in Nat /\ tail \in Nat /\ tail' \in Nat
           /\ tail' = frames[taken + 1].off + frames[taken + 1].len
           /\ tail <= tail' /\ tail' <= head
           /\ cons.out = Payload(taken + 1, frames[taken + 1].len)
<1> USE DEF Release, ReleaseTo, RingInv
<1>1. /\ taken \in Nat /\ Unread(taken + 1) /\ head \in Nat /\ tail \in Nat
      /\ cons.out \in Seq(Nat)
  BY DEF TypeOK, ConsInv
<1>2. taken + 1 \in 1 .. Len(frames) /\ taken < Len(frames)
  BY <1>1 DEF Unread
<1>3. /\ frames[taken + 1].off \in Nat /\ frames[taken + 1].len \in Nat
      /\ tail <= frames[taken + 1].off
      /\ frames[taken + 1].off + frames[taken + 1].len <= head
  BY <1>1, <1>2, FrameFields DEF RecordInv
<1>4. tail' = frames[taken + 1].off + frames[taken + 1].len
  BY DEF Current
<1>5. tail' \in Nat /\ tail <= tail' /\ tail' <= head
  BY ONLY <1>1, <1>3, <1>4
<1>6. cons.out = Payload(taken + 1, frames[taken + 1].len)
  <2>1. /\ Len(cons.out) = frames[taken + 1].len
        /\ \A j \in 1 .. Len(cons.out) : cons.out[j] = taken + 1
    BY DEF ConsInv, ReadIntact, Current
  <2>2. cons.out = [j \in 1 .. Len(cons.out) |-> cons.out[j]]
    BY ONLY <1>1
  <2>3. [j \in 1 .. Len(cons.out) |-> cons.out[j]] =
            [j \in 1 .. frames[taken + 1].len |-> taken + 1]
    BY <2>1
  <2>4. QED BY <2>2, <2>3 DEF Payload
<1>7. QED BY <1>1, <1>2, <1>4, <1>5, <1>6

LEMMA ReleaseStep ==
    ASSUME RingInv, Release
    PROVE  RingInv'
<1>1. /\ taken \in Nat /\ taken < Len(frames) /\ taken + 1 \in 1 .. Len(frames)
      /\ Unread(taken + 1)
      /\ head \in Nat /\ tail \in Nat /\ tail' \in Nat
      /\ tail' = frames[taken + 1].off + frames[taken + 1].len
      /\ tail <= tail' /\ tail' <= head
      /\ cons.out = Payload(taken + 1, frames[taken + 1].len)
  BY ReleaseFacts
<1> USE DEF Release, ReleaseTo, RingInv
<1>2. /\ taken' \in Nat /\ taken' <= Len(frames')
      /\ \A n \in 1 .. Len(frames) : Unread(n)' <=> Unread(n) /\ n # taken + 1
  BY <1>1, OneTaken
<1>3. GotInv' /\ got' \in Seq(Seq(Nat))
  <2>1. cons.out \in Seq(Nat) /\ got' = Append(got, cons.out)
    BY DEF TypeOK
  <2>2. QED BY <1>1, <2>1, GotAppend
<1>4. TypeOK'
  BY <1>1, <1>2, <1>3 DEF TypeOK
<1>5. ProdInv'
  <2>1. ASSUME prod.pc = "copy" PROVE prod.pos + prod.len <= tail' + Cap
    <3>1. /\ prod.pos + prod.len \in Nat /\ Cap \in Nat
          /\ prod.pos + prod.len <= tail + Cap
      BY <2>1, CapAssumption DEF TypeOK, ProdState, ProdInv
    <3>2. QED BY <1>1, <3>1
  <2>2. QED BY <2>1 DEF ProdInv
<1>6. RecordInv'
  <2>1. ASSUME NEW n \in 1 .. Len(frames), Unread(n)' PROVE tail' <= frames[n].off
    <3>1. Unread(n) /\ taken + 1 < n
      BY <1>1, <1>2, <2>1 DEF Unread
    <3>2. QED BY <1>1, <3>1 DEF OrderInv
  <2>2. QED BY <1>2, <2>1 DEF RecordInv
<1>7. OrderInv'
  BY <1>2 DEF OrderInv
<1>8. EndInv'
  <2>1. \A n \in 1 .. Len(frames) : \A m \in n + 1 .. Len(frames) :
            m \in 1 .. Len(frames) /\ (n = taken + 1 => m # taken + 1)
    BY <1>1
  <2>2. \A n \in 1 .. Len(frames) :
            Unread(n) => n = taken + 1 \/ taken + 1 \notin n + 1 .. Len(frames)
    BY <1>1 DEF Unread
  <2>3. ASSUME \A n \in 1 .. Len(frames) : ~Unread(n)' PROVE tail' = head
    BY <1>1, <1>2, <2>1, <2>3 DEF EndInv
  <2>4. ASSUME NEW n \in 1 .. Len(frames), Unread(n)',
               \A m \in n + 1 .. Len(frames) : ~Unread(m)'
        PROVE  frames[n].off + frames[n].len = head
    BY <1>2, <2>1, <2>2, <2>4 DEF EndInv
  <2>5. QED BY <2>3, <2>4 DEF EndInv
<1>9. ConsInv' /\ NoBadRef'
  BY DEF ConsInv, NoBadRef
<1>10. QED BY <1>3, <1>4, <1>5, <1>6, <1>7, <1>8, <1>9

-----------------------------------------------------------------------------
\* Theorems

\* No step of either end breaks the invariant.
THEOREM NextRingInv == RingInv /\ [Next]_vars => RingInv'
<1> SUFFICES ASSUME RingInv, [Next]_vars PROVE RingInv'
  OBVIOUS
<1>1. CASE CopyIn
  BY <1>1, CopyInStep
<1>2. CASE Publish
  BY <1>2, PublishStep
<1>3. ASSUME NEW len \in Lens, SendInline(len) PROVE RingInv'
  BY <1>3, SendInlineStep
<1>4. ASSUME NEW len \in Lens, Reserve(len) PROVE RingInv'
  BY <1>4, ReserveStep
<1>5. CASE TakeInline
  BY <1>5, TakeInlineStep
<1>6. CASE TakeRef
  BY <1>6, TakeRefStep
<1>7. CASE CopyOut
  BY <1>7, CopyOutStep
<1>8. CASE Release
  BY <1>8, ReleaseStep
<1>9. CASE UNCHANGED vars
  BY <1>9 DEF vars, RingInv, TypeOK, ProdInv, RecordInv, OrderInv, EndInv,
              ConsInv, GotInv, NoBadRef, Unread, ReadIntact
<1>10. QED
  BY <1>1, <1>2, <1>3, <1>4, <1>5, <1>6, <1>7, <1>8, <1>9
  DEF Next, Produce, Consume

\* The invariant holds in every reachable state, whatever the capacity of the
\* ring, the threshold and the sequence of payload lengths.
THEOREM RingCorrect == Spec => []RingInv
BY InitRingInv, NextRingInv, PTL DEF Spec

\* The cursors and frames keep their types, and tail never passes head.
THEOREM TypeCorrect == Spec => []TypeOK
<1>1. RingInv => TypeOK
  BY DEF RingInv
<1>2. QED BY <1>1, RingCorrect, PTL

\* The server never writes a byte of a record that the client has yet to
\* read: the unsynchronised copies of shm.rs do not race.
THEOREM WritesNeverOverlap == Spec => []NoOverlap
<1>1. RingInv => NoOverlap
  BY WriteIsApart DEF RingInv, NoOverlap
<1>2. QED BY <1>1, RingCorrect, PTL

\* What the client copies out is the record that its frame refers to.
THEOREM ReadsAreIntact == Spec => []ReadIntact
<1>1. RingInv => ReadIntact
  BY DEF RingInv, ConsInv, ReadIntact
<1>2. QED BY <1>1, RingCorrect, PTL

\* The client never answers a server's reference with "invalid shm ref".
THEOREM RefsAreAccepted == Spec => []NoBadRef
<1>1. RingInv => NoBadRef
  BY DEF RingInv
<1>2. QED BY <1>1, RingCorrect, PTL

\* A drained ring has room for every record of up to half its capacity.
THEOREM HalfAlwaysFits == Spec => []DrainedRingTakesHalf
<1>1. ASSUME RingInv, prod.pc = "idle", taken = Len(frames),
             NEW len \in Lens, len > 0, 2 * len <= Cap
      PROVE  HasRoom(len)
  <2>1. head \in Nat /\ tail = head /\ len \in Nat /\ Cap \in Nat \ {0}
    BY <1>1, CapAssumption, LensAssumption DEF RingInv, TypeOK, EndInv, Unread
  <2>2. Phys(head) \in 0 .. Cap - 1
    BY <2>1, PhysType
  <2>3. CASE Phys(head) + len > Cap
    <3>1. WritePos(len) = head + (Cap - Phys(head))
      BY <2>3 DEF WritePos
    <3>2. WritePos(len) + len - head <= Cap /\ len <= Cap
      BY <1>1, <2>1, <2>2, <2>3, <3>1
    <3>3. QED BY <1>1, <2>1, <3>2 DEF HasRoom
  <2>4. CASE ~(Phys(head) + len > Cap)
    <3>1. WritePos(len) = head
      BY <2>4 DEF WritePos
    <3>2. WritePos(len) + len - head <= Cap /\ len <= Cap
      BY <1>1, <2>1, <3>1
    <3>3. QED BY <1>1, <2>1, <3>2 DEF HasRoom
  <2>5. QED BY <2>3, <2>4
<1>2. RingInv => DrainedRingTakesHalf
  BY <1>1 DEF DrainedRingTakesHalf
<1>3. QED BY <1>2, RingCorrect, PTL

\* No cursor ever moves backwards: released space is never claimed again by
\* the reader, nor published space by the writer.
THEOREM CursorsOnlyAdvance == Spec => CursorsMonotone
<1>1. ASSUME RingInv, [Next]_vars PROVE head' >= head /\ tail' >= tail
  <2>1. head \in Nat /\ tail \in Nat
    BY <1>1 DEF RingInv, TypeOK
  <2>2. CASE Publish
    <3>1. prod.pos \in Nat /\ prod.len \in Nat /\ head <= prod.pos
      BY <1>1, <2>2 DEF Publish, RingInv, TypeOK, ProdState, ProdInv
    <3>2. QED BY <2>1, <2>2, <3>1 DEF Publish
  <2>3. CASE Release
    <3>1. tail <= tail' /\ tail' \in Nat /\ head' = head
      BY <1>1, <2>3, ReleaseFacts DEF Release, ReleaseTo
    <3>2. QED BY <2>1, <3>1
  <2>4. CASE ~Publish /\ ~Release
    BY <1>1, <2>1, <2>4
    DEF Next, Produce, Consume, CopyIn, SendInline, Reserve, TakeInline,
        TakeRef, CopyOut, vars
  <2>5. QED BY <2>2, <2>3, <2>4
<1>2. RingInv /\ [Next]_vars => [head' >= head /\ tail' >= tail]_vars
  BY <1>1
<1>3. QED BY <1>2, RingCorrect, PTL DEF Spec, CursorsMonotone

-----------------------------------------------------------------------------
\* The ring implements the channel

Sent == [n \in 1 .. Len(frames) |-> Payload(n, frames[n].len)]

LEMMA PayloadType ==
    ASSUME NEW n \in Nat, NEW len \in Nat
    PROVE  Payload(n, len) \in Seq(Nat)
BY DEF Payload

LEMMA SentType ==
    ASSUME TypeOK
    PROVE  Sent \in Seq(Seq(Nat)) /\ Len(Sent) = Len(frames)
<1>1. Len(frames) \in Nat
  BY DEF TypeOK
<1>2. ASSUME NEW n \in 1 .. Len(frames)
      PROVE  Payload(n, frames[n].len) \in Seq(Nat)
  <2>1. n \in Nat /\ frames[n].len \in Nat
    BY <1>1, FrameFields
  <2>2. QED BY <2>1, PayloadType
<1>3. QED BY <1>1, <1>2 DEF Sent

\* Queueing a frame for a payload is the abstract Send.
LEMMA SendsPayload ==
    ASSUME TypeOK, NEW f \in FrameType, frames' = Append(frames, f),
           got' = got, f.len \in Lens
    PROVE  Channel!Send(f.len)
<1> DEFINE p == Payload(Len(frames) + 1, f.len)
<1>1. /\ Len(frames) \in Nat /\ Len(frames') = Len(frames) + 1
      /\ \A n \in 1 .. Len(frames) : frames'[n] = frames[n]
      /\ frames'[Len(frames) + 1] = f
  BY DEF TypeOK
<1>2. p \in Seq(Nat) /\ Sent \in Seq(Seq(Nat)) /\ Len(Sent) = Len(frames)
  <2>1. Len(frames) + 1 \in Nat /\ f.len \in Nat
    BY <1>1 DEF FrameType
  <2>2. p \in Seq(Nat)
    BY <2>1, PayloadType
  <2>3. QED BY <2>2, SentType
<1>3. /\ Append(Sent, p) = [n \in 1 .. Len(frames) + 1 |->
                                IF n = Len(frames) + 1 THEN p ELSE Sent[n]]
  BY <1>1, <1>2
<1>4. Sent' = [n \in 1 .. Len(frames) + 1 |->
                   IF n = Len(frames) + 1 THEN p ELSE Sent[n]]
  <2>1. Sent' = [n \in 1 .. Len(frames) + 1 |-> Payload(n, frames'[n].len)]
    BY <1>1 DEF Sent
  <2>2. ASSUME NEW n \in 1 .. Len(frames) + 1
        PROVE  Payload(n, frames'[n].len) =
                   IF n = Len(frames) + 1 THEN p ELSE Sent[n]
    <3>1. CASE n = Len(frames) + 1
      BY <1>1, <3>1
    <3>2. CASE n # Len(frames) + 1
      <4>1. n \in 1 .. Len(frames)
        BY <1>1, <3>2
      <4>2. QED BY <1>1, <3>2, <4>1 DEF Sent
    <3>3. QED BY <3>1, <3>2
  <2>3. QED BY <2>1, <2>2
<1>5. Sent' = Append(Sent, p)
  BY <1>3, <1>4
<1>6. QED BY <1>2, <1>5 DEF Channel!Send, Sent

\* Handing the next payload to the client is the abstract Receive.
LEMMA ReceivesPayload ==
    ASSUME TypeOK, GotInv, taken < Len(frames), frames' = frames,
           got' = Append(got, Payload(taken + 1, frames[taken + 1].len))
    PROVE  Channel!Receive
<1>1. /\ Len(got) = taken /\ taken + 1 \in 1 .. Len(frames)
      /\ Len(Sent) = Len(frames)
  BY SentType DEF TypeOK, GotInv
<1>2. Sent[taken + 1] = Payload(taken + 1, frames[taken + 1].len)
  BY <1>1 DEF Sent
<1>3. Sent' = Sent
  BY DEF Sent
<1>4. QED BY <1>1, <1>2, <1>3 DEF Channel!Receive, Sent

\* With its fallback, its lap skips and its byte-wise copies, one direction of
\* the shared-memory channel behaves as a FIFO queue of intact payloads.
THEOREM RingIsChannel == Spec => Channel!Safety
<1>1. Init => Channel!Init
  BY DEF Init, Channel!Init
<1>2. ASSUME RingInv, [Next]_vars PROVE [Channel!Next]_(Channel!vars)
  <2>0. TypeOK /\ GotInv /\ Len(frames) \in Nat
    BY <1>2 DEF RingInv, TypeOK
  <2>1. ASSUME NEW len \in Lens, SendInline(len) PROVE Channel!Next
    <3>1. /\ Frame("inline", 0, len) \in FrameType
          /\ Frame("inline", 0, len).len = len
      BY LensAssumption DEF Frame, FrameType
    <3>2. Channel!Send(len)
      BY <2>0, <2>1, <3>1, SendsPayload DEF SendInline
    <3>3. QED BY <3>2 DEF Channel!Next
  <2>2. CASE Publish
    <3>1. /\ Frame("ref", prod.pos, prod.len) \in FrameType
          /\ Frame("ref", prod.pos, prod.len).len = prod.len
      BY <2>0 DEF Frame, FrameType, TypeOK, ProdState
    <3>2. prod.len \in Lens
      BY <1>2, <2>2 DEF Publish, RingInv, ProdInv
    <3>3. Channel!Send(prod.len)
      BY <2>0, <2>2, <3>1, <3>2, SendsPayload DEF Publish
    <3>4. QED BY <3>2, <3>3 DEF Channel!Next
  <2>3. CASE TakeInline
    <3>1. Channel!Receive
      BY <2>0, <2>3, ReceivesPayload DEF TakeInline, HaveFrame, Current
    <3>2. QED BY <3>1 DEF Channel!Next
  <2>4. CASE Release
    <3>1. /\ taken < Len(frames) /\ cons.out = Payload(taken + 1, frames[taken + 1].len)
          /\ frames' = frames /\ got' = Append(got, cons.out)
      BY <1>2, <2>4, ReleaseFacts DEF Release, ReleaseTo
    <3>2. Channel!Receive
      BY <2>0, <3>1, ReceivesPayload
    <3>3. QED BY <3>2 DEF Channel!Next
  <2>5. CASE CopyIn \/ TakeRef \/ CopyOut \/ UNCHANGED vars
    BY <2>5 DEF CopyIn, TakeRef, CopyOut, vars, Channel!vars
  <2>6. ASSUME NEW len \in Lens, Reserve(len) PROVE UNCHANGED Channel!vars
    BY <2>6 DEF Reserve, Channel!vars
  <2>7. QED
    BY <1>2, <2>1, <2>2, <2>3, <2>4, <2>5, <2>6 DEF Next, Produce, Consume
<1>3. QED BY <1>1, <1>2, RingCorrect, PTL DEF Spec, Channel!Safety

-----------------------------------------------------------------------------
\* The cache

\* What a method may leave in the map: entries that were in it, but for k's.
OnlyDrops(m) == DOMAIN m \subseteq DOMAIN map /\ \A j \in DOMAIN m : m[j] = map[j]

LEMMA WithoutDrops ==
    ASSUME NEW k
    PROVE  OnlyDrops(Without(map, k)) /\ DOMAIN Without(map, k) = DOMAIN map \ {k}
BY DEF OnlyDrops, Without

-----------------------------------------------------------------------------
\* A full cache keeps only what was in it, and gets room for one entry.
LEMMA EvictionMakesRoom ==
    ASSUME CacheInv, NEW m \in AfterEviction, NEW k, k \notin DOMAIN map
    PROVE  /\ OnlyDrops(m) /\ IsFiniteSet(DOMAIN m)
           /\ Cardinality(DOMAIN m) = Cardinality(DOMAIN map) - 1
<1>1. PICK v \in DOMAIN map : m = Without(map, v)
  BY DEF AfterEviction, OldestOf, Sampled
<1>2. OnlyDrops(m) /\ DOMAIN m = DOMAIN map \ {v}
  BY <1>1, WithoutDrops
<1>3. IsFiniteSet(DOMAIN map)
  BY DEF CacheInv, SizeBounded
<1>4. IsFiniteSet(DOMAIN m) /\ Cardinality(DOMAIN m) = Cardinality(DOMAIN map) - 1
  BY <1>1, <1>2, <1>3, FS_RemoveElement
<1>5. QED BY <1>2, <1>4

\* What put inserts into fits in the capacity together with the new entry.
LEMMA PutHasRoom ==
    ASSUME CacheInv, NEW k, NEW m \in IF MustEvict(k) THEN AfterEviction ELSE {map}
    PROVE  /\ OnlyDrops(m)
           /\ IsFiniteSet(DOMAIN m \cup {k})
           /\ Cardinality(DOMAIN m \cup {k}) <= Capacity
<1>0. /\ IsFiniteSet(DOMAIN map) /\ Cardinality(DOMAIN map) <= Capacity
      /\ Cardinality(DOMAIN map) \in Nat /\ Capacity \in Nat
  BY CacheAssumption, FS_CardinalityType DEF CacheInv, SizeBounded
<1>1. CASE MustEvict(k)
  <2>1. k \notin DOMAIN map /\ m \in AfterEviction
    BY <1>1 DEF MustEvict
  <2>2. /\ OnlyDrops(m) /\ IsFiniteSet(DOMAIN m)
        /\ Cardinality(DOMAIN m) = Cardinality(DOMAIN map) - 1
    BY <2>1, EvictionMakesRoom
  <2>3. k \notin DOMAIN m
    BY <2>1, <2>2 DEF OnlyDrops
  <2>4. QED BY <1>0, <2>2, <2>3, FS_AddElement
<1>2. CASE ~MustEvict(k)
  <2>1. m = map /\ OnlyDrops(m)
    BY <1>2 DEF OnlyDrops
  <2>2. CASE k \in DOMAIN map
    BY <1>0, <2>1, <2>2, FS_AddElement
  <2>3. CASE Cardinality(DOMAIN map) < Capacity
    BY <1>0, <2>1, <2>3, FS_AddElement
  <2>4. QED BY <1>0, <1>2, <2>2, <2>3 DEF MustEvict
<1>3. QED BY <1>1, <1>2

-----------------------------------------------------------------------------
\* The cache starts empty (ResultCache::with_max_entries).
THEOREM InitCacheInv == CacheInit => CacheInv
<1> SUFFICES ASSUME CacheInit PROVE CacheInv
  OBVIOUS
<1>1. DOMAIN map = {} /\ 0 \in Nat
  BY DEF CacheInit
<1>2. SizeBounded
  BY <1>1, FS_EmptySet, CacheAssumption DEF SizeBounded
<1>3. CacheTypeOK /\ EntriesAreLastPut
  BY <1>1 DEF CacheInit, CacheTypeOK, EntriesAreLastPut
<1>4. QED BY <1>2, <1>3 DEF CacheInv

\* A hit moves the time of last use of one entry and nothing else.
LEMMA HitKeepsInv ==
    ASSUME CacheInv, NEW k \in Keys, Hit(k)
    PROVE  CacheInv'
<1>1. /\ k \in DOMAIN map /\ map[k] \in Entry /\ DOMAIN map' = DOMAIN map
      /\ map'[k] = [map[k] EXCEPT !.used = now]
      /\ \A j \in DOMAIN map \ {k} : map'[j] = map[j]
  BY DEF Hit, Alive, CacheInv, CacheTypeOK
<1>2. now \in Nat /\ map[k].inserted <= now /\ map[k].inserted \in Nat
  BY <1>1 DEF CacheInv, CacheTypeOK, Entry
<1>3. /\ map'[k] \in Entry /\ map'[k].used = now
      /\ map'[k].inserted = map[k].inserted /\ map'[k].value = map[k].value
  BY ONLY <1>1, <1>2 DEF Entry
<1>4. CacheTypeOK'
  <2>1. DOMAIN map' \subseteq Keys /\ now' \in Nat /\ hits' \in Nat /\ misses' \in Nat
    BY <1>1 DEF Hit, CacheInv, CacheTypeOK
  <2>2. answer' \in Values
    BY <1>1 DEF Hit, Entry
  <2>3. ASSUME NEW j \in DOMAIN map'
        PROVE  map'[j] \in Entry /\ map'[j].inserted <= map'[j].used /\ map'[j].used <= now'
    <3>1. CASE j = k
      BY <1>2, <1>3, <3>1 DEF Hit
    <3>2. CASE j # k
      BY <1>1, <2>3, <3>2 DEF Hit, CacheInv, CacheTypeOK
    <3>3. QED BY <3>1, <3>2
  <2>4. QED BY <2>1, <2>2, <2>3 DEF Hit, CacheInv, CacheTypeOK
<1>5. SizeBounded'
  BY <1>1 DEF CacheInv, SizeBounded
<1>6. EntriesAreLastPut'
  BY <1>1, <1>3 DEF Hit, CacheInv, EntriesAreLastPut
<1>7. QED BY <1>4, <1>5, <1>6 DEF CacheInv

\* A miss at most drops one entry.
LEMMA MissKeepsInv ==
    ASSUME CacheInv, NEW k \in Keys, Miss(k)
    PROVE  CacheInv'
<1>1. OnlyDrops(map') /\ DOMAIN map' = DOMAIN map \ {k}
  BY WithoutDrops DEF Miss
<1>2. CacheTypeOK'
  BY <1>1 DEF Miss, OnlyDrops, CacheInv, CacheTypeOK
<1>3. SizeBounded'
  <2>1. IsFiniteSet(DOMAIN map) /\ Cardinality(DOMAIN map) \in Nat
    BY FS_CardinalityType DEF CacheInv, SizeBounded
  <2>2. /\ IsFiniteSet(DOMAIN map \ {k})
        /\ Cardinality(DOMAIN map \ {k}) <= Cardinality(DOMAIN map)
    BY <2>1, FS_Subset
  <2>3. IsFiniteSet(DOMAIN map') /\ Cardinality(DOMAIN map') <= Cardinality(DOMAIN map)
    BY <1>1, <2>2
  <2>4. Cardinality(DOMAIN map') \in Nat /\ Cardinality(DOMAIN map) <= Capacity /\ Capacity \in Nat
    BY <2>3, FS_CardinalityType, CacheAssumption DEF CacheInv, SizeBounded
  <2>5. QED BY <2>1, <2>3, <2>4 DEF SizeBounded
<1>4. EntriesAreLastPut'
  BY <1>1 DEF Miss, OnlyDrops, CacheInv, EntriesAreLastPut
<1>5. QED BY <1>2, <1>3, <1>4 DEF CacheInv

\* A put replaces one entry, and drops at most one other.
LEMMA PutKeepsInv ==
    ASSUME CacheInv, NEW k \in Keys, NEW v \in Values, Put(k, v)
    PROVE  CacheInv'
<1> DEFINE e == [value |-> v, inserted |-> now, used |-> now]
           s == [value |-> v, at |-> now]
<1>0. now \in Nat
  BY DEF CacheInv, CacheTypeOK
<1>1. PICK m \in IF MustEvict(k) THEN AfterEviction ELSE {map} : map' = With(m, k, e)
  BY DEF Put
<1>2. /\ OnlyDrops(m) /\ IsFiniteSet(DOMAIN m \cup {k})
      /\ Cardinality(DOMAIN m \cup {k}) <= Capacity
  BY PutHasRoom
<1>3. /\ DOMAIN map' = DOMAIN m \cup {k} /\ map'[k] = e
      /\ \A j \in DOMAIN m \ {k} : map'[j] = map[j]
  <2>1. \A x : /\ DOMAIN With(m, k, x) = DOMAIN m \cup {k} /\ With(m, k, x)[k] = x
              /\ \A j \in DOMAIN m \ {k} : With(m, k, x)[j] = m[j]
    BY DEF With
  <2>2. \A j \in DOMAIN m \ {k} : m[j] = map[j]
    BY <1>2 DEF OnlyDrops
  <2>3. QED BY ONLY <1>1, <2>1, <2>2
<1>4. /\ now' = now /\ hits' = hits /\ misses' = misses /\ answer' = answer
      /\ stored' = [stored EXCEPT ![k] = s]
  BY DEF Put
<1>5. e \in Entry /\ e.inserted = now /\ e.used = now /\ e.value = v
  BY ONLY <1>0, v \in Values DEF Entry
<1>6. s \in [value : Values, at : Nat] /\ s.value = v /\ s.at = now /\ s # Nothing
  BY <1>0, CacheAssumption
<1>7. CacheTypeOK'
  <2>1. DOMAIN map' \subseteq Keys
    BY <1>2, <1>3 DEF OnlyDrops, CacheInv, CacheTypeOK
  <2>2. stored' \in [Keys -> {Nothing} \cup [value : Values, at : Nat]]
    BY <1>4, <1>6 DEF CacheInv, CacheTypeOK
  <2>3. ASSUME NEW j \in DOMAIN map'
        PROVE  map'[j] \in Entry /\ map'[j].inserted <= map'[j].used /\ map'[j].used <= now'
    <3>1. CASE j = k
      BY <1>0, <1>3, <1>4, <1>5, <3>1
    <3>2. CASE j # k
      BY <1>2, <1>3, <1>4, <2>3, <3>2 DEF OnlyDrops, CacheInv, CacheTypeOK
    <3>3. QED BY <3>1, <3>2
  <2>4. QED BY <1>4, <2>1, <2>2, <2>3 DEF CacheInv, CacheTypeOK
<1>8. SizeBounded'
  BY <1>2, <1>3 DEF SizeBounded
<1>9. EntriesAreLastPut'
  <2>1. stored'[k] = s /\ \A j \in Keys \ {k} : stored'[j] = stored[j]
    BY <1>4 DEF CacheInv, CacheTypeOK
  <2>2. ASSUME NEW j \in DOMAIN map'
        PROVE  /\ stored'[j] # Nothing
               /\ map'[j].value = stored'[j].value /\ map'[j].inserted = stored'[j].at
    <3>1. CASE j = k
      BY <1>3, <1>5, <1>6, <2>1, <3>1
    <3>2. CASE j # k
      BY <1>2, <1>3, <2>1, <2>2, <3>2 DEF OnlyDrops, CacheInv, CacheTypeOK, EntriesAreLastPut
    <3>3. QED BY <3>1, <3>2
  <2>3. QED BY <2>2 DEF EntriesAreLastPut
<1>10. QED BY <1>7, <1>8, <1>9 DEF CacheInv

-----------------------------------------------------------------------------
\* put, get, eviction and expiry keep the cache within its size and true to the last puts.
THEOREM NextCacheInv == CacheInv /\ [CacheNext]_cacheVars => CacheInv'
<1> SUFFICES ASSUME CacheInv, [CacheNext]_cacheVars PROVE CacheInv'
  OBVIOUS
<1>1. ASSUME NEW k \in Keys, Get(k) PROVE CacheInv'
  BY <1>1, HitKeepsInv, MissKeepsInv DEF Get
<1>2. ASSUME NEW k \in Keys, NEW v \in Values, Put(k, v) PROVE CacheInv'
  BY <1>2, PutKeepsInv
<1>3. CASE Tick
  <2>1. CacheTypeOK'
    <3>1. \A j \in DOMAIN map : map[j].used \in Nat
      BY DEF CacheInv, CacheTypeOK, Entry
    <3>2. QED BY <1>3, <3>1 DEF Tick, CacheInv, CacheTypeOK
  <2>2. QED BY <1>3, <2>1 DEF Tick, CacheInv, SizeBounded, EntriesAreLastPut
<1>4. CASE UNCHANGED cacheVars
  BY <1>4 DEF cacheVars, CacheInv, CacheTypeOK, SizeBounded, EntriesAreLastPut
<1>5. QED BY <1>1, <1>2, <1>3, <1>4 DEF CacheNext

\* So the cache is always within its size, and what it has is what was last put.
THEOREM CacheCorrect == CacheSpec => []CacheInv
BY InitCacheInv, NextCacheInv, PTL DEF CacheSpec

\* Every reachable state has its types, and no entry is used before it is put.
THEOREM CacheTypeCorrect == CacheSpec => []CacheTypeOK
BY CacheCorrect, PTL DEF CacheInv

\* However put, get and expiry alternate, the cache never outgrows Capacity.
THEOREM NeverOutgrows == CacheSpec => []SizeBounded
BY CacheCorrect, PTL DEF CacheInv

\* No sequence of calls makes an entry differ from the last put of its key.
THEOREM KeepsLastPut == CacheSpec => []EntriesAreLastPut
BY CacheCorrect, PTL DEF CacheInv

\* The cache implements CachePromise: what get returns is the value put last
\* under that very key, no more than TTL ago; all else is a miss.
THEOREM CacheKeepsPromise == CacheSpec => KeepsPromise
<1>1. CacheInit => Promise!Init
  BY DEF CacheInit, Promise!Init
<1>2. CacheInv /\ [CacheNext]_cacheVars => [Promise!Next]_(Promise!vars)
  <2> SUFFICES ASSUME CacheInv, [CacheNext]_cacheVars PROVE [Promise!Next]_(Promise!vars)
    OBVIOUS
  <2>1. ASSUME NEW k \in Keys, Hit(k) PROVE Promise!Next
    <3>1. /\ stored[k] # Nothing /\ map[k].value = stored[k].value
          /\ now - stored[k].at <= TTL
      BY <2>1 DEF Hit, Alive, CacheInv, EntriesAreLastPut
    <3>2. Promise!Lookup(k)
      BY <2>1, <3>1 DEF Hit, Promise!Lookup, Promise!Valid
    <3>3. QED BY <3>2 DEF Promise!Next
  <2>2. ASSUME NEW k \in Keys, Miss(k) PROVE Promise!Next
    BY <2>2 DEF Miss, Promise!Next, Promise!Lookup
  <2>3. ASSUME NEW k \in Keys, NEW v \in Values, Put(k, v) PROVE Promise!Next
    <3>1. Promise!Store(k, v)
      BY <2>3 DEF Put, Promise!Store
    <3>2. QED BY <3>1 DEF Promise!Next
  <2>4. CASE Tick
    BY <2>4 DEF Tick, Promise!Tick, Promise!Next
  <2>5. CASE UNCHANGED cacheVars
    BY <2>5 DEF cacheVars, Promise!vars
  <2>6. QED BY <2>1, <2>2, <2>3, <2>4, <2>5 DEF CacheNext, Get
<1>3. QED BY <1>1, <1>2, CacheCorrect, PTL DEF CacheSpec, KeepsPromise, Promise!Spec

\* Whoever loses its place to a new key in evict_lru was the least recently used of
\* its sample: SampleSize - 1 other entries, or all of them, were used no earlier.
THEOREM EvictionsAreOld == CacheSpec => EvictsOldOfSample
<1> DEFINE Younger(v) == {j \in DOMAIN map \ {v} : map[j].used >= map[v].used}
           VictimIsOld(v) == \/ Cardinality(Younger(v)) >= SampleSize - 1
                             \/ Younger(v) = DOMAIN map \ {v}
<1>1. ASSUME CacheInv, [CacheNext]_cacheVars, NEW v \in DOMAIN map \ DOMAIN map',
             NEW n \in DOMAIN map', n \notin DOMAIN map
      PROVE  VictimIsOld(v)
  <2>1. PICK k \in Keys, x \in Values : Put(k, x)
    <3>1. ASSUME NEW k \in Keys, Get(k) PROVE FALSE
      <4>1. CASE Hit(k)
        BY <1>1, <4>1 DEF Hit
      <4>2. CASE Miss(k)
        BY <1>1, <4>2 DEF Miss, Without
      <4>3. QED BY <3>1, <4>1, <4>2 DEF Get
    <3>2. CASE Tick \/ UNCHANGED cacheVars
      BY <1>1, <3>2 DEF Tick, cacheVars
    <3>3. QED BY <1>1, <3>1, <3>2 DEF CacheNext
  <2>2. PICK m \in IF MustEvict(k) THEN AfterEviction ELSE {map} :
            map' = With(m, k, [value |-> x, inserted |-> now, used |-> now])
    BY <2>1 DEF Put
  <2>3. DOMAIN map' = DOMAIN m \cup {k}
    BY <2>2 DEF With
  <2>4. m \in AfterEviction
    BY <1>1, <2>2, <2>3
  <2>5. PICK s \in SUBSET DOMAIN map : \E w \in OldestOf(s) : Sampled(s) /\ m = Without(map, w)
    BY <2>4 DEF AfterEviction
  <2>6. v \in OldestOf(s) /\ Sampled(s)
    BY <1>1, <2>3, <2>5 DEF Without
  <2>7. v \in s /\ \A j \in s : map[v].used <= map[j].used
    BY <2>6 DEF OldestOf
  <2>8. \A j \in DOMAIN map : map[j].used \in Nat
    BY <1>1 DEF CacheInv, CacheTypeOK, Entry
  <2>9. s \ {v} \subseteq Younger(v)
    BY <2>7, <2>8
  <2>10. IsFiniteSet(DOMAIN map) /\ IsFiniteSet(s) /\ IsFiniteSet(Younger(v))
    <3>1. IsFiniteSet(DOMAIN map) /\ Younger(v) \subseteq DOMAIN map
      BY <1>1 DEF CacheInv, SizeBounded
    <3>2. QED BY <3>1, FS_Subset
  <2>11. CASE Cardinality(s) = SampleSize
    <3>1. Cardinality(s \ {v}) = Cardinality(s) - 1
      BY <2>7, <2>10, FS_RemoveElement
    <3>2. /\ Cardinality(s \ {v}) \in Nat /\ Cardinality(Younger(v)) \in Nat
          /\ Cardinality(s \ {v}) <= Cardinality(Younger(v))
      BY <2>9, <2>10, FS_Subset, FS_CardinalityType
    <3>3. QED BY <2>11, <3>1, <3>2, CacheAssumption
  <2>12. CASE s = DOMAIN map
    BY <2>9, <2>12
  <2>13. QED BY <2>6, <2>11, <2>12 DEF Sampled
<1>2. CacheInv /\ [CacheNext]_cacheVars =>
          [\A v \in DOMAIN map \ DOMAIN map' :
              (\E k \in DOMAIN map' : k \notin DOMAIN map) => VictimIsOld(v)]_cacheVars
  BY <1>1
<1>3. QED BY <1>2, CacheCorrect, PTL DEF CacheSpec, EvictsOldOfSample
=============================================================================
